SPECIFICATION Spec
CONSTANTS
    top = top
    leaf = leaf
    Functions = {top, leaf}
    Calls <- Calling
    Results = {r1, r2, r3}
    None = None
    Fields = {"summary"}
    MaxRevision = 1
    Events = {"correct"}
SYMMETRY Interchangeable
INVARIANT CorrectionsSpread
CHECK_DEADLOCK FALSE
