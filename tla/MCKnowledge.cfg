SPECIFICATION Spec
CONSTANTS
    top = top
    leaf = leaf
    Functions = {top, leaf}
    Calls <- SelfAlso
    Results = {r1, r2, r3}
    None = None
    Fields = {"summary"}
    MaxRevision = 1
    Events = {"review", "correct", "refresh", "import", "assess"}
SYMMETRY Interchangeable
INVARIANTS
    StaleSpreads
    RejectionSpreads
PROPERTIES
    DecisionsStand
    PeopleKeepTheLastWord
CHECK_DEADLOCK FALSE
