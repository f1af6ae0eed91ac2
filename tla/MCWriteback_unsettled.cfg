SPECIFICATION WritebackSpec
CONSTANTS
    top = top
    leaf = leaf
    Functions = {leaf}
    Calls = {}
    Results = {r1}
    None = None
    Fields = {"name", "summary"}
    MaxRevision = 1
    Events = {"review", "refresh"}
    NameOps = {n1}
    TypeOps = {}
    NoteOps = {}
    Signing = {}
    MaxEdits = 0
SYMMETRY Interchangeable
INVARIANT UncertainCanBeSettled
CHECK_DEADLOCK FALSE
