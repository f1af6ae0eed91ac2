\* One function and an operation of each kind: change sets, type plans and notes, with
\* everything people, analysis and an editor in Ghidra do meanwhile.
SPECIFICATION WritebackSpec
CONSTANTS
    top = top
    leaf = leaf
    Functions = {leaf}
    Calls = {}
    Results = {r1, r2}
    None = None
    MaxRevision = 1
    Events = {"review", "correct", "refresh", "assess", "import"}
    NameOps = {n1}
    TypeOps = {t1}
    NoteOps = {o1}
    Signing = {r1, r2}
    MaxEdits = 1
    Fields = {"summary"}
SYMMETRY Interchangeable
INVARIANTS
    WritebackTypeOK
    OneWriter
    ReviewedIsWritten
    SavedTypesAreMarked
    IndexMatchesGhidra
PROPERTY EditsSurvive
CHECK_DEADLOCK FALSE
