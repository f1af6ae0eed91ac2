\* A recording published while analysis runs.
SPECIFICATION Spec
CONSTANTS
    left = left
    right = right
    leaf = leaf
    None = None
    Functions = {left, leaf}
    Edges <- ChainEdges
    Observed <- CallBack
    Skipped = {}
    Codeless = {}
    Propagating = {}
    Runs = {r0}
    Legacy = r0
    Workers = {w1, w2}
    Decisions = FALSE
    Escalation = FALSE
    MaxAttempts = 2
    AttemptCap = 3
    MaxSaveErrors = 0
    MaxRestarts = 0
    Operator = {"resume", "publish"}
SYMMETRY Symmetry
PROPERTIES
    GraphFixedForRequests
CHECK_DEADLOCK FALSE
