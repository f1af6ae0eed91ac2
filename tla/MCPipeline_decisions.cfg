\* A caller and a callee an older extraction skipped, with a decision provider and
\* an escalation model: every stage, and every control action on one run.
SPECIFICATION Spec
CONSTANTS
    left = left
    right = right
    leaf = leaf
    None = None
    Functions = {left, leaf}
    Edges <- ChainEdges
    Observed <- CallBack
    Skipped = {leaf}
    Codeless = {left}
    Propagating = {left}
    Runs = {r0}
    Legacy = r0
    Workers = {w1, w2}
    Decisions = TRUE
    Escalation = TRUE
    MaxAttempts = 1
    AttemptCap = 1
    MaxSaveErrors = 1
    MaxRestarts = 1
    Operator = {"resume", "retry", "publish", "pause", "all"}
SYMMETRY Symmetry
INVARIANTS
    OneWorkerPerJob
PROPERTIES
    VerifiedBeforeCallers
    LockSpec
CHECK_DEADLOCK FALSE
