\* A caller and a callee; scopes that the operator and the recovery writer start, edges
\* that a recording adds and that make the two recursive, backoff and retries, a restart.
SPECIFICATION FairSpec
CONSTANTS
    left = left
    right = right
    leaf = leaf
    None = None
    Functions = {left, leaf}
    Edges <- ChainEdges
    Observed <- CallBack
    Skipped = {}
    Codeless = {left}
    Propagating = {}
    Runs = {r0, r1}
    Legacy = r0
    Workers = {w1, w2}
    Decisions = FALSE
    Escalation = FALSE
    MaxAttempts = 1
    AttemptCap = 2
    MaxSaveErrors = 0
    MaxRestarts = 1
    Operator = {"resume", "scope", "reanalyze"}
INVARIANTS
    WaitsForTheClock
    LostIsHeldBack
    CalleesStaySettled
PROPERTIES
    CalleesFirst
    QueueDrains
    DrainedBinaryRecovers
CHECK_DEADLOCK FALSE
