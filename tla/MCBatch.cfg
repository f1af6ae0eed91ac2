\* A caller and a callee; up to four processes, among them the server and the
\* console commands, each of which may stop at any step.
SPECIFICATION BatchSpec
CONSTANTS
    left = left
    leaf = leaf
    None = None
    Functions = {left, leaf}
    Edges <- ChainEdges
    Observed <- CallBack
    Skipped = {}
    Codeless = {left}
    Propagating = {}
    Runs = {r0}
    Legacy = r0
    Workers = {w1}
    Decisions = FALSE
    Escalation = FALSE
    MaxAttempts = 2
    AttemptCap = 2
    MaxSaveErrors = 0
    MaxRestarts = 3
    Operator = {"resume", "retry"}
    Batches = {b1}
    BatchSize = 2
INVARIANTS
    PaidOnce
    BatchedHasAWayOut
PROPERTIES
    CalleesBeforeBatches
CHECK_DEADLOCK FALSE
