SPECIFICATION Spec
CONSTANTS
    Functions = {f1}
    MaxPasses = 2
    MaxAttempts = 2
    MaxResults = 2
    MaxRuns = 1
    MaxCrashes = 1
    MaxActs = 1
    Acts <- AllActs
CHECK_DEADLOCK FALSE
INVARIANTS
    RecoveryTypeOK
    OneWritebackPerPass
    ProposalsAreDecided
    FreshEvidence
PROPERTIES
    DecisionsPreventWrites
    AuditIsTrue
    RecoveryEnds
