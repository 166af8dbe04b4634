CONSTANTS
    Segments = {1, 2, 3}
    MaxRevision = 0
    Speakers = {alice}
    Keys = {k1, k2}
    Wordings = {w1}
    MaxTurnsPerBatch = 2
    GateLimits = {1, 2}
    MaxClaimsPerHour = 2
    MaxBurstClaims = 1
    MaxCompleted = 2
    RecoverableBatches <- RecoveredPair
SPECIFICATION HostSpec
INVARIANTS
    HostInv
    NothingDropped
    WorkIsScheduled
    KnownBatchesExact
PROPERTIES
    StepsKeepPromises
CHECK_DEADLOCK FALSE
