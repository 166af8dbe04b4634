CONSTANTS
    Segments = {1}
    MaxRevision = 1
    Speakers = {alice, bob}
    Keys = {}
    Wordings = {w1}
    MaxTurnsPerBatch = 2
    GateLimits = {1}
    MaxClaimsPerHour = 1
    MaxBurstClaims = 1
    MaxCompleted = 4
    MaxRemounts = 1
    MeetingShown = TRUE
SPECIFICATION PipelineSpec
INVARIANTS
    PipelineInv
    BegunIsDurable
CHECK_DEADLOCK FALSE
