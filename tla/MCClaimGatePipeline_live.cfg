CONSTANTS
    Segments = {1}
    MaxRevision = 0
    Speakers = {alice}
    Keys = {k1}
    Wordings = {w1}
    MaxTurnsPerBatch = 1
    GateLimits = {1}
    MaxClaimsPerHour = 1
    MaxBurstClaims = 1
    MaxCompleted = 4
    MaxRemounts = 1
    MeetingShown = FALSE
SPECIFICATION FairPipelineSpec
PROPERTIES
    ImplementsClaimGate
    
CHECK_DEADLOCK FALSE
