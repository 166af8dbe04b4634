CONSTANTS
    Segments = {s1, s2}
    MaxRevision = 1
    Speakers = {alice, bob}
    Keys = {k1}
    Wordings = {w1, w2}
SPECIFICATION StoreSpec
INVARIANTS
    StoreTypeOK
    GatedAtMostOnce
    ProcessedIsHighestGated
    ClaimsOnlyFromDoneBatches
PROPERTIES
    DurableRecordsAreImmutable
CHECK_DEADLOCK FALSE
