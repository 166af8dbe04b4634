SPECIFICATION FairSpec
CONSTANTS
    Sources = {mic, sys}
    Required = {mic}
    FrameBytes = {2}
    MaxBytes = 2
    MaxCrashes = 2
    MaxFaults = 1
    Legacy = TRUE
INVARIANTS
    JournalInv
    ResolvedAudioOnDisk
    ReplayedUntilAcknowledged
PROPERTIES
    DirectoriesSettle
