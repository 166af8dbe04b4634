SPECIFICATION FairSpec
CONSTANTS
    Turns = {t1}
    Speakers = {A, B}
    NoSpeaker = NoSpeaker
    Attempts = 3
    MaxText = 3
    MaxRelabels = 1
    EarlyRelabels = FALSE
    MaxFaults = 3
    SpeakerFaults = 1
INVARIANTS
    TranscriptInv
    
    

    
CHECK_DEADLOCK FALSE
