SPECIFICATION FairSpec
CONSTANTS
    j1 = j1
    j2 = j2
    m1 = m1
    Jobs = {j1, j2}
    Meetings = {m1}
    MeetingOf <- OneMeeting
    QueueOf <- TwoQueues
    MaxFaults = 2
    MaxRestarts = 2
INVARIANTS
    ReportedIsDurable
    ReleasedStaysGone
    
PROPERTIES
    JobsSettleForGood
