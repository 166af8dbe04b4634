SPECIFICATION FairSpec
CONSTANTS
  Windows = {w1, w2}
  Meetings = {m1, m2}
  Conns = {c1, c2}
  None = None
  Recovered = {}
  MaxPending = 1
  MaxFrames = 2
  MaxFaults = 1
  MaxPortCloses = 0
  MaxReloads = 0
  MaxDisturbances = 1
  EarlyLeave = FALSE
  Deletes = FALSE
INVARIANTS
  CaptureInv
  OwnershipExclusive

  
  
CHECK_DEADLOCK FALSE
