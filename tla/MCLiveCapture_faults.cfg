SPECIFICATION Spec
CONSTANTS
  Windows = {w1, w2}
  Meetings = {m1, m2}
  Conns = {c1}
  None = None
  Recovered = {m2}
  MaxPending = 1
  MaxFrames = 1
  MaxFaults = 0
  MaxPortCloses = 1
  MaxReloads = 1
  MaxDisturbances = 1
  EarlyLeave = TRUE
  Deletes = TRUE
SYMMETRY Symmetry
INVARIANTS
  OwnershipExclusive
CHECK_DEADLOCK FALSE
