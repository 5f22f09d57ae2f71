SPECIFICATION FairSpec
CONSTANTS
  Row = {r1, r2, r3, r4}
  Run = {u1, u2}
  None = none
  MaxRetries = 1
  MaxRequeues = 1
  Threshold = 1
  TTL = 1
  Backoff = 1
  Disturbance = {"boundary", "lose", "release", "hang"}
  MaxDisturbed = 1
INVARIANTS
  OpenedHonestly
PROPERTIES
  LeaseRespected
  MorningEnds
  DayOpens
CHECK_DEADLOCK FALSE
