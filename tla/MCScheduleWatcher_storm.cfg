SPECIFICATION Spec
CONSTANTS
  Row = {r1, r2}
  Recurring = {q1}
  None = none
  Kind = {"dm", "dm_session", "approval"}
  Batch = 2
  DayLength = 2
  Cadence = 2
  Quiet = {1}
  MaxDelay = 0
  Disturbance = {"gate", "cap", "overflow", "gatedBoot", "patch", "rule", "throw"}
  MaxTime = 2
  MaxText = 1
  MaxCrashes = 1
SYMMETRY RowSymmetry
INVARIANTS
  WatcherTypeOK
  OneHolderPerRow
  NotReplayed
PROPERTIES
  SettledStays
CHECK_DEADLOCK FALSE
