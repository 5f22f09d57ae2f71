SPECIFICATION FairSpec
CONSTANTS
  Row = {r1, r2}
  Recurring = {q1}
  None = none
  Kind = {"dm", "dm_session", "deferrable"}
  Batch = 2
  DayLength = 2
  Cadence = 1
  Quiet = {1}
  MaxDelay = 1
  Disturbance = {"gate", "cap", "throw"}
  MaxTime = 2
  MaxText = 0
  MaxCrashes = 1
INVARIANTS
  NoOrphans
  OneActivePerRecurring
PROPERTIES
  ClaimsSettle
  DueTakenUp
  RecurringAlive
CHECK_DEADLOCK FALSE
