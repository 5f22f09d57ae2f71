SPECIFICATION Spec
CONSTANTS
  Row = {r1, r2}
  Recurring = {q1}
  None = none
  Kind = {"task"}
  Batch = 3
  DayLength = 2
  Cadence = 1
  Quiet = {}
  MaxDelay = 1
  Disturbance = {"gate", "gatedBoot"}
  MaxTime = 2
  MaxText = 0
  MaxCrashes = 1
SYMMETRY RowSymmetry
INVARIANTS
  NoOrphans
CHECK_DEADLOCK FALSE
