SPECIFICATION Spec
CONSTANTS
  Row = {r1}
  Recurring = {}
  None = none
  Kind = {"approval"}
  Batch = 3
  DayLength = 2
  Cadence = 1
  Quiet = {}
  MaxDelay = 1
  Disturbance = {}
  MaxTime = 2
  MaxText = 0
  MaxCrashes = 0
SYMMETRY RowSymmetry
INVARIANTS
  ApprovalRequired
CHECK_DEADLOCK FALSE
