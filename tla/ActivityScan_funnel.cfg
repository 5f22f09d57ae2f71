SPECIFICATION ScanSpec
CONSTANTS
  Scan = {a, b}
  Signal = {mail, event}
  Calendar = {event}
  Candidate = {trip}
  Level = {"low", "high"}
  Stage2 = {TRUE, FALSE}
  Ceiling = 1
  MinObservations = 1
  Heartbeat = 1
  MaxAge = 1
  Distraction = {"chronic", "hard"}
  Fault = {"lose", "skip", "fail", "restart", "close"}
  MaxFaults = 1
INVARIANTS
  OneScan
PROPERTIES
  UrgentIsRead
  SignalsTakenUp
CHECK_DEADLOCK FALSE
