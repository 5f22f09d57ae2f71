SPECIFICATION ScanSpec
CONSTANTS
  Scan = {a, b}
  Signal = {mail}
  Calendar = {}
  Candidate = {trip}
  Level = {"low", "high"}
  Stage2 = {FALSE}
  Ceiling = 0
  MinObservations = 1
  Heartbeat = 2
  MaxAge = 1
  Distraction = {}
  Fault = {}
  MaxFaults = 0
INVARIANTS
  CandidatesWait
CHECK_DEADLOCK FALSE
