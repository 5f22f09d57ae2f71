SPECIFICATION FairSpec
CONSTANTS
  dm1 = dm1
  chat = chat
  briefing1 = briefing1
  briefing2 = briefing2
  routine = routine
  Task = {dm1, chat, briefing1, briefing2, routine}
  Reactive = {dm1, chat}
  Permits <- TightPermits
  Key = {1, 2}
  Wanted <- MCWanted
  None = none
INVARIANTS
  FirstComeFirstServed
  ChainsExact
  PermitsConserved
  PermitBeforeGates
  NothingStuck
PROPERTIES
  EveryEventEnds
CHECK_DEADLOCK FALSE
