SPECIFICATION BackgroundSpec
CONSTANTS
  t1 = t1
  t2 = t2
  own1 = own1
  own2 = own2
  Tasks = {t1, t2}
  Sites = {own1, own2}
  SiteOf <- OwnSites
  MaxConcurrent = 1
  None = none
  May <- Lives
  MaxAsks = 1
  MaxRestarts = 1
  Channelless = {t2}
  Timeline = {TRUE, FALSE}
  ResumeAcrossRestart = {TRUE, FALSE}
INVARIANTS
  SlotsRespected
  NobodyForgotten
  QuestionsBelong
  CancelReachesRun
  ToldOnce
PROPERTIES
  FirstEndStays
  TaskEnds
  ResultsAreSent
CHECK_DEADLOCK FALSE
