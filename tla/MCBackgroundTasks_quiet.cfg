SPECIFICATION BackgroundSpec
CONSTANTS
  t1 = t1
  t2 = t2
  own1 = own1
  own2 = own2
  Tasks = {t1, t2}
  Sites = {own1, own2}
  SiteOf <- OwnSites
  MaxConcurrent = 1
  None = none
  May <- Undisturbed
  MaxAsks = 0
  MaxRestarts = 0
  Channelless = {}
  Timeline = {TRUE}
  ResumeAcrossRestart = {TRUE, FALSE}
PROPERTIES
  OwnerHears
CHECK_DEADLOCK FALSE
