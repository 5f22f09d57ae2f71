SPECIFICATION BrowserSpec
CONSTANTS
  t1 = t1
  t2 = t2
  t3 = t3
  shop = shop
  own3 = own3
  Tasks = {t1, t2, t3}
  Sites = {shop, own3}
  SiteOf <- SharedSite
  MaxConcurrent = 2
  None = none
  May <- Lives
  MaxAsks = 1
  MaxRestarts = 1
INVARIANTS
  SlotsRespected
  NothingLeftBehind
  CancelReachesRun
PROPERTIES
  FirstEndStays
  TaskEnds
CHECK_DEADLOCK FALSE
