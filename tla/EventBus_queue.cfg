SPECIFICATION FairSpec
CONSTANTS
  Event = {e1, e2, e3, e4}
  Consumer = {c1, c2}
  Priority = {1, 2}
  MaxSize = 2
INVARIANTS
  TypeOK
  WaitersExact
  NoLostWakeup
PROPERTIES
  CloseReleasesAll
  ImplementsEventQueue
