\* Goroutines that add, remove and list tasks, start and stop.
SPECIFICATION FairSpec
CONSTANTS
  Clients = {g1, g2}
  Adders = {g1}
  Removers = {g2}
  Listers = {g2}
  Switchers = {g1, g2}
  Names = {"daily", "weekly"}
  Ids = {1}
  MaxLen = 3
INVARIANTS
  TypeOK
  NoRace
  OneStart
  WhoMayStepCan
PROPERTIES
  ImplementsTaskList
  CallsReturn
\* CallsReturn is stronger than the absence of a deadlock.
CHECK_DEADLOCK FALSE
