\* Does DeleteBackup remove the backup that was meant?
SPECIFICATION Spec
CONSTANTS
  Creators = {w}
  Deleters = {r}
  Chainers = {}
  Readers = {}
  Ids = {1, 2}
  NumDBs = 1
  Provider = "local"
  Flaky = FALSE
  MaxTime = 0
PROPERTIES
  RemovesOnlyWanted
CHECK_DEADLOCK FALSE
