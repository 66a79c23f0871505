\* Is the base of an incremental backup a backup of its database?
SPECIFICATION Spec
CONSTANTS
  Creators = {w}
  Deleters = {}
  Chainers = {r}
  Readers = {}
  Ids = {1, 2}
  NumDBs = 2
  Provider = "s3"
  Flaky = FALSE
  MaxTime = 0
INVARIANTS
  BaseOfSameDB
CHECK_DEADLOCK FALSE
