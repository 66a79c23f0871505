\* A bucket: one process stores and deletes, one looks up.
SPECIFICATION FairSpec
CONSTANTS
  Creators = {w}
  Deleters = {w}
  Chainers = {r}
  Readers = {r}
  Ids = {1, 2}
  NumDBs = 1
  Provider = "s3"
  Flaky = FALSE
  MaxTime = 1
INVARIANTS
  TypeOK
  ListingIsBetween
  KnownBackupIsFound
  BaseIsLatestFull
PROPERTIES
  ImplementsVault
  OperationsEnd
CHECK_DEADLOCK FALSE
