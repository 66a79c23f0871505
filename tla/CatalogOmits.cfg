\* Does ListBackups return every backup when a request fails?
SPECIFICATION Spec
CONSTANTS
  Creators = {w}
  Deleters = {}
  Chainers = {}
  Readers = {r}
  Ids = {1}
  NumDBs = 1
  Provider = "s3"
  Flaky = TRUE
  MaxTime = 0
INVARIANTS
  ListingIsBetween
CHECK_DEADLOCK FALSE
