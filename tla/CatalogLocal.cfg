\* Two databases in a local directory; both processes list and delete.
SPECIFICATION Spec
CONSTANTS
  Creators = {w}
  Deleters = {w, r}
  Chainers = {}
  Readers = {}
  Ids = {1, 2}
  NumDBs = 2
  Provider = "local"
  Flaky = FALSE
  MaxTime = 0
INVARIANTS
  ListingIsBetween
  OrphanSidecarHasCause
CHECK_DEADLOCK FALSE
