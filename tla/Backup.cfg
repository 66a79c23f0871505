\* Every connector into every storage while the database is written to.
SPECIFICATION FairSpec
CONSTANTS
  Pages = 4
  MaxCommits = 3
INVARIANTS
  TypeOK
  SuccessIsComplete
  MetadataSealsStream
  BlockedWriterMeansFailedStore
PROPERTIES
  Advances
  ImplementsTransfer
CHECK_DEADLOCK FALSE
