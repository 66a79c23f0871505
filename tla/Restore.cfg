\* Restores that may overlap, fail and crash, through every connector.
SPECIFICATION FairSpec
CONSTANTS
  Total = 2
  MaxCalls = 2
INVARIANTS
  TypeOK
  SuccessIsWhole
  LiveIsOldOrDelivered
  NilCheckExcludes
  PanicNeedsOverlap
  
  BlockedWriterMeansFailed
PROPERTIES
  Advances
  ImplementsRestoration
  RestoreReturns
CHECK_DEADLOCK FALSE
