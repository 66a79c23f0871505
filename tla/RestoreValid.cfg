\* Does a backup found valid restore the whole database?
SPECIFICATION Spec
CONSTANTS
  Total = 2
  MaxCalls = 1
INVARIANT ValidRestoresWhole
CHECK_DEADLOCK FALSE
