\* Does copying a live SQLite file give a consistent dump?
SPECIFICATION Spec
CONSTANTS
  Pages = 2
  MaxCommits = 1
INVARIANT DumpIsSnapshot
CHECK_DEADLOCK FALSE
