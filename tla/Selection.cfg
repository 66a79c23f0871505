\* Does a backup hold the tables that were asked for?
SPECIFICATION Spec
CONSTANTS
  Pages = 1
  MaxCommits = 0
  Tables = {t1, t2}
  Databases = {{t1, t2}}
  DBTypes = {"mongodb"}
  Levels = {"info"}
INVARIANT DumpHasSelection
CHECK_DEADLOCK FALSE
