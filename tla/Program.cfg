\* One run of dbbackup with every command, database, storage and signal.
SPECIFICATION FairSpec
CONSTANTS
  Pages = 1
  MaxCommits = 0
  Tables = {t1, t2}
  Databases = {{}, {t1, t2}}
  DBTypes = {"sqlite", "mysql", "postgresql", "mongodb"}
  Levels = {"error", "verbose"}
INVARIANTS
  TypeOK
  ExitStatusIsTruth
  LogTellsTheEnd
  
PROPERTIES
  ProgramEnds
  WaitsEnd
CHECK_DEADLOCK FALSE
