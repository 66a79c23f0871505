------------------------------- MODULE Program ------------------------------
(***************************************************************************)
(* One run of the command dbbackup (cmd/dbbackup/main.go): the search for  *)
(* the configuration, the logger, the signal handler, and one of the       *)
(* commands -backup, -restore and -list, to the exit status.  A backup is  *)
(* a call of Backup as module BackupRun describes it, which runs here      *)
(* between the steps of main and of the signal handler.                    *)
(*                                                                         *)
(* Names are looked up in a configuration file that another process may be *)
(* saving.  What a flag, a file, a service or a file system answers is     *)
(* chosen when it is asked.  Bounds: one SaveConfig, on the file that is   *)
(* about to be read; signals after the first are not followed (the handler *)
(* receives one); the tables of the database do not change, and the flags  *)
(* are read when they are used.                                            *)
(*                                                                         *)
(* A definition named Action_Fault is Action with one plausible bug; no    *)
(* specification uses it.                                                  *)
(***************************************************************************)
EXTENDS Naturals, Sequences

CONSTANTS
  Pages, MaxCommits,   \* of module BackupRun
  Tables,              \* tables that the flags may name
  Databases,           \* for each database that is looked at, its tables
  DBTypes,             \* database types in the configuration
  Levels               \* log levels in it; one may be none of the four

ASSUME ProgramAssumption ==
  /\ Pages \in Nat
  /\ MaxCommits \in Nat
  /\ Databases \subseteq SUBSET Tables
  /\ DBTypes \subseteq {"sqlite", "mysql", "postgresql", "mongodb"}

VARIABLES
  liveRead, staged, pc, result, prod, nread, inflight, errCh, commits, data,
  lost, visible, meta,   \* the call of Backup
  cmd,       \* the flags: "backup", "restore", "list" or "none"
  step,      \* next step of main
  hang,      \* those in a call that never answers: "main", and "writer", the
             \* goroutine of Backup
  place,     \* 0: -config; 1..3: home, current directory, /etc; 4: nowhere
  file,      \* the file at place: "absent", "torn" or "whole"
  saver,     \* a SaveConfig to that file: "idle", "writing" or "done"
  level,     \* level of the logger
  lines,     \* which of "completed" and "failed" stand in the log
  unwritten, \* history: which of them could not be written
  db, store, \* types of the database and of the storage
  tables,    \* tables of the database
  include, exclude,   \* the flags of that name
  dumped,    \* tables that the dump holds
  handler,   \* the signal handler: "none", "waiting" or "cancelled"
  exit       \* how the process ended: "none", "0", "1" or "killed"

B == INSTANCE BackupRun

backup  == <<liveRead, staged, pc, result, prod, nread, inflight, errCh,
             commits, data, lost, visible, meta>>

config  == <<place, file, saver>>
logger  == <<level, lines, unwritten>>
flags   == <<include, exclude>>
options == <<db, store, tables, flags, dumped>>
main    == <<cmd, step, hang, config, logger, options>>
vars    == <<backup, main, handler, exit>>

-----------------------------------------------------------------------------
Init ==
  /\ B!Init
  /\ cmd \in {"backup", "restore", "list", "none"}
  /\ \/ place = 0 /\ step = "load" /\ file \in {"absent", "torn", "whole"}
     \/ place = 1 /\ step = "find" /\ file = "absent"
  /\ saver = "idle"
  /\ level = "none"
  /\ hang = {}
  /\ lines = {}
  /\ unwritten = {}
  /\ db = "none"
  /\ store = "none"
  /\ tables = {}
  /\ include = {}
  /\ exclude = {}
  /\ dumped = {}
  /\ handler = "none"
  /\ exit = "none"

\* main goes on, in a process that has not ended.
GoTo(from, to) ==
  /\ exit = "none"
  /\ step = from
  /\ "main" \notin hang
  /\ step' = to
  /\ UNCHANGED <<cmd, hang, handler, exit>>

Severity == [debug |-> 0, info |-> 1, warning |-> 2, error |-> 3]

\* A level that is none of the four reads as 0 in the map.
Weight(l) == IF l \in DOMAIN Severity THEN Severity[l] ELSE 0

ShouldLog_Above(l, message) == Weight(message) > Weight(l)

ShouldLog(l, message) == Weight(message) >= Weight(l)

\* The line goes to stdout and then to the log file.  If stdout does not take
\* it the file does not get it, and nobody hears of that.
Log(message, line) ==
  /\ \/ ~ShouldLog(level, message) /\ UNCHANGED <<lines, unwritten>>
     \/ /\ ShouldLog(level, message)
        /\ \/ lines' = lines \cup {line} /\ UNCHANGED unwritten
           \/ unwritten' = unwritten \cup {line} /\ UNCHANGED lines
  /\ UNCHANGED level

-----------------------------------------------------------------------------
(* The configuration.                                                      *)

FindConfig_PastEnd ==
  /\ place \in 1..4
  /\ \/ GoTo("find", "find") /\ place' = place + 1 /\ UNCHANGED file
     \/ /\ GoTo("find", "load")
        /\ file' \in {"torn", "whole"}
        /\ UNCHANGED place
  /\ UNCHANGED <<backup, saver, logger, options>>

\* os.Stat at one place after the other; an unknown home counts as absent.
FindConfig ==
  /\ place \in 1..3
  /\ \/ GoTo("find", "find") /\ place' = place + 1 /\ UNCHANGED file
     \/ /\ GoTo("find", "load")
        /\ file' \in {"torn", "whole"}
        /\ UNCHANGED place
  /\ UNCHANGED <<backup, saver, logger, options>>

\* SaveConfig, by another process: os.WriteFile empties the file, then
\* writes it.  The process may die between the two.
SaveTruncates ==
  /\ exit = "none" /\ step = "load"
  /\ saver = "idle"
  /\ saver' = "writing"
  /\ file' = "torn"
  /\ UNCHANGED <<backup, cmd, step, hang, place, logger, options, handler, exit>>

SaveWrites ==
  /\ exit = "none" /\ step = "load"
  /\ saver = "writing"
  /\ saver' = "done"
  /\ file' = "whole"
  /\ UNCHANGED <<backup, cmd, step, hang, place, logger, options, handler, exit>>

\* Half a file is not JSON.  Where the file was, and what becomes of it, is
\* not followed any further.
LoadConfig ==
  /\ \/ file = "whole" /\ GoTo("load", "logger")
     \/ file # "whole" /\ GoTo("load", "exitOne")
  /\ place' = 0 /\ saver' = "done"
  /\ UNCHANGED <<backup, file, logger, options>>

\* No file anywhere: a configuration without databases and storages.
DefaultConfig ==
  /\ place = 4
  /\ GoTo("find", "logger")
  /\ UNCHANGED <<backup, config, logger, options>>

-----------------------------------------------------------------------------
(* Logger, signal handler, and the choice of the command.                  *)

NewLogger ==
  /\ GoTo("logger", "signals")
  /\ level' \in IF file = "whole" THEN Levels ELSE {"info"}
  /\ UNCHANGED <<backup, config, lines, unwritten, options>>

SetupLogFileFails ==
  /\ GoTo("logger", "exitOne")
  /\ UNCHANGED <<backup, config, logger, options>>

SetupSignalHandler ==
  /\ exit = "none" /\ step = "signals"
  /\ step' = "dispatch"
  /\ handler' = "waiting"
  /\ UNCHANGED <<backup, cmd, hang, config, logger, options, exit>>

\* Without a command the usage is shown; runRestore only answers an error.
Dispatch ==
  /\ \/ cmd = "none" /\ GoTo("dispatch", "exitOne")
     \/ cmd = "restore" /\ GoTo("dispatch", "failed")
     \/ cmd \in {"backup", "list"} /\ GoTo("dispatch", "lookup")
  /\ UNCHANGED <<backup, config, logger, options>>

\* A name was not given, or the configuration does not have it, or the type
\* of the database is none of the four.
LookupFails ==
  /\ GoTo("lookup", "failed")
  /\ UNCHANGED <<backup, config, logger, options>>

\* "object" is S3 or Azure, "unfit" GCS or an unknown type.
TypesOf(live) ==
  DBTypes \cap IF live THEN {"sqlite", "mongodb"} ELSE {"mysql", "postgresql"}

StoresOf(object) ==
  IF object THEN {"object", "unfit"} ELSE {"local"}

Lookup ==
  /\ file = "whole"
  /\ GoTo("lookup", "connect")
  /\ db' \in TypesOf(liveRead)
  /\ store' \in StoresOf(staged)
  /\ UNCHANGED <<backup, config, logger, tables, flags, dumped>>

-----------------------------------------------------------------------------
(* Connector.Connect and Provider.Initialize.                              *)

\* The program mysql, psql or mongosh answers, or fails; so does SQLite.
Connect ==
  /\ GoTo("connect", "provider") \/ GoTo("connect", "failed")
  /\ UNCHANGED <<backup, config, logger, options>>

\* runBackup refuses GCS and unknown types; runListBackups takes only local.
Refused == store = "unfit" \/ (cmd = "list" /\ store # "local")

ChooseProvider ==
  /\ \/ Refused /\ GoTo("provider", "failed")
     \/ ~Refused /\ GoTo("provider", "initialize")
  /\ UNCHANGED <<backup, config, logger, options>>

\* The local provider makes its base directory, the others ask for the bucket.
Initialize ==
  /\ \/ cmd = "backup" /\ GoTo("initialize", "type")
     \/ cmd = "list" /\ GoTo("initialize", "list")
     \/ GoTo("initialize", "failed")
  /\ UNCHANGED <<backup, config, logger, options>>

-----------------------------------------------------------------------------
(* The tables.                                                             *)

Blank == ""    \* what is left of mysql's output for a database without tables

ListTables == IF db = "mysql" /\ tables = {} THEN {Blank} ELSE tables

FilterTables_SecondPassAnew(names) ==
  LET included == IF include = {} THEN names ELSE names \cap include
  IN  IF exclude = {} THEN included ELSE names \ exclude

\* filterTables: two passes, each skipped if its flag was not given.
FilterTables(names) ==
  LET included == IF include = {} THEN names ELSE names \cap include
  IN  IF exclude = {} THEN included ELSE included \ exclude

\* The names passed to Connector.Backup.
Passed == FilterTables(ListTables)

Several(names) == \E s, t \in names : s # t

\* What the dump holds.  SQLite copies its file; an empty list is not passed
\* on; pg_dump takes several names, joined in one argument, for one that no
\* table has; mongodump keeps the last of several --collection.
Dumps ==
  IF db = "sqlite" \/ Passed = {} THEN {tables}
  ELSE IF db = "postgresql" THEN {IF Several(Passed) THEN {} ELSE Passed}
  ELSE IF db = "mongodb" THEN {{t} : t \in Passed}
  ELSE {Passed}

DumpRefused_StatusIgnored == FALSE

\* The tool exits with an error when a name it is given names no table: the
\* joined names, or the blank one.
DumpRefused ==
  \/ db = "postgresql" /\ Several(Passed)
  \/ db # "sqlite" /\ Blank \in Passed

-----------------------------------------------------------------------------
(* The command -backup, from the choice of its type.                       *)

\* Incremental and differential backups are refused here, unknown types too.
TypeRefused ==
  /\ GoTo("type", "failed")
  /\ UNCHANGED <<backup, config, logger, options>>

StartBackup ==
  /\ GoTo("type", "backup")
  /\ UNCHANGED <<backup, config, logger, db, store>>
  /\ tables' \in Databases
  /\ include' \in SUBSET Tables
  /\ exclude' \in SUBSET Tables
  /\ dumped' \in Dumps'

\* A step of Backup or of its goroutine, which may outlive Backup.
BackupStep(A) ==
  /\ exit = "none"
  /\ step = "backup" \/ ~B!Running
  /\ A
  /\ UNCHANGED <<main, handler, exit>>

Dump == ~DumpRefused /\ (B!ReadPage \/ B!DumpDone)

BackupReturned_ErrorDropped ==
  /\ ~B!Running
  /\ \/ GoTo("backup", "return") /\ Log("info", "completed")
     \/ result = "err" /\ GoTo("backup", "failed") /\ UNCHANGED logger
  /\ UNCHANGED <<backup, config, options>>

BackupReturned ==
  /\ ~B!Running
  /\ \/ result = "ok" /\ GoTo("backup", "return") /\ Log("info", "completed")
     \/ result = "err" /\ GoTo("backup", "failed") /\ UNCHANGED logger
  /\ UNCHANGED <<backup, config, options>>

\* The command -list: module Catalog says what it shows.
ListBackups ==
  /\ GoTo("list", "return") \/ GoTo("list", "failed")
  /\ UNCHANGED <<backup, config, logger, options>>

-----------------------------------------------------------------------------
(* Calls that never answer: nothing sets a deadline.                       *)

\* main is in a call to the database or to the storage.
Calling ==
  \/ step \in {"connect", "initialize", "list"}
  \/ step = "backup" /\ pc \in {"listTables", "dbInfo", "create", "copy",
                               "metaCreate", "metaWrite", "stat"}

MainHangs ==
  /\ exit = "none"
  /\ Calling
  /\ hang' = hang \cup {"main"}
  /\ UNCHANGED <<backup, cmd, step, config, logger, options, handler, exit>>

\* The dump does not go on.
WriterHangs ==
  /\ exit = "none"
  /\ step = "backup" /\ prod = "read"
  /\ hang' = hang \cup {"writer"}
  /\ UNCHANGED <<backup, cmd, step, config, logger, options, handler, exit>>

ForDatabase(side) ==
  \/ side = "writer"
  \/ step = "connect"
  \/ step = "backup" /\ pc \in {"listTables", "dbInfo"}

FileCall(side) == IF ForDatabase(side) THEN db = "sqlite" ELSE store = "local"

\* A call that has the context gives up when that is cancelled, one to the
\* file system does not.
HangEnds(side) ==
  /\ exit = "none"
  /\ handler = "cancelled"
  /\ side \in hang
  /\ ~FileCall(side)
  /\ hang' = hang \ {side}
  /\ UNCHANGED <<backup, cmd, step, config, logger, options, handler, exit>>

-----------------------------------------------------------------------------
(* The end of the process.                                                 *)

CommandFailed ==
  /\ GoTo("failed", "exitOne")
  /\ Log("error", "failed")
  /\ UNCHANGED <<backup, config, options>>

\* The process ends, in the middle of Backup if that is running.
End(status) ==
  /\ exit = "none"
  /\ exit' = status
  /\ IF step = "backup" /\ B!Running THEN B!Crash ELSE UNCHANGED backup
  /\ UNCHANGED main

ExitOne == step = "exitOne" /\ End("1") /\ UNCHANGED handler

MainReturns_WaitsForHandler ==
  step = "return" /\ handler = "cancelled" /\ End("0") /\ UNCHANGED handler

MainReturns == step = "return" /\ End("0") /\ UNCHANGED handler

\* SIGINT or SIGTERM: the default action until the handler is set up, then
\* the handler's goroutine cancels the context ...
Signal ==
  \/ handler = "none" /\ End("killed") /\ UNCHANGED handler
  \/ /\ exit = "none"
     /\ handler = "waiting"
     /\ handler' = "cancelled"
     /\ UNCHANGED <<backup, main, exit>>

HandlerExits_WhenMainIsDone ==
  handler = "cancelled" /\ step = "return" /\ End("0") /\ UNCHANGED handler

\* ... and, half a second later, ends the process whatever main is doing.
HandlerExits == handler = "cancelled" /\ End("0") /\ UNCHANGED handler

-----------------------------------------------------------------------------
Main ==
  \/ FindConfig \/ LoadConfig \/ DefaultConfig \/ NewLogger \/ SetupLogFileFails
  \/ SetupSignalHandler \/ Dispatch \/ LookupFails \/ Lookup \/ Connect
  \/ ChooseProvider \/ Initialize \/ TypeRefused \/ StartBackup
  \/ BackupReturned \/ ListBackups \/ CommandFailed \/ ExitOne \/ MainReturns

BackupCaller    == "main" \notin hang /\ BackupStep(B!Caller)
BackupGoroutine == "writer" \notin hang /\ BackupStep(Dump \/ B!ClosePipe)
DumpFails       == "writer" \notin hang /\ BackupStep(B!DumpFail)
UploadFails     == "main" \notin hang /\ BackupStep(B!UploadFail)
Around          == BackupStep(B!Commit \/ B!DelayedWriteFails)

Next ==
  \/ Main \/ BackupCaller \/ BackupGoroutine \/ DumpFails \/ UploadFails
  \/ Around
  \/ MainHangs \/ WriterHangs
  \/ \E side \in hang : HangEnds(side)
  \/ SaveTruncates \/ SaveWrites
  \/ Signal \/ HandlerExits

Spec == Init /\ [][Next]_vars

\* Goroutines that can run do run; a dump that its tool refuses fails.  No
\* fairness makes a call that hangs return, or sends a signal.
FairSpec ==
  /\ Spec
  /\ WF_vars(Main)
  /\ WF_vars(BackupCaller)
  /\ WF_vars(BackupGoroutine)
  /\ WF_vars(DumpRefused /\ DumpFails)
  /\ WF_vars(HandlerExits)

-----------------------------------------------------------------------------
(* Properties.                                                             *)

Steps == {"find", "load", "logger", "signals", "dispatch", "lookup", "connect",
          "provider", "initialize", "type", "backup", "list", "failed",
          "exitOne", "return"}

TypeOK ==
  /\ cmd \in {"backup", "restore", "list", "none"}
  /\ step \in Steps
  /\ hang \subseteq {"main", "writer"}
  /\ place \in 0..4
  /\ file \in {"absent", "torn", "whole"}
  /\ saver \in {"idle", "writing", "done"}
  /\ level \in Levels \cup {"none", "info"}
  /\ lines \subseteq {"completed", "failed"}
  /\ unwritten \subseteq {"completed", "failed"}
  /\ db \in DBTypes \cup {"none"}
  /\ store \in {"none", "local", "object", "unfit"}
  /\ tables \subseteq Tables /\ include \subseteq Tables /\ exclude \subseteq Tables
  /\ dumped \subseteq Tables \cup {Blank}
  /\ handler \in {"none", "waiting", "cancelled"}
  /\ exit \in {"none", "0", "1", "killed"}

\* What -backup and -list are asked for has been done, as far as the program is
\* told: of a page that the disk loses it is not.
Done ==
  \/ cmd = "backup" /\ result = "ok" /\ (B!WholeObject \/ lost)
  \/ cmd = "list" /\ step = "return"

\* Unless a signal ended it, the process exits with 0 exactly if its command
\* was carried out: for a backup, if all of the dump is in the storage with its
\* metadata, or the disk lost a page of it and told only Close (main.go 78-97,
\* 264-290, local.go 61).
ExitStatusIsTruth ==
  handler # "cancelled" /\ exit \in {"0", "1"} => (exit = "0" <=> Done)

\* The log agrees with the exit status: what exits with 1 did not say that it
\* completed, and said that it failed, at every level, also at one that the
\* logger does not know, unless the log did not take this line; what exits with
\* 0, and had no signal, did not say that it failed (main.go 94-97, 282,
\* logger.go 89-110).
LogTellsTheEnd ==
  /\ exit = "1" => "completed" \notin lines
  /\ exit = "1" /\ cmd # "none" /\ handler # "none"
       => "failed" \in lines \cup unwritten
  /\ exit = "0" /\ handler # "cancelled" => "failed" \notin lines

\* The tables that the flags ask for.
Asked == {t \in tables : (include = {} \/ t \in include) /\ t \notin exclude}

BackupReported == exit = "0" /\ handler # "cancelled" /\ cmd = "backup"

\* A backup that reports success has all of them in its dump.
DumpHasSelection == BackupReported => Asked \subseteq dumped

Selected ==
  /\ Asked \subseteq dumped \/ (db = "mongodb" /\ Several(Asked))
  /\ \/ dumped \subseteq Asked
     \/ dumped = tables /\ (db = "sqlite" \/ Asked = {})

\* ... unless MongoDB is asked for several, and it has no other table, unless it
\* is all of the database: a copy of an SQLite file, or the flags ask for
\* nothing.  A tool that would leave tables out makes the backup fail
\* (full.go 223-260, mysql.go 67-70, postgres.go 67-78, mongodb.go 66-70).
SelectionIsDumped == BackupReported => Selected

\* The process ends, after a signal whatever main is doing, and without one
\* unless a call to a service or a file system hangs for ever: no deadline is
\* set anywhere (main.go 56-148).
ProgramEnds == <>(exit # "none") \/ <>[](hang # {} /\ handler # "cancelled")

\* What main waits for: an answer, and Backup in its own goroutine.
MainMayStep ==
  /\ exit = "none"
  /\ "main" \notin hang
  /\ step = "backup" => ~B!Running

\* Main and the signal handler go on when they wait for nothing (main.go
\* 56-148).
WhoMayStepDoes ==
  /\ []<>~MainMayStep \/ []<><<Main>>_vars
  /\ []<>~(handler = "cancelled" /\ exit = "none") \/ []<><<HandlerExits>>_vars

\* The call of Backup returns to main, also when the tool refuses the tables,
\* unless a call inside it hangs (main.go 264-290).
BackupCallReturns ==
  step = "backup" ~> ~B!Running \/ exit # "none" \/ hang # {}

\* No wait of main or of the handler lasts for ever, but for a call that hangs.
WaitsEnd == WhoMayStepDoes /\ BackupCallReturns

=============================================================================
