---------------------------- MODULE ProgramProofs ---------------------------
(***************************************************************************)
(* Proofs about module Program, for every size of the database, every set  *)
(* of tables, types and levels.  A run of the program implements a call of *)
(* Backup, so the theorems of BackupRunProofs hold in it too; together     *)
(* with where main stands they give what the exit status means.  That the  *)
(* program ends follows from the steps that main has left.                 *)
(***************************************************************************)
EXTENDS Program, TLAPS

BP == INSTANCE BackupRunProofs

USE ProgramAssumption DEF ProgramAssumption

-----------------------------------------------------------------------------
(* The program implements BackupRun.                                       *)

LEMMA InitIsBackupInit == Init => BP!Init
BY DEF Init, B!Init, BP!Init

LEMMA BackupStepIsNext ==
  B!Caller \/ B!UploadFail \/ B!Goroutine \/ B!DumpFail \/ B!Commit
    \/ B!DelayedWriteFails \/ B!Crash => BP!Next
BY DEF B!Caller, BP!Caller, B!Goroutine, BP!Goroutine, BP!Next,
       B!GoTo, BP!GoTo, B!Return, BP!Return, B!Running, BP!Running,
       B!caller, BP!caller, B!goroutine, BP!goroutine, B!object, BP!object,
       B!mode, BP!mode, B!world, BP!world,
       B!ListTables, BP!ListTables, B!GetDBInfo, BP!GetDBInfo,
       B!PrepareFail, BP!PrepareFail, B!ReadPage, BP!ReadPage,
       B!DumpDone, BP!DumpDone, B!DumpFail, BP!DumpFail,
       B!ClosePipe, BP!ClosePipe, B!StoreCreate, BP!StoreCreate,
       B!StoreCreateFail, BP!StoreCreateFail, B!StoreCopy, BP!StoreCopy,
       B!StoreCopyFail, BP!StoreCopyFail, B!UploadFail, BP!UploadFail,
       B!StoreEOF, BP!StoreEOF, B!MetaCreate, BP!MetaCreate,
       B!MetaWrite, BP!MetaWrite, B!MetaFail, BP!MetaFail,
       B!Publish, BP!Publish, B!PublishFail, BP!PublishFail,
       B!WaitErr, BP!WaitErr, B!StatObject, BP!StatObject,
       B!Commit, BP!Commit, B!Crash, BP!Crash,
       B!DelayedWriteFails, BP!DelayedWriteFails

\* A call does not answer, or gives up.
Hanging == MainHangs \/ WriterHangs \/ \E side \in hang : HangEnds(side)

LEMMA StepIsBackupStep == [Next]_vars => [BP!Next]_(BP!vars)
<1> SUFFICES ASSUME [Next]_vars PROVE [BP!Next]_(BP!vars)
  OBVIOUS
<1>1. UNCHANGED backup => UNCHANGED BP!vars
  BY DEF backup, BP!vars, BP!caller, BP!goroutine, BP!world, BP!mode, BP!object
<1>2. CASE Main \/ Hanging \/ SaveTruncates \/ SaveWrites \/ Signal
             \/ HandlerExits
  <2>1. CASE Main
    <3> USE DEF End
    <3>1. CASE FindConfig \/ LoadConfig \/ DefaultConfig \/ NewLogger
                \/ SetupLogFileFails \/ SetupSignalHandler \/ Dispatch
                \/ LookupFails \/ Lookup
      BY <1>1, <3>1 DEF FindConfig, LoadConfig, DefaultConfig, NewLogger,
         SetupLogFileFails, SetupSignalHandler, Dispatch, LookupFails, Lookup
    <3>2. CASE Connect \/ ChooseProvider \/ Initialize \/ TypeRefused
                \/ StartBackup \/ BackupReturned \/ ListBackups \/ CommandFailed
      BY <1>1, <3>2 DEF Connect, ChooseProvider, Initialize, TypeRefused,
         StartBackup, BackupReturned, ListBackups, CommandFailed
    <3>3. CASE ExitOne \/ MainReturns
      BY <1>1, <3>3, BackupStepIsNext DEF ExitOne, MainReturns
    <3> QED
      BY <2>1, <3>1, <3>2, <3>3 DEF Main
  <2>2. CASE Hanging \/ SaveTruncates \/ SaveWrites
    <3>1. UNCHANGED backup
      BY <2>2 DEF Hanging, MainHangs, WriterHangs, HangEnds, SaveTruncates,
                  SaveWrites
    <3> QED
      BY <1>1, <3>1
  <2>3. CASE Signal \/ HandlerExits
    <3>1. UNCHANGED backup \/ B!Crash
      BY <2>3 DEF Signal, HandlerExits, End
    <3> QED
      BY <1>1, <3>1, BackupStepIsNext
  <2> QED
    BY <1>2, <2>1, <2>2, <2>3
<1>3. CASE BackupCaller \/ BackupGoroutine \/ DumpFails \/ UploadFails \/ Around
  BY <1>3, BackupStepIsNext
     DEF BackupCaller, BackupGoroutine, DumpFails, UploadFails, Around,
         BackupStep, Dump, B!Goroutine
<1>4. CASE UNCHANGED vars
  BY <1>1, <1>4 DEF vars
<1> QED
  BY <1>2, <1>3, <1>4 DEF Next, Hanging

\* Whatever main, signals and hanging calls do, the run is one of BackupRun.
THEOREM ProgramRunsBackup == Spec => BP!Spec
BY InitIsBackupInit, StepIsBackupStep, PTL DEF Spec, BP!Spec

\* ... and what Backup promises its caller is what the program delivers: the
\* dump in order, and "ok" only for the whole of it.
THEOREM ProgramTransfers == Spec => BP!T!Spec
<1>1. BP!Spec => BP!T!Spec
  BY BP!BackupImplementsTransfer DEF BP!ConstantsAssumption
<1> QED
  BY <1>1, ProgramRunsBackup

LEMMA BackupIsComplete == Spec => []B!SuccessIsComplete
<1>1. BP!SuccessIsComplete => B!SuccessIsComplete
  BY DEF B!SuccessIsComplete, BP!SuccessIsComplete, B!WholeObject, BP!WholeObject
<1>2. BP!Spec => []BP!SuccessIsComplete
  BY BP!SuccessComplete DEF BP!ConstantsAssumption
<1> QED
  BY <1>1, <1>2, ProgramRunsBackup, PTL

-----------------------------------------------------------------------------
(* Where main stands.                                                      *)

Early == {"find", "load", "logger", "signals"}
Before == Early \cup {"dispatch", "lookup", "connect", "provider",
                      "initialize", "type"}

\* What has happened at each step of main; result is "ok" only after Backup.
ControlInv ==
  /\ step \in {"type", "backup"} => cmd = "backup"
  /\ step = "list" => cmd = "list"
  /\ step \in Early \cup {"dispatch"} => db = "none"
  /\ step \in Before => pc = "listTables" /\ result = "none" /\ errCh = "empty"
  /\ result = "ok" => cmd = "backup" /\ step \in {"backup", "return"} /\ pc = "done"
  /\ step = "return" => cmd = "list" \/ (cmd = "backup" /\ result = "ok")
  /\ step \in Early => handler = "none"
  /\ handler = "none" => step \in Early \cup {"exitOne"}

ExitInv ==
  /\ exit = "1" => step = "exitOne"
  /\ exit = "0" /\ handler # "cancelled" => step = "return"
  /\ step = "exitOne" /\ cmd # "none" /\ handler # "none"
       => "failed" \in lines \cup unwritten
  /\ "completed" \in lines => step = "return"
  /\ "failed" \in lines => step = "exitOne"

\* A dump that its tool refuses never succeeds.
SelectionInv ==
  /\ step \in {"backup", "return"} /\ cmd = "backup" => DumpRefused \/ Selected
  /\ step \notin Before /\ DumpRefused
       => errCh # "nil" /\ pc # "stat" /\ result # "ok"

IInv == TypeOK /\ ControlInv /\ ExitInv /\ SelectionInv

LEMMA InitIInv == Init => IInv
BY DEF Init, B!Init, IInv, TypeOK, ControlInv, ExitInv, SelectionInv,
       Early, Before, Steps

\* What a step of Backup may do to the variables that IInv looks at.
LEMMA BackupStepEffect ==
  ASSUME BackupCaller \/ BackupGoroutine \/ DumpFails \/ UploadFails \/ Around
  PROVE  /\ UNCHANGED <<cmd, step, hang, config, logger, options, handler, exit>>
         /\ exit = "none"
         /\ step = "backup" \/ pc \in {"done", "crashed"}
         /\ pc \in {"done", "crashed"} => UNCHANGED <<pc, result>>
         /\ result' = result \/ pc' = "done"
         /\ result' = "ok" => result = "ok" \/ pc = "stat"
         /\ pc' = "stat" => pc = "stat" \/ errCh = "nil"
         /\ errCh' = "nil" => errCh = "nil" \/ ~DumpRefused
<1> USE DEF BackupStep, B!Running, main, B!GoTo, B!Return, B!caller, B!goroutine
<1>1. CASE BackupCaller
  BY <1>1
     DEF BackupCaller, B!Caller, B!ListTables, B!GetDBInfo, B!PrepareFail,
         B!StoreCreate, B!StoreCreateFail, B!StoreCopy, B!StoreCopyFail,
         B!StoreEOF, B!MetaCreate, B!MetaWrite, B!MetaFail, B!Publish,
         B!PublishFail, B!WaitErr, B!StatObject
<1>2. CASE BackupGoroutine
  BY <1>2 DEF BackupGoroutine, Dump, B!ReadPage, B!DumpDone, B!ClosePipe
<1>3. CASE DumpFails \/ UploadFails \/ Around
  BY <1>3 DEF DumpFails, UploadFails, Around, B!DumpFail, B!UploadFail,
              B!Commit, B!DelayedWriteFails
<1> QED
  BY <1>1, <1>2, <1>3

\* What a connector dumps is what the flags ask for, or its tool refuses.
LEMMA DumpSelects ==
  tables \subseteq Tables /\ dumped \in Dumps
    => dumped \subseteq Tables \cup {Blank} /\ (DumpRefused \/ Selected)
<1> SUFFICES ASSUME tables \subseteq Tables, dumped \in Dumps
             PROVE  /\ dumped \subseteq Tables \cup {Blank}
                    /\ DumpRefused \/ Selected
  OBVIOUS
<1>1. Passed \subseteq Tables \cup {Blank} /\ Asked \subseteq tables
  BY DEF Passed, FilterTables, ListTables, Asked
<1>2. \/ Passed = Asked
      \/ db = "mysql" /\ Asked = {} /\ tables = {} /\ Passed \subseteq {Blank}
  <2>1. CASE ListTables = tables
    BY <2>1 DEF Passed, FilterTables, Asked
  <2>2. CASE db = "mysql" /\ tables = {}
    BY <2>2 DEF Passed, FilterTables, ListTables, Asked
  <2> QED
    BY <2>1, <2>2 DEF ListTables
<1>3. CASE db = "sqlite" \/ Passed = {}
  <2>1. dumped = tables
    BY <1>3 DEF Dumps
  <2> QED
    BY <1>1, <1>2, <1>3, <2>1 DEF Selected
<1>4. CASE db = "postgresql" /\ Passed # {}
  <2>1. dumped = IF Several(Passed) THEN {} ELSE Passed
    BY <1>4 DEF Dumps
  <2> QED
    BY <1>1, <1>2, <1>4, <2>1 DEF Selected, DumpRefused
<1>5. CASE db = "mongodb" /\ Passed # {}
  <2>1. PICK t \in Passed : dumped = {t}
    BY <1>5 DEF Dumps
  <2>2. Passed = Asked
    BY <1>2, <1>5
  <2>3. Asked \subseteq {t} \/ Several(Asked)
    BY <2>1, <2>2 DEF Several
  <2> QED
    BY <1>1, <1>5, <2>1, <2>2, <2>3 DEF Selected
<1>6. CASE db \notin {"sqlite", "postgresql", "mongodb"} /\ Passed # {}
  <2>1. dumped = Passed
    BY <1>6 DEF Dumps
  <2> QED
    BY <1>1, <1>2, <1>6, <2>1 DEF Selected, DumpRefused
<1> QED
  BY <1>3, <1>4, <1>5, <1>6

LEMMA StartSelects ==
  StartBackup
    => /\ tables' \subseteq Tables /\ include' \subseteq Tables
       /\ exclude' \subseteq Tables
       /\ dumped' \subseteq Tables \cup {Blank}
       /\ DumpRefused' \/ Selected'
<1>1. StartBackup => /\ tables' \subseteq Tables /\ include' \subseteq Tables
                     /\ exclude' \subseteq Tables
                     /\ (tables \subseteq Tables /\ dumped \in Dumps)'
  BY DEF StartBackup
<1>2. (tables \subseteq Tables /\ dumped \in Dumps)'
        => (dumped \subseteq Tables \cup {Blank} /\ (DumpRefused \/ Selected))'
  BY DumpSelects, PTL
<1> QED
  BY <1>1, <1>2

LEMMA SameSelection ==
  UNCHANGED options => (DumpRefused' <=> DumpRefused) /\ (Selected' <=> Selected)
BY DEF options, flags, DumpRefused, Selected, Asked, Passed, FilterTables,
       ListTables

LEMMA NextIInv == IInv /\ [Next]_vars => IInv'
<1> SUFFICES ASSUME IInv, [Next]_vars PROVE IInv'
  OBVIOUS
<1> USE DEF IInv, TypeOK, ControlInv, ExitInv, SelectionInv,
            Early, Before, Steps, GoTo, Log, End, backup, config, logger,
            flags, options, main
<1>0. UNCHANGED options
        => (DumpRefused' <=> DumpRefused) /\ (Selected' <=> Selected)
  BY SameSelection
<1> USE <1>0
<1>1. CASE FindConfig
  <2>1. CASE GoTo("find", "find")
    BY <1>1, <2>1 DEF FindConfig
  <2>2. CASE GoTo("find", "load")
    BY <1>1, <2>2 DEF FindConfig
  <2> QED
    BY <1>1, <2>1, <2>2 DEF FindConfig
<1>2. CASE SaveTruncates
  BY <1>2 DEF SaveTruncates
<1>3. CASE SaveWrites
  BY <1>3 DEF SaveWrites
<1>4. CASE LoadConfig
  <2>1. CASE GoTo("load", "logger")
    BY <1>4, <2>1 DEF LoadConfig
  <2>2. CASE GoTo("load", "exitOne")
    BY <1>4, <2>2 DEF LoadConfig
  <2> QED
    BY <1>4, <2>1, <2>2 DEF LoadConfig
<1>5. CASE DefaultConfig
  BY <1>5 DEF DefaultConfig
<1>6. CASE NewLogger
  BY <1>6 DEF NewLogger
<1>7. CASE SetupLogFileFails
  BY <1>7 DEF SetupLogFileFails
<1>8. CASE SetupSignalHandler
  BY <1>8 DEF SetupSignalHandler
<1>9. CASE Dispatch
  <2>1. CASE GoTo("dispatch", "exitOne")
    BY <1>9, <2>1 DEF Dispatch
  <2>2. CASE GoTo("dispatch", "failed")
    BY <1>9, <2>2 DEF Dispatch
  <2>3. CASE GoTo("dispatch", "lookup")
    BY <1>9, <2>3 DEF Dispatch
  <2> QED
    BY <1>9, <2>1, <2>2, <2>3 DEF Dispatch
<1>10. CASE LookupFails
  BY <1>10 DEF LookupFails
<1>11. CASE Lookup
  BY <1>11 DEF Lookup, TypesOf, StoresOf
<1>12. CASE Connect
  <2>1. CASE GoTo("connect", "provider")
    BY <1>12, <2>1 DEF Connect
  <2>2. CASE GoTo("connect", "failed")
    BY <1>12, <2>2 DEF Connect
  <2> QED
    BY <1>12, <2>1, <2>2 DEF Connect
<1>13. CASE Hanging
  <2>1. UNCHANGED <<backup, cmd, step, config, logger, options, handler, exit>>
        /\ hang' \subseteq {"main", "writer"}
    BY <1>13 DEF Hanging, MainHangs, WriterHangs, HangEnds
  <2> QED
    BY <2>1
<1>15. CASE ChooseProvider
  <2>1. CASE GoTo("provider", "failed")
    BY <1>15, <2>1 DEF ChooseProvider
  <2>2. CASE GoTo("provider", "initialize")
    BY <1>15, <2>2 DEF ChooseProvider
  <2> QED
    BY <1>15, <2>1, <2>2 DEF ChooseProvider
<1>16. CASE Initialize
  <2>1. CASE GoTo("initialize", "type")
    BY <1>16, <2>1 DEF Initialize
  <2>2. CASE GoTo("initialize", "list")
    BY <1>16, <2>2 DEF Initialize
  <2>3. CASE GoTo("initialize", "failed")
    BY <1>16, <2>3 DEF Initialize
  <2> QED
    BY <1>16, <2>1, <2>2, <2>3 DEF Initialize
<1>17. CASE TypeRefused
  BY <1>17 DEF TypeRefused
<1>18. CASE StartBackup
  BY <1>18, StartSelects DEF StartBackup
<1>19. CASE BackupCaller \/ BackupGoroutine \/ DumpFails \/ UploadFails \/ Around
  <2>1. TypeOK'
    <3> UNCHANGED <<main, handler, exit>>
      BY <1>19, BackupStepEffect
    <3> QED
      BY SMTT(30)
  <2>2. ControlInv'
    BY <1>19, BackupStepEffect
  <2>3. ExitInv'
    BY <1>19, BackupStepEffect
  <2>4. SelectionInv'
    BY <1>19, BackupStepEffect
  <2> QED
    BY <2>1, <2>2, <2>3, <2>4
<1>20. CASE BackupReturned
  <2>1. TypeOK'
    BY <1>20, ZenonT(30) DEF BackupReturned, B!Running
  <2>2. ControlInv'
    BY <1>20 DEF BackupReturned, B!Running
  <2>3. ExitInv'
    BY <1>20 DEF BackupReturned, B!Running
  <2>4. SelectionInv'
    BY <1>20 DEF BackupReturned, B!Running
  <2> QED
    BY <2>1, <2>2, <2>3, <2>4
<1>21. CASE ListBackups
  <2>1. CASE GoTo("list", "return")
    BY <1>21, <2>1 DEF ListBackups
  <2>2. CASE GoTo("list", "failed")
    BY <1>21, <2>2 DEF ListBackups
  <2> QED
    BY <1>21, <2>1, <2>2 DEF ListBackups
<1>22. CASE CommandFailed
  <2>1. ShouldLog(level, "error")
    BY DEF ShouldLog, Weight, Severity
  <2>2. CASE lines' = lines \cup {"failed"} /\ unwritten' = unwritten
    BY <1>22, <2>2 DEF CommandFailed
  <2>3. CASE lines' = lines /\ unwritten' = unwritten \cup {"failed"}
    BY <1>22, <2>3 DEF CommandFailed
  <2> QED
    BY <1>22, <2>1, <2>2, <2>3 DEF CommandFailed
<1>23. CASE ExitOne
  BY <1>23 DEF ExitOne, B!Crash, B!Running
<1>24. CASE MainReturns
  BY <1>24 DEF MainReturns, B!Crash, B!Running
<1>25. CASE Signal
  <2>1. TypeOK'
    <3>1. /\ UNCHANGED main
          /\ handler' \in {"none", "cancelled"}
          /\ exit' \in {"none", "killed"}
      BY <1>25 DEF Signal
    <3> QED
      BY <3>1
  <2>2. ControlInv'
    BY <1>25 DEF Signal, B!Crash, B!Running
  <2>3. ExitInv'
    BY <1>25 DEF Signal, B!Crash, B!Running
  <2>4. SelectionInv'
    BY <1>25 DEF Signal, B!Crash, B!Running
  <2> QED
    BY <2>1, <2>2, <2>3, <2>4
<1>26. CASE HandlerExits
  BY <1>26 DEF HandlerExits, B!Crash, B!Running
<1>27. CASE UNCHANGED vars
  BY <1>27 DEF vars
<1> QED
  BY <1>1, <1>2, <1>3, <1>4, <1>5, <1>6, <1>7, <1>8, <1>9, <1>10, <1>11, <1>12,
     <1>13, <1>15, <1>16, <1>17, <1>18, <1>19, <1>20, <1>21, <1>22,
     <1>23, <1>24, <1>25, <1>26, <1>27
     DEF Next, Main, Hanging

LEMMA Invariance == Spec => []IInv
BY InitIInv, NextIInv, PTL DEF Spec

-----------------------------------------------------------------------------
\* Main and its options are well-typed.
THEOREM TypeCorrect == Spec => []TypeOK
<1>1. IInv => TypeOK
  BY DEF IInv
<1> QED
  BY <1>1, Invariance, PTL

\* Exit status 0 without a signal stands for a command that was carried out, 1
\* for one that was not: a backup of every page, with its metadata.
THEOREM ExitStatusTells == Spec => []ExitStatusIsTruth
<1>1. IInv /\ B!SuccessIsComplete => ExitStatusIsTruth
  BY DEF IInv, TypeOK, ControlInv, ExitInv, B!SuccessIsComplete,
         B!WholeObject, ExitStatusIsTruth, Done
<1> QED
  BY <1>1, Invariance, BackupIsComplete, PTL

\* Status and log agree, whatever the level, as far as the log takes its lines.
THEOREM LogTells == Spec => []LogTellsTheEnd
<1>1. IInv => LogTellsTheEnd
  BY DEF IInv, ExitInv, LogTellsTheEnd
<1> QED
  BY <1>1, Invariance, PTL

\* For any tables and any flags: what a reported backup holds is what the flags
\* ask for, but for the cases named.
THEOREM SelectedTablesDumped == Spec => []SelectionIsDumped
<1>1. IInv => SelectionIsDumped
  BY DEF IInv, ControlInv, ExitInv, SelectionInv, SelectionIsDumped,
         BackupReported, Before, Early
<1> QED
  BY <1>1, Invariance, PTL

-----------------------------------------------------------------------------
(* Why the program ends: every step of main brings it nearer to the exit,  *)
(* and the signal handler needs one step.                                  *)

\* The steps of main that are left at each of its steps, at most.
MainLeft == [load |-> 13, logger |-> 12, signals |-> 11, dispatch |-> 10,
             lookup |-> 9, connect |-> 8, provider |-> 7, initialize |-> 6,
             type |-> 5, backup |-> 4, list |-> 3, failed |-> 2,
             return |-> 1, exitOne |-> 1]

\* While it looks for a configuration, the places that are left count too.
Left(n) ==
  IF step = "find" THEN n = 17 - place
  ELSE step \in DOMAIN MainLeft /\ MainLeft[step] = n

Over == exit # "none" \/ hang # {}

LEMMA MainTable ==
  /\ DOMAIN MainLeft = Steps \ {"find"}
  /\ MainLeft["load"] = 13     /\ MainLeft["logger"] = 12
  /\ MainLeft["signals"] = 11  /\ MainLeft["dispatch"] = 10
  /\ MainLeft["lookup"] = 9    /\ MainLeft["connect"] = 8
  /\ MainLeft["provider"] = 7  /\ MainLeft["initialize"] = 6
  /\ MainLeft["type"] = 5      /\ MainLeft["backup"] = 4
  /\ MainLeft["list"] = 3      /\ MainLeft["failed"] = 2
  /\ MainLeft["return"] = 1    /\ MainLeft["exitOne"] = 1
BY DEF MainLeft, Steps

\* The search for a configuration starts at the home directory.
FindInv == step = "find" => place \in 1..4

LEMMA InitFind == Init => FindInv
BY DEF Init, FindInv

LEMMA LeftSomewhere ==
  TypeOK /\ FindInv => Over \/ \E n \in 1..16 : Left(n)
BY MainTable DEF TypeOK, FindInv, Over, Left, Steps

\* A step of main takes it to a later step, or ends the process.
LEMMA MainGoesOn ==
  ASSUME TypeOK, FindInv, Main
  PROVE  \/ exit' # "none"
         \/ /\ step = "find"
            /\ \/ step' = "find" /\ place \in 1..3 /\ place' = place + 1
               \/ step' = "load" /\ place \in 1..3
               \/ step' = "logger"
         \/ /\ {step, step'} \subseteq DOMAIN MainLeft
            /\ MainLeft[step'] < MainLeft[step]
<1> USE MainTable DEF GoTo
<1>1. CASE FindConfig
  BY <1>1 DEF FindConfig
<1>2. CASE LoadConfig
  BY <1>2 DEF LoadConfig, Steps
<1>13. CASE DefaultConfig
  BY <1>13 DEF DefaultConfig
<1>3. CASE NewLogger \/ SetupLogFileFails \/ SetupSignalHandler
  BY <1>3 DEF NewLogger, SetupLogFileFails, SetupSignalHandler, Steps
<1>4. CASE Dispatch
  BY <1>4 DEF Dispatch, Steps
<1>5. CASE LookupFails \/ Lookup
  BY <1>5 DEF LookupFails, Lookup, Steps
<1>6. CASE Connect
  BY <1>6 DEF Connect, Steps
<1>7. CASE ChooseProvider
  BY <1>7 DEF ChooseProvider, Steps
<1>8. CASE Initialize
  BY <1>8 DEF Initialize, Steps
<1>9. CASE TypeRefused \/ StartBackup
  BY <1>9 DEF TypeRefused, StartBackup, Steps
<1>10. CASE BackupReturned
  BY <1>10 DEF BackupReturned, Steps
<1>11. CASE ListBackups \/ CommandFailed
  BY <1>11 DEF ListBackups, CommandFailed, Steps
<1>12. CASE ExitOne \/ MainReturns
  BY <1>12 DEF ExitOne, MainReturns, End
<1> QED
  BY <1>1, <1>2, <1>3, <1>4, <1>5, <1>6, <1>7, <1>8, <1>9, <1>10, <1>11, <1>12,
     <1>13 DEF Main

LEMMA StaysInFind ==
  ASSUME TypeOK, FindInv, Main, step' = "find"
  PROVE  place' \in 1..4
<1> USE DEF GoTo
<1>1. CASE FindConfig
  BY <1>1 DEF FindConfig, config
<1>2. CASE LoadConfig \/ DefaultConfig \/ NewLogger \/ SetupLogFileFails
             \/ SetupSignalHandler \/ Dispatch \/ LookupFails \/ Lookup
  BY <1>2 DEF LoadConfig, DefaultConfig, NewLogger, SetupLogFileFails,
              SetupSignalHandler, Dispatch, LookupFails, Lookup
<1>3. CASE Connect \/ ChooseProvider \/ Initialize \/ TypeRefused
             \/ StartBackup \/ BackupReturned \/ ListBackups \/ CommandFailed
  BY <1>3 DEF Connect, ChooseProvider, Initialize, TypeRefused,
              StartBackup, BackupReturned, ListBackups, CommandFailed
<1>4. CASE ExitOne \/ MainReturns
  BY <1>4 DEF ExitOne, MainReturns, End, main
<1> QED
  BY <1>1, <1>2, <1>3, <1>4 DEF Main

LEMMA MainLowers ==
  ASSUME TypeOK, TypeOK', FindInv, Main, NEW n \in 1..16, Left(n), ~Over
  PROVE  Over' \/ \E m \in 1..16 : m < n /\ Left(m)'
<1>2. \A s \in DOMAIN MainLeft : MainLeft[s] \in 1..13
  BY MainTable DEF Steps
<1>3. CASE exit' # "none"
  BY <1>3 DEF Over
<1>4. CASE step = "find" /\ step' = "find" /\ place \in 1..3 /\ place' = place + 1
  <2>1. n = 17 - place
    BY <1>4 DEF Left
  <2>2. n - 1 \in 1..16 /\ n - 1 < n /\ n - 1 = 17 - place'
    BY <1>4, <2>1
  <2> QED
    BY <1>4, <2>2 DEF Left
<1>5. CASE step = "find" /\ (step' = "logger" \/ (step' = "load" /\ place \in 1..3))
  <2>1. step' \in DOMAIN MainLeft
    BY <1>5, MainTable DEF Steps
  <2>2. MainLeft[step'] \in 1..13 /\ MainLeft[step'] < n
    BY <1>5, MainTable DEF Left, FindInv
  <2> QED
    BY <1>5, <2>1, <2>2 DEF Left
<1>6. CASE {step, step'} \subseteq DOMAIN MainLeft /\ MainLeft[step'] < MainLeft[step]
  <2>1. MainLeft[step'] \in 1..16 /\ MainLeft[step'] < n
    BY <1>2, <1>6, MainTable DEF Left, Steps
  <2>2. step' # "find" /\ step' \in DOMAIN MainLeft
    BY <1>6, MainTable
  <2> QED
    BY <2>1, <2>2 DEF Left
<1> QED
  BY <1>3, <1>4, <1>5, <1>6, MainGoesOn

\* The other steps leave main where it is.
LEMMA OthersWait ==
  ASSUME [Next]_vars, ~Main
  PROVE  UNCHANGED <<step, place>>
<1>1. CASE Hanging \/ SaveTruncates \/ SaveWrites
  BY <1>1 DEF Hanging, MainHangs, WriterHangs, HangEnds, SaveTruncates,
              SaveWrites, config
<1>2. CASE Signal \/ HandlerExits
  BY <1>2 DEF Signal, HandlerExits, End, main, config
<1>3. CASE BackupCaller \/ BackupGoroutine \/ DumpFails \/ UploadFails \/ Around
  BY <1>3 DEF BackupCaller, BackupGoroutine, DumpFails, UploadFails, Around,
              BackupStep, main, config
<1>4. CASE UNCHANGED vars
  BY <1>4 DEF vars, main, config
<1> QED
  BY <1>1, <1>2, <1>3, <1>4 DEF Next, Hanging

LEMMA CancelStays ==
  IInv /\ [Next]_vars => (handler = "cancelled" => handler' = "cancelled")
<1> SUFFICES ASSUME IInv, [Next]_vars, handler = "cancelled"
             PROVE  handler' = "cancelled"
  OBVIOUS
<1> USE DEF GoTo
<1>1. CASE Main
  <2>1. CASE FindConfig \/ LoadConfig \/ DefaultConfig \/ NewLogger
              \/ SetupLogFileFails \/ Dispatch \/ LookupFails \/ Lookup
    BY <2>1 DEF FindConfig, LoadConfig, DefaultConfig, NewLogger,
                SetupLogFileFails, Dispatch, LookupFails, Lookup
  <2>2. CASE Connect \/ ChooseProvider \/ Initialize \/ TypeRefused
              \/ StartBackup \/ BackupReturned \/ ListBackups \/ CommandFailed
    BY <2>2 DEF Connect, ChooseProvider, Initialize, TypeRefused,
                StartBackup, BackupReturned, ListBackups, CommandFailed
  <2>3. CASE SetupSignalHandler
    BY <2>3 DEF SetupSignalHandler, IInv, ControlInv, Early
  <2>4. CASE ExitOne \/ MainReturns
    BY <2>4 DEF ExitOne, MainReturns
  <2> QED
    BY <1>1, <2>1, <2>2, <2>3, <2>4 DEF Main
<1>2. CASE Hanging \/ SaveTruncates \/ SaveWrites \/ Signal \/ HandlerExits
  BY <1>2 DEF Hanging, MainHangs, WriterHangs, HangEnds, SaveTruncates,
              SaveWrites, Signal, HandlerExits
<1>3. CASE BackupCaller \/ BackupGoroutine \/ DumpFails \/ UploadFails \/ Around
  BY <1>3 DEF BackupCaller, BackupGoroutine, DumpFails, UploadFails, Around, BackupStep
<1>4. CASE UNCHANGED vars
  BY <1>4 DEF vars
<1> QED
  BY <1>1, <1>2, <1>3, <1>4 DEF Next, Hanging

\* A call of Backup that has returned, or was cut off, does nothing more.
LEMMA ReturnedStays ==
  ASSUME [Next]_vars, ~Main, ~B!Running
  PROVE  ~B!Running'
<1> USE DEF B!Running
<1>1. CASE Hanging \/ SaveTruncates \/ SaveWrites
  BY <1>1 DEF Hanging, MainHangs, WriterHangs, HangEnds, SaveTruncates,
              SaveWrites, backup
<1>2. CASE Signal \/ HandlerExits
  BY <1>2 DEF Signal, HandlerExits, End, backup
<1>3. CASE BackupCaller \/ BackupGoroutine \/ DumpFails \/ UploadFails \/ Around
  BY <1>3, BackupStepEffect
<1>4. CASE UNCHANGED vars
  BY <1>4 DEF vars, backup
<1> QED
  BY <1>1, <1>2, <1>3, <1>4 DEF Next, Hanging

\* A call that hangs gives up only when it is cancelled.
LEMMA HangStays ==
  ASSUME IInv, [Next]_vars, hang # {}, handler # "cancelled"
  PROVE  hang' # {}
<1> USE DEF GoTo
<1>1. CASE Main
  <2>1. CASE FindConfig \/ LoadConfig \/ DefaultConfig \/ NewLogger
              \/ SetupLogFileFails \/ Dispatch \/ LookupFails \/ Lookup
    BY <2>1 DEF FindConfig, LoadConfig, DefaultConfig, NewLogger,
                SetupLogFileFails, Dispatch, LookupFails, Lookup
  <2>2. CASE Connect \/ ChooseProvider \/ Initialize \/ TypeRefused
              \/ StartBackup \/ BackupReturned \/ ListBackups \/ CommandFailed
    BY <2>2 DEF Connect, ChooseProvider, Initialize, TypeRefused,
                StartBackup, BackupReturned, ListBackups, CommandFailed
  <2>3. CASE SetupSignalHandler
    BY <2>3 DEF SetupSignalHandler
  <2>4. CASE ExitOne \/ MainReturns
    BY <2>4 DEF ExitOne, MainReturns, End, main
  <2> QED
    BY <1>1, <2>1, <2>2, <2>3, <2>4 DEF Main
<1>2. CASE Hanging \/ SaveTruncates \/ SaveWrites \/ Signal \/ HandlerExits
  BY <1>2 DEF Hanging, MainHangs, WriterHangs, HangEnds, SaveTruncates,
              SaveWrites, Signal, HandlerExits, End, main
<1>3. CASE BackupCaller \/ BackupGoroutine \/ DumpFails \/ UploadFails \/ Around
  BY <1>3, BackupStepEffect
<1>4. CASE UNCHANGED vars
  BY <1>4 DEF vars, main
<1> QED
  BY <1>1, <1>2, <1>3, <1>4 DEF Next, Hanging

-----------------------------------------------------------------------------
\* At most n steps of main are left.
Near(n) == \E m \in 1..n : Left(m)

LEMMA FindInvariance == Spec => []FindInv
<1>1. IInv /\ IInv' /\ FindInv /\ [Next]_vars => FindInv'
  <2> SUFFICES ASSUME IInv, IInv', FindInv, [Next]_vars, step' = "find"
               PROVE  place' \in 1..4
    BY DEF FindInv
  <2>1. CASE Main
    BY <2>1, StaysInFind DEF IInv
  <2>2. CASE ~Main
    BY <2>2, OthersWait DEF FindInv
  <2> QED
    BY <2>1, <2>2
<1> QED
  BY <1>1, InitFind, Invariance, PTL DEF Spec

LEMMA StillNear ==
  ASSUME IInv, IInv', FindInv, [Next]_vars, NEW n \in 1..16, Near(n), ~Over
  PROVE  /\ Near(n)' \/ Over'
         /\ Main => Near(n - 1)' \/ Over'
<1>1. PICK m \in 1..n : Left(m)
  BY DEF Near
<1>2. ASSUME Main PROVE Near(n - 1)' \/ Over'
  <2>1. m \in 1..16
    BY <1>1
  <2>2. Over' \/ \E l \in 1..16 : l < m /\ Left(l)'
    BY <1>1, <1>2, <2>1, MainLowers DEF IInv
  <2>3. \A l \in 1..16 : l < m => l \in 1..(n - 1)
    BY <1>1
  <2>4. CASE \E l \in 1..(n - 1) : Left(l)'
    BY <2>4 DEF Near
  <2> QED
    BY <2>2, <2>3, <2>4
<1>3. ASSUME Near(n - 1)' PROVE Near(n)'
  <2>1. 1..(n - 1) \subseteq 1..n
    OBVIOUS
  <2> QED
    BY <1>3, <2>1 DEF Near
<1>4. CASE ~Main
  <2>1. Left(m)' \/ Over'
    BY <1>1, <1>4, OthersWait DEF Left, Over
  <2> QED
    BY <1>1, <1>4, <2>1 DEF Near
<1> QED
  BY <1>2, <1>3, <1>4

\* Main ends if the call of Backup does, unless a call hangs some time.
LEMMA ProgramEndsOrHangs ==
  Spec /\ WaitsEnd => <>Over
<1> DEFINE N(n) == Near(n)
           O    == Over
           Bk   == step = "backup"
           Run  == B!Running
           Gone == exit # "none"
           May  == MainMayStep
           Goes == IInv /\ IInv' /\ FindInv /\ [Next]_vars /\ ~O
           Fair == /\ []<>~May \/ []<><<Main>>_vars
                   /\ [](Bk => <>(~Run \/ O))
<1>1. IInv /\ FindInv => O \/ N(16)
  BY LeftSomewhere DEF IInv, Near
<1>2. ~N(0)
  BY DEF Near
<1>3. Goes =>
      /\ N(16) => (N(16)' \/ O') /\ (Main => N(15)' \/ O')
      /\ N(15) => (N(15)' \/ O') /\ (Main => N(14)' \/ O')
      /\ N(14) => (N(14)' \/ O') /\ (Main => N(13)' \/ O')
      /\ N(13) => (N(13)' \/ O') /\ (Main => N(12)' \/ O')
  <2>1. /\ 16 \in 1..16 /\ 15 \in 1..16 /\ 14 \in 1..16 /\ 13 \in 1..16
        /\ 16 - 1 = 15 /\ 15 - 1 = 14 /\ 14 - 1 = 13 /\ 13 - 1 = 12
    OBVIOUS
  <2> HIDE DEF O
  <2> QED
    BY <2>1, StillNear DEF O
<1>4. Goes =>
      /\ N(12) => (N(12)' \/ O') /\ (Main => N(11)' \/ O')
      /\ N(11) => (N(11)' \/ O') /\ (Main => N(10)' \/ O')
      /\ N(10) => (N(10)' \/ O') /\ (Main => N(9)' \/ O')
      /\ N(9) => (N(9)' \/ O') /\ (Main => N(8)' \/ O')
  <2>1. /\ 12 \in 1..16 /\ 11 \in 1..16 /\ 10 \in 1..16 /\ 9 \in 1..16
        /\ 12 - 1 = 11 /\ 11 - 1 = 10 /\ 10 - 1 = 9 /\ 9 - 1 = 8
    OBVIOUS
  <2> HIDE DEF O
  <2> QED
    BY <2>1, StillNear DEF O
<1>5. Goes =>
      /\ N(8) => (N(8)' \/ O') /\ (Main => N(7)' \/ O')
      /\ N(7) => (N(7)' \/ O') /\ (Main => N(6)' \/ O')
      /\ N(6) => (N(6)' \/ O') /\ (Main => N(5)' \/ O')
      /\ N(5) => (N(5)' \/ O') /\ (Main => N(4)' \/ O')
  <2>1. /\ 8 \in 1..16 /\ 7 \in 1..16 /\ 6 \in 1..16 /\ 5 \in 1..16
        /\ 8 - 1 = 7 /\ 7 - 1 = 6 /\ 6 - 1 = 5 /\ 5 - 1 = 4
    OBVIOUS
  <2> HIDE DEF O
  <2> QED
    BY <2>1, StillNear DEF O
<1>6. Goes =>
      /\ N(4) => (N(4)' \/ O') /\ (Main => N(3)' \/ O')
      /\ N(3) => (N(3)' \/ O') /\ (Main => N(2)' \/ O')
      /\ N(2) => (N(2)' \/ O') /\ (Main => N(1)' \/ O')
      /\ N(1) => (N(1)' \/ O') /\ (Main => N(0)' \/ O')
  <2>1. /\ 4 \in 1..16 /\ 3 \in 1..16 /\ 2 \in 1..16 /\ 1 \in 1..16
        /\ 4 - 1 = 3 /\ 3 - 1 = 2 /\ 2 - 1 = 1 /\ 1 - 1 = 0
    OBVIOUS
  <2> HIDE DEF O
  <2> QED
    BY <2>1, StillNear DEF O
<1>7. (Gone => O) /\ (~O => May \/ (Bk /\ Run))
  BY DEF Over, MainMayStep
<1>8. [Next]_vars => \/ Main \/ O'
                     \/ (Bk <=> Bk') /\ (Bk /\ ~Run => ~Run')
  BY OthersWait, ReturnedStays DEF Over
<1>9. WhoMayStepDoes /\ BackupCallReturns => Fair
  <2>1. WhoMayStepDoes => []<>~May \/ []<><<Main>>_vars
    BY DEF WhoMayStepDoes
  <2>2. BackupCallReturns => [](Bk => <>(~Run \/ O))
    BY PTL DEF BackupCallReturns, Over
  <2> QED
    BY <2>1, <2>2
<1> HIDE DEF N, O, Bk, Run, Gone, May
<1>11. Spec /\ Fair => [](N(16) => <>(O \/ N(12)))
  BY <1>3, <1>7, <1>8, Invariance, FindInvariance, PTL DEF Spec
<1>12. Spec /\ Fair => [](N(12) => <>(O \/ N(8)))
  BY <1>4, <1>7, <1>8, Invariance, FindInvariance, PTL DEF Spec
<1>13. Spec /\ Fair => [](N(8) => <>(O \/ N(4)))
  BY <1>5, <1>7, <1>8, Invariance, FindInvariance, PTL DEF Spec
<1>14. Spec /\ Fair => [](N(4) => <>(O \/ N(0)))
  BY <1>6, <1>7, <1>8, Invariance, FindInvariance, PTL DEF Spec
<1>15. Spec => [](O \/ N(16))
  BY <1>1, Invariance, FindInvariance, PTL
<1>16. Spec /\ Fair => <>O
  BY <1>2, <1>11, <1>12, <1>13, <1>14, <1>15, PTL
<1> QED
  BY <1>9, <1>16 DEF WaitsEnd, O

\* The process ends if main and the handler go on when they wait for nothing
\* and the call of Backup returns, unless a call hangs for ever and nobody
\* sends a signal.
THEOREM ProgramEndsRun ==
  Spec /\ WaitsEnd => ProgramEnds
<1> DEFINE Gone      == exit # "none"
           Hung      == hang # {}
           Cancelled == handler = "cancelled"
           May       == handler = "cancelled" /\ exit = "none"
<1>1. Spec /\ WaitsEnd => <>(Gone \/ Hung)
  BY ProgramEndsOrHangs DEF Over
<1>2. IInv /\ [Next]_vars => (Cancelled => Cancelled')
  BY CancelStays
<1>3. IInv /\ [Next]_vars => (Hung /\ ~Cancelled => Hung')
  BY HangStays
<1>4. HandlerExits => Gone'
  BY DEF HandlerExits, End
<1>5. Cancelled => May \/ Gone
  OBVIOUS
<1>6. WaitsEnd => []<>~May \/ []<><<HandlerExits>>_vars
  <2>1. WhoMayStepDoes => []<>~May \/ []<><<HandlerExits>>_vars
    BY DEF WhoMayStepDoes
  <2> QED
    BY <2>1 DEF WaitsEnd
<1>7. ProgramEnds <=> <>Gone \/ <>[](Hung /\ ~Cancelled)
  <2>1. (Hung /\ ~Cancelled) <=> (hang # {} /\ handler # "cancelled")
    OBVIOUS
  <2> HIDE DEF Hung, Cancelled
  <2> QED
    BY <2>1, PTL DEF ProgramEnds
<1> HIDE DEF Gone, Hung, Cancelled, May
<1>8. Spec /\ ([]<>~May \/ []<><<HandlerExits>>_vars) => [](Cancelled => <>Gone)
  BY <1>2, <1>4, <1>5, Invariance, PTL DEF Spec
<1>9. Spec /\ [](Cancelled => <>Gone) /\ <>(Gone \/ Hung)
        => <>Gone \/ <>[](Hung /\ ~Cancelled)
  BY <1>3, Invariance, PTL DEF Spec
<1> QED
  BY <1>1, <1>6, <1>7, <1>8, <1>9

=============================================================================
