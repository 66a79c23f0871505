-------------------------- MODULE BackupRunProofs ---------------------------
(***************************************************************************)
(* What module BackupRun guarantees for every number of pages, every       *)
(* number of commits, both ways of reading the database and both kinds of  *)
(* storage.  The inductive invariant IInv says, for each phase of the      *)
(* caller, how much of the stream has gone through the pipe.               *)
(***************************************************************************)
EXTENDS BackupRun, TLAPS

USE ConstantsAssumption DEF ConstantsAssumption

\* The goroutine starts with the pipe, before Store is called.
StartInv ==
  /\ pc \in {"listTables", "dbInfo"} => prod = "none"
  /\ pc \in {"create", "copy"} => prod \in {"read", "write", "close", "exited"}
  /\ prod = "none" => nread = 0 /\ data = <<>> /\ ~visible
  /\ result # "none" <=> pc = "done"

\* Until Store gives up, every page read is either stored or in the pipe.
PipeInv ==
  pc \in {"create", "copy"}
    => nread = Len(data) + (IF prod = "write" THEN 1 ELSE 0)

\* Behind the end of the stream nothing is in the pipe any more.
SealInv ==
  /\ pc \in {"metaCreate", "metaWrite", "wait", "stat"} \/ result = "ok"
       => prod = "exited" /\ Len(data) = nread /\ visible
  /\ pc \in {"wait", "stat"} \/ result = "ok" => meta = "whole"
  /\ pc \in {"create", "copy"} => meta = "absent"
  /\ visible /\ staged => prod \in {"exited", "killed"}
  /\ pc = "copy" /\ ~staged => visible
  /\ lost => ~staged

\* A nil in the error channel stands for a whole dump.
ErrChInv ==
  errCh = "nil" \/ pc = "stat" \/ result = "ok" => nread = Pages

\* The outcome is in the channel before the pipe is closed, until it is read.
OutcomeInv ==
  /\ pc \in {"create", "copy", "metaCreate", "metaWrite", "wait"}
     /\ prod \in {"close", "exited"}
       => errCh # "empty"
  /\ Running => prod # "killed"

IInv ==
  /\ TypeOK
  /\ StartInv
  /\ PipeInv
  /\ SealInv
  /\ ErrChInv
  /\ OutcomeInv
  /\ MetadataSealsStream

-----------------------------------------------------------------------------
LEMMA InitIInv == Init => IInv
<1> SUFFICES ASSUME Init PROVE IInv
  OBVIOUS
<1> USE DEF Init
<1>1. TypeOK
  <2>1. data \in Seq(0..MaxCommits)
    OBVIOUS
  <2>2. visible \in BOOLEAN /\ lost \in BOOLEAN
    OBVIOUS
  <2> QED
    BY <2>1, <2>2 DEF TypeOK
<1>2. StartInv
  BY DEF StartInv
<1>3. PipeInv /\ SealInv
  BY DEF PipeInv, SealInv
<1>4. ErrChInv /\ OutcomeInv /\ MetadataSealsStream
  BY DEF ErrChInv, OutcomeInv, MetadataSealsStream
<1> QED
  BY <1>1, <1>2, <1>3, <1>4 DEF IInv

\* One step per action of Next.
LEMMA NextIInv == IInv /\ [Next]_vars => IInv'
<1> SUFFICES ASSUME IInv, [Next]_vars PROVE IInv'
  OBVIOUS
<1> USE DEF IInv, TypeOK, StartInv, PipeInv, SealInv, ErrChInv,
            OutcomeInv, Running, MetadataSealsStream,
            caller, goroutine, object, world, mode
<1>1. CASE ListTables
  BY <1>1 DEF ListTables, GoTo
<1>2. CASE GetDBInfo
  BY <1>2 DEF GetDBInfo, GoTo
<1>3. CASE PrepareFail
  BY <1>3 DEF PrepareFail, Return
<1>4. CASE StoreCreate
  BY <1>4 DEF StoreCreate, GoTo
<1>5. CASE StoreCreateFail
  BY <1>5 DEF StoreCreateFail, Return
<1>6. CASE StoreCopy
  BY <1>6 DEF StoreCopy
<1>7. CASE StoreCopyFail
  BY <1>7 DEF StoreCopyFail, Return
<1>8. CASE UploadFail
  BY <1>8 DEF UploadFail, Return
<1>9. CASE StoreEOF
  BY <1>9 DEF StoreEOF, GoTo
<1>10. CASE MetaCreate
  BY <1>10 DEF MetaCreate, GoTo
<1>11. CASE MetaWrite
  BY <1>11 DEF MetaWrite, GoTo
<1>12. CASE MetaFail
  BY <1>12 DEF MetaFail, Return
<1>13. CASE Publish
  BY <1>13 DEF Publish, GoTo
<1>14. CASE PublishFail
  <2>1. CASE visible' = TRUE /\ meta' = "whole"
    BY <1>14, <2>1 DEF PublishFail, Return
  <2>2. CASE UNCHANGED <<visible, meta>>
    BY <1>14, <2>2 DEF PublishFail, Return
  <2> QED
    BY <1>14, <2>1, <2>2 DEF PublishFail
<1>15. CASE WaitErr
  BY <1>15 DEF WaitErr, GoTo, Return
<1>16. CASE StatObject
  BY <1>16 DEF StatObject, Return
<1>17. CASE ReadPage
  BY <1>17 DEF ReadPage
<1>18. CASE DumpDone
  BY <1>18 DEF DumpDone
<1>19. CASE DumpFail
  BY <1>19 DEF DumpFail
<1>20. CASE ClosePipe
  BY <1>20 DEF ClosePipe
<1>21. CASE Commit
  BY <1>21 DEF Commit
<1>22. CASE Crash
  BY <1>22 DEF Crash
<1>23. CASE UNCHANGED vars
  BY <1>23 DEF vars
<1>24. CASE DelayedWriteFails
  BY <1>24 DEF DelayedWriteFails
<1> QED
  BY <1>1, <1>2, <1>3, <1>4, <1>5, <1>6, <1>7, <1>8, <1>9, <1>10, <1>11,
     <1>12, <1>13, <1>14, <1>15, <1>16, <1>17, <1>18, <1>19, <1>20, <1>21,
     <1>22, <1>23, <1>24 DEF Next, Caller, Goroutine

LEMMA Invariance == Spec => []IInv
BY InitIInv, NextIInv, PTL DEF Spec

\* The variables keep their types, and no more pages are read than exist.
THEOREM TypeCorrect == Spec => []TypeOK
<1>1. IInv => TypeOK
  BY DEF IInv
<1> QED
  BY <1>1, Invariance, PTL

\* A success is a whole object, unless the disk lost a page of a local file
\* and told only Close.
THEOREM SuccessComplete == Spec => []SuccessIsComplete
<1>1. IInv => SuccessIsComplete
  BY DEF IInv, TypeOK, SealInv, ErrChInv, SuccessIsComplete, WholeObject
<1> QED
  BY <1>1, Invariance, PTL

\* Metadata certifies that Store saw the end of the stream.
THEOREM MetadataSeals == Spec => []MetadataSealsStream
<1>1. IInv => MetadataSealsStream
  BY DEF IInv
<1> QED
  BY <1>1, Invariance, PTL

\* A goroutine outlives Backup only when Store failed early.
THEOREM BlockedWriter == Spec => []BlockedWriterMeansFailedStore
<1>1. IInv => BlockedWriterMeansFailedStore
  BY DEF IInv, TypeOK, StartInv, SealInv, MetadataSealsStream,
         BlockedWriterMeansFailedStore
<1> QED
  BY <1>1, Invariance, PTL

-----------------------------------------------------------------------------
\* Backup implements the promise of module Transfer (its safety part; that
\* the caller is always answered is liveness and checked by TLC).
THEOREM BackupImplementsTransfer == Spec => T!Spec
<1>1. Init => T!Init
  BY DEF Init, T!Init, Status
<1>2. IInv /\ IInv' /\ [Next]_vars => [T!Next]_(T!vars)
  <2> SUFFICES ASSUME IInv, IInv', [Next]_vars PROVE [T!Next]_(T!vars)
    OBVIOUS
  <2> USE DEF T!Next, T!vars, Status, caller, object, world, mode
  <2>1. CASE StoreCopy
    <3>1. T!Deliver
      BY <2>1 DEF StoreCopy, T!Deliver, IInv, TypeOK, PipeInv
    <3> QED
      BY <3>1
  <2>2. CASE UNCHANGED <<data, Status>>
    BY <2>2
  <2>3. CASE Running /\ UNCHANGED data /\ Status' = "err"
    <3>1. T!Fail
      BY <2>3 DEF T!Fail, Running
    <3> QED
      BY <3>1
  <2>4. CASE StatObject
    <3>1. CASE visible /\ Return("ok")
      <4>1. T!Succeed
        BY <2>4, <3>1 DEF StatObject, Return, T!Succeed, IInv, TypeOK,
                          SealInv, ErrChInv
      <4> QED
        BY <4>1
    <3>2. CASE Return("err")
      BY <2>3, <2>4, <3>2 DEF StatObject, Return, Running
    <3> QED
      BY <2>4, <3>1, <3>2 DEF StatObject
  <2>5. CASE PrepareFail \/ StoreCreateFail \/ StoreCopyFail \/ UploadFail
               \/ MetaFail \/ PublishFail
    BY <2>3, <2>5 DEF PrepareFail, StoreCreateFail, StoreCopyFail, UploadFail,
                      MetaFail, PublishFail, Return, Running
  <2>6. CASE WaitErr
    BY <2>2, <2>3, <2>6 DEF WaitErr, GoTo, Return, Running
  <2>7. CASE Crash
    BY <2>3, <2>7 DEF Crash, Running
  <2>8. CASE Goroutine \/ DumpFail \/ Commit \/ DelayedWriteFails
               \/ UNCHANGED vars
    BY <2>2, <2>8 DEF Goroutine, ReadPage, DumpDone, DumpFail, ClosePipe,
                      Commit, DelayedWriteFails, vars
  <2>9. CASE ListTables \/ GetDBInfo \/ StoreCreate \/ StoreEOF
               \/ MetaCreate \/ MetaWrite \/ Publish
    BY <2>2, <2>9 DEF ListTables, GetDBInfo, StoreCreate, StoreEOF,
                      MetaCreate, MetaWrite, Publish, GoTo
  <2> QED
    BY <2>1, <2>4, <2>5, <2>6, <2>7, <2>8, <2>9 DEF Next, Caller
<1> QED
  BY <1>1, <1>2, Invariance, PTL DEF Spec, T!Spec

-----------------------------------------------------------------------------
(* Why Backup returns: somebody can always go on, and every step but those *)
(* of the application and of the disk lowers a natural number.             *)

\* Caller and goroutine never wait for each other.
THEOREM NeverMutualWait == Spec => []NoMutualWait
<1>1. IInv => NoMutualWait
  BY DEF IInv, TypeOK, StartInv, SealInv, OutcomeInv, NoMutualWait,
         CallerMayStep, GoroutineMayStep, Running
<1> QED
  BY <1>1, Invariance, PTL

LEMMA LeftTables ==
  /\ CallerLeft["listTables"] = 8 /\ CallerLeft["dbInfo"] = 7
  /\ CallerLeft["create"] = 6     /\ CallerLeft["copy"] = 5
  /\ CallerLeft["metaCreate"] = 4 /\ CallerLeft["metaWrite"] = 3
  /\ CallerLeft["wait"] = 2       /\ CallerLeft["stat"] = 1
  /\ CallerLeft["done"] = 0       /\ CallerLeft["crashed"] = 0
  /\ WriterLeft["none"] = 4       /\ WriterLeft["write"] = 3
  /\ WriterLeft["read"] = 2       /\ WriterLeft["close"] = 1
  /\ WriterLeft["exited"] = 0     /\ WriterLeft["killed"] = 0
BY DEF CallerLeft, WriterLeft

LEMMA LeftNat ==
  ASSUME NEW p \in {"listTables", "dbInfo", "create", "copy", "metaCreate",
                    "metaWrite", "wait", "stat", "done", "crashed"},
         NEW w \in {"none", "read", "write", "close", "exited", "killed"}
  PROVE  CallerLeft[p] \in Nat /\ WriterLeft[w] \in Nat
BY LeftTables

LEMMA StepsLeftNat == TypeOK => StepsLeft \in Nat
<1> SUFFICES ASSUME TypeOK PROVE StepsLeft \in Nat
  OBVIOUS
<1>1. CallerLeft[pc] \in Nat /\ WriterLeft[prod] \in Nat
  BY LeftNat DEF TypeOK
<1>2. Pages - nread \in Nat
  BY DEF TypeOK
<1> QED
  BY <1>1, <1>2 DEF StepsLeft

\* A caller that goes on lowers its part.
LEMMA CallerLowers ==
  ASSUME TypeOK, StartInv, Caller \/ UploadFail, ~StoreCopy
  PROVE  /\ CallerLeft[pc'] < CallerLeft[pc]
         /\ UNCHANGED <<nread, commits>>
         /\ \/ prod' = prod
            \/ prod = "none" /\ prod' = "read"
            \/ prod = "write" /\ prod' = "read"
<1> USE LeftTables DEF GoTo, Return, caller, goroutine, world
<1>1. pc # "done" /\ pc # "crashed" => CallerLeft["done"] < CallerLeft[pc]
  BY DEF TypeOK
<1>2. CASE PrepareFail \/ StoreCreateFail \/ StoreCopyFail \/ UploadFail
             \/ MetaFail \/ PublishFail
  BY <1>1, <1>2 DEF PrepareFail, StoreCreateFail, StoreCopyFail, UploadFail,
                    MetaFail, PublishFail
<1>3. CASE ListTables \/ GetDBInfo \/ StoreCreate
  BY <1>3 DEF ListTables, GetDBInfo, StoreCreate, StartInv
<1>4. CASE StoreEOF \/ MetaCreate \/ MetaWrite \/ Publish
  BY <1>4 DEF StoreEOF, MetaCreate, MetaWrite, Publish
<1>5. CASE WaitErr \/ StatObject
  BY <1>5 DEF WaitErr, StatObject
<1> QED
  BY <1>2, <1>3, <1>4, <1>5 DEF Caller

\* Every step of Backup and of its goroutine takes something off StepsLeft.
LEMMA StepLowers ==
  ASSUME IInv, IInv', Caller \/ UploadFail \/ Goroutine \/ DumpFail \/ Crash
  PROVE  StepsLeft' < StepsLeft
<1>0. TypeOK /\ TypeOK' /\ StartInv
  BY DEF IInv
<1>1. /\ CallerLeft[pc] \in Nat /\ CallerLeft[pc'] \in Nat
      /\ WriterLeft[prod] \in Nat /\ WriterLeft[prod'] \in Nat
      /\ nread \in 0..Pages /\ nread' \in 0..Pages
  <2>1. /\ pc \in {"listTables", "dbInfo", "create", "copy", "metaCreate",
                   "metaWrite", "wait", "stat", "done", "crashed"}
        /\ prod \in {"none", "read", "write", "close", "exited", "killed"}
        /\ nread \in 0..Pages
    BY <1>0 DEF TypeOK
  <2>2. /\ pc' \in {"listTables", "dbInfo", "create", "copy", "metaCreate",
                    "metaWrite", "wait", "stat", "done", "crashed"}
        /\ prod' \in {"none", "read", "write", "close", "exited", "killed"}
        /\ nread' \in 0..Pages
    BY <1>0 DEF TypeOK
  <2>3. CallerLeft[pc] \in Nat /\ WriterLeft[prod] \in Nat
    BY <2>1, LeftNat
  <2>4. CallerLeft[pc'] \in Nat /\ WriterLeft[prod'] \in Nat
    BY <2>2, LeftNat
  <2> QED
    BY <2>1, <2>2, <2>3, <2>4
<1>2. CASE ReadPage
  <2>1. /\ pc' = pc /\ commits' = commits
        /\ nread' = nread + 1
        /\ WriterLeft[prod'] = WriterLeft[prod] + 1
    BY <1>2, LeftTables DEF ReadPage, caller, world
  <2>2. 2 * (Pages - nread') = 2 * (Pages - nread) - 2
    BY <1>1, <2>1
  <2> QED
    BY <1>1, <2>1, <2>2 DEF StepsLeft
<1>3. CASE DumpDone \/ DumpFail \/ ClosePipe
  <2>1. /\ UNCHANGED <<pc, nread, commits>>
        /\ WriterLeft[prod'] = WriterLeft[prod] - 1
    <3>1. CASE DumpDone
      BY <3>1, LeftTables DEF DumpDone, caller, world
    <3>2. CASE DumpFail
      BY <3>2, LeftTables DEF DumpFail, caller, world
    <3>3. CASE ClosePipe
      BY <3>3, LeftTables DEF ClosePipe, caller, world
    <3> QED
      BY <1>3, <3>1, <3>2, <3>3
  <2> QED
    BY <1>1, <2>1 DEF StepsLeft
<1>4. CASE StoreCopy
  BY <1>1, <1>4, LeftTables DEF StoreCopy, StepsLeft, caller, world
<1>5. CASE (Caller \/ UploadFail) /\ ~StoreCopy
  <2>1. WriterLeft[prod'] <= WriterLeft[prod]
    BY <1>0, <1>1, <1>5, CallerLowers, LeftTables
  <2> QED
    BY <1>0, <1>1, <1>5, <2>1, CallerLowers DEF StepsLeft
<1>6. CASE Crash
  <2>1. CallerLeft[pc'] < CallerLeft[pc] /\ WriterLeft[prod'] = 0
    BY <1>0, <1>6, LeftTables DEF Crash, Running, TypeOK
  <2> QED
    BY <1>1, <1>6, <2>1 DEF Crash, StepsLeft, world
<1> QED
  BY <1>2, <1>3, <1>4, <1>5, <1>6 DEF Goroutine

\* No step is repeated or taken back, for any number of pages and commits.
THEOREM StepsCount == Spec => EveryStepCounts
<1>1. IInv /\ IInv' /\ [Next]_vars
        => [StepsLeft' < StepsLeft
              \/ UNCHANGED <<caller, goroutine, errCh, object>>]_vars
  BY StepLowers DEF Next, Commit, DelayedWriteFails
<1> QED
  BY <1>1, Invariance, PTL DEF Spec, EveryStepCounts

\* Backup advances, whatever fails and whatever is committed meanwhile.
THEOREM BackupAdvances == Spec => Advances
BY NeverMutualWait, StepsCount, PTL DEF Advances

\* Whatever number of steps is left while Backup runs, some time fewer are:
\* whoever may step does, and the one who may step goes on to until somebody
\* has.  No count is below 0 (StepsLeftNat), so that Backup returns.
THEOREM StepsRunOut ==
  ASSUME NEW k \in Nat
  PROVE  Spec /\ WhoMayStepDoes
           => [](Running /\ StepsLeft = k => <>(~Running \/ StepsLeft < k))
<1> DEFINE At    == Running /\ StepsLeft = k
           Below == ~Running \/ StepsLeft < k
<1>1. IInv => (At => CallerMayStep \/ GoroutineMayStep)
  BY DEF IInv, TypeOK, StartInv, SealInv, OutcomeInv,
         CallerMayStep, GoroutineMayStep, Running
<1>2. IInv /\ IInv' /\ At /\ [Next]_vars
        => \/ Below'
           \/ /\ At'
              /\ CallerMayStep => CallerMayStep'
              /\ GoroutineMayStep => GoroutineMayStep'
  <2> SUFFICES ASSUME IInv, IInv', At, [Next]_vars
               PROVE  \/ Below'
                      \/ /\ At'
                         /\ CallerMayStep => CallerMayStep'
                         /\ GoroutineMayStep => GoroutineMayStep'
    OBVIOUS
  <2> USE DEF Running, CallerMayStep, GoroutineMayStep, StepsLeft, caller,
              goroutine
  <2>1. CASE Commit \/ DelayedWriteFails
    BY <2>1 DEF Commit, DelayedWriteFails
  <2>2. CASE UNCHANGED vars
    BY <2>2 DEF vars
  <2>3. CASE Caller \/ UploadFail \/ Goroutine \/ DumpFail \/ Crash
    <3> HIDE DEF StepsLeft
    <3> QED
      BY <2>3, StepLowers
  <2> QED
    BY <2>1, <2>2, <2>3 DEF Next
<1>3. IInv /\ IInv' /\ At /\ <<Caller>>_vars => Below'
  BY StepLowers
<1>4. IInv /\ IInv' /\ At /\ <<Goroutine>>_vars => Below'
  BY StepLowers
<1> HIDE DEF At, Below
<1>5. Spec /\ WhoMayStepDoes => [](At => <>Below)
  BY <1>1, <1>2, <1>3, <1>4, Invariance, PTL DEF Spec, WhoMayStepDoes
<1> QED
  BY <1>5 DEF At, Below

=============================================================================
