------------------------------ MODULE BackupRun -----------------------------
(***************************************************************************)
(* One call of FullBackup.Backup (internal/backup/full.go), with the       *)
(* goroutine it starts, the io.Pipe and the error channel between them,    *)
(* and the storage provider's Store that drains the pipe.  The incremental *)
(* and differential Backup run the same pipeline after choosing a base.    *)
(*                                                                         *)
(* The database is a file of Pages pages that an application rewrites      *)
(* while the backup runs.  A page is represented by the number of the      *)
(* commit it was read from, so a dump is consistent when all its pages     *)
(* carry one number.  Every commit rewrites every page: the case in which  *)
(* a torn copy shows.                                                      *)
(*                                                                         *)
(* Cancelling the context only makes a call fail that may fail anyway, so  *)
(* the failures below stand for it too; Crash is os.Exit from the signal   *)
(* handler of main.go, or a kill.                                          *)
(*                                                                         *)
(* A definition named Action_Fault stands before Action and is Action with *)
(* one plausible bug.  No specification uses it: it is what a property is  *)
(* tried against to show that the property can fail.                       *)
(***************************************************************************)
EXTENDS Naturals, Sequences

CONSTANTS
  Pages,       \* pages of the database: the length of a whole dump
  MaxCommits   \* bound on the commits of the application

ASSUME ConstantsAssumption ==
  /\ Pages \in Nat
  /\ MaxCommits \in Nat

VARIABLES
  liveRead,  \* TRUE: the connector copies the database as it is (SQLite,
             \* mongodump); FALSE: the dump tool reads one snapshot (mysqldump,
             \* pg_dump)
  staged,    \* TRUE: object store, an upload is published when it ends;
             \* FALSE: local files, visible from their creation
  pc,        \* control of the caller of Backup
  result,    \* what Backup returned: "none" while it runs, "ok", "err"
  prod,      \* control of the goroutine that runs DB.Backup
  nread,     \* pages the goroutine has read from the database
  inflight,  \* page last offered to the pipe (it waits while prod = "write")
  errCh,     \* the channel of capacity 1: "empty", "nil" or "err"
  commits,   \* commits of the application so far
  data,      \* pages Store has received, in order
  lost,      \* local files: the disk did not keep some of them
  visible,   \* the object exists under its path
  meta       \* its metadata: "absent", "partial" or "whole"

caller    == <<pc, result>>
goroutine == <<prod, nread, inflight>>
object    == <<data, visible, meta>>
mode      == <<liveRead, staged>>   \* connector and provider: never change
world     == <<commits, lost, mode>>
vars      == <<caller, goroutine, errCh, world, object>>

-----------------------------------------------------------------------------
Init ==
  /\ liveRead \in BOOLEAN
  /\ staged \in BOOLEAN
  /\ pc = "listTables"
  /\ result = "none"
  /\ prod = "none"
  /\ nread = 0
  /\ inflight = 0
  /\ errCh = "empty"
  /\ commits = 0
  /\ data = <<>>
  /\ lost = FALSE
  /\ visible = FALSE
  /\ meta = "absent"

GoTo(from, to) == pc = from /\ pc' = to /\ UNCHANGED result

Return(r) == pc' = "done" /\ result' = r

Running == pc \notin {"done", "crashed"}

-----------------------------------------------------------------------------
(* The application that owns the database, and the disk.                   *)

Commit ==
  /\ commits < MaxCommits
  /\ commits' = commits + 1
  /\ UNCHANGED <<caller, goroutine, errCh, lost, mode, object>>

\* While the file is open the disk loses a page that Write accepted.  Nobody
\* but Close is told, and the deferred Close's error is dropped.
DelayedWriteFails ==
  /\ ~staged
  /\ pc \in {"copy", "metaCreate", "metaWrite"}
  /\ data # <<>>
  /\ ~lost
  /\ lost' = TRUE
  /\ UNCHANGED <<caller, goroutine, errCh, commits, mode, object>>

-----------------------------------------------------------------------------
(* The caller, up to the start of the goroutine.                           *)

ListTables ==
  /\ GoTo("listTables", "dbInfo")
  /\ UNCHANGED <<goroutine, errCh, world, object>>

\* GetInfo succeeded: the pipe is made and the goroutine starts.
GetDBInfo ==
  /\ GoTo("dbInfo", "create")
  /\ prod' = "read"
  /\ UNCHANGED <<nread, inflight, errCh, world, object>>

PrepareFail ==
  /\ pc \in {"listTables", "dbInfo"}
  /\ Return("err")
  /\ UNCHANGED <<goroutine, errCh, world, object>>

-----------------------------------------------------------------------------
(* The goroutine: DB.Backup writes to the pipe, its outcome goes to errCh, *)
(* and only then the deferred pw.Close() ends the stream.                  *)

ReadPage_PastEnd ==
  /\ prod = "read"
  /\ nread <= Pages
  /\ nread' = nread + 1
  /\ inflight' = IF liveRead \/ nread = 0 THEN commits ELSE inflight
  /\ prod' = "write"
  /\ UNCHANGED <<caller, errCh, world, object>>

\* The next page is read and written to the pipe, which blocks until Store
\* takes it.  A dump tool keeps to the snapshot of its first read.
ReadPage ==
  /\ prod = "read"
  /\ nread < Pages
  /\ nread' = nread + 1
  /\ inflight' = IF liveRead \/ nread = 0 THEN commits ELSE inflight
  /\ prod' = "write"
  /\ UNCHANGED <<caller, errCh, world, object>>

\* DB.Backup returns nil.
DumpDone ==
  /\ prod = "read"
  /\ nread = Pages
  /\ errCh' = "nil"
  /\ prod' = "close"
  /\ UNCHANGED <<caller, nread, inflight, world, object>>

DumpFail_Silent ==
  /\ prod = "read"
  /\ prod' = "close"
  /\ UNCHANGED <<caller, nread, inflight, errCh, world, object>>

DumpFail_Retried ==
  /\ prod = "read"
  /\ nread' = 0
  /\ UNCHANGED <<caller, prod, inflight, errCh, world, object>>

\* DB.Backup fails: the file cannot be opened or read, the tool exits non-zero.
DumpFail ==
  /\ prod = "read"
  /\ errCh' = "err"
  /\ prod' = "close"
  /\ UNCHANGED <<caller, nread, inflight, world, object>>

ClosePipe_Unbuffered ==
  /\ prod = "close"
  /\ errCh = "empty"
  /\ prod' = "exited"
  /\ UNCHANGED <<caller, nread, inflight, errCh, world, object>>

\* Closing without an error: the reader sees the end of the stream, even
\* after DumpFail.
ClosePipe ==
  /\ prod = "close"
  /\ prod' = "exited"
  /\ UNCHANGED <<caller, nread, inflight, errCh, world, object>>

-----------------------------------------------------------------------------
(* Storage.Store.  A local Store creates the file, copies the stream into  *)
(* it and writes the metadata file; an object store stages the stream and  *)
(* publishes object and metadata together.                                 *)

StoreCreate ==
  /\ GoTo("create", "copy")
  /\ visible' = ~staged
  /\ UNCHANGED <<goroutine, errCh, world, data, meta>>

StoreCreateFail ==
  /\ pc = "create"
  /\ Return("err")
  /\ UNCHANGED <<goroutine, errCh, world, object>>

StoreCopy_MayDrop ==
  /\ pc = "copy"
  /\ prod = "write"
  /\ prod' = "read"
  /\ \/ data' = Append(data, inflight)
     \/ UNCHANGED data
  /\ UNCHANGED <<caller, nread, inflight, errCh, world, visible, meta>>

\* io.Copy takes a page from the pipe, which releases the writer.
StoreCopy ==
  /\ pc = "copy"
  /\ prod = "write"
  /\ prod' = "read"
  /\ data' = Append(data, inflight)
  /\ UNCHANGED <<caller, nread, inflight, errCh, world, visible, meta>>

\* The page was taken from the pipe but not written (disk full, upload
\* aborted).  Store returns, nobody reads the pipe again and nobody closes it.
StoreCopyFail ==
  /\ pc = "copy"
  /\ prod = "write"
  /\ prod' = "read"
  /\ Return("err")
  /\ UNCHANGED <<nread, inflight, errCh, world, object>>

\* A request may fail before the service has seen the whole stream.
UploadFail ==
  /\ staged
  /\ pc = "copy"
  /\ Return("err")
  /\ UNCHANGED <<goroutine, errCh, world, object>>

StoreEOF_OnOutcome ==
  /\ ~staged
  /\ errCh # "empty"
  /\ GoTo("copy", "metaCreate")
  /\ UNCHANGED <<goroutine, errCh, world, object>>

StoreEOF ==
  /\ ~staged
  /\ prod = "exited"
  /\ GoTo("copy", "metaCreate")
  /\ UNCHANGED <<goroutine, errCh, world, object>>

\* os.WriteFile creates the metadata file, then writes it.
MetaCreate ==
  /\ GoTo("metaCreate", "metaWrite")
  /\ meta' = "partial"
  /\ UNCHANGED <<goroutine, errCh, world, data, visible>>

MetaWrite ==
  /\ GoTo("metaWrite", "wait")
  /\ meta' = "whole"
  /\ UNCHANGED <<goroutine, errCh, world, data, visible>>

MetaFail ==
  /\ pc \in {"metaCreate", "metaWrite"}
  /\ Return("err")
  /\ UNCHANGED <<goroutine, errCh, world, object>>

Publish_OnOutcome ==
  /\ staged
  /\ errCh # "empty"
  /\ GoTo("copy", "wait")
  /\ visible' = TRUE
  /\ meta' = "whole"
  /\ UNCHANGED <<goroutine, errCh, world, data>>

\* PutObject at the end of the stream.
Publish ==
  /\ staged
  /\ prod = "exited"
  /\ GoTo("copy", "wait")
  /\ visible' = TRUE
  /\ meta' = "whole"
  /\ UNCHANGED <<goroutine, errCh, world, data>>

\* PutObject fails, and the service may have published all the same: the
\* answer was lost.
PublishFail ==
  /\ staged
  /\ pc = "copy"
  /\ prod = "exited"
  /\ Return("err")
  /\ \/ visible' = TRUE /\ meta' = "whole"
     \/ UNCHANGED <<visible, meta>>
  /\ UNCHANGED <<goroutine, errCh, world, data>>

-----------------------------------------------------------------------------
(* The caller, once Store has returned nil.                                *)

WaitErr_ValueIgnored ==
  /\ GoTo("wait", "stat")
  /\ errCh # "empty"
  /\ errCh' = "empty"
  /\ UNCHANGED <<goroutine, world, object>>

\* <-errCh
WaitErr ==
  /\ pc = "wait"
  /\ errCh # "empty"
  /\ errCh' = "empty"
  /\ \/ errCh = "nil" /\ GoTo("wait", "stat")
     \/ errCh = "err" /\ Return("err")
  /\ UNCHANGED <<goroutine, world, object>>

\* Storage.GetInfo on the new object decides what Backup returns.
StatObject ==
  /\ pc = "stat"
  /\ \/ visible /\ Return("ok")
     \/ Return("err")
  /\ UNCHANGED <<goroutine, errCh, world, object>>

Crash ==
  /\ Running
  /\ pc' = "crashed"
  /\ prod' = "killed"
  /\ UNCHANGED <<result, nread, inflight, errCh, world, object>>

-----------------------------------------------------------------------------
Caller ==
  \/ ListTables \/ GetDBInfo \/ PrepareFail
  \/ StoreCreate \/ StoreCreateFail \/ StoreCopy \/ StoreCopyFail
  \/ StoreEOF \/ MetaCreate \/ MetaWrite \/ MetaFail \/ Publish \/ PublishFail
  \/ WaitErr \/ StatObject

Goroutine == ReadPage \/ DumpDone \/ ClosePipe

Next ==
  \/ Caller \/ UploadFail
  \/ Goroutine \/ DumpFail
  \/ Commit \/ DelayedWriteFails
  \/ Crash

Spec == Init /\ [][Next]_vars

\* The Go scheduler runs every goroutine that can run, and a database read
\* or a storage call that has what it waits for returns, with an answer or an
\* error.  No fairness makes the dump or the upload fail on its own.
FairSpec == Spec /\ WF_vars(Caller) /\ WF_vars(Goroutine)

-----------------------------------------------------------------------------
(* Properties.                                                             *)

\* The values the variables take; no more pages are read than there are.
TypeOK ==
  /\ liveRead \in BOOLEAN
  /\ staged \in BOOLEAN
  /\ pc \in {"listTables", "dbInfo", "create", "copy", "metaCreate",
             "metaWrite", "wait", "stat", "done", "crashed"}
  /\ result \in {"none", "ok", "err"}
  /\ prod \in {"none", "read", "write", "close", "exited", "killed"}
  /\ nread \in 0..Pages
  /\ inflight \in 0..MaxCommits
  /\ errCh \in {"empty", "nil", "err"}
  /\ commits \in 0..MaxCommits
  /\ data \in Seq(0..MaxCommits)
  /\ lost \in BOOLEAN
  /\ visible \in BOOLEAN
  /\ meta \in {"absent", "partial", "whole"}

\* The object is there, holds every page of the database and has its metadata.
WholeObject == visible /\ Len(data) = Pages /\ ~lost /\ meta = "whole"

\* Backup answers success only for a whole object (full.go 118-140).  One
\* fault is excepted: the disk lost a page that Write had accepted for a local
\* file, and only Close was told, whose error is dropped (local.go 61).
SuccessIsComplete == result = "ok" => WholeObject \/ (lost /\ ~staged)

\* Metadata is written only behind the end of the stream: where a metadata
\* file exists, even after a crash, Store has received every page that the
\* goroutine read (local.go 63-79).
MetadataSealsStream ==
  meta # "absent" => prod \in {"exited", "killed"} /\ Len(data) = nread

\* A goroutine that outlives Backup, and may stay blocked in pw.Write for
\* ever, is the mark of a Store that failed before the end of the stream:
\* it never follows a success and no metadata was written (full.go 86-121).
BlockedWriterMeansFailedStore ==
  pc = "done" /\ prod \in {"read", "write", "close"}
    => result = "err" /\ meta = "absent" /\ (visible => ~staged)

\* All pages stored come from one state of the database, the consistent dump
\* a backup is made for (connector.go 52-53).  A live copy does not have this.
DumpIsSnapshot ==
  \A i, j \in DOMAIN data : data[i] = data[j]

\* What the two wait for: the caller for a page or the end of the stream, and
\* then for the outcome; the goroutine for a Store that reads.
CallerMayStep ==
  /\ Running
  /\ pc = "copy" => prod = "write" \/ prod = "exited"
  /\ pc = "wait" => errCh # "empty"

GoroutineMayStep == prod = "read" \/ prod = "close"

\* While Backup runs one of the two waits for nothing: the outcome is in the
\* channel before the pipe is closed, and Store reads until it is (full.go
\* 86-121).
NoMutualWait == Running => CallerMayStep \/ GoroutineMayStep

\* One that does not wait makes its step: these are the guards of the calls in
\* the code that block, and the two conditions are all that they wait for
\* (full.go 86-121).
WhoMayStepDoes ==
  /\ []<>~CallerMayStep \/ []<><<Caller>>_vars
  /\ []<>~GoroutineMayStep \/ []<><<Goroutine>>_vars

\* The steps that Backup and its goroutine have left, at most.
CallerLeft == [listTables |-> 8, dbInfo |-> 7, create |-> 6, copy |-> 5,
               metaCreate |-> 4, metaWrite |-> 3, wait |-> 2, stat |-> 1,
               done |-> 0, crashed |-> 0]
WriterLeft == [none |-> 4, write |-> 3, read |-> 2, close |-> 1, exited |-> 0,
               killed |-> 0]
StepsLeft  == CallerLeft[pc] + WriterLeft[prod] + 2 * (Pages - nread)

\* No step is repeated or taken back: whatever changes the state of the call
\* brings Backup and its goroutine nearer to their end (full.go 86-121).
EveryStepCounts ==
  [][\/ StepsLeft' < StepsLeft
     \/ UNCHANGED <<caller, goroutine, errCh, object>>]_vars

\* Backup advances: the two never wait for each other, and no step is in vain.
Advances == []NoMutualWait /\ EveryStepCounts

\* What the caller of Backup can see of its progress.
Status == IF pc = "done" THEN result
          ELSE IF pc = "crashed" THEN "err" ELSE "running"

\* The promise of module Transfer.
T == INSTANCE Transfer WITH
       Total <- Pages,
       delivered <- Len(data),
       status <- Status

\* Backup keeps it: pages arrive in order, success is for all of them, and the
\* caller is always answered, since neither side waits for the other for ever
\* as far as it goes on when it may (full.go 86-121).
ImplementsTransfer == WhoMayStepDoes /\ T!FairSpec

=============================================================================
