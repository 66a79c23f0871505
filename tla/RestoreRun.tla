----------------------------- MODULE RestoreRun -----------------------------
(***************************************************************************)
(* SelectiveRestorer.Restore (internal/restore/selective.go): a goroutine  *)
(* retrieves the backup into an io.Pipe while Connector.Restore reads it.  *)
(* The SQLite connector closes its handle, copies the stream to a file     *)
(* beside the database and renames that over it; mysql and pg_restore      *)
(* change the live database as they read; MongoDB's connector copies the   *)
(* stream to a temporary file of its own and then runs mongorestore on it. *)
(*                                                                         *)
(* One restorer and one connector serve up to MaxCalls calls, which may    *)
(* overlap: nothing in the code locks the connector, its ".tmp" path or    *)
(* the restores map.  Goroutines that a call left behind are kept.  The    *)
(* process may die at any time and be started again; a tool that it has    *)
(* started lives on and works through what it was given.  The stored       *)
(* backup has some length up to Total, the length of a whole one: a failed *)
(* Backup leaves a shorter one (module BackupRun).                         *)
(*                                                                         *)
(* A definition named Action_Fault is Action with one plausible bug; no    *)
(* specification uses it.                                                  *)
(***************************************************************************)
EXTENDS Naturals

CONSTANTS
  Total,     \* chunks of a whole backup
  MaxCalls   \* bound on the calls of Restore

ASSUME RestoreAssumption ==
  /\ Total \in Nat
  /\ MaxCalls \in Nat

VARIABLES
  kind,      \* the connector: "sqlite", "tool" (mysql, pg_restore) or "mongo"
  stored,    \* length of the stored backup
  n,         \* calls begun
  pc,        \* next step of each call
  result,    \* Success and ErrorMessage of each: "none", "ok" or "err"
  recorded,  \* the calls in the restores map
  prod,      \* the goroutine of each call
  sent,      \* chunks it has offered to its pipe
  errCh,     \* its error channel: "empty", "nil" or "err"
  put,       \* length of what each call has put in place, NoFile before
  live,      \* the call the live database comes from, 0 for the original
  tmp,       \* length of the ".tmp" file, NoFile or Mixed
  handle,    \* the SQLite connector's db: "open", "closed" or "nil"
  faults     \* history: the races and dropped errors that have happened

caller   == <<pc, result, recorded>>
stream   == <<prod, sent, errCh>>
database == <<put, live>>
vars     == <<kind, stored, n, caller, stream, database, tmp, handle, faults>>

Calls  == 1..MaxCalls
NoFile == Total + 1
Mixed  == Total + 2    \* written to by two calls

-----------------------------------------------------------------------------
Init ==
  /\ kind \in {"sqlite", "tool", "mongo"}
  /\ stored \in 0..Total
  /\ n = 0
  /\ pc = [i \in Calls |-> "none"]
  /\ result = [i \in Calls |-> "none"]
  /\ recorded = {}
  /\ prod = [i \in Calls |-> "none"]
  /\ sent = [i \in Calls |-> 0]
  /\ errCh = [i \in Calls |-> "empty"]
  /\ put = [i \in Calls |-> NoFile]
  /\ live = 0
  /\ tmp = NoFile
  /\ handle = "open"
  /\ faults = {}

GoTo(i, from, to) ==
  /\ pc[i] = from
  /\ pc' = [pc EXCEPT ![i] = to]
  /\ UNCHANGED <<kind, stored, n, result, recorded>>

\* Restore returns; what it returns is also what the map shows.
Return(i, r) ==
  /\ pc' = [pc EXCEPT ![i] = "done"]
  /\ result' = [result EXCEPT ![i] = r]
  /\ UNCHANGED <<kind, stored, n, recorded>>

Running(i) == pc[i] \notin {"none", "done", "dead", "orphan"}

\* Another call than i is at one of the steps named.
OtherIn(i, steps) == \E j \in Calls \ {i} : pc[j] \in steps

Note(fault, happened) ==
  faults' = IF happened THEN faults \cup {fault} ELSE faults

\* The pipe's reader takes the chunk that is offered.
Take(i) ==
  /\ prod[i] = "write"
  /\ prod' = [prod EXCEPT ![i] = "read"]
  /\ UNCHANGED <<sent, errCh>>

-----------------------------------------------------------------------------
(* The caller, up to DB.Restore.                                           *)

\* GetBackup found the backup (its failure changes nothing) and the call
\* begins to write its entry into the restores map.
Restore(i) ==
  /\ i = n + 1
  /\ n' = i
  /\ pc' = [pc EXCEPT ![i] = "record"]
  /\ Note("overlap", \E j \in Calls : Running(j))
  /\ UNCHANGED <<kind, stored, result, recorded, stream, database, tmp,
                 handle>>

Entry == [sqlite |-> "check", tool |-> "apply", mongo |-> "buffer"]

Record_Forgotten(i) ==
  /\ GoTo(i, "record", Entry[kind])
  /\ prod' = [prod EXCEPT ![i] = "read"]
  /\ UNCHANGED <<sent, errCh, database, tmp, handle, faults>>

\* The entry is written and the goroutine starts.  Two writes at the same
\* time are a data race on the map: the runtime may stop the program (Crash)
\* or an entry may be lost.
Record(i) ==
  /\ pc[i] = "record"
  /\ pc' = [pc EXCEPT ![i] = Entry[kind]]
  /\ \/ recorded' = recorded \cup {i}
     \/ OtherIn(i, {"record"}) /\ UNCHANGED recorded
  /\ Note("map", OtherIn(i, {"record"}))
  /\ prod' = [prod EXCEPT ![i] = "read"]
  /\ UNCHANGED <<kind, stored, n, result, sent, errCh, database, tmp,
                 handle>>

-----------------------------------------------------------------------------
(* SQLiteConnector.Restore.                                                *)

\* "database connection not established".
NoHandle(i) ==
  /\ pc[i] = "check"
  /\ handle = "nil"
  /\ Return(i, "err")
  /\ UNCHANGED <<stream, database, tmp, handle, faults>>

CheckHandle_Missing(i) ==
  /\ GoTo(i, "check", "close")
  /\ Note("handle", OtherIn(i, {"close", "setNil"}))
  /\ UNCHANGED <<stream, database, tmp, handle>>

\* db is not nil.  It is not yet nil, either, for a call that has passed the
\* same check and not set it: the two go on together.
CheckHandle(i) ==
  /\ handle # "nil"
  /\ GoTo(i, "check", "close")
  /\ Note("handle", OtherIn(i, {"close", "setNil"}))
  /\ UNCHANGED <<stream, database, tmp, handle>>

CloseHandle(i) ==
  /\ handle # "nil"
  /\ GoTo(i, "close", "setNil")
  /\ handle' = "closed"
  /\ UNCHANGED <<stream, database, tmp, faults>>

\* Closing fails; the sql.DB is closed all the same and stays in place.
CloseHandleFail(i) ==
  /\ pc[i] = "close"
  /\ handle # "nil"
  /\ handle' = "closed"
  /\ Return(i, "err")
  /\ UNCHANGED <<stream, database, tmp, faults>>

SetNil_Skipped(i) ==
  /\ GoTo(i, "setNil", "create")
  /\ UNCHANGED <<stream, database, tmp, handle, faults>>

SetNil(i) ==
  /\ GoTo(i, "setNil", "create")
  /\ handle' = "nil"
  /\ UNCHANGED <<stream, database, tmp, faults>>

Writing == {"copy", "rename"}

\* os.Create empties the file that another call is writing to.
CreateTmp(i) ==
  /\ GoTo(i, "create", "copy")
  /\ tmp' = IF OtherIn(i, Writing) THEN Mixed ELSE 0
  /\ UNCHANGED <<stream, database, handle, faults>>

CreateTmpFail(i) ==
  /\ pc[i] = "create"
  /\ Return(i, "err")
  /\ UNCHANGED <<stream, database, tmp, handle, faults>>

Grown == IF tmp \in 0..Total THEN tmp + 1 ELSE tmp

\* Fault: the stream is copied over the database file itself.
CopyChunk_InPlace(i) ==
  /\ GoTo(i, "copy", "copy")
  /\ Take(i)
  /\ tmp' = IF OtherIn(i, Writing) /\ tmp # NoFile THEN Mixed ELSE Grown
  /\ live' = i
  /\ put' = [put EXCEPT ![i] = tmp']
  /\ UNCHANGED <<handle, faults>>

\* Through a descriptor whose path another call has renamed or removed, the
\* chunk goes to a file that is not at the path any more.
CopyChunk(i) ==
  /\ GoTo(i, "copy", "copy")
  /\ Take(i)
  /\ tmp' = IF OtherIn(i, Writing) /\ tmp # NoFile THEN Mixed ELSE Grown
  /\ UNCHANGED <<database, handle, faults>>

\* The chunk cannot be written: the file is removed, the pipe abandoned.
CopyFail(i) ==
  /\ pc[i] = "copy"
  /\ Take(i)
  /\ tmp' = NoFile
  /\ Return(i, "err")
  /\ UNCHANGED <<database, handle, faults>>

CopyEOF_OnOutcome(i) ==
  /\ GoTo(i, "copy", "rename")
  /\ errCh[i] # "empty"
  /\ UNCHANGED <<stream, database, tmp, handle, faults>>

CopyEOF(i) ==
  /\ GoTo(i, "copy", "rename")
  /\ prod[i] = "exited"
  /\ UNCHANGED <<stream, database, tmp, handle, faults>>

\* A delayed write fails and only file.Close reports it, to nobody.
CloseLosesChunk(i) ==
  /\ GoTo(i, "copy", "rename")
  /\ prod[i] = "exited"
  /\ tmp \in 1..Total
  /\ tmp' = tmp - 1
  /\ Note("close", TRUE)
  /\ UNCHANGED <<stream, database, handle>>

Rename(i) ==
  /\ tmp # NoFile
  /\ GoTo(i, "rename", "reopen")
  /\ put' = [put EXCEPT ![i] = tmp]
  /\ live' = i
  /\ tmp' = NoFile
  /\ UNCHANGED <<stream, handle, faults>>

RenameFail(i) ==
  /\ pc[i] = "rename"
  /\ tmp' = NoFile
  /\ Return(i, "err")
  /\ UNCHANGED <<stream, database, handle, faults>>

Reopen(i) ==
  /\ GoTo(i, "reopen", "wait")
  /\ handle' = "open"
  /\ UNCHANGED <<stream, database, tmp, faults>>

ReopenFail(i) ==
  /\ pc[i] = "reopen"
  /\ Return(i, "err")
  /\ UNCHANGED <<stream, database, tmp, handle, faults>>

-----------------------------------------------------------------------------
(* mysql and pg_restore with the pipe as their standard input.             *)

Applying == {"apply", "load"}

\* Another tool is at work on the database, of a call that overlaps with this
\* one or of one whose process has died.
OtherTool(i) == OtherIn(i, Applying \cup {"orphan"})

\* One more chunk of what call i restores is in the database.
Applied(i) ==
  /\ live' = i
  /\ put' = [put EXCEPT ![i] = IF @ = NoFile THEN 1 ELSE @ + 1]
  /\ Note("tool", OtherTool(i))

ApplyChunk(i) ==
  /\ GoTo(i, "apply", "apply")
  /\ Take(i)
  /\ Applied(i)
  /\ UNCHANGED <<tmp, handle>>

\* The input has ended, and the tool accepts what it got, also nothing.
Accept(i) ==
  /\ live' = i
  /\ put' = [put EXCEPT ![i] = IF @ = NoFile THEN 0 ELSE @]
  /\ Note("tool", OtherTool(i))

ApplyEOF(i) ==
  /\ GoTo(i, "apply", "wait")
  /\ prod[i] = "exited"
  /\ Accept(i)
  /\ UNCHANGED <<stream, tmp, handle>>

\* The tool may exit with an error at any time, and it may have taken a chunk
\* that it did not apply.
ApplyFail(i) ==
  /\ pc[i] = "apply"
  /\ Take(i) \/ UNCHANGED stream
  /\ Return(i, "err")
  /\ UNCHANGED <<database, tmp, handle, faults>>

-----------------------------------------------------------------------------
(* MongoDBConnector.Restore: io.Copy to a file of its own, Sync, Seek, then *)
(* mongorestore --drop on that file, which is removed when Restore returns. *)
(* At the steps "sync" and "load" the file holds sent[i] chunks.            *)

BufferChunk(i) ==
  /\ GoTo(i, "buffer", "buffer")
  /\ Take(i)
  /\ UNCHANGED <<database, tmp, handle, faults>>

BufferEOF_OnOutcome(i) ==
  /\ GoTo(i, "buffer", "sync")
  /\ errCh[i] # "empty"
  /\ UNCHANGED <<stream, database, tmp, handle, faults>>

BufferEOF(i) ==
  /\ GoTo(i, "buffer", "sync")
  /\ prod[i] = "exited"
  /\ UNCHANGED <<stream, database, tmp, handle, faults>>

Sync(i) ==
  /\ GoTo(i, "sync", "load")
  /\ UNCHANGED <<stream, database, tmp, handle, faults>>

\* The file cannot be created (then nothing was taken), written or synced.
BufferFail(i) ==
  /\ \/ pc[i] = "buffer" /\ Take(i)
     \/ pc[i] = "buffer" /\ sent[i] <= 1 /\ UNCHANGED stream
     \/ pc[i] = "sync" /\ UNCHANGED stream
  /\ Return(i, "err")
  /\ UNCHANGED <<database, tmp, handle, faults>>

Loaded(i) == IF put[i] = NoFile THEN 0 ELSE put[i]

\* Fault: mongorestore is not waited for, and outlives a failed Restore.
LoadChunk_Unwaited(i) ==
  /\ pc[i] \in {"load", "done"}
  /\ kind = "mongo"
  /\ Loaded(i) < sent[i]
  /\ Applied(i)
  /\ UNCHANGED <<kind, stored, n, caller, stream, tmp, handle>>

LoadChunk(i) ==
  /\ GoTo(i, "load", "load")
  /\ Loaded(i) < sent[i]
  /\ Applied(i)
  /\ UNCHANGED <<stream, tmp, handle>>

LoadDone(i) ==
  /\ GoTo(i, "load", "wait")
  /\ Loaded(i) = sent[i]
  /\ Accept(i)
  /\ UNCHANGED <<stream, tmp, handle>>

LoadFail(i) ==
  /\ pc[i] = "load"
  /\ Return(i, "err")
  /\ UNCHANGED <<stream, database, tmp, handle, faults>>

-----------------------------------------------------------------------------
(* The caller, once Connector.Restore has returned nil.                    *)

WaitErr_ValueIgnored(i) ==
  /\ GoTo(i, "wait", "listTables")
  /\ errCh[i] # "empty"
  /\ errCh' = [errCh EXCEPT ![i] = "empty"]
  /\ UNCHANGED <<prod, sent, database, tmp, handle, faults>>

WaitErr(i) ==
  /\ pc[i] = "wait"
  /\ errCh[i] # "empty"
  /\ errCh' = [errCh EXCEPT ![i] = "empty"]
  /\ \/ errCh[i] = "nil" /\ GoTo(i, "wait", "listTables")
     \/ errCh[i] = "err" /\ Return(i, "err")
  /\ UNCHANGED <<prod, sent, database, tmp, handle, faults>>

\* SQLite's ListTables looks at db here and uses it in the next step.
ListTables(i) ==
  /\ kind = "sqlite" => handle # "nil"
  /\ GoTo(i, "listTables", "query")
  /\ UNCHANGED <<stream, database, tmp, handle, faults>>

Query(i) ==
  /\ pc[i] = "query"
  /\ kind = "sqlite" => handle = "open"
  /\ Return(i, "ok")
  /\ UNCHANGED <<stream, database, tmp, handle, faults>>

ListTablesFail(i) ==
  /\ pc[i] \in {"listTables", "query"}
  /\ ~(pc[i] = "query" /\ kind = "sqlite" /\ handle = "nil")
  /\ Return(i, "err")
  /\ UNCHANGED <<stream, database, tmp, handle, faults>>

\* ValidateBackup asks for the metadata that GetBackup makes up, with Success
\* set, for every file that is there, however short.
ValidateBackup == stored \in 0..Total

-----------------------------------------------------------------------------
(* The goroutine of call i: Storage.Retrieve, its outcome to errCh, then   *)
(* the deferred pw.Close().                                                *)

ReadChunk_PastEnd(i) ==
  /\ prod[i] = "read"
  /\ sent[i] <= stored
  /\ sent' = [sent EXCEPT ![i] = @ + 1]
  /\ prod' = [prod EXCEPT ![i] = "write"]
  /\ UNCHANGED <<kind, stored, n, caller, errCh, database, tmp, handle, faults>>

ReadChunk(i) ==
  /\ prod[i] = "read"
  /\ sent[i] < stored
  /\ sent' = [sent EXCEPT ![i] = @ + 1]
  /\ prod' = [prod EXCEPT ![i] = "write"]
  /\ UNCHANGED <<kind, stored, n, caller, errCh, database, tmp, handle, faults>>

RetrieveDone(i) ==
  /\ prod[i] = "read"
  /\ sent[i] = stored
  /\ errCh' = [errCh EXCEPT ![i] = "nil"]
  /\ prod' = [prod EXCEPT ![i] = "close"]
  /\ UNCHANGED <<kind, stored, n, caller, sent, database, tmp, handle, faults>>

RetrieveFail_Silent(i) ==
  /\ prod[i] = "read"
  /\ prod' = [prod EXCEPT ![i] = "close"]
  /\ UNCHANGED <<kind, stored, n, caller, sent, errCh, database, tmp, handle,
                 faults>>

RetrieveFail_Retried(i) ==
  /\ prod[i] = "read"
  /\ sent' = [sent EXCEPT ![i] = 0]
  /\ UNCHANGED <<kind, stored, n, caller, prod, errCh, database, tmp, handle,
                 faults>>

RetrieveFail(i) ==
  /\ prod[i] = "read"
  /\ errCh' = [errCh EXCEPT ![i] = "err"]
  /\ prod' = [prod EXCEPT ![i] = "close"]
  /\ UNCHANGED <<kind, stored, n, caller, sent, database, tmp, handle, faults>>

ClosePipe_Unbuffered(i) ==
  /\ prod[i] = "close"
  /\ errCh[i] = "empty"
  /\ prod' = [prod EXCEPT ![i] = "exited"]
  /\ UNCHANGED <<kind, stored, n, caller, sent, errCh, database, tmp, handle,
                 faults>>

ClosePipe(i) ==
  /\ prod[i] = "close"
  /\ prod' = [prod EXCEPT ![i] = "exited"]
  /\ UNCHANGED <<kind, stored, n, caller, sent, errCh, database, tmp, handle,
                 faults>>

-----------------------------------------------------------------------------
(* The process.                                                            *)

\* The process ends, and its memory with it, but not the tool it has started:
\* mysql and pg_restore see the end of their input, mongorestore has a file.
Die ==
  /\ pc' = [i \in Calls |->
              IF pc[i] \in Applying THEN "orphan"
              ELSE IF pc[i] \in {"none", "orphan"} THEN pc[i] ELSE "dead"]
  /\ prod' = [i \in Calls |->
                IF prod[i] = "none" THEN "none" ELSE "killed"]
  /\ handle' = "nil"
  /\ recorded' = {}
  /\ errCh' = [i \in Calls |-> "empty"]
  /\ UNCHANGED <<kind, stored, n, result, sent, database, tmp>>

Crash == Die /\ UNCHANGED faults

\* A nil db is used although it was checked: (*DB)(nil).Close, .QueryContext.
Panic(i) ==
  /\ kind = "sqlite"
  /\ pc[i] \in {"close", "query"}
  /\ handle = "nil"
  /\ Die
  /\ Note("panic", TRUE)

\* Connect, by the same process after a failure or by a new one.  The owner
\* of the connector does not connect it while a Restore is running.
Connect ==
  /\ \A i \in Calls : ~Running(i)
  /\ handle # "open"
  /\ handle' = "open"
  /\ UNCHANGED <<kind, stored, n, caller, stream, database, tmp, faults>>

\* The tool of a dead process goes on with what it holds.
OrphanApplies(i) ==
  /\ pc[i] = "orphan"
  /\ Loaded(i) < sent[i]
  /\ Applied(i)
  /\ UNCHANGED <<kind, stored, n, caller, stream, tmp, handle>>

\* It ends, with all of that accepted or with an error, or is killed.
OrphanEnds(i) ==
  /\ pc[i] = "orphan"
  /\ pc' = [pc EXCEPT ![i] = "dead"]
  /\ Accept(i) \/ UNCHANGED <<database, faults>>
  /\ UNCHANGED <<kind, stored, n, result, recorded, stream, tmp, handle>>

Orphan(i) == OrphanApplies(i) \/ OrphanEnds(i)

-----------------------------------------------------------------------------
Caller(i) ==
  \/ Record(i) \/ NoHandle(i) \/ CheckHandle(i) \/ CloseHandle(i)
  \/ CloseHandleFail(i) \/ SetNil(i) \/ CreateTmp(i) \/ CreateTmpFail(i)
  \/ CopyChunk(i) \/ CopyFail(i) \/ CopyEOF(i) \/ Rename(i) \/ RenameFail(i)
  \/ Reopen(i) \/ ReopenFail(i) \/ ApplyChunk(i) \/ ApplyEOF(i)
  \/ BufferChunk(i) \/ BufferEOF(i) \/ Sync(i) \/ LoadChunk(i) \/ LoadDone(i)
  \/ WaitErr(i) \/ ListTables(i) \/ Query(i) \/ ListTablesFail(i) \/ Panic(i)

Failure(i) ==
  ApplyFail(i) \/ BufferFail(i) \/ LoadFail(i) \/ CloseLosesChunk(i)

Goroutine(i) == ReadChunk(i) \/ RetrieveDone(i) \/ ClosePipe(i)

Next ==
  \/ \E i \in Calls :
       \/ Restore(i) \/ Caller(i) \/ Failure(i) \/ Goroutine(i)
       \/ RetrieveFail(i) \/ Orphan(i)
  \/ Crash \/ Connect

Spec == Init /\ [][Next]_vars

\* Goroutines that can run do run, and a call to the storage, the file system
\* or the tool that has what it waits for returns.  No fairness makes a call
\* fail on its own, begins a Restore or repairs the connection.
FairSpec ==
  Spec /\ \A i \in Calls : WF_vars(Caller(i)) /\ WF_vars(Goroutine(i))

-----------------------------------------------------------------------------
(* Properties.                                                             *)

TypeOK ==
  /\ kind \in {"sqlite", "tool", "mongo"}
  /\ stored \in 0..Total
  /\ n \in 0..MaxCalls
  /\ pc \in [Calls -> {"none", "record", "check", "close", "setNil", "create",
                       "copy", "rename", "reopen", "apply", "buffer", "sync",
                       "load", "wait", "listTables", "query", "done", "dead",
                       "orphan"}]
  /\ result \in [Calls -> {"none", "ok", "err"}]
  /\ recorded \subseteq Calls
  /\ prod \in [Calls -> {"none", "read", "write", "close", "exited", "killed"}]
  /\ sent \in [Calls -> 0..stored]
  /\ errCh \in [Calls -> {"empty", "nil", "err"}]
  /\ put \in [Calls -> 0..Mixed]
  /\ live \in 0..MaxCalls
  /\ tmp \in 0..Mixed
  /\ handle \in {"open", "closed", "nil"}
  /\ faults \subseteq {"overlap", "map", "handle", "tool", "close", "panic"}

\* A Restore reported as a success has put the whole stored backup in place
\* (selective.go 79-109), also when another Restore ran at the same time:
\* only a race for the nil check of SQLite's db, two tools at work on one
\* database (of calls that overlap, or one left by a process that died), or a
\* write error told to Close alone can break it.  If no two calls overlap, none
\* but a later one can have replaced it since.
SuccessIsWhole ==
  faults \cap {"handle", "tool", "close"} = {}
    => \A i \in Calls : result[i] = "ok" =>
         /\ put[i] = stored
         /\ "overlap" \notin faults => live >= i

\* Whatever fails or crashes, the SQLite database file is the original one or
\* everything one stream delivered before it was closed, never a half-written
\* copy (sqlite.go 99-120); and mongorestore does not begin before the stream
\* has ended (mongodb.go 96-120).  It may be short: the stream of a Retrieve
\* that fails is closed like a complete one.
LiveIsOldOrDelivered ==
  live # 0 /\ kind # "tool" /\ faults \cap {"handle", "close"} = {} =>
    /\ prod[live] \in {"exited", "killed"}
    /\ kind = "sqlite" => put[live] = sent[live]

\* The nil check of db is the only thing that keeps two calls from replacing
\* the database file together, and it does unless both pass it before either
\* has set db to nil (sqlite.go 89-97).
NilCheckExcludes ==
  "handle" \notin faults =>
    \A i, j \in Calls :
      {pc[i], pc[j]} \subseteq {"close", "setNil", "create", "copy", "rename",
                                "reopen"}
        => i = j

\* Calls that follow one another never use a nil db, whatever failed before
\* (sqlite.go 89-94, 141-153); calls that overlap may.
PanicNeedsOverlap == "panic" \in faults => "overlap" \in faults

\* A Restore that is under way in this process, or has returned in it, whatever
\* it returned, is in the map that ListRestores and GetRestore read, unless two
\* calls raced for the map (selective.go 61-62, 139-153).
BegunIsListed ==
  "map" \notin faults =>
    \A i \in Calls :
      pc[i] \notin {"none", "record", "dead", "orphan"} => i \in recorded

\* A goroutine that outlives its Restore, blocked in pw.Write for ever, is the
\* mark of a call that failed before the end of its stream and, but for the
\* tools, left the database alone (selective.go 69-86).
BlockedWriterMeansFailed ==
  \A i \in Calls :
    prod[i] \in {"read", "write", "close"} /\ pc[i] = "done"
      => result[i] = "err" /\ (kind = "tool" \/ live # i)

\* What a call and its goroutine wait for: the call for a chunk or the end of
\* its stream, and then for the outcome; the goroutine for a reader.
CallerMayStep(i) ==
  /\ Running(i)
  /\ pc[i] \in {"copy", "apply", "buffer"} => prod[i] = "write" \/ prod[i] = "exited"
  /\ pc[i] = "wait" => errCh[i] # "empty"

GoroutineMayStep(i) == prod[i] = "read" \/ prod[i] = "close"

\* However calls overlap, none waits for a goroutine that waits for it, nor for
\* another call (selective.go 67-94).
NoMutualWait ==
  \A i \in Calls : Running(i) => CallerMayStep(i) \/ GoroutineMayStep(i)

\* One that does not wait makes its step: a call has nothing else to wait for
\* (selective.go 67-94).
WhoMayStepDoes ==
  \A i \in Calls :
    /\ []<>~CallerMayStep(i) \/ []<><<Caller(i)>>_vars
    /\ []<>~GoroutineMayStep(i) \/ []<><<Goroutine(i)>>_vars

\* The steps that a call and its goroutine have left, at most.
CallerLeft == [none |-> 14, record |-> 13, check |-> 12, close |-> 11,
               setNil |-> 10, create |-> 9, copy |-> 8, rename |-> 7,
               reopen |-> 6, buffer |-> 8, sync |-> 7, load |-> 6, apply |-> 6,
               wait |-> 4, listTables |-> 3, query |-> 2, done |-> 1,
               orphan |-> 1, dead |-> 0]
WriterLeft == [none |-> 5, write |-> 4, read |-> 3, close |-> 2, exited |-> 1,
               killed |-> 0]
ToLoad(i)  == IF kind = "sqlite" THEN 0 ELSE stored - Loaded(i)
StepsLeft(i) ==
  CallerLeft[pc[i]] + WriterLeft[prod[i]] + 2 * (stored - sent[i]) + ToLoad(i)

CallState(i) == <<pc[i], result[i], prod[i], sent[i], errCh[i], put[i]>>

\* No call, nor a tool that outlives it, repeats or takes back a step of its
\* own, and none sends another call back, whatever they do to each other's
\* files and handle (selective.go 67-94, sqlite.go 88-123).
EveryStepCounts ==
  [][\A i \in Calls : StepsLeft(i)' < StepsLeft(i) \/ UNCHANGED CallState(i)]_vars

\* A backup that ValidateBackup calls valid gives back the whole database
\* when its restore succeeds (selective.go 109-136).
ValidRestoresWhole ==
  ValidateBackup /\ faults = {} =>
    \A i \in Calls : result[i] = "ok" => put[i] = Total

\* Restores advance: no call waits for one that waits for it, and no step is in
\* vain.
Advances == []NoMutualWait /\ EveryStepCounts

\* Every Restore whose two sides go on when they may returns, unless the process
\* dies (selective.go 67-94).
RestoreReturns ==
  /\ WhoMayStepDoes
  /\ \A i \in Calls : pc[i] = "record" ~> ~Running(i)

\* What a call shows of itself: whether its stream has ended, what of it is in
\* place, and its answer; and whether a race or a dropped error has happened
\* for which it promises nothing.
StreamOver == {i \in Calls : prod[i] \in {"close", "exited", "killed"}}
InPlace    == [i \in Calls |-> Loaded(i)]
Answers    == [i \in Calls |->
                 IF result[i] # "none" THEN result[i]
                 ELSE IF pc[i] = "dead" THEN "lost"
                 ELSE IF pc[i] = "orphan" THEN "adrift" ELSE "none"]
Void       == faults \cap {"handle", "tool", "close"} # {}

\* The calls keep the promise of module Restoration about the database they
\* share (selective.go 66-115, sqlite.go 88-123, mongodb.go 96-125).
R == INSTANCE Restoration WITH
       how    <- kind,
       given  <- sent,
       over   <- StreamOver,
       source <- live,
       held   <- InPlace,
       answer <- Answers,
       void   <- Void

ImplementsRestoration == R!Spec

=============================================================================
