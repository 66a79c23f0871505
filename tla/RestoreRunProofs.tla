-------------------------- MODULE RestoreRunProofs --------------------------
(***************************************************************************)
(* Proofs about module RestoreRun, for every length of the backup and any  *)
(* number of calls, overlapping or not.  IInv adds to the properties where *)
(* the goroutine stands at each step of its caller, how many chunks have   *)
(* arrived there, and what the connector's db is while a call is between   *)
(* its nil check and Connect.                                              *)
(***************************************************************************)
EXTENDS RestoreRun, Integers, TLAPS

Section == {"close", "setNil", "create", "copy", "rename", "reopen"}
Ended   == {"rename", "reopen", "sync", "load", "wait", "listTables", "query"}
Fresh   == {"none", "record", "check", "close", "setNil", "create", "copy",
            "rename", "buffer", "sync"}

\* Chunks of call i that have been taken from its pipe.
Taken(i) == IF prod[i] = "write" THEN sent[i] - 1 ELSE sent[i]

\* Each connector has steps of its own; a call that has not begun left no trace.
StepOf(i) ==
  /\ i > n => pc[i] = "none"
  /\ pc[i] \in {"none", "record"} => prod[i] = "none" /\ sent[i] = 0
  /\ pc[i] = "done" => result[i] # "none"
  /\ result[i] # "none" => pc[i] \in {"done", "dead"}
  /\ pc[i] \in {"check"} \cup Section => kind = "sqlite"
  /\ pc[i] = "apply" => kind = "tool"
  /\ pc[i] = "orphan" => kind # "sqlite"
  /\ pc[i] \in {"buffer", "sync", "load"} => kind = "mongo"

StepInv == \A i \in Calls : StepOf(i)

\* The goroutine's outcome follows its last chunk, and a caller that has seen
\* the end of the stream has no goroutine left.
OutcomeInv ==
  \A i \in Calls :
    /\ prod[i] = "write" => sent[i] > 0
    /\ errCh[i] = "nil" => sent[i] = stored
    /\ prod[i] \in {"none", "read", "write", "killed"} => errCh[i] = "empty"
    /\ pc[i] \in Ended => prod[i] = "exited"
    /\ pc[i] = "orphan" /\ kind # "tool" => prod[i] = "killed"
    /\ pc[i] \in {"listTables", "query"} => sent[i] = stored
    /\ result[i] = "ok" => prod[i] \in {"exited", "killed"} /\ sent[i] = stored
    /\ live = i /\ kind # "tool" => prod[i] \in {"exited", "killed"}

\* What mysql, pg_restore and mongorestore have applied.
PutInv ==
  \A i \in Calls :
    /\ pc[i] \in Fresh => put[i] = NoFile
    /\ pc[i] = "apply" => Loaded(i) = Taken(i)
    /\ kind # "sqlite" => Loaded(i) <= sent[i]
    /\ kind # "sqlite" /\ (pc[i] \in {"wait", "listTables", "query"}
                           \/ result[i] = "ok") => put[i] = sent[i]

\* What the temporary file and the SQLite database hold.
CopyInv ==
  /\ \A i \in Calls :
       pc[i] \in {"check", "close", "setNil", "create"} => Taken(i) = 0
  /\ faults \cap {"handle", "close"} = {} =>
       \A i \in Calls :
         /\ pc[i] = "copy" => tmp = Taken(i)
         /\ pc[i] = "rename" => tmp = sent[i]
         /\ kind = "sqlite" /\ (pc[i] \in {"reopen", "wait", "listTables", "query"}
                                \/ result[i] = "ok" \/ live = i)
              => put[i] = sent[i]

\* Between SetNil and Reopen nobody else passes the nil check.
HandleInv ==
  /\ NilCheckExcludes
  /\ "handle" \notin faults =>
       \A i \in Calls :
         pc[i] \in {"create", "copy", "rename", "reopen"} => handle = "nil"

\* A call that runs alone finds db as it left it.
AloneInv ==
  /\ PanicNeedsOverlap
  /\ "overlap" \notin faults =>
       /\ \A i, j \in Calls : Running(i) /\ Running(j) => i = j
       /\ \A i \in Calls :
            /\ pc[i] = "close" => handle # "nil"
            /\ kind = "sqlite" /\ pc[i] \in {"wait", "listTables", "query"}
                 => handle = "open"

IInv ==
  /\ TypeOK
  /\ StepInv
  /\ OutcomeInv
  /\ PutInv
  /\ CopyInv
  /\ HandleInv
  /\ AloneInv
  /\ BegunIsListed

USE RestoreAssumption DEF RestoreAssumption, Calls, NoFile, Mixed

-----------------------------------------------------------------------------
\* The types.
LEMMA TypeStep ==
  ASSUME TypeOK, OutcomeInv, PutInv, NEW i \in Calls,
         Restore(i) \/ Caller(i) \/ Failure(i) \/ Goroutine(i) \/ RetrieveFail(i)
  PROVE  TypeOK'
<1> USE DEF TypeOK, Loaded, GoTo, Return, OtherIn, OtherTool, Note, Take, caller, stream,
    database
<1>1. CASE Restore(i)
  BY <1>1, SMTT(30) DEF Restore
<1>2. CASE Record(i)
  <2>1. Entry[kind] \in {"check", "apply", "buffer"}
    BY DEF Entry
  <2>2. pc'[i] = Entry[kind] /\ \A j \in Calls \ {i} : pc'[j] = pc[j]
    BY <1>2 DEF Record
  <2> QED
    BY <1>2, <2>1, <2>2 DEF Record
<1>3. CASE NoHandle(i)
  BY <1>3 DEF NoHandle
<1>4. CASE CheckHandle(i)
  BY <1>4 DEF CheckHandle
<1>5. CASE CloseHandle(i)
  BY <1>5 DEF CloseHandle
<1>6. CASE CloseHandleFail(i)
  BY <1>6 DEF CloseHandleFail
<1>7. CASE SetNil(i)
  BY <1>7 DEF SetNil
<1>8. CASE CreateTmp(i)
  BY <1>8, SMTT(30) DEF CreateTmp, Writing
<1>9. CASE CreateTmpFail(i)
  BY <1>9 DEF CreateTmpFail
<1>10. CASE CopyChunk(i)
  BY <1>10, SMTT(30) DEF CopyChunk, Grown, Writing
<1>11. CASE CopyFail(i)
  BY <1>11 DEF CopyFail
<1>12. CASE CopyEOF(i)
  BY <1>12 DEF CopyEOF
<1>13. CASE CloseLosesChunk(i)
  BY <1>13, SMTT(30) DEF CloseLosesChunk
<1>14. CASE Rename(i)
  BY <1>14 DEF Rename
<1>15. CASE RenameFail(i)
  BY <1>15, SMTT(30) DEF RenameFail
<1>16. CASE Reopen(i)
  BY <1>16 DEF Reopen
<1>17. CASE ReopenFail(i)
  BY <1>17, SMTT(30) DEF ReopenFail
<1>18. CASE ApplyChunk(i)
  <2>1. pc' = pc
    BY <1>18 DEF ApplyChunk
  <2>2. put'[i] \in 0..Mixed
    <3>1. prod[i] = "write" /\ pc[i] = "apply"
          /\ put' = [put EXCEPT ![i] = Loaded(i) + 1]
      BY <1>18 DEF ApplyChunk, Applied
    <3>2. Loaded(i) = sent[i] - 1
      BY <3>1 DEF PutInv, OutcomeInv, Taken
    <3> HIDE DEF Loaded
    <3> QED
      BY <3>1, <3>2
  <2>3. put' \in [Calls -> 0..Mixed]
    BY <1>18, <2>2 DEF ApplyChunk, Applied
  <2>4. UNCHANGED <<kind, stored, n, pc, result, recorded, sent, errCh, tmp, handle>>
        /\ live' = i /\ prod' = [prod EXCEPT ![i] = "read"]
        /\ (faults' = faults \/ faults' = faults \cup {"tool"})
    BY <1>18, <2>1 DEF ApplyChunk, Applied
  <2>5. prod' \in [Calls -> {"none", "read", "write", "close", "exited", "killed"}]
    BY <2>4
  <2>6. faults' \subseteq {"overlap", "map", "handle", "tool", "close", "panic"}
    BY <2>4
  <2> QED
    BY <2>3, <2>4, <2>5, <2>6
<1>19. CASE ApplyEOF(i)
  BY <1>19 DEF ApplyEOF, Accept, Applying
<1>20. CASE ApplyFail(i)
  BY <1>20, SMTT(30) DEF ApplyFail
<1>21. CASE BufferChunk(i)
  BY <1>21 DEF BufferChunk
<1>22. CASE BufferEOF(i)
  BY <1>22 DEF BufferEOF
<1>23. CASE Sync(i)
  BY <1>23 DEF Sync
<1>24. CASE BufferFail(i)
  BY <1>24, SMTT(30) DEF BufferFail
<1>25. CASE LoadChunk(i)
  BY <1>25, SMTT(90) DEF LoadChunk, Applied, Applying
<1>26. CASE LoadDone(i)
  BY <1>26, SMTT(30) DEF LoadDone, Accept, Applying
<1>27. CASE LoadFail(i)
  BY <1>27 DEF LoadFail
<1>28. CASE WaitErr(i)
  BY <1>28 DEF WaitErr
<1>29. CASE ListTables(i)
  BY <1>29 DEF ListTables
<1>30. CASE Query(i)
  BY <1>30 DEF Query
<1>31. CASE ListTablesFail(i)
  BY <1>31 DEF ListTablesFail
<1>32. CASE Panic(i)
  BY <1>32 DEF Panic, Die, Applying
<1>33. CASE ReadChunk(i)
  BY <1>33 DEF ReadChunk
<1>34. CASE RetrieveDone(i)
  BY <1>34 DEF RetrieveDone
<1>35. CASE RetrieveFail(i)
  BY <1>35 DEF RetrieveFail
<1>36. CASE ClosePipe(i)
  BY <1>36 DEF ClosePipe
<1> QED
  BY <1>1, <1>2, <1>3, <1>4, <1>5, <1>6, <1>7, <1>8, <1>9, <1>10, <1>11, <1>12,
      <1>13, <1>14, <1>15, <1>16, <1>17, <1>18, <1>19, <1>20, <1>21, <1>22,
      <1>23, <1>24, <1>25, <1>26, <1>27, <1>28, <1>29, <1>30, <1>31, <1>32,
      <1>33, <1>34, <1>35, <1>36 DEF Caller, Failure, Goroutine

-----------------------------------------------------------------------------
\* A step forward of one call leaves the others where they are.
Moved(i, from, to) ==
  /\ GoTo(i, from, to)
  /\ UNCHANGED <<sent, errCh>>
  /\ prod' = prod \/ Take(i)
  /\ live' = live \/ (live' = i /\ (kind = "tool" \/ prod[i] = "exited"))
  /\ to \in Ended => from \in Ended \/ prod[i] = "exited"

LEMMA MovedPlace ==
  ASSUME TypeOK, StepInv, OutcomeInv, NEW i \in Calls,
         NEW from \in Section \cup {"check", "apply", "buffer", "sync", "load",
                                    "wait", "listTables"},
         NEW to, Moved(i, from, to),
         \/ to \in Section /\ from \in Section \cup {"check"}
         \/ to \in {"buffer", "sync", "load"} /\ from \in {"buffer", "sync", "load"}
         \/ to = "apply" /\ from = "apply"
         \/ to = "wait" /\ from # "listTables"
         \/ to = "query" /\ from = "listTables"
  PROVE  StepInv' /\ OutcomeInv'
<1>1. /\ UNCHANGED <<kind, stored, n, result, sent, errCh>>
      /\ pc[i] = from /\ pc'[i] = to
      /\ \A j \in Calls \ {i} : pc'[j] = pc[j]
  BY DEF Moved, GoTo, TypeOK
<1>2. /\ \A j \in Calls \ {i} : prod'[j] = prod[j]
      /\ prod'[i] = prod[i] \/ (prod[i] = "write" /\ prod'[i] = "read")
  BY DEF Moved, Take, TypeOK
<1>3. /\ live' = live \/ (live' = i /\ (kind = "tool" \/ prod[i] = "exited"))
      /\ to \in Ended => from \in Ended \/ prod[i] = "exited"
  BY DEF Moved
<1>4. StepInv'
  <2>1. ASSUME NEW j \in Calls, j # i PROVE StepOf(j)'
    BY <1>1, <1>2, <2>1 DEF StepInv, StepOf
  <2>2. StepOf(i)'
    BY <1>1 DEF StepInv, StepOf, Section
  <2> QED
    BY <2>1, <2>2 DEF StepInv
<1>5. OutcomeInv'
  <2>1. result[i] = "none"
    BY <1>1 DEF StepInv, StepOf, Section
  <2> QED
    BY <1>1, <1>2, <1>3, <2>1 DEF OutcomeInv, Ended, Section
<1> QED
  BY <1>4, <1>5

LEMMA ForwardPlace ==
  ASSUME TypeOK, StepInv, OutcomeInv, NEW i \in Calls,
         \/ CheckHandle(i) \/ CloseHandle(i) \/ SetNil(i) \/ CreateTmp(i)
         \/ CopyChunk(i) \/ CopyEOF(i) \/ CloseLosesChunk(i) \/ Rename(i)
         \/ Reopen(i) \/ ApplyChunk(i) \/ ApplyEOF(i) \/ BufferChunk(i)
         \/ BufferEOF(i) \/ Sync(i) \/ LoadChunk(i) \/ LoadDone(i)
         \/ ListTables(i)
  PROVE  StepInv' /\ OutcomeInv'
<1>0. /\ pc[i] \in Ended => prod[i] = "exited"
      /\ pc[i] = "apply" => kind = "tool"
  BY DEF StepInv, StepOf, OutcomeInv
<1> USE DEF stream, database, Ended, Section
<1>1. CASE CheckHandle(i)
  <2>1. Moved(i, "check", "close")
    BY <1>0, <1>1 DEF CheckHandle, Moved, GoTo, Take
  <2> QED
    BY <2>1, MovedPlace
<1>2. CASE CloseHandle(i)
  <2>1. Moved(i, "close", "setNil")
    BY <1>0, <1>2 DEF CloseHandle, Moved, GoTo, Take
  <2> QED
    BY <2>1, MovedPlace
<1>3. CASE SetNil(i)
  <2>1. Moved(i, "setNil", "create")
    BY <1>0, <1>3 DEF SetNil, Moved, GoTo, Take
  <2> QED
    BY <2>1, MovedPlace
<1>4. CASE CreateTmp(i)
  <2>1. Moved(i, "create", "copy")
    BY <1>0, <1>4 DEF CreateTmp, Moved, GoTo, Take
  <2> QED
    BY <2>1, MovedPlace
<1>5. CASE CopyChunk(i)
  <2>1. Moved(i, "copy", "copy")
    BY <1>0, <1>5 DEF CopyChunk, Moved, GoTo, Take
  <2> QED
    BY <2>1, MovedPlace
<1>6. CASE CopyEOF(i)
  <2>1. Moved(i, "copy", "rename")
    BY <1>0, <1>6 DEF CopyEOF, Moved, GoTo, Take
  <2> QED
    BY <2>1, MovedPlace
<1>7. CASE CloseLosesChunk(i)
  <2>1. Moved(i, "copy", "rename")
    BY <1>0, <1>7 DEF CloseLosesChunk, Moved, GoTo, Take
  <2> QED
    BY <2>1, MovedPlace
<1>8. CASE Rename(i)
  <2>1. Moved(i, "rename", "reopen")
    BY <1>0, <1>8 DEF Rename, Moved, GoTo, Take
  <2> QED
    BY <2>1, MovedPlace
<1>9. CASE Reopen(i)
  <2>1. Moved(i, "reopen", "wait")
    BY <1>0, <1>9 DEF Reopen, Moved, GoTo, Take
  <2> QED
    BY <2>1, MovedPlace
<1>10. CASE ApplyChunk(i)
  <2>1. Moved(i, "apply", "apply")
    BY <1>0, <1>10 DEF ApplyChunk, Moved, GoTo, Take, Applied
  <2> QED
    BY <2>1, MovedPlace
<1>11. CASE ApplyEOF(i)
  <2>1. Moved(i, "apply", "wait")
    BY <1>0, <1>11 DEF ApplyEOF, Moved, GoTo, Take, Accept
  <2> QED
    BY <2>1, MovedPlace
<1>12. CASE BufferChunk(i)
  <2>1. Moved(i, "buffer", "buffer")
    BY <1>0, <1>12 DEF BufferChunk, Moved, GoTo, Take
  <2> QED
    BY <2>1, MovedPlace
<1>13. CASE BufferEOF(i)
  <2>1. Moved(i, "buffer", "sync")
    BY <1>0, <1>13 DEF BufferEOF, Moved, GoTo, Take
  <2> QED
    BY <2>1, MovedPlace
<1>14. CASE Sync(i)
  <2>1. Moved(i, "sync", "load")
    BY <1>0, <1>14 DEF Sync, Moved, GoTo, Take
  <2> QED
    BY <2>1, MovedPlace
<1>15. CASE LoadChunk(i)
  <2>1. Moved(i, "load", "load")
    BY <1>0, <1>15 DEF LoadChunk, Moved, GoTo, Take, Applied
  <2> QED
    BY <2>1, MovedPlace
<1>16. CASE LoadDone(i)
  <2>1. Moved(i, "load", "wait")
    BY <1>0, <1>16 DEF LoadDone, Moved, GoTo, Take, Accept
  <2> QED
    BY <2>1, MovedPlace
<1>17. CASE ListTables(i)
  <2>1. Moved(i, "listTables", "query")
    BY <1>0, <1>17 DEF ListTables, Moved, GoTo, Take
  <2> QED
    BY <2>1, MovedPlace
<1> QED
  BY <1>1, <1>2, <1>3, <1>4, <1>5, <1>6, <1>7, <1>8, <1>9, <1>10, <1>11,
     <1>12, <1>13, <1>14, <1>15, <1>16, <1>17

\* A call that fails leaves the others where they are.
LEMMA FailPlace ==
  ASSUME TypeOK, StepInv, OutcomeInv, NEW i \in Calls,
         pc[i] \notin {"none", "record", "done", "dead", "orphan"},
         Return(i, "err"), UNCHANGED <<sent, live>>, prod' = prod \/ Take(i),
         errCh' = errCh \/ errCh' = [errCh EXCEPT ![i] = "empty"]
  PROVE  StepInv' /\ OutcomeInv'
<1>1. /\ UNCHANGED <<kind, stored, n, sent, live>>
      /\ pc'[i] = "done" /\ result'[i] = "err"
      /\ \A j \in Calls \ {i} : pc'[j] = pc[j] /\ result'[j] = result[j]
  BY DEF Return, TypeOK
<1>2. /\ \A j \in Calls \ {i} : prod'[j] = prod[j] /\ errCh'[j] = errCh[j]
      /\ prod'[i] = prod[i] \/ (prod[i] = "write" /\ prod'[i] = "read")
      /\ errCh'[i] \in {errCh[i], "empty"}
  BY DEF Take, TypeOK
<1>3. StepInv'
  <2>1. ASSUME NEW j \in Calls, j # i PROVE StepOf(j)'
    BY <1>1, <1>2, <2>1 DEF StepInv, StepOf
  <2>2. StepOf(i)'
    BY <1>1 DEF StepInv, StepOf, Section
  <2> QED
    BY <2>1, <2>2 DEF StepInv
<1>4. OutcomeInv'
  BY <1>1, <1>2 DEF OutcomeInv, Ended
<1> QED
  BY <1>3, <1>4

\* The caller and its goroutine.
LEMMA PlaceStep ==
  ASSUME TypeOK, StepInv, OutcomeInv, NEW i \in Calls,
         Restore(i) \/ Caller(i) \/ Failure(i) \/ Goroutine(i) \/ RetrieveFail(i)
  PROVE  StepInv' /\ OutcomeInv'
<1>1. CASE \/ CheckHandle(i) \/ CloseHandle(i) \/ SetNil(i) \/ CreateTmp(i)
           \/ CopyChunk(i) \/ CopyEOF(i) \/ CloseLosesChunk(i) \/ Rename(i)
           \/ Reopen(i) \/ ApplyChunk(i) \/ ApplyEOF(i) \/ BufferChunk(i)
           \/ BufferEOF(i) \/ Sync(i) \/ LoadChunk(i) \/ LoadDone(i)
           \/ ListTables(i)
  BY <1>1, ForwardPlace
<1>2. CASE \/ NoHandle(i) \/ CloseHandleFail(i) \/ CreateTmpFail(i)
           \/ CopyFail(i) \/ RenameFail(i) \/ ReopenFail(i)
           \/ ListTablesFail(i) \/ ApplyFail(i) \/ BufferFail(i) \/ LoadFail(i)
  <2>1. /\ pc[i] \notin {"none", "record", "done", "dead", "orphan"}
        /\ Return(i, "err") /\ UNCHANGED <<sent, live, errCh>>
        /\ prod' = prod \/ Take(i)
    BY <1>2 DEF NoHandle, CloseHandleFail, CreateTmpFail, CopyFail, RenameFail,
       ReopenFail, ListTablesFail, ApplyFail, BufferFail, LoadFail, stream,
       database, Take
  <2> QED
    BY <2>1, FailPlace
<1>3. CASE WaitErr(i) /\ Return(i, "err")
  <2>1. /\ pc[i] = "wait" /\ UNCHANGED <<sent, live, prod>>
        /\ errCh' = [errCh EXCEPT ![i] = "empty"]
    BY <1>3 DEF WaitErr, database
  <2> QED
    BY <1>3, <2>1, FailPlace
<1> USE DEF TypeOK, StepInv, OutcomeInv, Section, Ended, Running, StepOf, GoTo,
    Return, OtherIn, OtherTool, Note, Take, caller, stream, database
<1>4. CASE WaitErr(i) /\ errCh[i] = "nil" /\ GoTo(i, "wait", "listTables")
  <2>1. /\ pc[i] = "wait" /\ pc' = [pc EXCEPT ![i] = "listTables"]
        /\ errCh' = [errCh EXCEPT ![i] = "empty"]
        /\ UNCHANGED <<kind, stored, n, result, prod, sent, live>>
    BY <1>4 DEF WaitErr
  <2>2. sent[i] = stored /\ prod[i] = "exited" /\ result[i] = "none"
    BY <1>4, <2>1
  <2>3. StepInv'
    <3>1. ASSUME NEW j \in Calls, j # i PROVE StepOf(j)'
      BY <2>1, <3>1
    <3>2. StepOf(i)'
      BY <2>1
    <3> HIDE DEF StepOf, TypeOK, OutcomeInv
    <3> QED
      BY <3>1, <3>2
  <2>4. OutcomeInv'
    BY <2>1, <2>2
  <2> QED
    BY <2>3, <2>4
<1>5. CASE Restore(i)
  BY <1>5 DEF Restore
<1>6. CASE Record(i)
  <2>1. pc'[i] = Entry[kind] /\ \A j \in Calls \ {i} : pc'[j] = pc[j]
    BY <1>6 DEF Record
  <2>2. pc'[i] = [sqlite |-> "check", tool |-> "apply", mongo |-> "buffer"][kind]
    BY <2>1 DEF Entry
  <2>3. StepInv'
    BY <1>6, <2>1, <2>2, SMTT(30) DEF Record
  <2>4. OutcomeInv'
    BY <1>6, <2>1, <2>2 DEF Record
  <2> QED
    BY <2>3, <2>4
<1>7. CASE Query(i)
  BY <1>7 DEF Query
<1>8. CASE Panic(i)
  <2>1. StepInv'
    BY <1>8 DEF Panic, Die, Applying
  <2>2. OutcomeInv'
    BY <1>8 DEF Panic, Die, Applying
  <2> QED
    BY <2>1, <2>2
<1>9. CASE ReadChunk(i)
  BY <1>9 DEF ReadChunk
<1>10. CASE RetrieveDone(i)
  BY <1>10, SMTT(30) DEF RetrieveDone
<1>11. CASE RetrieveFail(i)
  BY <1>11 DEF RetrieveFail
<1>12. CASE ClosePipe(i)
  BY <1>12 DEF ClosePipe
<1> QED
  BY <1>1, <1>2, <1>3, <1>4, <1>5, <1>6, <1>7, <1>8, <1>9, <1>10, <1>11, <1>12
     DEF Caller, Failure, Goroutine, WaitErr

-----------------------------------------------------------------------------
\* The chunks.
LEMMA ChunkStep ==
  ASSUME TypeOK, StepInv, OutcomeInv, PutInv, CopyInv, HandleInv, NEW i \in Calls,
         Restore(i) \/ Caller(i) \/ Failure(i) \/ Goroutine(i) \/ RetrieveFail(i)
  PROVE  PutInv' /\ CopyInv'
<1> USE DEF TypeOK, StepInv, OutcomeInv, PutInv, CopyInv, HandleInv, Section,
    Ended, Fresh, Taken, Loaded, NilCheckExcludes, Running, StepOf, GoTo,
    Return, OtherIn, OtherTool, Note, Take, caller, stream, database
<1>1. CASE Restore(i)
  BY <1>1 DEF Restore
<1>2. CASE Record(i)
  BY <1>2, SMTT(30) DEF Record, Entry
<1>3. CASE NoHandle(i)
  BY <1>3 DEF NoHandle
<1>4. CASE CheckHandle(i)
  BY <1>4, SMTT(30) DEF CheckHandle
<1>5. CASE CloseHandle(i)
  BY <1>5 DEF CloseHandle
<1>6. CASE CloseHandleFail(i)
  BY <1>6 DEF CloseHandleFail
<1>7. CASE SetNil(i)
  BY <1>7 DEF SetNil
<1>8. CASE CreateTmp(i)
  BY <1>8 DEF CreateTmp, Writing
<1>9. CASE CreateTmpFail(i)
  BY <1>9 DEF CreateTmpFail
<1>10. CASE CopyChunk(i)
  <2>1. pc' = pc /\ PutInv'
    BY <1>10 DEF CopyChunk
  <2>2. pc[i] = "copy" /\ prod[i] = "write" /\ prod' = [prod EXCEPT ![i] = "read"]
        /\ UNCHANGED <<kind, sent, put, live, result, faults>>
    BY <1>10 DEF CopyChunk
  <2>3. CASE faults \cap {"handle", "close"} = {}
    <3>1. \A j \in Calls \ {i} : pc[j] \notin Section
      BY <2>2, <2>3
    <3>2. tmp = sent[i] - 1 /\ tmp \in 0..Total
      BY <2>2, <2>3
    <3>3. tmp' = sent[i]
      BY <1>10, <3>1, <3>2 DEF CopyChunk, Grown, Writing
    <3> QED
      BY <2>1, <2>2, <2>3, <3>1, <3>3, SMTT(30)
  <2>4. CASE faults \cap {"handle", "close"} # {}
    BY <2>1, <2>2, <2>4, SMTT(30)
  <2> QED
    BY <2>3, <2>4
<1>11. CASE CopyFail(i)
  BY <1>11, SMTT(30) DEF CopyFail
<1>12. CASE CopyEOF(i)
  BY <1>12 DEF CopyEOF
<1>13. CASE CloseLosesChunk(i)
  BY <1>13, SMTT(30) DEF CloseLosesChunk
<1>14. CASE Rename(i)
  BY <1>14 DEF Rename
<1>15. CASE RenameFail(i)
  BY <1>15, SMTT(30) DEF RenameFail
<1>16. CASE Reopen(i)
  BY <1>16 DEF Reopen
<1>17. CASE ReopenFail(i)
  BY <1>17 DEF ReopenFail
<1>18. CASE ApplyChunk(i)
  <2>1. PutInv'
    BY <1>18, SMTT(30) DEF ApplyChunk, Applied, Applying
  <2>2. CopyInv'
    BY <1>18, SMTT(30) DEF ApplyChunk, Applied, Applying
  <2> QED
    BY <2>1, <2>2
<1>19. CASE ApplyEOF(i)
  BY <1>19 DEF ApplyEOF, Accept, Applying
<1>20. CASE ApplyFail(i)
  <2>1. CASE Take(i)
    BY <1>20, <2>1 DEF ApplyFail
  <2>2. CASE UNCHANGED stream
    BY <1>20, <2>2 DEF ApplyFail
  <2> QED
    BY <1>20, <2>1, <2>2 DEF ApplyFail, GoTo, Return
<1>21. CASE BufferChunk(i)
  BY <1>21 DEF BufferChunk
<1>22. CASE BufferEOF(i)
  BY <1>22 DEF BufferEOF
<1>23. CASE Sync(i)
  BY <1>23 DEF Sync
<1>24. CASE BufferFail(i)
  BY <1>24, SMTT(30) DEF BufferFail
<1>25. CASE LoadChunk(i)
  BY <1>25, SMTT(30) DEF LoadChunk, Applied, Applying
<1>26. CASE LoadDone(i)
  BY <1>26 DEF LoadDone, Accept, Applying
<1>27. CASE LoadFail(i)
  BY <1>27 DEF LoadFail
<1>28. CASE WaitErr(i)
  <2>1. CASE errCh[i] = "nil" /\ GoTo(i, "wait", "listTables")
    BY <1>28, <2>1 DEF WaitErr
  <2>2. CASE errCh[i] = "err" /\ Return(i, "err")
    BY <1>28, <2>2 DEF WaitErr
  <2> QED
    BY <1>28, <2>1, <2>2 DEF WaitErr
<1>29. CASE ListTables(i)
  BY <1>29 DEF ListTables
<1>30. CASE Query(i)
  BY <1>30 DEF Query
<1>31. CASE ListTablesFail(i)
  BY <1>31 DEF ListTablesFail
<1>32. CASE Panic(i)
  <2>1. PutInv'
    BY <1>32 DEF Panic, Die, Applying
  <2>2. CopyInv'
    BY <1>32 DEF Panic, Die, Applying
  <2> QED
    BY <2>1, <2>2
<1>33. CASE ReadChunk(i)
  <2>1. prod[i] = "read" /\ sent' = [sent EXCEPT ![i] = @ + 1]
        /\ prod' = [prod EXCEPT ![i] = "write"]
        /\ UNCHANGED <<kind, pc, put, live, result, tmp, faults>>
    BY <1>33 DEF ReadChunk
  <2>2. \A j \in Calls : Taken(j)' = Taken(j)
    BY <2>1, SMTT(30)
  <2>3. \A j \in Calls \ {i} : sent'[j] = sent[j]
    BY <2>1
  <2>4. pc[i] \notin Ended /\ result[i] # "ok" /\ (kind # "tool" => live # i)
    BY <2>1
  <2> HIDE DEF Taken
  <2>5. PutInv'
    BY <2>1, <2>2, <2>3, <2>4, SMTT(30)
  <2>6. CopyInv'
    BY <2>1, <2>2, <2>3, <2>4, SMTT(30)
  <2> QED
    BY <2>5, <2>6
<1>34. CASE RetrieveDone(i)
  BY <1>34, SMTT(30) DEF RetrieveDone
<1>35. CASE RetrieveFail(i)
  BY <1>35, SMTT(30) DEF RetrieveFail
<1>36. CASE ClosePipe(i)
  BY <1>36, SMTT(30) DEF ClosePipe
<1> QED
  BY <1>1, <1>2, <1>3, <1>4, <1>5, <1>6, <1>7, <1>8, <1>9, <1>10, <1>11, <1>12,
      <1>13, <1>14, <1>15, <1>16, <1>17, <1>18, <1>19, <1>20, <1>21, <1>22,
      <1>23, <1>24, <1>25, <1>26, <1>27, <1>28, <1>29, <1>30, <1>31, <1>32,
      <1>33, <1>34, <1>35, <1>36 DEF Caller, Failure, Goroutine

-----------------------------------------------------------------------------
\* The nil check and the map.
LEMMA LockStep ==
  ASSUME TypeOK, StepInv, HandleInv, BegunIsListed, NEW i \in Calls,
         Restore(i) \/ Caller(i) \/ Failure(i) \/ Goroutine(i) \/ RetrieveFail(i)
  PROVE  HandleInv' /\ BegunIsListed'
<1> USE DEF TypeOK, StepInv, HandleInv, BegunIsListed, Section,
    NilCheckExcludes, Running, StepOf, GoTo, Return, OtherIn, Note, Take,
    caller, stream, database
<1>1. CASE Restore(i)
  BY <1>1 DEF Restore
<1>2. CASE Record(i)
  BY <1>2, SMTT(90) DEF Record, Entry
<1>3. CASE NoHandle(i)
  BY <1>3, SMTT(30) DEF NoHandle
<1>4. CASE CheckHandle(i)
  BY <1>4 DEF CheckHandle
<1>5. CASE CloseHandle(i)
  BY <1>5 DEF CloseHandle
<1>6. CASE CloseHandleFail(i)
  BY <1>6 DEF CloseHandleFail
<1>7. CASE SetNil(i)
  BY <1>7, SMTT(30) DEF SetNil
<1>8. CASE CreateTmp(i)
  BY <1>8 DEF CreateTmp, Writing
<1>9. CASE CreateTmpFail(i)
  BY <1>9 DEF CreateTmpFail
<1>10. CASE CopyChunk(i)
  BY <1>10 DEF CopyChunk, Grown, Writing
<1>11. CASE CopyFail(i)
  BY <1>11 DEF CopyFail
<1>12. CASE CopyEOF(i)
  BY <1>12 DEF CopyEOF
<1>13. CASE CloseLosesChunk(i)
  BY <1>13 DEF CloseLosesChunk
<1>14. CASE Rename(i)
  BY <1>14 DEF Rename
<1>15. CASE RenameFail(i)
  BY <1>15 DEF RenameFail
<1>16. CASE Reopen(i)
  BY <1>16 DEF Reopen
<1>17. CASE ReopenFail(i)
  BY <1>17 DEF ReopenFail
<1>18. CASE ApplyChunk(i)
  BY <1>18, SMTT(30) DEF ApplyChunk, Applied, Applying
<1>19. CASE ApplyEOF(i)
  BY <1>19, SMTT(30) DEF ApplyEOF, Accept, Applying
<1>20. CASE ApplyFail(i)
  BY <1>20 DEF ApplyFail
<1>21. CASE BufferChunk(i)
  BY <1>21 DEF BufferChunk
<1>22. CASE BufferEOF(i)
  BY <1>22 DEF BufferEOF
<1>23. CASE Sync(i)
  BY <1>23 DEF Sync
<1>24. CASE BufferFail(i)
  BY <1>24, SMTT(90) DEF BufferFail
<1>25. CASE LoadChunk(i)
  BY <1>25, SMTT(30) DEF LoadChunk, Applied, Applying
<1>26. CASE LoadDone(i)
  BY <1>26, SMTT(30) DEF LoadDone, Accept, Applying
<1>27. CASE LoadFail(i)
  BY <1>27 DEF LoadFail
<1>28. CASE WaitErr(i)
  <2>1. CASE errCh[i] = "nil" /\ GoTo(i, "wait", "listTables")
    BY <1>28, <2>1, SMTT(30) DEF WaitErr
  <2>2. CASE errCh[i] = "err" /\ Return(i, "err")
    BY <1>28, <2>2 DEF WaitErr
  <2> QED
    BY <1>28, <2>1, <2>2 DEF WaitErr
<1>29. CASE ListTables(i)
  <2>1. HandleInv'
    BY <1>29, SMTT(30) DEF ListTables
  <2>2. BegunIsListed'
    BY <1>29 DEF ListTables
  <2> QED
    BY <2>1, <2>2
<1>30. CASE Query(i)
  BY <1>30 DEF Query
<1>31. CASE ListTablesFail(i)
  BY <1>31, SMTT(90) DEF ListTablesFail
<1>32. CASE Panic(i)
  BY <1>32 DEF Panic, Die, Applying
<1>33. CASE ReadChunk(i)
  BY <1>33, SMTT(30) DEF ReadChunk
<1>34. CASE RetrieveDone(i)
  BY <1>34 DEF RetrieveDone
<1>35. CASE RetrieveFail(i)
  BY <1>35 DEF RetrieveFail
<1>36. CASE ClosePipe(i)
  BY <1>36 DEF ClosePipe
<1> QED
  BY <1>1, <1>2, <1>3, <1>4, <1>5, <1>6, <1>7, <1>8, <1>9, <1>10, <1>11, <1>12,
      <1>13, <1>14, <1>15, <1>16, <1>17, <1>18, <1>19, <1>20, <1>21, <1>22,
      <1>23, <1>24, <1>25, <1>26, <1>27, <1>28, <1>29, <1>30, <1>31, <1>32,
      <1>33, <1>34, <1>35, <1>36 DEF Caller, Failure, Goroutine

-----------------------------------------------------------------------------
\* A call that runs alone.
LEMMA AloneStep ==
  ASSUME TypeOK, StepInv, AloneInv, NEW i \in Calls,
         Restore(i) \/ Caller(i) \/ Failure(i) \/ Goroutine(i) \/ RetrieveFail(i)
  PROVE  AloneInv'
<1> USE DEF TypeOK, StepInv, AloneInv, Section, PanicNeedsOverlap, Running,
    StepOf, GoTo, Return, OtherIn, OtherTool, Note, Take, caller, stream, database
<1>1. CASE Restore(i)
  BY <1>1, SMTT(30) DEF Restore
<1>2. CASE Record(i)
  BY <1>2 DEF Record, Entry
<1>3. CASE NoHandle(i)
  BY <1>3 DEF NoHandle
<1>4. CASE CheckHandle(i)
  <2>1. pc[i] = "check" /\ pc' = [pc EXCEPT ![i] = "close"]
        /\ UNCHANGED kind /\ handle # "nil" /\ UNCHANGED handle
    BY <1>4 DEF CheckHandle
  <2>2. "overlap" \in faults' <=> "overlap" \in faults
    BY <1>4 DEF CheckHandle
  <2>3. PanicNeedsOverlap'
    BY <1>4, <2>2 DEF CheckHandle
  <2>4. ASSUME "overlap" \notin faults
        PROVE  \A j \in Calls \ {i} : ~Running(j) /\ pc'[j] = pc[j]
    BY <2>1, <2>4
  <2> QED
    BY <2>1, <2>2, <2>3, <2>4
<1>5. CASE CloseHandle(i)
  <2>1. pc[i] = "close" /\ pc' = [pc EXCEPT ![i] = "setNil"]
        /\ UNCHANGED kind /\ handle' = "closed"
    BY <1>5 DEF CloseHandle
  <2>2. "overlap" \in faults' <=> "overlap" \in faults
    BY <1>5 DEF CloseHandle
  <2>3. PanicNeedsOverlap'
    BY <1>5, <2>2 DEF CloseHandle
  <2>4. ASSUME "overlap" \notin faults
        PROVE  \A j \in Calls \ {i} : ~Running(j) /\ pc'[j] = pc[j]
    BY <2>1, <2>4
  <2> QED
    BY <2>1, <2>2, <2>3, <2>4, ZenonT(60)
<1>6. CASE CloseHandleFail(i)
  BY <1>6, ZenonT(60) DEF CloseHandleFail
<1>7. CASE SetNil(i)
  <2>1. pc[i] = "setNil" /\ pc' = [pc EXCEPT ![i] = "create"]
        /\ UNCHANGED kind /\ handle' = "nil"
    BY <1>7 DEF SetNil
  <2>2. "overlap" \in faults' <=> "overlap" \in faults
    BY <1>7 DEF SetNil
  <2>3. PanicNeedsOverlap'
    BY <1>7, <2>2 DEF SetNil
  <2>4. ASSUME "overlap" \notin faults
        PROVE  \A j \in Calls \ {i} : ~Running(j) /\ pc'[j] = pc[j]
    BY <2>1, <2>4
  <2> QED
    BY <2>1, <2>2, <2>3, <2>4, ZenonT(60)
<1>8. CASE CreateTmp(i)
  BY <1>8, SMTT(30) DEF CreateTmp, Writing
<1>9. CASE CreateTmpFail(i)
  BY <1>9, SMTT(30) DEF CreateTmpFail
<1>10. CASE CopyChunk(i)
  <2>1. pc' = pc /\ UNCHANGED <<kind, handle, faults>>
    BY <1>10 DEF CopyChunk
  <2> QED
    BY <2>1
<1>11. CASE CopyFail(i)
  BY <1>11, SMTT(30) DEF CopyFail
<1>12. CASE CopyEOF(i)
  BY <1>12, SMTT(30) DEF CopyEOF
<1>13. CASE CloseLosesChunk(i)
  BY <1>13, SMTT(30) DEF CloseLosesChunk
<1>14. CASE Rename(i)
  BY <1>14, SMTT(30) DEF Rename
<1>15. CASE RenameFail(i)
  BY <1>15 DEF RenameFail
<1>16. CASE Reopen(i)
  BY <1>16, SMTT(30) DEF Reopen
<1>17. CASE ReopenFail(i)
  BY <1>17 DEF ReopenFail
<1>18. CASE ApplyChunk(i)
  BY <1>18, SMTT(30) DEF ApplyChunk, Applied, Applying
<1>19. CASE ApplyEOF(i)
  <2>1. /\ pc[i] = "apply" /\ pc' = [pc EXCEPT ![i] = "wait"]
        /\ UNCHANGED <<kind, recorded, handle>>
        /\ faults' = faults \/ faults' = faults \cup {"tool"}
    BY <1>19 DEF ApplyEOF, Accept
  <2> QED
    BY <2>1, SMTT(30)
<1>20. CASE ApplyFail(i)
  BY <1>20 DEF ApplyFail
<1>21. CASE BufferChunk(i)
  BY <1>21, SMTT(30) DEF BufferChunk
<1>22. CASE BufferEOF(i)
  BY <1>22, SMTT(30) DEF BufferEOF
<1>23. CASE Sync(i)
  BY <1>23, SMTT(30) DEF Sync
<1>24. CASE BufferFail(i)
  BY <1>24 DEF BufferFail
<1>25. CASE LoadChunk(i)
  BY <1>25, SMTT(30) DEF LoadChunk, Applied, Applying
<1>26. CASE LoadDone(i)
  <2>1. pc[i] = "load" /\ pc' = [pc EXCEPT ![i] = "wait"]
        /\ kind # "sqlite" /\ UNCHANGED <<kind, handle>>
    BY <1>26 DEF LoadDone
  <2>2. /\ "overlap" \in faults' <=> "overlap" \in faults
        /\ "panic" \in faults' <=> "panic" \in faults
    BY <1>26 DEF LoadDone, Accept
  <2>3. ASSUME "overlap" \notin faults
        PROVE  \A j \in Calls \ {i} : ~Running(j) /\ pc'[j] = pc[j]
    BY <2>1, <2>3
  <2> QED
    BY <2>1, <2>2, <2>3
<1>27. CASE LoadFail(i)
  BY <1>27, SMTT(30) DEF LoadFail
<1>28. CASE WaitErr(i)
  <2>1. CASE errCh[i] = "nil" /\ GoTo(i, "wait", "listTables")
    BY <1>28, <2>1, SMTT(30) DEF WaitErr
  <2>2. CASE errCh[i] = "err" /\ Return(i, "err")
    BY <1>28, <2>2, SMTT(30) DEF WaitErr
  <2> QED
    BY <1>28, <2>1, <2>2 DEF WaitErr
<1>29. CASE ListTables(i)
  <2>1. pc[i] = "listTables" /\ pc' = [pc EXCEPT ![i] = "query"]
        /\ UNCHANGED <<kind, handle, faults>>
    BY <1>29 DEF ListTables
  <2>2. PanicNeedsOverlap'
    BY <2>1
  <2>3. ASSUME "overlap" \notin faults
        PROVE  \A j \in Calls \ {i} : ~Running(j) /\ pc'[j] = pc[j]
    BY <2>1, <2>3
  <2> QED
    BY <2>1, <2>2, <2>3
<1>30. CASE Query(i)
  BY <1>30, SMTT(30) DEF Query
<1>31. CASE ListTablesFail(i)
  BY <1>31, SMTT(30) DEF ListTablesFail
<1>32. CASE Panic(i)
  BY <1>32 DEF Panic, Die, Applying
<1>33. CASE ReadChunk(i)
  BY <1>33 DEF ReadChunk
<1>34. CASE RetrieveDone(i)
  BY <1>34 DEF RetrieveDone
<1>35. CASE RetrieveFail(i)
  BY <1>35 DEF RetrieveFail
<1>36. CASE ClosePipe(i)
  BY <1>36 DEF ClosePipe
<1> QED
  BY <1>1, <1>2, <1>3, <1>4, <1>5, <1>6, <1>7, <1>8, <1>9, <1>10, <1>11, <1>12,
      <1>13, <1>14, <1>15, <1>16, <1>17, <1>18, <1>19, <1>20, <1>21, <1>22,
      <1>23, <1>24, <1>25, <1>26, <1>27, <1>28, <1>29, <1>30, <1>31, <1>32,
      <1>33, <1>34, <1>35, <1>36 DEF Caller, Failure, Goroutine

-----------------------------------------------------------------------------
LEMMA InitIInv == Init => IInv
BY DEF Init, IInv, TypeOK, StepInv, StepOf, OutcomeInv, PutInv, CopyInv,
       HandleInv, AloneInv, BegunIsListed, NilCheckExcludes, PanicNeedsOverlap, Taken,
       Loaded, Running, Ended, Section, Fresh

\* A tool that has outlived its process touches the database and nothing else.
OrphanShape(i) ==
  /\ pc[i] = "orphan" /\ pc'[i] \in {"orphan", "dead"}
  /\ pc' \in {pc, [pc EXCEPT ![i] = "dead"]}
  /\ UNCHANGED <<kind, stored, n, result, recorded, prod, sent, errCh, tmp, handle>>
  /\ live' \in {live, i}
  /\ faults' \in {faults, faults \cup {"tool"}}
  /\ \A j \in Calls \ {i} : pc'[j] = pc[j] /\ put'[j] = put[j]
  /\ \/ pc'[i] = "orphan" /\ Loaded(i) < sent[i] /\ Loaded(i)' = Loaded(i) + 1
     \/ pc'[i] = "dead" /\ Loaded(i)' = Loaded(i)
  /\ put' \in [Calls -> 0..Mixed]

LEMMA OrphanChanges ==
  ASSUME IInv, NEW i \in Calls, Orphan(i)
  PROVE  OrphanShape(i)
<1> USE DEF IInv, TypeOK
<1>1. /\ pc[i] = "orphan"
      /\ UNCHANGED <<kind, stored, n, result, recorded, prod, sent, errCh, tmp,
                     handle>>
      /\ live' \in {live, i}
  BY DEF Orphan, OrphanApplies, OrphanEnds, Applied, Accept, caller, stream,
         database
<1>2. faults' \in {faults, faults \cup {"tool"}}
  BY DEF Orphan, OrphanApplies, OrphanEnds, Applied, Accept, Note
<1>3. CASE OrphanApplies(i)
  <2>1. /\ pc' = pc /\ Loaded(i) < sent[i]
        /\ put' = [put EXCEPT ![i] = Loaded(i) + 1]
    BY <1>3 DEF OrphanApplies, Applied, Loaded, caller
  <2>2. Loaded(i) \in Nat /\ sent[i] \in 0..Total
    BY DEF Loaded
  <2>3. /\ put' \in [Calls -> 0..Mixed] /\ put'[i] = Loaded(i) + 1
        /\ \A j \in Calls \ {i} : put'[j] = put[j]
    <3>1. Loaded(i) + 1 \in 0..Mixed
      BY <2>1, <2>2
    <3>2. put' = [put EXCEPT ![i] = Loaded(i) + 1] /\ put \in [Calls -> 0..Mixed]
      BY <2>1
    <3> HIDE DEF Loaded, TypeOK, IInv
    <3> QED
      BY <3>1, <3>2
  <2>4. Loaded(i)' = Loaded(i) + 1
    <3>1. put'[i] # NoFile
      BY <2>1, <2>2, <2>3
    <3> QED
      BY <2>3, <3>1 DEF Loaded
  <2> HIDE DEF Loaded, TypeOK
  <2> QED
    BY <1>1, <1>2, <2>1, <2>3, <2>4 DEF OrphanShape
<1>4. CASE OrphanEnds(i)
  <2>1. pc' = [pc EXCEPT ![i] = "dead"] /\ pc'[i] = "dead"
        /\ \A j \in Calls \ {i} : pc'[j] = pc[j]
    BY <1>4 DEF OrphanEnds
  <2>2. put' = [put EXCEPT ![i] = IF @ = NoFile THEN 0 ELSE @] \/ put' = put
    BY <1>4 DEF OrphanEnds, Accept, database
  <2>3. /\ put' \in [Calls -> 0..Mixed]
        /\ \A j \in Calls \ {i} : put'[j] = put[j]
        /\ put'[i] = IF put[i] = NoFile THEN put'[i] ELSE put[i]
        /\ put[i] = NoFile => put'[i] \in {0, NoFile}
    <3>1. put \in [Calls -> 0..Mixed] /\ 0 \in 0..Mixed
      OBVIOUS
    <3>2. CASE put' = put
      BY <3>1, <3>2
    <3>3. CASE put' = [put EXCEPT ![i] = IF @ = NoFile THEN 0 ELSE @]
      <4> HIDE DEF TypeOK, IInv
      <4> QED
        BY <3>1, <3>3
    <3> QED
      BY <2>2, <3>2, <3>3
  <2>4. Loaded(i)' = Loaded(i)
    BY <2>3 DEF Loaded
  <2> HIDE DEF Loaded, TypeOK
  <2> QED
    BY <1>1, <1>2, <2>1, <2>3, <2>4 DEF OrphanShape
<1> QED
  BY <1>3, <1>4 DEF Orphan

LEMMA OrphanStep ==
  ASSUME IInv, NEW i \in Calls, Orphan(i)
  PROVE  IInv'
<1>1. OrphanShape(i)
  BY OrphanChanges
<1>2. \A j \in Calls \ {i} :
        /\ UNCHANGED <<pc[j], result[j], prod[j], sent[j], errCh[j], put[j]>>
        /\ Loaded(j)' = Loaded(j) /\ Taken(j)' = Taken(j)
  BY <1>1 DEF OrphanShape, Loaded, Taken
<1>3. /\ UNCHANGED <<kind, stored, n, result, recorded, prod, sent, errCh, tmp,
                     handle>>
      /\ pc[i] = "orphan" /\ pc'[i] \in {"orphan", "dead"}
  BY <1>1 DEF OrphanShape
<1>4. /\ kind # "sqlite" /\ result[i] = "none"
      /\ kind # "tool" => prod[i] = "killed"
  BY <1>3 DEF IInv, StepInv, StepOf, OutcomeInv
<1>5. TypeOK'
  <2>0. TypeOK /\ i \in 1..MaxCalls
    BY DEF IInv, Calls
  <2>1. /\ pc' = pc \/ pc' = [pc EXCEPT ![i] = "dead"]
        /\ live' = live \/ live' = i
        /\ faults' = faults \/ faults' = faults \cup {"tool"}
        /\ put' \in [Calls -> 0..Mixed]
    BY <1>1 DEF OrphanShape
  <2>2. pc' \in [Calls -> {"none", "record", "check", "close", "setNil", "create",
                       "copy", "rename", "reopen", "apply", "buffer", "sync",
                       "load", "wait", "listTables", "query", "done", "dead",
                       "orphan"}]
    BY <2>0, <2>1, SMTT(30) DEF TypeOK
  <2>3. live' \in 0..MaxCalls
    BY <2>0, <2>1 DEF TypeOK
  <2>4. faults' \subseteq {"overlap", "map", "handle", "tool", "close", "panic"}
    BY <2>0, <2>1 DEF TypeOK
  <2> QED
    BY <1>3, <2>0, <2>1, <2>2, <2>3, <2>4 DEF TypeOK
<1>6. StepInv'
  <2>1. ASSUME NEW j \in Calls, j # i PROVE StepOf(j)'
    BY <1>2, <1>3, <2>1 DEF IInv, StepInv, StepOf
  <2>2. StepOf(i)'
    BY <1>3, <1>4 DEF IInv, StepInv, StepOf, Section
  <2> QED
    BY <2>1, <2>2 DEF StepInv
<1>7. OutcomeInv'
  <2>1. UNCHANGED live \/ live' = i
    BY <1>1 DEF OrphanShape
  <2> QED
    BY <1>2, <1>3, <1>4, <2>1 DEF IInv, OutcomeInv, Ended
<1>8. PutInv'
  <2>1. Loaded(i)' <= sent[i]
    <3>1. Loaded(i) \in Nat /\ sent[i] \in Nat
      BY DEF IInv, TypeOK, Loaded
    <3>2. Loaded(i) <= sent[i]
      BY <1>4 DEF IInv, PutInv
    <3> QED
      BY <1>1, <3>1, <3>2 DEF OrphanShape
  <2> QED
    BY <1>2, <1>3, <1>4, <2>1 DEF IInv, PutInv, Fresh
<1>9. "handle" \in faults' <=> "handle" \in faults
  BY <1>1 DEF OrphanShape
<1>10. \A f \in {"overlap", "map", "close", "panic"} : f \in faults' <=> f \in faults
  BY <1>1 DEF OrphanShape
<1>11. CopyInv'
  <2>1. faults' \cap {"handle", "close"} = {} <=> faults \cap {"handle", "close"} = {}
    BY <1>9, <1>10
  <2> QED
    BY <1>2, <1>3, <1>4, <2>1 DEF IInv, CopyInv
<1>12. HandleInv'
  BY <1>2, <1>3, <1>9 DEF IInv, HandleInv, NilCheckExcludes
<1>13. AloneInv'
  BY <1>2, <1>3, <1>4, <1>10 DEF IInv, AloneInv, PanicNeedsOverlap, Running
<1>14. BegunIsListed'
  BY <1>2, <1>3, <1>10 DEF IInv, BegunIsListed
<1> QED
  BY <1>5, <1>6, <1>7, <1>8, <1>11, <1>12, <1>13, <1>14 DEF IInv

LEMMA NextIInv == IInv /\ [Next]_vars => IInv'
<1> SUFFICES ASSUME IInv, [Next]_vars PROVE IInv'
  OBVIOUS
<1>1. ASSUME NEW i \in Calls,
             Restore(i) \/ Caller(i) \/ Failure(i) \/ Goroutine(i)
               \/ RetrieveFail(i)
      PROVE  IInv'
  BY <1>1, TypeStep, PlaceStep, ChunkStep, LockStep, AloneStep
     DEF IInv
<1>0. ASSUME NEW i \in Calls, Orphan(i) PROVE IInv'
  BY <1>0, OrphanStep
<1> USE DEF IInv, TypeOK, StepInv, StepOf, OutcomeInv, PutInv, CopyInv,
            HandleInv, AloneInv, BegunIsListed, NilCheckExcludes, PanicNeedsOverlap, Taken,
            Loaded, Running, Ended, Section, Fresh, Applying, caller, stream, database
<1>2. CASE Crash
  <2>1. /\ \A i \in Calls :
             /\ pc'[i] \in {"none", "orphan", "dead"}
             /\ pc'[i] = "none" <=> pc[i] = "none"
             /\ pc'[i] = "orphan" <=> pc[i] \in {"orphan", "apply", "load"}
             /\ prod'[i] = IF prod[i] = "none" THEN "none" ELSE "killed"
             /\ errCh'[i] = "empty"
        /\ UNCHANGED <<kind, stored, n, result, sent, put, live, tmp, faults>>
        /\ handle' = "nil" /\ recorded' = {}
    BY <1>2 DEF Crash, Die
  <2>2. TypeOK'
    BY <1>2, SMTT(30) DEF Crash, Die
  <2>3. StepInv'
    <3>1. ASSUME NEW i \in Calls PROVE StepOf(i)'
      <4>1. StepOf(i)
        OBVIOUS
      <4> HIDE DEF IInv, TypeOK, StepInv, OutcomeInv, PutInv, CopyInv, HandleInv,
                   AloneInv, BegunIsListed, NilCheckExcludes
      <4> QED
        BY <2>1, <4>1
    <3> QED
      BY <3>1
  <2>4. OutcomeInv'
    <3>1. /\ \A i \in Calls : pc'[i] \notin Ended
          /\ \A i \in Calls : prod[i] = "exited" => prod'[i] = "killed"
      BY <2>1
    <3>2. \A i \in Calls : pc'[i] = "orphan" /\ kind # "tool" => prod[i] \in {"exited", "killed"}
      BY <2>1
    <3> HIDE DEF IInv, TypeOK, StepInv, PutInv, CopyInv, HandleInv, AloneInv,
                 BegunIsListed, NilCheckExcludes
    <3> QED
      BY <2>1, <3>1, <3>2 DEF IInv
  <2>5. PutInv'
    BY <2>1, SMTT(30)
  <2>6. CopyInv'
    BY <2>1, ZenonT(60)
  <2>7. HandleInv' /\ AloneInv' /\ BegunIsListed'
    BY <2>1
  <2> QED
    BY <2>2, <2>3, <2>4, <2>5, <2>6, <2>7
<1>3. CASE Connect
  <2> USE DEF Connect
  <2>1. TypeOK' /\ StepInv' /\ OutcomeInv'
    BY <1>3
  <2>2. PutInv' /\ CopyInv'
    BY <1>3
  <2>3. HandleInv' /\ AloneInv' /\ BegunIsListed'
    BY <1>3
  <2> QED
    BY <2>1, <2>2, <2>3
<1>4. CASE UNCHANGED vars
  BY <1>4, SMTT(30) DEF vars
<1> QED
  BY <1>0, <1>1, <1>2, <1>3, <1>4 DEF Next

LEMMA Invariance == Spec => []IInv
BY InitIInv, NextIInv, PTL DEF Spec

-----------------------------------------------------------------------------
\* Every reachable state is well-typed; in particular no goroutine offers, and
\* no database receives, more chunks than the backup has.
THEOREM TypeCorrect == Spec => []TypeOK
<1>1. IInv => TypeOK
  BY DEF IInv
<1> QED
  BY <1>1, Invariance, PTL

\* An SQLite file is replaced by what a stream delivered up to its end, or not
\* at all, also when the process dies between two steps; mongorestore does not
\* start on half a stream.
THEOREM LiveOldOrDelivered == Spec => []LiveIsOldOrDelivered
<1>1. IInv => LiveIsOldOrDelivered
  BY DEF IInv, TypeOK, OutcomeInv, CopyInv, LiveIsOldOrDelivered
<1> QED
  BY <1>1, Invariance, PTL

\* Two calls replace the database file together only if both pass the nil
\* check before either has set db to nil.
THEOREM NilCheckMutex == Spec => []NilCheckExcludes
<1>1. IInv => NilCheckExcludes
  BY DEF IInv, HandleInv
<1> QED
  BY <1>1, Invariance, PTL

\* A Restore that runs alone never uses a nil db.
THEOREM NoPanicAlone == Spec => []PanicNeedsOverlap
<1>1. IInv => PanicNeedsOverlap
  BY DEF IInv, AloneInv
<1> QED
  BY <1>1, Invariance, PTL

\* Without a race for the map, every Restore that this process has begun is in
\* it, under way or returned.
THEOREM EveryRestoreListed == Spec => []BegunIsListed
<1>1. IInv => BegunIsListed
  BY DEF IInv
<1> QED
  BY <1>1, Invariance, PTL

\* A goroutine is left behind only by a call that failed and that, but for the
\* tools, did not touch the database.
THEOREM BlockedFailed == Spec => []BlockedWriterMeansFailed
<1>1. IInv => BlockedWriterMeansFailed
  BY DEF IInv, TypeOK, StepInv, StepOf, OutcomeInv, BlockedWriterMeansFailed
<1> QED
  BY <1>1, Invariance, PTL

-----------------------------------------------------------------------------
(* Why Restore returns: every step of a call lowers a number of its own,   *)
(* no other call raises it, and somebody can always go on.                 *)

LEMMA LeftTables ==
  /\ CallerLeft["none"] = 14   /\ CallerLeft["record"] = 13
  /\ CallerLeft["check"] = 12  /\ CallerLeft["close"] = 11
  /\ CallerLeft["setNil"] = 10 /\ CallerLeft["create"] = 9
  /\ CallerLeft["copy"] = 8    /\ CallerLeft["rename"] = 7
  /\ CallerLeft["reopen"] = 6  /\ CallerLeft["buffer"] = 8
  /\ CallerLeft["sync"] = 7    /\ CallerLeft["load"] = 6
  /\ CallerLeft["apply"] = 6   /\ CallerLeft["wait"] = 4
  /\ CallerLeft["listTables"] = 3 /\ CallerLeft["query"] = 2
  /\ CallerLeft["done"] = 1    /\ CallerLeft["dead"] = 0
  /\ CallerLeft["orphan"] = 1
  /\ WriterLeft["none"] = 5    /\ WriterLeft["write"] = 4
  /\ WriterLeft["read"] = 3    /\ WriterLeft["close"] = 2
  /\ WriterLeft["exited"] = 1  /\ WriterLeft["killed"] = 0
BY DEF CallerLeft, WriterLeft

Phases == {"none", "record", "check", "close", "setNil", "create", "copy",
           "rename", "reopen", "apply", "buffer", "sync", "load", "wait",
           "listTables", "query", "done", "dead", "orphan"}
Over   == {"done", "dead", "orphan"}

LEMMA LeftNat ==
  ASSUME NEW p \in Phases,
         NEW w \in {"none", "read", "write", "close", "exited", "killed"}
  PROVE  /\ CallerLeft[p] \in Nat /\ WriterLeft[w] \in Nat
         /\ p \notin Over => CallerLeft[p] > 1
         /\ p # "dead" => CallerLeft[p] > 0
BY LeftTables DEF Phases, Over

\* A call that goes on without its stream, or with the outcome of its stream.
GoesOn(i) ==
  /\ UNCHANGED <<prod, sent>>
  /\ errCh' = errCh \/ pc'[i] \in {"listTables", "done"}
  /\ CallerLeft[pc'[i]] < CallerLeft[pc[i]]
  /\ Running(i) /\ pc[i] # "record" /\ pc'[i] \notin {"none", "record"}
  /\ kind # "sqlite" => Loaded(i)' = Loaded(i)

\* A call that takes a chunk.
Takes(i) ==
  /\ Take(i)
  /\ pc' = pc \/ pc'[i] = "done"
  /\ Running(i) /\ pc[i] # "record"
  /\ kind # "sqlite" => Loaded(i)' >= Loaded(i)

\* What a step of call i changes in its own state, and nothing in another's.
Shape(i) ==
  \/ Restore(i) \/ Record(i) \/ GoesOn(i) \/ Takes(i)
  \/ LoadChunk(i) \/ ReadChunk(i) \/ RetrieveDone(i) \/ RetrieveFail(i)
  \/ ClosePipe(i)

Keeps(i) ==
  /\ UNCHANGED <<kind, stored>>
  /\ \A j \in Calls \ {i} : UNCHANGED CallState(j)

LEMMA Returns ==
  ASSUME TypeOK, NEW i \in Calls, Running(i), pc[i] # "record",
         NEW r, Return(i, r), UNCHANGED stream, UNCHANGED put
  PROVE  GoesOn(i)
<1>1. pc'[i] = "done"
  BY DEF TypeOK, Return
<1>2. CallerLeft["done"] < CallerLeft[pc[i]]
  <2>1. pc[i] \in Phases \ Over
    BY DEF TypeOK, Running, Phases, Over
  <2>2. CallerLeft[pc[i]] \in Nat /\ CallerLeft[pc[i]] > 1
    BY <2>1, LeftNat
  <2>3. CallerLeft["done"] = 1
    BY LeftTables
  <2> QED
    BY <2>2, <2>3
<1> QED
  BY <1>1, <1>2 DEF GoesOn, Loaded, stream

LEMMA Forward ==
  ASSUME TypeOK, NEW i \in Calls,
         NEW from \in Phases \ ({"none", "record"} \cup Over),
         NEW to \in Phases \ {"none", "record"},
         GoTo(i, from, to), CallerLeft[to] < CallerLeft[from], UNCHANGED stream,
         Loaded(i)' = Loaded(i) \/ kind = "sqlite"
  PROVE  GoesOn(i)
BY DEF TypeOK, GoTo, Phases, Over, GoesOn, Running, stream

LEMMA ShapeOfStep ==
  ASSUME TypeOK, StepInv, OutcomeInv, PutInv, NEW i \in Calls,
         Caller(i) \/ Failure(i), ~Panic(i)
  PROVE  Shape(i)
<1> USE DEF database
<1>1. CASE NoHandle(i) \/ CloseHandleFail(i) \/ CreateTmpFail(i)
             \/ RenameFail(i) \/ ReopenFail(i) \/ LoadFail(i)
             \/ Query(i) \/ ListTablesFail(i)
  <2>1. Running(i) /\ pc[i] # "record" /\ UNCHANGED stream /\ UNCHANGED put
    BY <1>1 DEF NoHandle, CloseHandleFail, CreateTmpFail, RenameFail, ReopenFail,
                LoadFail, Query, ListTablesFail, Running
  <2>2. PICK r : Return(i, r)
    BY <1>1 DEF NoHandle, CloseHandleFail, CreateTmpFail, RenameFail, ReopenFail,
                LoadFail, Query, ListTablesFail
  <2> QED
    BY <2>1, <2>2, Returns DEF Shape
<1>2. CASE CheckHandle(i) \/ CloseHandle(i) \/ SetNil(i) \/ CreateTmp(i)
             \/ Reopen(i) \/ BufferEOF(i) \/ Sync(i) \/ ListTables(i)
             \/ CopyEOF(i) \/ CloseLosesChunk(i) \/ Rename(i) \/ ApplyEOF(i)
  <2>1. UNCHANGED stream
    BY <1>2 DEF CheckHandle, CloseHandle, SetNil, CreateTmp, Reopen, BufferEOF,
                Sync, ListTables, CopyEOF, CloseLosesChunk, Rename, ApplyEOF
  <2>2. Loaded(i)' = Loaded(i) \/ kind = "sqlite"
    <3>1. CASE Rename(i)
      BY <3>1 DEF Rename, GoTo, StepInv, StepOf, Section
    <3>2. CASE ApplyEOF(i)
      BY <3>2 DEF ApplyEOF, Accept, Loaded, TypeOK
    <3>3. CASE ~Rename(i) /\ ~ApplyEOF(i)
      BY <1>2, <3>3 DEF CheckHandle, CloseHandle, SetNil, CreateTmp, Reopen,
         BufferEOF, Sync, ListTables, CopyEOF, CloseLosesChunk, Loaded
    <3> QED
      BY <3>1, <3>2, <3>3
  <2>3. \/ GoTo(i, "check", "close") \/ GoTo(i, "close", "setNil")
        \/ GoTo(i, "setNil", "create") \/ GoTo(i, "create", "copy")
        \/ GoTo(i, "reopen", "wait") \/ GoTo(i, "buffer", "sync")
        \/ GoTo(i, "sync", "load") \/ GoTo(i, "listTables", "query")
        \/ GoTo(i, "copy", "rename") \/ GoTo(i, "rename", "reopen")
        \/ GoTo(i, "apply", "wait")
    BY <1>2 DEF CheckHandle, CloseHandle, SetNil, CreateTmp, Reopen, BufferEOF,
                Sync, ListTables, CopyEOF, CloseLosesChunk, Rename, ApplyEOF
  <2>4. PICK from \in Phases \ ({"none", "record"} \cup Over),
             to \in Phases \ {"none", "record"} :
          GoTo(i, from, to) /\ CallerLeft[to] < CallerLeft[from]
    BY <2>3, LeftTables DEF Phases, Over
  <2> QED
    BY <2>1, <2>2, <2>4, Forward DEF Shape
<1>3. CASE LoadDone(i)
  <2>1. pc[i] = "load" /\ pc'[i] = "wait" /\ UNCHANGED stream
    BY <1>3 DEF LoadDone, GoTo, TypeOK
  <2>2. Loaded(i)' = Loaded(i)
    BY <1>3 DEF LoadDone, Accept, Loaded, TypeOK
  <2> QED
    BY <2>1, <2>2, LeftTables DEF Shape, GoesOn, Running, stream
<1>4. CASE WaitErr(i)
  <2>1. /\ pc[i] = "wait" /\ pc'[i] \in {"listTables", "done"}
        /\ UNCHANGED <<prod, sent, put>>
    BY <1>4 DEF WaitErr, GoTo, Return, TypeOK
  <2> QED
    BY <2>1, LeftTables DEF Shape, GoesOn, Running, Loaded
<1>5. CASE CopyChunk(i) \/ BufferChunk(i) \/ ApplyChunk(i)
  <2>1. Take(i) /\ Running(i) /\ pc[i] # "record" /\ pc' = pc
    BY <1>5, SMTT(30)
    DEF CopyChunk, BufferChunk, ApplyChunk, GoTo, Running, TypeOK
  <2>2. Loaded(i)' >= Loaded(i)
    <3>1. Loaded(i) \in Nat
      BY DEF Loaded, TypeOK
    <3>2. CASE UNCHANGED put
      BY <3>1, <3>2 DEF Loaded
    <3>3. CASE ApplyChunk(i)
      <4>1. put' = [put EXCEPT ![i] = Loaded(i) + 1]
        BY <3>3 DEF ApplyChunk, Applied, Loaded
      <4>2. put'[i] = Loaded(i) + 1
        BY <4>1 DEF TypeOK
      <4>3. Loaded(i) < Total
        BY <3>3 DEF ApplyChunk, GoTo, Take, TypeOK, OutcomeInv, PutInv, Taken
      <4> QED
        BY <3>1, <4>2, <4>3 DEF Loaded
    <3> QED
      BY <1>5, <3>2, <3>3 DEF CopyChunk, BufferChunk
  <2> QED
    BY <2>1, <2>2 DEF Shape, Takes
<1>6. CASE CopyFail(i) \/ ApplyFail(i) \/ BufferFail(i)
  <2>1. /\ Take(i) \/ UNCHANGED stream
        /\ Return(i, "err") /\ UNCHANGED put
        /\ Running(i) /\ pc[i] # "record"
    BY <1>6 DEF CopyFail, ApplyFail, BufferFail, Running
  <2>2. CASE UNCHANGED stream
    BY <2>1, <2>2, Returns DEF Shape
  <2>3. CASE Take(i)
    <3>1. Loaded(i)' = Loaded(i) /\ Loaded(i) \in Int
      BY <2>1 DEF Loaded, TypeOK
    <3> QED
      BY <2>1, <2>3, <3>1 DEF Shape, Takes, Return, TypeOK
  <2> QED
    BY <2>1, <2>2, <2>3
<1> QED
  BY <1>1, <1>2, <1>3, <1>4, <1>5, <1>6 DEF Caller, Failure, Shape

LEMMA OthersKeep ==
  ASSUME TypeOK, NEW i \in Calls, ~Panic(i),
         Restore(i) \/ Caller(i) \/ Failure(i) \/ Goroutine(i) \/ RetrieveFail(i)
  PROVE  Keeps(i)
<1> USE DEF TypeOK, GoTo, Return, Take, Keeps, CallState, caller, stream, database
<1>1. CASE Restore(i) \/ Record(i)
  BY <1>1 DEF Restore, Record
<1>2. CASE NoHandle(i) \/ CloseHandleFail(i) \/ CreateTmpFail(i)
             \/ RenameFail(i) \/ ReopenFail(i) \/ LoadFail(i)
  BY <1>2 DEF NoHandle, CloseHandleFail, CreateTmpFail, RenameFail, ReopenFail,
              LoadFail
<1>3. CASE CheckHandle(i) \/ CloseHandle(i) \/ SetNil(i) \/ CreateTmp(i)
             \/ Reopen(i) \/ BufferEOF(i) \/ Sync(i)
  BY <1>3 DEF CheckHandle, CloseHandle, SetNil, CreateTmp, Reopen, BufferEOF, Sync
<1>4. CASE CopyEOF(i) \/ CloseLosesChunk(i) \/ Rename(i)
  BY <1>4 DEF CopyEOF, CloseLosesChunk, Rename
<1>5. CASE ApplyEOF(i) \/ LoadDone(i) \/ LoadChunk(i) \/ ApplyChunk(i)
  BY <1>5, SMTT(30)
  DEF ApplyEOF, LoadDone, LoadChunk, ApplyChunk, Accept, Applied
<1>6. CASE WaitErr(i)
  BY <1>6 DEF WaitErr
<1>7. CASE ListTables(i) \/ Query(i) \/ ListTablesFail(i)
  BY <1>7 DEF ListTables, Query, ListTablesFail
<1>8. CASE CopyChunk(i) \/ CopyFail(i) \/ BufferChunk(i)
  BY <1>8 DEF CopyChunk, CopyFail, BufferChunk
<1>9. CASE ApplyFail(i)
  BY <1>9 DEF ApplyFail
<1>10. CASE BufferFail(i)
  BY <1>10 DEF BufferFail
<1>11. CASE Goroutine(i) \/ RetrieveFail(i)
  BY <1>11 DEF Goroutine, ReadChunk, RetrieveDone, RetrieveFail, ClosePipe
<1> QED
  BY <1>1, <1>2, <1>3, <1>4, <1>5, <1>6, <1>7, <1>8, <1>9, <1>10, <1>11
     DEF Caller, Failure

\* A step of call i lowers its number.
LEMMA OwnLowers ==
  ASSUME TypeOK, TypeOK', StepInv, NEW i \in Calls, Shape(i), Keeps(i)
  PROVE  StepsLeft(i)' < StepsLeft(i)
<1>1. /\ pc[i] \in Phases /\ pc'[i] \in Phases
      /\ sent[i] \in 0..stored /\ sent'[i] \in 0..stored /\ stored \in Nat
      /\ UNCHANGED <<kind, stored>>
  BY SMTT(30) DEF TypeOK, Phases, Keeps
<1>2. /\ prod[i] \in {"none", "read", "write", "close", "exited", "killed"}
      /\ prod'[i] \in {"none", "read", "write", "close", "exited", "killed"}
  BY DEF TypeOK
<1>3. /\ CallerLeft[pc[i]] \in Nat /\ CallerLeft[pc'[i]] \in Nat
      /\ WriterLeft[prod[i]] \in Nat /\ WriterLeft[prod'[i]] \in Nat
  BY <1>1, <1>2, LeftNat
<1>4. Loaded(i) \in Int /\ Loaded(i)' \in Int
  BY DEF TypeOK, Loaded
<1>5. CASE GoesOn(i)
  BY <1>1, <1>3, <1>4, <1>5 DEF GoesOn, StepsLeft, ToLoad
<1>6. CASE Takes(i)
  <2>1. sent' = sent /\ WriterLeft[prod[i]] = 4 /\ WriterLeft[prod'[i]] = 3
    BY <1>6, LeftTables DEF Takes, Take, TypeOK
  <2>2. CallerLeft[pc'[i]] <= CallerLeft[pc[i]]
    <3>1. CASE pc' = pc
      BY <1>3, <3>1
    <3>2. CASE pc'[i] = "done"
      <4>1. CallerLeft[pc[i]] > 1
        BY <1>1, <1>6, LeftNat DEF Takes, Running, Over
      <4> QED
        BY <1>3, <3>2, <4>1, LeftTables
    <3> QED
      BY <1>6, <3>1, <3>2 DEF Takes
  <2>3. ToLoad(i)' <= ToLoad(i)
    BY <1>1, <1>4, <1>6 DEF Takes, ToLoad
  <2>4. ToLoad(i) \in Int /\ ToLoad(i)' \in Int
    BY <1>1, <1>4 DEF ToLoad
  <2> QED
    BY <1>1, <1>3, <2>1, <2>2, <2>3, <2>4 DEF StepsLeft
<1>7. CASE LoadChunk(i)
  <2>1. pc' = pc /\ UNCHANGED stream /\ kind = "mongo"
    BY <1>7 DEF LoadChunk, GoTo, TypeOK, StepInv, StepOf
  <2>2. Loaded(i)' = Loaded(i) + 1
    BY <1>7, <2>1 DEF LoadChunk, Applied, Loaded, TypeOK, database
  <2> QED
    BY <1>1, <1>3, <1>4, <2>1, <2>2 DEF StepsLeft, ToLoad, stream
<1>8. CASE Restore(i) \/ Record(i)
  <2>1. CallerLeft[pc'[i]] + WriterLeft[prod'[i]]
          < CallerLeft[pc[i]] + WriterLeft[prod[i]]
    <3>1. CASE Restore(i)
      <4>1. pc[i] = "none" /\ pc'[i] = "record" /\ prod' = prod
        BY <3>1 DEF Restore, StepInv, StepOf, TypeOK, stream
      <4> QED
        BY <1>3, <4>1, LeftTables
    <3>2. CASE Record(i)
      <4>1. pc[i] = "record" /\ prod[i] = "none" /\ prod'[i] = "read"
        BY <3>2 DEF Record, StepInv, StepOf, TypeOK
      <4>2. pc'[i] \in {"check", "apply", "buffer"}
        BY <3>2, SMTT(30) DEF Record, Entry, TypeOK
      <4>3. CallerLeft[pc'[i]] < CallerLeft[pc[i]]
        BY <4>1, <4>2, LeftTables
      <4> QED
        BY <1>3, <4>1, <4>3, LeftTables
    <3> QED
      BY <1>8, <3>1, <3>2
  <2>2. UNCHANGED <<sent, put>>
    BY <1>8 DEF Restore, Record, stream, database
  <2>3. ToLoad(i)' = ToLoad(i) /\ ToLoad(i) \in Int
    BY <1>1, <1>4, <2>2 DEF ToLoad, Loaded
  <2> QED
    BY <1>1, <1>3, <2>1, <2>2, <2>3 DEF StepsLeft
<1>9. CASE ReadChunk(i) \/ RetrieveDone(i) \/ RetrieveFail(i) \/ ClosePipe(i)
  <2>1. UNCHANGED <<pc, put>>
    BY <1>9 DEF ReadChunk, RetrieveDone, RetrieveFail, ClosePipe, caller, database
  <2>2. ToLoad(i)' = ToLoad(i) /\ ToLoad(i) \in Int
    BY <1>1, <1>4, <2>1 DEF ToLoad, Loaded
  <2>3. \/ sent'[i] = sent[i] + 1 /\ WriterLeft[prod'[i]] = WriterLeft[prod[i]] + 1
        \/ sent'[i] = sent[i] /\ WriterLeft[prod'[i]] = WriterLeft[prod[i]] - 1
    <3>1. CASE ReadChunk(i)
      BY <3>1, LeftTables DEF ReadChunk, TypeOK
    <3>2. CASE RetrieveDone(i) \/ RetrieveFail(i)
      <4>1. prod[i] = "read" /\ prod'[i] = "close" /\ sent' = sent
        BY <3>2 DEF RetrieveDone, RetrieveFail, TypeOK
      <4> QED
        BY <4>1, LeftTables
    <3>3. CASE ClosePipe(i)
      BY <3>3, LeftTables DEF ClosePipe, TypeOK
    <3> QED
      BY <1>9, <3>1, <3>2, <3>3
  <2> QED
    BY <1>1, <1>3, <2>1, <2>2, <2>3 DEF StepsLeft
<1> QED
  BY <1>5, <1>6, <1>7, <1>8, <1>9 DEF Shape

\* ... and no other number, unless it ends the process.
LEMMA OtherKeeps ==
  ASSUME NEW i \in Calls, NEW j \in Calls, UNCHANGED <<kind, stored>>,
         UNCHANGED CallState(j)
  PROVE  StepsLeft(j)' = StepsLeft(j)
BY DEF CallState, StepsLeft, ToLoad, Loaded

LEMMA DieLowers ==
  ASSUME TypeOK, OutcomeInv, NEW i \in Calls, Die
  PROVE  StepsLeft(i)' < StepsLeft(i) \/ UNCHANGED CallState(i)
<1>1. /\ pc[i] \in Phases /\ sent[i] \in Nat /\ stored \in Nat
      /\ UNCHANGED <<kind, stored, result, sent, put>>
  BY DEF TypeOK, Phases, Die, database
<1>2. /\ prod[i] \in {"none", "read", "write", "close", "exited", "killed"}
      /\ prod'[i] = IF prod[i] = "none" THEN "none" ELSE "killed"
      /\ errCh'[i] = "empty"
      /\ prod[i] \in {"none", "killed"} => errCh[i] = "empty"
  BY DEF TypeOK, Die, OutcomeInv
<1>3. pc'[i] = IF pc[i] \in Applying THEN "orphan"
               ELSE IF pc[i] \in {"none", "orphan"} THEN pc[i] ELSE "dead"
  BY DEF Die
<1>4. /\ CallerLeft[pc[i]] \in Nat /\ WriterLeft[prod[i]] \in Nat
      /\ CallerLeft[pc'[i]] \in Nat
      /\ CallerLeft[pc'[i]] < CallerLeft[pc[i]] \/ pc'[i] = pc[i]
  <2>1. CASE pc[i] \in Applying
    BY <1>1, <1>2, <1>3, <2>1, LeftNat, LeftTables DEF Applying
  <2>2. CASE pc[i] \in {"none", "orphan", "dead"}
    BY <1>1, <1>2, <1>3, <2>2, LeftNat, LeftTables DEF Applying
  <2>3. CASE pc[i] \notin Applying \cup {"none", "orphan", "dead"}
    BY <1>1, <1>2, <1>3, <2>3, LeftNat, LeftTables
  <2> QED
    BY <2>1, <2>2, <2>3
<1>5. \/ prod'[i] = prod[i] /\ errCh'[i] = errCh[i]
      \/ WriterLeft[prod'[i]] = 0 /\ WriterLeft[prod[i]] > 0
  BY <1>2, LeftTables
<1>6. ToLoad(i)' = ToLoad(i) /\ ToLoad(i) \in Int
  BY <1>1 DEF ToLoad, Loaded, TypeOK
<1> QED
  BY <1>1, <1>4, <1>5, <1>6 DEF StepsLeft, CallState

\* A tool that has outlived its process lowers the number of its call.
LEMMA OrphanLowers ==
  ASSUME IInv, IInv', NEW i \in Calls, Orphan(i)
  PROVE  /\ StepsLeft(i)' < StepsLeft(i) \/ UNCHANGED CallState(i)
         /\ \A j \in Calls \ {i} : UNCHANGED CallState(j)
         /\ UNCHANGED <<kind, stored>>
         /\ ~Running(i)' /\ \A j \in Calls : Running(j)' => Running(j)
<1>0. OrphanShape(i)
  BY OrphanChanges
<1>1. /\ pc[i] = "orphan" /\ UNCHANGED <<kind, stored, result, prod, sent, errCh>>
      /\ \A j \in Calls \ {i} : pc'[j] = pc[j] /\ put'[j] = put[j]
  BY <1>0 DEF OrphanShape
<1>2. pc'[i] \in {"orphan", "dead"}
  BY <1>0 DEF OrphanShape
<1>3. \/ pc'[i] = "orphan" /\ Loaded(i)' = Loaded(i) + 1
      \/ pc'[i] = "dead" /\ Loaded(i)' = Loaded(i)
  BY <1>0 DEF OrphanShape
<1>4. CallerLeft["orphan"] = 1 /\ CallerLeft["dead"] = 0 /\ WriterLeft[prod[i]] \in Nat
  <2>1. prod[i] \in {"none", "read", "write", "close", "exited", "killed"}
    BY DEF IInv, TypeOK
  <2> QED
    BY <2>1, LeftTables
<1>5. /\ ToLoad(i) = stored - Loaded(i) /\ ToLoad(i)' = stored - Loaded(i)'
      /\ stored \in Nat /\ sent[i] \in Nat /\ Loaded(i) \in Nat
  BY <1>1, SMTT(30) DEF ToLoad, Loaded, IInv, TypeOK, StepInv, StepOf
<1>6. StepsLeft(i)' < StepsLeft(i)
  <2>1. CASE pc'[i] = "orphan" /\ Loaded(i)' = Loaded(i) + 1
    BY <1>1, <1>4, <1>5, <2>1 DEF StepsLeft
  <2>2. CASE pc'[i] = "dead" /\ Loaded(i)' = Loaded(i)
    BY <1>1, <1>4, <1>5, <2>2 DEF StepsLeft
  <2> QED
    BY <1>3, <2>1, <2>2
<1>7. \A j \in Calls \ {i} : UNCHANGED CallState(j)
  BY <1>1 DEF CallState
<1>8. ~Running(i)' /\ \A j \in Calls : Running(j)' => Running(j)
  BY <1>1, <1>2 DEF Running
<1> QED
  BY <1>1, <1>6, <1>7, <1>8

LEMMA ModeKept == [Next]_vars => UNCHANGED <<kind, stored>>
<1> SUFFICES ASSUME [Next]_vars PROVE UNCHANGED <<kind, stored>>
  OBVIOUS
<1> USE DEF GoTo, Return
<1>1. ASSUME NEW i \in Calls, Caller(i)
      PROVE  UNCHANGED <<kind, stored>>
  BY <1>1 DEF Caller, Record, NoHandle, CheckHandle, CloseHandle, CloseHandleFail,
     SetNil, CreateTmp, CreateTmpFail, CopyChunk, CopyFail, CopyEOF, Rename,
     RenameFail, Reopen, ReopenFail, ApplyChunk, ApplyEOF, BufferChunk, BufferEOF,
     Sync, LoadChunk, LoadDone, WaitErr, ListTables, Query, ListTablesFail,
     Panic, Die
<1>2. ASSUME NEW i \in Calls,
             Restore(i) \/ Failure(i) \/ Goroutine(i) \/ RetrieveFail(i)
      PROVE  UNCHANGED <<kind, stored>>
  BY <1>2 DEF Restore, Failure, ApplyFail, BufferFail, LoadFail, CloseLosesChunk,
     Goroutine, ReadChunk, RetrieveDone, ClosePipe, RetrieveFail
<1>3. CASE Crash \/ Connect \/ UNCHANGED vars
  BY <1>3 DEF Crash, Die, Connect, vars
<1>4. ASSUME NEW i \in Calls, Orphan(i)
      PROVE  UNCHANGED <<kind, stored>>
  BY <1>4 DEF Orphan, OrphanApplies, OrphanEnds
<1> QED
  BY <1>1, <1>2, <1>3, <1>4 DEF Next

\* While a call reads its stream there is a goroutine, and the outcome is in
\* the channel before the stream ends.
WaitOf(i) ==
  /\ Running(i) /\ pc[i] # "record" => prod[i] \notin {"none", "killed"}
  /\ Running(i) /\ pc[i] \notin {"listTables", "query"}
       /\ prod[i] \in {"close", "exited"} => errCh[i] # "empty"

LEMMA OwnWait ==
  ASSUME TypeOK, TypeOK', StepInv, NEW i \in Calls, Shape(i), Keeps(i), WaitOf(i)
  PROVE  WaitOf(i)'
<1> USE DEF WaitOf, Running
<1>0. UNCHANGED kind
  BY DEF Keeps
<1>1. CASE GoesOn(i)
  <2>1. pc[i] \in {"listTables", "query"} => ~Running(i)' \/ pc'[i] = "query"
    <3>1. pc'[i] \in Phases /\ CallerLeft[pc'[i]] < CallerLeft[pc[i]]
      BY <1>1 DEF GoesOn, TypeOK, Phases
    <3> QED
      BY <3>1, LeftTables, SMTT(30) DEF Phases
  <2> QED
    BY <1>0, <1>1, <2>1 DEF GoesOn
<1>2. CASE Takes(i)
  BY <1>0, <1>2 DEF Takes, Take, TypeOK
<1>3. CASE LoadChunk(i)
  BY <1>0, <1>3 DEF LoadChunk, Applied, Loaded, GoTo, stream, TypeOK
<1>4. CASE Restore(i)
  BY <1>0, <1>4 DEF Restore, Loaded, StepInv, StepOf, TypeOK, stream, database
<1>5. CASE Record(i)
  BY <1>0, <1>5 DEF Record, Loaded, TypeOK, database
<1>6. CASE ReadChunk(i) \/ RetrieveDone(i) \/ RetrieveFail(i) \/ ClosePipe(i)
  <2>1. UNCHANGED <<pc, put>> /\ prod[i] \in {"read", "close"}
    BY <1>6 DEF ReadChunk, RetrieveDone, RetrieveFail, ClosePipe, caller, database
  <2>2. /\ prod'[i] \in {"write", "close", "exited"}
        /\ sent'[i] >= sent[i]
        /\ \/ prod'[i] = "write"
           \/ errCh'[i] # "empty"
           \/ prod[i] = "close" /\ errCh' = errCh
    <3>1. sent[i] \in Nat
      BY DEF TypeOK
    <3>2. CASE ReadChunk(i)
      BY <3>1, <3>2 DEF ReadChunk, TypeOK
    <3>3. CASE RetrieveDone(i)
      BY <3>1, <3>3 DEF RetrieveDone, TypeOK
    <3>4. CASE RetrieveFail(i)
      BY <3>1, <3>4 DEF RetrieveFail, TypeOK
    <3>5. CASE ClosePipe(i)
      BY <3>1, <3>5 DEF ClosePipe, TypeOK
    <3> QED
      BY <1>6, <3>2, <3>3, <3>4, <3>5
  <2>3. Loaded(i)' = Loaded(i) /\ Loaded(i) \in Nat
    BY <2>1 DEF Loaded, TypeOK
  <2> QED
    BY <1>0, <2>1, <2>2, <2>3, SMTT(30) DEF TypeOK
<1> QED
  BY <1>1, <1>2, <1>3, <1>4, <1>5, <1>6 DEF Shape

WaitInv == \A i \in Calls : WaitOf(i)

Moves(i) ==
  Restore(i) \/ Caller(i) \/ Failure(i) \/ Goroutine(i) \/ RetrieveFail(i)

\* All that a step does to the calls' own states.
LEMMA StepLowers ==
  ASSUME IInv, IInv', Next
  PROVE  /\ \A i \in Calls : StepsLeft(i)' < StepsLeft(i) \/ UNCHANGED CallState(i)
         /\ \A i \in Calls : Moves(i) => StepsLeft(i)' < StepsLeft(i)
         /\ WaitInv => WaitInv'
<1>1. TypeOK /\ TypeOK' /\ StepInv /\ OutcomeInv /\ PutInv
  BY DEF IInv
<1>2. ASSUME NEW i \in Calls, Moves(i), ~Panic(i)
      PROVE  Shape(i) /\ Keeps(i) /\ StepsLeft(i)' < StepsLeft(i)
  BY <1>1, <1>2, ShapeOfStep, OthersKeep, OwnLowers DEF Moves, Goroutine, Shape
<1>3. ASSUME NEW i \in Calls, Panic(i)
      PROVE  Die /\ StepsLeft(i)' < StepsLeft(i)
  <2>1. Die /\ pc'[i] # pc[i]
    BY <1>1, <1>3 DEF Panic, Die, Applying, Running, TypeOK
  <2> QED
    BY <1>1, <2>1, DieLowers DEF CallState
<1>4. \A i \in Calls : Moves(i) => StepsLeft(i)' < StepsLeft(i)
  BY <1>2, <1>3
<1>5. CASE Die
  <2>1. WaitInv => WaitInv'
    BY <1>1, <1>5 DEF WaitInv, WaitOf, Loaded, Die, Running, TypeOK, database
  <2> QED
    BY <1>1, <1>4, <1>5, <2>1, DieLowers
<1>6. ASSUME NEW i \in Calls, Moves(i), ~Panic(i)
      PROVE  /\ \A j \in Calls : StepsLeft(j)' < StepsLeft(j) \/ UNCHANGED CallState(j)
             /\ WaitInv => WaitInv'
  <2>1. Shape(i) /\ Keeps(i) /\ StepsLeft(i)' < StepsLeft(i)
    BY <1>2, <1>6
  <2>2. UNCHANGED kind /\ \A j \in Calls \ {i} : UNCHANGED CallState(j)
    BY <2>1 DEF Keeps
  <2>3. ASSUME WaitInv, NEW j \in Calls PROVE WaitOf(j)'
    <3>1. CASE j = i
      BY <1>1, <2>1, <2>3, <3>1, OwnWait DEF WaitInv
    <3>2. CASE j # i
      <4>1. UNCHANGED <<kind, pc[j], prod[j], sent[j], errCh[j], put[j]>>
        BY <2>2, <3>2 DEF CallState
      <4> QED
        BY <2>3, <4>1 DEF WaitInv, WaitOf, Loaded, Running
    <3> QED
      BY <3>1, <3>2
  <2> QED
    BY <2>1, <2>2, <2>3 DEF WaitInv
<1>7. CASE Connect
  <2>1. \A i \in Calls : UNCHANGED CallState(i)
    BY <1>7 DEF Connect, CallState, caller, stream, database
  <2>2. WaitInv => WaitInv'
    BY <1>7 DEF Connect, WaitInv, WaitOf, Loaded, Running, caller, stream, database
  <2> QED
    BY <1>4, <2>1, <2>2
<1>8. ASSUME NEW i \in Calls, Orphan(i)
      PROVE  /\ \A j \in Calls : StepsLeft(j)' < StepsLeft(j) \/ UNCHANGED CallState(j)
             /\ WaitInv => WaitInv'
  <2>1. /\ StepsLeft(i)' < StepsLeft(i) \/ UNCHANGED CallState(i)
        /\ \A j \in Calls \ {i} : UNCHANGED CallState(j)
        /\ ~Running(i)' /\ \A j \in Calls : Running(j)' => Running(j)
    BY <1>8, OrphanLowers
  <2>2. ASSUME WaitInv, NEW j \in Calls PROVE WaitOf(j)'
    <3>1. CASE j = i
      BY <2>1, <3>1 DEF WaitOf
    <3>2. CASE j # i
      BY <2>1, <2>2, <3>2 DEF WaitInv, WaitOf, CallState
    <3> QED
      BY <3>1, <3>2
  <2> QED
    BY <2>1, <2>2 DEF WaitInv
<1> QED
  BY <1>3, <1>4, <1>5, <1>6, <1>7, <1>8 DEF Next, Moves, Crash

LEMMA WaitInvariance == Spec => []WaitInv
<1>1. Init => WaitInv
  BY DEF Init, WaitInv, WaitOf, Loaded, Running
<1>2. IInv /\ IInv' /\ WaitInv /\ [Next]_vars => WaitInv'
  <2>1. CASE UNCHANGED vars
    BY <2>1 DEF vars, WaitInv, WaitOf, Loaded, Running, caller, stream, database
  <2> QED
    BY <2>1, StepLowers
<1> QED
  BY <1>1, <1>2, Invariance, PTL DEF Spec

LEMMA SomebodyMay ==
  ASSUME IInv, WaitInv, NEW i \in Calls, Running(i)
  PROVE  CallerMayStep(i) \/ GoroutineMayStep(i)
BY DEF IInv, TypeOK, OutcomeInv, Ended, WaitInv, WaitOf, Running, CallerMayStep,
       GoroutineMayStep

\* However many calls overlap, none waits for a goroutine that waits for it.
THEOREM NeverMutualWait == Spec => []NoMutualWait
<1>1. IInv /\ WaitInv => NoMutualWait
  BY SomebodyMay DEF NoMutualWait
<1> QED
  BY <1>1, Invariance, WaitInvariance, PTL

\* No call repeats or takes back a step, nor does it send another one back.
THEOREM StepsCount == Spec => EveryStepCounts
<1>1. IInv /\ IInv' /\ [Next]_vars
        => [\A i \in Calls : StepsLeft(i)' < StepsLeft(i)
                              \/ UNCHANGED CallState(i)]_vars
  BY StepLowers
<1> QED
  BY <1>1, Invariance, PTL DEF Spec, EveryStepCounts

LEMMA StepsLeftNat ==
  ASSUME TypeOK, PutInv, NEW i \in Calls
  PROVE  StepsLeft(i) \in Nat
<1>1. CallerLeft[pc[i]] \in Nat /\ WriterLeft[prod[i]] \in Nat
  <2>1. /\ pc[i] \in Phases
        /\ prod[i] \in {"none", "read", "write", "close", "exited", "killed"}
    BY DEF TypeOK, Phases
  <2> QED
    BY <2>1, LeftNat
<1>2. sent[i] \in 0..stored /\ stored \in Nat
  BY DEF TypeOK
<1>3. ToLoad(i) \in Nat
  BY <1>2 DEF TypeOK, PutInv, ToLoad, Loaded
<1> QED
  BY <1>1, <1>2, <1>3 DEF StepsLeft

\* Restores advance, however many overlap, fail or are killed.
THEOREM RestoresAdvance == Spec => Advances
BY NeverMutualWait, StepsCount, PTL DEF Advances

\* Whatever number of steps a call has left while it runs, some time it has
\* fewer, however the others go on: the one of the two that may step may do so
\* until one of them has.
THEOREM StepsRunOut ==
  ASSUME NEW i \in Calls, NEW k \in Nat
  PROVE  Spec /\ WhoMayStepDoes
           => [](Running(i) /\ StepsLeft(i) = k
                   => <>(~Running(i) \/ StepsLeft(i) < k))
<1> DEFINE At    == Running(i) /\ StepsLeft(i) = k
           Below == ~Running(i) \/ StepsLeft(i) < k
           Fair  == /\ []<>~CallerMayStep(i) \/ []<><<Caller(i)>>_vars
                    /\ []<>~GoroutineMayStep(i) \/ []<><<Goroutine(i)>>_vars
<1>1. IInv /\ WaitInv => (At => CallerMayStep(i) \/ GoroutineMayStep(i))
  BY SomebodyMay
<1>2. IInv /\ IInv' /\ At /\ [Next]_vars
        => \/ Below'
           \/ /\ At'
              /\ CallerMayStep(i) => CallerMayStep(i)'
              /\ GoroutineMayStep(i) => GoroutineMayStep(i)'
  <2> SUFFICES ASSUME IInv, IInv', At, [Next]_vars
               PROVE  \/ Below'
                      \/ /\ At'
                         /\ CallerMayStep(i) => CallerMayStep(i)'
                         /\ GoroutineMayStep(i) => GoroutineMayStep(i)'
    OBVIOUS
  <2>1. StepsLeft(i)' < StepsLeft(i) \/ UNCHANGED <<CallState(i), kind, stored>>
    <3>1. UNCHANGED <<kind, stored>>
      BY ModeKept
    <3>2. CASE Next
      BY <3>1, <3>2, StepLowers
    <3>3. CASE UNCHANGED vars
      BY <3>3 DEF vars, CallState, caller, stream, database
    <3> QED
      BY <3>2, <3>3
  <2>2. CASE UNCHANGED <<CallState(i), kind, stored>>
    BY <2>2, OtherKeeps DEF CallState, CallerMayStep, GoroutineMayStep, Running
  <2> QED
    BY <2>1, <2>2
<1>3. IInv /\ IInv' /\ At /\ [Next]_vars /\ <<Caller(i)>>_vars => Below'
  BY StepLowers DEF Moves, Next
<1>4. IInv /\ IInv' /\ At /\ [Next]_vars /\ <<Goroutine(i)>>_vars => Below'
  BY StepLowers DEF Moves, Next
<1>5. WhoMayStepDoes => Fair
  BY DEF WhoMayStepDoes
<1> HIDE DEF At, Below
<1>6. Spec /\ Fair => [](At => <>Below)
  BY <1>1, <1>2, <1>3, <1>4, Invariance, WaitInvariance, PTL DEF Spec
<1> QED
  BY <1>5, <1>6 DEF At, Below

-----------------------------------------------------------------------------
(* Which call the live database comes from.                                *)

\* The steps at which a call has put its backup in place.
Placed == {"reopen", "wait", "listTables", "query"}

\* When no two calls overlap the one that runs is the last that was begun, and
\* what a call has put in place is there until a later one replaces it: no tool
\* of an earlier call is still at work.
OrderInv ==
  /\ live <= n
  /\ "overlap" \notin faults =>
       \A i \in Calls :
         /\ Running(i) => i = n
         /\ "tool" \notin faults /\ (pc[i] \in Placed \/ result[i] = "ok") =>
              /\ live >= i
              /\ \A j \in Calls : pc[j] = "orphan" => j > i

\* No tool is left at work, or it is noted that two are.
Lone(i) == (\E j \in Calls \ {i} : pc[j] = "orphan") => "tool" \in faults'

\* What a step of a call does to its place.
InOrder(i) ==
  /\ Running(i)
  /\ UNCHANGED n
  /\ \A j \in Calls \ {i} : pc'[j] = pc[j] /\ result'[j] = result[j]
  /\ live' = live \/ live' = i
  /\ \A j \in Calls : pc'[j] = "orphan" => pc[j] = "orphan"
  /\ pc'[i] \in Placed \/ result'[i] = "ok" =>
       \/ pc[i] \in Placed
       \/ live' = i /\ Lone(i)
  /\ faults \subseteq faults'

LEMMA OwnOrder ==
  ASSUME IInv, NEW i \in Calls, Caller(i) \/ Failure(i), ~Panic(i)
  PROVE  InOrder(i)
<1> USE DEF IInv, TypeOK, InOrder, Placed, Running, Note, Over
<1>1. ASSUME NEW r, Return(i, r), Running(i), UNCHANGED live,
             faults \subseteq faults', r = "err" \/ pc[i] \in Placed
      PROVE  InOrder(i)
  BY <1>1 DEF Return
<1>2. ASSUME NEW from \in Phases \ ({"none"} \cup Over), NEW to \in Phases,
             GoTo(i, from, to), live' = live \/ live' = i,
             to # "orphan",
             to \in Placed => from \in Placed \/ (live' = i /\ Lone(i)),
             faults \subseteq faults', result[i] # "ok"
      PROVE  InOrder(i)
  BY <1>2 DEF GoTo, Phases
<1>0. Running(i) => result[i] # "ok"
  BY DEF StepInv, StepOf
<1>3. CASE Record(i)
  <2>1. Entry[kind] \in {"check", "apply", "buffer"}
    BY DEF Entry
  <2> QED
    BY <1>0, <1>3, <2>1 DEF Record, database
<1>4. CASE \/ NoHandle(i) \/ CloseHandleFail(i) \/ CreateTmpFail(i)
           \/ CopyFail(i) \/ RenameFail(i) \/ ReopenFail(i) \/ Query(i)
           \/ ListTablesFail(i) \/ ApplyFail(i) \/ BufferFail(i) \/ LoadFail(i)
  <2>1. /\ pc[i] \notin {"none"} \cup Over /\ UNCHANGED <<live, faults>>
        /\ \/ Return(i, "err")
           \/ Return(i, "ok") /\ pc[i] \in Placed
    BY <1>4 DEF NoHandle, CloseHandleFail, CreateTmpFail, CopyFail, RenameFail,
       ReopenFail, ListTablesFail, ApplyFail, BufferFail, LoadFail, Query, GoTo,
       database
  <2> QED
    BY <1>1, <2>1
<1>5. CASE WaitErr(i)
  <2>1. pc[i] = "wait" /\ UNCHANGED <<live, faults>>
    BY <1>5 DEF WaitErr, database
  <2>2. CASE GoTo(i, "wait", "listTables")
    <3>1. "wait" \in Phases \ ({"none"} \cup Over) /\ "listTables" \in Phases
      BY DEF Phases
    <3>2. result[i] # "ok"
      BY <1>0, <2>1
    <3> QED
      BY <1>2, <2>1, <2>2, <3>1, <3>2
  <2>3. CASE Return(i, "err")
    BY <1>1, <2>1, <2>3
  <2> QED
    BY <1>5, <2>2, <2>3 DEF WaitErr
<1>6. ASSUME NEW from \in Phases \ ({"none"} \cup Over), NEW to,
             GoTo(i, from, to)
      PROVE  result[i] # "ok"
  BY <1>0, <1>6 DEF GoTo, Phases
<1>7. CASE \/ CheckHandle(i) \/ CloseHandle(i) \/ SetNil(i) \/ CreateTmp(i)
           \/ CopyChunk(i) \/ CopyEOF(i) \/ Rename(i) \/ Reopen(i)
           \/ CloseLosesChunk(i)
  <2> USE DEF Phases, database
  <2>1. CASE CheckHandle(i)
    BY <1>2, <1>6, <2>1 DEF CheckHandle
  <2>2. CASE CloseHandle(i)
    BY <1>2, <1>6, <2>2 DEF CloseHandle
  <2>3. CASE SetNil(i)
    BY <1>2, <1>6, <2>3 DEF SetNil
  <2>4. CASE CreateTmp(i)
    BY <1>2, <1>6, <2>4 DEF CreateTmp
  <2>5. CASE CopyChunk(i)
    BY <1>2, <1>6, <2>5 DEF CopyChunk
  <2>6. CASE CopyEOF(i)
    BY <1>2, <1>6, <2>6 DEF CopyEOF
  <2>7. CASE Rename(i)
    <3>1. Lone(i)
      BY <2>7 DEF Rename, GoTo, Lone, StepInv, StepOf, Section
    <3> QED
      BY <1>2, <1>6, <2>7, <3>1 DEF Rename
  <2>8. CASE Reopen(i)
    BY <1>2, <1>6, <2>8, SMTT(90) DEF Reopen
  <2>9. CASE CloseLosesChunk(i)
    BY <1>2, <1>6, <2>9 DEF CloseLosesChunk
  <2> QED
    BY <1>7, <2>1, <2>2, <2>3, <2>4, <2>5, <2>6, <2>7, <2>8, <2>9
<1>8. CASE \/ ApplyChunk(i) \/ ApplyEOF(i) \/ BufferChunk(i) \/ BufferEOF(i)
           \/ Sync(i) \/ LoadChunk(i) \/ LoadDone(i) \/ ListTables(i)
  <2> USE DEF Phases, database, Applied, Accept
  <2>1. CASE ApplyChunk(i)
    BY <1>2, <1>6, <2>1 DEF ApplyChunk
  <2>2. CASE ApplyEOF(i)
    <3>1. Lone(i)
      BY <2>2 DEF ApplyEOF, Lone, OtherTool, OtherIn
    <3> QED
      BY <1>2, <1>6, <2>2, <3>1 DEF ApplyEOF
  <2>3. CASE BufferChunk(i)
    BY <1>2, <1>6, <2>3 DEF BufferChunk
  <2>4. CASE BufferEOF(i)
    BY <1>2, <1>6, <2>4 DEF BufferEOF
  <2>5. CASE Sync(i)
    BY <1>2, <1>6, <2>5 DEF Sync
  <2>6. CASE LoadChunk(i)
    BY <1>2, <1>6, <2>6 DEF LoadChunk
  <2>7. CASE LoadDone(i)
    <3>1. Lone(i)
      BY <2>7 DEF LoadDone, Lone, OtherTool, OtherIn
    <3> QED
      BY <1>2, <1>6, <2>7, <3>1 DEF LoadDone
  <2>8. CASE ListTables(i)
    <3>1. /\ "listTables" \in Phases \ ({"none"} \cup Over) /\ "query" \in Phases
          /\ GoTo(i, "listTables", "query") /\ UNCHANGED <<live, faults>>
      BY <2>8 DEF ListTables
    <3>2. result[i] # "ok"
      BY <1>6, <3>1
    <3> QED
      BY <1>2, <3>1, <3>2
  <2> QED
    BY <1>8, <2>1, <2>2, <2>3, <2>4, <2>5, <2>6, <2>7, <2>8
<1> QED
  BY <1>3, <1>4, <1>5, <1>7, <1>8 DEF Caller, Failure

LEMMA OrderStep == IInv /\ OrderInv /\ [Next]_vars => OrderInv'
<1> SUFFICES ASSUME IInv, OrderInv, [Next]_vars PROVE OrderInv'
  OBVIOUS
<1>0. n \in Nat /\ live \in Nat /\ \A i \in Calls : i > n => pc[i] = "none"
  BY DEF IInv, TypeOK, StepInv, StepOf
<1>1. ASSUME NEW i \in Calls, InOrder(i) PROVE OrderInv'
  <2>1. i <= n
    BY <1>0, <1>1 DEF InOrder, Running
  <2>2. live' <= n'
    BY <1>1, <2>1 DEF InOrder, OrderInv
  <2>3. SUFFICES ASSUME "overlap" \notin faults'
                 PROVE  \A j \in Calls :
                          /\ Running(j)' => j = n'
                          /\ "tool" \notin faults'
                               /\ (pc'[j] \in Placed \/ result'[j] = "ok") =>
                                 /\ live' >= j
                                 /\ \A k \in Calls : pc'[k] = "orphan" => k > j
    BY <2>2 DEF OrderInv
  <2>4. "overlap" \notin faults /\ i = n /\ pc[i] # "orphan"
    BY <1>1, <2>3 DEF InOrder, OrderInv, Running
  <2>5. \A j \in Calls : result[j] = "ok" => j <= n
    BY <1>0 DEF IInv, StepInv, StepOf
  <2>6. \A j \in Calls : pc[j] \in Placed => j <= n
    BY <1>0 DEF Placed
  <2>7. ASSUME NEW j \in Calls, j # i
        PROVE  /\ Running(j)' => j = n'
               /\ "tool" \notin faults'
                    /\ (pc'[j] \in Placed \/ result'[j] = "ok") =>
                      /\ live' >= j
                      /\ \A k \in Calls : pc'[k] = "orphan" => k > j
    BY <1>1, <2>4, <2>5, <2>6, <2>7 DEF InOrder, OrderInv, Running
  <2>8. ASSUME "tool" \notin faults', pc'[i] \in Placed \/ result'[i] = "ok"
        PROVE  /\ live' >= i
               /\ \A k \in Calls : pc'[k] = "orphan" => k > i
    <3>1. CASE pc[i] \in Placed
      BY <1>0, <1>1, <2>4, <2>8, <3>1 DEF InOrder, OrderInv
    <3>2. CASE live' = i /\ Lone(i)
      BY <1>1, <2>4, <2>8, <3>2 DEF InOrder, Lone
    <3> QED
      BY <1>1, <2>8, <3>1, <3>2 DEF InOrder
  <2>9. Running(i)' => i = n'
    BY <1>1, <2>4 DEF InOrder
  <2> QED
    BY <2>7, <2>8, <2>9
<1>2. ASSUME NEW i \in Calls, Restore(i) PROVE OrderInv'
  <2>1. /\ i = n + 1 /\ n' = i /\ pc' = [pc EXCEPT ![i] = "record"]
        /\ UNCHANGED <<result, live>> /\ faults \subseteq faults'
        /\ "overlap" \notin faults' => \A j \in Calls : ~Running(j)
    BY <1>2 DEF Restore, Note, database
  <2>2. pc'[i] = "record" /\ \A j \in Calls \ {i} : pc'[j] = pc[j]
    BY <2>1 DEF IInv, TypeOK
  <2>3. "tool" \notin faults' => "tool" \notin faults
    BY <2>1
  <2> QED
    BY <1>0, <2>1, <2>2, <2>3 DEF OrderInv, Running, Placed
<1>3. CASE Die /\ faults \subseteq faults'
  <2>1. /\ \A i \in Calls : ~Running(i)' /\ pc'[i] \notin Placed
        /\ UNCHANGED <<n, result, live>>
    BY <1>3 DEF Die, Running, Placed, Applying, database
  <2>2. \A i \in Calls : pc'[i] = "orphan" => pc[i] = "orphan" \/ Running(i)
    BY <1>3 DEF Die, Running, Applying
  <2>3. \A i, j \in Calls :
          "overlap" \notin faults /\ result[j] = "ok" /\ Running(i) => i > j
    <3>1. ASSUME NEW i \in Calls, NEW j \in Calls, "overlap" \notin faults,
                 result[j] = "ok", Running(i)
          PROVE  i > j
      <4>1. i = n
        BY <3>1 DEF OrderInv
      <4>2. j <= n /\ j # i
        BY <1>0, <3>1 DEF IInv, StepInv, StepOf, Running
      <4> QED
        BY <1>0, <4>1, <4>2
    <3> QED
      BY <3>1
  <2>4. "tool" \notin faults' => "tool" \notin faults
    BY <1>3
  <2>5. "overlap" \notin faults' => "overlap" \notin faults
    BY <1>3
  <2> QED
    BY <2>1, <2>2, <2>3, <2>4, <2>5 DEF OrderInv
<1>4. ASSUME UNCHANGED <<n, pc, result, live, faults>> PROVE OrderInv'
  BY <1>4 DEF OrderInv, Running
<1>5. ASSUME NEW i \in Calls, Goroutine(i) \/ RetrieveFail(i) PROVE OrderInv'
  BY <1>4, <1>5 DEF Goroutine, ReadChunk, RetrieveDone, ClosePipe, RetrieveFail,
                    caller, database
<1>6. CASE Connect \/ UNCHANGED vars
  BY <1>4, <1>6 DEF Connect, vars, caller, database
<1>7. ASSUME NEW i \in Calls, Panic(i) PROVE OrderInv'
  BY <1>3, <1>7 DEF Panic, Note
<1>8. CASE Crash
  BY <1>3, <1>8 DEF Crash
<1>9. ASSUME NEW i \in Calls, Orphan(i) PROVE OrderInv'
  <2>1. /\ pc[i] = "orphan" /\ pc'[i] \in {"orphan", "dead"}
        /\ \A j \in Calls \ {i} : pc'[j] = pc[j]
        /\ UNCHANGED <<n, result>>
        /\ live' = live \/ live' = i
    BY <1>9 DEF Orphan, OrphanApplies, OrphanEnds, Applied, Accept, IInv, TypeOK,
                caller, database
  <2>2. /\ "tool" \notin faults' => "tool" \notin faults
        /\ "overlap" \notin faults' => "overlap" \notin faults
    BY <1>9 DEF Orphan, OrphanApplies, OrphanEnds, Applied, Accept, Note
  <2>3. \A j \in Calls :
          /\ Running(j)' => Running(j)
          /\ pc'[j] \in Placed => pc[j] \in Placed
          /\ pc'[j] = "orphan" => pc[j] = "orphan"
    BY <2>1 DEF Running, Placed
  <2>4. i <= n
    BY <1>0, <2>1
  <2> QED
    BY <1>0, <2>1, <2>2, <2>3, <2>4 DEF OrderInv
<1> QED
  BY <1>1, <1>2, <1>5, <1>6, <1>7, <1>8, <1>9, OwnOrder DEF Next

LEMMA OrderInvariance == Spec => []OrderInv
<1>1. Init => OrderInv
  BY DEF Init, OrderInv, Running, Placed
<1> QED
  BY <1>1, OrderStep, Invariance, PTL DEF Spec

\* Whichever calls fail, crash, overlap or are repeated: a Restore that
\* reported a success had put the whole stored backup in place, and if no two
\* calls overlap the database still comes from it or from a later one.
THEOREM SuccessWhole == Spec => []SuccessIsWhole
<1>1. IInv /\ OrderInv => SuccessIsWhole
  BY DEF IInv, TypeOK, OutcomeInv, PutInv, CopyInv, OrderInv, SuccessIsWhole
<1> QED
  BY <1>1, Invariance, OrderInvariance, PTL

=============================================================================
