------------------------- MODULE RestorationProofs -------------------------
(***************************************************************************)
(* RestoreRun implements Restoration.  Each step of a call is invisible, or*)
(* is one action of Restoration for this call (CallSeen, GoroutineSeen); a *)
(* crash is Crash (DieSeen), and a tool that outlives it applies or sinks  *)
(* (OrphanSeen).  This needs the inductive invariant IInv of               *)
(* RestoreRunProofs: a rename comes after the end of the stream with all of*)
(* it in the copy, and a chunk is applied only after it was read.          *)
(***************************************************************************)
EXTENDS RestoreRunProofs

USE RestoreAssumption DEF RestoreAssumption, Calls, NoFile, Mixed

\* What Restoration sees of the calls.
Visible == <<sent, StreamOver, Answers, live, InPlace>>

\* A race that has happened has happened.
LEMMA VoidStays == IInv /\ [Next]_vars /\ Void => Void'
<1> SUFFICES ASSUME IInv, [Next]_vars, Void PROVE Void'
  OBVIOUS
<1>1. faults \subseteq faults'
  <2>1. ASSUME NEW i \in Calls,
               Restore(i) \/ Caller(i) \/ Failure(i) \/ Goroutine(i)
                 \/ RetrieveFail(i)
        PROVE  faults \subseteq faults'
    <3> USE DEF Note
    <3>1. CASE Caller(i)
      BY <3>1 DEF Caller, Record, NoHandle, CheckHandle, CloseHandle,
           CloseHandleFail, SetNil, CreateTmp, CreateTmpFail, CopyChunk,
           CopyFail, CopyEOF, Rename, RenameFail, Reopen, ReopenFail,
           ApplyChunk, ApplyEOF, BufferChunk, BufferEOF, Sync, LoadChunk,
           LoadDone, WaitErr, ListTables, Query, ListTablesFail, Panic,
           Applied, Accept, OtherTool
    <3>2. CASE Failure(i)
      BY <3>2 DEF Failure, ApplyFail, BufferFail, LoadFail, CloseLosesChunk
    <3>3. CASE Restore(i) \/ Goroutine(i) \/ RetrieveFail(i)
      BY <3>3 DEF Restore, Goroutine, ReadChunk, RetrieveDone, ClosePipe,
           RetrieveFail
    <3> QED
      BY <2>1, <3>1, <3>2, <3>3
  <2>2. CASE Crash \/ Connect \/ UNCHANGED vars
    BY <2>2 DEF Crash, Connect, vars
  <2>3. ASSUME NEW i \in Calls, Orphan(i) PROVE faults \subseteq faults'
    BY <2>3 DEF Orphan, OrphanApplies, OrphanEnds, Applied, Accept, Note
  <2> QED
    BY <2>1, <2>2, <2>3 DEF Next
<1> QED
  BY <1>1 DEF Void

\* A step of the caller that shows nothing.
LEMMA SilentCall ==
  ASSUME TypeOK, NEW i \in Calls,
         {pc[i], pc'[i]} \cap {"dead", "orphan"} = {},
         \A j \in Calls \ {i} : pc'[j] = pc[j],
         UNCHANGED <<result, sent, put, live>>,
         prod' = prod \/ Take(i)
  PROVE  UNCHANGED Visible
<1>1. UNCHANGED StreamOver
  BY DEF StreamOver, Take, TypeOK
<1>2. UNCHANGED Answers
  BY DEF Answers
<1>3. UNCHANGED InPlace
  BY DEF InPlace, Loaded
<1> QED
  BY <1>1, <1>2, <1>3 DEF Visible

LEMMA GoToIsSilent ==
  ASSUME TypeOK, NEW i \in Calls, NEW from, NEW to, GoTo(i, from, to),
         {from, to} \cap {"dead", "orphan"} = {}, UNCHANGED <<sent, put, live>>,
         prod' = prod \/ Take(i)
  PROVE  UNCHANGED Visible
<1>1. /\ {pc[i], pc'[i]} \cap {"dead", "orphan"} = {}
      /\ \A j \in Calls \ {i} : pc'[j] = pc[j]
      /\ UNCHANGED result
  BY DEF GoTo, TypeOK
<1> QED
  BY <1>1, SilentCall

\* A call answers.
LEMMA ReturnReplies ==
  ASSUME TypeOK, StepInv, NEW i \in Calls, Running(i), NEW r,
         Return(i, r), UNCHANGED <<sent, put, live>>, prod' = prod \/ Take(i)
  PROVE  R!Reply(i, r)
<1>1. UNCHANGED <<StreamOver, InPlace>>
  BY DEF StreamOver, Take, TypeOK, InPlace, Loaded
<1>2. Answers[i] = "none"
  BY DEF Answers, Running, StepInv, StepOf
<1>3. Answers' = [Answers EXCEPT ![i] = r]
  BY DEF Answers, Return, TypeOK
<1> QED
  BY <1>1, <1>2, <1>3 DEF R!Reply, R!db

\* What the steps of a call and of its goroutine look like from outside.
Seen(i) ==
  \/ UNCHANGED Visible
  \/ R!Bring(i) \/ R!End(i) \/ R!Replace(i) \/ R!Apply(i) \/ R!Succeed(i)
  \/ R!Fail(i) \/ R!Sink(i)

LEMMA GoroutineSeen ==
  ASSUME IInv, NEW i \in Calls, Goroutine(i) \/ RetrieveFail(i)
  PROVE  Seen(i)
<1> USE DEF IInv, TypeOK
<1>1. CASE ReadChunk(i)
  <2>1. UNCHANGED StreamOver /\ i \notin StreamOver
    BY <1>1 DEF ReadChunk, StreamOver
  <2>2. UNCHANGED <<Answers, InPlace>>
    BY <1>1 DEF ReadChunk, Answers, InPlace, Loaded, caller, database
  <2> QED
    BY <1>1, <2>1, <2>2 DEF Seen, R!Bring, R!db, ReadChunk, database
<1>2. CASE RetrieveDone(i) \/ RetrieveFail(i)
  <2>1. StreamOver' = StreamOver \cup {i}
    <3>1. prod[i] = "read" /\ prod' = [prod EXCEPT ![i] = "close"]
      BY <1>2 DEF RetrieveDone, RetrieveFail
    <3>2. prod'[i] = "close" /\ \A j \in Calls \ {i} : prod'[j] = prod[j]
      BY <3>1
    <3> QED
      BY <3>1, <3>2 DEF StreamOver
  <2>2. UNCHANGED <<Answers, InPlace, sent, live>>
    <3>1. UNCHANGED <<pc, result, put, sent, live>>
      BY <1>2 DEF RetrieveDone, RetrieveFail, caller, database
    <3> QED
      BY <3>1 DEF Answers, InPlace, Loaded
  <2> QED
    BY <2>1, <2>2 DEF Seen, R!End, R!db
<1>3. CASE ClosePipe(i)
  <2>1. UNCHANGED StreamOver
    BY <1>3 DEF ClosePipe, StreamOver
  <2> QED
    BY <1>3, <2>1 DEF Seen, Visible, ClosePipe, Answers, InPlace, Loaded,
                      caller, database
<1> QED
  BY <1>1, <1>2, <1>3 DEF Goroutine

LEMMA PutInPlace ==
  ASSUME TypeOK, NEW i \in Calls, NEW v \in 0..Total,
         put' = [put EXCEPT ![i] = v]
  PROVE  InPlace' = [InPlace EXCEPT ![i] = v]
<1>1. put'[i] = v /\ v # NoFile
  BY DEF TypeOK
<1>2. Loaded(i)' = v
  BY <1>1 DEF Loaded
<1>3. ASSUME NEW j \in Calls, j # i PROVE Loaded(j)' = Loaded(j)
  BY <1>3 DEF Loaded, TypeOK
<1> QED
  BY <1>2, <1>3, Zenon DEF InPlace

\* The steps that reach the database.
LEMMA ReplaceSeen ==
  ASSUME IInv, NEW i \in Calls, Rename(i), ~Void
  PROVE  R!Replace(i)
<1> USE DEF IInv, TypeOK
<1>1. /\ pc[i] = "rename" /\ kind = "sqlite" /\ prod[i] = "exited"
      /\ tmp = sent[i]
  BY DEF Rename, GoTo, StepInv, StepOf, Section, OutcomeInv, Ended, CopyInv, Void
<1>2. /\ put' = [put EXCEPT ![i] = sent[i]] /\ live' = i
      /\ UNCHANGED <<sent, prod, result>>
      /\ pc' = [pc EXCEPT ![i] = "reopen"]
  BY <1>1 DEF Rename, stream, GoTo
<1>3. i \in StreamOver /\ UNCHANGED StreamOver
  BY <1>1, <1>2 DEF StreamOver
<1>4. InPlace' = [InPlace EXCEPT ![i] = sent[i]]
  <2>1. sent[i] \in 0..Total
    OBVIOUS
  <2> QED
    BY <1>2, <2>1, PutInPlace
<1>5. Answers[i] = "none" /\ UNCHANGED Answers
  BY <1>1, <1>2 DEF Answers, StepInv, StepOf
<1> QED
  BY <1>1, <1>2, <1>3, <1>4, <1>5 DEF R!Replace, R!calls

LEMMA ApplySeen ==
  ASSUME IInv, NEW i \in Calls,
         ApplyChunk(i) \/ ApplyEOF(i) \/ LoadChunk(i) \/ LoadDone(i)
  PROVE  R!Apply(i)
<1> USE DEF IInv, TypeOK
<1>1. /\ pc[i] \in {"apply", "load"} /\ kind # "sqlite"
      /\ pc[i] = "load" => prod[i] = "exited"
      /\ kind = "mongo" => pc[i] = "load"
  BY DEF ApplyChunk, ApplyEOF, LoadChunk, LoadDone, GoTo, StepInv, StepOf,
         OutcomeInv, Ended
<1>2. /\ live' = i /\ UNCHANGED <<sent, result>>
      /\ pc' \in {pc, [pc EXCEPT ![i] = "wait"]}
      /\ prod' = prod \/ Take(i)
  BY DEF ApplyChunk, ApplyEOF, LoadChunk, LoadDone, GoTo, Applied, Accept,
         stream, Take
<1>3. UNCHANGED StreamOver
  BY <1>2, SMTT(30) DEF StreamOver, Take
<1>4. Answers[i] = "none" /\ UNCHANGED Answers
  <2>1. {pc[i], pc'[i]} \cap {"dead", "orphan"} = {}
        /\ \A j \in Calls \ {i} : pc'[j] = pc[j]
    BY <1>1, <1>2
  <2>2. Answers[i] = "none"
    BY <1>1 DEF Answers, StepInv, StepOf
  <2>3. \A j \in Calls : \A p \in {"dead", "orphan"} : pc'[j] = p <=> pc[j] = p
    BY <2>1
  <2>4. UNCHANGED Answers
    BY <1>2, <2>3 DEF Answers
  <2> QED
    BY <2>2, <2>4
<1>5. CASE ApplyChunk(i) \/ LoadChunk(i)
  <2>1. Loaded(i) < sent[i]
    BY <1>5 DEF ApplyChunk, LoadChunk, GoTo, Take, Taken, PutInv, OutcomeInv
  <2>2. put' = [put EXCEPT ![i] = Loaded(i) + 1]
    BY <1>5 DEF ApplyChunk, LoadChunk, Applied, Loaded
  <2>3. InPlace[i] = Loaded(i) /\ Loaded(i) \in Nat
    BY DEF InPlace, Loaded
  <2>4. InPlace' = [InPlace EXCEPT ![i] = Loaded(i) + 1]
    <3>1. Loaded(i) + 1 \in 0..Total
      BY <2>1, <2>3
    <3> HIDE DEF Loaded, TypeOK
    <3> QED
      BY <2>2, <3>1, PutInPlace DEF IInv
  <2> QED
    BY <1>1, <1>2, <1>3, <1>4, <2>1, <2>3, <2>4
       DEF R!Apply, R!calls, StreamOver
<1>6. CASE ApplyEOF(i) \/ LoadDone(i)
  <2>1. UNCHANGED InPlace
    BY <1>6 DEF ApplyEOF, LoadDone, Accept, InPlace, Loaded
  <2>2. i \in StreamOver
    BY <1>1, <1>6 DEF ApplyEOF, LoadDone, GoTo, StreamOver
  <2> QED
    BY <1>1, <1>2, <1>3, <1>4, <2>1, <2>2 DEF R!Apply, R!calls
<1> QED
  BY <1>5, <1>6

LEMMA CallSeen ==
  ASSUME IInv, NEW i \in Calls, Caller(i) \/ Failure(i), ~Void', ~Panic(i)
  PROVE  Seen(i)
<1> USE DEF IInv
<1>1. CASE Rename(i)
  <2>1. ~Void
    BY <1>1 DEF Void, Rename
  <2> QED
    BY <1>1, <2>1, ReplaceSeen DEF Seen
<1>2. CASE ApplyChunk(i) \/ ApplyEOF(i) \/ LoadChunk(i) \/ LoadDone(i)
  BY <1>2, ApplySeen DEF Seen
<1>3. CASE Record(i)
  <2>1. /\ pc[i] = "record" /\ prod[i] = "none"
        /\ prod' = [prod EXCEPT ![i] = "read"]
        /\ pc' = [pc EXCEPT ![i] = Entry[kind]]
        /\ UNCHANGED <<sent, live, put, result>>
    BY <1>3 DEF Record, StepInv, StepOf, database
  <2>2. Entry[kind] \notin {"dead", "orphan"}
    BY DEF Entry, TypeOK
  <2>3. UNCHANGED <<Answers, InPlace>>
    BY <2>1, <2>2 DEF Answers, InPlace, Loaded, TypeOK
  <2>4. UNCHANGED StreamOver
    BY <2>1 DEF StreamOver, TypeOK
  <2> QED
    BY <2>1, <2>3, <2>4 DEF Seen, Visible
<1>4. CASE \/ CheckHandle(i) \/ CloseHandle(i) \/ SetNil(i) \/ CreateTmp(i)
           \/ CopyChunk(i) \/ CopyEOF(i) \/ Reopen(i) \/ CloseLosesChunk(i)
  <2> USE DEF Seen, stream, database, Take
  <2>1. CASE CheckHandle(i)
    BY <2>1, GoToIsSilent DEF CheckHandle
  <2>2. CASE CloseHandle(i)
    BY <2>2, GoToIsSilent DEF CloseHandle
  <2>3. CASE SetNil(i)
    BY <2>3, GoToIsSilent DEF SetNil
  <2>4. CASE CreateTmp(i)
    BY <2>4, GoToIsSilent DEF CreateTmp
  <2>5. CASE CopyChunk(i)
    BY <2>5, GoToIsSilent DEF CopyChunk
  <2>6. CASE CopyEOF(i)
    BY <2>6, GoToIsSilent DEF CopyEOF
  <2>7. CASE Reopen(i)
    BY <2>7, GoToIsSilent DEF Reopen
  <2>8. CASE CloseLosesChunk(i)
    BY <2>8, GoToIsSilent DEF CloseLosesChunk
  <2> QED
    BY <1>4, <2>1, <2>2, <2>3, <2>4, <2>5, <2>6, <2>7, <2>8
<1>5. CASE BufferChunk(i) \/ BufferEOF(i) \/ Sync(i) \/ ListTables(i)
  <2> USE DEF Seen, stream, database, Take
  <2>1. CASE BufferChunk(i)
    BY <2>1, GoToIsSilent DEF BufferChunk
  <2>2. CASE BufferEOF(i)
    BY <2>2, GoToIsSilent DEF BufferEOF
  <2>3. CASE Sync(i)
    BY <2>3, GoToIsSilent DEF Sync
  <2>4. CASE ListTables(i)
    BY <2>4, GoToIsSilent DEF ListTables
  <2> QED
    BY <1>5, <2>1, <2>2, <2>3, <2>4
<1>6. CASE WaitErr(i)
  <2>1. UNCHANGED <<sent, put, live, prod>> /\ pc[i] = "wait"
    BY <1>6 DEF WaitErr, database
  <2>2. CASE GoTo(i, "wait", "listTables")
    BY <2>1, <2>2, GoToIsSilent DEF Seen
  <2>3. CASE Return(i, "err")
    BY <2>1, <2>3, ReturnReplies DEF Seen, R!Fail, Running
  <2> QED
    BY <1>6, <2>2, <2>3 DEF WaitErr
<1>7. CASE Query(i)
  <2>1. /\ pc[i] = "query" /\ Return(i, "ok")
        /\ UNCHANGED <<sent, put, live, prod, faults>>
    BY <1>7 DEF Query, stream, database
  <2>2. R!Reply(i, "ok")
    BY <2>1, ReturnReplies DEF Running
  <2>3. prod[i] = "exited" /\ sent[i] = stored
    BY <2>1 DEF OutcomeInv, Ended
  <2>4. put[i] = sent[i]
    BY <2>1 DEF PutInv, CopyInv, Void, TypeOK
  <2>5. InPlace[i] = stored
    BY <2>3, <2>4 DEF InPlace, Loaded, TypeOK
  <2>6. i \in StreamOver
    BY <2>3 DEF StreamOver
  <2> QED
    BY <2>2, <2>5, <2>6 DEF Seen, R!Succeed
<1>8. CASE \/ NoHandle(i) \/ CloseHandleFail(i) \/ CreateTmpFail(i)
           \/ CopyFail(i) \/ RenameFail(i) \/ ReopenFail(i)
           \/ ListTablesFail(i) \/ ApplyFail(i) \/ BufferFail(i) \/ LoadFail(i)
  <2>1. /\ Running(i) /\ Return(i, "err") /\ UNCHANGED <<sent, put, live>>
        /\ prod' = prod \/ Take(i)
    BY <1>8 DEF NoHandle, CloseHandleFail, CreateTmpFail, CopyFail, RenameFail,
       ReopenFail, ListTablesFail, ApplyFail, BufferFail, LoadFail, GoTo,
       Running, stream, database, Take
  <2> QED
    BY <2>1, ReturnReplies DEF Seen, R!Fail
<1> QED
  BY <1>1, <1>2, <1>3, <1>4, <1>5, <1>6, <1>7, <1>8 DEF Caller, Failure

\* A tool that outlives its process applies, or sinks.
LEMMA OrphanSeen ==
  ASSUME IInv, NEW i \in Calls, Orphan(i)
  PROVE  R!Apply(i) \/ R!Sink(i)
<1> USE DEF IInv
<1>1. OrphanShape(i)
  BY OrphanChanges
<1>2. /\ pc[i] = "orphan" /\ kind # "sqlite" /\ result[i] = "none"
      /\ kind = "mongo" => prod[i] = "killed"
      /\ UNCHANGED <<sent, prod, result>>
  BY <1>1 DEF OrphanShape, StepInv, StepOf, OutcomeInv
<1>3. UNCHANGED StreamOver /\ (kind = "mongo" => i \in StreamOver)
  BY <1>2 DEF StreamOver
<1>4. Answers[i] = "adrift"
  BY <1>2 DEF Answers
<1>5. \A j \in Calls \ {i} : pc'[j] = pc[j] /\ Loaded(j)' = Loaded(j)
  BY <1>1 DEF OrphanShape, Loaded
<1>6. CASE OrphanApplies(i)
  <2>1. UNCHANGED pc /\ live' = i /\ Loaded(i) < sent[i]
    BY <1>6 DEF OrphanApplies, Applied, caller
  <2>2. Loaded(i)' = Loaded(i) + 1
    <3>1. pc'[i] = "orphan"
      BY <1>2, <2>1
    <3> QED
      BY <1>1, <3>1 DEF OrphanShape
  <2>3. UNCHANGED Answers
    BY <1>2, <2>1 DEF Answers
  <2>4. InPlace' = [InPlace EXCEPT ![i] = Loaded(i) + 1] /\ InPlace[i] = Loaded(i)
    BY <1>5, <2>2, Zenon DEF InPlace
  <2> QED
    BY <1>2, <1>3, <1>4, <2>1, <2>3, <2>4 DEF R!Apply, R!calls
<1>7. CASE OrphanEnds(i)
  <2>1. pc' = [pc EXCEPT ![i] = "dead"]
    BY <1>7 DEF OrphanEnds
  <2>2. Answers' = [Answers EXCEPT ![i] = "lost"]
    <3>1. pc'[i] = "dead" /\ \A j \in Calls \ {i} : pc'[j] = pc[j]
      BY <2>1 DEF TypeOK
    <3>2. Answers'[i] = "lost"
      BY <1>2, <3>1 DEF Answers
    <3>3. \A j \in Calls \ {i} : Answers'[j] = Answers[j]
      BY <1>2, <3>1 DEF Answers
    <3> QED
      BY <3>2, <3>3 DEF Answers
  <2>3. Loaded(i)' = Loaded(i) /\ live' \in {live, i}
    <3>1. pc'[i] # "orphan"
      BY <2>1 DEF TypeOK
    <3> QED
      BY <1>1, <3>1 DEF OrphanShape
  <2>4. UNCHANGED InPlace
    BY <1>5, <2>3 DEF InPlace
  <2> QED
    BY <1>2, <1>3, <1>4, <2>2, <2>3, <2>4 DEF R!Sink
<1> QED
  BY <1>6, <1>7 DEF Orphan

\* A crash loses the calls that run, or sets them adrift.
LEMMA DieSeen ==
  ASSUME IInv, Die
  PROVE  R!Crash
<1> USE DEF IInv
<1>1. StreamOver \subseteq StreamOver' /\ StreamOver' \subseteq Calls
  BY DEF Die, StreamOver, TypeOK
<1>2. UNCHANGED <<sent, live, InPlace>>
  BY DEF Die, InPlace, Loaded, database
<1> DEFINE gone     == {i \in Calls : Running(i)}
           drifting == {i \in Calls : pc[i] \in Applying}
<1>3. \A i \in gone : Answers[i] = "none"
  BY DEF StepInv, StepOf, Answers, Running
<1>4. drifting \subseteq gone /\ (kind = "sqlite" => drifting = {})
  BY DEF Running, Applying, StepInv, StepOf
<1>5. Answers' = [i \in Calls |-> IF i \in drifting THEN "adrift"
                               ELSE IF i \in gone THEN "lost" ELSE Answers[i]]
  <2>1. ASSUME NEW i \in Calls
        PROVE  Answers'[i] = IF i \in drifting THEN "adrift"
                             ELSE IF i \in gone THEN "lost" ELSE Answers[i]
    <3>1. /\ result'[i] = result[i]
          /\ pc'[i] = IF pc[i] \in Applying THEN "orphan"
                      ELSE IF pc[i] \in {"none", "orphan"} THEN pc[i] ELSE "dead"
      BY DEF Die
    <3>2. /\ pc[i] = "done" => result[i] # "none"
          /\ result[i] # "none" => pc[i] \in {"done", "dead"}
      BY DEF StepInv, StepOf
    <3>3. Answers'[i] = IF result'[i] # "none" THEN result'[i]
                        ELSE IF pc'[i] = "dead" THEN "lost"
                        ELSE IF pc'[i] = "orphan" THEN "adrift" ELSE "none"
      BY DEF Answers
    <3>4. Answers[i] = IF result[i] # "none" THEN result[i]
                       ELSE IF pc[i] = "dead" THEN "lost"
                       ELSE IF pc[i] = "orphan" THEN "adrift" ELSE "none"
      BY DEF Answers
    <3> QED
      BY <3>1, <3>2, <3>3, <3>4 DEF Running, Applying
  <2> HIDE DEF gone, drifting
  <2> QED
    BY <2>1, Zenon DEF Answers
<1>6. gone \in SUBSET {i \in Calls : Answers[i] = "none"}
  BY <1>3
<1>7. drifting \in IF kind = "sqlite" THEN {{}} ELSE SUBSET gone
  BY <1>4
<1> HIDE DEF gone, drifting
<1> QED
  BY <1>1, <1>2, <1>5, <1>6, <1>7 DEF R!Crash, R!db

\* Every step of the calls, whatever they do to each other, is a step of
\* Restoration or shows nothing.
LEMMA RestorationStep ==
  ASSUME IInv, [Next]_vars
  PROVE  [R!Next]_(R!vars)
<1>1. UNCHANGED <<kind, stored>>
  BY ModeKept
<1>2. Void => Void'
  BY VoidStays
<1>3. CASE Void'
  BY <1>1, <1>2, <1>3 DEF R!Next
<1>4. CASE ~Void'
  <2>1. Void' = Void
    BY <1>2, <1>4 DEF Void
  <2>2. CASE UNCHANGED Visible
    BY <1>1, <2>1, <2>2 DEF Visible, R!vars, R!calls, R!db
  <2>3. ASSUME NEW i \in Calls, Seen(i)
        PROVE  [R!Next]_(R!vars)
    BY <1>1, <1>2, <2>2, <2>3 DEF Seen, R!Next
  <2>4. ASSUME Die PROVE [R!Next]_(R!vars)
    BY <1>1, <1>2, <2>4, DieSeen DEF R!Next
  <2>5. ASSUME NEW i \in Calls, Restore(i) PROVE UNCHANGED Visible
    <3>1. /\ pc[i] = "none" /\ pc' = [pc EXCEPT ![i] = "record"]
          /\ UNCHANGED <<result, sent, put, live, prod>>
      BY <2>5 DEF Restore, IInv, StepInv, StepOf, TypeOK, stream, database
    <3>2. /\ {pc[i], pc'[i]} \cap {"dead", "orphan"} = {}
          /\ \A j \in Calls \ {i} : pc'[j] = pc[j]
      BY <3>1 DEF IInv, TypeOK
    <3> QED
      BY <3>1, <3>2, SilentCall DEF IInv
  <2>6. CASE Connect \/ UNCHANGED vars
    BY <2>2, <2>6 DEF Connect, vars, caller, stream, database, Visible,
                      StreamOver, Answers, InPlace, Loaded
  <2>7. ASSUME NEW i \in Calls, Panic(i) PROVE Die
    BY <2>7 DEF Panic
  <2>8. ASSUME NEW i \in Calls, Orphan(i) PROVE Seen(i)
    BY <2>8, OrphanSeen DEF Seen
  <2> QED
    BY <1>4, <2>2, <2>3, <2>4, <2>5, <2>6, <2>7, <2>8, CallSeen, GoroutineSeen
       DEF Next, Crash
<1> QED
  BY <1>3, <1>4

\* The calls keep the promise of Restoration whatever fails, crashes or overlaps,
\* up to a race or a dropped error that Void names (selective.go 34-110,
\* sqlite.go 88-123, mongodb.go 77-125).
THEOREM RestoreImplementsRestoration == Spec => ImplementsRestoration
<1>1. Init => R!Init
  BY DEF Init, R!Init, StreamOver, InPlace, Answers, Void, Loaded
<1>2. IInv /\ [Next]_vars => [R!Next]_(R!vars)
  BY RestorationStep
<1> QED
  BY <1>1, <1>2, Invariance, PTL DEF Spec, ImplementsRestoration, R!Spec

\* A call that has answered is done with the database, although its goroutine
\* may live on, and so is one that was lost in a crash once its tool, if it had
\* one at work, has ended: what it put in place stays so, and the database never
\* again becomes its own (selective.go 66-115, mongodb.go 96-125).
AnsweredIsDone ==
  [][\A i \in Calls : Answers[i] \notin {"none", "adrift"} /\ ~Void' =>
       InPlace'[i] = InPlace[i] /\ (live' = i => live = i)]_vars

\* No call of Restore has a late effect, but for the tool of one whose process
\* has died.
THEOREM NoLateEffect == Spec => AnsweredIsDone
<1>1. ASSUME IInv, [R!Next]_(R!vars), ~Void', NEW i \in Calls,
             Answers[i] \notin {"none", "adrift"}
      PROVE  InPlace'[i] = InPlace[i] /\ (live' = i => live = i)
  <2>1. DOMAIN InPlace = Calls
    BY DEF InPlace
  <2> HIDE DEF InPlace, Answers, Void, StreamOver
  <2>2. ASSUME NEW j \in Calls, R!Replace(j) \/ R!Apply(j)
        PROVE  InPlace'[i] = InPlace[i] /\ (live' = i => live = i)
    <3>1. j # i
      BY <1>1, <2>2 DEF R!Replace, R!Apply
    <3> QED
      BY <2>1, <2>2, <3>1 DEF R!Replace, R!Apply
  <2>3. CASE UNCHANGED R!db
    BY <2>3 DEF R!db
  <2>4. ASSUME NEW j \in Calls, R!Sink(j)
        PROVE  InPlace'[i] = InPlace[i] /\ (live' = i => live = i)
    BY <1>1, <2>4 DEF R!Sink
  <2> QED
    BY <1>1, <2>2, <2>3, <2>4 DEF R!Next, R!vars, R!Bring, R!End, R!Succeed, R!Fail,
                                  R!Reply, R!Crash
<1>2. IInv /\ [R!Next]_(R!vars) =>
        \A i \in Calls : Answers[i] \notin {"none", "adrift"} /\ ~Void' =>
          InPlace'[i] = InPlace[i] /\ (live' = i => live = i)
  BY <1>1
<1> QED
  BY <1>2, Invariance, RestorationStep, PTL DEF Spec, AnsweredIsDone

=============================================================================
