----------------------------- MODULE Restoration -----------------------------
(***************************************************************************)
(* What the calls of Restore promise of the one database that they share   *)
(* (interface Restorer, internal/restore/restore.go): it comes from one    *)
(* call at a time, of what that call's stream has delivered; a call that   *)
(* has answered has no effect on it any more; a call whose process dies    *)
(* may be adrift for a while, with its tool at work on what it was given,  *)
(* and is lost, without an answer, at last; and success is answered only   *)
(* by a call that has put the whole backup in place.  Pipes, goroutines,   *)
(* temporary files and handles are hidden.                                 *)
(***************************************************************************)
EXTENDS Naturals

CONSTANT Calls     \* numbers of the calls, 0 is none of them

VARIABLES
  how,      \* "sqlite": the file is replaced; "mongo": loaded from a whole
            \* stream; "tool": loaded from the stream as it comes
  stored,   \* length of the stored backup
  given,    \* how much of it each call's stream has brought
  over,     \* the calls whose stream has ended, whole or not
  source,   \* the call the database comes from, 0 before the first
  held,     \* how much of its stream each call has put in place
  answer,   \* of each call: "none", "ok", "err", "adrift" or "lost"
  void      \* a race has happened for which nothing is promised

calls == <<given, over, answer>>
db    == <<source, held>>
vars  == <<how, stored, calls, db, void>>

Init ==
  /\ how \in {"sqlite", "mongo", "tool"}
  /\ stored \in Nat
  /\ given = [i \in Calls |-> 0]
  /\ over = {}
  /\ source = 0
  /\ held = [i \in Calls |-> 0]
  /\ answer = [i \in Calls |-> "none"]
  /\ void = FALSE

Bring(i) ==
  /\ i \notin over
  /\ given[i] < stored
  /\ given' = [given EXCEPT ![i] = @ + 1]
  /\ UNCHANGED <<over, answer, db>>

End(i) ==
  /\ over' = over \cup {i}
  /\ UNCHANGED <<given, answer, db>>

\* The database file becomes, in one step, all that the stream has brought.
Replace(i) ==
  /\ how = "sqlite"
  /\ i \in over
  /\ answer[i] = "none"
  /\ source' = i
  /\ held' = [held EXCEPT ![i] = given[i]]
  /\ UNCHANGED calls

\* One more chunk is applied, or the end of the input is seen.
Apply(i) ==
  /\ how # "sqlite"
  /\ how = "mongo" => i \in over
  /\ answer[i] \in {"none", "adrift"}
  /\ source' = i
  /\ \/ held' = held /\ i \in over
     \/ held[i] < given[i] /\ held' = [held EXCEPT ![i] = @ + 1]
  /\ UNCHANGED calls

Reply(i, a) ==
  /\ answer[i] = "none"
  /\ answer' = [answer EXCEPT ![i] = a]
  /\ UNCHANGED <<given, over, db>>

Succeed(i) == i \in over /\ held[i] = stored /\ Reply(i, "ok")
Fail(i)    == Reply(i, "err")

\* The process dies: streams end, calls are lost or go adrift, the database
\* stays.  Only a tool goes adrift.
Crash ==
  /\ over \subseteq over'
  /\ over' \subseteq Calls
  /\ \E gone \in SUBSET {i \in Calls : answer[i] = "none"} :
       \E drifting \in IF how = "sqlite" THEN {{}} ELSE SUBSET gone :
         answer' = [i \in Calls |-> IF i \in drifting THEN "adrift"
                                   ELSE IF i \in gone THEN "lost"
                                   ELSE answer[i]]
  /\ UNCHANGED <<given, db>>

\* A tool adrift ends, and may be the last to touch the database.
Sink(i) ==
  /\ answer[i] = "adrift"
  /\ answer' = [answer EXCEPT ![i] = "lost"]
  /\ source' \in {source, i}
  /\ UNCHANGED <<given, over, held>>

Next ==
  /\ UNCHANGED <<how, stored>>
  /\ void => void'
  /\ \/ void'
     \/ \E i \in Calls :
          \/ Bring(i) \/ End(i) \/ Replace(i) \/ Apply(i) \/ Succeed(i)
          \/ Fail(i) \/ Sink(i)
     \/ Crash

Spec == Init /\ [][Next]_vars

=============================================================================
