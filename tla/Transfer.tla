------------------------------ MODULE Transfer ------------------------------
(***************************************************************************)
(* What one call that moves a dump promises its caller: Backup (a database *)
(* into storage) and Restore (storage into a database) deliver the stream  *)
(* in order, may give up at any point, and may answer "ok" only when the   *)
(* whole stream has been delivered.  The pipe, the goroutine and the error *)
(* channel of the implementations are hidden.                              *)
(***************************************************************************)
EXTENDS Naturals

CONSTANT Total          \* length of the whole stream

VARIABLES delivered,    \* how much of the stream the destination holds
          status        \* "running", or the answer: "ok" or "err"

vars == <<delivered, status>>

Init == delivered = 0 /\ status = "running"

Deliver ==
  /\ status = "running"
  /\ delivered < Total
  /\ delivered' = delivered + 1
  /\ UNCHANGED status

Succeed ==
  /\ status = "running"
  /\ delivered = Total
  /\ status' = "ok"
  /\ UNCHANGED delivered

Fail ==
  /\ status = "running"
  /\ status' = "err"
  /\ UNCHANGED delivered

Next == Deliver \/ Succeed \/ Fail

Spec == Init /\ [][Next]_vars

\* The caller is always answered.
FairSpec == Spec /\ WF_vars(Next)

=============================================================================
