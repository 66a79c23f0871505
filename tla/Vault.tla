------------------------------- MODULE Vault --------------------------------
(***************************************************************************)
(* What the interface Backuper (internal/backup/backup.go) promises of a   *)
(* set of backups, with every operation in one step: a backup gets a new   *)
(* identifier, is stored at most once, and disappears only when its        *)
(* deletion was asked for.                                                 *)
(***************************************************************************)
CONSTANT Ids

VARIABLES
  named,    \* identifiers given out so far
  pending,  \* backups whose storing has not ended
  present,  \* backups in storage
  asked     \* backups whose deletion is being asked for

vars == <<named, pending, present, asked>>

Init ==
  /\ named = {}
  /\ pending = {}
  /\ present = {}
  /\ asked = {}

Name(b) ==
  /\ b \notin named
  /\ named' = named \cup {b}
  /\ pending' = pending \cup {b}
  /\ UNCHANGED present

Add(b) ==
  /\ b \in pending
  /\ pending' = pending \ {b}
  /\ present' = present \cup {b}
  /\ UNCHANGED named

Abandon(b) ==
  /\ b \in pending
  /\ pending' = pending \ {b}
  /\ UNCHANGED <<named, present>>

Remove(b) ==
  /\ b \in present \cap asked
  /\ present' = present \ {b}
  /\ UNCHANGED <<named, pending>>

\* A caller asks for a deletion, or its request ends.
Ask == UNCHANGED <<named, pending, present>>

Next ==
  /\ asked' \subseteq Ids
  /\ \/ Ask
     \/ \E b \in Ids : Name(b) \/ Add(b) \/ Abandon(b) \/ Remove(b)

Spec == Init /\ [][Next]_vars

=============================================================================
