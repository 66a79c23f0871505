------------------------------- MODULE TaskList ------------------------------
(***************************************************************************)
(* What a scheduler promises of its tasks: a list on which AddTask,        *)
(* RemoveTask and ListTasks act at one instant between call and return,    *)
(* and listings that stay what they were when they were taken              *)
(* (internal/scheduler/scheduler.go).                                      *)
(***************************************************************************)
EXTENDS Naturals, Sequences

CONSTANTS Clients, Names, Ids

VARIABLES
  list,     \* the tasks, in the order in which they were added
  asked,    \* the call of a client that has not taken effect
  listing,  \* the last listing of a client
  removed   \* answer to the last RemoveTask of a client

vars == <<list, asked, listing, removed>>

Tasks   == [name : Names, id : Ids]
Nothing == [op |-> "none"]
Calls   == [op : {"add"}, task : Tasks] \cup [op : {"remove"}, name : Names]
             \cup [op : {"list"}]

FirstNamed(s, n, i) ==
  /\ i \in 1..Len(s)
  /\ s[i].name = n
  /\ \A j \in 1..(i - 1) : s[j].name # n

Without(s, i) == SubSeq(s, 1, i - 1) \o SubSeq(s, i + 1, Len(s))

Init ==
  /\ list = <<>>
  /\ asked = [c \in Clients |-> Nothing]
  /\ listing = [c \in Clients |-> <<>>]
  /\ removed = [c \in Clients |-> FALSE]

\* The client gives up its last answer to the same question.
Ask(c) ==
  /\ asked[c] = Nothing
  /\ \E q \in Calls :
       /\ asked' = [asked EXCEPT ![c] = q]
       /\ listing' = [listing EXCEPT ![c] = IF q.op = "list" THEN <<>> ELSE @]
       /\ removed' = [removed EXCEPT ![c] = @ /\ q.op # "remove"]
  /\ UNCHANGED list

Served(c, op) == asked[c].op = op /\ asked' = [asked EXCEPT ![c] = Nothing]

Add(c) ==
  /\ Served(c, "add")
  /\ list' = Append(list, asked[c].task)
  /\ UNCHANGED <<listing, removed>>

Remove(c) ==
  /\ Served(c, "remove")
  /\ \E i \in 1..Len(list) :
       /\ FirstNamed(list, asked[c].name, i)
       /\ list' = Without(list, i)
  /\ removed' = [removed EXCEPT ![c] = TRUE]
  /\ UNCHANGED listing

RemoveNothing(c) ==
  /\ Served(c, "remove")
  /\ \A i \in 1..Len(list) : list[i].name # asked[c].name
  /\ removed' = [removed EXCEPT ![c] = FALSE]
  /\ UNCHANGED <<list, listing>>

List(c) ==
  /\ Served(c, "list")
  /\ listing' = [listing EXCEPT ![c] = list]
  /\ UNCHANGED <<list, removed>>

Next ==
  \E c \in Clients :
    Ask(c) \/ Add(c) \/ Remove(c) \/ RemoveNothing(c) \/ List(c)

Spec == Init /\ [][Next]_vars

=============================================================================
