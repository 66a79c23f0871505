------------------------------ MODULE Scheduler ------------------------------
(***************************************************************************)
(* The scheduler (internal/scheduler/scheduler.go): a slice of tasks under *)
(* a mutex, used by several goroutines, and the flag and the context of    *)
(* Start and Stop.                                                         *)
(*                                                                         *)
(* The slice is modelled with the array behind it, since RemoveTask moves  *)
(* elements inside that array and AddTask may write into it, while         *)
(* ListTasks hands out a slice that its caller keeps.  Every access to the *)
(* shared fields is a step of its own, so that only the mutex keeps the    *)
(* calls apart.  A task is a pointer; two tasks may have one name.         *)
(*                                                                         *)
(* LoadSchedules and parseCronExpression change nothing and answer an      *)
(* error; the runner is never called.  Bound: MaxLen tasks at a time.      *)
(*                                                                         *)
(* A definition named Action_Fault is Action with one plausible bug; no    *)
(* specification uses it.                                                  *)
(***************************************************************************)
EXTENDS Naturals, Sequences

CONSTANTS
  Clients,  \* goroutines that use the scheduler,
  Adders, Removers, Listers, Switchers,  \* and the calls each may make
  Names,    \* names of tasks
  Ids,      \* tells apart tasks of one name
  MaxLen    \* bound on the number of tasks

ASSUME SchedulerAssumption ==
  /\ MaxLen \in Nat
  /\ Clients \cap Nat = {}

VARIABLES
  arrays,    \* arrays behind slices: 0, 1, 2, 4, ... by capacity, and the
             \* one that a client's ListTasks has made
  tasks,     \* the field tasks: an array, and a length
  mutex,     \* who holds mu; Free if nobody does
  running,   \* the field running
  ctx,       \* the context: "live" or "cancelled"
  starts,    \* history: Starts that have set running since it was last unset
  pc,        \* next step of a client's call; "idle" between calls
  asked,     \* its operation, with the argument
  at,        \* index that RemoveTask has found
  next,      \* slice that it is about to store in tasks
  listing,   \* slice that its last ListTasks returned
  removed    \* answer to its last RemoveTask

field  == <<tasks, running, ctx, starts>>
answer == <<listing, removed>>
vars   == <<arrays, field, mutex, pc, asked, at, next, answer>>

Free == 0
Nil  == [name |-> "nil"]

Slice(s) == SubSeq(arrays[s.arr], 1, s.len)

Empty == [arr |-> 0, len |-> 0]

NoCall == [op |-> "none"]

Switch == [op : {"start", "stop"}]

\* The list as module TaskList has it: a call takes effect when it has changed
\* the array, or has copied it.
Acting(c) == pc[c] \in {"lock", "append", "find", "shift", "make", "copy"}

Pending == [c \in Clients |->
              IF Acting(c) /\ asked[c] \notin Switch THEN asked[c] ELSE NoCall]

Shown == IF \E c \in Clients : pc[c] = "store"
         THEN Slice(next[CHOOSE c \in Clients : pc[c] = "store"])
         ELSE Slice(tasks)

Listings == [c \in Clients |-> Slice(listing[c])]

L == INSTANCE TaskList WITH list <- Shown, asked <- Pending, listing <- Listings

Init ==
  /\ arrays = [a \in (0..(2 * MaxLen)) \cup Clients |-> <<>>]
  /\ tasks = Empty
  /\ mutex = Free
  /\ running = FALSE
  /\ ctx = "live"
  /\ starts = 0
  /\ pc = [c \in Clients |-> "idle"]
  /\ asked = [c \in Clients |-> NoCall]
  /\ at = [c \in Clients |-> 0]
  /\ next = [c \in Clients |-> Empty]
  /\ listing = [c \in Clients |-> Empty]
  /\ removed = [c \in Clients |-> FALSE]

GoTo(c, from, to) ==
  /\ pc[c] = from
  /\ pc' = [pc EXCEPT ![c] = to]

-----------------------------------------------------------------------------
(* A call, and the mutex.                                                  *)

Callers(op) ==
  CASE op = "add"    -> Adders
    [] op = "remove" -> Removers
    [] op = "list"   -> Listers
    [] OTHER         -> Switchers

Call(c) ==
  /\ GoTo(c, "idle", "lock")
  /\ \E q \in L!Calls \cup Switch :
       /\ c \in Callers(q.op)
       /\ asked' = [asked EXCEPT ![c] = q]
       /\ listing' = [listing EXCEPT ![c] = IF q.op = "list" THEN Empty ELSE @]
       /\ removed' = [removed EXCEPT ![c] = @ /\ q.op # "remove"]
  /\ UNCHANGED <<arrays, field, mutex, at, next>>

First == [add |-> "append", remove |-> "find", list |-> "make",
          start |-> "start", stop |-> "stop"]

Lock_Dropped(c) ==
  /\ GoTo(c, "lock", First[asked[c].op])
  /\ mutex' = c
  /\ UNCHANGED <<arrays, field, asked, at, next, answer>>

Lock(c) ==
  /\ mutex = Free
  /\ mutex' = c
  /\ GoTo(c, "lock", First[asked[c].op])
  /\ asked[c].op = "add" => tasks.len < MaxLen
  /\ UNCHANGED <<arrays, field, asked, at, next, answer>>

\* The deferred Unlock, or that of Start; the call returns.
Unlock(c) ==
  /\ GoTo(c, "unlock", "idle")
  /\ mutex' = Free
  /\ asked' = [asked EXCEPT ![c] = NoCall]
  /\ at' = [at EXCEPT ![c] = 0]
  /\ next' = [next EXCEPT ![c] = Empty]
  /\ UNCHANGED <<arrays, field, answer>>

-----------------------------------------------------------------------------
(* AddTask and RemoveTask.                                                 *)

Capacity(s) == Len(arrays[s.arr])

\* append writes behind the slice if its array has room ...
AppendInPlace_NoRoom(c) ==
  /\ GoTo(c, "append", "store")
  /\ arrays' = [arrays EXCEPT ![tasks.arr][tasks.len + 1] = asked[c].task]
  /\ next' = [next EXCEPT ![c] = [tasks EXCEPT !.len = @ + 1]]
  /\ UNCHANGED <<field, mutex, asked, at, answer>>

AppendInPlace(c) ==
  /\ GoTo(c, "append", "store")
  /\ tasks.len < Capacity(tasks)
  /\ arrays' = [arrays EXCEPT ![tasks.arr][tasks.len + 1] = asked[c].task]
  /\ next' = [next EXCEPT ![c] = [tasks EXCEPT !.len = @ + 1]]
  /\ UNCHANGED <<field, mutex, asked, at, answer>>

\* ... and copies it to one of twice the size otherwise.
Grown(n) == IF n = 0 THEN 1 ELSE 2 * n

AppendGrows(c) ==
  /\ GoTo(c, "append", "store")
  /\ tasks.len = Capacity(tasks)
  /\ LET n   == tasks.len
         cap == Grown(n)
     IN /\ arrays' = [arrays EXCEPT ![cap] =
             [i \in 1..cap |-> IF i <= n THEN arrays[tasks.arr][i]
                               ELSE IF i = n + 1 THEN asked[c].task ELSE Nil]]
        /\ next' = [next EXCEPT ![c] = [arr |-> cap, len |-> n + 1]]
  /\ UNCHANGED <<field, mutex, asked, at, answer>>

\* An array that no slice refers to any longer is collected.
Store(c) ==
  /\ GoTo(c, "store", "unlock")
  /\ tasks' = next[c]
  /\ arrays' = [arrays EXCEPT ![tasks.arr] =
                  IF next[c].arr # tasks.arr
                     /\ \A d \in Clients : listing[d].arr # tasks.arr
                  THEN <<>> ELSE @]
  /\ UNCHANGED <<running, ctx, starts, mutex, asked, at, next, answer>>

Find(c) ==
  /\ GoTo(c, "find", "shift")
  /\ \E i \in 1..tasks.len :
       /\ L!FirstNamed(Slice(tasks), asked[c].name, i)
       /\ at' = [at EXCEPT ![c] = i]
  /\ UNCHANGED <<arrays, field, mutex, asked, next, answer>>

FindNothing(c) ==
  /\ GoTo(c, "find", "unlock")
  /\ \A i \in 1..tasks.len : Slice(tasks)[i].name # asked[c].name
  /\ removed' = [removed EXCEPT ![c] = FALSE]
  /\ UNCHANGED <<arrays, field, mutex, asked, at, next, listing>>

Shift_SwapsLast(c) ==
  /\ GoTo(c, "shift", "store")
  /\ arrays' = [arrays EXCEPT ![tasks.arr][at[c]] = arrays[tasks.arr][tasks.len]]
  /\ next' = [next EXCEPT ![c] = [tasks EXCEPT !.len = @ - 1]]
  /\ removed' = [removed EXCEPT ![c] = TRUE]
  /\ UNCHANGED <<field, mutex, asked, at, listing>>

\* append(s.tasks[:i], s.tasks[i+1:]...) moves the rest down in its array.
Shift(c) ==
  /\ GoTo(c, "shift", "store")
  /\ arrays' = [arrays EXCEPT ![tasks.arr] =
                  [i \in DOMAIN @ |-> IF i \in at[c]..(tasks.len - 1)
                                      THEN @[i + 1] ELSE @[i]]]
  /\ next' = [next EXCEPT ![c] = [tasks EXCEPT !.len = @ - 1]]
  /\ removed' = [removed EXCEPT ![c] = TRUE]
  /\ UNCHANGED <<field, mutex, asked, at, listing>>

-----------------------------------------------------------------------------
(* ListTasks.                                                              *)

Make(c) ==
  /\ GoTo(c, "make", "copy")
  /\ arrays' = [arrays EXCEPT ![c] = [i \in 1..tasks.len |-> Nil]]
  /\ UNCHANGED <<field, mutex, asked, at, next, answer>>

Copy_Alias(c) ==
  /\ GoTo(c, "copy", "unlock")
  /\ listing' = [listing EXCEPT ![c] = tasks]
  /\ UNCHANGED <<arrays, field, mutex, asked, at, next, removed>>

Copy(c) ==
  /\ GoTo(c, "copy", "unlock")
  /\ arrays' = [arrays EXCEPT ![c] = [i \in DOMAIN @ |->
                  IF i <= tasks.len THEN arrays[tasks.arr][i] ELSE @[i]]]
  /\ listing' = [listing EXCEPT ![c] = [arr |-> c, len |-> Len(arrays[c])]]
  /\ UNCHANGED <<field, mutex, asked, at, next, removed>>

-----------------------------------------------------------------------------
(* Start and Stop.                                                         *)

StartRefused_KeepsLock(c) ==
  /\ running
  /\ GoTo(c, "start", "idle")
  /\ UNCHANGED <<arrays, field, mutex, asked, at, next, answer>>

StartRefused(c) ==
  /\ running
  /\ GoTo(c, "start", "unlock")
  /\ UNCHANGED <<arrays, field, mutex, asked, at, next, answer>>

StartAllowed(c) ==
  /\ ~running
  /\ GoTo(c, "start", "set")
  /\ UNCHANGED <<arrays, field, mutex, asked, at, next, answer>>

\* Start will answer that it is not implemented; running stays set.
SetRunning(c) ==
  /\ GoTo(c, "set", "unlock")
  /\ running' = TRUE
  /\ starts' = starts + 1
  /\ UNCHANGED <<arrays, tasks, ctx, mutex, asked, at, next, answer>>

\* The context that is cancelled is not replaced by any later Start.
Stop(c) ==
  /\ GoTo(c, "stop", "unlock")
  /\ ctx' = IF running THEN "cancelled" ELSE ctx
  /\ running' = FALSE
  /\ starts' = 0
  /\ UNCHANGED <<arrays, tasks, mutex, asked, at, next, answer>>

-----------------------------------------------------------------------------
Body(c) ==
  \/ AppendInPlace(c) \/ AppendGrows(c) \/ Store(c)
  \/ Find(c) \/ FindNothing(c) \/ Shift(c) \/ Make(c) \/ Copy(c)
  \/ StartRefused(c) \/ StartAllowed(c) \/ SetRunning(c) \/ Stop(c)
  \/ Unlock(c)

Next == \E c \in Clients : Call(c) \/ Lock(c) \/ Body(c)

Spec == Init /\ [][Next]_vars

\* A goroutine that holds the mutex goes on, and one that waits gets it in
\* the end: sync.Mutex hands itself to the first in line after a millisecond.
FairSpec ==
  /\ Spec
  /\ \A c \in Clients : WF_vars(Body(c)) /\ SF_vars(Lock(c))

-----------------------------------------------------------------------------
(* Properties.                                                             *)

SliceOK(s) == s.arr \in DOMAIN arrays /\ s.len \in 0..Capacity(s)

TypeOK ==
  /\ DOMAIN arrays = (0..(2 * MaxLen)) \cup Clients
  /\ \A a \in DOMAIN arrays : arrays[a] \in Seq(L!Tasks \cup {Nil})
  /\ SliceOK(tasks)
  /\ mutex \in Clients \cup {Free}
  /\ running \in BOOLEAN
  /\ ctx \in {"live", "cancelled"}
  /\ starts \in Nat
  /\ pc \in [Clients -> {"idle", "lock", "append", "store", "find", "shift",
                         "make", "copy", "start", "set", "stop", "unlock"}]
  /\ asked \in [Clients -> L!Calls \cup Switch \cup {NoCall}]
  /\ at \in [Clients -> Nat]
  /\ \A c \in Clients : SliceOK(listing[c]) /\ SliceOK(next[c])
  /\ removed \in [Clients -> BOOLEAN]

\* No goroutine touches the scheduler's fields, or writes to the array that
\* another one may be reading, be it through the listing that it was given
\* (scheduler.go 54-73, 101-110).
NoRace ==
  \A c, d \in Clients : c # d =>
    /\ pc[c] \in {"idle", "lock"} \/ pc[d] \in {"idle", "lock"}
    /\ pc[c] \in {"append", "shift"} =>
         listing[d].len = 0 \/ listing[d].arr # tasks.arr

\* Of several Starts with no Stop between them one finds the scheduler not
\* running, however they overlap (scheduler.go 76-98).
OneStart == starts = IF running THEN 1 ELSE 0

\* AddTask, RemoveTask and ListTasks act as on a list, at one instant each,
\* and no later call changes a listing that was handed out (scheduler.go
\* 54-73, 101-110).
ImplementsTaskList == L!Spec

\* What a call that is not inside the mutex waits for.
MayLock(c) == /\ pc[c] = "lock"
              /\ mutex = Free
              /\ asked[c].op = "add" => tasks.len < MaxLen

\* Nothing else is waited for: whoever holds the mutex has a next step, and one
\* that finds it free can take it (scheduler.go 54-110).
WhoMayStepCan ==
  \A c \in Clients :
    /\ mutex = c => ENABLED <<Body(c)>>_vars
    /\ MayLock(c) => ENABLED <<Lock(c)>>_vars

\* FairSpec in terms of these two conditions: whoever is inside the mutex goes
\* on, and one that it is free for again and again gets it.
WhoMayStepDoes ==
  /\ []<>(mutex = Free) \/ []<><<\E c \in Clients : Body(c)>>_vars
  /\ \A c \in Clients : <>[]~MayLock(c) \/ []<><<Lock(c)>>_vars

\* Every call returns; one that would add a task beyond the bound may wait.
CallsReturn ==
  \A c \in Clients : []<>(pc[c] = "idle"
                            \/ (asked[c].op = "add" /\ tasks.len = MaxLen))

=============================================================================
