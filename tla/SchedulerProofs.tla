--------------------------- MODULE SchedulerProofs --------------------------
(***************************************************************************)
(* Proofs about module Scheduler, for any goroutines, tasks and lengths.   *)
(* The mutex keeps the calls apart, which gives OneStart and NoRace.  That *)
(* the scheduler implements TaskList then is a matter of what one call     *)
(* does to the array behind the slice.  That calls return follows from the *)
(* few steps that there are between Lock and Unlock.                       *)
(***************************************************************************)
EXTENDS Scheduler, SequenceTheorems, TLAPS

USE SchedulerAssumption DEF SchedulerAssumption

Ops      == {"add", "remove", "list", "start", "stop"}
Critical == {"append", "store", "find", "shift", "make", "copy", "start", "set",
             "stop", "unlock"}
AllCalls == L!Calls \cup Switch

LEMMA CallCases ==
  ASSUME NEW q \in AllCalls
  PROVE  /\ q.op \in Ops
         /\ q # NoCall
         /\ q.op = "add" => q.task \in L!Tasks
         /\ q.op = "remove" => q.name \in Names
         /\ q \in Switch <=> q.op \in {"start", "stop"}
BY DEF AllCalls, L!Calls, Switch, Ops, NoCall

LEMMA FirstStep ==
  \A op \in Ops : First[op] \in Critical /\ First[op] \notin {"set", "store", "shift", "copy"}
BY DEF First, Ops, Critical

-----------------------------------------------------------------------------
(* The mutex, and Start and Stop.                                          *)

LockInv ==
  /\ pc \in [Clients -> {"idle", "lock"} \cup Critical]
  /\ mutex \in Clients \cup {Free}
  /\ \A c \in Clients : pc[c] \in Critical <=> mutex = c

SwitchInv ==
  /\ running \in BOOLEAN
  /\ \A c \in Clients : pc[c] = "set" => ~running
  /\ OneStart

AskedInv ==
  /\ asked \in [Clients -> AllCalls \cup {NoCall}]
  /\ \A c \in Clients :
       /\ asked[c] = NoCall <=> pc[c] = "idle"
       /\ pc[c] = "append" => asked[c].op = "add"
       /\ pc[c] \in {"find", "shift"} => asked[c].op = "remove"
       /\ pc[c] \in {"make", "copy"} => asked[c].op = "list"

ControlInv == LockInv /\ SwitchInv /\ AskedInv

LEMMA InitControl == Init => ControlInv
BY DEF Init, ControlInv, LockInv, SwitchInv, AskedInv, OneStart, Free, Critical

LEMMA NextControl == ControlInv /\ [Next]_vars => ControlInv'
<1> SUFFICES ASSUME ControlInv, [Next]_vars PROVE ControlInv'
  OBVIOUS
<1> USE DEF ControlInv, LockInv, SwitchInv, AskedInv, OneStart, Free, Critical, GoTo,
            field
<1>1. ASSUME NEW c \in Clients, Call(c) PROVE ControlInv'
  BY <1>1, CallCases DEF Call, AllCalls
<1>2. ASSUME NEW c \in Clients, Lock(c) PROVE ControlInv'
  <2>1. asked[c] \in AllCalls /\ asked[c].op \in Ops
    BY <1>2, CallCases DEF Lock
  <2>2. First[asked[c].op] \in Critical \ {"set", "store", "shift", "copy"}
    BY <2>1, FirstStep
  <2>3. LockInv'
    BY <1>2, <2>2 DEF Lock
  <2>4. SwitchInv'
    BY <1>2, <2>2 DEF Lock
  <2>5. /\ First[asked[c].op] = "append" => asked[c].op = "add"
        /\ First[asked[c].op] = "find" => asked[c].op = "remove"
        /\ First[asked[c].op] = "make" => asked[c].op = "list"
    BY <2>1 DEF First, Ops
  <2>6. AskedInv'
    BY <1>2, <2>1, <2>2, <2>5 DEF Lock
  <2> QED
    BY <2>3, <2>4, <2>6
<1>3. ASSUME NEW c \in Clients, Body(c) PROVE ControlInv'
  <2>1. CASE AppendInPlace(c)
    BY <2>1 DEF AppendInPlace
  <2>2. CASE AppendGrows(c)
    BY <2>2 DEF AppendGrows
  <2>3. CASE Store(c)
    BY <2>3 DEF Store
  <2>4. CASE Find(c)
    BY <2>4 DEF Find
  <2>5. CASE FindNothing(c)
    BY <2>5 DEF FindNothing
  <2>6. CASE Shift(c)
    BY <2>6 DEF Shift
  <2>7. CASE Make(c)
    BY <2>7 DEF Make
  <2>8. CASE Copy(c)
    BY <2>8 DEF Copy
  <2>9. CASE StartRefused(c)
    BY <2>9 DEF StartRefused
  <2>10. CASE StartAllowed(c)
    BY <2>10 DEF StartAllowed
  <2>11. CASE SetRunning(c)
    BY <2>11 DEF SetRunning
  <2>12. CASE Stop(c)
    BY <2>12 DEF Stop
  <2>13. CASE Unlock(c)
    BY <2>13 DEF Unlock
  <2> QED
    BY <1>3, <2>1, <2>2, <2>3, <2>4, <2>5, <2>6, <2>7, <2>8, <2>9, <2>10, <2>11,
       <2>12, <2>13 DEF Body
<1>4. CASE UNCHANGED vars
  BY <1>4 DEF vars
<1> QED
  BY <1>1, <1>2, <1>3, <1>4 DEF Next

\* However Starts and Stops overlap, one Start sets running.
THEOREM OneStartOnly == Spec => []OneStart
<1>1. ControlInv => OneStart
  BY DEF ControlInv, SwitchInv
<1> QED
  BY <1>1, InitControl, NextControl, PTL DEF Spec

-----------------------------------------------------------------------------
(* The arrays.                                                             *)

Keys  == (0..(2 * MaxLen)) \cup Clients
Cells == L!Tasks \cup {Nil}

LEMMA FunctionIsSeq ==
  ASSUME NEW S, NEW n \in Nat, NEW f \in [1..n -> S]
  PROVE  f \in Seq(S) /\ Len(f) = n
<1>1. f \in Seq(S)
  BY SeqDef
<1> QED
  BY <1>1, LenProperties

\* A slice of the array that tasks may point into.
Shared(s) ==
  /\ s \in [arr : 0..(2 * MaxLen), len : 0..MaxLen]
  /\ Len(arrays[s.arr]) = s.arr
  /\ s.len <= s.arr

ArrayInv ==
  /\ DOMAIN arrays = Keys
  /\ \A a \in Keys : arrays[a] \in Seq(Cells)
  /\ Len(arrays[0]) = 0
  /\ Shared(tasks)

LocalInv ==
  /\ at \in [Clients -> Nat]
  /\ DOMAIN next = Clients
  /\ \A c \in Clients :
       /\ pc[c] = "append" => tasks.len < MaxLen
       /\ pc[c] = "shift" => L!FirstNamed(Slice(tasks), asked[c].name, at[c])
       /\ pc[c] = "store" => Shared(next[c])
       /\ pc[c] = "unlock" => next[c] \in {Empty, tasks}
       /\ pc[c] \notin {"store", "unlock"} => next[c] = Empty
       /\ pc[c] = "copy" => Len(arrays[c]) = tasks.len

ListingInv ==
  /\ DOMAIN listing = Clients
  /\ \A c \in Clients :
       /\ \/ listing[c] = Empty
          \/ listing[c] = [arr |-> c, len |-> Len(arrays[c])]
       /\ pc[c] \in {"make", "copy"} => listing[c] = Empty
       /\ pc[c] = "lock" /\ asked[c].op = "list" => listing[c] = Empty

IInv ==
  /\ ControlInv
  /\ ArrayInv
  /\ LocalInv
  /\ ListingInv
  /\ ctx \in {"live", "cancelled"}
  /\ removed \in [Clients -> BOOLEAN]

LEMMA SliceElements ==
  ASSUME NEW a \in Seq(Cells), NEW n \in 0..Len(a)
  PROVE  /\ SubSeq(a, 1, n) \in Seq(Cells)
         /\ Len(SubSeq(a, 1, n)) = n
         /\ \A i \in 1..n : SubSeq(a, 1, n)[i] = a[i]
<1>1. Len(a) \in Nat /\ \A i \in 1..n : a[i] \in Cells
  BY LenProperties, ElementOfSeq
<1> QED
  BY <1>1, SubSeqProperties

LEMMA SharedSlice ==
  ASSUME ArrayInv, NEW s, Shared(s)
  PROVE  /\ Slice(s) \in Seq(Cells)
         /\ Len(Slice(s)) = s.len
         /\ \A i \in 1..s.len : Slice(s)[i] = arrays[s.arr][i]
<1>1. arrays[s.arr] \in Seq(Cells) /\ s.len \in 0..Len(arrays[s.arr])
  BY DEF ArrayInv, Shared, Keys
<1> QED
  BY <1>1, SliceElements DEF Slice

LEMMA InitIInv == Init => IInv
<1> SUFFICES ASSUME Init PROVE IInv
  OBVIOUS
<1>1. ControlInv
  BY InitControl
<1>2. ArrayInv
  BY EmptySeq DEF Init, ArrayInv, Shared, Keys, Empty
<1>3. LocalInv /\ ListingInv
  BY DEF Init, LocalInv, ListingInv, Empty
<1> QED
  BY <1>1, <1>2, <1>3 DEF Init, IInv

\* What append and the shifting of RemoveTask write to the shared arrays, for
\* the slice that they leave in next.
LEMMA InPlaceArray ==
  ASSUME IInv, NEW c \in Clients, AppendInPlace(c)
  PROVE  /\ ArrayInv'
         /\ Shared(next[c])'
         /\ Slice(next[c])' = Append(Slice(tasks), asked[c].task)
         /\ \A d \in Clients : arrays'[d] = arrays[d]
<1> DEFINE t == asked[c].task
           k == tasks.len
           old == arrays[tasks.arr]
           new == [old EXCEPT ![k + 1] = t]
<1>1. t \in Cells
  BY CallCases DEF IInv, ControlInv, AskedInv, AppendInPlace, GoTo, Cells
<1>2. old \in Seq(Cells) /\ k \in Nat /\ k + 1 \in 1..Len(old) /\ Shared(tasks)
  BY DEF IInv, ArrayInv, Shared, Keys, AppendInPlace, Capacity
<1>3. /\ new \in Seq(Cells) /\ Len(new) = Len(old)
      /\ \A i \in 1..Len(old) : new[i] = IF i = k + 1 THEN t ELSE old[i]
  BY <1>1, <1>2, ExceptSeq
<1>4. arrays' = [arrays EXCEPT ![tasks.arr] = new]
  BY DEF AppendInPlace
<1>5. /\ DOMAIN arrays = Keys
      /\ tasks.arr \in 0..(2 * MaxLen) /\ tasks.arr \in Keys
      /\ tasks.len < MaxLen
  BY DEF IInv, ArrayInv, LocalInv, Shared, Keys, AppendInPlace, GoTo
<1>6. next'[c] = [arr |-> tasks.arr, len |-> k + 1] /\ tasks' = tasks
  BY <1>2 DEF IInv, LocalInv, AppendInPlace, field, Shared
<1>7. ArrayInv'
  BY <1>2, <1>3, <1>4, <1>5, <1>6 DEF IInv, ArrayInv, Shared, Keys
<1>8. Shared(next[c])'
  BY <1>2, <1>3, <1>4, <1>5, <1>6 DEF Shared
<1>9. /\ Slice(next[c])' \in Seq(Cells)
      /\ Len(Slice(next[c])') = k + 1
      /\ \A i \in 1..(k + 1) : Slice(next[c])'[i] = new[i]
  <2>1. arrays'[tasks.arr] = new
    BY <1>4, <1>5
  <2> HIDE DEF new
  <2>2. next'[c].arr = tasks.arr /\ next'[c].len = k + 1
    BY <1>6
  <2>3. Slice(next[c])' = SubSeq(arrays'[next'[c].arr], 1, next'[c].len)
    BY DEF Slice
  <2>4. Slice(next[c])' = SubSeq(new, 1, k + 1)
    BY <2>1, <2>2, <2>3
  <2> QED
    BY <2>4, <1>2, <1>3, SliceElements
<1>10. /\ Slice(tasks) \in Seq(Cells)
       /\ Len(Slice(tasks)) = k
       /\ \A i \in 1..k : Slice(tasks)[i] = old[i]
  BY <1>2, SharedSlice DEF IInv
<1>11. Slice(next[c])' = Append(Slice(tasks), t)
  <2> DEFINE p == Slice(next[c])'
             q == Append(Slice(tasks), t)
  <2>1. /\ q \in Seq(Cells) /\ Len(q) = k + 1
        /\ \A i \in 1..k : q[i] = old[i]
        /\ q[k + 1] = t
    BY <1>1, <1>10, AppendProperties
  <2>2. \A i \in 1..(k + 1) : p[i] = q[i]
    <3>1. \A i \in 1..(k + 1) : new[i] = IF i = k + 1 THEN t ELSE old[i]
      BY <1>2, <1>3
    <3>2. \A i \in 1..(k + 1) : p[i] = new[i]
      BY <1>9
    <3>3. k \in Nat
      BY <1>2
    <3> HIDE DEF p, q, new, old, t, k
    <3> QED
      BY <2>1, <3>1, <3>2, <3>3
  <2> HIDE DEF p, q
  <2>3. p = q
    BY <1>9, <2>1, <2>2, SeqEqual DEF p
  <2> QED
    BY <2>3 DEF p, q
<1>12. \A d \in Clients : arrays'[d] = arrays[d]
  BY <1>4, <1>5
<1> QED
  BY <1>7, <1>8, <1>11, <1>12

LEMMA GrownArray ==
  ASSUME IInv, NEW c \in Clients, AppendGrows(c)
  PROVE  /\ ArrayInv'
         /\ Shared(next[c])'
         /\ Slice(next[c])' = Append(Slice(tasks), asked[c].task)
         /\ \A d \in Clients : arrays'[d] = arrays[d]
<1> DEFINE t == asked[c].task
           k == tasks.len
           old == arrays[tasks.arr]
           cap == Grown(k)
           new == [i \in 1..cap |-> IF i <= k THEN old[i]
                                    ELSE IF i = k + 1 THEN t ELSE Nil]
<1>1. t \in Cells /\ Nil \in Cells
  BY CallCases DEF IInv, ControlInv, AskedInv, AppendGrows, GoTo, Cells
<1>2. /\ old \in Seq(Cells) /\ k \in Nat /\ k = Len(old) /\ tasks.arr = k
      /\ k < MaxLen /\ Shared(tasks) /\ DOMAIN arrays = Keys
  BY DEF IInv, ArrayInv, LocalInv, Shared, Keys, AppendGrows, Capacity, GoTo
<1>3. /\ cap \in 1..(2 * MaxLen) /\ cap \in Nat /\ cap > k /\ cap \in Keys
  BY <1>2 DEF Grown, Keys
<1>4. /\ new \in Seq(Cells) /\ Len(new) = cap
      /\ \A i \in 1..k : new[i] = old[i]
      /\ new[k + 1] = t
  <2>1. \A i \in 1..k : old[i] \in Cells
    BY <1>2, ElementOfSeq
  <2>2. new \in [1..cap -> Cells]
    BY <1>1, <1>2, <1>3, <2>1
  <2>3. new \in Seq(Cells) /\ Len(new) = cap
    BY <1>3, <2>2, FunctionIsSeq
  <2>4. k + 1 \in 1..cap /\ \A i \in 1..k : i \in 1..cap
    BY <1>2, <1>3
  <2>5. \A i \in 1..cap : new[i] = IF i <= k THEN old[i]
                                    ELSE IF i = k + 1 THEN t ELSE Nil
    OBVIOUS
  <2>6. k \in Nat
    BY <1>2
  <2> HIDE DEF new, cap, old, t, k
  <2> QED
    BY <2>3, <2>4, <2>5, <2>6
<1>5. arrays' = [arrays EXCEPT ![cap] = new]
  BY DEF AppendGrows
<1>6. next'[c] = [arr |-> cap, len |-> k + 1] /\ tasks' = tasks
  BY DEF IInv, LocalInv, AppendGrows, field
<1> HIDE DEF new, cap
<1>7. ArrayInv'
  BY <1>2, <1>3, <1>4, <1>5, <1>6 DEF IInv, ArrayInv, Shared, Keys
<1>8. Shared(next[c])'
  BY <1>2, <1>3, <1>4, <1>5, <1>6 DEF Shared
<1>9. /\ Slice(next[c])' \in Seq(Cells)
      /\ Len(Slice(next[c])') = k + 1
      /\ \A i \in 1..(k + 1) : Slice(next[c])'[i] = new[i]
  <2>1. arrays'[cap] = new
    BY <1>2, <1>3, <1>5
  <2>2. next'[c].arr = cap /\ next'[c].len = k + 1
    BY <1>6
  <2>3. Slice(next[c])' = SubSeq(arrays'[next'[c].arr], 1, next'[c].len)
    BY DEF Slice
  <2>4. Slice(next[c])' = SubSeq(new, 1, k + 1)
    BY <2>1, <2>2, <2>3
  <2>5. new \in Seq(Cells) /\ k + 1 \in 0..Len(new)
    BY <1>2, <1>3, <1>4
  <2> QED
    BY <2>4, <2>5, SliceElements
<1>10. /\ Slice(tasks) \in Seq(Cells)
       /\ Len(Slice(tasks)) = k
       /\ \A i \in 1..k : Slice(tasks)[i] = old[i]
  BY <1>2, SharedSlice DEF IInv
<1>11. Slice(next[c])' = Append(Slice(tasks), t)
  <2> DEFINE p == Slice(next[c])'
             q == Append(Slice(tasks), t)
  <2>1. /\ q \in Seq(Cells) /\ Len(q) = k + 1
        /\ \A i \in 1..k : q[i] = old[i]
        /\ q[k + 1] = t
    BY <1>1, <1>10, AppendProperties
  <2>2. \A i \in 1..(k + 1) : p[i] = q[i]
    BY <1>2, <1>4, <1>9, <2>1
  <2> HIDE DEF p, q
  <2>3. p = q
    BY <1>9, <2>1, <2>2, SeqEqual DEF p
  <2> QED
    BY <2>3 DEF p, q
<1>12. \A d \in Clients : arrays'[d] = arrays[d]
  BY <1>2, <1>3, <1>5
<1> QED
  BY <1>7, <1>8, <1>11, <1>12

\* A sequence without one of its elements.
LEMMA WithoutElements ==
  ASSUME NEW S, NEW s \in Seq(S), NEW n \in 1..Len(s)
  PROVE  /\ L!Without(s, n) \in Seq(S)
         /\ Len(L!Without(s, n)) = Len(s) - 1
         /\ \A i \in 1..(Len(s) - 1) :
              L!Without(s, n)[i] = IF i < n THEN s[i] ELSE s[i + 1]
<1> DEFINE k == Len(s)
           u == SubSeq(s, 1, n - 1)
           v == SubSeq(s, n + 1, k)
<1>1. k \in Nat /\ n \in Int /\ \A i \in 1..k : s[i] \in S
  BY LenProperties, ElementOfSeq
<1>2. /\ u \in Seq(S) /\ Len(u) = n - 1
      /\ \A i \in 1..(n - 1) : u[i] = s[i]
  <2>1. 1 \in Int /\ n - 1 \in Int /\ \A i \in 1..(n - 1) : s[i] \in S
    BY <1>1
  <2>2. /\ u \in Seq(S)
        /\ Len(u) = IF 1 <= n - 1 THEN n - 1 - 1 + 1 ELSE 0
        /\ \A i \in 1..(n - 1 - 1 + 1) : u[i] = s[1 + i - 1]
    BY <2>1, SubSeqProperties
  <2> HIDE DEF u
  <2> QED
    BY <1>1, <2>2
<1>3. /\ v \in Seq(S) /\ Len(v) = k - n
      /\ \A i \in 1..(k - n) : v[i] = s[n + i]
  <2>1. n + 1 \in Int /\ k \in Int /\ \A i \in (n + 1)..k : s[i] \in S
    BY <1>1
  <2>2. /\ v \in Seq(S)
        /\ Len(v) = IF n + 1 <= k THEN k - (n + 1) + 1 ELSE 0
        /\ \A i \in 1..(k - (n + 1) + 1) : v[i] = s[n + 1 + i - 1]
    BY <2>1, SubSeqProperties
  <2> HIDE DEF v
  <2>3. Len(v) = k - n
    BY <1>1, <2>2
  <2>4. ASSUME NEW i \in 1..(k - n) PROVE v[i] = s[n + i]
    <3>1. i \in 1..(k - (n + 1) + 1) /\ n + 1 + i - 1 = n + i
      BY <1>1
    <3> QED
      BY <2>2, <3>1
  <2> QED
    BY <2>2, <2>3, <2>4
<1>4. L!Without(s, n) = u \o v
  BY DEF L!Without
<1> HIDE DEF u, v
<1>5. /\ u \o v \in Seq(S) /\ Len(u \o v) = Len(u) + Len(v)
      /\ \A i \in 1..(Len(u) + Len(v)) :
           (u \o v)[i] = IF i <= Len(u) THEN u[i] ELSE v[i - Len(u)]
  BY <1>2, <1>3, ConcatProperties, ZenonT(30)
<1> DEFINE q == u \o v
<1> HIDE DEF q, k
<1>6. ASSUME NEW i \in 1..(k - 1) PROVE q[i] = IF i < n THEN s[i] ELSE s[i + 1]
  <2>1. q[i] = IF i <= n - 1 THEN u[i] ELSE v[i - (n - 1)]
    BY <1>1, <1>2, <1>3, <1>5 DEF q
  <2>2. CASE i < n
    BY <1>1, <1>2, <2>1, <2>2
  <2>3. CASE i >= n
    <3>1. i - (n - 1) \in 1..(k - n) /\ n + (i - (n - 1)) = i + 1
      BY <1>1, <2>3
    <3>2. v[i - (n - 1)] = s[i + 1]
      BY <1>3, <3>1
    <3>3. q[i] = v[i - (n - 1)]
      BY <1>1, <2>1, <2>3
    <3> QED
      BY <1>1, <2>3, <3>2, <3>3
  <2> QED
    BY <1>1, <2>2, <2>3
<1>7. Len(q) = k - 1 /\ q \in Seq(S)
  BY <1>1, <1>2, <1>3, <1>5 DEF q
<1> QED
  BY <1>4, <1>6, <1>7 DEF q, k

LEMMA ShiftedArray ==
  ASSUME IInv, NEW c \in Clients, Shift(c)
  PROVE  /\ ArrayInv'
         /\ Shared(next[c])'
         /\ Slice(next[c])' = L!Without(Slice(tasks), at[c])
         /\ \A d \in Clients : arrays'[d] = arrays[d]
<1> DEFINE k == tasks.len
           n == at[c]
           old == arrays[tasks.arr]
           new == [i \in DOMAIN old |-> IF i \in n..(k - 1) THEN old[i + 1]
                                        ELSE old[i]]
<1>1. /\ Slice(tasks) \in Seq(Cells) /\ Len(Slice(tasks)) = k
      /\ \A i \in 1..k : Slice(tasks)[i] = old[i]
  BY SharedSlice DEF IInv, ArrayInv
<1>2. /\ old \in Seq(Cells) /\ k \in Nat /\ k <= Len(old) /\ Len(old) \in Nat
      /\ Shared(tasks) /\ DOMAIN arrays = Keys /\ tasks.arr \in Keys
      /\ DOMAIN old = 1..Len(old)
  BY LenProperties DEF IInv, ArrayInv, Shared, Keys
<1>3. n \in 1..k
  BY <1>1 DEF IInv, LocalInv, L!FirstNamed, Shift, GoTo
<1>4. /\ new \in Seq(Cells) /\ Len(new) = Len(old)
      /\ \A i \in 1..(k - 1) : new[i] = IF i < n THEN old[i] ELSE old[i + 1]
  <2>1. \A i \in 1..Len(old) : old[i] \in Cells
    BY <1>2, ElementOfSeq
  <2>2. new \in [1..Len(old) -> Cells]
    BY <1>2, <1>3, <2>1
  <2>3. new \in Seq(Cells) /\ Len(new) = Len(old)
    BY <1>2, <2>2, FunctionIsSeq
  <2> QED
    BY <1>2, <1>3, <2>3
<1>5. arrays' = [arrays EXCEPT ![tasks.arr] = new]
  BY DEF Shift
<1>6. next'[c] = [arr |-> tasks.arr, len |-> k - 1] /\ tasks' = tasks
  BY <1>2 DEF IInv, LocalInv, Shift, field, Shared
<1> HIDE DEF new
<1>7. ArrayInv'
  BY <1>2, <1>4, <1>5, <1>6 DEF IInv, ArrayInv, Shared, Keys
<1>8. Shared(next[c])'
  BY <1>2, <1>3, <1>4, <1>5, <1>6 DEF Shared
<1>9. /\ Slice(next[c])' \in Seq(Cells)
      /\ Len(Slice(next[c])') = k - 1
      /\ \A i \in 1..(k - 1) : Slice(next[c])'[i] = new[i]
  <2>1. arrays'[tasks.arr] = new
    BY <1>2, <1>5
  <2>2. next'[c].arr = tasks.arr /\ next'[c].len = k - 1
    BY <1>6
  <2>3. Slice(next[c])' = SubSeq(arrays'[next'[c].arr], 1, next'[c].len)
    BY DEF Slice
  <2>4. Slice(next[c])' = SubSeq(new, 1, k - 1)
    BY <2>1, <2>2, <2>3
  <2> QED
    BY <2>4, <1>2, <1>3, <1>4, SliceElements
<1>10. Slice(next[c])' = L!Without(Slice(tasks), n)
  <2> DEFINE s == Slice(tasks)
             p == Slice(next[c])'
             q == L!Without(s, n)
  <2>0. /\ s \in Seq(Cells) /\ Len(s) = k /\ n \in 1..Len(s)
        /\ \A i \in 1..k : s[i] = old[i]
    BY <1>1, <1>3
  <2> HIDE DEF s
  <2>1. /\ q \in Seq(Cells) /\ Len(q) = k - 1
        /\ \A i \in 1..(k - 1) : q[i] = IF i < n THEN s[i] ELSE s[i + 1]
    BY <2>0, WithoutElements
  <2> HIDE DEF p, q
  <2>2. ASSUME NEW i \in 1..(k - 1) PROVE p[i] = q[i]
    <3>1. i \in 1..k /\ i + 1 \in 1..k
      BY <1>2, <1>3
    <3>2. p[i] = IF i < n THEN old[i] ELSE old[i + 1]
      BY <1>4, <1>9 DEF p
    <3> QED
      BY <2>0, <2>1, <3>1, <3>2
  <2>3. p = q
    BY <1>9, <2>1, <2>2, SeqEqual DEF p
  <2> QED
    BY <2>3 DEF p, q, s
<1>11. \A d \in Clients : arrays'[d] = arrays[d]
  BY <1>2, <1>5 DEF IInv, ArrayInv, Shared
<1> QED
  BY <1>7, <1>8, <1>10, <1>11

\* What ListTasks has copied.
CopiedArray(c) ==
  /\ DOMAIN arrays' = Keys
  /\ \A a \in Keys \ {c} : arrays'[a] = arrays[a]
  /\ arrays'[c] \in Seq(Cells)
  /\ Len(arrays'[c]) = Len(arrays[c])
  /\ Len(arrays[c]) = tasks.len
  /\ \A i \in 1..tasks.len : arrays'[c][i] = arrays[tasks.arr][i]

LEMMA CopyEffect ==
  ASSUME IInv, NEW c \in Clients, Copy(c)
  PROVE  CopiedArray(c)
<1> DEFINE k == tasks.len
           old == arrays[tasks.arr]
           mine == arrays[c]
           new == [i \in DOMAIN mine |-> IF i <= k THEN old[i] ELSE mine[i]]
<1>1. /\ old \in Seq(Cells) /\ mine \in Seq(Cells) /\ k \in Nat /\ k <= Len(old)
      /\ Len(old) \in Nat /\ Len(mine) = k /\ DOMAIN mine = 1..k
      /\ DOMAIN arrays = Keys /\ c \in Keys
  BY LenProperties DEF IInv, ArrayInv, LocalInv, Shared, Keys, Copy, GoTo
<1>2. \A i \in 1..k : old[i] \in Cells
  BY <1>1, ElementOfSeq
<1>3. new \in [1..k -> Cells] /\ \A i \in 1..k : new[i] = old[i]
  BY <1>1, <1>2
<1>4. new \in Seq(Cells) /\ Len(new) = k
  BY <1>1, <1>3, FunctionIsSeq
<1>5. arrays' = [arrays EXCEPT ![c] = new]
  BY DEF Copy
<1> HIDE DEF new
<1> QED
  BY <1>1, <1>3, <1>4, <1>5 DEF CopiedArray

-----------------------------------------------------------------------------
(* The invariant is kept.                                                  *)

\* While a call is between Lock and Unlock, the others are not.
LEMMA OnlyOne ==
  ASSUME ControlInv, NEW c \in Clients, pc[c] \in Critical
  PROVE  /\ \A d \in Clients \ {c} : pc[d] \in {"idle", "lock"}
         /\ pc[c] \notin {"idle", "lock"}
BY DEF ControlInv, LockInv, Critical

LEMMA EmptyShared == ArrayInv => Shared(Empty)
BY DEF ArrayInv, Shared, Empty

\* Steps that leave the arrays and tasks alone.
LEMMA PlainStep ==
  ASSUME IInv, UNCHANGED <<arrays, tasks>>
  PROVE  /\ ArrayInv'
         /\ \A s : Shared(s) <=> Shared(s)'
BY DEF IInv, ArrayInv, Shared

LEMMA FirstNamedKept ==
  ASSUME NEW d \in Clients, UNCHANGED <<arrays, tasks>>,
         asked'[d] = asked[d], at'[d] = at[d],
         L!FirstNamed(Slice(tasks), asked[d].name, at[d])
  PROVE  L!FirstNamed(Slice(tasks), asked[d].name, at[d])'
<1>1. Slice(tasks)' = Slice(tasks)
  BY DEF Slice
<1> QED
  BY <1>1 DEF L!FirstNamed

LEMMA NextIInv == IInv /\ [Next]_vars => IInv'
<1> SUFFICES ASSUME IInv, [Next]_vars PROVE IInv'
  OBVIOUS
<1>0. ControlInv'
  BY NextControl DEF IInv
<1> USE DEF GoTo
<1>1. ASSUME NEW c \in Clients, Call(c) PROVE IInv'
  <2>1. /\ UNCHANGED <<arrays, tasks, at, next, ctx>>
        /\ pc[c] = "idle" /\ pc' = [pc EXCEPT ![c] = "lock"]
    BY <1>1 DEF Call, field
  <2>2. PICK q \in AllCalls :
          /\ asked' = [asked EXCEPT ![c] = q]
          /\ listing' = [listing EXCEPT ![c] = IF q.op = "list" THEN Empty ELSE @]
          /\ removed' = [removed EXCEPT ![c] = @ /\ q.op # "remove"]
    BY <1>1 DEF Call, AllCalls
  <2>3. ArrayInv'
    BY <2>1, PlainStep
  <2>4. LocalInv'
    <3>1. \A s : Shared(s) <=> Shared(s)'
      BY <2>1, PlainStep
    <3>2. ASSUME NEW d \in Clients, pc[d] = "shift"
          PROVE  L!FirstNamed(Slice(tasks), asked[d].name, at[d])'
      BY <2>1, <2>2, <3>2, FirstNamedKept DEF IInv, LocalInv, ControlInv, AskedInv
    <3>3. \A d \in Clients : next[d]' = next[d] /\ (pc'[d] = pc[d] \/ pc'[d] = "lock")
      BY <2>1 DEF IInv, ControlInv, LockInv
    <3>4. \A d \in Clients : pc[d] = "store" => Shared(next[d])'
      BY <2>1, <3>1 DEF IInv, LocalInv, Shared
    <3> QED
      BY <2>1, <3>2, <3>3, <3>4 DEF IInv, LocalInv, ControlInv, LockInv
  <2>5. ListingInv'
    BY <2>1, <2>2 DEF IInv, ListingInv, ControlInv, LockInv, AskedInv
  <2>6. removed' \in [Clients -> BOOLEAN]
    BY <2>2 DEF IInv
  <2> QED
    BY <1>0, <2>1, <2>3, <2>4, <2>5, <2>6 DEF IInv
<1>2. ASSUME NEW c \in Clients, Lock(c) PROVE IInv'
  <2>1. /\ UNCHANGED <<arrays, tasks, asked, at, next, ctx, listing, removed>>
        /\ pc[c] = "lock" /\ pc' = [pc EXCEPT ![c] = First[asked[c].op]]
        /\ mutex = Free
        /\ asked[c].op = "add" => tasks.len < MaxLen
    BY <1>2 DEF Lock, field, answer
  <2>2. asked[c].op \in Ops
    BY <2>1, CallCases DEF IInv, ControlInv, AskedInv
  <2>3. /\ First[asked[c].op] \in {"append", "find", "make", "start", "stop"}
        /\ First[asked[c].op] = "append" => asked[c].op = "add"
        /\ First[asked[c].op] = "make" => asked[c].op = "list"
    BY <2>2 DEF First, Ops
  <2>4. ArrayInv'
    BY <2>1, PlainStep
  <2>5. LocalInv'
    <3>1. \A d \in Clients : pc[d] \in {"idle", "lock"}
      BY <2>1 DEF IInv, ControlInv, LockInv, Critical, Free
    <3> QED
      BY <2>1, <2>3, <3>1 DEF IInv, LocalInv, ControlInv, LockInv
  <2>6. ListingInv'
    BY <2>1, <2>3 DEF IInv, ListingInv, ControlInv, LockInv
  <2> QED
    BY <1>0, <2>1, <2>4, <2>5, <2>6 DEF IInv
<1>3. ASSUME NEW c \in Clients, Body(c) PROVE IInv'
  <2>0. pc[c] \in Critical
    BY <1>3 DEF Critical, Body, AppendInPlace, AppendGrows, Store, Find,
       FindNothing, Shift, Make, Copy, StartRefused, StartAllowed, SetRunning,
       Stop, Unlock
  <2> DEFINE Alone == \A d \in Clients \ {c} : pc[d] \in {"idle", "lock"}
  <2>a. Alone
    BY <2>0, OnlyOne DEF IInv
  <2>1. CASE AppendInPlace(c) \/ AppendGrows(c)
    <3>1. /\ ArrayInv' /\ Shared(next[c])'
          /\ \A d \in Clients : arrays'[d] = arrays[d]
      BY <2>1, InPlaceArray, GrownArray
    <3>2. /\ UNCHANGED <<tasks, asked, at, listing, removed, ctx>>
          /\ pc' = [pc EXCEPT ![c] = "store"]
          /\ DOMAIN next' = DOMAIN next
          /\ \A d \in Clients \ {c} : next'[d] = next[d]
      BY <2>1 DEF AppendInPlace, AppendGrows, field, answer, IInv, LocalInv
    <3>3. LocalInv'
      BY <2>a, <3>1, <3>2 DEF IInv, LocalInv, ControlInv, LockInv
    <3>4. ListingInv'
      BY <2>a, <3>1, <3>2 DEF IInv, ListingInv, ControlInv, LockInv
    <3> QED
      BY <1>0, <3>1, <3>2, <3>3, <3>4 DEF IInv
  <2>3. CASE Store(c)
    <3>1. /\ UNCHANGED <<asked, at, next, listing, removed, ctx>>
          /\ pc[c] = "store" /\ pc' = [pc EXCEPT ![c] = "unlock"]
          /\ tasks' = next[c]
      BY <2>3 DEF Store, answer
    <3>2. /\ Shared(tasks) /\ Shared(next[c]) /\ tasks.arr \in Keys
          /\ DOMAIN arrays = Keys
      BY <3>1 DEF IInv, ArrayInv, LocalInv, Shared, Keys
    <3>3. /\ DOMAIN arrays' = Keys
          /\ \A a \in Keys : arrays'[a] = arrays[a] \/ arrays'[a] = <<>>
          /\ \A a \in Keys : arrays'[a] # arrays[a] =>
               a = tasks.arr /\ a # next[c].arr
      BY <2>3, <3>2 DEF Store
    <3>4. \A d \in Clients : arrays'[d] = arrays[d]
      <4>1. tasks.arr \notin Clients
        BY <3>2 DEF Shared
      <4>2. \A d \in Clients : d \in Keys
        BY DEF Keys
      <4>3. ASSUME NEW d \in Clients PROVE arrays'[d] = arrays[d]
        BY <3>3, <4>1, <4>2
      <4> QED
        BY <4>3
    <3>5. Shared(tasks)' /\ Shared(next[c])'
      BY <3>1, <3>2, <3>3 DEF Shared, Keys
    <3>6. ArrayInv'
      <4>1. \A a \in Keys : arrays'[a] \in Seq(Cells)
        BY <3>3, EmptySeq DEF IInv, ArrayInv
      <4>2. Len(arrays'[0]) = 0
        BY <3>3, EmptySeq DEF IInv, ArrayInv, Keys
      <4> QED
        BY <3>3, <3>5, <4>1, <4>2 DEF ArrayInv
    <3>7. LocalInv'
      BY <2>a, <3>1 DEF IInv, LocalInv, ControlInv, LockInv
    <3>8. ListingInv'
      BY <2>a, <3>1, <3>4 DEF IInv, ListingInv, ControlInv, LockInv
    <3> QED
      BY <1>0, <3>1, <3>6, <3>7, <3>8 DEF IInv
  <2>4. CASE Find(c)
    <3>1. /\ UNCHANGED <<arrays, tasks, asked, next, listing, removed, ctx>>
          /\ pc[c] = "find" /\ pc' = [pc EXCEPT ![c] = "shift"]
      BY <2>4 DEF Find, field, answer
    <3>2. PICK i \in 1..tasks.len :
            /\ L!FirstNamed(Slice(tasks), asked[c].name, i)
            /\ at' = [at EXCEPT ![c] = i]
      BY <2>4 DEF Find
    <3>3. ArrayInv'
      BY <3>1, PlainStep
    <3>4. at' \in [Clients -> Nat] /\ at'[c] = i
      BY <3>2 DEF IInv, LocalInv, ArrayInv, Shared
    <3>5. L!FirstNamed(Slice(tasks), asked[c].name, at[c])'
      BY <3>1, <3>2, <3>4 DEF Slice, L!FirstNamed
    <3>6. LocalInv'
      BY <2>a, <3>1, <3>4, <3>5 DEF IInv, LocalInv, ControlInv, LockInv
    <3>7. ListingInv'
      BY <2>a, <3>1 DEF IInv, ListingInv, ControlInv, LockInv
    <3> QED
      BY <1>0, <3>1, <3>3, <3>6, <3>7 DEF IInv
  <2>5. CASE FindNothing(c) \/ StartRefused(c) \/ StartAllowed(c)
             \/ SetRunning(c) \/ Stop(c)
    <3>1. /\ UNCHANGED <<arrays, tasks, asked, at, next, listing>>
          /\ pc[c] \in {"find", "start", "set", "stop"}
          /\ pc' = [pc EXCEPT ![c] = pc'[c]] /\ pc'[c] \in {"set", "unlock"}
      BY <2>5 DEF FindNothing, StartRefused, StartAllowed, SetRunning, Stop,
         field, answer, IInv, ControlInv, LockInv
    <3>2. ctx' \in {"live", "cancelled"} /\ removed' \in [Clients -> BOOLEAN]
      BY <2>5 DEF FindNothing, StartRefused, StartAllowed, SetRunning, Stop,
         field, answer, IInv
    <3>3. ArrayInv'
      BY <3>1, PlainStep
    <3>4. LocalInv'
      BY <2>a, <3>1 DEF IInv, LocalInv, ControlInv, LockInv
    <3>5. ListingInv'
      BY <2>a, <3>1 DEF IInv, ListingInv, ControlInv, LockInv
    <3> QED
      BY <1>0, <3>2, <3>3, <3>4, <3>5 DEF IInv
  <2>6. CASE Shift(c)
    <3>1. /\ ArrayInv' /\ Shared(next[c])'
          /\ \A d \in Clients : arrays'[d] = arrays[d]
      BY <2>6, ShiftedArray
    <3>2. /\ UNCHANGED <<tasks, asked, at, listing, ctx>>
          /\ pc' = [pc EXCEPT ![c] = "store"]
          /\ DOMAIN next' = DOMAIN next
          /\ \A d \in Clients \ {c} : next'[d] = next[d]
          /\ removed' = [removed EXCEPT ![c] = TRUE]
      BY <2>6 DEF Shift, field, IInv, LocalInv
    <3>3. LocalInv'
      BY <2>a, <3>1, <3>2 DEF IInv, LocalInv, ControlInv, LockInv
    <3>4. ListingInv'
      BY <2>a, <3>1, <3>2 DEF IInv, ListingInv, ControlInv, LockInv
    <3>5. removed' \in [Clients -> BOOLEAN]
      BY <3>2 DEF IInv
    <3> QED
      BY <1>0, <3>1, <3>2, <3>3, <3>4, <3>5 DEF IInv
  <2>7. CASE Make(c)
    <3>1. /\ UNCHANGED <<tasks, asked, at, next, listing, removed, ctx>>
          /\ pc[c] = "make" /\ pc' = [pc EXCEPT ![c] = "copy"]
      BY <2>7 DEF Make, field, answer
    <3> DEFINE new == [i \in 1..tasks.len |-> Nil]
    <3>2. new \in Seq(Cells) /\ Len(new) = tasks.len
      <4>1. tasks.len \in Nat /\ new \in [1..tasks.len -> Cells]
        BY DEF IInv, ArrayInv, Shared, Cells
      <4> QED
        BY <4>1, FunctionIsSeq
    <3>3. arrays' = [arrays EXCEPT ![c] = new] /\ DOMAIN arrays = Keys /\ c \in Keys
      BY <2>7 DEF Make, IInv, ArrayInv, Keys
    <3> HIDE DEF new
    <3>4. /\ \A a \in Keys \ {c} : arrays'[a] = arrays[a]
          /\ arrays'[c] = new /\ DOMAIN arrays' = Keys
      BY <3>3
    <3>5. \A a \in 0..(2 * MaxLen) : arrays'[a] = arrays[a]
      BY <3>4 DEF Keys
    <3>6. ArrayInv'
      BY <3>1, <3>2, <3>4, <3>5 DEF IInv, ArrayInv, Shared, Keys
    <3>7. LocalInv'
      BY <2>a, <3>1, <3>2, <3>4 DEF IInv, LocalInv, ControlInv, LockInv
    <3>8. ListingInv'
      BY <2>a, <3>1, <3>4 DEF IInv, ListingInv, ControlInv, LockInv, Keys
    <3> QED
      BY <1>0, <3>1, <3>6, <3>7, <3>8 DEF IInv
  <2>8. CASE Copy(c)
    <3>1. /\ UNCHANGED <<tasks, asked, at, next, removed, ctx>>
          /\ pc[c] = "copy" /\ pc' = [pc EXCEPT ![c] = "unlock"]
          /\ listing' = [listing EXCEPT ![c] = [arr |-> c, len |-> Len(arrays[c])]]
      BY <2>8 DEF Copy, field
    <3>2. CopiedArray(c)
      BY <2>8, CopyEffect
    <3>3. ArrayInv'
      <4>1. \A a \in 0..(2 * MaxLen) : arrays'[a] = arrays[a]
        BY <3>2 DEF Keys, CopiedArray
      <4>2. \A a \in Keys : arrays'[a] \in Seq(Cells)
        BY <3>2 DEF IInv, ArrayInv, CopiedArray
      <4> QED
        BY <3>1, <3>2, <4>1, <4>2 DEF IInv, ArrayInv, Shared, CopiedArray
    <3>4. LocalInv'
      BY <2>a, <3>1 DEF IInv, LocalInv, ControlInv, LockInv
    <3>5. ListingInv'
      BY <2>a, <3>1, <3>2, ZenonT(30) DEF IInv, ListingInv, ControlInv, LockInv, Keys, CopiedArray
    <3> QED
      BY <1>0, <3>1, <3>3, <3>4, <3>5 DEF IInv
  <2>9. CASE Unlock(c)
    <3>1. /\ UNCHANGED <<arrays, tasks, listing, removed, ctx>>
          /\ pc' = [pc EXCEPT ![c] = "idle"]
          /\ asked' = [asked EXCEPT ![c] = NoCall]
          /\ at' = [at EXCEPT ![c] = 0]
          /\ next' = [next EXCEPT ![c] = Empty]
      BY <2>9 DEF Unlock, field, answer
    <3>2. ArrayInv'
      BY <3>1, PlainStep
    <3>3. LocalInv'
      BY <2>a, <3>1 DEF IInv, LocalInv, ControlInv, LockInv
    <3>4. ListingInv'
      BY <2>a, <3>1 DEF IInv, ListingInv, ControlInv, LockInv
    <3> QED
      BY <1>0, <3>1, <3>2, <3>3, <3>4 DEF IInv
  <2> QED
    BY <1>3, <2>1, <2>3, <2>4, <2>5, <2>6, <2>7, <2>8, <2>9 DEF Body
<1>4. CASE UNCHANGED vars
  BY <1>0, <1>4 DEF vars, field, answer, IInv, ArrayInv, LocalInv, ListingInv,
     Shared, Slice, L!FirstNamed
<1> QED
  BY <1>1, <1>2, <1>3, <1>4 DEF Next

LEMMA Invariance == Spec => []IInv
BY InitIInv, NextIInv, PTL DEF Spec

\* The fields, the arrays and the calls are well-typed, and slices stay inside
\* their arrays.
THEOREM TypeCorrect == Spec => []TypeOK
<1>1. IInv => TypeOK
  <2> SUFFICES ASSUME IInv PROVE TypeOK
    OBVIOUS
  <2>1. \A s : Shared(s) => SliceOK(s)
    BY DEF IInv, ArrayInv, Shared, SliceOK, Capacity, Keys
  <2>2. SliceOK(tasks) /\ SliceOK(Empty)
    BY <2>1, EmptyShared DEF IInv, ArrayInv
  <2>3. \A c \in Clients : SliceOK(next[c])
    BY <2>1, <2>2 DEF IInv, LocalInv, ControlInv, LockInv
  <2>4. ASSUME NEW c \in Clients PROVE SliceOK(listing[c])
    <3>1. c \in Keys /\ Len(arrays[c]) \in Nat
      BY LenProperties DEF IInv, ArrayInv, Keys
    <3> QED
      BY <2>2, <3>1 DEF IInv, ArrayInv, ListingInv, SliceOK, Capacity
  <2>5. starts \in Nat /\ running \in BOOLEAN
    BY DEF IInv, ControlInv, SwitchInv, OneStart
  <2>6. asked \in [Clients -> L!Calls \cup Switch \cup {NoCall}]
    BY DEF IInv, ControlInv, AskedInv, AllCalls
  <2> QED
    BY <2>2, <2>3, <2>4, <2>5, <2>6
       DEF IInv, ArrayInv, LocalInv, ControlInv, LockInv, TypeOK, Keys, Cells,
           Critical
<1> QED
  BY <1>1, Invariance, PTL

\* No two calls are in the fields at once, and no array is written that a
\* listing shares.
THEOREM RaceFree == Spec => []NoRace
<1>1. IInv => NoRace
  <2> SUFFICES ASSUME IInv, NEW c \in Clients, NEW d \in Clients, c # d
               PROVE  /\ pc[c] \in {"idle", "lock"} \/ pc[d] \in {"idle", "lock"}
                      /\ listing[d].len = 0 \/ listing[d].arr # tasks.arr
    BY DEF NoRace
  <2>1. pc[c] \in {"idle", "lock"} \/ pc[d] \in {"idle", "lock"}
    BY DEF IInv, ControlInv, LockInv
  <2>2. tasks.arr \notin Clients
    BY DEF IInv, ArrayInv, Shared
  <2> QED
    BY <2>1, <2>2 DEF IInv, ListingInv, Empty
<1> QED
  BY <1>1, Invariance, PTL

-----------------------------------------------------------------------------
(* The scheduler implements TaskList.                                      *)

LEMMA ShownStored ==
  ASSUME IInv, NEW c \in Clients, pc[c] = "store"
  PROVE  Shown = Slice(next[c])
<1>1. \A d \in Clients : pc[d] = "store" => d = c
  BY DEF IInv, ControlInv, LockInv, Critical
<1>2. (CHOOSE d \in Clients : pc[d] = "store") = c
  BY <1>1
<1> QED
  BY <1>2 DEF Shown

LEMMA ShownTasks ==
  ASSUME \A c \in Clients : pc[c] # "store"
  PROVE  Shown = Slice(tasks)
BY DEF Shown

LEMMA ListingsKept ==
  ASSUME IInv, IInv', \A d \in Clients : listing'[d] = listing[d],
         \A d \in Clients : arrays'[d] = arrays[d] \/ listing[d] = Empty
  PROVE  Listings' = Listings
<1>1. ASSUME NEW d \in Clients PROVE Slice(listing[d])' = Slice(listing[d])
  <2>1. CASE listing[d] = Empty
    <3>1. /\ Slice(Empty) = SubSeq(arrays[0], 1, 0)
          /\ Slice(Empty)' = SubSeq(arrays'[0], 1, 0)
      BY DEF Slice, Empty
    <3>2. SubSeq(arrays[0], 1, 0) = <<>> /\ SubSeq(arrays'[0], 1, 0) = <<>>
      BY SubSeqEmpty
    <3>3. Slice(listing[d]) = Slice(Empty) /\ Slice(listing[d])' = Slice(Empty)'
      BY <2>1
    <3> QED
      BY <3>1, <3>2, <3>3
  <2>2. CASE listing[d] # Empty
    BY <2>2 DEF IInv, ListingInv, Slice
  <2> QED
    BY <2>1, <2>2
<1> QED
  BY <1>1 DEF Listings

\* What the other clients have asked stays as it is, and with it Pending.
LEMMA PendingElsewhere ==
  ASSUME NEW c \in Clients, NEW x,
         \A d \in Clients \ {c} : pc'[d] = pc[d] /\ asked'[d] = asked[d],
         Pending'[c] = x
  PROVE  Pending' = [Pending EXCEPT ![c] = x]
<1> DEFINE P(p, a) == IF p \in {"lock", "append", "find", "shift", "make", "copy"}
                          /\ a \notin Switch
                      THEN a ELSE NoCall
<1>1. /\ Pending = [d \in Clients |-> P(pc[d], asked[d])]
      /\ Pending' = [d \in Clients |-> P(pc'[d], asked'[d])]
  BY DEF Pending, Acting
<1>2. \A d \in Clients \ {c} : P(pc'[d], asked'[d]) = P(pc[d], asked[d])
  OBVIOUS
<1> HIDE DEF P
<1> QED
  BY <1>1, <1>2

LEMMA PendingFixed ==
  ASSUME NEW c \in Clients,
         \A d \in Clients \ {c} : pc'[d] = pc[d] /\ asked'[d] = asked[d],
         Pending'[c] = Pending[c]
  PROVE  Pending' = Pending
<1>1. Pending' = [Pending EXCEPT ![c] = Pending[c]]
  BY PendingElsewhere
<1>2. Pending = [d \in Clients |-> Pending[d]]
  BY DEF Pending
<1> QED
  BY <1>1, <1>2

LEMMA ShownFixed ==
  ASSUME \A d \in Clients : pc[d] # "store" /\ pc'[d] # "store",
         tasks' = tasks, arrays'[tasks.arr] = arrays[tasks.arr]
  PROVE  Shown' = Shown
<1>1. Slice(tasks)' = Slice(tasks)
  BY DEF Slice
<1>2. Shown = Slice(tasks) /\ Shown' = Slice(tasks)'
  BY DEF Shown
<1> QED
  BY <1>1, <1>2

\* Steps that the list does not show: the client goes from one point of its
\* call to another without passing the one at which it takes effect.
LEMMA HiddenStep ==
  ASSUME IInv, IInv', NEW c \in Clients, NEW to,
         pc[c] # "store", to # "store",
         pc' = [pc EXCEPT ![c] = to],
         \A d \in Clients \ {c} : pc[d] # "store" /\ asked'[d] = asked[d],
         Pending'[c] = Pending[c],
         UNCHANGED <<tasks, listing, removed>>,
         \A a \in Keys \ {c} : arrays'[a] = arrays[a],
         arrays'[c] = arrays[c] \/ listing[c] = Empty
  PROVE  UNCHANGED L!vars
<1>1. \A d \in Clients \ {c} : pc'[d] = pc[d]
  BY DEF IInv, ControlInv, LockInv
<1>2. \A d \in Clients : pc[d] # "store" /\ pc'[d] # "store"
  BY <1>1 DEF IInv, ControlInv, LockInv
<1>3. Pending' = Pending
  BY <1>1, PendingFixed
<1>4. tasks.arr \in Keys \ {c}
  BY DEF IInv, ArrayInv, Shared, Keys
<1>5. Shown' = Shown
  BY <1>2, <1>4, ShownFixed
<1>6. Listings' = Listings
  BY ListingsKept DEF Keys
<1> QED
  BY <1>3, <1>5, <1>6 DEF L!vars

LEMMA StepImplements == IInv /\ IInv' /\ [Next]_vars => [L!Next]_(L!vars)
<1> SUFFICES ASSUME IInv, IInv', [Next]_vars PROVE [L!Next]_(L!vars)
  OBVIOUS
<1> USE DEF GoTo
<1>1. ASSUME NEW c \in Clients, Call(c) PROVE [L!Next]_(L!vars)
  <2>1. /\ UNCHANGED <<arrays, tasks>>
        /\ pc[c] = "idle" /\ pc' = [pc EXCEPT ![c] = "lock"]
    BY <1>1 DEF Call, field
  <2>2. PICK q \in AllCalls :
          /\ asked' = [asked EXCEPT ![c] = q]
          /\ listing' = [listing EXCEPT ![c] = IF q.op = "list" THEN Empty ELSE @]
          /\ removed' = [removed EXCEPT ![c] = @ /\ q.op # "remove"]
    BY <1>1 DEF Call, AllCalls
  <2>3. /\ \A d \in Clients \ {c} : pc'[d] = pc[d] /\ asked'[d] = asked[d]
        /\ pc'[c] = "lock" /\ asked'[c] = q
    BY <2>1, <2>2 DEF IInv, ControlInv, LockInv, AskedInv
  <2>4. Shown' = Shown
    <3>1. Slice(tasks)' = Slice(tasks) /\ \A d \in Clients : Slice(next[d])' = Slice(next[d])
      BY <1>1, <2>1 DEF Slice, Call
    <3>2. CASE \A d \in Clients : pc[d] # "store"
      <4>1. \A d \in Clients : pc'[d] # "store"
        BY <2>1, <2>3, <3>2
      <4> QED
        BY <2>1, <3>2, <4>1, ShownFixed
    <3>3. ASSUME NEW d \in Clients, pc[d] = "store" PROVE Shown' = Shown
      <4>1. Shown = Slice(next[d])
        BY <3>3, ShownStored
      <4>2. pc'[d] = "store"
        BY <2>1, <2>3, <3>3
      <4>3. \A e \in Clients : pc'[e] = "store" => e = d
        BY <4>2 DEF IInv, ControlInv, LockInv, Critical
      <4>4. (CHOOSE e \in Clients : pc'[e] = "store") = d
        BY <4>2, <4>3
      <4>5. Shown' = Slice(next[d])'
        BY <4>2, <4>4 DEF Shown
      <4> QED
        BY <4>1, <4>5, <3>1
    <3> QED
      BY <3>2, <3>3
  <2>5. Pending[c] = NoCall
    BY <2>1 DEF Pending, Acting
  <2>6. CASE q \in Switch
    <3>1. q.op # "list" /\ q.op # "remove"
      BY <2>6, CallCases
    <3>2. Pending'[c] = NoCall
      BY <2>3, <2>6 DEF Pending, Acting
    <3>3. Pending' = Pending
      BY <2>3, <2>5, <3>2, PendingFixed
    <3>4. removed' = removed /\ \A d \in Clients : listing'[d] = listing[d]
      <4>1. \A d \in Clients : listing'[d] = listing[d]
        BY <2>2, <3>1 DEF IInv, ListingInv
      <4>2. removed[c] \in BOOLEAN /\ removed \in [Clients -> BOOLEAN]
        BY DEF IInv
      <4>3. (removed[c] /\ q.op # "remove") = removed[c]
        BY <3>1, <4>2
      <4>4. removed' = [removed EXCEPT ![c] = removed[c]]
        BY <2>2, <4>3
      <4>5. removed' = removed
        BY <4>2, <4>4, Zenon
      <4> QED
        BY <4>1, <4>5
    <3>5. Listings' = Listings
      BY <2>1, <3>4, ListingsKept
    <3> QED
      BY <2>4, <3>3, <3>4, <3>5 DEF L!vars
  <2>7. CASE q \notin Switch
    <3>1. q \in L!Calls
      BY <2>7 DEF AllCalls
    <3>2. Pending'[c] = q
      BY <2>3, <2>7 DEF Pending, Acting
    <3>3. Pending' = [Pending EXCEPT ![c] = q]
      BY <2>3, <3>2, PendingElsewhere
    <3>4. Listings' = [Listings EXCEPT ![c] = IF q.op = "list" THEN <<>> ELSE @]
      <4>1. \A d \in Clients \ {c} : Slice(listing[d])' = Slice(listing[d])
        BY <2>1, <2>2 DEF Slice, IInv, ListingInv
      <4>2. q.op # "list" => Slice(listing[c])' = Slice(listing[c])
        BY <2>1, <2>2 DEF Slice, IInv, ListingInv
      <4>3. q.op = "list" => Slice(listing[c])' = <<>>
        <5>1. q.op = "list" => listing'[c] = Empty
          BY <2>2 DEF IInv, ListingInv
        <5>2. q.op = "list" => Slice(listing[c])' = SubSeq(arrays'[0], 1, 0)
          BY <5>1 DEF Slice, Empty
        <5> QED
          BY <5>2, SubSeqEmpty
      <4> QED
        BY <4>1, <4>2, <4>3 DEF Listings
    <3>5. L!Ask(c)
      BY <2>2, <2>4, <2>5, <3>1, <3>3, <3>4 DEF L!Ask, L!Nothing, NoCall
    <3> QED
      BY <3>5 DEF L!Next
  <2> QED
    BY <2>6, <2>7
<1>2. ASSUME NEW c \in Clients, Lock(c) PROVE UNCHANGED L!vars
  <2>1. /\ UNCHANGED <<arrays, tasks, listing, removed, asked>>
        /\ pc[c] = "lock" /\ pc' = [pc EXCEPT ![c] = First[asked[c].op]]
        /\ mutex = Free
    BY <1>2 DEF Lock, field, answer
  <2>2. asked[c] \in AllCalls /\ asked[c].op \in Ops
    BY <2>1, CallCases DEF IInv, ControlInv, AskedInv
  <2>3. First[asked[c].op] # "store"
    BY <2>2, FirstStep
  <2>4. pc'[c] = First[asked[c].op]
    BY <2>1 DEF IInv, ControlInv, LockInv
  <2>5. asked[c] \notin Switch => First[asked[c].op] \in {"append", "find", "make"}
    BY <2>2, CallCases DEF First, Ops
  <2>6. Pending'[c] = Pending[c]
    BY <2>1, <2>4, <2>5 DEF Pending, Acting
  <2>7. \A d \in Clients : pc[d] # "store"
    BY <2>1 DEF IInv, ControlInv, LockInv, Critical, Free
  <2> QED
    BY <2>1, <2>3, <2>6, <2>7, HiddenStep
<1>3. ASSUME NEW c \in Clients, Body(c) PROVE [L!Next]_(L!vars)
  <2>0. /\ pc[c] \in Critical
        /\ \A d \in Clients \ {c} : pc[d] # "store"
    <3>1. pc[c] \in Critical
      BY <1>3 DEF Body, Critical, AppendInPlace, AppendGrows, Store, Find,
         FindNothing, Shift, Make, Copy, StartRefused, StartAllowed, SetRunning,
         Stop, Unlock
    <3> QED
      BY <3>1, OnlyOne DEF IInv
  <2>a. pc \in [Clients -> {"idle", "lock"} \cup Critical] /\ DOMAIN asked = Clients
    BY DEF IInv, ControlInv, LockInv, AskedInv
  \* The steps with which a call on the list takes effect.
  <2>1. ASSUME pc' = [pc EXCEPT ![c] = "store"], Acting(c),
               asked' = asked, asked[c] \notin Switch, tasks' = tasks,
               UNCHANGED listing, \A d \in Clients : arrays'[d] = arrays[d]
        PROVE  /\ Shown = Slice(tasks) /\ Shown' = Slice(next[c])'
               /\ Pending[c] = asked[c]
               /\ Pending' = [Pending EXCEPT ![c] = NoCall]
               /\ Listings' = Listings
    <3>1. pc[c] # "store" /\ pc'[c] = "store"
      BY <2>a, <2>1 DEF Acting
    <3>2. Shown = Slice(tasks)
      BY <2>0, <3>1, ShownTasks
    <3>3. Shown' = Slice(next[c])'
      <4>1. \A e \in Clients : pc'[e] = "store" => e = c
        BY <3>1 DEF IInv, ControlInv, LockInv, Critical
      <4>2. (CHOOSE e \in Clients : pc'[e] = "store") = c
        BY <3>1, <4>1
      <4> QED
        BY <3>1, <4>2 DEF Shown
    <3>4. Pending[c] = asked[c]
      BY <2>1 DEF Pending
    <3>5. Pending'[c] = NoCall
      BY <3>1 DEF Pending, Acting
    <3>6. \A d \in Clients \ {c} : pc'[d] = pc[d] /\ asked'[d] = asked[d]
      BY <2>a, <2>1
    <3>7. Pending' = [Pending EXCEPT ![c] = NoCall]
      BY <3>5, <3>6, PendingElsewhere
    <3>8. Listings' = Listings
      BY <2>1, ListingsKept
    <3> QED
      BY <3>2, <3>3, <3>4, <3>7, <3>8
  <2>2. CASE AppendInPlace(c) \/ AppendGrows(c)
    <3>1. /\ pc[c] = "append" /\ pc' = [pc EXCEPT ![c] = "store"]
          /\ UNCHANGED <<asked, tasks, listing, removed>>
      BY <2>2 DEF AppendInPlace, AppendGrows, field, answer
    <3>2. /\ Slice(next[c])' = Append(Slice(tasks), asked[c].task)
          /\ \A d \in Clients : arrays'[d] = arrays[d]
      BY <2>2, InPlaceArray, GrownArray
    <3>3. asked[c].op = "add" /\ asked[c] \notin Switch
      BY <3>1, CallCases DEF IInv, ControlInv, AskedInv
    <3>4. Acting(c)
      BY <3>1 DEF Acting
    <3>5. /\ Shown = Slice(tasks) /\ Shown' = Slice(next[c])'
          /\ Pending[c] = asked[c]
          /\ Pending' = [Pending EXCEPT ![c] = NoCall]
          /\ Listings' = Listings
      BY <2>1, <3>1, <3>2, <3>3, <3>4
    <3>6. L!Add(c)
      BY <3>1, <3>2, <3>3, <3>5 DEF L!Add, L!Served, L!Nothing, NoCall
    <3> QED
      BY <3>6 DEF L!Next
  <2>3. CASE Store(c)
    <3>1. /\ UNCHANGED <<listing, removed, asked>>
          /\ pc[c] = "store" /\ pc' = [pc EXCEPT ![c] = "unlock"]
          /\ tasks' = next[c]
      BY <2>3 DEF Store, field, answer
    <3>2. \A d \in Clients : pc'[d] # "store"
      BY <2>0, <2>a, <3>1
    <3>3. Shown' = Slice(tasks)'
      BY <3>2 DEF Shown
    <3>4. Shown = Slice(next[c])
      BY <3>1, ShownStored
    <3>5. /\ next[c].arr \in Keys /\ tasks.arr \in Keys /\ tasks.arr \notin Clients
          /\ DOMAIN arrays = Keys
      BY <3>1 DEF IInv, ArrayInv, LocalInv, Shared, Keys
    <3>6. /\ arrays'[next[c].arr] = arrays[next[c].arr]
          /\ \A d \in Clients : arrays'[d] = arrays[d]
      BY <2>3, <3>5 DEF Store, Keys
    <3>7. Slice(tasks)' = Slice(next[c])
      BY <3>1, <3>6 DEF Slice
    <3>8. Listings' = Listings
      BY <3>1, <3>6, ListingsKept
    <3>9. Pending'[c] = NoCall /\ Pending[c] = NoCall
      BY <2>a, <3>1 DEF Pending, Acting
    <3>10. \A d \in Clients \ {c} : pc'[d] = pc[d] /\ asked'[d] = asked[d]
      BY <2>a, <3>1
    <3>11. Pending' = Pending
      BY <3>9, <3>10, PendingFixed
    <3> QED
      BY <3>1, <3>3, <3>4, <3>7, <3>8, <3>11 DEF L!vars
  <2>4. CASE Find(c)
    <3>1. /\ UNCHANGED <<arrays, tasks, listing, removed, asked>>
          /\ pc[c] = "find" /\ pc' = [pc EXCEPT ![c] = "shift"]
      BY <2>4 DEF Find, field, answer
    <3>2. Pending'[c] = Pending[c]
      BY <2>a, <3>1 DEF Pending, Acting
    <3> QED
      BY <2>0, <3>1, <3>2, HiddenStep
  <2>5. CASE FindNothing(c)
    <3>1. /\ UNCHANGED <<arrays, tasks, listing, asked>>
          /\ pc[c] = "find" /\ pc' = [pc EXCEPT ![c] = "unlock"]
          /\ removed' = [removed EXCEPT ![c] = FALSE]
          /\ \A i \in 1..tasks.len : Slice(tasks)[i].name # asked[c].name
      BY <2>5 DEF FindNothing, field
    <3>2. asked[c].op = "remove" /\ asked[c] \notin Switch
      BY <3>1, CallCases DEF IInv, ControlInv, AskedInv
    <3>3. \A d \in Clients : pc[d] # "store" /\ pc'[d] # "store"
      BY <2>0, <2>a, <3>1
    <3>4. Shown' = Shown /\ Shown = Slice(tasks)
      BY <3>1, <3>3, ShownFixed, ShownTasks
    <3>5. Len(Shown) = tasks.len
      BY <3>4, SharedSlice DEF IInv, ArrayInv
    <3>6. Pending[c] = asked[c] /\ Pending'[c] = NoCall
      BY <2>a, <3>1, <3>2 DEF Pending, Acting
    <3>7. \A d \in Clients \ {c} : pc'[d] = pc[d] /\ asked'[d] = asked[d]
      BY <2>a, <3>1
    <3>8. Pending' = [Pending EXCEPT ![c] = NoCall]
      BY <3>6, <3>7, PendingElsewhere
    <3>9. Listings' = Listings
      BY <3>1, ListingsKept
    <3>10. L!RemoveNothing(c)
      BY <3>1, <3>2, <3>4, <3>5, <3>6, <3>8, <3>9
         DEF L!RemoveNothing, L!Served, L!Nothing, NoCall
    <3> QED
      BY <3>10 DEF L!Next
  <2>6. CASE Shift(c)
    <3>1. /\ pc[c] = "shift" /\ pc' = [pc EXCEPT ![c] = "store"]
          /\ UNCHANGED <<asked, tasks, listing>>
          /\ removed' = [removed EXCEPT ![c] = TRUE]
      BY <2>6 DEF Shift, field
    <3>2. /\ Slice(next[c])' = L!Without(Slice(tasks), at[c])
          /\ \A d \in Clients : arrays'[d] = arrays[d]
      BY <2>6, ShiftedArray
    <3>3. asked[c].op = "remove" /\ asked[c] \notin Switch
      BY <3>1, CallCases DEF IInv, ControlInv, AskedInv
    <3>4. Acting(c)
      BY <3>1 DEF Acting
    <3>5. /\ Shown = Slice(tasks) /\ Shown' = Slice(next[c])'
          /\ Pending[c] = asked[c]
          /\ Pending' = [Pending EXCEPT ![c] = NoCall]
          /\ Listings' = Listings
      BY <2>1, <3>1, <3>2, <3>3, <3>4
    <3>6. L!FirstNamed(Slice(tasks), asked[c].name, at[c])
      BY <3>1 DEF IInv, LocalInv
    <3>7. at[c] \in 1..Len(Slice(tasks))
      BY <3>6 DEF L!FirstNamed
    <3>8. \E i \in 1..Len(Shown) : L!FirstNamed(Shown, Pending[c].name, i)
                                    /\ Shown' = L!Without(Shown, i)
      BY <3>2, <3>5, <3>6, <3>7
    <3>9. L!Remove(c)
      BY <3>1, <3>3, <3>5, <3>8 DEF L!Remove, L!Served, L!Nothing, NoCall
    <3> QED
      BY <3>9 DEF L!Next
  <2>7. CASE Make(c)
    <3>1. /\ UNCHANGED <<tasks, listing, removed, asked>>
          /\ pc[c] = "make" /\ pc' = [pc EXCEPT ![c] = "copy"]
      BY <2>7 DEF Make, field, answer
    <3>2. Pending'[c] = Pending[c]
      BY <2>a, <3>1 DEF Pending, Acting
    <3>3. \A a \in Keys \ {c} : arrays'[a] = arrays[a]
      BY <2>7 DEF Make, IInv, ArrayInv
    <3>4. listing[c] = Empty
      BY <3>1 DEF IInv, ListingInv
    <3> QED
      BY <2>0, <3>1, <3>2, <3>3, <3>4, HiddenStep
  <2>8. CASE Copy(c)
    <3>1. /\ UNCHANGED <<tasks, asked, removed>>
          /\ pc[c] = "copy" /\ pc' = [pc EXCEPT ![c] = "unlock"]
          /\ listing' = [listing EXCEPT ![c] = [arr |-> c, len |-> Len(arrays[c])]]
      BY <2>8 DEF Copy, field
    <3>2. CopiedArray(c)
      BY <2>8, CopyEffect
    <3>3. asked[c].op = "list" /\ asked[c] \notin Switch
      BY <3>1, CallCases DEF IInv, ControlInv, AskedInv
    <3>4. \A d \in Clients : pc[d] # "store" /\ pc'[d] # "store"
      BY <2>0, <2>a, <3>1
    <3>5. tasks.arr \in Keys \ {c} /\ Shared(tasks)
      BY DEF IInv, ArrayInv, Shared, Keys
    <3>6. Shown' = Shown /\ Shown = Slice(tasks)
      BY <3>1, <3>2, <3>4, <3>5, ShownFixed, ShownTasks DEF CopiedArray
    <3>7. Pending[c] = asked[c] /\ Pending'[c] = NoCall
      BY <2>a, <3>1, <3>3 DEF Pending, Acting
    <3>8. \A d \in Clients \ {c} : pc'[d] = pc[d] /\ asked'[d] = asked[d]
      BY <2>a, <3>1
    <3>9. Pending' = [Pending EXCEPT ![c] = NoCall]
      BY <3>7, <3>8, PendingElsewhere
    <3>10. ASSUME NEW d \in Clients \ {c} PROVE Slice(listing[d])' = Slice(listing[d])
      <4>1. listing'[d] = listing[d]
        BY <3>1 DEF IInv, ListingInv
      <4>2. listing[d].arr \in Keys \ {c}
        BY DEF IInv, ListingInv, Keys, Empty
      <4>3. arrays'[listing[d].arr] = arrays[listing[d].arr]
        BY <3>2, <4>2 DEF CopiedArray
      <4> QED
        BY <4>1, <4>3 DEF Slice
    <3>11. Slice(listing[c])' = Slice(tasks)
      <4> DEFINE k == tasks.len
                 p == Slice(listing[c])'
                 q == Slice(tasks)
      <4>1. listing'[c] = [arr |-> c, len |-> k]
        BY <3>1, <3>2 DEF IInv, ListingInv, CopiedArray
      <4>2. p = SubSeq(arrays'[c], 1, k)
        <5>1. listing'[c].arr = c /\ listing'[c].len = k
          BY <4>1
        <5>2. p = SubSeq(arrays'[listing'[c].arr], 1, listing'[c].len)
          BY DEF Slice
        <5> QED
          BY <5>1, <5>2
      <4>3. arrays'[c] \in Seq(Cells) /\ Len(arrays'[c]) = k /\ k \in Nat
        BY <3>2, <3>5 DEF CopiedArray, Shared
      <4>4. /\ p \in Seq(Cells) /\ Len(p) = k
            /\ \A i \in 1..k : p[i] = arrays'[c][i]
        BY <4>2, <4>3, SliceElements
      <4>5. /\ q \in Seq(Cells) /\ Len(q) = k
            /\ \A i \in 1..k : q[i] = arrays[tasks.arr][i]
        BY <3>5, SharedSlice DEF IInv
      <4>6. \A i \in 1..k : p[i] = q[i]
        BY <3>2, <4>4, <4>5 DEF CopiedArray
      <4> HIDE DEF p, q, k
      <4>7. p = q
        BY <4>3, <4>4, <4>5, <4>6, SeqEqual
      <4> QED
        BY <4>7 DEF p, q
    <3>12. Listings' = [Listings EXCEPT ![c] = Shown]
      BY <3>6, <3>10, <3>11 DEF Listings
    <3>13. L!List(c)
      BY <3>1, <3>3, <3>6, <3>7, <3>9, <3>12
         DEF L!List, L!Served, L!Nothing, NoCall
    <3> QED
      BY <3>13 DEF L!Next
  <2>9. CASE StartRefused(c)
    <3>1. /\ UNCHANGED <<arrays, tasks, listing, removed, asked>>
          /\ pc[c] = "start" /\ pc' = [pc EXCEPT ![c] = "unlock"]
      BY <2>9 DEF StartRefused, field, answer
    <3>2. Pending'[c] = Pending[c]
      BY <2>a, <3>1 DEF Pending, Acting
    <3> QED
      BY <2>0, <3>1, <3>2, HiddenStep
  <2>10. CASE StartAllowed(c)
    <3>1. /\ UNCHANGED <<arrays, tasks, listing, removed, asked>>
          /\ pc[c] = "start" /\ pc' = [pc EXCEPT ![c] = "set"]
      BY <2>10 DEF StartAllowed, field, answer
    <3>2. Pending'[c] = Pending[c]
      BY <2>a, <3>1 DEF Pending, Acting
    <3> QED
      BY <2>0, <3>1, <3>2, HiddenStep
  <2>11. CASE SetRunning(c)
    <3>1. /\ UNCHANGED <<arrays, tasks, listing, removed, asked>>
          /\ pc[c] = "set" /\ pc' = [pc EXCEPT ![c] = "unlock"]
      BY <2>11 DEF SetRunning, answer
    <3>2. Pending'[c] = Pending[c]
      BY <2>a, <3>1 DEF Pending, Acting
    <3> QED
      BY <2>0, <3>1, <3>2, HiddenStep
  <2>12. CASE Stop(c)
    <3>1. /\ UNCHANGED <<arrays, tasks, listing, removed, asked>>
          /\ pc[c] = "stop" /\ pc' = [pc EXCEPT ![c] = "unlock"]
      BY <2>12 DEF Stop, answer
    <3>2. Pending'[c] = Pending[c]
      BY <2>a, <3>1 DEF Pending, Acting
    <3> QED
      BY <2>0, <3>1, <3>2, HiddenStep
  <2>13. CASE Unlock(c)
    <3>1. /\ UNCHANGED <<arrays, tasks, listing, removed>>
          /\ pc[c] = "unlock" /\ pc' = [pc EXCEPT ![c] = "idle"]
          /\ \A d \in Clients \ {c} : asked'[d] = asked[d]
      BY <2>a, <2>13 DEF Unlock, field, answer
    <3>2. Pending'[c] = Pending[c]
      BY <2>a, <3>1 DEF Pending, Acting
    <3> QED
      BY <2>0, <3>1, <3>2, HiddenStep
  <2> QED
    BY <1>3, <2>2, <2>3, <2>4, <2>5, <2>6, <2>7, <2>8, <2>9, <2>10, <2>11, <2>12,
       <2>13 DEF Body
<1>4. CASE UNCHANGED vars
  <2>1. \A s : Slice(s)' = SubSeq(arrays[s'.arr], 1, s'.len)
    BY <1>4 DEF vars, Slice
  <2>2. Listings' = Listings
    BY <1>4 DEF vars, answer, Listings, Slice
  <2>3. Pending' = Pending
    BY <1>4 DEF vars, Pending, Acting
  <2>4. Shown' = Shown
    BY <1>4 DEF vars, field, Shown, Slice
  <2> QED
    BY <1>4, <2>2, <2>3, <2>4 DEF vars, answer, L!vars
<1> QED
  BY <1>1, <1>2, <1>3, <1>4 DEF Next

LEMMA InitImplements == Init => L!Init
<1> SUFFICES ASSUME Init PROVE L!Init
  OBVIOUS
<1>1. Slice(Empty) = <<>>
  <2>1. Slice(Empty) = SubSeq(arrays[0], 1, 0)
    BY DEF Slice, Empty
  <2> QED
    BY <2>1, SubSeqEmpty
<1>2. Shown = <<>>
  BY <1>1, ShownTasks DEF Init
<1>3. Pending = [c \in Clients |-> NoCall] /\ Listings = [c \in Clients |-> <<>>]
  BY <1>1 DEF Init, Pending, Acting, Listings
<1> QED
  BY <1>2, <1>3 DEF Init, L!Init, L!Nothing, NoCall

\* The scheduler implements the list: its calls act at one instant each, and
\* listings that were handed out stay as they are.
THEOREM SchedulerImplementsTaskList == Spec => ImplementsTaskList
BY InitIInv, NextIInv, InitImplements, StepImplements, PTL
   DEF Spec, ImplementsTaskList, L!Spec

\* What a client has been told is true of the list at the instant of its call: a
\* listing is the whole list, and stays so until the client asks again; a task
\* that was found has left the list, and it alone.
AnswersAreTrue ==
  [][\A c \in Clients :
       /\ Listings'[c] # Listings[c] =>
            \/ Pending[c] = NoCall /\ Listings'[c] = <<>>
            \/ Pending[c].op = "list" /\ Listings'[c] = Shown /\ Shown' = Shown
       /\ removed'[c] /\ ~removed[c] =>
            \E i \in 1..Len(Shown) :
              /\ L!FirstNamed(Shown, Pending[c].name, i)
              /\ Shown' = L!Without(Shown, i)]_vars

\* However other goroutines add, remove and list meanwhile, no call of ListTasks
\* or RemoveTask answers anything else.
THEOREM ListTasksAnswers == Spec => AnswersAreTrue
<1> DEFINE Answered(c) ==
      /\ Listings'[c] # Listings[c] =>
           \/ Pending[c] = NoCall /\ Listings'[c] = <<>>
           \/ Pending[c].op = "list" /\ Listings'[c] = Shown /\ Shown' = Shown
      /\ removed'[c] /\ ~removed[c] =>
           \E i \in 1..Len(Shown) :
             /\ L!FirstNamed(Shown, Pending[c].name, i)
             /\ Shown' = L!Without(Shown, i)
<1>1. ASSUME IInv, NEW c \in Clients, NEW d \in Clients,
             \/ L!Ask(d) \/ L!Add(d) \/ L!Remove(d) \/ L!RemoveNothing(d)
             \/ L!List(d)
      PROVE  Answered(c)
  <2>1. DOMAIN Listings = Clients /\ DOMAIN removed = Clients
    BY <1>1 DEF Listings, IInv, ListingInv, LocalInv
  <2> HIDE DEF Listings, Pending, Shown
  <2>2. CASE L!Ask(d)
    BY <2>1, <2>2 DEF L!Ask, L!Nothing, NoCall
  <2>3. CASE L!Add(d) \/ L!RemoveNothing(d)
    BY <2>1, <2>3 DEF L!Add, L!RemoveNothing
  <2>4. CASE L!Remove(d)
    BY <2>1, <2>4 DEF L!Remove, L!Served
  <2>5. CASE L!List(d)
    BY <2>1, <2>5 DEF L!List, L!Served
  <2> QED
    BY <1>1, <2>2, <2>3, <2>4, <2>5
<1>2. IInv /\ [L!Next]_(L!vars) => \A c \in Clients : Answered(c)
  BY <1>1 DEF L!Next, L!vars
<1> QED
  BY <1>2, InitIInv, NextIInv, StepImplements, PTL DEF Spec, AnswersAreTrue

-----------------------------------------------------------------------------
(* Why every call returns: whoever is inside the mutex is at most four     *)
(* steps away from its Unlock, and nothing else keeps the mutex taken.      *)

\* The steps that a call has left inside the mutex.
BodyLeft == [append |-> 3, find |-> 4, shift |-> 3, store |-> 2, make |-> 3,
             copy |-> 2, start |-> 3, set |-> 2, stop |-> 2, unlock |-> 1]

\* Whoever is inside has n steps left.
Inside(n) == mutex \in Clients /\ BodyLeft[pc[mutex]] = n

LEMMA BodyTable ==
  /\ BodyLeft["append"] = 3 /\ BodyLeft["find"] = 4 /\ BodyLeft["shift"] = 3
  /\ BodyLeft["store"] = 2  /\ BodyLeft["make"] = 3 /\ BodyLeft["copy"] = 2
  /\ BodyLeft["start"] = 3  /\ BodyLeft["set"] = 2  /\ BodyLeft["stop"] = 2
  /\ BodyLeft["unlock"] = 1
BY DEF BodyLeft

\* One that is inside has at most four steps left.
LEMMA InsideFour ==
  ControlInv => \/ mutex = Free
                \/ Inside(1) \/ Inside(2) \/ Inside(3) \/ Inside(4)
BY BodyTable DEF ControlInv, LockInv, Inside, Critical, Free

\* Every step of the body lowers their number, and Unlock frees the mutex.
LEMMA BodyLowers ==
  ASSUME ControlInv, NEW c \in Clients, Body(c)
  PROVE  /\ mutex = c
         /\ \/ pc[c] = "unlock" /\ pc' = [pc EXCEPT ![c] = "idle"] /\ mutex' = Free
            \/ /\ pc[c] # "unlock" /\ mutex' = c
               /\ pc'[c] \in Critical
               /\ BodyLeft[pc'[c]] < BodyLeft[pc[c]]
               /\ \A d \in Clients \ {c} : pc'[d] = pc[d]
<1> USE BodyTable DEF ControlInv, LockInv, Critical, GoTo
<1>1. CASE AppendInPlace(c) \/ AppendGrows(c)
  BY <1>1 DEF AppendInPlace, AppendGrows
<1>2. CASE Store(c)
  BY <1>2 DEF Store
<1>3. CASE Find(c) \/ FindNothing(c)
  BY <1>3 DEF Find, FindNothing
<1>4. CASE Shift(c)
  BY <1>4 DEF Shift
<1>5. CASE Make(c) \/ Copy(c)
  BY <1>5 DEF Make, Copy
<1>6. CASE StartRefused(c) \/ StartAllowed(c)
  BY <1>6 DEF StartRefused, StartAllowed
<1>7. CASE SetRunning(c) \/ Stop(c)
  BY <1>7 DEF SetRunning, Stop
<1>8. CASE Unlock(c)
  BY <1>8 DEF Unlock
<1> QED
  BY <1>1, <1>2, <1>3, <1>4, <1>5, <1>6, <1>7, <1>8 DEF Body

\* What the others do meanwhile: they wait for the mutex.
LEMMA InsideStep ==
  ASSUME ControlInv, [Next]_vars, mutex \in Clients
  PROVE  \/ (\E c \in Clients : Body(c))
         \/ mutex' = mutex /\ pc'[mutex] = pc[mutex]
<1> USE DEF ControlInv, LockInv, Critical, Free, GoTo
<1>1. ASSUME NEW c \in Clients, Call(c)
      PROVE  mutex' = mutex /\ pc'[mutex] = pc[mutex]
  BY <1>1 DEF Call
<1>2. ASSUME NEW c \in Clients, Lock(c) PROVE FALSE
  BY <1>2 DEF Lock
<1>3. CASE UNCHANGED vars
  BY <1>3 DEF vars
<1> QED
  BY <1>1, <1>2, <1>3 DEF Next

LEMMA InsideLowers ==
  ASSUME ControlInv, ControlInv', \E c \in Clients : Body(c),
         NEW n \in 1..4, Inside(n)
  PROVE  mutex' = Free \/ \E m \in 1..4 : m < n /\ Inside(m)'
<1>1. PICK c \in Clients : Body(c)
  OBVIOUS
<1>2. CASE mutex' = c /\ pc'[c] \in Critical /\ BodyLeft[pc'[c]] < BodyLeft[pc[c]]
  <2>1. BodyLeft[pc'[c]] \in 1..4
    BY <1>2, BodyTable DEF Critical
  <2>2. mutex = c
    BY <1>1, BodyLowers
  <2> QED
    BY <1>2, <2>1, <2>2 DEF Inside
<1> QED
  BY <1>1, <1>2, BodyLowers

\* The mutex is free again and again, whatever calls are made.
THEOREM MutexIsFreed == Spec /\ WhoMayStepDoes => []<>(mutex = Free)
<1> DEFINE F == mutex = Free
           A == Inside(1)
           B == Inside(2)
           C == Inside(3)
           D == Inside(4)
           Works == \E c \in Clients : Body(c)
<1>1. ControlInv => F \/ A \/ B \/ C \/ D
  BY InsideFour
<1>2. ControlInv /\ ControlInv' /\ [Next]_vars
        => /\ A => A' \/ F'
           /\ B => B' \/ A' \/ F'
           /\ C => C' \/ B' \/ A' \/ F'
           /\ D => D' \/ C' \/ B' \/ A' \/ F'
  <2> SUFFICES ASSUME ControlInv, ControlInv', [Next]_vars, NEW n \in 1..4, Inside(n)
               PROVE  F' \/ \E m \in 1..4 : m <= n /\ Inside(m)'
    BY DEF Inside
  <2>1. CASE Works
    BY <2>1, InsideLowers
  <2>2. CASE mutex' = mutex /\ pc'[mutex] = pc[mutex]
    BY <2>2 DEF Inside
  <2> QED
    BY <2>1, <2>2, InsideStep DEF Inside
<1>3. ControlInv /\ ControlInv' /\ Works
        => /\ A => F'
           /\ B => A' \/ F'
           /\ C => B' \/ A' \/ F'
           /\ D => C' \/ B' \/ A' \/ F'
  <2> SUFFICES ASSUME ControlInv, ControlInv', Works, NEW n \in 1..4, Inside(n)
               PROVE  F' \/ \E m \in 1..4 : m < n /\ Inside(m)'
    BY DEF Inside
  <2> QED
    BY InsideLowers
<1>4. WhoMayStepDoes => []<>F \/ []<><<Works>>_vars
  BY DEF WhoMayStepDoes
<1> HIDE DEF F, A, B, C, D, Works
<1>5. Spec /\ ([]<>F \/ []<><<Works>>_vars) => []<>F
  BY <1>1, <1>2, <1>3, InitControl, NextControl, PTL DEF Spec
<1> QED
  BY <1>4, <1>5 DEF F

\* What a goroutine that has made a call does next.
LEMMA CallGoesOn ==
  ASSUME ControlInv, NEW c \in Clients, [Next]_vars
  PROVE  /\ pc[c] = "lock" => pc'[c] = "lock" \/ mutex' = c
         /\ mutex = c => mutex' = c \/ pc'[c] = "idle"
<1> USE DEF ControlInv, LockInv, Critical, Free, GoTo
<1>1. ASSUME NEW d \in Clients, Call(d) \/ Lock(d)
      PROVE  /\ pc[c] = "lock" => pc'[c] = "lock" \/ mutex' = c
             /\ mutex = c => mutex' = c
  BY <1>1 DEF Call, Lock
<1>2. ASSUME NEW d \in Clients, Body(d)
      PROVE  /\ pc[c] = "lock" => pc'[c] = "lock"
             /\ mutex = c => mutex' = c \/ pc'[c] = "idle"
  BY <1>2, BodyLowers
<1>3. CASE UNCHANGED vars
  BY <1>3 DEF vars
<1> QED
  BY <1>1, <1>2, <1>3 DEF Next

\* Every call returns, for any number of goroutines: no one of them can keep
\* the others out for ever.
THEOREM EveryCallReturns == Spec /\ WhoMayStepDoes => CallsReturn
<1>1. ASSUME NEW c \in Clients
      PROVE  Spec /\ WhoMayStepDoes
               => []<>(pc[c] = "idle" \/ (asked[c].op = "add" /\ tasks.len = MaxLen))
  <2> DEFINE Fr   == mutex = Free
             Mine == mutex = c
             Wait == pc[c] = "lock"
             Out  == pc[c] = "idle"
             Full == asked[c].op = "add" /\ tasks.len = MaxLen
             May  == MayLock(c)
  <2>1. IInv => /\ Out \/ Wait \/ Mine
                /\ Mine => ~Fr /\ ~Wait
                /\ Wait /\ Fr => May \/ Full
    BY DEF IInv, ControlInv, LockInv, Critical, Free, MayLock, ArrayInv, Shared
  <2>2. IInv /\ [Next]_vars => (Wait => Wait' \/ Mine') /\ (Mine => Mine' \/ Out')
    BY CallGoesOn DEF IInv
  <2>3. Lock(c) => Mine'
    BY DEF Lock
  <2>4. WhoMayStepDoes => <>[]~May \/ []<><<Lock(c)>>_vars
    BY DEF WhoMayStepDoes
  <2>5. Spec /\ WhoMayStepDoes => []<>Fr
    BY MutexIsFreed
  <2> HIDE DEF Fr, Mine, Wait, Out, Full, May
  <2>6. Spec /\ []<>Fr /\ (<>[]~May \/ []<><<Lock(c)>>_vars) => []<>(Out \/ Full)
    BY <2>1, <2>2, <2>3, Invariance, PTL DEF Spec
  <2>7. Spec /\ WhoMayStepDoes => []<>(Out \/ Full)
    BY <2>4, <2>5, <2>6
  <2> QED
    BY <2>7 DEF Out, Full
<1> QED
  BY <1>1 DEF CallsReturn

=============================================================================
