--------------------------- MODULE CatalogProofs ----------------------------
(***************************************************************************)
(* Theorems about module Catalog, for any sets of processes and            *)
(* identifiers, any number of databases and any bound on the clocks.  IInv *)
(* says of each client what its record has to do with the storage, and of  *)
(* each listing under way what it has found so far.  A step of the system  *)
(* is Act(a) for one client a; the lemmas about Act say what a step leaves *)
(* alone (Frame), and what it does to the rest; the last ones, that it     *)
(* brings its operation nearer to the end.                                 *)
(***************************************************************************)
EXTENDS Catalog, WellFoundedInduction, TLAPS

USE CatalogAssumption DEF CatalogAssumption

\* The parts of TypeOK that are about clients.
PCs == {"idle", "list", "info", "remove", "removeSidecar", "store", "fill",
        "stat"}
Ops == Kinds \cup {"none", "list", "get", "delete"}

\* The record of one client, when the backups in U have been begun.
OpIn(U) ==
  [pc : PCs, op : Ops, db : 0..NumDBs,
   key : Ids \cup {None}, want : Ids \cup {None},
   dir : 0..Pages, todo : SUBSET U, got : SUBSET U,
   base : Ids \cup {None}, cur : Ids \cup {None}]

LEMMA PagesNat == Pages \in Nat
BY DEF Pages

LEMMA IdleTyped == \A U : Idle \in OpIn(U)
BY PagesNat DEF Idle, OpIn, PCs, Ops, Kinds, None

\* A client that leaves the identifiers in use alone.
LEMMA SetTyped ==
  ASSUME TypeOK, NEW c \in Clients, NEW r \in OpIn(Used), Set(c, r),
         UNCHANGED rec, data' \subseteq Used, sidecar' \subseteq Used
  PROVE  TypeOK'
BY DEF TypeOK, Set, OpIn, PCs, Ops, Used, Pages, Local

\* A client's record has its type, and it is the record of its fields.
LEMMA Typing ==
  ASSUME TypeOK, NEW c \in Clients
  PROVE  /\ cl[c] \in OpIn(Used)
         /\ data \subseteq Used /\ sidecar \subseteq Used
         /\ cl[c] = [pc |-> cl[c].pc, op |-> cl[c].op, db |-> cl[c].db,
                     key |-> cl[c].key, want |-> cl[c].want, dir |-> cl[c].dir,
                     todo |-> cl[c].todo, got |-> cl[c].got,
                     base |-> cl[c].base, cur |-> cl[c].cur]
BY DEF TypeOK, OpIn, PCs, Ops

\* The updates that a listing makes keep the type.
LEMMA NamesTyped ==
  ASSUME NEW U, NEW r \in OpIn(U), NEW d \in 0..Pages, NEW T \in SUBSET U
  PROVE  [r EXCEPT !.dir = d, !.todo = T] \in OpIn(U)
BY DEF OpIn

LEMMA VisitTyped ==
  ASSUME NEW U, NEW r \in OpIn(U), NEW T \in SUBSET U, NEW G \in SUBSET U
  PROVE  [r EXCEPT !.todo = T, !.got = G] \in OpIn(U)
BY DEF OpIn

\* The kinds of backup that need a base.
Partial == {"incremental", "differential"}

\* The record of a client in an operation, when U is the set of backups named.
OpOk(r, U) ==
  /\ r.op \in Partial => r.db \in DBs
  /\ r.op \in {"get", "delete"} => r.want \in U /\ (~Local => r.key = r.want)
  /\ r.pc = "remove" => r.op = "delete" /\ (~Local => r.cur = r.want)
  /\ r.pc \in {"store", "fill", "remove"} => r.cur \in U

OpInv == \A c \in Clients : OpOk(cl[c], Used)

\* Every step keeps the types.
LEMMA NextType == TypeOK /\ OpInv /\ [Next]_vars => TypeOK'
<1> SUFFICES ASSUME TypeOK, OpInv, Next PROVE TypeOK'
  <2>1. UNCHANGED vars /\ TypeOK => TypeOK'
    BY DEF vars, TypeOK, Used
  <2> QED
    BY <2>1
<1> USE DEF storage
<1>2. ASSUME NEW c \in Clients, ReadNames(c) PROVE TypeOK'
  <2> DEFINE r == [cl[c] EXCEPT !.dir = @ + 1,
                                !.todo = {b \in data : Page(b) = cl[c].dir + 1}]
  <2>a. cl[c].dir + 1 \in 0..Pages
    <3>1. cl[c].dir \in 0..Pages /\ cl[c].dir < Pages
      BY <1>2, Typing DEF ReadNames, OpIn
    <3> QED
      BY <3>1, PagesNat
  <2>b. {b \in data : Page(b) = cl[c].dir + 1} \in SUBSET Used
    BY Typing
  <2>1. r \in OpIn(Used)
    BY <2>a, <2>b, Typing, NamesTyped
  <2> HIDE DEF r
  <2>2. Set(c, r) /\ UNCHANGED <<rec, storage>>
    BY <1>2 DEF ReadNames, r
  <2> QED
    BY <2>1, <2>2, Typing, SetTyped
<1>3. ASSUME NEW c \in Clients, NEW b, NEW k \in BOOLEAN, Visit(c, b, k)
      PROVE  TypeOK'
  <2> DEFINE r == [cl[c] EXCEPT !.todo = @ \ {b},
                                !.got = IF k THEN @ \cup {b} ELSE @]
  <2>a. /\ cl[c].todo \ {b} \in SUBSET Used
        /\ (IF k THEN cl[c].got \cup {b} ELSE cl[c].got) \in SUBSET Used
    BY <1>3, Typing DEF Visit, OpIn, IsFirst
  <2>1. r \in OpIn(Used)
    BY <2>a, Typing, VisitTyped
  <2> HIDE DEF r
  <2>2. Set(c, r) /\ UNCHANGED <<rec, storage>>
    BY <1>3 DEF Visit, r
  <2> QED
    BY <2>1, <2>2, Typing, SetTyped
<1>4. ASSUME NEW c \in Clients, ListDone(c) PROVE TypeOK'
  <2> DEFINE r == [cl[c] EXCEPT !.pc = "info", !.todo = cl[c].got, !.got = {}]
  <2>1. r \in OpIn(Used)
    BY Typing, ZenonT(30) DEF OpIn, PCs
  <2> HIDE DEF r
  <2>2. Set(c, r) /\ UNCHANGED <<rec, storage>>
    BY <1>4 DEF ListDone, r
  <2> QED
    BY <2>1, <2>2, Typing, SetTyped
<1>5. ASSUME NEW c \in Clients, PickVictim(c) PROVE TypeOK'
  <2>1. PICK b \in Matches(c) :
          Set(c, [cl[c] EXCEPT !.pc = "remove", !.cur = b, !.got = {}])
    BY <1>5 DEF PickVictim
  <2>2. b \in Ids
    BY <2>1, Typing DEF Matches, OpIn, Used
  <2> DEFINE r == [cl[c] EXCEPT !.pc = "remove", !.cur = b, !.got = {}]
  <2>3. r \in OpIn(Used)
    BY <2>2, Typing, ZenonT(30) DEF OpIn, PCs
  <2> HIDE DEF r
  <2>4. Set(c, r) /\ UNCHANGED <<rec, storage>>
    BY <1>5, <2>1 DEF PickVictim, r
  <2> QED
    BY <2>3, <2>4, Typing, SetTyped
<1>6. ASSUME NEW c \in Clients, NEW p \in PCs, Set(c, [cl[c] EXCEPT !.pc = p]),
             UNCHANGED rec, data' \subseteq Used, sidecar' \subseteq Used
      PROVE  TypeOK'
  <2> DEFINE r == [cl[c] EXCEPT !.pc = p]
  <2>1. r \in OpIn(Used)
    BY Typing DEF OpIn
  <2> HIDE DEF r
  <2> QED
    BY <1>6, <2>1, SetTyped DEF r
<1>7. ASSUME NEW c \in Clients, Finish(c),
             UNCHANGED rec, data' \subseteq Used, sidecar' \subseteq Used
      PROVE  TypeOK'
  BY <1>7, IdleTyped, SetTyped DEF Finish
<1>8. ASSUME NEW c \in Clients, NEW r \in OpIn(Used), NEW d \in 0..NumDBs,
             NEW k \in Kinds, NEW base \in Ids \cup {None}, NEW t \in 0..MaxTime,
             NewBackup(c, r, d, k, base, t)
      PROVE  TypeOK'
  <2>1. PICK b \in Ids \ Used :
          /\ rec' = [rec EXCEPT ![b] =
                       [db |-> d, kind |-> k, start |-> t, base |-> base]]
          /\ Set(c, [r EXCEPT !.pc = "store", !.db = d, !.op = k,
                              !.base = base, !.cur = b])
    BY <1>8 DEF NewBackup
  <2>2. UNCHANGED storage
    BY <1>8 DEF NewBackup
  <2>3. rec' \in [Ids -> [db : 0..NumDBs, kind : Kinds \cup {"none"},
                         start : 0..MaxTime, base : Ids \cup {None}]]
    BY <2>1 DEF TypeOK
  <2>4. Used' = Used \cup {b}
    BY <2>1 DEF TypeOK, Used, Kinds
  <2> DEFINE q == [r EXCEPT !.pc = "store", !.db = d, !.op = k,
                            !.base = base, !.cur = b]
  <2>5. q \in OpIn(Used')
    <3>1. r \in OpIn(Used')
      BY <2>4 DEF OpIn
    <3>2. d \in 0..NumDBs /\ k \in Ops /\ b \in Ids \cup {None}
      BY <2>1 DEF Ops
    <3> QED
      BY <3>1, <3>2 DEF OpIn, PCs
  <2>6. \A o \in Clients : cl[o] \in OpIn(Used')
    BY <2>4, Typing DEF OpIn
  <2> HIDE DEF q
  <2>7. cl' = [cl EXCEPT ![c] = q]
    BY <2>1 DEF Set, q
  <2>8. cl' \in [Clients -> OpIn(Used')]
    BY <2>5, <2>6, <2>7 DEF TypeOK
  <2> QED
    BY <2>2, <2>3, <2>4, <2>8 DEF TypeOK, OpIn, PCs, Ops, Pages
<1>9. ASSUME NEW c \in Clients, NEW r \in OpIn(Used), Begin(c, r) PROVE TypeOK'
  <2> DEFINE q == [r EXCEPT !.pc = "list"]
  <2>1. q \in OpIn(Used)
    BY DEF OpIn, PCs
  <2> HIDE DEF q
  <2>2. Set(c, q) /\ UNCHANGED <<rec, storage>>
    BY <1>9 DEF Begin, q
  <2> QED
    BY <2>1, <2>2, Typing, SetTyped
<1>10. ASSUME NEW c \in Clients, FullBackup(c) PROVE TypeOK'
  <2>1. PICK d \in DBs, t \in 0..MaxTime : NewBackup(c, Idle, d, "full", None, t)
    BY <1>10 DEF FullBackup
  <2>2. d \in 0..NumDBs
    BY DEF DBs
  <2> QED
    BY <1>8, <2>1, <2>2, IdleTyped DEF Kinds
<1>11. ASSUME NEW c \in Clients, PickBase(c) PROVE TypeOK'
  <2>1. PICK b \in Latest(c), t \in 0..MaxTime :
          NewBackup(c, [cl[c] EXCEPT !.got = {}], cl[c].db, cl[c].op, b, t)
    BY <1>11 DEF PickBase
  <2>2. b \in Ids
    BY <2>1, Typing DEF Latest, FullEntries, OpIn, Used
  <2>3. cl[c].db \in 0..NumDBs /\ cl[c].op \in Kinds
    BY <1>11, Typing DEF PickBase, OpIn, Kinds
  <2>4. [cl[c] EXCEPT !.got = {}] \in OpIn(Used)
    BY Typing DEF OpIn
  <2> QED
    BY <1>8, <2>1, <2>2, <2>3, <2>4
<1>12. ASSUME NEW c \in Clients, PartialBackup(c) PROVE TypeOK'
  <2>1. PICK d \in DBs, k \in {"incremental", "differential"} :
          Begin(c, [Idle EXCEPT !.op = k, !.db = d])
    BY <1>12 DEF PartialBackup
  <2>0. k \in Ops /\ d \in 0..NumDBs
    BY DEF Ops, Kinds, DBs
  <2>2. [Idle EXCEPT !.op = k, !.db = d] \in OpIn(Used)
    BY <2>0, IdleTyped DEF OpIn
  <2> QED
    BY <1>9, <2>1, <2>2
<1>13. ASSUME NEW c \in Clients, ListBackups(c) PROVE TypeOK'
  <2>1. [Idle EXCEPT !.op = "list"] \in OpIn(Used)
    BY IdleTyped DEF OpIn, Ops
  <2> QED
    BY <1>9, <1>13, <2>1 DEF ListBackups
<1>14. ASSUME NEW c \in Clients, NEW o \in {"get", "delete"}, KeyedBegin(c, o)
       PROVE  TypeOK'
  <2>0. PICK b \in Used :
          \E k \in {b, EntryId(b)} :
            Begin(c, [Idle EXCEPT !.op = o, !.key = k, !.want = b])
    BY <1>14 DEF KeyedBegin
  <2>1. PICK k \in {b, EntryId(b)} :
          Begin(c, [Idle EXCEPT !.op = o, !.key = k, !.want = b])
    BY <2>0
  <2>2. b \in Ids /\ k \in Ids \cup {None}
    BY <2>1 DEF Used, EntryId
  <2>3. [Idle EXCEPT !.op = o, !.key = k, !.want = b] \in OpIn(Used)
    BY <2>2, IdleTyped DEF OpIn, Ops
  <2> QED
    BY <1>9, <2>1, <2>3
<1>15. ASSUME NEW c \in Clients, Call(c) PROVE TypeOK'
  <2>1. CASE VisitFound(c) \/ InfoFound(c)
    BY <1>3, <2>1 DEF VisitFound, InfoFound
  <2>2. CASE VisitSkipped(c) \/ InfoSkipped(c)
    BY <1>3, <2>2 DEF VisitSkipped, InfoSkipped
  <2>3. CASE WalkFails(c) \/ Answer(c) \/ NotFound(c) \/ RemoveFails(c) \/ Stat(c)
    BY <1>7, <2>3, Typing DEF WalkFails, Answer, NotFound, RemoveFails, Stat
  <2>4. CASE Remove(c)
    BY <1>6, <1>7, <2>4, Typing DEF Remove, PCs
  <2>5. CASE RemoveSidecar(c)
    BY <1>7, <2>5, Typing DEF RemoveSidecar
  <2>6. CASE Store(c)
    BY <1>6, <2>6, Typing DEF Store, OpInv, OpOk, PCs
  <2>7. CASE WriteSidecar(c)
    BY <1>6, <2>7, Typing DEF WriteSidecar, OpInv, OpOk, PCs
  <2> QED
    BY <1>2, <1>4, <1>5, <1>11, <1>15, <2>1, <2>2, <2>3, <2>4, <2>5, <2>6, <2>7
       DEF Call
<1>16. ASSUME NEW c \in Clients, Abort(c) PROVE TypeOK'
  BY <1>7, <1>16, Typing DEF Abort
<1> QED
  BY <1>10, <1>12, <1>13, <1>14, <1>15, <1>16
     DEF Next, Step, Start, GetBackup, DeleteBackup, Clients

-----------------------------------------------------------------------------
\* The steps of client a.
Act(a) ==
  \/ Call(a) \/ Abort(a) \/ FullBackup(a) \/ PartialBackup(a)
  \/ ListBackups(a) \/ GetBackup(a) \/ DeleteBackup(a)

LEMMA NextIsAct == Next => Track /\ \E a \in Clients : Act(a)
BY DEF Next, Step, Start, Act, Clients

\* Only the client that acts changes its record; what is known of a backup
\* never changes.
LEMMA Frame ==
  ASSUME TypeOK, NEW a \in Clients, Act(a)
  PROVE  /\ \A c \in Clients \ {a} : cl'[c] = cl[c]
         /\ Used \subseteq Used'
         /\ \A b \in Used : rec'[b] = rec[b]
<1> USE DEF storage, Set, Finish
<1>1. ASSUME UNCHANGED rec, NEW r, cl' = [cl EXCEPT ![a] = r]
      PROVE  /\ \A c \in Clients \ {a} : cl'[c] = cl[c]
             /\ Used \subseteq Used'
             /\ \A b \in Used : rec'[b] = rec[b]
  BY <1>1 DEF TypeOK, Used
<1>2. ASSUME NEW r, NEW d, NEW k, NEW base, NEW t, NewBackup(a, r, d, k, base, t)
      PROVE  /\ \A c \in Clients \ {a} : cl'[c] = cl[c]
             /\ Used \subseteq Used'
             /\ \A b \in Used : rec'[b] = rec[b]
  BY <1>2 DEF NewBackup, TypeOK, Used
<1>3. CASE FullBackup(a) \/ PickBase(a)
  BY <1>2, <1>3 DEF FullBackup, PickBase
<1>4. CASE PartialBackup(a) \/ ListBackups(a) \/ GetBackup(a) \/ DeleteBackup(a)
  BY <1>1, <1>4 DEF PartialBackup, ListBackups, GetBackup, DeleteBackup,
                    KeyedBegin, Begin
<1>5. CASE VisitFound(a) \/ InfoFound(a) \/ VisitSkipped(a) \/ InfoSkipped(a)
  BY <1>1, <1>5 DEF VisitFound, InfoFound, VisitSkipped, InfoSkipped, Visit
<1>6. CASE ReadNames(a) \/ ListDone(a) \/ PickVictim(a) \/ Store(a) \/ WriteSidecar(a)
  BY <1>1, <1>6 DEF ReadNames, ListDone, PickVictim, Store, WriteSidecar
<1>7. CASE WalkFails(a) \/ Answer(a) \/ NotFound(a) \/ Remove(a) \/ RemoveFails(a)
           \/ RemoveSidecar(a) \/ Stat(a) \/ Abort(a)
  BY <1>1, <1>7 DEF WalkFails, Answer, NotFound, Remove, RemoveFails,
                    RemoveSidecar, Stat, Abort
<1> QED
  BY <1>3, <1>4, <1>5, <1>6, <1>7 DEF Act, Call

-----------------------------------------------------------------------------
\* The client that acts keeps OpOk.
LEMMA OpStep ==
  ASSUME TypeOK, OpInv, NEW a \in Clients, Act(a)
  PROVE  OpOk(cl'[a], Used')
<1> USE DEF storage, Finish
<1>0. Used \subseteq Used'
  BY Frame
<1>1. OpOk(cl[a], Used')
  BY <1>0 DEF OpInv, OpOk
<1>2. ASSUME NEW r, Set(a, r) PROVE cl'[a] = r
  BY <1>2 DEF TypeOK, Set
<1>3. CASE Set(a, Idle)
  BY <1>2, <1>3 DEF OpOk, Idle, Partial
<1>4. CASE ReadNames(a)
  <2>1. cl'[a] = [cl[a] EXCEPT !.dir = @ + 1,
                               !.todo = {b \in data : Page(b) = cl[a].dir + 1}]
    BY <1>2, <1>4 DEF ReadNames
  <2> QED
    BY <1>1, <2>1, Typing DEF OpOk
<1>5. ASSUME NEW b, NEW k \in BOOLEAN, Visit(a, b, k) PROVE OpOk(cl'[a], Used')
  <2>1. cl'[a] = [cl[a] EXCEPT !.todo = @ \ {b},
                               !.got = IF k THEN @ \cup {b} ELSE @]
    BY <1>2, <1>5 DEF Visit
  <2> QED
    BY <1>1, <2>1, Typing DEF OpOk
<1>6. CASE ListDone(a)
  <2>1. cl'[a] = [cl[a] EXCEPT !.pc = "info", !.todo = cl[a].got, !.got = {}]
    BY <1>2, <1>6 DEF ListDone
  <2> QED
    BY <1>1, <2>1, Typing DEF OpOk
<1>7. CASE PickVictim(a)
  <2>1. PICK b \in Matches(a) :
          cl'[a] = [cl[a] EXCEPT !.pc = "remove", !.cur = b, !.got = {}]
    BY <1>2, <1>7 DEF PickVictim
  <2>2. b \in Used'
    BY <1>0, Typing DEF Matches, OpIn
  <2>3. ~Local => b = cl[a].key
    BY DEF Matches, IsMatch, IsFirst, EntryId
  <2>4. cl[a].op = "delete"
    BY <1>7 DEF PickVictim
  <2> QED
    BY <1>1, <2>1, <2>2, <2>3, <2>4, Typing DEF OpOk
<1>8. ASSUME NEW r, r.op \notin {"get", "delete"}, NEW d \in DBs, NEW k \in Kinds, NEW base,
             NEW t, NewBackup(a, r, d, k, base, t), r \in OpIn(Used)
      PROVE  OpOk(cl'[a], Used')
  <2>1. PICK b \in Ids \ Used :
          /\ rec' = [rec EXCEPT ![b] =
                       [db |-> d, kind |-> k, start |-> t, base |-> base]]
          /\ cl'[a] = [r EXCEPT !.pc = "store", !.db = d, !.op = k,
                                !.base = base, !.cur = b]
    BY <1>2, <1>8 DEF NewBackup
  <2>2. b \in Used'
    BY <2>1 DEF TypeOK, Used, Kinds
  <2> QED
    BY <1>8, <2>1, <2>2 DEF OpOk, Kinds, OpIn
<1>9. CASE FullBackup(a)
  BY <1>8, <1>9, IdleTyped DEF FullBackup, Kinds, Idle
<1>10. CASE PickBase(a)
  <2>1. cl[a].db \in DBs /\ cl[a].op \in Kinds
    BY <1>1, <1>10 DEF PickBase, OpOk, Partial, Kinds
  <2>2. /\ [cl[a] EXCEPT !.got = {}] \in OpIn(Used)
        /\ [cl[a] EXCEPT !.got = {}].op = cl[a].op
    BY Typing DEF OpIn
  <2> QED
    BY <1>8, <1>10, <2>1, <2>2 DEF PickBase
<1>11. CASE PartialBackup(a)
  <2>1. PICK d \in DBs, k \in Partial :
          cl'[a] = [[Idle EXCEPT !.op = k, !.db = d] EXCEPT !.pc = "list"]
    BY <1>2, <1>11 DEF PartialBackup, Begin, Partial
  <2> QED
    BY <2>1 DEF OpOk, Idle, Partial
<1>12. CASE ListBackups(a)
  <2>1. cl'[a] = [[Idle EXCEPT !.op = "list"] EXCEPT !.pc = "list"]
    BY <1>2, <1>12 DEF ListBackups, Begin
  <2> QED
    BY <2>1 DEF OpOk, Idle, Partial
<1>13. ASSUME NEW o \in {"get", "delete"}, KeyedBegin(a, o)
       PROVE  OpOk(cl'[a], Used')
  <2>1. PICK b \in Used : \E k \in {b, EntryId(b)} :
          cl'[a] = [[Idle EXCEPT !.op = o, !.key = k, !.want = b]
                      EXCEPT !.pc = "list"]
    BY <1>2, <1>13 DEF KeyedBegin, Begin
  <2> QED
    BY <1>0, <2>1 DEF OpOk, Idle, Partial, EntryId
<1>14. CASE Store(a)
  <2>1. cl'[a] = [cl[a] EXCEPT !.pc = IF Local THEN "fill" ELSE "stat"]
    BY <1>2, <1>14 DEF Store
  <2> QED
    BY <1>1, <1>14, <2>1, Typing DEF OpOk, Store
<1>15. CASE WriteSidecar(a)
  <2>1. cl'[a] = [cl[a] EXCEPT !.pc = "stat"]
    BY <1>2, <1>15 DEF WriteSidecar
  <2> QED
    BY <1>1, <2>1, Typing DEF OpOk
<1>16. CASE Remove(a)
  <2>1. CASE cl'[a] = [cl[a] EXCEPT !.pc = "removeSidecar"]
    BY <1>1, <2>1, Typing DEF OpOk
  <2> QED
    BY <1>2, <1>3, <1>16, <2>1 DEF Remove
<1> QED
  BY <1>3, <1>4, <1>5, <1>6, <1>7, <1>9, <1>10, <1>11, <1>12, <1>13, <1>14,
     <1>15, <1>16
     DEF Act, Call, VisitFound, InfoFound, VisitSkipped, InfoSkipped, WalkFails,
         Answer, NotFound, RemoveFails, RemoveSidecar, Stat, Abort, GetBackup,
         DeleteBackup

\* The base found is an entry of the listing and a full backup; a local storage
\* has none to offer, because the kind of its entries is lost.
LEMMA LatestAreFull ==
  ASSUME TypeOK, NEW c \in Clients, NEW b \in Latest(c)
  PROVE  /\ b \in cl[c].got /\ b \in Used
         /\ ~Local
         /\ rec[b].kind = "full"
BY Typing DEF Latest, FullEntries, EntryKind, OpIn

\* The step in which a backup gets its name.
LEMMA NewStep ==
  ASSUME TypeOK, OpInv, NEW a \in Clients, FullBackup(a) \/ PickBase(a)
  PROVE  \E b \in Ids \ Used, d \in DBs, k \in Kinds, base \in Ids \cup {None},
            t \in 0..MaxTime :
           /\ rec' = [rec EXCEPT ![b] =
                        [db |-> d, kind |-> k, start |-> t, base |-> base]]
           /\ base # None => Listed(a) /\ base \in Latest(a)
           /\ k = "full" => base = None
           /\ cl[a].pc # "store"
           /\ cl'[a].pc = "store" /\ cl'[a].cur = b
           /\ UNCHANGED storage
<1>1. ASSUME NEW r, Set(a, r) PROVE cl'[a] = r
  BY <1>1 DEF TypeOK, Set
<1>2. ASSUME NEW r \in OpIn(Used), NEW d \in DBs, NEW k \in Kinds,
             NEW base \in Ids \cup {None}, NEW t \in 0..MaxTime,
             cl[a].pc # "store", NewBackup(a, r, d, k, base, t)
      PROVE  \E b \in Ids \ Used :
               /\ rec' = [rec EXCEPT ![b] =
                            [db |-> d, kind |-> k, start |-> t, base |-> base]]
               /\ cl'[a].pc = "store" /\ cl'[a].cur = b
               /\ UNCHANGED storage
  <2>1. PICK b \in Ids \ Used :
          /\ rec' = [rec EXCEPT ![b] =
                       [db |-> d, kind |-> k, start |-> t, base |-> base]]
          /\ cl'[a] = [r EXCEPT !.pc = "store", !.db = d, !.op = k,
                                !.base = base, !.cur = b]
          /\ UNCHANGED storage
    BY <1>1, <1>2 DEF NewBackup
  <2>2. cl'[a].pc = "store" /\ cl'[a].cur = b
    BY <2>1 DEF OpIn
  <2> QED
    BY <2>1, <2>2
<1>3. CASE FullBackup(a)
  <2>1. PICK d \in DBs, t \in 0..MaxTime : NewBackup(a, Idle, d, "full", None, t)
    BY <1>3 DEF FullBackup
  <2>2. cl[a].pc # "store" /\ "full" \in Kinds
    BY <1>3 DEF FullBackup, Kinds
  <2>3. PICK b \in Ids \ Used :
          /\ rec' = [rec EXCEPT ![b] =
                       [db |-> d, kind |-> "full", start |-> t, base |-> None]]
          /\ cl'[a].pc = "store" /\ cl'[a].cur = b
          /\ UNCHANGED storage
    BY <1>2, <2>1, <2>2, IdleTyped
  <2> USE <2>2
  <2> WITNESS b \in Ids \ Used, d \in DBs, "full" \in Kinds,
              None \in Ids \cup {None}, t \in 0..MaxTime
  <2> QED
    BY <2>3
<1>4. CASE PickBase(a)
  <2>1. PICK base \in Latest(a), t \in 0..MaxTime :
          NewBackup(a, [cl[a] EXCEPT !.got = {}], cl[a].db, cl[a].op, base, t)
    BY <1>4 DEF PickBase
  <2>2. /\ cl[a].db \in DBs /\ cl[a].op \in Kinds /\ cl[a].op # "full"
        /\ cl[a].pc # "store"
    BY <1>4 DEF PickBase, OpInv, OpOk, Partial, Kinds, Listed
  <2>3. Listed(a) /\ base \in Latest(a) /\ base \in Ids
    BY <1>4, Typing DEF PickBase, Latest, FullEntries, OpIn, Used
  <2>4. [cl[a] EXCEPT !.got = {}] \in OpIn(Used)
    BY Typing, ZenonT(30) DEF OpIn
  <2> QED
    BY <1>2, <2>1, <2>2, <2>3, <2>4
<1> QED
  BY <1>3, <1>4

\* The step that starts a listing.
LEMMA BeginStep ==
  ASSUME TypeOK, NEW a \in Clients,
         PartialBackup(a) \/ ListBackups(a) \/ GetBackup(a) \/ DeleteBackup(a)
  PROVE  /\ cl[a].pc = "idle"
         /\ cl'[a].pc = "list" /\ cl'[a].dir = 0
         /\ cl'[a].todo = {} /\ cl'[a].got = {}
         /\ UNCHANGED <<rec, storage>>
<1>1. ASSUME NEW r \in [pc : {"idle"}, op : Ops, db : DBs \cup {0},
                        key : Ids \cup {None}, want : Ids \cup {None},
                        dir : {0}, todo : {{}}, got : {{}},
                        base : {None}, cur : {None}],
             Begin(a, r)
      PROVE  /\ cl[a].pc = "idle"
             /\ cl'[a].pc = "list" /\ cl'[a].dir = 0
             /\ cl'[a].todo = {} /\ cl'[a].got = {}
             /\ UNCHANGED <<rec, storage>>
  <2>1. cl'[a] = [r EXCEPT !.pc = "list"]
    BY <1>1 DEF Begin, Set, TypeOK
  <2> QED
    BY <1>1, <2>1 DEF Begin
<1>2. CASE PartialBackup(a)
  BY <1>1, <1>2 DEF PartialBackup, Idle, Ops, Kinds
<1>3. CASE ListBackups(a)
  BY <1>1, <1>3 DEF ListBackups, Idle, Ops
<1>4. ASSUME NEW o \in {"get", "delete"}, KeyedBegin(a, o)
      PROVE  \E b \in Used, k \in Ids \cup {None} :
               Begin(a, [Idle EXCEPT !.op = o, !.key = k, !.want = b])
  BY <1>4 DEF KeyedBegin, EntryId, Used
<1>5. CASE GetBackup(a) \/ DeleteBackup(a)
  BY <1>1, <1>4, <1>5 DEF GetBackup, DeleteBackup, Idle, Ops, Used
<1> QED
  BY <1>2, <1>3, <1>5

\* The other steps that leave no listing behind, or no backup to be stored.
LEMMA PlainStep ==
  ASSUME TypeOK, NEW a \in Clients,
         PickVictim(a) \/ Store(a) \/ WriteSidecar(a) \/ Remove(a)
  PROVE  /\ cl'[a].pc \notin {"list", "info", "store"}
         /\ UNCHANGED rec
<1>1. ASSUME NEW r, Set(a, r) PROVE cl'[a] = r
  BY <1>1 DEF TypeOK, Set
<1>2. CASE PickVictim(a)
  <2>1. PICK b : cl'[a] = [cl[a] EXCEPT !.pc = "remove", !.cur = b, !.got = {}]
    BY <1>1, <1>2 DEF PickVictim
  <2> QED
    BY <1>2, <2>1, Typing DEF PickVictim
<1>3. CASE Store(a) \/ WriteSidecar(a)
  <2>1. PICK p \in {"fill", "stat"} : cl'[a] = [cl[a] EXCEPT !.pc = p]
    BY <1>1, <1>3 DEF Store, WriteSidecar
  <2> QED
    BY <1>3, <2>1, Typing DEF Store, WriteSidecar
<1>4. CASE Remove(a)
  <2>1. \/ cl'[a] = [cl[a] EXCEPT !.pc = "removeSidecar"]
        \/ cl'[a] = Idle
    BY <1>1, <1>4 DEF Remove, Finish
  <2>2. cl'[a].pc \notin {"list", "info", "store"}
    <3>1. CASE cl'[a] = [cl[a] EXCEPT !.pc = "removeSidecar"]
      BY <3>1, Typing
    <3>2. CASE cl'[a] = Idle
      BY <3>2 DEF Idle
    <3> QED
      BY <2>1, <3>1, <3>2
  <2> QED
    BY <1>4, <2>2 DEF Remove
<1> QED
  BY <1>2, <1>3, <1>4

-----------------------------------------------------------------------------
\* Paths lie in one of the directories that Storage.List reads.
PathInv == \A b \in Used : rec[b].db \in DBs

LEMMA PageRange ==
  ASSUME TypeOK, PathInv, NEW b \in Used PROVE Page(b) \in 1..Pages
<1>1. rec[b].db \in DBs /\ Rank(rec[b].kind) \in 1..3
  BY DEF PathInv, Rank
<1> QED
  BY <1>1 DEF Page, Pages, Dir, DBs

LEMMA PageFixed ==
  ASSUME TypeOK, NEW a \in Clients, Act(a), NEW b \in Used
  PROVE  Page(b)' = Page(b)
BY Frame DEF Page, Dir

\* A listing under way has only seen what was there; behind it, nothing that
\* was there all the time is missing.
HistOk(c) ==
  /\ since[c] \subseteq data
  /\ seen[c] \subseteq Used
  /\ Listing(cl[c]) => cl[c].todo \subseteq seen[c] /\ cl[c].got \subseteq seen[c]
  /\ ~Flaky /\ cl[c].pc = "list" =>
       \A b \in since[c] : Page(b) <= cl[c].dir => b \in cl[c].todo \cup cl[c].got
  /\ ~Flaky /\ cl[c].pc = "info" => since[c] \subseteq cl[c].todo \cup cl[c].got

\* The listing of a client that does not act stays right.
LEMMA HistOther ==
  ASSUME TypeOK, TypeOK', NEW a \in Clients, Act(a), Track,
         NEW c \in Clients, c # a, HistOk(c)
  PROVE  HistOk(c)'
<1>1. /\ cl'[c] = cl[c] /\ Used \subseteq Used'
      /\ data \subseteq Used /\ data' \subseteq Used'
  BY Frame DEF TypeOK
<1>2. \A b \in since[c] : Page(b)' = Page(b)
  BY <1>1, PageFixed DEF HistOk
<1>3. CASE Listing(cl[c])
  <2>1. since'[c] = since[c] \cap data' /\ seen'[c] = seen[c] \cup data'
    BY <1>1, <1>3 DEF Track
  <2> QED
    BY <1>1, <1>2, <1>3, <2>1 DEF HistOk
<1>4. CASE ~Listing(cl[c])
  <2>1. since'[c] = {} /\ seen'[c] = {}
    BY <1>1, <1>4 DEF Track
  <2> QED
    BY <1>1, <1>4, <2>1 DEF HistOk, Listing
<1> QED
  BY <1>3, <1>4

\* So does the listing of the client that acts.
LEMMA HistSelf ==
  ASSUME TypeOK, TypeOK', OpInv, PathInv, PathInv', NEW a \in Clients, Act(a),
         Track, HistOk(a)
  PROVE  HistOk(a)'
<1> USE DEF storage, Finish
<1>1. /\ Used \subseteq Used' /\ data \subseteq Used /\ data' \subseteq Used'
      /\ \A b \in since[a] : Page(b)' = Page(b)
  BY Frame, PageFixed DEF TypeOK, HistOk
<1>2. ASSUME NEW r, Set(a, r) PROVE cl'[a] = r
  BY <1>2 DEF TypeOK, Set
<1>3. CASE ~Listing(cl'[a])
  <2>1. since'[a] = {} /\ seen'[a] = {}
    BY <1>3 DEF Track
  <2> QED
    BY <1>3, <2>1 DEF HistOk, Listing
<1>4. ASSUME Listing(cl[a]), Listing(cl'[a])
      PROVE  since'[a] = since[a] \cap data' /\ seen'[a] = seen[a] \cup data'
  BY <1>4 DEF Track
<1>5. ASSUME NEW r, r.todo = {}, r.got = {}, r.dir = 0, r.pc = "list",
             cl'[a] = r, ~Listing(cl[a])
      PROVE  HistOk(a)'
  <2>1. since'[a] = data' /\ seen'[a] = data'
    BY <1>5 DEF Track, Listing
  <2>2. \A b \in data' : Page(b)' \in 1..Pages
    <3>1. ASSUME TypeOK', PathInv', NEW b \in Used' PROVE Page(b)' \in 1..Pages
      <4>1. rec'[b].db \in DBs /\ Rank(rec'[b].kind) \in 1..3
        BY <3>1 DEF PathInv, Rank
      <4> QED
        BY <4>1 DEF Page, Pages, Dir, DBs
    <3> QED
      BY <1>1, <3>1
  <2> QED
    BY <1>1, <1>5, <2>1, <2>2, PagesNat DEF HistOk
<1>6. CASE ReadNames(a)
  <2> DEFINE T == {b \in data : Page(b) = cl[a].dir + 1}
  <2>1. cl'[a] = [cl[a] EXCEPT !.dir = @ + 1, !.todo = T]
    BY <1>2, <1>6 DEF ReadNames
  <2>2. /\ cl[a].pc = "list" /\ cl'[a].pc = "list" /\ cl'[a].dir = cl[a].dir + 1
        /\ cl[a].todo = {} /\ cl'[a].todo = T /\ cl'[a].got = cl[a].got
        /\ data' = data
    BY <1>6, <2>1, Typing DEF ReadNames
  <2>5. cl[a].dir \in Nat
    <3>1. cl[a].dir \in 0..Pages
      BY Typing DEF OpIn
    <3> QED
      BY <3>1, PagesNat
  <2>3. \A b \in since[a] : Page(b) \in Nat
    BY <1>1, PageRange, PagesNat DEF HistOk
  <2>4. Listing(cl[a]) /\ Listing(cl'[a])
    BY <2>2 DEF Listing
  <2> QED
    BY <1>1, <1>4, <2>2, <2>3, <2>4, <2>5 DEF HistOk
<1>7. ASSUME NEW b, NEW k \in BOOLEAN, Visit(a, b, k), Listing(cl[a]),
             k \/ Flaky \/ b \notin data
      PROVE  HistOk(a)'
  <2>1. cl'[a] = [cl[a] EXCEPT !.todo = @ \ {b},
                               !.got = IF k THEN @ \cup {b} ELSE @]
    BY <1>2, <1>7 DEF Visit
  <2>2. /\ cl'[a].pc = cl[a].pc /\ cl'[a].dir = cl[a].dir
        /\ cl'[a].todo = cl[a].todo \ {b} /\ data' = data
        /\ cl'[a].got = IF k THEN cl[a].got \cup {b} ELSE cl[a].got
        /\ b \in cl[a].todo
    BY <1>7, <2>1, Typing DEF Visit, IsFirst
  <2>3. Listing(cl'[a])
    BY <1>7, <2>2 DEF Listing
  <2> QED
    BY <1>1, <1>4, <1>7, <2>2, <2>3 DEF HistOk
<1>8. CASE ListDone(a)
  <2>1. cl'[a] = [cl[a] EXCEPT !.pc = "info", !.todo = cl[a].got, !.got = {}]
    BY <1>2, <1>8 DEF ListDone
  <2>2. /\ cl[a].pc = "list" /\ cl[a].todo = {} /\ cl[a].dir = Pages
        /\ cl'[a].pc = "info" /\ cl'[a].todo = cl[a].got /\ cl'[a].got = {}
        /\ data' = data
    BY <1>8, <2>1, Typing DEF ListDone
  <2>3. \A b \in since[a] : Page(b) <= cl[a].dir
    BY <1>1, <2>2, PageRange, PagesNat DEF HistOk
  <2>4. Listing(cl[a]) /\ Listing(cl'[a])
    BY <2>2 DEF Listing
  <2> QED
    BY <1>1, <1>4, <2>2, <2>3, <2>4 DEF HistOk
<1>9. CASE PartialBackup(a) \/ ListBackups(a) \/ GetBackup(a) \/ DeleteBackup(a)
  BY <1>5, <1>9, BeginStep DEF Listing
<1>10. ASSUME Set(a, Idle) PROVE HistOk(a)'
  BY <1>2, <1>3, <1>10 DEF Listing, Idle
<1>11. CASE FullBackup(a) \/ PickBase(a)
  BY <1>3, <1>11, NewStep DEF Listing
<1>12. CASE PickVictim(a) \/ Store(a) \/ WriteSidecar(a) \/ Remove(a)
  BY <1>3, <1>12, PlainStep DEF Listing
<1> QED
  BY <1>6, <1>7, <1>8, <1>9, <1>10, <1>11, <1>12
     DEF Act, Call, VisitFound, InfoFound, VisitSkipped, InfoSkipped, WalkFails,
         Answer, NotFound, RemoveFails, RemoveSidecar, Stat, Abort, Listing

-----------------------------------------------------------------------------
\* A step gives a backup its name, or leaves all that is known of backups.
LEMMA RecStep ==
  ASSUME TypeOK, NEW a \in Clients, Act(a), ~FullBackup(a), ~PickBase(a)
  PROVE  /\ UNCHANGED rec
         /\ cl'[a].pc # "store"
<1> USE DEF storage, Finish
<1>1. CASE PartialBackup(a) \/ ListBackups(a) \/ GetBackup(a) \/ DeleteBackup(a)
  BY <1>1, BeginStep
<1>2. CASE PickVictim(a) \/ Store(a) \/ WriteSidecar(a) \/ Remove(a)
  BY <1>2, PlainStep
<1>3. ASSUME NEW r, Set(a, r) PROVE cl'[a] = r
  BY <1>3 DEF TypeOK, Set
<1>4. CASE Set(a, Idle) /\ UNCHANGED rec
  BY <1>3, <1>4 DEF Idle
<1>5. CASE ReadNames(a)
  <2>1. PICK T : cl'[a] = [cl[a] EXCEPT !.dir = @ + 1, !.todo = T]
    BY <1>3, <1>5 DEF ReadNames
  <2> QED
    BY <1>5, <2>1, Typing DEF ReadNames
<1>6. ASSUME NEW b, NEW k \in BOOLEAN, Visit(a, b, k), cl[a].pc # "store"
      PROVE  UNCHANGED rec /\ cl'[a].pc # "store"
  <2>1. PICK T, G : cl'[a] = [cl[a] EXCEPT !.todo = T, !.got = G]
    BY <1>3, <1>6 DEF Visit
  <2> QED
    BY <1>6, <2>1, Typing DEF Visit
<1>7. CASE ListDone(a)
  <2>1. cl'[a] = [cl[a] EXCEPT !.pc = "info", !.todo = cl[a].got, !.got = {}]
    BY <1>3, <1>7 DEF ListDone
  <2> QED
    BY <1>7, <2>1, Typing DEF ListDone
<1> QED
  BY <1>1, <1>2, <1>4, <1>5, <1>6, <1>7
     DEF Act, Call, VisitFound, InfoFound, VisitSkipped, InfoSkipped, WalkFails,
         Answer, NotFound, RemoveFails, RemoveSidecar, Stat, Abort

\* What is recorded of a backup and its base; no backup is stored by two.
BaseInv ==
  /\ \A b \in Used :
       /\ rec[b].kind = "full" => rec[b].base = None
       /\ rec[b].base # None =>
            /\ rec[b].base \in Used
            /\ rec[rec[b].base].kind = "full"
  /\ \A b \in Ids \ Used : rec[b].base = None

StoreInv ==
  \A c, d \in Clients :
    c # d /\ cl[c].pc = "store" /\ cl[d].pc = "store" => cl[c].cur # cl[d].cur

\* What is recorded stays right.
LEMMA RecInvStep ==
  ASSUME TypeOK, OpInv, PathInv, BaseInv, StoreInv, NEW a \in Clients, Act(a)
  PROVE  PathInv' /\ BaseInv' /\ StoreInv'
<1>1. CASE FullBackup(a) \/ PickBase(a)
  <2>1. PICK b \in Ids \ Used, d \in DBs, k \in Kinds, base \in Ids \cup {None},
             t \in 0..MaxTime :
           /\ rec' = [rec EXCEPT ![b] =
                        [db |-> d, kind |-> k, start |-> t, base |-> base]]
           /\ base # None => Listed(a) /\ base \in Latest(a)
           /\ k = "full" => base = None
           /\ cl[a].pc # "store"
           /\ cl'[a].pc = "store" /\ cl'[a].cur = b
           /\ UNCHANGED storage
    BY <1>1, NewStep
  <2>2. Used' = Used \cup {b}
    BY <2>1 DEF TypeOK, Used, Kinds
  <2>3. /\ rec'[b] = [db |-> d, kind |-> k, start |-> t, base |-> base]
        /\ \A o \in Ids \ {b} : rec'[o] = rec[o]
    BY <2>1 DEF TypeOK
  <2>4. base # None => base \in Used /\ rec[base].kind = "full"
    BY <2>1, LatestAreFull
  <2>7. PathInv'
    BY <2>2, <2>3 DEF PathInv, Used
  <2>8. BaseInv'
    <3>1. \A o \in Used : o # b /\ rec'[o] = rec[o]
      BY <2>1, <2>3 DEF Used
    <3>2. \A o \in Ids \ Used' : rec'[o].base = None
      BY <2>2, <2>3 DEF BaseInv
    <3>3. ASSUME NEW o \in Used
          PROVE  /\ rec'[o].kind = "full" => rec'[o].base = None
                 /\ rec'[o].base # None =>
                      /\ rec'[o].base \in Used'
                      /\ rec'[rec'[o].base].kind = "full"
      BY <2>1, <2>2, <3>1 DEF BaseInv
    <3>4. /\ rec'[b].kind = "full" => rec'[b].base = None
          /\ rec'[b].base # None =>
               /\ rec'[b].base \in Used'
               /\ rec'[rec'[b].base].kind = "full"
      BY <2>1, <2>2, <2>3, <2>4, <3>1 DEF BaseInv
    <3> QED
      BY <2>2, <3>2, <3>3, <3>4 DEF BaseInv
  <2>9. StoreInv'
    BY <2>1, Frame DEF StoreInv, OpInv, OpOk
  <2> QED
    BY <2>7, <2>8, <2>9
<1>2. CASE ~FullBackup(a) /\ ~PickBase(a)
  <2>1. UNCHANGED rec /\ cl'[a].pc # "store" /\ Used' = Used
    BY <1>2, RecStep DEF Used
  <2>2. PathInv' /\ BaseInv'
    BY <2>1 DEF PathInv, BaseInv
  <2>3. StoreInv'
    BY <2>1, Frame DEF StoreInv
  <2> QED
    BY <2>2, <2>3
<1> QED
  BY <1>1, <1>2

\* The inductive invariant.
HistInv == \A c \in Clients : HistOk(c)

IInv ==
  /\ TypeOK
  /\ OpInv
  /\ PathInv
  /\ BaseInv
  /\ StoreInv
  /\ HistInv

LEMMA InitIInv == Init => IInv
<1> SUFFICES ASSUME Init PROVE IInv
  OBVIOUS
<1> USE DEF Init
<1>1. Used = {}
  BY DEF Used, Unused
<1>2. TypeOK
  BY <1>1, IdleTyped DEF TypeOK, OpIn, PCs, Ops, Unused
<1>3. OpInv /\ StoreInv
  BY DEF OpInv, OpOk, StoreInv, Idle, Partial
<1>4. PathInv /\ BaseInv
  BY <1>1 DEF PathInv, BaseInv, Unused
<1>5. HistInv
  BY DEF HistInv, HistOk, Idle, Listing
<1> QED
  BY <1>2, <1>3, <1>4, <1>5 DEF IInv

LEMMA NextIInv == IInv /\ [Next]_vars => IInv'
<1> SUFFICES ASSUME IInv, [Next]_vars PROVE IInv'
  OBVIOUS
<1>1. CASE UNCHANGED vars
  BY <1>1 DEF vars, IInv, TypeOK, OpInv, OpOk, PathInv, BaseInv, StoreInv,
              HistInv, HistOk, Used, Page, Dir
<1>2. ASSUME NEW a \in Clients, Act(a), Track, Next PROVE IInv'
  <2>1. TypeOK'
    BY <1>2, NextType DEF IInv
  <2>2. OpInv'
    <3>1. \A c \in Clients \ {a} : OpOk(cl'[c], Used')
      BY <1>2, Frame DEF IInv, OpInv, OpOk
    <3> QED
      BY <1>2, <3>1, OpStep DEF IInv, OpInv
  <2>4. PathInv' /\ BaseInv' /\ StoreInv'
    BY <1>2, RecInvStep DEF IInv
  <2>5. HistInv'
    BY <1>2, <2>1, <2>4, HistOther, HistSelf DEF IInv, HistInv
  <2> QED
    BY <2>1, <2>2, <2>4, <2>5 DEF IInv
<1> QED
  BY <1>1, <1>2, NextIsAct

LEMMA Invariance == Spec => []IInv
BY InitIInv, NextIInv, PTL DEF Spec

\* All variables keep their types; in particular every file in the storage has
\* the path of a backup that was named, and no listing holds any other.
THEOREM TypeCorrect == Spec => []TypeOK
<1>1. IInv => TypeOK
  BY DEF IInv
<1> QED
  BY <1>1, Invariance, PTL

\* The base of a backup is a full one: no chain of bases is longer than one
\* link, also when incremental and differential backups are in the listing
\* that findLatestFullBackup reads (incremental.go 38-59).
BaseIsFull ==
  \A b \in Ids : rec[b].base # None =>
    rec[rec[b].base].kind = "full" /\ rec[rec[b].base].base = None

\* With any provider, and whatever is deleted meanwhile, chains have one link.
THEOREM ChainsHaveOneLink == Spec => []BaseIsFull
<1>1. IInv => BaseIsFull
  BY DEF IInv, BaseInv, BaseIsFull, Used
<1> QED
  BY <1>1, Invariance, PTL

LEMMA HistListing == IInv /\ ~Flaky => ListingIsBetween
BY DEF IInv, HistInv, HistOk, ListingIsBetween, Listed, Listing

\* If no request fails, a listing has every backup that existed all the time
\* and none that never did, however many processes store and delete.
THEOREM ListingConsistent == ASSUME ~Flaky PROVE Spec => []ListingIsBetween
<1>1. IInv => ListingIsBetween
  BY HistListing
<1> QED
  BY <1>1, Invariance, PTL

\* In an object store whose requests do not fail, GetBackup and DeleteBackup
\* find the backup that is meant, and no other.
THEOREM KnownFound ==
  ASSUME ~Flaky, ~Local PROVE Spec => []KnownBackupIsFound
<1>1. IInv => KnownBackupIsFound
  <2> SUFFICES ASSUME IInv, NEW c \in Clients, Listed(c),
                      cl[c].op \in {"get", "delete"}, cl[c].want \in since[c]
               PROVE  Matches(c) = {cl[c].want}
    BY DEF KnownBackupIsFound
  <2>1. cl[c].want \in cl[c].got
    BY HistListing DEF ListingIsBetween
  <2>2. cl[c].key = cl[c].want
    BY DEF IInv, OpInv, OpOk
  <2>3. {o \in cl[c].got : EntryId(o) = cl[c].key} = {cl[c].want}
    BY <2>1, <2>2 DEF EntryId
  <2> QED
    BY <2>1, <2>3 DEF Matches, IsMatch, IsFirst
<1> QED
  BY <1>1, Invariance, PTL

-----------------------------------------------------------------------------
\* The variables of module Vault that the catalog computes.
Pending == {cl[c].cur : c \in {p \in Clients : cl[p].pc = "store"}}
Asked   == {cl[c].want : c \in {p \in Clients : cl[p].op = "delete"}}

LEMMA AskedAreIds == IInv => Asked \subseteq Ids
BY DEF IInv, OpInv, OpOk, Asked, Used

\* Every step of the catalog is one of the vault, or leaves it alone.
LEMMA VaultStep ==
  ASSUME ~Local, IInv, IInv', NEW a \in Clients, Act(a)
  PROVE  V!Next
<1> USE DEF storage, Finish
<1>a. TypeOK /\ OpInv /\ StoreInv /\ Asked' \subseteq Ids
  BY AskedAreIds DEF IInv, Asked, OpInv, OpOk, Used
<1>b. \A c \in Clients \ {a} : cl'[c] = cl[c]
  BY <1>a, Frame
<1>1. ASSUME UNCHANGED <<rec, data>>, cl[a].pc # "store", cl'[a].pc # "store"
      PROVE  V!Next
  <2>1. Pending' = Pending
    BY <1>1, <1>b DEF Pending
  <2>2. V!Ask
    BY <1>1, <2>1 DEF V!Ask, Pending, Used
  <2> QED
    BY <1>a, <2>2 DEF V!Next, Asked
<1>2. CASE FullBackup(a) \/ PickBase(a)
  <2>1. PICK b \in Ids \ Used, d \in DBs, k \in Kinds, base \in Ids \cup {None},
             t \in 0..MaxTime :
           /\ rec' = [rec EXCEPT ![b] =
                        [db |-> d, kind |-> k, start |-> t, base |-> base]]
           /\ base # None => Listed(a) /\ base \in Latest(a)
           /\ k = "full" => base = None
           /\ cl[a].pc # "store"
           /\ cl'[a].pc = "store" /\ cl'[a].cur = b
           /\ UNCHANGED storage
    BY <1>2, <1>a, NewStep
  <2>2. Used' = Used \cup {b}
    BY <2>1, <1>a DEF TypeOK, Used, Kinds
  <2>3. Pending' = Pending \cup {b}
    BY <2>1, <1>b DEF Pending
  <2>4. V!Name(b)
    BY <2>1, <2>2, <2>3 DEF V!Name, Pending
  <2> QED
    BY <1>a, <2>1, <2>4 DEF V!Next, Asked
<1>3. CASE Store(a)
  <2>0. PICK b : b = cl[a].cur
    OBVIOUS
  <2>1. b \in Ids /\ cl[a].pc = "store"
    BY <2>0, <1>3, <1>a DEF Store, OpInv, OpOk, Used
  <2>2. cl'[a].pc # "store" /\ UNCHANGED rec /\ data' = data \cup {b}
    BY <2>0, <1>3, <1>a, PlainStep DEF Store
  <2>3. Pending' = Pending \ {b} /\ b \in Pending
    BY <2>0, <2>1, <2>2, <1>a, <1>b DEF Pending, StoreInv
  <2>4. V!Add(b)
    BY <2>2, <2>3 DEF V!Add, Pending, Used
  <2> QED
    BY <1>a, <2>1, <2>4 DEF V!Next, Asked
<1>4. CASE Remove(a)
  <2>0. PICK b : b = cl[a].cur
    OBVIOUS
  <2>1. /\ b \in Ids /\ cl[a].pc = "remove" /\ cl[a].op = "delete"
        /\ cl[a].want = b
    BY <2>0, <1>4, <1>a DEF Remove, OpInv, OpOk, Used
  <2>2. cl'[a].pc # "store" /\ UNCHANGED rec /\ data' = data \ {b}
    BY <2>0, <1>4, <1>a, PlainStep DEF Remove
  <2>3. Pending' = Pending
    BY <2>1, <2>2, <1>b DEF Pending
  <2>4. CASE b \in data
    <3>1. b \in Asked
      BY <2>1 DEF Asked
    <3>2. V!Remove(b)
      BY <2>2, <2>3, <2>4, <3>1 DEF V!Remove, Pending, Asked, Used
    <3> QED
      BY <1>a, <2>1, <3>2 DEF V!Next, Asked
  <2>5. CASE b \notin data
    BY <1>1, <2>1, <2>2, <2>5
  <2> QED
    BY <2>4, <2>5
<1>5. CASE Abort(a) /\ cl[a].pc = "store"
  <2>0. PICK b : b = cl[a].cur
    OBVIOUS
  <2>1. b \in Ids /\ cl'[a] = Idle /\ UNCHANGED <<rec, data>>
    BY <2>0, <1>5, <1>a DEF Abort, Set, TypeOK, OpInv, OpOk, Used
  <2>2. cl'[a].pc # "store"
    BY <2>1 DEF Idle
  <2>3. Pending' = Pending \ {b} /\ b \in Pending
    BY <2>0, <1>5, <2>2, <1>a, <1>b DEF Pending, StoreInv
  <2>4. V!Abandon(b)
    BY <2>1, <2>3 DEF V!Abandon, Pending, Used
  <2> QED
    BY <1>a, <2>1, <2>4 DEF V!Next, Asked
<1>6. CASE ~FullBackup(a) /\ ~PickBase(a) /\ ~Store(a) /\ ~Remove(a)
           /\ ~(Abort(a) /\ cl[a].pc = "store")
  <2>1. UNCHANGED rec /\ cl'[a].pc # "store"
    BY <1>6, <1>a, RecStep
  <2>2. CASE PartialBackup(a) \/ ListBackups(a) \/ GetBackup(a) \/ DeleteBackup(a)
    BY <1>1, <1>a, <2>1, <2>2, BeginStep
  <2>3. CASE Call(a) \/ Abort(a)
    <3>1. data' = data /\ cl[a].pc # "store"
      BY <1>6, <2>3
         DEF Call, ReadNames, VisitFound, VisitSkipped, InfoFound, InfoSkipped,
             Visit, WalkFails, ListDone, Answer, NotFound, PickVictim, Listed,
             RemoveFails, RemoveSidecar, WriteSidecar, Stat, Abort
    <3> QED
      BY <1>1, <2>1, <3>1
  <2> QED
    BY <1>6, <2>2, <2>3 DEF Act
<1> QED
  BY <1>2, <1>3, <1>4, <1>5, <1>6

\* With an object store, every behaviour of the catalog is one of the vault:
\* only a backup whose deletion is asked for disappears.
THEOREM CatalogImplementsVault == ASSUME ~Local PROVE Spec => ImplementsVault
<1>1. Init => V!Init
  BY DEF Init, V!Init, Used, Unused, Idle
<1>2. IInv /\ IInv' /\ [Next]_vars => [V!Next]_(V!vars)
  <2> SUFFICES ASSUME IInv, IInv', [Next]_vars PROVE [V!Next]_(V!vars)
    OBVIOUS
  <2>1. CASE UNCHANGED vars
    BY <2>1 DEF vars, V!vars, Used
  <2>2. ASSUME NEW a \in Clients, Act(a) PROVE V!Next
    BY <2>2, VaultStep
  <2> QED
    BY <2>1, <2>2, NextIsAct
<1> QED
  BY <1>1, <1>2, Invariance, PTL DEF Spec, ImplementsVault, V!Spec
-----------------------------------------------------------------------------
(* The base of an incremental or differential backup.                      *)

LEMMA Minimum ==
  ASSUME NEW S, S # {}, NEW f, \A x \in S : f[x] \in Nat
  PROVE  \E m \in S : \A x \in S : f[m] <= f[x]
<1> DEFINE T == {f[x] : x \in S}
           R == OpToRel(<, Nat)
<1>1. IsWellFoundedOn(R, Nat)
  BY NatLessThanWellFounded
<1>2. T \subseteq Nat /\ T # {}
  OBVIOUS
<1>3. \A x, y \in Nat : x < y => <<x, y>> \in R
  BY DEF OpToRel
<1> HIDE DEF R, T
<1>4. \E t \in T : \A u \in T : ~(<<u, t>> \in R)
  BY <1>1, <1>2, WFMin
<1>5. PICK m \in S : \A x \in S : ~(<<f[x], f[m]>> \in R)
  BY <1>4 DEF T
<1>6. ASSUME NEW x \in S PROVE f[m] <= f[x]
  <2>1. f[x] \in Nat /\ f[m] \in Nat
    BY <1>5
  <2>2. ~(f[x] < f[m])
    BY <1>3, <1>5, <2>1
  <2> QED
    BY <2>1, <2>2
<1> QED
  BY <1>5, <1>6

\* Among the backups found one is the latest: of those that started last, the
\* first in the order of the listing.
LEMMA LatestExists ==
  ASSUME TypeOK, PathInv, NEW S \in SUBSET Used, S # {}
  PROVE  \E b \in S : IsLatest(b, S)
<1>1. \A b \in S : rec[b].start \in 0..MaxTime /\ Dir(b) \in Nat /\ b \in Nat
  BY DEF TypeOK, PathInv, Dir, Rank, DBs, Used
<1>2. PICK m \in S : \A b \in S : rec[b].start <= rec[m].start
  <2> DEFINE f == [b \in S |-> MaxTime - rec[b].start]
  <2>1. \A b \in S : f[b] \in Nat
    BY <1>1
  <2>2. PICK m \in S : \A b \in S : f[m] <= f[b]
    <3> HIDE DEF f
    <3> QED
      BY <2>1, Minimum
  <2> QED
    BY <1>1, <2>2
<1> DEFINE S1 == {b \in S : rec[b].start = rec[m].start}
<1>3. PICK d \in S1 : \A b \in S1 : Dir(d) <= Dir(b)
  <2> DEFINE f == [b \in S1 |-> Dir(b)]
  <2>1. S1 # {} /\ \A b \in S1 : f[b] \in Nat
    BY <1>1
  <2>2. PICK d \in S1 : \A b \in S1 : f[d] <= f[b]
    <3> HIDE DEF f, S1
    <3> QED
      BY <2>1, Minimum
  <2> QED
    BY <2>2
<1> DEFINE S2 == {b \in S1 : Dir(b) = Dir(d)}
<1>4. PICK l \in S2 : \A b \in S2 : l <= b
  <2> DEFINE f == [b \in S2 |-> b]
  <2>1. S2 # {} /\ \A b \in S2 : f[b] \in Nat
    BY <1>1, <1>3
  <2>2. PICK l \in S2 : \A b \in S2 : f[l] <= f[b]
    <3> HIDE DEF f, S2
    <3> QED
      BY <2>1, Minimum
  <2> QED
    BY <2>2
<1>5. ASSUME NEW o \in S \ {l}, rec[o].start = rec[l].start PROVE Before(l, o)
  <2>1. o \in S1
    BY <1>4, <1>5
  <2>2. CASE Dir(o) = Dir(d)
    BY <1>1, <1>4, <1>5, <2>1, <2>2 DEF Before
  <2>3. CASE Dir(o) # Dir(d)
    BY <1>1, <1>3, <1>4, <2>1, <2>3 DEF Before
  <2> QED
    BY <2>2, <2>3
<1>6. IsLatest(l, S)
  BY <1>1, <1>2, <1>4, <1>5 DEF IsLatest
<1> QED
  BY <1>4, <1>6

\* With an object store whose requests do not fail, the base found is at least
\* as recent as every full backup that existed all through the lookup, and one
\* is found if there was one, whatever other processes store and delete.
THEOREM BaseFound ==
  ASSUME ~Flaky, ~Local PROVE Spec => []BaseIsLatestFull
<1>1. IInv => BaseIsLatestFull
  <2> SUFFICES ASSUME IInv, NEW c \in Clients, Listed(c)
               PROVE  LET full == {b \in since[c] : rec[b].kind = "full"}
                      IN  /\ full # {} => Latest(c) # {}
                          /\ \A l \in Latest(c) :
                               /\ rec[l].kind = "full" /\ l \in seen[c]
                               /\ \A b \in full : rec[b].start <= rec[l].start
    BY DEF BaseIsLatestFull
  <2> DEFINE full == {b \in since[c] : rec[b].kind = "full"}
  <2>1. since[c] \subseteq cl[c].got /\ cl[c].got \subseteq seen[c]
    BY HistListing DEF ListingIsBetween
  <2>2. FullEntries(c) = {b \in cl[c].got : rec[b].kind = "full"}
    BY DEF FullEntries, EntryKind
  <2>3. full \subseteq FullEntries(c)
    BY <2>1, <2>2
  <2>4. FullEntries(c) \subseteq Used
    BY <2>2, Typing DEF IInv, OpIn
  <2>5. full # {} => Latest(c) # {}
    BY <2>3, <2>4, LatestExists DEF IInv, Latest
  <2>6. ASSUME NEW l \in Latest(c)
        PROVE  /\ rec[l].kind = "full" /\ l \in seen[c]
               /\ \A b \in full : rec[b].start <= rec[l].start
    <3>1. l \in FullEntries(c) /\ IsLatest(l, FullEntries(c))
      BY DEF Latest
    <3>2. \A b \in FullEntries(c) : rec[b].start \in Nat
      <4>1. rec \in [Ids -> [db : 0..NumDBs, kind : Kinds \cup {"none"},
                             start : 0..MaxTime, base : Ids \cup {None}]]
        BY DEF IInv, TypeOK
      <4>2. ASSUME NEW b \in FullEntries(c) PROVE rec[b].start \in 0..MaxTime
        <5>1. b \in Ids
          BY <2>4 DEF Used
        <5> QED
          BY <4>1, <5>1
      <4> QED
        BY <4>2
    <3>3. \A b \in FullEntries(c) : rec[b].start <= rec[l].start
      BY <3>1, <3>2 DEF IsLatest
    <3> QED
      BY <2>1, <2>2, <2>3, <3>1, <3>3
  <2> QED
    BY <2>5, <2>6
<1> QED
  BY <1>1, Invariance, PTL

-----------------------------------------------------------------------------
(* Metadata files without data.                                            *)

\* A local Store that is writing has its file, unless a Delete overtook it;
\* object stores keep no metadata files.
OrphanInv ==
  /\ OrphanSidecarHasCause
  /\ \A c \in Clients : cl[c].pc = "fill" => Local /\ cl[c].cur \in data \cup excused
  /\ \A c \in Clients : cl[c].pc = "removeSidecar" => Local
  /\ sidecar # {} => Local

\* The steps that touch no file.
LEMMA FileStep ==
  ASSUME TypeOK, NEW a \in Clients, Act(a),
         ~Store(a), ~WriteSidecar(a), ~Remove(a), ~RemoveSidecar(a), ~Abort(a)
  PROVE  /\ UNCHANGED storage
         /\ cl[a].pc # "removeSidecar"
         /\ cl'[a].pc \notin {"fill", "removeSidecar"}
<1> USE DEF storage, Finish
<1>1. ASSUME NEW r, Set(a, r) PROVE cl'[a] = r
  BY <1>1 DEF TypeOK, Set
<1>2. CASE PartialBackup(a) \/ ListBackups(a) \/ GetBackup(a) \/ DeleteBackup(a)
  BY <1>2, BeginStep
<1>3. ASSUME NEW r \in OpIn(Used), NEW d, NEW k, NEW base, NEW t,
             NewBackup(a, r, d, k, base, t)
      PROVE  UNCHANGED storage /\ cl'[a].pc = "store"
  <2>1. PICK b \in Ids :
          cl'[a] = [r EXCEPT !.pc = "store", !.db = d, !.op = k,
                             !.base = base, !.cur = b]
    BY <1>1, <1>3 DEF NewBackup
  <2>2. cl'[a].pc = "store"
    BY <2>1 DEF OpIn
  <2>3. UNCHANGED storage
    BY <1>3 DEF NewBackup
  <2> QED
    BY <2>2, <2>3
<1>4. CASE FullBackup(a)
  BY <1>3, <1>4, IdleTyped DEF FullBackup
<1>5. CASE PickBase(a)
  <2>1. [cl[a] EXCEPT !.got = {}] \in OpIn(Used)
    BY Typing DEF OpIn
  <2> QED
    BY <1>3, <1>5, <2>1 DEF PickBase, Listed
<1>6. CASE PickVictim(a)
  <2>1. PICK b : cl'[a] = [cl[a] EXCEPT !.pc = "remove", !.cur = b, !.got = {}]
    BY <1>1, <1>6 DEF PickVictim
  <2>2. cl'[a].pc = "remove"
    BY <2>1, Typing
  <2>3. UNCHANGED storage /\ cl[a].pc = "info"
    BY <1>6 DEF PickVictim, Listed
  <2> QED
    BY <2>2, <2>3
<1>7. CASE ReadNames(a)
  <2>1. PICK T : cl'[a] = [cl[a] EXCEPT !.dir = @ + 1, !.todo = T]
    BY <1>1, <1>7 DEF ReadNames
  <2>2. cl'[a].pc = cl[a].pc
    BY <2>1, Typing
  <2>3. UNCHANGED storage /\ cl[a].pc = "list"
    BY <1>7 DEF ReadNames
  <2> QED
    BY <2>2, <2>3
<1>8. ASSUME NEW b, NEW k \in BOOLEAN, Visit(a, b, k),
             cl[a].pc \in {"list", "info"}
      PROVE  UNCHANGED storage /\ cl'[a].pc = cl[a].pc
  <2>1. PICK T, G : cl'[a] = [cl[a] EXCEPT !.todo = T, !.got = G]
    BY <1>1, <1>8 DEF Visit
  <2>2. cl'[a].pc = cl[a].pc
    BY <2>1, Typing
  <2>3. UNCHANGED storage
    BY <1>8 DEF Visit
  <2> QED
    BY <2>2, <2>3
<1>9. CASE VisitFound(a) \/ VisitSkipped(a) \/ InfoFound(a) \/ InfoSkipped(a)
  BY <1>8, <1>9 DEF VisitFound, VisitSkipped, InfoFound, InfoSkipped
<1>10. CASE ListDone(a)
  <2>1. cl'[a] = [cl[a] EXCEPT !.pc = "info", !.todo = cl[a].got, !.got = {}]
    BY <1>1, <1>10 DEF ListDone
  <2> QED
    BY <1>10, <2>1, Typing DEF ListDone
<1>11. CASE WalkFails(a) \/ Answer(a) \/ NotFound(a) \/ RemoveFails(a) \/ Stat(a)
  <2>1. cl'[a] = Idle
    BY <1>1, <1>11 DEF WalkFails, Answer, NotFound, RemoveFails, Stat
  <2> QED
    BY <1>11, <2>1 DEF WalkFails, Answer, NotFound, RemoveFails, Stat, Listed, Idle
<1> QED
  BY <1>2, <1>4, <1>5, <1>6, <1>7, <1>9, <1>10, <1>11 DEF Act, Call

LEMMA OrphanStep ==
  ASSUME TypeOK, OrphanInv, NEW a \in Clients, Act(a)
  PROVE  OrphanInv'
<1>1. \A c \in Clients \ {a} : cl'[c] = cl[c]
  BY Frame
<1>2. ASSUME NEW r, Set(a, r) PROVE cl'[a] = r
  BY <1>2 DEF TypeOK, Set
<1> USE DEF OrphanInv, OrphanSidecarHasCause
<1>3. CASE Store(a)
  <2>1. cl'[a] = [cl[a] EXCEPT !.pc = IF Local THEN "fill" ELSE "stat"]
    BY <1>2, <1>3 DEF Store
  <2>2. cl'[a].pc = (IF Local THEN "fill" ELSE "stat") /\ cl'[a].cur = cl[a].cur
    BY <2>1, Typing
  <2> QED
    BY <1>1, <1>3, <2>2 DEF Store, Local
<1>4. CASE WriteSidecar(a)
  <2>1. cl'[a] = [cl[a] EXCEPT !.pc = "stat"]
    BY <1>2, <1>4 DEF WriteSidecar
  <2>2. cl'[a].pc = "stat"
    BY <2>1, Typing
  <2> QED
    BY <1>1, <1>4, <2>2 DEF WriteSidecar, Local
<1>5. CASE Remove(a)
  <2>1. IF Local THEN cl'[a] = [cl[a] EXCEPT !.pc = "removeSidecar"] ELSE cl'[a] = Idle
    BY <1>2, <1>5 DEF Remove, Finish
  <2>2. IF Local THEN cl'[a].pc = "removeSidecar" /\ cl'[a].cur = cl[a].cur
        ELSE cl'[a].pc = "idle"
    <3>1. CASE Local
      <4>1. cl'[a] = [cl[a] EXCEPT !.pc = "removeSidecar"]
        BY <2>1, <3>1
      <4>2. cl'[a].pc = "removeSidecar" /\ cl'[a].cur = cl[a].cur
        BY <4>1, Typing
      <4> QED
        BY <3>1, <4>2
    <3>2. CASE ~Local
      BY <2>1, <3>2 DEF Idle
    <3> QED
      BY <3>1, <3>2
  <2>3. /\ data' = data \ {cl[a].cur} /\ sidecar' = sidecar
        /\ excused \subseteq excused'
        /\ \A c \in Clients : cl[c].pc = "fill" /\ cl[c].cur = cl[a].cur
              => cl[c].cur \in excused'
        /\ cl[a].pc = "remove"
    BY <1>5 DEF Remove
  <2>4. OrphanSidecarHasCause'
    <3>1. CASE Local
      BY <1>1, <2>2, <2>3, <3>1
    <3>2. CASE ~Local
      BY <2>3, <3>2
    <3> QED
      BY <3>1, <3>2
  <2>5. \A c \in Clients : cl'[c].pc = "fill" => Local /\ cl'[c].cur \in data' \cup excused'
    <3> SUFFICES ASSUME NEW c \in Clients, cl'[c].pc = "fill"
                 PROVE  Local /\ cl'[c].cur \in data' \cup excused'
      OBVIOUS
    <3>1. c # a
      BY <2>2
    <3>2. cl'[c] = cl[c] /\ Local /\ cl[c].cur \in data \cup excused
      BY <1>1, <3>1
    <3> QED
      BY <2>3, <3>2
  <2>6. \A c \in Clients : cl'[c].pc = "removeSidecar" => Local
    BY <1>1, <2>2
  <2> QED
    BY <2>3, <2>4, <2>5, <2>6 DEF Local
<1>6. CASE RemoveSidecar(a) \/ Abort(a)
  <2>1. cl'[a].pc = "idle"
    BY <1>2, <1>6 DEF RemoveSidecar, Abort, Finish, Idle
  <2>2. /\ data' = data /\ sidecar' \subseteq sidecar /\ excused \subseteq excused'
        /\ cl[a].pc = "removeSidecar" =>
             cl[a].cur \notin sidecar' \/ cl[a].cur \in excused'
    BY <1>6 DEF RemoveSidecar, Abort
  <2> QED
    BY <1>1, <2>1, <2>2 DEF Local
<1>7. CASE ~Store(a) /\ ~WriteSidecar(a) /\ ~Remove(a) /\ ~RemoveSidecar(a) /\ ~Abort(a)
  BY <1>1, <1>7, FileStep DEF storage, Local
<1> QED
  BY <1>3, <1>4, <1>5, <1>6, <1>7

\* In a local storage a metadata file loses its data file only through a Delete
\* that was interrupted, could not remove the second file, or overtook the Store
\* of the same file, whatever processes run.
THEOREM OrphanHasCause == Spec => []OrphanSidecarHasCause
<1>1. Init => OrphanInv
  BY DEF Init, OrphanInv, OrphanSidecarHasCause, Idle
<1>2. IInv /\ OrphanInv /\ [Next]_vars => OrphanInv'
  <2> SUFFICES ASSUME IInv, OrphanInv, [Next]_vars PROVE OrphanInv'
    OBVIOUS
  <2>1. CASE UNCHANGED vars
    BY <2>1 DEF vars, OrphanInv, OrphanSidecarHasCause, Local
  <2>2. ASSUME NEW a \in Clients, Act(a) PROVE OrphanInv'
    BY <2>2, OrphanStep DEF IInv
  <2> QED
    BY <2>1, <2>2, NextIsAct
<1>3. OrphanInv => OrphanSidecarHasCause
  BY DEF OrphanInv
<1> QED
  BY <1>1, <1>2, <1>3, Invariance, PTL DEF Spec

-----------------------------------------------------------------------------
(* Why operations end: each call of a client leaves it less to do, in the  *)
(* order of Later, and no other client gives it more.                      *)

LEMMA LeftTable ==
  /\ CallsLeft["idle"] = 0  /\ CallsLeft["stat"] = 1  /\ CallsLeft["fill"] = 2
  /\ CallsLeft["store"] = 3 /\ CallsLeft["removeSidecar"] = 1
  /\ CallsLeft["remove"] = 2 /\ CallsLeft["info"] = 4 /\ CallsLeft["list"] = 5
BY DEF CallsLeft

LEMMA CallGoesOn ==
  ASSUME TypeOK, NEW a \in Clients, Call(a) \/ Abort(a)
  PROVE  Later(cl[a], cl'[a])
<1> USE LeftTable DEF storage
<1>0. cl[a] \in OpIn(Used) /\ cl[a].pc \in PCs
  BY Typing DEF OpIn
<1>1. ASSUME NEW r, Set(a, r) PROVE cl'[a] = r
  BY <1>1 DEF TypeOK, Set
<1>2. ASSUME Finish(a), cl[a].pc # "idle" PROVE Later(cl[a], cl'[a])
  <2>1. cl'[a].pc = "idle"
    BY <1>1, <1>2 DEF Finish, Idle
  <2> QED
    BY <1>0, <1>2, <2>1 DEF Later, PCs
<1>3. ASSUME NEW p \in PCs, Set(a, [cl[a] EXCEPT !.pc = p]),
             CallsLeft[p] < CallsLeft[cl[a].pc]
      PROVE  Later(cl[a], cl'[a])
  <2>1. cl'[a].pc = p
    BY <1>0, <1>1, <1>3 DEF OpIn
  <2> QED
    BY <1>3, <2>1 DEF Later
<1>4. ASSUME NEW b, NEW k \in BOOLEAN, Visit(a, b, k) PROVE Later(cl[a], cl'[a])
  <2>1. cl'[a] = [cl[a] EXCEPT !.todo = @ \ {b},
                               !.got = IF k THEN @ \cup {b} ELSE @]
    BY <1>1, <1>4 DEF Visit
  <2>2. /\ cl'[a].pc = cl[a].pc /\ cl'[a].dir = cl[a].dir
        /\ cl'[a].todo = cl[a].todo \ {b}
    BY <1>0, <2>1 DEF OpIn
  <2>3. b \in cl[a].todo
    BY <1>4 DEF Visit, IsFirst
  <2> QED
    BY <2>2, <2>3 DEF Later
<1>5. CASE VisitFound(a) \/ VisitSkipped(a) \/ InfoFound(a) \/ InfoSkipped(a)
  BY <1>4, <1>5 DEF VisitFound, VisitSkipped, InfoFound, InfoSkipped
<1>6. CASE ReadNames(a)
  <2>1. cl'[a] = [cl[a] EXCEPT !.dir = @ + 1,
                               !.todo = {b \in data : Page(b) = cl[a].dir + 1}]
    BY <1>1, <1>6 DEF ReadNames
  <2>2. cl'[a].pc = cl[a].pc /\ cl'[a].dir = cl[a].dir + 1
    BY <1>0, <2>1 DEF OpIn
  <2>3. cl[a].dir \in 0..Pages /\ cl[a].dir < Pages
    BY <1>0, <1>6 DEF ReadNames, OpIn
  <2> QED
    BY <2>2, <2>3, PagesNat DEF Later
<1>7. CASE ListDone(a)
  <2>1. cl'[a] = [cl[a] EXCEPT !.pc = "info", !.todo = cl[a].got, !.got = {}]
    BY <1>1, <1>7 DEF ListDone
  <2>2. cl'[a].pc = "info" /\ cl[a].pc = "list"
    BY <1>0, <1>7, <2>1 DEF OpIn, ListDone
  <2> QED
    BY <2>2 DEF Later
<1>8. CASE PickVictim(a)
  <2>1. PICK b : Set(a, [cl[a] EXCEPT !.pc = "remove", !.cur = b, !.got = {}])
    BY <1>8 DEF PickVictim
  <2>2. cl'[a].pc = "remove" /\ cl[a].pc = "info"
    BY <1>0, <1>1, <1>8, <2>1 DEF OpIn, PickVictim, Listed
  <2> QED
    BY <2>2 DEF Later
<1>9. CASE PickBase(a)
  <2>1. PICK b, n : Set(a, [[cl[a] EXCEPT !.got = {}] EXCEPT
                              !.pc = "store", !.db = cl[a].db, !.op = cl[a].op,
                              !.base = b, !.cur = n])
    BY <1>9 DEF PickBase, NewBackup
  <2>2. cl'[a].pc = "store" /\ cl[a].pc = "info"
    BY <1>0, <1>1, <1>9, <2>1 DEF OpIn, PickBase, Listed
  <2> QED
    BY <2>2 DEF Later
<1>10. CASE Remove(a)
  BY <1>2, <1>3, <1>10 DEF Remove, PCs
<1>11. CASE Store(a)
  BY <1>3, <1>11 DEF Store, PCs
<1>12. CASE WriteSidecar(a)
  BY <1>3, <1>12 DEF WriteSidecar, PCs
<1>13. CASE WalkFails(a) \/ Answer(a) \/ NotFound(a) \/ RemoveFails(a)
              \/ RemoveSidecar(a) \/ Stat(a) \/ Abort(a)
  BY <1>2, <1>13 DEF WalkFails, Answer, NotFound, RemoveFails, RemoveSidecar,
                     Stat, Abort, Listed
<1> QED
  BY <1>5, <1>6, <1>7, <1>8, <1>9, <1>10, <1>11, <1>12, <1>13 DEF Call

LEMMA StartsIdle ==
  ASSUME NEW a \in Clients, Act(a), ~Call(a), ~Abort(a)
  PROVE  cl[a].pc = "idle"
BY DEF Act, FullBackup, PartialBackup, ListBackups, GetBackup, DeleteBackup,
       KeyedBegin, Begin

LEMMA RecordStep ==
  ASSUME TypeOK, [Next]_vars, NEW c \in Clients
  PROVE  \/ cl'[c] = cl[c] /\ ~(Call(c) \/ Abort(c))
         \/ Later(cl[c], cl'[c])
         \/ cl[c].pc = "idle"
<1>1. CASE UNCHANGED vars
  BY <1>1, CallGoesOn DEF vars
<1>2. ASSUME NEW a \in Clients, Act(a)
      PROVE  \/ cl'[c] = cl[c] /\ ~(Call(c) \/ Abort(c))
             \/ Later(cl[c], cl'[c])
             \/ cl[c].pc = "idle"
  BY <1>2, CallGoesOn, StartsIdle, Frame
<1> QED
  BY <1>1, <1>2, NextIsAct

\* No operation repeats a call or is sent back, for any number of databases,
\* directories and backups, whatever the others do.
THEOREM StepsCount == Spec => EveryStepCounts
<1>1. TypeOK /\ [Next]_vars
        => [\A c \in Clients : cl'[c] # cl[c]
              => cl[c].pc = "idle" \/ Later(cl[c], cl'[c])]_vars
  BY RecordStep
<1> QED
  BY <1>1, TypeCorrect, PTL DEF Spec, EveryStepCounts

\* From any point of an operation its client gets further some time, unless
\* there is no identifier left for its backup.
THEOREM StepsRunOut ==
  ASSUME NEW c \in Clients, NEW r, r.pc # "idle"
  PROVE  Spec /\ WhoMayStepDoes
           => [](cl[c] = r => <>(Later(r, cl[c]) \/ ~MayCall(c)))
<1> DEFINE At    == cl[c] = r
           Past  == Later(r, cl[c])
           May   == MayCall(c)
           Calls == Call(c) /\ Track
<1>1. TypeOK /\ [Next]_vars => (At => At' \/ Past')
  BY RecordStep
<1>2. TypeOK /\ [Next]_vars /\ Calls => (At => Past')
  BY CallGoesOn
<1>3. WhoMayStepDoes => []<>~May \/ []<><<Calls>>_vars
  BY DEF WhoMayStepDoes
<1> HIDE DEF At, Past, May, Calls
<1>4. Spec /\ ([]<>~May \/ []<><<Calls>>_vars) => [](At => <>(Past \/ ~May))
  BY <1>1, <1>2, TypeCorrect, PTL DEF Spec
<1> QED
  BY <1>3, <1>4 DEF At, Past, May

\* Nothing but a Delete takes a backup's object or data file away.
LEMMA OnlyRemoveTakes ==
  ASSUME TypeOK, NEW a \in Clients, Act(a), ~Remove(a)
  PROVE  data \subseteq data'
<1> USE DEF storage
<1>1. CASE FullBackup(a) \/ PickBase(a)
  BY <1>1 DEF FullBackup, PickBase, NewBackup
<1>2. CASE PartialBackup(a) \/ ListBackups(a) \/ GetBackup(a) \/ DeleteBackup(a)
  BY <1>2 DEF PartialBackup, ListBackups, GetBackup, DeleteBackup, KeyedBegin, Begin
<1>3. CASE VisitFound(a) \/ InfoFound(a) \/ VisitSkipped(a) \/ InfoSkipped(a)
  BY <1>3 DEF VisitFound, InfoFound, VisitSkipped, InfoSkipped, Visit
<1>4. CASE ReadNames(a) \/ ListDone(a) \/ PickVictim(a) \/ Store(a) \/ WriteSidecar(a)
  BY <1>4 DEF ReadNames, ListDone, PickVictim, Store, WriteSidecar
<1>5. CASE WalkFails(a) \/ Answer(a) \/ NotFound(a) \/ RemoveFails(a)
           \/ RemoveSidecar(a) \/ Stat(a) \/ Abort(a)
  BY <1>5 DEF WalkFails, Answer, NotFound, RemoveFails, RemoveSidecar, Stat, Abort
<1> QED
  BY <1>1, <1>2, <1>3, <1>4, <1>5 DEF Act, Call

\* An object store loses only backups that a caller wants deleted.
THEOREM OnlyWantedRemoved == ASSUME ~Local PROVE Spec => RemovesOnlyWanted
<1>1. IInv /\ [Next]_vars
        => [\A b \in data \ data' :
              \E c \in Clients : cl[c].op = "delete" /\ cl[c].want = b]_vars
  <2> SUFFICES ASSUME IInv, Next, NEW b \in data \ data'
               PROVE  \E c \in Clients : cl[c].op = "delete" /\ cl[c].want = b
    OBVIOUS
  <2>1. ASSUME NEW a \in Clients, Act(a)
        PROVE  cl[a].op = "delete" /\ cl[a].want = b
    <3>1. Remove(a)
      BY <2>1, OnlyRemoveTakes DEF IInv
    <3>2. cl[a].pc = "remove" /\ cl[a].cur = b
      BY <3>1 DEF Remove
    <3> QED
      BY <3>2 DEF IInv, OpInv, OpOk
  <2> QED
    BY <2>1, NextIsAct
<1> QED
  BY <1>1, Invariance, PTL DEF Spec, RemovesOnlyWanted

\* What is listed was there at some time, what is found by an identifier in an
\* object store is the backup meant, and the base offered is a full backup that
\* was there.
NothingInvented ==
  \A c \in Clients : Listed(c) =>
    /\ cl[c].got \subseteq seen[c]
    /\ ~Local /\ cl[c].op \in {"get", "delete"} => Matches(c) \subseteq {cl[c].want}
    /\ \A l \in Latest(c) : rec[l].kind = "full" /\ l \in seen[c]

\* Whichever requests fail, and with any provider, a lookup errs only by leaving
\* out (the run catalog_omits shows that it does).
THEOREM LookupsOnlyOmit == Spec => []NothingInvented
<1>1. IInv => NothingInvented
  <2> SUFFICES ASSUME IInv, NEW c \in Clients, Listed(c)
               PROVE  /\ cl[c].got \subseteq seen[c]
                      /\ ~Local /\ cl[c].op \in {"get", "delete"}
                           => Matches(c) \subseteq {cl[c].want}
                      /\ \A l \in Latest(c) : rec[l].kind = "full" /\ l \in seen[c]
    BY DEF NothingInvented
  <2>1. cl[c].got \subseteq seen[c]
    BY DEF IInv, HistInv, HistOk, Listed, Listing
  <2>2. ASSUME ~Local, cl[c].op \in {"get", "delete"}, NEW b \in Matches(c)
        PROVE  b = cl[c].want
    BY <2>2 DEF Matches, IsMatch, IsFirst, EntryId, IInv, OpInv, OpOk
  <2>3. \A l \in Latest(c) : rec[l].kind = "full" /\ l \in seen[c]
    BY <2>1, LatestAreFull DEF IInv
  <2> QED
    BY <2>1, <2>2, <2>3
<1> QED
  BY <1>1, Invariance, PTL

\* A local storage never sees an incremental or a differential backup: GetInfo
\* drops the kind of every entry (local.go 204), so no full backup is found for
\* them to start from.
THEOREM LocalIsAllFull ==
  ASSUME Local
  PROVE  Spec => [](\A b \in Used : rec[b].kind = "full" /\ rec[b].base = None)
<1> DEFINE AllFull == \A b \in Used : rec[b].kind = "full" /\ rec[b].base = None
<1>1. Init => AllFull
  BY DEF Init, Used, Unused
<1>2. IInv /\ AllFull /\ [Next]_vars => AllFull'
  <2> SUFFICES ASSUME IInv, AllFull, [Next]_vars PROVE AllFull'
    OBVIOUS
  <2>1. ASSUME UNCHANGED rec PROVE AllFull'
    BY <2>1 DEF Used
  <2>2. ASSUME NEW a \in Clients, FullBackup(a) PROVE AllFull'
    <3>1. PICK b \in Ids \ Used, d \in DBs, t \in 0..MaxTime :
            rec' = [rec EXCEPT ![b] = [db |-> d, kind |-> "full",
                                       start |-> t, base |-> None]]
      BY <2>2 DEF FullBackup, NewBackup
    <3> QED
      BY <3>1 DEF IInv, TypeOK, Used
  <2>3. ASSUME NEW a \in Clients, PickBase(a) PROVE FALSE
    BY <2>3, LatestAreFull DEF PickBase, IInv
  <2>4. CASE UNCHANGED vars
    BY <2>1, <2>4 DEF vars
  <2> QED
    BY <2>1, <2>2, <2>3, <2>4, NextIsAct, RecStep DEF IInv
<1> QED
  BY <1>1, <1>2, Invariance, PTL DEF Spec

\* A backup that is not in the storage and that no process is storing.
Gone(b) == b \in Used \ data /\ b \notin Pending

\* What puts a backup into the storage is its own Store.
LEMMA OnlyStoreAdds ==
  ASSUME TypeOK, NEW a \in Clients, Act(a)
  PROVE  data' \subseteq data \cup (IF Store(a) THEN {cl[a].cur} ELSE {})
<1> USE DEF storage
<1>1. CASE FullBackup(a) \/ PickBase(a)
  BY <1>1 DEF FullBackup, PickBase, NewBackup
<1>2. CASE PartialBackup(a) \/ ListBackups(a) \/ GetBackup(a) \/ DeleteBackup(a)
  BY <1>2 DEF PartialBackup, ListBackups, GetBackup, DeleteBackup, KeyedBegin, Begin
<1>3. CASE VisitFound(a) \/ InfoFound(a) \/ VisitSkipped(a) \/ InfoSkipped(a)
  BY <1>3 DEF VisitFound, InfoFound, VisitSkipped, InfoSkipped, Visit
<1>4. CASE ReadNames(a) \/ ListDone(a) \/ PickVictim(a) \/ WriteSidecar(a)
           \/ Remove(a)
  BY <1>4 DEF ReadNames, ListDone, PickVictim, WriteSidecar, Remove
<1>5. CASE Store(a)
  BY <1>5 DEF Store
<1>6. CASE WalkFails(a) \/ Answer(a) \/ NotFound(a) \/ RemoveFails(a)
           \/ RemoveSidecar(a) \/ Stat(a) \/ Abort(a)
  BY <1>6 DEF WalkFails, Answer, NotFound, RemoveFails, RemoveSidecar, Stat, Abort
<1> QED
  BY <1>1, <1>2, <1>3, <1>4, <1>5, <1>6 DEF Act, Call

LEMMA GoneStep ==
  ASSUME IInv, [Next]_vars, NEW b \in Ids, Gone(b)
  PROVE  Gone(b)'
<1>1. ASSUME NEW a \in Clients, Act(a) PROVE Gone(b)'
  <2>1. b \in Used' /\ \A c \in Clients \ {a} : cl'[c] = cl[c]
    BY <1>1, Frame DEF Gone, IInv
  <2>2. b \notin data'
    BY <1>1, OnlyStoreAdds DEF Gone, Pending, Store, IInv
  <2>3. cl'[a].pc = "store" => cl'[a].cur # b
    <3>1. CASE FullBackup(a) \/ PickBase(a)
      <4>1. PICK o \in Ids \ Used : cl'[a].cur = o
        BY <3>1, NewStep DEF IInv
      <4> QED
        BY <4>1 DEF Gone
    <3>2. CASE ~FullBackup(a) /\ ~PickBase(a)
      BY <1>1, <3>2, RecStep DEF IInv
    <3> QED
      BY <3>1, <3>2
  <2>4. b \notin Pending'
    BY <2>1, <2>3 DEF Gone, Pending
  <2> QED
    BY <2>1, <2>2, <2>4 DEF Gone
<1>2. CASE UNCHANGED vars
  BY <1>2 DEF vars, Gone, Used, Pending
<1> QED
  BY <1>1, <1>2, NextIsAct

\* With any provider, a backup that was deleted, or whose storing failed before it
\* was there, never comes back, whatever is stored and deleted at the same time.
THEOREM DeletedStaysDeleted ==
  ASSUME NEW b \in Ids PROVE Spec => [](Gone(b) => []Gone(b))
<1>1. IInv /\ [Next]_vars /\ Gone(b) => Gone(b)'
  BY GoneStep
<1> QED
  BY <1>1, Invariance, PTL DEF Spec

=============================================================================
