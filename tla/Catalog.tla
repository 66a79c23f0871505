------------------------------- MODULE Catalog ------------------------------
(***************************************************************************)
(* The backups in one storage, and the processes that work on it at the    *)
(* same time: Backup, ListBackups, GetBackup and DeleteBackup of the three *)
(* Backuper implementations (internal/backup) over the storage providers   *)
(* (internal/storage), at the grain of single calls to the storage.        *)
(*                                                                         *)
(* ListBackups is Storage.List followed by one GetInfo per path.  Every    *)
(* other lookup is built on it: GetBackup takes the first entry with the   *)
(* wanted identifier, DeleteBackup deletes the path GetBackup returned,    *)
(* and an incremental or differential Backup starts from the latest full   *)
(* entry.  Between any two of these calls another process may act.         *)
(*                                                                         *)
(* A backup is its identifier, a number; its path is                       *)
(*     <type>/<db>/<kind>/<start time in seconds>-<identifier>.db          *)
(* Bounds: the clocks show 0 to MaxTime seconds, Ids identifiers are given *)
(* out, an object listing fits one page, and every directory of the local  *)
(* storage was made by an earlier backup (no code removes a directory).    *)
(* Streaming and partial data are the subject of module BackupRun.         *)
(*                                                                         *)
(* A definition named Action_Fault stands before Action and is Action with *)
(* one plausible bug; no specification uses it.                            *)
(***************************************************************************)
EXTENDS Naturals

CONSTANTS
  Creators,  \* processes that run full backups,
  Chainers,  \* ... incremental and differential backups,
  Readers,   \* ... ListBackups and GetBackup,
  Deleters,  \* ... DeleteBackup
  Ids,       \* identifiers that uuid.New may return
  NumDBs,    \* databases that are backed up
  Provider,  \* "local", "s3" or "azure"
  Flaky,     \* TRUE: a request for the properties of an object may fail
  MaxTime    \* bound on what a clock may show

ASSUME CatalogAssumption ==
  /\ Ids \subseteq Nat \ {0}
  /\ NumDBs \in Nat
  /\ Provider \in {"local", "s3", "azure"}
  /\ Flaky \in BOOLEAN
  /\ MaxTime \in Nat

VARIABLES
  rec,      \* what a backup's path and metadata say of it
  data,     \* backups whose object, or data file, exists
  sidecar,  \* local storage: backups whose ".metadata" file exists
  cl,       \* the operation each client is in
  since,    \* history: backups that existed all through a client's listing
  seen,     \* history: backups that existed at some time during it
  excused   \* history: backups whose storing or removal was cut short

vars == <<rec, data, sidecar, cl, since, seen, excused>>

Clients == Creators \cup Chainers \cup Readers \cup Deleters

Local == Provider = "local"
None  == 0    \* no identifier; also the empty identifier ""
DBs   == 1..NumDBs
Kinds == {"full", "incremental", "differential"}
Unused == [db |-> 0, kind |-> "none", start |-> 0, base |-> None]
Used  == {b \in Ids : rec[b].kind # "none"}

\* Between two operations.  Fields of cl[c]: pc, the next call; op, the
\* operation; db, its database; key, the identifier passed in; want, the
\* backup the caller means by it; dir, directories (pages) read; todo, paths
\* read and not yet visited; got, entries so far; base, the base backup;
\* cur, the backup being stored or deleted.
Idle == [pc |-> "idle", op |-> "none", db |-> 0, key |-> None, want |-> None,
         dir |-> 0, todo |-> {}, got |-> {}, base |-> None, cur |-> None]

Init ==
  /\ rec = [b \in Ids |-> Unused]
  /\ data = {}
  /\ sidecar = {}
  /\ cl = [c \in Clients |-> Idle]
  /\ since = [c \in Clients |-> {}]
  /\ seen = [c \in Clients |-> {}]
  /\ excused = {}

Set(c, r) == cl' = [cl EXCEPT ![c] = r]
Finish(c) == Set(c, Idle)

storage == <<data, sidecar, excused>>

-----------------------------------------------------------------------------
(* Paths, and what is read from them.                                      *)

\* Directories in the order of their names.
Rank(k) == IF k = "differential" THEN 1 ELSE IF k = "full" THEN 2 ELSE 3
Dir(b)  == 3 * (rec[b].db - 1) + Rank(rec[b].kind)

\* Listing order: the order of the paths.
Before(a, b) ==
  \/ Dir(a) < Dir(b)
  \/ /\ Dir(a) = Dir(b)
     /\ \/ rec[a].start < rec[b].start
        \/ rec[a].start = rec[b].start /\ a < b

IsFirst(b, S) == b \in S /\ \A o \in S \ {b} : Before(b, o)

\* filepath.Walk reads one directory after the other, sorted by name; an
\* object store returns all keys at once.
Pages   == IF Local THEN 3 * NumDBs ELSE 1
Page(b) == IF Local THEN Dir(b) ELSE 1

\* The metadata of an entry.  The local provider throws away what it has
\* parsed when the parse succeeds, and has nothing when it fails.
EntryId_Dropped(b) == None

EntryId(b)   == IF Local THEN None ELSE b
EntryKind(b) == IF Local THEN "" ELSE rec[b].kind

\* GetBackup: the first entry with the identifier.
IsMatch(b, c) == IsFirst(b, {o \in cl[c].got : EntryId(o) = cl[c].key})
Matches(c)    == {b \in cl[c].got : IsMatch(b, c)}

\* findLatestFullBackup: an entry replaces the best so far only if it
\* started strictly later; the database is not looked at.
FullEntries_AnyKind(c) == cl[c].got

FullEntries(c) == {b \in cl[c].got : EntryKind(b) = "full"}
IsLatest(b, S) ==
  /\ b \in S
  /\ \A o \in S \ {b} : \/ rec[o].start < rec[b].start
                        \/ rec[o].start = rec[b].start /\ Before(b, o)
Latest(c) == {b \in FullEntries(c) : IsLatest(b, FullEntries(c))}

-----------------------------------------------------------------------------
(* The start of an operation.                                              *)

\* A new backup b: uuid.New and the path.  t is time.Now of the host that runs
\* the client: nothing relates the clocks of two hosts, and one may be set
\* back.  r is the client's record so far.
NewBackup(c, r, d, k, base, t) ==
  \E b \in Ids \ Used :
    /\ rec' = [rec EXCEPT ![b] =
                 [db |-> d, kind |-> k, start |-> t, base |-> base]]
    /\ Set(c, [r EXCEPT !.pc = "store", !.db = d, !.op = k,
                        !.base = base, !.cur = b])
    /\ UNCHANGED storage

FullBackup(c) ==
  /\ cl[c].pc = "idle"
  /\ \E d \in DBs, t \in 0..MaxTime : NewBackup(c, Idle, d, "full", None, t)

Begin(c, r) ==
  /\ cl[c].pc = "idle"
  /\ Set(c, [r EXCEPT !.pc = "list"])
  /\ UNCHANGED <<rec, storage>>

\* IncrementalBackup.Backup and DifferentialBackup.Backup.
PartialBackup(c) ==
  \E d \in DBs, k \in {"incremental", "differential"} :
    Begin(c, [Idle EXCEPT !.op = k, !.db = d])

ListBackups(c) == Begin(c, [Idle EXCEPT !.op = "list"])

\* The caller has the identifier from a BackupResult: of the Backup that
\* made b, or of a listing that showed b.
KeyedBegin(c, o) ==
  \E b \in Used : \E k \in {b, EntryId(b)} :
    Begin(c, [Idle EXCEPT !.op = o, !.key = k, !.want = b])

GetBackup(c)    == KeyedBegin(c, "get")
DeleteBackup(c) == KeyedBegin(c, "delete")

-----------------------------------------------------------------------------
(* Storage.List.                                                           *)

ReadNames_OnePageMore(c) ==
  /\ cl[c].pc = "list"
  /\ cl[c].todo = {}
  /\ Set(c, [cl[c] EXCEPT !.dir = @ + 1,
                          !.todo = {b \in data : Page(b) = cl[c].dir + 1}])
  /\ UNCHANGED <<rec, storage>>

\* The names in the next directory, or all keys, are read.
ReadNames(c) ==
  /\ cl[c].pc = "list"
  /\ cl[c].todo = {}
  /\ cl[c].dir < Pages
  /\ Set(c, [cl[c] EXCEPT !.dir = @ + 1,
                          !.todo = {b \in data : Page(b) = cl[c].dir + 1}])
  /\ UNCHANGED <<rec, storage>>

Visit(c, b, keep) ==
  /\ IsFirst(b, cl[c].todo)
  /\ Set(c, [cl[c] EXCEPT !.todo = @ \ {b},
                          !.got = IF keep THEN @ \cup {b} ELSE @])
  /\ UNCHANGED <<rec, storage>>

\* The next entry is there: it is kept.
VisitFound(c) ==
  /\ cl[c].pc = "list"
  /\ \E b \in data : Visit(c, b, TRUE)

\* An object that is gone, or whose properties cannot be had, is left out.
VisitSkipped(c) ==
  /\ cl[c].pc = "list"
  /\ ~Local
  /\ \E b \in cl[c].todo : (b \notin data \/ Flaky) /\ Visit(c, b, FALSE)

\* A local file that is gone makes Walk, and the whole operation, fail.
WalkFails(c) ==
  /\ cl[c].pc = "list"
  /\ Local
  /\ \E b \in cl[c].todo : b \notin data /\ IsFirst(b, cl[c].todo)
  /\ Finish(c)
  /\ UNCHANGED <<rec, storage>>

ListDone_BeforeLastPage(c) ==
  /\ cl[c].pc = "list"
  /\ cl[c].todo = {}
  /\ Set(c, [cl[c] EXCEPT !.pc = "info", !.todo = cl[c].got, !.got = {}])
  /\ UNCHANGED <<rec, storage>>

ListDone(c) ==
  /\ cl[c].pc = "list"
  /\ cl[c].todo = {}
  /\ cl[c].dir = Pages
  /\ Set(c, [cl[c] EXCEPT !.pc = "info", !.todo = cl[c].got, !.got = {}])
  /\ UNCHANGED <<rec, storage>>

(* The loop of ListBackups: GetInfo on every path.                         *)

InfoFound(c) ==
  /\ cl[c].pc = "info"
  /\ \E b \in data : Visit(c, b, TRUE)

InfoSkipped_Retried(c) ==
  /\ cl[c].pc = "info"
  /\ cl[c].todo \ data # {}
  /\ UNCHANGED <<rec, storage, cl>>

InfoSkipped(c) ==
  /\ cl[c].pc = "info"
  /\ \E b \in cl[c].todo : (b \notin data \/ Flaky) /\ Visit(c, b, FALSE)

\* ListBackups has returned cl[c].got.
Listed(c) == cl[c].pc = "info" /\ cl[c].todo = {}

-----------------------------------------------------------------------------
(* What each operation does with the listing.                              *)

\* ListBackups and GetBackup return; GetBackup's answer is Matches(c).
Answer(c) ==
  /\ Listed(c)
  /\ cl[c].op \in {"list", "get"}
  /\ Finish(c)
  /\ UNCHANGED <<rec, storage>>

\* Nothing to work on: "backup not found", "no full backup found".
NotFound(c) ==
  /\ Listed(c)
  /\ \/ cl[c].op = "delete" /\ Matches(c) = {}
     \/ cl[c].op \in {"incremental", "differential"} /\ Latest(c) = {}
  /\ Finish(c)
  /\ UNCHANGED <<rec, storage>>

PickVictim_AnyEntry(c) ==
  /\ Listed(c)
  /\ cl[c].op = "delete"
  /\ \E b \in cl[c].got :
       Set(c, [cl[c] EXCEPT !.pc = "remove", !.cur = b, !.got = {}])
  /\ UNCHANGED <<rec, storage>>

PickVictim(c) ==
  /\ Listed(c)
  /\ cl[c].op = "delete"
  /\ \E b \in Matches(c) :
       Set(c, [cl[c] EXCEPT !.pc = "remove", !.cur = b, !.got = {}])
  /\ UNCHANGED <<rec, storage>>

PickBase(c) ==
  /\ Listed(c)
  /\ cl[c].op \in {"incremental", "differential"}
  /\ \E b \in Latest(c), t \in 0..MaxTime :
       NewBackup(c, [cl[c] EXCEPT !.got = {}], cl[c].db, cl[c].op, b, t)

-----------------------------------------------------------------------------
(* Storage.Delete.                                                         *)

Remove_DataOnly(c) ==
  /\ cl[c].pc = "remove"
  /\ cl[c].cur \in data
  /\ data' = data \ {cl[c].cur}
  /\ Finish(c)
  /\ UNCHANGED <<rec, sidecar, excused>>

\* The object, or the data file, is removed.  os.Remove and Azure report an
\* absent one, S3 does not.  A local Store that is still writing goes on.
Remove(c) ==
  /\ cl[c].pc = "remove"
  /\ cl[c].cur \in data \/ Provider = "s3"
  /\ data' = data \ {cl[c].cur}
  /\ excused' = IF \E o \in Clients : cl[o].pc = "fill" /\ cl[o].cur = cl[c].cur
                THEN excused \cup {cl[c].cur} ELSE excused
  /\ IF Local THEN Set(c, [cl[c] EXCEPT !.pc = "removeSidecar"]) ELSE Finish(c)
  /\ UNCHANGED <<rec, sidecar>>

RemoveFails(c) ==
  /\ cl[c].pc = "remove"
  /\ cl[c].cur \notin data
  /\ Provider # "s3"
  /\ Finish(c)
  /\ UNCHANGED <<rec, storage>>

\* The error of the second os.Remove is dropped: the file may stay, and the
\* Delete succeeds.
RemoveSidecar(c) ==
  /\ cl[c].pc = "removeSidecar"
  /\ \/ sidecar' = sidecar \ {cl[c].cur} /\ UNCHANGED excused
     \/ /\ cl[c].cur \in sidecar
        /\ excused' = excused \cup {cl[c].cur}
        /\ UNCHANGED sidecar
  /\ Finish(c)
  /\ UNCHANGED <<rec, data>>

-----------------------------------------------------------------------------
(* Storage.Store and the GetInfo that follows it.                          *)

\* An object appears with its metadata; a local file appears first.
Store(c) ==
  /\ cl[c].pc = "store"
  /\ data' = data \cup {cl[c].cur}
  /\ Set(c, [cl[c] EXCEPT !.pc = IF Local THEN "fill" ELSE "stat"])
  /\ UNCHANGED <<rec, sidecar, excused>>

WriteSidecar(c) ==
  /\ cl[c].pc = "fill"
  /\ sidecar' = sidecar \cup {cl[c].cur}
  /\ Set(c, [cl[c] EXCEPT !.pc = "stat"])
  /\ UNCHANGED <<rec, data, excused>>

\* Backup returns: a result if the path is there, an error otherwise.
Stat(c) ==
  /\ cl[c].pc = "stat"
  /\ Finish(c)
  /\ UNCHANGED <<rec, storage>>

\* A call fails, or the process dies: what it has stored or removed stays.
Abort(c) ==
  /\ cl[c].pc # "idle"
  /\ excused' = IF cl[c].pc = "removeSidecar"
                THEN excused \cup {cl[c].cur} ELSE excused
  /\ Finish(c)
  /\ UNCHANGED <<rec, data, sidecar>>

-----------------------------------------------------------------------------
Call(c) ==
  \/ ReadNames(c) \/ VisitFound(c) \/ VisitSkipped(c) \/ WalkFails(c)
  \/ ListDone(c) \/ InfoFound(c) \/ InfoSkipped(c)
  \/ Answer(c) \/ NotFound(c) \/ PickVictim(c) \/ PickBase(c)
  \/ Remove(c) \/ RemoveFails(c) \/ RemoveSidecar(c)
  \/ Store(c) \/ WriteSidecar(c) \/ Stat(c)

Start ==
  \/ \E c \in Creators : FullBackup(c)
  \/ \E c \in Chainers : PartialBackup(c)
  \/ \E c \in Readers  : ListBackups(c) \/ GetBackup(c)
  \/ \E c \in Deleters : DeleteBackup(c)

Step == Start \/ \E c \in Clients : Call(c) \/ Abort(c)

\* The histories of a client's listing, from the first step of its
\* operation until the listing has been used.
Listing(r) == r.pc \in {"list", "info"}

Track ==
  /\ since' = [c \in Clients |->
                 IF ~Listing(cl'[c]) THEN {}
                 ELSE IF Listing(cl[c]) THEN since[c] \cap data' ELSE data']
  /\ seen' = [c \in Clients |->
                 IF ~Listing(cl'[c]) THEN {}
                 ELSE IF Listing(cl[c]) THEN seen[c] \cup data' ELSE data']

Next == Step /\ Track

Spec == Init /\ [][Next]_vars

\* A process that runs makes its next call, and the call returns.
FairSpec == Spec /\ \A c \in Clients : WF_vars(Call(c) /\ Track)

-----------------------------------------------------------------------------
(* Properties.                                                             *)

TypeOK ==
  /\ rec \in [Ids -> [db : 0..NumDBs, kind : Kinds \cup {"none"},
                      start : 0..MaxTime, base : Ids \cup {None}]]
  /\ data \subseteq Used
  /\ sidecar \subseteq Used
  /\ cl \in [Clients ->
       [pc : {"idle", "list", "info", "remove", "removeSidecar", "store",
              "fill", "stat"},
        op : Kinds \cup {"none", "list", "get", "delete"},
        db : 0..NumDBs,
        key : Ids \cup {None}, want : Ids \cup {None},
        dir : 0..Pages, todo : SUBSET Used, got : SUBSET Used,
        base : Ids \cup {None}, cur : Ids \cup {None}]]

\* A listing taken while others store and delete has every backup that
\* existed all the time and none that never did (full.go 144-185, local.go
\* 126-184).
ListingIsBetween ==
  \A c \in Clients :
    Listed(c) => since[c] \subseteq cl[c].got /\ cl[c].got \subseteq seen[c]

\* GetBackup and DeleteBackup find a backup that exists all the time, and no
\* other one, by the identifier of its BackupResult (full.go 188-216).
KnownBackupIsFound ==
  \A c \in Clients :
    Listed(c) /\ cl[c].op \in {"get", "delete"} /\ cl[c].want \in since[c]
      => Matches(c) = {cl[c].want}

\* An incremental or differential backup starts from a full backup at least
\* as recent, by the recorded start times, as every full backup that existed
\* all through the lookup, and finds one if there was one (incremental.go 38-60,
\* differential.go 38-60).
BaseIsLatestFull ==
  \A c \in Clients :
    LET full == {b \in since[c] : rec[b].kind = "full"} IN
    Listed(c) /\ cl[c].op \in {"incremental", "differential"} =>
      /\ full # {} => Latest(c) # {}
      /\ \A l \in Latest(c) :
           /\ rec[l].kind = "full" /\ l \in seen[c]
           /\ \A b \in full : rec[b].start <= rec[l].start

\* The base is a backup of the same database.
BaseOfSameDB ==
  \A b \in Ids : rec[b].base # None => rec[rec[b].base].db = rec[b].db

\* A metadata file without its data file comes only from a DeleteBackup that
\* was interrupted, that could not remove the file and did not say so, or that
\* overtook the Backup storing the same file (local.go 42-82, 106-123).
OrphanSidecarHasCause ==
  \A b \in sidecar \ data :
    b \in excused \/ \E c \in Clients : cl[c].pc = "removeSidecar" /\ cl[c].cur = b

\* DeleteBackup removes only a backup that some caller wants deleted.
RemovesOnlyWanted ==
  [][\A b \in data \ data' :
       \E c \in Clients : cl[c].op = "delete" /\ cl[c].want = b]_vars

\* A call returns, except that the bound may leave no identifier for a backup.
MayCall(c) ==
  /\ cl[c].pc # "idle"
  /\ Listed(c) /\ Used = Ids =>
       cl[c].op \in {"list", "get", "delete"} \/ Latest(c) = {}

\* A client whose next call may return makes it: every call of the loops has an
\* answer, an error among them (full.go 144-185, local.go 126-184).
WhoMayStepDoes ==
  \A c \in Clients : []<>~MayCall(c) \/ []<><<Call(c) /\ Track>>_vars

\* What an operation has still to do: the calls after its listing, directories,
\* paths.  Later(r, s): the client's record s comes after r in one operation.
CallsLeft == [idle |-> 0, stat |-> 1, fill |-> 2, store |-> 3,
              removeSidecar |-> 1, remove |-> 2, info |-> 4, list |-> 5]
Later(r, s) ==
  \/ CallsLeft[s.pc] < CallsLeft[r.pc]
  \/ s.pc = r.pc /\ s.dir \in (r.dir + 1)..Pages
  \/ s.pc = r.pc /\ s.dir = r.dir /\ s.todo # r.todo /\ s.todo \subseteq r.todo

\* No client repeats a call or takes one back, nor is it sent back by what the
\* others store and delete (full.go 144-185).
EveryStepCounts ==
  [][\A c \in Clients :
       cl'[c] # cl[c] => cl[c].pc = "idle" \/ Later(cl[c], cl'[c])]_vars

\* Whatever the others do, an operation comes to its end: each of its calls is
\* answered and counts, and a listing does not chase the paths that come and go
\* (full.go 144-185).  An operation that needs an identifier when the bound
\* leaves none may stop there.
OperationsEnd ==
  /\ WhoMayStepDoes
  /\ EveryStepCounts
  /\ \A c \in Clients : []<>(cl[c].pc = "idle" \/ (Listed(c) /\ Used = Ids))

\* The catalog keeps the promise of module Vault.
V == INSTANCE Vault WITH
       named   <- Used,
       pending <- {cl[c].cur : c \in {p \in Clients : cl[p].pc = "store"}},
       present <- data,
       asked   <- {cl[c].want : c \in {p \in Clients : cl[p].op = "delete"}}

ImplementsVault == V!Spec

=============================================================================
