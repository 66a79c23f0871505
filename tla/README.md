# Backyard Backup: a TLA+ model

This directory holds a formal model of Backyard Backup (`src/`), a Go program
that dumps a database (SQLite, MySQL, PostgreSQL, MongoDB) into a storage (a
local directory, S3, Azure) and lists, fetches, deletes and restores such
backups. The modules are TLA+ specifications checked with TLC, the theorems are
proved with TLAPS. `PROJECT.json` maps every definition to the lines of code it
stands for, and lists the runs, the findings and the hazards.

At this commit the packages do not compile as a whole (`isBackupFile` and
`filterTables` are declared in three files of one package, `ProviderConfig`
twice in `storage`, some connectors disagree with their interface), there are
no tests, and `main.go` reaches only part of the code. The model therefore
follows each function as it is written, and combines functions the way the
interfaces `Connector`, `Provider`, `Backuper` and `Restorer` combine them.

## 1. Inventory

| Component | State it keeps | Operations | What makes it correct |
|---|---|---|---|
| Backup run (`internal/backup`, `Backup` of the three Backupers) | caller, goroutine running `DB.Backup`, an `io.Pipe`, `errCh` of capacity 1, the object being written | `Backup` | success only for a whole object with metadata, but for what the disk tells `Close` alone; neither side waits for ever; what a failure or crash leaves behind is known |
| Catalog (`ListBackups`, `GetBackup`, `DeleteBackup`, `findLatestFullBackup`, over `storage.Provider`) | the paths and metadata in the storage; several processes use it | list, get, delete, choose a base, store | a listing is consistent; an identifier finds its backup and no other; the base is the latest full backup; only what was asked for disappears |
| Restore run (`internal/restore/selective.go`, `Connector.Restore`) | the `restores` map, a pipe for each call, the database file, its `.tmp`, the connector's `db` handle | `Restore`, `ValidateBackup`, `ListRestores`, `GetRestore` | the live database is the old one or what a whole stream delivered; a result recorded as a success is one; calls that overlap break only what is named |
| Database connectors (`internal/database`) | connection fields, `db` | `Connect`, `Close`, `Backup`, `Restore`, `ListTables`, `GetInfo` | calls fail before `Connect`, a failed call leaves the connector usable |
| Storage providers (`internal/storage`) | base path or client; the storage itself | `Initialize`, `Store`, `Retrieve`, `Delete`, `List`, `GetInfo` | part of the catalog above |
| Scheduler (`internal/scheduler`) | task slice and the array behind it, `running`, a context, a mutex | `AddTask`, `RemoveTask`, `ListTasks`, `Start`, `Stop` | the slice behaves as a list; a listing does not change under its reader; of several `Start`s one sets `running`; every call returns |
| Command line (`cmd/dbbackup/main.go`) | flags, the chosen command, a signal goroutine | `main`, `loadConfig`, `setupSignalHandler`, `runBackup`, `runRestore`, `runListBackups` | the exit status tells whether the command was carried out; the log agrees with it; the process ends; the tables asked for are dumped |
| Configuration (`config`) | the file | `LoadConfig`, `SaveConfig`, `DefaultConfig` | half a file is not taken for a configuration (a guard of `Program`, no property) |
| Logger (`internal/logging`) | level, log file, mutex | `NewLogger`, `SetLevel`, `Close`, `log` | a command that fails is in the log, whatever the level, unless the write of that line is lost |
| Compression (`internal/compression`) | none | `Compress`, `Decompress` | decompressing gives back what was compressed |
| Utilities, Slack notifier | none | formatting, path checks; `Notify` always fails | - |

Callers reach the components in one direction. `main.go` builds a connector and
a provider from the configuration and hands both to a `Backuper`;
`SelectiveRestorer` holds a connector, a provider and a `Backuper`; no command
builds one (`runRestore` only answers an error), and nothing calls the
scheduler. Inside `Backup` and `Restore` the two sides run in two goroutines
joined by an `io.Pipe` (no buffer) and an error channel (capacity 1). Separate
processes meet only in the storage.

### What is hard here

* **One outcome, two signals.** The producing goroutine ends its stream with a
  plain `pw.Close()`, whether it succeeded or not, and sends its outcome on
  `errCh`. The consumer sees a clean end of stream either way, so everything
  depends on who looks at `errCh`, and when.
* **Early returns.** A consumer that fails before the end of the stream neither
  reads nor closes the pipe: the producer stays behind.
* **Steps that are not atomic.** Data file and metadata file, listing and
  `GetInfo`, lookup and delete, lookup of a base and storing of what depends on
  it, copy and rename over the database: a crash or another process may come
  between any two.
* **A database that is being written** while its file is copied.
* **Fields without a lock.** The restorer's map, the connector's `db` and the
  `.tmp` path are shared by calls that nothing keeps apart.
* **Slices that share an array.** The scheduler moves tasks inside the array of
  a slice; a listing must not be one of that array.
* **A process that ends in the middle.** The signal handler exits half a second
  after the signal, whatever `main` is doing. A tool that the process has
  started need not end with it.
* **Errors nobody hears of.** The `Close` of a file, the removal of a metadata
  file and the write of a log line have errors that the code drops.

`PROJECT.json` lists each hazard at its line, with the property that covers it
or the reason why none does.

## 2. The modules

| Module | What it is |
|---|---|
| `Transfer` | abstract: one transfer of a stream; "ok" is announced only for all of it |
| `BackupRun` | one call of `Backup`, step by step, through any connector into any storage; implements `Transfer` |
| `Vault` | abstract: a set of backups with atomic operations |
| `Catalog` | several processes storing, listing, fetching, deleting and chaining backups; implements `Vault` |
| `Restoration` | abstract: what calls of `Restore` promise of the one database that they share |
| `RestoreRun` | calls of `Restore` through any connector, one after the other or at once, with failures, crashes and goroutines left behind; implements `Restoration` |
| `Program` | one run of `dbbackup`, with a `BackupRun` inside |
| `TaskList` | abstract: a list of tasks with atomic operations, listings that stay as they are |
| `Scheduler` | goroutines that use one scheduler, with slices, arrays and mutex; implements `TaskList` |
| `BackupRunProofs`, `CatalogProofs`, `RestoreRunProofs`, `RestorationProofs`, `ProgramProofs`, `SchedulerProofs` | the theorems |

The parts are composed by what they hand each other. `Program` has an instance
of `BackupRun`: the steps of a `Backup` and its goroutine run between the steps
of `main` and of the signal handler, and `End` is its `Crash`. `BackupRun`
shows which objects a `Backup` can leave behind: whole ones, short ones without
metadata (local storage), short ones with metadata (`DumpFail` then the end of
the stream, or a page lost by the disk). `RestoreRun` starts from a stored
backup of any length up to the whole one, which is that set. `Catalog` treats
an object as present or absent and looks at what several processes do to many
of them.

### BackupRun

`liveRead` and `staged` say which connector and which storage the call was
given; they are chosen in `Init` and never change. `pc` is the next step of the
caller, `prod` that of the goroutine, `errCh` the channel. The steps of the
caller follow `full.go` 51-140; inside `Store` they follow `local.go` 43-82
(`StoreCreate`, `StoreCopy`, `StoreEOF`, `MetaCreate`, `MetaWrite`) or, with
`staged`, an object store (`Publish` makes object and metadata visible
together; `PublishFail` may have done so too, the answer being lost;
`UploadFail` may come at any time). The goroutine reads a page and offers it to
the pipe (`ReadPage`), waits until `Store` takes it, sends its outcome
(`DumpDone`, `DumpFail`) and only then closes the pipe (`ClosePipe`), which is
the order of the `defer`.

Data are abstracted to what a torn copy needs: a page is the number of the
commit it was read from. With `liveRead` (SQLite, and `mongodump`, which runs
without `--oplog`) each page is of the commit current when it is read;
otherwise the tool keeps to the snapshot of its first read, which is what
`mysqldump --single-transaction` and `pg_dump` do. That is an assumption about
the tools, and no property.

`lost` says that the disk did not keep a page that `Write` had accepted for a
local file. `DelayedWriteFails` may set it at any time while the file is open;
only the deferred `file.Close` (`local.go` 61) is told, and its error is
dropped, so the call goes on as if nothing had happened. `SuccessIsComplete`
names this one exception; object stores do not have it.

Cancelling the context makes a call fail that may fail anyway, so it has no
action of its own. `Crash` is `os.Exit` in the signal handler (`main.go`
136-148), or a kill.

### Catalog

A process is in one operation at a time; `cl[c]` holds its local state: the
paths read and not yet visited (`todo`), the entries so far (`got`), the
identifier passed in (`key`). Each step is one call to the storage: reading the
names of one directory or of all keys (`ReadNames`), one `Lstat` or
`HeadObject` (`VisitFound`, `VisitSkipped`, `WalkFails`), one `GetInfo`
(`InfoFound`, `InfoSkipped`), a removal, a store. A path exists in `rec`, which
keeps what the path and the metadata say; `data` and `sidecar` say which files
exist. Entries are visited in the order of their paths, since the first match
(`GetBackup`) and the first of equal times (`findLatestFullBackup`) depend on
it. The local provider's lost metadata is in `EntryId` and `EntryKind`.

`since` and `seen` are histories for the properties: the backups that existed
during all of a listing, and at some time during it. `excused` records
interrupted deletes, deletes that overtook a store, and deletes that succeeded
although the metadata file could not be removed (`local.go` 120 drops that
error). No guard reads them.

Start times come from the clocks of the hosts that the processes run on. A
backup gets any time that a clock may show; nothing makes it later than that of
a backup stored before, nor than that of its base. "Latest" is therefore what
the recorded times say, as it is in the code.
`Abort` is a failing call or the death of a process: it keeps what is stored.

### RestoreRun

`kind` is the connector. "sqlite" (`sqlite.go` 88-137): `CheckHandle`,
`CloseHandle`, `SetNil`, `CreateTmp`, `CopyChunk`, `CopyEOF`, `Rename`,
`Reopen`, each a step of its own since nothing locks the connector. "tool" is
`mysql` or `pg_restore`, which change the database as they read (`ApplyChunk`,
`ApplyEOF`, `ApplyFail`). "mongo" copies the stream to a temporary file of its
own and then runs `mongorestore --drop` on it (`BufferChunk`, `BufferEOF`,
`Sync`, `LoadChunk`, `LoadDone`).

`Restore(i)` begins call `i`, also while others are running. The goroutine of
each call (`ReadChunk`, `RetrieveDone`, `RetrieveFail`, `ClosePipe`) lives on
when its call has returned, so all control is a function of the call.
`recorded` is the map that `ListRestores` and `GetRestore` read; two calls at
`record` race for it. `live` is the call the database comes from, `put` how
much each call has put in place, `tmp` the length of the shared `.tmp` file
("mixed" once two calls have written to it). `handle` is the connector's `db`,
"closed" when its `Close` failed, "nil" after a failure further on; `Connect`
repairs it. A nil `db` used after it was checked is `Panic`.

`Die` is the end of the process, by a kill, a panic or `os.Exit`. It clears the
map, the channels and the handle. Calls end as "dead", those that have a tool
at work (`apply`, `load`) as "orphan": nothing kills `mysql`, `pg_restore` or
`mongorestore` with their parent. `OrphanApplies` goes on with what the tool
already has, up to everything in its pipe or file, and `OrphanEnds` is its end,
with success, with an error or by a kill; both may happen while calls of a
later process run.

`faults` is a history that no guard reads: two calls overlapped, raced for the
map ("map"), passed the nil check together ("handle"), ran two tools on one
database ("tool", also if one of them was left behind by a process that died),
a write error was told to `file.Close` alone ("close",
`sqlite.go` 112), a nil `db` was used ("panic"). The properties say which of
them each promise survives.

`Restoration` hides all of this. It sees of a call how much its stream has
brought and whether it has ended (`StreamOver`), how much is in place
(`InPlace`) and its answer, and of the database the call it comes from. A
database file is replaced in one step by all that the stream of a call has
brought; `mongorestore` applies chunks only behind the end of the stream; a
call that has answered no longer reaches the database; only one that has put
everything in place succeeds. A crash changes nothing by itself: it loses calls
or leaves them "adrift", with their tool still applying, until each is lost
too (`Sink`). Under `Void`, the faults "handle", "tool" and "close", it
promises nothing.

### Program

`step` is the next step of `main` (`main.go` 56-98): `FindConfig` and
`LoadConfig` or `DefaultConfig`, `NewLogger`, `SetupSignalHandler`, `Dispatch`,
`Lookup`, `Connect`, `ChooseProvider`, `Initialize`, `StartBackup`,
`BackupReturned` or `ListBackups`, and `ExitOne` or `MainReturns`.
`SaveTruncates` and `SaveWrites` are the two halves of a `SaveConfig` by
another process, which may die between them. `level` may be unknown to the
logger; `ShouldLog` gives it the weight that Go's map gives it, 0.

`Log` writes the line, or loses it: `MultiWriter` stops at stdout if that does
not take it (`logger.go` 36), and the logger drops the error (97). `unwritten`
is the history of lost lines.

`StartBackup` chooses the tables of the database and the flags. What is passed
to the connector (`Passed`) is computed as the code does it, by `FilterTables`
in two passes over the output of `ListTables`, which for `mysql` and a database
without tables is one blank name. `Dumps` is what each connector makes of the
names: SQLite copies its file, an empty list means every table, `mongodump`
keeps the last of several `--collection` (`mongodb.go` 68), `pg_dump` gets
several names as one and finds none (`postgres.go` 67-70). A name that no table
has makes the tool fail (`DumpRefused`). What the flags ask for is stated
apart from all of this (`Asked`), and the property compares it with what is in
the dump in the end.

No call has a deadline. `MainHangs` lets any call of `main` to the database or
the storage hang: `Connect`, `Initialize`, the listing of backups, and every
call inside `Backup`; `WriterHangs` does so for the dump. `HangEnds`: a call
that has the context gives up when the handler cancels it, a call to the file
system does not. `Signal` kills the process until `setupSignalHandler` has run;
afterwards the handler cancels the context and `HandlerExits` ends the process
with 0.

### Scheduler

`arrays` are the arrays behind slices, one of each capacity that `append` grows
to (1, 2, 4, ...) and one for the copy a client's `ListTasks` has made; a slice
is an array and a length. Every access to a field is a step, so only `mutex`
keeps the calls apart: `AppendInPlace`, `AppendGrows` and `Store` are the two
halves of `s.tasks = append(s.tasks, task)`; `Shift` moves the tail of the
array down as `RemoveTask` does; `Make` and `Copy` are `ListTasks`. Under the
refinement to `TaskList` a call takes effect when it has changed the array
(`Shown`), and a listing is what its slice reads *now*, so a listing that
shared the array of the tasks would be seen to change.

`Start` sets `running` and then answers that it is not implemented; the
property about it is that overlapping `Start`s set it once. `LoadSchedules` and
`parseCronExpression` always fail and change nothing.

## 3. The runs

Every property has at least one mutant in `PROJECT.json`: a definition
`Action_Fault`, which stands in the module just before `Action` and is the same
action with one plausible bug. TLC finds the property violated when the action
is replaced by it.

| Run | Shows | Bounds |
|---|---|---|
| `backup` | any connector into any storage: a reported success is whole, unless the disk loses a page and tells only `Close`, metadata seals a stream read to its end, a goroutine outlives `Backup` only after a failed `Store`, the two never wait for each other, no step is repeated, `Transfer` is implemented, so that `Backup` returns | 4 pages, 3 commits |
| `backup_torn` | **violated**: a live copy mixes two states | 2 pages, 1 commit |
| `catalog_s3` | listings are consistent, identifiers find their backup, the base is the latest full one by the recorded times, `Vault` is implemented, no call is repeated, operations end | 2 processes, 2 backups, 2 times |
| `catalog_local` | directory by directory, both processes deleting: a walk that does not fail is consistent; metadata without data has one of three causes | 2 processes, 2 backups, 2 databases |
| `catalog_omits` | **violated**: a failed `HeadObject` drops a backup from the listing | 1 backup |
| `catalog_local_delete` | **violated**: a local delete by the listed identifier removes another backup | 2 backups |
| `catalog_base` | **violated**: the base is of another database | 2 databases |
| `restore` | all connectors, calls that may overlap: a success is whole and in place until a later call replaces it, the database is old or all that was delivered, the nil check keeps calls apart, a restore under way or returned is listed, also when a tool outlives its process, but for the faults each property names; a goroutine is left behind only by a failure; no call and goroutine wait for each other, no step is repeated, `Restore` returns, `Restoration` is implemented | 2 chunks, 2 calls |
| `restore_valid` | **violated**: a truncated backup is valid and restored with success | 2 chunks, 1 call |
| `program` | status 0 exactly for a command carried out, the log does not contradict it, the tables asked for are dumped, the call of `Backup` returns unless it hangs, and the process ends, after a signal whatever hangs | 1 page, no commit, 2 tables, databases with none or both of them, 4 database types, levels "error" and an unknown one |
| `selection` | **violated**: a MongoDB backup of several collections succeeds with one of them | 2 tables |
| `scheduler` | no race for fields or arrays, one `Start` sets `running`, `TaskList` is implemented, whoever holds the mutex can go on, calls return | 2 goroutines, 2 names, 3 tasks at a time; one goroutine adds, the other removes and lists, both start and stop |

Why the bounds are enough to be of use: with two chunks or more a stream can
stop at its start, in the middle and at its end while a chunk is in the pipe;
with three commits and four pages a dump can be torn between any two of them
and again; with two calls of `Restore` every race is a race of two, and a
goroutine of the first is alive during the second; with two backups an entry
can be deleted while another is visited, names can be in either order and times
can be equal or not; with two processes any two calls can be interleaved; with
three tasks the array grows to 1, 2 and 4, an element can be added in place,
and a removal can hit the first, a middle and the last task. Two goroutines in
roles meet in every pair of calls that touches the array, with one of each pair
inside the mutex and the other at its door. In `Program` one page is enough:
what `main` sees of a `Backup` is its result, and the pages are the subject of
the runs of `BackupRun`; with two tables a selection can be empty, one, or
several. The theorems below remove the
bounds for every safety property.

Deadlock checking is off where the system may stop: a `Backup` has ended, no
identifier is left, no call of `Restore`, the process has exited. That nothing
stops too early is what `Advances`, `ImplementsTransfer` (the abstract transfer
is fair, and always answers), `RestoreReturns`, `OperationsEnd`, `WaitsEnd` and
`ProgramEnds` say. The scheduler stops nowhere;
`WhoMayStepCan` and `CallsReturn` say more than the absence of a deadlock,
since a lock that one call keeps shows even while others run.

### Why calls return

The properties of the modules that run goroutines divide the question into
parts that can be argued about one by one:

* `NoMutualWait`: while a call runs, its caller or its goroutine waits for
  nothing. The conditions `CallerMayStep` and `GoroutineMayStep` name what each
  waits for: a page in the pipe, room in it, the outcome in `errCh`.
* `EveryStepCounts`: each step lowers what is left, a number (`StepsLeft`) or,
  in the catalog, a phase, a directory or a set of paths (`Later`). A loop that
  tries a page, a request or a path again would break it.
* `WhoMayStepDoes`: one that does not wait makes its step. This is the fairness
  below, with the conditions spelled out instead of `ENABLED`. It follows from
  `FairSpec`, and would not if a condition left out something that the code
  waits for; TLC checks that as part of `ImplementsTransfer`, `RestoreReturns`,
  `OperationsEnd` and `WaitsEnd`, and in the scheduler as the invariant
  `WhoMayStepCan`, that the conditions enable the steps.

`Advances` is the first two of `BackupRun` and of `RestoreRun` together;
`OperationsEnd` has the second of `Catalog`; `WaitsEnd` of `Program` adds to
the third that the call of `Backup` returns.

### Fairness

The Go scheduler runs every goroutine that can run, and a call that has what it
waits for returns with some answer: weak fairness on the caller and on each
goroutine (`BackupRun`, `RestoreRun`), on the calls of each process
(`Catalog`), and on `main`, the backup and the handler's half second
(`Program`). The caller's group has the failures in which a call returns
anyway, so a call need not succeed to end. It does not have failures that would
break a wait by themselves: nothing forces a dump, an upload or a retrieval to
fail, a process to crash, an operation to begin, an application to commit, or a
connection to be repaired. A pipe that blocked for ever would therefore be
found. One failure is fair in `Program`: the dump for which `pg_dump` was given
names it cannot find.

The code sets no timeout (`Config.Timeout` is not used). In `Program` every
call to the database or the storage may hang; no fairness makes it return and
none sends a signal. `ProgramEnds` allows for that case, but not once the
handler has cancelled the context: then the process ends whatever hangs. The
other modules leave out an answer that never comes.

In `Scheduler` the code inside a call is weakly fair and `Lock` strongly fair:
other goroutines may take the mutex again and again, but `sync.Mutex` hands
itself to the first in line once that has waited for a millisecond.

### Findings

The six violated runs are disagreements between the code and what it says of
itself; `PROJECT.json` quotes both sides. Two of them are plain bugs: the
inverted error test in `local.go` 159 and 204 empties the metadata of every
local backup, and `mongodb.go` 68 repeats `--collection`, of which `mongodump`
takes one, so that a backup of several collections reports success with one of
them in it.

## 4. The proofs

The six modules of proofs hold theorems for every value of the constants,
under the assumptions `ConstantsAssumption`, `CatalogAssumption`,
`RestoreAssumption`, `ProgramAssumption` and `SchedulerAssumption` (sizes and
bounds are natural numbers, switches are Booleans, identifiers are positive
numbers, database types are among the four, goroutines are not numbers). TLC
evaluates them on the runs. Each component's theorems rest on an inductive
invariant `IInv`.

*BackupRun.* `SuccessIsComplete` is not inductive: that a success has every
page depends on how many pages were read, sent and stored in each phase of two
processes. `IInv` adds `PipeInv` (until `Store` gives up, what was read is what
is stored plus the page in the pipe), `SealInv` (behind the end of the stream
nothing is in the pipe) and `ErrChInv` (a nil in the channel stands for a whole
dump). Proved: `TypeCorrect`, `SuccessComplete`, `MetadataSeals`,
`BlockedWriter`; and `BackupImplementsTransfer`, the safety part of the
refinement. A page that the disk loses (`lost`) is in no invariant: the pages
`Store` has taken are the same, and `SuccessIsComplete` excepts it.

*RestoreRun.* With overlapping calls nothing holds of a call alone. `IInv` has
`StepInv` (which steps a connector's calls and their goroutines can be at),
`OutcomeInv` (an outcome is sent after the last chunk, the end of the stream
after the outcome), `PutInv` (what a call has put in place is what it took, for
the tools), `CopyInv` (the `.tmp` file has every chunk its one writer took, at
every step up to the rename), `HandleInv` (one call at most is between the
check and the reopening, unless the fault "handle" has happened) and `AloneInv`
(without an overlap one call runs at most, and a checked `db` is not nil). Of a
tool that outlives its process they say that it has a chunk to apply only from
what its call had taken; `OrphanStep` shows that it disturbs no part of `IInv`,
unless it is the second at work. Each carries the faults under which it may
fail, so that the theorems need no assumption: `TypeCorrect`,
`LiveOldOrDelivered`, `NilCheckMutex`, `NoPanicAlone`, `EveryRestoreListed`,
`BlockedFailed`. `SuccessWhole` also says which call the database comes from,
which `IInv` does not know: `OrderInv` adds that without an overlap the call
that runs is the last one begun, and that from its rename, or its first chunk,
on the database is its own or a later one's. By `OwnOrder` a step of a call
moves only this call, and `live` only to it; an orphan that moves `live` back
while a later call runs, or after it, is the fault "tool".

*Restoration.* `RestorationProofs` shows the refinement step by step: a step of
a caller is invisible (`SilentCall`, `GoToIsSilent`), an answer
(`ReturnReplies`), a rename (`ReplaceSeen`) or a chunk applied (`ApplySeen`); a
step of a goroutine brings or ends its stream (`GoroutineSeen`); a crash is a
crash, in which calls with a tool at work go adrift (`DieSeen`); what such a
tool does is an `Apply` or the `Sink` (`OrphanSeen`). `IInv` is needed at every
visible step: at the rename the `.tmp` file is what this call's stream has
brought (`CopyInv`), at a success all of the stream is in place (`PutInv`,
`OutcomeInv`). A step after which `Void` holds needs nothing, and `Void` never
ends (`VoidStays`). The result is `RestoreImplementsRestoration`, for any
number of calls, chunks and crashes; and from it `NoLateEffect`: a call that
has answered, or that is lost and no longer adrift, never changes the database
again, although its goroutine may live on. Of a call whose tool outlives the
process nothing of the kind is claimed.

*Program.* `ProgramRunsBackup` shows that every step of the program is a step
of `BackupRun` or leaves its variables alone, so that the invariant of
`BackupRunProofs` is used as a fact: `ExitStatusTells` rests on it. `IInv` adds
`ControlInv` (what has happened at each step of `main`), `ExitInv` (what each
end of the process and each line in the log imply) and `SelectionInv` (a dump
has what the flags ask for, or its tool refuses). That two passes over the
tables, and what a tool makes of the names, come to what is asked for is
`DumpSelects`; `StartSelects` applies it to the step that chooses them. Proved:
`TypeCorrect`, `ExitStatusTells`, `LogTells`, `SelectedTablesDumped`.

*Scheduler.* `ControlInv` (the holder of the mutex is the only one inside a
call; `starts` follows `running`; the next step fits the operation asked for)
proves `OneStartOnly` by itself. `ArrayInv` (an array has the size its slot
says, slices lie inside their arrays), `LocalInv` (what each step of a call has
prepared) and `ListingInv` (a listing is in its client's own array) prove
`TypeCorrect` and `RaceFree`, and carry the refinement
`SchedulerImplementsTaskList`: one lemma for each action says what it does to
the sequence that `Shown` reads. `ListTasksAnswers` is what the refinement
means for a caller: a listing is the whole list of one instant and never
changes under its reader, and a `RemoveTask` that answers true has taken out
one task of that name, the first.

*Catalog.* That a listing is consistent depends on how far it has got, so
`IInv` has `HistInv`: while names are read, every backup that existed all the
time and lies in a directory already read is in `todo` or `got`; while
`GetInfo` calls are made, every such backup is. `OpInv` ties the identifier
passed in, the backup meant and the one picked together, `BaseInv` says that
bases are full backups, in use and without a base, `StoreInv` says that no
backup is stored twice. The lemma `Frame` (a step changes one client's record
and nothing that is known of a named backup) carries all of them over the steps
of other clients. Proved: `TypeCorrect` and `ChainsHaveOneLink` (by
`LatestAreFull`: the base is picked among full entries, so it has no base
itself; a run would need three backups to tell) for every provider;
`ListingConsistent` for every provider when requests do not fail (`~Flaky`,
which the run `catalog_omits` shows to be needed); `KnownFound` and `BaseFound`
for the object stores whose requests do not fail, `CatalogImplementsVault` for
all object stores (`~Local`, which `catalog_local_delete` shows to be needed: a
local listing has lost the identifiers and the kinds). `BaseFound` needs a
latest entry among those found; it is picked by start time, then by directory,
then by name, each time from the well-foundedness of the naturals.
`OrphanHasCause` has an invariant of its own, `OrphanInv`: a `Store` that is
writing has its file, unless a `Delete` has overtaken it.

`OnlyWantedRemoved` says of the object stores what `catalog_local_delete`
refutes for the local one.

Three theorems hold for every provider or every failure, and bound what the
findings can do. `LookupsOnlyOmit`: when requests fail (`catalog_omits`) a
lookup leaves out backups and does nothing worse; it never lists what never was
there, finds another backup than the one meant or takes a base that is not a
full backup. `DeletedStaysDeleted`: a backup that is gone, and that nobody is
storing, stays gone. `LocalIsAllFull`: by the finding of `local.go` 204 a local
storage never gets an incremental or a differential backup at all.

Every safety property of the passing runs is proved but `WhoMayStepCan` of
`Scheduler`, which is about `ENABLED`; so are the refinements
`ImplementsVault`, `ImplementsTaskList`, `ImplementsRestoration` and the safety
part of `ImplementsTransfer`, the latter also for the `Backup` inside the
program (`ProgramTransfers`).

### Termination

The prover cannot treat `ENABLED`, and so not `WF_` and `SF_`. The theorems
about what must happen have `WhoMayStepDoes` as hypothesis in the place of
fairness, which says of each wait in the code what ends it; that `FairSpec`
implies it is checked by TLC, as said in section 3.

*Scheduler.* `MutexIsFreed`: a holder of the mutex has at most four steps
ahead of it (`BodyLeft`), only the holder can disturb them, so the mutex is
free again and again. `EveryCallReturns`: somebody who waits for it therefore
finds it free again and again until it is let in, is then the holder, and
leaves with the mutex free. This is `CallsReturn` whole, for any number of
goroutines.

*Program.* `ProgramEndsRun`: the steps of `main` are numbered (`MainLeft`),
each lowers the number, `main` waits only for a `Backup` that runs and in a
call that hangs; so `ProgramEnds` follows from `WhoMayStepDoes` and
`BackupCallReturns` (together `WaitsEnd`). What hangs stays so unless the
handler has cancelled (`HangStays`), and a cancelled handler stays so until the
process ends (`CancelStays`), so that a process that does not end hangs for
ever without a signal.

*BackupRun, RestoreRun, Catalog.* `NeverMutualWait` and `StepsCount` (in
`Catalog`, `StepsCount` alone), joined in `BackupAdvances` and
`RestoresAdvance`, prove the first two parts for every size. `StepsRunOut`
joins them with the third: with any number of steps left, a call comes to fewer
or ends; the one that may step may do so until somebody has stepped, whatever
the other does. In `RestoreRun` this needs `WaitInv` (a call that reads its
stream has a goroutine, and the outcome is in the channel before the stream
ends) and `OthersKeep` (no call changes what another one waits for, not even
one that a crash has ended or whose goroutine was left behind). In `Catalog` it
needs that a listing has a first path to visit (from the well-foundedness of
the naturals) and that what others store and delete does not lead an operation
back.

Only model-checked: that the descent of `StepsRunOut` ends, which is an
induction over the number of steps under a temporal formula; the library's
induction theorems take the formula as an operator, which no installed prover
instantiates, and a set of the numbers for which a temporal formula holds
cannot be written. With it `RestoreReturns`, `OperationsEnd`,
`BackupCallReturns` and the liveness part of `ImplementsTransfer` stay with
TLC, and so does the step from `FairSpec` to `WhoMayStepDoes`.

## 5. Not modelled

* GCS: the methods of its provider do not have the signatures of `Provider`,
  and `main.go` refuses the type; `Program` has the refusal.
* Compression, the utilities and the Slack notifier: no code calls them, they
  keep no state, and each call is sequential. A path ends in `.gz` when the
  flag asks for compression; the data are not compressed.
* The figures of the connectors' `GetInfo`: the call may fail, what it collects
  is shown and never used.
* Pages of an object listing: all keys are returned at once. The SDKs' own
  retries are inside a call.
* A database tool that exits with 0 before it has read its input (`mysql.go`
  95): `Restore` would wait for `errCh` for ever. The model's tools succeed
  behind the end of their input. Listed as a hazard without a property.
* The kill of `dbbackup` by SIGKILL or SIGPIPE is not in `Program`; a crash at
  any step is in `BackupRun` and `RestoreRun`. A tool that outlives a crash may
  go on, end or be killed in `RestoreRun`; the tool of a dump has nobody who
  reads what it writes once its process is gone.
* The true order of backups: start times are compared as they are recorded,
  and no property says that they are right.
* Half a configuration file: `LoadConfig` refuses it in `Program`, by a guard
  that is the code's, so no property is about it.
* The logger's `SetLevel` (nothing calls it) and the format of a line.
* No property: that the base of an incremental backup may be deleted between
  lookup and store (`incremental.go` 72), since `DeleteBackup` promises nothing
  to the backups that depend on its victim.
* What is printed. `src/README.md` 115 shows a "compressed backup of specific
  tables" of an SQLite database; by the code it is neither (`sqlite.go` 72-82),
  but it reports what it did, and no property is about it.

## 6. What could come next

1. More than two overlapping restores or clients in TLC: the theorems have no
   such bound; `RestoreReturns` and `OperationsEnd` do.
2. `SelectiveRestorer` inside `Program`, once `runRestore` builds one; the
   runner of the scheduler, once `Start` calls it.
3. Pure functions (sizes, names of objects) against reference definitions, once
   something depends on them.

Recursion, where needed, stays in modules without theorems.
