# org-slipbox: specifications

org-slipbox keeps a Zettelkasten of Org files, indexes it in SQLite and serves
it to Emacs, to a command line, to a web reader and to an Android application.
The Android application reads repositories it does not own: a background flight
fetches a Git branch, builds a complete *generation* (source tree, index,
assets) beside the one in use, and activates it. That path is where the program
is concurrent, persistent and interruptible, and it is what these TLA+ modules
model first: several processes and threads share one directory, one in-process
registry and a handful of file locks, and may die between any two of their steps.
Around that core they model who uses it (the source catalog and its background
work, the credential vault, the engine host, the reader's screens), and on the
desktop the engine that edits Org files under the hands of other writers and
keeps its index in step with them.

Sources are quoted as `file:line` relative to `crates/slipbox-sync/src/` unless
a longer path is given.

## 1. The system and its parts

| Component | State it keeps | Operations | Hard behaviour | What makes it correct |
|---|---|---|---|---|
| Generation store (`publication.rs`, `publication/recovery.rs`) | `generations/<id>/`, stages, candidates, active and retained pointer files, publication / recovery / reader lock files | `publish`, `recover`, `lease`, drop of a lease | several processes; a crash between any two renames; corrupt files; leases outliving activations | pointers and leases never dangle; activation is a compare-and-swap; readability is never lost by the program; storage is bounded; recovery heals |
| Refresh coordinator (`refresh.rs`) | flights by source and by operation id, last status, three mutexes and two condition variables | `coordinate`, `cancel`, `status` | coalescing, supersession, cancellation against activation, panics | one flight per source; cancelled never commits; waiters always return; ids are released |
| Reading sessions (`slipbox-android/src/android_sources.rs`, `adapter.rs`) | open sessions over the paths of a generation | verify/load a source, open, read, close | recovery deletes generations while sessions read them | a session's generation stays on disk |
| Source catalog (`slipbox-sources`) | one JSON file with a revision | `load`, `save` | compare-and-swap without a lock; replaced but not synced | no lost update, honest result |
| Source library on Android (`sources/*.kt`, `android_sources.rs`) | catalog, one store directory per configuration | import, activate, replace, remove, purge | a worker still refreshing what is removed; cancelled after publication | what is catalogued is readable; what is removed is gone |
| Refresh worker and schedule (`sync/*.kt`) | WorkManager's unique works, operation ids | periodic and one-shot runs, stop, retry | stops, retries, process restarts | every source is refreshed again; nothing runs after removal |
| Native engine sessions (`engine/EngineLane.kt`, `SlipboxEngineHost.kt`, `adapter.rs`) | lane queue, admission count, sessions, native table | open, answer, cancel, retire, close | cancel against start, close against open, reserved queue room | nothing abandoned runs; every native session is retired once |
| Credential vault and renewal (`auth/renewal`, `security`) | encrypted record, barred token | renew, replace, revoke | rotation exchanged but not stored | the stored token is usable or the owner is asked again |
| Write transactions (`slipbox-write`) | Org files, staged files | structural edits, appended headings, new notes, ids; stage, rename, remove | renames one by one, no rollback; others save the same files | no note's only copy is lost; ids stay with their notes |
| Engine service (`slipbox-engine`) | one SQLite connection, one request at a time | write handlers, `index`, `index_file` | records looked up in an index that may be stale; a second edit that fails | every file an edit changed or removed is named to the index |
| Index database (`slipbox-store`) | rows of nodes and links, relation counts | sync of files, removal, sync of the root | incremental counts, unique ids | counts are those of a fresh count |
| Reader's screens (`ui/*State.kt`) | one session, one serial, what is shown | ask, page, retry, close; links and previews | answers that come late, sessions opened while the screen closes | what is shown answers the current question; no session without an owner |
| Git transport, delta, staged index (`slipbox-git`, `slipbox-sync/src/lib.rs`) | object database, candidates | fetch, diff, materialize, index | network and file I/O | the delta names every changed file |
| Core, RPC, clients, web | request frames, views | queries, rendering | mostly sequential | functional, covered by the repository's tests |

How they meet. The Kotlin worker takes an operation id and calls `serve_refresh`,
which calls `RefreshCoordinator::coordinate` of the process; the leader of a
flight runs `refresh_repository`: `GenerationStore::recover`, fetch, compare,
delta, materialize, index, then `RefreshControl::activate` around
`GenerationStore::publish`. Readers ask the catalog for the ready generation
(`verified_ready` takes a lease, reads the paths, drops it) and open an engine
session over its paths. Removal cancels the worker's unique works and then
deletes the store directory. `PROJECT.json` lists every component with its
status, and under `hazards` each place where this code is hard to test.

## 2. Modules

| Module | What it is |
|---|---|
| `ReadyGeneration` | abstract: a register holding the ready generation, switched by compare-and-swap from what the publisher observed, repaired after a fault, with readers that keep what they were granted |
| `GenerationStore` | the store, one step per observable file operation, with refreshers, readers, crashes and damage |
| `GenerationStoreRefinement` | the mapping of the store to the register; `ImplementsReadyGeneration` |
| `GenerationStoreProofs` | the inductive invariant of the store, the theorems about it, and that it implements `ReadyGeneration` |
| `ReadingSessions` | extends the store with the sessions of the application, whose lease has ended |
| `RefreshCoordinator` | the coordinator: one step per critical section |
| `RefreshCoordinatorProofs` | its inductive invariant and theorems |
| `EngineLane` | the serial lane of an engine host: queue, admission, claims, cancellations; `LaneSpec` is the lane in anybody's hands |
| `EngineHost` | extends the lane with the host's sessions, their retirement and disposal, and the native table |
| `EngineHostProofs` | the host implements the lane; cancellation, open sessions, the lane's bounds and the host's disposal, for every value of the constants |
| `SourceLibrary` | the catalog, the caches, background work and native flights, and the operations of the user on them, each a thread |
| `SourceLibraryProofs` | its inductive invariant; listed caches, background work, saves and outcomes, for any number of operations |
| `CredentialVault` | one credential record, its keys, its renewal owners and screens, and the provider |
| `CredentialVaultProofs` | its inductive invariant; answers, lineage and replay, for any number of clients, keys and faults |
| `ReaderScreens` | the state owner behind a screen of any of seven kinds, its threads and its session |
| `ReaderScreensProofs` | its inductive invariant; what is shown and which sessions are open, for any number of requests |
| `NoteIndex` | operators: the rows of the index and the incremental maintenance of its relation counts |
| `NoteIndexProofs` | a sync and a removal leave the counts of a fresh count, for any files, ids and links |
| `NotesWorkspace` | extends the index with the files on disk, the engine's requests, edits, transactions and syncs, and everybody else who writes the files |
| `NotesWorkspaceProofs` | its inductive invariant; counts, rows, notes and ids, for any files, requests, saves and faults |
| `MC*` | instances for TLC: symmetry sets, the links of notes and the first files (`EngineHost` and `ReadingSessions` need none and are run directly) |

### GenerationStore

Files: `dir` (generations by id, with manifest and health), `staged` (stages a
crash left behind), `candidates`, `active`, `retained`. Locks: `publication`
(exclusive), `recovery` (exclusive in `recover`, shared while a lease is being
taken: `sharing`), and the reader lock of each generation, held shared by
`leases`. Processes: `pc`, `request`, `operation`, and the locals of the one
recovery that can be under way (`pass`).

A refresher goes round `BeginRefresh` - `ExcludeReaders` - `Scan` - one of
`Complete`/`RetainRecovered`/`ActivateRecovered`, `KeepReady`, `RestoreRetained`,
`FindNothing`, `Obstructed` - `Visit`, `ReclaimStage`, `ReclaimCandidate` -
`EndRecovery` - `Build` - `BeginPublish` - `AlreadyActive`, `MatchExisting`,
`Refuse` or `SealSource`, `SealIndex`, `SealManifest`, `Promote` - `Retain` -
`Commit`; `GiveUp` and `Abandon` are its early returns, `Crash` may strike
anywhere. `Scan` includes the repair of the retained pointer, as the code does;
`Visit` unlinks a generation in two steps, since `remove_tree` is not atomic and
a torn directory is what a crash leaves.

Abstractions. A generation's contents are one value; `damaged` stands for every
outcome of `inspect_generation_directory` other than `Ok`, `RebuildRequired`
included. The pointer's temporary file and its rename are one step (the rename
is the commit, `publication.rs:635`). Damage happens only while no refresher
holds the publication lock, and never to reader lock files. I/O errors while
removing files or syncing directories, notices, byte counts, the 4096-entry
bound of a scan and `initialize` are left out. A `recover` that fails on an I/O
error behaves as `Crash` does for the files and is bounded with it.
`MaxOperation` stands for the wrap of the ids at `Long.MAX`
(`SourceRefreshWorker.kt:478`); ids also start over in a new process, which is
what makes reuse reachable. `MaxFaults` bounds crashes and damages together.

### RefreshCoordinator

`active`, `operations`, `last` are `CoordinatorState`; `cancelled`,
`superseded`, `committed`, `activation`, `outcome` the fields of a `Flight`,
which is named by the request that leads it. Every call of `coordinate` and of
`cancel` is a thread with a program counter. A critical section of the `state`
or `lifecycle` mutex is one step; the `activation` mutex is held from `Activate`
to `Activated`, and by `supersede` and `cancel` from their check to their flags,
so that `finish`, which does not take it, can fall in between. Condition
variables are guards: the code re-checks in a loop. The work of a flight is
reduced to what the coordinator sees of it: the cancellation checks, the
publication, success, failure, panic.

### ReadingSessions

`OpenSession` is `verified_ready` followed by `Registry::open`: the lease ends,
the session starts. Sessions die with the process, so `ProcessDies` clears them.

### EngineLane and EngineHost

`EngineLane` is `engine/EngineLane.kt` with the parts of `ThreadPoolExecutor` and
`FutureTask` it stands on. `submit`, `submitClosure` and `retire` hold the lane's
monitor and are one step each; everything outside it is a step of its own: the
thread's `Take`, `Begin` (or `Yield`, when a canceller has the claim), `Settle`,
`Release`, and the canceller's `Claim`, `CancelFuture`, `RemoveCancelled`,
`ReleaseCancelled`, so that a slot can be free in the queue and not yet in the
counter, or a task answered and its slot still taken.

`EngineHost` is `SlipboxEngineHost.kt` over it. A caller checks a live flag
(`CheckOpen`, `CheckRead`) and submits later (`Enter`). The sections of the
`sessions` monitor are one step each, except `close`, which is two (`Close`,
`CloseOrders`): it lowers the host's flag, which others read without the monitor,
before it retires the lane. While a task works, the thread goes through `step`:
an opening crosses into the native table and is then registered or discarded, a
read crosses, looks at its session and delivers, a retirement crosses and is then
forgotten, the disposal retires what nobody has attempted.

Abstractions: a session is named by the call that opens it (native identities
are never reused, `adapter.rs:328`); maintenance calls are reads; the native
table closes a session unless it is in `Stubborn`, which stands for whatever
makes `retireNatively` throw; the binding, the capability and the limits on
bytes are left out, and so is an answer lost after the native side opened a
session (`adapter.rs:275` retires that one). `cancel` may be called by any thread
on any task, a settled one included.

### SourceLibrary

One variable per shared thing: `catalog` (the file), `cache` and `directory` (one
store per source and configuration), `scheduled` and `stop` (WorkManager's records
and what their running workers are told), `flight` and `job` (the native flight of a
source and everybody who waits for it); and of each thread how far its operation is
(`pc`), what it was asked (`task`), the catalog it has loaded (`draft`) and its
`result`. A save of the catalog is three steps, as in the code: `Load` compares what
the operation expects, `Check` is the comparison in `save()`, `Rename` the commit,
and no lock spans them (`slipbox-sources/src/store.rs:163`). `Rename` may fail
before the file is replaced or after, when the directory cannot be synced; both
answer `StorageFailed` (`android_sources.rs:492`), and nobody can tell one from the
other by it. The thread of an import waits in `Terminal` for its flight, verifies,
saves, recovers from a conflict with itself, and settles; `Withdraw`, `Purge`,
`PurgeEnds` are the removals and the disconnection, `Secure` the reconnection.

WorkManager has two lanes for a source (`RefreshWorkNames`): the periodic work, whose
newest record wins, and the one-shot work, whose oldest one does until it ends
(`ExistingWorkPolicy.KEEP`, `Keeps`). Each record has a worker: `StartWorker`,
`StopWorker`, `Resolve`, `Admit`, and `Returns` when its flight lands, after which a
one-shot worker is done or tried again. A withdrawal is by tag and reaches both lanes
(`Unscheduling`); a settling import enqueues the periodic one only, a failed
replacement and a reconnection both. `Reload` lists the catalog, at any time, and
`Startup` enqueues what it listed, record by record, however much later.

`doubtful`, `disputed` and `lost` are history: sources purged since their record
was verified; sources on which two operations, or a reload and one, have met, or a
save was written and reported as a storage failure, since their work was last
withdrawn by an operation nothing disturbed (`Undisturbed`); and whether one save has
come between the comparison and the rename of another. A save that overlapped may
write an older revision than the file had; from then on a third one can find the
revision it has loaded on another catalog, so its comparison proves nothing, and
`ListedIsReadable` and `WorkFollowsCatalog` speak of the time before. The three name
the boundary of these two properties, and the boundary is the code's: a reload that
listed a source before its removal schedules it again (`SourceLibraryState.kt:76`);
of two overlapping saves one is lost (`doc/android.org:116` has one writer own each
catalog path); a removal that fails leaves its source listed and without work;
`removeAndAwait` does not wait for the worker, so a job it overlooked may create a
purged cache again; a closed import may still commit, silently and unscheduled until
the next reload. What a descriptor, a selection or a generation says is left out, and
so are the phases `SourceLibraryState` shows and the manual refresh, which no screen
has.

### CredentialVault

`record`, `staged` and `keys` are what survives a crash. `job` is the request the
vault's one worker runs, a step per file or keystore operation: `Seal`, `Stage`,
`Rename`, `Discard`, `Supersede`, `EraseKeys`, `EraseFiles`, each of which may
fault with the outcome the code then reports. `holder` and `closing` are the
process-wide lease of the record's path. A renewal owner holds it from reading the
record across the exchange with GitHub to the answer of the store
(`Renew`, `ReadStored`, `Exchange`, `Rotated`); a screen keeps a fresh
authorization, removes it, or looks. GitHub rotates a token it accepts, refuses
one it does not, and its answer may be lost either way. A credential is its
refresh token, numbered in order of issue; whether it is spent is a free choice.

What an owner refuses to send again is per owner: the next owner, or the same one
after a restart, may send a spent token once (`NextOwner`, `Crash`). `Disconnect`
is public, and no screen calls it. A record corrupted in place, the release
timeout of ten seconds and the queue limit of the worker are left out.

### ReaderScreens

Seven state owners share a skeleton and differ in when a session is opened, kept
and closed; `kind`, fixed in the initial state, selects the difference. The main
thread's steps are what a reader does (`Activate`, `Type`, `ActivateReview`,
`Explore`, `LoadMore`, `Retry`, `Close`, links and previews); the thread of a
request goes `Wake` - `Get` - `Open` - `Place` - `Recheck` - `Ask` - `Deliver`,
with a step wherever the code reads shared state without a lock.

`SessionsAreOwned` excepts page streams, the chooser and the document once the
screen is gone: `close()` between the look at the screen and the exchange of the
session leaves one open (`NotesInventoryState.kt:158`). In an exploration a
superseded request may take the session's place after the newer one emptied it, so
that the current lens fails; it is shown as failed and may be asked again
(`doc/android.org:265-266`). The authorization screens, and screens that only
render another component's state, are left out.

### NoteIndex and NotesWorkspace

`NoteIndex` has no variables. An index is the rows of every file and two counts
per node. `Sync` follows `sync_file_indexes` delta by delta: `Withdraw` what the
changed files linked to and what linked to the ids that leave, delete and `Insert`
the rows, `Credit` the links of the changed files, those into them, and those to
ids that are new; above a threshold of files it is a `Recount`, the reference the
deltas are compared with. `Clash` is the UNIQUE constraint on ids.

In `NotesWorkspace` `disk` holds the files, `index` the database, `op` the request
under way. The engine serves one request at a time. A request looks up its records
in the index (`Begin`), and each of its edits reads files and leaves a transaction
(`PerformEdit`, or `Refuse` when the code bails); `WriteFile` is one rename of
`FileRewriteTransaction::commit`, `RemoveFile` one of the removals that follow;
then the rows of removed files go (`Unindex`), the changed files are read again
(`Scan`) and synced in one transaction (`SyncRows`). The sync of the root lists
files, reads them one by one, syncs, and prunes what it did not list. Between any
two of these steps somebody else may save, delete or rename a file (`Outside`),
and any step may fail or the engine die (`Fault`), which ends the request.

A heading is found again by its line and level, never by its id
(`document/outline.rs:159`), so an edit that works from a stale index moves
whatever heading stands on that line. `Line` computes the line of an entry, with a
property drawer as one line; `IdentityKept` therefore speaks of edits on files the
index knows as they are. An edit does not compare the file it replaces with the
one it read: when others save in between, their save is overwritten.
`NothingIsLost` excepts exactly these edits (`Overtaken`). `stale` is history:
files changed since the index read them, by others or by a request that failed;
every other file must match its rows (`FreshRowsMatchDisk`).

Three edits move text in a way an entry-by-entry model must leave open. Promoting a
file removes a heading's line and demoting one inserts a line, and neither moves the
property drawer: whether the id in it is read afterwards depends on what else stands
before it, since the reader of a file skips keywords and stops at a planning line,
and that of a heading does the reverse (`slipbox-index/src/lib.rs:377`, `:489`). So the
note keeps its id, has none, or is read to have another one that nobody has
(`Rereadings`). A region whose place lies inside it lands by a wrong offset
anywhere before itself, between two entries or in the middle of one, whose drawer is
then before the run, torn by it or behind it (`Landings`), unless the offset
underflows or falls within a character and the request fails (`Refused`).
`IdentityKept` says of the first two that no other note gets the id, and nothing of
the third.

Abstractions: the text of an entry is an opaque note whose links are a constant. The
title that refiling a whole file takes from the index (`document.rs:125-128`) is
part of that note, so a title saved outside since it was indexed and then lost is
not seen. A file is replaced by one rename, as on Unix; on Windows its target is
removed first (`transaction.rs:184-188`), and a crash in between leaves neither.
Staging is part of `Transact`, since its temporary files are removed on drop.
Capture templates, headings under an outline path, previews, excluded nodes, tags,
aliases and schedules, the full-text tables, the row threshold of a rebuild and
the answers of requests are left out.

### ReadyGeneration and the refinement

The abstract register knows no files, locks or processes: a ready generation or
none, and what each reader was granted. `GenerationStoreRefinement` maps `ready`
to the manifest the active pointer verifies to and shows every step of the store
to be a switch, a repair, a grant, a release, a fault, or a stutter.

## 3. What TLC checks

| Run | Instance | States (distinct) | Shows |
|---|---|---|---|
| `store_processes` | 2 refreshers, 1 reader, 1 content, ids 1..2, 2 faults | 1.49 M | `TypeOK`, `PointersNameGenerations`, `LeasesPinGenerations`, `ReadyStaysReady`, `ActivationIsCompareAndSwap`, `FallbackStaysUsable`, `RecoveryBoundsStorage`, `ImplementsReadyGeneration` |
| `store_healing` | 2 refreshers, no reader, 1 content, ids 1..2, 2 faults, `FairSpec` | 279 k | `LockIsReleased`, `StoreHeals` |
| `coordinator_flights` | 3 requests, 1 canceller, 3 sources, 2 imports, 3 ids, 2 slots; symmetric | 733 k | `TypeOK`, `RegistryIsSound`, `CancelledNeverCommits`, `AnswersFitRequests`, `StatusIsStable` |
| `coordinator_liveness` | 2 requests, 1 canceller, 1 source, 2 imports, 2 ids, 1 slot, `FairSpec` | 32 k | `EveryCallReturns` |
| `engine_host` | 3 calls, 2 closures and the disposal, 1 canceller, 1 call admitted at once, 2 sessions, one of them `Stubborn`, `FairSpec` | 767 k | `TypeOK`, `DiscardedNeverBegin`, `LaneStaysBounded`, `OpenSessionsAreNative`, `DisposalIsComplete`, `EveryCallSettles`, `DisposalEnds` |
| `source_library` | 2 sources, one of 2 configurations, 2 threads, 1 reload, 1 run of a worker, 1 further generation; symmetric | 2.65 M | `TypeOK`, `ListedIsReadable`, `WorkFollowsCatalog`, `OutcomesMatchCatalog`, `OnlyOverlappingSavesAreLost` |
| `credentials` | 2 owners, 2 screens, 2 key generations, 3 tokens, 2 faults, 1 crash; symmetric | 1.05 M | `TypeOK`, `OutcomesMatchRecord`, `NoReplay`, `StoredCredentialLineage` |
| `screens` | 3 queries, 2 dates, 4 requests, 3 pages, 3 links; symmetric | 2.10 M | `TypeOK`, `ShownIsCurrent`, `SessionsAreOwned` |
| `workspace` | 3 paths, 4 notes, 3 ids, files of 4 entries and 2 levels, 2 requests, 1 save by others, 1 fault | 233 k | `TypeOK`, `CountsAreExact`, `FreshRowsMatchDisk`, `NothingIsLost`, `IdentityKept` |
| `store_operation_ids`, `store_sessions`, `workspace_root_sync` | small | violation | section 5 |

Why the bounds are enough. Two refreshers are needed for a stale publisher, for
a recovery that reclaims another flight's candidates and for an id that meets
another process's generation; ids 1..2 with a wrap make reuse certain rather
than rare. What the store does never looks at the content of a generation, so one
value of it will do. Of the properties of `store_processes` the proofs of section 4
cover every number of ids; with two, an active generation beside a fallback or a
leased or unreferenced one meets every clause of `Preserved`. One crash can
interrupt a publication and one damage can spoil what it left, hence two faults.
For the coordinator, three requests give a leader, a superseder and a follower
or a newcomer that takes the freed slot; three sources against two slots reach
the limit; a canceller may hit any of them at any step.
For the host, one admitted call and two sessions make the lane's capacity four,
and the instance fills it exactly: a read, two retirements and the disposal can
be queued at once, so one place less and `LaneStaysBounded` fails. Two sessions
also let disposal meet one that has reported and one that has not.
Healing has a run of its own, with two refreshers: one that dies with its manifest
sealed and one that activates a generation of the same name reach the stage that
recovery can neither promote nor reclaim, which `Recoverable` must except (`Blocked`).
In the library, two threads overlap two saves of one or of two records; two
configurations are what a replacement and a purge need. The source the library
starts with has them (`Offered`), and is selected, replaced, disconnected, reconnected
and removed; the other one is imported and loses its cache, so that a removal meets an
import of another source, and a replacement one of its own (`Asked`). A commit over
another configuration of its source, which answers a failure, is not among these. One
reload leaves records for either lane to be scheduled at any later point, and one run
lets the worker of either lane be the one that is stopped, tried again or left alone.
For the vault, two owners
and two screens give every pair of competitors, two key generations make the cycle
wrap at once, three tokens are one stored, one rotated and one authorized anew.
Four requests of a screen are a question, its page, a question that overtakes
both, and a retry. For the workspace, two requests are needed for a request that
works on what another one, or its failure, left; three paths hold a source, a
target and a new or renamed file, and a threshold of two lets an edit of two files
take the deltas and a sync of the root the recount; the notes link within a file,
across files and to an id that does not exist yet, and the edits move each kind.

Symmetry is used only where no liveness is checked, over names the models treat
alike. Deadlock is allowed where the system may really stop: calls, requests,
operations and faults are finite in number, and when the last one has returned
nothing is enabled. The store and the vault, where somebody can always go on, are
checked for it.

Fairness. `store_healing` assumes that a running refresher takes its next step (a
thread of a live process) and that the periodic worker starts a refresh again
(WorkManager's periodic work); nothing is assumed of crashes, damage or readers.
No reader is in this instance: `recover` only *tries* the exclusive lock, and
readers that renew leases without pause could refuse it for ever. Faults are
finitely many by `MaxFaults`, which is what `<>[]` in `StoreHeals` relies on.
`coordinator_liveness` assumes that admitted threads run and that the work of a
flight ends, which its bounded transport and indexing justify; nobody is obliged
to call. `engine_host` assumes that the lane's thread is scheduled and its native
calls return, and that a `close` or a `cancel` once begun goes on; opening,
reading, retiring, cancelling and closing are never obliged to happen. Each task
is submitted at most once, which is why `EveryCallSettles` may be stated as one
`[]<>` over all of them.

## 4. What is proved

The proof modules hold for every value of the constants.

`GenerationStoreProofs` proves `Spec => []IInv`, where `IInv` adds to the stated
invariants three facts none of them implies: `DirsAreNamed` (a directory's
manifest carries its name), `TodoExists` (what reclamation has still to visit
exists), and `RequestsFit`, the heart of it: at each point of its program a
refresher's `request` still fits the store it was made for. In particular, while
an actor is past the compare of `publish` or past the choice of `recover`, the
active pointer is still the one it compared with. That follows from the
publication lock alone, and it is why `RequestsFit` and `LockDiscipline` must be
proved together. `RequestsFit` also pins what a reader that is between reading
the pointer and sharing the reader lock is about to lease, which is what makes
`LeasesPinGenerations` inductive. From `IInv` follow `TypeCorrect`,
`LocksExclude`, `PointersSafe`, `LeasesSafe` and the three action properties
`CompareAndSwap`, `ReadinessKept`, `FallbackKept`. The only assumption is
`StoreAssumption` (ids are positive naturals, refreshers are not readers, the
special values are none of the others).

`StorageBounded` follows a reclamation from its start to its end.
`ReclaimedSoFar` says that a directory still there is either in `todo` or kept:
named by a pointer, the recovery's original, or deferred to a live reader. It is
inductive because, while an actor reclaims, the publication lock keeps every
other away from the directories, the pointers and the record of the pass, and
readers write none of these.

The last part of the module proves `StoreImplementsRegister` from the same
invariant. What a reader holds is what it sees, by `LeasesPinGenerations` and
`RequestsFit`, so that grants and releases are the register's. The active
pointer moves in two ways only: a publication compares and switches, which is the
register's `Publish`; a recovery restores the fallback of an unreadable one,
which is its `Recover`. That the second never happens to a store that never had a
generation needs one more invariant, `FallbackFollows`: without an active
generation the retained pointer names none either. Every other step of the
program leaves the register alone because none loses readiness
(`TargetsSurvive`); damage is the register's `Lose`.

`RefreshCoordinatorProofs` does the same for the coordinator. Its strengthening
relates every leading thread to the registry entries it owns, the holder of an
activation mutex to its program counter, and a follower's or superseder's target
to a flight that was registered for its source. `BoundedFlights` is proved by an
injection of the flights into the occupied sources, which uses
`IsFiniteSet(Sources)`.

`EngineHostProofs` starts with two layers. `LaneInv` is inductive for the lane alone:
whoever holds a call's claim as a canceller holds it until the answer, and the
thread begins a call only by setting the claim itself; closures are claimed
before anybody can see them, so a canceller never holds one. `HostStepIsLaneStep`
shows that every step of the host is a step of `LaneNext` or leaves the lane
alone, so `LaneDiscards` carries over to the host (`HostDiscards`). `HostInv`
builds on it: the task under way has begun and nobody else can settle it, hence
its opening cannot be retired before it is registered; retired sessions are not
open; disposal is ordered only after the host's flag is down. From it follows
`OpenIsBacked`.

The second half of the module is about the bounds and the disposal. `QueueInv`: the
queue holds a task once, a queued call is unsettled or about to be removed by
its canceller, disposal is the last task of all. With the exact counter
(`AdmissionIsExact`, by cardinalities) the calls in the queue number at most
`Depth`. `DisposalInv`: each queued closure retires a session of its own that is
still in the native table, which holds `MaxSessions` at most (`QueueIsShort`);
so the reserved room always suffices (`LaneIsBounded`), although nothing in the
lane counts its closures. Every native session is one the host holds, or the one
being opened; an attempted retirement is never repeated; and disposal runs when
the queue is empty and the sessions are handed over, which gives
`DisposalCompletes`.

`SourceLibraryProofs` rests on three facts. `FlightInv`: a job that flies has a
flight, and a flight whose directory nobody removed still has it, so that a
publication only ever fills an existing store. `OperationInv`: at each point an
operation has loaded and marked what that point presumes; what is `fresh` has a
readable generation, a catalog in `draft` lists what it selects, only a removal
goes on after its rename. `RevisionsTell`: until a save has overlapped another, a
draft with the revision of the file *is* the file's catalog, which is why the
comparison in `save()` suffices exactly then. From them follow `TypeCorrect`,
`ListedReadable`, `SavesNotLost` and `OutcomesMatch`; the last needs no exception
for overlapping saves. `WorkFollows` adds `WorkInv` (`WorkSound`, source by source, for
as long as nothing disputes it): at most one operation is under way on the source, and
none while a reload has still to schedule it; what a reload listed is what the catalog
says; a replacement and a withdrawn removal leave no work in either lane until they
settle, so that the one-shot record `KEEP` would prefer is not there
(`WorkFits`, `NoWork`); and what a settling import or a reconnection schedules is what
the catalog lists by then. An undisturbed withdrawal establishes all of it anew, which
is why a dispute ends there. `LibraryAssumption`
says no more than that names differ and that the library a start finds lists known
sources.

`CredentialVaultProofs` needs four facts. `LeaseInv`: who is on its way holds the
lease, and a request runs for the holder that waits for it. `WorkerInv`: between
sealing and the rename the alias of the new record holds the very key it was sealed
with, or an invalidated one, and that alias is not the one the record in force opens
with (`CandidateIsApart`), which a renewal owes to `AvailableIsFree` and
`MintedIsNew`; so neither dropping the candidate nor deleting the superseded keys can
touch the readable record. `ReadableInv`: until the commit what was readable when the
request began still is, unless a key or the file went behind the lease. `TokenInv`: a
used-up token in the record is one the owner that knows it refuses, or is just
replacing. `MintedIsNew` counts: of the `Generations + 3` key identities of the model at most
`Generations + 2` are in use.

`ReaderScreensProofs` adds to the stated properties the direction they do not
need: the latest request, while it runs, fits what is shown (`Asked`), requests are
numbered in order (`WorkFits`), a session under a second look is still the
screen's (`Rechecks`). With `Asked` an answer that passes the serial check is the
answer to what is shown, for every number of requests, pages and queries
(`ShownCurrent`); `SessionsOwned` follows one exchange of the session at a time.

`NoteIndexProofs` is about operators, not about steps. `SyncStaysExact`: from an
index whose counts are exact (`Exact`), and new rows that do not clash, `Sync` ends
with the counts of a fresh count, below the threshold as above it. Below it the
proof follows the deltas of `sync_file_indexes`. Links into a node and links of a
note are split by whether their own file is scanned and whether the id they name
enters, leaves or stays; each delta then counts one of the parts, and cardinalities
of disjoint finite sets add up. What makes the parts fit is the UNIQUE constraint:
an id names one node before and one after, so a link whose file and target are not
scanned counts for the same keys. `RemoveStaysExact` is the case of no new rows,
which can never clash. `IndexAssumption` says that files and ids are finite, which
the cardinalities need, that notes link to ids, and that `None` is neither.

`NotesWorkspaceProofs` proves `Spec => []IInv` for the engine over its files. `Typed`
carries `Exact(index)` along: only `Unindex` and `SyncRows` write the index, and they
do it by the two theorems above (`CountsStayExact`). `Current` is what makes
`FreshRowsMatchDisk` inductive: a file that nobody else saved matches its rows or is
still on one of the lists of the request that will be told to the index (`Untold`), what was
scanned or seen of it is what is on disk, and a removed file is gone or was written
again. A request that ends
well has empty lists (`RestingIndex`, `IndexFollowsDisk`); one that fails makes what
is on them stale.

`Sound` is the plan of a transaction: what the next write or removal takes out of a
file is in what it writes, or in another file the edit has read
(`NotesKept`); the same for the pairs of a note and its id, and an id that is new in a
file is new on disk (`NamesKept`). It is proved for every edit when it plans
(`EditPlans`, a lemma per edit), which is where the documents are taken apart: cutting
a subtree and pasting it back keeps the texts, releveling keeps notes and ids,
an insertion point never falls into the subtree that moves (`PlaceOutside`), and a
source that is left without content says nothing (`EmptiedFile`). And it
survives its own execution (`WrittenIsSound`): after the first rename the rest of the
plan is sound for the files as they are by then. That is why the target is written
before the source, and why a crash between them leaves a note twice rather than not
at all. From it follow
`NotesSurvive`, unless others changed a file the edit had read (`Overtaken`), and
`NamesSurvive`, where the index knew the files. The plan also says which of the three
ways of an edit it is (`Way`): one that keeps the names it read, one that may leave an
id unread and then adds none that is in use (`PromotedFile`, `DemotedFile`), or a run
that lands anywhere and is a document without loss of notes still
(`LandingDocument`). `NamesSurvive` needs `TodoFits`: only the
first edit of a request takes an id from the index, before the request has
changed anything, so that the id the index knows is the one on disk
(`NamedByIndex`). `WorkspaceAssumption` says that the bounds are numbers and that the
first files are documents of which no two entries have one id.

Only model-checked: everything temporal under fairness (`LockIsReleased`,
`StoreHeals`, `EveryCallReturns`, `EveryCallSettles`, `DisposalEnds`), which the
prover cannot treat. Every invariant, action property and refinement that a passing
run checks is also a theorem.

## 5. Where the code and its documentation disagree

With a run that shows it:

- `store_operation_ids`: ids start again at 1 in a new process
  (`SourceRefreshWorker.kt:478`), generations are called `refresh-<id>`, and the
  directory of an older one refuses the new flight after all its work; the
  reported `PublicationConflict` says that the precondition was lost
  (`refresh.rs:207`), which it was not.
- `store_sessions`: `doc/android.org:592-594` promises that a reader retains its
  generation until released; the lease ends in `verified_ready`
  (`android_sources.rs:446`) and the third publication's recovery deletes it.
- `workspace_root_sync`: `sync_index` inserts the files it found before it prunes
  those that are gone (`slipbox-store/src/sync.rs:16`). A file with an id that was
  renamed outside the engine then meets its own old rows in the UNIQUE constraint,
  and `sync root`, which `doc/model.org:213` and `doc/upgrade.org:68-70` name as
  the way to refresh the index, fails until the database is rebuilt or the old
  path is synced by itself.

Seen in the code while modelling, without a run of their own:

- With a corrupt active pointer and no fallback, `recover` answers
  `NoReadyGeneration` and asks for a refetch (`doc/android.org:601-602`,
  `doc/android-git.org:231-234`), but `publish` starts with `lease()`, which fails on
  that pointer (`publication.rs:377`), so what was fetched is never admitted.
- `recover` promotes an interrupted stage before it reclaims, and
  `promote_if_staged` fails when the name is taken (`recovery.rs:371`). Two processes
  that built the same id, a crash of one and damage to the generation of the other
  leave a store in which every recovery ends there, although recovery "always reclaims
  abandoned artifacts first" (`recovery.rs:15`). This is the state `Blocked` names.
- `doc/android.org:641-642` and `doc/android-git.org:300-301` have a
  replacement replace both lanes; `imported()` replaces the periodic one
  (`RefreshWork.kt:122`), and a one-shot record that a reload enqueued since the
  replacement began goes on with the old configuration.
- A replacement whose catalog was renamed and only not made durable
  is shown as "The change was not activated" (`strings.xml:314`), and the previous
  configuration is scheduled, while the catalog lists the new one
  (`android_sources.rs:492`; `store.rs:155-157` asks for a reload).
- `refile_region` keeps the target's heading out of the region but
  not its insertion point. When the region begins below the target and ends beyond the
  end of its subtree, the place is corrected by a length that was not before it
  (`slipbox-write/src/rewrite.rs:170`): the text lands before its target or inside it,
  or the subtraction underflows.
- The id of a promoted or demoted file is left where it may not be
  read any more (`slipbox-write/src/document.rs:83`, `:91`): behind a planning line, or
  behind a keyword other than title and filetags, though explicit ids are to
  "remain the stable identity surface" (`README.md:222`).
- A superseding request may be refused for want of a slot after it had the old
  flight cancelled (`refresh.rs:306`, `doc/android-git.org:250-253`). A
  cancellation that arrives before its operation is admitted answers false and
  the request goes on (`refresh.rs:361`).
- `delivered` looks at the live flags and then invokes the callback
  (`SlipboxEngineHost.kt:409`), so a callback may begin after `close()` has
  returned; `doc/android-native.org:69-71` says that disposal delivers no further
  callback and excepts only those already running.

Seen while modelling, and consistent with the code's own comments: after a
rollback the damaged original generation is kept for one more recovery
(`pass.original`), so `RecoveryBoundsStorage` excludes that case; a publication
cancelled after its generation was renamed into place is completed by the next
recovery.

## 6. Not modelled

- Git transport, delta and staged index: network, object database and parsing.
  Their outcome is a choice of the refresh models, and a staged index becomes a
  candidate of the store. The delta is one pass over the changed paths of two
  commits that decides whether the index is updated or rebuilt, which lead to the
  same candidate.
- `initialize` of a store: it runs before any generation exists; a crash in
  `write_new_json` leaves a manifest no later open accepts (listed as a hazard).
- Queries, diagnostics, reviews and saved explorations of the engine: they read
  one database and answer.
- Core vocabulary: data types and validation; the glossary's SM-2 schedule is
  decimal arithmetic over one record.
- JSON-RPC and the daemon client: one request at a time over one pipe.
- Command line, Emacs client, web reader and Android layout: presentation.
- Composition of the coordinator with several stores: they meet in
  `RefreshControl::activate` alone, which the coordinator models as the step from
  `Activate` to `Activated` and the store as `Retain` and `Commit` under the
  publication lock.
