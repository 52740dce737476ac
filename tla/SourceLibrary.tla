---------------------------- MODULE SourceLibrary ----------------------------
(***************************************************************************)
(* The catalog of configured sources and everything that works on it:      *)
(* imports, selections, removals and reconnections, each on its own; the   *)
(* periodic and the one-shot worker of each source; the native flight all  *)
(* meet in; and the caches the flights fill, one per source and import     *)
(* configuration.                                                          *)
(*                                                                         *)
(* A source record is its source and its import configuration.  A catalog  *)
(* save is the load of the operation, the load and comparison of save()    *)
(* and the rename, for save() takes no lock.  The coordinator of flights   *)
(* and the store of generations have modules of their own; here a flight   *)
(* is its configuration and its fate, a cache the number of its ready      *)
(* generation.                                                             *)
(***************************************************************************)
EXTENDS Naturals, FiniteSets

CONSTANTS
    Sources,        \* SourceId
    Configs,        \* import configurations of a source
    Threads,        \* operations of the user, each on a thread of its own
    Asked,          \* bound: what the user asks of each source
    MaxStartup,     \* MAX_STARTUP_REFRESHES
    MaxReloads,     \* bound: reloads of the library
    MaxGeneration,  \* bound: generations a cache may publish
    MaxRuns,        \* bound: runs of a background worker
    Installed,      \* sources a library that is not new has at start
    Home,           \* their configuration
    Selected,       \* the one it has selected, or None
    Offered,        \* bound: configurations imported for each source
    None

Imports == {"commit", "replace"}
Kinds == Imports \cup {"select", "remove", "removeCache", "disconnect", "reconnect"}

(* RefreshWorkNames: the two lanes in which WorkManager works on a source. *)
Lanes == {"periodic", "once"}
Works == Lanes \X Sources

ASSUME LibraryAssumption ==
    /\ None \notin Sources \cup Configs \cup Threads
    /\ None \notin [config : Configs, cancelled : BOOLEAN, gone : BOOLEAN]
    /\ (Lanes \X Sources) \cap Threads = {}
    /\ Asked \in [Sources -> SUBSET Kinds]
    /\ MaxStartup \in Nat /\ MaxReloads \in Nat
    /\ MaxGeneration \in Nat \ {0}
    /\ MaxRuns \in Nat
    /\ Installed \subseteq Sources
    /\ Home \in Configs
    /\ Selected \in Installed \cup {None}
    /\ Offered \in [Sources -> SUBSET Configs]

VARIABLES
    catalog,    \* the catalog file
    cache,      \* the ready generation of each configuration, 0 if none
    directory,  \* configurations whose directories exist
    scheduled,  \* the record WorkManager keeps in each lane
    stop,       \* of a running worker whose record was cancelled: it is due
                \* to be told, or has been
    flight,     \* the native flight of each source
    job,        \* SourceRefreshRuntime.execute, for every thread and worker
    pc,         \* how far the operation of each thread is
    task,       \* what it was asked to do
    draft,      \* the catalog it has loaded, and the revision save() compared
    result,     \* what it reports
    cancelling, closed, \* operations that were cancelled; whose owner was closed
    fresh, wrote,       \* whose generation was verified and not purged since;
                        \* that have renamed the file
    pending,    \* what reloads have listed and not yet scheduled
    reloads,    \* reloads so far
    doubtful,   \* sources purged since their record was verified
    disputed,   \* sources two operations, or a reload and one, have met on
                \* since their work was last withdrawn
    lost,       \* a save has overlapped another
    runs        \* worker runs so far

operation == <<pc, task, draft, result, cancelling, closed, fresh, wrote>>
ghosts == <<doubtful, disputed, lost>>
libraryVars == <<catalog, operation, ghosts>>
refreshVars == <<scheduled, stop, flight, job, pending, reloads, runs>>
fileVars == <<cache, directory>>
vars == <<libraryVars, refreshVars, fileVars>>

Runners == Threads \cup Works
Records == [Sources -> Configs \cup {None}]
Catalogs == [revision : Nat, entries : Records, active : Sources \cup {None}]
Caches == Sources \X Configs
Flights == [config : Configs, cancelled : BOOLEAN, gone : BOOLEAN]
Jobs == [pc : {"idle", "registered", "resolved", "flying", "answered"},
         config : Configs \cup {None}, answer : 0..MaxGeneration + 1]
Schedules == [Works -> Configs \cup {None}]
Tasks == [kind : Kinds, source : Sources \cup {None},
          config : Configs \cup {None}, previous : Configs \cup {None},
          expected : Nat]

NoCatalog == [revision |-> 0, entries |-> [s \in Sources |-> None],
              active |-> None]
NoJob == [pc |-> "idle", config |-> None, answer |-> 0]
NoTask == [kind |-> "commit", source |-> None, config |-> None,
           previous |-> None, expected |-> 0]
NoDraft == [base |-> NoCatalog, checked |-> 0]

(* What a refresh answers: a ready generation, or one of these. *)
Failed == 0
Cancelled == MaxGeneration + 1

(* StorageFailed tells a save that failed before its rename as little from *)
(* one that was renamed and not made durable as the code does.             *)
Results == {"ready", "removed", "disconnected", "secured", "cancelled", "conflict",
            "failed", "storage"}

(* Every catalog is one that from_parts() admits, and every operation has a *)
(* source once it has begun.                                               *)
TypeOK ==
    /\ catalog \in Catalogs
    /\ catalog.active # None => catalog.entries[catalog.active] # None
    /\ cache \in [Caches -> 0..MaxGeneration]
    /\ directory \subseteq Caches
    /\ \A k \in Caches : cache[k] # 0 => k \in directory
    /\ scheduled \in Schedules
    /\ stop \in [Works -> {"none", "due", "told"}]
    /\ flight \in [Sources -> Flights \cup {None}]
    /\ job \in [Runners -> Jobs]
    /\ pc \in [Threads ->
            {"idle", "refreshing", "verify", "load", "check", "rename",
             "recover", "withdraw", "purge", "secure", "settle", "done"}]
    /\ task \in [Threads -> Tasks]
    /\ \A t \in Threads : pc[t] \notin {"idle", "done"} => task[t].source # None
    /\ draft \in [Threads -> [base : Catalogs, checked : Nat]]
    /\ result \in [Threads -> Results \cup {None}]
    /\ cancelling \subseteq Threads /\ closed \subseteq Threads
    /\ fresh \subseteq Threads /\ wrote \subseteq Threads
    /\ pending \subseteq Works \X Configs
    /\ reloads \in 0..MaxReloads
    /\ doubtful \subseteq Sources /\ disputed \subseteq Sources
    /\ lost \in BOOLEAN
    /\ runs \in 0..MaxRuns

(* The app starts on a new library or on one whose sources are imported    *)
(* and have their periodic work.                                           *)
Init ==
    /\ \E listed \in {{}, Installed} :
        catalog = [revision |-> IF listed = {} THEN 0 ELSE 1,
                   entries |-> [s \in Sources |->
                                  IF s \in listed THEN Home ELSE None],
                   active |-> IF listed = {} THEN None ELSE Selected]
    /\ directory = {k \in Caches : catalog.entries[k[1]] = k[2]}
    /\ cache = [k \in Caches |-> IF k \in directory THEN 1 ELSE 0]
    /\ scheduled = [w \in Works |->
                        IF w[1] = "periodic" THEN catalog.entries[w[2]] ELSE None]
    /\ stop = [w \in Works |-> "none"]
    /\ flight = [s \in Sources |-> None]
    /\ job = [r \in Runners |-> NoJob]
    /\ pc = [t \in Threads |-> "idle"]
    /\ task = [t \in Threads |-> NoTask]
    /\ draft = [t \in Threads |-> NoDraft]
    /\ result = [t \in Threads |-> None]
    /\ cancelling = {} /\ closed = {} /\ fresh = {} /\ wrote = {}
    /\ pending = {}
    /\ reloads = 0
    /\ doubtful = {}
    /\ disputed = {}
    /\ lost = FALSE
    /\ runs = 0

SourceOf(r) == IF r \in Threads THEN task[r].source ELSE r[2]

Is(t, at) == pc[t] = at
Moves(t, at) == pc' = [pc EXCEPT ![t] = at]
Goes(t, at) ==
    /\ Moves(t, at)
    /\ UNCHANGED <<task, draft, result, cancelling, closed, fresh, wrote>>

(* What an operation carries is forgotten once it has a result. *)
Reports(t, answer) ==
    /\ Moves(t, "settle")
    /\ draft' = [draft EXCEPT ![t] = NoDraft]
    /\ result' = [result EXCEPT ![t] = answer]
    /\ fresh' = fresh \ {t}
    /\ UNCHANGED <<task, cancelling, closed>>
Ends(t, answer) == Reports(t, answer) /\ UNCHANGED wrote

-----------------------------------------------------------------------------
(* Work: WorkManager, its workers and the native flights.                  *)

(* SourceRefreshRuntime.cancel: only operations the coordinator has        *)
(* admitted are cancelled, and with one of them its whole flight.          *)
Cancelling(s) ==
    flight' = IF \E r \in Runners : SourceOf(r) = s /\ job[r].pc = "flying"
              THEN [flight EXCEPT ![s].cancelled = TRUE]
              ELSE flight

(* A worker whose record is cancelled is to be told, once. *)
Stopped(w) == IF job[w].pc # "idle" /\ stop[w] = "none" THEN "due" ELSE stop[w]

(* Mutant: only the periodic lane is cancelled, by its name. *)
MutUnscheduling(s) ==
    /\ scheduled' = [scheduled EXCEPT ![<<"periodic", s>>] = None]
    /\ stop' = [stop EXCEPT ![<<"periodic", s>>] = Stopped(<<"periodic", s>>)]

(* RefreshWorkQueue.cancel, by the tag of the source: both lanes.          *)
Unscheduling(s) ==
    /\ scheduled' = [w \in Works |-> IF w[2] = s THEN None ELSE scheduled[w]]
    /\ stop' = [w \in Works |-> IF w[2] = s THEN Stopped(w) ELSE stop[w]]

(* ExistingWorkPolicy.KEEP: a one-shot record that has not ended wins.     *)
Keeps(w) == w[1] = "once" /\ scheduled[w] # None

(* RefreshWorkQueue.oneShot and periodic: every other record is replaced.  *)
Scheduling(lanes, s, c) ==
    scheduled' = [w \in Works |->
                    IF w \in lanes \X {s} /\ ~Keeps(w) THEN c ELSE scheduled[w]]

StartWorker(w) ==
    /\ scheduled[w] # None /\ job[w].pc = "idle"
    /\ runs < MaxRuns
    /\ runs' = runs + 1
    /\ job' = [job EXCEPT ![w] = [pc |-> "registered", config |-> scheduled[w],
                                  answer |-> Failed]]
    /\ UNCHANGED <<libraryVars, fileVars, scheduled, stop, flight, pending, reloads>>

(* onStopped: the operation the worker has registered is cancelled.        *)
StopWorker(w) == LET s == w[2] IN
    /\ stop[w] = "due"
    /\ stop' = [stop EXCEPT ![w] = "told"]
    /\ flight' = IF job[w].pc = "flying"
                 THEN [flight EXCEPT ![s].cancelled = TRUE] ELSE flight
    /\ UNCHANGED <<libraryVars, fileVars, scheduled, job, pending, reloads, runs>>

(* storage.resolve creates the directories of the configuration.           *)
Resolve(r) ==
    /\ job[r].pc = "registered"
    /\ job' = [job EXCEPT ![r].pc = "resolved"]
    /\ directory' = directory \cup {<<SourceOf(r), job[r].config>>}
    /\ UNCHANGED <<libraryVars, cache, scheduled, stop, flight, pending, reloads, runs>>

(* The coordinator: a flight of the same configuration is joined, one of   *)
(* another is superseded and waited for.                                   *)
Admit(r) == LET s == SourceOf(r)  c == job[r].config IN
    /\ job[r].pc = "resolved"
    /\ \/ /\ flight[s] = None
          /\ flight' = [flight EXCEPT ![s] = [config |-> c, cancelled |-> FALSE,
                                              gone |-> <<s, c>> \notin directory]]
          /\ job' = [job EXCEPT ![r].pc = "flying"]
       \/ /\ flight[s] # None /\ flight[s].config = c
          /\ job' = [job EXCEPT ![r].pc = "flying"]
          /\ UNCHANGED flight
       \/ /\ flight[s] # None /\ flight[s].config # c /\ ~flight[s].cancelled
          /\ flight' = [flight EXCEPT ![s].cancelled = TRUE]
          /\ UNCHANGED job
    /\ UNCHANGED <<libraryVars, fileVars, scheduled, stop, pending, reloads, runs>>

(* Mutant: the caches of a source share one directory. *)
MutPublished(s, c, g) ==
    [k \in Caches |-> IF k[1] = s THEN (IF k[2] = c THEN g ELSE 0) ELSE cache[k]]

(* Each configuration of a source has a store of its own. *)
Published(s, c, g) == [cache EXCEPT ![<<s, c>>] = g]

(* A worker goes back to WorkManager: its lane keeps a periodic record and  *)
(* a one-shot one that is tried again, unless the record was cancelled.     *)
Returns(s, answer) == LET w == <<"once", s>> IN
    /\ \/ /\ job[w].pc = "flying" /\ stop[w] = "none"
          /\ scheduled' = [scheduled EXCEPT ![w] = None]
       \/ /\ job[w].pc = "flying" /\ stop[w] = "none" => answer = Failed
          /\ UNCHANGED scheduled
    /\ stop' = [x \in Works |->
                  IF x[2] = s /\ job[x].pc = "flying" THEN "none" ELSE stop[x]]

(* A flight ends: it publishes a generation or finds the ready one still   *)
(* current, fails, or was cancelled.  Every operation on it is answered.   *)
Land(s) == LET c == flight[s].config IN
    /\ flight[s] # None
    /\ \E answer \in 0..Cancelled :
        /\ job' = [r \in Runners |->
                    IF SourceOf(r) = s /\ job[r].pc = "flying"
                    THEN IF r \in Works THEN NoJob
                         ELSE [pc |-> "answered", config |-> c, answer |-> answer]
                    ELSE job[r]]
        /\ \/ /\ flight[s].cancelled /\ answer = Cancelled
              /\ UNCHANGED cache
           \/ /\ ~flight[s].cancelled /\ answer = Failed
              /\ UNCHANGED cache
           \/ /\ ~flight[s].cancelled /\ ~flight[s].gone
              /\ answer \in {cache[<<s, c>>], cache[<<s, c>>] + 1} \ {0, Cancelled}
              /\ cache' = Published(s, c, answer)
        /\ Returns(s, answer)
    /\ flight' = [flight EXCEPT ![s] = None]
    /\ UNCHANGED <<libraryVars, directory, pending, reloads, runs>>

(* SourceLibraryState.reload lists the catalog and hands the sources that  *)
(* have their credentials to startup(): periodic work for each, one-shot   *)
(* work for the first of them.  An older reload that has not come so far   *)
(* gives way to it.                                                        *)
Reload ==
    /\ reloads < MaxReloads
    /\ reloads' = reloads + 1
    /\ \E connected \in SUBSET {s \in Sources : catalog.entries[s] # None} :
        /\ \E first \in SUBSET connected, before \in {pending, {}} :
            /\ first = connected \/ Cardinality(first) = MaxStartup
            /\ Cardinality(first) <= MaxStartup
            /\ pending' = before \cup
                 {<<w, catalog.entries[w[2]]>> :
                    w \in ({"periodic"} \X connected) \cup ({"once"} \X first)}
        /\ disputed' = disputed \cup
             {s \in connected : \E t \in Threads : task[t].source = s}
    /\ UNCHANGED <<catalog, operation, doubtful, lost, fileVars,
                   scheduled, stop, flight, job, runs>>

(* startup() hands its records to WorkManager one by one, however long     *)
(* ago they were listed, the periodic one of a source first.               *)
Startup(w, c) ==
    /\ <<w, c>> \in pending
    /\ w[1] = "once" => <<<<"periodic", w[2]>>, c>> \notin pending
    /\ Scheduling({w[1]}, w[2], c)
    /\ pending' = pending \ {<<w, c>>}
    /\ UNCHANGED <<libraryVars, fileVars, stop, flight, job, reloads, runs>>

-----------------------------------------------------------------------------
(* Operations of the user begin.                                           *)

(* A screen acts on the revision and the record it shows.  What it shows   *)
(* is current when the operation begins and may be stale when it is used.  *)
Started(t, kind, s, c, at) ==
    /\ Moves(t, at)
    /\ task' = [task EXCEPT ![t] = [kind |-> kind, source |-> s, config |-> c,
                  previous |-> catalog.entries[s], expected |-> catalog.revision]]
    /\ UNCHANGED <<draft, result, cancelling, closed, fresh, wrote>>

(* No other operation is on the source, and no reload has listed it.       *)
Undisturbed(t, s) ==
    /\ \A o \in Threads \ {t} : task[o].source # s
    /\ \A p \in pending : p[1][2] # s

Meets(t, s) == disputed' = disputed \cup {x \in {s} : ~Undisturbed(t, x)}

(* What withdraws the work of a source undisturbed ends all dispute on it. *)
Clears(t, s) ==
    disputed' = IF Undisturbed(t, s) THEN disputed \ {s} ELSE disputed \cup {s}

(* Unlike the first import of a source, a replacement of its configuration *)
(* cancels the work of the source at once.                                 *)
BeginImport(t) ==
    /\ Is(t, "idle")
    /\ \E s \in Sources : \E c \in Offered[s] :
        /\ job' = [job EXCEPT ![t] = [pc |-> "registered", config |-> c,
                                      answer |-> Failed]]
        /\ \/ /\ "commit" \in Asked[s]
              /\ Started(t, "commit", s, c, "refreshing")
              /\ Meets(t, s)
              /\ UNCHANGED <<flight, scheduled, stop>>
           \/ /\ "replace" \in Asked[s] /\ catalog.entries[s] # None
              /\ Started(t, "replace", s, c, "refreshing")
              /\ Clears(t, s)
              /\ Cancelling(s) /\ Unscheduling(s)
    /\ UNCHANGED <<catalog, fileVars, pending, reloads, doubtful, lost, runs>>

(* A source is selected, managed by a thread of SourceManagement, or its   *)
(* credential is being kept for a reconnection.                            *)
Begin(t) ==
    /\ Is(t, "idle")
    /\ \E s \in Sources : \E kind \in Asked[s] \ Imports : LET c == catalog.entries[s] IN
        /\ c # None
        /\ Started(t, kind, s, c, CASE kind = "select" -> "verify"
                                    [] kind = "reconnect" -> "secure"
                                    [] OTHER -> "withdraw")
        /\ Meets(t, s)
    /\ UNCHANGED <<catalog, doubtful, lost, refreshVars, fileVars>>

(* InitialSourceImportOwner.cancel and close; once the refresh has its     *)
(* answer, the flag of a cancelled import is not read any more.            *)
CancelImport(t) ==
    /\ task[t].kind \in Imports
    /\ pc[t] \notin {"idle", "done"} /\ t \notin closed
    /\ cancelling' = cancelling \cup {x \in {t} : Is(x, "refreshing")}
    /\ Cancelling(task[t].source)
    /\ UNCHANGED <<catalog, pc, task, draft, result, closed, fresh, wrote, fileVars,
                   scheduled, stop, job, pending, reloads, ghosts, runs>>

CloseImport(t) ==
    /\ task[t].kind \in Imports
    /\ pc[t] \notin {"idle", "done"} /\ t \notin closed
    /\ closed' = closed \cup {t}
    /\ Cancelling(task[t].source)
    /\ UNCHANGED <<catalog, pc, task, draft, result, cancelling, fresh, wrote, fileVars,
                   scheduled, stop, job, pending, reloads, ghosts, runs>>

(* removeAndAwait: accepted, or its wait times out and nothing is removed. *)
(* Disconnecting goes on to remove the credential, which may fail as well. *)
Withdraw(t) == LET s == task[t].source  kind == task[t].kind IN
    /\ Is(t, "withdraw")
    /\ Cancelling(s)
    /\ Unscheduling(s)
    /\ Clears(t, s)
    /\ \/ Ends(t, "failed")
       \/ kind = "remove" /\ Goes(t, "load")
       \/ kind = "removeCache" /\ Goes(t, "purge")
       \/ kind = "disconnect" /\ Ends(t, "disconnected")
    /\ UNCHANGED <<catalog, fileVars, job, pending, reloads, doubtful, lost, runs>>

(* AuthorizationVault.keep of a reconnection answers. *)
Secure(t) ==
    /\ Is(t, "secure")
    /\ Ends(t, "secured") \/ Ends(t, "failed")
    /\ UNCHANGED <<catalog, ghosts, refreshVars, fileVars>>

-----------------------------------------------------------------------------
(* From a ready generation to the catalog.                                 *)

(* terminal(): a cancellation the user asked for wins over any answer.     *)
Withdrawn(t) == t \in cancelling

Terminal(t) == LET answer == job[t].answer IN
    /\ Is(t, "refreshing") /\ job[t].pc = "answered"
    /\ \/ /\ Withdrawn(t) \/ answer = Cancelled
          /\ Ends(t, "cancelled")
       \/ /\ ~Withdrawn(t) /\ answer = Failed
          /\ Ends(t, "failed")
       \/ /\ ~Withdrawn(t) /\ answer \in 1..MaxGeneration
          /\ Goes(t, "verify")
    /\ UNCHANGED <<catalog, ghosts, refreshVars, fileVars>>

(* verified_ready: the store of this configuration has a ready generation, *)
(* and for an import it is the one the refresh answered.                   *)
Verified(t) == LET ready == cache[<<task[t].source, task[t].config>>] IN
    /\ ready # 0
    /\ task[t].kind \in Imports => ready = job[t].answer

Verify(t) ==
    /\ Is(t, "verify")
    /\ \/ /\ Verified(t)
          /\ Moves(t, "load") /\ fresh' = fresh \cup {t}
          /\ UNCHANGED <<task, draft, result, cancelling, closed, wrote>>
       \/ Ends(t, "failed")
    /\ UNCHANGED <<catalog, ghosts, refreshVars, fileVars>>

(* What the catalog must still say for the operation to apply.             *)
Expects(t) == LET o == task[t] IN
    CASE o.kind = "commit" -> TRUE
      [] o.kind = "replace" -> catalog.entries[o.source] = o.previous
      [] OTHER -> catalog.entries[o.source] = o.config

(* Mutant: any listed source counts as selected. *)
MutAlreadySo(t) == task[t].kind = "select"

(* Nothing to save: the source is selected, or its record is this one.     *)
AlreadySo(t) == LET o == task[t] IN
    \/ o.kind = "select" /\ catalog.active = o.source
    \/ o.kind = "replace" /\ o.previous = o.config

(* commit() recovers from a conflict; the others report it.                *)
Conflicts(t) == IF task[t].kind = "commit" THEN Goes(t, "recover")
                                         ELSE Ends(t, "conflict")

Load(t) == LET o == task[t] IN
    /\ Is(t, "load")
    /\ \/ /\ catalog.revision # o.expected \/ ~Expects(t)
          /\ Conflicts(t)
       \/ /\ catalog.revision = o.expected /\ Expects(t)
          /\ IF o.kind = "commit" /\ catalog.entries[o.source] \notin {None, o.config}
             THEN Ends(t, "failed")
             ELSE IF AlreadySo(t) THEN Ends(t, "ready")
             ELSE /\ Moves(t, "check")
                  /\ draft' = [draft EXCEPT ![t] = [base |-> catalog, checked |-> 0]]
                  /\ UNCHANGED <<task, result, cancelling, closed, fresh, wrote>>
    /\ UNCHANGED <<catalog, ghosts, refreshVars, fileVars>>

(* Mutant: save() trusts the revision the caller loaded. *)
MutStale(t) == FALSE

(* save() loads again: StaleWrite *)
Stale(t) == catalog.revision # draft[t].base.revision

Check(t) ==
    /\ Is(t, "check")
    /\ IF Stale(t) THEN Conflicts(t)
       ELSE /\ Moves(t, "rename")
            /\ draft' = [draft EXCEPT ![t].checked = catalog.revision]
            /\ UNCHANGED <<task, result, cancelling, closed, fresh, wrote>>
    /\ UNCHANGED <<catalog, ghosts, refreshVars, fileVars>>

(* Mutant: a removed source stays selected. *)
MutSelection(t) ==
    IF task[t].kind \in {"commit", "select"} THEN task[t].source ELSE draft[t].base.active

(* The catalog the operation saves: its records and its selection.         *)
Entries(t) == LET o == task[t] IN
    IF o.kind = "select" THEN draft[t].base.entries
    ELSE [draft[t].base.entries EXCEPT ![o.source] =
            IF o.kind = "remove" THEN None ELSE o.config]
Selection(t) == LET o == task[t]  active == draft[t].base.active IN
    IF o.kind \in {"commit", "select"} THEN o.source
    ELSE IF o.kind = "remove" /\ active = o.source THEN None ELSE active

(* Another save came between the comparison of this one and its rename.    *)
Overlapped(t) == catalog.revision # draft[t].checked

(* The rename commits; a failure before it leaves the file alone, one      *)
(* after it, of the directory's sync, does not, and both answer alike.     *)
Rename(t) == LET o == task[t] IN
    /\ Is(t, "rename")
    /\ \/ /\ Ends(t, "storage")
          /\ UNCHANGED <<catalog, ghosts>>
       \/ /\ catalog' = [revision |-> draft[t].base.revision + 1,
                         entries |-> Entries(t), active |-> Selection(t)]
          /\ wrote' = wrote \cup {t}
          /\ lost' = (lost \/ Overlapped(t))
          /\ doubtful' = IF t \in fresh THEN doubtful \ {o.source}
                         ELSE IF o.kind = "remove" THEN doubtful
                         ELSE doubtful \cup {o.source}
          /\ \/ /\ IF o.kind = "remove"
                   THEN /\ Moves(t, "purge")
                        /\ UNCHANGED <<task, draft, result, cancelling, closed, fresh>>
                   ELSE Reports(t, "ready")
                /\ UNCHANGED disputed
             \/ /\ Reports(t, "storage")
                /\ disputed' = disputed \cup {o.source}
    /\ UNCHANGED <<refreshVars, fileVars>>

(* SourceCatalogGateway.commit: the conflict may be with this very commit, *)
(* which is then what the catalog selects and what its store holds.        *)
Recovered(t) == LET o == task[t] IN
    /\ catalog.active = o.source /\ catalog.entries[o.source] = o.config
    /\ cache[<<o.source, o.config>>] = job[t].answer

Recover(t) ==
    /\ Is(t, "recover")
    /\ \/ Recovered(t) /\ Ends(t, "ready")
       \/ Ends(t, "conflict")
    /\ UNCHANGED <<catalog, ghosts, refreshVars, fileVars>>

(* purge_source_cache removes one configuration after another, and fails   *)
(* where a refresh makes a directory under its hands.                      *)
Purge(t) == LET s == task[t].source IN
    /\ Is(t, "purge")
    /\ \E c \in Configs :
        /\ <<s, c>> \in directory
        /\ directory' = directory \ {<<s, c>>}
        /\ cache' = [cache EXCEPT ![<<s, c>>] = 0]
        /\ flight' = IF flight[s] # None /\ flight[s].config = c
                     THEN [flight EXCEPT ![s].gone = TRUE] ELSE flight
    /\ doubtful' = doubtful \cup {s}
    /\ fresh' = {x \in fresh : task[x].source # s}
    /\ UNCHANGED <<catalog, pc, task, draft, result, cancelling, closed, wrote,
                   scheduled, stop, job, pending, reloads, disputed, lost, runs>>

PurgeEnds(t) == LET s == task[t].source IN
    /\ Is(t, "purge")
    /\ \/ {k \in directory : k[1] = s} = {} /\ Ends(t, "removed")
       \/ Ends(t, IF task[t].kind = "remove" THEN "removed" ELSE "failed")
    /\ UNCHANGED <<catalog, ghosts, refreshVars, fileVars>>

(* The event is delivered on the main thread, an import's only while its   *)
(* owner is open.  imported(): a ready import brings the periodic lane up  *)
(* to date, and enqueues it anew for another configuration.  configure():  *)
(* a replacement that failed and a reconnection ask for both lanes.        *)
Settle(t) == LET o == task[t]  s == task[t].source IN
    /\ Is(t, "settle")
    /\ Moves(t, "done")
    /\ task' = [task EXCEPT ![t] = NoTask]
    /\ result' = [result EXCEPT ![t] = None]
    /\ cancelling' = cancelling \ {t} /\ closed' = closed \ {t} /\ wrote' = wrote \ {t}
    /\ UNCHANGED <<draft, fresh>>
    /\ job' = [job EXCEPT ![t] = NoJob]
    /\ \/ /\ o.kind \in Imports /\ t \notin closed /\ result[t] = "ready"
          /\ Scheduling({"periodic"}, s, o.config)
          /\ IF o.kind = "replace" /\ o.previous # o.config
             THEN /\ Cancelling(s)
                  /\ stop' = [stop EXCEPT ![<<"periodic", s>>] = Stopped(<<"periodic", s>>)]
             ELSE UNCHANGED <<flight, stop>>
       \/ /\ \/ o.kind = "replace" /\ t \notin closed /\ result[t] # "ready"
             \/ o.kind = "reconnect" /\ result[t] = "secured"
          /\ Scheduling(Lanes, s, o.previous)
          /\ UNCHANGED <<flight, stop>>
       \/ /\ \/ o.kind \in {"select", "remove", "removeCache", "disconnect"}
             \/ o.kind \in Imports /\ t \in closed
             \/ o.kind = "commit" /\ result[t] # "ready"
             \/ o.kind = "reconnect" /\ result[t] # "secured"
          /\ UNCHANGED <<scheduled, flight, stop>>
    /\ UNCHANGED <<catalog, ghosts, fileVars, pending, reloads, runs>>

-----------------------------------------------------------------------------
ImportStep(t) == Terminal(t) \/ Verify(t) \/ Recover(t)
SaveStep(t) == Load(t) \/ Check(t) \/ Rename(t)
ManageStep(t) == Withdraw(t) \/ Secure(t) \/ Purge(t) \/ PurgeEnds(t)
ThreadStep(t) == ImportStep(t) \/ SaveStep(t) \/ ManageStep(t) \/ Settle(t)
UserStep(t) == BeginImport(t) \/ Begin(t) \/ CancelImport(t) \/ CloseImport(t)
JobStep(r) == Resolve(r) \/ Admit(r)
WorkerStep(w) == StartWorker(w) \/ StopWorker(w)

Next ==
    \/ \E t \in Threads : ThreadStep(t) \/ UserStep(t)
    \/ \E r \in Runners : JobStep(r)
    \/ \E w \in Works : WorkerStep(w) \/ \E c \in Configs : Startup(w, c)
    \/ \E s \in Sources : Land(s)
    \/ Reload

Spec == Init /\ [][Next]_vars

-----------------------------------------------------------------------------
(* The catalog never lists a configuration whose store has no readable     *)
(* generation, unless a removal of that source's cache came after the      *)
(* generation was verified: an import saves only what it has verified, and *)
(* a withdrawn or superseded job only ever fills its own configuration.    *)
(* A save that overlapped another may move the revision back, so that the  *)
(* comparisons of later saves prove nothing: until that has happened.      *)
ListedIsReadable ==
    ~lost => \A s \in Sources :
        catalog.entries[s] # None /\ s \notin doubtful
            => cache[<<s, catalog.entries[s]>>] # 0

(* Either lane refreshes the configuration the catalog lists, or nothing:  *)
(* a removed source has no work left and a replaced configuration none of  *)
(* its own.  What may break it is named: two operations on one source at   *)
(* once, an operation on a source a reload has listed and not yet          *)
(* scheduled, a save that is written and reported as a storage failure;    *)
(* and the next withdrawal of the source's work that nothing disturbs      *)
(* repairs what these have left.  Saves that overlap leave it for good.    *)
WorkFollowsCatalog ==
    ~lost => \A w \in Works : w[2] \notin disputed =>
        scheduled[w] \in {None, catalog.entries[w[2]]}

(* What an operation reports agrees with the catalog file: a cancelled or  *)
(* refused operation wrote nothing, a removal that is reported is written, *)
(* and one that is ready is what the catalog says at that moment.  Only a  *)
(* storage failure leaves open whether the file was replaced.              *)
OutcomesMatchCatalog ==
    [][\A t \in Threads :
        result[t] = None /\ result'[t] # None =>
            LET answer == result'[t]  o == task[t] IN
            /\ answer \in {"cancelled", "conflict", "failed"} => t \notin wrote'
            /\ answer = "removed" /\ o.kind = "remove" => t \in wrote'
            /\ answer = "ready" =>
                /\ catalog'.entries[o.source] = o.config
                /\ o.kind # "replace" => catalog'.active = o.source]_vars

(* A save changes the record of its own source and nothing else, and moves *)
(* the revision on by one, unless another save came between its comparison *)
(* and its rename: only that loses a save, without a lock, and only after  *)
(* it may a stale one pass the comparison.                                 *)
OnlyOverlappingSavesAreLost ==
    [][catalog' # catalog =>
        \/ lost'
        \/ \E t \in wrote' :
            /\ Is(t, "rename")
            /\ catalog'.revision = catalog.revision + 1
            /\ \A s \in Sources \ {task[t].source} :
                  catalog'.entries[s] = catalog.entries[s]
            /\ catalog'.active \in {catalog.active, task[t].source, None}]_vars
=============================================================================
