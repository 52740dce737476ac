-------------------------- MODULE GenerationStore --------------------------
(***************************************************************************)
(* The on-disk generation store of one source (slipbox-sync, GenerationStore *)
(* in publication.rs and publication/recovery.rs) and the actors that open *)
(* it: refreshers, which recover the store and then publish a generation   *)
(* (refresh_repository), and readers, which lease the active generation.   *)
(*                                                                         *)
(* Every fs::rename, pointer replacement and directory removal that another *)
(* actor or a restart can observe is a step of its own.  The contents of a *)
(* generation (source tree, index, counts) are one opaque value.           *)
(***************************************************************************)
EXTENDS Integers

CONSTANTS
    Refreshers,    \* processes that run refreshes
    Readers,       \* processes that lease generations
    Contents,      \* revision, configuration and counts of a generation
    MaxOperation,  \* largest operation id, after which the ids wrap
    MaxFaults,     \* bound on crashes and damaged files in one behaviour
    None,          \* a missing file, an absent value, a free lock
    Corrupt        \* a pointer file that does not decode

Actors == Refreshers \cup Readers

(* A generation is named "refresh-<operation>" by the flight publishing it. *)
Gens == 1 .. MaxOperation

(* GenerationManifest: `expected' is the generation its publisher observed. *)
Manifests == [gen : Gens, expected : Gens \cup {None}, content : Contents]

(* What active-generation.json or retained-generation.json can hold. *)
Pointers == Manifests \cup {None, Corrupt}

(* A directory generations/<id>.  "damaged" stands for every inspection
   failure (corrupt files, an index schema that asks for a rebuild), "torn"
   for a directory that reclamation has begun to unlink. *)
Health == {"sealed", "damaged", "torn"}
Dirs == [manifest : Manifests, health : Health]

(* The locals of one run of recover(): the generation the active pointer
   named at first, whether every sealed generation is preserved, the entries
   reclamation has still to visit and those it left to live readers. *)
Passes == [original : Gens \cup {None}, keepAll : BOOLEAN,
           todo : SUBSET Gens, deferred : SUBSET Gens]

NoPass == [original |-> None, keepAll |-> FALSE, todo |-> {}, deferred |-> {}]

(* Program counters inside publish() once its lock is held. *)
Publishing == {"preparing", "sourceSealed", "indexSealed", "manifestSealed",
               "activating", "retained"}

(* Program counters inside recover() once the recovery lock is held. *)
Recovering == {"scanning", "deciding", "completing", "switching", "reclaiming"}

PC == {"idle", "leasing", "locking", "observed", "built"} \cup Publishing \cup Recovering

ASSUME StoreAssumption ==
    /\ MaxOperation \in Nat \ {0} /\ MaxFaults \in Nat
    /\ Refreshers \cap Readers = {}
    /\ None # Corrupt
    /\ None \notin Actors \cup Gens \cup Manifests \cup Dirs
    /\ Corrupt \notin Manifests

VARIABLES
    \* files
    dir,          \* generations/<id>, per generation
    staged,       \* manifests of .generation-stage-* left behind; None: unsealed
    candidates,   \* actors whose snapshot and index candidates exist
    active,       \* active-generation.json
    retained,     \* retained-generation.json
    \* file locks
    publication,  \* exclusive holder of the publication lock
    recovery,     \* exclusive holder of the recovery lock
    sharing,      \* shared holders of the recovery lock
    \* processes
    pc,           \* what each actor is doing
    request,      \* the manifest it is publishing, completing or leasing
    leases,       \* the generations whose reader lock it shares
    operation,    \* RefreshOperationIds: last id handed out by the process
    pass,         \* locals of the recovery under way
    faults        \* crashes and damages so far

files == <<dir, staged, candidates, active, retained>>
locks == <<publication, recovery, sharing>>
procs == <<pc, request, leases, operation>>
vars == <<files, locks, procs, pass, faults>>

TypeOK ==
    /\ dir \in [Gens -> Dirs \cup {None}]
    /\ staged \subseteq Manifests \cup {None}
    /\ candidates \subseteq Refreshers
    /\ active \in Pointers
    /\ retained \in Pointers
    /\ publication \in Refreshers \cup {None}
    /\ recovery \in Refreshers \cup {None}
    /\ sharing \subseteq Readers
    /\ pc \in [Actors -> PC]
    /\ request \in [Actors -> Manifests \cup {None}]
    /\ leases \in [Actors -> SUBSET Manifests]
    /\ operation \in [Refreshers -> 0 .. MaxOperation]
    /\ pass \in Passes
    /\ faults \in Nat

Init ==
    /\ dir = [g \in Gens |-> None]
    /\ staged = {}
    /\ candidates = {}
    /\ active = None
    /\ retained = None
    /\ publication = None
    /\ recovery = None
    /\ sharing = {}
    /\ pc = [a \in Actors |-> "idle"]
    /\ request = [a \in Actors |-> None]
    /\ leases = [a \in Actors |-> {}]
    /\ operation = [a \in Refreshers |-> 0]
    /\ pass = NoPass
    /\ faults = 0

-----------------------------------------------------------------------------
(* inspect_generation_directory answers Ok. *)
Sealed(g) == dir[g] # None /\ dir[g].health = "sealed"

(* The sealed directory of g carries exactly the manifest m. *)
Holds(m) == Sealed(m.gen) /\ dir[m.gen].manifest = m

(* pointer_record: the pointer decodes, and names a sealed generation whose
   manifest equals it. *)
Verified(pointer) == pointer \in Manifests /\ Holds(pointer)

(* pointer_generation *)
Named(pointer) == IF pointer \in Manifests THEN pointer.gen ELSE None

(* read_active_record answers a record: a lease would be granted. *)
Ready == Verified(active)

(* Mutant: the reader locks are not probed. *)
MutLeased(g) == FALSE

(* generation_is_leased *)
Leased(g) == \E a \in Actors : \E m \in leases[a] : m.gen = g

(* Mutant: an error path that leaves the publication lock held. *)
MutReturn(a) ==
    /\ publication' = publication
    /\ pc' = [pc EXCEPT ![a] = "idle"]
    /\ request' = [request EXCEPT ![a] = None]
    /\ leases' = [leases EXCEPT ![a] = {}]

(* The actor a returns to its caller: its guards unlock and its leases drop. *)
Return(a) ==
    /\ publication' = IF publication = a THEN None ELSE publication
    /\ pc' = [pc EXCEPT ![a] = "idle"]
    /\ request' = [request EXCEPT ![a] = None]
    /\ leases' = [leases EXCEPT ![a] = {}]

Goto(a, label) == pc' = [pc EXCEPT ![a] = label]

Lease(a, m) == leases' = [leases EXCEPT ![a] = @ \cup {m}]

-----------------------------------------------------------------------------
(* Readers: GenerationStore::lease, and the drop of a GenerationLease.     *)

(* RecoveryLock::acquire_shared succeeds. *)
RecoveryLockFree == recovery = None

(* The shared recovery lock is taken and the active record read and
   inspected; a missing or unusable pointer ends in no lease. *)
BeginLease(r) ==
    /\ pc[r] = "idle"
    /\ RecoveryLockFree
    /\ sharing' = sharing \cup {r}
    /\ request' = [request EXCEPT ![r] = IF Ready THEN active ELSE None]
    /\ Goto(r, "leasing")
    /\ UNCHANGED <<files, publication, recovery, leases, operation, pass, faults>>

(* lease_record shares the reader lock; then the recovery lock is dropped. *)
EndLease(r) ==
    /\ pc[r] = "leasing"
    /\ leases' = [leases EXCEPT ![r] =
                    IF request[r] = None THEN @ ELSE @ \cup {request[r]}]
    /\ sharing' = sharing \ {r}
    /\ request' = [request EXCEPT ![r] = None]
    /\ Goto(r, "idle")
    /\ UNCHANGED <<files, publication, recovery, operation, pass, faults>>

DropLease(r) ==
    /\ pc[r] = "idle"
    /\ \E m \in leases[r] : leases' = [leases EXCEPT ![r] = @ \ {m}]
    /\ UNCHANGED <<files, locks, pc, request, operation, pass, faults>>

-----------------------------------------------------------------------------
(* Refreshers, first half: recover().                                      *)

(* Mutant: the ids never wrap. *)
MutNextOperation(n) == n + 1

(* RefreshOperationIds.next: the ids start again at 1 in a new process. *)
NextOperation(n) == IF n = MaxOperation THEN 1 ELSE n + 1

(* A flight takes the next operation id and tries the publication lock. *)
BeginRefresh(a) ==
    /\ pc[a] = "idle"
    /\ operation' = [operation EXCEPT ![a] = NextOperation(@)]
    /\ \/ /\ publication = None
          /\ publication' = a
          /\ Goto(a, "locking")
       \/ /\ publication # None      \* PublicationInProgress
          /\ UNCHANGED <<publication, pc>>
    /\ UNCHANGED <<files, recovery, sharing, request, leases, pass, faults>>

ExcludeReaders(a) ==
    /\ pc[a] = "locking"
    /\ \/ /\ sharing = {}
          /\ recovery' = a
          /\ Goto(a, "scanning")
          /\ UNCHANGED <<publication, request, leases>>
       \/ /\ sharing # {}            \* RecoveryInProgress
          /\ Return(a)
          /\ UNCHANGED recovery
    /\ UNCHANGED <<files, sharing, operation, pass, faults>>

(* An unusable retained pointer is replaced by the predecessor the active
   manifest names, when that generation is sealed. *)
Repaired ==
    IF Ready /\ ~Verified(retained) /\ active.expected # None /\ Sealed(active.expected)
    THEN dir[active.expected].manifest
    ELSE retained

(* retained_problem: a pair that should have a fallback has none. *)
RetainedProblem(pointer) ==
    /\ ~Verified(pointer)
    /\ pointer # None \/ (Ready /\ active.expected # None)

Scan(a) ==
    /\ pc[a] = "scanning"
    /\ retained' = Repaired
    /\ pass' = [NoPass EXCEPT
                  !.original = Named(active),
                  !.keepAll = active \notin Manifests \/ RetainedProblem(Repaired)]
    /\ Goto(a, "deciding")
    /\ UNCHANGED <<dir, staged, candidates, active, locks, request, leases, operation, faults>>

(* select_pending: sealed generations, published or still staged, whose
   compare-and-swap precondition holds. *)
Pending ==
    {m \in {dir[g].manifest : g \in {h \in Gens : Sealed(h)}} \cup (staged \ {None}) :
        /\ m.gen \notin {Named(active), Named(retained)}
        /\ m.expected = Named(active)}

MayComplete == active \in Manifests \/ (active = None /\ ~Verified(retained))

(* The one interrupted publication recovery completes; several are refused. *)
Completes(m) == MayComplete /\ Pending = {m}

(* promote_if_staged and the lease of the completed generation. *)
Complete(a) ==
    /\ pc[a] = "deciding"
    /\ \E m \in Pending :
        /\ Completes(m)
        /\ \/ Holds(m) /\ UNCHANGED <<dir, staged>>
           \/ /\ dir[m.gen] = None
              /\ dir' = [dir EXCEPT ![m.gen] = [manifest |-> m, health |-> "sealed"]]
              /\ staged' = staged \ {m}
        /\ request' = [request EXCEPT ![a] = m]
        /\ Lease(a, m)
    /\ Goto(a, "completing")
    /\ UNCHANGED <<candidates, active, retained, locks, operation, pass, faults>>

(* The promoted stage finds its directory occupied: recover() fails. *)
Obstructed(a) ==
    /\ pc[a] = "deciding"
    /\ \E m \in Pending : Completes(m) /\ ~Holds(m) /\ dir[m.gen] # None
    /\ Return(a)
    /\ recovery' = None
    /\ pass' = NoPass
    /\ UNCHANGED <<files, sharing, operation, faults>>

(* activate(): the active manifest is retained before it is replaced. *)
RetainRecovered(a) ==
    /\ pc[a] = "completing"
    /\ Ready
    /\ retained' = active
    /\ Goto(a, "switching")
    /\ UNCHANGED <<dir, staged, candidates, active, locks, request, leases, operation, pass, faults>>

(* Reclamation starts over the entries now in generations/. *)
BeginReclaim(a) ==
    /\ pass' = [pass EXCEPT !.todo = {g \in Gens : dir[g] # None}]
    /\ Goto(a, "reclaiming")

(* PublicationCompleted; activate_recovered when the old one is unusable. *)
ActivateRecovered(a) ==
    /\ pc[a] = "switching" \/ (pc[a] = "completing" /\ ~Ready)
    /\ active' = request[a]
    /\ request' = [request EXCEPT ![a] = None]
    /\ BeginReclaim(a)
    /\ UNCHANGED <<dir, staged, candidates, retained, locks, leases, operation, faults>>

NothingCompletes == ~\E m \in Pending : Completes(m)

(* ReadyUnchanged *)
KeepReady(a) ==
    /\ pc[a] = "deciding" /\ NothingCompletes
    /\ Ready
    /\ Lease(a, active)
    /\ BeginReclaim(a)
    /\ UNCHANGED <<files, locks, request, operation, faults>>

(* Mutant: the fallback is found, and the active pointer left as it is. *)
MutRestoreRetained(a) ==
    /\ pc[a] = "deciding" /\ NothingCompletes
    /\ ~Ready /\ Verified(retained)
    /\ BeginReclaim(a)
    /\ UNCHANGED <<files, locks, request, leases, operation, faults>>

(* RetainedRestored *)
RestoreRetained(a) ==
    /\ pc[a] = "deciding" /\ NothingCompletes
    /\ ~Ready /\ Verified(retained)
    /\ active' = retained
    /\ Lease(a, retained)
    /\ BeginReclaim(a)
    /\ UNCHANGED <<dir, staged, candidates, retained, locks, request, operation, faults>>

(* NoReadyGeneration: the pointers are left as they are. *)
FindNothing(a) ==
    /\ pc[a] = "deciding" /\ NothingCompletes
    /\ ~Ready /\ ~Verified(retained)
    /\ BeginReclaim(a)
    /\ UNCHANGED <<files, locks, request, leases, operation, faults>>

(* Mutants: the fallback is not preserved; everything is preserved. *)
MutPreservedNoRetained(g) == g \in {Named(active), pass.original}
MutPreservedAll(g) == TRUE

(* The set `preserve' of recover(). *)
Preserved(g) ==
    \/ g \in {Named(active), Named(retained), pass.original}
    \/ (pass.keepAll \/ ~Ready) /\ Sealed(g)

(* reclaim() visits one entry of generations/.  remove_tree unlinks file by
   file: the first unlink makes the generation unreadable. *)
Visit(a, g) ==
    /\ pc[a] = "reclaiming"
    /\ g \in pass.todo
    /\ \/ /\ Preserved(g)
          /\ pass' = [pass EXCEPT !.todo = @ \ {g}]
          /\ UNCHANGED dir
       \/ /\ ~Preserved(g) /\ Leased(g)
          /\ pass' = [pass EXCEPT !.todo = @ \ {g}, !.deferred = @ \cup {g}]
          /\ UNCHANGED dir
       \/ /\ ~Preserved(g) /\ ~Leased(g) /\ dir[g].health # "torn"
          /\ dir' = [dir EXCEPT ![g].health = "torn"]
          /\ UNCHANGED pass
       \/ /\ ~Preserved(g) /\ ~Leased(g) /\ dir[g].health = "torn"
          /\ dir' = [dir EXCEPT ![g] = None]
          /\ pass' = [pass EXCEPT !.todo = @ \ {g}]
    /\ UNCHANGED <<staged, candidates, active, retained, locks, procs, faults>>

(* A sealed stage is unlinked file by file too. *)
ReclaimStage(a) ==
    /\ pc[a] = "reclaiming"
    /\ \E s \in staged :
        staged' = (staged \ {s}) \cup (IF s = None THEN {} ELSE {None})
    /\ UNCHANGED <<dir, candidates, active, retained, locks, procs, pass, faults>>

(* Candidates go last, those of a flight in another process included. *)
ReclaimCandidate(a) ==
    /\ pc[a] = "reclaiming" /\ pass.todo = {} /\ staged = {}
    /\ \E b \in candidates : candidates' = candidates \ {b}
    /\ UNCHANGED <<dir, staged, active, retained, locks, procs, pass, faults>>

(* recover() returns; the flight keeps the lease of the ready generation. *)
EndRecovery(a) ==
    /\ pc[a] = "reclaiming"
    /\ pass.todo = {} /\ staged = {} /\ candidates = {}
    /\ publication' = None
    /\ recovery' = None
    /\ pass' = NoPass
    /\ Goto(a, "observed")
    /\ UNCHANGED <<files, sharing, request, leases, operation, faults>>

-----------------------------------------------------------------------------
(* Refreshers, second half: the candidates and publish().                  *)

(* What the flight observed as ready: the `expected' of its request. *)
Observed(a) == {m.gen : m \in leases[a]} \cup (IF leases[a] = {} THEN {None} ELSE {})

(* Fetch, materialize and stage_index have produced both candidates. *)
Build(a) ==
    /\ pc[a] = "observed"
    /\ \E e \in Observed(a), c \in Contents :
        request' = [request EXCEPT ![a] =
                      [gen |-> operation[a], expected |-> e, content |-> c]]
    /\ candidates' = candidates \cup {a}
    /\ Goto(a, "built")
    /\ UNCHANGED <<dir, staged, active, retained, locks, leases, operation, pass, faults>>

(* The flight ends before publishing: already current, failed, cancelled or
   superseded.  Its candidates stay for the next recovery. *)
GiveUp(a) ==
    /\ pc[a] \in {"observed", "built"}
    /\ Return(a)
    /\ UNCHANGED <<files, recovery, sharing, operation, pass, faults>>

BeginPublish(a) ==
    /\ pc[a] = "built"
    /\ \/ /\ publication = None
          /\ publication' = a
          /\ Goto(a, "preparing")
          /\ UNCHANGED <<request, leases>>
       \/ /\ publication # None      \* PublicationInProgress
          /\ Return(a)
    /\ UNCHANGED <<files, recovery, sharing, operation, pass, faults>>

(* Mutant: the observation is not compared. *)
MutAdmitted(m) ==
    /\ active = None \/ Ready
    /\ Named(active) # m.gen

(* The compare of compare-and-swap; an unusable active generation is an error. *)
Admitted(m) ==
    /\ active = None \/ Ready
    /\ Named(active) = m.expected
    /\ Named(active) # m.gen

(* AlreadyActive: the same publication is the ready one. *)
AlreadyActive(a) ==
    /\ pc[a] = "preparing"
    /\ Ready /\ active = request[a]
    /\ Return(a)
    /\ UNCHANGED <<files, recovery, sharing, operation, pass, faults>>

(* The destination already holds this very generation: only activate it. *)
MatchExisting(a) ==
    /\ pc[a] = "preparing"
    /\ Admitted(request[a]) /\ Holds(request[a])
    /\ Lease(a, request[a])
    /\ Goto(a, "activating")
    /\ UNCHANGED <<files, locks, request, operation, pass, faults>>

(* The source candidate is renamed into a fresh stage. *)
SealSource(a) ==
    /\ pc[a] = "preparing"
    /\ Admitted(request[a]) /\ dir[request[a].gen] = None /\ a \in candidates
    /\ Goto(a, "sourceSealed")
    /\ UNCHANGED <<files, locks, request, leases, operation, pass, faults>>

(* ActiveGenerationChanged, GenerationOccupied, CandidateUnavailable or an
   unusable active generation. *)
Refuse(a) ==
    /\ pc[a] = "preparing"
    /\ ~(Ready /\ active = request[a])
    /\ \/ ~Admitted(request[a])
       \/ dir[request[a].gen] # None /\ ~Holds(request[a])
       \/ dir[request[a].gen] = None /\ a \notin candidates
    /\ Return(a)
    /\ UNCHANGED <<files, recovery, sharing, operation, pass, faults>>

SealIndex(a) ==
    /\ pc[a] = "sourceSealed"
    /\ candidates' = candidates \ {a}
    /\ Goto(a, "indexSealed")
    /\ UNCHANGED <<dir, staged, active, retained, locks, request, leases, operation, pass, faults>>

SealManifest(a) ==
    /\ pc[a] = "indexSealed"
    /\ Goto(a, "manifestSealed")
    /\ UNCHANGED <<files, locks, request, leases, operation, pass, faults>>

(* The stage is renamed to generations/<id>, inspected and leased. *)
Promote(a) ==
    /\ pc[a] = "manifestSealed"
    /\ dir[request[a].gen] = None
    /\ dir' = [dir EXCEPT ![request[a].gen] = [manifest |-> request[a], health |-> "sealed"]]
    /\ Lease(a, request[a])
    /\ Goto(a, "activating")
    /\ UNCHANGED <<staged, candidates, active, retained, locks, request, operation, pass, faults>>

(* Mutant: the active pointer file is renamed to the retained one. *)
MutRetain(a) ==
    /\ pc[a] = "activating"
    /\ active # None
    /\ retained' = active
    /\ active' = None
    /\ Goto(a, "retained")
    /\ UNCHANGED <<dir, staged, candidates, locks, request, leases, operation, pass, faults>>

(* activate_publication: the current manifest is retained first. *)
Retain(a) ==
    /\ pc[a] = "activating"
    /\ active # None
    /\ retained' = active
    /\ Goto(a, "retained")
    /\ UNCHANGED <<dir, staged, candidates, active, locks, request, leases, operation, pass, faults>>

(* The swap: the rename over active-generation.json is the commit. *)
Commit(a) ==
    /\ pc[a] = "retained" \/ (pc[a] = "activating" /\ active = None)
    /\ active' = request[a]
    /\ Return(a)
    /\ UNCHANGED <<dir, staged, candidates, retained, recovery, sharing, operation, pass, faults>>

(* Cancellation or an I/O error at any point before the commit.  The
   temporary stage is deleted with what was moved into it; a generation
   already renamed into place stays. *)
Abandon(a) ==
    /\ pc[a] \in Publishing
    /\ Return(a)
    /\ UNCHANGED <<files, recovery, sharing, operation, pass, faults>>

-----------------------------------------------------------------------------
(* Faults.                                                                 *)

(* The process dies (or recover() returns an I/O error): the system releases
   its locks, the files stay as they are, and the operation ids start over. *)
Crash(a) ==
    /\ faults < MaxFaults
    /\ pc[a] # "idle" \/ leases[a] # {}
    /\ Return(a)
    /\ recovery' = IF recovery = a THEN None ELSE recovery
    /\ sharing' = sharing \ {a}
    /\ pass' = IF recovery = a THEN NoPass ELSE pass
    /\ staged' = staged \cup
         (CASE pc[a] \in {"sourceSealed", "indexSealed"} -> {None}
            [] pc[a] = "manifestSealed" -> {request[a]}
            [] OTHER -> {})
    /\ operation' = [b \in Refreshers |-> IF b = a THEN 0 ELSE operation[b]]
    /\ faults' = faults + 1
    /\ UNCHANGED <<dir, candidates, active, retained>>

(* Media corruption, or an application update that changes the index schema,
   while no refresher is at work on the store. *)
DamageGeneration(g) ==
    /\ faults < MaxFaults
    /\ publication = None
    /\ Sealed(g)
    /\ dir' = [dir EXCEPT ![g].health = "damaged"]
    /\ faults' = faults + 1
    /\ UNCHANGED <<staged, candidates, active, retained, locks, procs, pass>>

DamagePointer ==
    /\ faults < MaxFaults
    /\ publication = None
    /\ \/ active \in Manifests /\ active' = Corrupt /\ UNCHANGED retained
       \/ retained \in Manifests /\ retained' = Corrupt /\ UNCHANGED active
    /\ faults' = faults + 1
    /\ UNCHANGED <<dir, staged, candidates, locks, procs, pass>>

Damage == DamagePointer \/ \E g \in Gens : DamageGeneration(g)

-----------------------------------------------------------------------------
ReaderStep(r) == BeginLease(r) \/ EndLease(r) \/ DropLease(r)

RecoverStep(a) ==
    \/ BeginRefresh(a) \/ ExcludeReaders(a) \/ Scan(a)
    \/ Complete(a) \/ Obstructed(a) \/ RetainRecovered(a) \/ ActivateRecovered(a)
    \/ KeepReady(a) \/ RestoreRetained(a) \/ FindNothing(a)
    \/ (\E g \in Gens : Visit(a, g))
    \/ ReclaimStage(a) \/ ReclaimCandidate(a) \/ EndRecovery(a)

PublishStep(a) ==
    \/ Build(a) \/ GiveUp(a) \/ BeginPublish(a)
    \/ AlreadyActive(a) \/ MatchExisting(a) \/ SealSource(a) \/ Refuse(a)
    \/ SealIndex(a) \/ SealManifest(a) \/ Promote(a)
    \/ Retain(a) \/ Commit(a) \/ Abandon(a)

Next ==
    \/ \E r \in Readers : ReaderStep(r)
    \/ \E a \in Refreshers : RecoverStep(a) \/ PublishStep(a)
    \/ \E a \in Actors : Crash(a)
    \/ Damage

Spec == Init /\ [][Next]_vars

(* Threads of a live process keep running, and the periodic worker starts a
   refresh again; crashes, damage and readers are under no obligation. *)
FairSpec ==
    /\ Spec
    /\ \A a \in Refreshers : WF_vars(RecoverStep(a) \/ PublishStep(a))
    /\ \A r \in Readers : WF_vars(EndLease(r))

-----------------------------------------------------------------------------
(* Properties.                                                             *)

(* Each file lock is held exactly by the actors inside the code it guards:
   publish() and recover() exclude each other, and no lease is being taken
   while recover() decides what to keep.  (PublicationLock, RecoveryLock)    *)
LockDiscipline ==
    /\ \A a \in Actors :
        /\ pc[a] \in Publishing \cup Recovering \cup {"locking"} <=> publication = a
        /\ pc[a] \in Recovering <=> recovery = a
        /\ pc[a] = "leasing" <=> a \in sharing
    /\ recovery # None => sharing = {}

(* A pointer file that decodes names a generation directory that exists,
   carries that very manifest and has not begun to be deleted: retention
   never outlives what it points to.  (recover, activate_publication)        *)
PointersNameGenerations ==
    \A p \in {active, retained} \cap Manifests :
        /\ dir[p.gen] # None
        /\ dir[p.gen].manifest = p
        /\ dir[p.gen].health # "torn"

(* A lease pins what it was granted: as long as a reader or a flight holds
   it the directory exists, untouched by reclamation, and has not been
   replaced by another generation of the same id.  (GenerationLease)         *)
LeasesPinGenerations ==
    \A a \in Actors : \A m \in leases[a] :
        /\ dir[m.gen] # None
        /\ dir[m.gen].manifest = m
        /\ dir[m.gen].health # "torn"

(* No step of the program, crashes at any point included, takes a readable
   store to an unreadable one; only damage to its files does.                *)
ReadyStaysReady == [][Ready /\ ~Damage => Ready']_vars

(* Nor does any such step lose a usable fallback generation.                 *)
FallbackStaysUsable == [][Verified(retained) /\ ~Damage => Verified(retained)']_vars

(* The active pointer only ever moves to a sealed and verified generation,
   and only from the generation its publisher had observed, or back to the
   retained one when the active one cannot be read.                          *)
ActivationIsCompareAndSwap ==
    [][active' # active /\ ~Damage =>
        /\ Ready'
        /\ \/ active'.expected = Named(active)
           \/ active' = retained /\ ~Ready]_vars

(* A recovery that found nothing wrong with either pointer leaves on disk the
   active and the retained generation, those it left to live readers, and no
   stage or candidate: storage does not grow from one startup to the next.   *)
RecoveryBoundsStorage ==
    [][\A a \in Refreshers :
        /\ EndRecovery(a) /\ Ready /\ ~pass.keepAll
        /\ pass.original \in {Named(active), Named(retained)}
        => /\ {g \in Gens : dir[g] # None} \subseteq
                {Named(active), Named(retained)} \cup pass.deferred
           /\ staged' = {} /\ candidates' = {}]_vars

(* No actor keeps the publication lock for ever: every recovery and every
   publication ends, whatever crashes and refusals it meets.                 *)
LockIsReleased == \A a \in Refreshers : (publication = a) ~> (publication # a)

(* The one publication recovery would complete is still staged, and another
   flight of the same id has left a directory under its name: recover() fails
   before it looks at anything else, now and on every later start.           *)
Blocked == \E m \in Pending : Completes(m) /\ ~Holds(m) /\ dir[m.gen] # None

(* A refresh would make the store readable: the active generation is usable,
   or recovery gets through and finds the fallback usable or one interrupted
   publication to complete.                                                  *)
Recoverable ==
    \/ Ready
    \/ ~Blocked /\ (Verified(retained) \/ \E m \in Pending : Completes(m))

(* The faults in a behaviour are finitely many; if after them a restart could
   still find a usable generation, the store becomes readable for good,
   whichever process recovers and whatever the others publish, give up or
   abandon meanwhile.                                                        *)
StoreHeals == []<>Recoverable => <>[]Ready

-----------------------------------------------------------------------------
(* A statement of a comment that the code does not keep.                   *)

(* refresh.rs:207: a publication conflict says that the publication lost its
   active-generation precondition, so one whose candidates are there and
   whose precondition holds is not refused.                                  *)
ConflictMeansActiveMoved ==
    [][\A a \in Refreshers :
        (pc[a] = "preparing" /\ Ready /\ Named(active) = request[a].expected
            /\ a \in candidates) => ~Refuse(a)]_vars
=============================================================================
