------------------------- MODULE RefreshCoordinator -------------------------
(***************************************************************************)
(* The refresh coordinator of one process (slipbox-sync, refresh.rs): the  *)
(* threads that call coordinate() and cancel() on it, and the flights it   *)
(* admits, at most one per source.  A flight is named by the request that  *)
(* leads it.                                                               *)
(*                                                                         *)
(* Each critical section of the `state' and `lifecycle' mutexes is one     *)
(* step; the `activation' mutex of a flight is held across steps.  The work *)
(* of a flight (refresh_repository) is reduced to the points where it meets *)
(* the coordinator: the cancellation checks, the publication under the     *)
(* activation mutex, its result, a panic.                                  *)
(***************************************************************************)
EXTENDS Integers, FiniteSets

CONSTANTS
    Requests,       \* calls of coordinate(), each a thread of its own
    Cancellers,     \* calls of cancel(), each a thread of its own
    Sources,        \* source identities
    Imports,        \* import configurations, what same_import compares
    Operations,     \* operation ids
    MaxConcurrent,  \* MAX_CONCURRENT_REFRESHES
    None            \* an absent value, a free mutex

Threads == Requests \cup Cancellers

(* RefreshContext *)
Contexts == [source : Sources, import : Imports, operation : Operations]

(* The terminal status of a flight: RefreshState and the failure reason. *)
Outcomes == {"ready", "failed", "cancelled", "superseded", "panicked"}

(* What coordinate() and cancel() answer. *)
Answers == Outcomes \cup {"refused", "true", "false"}

(* The program counters of a leader, and those inside control.activate(). *)
Activating == {"publishing", "published"}
Leading == {"fetching", "compared", "finishing", "retiring"} \cup Activating

PC == {"idle", "admitting", "superseding", "flagging", "awaiting", "following",
       "returned"} \cup Leading

ASSUME CoordinatorAssumption ==
    /\ MaxConcurrent \in Nat \ {0}
    /\ IsFiniteSet(Sources)
    /\ Requests \cap Cancellers = {}
    /\ None \notin Threads \cup Contexts \cup Answers

VARIABLES
    \* CoordinatorState
    active,      \* the flight of each source
    operations,  \* the flight each operation id leads or follows
    last,        \* the last terminal status of each source
    \* Flight, for each request that leads one
    cancelled,   \* flights whose cancelled flag is set
    superseded,  \* flights whose superseded flag is set
    committed,   \* flights whose publication has been committed
    activation,  \* the thread that holds the activation mutex
    outcome,     \* lifecycle: the terminal status once complete
    \* threads
    pc,
    context,     \* the argument of coordinate()
    target,      \* the flight a thread follows, supersedes or cancels
    answer       \* the result of the work, then of the call

coordinator == <<active, operations, last>>
flags == <<cancelled, superseded, committed>>
flights == <<flags, activation, outcome>>
threads == <<pc, context, target, answer>>
vars == <<coordinator, flights, threads>>

TypeOK ==
    /\ active \in [Sources -> Requests \cup {None}]
    /\ operations \in [Operations -> Requests \cup {None}]
    /\ last \in [Sources -> Outcomes \cup {None}]
    /\ cancelled \subseteq Requests
    /\ superseded \subseteq Requests
    /\ committed \subseteq Requests
    /\ activation \in [Requests -> Threads \cup {None}]
    /\ outcome \in [Requests -> Outcomes \cup {None}]
    /\ pc \in [Threads -> PC]
    /\ context \in [Requests -> Contexts \cup {None}]
    /\ target \in [Threads -> Requests \cup {None}]
    /\ answer \in [Threads -> Answers \cup {None}]
    /\ \A t \in Threads : pc[t] = "returned" => answer[t] # None

Init ==
    /\ active = [s \in Sources |-> None]
    /\ operations = [o \in Operations |-> None]
    /\ last = [s \in Sources |-> None]
    /\ cancelled = {}
    /\ superseded = {}
    /\ committed = {}
    /\ activation = [f \in Requests |-> None]
    /\ outcome = [f \in Requests |-> None]
    /\ pc = [t \in Threads |-> "idle"]
    /\ context = [r \in Requests |-> None]
    /\ target = [t \in Threads |-> None]
    /\ answer = [t \in Threads |-> None]

-----------------------------------------------------------------------------
Goto(t, label) == pc' = [pc EXCEPT ![t] = label]
Answer(t, a) == answer' = [answer EXCEPT ![t] = a]
Lock(f, t) == activation[f] = None /\ activation' = [activation EXCEPT ![f] = t]
Unlock(f) == activation' = [activation EXCEPT ![f] = None]

(* Mutant: a waiter woken early does not look again. *)
MutComplete(f) == TRUE

(* lifecycle.complete *)
Complete(f) == outcome[f] # None

(* Mutant: only a completed flight is past cancelling. *)
MutSettled(f) == Complete(f)

(* The flight can be neither cancelled nor superseded any more. *)
Settled(f) == f \in committed \/ Complete(f)

-----------------------------------------------------------------------------
(* coordinate(): admission.                                                *)

Call(r) ==
    /\ pc[r] = "idle"
    /\ \E c \in Contexts : context' = [context EXCEPT ![r] = c]
    /\ Goto(r, "admitting")
    /\ UNCHANGED <<coordinator, flights, target, answer>>

(* Mutant: a flight that has finished no longer occupies its source. *)
MutFlightOf(r) ==
    LET f == active[context[r].source]
    IN  IF f # None /\ Complete(f) THEN None ELSE f

(* The flight that now occupies the source of r. *)
FlightOf(r) == active[context[r].source]

(* The operation id is in use: OperationConflict. *)
Conflicts(r) == operations[context[r].operation] # None

(* Mutant: any request for the source coalesces. *)
MutSameImport(f, r) == TRUE

(* RefreshContext::same_import *)
SameImport(f, r) == context[f].import = context[r].import

(* Mutant: one flight too many. *)
MutExhausted == Cardinality({s \in Sources : active[s] # None}) > MaxConcurrent

(* OperationsExhausted *)
Exhausted == Cardinality({s \in Sources : active[s] # None}) >= MaxConcurrent

Refuse(r) ==
    /\ pc[r] = "admitting"
    /\ Conflicts(r) \/ (FlightOf(r) = None /\ Exhausted)
    /\ Answer(r, "refused")
    /\ Goto(r, "returned")
    /\ UNCHANGED <<coordinator, flights, context, target>>

(* An equivalent request coalesces onto the flight. *)
Follow(r) ==
    /\ pc[r] = "admitting" /\ ~Conflicts(r)
    /\ FlightOf(r) # None /\ SameImport(FlightOf(r), r)
    /\ operations' = [operations EXCEPT ![context[r].operation] = FlightOf(r)]
    /\ target' = [target EXCEPT ![r] = FlightOf(r)]
    /\ Goto(r, "following")
    /\ UNCHANGED <<active, last, flights, context, answer>>

(* A changed configuration: the state mutex is dropped before supersede(). *)
Displace(r) ==
    /\ pc[r] = "admitting" /\ ~Conflicts(r)
    /\ FlightOf(r) # None /\ ~SameImport(FlightOf(r), r)
    /\ target' = [target EXCEPT ![r] = FlightOf(r)]
    /\ Goto(r, "superseding")
    /\ UNCHANGED <<coordinator, flights, context, answer>>

Lead(r) ==
    /\ pc[r] = "admitting" /\ ~Conflicts(r)
    /\ FlightOf(r) = None /\ ~Exhausted
    /\ active' = [active EXCEPT ![context[r].source] = r]
    /\ operations' = [operations EXCEPT ![context[r].operation] = r]
    /\ target' = [target EXCEPT ![r] = None]
    /\ Goto(r, "fetching")
    /\ UNCHANGED <<last, flights, context, answer>>

(* Flight::supersede: the activation mutex, then the flags. *)
BeginSupersede(r) ==
    /\ pc[r] = "superseding"
    /\ \/ /\ activation[target[r]] = None /\ Settled(target[r])
          /\ Goto(r, "awaiting")
          /\ UNCHANGED activation
       \/ /\ ~Settled(target[r])
          /\ Lock(target[r], r)
          /\ Goto(r, "flagging")
    /\ UNCHANGED <<coordinator, flags, outcome, context, target, answer>>

Supersede(r) ==
    /\ pc[r] = "flagging"
    /\ superseded' = superseded \cup {target[r]}
    /\ cancelled' = cancelled \cup {target[r]}
    /\ Unlock(target[r])
    /\ Goto(r, "awaiting")
    /\ UNCHANGED <<coordinator, committed, outcome, context, target, answer>>

(* The wait on `changed' ends when the flight has left its source. *)
Readmit(r) ==
    /\ pc[r] = "awaiting"
    /\ FlightOf(r) # target[r]
    /\ Goto(r, "admitting")
    /\ UNCHANGED <<coordinator, flights, context, target, answer>>

(* wait_status_for *)
Coalesce(r) ==
    /\ pc[r] = "following"
    /\ Complete(target[r])
    /\ Answer(r, outcome[target[r]])
    /\ Goto(r, "returned")
    /\ UNCHANGED <<coordinator, flights, context, target>>

-----------------------------------------------------------------------------
(* The leader: refresh_repository between its admission and its result.    *)

(* The work of r ends with the result a; guards it holds unlock. *)
End(r, a) ==
    /\ Answer(r, a)
    /\ Goto(r, "finishing")
    /\ activation' = IF activation[r] = r THEN [activation EXCEPT ![r] = None] ELSE activation
    /\ UNCHANGED <<coordinator, flags, outcome, context, target>>

(* The last report() before the fetched revision is compared. *)
Compare(r) ==
    /\ pc[r] = "fetching"
    /\ r \notin cancelled
    /\ Goto(r, "compared")
    /\ UNCHANGED <<coordinator, flights, context, target, answer>>

(* The ready generation already has this revision and configuration. *)
AlreadyCurrent(r) == pc[r] = "compared" /\ End(r, "ready")

(* A check of the flags, or of the transport's flag alone, stops the work. *)
Stop(r) ==
    /\ pc[r] \in {"fetching", "compared"} /\ r \in cancelled
    /\ \/ r \in superseded /\ End(r, "superseded")
       \/ End(r, "cancelled")

Fail(r) == pc[r] \in {"fetching", "compared", "publishing"} /\ End(r, "failed")

(* check() inside activate() *)
AdmitsActivation(r) == r \notin cancelled

Activate(r) ==
    /\ pc[r] = "compared"
    /\ Lock(r, r)
    /\ AdmitsActivation(r)
    /\ Goto(r, "publishing")
    /\ UNCHANGED <<coordinator, flags, outcome, context, target, answer>>

(* GenerationStore::publish has answered Ok. *)
Publish(r) ==
    /\ pc[r] = "publishing"
    /\ committed' = committed \cup {r}
    /\ Goto(r, "published")
    /\ UNCHANGED <<coordinator, cancelled, superseded, activation, outcome, context, target, answer>>

Activated(r) == pc[r] = "published" /\ End(r, "ready")

(* Mutant: the panic unwinds through coordinate(). *)
MutUnwind(r) ==
    /\ Answer(r, "panicked")
    /\ Goto(r, "returned")
    /\ UNCHANGED <<coordinator, flights, context, target>>

(* catch_unwind turns a panic into a result. *)
Unwind(r) == End(r, "panicked")

Panic(r) == pc[r] \in {"fetching", "compared", "publishing"} /\ Unwind(r)

(* Flight::finish *)
Finish(r) ==
    /\ pc[r] = "finishing"
    /\ outcome' = [outcome EXCEPT ![r] = answer[r]]
    /\ Goto(r, "retiring")
    /\ UNCHANGED <<coordinator, flags, activation, context, target, answer>>

(* Mutants: only the leader's id is released; the last status is not kept. *)
MutRetained(r, o) ==
    IF o = context[r].operation /\ operations[o] = r THEN None ELSE operations[o]
MutRecorded(r) == last

(* The ids that survive the retirement of r, and the statuses after it. *)
Retained(r, o) == IF operations[o] = r THEN None ELSE operations[o]
Recorded(r) == [last EXCEPT ![context[r].source] = outcome[r]]

(* retire() *)
Retire(r) ==
    /\ pc[r] = "retiring"
    /\ active' = [active EXCEPT ![context[r].source] = IF @ = r THEN None ELSE @]
    /\ operations' = [o \in Operations |-> Retained(r, o)]
    /\ last' = Recorded(r)
    /\ Goto(r, "returned")
    /\ UNCHANGED <<flights, context, target, answer>>

-----------------------------------------------------------------------------
(* cancel(operation): the flight is looked up, then cancelled.             *)

LookUp(c) ==
    /\ pc[c] = "idle"
    /\ \E o \in Operations :
        \/ /\ operations[o] = None
           /\ Answer(c, "false")
           /\ Goto(c, "returned")
           /\ UNCHANGED target
        \/ /\ operations[o] # None
           /\ target' = [target EXCEPT ![c] = operations[o]]
           /\ Goto(c, "superseding")
           /\ UNCHANGED answer
    /\ UNCHANGED <<coordinator, flights, context>>

(* Flight::cancel *)
BeginCancel(c) ==
    /\ pc[c] = "superseding"
    /\ \/ /\ activation[target[c]] = None /\ Settled(target[c])
          /\ Answer(c, "false")
          /\ Goto(c, "returned")
          /\ UNCHANGED activation
       \/ /\ ~Settled(target[c])
          /\ Lock(target[c], c)
          /\ Goto(c, "flagging")
          /\ UNCHANGED answer
    /\ UNCHANGED <<coordinator, flags, outcome, context, target>>

Cancel(c) ==
    /\ pc[c] = "flagging"
    /\ cancelled' = cancelled \cup {target[c]}
    /\ Unlock(target[c])
    /\ Answer(c, "true")
    /\ Goto(c, "returned")
    /\ UNCHANGED <<coordinator, superseded, committed, outcome, context, target>>

-----------------------------------------------------------------------------
AdmissionStep(r) ==
    \/ Refuse(r) \/ Follow(r) \/ Displace(r) \/ Lead(r)
    \/ BeginSupersede(r) \/ Supersede(r) \/ Readmit(r) \/ Coalesce(r)

WorkStep(r) ==
    \/ Compare(r) \/ AlreadyCurrent(r) \/ Stop(r) \/ Fail(r)
    \/ Activate(r) \/ Publish(r) \/ Activated(r) \/ Panic(r)
    \/ Finish(r) \/ Retire(r)

CancelStep(c) == BeginCancel(c) \/ Cancel(c)

Next ==
    \/ \E r \in Requests : Call(r) \/ AdmissionStep(r) \/ WorkStep(r)
    \/ \E c \in Cancellers : LookUp(c) \/ CancelStep(c)

Spec == Init /\ [][Next]_vars

(* Threads run; the work of a flight ends (its transport and its indexing
   are bounded), and nobody is obliged to call coordinate() or cancel().     *)
FairSpec ==
    /\ Spec
    /\ \A r \in Requests : WF_vars(AdmissionStep(r) \/ WorkStep(r))
    /\ \A c \in Cancellers : WF_vars(CancelStep(c))

-----------------------------------------------------------------------------
(* Properties.                                                             *)

(* The flights under way, from their admission to their retirement. *)
Flights == {r \in Requests : pc[r] \in Leading}

(* Two flights never work on one source at once, whatever requests coalesce,
   supersede each other, or arrive while a finished flight is retiring.      *)
OneFlightPerSource ==
    \A f, g \in Flights : context[f].source = context[g].source => f = g

(* Nor are there ever more flights than MAX_CONCURRENT_REFRESHES.            *)
BoundedFlights == Cardinality(Flights) <= MaxConcurrent

(* An operation id or a source is never left to a flight that is gone: not
   after a panic, and not for the ids of the requests that coalesced.        *)
RegistryNamesFlights ==
    /\ \A o \in Operations : operations[o] # None => operations[o] \in Flights
    /\ \A s \in Sources : active[s] # None => active[s] \in Flights

(* The registry as the requests share it: at most one flight for a source, no
   more flights than the process allows, and nothing left of one that is gone. *)
RegistryIsSound == OneFlightPerSource /\ BoundedFlights /\ RegistryNamesFlights

(* A cancellation that answered true, or a supersession, is never followed by
   the activation of that flight, and never hits one that is activated.      *)
CancelledNeverCommits == cancelled \cap committed = {}

(* A coalesced request is answered with the terminal status of a flight of
   its own source and import configuration.                                  *)
AnswersFitRequests ==
    \A r \in Requests :
        pc[r] = "returned" /\ target[r] # None /\ answer[r] # "refused" =>
            /\ answer[r] = outcome[target[r]]
            /\ context[target[r]].source = context[r].source
            /\ context[target[r]].import = context[r].import

(* status(source) *)
Status(s) == IF active[s] # None THEN outcome[active[s]] ELSE last[s]

(* A terminal status, once it can be read, is what status() goes on reporting
   until a new flight starts: no gap and no older status while it retires.   *)
StatusIsStable ==
    [][\A s \in Sources :
        Status(s) # None /\ Status(s)' # Status(s)
            => active[s] = None /\ active'[s] # None]_vars

(* Every call of coordinate() and cancel() returns: no waiter is forgotten by
   a flight that fails, panics, is cancelled or superseded.                  *)
EveryCallReturns ==
    \A t \in Threads : (pc[t] # "idle") ~> (pc[t] = "returned")

=============================================================================
