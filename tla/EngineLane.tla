----------------------------- MODULE EngineLane -----------------------------
(***************************************************************************)
(* The serial lane of an engine host (Android, engine/EngineLane.kt): one  *)
(* thread, a bounded queue with room reserved for closures, an admission   *)
(* counter, and cancellations that race the thread for a call.             *)
(*                                                                         *)
(* The lane's monitor makes submissions atomic; every compare-and-set of a *)
(* claim or of a FutureTask, every removal from the queue and every change *)
(* of the counter made outside the monitor is a step of its own.           *)
(***************************************************************************)
EXTENDS Integers, Sequences, FiniteSets

CONSTANTS
    Calls,        \* calls of submit(), counted and cancellable
    Closures,     \* calls of submitClosure()
    Disposal,     \* the one closure retire() orders
    Cancellers,   \* calls of EngineTask.cancel(), each a thread of its own
    Depth,        \* max_queued_requests: calls admitted at once
    MaxSessions,  \* max_open_sessions, for which the queue reserves room
    None

Tasks == Calls \cup Closures \cup {Disposal}

(* Mutant: no room is kept for the disposal. *)
MutCapacity == Depth + MaxSessions

(* AdapterLimits.laneCapacity *)
Capacity == Depth + MaxSessions + 1

(* FutureTask: its state, "none" before it is submitted; a closure the
   executor has no room for is answered as a failed task.                   *)
Futures == {"none", "new", "settled", "cancelled", "refused"}

(* EngineCancellation *)
Replies == {"discarded", "under_way", "settled"}

(* The executor's thread, and a call of cancel(). *)
Activities == {"unstarted", "waiting", "taken", "working", "abandoning",
               "releasing"}
Stages == {"idle", "claiming", "cancelling", "removing", "releasing", "returned"}

ASSUME LaneAssumption ==
    /\ Depth \in Nat \ {0} /\ MaxSessions \in Nat
    /\ IsFiniteSet(Calls) /\ IsFiniteSet(Closures) /\ IsFiniteSet(Cancellers)
    /\ Calls \cap Closures = {}
    /\ Disposal \notin Calls \cup Closures
    /\ None \notin Tasks \cup Replies

VARIABLES
    future,    \* the FutureTask of each task
    claims,    \* tasks whose claim is set
    begun,     \* tasks whose work has begun
    queue,     \* the executor's queue
    thread,    \* what the executor's thread is doing
    running,   \* the task it has taken
    admitted,  \* the admission counter
    retired,   \* retire() has been called
    stage,     \* what each canceller is doing
    subject,   \* the task it cancels
    reply      \* what cancel() answered

cancels == <<stage, subject, reply>>
laneVars == <<future, claims, begun, queue, thread, running, admitted, retired,
              cancels>>

LaneTypeOK ==
    /\ future \in [Tasks -> Futures]
    /\ claims \subseteq Tasks
    /\ begun \subseteq Tasks
    /\ queue \in Seq(Tasks) /\ Len(queue) <= Capacity
    /\ thread \in Activities
    /\ running \in Tasks \cup {None}
    /\ admitted \in 0..Depth
    /\ retired \in BOOLEAN
    /\ stage \in [Cancellers -> Stages]
    /\ subject \in [Cancellers -> Tasks \cup {None}]
    /\ reply \in [Cancellers -> Replies \cup {None}]

LaneInit ==
    /\ future = [t \in Tasks |-> "none"]
    /\ claims = {}
    /\ begun = {}
    /\ queue = <<>>
    /\ thread = "unstarted"
    /\ running = None
    /\ admitted = 0
    /\ retired = FALSE
    /\ stage = [k \in Cancellers |-> "idle"]
    /\ subject = [k \in Cancellers |-> None]
    /\ reply = [k \in Cancellers |-> None]

-----------------------------------------------------------------------------
(* ThreadPoolExecutor.execute: the first task starts the thread, the later
   ones are queued; a full queue rejects.                                   *)
Fits == thread = "unstarted" \/ Len(queue) < Capacity

(* Mutant: a pool of no core threads only queues. *)
MutExecute(t) == queue' = Append(queue, t) /\ UNCHANGED <<thread, running>>

Execute(t) ==
    IF thread = "unstarted"
    THEN thread' = "taken" /\ running' = t /\ UNCHANGED queue
    ELSE queue' = Append(queue, t) /\ UNCHANGED <<thread, running>>

(* Mutant: one call too many is admitted. *)
MutSaturated == admitted > Depth

Saturated == admitted >= Depth

(* A call that finds the lane retired or saturated, or that the executor
   rejects, leaves the lane as it was.                                      *)
Refuses == retired \/ Saturated \/ ~Fits

Submit(c) ==
    /\ future[c] = "none"
    /\ ~Refuses
    /\ future' = [future EXCEPT ![c] = "new"]
    /\ admitted' = admitted + 1
    /\ Execute(c)
    /\ UNCHANGED <<claims, begun, retired, cancels>>

(* ordered(): the claim is set from the start, so nobody can abandon it. *)
Ordered(t) ==
    /\ future[t] = "none"
    /\ claims' = claims \cup {t}
    /\ IF Fits
       THEN future' = [future EXCEPT ![t] = "new"] /\ Execute(t)
       ELSE /\ future' = [future EXCEPT ![t] = "refused"]
            /\ UNCHANGED <<thread, running, queue>>
    /\ UNCHANGED <<begun, admitted, cancels>>

SubmitClosure(t) == ~retired /\ Ordered(t) /\ UNCHANGED retired

Retire == ~retired /\ retired' = TRUE /\ Ordered(Disposal)

-----------------------------------------------------------------------------
(* The lane's thread.                                                     *)

Take ==
    /\ thread = "waiting" /\ queue # <<>>
    /\ running' = Head(queue)
    /\ queue' = Tail(queue)
    /\ thread' = "taken"
    /\ UNCHANGED <<future, claims, begun, admitted, retired, cancels>>

(* Mutant: the claim is not looked at before the work. *)
MutWins(t) == TRUE

(* claimed(): the work of a counted call runs only if the thread sets the
   claim; a closure is not claimed.                                         *)
Wins(t) == t \in Calls => t \notin claims

Begin ==
    /\ thread = "taken"
    /\ future[running] = "new" /\ Wins(running)
    /\ claims' = claims \cup {running}
    /\ begun' = begun \cup {running}
    /\ thread' = "working"
    /\ UNCHANGED <<future, queue, running, admitted, retired, cancels>>

(* The call was abandoned: FutureTask.run or claimed() leaves the work alone. *)
Yield ==
    /\ thread = "taken"
    /\ ~(future[running] = "new" /\ Wins(running))
    /\ thread' = "abandoning"
    /\ UNCHANGED <<future, claims, begun, queue, running, admitted, retired,
                   cancels>>

(* FutureTask.set or setException; a task cancelled meanwhile stays so. *)
Settle ==
    /\ thread \in {"working", "abandoning"}
    /\ IF future[running] = "new"
       THEN /\ future' = [future EXCEPT ![running] = "settled"]
            /\ thread' = "releasing"
       ELSE thread' = "waiting" /\ UNCHANGED future
    /\ running' = IF thread' = "waiting" THEN None ELSE running
    /\ UNCHANGED <<claims, begun, queue, admitted, retired, cancels>>

(* Mutant: a closure gives back a slot it never took. *)
MutCounted(t) == TRUE

Counted(t) == t \in Calls

(* Counted.done() *)
Release ==
    /\ thread = "releasing"
    /\ admitted' = IF Counted(running) THEN admitted - 1 ELSE admitted
    /\ running' = None
    /\ thread' = "waiting"
    /\ UNCHANGED <<future, claims, begun, queue, retired, cancels>>

-----------------------------------------------------------------------------
(* EngineTask.cancel()                                                     *)

Reply(k, r) ==
    /\ reply' = [reply EXCEPT ![k] = r]
    /\ stage' = [stage EXCEPT ![k] = "returned"]

BeginCancel(k) ==
    /\ stage[k] = "idle"
    /\ \E t \in Tasks :
        /\ subject' = [subject EXCEPT ![k] = t]
        /\ \/ future[t] = "new"
              /\ stage' = [stage EXCEPT ![k] = "claiming"] /\ UNCHANGED reply
           \/ future[t] \in Futures \ {"none", "new"} /\ Reply(k, "settled")
    /\ UNCHANGED <<future, claims, begun, queue, thread, running, admitted,
                   retired>>

Claim(k) ==
    /\ stage[k] = "claiming"
    /\ \/ /\ subject[k] \in claims
          /\ Reply(k, "under_way")
          /\ UNCHANGED claims
       \/ /\ subject[k] \notin claims
          /\ claims' = claims \cup {subject[k]}
          /\ stage' = [stage EXCEPT ![k] = "cancelling"]
          /\ UNCHANGED reply
    /\ UNCHANGED <<future, begun, queue, thread, running, admitted,
                   retired, subject>>

(* FutureTask.cancel(false): too late if the thread has settled the call. *)
CancelFuture(k) ==
    /\ stage[k] = "cancelling"
    /\ \/ /\ future[subject[k]] = "new"
          /\ future' = [future EXCEPT ![subject[k]] = "cancelled"]
          /\ stage' = [stage EXCEPT ![k] = "removing"]
          /\ UNCHANGED reply
       \/ /\ future[subject[k]] # "new"
          /\ Reply(k, "settled")
          /\ UNCHANGED future
    /\ UNCHANGED <<claims, begun, queue, thread, running, admitted,
                   retired, subject>>

(* ThreadPoolExecutor.remove: one instance leaves the queue, if it is there. *)
Removed(t) ==
    IF \A i \in DOMAIN queue : queue[i] # t THEN queue
    ELSE LET at == CHOOSE i \in DOMAIN queue : queue[i] = t
         IN  [i \in 1..Len(queue) - 1 |-> queue[IF i < at THEN i ELSE i + 1]]

(* Counted.done(): the queue first, then the counter. *)
RemoveCancelled(k) ==
    /\ stage[k] = "removing"
    /\ queue' = Removed(subject[k])
    /\ stage' = [stage EXCEPT ![k] = "releasing"]
    /\ UNCHANGED <<future, claims, begun, thread, running, admitted, retired,
                   subject, reply>>

ReleaseCancelled(k) ==
    /\ stage[k] = "releasing"
    /\ admitted' = admitted - 1
    /\ Reply(k, "discarded")
    /\ UNCHANGED <<future, claims, begun, queue, thread, running, retired, subject>>

CancelStep(k) ==
    \/ BeginCancel(k) \/ Claim(k) \/ CancelFuture(k)
    \/ RemoveCancelled(k) \/ ReleaseCancelled(k)

-----------------------------------------------------------------------------
ThreadStep == Take \/ Begin \/ Yield \/ Settle \/ Release

(* The lane by itself, in the hands of any host. *)
LaneNext ==
    \/ \E c \in Calls : Submit(c)
    \/ \E t \in Closures : SubmitClosure(t)
    \/ Retire
    \/ ThreadStep
    \/ \E k \in Cancellers : CancelStep(k)

LaneSpec == LaneInit /\ [][LaneNext]_laneVars

-----------------------------------------------------------------------------
(* Properties.                                                             *)

(* A cancellation that answered DISCARDED is final: the work of that call has
   not begun and never will, wherever in the lane the call was then.         *)
DiscardedNeverBegin ==
    \A k \in Cancellers : reply[k] = "discarded" =>
        subject[k] \notin begun /\ future[subject[k]] = "cancelled"

(* The counter is exact: every admitted call gives its slot back once, by the
   thread that settles it or by the canceller that discards it.              *)
AdmissionIsExact ==
    admitted = Cardinality({c \in Calls : future[c] = "new"})
             + Cardinality({k \in Cancellers :
                               stage[k] \in {"removing", "releasing"}})
             + (IF thread = "releasing" /\ running \in Calls THEN 1 ELSE 0)

(* The room reserved for closures is never taken by calls: a session can
   always be retired and the host always disposed of.                        *)
ClosuresAlwaysFit == \A t \in Closures \cup {Disposal} : future[t] # "refused"

(* The lane's bounds together: calls take and give back exactly their slots,
   and never those of the closures.                                      *)
LaneStaysBounded == AdmissionIsExact /\ ClosuresAlwaysFit

(* Everything the lane accepted is settled, or discarded by its canceller:
   each task is submitted once, so what is pending does not stay so.    *)
EveryCallSettles == []<>(\A t \in Tasks : future[t] # "new")
=============================================================================
