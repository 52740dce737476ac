-------------------------- MODULE EngineHostProofs --------------------------
(***************************************************************************)
(* Proofs about the engine host, in three parts: the lane by itself keeps  *)
(* a discarded call from ever beginning, and the host, whose every step is *)
(* a step of the lane or leaves it alone, inherits that; a session that    *)
(* callers can still use has its native counterpart; and the bounds of the *)
(* lane and the disposal: the admission counter is exact, the queue has    *)
(* room for every closure, and disposal leaves no native session behind.   *)
(***************************************************************************)
EXTENDS EngineHost, FiniteSetTheorems, TLAPS

-----------------------------------------------------------------------------
(* The lane.                                                               *)

(* A canceller that has won its call, and one that has discarded it. *)
Holds(k) ==
    stage[k] \in {"cancelling", "removing", "releasing"} \/ reply[k] = "discarded"
Discarded(k) == stage[k] \in {"removing", "releasing"} \/ reply[k] = "discarded"

(* Only the fields the argument looks at are typed. *)
LaneShape ==
    /\ DOMAIN future = Tasks
    /\ DOMAIN stage = Cancellers
    /\ DOMAIN subject = Cancellers
    /\ DOMAIN reply = Cancellers

(* What has begun is claimed, and closures are claimed from the start. *)
BegunIsClaimed ==
    /\ begun \subseteq claims
    /\ \A t \in Tasks \ Calls : future[t] # "none" => t \in claims

(* A canceller has a task of the lane; an answer ends its call. *)
CancellerHasSubject ==
    \A k \in Cancellers :
        /\ stage[k] # "idle" => subject[k] \in Tasks /\ future[subject[k]] # "none"
        /\ reply[k] = "discarded" => stage[k] = "returned"

(* The claim a canceller holds keeps the thread from beginning the call. *)
HeldNeverBegin ==
    \A k \in Cancellers :
        /\ Holds(k) => subject[k] \in Calls \cap claims /\ subject[k] \notin begun
        /\ Discarded(k) => future[subject[k]] = "cancelled"

LaneInv == LaneShape /\ BegunIsClaimed /\ CancellerHasSubject /\ HeldNeverBegin

LEMMA LaneInitInv == LaneInit => LaneInv
  BY LaneAssumption
     DEF LaneInit, Replies, LaneInv, LaneShape, BegunIsClaimed,
         CancellerHasSubject, HeldNeverBegin, Holds, Discarded

(* The submissions, the thread and the cancellers, each by itself. *)
LEMMA SubmissionKeepsLaneInv ==
    ASSUME LaneInv,
           \/ \E c \in Calls : Submit(c)
           \/ \E t \in Closures : SubmitClosure(t)
           \/ Retire
    PROVE  LaneInv'
PROOF
  <1>1. CASE \E c \in Calls : Submit(c)
    BY <1>1 DEF Submit, cancels, LaneInv, LaneShape, BegunIsClaimed, Tasks,
                CancellerHasSubject, HeldNeverBegin, Holds, Discarded
  <1>2. ASSUME NEW t \in Tasks, Ordered(t) PROVE LaneInv'
    BY <1>2 DEF Ordered, cancels, LaneInv, LaneShape, BegunIsClaimed,
                CancellerHasSubject, HeldNeverBegin, Holds, Discarded
  <1> QED BY <1>1, <1>2 DEF SubmitClosure, Retire, Tasks

LEMMA ThreadKeepsLaneInv == LaneInv /\ ThreadStep => LaneInv'
PROOF
  <1> SUFFICES ASSUME LaneInv, ThreadStep PROVE LaneInv'
    OBVIOUS
  <1> USE DEF LaneInv, LaneShape, BegunIsClaimed, CancellerHasSubject,
              HeldNeverBegin, Holds, Discarded, cancels
  <1>1. CASE Take \/ Yield \/ Release
    BY <1>1 DEF Take, Yield, Release
  <1>2. CASE Begin
    BY <1>2 DEF Begin, Wins
  <1>3. CASE Settle
    BY <1>3 DEF Settle
  <1> QED BY <1>1, <1>2, <1>3 DEF ThreadStep

LEMMA CancelKeepsLaneInv ==
    ASSUME LaneInv, NEW k \in Cancellers, CancelStep(k)
    PROVE  LaneInv'
PROOF
  <1> USE DEF LaneInv, LaneShape, BegunIsClaimed, CancellerHasSubject,
              HeldNeverBegin, Holds, Discarded, Reply
  <1>1. CASE BeginCancel(k)  BY <1>1 DEF BeginCancel
  <1>2. CASE Claim(k)        BY <1>2 DEF Claim
  <1>3. CASE CancelFuture(k) BY <1>3 DEF CancelFuture
  <1>4. CASE RemoveCancelled(k)  BY <1>4 DEF RemoveCancelled
  <1>5. CASE ReleaseCancelled(k) BY <1>5 DEF ReleaseCancelled
  <1> QED BY <1>1, <1>2, <1>3, <1>4, <1>5 DEF CancelStep

LEMMA LaneStepKeepsLaneInv == LaneInv /\ [LaneNext]_laneVars => LaneInv'
PROOF
  <1>1. ASSUME LaneInv, UNCHANGED laneVars PROVE LaneInv'
    BY <1>1 DEF laneVars, cancels, LaneInv, LaneShape, BegunIsClaimed,
                CancellerHasSubject, HeldNeverBegin, Holds, Discarded
  <1> QED BY <1>1, SubmissionKeepsLaneInv, ThreadKeepsLaneInv, CancelKeepsLaneInv
          DEF LaneNext

(* The lane alone: a call whose cancellation answered DISCARDED never begins. *)
THEOREM LaneDiscards == LaneSpec => []DiscardedNeverBegin
PROOF
  <1>1. LaneInv => DiscardedNeverBegin
    BY DEF LaneInv, HeldNeverBegin, Holds, Discarded, DiscardedNeverBegin
  <1> QED BY <1>1, LaneInitInv, LaneStepKeepsLaneInv, PTL DEF LaneSpec

-----------------------------------------------------------------------------
(* The host over its lane.                                                 *)

LEMMA HostStepIsLaneStep == [Next]_vars => [LaneNext]_laneVars
PROOF
  <1> SUFFICES ASSUME Next PROVE LaneNext \/ UNCHANGED laneVars
    BY DEF vars
  <1>1. ASSUME NEW c \in Calls, CallerStep(c) PROVE LaneNext \/ UNCHANGED laneVars
    BY <1>1 DEF CallerStep, CheckOpen, CheckRead, Enter, RetireSession, LaneNext
  <1>2. CASE Close \/ CloseOrders
    BY <1>2 DEF Close, CloseOrders, LaneNext
  <1>3. CASE LaneStep
    BY <1>3 DEF LaneStep, ThreadStep, LaneNext
  <1>4. CASE InsideStep
    BY <1>4 DEF InsideStep, NativeOpen, Register, Discard, NativeRead,
                CheckDelivery, Deliver, Account, Forget, Dispose
  <1>5. CASE \E k \in Cancellers : CancelStep(k) /\ UNCHANGED hostVars
    BY <1>5 DEF LaneNext
  <1> QED BY <1>1, <1>2, <1>3, <1>4, <1>5 DEF Next

(* The host drives its lane as the lane allows: it implements the lane's
   specification, so what holds of every lane holds of the host's.         *)
THEOREM HostImplementsLane == Spec => LaneSpec
  BY HostStepIsLaneStep, PTL DEF Spec, Init, LaneSpec

(* A call whose cancellation answered DISCARDED never crosses into the native
   library, whatever the host's sessions and its disposal are doing.       *)
THEOREM HostDiscards == Spec => []DiscardedNeverBegin
  BY HostImplementsLane, LaneDiscards, PTL

-----------------------------------------------------------------------------
(* Sessions.                                                               *)

(* The task the thread works on has begun and nobody else settles it; the
   thread is inside a task only while it works.                            *)
WorkIsCurrent ==
    /\ thread = "working" /\ running \in Tasks =>
          running \in begun /\ future[running] = "new"
    /\ step # "entering" => thread = "working"

(* A session is retired after its opening settled, and is open no more. *)
RetiredIsClosed ==
    /\ DOMAIN ordered = Calls
    /\ \A s \in Calls : ordered[s] # None => future[s] = "settled" /\ s \notin open

(* Disposal is ordered only once the host is closed. *)
DisposalIsLast ==
    /\ closing => ~live
    /\ future[Disposal] # "none" => ~live

(* A session is in the native table from its opening, before it is open. *)
OpenIsNative ==
    /\ thread = "working" /\ step = "opened" /\ running \in Calls =>
          running \in native
    /\ live => open \subseteq native \cap sessions

HostInv == WorkIsCurrent /\ RetiredIsClosed /\ DisposalIsLast /\ OpenIsNative

LEMMA HostInitInv == Init => HostInv
  BY DEF Init, LaneInit, HostInv, WorkIsCurrent, RetiredIsClosed, DisposalIsLast,
         OpenIsNative, Tasks

LEMMA CallersKeepHostInv ==
    ASSUME LaneInv, HostInv, NEW c \in Calls, CallerStep(c)
    PROVE  HostInv'
PROOF
  <1> USE LaneAssumption
      DEF LaneInv, LaneShape, HostInv, WorkIsCurrent, RetiredIsClosed,
          DisposalIsLast, OpenIsNative, laneVars, Tasks
  <1>1. CASE CheckOpen(c) \/ CheckRead(c)
    BY <1>1 DEF CheckOpen, CheckRead
  <1>2. CASE Enter(c)
    BY <1>2 DEF Enter, Submit, Execute
  <1>3. CASE RetireSession(c)
    BY <1>3 DEF RetireSession, MarkRetired, Delivered, SubmitClosure, Ordered,
                Execute
  <1> QED BY <1>1, <1>2, <1>3 DEF CallerStep

LEMMA ClosingKeepsHostInv ==
    LaneInv /\ HostInv /\ (Close \/ CloseOrders) => HostInv'
  BY LaneAssumption
     DEF Close, CloseOrders, MarkRetired, Retire, Ordered, Execute, LaneInv,
         LaneShape, HostInv, WorkIsCurrent, RetiredIsClosed, DisposalIsLast,
         OpenIsNative, laneVars, Tasks

LEMMA ThreadKeepsHostInv ==
    LaneInv /\ HostInv /\ (LaneStep \/ InsideStep) => HostInv'
PROOF
  <1> SUFFICES ASSUME LaneInv, HostInv, LaneStep \/ InsideStep PROVE HostInv'
    OBVIOUS
  <1> USE LaneAssumption
      DEF LaneInv, LaneShape, HostInv, WorkIsCurrent, RetiredIsClosed,
          DisposalIsLast, OpenIsNative, Tasks, Working
  <1>1. CASE (Take \/ Begin \/ Yield \/ Release) /\ UNCHANGED hostVars
    BY <1>1 DEF Take, Begin, Yield, Release, hostVars
  <1>2. CASE /\ Settle
             /\ thread = "working" => step = "leaving"
             /\ step' = "entering"
             /\ UNCHANGED <<live, closing, sessions, open, ordered, native>>
    BY <1>2 DEF Settle
  <1>3. ASSUME NEW c \in Calls,
               NativeOpen(c) \/ NativeRead(c) \/ CheckDelivery(c) \/ Deliver(c)
        PROVE  HostInv'
    BY <1>3 DEF NativeOpen, NativeRead, CheckDelivery, Deliver, Opens, laneVars
  <1>4. ASSUME NEW c \in Calls, Register(c) PROVE HostInv'
    BY <1>4 DEF Register, Opens, laneVars
  <1>5. ASSUME NEW c \in Calls, Discard(c) PROVE HostInv'
    BY <1>5 DEF Discard, Registers, laneVars
  <1>6. ASSUME NEW s \in Calls, Account(s) \/ Forget(s) PROVE HostInv'
    BY <1>6 DEF Account, Forget, Retires, NativeClose, laneVars
  <1>7. CASE Dispose
    BY <1>7 DEF Dispose, laneVars
  <1> QED
    BY <1>1, <1>2, <1>3, <1>4, <1>5, <1>6, <1>7 DEF LaneStep, InsideStep

LEMMA StepKeepsHostInv == LaneInv /\ HostInv /\ [Next]_vars => HostInv'
PROOF
  <1> SUFFICES ASSUME LaneInv, HostInv, [Next]_vars PROVE HostInv'
    OBVIOUS
  <1>1. CASE \E k \in Cancellers : CancelStep(k) /\ UNCHANGED hostVars
    <2> PICK k \in Cancellers : CancelStep(k) /\ UNCHANGED hostVars
      BY <1>1
    <2> USE DEF LaneInv, LaneShape, HeldNeverBegin, Holds, HostInv, WorkIsCurrent,
                RetiredIsClosed, DisposalIsLast, OpenIsNative, hostVars
    <2>1. CASE CancelFuture(k)
      BY <2>1, LaneAssumption DEF CancelFuture, Tasks
    <2>2. CASE \/ BeginCancel(k) \/ Claim(k)
               \/ RemoveCancelled(k) \/ ReleaseCancelled(k)
      BY <2>2 DEF BeginCancel, Claim, RemoveCancelled, ReleaseCancelled
    <2> QED BY <2>1, <2>2 DEF CancelStep
  <1>2. CASE UNCHANGED vars
    BY <1>2 DEF vars, laneVars, hostVars, HostInv, WorkIsCurrent, RetiredIsClosed,
                DisposalIsLast, OpenIsNative
  <1> QED
    BY <1>1, <1>2, CallersKeepHostInv, ClosingKeepsHostInv, ThreadKeepsHostInv
       DEF Next

(* A session its callers can use has a native counterpart and is one the host
   holds, so disposal finds it: for any number of sessions, calls and threads. *)
THEOREM OpenIsBacked == Spec => []OpenSessionsAreNative
PROOF
  <1>1. Init => LaneInv /\ HostInv
    BY LaneInitInv, HostInitInv DEF Init
  <1>2. LaneInv /\ HostInv /\ [Next]_vars => (LaneInv /\ HostInv)'
    BY HostStepIsLaneStep, LaneStepKeepsLaneInv, StepKeepsHostInv
  <1>3. HostInv => OpenSessionsAreNative
    BY DEF HostInv, OpenIsNative, OpenSessionsAreNative, IsOpen
  <1> QED BY <1>1, <1>2, <1>3, PTL DEF Spec

-----------------------------------------------------------------------------
(* The bounds of the lane.                                                 *)

Queued == {queue[i] : i \in DOMAIN queue}
Pending == {c \in Calls : future[c] = "new"}
Releasing == {k \in Cancellers : stage[k] \in {"removing", "releasing"}}

(* The queue holds a task once, and not the one the thread has taken. *)
QueueIsDistinct ==
    /\ \A i, j \in DOMAIN queue : queue[i] = queue[j] => i = j
    /\ running \notin Queued
    /\ thread = "unstarted" => queue = <<>>

(* The thread has a task exactly while it is busy with it. *)
ThreadHasTask == running = None <=> thread \in {"unstarted", "waiting"}

(* Where a submitted task can be, and what is then known of its future. *)
QueuedIsSubmitted ==
    /\ \A t \in Queued :
        \/ future[t] = "new"
        \/ \E k \in Cancellers : stage[k] = "removing" /\ subject[k] = t
    /\ running # None => future[running] # "none"
    /\ thread \in {"taken", "working"} /\ running \in Tasks \ Calls =>
          future[running] = "new"
    /\ thread = "abandoning" => running \in Calls

(* Disposal is the last task of the lane. *)
DisposalComesLast ==
    /\ retired <=> future[Disposal] # "none"
    /\ \A i \in DOMAIN queue : queue[i] = Disposal => i = Len(queue)
    /\ running = Disposal => queue = <<>>
    /\ future[Disposal] = "settled" => queue = <<>> /\ running \in {None, Disposal}

QueueInv == QueueIsDistinct /\ ThreadHasTask /\ QueuedIsSubmitted /\ DisposalComesLast

-----------------------------------------------------------------------------
(* The host.                                                               *)

(* The host is closed, the lane retired and the sessions handed to disposal
   in one order.                                                           *)
ClosingInOrder ==
    /\ retired <=> ~live /\ ~closing
    /\ retired => sessions = {}
    /\ ~retired => held = {}

(* Every closure in the lane retires one session, which is native until then. *)
ClosureRetiresOne ==
    /\ \A s \in Calls : ordered[s] \in Closures => future[ordered[s]] # "none"
    /\ \A s, r \in Calls : ordered[s] \in Closures /\ ordered[s] = ordered[r] => s = r
    /\ \A t \in Closures : future[t] # "none" => \E s \in Calls : ordered[s] = t

Awaits(t) ==
    \/ t \in Queued
    \/ running = t /\ step = "entering" /\ thread \in {"taken", "working"}

AwaitedIsNative ==
    \A s \in Calls : ordered[s] \in Closures /\ Awaits(ordered[s]) =>
        s \in native /\ outcome[s] = None

(* The native table is bounded. *)
TableIsBounded == native \subseteq Calls /\ Cardinality(native) <= MaxSessions

Disposed ==
    \/ future[Disposal] = "settled"
    \/ running = Disposal /\ thread = "working" /\ step # "entering"

Final(s) == IF s \in Stubborn THEN "failed" ELSE "retired"

(* A retirement that was attempted did what it could. *)
AttemptsAreFinal ==
    \A s \in Calls :
        /\ outcome[s] # None =>
              /\ ordered[s] \in Closures
              /\ outcome[s] = Final(s)
              /\ s \in native => s \in Stubborn
        /\ step = "closed" /\ Retires(s) => outcome[s] # None

(* The host knows every native session, but the one that is being opened. *)
NativeIsHeld ==
    /\ \A s \in sessions \cup held :
        future[s] = "settled" \/ (running = s /\ step = "leaving")
    /\ \A s \in sessions \cup held :
        outcome[s] = None /\ ~Disposed => s \in native
    /\ \A s \in native \ Stubborn :
        \/ s \in sessions \cup held
        \/ thread = "working" /\ running = s /\ step = "opened"

DisposedIsComplete ==
    Disposed => native \subseteq Stubborn /\ \A s \in held : report[s] = Final(s)

DisposalInv ==
    /\ ClosingInOrder /\ ClosureRetiresOne /\ AwaitedIsNative /\ TableIsBounded
    /\ AttemptsAreFinal /\ NativeIsHeld /\ DisposedIsComplete

-----------------------------------------------------------------------------
(* The lane's types and its counter.                                       *)

(* Calls that have not given their slot back, seen from the thread. *)
Leaving == IF thread = "releasing" /\ running \in Calls THEN 1 ELSE 0

LEMMA CounterParts ==
    AdmissionIsExact <=> admitted = Cardinality(Pending) + Cardinality(Releasing) + Leaving
BY DEF AdmissionIsExact, Pending, Releasing, Leaving

LEMMA CountersAreFinite ==
    /\ IsFiniteSet(Pending) /\ Cardinality(Pending) \in Nat
    /\ IsFiniteSet(Releasing) /\ Cardinality(Releasing) \in Nat
<1>1. Pending \in SUBSET Calls /\ Releasing \in SUBSET Cancellers
  BY DEF Pending, Releasing
<1> QED BY <1>1, LaneAssumption, FS_Subset, FS_CardinalityType

(* A removal leaves the rest of the queue as it was. *)
LEMMA RemovalKeepsTheRest ==
    ASSUME queue \in Seq(Tasks), NEW t \in Tasks \ {Disposal}
    PROVE  /\ Removed(t) \in Seq(Tasks) /\ Len(Removed(t)) <= Len(queue)
           /\ {Removed(t)[i] : i \in DOMAIN Removed(t)} \subseteq Queued
           /\ (\A i, j \in DOMAIN queue : queue[i] = queue[j] => i = j) =>
                 \A i, j \in DOMAIN Removed(t) :
                     Removed(t)[i] # t /\ (Removed(t)[i] = Removed(t)[j] => i = j)
           /\ (\A i \in DOMAIN queue : queue[i] = Disposal => i = Len(queue)) =>
                 \A i \in DOMAIN Removed(t) :
                     Removed(t)[i] = Disposal => i = Len(Removed(t))
           /\ queue = <<>> => Removed(t) = <<>>
PROOF
  <1>1. CASE \A i \in DOMAIN queue : queue[i] # t
    <2>1. Removed(t) = queue
      BY <1>1 DEF Removed
    <2> QED BY <1>1, <2>1 DEF Queued
  <1>2. CASE \E i \in DOMAIN queue : queue[i] = t
    <2> DEFINE at == CHOOSE i \in DOMAIN queue : queue[i] = t
               rest == [i \in 1..Len(queue) - 1 |-> queue[IF i < at THEN i ELSE i + 1]]
    <2>1. at \in 1..Len(queue) /\ queue[at] = t
      BY <1>2
    <2>2. Removed(t) = rest
      BY <1>2 DEF Removed
    <2> HIDE DEF at
    <2>3. Len(queue) \in Nat /\ Len(queue) > 0
      BY <2>1
    <2>4. \A i \in 1..Len(queue) : queue[i] \in Tasks
      OBVIOUS
    <2>5. rest \in Seq(Tasks) /\ Len(rest) = Len(queue) - 1 /\ DOMAIN rest = 1..Len(queue) - 1
      BY <2>1, <2>3, <2>4
    <2>6. \A i \in 1..Len(queue) - 1 : rest[i] = queue[IF i < at THEN i ELSE i + 1]
      OBVIOUS
    <2> HIDE DEF rest
    <2> DEFINE from(i) == IF i < at THEN i ELSE i + 1
    <2>7. {rest[i] : i \in DOMAIN rest} \subseteq Queued
      BY <2>1, <2>3, <2>5, <2>6 DEF Queued
    <2>8. ASSUME \A i, j \in DOMAIN queue : queue[i] = queue[j] => i = j,
                 NEW i \in DOMAIN rest, NEW j \in DOMAIN rest
          PROVE  rest[i] # t /\ (rest[i] = rest[j] => i = j)
      <3>1. DOMAIN queue = 1..Len(queue) /\ i \in Int /\ j \in Int
        BY <2>3, <2>5, <2>8
      <3>2. from(i) \in DOMAIN queue \ {at} /\ from(j) \in DOMAIN queue \ {at}
        BY <2>1, <2>3, <2>5, <2>8, <3>1
      <3>3. rest[i] = queue[from(i)] /\ rest[j] = queue[from(j)]
        BY <2>5, <2>6, <2>8
      <3>4. from(i) = from(j) => i = j
        BY <2>1, <3>1
      <3> HIDE DEF from
      <3> QED BY <2>1, <2>8, <3>1, <3>2, <3>3, <3>4
    <2>9. ASSUME \A i \in DOMAIN queue : queue[i] = Disposal => i = Len(queue),
                 NEW i \in DOMAIN rest, rest[i] = Disposal
          PROVE  i = Len(rest)
      <3>1. DOMAIN queue = 1..Len(queue) /\ i \in 1..Len(queue) - 1
        BY <2>3, <2>5, <2>9
      <3>2. from(i) \in DOMAIN queue /\ queue[from(i)] = Disposal
        BY <2>1, <2>3, <2>6, <2>9, <3>1
      <3>3. from(i) = Len(queue)
        BY <2>9, <3>2
      <3> QED BY <2>1, <2>3, <2>5, <3>1, <3>3
    <2> QED BY <2>2, <2>3, <2>5, <2>7, <2>8, <2>9
  <1> QED BY <1>1, <1>2

-----------------------------------------------------------------------------
LaneBounds == LaneTypeOK /\ AdmissionIsExact

LEMMA LaneInitBounds == LaneInit => LaneBounds
<1> SUFFICES ASSUME LaneInit PROVE LaneBounds
  OBVIOUS
<1>1. LaneTypeOK
  <2>1. Capacity \in Nat /\ 0 \in 0..Depth
    BY LaneAssumption DEF Capacity
  <2>2. queue \in Seq(Tasks) /\ Len(queue) <= Capacity
    BY <2>1 DEF LaneInit
  <2>3. admitted \in 0..Depth
    BY <2>1 DEF LaneInit
  <2> QED BY <2>2, <2>3 DEF LaneInit, LaneTypeOK, Futures, Activities, Stages
<1>2. Pending = {} /\ Releasing = {} /\ Leaving = 0 /\ admitted = 0
  BY DEF LaneInit, Pending, Releasing, Leaving, Tasks
<1>3. AdmissionIsExact
  BY <1>2, CounterParts, FS_EmptySet
<1> QED BY <1>1, <1>3 DEF LaneBounds

(* The submissions take a slot for a call and none for a closure. *)
LEMMA ExecuteKeepsTypes ==
    ASSUME LaneTypeOK, Fits, NEW t \in Tasks, Execute(t)
    PROVE  /\ queue' \in Seq(Tasks) /\ Len(queue') <= Capacity
           /\ thread' \in Activities /\ running' \in Tasks \cup {None}
           /\ (thread' = "releasing") = (thread = "releasing")
           /\ thread = "releasing" => running' = running
BY LaneAssumption DEF LaneTypeOK, Fits, Execute, Capacity, Activities

LEMMA SubmitKeepsBounds ==
    ASSUME LaneBounds, NEW c \in Calls, Submit(c)
    PROVE  LaneBounds'
<1>1. c \in Tasks /\ Fits /\ Execute(c) /\ admitted < Depth
  BY LaneAssumption DEF Submit, Refuses, Saturated, Tasks, LaneBounds, LaneTypeOK
<1>2. LaneTypeOK'
  BY <1>1, ExecuteKeepsTypes, LaneAssumption
     DEF Submit, LaneBounds, LaneTypeOK, Futures, cancels
<1>3. Pending' = Pending \cup {c} /\ c \notin Pending
  BY <1>1 DEF Submit, Pending, LaneBounds, LaneTypeOK
<1>4. Releasing' = Releasing /\ Leaving' = Leaving
  BY <1>1, ExecuteKeepsTypes DEF Submit, Releasing, Leaving, cancels, LaneBounds
<1>5. Cardinality(Pending') = Cardinality(Pending) + 1
  BY <1>3, FS_AddElement, CountersAreFinite
<1>6. AdmissionIsExact'
  <2>1. admitted' = Cardinality(Pending') + Cardinality(Releasing') + Leaving'
    BY <1>4, <1>5, CounterParts, CountersAreFinite DEF Submit, LaneBounds, Leaving
  <2> QED BY <2>1, CounterParts DEF AdmissionIsExact, Pending, Releasing, Leaving
<1> QED BY <1>2, <1>6 DEF LaneBounds

LEMMA OrderedKeepsBounds ==
    ASSUME LaneBounds, NEW t \in Tasks \ Calls, Ordered(t), retired' \in BOOLEAN
    PROVE  LaneBounds'
<1>1. LaneTypeOK'
  <2>1. CASE Fits
    BY <2>1, ExecuteKeepsTypes DEF Ordered, LaneBounds, LaneTypeOK, Futures, cancels
  <2>2. CASE ~Fits
    BY <2>2 DEF Ordered, LaneBounds, LaneTypeOK, Futures, cancels
  <2> QED BY <2>1, <2>2
<1>2. Pending' = Pending /\ Releasing' = Releasing
  BY DEF Ordered, Pending, Releasing, LaneBounds, LaneTypeOK, Tasks, cancels
<1>3. Leaving' = Leaving
  BY ExecuteKeepsTypes DEF Ordered, Leaving, LaneBounds
<1>4. AdmissionIsExact'
  BY <1>2, <1>3, CounterParts
     DEF Ordered, LaneBounds, AdmissionIsExact, Pending, Releasing, Leaving
<1> QED BY <1>1, <1>4 DEF LaneBounds

(* The thread settles a call and then gives its slot back. *)
LEMMA ThreadKeepsBounds ==
    ASSUME LaneBounds, QueueInv, ThreadStep
    PROVE  LaneBounds'
<1> USE DEF LaneBounds
<1>1. thread \notin {"unstarted", "waiting"} => running \in Tasks
  BY DEF QueueInv, ThreadHasTask, LaneTypeOK
<1>2. CASE Take \/ Begin \/ Yield
  <2>1. LaneTypeOK'
    <3>1. CASE Take
      <4>1. queue \in Seq(Tasks) /\ queue # <<>> /\ Len(queue) <= Capacity
        BY <3>1 DEF Take, LaneTypeOK
      <4>2. Head(queue) \in Tasks /\ Tail(queue) \in Seq(Tasks) /\ Len(Tail(queue)) <= Capacity
        BY <4>1, LaneAssumption DEF Capacity
      <4> QED BY <3>1, <4>2 DEF Take, LaneTypeOK, Activities, cancels
    <3>2. CASE Begin \/ Yield
      BY <1>1, <3>2 DEF Begin, Yield, LaneTypeOK, Activities, cancels
    <3> QED BY <1>2, <3>1, <3>2
  <2>2. Pending' = Pending /\ Releasing' = Releasing /\ Leaving' = Leaving
    BY <1>2 DEF Take, Begin, Yield, Pending, Releasing, Leaving, cancels
  <2> QED
    BY <1>2, <2>1, <2>2, CounterParts
       DEF Take, Begin, Yield, AdmissionIsExact, Pending, Releasing, Leaving
<1>3. CASE Settle
  <2>1. LaneTypeOK'
    BY <1>1, <1>3 DEF Settle, LaneTypeOK, Activities, Futures, cancels
  <2>2. Releasing' = Releasing /\ Leaving = 0 /\ admitted' = admitted
    BY <1>3 DEF Settle, Releasing, Leaving, cancels
  <2>3. Cardinality(Pending') + Leaving' = Cardinality(Pending)
    <3>1. CASE running \in Pending
      <4>1. /\ future' = [future EXCEPT ![running] = "settled"]
            /\ thread' = "releasing" /\ running' = running
        BY <1>3, <3>1 DEF Settle, Pending
      <4>2. Pending' = Pending \ {running} /\ Leaving' = 1
        BY <3>1, <4>1 DEF Pending, Leaving, LaneTypeOK, Tasks
      <4>3. Cardinality(Pending \ {running}) = Cardinality(Pending) - 1
        BY <3>1, FS_RemoveElement, CountersAreFinite
      <4> QED BY <4>2, <4>3, CountersAreFinite
    <3>2. CASE running \notin Pending
      <4>1. Pending' = Pending /\ Leaving' = 0
        BY <1>1, <1>3, <3>2, LaneAssumption
           DEF Settle, Pending, Leaving, LaneTypeOK, Tasks
      <4> QED BY <4>1, CountersAreFinite
    <3> QED BY <3>1, <3>2
  <2>4. admitted' = Cardinality(Pending') + Leaving' + Cardinality(Releasing')
    BY <2>2, <2>3, CounterParts, CountersAreFinite
  <2>5. IsFiniteSet(Pending') /\ Cardinality(Pending') \in Nat /\ Leaving' \in Nat
    <3>1. Pending' \in SUBSET Calls
      BY DEF Pending
    <3> QED BY <3>1, LaneAssumption, FS_Subset, FS_CardinalityType DEF Leaving
  <2>6. admitted' = Cardinality(Pending') + Cardinality(Releasing') + Leaving'
    BY <2>2, <2>4, <2>5, CountersAreFinite
  <2> QED BY <2>1, <2>6 DEF AdmissionIsExact, Pending, Releasing, Leaving
<1>4. CASE Release
  <2>1. Pending' = Pending /\ Releasing' = Releasing /\ Leaving' = 0
    BY <1>4, LaneAssumption DEF Release, Pending, Releasing, Leaving, cancels
  <2>2. admitted' = admitted - Leaving
    BY <1>4 DEF Release, Counted, Leaving, LaneTypeOK
  <2>3. admitted' = Cardinality(Pending') + Cardinality(Releasing') + Leaving'
    BY <2>1, <2>2, CounterParts, CountersAreFinite DEF Leaving
  <2>4. admitted' \in 0..Depth
    BY <2>1, <2>2, <2>3, CountersAreFinite, LaneAssumption DEF LaneTypeOK, Leaving
  <2>5. LaneTypeOK'
    BY <1>4, <2>4 DEF Release, LaneTypeOK, Activities, cancels
  <2> QED BY <2>3, <2>5 DEF AdmissionIsExact, Pending, Releasing, Leaving
<1> QED BY <1>2, <1>3, <1>4 DEF ThreadStep

(* A canceller that discards a call gives its slot back. *)
LEMMA CancelKeepsBounds ==
    ASSUME LaneBounds, LaneInv, NEW k \in Cancellers, CancelStep(k)
    PROVE  LaneBounds'
<1> USE DEF LaneBounds
<1>1. stage[k] # "idle" => subject[k] \in Tasks
  BY DEF LaneInv, CancellerHasSubject
<1>2. Leaving' = Leaving
  BY DEF CancelStep, BeginCancel, Claim, CancelFuture, RemoveCancelled,
         ReleaseCancelled, Leaving
<1>3. CASE BeginCancel(k) \/ Claim(k)
  <2>1. LaneTypeOK'
    BY <1>1, <1>3 DEF BeginCancel, Claim, Reply, Replies, Stages, LaneTypeOK
  <2>2. Pending' = Pending /\ Releasing' = Releasing /\ admitted' = admitted
    BY <1>3 DEF BeginCancel, Claim, Reply, Pending, Releasing, LaneTypeOK
  <2> QED
    BY <1>2, <2>1, <2>2, CounterParts
       DEF AdmissionIsExact, Pending, Releasing, Leaving
<1>4. CASE CancelFuture(k)
  <2>1. LaneTypeOK'
    BY <1>1, <1>4 DEF CancelFuture, Reply, Replies, Stages, Futures, LaneTypeOK
  <2>2. Cardinality(Pending') + Cardinality(Releasing')
            = Cardinality(Pending) + Cardinality(Releasing)
    <3>1. CASE future[subject[k]] = "new"
      <4>1. subject[k] \in Pending
        BY <1>4, <3>1 DEF CancelFuture, LaneInv, HeldNeverBegin, Holds, Pending
      <4>2. Pending' = Pending \ {subject[k]}
        <5>1. future' = [future EXCEPT ![subject[k]] = "cancelled"]
          BY <1>4, <3>1 DEF CancelFuture
        <5> QED BY <4>1, <5>1 DEF Pending, LaneTypeOK, Tasks
      <4>3. Releasing' = Releasing \cup {k} /\ k \notin Releasing
        BY <1>4, <3>1 DEF CancelFuture, Releasing, LaneTypeOK
      <4>4. Cardinality(Pending \ {subject[k]}) = Cardinality(Pending) - 1
        BY <4>1, CountersAreFinite, FS_RemoveElement
      <4>5. Cardinality(Releasing \cup {k}) = Cardinality(Releasing) + 1
        BY <4>3, CountersAreFinite, FS_AddElement
      <4> QED BY <4>2, <4>3, <4>4, <4>5, CountersAreFinite
    <3>2. CASE future[subject[k]] # "new"
      <4>1. Pending' = Pending /\ Releasing' = Releasing
        BY <1>4, <3>2 DEF CancelFuture, Reply, Pending, Releasing, LaneTypeOK
      <4> QED BY <4>1
    <3> QED BY <3>1, <3>2
  <2>3. admitted' = Cardinality(Pending') + Cardinality(Releasing') + Leaving'
    BY <1>2, <1>4, <2>2, CounterParts, CountersAreFinite DEF CancelFuture, Leaving
  <2> QED BY <2>1, <2>3 DEF AdmissionIsExact, Pending, Releasing, Leaving
<1>5. CASE RemoveCancelled(k)
  <2>1. subject[k] \in Tasks \ {Disposal}
    BY <1>5, LaneAssumption DEF RemoveCancelled, LaneInv, HeldNeverBegin, Holds, Tasks
  <2>2. LaneTypeOK'
    BY <1>5, <2>1, RemovalKeepsTheRest, LaneAssumption
       DEF RemoveCancelled, Stages, LaneTypeOK, Capacity
  <2>3. Pending' = Pending /\ Releasing' = Releasing /\ admitted' = admitted
    BY <1>5 DEF RemoveCancelled, Pending, Releasing, LaneTypeOK
  <2> QED
    BY <1>2, <2>2, <2>3, CounterParts
       DEF AdmissionIsExact, Pending, Releasing, Leaving
<1>6. CASE ReleaseCancelled(k)
  <2>1. Pending' = Pending /\ admitted' = admitted - 1
    BY <1>6 DEF ReleaseCancelled, Pending
  <2>2. Releasing' = Releasing \ {k} /\ k \in Releasing
    BY <1>6 DEF ReleaseCancelled, Reply, Releasing, LaneTypeOK
  <2>3. Cardinality(Releasing') = Cardinality(Releasing) - 1
        /\ Cardinality(Releasing') \in Nat
    BY <2>2, CountersAreFinite, FS_RemoveElement, FS_CardinalityType
  <2>4. admitted' = Cardinality(Pending') + Cardinality(Releasing') + Leaving'
    BY <1>2, <2>1, <2>3, CounterParts, CountersAreFinite DEF Leaving
  <2>5. admitted' \in 0..Depth
    BY <1>2, <2>1, <2>3, <2>4, CountersAreFinite, LaneAssumption
       DEF Leaving, LaneTypeOK
  <2>6. LaneTypeOK'
    BY <1>1, <1>6, <2>5 DEF ReleaseCancelled, Reply, Replies, Stages, LaneTypeOK
  <2> QED BY <2>4, <2>6 DEF AdmissionIsExact, Pending, Releasing, Leaving
<1> QED BY <1>3, <1>4, <1>5, <1>6 DEF CancelStep

-----------------------------------------------------------------------------
(* The order of the queue.                                                 *)

LEMMA LaneInitQueue == LaneInit => QueueInv
BY LaneAssumption
   DEF LaneInit, QueueInv, QueueIsDistinct, ThreadHasTask, QueuedIsSubmitted,
       DisposalComesLast, Queued, Tasks

(* A task that was submitted before is neither queued nor running. *)
LEMMA SubmittedOnce ==
    ASSUME LaneInv, QueueInv, NEW t \in Tasks, future[t] = "none"
    PROVE  t \notin Queued /\ running # t
BY LaneAssumption
   DEF LaneInv, CancellerHasSubject, QueueInv, QueuedIsSubmitted, Tasks

(* A task is appended behind the others, or goes to the thread at once. *)
LEMMA ExecuteKeepsQueue ==
    ASSUME LaneTypeOK, LaneInv, QueueInv, NEW t \in Tasks, future[t] = "none",
           Execute(t), future' = [future EXCEPT ![t] = "new"],
           ~retired, retired' = (t = Disposal), UNCHANGED <<stage, subject>>
    PROVE  QueueInv'
PROOF
  <1>1. /\ DOMAIN future = Tasks /\ queue \in Seq(Tasks) /\ Disposal \in Tasks
        /\ None \notin Tasks /\ \A u \in Tasks \ {t} : future'[u] = future[u]
        /\ future'[t] = "new"
    BY LaneAssumption DEF LaneTypeOK, Tasks
  <1>2. t \notin Queued /\ running # t /\ Queued \subseteq Tasks
    BY <1>1, SubmittedOnce DEF Queued
  <1>3. future[Disposal] = "none" /\ Disposal \notin Queued /\ running # Disposal
    BY <1>1, SubmittedOnce DEF QueueInv, DisposalComesLast
  <1>4. CASE thread = "unstarted"
    <2>1. queue = <<>> /\ queue' = <<>> /\ thread' = "taken" /\ running' = t
      BY <1>4 DEF Execute, QueueInv, QueueIsDistinct
    <2>2. Queued' = {}
      BY <2>1 DEF Queued
    <2> QED
      BY <1>1, <1>3, <2>1, <2>2
         DEF QueueInv, QueueIsDistinct, ThreadHasTask, QueuedIsSubmitted,
             DisposalComesLast
  <1>5. CASE thread # "unstarted"
    <2>1. queue' = Append(queue, t) /\ UNCHANGED <<thread, running>>
      BY <1>5 DEF Execute
    <2>2. /\ Len(queue) \in Nat /\ Len(queue') = Len(queue) + 1
          /\ DOMAIN queue = 1..Len(queue) /\ DOMAIN queue' = 1..Len(queue) + 1
          /\ \A i \in DOMAIN queue : queue'[i] = queue[i]
          /\ queue'[Len(queue) + 1] = t
      BY <1>1, <2>1
    <2>3. Queued' = Queued \cup {t}
      BY <2>2 DEF Queued
    <2>4. QueueIsDistinct'
      <3>1. \A i, j \in DOMAIN queue' : queue'[i] = queue'[j] => i = j
        BY <1>2, <2>2 DEF QueueInv, QueueIsDistinct, Queued
      <3> QED BY <1>2, <1>5, <2>1, <2>3, <3>1 DEF QueueInv, QueueIsDistinct
    <2>5. ThreadHasTask'
      BY <2>1 DEF QueueInv, ThreadHasTask
    <2>6. QueuedIsSubmitted'
      BY <1>1, <1>2, <2>1, <2>3 DEF QueueInv, QueuedIsSubmitted, LaneTypeOK
    <2>7. DisposalComesLast'
      <3>1. \A i \in DOMAIN queue' : queue'[i] = Disposal => i = Len(queue')
        BY <1>3, <2>2 DEF Queued
      <3> QED BY <1>1, <1>3, <2>1, <3>1 DEF DisposalComesLast
    <2> QED BY <2>4, <2>5, <2>6, <2>7 DEF QueueInv
  <1> QED BY <1>4, <1>5

LEMMA SubmissionKeepsQueue ==
    ASSUME LaneTypeOK, LaneInv, QueueInv,
           \/ \E c \in Calls : Submit(c)
           \/ \E t \in Closures : SubmitClosure(t)
           \/ Retire
    PROVE  QueueInv'
PROOF
  <1>1. ASSUME NEW c \in Calls, Submit(c) PROVE QueueInv'
    <2>1. ~retired /\ retired' = (c = Disposal) /\ c \in Tasks
      BY <1>1, LaneAssumption DEF Submit, Refuses, LaneTypeOK, Tasks
    <2> QED BY <1>1, <2>1, ExecuteKeepsQueue DEF Submit, cancels
  <1>2. ASSUME NEW t \in Closures \cup {Disposal}, Ordered(t), ~retired,
               retired' = (t = Disposal)
        PROVE  QueueInv'
    <2>1. CASE Fits
      BY <1>2, <2>1, ExecuteKeepsQueue DEF Ordered, cancels, Tasks
    <2>2. CASE ~Fits
      <3>1. t \notin Queued /\ running # t
        BY <1>2, SubmittedOnce DEF Ordered, Tasks
      <3>2. /\ future' = [future EXCEPT ![t] = "refused"]
            /\ UNCHANGED <<thread, running, queue, stage, subject>>
        BY <1>2, <2>2 DEF Ordered, cancels
      <3>3. /\ \A u \in Tasks \ {t} : future'[u] = future[u]
            /\ future'[t] = "refused" /\ Disposal \in Tasks
            /\ Queued' = Queued /\ Queued \subseteq Tasks
        BY <1>2, <3>2 DEF LaneTypeOK, Tasks, Queued
      <3>4. QueueIsDistinct' /\ ThreadHasTask'
        BY <3>2, <3>3 DEF QueueInv, QueueIsDistinct, ThreadHasTask
      <3>5. QueuedIsSubmitted'
        BY <3>1, <3>2, <3>3 DEF QueueInv, QueuedIsSubmitted, LaneTypeOK
      <3>6. DisposalComesLast'
        BY <1>2, <3>2, <3>3 DEF QueueInv, DisposalComesLast
      <3> QED BY <3>4, <3>5, <3>6 DEF QueueInv
    <2> QED BY <2>1, <2>2
  <1>3. ASSUME NEW t \in Closures, SubmitClosure(t) PROVE QueueInv'
    BY <1>2, <1>3, LaneAssumption DEF SubmitClosure, LaneTypeOK
  <1>4. CASE Retire
    BY <1>2, <1>4 DEF Retire
  <1> QED BY <1>1, <1>3, <1>4

LEMMA ThreadKeepsQueue ==
    ASSUME LaneTypeOK, LaneInv, QueueInv, ThreadStep,
           thread = "working" => future[running] = "new"
    PROVE  QueueInv'
PROOF
  <1>1. CASE Take
    <2>1. queue \in Seq(Tasks) /\ queue # <<>> /\ None \notin Tasks
      BY <1>1, LaneAssumption DEF Take, LaneTypeOK
    <2>2. /\ Len(queue) \in Nat \ {0} /\ Len(queue') = Len(queue) - 1
          /\ DOMAIN queue = 1..Len(queue) /\ DOMAIN queue' = 1..Len(queue) - 1
          /\ \A i \in DOMAIN queue' : queue'[i] = queue[i + 1] /\ i + 1 \in DOMAIN queue
          /\ running' = queue[1] /\ queue[1] \in Tasks
      BY <1>1, <2>1 DEF Take
    <2>3. Queued' \subseteq Queued /\ running' \in Queued /\ running' \notin Queued'
      BY <2>2 DEF Queued, QueueInv, QueueIsDistinct
    <2>4. \A i, j \in DOMAIN queue' : queue'[i] = queue'[j] => i = j
      BY <2>2 DEF QueueInv, QueueIsDistinct
    <2>5. QueueIsDistinct' /\ ThreadHasTask'
      BY <1>1, <2>1, <2>2, <2>3, <2>4 DEF Take, QueueIsDistinct, ThreadHasTask
    <2>6. QueuedIsSubmitted'
      BY <1>1, <2>2, <2>3, LaneAssumption
         DEF Take, cancels, QueueInv, QueuedIsSubmitted, LaneInv,
             CancellerHasSubject, HeldNeverBegin, Holds, Tasks
    <2>7. DisposalComesLast'
      <3>1. \A i \in DOMAIN queue' : queue'[i] = Disposal => i = Len(queue')
        BY <2>2 DEF QueueInv, DisposalComesLast
      <3>2. running' = Disposal => queue' = <<>>
        <4>1. running' = Disposal => Len(queue) = 1
          <5>1. 1 \in DOMAIN queue
            BY <2>2
          <5> QED BY <2>2, <5>1 DEF QueueInv, DisposalComesLast
        <4>2. Tail(queue) \in Seq(Tasks)
          BY <2>1
        <4>3. \A q \in Seq(Tasks) : Len(q) = 0 => q = <<>>
          OBVIOUS
        <4>4. queue' = Tail(queue)
          BY <1>1 DEF Take
        <4> QED BY <2>2, <4>1, <4>2, <4>3, <4>4
      <3> QED BY <1>1, <3>1, <3>2 DEF Take, QueueInv, DisposalComesLast
    <2> QED BY <2>5, <2>6, <2>7 DEF QueueInv
  <1>2. CASE Begin \/ Yield
    BY <1>2, LaneAssumption
       DEF Begin, Yield, Wins, cancels, QueueInv, QueueIsDistinct, ThreadHasTask,
           QueuedIsSubmitted, DisposalComesLast, Queued, LaneTypeOK
  <1>3. CASE Settle
    <2>1. running \in Tasks /\ running \notin Queued
      BY <1>3 DEF Settle, QueueInv, QueueIsDistinct, ThreadHasTask, LaneTypeOK
    <2>2. \A t \in Tasks \ {running} : future'[t] = future[t]
      BY <1>3 DEF Settle, LaneTypeOK
    <2>3. Queued' = Queued /\ Queued \subseteq Tasks
      BY <1>3 DEF Settle, Queued, LaneTypeOK
    <2> QED
      BY <1>3, <2>1, <2>2, <2>3, LaneAssumption
         DEF Settle, cancels, QueueInv, QueueIsDistinct, ThreadHasTask,
             QueuedIsSubmitted, DisposalComesLast, LaneTypeOK, Tasks
  <1>4. CASE Release
    <2>1. Queued' = Queued /\ None \notin Queued
      BY <1>4, LaneAssumption DEF Release, Queued, LaneTypeOK
    <2> QED
      BY <1>4, <2>1, LaneAssumption
         DEF Release, cancels, QueueInv, QueueIsDistinct, ThreadHasTask,
             QueuedIsSubmitted, DisposalComesLast, Tasks
  <1> QED BY <1>1, <1>2, <1>3, <1>4 DEF ThreadStep

LEMMA CancelKeepsQueue ==
    ASSUME LaneTypeOK, LaneInv, QueueInv, NEW k \in Cancellers, CancelStep(k)
    PROVE  QueueInv'
PROOF
  <1> USE DEF QueueInv, QueueIsDistinct, ThreadHasTask, QueuedIsSubmitted,
              DisposalComesLast
  <1>1. CASE BeginCancel(k) \/ Claim(k) \/ ReleaseCancelled(k)
    BY <1>1 DEF BeginCancel, Claim, ReleaseCancelled, Reply, Queued, LaneTypeOK
  <1>2. CASE CancelFuture(k)
    <2>1. subject[k] \in Calls
      BY <1>2 DEF CancelFuture, LaneInv, HeldNeverBegin, Holds
    <2> QED
      BY <1>2, <2>1, LaneAssumption
         DEF CancelFuture, Reply, Queued, LaneTypeOK, Tasks
  <1>3. CASE RemoveCancelled(k)
    <2>1. subject[k] \in Tasks \ {Disposal}
      BY <1>3, LaneAssumption
         DEF RemoveCancelled, LaneInv, HeldNeverBegin, Holds, Tasks
    <2>2. queue \in Seq(Tasks) /\ queue' = Removed(subject[k])
      BY <1>3 DEF RemoveCancelled, LaneTypeOK
    <2>3. /\ Queued' \subseteq Queued \ {subject[k]}
          /\ \A i, j \in DOMAIN queue' : queue'[i] = queue'[j] => i = j
          /\ \A i \in DOMAIN queue' : queue'[i] = Disposal => i = Len(queue')
          /\ queue = <<>> => queue' = <<>>
      <3>1. /\ {queue'[i] : i \in DOMAIN queue'} \subseteq Queued
            /\ \A i, j \in DOMAIN queue' :
                  queue'[i] # subject[k] /\ (queue'[i] = queue'[j] => i = j)
            /\ \A i \in DOMAIN queue' : queue'[i] = Disposal => i = Len(queue')
            /\ queue = <<>> => queue' = <<>>
        BY <2>1, <2>2, RemovalKeepsTheRest
      <3> QED BY <3>1 DEF Queued
    <2>4. \A m \in Cancellers : stage[m] = "removing" /\ subject[m] # subject[k] =>
              stage'[m] = "removing" /\ subject'[m] = subject[m]
      BY <1>3 DEF RemoveCancelled, LaneTypeOK
    <2>5. UNCHANGED <<future, thread, running, retired>>
      BY <1>3 DEF RemoveCancelled
    <2>6. QueueIsDistinct' /\ ThreadHasTask'
      BY <2>3, <2>5
    <2>7. QueuedIsSubmitted'
      <3>1. ASSUME NEW t \in Queued'
            PROVE  \/ future'[t] = "new"
                   \/ \E m \in Cancellers : stage'[m] = "removing" /\ subject'[m] = t
        <4>1. t \in Queued /\ t # subject[k]
          BY <2>3, <3>1
        <4> QED BY <2>4, <2>5, <4>1
      <3> QED BY <2>5, <3>1
    <2>8. DisposalComesLast'
      BY <2>3, <2>5
    <2> QED BY <2>6, <2>7, <2>8
  <1> QED BY <1>1, <1>2, <1>3 DEF CancelStep

LEMMA LaneStepKeepsOrder ==
    ASSUME LaneBounds, LaneInv, QueueInv, [LaneNext]_laneVars,
           thread = "working" => future[running] = "new"
    PROVE  (LaneBounds /\ QueueInv)'
PROOF
  <1> USE DEF LaneBounds
  <1>1. CASE \E c \in Calls : Submit(c)
    BY <1>1, SubmitKeepsBounds, SubmissionKeepsQueue
  <1>2. CASE (\E t \in Closures : SubmitClosure(t)) \/ Retire
    <2>1. PICK t \in Tasks \ Calls : Ordered(t) /\ retired' \in BOOLEAN
      BY <1>2, LaneAssumption DEF SubmitClosure, Retire, LaneTypeOK, Tasks
    <2> QED BY <1>2, <2>1, OrderedKeepsBounds, SubmissionKeepsQueue
  <1>3. CASE ThreadStep
    BY <1>3, ThreadKeepsBounds, ThreadKeepsQueue
  <1>4. CASE \E k \in Cancellers : CancelStep(k)
    BY <1>4, CancelKeepsBounds, CancelKeepsQueue
  <1>5. CASE UNCHANGED laneVars
    BY <1>5
       DEF laneVars, cancels, LaneTypeOK, AdmissionIsExact, QueueInv, Queued,
           QueueIsDistinct, ThreadHasTask, QueuedIsSubmitted, DisposalComesLast
  <1> QED BY <1>1, <1>2, <1>3, <1>4, <1>5 DEF LaneNext

-----------------------------------------------------------------------------
(* Room for the closures.                                                  *)

(* The sessions whose closure is queued. *)
Leavers == {s \in native : ordered[s] \in Queued \cap Closures}

(* Calls fill at most their slots, and each closure stands for a session. *)
LEMMA QueueIsShort ==
    ASSUME LaneBounds, LaneInv, QueueInv, DisposalInv, ~retired
    PROVE  /\ IsFiniteSet(Leavers) /\ Cardinality(Leavers) \in Nat
           /\ Len(queue) <= Depth + Cardinality(Leavers)
PROOF
  <1>1. queue \in Seq(Tasks) /\ Len(queue) \in Nat /\ DOMAIN queue = 1..Len(queue)
    BY DEF LaneBounds, LaneTypeOK
  <1>2. Queued \subseteq Tasks /\ Disposal \notin Queued
    <2>1. Disposal \in Tasks /\ future[Disposal] = "none"
      BY DEF Tasks, QueueInv, DisposalComesLast
    <2> QED BY <1>1, <2>1, SubmittedOnce DEF Queued
  <1> DEFINE QC == Queued \cap Calls
             QX == Queued \cap Closures
  <1>3. /\ IsFiniteSet(Leavers) /\ Cardinality(Leavers) \in Nat
        /\ IsFiniteSet(QX) /\ Cardinality(QX) <= Cardinality(Leavers)
    <2>1. Leavers \in SUBSET Calls
      BY DEF Leavers, DisposalInv, TableIsBounded
    <2>2. IsFiniteSet(Leavers) /\ Cardinality(Leavers) \in Nat
      BY <2>1, LaneAssumption, FS_Subset, FS_CardinalityType
    <2> DEFINE f == [s \in Leavers |-> ordered[s]]
    <2>3. ASSUME NEW t \in QX PROVE \E s \in Leavers : f[s] = t
      <3>1. future[t] # "none"
        BY <1>2, SubmittedOnce DEF Tasks
      <3>2. PICK s \in Calls : ordered[s] = t
        BY <3>1 DEF DisposalInv, ClosureRetiresOne
      <3>3. s \in native
        BY <3>2 DEF DisposalInv, AwaitedIsNative, Awaits
      <3> QED BY <3>2, <3>3 DEF Leavers
    <2>4. f \in Surjection(Leavers, QX)
      BY <2>3 DEF Surjection, Leavers
    <2> QED BY <2>2, <2>4, FS_Surjection
  <1>4. IsFiniteSet(QC) /\ Cardinality(QC) <= Depth
    <2> DEFINE g == [k \in Releasing |-> subject[k]]
               R == {subject[k] : k \in Releasing}
    <2>1. g \in Surjection(Releasing, R)
      BY DEF Surjection
    <2>2. IsFiniteSet(R) /\ Cardinality(R) <= Cardinality(Releasing)
      BY <2>1, CountersAreFinite, FS_Surjection
    <2>3. QC \in SUBSET (Pending \cup R)
      BY DEF QueueInv, QueuedIsSubmitted, Pending, Releasing
    <2>4. /\ IsFiniteSet(Pending \cup R)
          /\ Cardinality(Pending \cup R)
                = Cardinality(Pending) + Cardinality(R) - Cardinality(Pending \cap R)
      BY <2>2, CountersAreFinite, FS_Union
    <2>5. IsFiniteSet(QC) /\ Cardinality(QC) <= Cardinality(Pending \cup R)
      BY <2>3, <2>4, FS_Subset
    <2>6. Cardinality(Pending \cap R) \in Nat /\ Cardinality(R) \in Nat
          /\ Cardinality(QC) \in Nat
      <3>1. Pending \cap R \in SUBSET Pending
        OBVIOUS
      <3> QED BY <2>2, <2>5, <3>1, CountersAreFinite, FS_Subset, FS_CardinalityType
    <2>7. Cardinality(Pending) + Cardinality(Releasing) <= Depth
      BY CounterParts, CountersAreFinite, LaneAssumption
         DEF LaneBounds, LaneTypeOK, Leaving
    <2> QED
      BY <2>2, <2>4, <2>5, <2>6, <2>7, CountersAreFinite, LaneAssumption
  <1>5. Queued = QC \cup QX
    BY <1>2 DEF Tasks
  <1>6. IsFiniteSet(Queued) /\ Cardinality(Queued) <= Depth + Cardinality(Leavers)
    <2>1. /\ IsFiniteSet(QC \cup QX)
          /\ Cardinality(QC \cup QX)
                = Cardinality(QC) + Cardinality(QX) - Cardinality(QC \cap QX)
      BY <1>3, <1>4, FS_Union
    <2>2. QC \cap QX = {}
      BY LaneAssumption
    <2>3. Cardinality(QC) \in Nat /\ Cardinality(QX) \in Nat
      BY <1>3, <1>4, FS_CardinalityType
    <2>4. Cardinality(QC \cap QX) = 0
      BY <2>2, FS_EmptySet
    <2> HIDE DEF QC, QX
    <2> QED BY <1>3, <1>4, <1>5, <2>1, <2>3, <2>4, LaneAssumption
  <1>7. Len(queue) <= Cardinality(Queued)
    <2>1. queue \in Injection(1..Len(queue), Queued)
      <3>1. queue \in [1..Len(queue) -> Queued]
        BY <1>1 DEF Queued
      <3> QED BY <1>1, <3>1 DEF Injection, IsInjective, QueueInv, QueueIsDistinct
    <2>2. Cardinality(1..Len(queue)) <= Cardinality(Queued)
      BY <1>6, <2>1, FS_Injection
    <2>3. Cardinality(1..Len(queue)) = Len(queue)
      BY <1>1, FS_Interval
    <2> QED BY <2>2, <2>3
  <1>8. Cardinality(Queued) \in Nat
    BY <1>6, FS_CardinalityType
  <1> QED BY <1>1, <1>3, <1>6, <1>7, <1>8, LaneAssumption

(* There is room for the closure of a session that is still native and has
   none, and for the disposal.                                             *)
LEMMA RoomForClosure ==
    ASSUME LaneBounds, LaneInv, QueueInv, DisposalInv, ~retired,
           NEW s \in native, ordered[s] = None
    PROVE  Len(queue) < Capacity
PROOF
  <1>1. IsFiniteSet(native) /\ Cardinality(native) <= MaxSessions
    BY LaneAssumption, FS_Subset DEF DisposalInv, TableIsBounded
  <1>2. IsFiniteSet(native \ {s}) /\ Cardinality(native \ {s}) = Cardinality(native) - 1
    BY <1>1, FS_RemoveElement
  <1>3. Leavers \in SUBSET (native \ {s})
    BY LaneAssumption DEF Leavers, Tasks
  <1>4. Cardinality(Leavers) <= Cardinality(native \ {s})
    BY <1>2, <1>3, FS_Subset
  <1>5. Cardinality(native) \in Nat
    BY <1>1, FS_CardinalityType
  <1> QED BY <1>1, <1>2, <1>4, <1>5, QueueIsShort, LaneAssumption
          DEF Capacity, LaneBounds, LaneTypeOK

LEMMA RoomForDisposal ==
    ASSUME LaneBounds, LaneInv, QueueInv, DisposalInv, ~retired
    PROVE  Len(queue) < Capacity
PROOF
  <1>1. IsFiniteSet(native) /\ Cardinality(native) <= MaxSessions
    BY LaneAssumption, FS_Subset DEF DisposalInv, TableIsBounded
  <1>2. Leavers \in SUBSET native
    BY DEF Leavers
  <1>3. Cardinality(Leavers) <= Cardinality(native) /\ Cardinality(native) \in Nat
    BY <1>1, <1>2, FS_Subset, FS_CardinalityType
  <1> QED BY <1>1, <1>3, QueueIsShort, LaneAssumption
          DEF Capacity, LaneBounds, LaneTypeOK

-----------------------------------------------------------------------------
(* The host's types.                                                       *)

HostTypes ==
    /\ live \in BOOLEAN /\ closing \in BOOLEAN
    /\ sessions \subseteq Calls /\ open \subseteq Calls
    /\ ordered \in [Calls -> Closures \cup {None, Disposal}]
    /\ outcome \in [Calls -> Outcomes \cup {None}]
    /\ held \subseteq Calls
    /\ report \in [Calls -> Outcomes \cup {None}]
    /\ native \subseteq Calls
    /\ reads \in [Calls -> Calls \cup {None}]
    /\ caller \in [Calls -> {"idle", "checked", "returned"}]
    /\ step \in {"entering", "opened", "read", "delivering", "closed", "leaving"}
    /\ told \subseteq Calls

LEMMA TypeParts == TypeOK <=> LaneTypeOK /\ HostTypes
BY DEF TypeOK, HostTypes

LEMMA HostTypesInit == Init => HostTypes
BY DEF Init, HostTypes

LEMMA HostTypesNext == HostTypes /\ [Next]_vars => HostTypes'
<1> SUFFICES ASSUME HostTypes, [Next]_vars PROVE HostTypes'
  OBVIOUS
<1> USE DEF HostTypes
<1>1. ASSUME NEW c \in Calls, CheckOpen(c) \/ CheckRead(c) \/ Enter(c) PROVE HostTypes'
  BY <1>1 DEF CheckOpen, CheckRead, Enter
<1>2. ASSUME NEW s \in Calls, RetireSession(s) PROVE HostTypes'
  BY <1>2 DEF RetireSession, MarkRetired
<1>3. CASE Close \/ CloseOrders
  BY <1>3 DEF Close, CloseOrders, MarkRetired
<1>4. CASE LaneStep
  BY <1>4 DEF LaneStep, hostVars
<1>5. ASSUME NEW c \in Calls,
             \/ NativeOpen(c) \/ Register(c) \/ Discard(c)
             \/ NativeRead(c) \/ CheckDelivery(c) \/ Deliver(c)
      PROVE  HostTypes'
  BY <1>5 DEF NativeOpen, Register, Discard, NativeClose, NativeRead, CheckDelivery, Deliver
<1>6. ASSUME NEW s \in Calls, Account(s) \/ Forget(s) PROVE HostTypes'
  BY <1>6 DEF Account, Forget, NativeClose, NativeOutcome, Outcomes
<1>7. CASE Dispose
  <2>1. report' \in [Calls -> Outcomes \cup {None}]
    BY <1>7 DEF Dispose, NativeOutcome, Outcomes
  <2> QED BY <1>7, <2>1 DEF Dispose, NativeClose
<1>8. CASE (\E k \in Cancellers : CancelStep(k) /\ UNCHANGED hostVars) \/ UNCHANGED vars
  BY <1>8 DEF vars, hostVars
<1> QED BY <1>1, <1>2, <1>3, <1>4, <1>5, <1>6, <1>7, <1>8
        DEF Next, CallerStep, InsideStep

-----------------------------------------------------------------------------
(* Disposal.                                                               *)

IInv ==
    /\ LaneInv /\ LaneBounds /\ QueueInv
    /\ HostInv /\ HostTypes /\ DisposalInv /\ ClosuresAlwaysFit

LEMMA DisposalInit == Init => DisposalInv /\ ClosuresAlwaysFit
<1> SUFFICES ASSUME Init PROVE DisposalInv /\ ClosuresAlwaysFit
  OBVIOUS
<1>1. Cardinality(native) <= MaxSessions /\ native = {}
  BY FS_EmptySet, LaneAssumption DEF Init
<1> QED
  BY <1>1, LaneAssumption
     DEF Init, LaneInit, DisposalInv, ClosingInOrder, ClosureRetiresOne,
         AwaitedIsNative, TableIsBounded, AttemptsAreFinal, NativeIsHeld,
         DisposedIsComplete, Disposed, ClosuresAlwaysFit, Tasks

(* The lane's steps that submit nothing leave the host's view alone. *)
LEMMA QuietLaneStep ==
    ASSUME IInv, UNCHANGED <<live, closing, sessions, ordered, outcome, held,
                             report, native, step, retired>>,
           \A t \in Tasks \ Calls : future'[t] = future[t],
           \A t \in Calls : future[t] = "settled" => future'[t] = "settled",
           \A t \in Closures : Awaits(t)' => Awaits(t),
           thread = "working" => UNCHANGED <<thread, running>>
    PROVE  DisposalInv' /\ ClosuresAlwaysFit'
PROOF
  <1>1. Disposal \in Tasks \ Calls /\ Closures \subseteq Tasks \ Calls
    BY LaneAssumption DEF Tasks
  <1>2. Disposed' <=> Disposed
    BY <1>1 DEF Disposed, IInv, HostInv, WorkIsCurrent
  <1> USE DEF IInv, DisposalInv
  <1>3. ClosingInOrder' /\ TableIsBounded' /\ AttemptsAreFinal'
    BY DEF ClosingInOrder, TableIsBounded, AttemptsAreFinal, Final, Retires,
           HostInv, WorkIsCurrent
  <1>4. ClosureRetiresOne' /\ ClosuresAlwaysFit'
    BY <1>1 DEF ClosureRetiresOne, ClosuresAlwaysFit
  <1>5. AwaitedIsNative'
    BY DEF AwaitedIsNative
  <1>6. NativeIsHeld' /\ DisposedIsComplete'
    BY <1>2 DEF NativeIsHeld, DisposedIsComplete, HostTypes, Final, HostInv, WorkIsCurrent
  <1> QED BY <1>3, <1>4, <1>5, <1>6

(* The submission of a call, and what the thread and the cancellers do. *)
LEMMA CallsKeepDisposal ==
    ASSUME IInv, NEW c \in Calls, CheckOpen(c) \/ CheckRead(c) \/ Enter(c)
    PROVE  DisposalInv' /\ ClosuresAlwaysFit'
PROOF
  <1>1. CASE Enter(c) /\ Submit(c)
    <2>1. future' = [future EXCEPT ![c] = "new"] /\ future[c] = "none" /\ Execute(c)
      BY <1>1 DEF Submit
    <2>2. DOMAIN future = Tasks /\ queue \in Seq(Tasks)
      BY DEF IInv, LaneBounds, LaneTypeOK
    <2>3. c \in Tasks \ (Closures \cup {Disposal})
      BY LaneAssumption DEF Tasks
    <2>4. ASSUME NEW t \in Closures, Awaits(t)' PROVE Awaits(t)
      <3>1. t \in Queued' => t \in Queued
        <4>1. CASE queue' = Append(queue, c)
          BY <2>2, <2>3, <4>1 DEF Queued
        <4>2. CASE queue' = queue
          BY <4>2 DEF Queued
        <4> QED BY <2>1, <4>1, <4>2 DEF Execute
      <3>2. running' = t => UNCHANGED <<running, thread>>
        BY <2>1, <2>3 DEF Execute
      <3> QED BY <1>1, <2>4, <3>1, <3>2 DEF Awaits, Enter
    <2>5. thread = "working" => UNCHANGED <<thread, running>>
      BY <2>1 DEF Execute
    <2>6. \A t \in Tasks \ {c} : future'[t] = future[t]
      BY <2>1, <2>2
    <2> QED
      BY <1>1, <2>1, <2>3, <2>4, <2>5, <2>6, QuietLaneStep DEF Enter, Submit
  <1>2. CASE /\ UNCHANGED <<laneVars, live, closing, sessions, ordered, outcome,
                            held, report, native, step>>
    BY <1>2, QuietLaneStep DEF laneVars, Awaits, Queued
  <1> QED BY <1>1, <1>2 DEF CheckOpen, CheckRead, Enter

LEMMA ThreadKeepsDisposal ==
    ASSUME IInv, (Take \/ Begin \/ Yield \/ Release) /\ UNCHANGED hostVars
    PROVE  DisposalInv' /\ ClosuresAlwaysFit'
PROOF
  <1>1. ASSUME NEW t \in Closures, Awaits(t)' PROVE Awaits(t)
    <2>1. CASE Take
      <3>1. queue \in Seq(Tasks) /\ queue # <<>>
        BY <2>1 DEF Take, IInv, LaneBounds, LaneTypeOK
      <3>2. /\ Len(queue) \in Nat \ {0} /\ DOMAIN queue = 1..Len(queue)
            /\ DOMAIN queue' = 1..Len(queue) - 1
            /\ \A i \in DOMAIN queue' : queue'[i] = queue[i + 1] /\ i + 1 \in DOMAIN queue
            /\ running' = queue[1] /\ 1 \in DOMAIN queue
        BY <2>1, <3>1 DEF Take
      <3>3. Queued' \subseteq Queued /\ running' \in Queued
        BY <3>2 DEF Queued
      <3> QED BY <1>1, <3>3 DEF Awaits
    <2>2. CASE Begin
      BY <1>1, <2>2 DEF Begin, Awaits, Queued, hostVars
    <2>3. CASE Yield \/ Release
      BY <1>1, <2>3 DEF Yield, Release, Awaits, Queued, hostVars
    <2> QED BY <2>1, <2>2, <2>3
  <1> QED
    BY <1>1, QuietLaneStep DEF hostVars, Take, Begin, Yield, Release

LEMMA CancelKeepsDisposal ==
    ASSUME IInv, NEW k \in Cancellers, CancelStep(k), UNCHANGED hostVars
    PROVE  DisposalInv' /\ ClosuresAlwaysFit'
PROOF
  <1>1. UNCHANGED <<thread, running, retired>>
    BY DEF CancelStep, BeginCancel, Claim, CancelFuture, RemoveCancelled,
           ReleaseCancelled
  <1>2. /\ \A t \in Tasks \ Calls : future'[t] = future[t]
        /\ \A t \in Calls : future[t] = "settled" => future'[t] = "settled"
    <2>1. CASE CancelFuture(k)
      <3>1. subject[k] \in Calls
        BY <2>1 DEF CancelFuture, IInv, LaneInv, HeldNeverBegin, Holds
      <3>2. CASE future[subject[k]] = "new"
        BY <2>1, <3>1, <3>2 DEF CancelFuture, IInv, LaneBounds, LaneTypeOK, Tasks
      <3>3. CASE future[subject[k]] # "new"
        BY <2>1, <3>3 DEF CancelFuture
      <3> QED BY <3>2, <3>3
    <2>2. CASE ~CancelFuture(k)
      BY <2>2 DEF CancelStep, BeginCancel, Claim, RemoveCancelled, ReleaseCancelled
    <2> QED BY <2>1, <2>2
  <1>3. Queued' \subseteq Queued
    <2>1. CASE RemoveCancelled(k)
      <3>1. subject[k] \in Tasks \ {Disposal}
        BY <2>1, LaneAssumption
           DEF RemoveCancelled, IInv, LaneInv, HeldNeverBegin, Holds, Tasks
      <3>2. queue \in Seq(Tasks) /\ queue' = Removed(subject[k])
        BY <2>1 DEF RemoveCancelled, IInv, LaneBounds, LaneTypeOK
      <3>3. {queue'[i] : i \in DOMAIN queue'} \subseteq Queued
        BY <3>1, <3>2, RemovalKeepsTheRest
      <3> QED BY <3>3 DEF Queued
    <2>2. CASE ~RemoveCancelled(k)
      BY <2>2 DEF CancelStep, BeginCancel, Claim, CancelFuture, ReleaseCancelled, Queued
    <2> QED BY <2>1, <2>2
  <1> QED BY <1>1, <1>2, <1>3, QuietLaneStep DEF hostVars, Awaits

(* A task settles when its work is over; a disposal that settles has run. *)
LEMMA SettleKeepsDisposal ==
    ASSUME IInv, Settle, thread = "working" => step = "leaving", step' = "entering",
           UNCHANGED <<live, closing, sessions, open, ordered, outcome, held,
                       report, native>>
    PROVE  DisposalInv' /\ ClosuresAlwaysFit'
PROOF
  <1> USE DEF IInv, DisposalInv
  <1>1. running \in Tasks /\ DOMAIN future = Tasks
    BY DEF Settle, QueueInv, ThreadHasTask, LaneBounds, LaneTypeOK
  <1>2. /\ \A t \in Tasks \ {running} : future'[t] = future[t]
        /\ future'[running] = IF future[running] = "new" THEN "settled" ELSE future[running]
        /\ thread' \in {"releasing", "waiting"} /\ UNCHANGED <<queue, retired>>
    BY <1>1 DEF Settle
  <1>3. thread = "working" => future[running] = "new"
    BY <1>1 DEF HostInv, WorkIsCurrent
  <1>4. thread = "abandoning" => running \in Calls
    BY DEF QueueInv, QueuedIsSubmitted
  <1>5. Disposed' <=> Disposed
    <2>1. Disposal \in Tasks \ Calls
      BY LaneAssumption DEF Tasks
    <2> QED
      BY <1>1, <1>2, <1>3, <1>4, <2>1 DEF Disposed, Settle, HostInv, WorkIsCurrent
  <1>6. ClosingInOrder' /\ TableIsBounded' /\ AttemptsAreFinal'
    BY <1>2 DEF ClosingInOrder, TableIsBounded, AttemptsAreFinal, Final, Retires
  <1>7. ClosureRetiresOne' /\ ClosuresAlwaysFit'
    BY <1>2 DEF ClosureRetiresOne, ClosuresAlwaysFit, Tasks
  <1>8. AwaitedIsNative'
    BY <1>2 DEF AwaitedIsNative, Awaits, Queued
  <1>9. NativeIsHeld'
    BY <1>2, <1>3, <1>5 DEF NativeIsHeld, HostTypes, HostInv, WorkIsCurrent, Tasks, Settle
  <1>10. DisposedIsComplete'
    BY <1>5 DEF DisposedIsComplete, Final
  <1> QED BY <1>6, <1>7, <1>8, <1>9, <1>10

LEMMA RetireKeepsDisposal ==
    ASSUME IInv, NEW s \in Calls, RetireSession(s)
    PROVE  DisposalInv' /\ ClosuresAlwaysFit'
PROOF
  <1> USE LaneAssumption DEF IInv, DisposalInv
  <1>1. /\ ordered[s] = None /\ outcome[s] = None
        /\ UNCHANGED <<live, closing, sessions, outcome, held, report, native, step>>
    BY DEF RetireSession, First, AttemptsAreFinal, Tasks
  <1>2. CASE /\ ~live /\ UNCHANGED laneVars
             /\ ordered' = [ordered EXCEPT ![s] = Disposal]
    <2>1. UNCHANGED <<future, queue, thread, running, retired>>
      BY <1>2 DEF laneVars
    <2>2. \A r \in Calls : ordered'[r] = IF r = s THEN Disposal ELSE ordered[r]
      BY <1>2 DEF HostTypes
    <2> QED
      BY <1>1, <2>1, <2>2
         DEF ClosingInOrder, ClosureRetiresOne, AwaitedIsNative, Awaits, Queued,
             TableIsBounded, AttemptsAreFinal, Retires, Final, NativeIsHeld, Disposed,
             DisposedIsComplete, ClosuresAlwaysFit, Tasks
  <1>3. ASSUME live, NEW t \in Closures, SubmitClosure(t),
               ordered' = [ordered EXCEPT ![s] = t]
        PROVE  DisposalInv' /\ ClosuresAlwaysFit'
    <2>1. s \in native /\ ~retired /\ Ordered(t) /\ UNCHANGED retired
      BY <1>1, <1>3
         DEF RetireSession, Delivered, Registered, SubmitClosure, ClosingInOrder,
             HostInv, OpenIsNative
    <2>2. Fits
      BY <1>1, <2>1, RoomForClosure DEF Fits
    <2>3. /\ future' = [future EXCEPT ![t] = "new"] /\ Execute(t)
          /\ future[t] = "none" /\ t \in Tasks \ Calls /\ DOMAIN future = Tasks
      BY <2>1, <2>2 DEF Ordered, LaneBounds, LaneTypeOK, Tasks
    <2>4. \A r \in Calls : ordered'[r] = IF r = s THEN t ELSE ordered[r]
      BY <1>3 DEF HostTypes
    <2>5. \A u \in Tasks : future'[u] = IF u = t THEN "new" ELSE future[u]
      BY <2>3
    <2>6. /\ Queued' \subseteq Queued \cup {t}
          /\ running' \in {running, t}
          /\ running' = running => UNCHANGED thread
          /\ thread = "working" => UNCHANGED <<running, thread>>
          /\ thread' = "working" => UNCHANGED <<running, thread>>
      <3>1. CASE queue' = Append(queue, t) /\ UNCHANGED <<thread, running>>
        <4>1. queue \in Seq(Tasks)
          BY DEF LaneBounds, LaneTypeOK
        <4>2. Queued' \subseteq Queued \cup {t}
          BY <2>3, <3>1, <4>1 DEF Queued
        <4> QED BY <3>1, <4>2
      <3>2. CASE thread = "unstarted" /\ thread' = "taken" /\ running' = t /\ queue' = queue
        BY <2>3, <3>2 DEF Queued, QueueInv, ThreadHasTask
      <3> QED BY <2>3, <3>1, <3>2 DEF Execute
    <2>7. t \notin Queued /\ running # t
      BY <2>3, SubmittedOnce
    <2>8. Disposed' <=> Disposed
      BY <1>1, <2>3, <2>5, <2>6 DEF Disposed, Tasks, HostInv, WorkIsCurrent
    <2>9. ClosingInOrder' /\ TableIsBounded'
      BY <1>1, <2>1 DEF ClosingInOrder, TableIsBounded
    <2>10. ClosureRetiresOne' /\ ClosuresAlwaysFit'
      BY <1>1, <2>3, <2>4, <2>5 DEF ClosureRetiresOne, ClosuresAlwaysFit, Tasks
    <2>11. AwaitedIsNative'
      BY <1>1, <2>1, <2>3, <2>4, <2>6, <2>7
         DEF AwaitedIsNative, Awaits, ClosureRetiresOne, QueueInv, ThreadHasTask
    <2>12. AttemptsAreFinal'
      BY <1>1, <2>3, <2>4, <2>6, <2>7
         DEF AttemptsAreFinal, Retires, Final, HostInv, WorkIsCurrent
    <2>13. NativeIsHeld' /\ DisposedIsComplete'
      BY <1>1, <2>3, <2>5, <2>6, <2>8
         DEF NativeIsHeld, DisposedIsComplete, Final, HostTypes, Tasks,
             HostInv, WorkIsCurrent
    <2> QED BY <2>9, <2>10, <2>11, <2>12, <2>13
  <1> QED BY <1>2, <1>3 DEF RetireSession

LEMMA ClosingKeepsDisposal ==
    ASSUME IInv, Close \/ CloseOrders
    PROVE  DisposalInv' /\ ClosuresAlwaysFit'
PROOF
  <1> USE LaneAssumption DEF IInv, DisposalInv
  <1>1. CASE Close
    BY <1>1
       DEF Close, laneVars, ClosingInOrder, ClosureRetiresOne, AwaitedIsNative, Awaits,
           Queued, TableIsBounded, AttemptsAreFinal, Retires, Final, NativeIsHeld,
           Disposed, DisposedIsComplete, ClosuresAlwaysFit
  <1>2. CASE CloseOrders
    <2>1. /\ ~retired /\ retired' = TRUE /\ Ordered(Disposal)
          /\ held' = sessions /\ sessions' = {} /\ held = {}
          /\ closing' = FALSE /\ ~live /\ live' = live
          /\ UNCHANGED <<ordered, outcome, report, native, step>>
      BY <1>2 DEF CloseOrders, Retire, ClosingInOrder, HostInv, DisposalIsLast
    <2>2. Fits
      BY <2>1, RoomForDisposal DEF Fits
    <2>3. /\ future' = [future EXCEPT ![Disposal] = "new"] /\ Execute(Disposal)
          /\ future[Disposal] = "none" /\ DOMAIN future = Tasks
          /\ Disposal \in Tasks \ Calls
      BY <2>1, <2>2 DEF Ordered, LaneBounds, LaneTypeOK, Tasks
    <2>4. \A u \in Tasks : future'[u] = IF u = Disposal THEN "new" ELSE future[u]
      BY <2>3
    <2>5. /\ Queued' \subseteq Queued \cup {Disposal}
          /\ running' \in {running, Disposal}
          /\ running' = running => UNCHANGED thread
          /\ thread = "working" => UNCHANGED <<running, thread>>
          /\ thread' = "working" => UNCHANGED <<running, thread>>
      <3>1. CASE queue' = Append(queue, Disposal) /\ UNCHANGED <<thread, running>>
        <4>1. queue \in Seq(Tasks)
          BY DEF LaneBounds, LaneTypeOK
        <4>2. Queued' \subseteq Queued \cup {Disposal}
          BY <2>3, <3>1, <4>1 DEF Queued
        <4> QED BY <3>1, <4>2
      <3>2. CASE /\ thread = "unstarted" /\ thread' = "taken"
                 /\ running' = Disposal /\ queue' = queue
        BY <2>3, <3>2 DEF Queued, QueueInv, ThreadHasTask
      <3> QED BY <2>3, <3>1, <3>2 DEF Execute
    <2>6. running # Disposal
      BY <2>3, SubmittedOnce
    <2>7. ~Disposed /\ ~Disposed'
      BY <2>3, <2>4, <2>5, <2>6 DEF Disposed
    <2>8. ClosingInOrder' /\ TableIsBounded'
      BY <2>1 DEF ClosingInOrder, TableIsBounded
    <2>9. ClosureRetiresOne' /\ ClosuresAlwaysFit'
      BY <2>1, <2>3, <2>4 DEF ClosureRetiresOne, ClosuresAlwaysFit, Tasks
    <2>10. AwaitedIsNative' /\ AttemptsAreFinal'
      BY <2>1, <2>5
         DEF AwaitedIsNative, Awaits, AttemptsAreFinal, Retires, Final
    <2>11. NativeIsHeld' /\ DisposedIsComplete'
      BY <2>1, <2>3, <2>4, <2>5, <2>7
         DEF NativeIsHeld, DisposedIsComplete, HostTypes, Tasks, HostInv, WorkIsCurrent
    <2> QED BY <2>8, <2>9, <2>10, <2>11
  <1> QED BY <1>1, <1>2

(* While a call's task runs, disposal has not. *)
LEMMA CallRunsBeforeDisposal ==
    ASSUME IInv, thread = "working", running \in Calls \cup Closures
    PROVE  ~Disposed /\ future[running] = "new"
BY LaneAssumption
   DEF IInv, QueueInv, DisposalComesLast, HostInv, WorkIsCurrent, Disposed, Tasks

LEMMA OpeningKeepsDisposal ==
    ASSUME IInv, NEW c \in Calls,
           \/ NativeOpen(c) \/ Register(c) \/ Discard(c)
           \/ NativeRead(c) \/ CheckDelivery(c) \/ Deliver(c)
    PROVE  DisposalInv' /\ ClosuresAlwaysFit'
PROOF
  <1> USE LaneAssumption DEF IInv, DisposalInv
  <1>1. /\ thread = "working" /\ running = c
        /\ UNCHANGED <<future, queue, thread, running, retired, live, closing,
                       ordered, outcome, held, report>>
    BY DEF NativeOpen, Register, Discard, NativeRead, CheckDelivery, Deliver,
           Opens, Reads, Working, laneVars
  <1>2. ~Disposed /\ ~Disposed' /\ future[c] = "new" /\ c \notin Closures /\ c # Disposal
    BY <1>1, CallRunsBeforeDisposal DEF Disposed
  <1>3. ordered[c] = None /\ outcome[c] = None
    BY <1>2 DEF HostInv, RetiredIsClosed, AttemptsAreFinal, Tasks
  <1>4. ClosureRetiresOne' /\ ClosuresAlwaysFit' /\ DisposedIsComplete'
    BY <1>1, <1>2 DEF ClosureRetiresOne, ClosuresAlwaysFit, DisposedIsComplete
  <1>5. \A s \in Calls : ordered[s] \in Closures /\ Awaits(ordered[s])' => Awaits(ordered[s])
    BY <1>1, <1>2 DEF Awaits, Queued
  <1>6. CASE NativeOpen(c)
    <2>1. native' = native \cup {c} \/ native' = native
      BY <1>6 DEF NativeOpen
    <2>2. TableIsBounded'
      <3>1. CASE native' = native
        BY <3>1 DEF TableIsBounded
      <3>2. CASE native' = native \cup {c} /\ Cardinality(native) < MaxSessions
        <4>1. IsFiniteSet(native) /\ Cardinality(native) \in Nat
          BY FS_Subset, FS_CardinalityType DEF TableIsBounded
        <4>2. /\ IsFiniteSet(native \cup {c})
              /\ Cardinality(native \cup {c}) =
                    IF c \in native THEN Cardinality(native) ELSE Cardinality(native) + 1
          BY <4>1, FS_AddElement
        <4> QED BY <3>2, <4>1, <4>2 DEF TableIsBounded
      <3> QED BY <1>6, <3>1, <3>2 DEF NativeOpen
    <2>3. ClosingInOrder' /\ AwaitedIsNative' /\ AttemptsAreFinal' /\ NativeIsHeld'
      BY <1>1, <1>2, <1>3, <1>5, <1>6, <2>1
         DEF NativeOpen, Working, ClosingInOrder, AwaitedIsNative, AttemptsAreFinal,
             Retires, Final, NativeIsHeld, HostTypes
    <2> QED BY <1>4, <2>2, <2>3
  <1>7. CASE Register(c)
    <2>1. c \in native
      BY <1>1, <1>7 DEF Register, Working, HostInv, OpenIsNative
    <2> QED
      BY <1>1, <1>2, <1>3, <1>4, <1>5, <1>7, <2>1
         DEF Register, Registers, Working, ClosingInOrder, AwaitedIsNative,
             AttemptsAreFinal, Retires, Final, NativeIsHeld, TableIsBounded, HostTypes
  <1>8. CASE Discard(c)
    <2>1. native' = native \ ({c} \ Stubborn) /\ UNCHANGED sessions /\ step = "opened"
          /\ step' = "leaving"
      BY <1>8 DEF Discard, NativeClose, Working
    <2>2. c \notin sessions \cup held
      BY <1>1, <1>2, <2>1 DEF NativeIsHeld
    <2>3. TableIsBounded'
      <3>1. native' \in SUBSET native /\ IsFiniteSet(native)
        BY <2>1, FS_Subset DEF TableIsBounded
      <3>2. Cardinality(native') <= Cardinality(native) /\ Cardinality(native') \in Nat
            /\ Cardinality(native) \in Nat
        BY <3>1, FS_Subset, FS_CardinalityType
      <3> QED BY <3>1, <3>2 DEF TableIsBounded
    <2>4. ClosingInOrder' /\ AwaitedIsNative' /\ AttemptsAreFinal'
      BY <1>1, <1>2, <1>3, <1>5, <2>1
         DEF ClosingInOrder, AwaitedIsNative, AttemptsAreFinal, Retires, Final, Tasks
    <2>5. NativeIsHeld'
      BY <1>1, <1>2, <2>1, <2>2 DEF NativeIsHeld, HostTypes
    <2> QED BY <1>4, <2>3, <2>4, <2>5
  <1>9. CASE NativeRead(c) \/ CheckDelivery(c) \/ Deliver(c)
    <2>1. /\ UNCHANGED <<sessions, native>>
          /\ step \in {"entering", "read", "delivering"}
          /\ step' \in {"read", "delivering", "leaving"}
      BY <1>9 DEF NativeRead, CheckDelivery, Deliver, Working
    <2> QED
      BY <1>1, <1>2, <1>3, <1>4, <1>5, <2>1
         DEF ClosingInOrder, AwaitedIsNative, AttemptsAreFinal, Retires, Final,
             NativeIsHeld, TableIsBounded, HostTypes
  <1> QED BY <1>6, <1>7, <1>8, <1>9

LEMMA ClosureKeepsDisposal ==
    ASSUME IInv, NEW s \in Calls, Account(s) \/ Forget(s)
    PROVE  DisposalInv' /\ ClosuresAlwaysFit'
PROOF
  <1> USE LaneAssumption DEF IInv, DisposalInv
  <1>1. /\ thread = "working" /\ running \in Closures /\ ordered[s] = running
        /\ UNCHANGED <<future, queue, thread, running, retired, live, closing,
                       ordered, held, report>>
    BY DEF Account, Forget, Retires, Working, laneVars
  <1>2. ~Disposed /\ ~Disposed' /\ running \notin Calls
    BY <1>1, CallRunsBeforeDisposal DEF Disposed
  <1>3. ClosureRetiresOne' /\ ClosuresAlwaysFit' /\ DisposedIsComplete'
    BY <1>1, <1>2 DEF ClosureRetiresOne, ClosuresAlwaysFit, DisposedIsComplete
  <1>4. \A r \in Calls \ {s} : ordered[r] # running
    BY <1>1 DEF ClosureRetiresOne
  <1>5. CASE Account(s)
    <2>1. /\ s \in native /\ outcome[s] = None /\ step = "entering" /\ step' # "entering"
          /\ native' = native \ ({s} \ Stubborn) /\ UNCHANGED sessions
          /\ \A r \in Calls : outcome'[r] = IF r = s THEN Final(s) ELSE outcome[r]
      BY <1>1, <1>5
         DEF Account, Working, NativeClose, NativeOutcome, Final, AwaitedIsNative,
             Awaits, HostTypes
    <2>2. TableIsBounded'
      <3>1. native' \in SUBSET native /\ IsFiniteSet(native)
        BY <2>1, FS_Subset DEF TableIsBounded
      <3>2. Cardinality(native') <= Cardinality(native) /\ Cardinality(native') \in Nat
            /\ Cardinality(native) \in Nat
        BY <3>1, FS_Subset, FS_CardinalityType
      <3> QED BY <3>1, <3>2 DEF TableIsBounded
    <2>3. ClosingInOrder' /\ NativeIsHeld'
      <3>1. Final(s) # None
        BY HostAssumption DEF Final, Outcomes
      <3>2. \A r \in sessions \cup held : outcome'[r] = None => r # s /\ outcome[r] = None
        BY <2>1, <3>1 DEF HostTypes
      <3>3. NativeIsHeld'
        BY <1>1, <1>2, <2>1, <3>2 DEF NativeIsHeld, HostTypes
      <3> QED BY <1>1, <2>1, <3>3 DEF ClosingInOrder
    <2>4. AwaitedIsNative'
      BY <1>1, <1>4, <2>1
         DEF AwaitedIsNative, Awaits, Queued, QueueInv, QueueIsDistinct
    <2>5. AttemptsAreFinal'
      BY <1>1, <1>4, <2>1, HostAssumption DEF AttemptsAreFinal, Retires, Final, Outcomes
    <2> QED BY <1>3, <2>2, <2>3, <2>4, <2>5
  <1>6. CASE Forget(s)
    <2>1. /\ UNCHANGED <<native, outcome>> /\ step = "closed" /\ step' = "leaving"
          /\ sessions' = sessions \ {s}
      BY <1>6 DEF Forget, Working
    <2>2. s \notin native \/ s \in Stubborn
      BY <1>1, <2>1 DEF AttemptsAreFinal, Retires
    <2> QED
      BY <1>1, <1>2, <1>3, <2>1, <2>2
         DEF ClosingInOrder, AwaitedIsNative, Awaits, Queued, AttemptsAreFinal, Retires,
             Final, NativeIsHeld, TableIsBounded, HostTypes
  <1> QED BY <1>5, <1>6

(* Disposal finds in the native table what the host has handed to it. *)
LEMMA DisposeKeepsDisposal ==
    ASSUME IInv, Dispose
    PROVE  DisposalInv' /\ ClosuresAlwaysFit'
PROOF
  <1> USE LaneAssumption DEF IInv, DisposalInv
  <1>1. /\ thread = "working" /\ running = Disposal /\ step = "entering"
        /\ step' = "leaving"
        /\ UNCHANGED <<future, queue, thread, running, retired, live, closing,
                       sessions, ordered, outcome, held>>
        /\ native' = native \ (Attempted \ Stubborn)
    BY DEF Dispose, Working, laneVars, NativeClose
  <1>2. queue = <<>> /\ retired /\ sessions = {} /\ future[Disposal] = "new"
    BY <1>1 DEF QueueInv, DisposalComesLast, QueuedIsSubmitted, ClosingInOrder,
                HostInv, WorkIsCurrent, Tasks
  <1>3. ~Disposed /\ Disposed'
    BY <1>1, <1>2 DEF Disposed
  <1>4. \A s \in native \ Stubborn : s \in Attempted
    BY <1>1, <1>2 DEF NativeIsHeld, AttemptsAreFinal, Attempted, TableIsBounded
  <1>5. native' \subseteq Stubborn
    BY <1>1, <1>4
  <1>6. \A s \in held : report'[s] = Final(s)
    BY <1>3 DEF Dispose, Attempted, NativeOutcome, Final, NativeIsHeld, AttemptsAreFinal,
                HostTypes
  <1>7. TableIsBounded'
    <2>1. native' \in SUBSET native /\ IsFiniteSet(native)
      BY <1>1, FS_Subset DEF TableIsBounded
    <2>2. Cardinality(native') <= Cardinality(native) /\ Cardinality(native') \in Nat
          /\ Cardinality(native) \in Nat
      BY <2>1, FS_Subset, FS_CardinalityType
    <2> QED BY <2>1, <2>2 DEF TableIsBounded
  <1>8. ClosingInOrder' /\ ClosureRetiresOne' /\ AwaitedIsNative' /\ ClosuresAlwaysFit'
    BY <1>1, <1>2
       DEF ClosingInOrder, ClosureRetiresOne, AwaitedIsNative, Awaits, Queued,
           ClosuresAlwaysFit
  <1>9. AttemptsAreFinal' /\ NativeIsHeld' /\ DisposedIsComplete'
    BY <1>1, <1>2, <1>3, <1>5, <1>6
       DEF AttemptsAreFinal, Retires, Final, NativeIsHeld, DisposedIsComplete
  <1> QED BY <1>7, <1>8, <1>9

-----------------------------------------------------------------------------
LEMMA StepKeepsIInv == IInv /\ [Next]_vars => IInv'
<1> SUFFICES ASSUME IInv, [Next]_vars PROVE IInv'
  OBVIOUS
<1>1. [LaneNext]_laneVars
  BY HostStepIsLaneStep
<1>2. thread = "working" => future[running] = "new"
  BY DEF IInv, QueueInv, ThreadHasTask, LaneBounds, LaneTypeOK, HostInv, WorkIsCurrent
<1>3. LaneInv' /\ LaneBounds' /\ QueueInv'
  BY <1>1, <1>2, LaneStepKeepsLaneInv, LaneStepKeepsOrder DEF IInv
<1>4. HostInv' /\ HostTypes'
  BY StepKeepsHostInv, HostTypesNext DEF IInv
<1>5. DisposalInv' /\ ClosuresAlwaysFit'
  <2>1. ASSUME NEW c \in Calls, CallerStep(c) PROVE DisposalInv' /\ ClosuresAlwaysFit'
    BY <2>1, CallsKeepDisposal, RetireKeepsDisposal DEF CallerStep
  <2>2. CASE Close \/ CloseOrders
    BY <2>2, ClosingKeepsDisposal
  <2>3. CASE LaneStep
    BY <2>3, ThreadKeepsDisposal, SettleKeepsDisposal DEF LaneStep
  <2>4. CASE InsideStep
    BY <2>4, OpeningKeepsDisposal, ClosureKeepsDisposal, DisposeKeepsDisposal
       DEF InsideStep
  <2>5. CASE \E k \in Cancellers : CancelStep(k) /\ UNCHANGED hostVars
    BY <2>5, CancelKeepsDisposal
  <2>6. CASE UNCHANGED vars
    BY <2>6, QuietLaneStep DEF vars, laneVars, hostVars, Awaits, Queued
  <2> QED BY <2>1, <2>2, <2>3, <2>4, <2>5, <2>6 DEF Next
<1> QED BY <1>3, <1>4, <1>5 DEF IInv

LEMMA Invariance == Spec => []IInv
<1>1. Init => IInv
  BY LaneInitInv, LaneInitBounds, LaneInitQueue, HostInitInv, HostTypesInit, DisposalInit
     DEF Init, IInv
<1> QED BY <1>1, StepKeepsIInv, PTL DEF Spec

(* Every variable of the lane and of the host keeps its type: in particular the
   queue never outgrows its capacity and the counter never leaves 0..Depth.  *)
THEOREM TypeCorrect == Spec => []TypeOK
<1>1. IInv => TypeOK
  BY TypeParts DEF IInv, LaneBounds
<1> QED BY <1>1, Invariance, PTL

(* Whatever is submitted, cancelled, retired and disposed of in whatever order,
   the admission counter is exact and no closure is ever refused.            *)
THEOREM LaneIsBounded == Spec => []LaneStaysBounded
<1>1. IInv => LaneStaysBounded
  BY DEF IInv, LaneBounds, LaneStaysBounded
<1> QED BY <1>1, Invariance, PTL

(* A disposal that has ended left nothing native behind but what refuses to go,
   and reported each of the host's sessions as it went.                      *)
THEOREM DisposalCompletes == Spec => []DisposalIsComplete
<1>1. IInv => DisposalIsComplete
  BY DEF IInv, DisposalInv, DisposedIsComplete, Disposed, Final, DisposalIsComplete
<1> QED BY <1>1, Invariance, PTL
=============================================================================
