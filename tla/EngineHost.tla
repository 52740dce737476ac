----------------------------- MODULE EngineHost -----------------------------
(***************************************************************************)
(* The owner of native engine sessions (Android, engine/SlipboxEngineHost.kt) *)
(* over its lane: sessions are opened, read, retired and, with the host,   *)
(* disposed of, by any thread, while the lane's thread crosses into the    *)
(* native table of sessions (slipbox-android, adapter.rs).                 *)
(*                                                                         *)
(* A session is named by the call that opens it; the native table never    *)
(* hands out an identity twice.  Each section of the `sessions' monitor is *)
(* a step; a live flag read outside it is read in a step of its own.       *)
(***************************************************************************)
EXTENDS EngineLane

CONSTANT Stubborn  \* sessions whose native retirement fails

(* EngineRetirement: retired, not retired, or failed. *)
Outcomes == {"retired", "absent", "failed"}

ASSUME HostAssumption == Stubborn \subseteq Calls /\ None \notin Outcomes

VARIABLES
    live,      \* the host's live flag
    closing,   \* a close() holds the sessions' monitor
    sessions,  \* the sessions the host holds
    open,      \* sessions whose own live flag is set
    ordered,   \* the retirement task of each session
    outcome,   \* EngineRetirement of each session, once attempted
    held,      \* what disposal has to retire
    report,    \* EngineDisposal: what it found for each of them
    native,    \* the native table
    reads,     \* the session each submitted call reads; None: it opens one
    caller,    \* where the thread that submits each call is
    step,      \* where the lane's thread is inside the running task
    told       \* calls whose callback has been invoked

hostVars == <<live, closing, sessions, open, ordered, outcome, held, report,
              native, reads, caller, step, told>>
vars == <<laneVars, hostVars>>

TypeOK ==
    /\ LaneTypeOK
    /\ live \in BOOLEAN
    /\ closing \in BOOLEAN
    /\ sessions \subseteq Calls
    /\ open \subseteq Calls
    /\ ordered \in [Calls -> Closures \cup {None, Disposal}]
    /\ outcome \in [Calls -> Outcomes \cup {None}]
    /\ held \subseteq Calls
    /\ report \in [Calls -> Outcomes \cup {None}]
    /\ native \subseteq Calls
    /\ reads \in [Calls -> Calls \cup {None}]
    /\ caller \in [Calls -> {"idle", "checked", "returned"}]
    /\ step \in {"entering", "opened", "read", "delivering", "closed",
                 "leaving"}
    /\ told \subseteq Calls

Init ==
    /\ LaneInit
    /\ live = TRUE
    /\ closing = FALSE
    /\ sessions = {}
    /\ open = {}
    /\ ordered = [s \in Calls |-> None]
    /\ outcome = [s \in Calls |-> None]
    /\ held = {}
    /\ report = [s \in Calls |-> None]
    /\ native = {}
    /\ reads = [c \in Calls |-> None]
    /\ caller = [c \in Calls |-> "idle"]
    /\ step = "entering"
    /\ told = {}

-----------------------------------------------------------------------------
(* EngineSession.isOpen *)
IsOpen(s) == s \in open /\ live

(* The sessions register() ever accepted. *)
Registered == open \cup held \cup {s \in Calls : ordered[s] # None}

(* The caller of openRead has its session: the task answered one. *)
Delivered(s) == future[s] = "settled" /\ s \in Registered

-----------------------------------------------------------------------------
(* Callers: ensureOpen, then submit.                                       *)

CheckOpen(c) ==
    /\ caller[c] = "idle"
    /\ live
    /\ caller' = [caller EXCEPT ![c] = "checked"]
    /\ UNCHANGED <<laneVars, live, closing, sessions, open, ordered, outcome,
                   held, report, native, reads, step, told>>

CheckRead(c) ==
    /\ caller[c] = "idle"
    /\ \E s \in Calls :
        /\ Delivered(s) /\ IsOpen(s)
        /\ reads' = [reads EXCEPT ![c] = s]
    /\ caller' = [caller EXCEPT ![c] = "checked"]
    /\ UNCHANGED <<laneVars, live, closing, sessions, open, ordered, outcome,
                   held, report, native, step, told>>

Enter(c) ==
    /\ caller[c] = "checked"
    /\ caller' = [caller EXCEPT ![c] = "returned"]
    /\ \/ Submit(c)
       \/ Refuses /\ UNCHANGED laneVars
    /\ UNCHANGED <<live, closing, sessions, open, ordered, outcome, held,
                   report, native, reads, step, told>>

(* A repeated retirement shares the first one's task. *)
First(s) == ordered[s] = None

(* Mutant: a retired session still says it is open. *)
MutMarkRetired(gone) == UNCHANGED open

(* EngineSession.markRetired *)
MarkRetired(gone) == open' = open \ gone

(* SlipboxEngineHost.retire, under the sessions monitor. *)
RetireSession(s) ==
    /\ ~closing
    /\ Delivered(s) /\ First(s)
    /\ MarkRetired({s})
    /\ \/ /\ live
          /\ \E t \in Closures :
                /\ SubmitClosure(t)
                /\ ordered' = [ordered EXCEPT ![s] = t]
       \/ /\ ~live                       \* disposal has ordered it
          /\ ordered' = [ordered EXCEPT ![s] = Disposal]
          /\ UNCHANGED laneVars
    /\ UNCHANGED <<live, closing, sessions, outcome, held, report, native,
                   reads, caller, step, told>>

(* SlipboxEngineHost.close, under the sessions monitor: the flag, which
   others read without it, is down before the lane is retired.              *)
Close ==
    /\ live
    /\ live' = FALSE
    /\ closing' = TRUE
    /\ UNCHANGED <<laneVars, sessions, open, ordered, outcome, held, report,
                   native, reads, caller, step, told>>

CloseOrders ==
    /\ closing
    /\ closing' = FALSE
    /\ held' = sessions
    /\ sessions' = {}
    /\ MarkRetired(sessions)
    /\ Retire
    /\ UNCHANGED <<live, ordered, outcome, report, native, reads, caller, step,
                   told>>

-----------------------------------------------------------------------------
(* The lane's thread inside a task.                                        *)

Working(label) == thread = "working" /\ step = label

(* The task that runs is the opening of a session, a read, a closure. *)
Opens(c) == running = c /\ c \in Calls /\ reads[c] = None
Reads(c) == running = c /\ c \in Calls /\ reads[c] # None
Retires(s) == running \in Closures /\ ordered[s] = running

(* Native close: a second one finds nothing to retire. *)
NativeOutcome(s) ==
    IF s \in Stubborn THEN "failed"
    ELSE IF s \in native THEN "retired" ELSE "absent"

NativeClose(gone) == native' = native \ (gone \ Stubborn)

(* seam.openRead; a full table refuses, and the engine may fail to open. *)
NativeOpen(c) ==
    /\ Working("entering") /\ Opens(c)
    /\ \/ /\ Cardinality(native) < MaxSessions
          /\ native' = native \cup {c}
          /\ step' = "opened"
       \/ step' = "leaving" /\ UNCHANGED native
    /\ UNCHANGED <<laneVars, live, closing, sessions, open, ordered, outcome,
                   held, report, reads, caller, told>>

(* register(): under the monitor, so that disposal finds the session. *)
Registers == live

Register(c) ==
    /\ ~closing
    /\ Working("opened") /\ Opens(c)
    /\ Registers
    /\ sessions' = sessions \cup {c}
    /\ open' = open \cup {c}
    /\ step' = "leaving"
    /\ UNCHANGED <<laneVars, live, closing, ordered, outcome, held, report,
                   native, reads, caller, told>>

(* discarded(): the session nobody will own is retired at once. *)
Discard(c) ==
    /\ ~closing
    /\ Working("opened") /\ Opens(c)
    /\ ~Registers
    /\ NativeClose({c})
    /\ step' = "leaving"
    /\ UNCHANGED <<laneVars, live, closing, sessions, open, ordered, outcome,
                   held, report, reads, caller, told>>

(* seam.read; a retired handle is refused, and the failure is delivered. *)
NativeRead(c) ==
    /\ Working("entering") /\ Reads(c)
    /\ step' = "read"
    /\ UNCHANGED <<laneVars, live, closing, sessions, open, ordered, outcome,
                   held, report, native, reads, caller, told>>

(* delivered(): the session is looked at, and then the callback invoked. *)
CheckDelivery(c) ==
    /\ Working("read") /\ Reads(c)
    /\ step' = IF IsOpen(reads[c]) THEN "delivering" ELSE "leaving"
    /\ UNCHANGED <<laneVars, live, closing, sessions, open, ordered, outcome,
                   held, report, native, reads, caller, told>>

Deliver(c) ==
    /\ Working("delivering") /\ Reads(c)
    /\ told' = told \cup {c}
    /\ step' = "leaving"
    /\ UNCHANGED <<laneVars, live, closing, sessions, open, ordered, outcome,
                   held, report, native, reads, caller>>

(* accounted(): a failed retirement leaves the session to disposal. *)
Account(s) ==
    /\ Working("entering") /\ Retires(s)
    /\ NativeClose({s})
    /\ outcome' = [outcome EXCEPT ![s] = NativeOutcome(s)]
    /\ step' = IF NativeOutcome(s) = "failed" THEN "leaving" ELSE "closed"
    /\ UNCHANGED <<laneVars, live, closing, sessions, open, ordered, held,
                   report, reads, caller, told>>

Forget(s) ==
    /\ ~closing
    /\ Working("closed") /\ Retires(s)
    /\ sessions' = sessions \ {s}
    /\ step' = "leaving"
    /\ UNCHANGED <<laneVars, live, closing, open, ordered, outcome, held,
                   report, native, reads, caller, told>>

(* Mutant: disposal attempts every retirement again. *)
MutAttempted == held

(* Sessions whose closure has reported are not retired again. *)
Attempted == {s \in held : outcome[s] = None}

(* disposed() *)
Dispose ==
    /\ Working("entering") /\ running = Disposal
    /\ NativeClose(Attempted)
    /\ report' = [s \in Calls |->
                    IF s \in Attempted THEN NativeOutcome(s)
                    ELSE IF s \in held THEN outcome[s] ELSE None]
    /\ step' = "leaving"
    /\ UNCHANGED <<laneVars, live, closing, sessions, open, ordered, outcome,
                   held, reads, caller, told>>

InsideStep ==
    \/ \E c \in Calls :
        \/ NativeOpen(c) \/ Register(c) \/ Discard(c)
        \/ NativeRead(c) \/ CheckDelivery(c) \/ Deliver(c)
        \/ Account(c) \/ Forget(c)
    \/ Dispose

(* The lane's own steps; a task settles when its work is over. *)
LaneStep ==
    \/ /\ Take \/ Begin \/ Yield \/ Release
       /\ UNCHANGED hostVars
    \/ /\ Settle
       /\ thread = "working" => step = "leaving"
       /\ step' = "entering"
       /\ UNCHANGED <<live, closing, sessions, open, ordered, outcome, held,
                      report, native, reads, caller, told>>

-----------------------------------------------------------------------------
CallerStep(c) == CheckOpen(c) \/ CheckRead(c) \/ Enter(c) \/ RetireSession(c)

Next ==
    \/ \E c \in Calls : CallerStep(c)
    \/ Close \/ CloseOrders
    \/ LaneStep \/ InsideStep
    \/ \E k \in Cancellers : CancelStep(k) /\ UNCHANGED hostVars

Spec == Init /\ [][Next]_vars

(* The lane's thread runs and native calls return; a close() and the
   cancellations under way go on.  Nobody is obliged to call anything.      *)
FairSpec ==
    /\ Spec
    /\ WF_vars(CloseOrders)
    /\ WF_vars(LaneStep \/ InsideStep)
    /\ \A k \in Cancellers :
            WF_vars(stage[k] # "idle" /\ CancelStep(k) /\ UNCHANGED hostVars)

-----------------------------------------------------------------------------
(* Properties.                                                             *)

(* What the callers can read is there to be read: a session that is open has
   its native counterpart, and the host holds it.                            *)
OpenSessionsAreNative == \A s \in open : IsOpen(s) => s \in native \cap sessions

(* Once disposal has run no native session is left but those that refuse to
   go, whatever was being opened or retired when the host was closed; and each
   session the host held then is retired exactly once, by its own closure or by
   disposal, and reported as it went.                                        *)
DisposalIsComplete ==
    future[Disposal] = "settled" =>
        /\ native \subseteq Stubborn
        /\ \A s \in held : report[s] = (IF s \in Stubborn THEN "failed" ELSE "retired")

(* Closing the host ends with its disposal. *)
DisposalEnds == (~live) ~> (future[Disposal] = "settled")

=============================================================================
