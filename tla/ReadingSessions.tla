-------------------------- MODULE ReadingSessions --------------------------
(***************************************************************************)
(* Reading sessions over a generation store, as the Android application    *)
(* opens them: verified_ready (slipbox-android, android_sources.rs) leases *)
(* the ready generation, answers its content root and database, and drops  *)
(* the lease as it returns; the sessions opened over those paths hold none. *)
(* Sessions and refreshes live in one process and die with it.             *)
(***************************************************************************)
EXTENDS GenerationStore

VARIABLE sessions  \* for each reader, the generations its sessions read

sessionVars == <<vars, sessions>>

SessionsInit == Init /\ sessions = [r \in Readers |-> {}]

(* verified_ready returns: the paths are answered, the lease is dropped. *)
OpenSession(r) ==
    /\ pc[r] = "idle"
    /\ \E m \in leases[r] :
        /\ leases' = [leases EXCEPT ![r] = @ \ {m}]
        /\ sessions' = [sessions EXCEPT ![r] = @ \cup {m}]
    /\ UNCHANGED <<files, locks, pc, request, operation, pass, faults>>

CloseSession(r) ==
    /\ \E m \in sessions[r] : sessions' = [sessions EXCEPT ![r] = @ \ {m}]
    /\ UNCHANGED vars

(* The process dies, and the sessions with it. *)
ProcessDies ==
    /\ \E a \in Actors : Crash(a)
    /\ sessions' = [r \in Readers |-> {}]

StoreStep ==
    /\ \/ \E r \in Readers : ReaderStep(r)
       \/ \E a \in Refreshers : RecoverStep(a) \/ PublishStep(a)
       \/ Damage
    /\ UNCHANGED sessions

SessionsNext ==
    \/ \E r \in Readers : OpenSession(r) \/ CloseSession(r)
    \/ StoreStep
    \/ ProcessDies

SessionsSpec == SessionsInit /\ [][SessionsNext]_sessionVars

-----------------------------------------------------------------------------
(* doc/android.org:592-594: a reader already reading a generation keeps it,
   its requests and document assets retain that generation until released.   *)
SessionsRetainGenerations ==
    \A r \in Readers : \A m \in sessions[r] :
        /\ dir[m.gen] # None
        /\ dir[m.gen].manifest = m
        /\ dir[m.gen].health # "torn"
=============================================================================
