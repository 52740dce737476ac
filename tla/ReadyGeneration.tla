-------------------------- MODULE ReadyGeneration --------------------------
(***************************************************************************)
(* What a generation store promises the readers of a source: one register  *)
(* that holds the ready generation, replaced by compare-and-swap, and      *)
(* leases whose generation never changes under their holder.  Damage may   *)
(* lose the register's value; a recovery may then set it again.            *)
(***************************************************************************)
CONSTANTS Readers, Manifests, None, Lost

VARIABLES
    serving,   \* the manifest a new lease is granted, None, or Lost
    reading    \* for each reader, the generations it can read through leases

vars == <<serving, reading>>

Init ==
    /\ serving = None
    /\ reading = [r \in Readers |-> {}]

Generation == IF serving \in Manifests THEN serving.gen ELSE None

(* A publication that observed the generation now serving replaces it. *)
Publish ==
    /\ serving # Lost
    /\ \E m \in Manifests : m.expected = Generation /\ serving' = m
    /\ UNCHANGED reading

(* Recovery never replaces a generation that can be read except as above. *)
Recover ==
    /\ serving = Lost
    /\ serving' \in Manifests
    /\ UNCHANGED reading

Lose ==
    /\ serving \in Manifests
    /\ serving' = Lost
    /\ UNCHANGED reading

Acquire(r) ==
    /\ serving \in Manifests
    /\ reading' = [reading EXCEPT ![r] = @ \cup {serving}]
    /\ UNCHANGED serving

(* One lease is dropped, or the reader's process dies with all of them. *)
Release(r) ==
    /\ \E kept \in SUBSET reading[r] : reading' = [reading EXCEPT ![r] = kept]
    /\ UNCHANGED serving

Next == Publish \/ Recover \/ Lose \/ \E r \in Readers : Acquire(r) \/ Release(r)

Spec == Init /\ [][Next]_vars
=============================================================================
