--------------------- MODULE GenerationStoreRefinement ---------------------
(***************************************************************************)
(* The generation store implements ReadyGeneration: what lease() answers is *)
(* the register, and what a reader sees through a lease is the content that *)
(* is on disk under the leased id at that moment.                          *)
(***************************************************************************)
EXTENDS GenerationStore

(* What lease() answers: a record, no generation, or an error. *)
Serving == IF Ready THEN active ELSE IF active = None THEN None ELSE Corrupt

(* The leases of a reader, the one being acquired included. *)
Held(r) == leases[r] \cup (IF pc[r] = "leasing" THEN {request[r]} \ {None} ELSE {})

(* The manifests found in the directories those leases name. *)
Reading ==
    [r \in Readers |->
        {IF dir[m.gen] = None THEN None ELSE dir[m.gen].manifest : m \in Held(r)}]

Register == INSTANCE ReadyGeneration WITH
    serving <- Serving, reading <- Reading, Lost <- Corrupt

(* The store implements the register: readiness moves by compare-and-swap or
   out of a loss, and no lease is ever retargeted or emptied.                *)
ImplementsReadyGeneration == Register!Spec
=============================================================================
