------------------------ MODULE GenerationStoreProofs ------------------------
(***************************************************************************)
(* TLAPS proofs about GenerationStore, for any number of processes, ids,   *)
(* contents and faults; the last part proves that it implements            *)
(* ReadyGeneration.                                                        *)
(***************************************************************************)
EXTENDS GenerationStoreRefinement, TLAPS

(* A directory is named after the generation its manifest describes. *)
DirsAreNamed == \A g \in Gens : dir[g] # None => dir[g].manifest.gen = g

(* m has its directory, and no step of reclamation has touched it. *)
Pinned(m) ==
    /\ dir[m.gen] # None
    /\ dir[m.gen].manifest = m
    /\ dir[m.gen].health # "torn"

(* What an actor carries in `request' at each point of its program. *)
RequestsFit ==
    \A a \in Actors :
        /\ a \in Readers => pc[a] \in {"idle", "leasing"}
        /\ a \in Refreshers => pc[a] # "leasing"
        /\ pc[a] = "leasing" /\ request[a] # None => Pinned(request[a])
        /\ pc[a] \in Publishing \cup {"built", "completing", "switching"}
              => request[a] \in Manifests
        /\ pc[a] \in {"completing", "switching", "activating", "retained"}
              => Holds(request[a]) /\ request[a].expected = Named(active)
        /\ pc[a] \in Publishing \ {"preparing"} => active = None \/ Ready
        /\ pc[a] \in {"sourceSealed", "indexSealed", "manifestSealed"}
              => request[a].expected = Named(active)
        /\ a \in Refreshers /\ pc[a] # "idle" => operation[a] \in Gens

(* The entries reclamation has still to visit exist. *)
TodoExists == \A g \in pass.todo : dir[g] # None

IInv ==
    /\ TypeOK
    /\ LockDiscipline
    /\ DirsAreNamed
    /\ PointersNameGenerations
    /\ LeasesPinGenerations
    /\ RequestsFit
    /\ TodoExists

(* What the steps shared by several actions leave behind. *)
LEMMA ReturnEffect ==
    ASSUME TypeOK, NEW a \in Actors, Return(a)
    PROVE  /\ publication' \in Refreshers \cup {None}
           /\ pc' \in [Actors -> PC]
           /\ request' \in [Actors -> Manifests \cup {None}]
           /\ leases' \in [Actors -> SUBSET Manifests]
           /\ \A b \in Actors : leases'[b] \subseteq leases[b]
<1>1. leases' \in [Actors -> SUBSET Manifests]
  BY DEF TypeOK, Return
<1>2. request' \in [Actors -> Manifests \cup {None}]
  BY DEF TypeOK, Return
<1>3. pc' \in [Actors -> PC]
  BY DEF TypeOK, Return, PC
<1>4. \A b \in Actors : leases'[b] \subseteq leases[b]
  BY DEF TypeOK, Return
<1> QED BY <1>1, <1>2, <1>3, <1>4 DEF TypeOK, Return

LEMMA LeaseEffect ==
    ASSUME TypeOK, NEW a \in Actors, NEW m \in Manifests, Lease(a, m)
    PROVE  /\ leases' \in [Actors -> SUBSET Manifests]
           /\ \A b \in Actors : leases'[b] \subseteq leases[b] \cup {m}
BY DEF TypeOK, Lease

LEMMA PromotionEffect ==
    ASSUME TypeOK, NEW m \in Manifests,
           dir' = [dir EXCEPT ![m.gen] = [manifest |-> m, health |-> "sealed"]]
    PROVE  /\ m.gen \in Gens
           /\ dir' \in [Gens -> Dirs \cup {None}]
           /\ dir'[m.gen] # None
           /\ dir'[m.gen].manifest = m
           /\ dir'[m.gen].health = "sealed"
           /\ \A g \in Gens : g # m.gen => dir'[g] = dir[g]
<1>1. m.gen \in Gens
  BY DEF Manifests
<1>2. [manifest |-> m, health |-> "sealed"] \in Dirs
  BY DEF Dirs, Health
<1>3. dir'[m.gen] = [manifest |-> m, health |-> "sealed"]
  BY <1>1 DEF TypeOK
<1> QED BY <1>1, <1>2, <1>3, StoreAssumption DEF TypeOK

LEMMA SpoilEffect ==
    ASSUME TypeOK, NEW g \in Gens, dir[g] # None, NEW h \in Health,
           dir' = [dir EXCEPT ![g].health = h]
    PROVE  /\ dir' \in [Gens -> Dirs \cup {None}]
           /\ dir'[g] # None
           /\ dir'[g].manifest = dir[g].manifest
           /\ dir'[g].health = h
           /\ \A k \in Gens : k # g => dir'[k] = dir[k]
<1>1. dir[g] \in Dirs
  BY DEF TypeOK
<1>2. dir'[g] = [dir[g] EXCEPT !.health = h]
  BY DEF TypeOK
<1>3. /\ dir'[g] \in Dirs
      /\ dir'[g].manifest = dir[g].manifest
      /\ dir'[g].health = h
  BY <1>1, <1>2 DEF Dirs
<1> QED BY <1>3, StoreAssumption DEF TypeOK

(* Every manifest among the pending ones names its own directory. *)
LEMMA PendingEffect ==
    ASSUME TypeOK, NEW m \in Pending
    PROVE  m \in Manifests /\ m.gen \in Gens /\ m.expected = Named(active)
<1>1. \A g \in Gens : Sealed(g) => dir[g].manifest \in Manifests
  BY DEF TypeOK, Sealed, Dirs
<1>2. m \in Manifests /\ m.expected = Named(active)
  BY <1>1 DEF TypeOK, Pending
<1> QED BY <1>2 DEF Manifests

LEMMA ReaderSteps ==
    ASSUME IInv, NEW r \in Readers, ReaderStep(r) PROVE IInv'
<1> USE StoreAssumption DEF IInv, Actors, Goto, files, locks, procs
<1>1. ASSUME BeginLease(r) PROVE IInv'
  <2>1. TypeOK'
    BY <1>1, SMTT(30) DEF BeginLease, RecoveryLockFree, Ready, Verified, Holds, Sealed,
       Pinned, TypeOK, Gens, Manifests, Dirs, PC, Publishing, Recovering
  <2>2. LockDiscipline'
    BY <1>1 DEF BeginLease, RecoveryLockFree, Ready, Verified, Holds, Sealed,
       Pinned, TypeOK, LockDiscipline, Publishing, Recovering
  <2>3. RequestsFit'
    BY <1>1, SMTT(30) DEF BeginLease, RecoveryLockFree, Ready, Verified, Holds, Sealed,
       Pinned, TypeOK, LockDiscipline, RequestsFit, Publishing, Recovering, Gens,
       Manifests, Dirs
  <2>4. DirsAreNamed' /\ PointersNameGenerations' /\ LeasesPinGenerations' /\
        TodoExists'
    BY <1>1 DEF BeginLease, DirsAreNamed, PointersNameGenerations,
       LeasesPinGenerations, TodoExists
  <2> QED BY <2>1, <2>2, <2>3, <2>4
<1>2. ASSUME EndLease(r) PROVE IInv'
  <2>1. TypeOK'
    BY <1>2 DEF EndLease, TypeOK, Gens, Manifests, Dirs, PC, Publishing, Recovering
  <2>2. LockDiscipline'
    BY <1>2 DEF EndLease, TypeOK, LockDiscipline, Publishing, Recovering
  <2>3. LeasesPinGenerations'
    BY <1>2 DEF EndLease, TypeOK, LeasesPinGenerations, RequestsFit, Pinned
  <2>4. RequestsFit'
    BY <1>2 DEF EndLease, Pinned, TypeOK, LockDiscipline, RequestsFit, Holds,
       Sealed, Ready, Verified, Named, Publishing, Recovering, Gens, Manifests,
       Dirs, Pointers
  <2>5. DirsAreNamed' /\ PointersNameGenerations' /\ TodoExists'
    BY <1>2 DEF EndLease, DirsAreNamed, PointersNameGenerations, TodoExists
  <2> QED BY <2>1, <2>2, <2>3, <2>4, <2>5
<1>3. ASSUME DropLease(r) PROVE IInv'
  <2>1. TypeOK'
    BY <1>3 DEF DropLease, TypeOK
  <2>2. LockDiscipline'
    BY <1>3 DEF DropLease, LockDiscipline
  <2>3. LeasesPinGenerations'
    BY <1>3 DEF DropLease, LeasesPinGenerations
  <2>4. RequestsFit'
    BY <1>3 DEF DropLease, TypeOK, LockDiscipline, RequestsFit, Pinned, Holds,
       Sealed, Ready, Verified, Named, Publishing, Recovering, Gens, Manifests,
       Dirs, Pointers
  <2>5. DirsAreNamed' /\ PointersNameGenerations' /\ TodoExists'
    BY <1>3 DEF DropLease, DirsAreNamed, PointersNameGenerations, TodoExists
  <2> QED BY <2>1, <2>2, <2>3, <2>4, <2>5
<1> QED BY <1>1, <1>2, <1>3 DEF ReaderStep

LEMMA RecoverSteps ==
    ASSUME IInv, NEW a \in Refreshers, RecoverStep(a) PROVE IInv'
<1> USE StoreAssumption DEF IInv, Actors, Goto, files, locks, procs
<1>1. ASSUME BeginRefresh(a) PROVE IInv'
  <2>1. TypeOK'
    BY <1>1 DEF BeginRefresh, NextOperation, TypeOK, Gens, Manifests, Dirs, PC,
       Publishing, Recovering
  <2>2. LockDiscipline'
    BY <1>1 DEF BeginRefresh, TypeOK, LockDiscipline, Publishing, Recovering
  <2>3. RequestsFit'
    BY <1>1 DEF BeginRefresh, NextOperation, TypeOK, LockDiscipline, RequestsFit,
       Pinned, Holds, Sealed, Ready, Verified, Named, Publishing, Recovering, Gens,
       Manifests, Dirs, Pointers
  <2>4. DirsAreNamed' /\ PointersNameGenerations' /\ LeasesPinGenerations' /\
        TodoExists'
    BY <1>1 DEF BeginRefresh, DirsAreNamed, PointersNameGenerations,
       LeasesPinGenerations, TodoExists
  <2> QED BY <2>1, <2>2, <2>3, <2>4
<1>2. ASSUME ExcludeReaders(a) PROVE IInv'
  <2>1. TypeOK'
    BY <1>2, ReturnEffect DEF ExcludeReaders, TypeOK, PC, Recovering
  <2>2. LockDiscipline'
    BY <1>2 DEF ExcludeReaders, Return, TypeOK, LockDiscipline, Publishing,
       Recovering
  <2>3. LeasesPinGenerations'
    BY <1>2, ReturnEffect DEF ExcludeReaders, TypeOK, LeasesPinGenerations
  <2>4. RequestsFit'
    BY <1>2 DEF ExcludeReaders, Return, TypeOK, LockDiscipline, RequestsFit, Pinned,
       Holds, Sealed, Ready, Verified, Named, Publishing, Recovering, Gens,
       Manifests, Dirs, Pointers
  <2>5. DirsAreNamed' /\ PointersNameGenerations' /\ TodoExists'
    BY <1>2 DEF ExcludeReaders, DirsAreNamed, PointersNameGenerations, TodoExists
  <2> QED BY <2>1, <2>2, <2>3, <2>4, <2>5
<1>3. ASSUME Scan(a) PROVE IInv'
  <2>1. TypeOK'
    BY <1>3 DEF Scan, Repaired, RetainedProblem, NoPass, Ready, Verified, Holds,
       Sealed, Named, TypeOK, Gens, Manifests, Pointers, Dirs, Health, Passes, PC,
       Publishing, Recovering
  <2>2. LockDiscipline'
    BY <1>3 DEF Scan, TypeOK, LockDiscipline, Publishing, Recovering
  <2>3. PointersNameGenerations'
    <3>1. Repaired \in Manifests /\ Repaired # retained
            => /\ active.expected \in Gens
               /\ Sealed(active.expected)
               /\ Repaired = dir[active.expected].manifest
      BY DEF Repaired, Ready, Verified, TypeOK, Manifests
    <3>2. retained' = Repaired /\ UNCHANGED <<dir, active>>
      BY <1>3 DEF Scan
    <3> QED BY <3>1, <3>2 DEF TypeOK, PointersNameGenerations, DirsAreNamed, Sealed, Manifests
  <2>4. RequestsFit'
    BY <1>3 DEF Scan, TypeOK, LockDiscipline, RequestsFit, Publishing, Recovering,
       Gens, Manifests, Dirs
  <2>5. TodoExists'
    BY <1>3 DEF Scan, Repaired, RetainedProblem, NoPass, Ready, Verified, Holds,
       Sealed, Named, TypeOK, TodoExists
  <2>6. DirsAreNamed' /\ LeasesPinGenerations'
    BY <1>3 DEF Scan, DirsAreNamed, LeasesPinGenerations
  <2> QED BY <2>1, <2>2, <2>3, <2>4, <2>5, <2>6
<1>4. ASSUME Complete(a) PROVE IInv'
  <2>1. PICK m \in Pending :
          /\ \/ Holds(m) /\ UNCHANGED <<dir, staged>>
             \/ /\ dir[m.gen] = None
                /\ dir' = [dir EXCEPT ![m.gen] = [manifest |-> m, health |-> "sealed"]]
                /\ staged' = staged \ {m}
          /\ request' = [request EXCEPT ![a] = m]
          /\ Lease(a, m)
    BY <1>4 DEF Complete
  <2>2. m \in Manifests /\ m.gen \in Gens /\ m.expected = Named(active)
    BY PendingEffect
  <2>3. /\ dir' \in [Gens -> Dirs \cup {None}]
        /\ dir'[m.gen] # None
        /\ dir'[m.gen].manifest = m
        /\ dir'[m.gen].health = "sealed"
        /\ \A g \in Gens : g # m.gen => dir'[g] = dir[g]
    BY <2>1, <2>2, PromotionEffect DEF Holds, Sealed, TypeOK
  <2>4. \A g \in Gens : dir[g] # None => dir'[g] = dir[g]
    BY <2>1, <2>2, <2>3 DEF Holds, Sealed
  <2>5. /\ leases' \in [Actors -> SUBSET Manifests]
        /\ \A b \in Actors : leases'[b] \subseteq leases[b] \cup {m}
    BY <2>1, <2>2, LeaseEffect
  <2>6. TypeOK'
    BY <1>4, <2>1, <2>2, <2>3, <2>5 DEF Complete, TypeOK, PC, Recovering
  <2>7. LockDiscipline'
    BY <1>4 DEF Complete, TypeOK, LockDiscipline, Publishing, Recovering
  <2>8. DirsAreNamed'
    BY <2>2, <2>3 DEF DirsAreNamed
  <2>9. PointersNameGenerations'
    BY <1>4, <2>4 DEF Complete, TypeOK, PointersNameGenerations, Manifests
  <2>10. LeasesPinGenerations'
    BY <2>2, <2>3, <2>4, <2>5 DEF TypeOK, LeasesPinGenerations, Manifests
  <2>11. \A b \in Actors : b # a => pc'[b] = pc[b] /\ request'[b] = request[b]
    BY <1>4, <2>1 DEF Complete, TypeOK
  <2>12. pc'[a] = "completing" /\ request'[a] = m /\ pc[a] = "deciding"
    BY <1>4, <2>1 DEF Complete, TypeOK
  <2>13. \A b \in Actors : b # a => pc[b] \notin Publishing \cup Recovering \cup {"leasing"}
    BY <2>12 DEF LockDiscipline, Recovering, Publishing
  <2>14. RequestsFit'
    BY <1>4, <2>2, <2>3, <2>11, <2>12, <2>13
    DEF Complete, RequestsFit, Holds, Sealed, Named, Publishing, Recovering
  <2>15. TodoExists'
    BY <1>4, <2>4 DEF Complete, TypeOK, TodoExists, Passes
  <2> QED BY <2>6, <2>7, <2>8, <2>9, <2>10, <2>14, <2>15
<1>5. ASSUME Obstructed(a) PROVE IInv'
  <2>1. TypeOK'
    BY <1>5 DEF Obstructed, Return, NoPass, TypeOK, Gens, Manifests, Pointers, Dirs,
       Health, Passes, PC, Publishing, Recovering
  <2>2. LockDiscipline'
    BY <1>5 DEF Obstructed, Return, NoPass, TypeOK, LockDiscipline, Publishing,
       Recovering
  <2>3. LeasesPinGenerations'
    BY <1>5 DEF Obstructed, Return, NoPass, TypeOK, LeasesPinGenerations
  <2>4. RequestsFit'
    BY <1>5 DEF Obstructed, Return, NoPass, TypeOK, LockDiscipline, RequestsFit,
       Publishing, Recovering, Gens, Manifests, Dirs
  <2>5. TodoExists'
    BY <1>5 DEF Obstructed, Return, NoPass, TypeOK, TodoExists
  <2>6. DirsAreNamed' /\ PointersNameGenerations'
    BY <1>5 DEF Obstructed, DirsAreNamed, PointersNameGenerations
  <2> QED BY <2>1, <2>2, <2>3, <2>4, <2>5, <2>6
<1>6. ASSUME RetainRecovered(a) PROVE IInv'
  <2>1. TypeOK'
    BY <1>6 DEF RetainRecovered, TypeOK, Gens, Manifests, Dirs, PC, Publishing,
       Recovering
  <2>2. LockDiscipline'
    BY <1>6 DEF RetainRecovered, TypeOK, LockDiscipline, Publishing, Recovering
  <2>3. PointersNameGenerations'
    BY <1>6 DEF RetainRecovered, PointersNameGenerations
  <2>4. RequestsFit'
    BY <1>6 DEF RetainRecovered, Ready, Verified, Holds, Sealed, TypeOK,
       LockDiscipline, RequestsFit, Publishing, Recovering, Gens, Manifests, Dirs
  <2>5. DirsAreNamed' /\ LeasesPinGenerations' /\ TodoExists'
    BY <1>6 DEF RetainRecovered, DirsAreNamed, LeasesPinGenerations, TodoExists
  <2> QED BY <2>1, <2>2, <2>3, <2>4, <2>5
<1>7. ASSUME ActivateRecovered(a) PROVE IInv'
  <2>1. TypeOK'
    BY <1>7 DEF ActivateRecovered, BeginReclaim, Holds, Sealed, Ready, Verified,
       TypeOK, Gens, Manifests, Pointers, Dirs, Health, Passes, PC, Publishing,
       Recovering
  <2>2. LockDiscipline'
    BY <1>7 DEF ActivateRecovered, BeginReclaim, Holds, Sealed, Ready, Verified,
       TypeOK, LockDiscipline, Publishing, Recovering
  <2>3. PointersNameGenerations'
    BY <1>7 DEF ActivateRecovered, TypeOK, PointersNameGenerations, RequestsFit,
       Holds, Sealed, Pointers
  <2>4. RequestsFit'
    BY <1>7 DEF ActivateRecovered, BeginReclaim, Holds, Sealed, Ready, Verified,
       TypeOK, LockDiscipline, RequestsFit, Publishing, Recovering, Gens, Manifests,
       Dirs
  <2>5. TodoExists'
    BY <1>7 DEF ActivateRecovered, BeginReclaim, Holds, Sealed, Ready, Verified,
       TypeOK, TodoExists
  <2>6. DirsAreNamed' /\ LeasesPinGenerations'
    BY <1>7 DEF ActivateRecovered, DirsAreNamed, LeasesPinGenerations
  <2> QED BY <2>1, <2>2, <2>3, <2>4, <2>5, <2>6
<1>8. ASSUME KeepReady(a) PROVE IInv'
  <2>1. TypeOK'
    BY <1>8 DEF KeepReady, Lease, BeginReclaim, Ready, Verified, Holds, Sealed,
       TypeOK, Gens, Manifests, Pointers, Dirs, Health, Passes, PC, Publishing,
       Recovering
  <2>2. LockDiscipline'
    BY <1>8 DEF KeepReady, Lease, BeginReclaim, Ready, Verified, Holds, Sealed,
       TypeOK, LockDiscipline, Publishing, Recovering
  <2>3. LeasesPinGenerations'
    BY <1>8 DEF KeepReady, Lease, BeginReclaim, Ready, Verified, Holds, Sealed,
       TypeOK, LeasesPinGenerations
  <2>4. RequestsFit'
    BY <1>8 DEF KeepReady, Lease, BeginReclaim, Ready, Verified, Holds, Sealed,
       TypeOK, LockDiscipline, RequestsFit, Publishing, Recovering, Gens, Manifests,
       Dirs
  <2>5. TodoExists'
    BY <1>8 DEF KeepReady, Lease, BeginReclaim, Ready, Verified, Holds, Sealed,
       TypeOK, TodoExists
  <2>6. DirsAreNamed' /\ PointersNameGenerations'
    BY <1>8 DEF KeepReady, DirsAreNamed, PointersNameGenerations
  <2> QED BY <2>1, <2>2, <2>3, <2>4, <2>5, <2>6
<1>9. ASSUME RestoreRetained(a) PROVE IInv'
  <2>1. TypeOK'
    BY <1>9 DEF RestoreRetained, Lease, BeginReclaim, Ready, Verified, Holds,
       Sealed, TypeOK, Gens, Manifests, Pointers, Dirs, Health, Passes, PC,
       Publishing, Recovering
  <2>2. LockDiscipline'
    BY <1>9 DEF RestoreRetained, Lease, BeginReclaim, Ready, Verified, Holds,
       Sealed, TypeOK, LockDiscipline, Publishing, Recovering
  <2>3. PointersNameGenerations'
    BY <1>9 DEF RestoreRetained, PointersNameGenerations
  <2>4. LeasesPinGenerations'
    BY <1>9 DEF RestoreRetained, Lease, BeginReclaim, Ready, Verified, Holds,
       Sealed, TypeOK, LeasesPinGenerations
  <2>5. RequestsFit'
    BY <1>9 DEF RestoreRetained, Lease, BeginReclaim, Ready, Verified, Holds,
       Sealed, TypeOK, LockDiscipline, RequestsFit, Publishing, Recovering, Gens,
       Manifests, Dirs
  <2>6. TodoExists'
    BY <1>9 DEF RestoreRetained, Lease, BeginReclaim, Ready, Verified, Holds,
       Sealed, TypeOK, TodoExists
  <2>7. DirsAreNamed'
    BY <1>9 DEF RestoreRetained, DirsAreNamed
  <2> QED BY <2>1, <2>2, <2>3, <2>4, <2>5, <2>6, <2>7
<1>10. ASSUME FindNothing(a) PROVE IInv'
  <2>1. TypeOK'
    BY <1>10 DEF FindNothing, BeginReclaim, TypeOK, Gens, Manifests, Pointers, Dirs,
       Health, Passes, PC, Publishing, Recovering
  <2>2. LockDiscipline'
    BY <1>10 DEF FindNothing, BeginReclaim, TypeOK, LockDiscipline, Publishing,
       Recovering
  <2>3. RequestsFit'
    BY <1>10 DEF FindNothing, BeginReclaim, TypeOK, LockDiscipline, RequestsFit,
       Publishing, Recovering, Gens, Manifests, Dirs
  <2>4. TodoExists'
    BY <1>10 DEF FindNothing, BeginReclaim, TypeOK, TodoExists
  <2>5. DirsAreNamed' /\ PointersNameGenerations' /\ LeasesPinGenerations'
    BY <1>10 DEF FindNothing, DirsAreNamed, PointersNameGenerations,
       LeasesPinGenerations
  <2> QED BY <2>1, <2>2, <2>3, <2>4, <2>5
<1>11. ASSUME NEW g \in Gens, Visit(a, g) PROVE IInv'
  <2>1. pc[a] = "reclaiming" /\ g \in pass.todo /\ dir[g] # None
    BY <1>11 DEF Visit, TodoExists
  <2>2. pass \in Passes
    BY DEF TypeOK
  <2>3. /\ pass' \in Passes
        /\ pass'.todo \subseteq pass.todo
        /\ pass'.todo = pass.todo \/ (pass'.todo = pass.todo \ {g})
        /\ dir'[g] = None => g \notin pass'.todo
        /\ dir' \in [Gens -> Dirs \cup {None}]
        /\ \A k \in Gens : k # g => dir'[k] = dir[k]
        /\ dir'[g] = dir[g] \/ (~Preserved(g) /\ ~Leased(g))
        /\ dir'[g] # None => dir'[g].manifest = dir[g].manifest
    <3>1. CASE Preserved(g)
      BY <1>11, <2>1, <2>2, <3>1 DEF Visit, Passes, TypeOK
    <3>2. CASE ~Preserved(g) /\ Leased(g)
      <4>1. /\ pass' = [pass EXCEPT !.todo = @ \ {g}, !.deferred = @ \cup {g}]
            /\ UNCHANGED dir
        BY <1>11, <3>2 DEF Visit
      <4>2. /\ pass'.original = pass.original /\ pass'.keepAll = pass.keepAll
            /\ pass'.todo = pass.todo \ {g} /\ pass'.deferred = pass.deferred \cup {g}
            /\ pass' = [original |-> pass'.original, keepAll |-> pass'.keepAll,
                        todo |-> pass'.todo, deferred |-> pass'.deferred]
        BY <2>2, <4>1 DEF Passes
      <4>3. pass' \in Passes
        BY <2>2, <4>2 DEF Passes
      <4> QED BY <2>1, <4>1, <4>2, <4>3 DEF TypeOK
    <3>3. CASE ~Preserved(g) /\ ~Leased(g) /\ dir[g].health # "torn"
      BY <1>11, <2>1, <2>2, <3>3, SpoilEffect DEF Visit, Health, Passes, TypeOK
    <3>4. CASE ~Preserved(g) /\ ~Leased(g) /\ dir[g].health = "torn"
      BY <1>11, <2>1, <2>2, <3>4 DEF Visit, Passes, TypeOK
    <3> QED BY <3>1, <3>2, <3>3, <3>4
  <2>4. UNCHANGED <<staged, candidates, active, retained, publication, recovery,
                    sharing, pc, request, leases, operation, faults>>
    BY <1>11 DEF Visit
  <2>5. TypeOK'
    BY <2>3, <2>4 DEF TypeOK
  <2>6. LockDiscipline'
    BY <2>4 DEF LockDiscipline
  <2>7. DirsAreNamed'
    BY <2>1, <2>3 DEF DirsAreNamed
  <2>8. PointersNameGenerations'
    BY <2>3, <2>4 DEF PointersNameGenerations, Preserved, Named, Manifests
  <2>9. LeasesPinGenerations'
    BY <2>3, <2>4 DEF TypeOK, LeasesPinGenerations, Leased, Manifests
  <2>10. \A b \in Actors : b # a => pc[b] \notin Publishing \cup Recovering \cup {"leasing"}
    BY <2>1 DEF LockDiscipline, Publishing, Recovering
  <2>11. RequestsFit'
    BY <2>1, <2>4, <2>10 DEF RequestsFit, Publishing, Recovering
  <2>12. TodoExists'
    BY <2>2, <2>3 DEF TodoExists, Passes
  <2> QED BY <2>5, <2>6, <2>7, <2>8, <2>9, <2>11, <2>12
<1>12. ASSUME ReclaimStage(a) PROVE IInv'
  <2>1. TypeOK'
    BY <1>12 DEF ReclaimStage, TypeOK
  <2>2. LockDiscipline'
    BY <1>12 DEF ReclaimStage, LockDiscipline
  <2>3. RequestsFit'
    BY <1>12 DEF ReclaimStage, TypeOK, LockDiscipline, RequestsFit, Publishing,
       Recovering, Gens, Manifests, Dirs
  <2>4. DirsAreNamed' /\ PointersNameGenerations' /\ LeasesPinGenerations' /\
        TodoExists'
    BY <1>12 DEF ReclaimStage, DirsAreNamed, PointersNameGenerations,
       LeasesPinGenerations, TodoExists
  <2> QED BY <2>1, <2>2, <2>3, <2>4
<1>13. ASSUME ReclaimCandidate(a) PROVE IInv'
  <2>1. TypeOK'
    BY <1>13 DEF ReclaimCandidate, TypeOK
  <2>2. LockDiscipline'
    BY <1>13 DEF ReclaimCandidate, LockDiscipline
  <2>3. RequestsFit'
    BY <1>13 DEF ReclaimCandidate, TypeOK, LockDiscipline, RequestsFit, Publishing,
       Recovering, Gens, Manifests, Dirs
  <2>4. DirsAreNamed' /\ PointersNameGenerations' /\ LeasesPinGenerations' /\
        TodoExists'
    BY <1>13 DEF ReclaimCandidate, DirsAreNamed, PointersNameGenerations,
       LeasesPinGenerations, TodoExists
  <2> QED BY <2>1, <2>2, <2>3, <2>4
<1>14. ASSUME EndRecovery(a) PROVE IInv'
  <2>1. TypeOK'
    BY <1>14 DEF EndRecovery, NoPass, TypeOK, Gens, Manifests, Pointers, Dirs,
       Health, Passes, PC, Publishing, Recovering
  <2>2. LockDiscipline'
    BY <1>14 DEF EndRecovery, TypeOK, LockDiscipline, Publishing, Recovering
  <2>3. RequestsFit'
    BY <1>14 DEF EndRecovery, TypeOK, LockDiscipline, RequestsFit, Publishing,
       Recovering, Gens, Manifests, Dirs
  <2>4. TodoExists'
    BY <1>14 DEF EndRecovery, NoPass, TypeOK, TodoExists
  <2>5. DirsAreNamed' /\ PointersNameGenerations' /\ LeasesPinGenerations'
    BY <1>14 DEF EndRecovery, DirsAreNamed, PointersNameGenerations,
       LeasesPinGenerations
  <2> QED BY <2>1, <2>2, <2>3, <2>4, <2>5
<1> QED BY <1>1, <1>2, <1>3, <1>4, <1>5, <1>6, <1>7, <1>8, <1>9, <1>10, <1>11,
        <1>12, <1>13, <1>14 DEF RecoverStep

LEMMA PublishSteps ==
    ASSUME IInv, NEW a \in Refreshers, PublishStep(a) PROVE IInv'
<1> USE StoreAssumption DEF IInv, Actors, Goto, files, locks, procs
<1>1. ASSUME Build(a) PROVE IInv'
  <2>1. TypeOK'
    <3>1. Observed(a) \subseteq Gens \cup {None}
      BY DEF Observed, TypeOK, Manifests
    <3>2. operation[a] \in Gens
      BY <1>1 DEF Build, RequestsFit
    <3>3. \A e \in Observed(a), c \in Contents :
            [gen |-> operation[a], expected |-> e, content |-> c] \in Manifests
      BY <3>1, <3>2 DEF Manifests
    <3> QED BY <1>1, <3>3 DEF Build, TypeOK, PC
  <2>2. LockDiscipline'
    BY <1>1 DEF Build, TypeOK, LockDiscipline, Publishing, Recovering
  <2>3. RequestsFit'
    BY <1>1 DEF Build, Observed, TypeOK, LockDiscipline, RequestsFit, Pinned, Holds,
       Sealed, Ready, Verified, Named, Publishing, Recovering, Gens, Manifests,
       Dirs, Pointers
  <2>4. DirsAreNamed' /\ PointersNameGenerations' /\ LeasesPinGenerations' /\
        TodoExists'
    BY <1>1 DEF Build, DirsAreNamed, PointersNameGenerations, LeasesPinGenerations,
       TodoExists
  <2> QED BY <2>1, <2>2, <2>3, <2>4
<1>2. ASSUME GiveUp(a) PROVE IInv'
  <2>1. TypeOK'
    BY <1>2 DEF GiveUp, Return, TypeOK, Gens, Manifests, Dirs, PC, Publishing,
       Recovering
  <2>2. LockDiscipline'
    BY <1>2 DEF GiveUp, Return, TypeOK, LockDiscipline, Publishing, Recovering
  <2>3. LeasesPinGenerations'
    BY <1>2 DEF GiveUp, Return, TypeOK, LeasesPinGenerations
  <2>4. RequestsFit'
    BY <1>2 DEF GiveUp, Return, TypeOK, LockDiscipline, RequestsFit, Pinned, Holds,
       Sealed, Ready, Verified, Named, Publishing, Recovering, Gens, Manifests,
       Dirs, Pointers
  <2>5. DirsAreNamed' /\ PointersNameGenerations' /\ TodoExists'
    BY <1>2 DEF GiveUp, DirsAreNamed, PointersNameGenerations, TodoExists
  <2> QED BY <2>1, <2>2, <2>3, <2>4, <2>5
<1>3. ASSUME BeginPublish(a) PROVE IInv'
  <2>1. TypeOK'
    BY <1>3, ReturnEffect DEF BeginPublish, TypeOK, PC, Publishing
  <2>2. LockDiscipline'
    BY <1>3 DEF BeginPublish, Return, TypeOK, LockDiscipline, Publishing, Recovering
  <2>3. LeasesPinGenerations'
    BY <1>3 DEF BeginPublish, Return, TypeOK, LeasesPinGenerations
  <2>4. RequestsFit'
    BY <1>3 DEF BeginPublish, Return, TypeOK, LockDiscipline, RequestsFit, Pinned,
       Holds, Sealed, Ready, Verified, Named, Publishing, Recovering, Gens,
       Manifests, Dirs, Pointers
  <2>5. DirsAreNamed' /\ PointersNameGenerations' /\ TodoExists'
    BY <1>3 DEF BeginPublish, DirsAreNamed, PointersNameGenerations, TodoExists
  <2> QED BY <2>1, <2>2, <2>3, <2>4, <2>5
<1>4. ASSUME AlreadyActive(a) PROVE IInv'
  <2>1. TypeOK'
    BY <1>4 DEF AlreadyActive, Return, TypeOK, Gens, Manifests, Dirs, PC,
       Publishing, Recovering
  <2>2. LockDiscipline'
    BY <1>4 DEF AlreadyActive, Return, TypeOK, LockDiscipline, Publishing,
       Recovering
  <2>3. LeasesPinGenerations'
    BY <1>4 DEF AlreadyActive, Return, TypeOK, LeasesPinGenerations
  <2>4. RequestsFit'
    BY <1>4 DEF AlreadyActive, Return, TypeOK, LockDiscipline, RequestsFit, Pinned,
       Holds, Sealed, Ready, Verified, Named, Publishing, Recovering, Gens,
       Manifests, Dirs, Pointers
  <2>5. DirsAreNamed' /\ PointersNameGenerations' /\ TodoExists'
    BY <1>4 DEF AlreadyActive, DirsAreNamed, PointersNameGenerations, TodoExists
  <2> QED BY <2>1, <2>2, <2>3, <2>4, <2>5
<1>5. ASSUME MatchExisting(a) PROVE IInv'
  <2>1. TypeOK'
    <3>1. request[a] \in Manifests
      BY <1>5 DEF MatchExisting, RequestsFit, Publishing
    <3> QED BY <1>5, <3>1, LeaseEffect DEF MatchExisting, TypeOK, PC, Publishing
  <2>2. LockDiscipline'
    BY <1>5 DEF MatchExisting, TypeOK, LockDiscipline, Publishing, Recovering
  <2>3. LeasesPinGenerations'
    BY <1>5 DEF MatchExisting, Lease, Admitted, Ready, Verified, Holds, Sealed,
       TypeOK, LeasesPinGenerations
  <2>4. RequestsFit'
    BY <1>5 DEF MatchExisting, Lease, Admitted, Ready, Verified, Holds, Sealed,
       TypeOK, LockDiscipline, RequestsFit, Pinned, Named, Publishing, Recovering,
       Gens, Manifests, Dirs, Pointers
  <2>5. DirsAreNamed' /\ PointersNameGenerations' /\ TodoExists'
    BY <1>5 DEF MatchExisting, DirsAreNamed, PointersNameGenerations, TodoExists
  <2> QED BY <2>1, <2>2, <2>3, <2>4, <2>5
<1>6. ASSUME SealSource(a) PROVE IInv'
  <2>1. TypeOK'
    BY <1>6 DEF SealSource, TypeOK, Gens, Manifests, Dirs, PC, Publishing,
       Recovering
  <2>2. LockDiscipline'
    BY <1>6 DEF SealSource, TypeOK, LockDiscipline, Publishing, Recovering
  <2>3. RequestsFit'
    BY <1>6 DEF SealSource, Admitted, TypeOK, LockDiscipline, RequestsFit, Pinned,
       Holds, Sealed, Ready, Verified, Named, Publishing, Recovering, Gens,
       Manifests, Dirs, Pointers
  <2>4. DirsAreNamed' /\ PointersNameGenerations' /\ LeasesPinGenerations' /\
        TodoExists'
    BY <1>6 DEF SealSource, DirsAreNamed, PointersNameGenerations,
       LeasesPinGenerations, TodoExists
  <2> QED BY <2>1, <2>2, <2>3, <2>4
<1>7. ASSUME Refuse(a) PROVE IInv'
  <2>1. TypeOK'
    BY <1>7 DEF Refuse, Return, TypeOK, Gens, Manifests, Dirs, PC, Publishing,
       Recovering
  <2>2. LockDiscipline'
    BY <1>7 DEF Refuse, Return, TypeOK, LockDiscipline, Publishing, Recovering
  <2>3. LeasesPinGenerations'
    BY <1>7 DEF Refuse, Return, TypeOK, LeasesPinGenerations
  <2>4. RequestsFit'
    BY <1>7 DEF Refuse, Return, TypeOK, LockDiscipline, RequestsFit, Pinned, Holds,
       Sealed, Ready, Verified, Named, Publishing, Recovering, Gens, Manifests,
       Dirs, Pointers
  <2>5. DirsAreNamed' /\ PointersNameGenerations' /\ TodoExists'
    BY <1>7 DEF Refuse, DirsAreNamed, PointersNameGenerations, TodoExists
  <2> QED BY <2>1, <2>2, <2>3, <2>4, <2>5
<1>8. ASSUME SealIndex(a) PROVE IInv'
  <2>1. TypeOK'
    BY <1>8 DEF SealIndex, TypeOK, Gens, Manifests, Dirs, PC, Publishing, Recovering
  <2>2. LockDiscipline'
    BY <1>8 DEF SealIndex, TypeOK, LockDiscipline, Publishing, Recovering
  <2>3. RequestsFit'
    BY <1>8 DEF SealIndex, TypeOK, LockDiscipline, RequestsFit, Pinned, Holds,
       Sealed, Ready, Verified, Named, Publishing, Recovering, Gens, Manifests,
       Dirs, Pointers
  <2>4. DirsAreNamed' /\ PointersNameGenerations' /\ LeasesPinGenerations' /\
        TodoExists'
    BY <1>8 DEF SealIndex, DirsAreNamed, PointersNameGenerations,
       LeasesPinGenerations, TodoExists
  <2> QED BY <2>1, <2>2, <2>3, <2>4
<1>9. ASSUME SealManifest(a) PROVE IInv'
  <2>1. TypeOK'
    BY <1>9 DEF SealManifest, TypeOK, Gens, Manifests, Dirs, PC, Publishing,
       Recovering
  <2>2. LockDiscipline'
    BY <1>9 DEF SealManifest, TypeOK, LockDiscipline, Publishing, Recovering
  <2>3. RequestsFit'
    BY <1>9 DEF SealManifest, TypeOK, LockDiscipline, RequestsFit, Pinned, Holds,
       Sealed, Ready, Verified, Named, Publishing, Recovering, Gens, Manifests,
       Dirs, Pointers
  <2>4. DirsAreNamed' /\ PointersNameGenerations' /\ LeasesPinGenerations' /\
        TodoExists'
    BY <1>9 DEF SealManifest, DirsAreNamed, PointersNameGenerations,
       LeasesPinGenerations, TodoExists
  <2> QED BY <2>1, <2>2, <2>3, <2>4
<1>10. ASSUME Promote(a) PROVE IInv'
  <2> DEFINE m == request[a]
  <2>1. m \in Manifests /\ m.expected = Named(active) /\ (active = None \/ Ready)
    BY <1>10 DEF Promote, RequestsFit, Publishing
  <2>2. /\ m.gen \in Gens
        /\ dir' \in [Gens -> Dirs \cup {None}]
        /\ dir'[m.gen] # None
        /\ dir'[m.gen].manifest = m
        /\ dir'[m.gen].health = "sealed"
        /\ \A g \in Gens : g # m.gen => dir'[g] = dir[g]
    BY <1>10, <2>1, PromotionEffect DEF Promote
  <2>3. \A g \in Gens : dir[g] # None => dir'[g] = dir[g]
    BY <1>10, <2>2 DEF Promote
  <2>4. /\ leases' \in [Actors -> SUBSET Manifests]
        /\ \A b \in Actors : leases'[b] \subseteq leases[b] \cup {m}
    BY <1>10, <2>1, LeaseEffect DEF Promote
  <2>5. TypeOK'
    BY <1>10, <2>2, <2>4 DEF Promote, TypeOK, PC, Publishing
  <2>6. LockDiscipline'
    BY <1>10 DEF Promote, TypeOK, LockDiscipline, Publishing, Recovering
  <2>7. DirsAreNamed'
    BY <2>1, <2>2 DEF DirsAreNamed
  <2>8. PointersNameGenerations'
    BY <1>10, <2>3 DEF Promote, TypeOK, PointersNameGenerations, Manifests
  <2>9. LeasesPinGenerations'
    BY <2>1, <2>2, <2>3, <2>4 DEF TypeOK, LeasesPinGenerations, Manifests
  <2>10. pc[a] = "manifestSealed" /\ pc'[a] = "activating"
         /\ \A b \in Actors : b # a => pc'[b] = pc[b]
    BY <1>10 DEF Promote, TypeOK
  <2>11. \A b \in Actors : b # a => pc[b] \notin Publishing \cup Recovering
    BY <2>10 DEF LockDiscipline, Publishing, Recovering
  <2>12. Ready => Ready'
    BY <1>10, <2>3 DEF Promote, Ready, Verified, Holds, Sealed, Manifests
  <2>13. \A b \in Actors : pc[b] = "leasing" /\ request[b] # None => Pinned(request[b])'
    BY <1>10, <2>3 DEF Promote, TypeOK, RequestsFit, Pinned, Manifests
  <2>14. RequestsFit'
    BY <1>10, <2>1, <2>2, <2>10, <2>11, <2>12, <2>13
    DEF Promote, RequestsFit, Holds, Sealed, Named, Publishing, Recovering
  <2>15. TodoExists'
    BY <1>10, <2>3 DEF Promote, TypeOK, TodoExists, Passes
  <2> QED BY <2>5, <2>6, <2>7, <2>8, <2>9, <2>14, <2>15
<1>11. ASSUME Retain(a) PROVE IInv'
  <2>1. TypeOK'
    BY <1>11 DEF Retain, TypeOK, Gens, Manifests, Dirs, PC, Publishing, Recovering
  <2>2. LockDiscipline'
    BY <1>11 DEF Retain, TypeOK, LockDiscipline, Publishing, Recovering
  <2>3. PointersNameGenerations'
    BY <1>11 DEF Retain, PointersNameGenerations
  <2>4. RequestsFit'
    BY <1>11 DEF Retain, Ready, Verified, Holds, Sealed, TypeOK, LockDiscipline,
       RequestsFit, Pinned, Named, Publishing, Recovering, Gens, Manifests, Dirs,
       Pointers
  <2>5. DirsAreNamed' /\ LeasesPinGenerations' /\ TodoExists'
    BY <1>11 DEF Retain, DirsAreNamed, LeasesPinGenerations, TodoExists
  <2> QED BY <2>1, <2>2, <2>3, <2>4, <2>5
<1>12. ASSUME Commit(a) PROVE IInv'
  <2>1. TypeOK'
    BY <1>12 DEF Commit, Return, Holds, Sealed, TypeOK, Gens, Manifests, Pointers,
       Dirs, Health, Passes, PC, Publishing, Recovering
  <2>2. LockDiscipline'
    BY <1>12 DEF Commit, Return, Holds, Sealed, TypeOK, LockDiscipline, Publishing,
       Recovering
  <2>3. PointersNameGenerations'
    BY <1>12 DEF Commit, TypeOK, PointersNameGenerations, RequestsFit,
       LockDiscipline, Publishing, Holds, Sealed, Pointers
  <2>4. LeasesPinGenerations'
    BY <1>12 DEF Commit, Return, Holds, Sealed, TypeOK, LeasesPinGenerations
  <2>5. RequestsFit'
    BY <1>12 DEF Commit, Return, Holds, Sealed, TypeOK, LockDiscipline, RequestsFit,
       Pinned, Ready, Verified, Named, Publishing, Recovering, Gens, Manifests,
       Dirs, Pointers
  <2>6. DirsAreNamed' /\ TodoExists'
    BY <1>12 DEF Commit, DirsAreNamed, TodoExists
  <2> QED BY <2>1, <2>2, <2>3, <2>4, <2>5, <2>6
<1>13. ASSUME Abandon(a) PROVE IInv'
  <2>1. TypeOK'
    BY <1>13 DEF Abandon, Return, TypeOK, Gens, Manifests, Dirs, PC, Publishing,
       Recovering
  <2>2. LockDiscipline'
    BY <1>13 DEF Abandon, Return, TypeOK, LockDiscipline, Publishing, Recovering
  <2>3. LeasesPinGenerations'
    BY <1>13 DEF Abandon, Return, TypeOK, LeasesPinGenerations
  <2>4. RequestsFit'
    BY <1>13 DEF Abandon, Return, TypeOK, LockDiscipline, RequestsFit, Pinned,
       Holds, Sealed, Ready, Verified, Named, Publishing, Recovering, Gens,
       Manifests, Dirs, Pointers
  <2>5. DirsAreNamed' /\ PointersNameGenerations' /\ TodoExists'
    BY <1>13 DEF Abandon, DirsAreNamed, PointersNameGenerations, TodoExists
  <2> QED BY <2>1, <2>2, <2>3, <2>4, <2>5
<1> QED BY <1>1, <1>2, <1>3, <1>4, <1>5, <1>6, <1>7, <1>8, <1>9, <1>10, <1>11,
        <1>12, <1>13 DEF PublishStep

LEMMA CrashSteps ==
    ASSUME IInv, NEW a \in Actors, Crash(a) PROVE IInv'
<1> USE StoreAssumption DEF IInv, Actors, Goto, files, locks, procs
<1>1. TypeOK'
  <2>1. NoPass \in Passes
    BY DEF NoPass, Passes
  <2>2. staged' \subseteq Manifests \cup {None}
    BY DEF Crash, TypeOK, RequestsFit, Publishing
  <2> QED BY <2>1, <2>2, ReturnEffect DEF Crash, TypeOK
<1>2. LockDiscipline'
  BY DEF Crash, Return, TypeOK, LockDiscipline, RequestsFit, Publishing, Recovering
<1>3. LeasesPinGenerations'
  BY ReturnEffect DEF Crash, TypeOK, LeasesPinGenerations
<1>4. RequestsFit'
  BY DEF Crash, Return, TypeOK, RequestsFit, Pinned, Holds, Sealed, Ready, Verified,
         Named, Publishing
<1>5. DirsAreNamed' /\ PointersNameGenerations' /\ TodoExists'
  BY DEF Crash, NoPass, DirsAreNamed, PointersNameGenerations, TodoExists
<1> QED BY <1>1, <1>2, <1>3, <1>4, <1>5

LEMMA DamageSteps ==
    ASSUME IInv, Damage PROVE IInv'
<1> USE StoreAssumption DEF IInv, Actors, files, locks, procs
<1>1. ASSUME DamagePointer PROVE IInv'
  <2>1. TypeOK'
    BY <1>1 DEF DamagePointer, TypeOK, Pointers
  <2>2. PointersNameGenerations'
    BY <1>1 DEF DamagePointer, PointersNameGenerations
  <2>3. RequestsFit'
    BY <1>1 DEF DamagePointer, LockDiscipline, RequestsFit, Pinned, Publishing, Recovering
  <2>4. LockDiscipline' /\ DirsAreNamed' /\ LeasesPinGenerations' /\ TodoExists'
    BY <1>1 DEF DamagePointer, LockDiscipline, DirsAreNamed, LeasesPinGenerations,
                TodoExists
  <2> QED BY <2>1, <2>2, <2>3, <2>4
<1>2. ASSUME NEW g \in Gens, DamageGeneration(g) PROVE IInv'
  <2>1. /\ dir' \in [Gens -> Dirs \cup {None}]
        /\ dir'[g] # None
        /\ dir'[g].manifest = dir[g].manifest
        /\ dir'[g].health = "damaged"
        /\ \A k \in Gens : k # g => dir'[k] = dir[k]
    BY <1>2, SpoilEffect DEF DamageGeneration, Sealed, Health
  <2>2. UNCHANGED <<staged, candidates, active, retained, locks, procs, pass>>
    BY <1>2 DEF DamageGeneration
  <2>3. faults' \in Nat
    BY <1>2 DEF DamageGeneration, TypeOK
  <2>4. \A m \in Manifests : Pinned(m) => Pinned(m)'
    BY <2>1 DEF Pinned, Manifests
  <2>5. TypeOK'
    BY <2>1, <2>2, <2>3 DEF TypeOK
  <2>6. LockDiscipline'
    BY <2>2 DEF LockDiscipline
  <2>7. DirsAreNamed'
    BY <1>2, <2>1 DEF DamageGeneration, Sealed, DirsAreNamed
  <2>8. PointersNameGenerations' /\ LeasesPinGenerations'
    BY <2>2, <2>4 DEF TypeOK, PointersNameGenerations, LeasesPinGenerations, Pinned
  <2>9. \A b \in Actors : pc[b] \notin Publishing \cup Recovering \cup {"locking"}
    BY <1>2 DEF DamageGeneration, LockDiscipline, TypeOK
  <2>10. RequestsFit'
    BY <2>2, <2>4, <2>9 DEF TypeOK, RequestsFit, Publishing, Recovering
  <2>11. TodoExists'
    BY <1>2, <2>1, <2>2 DEF DamageGeneration, Sealed, TypeOK, TodoExists, Passes
  <2> QED BY <2>5, <2>6, <2>7, <2>8, <2>10, <2>11
<1> QED BY <1>1, <1>2 DEF Damage

-----------------------------------------------------------------------------
LEMMA InitInvariant == Init => IInv
<1> SUFFICES ASSUME Init PROVE IInv
  OBVIOUS
<1> USE StoreAssumption DEF Init, Actors
<1>1. TypeOK
  BY DEF TypeOK, Pointers, PC, Passes, NoPass
<1>2. LockDiscipline
  BY DEF LockDiscipline, Publishing, Recovering
<1>3. DirsAreNamed /\ PointersNameGenerations /\ LeasesPinGenerations /\ TodoExists
  BY DEF DirsAreNamed, PointersNameGenerations, LeasesPinGenerations, TodoExists, NoPass
<1>4. RequestsFit
  BY DEF RequestsFit, Publishing
<1> QED BY <1>1, <1>2, <1>3, <1>4 DEF IInv

LEMMA NextInvariant == IInv /\ [Next]_vars => IInv'
<1> SUFFICES ASSUME IInv, [Next]_vars PROVE IInv'
  OBVIOUS
<1>1. CASE Next
  BY <1>1, ReaderSteps, RecoverSteps, PublishSteps, CrashSteps, DamageSteps DEF Next
<1>2. CASE UNCHANGED vars
  <2> USE <1>2 DEF vars, files, locks, procs, IInv
  <2>1. TypeOK' /\ LockDiscipline'
    BY DEF TypeOK, LockDiscipline
  <2>2. DirsAreNamed' /\ PointersNameGenerations' /\ LeasesPinGenerations' /\ TodoExists'
    BY DEF DirsAreNamed, PointersNameGenerations, LeasesPinGenerations, TodoExists
  <2>3. RequestsFit'
    BY DEF RequestsFit, Pinned, Holds, Sealed, Ready, Verified, Named
  <2> QED BY <2>1, <2>2, <2>3
<1> QED BY <1>1, <1>2

(* The inductive invariant holds of every behaviour.                         *)
THEOREM Invariance == Spec => []IInv
BY InitInvariant, NextInvariant, PTL DEF Spec

(* Every variable keeps its type, for any number of processes, operation ids,
   contents and faults.                                                      *)
THEOREM TypeCorrect == Spec => []TypeOK
<1>1. IInv => TypeOK
  BY DEF IInv
<1> QED BY <1>1, Invariance, PTL

(* The publication and recovery locks exclude what they are meant to exclude,
   however recoveries, publications, readers and crashes interleave.         *)
THEOREM LocksExclude == Spec => []LockDiscipline
<1>1. IInv => LockDiscipline
  BY DEF IInv
<1> QED BY <1>1, Invariance, PTL

(* Neither pointer ever names a generation that reclamation has begun to
   delete, or whose directory another publication has taken.                 *)
THEOREM PointersSafe == Spec => []PointersNameGenerations
<1>1. IInv => PointersNameGenerations
  BY DEF IInv
<1> QED BY <1>1, Invariance, PTL

(* A leased generation is never reclaimed nor replaced under its holder.     *)
THEOREM LeasesSafe == Spec => []LeasesPinGenerations
<1>1. IInv => LeasesPinGenerations
  BY DEF IInv
<1> QED BY <1>1, Invariance, PTL

-----------------------------------------------------------------------------
(* Which actions write which file, and what they find there.               *)

LEMMA DirWriters ==
    ASSUME Next, ~Damage, dir' # dir
    PROVE  \E a \in Refreshers :
              \/ Complete(a) \/ Promote(a)
              \/ \E g \in Gens : Visit(a, g)
<1> USE DEF files, procs, locks
<1>1. ASSUME NEW r \in Readers, ReaderStep(r) PROVE FALSE
  BY <1>1 DEF ReaderStep, BeginLease, EndLease, DropLease
<1>2. ASSUME NEW a \in Actors, Crash(a) PROVE FALSE
  BY <1>2 DEF Crash
<1>3. ASSUME NEW a \in Refreshers, RecoverStep(a)
      PROVE  Complete(a) \/ \E g \in Gens : Visit(a, g)
  BY <1>3 DEF RecoverStep, BeginRefresh, ExcludeReaders, Scan, Obstructed,
     RetainRecovered, ActivateRecovered, KeepReady, RestoreRetained, FindNothing,
     ReclaimStage, ReclaimCandidate, EndRecovery
<1>4. ASSUME NEW a \in Refreshers, PublishStep(a) PROVE Promote(a)
  BY <1>4 DEF PublishStep, Build, GiveUp, BeginPublish, AlreadyActive, MatchExisting,
     SealSource, Refuse, SealIndex, SealManifest, Retain, Commit, Abandon
<1> QED BY <1>1, <1>2, <1>3, <1>4 DEF Next

LEMMA PointerWriters ==
    ASSUME Next, ~Damage
    PROVE  /\ active' # active => \E a \in Refreshers :
                ActivateRecovered(a) \/ RestoreRetained(a) \/ Commit(a)
           /\ retained' # retained => \E a \in Refreshers :
                Scan(a) \/ RetainRecovered(a) \/ Retain(a)
<1> USE DEF files, procs, locks
<1>1. ASSUME NEW r \in Readers, ReaderStep(r) PROVE UNCHANGED <<active, retained>>
  BY <1>1 DEF ReaderStep, BeginLease, EndLease, DropLease
<1>2. ASSUME NEW a \in Actors, Crash(a) PROVE UNCHANGED <<active, retained>>
  BY <1>2 DEF Crash
<1>3. ASSUME NEW a \in Refreshers, RecoverStep(a)
      PROVE  /\ active' # active => ActivateRecovered(a) \/ RestoreRetained(a)
             /\ retained' # retained => Scan(a) \/ RetainRecovered(a)
  BY <1>3 DEF RecoverStep, BeginRefresh, ExcludeReaders, Scan, Complete, Obstructed,
     RetainRecovered, ActivateRecovered, KeepReady, RestoreRetained, FindNothing,
     Visit, ReclaimStage, ReclaimCandidate, EndRecovery
<1>4. ASSUME NEW a \in Refreshers, PublishStep(a)
      PROVE  /\ active' # active => Commit(a)
             /\ retained' # retained => Retain(a)
  BY <1>4 DEF PublishStep, Build, GiveUp, BeginPublish, AlreadyActive, MatchExisting,
     SealSource, Refuse, SealIndex, SealManifest, Promote, Retain, Commit, Abandon
<1> QED BY <1>1, <1>2, <1>3, <1>4 DEF Next

(* The generations the pointers can be trusted about survive every step.   *)
LEMMA TargetsSurvive ==
    ASSUME IInv, Next, ~Damage,
           NEW p \in {active, retained}, Verified(p)
    PROVE  Verified(p)'
<1> USE StoreAssumption DEF IInv
<1>1. p \in Manifests /\ p.gen \in Gens /\ Holds(p)
  BY DEF Verified, Manifests
<1>2. ASSUME NEW a \in Refreshers, Complete(a) PROVE dir'[p.gen] = dir[p.gen]
  <2>1. \A m \in Pending : m \in Manifests /\ m.gen \in Gens
    BY PendingEffect
  <2> QED BY <1>1, <1>2, <2>1 DEF Complete, TypeOK, Holds, Sealed
<1>3. ASSUME NEW a \in Refreshers, Promote(a) PROVE dir'[p.gen] = dir[p.gen]
  <2>1. request[a] \in Manifests /\ request[a].gen \in Gens
    BY <1>3 DEF Promote, RequestsFit, Publishing, Manifests, Actors
  <2> QED BY <1>1, <1>3, <2>1 DEF Promote, TypeOK, Holds, Sealed
<1>4. ASSUME NEW a \in Refreshers, NEW g \in Gens, Visit(a, g)
      PROVE  dir'[p.gen] = dir[p.gen]
  <2>1. CASE g = p.gen
    BY <1>1, <1>4, <2>1 DEF Visit, Preserved, Named
  <2>2. CASE g # p.gen
    BY <1>1, <1>4, <2>2 DEF Visit, TypeOK
  <2> QED BY <2>1, <2>2
<1>5. dir'[p.gen] = dir[p.gen]
  BY <1>2, <1>3, <1>4, DirWriters
<1> QED BY <1>1, <1>5 DEF Verified, Holds, Sealed

LEMMA ActiveMoves ==
    ASSUME IInv, Next, ~Damage, active' # active
    PROVE  /\ Ready'
           /\ \/ active'.expected = Named(active)
              \/ active' = retained /\ ~Ready
<1> USE StoreAssumption DEF IInv, Actors
<1>1. ASSUME NEW a \in Refreshers, ActivateRecovered(a)
      PROVE  Ready' /\ active'.expected = Named(active)
  BY <1>1 DEF ActivateRecovered, RequestsFit, Ready, Verified, Holds, Sealed
<1>2. ASSUME NEW a \in Refreshers, Commit(a)
      PROVE  Ready' /\ active'.expected = Named(active)
  BY <1>2 DEF Commit, RequestsFit, Publishing, Ready, Verified, Holds, Sealed
<1>3. ASSUME NEW a \in Refreshers, RestoreRetained(a)
      PROVE  Ready' /\ active' = retained /\ ~Ready
  BY <1>3 DEF RestoreRetained, Ready, Verified, Holds, Sealed
<1> QED BY <1>1, <1>2, <1>3, PointerWriters

LEMMA RetainedMoves ==
    ASSUME IInv, Next, ~Damage, retained' # retained, Verified(retained)
    PROVE  Ready /\ retained' = active
<1> USE StoreAssumption DEF IInv, Actors
<1>1. ASSUME NEW a \in Refreshers, Scan(a) PROVE FALSE
  BY <1>1 DEF Scan, Repaired
<1>2. ASSUME NEW a \in Refreshers, RetainRecovered(a) PROVE Ready /\ retained' = active
  BY <1>2 DEF RetainRecovered
<1>3. ASSUME NEW a \in Refreshers, Retain(a) PROVE Ready /\ retained' = active
  BY <1>3 DEF Retain, RequestsFit, Publishing
<1> QED BY <1>1, <1>2, <1>3, PointerWriters

(* Readiness moves by compare-and-swap, to a sealed and verified generation,
   or back to the fallback out of an unreadable one.                         *)
THEOREM CompareAndSwap == Spec => ActivationIsCompareAndSwap
<1>1. IInv /\ [Next]_vars =>
        [active' # active /\ ~Damage =>
            /\ Ready'
            /\ \/ active'.expected = Named(active)
               \/ active' = retained /\ ~Ready]_vars
  BY ActiveMoves
<1> QED BY <1>1, Invariance, PTL DEF Spec, ActivationIsCompareAndSwap

(* No step but damage makes a readable store unreadable: not a crash between
   any two renames, not the reclamation of old generations.                  *)
THEOREM ReadinessKept == Spec => ReadyStaysReady
<1>1. ASSUME IInv, Next, ~Damage, Ready PROVE Ready'
  <2>1. CASE active' = active
    BY <1>1, <2>1, TargetsSurvive DEF Ready
  <2>2. CASE active' # active
    BY <1>1, <2>2, ActiveMoves
  <2> QED BY <2>1, <2>2
<1>2. IInv /\ [Next]_vars => [Ready /\ ~Damage => Ready']_vars
  BY <1>1
<1> QED BY <1>2, Invariance, PTL DEF Spec, ReadyStaysReady

(* Nor does any such step lose a fallback that could be restored.            *)
THEOREM FallbackKept == Spec => FallbackStaysUsable
<1>1. ASSUME IInv, Next, ~Damage, Verified(retained) PROVE Verified(retained)'
  <2>1. CASE retained' = retained
    BY <1>1, <2>1, TargetsSurvive
  <2>2. CASE retained' # retained
    <3>1. Ready /\ retained' = active
      BY <1>1, <2>2, RetainedMoves
    <3>2. \A p \in {active, retained} : Verified(p) => Verified(p)'
      BY <1>1, TargetsSurvive
    <3> QED BY <3>1, <3>2 DEF Ready
  <2> QED BY <2>1, <2>2
<1>2. IInv /\ [Next]_vars => [Verified(retained) /\ ~Damage => Verified(retained)']_vars
  BY <1>1
<1> QED BY <1>2, Invariance, PTL DEF Spec, FallbackStaysUsable

-----------------------------------------------------------------------------
(* Reclamation: who writes its locals, and what it has not reached yet.    *)

LEMMA PassWriters ==
    ASSUME IInv, Next, pass' # pass
    PROVE  \E a \in Actors : /\ pc[a] \in Recovering
                             /\ pc[a] = "reclaiming" =>
                                  \/ pc'[a] # "reclaiming"
                                  \/ \E g \in Gens : Visit(a, g)
<1> USE StoreAssumption DEF Actors, Recovering
<1>1. ASSUME NEW r \in Readers, ReaderStep(r) PROVE FALSE
  BY <1>1 DEF ReaderStep, BeginLease, EndLease, DropLease
<1>2. ASSUME NEW a \in Actors, Crash(a)
      PROVE  pc[a] \in Recovering /\ pc'[a] = "idle"
  BY <1>2 DEF Crash, Return, IInv, TypeOK, LockDiscipline
<1>3. ASSUME NEW a \in Refreshers, PublishStep(a) PROVE FALSE
  BY <1>3 DEF PublishStep, Build, GiveUp, BeginPublish, AlreadyActive, MatchExisting,
     SealSource, Refuse, SealIndex, SealManifest, Promote, Retain, Commit, Abandon
<1>4. Damage => FALSE
  BY DEF Damage, DamagePointer, DamageGeneration
<1>5. ASSUME NEW a \in Refreshers, RecoverStep(a)
      PROVE  /\ pc[a] \in Recovering
             /\ pc[a] = "reclaiming" => pc'[a] # "reclaiming" \/ \E g \in Gens : Visit(a, g)
  <2>1. CASE Scan(a) \/ ActivateRecovered(a) \/ KeepReady(a) \/ RestoreRetained(a)
             \/ FindNothing(a) \/ Obstructed(a)
    BY <2>1 DEF Scan, ActivateRecovered, KeepReady, RestoreRetained, FindNothing, Obstructed
  <2>2. CASE EndRecovery(a)
    BY <2>2 DEF EndRecovery, Goto, IInv, TypeOK
  <2>3. CASE \E g \in Gens : Visit(a, g)
    BY <2>3 DEF Visit
  <2>4. CASE BeginRefresh(a) \/ ExcludeReaders(a) \/ Complete(a) \/ RetainRecovered(a)
             \/ ReclaimStage(a) \/ ReclaimCandidate(a)
    BY <2>4 DEF BeginRefresh, ExcludeReaders, Complete, RetainRecovered, ReclaimStage,
       ReclaimCandidate
  <2> QED BY <1>5, <2>1, <2>2, <2>3, <2>4 DEF RecoverStep
<1> QED BY <1>1, <1>2, <1>3, <1>4, <1>5 DEF Next

(* An actor that reclaims has only just begun to. *)
LEMMA ReclaimStarts ==
    ASSUME IInv, Next, NEW a \in Refreshers, pc[a] # "reclaiming", pc'[a] = "reclaiming"
    PROVE  pass'.todo = {g \in Gens : dir'[g] # None}
<1> USE StoreAssumption DEF IInv, Actors, TypeOK, Goto, procs
<1>1. ASSUME NEW r \in Readers, ReaderStep(r) PROVE FALSE
  BY <1>1 DEF ReaderStep, BeginLease, EndLease, DropLease
<1>2. ASSUME NEW b \in Actors, Crash(b) PROVE FALSE
  BY <1>2 DEF Crash, Return
<1>3. Damage => FALSE
  BY DEF Damage, DamagePointer, DamageGeneration
<1>4. ASSUME NEW b \in Refreshers, PublishStep(b) PROVE FALSE
  BY <1>4 DEF PublishStep, Build, GiveUp, BeginPublish, AlreadyActive, MatchExisting,
     SealSource, Refuse, SealIndex, SealManifest, Promote, Retain, Commit, Abandon, Return
<1>5. ASSUME NEW b \in Refreshers, RecoverStep(b)
      PROVE  pass'.todo = {g \in Gens : dir'[g] # None}
  <2> USE DEF Passes
  <2>1. CASE ActivateRecovered(b) \/ KeepReady(b) \/ RestoreRetained(b) \/ FindNothing(b)
    <3>1. dir' = dir /\ BeginReclaim(b)
      BY <2>1 DEF ActivateRecovered, KeepReady, RestoreRetained, FindNothing, files
    <3> QED BY <3>1 DEF BeginReclaim
  <2>2. CASE Scan(b) \/ Obstructed(b) \/ EndRecovery(b)
    BY <2>2 DEF Scan, Obstructed, EndRecovery, Return
  <2>3. CASE \E g \in Gens : Visit(b, g)
    BY <2>3 DEF Visit
  <2>4. CASE BeginRefresh(b) \/ ExcludeReaders(b) \/ RetainRecovered(b)
             \/ ReclaimStage(b) \/ ReclaimCandidate(b)
    BY <2>4 DEF BeginRefresh, ExcludeReaders, RetainRecovered, ReclaimStage,
       ReclaimCandidate, Return
  <2>5. CASE Complete(b)
    BY <2>5 DEF Complete
  <2> QED BY <1>5, <2>1, <2>2, <2>3, <2>4, <2>5 DEF RecoverStep
<1> QED BY <1>1, <1>2, <1>3, <1>4, <1>5 DEF Next

(* A visit keeps its entry, defers it to its readers, or unlinks it. *)
LEMMA VisitEffect ==
    ASSUME TypeOK, TodoExists, NEW a \in Refreshers, NEW g \in Gens, Visit(a, g)
    PROVE  /\ pass'.keepAll = pass.keepAll /\ pass'.original = pass.original
           /\ pass'.todo \in {pass.todo, pass.todo \ {g}}
           /\ pass'.deferred \in {pass.deferred, pass.deferred \cup {g}}
           /\ \A h \in Gens \ {g} : dir'[h] = dir[h]
           /\ Preserved(g) \/ g \in pass'.deferred \/ (dir'[g] # None => g \in pass'.todo)
<1>1. pass \in Passes /\ g \in pass.todo /\ dir[g] # None
  BY DEF Visit, TypeOK, TodoExists
<1>2. CASE Preserved(g)
  BY <1>1, <1>2 DEF Visit, Passes
<1>3. CASE ~Preserved(g) /\ Leased(g)
  <2>1. pass' = [pass EXCEPT !.todo = @ \ {g}, !.deferred = @ \cup {g}] /\ UNCHANGED dir
    BY <1>3 DEF Visit
  <2>2. /\ pass'.original = pass.original /\ pass'.keepAll = pass.keepAll
        /\ pass'.todo = pass.todo \ {g} /\ pass'.deferred = pass.deferred \cup {g}
    BY <1>1, <2>1 DEF Passes
  <2> QED BY <2>1, <2>2
<1>4. CASE ~Preserved(g) /\ ~Leased(g) /\ dir[g].health # "torn"
  BY <1>1, <1>4, SpoilEffect DEF Visit, Health
<1>5. CASE ~Preserved(g) /\ ~Leased(g) /\ dir[g].health = "torn"
  BY <1>1, <1>5 DEF Visit, Passes, TypeOK
<1> QED BY <1>2, <1>3, <1>4, <1>5

(* What recover() may leave behind. *)
Kept == {Named(active), Named(retained), pass.original} \cup pass.deferred

(* A generation that reclamation has passed is one it keeps. *)
ReclaimedSoFar ==
    \A a \in Refreshers : pc[a] = "reclaiming" =>
        \/ pass.keepAll \/ ~Ready
        \/ \A g \in Gens : dir[g] # None => g \in pass.todo \cup Kept

LEMMA ReclaimedInit == Init => ReclaimedSoFar
BY DEF Init, ReclaimedSoFar, Actors

LEMMA ReclaimedNext == IInv /\ ReclaimedSoFar /\ [Next]_vars => ReclaimedSoFar'
<1> USE StoreAssumption
<1> SUFFICES ASSUME IInv, ReclaimedSoFar, [Next]_vars, NEW a \in Refreshers,
                    pc'[a] = "reclaiming"
             PROVE  \/ pass'.keepAll \/ ~Ready'
                    \/ \A g \in Gens : dir'[g] # None => g \in pass'.todo \cup Kept'
  BY DEF ReclaimedSoFar
<1>1. CASE UNCHANGED vars
  BY <1>1 DEF vars, files, procs, ReclaimedSoFar, Kept, Ready, Verified, Holds, Sealed, Named
<1>2. CASE Next /\ pc[a] # "reclaiming"
  BY <1>2, ReclaimStarts
<1>3. CASE Next /\ pc[a] = "reclaiming"
  <2>1. publication = a /\ a \in Actors
        /\ \A b \in Actors : b # a => pc[b] \notin Publishing \cup Recovering
    BY <1>3 DEF IInv, LockDiscipline, Publishing, Recovering, Actors
  <2>2. ~Damage
    BY <2>1 DEF Damage, DamagePointer, DamageGeneration
  <2>3. active' = active /\ retained' = retained
    <3>1. ASSUME NEW b \in Refreshers,
                 \/ ActivateRecovered(b) \/ RestoreRetained(b) \/ Commit(b)
                 \/ Scan(b) \/ RetainRecovered(b) \/ Retain(b)
          PROVE  FALSE
      BY <1>3, <2>1, <3>1 DEF ActivateRecovered, RestoreRetained, Commit, Scan,
         RetainRecovered, Retain, Publishing, Recovering, Actors
    <3> QED BY <1>3, <2>2, <3>1, PointerWriters
  <2>4. CASE \E g \in Gens : Visit(a, g)
    <3> USE DEF IInv, TypeOK, Passes
    <3>1. PICK g \in Gens : Visit(a, g)
      BY <2>4
    <3>2. /\ pass'.keepAll = pass.keepAll /\ pass'.original = pass.original
          /\ pass.deferred \subseteq pass'.deferred
          /\ \A h \in Gens \ {g} : dir'[h] = dir[h] /\ (h \in pass.todo => h \in pass'.todo)
          /\ Preserved(g) \/ g \in pass'.deferred \/ (dir'[g] # None => g \in pass'.todo)
      BY <3>1, VisitEffect
    <3>3. SUFFICES ASSUME ~pass'.keepAll, Ready', NEW h \in Gens, dir'[h] # None
                   PROVE  h \in pass'.todo \cup Kept'
      OBVIOUS
    <3>4. Ready
      <4>1. active \in Manifests /\ dir'[active.gen] # None
            /\ dir'[active.gen].health = "sealed" /\ dir'[active.gen].manifest = active
        BY <2>3, <3>3 DEF Ready, Verified, Holds, Sealed
      <4>2. active.gen \in Gens
        BY <4>1 DEF Manifests
      <4>3. dir'[active.gen] = dir[active.gen]
        <5>1. CASE active.gen = g
          BY <3>1, <4>1, <5>1 DEF Visit, Preserved, Named
        <5>2. CASE active.gen # g
          BY <3>2, <4>2, <5>2
        <5> QED BY <5>1, <5>2
      <4> QED BY <4>1, <4>3 DEF Ready, Verified, Holds, Sealed
    <3>5. CASE h = g
      BY <2>3, <3>2, <3>3, <3>4, <3>5 DEF Preserved, Kept, Named
    <3>6. CASE h # g
      <4>1. h \in pass.todo \cup Kept
        BY <1>3, <3>2, <3>3, <3>4, <3>6 DEF ReclaimedSoFar
      <4> QED BY <2>3, <3>2, <3>6, <4>1 DEF Kept, Named
    <3> QED BY <3>5, <3>6
  <2>5. CASE ~\E g \in Gens : Visit(a, g)
    <3>1. pass' = pass
      <4> SUFFICES ASSUME pass' # pass
                   PROVE  FALSE
        OBVIOUS
      <4>1. PICK b \in Actors : /\ pc[b] \in Recovering
                                /\ pc[b] = "reclaiming" =>
                                     pc'[b] # "reclaiming" \/ \E g \in Gens : Visit(b, g)
        BY <1>3, PassWriters
      <4>2. b = a
        BY <2>1, <4>1
      <4> QED BY <1>3, <2>5, <4>1, <4>2
    <3>2. dir' = dir
      <4>1. ASSUME NEW b \in Refreshers,
                   Complete(b) \/ Promote(b) \/ \E g \in Gens : Visit(b, g)
            PROVE  FALSE
        <5>1. pc[b] \in Publishing \cup Recovering
          BY <4>1 DEF Complete, Promote, Visit, Publishing, Recovering
        <5>2. b = a
          BY <2>1, <5>1 DEF Actors
        <5> QED BY <1>3, <2>5, <4>1, <5>2 DEF Complete, Promote
      <4> QED BY <1>3, <2>2, <4>1, DirWriters
    <3> QED BY <1>3, <2>3, <3>1, <3>2
         DEF ReclaimedSoFar, Kept, Ready, Verified, Holds, Sealed, Named
  <2> QED BY <2>4, <2>5
<1> QED BY <1>1, <1>2, <1>3

(* A recovery that found both pointers in order leaves the active and the
   retained generation, those of live readers, no stage and no candidate.  *)
THEOREM StorageBounded == Spec => RecoveryBoundsStorage
<1>1. ASSUME ReclaimedSoFar, NEW a \in Refreshers, EndRecovery(a), Ready, ~pass.keepAll,
             pass.original \in {Named(active), Named(retained)}
      PROVE  /\ {g \in Gens : dir[g] # None} \subseteq
                  {Named(active), Named(retained)} \cup pass.deferred
             /\ staged' = {} /\ candidates' = {}
  <2>1. pc[a] = "reclaiming" /\ pass.todo = {} /\ staged' = {} /\ candidates' = {}
    BY <1>1 DEF EndRecovery, files
  <2>2. \A g \in Gens : dir[g] # None => g \in Kept
    BY <1>1, <2>1 DEF ReclaimedSoFar
  <2> QED BY <1>1, <2>1, <2>2 DEF Kept
<1>2. ReclaimedSoFar =>
        [\A a \in Refreshers :
            /\ EndRecovery(a) /\ Ready /\ ~pass.keepAll
            /\ pass.original \in {Named(active), Named(retained)}
            => /\ {g \in Gens : dir[g] # None} \subseteq
                    {Named(active), Named(retained)} \cup pass.deferred
               /\ staged' = {} /\ candidates' = {}]_vars
  BY <1>1
<1>3. Spec => []ReclaimedSoFar
  <2>1. IInv /\ ReclaimedSoFar /\ [Next]_vars => ReclaimedSoFar'
    BY ReclaimedNext
  <2> QED BY <2>1, ReclaimedInit, Invariance, PTL DEF Spec
<1> QED BY <1>2, <1>3, PTL DEF Spec, RecoveryBoundsStorage

-----------------------------------------------------------------------------
(* The store implements the register.                                      *)

(* Before the first activation there is nothing to fall back to. *)
FallbackFollows == active = None => retained \notin Manifests

LEMMA FallbackInit == Init => FallbackFollows
BY StoreAssumption DEF Init, FallbackFollows

LEMMA FallbackNext == IInv /\ FallbackFollows /\ [Next]_vars => FallbackFollows'
<1> SUFFICES ASSUME IInv, FallbackFollows, [Next]_vars, active' = None
             PROVE  retained' \notin Manifests
  BY DEF FallbackFollows
<1> USE StoreAssumption
<1>1. CASE Damage
  BY <1>1 DEF Damage, DamagePointer, DamageGeneration, FallbackFollows
<1>2. CASE Next /\ ~Damage
  <2>1. active' = active
    BY <1>2, ActiveMoves DEF Ready, Verified
  <2>2. retained' = retained
    <3>1. ASSUME NEW a \in Refreshers, Scan(a) \/ RetainRecovered(a) \/ Retain(a)
          PROVE  retained' = retained
      BY <2>1, <3>1 DEF Scan, Repaired, RetainRecovered, Retain, Ready, Verified
    <3> QED BY <1>2, <3>1, PointerWriters
  <2> QED BY <2>1, <2>2 DEF FallbackFollows
<1>3. CASE UNCHANGED vars
  BY <1>3 DEF vars, files, FallbackFollows
<1> QED BY <1>1, <1>2, <1>3

-----------------------------------------------------------------------------
(* What a reader sees through its leases is what it was granted. *)
LEMMA ReadersSeeGrants ==
    ASSUME IInv
    PROVE  Reading = [r \in Readers |-> Held(r)]
<1> SUFFICES ASSUME NEW r \in Readers
             PROVE  {IF dir[m.gen] = None THEN None ELSE dir[m.gen].manifest : m \in Held(r)}
                      = Held(r)
  BY DEF Reading
<1>1. \A m \in Held(r) : dir[m.gen] # None /\ dir[m.gen].manifest = m
  BY DEF IInv, Held, LeasesPinGenerations, RequestsFit, Pinned, Actors
<1> QED BY <1>1

(* The register moves only with the active pointer and its directory. *)
LEMMA ServingKept ==
    ASSUME UNCHANGED <<dir, active>>
    PROVE  Serving' = Serving
BY DEF Serving, Ready, Verified, Holds, Sealed

LEMMA ReadersSeeGrantsNext ==
    ASSUME IInv'
    PROVE  Reading' = [r \in Readers |-> Held(r)']
<1> SUFFICES ASSUME NEW r \in Readers
             PROVE  {IF dir'[m.gen] = None THEN None ELSE dir'[m.gen].manifest : m \in Held(r)'}
                      = Held(r)'
  BY DEF Reading
<1>1. \A m \in Held(r)' : dir'[m.gen] # None /\ dir'[m.gen].manifest = m
  BY DEF IInv, Held, LeasesPinGenerations, RequestsFit, Pinned, Actors
<1> QED BY <1>1

LEMMA GrantsKept ==
    ASSUME IInv, IInv', \A r \in Readers : Held(r)' = Held(r)
    PROVE  Reading' = Reading
BY ReadersSeeGrants, ReadersSeeGrantsNext

(* One reader's leases change, and the register does not. *)
LEMMA ReaderMoves ==
    ASSUME IInv, IInv', NEW r \in Readers, UNCHANGED <<dir, active>>,
           \A x \in Readers \ {r} : Held(x)' = Held(x),
           \/ Held(r)' \subseteq Held(r)
           \/ Ready /\ Held(r)' = Held(r) \cup {active}
    PROVE  Register!Next \/ UNCHANGED <<Serving, Reading>>
<1>1. Serving' = Serving
  BY ServingKept
<1>2. Reading = [x \in Readers |-> Held(x)] /\ Reading' = [x \in Readers |-> Held(x)']
  <2>1. Reading = [x \in Readers |-> Held(x)]
    BY ReadersSeeGrants
  <2>2. Reading' = [x \in Readers |-> Held(x)']
    BY ReadersSeeGrantsNext
  <2> QED BY <2>1, <2>2
<1>3. Reading' = [Reading EXCEPT ![r] = Held(r)'] /\ Reading[r] = Held(r)
  BY <1>2
<1>4. CASE Held(r)' \subseteq Held(r)
  BY <1>1, <1>3, <1>4 DEF Register!Next, Register!Release
<1>5. CASE Ready /\ Held(r)' = Held(r) \cup {active}
  <2>1. Serving = active /\ active \in Manifests
    BY <1>5 DEF Serving, Ready, Verified
  <2> QED BY <1>1, <1>3, <1>5, <2>1 DEF Register!Next, Register!Acquire
<1> QED BY <1>4, <1>5

LEMMA ReaderImplements ==
    ASSUME IInv, IInv', NEW r \in Readers, ReaderStep(r)
    PROVE  Register!Next \/ UNCHANGED <<Serving, Reading>>
<1> USE StoreAssumption DEF Actors
<1>1. UNCHANGED <<dir, active>>
  BY DEF ReaderStep, BeginLease, EndLease, DropLease, files
<1>2. r \in Actors /\ TypeOK
  BY DEF IInv
<1>3. \A x \in Readers \ {r} : Held(x)' = Held(x)
  BY <1>2 DEF ReaderStep, BeginLease, EndLease, DropLease, Goto, TypeOK, Held
<1>4. CASE BeginLease(r)
  <2>1. leases' = leases /\ pc[r] = "idle" /\ pc'[r] = "leasing"
        /\ request'[r] = IF Ready THEN active ELSE None
    BY <1>2, <1>4 DEF BeginLease, Goto, TypeOK
  <2>2. Ready => active # None
    BY DEF Ready, Verified
  <2>3. Held(r)' = IF Ready THEN Held(r) \cup {active} ELSE Held(r)
    BY <2>1, <2>2 DEF Held
  <2> QED BY <1>1, <1>3, <2>3, ReaderMoves
<1>5. CASE EndLease(r)
  <2>1. pc[r] = "leasing" /\ pc'[r] = "idle"
        /\ leases'[r] = IF request[r] = None THEN leases[r] ELSE leases[r] \cup {request[r]}
    BY <1>2, <1>5 DEF EndLease, Goto, TypeOK
  <2>2. Held(r)' \subseteq Held(r)
    BY <2>1 DEF Held
  <2> QED BY <1>1, <1>3, <2>2, ReaderMoves
<1>6. CASE DropLease(r)
  <2>1. pc'[r] = "idle" /\ leases'[r] \subseteq leases[r]
    BY <1>2, <1>6 DEF DropLease, TypeOK
  <2>2. Held(r)' \subseteq Held(r)
    BY <2>1 DEF Held
  <2> QED BY <1>1, <1>3, <2>2, ReaderMoves
<1> QED BY <1>4, <1>5, <1>6 DEF ReaderStep

LEMMA CrashImplements ==
    ASSUME IInv, IInv', NEW a \in Actors, Crash(a)
    PROVE  Register!Next \/ UNCHANGED <<Serving, Reading>>
<1> USE StoreAssumption
<1>1. UNCHANGED <<dir, active>> /\ Return(a)
  BY DEF Crash
<1>2. TypeOK
  BY DEF IInv
<1>3. \A x \in Readers \ {a} : Held(x)' = Held(x)
  BY <1>1, <1>2 DEF Return, TypeOK, Held, Actors
<1>4. CASE a \in Readers
  <2>1. pc'[a] = "idle" /\ leases'[a] = {}
    BY <1>1, <1>2 DEF Return, TypeOK
  <2>2. Held(a)' \subseteq Held(a)
    BY <2>1 DEF Held
  <2> QED BY <1>1, <1>3, <1>4, <2>2, ReaderMoves
<1>5. CASE a \notin Readers
  BY <1>1, <1>3, <1>5, ServingKept, GrantsKept
<1> QED BY <1>4, <1>5

-----------------------------------------------------------------------------
(* The program and damage move the register; leases stay as they are. *)

LEMMA OthersKeepGrants ==
    ASSUME IInv, \/ \E a \in Refreshers : RecoverStep(a) \/ PublishStep(a)
                 \/ Damage
    PROVE  \A r \in Readers : Held(r)' = Held(r)
<1> USE StoreAssumption DEF IInv, Actors
<1> SUFFICES ASSUME NEW r \in Readers
             PROVE  Held(r)' = Held(r)
  OBVIOUS
<1>1. ASSUME NEW a \in Refreshers, RecoverStep(a) \/ PublishStep(a)
      PROVE  pc'[r] = pc[r] /\ request'[r] = request[r] /\ leases'[r] = leases[r]
  <2> USE DEF TypeOK, Goto, Lease, Return, BeginReclaim, procs
  <2>1. CASE BeginRefresh(a) \/ ExcludeReaders(a) \/ Scan(a)
    BY <2>1 DEF BeginRefresh, ExcludeReaders, Scan
  <2>2. CASE Complete(a)
    BY <2>2 DEF Complete
  <2>3. CASE Obstructed(a)
    BY <2>3 DEF Obstructed
  <2>4. CASE RetainRecovered(a) \/ ActivateRecovered(a) \/ KeepReady(a) \/ RestoreRetained(a)
             \/ FindNothing(a)
    BY <2>4 DEF RetainRecovered, ActivateRecovered, KeepReady, RestoreRetained, FindNothing
  <2>5. CASE (\E g \in Gens : Visit(a, g)) \/ ReclaimStage(a) \/ ReclaimCandidate(a)
             \/ EndRecovery(a)
    BY <2>5 DEF Visit, ReclaimStage, ReclaimCandidate, EndRecovery
  <2>6. CASE Build(a) \/ GiveUp(a) \/ BeginPublish(a) \/ AlreadyActive(a) \/ MatchExisting(a)
             \/ SealSource(a) \/ Refuse(a)
    BY <2>6 DEF Build, GiveUp, BeginPublish, AlreadyActive, MatchExisting, SealSource, Refuse
  <2>7. CASE SealIndex(a) \/ SealManifest(a) \/ Promote(a) \/ Retain(a) \/ Commit(a)
             \/ Abandon(a)
    BY <2>7 DEF SealIndex, SealManifest, Promote, Retain, Commit, Abandon
  <2> QED BY <1>1, <2>1, <2>2, <2>3, <2>4, <2>5, <2>6, <2>7 DEF RecoverStep, PublishStep
<1>2. CASE Damage
  BY <1>2 DEF Damage, DamagePointer, DamageGeneration, procs, Held
<1> QED BY <1>1, <1>2 DEF Held

(* The program switches the register from what the publisher observed, or
   sets it again after a loss. *)
LEMMA ProgramMovesRegister ==
    ASSUME IInv, FallbackFollows, Next, ~Damage, Reading' = Reading
    PROVE  Register!Next \/ UNCHANGED <<Serving, Reading>>
<1> USE StoreAssumption
<1>1. CASE active' # active
  <2>1. Ready' /\ Serving' = active' /\ active' \in Manifests
    BY <1>1, ActiveMoves DEF Serving, Ready, Verified
  <2>2. CASE Ready \/ active = None
    <3>1. /\ Serving = active
          /\ (IF Serving \in Manifests THEN Serving.gen ELSE None) = Named(active)
      BY <2>2 DEF Serving, Named, Ready, Verified
    <3>2. active'.expected = Named(active)
      BY <1>1, <2>1, <2>2, ActiveMoves DEF FallbackFollows
    <3>3. Serving # Corrupt
      BY <2>2, <3>1 DEF Ready, Verified
    <3> QED BY <2>1, <3>1, <3>2, <3>3
         DEF Register!Next, Register!Publish, Register!Generation
  <2>3. CASE ~Ready /\ active # None
    BY <2>1, <2>3 DEF Serving, Register!Next, Register!Recover
  <2> QED BY <2>2, <2>3
<1>2. CASE active' = active
  <2>1. Ready => Ready'
    BY <1>2, TargetsSurvive DEF Ready
  <2>2. CASE Ready' => Ready
    BY <1>2, <2>1, <2>2 DEF Serving
  <2>3. CASE Ready' /\ ~Ready
    <3>1. active \in Manifests /\ Serving = Corrupt /\ Serving' = active
      BY <1>2, <2>3 DEF Serving, Ready, Verified
    <3> QED BY <3>1 DEF Register!Next, Register!Recover
  <2> QED BY <2>2, <2>3
<1> QED BY <1>1, <1>2

LEMMA DamageMovesRegister ==
    ASSUME IInv, Damage, Reading' = Reading
    PROVE  Register!Next \/ UNCHANGED <<Serving, Reading>>
<1> USE StoreAssumption
<1>1. active' = active \/ (active \in Manifests /\ active' = Corrupt)
  BY DEF Damage, DamagePointer, DamageGeneration
<1>2. ~Ready => (~Ready' \/ active' = active)
  BY <1>1 DEF Ready, Verified
<1>3. CASE active \notin Manifests
  BY <1>1, <1>3 DEF Serving, Ready, Verified
<1>4. CASE active \in Manifests
  <2>1. Serving \in {active, Corrupt} /\ Serving' \in {active, Corrupt}
    BY <1>1, <1>4 DEF Serving, Ready, Verified
  <2> QED BY <1>4, <2>1 DEF Register!Next, Register!Lose, Register!Recover
<1> QED BY <1>3, <1>4

-----------------------------------------------------------------------------
LEMMA StepImplements ==
    IInv /\ IInv' /\ FallbackFollows /\ [Next]_vars
      => Register!Next \/ UNCHANGED <<Serving, Reading>>
<1> SUFFICES ASSUME IInv, IInv', FallbackFollows, [Next]_vars
             PROVE  Register!Next \/ UNCHANGED <<Serving, Reading>>
  OBVIOUS
<1>1. CASE UNCHANGED vars
  <2>1. UNCHANGED <<dir, active, pc, request, leases>>
    BY <1>1 DEF vars, files, procs
  <2> QED BY <2>1 DEF Serving, Reading, Held, Ready, Verified, Holds, Sealed
<1>2. ASSUME NEW r \in Readers, ReaderStep(r)
      PROVE  Register!Next \/ UNCHANGED <<Serving, Reading>>
  BY <1>2, ReaderImplements
<1>3. ASSUME NEW a \in Actors, Crash(a)
      PROVE  Register!Next \/ UNCHANGED <<Serving, Reading>>
  BY <1>3, CrashImplements
<1>4. CASE Damage
  BY <1>4, OthersKeepGrants, GrantsKept, DamageMovesRegister
<1>5. ASSUME NEW a \in Refreshers, RecoverStep(a) \/ PublishStep(a), ~Damage
      PROVE  Register!Next \/ UNCHANGED <<Serving, Reading>>
  <2>1. Reading' = Reading
    BY <1>5, OthersKeepGrants, GrantsKept
  <2> QED BY <1>5, <2>1, ProgramMovesRegister DEF Next
<1> QED BY <1>1, <1>2, <1>3, <1>4, <1>5 DEF Next

LEMMA InitImplements == Init => Register!Init
<1> SUFFICES ASSUME Init
             PROVE  Register!Init
  OBVIOUS
<1>1. Serving = None
  BY StoreAssumption DEF Init, Serving, Ready, Verified
<1>2. \A r \in Readers : Held(r) = {}
  BY DEF Init, Held, Actors
<1>3. Reading = [r \in Readers |-> {}]
  BY <1>2 DEF Reading
<1> QED BY <1>1, <1>3 DEF Register!Init

(* The store implements the register: every step of every refresher, reader,
   crash and damage switches it by compare-and-swap, sets it after a loss,
   loses it, grants or releases a lease, or leaves it alone.               *)
THEOREM StoreImplementsRegister == Spec => ImplementsReadyGeneration
<1>1. Init => Register!Init
  BY InitImplements
<1>2. IInv /\ IInv' /\ FallbackFollows /\ [Next]_vars => [Register!Next]_<<Serving, Reading>>
  BY StepImplements
<1>3. Spec => []FallbackFollows
  <2>1. IInv /\ FallbackFollows /\ [Next]_vars => FallbackFollows'
    BY FallbackNext
  <2> QED BY <2>1, FallbackInit, Invariance, PTL DEF Spec
<1>4. Spec => Register!Init /\ [][Register!Next]_<<Serving, Reading>>
  BY <1>1, <1>2, <1>3, Invariance, PTL DEF Spec
<1> QED BY <1>4 DEF ImplementsReadyGeneration, Register!Spec, Register!vars
=============================================================================
