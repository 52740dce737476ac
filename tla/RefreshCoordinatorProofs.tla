---------------------- MODULE RefreshCoordinatorProofs ----------------------
(***************************************************************************)
(* TLAPS proofs about RefreshCoordinator, for any number of calls, sources, *)
(* import configurations and operation ids, and any limit.                 *)
(***************************************************************************)
EXTENDS RefreshCoordinator, FiniteSetTheorems, TLAPS

(* The sources a flight occupies. *)
Busy == {s \in Sources : active[s] # None}

WithinLimit == Cardinality(Busy) <= MaxConcurrent

(* The registry and the leaders agree. *)
Registry ==
    /\ \A s \in Sources : active[s] # None =>
          pc[active[s]] \in Leading /\ context[active[s]].source = s
    /\ \A r \in Requests : pc[r] \in Leading => active[context[r].source] = r
    /\ \A o \in Operations : operations[o] # None => pc[operations[o]] \in Leading

(* What a thread carries at each point of its program. *)
Calls ==
    /\ \A r \in Requests :
        /\ pc[r] # "idle" => context[r] \in Contexts
        /\ pc[r] \in Leading \cup {"idle"} => target[r] = None
        /\ pc[r] \in {"finishing", "retiring"} => answer[r] \in Outcomes
    /\ \A c \in Cancellers : pc[c] \in {"idle", "superseding", "flagging", "returned"}
    /\ \A t \in Threads :
        /\ target[t] # None => pc[target[t]] \in Leading \cup {"returned"}
        /\ pc[t] \in {"superseding", "flagging", "awaiting", "following"} => target[t] # None
        /\ pc[t] # "idle" /\ pc[t] \notin {"superseding", "flagging", "returned"}
              => t \in Requests

(* The activation mutex of f is held by its leader inside activate(), or by a
   thread about to set its flags. *)
Mutex ==
    /\ \A f \in Requests : pc[f] \in Activating => activation[f] = f
    /\ \A t \in Threads : pc[t] = "flagging" => activation[target[t]] = t
    /\ \A f \in Requests : activation[f] # None =>
          \/ activation[f] = f /\ pc[f] \in Activating
          \/ pc[activation[f]] = "flagging" /\ target[activation[f]] = f

(* A flight on its way to commit is not cancelled, one about to be cancelled
   is not committed. *)
Flags ==
    /\ \A f \in Requests : pc[f] = "publishing" => f \notin cancelled
    /\ \A t \in Threads : pc[t] = "flagging" => target[t] \notin committed
    /\ \A f \in committed : pc[f] \in {"published", "finishing", "retiring", "returned"}
    /\ CancelledNeverCommits

(* A lifecycle is complete from finish() on, with the result of the work. *)
Lifecycle ==
    \A f \in Requests :
        /\ outcome[f] # None => pc[f] \in {"retiring", "returned"}
        /\ pc[f] = "retiring" => outcome[f] # None
        /\ \A t \in Threads : target[t] = f /\ pc[f] = "returned" => outcome[f] # None
        /\ \A r \in Requests : pc[r] = "following" /\ target[r] = f =>
              context[f].source = context[r].source /\ context[f].import = context[r].import

IInv ==
    /\ TypeOK
    /\ WithinLimit
    /\ Registry
    /\ Calls
    /\ Mutex
    /\ Flags
    /\ Lifecycle
    /\ AnswersFitRequests

(* The work of r ends: what End leaves behind. *)
LEMMA EndEffect ==
    ASSUME TypeOK, NEW r \in Requests, NEW a \in Outcomes, End(r, a)
    PROVE  TypeOK'
<1> USE CoordinatorAssumption DEF Threads, Goto, Answer, coordinator, flags
<1>1. answer' \in [Threads -> Answers \cup {None}]
  BY DEF TypeOK, End, Answers
<1>2. pc' \in [Threads -> PC] /\ \A t \in Threads : pc'[t] = "returned" => pc[t] = "returned"
  BY DEF TypeOK, End, PC, Leading
<1>3. activation' \in [Requests -> Threads \cup {None}]
  BY DEF TypeOK, End
<1>4. \A t \in Threads : pc'[t] = "returned" => answer'[t] # None
  BY <1>2 DEF TypeOK, End, PC, Leading, Answers, Outcomes
<1> QED BY <1>1, <1>2, <1>3, <1>4 DEF TypeOK, End

LEMMA BusyIsFinite == IsFiniteSet(Busy) /\ Cardinality(Busy) \in Nat
BY CoordinatorAssumption, FS_Subset, FS_CardinalityType DEF Busy

LEMMA AdmissionSteps ==
    ASSUME IInv, NEW r \in Requests, Call(r) \/ AdmissionStep(r) PROVE IInv'
<1> USE CoordinatorAssumption DEF IInv, Threads, Goto, Answer, coordinator, flags, flights, threads
<1>1. ASSUME Call(r) PROVE IInv'
  <2>1. TypeOK'
    BY <1>1 DEF Call, TypeOK, PC, Leading, Activating, Contexts, Calls
  <2>2. WithinLimit'
    BY <1>1 DEF Call, WithinLimit, Busy
  <2>3. Registry'
    BY <1>1 DEF Call, TypeOK, Registry, Calls, Leading, Activating, Contexts
  <2>4. Calls'
    BY <1>1 DEF Call, TypeOK, Calls, Leading, Activating, Contexts
  <2>5. Mutex'
    BY <1>1 DEF Call, TypeOK, Mutex, Calls, Leading, Activating
  <2>6. Flags'
    BY <1>1 DEF Call, TypeOK, Flags, Mutex, Calls, CancelledNeverCommits, Activating
  <2>7. Lifecycle'
    BY <1>1 DEF Call, TypeOK, Lifecycle, Calls, Leading, Activating, Contexts
  <2>8. AnswersFitRequests'
    BY <1>1 DEF Call, TypeOK, AnswersFitRequests, Calls, Leading, Activating
  <2> QED BY <2>1, <2>2, <2>3, <2>4, <2>5, <2>6, <2>7, <2>8
<1>2. ASSUME Refuse(r) PROVE IInv'
  <2>1. TypeOK'
    BY <1>2 DEF Refuse, TypeOK, PC, Leading, Activating, Contexts, Outcomes,
       Answers, Calls, Lifecycle
  <2>2. WithinLimit'
    BY <1>2 DEF Refuse, WithinLimit, Busy
  <2>3. Registry'
    BY <1>2 DEF Refuse, TypeOK, Registry, Calls, Leading, Activating, Contexts
  <2>4. Calls'
    BY <1>2 DEF Refuse, TypeOK, Calls, Leading, Activating, Contexts
  <2>5. Mutex'
    BY <1>2 DEF Refuse, TypeOK, Mutex, Calls, Leading, Activating
  <2>6. Flags'
    BY <1>2 DEF Refuse, TypeOK, Flags, Mutex, Calls, CancelledNeverCommits,
       Activating
  <2>7. Lifecycle'
    BY <1>2 DEF Refuse, TypeOK, Lifecycle, Calls, Leading, Activating, Contexts
  <2>8. AnswersFitRequests'
    BY <1>2 DEF Refuse, TypeOK, AnswersFitRequests
  <2> QED BY <2>1, <2>2, <2>3, <2>4, <2>5, <2>6, <2>7, <2>8
<1>3. ASSUME Follow(r) PROVE IInv'
  <2>1. TypeOK'
    BY <1>3 DEF Follow, Conflicts, FlightOf, SameImport, TypeOK, PC, Leading,
       Activating, Contexts, Calls
  <2>2. WithinLimit'
    BY <1>3 DEF Follow, Conflicts, FlightOf, SameImport, WithinLimit, Busy
  <2>3. Registry'
    BY <1>3 DEF Follow, Conflicts, FlightOf, SameImport, TypeOK, Registry, Calls,
       Leading, Activating, Contexts
  <2>4. Calls'
    BY <1>3 DEF Follow, Conflicts, FlightOf, SameImport, TypeOK, Calls, Registry,
       Leading, Activating, Contexts, Outcomes
  <2>5. Mutex'
    BY <1>3 DEF Follow, TypeOK, Mutex, Calls, Leading, Activating
  <2>6. Flags'
    BY <1>3 DEF Follow, Conflicts, FlightOf, SameImport, TypeOK, Flags, Mutex,
       Calls, CancelledNeverCommits, Activating
  <2>7. Lifecycle'
    BY <1>3 DEF Follow, Conflicts, FlightOf, SameImport, TypeOK, Lifecycle, Calls,
       Registry, Leading, Activating, Contexts, Outcomes, Answers
  <2>8. AnswersFitRequests'
    BY <1>3 DEF Follow, AnswersFitRequests
  <2> QED BY <2>1, <2>2, <2>3, <2>4, <2>5, <2>6, <2>7, <2>8
<1>4. ASSUME Displace(r) PROVE IInv'
  <2>1. TypeOK'
    BY <1>4 DEF Displace, FlightOf, SameImport, TypeOK, PC, Leading, Activating,
       Contexts, Calls
  <2>2. WithinLimit'
    BY <1>4 DEF Displace, FlightOf, SameImport, WithinLimit, Busy
  <2>3. Registry'
    BY <1>4 DEF Displace, TypeOK, Registry, Calls, Leading, Activating, Contexts
  <2>4. Calls'
    BY <1>4 DEF Displace, FlightOf, SameImport, TypeOK, Calls, Registry, Leading,
       Activating, Contexts, Outcomes
  <2>5. Mutex'
    BY <1>4 DEF Displace, TypeOK, Mutex, Calls, Leading, Activating
  <2>6. Flags'
    BY <1>4 DEF Displace, FlightOf, SameImport, TypeOK, Flags, Mutex, Calls,
       CancelledNeverCommits, Activating
  <2>7. Lifecycle'
    BY <1>4 DEF Displace, FlightOf, SameImport, TypeOK, Lifecycle, Calls, Registry,
       Leading, Activating, Contexts, Outcomes, Answers
  <2>8. AnswersFitRequests'
    BY <1>4 DEF Displace, AnswersFitRequests
  <2> QED BY <2>1, <2>2, <2>3, <2>4, <2>5, <2>6, <2>7, <2>8
<1>5. ASSUME Lead(r) PROVE IInv'
  <2>1. TypeOK'
    BY <1>5 DEF Lead, TypeOK, PC, Leading, Activating, Contexts, Calls
  <2>2. WithinLimit'
    <3> DEFINE s == context[r].source
    <3>1. s \in Sources
      BY <1>5 DEF Lead, Calls, Contexts
    <3>2. Busy' = Busy \cup {s} /\ s \notin Busy
      BY <1>5, <3>1 DEF Lead, FlightOf, TypeOK, Busy
    <3>3. Cardinality(Busy') = Cardinality(Busy) + 1
      BY <3>2, BusyIsFinite, FS_AddElement
    <3>4. Cardinality(Busy) < MaxConcurrent
      BY <1>5, BusyIsFinite DEF Lead, Exhausted, Busy
    <3> QED BY <3>3, <3>4, BusyIsFinite DEF WithinLimit
  <2>3. Registry'
    BY <1>5 DEF Lead, Conflicts, FlightOf, Exhausted, TypeOK, Registry, Calls,
       Leading, Activating, Contexts
  <2>4. Calls'
    BY <1>5 DEF Lead, TypeOK, Calls, Leading, Activating, Contexts
  <2>5. Mutex'
    BY <1>5 DEF Lead, TypeOK, Mutex, Calls, Leading, Activating
  <2>6. Flags'
    BY <1>5 DEF Lead, Conflicts, FlightOf, Exhausted, TypeOK, Flags, Mutex, Calls,
       CancelledNeverCommits, Activating
  <2>7. Lifecycle'
    BY <1>5 DEF Lead, Lifecycle
  <2>8. AnswersFitRequests'
    BY <1>5 DEF Lead, AnswersFitRequests
  <2> QED BY <2>1, <2>2, <2>3, <2>4, <2>5, <2>6, <2>7, <2>8
<1>6. ASSUME BeginSupersede(r) PROVE IInv'
  <2>1. TypeOK'
    <3>1. pc' \in [Threads -> PC] /\ \A t \in Threads : pc'[t] = "returned" => pc[t] = "returned"
      BY <1>6 DEF BeginSupersede, TypeOK, PC
    <3>2. activation' \in [Requests -> Threads \cup {None}]
      BY <1>6 DEF BeginSupersede, Lock, TypeOK
    <3> QED BY <1>6, <3>1, <3>2 DEF BeginSupersede, TypeOK
  <2>2. WithinLimit'
    BY <1>6 DEF BeginSupersede, Lock, Settled, Complete, WithinLimit, Busy
  <2>3. Registry'
    BY <1>6 DEF BeginSupersede, TypeOK, Registry, Calls, Leading, Activating,
       Contexts
  <2>4. Calls'
    BY <1>6 DEF BeginSupersede, TypeOK, Calls, Leading, Activating, Contexts
  <2>5. Mutex'
    BY <1>6 DEF BeginSupersede, Lock, Settled, Complete, TypeOK, Mutex, Calls,
       Leading, Activating
  <2>6. Flags'
    BY <1>6 DEF BeginSupersede, Lock, Settled, Complete, TypeOK, Flags, Mutex,
       Calls, CancelledNeverCommits, Activating
  <2>7. Lifecycle'
    BY <1>6 DEF BeginSupersede, TypeOK, Lifecycle
  <2>8. AnswersFitRequests'
    BY <1>6 DEF BeginSupersede, TypeOK, AnswersFitRequests
  <2> QED BY <2>1, <2>2, <2>3, <2>4, <2>5, <2>6, <2>7, <2>8
<1>7. ASSUME Supersede(r) PROVE IInv'
  <2>1. TypeOK'
    BY <1>7 DEF Supersede, Unlock, TypeOK, PC, Leading, Activating, Contexts, Calls
  <2>2. WithinLimit'
    BY <1>7 DEF Supersede, Unlock, WithinLimit, Busy
  <2>3. Registry'
    BY <1>7 DEF Supersede, TypeOK, Registry, Calls, Leading, Activating, Contexts
  <2>4. Calls'
    BY <1>7 DEF Supersede, TypeOK, Calls, Leading, Activating, Contexts
  <2>5. Mutex'
    BY <1>7 DEF Supersede, Unlock, TypeOK, Mutex, Calls, Leading, Activating
  <2>6. Flags'
    BY <1>7 DEF Supersede, Unlock, TypeOK, Flags, Mutex, Calls,
       CancelledNeverCommits, Activating
  <2>7. Lifecycle'
    BY <1>7 DEF Supersede, Lifecycle
  <2>8. AnswersFitRequests'
    BY <1>7 DEF Supersede, AnswersFitRequests
  <2> QED BY <2>1, <2>2, <2>3, <2>4, <2>5, <2>6, <2>7, <2>8
<1>8. ASSUME Readmit(r) PROVE IInv'
  <2>1. TypeOK'
    BY <1>8 DEF Readmit, TypeOK, PC, Leading, Activating, Contexts, Calls
  <2>2. WithinLimit'
    BY <1>8 DEF Readmit, FlightOf, WithinLimit, Busy
  <2>3. Registry'
    BY <1>8 DEF Readmit, TypeOK, Registry, Calls, Leading, Activating, Contexts
  <2>4. Calls'
    BY <1>8 DEF Readmit, TypeOK, Calls, Leading, Activating, Contexts
  <2>5. Mutex'
    BY <1>8 DEF Readmit, TypeOK, Mutex, Calls, Leading, Activating
  <2>6. Flags'
    BY <1>8 DEF Readmit, FlightOf, TypeOK, Flags, Mutex, Calls,
       CancelledNeverCommits, Activating
  <2>7. Lifecycle'
    BY <1>8 DEF Readmit, Lifecycle
  <2>8. AnswersFitRequests'
    BY <1>8 DEF Readmit, AnswersFitRequests
  <2> QED BY <2>1, <2>2, <2>3, <2>4, <2>5, <2>6, <2>7, <2>8
<1>9. ASSUME Coalesce(r) PROVE IInv'
  <2>1. TypeOK'
    BY <1>9 DEF Coalesce, Complete, TypeOK, PC, Leading, Activating, Contexts,
       Outcomes, Answers, Calls, Lifecycle
  <2>2. WithinLimit'
    BY <1>9 DEF Coalesce, Complete, WithinLimit, Busy
  <2>3. Registry'
    BY <1>9 DEF Coalesce, TypeOK, Registry, Calls, Leading, Activating, Contexts
  <2>4. Calls'
    BY <1>9 DEF Coalesce, TypeOK, Calls, Leading, Activating, Contexts
  <2>5. Mutex'
    BY <1>9 DEF Coalesce, TypeOK, Mutex, Calls, Leading, Activating
  <2>6. Flags'
    BY <1>9 DEF Coalesce, Complete, TypeOK, Flags, Mutex, Calls,
       CancelledNeverCommits, Activating
  <2>7. Lifecycle'
    BY <1>9 DEF Coalesce, TypeOK, Lifecycle, Calls, Leading, Activating, Contexts
  <2>8. AnswersFitRequests'
    BY <1>9 DEF Coalesce, Complete, TypeOK, AnswersFitRequests, Lifecycle, Calls,
       Leading, Activating, Outcomes
  <2> QED BY <2>1, <2>2, <2>3, <2>4, <2>5, <2>6, <2>7, <2>8
<1> QED BY <1>1, <1>2, <1>3, <1>4, <1>5, <1>6, <1>7, <1>8, <1>9 DEF AdmissionStep

LEMMA WorkSteps ==
    ASSUME IInv, NEW r \in Requests, WorkStep(r) PROVE IInv'
<1> USE CoordinatorAssumption DEF IInv, Threads, Goto, Answer, coordinator, flags, flights, threads
<1>1. ASSUME Compare(r) PROVE IInv'
  <2>1. TypeOK'
    BY <1>1 DEF Compare, TypeOK, PC, Leading, Activating, Contexts, Calls
  <2>2. WithinLimit'
    BY <1>1 DEF Compare, WithinLimit, Busy
  <2>3. Registry'
    BY <1>1 DEF Compare, TypeOK, Registry, Calls, Leading, Activating, Contexts
  <2>4. Calls'
    BY <1>1 DEF Compare, TypeOK, Calls, Leading, Activating, Contexts
  <2>5. Mutex'
    BY <1>1 DEF Compare, TypeOK, Mutex, Calls, Leading, Activating
  <2>6. Flags'
    BY <1>1 DEF Compare, TypeOK, Flags, Mutex, Calls, CancelledNeverCommits,
       Activating
  <2>7. Lifecycle'
    BY <1>1 DEF Compare, Lifecycle
  <2>8. AnswersFitRequests'
    BY <1>1 DEF Compare, AnswersFitRequests
  <2> QED BY <2>1, <2>2, <2>3, <2>4, <2>5, <2>6, <2>7, <2>8
<1>2. ASSUME AlreadyCurrent(r) PROVE IInv'
  <2>1. TypeOK'
    BY <1>2 DEF AlreadyCurrent, End, TypeOK, PC, Leading, Activating, Contexts,
       Outcomes, Answers, Calls, Lifecycle
  <2>2. WithinLimit'
    BY <1>2 DEF AlreadyCurrent, End, WithinLimit, Busy
  <2>3. Registry'
    BY <1>2 DEF AlreadyCurrent, End, TypeOK, Registry, Calls, Leading, Activating,
       Contexts
  <2>4. Calls'
    BY <1>2 DEF AlreadyCurrent, End, TypeOK, Calls, Registry, Leading, Activating,
       Contexts, Outcomes
  <2>5. Mutex'
    BY <1>2 DEF AlreadyCurrent, End, TypeOK, Mutex, Calls, Leading, Activating
  <2>6. Flags'
    BY <1>2 DEF AlreadyCurrent, End, TypeOK, Flags, Mutex, Calls,
       CancelledNeverCommits, Activating
  <2>7. Lifecycle'
    BY <1>2 DEF AlreadyCurrent, End, TypeOK, Lifecycle
  <2>8. AnswersFitRequests'
    BY <1>2 DEF AlreadyCurrent, End, TypeOK, AnswersFitRequests
  <2> QED BY <2>1, <2>2, <2>3, <2>4, <2>5, <2>6, <2>7, <2>8
<1>3. ASSUME Stop(r) PROVE IInv'
  <2>1. TypeOK'
    BY <1>3, EndEffect DEF Stop, Outcomes
  <2>2. WithinLimit'
    BY <1>3 DEF Stop, End, WithinLimit, Busy
  <2>3. Registry'
    BY <1>3 DEF Stop, End, TypeOK, Registry, Calls, Leading, Activating, Contexts
  <2>4. Calls'
    BY <1>3 DEF Stop, End, TypeOK, Calls, Registry, Leading, Activating, Contexts,
       Outcomes
  <2>5. Mutex'
    BY <1>3 DEF Stop, End, TypeOK, Mutex, Calls, Leading, Activating
  <2>6. Flags'
    BY <1>3 DEF Stop, End, TypeOK, Flags, Mutex, Calls, CancelledNeverCommits,
       Activating
  <2>7. Lifecycle'
    BY <1>3 DEF Stop, End, TypeOK, Lifecycle
  <2>8. AnswersFitRequests'
    BY <1>3 DEF Stop, End, TypeOK, AnswersFitRequests
  <2> QED BY <2>1, <2>2, <2>3, <2>4, <2>5, <2>6, <2>7, <2>8
<1>4. ASSUME Fail(r) PROVE IInv'
  <2>1. TypeOK'
    BY <1>4 DEF Fail, End, TypeOK, PC, Leading, Activating, Contexts, Outcomes,
       Answers, Calls, Lifecycle
  <2>2. WithinLimit'
    BY <1>4 DEF Fail, End, WithinLimit, Busy
  <2>3. Registry'
    BY <1>4 DEF Fail, End, TypeOK, Registry, Calls, Leading, Activating, Contexts
  <2>4. Calls'
    BY <1>4 DEF Fail, End, TypeOK, Calls, Registry, Leading, Activating, Contexts,
       Outcomes
  <2>5. Mutex'
    BY <1>4 DEF Fail, End, TypeOK, Mutex, Calls, Leading, Activating
  <2>6. Flags'
    BY <1>4 DEF Fail, End, TypeOK, Flags, Mutex, Calls, CancelledNeverCommits,
       Activating
  <2>7. Lifecycle'
    BY <1>4 DEF Fail, End, TypeOK, Lifecycle
  <2>8. AnswersFitRequests'
    BY <1>4 DEF Fail, End, TypeOK, AnswersFitRequests
  <2> QED BY <2>1, <2>2, <2>3, <2>4, <2>5, <2>6, <2>7, <2>8
<1>5. ASSUME Activate(r) PROVE IInv'
  <2>1. TypeOK'
    BY <1>5 DEF Activate, Lock, AdmitsActivation, TypeOK, PC, Leading, Activating,
       Contexts, Calls
  <2>2. WithinLimit'
    BY <1>5 DEF Activate, Lock, AdmitsActivation, WithinLimit, Busy
  <2>3. Registry'
    BY <1>5 DEF Activate, TypeOK, Registry, Calls, Leading, Activating, Contexts
  <2>4. Calls'
    BY <1>5 DEF Activate, TypeOK, Calls, Leading, Activating, Contexts
  <2>5. Mutex'
    BY <1>5 DEF Activate, Lock, AdmitsActivation, TypeOK, Mutex, Calls, Leading,
       Activating
  <2>6. Flags'
    BY <1>5 DEF Activate, Lock, AdmitsActivation, TypeOK, Flags, Mutex, Calls,
       CancelledNeverCommits, Activating
  <2>7. Lifecycle'
    BY <1>5 DEF Activate, Lifecycle
  <2>8. AnswersFitRequests'
    BY <1>5 DEF Activate, AnswersFitRequests
  <2> QED BY <2>1, <2>2, <2>3, <2>4, <2>5, <2>6, <2>7, <2>8
<1>6. ASSUME Publish(r) PROVE IInv'
  <2>1. TypeOK'
    BY <1>6 DEF Publish, TypeOK, PC, Leading, Activating, Contexts, Calls
  <2>2. WithinLimit'
    BY <1>6 DEF Publish, WithinLimit, Busy
  <2>3. Registry'
    BY <1>6 DEF Publish, TypeOK, Registry, Calls, Leading, Activating, Contexts
  <2>4. Calls'
    BY <1>6 DEF Publish, TypeOK, Calls, Leading, Activating, Contexts
  <2>5. Mutex'
    BY <1>6 DEF Publish, TypeOK, Mutex, Calls, Leading, Activating
  <2>6. Flags'
    BY <1>6 DEF Publish, TypeOK, Flags, Mutex, Calls, CancelledNeverCommits,
       Activating
  <2>7. Lifecycle'
    BY <1>6 DEF Publish, Lifecycle
  <2>8. AnswersFitRequests'
    BY <1>6 DEF Publish, AnswersFitRequests
  <2> QED BY <2>1, <2>2, <2>3, <2>4, <2>5, <2>6, <2>7, <2>8
<1>7. ASSUME Activated(r) PROVE IInv'
  <2>1. TypeOK'
    BY <1>7 DEF Activated, End, TypeOK, PC, Leading, Activating, Contexts, Outcomes,
       Answers, Calls, Lifecycle
  <2>2. WithinLimit'
    BY <1>7 DEF Activated, End, WithinLimit, Busy
  <2>3. Registry'
    BY <1>7 DEF Activated, End, TypeOK, Registry, Calls, Leading, Activating,
       Contexts
  <2>4. Calls'
    BY <1>7 DEF Activated, End, TypeOK, Calls, Registry, Leading, Activating,
       Contexts, Outcomes
  <2>5. Mutex'
    BY <1>7 DEF Activated, End, TypeOK, Mutex, Calls, Leading, Activating
  <2>6. Flags'
    BY <1>7 DEF Activated, End, TypeOK, Flags, Mutex, Calls, CancelledNeverCommits,
       Activating
  <2>7. Lifecycle'
    BY <1>7 DEF Activated, End, TypeOK, Lifecycle
  <2>8. AnswersFitRequests'
    BY <1>7 DEF Activated, End, TypeOK, AnswersFitRequests
  <2> QED BY <2>1, <2>2, <2>3, <2>4, <2>5, <2>6, <2>7, <2>8
<1>8. ASSUME Panic(r) PROVE IInv'
  <2>1. TypeOK'
    BY <1>8 DEF Panic, Unwind, End, TypeOK, PC, Leading, Activating, Contexts,
       Outcomes, Answers, Calls, Lifecycle
  <2>2. WithinLimit'
    BY <1>8 DEF Panic, Unwind, End, WithinLimit, Busy
  <2>3. Registry'
    BY <1>8 DEF Panic, Unwind, End, TypeOK, Registry, Calls, Leading, Activating,
       Contexts
  <2>4. Calls'
    BY <1>8 DEF Panic, Unwind, End, TypeOK, Calls, Registry, Leading, Activating,
       Contexts, Outcomes
  <2>5. Mutex'
    BY <1>8 DEF Panic, Unwind, End, TypeOK, Mutex, Calls, Leading, Activating
  <2>6. Flags'
    BY <1>8 DEF Panic, Unwind, End, TypeOK, Flags, Mutex, Calls,
       CancelledNeverCommits, Activating
  <2>7. Lifecycle'
    BY <1>8 DEF Panic, Unwind, End, TypeOK, Lifecycle
  <2>8. AnswersFitRequests'
    BY <1>8 DEF Panic, Unwind, End, TypeOK, AnswersFitRequests
  <2> QED BY <2>1, <2>2, <2>3, <2>4, <2>5, <2>6, <2>7, <2>8
<1>9. ASSUME Finish(r) PROVE IInv'
  <2>1. TypeOK'
    BY <1>9 DEF Finish, TypeOK, PC, Leading, Activating, Contexts, Calls
  <2>2. WithinLimit'
    BY <1>9 DEF Finish, WithinLimit, Busy
  <2>3. Registry'
    BY <1>9 DEF Finish, TypeOK, Registry, Calls, Leading, Activating, Contexts
  <2>4. Calls'
    BY <1>9 DEF Finish, TypeOK, Calls, Leading, Activating, Contexts
  <2>5. Mutex'
    BY <1>9 DEF Finish, TypeOK, Mutex, Calls, Leading, Activating
  <2>6. Flags'
    BY <1>9 DEF Finish, TypeOK, Flags, Mutex, Calls, CancelledNeverCommits,
       Activating
  <2>7. Lifecycle'
    BY <1>9 DEF Finish, TypeOK, Lifecycle, Calls, Registry, Leading, Activating,
       Contexts, Outcomes, Answers
  <2>8. AnswersFitRequests'
    BY <1>9 DEF Finish, TypeOK, AnswersFitRequests, Lifecycle, Calls, Leading,
       Activating, Outcomes
  <2> QED BY <2>1, <2>2, <2>3, <2>4, <2>5, <2>6, <2>7, <2>8
<1>10. ASSUME Retire(r) PROVE IInv'
  <2>1. TypeOK'
    BY <1>10 DEF Retire, Retained, Recorded, TypeOK, PC, Leading, Activating,
       Contexts, Outcomes, Answers, Calls, Lifecycle
  <2>2. WithinLimit'
    <3>1. Busy' \subseteq Busy
      BY <1>10 DEF Retire, Calls, Contexts, Leading, TypeOK, Busy
    <3>2. Cardinality(Busy') <= Cardinality(Busy) /\ Cardinality(Busy') \in Nat
      BY <3>1, BusyIsFinite, FS_Subset, FS_CardinalityType
    <3> QED BY <3>2, BusyIsFinite DEF WithinLimit
  <2>3. Registry'
    BY <1>10 DEF Retire, Retained, Recorded, TypeOK, Registry, Calls, Leading,
       Activating, Contexts
  <2>4. Calls'
    BY <1>10 DEF Retire, TypeOK, Calls, Leading, Activating, Contexts
  <2>5. Mutex'
    BY <1>10 DEF Retire, TypeOK, Mutex, Calls, Leading, Activating
  <2>6. Flags'
    BY <1>10 DEF Retire, Retained, Recorded, TypeOK, Flags, Mutex, Calls,
       CancelledNeverCommits, Activating
  <2>7. Lifecycle'
    BY <1>10 DEF Retire, Lifecycle
  <2>8. AnswersFitRequests'
    BY <1>10 DEF Retire, TypeOK, AnswersFitRequests, Calls, Leading, Activating
  <2> QED BY <2>1, <2>2, <2>3, <2>4, <2>5, <2>6, <2>7, <2>8
<1> QED BY <1>1, <1>2, <1>3, <1>4, <1>5, <1>6, <1>7, <1>8, <1>9, <1>10 DEF WorkStep

LEMMA CancelSteps ==
    ASSUME IInv, NEW c \in Cancellers, LookUp(c) \/ CancelStep(c) PROVE IInv'
<1> USE CoordinatorAssumption DEF IInv, Threads, Goto, Answer, coordinator, flags, flights, threads
<1>1. ASSUME LookUp(c) PROVE IInv'
  <2>1. TypeOK'
    BY <1>1 DEF LookUp, TypeOK, PC, Leading, Activating, Contexts, Outcomes,
       Answers, Calls, Lifecycle
  <2>2. WithinLimit'
    BY <1>1 DEF LookUp, WithinLimit, Busy
  <2>3. Registry'
    BY <1>1 DEF LookUp, TypeOK, Registry
  <2>4. Calls'
    BY <1>1 DEF LookUp, TypeOK, Calls, Registry, Leading, Activating, Contexts,
       Outcomes
  <2>5. Mutex'
    BY <1>1 DEF LookUp, TypeOK, Mutex
  <2>6. Flags'
    BY <1>1 DEF LookUp, TypeOK, Flags, Mutex, Calls, CancelledNeverCommits,
       Activating
  <2>7. Lifecycle'
    BY <1>1 DEF LookUp, TypeOK, Lifecycle, Calls, Registry, Leading, Activating,
       Contexts, Outcomes, Answers
  <2>8. AnswersFitRequests'
    BY <1>1 DEF LookUp, TypeOK, AnswersFitRequests
  <2> QED BY <2>1, <2>2, <2>3, <2>4, <2>5, <2>6, <2>7, <2>8
<1>2. ASSUME BeginCancel(c) PROVE IInv'
  <2>1. TypeOK'
    <3>1. pc' \in [Threads -> PC] /\ \A t \in Threads : pc'[t] = "returned" => answer'[t] # None
      BY <1>2 DEF BeginCancel, TypeOK, PC, Answers
    <3>2. activation' \in [Requests -> Threads \cup {None}] /\ answer' \in [Threads -> Answers \cup {None}]
      BY <1>2 DEF BeginCancel, Lock, TypeOK, Answers
    <3> QED BY <1>2, <3>1, <3>2 DEF BeginCancel, TypeOK
  <2>2. WithinLimit'
    BY <1>2 DEF BeginCancel, Lock, Settled, Complete, WithinLimit, Busy
  <2>3. Registry'
    BY <1>2 DEF BeginCancel, TypeOK, Registry
  <2>4. Calls'
    BY <1>2 DEF BeginCancel, TypeOK, Calls
  <2>5. Mutex'
    BY <1>2 DEF BeginCancel, Lock, Settled, Complete, TypeOK, Mutex, Calls, Leading,
       Activating
  <2>6. Flags'
    BY <1>2 DEF BeginCancel, Lock, Settled, Complete, TypeOK, Flags, Mutex, Calls,
       CancelledNeverCommits, Activating
  <2>7. Lifecycle'
    BY <1>2 DEF BeginCancel, TypeOK, Lifecycle
  <2>8. AnswersFitRequests'
    BY <1>2 DEF BeginCancel, TypeOK, AnswersFitRequests
  <2> QED BY <2>1, <2>2, <2>3, <2>4, <2>5, <2>6, <2>7, <2>8
<1>3. ASSUME Cancel(c) PROVE IInv'
  <2>1. TypeOK'
    BY <1>3 DEF Cancel, Unlock, TypeOK, PC, Leading, Activating, Contexts, Outcomes,
       Answers, Calls, Lifecycle
  <2>2. WithinLimit'
    BY <1>3 DEF Cancel, Unlock, WithinLimit, Busy
  <2>3. Registry'
    BY <1>3 DEF Cancel, TypeOK, Registry
  <2>4. Calls'
    BY <1>3 DEF Cancel, Calls
  <2>5. Mutex'
    BY <1>3 DEF Cancel, Unlock, TypeOK, Mutex
  <2>6. Flags'
    BY <1>3 DEF Cancel, Unlock, TypeOK, Flags, Mutex, Calls, CancelledNeverCommits,
       Activating
  <2>7. Lifecycle'
    BY <1>3 DEF Cancel, Lifecycle
  <2>8. AnswersFitRequests'
    BY <1>3 DEF Cancel, AnswersFitRequests
  <2> QED BY <2>1, <2>2, <2>3, <2>4, <2>5, <2>6, <2>7, <2>8
<1> QED BY <1>1, <1>2, <1>3 DEF CancelStep

-----------------------------------------------------------------------------
LEMMA InitInvariant == Init => IInv
<1> SUFFICES ASSUME Init PROVE IInv
  OBVIOUS
<1> USE CoordinatorAssumption DEF Init, Threads
<1>1. TypeOK
  BY DEF TypeOK, PC
<1>2. WithinLimit
  <2>1. Busy = {}
    BY DEF Busy
  <2> QED BY <2>1, FS_EmptySet DEF WithinLimit
<1>3. Registry /\ Calls /\ Mutex
  BY DEF Registry, Calls, Mutex, Leading, Activating
<1>4. Flags /\ Lifecycle /\ AnswersFitRequests
  BY DEF Flags, CancelledNeverCommits, Lifecycle, AnswersFitRequests
<1> QED BY <1>1, <1>2, <1>3, <1>4 DEF IInv

LEMMA NextInvariant == IInv /\ [Next]_vars => IInv'
<1> SUFFICES ASSUME IInv, [Next]_vars PROVE IInv'
  OBVIOUS
<1>1. CASE Next
  BY <1>1, AdmissionSteps, WorkSteps, CancelSteps DEF Next
<1>2. CASE UNCHANGED vars
  <2> USE <1>2 DEF vars, coordinator, flags, flights, threads, IInv
  <2>1. TypeOK' /\ Calls' /\ Mutex'
    BY DEF TypeOK, Calls, Mutex
  <2>2. WithinLimit' /\ Registry'
    BY DEF WithinLimit, Busy, Registry
  <2>3. Flags' /\ Lifecycle' /\ AnswersFitRequests'
    BY DEF Flags, CancelledNeverCommits, Lifecycle, AnswersFitRequests
  <2> QED BY <2>1, <2>2, <2>3
<1> QED BY <1>1, <1>2

(* The inductive invariant holds of every behaviour.                         *)
THEOREM Invariance == Spec => []IInv
BY InitInvariant, NextInvariant, PTL DEF Spec

(* Every variable keeps its type, and a call that has returned has answered. *)
THEOREM TypeCorrect == Spec => []TypeOK
<1>1. IInv => TypeOK
  BY DEF IInv
<1> QED BY <1>1, Invariance, PTL

(* At most one flight works on a source, for any number of requests however
   they coalesce and supersede one another.                                  *)
THEOREM SingleFlight == Spec => []OneFlightPerSource
<1>1. IInv => OneFlightPerSource
  BY DEF IInv, Registry, OneFlightPerSource, Flights
<1> QED BY <1>1, Invariance, PTL

(* The flights under way never exceed the limit of the process.              *)
THEOREM FlightsBounded == Spec => []BoundedFlights
<1>1. ASSUME IInv PROVE BoundedFlights
  <2> DEFINE f == [r \in Flights |-> context[r].source]
  <2>1. \A r \in Flights : context[r].source \in Busy /\ active[context[r].source] = r
    BY <1>1, CoordinatorAssumption
    DEF IInv, Registry, Calls, Flights, Busy, Contexts, Leading, Activating, Threads
  <2>2. f \in Injection(Flights, Busy)
    BY <2>1 DEF Injection, IsInjective
  <2>3. Cardinality(Flights) <= Cardinality(Busy) /\ IsFiniteSet(Flights)
    BY <2>2, BusyIsFinite, FS_Injection
  <2>4. Cardinality(Flights) \in Nat
    BY <2>3, FS_CardinalityType
  <2> QED BY <1>1, <2>3, <2>4, BusyIsFinite, CoordinatorAssumption
          DEF IInv, WithinLimit, BoundedFlights
<1> QED BY <1>1, Invariance, PTL

(* No source and no operation id outlives the flight that held it.           *)
THEOREM RegistryClean == Spec => []RegistryNamesFlights
<1>1. IInv => RegistryNamesFlights
  BY CoordinatorAssumption DEF IInv, TypeOK, Registry, RegistryNamesFlights, Flights
<1> QED BY <1>1, Invariance, PTL

(* Coalescing, superseding, failing and panicking requests leave the registry
   sound, for any number of them.                                            *)
THEOREM RegistrySound == Spec => []RegistryIsSound
<1>1. OneFlightPerSource /\ BoundedFlights /\ RegistryNamesFlights => RegistryIsSound
  BY DEF RegistryIsSound
<1> QED BY <1>1, SingleFlight, FlightsBounded, RegistryClean, PTL

(* A flight that was cancelled or superseded never activates a generation,
   and one that has activated is never reported cancelled.                   *)
THEOREM CancellationLinearizes == Spec => []CancelledNeverCommits
<1>1. IInv => CancelledNeverCommits
  BY DEF IInv, Flags
<1> QED BY <1>1, Invariance, PTL

(* Coalesced requests are answered with the result of an equivalent flight.  *)
THEOREM CoalescingSound == Spec => []AnswersFitRequests
<1>1. IInv => AnswersFitRequests
  BY DEF IInv
<1> QED BY <1>1, Invariance, PTL

(* A terminal status stays what status() reports until the next flight.      *)
THEOREM StatusStable == Spec => StatusIsStable
<1>1. ASSUME IInv, Next, NEW s \in Sources, Status(s) # None, Status(s)' # Status(s)
      PROVE  active[s] = None /\ active'[s] # None
  <2> USE CoordinatorAssumption DEF IInv, Threads, Goto, Answer, coordinator, flags, flights, threads
  <2>1. ASSUME NEW r \in Requests, Call(r) \/ AdmissionStep(r)
        PROVE  active[s] = None /\ active'[s] # None
    <3>1. CASE Lead(r)
      BY <1>1, <2>1, <3>1 DEF Lead, FlightOf, Status, TypeOK, Calls, Contexts
    <3>2. CASE ~Lead(r)
      BY <1>1, <2>1, <3>2 DEF AdmissionStep, Call, Refuse, Follow, Displace,
         BeginSupersede, Supersede, Readmit, Coalesce, Status
    <3> QED BY <3>1, <3>2
  <2>2. ASSUME NEW r \in Requests, WorkStep(r) PROVE Status(s)' = Status(s)
    <3>1. CASE Finish(r)
      BY <1>1, <3>1 DEF Finish, Status, TypeOK, Lifecycle
    <3>2. CASE Retire(r)
      BY <1>1, <3>2 DEF Retire, Recorded, Status, TypeOK, Registry, Calls, Contexts, Leading
    <3>3. CASE ~Finish(r) /\ ~Retire(r)
      BY <1>1, <2>2, <3>3 DEF WorkStep, Compare, AlreadyCurrent, Stop, Fail, Activate,
         Publish, Activated, Panic, Unwind, End, Status
    <3> QED BY <3>1, <3>2, <3>3
  <2>3. ASSUME NEW c \in Cancellers, LookUp(c) \/ CancelStep(c) PROVE Status(s)' = Status(s)
    BY <2>3 DEF CancelStep, LookUp, BeginCancel, Cancel, Status
  <2> QED BY <1>1, <2>1, <2>2, <2>3 DEF Next
<1>2. ASSUME IInv, UNCHANGED vars, NEW s \in Sources PROVE Status(s)' = Status(s)
  BY <1>2 DEF vars, coordinator, flights, Status
<1>3. IInv /\ [Next]_vars =>
        [\A s \in Sources :
            Status(s) # None /\ Status(s)' # Status(s)
                => active[s] = None /\ active'[s] # None]_vars
  BY <1>1, <1>2
<1> QED BY <1>3, Invariance, PTL DEF Spec, StatusIsStable
=============================================================================
