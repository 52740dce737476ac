----------------------- MODULE CredentialVaultProofs -----------------------
(***************************************************************************)
(* Proofs about the credential record: for any number of owners, screens,  *)
(* key generations, tokens and faults, what a request answers agrees with  *)
(* the record, a credential changes only as it should, and no owner sends  *)
(* a used refresh token again.                                             *)
(***************************************************************************)
EXTENDS CredentialVault, FiniteSetTheorems, TLAPS

-----------------------------------------------------------------------------
(* The key helpers.                                                        *)

(* The aliases form a cycle. *)
LEMMA CycleIsClosed ==
    ASSUME NEW n \in Nat, NEW k \in Nat, n > 0
    PROVE  Along(n, k) \in Aliases
<1>1. (n - 1 + k) % Generations \in 0..Generations - 1
  <2>1. n - 1 + k \in Nat
    OBVIOUS
  <2> QED BY <2>1, GenerationsAssumption
<1> QED BY <1>1, GenerationsAssumption DEF Along, Aliases

(* There is a least natural number in every set of them that has any. *)
LEMMA LeastNatural ==
    ASSUME NEW S \in SUBSET Nat, S # {}
    PROVE  \E k \in S : \A j \in S : k <= j
<1>1. PICK k \in S : \A j \in S : ~ (<<j, k>> \in OpToRel(<, Nat))
  BY NatLessThanWellFounded, WFMin
<1>2. \A i, j \in Nat : i < j => <<i, j>> \in OpToRel(<, Nat)
  BY DEF OpToRel
<1>3. \A j \in S : k <= j
  <2> TAKE j \in S
  <2>1. k \in Nat /\ j \in Nat
    OBVIOUS
  <2>2. ~ (j < k)
    BY <1>1, <1>2, <2>1
  <2> QED BY <2>1, <2>2
<1> QED BY <1>3

(* A renewal seals under an alias that has no key. *)
LEMMA AvailableIsFree ==
    ASSUME NEW g \in Aliases \cup {0}, Free(g) # {}
    PROVE  Available(g) \in Aliases /\ keys[Available(g)] = NoKey
<1>1. Following(g) \in Nat /\ Following(g) > 0
  <2>1. CASE g = 0
    BY <2>1 DEF Following
  <2>2. CASE g # 0
    <3>1. g \in Nat /\ g > 0
      BY <2>2, GenerationsAssumption DEF Aliases
    <3>2. Along(g, 1) \in Aliases
      BY <3>1, CycleIsClosed
    <3> QED BY <2>2, <3>2, GenerationsAssumption DEF Following, Aliases
  <2> QED BY <2>1, <2>2
<1>2. Free(g) \in SUBSET Nat
  BY GenerationsAssumption DEF Free
<1> DEFINE k == CHOOSE k \in Free(g) : \A j \in Free(g) : k <= j
<1>3. k \in Free(g)
  BY <1>2, LeastNatural
<1> HIDE DEF k
<1>4. keys[Along(Following(g), k)] = NoKey /\ k \in Nat
  BY <1>2, <1>3 DEF Free
<1> QED BY <1>1, <1>4, CycleIsClosed DEF Available, k

(* A minted key is none that is in use or in a record. *)
LEMMA MintedIsNew ==
    ASSUME keys \in [Aliases -> KeyIds \cup {NoKey, Invalidated}]
    PROVE  /\ Minted \in KeyIds /\ Minted # record.key /\ Minted # staged.key
           /\ \A g \in Aliases : keys[g] # Minted
<1> DEFINE Held == {keys[g] : g \in Aliases}
           Used == (Held \cup {record.key}) \cup {staged.key}
<1>1. IsFiniteSet(Aliases) /\ Cardinality(Aliases) = Generations
  BY FS_Interval, GenerationsAssumption DEF Aliases
<1>2. IsFiniteSet(Held) /\ Cardinality(Held) <= Generations
  <2>1. keys \in Surjection(Aliases, Held)
    BY DEF Surjection
  <2> QED BY <1>1, <2>1, FS_Surjection
<1>3. Cardinality(Held) \in Nat
  BY <1>2, FS_CardinalityType
<1>4. IsFiniteSet(Used) /\ Cardinality(Used) \in Nat /\ Cardinality(Used) <= Generations + 2
  <2>1. IsFiniteSet(Held \cup {record.key})
        /\ Cardinality(Held \cup {record.key}) <= Generations + 1
        /\ Cardinality(Held \cup {record.key}) \in Nat
    <3>1. /\ IsFiniteSet(Held \cup {record.key})
          /\ Cardinality(Held \cup {record.key}) =
                IF record.key \in Held THEN Cardinality(Held) ELSE Cardinality(Held) + 1
      BY <1>2, FS_AddElement
    <3> HIDE DEF Held
    <3> QED BY <1>2, <1>3, <3>1, GenerationsAssumption
  <2>2. IsFiniteSet(Used) /\ Cardinality(Used) \in Nat
    BY <2>1, FS_AddElement, FS_CardinalityType
  <2> HIDE DEF Held
  <2> QED BY <2>1, <2>2, FS_AddElement, GenerationsAssumption
<1>5. Cardinality(KeyIds) = Generations + 3
  BY FS_Interval, GenerationsAssumption DEF KeyIds
<1>6. ~(KeyIds \subseteq Used)
  <2>1. KeyIds \in SUBSET Used => Cardinality(KeyIds) <= Cardinality(Used)
    BY <1>4, FS_Subset
  <2> HIDE DEF Used
  <2> QED BY <1>4, <1>5, <2>1, GenerationsAssumption
<1>7. \E k \in KeyIds : /\ k # record.key /\ k # staged.key
                        /\ \A g \in Aliases : keys[g] # k
  BY <1>6
<1> QED BY <1>7 DEF Minted

-----------------------------------------------------------------------------
(* The inductive invariant.                                                *)

JobType == [task : {"none", "store", "renew", "erase"},
            at : {"none", "begin", "sealed", "staged", "supersede", "discard", "files", "done"},
            gen : Aliases \cup {0}, key : KeyIds \cup {NoKey}, token : Tokens \cup {NoToken},
            result : {"none", "ok", "uncommitted", "unknown", "committed", "incomplete"}]

ClientType == [Clients -> [op : {"idle", "renew", "disconnect", "keep", "remove"},
                           at : {"idle", "read", "exchange", "working",
                                 "closing", "leaving", "sweep"},
                           token : Tokens \cup {NoToken}]]

(* A client that has not gone idle holds the lease until it sweeps, and the
   worker runs the request its holder waits for.                           *)
LeaseInv ==
    /\ \A c \in Clients :
        /\ client[c].at \in {"read", "exchange", "working", "closing", "leaving"} =>
              holder = c
        /\ client[c].at = "idle" => client[c] = Idle
        /\ client[c].at \in {"read", "exchange"} =>
              c \in Owners /\ client[c].op = "renew"
        /\ client[c].at \in {"read", "exchange", "working"} => ~closing
        /\ client[c].at = "working" =>
              <<client[c].op, job.task>> \in
                    {<<"renew", "store">>, <<"keep", "renew">>,
                     <<"disconnect", "erase">>, <<"remove", "erase">>}
    /\ client \in ClientType
    /\ holder \in Clients \cup {NoClient} /\ closing \in BOOLEAN
    /\ closing => holder # NoClient
    /\ job.task # "none" => holder # NoClient /\ client[holder].at = "working"
    /\ job.task = "none" <=> job.at = "none"

Its == [gen |-> job.gen, key |-> job.key, token |-> job.token]

(* The alias of a candidate key is none the record opens with. *)
CandidateIsApart ==
    record = NoRecord \/ record.gen # job.gen \/ keys[record.gen] # record.key

(* What each point of a request presumes of the disk. *)
WorkerInv ==
    /\ record \in SealedRecords /\ staged \in SealedRecords
    /\ keys \in [Aliases -> KeyIds \cup {NoKey, Invalidated}]
    /\ job \in JobType
    /\ job.task \in {"store", "renew"} => job.token \in Tokens
    /\ job.at \in {"sealed", "staged"} =>
          /\ job.task \in {"store", "renew"} /\ job.gen \in Aliases /\ job.key \in KeyIds
          /\ keys[job.gen] \in {job.key, Invalidated}
    /\ job.at = "staged" => staged \in {NoRecord, Its}
    /\ job.at \in {"supersede", "discard"} => job.task = "renew" /\ job.gen \in Aliases
    /\ job.at = "supersede" =>
          record \in {NoRecord, Its} /\ keys[job.gen] \in {job.key, Invalidated}
    /\ job.task = "renew" /\ job.at \in {"sealed", "staged", "discard"} => CandidateIsApart
    /\ job.at = "files" => job.task = "erase" /\ \A g \in Aliases : keys[g] = NoKey

(* Unless something went behind the lease, what was readable is so until the
   commit, and the key of the new record is still the one it was sealed under. *)
ReadableInv ==
    ~touched =>
        /\ job.task \in {"store", "renew"} /\ job.at \in {"begin", "sealed", "staged", "discard"} =>
              Readable = before
        /\ job.at \in {"sealed", "staged", "supersede"} => keys[job.gen] = job.key
        /\ job.at = "supersede" => record = Its
        /\ job.task = "store" /\ job.at \in {"begin", "sealed", "staged"} =>
              Readable = client[holder].token
        /\ \A o \in Owners : client[o].at = "exchange" => Readable = client[o].token

(* A token that is stored or about to be is not known to be used up, except to
   the owner that refuses it or is just replacing it.                      *)
TokenInv ==
    /\ issued \in 0..MaxTokens
    /\ record.token <= issued /\ staged.token <= issued /\ job.token <= issued
    /\ learned \in [Owners -> SUBSET Tokens]
    /\ barred \in [Owners -> Tokens \cup {NoToken}]
    /\ \A o \in Owners :
        /\ learned[o] \subseteq 1..issued
        /\ job.task \in {"store", "renew"} => job.token \notin learned[o]
        /\ record.token \in learned[o] =>
              \/ record.token = barred[o]
              \/ /\ client[o].op = "renew" /\ client[o].at = "working"
                 /\ client[o].token = record.token
        /\ client[o].at = "exchange" =>
              /\ client[o].token \in Tokens \ learned[o] /\ client[o].token <= issued
              /\ record.token \in {client[o].token, NoToken}
        /\ client[o].op = "renew" /\ client[o].at = "working" =>
              record.token \in {client[o].token, job.token, NoToken}
    /\ job.task = "store" /\ job.at = "done" /\ job.result = "ok" =>
          record.token \in {job.token, NoToken}

VaultInv == LeaseInv /\ WorkerInv /\ ReadableInv /\ TokenInv /\ OutcomesMatchRecord

LEMMA VaultInit == Init => VaultInv
<1> SUFFICES ASSUME Init PROVE VaultInv
  OBVIOUS
<1>1. /\ record = NoRecord /\ staged = NoRecord /\ job = NoJob /\ closing = FALSE
      /\ holder = NoClient /\ NoClient \notin Clients /\ keys = [g \in Aliases |-> NoKey]
      /\ \A c \in Clients : client[c] = Idle
  BY ClientsAssumption DEF Init, Clients
<1>2. LeaseInv
  <2>1. client \in ClientType
    BY DEF Init, Idle, NoToken, ClientType
  <2>2. \A c \in Clients : client[c].at = "idle"
    BY <1>1 DEF Idle
  <2>3. job.task = "none" /\ job.at = "none"
    BY <1>1 DEF NoJob
  <2> QED BY <1>1, <2>1, <2>2, <2>3 DEF LeaseInv
<1>3. WorkerInv
  BY <1>1 DEF WorkerInv, NoJob, NoRecord, SealedRecords, NoToken, NoKey, JobType
<1>4. ReadableInv
  BY <1>1 DEF ReadableInv, NoJob, Idle, Clients
<1>5. TokenInv
  <2>1. \A o \in Owners : client[o] = Idle /\ learned[o] = {}
    BY <1>1 DEF Clients, Init
  <2> QED BY <1>1, <2>1, BoundsAssumption DEF Init, TokenInv, NoJob, NoRecord, Idle, NoToken
<1>6. OutcomesMatchRecord
  BY <1>1 DEF OutcomesMatchRecord, NoJob
<1> QED BY <1>2, <1>3, <1>4, <1>5, <1>6 DEF VaultInv

-----------------------------------------------------------------------------
(* The worker's steps.                                                     *)

(* A step that moves a running request keeps the lease as it is. *)
LEMMA WorkerKeepsLease ==
    ASSUME LeaseInv, job \in JobType, job.at # "none",
           job'.task = job.task, job'.at # "none", UNCHANGED <<lease, client>>
    PROVE  LeaseInv'
<1>1. job.task # "none" /\ job'.task # "none"
  BY DEF LeaseInv
<1>2. UNCHANGED <<holder, closing, client>>
  BY DEF lease
<1> QED BY <1>1, <1>2 DEF LeaseInv

(* The request keeps its tokens as long as the record's token is the old one
   or the request's own.                                                   *)
LEMMA WorkerKeepsTokens ==
    ASSUME TokenInv, LeaseInv, job \in JobType, job.at # "none",
           job'.task = job.task, job'.token = job.token,
           record'.token \in {record.token, NoToken} \/
               (job.task \in {"store", "renew"} /\ record'.token = job.token),
           staged'.token \in {staged.token, job.token, NoToken},
           job'.task = "store" /\ job'.at = "done" /\ job'.result = "ok" =>
               record'.token \in {job'.token, NoToken},
           UNCHANGED <<lease, client, owned, github>>
    PROVE  TokenInv'
<1>1. UNCHANGED <<holder, closing, client, barred, closed, learned, issued, accepted>>
  BY DEF lease, owned, github
<1>2. job.task # "none" /\ client[holder].at = "working" /\ holder \in Clients
  BY DEF LeaseInv
<1>3. \A o \in Owners : client[o].at \in {"exchange", "working"} => o = holder
  BY DEF LeaseInv, Clients
<1>4. issued \in Nat /\ \A o \in Owners : NoToken \notin learned[o]
  BY BoundsAssumption DEF TokenInv, NoToken
<1>5. \A o \in Owners : client[o].at # "exchange"
  BY <1>2, <1>3
<1>6. /\ issued' \in 0..MaxTokens
      /\ record'.token <= issued' /\ staged'.token <= issued' /\ job'.token <= issued'
  BY <1>1, <1>4 DEF TokenInv, NoToken
<1>7. ASSUME NEW o \in Owners
      PROVE  /\ learned'[o] \subseteq 1..issued'
             /\ job'.task \in {"store", "renew"} => job'.token \notin learned'[o]
             /\ record'.token \in learned'[o] =>
                  \/ record'.token = barred'[o]
                  \/ /\ client'[o].op = "renew" /\ client'[o].at = "working"
                     /\ client'[o].token = record'.token
             /\ client'[o].op = "renew" /\ client'[o].at = "working" =>
                  record'.token \in {client'[o].token, job'.token, NoToken}
  BY <1>1, <1>4, <1>7 DEF TokenInv
<1> QED BY <1>1, <1>5, <1>6, <1>7 DEF TokenInv

(* Sealing changes a key that nothing is sealed under. *)
LEMMA SealingIsApart ==
    ASSUME WorkerInv, job.task = "renew" => Free(record.gen) # {},
           job.task \in {"store", "renew"}
    PROVE  /\ SealedUnder \in Aliases
           /\ Provisioned \in [Aliases -> KeyIds \cup {NoKey, Invalidated}]
           /\ \A g \in Aliases : Provisioned[g] # keys[g] =>
                 keys[g] = NoKey /\ Provisioned[g] = Minted
           /\ Minted \in KeyIds /\ Minted # record.key
           /\ job.task = "renew" => keys[SealedUnder] = NoKey
           /\ record # NoRecord => record.gen \in Aliases /\ record.key \in KeyIds
           /\ NoKey \notin KeyIds
<1>1. /\ record.gen \in Aliases \cup {0}
      /\ record # NoRecord => record.gen \in Aliases /\ record.key \in KeyIds
  BY DEF WorkerInv, SealedRecords, NoRecord
<1>2. 1 \in Aliases /\ NoKey \notin KeyIds
  BY GenerationsAssumption DEF Aliases, KeyIds, NoKey
<1>3. /\ SealedUnder \in Aliases
      /\ job.task = "renew" => keys[SealedUnder] = NoKey
  BY <1>1, <1>2, AvailableIsFree DEF SealedUnder
<1>4. Minted \in KeyIds /\ Minted # record.key
  BY MintedIsNew DEF WorkerInv
<1>5. keys \in [Aliases -> KeyIds \cup {NoKey, Invalidated}]
  BY DEF WorkerInv
<1>6. /\ Provisioned \in [Aliases -> KeyIds \cup {NoKey, Invalidated}]
      /\ \A g \in Aliases : Provisioned[g] # keys[g] =>
                 keys[g] = NoKey /\ Provisioned[g] = Minted
  BY <1>3, <1>4, <1>5 DEF Provisioned
<1> QED BY <1>1, <1>2, <1>3, <1>4, <1>6

LEMMA SealKeeps ==
    ASSUME VaultInv, Seal
    PROVE  VaultInv' /\ Readable' = Readable
<1>0. LeaseInv /\ WorkerInv /\ ReadableInv /\ TokenInv
  BY DEF VaultInv
<1>1. /\ job \in JobType /\ keys \in [Aliases -> KeyIds \cup {NoKey, Invalidated}]
      /\ job.token \in Tokens
  BY <1>0 DEF WorkerInv, JobType, Seal
<1>2. /\ UNCHANGED <<record, staged, lease, client, owned, github, crashes, before, touched>>
      /\ job.at = "begin" /\ job.task \in {"store", "renew"}
  BY DEF Seal, aux
<1>3. \/ /\ job' = [job EXCEPT !.at = "sealed", !.gen = SealedUnder, !.key = keys'[SealedUnder]]
         /\ job.task = "renew" => Free(record.gen) # {}
         /\ keys' = Provisioned /\ keys'[SealedUnder] \in KeyIds
      \/ job' = Answered("uncommitted") /\ keys' = keys
      \/ /\ job' = [Abandoned EXCEPT !.gen = SealedUnder]
         /\ job.task = "renew" => Free(record.gen) # {}
         /\ keys' \in {keys, Provisioned}
  BY DEF Seal, Usable
<1>4. /\ job' \in JobType /\ job'.task = job.task /\ job'.token = job.token /\ job'.at # "none"
      /\ job'.at \in {"sealed", "discard", "done"}
      /\ job'.at = "done" => job'.result = "uncommitted"
      /\ job'.at # "done" => job'.gen = SealedUnder /\ (job.task = "renew" => Free(record.gen) # {})
      /\ job'.at = "sealed" => job'.key = keys'[SealedUnder] /\ job'.key \in KeyIds
      /\ job'.at = "discard" => job.task = "renew"
  BY <1>1, <1>2, <1>3, SealingIsApart, <1>0 DEF JobType, Answered, Abandoned
<1>5. /\ keys' \in [Aliases -> KeyIds \cup {NoKey, Invalidated}]
      /\ \A g \in Aliases : keys'[g] # keys[g] => keys[g] = NoKey /\ keys'[g] = Minted
  BY <1>0, <1>1, <1>2, <1>3, SealingIsApart
<1>6. /\ Minted \in KeyIds /\ Minted # record.key /\ NoKey \notin KeyIds
      /\ record # NoRecord => record.gen \in Aliases /\ record.key \in KeyIds
      /\ job'.at # "done" => SealedUnder \in Aliases
      /\ job'.at # "done" /\ job.task = "renew" => keys[SealedUnder] = NoKey
  <2>1. Minted \in KeyIds /\ Minted # record.key
    BY <1>0, MintedIsNew DEF WorkerInv
  <2>2. NoKey \notin KeyIds
    BY GenerationsAssumption DEF KeyIds, NoKey
  <2>3. record # NoRecord => record.gen \in Aliases /\ record.key \in KeyIds
    BY <1>0 DEF WorkerInv, SealedRecords
  <2> QED BY <1>0, <1>2, <1>4, <2>1, <2>2, <2>3, SealingIsApart
<1>7. Readable' = Readable
  BY <1>2, <1>5, <1>6 DEF Readable
<1>8. LeaseInv'
  BY <1>0, <1>1, <1>2, <1>4, WorkerKeepsLease
<1>9. WorkerInv'
  BY <1>0, <1>1, <1>2, <1>4, <1>5, <1>6 DEF WorkerInv, JobType, CandidateIsApart
<1>10. ReadableInv'
  BY <1>0, <1>1, <1>2, <1>4, <1>5, <1>6, <1>7, UNCHANGED holder DEF ReadableInv, lease
<1>11. TokenInv'
  BY <1>0, <1>1, <1>2, <1>4, WorkerKeepsTokens
<1>12. OutcomesMatchRecord'
  BY <1>0, <1>1, <1>2, <1>4, <1>7 DEF OutcomesMatchRecord, ReadableInv
<1> QED BY <1>7, <1>8, <1>9, <1>10, <1>11, <1>12 DEF VaultInv

LEMMA StageKeeps ==
    ASSUME VaultInv, Stage
    PROVE  VaultInv' /\ Readable' = Readable
<1>0. LeaseInv /\ WorkerInv /\ ReadableInv /\ TokenInv
  BY DEF VaultInv
<1>1. /\ job \in JobType /\ job.at = "sealed" /\ job.task \in {"store", "renew"}
      /\ job.token \in Tokens /\ job.gen \in Aliases /\ job.key \in KeyIds
  BY <1>0 DEF WorkerInv, JobType, Stage
<1>2. UNCHANGED <<record, keys, lease, client, owned, github, crashes, before, touched>>
  BY DEF Stage, aux
<1>3. \/ staged' = Its /\ job' = [job EXCEPT !.at = "staged"]
      \/ staged' \in {staged, NoRecord} /\ job' = Abandoned
  BY DEF Stage, Its
<1>4. /\ job' \in JobType /\ job'.task = job.task /\ job'.token = job.token /\ job'.at # "none"
      /\ job'.gen = job.gen /\ job'.key = job.key
      /\ job'.at \in {"staged", "discard", "done"}
      /\ job'.at = "done" => job'.result = "uncommitted"
      /\ job'.at = "discard" => job.task = "renew"
      /\ job'.at = "staged" => staged' = Its
      /\ staged' \in {staged, NoRecord, Its}
  BY <1>1, <1>3 DEF JobType, Answered, Abandoned
<1>5. Its \in SealedRecords /\ NoRecord \in SealedRecords /\ Its' = Its
  BY <1>1, <1>4 DEF Its, SealedRecords
<1>6. Readable' = Readable
  BY <1>2 DEF Readable
<1>7. LeaseInv'
  BY <1>0, <1>1, <1>2, <1>4, WorkerKeepsLease
<1>8. WorkerInv'
  BY <1>0, <1>1, <1>2, <1>4, <1>5 DEF WorkerInv, JobType, CandidateIsApart
<1>9. ReadableInv'
  BY <1>0, <1>1, <1>2, <1>4, <1>6 DEF ReadableInv, lease
<1>10. TokenInv'
  BY <1>0, <1>1, <1>2, <1>4, WorkerKeepsTokens DEF Its, NoRecord
<1>11. OutcomesMatchRecord'
  BY <1>0, <1>1, <1>2, <1>4, <1>6 DEF OutcomesMatchRecord, ReadableInv
<1> QED BY <1>6, <1>7, <1>8, <1>9, <1>10, <1>11 DEF VaultInv

LEMMA RenameKeeps ==
    ASSUME VaultInv, Rename
    PROVE  VaultInv'
<1>0. LeaseInv /\ WorkerInv /\ ReadableInv /\ TokenInv
  BY DEF VaultInv
<1>1. /\ job \in JobType /\ job.at = "staged" /\ job.task \in {"store", "renew"}
      /\ job.token \in Tokens /\ job.gen \in Aliases /\ job.key \in KeyIds
      /\ staged \in {NoRecord, Its}
  BY <1>0 DEF WorkerInv, JobType, Rename
<1>2. UNCHANGED <<keys, lease, client, owned, github, crashes, before, touched>>
  BY DEF Rename, aux
<1>3. \/ /\ record' = Its /\ staged' = NoRecord
         /\ \/ job.task = "renew" /\ job' = [job EXCEPT !.at = "supersede"]
            \/ \E r \in {"ok", "committed", "unknown"} :
                  (job.task = "renew" => r # "ok") /\ job' = Answered(r)
      \/ /\ record' = record /\ staged' \in {staged, NoRecord}
         /\ job' \in {Abandoned, Answered("unknown")}
  BY <1>1 DEF Rename
<1>4. /\ job' \in JobType /\ job'.task = job.task /\ job'.token = job.token /\ job'.at # "none"
      /\ job'.gen = job.gen /\ job'.key = job.key
      /\ job'.at \in {"supersede", "discard", "done"}
      /\ job'.at = "discard" => job.task = "renew" /\ record' = record
      /\ job'.at = "supersede" => job.task = "renew" /\ record' = Its
      /\ staged' \in {NoRecord, Its} /\ record' \in {record, Its}
      /\ job'.at = "done" =>
            \/ record' = Its /\ job'.result \in {"ok", "committed", "unknown"}
            \/ record' = record /\ job'.result \in {"uncommitted", "unknown"}
  BY <1>1, <1>3 DEF JobType, Answered, Abandoned
<1>5. Its \in SealedRecords /\ NoRecord \in SealedRecords /\ Its' = Its /\ Its # NoRecord
  BY <1>1, <1>4, GenerationsAssumption DEF Its, SealedRecords, NoRecord, Aliases
<1>6. /\ record' = record => Readable' = Readable
      /\ record' = Its /\ keys[job.gen] = job.key => Readable' = job.token
  BY <1>2, <1>5 DEF Readable, Its
<1>7. LeaseInv'
  BY <1>0, <1>1, <1>2, <1>4, WorkerKeepsLease
<1>8. WorkerInv'
  BY <1>0, <1>1, <1>2, <1>4, <1>5 DEF WorkerInv, JobType, CandidateIsApart
<1>9. ReadableInv'
  <2>1. holder' = holder /\ client' = client
    BY <1>2 DEF lease
  <2>2. \A o \in Owners : client[o].at # "exchange"
    BY <1>0, <1>1 DEF LeaseInv, Clients
  <2> QED BY <1>0, <1>1, <1>2, <1>4, <1>5, <1>6, <2>1, <2>2 DEF ReadableInv
<1>10. TokenInv'
  <2>1. record'.token \in {record.token, job.token} /\ staged'.token \in {NoToken, job.token}
    BY <1>4 DEF Its, NoRecord
  <2>2. job'.task = "store" /\ job'.at = "done" /\ job'.result = "ok" =>
            record'.token = job'.token
    BY <1>4 DEF Its
  <2> QED BY <1>0, <1>1, <1>2, <1>4, <2>1, <2>2, WorkerKeepsTokens
<1>11. OutcomesMatchRecord'
  BY <1>0, <1>1, <1>2, <1>4, <1>6 DEF OutcomesMatchRecord, ReadableInv
<1> QED BY <1>7, <1>8, <1>9, <1>10, <1>11 DEF VaultInv

LEMMA DiscardKeeps ==
    ASSUME VaultInv, Discard
    PROVE  VaultInv' /\ Readable' = Readable
<1>0. LeaseInv /\ WorkerInv /\ ReadableInv /\ TokenInv
  BY DEF VaultInv
<1>1. /\ job \in JobType /\ job.at = "discard" /\ job.task = "renew"
      /\ job.token \in Tokens /\ job.gen \in Aliases
      /\ keys \in [Aliases -> KeyIds \cup {NoKey, Invalidated}]
  BY <1>0 DEF WorkerInv, JobType, Discard
<1>2. UNCHANGED <<record, staged, lease, client, owned, github, crashes, before, touched>>
  BY DEF Discard, aux
<1>3. job' = Answered("uncommitted") /\ keys' \in {keys, [keys EXCEPT ![job.gen] = NoKey]}
  BY DEF Discard
<1>4. /\ job' \in JobType /\ job'.task = job.task /\ job'.token = job.token
      /\ job'.at = "done" /\ job'.result = "uncommitted"
  BY <1>1, <1>3 DEF JobType, Answered
<1>5. /\ keys' \in [Aliases -> KeyIds \cup {NoKey, Invalidated}]
      /\ \A g \in Aliases : g # job.gen => keys'[g] = keys[g]
      /\ keys'[job.gen] \in {keys[job.gen], NoKey}
  BY <1>1, <1>3
<1>6. Readable' = Readable
  <2>1. NoKey \notin KeyIds
    BY GenerationsAssumption DEF KeyIds, NoKey
  <2>2. record # NoRecord => record.gen \in Aliases /\ record.key \in KeyIds
    BY <1>0 DEF WorkerInv, SealedRecords
  <2>3. CandidateIsApart
    BY <1>0, <1>1 DEF WorkerInv
  <2> QED BY <1>1, <1>2, <1>5, <2>1, <2>2, <2>3 DEF Readable, CandidateIsApart
<1>7. LeaseInv'
  BY <1>0, <1>1, <1>2, <1>4, WorkerKeepsLease
<1>8. WorkerInv'
  BY <1>0, <1>1, <1>2, <1>4, <1>5 DEF WorkerInv, JobType
<1>9. ReadableInv'
  BY <1>0, <1>1, <1>2, <1>4, <1>6 DEF ReadableInv, lease
<1>10. TokenInv'
  BY <1>0, <1>1, <1>2, <1>4, WorkerKeepsTokens
<1>11. OutcomesMatchRecord'
  BY <1>0, <1>1, <1>2, <1>4, <1>6 DEF OutcomesMatchRecord, ReadableInv
<1> QED BY <1>6, <1>7, <1>8, <1>9, <1>10, <1>11 DEF VaultInv

LEMMA SupersedeKeeps ==
    ASSUME VaultInv, Supersede
    PROVE  VaultInv' /\ Readable' = Readable
<1>0. LeaseInv /\ WorkerInv /\ ReadableInv /\ TokenInv
  BY DEF VaultInv
<1>1. /\ job \in JobType /\ job.at = "supersede" /\ job.task = "renew"
      /\ job.token \in Tokens /\ job.gen \in Aliases
      /\ keys \in [Aliases -> KeyIds \cup {NoKey, Invalidated}]
      /\ record \in {NoRecord, Its} /\ keys[job.gen] \in {job.key, Invalidated}
  BY <1>0 DEF WorkerInv, JobType, Supersede
<1>2. UNCHANGED <<record, staged, lease, client, owned, github, crashes, before, touched>>
  BY DEF Supersede, aux
<1>3. /\ job' \in {job, Answered("ok")}
      /\ keys' = keys \/ \E g \in Aliases : g # job.gen /\ keys' = [keys EXCEPT ![g] = NoKey]
  BY <1>1 DEF Supersede, Doomed
<1>4. /\ job' \in JobType /\ job'.task = job.task /\ job'.token = job.token
      /\ job'.gen = job.gen /\ job'.key = job.key /\ job'.at \in {"supersede", "done"}
      /\ job'.at = "done" => job'.result = "ok"
  BY <1>1, <1>3 DEF JobType, Answered
<1>5. /\ keys' \in [Aliases -> KeyIds \cup {NoKey, Invalidated}]
      /\ keys'[job.gen] = keys[job.gen] /\ Its' = Its
  BY <1>1, <1>3, <1>4 DEF Its
<1>6. record = Its /\ keys[job.gen] = job.key => Readable' = job.token
  <2>1. Its # NoRecord
    BY <1>1, GenerationsAssumption DEF Its, NoRecord, Aliases
  <2> QED BY <1>2, <1>5, <2>1 DEF Readable, Its
<1>12. Readable' = Readable
  BY <1>1, <1>2, <1>5 DEF Readable, Its
<1>7. LeaseInv'
  BY <1>0, <1>1, <1>2, <1>4, WorkerKeepsLease
<1>8. WorkerInv'
  BY <1>0, <1>1, <1>2, <1>4, <1>5 DEF WorkerInv, JobType
<1>9. ReadableInv'
  <2>1. \A o \in Owners : client[o].at # "exchange"
    BY <1>0, <1>1 DEF LeaseInv, Clients
  <2> QED BY <1>0, <1>1, <1>2, <1>4, <1>5, <2>1 DEF ReadableInv
<1>10. TokenInv'
  BY <1>0, <1>1, <1>2, <1>4, WorkerKeepsTokens
<1>11. OutcomesMatchRecord'
  BY <1>0, <1>1, <1>2, <1>4, <1>6 DEF OutcomesMatchRecord, ReadableInv
<1> QED BY <1>7, <1>8, <1>9, <1>10, <1>11, <1>12 DEF VaultInv

LEMMA EraseKeysKeeps ==
    ASSUME VaultInv, EraseKeys
    PROVE  VaultInv'
<1>0. LeaseInv /\ WorkerInv /\ ReadableInv /\ TokenInv
  BY DEF VaultInv
<1>1. /\ job \in JobType /\ job.at = "begin" /\ job.task = "erase"
      /\ keys \in [Aliases -> KeyIds \cup {NoKey, Invalidated}]
  BY <1>0 DEF WorkerInv, JobType, EraseKeys
<1>2. UNCHANGED <<record, staged, lease, client, owned, github, crashes, before, touched>>
  BY DEF EraseKeys, aux
<1>3. \/ /\ job' \in {job, Answered("incomplete")}
         /\ keys' = keys \/ \E g \in Aliases : keys' = [keys EXCEPT ![g] = NoKey]
      \/ /\ \A g \in Aliases : keys[g] = NoKey
         /\ job' = [job EXCEPT !.at = "files"] /\ keys' = keys
  BY <1>1 DEF EraseKeys, Doomed
<1>4. /\ job' \in JobType /\ job'.task = job.task /\ job'.token = job.token
      /\ job'.at \in {"begin", "files", "done"}
      /\ job'.at = "done" => job'.result = "incomplete"
      /\ job'.at = "files" => \A g \in Aliases : keys'[g] = NoKey
  BY <1>1, <1>3 DEF JobType, Answered
<1>5. keys' \in [Aliases -> KeyIds \cup {NoKey, Invalidated}]
  BY <1>1, <1>3
<1>6. \A o \in Owners : client[o].at # "exchange"
  BY <1>0, <1>1 DEF LeaseInv, Clients
<1>7. LeaseInv'
  BY <1>0, <1>1, <1>2, <1>4, WorkerKeepsLease
<1>8. WorkerInv'
  BY <1>0, <1>1, <1>2, <1>4, <1>5 DEF WorkerInv, JobType
<1>9. ReadableInv'
  BY <1>1, <1>2, <1>4, <1>6 DEF ReadableInv
<1>10. TokenInv'
  BY <1>0, <1>1, <1>2, <1>4, WorkerKeepsTokens
<1>11. OutcomesMatchRecord'
  BY <1>4 DEF OutcomesMatchRecord
<1> QED BY <1>7, <1>8, <1>9, <1>10, <1>11 DEF VaultInv

LEMMA EraseFilesKeeps ==
    ASSUME VaultInv, EraseFiles
    PROVE  VaultInv'
<1>0. LeaseInv /\ WorkerInv /\ ReadableInv /\ TokenInv
  BY DEF VaultInv
<1>1. /\ job \in JobType /\ job.at = "files" /\ job.task = "erase"
      /\ \A g \in Aliases : keys[g] = NoKey
  BY <1>0 DEF WorkerInv, JobType, EraseFiles
<1>2. UNCHANGED <<keys, lease, client, owned, github, crashes, before, touched>>
  BY DEF EraseFiles, aux
<1>3. \/ record' = NoRecord /\ staged' = NoRecord /\ job' = Answered("ok")
      \/ /\ record' \in {record, NoRecord} /\ staged' = staged
         /\ job' = Answered("incomplete")
  BY DEF EraseFiles
<1>4. /\ job' \in JobType /\ job'.task = job.task /\ job'.token = job.token
      /\ job'.at = "done" /\ job'.result \in {"ok", "incomplete"}
  BY <1>1, <1>3 DEF JobType, Answered
<1>6. \A o \in Owners : client[o].at # "exchange"
  BY <1>0, <1>1 DEF LeaseInv, Clients
<1>7. LeaseInv'
  BY <1>0, <1>1, <1>2, <1>4, WorkerKeepsLease
<1>8. WorkerInv'
  BY <1>0, <1>1, <1>2, <1>3, <1>4 DEF WorkerInv, JobType, SealedRecords
<1>9. ReadableInv'
  BY <1>1, <1>2, <1>4, <1>6 DEF ReadableInv
<1>10. TokenInv'
  BY <1>0, <1>1, <1>2, <1>3, <1>4, WorkerKeepsTokens DEF NoRecord
<1>11. OutcomesMatchRecord'
  <2>1. \/ job'.result = "ok" /\ record' = NoRecord /\ staged' = NoRecord
        \/ job'.result = "incomplete"
    BY <1>1, <1>3 DEF Answered, JobType
  <2> QED BY <1>1, <1>2, <1>4, <2>1 DEF OutcomesMatchRecord
<1> QED BY <1>7, <1>8, <1>9, <1>10, <1>11 DEF VaultInv

LEMMA WorkerKeeps ==
    ASSUME VaultInv, Worker
    PROVE  VaultInv'
BY SealKeeps, StageKeeps, RenameKeeps, DiscardKeeps, SupersedeKeeps, EraseKeysKeeps,
   EraseFilesKeeps DEF Worker

-----------------------------------------------------------------------------
(* The clients' steps.                                                     *)

(* While nobody holds the lease no request runs and no client is on its way. *)
LEMMA NobodyHolds ==
    ASSUME LeaseInv, holder = NoClient
    PROVE  /\ job.task = "none" /\ job.at = "none" /\ ~closing
           /\ \A c \in Clients : client[c].at \in {"idle", "sweep"}
<1>1. \A c \in Clients : c # NoClient
  BY ClientsAssumption DEF Clients
<1>2. \A c \in Clients : client[c].at \in {"idle", "read", "exchange", "working",
                                           "closing", "leaving", "sweep"}
  BY DEF LeaseInv, ClientType
<1> QED BY <1>1, <1>2 DEF LeaseInv

(* Nor does a request run while the holder is not waiting for it. *)
LEMMA OneHolds ==
    ASSUME LeaseInv, NEW c \in Clients, client[c].at \in {"read", "exchange", "closing", "leaving"}
    PROVE  /\ holder = c /\ job.task = "none" /\ job.at = "none"
           /\ \A d \in Clients \ {c} : client[d].at \in {"idle", "sweep"}
<1>1. \A d \in Clients : client[d].at \in {"idle", "read", "exchange", "working",
                                           "closing", "leaving", "sweep"}
  BY DEF LeaseInv, ClientType
<1> QED BY <1>1 DEF LeaseInv

(* A request that has just begun, or none, presumes nothing of the disk. *)
LEMMA FreshRequestFits ==
    ASSUME WorkerInv, UNCHANGED keys,
           record' \in {record, NoRecord}, staged' \in {staged, NoRecord},
           job' \in JobType, job'.at \in {"none", "begin"},
           job'.task \in {"store", "renew"} => job'.token \in Tokens
    PROVE  WorkerInv' /\ OutcomesMatchRecord'
BY DEF WorkerInv, OutcomesMatchRecord, JobType, SealedRecords

LEMMA NoJobIsTyped == NoJob \in JobType /\ NoJob.at = "none" /\ NoJob.task = "none"
                      /\ NoJob.token = NoToken
BY DEF NoJob, JobType

(* The readable credential is the record's or none. *)
LEMMA ReadableIsRecord ==
    ASSUME WorkerInv
    PROVE  /\ Readable \in {record.token, NoToken}
           /\ record.token \in Tokens \cup {NoToken} /\ Readable \in Tokens \cup {NoToken}
BY DEF Readable, WorkerInv, SealedRecords, NoRecord

(* Claiming the lease and, when there is one, asking the worker. *)
LEMMA ClaimKeeps ==
    ASSUME VaultInv, NEW c \in Clients, Claims(c),
           NEW op \in {"renew", "disconnect", "keep", "remove"},
           NEW at \in {"read", "working"}, NEW task \in {"none", "renew", "erase"},
           NEW token \in Tokens \cup {NoToken},
           client' = [client EXCEPT ![c] = [op |-> op, at |-> at, token |-> NoToken]],
           at = "read" => c \in Owners /\ op = "renew" /\ task = "none",
           at = "working" => <<op, task>> \in {<<"keep", "renew">>, <<"disconnect", "erase">>,
                                               <<"remove", "erase">>},
           task = "none" => UNCHANGED <<job, before>>,
           task # "none" => Request(task, token),
           task = "renew" => token \in Tokens /\ token = issued + 1,
           task # "renew" => token = NoToken,
           issued' = IF task = "renew" THEN issued + 1 ELSE issued,
           issued' \in 0..MaxTokens,
           UNCHANGED <<disk, owned>>
    PROVE  VaultInv'
<1>0. LeaseInv /\ WorkerInv /\ ReadableInv /\ TokenInv
  BY DEF VaultInv
<1>1. /\ UNCHANGED <<record, staged, keys, barred, closed, learned, closing>>
      /\ holder = NoClient /\ holder' = c /\ client[c] = Idle /\ touched' = FALSE
  BY DEF disk, owned, Claims
<1>2. /\ job.task = "none" /\ job.at = "none" /\ ~closing
      /\ \A d \in Clients : client[d].at \in {"idle", "sweep"}
      /\ c # NoClient
  BY <1>0, <1>1, NobodyHolds, ClientsAssumption DEF Clients
<1>3. /\ client' \in ClientType
      /\ client'[c].op = op /\ client'[c].at = at
      /\ \A d \in Clients \ {c} : client'[d] = client[d]
  BY <1>0 DEF LeaseInv, ClientType
<1>4. /\ job' \in JobType /\ job'.task = task
      /\ job'.at = (IF task = "none" THEN "none" ELSE "begin")
      /\ task # "none" => job'.token = token /\ before' = Readable
      /\ task = "none" => job'.token = job.token
  BY <1>0, <1>2 DEF Request, NoJob, JobType, WorkerInv
<1>5. LeaseInv'
  BY <1>0, <1>1, <1>2, <1>3, <1>4 DEF LeaseInv
<1>6. WorkerInv' /\ OutcomesMatchRecord'
  BY <1>0, <1>1, <1>4, FreshRequestFits
<1>7. Readable' = Readable
  BY <1>1 DEF Readable
<1>8. ReadableInv'
  <2>1. \A o \in Owners : client'[o].at # "exchange"
    BY <1>2, <1>3 DEF Clients
  <2> QED BY <1>4, <1>7, <2>1 DEF ReadableInv
<1>9. TokenInv'
  <2>1. issued \in Nat /\ issued <= issued' /\ issued' \in 0..MaxTokens
    BY <1>0, BoundsAssumption DEF TokenInv
  <2>2. record.token \in Tokens \cup {NoToken} /\ staged.token \in Tokens \cup {NoToken}
    BY <1>0 DEF WorkerInv, SealedRecords, NoRecord
  <2>3. job'.token <= issued'
    BY <1>0, <1>4, <2>1 DEF TokenInv, NoToken, JobType, WorkerInv, Tokens
  <2>4. record'.token <= issued' /\ staged'.token <= issued'
    BY <1>0, <1>1, <2>1, <2>2, BoundsAssumption DEF TokenInv, Tokens, NoToken
  <2>5. ASSUME NEW o \in Owners
        PROVE  /\ learned'[o] \subseteq 1..issued'
               /\ job'.task \in {"store", "renew"} => job'.token \notin learned'[o]
               /\ record'.token \in learned'[o] => record'.token = barred'[o]
               /\ client'[o].at # "exchange"
               /\ ~(client'[o].op = "renew" /\ client'[o].at = "working")
    BY <1>0, <1>1, <1>2, <1>3, <1>4, <2>1 DEF TokenInv, Clients
  <2> QED BY <1>0, <1>1, <1>4, <2>1, <2>3, <2>4, <2>5 DEF TokenInv
<1> QED BY <1>5, <1>6, <1>8, <1>9 DEF VaultInv

(* A client that starts to leave takes its request with it. *)
LEMMA LeaveKeeps ==
    ASSUME LeaseInv, WorkerInv, NEW c \in Clients, NEW at \in {"closing", "leaving"},
           client[c].at \in {"read", "exchange", "working"}, Leaves(c, at),
           job' = NoJob \/ (job' = job /\ client[c].at # "working"),
           UNCHANGED disk
    PROVE  /\ LeaseInv' /\ WorkerInv' /\ ReadableInv' /\ OutcomesMatchRecord'
           /\ holder = c /\ holder' = c /\ job' \in JobType /\ job'.task = "none"
           /\ client'[c].at = at /\ client'[c].op = client[c].op
           /\ \A d \in Clients \ {c} : client'[d] = client[d] /\ client[d].at \in {"idle", "sweep"}
<1>1. /\ UNCHANGED <<record, staged, keys, holder>> /\ closing' = TRUE /\ holder = c
      /\ c # NoClient
  BY ClientsAssumption DEF disk, Leaves, LeaseInv, Clients
<1>2. \A d \in Clients \ {c} : client[d].at \in {"idle", "sweep"}
  <2>1. \A d \in Clients : client[d].at \in {"idle", "read", "exchange", "working",
                                             "closing", "leaving", "sweep"}
    BY DEF LeaseInv, ClientType
  <2> QED BY <1>1, <2>1 DEF LeaseInv
<1>3. /\ client' \in ClientType
      /\ client'[c].at = at /\ client'[c].op = client[c].op
      /\ \A d \in Clients \ {c} : client'[d] = client[d]
  BY DEF Leaves, LeaseInv, JobType, ClientType
<1>4. job' \in JobType /\ job'.task = "none" /\ job'.at = "none"
  <2>1. CASE job' = NoJob
    BY <2>1, NoJobIsTyped
  <2>2. CASE job' = job /\ client[c].at # "working"
    BY <1>1, <2>2 DEF LeaseInv, WorkerInv, JobType
  <2> QED BY <2>1, <2>2
<1>5. LeaseInv'
  BY <1>1, <1>2, <1>3, <1>4 DEF LeaseInv
<1>6. WorkerInv' /\ OutcomesMatchRecord'
  BY <1>1, <1>4, FreshRequestFits
<1>7. ReadableInv'
  <2>1. \A o \in Owners : client'[o].at # "exchange"
    BY <1>2, <1>3 DEF Clients
  <2> QED BY <1>4, <2>1 DEF ReadableInv
<1> QED BY <1>1, <1>2, <1>3, <1>4, <1>5, <1>6, <1>7

LEMMA RenewKeeps ==
    ASSUME VaultInv, NEW o \in Owners, Renew(o)
    PROVE  VaultInv'
<1>1. o \in Clients /\ NoToken \in Tokens \cup {NoToken} /\ issued \in 0..MaxTokens
  BY DEF Clients, VaultInv, TokenInv
<1>2. UNCHANGED <<job, before, disk, owned, issued>>
  BY DEF Renew, github
<1>3. Claims(o) /\ client' = [client EXCEPT ![o] = [op |-> "renew", at |-> "read", token |-> NoToken]]
  BY DEF Renew
<1> QED BY <1>1, <1>2, <1>3, ClaimKeeps

LEMMA DisconnectKeeps ==
    ASSUME VaultInv, NEW o \in Owners, Disconnect(o)
    PROVE  VaultInv'
<1>1. o \in Clients /\ NoToken \in Tokens \cup {NoToken} /\ issued \in 0..MaxTokens
  BY DEF Clients, VaultInv, TokenInv
<1>2. UNCHANGED <<disk, owned, issued>> /\ Request("erase", NoToken)
  BY DEF Disconnect, github
<1>3. Claims(o) /\ client' = [client EXCEPT ![o] =
                                [op |-> "disconnect", at |-> "working", token |-> NoToken]]
  BY DEF Disconnect
<1> QED BY <1>1, <1>2, <1>3, ClaimKeeps

LEMMA RemoveKeeps ==
    ASSUME VaultInv, NEW s \in Screens, Remove(s)
    PROVE  VaultInv'
<1>1. s \in Clients /\ NoToken \in Tokens \cup {NoToken} /\ issued \in 0..MaxTokens
  BY DEF Clients, VaultInv, TokenInv
<1>2. UNCHANGED <<disk, owned, issued>> /\ Request("erase", NoToken)
  BY DEF Remove, github
<1>3. Claims(s) /\ client' = [client EXCEPT ![s] =
                                [op |-> "remove", at |-> "working", token |-> NoToken]]
  BY DEF Remove
<1> QED BY <1>1, <1>2, <1>3, ClaimKeeps

LEMMA KeepKeeps ==
    ASSUME VaultInv, NEW s \in Screens, Keep(s)
    PROVE  VaultInv'
<1>1. s \in Clients /\ issued \in 0..MaxTokens /\ issued < MaxTokens
  BY DEF Clients, VaultInv, TokenInv, Keep
<1>2. issued' = issued + 1 /\ issued' \in 0..MaxTokens /\ issued' \in Tokens
  BY <1>1, BoundsAssumption DEF Keep, Tokens
<1>3. UNCHANGED <<disk, owned>> /\ Request("renew", issued')
  BY DEF Keep
<1>4. Claims(s) /\ client' = [client EXCEPT ![s] =
                                [op |-> "keep", at |-> "working", token |-> NoToken]]
  BY DEF Keep
<1> QED BY <1>1, <1>2, <1>3, <1>4, ClaimKeeps

LEMMA ReadStoredKeeps ==
    ASSUME VaultInv, NEW o \in Owners, ReadStored(o)
    PROVE  VaultInv'
<1>0. LeaseInv /\ WorkerInv /\ ReadableInv /\ TokenInv
  BY DEF VaultInv
<1>1. o \in Clients /\ client[o].at = "read" /\ client[o].op = "renew"
  BY <1>0 DEF ReadStored, LeaseInv, Clients
<1>2. /\ UNCHANGED <<record, staged, keys, job, barred, learned, issued, before, touched>>
      /\ UNCHANGED disk
  BY DEF ReadStored, disk, owned, github, aux
<1>3. /\ holder = o /\ job.task = "none" /\ job.at = "none"
      /\ \A d \in Clients \ {o} : client[d].at \in {"idle", "sweep"}
  BY <1>0, <1>1, OneHolds
<1>4. CASE /\ Readable # NoToken /\ Readable # barred[o]
           /\ client' = [client EXCEPT ![o].at = "exchange", ![o].token = Readable]
           /\ UNCHANGED lease
  <2>1. Readable = record.token /\ record.token \in Tokens
    BY <1>0, <1>4, ReadableIsRecord
  <2>2. /\ client' \in ClientType
        /\ client'[o].op = "renew" /\ client'[o].at = "exchange" /\ client'[o].token = Readable
        /\ \A d \in Clients \ {o} : client'[d] = client[d]
    BY <1>0, <1>1, <1>4, <2>1 DEF LeaseInv, ClientType
  <2>3. UNCHANGED <<holder, closing>>
    BY <1>4 DEF lease
  <2>4. LeaseInv'
    BY <1>0, <1>1, <1>2, <1>3, <2>2, <2>3 DEF LeaseInv
  <2>5. WorkerInv' /\ OutcomesMatchRecord' /\ Readable' = Readable
    BY <1>0, <1>2, <1>3, FreshRequestFits DEF Readable, WorkerInv, JobType
  <2>6. ReadableInv'
    <3>1. \A d \in Owners : client'[d].at = "exchange" => d = o
      BY <1>3, <2>2 DEF Clients
    <3> QED BY <1>2, <1>3, <2>2, <2>5, <3>1 DEF ReadableInv
  <2>7. TokenInv'
    <3>1. record.token \notin learned[o]
      BY <1>0, <1>1, <1>4, <2>1 DEF TokenInv
    <3> QED BY <1>0, <1>2, <1>3, <2>1, <2>2, <3>1 DEF TokenInv, Clients
  <2> QED BY <2>4, <2>5, <2>6, <2>7 DEF VaultInv
<1>5. CASE Leaves(o, "closing")
  <2>1. /\ LeaseInv' /\ WorkerInv' /\ ReadableInv' /\ OutcomesMatchRecord'
        /\ client'[o].at = "closing"
        /\ \A d \in Clients \ {o} : client'[d] = client[d]
    BY <1>0, <1>1, <1>2, <1>5, LeaveKeeps
  <2>2. TokenInv'
    BY <1>0, <1>1, <1>2, <1>3, <2>1 DEF TokenInv, Clients
  <2> QED BY <2>1, <2>2 DEF VaultInv
<1> QED BY <1>4, <1>5 DEF ReadStored

LEMMA ExchangeKeeps ==
    ASSUME VaultInv, NEW o \in Owners, Exchange(o)
    PROVE  VaultInv'
<1>0. LeaseInv /\ WorkerInv /\ ReadableInv /\ TokenInv
  BY DEF VaultInv
<1> DEFINE token == client[o].token
<1>1. /\ o \in Clients /\ client[o].at = "exchange" /\ client[o].op = "renew"
      /\ token \in Tokens \ learned[o] /\ token <= issued /\ record.token \in {token, NoToken}
      /\ issued \in 0..MaxTokens /\ token \in 1..issued
  BY <1>0, BoundsAssumption DEF Exchange, LeaseInv, TokenInv, Clients, Tokens
<1>2. UNCHANGED <<record, staged, keys>> /\ UNCHANGED disk
  BY DEF Exchange, disk
<1>3. /\ holder = o /\ job.task = "none" /\ job.at = "none"
      /\ \A d \in Clients \ {o} : client[d].at \in {"idle", "sweep"}
  BY <1>0, <1>1, OneHolds
<1>4. CASE /\ issued < MaxTokens /\ issued' = issued + 1
           /\ Learns(o, token)
           /\ client' = [client EXCEPT ![o].at = "working"]
           /\ Request("store", issued')
           /\ UNCHANGED <<lease, barred, touched>>
  <2>1. /\ client' \in ClientType
        /\ client'[o].op = "renew" /\ client'[o].at = "working" /\ client'[o].token = token
        /\ \A d \in Clients \ {o} : client'[d] = client[d]
    BY <1>0, <1>1, <1>4 DEF LeaseInv, ClientType
  <2>2. issued' \in 0..MaxTokens /\ issued' \in Tokens /\ issued <= issued' /\ issued' \notin 1..issued
    BY <1>1, <1>4, BoundsAssumption DEF Tokens
  <2>3. /\ job' \in JobType /\ job'.task = "store" /\ job'.at = "begin" /\ job'.token = issued'
        /\ before' = Readable
    BY <1>4, <2>2, GenerationsAssumption DEF Request, NoJob, JobType
  <2>4. UNCHANGED <<holder, closing>>
    BY <1>4 DEF lease
  <2>5. ~closing /\ o # NoClient
    BY <1>0, <1>1, ClientsAssumption DEF LeaseInv
  <2>6. LeaseInv'
    BY <1>0, <1>1, <1>3, <2>1, <2>3, <2>4, <2>5 DEF LeaseInv
  <2>7. WorkerInv' /\ OutcomesMatchRecord' /\ Readable' = Readable
    BY <1>0, <1>2, <2>2, <2>3, FreshRequestFits DEF Readable
  <2>8. ReadableInv'
    <3>1. \A d \in Owners : client'[d].at # "exchange"
      BY <1>3, <2>1 DEF Clients
    <3>2. ~touched' => Readable = token
      BY <1>0, <1>1, <1>4 DEF ReadableInv
    <3> QED BY <2>1, <2>3, <2>4, <2>7, <3>1, <3>2, <1>3 DEF ReadableInv
  <2>9. TokenInv'
    <3>1. /\ learned' \in [Owners -> SUBSET Tokens] /\ learned'[o] = learned[o] \cup {token}
          /\ \A d \in Owners \ {o} : learned'[d] = learned[d]
      BY <1>0, <1>1, <1>4 DEF TokenInv, Learns
    <3>2. \A d \in Owners : learned'[d] \subseteq 1..issued /\ learned'[d] \subseteq 1..issued'
      BY <1>0, <1>1, <2>2, <3>1 DEF TokenInv
    <3>3. record'.token <= issued' /\ staged'.token <= issued' /\ job'.token <= issued'
      <4>1. \A t \in Tokens \cup {NoToken} : t <= issued => t <= issued'
        BY <1>1, <1>4, BoundsAssumption DEF Tokens, NoToken
      <4>2. record.token \in Tokens \cup {NoToken} /\ staged.token \in Tokens \cup {NoToken}
        BY <1>0 DEF WorkerInv, SealedRecords, NoRecord
      <4>3. job'.token = issued' /\ issued' \in Nat
        BY <2>2, <2>3, BoundsAssumption
      <4> QED BY <1>0, <1>2, <4>1, <4>2, <4>3 DEF TokenInv
    <3>4. ASSUME NEW d \in Owners
          PROVE  /\ job'.token \notin learned'[d]
                 /\ record'.token \in learned'[d] =>
                      \/ record'.token = barred'[d]
                      \/ /\ client'[d].op = "renew" /\ client'[d].at = "working"
                         /\ client'[d].token = record'.token
                 /\ client'[d].at # "exchange"
                 /\ client'[d].op = "renew" /\ client'[d].at = "working" =>
                      record'.token \in {client'[d].token, job'.token, NoToken}
      <4>1. d \in Clients /\ job'.token \notin learned'[d]
        BY <2>2, <2>3, <3>2 DEF Clients
      <4>2. CASE d = o
        BY <1>1, <1>2, <2>1, <3>2, <4>1, <4>2 DEF NoToken
      <4>3. CASE d # o
        BY <1>0, <1>2, <1>3, <1>4, <2>1, <3>1, <4>1, <4>3 DEF TokenInv
      <4> QED BY <4>1, <4>2, <4>3
    <3> QED BY <1>0, <1>4, <2>2, <2>3, <3>1, <3>2, <3>3, <3>4 DEF TokenInv
  <2> QED BY <2>6, <2>7, <2>8, <2>9 DEF VaultInv
<1>5. CASE /\ Leaves(o, "closing")
           /\ UNCHANGED <<issued, job, learned, barred>>
  <2>1. /\ LeaseInv' /\ WorkerInv' /\ ReadableInv' /\ OutcomesMatchRecord'
        /\ client'[o].at = "closing"
        /\ \A d \in Clients \ {o} : client'[d] = client[d]
    BY <1>0, <1>1, <1>2, <1>5, LeaveKeeps
  <2>2. TokenInv'
    BY <1>0, <1>1, <1>2, <1>3, <1>5, <2>1 DEF TokenInv, Clients
  <2> QED BY <2>1, <2>2 DEF VaultInv
<1>6. CASE /\ Leaves(o, "closing") /\ Bars(o, token) /\ Learns(o, token)
           /\ UNCHANGED <<issued, job>>
  <2>1. /\ LeaseInv' /\ WorkerInv' /\ ReadableInv' /\ OutcomesMatchRecord'
        /\ client'[o].at = "closing"
        /\ \A d \in Clients \ {o} : client'[d] = client[d]
    BY <1>0, <1>1, <1>2, <1>6, LeaveKeeps
  <2>2. /\ learned' \in [Owners -> SUBSET Tokens] /\ learned'[o] = learned[o] \cup {token}
        /\ barred' \in [Owners -> Tokens \cup {NoToken}] /\ barred'[o] = token
        /\ \A d \in Owners \ {o} : learned'[d] = learned[d] /\ barred'[d] = barred[d]
    BY <1>0, <1>1, <1>6 DEF TokenInv, Learns, Bars
  <2>3. ASSUME NEW d \in Owners
        PROVE  /\ learned'[d] \subseteq 1..issued
               /\ record'.token \in learned'[d] => record'.token = barred'[d]
               /\ client'[d].at \notin {"exchange", "working"}
    <3>1. CASE d = o
      BY <1>0, <1>1, <1>2, <2>1, <2>2, <3>1 DEF TokenInv, NoToken
    <3>2. CASE d # o
      BY <1>0, <1>2, <1>3, <2>1, <2>2, <3>2 DEF TokenInv, Clients
    <3> QED BY <3>1, <3>2
  <2>4. TokenInv'
    BY <1>0, <1>2, <1>3, <1>6, <2>2, <2>3 DEF TokenInv
  <2> QED BY <2>1, <2>4 DEF VaultInv
<1>7. \/ /\ issued < MaxTokens /\ issued' = issued + 1
         /\ Learns(o, token)
         /\ client' = [client EXCEPT ![o].at = "working"]
         /\ Request("store", issued')
         /\ UNCHANGED <<lease, barred, touched>>
      \/ Leaves(o, "closing") /\ UNCHANGED <<issued, job, learned, barred>>
      \/ Leaves(o, "closing") /\ Bars(o, token) /\ Learns(o, token) /\ UNCHANGED <<issued, job>>
  BY DEF Exchange, owned, github
<1> QED BY <1>4, <1>5, <1>6, <1>7

LEMMA WithdrawKeeps ==
    ASSUME VaultInv, NEW o \in Owners, Withdraw(o)
    PROVE  VaultInv'
<1>0. LeaseInv /\ WorkerInv /\ ReadableInv /\ TokenInv
  BY DEF VaultInv
<1>1. o \in Clients /\ client[o].at = "exchange" /\ client[o].op = "renew"
  BY <1>0 DEF Withdraw, LeaseInv, Clients
<1>2. /\ UNCHANGED <<record, staged, job, barred, learned, issued>> /\ UNCHANGED disk
      /\ Leaves(o, "closing")
  BY DEF Withdraw, disk, owned, github
<1>3. /\ LeaseInv' /\ WorkerInv' /\ ReadableInv' /\ OutcomesMatchRecord'
      /\ client'[o].at = "closing"
      /\ \A d \in Clients \ {o} : client'[d] = client[d]
  BY <1>0, <1>1, <1>2, LeaveKeeps
<1>4. TokenInv'
  BY <1>0, <1>1, <1>2, <1>3 DEF TokenInv, Clients
<1> QED BY <1>3, <1>4 DEF VaultInv

LEMMA RotatedKeeps ==
    ASSUME VaultInv, NEW o \in Owners, Rotated(o)
    PROVE  VaultInv'
<1>0. LeaseInv /\ WorkerInv /\ ReadableInv /\ TokenInv
  BY DEF VaultInv
<1>1. /\ o \in Clients /\ client[o].at = "working" /\ client[o].op = "renew"
      /\ job.task = "store" /\ job.at = "done" /\ client[o].token \in Tokens \cup {NoToken}
  BY <1>0 DEF Rotated, LeaseInv, Clients, ClientType
<1>2. /\ UNCHANGED <<record, staged, learned, issued>> /\ UNCHANGED disk
      /\ Leaves(o, "closing") /\ job' = NoJob
      /\ \/ job.result = "ok" /\ barred' = barred
         \/ job.result # "ok" /\ Bars(o, client[o].token)
  BY DEF Rotated, disk, github
<1>3. /\ LeaseInv' /\ WorkerInv' /\ ReadableInv' /\ OutcomesMatchRecord'
      /\ client'[o].at = "closing" /\ job'.task = "none" /\ job'.token = NoToken
      /\ \A d \in Clients \ {o} : client'[d] = client[d] /\ client[d].at \in {"idle", "sweep"}
  BY <1>0, <1>1, <1>2, LeaveKeeps, NoJobIsTyped
<1>4. /\ barred' \in [Owners -> Tokens \cup {NoToken}]
      /\ \A d \in Owners \ {o} : barred'[d] = barred[d]
      /\ barred'[o] = IF job.result = "ok" THEN barred[o] ELSE client[o].token
  BY <1>0, <1>1, <1>2 DEF TokenInv, Bars
<1>5. ASSUME NEW d \in Owners
      PROVE  /\ record'.token \in learned'[d] => record'.token = barred'[d]
             /\ client'[d].at \notin {"exchange", "working"}
  <2>1. CASE d = o
    <3>1. job.token \notin learned[o] /\ NoToken \notin learned[o]
      BY <1>0, <1>1 DEF TokenInv, NoToken
    <3>2. job.result = "ok" => record.token \in {job.token, NoToken}
      BY <1>0, <1>1 DEF TokenInv
    <3>3. record.token \in {client[o].token, job.token, NoToken}
      BY <1>0, <1>1 DEF TokenInv
    <3> QED BY <1>2, <1>3, <1>4, <2>1, <3>1, <3>2, <3>3
  <2>2. CASE d # o
    BY <1>0, <1>2, <1>3, <1>4, <2>2 DEF TokenInv, Clients
  <2> QED BY <2>1, <2>2
<1>6. TokenInv'
  <2>1. NoToken <= issued
    BY <1>0, BoundsAssumption DEF TokenInv, NoToken
  <2> QED BY <1>0, <1>2, <1>3, <1>4, <1>5, <2>1 DEF TokenInv
<1> QED BY <1>3, <1>6 DEF VaultInv

(* Whatever keeps the tokens and ends at most a request keeps the token part. *)
LEMMA TokensStay ==
    ASSUME TokenInv, UNCHANGED <<issued, learned, barred>>,
           record'.token \in {record.token, NoToken}, staged'.token \in {staged.token, NoToken},
           \/ job' = job
           \/ job' = NoJob /\ \A o \in Owners : ~(client[o].op = "renew" /\ client[o].at = "working"),
           \A o \in Owners : client'[o] = client[o] \/ client'[o].at \notin {"exchange", "working"},
           \A o \in Owners : client'[o] # client[o] =>
               ~(client[o].op = "renew" /\ client[o].at = "working")
    PROVE  TokenInv'
<1>1. NoToken <= issued /\ \A o \in Owners : NoToken \notin learned[o]
  BY BoundsAssumption DEF TokenInv, NoToken
<1>2. NoJob.task = "none" /\ NoJob.token = NoToken
  BY NoJobIsTyped
<1>3. ASSUME NEW o \in Owners
      PROVE  /\ learned'[o] \subseteq 1..issued'
             /\ job'.task \in {"store", "renew"} => job'.token \notin learned'[o]
             /\ record'.token \in learned'[o] =>
                  \/ record'.token = barred'[o]
                  \/ /\ client'[o].op = "renew" /\ client'[o].at = "working"
                     /\ client'[o].token = record'.token
             /\ client'[o].at = "exchange" =>
                  /\ client'[o].token \in Tokens \ learned'[o] /\ client'[o].token <= issued'
                  /\ record'.token \in {client'[o].token, NoToken}
             /\ client'[o].op = "renew" /\ client'[o].at = "working" =>
                  record'.token \in {client'[o].token, job'.token, NoToken}
  BY <1>1, <1>2, <1>3 DEF TokenInv
<1> QED BY <1>1, <1>2, <1>3 DEF TokenInv

LEMMA ErasedKeeps ==
    ASSUME VaultInv, NEW o \in Owners, Erased(o)
    PROVE  VaultInv'
<1>0. LeaseInv /\ WorkerInv /\ ReadableInv /\ TokenInv
  BY DEF VaultInv
<1>1. o \in Clients /\ client[o].at = "working" /\ client[o].op = "disconnect"
  BY <1>0 DEF Erased, LeaseInv, Clients
<1>2. /\ UNCHANGED <<record, staged, learned, barred, issued>> /\ UNCHANGED disk
      /\ job' = NoJob /\ \E at \in {"leaving", "closing"} : Leaves(o, at)
  BY DEF Erased, disk, owned, github
<1>3. /\ LeaseInv' /\ WorkerInv' /\ ReadableInv' /\ OutcomesMatchRecord'
      /\ client'[o].at \in {"closing", "leaving"}
      /\ \A d \in Clients \ {o} : client'[d] = client[d] /\ client[d].at \in {"idle", "sweep"}
  BY <1>0, <1>1, <1>2, LeaveKeeps
<1>4. TokenInv'
  BY <1>0, <1>1, <1>2, <1>3, TokensStay DEF Clients
<1> QED BY <1>3, <1>4 DEF VaultInv

LEMMA DeliveredKeeps ==
    ASSUME VaultInv, NEW s \in Screens, Delivered(s)
    PROVE  VaultInv'
<1>0. LeaseInv /\ WorkerInv /\ ReadableInv /\ TokenInv
  BY DEF VaultInv
<1>1. s \in Clients /\ s \notin Owners /\ s # NoClient /\ client[s].at = "working" /\ holder = s
  BY <1>0, ClientsAssumption DEF Delivered, LeaseInv, Clients
<1>2. /\ UNCHANGED <<record, staged, keys, holder, learned, barred, issued>>
      /\ closing' = TRUE /\ client' = [client EXCEPT ![s] = Idle] /\ job' = NoJob
  BY DEF Delivered, disk, owned, github
<1>3. \A d \in Clients \ {s} : client[d].at \in {"idle", "sweep"}
  <2>1. \A d \in Clients : client[d].at \in {"idle", "read", "exchange", "working",
                                             "closing", "leaving", "sweep"}
    BY <1>0 DEF LeaseInv, ClientType
  <2> QED BY <1>0, <1>1, <2>1 DEF LeaseInv
<1>4. /\ client' \in ClientType
      /\ client'[s] = Idle /\ Idle.at = "idle"
      /\ \A d \in Clients \ {s} : client'[d] = client[d]
  BY <1>0, <1>1, <1>2 DEF LeaseInv, Idle, NoToken, ClientType
<1>5. job' \in JobType /\ job'.at = "none" /\ job'.task = "none"
  BY <1>2, NoJobIsTyped
<1>6. LeaseInv'
  BY <1>0, <1>1, <1>2, <1>3, <1>4, <1>5 DEF LeaseInv
<1>7. WorkerInv' /\ OutcomesMatchRecord'
  BY <1>0, <1>2, <1>5, FreshRequestFits
<1>8. ReadableInv'
  <2>1. \A o \in Owners : client'[o].at # "exchange"
    BY <1>1, <1>3, <1>4 DEF Clients
  <2> QED BY <1>5, <2>1 DEF ReadableInv
<1>9. TokenInv'
  <2>1. \A o \in Owners : client'[o] = client[o] /\ client[o].at # "working"
    BY <1>1, <1>3, <1>4 DEF Clients
  <2> QED BY <1>0, <1>2, <2>1, TokensStay
<1> QED BY <1>6, <1>7, <1>8, <1>9 DEF VaultInv

LEMMA IdleIsTyped == Idle.at = "idle" /\ [c \in Clients |-> Idle] \in ClientType
                     /\ Idle \in [op : {"idle"}, at : {"idle"}, token : {NoToken}]
BY DEF Idle, ClientType, NoToken

LEMMA SweepKeeps ==
    ASSUME VaultInv, NEW o \in Owners, Sweep(o)
    PROVE  VaultInv'
<1>0. LeaseInv /\ WorkerInv /\ ReadableInv /\ TokenInv
  BY DEF VaultInv
<1>1. /\ o \in Clients /\ client[o].at = "sweep"
      /\ client' = [client EXCEPT ![o] = Idle] /\ touched' = TRUE
      /\ UNCHANGED <<keys, holder, closing, job, barred, learned, issued>>
      /\ record' \in {record, NoRecord} /\ staged' \in {staged, NoRecord}
  BY DEF Sweep, Clients, lease, owned, github
<1>2. /\ client' \in ClientType /\ client'[o] = Idle /\ Idle.at = "idle"
      /\ \A d \in Clients \ {o} : client'[d] = client[d]
  BY <1>0, <1>1, IdleIsTyped DEF LeaseInv, ClientType
<1>3. LeaseInv'
  BY <1>0, <1>1, <1>2 DEF LeaseInv, ClientType
<1>4. WorkerInv'
  BY <1>0, <1>1 DEF WorkerInv, CandidateIsApart, SealedRecords, Its
<1>5. ReadableInv' /\ OutcomesMatchRecord'
  BY <1>1 DEF ReadableInv, OutcomesMatchRecord
<1>6. TokenInv'
  <2>1. \A d \in Owners : d \in Clients
    BY DEF Clients
  <2>2. record'.token \in {record.token, NoToken} /\ staged'.token \in {staged.token, NoToken}
    BY <1>1 DEF NoRecord
  <2> QED BY <1>0, <1>1, <1>2, <2>1, <2>2, TokensStay
<1> QED BY <1>3, <1>4, <1>5, <1>6 DEF VaultInv

LEMMA CloseOwnerKeeps ==
    ASSUME VaultInv, NEW o \in Owners, CloseOwner(o)
    PROVE  VaultInv'
<1>1. UNCHANGED <<record, staged, keys, holder, closing, job, client, barred, learned,
                  issued, before, touched>>
  BY DEF CloseOwner, disk, lease, github, aux
<1> QED BY <1>1 DEF VaultInv, LeaseInv, WorkerInv, CandidateIsApart, Its, ReadableInv, Readable,
                    TokenInv, OutcomesMatchRecord

LEMMA NextOwnerKeeps ==
    ASSUME VaultInv, NEW o \in Owners, NextOwner(o)
    PROVE  VaultInv'
<1>1. /\ UNCHANGED <<record, staged, keys, holder, closing, job, client, issued, before, touched>>
      /\ client[o] = Idle
  BY DEF NextOwner, disk, lease, github, aux
<1>2. LeaseInv' /\ WorkerInv' /\ ReadableInv' /\ OutcomesMatchRecord'
  BY <1>1 DEF VaultInv, LeaseInv, WorkerInv, CandidateIsApart, Its, ReadableInv, Readable,
              OutcomesMatchRecord
<1>3. /\ learned' \in [Owners -> SUBSET Tokens] /\ learned'[o] = {}
      /\ barred' \in [Owners -> Tokens \cup {NoToken}]
      /\ \A d \in Owners \ {o} : learned'[d] = learned[d] /\ barred'[d] = barred[d]
      /\ client[o].at = "idle"
  BY <1>1, IdleIsTyped DEF NextOwner, VaultInv, TokenInv
<1>4. TokenInv'
  BY <1>1, <1>3 DEF VaultInv, TokenInv
<1> QED BY <1>2, <1>4 DEF VaultInv

LEMMA LookKeeps ==
    ASSUME VaultInv, NEW s \in Screens, Look(s)
    PROVE  VaultInv'
<1>0. LeaseInv /\ WorkerInv /\ ReadableInv /\ TokenInv
  BY DEF VaultInv
<1>1. /\ UNCHANGED <<record, staged, keys, job, client, barred, learned, issued, before, touched>>
      /\ holder = NoClient /\ holder' = s /\ s \in Clients /\ closing' = TRUE
      /\ s # NoClient
  BY ClientsAssumption DEF Look, disk, owned, github, aux, Clients
<1>2. /\ job.task = "none" /\ job.at = "none"
      /\ \A d \in Clients : client[d].at \in {"idle", "sweep"}
  BY <1>0, <1>1, NobodyHolds
<1>3. LeaseInv'
  BY <1>0, <1>1, <1>2 DEF LeaseInv
<1>4. WorkerInv' /\ OutcomesMatchRecord' /\ ReadableInv'
  BY <1>0, <1>1, <1>2 DEF WorkerInv, CandidateIsApart, Its, ReadableInv, Readable,
                          OutcomesMatchRecord, Clients
<1>5. TokenInv'
  BY <1>0, <1>1 DEF TokenInv
<1> QED BY <1>3, <1>4, <1>5 DEF VaultInv

LEMMA ReleaseKeeps ==
    ASSUME VaultInv, Release
    PROVE  VaultInv'
<1>0. LeaseInv /\ WorkerInv /\ ReadableInv /\ TokenInv
  BY DEF VaultInv
<1>1. /\ UNCHANGED <<record, staged, keys, job, barred, learned, issued, before, touched>>
      /\ closing /\ holder' = NoClient /\ closing' = FALSE
      /\ client' = [client EXCEPT ![holder] =
                      IF client[holder].at = "leaving"
                      THEN [client[holder] EXCEPT !.at = "sweep"] ELSE Idle]
  BY DEF Release, disk, owned, github, aux
<1>2. /\ holder \in Clients /\ NoClient \notin Clients
      /\ \A d \in Clients : client[d].at \notin {"read", "exchange", "working"}
      /\ \A d \in Clients \ {holder} : client[d].at \in {"idle", "sweep"}
      /\ job.task = "none" /\ job.at = "none"
  <2>1. \A d \in Clients : client[d].at \in {"idle", "read", "exchange", "working",
                                             "closing", "leaving", "sweep"}
    BY <1>0 DEF LeaseInv, ClientType
  <2>2. holder \in Clients /\ NoClient \notin Clients
    BY <1>0, <1>1, ClientsAssumption DEF LeaseInv, Clients
  <2> QED BY <1>0, <1>1, <2>1, <2>2 DEF LeaseInv
<1>3. /\ client' \in ClientType
      /\ client'[holder] = Idle \/ client'[holder].at = "sweep"
      /\ Idle.at = "idle"
      /\ \A d \in Clients \ {holder} : client'[d] = client[d]
  <2>1. client \in ClientType
    BY <1>0 DEF LeaseInv, ClientType
  <2>2. Idle \in [op : {"idle"}, at : {"idle"}, token : {NoToken}]
    BY IdleIsTyped
  <2> QED BY <1>1, <1>2, <2>1, <2>2 DEF ClientType
<1>4. LeaseInv'
  BY <1>0, <1>1, <1>2, <1>3 DEF LeaseInv, ClientType
<1>5. \A o \in Owners : /\ client[o].at \notin {"exchange", "working"}
                        /\ client'[o].at \notin {"exchange", "working"}
  BY <1>2, <1>3 DEF Clients
<1>6. WorkerInv' /\ OutcomesMatchRecord' /\ ReadableInv'
  BY <1>0, <1>1, <1>2, <1>5 DEF WorkerInv, CandidateIsApart, Its, ReadableInv,
                                OutcomesMatchRecord
<1>7. TokenInv'
  BY <1>0, <1>1, <1>5, TokensStay
<1> QED BY <1>4, <1>6, <1>7 DEF VaultInv

LEMMA InvalidateKeeps ==
    ASSUME VaultInv, Invalidate
    PROVE  VaultInv'
<1>0. LeaseInv /\ WorkerInv /\ ReadableInv /\ TokenInv
  BY DEF VaultInv
<1>1. /\ UNCHANGED <<record, staged, holder, closing, job, client, barred, learned, issued, before>>
      /\ touched' = TRUE
      /\ \E g \in Aliases : keys[g] \in KeyIds /\ keys' = [keys EXCEPT ![g] = Invalidated]
  BY DEF Invalidate, lease, owned, github
<1>2. LeaseInv' /\ TokenInv' /\ ReadableInv' /\ OutcomesMatchRecord'
  BY <1>0, <1>1 DEF LeaseInv, TokenInv, ReadableInv, OutcomesMatchRecord
<1>3. WorkerInv'
  <2>1. Invalidated \notin KeyIds /\ NoKey \notin KeyIds
    BY GenerationsAssumption DEF Invalidated, KeyIds, NoKey
  <2>2. PICK g \in Aliases : keys[g] \in KeyIds /\ keys' = [keys EXCEPT ![g] = Invalidated]
    BY <1>1
  <2>3. /\ keys' \in [Aliases -> KeyIds \cup {NoKey, Invalidated}]
        /\ \A a \in Aliases : keys'[a] \in {keys[a], Invalidated}
        /\ (\A a \in Aliases : keys[a] = NoKey) => FALSE
    BY <1>0, <2>1, <2>2 DEF WorkerInv
  <2>4. job.task = "renew" /\ job.at \in {"sealed", "staged", "discard"} => CandidateIsApart'
    <3>1. record # NoRecord => record.gen \in Aliases /\ record.key \in KeyIds
      BY <1>0 DEF WorkerInv, SealedRecords
    <3> QED BY <1>0, <1>1, <2>1, <2>3, <3>1 DEF WorkerInv, CandidateIsApart
  <2> QED BY <1>0, <1>1, <2>1, <2>3, <2>4 DEF WorkerInv, Its
<1> QED BY <1>2, <1>3 DEF VaultInv

LEMMA CrashKeeps ==
    ASSUME VaultInv, Crash
    PROVE  VaultInv'
<1>0. LeaseInv /\ WorkerInv /\ ReadableInv /\ TokenInv
  BY DEF VaultInv
<1>1. /\ UNCHANGED <<record, staged, keys, issued, before, touched>>
      /\ holder' = NoClient /\ closing' = FALSE /\ job' = NoJob
      /\ client' = [c \in Clients |-> Idle]
      /\ barred' = [o \in Owners |-> NoToken] /\ learned' = [o \in Owners |-> {}]
  BY DEF Crash, disk, github, aux
<1>2. /\ client' \in ClientType /\ \A c \in Clients : client'[c] = Idle /\ client'[c].at = "idle"
      /\ job' \in JobType /\ job'.at = "none" /\ job'.task = "none" /\ job'.token = NoToken
  BY <1>1, IdleIsTyped, NoJobIsTyped
<1>3. LeaseInv'
  BY <1>1, <1>2 DEF LeaseInv, ClientType
<1>4. WorkerInv' /\ OutcomesMatchRecord'
  BY <1>0, <1>1, <1>2, FreshRequestFits
<1>5. ReadableInv' /\ TokenInv'
  <2>1. NoToken <= issued /\ \A o \in Owners : client'[o].at = "idle"
    BY <1>0, <1>2, BoundsAssumption DEF TokenInv, NoToken, Clients
  <2> QED BY <1>0, <1>1, <1>2, <2>1 DEF ReadableInv, TokenInv, NoToken
<1> QED BY <1>3, <1>4, <1>5 DEF VaultInv

LEMMA StutterKeeps ==
    ASSUME VaultInv, UNCHANGED vars
    PROVE  VaultInv'
<1>1. UNCHANGED <<record, staged, keys, holder, closing, job, client, barred, learned,
                  issued, before, touched>>
  BY DEF vars, disk, lease, owned, github, aux
<1> QED BY <1>1 DEF VaultInv, LeaseInv, WorkerInv, CandidateIsApart, Its, ReadableInv, Readable,
                    TokenInv, OutcomesMatchRecord

LEMMA VaultStep ==
    ASSUME VaultInv, [Next]_vars
    PROVE  VaultInv'
<1>1. CASE Worker
  BY <1>1, WorkerKeeps
<1>2. CASE Release \/ Invalidate \/ Crash
  BY <1>2, ReleaseKeeps, InvalidateKeeps, CrashKeeps
<1>3. CASE \E o \in Owners : OwnerStep(o)
  <2>1. PICK o \in Owners : OwnerStep(o)
    BY <1>3
  <2> QED BY <2>1, RenewKeeps, ReadStoredKeeps, ExchangeKeeps, WithdrawKeeps, RotatedKeeps,
             DisconnectKeeps, ErasedKeeps, SweepKeeps, CloseOwnerKeeps, NextOwnerKeeps
          DEF OwnerStep
<1>4. CASE \E s \in Screens : ScreenStep(s)
  <2>1. PICK s \in Screens : ScreenStep(s)
    BY <1>4
  <2> QED BY <2>1, KeepKeeps, RemoveKeeps, LookKeeps, DeliveredKeeps DEF ScreenStep
<1>5. CASE UNCHANGED vars
  BY <1>5, StutterKeeps
<1> QED BY <1>1, <1>2, <1>3, <1>4, <1>5 DEF Next

LEMMA VaultAlways == Spec => []VaultInv
BY VaultInit, VaultStep, PTL DEF Spec

-----------------------------------------------------------------------------
(* The theorems.                                                           *)

SmallTypes ==
    /\ closed \in [Owners -> BOOLEAN]
    /\ accepted \in SUBSET (1..issued)
    /\ faults \in 0..MaxFaults /\ crashes \in 0..MaxCrashes
    /\ before \in Tokens \cup {NoToken} /\ touched \in BOOLEAN

LEMMA SmallTypesStay ==
    ASSUME VaultInv, SmallTypes, [Next]_vars
    PROVE  SmallTypes'
<1>1. /\ issued \in Nat /\ MaxFaults \in Nat /\ MaxCrashes \in Nat
      /\ Readable \in Tokens \cup {NoToken}
  BY BoundsAssumption, ReadableIsRecord DEF VaultInv, TokenInv
<1>2. /\ Fault => faults' \in 0..MaxFaults
      /\ UNCHANGED faults => faults' \in 0..MaxFaults
  BY <1>1 DEF Fault, SmallTypes
<1>3. CASE Worker
  <2>1. UNCHANGED <<closed, issued, accepted, crashes, before, touched>>
    BY <1>3 DEF Worker, Seal, Stage, Rename, Discard, Supersede, EraseKeys, EraseFiles,
                owned, github, aux
  <2>2. Fault \/ UNCHANGED faults
    BY <1>3 DEF Worker, Seal, Stage, Rename, Discard, Supersede, EraseKeys, EraseFiles
  <2> QED BY <1>2, <2>1, <2>2 DEF SmallTypes
<1>4. CASE Release
  BY <1>4 DEF Release, owned, github, aux, SmallTypes
<1>5. CASE Invalidate
  BY <1>2, <1>5 DEF Invalidate, owned, github, SmallTypes
<1>6. CASE Crash
  BY <1>1, <1>6 DEF Crash, github, aux, SmallTypes
<1>7. ASSUME NEW o \in Owners, OwnerStep(o)
      PROVE  SmallTypes'
  <2>1. CASE Renew(o)
    BY <2>1 DEF Renew, Claims, owned, github, SmallTypes
  <2>2. CASE ReadStored(o)
    BY <2>2 DEF ReadStored, owned, github, aux, SmallTypes
  <2>3. CASE Exchange(o)
    <3>1. closed' = closed /\ crashes' = crashes /\ (Fault \/ UNCHANGED faults)
      BY <2>3 DEF Exchange, Bars, owned
    <3>2. \/ issued' = issued /\ accepted' \subseteq accepted
          \/ issued' = issued + 1 /\ accepted' \subseteq accepted \cup {issued'}
      BY <2>3 DEF Exchange, github
    <3>3. accepted' \in SUBSET (1..issued')
      <4>1. \A a \in accepted : a \in Nat /\ 1 <= a /\ a <= issued
        BY <1>1 DEF SmallTypes
      <4>2. issued' = issued \/ issued' = issued + 1
        BY <3>2
      <4>3. \A a \in accepted' : a \in accepted \/ (issued' = issued + 1 /\ a = issued')
        BY <3>2
      <4> QED BY <1>1, <4>1, <4>2, <4>3
    <3>4. before' \in Tokens \cup {NoToken} /\ touched' \in BOOLEAN
      BY <1>1, <2>3 DEF Exchange, Request, aux, SmallTypes
    <3> QED BY <1>2, <3>1, <3>3, <3>4 DEF SmallTypes
  <2>4. CASE Withdraw(o)
    BY <2>4 DEF Withdraw, owned, github, aux, SmallTypes
  <2>5. CASE Rotated(o)
    BY <2>5 DEF Rotated, Bars, github, aux, SmallTypes
  <2>6. CASE Disconnect(o)
    BY <1>1, <2>6 DEF Disconnect, Claims, Request, owned, github, SmallTypes
  <2>7. CASE Erased(o)
    BY <2>7 DEF Erased, owned, github, aux, SmallTypes
  <2>8. CASE Sweep(o)
    BY <1>2, <2>8 DEF Sweep, owned, github, SmallTypes
  <2>9. CASE CloseOwner(o)
    BY <2>9 DEF CloseOwner, github, aux, SmallTypes
  <2>10. CASE NextOwner(o)
    BY <2>10 DEF NextOwner, github, aux, SmallTypes
  <2> QED BY <1>7, <2>1, <2>2, <2>3, <2>4, <2>5, <2>6, <2>7, <2>8, <2>9, <2>10 DEF OwnerStep
<1>8. ASSUME NEW s \in Screens, ScreenStep(s)
      PROVE  SmallTypes'
  <2>1. CASE Keep(s)
    <3>1. issued' = issued + 1 /\ accepted' = accepted \cup {issued'}
      BY <2>1 DEF Keep
    <3>2. accepted' \in SUBSET (1..issued')
      BY <1>1, <3>1 DEF SmallTypes
    <3>3. before' = Readable /\ touched' = FALSE /\ UNCHANGED <<closed, faults, crashes>>
      BY <2>1 DEF Keep, Claims, Request, owned
    <3> QED BY <1>1, <3>2, <3>3 DEF SmallTypes
  <2>2. CASE Remove(s)
    BY <1>1, <2>2 DEF Remove, Claims, Request, owned, github, SmallTypes
  <2>3. CASE Look(s)
    BY <2>3 DEF Look, owned, github, aux, SmallTypes
  <2>4. CASE Delivered(s)
    BY <2>4 DEF Delivered, owned, github, aux, SmallTypes
  <2> QED BY <1>8, <2>1, <2>2, <2>3, <2>4 DEF ScreenStep
<1>9. CASE UNCHANGED vars
  BY <1>9 DEF vars, owned, github, aux, SmallTypes
<1> QED BY <1>3, <1>4, <1>5, <1>6, <1>7, <1>8, <1>9 DEF Next

(* Every variable stays in its domain, whatever keystore, file system,
   network and clients do.                                                 *)
THEOREM TypeCorrect == Spec => []TypeOK
<1>1. ASSUME Init PROVE SmallTypes
  <2>1. closed \in [Owners -> BOOLEAN] /\ accepted \in SUBSET (1..issued)
    BY <1>1 DEF Init
  <2>2. faults \in 0..MaxFaults /\ crashes \in 0..MaxCrashes
    BY <1>1, BoundsAssumption DEF Init
  <2> QED BY <1>1, <2>1, <2>2 DEF Init, SmallTypes
<1>2. VaultInv /\ SmallTypes => TypeOK
  BY DEF VaultInv, LeaseInv, WorkerInv, TokenInv, SmallTypes, TypeOK, JobType, ClientType
<1> QED BY <1>1, <1>2, VaultAlways, SmallTypesStay, PTL DEF Spec

(* What a request answers is what the record holds: a success is there, a
   failure before the commit left the previous credential readable.        *)
THEOREM OutcomesMatch == Spec => []OutcomesMatchRecord
<1>1. VaultInv => OutcomesMatchRecord
  BY DEF VaultInv
<1> QED BY <1>1, VaultAlways, PTL

(* No owner sends a refresh token it knows to be used up. *)
THEOREM ReplayNever == Spec => []NoReplay
<1>1. VaultInv => NoReplay
  BY DEF VaultInv, TokenInv, NoReplay
<1> QED BY <1>1, VaultAlways, PTL

(* What a step may do to the credential a reader finds. *)
Lineage ==
  Readable' # Readable =>
     \/ /\ Readable' = NoToken
        /\ \/ job.task = "erase"
           \/ \E o \in Owners : client[o].at = "sweep" /\ client'[o] = Idle
           \/ \E g \in Aliases : keys[g] # keys'[g] /\ keys'[g] = Invalidated
           \/ job.at = "staged" /\ keys[job.gen] = Invalidated
     \/ /\ job.at = "staged" /\ Readable' = job.token
        /\ job.task = "store" => touched \/ Readable = client[holder].token

LEMMA RenameLineage ==
    ASSUME VaultInv, Rename
    PROVE  Lineage
<1>0. WorkerInv /\ ReadableInv
  BY DEF VaultInv
<1>1. /\ job.at = "staged" /\ job.gen \in Aliases /\ job.key \in KeyIds
      /\ staged \in {NoRecord, Its} /\ keys[job.gen] \in {job.key, Invalidated} /\ keys' = keys
  BY <1>0 DEF WorkerInv, Rename
<1>2. record' = record \/ record' = Its
  BY <1>1 DEF Rename
<1>3. CASE record' = record
  BY <1>1, <1>3 DEF Readable, Lineage
<1>4. CASE record' = Its
  <2>1. Its # NoRecord /\ Invalidated \notin KeyIds
    BY <1>1, GenerationsAssumption DEF Its, NoRecord, Aliases, Invalidated, KeyIds
  <2>2. Readable' = IF keys[job.gen] = job.key THEN job.token ELSE NoToken
    BY <1>1, <1>4, <2>1 DEF Readable, Its
  <2>3. job.task = "store" /\ ~touched => Readable = client[holder].token
    BY <1>0, <1>1 DEF ReadableInv
  <2> QED BY <1>1, <2>2, <2>3 DEF Lineage
<1> QED BY <1>2, <1>3, <1>4

LEMMA EraseLineage ==
    ASSUME VaultInv, EraseKeys \/ EraseFiles
    PROVE  Lineage
<1>0. WorkerInv
  BY DEF VaultInv
<1>1. job.task = "erase"
  BY <1>0 DEF EraseKeys, EraseFiles, WorkerInv
<1>2. NoKey \notin KeyIds /\ (record # NoRecord => record.gen \in Aliases /\ record.key \in KeyIds)
  BY <1>0, GenerationsAssumption DEF WorkerInv, SealedRecords, KeyIds, NoKey
<1>3. \/ record' = record /\ (keys' = keys \/ \E g \in Aliases : keys' = [keys EXCEPT ![g] = NoKey])
      \/ record' \in {record, NoRecord} /\ keys' = keys
  BY <1>0, <1>1 DEF EraseKeys, EraseFiles, Doomed
<1>4. Readable' = Readable \/ Readable' = NoToken
  BY <1>0, <1>2, <1>3 DEF Readable, WorkerInv
<1> QED BY <1>1, <1>4 DEF Lineage

LEMMA SweepLineage ==
    ASSUME VaultInv, NEW o \in Owners, Sweep(o)
    PROVE  Lineage
<1>1. /\ client[o].at = "sweep" /\ client'[o] = Idle
      /\ record' \in {record, NoRecord} /\ keys' = keys
  BY DEF Sweep, VaultInv, LeaseInv, Clients, ClientType
<1>2. Readable' = Readable \/ Readable' = NoToken
  BY <1>1 DEF Readable
<1> QED BY <1>1, <1>2 DEF Lineage

LEMMA InvalidateLineage ==
    ASSUME VaultInv, Invalidate
    PROVE  Lineage
<1>1. WorkerInv /\ record' = record
  BY DEF VaultInv, Invalidate
<1>2. PICK g \in Aliases : keys[g] \in KeyIds /\ keys' = [keys EXCEPT ![g] = Invalidated]
  BY DEF Invalidate
<1>3. /\ Invalidated \notin KeyIds
      /\ record # NoRecord => record.gen \in Aliases /\ record.key \in KeyIds
  BY <1>1, GenerationsAssumption DEF WorkerInv, SealedRecords, KeyIds, Invalidated
<1>4. keys'[g] = Invalidated /\ keys[g] # Invalidated
      /\ (Readable' = Readable \/ Readable' = NoToken)
  BY <1>1, <1>2, <1>3 DEF Readable, WorkerInv
<1> QED BY <1>4 DEF Lineage

LEMMA LineageStep ==
    ASSUME VaultInv, [Next]_vars
    PROVE  [Lineage]_vars
<1>1. Readable' = Readable => Lineage
  BY DEF Lineage
<1>2. CASE Worker
  BY <1>1, <1>2, SealKeeps, StageKeeps, DiscardKeeps, SupersedeKeeps, RenameLineage, EraseLineage
     DEF Worker
<1>3. CASE Invalidate
  BY <1>3, InvalidateLineage
<1>4. CASE Release \/ Crash
  BY <1>1, <1>4 DEF Release, Crash, disk, Readable
<1>5. CASE \E o \in Owners : OwnerStep(o)
  <2>1. PICK o \in Owners : OwnerStep(o)
    BY <1>5
  <2>2. CASE Sweep(o)
    BY <2>2, SweepLineage
  <2>3. CASE ~Sweep(o)
    <3>1. UNCHANGED disk
      BY <2>1, <2>3 DEF OwnerStep, Renew, ReadStored, Exchange, Withdraw, Rotated, Disconnect,
                        Erased, CloseOwner, NextOwner
    <3> QED BY <1>1, <3>1 DEF disk, Readable
  <2> QED BY <2>2, <2>3
<1>6. CASE \E s \in Screens : ScreenStep(s)
  <2>1. UNCHANGED disk
    BY <1>6 DEF ScreenStep, Keep, Remove, Look, Delivered
  <2> QED BY <1>1, <2>1 DEF disk, Readable
<1> QED BY <1>2, <1>3, <1>4, <1>5, <1>6 DEF Next

(* The credential a reader finds is lost to a removal or a lost key only, and
   a rotation replaces the very credential it used up.                     *)
THEOREM LineageKept == Spec => StoredCredentialLineage
<1>1. VaultInv /\ [Next]_vars => [Lineage]_vars
  BY LineageStep
<1> QED BY <1>1, VaultAlways, PTL DEF Spec, StoredCredentialLineage, Lineage

=============================================================================
