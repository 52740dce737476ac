--------------------------- MODULE CredentialVault ---------------------------
(***************************************************************************)
(* The record that holds one source's GitHub credential, the keystore keys *)
(* it is sealed under, and everybody who opens it: renewal owners, which   *)
(* exchange the stored refresh token for a new one, and screens, which     *)
(* store a fresh authorization, remove the credential or look whether      *)
(* there is one.  security/CredentialVault.kt,                             *)
(* security/AtomicVaultRecordFile.kt, auth/renewal/CredentialRenewalOwner, *)
(* auth/AuthorizationVault and SourceCredentials in                        *)
(* sources/SourceManagement.kt.                                            *)
(*                                                                         *)
(* A key is its identity: a record opens only under the very key it was    *)
(* sealed with.  A credential is its refresh token, a number in the order  *)
(* of issue; access tokens and clocks are abstracted to the free choice    *)
(* whether a stored credential is spent.  GitHub is external.              *)
(***************************************************************************)
EXTENDS Naturals

CONSTANTS Owners,       \* renewal owners, each one caller at a time
          Screens,      \* threads that keep, remove or look at the credential
          NoClient,     \* nobody holds the record
          Generations,  \* how many key aliases a scope cycles through
          MaxTokens,    \* bound: refresh tokens GitHub issues
          MaxFaults,    \* bound: platform faults
          MaxCrashes    \* bound: process deaths

ASSUME GenerationsAssumption == Generations \in Nat \ {0}
ASSUME BoundsAssumption == MaxTokens \in Nat /\ MaxFaults \in Nat /\ MaxCrashes \in Nat
ASSUME ClientsAssumption == Owners \cap Screens = {} /\ NoClient \notin Owners \cup Screens

VARIABLES record,    \* the record file: what a read parses
          staged,    \* the file beside it that a replacement is written to
          keys,      \* the keystore: the key under each generation's alias
          holder,    \* the client whose vault leases the record's path
          closing,   \* whether that vault is closed and draining
          job,       \* the request the vault's worker runs
          client,    \* what each client is doing
          barred,    \* the refresh token each owner refuses to send again
          closed,    \* whether each owner was closed
          issued,    \* how many refresh tokens GitHub has issued
          accepted,  \* the refresh tokens GitHub still accepts
          faults, crashes,
          before,    \* auxiliary: what a read returned when the request began
          touched,   \* auxiliary: a key or the record went behind the lease
          learned    \* auxiliary: tokens each owner knows to be used up

disk == <<record, staged, keys>>
lease == <<holder, closing>>
owned == <<barred, closed, learned>>
github == <<issued, accepted>>
aux == <<before, touched>>
vars == <<disk, lease, job, client, owned, github, faults, crashes, aux>>

Clients == Owners \cup Screens
Aliases == 1..Generations
Tokens == 1..MaxTokens
KeyIds == 1..(Generations + 3)
NoKey == 0
Invalidated == Generations + 4
NoToken == 0

NoRecord == [gen |-> 0, key |-> NoKey, token |-> NoToken]
NoJob == [task |-> "none", at |-> "none", gen |-> 0, key |-> NoKey,
          token |-> NoToken, result |-> "none"]
Idle == [op |-> "idle", at |-> "idle", token |-> NoToken]

(* The next alias in the cycle, and the first free one from there on.      *)
Along(start, k) == ((start - 1 + k) % Generations) + 1
Following(gen) == IF gen = 0 THEN 1 ELSE Along(gen, 1)
Free(gen) == {k \in 0..(Generations - 1) : keys[Along(Following(gen), k)] = NoKey}
Available(gen) == Along(Following(gen), CHOOSE k \in Free(gen) : \A j \in Free(gen) : k <= j)

Minted == CHOOSE k \in KeyIds : /\ k # record.key /\ k # staged.key
                                /\ \A g \in Aliases : keys[g] # k

(* The credential a read returns, or none.                                 *)
Readable == IF record # NoRecord /\ keys[record.gen] = record.key
            THEN record.token ELSE NoToken

Fault == faults < MaxFaults /\ faults' = faults + 1

-----------------------------------------------------------------------------
(* The vault's worker.  Every request reads the record first; a store      *)
(* keeps the record's generation and its key, a renew takes the next free  *)
(* generation under a new key, an erase removes every key, then the files. *)

Request(task, token) ==
  /\ job' = [NoJob EXCEPT !.task = task, !.at = "begin", !.token = token]
  /\ before' = Readable

Answered(result) == [job EXCEPT !.at = "done", !.result = result]

(* A write that failed before it committed; a renew gives up its new key.  *)
Abandoned == IF job.task = "renew" THEN [job EXCEPT !.at = "discard"]
             ELSE Answered("uncommitted")

(* The generation to seal under and the keys once it is sealed.            *)
SealedUnder == IF job.task = "renew" THEN Available(record.gen)
               ELSE IF record = NoRecord THEN 1 ELSE record.gen
Provisions == job.task = "renew" \/ record = NoRecord
MutUsable(key) == key # NoKey   \* mutant: an invalidated key still seals
Usable(key) == key \in KeyIds
Provisioned == IF Provisions /\ keys[SealedUnder] = NoKey
               THEN [keys EXCEPT ![SealedUnder] = Minted] ELSE keys

Seal ==
  /\ job.at = "begin" /\ job.task \in {"store", "renew"}
  /\ \/ /\ job.task = "renew" => Free(record.gen) # {}
        /\ Usable(Provisioned[SealedUnder])
        /\ keys' = Provisioned
        /\ job' = [job EXCEPT !.at = "sealed", !.gen = SealedUnder, !.key = keys'[SealedUnder]]
        /\ UNCHANGED faults
     \/ /\ IF job.task = "renew" THEN Free(record.gen) = {}
           ELSE ~Usable(Provisioned[SealedUnder])
        /\ job' = Answered("uncommitted")
        /\ UNCHANGED <<keys, faults>>
     \/ /\ job.task = "renew" => Free(record.gen) # {}
        /\ Fault
        /\ keys' \in {keys, Provisioned}
        /\ job' = [Abandoned EXCEPT !.gen = SealedUnder]
  /\ UNCHANGED <<record, staged, lease, client, owned, github, crashes, aux>>

(* The staging file is written and synced, or the write is abandoned.      *)
Stage ==
  /\ job.at = "sealed"
  /\ \/ /\ staged' = [gen |-> job.gen, key |-> job.key, token |-> job.token]
        /\ job' = [job EXCEPT !.at = "staged"]
        /\ UNCHANGED faults
     \/ /\ Fault
        /\ staged' \in {staged, NoRecord}
        /\ job' = Abandoned
  /\ UNCHANGED <<record, keys, lease, client, owned, github, crashes, aux>>

(* The rename commits.  It may refuse, throw on either side of the commit, *)
(* or succeed while the staging file is still seen.                        *)
Rename ==
  /\ job.at = "staged"
  /\ \/ /\ staged # NoRecord
        /\ record' = staged /\ staged' = NoRecord
        /\ \/ /\ job' = IF job.task = "renew" THEN [job EXCEPT !.at = "supersede"]
                        ELSE Answered("ok")
              /\ UNCHANGED faults
           \/ Fault /\ \E r \in {"committed", "unknown"} : job' = Answered(r)
     \/ /\ staged = NoRecord
        /\ job' = Abandoned
        /\ UNCHANGED <<record, staged, faults>>
     \/ /\ Fault
        /\ job' \in {Abandoned, Answered("unknown")}
        /\ staged' \in {staged, NoRecord}
        /\ UNCHANGED record
  /\ UNCHANGED <<keys, lease, client, owned, github, crashes, aux>>

(* A candidate key is dropped after a write that did not commit.           *)
Discard ==
  /\ job.at = "discard"
  /\ \/ keys' = [keys EXCEPT ![job.gen] = NoKey] /\ UNCHANGED faults
     \/ Fault /\ UNCHANGED keys
  /\ job' = Answered("uncommitted")
  /\ UNCHANGED <<record, staged, lease, client, owned, github, crashes, aux>>

(* Keys are deleted one alias at a time: all but the committed one after a *)
(* renew, all of them in an erase, which then deletes the files.           *)
MutDoomed ==   \* mutant: the committed key is not kept
          {g \in Aliases : keys[g] # NoKey}
Doomed == {g \in Aliases : /\ keys[g] # NoKey
                           /\ job.task = "renew" => g # job.gen}

Supersede ==
  /\ job.at = "supersede"
  /\ \/ \E g \in Doomed : keys' = [keys EXCEPT ![g] = NoKey] /\ UNCHANGED <<job, faults>>
     \/ /\ Doomed = {} /\ job' = Answered("ok")
        /\ UNCHANGED <<keys, faults>>
     \/ Doomed # {} /\ Fault /\ job' = Answered("ok") /\ UNCHANGED keys
  /\ UNCHANGED <<record, staged, lease, client, owned, github, crashes, aux>>

EraseKeys ==
  /\ job.at = "begin" /\ job.task = "erase"
  /\ \/ \E g \in Doomed : keys' = [keys EXCEPT ![g] = NoKey] /\ UNCHANGED <<job, faults>>
     \/ /\ Doomed = {} /\ job' = [job EXCEPT !.at = "files"]
        /\ UNCHANGED <<keys, faults>>
     \/ Fault /\ job' = Answered("incomplete") /\ UNCHANGED keys
  /\ UNCHANGED <<record, staged, lease, client, owned, github, crashes, aux>>

EraseFiles ==
  /\ job.at = "files"
  /\ \/ /\ record' = NoRecord /\ staged' = NoRecord /\ job' = Answered("ok")
        /\ UNCHANGED faults
     \/ /\ Fault /\ record' \in {record, NoRecord} /\ job' = Answered("incomplete")
        /\ UNCHANGED staged
  /\ UNCHANGED <<keys, lease, client, owned, github, crashes, aux>>

-----------------------------------------------------------------------------
(* The clients.  Opening a vault claims the record's path for this         *)
(* process; a client that finds it claimed is refused and changes nothing, *)
(* so only the opening that succeeds is a step.                            *)

MutClaims(c) ==   \* mutant: the lease of another client is not looked at
  /\ client[c] = Idle
  /\ holder' = c
  /\ touched' = FALSE
  /\ UNCHANGED closing
Claims(c) ==
  /\ client[c] = Idle
  /\ holder = NoClient
  /\ holder' = c
  /\ touched' = FALSE
  /\ UNCHANGED closing

Leaves(c, at) ==
  /\ closing' = TRUE
  /\ client' = [client EXCEPT ![c].at = at]
  /\ UNCHANGED holder

Renew(o) ==
  /\ o \in Owners /\ ~closed[o]
  /\ Claims(o)
  /\ client' = [client EXCEPT ![o] = [op |-> "renew", at |-> "read", token |-> NoToken]]
  /\ UNCHANGED <<disk, job, owned, github, faults, crashes, before>>

(* The stored credential is read.  Without one that is spent and may be    *)
(* sent, the owner is done.                                                *)
ReadStored(o) ==
  /\ client[o].at = "read"
  /\ \/ /\ Readable # NoToken /\ Readable # barred[o] /\ ~closed[o]
        /\ client' = [client EXCEPT ![o].at = "exchange", ![o].token = Readable]
        /\ UNCHANGED lease
     \/ Leaves(o, "closing")
  /\ UNCHANGED <<disk, job, owned, github, faults, crashes, aux>>

MutBars(o, token) ==   \* mutant: the owner keeps nothing of the failure
  UNCHANGED <<barred, closed>>
Bars(o, token) == /\ barred' = [barred EXCEPT ![o] = token]
                  /\ UNCHANGED closed

Learns(o, token) == learned' = [learned EXCEPT ![o] = @ \cup {token}]

(* One exchange with GitHub while the lease is held.  GitHub rotates a     *)
(* token it accepts and refuses one it does not; either answer may be lost.*)
Exchange(o) ==
  /\ client[o].at = "exchange" /\ ~closed[o]
  /\ LET token == client[o].token IN
     \/ /\ token \in accepted /\ issued < MaxTokens
        /\ issued' = issued + 1
        /\ accepted' = (accepted \ {token}) \cup {issued'}
        /\ Learns(o, token)
        /\ client' = [client EXCEPT ![o].at = "working"]
        /\ Request("store", issued')
        /\ UNCHANGED <<lease, barred, closed, faults, touched>>
     \/ /\ Fault
        /\ accepted' \in {accepted, accepted \ {token}}
        /\ Leaves(o, "closing")
        /\ UNCHANGED <<issued, job, aux, owned>>
     \/ /\ token \notin accepted
        /\ Bars(o, token) /\ Learns(o, token)
        /\ Leaves(o, "closing")
        /\ UNCHANGED <<github, job, aux, faults>>
  /\ UNCHANGED <<disk, crashes>>

(* A closed owner sends nothing more.                                      *)
Withdraw(o) ==
  /\ client[o].at = "exchange" /\ closed[o]
  /\ Leaves(o, "closing")
  /\ UNCHANGED <<disk, job, owned, github, faults, crashes, aux>>

(* The rotated credential is stored or its token is never sent again.      *)
Rotated(o) ==
  /\ client[o].op = "renew" /\ client[o].at = "working" /\ job.at = "done"
  /\ IF job.result = "ok" THEN UNCHANGED <<barred, closed>> ELSE Bars(o, client[o].token)
  /\ job' = NoJob
  /\ Leaves(o, "closing")
  /\ UNCHANGED <<disk, learned, github, faults, crashes, aux>>

(* An owner's disconnect erases under the lease and sweeps after it.       *)
Disconnect(o) ==
  /\ o \in Owners /\ ~closed[o]
  /\ Claims(o)
  /\ client' = [client EXCEPT ![o] = [op |-> "disconnect", at |-> "working", token |-> NoToken]]
  /\ Request("erase", NoToken)
  /\ UNCHANGED <<disk, owned, github, faults, crashes>>

Erased(o) ==
  /\ client[o].op = "disconnect" /\ client[o].at = "working" /\ job.at = "done"
  /\ Leaves(o, IF job.result = "ok" THEN "leaving" ELSE "closing")
  /\ job' = NoJob
  /\ UNCHANGED <<disk, owned, github, faults, crashes, aux>>

Sweep(o) ==
  /\ client[o].at = "sweep"
  /\ \/ record' = NoRecord /\ staged' = NoRecord /\ UNCHANGED faults
     \/ /\ Fault
        /\ record' \in {record, NoRecord} /\ staged' \in {staged, NoRecord}
  /\ client' = [client EXCEPT ![o] = Idle]
  /\ touched' = TRUE
  /\ UNCHANGED <<keys, lease, job, owned, github, crashes, before>>

(* Closing an owner, and the owner of the next refresh, which knows        *)
(* nothing of what this one learned.                                       *)
CloseOwner(o) ==
  /\ ~closed[o]
  /\ closed' = [closed EXCEPT ![o] = TRUE]
  /\ UNCHANGED <<disk, lease, job, client, barred, learned, github, faults, crashes, aux>>

NextOwner(o) ==
  /\ closed[o] /\ client[o] = Idle
  /\ closed' = [closed EXCEPT ![o] = FALSE]
  /\ barred' = [barred EXCEPT ![o] = NoToken]
  /\ learned' = [learned EXCEPT ![o] = {}]
  /\ UNCHANGED <<disk, lease, job, client, github, faults, crashes, aux>>

(* A screen stores a fresh authorization, removes the credential, or looks *)
(* at it; its vault is closed when the answer was delivered.               *)
Keep(s) ==
  /\ s \in Screens /\ issued < MaxTokens
  /\ Claims(s)
  /\ issued' = issued + 1
  /\ accepted' = accepted \cup {issued'}
  /\ client' = [client EXCEPT ![s] = [op |-> "keep", at |-> "working", token |-> NoToken]]
  /\ Request("renew", issued')
  /\ UNCHANGED <<disk, owned, faults, crashes>>

Remove(s) ==
  /\ s \in Screens
  /\ Claims(s)
  /\ client' = [client EXCEPT ![s] = [op |-> "remove", at |-> "working", token |-> NoToken]]
  /\ Request("erase", NoToken)
  /\ UNCHANGED <<disk, owned, github, faults, crashes>>

Look(s) ==
  /\ s \in Screens
  /\ client[s] = Idle /\ holder = NoClient
  /\ holder' = s /\ closing' = TRUE
  /\ UNCHANGED <<disk, job, client, owned, github, faults, crashes, aux>>

Delivered(s) ==
  /\ s \in Screens /\ client[s].at = "working" /\ job.at = "done"
  /\ closing' = TRUE
  /\ client' = [client EXCEPT ![s] = Idle]
  /\ job' = NoJob
  /\ UNCHANGED <<disk, holder, owned, github, faults, crashes, aux>>

(* The lease ends when the closed vault's worker has terminated; an owner  *)
(* waits for that.                                                         *)
Release ==
  /\ closing
  /\ holder' = NoClient /\ closing' = FALSE
  /\ client' = [client EXCEPT ![holder] =
                  IF @.at = "leaving" THEN [@ EXCEPT !.at = "sweep"] ELSE Idle]
  /\ UNCHANGED <<disk, job, owned, github, faults, crashes, aux>>

-----------------------------------------------------------------------------
(* The platform: a key is invalidated for good, or the process dies.       *)
Invalidate ==
  /\ Fault
  /\ \E g \in Aliases : /\ keys[g] \in KeyIds
                        /\ keys' = [keys EXCEPT ![g] = Invalidated]
  /\ touched' = TRUE
  /\ UNCHANGED <<record, staged, lease, job, client, owned, github, crashes, before>>

Crash ==
  /\ crashes < MaxCrashes /\ crashes' = crashes + 1
  /\ holder' = NoClient /\ closing' = FALSE
  /\ job' = NoJob
  /\ client' = [c \in Clients |-> Idle]
  /\ barred' = [o \in Owners |-> NoToken]
  /\ closed' = [o \in Owners |-> FALSE]
  /\ learned' = [o \in Owners |-> {}]
  /\ UNCHANGED <<disk, github, faults, aux>>

Init ==
  /\ record = NoRecord /\ staged = NoRecord
  /\ keys = [g \in Aliases |-> NoKey]
  /\ holder = NoClient /\ closing = FALSE
  /\ job = NoJob
  /\ client = [c \in Clients |-> Idle]
  /\ barred = [o \in Owners |-> NoToken]
  /\ closed = [o \in Owners |-> FALSE]
  /\ learned = [o \in Owners |-> {}]
  /\ issued = 0 /\ accepted = {}
  /\ faults = 0 /\ crashes = 0
  /\ before = NoToken /\ touched = FALSE

Worker == Seal \/ Stage \/ Rename \/ Discard \/ Supersede \/ EraseKeys \/ EraseFiles

OwnerStep(o) ==
  \/ Renew(o) \/ ReadStored(o) \/ Exchange(o) \/ Withdraw(o) \/ Rotated(o)
  \/ Disconnect(o) \/ Erased(o) \/ Sweep(o) \/ CloseOwner(o) \/ NextOwner(o)

ScreenStep(s) == Keep(s) \/ Remove(s) \/ Look(s) \/ Delivered(s)

Next ==
  \/ Worker \/ Release \/ Invalidate \/ Crash
  \/ \E o \in Owners : OwnerStep(o)
  \/ \E s \in Screens : ScreenStep(s)

Spec == Init /\ [][Next]_vars

-----------------------------------------------------------------------------
SealedRecords == [gen : Aliases, key : KeyIds, token : Tokens] \cup {NoRecord}

(* Every variable stays in its domain; a sealed record names an alias of   *)
(* this scope and a key that existed when it was written.                  *)
TypeOK ==
  /\ record \in SealedRecords /\ staged \in SealedRecords
  /\ keys \in [Aliases -> KeyIds \cup {NoKey, Invalidated}]
  /\ holder \in Clients \cup {NoClient} /\ closing \in BOOLEAN
  /\ job \in [task : {"none", "store", "renew", "erase"},
              at : {"none", "begin", "sealed", "staged", "supersede", "discard", "files", "done"},
              gen : Aliases \cup {0}, key : KeyIds \cup {NoKey}, token : Tokens \cup {NoToken},
              result : {"none", "ok", "uncommitted", "unknown", "committed", "incomplete"}]
  /\ client \in [Clients ->
        [op : {"idle", "renew", "disconnect", "keep", "remove"},
         at : {"idle", "read", "exchange", "working", "closing", "leaving", "sweep"},
         token : Tokens \cup {NoToken}]]
  /\ barred \in [Owners -> Tokens \cup {NoToken}]
  /\ closed \in [Owners -> BOOLEAN]
  /\ learned \in [Owners -> SUBSET Tokens]
  /\ issued \in 0..MaxTokens /\ accepted \in SUBSET (1..issued)
  /\ faults \in 0..MaxFaults /\ crashes \in 0..MaxCrashes
  /\ before \in Tokens \cup {NoToken} /\ touched \in BOOLEAN

(* What an answered request says is what the record holds, unless a key or *)
(* the file went behind its back: a success stored the new credential or   *)
(* removed every trace, a failure before the commit left the previous      *)
(* record readable ("Up to and including BeforeCommit the previous record  *)
(* is the one a read still returns", VaultFailure.kt:95), a committed one  *)
(* is readable although its write is reported as failed, and only a commit *)
(* that was not reported leaves a choice.                                  *)
OutcomesMatchRecord ==
  (job.at = "done" /\ ~touched) =>
    /\ job.task = "erase" /\ job.result = "ok" =>
          record = NoRecord /\ staged = NoRecord /\ \A g \in Aliases : keys[g] = NoKey
    /\ job.task # "erase" /\ job.result \in {"ok", "committed"} => Readable = job.token
    /\ job.result = "uncommitted" => Readable = before
    /\ job.result = "unknown" => Readable \in {before, job.token}

(* The credential a reader of the record finds changes only by a removal,  *)
(* by an invalidated key, or when a replacement commits, at once and       *)
(* readable; no crash between two steps loses it.  A rotation replaces the *)
(* very credential whose token it used up: the lease held across the       *)
(* exchange keeps a removal or a new authorization from being overwritten. *)
StoredCredentialLineage ==
  [][Readable' # Readable =>
       \/ /\ Readable' = NoToken
          /\ \/ job.task = "erase"
             \/ \E o \in Owners : client[o].at = "sweep" /\ client'[o] = Idle
             \/ \E g \in Aliases : keys[g] # keys'[g] /\ keys'[g] = Invalidated
             \/ job.at = "staged" /\ keys[job.gen] = Invalidated
       \/ /\ job.at = "staged" /\ Readable' = job.token
          /\ job.task = "store" => touched \/ Readable = client[holder].token]_vars

(* An owner never sends a refresh token again once it knows the token is   *)
(* used up, by an answer that rotated it or one that refused it, whatever  *)
(* became of storing the rotated one ("Never replay a refresh token after  *)
(* a failed or uncertain local commit", CredentialRenewalOwner.kt:41).     *)
NoReplay ==
  \A o \in Owners : client[o].at = "exchange" => client[o].token \notin learned[o]
=============================================================================
