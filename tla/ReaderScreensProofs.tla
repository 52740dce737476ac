------------------------- MODULE ReaderScreensProofs -------------------------
(***************************************************************************)
(* TLAPS proofs about ReaderScreens, for any texts, dates, and numbers of  *)
(* requests, pages and links.                                              *)
(***************************************************************************)
EXTENDS ReaderScreens, TLAPS

(* Requests are numbered in the order they are made, and only one that
   continues an answer carries pages of it.                              *)
WorkFits ==
  \A r \in Requests :
    /\ work[r].at # "none" => r <= serial
    /\ work[r].restart => work[r].after = 0
    /\ ~work[r].restart => work[r].after < MaxPages

PagesFit == phase.hasMore => phase.pages < MaxPages

(* The latest request and what is shown determine each other, also in the
   direction ShownIsCurrent does not need.                               *)
Asked ==
  live =>
  /\ phase.loadingMore => phase.at = "ready" /\ kind \in {"pages", "search", "review"}
  /\ loading <=> (kind \in OneAtATime /\ (phase.at = "loading" \/ phase.loadingMore))
  /\ phase.at = "loading" \/ phase.loadingMore => serial \in Requests
  /\ (serial \in Requests /\ Running(serial)) =>
        /\ phase.query = work[serial].query
        /\ IF work[serial].restart THEN phase.at = "loading" ELSE phase.loadingMore
  /\ (kind = "review" /\ phase.at \in {"ready", "empty"}) => pinned # None

(* The part of ShownIsCurrent about answers, and the one about links. *)
AnswerIsCurrent ==
  live =>
  /\ phase.at = "loading" =>
       Running(serial) /\ work[serial].restart /\ work[serial].query = phase.query
  /\ phase.loadingMore =>
       /\ Running(serial) /\ ~work[serial].restart
       /\ work[serial].query = phase.query /\ work[serial].after = phase.pages
  /\ (kind \in Debounced \cup {"explore"} /\ phase.at # "dormant") => phase.query = input
  /\ (kind = "review" /\ phase.at \in {"ready", "empty"}) => phase.date = pinned

LinkIsCurrent ==
  live =>
  /\ linkPhase = "resolving" => linkWork[link].at \in {"asking", "posted"}
  /\ preview.at = "loading" => linkWork[link].at \in {"asking", "posted"} /\ preview.of = link
  /\ preview.at = "ready" => linkWork[link] = [at |-> "gone", task |-> "preview", ok |-> TRUE]
  /\ linkPhase # "idle" \/ preview.at # "hidden" => link \in Links
  /\ preview.at = "loading" => linkWork[link].task = "preview"

(* A search that is about to look again keeps the session it opened. *)
Rechecks ==
  \A r \in Requests :
    work[r].at = "rechecking" /\ r \in open => slot = r /\ work[r].session = r

ScreenInv == WorkFits /\ PagesFit /\ Asked /\ AnswerIsCurrent
SessionInv == Rechecks /\ SessionsAreOwned
IInv == TypeOK /\ ScreenInv /\ LinkIsCurrent /\ SessionInv

(* What a request that is sent leaves behind. *)
LEMMA RequestedEffect ==
  ASSUME TypeOK, WorkFits, kind' = kind, pinned' \in Dates \cup {None},
         NEW query \in Queries \cup {None}, NEW after \in 0..MaxPages,
         NEW restart \in BOOLEAN, NEW wait \in BOOLEAN,
         restart => after = 0, ~restart => after < MaxPages,
         ~(kind \in OneAtATime /\ loading),
         Requested(query, after, restart, wait)
  PROVE  /\ serial' = serial + 1 /\ serial' \in Requests
         /\ loading' = (kind \in OneAtATime)
         /\ work' \in [Requests -> Threads] /\ WorkFits'
         /\ \A r \in Requests \ {serial'} : work'[r] = work[r]
         /\ work'[serial'].at \in {"waiting", "getting"}
         /\ work'[serial'].query = query /\ work'[serial'].after = after
         /\ work'[serial'].restart = restart
<1> DEFINE new == [at |-> IF wait THEN "waiting" ELSE "getting", query |-> query,
                   after |-> after, restart |-> restart, asOf |-> pinned',
                   session |-> None, ok |-> FALSE]
<1>1. serial' = serial + 1 /\ serial' \in Requests /\ loading' = (kind \in OneAtATime)
      /\ work' = [work EXCEPT ![serial'] = new]
  BY BoundsAssumption DEF Requested, TypeOK, Requests
<1>2. new \in Threads /\ new.at \in {"waiting", "getting"} /\ new.query = query
      /\ new.after = after /\ new.restart = restart
  BY DEF Threads
<1>3. work \in [Requests -> Threads]
  BY DEF TypeOK, Threads
<1> HIDE DEF new
<1>4. /\ work' \in [Requests -> Threads] /\ work'[serial'] = new
      /\ \A r \in Requests \ {serial'} : work'[r] = work[r]
  BY <1>1, <1>2, <1>3
<1>5. WorkFits'
  BY <1>1, <1>2, <1>4 DEF WorkFits, TypeOK, Requests
<1> QED BY <1>1, <1>2, <1>4, <1>5

(* What a thread's own steps do to it: they move it, end it, or post its
   answer; what it was asked for stays.                                  *)
Kept(r) ==
  /\ work' \in [Requests -> Threads]
  /\ \A q \in Requests \ {r} : work'[q] = work[q]
  /\ work'[r].query = work[r].query /\ work'[r].after = work[r].after
  /\ work'[r].restart = work[r].restart /\ work'[r].asOf = work[r].asOf

LEMMA MovesEffect ==
  ASSUME TypeOK, NEW r \in Requests,
         NEW at \in {"getting", "opening", "placing", "rechecking", "asking"}, Moves(r, at)
  PROVE  Kept(r) /\ work'[r].at = at /\ work'[r].session = work[r].session
BY DEF Kept, Moves, TypeOK, Threads

LEMMA TakesEffect ==
  ASSUME TypeOK, NEW r \in Requests,
         NEW at \in {"getting", "opening", "placing", "rechecking", "asking"},
         NEW session \in Requests, Takes(r, at, session)
  PROVE  Kept(r) /\ work'[r].at = at /\ work'[r].session = session
BY DEF Kept, Takes, Stands, TypeOK, Threads

LEMMA PostsEffect ==
  ASSUME TypeOK, NEW r \in Requests, NEW ok \in BOOLEAN, Posts(r, ok)
  PROVE  Kept(r) /\ work'[r].at = "posted"
BY DEF Kept, Posts, Stands, TypeOK, Threads

LEMMA EndsEffect ==
  ASSUME TypeOK, NEW r \in Requests, Ends(r)
  PROVE  /\ work' \in [Requests -> Threads]
         /\ \A q \in Requests \ {r} : work'[q] = work[q]
         /\ work'[r].at = "gone" /\ work'[r].restart /\ work'[r].after = 0
<1> DEFINE gone == NoThread("gone")
<1>1. gone \in Threads /\ gone.at = "gone" /\ gone.restart /\ gone.after = 0
  BY BoundsAssumption DEF NoThread, Threads
<1>2. work \in [Requests -> Threads] /\ work' = [work EXCEPT ![r] = gone]
  BY DEF TypeOK, Threads, Ends
<1> HIDE DEF gone
<1> QED BY <1>1, <1>2

(* As long as the latest request of a live screen runs on, what is shown
   fits it.                                                              *)
LEMMA ThreadKeepsScreen ==
  ASSUME TypeOK, ScreenInv, NEW r \in Requests, work[r].at # "none",
         UNCHANGED <<kind, live, serial, loading, input, pinned, phase>>,
         \/ Kept(r) /\ Running(r) /\ work'[r].at \notin {"none", "gone"}
         \/ /\ \A q \in Requests \ {r} : work'[q] = work[q]
            /\ work'[r].restart /\ work'[r].after = 0
            /\ ~(live /\ serial = r)
  PROVE  ScreenInv'
<1>1. WorkFits' /\ PagesFit'
  BY DEF ScreenInv, WorkFits, PagesFit, Kept, Requests
<1>2. Asked'
  BY DEF ScreenInv, Asked, Running, Kept
<1>3. AnswerIsCurrent'
  BY DEF ScreenInv, Asked, AnswerIsCurrent, Running, Kept
<1> QED BY <1>1, <1>2, <1>3 DEF ScreenInv

(* Requests do not touch links. *)
LEMMA LinksKept ==
  ASSUME LinkIsCurrent, UNCHANGED docs, live' => live
  PROVE  LinkIsCurrent'
BY DEF LinkIsCurrent, docs

(* A screen either keeps its session or closes it. *)
KeepsOrCloses ==
  \/ UNCHANGED <<slot, open>>
  \/ open' = open \ {slot} /\ slot' = None

(* A request of a live screen, sent with what is shown while it is out. *)
LEMMA RequestKeeps ==
  ASSUME IInv, live, UNCHANGED <<kind, live, docs>>, KeepsOrCloses,
         pinned' \in Dates \cup {None}, input' \in Queries,
         NEW query \in Queries \cup {None}, NEW after \in 0..MaxPages,
         NEW restart \in BOOLEAN, NEW wait \in BOOLEAN,
         restart => after = 0, ~restart => after < MaxPages,
         ~(kind \in OneAtATime /\ loading),
         Requested(query, after, restart, wait),
         phase' \in Phases, phase'.query = query, PagesFit',
         restart => phase'.at = "loading" /\ ~phase'.loadingMore,
         ~restart => /\ phase'.at = "ready" /\ phase'.loadingMore /\ phase'.pages = after
                     /\ kind \in {"pages", "search", "review"},
         kind \in Debounced \cup {"explore"} => query = input',
         kind = "review" /\ phase'.at = "ready" => phase'.date = pinned' /\ pinned' # None
  PROVE  IInv'
<1> USE DEF IInv, ScreenInv, SessionInv
<1>1. /\ serial' = serial + 1 /\ serial' \in Requests
      /\ loading' = (kind \in OneAtATime)
      /\ work' \in [Requests -> Threads] /\ WorkFits'
      /\ \A r \in Requests \ {serial'} : work'[r] = work[r]
      /\ work'[serial'].at \in {"waiting", "getting"}
      /\ work'[serial'].query = query /\ work'[serial'].after = after
      /\ work'[serial'].restart = restart
  BY RequestedEffect
<1>2. TypeOK'
  <2>1. serial \in 0..MaxRequests /\ serial' = serial + 1 /\ serial' \in 0..MaxRequests
    BY <1>1, BoundsAssumption DEF TypeOK, Requests
  <2>2. slot' \in (1..serial') \cup {None} /\ open' \in SUBSET (1..serial')
    <3>1. slot \in (1..serial) \cup {None} /\ open \in SUBSET (1..serial)
      BY DEF TypeOK
    <3>2. 1..serial \subseteq 1..serial'
      BY <2>1, BoundsAssumption
    <3> QED BY <3>1, <3>2 DEF KeepsOrCloses
  <2>3. loading' \in BOOLEAN
    BY <1>1
  <2> QED BY <1>1, <2>1, <2>2, <2>3 DEF TypeOK, docs
<1>3. Asked'
  BY <1>1 DEF Asked, Running
<1>4. AnswerIsCurrent'
  BY <1>1 DEF AnswerIsCurrent, Running
<1>5. LinkIsCurrent'
  BY LinksKept
<1>6. \A s \in open : s \in Requests /\ work'[s] = work[s]
  BY <1>1, BoundsAssumption DEF TypeOK, Requests
<1>7. SessionsAreOwned'
  BY <1>1, <1>6 DEF SessionsAreOwned, KeepsOrCloses
<1>8. Rechecks'
  BY <1>1, <1>6 DEF Rechecks, KeepsOrCloses
<1> QED BY <1>1, <1>2, <1>3, <1>4, <1>5, <1>7, <1>8

-----------------------------------------------------------------------------
(* Each step keeps the invariant: first the reader's. *)
LEMMA ActivateKeeps ==
  ASSUME IInv, Activate
  PROVE  IInv'
<1>1. ~(kind \in OneAtATime /\ loading)
  BY DEF IInv, ScreenInv, Asked, Activate, OneAtATime
<1>2. phase' \in Phases /\ phase'.query = None /\ PagesFit'
      /\ phase'.at = "loading" /\ ~phase'.loadingMore
  BY BoundsAssumption DEF Activate, Shows, Answer, Phases, PagesFit
<1>3. /\ live /\ UNCHANGED <<kind, live, docs>> /\ KeepsOrCloses
      /\ pinned' \in Dates \cup {None} /\ input' \in Queries
      /\ kind \notin Debounced \cup {"explore", "review"}
      /\ Requested(None, 0, TRUE, FALSE)
  BY DEF Activate, IInv, TypeOK, KeepsOrCloses, Debounced
<1>4. 0 \in 0..MaxPages /\ TRUE \in BOOLEAN /\ FALSE \in BOOLEAN
  BY BoundsAssumption
<1> QED
  BY <1>1, <1>2, <1>3, <1>4, RequestKeeps, Zenon

LEMMA ActivateReviewKeeps ==
  ASSUME IInv, NEW query \in Queries, ActivateReview(query)
  PROVE  IInv'
<1>1. ~(kind \in OneAtATime /\ loading)
  BY DEF IInv, ScreenInv, Asked, ActivateReview, OneAtATime
<1>2. phase' \in Phases /\ phase'.query = query /\ PagesFit'
      /\ phase'.at = "loading" /\ ~phase'.loadingMore
  BY BoundsAssumption DEF ActivateReview, Shows, Answer, Phases, PagesFit, IInv, TypeOK
<1>3. /\ live /\ UNCHANGED <<kind, live, docs>> /\ KeepsOrCloses
      /\ pinned' \in Dates \cup {None} /\ input' \in Queries
      /\ query \in Queries \cup {None}
      /\ kind \in Debounced \cup {"explore"} => query = input'
      /\ Requested(query, 0, TRUE, FALSE)
  BY DEF ActivateReview, IInv, TypeOK, KeepsOrCloses, Debounced
<1>4. 0 \in 0..MaxPages /\ TRUE \in BOOLEAN /\ FALSE \in BOOLEAN
      /\ phase'.at # "ready"
  BY <1>2, BoundsAssumption
<1> QED
  BY <1>1, <1>2, <1>3, <1>4, RequestKeeps, Zenon

LEMMA ExploreKeeps ==
  ASSUME IInv, NEW lens \in Queries, Explore(lens)
  PROVE  IInv'
<1>1. ~(kind \in OneAtATime /\ loading)
  BY DEF IInv, ScreenInv, Asked, Explore, OneAtATime
<1>2. phase' \in Phases /\ phase'.query = lens /\ PagesFit'
      /\ phase'.at = "loading" /\ ~phase'.loadingMore
  BY BoundsAssumption DEF Explore, Shows, Answer, Phases, PagesFit, IInv, TypeOK
<1>3. /\ live /\ UNCHANGED <<kind, live, docs>> /\ KeepsOrCloses
      /\ pinned' \in Dates \cup {None} /\ input' \in Queries
      /\ lens \in Queries \cup {None}
      /\ kind \in Debounced \cup {"explore"} => lens = input'
      /\ Requested(lens, 0, TRUE, FALSE)
  BY DEF Explore, IInv, TypeOK, KeepsOrCloses, Debounced
<1>4. 0 \in 0..MaxPages /\ TRUE \in BOOLEAN /\ FALSE \in BOOLEAN
      /\ phase'.at # "ready"
  BY <1>2, BoundsAssumption
<1> QED
  BY <1>1, <1>2, <1>3, <1>4, RequestKeeps, Zenon

LEMMA RetryKeeps ==
  ASSUME IInv, Retry
  PROVE  IInv'
<1>1. ~(kind \in OneAtATime /\ loading)
  BY DEF IInv, ScreenInv, Asked, Retry, OneAtATime, Phases, TypeOK
<1>2. phase' \in Phases /\ phase'.query = phase.query /\ PagesFit'
      /\ phase'.at = "loading" /\ ~phase'.loadingMore
  BY BoundsAssumption DEF Retry, Shows, Answer, Phases, PagesFit, IInv, TypeOK
<1>3. /\ live /\ UNCHANGED <<kind, live, docs>> /\ KeepsOrCloses
      /\ pinned' \in Dates \cup {None} /\ input' \in Queries
      /\ phase.query \in Queries \cup {None}
      /\ kind \in Debounced \cup {"explore"} => phase.query = input'
      /\ Requested(phase.query, 0, TRUE, FALSE)
  BY DEF Retry, IInv, TypeOK, KeepsOrCloses, Debounced, Phases, ScreenInv, AnswerIsCurrent
<1>4. 0 \in 0..MaxPages /\ TRUE \in BOOLEAN /\ FALSE \in BOOLEAN
      /\ phase'.at # "ready"
  BY <1>2, BoundsAssumption
<1> QED
  BY <1>1, <1>2, <1>3, <1>4, RequestKeeps, Zenon

LEMMA LoadMoreKeeps ==
  ASSUME IInv, LoadMore
  PROVE  IInv'
<1> USE DEF IInv, ScreenInv
<1>1. ~(kind \in OneAtATime /\ loading)
  BY DEF Asked, LoadMore, MayLoadMore, OneAtATime
<1>2. /\ phase' \in Phases /\ phase'.query = phase.query /\ PagesFit'
      /\ phase'.at = "ready" /\ phase'.loadingMore /\ phase'.pages = phase.pages
      /\ phase'.date = phase.date
  BY DEF LoadMore, MayLoadMore, Pages, Phases, PagesFit, TypeOK
<1>3. /\ live /\ UNCHANGED <<kind, live, docs>> /\ KeepsOrCloses
      /\ kind \in {"pages", "search", "review"}
      /\ pinned' \in Dates \cup {None} /\ input' \in Queries
      /\ phase.query \in Queries \cup {None}
      /\ phase.pages \in 0..MaxPages /\ phase.pages < MaxPages
      /\ Requested(phase.query, phase.pages, FALSE, FALSE)
  BY DEF LoadMore, MayLoadMore, TypeOK, KeepsOrCloses, Phases, PagesFit
<1>4. kind \in Debounced \cup {"explore"} => phase.query = input'
  BY DEF LoadMore, MayLoadMore, AnswerIsCurrent
<1>5. kind = "review" => phase'.date = pinned' /\ pinned' # None
  BY <1>2 DEF LoadMore, MayLoadMore, AnswerIsCurrent, Asked
<1>6. TRUE \in BOOLEAN /\ FALSE \in BOOLEAN
  OBVIOUS
<1> QED
  BY <1>1, <1>2, <1>3, <1>4, <1>5, <1>6, RequestKeeps, Zenon

LEMMA TypeKeeps ==
  ASSUME IInv, NEW query \in Queries, Type(query)
  PROVE  IInv'
<1>1. CASE ~(kind = "search" /\ query = Blank)
  <2>0. /\ live /\ kind \in {"search", "review"} /\ input' = query
        /\ phase' = Shows("loading", query) /\ Requested(query, 0, TRUE, TRUE)
        /\ UNCHANGED <<kind, live, slot, open, pinned, docs>>
    BY <1>1 DEF Type, Debounced
  <2>1. ~(kind \in OneAtATime /\ loading)
    BY <2>0 DEF OneAtATime
  <2>2. phase' \in Phases /\ phase'.query = query /\ PagesFit'
        /\ phase'.at = "loading" /\ ~phase'.loadingMore
    BY <2>0, BoundsAssumption DEF Shows, Answer, Phases, PagesFit
  <2>3. /\ live /\ UNCHANGED <<kind, live, docs>> /\ KeepsOrCloses
        /\ pinned' \in Dates \cup {None} /\ input' \in Queries
        /\ query \in Queries \cup {None}
        /\ kind \in Debounced \cup {"explore"} => query = input'
        /\ Requested(query, 0, TRUE, TRUE)
    BY <2>0 DEF IInv, TypeOK, KeepsOrCloses
  <2>4. 0 \in 0..MaxPages /\ TRUE \in BOOLEAN /\ FALSE \in BOOLEAN
        /\ phase'.at # "ready"
    BY <2>2, BoundsAssumption
  <2> QED
    BY <2>1, <2>2, <2>3, <2>4, RequestKeeps, Zenon
<1>2. CASE kind = "search" /\ query = Blank
  <2> USE DEF IInv, ScreenInv, SessionInv
  <2>1. /\ live /\ serial < MaxRequests /\ serial' = serial + 1
        /\ phase' = Shows("dormant", None) /\ input' = query
        /\ UNCHANGED <<kind, live, loading, slot, open, pinned, work, docs>>
    BY <1>2 DEF Type
  <2>2. phase' \in Phases /\ PagesFit' /\ phase'.at = "dormant" /\ ~phase'.loadingMore
    BY <2>1, BoundsAssumption DEF Shows, Answer, Phases, PagesFit
  <2>3. TypeOK'
    BY <2>1, <2>2, BoundsAssumption DEF TypeOK, docs
  <2>4. WorkFits' /\ (serial' \in Requests /\ work'[serial'].at = "none")
    BY <2>1, BoundsAssumption DEF WorkFits, TypeOK, Requests
  <2>5. Asked' /\ AnswerIsCurrent'
    BY <1>2, <2>1, <2>2, <2>4 DEF Asked, AnswerIsCurrent, Running, OneAtATime
  <2>6. LinkIsCurrent' /\ SessionInv'
    BY <2>1, LinksKept DEF SessionsAreOwned, Rechecks
  <2> QED BY <2>2, <2>3, <2>4, <2>5, <2>6
<1> QED BY <1>1, <1>2

LEMMA CloseKeeps ==
  ASSUME IInv, Close
  PROVE  IInv'
<1> USE DEF IInv, ScreenInv, SessionInv
<1>1. /\ live' = FALSE /\ open' = open \ {slot} /\ slot' = None /\ preview' = Hidden
      /\ UNCHANGED <<kind, serial, loading, input, pinned, phase, work>>
      /\ UNCHANGED <<link, linkWork, linkPhase>>
  BY DEF Close
<1>2. TypeOK'
  <2>1. preview' \in [at : {"hidden", "loading", "ready"}, of : 0..MaxLinks]
    BY <1>1, BoundsAssumption DEF Hidden
  <2>2. slot' \in (1..serial') \cup {None} /\ open' \in SUBSET (1..serial')
    BY <1>1 DEF TypeOK
  <2> QED BY <1>1, <2>1, <2>2 DEF TypeOK
<1>3. ScreenInv' /\ LinkIsCurrent'
  BY <1>1 DEF WorkFits, PagesFit, Asked, AnswerIsCurrent, LinkIsCurrent
<1>4. SessionInv'
  BY <1>1 DEF SessionsAreOwned, Rechecks
<1> QED BY <1>2, <1>3, <1>4

(* Links and the preview leave answers and sessions alone. *)
LEMMA AnswersKept ==
  ASSUME IInv,
         UNCHANGED <<kind, live, serial, loading, slot, open, input, pinned, phase, work>>
  PROVE  ScreenInv' /\ SessionInv'
BY DEF IInv, ScreenInv, SessionInv, WorkFits, PagesFit, Asked, AnswerIsCurrent,
       SessionsAreOwned, Rechecks, Running

LinkStep ==
  \/ \E task \in {"follow", "attachment", "preview"} : StartLink(task)
  \/ DismissNotice \/ EndPreview
  \/ \E l \in Links : LinkThread(l)

LEMMA LinkStepKeeps ==
  ASSUME IInv, LinkStep
  PROVE  IInv'
<1> USE DEF IInv
<1>1. UNCHANGED <<kind, live, serial, loading, slot, open, input, pinned, phase, work>>
  BY DEF LinkStep, StartLink, DismissNotice, EndPreview, LinkThread, AskLink, DeliverLink
<1>2. ScreenInv' /\ SessionInv'
  BY <1>1, AnswersKept
<1>3. ASSUME link' \in 0..MaxLinks,
             linkWork' \in [Links -> [at : {"none", "asking", "posted", "gone"},
                                     task : {"none", "follow", "attachment", "preview"},
                                     ok : BOOLEAN]],
             linkPhase' \in {"idle", "resolving", "notice"},
             preview' \in [at : {"hidden", "loading", "ready"}, of : 0..MaxLinks]
      PROVE  TypeOK'
  BY <1>1, <1>3 DEF TypeOK
<1>4. ASSUME NEW task \in {"follow", "attachment", "preview"}, StartLink(task)
      PROVE  IInv'
  <2>1. link' = link + 1 /\ link' \in Links
    BY <1>4, BoundsAssumption DEF StartLink, TypeOK, Links
  <2>2. TypeOK'
    <3>1. linkWork' \in [Links -> [at : {"none", "asking", "posted", "gone"},
                                  task : {"none", "follow", "attachment", "preview"},
                                  ok : BOOLEAN]]
      BY <1>4, <2>1 DEF StartLink, TypeOK
    <3>2. linkPhase' \in {"idle", "resolving", "notice"} /\ link' \in 0..MaxLinks
      BY <1>4, <2>1, BoundsAssumption DEF StartLink, Links
    <3>3. preview' \in [at : {"hidden", "loading", "ready"}, of : 0..MaxLinks]
      BY <1>4, <3>2, BoundsAssumption DEF StartLink, Hidden
    <3> QED BY <1>3, <3>1, <3>2, <3>3
  <2>3. LinkIsCurrent'
    BY <1>4, <2>1 DEF StartLink, LinkIsCurrent, TypeOK, Hidden
  <2> QED BY <1>2, <2>2, <2>3
<1>5. CASE DismissNotice \/ EndPreview
  <2>1. TypeOK'
    <3>1. link' \in 0..MaxLinks /\ UNCHANGED linkWork /\ linkPhase' = "idle"
      BY <1>5, BoundsAssumption DEF DismissNotice, EndPreview, TypeOK
    <3>2. preview' = preview \/ preview' = [at |-> "hidden", of |-> 0]
      BY <1>5 DEF DismissNotice, EndPreview, Hidden
    <3>3. preview' \in [at : {"hidden", "loading", "ready"}, of : 0..MaxLinks]
      BY <3>2, BoundsAssumption DEF TypeOK
    <3> QED BY <1>3, <3>1, <3>3 DEF TypeOK
  <2>2. LinkIsCurrent'
    <3>1. CASE DismissNotice
      BY <3>1 DEF DismissNotice, LinkIsCurrent
    <3>2. CASE EndPreview
      <4>1. preview'.at = "hidden" /\ linkPhase' = "idle"
        BY <3>2 DEF EndPreview, Hidden
      <4> QED BY <4>1 DEF LinkIsCurrent
    <3> QED BY <1>5, <3>1, <3>2
  <2> QED BY <1>2, <2>1, <2>2
<1>6. ASSUME NEW l \in Links, AskLink(l)
      PROVE  IInv'
  <2>1. PICK ok \in BOOLEAN :
          linkWork' = [linkWork EXCEPT ![l] = [at |-> "posted", task |-> @.task, ok |-> ok]]
    BY <1>6 DEF AskLink
  <2>2. linkWork[l].at = "asking" /\ UNCHANGED <<link, linkPhase, preview>>
    BY <1>6 DEF AskLink
  <2>3. TypeOK'
    BY <1>3, <2>1, <2>2 DEF TypeOK
  <2>4. LinkIsCurrent'
    BY <1>1, <2>1, <2>2 DEF LinkIsCurrent, TypeOK
  <2> QED BY <1>2, <2>3, <2>4
<1>7. ASSUME NEW l \in Links, DeliverLink(l)
      PROVE  IInv'
  <2>1. /\ linkWork[l].at = "posted" /\ linkWork' = [linkWork EXCEPT ![l].at = "gone"]
        /\ UNCHANGED link
    BY <1>7 DEF DeliverLink
  <2>2. CASE live /\ link = l
    <3>1. /\ linkPhase' = IF linkWork[l].ok THEN "idle" ELSE "notice"
          /\ preview' = IF linkWork[l].task = "preview"
                        THEN IF linkWork[l].ok THEN [at |-> "ready", of |-> l] ELSE Hidden
                        ELSE preview
      BY <1>7, <2>2 DEF DeliverLink
    <3>2. preview' \in [at : {"hidden", "loading", "ready"}, of : 0..MaxLinks]
      BY <3>1, BoundsAssumption DEF TypeOK, Hidden, Links
    <3>3. TypeOK'
      BY <1>3, <2>1, <3>1, <3>2 DEF TypeOK
    <3>5. linkWork[l].task = "preview" /\ linkWork[l].ok
          => linkWork'[l] = [at |-> "gone", task |-> "preview", ok |-> TRUE]
      BY <2>1 DEF TypeOK
    <3>6. preview.at # "ready" /\ (preview.at = "loading" => linkWork[l].task = "preview")
      BY <2>1, <2>2 DEF LinkIsCurrent
    <3>7. preview'.at # "loading"
          /\ (preview'.at = "ready" => linkWork[l].task = "preview" /\ linkWork[l].ok)
      BY <3>1, <3>6 DEF Hidden, TypeOK
    <3>8. LinkIsCurrent'
      BY <1>1, <2>1, <2>2, <3>1, <3>5, <3>7 DEF LinkIsCurrent
    <3> QED BY <1>2, <3>3, <3>8
  <2>3. CASE ~(live /\ link = l)
    <3>1. UNCHANGED <<linkPhase, preview>>
      BY <1>7, <2>3 DEF DeliverLink
    <3>2. TypeOK'
      BY <1>3, <2>1, <3>1 DEF TypeOK
    <3>3. LinkIsCurrent'
      BY <1>1, <2>1, <2>3, <3>1 DEF LinkIsCurrent, TypeOK
    <3> QED BY <1>2, <3>2, <3>3
  <2> QED BY <2>2, <2>3
<1> QED BY <1>4, <1>5, <1>6, <1>7 DEF LinkStep, LinkThread

-----------------------------------------------------------------------------
(* Then the threads'. *)
LEMMA ThreadKeepsType ==
  ASSUME TypeOK, UNCHANGED <<kind, live, serial, loading, input, pinned, phase, docs>>,
         work' \in [Requests -> Threads],
         slot' \in (1..serial) \cup {None}, open' \in SUBSET (1..serial)
  PROVE  TypeOK'
BY DEF TypeOK, docs

LEMMA InRequests ==
  ASSUME IInv
  PROVE  /\ open \subseteq Requests /\ slot \in Requests \cup {None}
         /\ None \notin Requests
         /\ \A r \in Requests : Running(r) => r \in 1..serial
BY QueriesAssumption, BoundsAssumption
   DEF IInv, ScreenInv, WorkFits, TypeOK, Requests, Running

LEMMA WakeKeeps ==
  ASSUME IInv, NEW r \in Requests, Wake(r)
  PROVE  IInv'
<1> USE DEF IInv, SessionInv
<1>1. /\ work[r].at = "waiting" /\ Running(r)
      /\ UNCHANGED <<kind, live, serial, loading, slot, open, input, pinned, phase, docs>>
  BY DEF Wake, Running
<1>2. CASE live /\ serial = r
  <2>1. Kept(r) /\ work'[r].at = "getting"
    BY <1>2, MovesEffect DEF Wake
  <2>2. ScreenInv'
    BY <1>1, <2>1, ThreadKeepsScreen
  <2>3. TypeOK' /\ LinkIsCurrent'
    BY <1>1, <2>1, ThreadKeepsType, LinksKept DEF TypeOK, Kept
  <2>4. SessionInv'
    BY <1>1, <2>1, InRequests DEF SessionsAreOwned, Rechecks, Kept
  <2> QED BY <2>2, <2>3, <2>4
<1>3. CASE ~(live /\ serial = r)
  <2>1. /\ work' \in [Requests -> Threads]
        /\ \A q \in Requests \ {r} : work'[q] = work[q]
        /\ work'[r].at = "gone" /\ work'[r].restart /\ work'[r].after = 0
    BY <1>3, EndsEffect DEF Wake
  <2>2. ScreenInv'
    BY <1>1, <1>3, <2>1, ThreadKeepsScreen
  <2>3. TypeOK' /\ LinkIsCurrent'
    BY <1>1, <2>1, ThreadKeepsType, LinksKept DEF TypeOK
  <2>4. SessionInv'
    BY <1>1, <2>1, InRequests DEF SessionsAreOwned, Rechecks
  <2> QED BY <2>2, <2>3, <2>4
<1> QED BY <1>2, <1>3

(* A thread that runs on keeps the screen, whatever it does to sessions. *)
LEMMA RunningKeeps ==
  ASSUME IInv, NEW r \in Requests, Running(r), Kept(r), work'[r].at \notin {"none", "gone"},
         UNCHANGED <<kind, live, serial, loading, input, pinned, phase, docs>>,
         slot' \in (1..serial) \cup {None}, open' \in SUBSET (1..serial),
         SessionInv'
  PROVE  IInv'
<1>1. ScreenInv'
  BY ThreadKeepsScreen DEF IInv, Running
<1>2. TypeOK' /\ LinkIsCurrent'
  BY ThreadKeepsType, LinksKept DEF IInv, Kept
<1> QED BY <1>1, <1>2 DEF IInv

LEMMA GetKeeps ==
  ASSUME IInv, NEW r \in Requests, Get(r)
  PROVE  IInv'
<1>1. /\ Running(r) /\ work[r].at = "getting"
      /\ UNCHANGED <<kind, live, serial, loading, slot, open, input, pinned, phase, docs>>
      /\ slot \in (1..serial) \cup {None} /\ open \in SUBSET (1..serial)
  BY DEF Get, Running, IInv, TypeOK
<1>2. Kept(r) /\ work'[r].at \in {"asking", "opening"}
  BY MovesEffect, TakesEffect, InRequests DEF Get, IInv
<1>3. SessionInv'
  BY <1>1, <1>2, InRequests
     DEF IInv, SessionInv, SessionsAreOwned, Rechecks, Kept
<1> QED BY <1>1, <1>2, <1>3, RunningKeeps

LEMMA OpenKeeps ==
  ASSUME IInv, NEW r \in Requests, Open(r)
  PROVE  IInv'
<1>1. /\ Running(r) /\ work[r].at = "opening"
      /\ UNCHANGED <<kind, live, serial, loading, slot, input, pinned, phase, docs>>
  BY DEF Open, Running
<1>2. \/ Kept(r) /\ work'[r].at = "placing" /\ open' = open \cup {r}
      \/ Kept(r) /\ work'[r].at = "posted" /\ open' = open
  BY MovesEffect, PostsEffect DEF Open, IInv
<1>3. slot' \in (1..serial) \cup {None} /\ open' \in SUBSET (1..serial)
  BY <1>1, <1>2, InRequests DEF IInv, TypeOK
<1>4. SessionInv'
  BY <1>1, <1>2, InRequests
     DEF IInv, SessionInv, SessionsAreOwned, Rechecks, Kept
<1> QED BY <1>1, <1>2, <1>3, <1>4, RunningKeeps

LEMMA PlaceKeeps ==
  ASSUME IInv, NEW r \in Requests, Place(r)
  PROVE  IInv'
<1> DEFINE next == IF kind \in Debounced THEN "rechecking" ELSE "asking"
<1>1. /\ Running(r) /\ work[r].at = "placing"
      /\ UNCHANGED <<kind, live, serial, loading, input, pinned, phase, docs>>
  BY DEF Place, Running
<1>2. \/ slot = None /\ slot' = r /\ open' = open /\ Takes(r, next, r)
      \/ /\ slot # None /\ slot' = slot /\ open' = open \ {r}
         /\ Takes(r, next, slot) \/ Posts(r, FALSE)
  BY DEF Place
<1>3. \/ /\ slot = None /\ slot' = r /\ open' = open
         /\ Kept(r) /\ work'[r].at = next /\ work'[r].session = r
      \/ /\ slot # None /\ slot' = slot /\ open' = open \ {r}
         /\ Kept(r) /\ work'[r].at \in {next, "posted"}
  BY <1>2, TakesEffect, PostsEffect, InRequests DEF IInv
<1>4. slot' \in (1..serial) \cup {None} /\ open' \in SUBSET (1..serial)
  BY <1>1, <1>3, InRequests DEF IInv, TypeOK
<1>5. kind \in Debounced \cup PerQuery \cup {"pages", "chooser", "document"}
  BY DEF IInv, TypeOK, Kinds, Debounced, PerQuery
<1>6. SessionsAreOwned'
  BY <1>1, <1>3, <1>5, InRequests DEF IInv, SessionInv, SessionsAreOwned, Kept
<1>7. Rechecks'
  BY <1>1, <1>3, InRequests DEF IInv, SessionInv, Rechecks, Kept
<1>8. SessionInv' /\ work'[r].at \notin {"none", "gone"}
  BY <1>3, <1>6, <1>7 DEF SessionInv
<1> QED BY <1>1, <1>3, <1>4, <1>8, RunningKeeps

LEMMA RecheckKeeps ==
  ASSUME IInv, NEW r \in Requests, Recheck(r)
  PROVE  IInv'
<1>1. /\ Running(r) /\ work[r].at = "rechecking"
      /\ UNCHANGED <<kind, live, serial, loading, input, pinned, phase, docs>>
  BY DEF Recheck, Running
<1>2. \/ /\ ~live /\ Kept(r) /\ work'[r].at = "posted"
         /\ IF slot = work[r].session THEN slot' = None /\ open' = open \ {slot}
            ELSE UNCHANGED <<slot, open>>
      \/ /\ live /\ Kept(r) /\ work'[r].at = "asking" /\ UNCHANGED <<slot, open>>
  BY MovesEffect, PostsEffect DEF Recheck, Withdrawn, IInv
<1>3. slot' \in (1..serial) \cup {None} /\ open' \in SUBSET (1..serial)
  BY <1>2 DEF IInv, TypeOK
<1>4. SessionInv'
  BY <1>1, <1>2, InRequests
     DEF IInv, SessionInv, SessionsAreOwned, Rechecks, Kept
<1> QED BY <1>1, <1>2, <1>3, <1>4, RunningKeeps

LEMMA AskKeeps ==
  ASSUME IInv, NEW r \in Requests, Ask(r)
  PROVE  IInv'
<1>1. /\ Running(r) /\ work[r].at = "asking"
      /\ UNCHANGED <<kind, live, serial, loading, input, pinned, phase, docs>>
  BY DEF Ask, Running
<1>2. Kept(r) /\ work'[r].at = "posted"
  BY PostsEffect DEF Ask, IInv
<1>3. IF kind \in PerQuery
      THEN open' = open \ {r} /\ slot' = IF slot = r THEN None ELSE slot
      ELSE UNCHANGED <<slot, open>>
  BY DEF Ask
<1>4. slot' \in (1..serial) \cup {None} /\ open' \in SUBSET (1..serial)
  BY <1>3 DEF IInv, TypeOK
<1>5. SessionInv'
  BY <1>1, <1>2, <1>3, InRequests
     DEF IInv, SessionInv, SessionsAreOwned, Rechecks, Kept
<1> QED BY <1>1, <1>2, <1>4, <1>5, RunningKeeps

(* What the delivery of the latest answer may leave on a live screen. *)
LEMMA DeliveredKeeps ==
  ASSUME IInv, NEW r \in Requests, work[r].at = "posted", live, serial = r,
         work' \in [Requests -> Threads],
         \A q \in Requests \ {r} : work'[q] = work[q],
         work'[r].at = "gone", work'[r].restart, work'[r].after = 0,
         UNCHANGED <<kind, live, serial, input, docs>>, loading' = FALSE,
         KeepsOrCloses, pinned' \in Dates \cup {None}, phase' \in Phases, PagesFit',
         phase'.at \in {"ready", "empty", "failed"}, ~phase'.loadingMore,
         phase'.query = phase.query,
         kind = "review" /\ phase'.at \in {"ready", "empty"}
           => phase'.date = pinned' /\ pinned' # None
  PROVE  IInv'
<1> USE DEF IInv, ScreenInv, SessionInv
<1>1. TypeOK'
  BY DEF TypeOK, KeepsOrCloses, docs
<1>2. WorkFits'
  BY DEF WorkFits
<1>3. Asked' /\ ~Running(serial)'
  BY DEF Asked, Running
<1>4. phase.at = "loading" \/ phase.at = "ready"
  <2>1. Running(serial) /\ serial \in Requests
    BY DEF Running
  <2> QED BY <2>1 DEF Asked
<1>5. AnswerIsCurrent'
  BY <1>4 DEF AnswerIsCurrent
<1>6. LinkIsCurrent'
  BY LinksKept
<1>7. SessionInv'
  BY InRequests DEF SessionsAreOwned, Rechecks, KeepsOrCloses
<1> QED BY <1>1, <1>2, <1>3, <1>5, <1>6, <1>7

(* The two forms of a shown page. *)
LEMMA AnswerForm ==
  ASSUME NEW at \in {"dormant", "loading", "ready", "empty", "failed"},
         NEW query \in Queries \cup {None}, NEW pages \in 0..MaxPages,
         NEW more \in BOOLEAN, NEW date \in Dates \cup {None},
         phase' = Answer(at, query, pages, more, date), more => pages < MaxPages
  PROVE  /\ phase' \in Phases /\ PagesFit' /\ phase'.at = at /\ phase'.query = query
         /\ phase'.date = date /\ ~phase'.loadingMore
BY DEF Answer, Phases, PagesFit

LEMMA PagesForm ==
  ASSUME phase \in Phases, NEW pages \in 0..MaxPages,
         NEW more \in BOOLEAN, NEW broken \in BOOLEAN,
         phase' = Pages(pages, more, FALSE, broken), more => pages < MaxPages
  PROVE  /\ phase' \in Phases /\ PagesFit' /\ phase'.at = phase.at
         /\ phase'.query = phase.query /\ phase'.date = phase.date /\ ~phase'.loadingMore
BY DEF Pages, Phases, PagesFit

LEMMA DeliverKeeps ==
  ASSUME IInv, NEW r \in Requests, Deliver(r)
  PROVE  IInv'
<1> USE DEF IInv, ScreenInv, SessionInv
<1>1. /\ work[r].at = "posted" /\ Running(r)
      /\ UNCHANGED <<kind, live, serial, input, docs>>
      /\ work' \in [Requests -> Threads]
      /\ \A q \in Requests \ {r} : work'[q] = work[q]
      /\ work'[r].at = "gone" /\ work'[r].restart /\ work'[r].after = 0
  BY EndsEffect DEF Deliver, Running
<1>2. CASE ~Current(r)
  <2>1. UNCHANGED <<loading, slot, open, pinned, phase>> /\ ~(live /\ serial = r)
    BY <1>2 DEF Deliver, Current
  <2>2. ScreenInv'
    BY <1>1, <2>1, ThreadKeepsScreen
  <2>3. TypeOK' /\ LinkIsCurrent'
    BY <1>1, <2>1, ThreadKeepsType, LinksKept DEF TypeOK
  <2>4. SessionInv'
    BY <1>1, <2>1, InRequests DEF SessionsAreOwned, Rechecks
  <2> QED BY <2>2, <2>3, <2>4
<1>3. CASE Current(r)
  <2>1. live /\ serial = r /\ loading' = FALSE
    BY <1>3 DEF Deliver, Current
  <2>2. /\ work[r] \in Threads /\ phase \in Phases /\ pinned \in Dates \cup {None}
        /\ phase.query = work[r].query
        /\ IF work[r].restart THEN work[r].after = 0
           ELSE phase.loadingMore /\ phase.at = "ready" /\ work[r].after < MaxPages
    BY <1>1, <2>1 DEF TypeOK, Asked, WorkFits
  <2>3. ASSUME Fail(r), pinned' = pinned
        PROVE  IInv'
    <3>1. KeepsOrCloses /\ phase' \in Phases /\ PagesFit'
          /\ phase'.at \in {"ready", "failed"} /\ ~phase'.loadingMore
          /\ phase'.query = phase.query /\ (phase'.at = "ready" => phase.at = "ready" /\ phase'.date = phase.date)
      <4>1. CASE work[r].restart
        <5>1. phase' = Answer("failed", work[r].query, 0, FALSE, None) /\ KeepsOrCloses
          BY <2>3, <4>1 DEF Fail, KeepsOrCloses, Shows
        <5>2. work[r].query \in Queries \cup {None} /\ 0 \in 0..MaxPages /\ FALSE \in BOOLEAN
          BY <2>2, BoundsAssumption DEF Threads
        <5>3. phase' \in Phases /\ PagesFit' /\ phase'.at = "failed"
              /\ phase'.query = work[r].query /\ ~phase'.loadingMore
          BY <5>1, <5>2, AnswerForm, Zenon
        <5> QED BY <2>2, <5>1, <5>3
      <4>2. CASE ~work[r].restart
        <5>1. phase' = Pages(phase.pages, phase.hasMore, FALSE, TRUE) /\ KeepsOrCloses
          BY <2>3, <4>2 DEF Fail, KeepsOrCloses
        <5>2. phase.pages \in 0..MaxPages /\ phase.hasMore \in BOOLEAN /\ TRUE \in BOOLEAN
              /\ (phase.hasMore => phase.pages < MaxPages)
          BY <2>2 DEF Phases, PagesFit
        <5>3. phase' \in Phases /\ PagesFit' /\ phase'.at = phase.at
              /\ phase'.query = phase.query /\ phase'.date = phase.date /\ ~phase'.loadingMore
          BY <2>2, <5>1, <5>2, PagesForm, Zenon
        <5> QED BY <2>2, <4>2, <5>1, <5>3
      <4> QED BY <4>1, <4>2
    <3>2. kind = "review" /\ phase'.at \in {"ready", "empty"}
          => phase'.date = pinned' /\ pinned' # None
      BY <2>1, <2>3, <3>1 DEF AnswerIsCurrent, Asked
    <3> QED BY <1>1, <2>1, <2>2, <2>3, <3>1, <3>2, DeliveredKeeps
  <2>4. ASSUME NEW date \in AsOf(r), NEW more \in BOOLEAN,
               more => work[r].after + 1 < MaxPages,
               pinned \in {None, date}, pinned' = date,
               Continues(r, date), Accept(r, date, more)
        PROVE  IInv'
    <3>1. date \in Dates \cup {None} /\ (kind = "review" => date # None)
      BY <2>2, <2>4, QueriesAssumption DEF AsOf, Threads
    <3>2. /\ KeepsOrCloses /\ phase' \in Phases /\ PagesFit'
          /\ phase'.at \in {"ready", "empty"} /\ ~phase'.loadingMore
          /\ phase'.query = phase.query /\ phase'.date = date
      <4>1. CASE work[r].restart
        <5>1. /\ UNCHANGED <<open, slot>>
              /\ \/ phase' = Answer("ready", work[r].query, 1, more, date)
                 \/ phase' = Answer("empty", work[r].query, 0, FALSE, date)
          BY <2>4, <4>1 DEF Accept
        <5>2. /\ work[r].query \in Queries \cup {None}
              /\ 0 \in 0..MaxPages /\ 1 \in 0..MaxPages /\ FALSE \in BOOLEAN
              /\ more => 1 < MaxPages
          BY <2>2, <2>4, <4>1, BoundsAssumption DEF Threads
        <5>3. phase' \in Phases /\ PagesFit' /\ phase'.at \in {"ready", "empty"}
              /\ phase'.query = work[r].query /\ phase'.date = date /\ ~phase'.loadingMore
          <6>1. CASE phase' = Answer("ready", work[r].query, 1, more, date)
            BY <3>1, <5>2, <6>1, AnswerForm, ZenonT(60)
          <6>2. CASE phase' = Answer("empty", work[r].query, 0, FALSE, date)
            BY <3>1, <5>2, <6>2, AnswerForm, ZenonT(60)
          <6> QED BY <5>1, <6>1, <6>2
        <5> QED BY <2>2, <5>1, <5>3 DEF KeepsOrCloses
      <4>2. CASE ~work[r].restart
        <5>1. /\ UNCHANGED <<open, slot>> /\ phase' = Pages(phase.pages + 1, more, FALSE, phase.broken)
              /\ phase.at = "ready" /\ phase.pages = work[r].after /\ phase.date = date
          BY <2>4, <4>2 DEF Accept, Continues
        <5>2. phase.pages + 1 \in 0..MaxPages /\ phase.broken \in BOOLEAN
              /\ (more => phase.pages + 1 < MaxPages)
          BY <2>2, <2>4, <4>2, <5>1, BoundsAssumption DEF Phases
        <5>3. phase' \in Phases /\ PagesFit' /\ phase'.at = phase.at
              /\ phase'.query = phase.query /\ phase'.date = phase.date /\ ~phase'.loadingMore
          BY <2>2, <2>4, <5>1, <5>2, PagesForm, Zenon
        <5> QED BY <5>1, <5>3 DEF KeepsOrCloses
      <4> QED BY <4>1, <4>2
    <3> QED BY <1>1, <2>1, <2>4, <3>1, <3>2, DeliveredKeeps
  <2>5. CASE ~work[r].ok
    BY <1>3, <2>3, <2>5 DEF Deliver
  <2>6. CASE work[r].ok
    <3>1. PICK date \in AsOf(r), more \in BOOLEAN :
            /\ pinned' = IF pinned \in {None, date} THEN date ELSE pinned
            /\ more => work[r].after + 1 < MaxPages
            /\ IF pinned \in {None, date} /\ Continues(r, date)
               THEN Accept(r, date, more) ELSE Fail(r)
      BY <1>3, <2>6 DEF Deliver
    <3>2. CASE pinned \in {None, date} /\ Continues(r, date)
      BY <2>4, <3>1, <3>2
    <3>3. CASE ~(pinned \in {None, date} /\ Continues(r, date))
      <4>1. Fail(r)
        BY <3>1, <3>3
      <4>2. pinned' = pinned
        <5>1. CASE kind = "review" /\ ~work[r].restart
          <6>1. pinned # None
            BY <2>1, <2>2, <5>1 DEF Asked
          <6> QED BY <3>1, <6>1
        <5>2. CASE kind # "review"
          <6>1. date = None
            BY <5>2 DEF AsOf
          <6> QED BY <3>1, <6>1
        <5>3. CASE work[r].restart
          BY <3>1, <3>3, <5>3 DEF Continues
        <5> QED BY <5>1, <5>2, <5>3
      <4> QED BY <2>3, <4>1, <4>2
    <3> QED BY <3>2, <3>3
  <2> QED BY <2>5, <2>6
<1> QED BY <1>2, <1>3

-----------------------------------------------------------------------------
LEMMA InitInv ==
  ASSUME Init
  PROVE  IInv
<1> USE QueriesAssumption, BoundsAssumption DEF Init
<1>1. phase \in Phases /\ phase.at = "dormant" /\ ~phase.loadingMore /\ ~phase.hasMore
  BY DEF Shows, Answer, Phases
<1>2. work \in [Requests -> Threads]
      /\ \A r \in Requests : work[r].at = "none" /\ work[r].restart /\ work[r].after = 0
  <2>1. NoThread("none") \in Threads
    BY DEF NoThread, Threads
  <2> QED BY <2>1 DEF NoThread
<1>3. /\ linkWork \in [Links -> [at : {"none", "asking", "posted", "gone"},
                             task : {"none", "follow", "attachment", "preview"},
                             ok : BOOLEAN]]
      /\ preview \in [at : {"hidden", "loading", "ready"}, of : 0..MaxLinks]
      /\ preview.at = "hidden"
  BY DEF NoLink, Hidden
<1>4. TypeOK
  <2>1. serial \in 0..MaxRequests /\ link \in 0..MaxLinks
    OBVIOUS
  <2>2. slot \in (1..serial) \cup {None} /\ open \in SUBSET (1..serial)
    OBVIOUS
  <2>3. /\ kind \in Kinds /\ live \in BOOLEAN /\ loading \in BOOLEAN
        /\ input \in Queries /\ pinned \in Dates \cup {None}
        /\ linkPhase \in {"idle", "resolving", "notice"}
    OBVIOUS
  <2> QED BY <1>1, <1>2, <1>3, <2>1, <2>2, <2>3 DEF TypeOK
<1>5. ScreenInv
  BY <1>1, <1>2
     DEF ScreenInv, WorkFits, PagesFit, Asked, AnswerIsCurrent, Running, Requests
<1>6. LinkIsCurrent /\ SessionInv
  BY <1>3 DEF LinkIsCurrent, SessionInv, SessionsAreOwned, Rechecks
<1> QED BY <1>4, <1>5, <1>6 DEF IInv

LEMMA StutterKeeps ==
  ASSUME IInv, UNCHANGED vars
  PROVE  IInv'
<1>1. /\ UNCHANGED <<kind, live, serial, loading, slot, open, input, pinned, phase, work>>
      /\ UNCHANGED docs
  BY DEF vars
<1>2. TypeOK'
  BY <1>1 DEF IInv, TypeOK, docs
<1>3. LinkIsCurrent'
  BY <1>1, LinksKept DEF IInv
<1>4. ScreenInv' /\ SessionInv'
  BY <1>1, AnswersKept
<1> QED BY <1>2, <1>3, <1>4 DEF IInv

LEMMA InvInductive ==
  ASSUME IInv, [Next]_vars
  PROVE  IInv'
<1>1. CASE Reader
  <2>1. CASE \E query \in Queries : Type(query) \/ ActivateReview(query) \/ Explore(query)
    BY <2>1, TypeKeeps, ActivateReviewKeeps, ExploreKeeps
  <2>2. CASE Activate \/ LoadMore \/ Retry \/ Close
    BY <2>2, ActivateKeeps, LoadMoreKeeps, RetryKeeps, CloseKeeps
  <2>3. CASE LinkStep
    BY <2>3, LinkStepKeeps
  <2> QED BY <1>1, <2>1, <2>2, <2>3 DEF Reader, LinkStep
<1>2. ASSUME NEW r \in Requests, Thread(r)
      PROVE  IInv'
  BY <1>2, WakeKeeps, GetKeeps, OpenKeeps, PlaceKeeps, RecheckKeeps, AskKeeps, DeliverKeeps
     DEF Thread
<1>3. CASE \E l \in Links : LinkThread(l)
  BY <1>3, LinkStepKeeps DEF LinkStep
<1>4. CASE UNCHANGED vars
  BY <1>4, StutterKeeps
<1> QED BY <1>1, <1>2, <1>3, <1>4 DEF Next

THEOREM InvHolds == Spec => []IInv
<1>1. Init => IInv
  BY InitInv
<1>2. IInv /\ [Next]_vars => IInv'
  BY InvInductive
<1> QED BY <1>1, <1>2, PTL DEF Spec

(* Every variable of a screen keeps its type. *)
THEOREM TypeCorrect == Spec => []TypeOK
<1>1. IInv => TypeOK
  BY DEF IInv
<1> QED BY <1>1, InvHolds, PTL

(* What a live screen shows, is loading or appends belongs to what was
   last asked for, and whatever says it is loading has a thread that will
   answer it, in any order of threads and answers.                       *)
THEOREM ShownCurrent == Spec => []ShownIsCurrent
<1>1. IInv => ShownIsCurrent
  BY DEF IInv, ScreenInv, AnswerIsCurrent, LinkIsCurrent, ShownIsCurrent
<1> QED BY <1>1, InvHolds, PTL

(* Every open native session is kept by its screen or in the hands of a
   thread that will keep or close it.                                    *)
THEOREM SessionsOwned == Spec => []SessionsAreOwned
<1>1. IInv => SessionsAreOwned
  BY DEF IInv, SessionInv
<1> QED BY <1>1, InvHolds, PTL
=============================================================================
