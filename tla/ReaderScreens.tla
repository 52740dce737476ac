---------------------------- MODULE ReaderScreens ----------------------------
(***************************************************************************)
(* The state owners behind the reader's screens (ui/*State.kt).  Each owns *)
(* at most one native read session over one source generation, starts one  *)
(* thread per request, and lets the main thread show an answer only while  *)
(* the screen lives and the request is the latest one.  They differ in     *)
(* when a session is opened, kept and closed:                              *)
(*                                                                         *)
(*   "pages"     NotesInventoryState, GlossaryInventoryState and           *)
(*               DirectedRelationsState: one page stream, one request at a *)
(*               time                                                      *)
(*   "chooser"   RandomNoteState: as above, a single answer                *)
(*   "document"  DocumentReaderState: one read, then links and previews    *)
(*   "search"    CorpusSearchState: debounced, a newer query overtakes     *)
(*   "review"    GlossaryReviewState: as search, over one reference date   *)
(*   "explore"   ReaderExplorationState: a session per query, a newer lens *)
(*               closes the session of the earlier one                     *)
(*   "discover"  one section of ReaderDiscoveryState: a session per query, *)
(*               one query at a time (its two sections share nothing but   *)
(*               their end)                                                *)
(*                                                                         *)
(* A screen's kind is fixed in the initial state.  A session is named by   *)
(* the request that opened it.  What a page holds is its place in the      *)
(* order of the answer; the engine behind a session is external.           *)
(***************************************************************************)
EXTENDS Naturals

CONSTANTS Queries,      \* search texts, or exploration lenses
          Blank,        \* the empty text
          Dates,        \* reference dates of a review
          None,
          MaxRequests,  \* bound: requests of one screen
          MaxPages,     \* bound: pages of one answer
          MaxLinks      \* bound: links followed or previewed in one document

ASSUME QueriesAssumption ==
  Blank \in Queries /\ None \notin Queries \cup Dates \cup 1..MaxRequests
ASSUME BoundsAssumption ==
  MaxRequests \in Nat \ {0} /\ MaxPages \in Nat \ {0} /\ MaxLinks \in Nat

VARIABLES kind,     \* which of the state owners this is
          live,     \* not yet disposed
          serial,   \* the latest request
          loading,  \* a request of a one-at-a-time screen is out
          slot,     \* the session the owner keeps, or None
          open,     \* the sessions that are open in the native engine
          input,    \* what the reader last asked for
          pinned,   \* the reference date a review keeps
          phase,    \* what the screen shows
          work,     \* the thread of each request
          link,     \* the latest link request of a document
          linkWork, \* the thread of each link request
          linkPhase,
          preview

docs == <<link, linkWork, linkPhase, preview>>
vars == <<kind, live, serial, loading, slot, open, input, pinned, phase, work, docs>>

Kinds == {"pages", "chooser", "document", "search", "review", "explore", "discover"}
Debounced == {"search", "review"}
PerQuery == {"explore", "discover"}
OneAtATime == {"pages", "chooser", "discover"}

Requests == 1..MaxRequests
Links == 1..MaxLinks

Answer(at, query, pages, more, date) ==
  [at |-> at, query |-> query, pages |-> pages, hasMore |-> more,
   loadingMore |-> FALSE, broken |-> FALSE, date |-> date]
Shows(at, query) == Answer(at, query, 0, FALSE, None)
Pages(pages, more, loadingMore, broken) ==
  [at |-> phase.at, query |-> phase.query, pages |-> pages, hasMore |-> more,
   loadingMore |-> loadingMore, broken |-> broken, date |-> phase.date]
NoThread(at) == [at |-> at, query |-> None, after |-> 0, restart |-> TRUE,
                 asOf |-> None, session |-> None, ok |-> FALSE]
NoLink == [at |-> "none", task |-> "none", ok |-> FALSE]
Hidden == [at |-> "hidden", of |-> 0]

Running(r) == work[r].at \notin {"none", "gone"}

-----------------------------------------------------------------------------
(* The main thread: what the reader does.                                  *)

(* A request gets the next serial and a thread, unless one is out already  *)
(* on a screen that sends one at a time.                                   *)
Requested(query, after, restart, wait) ==
  IF kind \in OneAtATime /\ loading
  THEN UNCHANGED <<serial, loading, work>>
  ELSE /\ serial < MaxRequests
       /\ serial' = serial + 1
       /\ loading' = (kind \in OneAtATime)
       /\ work' = [work EXCEPT ![serial'] =
            [at |-> IF wait THEN "waiting" ELSE "getting", query |-> query, after |-> after,
             restart |-> restart, asOf |-> pinned', session |-> None, ok |-> FALSE]]

(* The first page, answer, document or section.                            *)
Activate ==
  /\ live /\ kind \in {"pages", "document", "chooser", "discover"}
  /\ phase.at = "dormant" \/ (kind = "chooser" /\ ~loading)
  /\ phase' = Shows("loading", None)
  /\ UNCHANGED pinned
  /\ Requested(None, 0, TRUE, FALSE)
  /\ UNCHANGED <<kind, live, slot, open, input, docs>>

(* Typing in a search field; a blank search asks for nothing, a blank      *)
(* review for everything that is due.                                      *)
Type(query) ==
  /\ live /\ kind \in Debounced
  /\ query # input
  /\ input' = query
  /\ UNCHANGED pinned
  /\ IF kind = "search" /\ query = Blank
     THEN /\ serial < MaxRequests /\ serial' = serial + 1
          /\ phase' = Shows("dormant", None)
          /\ UNCHANGED <<loading, work>>
     ELSE phase' = Shows("loading", query) /\ Requested(query, 0, TRUE, TRUE)
  /\ UNCHANGED <<kind, live, slot, open, docs>>

(* Entering the review asks anew, as of whatever day it is.                *)
ActivateReview(query) ==
  /\ live /\ kind = "review"
  /\ input' = query
  /\ pinned' = None
  /\ phase' = Shows("loading", query)
  /\ Requested(query, 0, TRUE, FALSE)
  /\ UNCHANGED <<kind, live, slot, open, docs>>

(* Choosing a lens, or asking the current one again: the session of the    *)
(* earlier lens is closed under its query.                                 *)
Explore(lens) ==
  /\ live /\ kind = "explore" /\ lens # Blank
  /\ phase.query # lens \/ phase.at # "loading"
  /\ input' = lens
  /\ open' = open \ {slot} /\ slot' = None
  /\ phase' = Shows("loading", lens)
  /\ UNCHANGED pinned
  /\ Requested(lens, 0, TRUE, FALSE)
  /\ UNCHANGED <<kind, live, docs>>

MutMayLoadMore == phase.at = "ready" /\ ~phase.loadingMore   \* mutant: past the end
MayLoadMore == phase.at = "ready" /\ phase.hasMore /\ ~phase.loadingMore

(* Another page, also after the last one could not be had.                 *)
LoadMore ==
  /\ live /\ kind \in {"pages", "search", "review"}
  /\ MayLoadMore
  /\ phase' = Pages(phase.pages, phase.hasMore, TRUE, FALSE)
  /\ UNCHANGED pinned
  /\ Requested(phase.query, phase.pages, FALSE, FALSE)
  /\ UNCHANGED <<kind, live, slot, open, input, docs>>

(* Asking again after a failure or, in a section, after any answer; a      *)
(* document closes the session that failed it first.                       *)
Retry ==
  /\ live
  /\ \/ phase.at = "failed" /\ kind # "explore"
     \/ phase.at \in {"ready", "empty"} /\ kind = "discover"
  /\ IF kind = "document" THEN open' = open \ {slot} /\ slot' = None
     ELSE UNCHANGED <<open, slot>>
  /\ phase' = Shows("loading", phase.query)
  /\ UNCHANGED pinned
  /\ Requested(phase.query, 0, TRUE, FALSE)
  /\ UNCHANGED <<kind, live, input, docs>>

(* Leaving the screen, or replacing its note or generation.                *)
Close ==
  /\ live
  /\ live' = FALSE
  /\ open' = open \ {slot} /\ slot' = None
  /\ preview' = Hidden
  /\ UNCHANGED <<kind, serial, loading, input, pinned, phase, work, link, linkWork, linkPhase>>

-----------------------------------------------------------------------------
(* The thread of a request.                                                *)

Moves(r, at) == work' = [work EXCEPT ![r].at = at]
Stands(r, at, session, ok) ==
  work' = [work EXCEPT ![r] =
    [at |-> at, query |-> @.query, after |-> @.after, restart |-> @.restart,
     asOf |-> @.asOf, session |-> session, ok |-> ok]]
Takes(r, at, session) == Stands(r, at, session, FALSE)
Posts(r, ok) == Stands(r, "posted", None, ok)
Ends(r) == work' = [work EXCEPT ![r] = NoThread("gone")]

(* After the debounce an overtaken request ends.                           *)
Wake(r) ==
  /\ work[r].at = "waiting"
  /\ IF live /\ serial = r THEN Moves(r, "getting") ELSE Ends(r)
  /\ UNCHANGED <<kind, live, serial, loading, slot, open, input, pinned, phase, docs>>

(* The kept session is used, or one is opened.                             *)
Get(r) ==
  /\ work[r].at = "getting"
  /\ IF slot # None /\ kind \notin PerQuery \cup {"document"}
     THEN Takes(r, "asking", slot)
     ELSE Moves(r, "opening")
  /\ UNCHANGED <<kind, live, serial, loading, slot, open, input, pinned, phase, docs>>

(* A session opens; a screen that is gone, or for a document or a lens a   *)
(* newer request, closes it at once.                                       *)
Open(r) ==
  /\ work[r].at = "opening"
  /\ \/ /\ live /\ (kind \in {"document", "explore"} => serial = r)
        /\ open' = open \cup {r}
        /\ Moves(r, "placing")
     \/ Posts(r, FALSE) /\ UNCHANGED open
  /\ UNCHANGED <<kind, live, serial, loading, slot, input, pinned, phase, docs>>

(* The session is kept if none is.  Otherwise it is closed again, and the  *)
(* request uses the kept one, or fails where every query has its own.      *)
Place(r) ==
  /\ work[r].at = "placing"
  /\ LET next == IF kind \in Debounced THEN "rechecking" ELSE "asking" IN
     IF slot = None
     THEN /\ slot' = r
          /\ Takes(r, next, r)
          /\ UNCHANGED open
     ELSE /\ open' = open \ {r}
          /\ IF kind \in PerQuery THEN Posts(r, FALSE)
             ELSE Takes(r, next, slot)
          /\ UNCHANGED slot
  /\ UNCHANGED <<kind, live, serial, loading, input, pinned, phase, docs>>

(* A search looks once more whether the screen was closed meanwhile.       *)
MutWithdrawn == FALSE   \* mutant: the second look is missing
Withdrawn == ~live

Recheck(r) ==
  /\ work[r].at = "rechecking"
  /\ IF Withdrawn
     THEN /\ Posts(r, FALSE)
          /\ IF slot = work[r].session
             THEN slot' = None /\ open' = open \ {slot}
             ELSE UNCHANGED <<slot, open>>
     ELSE Moves(r, "asking") /\ UNCHANGED <<slot, open>>
  /\ UNCHANGED <<kind, live, serial, loading, input, pinned, phase, docs>>

(* The engine answers a session that is open, or fails; a session of one   *)
(* query ends with it.                                                     *)
Ask(r) ==
  /\ work[r].at = "asking"
  /\ \E ok \in BOOLEAN : /\ ok => work[r].session \in open
                         /\ Posts(r, ok)
  /\ IF kind \in PerQuery
     THEN /\ open' = open \ {r}
          /\ slot' = IF slot = r THEN None ELSE slot
     ELSE UNCHANGED <<slot, open>>
  /\ UNCHANGED <<kind, live, serial, loading, input, pinned, phase, docs>>

-----------------------------------------------------------------------------
(* The main thread again: an answer arrives.                               *)

MutCurrent(r) == live   \* mutant: an overtaken answer is not dropped
Current(r) == live /\ serial = r

(* A failed first answer closes the kept session of a stream or a search;  *)
(* a failed continuation keeps what is shown.                              *)
Fail(r) ==
  IF work[r].restart
  THEN /\ phase' = Shows("failed", work[r].query)
       /\ IF kind \in {"pages", "chooser", "search", "review"}
          THEN open' = open \ {slot} /\ slot' = None
          ELSE UNCHANGED <<open, slot>>
  ELSE /\ phase' = Pages(phase.pages, phase.hasMore, FALSE, TRUE)
       /\ UNCHANGED <<open, slot>>

(* The date an answer of a review is as of.                                *)
AsOf(r) == IF kind # "review" THEN {None}
           ELSE IF work[r].asOf # None THEN {work[r].asOf} ELSE Dates

Accept(r, date, more) ==
  /\ UNCHANGED <<open, slot>>
  /\ IF work[r].restart
     THEN \/ phase' = Answer("ready", work[r].query, 1, more, date)
          \/ phase' = Answer("empty", work[r].query, 0, FALSE, date)
     ELSE phase' = Pages(phase.pages + 1, more, FALSE, phase.broken)

(* A continuation that does not continue what is shown is refused.         *)
Continues(r, date) ==
  work[r].restart \/ /\ phase.at = "ready" /\ phase.query = work[r].query
                     /\ phase.pages = work[r].after /\ phase.date = date

Deliver(r) ==
  /\ work[r].at = "posted"
  /\ Ends(r)
  /\ IF ~Current(r)
     THEN UNCHANGED <<loading, slot, open, pinned, phase>>
     ELSE /\ loading' = FALSE
          /\ IF ~work[r].ok THEN Fail(r) /\ UNCHANGED pinned
             ELSE \E date \in AsOf(r), more \in BOOLEAN :
                    /\ pinned' = IF pinned \in {None, date} THEN date ELSE pinned
                    /\ more => work[r].after + 1 < MaxPages
                    /\ IF pinned \in {None, date} /\ Continues(r, date)
                       THEN Accept(r, date, more) ELSE Fail(r)
  /\ UNCHANGED <<kind, live, serial, input, docs>>

-----------------------------------------------------------------------------
(* Links of a document that is shown: following one, opening an attachment *)
(* and previewing a note share one serial.                                 *)

StartLink(task) ==
  /\ live /\ kind = "document" /\ phase.at = "ready" /\ link < MaxLinks
  /\ link' = link + 1
  /\ linkWork' = [linkWork EXCEPT ![link'] = [at |-> "asking", task |-> task, ok |-> FALSE]]
  /\ linkPhase' = IF task = "preview" THEN "idle" ELSE "resolving"
  /\ preview' = IF task = "preview" THEN [at |-> "loading", of |-> link'] ELSE Hidden
  /\ UNCHANGED <<kind, live, serial, loading, slot, open, input, pinned, phase, work>>

(* Following and previewing ask the document's own session; an attachment  *)
(* is opened from the files of the generation.                             *)
AskLink(l) ==
  /\ linkWork[l].at = "asking"
  /\ \E ok \in BOOLEAN :
       /\ (ok /\ linkWork[l].task # "attachment") => slot \in open
       /\ linkWork' = [linkWork EXCEPT ![l] = [at |-> "posted", task |-> @.task, ok |-> ok]]
  /\ UNCHANGED <<kind, live, serial, loading, slot, open, input, pinned, phase, work,
                 link, linkPhase, preview>>

(* Success leaves or shows the preview; every other answer is a notice.    *)
DeliverLink(l) ==
  /\ linkWork[l].at = "posted"
  /\ linkWork' = [linkWork EXCEPT ![l].at = "gone"]
  /\ IF live /\ link = l
     THEN /\ linkPhase' = IF linkWork[l].ok THEN "idle" ELSE "notice"
          /\ preview' = IF linkWork[l].task = "preview"
                        THEN IF linkWork[l].ok THEN [at |-> "ready", of |-> l] ELSE Hidden
                        ELSE preview
     ELSE UNCHANGED <<linkPhase, preview>>
  /\ UNCHANGED <<kind, live, serial, loading, slot, open, input, pinned, phase, work, link>>

DismissNotice ==
  /\ live /\ linkPhase = "notice"
  /\ linkPhase' = "idle"
  /\ UNCHANGED <<kind, live, serial, loading, slot, open, input, pinned, phase, work,
                 link, linkWork, preview>>

(* Dismissing a preview, also one still loading, and opening one.          *)
EndPreview ==
  /\ live /\ preview # Hidden /\ link < MaxLinks
  /\ link' = link + 1
  /\ preview' = Hidden /\ linkPhase' = "idle"
  /\ UNCHANGED <<kind, live, serial, loading, slot, open, input, pinned, phase, work, linkWork>>

-----------------------------------------------------------------------------
Init ==
  /\ kind \in Kinds
  /\ live = TRUE /\ serial = 0 /\ loading = FALSE
  /\ slot = None /\ open = {}
  /\ input = Blank /\ pinned = None
  /\ phase = Shows("dormant", None)
  /\ work = [r \in Requests |-> NoThread("none")]
  /\ link = 0 /\ linkWork = [l \in Links |-> NoLink]
  /\ linkPhase = "idle" /\ preview = Hidden

Reader ==
  \/ Activate \/ LoadMore \/ Retry \/ Close \/ DismissNotice \/ EndPreview
  \/ \E query \in Queries : Type(query) \/ ActivateReview(query) \/ Explore(query)
  \/ \E task \in {"follow", "attachment", "preview"} : StartLink(task)

Thread(r) == Wake(r) \/ Get(r) \/ Open(r) \/ Place(r) \/ Recheck(r) \/ Ask(r) \/ Deliver(r)

LinkThread(l) == AskLink(l) \/ DeliverLink(l)

Next ==
  \/ Reader
  \/ \E r \in Requests : Thread(r)
  \/ \E l \in Links : LinkThread(l)

Spec == Init /\ [][Next]_vars

-----------------------------------------------------------------------------
Threads ==
  [at : {"none", "waiting", "getting", "opening", "placing", "rechecking",
         "asking", "posted", "gone"},
   query : Queries \cup {None}, after : 0..MaxPages, restart : BOOLEAN,
   asOf : Dates \cup {None}, session : Requests \cup {None}, ok : BOOLEAN]

Phases ==
  [at : {"dormant", "loading", "ready", "empty", "failed"},
   query : Queries \cup {None}, pages : 0..MaxPages, hasMore : BOOLEAN,
   loadingMore : BOOLEAN, broken : BOOLEAN, date : Dates \cup {None}]

(* Every variable stays in its domain; the session a screen keeps was      *)
(* opened by a request it made.                                            *)
TypeOK ==
  /\ kind \in Kinds /\ live \in BOOLEAN /\ loading \in BOOLEAN
  /\ serial \in 0..MaxRequests
  /\ slot \in (1..serial) \cup {None} /\ open \in SUBSET (1..serial)
  /\ input \in Queries /\ pinned \in Dates \cup {None}
  /\ phase \in Phases /\ work \in [Requests -> Threads]
  /\ link \in 0..MaxLinks
  /\ linkWork \in [Links -> [at : {"none", "asking", "posted", "gone"},
                             task : {"none", "follow", "attachment", "preview"},
                             ok : BOOLEAN]]
  /\ linkPhase \in {"idle", "resolving", "notice"}
  /\ preview \in [at : {"hidden", "loading", "ready"}, of : 0..MaxLinks]

(* What is shown belongs to what was last asked for, and a screen that     *)
(* says it is loading has the request that will answer: no answer of an    *)
(* overtaken query, lens, review date or link is shown or appended to      *)
(* newer rows, and no spinner is left without a thread behind it.  ("its   *)
(* late replies cannot enter the new inventory", doc/android.org:162;      *)
(* "neither a late answer nor a failure can replace the current lens",     *)
(* doc/android.org:266.)                                                   *)
ShownIsCurrent ==
  live =>
  /\ phase.at = "loading" =>
       Running(serial) /\ work[serial].restart /\ work[serial].query = phase.query
  /\ phase.loadingMore =>
       /\ Running(serial) /\ ~work[serial].restart
       /\ work[serial].query = phase.query /\ work[serial].after = phase.pages
  /\ (kind \in Debounced \cup {"explore"} /\ phase.at # "dormant") => phase.query = input
  /\ (kind = "review" /\ phase.at \in {"ready", "empty"}) => phase.date = pinned
  /\ linkPhase = "resolving" => linkWork[link].at \in {"asking", "posted"}
  /\ preview.at = "loading" => linkWork[link].at \in {"asking", "posted"} /\ preview.of = link
  /\ preview.at = "ready" => linkWork[link] = [at |-> "gone", task |-> "preview", ok |-> TRUE]

(* Every open session is the one the screen keeps, or in the hands of a    *)
(* request that will keep or close it, so nothing stays open once a search,*)
(* a review, a lens or a section was closed and its threads have ended.    *)
(* The page streams, the chooser and the document look for the end of the  *)
(* screen only before they keep a session and may be left with one.        *)
SessionsAreOwned ==
  \A s \in open :
    \/ work[s].at \in {"placing", "rechecking"} \/ (work[s].at = "asking" /\ kind \in PerQuery)
    \/ slot = s /\ (live \/ kind \in {"pages", "chooser", "document"})
=============================================================================
