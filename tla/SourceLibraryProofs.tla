------------------------ MODULE SourceLibraryProofs ------------------------
(***************************************************************************)
(* TLAPS proofs about SourceLibrary, for any sources, configurations and   *)
(* number of operations at once.                                           *)
(***************************************************************************)
EXTENDS SourceLibrary, TLAPS

CatalogFits(c) == c.active # None => c.entries[c.active] # None

(* TypeOK in two halves: the catalog and the operations on it, and the
   refreshes and what they fill.                                         *)
LibraryType ==
    /\ catalog \in Catalogs /\ CatalogFits(catalog)
    /\ pc \in [Threads ->
            {"idle", "refreshing", "verify", "load", "check", "rename",
             "recover", "withdraw", "purge", "secure", "settle", "done"}]
    /\ task \in [Threads -> Tasks]
    /\ \A t \in Threads : pc[t] \notin {"idle", "done"} => task[t].source # None
    /\ draft \in [Threads -> [base : Catalogs, checked : Nat]]
    /\ result \in [Threads -> Results \cup {None}]
    /\ cancelling \subseteq Threads /\ closed \subseteq Threads
    /\ fresh \subseteq Threads /\ wrote \subseteq Threads
    /\ doubtful \subseteq Sources /\ disputed \subseteq Sources
    /\ lost \in BOOLEAN

ScheduleType ==
    /\ scheduled \in Schedules
    /\ stop \in [Works -> {"none", "due", "told"}]
    /\ pending \subseteq Works \X Configs
    /\ reloads \in 0..MaxReloads

RefreshType ==
    /\ cache \in [Caches -> 0..MaxGeneration]
    /\ directory \subseteq Caches
    /\ \A k \in Caches : cache[k] # 0 => k \in directory
    /\ ScheduleType
    /\ flight \in [Sources -> Flights \cup {None}]
    /\ job \in [Runners -> Jobs]
    /\ runs \in 0..MaxRuns

LEMMA TypeHalves == TypeOK <=> LibraryType /\ RefreshType
BY DEF TypeOK, LibraryType, RefreshType, ScheduleType, CatalogFits

(* A job that flies has its flight, a thread with a job that runs waits for
   it, and a flight whose directory was not removed still has it.        *)
Running == {"registered", "resolved", "flying"}
FlightInv ==
    /\ \A r \in Runners : job[r].pc # "idle" => job[r].config \in Configs
    /\ \A r \in Runners : job[r].pc = "flying" => flight[SourceOf(r)] # None
    /\ \A t \in Threads : job[t].pc \in Running => pc[t] = "refreshing"
    /\ \A s \in Sources : flight[s] # None /\ ~flight[s].gone
                            => <<s, flight[s].config>> \in directory

(* How far an operation can be, for what it was asked to do. *)
KindFits(t) ==
    /\ pc[t] = "refreshing" => task[t].kind \in Imports
    /\ pc[t] = "verify" => task[t].kind \in Imports \cup {"select"}
    /\ pc[t] \in {"load", "check", "rename"} =>
          task[t].kind \in {"commit", "replace", "select", "remove"}
    /\ pc[t] = "recover" => task[t].kind = "commit"
    /\ pc[t] = "purge" => task[t].kind \in {"remove", "removeCache"}
    /\ pc[t] = "withdraw" => task[t].kind \in {"remove", "removeCache", "disconnect"}
    /\ pc[t] = "secure" => task[t].kind = "reconnect"

(* What it has loaded: a catalog whose revision save() has compared. *)
DraftFits(t) ==
    /\ pc[t] \in {"check", "rename"} =>
        /\ CatalogFits(draft[t].base)
        /\ task[t].kind = "select" => draft[t].base.entries[task[t].source] = task[t].config
    /\ pc[t] = "rename" => draft[t].checked = draft[t].base.revision

(* Only a removal goes on after it has renamed the file, and what is fresh
   has a readable generation.                                            *)
MarksFit(t) ==
    /\ t \in wrote => pc[t] \in {"purge", "settle"}
    /\ pc[t] = "purge" => (t \in wrote <=> task[t].kind = "remove")
    /\ t \in fresh => /\ pc[t] \in {"load", "check", "rename", "recover"}
                      /\ task[t].kind \in Imports \cup {"select"}
                      /\ cache[<<task[t].source, task[t].config>>] # 0

OperationFits(t) ==
    /\ pc[t] \notin {"idle", "done"} => task[t].source \in Sources /\ task[t].config \in Configs
    /\ KindFits(t) /\ DraftFits(t) /\ MarksFit(t)
OperationInv == \A t \in Threads : OperationFits(t)

(* Until a save overlaps another the revision tells the catalogs apart. *)
RevisionsTell ==
    ~lost => \A t \in Threads : pc[t] \in {"check", "rename"} =>
        /\ draft[t].base.revision <= catalog.revision
        /\ draft[t].base.revision = catalog.revision => draft[t].base = catalog

SavesInv == OperationInv /\ RevisionsTell /\ ListedIsReadable
IInv == TypeOK /\ FlightInv /\ SavesInv

-----------------------------------------------------------------------------
(* Frames: what a step leaves alone keeps its part of the invariant. *)

LEMMA SourceOfWork == \A w \in Works : w \in Runners /\ w \notin Threads /\ SourceOf(w) = w[2]
                                        /\ w[2] \in Sources
BY LibraryAssumption DEF Works, Runners, SourceOf

LEMMA SourceOfRunning ==
    ASSUME IInv, NEW r \in Runners, job[r].pc \in Running
    PROVE  SourceOf(r) \in Sources
BY SourceOfWork
   DEF IInv, FlightInv, SavesInv, OperationInv, OperationFits, SourceOf, Runners, Running

(* No cache is emptied. *)
CachesKept == \A k \in Caches : cache[k] # 0 => cache'[k] # 0

LEMMA LibraryKept ==
    ASSUME IInv, UNCHANGED libraryVars, CachesKept
    PROVE  LibraryType' /\ SavesInv'
<1>1. UNCHANGED <<catalog, pc, task, draft, result>>
      /\ UNCHANGED <<cancelling, closed, fresh, wrote, doubtful, disputed, lost>>
  BY DEF libraryVars, operation, ghosts
<1>2. LibraryType /\ LibraryType'
  BY <1>1, TypeHalves DEF IInv, LibraryType
<1>3. OperationInv'
  <2> SUFFICES ASSUME NEW t \in Threads
               PROVE  OperationFits(t)'
    BY DEF OperationInv
  <2>1. OperationFits(t)
    BY DEF IInv, SavesInv, OperationInv
  <2>2. MarksFit(t)'
    BY <1>1, <2>1 DEF OperationFits, MarksFit, CachesKept, Caches
  <2>3. KindFits(t)' /\ DraftFits(t)'
    BY <1>1, <2>1 DEF OperationFits, KindFits, DraftFits
  <2> QED BY <1>1, <2>1, <2>2, <2>3 DEF OperationFits
<1>4. RevisionsTell'
  BY <1>1 DEF IInv, SavesInv, RevisionsTell
<1>5. ListedIsReadable'
  <2>1. \A s \in Sources : catalog.entries[s] # None
                            => <<s, catalog.entries[s]>> \in Caches
    BY <1>2 DEF LibraryType, Catalogs, Records, Caches
  <2> QED BY <1>1, <2>1 DEF IInv, SavesInv, ListedIsReadable, CachesKept
<1> QED BY <1>2, <1>3, <1>4, <1>5 DEF SavesInv

LEMMA Together ==
    ASSUME LibraryType', RefreshType', FlightInv', SavesInv'
    PROVE  IInv'
BY TypeHalves DEF IInv, TypeOK, LibraryType, RefreshType, ScheduleType, CatalogFits

-----------------------------------------------------------------------------
(* The workers and the flights. *)

(* What a cancellation does to flights: it marks them. *)
Steered ==
    /\ flight' \in [Sources -> Flights \cup {None}]
    /\ \A s \in Sources : flight[s] = None => flight'[s] = None
    /\ \A s \in Sources : flight[s] # None =>
          /\ flight'[s] # None /\ flight'[s].config = flight[s].config
          /\ flight'[s].gone = flight[s].gone

LEMMA MarkSteers ==
    ASSUME RefreshType, NEW s \in Sources, flight[s] # None,
           flight' = [flight EXCEPT ![s].cancelled = TRUE]
    PROVE  Steered
<1>1. flight[s] \in Flights
  BY DEF RefreshType
<1>2. [flight[s] EXCEPT !.cancelled = TRUE] \in Flights
  BY <1>1 DEF Flights
<1>3. flight'[s] = [flight[s] EXCEPT !.cancelled = TRUE]
      /\ \A x \in Sources \ {s} : flight'[x] = flight[x]
  BY DEF RefreshType
<1>4. flight'[s].config = flight[s].config /\ flight'[s].gone = flight[s].gone
  BY <1>1, <1>3 DEF Flights
<1>5. flight' \in [Sources -> Flights \cup {None}]
  BY <1>2 DEF RefreshType
<1>6. flight'[s] # None
  BY <1>2, <1>3, LibraryAssumption DEF Flights
<1> QED BY <1>3, <1>4, <1>5, <1>6 DEF Steered

LEMMA SameSteers ==
    ASSUME RefreshType, flight' = flight
    PROVE  Steered
BY DEF RefreshType, Steered

LEMMA CancellingSteers ==
    ASSUME IInv, NEW s \in Sources, Cancelling(s)
    PROVE  Steered
<1>1. RefreshType
  BY TypeHalves DEF IInv
<1>2. CASE \E r \in Runners : SourceOf(r) = s /\ job[r].pc = "flying"
  <2>1. flight[s] # None
    BY <1>2 DEF IInv, FlightInv
  <2> QED BY <1>1, <1>2, <2>1, MarkSteers DEF Cancelling
<1>3. CASE ~\E r \in Runners : SourceOf(r) = s /\ job[r].pc = "flying"
  BY <1>1, <1>3, SameSteers DEF Cancelling
<1> QED BY <1>2, <1>3

(* One job moves; flights are at most marked. *)
LEMMA JobMoves ==
    ASSUME IInv, UNCHANGED <<libraryVars, cache>>, directory' \in SUBSET Caches,
           directory \subseteq directory',
           ScheduleType', runs' \in 0..MaxRuns,
           Steered, NEW r \in Runners, NEW j \in Jobs, job' = [job EXCEPT ![r] = j],
           j.pc # "idle" => j.config \in Configs,
           j.pc = "flying" => flight'[SourceOf(r)] # None,
           r \in Threads /\ j.pc \in Running => pc[r] = "refreshing"
    PROVE  IInv'
<1>1. LibraryType' /\ SavesInv'
  BY LibraryKept DEF CachesKept
<1>2. /\ job \in [Runners -> Jobs] /\ job'[r] = j
      /\ \A x \in Runners \ {r} : job'[x] = job[x]
      /\ job' \in [Runners -> Jobs]
  BY TypeHalves DEF IInv, RefreshType
<1>3. RefreshType'
  BY <1>2, TypeHalves DEF IInv, RefreshType, Steered
<1>4. \A x \in Runners : SourceOf(x)' = SourceOf(x)
  BY DEF SourceOf, libraryVars, operation
<1>5. FlightInv'
  <2>1. \A x \in Runners : job'[x].pc # "idle" => job'[x].config \in Configs
    BY <1>2 DEF IInv, FlightInv
  <2>2. \A x \in Runners : job'[x].pc = "flying" => flight'[SourceOf(x)] # None
    <3> SUFFICES ASSUME NEW x \in Runners, job'[x].pc = "flying", x # r
                 PROVE  flight'[SourceOf(x)] # None
      BY <1>2
    <3>1. job[x].pc = "flying" /\ SourceOf(x) \in Sources
      BY <1>2, SourceOfRunning DEF Running
    <3> QED BY <3>1 DEF IInv, FlightInv, Steered
  <2>3. \A t \in Threads : job'[t].pc \in Running => pc'[t] = "refreshing"
    BY <1>2 DEF IInv, FlightInv, Runners, libraryVars, operation
  <2>4. \A s \in Sources : flight'[s] # None /\ ~flight'[s].gone
                            => <<s, flight'[s].config>> \in directory'
    BY DEF IInv, FlightInv, Steered
  <2> QED BY <1>4, <2>1, <2>2, <2>3, <2>4 DEF FlightInv
<1> QED BY <1>1, <1>3, <1>5, Together

(* A step that leaves the schedule alone keeps its types. *)
LEMMA ScheduleSame ==
    ASSUME RefreshType, UNCHANGED <<scheduled, stop, pending, reloads>>
    PROVE  ScheduleType'
BY DEF RefreshType, ScheduleType

LEMMA StartWorkerKeeps ==
    ASSUME IInv, NEW w \in Works, StartWorker(w)
    PROVE  IInv'
<1> DEFINE j == [pc |-> "registered", config |-> scheduled[w], answer |-> Failed]
<1>1. RefreshType
  BY TypeHalves DEF IInv
<1>2. j \in Jobs /\ j.config \in Configs /\ j.pc = "registered"
  BY <1>1, LibraryAssumption
     DEF StartWorker, Jobs, RefreshType, ScheduleType, Schedules, Failed
<1>3. /\ UNCHANGED <<libraryVars, cache, directory, scheduled, stop, flight, pending, reloads>>
      /\ job' = [job EXCEPT ![w] = j] /\ runs' \in 0..MaxRuns
  BY <1>1, LibraryAssumption DEF StartWorker, fileVars, RefreshType
<1>4. w \in Runners /\ w \notin Threads
  BY SourceOfWork
<1>5. ScheduleType'
  BY <1>1, <1>3, ScheduleSame
<1> HIDE DEF j
<1> QED
  BY <1>1, <1>2, <1>3, <1>4, <1>5, SameSteers, JobMoves DEF RefreshType, Running

LEMMA StopWorkerKeeps ==
    ASSUME IInv, NEW w \in Works, StopWorker(w)
    PROVE  IInv'
<1> DEFINE s == w[2]
<1>1. RefreshType
  BY TypeHalves DEF IInv
<1>2. w \in Runners /\ w \notin Threads /\ SourceOf(w) = s /\ s \in Sources
  BY SourceOfWork
<1>3. flight' = IF job[w].pc = "flying" THEN [flight EXCEPT ![s].cancelled = TRUE] ELSE flight
  BY DEF StopWorker
<1> HIDE DEF s
<1>4. Steered
  <2>1. CASE job[w].pc = "flying"
    <3>1. flight[s] # None
      BY <1>2, <2>1 DEF IInv, FlightInv
    <3> QED BY <1>1, <1>2, <1>3, <2>1, <3>1, MarkSteers
  <2>2. CASE job[w].pc # "flying"
    BY <1>1, <1>3, <2>2, SameSteers
  <2> QED BY <2>1, <2>2
<1>5. job[w] \in Jobs /\ job' = [job EXCEPT ![w] = job[w]]
  BY <1>1, <1>2 DEF StopWorker, RefreshType
<1>6. /\ UNCHANGED <<libraryVars, cache, directory, scheduled, pending, reloads, runs>>
      /\ ScheduleType'
  BY <1>1 DEF StopWorker, fileVars, RefreshType, ScheduleType
<1>7. /\ job[w].pc # "idle" => job[w].config \in Configs
      /\ job[w].pc = "flying" => flight'[SourceOf(w)] # None
  BY <1>2, <1>4 DEF IInv, FlightInv, Steered
<1> QED BY <1>1, <1>2, <1>4, <1>5, <1>6, <1>7, JobMoves DEF RefreshType

LEMMA ResolveKeeps ==
    ASSUME IInv, NEW r \in Runners, Resolve(r)
    PROVE  IInv'
<1> DEFINE j == [job[r] EXCEPT !.pc = "resolved"]
<1>1. RefreshType
  BY TypeHalves DEF IInv
<1>2. job[r] \in Jobs /\ job[r].pc = "registered" /\ job[r].config \in Configs
      /\ SourceOf(r) \in Sources
  BY <1>1, SourceOfRunning DEF Resolve, RefreshType, IInv, FlightInv, Running
<1>3. j \in Jobs /\ j.config \in Configs /\ j.pc = "resolved"
  BY <1>2 DEF Jobs
<1>4. /\ UNCHANGED <<libraryVars, cache, scheduled, stop, flight, pending, reloads, runs>>
      /\ job' = [job EXCEPT ![r] = j]
      /\ directory' = directory \cup {<<SourceOf(r), job[r].config>>}
  BY <1>1 DEF Resolve, RefreshType
<1>5. directory' \in SUBSET Caches
  BY <1>1, <1>2, <1>4 DEF RefreshType, Caches
<1>6. r \in Threads => pc[r] = "refreshing"
  BY <1>2 DEF IInv, FlightInv, Running
<1> HIDE DEF j
<1> QED
  BY <1>1, <1>3, <1>4, <1>5, <1>6, SameSteers, ScheduleSame, JobMoves DEF RefreshType

LEMMA AdmitKeeps ==
    ASSUME IInv, NEW r \in Runners, Admit(r)
    PROVE  IInv'
<1> DEFINE s == SourceOf(r)
           c == job[r].config
           j == [job[r] EXCEPT !.pc = "flying"]
<1>1. RefreshType
  BY TypeHalves DEF IInv
<1>2. job[r] \in Jobs /\ job[r].pc = "resolved" /\ c \in Configs /\ s \in Sources
  BY <1>1, SourceOfRunning DEF Admit, RefreshType, IInv, FlightInv, Running
<1>3. j \in Jobs /\ j.config = c /\ j.pc = "flying"
  BY <1>2 DEF Jobs
<1>4. UNCHANGED <<libraryVars, cache, directory, runs>> /\ ScheduleType'
  BY <1>1, ScheduleSame DEF Admit, fileVars
<1>5. r \in Threads => pc[r] = "refreshing"
  BY <1>2 DEF IInv, FlightInv, Running
<1>6. \/ /\ flight[s] = None
         /\ flight' = [flight EXCEPT ![s] = [config |-> c, cancelled |-> FALSE,
                                             gone |-> <<s, c>> \notin directory]]
         /\ job' = [job EXCEPT ![r] = j]
      \/ flight[s] # None /\ flight' = flight /\ job' = [job EXCEPT ![r] = j]
      \/ /\ flight[s] # None /\ flight' = [flight EXCEPT ![s].cancelled = TRUE]
         /\ job' = [job EXCEPT ![r] = job[r]]
  BY <1>1 DEF Admit, RefreshType
<1> HIDE DEF j
<1>7. CASE flight[s] # None /\ flight' = flight /\ job' = [job EXCEPT ![r] = j]
  <2> HIDE DEF s, c
  <2>1. flight'[SourceOf(r)] # None
    BY <1>7 DEF s
  <2> QED BY <1>1, <1>2, <1>3, <1>4, <1>5, <1>7, <2>1, SameSteers, JobMoves DEF RefreshType
<1>8. CASE /\ flight[s] # None /\ flight' = [flight EXCEPT ![s].cancelled = TRUE]
           /\ job' = [job EXCEPT ![r] = job[r]]
  <2>1. Steered
    BY <1>1, <1>2, <1>8, MarkSteers
  <2> HIDE DEF s, c
  <2>2. job[r].config \in Configs /\ job[r].pc # "flying"
    BY <1>2 DEF c
  <2> QED BY <1>1, <1>2, <1>4, <1>5, <1>8, <2>1, <2>2, JobMoves DEF RefreshType
<1>9. CASE /\ flight[s] = None
           /\ flight' = [flight EXCEPT ![s] = [config |-> c, cancelled |-> FALSE,
                                               gone |-> <<s, c>> \notin directory]]
           /\ job' = [job EXCEPT ![r] = j]
  <2> DEFINE f == [config |-> c, cancelled |-> FALSE, gone |-> <<s, c>> \notin directory]
  <2>1. f \in Flights /\ f # None /\ f.config = c /\ (~f.gone => <<s, c>> \in directory)
    <3> DEFINE g == <<s, c>> \notin directory
    <3>1. g \in BOOLEAN /\ (~g => <<s, c>> \in directory)
      OBVIOUS
    <3> HIDE DEF g, s, c
    <3>2. f = [config |-> c, cancelled |-> FALSE, gone |-> g]
      BY DEF g
    <3> HIDE DEF f
    <3>3. f \in Flights /\ f.config = c /\ f.gone = g
      BY <1>2, <3>1, <3>2 DEF Flights
    <3> QED BY <3>1, <3>3, LibraryAssumption DEF Flights
  <2>0. flight' = [flight EXCEPT ![s] = f]
    BY <1>9
  <2> HIDE DEF f, s, c
  <2>2. /\ flight' \in [Sources -> Flights \cup {None}] /\ flight'[s] = f
        /\ \A x \in Sources \ {s} : flight'[x] = flight[x]
    BY <1>1, <1>2, <2>0, <2>1 DEF RefreshType
  <2>3. /\ job' \in [Runners -> Jobs] /\ job'[r] = j
        /\ \A x \in Runners \ {r} : job'[x] = job[x]
    BY <1>1, <1>3, <1>9 DEF RefreshType
  <2>4. LibraryType' /\ SavesInv'
    BY <1>4, LibraryKept DEF CachesKept
  <2>5. RefreshType'
    BY <1>1, <1>4, <2>2, <2>3 DEF RefreshType
  <2>6. \A x \in Runners : SourceOf(x)' = SourceOf(x)
    BY <1>4 DEF SourceOf, libraryVars, operation
  <2>7. FlightInv'
    <3>1. \A x \in Runners : job'[x].pc = "flying" => flight'[SourceOf(x)] # None
      <4> SUFFICES ASSUME NEW x \in Runners, job'[x].pc = "flying"
                   PROVE  flight'[SourceOf(x)] # None
        OBVIOUS
      <4>1. CASE x = r
        BY <2>1, <2>2, <4>1 DEF s
      <4>2. CASE x # r
        <5>1. job[x].pc = "flying" /\ SourceOf(x) \in Sources
          BY <2>3, <4>2, SourceOfRunning DEF Running
        <5> QED BY <1>9, <2>2, <5>1 DEF IInv, FlightInv
      <4> QED BY <4>1, <4>2
    <3>2. \A x \in Runners : job'[x].pc # "idle" => job'[x].config \in Configs
      BY <1>2, <1>3, <2>3 DEF IInv, FlightInv
    <3>3. \A t \in Threads : job'[t].pc \in Running => pc'[t] = "refreshing"
      BY <1>4, <1>5, <2>3 DEF IInv, FlightInv, Runners, libraryVars, operation
    <3>4. \A x \in Sources : flight'[x] # None /\ ~flight'[x].gone
                              => <<x, flight'[x].config>> \in directory'
      BY <1>4, <2>1, <2>2 DEF IInv, FlightInv
    <3> QED BY <2>6, <3>1, <3>2, <3>3, <3>4 DEF FlightInv
  <2> QED BY <2>4, <2>5, <2>7, Together
<1> QED BY <1>6, <1>7, <1>8, <1>9

LEMMA ReturnsEffect ==
    ASSUME ScheduleType, NEW s \in Sources, NEW answer, Returns(s, answer),
           UNCHANGED <<pending, reloads>>
    PROVE  ScheduleType'
<1>1. UNCHANGED scheduled \/ scheduled' = [scheduled EXCEPT ![<<"once", s>>] = None]
  BY DEF Returns
<1>2. scheduled' \in Schedules
  BY <1>1 DEF ScheduleType, Schedules
<1>3. stop' \in [Works -> {"none", "due", "told"}]
  BY DEF Returns, ScheduleType
<1> QED BY <1>2, <1>3 DEF ScheduleType

LEMMA LandKeeps ==
    ASSUME IInv, NEW s \in Sources, Land(s)
    PROVE  IInv'
<1> DEFINE c == flight[s].config
<1>1. RefreshType
  BY TypeHalves DEF IInv
<1>2. flight[s] \in Flights /\ flight[s] # None /\ c \in Configs
  BY <1>1 DEF Land, RefreshType, Flights
<1>3. UNCHANGED <<libraryVars, directory, pending, reloads, runs>>
      /\ flight' = [flight EXCEPT ![s] = None]
  BY DEF Land
<1>4. PICK answer \in 0..Cancelled :
        /\ job' = [r \in Runners |->
                    IF SourceOf(r) = s /\ job[r].pc = "flying"
                    THEN IF r \in Works THEN NoJob
                         ELSE [pc |-> "answered", config |-> c, answer |-> answer]
                    ELSE job[r]]
        /\ \/ UNCHANGED cache
           \/ /\ ~flight[s].gone /\ answer \in {cache[<<s, c>>], cache[<<s, c>>] + 1}
              /\ answer \notin {0, Cancelled}
              /\ cache' = [cache EXCEPT ![<<s, c>>] = answer]
        /\ Returns(s, answer)
  BY DEF Land, Published
<1> HIDE DEF c
<1>5. answer \in 0..MaxGeneration + 1
  BY <1>4, LibraryAssumption DEF Cancelled
<1>6. /\ cache' \in [Caches -> 0..MaxGeneration] /\ CachesKept
      /\ \A k \in Caches : cache'[k] # 0 => k \in directory
  <2>1. CASE UNCHANGED cache
    BY <1>1, <2>1 DEF RefreshType, CachesKept
  <2>2. CASE /\ ~flight[s].gone /\ answer \notin {0, Cancelled}
             /\ cache' = [cache EXCEPT ![<<s, c>>] = answer]
    <3>1. <<s, c>> \in directory /\ <<s, c>> \in Caches
      BY <1>2, <2>2 DEF IInv, FlightInv, c, Caches
    <3>2. answer \in 0..MaxGeneration /\ answer # 0
      BY <1>5, <2>2, LibraryAssumption DEF Cancelled
    <3> QED BY <1>1, <2>2, <3>1, <3>2 DEF RefreshType, CachesKept
  <2> QED BY <1>4, <2>1, <2>2
<1>7. LibraryType' /\ SavesInv'
  BY <1>3, <1>6, LibraryKept
<1>8. /\ flight' \in [Sources -> Flights \cup {None}] /\ flight'[s] = None
      /\ \A x \in Sources \ {s} : flight'[x] = flight[x]
  BY <1>1, <1>3 DEF RefreshType
<1>9. \A r \in Runners :
        \/ job'[r] \in Jobs /\ job'[r].pc \in {"idle", "answered"}
           /\ (job'[r].pc # "idle" => job'[r].config \in Configs)
        \/ ~(SourceOf(r) = s /\ job[r].pc = "flying") /\ job'[r] = job[r]
  BY <1>2, <1>4, <1>5, LibraryAssumption DEF NoJob, Jobs
<1>10. job' \in [Runners -> Jobs]
  BY <1>1, <1>4, <1>9 DEF RefreshType
<1>11. RefreshType'
  <2>1. ScheduleType'
    BY <1>1, <1>3, <1>4, ReturnsEffect DEF RefreshType
  <2> QED BY <1>1, <1>3, <1>6, <1>8, <1>10, <2>1 DEF RefreshType
<1>12. \A x \in Runners : SourceOf(x)' = SourceOf(x)
  BY <1>3 DEF SourceOf, libraryVars, operation
<1>13. FlightInv'
  <2>1. \A x \in Runners : job'[x].pc = "flying" => flight'[SourceOf(x)] # None
    <3> SUFFICES ASSUME NEW x \in Runners, job'[x].pc = "flying"
                 PROVE  flight'[SourceOf(x)] # None
      OBVIOUS
    <3>1. job[x].pc = "flying" /\ SourceOf(x) # s
      BY <1>9
    <3>2. SourceOf(x) \in Sources
      BY <3>1, SourceOfRunning DEF Running
    <3> QED BY <1>8, <3>1, <3>2 DEF IInv, FlightInv
  <2>2. \A x \in Runners : job'[x].pc # "idle" => job'[x].config \in Configs
    BY <1>9 DEF IInv, FlightInv
  <2>3. \A t \in Threads : job'[t].pc \in Running => pc'[t] = "refreshing"
    BY <1>3, <1>9 DEF IInv, FlightInv, Runners, Running, libraryVars, operation
  <2>4. \A x \in Sources : flight'[x] # None /\ ~flight'[x].gone
                            => <<x, flight'[x].config>> \in directory'
    BY <1>3, <1>8 DEF IInv, FlightInv
  <2> QED BY <1>12, <2>1, <2>2, <2>3, <2>4 DEF FlightInv
<1> QED BY <1>7, <1>11, <1>13, Together

(* A step that only reschedules work, or nothing at all. *)
LEMMA ScheduleKeeps ==
    ASSUME IInv, UNCHANGED <<catalog, operation, doubtful, lost, fileVars, flight, job>>,
           ScheduleType', runs' \in 0..MaxRuns, disputed' \subseteq Sources
    PROVE  IInv'
<1>1. LibraryType'
  BY TypeHalves DEF IInv, LibraryType, operation
<1>2. OperationInv'
  BY DEF IInv, SavesInv, OperationInv, OperationFits, KindFits, DraftFits, MarksFit,
         operation, fileVars
<1>3. RevisionsTell' /\ ListedIsReadable'
  BY DEF IInv, SavesInv, RevisionsTell, ListedIsReadable, operation, fileVars
<1>4. RefreshType'
  BY TypeHalves DEF IInv, RefreshType, fileVars
<1>5. \A x \in Runners : SourceOf(x)' = SourceOf(x)
  BY DEF SourceOf, operation
<1>6. FlightInv'
  BY <1>5 DEF IInv, FlightInv, fileVars, operation
<1> QED BY <1>1, <1>2, <1>3, <1>4, <1>6, Together DEF SavesInv

(* Scheduling gives lanes of the source, but for a one-shot record kept, the
   configuration.                                                           *)
LEMMA SchedulingEffect ==
    ASSUME ScheduleType, NEW s \in Sources, NEW c \in Configs \cup {None},
           NEW lanes \in SUBSET Lanes, Scheduling(lanes, s, c)
    PROVE  /\ scheduled' \in Schedules
           /\ \A w \in Works : w[2] # s => scheduled'[w] = scheduled[w]
           /\ \A w \in Works : scheduled'[w] \in {scheduled[w], c}
<1>1. scheduled' = [w \in Works |-> IF w \in lanes \X {s} /\ ~Keeps(w) THEN c ELSE scheduled[w]]
  BY DEF Scheduling
<1>2. \A w \in Works : scheduled'[w] = IF w \in lanes \X {s} /\ ~Keeps(w) THEN c ELSE scheduled[w]
  BY <1>1
<1>3. scheduled' \in Schedules
  BY <1>1 DEF ScheduleType, Schedules
<1>4. \A w \in Works : w[2] # s => w \notin lanes \X {s}
  OBVIOUS
<1> QED BY <1>2, <1>3, <1>4

LEMMA StartupKeeps ==
    ASSUME IInv, NEW w \in Works, NEW c \in Configs, Startup(w, c)
    PROVE  IInv'
<1>1. RefreshType /\ LibraryType
  BY TypeHalves DEF IInv
<1>2. Scheduling({w[1]}, w[2], c) /\ pending' \subseteq pending
      /\ UNCHANGED <<libraryVars, fileVars, stop, flight, job, reloads, runs>>
  BY DEF Startup
<1>3. w[2] \in Sources /\ {w[1]} \in SUBSET Lanes
  BY DEF Works
<1>4. scheduled' \in Schedules
  BY <1>1, <1>2, <1>3, SchedulingEffect DEF RefreshType
<1>5. ScheduleType'
  BY <1>1, <1>2, <1>4 DEF RefreshType, ScheduleType
<1> QED BY <1>1, <1>2, <1>5, ScheduleKeeps DEF RefreshType, LibraryType, libraryVars, ghosts

(* What a reload adds lists the catalog. *)
LEMMA ReloadEffect ==
    ASSUME LibraryType, Reload
    PROVE  \E connected \in SUBSET Sources :
             /\ \A p \in pending' \ pending : /\ p[1] \in Works /\ p[1][2] \in connected
                                            /\ p = <<p[1], catalog.entries[p[1][2]]>>
                                            /\ catalog.entries[p[1][2]] \in Configs
             /\ disputed' = disputed \cup
                   {s \in connected : \E t \in Threads : task[t].source = s}
<1>1. PICK connected \in SUBSET {s \in Sources : catalog.entries[s] # None} :
        /\ \E first \in SUBSET connected, before \in {pending, {}} :
            pending' = before \cup
                 {<<w, catalog.entries[w[2]]>> :
                    w \in ({"periodic"} \X connected) \cup ({"once"} \X first)}
        /\ disputed' = disputed \cup
             {s \in connected : \E t \in Threads : task[t].source = s}
  BY DEF Reload
<1>2. PICK first \in SUBSET connected, before \in {pending, {}} :
        pending' = before \cup
             {<<w, catalog.entries[w[2]]>> :
                w \in ({"periodic"} \X connected) \cup ({"once"} \X first)}
  BY <1>1
<1>3. connected \in SUBSET Sources
  OBVIOUS
<1>4. \A w \in ({"periodic"} \X connected) \cup ({"once"} \X first) :
        w \in Works /\ w[2] \in connected
  BY <1>3 DEF Works, Lanes
<1>5. \A s \in connected : catalog.entries[s] \in Configs
  BY DEF LibraryType, Catalogs, Records
<1>6. \A p \in pending' \ pending : /\ p[1] \in Works /\ p[1][2] \in connected
                                 /\ p = <<p[1], catalog.entries[p[1][2]]>>
                                 /\ catalog.entries[p[1][2]] \in Configs
  <2> SUFFICES ASSUME NEW p \in pending' \ pending
               PROVE  /\ p[1] \in Works /\ p[1][2] \in connected
                      /\ p = <<p[1], catalog.entries[p[1][2]]>>
                      /\ catalog.entries[p[1][2]] \in Configs
    OBVIOUS
  <2>1. PICK w \in ({"periodic"} \X connected) \cup ({"once"} \X first) :
          p = <<w, catalog.entries[w[2]]>>
    BY <1>2
  <2>2. w \in Works /\ w[2] \in connected
    BY <1>4
  <2>3. p[1] = w
    BY <2>1
  <2> QED BY <1>5, <2>1, <2>2, <2>3
<1> QED BY <1>1, <1>3, <1>6

LEMMA ReloadKeeps ==
    ASSUME IInv, Reload
    PROVE  IInv'
<1>1. RefreshType /\ LibraryType
  BY TypeHalves DEF IInv
<1>2. PICK connected \in SUBSET Sources :
        /\ \A p \in pending' \ pending : /\ p[1] \in Works /\ p[1][2] \in connected
                                       /\ p = <<p[1], catalog.entries[p[1][2]]>>
                                       /\ catalog.entries[p[1][2]] \in Configs
        /\ disputed' = disputed \cup {s \in connected : \E t \in Threads : task[t].source = s}
  BY <1>1, ReloadEffect
<1>3. UNCHANGED <<catalog, operation, doubtful, lost, fileVars, scheduled, stop, flight, job, runs>>
      /\ reloads' \in 0..MaxReloads
  BY <1>1, LibraryAssumption DEF Reload, RefreshType, ScheduleType
<1>4. pending' \subseteq Works \X Configs
  <2> SUFFICES ASSUME NEW p \in pending', p \notin pending
               PROVE  p \in Works \X Configs
    BY <1>1 DEF RefreshType, ScheduleType
  <2> QED BY <1>2
<1>5. disputed' \subseteq Sources
  BY <1>1, <1>2 DEF LibraryType
<1>6. ScheduleType'
  BY <1>1, <1>3, <1>4 DEF RefreshType, ScheduleType
<1> QED BY <1>1, <1>3, <1>5, <1>6, ScheduleKeeps DEF RefreshType

-----------------------------------------------------------------------------
(* The operations.  A step of one of them leaves the others alone. *)
Alone(t) ==
    \A x \in Threads \ {t} :
        /\ pc'[x] = pc[x] /\ task'[x] = task[x] /\ draft'[x] = draft[x]
        /\ x \in fresh' <=> x \in fresh
        /\ x \in wrote' <=> x \in wrote

LEMMA FlightsSteered ==
    ASSUME IInv, Steered, UNCHANGED fileVars,
           ScheduleType', runs' \in 0..MaxRuns,
           NEW t \in Threads, Alone(t), NEW j \in Jobs, job' = [job EXCEPT ![t] = j],
           j.pc # "idle" => j.config \in Configs,
           j.pc \in Running => pc'[t] = "refreshing",
           j.pc = "flying" => job[t].pc = "flying" /\ task'[t] = task[t]
    PROVE  RefreshType' /\ FlightInv'
<1>1. /\ t \in Runners /\ job'[t] = j
      /\ \A x \in Runners \ {t} : job'[x] = job[x]
      /\ job' \in [Runners -> Jobs]
  BY TypeHalves, LibraryAssumption DEF IInv, RefreshType, Runners
<1>2. RefreshType'
  BY <1>1, TypeHalves DEF IInv, RefreshType, Steered, fileVars
<1>3. \A x \in Runners : job'[x].pc = "flying" => flight'[SourceOf(x)'] # None
  <2> SUFFICES ASSUME NEW x \in Runners, job'[x].pc = "flying"
               PROVE  flight'[SourceOf(x)'] # None
    OBVIOUS
  <2>1. job[x].pc = "flying"
    BY <1>1
  <2>2. SourceOf(x)' = SourceOf(x)
    BY <1>1 DEF SourceOf, Runners, Alone
  <2>3. SourceOf(x) \in Sources
    BY <2>1, SourceOfRunning DEF Running
  <2> QED BY <2>1, <2>2, <2>3 DEF IInv, FlightInv, Steered
<1>4. \A x \in Runners : job'[x].pc # "idle" => job'[x].config \in Configs
  BY <1>1 DEF IInv, FlightInv
<1>5. \A x \in Threads : job'[x].pc \in Running => pc'[x] = "refreshing"
  BY <1>1 DEF IInv, FlightInv, Runners, Alone
<1>6. \A s \in Sources : flight'[s] # None /\ ~flight'[s].gone
                          => <<s, flight'[s].config>> \in directory'
  BY DEF IInv, FlightInv, Steered, fileVars
<1> QED BY <1>2, <1>3, <1>4, <1>5, <1>6 DEF FlightInv

(* The job of a thread that has stopped running lets it move on. *)
LEMMA FlightsKept ==
    ASSUME IInv, UNCHANGED <<refreshVars, fileVars>>, NEW t \in Threads,
           pc[t] # "refreshing" \/ job[t].pc = "answered", Alone(t)
    PROVE  RefreshType' /\ FlightInv'
<1>1. RefreshType /\ t \in Runners /\ job[t] \in Jobs
  BY TypeHalves DEF IInv, RefreshType, Runners
<1>2. UNCHANGED <<fileVars, flight, runs>> /\ ScheduleType'
      /\ job' = [job EXCEPT ![t] = job[t]]
  BY <1>1, ScheduleSame DEF refreshVars, RefreshType
<1>3. job[t].pc \notin Running /\ (job[t].pc # "idle" => job[t].config \in Configs)
  BY <1>1 DEF IInv, FlightInv, Running
<1> QED BY <1>1, <1>2, <1>3, SameSteers, FlightsSteered DEF RefreshType, Running

(* A step that leaves the catalog and the caches alone. *)
LEMMA QuietStep ==
    ASSUME IInv, UNCHANGED <<catalog, doubtful, lost, cache>>, NEW t \in Threads, Alone(t),
           OperationFits(t)',
           pc'[t] \in {"check", "rename"} /\ ~lost =>
                /\ draft'[t].base.revision <= catalog.revision
                /\ draft'[t].base.revision = catalog.revision => draft'[t].base = catalog
    PROVE  SavesInv'
<1>1. OperationInv'
  <2> SUFFICES ASSUME NEW x \in Threads \ {t}
               PROVE  OperationFits(x)'
    BY DEF OperationInv
  <2>1. OperationFits(x)
    BY DEF IInv, SavesInv, OperationInv
  <2> QED BY <2>1 DEF Alone, OperationFits, KindFits, DraftFits, MarksFit
<1>2. RevisionsTell'
  BY DEF IInv, SavesInv, RevisionsTell, Alone
<1>3. ListedIsReadable'
  BY DEF IInv, SavesInv, ListedIsReadable
<1> QED BY <1>1, <1>2, <1>3 DEF SavesInv

At == {"idle", "refreshing", "verify", "load", "check", "rename",
       "recover", "withdraw", "purge", "secure", "settle", "done"}

LEMMA MovesEffect ==
    ASSUME LibraryType, NEW t \in Threads, NEW at \in At, Moves(t, at)
    PROVE  /\ pc' \in [Threads -> At] /\ pc'[t] = at
           /\ \A x \in Threads \ {t} : pc'[x] = pc[x]
BY DEF LibraryType, At, Moves

LEMMA GoesEffect ==
    ASSUME IInv, NEW t \in Threads, NEW at \in At, Goes(t, at), pc[t] \notin {"idle", "done"},
           UNCHANGED <<catalog, doubtful, lost>>, disputed' \subseteq Sources
    PROVE  LibraryType' /\ Alone(t) /\ pc'[t] = at
<1>1. LibraryType
  BY TypeHalves DEF IInv
<1>2. /\ pc' \in [Threads -> At] /\ pc'[t] = at
      /\ \A x \in Threads \ {t} : pc'[x] = pc[x]
      /\ UNCHANGED <<task, draft, result, cancelling, closed, fresh, wrote>>
  BY <1>1, MovesEffect DEF Goes
<1>3. LibraryType'
  BY <1>1, <1>2 DEF LibraryType, At
<1> QED BY <1>2, <1>3 DEF Alone

LEMMA ReportsEffect ==
    ASSUME IInv, NEW t \in Threads, NEW answer \in Results, Reports(t, answer),
           pc[t] \notin {"idle", "done"}
    PROVE  /\ pc' \in [Threads -> At] /\ pc'[t] = "settle"
           /\ draft' \in [Threads -> [base : Catalogs, checked : Nat]]
           /\ \A x \in Threads \ {t} : /\ pc'[x] = pc[x] /\ draft'[x] = draft[x]
                                       /\ x \in fresh' <=> x \in fresh
           /\ result' \in [Threads -> Results \cup {None}]
           /\ fresh' \subseteq Threads /\ t \notin fresh'
           /\ UNCHANGED <<task, cancelling, closed>>
<1>1. LibraryType
  BY TypeHalves DEF IInv
<1>2. NoDraft \in [base : Catalogs, checked : Nat]
  BY DEF NoDraft, NoCatalog, Catalogs, Records
<1>3. pc' \in [Threads -> At] /\ pc'[t] = "settle"
      /\ \A x \in Threads \ {t} : pc'[x] = pc[x]
  BY <1>1, MovesEffect DEF Reports, At
<1>4. draft' \in [Threads -> [base : Catalogs, checked : Nat]]
      /\ \A x \in Threads \ {t} : draft'[x] = draft[x]
  BY <1>1, <1>2 DEF LibraryType, Reports
<1>5. result' \in [Threads -> Results \cup {None}]
  BY <1>1 DEF LibraryType, Reports
<1> QED BY <1>1, <1>3, <1>4, <1>5 DEF LibraryType, Reports

LEMMA EndsEffect ==
    ASSUME IInv, NEW t \in Threads, NEW answer \in Results, Ends(t, answer),
           pc[t] \notin {"idle", "done"}, UNCHANGED <<catalog, doubtful, lost, cache>>,
           disputed' \subseteq Sources
    PROVE  LibraryType' /\ Alone(t) /\ SavesInv'
<1>1. LibraryType
  BY TypeHalves DEF IInv
<1>2. /\ pc' \in [Threads -> At] /\ pc'[t] = "settle"
      /\ draft' \in [Threads -> [base : Catalogs, checked : Nat]]
      /\ \A x \in Threads \ {t} : /\ pc'[x] = pc[x] /\ draft'[x] = draft[x]
                                  /\ x \in fresh' <=> x \in fresh
      /\ result' \in [Threads -> Results \cup {None}]
      /\ fresh' \subseteq Threads /\ t \notin fresh'
      /\ UNCHANGED <<task, cancelling, closed, wrote>>
  BY ReportsEffect DEF Ends
<1>3. LibraryType'
  BY <1>1, <1>2 DEF LibraryType, At
<1>4. Alone(t)
  BY <1>2 DEF Alone
<1>5. OperationFits(t)'
  BY <1>2 DEF IInv, SavesInv, OperationInv, OperationFits, KindFits, DraftFits, MarksFit
<1>6. SavesInv'
  BY <1>2, <1>4, <1>5, QuietStep
<1> QED BY <1>3, <1>4, <1>6

(* An operation that ends without touching a flight. *)
LEMMA EndsKeeps ==
    ASSUME IInv, NEW t \in Threads, NEW answer \in Results, Ends(t, answer),
           pc[t] \notin {"idle", "done"}, pc[t] # "refreshing" \/ job[t].pc = "answered",
           UNCHANGED <<catalog, ghosts, refreshVars, fileVars>>
    PROVE  IInv'
<1>1. disputed' \subseteq Sources
  BY TypeHalves DEF IInv, LibraryType, ghosts
<1>2. LibraryType' /\ Alone(t) /\ SavesInv'
  BY <1>1, EndsEffect DEF fileVars, ghosts
<1> QED BY <1>2, FlightsKept, Together

(* An operation that goes on to a step of its kind, with what it has. *)
LEMMA GoesKeeps ==
    ASSUME IInv, NEW t \in Threads, NEW at \in {"verify", "recover"}, Goes(t, at),
           at = "verify" => /\ pc[t] = "refreshing" /\ job[t].pc = "answered",
           at = "recover" => pc[t] \in {"load", "check"} /\ task[t].kind = "commit",
           UNCHANGED <<catalog, ghosts, refreshVars, fileVars>>
    PROVE  IInv'
<1>0. disputed' \subseteq Sources
  BY TypeHalves DEF IInv, LibraryType, ghosts
<1>1. LibraryType' /\ Alone(t) /\ pc'[t] = at
  BY <1>0, GoesEffect DEF At, ghosts
<1>2. OperationFits(t)'
  BY <1>1 DEF IInv, SavesInv, OperationInv, OperationFits, KindFits, DraftFits, MarksFit,
              Goes, fileVars
<1>3. SavesInv'
  BY <1>1, <1>2, QuietStep DEF ghosts, fileVars
<1> QED BY <1>1, <1>3, FlightsKept, Together

LEMMA TerminalKeeps ==
    ASSUME IInv, NEW t \in Threads, Terminal(t)
    PROVE  IInv'
<1>1. pc[t] = "refreshing" /\ job[t].pc = "answered"
      /\ UNCHANGED <<catalog, ghosts, refreshVars, fileVars>>
  BY DEF Terminal, Is
<1>2. Ends(t, "cancelled") \/ Ends(t, "failed") \/ Goes(t, "verify")
  BY DEF Terminal
<1> QED BY <1>1, <1>2, EndsKeeps, GoesKeeps DEF Results

LEMMA VerifyKeeps ==
    ASSUME IInv, NEW t \in Threads, Verify(t)
    PROVE  IInv'
<1>1. pc[t] = "verify" /\ UNCHANGED <<catalog, ghosts, refreshVars, fileVars>>
  BY DEF Verify, Is
<1>2. CASE Ends(t, "failed")
  BY <1>1, <1>2, EndsKeeps DEF Results
<1>3. CASE ~Ends(t, "failed")
  <2>1. Verified(t) /\ Moves(t, "load") /\ fresh' = fresh \cup {t}
        /\ UNCHANGED <<task, draft, result, cancelling, closed, wrote>>
    BY <1>3 DEF Verify
  <2>2. LibraryType
    BY TypeHalves DEF IInv
  <2>3. /\ pc' \in [Threads -> At] /\ pc'[t] = "load"
        /\ \A x \in Threads \ {t} : pc'[x] = pc[x]
    BY <2>1, <2>2, MovesEffect DEF At
  <2>4. LibraryType' /\ Alone(t)
    BY <1>1, <2>1, <2>2, <2>3 DEF LibraryType, At, ghosts, Alone
  <2>5. OperationFits(t)'
    BY <1>1, <2>1, <2>3 DEF IInv, SavesInv, OperationInv, OperationFits, KindFits,
                            DraftFits, MarksFit, Verified, fileVars, Imports
  <2>6. SavesInv'
    BY <1>1, <2>3, <2>4, <2>5, QuietStep DEF ghosts, fileVars
  <2> QED BY <1>1, <2>4, <2>6, FlightsKept, Together
<1> QED BY <1>2, <1>3

LEMMA RecoverKeeps ==
    ASSUME IInv, NEW t \in Threads, Recover(t)
    PROVE  IInv'
<1>1. pc[t] = "recover" /\ UNCHANGED <<catalog, ghosts, refreshVars, fileVars>>
      /\ (Ends(t, "ready") \/ Ends(t, "conflict"))
  BY DEF Recover, Is
<1> QED BY <1>1, EndsKeeps DEF Results

LEMMA PurgeEndsKeeps ==
    ASSUME IInv, NEW t \in Threads, PurgeEnds(t)
    PROVE  IInv'
<1>1. pc[t] = "purge" /\ UNCHANGED <<catalog, ghosts, refreshVars, fileVars>>
      /\ (Ends(t, "removed") \/ Ends(t, "failed"))
  BY DEF PurgeEnds, Is
<1> QED BY <1>1, EndsKeeps DEF Results

LEMMA SecureKeeps ==
    ASSUME IInv, NEW t \in Threads, Secure(t)
    PROVE  IInv'
<1>1. pc[t] = "secure" /\ UNCHANGED <<catalog, ghosts, refreshVars, fileVars>>
      /\ (Ends(t, "secured") \/ Ends(t, "failed"))
  BY DEF Secure, Is
<1> QED BY <1>1, EndsKeeps DEF Results

LEMMA ConflictsKeeps ==
    ASSUME IInv, NEW t \in Threads, Conflicts(t), pc[t] \in {"load", "check"},
           UNCHANGED <<catalog, ghosts, refreshVars, fileVars>>
    PROVE  IInv'
<1>1. CASE task[t].kind = "commit" /\ Goes(t, "recover")
  BY <1>1, GoesKeeps
<1>2. CASE Ends(t, "conflict")
  BY <1>2, EndsKeeps DEF Results
<1> QED BY <1>1, <1>2 DEF Conflicts

LEMMA LoadKeeps ==
    ASSUME IInv, NEW t \in Threads, Load(t)
    PROVE  IInv'
<1>1. pc[t] = "load" /\ UNCHANGED <<catalog, ghosts, refreshVars, fileVars>>
  BY DEF Load, Is
<1>2. CASE Conflicts(t)
  BY <1>1, <1>2, ConflictsKeeps
<1>3. CASE Ends(t, "failed") \/ Ends(t, "ready")
  BY <1>1, <1>3, EndsKeeps DEF Results
<1>4. CASE /\ Expects(t) /\ Moves(t, "check")
           /\ draft' = [draft EXCEPT ![t] = [base |-> catalog, checked |-> 0]]
           /\ UNCHANGED <<task, result, cancelling, closed, fresh, wrote>>
  <2>1. LibraryType /\ t \notin wrote
    BY <1>1, TypeHalves DEF IInv, SavesInv, OperationInv, OperationFits, MarksFit
  <2>2. /\ pc' \in [Threads -> At] /\ pc'[t] = "check"
        /\ \A x \in Threads \ {t} : pc'[x] = pc[x]
    BY <1>4, <2>1, MovesEffect DEF At
  <2>3. /\ draft' \in [Threads -> [base : Catalogs, checked : Nat]]
        /\ draft'[t].base = catalog
        /\ \A x \in Threads \ {t} : draft'[x] = draft[x]
    BY <1>4, <2>1 DEF LibraryType
  <2>4. LibraryType' /\ Alone(t)
    BY <1>1, <1>4, <2>1, <2>2, <2>3 DEF LibraryType, At, ghosts, Alone
  <2>5. task[t].kind = "select" => catalog.entries[task[t].source] = task[t].config
    BY <1>4 DEF Expects
  <2>6. OperationFits(t)'
    BY <1>1, <1>4, <2>1, <2>2, <2>3, <2>5
       DEF IInv, SavesInv, OperationInv, OperationFits, KindFits, DraftFits, MarksFit,
           LibraryType, fileVars
  <2>7. SavesInv'
    BY <1>1, <2>1, <2>2, <2>3, <2>4, <2>6, QuietStep DEF ghosts, fileVars, LibraryType, Catalogs
  <2> QED BY <1>1, <2>4, <2>7, FlightsKept, Together
<1> QED BY <1>2, <1>3, <1>4 DEF Load

LEMMA CheckKeeps ==
    ASSUME IInv, NEW t \in Threads, Check(t)
    PROVE  IInv'
<1>1. pc[t] = "check" /\ UNCHANGED <<catalog, ghosts, refreshVars, fileVars>>
  BY DEF Check, Is
<1>2. CASE Stale(t)
  BY <1>1, <1>2, ConflictsKeeps DEF Check
<1>3. CASE ~Stale(t)
  <2>1. /\ Moves(t, "rename") /\ draft' = [draft EXCEPT ![t].checked = catalog.revision]
        /\ UNCHANGED <<task, result, cancelling, closed, fresh, wrote>>
        /\ catalog.revision = draft[t].base.revision
    BY <1>3 DEF Check, Stale
  <2>2. LibraryType
    BY TypeHalves DEF IInv
  <2>3. /\ pc' \in [Threads -> At] /\ pc'[t] = "rename"
        /\ \A x \in Threads \ {t} : pc'[x] = pc[x]
    BY <2>1, <2>2, MovesEffect DEF At
  <2>4. /\ draft' \in [Threads -> [base : Catalogs, checked : Nat]]
        /\ draft'[t].base = draft[t].base /\ draft'[t].checked = catalog.revision
        /\ \A x \in Threads \ {t} : draft'[x] = draft[x]
    BY <2>1, <2>2 DEF LibraryType, Catalogs
  <2>5. LibraryType' /\ Alone(t)
    BY <1>1, <2>1, <2>2, <2>3, <2>4 DEF LibraryType, At, ghosts, Alone
  <2>6. OperationFits(t)'
    BY <1>1, <2>1, <2>3, <2>4
       DEF IInv, SavesInv, OperationInv, OperationFits, KindFits, DraftFits, MarksFit, fileVars
  <2>7. SavesInv'
    BY <1>1, <2>3, <2>4, <2>5, <2>6, QuietStep
       DEF ghosts, fileVars, IInv, SavesInv, RevisionsTell
  <2> QED BY <1>1, <2>5, <2>7, FlightsKept, Together
<1> QED BY <1>2, <1>3

(* What a save writes: a catalog that lists what it selects, in which only
   the record of its source can differ from what it has loaded.          *)
LEMMA SavedFits ==
    ASSUME IInv, NEW t \in Threads, pc[t] = "rename",
           catalog' = [revision |-> draft[t].base.revision + 1,
                       entries |-> Entries(t), active |-> Selection(t)]
    PROVE  /\ catalog' \in Catalogs /\ CatalogFits(catalog')
           /\ \A x \in Sources \ {task[t].source} :
                 catalog'.entries[x] = draft[t].base.entries[x]
           /\ catalog'.active \in {draft[t].base.active, task[t].source, None}
           /\ catalog'.entries[task[t].source]
                = IF task[t].kind = "remove" THEN None ELSE task[t].config
           /\ task[t].kind \in {"commit", "select"} => catalog'.active = task[t].source
<1> DEFINE b == draft[t].base
           s == task[t].source
           c == task[t].config
           k == task[t].kind
<1>1. /\ b.revision \in Nat /\ b.entries \in [Sources -> Configs \cup {None}]
      /\ b.active \in Sources \cup {None} /\ k \in Kinds
  BY TypeHalves DEF IInv, LibraryType, Catalogs, Records, Tasks
<1>2. /\ s \in Sources /\ c \in Configs /\ c # None /\ s # None
      /\ (k = "select" => b.entries[s] = c)
      /\ (b.active # None => b.entries[b.active] # None)
  BY LibraryAssumption
     DEF IInv, SavesInv, OperationInv, OperationFits, DraftFits, CatalogFits
<1>3. /\ Entries(t) = IF k = "select" THEN b.entries
                      ELSE [b.entries EXCEPT ![s] = IF k = "remove" THEN None ELSE c]
      /\ Selection(t) = IF k \in {"commit", "select"} THEN s
                        ELSE IF k = "remove" /\ b.active = s THEN None ELSE b.active
  BY DEF Entries, Selection
<1> HIDE DEF b, s, c, k
<1>4. /\ catalog'.revision = b.revision + 1 /\ catalog'.entries = Entries(t)
      /\ catalog'.active = Selection(t)
  BY DEF b
<1>5. /\ Entries(t) \in [Sources -> Configs \cup {None}]
      /\ \A x \in Sources \ {s} : Entries(t)[x] = b.entries[x]
      /\ Entries(t)[s] = IF k = "remove" THEN None ELSE c
  BY <1>1, <1>2, <1>3
<1>6. /\ Selection(t) \in Sources \cup {None} /\ Selection(t) \in {b.active, s, None}
      /\ (k \in {"commit", "select"} => Selection(t) = s)
  BY <1>1, <1>2, <1>3
<1>7. catalog' \in Catalogs
  BY <1>1, <1>4, <1>5, <1>6 DEF Catalogs, Records, b
<1>8. Selection(t) # None => Entries(t)[Selection(t)] # None
  BY <1>1, <1>2, <1>3, <1>5
<1> QED BY <1>4, <1>5, <1>6, <1>7, <1>8 DEF CatalogFits, b, s, c, k

LEMMA RenameKeeps ==
    ASSUME IInv, NEW t \in Threads, Rename(t)
    PROVE  IInv'
<1> DEFINE s == task[t].source
<1>1. pc[t] = "rename" /\ UNCHANGED <<refreshVars, fileVars>>
  BY DEF Rename, Is
<1>2. CASE Ends(t, "storage") /\ UNCHANGED <<catalog, ghosts>>
  BY <1>1, <1>2, EndsKeeps DEF Results
<1>3. CASE ~(Ends(t, "storage") /\ UNCHANGED <<catalog, ghosts>>)
  <2>1. LibraryType
    BY TypeHalves DEF IInv
  <2>2. /\ catalog' = [revision |-> draft[t].base.revision + 1,
                       entries |-> Entries(t), active |-> Selection(t)]
        /\ wrote' = wrote \cup {t} /\ lost' = (lost \/ Overlapped(t))
        /\ doubtful' = IF t \in fresh THEN doubtful \ {s}
                       ELSE IF task[t].kind = "remove" THEN doubtful
                       ELSE doubtful \cup {s}
        /\ disputed' = disputed \/ disputed' = disputed \cup {s}
        /\ \/ /\ task[t].kind = "remove" /\ Moves(t, "purge")
              /\ UNCHANGED <<task, draft, result, cancelling, closed, fresh>>
           \/ Reports(t, "ready") \/ Reports(t, "storage")
    BY <1>3 DEF Rename
  <2>3. /\ s \in Sources /\ task[t].config \in Configs
        /\ (t \in fresh => cache[<<s, task[t].config>>] # 0)
        /\ draft[t].checked = draft[t].base.revision
    BY <1>1 DEF IInv, SavesInv, OperationInv, OperationFits, MarksFit, DraftFits
  <2>4. /\ catalog' \in Catalogs /\ CatalogFits(catalog')
        /\ \A x \in Sources \ {s} : catalog'.entries[x] = draft[t].base.entries[x]
        /\ catalog'.entries[s] = IF task[t].kind = "remove" THEN None ELSE task[t].config
        /\ catalog'.revision = draft[t].base.revision + 1
    BY <1>1, <2>2, SavedFits
  <2>5. /\ pc' \in [Threads -> At] /\ pc'[t] \in {"purge", "settle"}
        /\ (pc'[t] = "purge" => task[t].kind = "remove")
        /\ draft' \in [Threads -> [base : Catalogs, checked : Nat]]
        /\ \A x \in Threads \ {t} : /\ pc'[x] = pc[x] /\ draft'[x] = draft[x]
                                    /\ x \in fresh' <=> x \in fresh
        /\ result' \in [Threads -> Results \cup {None}]
        /\ fresh' \subseteq Threads /\ t \notin fresh'
        /\ UNCHANGED <<task, cancelling, closed>>
    <3>1. CASE /\ task[t].kind = "remove" /\ Moves(t, "purge")
               /\ UNCHANGED <<task, draft, result, cancelling, closed, fresh>>
      <4>1. t \notin fresh
        BY <1>1, <3>1 DEF IInv, SavesInv, OperationInv, OperationFits, MarksFit, Imports
      <4> QED BY <2>1, <3>1, <4>1, MovesEffect DEF LibraryType, At
    <3>2. CASE Reports(t, "ready") \/ Reports(t, "storage")
      BY <1>1, <3>2, ReportsEffect DEF Results
    <3> QED BY <2>2, <3>1, <3>2
  <2>6. LibraryType'
    BY <2>1, <2>2, <2>3, <2>4, <2>5, LibraryAssumption DEF LibraryType, At
  <2>7. Alone(t)
    BY <2>2, <2>5 DEF Alone
  <2>8. OperationInv'
    <3>1. OperationFits(t)'
      BY <1>1, <2>2, <2>5
         DEF IInv, SavesInv, OperationInv, OperationFits, KindFits, DraftFits, MarksFit
    <3>2. ASSUME NEW x \in Threads \ {t}
          PROVE  OperationFits(x)'
      <4>1. OperationFits(x)
        BY DEF IInv, SavesInv, OperationInv
      <4> QED BY <1>1, <2>7, <4>1 DEF Alone, OperationFits, KindFits, DraftFits, MarksFit, fileVars
    <3> QED BY <3>1, <3>2 DEF OperationInv
  <2>9. ~lost' => /\ ~lost /\ draft[t].base = catalog
                  /\ catalog'.revision = catalog.revision + 1
    BY <1>1, <2>2, <2>3, <2>4 DEF Overlapped, IInv, SavesInv, RevisionsTell
  <2>10. RevisionsTell'
    <3> SUFFICES ASSUME ~lost', NEW x \in Threads, pc'[x] \in {"check", "rename"}
                 PROVE  /\ draft'[x].base.revision <= catalog'.revision
                        /\ draft'[x].base.revision = catalog'.revision
                             => draft'[x].base = catalog'
      BY DEF RevisionsTell
    <3>1. x # t /\ draft'[x] = draft[x] /\ pc[x] \in {"check", "rename"}
      BY <2>5
    <3>2. draft[x].base.revision <= catalog.revision
      BY <2>9, <3>1 DEF IInv, SavesInv, RevisionsTell
    <3>3. draft[x].base.revision \in Nat /\ catalog.revision \in Nat
      BY <2>1 DEF LibraryType, Catalogs
    <3> QED BY <2>9, <3>1, <3>2, <3>3
  <2>11. ListedIsReadable'
    <3> SUFFICES ASSUME ~lost', NEW x \in Sources, catalog'.entries[x] # None, x \notin doubtful'
                 PROVE  cache'[<<x, catalog'.entries[x]>>] # 0
      BY DEF ListedIsReadable
    <3>1. cache' = cache
      BY <1>1 DEF fileVars
    <3>2. CASE x = s
      BY <2>2, <2>3, <2>4, <3>1, <3>2
    <3>3. CASE x # s
      <4>1. catalog'.entries[x] = catalog.entries[x] /\ x \notin doubtful
        BY <2>2, <2>4, <2>9, <3>3
      <4> QED BY <2>9, <3>1, <4>1 DEF IInv, SavesInv, ListedIsReadable
    <3> QED BY <3>2, <3>3
  <2>12. RefreshType' /\ FlightInv'
    BY <1>1, <2>7, FlightsKept
  <2> QED BY <2>6, <2>8, <2>10, <2>11, <2>12, Together DEF SavesInv
<1> QED BY <1>2, <1>3

LEMMA StartedEffect ==
    ASSUME IInv, NEW t \in Threads, pc[t] = "idle",
           NEW kind \in Kinds, NEW s \in Sources, NEW c \in Configs,
           NEW at \in {"refreshing", "verify", "withdraw", "secure"},
           Started(t, kind, s, c, at), disputed' \subseteq Sources,
           UNCHANGED <<catalog, doubtful, lost, cache>>,
           at = "refreshing" => kind \in Imports, at = "verify" => kind = "select",
           at = "withdraw" => kind \in {"remove", "removeCache", "disconnect"},
           at = "secure" => kind = "reconnect"
    PROVE  LibraryType' /\ Alone(t) /\ SavesInv' /\ pc'[t] = at
<1> DEFINE new == [kind |-> kind, source |-> s, config |-> c,
                   previous |-> catalog.entries[s], expected |-> catalog.revision]
<1>1. LibraryType
  BY TypeHalves DEF IInv
<1>2. new \in Tasks /\ new.kind = kind /\ new.source = s /\ new.config = c
  BY <1>1 DEF Tasks, LibraryType, Catalogs, Records
<1>3. /\ pc' \in [Threads -> At] /\ pc'[t] = at
      /\ \A x \in Threads \ {t} : pc'[x] = pc[x]
  BY <1>1, MovesEffect DEF Started, At
<1>4. /\ task' = [task EXCEPT ![t] = new]
      /\ UNCHANGED <<draft, result, cancelling, closed, fresh, wrote>>
  BY DEF Started
<1> HIDE DEF new
<1>5. /\ task' \in [Threads -> Tasks] /\ task'[t] = new
      /\ \A x \in Threads \ {t} : task'[x] = task[x]
  BY <1>1, <1>2, <1>4 DEF LibraryType
<1>6. LibraryType'
  BY <1>1, <1>2, <1>3, <1>4, <1>5, LibraryAssumption DEF LibraryType, At
<1>7. Alone(t)
  BY <1>3, <1>4, <1>5 DEF Alone
<1>8. t \notin wrote /\ t \notin fresh
  BY DEF IInv, SavesInv, OperationInv, OperationFits, MarksFit
<1>9. OperationFits(t)'
  BY <1>2, <1>3, <1>4, <1>5, <1>8 DEF OperationFits, KindFits, DraftFits, MarksFit
<1>10. SavesInv'
  BY <1>3, <1>7, <1>9, QuietStep
<1> QED BY <1>3, <1>6, <1>7, <1>10

LEMMA BeginKeeps ==
    ASSUME IInv, NEW t \in Threads, Begin(t)
    PROVE  IInv'
<1>1. LibraryType
  BY TypeHalves DEF IInv
<1>0. PICK s \in Sources : \E kind \in Asked[s] \ Imports :
        /\ catalog.entries[s] # None
        /\ Started(t, kind, s, catalog.entries[s], CASE kind = "select" -> "verify"
                                                     [] kind = "reconnect" -> "secure"
                                                     [] OTHER -> "withdraw")
        /\ Meets(t, s)
  BY DEF Begin
<1>2. PICK kind \in Asked[s] \ Imports :
        /\ catalog.entries[s] # None
        /\ Started(t, kind, s, catalog.entries[s], CASE kind = "select" -> "verify"
                                                     [] kind = "reconnect" -> "secure"
                                                     [] OTHER -> "withdraw")
        /\ Meets(t, s)
  BY <1>0
<1>3. pc[t] = "idle" /\ UNCHANGED <<catalog, doubtful, lost, refreshVars, fileVars>>
      /\ disputed' \subseteq Sources /\ catalog.entries[s] \in Configs
  <2>1. pc[t] = "idle" /\ UNCHANGED <<catalog, doubtful, lost, refreshVars, fileVars>>
    BY DEF Begin, Is
  <2>2. disputed' \subseteq Sources
    BY <1>1, <1>2 DEF Meets, LibraryType
  <2>3. catalog.entries[s] \in Configs
    BY <1>1, <1>2 DEF LibraryType, Catalogs, Records
  <2> QED BY <2>1, <2>2, <2>3
<1>4. kind \in {"select", "remove", "removeCache", "disconnect", "reconnect"} /\ kind \in Kinds
  BY LibraryAssumption DEF Kinds, Imports
<1>5. PICK at \in {"verify", "withdraw", "secure"} :
        /\ Started(t, kind, s, catalog.entries[s], at)
        /\ at = "verify" => kind = "select"
        /\ at = "withdraw" => kind \in {"remove", "removeCache", "disconnect"}
        /\ at = "secure" => kind = "reconnect"
  BY <1>2, <1>4
<1>6. LibraryType' /\ Alone(t) /\ SavesInv'
  BY <1>3, <1>4, <1>5, StartedEffect DEF fileVars
<1> QED BY <1>3, <1>6, FlightsKept, Together

(* Unscheduling a source leaves work of the right types. *)
LEMMA UnschedulingEffect ==
    ASSUME RefreshType, NEW s \in Sources, Unscheduling(s)
    PROVE  /\ scheduled' \in Schedules /\ stop' \in [Works -> {"none", "due", "told"}]
           /\ \A w \in Works : scheduled'[w] = IF w[2] = s THEN None ELSE scheduled[w]
BY DEF RefreshType, ScheduleType, Unscheduling, Schedules, Stopped

(* Imports use configurations of the module. *)
LEMMA OfferedConfigs == \A s \in Sources : \A c \in Offered[s] : c \in Configs
BY LibraryAssumption

LEMMA BeginImportKeeps ==
    ASSUME IInv, NEW t \in Threads, BeginImport(t)
    PROVE  IInv'
<1>1. LibraryType /\ RefreshType
  BY TypeHalves DEF IInv
<1>2. PICK s \in Sources, c \in Configs :
        /\ job' = [job EXCEPT ![t] = [pc |-> "registered", config |-> c, answer |-> Failed]]
        /\ \/ /\ Started(t, "commit", s, c, "refreshing")
              /\ UNCHANGED <<flight, scheduled, stop>>
           \/ /\ Started(t, "replace", s, c, "refreshing")
              /\ Cancelling(s) /\ Unscheduling(s)
        /\ disputed' \subseteq disputed \cup {s}
  BY OfferedConfigs DEF BeginImport, Meets, Clears
<1>3. pc[t] = "idle" /\ UNCHANGED <<catalog, fileVars, pending, reloads, doubtful, lost, runs>>
      /\ disputed' \subseteq Sources
  BY <1>1, <1>2 DEF BeginImport, Is, LibraryType
<1>4. LibraryType' /\ Alone(t) /\ SavesInv' /\ pc'[t] = "refreshing"
  BY <1>2, <1>3, StartedEffect DEF Kinds, Imports, fileVars
<1>5. Steered /\ ScheduleType'
  <2>1. Steered
    BY <1>1, <1>2, SameSteers, CancellingSteers
  <2>2. scheduled' \in Schedules /\ stop' \in [Works -> {"none", "due", "told"}]
    BY <1>1, <1>2, UnschedulingEffect DEF RefreshType, ScheduleType
  <2> QED BY <1>1, <1>3, <2>1, <2>2 DEF RefreshType, ScheduleType
<1> DEFINE j == [pc |-> "registered", config |-> c, answer |-> Failed]
<1>6. j \in Jobs /\ j.config \in Configs /\ j.pc = "registered"
  BY LibraryAssumption DEF Jobs, Failed
<1>7. job' = [job EXCEPT ![t] = j]
  BY <1>2
<1> HIDE DEF j
<1>8. RefreshType' /\ FlightInv'
  BY <1>1, <1>3, <1>4, <1>5, <1>6, <1>7, FlightsSteered DEF RefreshType
<1> QED BY <1>4, <1>8, Together

(* Cancelling or closing an import marks it and its flight. *)
LEMMA MarkKeeps ==
    ASSUME IInv, NEW t \in Threads, pc[t] \notin {"idle", "done"}, Cancelling(task[t].source),
           UNCHANGED <<catalog, pc, task, draft, result, fresh, wrote, ghosts>>,
           cancelling' \subseteq Threads, closed' \subseteq Threads,
           UNCHANGED <<fileVars, scheduled, stop, job, pending, reloads, runs>>
    PROVE  IInv'
<1>1. LibraryType /\ RefreshType
  BY TypeHalves DEF IInv
<1>2. LibraryType' /\ Alone(t)
  BY <1>1 DEF LibraryType, ghosts, Alone
<1>3. OperationFits(t)' /\ task[t].source \in Sources
  BY DEF IInv, SavesInv, OperationInv, OperationFits, KindFits, DraftFits, MarksFit, fileVars
<1>4. SavesInv'
  BY <1>2, <1>3, QuietStep DEF ghosts, fileVars, IInv, SavesInv, RevisionsTell
<1>5. Steered
  BY <1>3, CancellingSteers
<1>6. /\ t \in Runners /\ job[t] \in Jobs /\ job' = [job EXCEPT ![t] = job[t]]
      /\ (job[t].pc # "idle" => job[t].config \in Configs)
      /\ (job[t].pc \in Running => pc'[t] = "refreshing")
  BY <1>1 DEF RefreshType, Runners, IInv, FlightInv
<1>7. ScheduleType'
  BY <1>1, ScheduleSame
<1>8. RefreshType' /\ FlightInv'
  BY <1>1, <1>2, <1>5, <1>6, <1>7, FlightsSteered DEF RefreshType
<1> QED BY <1>2, <1>4, <1>8, Together

LEMMA CancelImportKeeps ==
    ASSUME IInv, NEW t \in Threads, CancelImport(t)
    PROVE  IInv'
<1>1. cancelling' \subseteq Threads /\ closed' \subseteq Threads
  BY TypeHalves DEF IInv, LibraryType, CancelImport
<1> QED BY <1>1, MarkKeeps DEF CancelImport

LEMMA CloseImportKeeps ==
    ASSUME IInv, NEW t \in Threads, CloseImport(t)
    PROVE  IInv'
<1>1. cancelling' \subseteq Threads /\ closed' \subseteq Threads
  BY TypeHalves DEF IInv, LibraryType, CloseImport
<1> QED BY <1>1, MarkKeeps DEF CloseImport

LEMMA WithdrawKeeps ==
    ASSUME IInv, NEW t \in Threads, Withdraw(t)
    PROVE  IInv'
<1>1. LibraryType /\ RefreshType
  BY TypeHalves DEF IInv
<1>2. /\ pc[t] = "withdraw"
      /\ UNCHANGED <<catalog, fileVars, job, pending, reloads, doubtful, lost, runs>>
      /\ Cancelling(task[t].source) /\ Unscheduling(task[t].source)
      /\ \/ Ends(t, "failed") \/ Ends(t, "disconnected")
         \/ task[t].kind = "remove" /\ Goes(t, "load")
         \/ task[t].kind = "removeCache" /\ Goes(t, "purge")
  BY DEF Withdraw, Is
<1>3. OperationFits(t) /\ task[t].source \in Sources
  BY <1>2 DEF IInv, SavesInv, OperationInv, OperationFits
<1>0. disputed' \subseteq Sources
  BY <1>1, <1>3 DEF Withdraw, Clears, LibraryType
<1>4. LibraryType' /\ Alone(t) /\ SavesInv'
  <2>1. CASE Ends(t, "failed") \/ Ends(t, "disconnected")
    BY <1>0, <1>2, <2>1, EndsEffect DEF Results, fileVars
  <2>2. ASSUME NEW at \in {"load", "purge"}, Goes(t, at),
               task[t].kind = IF at = "load" THEN "remove" ELSE "removeCache"
        PROVE  LibraryType' /\ Alone(t) /\ SavesInv'
    <3>1. LibraryType' /\ Alone(t) /\ pc'[t] = at
      BY <1>0, <1>2, <2>2, GoesEffect DEF At
    <3>2. OperationFits(t)'
      BY <1>2, <1>3, <2>2, <3>1
         DEF OperationFits, KindFits, DraftFits, MarksFit, Goes, fileVars
    <3>3. SavesInv'
      BY <1>2, <3>1, <3>2, QuietStep DEF fileVars
    <3> QED BY <3>1, <3>3
  <2> QED BY <1>2, <2>1, <2>2
<1>5. Steered /\ ScheduleType'
  <2>1. scheduled' \in Schedules /\ stop' \in [Works -> {"none", "due", "told"}]
    BY <1>1, <1>2, <1>3, UnschedulingEffect
  <2> QED BY <1>1, <1>2, <1>3, <2>1, CancellingSteers DEF RefreshType, ScheduleType
<1>6. /\ t \in Runners /\ job[t] \in Jobs /\ job' = [job EXCEPT ![t] = job[t]]
      /\ (job[t].pc # "idle" => job[t].config \in Configs) /\ job[t].pc \notin Running
  BY <1>1, <1>2 DEF RefreshType, Runners, IInv, FlightInv
<1>7. RefreshType' /\ FlightInv'
  BY <1>1, <1>2, <1>4, <1>5, <1>6, FlightsSteered DEF RefreshType, Running
<1> QED BY <1>4, <1>7, Together

LEMMA PurgeKeeps ==
    ASSUME IInv, NEW t \in Threads, Purge(t)
    PROVE  IInv'
<1> DEFINE s == task[t].source
<1>1. LibraryType /\ RefreshType
  BY TypeHalves DEF IInv
<1>2. PICK c \in Configs :
        /\ directory' = directory \ {<<s, c>>} /\ cache' = [cache EXCEPT ![<<s, c>>] = 0]
        /\ flight' = IF flight[s] # None /\ flight[s].config = c
                     THEN [flight EXCEPT ![s].gone = TRUE] ELSE flight
  BY DEF Purge
<1>3. /\ doubtful' = doubtful \cup {s} /\ fresh' = {x \in fresh : task[x].source # s}
      /\ UNCHANGED <<catalog, pc, task, draft, result, cancelling, closed, wrote>>
      /\ UNCHANGED <<scheduled, stop, job, pending, reloads, disputed, lost, runs>>
  BY DEF Purge
<1>4. s \in Sources
  BY DEF Purge, Is, IInv, SavesInv, OperationInv, OperationFits
<1> HIDE DEF s
<1>5. /\ cache' \in [Caches -> 0..MaxGeneration] /\ cache'[<<s, c>>] = 0
      /\ \A k \in Caches \ {<<s, c>>} : cache'[k] = cache[k]
      /\ \A x \in Sources, d \in Configs : x # s => cache'[<<x, d>>] = cache[<<x, d>>]
  BY <1>1, <1>2, <1>4, LibraryAssumption DEF RefreshType, Caches
<1>6. LibraryType'
  BY <1>1, <1>3, <1>4 DEF LibraryType
<1>7. OperationInv'
  <2> SUFFICES ASSUME NEW x \in Threads
               PROVE  OperationFits(x)'
    BY DEF OperationInv
  <2>1. OperationFits(x)
    BY DEF IInv, SavesInv, OperationInv
  <2>2. x \in fresh' => cache'[<<task[x].source, task[x].config>>] # 0
    <3> SUFFICES ASSUME x \in fresh'
                 PROVE  cache'[<<task[x].source, task[x].config>>] # 0
      OBVIOUS
    <3>1. x \in fresh /\ task[x].source # s
      BY <1>3
    <3>2. /\ task[x].source \in Sources /\ task[x].config \in Configs
          /\ cache[<<task[x].source, task[x].config>>] # 0
      BY <2>1, <3>1 DEF OperationFits, MarksFit
    <3> QED BY <1>5, <3>1, <3>2
  <2>3. KindFits(x)' /\ DraftFits(x)' /\ MarksFit(x)'
    BY <1>3, <2>1, <2>2 DEF OperationFits, KindFits, DraftFits, MarksFit
  <2> QED BY <1>3, <2>1, <2>3 DEF OperationFits
<1>8. RevisionsTell'
  BY <1>3 DEF IInv, SavesInv, RevisionsTell
<1>9. ListedIsReadable'
  <2> SUFFICES ASSUME ~lost', NEW x \in Sources, catalog'.entries[x] # None, x \notin doubtful'
               PROVE  cache'[<<x, catalog'.entries[x]>>] # 0
    BY DEF ListedIsReadable
  <2>1. x # s /\ catalog.entries[x] \in Configs /\ cache[<<x, catalog.entries[x]>>] # 0
    BY <1>1, <1>3 DEF IInv, SavesInv, ListedIsReadable, LibraryType, Catalogs, Records
  <2> QED BY <1>3, <1>5, <2>1
<1>10. /\ flight' \in [Sources -> Flights \cup {None}]
       /\ \A x \in Sources : flight[x] # None =>
             flight'[x] # None /\ flight'[x].config = flight[x].config
       /\ \A x \in Sources : flight'[x] # None /\ ~flight'[x].gone =>
             /\ flight[x] # None /\ ~flight[x].gone
             /\ flight'[x] = flight[x] /\ (x # s \/ flight[x].config # c)
  <2>1. CASE flight[s] # None /\ flight[s].config = c
    <3> DEFINE f == [flight[s] EXCEPT !.gone = TRUE]
    <3>1. flight[s] \in Flights
      BY <1>1, <1>4, <2>1 DEF RefreshType
    <3>2. f \in Flights /\ f # None /\ f.config = flight[s].config /\ f.gone
      BY <3>1, LibraryAssumption DEF Flights
    <3>3. flight' = [flight EXCEPT ![s] = f]
      BY <1>2, <2>1
    <3> HIDE DEF f
    <3> QED BY <1>1, <1>4, <3>2, <3>3 DEF RefreshType
  <2>2. CASE ~(flight[s] # None /\ flight[s].config = c)
    BY <1>1, <1>2, <2>2 DEF RefreshType
  <2> QED BY <2>1, <2>2
<1>11. RefreshType'
  <2>1. \A k \in Caches : cache'[k] # 0 => k \in directory'
    BY <1>1, <1>2, <1>5 DEF RefreshType
  <2>2. ScheduleType'
    BY <1>1, <1>3, ScheduleSame
  <2> QED BY <1>1, <1>2, <1>3, <1>5, <1>10, <2>1, <2>2 DEF RefreshType
<1>12. \A x \in Runners : SourceOf(x)' = SourceOf(x)
  BY <1>3 DEF SourceOf
<1>13. FlightInv'
  <2>1. \A x \in Runners : job'[x].pc = "flying" => flight'[SourceOf(x)] # None
    <3> SUFFICES ASSUME NEW x \in Runners, job[x].pc = "flying"
                 PROVE  flight'[SourceOf(x)] # None
      BY <1>3
    <3>1. SourceOf(x) \in Sources /\ flight[SourceOf(x)] # None
      BY SourceOfRunning DEF Running, IInv, FlightInv
    <3> QED BY <1>10, <3>1
  <2>2. \A x \in Sources : flight'[x] # None /\ ~flight'[x].gone
                            => <<x, flight'[x].config>> \in directory'
    <3> SUFFICES ASSUME NEW x \in Sources, flight'[x] # None, ~flight'[x].gone
                 PROVE  <<x, flight'[x].config>> \in directory'
      OBVIOUS
    <3>1. <<x, flight[x].config>> \in directory /\ flight'[x] = flight[x]
          /\ (x # s \/ flight[x].config # c)
      BY <1>10 DEF IInv, FlightInv
    <3> QED BY <1>2, <3>1
  <2>3. /\ \A x \in Runners : job'[x].pc # "idle" => job'[x].config \in Configs
        /\ \A x \in Threads : job'[x].pc \in Running => pc'[x] = "refreshing"
    BY <1>3 DEF IInv, FlightInv
  <2> QED BY <1>12, <2>1, <2>2, <2>3 DEF FlightInv
<1> QED BY <1>6, <1>7, <1>8, <1>9, <1>11, <1>13, Together DEF SavesInv

(* An operation that is settled is forgotten. *)
LEMMA SettleKeeps ==
    ASSUME IInv, NEW t \in Threads, Settle(t)
    PROVE  IInv'
<1> DEFINE s == task[t].source
<1>1. LibraryType /\ RefreshType
  BY TypeHalves DEF IInv
<1>2. pc[t] = "settle" /\ Moves(t, "done")
      /\ task' = [task EXCEPT ![t] = NoTask] /\ result' = [result EXCEPT ![t] = None]
      /\ cancelling' = cancelling \ {t} /\ closed' = closed \ {t} /\ wrote' = wrote \ {t}
      /\ UNCHANGED <<draft, fresh, catalog, ghosts, fileVars, pending, reloads, runs>>
      /\ job' = [job EXCEPT ![t] = NoJob]
  BY DEF Settle, Is
<1>3. s \in Sources /\ task[t].config \in Configs /\ t \notin fresh
  BY <1>2 DEF IInv, SavesInv, OperationInv, OperationFits, MarksFit
<1>4. /\ pc' \in [Threads -> At] /\ pc'[t] = "done"
      /\ \A x \in Threads \ {t} : pc'[x] = pc[x]
  BY <1>1, <1>2, MovesEffect DEF At
<1>5. NoTask \in Tasks
  BY DEF NoTask, Tasks, Kinds, Imports
<1>6. /\ task' \in [Threads -> Tasks] /\ \A x \in Threads \ {t} : task'[x] = task[x]
      /\ result' \in [Threads -> Results \cup {None}]
  BY <1>1, <1>2, <1>5 DEF LibraryType
<1>7. LibraryType' /\ Alone(t)
  BY <1>1, <1>2, <1>4, <1>6 DEF LibraryType, At, ghosts, Alone
<1>8. OperationFits(t)'
  BY <1>2, <1>3, <1>4 DEF OperationFits, KindFits, DraftFits, MarksFit
<1>9. SavesInv'
  BY <1>2, <1>4, <1>7, <1>8, QuietStep DEF ghosts, fileVars
<1>10. Steered /\ ScheduleType'
  <2>1. task[t].previous \in Configs \cup {None}
    BY <1>1 DEF LibraryType, Tasks
  <2>2. \/ Scheduling({"periodic"}, s, task[t].config)
        \/ Scheduling(Lanes, s, task[t].previous)
        \/ UNCHANGED scheduled
    BY DEF Settle
  <2>3. {"periodic"} \in SUBSET Lanes /\ Lanes \in SUBSET Lanes
    BY DEF Lanes
  <2>4. scheduled' \in Schedules
    BY <1>1, <1>3, <2>1, <2>2, <2>3, SchedulingEffect DEF RefreshType, ScheduleType
  <2>5. <<"periodic", s>> \in Works
    BY <1>3 DEF Works, Lanes
  <2>6. \/ stop' = [stop EXCEPT ![<<"periodic", s>>] = Stopped(<<"periodic", s>>)]
        \/ UNCHANGED stop
    BY DEF Settle
  <2>7. stop' \in [Works -> {"none", "due", "told"}]
    BY <1>1, <2>5, <2>6 DEF RefreshType, ScheduleType, Stopped
  <2>8. UNCHANGED flight \/ Cancelling(s)
    BY DEF Settle
  <2> QED BY <1>1, <1>2, <1>3, <2>4, <2>7, <2>8, SameSteers, CancellingSteers
          DEF RefreshType, ScheduleType
<1>11. NoJob \in Jobs /\ NoJob.pc = "idle"
  BY LibraryAssumption DEF NoJob, Jobs
<1>12. RefreshType' /\ FlightInv'
  BY <1>1, <1>2, <1>7, <1>10, <1>11, FlightsSteered DEF RefreshType, Running
<1> QED BY <1>7, <1>9, <1>12, Together

LEMMA StutterKeeps ==
    ASSUME IInv, UNCHANGED vars
    PROVE  IInv'
<1>1. RefreshType /\ LibraryType
  BY TypeHalves DEF IInv
<1>2. UNCHANGED <<libraryVars, refreshVars, fileVars>>
  BY DEF vars
<1>3. ScheduleType'
  BY <1>1, <1>2, ScheduleSame DEF refreshVars
<1> QED BY <1>1, <1>2, <1>3, ScheduleKeeps
        DEF RefreshType, LibraryType, libraryVars, ghosts, refreshVars

LEMMA InvInductive == IInv /\ [Next]_vars => IInv'
<1> SUFFICES ASSUME IInv, [Next]_vars
             PROVE  IInv'
  OBVIOUS
<1>1. ASSUME NEW t \in Threads, ThreadStep(t)
      PROVE  IInv'
  <2>1. CASE ImportStep(t)
    BY <2>1, TerminalKeeps, VerifyKeeps, RecoverKeeps DEF ImportStep
  <2>2. CASE SaveStep(t)
    BY <2>2, LoadKeeps, CheckKeeps, RenameKeeps DEF SaveStep
  <2>3. CASE ManageStep(t)
    BY <2>3, WithdrawKeeps, SecureKeeps, PurgeKeeps, PurgeEndsKeeps DEF ManageStep
  <2> QED BY <1>1, <2>1, <2>2, <2>3, SettleKeeps DEF ThreadStep
<1>2. ASSUME NEW t \in Threads, UserStep(t)
      PROVE  IInv'
  BY <1>2, BeginImportKeeps, BeginKeeps, CancelImportKeeps, CloseImportKeeps DEF UserStep
<1>3. ASSUME NEW r \in Runners, JobStep(r)
      PROVE  IInv'
  BY <1>3, ResolveKeeps, AdmitKeeps DEF JobStep
<1>4. ASSUME NEW w \in Works, WorkerStep(w)
      PROVE  IInv'
  BY <1>4, StartWorkerKeeps, StopWorkerKeeps DEF WorkerStep
<1>5. ASSUME NEW w \in Works, NEW c \in Configs, Startup(w, c)
      PROVE  IInv'
  BY <1>5, StartupKeeps
<1>6. ASSUME NEW s \in Sources, Land(s)
      PROVE  IInv'
  BY <1>6, LandKeeps
<1>7. CASE Reload
  BY <1>7, ReloadKeeps
<1>8. CASE UNCHANGED vars
  BY <1>8, StutterKeeps
<1> QED BY <1>1, <1>2, <1>3, <1>4, <1>5, <1>6, <1>7, <1>8 DEF Next

LEMMA InitInv == Init => IInv
<1> SUFFICES ASSUME Init
             PROVE  IInv
  OBVIOUS
<1> DEFINE Active(x) == IF x = {} THEN None ELSE Selected
<1>0. PICK listed \in {{}, Installed} :
        catalog = [revision |-> IF listed = {} THEN 0 ELSE 1,
                   entries |-> [s \in Sources |-> IF s \in listed THEN Home ELSE None],
                   active |-> Active(listed)]
  BY DEF Init
<1> DEFINE active == Active(listed)
<1>1. /\ active \in listed \cup {None}
      /\ catalog = [revision |-> IF listed = {} THEN 0 ELSE 1,
                    entries |-> [s \in Sources |-> IF s \in listed THEN Home ELSE None],
                    active |-> active]
  BY <1>0, LibraryAssumption
<1> HIDE DEF active, Active
<1>2. listed \subseteq Sources /\ Home \in Configs /\ Home # None /\ None \notin Sources
  BY LibraryAssumption
<1>3. /\ catalog \in Catalogs /\ CatalogFits(catalog) /\ catalog.entries \in Records
  <2>1. catalog.entries \in Records
    BY <1>1, <1>2 DEF Records
  <2>2. catalog.active \in Sources \cup {None} /\ catalog.revision \in Nat
    BY <1>1, <1>2
  <2>3. catalog.active # None => catalog.entries[catalog.active] # None
    BY <1>1, <1>2
  <2> QED BY <1>1, <2>1, <2>2, <2>3 DEF Catalogs, CatalogFits
<1>4. NoTask \in Tasks /\ NoDraft \in [base : Catalogs, checked : Nat]
      /\ NoJob \in Jobs /\ NoJob.pc = "idle"
  BY LibraryAssumption DEF NoTask, Tasks, Kinds, Imports, NoDraft, NoCatalog, Catalogs,
                           Records, NoJob, Jobs
<1>5. LibraryType
  BY <1>3, <1>4 DEF Init, LibraryType
<1>6. RefreshType
  <2>1. /\ directory = {k \in Caches : catalog.entries[k[1]] = k[2]}
        /\ cache = [k \in Caches |-> IF k \in directory THEN 1 ELSE 0]
    BY DEF Init
  <2>2. 0 \in 0..MaxGeneration /\ 1 \in 0..MaxGeneration /\ 0 \in 0..MaxRuns /\ 0 \in 0..MaxReloads
    BY LibraryAssumption
  <2>3. cache \in [Caches -> 0..MaxGeneration] /\ directory \subseteq Caches
        /\ \A k \in Caches : cache[k] # 0 => k \in directory
    BY <2>1, <2>2
  <2>4. /\ scheduled = [w \in Works |->
                          IF w[1] = "periodic" THEN catalog.entries[w[2]] ELSE None]
        /\ stop = [w \in Works |-> "none"] /\ pending = {} /\ reloads = 0 /\ runs = 0
        /\ flight = [s \in Sources |-> None] /\ job = [r \in Runners |-> NoJob]
    BY DEF Init
  <2>5. flight \in [Sources -> Flights \cup {None}] /\ job \in [Runners -> Jobs]
    BY <1>4, <2>4
  <2>6. \A w \in Works : w[2] \in Sources
    BY DEF Works
  <2>7. scheduled \in Schedules /\ stop \in [Works -> {"none", "due", "told"}]
    BY <1>3, <2>4, <2>6 DEF Schedules, Records
  <2>8. ScheduleType
    BY <2>2, <2>4, <2>7 DEF ScheduleType
  <2> QED BY <2>2, <2>3, <2>4, <2>5, <2>8 DEF RefreshType
<1>7. FlightInv
  BY <1>4 DEF Init, FlightInv, Runners, Running
<1>8. OperationInv /\ RevisionsTell
  BY DEF Init, OperationInv, OperationFits, KindFits, DraftFits, MarksFit, RevisionsTell
<1>9. ListedIsReadable
  <2> SUFFICES ASSUME NEW s \in Sources, catalog.entries[s] # None
               PROVE  cache[<<s, catalog.entries[s]>>] # 0
    BY DEF ListedIsReadable
  <2> DEFINE k == <<s, catalog.entries[s]>>
  <2>1. k \in Caches /\ k[1] = s /\ k[2] = catalog.entries[s]
    BY <1>3 DEF Records, Caches
  <2>2. cache = [x \in Caches |-> IF catalog.entries[x[1]] = x[2] THEN 1 ELSE 0]
    BY DEF Init
  <2> HIDE DEF k
  <2>3. cache[k] = 1
    BY <2>1, <2>2
  <2> QED BY <2>3 DEF k
<1> QED BY <1>5, <1>6, <1>7, <1>8, <1>9, TypeHalves DEF IInv, SavesInv

-----------------------------------------------------------------------------
(* The inductive invariant holds of every library. *)
THEOREM InvHolds == Spec => []IInv
BY InitInv, InvInductive, PTL DEF Spec

(* Every state is well typed, and every catalog one that from_parts()
   admits: it selects only a source it lists, whatever saves overlap.    *)
THEOREM TypeCorrect == Spec => []TypeOK
<1>1. IInv => TypeOK
  BY DEF IInv
<1> QED BY <1>1, InvHolds, PTL

(* Until saves overlap, the catalog lists only configurations whose store
   has a ready generation, unless their caches were removed after it was
   verified: for any number of imports, selections, removals and workers. *)
THEOREM ListedReadable == Spec => []ListedIsReadable
<1>1. IInv => ListedIsReadable
  BY DEF IInv, SavesInv
<1> QED BY <1>1, InvHolds, PTL

-----------------------------------------------------------------------------
(* What a step may do to the catalog. *)

LEMMA OnlyRenamesSave ==
    ASSUME [Next]_vars, catalog' # catalog
    PROVE  \E t \in Threads : Rename(t)
<1>1. ASSUME NEW t \in Threads, ThreadStep(t), ~Rename(t)
      PROVE  catalog' = catalog
  <2>1. CASE ImportStep(t)
    BY <2>1 DEF ImportStep, Terminal, Verify, Recover
  <2>2. CASE Load(t) \/ Check(t)
    BY <2>2 DEF Load, Check
  <2>3. CASE ManageStep(t)
    BY <2>3 DEF ManageStep, Withdraw, Secure, Purge, PurgeEnds
  <2>4. CASE Settle(t)
    BY <2>4 DEF Settle
  <2> QED BY <1>1, <2>1, <2>2, <2>3, <2>4 DEF ThreadStep, SaveStep
<1>2. ASSUME NEW t \in Threads, UserStep(t)
      PROVE  catalog' = catalog
  BY <1>2 DEF UserStep, BeginImport, Begin, CancelImport, CloseImport
<1>3. ASSUME NEW r \in Runners, JobStep(r)
      PROVE  catalog' = catalog
  BY <1>3 DEF JobStep, Resolve, Admit, libraryVars
<1>4. ASSUME NEW w \in Works, WorkerStep(w) \/ \E c \in Configs : Startup(w, c)
      PROVE  catalog' = catalog
  BY <1>4 DEF WorkerStep, StartWorker, StopWorker, Startup, libraryVars
<1>5. ASSUME NEW s \in Sources, Land(s)
      PROVE  catalog' = catalog
  BY <1>5 DEF Land, libraryVars
<1>6. Reload \/ UNCHANGED vars => catalog' = catalog
  BY DEF Reload, vars, libraryVars
<1> QED BY <1>1, <1>2, <1>3, <1>4, <1>5, <1>6 DEF Next

(* A save that overlaps no other changes the record of its source only and
   moves the revision on by one: the comparison of save() then compared the
   very catalog that the rename replaces.                                *)
THEOREM SavesNotLost == Spec => OnlyOverlappingSavesAreLost
<1>1. ASSUME IInv, [Next]_vars, catalog' # catalog, ~lost'
      PROVE  \E t \in wrote' :
                /\ Is(t, "rename")
                /\ catalog'.revision = catalog.revision + 1
                /\ \A s \in Sources \ {task[t].source} :
                      catalog'.entries[s] = catalog.entries[s]
                /\ catalog'.active \in {catalog.active, task[t].source, None}
  <2>1. PICK t \in Threads : Rename(t)
    BY <1>1, OnlyRenamesSave
  <2>2. /\ pc[t] = "rename" /\ t \in wrote' /\ lost' = (lost \/ Overlapped(t))
        /\ catalog' = [revision |-> draft[t].base.revision + 1,
                       entries |-> Entries(t), active |-> Selection(t)]
    BY <1>1, <2>1 DEF Rename, Is
  <2>3. draft[t].base = catalog
    BY <1>1, <2>2 DEF Overlapped, IInv, SavesInv, OperationInv, OperationFits, DraftFits,
                      RevisionsTell
  <2>4. /\ \A x \in Sources \ {task[t].source} : catalog'.entries[x] = draft[t].base.entries[x]
        /\ catalog'.active \in {draft[t].base.active, task[t].source, None}
    BY <1>1, <2>2, SavedFits
  <2> QED BY <2>2, <2>3, <2>4 DEF Is
<1>2. IInv /\ [Next]_vars =>
        [catalog' # catalog =>
            \/ lost'
            \/ \E t \in wrote' :
                /\ Is(t, "rename")
                /\ catalog'.revision = catalog.revision + 1
                /\ \A s \in Sources \ {task[t].source} :
                      catalog'.entries[s] = catalog.entries[s]
                /\ catalog'.active \in {catalog.active, task[t].source, None}]_vars
  BY <1>1
<1> QED BY <1>2, InvHolds, PTL DEF Spec, OnlyOverlappingSavesAreLost

-----------------------------------------------------------------------------
(* What an operation reports. *)

LEMMA ReportsAnswer ==
    ASSUME IInv, NEW t \in Threads, NEW answer, Reports(t, answer)
    PROVE  result'[t] = answer /\ \A x \in Threads \ {t} : result'[x] = result[x]
BY TypeHalves DEF IInv, LibraryType, Reports

Agrees(t) ==
    LET answer == result'[t]  o == task[t] IN
    /\ answer \in {"cancelled", "conflict", "failed"} => t \notin wrote'
    /\ answer = "removed" /\ o.kind = "remove" => t \in wrote'
    /\ answer = "ready" =>
        /\ catalog'.entries[o.source] = o.config
        /\ o.kind # "replace" => catalog'.active = o.source

(* Who reports nothing renamed agrees, if it has not renamed the file. *)
LEMMA RefusalAgrees ==
    ASSUME IInv, NEW t \in Threads, NEW answer \in {"cancelled", "conflict", "failed"},
           Ends(t, answer), t \notin wrote
    PROVE  Agrees(t)
BY ReportsAnswer DEF Ends, Agrees

LEMMA ReadyAgrees ==
    ASSUME IInv, NEW t \in Threads, Ends(t, "ready"), UNCHANGED catalog,
           catalog.entries[task[t].source] = task[t].config,
           task[t].kind # "replace" => catalog.active = task[t].source
    PROVE  Agrees(t)
BY ReportsAnswer DEF Ends, Agrees

LEMMA OnlyItsOwnReport ==
    ASSUME IInv, NEW u \in Threads, ThreadStep(u), NEW t \in Threads, t # u
    PROVE  result'[t] = result[t]
<1>1. ASSUME NEW answer, Ends(u, answer) \/ Reports(u, answer)
      PROVE  result'[t] = result[t]
  BY <1>1, ReportsAnswer DEF Ends
<1>2. ASSUME NEW at, Goes(u, at)
      PROVE  result'[t] = result[t]
  BY <1>2 DEF Goes
<1>3. Conflicts(u) => result'[t] = result[t]
  BY <1>1, <1>2 DEF Conflicts
<1>4. CASE ImportStep(u)
  BY <1>1, <1>2, <1>4 DEF ImportStep, Terminal, Verify, Recover
<1>5. CASE Load(u)
  BY <1>1, <1>3, <1>5 DEF Load
<1>6. CASE Check(u)
  BY <1>3, <1>6 DEF Check
<1>7. CASE Rename(u)
  BY <1>1, <1>7 DEF Rename
<1>8. CASE ManageStep(u)
  BY <1>1, <1>2, <1>8 DEF ManageStep, Withdraw, Secure, Purge, PurgeEnds
<1>9. CASE Settle(u)
  BY <1>9, TypeHalves DEF Settle, IInv, LibraryType
<1> QED BY <1>4, <1>5, <1>6, <1>7, <1>8, <1>9 DEF ThreadStep, SaveStep

LEMMA OnlyThreadsReport ==
    ASSUME [Next]_vars, ~\E u \in Threads : ThreadStep(u)
    PROVE  result' = result
<1>1. ASSUME NEW t \in Threads, UserStep(t)
      PROVE  result' = result
  BY <1>1 DEF UserStep, BeginImport, Begin, CancelImport, CloseImport, Started
<1>2. ASSUME NEW r \in Runners, JobStep(r)
      PROVE  result' = result
  BY <1>2 DEF JobStep, Resolve, Admit, libraryVars, operation
<1>3. ASSUME NEW w \in Works, WorkerStep(w) \/ \E c \in Configs : Startup(w, c)
      PROVE  result' = result
  BY <1>3 DEF WorkerStep, StartWorker, StopWorker, Startup, libraryVars, operation
<1>4. ASSUME NEW s \in Sources, Land(s)
      PROVE  result' = result
  BY <1>4 DEF Land, libraryVars, operation
<1>5. Reload \/ UNCHANGED vars => result' = result
  BY DEF Reload, vars, libraryVars, operation
<1> QED BY <1>1, <1>2, <1>3, <1>4, <1>5 DEF Next

LEMMA StepAgrees ==
    ASSUME IInv, NEW t \in Threads, ThreadStep(t), result[t] = None, result'[t] # None
    PROVE  Agrees(t)
<1>1. OperationFits(t) /\ LibraryType
  BY TypeHalves DEF IInv, SavesInv, OperationInv
<1>2. pc[t] \notin {"purge", "settle"} => t \notin wrote
  BY <1>1 DEF OperationFits, MarksFit
<1>3. ASSUME NEW at, Goes(t, at)
      PROVE  FALSE
  BY <1>3 DEF Goes
<1>4. CASE Terminal(t)
  BY <1>2, <1>3, <1>4, RefusalAgrees DEF Terminal, Is
<1>5. CASE Verify(t)
  BY <1>2, <1>5, RefusalAgrees DEF Verify, Is
<1>6. CASE Recover(t)
  BY <1>2, <1>6, RefusalAgrees, ReadyAgrees DEF Recover, Recovered, Is
<1>7. ASSUME Conflicts(t), t \notin wrote
      PROVE  Agrees(t)
  BY <1>3, <1>7, RefusalAgrees DEF Conflicts
<1>8. CASE Load(t)
  <2>1. pc[t] = "load" /\ UNCHANGED catalog
    BY <1>8 DEF Load, Is
  <2>2. \/ Conflicts(t) \/ Ends(t, "failed")
        \/ Expects(t) /\ AlreadySo(t) /\ Ends(t, "ready")
    BY <1>8 DEF Load
  <2>3. CASE Expects(t) /\ AlreadySo(t) /\ Ends(t, "ready")
    <3>1. /\ catalog.entries[task[t].source] = task[t].config
          /\ task[t].kind # "replace" => catalog.active = task[t].source
      BY <2>3 DEF Expects, AlreadySo
    <3> QED BY <2>1, <2>3, <3>1, ReadyAgrees
  <2> QED BY <1>2, <1>7, <2>1, <2>2, <2>3, RefusalAgrees
<1>9. CASE Check(t)
  BY <1>2, <1>7, <1>9 DEF Check, Is
<1>10. CASE Rename(t)
  <2>1. pc[t] = "rename" /\ task[t].kind \in {"commit", "replace", "select", "remove"}
    BY <1>1, <1>10 DEF Rename, Is, OperationFits, KindFits
  <2>2. CASE Ends(t, "storage")
    BY <2>2, ReportsAnswer DEF Ends, Agrees
  <2>3. CASE ~Ends(t, "storage")
    <3>1. /\ catalog' = [revision |-> draft[t].base.revision + 1,
                         entries |-> Entries(t), active |-> Selection(t)]
          /\ t \in wrote'
          /\ \/ Reports(t, "ready") /\ task[t].kind # "remove"
             \/ Reports(t, "storage")
      BY <1>10, <2>3 DEF Rename
    <3>2. /\ task[t].kind # "remove" => catalog'.entries[task[t].source] = task[t].config
          /\ task[t].kind \in {"commit", "select"} => catalog'.active = task[t].source
      BY <2>1, <3>1, SavedFits
    <3>3. CASE Reports(t, "ready") /\ task[t].kind # "remove"
      BY <2>1, <3>2, <3>3, ReportsAnswer DEF Agrees, Kinds, Imports
    <3>4. CASE Reports(t, "storage")
      BY <3>1, <3>4, ReportsAnswer DEF Agrees
    <3> QED BY <3>1, <3>3, <3>4
  <2> QED BY <2>2, <2>3
<1>11. CASE Withdraw(t) \/ Secure(t)
  <2>1. /\ pc[t] \in {"withdraw", "secure"}
        /\ Ends(t, "failed") \/ Ends(t, "disconnected") \/ Ends(t, "secured")
    BY <1>3, <1>11 DEF Withdraw, Secure, Is
  <2>2. CASE Ends(t, "failed")
    BY <1>2, <2>1, <2>2, RefusalAgrees
  <2>3. CASE Ends(t, "disconnected") \/ Ends(t, "secured")
    BY <2>3, ReportsAnswer DEF Ends, Agrees
  <2> QED BY <2>1, <2>2, <2>3
<1>12. CASE PurgeEnds(t)
  <2>1. /\ pc[t] = "purge"
        /\ Ends(t, "removed") \/ (task[t].kind # "remove" /\ Ends(t, "failed"))
    BY <1>12 DEF PurgeEnds, Is
  <2>2. t \in wrote <=> task[t].kind = "remove"
    BY <1>1, <2>1 DEF OperationFits, MarksFit
  <2>3. CASE Ends(t, "removed")
    BY <2>2, <2>3, ReportsAnswer DEF Ends, Agrees
  <2> QED BY <2>1, <2>2, <2>3, RefusalAgrees
<1>13. ~Purge(t)
  BY DEF Purge
<1>14. ~Settle(t)
  BY <1>1 DEF Settle, LibraryType
<1> QED
  BY <1>4, <1>5, <1>6, <1>8, <1>9, <1>10, <1>11, <1>12, <1>13, <1>14
     DEF ThreadStep, ImportStep, SaveStep, ManageStep

(* What an operation reports agrees with the catalog file at that moment,
   whatever other operations, workers and overlapping saves there are.   *)
THEOREM OutcomesMatch == Spec => OutcomesMatchCatalog
<1>1. IInv /\ [Next]_vars =>
        [\A t \in Threads : result[t] = None /\ result'[t] # None => Agrees(t)]_vars
  BY OnlyItsOwnReport, OnlyThreadsReport, StepAgrees
<1>2. IInv /\ [Next]_vars =>
        [\A t \in Threads :
            result[t] = None /\ result'[t] # None =>
                LET answer == result'[t]  o == task[t] IN
                /\ answer \in {"cancelled", "conflict", "failed"} => t \notin wrote'
                /\ answer = "removed" /\ o.kind = "remove" => t \in wrote'
                /\ answer = "ready" =>
                    /\ catalog'.entries[o.source] = o.config
                    /\ o.kind # "replace" => catalog'.active = o.source]_vars
  BY <1>1 DEF Agrees
<1> QED BY <1>2, InvHolds, PTL DEF Spec, OutcomesMatchCatalog
-----------------------------------------------------------------------------
(* Background work follows the catalog. *)

(* A source that nothing has disputed, while no save has overlapped another. *)
Sound(s) == ~lost /\ s \in Sources \ disputed

(* No lane has work on a source. *)
NoWork(s) == \A w \in Works : w[2] = s => scheduled[w] = None

(* What the operation of a thread presumes of its source: a replacement and
   whatever has withdrawn its work have left it none, a commit overwrites
   nothing, an import has what it is about to schedule in the catalog, and so
   have a replacement that has not come that far and a reconnection.         *)
WorkFits(t) ==
    /\ task[t].kind = "replace" => NoWork(task[t].source)
    /\ task[t].kind \in {"remove", "removeCache", "disconnect"} /\ pc[t] # "withdraw" =>
          NoWork(task[t].source)
    /\ task[t].kind = "commit" /\ pc[t] \in {"check", "rename"} =>
          draft[t].base.entries[task[t].source] \in {None, task[t].config}
    /\ task[t].kind \in Imports /\ pc[t] = "settle" /\ result[t] = "ready" =>
          catalog.entries[task[t].source] = task[t].config
    /\ task[t].kind = "replace" /\ (pc[t] # "settle" \/ result[t] # "ready") =>
          catalog.entries[task[t].source] = task[t].previous
    /\ task[t].kind = "reconnect" => catalog.entries[task[t].source] = task[t].previous

(* At most one operation is on a sound source, and none while a reload has
   something to schedule for it.                                             *)
WorkSound(s) ==
    /\ \A w \in Works : w[2] = s => scheduled[w] \in {None, catalog.entries[s]}
    /\ \A p \in pending : p[1][2] = s =>
          p[2] = catalog.entries[s] /\ \A t \in Threads : task[t].source # s
    /\ \A t, o \in Threads : task[t].source = s /\ task[o].source = s => t = o
    /\ \A t \in Threads : task[t].source = s => WorkFits(t)
WorkInv == \A s \in Sources : Sound(s) => WorkSound(s)

LEMMA WorkInit == Init => WorkInv
<1> SUFFICES ASSUME Init, NEW s \in Sources
             PROVE  WorkSound(s)
  BY DEF WorkInv
<1>1. \A t \in Threads : task[t].source # s
  BY LibraryAssumption DEF Init, NoTask
<1>2. /\ \A w \in Works : scheduled[w] \in {None, catalog.entries[w[2]]}
      /\ pending = {}
  BY DEF Init
<1> QED BY <1>1, <1>2 DEF WorkSound

(* Whatever touches neither the schedule nor an operation. *)
LEMMA WorkStays ==
    ASSUME WorkInv, disputed \subseteq disputed',
           UNCHANGED <<scheduled, catalog, pending, lost, task, pc, draft, result>>
    PROVE  WorkInv'
BY DEF WorkInv, Sound, WorkSound, WorkFits, NoWork

(* One operation moves on. *)
LEMMA WorkMoves ==
    ASSUME WorkInv, disputed \subseteq disputed', NEW t \in Threads,
           UNCHANGED <<scheduled, catalog, pending, lost, task>>,
           \A x \in Threads \ {t} : pc'[x] = pc[x] /\ draft'[x] = draft[x] /\ result'[x] = result[x],
           WorkFits(t) => WorkFits(t)'
    PROVE  WorkInv'
<1> SUFFICES ASSUME NEW s \in Sources, Sound(s)'
             PROVE  WorkSound(s)'
  BY DEF WorkInv
<1>1. WorkSound(s)
  BY DEF WorkInv, Sound
<1>2. ASSUME NEW x \in Threads, task[x].source = s
      PROVE  WorkFits(x)'
  <2>1. CASE x = t
    BY <1>1, <1>2, <2>1 DEF WorkSound
  <2>2. CASE x # t
    BY <1>1, <1>2, <2>2 DEF WorkSound, WorkFits, NoWork
  <2> QED BY <2>1, <2>2
<1> QED BY <1>1, <1>2 DEF WorkSound

LEMMA EndsKeepsWork ==
    ASSUME IInv, WorkInv, NEW t \in Threads, NEW answer \in Results, Ends(t, answer),
           pc[t] \notin {"withdraw", "settle"},
           answer = "ready" /\ task[t].kind \in Imports =>
               catalog.entries[task[t].source] = task[t].config,
           UNCHANGED <<catalog, ghosts, scheduled, pending>>
    PROVE  WorkInv'
<1>1. LibraryType
  BY TypeHalves DEF IInv
<1>2. /\ pc'[t] = "settle" /\ result'[t] = answer /\ task' = task
      /\ \A x \in Threads \ {t} : pc'[x] = pc[x] /\ draft'[x] = draft[x] /\ result'[x] = result[x]
  BY <1>1, MovesEffect, ReportsAnswer DEF Ends, Reports, LibraryType, At
<1>3. WorkFits(t) => WorkFits(t)'
  BY <1>2 DEF WorkFits, NoWork
<1> QED BY <1>2, <1>3, WorkMoves DEF ghosts

LEMMA GoesKeepsWork ==
    ASSUME IInv, WorkInv, NEW t \in Threads, NEW at \in {"verify", "recover", "load"},
           Moves(t, at), UNCHANGED <<task, draft, result>>,
           pc[t] \notin {"withdraw", "settle"},
           UNCHANGED <<catalog, ghosts, scheduled, pending>>
    PROVE  WorkInv'
<1>1. pc'[t] = at /\ \A x \in Threads \ {t} : pc'[x] = pc[x]
  BY TypeHalves, MovesEffect DEF IInv, At
<1>2. WorkFits(t) => WorkFits(t)'
  BY <1>1 DEF WorkFits, NoWork
<1> QED BY <1>1, <1>2, WorkMoves DEF ghosts

LEMMA ImportStepKeepsWork ==
    ASSUME IInv, WorkInv, NEW t \in Threads, ImportStep(t)
    PROVE  WorkInv'
<1>1. UNCHANGED <<catalog, ghosts, scheduled, pending>>
      /\ pc[t] \in {"refreshing", "verify", "recover"}
  BY DEF ImportStep, Terminal, Verify, Recover, Is, refreshVars
<1>2. CASE Goes(t, "verify") \/ (Moves(t, "load") /\ UNCHANGED <<task, draft, result>>)
  BY <1>1, <1>2, GoesKeepsWork DEF Goes
<1>3. CASE \E answer \in {"cancelled", "failed", "conflict"} : Ends(t, answer)
  BY <1>1, <1>3, EndsKeepsWork DEF Results
<1>4. CASE Recovered(t) /\ Ends(t, "ready")
  BY <1>1, <1>4, EndsKeepsWork DEF Results, Recovered
<1> QED BY <1>2, <1>3, <1>4 DEF ImportStep, Terminal, Verify, Recover

LEMMA SecureKeepsWork ==
    ASSUME IInv, WorkInv, NEW t \in Threads, Secure(t)
    PROVE  WorkInv'
<1>1. pc[t] = "secure" /\ UNCHANGED <<catalog, ghosts, scheduled, pending>>
      /\ (Ends(t, "secured") \/ Ends(t, "failed"))
  BY DEF Secure, Is, refreshVars
<1> QED BY <1>1, EndsKeepsWork DEF Results

LEMMA ConflictsKeepsWork ==
    ASSUME IInv, WorkInv, NEW t \in Threads, Conflicts(t), pc[t] \in {"load", "check"},
           UNCHANGED <<catalog, ghosts, scheduled, pending>>
    PROVE  WorkInv'
BY GoesKeepsWork, EndsKeepsWork DEF Conflicts, Goes, Results

LEMMA LoadKeepsWork ==
    ASSUME IInv, WorkInv, NEW t \in Threads, Load(t)
    PROVE  WorkInv'
<1> DEFINE o == task[t]
<1>1. pc[t] = "load" /\ UNCHANGED <<catalog, ghosts, scheduled, pending>>
  BY DEF Load, Is, refreshVars
<1>2. CASE Conflicts(t)
  BY <1>1, <1>2, ConflictsKeepsWork
<1>3. CASE Ends(t, "failed")
  BY <1>1, <1>3, EndsKeepsWork DEF Results
<1>4. CASE Expects(t) /\ AlreadySo(t) /\ Ends(t, "ready")
  <2>1. o.kind \in Imports => catalog.entries[o.source] = o.config
    BY <1>4 DEF AlreadySo, Expects, Imports
  <2> QED BY <1>1, <1>4, <2>1, EndsKeepsWork DEF Results
<1>5. CASE /\ Moves(t, "check")
           /\ o.kind = "commit" => catalog.entries[o.source] \in {None, o.config}
           /\ draft' = [draft EXCEPT ![t] = [base |-> catalog, checked |-> 0]]
           /\ UNCHANGED <<task, result>>
  <2>1. /\ pc'[t] = "check" /\ \A x \in Threads \ {t} : pc'[x] = pc[x]
        /\ draft'[t].base = catalog /\ \A x \in Threads \ {t} : draft'[x] = draft[x]
    BY <1>5, TypeHalves, MovesEffect DEF IInv, LibraryType, At
  <2>2. WorkFits(t) => WorkFits(t)'
    BY <1>1, <1>5, <2>1 DEF WorkFits, NoWork
  <2> QED BY <1>1, <1>5, <2>1, <2>2, WorkMoves DEF ghosts
<1> QED BY <1>2, <1>3, <1>4, <1>5 DEF Load

LEMMA CheckKeepsWork ==
    ASSUME IInv, WorkInv, NEW t \in Threads, Check(t)
    PROVE  WorkInv'
<1>1. pc[t] = "check" /\ UNCHANGED <<catalog, ghosts, scheduled, pending>>
  BY DEF Check, Is, refreshVars
<1>2. CASE Conflicts(t)
  BY <1>1, <1>2, ConflictsKeepsWork
<1>3. CASE /\ Moves(t, "rename")
           /\ draft' = [draft EXCEPT ![t].checked = catalog.revision]
           /\ UNCHANGED <<task, result>>
  <2>1. /\ pc'[t] = "rename" /\ \A x \in Threads \ {t} : pc'[x] = pc[x]
        /\ draft'[t].base = draft[t].base /\ \A x \in Threads \ {t} : draft'[x] = draft[x]
    BY <1>3, TypeHalves, MovesEffect DEF IInv, LibraryType, At
  <2>2. WorkFits(t) => WorkFits(t)'
    BY <1>1, <1>3, <2>1 DEF WorkFits, NoWork
  <2> QED BY <1>1, <1>3, <2>1, <2>2, WorkMoves DEF ghosts
<1> QED BY <1>2, <1>3 DEF Check

LEMMA RenameKeepsWork ==
    ASSUME IInv, WorkInv, NEW t \in Threads, Rename(t)
    PROVE  WorkInv'
<1> DEFINE s == task[t].source
<1>1. pc[t] = "rename" /\ UNCHANGED <<scheduled, pending>>
  BY DEF Rename, Is, refreshVars
<1>2. CASE Ends(t, "storage") /\ UNCHANGED <<catalog, ghosts>>
  BY <1>1, <1>2, EndsKeepsWork DEF Results
<1>3. CASE ~(Ends(t, "storage") /\ UNCHANGED <<catalog, ghosts>>)
  <2>1. /\ catalog' = [revision |-> draft[t].base.revision + 1,
                       entries |-> Entries(t), active |-> Selection(t)]
        /\ lost' = (lost \/ Overlapped(t)) /\ disputed \subseteq disputed'
        /\ \/ /\ task[t].kind = "remove" /\ Moves(t, "purge")
              /\ UNCHANGED <<task, draft, result>>
           \/ Reports(t, "ready")
           \/ Reports(t, "storage") /\ disputed' = disputed \cup {s}
    BY <1>3 DEF Rename
  <2>2. /\ s \in Sources /\ draft[t].checked = draft[t].base.revision
        /\ task[t].kind = "select" => draft[t].base.entries[s] = task[t].config
    BY <1>1 DEF IInv, SavesInv, OperationInv, OperationFits, DraftFits
  <2>3. /\ \A x \in Sources \ {s} : catalog'.entries[x] = draft[t].base.entries[x]
        /\ catalog'.entries[s] = IF task[t].kind = "remove" THEN None ELSE task[t].config
    BY <1>1, <2>1, SavedFits
  <2>4. ~lost' => ~lost /\ draft[t].base = catalog
    BY <1>1, <2>1, <2>2 DEF Overlapped, IInv, SavesInv, RevisionsTell
  <2>5. /\ task' = task
        /\ \/ pc'[t] = "purge" /\ task[t].kind = "remove"
           \/ pc'[t] = "settle" /\ (result'[t] = "ready" \/ s \in disputed')
        /\ \A x \in Threads \ {t} : pc'[x] = pc[x] /\ draft'[x] = draft[x] /\ result'[x] = result[x]
    <3>1. LibraryType
      BY TypeHalves DEF IInv
    <3>2. CASE task[t].kind = "remove" /\ Moves(t, "purge") /\ UNCHANGED <<task, draft, result>>
      BY <3>1, <3>2, MovesEffect DEF At
    <3>3. ASSUME NEW answer \in Results, Reports(t, answer)
          PROVE  /\ task' = task /\ pc'[t] = "settle" /\ result'[t] = answer
                 /\ \A x \in Threads \ {t} :
                       pc'[x] = pc[x] /\ draft'[x] = draft[x] /\ result'[x] = result[x]
      BY <3>1, <3>3, MovesEffect, ReportsAnswer DEF Reports, LibraryType, At
    <3> QED BY <2>1, <3>2, <3>3 DEF Results
  <2> SUFFICES ASSUME NEW z \in Sources, Sound(z)'
               PROVE  WorkSound(z)'
    BY DEF WorkInv
  <2>6. WorkSound(z) /\ draft[t].base = catalog /\ z \notin disputed'
    BY <2>1, <2>4 DEF WorkInv, Sound
  <2>7. CASE z # s
    <3>1. catalog'.entries[z] = catalog.entries[z]
      BY <2>3, <2>6, <2>7
    <3>2. ASSUME NEW x \in Threads, task[x].source = z
          PROVE  WorkFits(x)'
      BY <1>1, <2>5, <2>6, <2>7, <3>1, <3>2 DEF WorkSound, WorkFits, NoWork
    <3> QED BY <1>1, <2>5, <2>6, <3>1, <3>2 DEF WorkSound
  <2>8. CASE z = s
    <3>1. WorkFits(t) /\ \A x \in Threads : task[x].source = s => x = t
      BY <2>6, <2>8 DEF WorkSound
    <3>2. \A p \in pending : p[1][2] # s
      BY <2>6, <2>8 DEF WorkSound
    <3>3. task[t].kind \in {"commit", "replace", "select", "remove"}
      BY <1>1 DEF IInv, SavesInv, OperationInv, OperationFits, KindFits
    <3>4. \A w \in Works : w[2] = s => scheduled[w] \in {None, catalog.entries[s]}
      BY <2>6, <2>8 DEF WorkSound
    <3>5. \A w \in Works : w[2] = s => scheduled[w] \in {None, catalog'.entries[s]}
      BY <1>1, <2>2, <2>3, <2>6, <3>1, <3>3, <3>4 DEF WorkFits, NoWork
    <3>6. WorkFits(t)'
      BY <1>1, <2>3, <2>5, <2>6, <2>8, <3>1, <3>3 DEF WorkFits, NoWork, Imports
    <3> QED BY <1>1, <2>5, <2>8, <3>1, <3>2, <3>5, <3>6 DEF WorkSound
  <2> QED BY <2>7, <2>8
<1> QED BY <1>2, <1>3

(* An operation begins on a source: alone and with nothing that a reload has
   listed, or the source is disputed; a replacement ends the dispute, for it
   withdraws the work of its source.                                        *)
LEMMA StartedKeepsWork ==
    ASSUME IInv, WorkInv, NEW t \in Threads, pc[t] = "idle", NEW kind \in Kinds,
           NEW s \in Sources, NEW c, NEW at \in At \ {"idle", "check", "rename", "settle"},
           Started(t, kind, s, c, at),
           IF kind = "replace" THEN Clears(t, s) /\ NoWork(s)' ELSE Meets(t, s),
           \A w \in Works : w[2] # s \/ kind # "replace" => scheduled'[w] = scheduled[w],
           kind \in {"remove", "removeCache", "disconnect"} => at = "withdraw",
           UNCHANGED <<catalog, pending, lost>>
    PROVE  WorkInv'
<1>1. LibraryType
  BY TypeHalves DEF IInv
<1>2. /\ pc'[t] = at /\ draft' = draft /\ result' = result
      /\ task'[t].kind = kind /\ task'[t].source = s
      /\ task'[t].previous = catalog.entries[s]
      /\ \A x \in Threads \ {t} : pc'[x] = pc[x] /\ task'[x] = task[x]
  BY <1>1, MovesEffect DEF Started, LibraryType
<1>3. /\ \A x \in Sources \ {s} : x \in disputed' <=> x \in disputed
      /\ s \notin disputed' => Undisturbed(t, s) /\ (kind # "replace" => s \notin disputed)
  BY DEF Meets, Clears
<1> SUFFICES ASSUME NEW z \in Sources, Sound(z)'
             PROVE  WorkSound(z)'
  BY DEF WorkInv
<1>4. ~lost /\ z \notin disputed'
  BY DEF Sound
<1>5. CASE z # s
  <2>1. WorkSound(z)
    BY <1>3, <1>4, <1>5 DEF WorkInv, Sound
  <2>2. \A x \in Threads : task'[x].source = z => x # t /\ task[x].source = z
    BY <1>2, <1>5
  <2>3. \A w \in Works : w[2] = z => scheduled'[w] = scheduled[w]
    BY <1>5
  <2>4. ASSUME NEW x \in Threads, task'[x].source = z
        PROVE  WorkFits(x)'
    BY <1>2, <2>1, <2>2, <2>3, <2>4 DEF WorkSound, WorkFits, NoWork
  <2> QED BY <2>1, <2>2, <2>3, <2>4 DEF WorkSound
<1>6. CASE z = s
  <2>1. \A p \in pending : p[1][2] # s
    BY <1>3, <1>4, <1>6 DEF Undisturbed
  <2>2. \A x \in Threads \ {t} : task[x].source # s
    BY <1>3, <1>4, <1>6 DEF Undisturbed
  <2>3. WorkFits(t)'
    BY <1>2 DEF WorkFits
  <2>4. \A w \in Works : w[2] = s => scheduled'[w] \in {None, catalog.entries[s]}
    <3>1. CASE kind = "replace"
      BY <3>1 DEF NoWork
    <3>2. CASE kind # "replace"
      BY <1>3, <1>4, <1>6, <3>2 DEF WorkInv, Sound, WorkSound
    <3> QED BY <3>1, <3>2
  <2> QED BY <1>2, <1>6, <2>1, <2>2, <2>3, <2>4 DEF WorkSound
<1> QED BY <1>5, <1>6

LEMMA BeginKeepsWork ==
    ASSUME IInv, WorkInv, NEW t \in Threads, Begin(t)
    PROVE  WorkInv'
<1>0. PICK s \in Sources : \E kind \in Asked[s] \ Imports :
        /\ Started(t, kind, s, catalog.entries[s], CASE kind = "select" -> "verify"
                                                     [] kind = "reconnect" -> "secure"
                                                     [] OTHER -> "withdraw")
        /\ Meets(t, s)
  BY DEF Begin
<1>1. PICK kind \in Asked[s] \ Imports :
        /\ Started(t, kind, s, catalog.entries[s], CASE kind = "select" -> "verify"
                                                     [] kind = "reconnect" -> "secure"
                                                     [] OTHER -> "withdraw")
        /\ Meets(t, s)
  BY <1>0
<1>2. pc[t] = "idle" /\ UNCHANGED <<catalog, scheduled, pending, lost>>
  BY DEF Begin, Is, refreshVars
<1>3. kind \in {"select", "remove", "removeCache", "disconnect", "reconnect"} /\ kind \in Kinds
  BY LibraryAssumption DEF Kinds, Imports
<1>4. PICK at \in {"verify", "withdraw", "secure"} :
        /\ Started(t, kind, s, catalog.entries[s], at)
        /\ kind \in {"remove", "removeCache", "disconnect"} => at = "withdraw"
  BY <1>1, <1>3
<1> QED BY <1>1, <1>2, <1>3, <1>4, StartedKeepsWork DEF At

LEMMA BeginImportKeepsWork ==
    ASSUME IInv, WorkInv, NEW t \in Threads, BeginImport(t)
    PROVE  WorkInv'
<1>1. RefreshType
  BY TypeHalves DEF IInv
<1>2. PICK s \in Sources, c \in Configs :
        \/ Started(t, "commit", s, c, "refreshing") /\ Meets(t, s) /\ UNCHANGED scheduled
        \/ Started(t, "replace", s, c, "refreshing") /\ Clears(t, s) /\ Unscheduling(s)
  BY OfferedConfigs DEF BeginImport
<1>3. pc[t] = "idle" /\ UNCHANGED <<catalog, pending, lost>>
  BY DEF BeginImport, Is
<1>4. CASE Started(t, "commit", s, c, "refreshing") /\ Meets(t, s) /\ UNCHANGED scheduled
  BY <1>3, <1>4, StartedKeepsWork DEF Kinds, Imports, At
<1>5. CASE Started(t, "replace", s, c, "refreshing") /\ Clears(t, s) /\ Unscheduling(s)
  <2>1. NoWork(s)' /\ \A w \in Works : w[2] # s => scheduled'[w] = scheduled[w]
    BY <1>1, <1>5, UnschedulingEffect DEF NoWork
  <2> QED BY <1>3, <1>5, <2>1, StartedKeepsWork DEF Kinds, Imports, At
<1> QED BY <1>2, <1>4, <1>5

(* Whoever withdraws the work of a source undisturbed makes it sound. *)
LEMMA WithdrawKeepsWork ==
    ASSUME IInv, WorkInv, NEW t \in Threads, Withdraw(t)
    PROVE  WorkInv'
<1> DEFINE s == task[t].source
<1>1. LibraryType /\ RefreshType
  BY TypeHalves DEF IInv
<1>2. /\ pc[t] = "withdraw" /\ UNCHANGED <<catalog, pending, lost, task>>
      /\ Unscheduling(s) /\ Clears(t, s)
      /\ \/ Ends(t, "failed") \/ Ends(t, "disconnected")
         \/ Goes(t, "load") \/ Goes(t, "purge")
  BY DEF Withdraw, Is, Ends, Reports, Goes
<1>3. s \in Sources /\ task[t].kind \in {"remove", "removeCache", "disconnect"}
  BY <1>2 DEF IInv, SavesInv, OperationInv, OperationFits, KindFits
<1>4. \A x \in Threads \ {t} : pc'[x] = pc[x] /\ draft'[x] = draft[x] /\ result'[x] = result[x]
  BY <1>1, <1>2, MovesEffect DEF Ends, Reports, Goes, LibraryType, At
<1>5. NoWork(s)' /\ \A w \in Works : w[2] # s => scheduled'[w] = scheduled[w]
  BY <1>1, <1>2, <1>3, UnschedulingEffect DEF NoWork
<1>6. /\ \A x \in Sources \ {s} : x \in disputed' <=> x \in disputed
      /\ s \notin disputed' => Undisturbed(t, s)
  BY <1>2 DEF Clears
<1> SUFFICES ASSUME NEW z \in Sources, Sound(z)'
             PROVE  WorkSound(z)'
  BY DEF WorkInv
<1>7. ~lost /\ z \notin disputed'
  BY <1>2 DEF Sound
<1>8. CASE z # s
  <2>1. WorkSound(z)
    BY <1>6, <1>7, <1>8 DEF WorkInv, Sound
  <2>2. \A w \in Works : w[2] = z => scheduled'[w] = scheduled[w]
    BY <1>5, <1>8
  <2>3. ASSUME NEW x \in Threads, task[x].source = z
        PROVE  WorkFits(x)'
    BY <1>2, <1>4, <1>8, <2>1, <2>2, <2>3 DEF WorkSound, WorkFits, NoWork
  <2> QED BY <1>2, <2>1, <2>2, <2>3 DEF WorkSound
<1>9. CASE z = s
  <2>1. /\ \A p \in pending : p[1][2] # s
        /\ \A x \in Threads \ {t} : task[x].source # s
    BY <1>6, <1>7, <1>9 DEF Undisturbed
  <2>2. WorkFits(t)'
    BY <1>2, <1>3, <1>5 DEF WorkFits, Imports
  <2> QED BY <1>2, <1>5, <1>9, <2>1, <2>2 DEF WorkSound, NoWork
<1> QED BY <1>8, <1>9

LEMMA SettleKeepsWork ==
    ASSUME IInv, WorkInv, NEW t \in Threads, Settle(t)
    PROVE  WorkInv'
<1> DEFINE s == task[t].source
<1>1. LibraryType /\ RefreshType
  BY TypeHalves DEF IInv
<1>2. /\ pc[t] = "settle" /\ Moves(t, "done")
      /\ task' = [task EXCEPT ![t] = NoTask] /\ result' = [result EXCEPT ![t] = None]
      /\ UNCHANGED <<draft, catalog, lost, disputed, pending>>
      /\ \/ /\ task[t].kind \in Imports /\ result[t] = "ready"
            /\ Scheduling({"periodic"}, s, task[t].config)
         \/ /\ \/ task[t].kind = "replace" /\ result[t] # "ready"
               \/ task[t].kind = "reconnect"
            /\ Scheduling(Lanes, s, task[t].previous)
         \/ UNCHANGED scheduled
  BY DEF Settle, Is, ghosts
<1>3. s \in Sources /\ task[t].config \in Configs
  BY <1>2 DEF IInv, SavesInv, OperationInv, OperationFits
<1>4. /\ \A x \in Threads \ {t} : /\ pc'[x] = pc[x] /\ task'[x] = task[x]
                                  /\ result'[x] = result[x] /\ draft'[x] = draft[x]
      /\ task'[t] = NoTask /\ NoTask.source \notin Sources
  BY <1>1, <1>2, MovesEffect, LibraryAssumption DEF LibraryType, At, NoTask
<1>5. /\ \A w \in Works : w[2] # s => scheduled'[w] = scheduled[w]
      /\ \/ /\ task[t].kind \in Imports /\ result[t] = "ready"
            /\ \A w \in Works : scheduled'[w] \in {scheduled[w], task[t].config}
         \/ /\ \/ task[t].kind = "replace" /\ result[t] # "ready"
               \/ task[t].kind = "reconnect"
            /\ \A w \in Works : scheduled'[w] \in {scheduled[w], task[t].previous}
         \/ UNCHANGED scheduled
  <2>1. {"periodic"} \in SUBSET Lanes /\ Lanes \in SUBSET Lanes
    BY DEF Lanes
  <2>2. ScheduleType /\ task[t].previous \in Configs \cup {None}
    BY <1>1 DEF RefreshType, LibraryType, Tasks
  <2>3. ASSUME NEW lanes \in SUBSET Lanes, NEW d \in Configs \cup {None},
               Scheduling(lanes, s, d)
        PROVE  /\ \A w \in Works : w[2] # s => scheduled'[w] = scheduled[w]
               /\ \A w \in Works : scheduled'[w] \in {scheduled[w], d}
    BY <1>3, <2>2, <2>3, SchedulingEffect
  <2> QED BY <1>2, <1>3, <2>1, <2>2, <2>3
<1> SUFFICES ASSUME NEW z \in Sources, Sound(z)'
             PROVE  WorkSound(z)'
  BY DEF WorkInv
<1>6. WorkSound(z)
  BY <1>2 DEF WorkInv, Sound
<1>7. \A x \in Threads : task'[x].source = z => x # t /\ task[x].source = z
  BY <1>4
<1>8. CASE z # s
  <2>1. \A w \in Works : w[2] = z => scheduled'[w] = scheduled[w]
    BY <1>5, <1>8
  <2>2. ASSUME NEW x \in Threads, task'[x].source = z
        PROVE  WorkFits(x)'
    BY <1>2, <1>4, <1>6, <1>7, <2>1, <2>2 DEF WorkSound, WorkFits, NoWork
  <2> QED BY <1>2, <1>6, <1>7, <2>1, <2>2 DEF WorkSound
<1>9. CASE z = s
  <2>1. WorkFits(t) /\ \A x \in Threads : task'[x].source # s
    BY <1>6, <1>7, <1>9 DEF WorkSound
  <2>2. \A p \in pending : p[1][2] # s
    BY <1>6, <1>9 DEF WorkSound
  <2>3. \A w \in Works : w[2] = s => scheduled[w] \in {None, catalog.entries[s]}
    BY <1>6, <1>9 DEF WorkSound
  <2>4. \A w \in Works : w[2] = s => scheduled'[w] \in {None, catalog.entries[s]}
    BY <1>2, <1>5, <2>1, <2>3 DEF WorkFits
  <2> QED BY <1>2, <1>9, <2>1, <2>2, <2>4 DEF WorkSound
<1> QED BY <1>8, <1>9

(* A flight that lands may take a one-shot record away. *)
LEMMA LandKeepsWork ==
    ASSUME IInv, WorkInv, NEW s \in Sources, Land(s)
    PROVE  WorkInv'
<1>1. ScheduleType
  BY TypeHalves DEF IInv, RefreshType
<1>2. UNCHANGED <<catalog, lost, disputed, pending, task, pc, draft, result>>
  BY DEF Land, libraryVars, operation, ghosts
<1>3. UNCHANGED scheduled \/ scheduled' = [scheduled EXCEPT ![<<"once", s>>] = None]
  BY DEF Land, Returns
<1>4. \A w \in Works : scheduled'[w] \in {scheduled[w], None}
  BY <1>1, <1>3 DEF ScheduleType, Schedules
<1> SUFFICES ASSUME NEW z \in Sources, Sound(z)'
             PROVE  WorkSound(z)'
  BY DEF WorkInv
<1>5. WorkSound(z)
  BY <1>2 DEF WorkInv, Sound
<1>6. ASSUME NEW x \in Threads, task[x].source = z
      PROVE  WorkFits(x)'
  BY <1>2, <1>4, <1>5, <1>6 DEF WorkSound, WorkFits, NoWork
<1> QED BY <1>2, <1>4, <1>5, <1>6 DEF WorkSound

LEMMA StartupKeepsWork ==
    ASSUME IInv, WorkInv, NEW w \in Works, NEW c \in Configs, Startup(w, c)
    PROVE  WorkInv'
<1>1. ScheduleType /\ w[2] \in Sources /\ {w[1]} \in SUBSET Lanes
  BY TypeHalves DEF IInv, RefreshType, Works
<1>2. /\ UNCHANGED <<catalog, lost, disputed, task, pc, draft, result>>
      /\ <<w, c>> \in pending /\ pending' \subseteq pending /\ Scheduling({w[1]}, w[2], c)
  BY DEF Startup, libraryVars, operation, ghosts
<1>3. /\ \A x \in Works : x[2] # w[2] => scheduled'[x] = scheduled[x]
      /\ \A x \in Works : scheduled'[x] \in {scheduled[x], c}
  BY <1>1, <1>2, SchedulingEffect
<1> SUFFICES ASSUME NEW s \in Sources, Sound(s)'
             PROVE  WorkSound(s)'
  BY DEF WorkInv
<1>4. WorkSound(s)
  BY <1>2 DEF WorkInv, Sound
<1>5. CASE s # w[2]
  <2>1. \A x \in Works : x[2] = s => scheduled'[x] = scheduled[x]
    BY <1>3, <1>5
  <2>2. ASSUME NEW x \in Threads, task[x].source = s
        PROVE  WorkFits(x)'
    BY <1>2, <1>4, <2>1, <2>2 DEF WorkSound, WorkFits, NoWork
  <2> QED BY <1>2, <1>4, <2>1, <2>2 DEF WorkSound
<1>6. CASE s = w[2]
  <2> DEFINE q == <<w, c>>
  <2>1. q \in pending /\ q[1] = w /\ q[2] = c
    BY <1>2
  <2> HIDE DEF q
  <2>2. c = catalog.entries[s] /\ \A t \in Threads : task[t].source # s
    BY <1>4, <1>6, <2>1 DEF WorkSound
  <2> QED BY <1>2, <1>3, <1>4, <2>2 DEF WorkSound
<1> QED BY <1>5, <1>6

(* A reload lists what the catalog says of a source, and disputes the sources
   that operations are on.                                                   *)
LEMMA ReloadKeepsWork ==
    ASSUME IInv, WorkInv, Reload
    PROVE  WorkInv'
<1>1. LibraryType
  BY TypeHalves DEF IInv
<1>2. PICK connected \in SUBSET Sources :
        /\ \A p \in pending' \ pending : /\ p[1] \in Works /\ p[1][2] \in connected
                                       /\ p = <<p[1], catalog.entries[p[1][2]]>>
                                       /\ catalog.entries[p[1][2]] \in Configs
        /\ disputed' = disputed \cup {s \in connected : \E t \in Threads : task[t].source = s}
  BY <1>1, ReloadEffect
<1>3. UNCHANGED <<catalog, lost, task, pc, draft, result, scheduled>>
  BY DEF Reload, operation
<1> SUFFICES ASSUME NEW s \in Sources, Sound(s)'
             PROVE  WorkSound(s)'
  BY DEF WorkInv
<1>4. WorkSound(s) /\ s \notin disputed'
  BY <1>2, <1>3 DEF WorkInv, Sound
<1>5. ASSUME NEW p \in pending', p[1][2] = s
      PROVE  p[2] = catalog.entries[s] /\ \A t \in Threads : task[t].source # s
  <2>1. CASE p \in pending
    BY <1>4, <1>5, <2>1 DEF WorkSound
  <2>2. CASE p \notin pending
    <3>1. s \in connected /\ p = <<p[1], catalog.entries[s]>>
      BY <1>2, <1>5, <2>2
    <3>2. p[2] = catalog.entries[s]
      BY <3>1
    <3> QED BY <1>2, <1>4, <3>1, <3>2
  <2> QED BY <2>1, <2>2
<1>6. ASSUME NEW x \in Threads, task[x].source = s
      PROVE  WorkFits(x)'
  BY <1>3, <1>4, <1>6 DEF WorkSound, WorkFits, NoWork
<1> QED BY <1>3, <1>4, <1>5, <1>6 DEF WorkSound

LEMMA WorkStep ==
    ASSUME IInv, WorkInv, [Next]_vars
    PROVE  WorkInv'
<1>1. ASSUME NEW t \in Threads, ThreadStep(t)
      PROVE  WorkInv'
  <2>1. CASE Purge(t)
    BY <2>1, WorkStays DEF Purge
  <2>2. CASE PurgeEnds(t)
    <3>1. /\ pc[t] = "purge" /\ UNCHANGED <<catalog, ghosts, scheduled, pending>>
          /\ Ends(t, "removed") \/ Ends(t, "failed")
      BY <2>2 DEF PurgeEnds, Is, refreshVars
    <3> QED BY <3>1, EndsKeepsWork DEF Results
  <2> QED BY <1>1, <2>1, <2>2, ImportStepKeepsWork, LoadKeepsWork, CheckKeepsWork,
             RenameKeepsWork, WithdrawKeepsWork, SecureKeepsWork, SettleKeepsWork
          DEF ThreadStep, SaveStep, ManageStep
<1>2. ASSUME NEW t \in Threads, UserStep(t)
      PROVE  WorkInv'
  <2>1. CASE CancelImport(t) \/ CloseImport(t)
    BY <2>1, WorkStays DEF CancelImport, CloseImport, ghosts
  <2> QED BY <1>2, <2>1, BeginImportKeepsWork, BeginKeepsWork DEF UserStep
<1>3. CASE UNCHANGED <<libraryVars, scheduled, pending>>
  BY <1>3, WorkStays DEF libraryVars, operation, ghosts
<1>4. ASSUME NEW r \in Runners, JobStep(r)
      PROVE  WorkInv'
  BY <1>3, <1>4 DEF JobStep, Resolve, Admit
<1>5. ASSUME NEW x \in Works, WorkerStep(x)
      PROVE  WorkInv'
  BY <1>3, <1>5 DEF WorkerStep, StartWorker, StopWorker
<1>6. CASE UNCHANGED vars
  BY <1>3, <1>6 DEF vars, refreshVars
<1> QED BY <1>1, <1>2, <1>4, <1>5, <1>6, LandKeepsWork, StartupKeepsWork, ReloadKeepsWork DEF Next

(* Either lane refreshes what the catalog lists or nothing, for any number of
   operations and reloads, unless one of the named exceptions has happened
   since the work of the source was last withdrawn undisturbed.              *)
THEOREM WorkFollows == Spec => []WorkFollowsCatalog
<1>1. IInv /\ WorkInv /\ [Next]_vars => WorkInv'
  BY WorkStep
<1>2. WorkInv => WorkFollowsCatalog
  <2> SUFFICES ASSUME WorkInv, ~lost, NEW w \in Works, w[2] \notin disputed
               PROVE  scheduled[w] \in {None, catalog.entries[w[2]]}
    BY DEF WorkFollowsCatalog
  <2>1. w[2] \in Sources
    BY SourceOfWork
  <2> QED BY <2>1 DEF WorkInv, Sound, WorkSound
<1> QED BY <1>1, <1>2, WorkInit, InvHolds, PTL DEF Spec

=============================================================================
