-------------------------- MODULE NotesWorkspace --------------------------
(***************************************************************************)
(* The desktop engine over a directory of Org files and its index: the     *)
(* write handlers of slipbox-engine, the edits of slipbox-write and the    *)
(* syncs of slipbox-store they end with.  One engine serves requests one   *)
(* after the other.  A handler looks up nodes in the index, each of its    *)
(* edits reads files from disk and commits a transaction of writes and     *)
(* removals, and the changed files are then scanned and synced.            *)
(*                                                                         *)
(* Somebody else saves files at any time: an editor, git, another daemon.  *)
(* Any step on a file may fail, and the engine may die between two steps.  *)
(* The text of an entry is an opaque note and tags, aliases, schedules and *)
(* slipbox: links are not told apart, so an edit that only changes those   *)
(* writes back the entries it read, and the title that refiling a whole    *)
(* file takes from the index (document.rs:125-128) is that of the note it  *)
(* moves.  A file is replaced by one rename, as on Unix: the branch for    *)
(* Windows (transaction.rs:184-188) removes the target first.              *)
(***************************************************************************)
EXTENDS NoteIndex

CONSTANTS
    Corpus,     \* the files at the start, indexed
    MaxLevel, MaxSaves, MaxRequests, MaxFaults    \* bounds

(* A file of the directory: its own entry, then its headings. *)
IsDocument(doc) ==
    /\ Len(doc) <= MaxLines
    /\ \A i \in DOMAIN doc :
        /\ doc[i] \in [level : IF i = 1 THEN {0} ELSE 1..MaxLevel,
                       note : Notes \cup {None}, id : Ids \cup {None}]

ASSUME WorkspaceAssumption ==
    /\ None \notin Files
    /\ MaxLevel \in Nat \ {0}
    /\ MaxSaves \in Nat /\ MaxRequests \in Nat /\ MaxFaults \in Nat
    /\ Corpus \in [Files -> Seq([level : Nat, note : Notes \cup {None},
                                 id : Ids \cup {None}])]
    /\ \A f \in Files : IsDocument(Corpus[f])
    /\ ~Clash(Corpus)

VARIABLES
    disk,       \* the entries of every file
    index,      \* the rows and counts of the index database
    op,         \* the request under way
    stale,      \* files changed on disk since the index last read them (history)
    left        \* saves, requests and faults still to come (bound)

vars == <<disk, index, op, stale, left>>

-----------------------------------------------------------------------------
(* Documents.                                                              *)

Max2(a, b) == IF a > b THEN a ELSE b
Exists(f) == disk[f] # Absent
Entry(level, note, id) == [level |-> level, note |-> note, id |-> id]
Blank == Entry(0, None, None)

(* A property drawer with the id takes a line of its own, and a file need
   not begin with text: the line at which an entry starts.               *)
Line(doc, i) ==
    IF i = 1 THEN 1
    ELSE i - (IF doc[1].note = None THEN 1 ELSE 0)
           + Cardinality({j \in 1..(i - 1) : doc[j].id # None})

(* The entry on disk that a record of the index names: its line may hold
   another heading by now, or none.                                        *)
Spots(doc, r) ==
    IF r.level = 0 THEN {1} ELSE {i \in 2..Len(doc) : Line(doc, i) = r.line}
Place(doc, r) == CHOOSE i \in Spots(doc, r) : TRUE

(* The entry after the subtree of entry i, for a given level. *)
EndOf(doc, i, level) ==
    CHOOSE e \in (i + 1)..(Len(doc) + 1) :
        /\ e = Len(doc) + 1 \/ doc[e].level <= level
        /\ \A k \in (i + 1)..(e - 1) : doc[k].level > level

SubtreeEnd(doc, i) == EndOf(doc, i, doc[i].level)

(* Where a subtree goes under a target: its level is the index's, the entries
   are those on disk.                                                        *)
Insertion(doc, to) ==
    IF to.level = 0 THEN Len(doc) + 1 ELSE EndOf(doc, Place(doc, to), to.level)

Cut(doc, a, b) == SubSeq(doc, 1, a - 1) \o SubSeq(doc, b, Len(doc))
Paste(doc, at, entries) ==
    SubSeq(doc, 1, at - 1) \o entries \o SubSeq(doc, at, Len(doc))

Relevel(entries, by) ==
    [k \in DOMAIN entries |-> [entries[k] EXCEPT !.level = Max2(1, @ + by)]]

(* A subtree as it becomes a child of its target, with its id. *)
Shift(entries, to, id) ==
    LET moved == Relevel(entries, to.level + 1 - entries[1].level)
    IN  [moved EXCEPT ![1].id = id]

(* A region is moved by its shallowest heading. *)
Shallowest(entries) ==
    CHOOSE m \in {entries[k].level : k \in DOMAIN entries} :
        \A k \in DOMAIN entries : m <= entries[k].level

HasContent(doc) == Len(doc) > 1 \/ doc[1].note # None \/ doc[1].id # None

Promotable(doc) ==
    /\ Len(doc) > 1 /\ ~HasContent(<<doc[1]>>)
    /\ {k \in DOMAIN doc : doc[k].level = 1} = {2}

(* Mutant: the heading stays one. *)
MutPromoted(doc, id) == Relevel(Tail(doc), -1)
Promoted(doc, id) ==
    <<[doc[2] EXCEPT !.level = 0, !.id = id]>> \o Relevel(SubSeq(doc, 3, Len(doc)), -1)
Demoted(doc, id) == <<Blank>> \o Relevel([doc EXCEPT ![1].id = id], 1)

(* Mutant: the first heading of the run is lost. *)
MutLandings(doc, i, run, readings) == {Paste(doc, i + 1, Tail(run))}

(* A run that lands in the middle of entry i, whose id is then read as one of
   those given: its drawer is before the run, torn by it, or behind it, and
   then it is the last heading of the run that has it.                       *)
Landings(doc, i, run, readings) ==
    LET Landing(id, end) == Paste([doc EXCEPT ![i].id = id], i + 1,
                                  [run EXCEPT ![Len(run)].id = end])
    IN  {Landing(id, run[Len(run)].id) : id \in readings}
            \cup (IF doc[i].id = None THEN {} ELSE {Landing(None, doc[i].id)})

Extracted(entries, id) ==
    <<Entry(0, entries[1].note, id)>> \o Relevel(Tail(entries), -1)

(* Bound: longer or deeper documents are not explored. *)
Fits(doc) ==
    Len(doc) <= MaxLines /\ \A k \in DOMAIN doc : doc[k].level <= MaxLevel

Holding(files, n) ==
    {k \in Keys : k[2] <= Len(files[k[1]]) /\ files[k[1]][k[2]].note = n}
OnDisk == {n \in Notes : Holding(disk, n) # {}}

(* A new UUID, and text nobody has written yet. *)
FreshIds == Ids \ (Named(disk, Files) \cup Named(index.rows, Files))
FreshNotes == Notes \ OnDisk

(* The id of an entry may stand where it is not read, and text torn apart may
   read as an id: one that is read nowhere yet.                              *)
UnreadIds == Ids \ Named(disk, Files)

(* The reader of a file skips keywords before the drawer and stops at a
   planning line, that of a heading the other way round.  An entry that
   becomes the other kind keeps the id it is read to have or has none any
   longer, and one that had none may turn out to have one.                *)
Rereadings(id) == IF id = None THEN {None} \cup UnreadIds ELSE {id, None}

-----------------------------------------------------------------------------
(* Requests.                                                               *)

(* What the index says of a node: where it is, its level and its id. *)
Record(k) ==
    LET doc == index.rows[k[1]]
    IN  [file |-> k[1], line |-> Line(doc, k[2]),
         level |-> doc[k[2]].level, id |-> doc[k[2]].id]
Anchors == {Record(k) : k \in {k \in Keys : k[2] <= Len(index.rows[k[1]])}}
Noted == {r \in Anchors : r.level = 0 \/ r.id # None}

NoRecord == [file |-> None, line |-> 1, level |-> 0, id |-> None]
Whole(f) == [NoRecord EXCEPT !.file = f]
SameNode(r, s) == r.file = s.file /\ r.line = s.line /\ r.level = s.level
Edit(kind, at, to) == [kind |-> kind, at |-> at, to |-> to]

Idle(answer) ==
    [phase |-> "idle", request |-> answer, todo |-> <<>>, seen |-> <<>>,
     writes |-> <<>>, removals |-> {}, changed |-> {}, removed |-> {},
     scan |-> <<>>]

Editing(edits) == [Idle("edit") EXCEPT !.phase = "editing", !.todo = edits]

Request(o) ==
    /\ op.phase = "idle" /\ left.requests > 0
    /\ op' = o
    /\ left' = [left EXCEPT !.requests = @ - 1]
    /\ UNCHANGED <<disk, index, stale>>

(* The handlers: capture.rs, structural.rs, glossary.rs and link_rewrite.rs. *)
EnsureNodeId ==
    \E r \in Anchors :
        r.id = None /\ Request(Editing(<<Edit("ensure_id", r, NoRecord)>>))

(* Metadata, grades and marks; marking may also set a status. *)
UpdateNode ==
    \E r \in Noted : \E n \in 1..2 :
        Request(Editing([k \in 1..n |-> Edit("touch", r, NoRecord)]))

CaptureNode == Request(Editing(<<Edit("create", NoRecord, NoRecord)>>))

EnsureFileNode ==
    \E f \in Files : Request(Editing(<<Edit("ensure_file", Whole(f), NoRecord)>>))

AppendHeading ==
    \E f \in Files :
        Request(Editing(<<Edit("ensure_file", Whole(f), NoRecord),
                          Edit("append", Whole(f), NoRecord)>>))

AppendHeadingToNode ==
    \E r \in Noted : Request(Editing(<<Edit("append", r, NoRecord)>>))

RefileSubtree ==
    \E source \in Anchors, target \in Noted :
        /\ ~SameNode(source, target)
        /\ source.level = 0 => source.file # target.file
        /\ Request(Editing(<<Edit("refile", source, target)>>))

RefileRegion ==
    \E f \in Files, target \in Noted :
        Request(Editing(<<Edit("region", Whole(f), target)>>))

ExtractSubtree ==
    \E source \in Anchors, f \in Files :
        /\ source.level > 0 /\ source.file # f
        /\ Request(Editing(<<Edit("extract", source, Whole(f))>>))

PromoteFile == \E f \in Files : Request(Editing(<<Edit("promote", Whole(f), NoRecord)>>))
DemoteFile == \E f \in Files : Request(Editing(<<Edit("demote", Whole(f), NoRecord)>>))

(* The slipbox: links of a file become id: links to notes that are given an
   id first, in a transaction of its own.                                   *)
RewriteLinks ==
    \E f \in Files, r \in Noted :
        /\ Exists(f)
        /\ Request(Editing(
            (IF r.id = None THEN <<Edit("ensure_id", r, NoRecord)>> ELSE <<>>)
                \o <<Edit("relink", Whole(f), NoRecord)>>))

(* index_file syncs a file that exists and forgets one that does not. *)
IndexFile ==
    \E f \in Files :
        Request(IF Exists(f) THEN [Idle("file") EXCEPT !.phase = "scanning", !.changed = {f}]
                ELSE [Idle("file") EXCEPT !.phase = "unindexing", !.removed = {f}])

(* The walk of the root lists the files before it reads the first. *)
IndexRoot ==
    LET listed == {f \in Files : Exists(f)} IN
    Request([Idle("root") EXCEPT !.changed = listed,
                                 !.phase = IF listed = {} THEN "syncing" ELSE "scanning"])

Begin ==
    \/ EnsureNodeId \/ UpdateNode \/ CaptureNode \/ EnsureFileNode
    \/ AppendHeading \/ AppendHeadingToNode \/ RefileSubtree \/ RefileRegion
    \/ ExtractSubtree \/ PromoteFile \/ DemoteFile \/ RewriteLinks
    \/ IndexFile \/ IndexRoot

-----------------------------------------------------------------------------
(* Edits.  Each reads what it needs from disk and leaves a transaction.    *)

Now == Head(op.todo)

Misplaced(r) == ~Exists(r.file) \/ Spots(disk[r.file], r) = {}
Source == disk[Now.at.file]
Target == disk[Now.to.file]
Start == Place(Source, Now.at)
End == IF Now.at.level = 0 THEN Len(Source) + 1 ELSE SubtreeEnd(Source, Start)
Subtree == SubSeq(Source, Start, End - 1)

Put(f, doc) == [file |-> f, doc |-> doc]

(* Mutant: the rows of a removed file are forgotten. *)
MutOnward(o) ==
    IF o.writes # <<>> \/ o.removals # {} THEN [o EXCEPT !.phase = "writing"]
    ELSE IF Len(o.todo) > 1
         THEN [o EXCEPT !.phase = "editing", !.todo = Tail(o.todo)]
         ELSE [o EXCEPT !.phase = "scanning", !.removed = {}, !.todo = <<>>, !.seen = <<>>]

(* Once an edit has nothing left to write, the next one begins; after the
   last the rows of what was removed are deleted, and the rest is scanned. *)
Onward(o) ==
    IF o.writes # <<>> \/ o.removals # {} THEN [o EXCEPT !.phase = "writing"]
    ELSE IF Len(o.todo) > 1
         THEN [o EXCEPT !.phase = "editing", !.todo = Tail(o.todo)]
         ELSE [o EXCEPT !.phase = IF o.removed # {} THEN "unindexing" ELSE "scanning",
                        !.todo = <<>>, !.seen = <<>>]

Transact(files, writes, removals) ==
    /\ \A k \in DOMAIN writes : Fits(writes[k].doc)
    /\ op' = Onward([op EXCEPT !.seen = [f \in files |-> disk[f]], !.writes = writes,
                               !.removals = removals])
    /\ UNCHANGED <<disk, index, stale, left>>

AssignId ==
    /\ Now.kind = "ensure_id" /\ ~Misplaced(Now.at)
    /\ \E i \in FreshIds :
        Transact({Now.at.file}, <<Put(Now.at.file, [Source EXCEPT ![Start].id = i])>>, {})

Touch ==
    /\ Now.kind \in {"touch", "relink"} /\ ~Misplaced(Now.at)
    /\ Transact({Now.at.file}, <<Put(Now.at.file, Source)>>, {})

(* A new file note, at a path nobody has taken, or at the given one. *)
CreateFile ==
    \E f \in Files, n \in FreshNotes, i \in FreshIds :
        /\ Now.kind = "create" \/ (Now.kind = "ensure_file" /\ Now.at.file = f)
        /\ ~Exists(f)
        /\ Transact({f}, <<Put(f, <<Entry(0, n, i)>>)>>, {})

FileIsThere ==
    /\ Now.kind = "ensure_file" /\ Exists(Now.at.file)
    /\ op' = Onward([op EXCEPT !.changed = @ \cup {Now.at.file}])
    /\ UNCHANGED <<disk, index, stale, left>>

(* Where a heading goes under a node: the line of the node need not hold a
   heading, it is the entry it lies in that counts.                        *)
Lines(doc) == Line(doc, Len(doc) + 1) - 1
Under(doc, r) ==
    IF r.level = 0 THEN {Len(doc) + 1}
    ELSE {EndOf(doc, i, r.level) : i \in
            {i \in DOMAIN doc :
                /\ r.line <= Lines(doc) /\ Line(doc, i) <= r.line
                /\ i < Len(doc) => r.line < Line(doc, i + 1)}}

AddHeading ==
    /\ Now.kind = "append" /\ Exists(Now.at.file)
    /\ \E at \in Under(Source, Now.at), n \in FreshNotes :
        LET doc == Paste(Source, at, <<Entry(Now.at.level + 1, n, None)>>)
        IN  Transact({Now.at.file}, <<Put(Now.at.file, doc)>>, {})

(* Mutant: a moved subtree always gets a new id. *)
MutMovedIds == FreshIds

(* A moved subtree keeps the id the index knows, or gets a new one. *)
MovedIds == IF Now.at.id # None THEN {Now.at.id} ELSE FreshIds

Elsewhere == Now.at.file # Now.to.file

RefileWithin ==
    /\ Now.kind = "refile" /\ ~Elsewhere
    /\ ~Misplaced(Now.at) /\ ~Misplaced(Now.to)
    /\ Now.to.level > 0 => Place(Source, Now.to) \notin Start..(End - 1)
    /\ \E i \in MovedIds :
        LET at  == Insertion(Source, Now.to)
            to  == IF at > Start THEN at - (End - Start) ELSE at
            doc == Paste(Cut(Source, Start, End), to, Shift(Subtree, Now.to, i))
        IN  Transact({Now.at.file}, <<Put(Now.at.file, doc)>>, {})

(* What moves to another file is written there first; what it leaves behind
   is then written, or its file removed when nothing is left.              *)
Leaving(rest) == IF HasContent(rest) THEN <<Put(Now.at.file, rest)>> ELSE <<>>
Emptied(rest) == IF HasContent(rest) THEN {} ELSE {Now.at.file}

(* Mutant: the source is written before the target. *)
MutMove(doc, rest) == Append(Leaving(rest), Put(Now.to.file, doc))
Move(doc, rest) == <<Put(Now.to.file, doc)>> \o Leaving(rest)

RefileAcross ==
    /\ Now.kind = "refile" /\ Elsewhere
    /\ ~Misplaced(Now.at) /\ ~Misplaced(Now.to)
    /\ \E i \in MovedIds :
        LET rest == IF Now.at.level = 0 THEN <<Blank>> ELSE Cut(Source, Start, End)
            doc  == Paste(Target, Insertion(Target, Now.to), Shift(Subtree, Now.to, i))
        IN  Transact({Now.at.file, Now.to.file}, Move(doc, rest), Emptied(rest))

(* A region is a run of entries marked in the file.  The place it goes to is
   found before it is cut out and corrected by its length, also when the place
   lies inside the region: the run then lands somewhere before the region, in
   the middle of an entry (its stars and its note are not torn).             *)
RefileRegionRun ==
    /\ Now.kind = "region" /\ Exists(Now.at.file) /\ ~Misplaced(Now.to)
    /\ \E a \in 2..Len(Source) : \E b \in (a + 1)..(Len(Source) + 1) :
        LET run   == SubSeq(Source, a, b - 1)
            moved == Relevel(run, Now.to.level + 1 - Shallowest(run))
            rest  == Cut(Source, a, b)
            at    == Insertion(Target, Now.to)
            to    == IF at > a THEN at - (b - a) ELSE at
        IN  IF Elsewhere
            THEN Transact({Now.at.file, Now.to.file}, Move(Paste(Target, at, moved), rest),
                          Emptied(rest))
            ELSE /\ Now.to.level > 0 => Place(Source, Now.to) \notin a..(b - 1)
                 /\ \E doc \in
                        IF at <= a \/ at >= b THEN {Paste(rest, to, moved)}
                        ELSE UNION {Landings(rest, i, moved, {rest[i].id, None} \cup UnreadIds) :
                                        i \in 1..(a - 1)} :
                        Transact({Now.at.file}, <<Put(Now.at.file, doc)>>, {})

Extract ==
    /\ Now.kind = "extract" /\ ~Misplaced(Now.at) /\ ~Exists(Now.to.file)
    /\ \E i \in MovedIds :
        Transact({Now.at.file, Now.to.file},
                 <<Put(Now.to.file, Extracted(Subtree, i)),
                   Put(Now.at.file, Cut(Source, Start, End))>>, {})

PromoteOrDemote ==
    \/ /\ Now.kind = "promote" /\ Exists(Now.at.file) /\ Promotable(Source)
       /\ \E id \in Rereadings(Source[2].id) :
            Transact({Now.at.file}, <<Put(Now.at.file, Promoted(Source, id))>>, {})
    \/ /\ Now.kind = "demote" /\ Exists(Now.at.file)
       /\ \E id \in Rereadings(Source[1].id) :
            Transact({Now.at.file}, <<Put(Now.at.file, Demoted(Source, id))>>, {})

PerformEdit ==
    /\ op.phase = "editing" /\ op.writes = <<>> /\ op.removals = {}
    /\ \/ AssignId \/ Touch \/ CreateFile \/ FileIsThere \/ AddHeading \/ RefileWithin
       \/ RefileAcross \/ RefileRegionRun \/ Extract \/ PromoteOrDemote

(* What the code refuses to do with what it finds on disk. *)
Refused ==
    LET kind == Now.kind IN
    \/ kind = "region"     \* empty, around its target, or corrected below zero
    \/ kind \in {"promote", "demote", "append"} /\ ~Exists(Now.at.file)
    \/ /\ kind \in {"ensure_id", "touch", "relink", "refile", "extract"}
       /\ Misplaced(Now.at)
    \/ kind = "refile" /\ Misplaced(Now.to)
    \/ kind = "append" /\ Exists(Now.at.file) /\ Under(Source, Now.at) = {}
    \/ kind = "extract" /\ Exists(Now.to.file)
    \/ kind = "promote" /\ Exists(Now.at.file) /\ ~Promotable(Source)
    \/ /\ kind = "refile" /\ ~Elsewhere /\ Now.to.level > 0
       /\ ~Misplaced(Now.at) /\ ~Misplaced(Now.to)
       /\ Place(Source, Now.to) \in Start..(End - 1)
    \/ kind = "relink" /\ Now.at.file \in stale     \* not the links of the preview

(* The request ends with an error: files already written or removed stay so,
   and the index is not told.                                              *)
Untold == op.removed \cup DOMAIN op.scan \cup (IF op.request = "edit" THEN op.changed ELSE {})
Fail ==
    /\ op' = Idle("failed")
    /\ stale' = stale \cup Untold
    /\ UNCHANGED <<disk, index>>

Refuse ==
    /\ op.phase = "editing" /\ Refused
    /\ Fail /\ UNCHANGED left

-----------------------------------------------------------------------------
(* The transaction: all writes were staged, each is a rename; then the
   removals.                                                               *)

WriteFile ==
    /\ op.phase = "writing" /\ op.writes # <<>>
    /\ LET put == Head(op.writes) IN
        /\ disk' = [disk EXCEPT ![put.file] = put.doc]
        /\ op' = Onward([op EXCEPT !.writes = Tail(@), !.changed = @ \cup {put.file},
                                   !.seen[put.file] = put.doc])
    /\ UNCHANGED <<index, stale, left>>

RemoveFile ==
    /\ op.phase = "writing" /\ op.writes = <<>>
    /\ \E f \in op.removals :
        /\ Exists(f)
        /\ disk' = [disk EXCEPT ![f] = Absent]
        /\ op' = Onward([op EXCEPT !.removals = @ \ {f}, !.removed = @ \cup {f},
                                   !.seen[f] = Absent])
    /\ UNCHANGED <<index, stale, left>>

-----------------------------------------------------------------------------
(* Index maintenance.                                                      *)

(* The rows of removed files go first; a root sync prunes files it did not
   find, one by one, last of all.                                          *)
Unindex ==
    /\ op.phase = "unindexing"
    /\ \E f \in op.removed :
        LET rest == op.removed \ {f} IN
        /\ index' = Remove(index, {f})
        /\ stale' = IF Exists(f) THEN stale ELSE stale \ {f}
        /\ op' = IF rest # {} THEN [op EXCEPT !.removed = rest]
                 ELSE IF op.request = "edit"
                      THEN [op EXCEPT !.removed = {}, !.phase = "scanning"]
                      ELSE Idle("done")
    /\ UNCHANGED <<disk, left>>

Scan ==
    /\ op.phase = "scanning"
    /\ \E f \in op.changed :
        /\ Exists(f)
        /\ op' = [op EXCEPT !.changed = @ \ {f},
                            !.scan = [g \in DOMAIN @ \cup {f} |->
                                        IF g = f THEN disk[f] ELSE @[g]],
                            !.phase = IF op.changed = {f} THEN "syncing" ELSE @]
        /\ stale' = stale \ {f}
    /\ UNCHANGED <<disk, index, left>>

Missing(scan) == {f \in Files : index.rows[f] # Absent} \ DOMAIN scan

SyncRows ==
    /\ op.phase = "syncing"
    /\ IF Clash(Scanned(index.rows, op.scan)) THEN Fail
       ELSE /\ index' = Sync(index, op.scan)
            /\ op' = IF op.request = "root" /\ Missing(op.scan) # {}
                     THEN [Idle("root") EXCEPT !.phase = "unindexing",
                                               !.removed = Missing(op.scan)]
                     ELSE Idle("done")
            /\ UNCHANGED <<disk, stale>>
    /\ UNCHANGED left

(* A file that vanished cannot be scanned or removed. *)
Vanished ==
    \/ op.phase = "scanning" /\ \E f \in op.changed : ~Exists(f)
    \/ op.phase = "writing" /\ op.writes = <<>> /\ \E f \in op.removals : ~Exists(f)

Miss == Vanished /\ Fail /\ UNCHANGED left

(* Any step may fail, and the engine may die and be started again. *)
Fault ==
    /\ op.phase # "idle" /\ left.faults > 0
    /\ Fail
    /\ left' = [left EXCEPT !.faults = @ - 1]

-----------------------------------------------------------------------------
(* Everybody else.                                                         *)

Save(files) ==
    /\ left.saves > 0
    /\ disk' = [f \in Files |-> IF f \in DOMAIN files THEN files[f] ELSE disk[f]]
    /\ stale' = stale \cup DOMAIN files
    /\ left' = [left EXCEPT !.saves = @ - 1]
    /\ UNCHANGED <<index, op>>

(* A heading is written or deleted, or the file itself. *)
SaveFile ==
    \E f \in Files :
        /\ Exists(f)
        /\ \/ \E at \in 2..(Len(disk[f]) + 1), n \in FreshNotes :
                LET doc == Paste(disk[f], at, <<Entry(1, n, None)>>)
                IN  Fits(doc) /\ Save([x \in {f} |-> doc])
           \/ \E i \in 2..Len(disk[f]) : Save([x \in {f} |-> Cut(disk[f], i, i + 1)])
           \/ Save([x \in {f} |-> Absent])

RenameFile ==
    \E f, g \in Files :
        /\ Exists(f) /\ ~Exists(g)
        /\ Save([x \in {f, g} |-> IF x = f THEN Absent ELSE disk[f]])

-----------------------------------------------------------------------------
Init ==
    /\ disk = Corpus
    /\ index = Recount([EmptyIndex EXCEPT !.rows = Corpus])
    /\ op = Idle("done")
    /\ stale = {}
    /\ left = [saves |-> MaxSaves, requests |-> MaxRequests, faults |-> MaxFaults]

Engine ==
    \/ Begin \/ PerformEdit \/ Refuse \/ WriteFile \/ RemoveFile \/ Unindex \/ Scan
    \/ SyncRows \/ Miss \/ Fault

Outside == SaveFile \/ RenameFile

Next == Engine \/ Outside

Spec == Init /\ [][Next]_vars

-----------------------------------------------------------------------------
(* Properties.                                                             *)

(* Every variable has its type; the parts of a request are checked as far as
   they are tables of files.                                               *)
TypeOK ==
    /\ \A f \in Files : IsDocument(disk[f]) /\ IsDocument(index.rows[f])
    /\ DOMAIN disk = Files /\ DOMAIN index.rows = Files
    /\ index.back \in [Keys -> Nat] /\ index.fwd \in [Keys -> Nat]
    /\ op.phase \in {"idle", "editing", "writing", "unindexing", "scanning", "syncing"}
    /\ op.changed \cup op.removed \cup op.removals \cup DOMAIN op.seen \cup DOMAIN op.scan
            \subseteq Files
    /\ stale \subseteq Files

(* sync.rs:72-84: whatever mix of incremental deltas, rebuilds and prunings
   led to an index, the counts of every node are those of a fresh count.   *)
CountsAreExact ==
    /\ index.back = Backlinks(index.rows)
    /\ index.fwd = ForwardLinks(index.rows)

(* When no request runs, the rows of a file are what is on disk, unless it
   was saved by others, or a request failed, since the index read it: every
   edit names all the files it changed and removed to the index.           *)
FreshRowsMatchDisk ==
    op.phase = "idle" => \A f \in Files \ stale : index.rows[f] = disk[f]

(* The files of an edit changed under its hands. *)
Overtaken == \E f \in DOMAIN op.seen : disk[f] # op.seen[f]

(* transaction.rs:14: all writes come before the removals.  No step of the
   engine, crash or failure between two files of an edit included, takes the
   last copy of a note from disk, unless others saved a file it had read.  *)
NothingIsLost ==
    [][Engine => OnDisk \subseteq OnDisk' \/ Overtaken]_vars

Holders(files, i) ==
    {files[k[1]][k[2]].note : k \in {k \in Keys : IdAt(files, k) = i}}

(* Promotion and demotion move a drawer among lines that its reader may stop
   at; a run refiled within its file may land anywhere before it.            *)
Rereads == op.todo # <<>> /\ Now.kind \in {"promote", "demote"}
Lands == op.todo # <<>> /\ Now.kind = "region" /\ ~Elsewhere /\ Now.to.level > 0

(* An edit that works on files the index knows as they are never hands the id
   of a note on disk to another note, nor takes it from a note that stays.
   Two edits are no part of this: promoting or demoting a file may leave its
   id where it is no longer read (document.rs:72-104), though no other note
   gets it, and nothing is said of a region that is refiled under a heading of
   its own file, whose place is corrected wrongly (rewrite.rs:170-175).      *)
IdentityKept ==
    [][Engine /\ DOMAIN op.seen \cap stale = {} /\ ~Lands =>
        \A i \in Ids :
            LET was == Holders(disk, i)
                now == Holders(disk', i)
            IN  /\ was # {} => now \subseteq was
                /\ Rereads \/ \A n \in was : n \in OnDisk' => n \in now]_vars

(* A statement about the program that it does not keep.                    *)

(* doc/model.org:213: a sync of the root refreshes the index; only two notes
   of one id among the files it read are a reason to refuse it.             *)
Found == [f \in Files |-> IF f \in DOMAIN op.scan THEN op.scan[f] ELSE Absent]
RootSyncIsNotRefused ==
    [][op.phase = "syncing" /\ op.request = "root" /\ ~Clash(Found) /\ UNCHANGED left
        => op'.request # "failed"]_vars
=============================================================================
