---------------------------- MODULE NoteIndex ----------------------------
(***************************************************************************)
(* The rows of the desktop's derived index and their relation counts:      *)
(* slipbox-store/src/sync.rs.  A file is a sequence of entries, the file   *)
(* itself first (level 0) and then its headings; an entry's place in the   *)
(* sequence stands for its line, and file and line are its node key.  The  *)
(* text of an entry is a note, whose links are a constant of the note.     *)
(* An index is a record of the rows of every file and, for every node key, *)
(* its columns backlink_count and forward_link_count.                      *)
(* Left out: excluded nodes, the full-text tables, and the row threshold   *)
(* of a rebuild, which is only the one on the number of files.             *)
(***************************************************************************)
EXTENDS Integers, Sequences, FiniteSets

CONSTANTS
    Files,          \* paths of Org files under the root
    Notes,          \* what the text of an entry says
    Ids,            \* explicit ids
    Links,          \* the ids the text of a note links to
    MaxLines,       \* bound: entries of one file
    RebuildFiles,   \* RELATION_COUNT_REBUILD_FILE_THRESHOLD
    None

ASSUME IndexAssumption ==
    /\ IsFiniteSet(Files) /\ IsFiniteSet(Ids)
    /\ Links \in [Notes -> SUBSET Ids]
    /\ MaxLines \in Nat \ {0}
    /\ RebuildFiles \in Nat
    /\ None \notin Notes \cup Ids

-----------------------------------------------------------------------------
(* Rows.                                                                   *)

Absent == <<>>
Keys == Files \X (1..MaxLines)

(* Notes are file nodes and the headings with an id of their own. *)
IsNote(e) == e.level = 0 \/ e.id # None

(* Entry i of a file lies in the subtree of its entry j. *)
Within(doc, j, i) == \A k \in (j + 1)..i : doc[k].level > doc[j].level

(* The nearest enclosing note of an entry, which its links are counted for. *)
Owner(doc, i) ==
    CHOOSE j \in 1..i :
        /\ IsNote(doc[j]) /\ Within(doc, j, i)
        /\ \A k \in (j + 1)..i : ~(IsNote(doc[k]) /\ Within(doc, k, i))

LinksAt(e) == IF e.note = None THEN {} ELSE Links[e.note]

(* The table of links: where each starts, and the id it names. *)
LinkRows(rows) ==
    {l \in Files \X (1..MaxLines) \X Ids :
        /\ l[2] <= Len(rows[l[1]])
        /\ l[3] \in LinksAt(rows[l[1]][l[2]])}

IdAt(rows, k) ==
    IF k[2] <= Len(rows[k[1]]) THEN rows[k[1]][k[2]].id ELSE None

(* The explicit ids of the nodes of some files. *)
Named(rows, F) == {IdAt(rows, k) : k \in F \X (1..MaxLines)} \ {None}

(* The UNIQUE constraint of nodes.explicit_id, which fails the transaction. *)
Clash(rows) ==
    \E k, l \in Keys : k # l /\ IdAt(rows, k) # None /\ IdAt(rows, k) = IdAt(rows, l)

-----------------------------------------------------------------------------
(* Relation counts.                                                        *)

(* Links to the node at a key, and links of the note at a key. *)
Into(rows, k, links) == {l \in links : l[3] = IdAt(rows, k)}
OutOf(rows, k, links) ==
    {l \in links : l[1] = k[1] /\ Owner(rows[l[1]], l[2]) = k[2]}

From(links, F) == {l \in links : l[1] \in F}
To(links, ids) == {l \in links : l[3] \in ids}

Backlinks(rows) == [k \in Keys |-> Cardinality(Into(rows, k, LinkRows(rows)))]
ForwardLinks(rows) ==
    [k \in Keys |->
        Cardinality(OutOf(rows, k, To(LinkRows(rows), Named(rows, Files))))]

(* Mutant: an id that only stayed is taken for a new one. *)
MutAdded(rows, scan) == Named(scan, DOMAIN scan)

(* The ids that leave the index with the old rows of the files, and those
   that enter it with the new ones.                                      *)
Removed(rows, scan) == Named(rows, DOMAIN scan) \ Named(scan, DOMAIN scan)
Added(rows, scan) == Named(scan, DOMAIN scan) \ Named(rows, DOMAIN scan)

Scanned(rows, scan) == [f \in Files |-> IF f \in DOMAIN scan THEN scan[f] ELSE rows[f]]

(* What a transaction takes off the counts before it deletes rows ... *)
Withdraw(ix, scan) ==
    LET changed == DOMAIN scan
        links   == LinkRows(ix.rows)
        others  == From(links, Files \ changed)
    IN  [ix EXCEPT
            !.back = [k \in Keys |->
                @[k] - Cardinality(Into(ix.rows, k, From(links, changed)))],
            !.fwd = [k \in Keys |->
                @[k] - Cardinality(OutOf(ix.rows, k, To(others, Removed(ix.rows, scan))))]]

(* ... the fresh rows of the files it scanned ... *)
Insert(ix, scan) ==
    LET kept(c) == [k \in Keys |-> IF k[1] \in DOMAIN scan THEN 0 ELSE c[k]]
    IN  [rows |-> Scanned(ix.rows, scan), back |-> kept(ix.back), fwd |-> kept(ix.fwd)]

(* ... and what it adds to the counts once they are in: new is the index
   with the new rows, before the index it started from.                  *)
Credit(new, before, scan) ==
    LET changed == DOMAIN scan
        links   == LinkRows(new.rows)
        own     == From(links, changed)
        others  == From(links, Files \ changed)
    IN  [new EXCEPT
            !.back = [k \in Keys |->
                @[k] + Cardinality(Into(new.rows, k, own))
                     + Cardinality(Into(new.rows, k, To(others, Named(scan, changed))))],
            !.fwd = [k \in Keys |->
                @[k] + Cardinality(OutOf(new.rows, k, To(own, Named(new.rows, Files))))
                     + Cardinality(OutOf(new.rows, k, To(others, Added(before.rows, scan))))]]

Recount(new) ==
    [new EXCEPT !.back = Backlinks(new.rows), !.fwd = ForwardLinks(new.rows)]

Rebuilds(scan) == Cardinality(DOMAIN scan) > RebuildFiles

(* sync_file_indexes: one transaction over the scanned files. *)
Sync(ix, scan) ==
    IF Rebuilds(scan) THEN Recount(Insert(ix, scan))
    ELSE Credit(Insert(Withdraw(ix, scan), scan), ix, scan)

(* remove_file_indexes: the same with nothing to insert. *)
Remove(ix, F) == Sync(ix, [f \in F |-> Absent])

EmptyIndex ==
    [rows |-> [f \in Files |-> Absent],
     back |-> [k \in Keys |-> 0], fwd |-> [k \in Keys |-> 0]]
=============================================================================
