-------------------------- MODULE NoteIndexProofs --------------------------
(***************************************************************************)
(* Proofs about the derived index: the incremental maintenance of the      *)
(* relation counts leaves what a fresh count of the new rows would give,   *)
(* for any files, notes, ids and links and any threshold of a rebuild.     *)
(***************************************************************************)
EXTENDS NoteIndex, FiniteSetTheorems, TLAPS

Entries == [level : Nat, note : Notes \cup {None}, id : Ids \cup {None}]
Tables == [Files -> Seq(Entries)]
Scans == UNION {[F -> Seq(Entries)] : F \in SUBSET Files}

(* The index is a record of its table and its counts. *)
Indexes == [rows : Tables, back : [Keys -> Int], fwd : [Keys -> Int]]

(* One with no two nodes of one id, whose counts are those of its rows. *)
Exact(ix) ==
    /\ ix \in Indexes /\ ~Clash(ix.rows)
    /\ ix.back = Backlinks(ix.rows) /\ ix.fwd = ForwardLinks(ix.rows)

-----------------------------------------------------------------------------
(* Links.                                                                  *)

LinkKeys == Files \X (1..MaxLines) \X Ids

LEMMA LinkKeysFinite == IsFiniteSet(LinkKeys)
<1> DEFINE P == (1..MaxLines) \X Ids
           f == [l \in LinkKeys |-> <<l[1], <<l[2], l[3]>>>>]
<1>1. IsFiniteSet(Files \X P)
  <2>1. IsFiniteSet(1..MaxLines)
    BY FS_Interval, IndexAssumption
  <2>2. IsFiniteSet(P)
    BY <2>1, FS_Product, IndexAssumption
  <2> QED BY <2>2, FS_Product, IndexAssumption
<1>2. f \in Injection(LinkKeys, Files \X P)
  <2>1. f \in [LinkKeys -> Files \X P]
    BY DEF LinkKeys
  <2>2. ASSUME NEW l \in LinkKeys, NEW m \in LinkKeys, f[l] = f[m]
        PROVE  l = m
    BY <2>2 DEF LinkKeys
  <2> HIDE DEF f, P
  <2> QED BY <2>1, <2>2 DEF Injection, IsInjective
<1> HIDE DEF f, P
<1> QED BY <1>1, <1>2, FS_Injection

LEMMA LinkRowsFinite ==
    ASSUME NEW rows, NEW S \in SUBSET LinkRows(rows)
    PROVE  IsFiniteSet(S) /\ Cardinality(S) \in Nat
<1>1. S \subseteq LinkKeys
  BY DEF LinkRows, LinkKeys
<1>2. IsFiniteSet(S)
  BY <1>1, LinkKeysFinite, FS_Subset
<1> QED BY <1>2, FS_CardinalityType

(* A set in two parts is counted part by part. *)
LEMMA CountParts ==
    ASSUME NEW S, NEW T, IsFiniteSet(S), IsFiniteSet(T), S \cap T = {}
    PROVE  Cardinality(S \cup T) = Cardinality(S) + Cardinality(T)
<1>1. Cardinality(S \cup T) = Cardinality(S) + Cardinality(T) - Cardinality({})
  BY FS_Union
<1>2. Cardinality({}) = 0 /\ Cardinality(S) \in Nat /\ Cardinality(T) \in Nat
  BY FS_EmptySet, FS_CardinalityType
<1> QED BY <1>1, <1>2

-----------------------------------------------------------------------------
(* The rows of a transaction.                                              *)

LEMMA RowsOfScan ==
    ASSUME NEW old \in Tables, NEW scan \in Scans
    PROVE  /\ Scanned(old, scan) \in Tables
           /\ DOMAIN scan \subseteq Files
           /\ \A f \in DOMAIN scan : Scanned(old, scan)[f] = scan[f]
           /\ \A f \in Files \ DOMAIN scan : Scanned(old, scan)[f] = old[f]
<1>1. PICK F \in SUBSET Files : scan \in [F -> Seq(Entries)]
  BY DEF Scans
<1> QED BY <1>1 DEF Tables, Scanned

LEMMA IdType ==
    ASSUME NEW rows \in Tables, NEW k \in Keys
    PROVE  IdAt(rows, k) \in Ids \cup {None}
<1>1. k[1] \in Files /\ k[2] \in Nat \ {0} /\ rows[k[1]] \in Seq(Entries)
  BY IndexAssumption DEF Keys, Tables
<1>2. CASE k[2] <= Len(rows[k[1]])
  <2>1. rows[k[1]][k[2]] \in Entries
    BY <1>1, <1>2
  <2> QED BY <1>2, <2>1 DEF IdAt, Entries
<1> QED BY <1>2 DEF IdAt

(* A key outside the scan keeps its id, and the scan tells those of its own. *)
LEMMA IdsOfScan ==
    ASSUME NEW old \in Tables, NEW scan \in Scans
    PROVE  /\ \A k \in Keys : k[1] \notin DOMAIN scan =>
                  IdAt(Scanned(old, scan), k) = IdAt(old, k)
           /\ Named(scan, DOMAIN scan) = Named(Scanned(old, scan), DOMAIN scan)
<1> DEFINE new == Scanned(old, scan)  C == DOMAIN scan
<1>1. /\ C \subseteq Files
      /\ \A f \in C : new[f] = scan[f]
      /\ \A f \in Files \ C : new[f] = old[f]
  BY RowsOfScan
<1> HIDE DEF new, C
<1>2. \A k \in Keys : k[1] \notin C => IdAt(new, k) = IdAt(old, k)
  BY <1>1 DEF Keys, IdAt
<1>3. \A k \in C \X (1..MaxLines) : IdAt(new, k) = IdAt(scan, k)
  BY <1>1 DEF IdAt
<1>4. Named(scan, C) = Named(new, C)
  BY <1>3 DEF Named
<1> QED BY <1>2, <1>4 DEF new, C

(* Nor do the links of the other files change. *)
LEMMA OthersStay ==
    ASSUME NEW old \in Tables, NEW scan \in Scans
    PROVE  From(LinkRows(Scanned(old, scan)), Files \ DOMAIN scan)
             = From(LinkRows(old), Files \ DOMAIN scan)
<1> DEFINE new == Scanned(old, scan)  C == DOMAIN scan
<1>1. \A f \in Files \ C : new[f] = old[f]
  BY RowsOfScan
<1> HIDE DEF new, C
<1>2. From(LinkRows(new), Files \ C) = From(LinkRows(old), Files \ C)
  BY <1>1 DEF From, LinkRows
<1> QED BY <1>2 DEF new, C

-----------------------------------------------------------------------------
(* Backlinks.                                                              *)

(* Links into a node come from the files of a scan or from the others. *)
LEMMA IntoParts ==
    ASSUME NEW rows, NEW k, NEW C \in SUBSET Files
    PROVE  LET links == LinkRows(rows) IN
           Cardinality(Into(rows, k, links)) =
               Cardinality(Into(rows, k, From(links, C)))
                 + Cardinality(Into(rows, k, From(links, Files \ C)))
<1> DEFINE links == LinkRows(rows)
           in == Into(rows, k, From(links, C))
           out == Into(rows, k, From(links, Files \ C))
<1>1. links \subseteq LinkKeys
  BY DEF LinkRows, LinkKeys
<1>2. in \in SUBSET links /\ out \in SUBSET links /\ in \cap out = {}
      /\ Into(rows, k, links) = in \cup out
  BY <1>1 DEF Into, From, LinkKeys
<1>3. IsFiniteSet(in) /\ IsFiniteSet(out)
  BY <1>2, LinkRowsFinite
<1> HIDE DEF in, out, links
<1>4. Cardinality(Into(rows, k, links)) = Cardinality(in) + Cardinality(out)
  BY <1>2, <1>3, CountParts
<1> QED BY <1>4 DEF in, out, links

(* The backlinks of a scanned node: those of the scanned files, and those of
   the others to ids the scan brought.                                      *)
LEMMA BackOfScanned ==
    ASSUME NEW old \in Tables, NEW scan \in Scans, NEW k \in Keys, k[1] \in DOMAIN scan
    PROVE  LET new == Scanned(old, scan)
               links == LinkRows(new)
               others == From(links, Files \ DOMAIN scan)
           IN  Backlinks(new)[k] =
                   Cardinality(Into(new, k, From(links, DOMAIN scan)))
                     + Cardinality(Into(new, k, To(others, Named(scan, DOMAIN scan))))
<1> DEFINE new == Scanned(old, scan)  C == DOMAIN scan
           links == LinkRows(new)  others == From(links, Files \ C)
<1>1. new \in Tables /\ C \in SUBSET Files /\ Named(scan, C) = Named(new, C)
  BY RowsOfScan, IdsOfScan
<1>2. links \subseteq LinkKeys
  BY DEF LinkRows, LinkKeys
<1>3. k \in C \X (1..MaxLines)
  BY DEF Keys
<1> HIDE DEF new, C, links
<1>4. Into(new, k, others) = Into(new, k, To(others, Named(new, C)))
  BY <1>2, <1>3, IndexAssumption DEF Into, To, Named, LinkKeys, From
<1>5. Cardinality(Into(new, k, links)) =
        Cardinality(Into(new, k, From(links, C))) + Cardinality(Into(new, k, others))
  BY <1>1, IntoParts DEF links
<1>6. Backlinks(new)[k] = Cardinality(Into(new, k, links))
  BY DEF Backlinks, links
<1> QED BY <1>1, <1>4, <1>5, <1>6 DEF new, C, links

(* Those of another node: the ones of the scanned files are replaced. *)
LEMMA BackOfOther ==
    ASSUME NEW old \in Tables, NEW scan \in Scans, NEW k \in Keys, k[1] \notin DOMAIN scan,
           ~Clash(Scanned(old, scan))
    PROVE  LET new == Scanned(old, scan)
               links == LinkRows(new)
               others == From(links, Files \ DOMAIN scan)
           IN  Backlinks(new)[k] =
                   Backlinks(old)[k] - Cardinality(Into(old, k, From(LinkRows(old), DOMAIN scan)))
                     + Cardinality(Into(new, k, From(links, DOMAIN scan)))
                     + Cardinality(Into(new, k, To(others, Named(scan, DOMAIN scan))))
<1> DEFINE new == Scanned(old, scan)  C == DOMAIN scan
           links == LinkRows(new)  others == From(links, Files \ C)
           before == LinkRows(old)
<1>1. /\ new \in Tables /\ C \in SUBSET Files /\ Named(scan, C) = Named(new, C)
      /\ IdAt(new, k) = IdAt(old, k) /\ ~Clash(new) /\ k[1] \notin C
  BY RowsOfScan, IdsOfScan
<1>2. others = From(before, Files \ C)
  BY OthersStay
<1>3. links \subseteq LinkKeys /\ before \subseteq LinkKeys
  BY DEF LinkRows, LinkKeys
<1>a. Into(new, k, From(links, C)) \in SUBSET links
      /\ Into(old, k, From(before, C)) \in SUBSET before
      /\ Into(old, k, From(before, Files \ C)) \in SUBSET before
  BY DEF Into, From
<1>b. /\ Cardinality(Into(new, k, From(links, C))) \in Nat
      /\ Cardinality(Into(old, k, From(before, C))) \in Nat
      /\ Cardinality(Into(old, k, From(before, Files \ C))) \in Nat
  BY <1>a, LinkRowsFinite
<1> HIDE DEF new, C, links, others, before
<1>4. Into(new, k, To(others, Named(new, C))) = {}
  <2> SUFFICES ASSUME NEW l \in others, l[3] = IdAt(new, k), l[3] \in Named(new, C)
               PROVE  FALSE
    BY DEF Into, To
  <2>1. PICK m \in C \X (1..MaxLines) : IdAt(new, m) = l[3] /\ IdAt(new, m) # None
    BY DEF Named
  <2>2. m \in Keys /\ m # k
    BY <1>1, <2>1 DEF Keys
  <2> QED BY <1>1, <2>1, <2>2 DEF Clash
<1>5. Into(new, k, others) = Into(old, k, From(before, Files \ C))
  BY <1>1, <1>2 DEF Into
<1>6. Cardinality(Into(new, k, links)) =
        Cardinality(Into(new, k, From(links, C))) + Cardinality(Into(new, k, others))
  BY <1>1, IntoParts DEF links, others
<1>7. Cardinality(Into(old, k, before)) =
        Cardinality(Into(old, k, From(before, C)))
          + Cardinality(Into(old, k, From(before, Files \ C)))
  BY <1>1, IntoParts DEF before
<1>8. /\ Backlinks(new)[k] = Cardinality(Into(new, k, links))
      /\ Backlinks(old)[k] = Cardinality(Into(old, k, before))
  BY DEF Backlinks, links, before
<1>9. Cardinality(Into(new, k, To(others, Named(scan, C)))) = 0
  BY <1>1, <1>4, FS_EmptySet
<1> QED BY <1>b, <1>5, <1>6, <1>7, <1>8, <1>9 DEF new, C, links, others, before

-----------------------------------------------------------------------------
(* Forward links.                                                          *)

LEMMA NamedParts ==
    ASSUME NEW rows, NEW C \in SUBSET Files
    PROVE  Named(rows, Files) = Named(rows, C) \cup Named(rows, Files \ C)
BY DEF Named

(* Two nodes of different files have different ids. *)
LEMMA NamesApart ==
    ASSUME NEW rows, ~Clash(rows), NEW C \in SUBSET Files
    PROVE  Named(rows, C) \cap Named(rows, Files \ C) = {}
<1> SUFFICES ASSUME NEW i \in Named(rows, C), i \in Named(rows, Files \ C)
             PROVE  FALSE
  OBVIOUS
<1>1. PICK k \in C \X (1..MaxLines) : IdAt(rows, k) = i
  BY DEF Named
<1>2. PICK l \in (Files \ C) \X (1..MaxLines) : IdAt(rows, l) = i
  BY DEF Named
<1>3. k \in Keys /\ l \in Keys /\ k # l /\ i # None
  BY <1>1, <1>2 DEF Keys, Named
<1> QED BY <1>1, <1>2, <1>3 DEF Clash

(* The ids of the index after the scan: without those removed, with those
   added, and what was added was not there.                                *)
LEMMA NamesMove ==
    ASSUME NEW old \in Tables, NEW scan \in Scans, ~Clash(old), ~Clash(Scanned(old, scan))
    PROVE  /\ Named(Scanned(old, scan), Files)
                = (Named(old, Files) \ Removed(old, scan)) \cup Added(old, scan)
           /\ Removed(old, scan) \subseteq Named(old, Files)
           /\ Added(old, scan) \cap Named(old, Files) = {}
<1> DEFINE new == Scanned(old, scan)  C == DOMAIN scan  R == Files \ C
<1>1. C \in SUBSET Files /\ Named(scan, C) = Named(new, C)
  BY RowsOfScan, IdsOfScan
<1>2. Named(new, R) = Named(old, R)
  <2>1. \A k \in R \X (1..MaxLines) : IdAt(new, k) = IdAt(old, k)
    BY IdsOfScan DEF Keys
  <2> HIDE DEF new, R
  <2> QED BY <2>1 DEF Named
<1>3. /\ Named(new, Files) = Named(new, C) \cup Named(new, R)
      /\ Named(old, Files) = Named(old, C) \cup Named(old, R)
  BY <1>1, NamedParts
<1>4. Named(new, C) \cap Named(new, R) = {} /\ Named(old, C) \cap Named(old, R) = {}
  BY <1>1, NamesApart
<1>5. /\ Removed(old, scan) = Named(old, C) \ Named(new, C)
      /\ Added(old, scan) = Named(new, C) \ Named(old, C)
  BY <1>1 DEF Removed, Added
<1> HIDE DEF new, C, R
<1>6. /\ Named(new, Files) = (Named(old, Files) \ Removed(old, scan)) \cup Added(old, scan)
      /\ Removed(old, scan) \subseteq Named(old, Files)
      /\ Added(old, scan) \cap Named(old, Files) = {}
  BY <1>2, <1>3, <1>4, <1>5
<1> QED BY <1>6 DEF new

LEMMA ForwardOfScanned ==
    ASSUME NEW old \in Tables, NEW scan \in Scans, NEW k \in Keys, k[1] \in DOMAIN scan
    PROVE  LET new == Scanned(old, scan)
               links == LinkRows(new)
               others == From(links, Files \ DOMAIN scan)
           IN  ForwardLinks(new)[k] =
                   Cardinality(OutOf(new, k, To(From(links, DOMAIN scan), Named(new, Files))))
                     + Cardinality(OutOf(new, k, To(others, Added(old, scan))))
<1> DEFINE new == Scanned(old, scan)  C == DOMAIN scan  links == LinkRows(new)
           others == From(links, Files \ C)
           out == OutOf(new, k, To(links, Named(new, Files)))
<1>1. OutOf(new, k, To(others, Added(old, scan))) = {}
  BY DEF OutOf, To, From
<1>2. OutOf(new, k, To(From(links, C), Named(new, Files))) = out
  BY DEF OutOf, To, From
<1>3. out \in SUBSET links
  BY DEF OutOf, To
<1>4. Cardinality(out) \in Nat
  BY <1>3, LinkRowsFinite
<1>5. ForwardLinks(new)[k] = Cardinality(out)
  BY DEF ForwardLinks
<1> HIDE DEF new, links, out, others
<1>6. Cardinality(OutOf(new, k, To(others, Added(old, scan)))) = 0
  BY <1>1, FS_EmptySet
<1>7. ForwardLinks(new)[k] =
        Cardinality(OutOf(new, k, To(From(links, C), Named(new, Files))))
          + Cardinality(OutOf(new, k, To(others, Added(old, scan))))
  BY <1>2, <1>4, <1>5, <1>6
<1> QED BY <1>7 DEF new, C, links, others

LEMMA ForwardOfOther ==
    ASSUME NEW old \in Tables, NEW scan \in Scans, NEW k \in Keys, k[1] \notin DOMAIN scan,
           ~Clash(old), ~Clash(Scanned(old, scan))
    PROVE  LET new == Scanned(old, scan)
               links == LinkRows(new)
               others == From(links, Files \ DOMAIN scan)
           IN  ForwardLinks(new)[k] =
                   ForwardLinks(old)[k]
                     - Cardinality(OutOf(old, k,
                         To(From(LinkRows(old), Files \ DOMAIN scan), Removed(old, scan))))
                     + Cardinality(OutOf(new, k, To(From(links, DOMAIN scan), Named(new, Files))))
                     + Cardinality(OutOf(new, k, To(others, Added(old, scan))))
<1> DEFINE new == Scanned(old, scan)  C == DOMAIN scan
           links == LinkRows(new)  before == LinkRows(old)
           others == From(before, Files \ C)
           stay == OutOf(old, k, To(others, Named(old, Files) \ Removed(old, scan)))
           go == OutOf(old, k, To(others, Removed(old, scan)))
           come == OutOf(old, k, To(others, Added(old, scan)))
<1>1. /\ \A f \in Files \ C : new[f] = old[f]
      /\ From(links, Files \ C) = others /\ k[1] \in Files \ C
  BY RowsOfScan, OthersStay DEF Keys
<1>2. /\ Named(new, Files) = (Named(old, Files) \ Removed(old, scan)) \cup Added(old, scan)
      /\ Removed(old, scan) \subseteq Named(old, Files)
      /\ Added(old, scan) \cap Named(old, Files) = {}
  BY NamesMove
<1>3. links \subseteq LinkKeys /\ before \subseteq LinkKeys
  BY DEF LinkRows, LinkKeys
<1>4. stay \in SUBSET before /\ go \in SUBSET before /\ come \in SUBSET before
  BY DEF OutOf, To, From
<1>5. /\ IsFiniteSet(stay) /\ IsFiniteSet(go) /\ IsFiniteSet(come)
      /\ Cardinality(stay) \in Nat /\ Cardinality(go) \in Nat /\ Cardinality(come) \in Nat
  BY <1>4, LinkRowsFinite
<1>6. /\ ForwardLinks(new)[k] = Cardinality(OutOf(new, k, To(links, Named(new, Files))))
      /\ ForwardLinks(old)[k] = Cardinality(OutOf(old, k, To(before, Named(old, Files))))
  BY DEF ForwardLinks
<1>7. OutOf(new, k, To(From(links, C), Named(new, Files))) = {}
  BY <1>1 DEF OutOf, To, From
<1> HIDE DEF new, C, links, before
<1>8. OutOf(new, k, To(links, Named(new, Files))) = stay \cup come /\ stay \cap come = {}
  <2>1. OutOf(new, k, To(links, Named(new, Files))) = OutOf(new, k, To(others, Named(new, Files)))
    BY <1>1, <1>3 DEF OutOf, To, From, LinkKeys
  <2>2. OutOf(new, k, To(others, Named(new, Files))) = OutOf(old, k, To(others, Named(new, Files)))
    BY <1>1 DEF OutOf
  <2> QED BY <1>2, <2>1, <2>2 DEF OutOf, To
<1>9. OutOf(old, k, To(before, Named(old, Files))) = stay \cup go /\ stay \cap go = {}
  BY <1>1, <1>2, <1>3 DEF OutOf, To, From, LinkKeys
<1>10. OutOf(new, k, To(From(links, Files \ C), Added(old, scan))) = come
  BY <1>1 DEF OutOf
<1> HIDE DEF stay, go, come
<1>11. /\ ForwardLinks(new)[k] = Cardinality(stay) + Cardinality(come)
       /\ ForwardLinks(old)[k] = Cardinality(stay) + Cardinality(go)
  BY <1>5, <1>6, <1>8, <1>9, CountParts
<1>12. Cardinality(OutOf(new, k, To(From(links, C), Named(new, Files)))) = 0
  BY <1>7, FS_EmptySet
<1> QED BY <1>5, <1>10, <1>11, <1>12 DEF new, C, links, before, others, go

-----------------------------------------------------------------------------
(* Transactions.                                                           *)

(* What is counted is a number. *)
LEMMA CountsAreNumbers ==
    ASSUME NEW rows, NEW k, NEW links \in SUBSET LinkRows(rows), NEW S
    PROVE  /\ Cardinality(Into(rows, k, links)) \in Nat
           /\ Cardinality(OutOf(rows, k, To(links, S))) \in Nat
<1>1. Into(rows, k, links) \in SUBSET LinkRows(rows)
      /\ OutOf(rows, k, To(links, S)) \in SUBSET LinkRows(rows)
  BY DEF Into, OutOf, To
<1> QED BY <1>1, LinkRowsFinite

(* The parts of the delta of a transaction, each a table of the node keys. *)
LEMMA WithdrawnIndex ==
    ASSUME NEW ix \in Indexes, NEW scan
    PROVE  LET links == LinkRows(ix.rows)
               others == From(links, Files \ DOMAIN scan)
               taken == Withdraw(ix, scan)
           IN  /\ taken \in Indexes /\ taken.rows = ix.rows
               /\ taken.back = [k \in Keys |->
                    ix.back[k] - Cardinality(Into(ix.rows, k, From(links, DOMAIN scan)))]
               /\ taken.fwd = [k \in Keys |->
                    ix.fwd[k] - Cardinality(OutOf(ix.rows, k,
                                    To(others, Removed(ix.rows, scan))))]
<1> DEFINE links == LinkRows(ix.rows)
           others == From(links, Files \ DOMAIN scan)
           back == [k \in Keys |->
                ix.back[k] - Cardinality(Into(ix.rows, k, From(links, DOMAIN scan)))]
           fwd == [k \in Keys |->
                ix.fwd[k] - Cardinality(OutOf(ix.rows, k, To(others, Removed(ix.rows, scan))))]
<1>1. Withdraw(ix, scan) = [ix EXCEPT !.back = back, !.fwd = fwd]
  BY DEF Withdraw
<1>2. From(links, DOMAIN scan) \in SUBSET links /\ others \in SUBSET links
  BY DEF From
<1>3. back \in [Keys -> Int] /\ fwd \in [Keys -> Int]
  <2>1. ASSUME NEW k \in Keys
        PROVE  /\ Cardinality(Into(ix.rows, k, From(links, DOMAIN scan))) \in Nat
               /\ Cardinality(OutOf(ix.rows, k, To(others, Removed(ix.rows, scan)))) \in Nat
    BY <1>2, CountsAreNumbers
  <2> HIDE DEF links, others
  <2> QED BY <2>1 DEF Indexes
<1> HIDE DEF back, fwd
<1>4. /\ Withdraw(ix, scan) \in Indexes /\ Withdraw(ix, scan).rows = ix.rows
      /\ Withdraw(ix, scan).back = back /\ Withdraw(ix, scan).fwd = fwd
  BY <1>1, <1>3 DEF Indexes
<1> QED BY <1>4 DEF back, fwd

LEMMA InsertedIndex ==
    ASSUME NEW ix \in Indexes, NEW scan \in Scans
    PROVE  LET in == Insert(ix, scan)
           IN  /\ in \in Indexes /\ in.rows = Scanned(ix.rows, scan)
               /\ in.back = [k \in Keys |-> IF k[1] \in DOMAIN scan THEN 0 ELSE ix.back[k]]
               /\ in.fwd = [k \in Keys |-> IF k[1] \in DOMAIN scan THEN 0 ELSE ix.fwd[k]]
<1>1. ix.rows \in Tables
  BY DEF Indexes
<1>2. Scanned(ix.rows, scan) \in Tables
  BY <1>1, RowsOfScan
<1> QED BY <1>2 DEF Insert, Indexes

LEMMA CreditedIndex ==
    ASSUME NEW ix \in Indexes, NEW before \in Indexes, NEW scan \in Scans
    PROVE  LET links == LinkRows(ix.rows)
               others == From(links, Files \ DOMAIN scan)
               new == Credit(ix, before, scan)
           IN  /\ new \in Indexes /\ new.rows = ix.rows
               /\ \A k \in Keys :
                    /\ new.back[k] = ix.back[k]
                         + Cardinality(Into(ix.rows, k, From(links, DOMAIN scan)))
                         + Cardinality(Into(ix.rows, k, To(others, Named(scan, DOMAIN scan))))
                    /\ new.fwd[k] = ix.fwd[k]
                         + Cardinality(OutOf(ix.rows, k,
                               To(From(links, DOMAIN scan), Named(ix.rows, Files))))
                         + Cardinality(OutOf(ix.rows, k, To(others, Added(before.rows, scan))))
<1> DEFINE links == LinkRows(ix.rows)
           own == From(links, DOMAIN scan)
           others == From(links, Files \ DOMAIN scan)
           back == [k \in Keys |->
                ix.back[k] + Cardinality(Into(ix.rows, k, own))
                   + Cardinality(Into(ix.rows, k, To(others, Named(scan, DOMAIN scan))))]
           fwd == [k \in Keys |->
                ix.fwd[k] + Cardinality(OutOf(ix.rows, k, To(own, Named(ix.rows, Files))))
                   + Cardinality(OutOf(ix.rows, k, To(others, Added(before.rows, scan))))]
<1>1. Credit(ix, before, scan) = [ix EXCEPT !.back = back, !.fwd = fwd]
  BY DEF Credit
<1>2. own \in SUBSET links /\ others \in SUBSET links
      /\ To(others, Named(scan, DOMAIN scan)) \in SUBSET links
  BY DEF From, To
<1>3. back \in [Keys -> Int] /\ fwd \in [Keys -> Int]
  <2>1. ASSUME NEW k \in Keys
        PROVE  /\ Cardinality(Into(ix.rows, k, own)) \in Nat
               /\ Cardinality(Into(ix.rows, k, To(others, Named(scan, DOMAIN scan)))) \in Nat
               /\ Cardinality(OutOf(ix.rows, k, To(own, Named(ix.rows, Files)))) \in Nat
               /\ Cardinality(OutOf(ix.rows, k, To(others, Added(before.rows, scan)))) \in Nat
    BY <1>2, CountsAreNumbers
  <2> HIDE DEF own, others
  <2> QED BY <2>1 DEF Indexes
<1> HIDE DEF back, fwd
<1>4. /\ Credit(ix, before, scan) \in Indexes /\ Credit(ix, before, scan).rows = ix.rows
      /\ Credit(ix, before, scan).back = back /\ Credit(ix, before, scan).fwd = fwd
  BY <1>1, <1>3 DEF Indexes
<1> QED BY <1>4 DEF back, fwd

(* sync_file_indexes: an exact index stays exact over any transaction that
   does not bring two nodes of one id, whether it recounts or not.          *)
THEOREM SyncStaysExact ==
    ASSUME NEW ix, Exact(ix), NEW scan \in Scans, ~Clash(Scanned(ix.rows, scan))
    PROVE  Exact(Sync(ix, scan)) /\ Sync(ix, scan).rows = Scanned(ix.rows, scan)
<1> DEFINE old == ix.rows
           new == Scanned(old, scan)
<1>1. new \in Tables /\ ~Clash(new) /\ old \in Tables /\ ~Clash(old) /\ ix \in Indexes
  BY RowsOfScan DEF Exact, Indexes
<1>2. CASE Rebuilds(scan)
  <2> DEFINE in == Insert(ix, scan)
  <2>1. in \in Indexes /\ in.rows = new
    BY <1>1, InsertedIndex
  <2>2. Backlinks(new) \in [Keys -> Int] /\ ForwardLinks(new) \in [Keys -> Int]
    <3>1. ASSUME NEW k \in Keys
          PROVE  /\ Cardinality(Into(new, k, LinkRows(new))) \in Nat
                 /\ Cardinality(OutOf(new, k, To(LinkRows(new), Named(new, Files)))) \in Nat
      BY CountsAreNumbers
    <3> QED BY <3>1 DEF Backlinks, ForwardLinks
  <2>3. Sync(ix, scan) = [in EXCEPT !.back = Backlinks(new), !.fwd = ForwardLinks(new)]
    BY <1>2, <2>1 DEF Sync, Recount
  <2> HIDE DEF in, new
  <2>4. /\ Sync(ix, scan) \in Indexes /\ Sync(ix, scan).rows = new
        /\ Sync(ix, scan).back = Backlinks(new) /\ Sync(ix, scan).fwd = ForwardLinks(new)
    BY <2>1, <2>2, <2>3 DEF Indexes
  <2> QED BY <1>1, <2>4 DEF Exact, new
<1>3. CASE ~Rebuilds(scan)
  <2> DEFINE taken == Withdraw(ix, scan)
             in == Insert(taken, scan)
             synced == Credit(in, ix, scan)
  <2>1. taken \in Indexes /\ taken.rows = old
    BY <1>1, WithdrawnIndex
  <2>2. in \in Indexes /\ in.rows = new
    <3> HIDE DEF taken
    <3>1. Insert(taken, scan) \in Indexes /\ Insert(taken, scan).rows = Scanned(taken.rows, scan)
      BY <2>1, InsertedIndex
    <3> QED BY <2>1, <3>1
  <2>3. synced \in Indexes /\ synced.rows = new
    <3> HIDE DEF in, new, old
    <3>1. Credit(in, ix, scan) \in Indexes /\ Credit(in, ix, scan).rows = in.rows
      BY <1>1, <2>2, CreditedIndex
    <3> QED BY <2>2, <3>1
  <2>4. ASSUME NEW k \in Keys
        PROVE  /\ synced.back[k] = Backlinks(new)[k]
               /\ synced.fwd[k] = ForwardLinks(new)[k]
    <3> DEFINE C == DOMAIN scan
               links == LinkRows(new)
               before == LinkRows(old)
    <3>1. /\ taken.back[k] = Backlinks(old)[k] - Cardinality(Into(old, k, From(before, C)))
          /\ taken.fwd[k] = ForwardLinks(old)[k]
               - Cardinality(OutOf(old, k, To(From(before, Files \ C), Removed(old, scan))))
      <4>1. /\ taken.back = [j \in Keys |->
                 ix.back[j] - Cardinality(Into(old, j, From(before, C)))]
            /\ taken.fwd = [j \in Keys |->
                 ix.fwd[j] - Cardinality(OutOf(old, j,
                     To(From(before, Files \ C), Removed(old, scan))))]
        BY <1>1, WithdrawnIndex
      <4> HIDE DEF taken
      <4> QED BY <4>1 DEF Exact
    <3>2. /\ in.back[k] = IF k[1] \in C THEN 0 ELSE taken.back[k]
          /\ in.fwd[k] = IF k[1] \in C THEN 0 ELSE taken.fwd[k]
      <4> HIDE DEF taken
      <4>1. /\ in.back = [j \in Keys |-> IF j[1] \in C THEN 0 ELSE taken.back[j]]
            /\ in.fwd = [j \in Keys |-> IF j[1] \in C THEN 0 ELSE taken.fwd[j]]
        BY <2>1, InsertedIndex
      <4> QED BY <4>1
    <3>3. /\ synced.back[k] = in.back[k] + Cardinality(Into(new, k, From(links, C)))
               + Cardinality(Into(new, k, To(From(links, Files \ C), Named(scan, C))))
          /\ synced.fwd[k] = in.fwd[k]
               + Cardinality(OutOf(new, k, To(From(links, C), Named(new, Files))))
               + Cardinality(OutOf(new, k, To(From(links, Files \ C), Added(old, scan))))
      <4> HIDE DEF in, new
      <4>1. /\ synced.back[k] = in.back[k]
                 + Cardinality(Into(in.rows, k, From(LinkRows(in.rows), C)))
                 + Cardinality(Into(in.rows, k,
                       To(From(LinkRows(in.rows), Files \ C), Named(scan, C))))
            /\ synced.fwd[k] = in.fwd[k]
                 + Cardinality(OutOf(in.rows, k,
                       To(From(LinkRows(in.rows), C), Named(in.rows, Files))))
                 + Cardinality(OutOf(in.rows, k,
                       To(From(LinkRows(in.rows), Files \ C), Added(old, scan))))
        BY <1>1, <2>2, CreditedIndex
      <4> QED BY <2>2, <4>1
    <3>4. /\ Cardinality(Into(new, k, From(links, C))) \in Nat
          /\ Cardinality(Into(new, k, To(From(links, Files \ C), Named(scan, C)))) \in Nat
          /\ Cardinality(OutOf(new, k, To(From(links, C), Named(new, Files)))) \in Nat
          /\ Cardinality(OutOf(new, k, To(From(links, Files \ C), Added(old, scan)))) \in Nat
      <4>1. From(links, C) \in SUBSET links /\ From(links, Files \ C) \in SUBSET links
            /\ To(From(links, Files \ C), Named(scan, C)) \in SUBSET links
        BY DEF From, To
      <4> QED BY <4>1, CountsAreNumbers
    <3> HIDE DEF taken, in, synced, new, old, links, before
    <3>5. CASE k[1] \in C
      <4>1. /\ Backlinks(new)[k] = Cardinality(Into(new, k, From(links, C)))
                 + Cardinality(Into(new, k, To(From(links, Files \ C), Named(scan, C))))
            /\ ForwardLinks(new)[k] =
                 Cardinality(OutOf(new, k, To(From(links, C), Named(new, Files))))
                 + Cardinality(OutOf(new, k, To(From(links, Files \ C), Added(old, scan))))
        BY <1>1, <3>5, BackOfScanned, ForwardOfScanned DEF new, links
      <4> QED BY <3>2, <3>3, <3>4, <3>5, <4>1
    <3>6. CASE k[1] \notin C
      <4>1. /\ Backlinks(new)[k] = Backlinks(old)[k]
                 - Cardinality(Into(old, k, From(before, C)))
                 + Cardinality(Into(new, k, From(links, C)))
                 + Cardinality(Into(new, k, To(From(links, Files \ C), Named(scan, C))))
            /\ ForwardLinks(new)[k] = ForwardLinks(old)[k]
                 - Cardinality(OutOf(old, k, To(From(before, Files \ C), Removed(old, scan))))
                 + Cardinality(OutOf(new, k, To(From(links, C), Named(new, Files))))
                 + Cardinality(OutOf(new, k, To(From(links, Files \ C), Added(old, scan))))
        BY <1>1, <3>6, BackOfOther, ForwardOfOther DEF new, links, before
      <4> QED BY <3>1, <3>2, <3>3, <3>6, <4>1
    <3> QED BY <3>5, <3>6
  <2>5. /\ Backlinks(new) = [k \in Keys |-> Backlinks(new)[k]]
        /\ ForwardLinks(new) = [k \in Keys |-> ForwardLinks(new)[k]]
    BY DEF Backlinks, ForwardLinks
  <2>6. Sync(ix, scan) = synced
    BY <1>3 DEF Sync
  <2> HIDE DEF synced, new
  <2>7. synced.back = Backlinks(new) /\ synced.fwd = ForwardLinks(new)
    BY <2>3, <2>4, <2>5 DEF Indexes
  <2> QED BY <1>1, <2>3, <2>6, <2>7 DEF Exact, new
<1> QED BY <1>2, <1>3

(* remove_file_indexes: forgetting files brings no two nodes of one id. *)
THEOREM RemoveStaysExact ==
    ASSUME NEW ix, Exact(ix), NEW F \in SUBSET Files
    PROVE  /\ Exact(Remove(ix, F))
           /\ Remove(ix, F).rows = [f \in Files |-> IF f \in F THEN Absent ELSE ix.rows[f]]
<1> DEFINE scan == [f \in F |-> Absent]
           new == Scanned(ix.rows, scan)
<1>1. scan \in Scans /\ DOMAIN scan = F
  BY DEF Scans, Absent
<1>2. new = [f \in Files |-> IF f \in F THEN Absent ELSE ix.rows[f]]
  BY DEF Scanned
<1>3. \A k \in Keys : IdAt(new, k) # None => IdAt(new, k) = IdAt(ix.rows, k)
  <2> SUFFICES ASSUME NEW k \in Keys, IdAt(new, k) # None
               PROVE  IdAt(new, k) = IdAt(ix.rows, k)
    OBVIOUS
  <2>1. k[1] \in Files /\ k[2] \in Nat /\ k[2] > 0
    BY IndexAssumption DEF Keys
  <2>2. k[1] \notin F
    <3> SUFFICES ASSUME k[1] \in F
                 PROVE  FALSE
      OBVIOUS
    <3>1. new[k[1]] = <<>> /\ Len(<<>>) = 0
      BY <1>2, <2>1 DEF Absent
    <3> HIDE DEF new
    <3> QED BY <2>1, <3>1 DEF IdAt
  <2>3. new[k[1]] = ix.rows[k[1]]
    BY <1>2, <2>1, <2>2
  <2> HIDE DEF new
  <2> QED BY <2>3 DEF IdAt
<1>4. ~Clash(new)
  BY <1>3 DEF Clash, Exact
<1> QED BY <1>1, <1>2, <1>4, SyncStaysExact DEF Remove

(* An index counted afresh is exact. *)
LEMMA RecountIsExact ==
    ASSUME NEW rows \in Tables, ~Clash(rows)
    PROVE  LET ix == Recount([EmptyIndex EXCEPT !.rows = rows])
           IN  Exact(ix) /\ ix.rows = rows
<1> DEFINE empty == [EmptyIndex EXCEPT !.rows = rows]
<1>1. EmptyIndex \in Indexes
  BY DEF EmptyIndex, Indexes, Tables, Absent
<1>2. empty \in Indexes /\ empty.rows = rows
  BY <1>1 DEF Indexes
<1>3. Backlinks(rows) \in [Keys -> Int] /\ ForwardLinks(rows) \in [Keys -> Int]
  <2>1. ASSUME NEW k \in Keys
        PROVE  /\ Cardinality(Into(rows, k, LinkRows(rows))) \in Nat
               /\ Cardinality(OutOf(rows, k, To(LinkRows(rows), Named(rows, Files)))) \in Nat
    BY CountsAreNumbers
  <2> QED BY <2>1 DEF Backlinks, ForwardLinks
<1> HIDE DEF empty
<1>4. Recount(empty) = [empty EXCEPT !.back = Backlinks(rows), !.fwd = ForwardLinks(rows)]
  BY <1>2 DEF Recount
<1>5. /\ Recount(empty) \in Indexes /\ Recount(empty).rows = rows
      /\ Recount(empty).back = Backlinks(rows) /\ Recount(empty).fwd = ForwardLinks(rows)
  BY <1>2, <1>3, <1>4 DEF Indexes
<1> QED BY <1>5 DEF Exact, empty
=============================================================================
