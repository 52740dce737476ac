----------------------- MODULE NotesWorkspaceProofs -----------------------
(***************************************************************************)
(* Proofs about the desktop engine over its directory of Org files: the    *)
(* index stays exact and follows what is on disk, and neither the steps of *)
(* an edit nor a crash between two of them lose a note.                    *)
(***************************************************************************)
EXTENDS NotesWorkspace, NoteIndexProofs, SequenceTheorems, WellFoundedInduction

-----------------------------------------------------------------------------
(* Sequences of entries.                                                   *)

Documents == {doc \in Seq(Entries) : IsDocument(doc)}
Headings == {s \in Seq(Entries) : \A k \in DOMAIN s : s[k].level >= 1}

(* A document but for the bounds: the file, and below it headings. *)
Shaped == {doc \in Seq(Entries) : \A k \in DOMAIN doc : doc[k].level = 0 <=> k = 1}

LEMMA FittingDocument ==
    ASSUME NEW doc \in Shaped, Fits(doc)
    PROVE  doc \in Documents
<1>1. /\ doc \in Seq(Entries) /\ Len(doc) <= MaxLines
      /\ \A k \in DOMAIN doc : doc[k] \in Entries /\ doc[k].level <= MaxLevel
                               /\ (doc[k].level = 0 <=> k = 1)
  BY DEF Shaped, Fits
<1>2. ASSUME NEW k \in DOMAIN doc
      PROVE  doc[k] \in [level : IF k = 1 THEN {0} ELSE 1..MaxLevel,
                         note : Notes \cup {None}, id : Ids \cup {None}]
  BY <1>1, WorkspaceAssumption DEF Entries
<1> QED BY <1>1, <1>2 DEF Documents, IsDocument

LEMMA DocumentIsShaped ==
    ASSUME NEW doc \in Documents
    PROVE  /\ doc \in Shaped /\ doc \in Seq(Entries) /\ Len(doc) <= MaxLines
           /\ \A k \in DOMAIN doc : doc[k].level \in 0..MaxLevel
<1>1. /\ doc \in Seq(Entries) /\ Len(doc) <= MaxLines
      /\ \A k \in DOMAIN doc :
            doc[k] \in [level : IF k = 1 THEN {0} ELSE 1..MaxLevel,
                        note : Notes \cup {None}, id : Ids \cup {None}]
  BY DEF Documents, IsDocument
<1>2. \A k \in DOMAIN doc : doc[k].level \in 0..MaxLevel /\ (doc[k].level = 0 <=> k = 1)
  BY <1>1, WorkspaceAssumption
<1> QED BY <1>1, <1>2 DEF Shaped

LEMMA AbsentIsDocument == Absent \in Documents
<1>1. MaxLines >= 0
  BY IndexAssumption
<1> QED BY <1>1 DEF Absent, Documents, IsDocument

(* A set of numbers has a least one. *)
LEMMA Least ==
    ASSUME NEW T \in SUBSET Nat, T # {}
    PROVE  \E m \in T : \A n \in T : m <= n
<1> DEFINE below == {1..n : n \in T}
           R == StrictSubsetOrdering(Nat)
<1>1. IsWellFoundedOn(R, FiniteSubsetsOf(Nat))
  BY FS_StrictSubsetOrderingWellFounded
<1>2. below \subseteq FiniteSubsetsOf(Nat) /\ below # {}
  <2>1. \A n \in T : IsFiniteSet(1..n) /\ (1..n) \subseteq Nat
    BY FS_Interval
  <2> QED BY <2>1 DEF FiniteSubsetsOf
<1> HIDE DEF below
<1>3. PICK x \in below : \A y \in below : <<y, x>> \notin R
  BY <1>1, <1>2, WFMin
<1>4. PICK m \in T : x = 1..m
  BY <1>3 DEF below
<1>5. ASSUME NEW n \in T, n < m
      PROVE  FALSE
  <2>1. (1..n) \in below /\ <<1..n, 1..m>> \notin R
    BY <1>3, <1>4 DEF below
  <2>2. (1..n) \subseteq (1..m) /\ m \in 1..m /\ m \notin 1..n
    BY <1>5
  <2>3. (1..n) \in SUBSET Nat /\ (1..m) \in SUBSET Nat /\ 1..n # 1..m
    BY <2>2
  <2> QED BY <2>1, <2>2, <2>3 DEF StrictSubsetOrdering
<1> QED BY <1>5

(* The subtree of an entry ends behind it, and what lies in it is deeper. *)
LEMMA EndOfEntry ==
    ASSUME NEW doc \in Seq(Entries), NEW i \in 1..Len(doc), NEW level \in Nat
    PROVE  LET e == EndOf(doc, i, level) IN
           /\ e \in (i + 1)..(Len(doc) + 1)
           /\ e <= Len(doc) => doc[e].level <= level
           /\ \A k \in (i + 1)..(e - 1) : doc[k].level > level
<1> DEFINE T == {e \in (i + 1)..(Len(doc) + 1) : e = Len(doc) + 1 \/ doc[e].level <= level}
           Ends(e) == /\ e = Len(doc) + 1 \/ doc[e].level <= level
                      /\ \A k \in (i + 1)..(e - 1) : doc[k].level > level
<1>1. T \in SUBSET Nat /\ Len(doc) + 1 \in T
  OBVIOUS
<1>2. PICK e \in T : \A n \in T : e <= n
  BY <1>1, Least
<1>3. ASSUME NEW k \in (i + 1)..(e - 1)
      PROVE  doc[k].level > level
  <2>1. k \in 1..Len(doc) /\ k \notin T /\ k \in (i + 1)..(Len(doc) + 1)
    BY <1>2
  <2>2. doc[k] \in Entries
    BY <2>1, ElementOfSeq
  <2>3. doc[k].level \in Nat
    BY <2>2 DEF Entries
  <2> QED BY <2>1, <2>3
<1>4. e \in (i + 1)..(Len(doc) + 1) /\ Ends(e)
  BY <1>2, <1>3
<1>5. EndOf(doc, i, level) = CHOOSE x \in (i + 1)..(Len(doc) + 1) : Ends(x)
  BY DEF EndOf
<1> HIDE DEF Ends, T
<1>6. EndOf(doc, i, level) \in (i + 1)..(Len(doc) + 1) /\ Ends(EndOf(doc, i, level))
  BY <1>4, <1>5
<1> QED BY <1>6 DEF Ends

-----------------------------------------------------------------------------
(* What a sequence of entries says: its notes and their ids.               *)

Texts(s) == {<<s[k].note, s[k].id>> : k \in DOMAIN s}
NotesIn(s) == {t[1] : t \in Texts(s)} \ {None}
NamesIn(s) == {t \in Texts(s) : t[2] # None}

LEMMA TextsOfConcat ==
    ASSUME NEW s \in Seq(Entries), NEW t \in Seq(Entries)
    PROVE  Texts(s \o t) = Texts(s) \cup Texts(t)
<1>1. /\ s \o t \in Seq(Entries) /\ Len(s \o t) = Len(s) + Len(t)
      /\ \A i \in 1..(Len(s) + Len(t)) :
            (s \o t)[i] = IF i <= Len(s) THEN s[i] ELSE t[i - Len(s)]
  BY ConcatProperties
<1>2. Len(s) \in Nat /\ Len(t) \in Nat
  OBVIOUS
<1> DEFINE st == s \o t
<1>3. DOMAIN st = 1..(Len(s) + Len(t)) /\ DOMAIN s = 1..Len(s) /\ DOMAIN t = 1..Len(t)
  BY <1>1, LenProperties
<1>4. ASSUME NEW x \in Texts(st)
      PROVE  x \in Texts(s) \cup Texts(t)
  <2>1. PICK k \in 1..(Len(s) + Len(t)) : x = <<st[k].note, st[k].id>>
    BY <1>3 DEF Texts
  <2>2. CASE k <= Len(s)
    <3>1. st[k] = s[k] /\ k \in 1..Len(s)
      BY <1>1, <1>2, <2>2
    <3> HIDE DEF st
    <3> QED BY <1>3, <2>1, <3>1 DEF Texts
  <2>3. CASE k > Len(s)
    <3>1. st[k] = t[k - Len(s)] /\ k - Len(s) \in 1..Len(t)
      BY <1>1, <1>2, <2>3
    <3> HIDE DEF st
    <3> QED BY <1>3, <2>1, <3>1 DEF Texts
  <2> QED BY <1>2, <2>2, <2>3
<1>5. ASSUME NEW x \in Texts(s)
      PROVE  x \in Texts(st)
  <2>1. PICK k \in 1..Len(s) : x = <<s[k].note, s[k].id>>
    BY <1>3 DEF Texts
  <2>2. k \in 1..(Len(s) + Len(t)) /\ st[k] = s[k]
    BY <1>1, <1>2
  <2> HIDE DEF st
  <2> QED BY <1>3, <2>1, <2>2 DEF Texts
<1>6. ASSUME NEW x \in Texts(t)
      PROVE  x \in Texts(st)
  <2>1. PICK k \in 1..Len(t) : x = <<t[k].note, t[k].id>>
    BY <1>3 DEF Texts
  <2>2. k + Len(s) \in 1..(Len(s) + Len(t)) /\ st[k + Len(s)] = t[k]
    <3>1. k + Len(s) \in 1..(Len(s) + Len(t)) /\ ~(k + Len(s) <= Len(s))
          /\ (k + Len(s)) - Len(s) = k
      BY <1>2
    <3>2. st[k + Len(s)] = t[(k + Len(s)) - Len(s)]
      BY <1>1, <3>1
    <3> QED BY <3>1, <3>2
  <2> HIDE DEF st
  <2> QED BY <1>3, <2>1, <2>2 DEF Texts
<1> QED BY <1>4, <1>5, <1>6

LEMMA PartOfSeq ==
    ASSUME NEW s \in Seq(Entries), NEW a \in Nat \ {0}, NEW b \in Nat, b <= Len(s)
    PROVE  LET part == SubSeq(s, a, b) IN
           /\ part \in Seq(Entries)
           /\ Len(part) = (IF a <= b THEN b - a + 1 ELSE 0)
           /\ \A k \in 1..Len(part) : part[k] = s[a + k - 1] /\ a + k - 1 \in a..b
           /\ \A k \in a..b : s[k] = part[k - a + 1] /\ k - a + 1 \in 1..Len(part)
<1> DEFINE part == SubSeq(s, a, b)
<1>1. \A i \in a..b : s[i] \in Entries
  <2>1. \A i \in a..b : i \in 1..Len(s)
    OBVIOUS
  <2> QED BY <2>1, ElementOfSeq
<1>2. /\ part \in Seq(Entries)
      /\ Len(part) = IF a <= b THEN b - a + 1 ELSE 0
      /\ \A i \in 1..(b - a + 1) : part[i] = s[a + i - 1]
  BY <1>1, SubSeqProperties
<1> HIDE DEF part
<1>3. \A k \in 1..Len(part) : k \in 1..(b - a + 1) /\ a + k - 1 \in a..b
  BY <1>2
<1>4. \A k \in a..b : k - a + 1 \in 1..Len(part) /\ k - a + 1 \in 1..(b - a + 1)
                      /\ a + (k - a + 1) - 1 = k
  BY <1>2
<1>5. \A k \in a..b : s[k] = part[k - a + 1]
  BY <1>2, <1>4
<1>6. \A k \in 1..Len(part) : part[k] = s[a + k - 1]
  BY <1>2, <1>3
<1> QED BY <1>2, <1>3, <1>4, <1>5, <1>6 DEF part

LEMMA TextsOfPart ==
    ASSUME NEW s \in Seq(Entries), NEW a \in Nat \ {0}, NEW b \in Nat, b <= Len(s)
    PROVE  Texts(SubSeq(s, a, b)) = {<<s[k].note, s[k].id>> : k \in a..b}
<1> DEFINE part == SubSeq(s, a, b)
<1>1. /\ part \in Seq(Entries)
      /\ \A k \in 1..Len(part) : part[k] = s[a + k - 1] /\ a + k - 1 \in a..b
      /\ \A k \in a..b : s[k] = part[k - a + 1] /\ k - a + 1 \in 1..Len(part)
  BY PartOfSeq
<1> HIDE DEF part
<1>2. DOMAIN part = 1..Len(part)
  BY <1>1, LenProperties
<1>3. Texts(part) = {<<s[k].note, s[k].id>> : k \in a..b}
  BY <1>1, <1>2 DEF Texts
<1> QED BY <1>3 DEF part

-----------------------------------------------------------------------------
(* Taking entries out of a document, and putting them in.                  *)

LEMMA CutEntries ==
    ASSUME NEW doc \in Seq(Entries), NEW a \in 1..(Len(doc) + 1), NEW b \in a..(Len(doc) + 1)
    PROVE  /\ Cut(doc, a, b) \in Seq(Entries)
           /\ Len(Cut(doc, a, b)) = Len(doc) - (b - a)
           /\ \A k \in 1..Len(Cut(doc, a, b)) :
                 Cut(doc, a, b)[k] = IF k < a THEN doc[k] ELSE doc[k + (b - a)]
           /\ Texts(doc) = Texts(Cut(doc, a, b)) \cup Texts(SubSeq(doc, a, b - 1))
<1> DEFINE n == Len(doc)
           s == SubSeq(doc, 1, a - 1)
           t == SubSeq(doc, b, n)
<1>1. a - 1 \in Nat /\ a - 1 <= n /\ b \in Nat \ {0} /\ n \in Nat /\ a \in Nat \ {0}
      /\ b - 1 \in Nat /\ b - 1 <= n /\ a <= b /\ b <= n + 1
  OBVIOUS
<1>2. /\ s \in Seq(Entries) /\ Len(s) = a - 1
      /\ \A k \in 1..Len(s) : s[k] = doc[1 + k - 1]
  <2>1. /\ s \in Seq(Entries)
        /\ Len(s) = IF 1 <= a - 1 THEN (a - 1) - 1 + 1 ELSE 0
        /\ \A k \in 1..Len(s) : s[k] = doc[1 + k - 1]
    BY <1>1, PartOfSeq
  <2> HIDE DEF s
  <2> QED BY <1>1, <2>1
<1>3. /\ t \in Seq(Entries) /\ Len(t) = n - b + 1
      /\ \A k \in 1..Len(t) : t[k] = doc[b + k - 1]
  <2>1. /\ t \in Seq(Entries)
        /\ Len(t) = IF b <= n THEN n - b + 1 ELSE 0
        /\ \A k \in 1..Len(t) : t[k] = doc[b + k - 1]
    BY <1>1, PartOfSeq
  <2> HIDE DEF t
  <2> QED BY <1>1, <2>1
<1>4. Texts(doc) = Texts(s) \cup Texts(t) \cup Texts(SubSeq(doc, a, b - 1))
  <2>1. /\ Texts(s) = {<<doc[k].note, doc[k].id>> : k \in 1..(a - 1)}
        /\ Texts(t) = {<<doc[k].note, doc[k].id>> : k \in b..n}
        /\ Texts(SubSeq(doc, a, b - 1)) = {<<doc[k].note, doc[k].id>> : k \in a..(b - 1)}
    <3>1. Texts(s) = {<<doc[k].note, doc[k].id>> : k \in 1..(a - 1)}
      BY <1>1, TextsOfPart
    <3>2. Texts(t) = {<<doc[k].note, doc[k].id>> : k \in b..n}
      BY <1>1, TextsOfPart, SMTT(30)
    <3>3. Texts(SubSeq(doc, a, b - 1)) = {<<doc[k].note, doc[k].id>> : k \in a..(b - 1)}
      BY <1>1, TextsOfPart
    <3> QED BY <3>1, <3>2, <3>3
  <2>2. DOMAIN doc = (1..(a - 1)) \cup (a..(b - 1)) \cup (b..n)
    <3>1. DOMAIN doc = 1..n
      BY LenProperties
    <3> HIDE DEF n
    <3> QED BY <1>1, <3>1
  <2> HIDE DEF s, t, n
  <2> QED BY <2>1, <2>2 DEF Texts
<1>5. Cut(doc, a, b) = s \o t
  BY DEF Cut
<1> HIDE DEF s, t
<1>6. Texts(s \o t) = Texts(s) \cup Texts(t)
  BY <1>2, <1>3, TextsOfConcat
<1>7. /\ s \o t \in Seq(Entries) /\ Len(s \o t) = Len(s) + Len(t)
      /\ \A i \in 1..(Len(s) + Len(t)) :
            (s \o t)[i] = IF i <= Len(s) THEN s[i] ELSE t[i - Len(s)]
  BY <1>2, <1>3, ConcatProperties
<1>8. Len(s \o t) = n - (b - a)
  BY <1>1, <1>2, <1>3, <1>7
<1>9. ASSUME NEW k \in 1..Len(s \o t)
      PROVE  (s \o t)[k] = IF k < a THEN doc[k] ELSE doc[k + (b - a)]
  <2>1. CASE k < a
    BY <1>1, <1>2, <1>7, <2>1
  <2>2. CASE k >= a
    <3>1. (s \o t)[k] = t[k - (a - 1)] /\ k - (a - 1) \in 1..Len(t)
      BY <1>1, <1>2, <1>3, <1>7, <2>2
    <3>2. t[k - (a - 1)] = doc[b + (k - (a - 1)) - 1]
      BY <1>3, <3>1
    <3>3. b + (k - (a - 1)) - 1 = k + (b - a)
      BY <1>1
    <3> QED BY <1>1, <2>2, <3>1, <3>2, <3>3
  <2> QED BY <1>1, <2>1, <2>2
<1> QED BY <1>4, <1>5, <1>6, <1>7, <1>8, <1>9

LEMMA CutTexts ==
    ASSUME NEW doc \in Seq(Entries), NEW a \in 1..(Len(doc) + 1), NEW b \in a..(Len(doc) + 1)
    PROVE  Texts(doc) = Texts(Cut(doc, a, b)) \cup Texts(SubSeq(doc, a, b - 1))
BY CutEntries, SMTT(30)

LEMMA PasteEntries ==
    ASSUME NEW doc \in Seq(Entries), NEW e \in Seq(Entries), NEW at \in 1..(Len(doc) + 1)
    PROVE  /\ Paste(doc, at, e) \in Seq(Entries)
           /\ Len(Paste(doc, at, e)) = Len(doc) + Len(e)
           /\ \A k \in 1..(at - 1) : Paste(doc, at, e)[k] = doc[k]
           /\ \A k \in at..Len(Paste(doc, at, e)) :
                 \/ \E j \in DOMAIN e : Paste(doc, at, e)[k] = e[j]
                 \/ \E j \in at..Len(doc) : Paste(doc, at, e)[k] = doc[j]
           /\ Texts(Paste(doc, at, e)) = Texts(doc) \cup Texts(e)
<1> DEFINE n == Len(doc)
           s == SubSeq(doc, 1, at - 1)
           t == SubSeq(doc, at, n)
           se == s \o e
           all == se \o t
<1>1. at - 1 \in Nat /\ at - 1 <= n /\ n \in Nat /\ at \in Nat \ {0} /\ Len(e) \in Nat
      /\ at <= n + 1
  OBVIOUS
<1>2. /\ s \in Seq(Entries) /\ Len(s) = at - 1
      /\ \A k \in 1..Len(s) : s[k] = doc[1 + k - 1]
  <2>1. /\ s \in Seq(Entries)
        /\ Len(s) = IF 1 <= at - 1 THEN (at - 1) - 1 + 1 ELSE 0
        /\ \A k \in 1..Len(s) : s[k] = doc[1 + k - 1]
    BY <1>1, PartOfSeq
  <2> HIDE DEF s
  <2> QED BY <1>1, <2>1
<1>3. /\ t \in Seq(Entries) /\ Len(t) = n - at + 1
      /\ \A k \in 1..Len(t) : t[k] = doc[at + k - 1]
  <2>1. /\ t \in Seq(Entries)
        /\ Len(t) = IF at <= n THEN n - at + 1 ELSE 0
        /\ \A k \in 1..Len(t) : t[k] = doc[at + k - 1]
    BY <1>1, PartOfSeq
  <2> HIDE DEF t
  <2> QED BY <1>1, <2>1
<1>4. Texts(doc) = Texts(s) \cup Texts(t)
  <2>1. /\ Texts(s) = {<<doc[k].note, doc[k].id>> : k \in 1..(at - 1)}
        /\ Texts(t) = {<<doc[k].note, doc[k].id>> : k \in at..n}
    <3>1. Texts(s) = {<<doc[k].note, doc[k].id>> : k \in 1..(at - 1)}
      BY <1>1, TextsOfPart
    <3>2. Texts(t) = {<<doc[k].note, doc[k].id>> : k \in at..n}
      BY <1>1, TextsOfPart, SMTT(30)
    <3> QED BY <3>1, <3>2
  <2>2. DOMAIN doc = (1..(at - 1)) \cup (at..n)
    <3>1. DOMAIN doc = 1..n
      BY LenProperties
    <3> HIDE DEF n
    <3> QED BY <1>1, <3>1
  <2> HIDE DEF s, t, n
  <2> QED BY <2>1, <2>2 DEF Texts
<1>5. Paste(doc, at, e) = all
  BY DEF Paste
<1> HIDE DEF s, t
<1>6. /\ se \in Seq(Entries) /\ Len(se) = Len(s) + Len(e)
      /\ \A i \in 1..(Len(s) + Len(e)) :
            se[i] = IF i <= Len(s) THEN s[i] ELSE e[i - Len(s)]
      /\ Texts(se) = Texts(s) \cup Texts(e)
  BY <1>2, ConcatProperties, TextsOfConcat
<1> HIDE DEF se
<1>7. /\ all \in Seq(Entries) /\ Len(all) = Len(se) + Len(t)
      /\ \A i \in 1..(Len(se) + Len(t)) :
            all[i] = IF i <= Len(se) THEN se[i] ELSE t[i - Len(se)]
      /\ Texts(all) = Texts(se) \cup Texts(t)
  <2>1. /\ all \in Seq(Entries) /\ Len(all) = Len(se) + Len(t)
        /\ \A i \in 1..(Len(se) + Len(t)) :
              all[i] = IF i <= Len(se) THEN se[i] ELSE t[i - Len(se)]
    <3>1. se \in Seq(Entries) /\ t \in Seq(Entries)
      BY <1>3, <1>6
    <3> QED BY <3>1, ConcatProperties
  <2>2. Texts(all) = Texts(se) \cup Texts(t)
    BY <1>3, <1>6, TextsOfConcat
  <2> QED BY <2>1, <2>2
<1> HIDE DEF all
<1>8. Len(all) = n + Len(e)
  BY <1>1, <1>2, <1>3, <1>6, <1>7
<1>9. ASSUME NEW k \in 1..(at - 1)
      PROVE  all[k] = doc[k]
  <2>1. k <= Len(s) /\ k <= Len(se) /\ k \in 1..(Len(s) + Len(e))
        /\ k \in 1..(Len(se) + Len(t)) /\ 1 + k - 1 = k
    BY <1>1, <1>2, <1>3, <1>6
  <2> QED BY <1>2, <1>6, <1>7, <2>1
<1>10. ASSUME NEW k \in at..Len(all)
       PROVE  (\E j \in DOMAIN e : all[k] = e[j]) \/ (\E j \in at..n : all[k] = doc[j])
  <2>1. CASE k <= Len(se)
    <3>1. k - Len(s) \in 1..Len(e) /\ all[k] = se[k] /\ se[k] = e[k - Len(s)]
      BY <1>1, <1>2, <1>3, <1>6, <1>7, <2>1
    <3> QED BY <3>1, LenProperties
  <2>2. CASE k > Len(se)
    <3>1. k - Len(se) \in 1..Len(t) /\ all[k] = t[k - Len(se)]
      BY <1>1, <1>2, <1>3, <1>6, <1>7, <2>2, SMTT(30)
    <3>2. t[k - Len(se)] = doc[at + (k - Len(se)) - 1]
      BY <1>3, <3>1
    <3> DEFINE j == at + (k - Len(se)) - 1
    <3>3. j \in at..n
      BY <1>1, <1>2, <1>3, <1>6, <3>1
    <3>4. all[k] = doc[j]
      BY <3>1, <3>2
    <3> HIDE DEF j
    <3> QED BY <3>3, <3>4
  <2> QED BY <1>1, <1>2, <1>6, <2>1, <2>2
<1> QED BY <1>4, <1>5, <1>6, <1>7, <1>8, <1>9, <1>10

LEMMA CutIsShaped ==
    ASSUME NEW doc \in Shaped, NEW a \in 2..(Len(doc) + 1), NEW b \in a..(Len(doc) + 1)
    PROVE  Cut(doc, a, b) \in Shaped
<1> DEFINE rest == Cut(doc, a, b)
<1>1. /\ rest \in Seq(Entries) /\ Len(rest) = Len(doc) - (b - a)
      /\ \A k \in 1..Len(rest) : rest[k] = IF k < a THEN doc[k] ELSE doc[k + (b - a)]
  <2>1. doc \in Seq(Entries) /\ a \in 1..(Len(doc) + 1)
    BY DEF Shaped
  <2> QED BY <2>1, CutEntries
<1>2. \A k \in 1..Len(doc) : doc[k].level = 0 <=> k = 1
  BY LenProperties DEF Shaped
<1> HIDE DEF rest
<1>3. ASSUME NEW k \in 1..Len(rest)
      PROVE  rest[k].level = 0 <=> k = 1
  <2>0. Len(doc) \in Nat
    BY DEF Shaped
  <2>1. CASE k < a
    BY <1>1, <1>2, <2>0, <2>1
  <2>2. CASE k >= a
    <3>1. k + (b - a) \in 1..Len(doc) /\ k + (b - a) # 1 /\ k # 1 /\ ~(k < a)
      BY <1>1, <2>0, <2>2
    <3> QED BY <1>1, <1>2, <3>1
  <2> QED BY <2>1, <2>2
<1>4. DOMAIN rest = 1..Len(rest)
  BY <1>1, LenProperties
<1> QED BY <1>1, <1>3, <1>4 DEF Shaped, rest

LEMMA PasteIsShaped ==
    ASSUME NEW doc \in Shaped, NEW e \in Headings, NEW at \in 2..(Len(doc) + 1)
    PROVE  Paste(doc, at, e) \in Shaped
<1> DEFINE all == Paste(doc, at, e)
<1>1. /\ all \in Seq(Entries)
      /\ \A k \in 1..(at - 1) : all[k] = doc[k]
      /\ \A k \in at..Len(all) : \/ \E j \in DOMAIN e : all[k] = e[j]
                                 \/ \E j \in at..Len(doc) : all[k] = doc[j]
  <2>1. doc \in Seq(Entries) /\ at \in 1..(Len(doc) + 1) /\ e \in Seq(Entries)
    BY DEF Shaped, Headings
  <2> QED BY <2>1, PasteEntries
<1>2. /\ \A k \in 1..Len(doc) : doc[k].level = 0 <=> k = 1
      /\ \A k \in DOMAIN e : e[k].level >= 1
      /\ Len(doc) \in Nat
  BY LenProperties DEF Shaped, Headings
<1> HIDE DEF all
<1>3. ASSUME NEW k \in 1..Len(all)
      PROVE  all[k].level = 0 <=> k = 1
  <2>1. CASE k < at
    <3>1. k \in 1..(at - 1) /\ k \in 1..Len(doc)
      BY <1>2, <2>1
    <3> QED BY <1>1, <1>2, <3>1
  <2>2. CASE k >= at
    <3>1. k \in at..Len(all) /\ k # 1
      BY <2>2
    <3>2. CASE \E j \in DOMAIN e : all[k] = e[j]
      <4>1. PICK j \in DOMAIN e : all[k] = e[j]
        BY <3>2
      <4>2. all[k].level >= 1
        BY <1>2, <4>1
      <4> QED BY <3>1, <4>2
    <3>3. CASE \E j \in at..Len(doc) : all[k] = doc[j]
      <4>1. PICK j \in at..Len(doc) : all[k] = doc[j]
        BY <3>3
      <4>2. j \in 1..Len(doc) /\ j # 1
        OBVIOUS
      <4> QED BY <1>2, <3>1, <4>1, <4>2
    <3> QED BY <1>1, <3>1, <3>2, <3>3
  <2> QED BY <2>1, <2>2
<1>4. DOMAIN all = 1..Len(all)
  BY <1>1, LenProperties
<1> QED BY <1>1, <1>3, <1>4 DEF Shaped, all

-----------------------------------------------------------------------------
(* Subtrees as they are moved.                                             *)

LEMMA RelevelledEntries ==
    ASSUME NEW e \in Seq(Entries), NEW by \in Int
    PROVE  /\ Relevel(e, by) \in Headings /\ Len(Relevel(e, by)) = Len(e)
           /\ \A k \in 1..Len(e) : /\ Relevel(e, by)[k].note = e[k].note
                                   /\ Relevel(e, by)[k].id = e[k].id
           /\ Texts(Relevel(e, by)) = Texts(e)
<1> DEFINE r == Relevel(e, by)
<1>1. DOMAIN e = 1..Len(e) /\ Len(e) \in Nat
  BY LenProperties
<1>2. r = [k \in 1..Len(e) |-> [e[k] EXCEPT !.level = Max2(1, @ + by)]]
  BY <1>1 DEF Relevel
<1> HIDE DEF r
<1>3. ASSUME NEW k \in 1..Len(e)
      PROVE  /\ r[k] \in Entries /\ r[k].level >= 1
             /\ r[k].note = e[k].note /\ r[k].id = e[k].id
  <2>1. e[k] \in Entries
    BY ElementOfSeq
  <2>2. r[k] = [e[k] EXCEPT !.level = Max2(1, e[k].level + by)]
    BY <1>2
  <2>3. Max2(1, e[k].level + by) \in Nat /\ Max2(1, e[k].level + by) >= 1
    BY <2>1 DEF Max2, Entries
  <2> QED BY <2>1, <2>2, <2>3 DEF Entries
<1>4. r \in [1..Len(e) -> Entries]
  BY <1>2, <1>3
<1>5. r \in Seq(Entries) /\ Len(r) = Len(e)
  BY <1>1, <1>4, IsASeq, LenProperties
<1>6. DOMAIN r = 1..Len(e)
  BY <1>2
<1>7. Texts(r) = Texts(e)
  BY <1>1, <1>3, <1>6 DEF Texts
<1> QED BY <1>3, <1>5, <1>6, <1>7 DEF r, Headings

LEMMA FirstAndRest ==
    ASSUME NEW e \in Seq(Entries), e # <<>>
    PROVE  /\ Len(e) \in Nat /\ Len(e) >= 1 /\ e[1] \in Entries
           /\ Tail(e) \in Seq(Entries) /\ Len(Tail(e)) = Len(e) - 1
           /\ Texts(e) = {<<e[1].note, e[1].id>>} \cup Texts(Tail(e))
<1>1. Len(e) \in Nat /\ Len(e) >= 1 /\ DOMAIN e = 1..Len(e)
  BY LenProperties, EmptySeq
<1>2. e[1] \in Entries
  BY <1>1, ElementOfSeq
<1>3. /\ Tail(e) \in Seq(Entries) /\ Len(Tail(e)) = Len(e) - 1
      /\ \A i \in 1..(Len(e) - 1) : Tail(e)[i] = e[i + 1]
  BY HeadTailProperties
<1> DEFINE t == Tail(e)
<1>4. DOMAIN t = 1..(Len(e) - 1)
  BY <1>3, LenProperties
<1> HIDE DEF t
<1>5. ASSUME NEW x \in Texts(e), x # <<e[1].note, e[1].id>>
      PROVE  x \in Texts(t)
  <2>1. PICK k \in 1..Len(e) : x = <<e[k].note, e[k].id>>
    BY <1>1 DEF Texts
  <2>2. k - 1 \in 1..(Len(e) - 1) /\ (k - 1) + 1 = k
    BY <1>1, <1>5, <2>1
  <2>3. t[k - 1] = e[k]
    BY <1>3, <2>2 DEF t
  <2> QED BY <1>4, <2>1, <2>2, <2>3 DEF Texts
<1>6. ASSUME NEW x \in Texts(t)
      PROVE  x \in Texts(e)
  <2>1. PICK k \in 1..(Len(e) - 1) : x = <<t[k].note, t[k].id>>
    BY <1>4 DEF Texts
  <2>2. k + 1 \in 1..Len(e) /\ t[k] = e[k + 1]
    BY <1>1, <1>3 DEF t
  <2> QED BY <1>1, <2>1, <2>2 DEF Texts
<1>7. <<e[1].note, e[1].id>> \in Texts(e)
  BY <1>1 DEF Texts
<1> QED BY <1>1, <1>2, <1>3, <1>5, <1>6, <1>7 DEF t

LEMMA OneEntry ==
    ASSUME NEW e \in Entries
    PROVE  <<e>> \in Seq(Entries) /\ Len(<<e>>) = 1 /\ Texts(<<e>>) = {<<e.note, e.id>>}
<1>1. <<e>> \in Seq(Entries) /\ Len(<<e>>) = 1 /\ DOMAIN <<e>> = {1} /\ <<e>>[1] = e
  OBVIOUS
<1> QED BY <1>1 DEF Texts

(* Giving an entry an id. *)
WithId(e, i, id) == [e EXCEPT ![i].id = id]

LEMMA NameEntry ==
    ASSUME NEW e \in Seq(Entries), NEW i \in 1..Len(e), NEW id \in Ids \cup {None}
    PROVE  /\ WithId(e, i, id) \in Seq(Entries) /\ Len(WithId(e, i, id)) = Len(e)
           /\ \A k \in 1..Len(e) :
                 /\ WithId(e, i, id)[k].level = e[k].level
                 /\ WithId(e, i, id)[k].note = e[k].note
                 /\ WithId(e, i, id)[k].id = IF k = i THEN id ELSE e[k].id
<1> DEFINE x == [e[i] EXCEPT !.id = id]
           named == [e EXCEPT ![i] = x]
<1>a. WithId(e, i, id) = named
  BY DEF WithId
<1>1. e[i] \in Entries
  BY ElementOfSeq
<1>2. x \in Entries /\ x.level = e[i].level /\ x.note = e[i].note /\ x.id = id
  BY <1>1 DEF Entries
<1> HIDE DEF x
<1>3. named \in Seq(Entries) /\ Len(named) = Len(e)
      /\ \A k \in 1..Len(e) : named[k] = IF k = i THEN x ELSE e[k]
  BY <1>2, ExceptSeq
<1> HIDE DEF named
<1> QED BY <1>a, <1>2, <1>3 DEF x

LEMMA ShiftedEntries ==
    ASSUME NEW e \in Seq(Entries), e # <<>>, NEW to, to.level \in Nat,
           NEW id \in Ids \cup {None}
    PROVE  /\ Shift(e, to, id) \in Headings /\ Len(Shift(e, to, id)) = Len(e)
           /\ Texts(Shift(e, to, id)) = {<<e[1].note, id>>} \cup Texts(Tail(e))
<1> DEFINE by == to.level + 1 - e[1].level
           m == Relevel(e, by)
           s == [m EXCEPT ![1].id = id]
<1>1. Len(e) \in Nat /\ Len(e) >= 1 /\ e[1] \in Entries /\ Tail(e) \in Seq(Entries)
      /\ Len(Tail(e)) = Len(e) - 1
  BY FirstAndRest
<1>2. by \in Int
  BY <1>1 DEF Entries
<1> HIDE DEF by
<1>3. /\ m \in Headings /\ Len(m) = Len(e)
      /\ \A k \in 1..Len(e) : m[k].note = e[k].note /\ m[k].id = e[k].id
  BY <1>2, RelevelledEntries
<1>a. s = Shift(e, to, id)
  BY DEF Shift, by
<1> HIDE DEF m
<1>4. /\ m \in Seq(Entries) /\ \A k \in 1..Len(e) : m[k].level >= 1
  BY <1>3, LenProperties DEF Headings
<1>5. /\ s \in Seq(Entries) /\ Len(s) = Len(e)
      /\ \A k \in 1..Len(e) : /\ s[k].level = m[k].level /\ s[k].note = m[k].note
                              /\ s[k].id = IF k = 1 THEN id ELSE m[k].id
  <2>1. 1 \in 1..Len(m) /\ m \in Seq(Entries)
    BY <1>1, <1>3, <1>4
  <2>2. /\ s \in Seq(Entries) /\ Len(s) = Len(m)
        /\ \A k \in 1..Len(m) : /\ s[k].level = m[k].level /\ s[k].note = m[k].note
                                /\ s[k].id = IF k = 1 THEN id ELSE m[k].id
    <3>1. s = WithId(m, 1, id)
      BY DEF WithId
    <3> HIDE DEF s
    <3> QED BY <2>1, <3>1, NameEntry
  <2> QED BY <1>3, <2>2
<1> HIDE DEF s
<1>6. DOMAIN s = 1..Len(e)
  BY <1>5, LenProperties
<1>7. s \in Headings
  BY <1>4, <1>5, <1>6 DEF Headings
<1>8. s # <<>>
  BY <1>1, <1>5
<1>9. Texts(s) = {<<s[1].note, s[1].id>>} \cup Texts(Tail(s))
  BY <1>5, <1>8, FirstAndRest
<1>10. s[1].note = e[1].note /\ s[1].id = id
  BY <1>1, <1>3, <1>5
<1>11. Texts(Tail(s)) = Texts(Tail(e))
  <2> DEFINE ts == Tail(s)  te == Tail(e)
  <2>1. /\ \A i \in 1..(Len(e) - 1) : te[i] = e[i + 1]
        /\ \A i \in 1..(Len(s) - 1) : ts[i] = s[i + 1]
        /\ ts \in Seq(Entries) /\ Len(ts) = Len(e) - 1
    BY <1>5, <1>8, HeadTailProperties
  <2>2. DOMAIN ts = 1..(Len(e) - 1) /\ DOMAIN te = 1..(Len(e) - 1)
    BY <1>1, <2>1, LenProperties
  <2>3. ASSUME NEW i \in 1..(Len(e) - 1)
        PROVE  ts[i].note = te[i].note /\ ts[i].id = te[i].id
    <3>1. i + 1 \in 1..Len(e) /\ i + 1 # 1
      BY <1>1
    <3>2. ts[i] = s[i + 1] /\ te[i] = e[i + 1]
      BY <1>5, <2>1
    <3> QED BY <1>3, <1>5, <3>1, <3>2
  <2> HIDE DEF ts, te
  <2>4. Texts(ts) = Texts(te)
    BY <2>2, <2>3 DEF Texts
  <2> QED BY <2>4 DEF ts, te
<1> QED BY <1>a, <1>5, <1>7, <1>9, <1>10, <1>11

LEMMA FileFromEntry ==
    ASSUME NEW e \in Entries, e.level = 0, NEW h \in Headings
    PROVE  /\ <<e>> \o h \in Shaped /\ Len(<<e>> \o h) = Len(h) + 1
           /\ Texts(<<e>> \o h) = {<<e.note, e.id>>} \cup Texts(h)
<1> DEFINE s == <<e>>
           d == s \o h
<1>1. s \in Seq(Entries) /\ Len(s) = 1 /\ Texts(s) = {<<e.note, e.id>>} /\ s[1] = e
  BY OneEntry
<1>2. h \in Seq(Entries) /\ Len(h) \in Nat /\ \A k \in 1..Len(h) : h[k].level >= 1
  BY LenProperties DEF Headings
<1> HIDE DEF s
<1>3. /\ d \in Seq(Entries) /\ Len(d) = 1 + Len(h)
      /\ \A i \in 1..(1 + Len(h)) : d[i] = IF i <= 1 THEN s[i] ELSE h[i - 1]
      /\ Texts(d) = Texts(s) \cup Texts(h)
  <2>1. Texts(d) = Texts(s) \cup Texts(h)
    BY <1>1, <1>2, TextsOfConcat
  <2>2. /\ d \in Seq(Entries) /\ Len(d) = Len(s) + Len(h)
        /\ \A i \in 1..(Len(s) + Len(h)) : d[i] = IF i <= Len(s) THEN s[i] ELSE h[i - Len(s)]
    BY <1>1, <1>2, ConcatProperties
  <2> HIDE DEF d
  <2> QED BY <1>1, <1>2, <2>1, <2>2
<1> HIDE DEF d
<1>4. ASSUME NEW k \in 1..Len(d)
      PROVE  d[k].level = 0 <=> k = 1
  <2>1. CASE k = 1
    BY <1>1, <1>3, <2>1
  <2>2. CASE k # 1
    <3>1. k - 1 \in 1..Len(h) /\ d[k] = h[k - 1]
      BY <1>2, <1>3, <2>2
    <3> QED BY <1>2, <2>2, <3>1
  <2> QED BY <2>1, <2>2
<1>5. DOMAIN d = 1..Len(d)
  BY <1>3, LenProperties
<1>6. d \in Shaped
  BY <1>3, <1>4, <1>5 DEF Shaped
<1>7. Len(d) = Len(h) + 1
  BY <1>2, <1>3
<1> QED BY <1>1, <1>3, <1>6, <1>7 DEF s, d

LEMMA ExtractedFile ==
    ASSUME NEW e \in Seq(Entries), e # <<>>, NEW id \in Ids \cup {None}
    PROVE  /\ Extracted(e, id) \in Shaped
           /\ Texts(Extracted(e, id)) = {<<e[1].note, id>>} \cup Texts(Tail(e))
<1> DEFINE first == Entry(0, e[1].note, id)
           rest == Relevel(Tail(e), -1)
<1>1. e[1] \in Entries /\ Tail(e) \in Seq(Entries)
  BY FirstAndRest
<1>2. first \in Entries /\ first.level = 0 /\ first.note = e[1].note /\ first.id = id
  BY <1>1 DEF Entry, Entries
<1>3. rest \in Headings /\ Texts(rest) = Texts(Tail(e))
  <2>1. -1 \in Int
    OBVIOUS
  <2> QED BY <1>1, <2>1, RelevelledEntries
<1>4. Extracted(e, id) = <<first>> \o rest
  BY DEF Extracted
<1> HIDE DEF first, rest
<1> QED BY <1>2, <1>3, <1>4, FileFromEntry

LEMMA BlankEntry == Blank \in Entries /\ Blank.level = 0 /\ Blank.note = None /\ Blank.id = None
BY DEF Blank, Entry, Entries

LEMMA NamedFile ==
    ASSUME NEW doc \in Shaped, NEW i \in 1..Len(doc), NEW id \in Ids \cup {None}
    PROVE  LET text == <<doc[i].note, id>> IN
           /\ WithId(doc, i, id) \in Shaped
           /\ Texts(doc) \subseteq Texts(WithId(doc, i, id)) \cup {<<doc[i].note, doc[i].id>>}
           /\ Texts(WithId(doc, i, id)) \subseteq Texts(doc) \cup {text}
           /\ text \in Texts(WithId(doc, i, id))
<1> DEFINE w == WithId(doc, i, id)
<1>1. /\ w \in Seq(Entries) /\ Len(w) = Len(doc)
      /\ \A k \in 1..Len(doc) : /\ w[k].level = doc[k].level /\ w[k].note = doc[k].note
                                /\ w[k].id = IF k = i THEN id ELSE doc[k].id
  BY NameEntry DEF Shaped
<1> HIDE DEF w
<1>2. DOMAIN w = 1..Len(doc) /\ DOMAIN doc = 1..Len(doc)
  BY <1>1, LenProperties DEF Shaped
<1>3. w \in Shaped
  BY <1>1, <1>2 DEF Shaped
<1>4. ASSUME NEW k \in 1..Len(doc)
      PROVE  /\ k # i => <<doc[k].note, doc[k].id>> = <<w[k].note, w[k].id>>
             /\ k = i => <<doc[k].note, id>> = <<w[k].note, w[k].id>>
  BY <1>1
<1>5. Texts(doc) \subseteq Texts(w) \cup {<<doc[i].note, doc[i].id>>}
  BY <1>2, <1>4 DEF Texts
<1>6. Texts(w) \subseteq Texts(doc) \cup {<<doc[i].note, id>>}
  BY <1>2, <1>4 DEF Texts
<1>7. <<doc[i].note, id>> \in Texts(w)
  BY <1>2, <1>4 DEF Texts
<1> QED BY <1>3, <1>5, <1>6, <1>7 DEF w

(* The file entry of a file demoted says nothing; its text is in a heading. *)
LEMMA DemotedFile ==
    ASSUME NEW doc \in Shaped, doc # <<>>, NEW id \in Ids \cup {None}
    PROVE  /\ Demoted(doc, id) \in Shaped /\ 1 \in DOMAIN doc
           /\ Texts(Demoted(doc, id)) \subseteq Texts(doc) \cup {<<None, None>>, <<doc[1].note, id>>}
           /\ Texts(doc) \subseteq Texts(Demoted(doc, id)) \cup {<<doc[1].note, doc[1].id>>}
           /\ <<doc[1].note, id>> \in Texts(Demoted(doc, id))
<1> DEFINE named == WithId(doc, 1, id)
<1>1. doc \in Seq(Entries) /\ Len(doc) \in Nat /\ Len(doc) >= 1 /\ DOMAIN doc = 1..Len(doc)
  BY FirstAndRest, LenProperties DEF Shaped
<1>2. 1 \in 1..Len(doc)
  BY <1>1
<1>3. /\ named \in Shaped
      /\ Texts(doc) \subseteq Texts(named) \cup {<<doc[1].note, doc[1].id>>}
      /\ Texts(named) \subseteq Texts(doc) \cup {<<doc[1].note, id>>}
      /\ <<doc[1].note, id>> \in Texts(named)
  BY <1>2, NamedFile
<1>4. Demoted(doc, id) = <<Blank>> \o Relevel(named, 1)
  BY DEF Demoted, WithId
<1> HIDE DEF named
<1>5. Relevel(named, 1) \in Headings /\ Texts(Relevel(named, 1)) = Texts(named)
  BY <1>3, RelevelledEntries DEF Shaped
<1>6. /\ Demoted(doc, id) \in Shaped
      /\ Texts(Demoted(doc, id)) = {<<None, None>>} \cup Texts(named)
  BY <1>4, <1>5, BlankEntry, FileFromEntry
<1> QED BY <1>1, <1>2, <1>3, <1>6

(* The entry of a file promoted says nothing; the heading takes its place. *)
LEMMA PromotedFile ==
    ASSUME NEW doc \in Shaped, Promotable(doc), NEW id \in Ids \cup {None}
    PROVE  /\ Promoted(doc, id) \in Shaped /\ 2 \in DOMAIN doc
           /\ \E rest : /\ Texts(doc) = {<<None, None>>, <<doc[2].note, doc[2].id>>} \cup rest
                       /\ Texts(Promoted(doc, id)) = {<<doc[2].note, id>>} \cup rest
<1> DEFINE first == [doc[2] EXCEPT !.level = 0, !.id = id]
           tail == SubSeq(doc, 3, Len(doc))
           rest == Relevel(tail, -1)
<1>1. doc \in Seq(Entries) /\ Len(doc) \in Nat /\ Len(doc) > 1 /\ DOMAIN doc = 1..Len(doc)
  BY LenProperties DEF Promotable, Shaped
<1>2. doc[1] \in Entries /\ doc[2] \in Entries
  BY <1>1, ElementOfSeq
<1>3. doc[1].note = None /\ doc[1].id = None
  BY <1>1 DEF Promotable, HasContent
<1>4. first \in Entries /\ first.level = 0 /\ first.note = doc[2].note /\ first.id = id
  BY <1>2 DEF Entries
<1>5. tail \in Seq(Entries)
  BY <1>1, PartOfSeq
<1>6. Texts(tail) = {<<doc[k].note, doc[k].id>> : k \in 3..Len(doc)}
  BY <1>1, TextsOfPart
<1>7. rest \in Headings /\ Texts(rest) = Texts(tail)
  <2>1. -1 \in Int
    OBVIOUS
  <2> HIDE DEF tail
  <2> QED BY <1>5, <2>1, RelevelledEntries
<1>8. Promoted(doc, id) = <<first>> \o rest
  BY DEF Promoted
<1>9. DOMAIN doc = {1, 2} \cup (3..Len(doc))
  BY <1>1
<1> HIDE DEF first, tail, rest
<1>10. Promoted(doc, id) \in Shaped
       /\ Texts(Promoted(doc, id)) = {<<first.note, first.id>>} \cup Texts(rest)
  BY <1>4, <1>7, <1>8, FileFromEntry
<1>11. Texts(doc) = {<<doc[1].note, doc[1].id>>, <<doc[2].note, doc[2].id>>} \cup Texts(tail)
  BY <1>6, <1>9 DEF Texts
<1>12. 2 \in DOMAIN doc
  BY <1>1
<1>13. \E body : /\ Texts(doc) = {<<None, None>>, <<doc[2].note, doc[2].id>>} \cup body
                 /\ Texts(Promoted(doc, id)) = {<<doc[2].note, id>>} \cup body
  <2>1. Texts(doc) = {<<None, None>>, <<doc[2].note, doc[2].id>>} \cup Texts(rest)
    BY <1>3, <1>7, <1>11
  <2>2. Texts(Promoted(doc, id)) = {<<doc[2].note, id>>} \cup Texts(rest)
    BY <1>4, <1>10
  <2> WITNESS Texts(rest)
  <2> QED BY <2>1, <2>2
<1> QED BY <1>10, <1>12, <1>13

LEMMA ShallowestIsLevel ==
    ASSUME NEW e \in Seq(Entries), e # <<>>
    PROVE  Shallowest(e) \in Nat
<1> DEFINE T == {e[k].level : k \in DOMAIN e}
<1>1. DOMAIN e = 1..Len(e) /\ \A k \in 1..Len(e) : e[k] \in Entries
  BY LenProperties, ElementOfSeq
<1>2. T \in SUBSET Nat
  BY <1>1 DEF Entries
<1>3. T # {}
  <2>1. 1 \in DOMAIN e
    BY <1>1, FirstAndRest
  <2> QED BY <2>1
<1>4. PICK m \in T : \A n \in T : m <= n
  BY <1>2, <1>3, Least
<1>5. m \in T /\ \A k \in DOMAIN e : m <= e[k].level
  BY <1>4
<1>6. Shallowest(e) = CHOOSE x \in T : \A k \in DOMAIN e : x <= e[k].level
  BY DEF Shallowest
<1> HIDE DEF T
<1>7. Shallowest(e) \in T
  BY <1>5, <1>6
<1> QED BY <1>2, <1>7

-----------------------------------------------------------------------------
(* Records of the index and the entries they name.                         *)

LEMMA LineType ==
    ASSUME NEW doc, NEW i \in Nat
    PROVE  /\ Line(doc, i) \in Int
           /\ IsFiniteSet({j \in 1..(i - 1) : doc[j].id # None})
<1> DEFINE T == {j \in 1..(i - 1) : doc[j].id # None}
<1>1. IsFiniteSet(1..(i - 1)) /\ T \subseteq 1..(i - 1)
  BY FS_Interval
<1>2. IsFiniteSet(T) /\ Cardinality(T) \in Nat
  BY <1>1, FS_Subset, FS_CardinalityType
<1>3. Line(doc, i) = IF i = 1 THEN 1
                     ELSE i - (IF doc[1].note = None THEN 1 ELSE 0) + Cardinality(T)
  BY DEF Line
<1> HIDE DEF T
<1>4. Line(doc, i) \in Int
  BY <1>2, <1>3
<1> QED BY <1>2, <1>4 DEF T

(* Headings start at different lines. *)
LEMMA LinesRise ==
    ASSUME NEW doc, NEW i \in Nat, NEW j \in Nat, 2 <= i, i < j
    PROVE  Line(doc, i) < Line(doc, j)
<1> DEFINE S == {k \in 1..(i - 1) : doc[k].id # None}
           T == {k \in 1..(j - 1) : doc[k].id # None}
<1>1. IsFiniteSet(T) /\ S \subseteq T
  BY LineType
<1>2. Cardinality(S) \in Nat /\ Cardinality(T) \in Nat /\ Cardinality(S) <= Cardinality(T)
  BY <1>1, FS_Subset, FS_CardinalityType
<1>3. /\ Line(doc, i) = i - (IF doc[1].note = None THEN 1 ELSE 0) + Cardinality(S)
      /\ Line(doc, j) = j - (IF doc[1].note = None THEN 1 ELSE 0) + Cardinality(T)
  BY DEF Line
<1> HIDE DEF S, T
<1> QED BY <1>2, <1>3

LEMMA PlaceOfRecord ==
    ASSUME NEW doc \in Seq(Entries), doc # Absent, NEW r, Spots(doc, r) # {}
    PROVE  /\ Place(doc, r) \in 1..Len(doc)
           /\ r.level = 0 => Place(doc, r) = 1
           /\ r.level # 0 => Place(doc, r) \in 2..Len(doc) /\ Line(doc, Place(doc, r)) = r.line
<1>1. Place(doc, r) \in Spots(doc, r)
  BY DEF Place
<1>2. Len(doc) \in Nat /\ Len(doc) >= 1
  BY LenProperties, EmptySeq DEF Absent
<1> QED BY <1>1, <1>2 DEF Spots

(* A record of the index names its entry in a file that is as it was read. *)
LEMMA PlaceOfAnchor ==
    ASSUME NEW r \in Anchors, NEW doc, doc = index.rows[r.file],
           doc \in Documents
    PROVE  /\ doc # Absent /\ Spots(doc, r) # {}
           /\ r.id = doc[Place(doc, r)].id
<1>1. PICK k \in Keys : k[2] <= Len(index.rows[k[1]]) /\ r = Record(k)
  BY DEF Anchors
<1>2. /\ r.file = k[1] /\ r.line = Line(doc, k[2])
      /\ r.level = doc[k[2]].level /\ r.id = doc[k[2]].id
  BY <1>1 DEF Record
<1>3. k[2] \in 1..Len(doc)
  BY <1>1, <1>2, IndexAssumption DEF Keys
<1>4. doc \in Seq(Entries) /\ Len(doc) \in Nat /\ (doc[k[2]].level = 0 <=> k[2] = 1)
  BY <1>3, DocumentIsShaped, LenProperties DEF Shaped
<1>5. k[2] \in Spots(doc, r)
  BY <1>2, <1>3, <1>4 DEF Spots
<1>6. doc # Absent
  BY <1>3 DEF Absent
<1>7. Place(doc, r) = k[2]
  <2>1. CASE r.level = 0
    BY <1>2, <1>4, <1>5, <1>6, <2>1, PlaceOfRecord
  <2>2. CASE r.level # 0
    <3>1. Place(doc, r) \in 2..Len(doc) /\ Line(doc, Place(doc, r)) = r.line
      BY <1>4, <1>5, <1>6, <2>2, PlaceOfRecord
    <3>2. k[2] \in 2..Len(doc)
      BY <1>2, <1>3, <1>4, <2>2
    <3>3. Line(doc, k[2]) \in Int /\ Line(doc, Place(doc, r)) \in Int
      <4>1. k[2] \in Nat /\ Place(doc, r) \in Nat
        BY <1>4, <3>1, <3>2
      <4> QED BY <4>1, LineType
    <3>4. ~(Place(doc, r) < k[2]) /\ ~(k[2] < Place(doc, r))
      BY <1>2, <1>4, <3>1, <3>2, <3>3, LinesRise
    <3> QED BY <1>4, <3>1, <3>2, <3>4
  <2> QED BY <2>1, <2>2
<1> QED BY <1>2, <1>5, <1>6, <1>7

-----------------------------------------------------------------------------
(* The state of the engine.                                                *)

Shots == UNION {[F -> Documents] : F \in SUBSET Files}
Puts == [file : Files, doc : Documents]
Records == [file : Files \cup {None}, line : Int, level : Nat, id : Ids \cup {None}]
Kinds == {"ensure_id", "touch", "create", "ensure_file", "append", "refile", "region",
          "extract", "promote", "demote", "relink"}
Edits == {e \in [kind : Kinds, at : Records, to : Records] :
            /\ e.kind = "ensure_id" => e.at.id = None
            /\ e.kind # "create" => e.at.file \in Files
            /\ e.kind \in {"refile", "region", "extract"} => e.to.file \in Files
            /\ e.kind = "refile" /\ e.at.level = 0 => e.at.file # e.to.file
            /\ e.kind = "extract" => e.at.level > 0 /\ e.at.file # e.to.file}
Phases == {"idle", "editing", "writing", "unindexing", "scanning", "syncing"}
Ops == [phase : Phases, request : {"done", "failed", "edit", "file", "root"},
        todo : Seq(Edits), seen : Shots, writes : Seq(Puts), removals : SUBSET Files,
        changed : SUBSET Files, removed : SUBSET Files, scan : Shots]

Typed ==
    /\ disk \in [Files -> Documents] /\ stale \subseteq Files
    /\ Exact(index) /\ index.rows \in [Files -> Documents]
    /\ op \in Ops

(* The phase tells which parts of a request are in use. *)
PhaseFits ==
    /\ op.phase \in {"editing", "writing"} =>
          op.todo # <<>> /\ op.request = "edit" /\ op.scan = <<>>
    /\ op.phase \notin {"editing", "writing"} => op.seen = <<>>
    /\ op.phase # "writing" => op.writes = <<>> /\ op.removals = {}
    /\ op.phase \notin {"editing", "writing", "unindexing"} => op.removed = {}
    /\ op.phase = "unindexing" =>
          op.scan = <<>> /\ (op.request # "edit" => op.changed = {})
    /\ op.phase \in {"syncing", "idle"} => op.changed = {}
    /\ op.phase = "idle" => op.scan = <<>>

(* Only the first edit of a request takes ids from the index, before anything
   was changed.                                                              *)
NameKinds == {"ensure_id", "refile", "extract"}
TodoFits ==
    /\ \A k \in 2..Len(op.todo) : op.todo[k].kind \notin NameKinds
    /\ op.phase = "editing" /\ Now.kind \in NameKinds =>
          op.changed = {} /\ op.removed = {} /\ Now.at \in Anchors

LEMMA NoShot == <<>> \in Shots /\ DOMAIN <<>> = {}
<1>1. <<>> \in [{} -> Documents] /\ DOMAIN <<>> = {}
  OBVIOUS
<1> QED BY <1>1 DEF Shots

LEMMA ShotType ==
    ASSUME NEW shot \in Shots
    PROVE  /\ DOMAIN shot \subseteq Files
           /\ \A f \in DOMAIN shot : shot[f] \in Documents
           /\ shot = [f \in DOMAIN shot |-> shot[f]]
BY DEF Shots

LEMMA IdleOp ==
    ASSUME NEW answer \in {"done", "failed", "edit", "file", "root"}
    PROVE  Idle(answer) \in Ops
<1>1. <<>> \in Seq(Edits) /\ <<>> \in Seq(Puts)
  OBVIOUS
<1> QED BY <1>1, NoShot DEF Idle, Ops, Phases

(* What an edit goes on with. *)
LEMMA OnwardParts ==
    ASSUME NEW o \in Ops, o.todo # <<>>
    PROVE  /\ Onward(o) \in Ops
           /\ Onward(o).request = o.request /\ Onward(o).scan = o.scan
           /\ Onward(o).writes = o.writes /\ Onward(o).removals = o.removals
           /\ Onward(o).changed = o.changed /\ Onward(o).removed = o.removed
           /\ \/ /\ o.writes # <<>> \/ o.removals # {}
                 /\ Onward(o).phase = "writing"
                 /\ Onward(o).todo = o.todo /\ Onward(o).seen = o.seen
              \/ /\ o.writes = <<>> /\ o.removals = {} /\ Onward(o).phase = "editing"
                 /\ Len(o.todo) > 1 /\ Onward(o).todo = Tail(o.todo)
                 /\ Onward(o).seen = o.seen
              \/ /\ o.writes = <<>> /\ o.removals = {}
                 /\ Onward(o).phase = IF o.removed # {} THEN "unindexing" ELSE "scanning"
                 /\ Onward(o).todo = <<>> /\ Onward(o).seen = <<>>
<1>1. CASE o.writes # <<>> \/ o.removals # {}
  BY <1>1 DEF Onward, Ops, Phases
<1>2. CASE ~(o.writes # <<>> \/ o.removals # {}) /\ Len(o.todo) > 1
  <2> DEFINE t == Tail(o.todo)
  <2>1. t \in Seq(Edits)
    BY HeadTailProperties DEF Ops
  <2>2. Onward(o) = [o EXCEPT !.phase = "editing", !.todo = t]
    BY <1>2 DEF Onward
  <2> HIDE DEF t
  <2>3. /\ Onward(o) \in Ops /\ Onward(o).phase = "editing" /\ Onward(o).todo = t
        /\ Onward(o).seen = o.seen /\ Onward(o).request = o.request
        /\ Onward(o).scan = o.scan /\ Onward(o).writes = o.writes
        /\ Onward(o).removals = o.removals /\ Onward(o).changed = o.changed
        /\ Onward(o).removed = o.removed
    BY <2>1, <2>2 DEF Ops, Phases
  <2> QED BY <1>2, <2>3 DEF t
<1>3. CASE ~(o.writes # <<>> \/ o.removals # {}) /\ ~(Len(o.todo) > 1)
  <2> DEFINE p == IF o.removed # {} THEN "unindexing" ELSE "scanning"
             none == <<>>
  <2>1. p \in Phases /\ none \in Seq(Edits) /\ none \in Shots
    BY NoShot DEF Phases
  <2>2. Onward(o) = [o EXCEPT !.phase = p, !.todo = none, !.seen = none]
    BY <1>3 DEF Onward
  <2> HIDE DEF p, none
  <2>3. /\ Onward(o) \in Ops /\ Onward(o).phase = p /\ Onward(o).todo = none
        /\ Onward(o).seen = none /\ Onward(o).request = o.request
        /\ Onward(o).scan = o.scan /\ Onward(o).writes = o.writes
        /\ Onward(o).removals = o.removals /\ Onward(o).changed = o.changed
        /\ Onward(o).removed = o.removed
    BY <2>1, <2>2 DEF Ops
  <2> QED BY <1>3, <2>3 DEF p, none
<1> QED BY <1>1, <1>2, <1>3

-----------------------------------------------------------------------------
(* Transactions.                                                           *)

(* The notes of some of the files an edit read, and their ids. *)
NotesAt(seen, F) == UNION {NotesIn(seen[f]) : f \in F}
NamesAt(seen, F) == UNION {NamesIn(seen[f]) : f \in F}

(* At most two files are written, and at most one is removed. *)
WritesFit(seen, writes, removals) ==
    /\ Len(writes) <= 2
    /\ \A k \in DOMAIN writes : writes[k].file \in DOMAIN seen \ removals
    /\ Len(writes) = 2 => writes[1].file # writes[2].file /\ removals = {}
    /\ removals \subseteq DOMAIN seen /\ \A f, g \in removals : f = g

(* Whatever the next write or removal takes from a file is in another one. *)
NotesKept(seen, writes, removals) ==
    /\ Len(writes) > 0 =>
          NotesIn(seen[writes[1].file]) \subseteq
              NotesIn(writes[1].doc) \cup NotesAt(seen, DOMAIN seen \ {writes[1].file})
    /\ Len(writes) = 2 =>
          NotesIn(seen[writes[2].file]) \subseteq
              NotesIn(writes[2].doc) \cup NotesIn(writes[1].doc)
    /\ \A f \in removals :
          NotesIn(seen[f]) \subseteq
              IF writes = <<>> THEN NotesAt(seen, DOMAIN seen \ {f})
              ELSE NotesIn(writes[1].doc)

(* An edit keeps the names it read, or may leave the id of an entry where it is
   not read, or lets a run land anywhere.                                    *)
Way(todo) ==
    IF todo = <<>> THEN "keeps"
    ELSE IF Head(todo).kind \in {"promote", "demote"} THEN "rereads"
    ELSE IF /\ Head(todo).kind = "region" /\ Head(todo).at.file = Head(todo).to.file
            /\ Head(todo).to.level > 0
         THEN "lands" ELSE "keeps"

NamesKept(way, files, seen, writes, removals) ==
    /\ Len(writes) > 0 =>
          /\ way = "rereads" \/
                NamesIn(seen[writes[1].file]) \subseteq
                    NamesIn(writes[1].doc) \cup NamesAt(seen, DOMAIN seen \ {writes[1].file})
          /\ \A name \in NamesIn(writes[1].doc) \ NamesAt(seen, DOMAIN seen) :
                 name[2] \notin Named(files, Files)
    /\ Len(writes) = 2 =>
          /\ NamesIn(seen[writes[2].file]) \subseteq
                 NamesIn(writes[2].doc) \cup NamesIn(writes[1].doc)
          /\ NamesIn(writes[2].doc) \subseteq NamesIn(seen[writes[2].file])
    /\ \A f \in removals :
          NamesIn(seen[f]) \subseteq
              IF writes = <<>> THEN NamesAt(seen, DOMAIN seen \ {f})
              ELSE NamesIn(writes[1].doc)

(* Names are only kept where the index knew the files as they were. *)
Sound(way, files, old, seen, writes, removals) ==
    /\ WritesFit(seen, writes, removals) /\ NotesKept(seen, writes, removals)
    /\ way # "lands" /\ DOMAIN seen \cap old = {} =>
          NamesKept(way, files, seen, writes, removals)

Drafts == [file : Files, doc : Shaped]
Planned(files, writes, removals) ==
    /\ files \subseteq Files /\ removals \subseteq Files
    /\ writes \in Seq(Drafts) /\ writes # <<>>
    /\ Sound(Way(op.todo), disk, stale, [f \in files |-> disk[f]], writes, removals)

(* An edit of one file. *)
LEMMA OneFile ==
    ASSUME NEW f \in Files, NEW doc \in Shaped,
           NotesIn(disk[f]) \subseteq NotesIn(doc),
           Way(op.todo) # "lands" /\ f \notin stale =>
               /\ Way(op.todo) = "rereads" \/ NamesIn(disk[f]) \subseteq NamesIn(doc)
               /\ \A name \in NamesIn(doc) \ NamesIn(disk[f]) : name[2] \notin Named(disk, Files)
    PROVE  Planned({f}, <<Put(f, doc)>>, {})
<1> DEFINE seen == [x \in {f} |-> disk[x]]
           writes == <<Put(f, doc)>>
<1>1. /\ writes \in Seq(Drafts) /\ writes # <<>> /\ Len(writes) = 1 /\ DOMAIN writes = {1}
      /\ writes[1].file = f /\ writes[1].doc = doc
  <2>1. Put(f, doc) \in Drafts /\ Put(f, doc).file = f /\ Put(f, doc).doc = doc
    BY DEF Put, Drafts
  <2> QED BY <2>1
<1>2. DOMAIN seen = {f} /\ seen[f] = disk[f]
  OBVIOUS
<1> HIDE DEF seen, writes
<1>3. NamesAt(seen, {f}) = NamesIn(disk[f])
  BY <1>2 DEF NamesAt
<1>4. WritesFit(seen, writes, {}) /\ NotesKept(seen, writes, {})
  BY <1>1, <1>2 DEF WritesFit, NotesKept
<1>5. Way(op.todo) # "lands" /\ f \notin stale => NamesKept(Way(op.todo), disk, seen, writes, {})
  BY <1>1, <1>2, <1>3 DEF NamesKept
<1>6. Sound(Way(op.todo), disk, stale, seen, writes, {})
  BY <1>2, <1>4, <1>5 DEF Sound
<1> QED BY <1>1, <1>6 DEF Planned, seen, writes

(* What moves from a file to another, which is written first. *)
LEMMA TwoFiles ==
    ASSUME NEW f \in Files, NEW g \in Files, f # g, NEW doc \in Shaped, NEW rest \in Shaped,
           NotesIn(disk[g]) \subseteq NotesIn(doc),
           NotesIn(disk[f]) \subseteq NotesIn(rest) \cup NotesIn(doc),
           f \notin stale /\ g \notin stale =>
               /\ NamesIn(disk[g]) \subseteq NamesIn(doc)
               /\ NamesIn(disk[f]) \subseteq NamesIn(rest) \cup NamesIn(doc)
               /\ NamesIn(rest) \subseteq NamesIn(disk[f])
               /\ \A name \in NamesIn(doc) \ (NamesIn(disk[f]) \cup NamesIn(disk[g])) :
                      name[2] \notin Named(disk, Files)
    PROVE  /\ Planned({f, g}, <<Put(g, doc), Put(f, rest)>>, {})
           /\ NotesIn(rest) = {} /\ NamesIn(rest) = {} => Planned({f, g}, <<Put(g, doc)>>, {f})
<1> DEFINE seen == [x \in {f, g} |-> disk[x]]
           both == <<Put(g, doc), Put(f, rest)>>
           one == <<Put(g, doc)>>
<1>0. /\ Put(g, doc) \in Drafts /\ Put(g, doc).file = g /\ Put(g, doc).doc = doc
      /\ Put(f, rest) \in Drafts /\ Put(f, rest).file = f /\ Put(f, rest).doc = rest
  BY DEF Put, Drafts
<1>1. /\ both \in Seq(Drafts) /\ both # <<>> /\ Len(both) = 2 /\ DOMAIN both = {1, 2}
      /\ both[1].file = g /\ both[1].doc = doc /\ both[2].file = f /\ both[2].doc = rest
  <2>1. DOMAIN both = 1..2
    OBVIOUS
  <2> QED BY <1>0, <2>1
<1>2. /\ one \in Seq(Drafts) /\ one # <<>> /\ Len(one) = 1 /\ DOMAIN one = {1}
      /\ one[1].file = g /\ one[1].doc = doc
  BY <1>0
<1>3. DOMAIN seen = {f, g} /\ seen[f] = disk[f] /\ seen[g] = disk[g]
  OBVIOUS
<1> HIDE DEF seen, both, one
<1>4. NamesAt(seen, {f, g}) = NamesIn(disk[f]) \cup NamesIn(disk[g])
  BY <1>3 DEF NamesAt
<1>5. Planned({f, g}, both, {})
  <2>1. WritesFit(seen, both, {}) /\ NotesKept(seen, both, {})
    BY <1>1, <1>3 DEF WritesFit, NotesKept
  <2>2. f \notin stale /\ g \notin stale => NamesKept(Way(op.todo), disk, seen, both, {})
    BY <1>1, <1>3, <1>4 DEF NamesKept
  <2>3. Sound(Way(op.todo), disk, stale, seen, both, {})
    BY <1>3, <2>1, <2>2 DEF Sound
  <2> QED BY <1>1, <2>3 DEF Planned, seen
<1>6. ASSUME NotesIn(rest) = {}, NamesIn(rest) = {}
      PROVE  Planned({f, g}, one, {f})
  <2>1. WritesFit(seen, one, {f}) /\ NotesKept(seen, one, {f})
    BY <1>2, <1>3, <1>6 DEF WritesFit, NotesKept
  <2>2. ASSUME f \notin stale, g \notin stale
        PROVE  NamesKept(Way(op.todo), disk, seen, one, {f})
    <3>1. NamesIn(seen[g]) \subseteq NamesIn(doc) \cup NamesAt(seen, DOMAIN seen \ {g})
      BY <1>3, <2>2
    <3>2. \A name \in NamesIn(doc) \ NamesAt(seen, DOMAIN seen) : name[2] \notin Named(disk, Files)
      BY <1>3, <1>4, <2>2
    <3>3. NamesIn(seen[f]) \subseteq NamesIn(doc)
      BY <1>3, <1>6, <2>2
    <3>4. \A x \in {f} : NamesIn(seen[x]) \subseteq
             IF one = <<>> THEN NamesAt(seen, DOMAIN seen \ {x}) ELSE NamesIn(one[1].doc)
      BY <1>2, <3>3
    <3>5. /\ NamesIn(seen[one[1].file]) \subseteq
                 NamesIn(one[1].doc) \cup NamesAt(seen, DOMAIN seen \ {one[1].file})
          /\ \A name \in NamesIn(one[1].doc) \ NamesAt(seen, DOMAIN seen) :
                 name[2] \notin Named(disk, Files)
      BY <1>2, <3>1, <3>2
    <3>6. Len(one) # 2
      BY <1>2
    <3> QED BY <3>4, <3>5, <3>6 DEF NamesKept
  <2>3. Sound(Way(op.todo), disk, stale, seen, one, {f})
    BY <1>3, <2>1, <2>2 DEF Sound
  <2> QED BY <1>2, <2>3 DEF Planned, seen
<1> QED BY <1>5, <1>6 DEF both, one

-----------------------------------------------------------------------------
(* The inductive invariant.                                                *)

(* What is known of a file that nobody else saved, and whose news no failed
   request has kept from the index.                                        *)
Current ==
    \A f \in Files \ stale :
        /\ index.rows[f] = disk[f] \/ f \in Untold
        /\ f \in op.removed => disk[f] = Absent \/ f \in op.changed
        /\ f \in DOMAIN op.scan => op.scan[f] = disk[f]
        /\ f \in DOMAIN op.seen => op.seen[f] = disk[f]
        /\ op.phase \in {"scanning", "syncing"} /\ op.request = "root" =>
              f \in op.changed \cup DOMAIN op.scan \/ disk[f] = Absent

IInv ==
    /\ Typed /\ PhaseFits /\ TodoFits /\ Current
    /\ Sound(Way(op.todo), disk, stale, op.seen, op.writes, op.removals)

-----------------------------------------------------------------------------
(* Every edit plans a transaction that keeps notes and names.              *)

Transacts ==
    \E files, writes, removals :
        Planned(files, writes, removals) /\ Transact(files, writes, removals)

LEMMA NowIsEdit ==
    ASSUME IInv, op.phase = "editing"
    PROVE  /\ Now \in Edits /\ Now.kind \in Kinds /\ Now.at \in Records /\ Now.to \in Records
           /\ op.todo \in Seq(Edits) /\ op.todo # <<>>
<1>1. op.todo \in Seq(Edits) /\ op.todo # <<>>
  BY DEF IInv, Typed, PhaseFits, Ops
<1>2. Now \in Edits
  BY <1>1, HeadTailProperties DEF Now
<1> QED BY <1>1, <1>2 DEF Edits

LEMMA FileOnDisk ==
    ASSUME IInv, NEW f, Exists(f), f \in Files
    PROVE  /\ disk[f] \in Documents /\ disk[f] \in Shaped /\ disk[f] \in Seq(Entries)
           /\ Len(disk[f]) \in Nat /\ Len(disk[f]) >= 1 /\ disk[f] # Absent
<1>1. disk[f] \in Documents
  BY DEF IInv, Typed
<1>2. disk[f] \in Shaped /\ disk[f] \in Seq(Entries)
  BY <1>1, DocumentIsShaped
<1> QED BY <1>1, <1>2, FirstAndRest DEF Exists, Absent

(* Until the first edit of a request has changed something, the files that
   are not stale are the ones the index knows.                              *)
LEMMA NamedByIndex ==
    ASSUME IInv, op.phase = "editing", Now.kind \in NameKinds, ~Misplaced(Now.at),
           Now.at.file \in Files \ stale
    PROVE  Source[Start].id = Now.at.id
<1>1. Untold = {}
  <2>1. op.removed = {} /\ op.changed = {} /\ op.scan = <<>>
    BY DEF IInv, TodoFits, PhaseFits
  <2> QED BY <2>1, NoShot DEF Untold
<1>2. Source = index.rows[Now.at.file] /\ Source \in Documents
  BY <1>1 DEF IInv, Current, Source, Typed
<1>3. Now.at \in Anchors
  BY DEF IInv, TodoFits
<1> QED BY <1>2, <1>3, PlaceOfAnchor DEF Start

LEMMA FreshId ==
    ASSUME NEW i \in FreshIds
    PROVE  i \in Ids /\ i # None /\ i \notin Named(disk, Files)
BY IndexAssumption DEF FreshIds

LEMMA AssignIdPlans ==
    ASSUME IInv, op.phase = "editing", AssignId
    PROVE  Transacts
<1> DEFINE f == Now.at.file
<1>1. Now.kind = "ensure_id" /\ ~Misplaced(Now.at)
  BY DEF AssignId
<1>2. f \in Files /\ Now.at.id = None
  BY <1>1, NowIsEdit DEF Edits
<1>3. Exists(f) /\ Spots(Source, Now.at) # {}
  BY <1>1 DEF Misplaced, Source
<1>4. Source = disk[f] /\ Source \in Shaped /\ Source \in Seq(Entries) /\ Source # Absent
  BY <1>2, <1>3, FileOnDisk DEF Source
<1>5. Start \in 1..Len(Source)
  BY <1>3, <1>4, PlaceOfRecord DEF Start
<1>6. f \notin stale => Source[Start].id = None
  BY <1>1, <1>2, NamedByIndex DEF NameKinds
<1>7. PICK i \in FreshIds :
        Transact({f}, <<Put(f, [Source EXCEPT ![Start].id = i])>>, {})
  BY DEF AssignId
<1> DEFINE doc == WithId(Source, Start, i)
<1>8. Transact({f}, <<Put(f, doc)>>, {})
  BY <1>7 DEF WithId
<1> HIDE DEF f
<1>9. i \in Ids /\ i # None /\ i \notin Named(disk, Files)
  BY FreshId
<1>10. /\ doc \in Shaped
       /\ Texts(Source) \subseteq Texts(doc) \cup {<<Source[Start].note, Source[Start].id>>}
       /\ Texts(doc) \subseteq Texts(Source) \cup {<<Source[Start].note, i>>}
       /\ <<Source[Start].note, i>> \in Texts(doc)
  BY <1>4, <1>5, <1>9, NamedFile
<1> HIDE DEF doc
<1>11. NotesIn(Source) \subseteq NotesIn(doc)
  BY <1>10 DEF NotesIn
<1>12. ASSUME f \notin stale
       PROVE  /\ NamesIn(Source) \subseteq NamesIn(doc)
              /\ \A name \in NamesIn(doc) \ NamesIn(Source) : name[2] \notin Named(disk, Files)
  BY <1>6, <1>9, <1>10, <1>12 DEF NamesIn
<1>13. Planned({f}, <<Put(f, doc)>>, {})
  BY <1>2, <1>4, <1>10, <1>11, <1>12, OneFile
<1> QED BY <1>8, <1>13 DEF Transacts

LEMMA TouchPlans ==
    ASSUME IInv, op.phase = "editing", Touch
    PROVE  Transacts
<1> DEFINE f == Now.at.file
<1>1. Now.kind \in {"touch", "relink"} /\ ~Misplaced(Now.at)
      /\ Transact({f}, <<Put(f, Source)>>, {})
  BY DEF Touch
<1>2. f \in Files
  BY <1>1, NowIsEdit DEF Edits
<1>3. Exists(f)
  BY <1>1 DEF Misplaced
<1>4. Source = disk[f] /\ Source \in Shaped
  BY <1>2, <1>3, FileOnDisk DEF Source
<1> HIDE DEF f
<1>5. Planned({f}, <<Put(f, Source)>>, {})
  BY <1>2, <1>4, OneFile
<1> QED BY <1>1, <1>5 DEF Transacts, f

LEMMA CreateFilePlans ==
    ASSUME IInv, op.phase = "editing", CreateFile
    PROVE  Transacts
<1>1. PICK f \in Files, n \in FreshNotes, i \in FreshIds :
        ~Exists(f) /\ Transact({f}, <<Put(f, <<Entry(0, n, i)>>)>>, {})
  BY DEF CreateFile
<1> DEFINE e == Entry(0, n, i)
           doc == <<e>>
<1>2. i \in Ids /\ i # None /\ i \notin Named(disk, Files)
  BY FreshId
<1>3. e \in Entries /\ e.level = 0 /\ e.note = n /\ e.id = i
  BY <1>2 DEF Entry, Entries, FreshNotes
<1>4. doc \in Seq(Entries) /\ Len(doc) = 1 /\ Texts(doc) = {<<n, i>>} /\ doc[1] = e
  BY <1>3, OneEntry
<1>5. doc \in Shaped
  <2>1. DOMAIN doc = {1}
    OBVIOUS
  <2> QED BY <1>3, <1>4, <2>1 DEF Shaped
<1>6. Texts(disk[f]) = {}
  BY <1>1 DEF Exists, Absent, Texts
<1>7. Transact({f}, <<Put(f, doc)>>, {})
  BY <1>1
<1> HIDE DEF doc
<1>8. /\ NotesIn(disk[f]) \subseteq NotesIn(doc) /\ NamesIn(disk[f]) \subseteq NamesIn(doc)
      /\ \A name \in NamesIn(doc) \ NamesIn(disk[f]) : name[2] \notin Named(disk, Files)
  BY <1>2, <1>4, <1>6 DEF NotesIn, NamesIn
<1>9. Planned({f}, <<Put(f, doc)>>, {})
  BY <1>5, <1>8, OneFile
<1> QED BY <1>7, <1>9 DEF Transacts

LEMMA AddHeadingPlans ==
    ASSUME IInv, op.phase = "editing", AddHeading
    PROVE  Transacts
<1> DEFINE f == Now.at.file
<1>1. Now.kind = "append" /\ Exists(f)
  BY DEF AddHeading
<1>2. f \in Files /\ Now.at.level \in Nat
  BY <1>1, NowIsEdit DEF Edits, Records
<1>3. /\ Source = disk[f] /\ Source \in Shaped /\ Source \in Seq(Entries)
      /\ Len(Source) \in Nat /\ Len(Source) >= 1
  BY <1>1, <1>2, FileOnDisk DEF Source
<1>4. PICK at \in Under(Source, Now.at), n \in FreshNotes :
        Transact({f}, <<Put(f, Paste(Source, at, <<Entry(Now.at.level + 1, n, None)>>))>>, {})
  BY DEF AddHeading
<1> DEFINE e == Entry(Now.at.level + 1, n, None)
           h == <<e>>
           doc == Paste(Source, at, h)
<1>5. e \in Entries /\ e.level >= 1 /\ e.note = n /\ e.id = None
  BY <1>2 DEF Entry, Entries, FreshNotes
<1>6. h \in Seq(Entries) /\ h \in Headings /\ Texts(h) = {<<n, None>>}
  <2>1. h \in Seq(Entries) /\ Len(h) = 1 /\ Texts(h) = {<<n, None>>} /\ h[1] = e
    BY <1>5, OneEntry
  <2>2. DOMAIN h = {1}
    OBVIOUS
  <2> QED BY <1>5, <2>1, <2>2 DEF Headings
<1>7. Transact({f}, <<Put(f, doc)>>, {})
  BY <1>4
<1>8. at \in 2..(Len(Source) + 1)
  <2>1. CASE Now.at.level = 0
    BY <1>3, <1>4, <2>1 DEF Under
  <2>2. CASE Now.at.level # 0
    <3>1. PICK i \in DOMAIN Source : at = EndOf(Source, i, Now.at.level)
      BY <1>4, <2>2 DEF Under
    <3>2. i \in 1..Len(Source)
      BY <1>3, LenProperties
    <3>3. at \in (i + 1)..(Len(Source) + 1)
      BY <1>2, <1>3, <3>1, <3>2, EndOfEntry
    <3> QED BY <1>3, <3>2, <3>3
  <2> QED BY <2>1, <2>2
<1> HIDE DEF h, f
<1>9. doc \in Shaped
  BY <1>3, <1>6, <1>8, PasteIsShaped
<1>10. Texts(doc) = Texts(Source) \cup Texts(h)
  BY <1>3, <1>6, <1>8, PasteEntries
<1> HIDE DEF doc
<1>11. /\ NotesIn(Source) \subseteq NotesIn(doc) /\ NamesIn(Source) \subseteq NamesIn(doc)
       /\ NamesIn(doc) \ NamesIn(Source) = {}
  BY <1>6, <1>10 DEF NotesIn, NamesIn
<1>12. Planned({f}, <<Put(f, doc)>>, {})
  BY <1>2, <1>3, <1>9, <1>11, OneFile
<1> QED BY <1>7, <1>12 DEF Transacts

(* A file left without content says nothing. *)
LEMMA EmptiedFile ==
    ASSUME NEW rest \in Seq(Entries), rest # <<>>, ~HasContent(rest)
    PROVE  NotesIn(rest) = {} /\ NamesIn(rest) = {}
<1>1. Len(rest) = 1 /\ rest[1].note = None /\ rest[1].id = None
  <2>1. Len(rest) \in Nat /\ Len(rest) >= 1
    BY FirstAndRest
  <2>2. ~(Len(rest) > 1)
    BY Zenon DEF HasContent
  <2>3. rest[1].note = None /\ rest[1].id = None
    BY Zenon DEF HasContent
  <2>4. \A n \in Nat : n >= 1 /\ ~(n > 1) => n = 1
    OBVIOUS
  <2> QED BY <2>1, <2>2, <2>3, <2>4, Zenon
<1>2. DOMAIN rest = {1}
  BY <1>1, LenProperties
<1>3. Texts(rest) = {<<None, None>>}
  BY <1>1, <1>2 DEF Texts
<1> QED BY <1>3 DEF NotesIn, NamesIn

LEMMA JoinOne ==
    ASSUME NEW p, NEW q
    PROVE  <<p>> \o <<q>> = <<p, q>>
<1> DEFINE S == {p, q}  s == <<p>>  t == <<q>>  st == <<p, q>>  c == s \o t
<1>1. s \in Seq(S) /\ t \in Seq(S) /\ st \in Seq(S)
  OBVIOUS
<1>2. Len(s) = 1 /\ Len(t) = 1 /\ Len(st) = 2
  OBVIOUS
<1>3. s[1] = p /\ t[1] = q /\ st[1] = p /\ st[2] = q
  OBVIOUS
<1> HIDE DEF S, s, t, st
<1>4. /\ c \in Seq(S) /\ Len(c) = Len(s) + Len(t)
      /\ \A i \in 1..(Len(s) + Len(t)) : c[i] = IF i <= Len(s) THEN s[i] ELSE t[i - Len(s)]
  BY <1>1, ConcatProperties
<1> HIDE DEF c
<1>5. Len(c) = 2 /\ 1..Len(c) = {1, 2}
  BY <1>2, <1>4
<1>6. c[1] = p /\ c[2] = q
  BY <1>2, <1>3, <1>4
<1>7. \A i \in 1..Len(c) : c[i] = st[i]
  BY <1>3, <1>5, <1>6
<1>8. c = st
  BY <1>1, <1>2, <1>4, <1>5, <1>7, SeqEqual
<1> QED BY <1>8 DEF c, s, t, st

LEMMA MovePlans ==
    ASSUME NEW f, f = Now.at.file, NEW g, g = Now.to.file, f \in Files, g \in Files, f # g,
           NEW doc \in Shaped, NEW rest \in Shaped, rest # <<>>,
           NotesIn(disk[g]) \subseteq NotesIn(doc),
           NotesIn(disk[f]) \subseteq NotesIn(rest) \cup NotesIn(doc),
           f \notin stale /\ g \notin stale =>
               /\ NamesIn(disk[g]) \subseteq NamesIn(doc)
               /\ NamesIn(disk[f]) \subseteq NamesIn(rest) \cup NamesIn(doc)
               /\ NamesIn(rest) \subseteq NamesIn(disk[f])
               /\ \A name \in NamesIn(doc) \ (NamesIn(disk[f]) \cup NamesIn(disk[g])) :
                      name[2] \notin Named(disk, Files),
           Transact({f, g}, Move(doc, rest), Emptied(rest))
    PROVE  Transacts
<1>1. /\ Planned({f, g}, <<Put(g, doc), Put(f, rest)>>, {})
      /\ NotesIn(rest) = {} /\ NamesIn(rest) = {} => Planned({f, g}, <<Put(g, doc)>>, {f})
  BY TwoFiles
<1>2. CASE HasContent(rest)
  <2>1. Move(doc, rest) = <<Put(g, doc)>> \o <<Put(f, rest)>> /\ Emptied(rest) = {}
    BY <1>2 DEF Move, Leaving, Emptied
  <2>2. <<Put(g, doc)>> \o <<Put(f, rest)>> = <<Put(g, doc), Put(f, rest)>>
    BY JoinOne
  <2> QED BY <1>1, <2>1, <2>2 DEF Transacts
<1>3. CASE ~HasContent(rest)
  <2>1. Move(doc, rest) = <<Put(g, doc)>> \o <<>> /\ Emptied(rest) = {f}
    BY <1>3 DEF Move, Leaving, Emptied
  <2>2. <<Put(g, doc)>> \o <<>> = <<Put(g, doc)>>
    <3> DEFINE p == Put(g, doc)
    <3> HIDE DEF p
    <3>1. <<p>> \in Seq({p})
      OBVIOUS
    <3>2. <<p>> \o <<>> = <<p>>
      BY <3>1, ConcatEmptySeq
    <3> QED BY <3>2 DEF p
  <2>3. NotesIn(rest) = {} /\ NamesIn(rest) = {}
    BY <1>3, EmptiedFile DEF Shaped
  <2> QED BY <1>1, <2>1, <2>2, <2>3 DEF Transacts
<1> QED BY <1>2, <1>3

(* The subtree an edit moves. *)
LEMMA SubtreeOfEdit ==
    ASSUME IInv, op.phase = "editing", Now.kind \in {"refile", "extract"}, ~Misplaced(Now.at)
    PROVE  /\ Now.at.file \in Files /\ Source = disk[Now.at.file]
           /\ Source \in Shaped /\ Source \in Seq(Entries) /\ Source # <<>>
           /\ Start \in 1..Len(Source) /\ End \in (Start + 1)..(Len(Source) + 1)
           /\ Now.at.level = 0 => Start = 1 /\ End = Len(Source) + 1
           /\ Now.at.level # 0 => Start >= 2
           /\ Now.at.level # 0 => \A k \in (Start + 1)..(End - 1) :
                                     Source[k].level > Source[Start].level
           /\ Subtree \in Seq(Entries) /\ Subtree # <<>> /\ Subtree[1] = Source[Start]
<1>1. Now.at.file \in Files /\ Now.at.level \in Nat
  BY NowIsEdit DEF Edits, Records
<1>2. Exists(Now.at.file) /\ Spots(Source, Now.at) # {}
  BY DEF Misplaced, Source
<1>3. /\ Source = disk[Now.at.file] /\ Source \in Shaped /\ Source \in Seq(Entries)
      /\ Source # <<>> /\ Len(Source) \in Nat
  BY <1>1, <1>2, FileOnDisk DEF Source, Absent
<1>4. /\ Start \in 1..Len(Source)
      /\ Now.at.level = 0 => Start = 1
      /\ Now.at.level # 0 => Start >= 2
  BY <1>2, <1>3, PlaceOfRecord DEF Start, Absent
<1>5. Source[Start].level \in Nat
  <2>1. Source[Start] \in Entries
    BY <1>3, <1>4, ElementOfSeq
  <2> QED BY <2>1 DEF Entries
<1>6. Now.at.level = 0 => End = Len(Source) + 1
  BY DEF End
<1>7. /\ SubtreeEnd(Source, Start) \in (Start + 1)..(Len(Source) + 1)
      /\ \A k \in (Start + 1)..(SubtreeEnd(Source, Start) - 1) :
            Source[k].level > Source[Start].level
  BY <1>3, <1>4, <1>5, EndOfEntry DEF SubtreeEnd
<1>8. End \in (Start + 1)..(Len(Source) + 1)
  BY <1>3, <1>4, <1>7 DEF End
<1>9. Now.at.level # 0 => \A k \in (Start + 1)..(End - 1) :
          Source[k].level > Source[Start].level
  BY <1>7 DEF End
<1>10. Subtree \in Seq(Entries) /\ Subtree # <<>> /\ Subtree[1] = Source[Start]
  <2>1. Start \in Nat \ {0} /\ End - 1 \in Nat /\ End - 1 <= Len(Source) /\ Start <= End - 1
    BY <1>3, <1>4, <1>8
  <2>2. /\ Subtree \in Seq(Entries)
        /\ Len(Subtree) = (IF Start <= End - 1 THEN (End - 1) - Start + 1 ELSE 0)
        /\ \A k \in 1..Len(Subtree) : Subtree[k] = Source[Start + k - 1]
    BY <1>3, <2>1, PartOfSeq DEF Subtree
  <2>3. 1 \in 1..Len(Subtree) /\ Start + 1 - 1 = Start
    BY <2>1, <2>2
  <2> QED BY <2>2, <2>3
<1> QED BY <1>1, <1>3, <1>4, <1>6, <1>8, <1>9, <1>10

(* It keeps its notes, and its names too where the index knew the file; an id
   it did not have is a new one.                                             *)
LEMMA MovedTexts ==
    ASSUME IInv, op.phase = "editing", Now.kind \in {"refile", "extract"}, ~Misplaced(Now.at),
           NEW id \in MovedIds
    PROVE  LET moved == {<<Subtree[1].note, id>>} \cup Texts(Tail(Subtree)) IN
           /\ id \in Ids
           /\ NotesIn(Subtree) = {t[1] : t \in moved} \ {None}
           /\ Now.at.file \notin stale =>
                 /\ NamesIn(Subtree) \subseteq {t \in moved : t[2] # None}
                 /\ \A name \in {t \in moved : t[2] # None} \ NamesIn(Subtree) :
                        name[2] \notin Named(disk, Files)
<1> DEFINE rest == Texts(Tail(Subtree))
           note == Subtree[1].note
           moved == {<<note, id>>} \cup rest
<1>1. Subtree \in Seq(Entries) /\ Subtree # <<>> /\ Subtree[1] = Source[Start]
      /\ Now.at.file \in Files
  BY SubtreeOfEdit
<1>2. Texts(Subtree) = {<<note, Subtree[1].id>>} \cup rest
  BY <1>1, FirstAndRest
<1>3. Now.at.id \in Ids \cup {None}
  BY NowIsEdit DEF Records
<1>5. /\ Now.at.id # None => id = Now.at.id
      /\ Now.at.id = None => id \in Ids /\ id \notin Named(disk, Files)
  BY FreshId DEF MovedIds
<1>6. id \in Ids
  BY <1>3, <1>5
<1>7. Now.at.file \notin stale => Subtree[1].id = Now.at.id
  BY <1>1, NamedByIndex DEF NameKinds
<1> HIDE DEF rest, note
<1>8. NotesIn(Subtree) = {t[1] : t \in moved} \ {None}
  <2>1. /\ \A t \in moved : t \in rest \/ t[1] = note
        /\ \A t \in Texts(Subtree) : t \in rest \/ t[1] = note
        /\ rest \subseteq moved /\ rest \subseteq Texts(Subtree)
        /\ \E t \in moved : t[1] = note
        /\ \E t \in Texts(Subtree) : t[1] = note
    <3>1. <<note, id>> \in moved /\ <<note, id>>[1] = note
      OBVIOUS
    <3>2. <<note, Subtree[1].id>> \in Texts(Subtree) /\ <<note, Subtree[1].id>>[1] = note
      BY <1>2
    <3>3. \A t \in Texts(Subtree) : t \in rest \/ t = <<note, Subtree[1].id>>
      BY <1>2
    <3>4. \A t \in moved : t \in rest \/ t = <<note, id>>
      OBVIOUS
    <3>5. rest \subseteq moved /\ rest \subseteq Texts(Subtree)
      BY <1>2
    <3> QED BY <3>1, <3>2, <3>3, <3>4, <3>5
  <2> HIDE DEF moved
  <2>2. {t[1] : t \in moved} = {t[1] : t \in Texts(Subtree)}
    BY <2>1
  <2> QED BY <2>2 DEF NotesIn
<1>9. ASSUME Now.at.file \notin stale
      PROVE  /\ NamesIn(Subtree) \subseteq {t \in moved : t[2] # None}
             /\ \A name \in {t \in moved : t[2] # None} \ NamesIn(Subtree) :
                    name[2] \notin Named(disk, Files)
  <2>1. CASE Now.at.id # None
    <3>1. Texts(Subtree) = moved
      BY <1>2, <1>5, <1>7, <1>9, <2>1
    <3> QED BY <3>1 DEF NamesIn
  <2>2. CASE Now.at.id = None
    <3>1. Texts(Subtree) = {<<note, None>>} \cup rest
      BY <1>2, <1>7, <1>9, <2>2
    <3>2. \A t \in moved : t \in rest \/ t = <<note, id>>
      OBVIOUS
    <3>3. id \notin Named(disk, Files)
      BY <1>5, <2>2
    <3> HIDE DEF moved
    <3>4. \A t \in moved : t[2] # None => t \in NamesIn(Subtree) \/ t[2] = id
      BY <3>1, <3>2 DEF NamesIn
    <3>5. \A t \in NamesIn(Subtree) : t \in moved /\ t[2] # None
      BY <3>1 DEF NamesIn, moved
    <3> QED BY <3>3, <3>4, <3>5
  <2> QED BY <2>1, <2>2
<1> QED BY <1>6, <1>8, <1>9 DEF rest, note

(* Where a target takes a subtree: behind the entries below it. *)
LEMMA InsertionPlace ==
    ASSUME NEW doc \in Seq(Entries), doc # Absent, NEW to, to.level \in Nat, Spots(doc, to) # {}
    PROVE  LET at == Insertion(doc, to)  p == Place(doc, to) IN
           /\ Len(doc) \in Nat /\ at \in 2..(Len(doc) + 1)
           /\ to.level = 0 => at = Len(doc) + 1
           /\ to.level # 0 => /\ p \in 2..Len(doc) /\ at > p
                              /\ at <= Len(doc) => doc[at].level <= to.level
                              /\ \A k \in (p + 1)..(at - 1) : doc[k].level > to.level
<1> DEFINE at == Insertion(doc, to)  p == Place(doc, to)
<1>1. Len(doc) \in Nat /\ Len(doc) >= 1
  BY FirstAndRest DEF Absent
<1>2. to.level = 0 => at = Len(doc) + 1
  BY DEF Insertion
<1>3. p \in 1..Len(doc) /\ (to.level # 0 => p \in 2..Len(doc))
  BY PlaceOfRecord
<1>4. to.level # 0 => at = EndOf(doc, p, to.level)
  BY DEF Insertion
<1> HIDE DEF at, p
<1>5. /\ EndOf(doc, p, to.level) \in (p + 1)..(Len(doc) + 1)
      /\ EndOf(doc, p, to.level) <= Len(doc) =>
            doc[EndOf(doc, p, to.level)].level <= to.level
      /\ \A k \in (p + 1)..(EndOf(doc, p, to.level) - 1) : doc[k].level > to.level
  BY <1>3, EndOfEntry
<1>6. at \in 2..(Len(doc) + 1)
  <2>1. CASE to.level = 0
    BY <1>1, <1>2, <2>1
  <2>2. CASE to.level # 0
    BY <1>1, <1>3, <1>4, <1>5, <2>2
  <2> QED BY <2>1, <2>2
<1>7. ASSUME to.level # 0
      PROVE  /\ p \in 2..Len(doc) /\ at > p
             /\ at <= Len(doc) => doc[at].level <= to.level
             /\ \A k \in (p + 1)..(at - 1) : doc[k].level > to.level
  BY <1>1, <1>3, <1>4, <1>5, <1>7
<1> QED BY <1>1, <1>2, <1>6, <1>7 DEF at, p

(* The place never lies inside the subtree that goes there, whatever the level
   the index has for the target.                                             *)
LEMMA PlaceOutside ==
    ASSUME NEW doc \in Seq(Entries), doc # Absent, NEW to, to.level \in Nat,
           Spots(doc, to) # {},
           NEW s \in 2..Len(doc), NEW e \in (s + 1)..(Len(doc) + 1),
           \A k \in (s + 1)..(e - 1) : doc[k].level > doc[s].level,
           to.level > 0 => Place(doc, to) \notin s..(e - 1)
    PROVE  Insertion(doc, to) <= s \/ Insertion(doc, to) >= e
<1> DEFINE at == Insertion(doc, to)  p == Place(doc, to)
<1>1. /\ Len(doc) \in Nat /\ at \in 2..(Len(doc) + 1)
      /\ to.level = 0 => at = Len(doc) + 1
      /\ to.level # 0 => /\ p \in 2..Len(doc) /\ at > p
                         /\ at <= Len(doc) => doc[at].level <= to.level
                         /\ \A k \in (p + 1)..(at - 1) : doc[k].level > to.level
  BY InsertionPlace
<1>2. to.level > 0 => p \notin s..(e - 1)
  OBVIOUS
<1> HIDE DEF at, p
<1>3. SUFFICES ASSUME s < at, at < e
               PROVE  FALSE
  BY <1>1 DEF at
<1>4. to.level # 0 /\ p \in 2..Len(doc) /\ at <= Len(doc)
  BY <1>1, <1>3
<1>5. p < s
  BY <1>1, <1>2, <1>3, <1>4
<1>6. s \in (p + 1)..(at - 1) /\ at \in (s + 1)..(e - 1)
  BY <1>1, <1>3, <1>4, <1>5
<1>7. doc[s].level > to.level /\ doc[at].level <= to.level /\ doc[at].level > doc[s].level
  BY <1>1, <1>4, <1>6
<1>8. doc[s].level \in Nat /\ doc[at].level \in Nat
  <2>1. doc[s] \in Entries /\ doc[at] \in Entries
    BY <1>1, <1>4, ElementOfSeq
  <2> QED BY <2>1 DEF Entries
<1> QED BY <1>7, <1>8

(* The target of an edit. *)
LEMMA TargetOfEdit ==
    ASSUME IInv, op.phase = "editing", Now.kind \in {"refile", "region"}, ~Misplaced(Now.to)
    PROVE  /\ Now.to.file \in Files /\ Now.to.level \in Nat /\ Target = disk[Now.to.file]
           /\ Target \in Shaped /\ Target \in Seq(Entries) /\ Target # Absent
           /\ Spots(Target, Now.to) # {}
           /\ Len(Target) \in Nat /\ Insertion(Target, Now.to) \in 2..(Len(Target) + 1)
<1>1. Now.to.file \in Files /\ Now.to.level \in Nat
  BY NowIsEdit DEF Edits, Records
<1>2. Exists(Now.to.file) /\ Spots(Target, Now.to) # {}
  BY DEF Misplaced, Target
<1>3. /\ Target = disk[Now.to.file] /\ Target \in Shaped /\ Target \in Seq(Entries)
      /\ Target # Absent
  BY <1>1, <1>2, FileOnDisk DEF Target
<1>4. Len(Target) \in Nat /\ Insertion(Target, Now.to) \in 2..(Len(Target) + 1)
  BY <1>1, <1>2, <1>3, InsertionPlace
<1> QED BY <1>1, <1>2, <1>3, <1>4

LEMMA RefileWithinPlans ==
    ASSUME IInv, op.phase = "editing", RefileWithin
    PROVE  Transacts
<1> DEFINE f == Now.at.file
           place == Insertion(Source, Now.to)
           to == IF place > Start THEN place - (End - Start) ELSE place
           rest == Cut(Source, Start, End)
<1>1. /\ Now.kind = "refile" /\ ~Elsewhere /\ ~Misplaced(Now.at) /\ ~Misplaced(Now.to)
      /\ Now.to.level > 0 => Place(Source, Now.to) \notin Start..(End - 1)
  BY DEF RefileWithin
<1>2. PICK i \in MovedIds :
        Transact({f}, <<Put(f, Paste(rest, to, Shift(Subtree, Now.to, i)))>>, {})
  BY DEF RefileWithin
<1> DEFINE moved == Shift(Subtree, Now.to, i)
           doc == Paste(rest, to, moved)
<1>3. /\ f \in Files /\ Source = disk[f] /\ Source \in Shaped /\ Source \in Seq(Entries)
      /\ Source # <<>> /\ Start \in 1..Len(Source) /\ End \in (Start + 1)..(Len(Source) + 1)
      /\ Subtree \in Seq(Entries) /\ Subtree # <<>>
  BY <1>1, SubtreeOfEdit
<1>4. Now.at.level # 0
  BY <1>1, NowIsEdit DEF Edits, Elsewhere
<1>5. Start >= 2 /\ \A k \in (Start + 1)..(End - 1) : Source[k].level > Source[Start].level
  BY <1>1, <1>4, SubtreeOfEdit
<1>6. Target = Source
  BY <1>1 DEF Target, Source, Elsewhere
<1>7. /\ Now.to.level \in Nat /\ Spots(Source, Now.to) # {} /\ Source # Absent
      /\ Len(Source) \in Nat /\ place \in 2..(Len(Source) + 1)
  BY <1>1, <1>6, TargetOfEdit
<1>8. Start \in 2..Len(Source)
  BY <1>3, <1>5, <1>7
<1>9. place <= Start \/ place >= End
  BY <1>1, <1>3, <1>5, <1>7, <1>8, PlaceOutside
<1> HIDE DEF place
<1>10. Start \in 1..(Len(Source) + 1) /\ Start \in 2..(Len(Source) + 1)
       /\ End \in Start..(Len(Source) + 1)
  BY <1>3, <1>7, <1>8
<1>11. /\ rest \in Seq(Entries) /\ Len(rest) = Len(Source) - (End - Start)
       /\ Texts(Source) = Texts(rest) \cup Texts(SubSeq(Source, Start, End - 1))
  <2>1. /\ Cut(Source, Start, End) \in Seq(Entries)
        /\ Len(Cut(Source, Start, End)) = Len(Source) - (End - Start)
    BY <1>3, <1>10, CutEntries
  <2>2. Texts(Source) = Texts(Cut(Source, Start, End)) \cup Texts(SubSeq(Source, Start, End - 1))
    <3>1. /\ Source \in Seq(Entries) /\ Start \in 1..(Len(Source) + 1)
          /\ End \in Start..(Len(Source) + 1)
      BY <1>3, <1>10
    <3> QED BY <3>1, CutTexts
  <2> QED BY <2>1, <2>2
<1>12. rest \in Shaped
  BY <1>3, <1>10, CutIsShaped
<1> HIDE DEF rest
<1>13. to \in 2..(Len(rest) + 1)
  <2>1. /\ Start \in Int /\ End \in Int /\ place \in Int /\ Len(Source) \in Int
        /\ 2 <= Start /\ Start < End /\ End <= Len(Source) + 1
        /\ 2 <= place /\ place <= Len(Source) + 1
    BY <1>3, <1>7, <1>8
  <2>2. to \in Int /\ 2 <= to /\ to <= Len(rest) + 1
    <3>1. CASE place > Start
      <4>1. place >= End /\ to = place - (End - Start)
        BY <1>9, <2>1, <3>1
      <4> QED BY <1>11, <2>1, <4>1
    <3>2. CASE ~(place > Start)
      <4>1. to = place
        BY <3>2
      <4> QED BY <1>11, <2>1, <3>2, <4>1
    <3> QED BY <3>1, <3>2
  <2> HIDE DEF to
  <2> QED BY <1>11, <2>1, <2>2
<1>14. /\ i \in Ids
       /\ NotesIn(Subtree) =
            {t[1] : t \in {<<Subtree[1].note, i>>} \cup Texts(Tail(Subtree))} \ {None}
       /\ f \notin stale =>
             /\ NamesIn(Subtree) \subseteq
                  {t \in {<<Subtree[1].note, i>>} \cup Texts(Tail(Subtree)) : t[2] # None}
             /\ \A name \in {t \in {<<Subtree[1].note, i>>} \cup Texts(Tail(Subtree)) :
                                t[2] # None} \ NamesIn(Subtree) :
                    name[2] \notin Named(disk, Files)
  BY <1>1, MovedTexts
<1>15. /\ moved \in Headings
       /\ Texts(moved) = {<<Subtree[1].note, i>>} \cup Texts(Tail(Subtree))
  BY <1>3, <1>7, <1>14, ShiftedEntries
<1>16. /\ NotesIn(Subtree) = NotesIn(moved)
       /\ f \notin stale =>
             /\ NamesIn(Subtree) \subseteq NamesIn(moved)
             /\ \A name \in NamesIn(moved) \ NamesIn(Subtree) : name[2] \notin Named(disk, Files)
  BY <1>14, <1>15 DEF NotesIn, NamesIn
<1> HIDE DEF to, moved
<1>17. doc \in Shaped
  BY <1>12, <1>13, <1>15, PasteIsShaped
<1>18. Texts(doc) = Texts(rest) \cup Texts(moved)
  <2>1. to \in 1..(Len(rest) + 1) /\ moved \in Seq(Entries)
    BY <1>13, <1>15 DEF Headings
  <2> QED BY <1>11, <2>1, PasteEntries
<1>19. Transact({f}, <<Put(f, doc)>>, {})
  BY <1>2 DEF moved, to, place, rest
<1> HIDE DEF doc, f
<1>20. Texts(Source) = Texts(rest) \cup Texts(Subtree)
  BY <1>11 DEF Subtree
<1>21. NotesIn(Source) \subseteq NotesIn(doc)
  <2>1. NotesIn(Source) = NotesIn(rest) \cup NotesIn(Subtree)
    BY <1>20 DEF NotesIn
  <2>2. NotesIn(doc) = NotesIn(rest) \cup NotesIn(moved)
    BY <1>18 DEF NotesIn
  <2> QED BY <1>16, <2>1, <2>2
<1>22. ASSUME f \notin stale
       PROVE  /\ NamesIn(Source) \subseteq NamesIn(doc)
              /\ \A name \in NamesIn(doc) \ NamesIn(Source) : name[2] \notin Named(disk, Files)
  <2>1. NamesIn(Source) = NamesIn(rest) \cup NamesIn(Subtree)
    BY <1>20 DEF NamesIn
  <2>2. NamesIn(doc) = NamesIn(rest) \cup NamesIn(moved)
    BY <1>18 DEF NamesIn
  <2> QED BY <1>16, <1>22, <2>1, <2>2
<1>23. Planned({f}, <<Put(f, doc)>>, {})
  BY <1>3, <1>17, <1>21, <1>22, OneFile
<1> QED BY <1>19, <1>23 DEF Transacts

LEMMA RefileAcrossPlans ==
    ASSUME IInv, op.phase = "editing", RefileAcross
    PROVE  Transacts
<1> DEFINE f == Now.at.file  g == Now.to.file
           rest == IF Now.at.level = 0 THEN <<Blank>> ELSE Cut(Source, Start, End)
           place == Insertion(Target, Now.to)
<1>1. Now.kind = "refile" /\ Elsewhere /\ ~Misplaced(Now.at) /\ ~Misplaced(Now.to)
  BY DEF RefileAcross
<1>2. PICK i \in MovedIds :
        Transact({f, g}, Move(Paste(Target, place, Shift(Subtree, Now.to, i)), rest),
                 Emptied(rest))
  BY DEF RefileAcross
<1> DEFINE moved == Shift(Subtree, Now.to, i)
           doc == Paste(Target, place, moved)
<1>3. /\ f \in Files /\ Source = disk[f] /\ Source \in Shaped /\ Source \in Seq(Entries)
      /\ Source # <<>> /\ Start \in 1..Len(Source) /\ End \in (Start + 1)..(Len(Source) + 1)
      /\ Subtree \in Seq(Entries) /\ Subtree # <<>>
      /\ (Now.at.level = 0 => Start = 1 /\ End = Len(Source) + 1)
      /\ (Now.at.level # 0 => Start >= 2)
  BY <1>1, SubtreeOfEdit
<1>4. /\ g \in Files /\ Now.to.level \in Nat /\ Target = disk[g] /\ Target \in Shaped
      /\ Target \in Seq(Entries) /\ Len(Target) \in Nat /\ place \in 2..(Len(Target) + 1)
  BY <1>1, TargetOfEdit
<1>5. f # g
  BY <1>1 DEF Elsewhere
<1>6. Len(Source) \in Nat /\ Start \in 1..(Len(Source) + 1) /\ End \in Start..(Len(Source) + 1)
  <2>1. Len(Source) \in Nat
    BY <1>3, LenProperties
  <2> QED BY <1>3, <2>1
<1>7. /\ rest \in Shaped /\ rest # <<>>
      /\ Texts(Source) \subseteq Texts(rest) \cup Texts(Subtree)
      /\ NamesIn(rest) \subseteq NamesIn(Source)
  <2>1. CASE Now.at.level = 0
    <3>1. rest = <<Blank>>
      BY <2>1
    <3>2. <<Blank>> \in Seq(Entries) /\ Len(<<Blank>>) = 1 /\ <<Blank>>[1] = Blank
          /\ Texts(<<Blank>>) = {<<None, None>>} /\ DOMAIN <<Blank>> = {1}
      BY BlankEntry, OneEntry
    <3>3. <<Blank>> \in Shaped
      BY <3>2, BlankEntry DEF Shaped
    <3>4. NamesIn(<<Blank>>) = {}
      BY <3>2 DEF NamesIn
    <3>5. Texts(Subtree) = Texts(Source)
      <4>1. Start = 1 /\ End - 1 = Len(Source)
        BY <1>3, <1>6, <2>1
      <4>2. Texts(SubSeq(Source, 1, Len(Source))) =
              {<<Source[k].note, Source[k].id>> : k \in 1..Len(Source)}
        <5>1. 1 \in Nat \ {0} /\ Len(Source) \in Nat /\ Len(Source) <= Len(Source)
          BY <1>6
        <5> QED BY <1>3, <5>1, TextsOfPart
      <4>3. DOMAIN Source = 1..Len(Source)
        BY <1>3, LenProperties
      <4> QED BY <4>1, <4>2, <4>3 DEF Texts, Subtree
    <3> HIDE DEF rest
    <3> QED BY <3>1, <3>2, <3>3, <3>4, <3>5
  <2>2. CASE Now.at.level # 0
    <3>1. rest = Cut(Source, Start, End) /\ Start \in 2..(Len(Source) + 1)
      BY <1>3, <1>6, <2>2
    <3>2. Cut(Source, Start, End) \in Shaped
      BY <1>3, <1>6, <3>1, CutIsShaped
    <3>3. /\ Cut(Source, Start, End) \in Seq(Entries)
          /\ Len(Cut(Source, Start, End)) = Len(Source) - (End - Start)
      BY <1>3, <1>6, CutEntries
    <3>4. Texts(Source) = Texts(Cut(Source, Start, End)) \cup Texts(Subtree)
      <4>1. Texts(Source) = Texts(Cut(Source, Start, End))
                              \cup Texts(SubSeq(Source, Start, End - 1))
        <5>1. Source \in Seq(Entries)
          BY <1>3
        <5> QED BY <1>6, <5>1, CutTexts, SMTT(30)
      <4> QED BY <4>1 DEF Subtree
    <3>5. Cut(Source, Start, End) # <<>>
      <4>1. Len(Cut(Source, Start, End)) >= 1
        BY <1>6, <3>1, <3>3
      <4> QED BY <4>1
    <3>6. NamesIn(Cut(Source, Start, End)) \subseteq NamesIn(Source)
      BY <3>4 DEF NamesIn
    <3> HIDE DEF rest
    <3> QED BY <3>1, <3>2, <3>4, <3>5, <3>6
  <2> QED BY <2>1, <2>2
<1> HIDE DEF rest, place
<1>8. /\ i \in Ids
      /\ NotesIn(Subtree) =
            {t[1] : t \in {<<Subtree[1].note, i>>} \cup Texts(Tail(Subtree))} \ {None}
      /\ f \notin stale =>
            /\ NamesIn(Subtree) \subseteq
                 {t \in {<<Subtree[1].note, i>>} \cup Texts(Tail(Subtree)) : t[2] # None}
            /\ \A name \in {t \in {<<Subtree[1].note, i>>} \cup Texts(Tail(Subtree)) :
                               t[2] # None} \ NamesIn(Subtree) :
                   name[2] \notin Named(disk, Files)
  BY <1>1, MovedTexts
<1>9. /\ moved \in Headings
      /\ Texts(moved) = {<<Subtree[1].note, i>>} \cup Texts(Tail(Subtree))
  BY <1>3, <1>4, <1>8, ShiftedEntries
<1>10. /\ NotesIn(Subtree) = NotesIn(moved)
       /\ f \notin stale =>
             /\ NamesIn(Subtree) \subseteq NamesIn(moved)
             /\ \A name \in NamesIn(moved) \ NamesIn(Subtree) : name[2] \notin Named(disk, Files)
  BY <1>8, <1>9 DEF NotesIn, NamesIn
<1> HIDE DEF moved
<1>11. doc \in Shaped
  BY <1>4, <1>9, PasteIsShaped
<1>12. Texts(doc) = Texts(Target) \cup Texts(moved)
  <2>1. place \in 1..(Len(Target) + 1) /\ moved \in Seq(Entries)
    BY <1>4, <1>9 DEF Headings
  <2> QED BY <1>4, <2>1, PasteEntries
<1>13. Transact({f, g}, Move(doc, rest), Emptied(rest))
  BY <1>2 DEF moved, place, rest
<1> HIDE DEF doc
<1>14. NotesIn(doc) = NotesIn(Target) \cup NotesIn(moved)
       /\ NamesIn(doc) = NamesIn(Target) \cup NamesIn(moved)
  BY <1>12 DEF NotesIn, NamesIn
<1>15. NotesIn(Source) \subseteq NotesIn(rest) \cup NotesIn(Subtree)
       /\ NamesIn(Source) \subseteq NamesIn(rest) \cup NamesIn(Subtree)
  BY <1>7 DEF NotesIn, NamesIn
<1>16. /\ NotesIn(disk[g]) \subseteq NotesIn(doc)
       /\ NotesIn(disk[f]) \subseteq NotesIn(rest) \cup NotesIn(doc)
  BY <1>3, <1>4, <1>10, <1>14, <1>15
<1>17. ASSUME f \notin stale, g \notin stale
       PROVE  /\ NamesIn(disk[g]) \subseteq NamesIn(doc)
              /\ NamesIn(disk[f]) \subseteq NamesIn(rest) \cup NamesIn(doc)
              /\ NamesIn(rest) \subseteq NamesIn(disk[f])
              /\ \A name \in NamesIn(doc) \ (NamesIn(disk[f]) \cup NamesIn(disk[g])) :
                     name[2] \notin Named(disk, Files)
  <2>1. NamesIn(Subtree) \subseteq NamesIn(Source)
    <3>1. Texts(Subtree) \subseteq Texts(Source)
      <4>1. Start \in Nat \ {0} /\ End - 1 \in Nat /\ End - 1 <= Len(Source)
        BY <1>3, <1>6
      <4>2. Texts(Subtree) = {<<Source[k].note, Source[k].id>> : k \in Start..(End - 1)}
        BY <1>3, <4>1, TextsOfPart DEF Subtree
      <4>3. Start..(End - 1) \subseteq DOMAIN Source
        <5>1. DOMAIN Source = 1..Len(Source)
          BY <1>3, LenProperties
        <5> QED BY <1>6, <4>1, <5>1
      <4> QED BY <4>2, <4>3 DEF Texts
    <3> QED BY <3>1 DEF NamesIn
  <2> QED BY <1>3, <1>4, <1>7, <1>10, <1>14, <1>15, <1>17, <2>1
<1> HIDE DEF f, g
<1>18. f = Now.at.file /\ g = Now.to.file
  BY DEF f, g
<1> QED BY <1>3, <1>4, <1>5, <1>7, <1>11, <1>13, <1>16, <1>17, <1>18, MovePlans

(* The notes of a document are those its entries hold. *)
LEMMA NotesOfTexts ==
    ASSUME NEW doc, NEW note
    PROVE  note \in NotesIn(doc) <=> note # None /\ \E k \in DOMAIN doc : doc[k].note = note
<1>1. \A x, y : <<x, y>>[1] = x
  OBVIOUS
<1>2. note \in NotesIn(doc) <=> note # None /\ \E t \in Texts(doc) : t[1] = note
  BY DEF NotesIn
<1>3. ASSUME NEW t \in Texts(doc), t[1] = note
      PROVE  \E k \in DOMAIN doc : doc[k].note = note
  <2>1. PICK k \in DOMAIN doc : t = <<doc[k].note, doc[k].id>>
    BY DEF Texts
  <2> QED BY <1>1, <1>3, <2>1
<1>4. ASSUME NEW k \in DOMAIN doc, doc[k].note = note
      PROVE  \E t \in Texts(doc) : t[1] = note
  <2>1. <<doc[k].note, doc[k].id>> \in Texts(doc)
    BY DEF Texts
  <2> QED BY <1>1, <1>4, <2>1
<1> QED BY <1>2, <1>3, <1>4

(* Giving a heading an id leaves its notes. *)
LEMMA NamedHeadings ==
    ASSUME NEW e \in Headings, NEW i \in 1..Len(e), NEW id \in Ids \cup {None}
    PROVE  WithId(e, i, id) \in Headings /\ NotesIn(WithId(e, i, id)) = NotesIn(e)
<1> DEFINE w == WithId(e, i, id)
<1>1. /\ w \in Seq(Entries) /\ Len(w) = Len(e)
      /\ \A k \in 1..Len(e) : /\ w[k].level = e[k].level /\ w[k].note = e[k].note
                               /\ w[k].id = IF k = i THEN id ELSE e[k].id
  BY NameEntry DEF Headings
<1> HIDE DEF w
<1>2. DOMAIN w = 1..Len(e) /\ DOMAIN e = 1..Len(e)
  BY <1>1, LenProperties DEF Headings
<1>3. w \in Headings
  BY <1>1, <1>2 DEF Headings
<1>4. \A note : note \in NotesIn(w) <=> note # None /\ \E k \in 1..Len(e) : w[k].note = note
  BY <1>2, NotesOfTexts
<1>5. \A note : note \in NotesIn(e) <=> note # None /\ \E k \in 1..Len(e) : e[k].note = note
  BY <1>2, NotesOfTexts
<1>6. NotesIn(w) = NotesIn(e)
  <2>1. \A note : note \in NotesIn(w) <=> note \in NotesIn(e)
    BY <1>1, <1>4, <1>5
  <2> QED BY <2>1
<1> QED BY <1>3, <1>6 DEF w

(* Wherever a run lands, the file is one still and no note is lost. *)
LEMMA LandingDocument ==
    ASSUME NEW doc \in Shaped, NEW i \in 1..Len(doc), NEW run \in Headings, run # <<>>,
           NEW readings \in SUBSET (Ids \cup {None}),
           NEW d \in Landings(doc, i, run, readings)
    PROVE  d \in Shaped /\ NotesIn(doc) \cup NotesIn(run) \subseteq NotesIn(d)
<1> DEFINE n == Len(run)
           Landing(id, end) == Paste(WithId(doc, i, id), i + 1, WithId(run, n, end))
<1>1. doc \in Seq(Entries) /\ run \in Seq(Entries) /\ Len(doc) \in Nat
  BY LenProperties DEF Shaped, Headings
<1>2. n \in 1..Len(run) /\ n \in Nat
  BY <1>1, FirstAndRest
<1>3. doc[i] \in Entries /\ run[n] \in Entries
  BY <1>1, <1>2, ElementOfSeq
<1>4. PICK id \in Ids \cup {None}, end \in Ids \cup {None} : d = Landing(id, end)
  <2>1. doc[i].id \in Ids \cup {None} /\ run[n].id \in Ids \cup {None}
    BY <1>3 DEF Entries
  <2>2. \/ \E id \in readings : d = Landing(id, run[n].id)
        \/ d = Landing(None, doc[i].id)
    BY DEF Landings, WithId
  <2> HIDE DEF Landing, n
  <2> QED BY <2>1, <2>2
<1> DEFINE w == WithId(doc, i, id)
           v == WithId(run, n, end)
<1>5. d = Paste(w, i + 1, v)
  BY <1>4
<1>6. w \in Shaped /\ NotesIn(doc) \subseteq NotesIn(w) /\ Len(w) = Len(doc)
  <2>1. /\ w \in Shaped
        /\ Texts(doc) \subseteq Texts(w) \cup {<<doc[i].note, doc[i].id>>}
        /\ <<doc[i].note, id>> \in Texts(w)
    BY NamedFile
  <2>2. Len(w) = Len(doc)
    BY <1>1, NameEntry
  <2> HIDE DEF w
  <2>3. NotesIn(doc) \subseteq NotesIn(w)
    BY <2>1 DEF NotesIn
  <2> QED BY <2>1, <2>2, <2>3
<1>7. v \in Headings /\ NotesIn(v) = NotesIn(run)
  BY <1>2, NamedHeadings
<1> HIDE DEF w, v
<1>8. i + 1 \in 2..(Len(w) + 1) /\ i + 1 \in 1..(Len(w) + 1)
  BY <1>1, <1>6
<1>9. d \in Shaped
  BY <1>5, <1>6, <1>7, <1>8, PasteIsShaped
<1>10. Texts(d) = Texts(w) \cup Texts(v)
  BY <1>5, <1>6, <1>7, <1>8, PasteEntries DEF Shaped, Headings
<1>11. NotesIn(d) = NotesIn(w) \cup NotesIn(v)
  BY <1>10 DEF NotesIn
<1> QED BY <1>6, <1>7, <1>9, <1>11

LEMMA RefileRegionPlans ==
    ASSUME IInv, op.phase = "editing", RefileRegionRun
    PROVE  Transacts
<1> DEFINE f == Now.at.file  g == Now.to.file
           at == Insertion(Target, Now.to)
<1>1. Now.kind = "region" /\ Exists(f) /\ ~Misplaced(Now.to)
  BY DEF RefileRegionRun
<1> DEFINE Runs(a, b) ==
        LET run   == SubSeq(Source, a, b - 1)
            moved == Relevel(run, Now.to.level + 1 - Shallowest(run))
            rest  == Cut(Source, a, b)
            to    == IF at > a THEN at - (b - a) ELSE at
        IN  IF Elsewhere
            THEN Transact({f, g}, Move(Paste(Target, at, moved), rest), Emptied(rest))
            ELSE \E doc \in
                    IF at <= a \/ at >= b THEN {Paste(rest, to, moved)}
                    ELSE UNION {Landings(rest, i, moved, {rest[i].id, None} \cup UnreadIds) :
                                    i \in 1..(a - 1)} :
                    Transact({f}, <<Put(f, doc)>>, {})
<1>a. PICK a \in 2..Len(Source) : \E b \in (a + 1)..(Len(Source) + 1) : Runs(a, b)
  BY DEF RefileRegionRun
<1>2. PICK b \in (a + 1)..(Len(Source) + 1) : Runs(a, b)
  BY <1>a
<1> DEFINE run == SubSeq(Source, a, b - 1)
           by == Now.to.level + 1 - Shallowest(run)
           moved == Relevel(run, by)
           rest == Cut(Source, a, b)
           to == IF at > a THEN at - (b - a) ELSE at
<1>3. f \in Files
  BY <1>1, NowIsEdit DEF Edits
<1>4. /\ Source = disk[f] /\ Source \in Shaped /\ Source \in Seq(Entries)
      /\ Len(Source) \in Nat
  BY <1>1, <1>3, FileOnDisk DEF Source
<1>5. /\ g \in Files /\ Now.to.level \in Nat /\ Target = disk[g] /\ Target \in Shaped
      /\ Target \in Seq(Entries) /\ Len(Target) \in Nat /\ at \in 2..(Len(Target) + 1)
  BY <1>1, TargetOfEdit
<1>6. /\ a \in 1..(Len(Source) + 1) /\ b \in a..(Len(Source) + 1) /\ a \in 2..(Len(Source) + 1)
      /\ a \in Nat \ {0} /\ b - 1 \in Nat /\ b - 1 <= Len(Source) /\ a <= b - 1
      /\ a \in Int /\ b \in Int
  BY <1>4
<1>7. run \in Seq(Entries) /\ run # <<>>
  <2>1. run \in Seq(Entries) /\ Len(run) = (IF a <= b - 1 THEN (b - 1) - a + 1 ELSE 0)
    BY <1>4, <1>6, PartOfSeq
  <2> HIDE DEF run
  <2>2. Len(run) >= 1
    BY <1>6, <2>1
  <2> QED BY <2>1, <2>2
<1>8. /\ rest \in Seq(Entries) /\ Len(rest) = Len(Source) - (b - a)
  BY <1>4, <1>6, CutEntries
<1>9. Texts(Source) = Texts(rest) \cup Texts(run)
  <2>1. /\ Source \in Seq(Entries) /\ a \in 1..(Len(Source) + 1)
        /\ b \in a..(Len(Source) + 1)
    BY <1>4, <1>6
  <2>2. Texts(Source) = Texts(Cut(Source, a, b)) \cup Texts(SubSeq(Source, a, b - 1))
    BY <2>1, CutTexts
  <2> QED BY <2>2
<1>10. rest \in Shaped
  BY <1>4, <1>6, CutIsShaped
<1> HIDE DEF run, rest, at, f, g
<1>11. by \in Int
  BY <1>5, <1>7, ShallowestIsLevel
<1> HIDE DEF by
<1>12. moved \in Headings /\ Texts(moved) = Texts(run) /\ moved \in Seq(Entries)
       /\ Len(moved) = Len(run)
  BY <1>7, <1>11, RelevelledEntries DEF Headings
<1> HIDE DEF moved
<1>13. CASE Elsewhere
  <2> DEFINE doc == Paste(Target, at, moved)
  <2>1. Transact({f, g}, Move(doc, rest), Emptied(rest))
    BY <1>2, <1>13 DEF at, moved, by, run, rest, f, g
  <2>2. doc \in Shaped
    BY <1>5, <1>12, PasteIsShaped
  <2>3. Texts(doc) = Texts(Target) \cup Texts(moved)
    <3>1. at \in 1..(Len(Target) + 1)
      BY <1>5
    <3> QED BY <1>5, <1>12, <3>1, PasteEntries
  <2> HIDE DEF doc
  <2>4. rest # <<>>
    <3>1. Len(rest) >= 1
      BY <1>4, <1>6, <1>8
    <3> QED BY <3>1
  <2>5. /\ NotesIn(Target) \subseteq NotesIn(doc)
        /\ NotesIn(Source) \subseteq NotesIn(rest) \cup NotesIn(doc)
    BY <1>9, <1>12, <2>3 DEF NotesIn
  <2>6. /\ NamesIn(Target) \subseteq NamesIn(doc)
        /\ NamesIn(Source) \subseteq NamesIn(rest) \cup NamesIn(doc)
        /\ NamesIn(rest) \subseteq NamesIn(Source)
        /\ NamesIn(doc) \ (NamesIn(Source) \cup NamesIn(Target)) = {}
    BY <1>9, <1>12, <2>3 DEF NamesIn
  <2>7. f # g /\ f = Now.at.file /\ g = Now.to.file
    BY <1>13 DEF Elsewhere, f, g
  <2> QED BY <1>3, <1>4, <1>5, <1>10, <2>1, <2>2, <2>4, <2>5, <2>6, <2>7, MovePlans
<1>14. CASE ~Elsewhere
  <2>1. PICK doc \in
            IF at <= a \/ at >= b THEN {Paste(rest, to, moved)}
            ELSE UNION {Landings(rest, i, moved, {rest[i].id, None} \cup UnreadIds) :
                            i \in 1..(a - 1)} :
            Transact({f}, <<Put(f, doc)>>, {})
    BY <1>2, <1>14 DEF at, moved, by, run, rest, f, g
  <2>2. Target = Source
    BY <1>14 DEF Target, Source, Elsewhere
  <2>3. at \in Int /\ 2 <= at /\ at <= Len(Source) + 1
    BY <1>4, <1>5, <2>2
  <2>4. CASE at <= a \/ at >= b
    <3>1. doc = Paste(rest, to, moved)
      BY <2>1, <2>4
    <3>2. to \in 2..(Len(rest) + 1)
      <4>1. CASE at > a
        <5>1. to = at - (b - a) /\ at >= b
          BY <1>6, <2>3, <2>4, <4>1
        <5> HIDE DEF to
        <5> QED BY <1>4, <1>6, <1>8, <2>3, <5>1
      <4>2. CASE ~(at > a)
        <5>1. to = at
          BY <4>2
        <5> HIDE DEF to
        <5>2. at <= Len(Source) - (b - a) + 1
          BY <1>4, <1>6, <2>3, <4>2
        <5> QED BY <1>4, <1>6, <1>8, <2>3, <5>1, <5>2
      <4> QED BY <4>1, <4>2
    <3> HIDE DEF to
    <3>3. doc \in Shaped
      BY <1>10, <1>12, <3>1, <3>2, PasteIsShaped
    <3>4. Texts(doc) = Texts(rest) \cup Texts(moved)
      <4>1. to \in 1..(Len(rest) + 1)
        BY <3>2
      <4> QED BY <1>8, <1>12, <3>1, <4>1, PasteEntries
    <3>5. /\ NotesIn(Source) \subseteq NotesIn(doc) /\ NamesIn(Source) \subseteq NamesIn(doc)
          /\ NamesIn(doc) \ NamesIn(Source) = {}
      BY <1>9, <1>12, <3>4 DEF NotesIn, NamesIn
    <3>6. Planned({f}, <<Put(f, doc)>>, {})
      BY <1>3, <1>4, <3>3, <3>5, OneFile
    <3> QED BY <2>1, <3>6 DEF Transacts
  <2>5. CASE ~(at <= a \/ at >= b)
    <3>1. PICK i \in 1..(a - 1) :
              doc \in Landings(rest, i, moved, {rest[i].id, None} \cup UnreadIds)
      BY <2>1, <2>5
    <3>2. i \in 1..Len(rest)
      BY <1>4, <1>6, <1>8
    <3>3. rest[i] \in Entries
      BY <1>8, <3>2, ElementOfSeq
    <3>4. {rest[i].id, None} \cup UnreadIds \subseteq Ids \cup {None}
      BY <3>3 DEF Entries, UnreadIds
    <3>5. moved # <<>>
      <4>1. Len(run) >= 1
        BY <1>7, FirstAndRest
      <4>2. Len(moved) >= 1
        BY <1>12, <4>1
      <4> QED BY <4>2
    <3>6. doc \in Shaped /\ NotesIn(rest) \cup NotesIn(moved) \subseteq NotesIn(doc)
      BY <1>10, <1>12, <3>1, <3>2, <3>4, <3>5, LandingDocument
    <3>7. NotesIn(Source) \subseteq NotesIn(doc)
      <4>1. NotesIn(Source) = NotesIn(rest) \cup NotesIn(moved)
        BY <1>9, <1>12 DEF NotesIn
      <4> QED BY <3>6, <4>1
    <3>8. Way(op.todo) = "lands"
      <4>1. op.todo # <<>>
        BY NowIsEdit
      <4>2. Now.to.level # 0
        <5> SUFFICES ASSUME Now.to.level = 0
                     PROVE  FALSE
          OBVIOUS
        <5>1. at = Len(Source) + 1
          BY <2>2 DEF at, Insertion
        <5> QED BY <1>4, <1>6, <2>5, <5>1
      <4>3. Now.to.level > 0
        BY <1>5, <4>2
      <4> QED BY <1>1, <1>14, <4>1, <4>3 DEF Way, Now, Elsewhere
    <3>9. Planned({f}, <<Put(f, doc)>>, {})
      BY <1>3, <1>4, <3>6, <3>7, <3>8, OneFile
    <3> QED BY <2>1, <3>9 DEF Transacts
  <2> QED BY <2>4, <2>5
<1> QED BY <1>13, <1>14

LEMMA ExtractPlans ==
    ASSUME IInv, op.phase = "editing", Extract
    PROVE  Transacts
<1> DEFINE f == Now.at.file  g == Now.to.file
           rest == Cut(Source, Start, End)
<1>1. Now.kind = "extract" /\ ~Misplaced(Now.at) /\ ~Exists(g)
  BY DEF Extract
<1>2. PICK i \in MovedIds :
        Transact({f, g}, <<Put(g, Extracted(Subtree, i)), Put(f, rest)>>, {})
  BY DEF Extract
<1> DEFINE doc == Extracted(Subtree, i)
<1>3. g \in Files /\ f # g /\ Now.at.level # 0
  BY <1>1, NowIsEdit DEF Edits, Records
<1>4. /\ f \in Files /\ Source = disk[f] /\ Source \in Shaped /\ Source \in Seq(Entries)
      /\ Source # <<>> /\ Start \in 1..Len(Source) /\ End \in (Start + 1)..(Len(Source) + 1)
      /\ Subtree \in Seq(Entries) /\ Subtree # <<>> /\ Start >= 2
  BY <1>1, <1>3, SubtreeOfEdit
<1>5. Len(Source) \in Nat /\ Start \in 1..(Len(Source) + 1) /\ End \in Start..(Len(Source) + 1)
      /\ Start \in 2..(Len(Source) + 1)
  <2>1. Len(Source) \in Nat
    BY <1>4, LenProperties
  <2> QED BY <1>4, <2>1
<1>6. rest \in Shaped
  BY <1>4, <1>5, CutIsShaped
<1>7. Texts(Source) = Texts(rest) \cup Texts(Subtree)
  <2>1. Texts(Source) = Texts(rest) \cup Texts(SubSeq(Source, Start, End - 1))
    BY <1>4, <1>5, CutTexts, SMTT(30)
  <2> QED BY <2>1 DEF Subtree
<1>8. /\ i \in Ids
      /\ NotesIn(Subtree) =
            {t[1] : t \in {<<Subtree[1].note, i>>} \cup Texts(Tail(Subtree))} \ {None}
      /\ f \notin stale =>
            /\ NamesIn(Subtree) \subseteq
                 {t \in {<<Subtree[1].note, i>>} \cup Texts(Tail(Subtree)) : t[2] # None}
            /\ \A name \in {t \in {<<Subtree[1].note, i>>} \cup Texts(Tail(Subtree)) :
                               t[2] # None} \ NamesIn(Subtree) :
                   name[2] \notin Named(disk, Files)
  BY <1>1, MovedTexts
<1>9. /\ doc \in Shaped
      /\ Texts(doc) = {<<Subtree[1].note, i>>} \cup Texts(Tail(Subtree))
  BY <1>4, <1>8, ExtractedFile
<1> HIDE DEF doc, rest
<1>10. /\ NotesIn(Subtree) = NotesIn(doc)
       /\ f \notin stale =>
             /\ NamesIn(Subtree) \subseteq NamesIn(doc)
             /\ \A name \in NamesIn(doc) \ NamesIn(Subtree) : name[2] \notin Named(disk, Files)
  BY <1>8, <1>9 DEF NotesIn, NamesIn
<1>11. NotesIn(disk[g]) = {} /\ NamesIn(disk[g]) = {}
  <2>1. Texts(disk[g]) = {}
    BY <1>1 DEF Exists, Absent, Texts
  <2> QED BY <2>1 DEF NotesIn, NamesIn
<1>12. /\ NotesIn(Source) = NotesIn(rest) \cup NotesIn(Subtree)
       /\ NamesIn(Source) = NamesIn(rest) \cup NamesIn(Subtree)
  BY <1>7 DEF NotesIn, NamesIn
<1>13. Transact({f, g}, <<Put(g, doc), Put(f, rest)>>, {})
  BY <1>2 DEF doc, rest
<1> HIDE DEF f, g
<1>14. Planned({f, g}, <<Put(g, doc), Put(f, rest)>>, {})
  <2>1. NotesIn(disk[g]) \subseteq NotesIn(doc)
        /\ NotesIn(disk[f]) \subseteq NotesIn(rest) \cup NotesIn(doc)
    BY <1>4, <1>10, <1>11, <1>12
  <2>2. ASSUME f \notin stale, g \notin stale
        PROVE  /\ NamesIn(disk[g]) \subseteq NamesIn(doc)
               /\ NamesIn(disk[f]) \subseteq NamesIn(rest) \cup NamesIn(doc)
               /\ NamesIn(rest) \subseteq NamesIn(disk[f])
               /\ \A name \in NamesIn(doc) \ (NamesIn(disk[f]) \cup NamesIn(disk[g])) :
                      name[2] \notin Named(disk, Files)
    BY <1>4, <1>10, <1>11, <1>12, <2>2
  <2> QED BY <1>3, <1>4, <1>6, <1>9, <2>1, <2>2, TwoFiles
<1> QED BY <1>13, <1>14 DEF Transacts

LEMMA PromoteOrDemotePlans ==
    ASSUME IInv, op.phase = "editing", PromoteOrDemote
    PROVE  Transacts
<1> DEFINE f == Now.at.file
<1>1. Now.kind \in {"promote", "demote"} /\ Exists(f)
  BY DEF PromoteOrDemote
<1>2. f \in Files
  BY <1>1, NowIsEdit DEF Edits
<1>3. Source = disk[f] /\ Source \in Shaped /\ Source \in Seq(Entries) /\ Source # <<>>
  BY <1>1, <1>2, FileOnDisk DEF Source, Absent
<1>4. Way(op.todo) = "rereads"
  <2>1. op.todo # <<>>
    BY NowIsEdit
  <2> QED BY <1>1, <2>1 DEF Way, Now
<1>5. PICK k, id, doc :
        /\ k \in {1, 2} /\ id \in Rereadings(Source[k].id)
        /\ \/ k = 2 /\ doc = Promoted(Source, id) /\ Promotable(Source)
           \/ k = 1 /\ doc = Demoted(Source, id)
        /\ Transact({f}, <<Put(f, doc)>>, {})
  BY DEF PromoteOrDemote
<1>6. k \in DOMAIN Source /\ Source[k] \in Entries
  <2>1. 1 \in 1..Len(Source) /\ (Promotable(Source) => 2 \in 1..Len(Source))
    BY <1>3, FirstAndRest DEF Promotable
  <2> QED BY <1>3, <1>5, <2>1, ElementOfSeq, LenProperties
<1>7. /\ id \in Ids \cup {None}
      /\ id = Source[k].id \/ id = None \/ id \notin Named(disk, Files)
  BY <1>5, <1>6 DEF Rereadings, UnreadIds, Entries
<1>8. doc \in Shaped
  <2>1. CASE k = 2
    BY <1>3, <1>5, <1>7, <2>1, PromotedFile
  <2>2. CASE k = 1
    <3>1. doc = Demoted(Source, id)
      BY <1>5, <2>2
    <3>2. id \in Ids \cup {None}
      BY <1>7
    <3> QED BY <1>3, <3>1, <3>2, DemotedFile
  <2> QED BY <1>5, <2>1, <2>2
<1> DEFINE old == <<Source[k].note, Source[k].id>>
           new == <<Source[k].note, id>>
           none == <<None, None>>
<1>9. /\ \A t \in Texts(Source) : t = old \/ t = none \/ t \in Texts(doc)
      /\ \A t \in Texts(doc) : t = new \/ t = none \/ t \in Texts(Source)
      /\ new \in Texts(doc) /\ old \in Texts(Source)
  <2>1. old \in Texts(Source)
    BY <1>6 DEF Texts
  <2>2. CASE k = 2
    <3>1. PICK rest : /\ Texts(Source) = {none, old} \cup rest
                      /\ Texts(doc) = {new} \cup rest
      <4>1. doc = Promoted(Source, id) /\ Promotable(Source)
        BY <1>5, <2>2
      <4>2. old = <<Source[2].note, Source[2].id>> /\ new = <<Source[2].note, id>>
        BY <2>2
      <4> HIDE DEF old, new, none
      <4> QED BY <1>3, <1>7, <4>1, <4>2, PromotedFile DEF none
    <3> HIDE DEF old, new, none
    <3> QED BY <2>1, <3>1
  <2>3. CASE k = 1
    <3>1. /\ Texts(doc) \subseteq Texts(Source) \cup {none, new}
          /\ Texts(Source) \subseteq Texts(doc) \cup {old}
          /\ new \in Texts(doc)
      <4>1. doc = Demoted(Source, id)
        BY <1>5, <2>3
      <4>2. old = <<Source[1].note, Source[1].id>> /\ new = <<Source[1].note, id>>
        BY <2>3
      <4> HIDE DEF old, new, none
      <4> QED BY <1>3, <1>7, <4>1, <4>2, DemotedFile DEF none
    <3> HIDE DEF old, new, none
    <3> QED BY <2>1, <3>1
  <2>4. k = 1 \/ k = 2
    BY <1>5
  <2> HIDE DEF old, new, none
  <2> QED BY <2>2, <2>3, <2>4
<1>10. old[1] = new[1] /\ none[1] = None /\ none[2] = None /\ new[2] = id
       /\ (id = Source[k].id => new = old)
  OBVIOUS
<1> HIDE DEF f, old, new, none
<1>11. NotesIn(Source) \subseteq NotesIn(doc)
  BY <1>9, <1>10 DEF NotesIn
<1>12. \A name \in NamesIn(doc) \ NamesIn(Source) : name[2] \notin Named(disk, Files)
  BY <1>7, <1>9, <1>10 DEF NamesIn
<1>13. Planned({f}, <<Put(f, doc)>>, {})
  BY <1>2, <1>3, <1>4, <1>8, <1>11, <1>12, OneFile
<1> QED BY <1>5, <1>13 DEF Transacts, f

LEMMA EditPlans ==
    ASSUME IInv, PerformEdit
    PROVE  /\ op.phase = "editing" /\ op.writes = <<>> /\ op.removals = {}
           /\ Transacts \/ FileIsThere
<1>1. op.phase = "editing" /\ op.writes = <<>> /\ op.removals = {}
  BY DEF PerformEdit
<1>2. \/ AssignId \/ Touch \/ CreateFile \/ FileIsThere \/ AddHeading \/ RefileWithin
      \/ RefileAcross \/ RefileRegionRun \/ Extract \/ PromoteOrDemote
  BY DEF PerformEdit
<1> QED BY <1>1, <1>2, AssignIdPlans, TouchPlans, CreateFilePlans, AddHeadingPlans,
           RefileWithinPlans, RefileAcrossPlans, RefileRegionPlans, ExtractPlans,
           PromoteOrDemotePlans

-----------------------------------------------------------------------------
(* The invariant holds at the start, and every step keeps it.              *)

LEMMA NothingPlanned ==
    ASSUME NEW way, NEW files, NEW old, NEW seen
    PROVE  Sound(way, files, old, seen, <<>>, {})
<1>1. Len(<<>>) = 0 /\ DOMAIN <<>> = {}
  OBVIOUS
<1> QED BY <1>1 DEF Sound, WritesFit, NotesKept, NamesKept

LEMMA IdleFields ==
    ASSUME NEW answer
    PROVE  /\ Idle(answer).phase = "idle" /\ Idle(answer).request = answer
           /\ Idle(answer).todo = <<>> /\ Idle(answer).seen = <<>>
           /\ Idle(answer).writes = <<>> /\ Idle(answer).removals = {}
           /\ Idle(answer).changed = {} /\ Idle(answer).removed = {}
           /\ Idle(answer).scan = <<>>
BY DEF Idle

LEMMA InitInv == Init => IInv
<1> SUFFICES ASSUME Init
             PROVE  IInv
  OBVIOUS
<1>1. disk = Corpus /\ op = Idle("done") /\ stale = {}
      /\ index = Recount([EmptyIndex EXCEPT !.rows = Corpus])
  BY DEF Init
<1>2. Corpus \in [Files -> Documents] /\ Corpus \in Tables /\ ~Clash(Corpus)
  <2>1. Corpus \in [Files -> Seq(Entries)] /\ \A f \in Files : IsDocument(Corpus[f])
    BY WorkspaceAssumption DEF Entries
  <2> QED BY <2>1, WorkspaceAssumption DEF Documents, Tables
<1>3. Exact(index) /\ index.rows = Corpus
  BY <1>1, <1>2, RecountIsExact
<1>4. op \in Ops
  BY <1>1, IdleOp
<1>5. Typed
  BY <1>1, <1>2, <1>3, <1>4 DEF Typed
<1>6. PhaseFits /\ TodoFits
  <2>1. op.todo = <<>> /\ op.phase = "idle" /\ Len(<<>>) = 0
    BY <1>1, IdleFields
  <2>2. 2..0 = {}
    OBVIOUS
  <2>3. TodoFits
    BY <2>1, <2>2 DEF TodoFits
  <2> QED BY <1>1, <2>3, IdleFields DEF PhaseFits
<1>7. Current
  BY <1>1, <1>3, IdleFields DEF Current
<1>8. Sound(Way(op.todo), disk, stale, op.seen, op.writes, op.removals)
  BY <1>1, IdleFields, NothingPlanned
<1> QED BY <1>5, <1>6, <1>7, <1>8 DEF IInv

(* A request that ends keeps from the index what it had not yet told it. *)
LEMMA FailKeeps ==
    ASSUME IInv, Fail
    PROVE  IInv'
<1>1. op' = Idle("failed") /\ stale' = stale \cup Untold /\ disk' = disk /\ index' = index
  BY DEF Fail
<1>2. op \in Ops /\ stale \subseteq Files
  BY DEF IInv, Typed
<1>3. op.removed \subseteq Files /\ op.changed \subseteq Files /\ DOMAIN op.scan \subseteq Files
  BY <1>2, ShotType DEF Ops
<1>4. Untold \subseteq Files
  BY <1>3 DEF Untold
<1>5. op' \in Ops
  BY <1>1, IdleOp
<1>6. Typed'
  BY <1>1, <1>2, <1>4, <1>5 DEF IInv, Typed
<1>7. PhaseFits' /\ TodoFits'
  <2>1. op'.todo = <<>> /\ op'.phase = "idle" /\ Len(<<>>) = 0 /\ 2..0 = {}
    BY <1>1, IdleFields
  <2>2. TodoFits'
    BY <2>1 DEF TodoFits
  <2> QED BY <1>1, <2>2, IdleFields DEF PhaseFits
<1>8. Current'
  <2>1. \A f \in Files \ stale' : index.rows[f] = disk[f]
    BY <1>1 DEF IInv, Current
  <2> QED BY <1>1, <2>1, IdleFields DEF Current
<1>9. Sound(Way(op.todo), disk, stale, op.seen, op.writes, op.removals)'
  BY <1>1, IdleFields, NothingPlanned
<1> QED BY <1>6, <1>7, <1>8, <1>9 DEF IInv

(* While no request runs, the index knows every file that is not stale. *)
LEMMA RestingIndex ==
    ASSUME IInv, op.phase = "idle"
    PROVE  \A f \in Files \ stale : index.rows[f] = disk[f]
<1>1. op.removed = {} /\ op.changed = {} /\ op.scan = <<>>
  BY DEF IInv, PhaseFits
<1>2. Untold = {}
  BY <1>1, NoShot DEF Untold
<1> QED BY <1>2 DEF IInv, Current

(* The requests that edit. *)
LEMMA EditsBegin ==
    ASSUME IInv, NEW edits \in Seq(Edits), edits # <<>>,
           \A k \in 2..Len(edits) : edits[k].kind \notin NameKinds,
           edits[1].kind \in NameKinds => edits[1].at \in Anchors,
           Request(Editing(edits))
    PROVE  IInv'
<1>1. op' = Editing(edits) /\ disk' = disk /\ index' = index /\ stale' = stale
      /\ op.phase = "idle"
  BY DEF Request
<1>2. Idle("edit") \in Ops
  BY IdleOp
<1>3. /\ op' \in Ops /\ op'.phase = "editing" /\ op'.request = "edit" /\ op'.todo = edits
      /\ op'.seen = <<>> /\ op'.writes = <<>> /\ op'.removals = {} /\ op'.changed = {}
      /\ op'.removed = {} /\ op'.scan = <<>>
  <2>1. op' = [Idle("edit") EXCEPT !.phase = "editing", !.todo = edits]
    BY <1>1 DEF Editing
  <2> DEFINE o == Idle("edit")
  <2>2. /\ o.request = "edit" /\ o.seen = <<>> /\ o.writes = <<>> /\ o.removals = {}
        /\ o.changed = {} /\ o.removed = {} /\ o.scan = <<>>
    BY IdleFields
  <2> HIDE DEF o
  <2>3. op' \in Ops /\ op'.phase = "editing" /\ op'.todo = edits /\ op'.request = o.request
        /\ op'.seen = o.seen /\ op'.writes = o.writes /\ op'.removals = o.removals
        /\ op'.changed = o.changed /\ op'.removed = o.removed /\ op'.scan = o.scan
    BY <1>2, <2>1 DEF Ops, Phases, o
  <2> QED BY <2>2, <2>3
<1>4. Typed'
  BY <1>1, <1>3 DEF IInv, Typed
<1>5. PhaseFits'
  BY <1>3 DEF PhaseFits
<1>6. TodoFits'
  <2>1. Now' = edits[1]
    BY <1>3, HeadTailProperties DEF Now
  <2>2. Anchors' = Anchors
    BY <1>1 DEF Anchors, Record
  <2> QED BY <1>3, <2>1, <2>2 DEF TodoFits
<1>7. Current'
  BY <1>1, <1>3, RestingIndex, NoShot DEF Current
<1>8. Sound(Way(op.todo), disk, stale, op.seen, op.writes, op.removals)'
  BY <1>3, NothingPlanned
<1> QED BY <1>4, <1>5, <1>6, <1>7, <1>8 DEF IInv

LEMMA AnchorType ==
    ASSUME IInv, NEW r \in Anchors
    PROVE  r \in Records /\ r.file \in Files /\ r.level \in Nat
<1>1. PICK k \in Keys : k[2] <= Len(index.rows[k[1]]) /\ r = Record(k)
  BY DEF Anchors
<1> DEFINE doc == index.rows[k[1]]
<1>2. k[1] \in Files /\ k[2] \in Nat /\ k[2] \in 1..Len(doc)
  BY <1>1, IndexAssumption DEF Keys
<1>3. doc \in Documents
  BY <1>2 DEF IInv, Typed
<1>4. doc[k[2]] \in Entries
  BY <1>2, <1>3, DocumentIsShaped, ElementOfSeq
<1>5. Line(doc, k[2]) \in Int
  BY <1>2, LineType
<1>6. r = [file |-> k[1], line |-> Line(doc, k[2]), level |-> doc[k[2]].level,
           id |-> doc[k[2]].id]
  BY <1>1 DEF Record
<1> HIDE DEF doc
<1> QED BY <1>2, <1>4, <1>5, <1>6 DEF Records, Entries

LEMMA WholeType ==
    ASSUME NEW f \in Files
    PROVE  /\ Whole(f) \in Records /\ Whole(f).file = f
           /\ Whole(f).level = 0 /\ Whole(f).id = None
BY DEF Whole, NoRecord, Records

LEMMA NoRecordType == NoRecord \in Records
BY DEF NoRecord, Records

LEMMA EditFields ==
    ASSUME NEW kind, NEW at, NEW to
    PROVE  /\ Edit(kind, at, to).kind = kind /\ Edit(kind, at, to).at = at
           /\ Edit(kind, at, to).to = to
           /\ kind \in Kinds /\ at \in Records /\ to \in Records =>
                 Edit(kind, at, to) \in [kind : Kinds, at : Records, to : Records]
BY DEF Edit

LEMMA OneEditBegins ==
    ASSUME IInv, NEW e \in Edits, e.kind \in NameKinds => e.at \in Anchors,
           Request(Editing(<<e>>))
    PROVE  IInv'
<1> DEFINE edits == <<e>>
<1>1. edits \in Seq(Edits) /\ edits # <<>> /\ Len(edits) = 1 /\ edits[1] = e /\ 2..1 = {}
  OBVIOUS
<1>2. Request(Editing(edits))
  OBVIOUS
<1> HIDE DEF edits
<1>3. \A k \in 2..Len(edits) : edits[k].kind \notin NameKinds
  BY <1>1
<1> QED BY <1>1, <1>2, <1>3, EditsBegin

LEMMA TwoEditsBegin ==
    ASSUME IInv, NEW d \in Edits, d.kind \in NameKinds => d.at \in Anchors,
           NEW e \in Edits, e.kind \notin NameKinds, Request(Editing(<<d, e>>))
    PROVE  IInv'
<1> DEFINE edits == <<d, e>>
<1>1. edits \in Seq(Edits) /\ edits # <<>> /\ Len(edits) = 2 /\ edits[1] = d /\ edits[2] = e
      /\ 2..2 = {2}
  OBVIOUS
<1>2. Request(Editing(edits))
  OBVIOUS
<1> HIDE DEF edits
<1>3. \A k \in 2..Len(edits) : edits[k].kind \notin NameKinds
  BY <1>1
<1> QED BY <1>1, <1>2, <1>3, EditsBegin

(* A request for one edit, and what must be known of its records. *)
LEMMA HandlerBegins ==
    ASSUME IInv, NEW kind \in Kinds, NEW at \in Records, NEW to \in Records,
           kind = "ensure_id" => at.id = None,
           kind # "create" => at.file \in Files,
           kind \in {"refile", "region", "extract"} => to.file \in Files,
           kind = "refile" /\ at.level = 0 => at.file # to.file,
           kind = "extract" => at.level > 0 /\ at.file # to.file,
           kind \in NameKinds => at \in Anchors,
           Request(Editing(<<Edit(kind, at, to)>>))
    PROVE  IInv'
<1> DEFINE e == Edit(kind, at, to)
<1>1. /\ e \in [kind : Kinds, at : Records, to : Records]
      /\ e.kind = kind /\ e.at = at /\ e.to = to
  BY EditFields
<1>2. Request(Editing(<<e>>))
  OBVIOUS
<1> HIDE DEF e
<1>3. e \in Edits
  BY <1>1 DEF Edits
<1> QED BY <1>1, <1>2, <1>3, OneEditBegins

LEMMA PlainEdit ==
    ASSUME NEW kind \in {"touch", "ensure_file", "append", "relink"}, NEW at \in Records,
           at.file \in Files
    PROVE  /\ Edit(kind, at, NoRecord) \in Edits
           /\ Edit(kind, at, NoRecord).kind \notin NameKinds
<1> DEFINE e == Edit(kind, at, NoRecord)
<1>1. /\ e \in [kind : Kinds, at : Records, to : Records]
      /\ e.kind = kind /\ e.at = at
  BY EditFields, NoRecordType DEF Kinds
<1> HIDE DEF e
<1>2. e \in Edits /\ e.kind \notin NameKinds
  BY <1>1 DEF Edits, NameKinds
<1> QED BY <1>2 DEF e

LEMMA HandlersKeep ==
    ASSUME IInv,
           \/ EnsureNodeId \/ UpdateNode \/ CaptureNode \/ EnsureFileNode
           \/ AppendHeading \/ AppendHeadingToNode \/ RefileSubtree \/ RefileRegion
           \/ ExtractSubtree \/ PromoteFile \/ DemoteFile \/ RewriteLinks
    PROVE  IInv'
<1>0. Noted \subseteq Anchors
  BY DEF Noted
<1>1. CASE EnsureNodeId
  <2>1. PICK r \in Anchors :
           r.id = None /\ Request(Editing(<<Edit("ensure_id", r, NoRecord)>>))
    BY <1>1 DEF EnsureNodeId
  <2>2. "ensure_id" \in Kinds /\ r \in Records /\ r.file \in Files
    BY AnchorType DEF Kinds
  <2> QED BY <2>1, <2>2, NoRecordType, HandlerBegins
<1>2. CASE UpdateNode
  <2>1. PICK r \in Noted : \E n \in 1..2 :
           Request(Editing([k \in 1..n |-> Edit("touch", r, NoRecord)]))
    BY <1>2 DEF UpdateNode
  <2>2. PICK n \in 1..2 : Request(Editing([k \in 1..n |-> Edit("touch", r, NoRecord)]))
    BY <2>1
  <2> DEFINE e == Edit("touch", r, NoRecord)
             edits == [k \in 1..n |-> e]
  <2>3. e \in Edits /\ e.kind \notin NameKinds
    BY <1>0, AnchorType, PlainEdit
  <2> HIDE DEF e
  <2>4. edits \in [1..n -> Edits] /\ n \in Nat /\ DOMAIN edits = 1..n
    BY <2>3
  <2>5. edits \in Seq(Edits) /\ Len(edits) = n
    BY <2>4, IsASeq, LenProperties
  <2>6. edits # <<>> /\ edits[1] = e
    BY <2>5
  <2>7. \A k \in 2..Len(edits) : edits[k].kind \notin NameKinds
    BY <2>3, <2>5
  <2>8. Request(Editing(edits))
    BY <2>2 DEF e
  <2> HIDE DEF edits
  <2> QED BY <2>3, <2>5, <2>6, <2>7, <2>8, EditsBegin
<1>3. CASE CaptureNode
  <2>1. Request(Editing(<<Edit("create", NoRecord, NoRecord)>>)) /\ "create" \in Kinds
    BY <1>3 DEF CaptureNode, Kinds
  <2> QED BY <2>1, NoRecordType, HandlerBegins DEF NameKinds
<1>4. CASE EnsureFileNode
  <2>1. PICK f \in Files : Request(Editing(<<Edit("ensure_file", Whole(f), NoRecord)>>))
    BY <1>4 DEF EnsureFileNode
  <2>2. "ensure_file" \in Kinds
    BY DEF Kinds
  <2> QED BY <2>1, <2>2, NoRecordType, WholeType, HandlerBegins DEF NameKinds
<1>5. CASE AppendHeading
  <2>1. PICK f \in Files :
           Request(Editing(<<Edit("ensure_file", Whole(f), NoRecord),
                             Edit("append", Whole(f), NoRecord)>>))
    BY <1>5 DEF AppendHeading
  <2>2. /\ Edit("ensure_file", Whole(f), NoRecord) \in Edits
        /\ Edit("ensure_file", Whole(f), NoRecord).kind \notin NameKinds
        /\ Edit("append", Whole(f), NoRecord) \in Edits
        /\ Edit("append", Whole(f), NoRecord).kind \notin NameKinds
    BY WholeType, PlainEdit
  <2> QED BY <2>1, <2>2, TwoEditsBegin
<1>6. CASE AppendHeadingToNode
  <2>1. PICK r \in Noted : Request(Editing(<<Edit("append", r, NoRecord)>>))
    BY <1>6 DEF AppendHeadingToNode
  <2>2. "append" \in Kinds /\ r \in Records /\ r.file \in Files
    BY <1>0, AnchorType DEF Kinds
  <2> QED BY <2>1, <2>2, NoRecordType, HandlerBegins DEF NameKinds
<1>7. CASE RefileSubtree
  <2>1. PICK r \in Anchors, t \in Noted :
           /\ r.level = 0 => r.file # t.file
           /\ Request(Editing(<<Edit("refile", r, t)>>))
    BY <1>7 DEF RefileSubtree
  <2>2. "refile" \in Kinds /\ r \in Records /\ r.file \in Files
        /\ t \in Records /\ t.file \in Files
    BY <1>0, AnchorType DEF Kinds
  <2> QED BY <2>1, <2>2, HandlerBegins
<1>8. CASE RefileRegion
  <2>1. PICK f \in Files, t \in Noted : Request(Editing(<<Edit("region", Whole(f), t)>>))
    BY <1>8 DEF RefileRegion
  <2>2. "region" \in Kinds /\ t \in Records /\ t.file \in Files
    BY <1>0, AnchorType DEF Kinds
  <2> QED BY <2>1, <2>2, WholeType, HandlerBegins DEF NameKinds
<1>9. CASE ExtractSubtree
  <2>1. PICK r \in Anchors, f \in Files :
           /\ r.level > 0 /\ r.file # f
           /\ Request(Editing(<<Edit("extract", r, Whole(f))>>))
    BY <1>9 DEF ExtractSubtree
  <2>2. "extract" \in Kinds /\ r \in Records /\ r.file \in Files
    BY AnchorType DEF Kinds
  <2> QED BY <2>1, <2>2, WholeType, HandlerBegins
<1>10. CASE PromoteFile
  <2>1. PICK f \in Files : Request(Editing(<<Edit("promote", Whole(f), NoRecord)>>))
    BY <1>10 DEF PromoteFile
  <2>2. "promote" \in Kinds
    BY DEF Kinds
  <2> QED BY <2>1, <2>2, NoRecordType, WholeType, HandlerBegins DEF NameKinds
<1>11. CASE DemoteFile
  <2>1. PICK f \in Files : Request(Editing(<<Edit("demote", Whole(f), NoRecord)>>))
    BY <1>11 DEF DemoteFile
  <2>2. "demote" \in Kinds
    BY DEF Kinds
  <2> QED BY <2>1, <2>2, NoRecordType, WholeType, HandlerBegins DEF NameKinds
<1>12. CASE RewriteLinks
  <2>1. PICK f \in Files, r \in Noted :
           Request(Editing((IF r.id = None THEN <<Edit("ensure_id", r, NoRecord)>> ELSE <<>>)
                               \o <<Edit("relink", Whole(f), NoRecord)>>))
    BY <1>12 DEF RewriteLinks
  <2> DEFINE d == Edit("ensure_id", r, NoRecord)
             e == Edit("relink", Whole(f), NoRecord)
  <2>2. e \in Edits /\ e.kind \notin NameKinds
    BY WholeType, PlainEdit
  <2>3. CASE r.id = None
    <3>1. /\ d \in [kind : Kinds, at : Records, to : Records] /\ r \in Anchors
          /\ d.kind = "ensure_id" /\ d.at = r /\ r.file \in Files
      BY <1>0, AnchorType, NoRecordType, EditFields DEF Kinds
    <3>2. Request(Editing(<<d>> \o <<e>>))
      BY <2>1, <2>3
    <3> HIDE DEF d, e
    <3>3. d \in Edits
      BY <2>3, <3>1 DEF Edits
    <3>4. Request(Editing(<<d, e>>))
      BY <3>2, JoinOne
    <3> QED BY <2>2, <3>1, <3>3, <3>4, TwoEditsBegin
  <2>4. CASE r.id # None
    <3>1. Request(Editing(<<>> \o <<e>>))
      BY <2>1, <2>4
    <3> HIDE DEF e
    <3>2. <<e>> \in Seq({e})
      OBVIOUS
    <3>3. <<>> \o <<e>> = <<e>>
      BY <3>2, ConcatEmptySeq
    <3> QED BY <2>2, <3>1, <3>3, OneEditBegins
  <2> QED BY <2>3, <2>4
<1> QED BY <1>1, <1>2, <1>3, <1>4, <1>5, <1>6, <1>7, <1>8, <1>9, <1>10, <1>11, <1>12

(* The requests that only sync, of a file or of the root. *)
LEMMA SyncBegins ==
    ASSUME IInv, NEW o \in Ops, Request(o),
           o.phase \in {"scanning", "unindexing", "syncing"}, o.request \in {"file", "root"},
           o.todo = <<>>, o.seen = <<>>, o.writes = <<>>, o.removals = {}, o.scan = <<>>,
           o.phase # "scanning" => o.changed = {},
           o.phase # "unindexing" => o.removed = {},
           \A f \in o.removed : ~Exists(f),
           o.request = "root" => \A f \in Files : Exists(f) => f \in o.changed
    PROVE  IInv'
<1>1. op' = o /\ disk' = disk /\ index' = index /\ stale' = stale /\ op.phase = "idle"
  BY DEF Request
<1>2. Typed'
  BY <1>1 DEF IInv, Typed
<1>3. PhaseFits'
  BY <1>1 DEF PhaseFits
<1>4. TodoFits'
  <2>1. Len(<<>>) = 0 /\ 2..0 = {}
    OBVIOUS
  <2> QED BY <1>1, <2>1 DEF TodoFits
<1>5. Current'
  <2>1. \A f \in Files \ stale : index.rows[f] = disk[f]
    BY <1>1, RestingIndex
  <2> QED BY <1>1, <2>1, NoShot DEF Current, Exists
<1>6. Sound(Way(op.todo), disk, stale, op.seen, op.writes, op.removals)'
  <2>1. op'.writes = <<>> /\ op'.removals = {}
    BY <1>1
  <2>2. Sound(Way(op'.todo), disk', stale', op'.seen, <<>>, {})
    BY NothingPlanned
  <2> QED BY <2>1, <2>2
<1> QED BY <1>2, <1>3, <1>4, <1>5, <1>6 DEF IInv

LEMMA SyncsKeep ==
    ASSUME IInv, IndexFile \/ IndexRoot
    PROVE  IInv'
<1>1. CASE IndexFile
  <2>1. PICK f \in Files :
          Request(IF Exists(f) THEN [Idle("file") EXCEPT !.phase = "scanning", !.changed = {f}]
                  ELSE [Idle("file") EXCEPT !.phase = "unindexing", !.removed = {f}])
    BY <1>1 DEF IndexFile
  <2> DEFINE i == Idle("file")
             o == IF Exists(f) THEN [i EXCEPT !.phase = "scanning", !.changed = {f}]
                  ELSE [i EXCEPT !.phase = "unindexing", !.removed = {f}]
  <2>2. /\ i \in Ops /\ i.request = "file" /\ i.todo = <<>> /\ i.seen = <<>>
        /\ i.writes = <<>> /\ i.removals = {} /\ i.changed = {} /\ i.removed = {}
        /\ i.scan = <<>>
    BY IdleOp, IdleFields
  <2>3. Request(o)
    BY <2>1
  <2> HIDE DEF i
  <2>4. /\ o \in Ops /\ o.request = i.request /\ o.todo = i.todo /\ o.seen = i.seen
        /\ o.writes = i.writes /\ o.removals = i.removals /\ o.scan = i.scan
        /\ Exists(f) => o.phase = "scanning" /\ o.removed = i.removed
        /\ ~Exists(f) => o.phase = "unindexing" /\ o.changed = i.changed
                         /\ o.removed = {f}
    BY <2>2 DEF Ops, Phases
  <2> HIDE DEF o
  <2>5. /\ o.phase \in {"scanning", "unindexing", "syncing"}
        /\ o.phase # "scanning" => o.changed = {}
        /\ o.phase # "unindexing" => o.removed = {}
        /\ \A g \in o.removed : ~Exists(g)
    BY <2>2, <2>4
  <2> QED BY <2>2, <2>3, <2>4, <2>5, SyncBegins
<1>2. CASE IndexRoot
  <2> DEFINE listed == {f \in Files : Exists(f)}
             p == IF listed = {} THEN "syncing" ELSE "scanning"
             i == Idle("root")
             o == [i EXCEPT !.changed = listed, !.phase = p]
  <2>1. Request(o)
    BY <1>2 DEF IndexRoot
  <2>2. /\ p \in Phases /\ p \in {"scanning", "unindexing", "syncing"}
        /\ p # "scanning" => listed = {}
        /\ p # "unindexing"
    BY DEF Phases
  <2>3. listed \subseteq Files /\ \A f \in Files : Exists(f) => f \in listed
    OBVIOUS
  <2>4. /\ i \in Ops /\ i.request = "root" /\ i.todo = <<>> /\ i.seen = <<>>
        /\ i.writes = <<>> /\ i.removals = {} /\ i.removed = {} /\ i.scan = <<>>
    BY IdleOp, IdleFields
  <2> HIDE DEF i, p, listed
  <2>5. /\ o \in Ops /\ o.request = i.request /\ o.todo = i.todo /\ o.seen = i.seen
        /\ o.writes = i.writes /\ o.removals = i.removals /\ o.scan = i.scan
        /\ o.removed = i.removed /\ o.phase = p /\ o.changed = listed
    BY <2>2, <2>3, <2>4 DEF Ops
  <2> HIDE DEF o
  <2> QED BY <2>1, <2>2, <2>3, <2>4, <2>5, SyncBegins
<1> QED BY <1>1, <1>2

(* What an edit goes on with keeps the invariant, when what it has done so far
   does.                                                                     *)
LEMMA OnwardKeeps ==
    ASSUME NEW o \in Ops, o.todo # <<>>, o.request = "edit", o.scan = <<>>,
           \A k \in 2..Len(o.todo) : o.todo[k].kind \notin NameKinds,
           op' = Onward(o),
           disk' \in [Files -> Documents], stale' \subseteq Files, index' = index,
           Exact(index), index.rows \in [Files -> Documents],
           \A f \in Files \ stale' :
               /\ index.rows[f] = disk'[f] \/ f \in o.removed \cup o.changed
               /\ f \in o.removed => disk'[f] = Absent \/ f \in o.changed
               /\ f \in DOMAIN o.seen => o.seen[f] = disk'[f],
           Sound(Way(o.todo), disk', stale', o.seen, o.writes, o.removals)
    PROVE  IInv'
<1>1. /\ op' \in Ops /\ op'.request = "edit" /\ op'.scan = <<>>
      /\ op'.writes = o.writes /\ op'.removals = o.removals
      /\ op'.changed = o.changed /\ op'.removed = o.removed
      /\ \/ /\ o.writes # <<>> \/ o.removals # {}
            /\ op'.phase = "writing" /\ op'.todo = o.todo /\ op'.seen = o.seen
         \/ /\ o.writes = <<>> /\ o.removals = {} /\ op'.phase = "editing"
            /\ Len(o.todo) > 1 /\ op'.todo = Tail(o.todo) /\ op'.seen = o.seen
         \/ /\ o.writes = <<>> /\ o.removals = {}
            /\ op'.phase = (IF o.removed # {} THEN "unindexing" ELSE "scanning")
            /\ op'.todo = <<>> /\ op'.seen = <<>>
  BY OnwardParts
<1>2. Typed'
  BY <1>1 DEF Typed
<1>3. o.todo \in Seq(Edits) /\ Len(o.todo) \in Nat /\ DOMAIN o.scan = {}
  BY NoShot, LenProperties DEF Ops
<1>4. /\ Tail(o.todo) \in Seq(Edits) /\ Len(Tail(o.todo)) = Len(o.todo) - 1
      /\ \A k \in 1..(Len(o.todo) - 1) : Tail(o.todo)[k] = o.todo[k + 1]
  BY <1>3, HeadTailProperties
<1>5. PhaseFits'
  <2>1. op'.phase = "editing" => op'.todo # <<>>
    <3> SUFFICES ASSUME op'.phase = "editing"
                 PROVE  op'.todo # <<>>
      OBVIOUS
    <3>1. Len(op'.todo) = Len(o.todo) - 1 /\ Len(o.todo) > 1
      BY <1>1, <1>4
    <3>2. Len(op'.todo) # 0
      BY <1>3, <3>1
    <3> QED BY <3>2
  <2> QED BY <1>1, <2>1 DEF PhaseFits
<1>6. TodoFits'
  <2>1. CASE op'.todo = o.todo /\ op'.phase = "writing"
    BY <2>1 DEF TodoFits
  <2>2. CASE op'.todo = Tail(o.todo) /\ Len(o.todo) > 1
    <3> DEFINE t == Tail(o.todo)
    <3>1. \A k \in 1..Len(t) : t[k].kind \notin NameKinds
      <4> SUFFICES ASSUME NEW k \in 1..Len(t)
                   PROVE  t[k].kind \notin NameKinds
        OBVIOUS
      <4>1. k \in 1..(Len(o.todo) - 1) /\ k + 1 \in 2..Len(o.todo)
        BY <1>3, <1>4
      <4> QED BY <1>4, <4>1
    <3>2. Len(t) >= 1 /\ Len(t) \in Nat /\ t \in Seq(Edits)
      BY <1>3, <1>4, <2>2
    <3> HIDE DEF t
    <3>3. Now' = t[1]
      <4>1. op'.todo = t
        BY <2>2 DEF t
      <4>2. Len(t) # 0
        BY <3>2
      <4>3. t # <<>>
        BY <4>2
      <4> QED BY <3>2, <4>1, <4>3, HeadTailProperties DEF Now
    <3>4. \A k \in 2..Len(t) : k \in 1..Len(t)
      BY <3>2
    <3>5. 1 \in 1..Len(t)
      BY <3>2
    <3> QED BY <2>2, <3>1, <3>3, <3>4, <3>5 DEF TodoFits, t
  <2>3. CASE op'.todo = <<>> /\ op'.phase \in {"unindexing", "scanning"}
    <3>1. Len(<<>>) = 0 /\ 2..0 = {}
      OBVIOUS
    <3> QED BY <2>3, <3>1 DEF TodoFits
  <2> QED BY <1>1, <2>1, <2>2, <2>3
<1>7. Current'
  <2>1. Untold' = o.removed \cup o.changed
    BY <1>1, NoShot DEF Untold
  <2>2. op'.seen = o.seen \/ op'.seen = <<>>
    BY <1>1
  <2> QED BY <1>1, <2>1, <2>2, NoShot DEF Current
<1>8. Sound(Way(op.todo), disk, stale, op.seen, op.writes, op.removals)'
  <2>1. (op'.seen = o.seen /\ op'.todo = o.todo) \/ (o.writes = <<>> /\ o.removals = {})
    BY <1>1
  <2>2. ASSUME op'.seen = o.seen, op'.todo = o.todo
        PROVE  Sound(Way(op'.todo), disk', stale', op'.seen, op'.writes, op'.removals)
    BY <1>1, <2>2
  <2>3. ASSUME o.writes = <<>>, o.removals = {}
        PROVE  Sound(Way(op'.todo), disk', stale', op'.seen, op'.writes, op'.removals)
    <3>1. op'.writes = <<>> /\ op'.removals = {}
      BY <1>1, <2>3
    <3>2. Sound(Way(op'.todo), disk', stale', op'.seen, <<>>, {})
      BY NothingPlanned
    <3> QED BY <3>1, <3>2
  <2> QED BY <2>1, <2>2, <2>3
<1> QED BY <1>2, <1>5, <1>6, <1>7, <1>8 DEF IInv

LEMMA EditKeeps ==
    ASSUME IInv, PerformEdit
    PROVE  IInv'
<1>1. op.phase = "editing" /\ op.writes = <<>> /\ op.removals = {}
      /\ (Transacts \/ FileIsThere)
  BY EditPlans
<1>2. /\ op \in Ops /\ op.todo # <<>> /\ op.request = "edit" /\ op.scan = <<>>
      /\ \A k \in 2..Len(op.todo) : op.todo[k].kind \notin NameKinds
      /\ disk \in [Files -> Documents] /\ stale \subseteq Files
      /\ Exact(index) /\ index.rows \in [Files -> Documents]
  BY <1>1 DEF IInv, Typed, PhaseFits, TodoFits
<1>3. Untold = op.removed \cup op.changed
  BY <1>2, NoShot DEF Untold
<1>4. \A f \in Files \ stale :
         /\ index.rows[f] = disk[f] \/ f \in op.removed \cup op.changed
         /\ f \in op.removed => disk[f] = Absent \/ f \in op.changed
         /\ f \in DOMAIN op.seen => op.seen[f] = disk[f]
  BY <1>3 DEF IInv, Current
<1>5. CASE Transacts
  <2>1. PICK files, writes, removals :
           Planned(files, writes, removals) /\ Transact(files, writes, removals)
    BY <1>5 DEF Transacts
  <2> DEFINE seen == [f \in files |-> disk[f]]
             o == [op EXCEPT !.seen = seen, !.writes = writes, !.removals = removals]
  <2>2. /\ files \subseteq Files /\ removals \subseteq Files /\ writes \in Seq(Drafts)
        /\ writes # <<>> /\ Sound(Way(op.todo), disk, stale, seen, writes, removals)
    BY <2>1 DEF Planned
  <2>3. /\ \A k \in DOMAIN writes : Fits(writes[k].doc)
        /\ op' = Onward(o) /\ disk' = disk /\ index' = index /\ stale' = stale
    BY <2>1 DEF Transact
  <2>4. writes \in Seq(Puts)
    <3>1. writes \in [1..Len(writes) -> Drafts] /\ Len(writes) \in Nat
          /\ DOMAIN writes = 1..Len(writes)
      BY <2>2, LenProperties
    <3>2. \A k \in 1..Len(writes) : writes[k] \in Puts
      BY <2>3, <3>1, FittingDocument DEF Drafts, Puts
    <3> QED BY <3>1, <3>2, IsASeq
  <2>5. seen \in Shots /\ DOMAIN seen = files /\ \A f \in files : seen[f] = disk[f]
    <3>1. seen \in [files -> Documents]
      BY <1>2, <2>2
    <3> QED BY <2>2, <3>1 DEF Shots
  <2> HIDE DEF seen
  <2>6. /\ o \in Ops /\ o.seen = seen /\ o.writes = writes /\ o.removals = removals
        /\ o.todo = op.todo /\ o.request = op.request /\ o.scan = op.scan
        /\ o.removed = op.removed /\ o.changed = op.changed
    BY <1>2, <2>2, <2>4, <2>5 DEF Ops
  <2> HIDE DEF o
  <2>7. \A f \in Files \ stale :
           /\ index.rows[f] = disk[f] \/ f \in o.removed \cup o.changed
           /\ f \in o.removed => disk[f] = Absent \/ f \in o.changed
           /\ f \in DOMAIN o.seen => o.seen[f] = disk[f]
    BY <1>4, <2>5, <2>6
  <2> QED BY <1>2, <2>2, <2>3, <2>6, <2>7, OnwardKeeps
<1>6. CASE FileIsThere
  <2> DEFINE changed == op.changed \cup {Now.at.file}
             o == [op EXCEPT !.changed = changed]
  <2>1. Now.kind = "ensure_file" /\ op' = Onward(o)
        /\ disk' = disk /\ index' = index /\ stale' = stale
    BY <1>6 DEF FileIsThere
  <2>2. Now.at.file \in Files
    BY <1>1, <2>1, NowIsEdit DEF Edits
  <2>3. changed \in SUBSET Files
    BY <1>2, <2>2 DEF Ops
  <2>4. op.changed \subseteq changed
    OBVIOUS
  <2> HIDE DEF changed
  <2>5. /\ o \in Ops /\ o.seen = op.seen /\ o.writes = op.writes /\ o.removals = op.removals
        /\ o.todo = op.todo /\ o.request = op.request /\ o.scan = op.scan
        /\ o.removed = op.removed /\ o.changed = changed
    BY <1>2, <2>3 DEF Ops
  <2> HIDE DEF o
  <2>6. \A f \in Files \ stale :
           /\ index.rows[f] = disk[f] \/ f \in o.removed \cup o.changed
           /\ f \in o.removed => disk[f] = Absent \/ f \in o.changed
           /\ f \in DOMAIN o.seen => o.seen[f] = disk[f]
    BY <1>4, <2>4, <2>5
  <2>7. Sound(Way(o.todo), disk, stale, o.seen, o.writes, o.removals)
    BY <2>5 DEF IInv
  <2> QED BY <1>2, <2>1, <2>5, <2>6, <2>7, OnwardKeeps
<1> QED BY <1>1, <1>5, <1>6

(* The ids on disk are those of the names of its files. *)
LEMMA NamedIds ==
    ASSUME NEW files \in [Files -> Documents]
    PROVE  Named(files, Files) = {name[2] : name \in UNION {NamesIn(files[f]) : f \in Files}}
<1>0. \A f \in Files : files[f] \in Seq(Entries) /\ Len(files[f]) <= MaxLines
                       /\ Len(files[f]) \in Nat /\ DOMAIN files[f] = 1..Len(files[f])
  BY DocumentIsShaped, LenProperties
<1>1. ASSUME NEW f \in Files, NEW i \in 1..MaxLines, IdAt(files, <<f, i>>) # None
      PROVE  \E name \in NamesIn(files[f]) : name[2] = IdAt(files, <<f, i>>)
  <2>1. i <= Len(files[f]) /\ IdAt(files, <<f, i>>) = files[f][i].id
    BY <1>1 DEF IdAt
  <2>2. i \in DOMAIN files[f]
    BY <1>0, <2>1
  <2> DEFINE name == <<files[f][i].note, files[f][i].id>>
  <2>3. name \in Texts(files[f])
    BY <2>2 DEF Texts
  <2>4. name[2] = files[f][i].id
    OBVIOUS
  <2> HIDE DEF name
  <2>5. name \in NamesIn(files[f])
    BY <1>1, <2>1, <2>3, <2>4 DEF NamesIn
  <2> QED BY <2>1, <2>4, <2>5
<1>2. ASSUME NEW f \in Files, NEW name \in NamesIn(files[f])
      PROVE  /\ name[2] # None
             /\ \E i \in 1..MaxLines : IdAt(files, <<f, i>>) = name[2]
  <2>1. PICK i \in DOMAIN files[f] : name = <<files[f][i].note, files[f][i].id>> /\ name[2] # None
    BY DEF NamesIn, Texts
  <2>2. i \in 1..MaxLines /\ i <= Len(files[f])
    BY <1>0, IndexAssumption
  <2> QED BY <2>1, <2>2 DEF IdAt
<1>3. ASSUME NEW x \in Named(files, Files)
      PROVE  \E f \in Files : \E name \in NamesIn(files[f]) : x = name[2]
  <2>1. PICK k \in Files \X (1..MaxLines) : x = IdAt(files, k) /\ x # None
    BY DEF Named
  <2>2. k = <<k[1], k[2]>> /\ k[1] \in Files /\ k[2] \in 1..MaxLines
    OBVIOUS
  <2>3. IdAt(files, <<k[1], k[2]>>) = x
    BY <2>1, <2>2
  <2> QED BY <1>1, <2>1, <2>2, <2>3
<1>4. ASSUME NEW f \in Files, NEW name \in NamesIn(files[f])
      PROVE  name[2] \in Named(files, Files)
  <2>1. PICK i \in 1..MaxLines : IdAt(files, <<f, i>>) = name[2] /\ name[2] # None
    BY <1>2
  <2>2. <<f, i>> \in Files \X (1..MaxLines)
    OBVIOUS
  <2> QED BY <2>1, <2>2 DEF Named
<1> QED BY <1>3, <1>4

LEMMA FirstWrite ==
    ASSUME NEW seen, NEW writes \in Seq(Puts), writes # <<>>, NEW removals,
           WritesFit(seen, writes, removals)
    PROVE  writes[1] \in Puts /\ writes[1].file \in DOMAIN seen \ removals
<1>1. Len(writes) \in Nat /\ Len(writes) # 0 /\ DOMAIN writes = 1..Len(writes)
  BY LenProperties
<1>2. 1 \in DOMAIN writes /\ writes[1] \in Puts
  BY <1>1, ElementOfSeq
<1> QED BY <1>2 DEF WritesFit

(* A transaction under way keeps its promise: what was written counts as seen. *)
LEMMA WrittenIsSound ==
    ASSUME NEW seen, NEW writes \in Seq(Puts), writes # <<>>, NEW removals,
           NEW way, NEW files, NEW after, NEW old,
           Sound(way, files, old, seen, writes, removals),
           NEW now, DOMAIN now = DOMAIN seen, now[writes[1].file] = writes[1].doc,
           \A f \in DOMAIN seen : f # writes[1].file => now[f] = seen[f]
    PROVE  Sound(way, after, old, now, Tail(writes), removals)
<1> DEFINE first == writes[1].file
           rest == Tail(writes)
<1>1. /\ Len(writes) \in Nat /\ Len(writes) # 0 /\ DOMAIN writes = 1..Len(writes)
      /\ rest \in Seq(Puts) /\ Len(rest) = Len(writes) - 1
      /\ Len(writes) > 1 => rest[1] = writes[2]
  <2>1. /\ Len(writes) \in Nat /\ Len(writes) # 0 /\ DOMAIN writes = 1..Len(writes)
    BY LenProperties
  <2>2. /\ rest \in Seq(Puts) /\ Len(rest) = Len(writes) - 1
        /\ \A i \in 1..Len(rest) : rest[i] = writes[i + 1]
    BY HeadTailProperties
  <2> HIDE DEF rest
  <2>3. Len(writes) > 1 => rest[1] = writes[1 + 1]
    BY <2>1, <2>2
  <2> QED BY <2>1, <2>2, <2>3
<1>3. WritesFit(seen, writes, removals) /\ NotesKept(seen, writes, removals)
  BY DEF Sound
<1>4. first \in DOMAIN seen \ removals
  BY <1>3, FirstWrite
<1>5. /\ DOMAIN now = DOMAIN seen /\ now[first] = writes[1].doc
      /\ \A f \in DOMAIN seen : f # first => now[f] = seen[f]
  OBVIOUS
<1> HIDE DEF first, rest
<1>6. CASE Len(writes) = 1
  <2>1. Len(rest) = 0 /\ rest = <<>> /\ DOMAIN rest = {}
    BY <1>1, <1>6
  <2>2. WritesFit(now, rest, removals)
    BY <1>3, <1>5, <2>1 DEF WritesFit
  <2>3. ASSUME NEW f \in removals
        PROVE  f \in DOMAIN seen /\ f # first /\ now[f] = seen[f]
    BY <1>3, <1>4, <1>5 DEF WritesFit
  <2>4. NotesKept(now, rest, removals)
    <3>1. ASSUME NEW f \in removals
          PROVE  NotesIn(now[f]) \subseteq NotesAt(now, DOMAIN now \ {f})
      <4>1. NotesIn(now[f]) \subseteq NotesIn(now[first])
        BY <1>3, <1>5, <2>3 DEF NotesKept
      <4>2. first \in DOMAIN now \ {f}
        BY <1>4, <1>5
      <4> QED BY <4>1, <4>2 DEF NotesAt
    <3>2. \A f \in removals : NotesIn(now[f]) \subseteq
             IF rest = <<>> THEN NotesAt(now, DOMAIN now \ {f}) ELSE NotesIn(rest[1].doc)
      BY <2>1, <3>1
    <3>3. ~(Len(rest) > 0) /\ Len(rest) # 2
      BY <2>1
    <3> QED BY <3>2, <3>3 DEF NotesKept
  <2>5. ASSUME way # "lands", DOMAIN now \cap old = {}
        PROVE  NamesKept(way, after, now, rest, removals)
    <3>1. NamesKept(way, files, seen, writes, removals)
      BY <1>5, <2>5 DEF Sound
    <3>2. ASSUME NEW f \in removals
          PROVE  NamesIn(now[f]) \subseteq NamesAt(now, DOMAIN now \ {f})
      <4>1. NamesIn(now[f]) \subseteq NamesIn(now[first])
        BY <1>5, <2>3, <3>1 DEF NamesKept
      <4>2. first \in DOMAIN now \ {f}
        BY <1>4, <1>5
      <4> QED BY <4>1, <4>2 DEF NamesAt
    <3>3. \A f \in removals : NamesIn(now[f]) \subseteq
             IF rest = <<>> THEN NamesAt(now, DOMAIN now \ {f}) ELSE NamesIn(rest[1].doc)
      BY <2>1, <3>2
    <3>4. ~(Len(rest) > 0) /\ Len(rest) # 2
      BY <2>1
    <3> QED BY <3>3, <3>4 DEF NamesKept
  <2> QED BY <2>2, <2>4, <2>5 DEF Sound, rest
<1>7. CASE Len(writes) # 1
  <2> DEFINE second == writes[2].file
  <2>1. Len(writes) = 2 /\ Len(rest) = 1 /\ rest[1] = writes[2] /\ DOMAIN rest = {1}
    <3>1. Len(writes) = 2
      BY <1>1, <1>3, <1>7 DEF WritesFit
    <3> QED BY <1>1, <3>1, LenProperties
  <2>2. removals = {} /\ second \in DOMAIN seen /\ second # first
    BY <1>1, <1>3, <2>1 DEF WritesFit, first
  <2> HIDE DEF second
  <2>3. now[second] = seen[second] /\ first \in DOMAIN now \ {second}
    BY <1>4, <1>5, <2>2
  <2>4. WritesFit(now, rest, removals)
    BY <1>5, <2>1, <2>2 DEF WritesFit, second
  <2>5. NotesKept(now, rest, removals)
    <3>1. NotesIn(now[second]) \subseteq NotesIn(writes[2].doc) \cup NotesIn(now[first])
      BY <1>3, <1>5, <2>1, <2>3 DEF NotesKept, second
    <3>2. NotesIn(now[first]) \subseteq NotesAt(now, DOMAIN now \ {second})
      BY <2>3 DEF NotesAt
    <3>3. NotesIn(now[second]) \subseteq
             NotesIn(rest[1].doc) \cup NotesAt(now, DOMAIN now \ {second})
      BY <2>1, <3>1, <3>2
    <3> QED BY <2>1, <2>2, <3>3 DEF NotesKept, second
  <2>6. ASSUME way # "lands", DOMAIN now \cap old = {}
        PROVE  NamesKept(way, after, now, rest, removals)
    <3>0. NamesKept(way, files, seen, writes, removals)
      BY <1>5, <2>6 DEF Sound
    <3>1. /\ NamesIn(now[second]) \subseteq NamesIn(writes[2].doc) \cup NamesIn(now[first])
          /\ NamesIn(writes[2].doc) \subseteq NamesIn(now[second])
      BY <1>5, <2>1, <2>3, <3>0 DEF NamesKept, second
    <3>2. NamesIn(now[first]) \subseteq NamesAt(now, DOMAIN now \ {second})
      BY <2>3 DEF NamesAt
    <3>3. NamesIn(now[second]) \subseteq
             NamesIn(rest[1].doc) \cup NamesAt(now, DOMAIN now \ {second})
      BY <2>1, <3>1, <3>2
    <3>4. NamesIn(rest[1].doc) \ NamesAt(now, DOMAIN now) = {}
      <4>1. NamesIn(now[second]) \subseteq NamesAt(now, DOMAIN now)
        BY <1>5, <2>2 DEF NamesAt
      <4> QED BY <2>1, <3>1, <4>1
    <3> QED BY <2>1, <2>2, <3>3, <3>4 DEF NamesKept, second
  <2> QED BY <2>4, <2>5, <2>6 DEF Sound, rest
<1> QED BY <1>6, <1>7

LEMMA ShotWith ==
    ASSUME NEW shot \in Shots, NEW f \in DOMAIN shot, NEW doc \in Documents
    PROVE  [shot EXCEPT ![f] = doc] \in Shots
<1>1. PICK F \in SUBSET Files : shot \in [F -> Documents]
  BY DEF Shots
<1>2. [shot EXCEPT ![f] = doc] \in [F -> Documents]
  BY <1>1
<1> QED BY <1>2 DEF Shots

(* What is known of the files when a transaction is under way. *)
LEMMA Editings ==
    ASSUME IInv, op.phase \in {"editing", "writing"}
    PROVE  /\ op \in Ops /\ op.todo # <<>> /\ op.request = "edit" /\ op.scan = <<>>
           /\ \A k \in 2..Len(op.todo) : op.todo[k].kind \notin NameKinds
           /\ disk \in [Files -> Documents] /\ stale \subseteq Files
           /\ Exact(index) /\ index.rows \in [Files -> Documents]
           /\ \A f \in Files \ stale :
                 /\ index.rows[f] = disk[f] \/ f \in op.removed \cup op.changed
                 /\ f \in op.removed => disk[f] = Absent \/ f \in op.changed
                 /\ f \in DOMAIN op.seen => op.seen[f] = disk[f]
           /\ Sound(Way(op.todo), disk, stale, op.seen, op.writes, op.removals)
<1>1. op.request = "edit" /\ op.scan = <<>> /\ op.todo # <<>>
  BY DEF IInv, PhaseFits
<1>2. Untold = op.removed \cup op.changed
  BY <1>1, NoShot DEF Untold
<1> QED BY <1>1, <1>2 DEF IInv, Typed, TodoFits, Current

LEMMA WriteKeeps ==
    ASSUME IInv, WriteFile
    PROVE  IInv'
<1>1. op.phase = "writing" /\ op.writes # <<>> /\ index' = index /\ stale' = stale
  BY DEF WriteFile
<1> DEFINE put == Head(op.writes)
           seen == [op.seen EXCEPT ![put.file] = put.doc]
           rest == Tail(op.writes)
           changed == op.changed \cup {put.file}
           o == [op EXCEPT !.writes = rest, !.changed = changed, !.seen = seen]
<1>2. op' = Onward(o) /\ disk' = [disk EXCEPT ![put.file] = put.doc]
  BY DEF WriteFile
<1>3. op \in Ops /\ op.writes \in Seq(Puts) /\ op.seen \in Shots /\ op.removals \in SUBSET Files
      /\ op.changed \in SUBSET Files
  BY <1>1, Editings DEF Ops
<1>4. put = op.writes[1] /\ rest \in Seq(Puts)
  BY <1>1, <1>3, HeadTailProperties
<1>5. /\ put \in Puts /\ put.file \in DOMAIN op.seen
      /\ DOMAIN seen = DOMAIN op.seen /\ seen[put.file] = put.doc
      /\ \A f \in DOMAIN op.seen : f # put.file => seen[f] = op.seen[f]
      /\ Sound(Way(op.todo), disk', stale, seen, rest, op.removals)
  <2>1. Sound(Way(op.todo), disk, stale, op.seen, op.writes, op.removals)
    BY <1>1, Editings
  <2>2. put \in Puts /\ put.file \in DOMAIN op.seen
    <3>1. WritesFit(op.seen, op.writes, op.removals)
      BY <2>1 DEF Sound
    <3>2. op.writes[1] \in Puts /\ op.writes[1].file \in DOMAIN op.seen \ op.removals
      BY <1>1, <1>3, <3>1, FirstWrite
    <3> QED BY <1>4, <3>2
  <2> HIDE DEF put
  <2>3. /\ DOMAIN seen = DOMAIN op.seen /\ seen[put.file] = put.doc
        /\ \A f \in DOMAIN op.seen : f # put.file => seen[f] = op.seen[f]
    BY <2>2
  <2> HIDE DEF seen, rest
  <2>4. /\ seen[op.writes[1].file] = op.writes[1].doc
        /\ \A f \in DOMAIN op.seen : f # op.writes[1].file => seen[f] = op.seen[f]
    BY <1>4, <2>3
  <2>5. Sound(Way(op.todo), disk', stale, seen, Tail(op.writes), op.removals)
    BY <1>1, <1>3, <2>1, <2>3, <2>4, WrittenIsSound
  <2> QED BY <2>2, <2>3, <2>5 DEF rest
<1>6. put.file \in Files /\ put.doc \in Documents
  BY <1>5 DEF Puts
<1>7. seen \in Shots /\ changed \in SUBSET Files
  BY <1>3, <1>5, <1>6, ShotWith
<1>8. put.file \in changed /\ op.changed \subseteq changed
  OBVIOUS
<1> HIDE DEF put, seen, rest, changed
<1>9. /\ o \in Ops /\ o.seen = seen /\ o.writes = rest /\ o.removals = op.removals
      /\ o.todo = op.todo /\ o.request = op.request /\ o.scan = op.scan
      /\ o.removed = op.removed /\ o.changed = changed
  BY <1>3, <1>4, <1>7 DEF Ops
<1> HIDE DEF o
<1>10. /\ disk' \in [Files -> Documents] /\ disk'[put.file] = put.doc
       /\ \A f \in Files : f # put.file => disk'[f] = disk[f]
  BY <1>1, <1>2, <1>6, Editings
<1>11. \A f \in Files \ stale :
          /\ index.rows[f] = disk'[f] \/ f \in o.removed \cup o.changed
          /\ f \in o.removed => disk'[f] = Absent \/ f \in o.changed
          /\ f \in DOMAIN o.seen => o.seen[f] = disk'[f]
  <2> SUFFICES ASSUME NEW f \in Files \ stale
               PROVE  /\ index.rows[f] = disk'[f] \/ f \in o.removed \cup o.changed
                      /\ f \in o.removed => disk'[f] = Absent \/ f \in o.changed
                      /\ f \in DOMAIN o.seen => o.seen[f] = disk'[f]
    OBVIOUS
  <2>1. CASE f = put.file
    BY <1>5, <1>8, <1>9, <1>10, <2>1
  <2>2. CASE f # put.file
    BY <1>1, <1>5, <1>8, <1>9, <1>10, <2>2, Editings
  <2> QED BY <2>1, <2>2
<1> QED BY <1>1, <1>2, <1>5, <1>9, <1>10, <1>11, Editings, OnwardKeeps

LEMMA RemoveFileKeeps ==
    ASSUME IInv, RemoveFile
    PROVE  IInv'
<1>1. op.phase = "writing" /\ op.writes = <<>> /\ index' = index /\ stale' = stale
  BY DEF RemoveFile
<1>2. PICK f \in op.removals :
        /\ disk' = [disk EXCEPT ![f] = Absent]
        /\ op' = Onward([op EXCEPT !.removals = @ \ {f}, !.removed = @ \cup {f},
                                   !.seen[f] = Absent])
  BY DEF RemoveFile
<1> DEFINE seen == [op.seen EXCEPT ![f] = Absent]
           rest == op.removals \ {f}
           removed == op.removed \cup {f}
           o == [op EXCEPT !.removals = rest, !.removed = removed, !.seen = seen]
<1>3. op' = Onward(o)
  BY <1>2
<1>4. op \in Ops /\ op.seen \in Shots /\ op.removals \in SUBSET Files
      /\ op.removed \in SUBSET Files /\ op.writes \in Seq(Puts)
  BY <1>1, Editings DEF Ops
<1>5. WritesFit(op.seen, op.writes, op.removals)
  BY <1>1, Editings DEF Sound
<1>6. f \in DOMAIN op.seen /\ f \in Files /\ rest = {}
  BY <1>4, <1>5 DEF WritesFit
<1>7. /\ DOMAIN seen = DOMAIN op.seen /\ seen[f] = Absent /\ seen \in Shots
      /\ \A g \in DOMAIN op.seen : g # f => seen[g] = op.seen[g]
  BY <1>4, <1>6, ShotWith, AbsentIsDocument
<1>8. removed \in SUBSET Files /\ rest \in SUBSET Files
      /\ removed = op.removed \cup {f}
  BY <1>4, <1>6
<1> HIDE DEF seen, rest, removed
<1>9. /\ o \in Ops /\ o.seen = seen /\ o.writes = op.writes /\ o.removals = rest
      /\ o.todo = op.todo /\ o.request = op.request /\ o.scan = op.scan
      /\ o.removed = removed /\ o.changed = op.changed
  BY <1>4, <1>7, <1>8 DEF Ops
<1> HIDE DEF o
<1>10. /\ disk' \in [Files -> Documents] /\ disk'[f] = Absent
       /\ \A g \in Files : g # f => disk'[g] = disk[g]
  BY <1>1, <1>2, <1>6, Editings, AbsentIsDocument
<1>11. \A g \in Files \ stale :
          /\ index.rows[g] = disk'[g] \/ g \in o.removed \cup o.changed
          /\ g \in o.removed => disk'[g] = Absent \/ g \in o.changed
          /\ g \in DOMAIN o.seen => o.seen[g] = disk'[g]
  <2> SUFFICES ASSUME NEW g \in Files \ stale
               PROVE  /\ index.rows[g] = disk'[g] \/ g \in o.removed \cup o.changed
                      /\ g \in o.removed => disk'[g] = Absent \/ g \in o.changed
                      /\ g \in DOMAIN o.seen => o.seen[g] = disk'[g]
    OBVIOUS
  <2>1. CASE g = f
    BY <1>7, <1>8, <1>9, <1>10, <2>1
  <2>2. CASE g # f
    BY <1>1, <1>7, <1>8, <1>9, <1>10, <2>2, Editings
  <2> QED BY <2>1, <2>2
<1>12. Sound(Way(o.todo), disk', stale, o.seen, o.writes, o.removals)
  BY <1>1, <1>6, <1>9, NothingPlanned
<1> QED BY <1>1, <1>3, <1>9, <1>10, <1>11, <1>12, Editings, OnwardKeeps

(* A shot of files is what an index can be synced with. *)
LEMMA ShotIsScan ==
    ASSUME NEW shot \in Shots
    PROVE  shot \in Scans
<1>1. PICK F \in SUBSET Files : shot \in [F -> Documents]
  BY DEF Shots
<1>2. shot \in [F -> Seq(Entries)]
  BY <1>1 DEF Documents
<1> QED BY <1>2 DEF Scans

LEMMA UnindexKeeps ==
    ASSUME IInv, Unindex
    PROVE  IInv'
<1>1. op.phase = "unindexing" /\ disk' = disk
  BY DEF Unindex
<1>2. PICK f \in op.removed :
        /\ index' = Remove(index, {f})
        /\ stale' = IF Exists(f) THEN stale ELSE stale \ {f}
        /\ op' = IF op.removed \ {f} # {} THEN [op EXCEPT !.removed = op.removed \ {f}]
                 ELSE IF op.request = "edit"
                      THEN [op EXCEPT !.removed = {}, !.phase = "scanning"]
                      ELSE Idle("done")
  BY DEF Unindex
<1>3. /\ op \in Ops /\ op.removed \in SUBSET Files /\ op.changed \in SUBSET Files
      /\ disk \in [Files -> Documents] /\ stale \subseteq Files
      /\ Exact(index) /\ index.rows \in [Files -> Documents]
  BY DEF IInv, Typed, Ops
<1>4. /\ op.scan = <<>> /\ op.seen = <<>> /\ op.writes = <<>> /\ op.removals = {}
      /\ op.request # "edit" => op.changed = {}
  BY <1>1 DEF IInv, PhaseFits
<1>5. f \in Files
  BY <1>3
<1>6. /\ Exact(index') /\ index'.rows \in [Files -> Documents]
      /\ index'.rows[f] = Absent
      /\ \A g \in Files : g # f => index'.rows[g] = index.rows[g]
  <2>1. {f} \in SUBSET Files
    BY <1>5
  <2>2. /\ Exact(Remove(index, {f}))
        /\ Remove(index, {f}).rows =
              [g \in Files |-> IF g \in {f} THEN Absent ELSE index.rows[g]]
    BY <1>3, <2>1, RemoveStaysExact
  <2>3. /\ Exact(index')
        /\ index'.rows = [g \in Files |-> IF g \in {f} THEN Absent ELSE index.rows[g]]
    BY <1>2, <2>2
  <2> QED BY <1>3, <1>5, <2>3, AbsentIsDocument
<1> DEFINE rest == op.removed \ {f}
           none == {}
<1>7. /\ op' \in Ops /\ op'.seen = <<>> /\ op'.writes = <<>> /\ op'.removals = {}
      /\ op'.scan = <<>> /\ op'.removed = rest /\ op'.changed = op.changed
      /\ \/ op'.phase = "unindexing" /\ op'.request = op.request /\ op'.todo = op.todo
         \/ op'.phase = "scanning" /\ op'.request = "edit" /\ op'.todo = op.todo
         \/ op'.phase = "idle" /\ op'.todo = <<>> /\ op.request # "edit"
  <2>1. CASE rest # {}
    <3>1. op' = [op EXCEPT !.removed = rest] /\ rest \in SUBSET Files
      BY <1>2, <1>3, <2>1
    <3> HIDE DEF rest
    <3> QED BY <1>1, <1>3, <1>4, <3>1 DEF Ops
  <2>2. CASE rest = {} /\ op.request = "edit"
    <3>1. op' = [op EXCEPT !.removed = none, !.phase = "scanning"] /\ none \in SUBSET Files
      BY <1>2, <2>2
    <3> HIDE DEF rest, none
    <3>2. /\ op' \in Ops /\ op'.seen = op.seen /\ op'.writes = op.writes
          /\ op'.removals = op.removals /\ op'.scan = op.scan /\ op'.removed = none
          /\ op'.changed = op.changed /\ op'.phase = "scanning"
          /\ op'.request = op.request /\ op'.todo = op.todo
      BY <1>3, <3>1 DEF Ops, Phases
    <3> QED BY <1>4, <2>2, <3>2 DEF none
  <2>3. CASE rest = {} /\ op.request # "edit"
    <3>1. op' = Idle("done") /\ op.changed = {}
      BY <1>2, <1>4, <2>3
    <3> QED BY <2>3, <3>1, IdleOp, IdleFields
  <2> QED BY <2>1, <2>2, <2>3
<1>8. stale' \subseteq stale /\ \A g \in Files \ stale' : g # f => g \in Files \ stale
  BY <1>2
<1>9. Typed'
  BY <1>1, <1>3, <1>6, <1>7, <1>8 DEF Typed
<1>10. PhaseFits'
  <2>1. op'.phase = "scanning" => rest = {}
    <3>1. rest # {} => op'.phase = op.phase
      <4> SUFFICES ASSUME rest # {}
                   PROVE  op'.phase = op.phase
        OBVIOUS
      <4>1. op' = [op EXCEPT !.removed = rest]
        BY <1>2
      <4> HIDE DEF rest
      <4> QED BY <1>3, <4>1 DEF Ops
    <3> QED BY <1>1, <3>1
  <2>2. op'.phase = "idle" => rest = {} /\ op.changed = {}
    <3>1. rest # {} => op'.phase = op.phase
      <4> SUFFICES ASSUME rest # {}
                   PROVE  op'.phase = op.phase
        OBVIOUS
      <4>1. op' = [op EXCEPT !.removed = rest]
        BY <1>2
      <4> HIDE DEF rest
      <4> QED BY <1>3, <4>1 DEF Ops
    <3> QED BY <1>1, <1>4, <1>7, <3>1
  <2> HIDE DEF rest
  <2> QED BY <1>4, <1>7, <2>1, <2>2 DEF PhaseFits
<1>11. TodoFits'
  <2>1. Len(<<>>) = 0 /\ 2..0 = {} /\ op'.phase # "editing"
    BY <1>7
  <2>2. \A k \in 2..Len(op.todo) : op.todo[k].kind \notin NameKinds
    BY DEF IInv, TodoFits
  <2>3. op'.todo = op.todo \/ op'.todo = <<>>
    BY <1>7
  <2> QED BY <2>1, <2>2, <2>3 DEF TodoFits
<1>12. Current'
  <2>1. Untold = op.removed \cup (IF op.request = "edit" THEN op.changed ELSE {})
    BY <1>4, NoShot DEF Untold
  <2>2. Untold' = rest \cup (IF op'.request = "edit" THEN op.changed ELSE {})
    BY <1>7, NoShot DEF Untold
  <2>3. op.request = "edit" => op'.request = "edit"
    BY <1>7
  <2>4. ASSUME NEW g \in Files \ stale', g # f
        PROVE  /\ index'.rows[g] = disk[g] \/ g \in Untold'
               /\ g \in op'.removed => disk[g] = Absent \/ g \in op'.changed
    <3>1. /\ index.rows[g] = disk[g] \/ g \in Untold
          /\ g \in op.removed => disk[g] = Absent \/ g \in op.changed
      BY <1>8, <2>4 DEF IInv, Current
    <3> QED BY <1>6, <1>7, <2>1, <2>2, <2>3, <2>4, <3>1
  <2>5. ASSUME f \in Files \ stale'
        PROVE  index'.rows[f] = disk[f] \/ f \in Untold'
    <3>1. CASE Exists(f)
      <4>1. f \in Files \ stale
        BY <1>2, <2>5, <3>1
      <4>2. f \in op.changed
        BY <3>1, <4>1 DEF IInv, Current, Exists
      <4>3. op.request = "edit"
        BY <1>4, <4>2
      <4> QED BY <2>2, <2>3, <4>2, <4>3
    <3>2. CASE ~Exists(f)
      BY <1>6, <3>2 DEF Exists
    <3> QED BY <3>1, <3>2
  <2>6. f \notin op'.removed
    BY <1>7
  <2>7. op'.phase = "scanning" => op'.request # "root"
    BY <1>7
  <2>8. op'.phase # "syncing"
    BY <1>7
  <2> HIDE DEF rest
  <2> QED BY <1>1, <1>7, <2>4, <2>5, <2>6, <2>7, <2>8, NoShot DEF Current
<1>13. Sound(Way(op.todo), disk, stale, op.seen, op.writes, op.removals)'
  BY <1>7, NothingPlanned
<1> QED BY <1>9, <1>10, <1>11, <1>12, <1>13 DEF IInv

LEMMA ScanKeeps ==
    ASSUME IInv, Scan
    PROVE  IInv'
<1>1. op.phase = "scanning" /\ disk' = disk /\ index' = index
  BY DEF Scan
<1>2. PICK f \in op.changed :
        /\ op' = [op EXCEPT !.changed = @ \ {f},
                            !.scan = [g \in DOMAIN @ \cup {f} |->
                                        IF g = f THEN disk[f] ELSE @[g]],
                            !.phase = IF op.changed = {f} THEN "syncing" ELSE @]
        /\ stale' = stale \ {f}
  BY DEF Scan
<1>3. /\ op \in Ops /\ op.changed \in SUBSET Files /\ op.scan \in Shots
      /\ disk \in [Files -> Documents] /\ stale \subseteq Files
      /\ Exact(index) /\ index.rows \in [Files -> Documents]
  BY DEF IInv, Typed, Ops
<1>4. /\ op.seen = <<>> /\ op.writes = <<>> /\ op.removals = {} /\ op.removed = {}
  BY <1>1 DEF IInv, PhaseFits
<1>5. f \in Files
  BY <1>3
<1> DEFINE rest == op.changed \ {f}
           scan == [g \in DOMAIN op.scan \cup {f} |-> IF g = f THEN disk[f] ELSE op.scan[g]]
           phase == IF op.changed = {f} THEN "syncing" ELSE op.phase
<1>6. op' = [op EXCEPT !.changed = rest, !.scan = scan, !.phase = phase]
  BY <1>2
<1>7. /\ DOMAIN scan = DOMAIN op.scan \cup {f} /\ scan[f] = disk[f]
      /\ \A g \in DOMAIN op.scan : g # f => scan[g] = op.scan[g]
      /\ scan \in Shots
  <2>1. DOMAIN op.scan \cup {f} \in SUBSET Files
    BY <1>3, <1>5, ShotType
  <2>2. scan \in [DOMAIN op.scan \cup {f} -> Documents]
    BY <1>3, <1>5, ShotType
  <2> QED BY <2>1, <2>2 DEF Shots
<1>8. /\ rest \in SUBSET Files /\ rest \cup {f} = op.changed /\ f \notin rest
      /\ phase \in {"scanning", "syncing"} /\ (phase = "syncing" => rest = {})
  BY <1>1, <1>3
<1> HIDE DEF rest, scan, phase
<1>9. /\ op' \in Ops /\ op'.changed = rest /\ op'.scan = scan /\ op'.phase = phase
      /\ op'.request = op.request /\ op'.todo = op.todo /\ op'.seen = op.seen
      /\ op'.writes = op.writes /\ op'.removals = op.removals /\ op'.removed = op.removed
  BY <1>3, <1>6, <1>7, <1>8 DEF Ops, Phases
<1>10. Typed'
  BY <1>1, <1>2, <1>3, <1>9 DEF Typed
<1>11. PhaseFits'
  BY <1>4, <1>8, <1>9 DEF PhaseFits
<1>12. TodoFits'
  <2>1. op'.phase # "editing" /\ op'.todo = op.todo
    BY <1>8, <1>9
  <2> QED BY <2>1 DEF IInv, TodoFits
<1>13. Current'
  <2>1. ASSUME NEW g \in Files \ stale'
        PROVE  /\ index.rows[g] = disk[g] \/ g \in Untold'
               /\ g \in DOMAIN scan => scan[g] = disk[g]
               /\ op.request = "root" => g \in rest \cup DOMAIN scan \/ disk[g] = Absent
    <3>1. DOMAIN scan \subseteq Untold' /\ (op.request = "edit" => rest \subseteq Untold')
      BY <1>9 DEF Untold
    <3>2. CASE g = f
      BY <1>7, <3>1, <3>2
    <3>3. CASE g # f
      <4>1. g \in Files \ stale
        BY <1>2, <3>3
      <4>2. /\ index.rows[g] = disk[g] \/ g \in Untold
            /\ g \in DOMAIN op.scan => op.scan[g] = disk[g]
            /\ op.request = "root" => g \in op.changed \cup DOMAIN op.scan \/ disk[g] = Absent
        BY <1>1, <4>1 DEF IInv, Current
      <4>3. g \in Untold => g \in DOMAIN op.scan \/ (op.request = "edit" /\ g \in op.changed)
        BY <1>4 DEF Untold
      <4> QED BY <1>7, <1>8, <3>1, <3>3, <4>2, <4>3
    <3> QED BY <3>2, <3>3
  <2> QED BY <1>1, <1>4, <1>9, <2>1, NoShot DEF Current
<1>14. Sound(Way(op.todo), disk, stale, op.seen, op.writes, op.removals)'
  BY <1>4, <1>9, NothingPlanned
<1> QED BY <1>10, <1>11, <1>12, <1>13, <1>14 DEF IInv

LEMMA SyncRowsKeeps ==
    ASSUME IInv, SyncRows
    PROVE  IInv'
<1>1. op.phase = "syncing"
  BY DEF SyncRows
<1>2. CASE Clash(Scanned(index.rows, op.scan))
  BY <1>2, FailKeeps DEF SyncRows
<1>3. CASE ~Clash(Scanned(index.rows, op.scan))
  <2>1. /\ index' = Sync(index, op.scan) /\ disk' = disk /\ stale' = stale
        /\ op' = IF op.request = "root" /\ Missing(op.scan) # {}
                 THEN [Idle("root") EXCEPT !.phase = "unindexing",
                                           !.removed = Missing(op.scan)]
                 ELSE Idle("done")
    BY <1>3 DEF SyncRows
  <2>2. /\ op \in Ops /\ op.scan \in Shots
        /\ disk \in [Files -> Documents] /\ stale \subseteq Files
        /\ Exact(index) /\ index.rows \in [Files -> Documents]
    BY DEF IInv, Typed, Ops
  <2>3. op.changed = {} /\ op.removed = {}
    BY <1>1 DEF IInv, PhaseFits
  <2>4. Exact(index') /\ index'.rows = Scanned(index.rows, op.scan)
    BY <1>3, <2>1, <2>2, ShotIsScan, SyncStaysExact
  <2>5. index'.rows \in [Files -> Documents]
    BY <2>2, <2>4, ShotType DEF Scanned
  <2> DEFINE gone == Missing(op.scan)
             i == Idle("root")
  <2>6. gone \in SUBSET Files
    BY DEF Missing
  <2>7. \A f \in Files \ stale : index'.rows[f] = disk[f]
    <3>1. Untold = DOMAIN op.scan
      BY <2>3 DEF Untold
    <3> QED BY <2>4, <3>1 DEF IInv, Current, Scanned
  <2>8. op.request = "root" => \A f \in Files \ stale : f \in gone => disk[f] = Absent
    BY <1>1, <2>3 DEF IInv, Current, Missing
  <2>9. /\ op' \in Ops /\ op'.todo = <<>> /\ op'.seen = <<>> /\ op'.writes = <<>>
        /\ op'.removals = {} /\ op'.changed = {} /\ op'.scan = <<>> /\ op'.request # "edit"
        /\ \/ op'.phase = "unindexing" /\ op'.removed = gone /\ op.request = "root"
           \/ op'.phase = "idle" /\ op'.removed = {}
    <3>1. CASE op.request = "root" /\ gone # {}
      <4>1. op' = [i EXCEPT !.phase = "unindexing", !.removed = gone]
        BY <2>1, <3>1
      <4>2. /\ i \in Ops /\ i.todo = <<>> /\ i.seen = <<>> /\ i.writes = <<>>
            /\ i.removals = {} /\ i.changed = {} /\ i.scan = <<>> /\ i.request = "root"
        BY IdleOp, IdleFields
      <4> HIDE DEF i, gone
      <4>3. /\ op' \in Ops /\ op'.todo = i.todo /\ op'.seen = i.seen
            /\ op'.writes = i.writes /\ op'.removals = i.removals
            /\ op'.changed = i.changed /\ op'.scan = i.scan /\ op'.request = i.request
            /\ op'.phase = "unindexing" /\ op'.removed = gone
        BY <2>6, <4>1, <4>2 DEF Ops, Phases
      <4> QED BY <3>1, <4>2, <4>3
    <3>2. CASE ~(op.request = "root" /\ gone # {})
      <4>1. op' = Idle("done")
        BY <2>1, <3>2
      <4> QED BY <4>1, IdleOp, IdleFields
    <3> QED BY <3>1, <3>2
  <2> HIDE DEF gone
  <2>10. Typed'
    BY <2>1, <2>2, <2>4, <2>5, <2>9 DEF Typed
  <2>11. PhaseFits'
    BY <2>9 DEF PhaseFits
  <2>12. TodoFits'
    <3>1. Len(<<>>) = 0 /\ 2..0 = {} /\ op'.phase # "editing"
      BY <2>9
    <3> QED BY <2>9, <3>1 DEF TodoFits
  <2>13. Current'
    BY <2>1, <2>7, <2>8, <2>9, NoShot DEF Current
  <2>14. Sound(Way(op.todo), disk, stale, op.seen, op.writes, op.removals)'
    BY <2>9, NothingPlanned
  <2> QED BY <2>10, <2>11, <2>12, <2>13, <2>14 DEF IInv
<1> QED BY <1>2, <1>3

(* Others save files that the engine does not look at again until it reads
   them: a save brings in no name that was not on disk.                      *)
LEMMA SaveKeeps ==
    ASSUME IInv, NEW files \in Shots, Save(files),
           \A f \in DOMAIN files : \A name \in NamesIn(files[f]) :
               \E g \in Files : name \in NamesIn(disk[g])
    PROVE  IInv'
<1>1. /\ disk' = [f \in Files |-> IF f \in DOMAIN files THEN files[f] ELSE disk[f]]
      /\ stale' = stale \cup DOMAIN files /\ index' = index /\ op' = op
  BY DEF Save
<1>2. /\ disk \in [Files -> Documents] /\ stale \subseteq Files /\ op \in Ops
      /\ Exact(index) /\ index.rows \in [Files -> Documents]
  BY DEF IInv, Typed
<1>3. DOMAIN files \subseteq Files /\ \A f \in DOMAIN files : files[f] \in Documents
  BY ShotType
<1>4. /\ disk' \in [Files -> Documents]
      /\ \A f \in Files \ stale' : f \in Files \ stale /\ disk'[f] = disk[f]
      /\ \A f \in Files : disk'[f] = disk[f] \/ (f \in DOMAIN files /\ disk'[f] = files[f])
  BY <1>1, <1>2, <1>3
<1>5. Typed'
  BY <1>1, <1>2, <1>3, <1>4 DEF Typed
<1>6. PhaseFits'
  BY <1>1 DEF IInv, PhaseFits
<1>7. TodoFits'
  BY <1>1 DEF IInv, TodoFits, Now, Anchors, Record
<1>8. Current'
  BY <1>1, <1>4 DEF IInv, Current, Untold
<1>9. Named(disk', Files) \subseteq Named(disk, Files)
  <2> DEFINE after == disk'
  <2>1. /\ after \in [Files -> Documents]
        /\ \A f \in Files : after[f] = disk[f] \/ (f \in DOMAIN files /\ after[f] = files[f])
    BY <1>4
  <2> HIDE DEF after
  <2>2. \A f \in Files : \A name \in NamesIn(after[f]) :
            \E g \in Files : name \in NamesIn(disk[g])
    BY <2>1
  <2>3. /\ Named(after, Files) = {name[2] : name \in UNION {NamesIn(after[f]) : f \in Files}}
        /\ Named(disk, Files) = {name[2] : name \in UNION {NamesIn(disk[f]) : f \in Files}}
    BY <1>2, <2>1, NamedIds
  <2>4. Named(after, Files) \subseteq Named(disk, Files)
    BY <2>2, <2>3
  <2> QED BY <2>4 DEF after
<1>10. Sound(Way(op.todo), disk, stale, op.seen, op.writes, op.removals)'
  <2>1. Sound(Way(op.todo), disk, stale, op.seen, op.writes, op.removals)
    BY DEF IInv
  <2>2. NamesKept(Way(op.todo), disk, op.seen, op.writes, op.removals)
            => NamesKept(Way(op.todo), disk', op.seen, op.writes, op.removals)
    BY <1>9 DEF NamesKept
  <2>3. DOMAIN op.seen \cap stale' = {} => DOMAIN op.seen \cap stale = {}
    BY <1>1
  <2>4. Sound(Way(op.todo), disk', stale', op.seen, op.writes, op.removals)
    BY <2>1, <2>2, <2>3 DEF Sound
  <2> QED BY <1>1, <2>4
<1> QED BY <1>5, <1>6, <1>7, <1>8, <1>10 DEF IInv

LEMMA SaveFileKeeps ==
    ASSUME IInv, SaveFile
    PROVE  IInv'
<1>1. PICK f \in Files :
        /\ Exists(f)
        /\ \/ \E at \in 2..(Len(disk[f]) + 1), n \in FreshNotes :
                LET doc == Paste(disk[f], at, <<Entry(1, n, None)>>)
                IN  Fits(doc) /\ Save([x \in {f} |-> doc])
           \/ \E i \in 2..Len(disk[f]) : Save([x \in {f} |-> Cut(disk[f], i, i + 1)])
           \/ Save([x \in {f} |-> Absent])
  BY DEF SaveFile
<1> DEFINE old == disk[f]
<1>2. /\ old \in Documents /\ old \in Shaped /\ old \in Seq(Entries)
      /\ Len(old) \in Nat /\ Len(old) >= 1
  BY <1>1, FileOnDisk
<1>3. PICK doc \in Documents : Save([x \in {f} |-> doc]) /\ NamesIn(doc) \subseteq NamesIn(old)
  <2>1. CASE \E at \in 2..(Len(old) + 1), n \in FreshNotes :
                LET doc == Paste(old, at, <<Entry(1, n, None)>>)
                IN  Fits(doc) /\ Save([x \in {f} |-> doc])
    <3>1. PICK at \in 2..(Len(old) + 1), n \in FreshNotes :
            /\ Fits(Paste(old, at, <<Entry(1, n, None)>>))
            /\ Save([x \in {f} |-> Paste(old, at, <<Entry(1, n, None)>>)])
      BY <2>1
    <3> DEFINE e == Entry(1, n, None)
               h == <<e>>
               doc == Paste(old, at, h)
    <3>2. e \in Entries /\ e.level >= 1 /\ e.note = n /\ e.id = None
      BY DEF Entry, Entries, FreshNotes
    <3>3. h \in Seq(Entries) /\ h \in Headings /\ Texts(h) = {<<n, None>>}
      <4>1. h \in Seq(Entries) /\ Len(h) = 1 /\ Texts(h) = {<<n, None>>} /\ h[1] = e
        BY <3>2, OneEntry
      <4>2. DOMAIN h = {1}
        OBVIOUS
      <4> QED BY <3>2, <4>1, <4>2 DEF Headings
    <3>4. Fits(doc) /\ Save([x \in {f} |-> doc])
      BY <3>1
    <3> HIDE DEF h, old
    <3>5. doc \in Shaped
      BY <1>2, <3>3, PasteIsShaped
    <3>6. Texts(doc) = Texts(old) \cup Texts(h)
      BY <1>2, <3>3, PasteEntries
    <3> HIDE DEF doc
    <3>7. NamesIn(doc) \subseteq NamesIn(old)
      BY <3>3, <3>6 DEF NamesIn
    <3> QED BY <3>4, <3>5, <3>7, FittingDocument
  <2>2. CASE \E i \in 2..Len(old) : Save([x \in {f} |-> Cut(old, i, i + 1)])
    <3>1. PICK i \in 2..Len(old) : Save([x \in {f} |-> Cut(old, i, i + 1)])
      BY <2>2
    <3> DEFINE doc == Cut(old, i, i + 1)
    <3>2. i \in 2..(Len(old) + 1) /\ i \in 1..(Len(old) + 1) /\ i + 1 \in i..(Len(old) + 1)
      BY <1>2
    <3>3. Save([x \in {f} |-> doc])
      BY <3>1
    <3> HIDE DEF old
    <3>4. doc \in Shaped
      BY <1>2, <3>2, CutIsShaped
    <3>5. /\ doc \in Seq(Entries) /\ Len(doc) = Len(old) - ((i + 1) - i)
          /\ \A k \in 1..Len(doc) : doc[k] = IF k < i THEN old[k] ELSE old[k + ((i + 1) - i)]
      BY <1>2, <3>2, CutEntries
    <3>6. Texts(old) = Texts(doc) \cup Texts(SubSeq(old, i, (i + 1) - 1))
      BY <1>2, <3>2, CutTexts, SMTT(30)
    <3> HIDE DEF doc
    <3>7. Fits(doc)
      <4>1. Len(old) <= MaxLines /\ \A k \in 1..Len(old) : old[k].level <= MaxLevel
        <5>1. /\ Len(old) <= MaxLines
              /\ \A k \in DOMAIN old : old[k].level \in 0..MaxLevel
          BY <1>2, DocumentIsShaped
        <5> QED BY <1>2, <5>1, LenProperties, WorkspaceAssumption
      <4>2. Len(doc) <= MaxLines /\ DOMAIN doc = 1..Len(doc) /\ Len(doc) = Len(old) - 1
        BY <1>2, <3>5, <4>1, LenProperties, IndexAssumption
      <4>3. ASSUME NEW k \in 1..Len(doc)
            PROVE  doc[k].level <= MaxLevel
        <5>1. k \in 1..Len(old) /\ k + ((i + 1) - i) \in 1..Len(old)
          BY <1>2, <4>2
        <5> QED BY <3>5, <4>1, <5>1
      <4> QED BY <4>2, <4>3 DEF Fits
    <3>8. NamesIn(doc) \subseteq NamesIn(old)
      BY <3>6 DEF NamesIn
    <3> QED BY <3>3, <3>4, <3>7, <3>8, FittingDocument
  <2>3. CASE Save([x \in {f} |-> Absent])
    <3>1. NamesIn(Absent) = {}
      BY DEF NamesIn, Texts, Absent
    <3> QED BY <2>3, <3>1, AbsentIsDocument
  <2> QED BY <1>1, <2>1, <2>2, <2>3
<1> DEFINE files == [x \in {f} |-> doc]
<1>4. files \in Shots
  <2>1. files \in [{f} -> Documents] /\ {f} \in SUBSET Files
    OBVIOUS
  <2> QED BY <2>1 DEF Shots
<1>5. DOMAIN files = {f} /\ files[f] = doc
  OBVIOUS
<1>6. Save(files)
  BY <1>3
<1> HIDE DEF files
<1>7. \A g \in DOMAIN files : \A name \in NamesIn(files[g]) :
          \E h \in Files : name \in NamesIn(disk[h])
  BY <1>3, <1>5
<1> QED BY <1>4, <1>6, <1>7, SaveKeeps

LEMMA RenameFileKeeps ==
    ASSUME IInv, RenameFile
    PROVE  IInv'
<1>1. PICK f \in Files, g \in Files :
        /\ Exists(f) /\ ~Exists(g)
        /\ Save([x \in {f, g} |-> IF x = f THEN Absent ELSE disk[f]])
  BY DEF RenameFile
<1> DEFINE files == [x \in {f, g} |-> IF x = f THEN Absent ELSE disk[f]]
<1>2. disk[f] \in Documents /\ Absent \in Documents
  BY AbsentIsDocument DEF IInv, Typed
<1>3. files \in Shots
  <2>1. files \in [{f, g} -> Documents] /\ {f, g} \in SUBSET Files
    BY <1>2
  <2> QED BY <2>1 DEF Shots
<1>4. DOMAIN files = {f, g} /\ \A x \in {f, g} : files[x] = Absent \/ files[x] = disk[f]
  OBVIOUS
<1>5. Save(files)
  BY <1>1
<1> HIDE DEF files
<1>6. NamesIn(Absent) = {}
  BY DEF NamesIn, Texts, Absent
<1>7. \A x \in DOMAIN files : \A name \in NamesIn(files[x]) :
          \E h \in Files : name \in NamesIn(disk[h])
  BY <1>4, <1>6
<1> QED BY <1>3, <1>5, <1>7, SaveKeeps

LEMMA StutterKeeps ==
    ASSUME IInv, UNCHANGED vars
    PROVE  IInv'
<1>1. disk' = disk /\ index' = index /\ op' = op /\ stale' = stale
  BY DEF vars
<1>2. Typed' /\ PhaseFits'
  BY <1>1 DEF IInv, Typed, PhaseFits
<1>3. TodoFits'
  BY <1>1 DEF IInv, TodoFits, Now, Anchors, Record
<1>4. Current'
  BY <1>1 DEF IInv, Current, Untold
<1>5. Sound(Way(op.todo), disk, stale, op.seen, op.writes, op.removals)'
  BY <1>1 DEF IInv
<1> QED BY <1>2, <1>3, <1>4, <1>5 DEF IInv

LEMMA StepInv == IInv /\ [Next]_vars => IInv'
<1> SUFFICES ASSUME IInv, [Next]_vars
             PROVE  IInv'
  OBVIOUS
<1>1. CASE Begin
  BY <1>1, HandlersKeep, SyncsKeep DEF Begin
<1>2. CASE PerformEdit
  BY <1>2, EditKeeps
<1>3. CASE Refuse \/ Miss \/ Fault
  BY <1>3, FailKeeps DEF Refuse, Miss, Fault
<1>4. CASE WriteFile
  BY <1>4, WriteKeeps
<1>5. CASE RemoveFile
  BY <1>5, RemoveFileKeeps
<1>6. CASE Unindex
  BY <1>6, UnindexKeeps
<1>7. CASE Scan
  BY <1>7, ScanKeeps
<1>8. CASE SyncRows
  BY <1>8, SyncRowsKeeps
<1>9. CASE Outside
  BY <1>9, SaveFileKeeps, RenameFileKeeps DEF Outside
<1>10. CASE UNCHANGED vars
  BY <1>10, StutterKeeps
<1> QED BY <1>1, <1>2, <1>3, <1>4, <1>5, <1>6, <1>7, <1>8, <1>9, <1>10 DEF Next, Engine

LEMMA AlwaysInv == Spec => []IInv
BY InitInv, StepInv, PTL DEF Spec

-----------------------------------------------------------------------------
(* What the invariant is for.                                              *)

(* An index of the desktop is well formed, and a request works on files and
   on documents of the program.                                            *)
THEOREM TypeCorrect == Spec => []TypeOK
<1>1. ASSUME IInv
      PROVE  TypeOK
  <2>1. /\ disk \in [Files -> Documents] /\ stale \subseteq Files /\ op \in Ops
        /\ Exact(index) /\ index.rows \in [Files -> Documents]
    BY <1>1 DEF IInv, Typed
  <2>2. \A f \in Files : IsDocument(disk[f]) /\ IsDocument(index.rows[f])
    BY <2>1 DEF Documents
  <2>3. index.back \in [Keys -> Nat] /\ index.fwd \in [Keys -> Nat]
    <3> DEFINE rows == index.rows
    <3>1. index.back = Backlinks(rows) /\ index.fwd = ForwardLinks(rows)
      BY <2>1 DEF Exact
    <3> HIDE DEF rows
    <3>2. ASSUME NEW k \in Keys
          PROVE  /\ Cardinality(Into(rows, k, LinkRows(rows))) \in Nat
                 /\ Cardinality(OutOf(rows, k, To(LinkRows(rows), Named(rows, Files)))) \in Nat
      <4>1. LinkRows(rows) \in SUBSET LinkRows(rows)
        OBVIOUS
      <4> QED BY <4>1, CountsAreNumbers
    <3> QED BY <3>1, <3>2 DEF Backlinks, ForwardLinks
  <2>4. /\ op.phase \in Phases /\ op.changed \subseteq Files /\ op.removed \subseteq Files
        /\ op.removals \subseteq Files /\ op.seen \in Shots /\ op.scan \in Shots
    BY <2>1 DEF Ops
  <2>5. DOMAIN op.seen \subseteq Files /\ DOMAIN op.scan \subseteq Files
    BY <2>4, ShotType
  <2>6. DOMAIN disk = Files /\ DOMAIN index.rows = Files
    BY <2>1
  <2> QED BY <2>1, <2>2, <2>3, <2>4, <2>5, <2>6 DEF TypeOK, Phases
<1> QED BY <1>1, AlwaysInv, PTL

(* sync.rs:72-84: the counts of the index are those of a fresh count in every
   state of a workspace of any size, whatever edits, saves by others, failed
   requests, deltas, rebuilds and prunings led to it.                        *)
THEOREM CountsStayExact == Spec => []CountsAreExact
<1>1. IInv => CountsAreExact
  BY DEF IInv, Typed, Exact, CountsAreExact
<1> QED BY <1>1, AlwaysInv, PTL

(* Every request that ends well leaves the index with what is on disk: no edit
   changes or removes a file that it does not name to the index.             *)
THEOREM IndexFollowsDisk == Spec => []FreshRowsMatchDisk
<1>1. IInv => FreshRowsMatchDisk
  BY RestingIndex DEF FreshRowsMatchDisk
<1> QED BY <1>1, AlwaysInv, PTL

(* A step of the engine changes one file at most, and only as its transaction
   has planned.                                                              *)
OneStep(f, doc) ==
    LET seen == op.seen IN
    /\ f \in DOMAIN seen /\ disk' = [disk EXCEPT ![f] = doc]
    /\ NotesIn(seen[f]) \subseteq NotesIn(doc) \cup NotesAt(seen, DOMAIN seen \ {f})
    /\ Way(op.todo) # "lands" /\ DOMAIN seen \cap stale = {} =>
          /\ Way(op.todo) = "rereads" \/
                NamesIn(seen[f]) \subseteq NamesIn(doc) \cup NamesAt(seen, DOMAIN seen \ {f})
          /\ \A name \in NamesIn(doc) \ NamesAt(seen, DOMAIN seen) :
                 name[2] \notin Named(disk, Files)

LEMMA EngineSteps ==
    ASSUME IInv, Engine
    PROVE  disk' = disk \/ \E f \in Files, doc \in Documents : OneStep(f, doc)
<1>1. CASE Begin
  BY <1>1 DEF Begin, Request, EnsureNodeId, UpdateNode, CaptureNode, EnsureFileNode,
              AppendHeading, AppendHeadingToNode, RefileSubtree, RefileRegion,
              ExtractSubtree, PromoteFile, DemoteFile, RewriteLinks, IndexFile, IndexRoot
<1>2. CASE PerformEdit
  BY <1>2, EditPlans DEF Transacts, Transact, FileIsThere
<1>3. CASE Refuse \/ Miss \/ Fault
  BY <1>3 DEF Refuse, Miss, Fault, Fail
<1>4. CASE Unindex \/ Scan
  BY <1>4 DEF Unindex, Scan
<1>5. CASE SyncRows
  BY <1>5 DEF SyncRows, Fail
<1>6. CASE WriteFile
  <2> DEFINE put == Head(op.writes)
  <2>1. op.phase = "writing" /\ op.writes # <<>> /\ disk' = [disk EXCEPT ![put.file] = put.doc]
    BY <1>6 DEF WriteFile
  <2>2. op.writes \in Seq(Puts) /\ Sound(Way(op.todo), disk, stale, op.seen, op.writes, op.removals)
        /\ op.seen \in Shots
    BY DEF IInv, Typed, Ops
  <2>3. put = op.writes[1] /\ Len(op.writes) > 0
    <3>1. Len(op.writes) \in Nat /\ Len(op.writes) # 0
      BY <2>1, <2>2, LenProperties
    <3> QED BY <2>1, <2>2, <3>1, HeadTailProperties
  <2>4. put \in Puts /\ put.file \in DOMAIN op.seen
    <3>1. WritesFit(op.seen, op.writes, op.removals)
      BY <2>2 DEF Sound
    <3>2. op.writes[1] \in Puts /\ op.writes[1].file \in DOMAIN op.seen \ op.removals
      BY <2>1, <2>2, <3>1, FirstWrite
    <3> QED BY <2>3, <3>2
  <2>5. NotesIn(op.seen[put.file]) \subseteq
            NotesIn(put.doc) \cup NotesAt(op.seen, DOMAIN op.seen \ {put.file})
    BY <2>2, <2>3 DEF Sound, NotesKept
  <2>6. Way(op.todo) # "lands" /\ DOMAIN op.seen \cap stale = {} =>
          /\ Way(op.todo) = "rereads" \/
                NamesIn(op.seen[put.file]) \subseteq
                    NamesIn(put.doc) \cup NamesAt(op.seen, DOMAIN op.seen \ {put.file})
          /\ \A name \in NamesIn(put.doc) \ NamesAt(op.seen, DOMAIN op.seen) :
                 name[2] \notin Named(disk, Files)
    BY <2>2, <2>3 DEF Sound, NamesKept
  <2>7. put.file \in Files /\ put.doc \in Documents
    BY <2>4 DEF Puts
  <2> HIDE DEF put
  <2>8. OneStep(put.file, put.doc)
    BY <2>1, <2>4, <2>5, <2>6 DEF OneStep
  <2> QED BY <2>7, <2>8
<1>7. CASE RemoveFile
  <2>1. PICK f \in op.removals : disk' = [disk EXCEPT ![f] = Absent] /\ op.writes = <<>>
    BY <1>7 DEF RemoveFile
  <2>2. Sound(Way(op.todo), disk, stale, op.seen, op.writes, op.removals) /\ op.removals \in SUBSET Files
    BY DEF IInv, Typed, Ops
  <2>3. f \in DOMAIN op.seen /\ f \in Files
    BY <2>2 DEF Sound, WritesFit
  <2>4. NotesIn(op.seen[f]) \subseteq NotesAt(op.seen, DOMAIN op.seen \ {f})
    BY <2>1, <2>2 DEF Sound, NotesKept
  <2>5. Way(op.todo) # "lands" /\ DOMAIN op.seen \cap stale = {} =>
          NamesIn(op.seen[f]) \subseteq NamesAt(op.seen, DOMAIN op.seen \ {f})
    BY <2>1, <2>2 DEF Sound, NamesKept
  <2>6. NamesIn(Absent) = {}
    BY DEF NamesIn, Texts, Absent
  <2>7. OneStep(f, Absent)
    BY <2>1, <2>3, <2>4, <2>5, <2>6 DEF OneStep
  <2> QED BY <2>3, <2>7, AbsentIsDocument
<1> QED BY <1>1, <1>2, <1>3, <1>4, <1>5, <1>6, <1>7 DEF Engine

(* The notes on disk are those of its files. *)
LEMMA NotesOnDisk ==
    ASSUME NEW files \in [Files -> Documents]
    PROVE  {n \in Notes : Holding(files, n) # {}} = UNION {NotesIn(files[f]) : f \in Files}
<1>0. \A f \in Files : /\ files[f] \in Seq(Entries) /\ Len(files[f]) <= MaxLines
                       /\ Len(files[f]) \in Nat /\ DOMAIN files[f] = 1..Len(files[f])
  BY DocumentIsShaped, LenProperties
<1>1. ASSUME NEW n \in Notes, Holding(files, n) # {}
      PROVE  \E f \in Files : n \in NotesIn(files[f])
  <2>1. PICK k \in Keys : k[2] <= Len(files[k[1]]) /\ files[k[1]][k[2]].note = n
    BY <1>1 DEF Holding
  <2> DEFINE f == k[1]
             i == k[2]
  <2>2. f \in Files /\ i \in 1..MaxLines
    BY DEF Keys
  <2> HIDE DEF f, i
  <2>3. i \in DOMAIN files[f] /\ files[f][i].note = n
    BY <1>0, <2>1, <2>2, IndexAssumption DEF f, i
  <2> DEFINE t == <<files[f][i].note, files[f][i].id>>
  <2>4. t \in Texts(files[f]) /\ t[1] = n
    BY <2>3 DEF Texts
  <2> HIDE DEF t
  <2>5. n \in NotesIn(files[f])
    BY <2>4, IndexAssumption DEF NotesIn
  <2> QED BY <2>2, <2>5
<1>2. ASSUME NEW f \in Files, NEW n \in NotesIn(files[f])
      PROVE  n \in Notes /\ Holding(files, n) # {}
  <2>1. PICK t \in Texts(files[f]) : n = t[1] /\ n # None
    BY DEF NotesIn
  <2>2. PICK i \in DOMAIN files[f] : t = <<files[f][i].note, files[f][i].id>>
    BY DEF Texts
  <2>3. files[f][i].note = n /\ i \in 1..MaxLines /\ i <= Len(files[f])
    BY <1>0, <2>1, <2>2, IndexAssumption
  <2>4. n \in Notes
    <3>1. files[f][i] \in Entries
      BY <1>0, ElementOfSeq
    <3> QED BY <2>1, <2>3, <3>1 DEF Entries
  <2> DEFINE k == <<f, i>>
  <2>5. k \in Keys /\ k[1] = f /\ k[2] = i
    BY <2>3 DEF Keys
  <2> HIDE DEF k
  <2>6. k \in Holding(files, n)
    BY <2>3, <2>5 DEF Holding
  <2> QED BY <2>4, <2>6
<1> QED BY <1>1, <1>2

(* What is seen of the files that nobody has changed is what is on disk. *)
LEMMA StepKeepsNotes ==
    ASSUME IInv, NEW f \in Files, NEW doc \in Documents, OneStep(f, doc), ~Overtaken
    PROVE  OnDisk \subseteq OnDisk'
<1> DEFINE after == disk'
           seen == op.seen
<1>1. disk \in [Files -> Documents] /\ seen \in Shots
  BY DEF IInv, Typed, Ops
<1>2. /\ after \in [Files -> Documents] /\ after[f] = doc
      /\ \A g \in Files : g # f => after[g] = disk[g]
  BY <1>1 DEF OneStep
<1>3. /\ f \in DOMAIN seen
      /\ NotesIn(seen[f]) \subseteq NotesIn(doc) \cup NotesAt(seen, DOMAIN seen \ {f})
  BY DEF OneStep
<1>4. DOMAIN seen \subseteq Files /\ \A g \in DOMAIN seen : seen[g] = disk[g]
  BY <1>1, ShotType DEF Overtaken
<1>5. OnDisk = UNION {NotesIn(disk[g]) : g \in Files}
  BY <1>1, NotesOnDisk DEF OnDisk
<1>6. OnDisk' = {n \in Notes : Holding(after, n) # {}}
  BY DEF OnDisk
<1> HIDE DEF after, seen
<1>7. OnDisk' = UNION {NotesIn(after[g]) : g \in Files}
  BY <1>2, <1>6, NotesOnDisk
<1>8. ASSUME NEW g \in Files, NEW n \in NotesIn(disk[g])
      PROVE  \E h \in Files : n \in NotesIn(after[h])
  <2>1. CASE g # f
    BY <1>2, <2>1
  <2>2. CASE g = f
    <3>1. n \in NotesIn(doc) \/ \E h \in DOMAIN seen \ {f} : n \in NotesIn(seen[h])
      BY <1>3, <1>4, <2>2 DEF NotesAt
    <3> QED BY <1>2, <1>4, <3>1
  <2> QED BY <2>1, <2>2
<1> QED BY <1>5, <1>7, <1>8

(* transaction.rs:14: in a workspace of any size, no step of an edit, and no
   crash or failure between two of them, takes the last copy of a note from
   disk, unless others changed a file under the hands of the edit.          *)
THEOREM NotesSurvive == Spec => NothingIsLost
<1>1. IInv /\ [Next]_vars => [Engine => OnDisk \subseteq OnDisk' \/ Overtaken]_vars
  <2> SUFFICES ASSUME IInv, Engine, ~Overtaken
               PROVE  OnDisk \subseteq OnDisk'
    OBVIOUS
  <2>1. CASE disk' = disk
    BY <2>1 DEF OnDisk, Holding
  <2>2. CASE \E f \in Files, doc \in Documents : OneStep(f, doc)
    BY <2>2, StepKeepsNotes
  <2> QED BY <2>1, <2>2, EngineSteps
<1> QED BY <1>1, AlwaysInv, PTL DEF Spec, NothingIsLost

LEMMA HoldersAre ==
    ASSUME NEW files \in [Files -> Documents], NEW i \in Ids, NEW n
    PROVE  n \in Holders(files, i) <=> \E f \in Files : <<n, i>> \in NamesIn(files[f])
<1>0. \A f \in Files : /\ files[f] \in Seq(Entries) /\ Len(files[f]) <= MaxLines
                       /\ Len(files[f]) \in Nat /\ DOMAIN files[f] = 1..Len(files[f])
  BY DocumentIsShaped, LenProperties
<1>1. i # None
  BY IndexAssumption
<1>2. ASSUME n \in Holders(files, i)
      PROVE  \E f \in Files : <<n, i>> \in NamesIn(files[f])
  <2>1. PICK k \in Keys : IdAt(files, k) = i /\ n = files[k[1]][k[2]].note
    BY <1>2 DEF Holders
  <2>2. k[1] \in Files /\ k[2] \in 1..MaxLines
    BY DEF Keys
  <2>3. k[2] \in DOMAIN files[k[1]] /\ files[k[1]][k[2]].id = i
    BY <1>0, <1>1, <2>1, <2>2, IndexAssumption DEF IdAt
  <2>4. <<n, i>> \in Texts(files[k[1]]) /\ <<n, i>>[2] = i
    BY <2>1, <2>3 DEF Texts
  <2> QED BY <1>1, <2>2, <2>4 DEF NamesIn
<1>3. ASSUME NEW f \in Files, <<n, i>> \in NamesIn(files[f])
      PROVE  n \in Holders(files, i)
  <2>1. PICK j \in DOMAIN files[f] : <<n, i>> = <<files[f][j].note, files[f][j].id>>
    BY <1>3 DEF NamesIn, Texts
  <2>2. files[f][j].note = n /\ files[f][j].id = i /\ j \in 1..MaxLines /\ j <= Len(files[f])
    BY <1>0, <2>1, IndexAssumption
  <2> DEFINE k == <<f, j>>
  <2>3. k \in Keys /\ k[1] = f /\ k[2] = j
    BY <2>2 DEF Keys
  <2> HIDE DEF k
  <2>4. IdAt(files, k) = i /\ files[k[1]][k[2]].note = n
    BY <2>2, <2>3 DEF IdAt
  <2> QED BY <2>3, <2>4 DEF Holders
<1> QED BY <1>2, <1>3

LEMMA StepKeepsNames ==
    ASSUME IInv, NEW f \in Files, NEW doc \in Documents, OneStep(f, doc),
           DOMAIN op.seen \cap stale = {}, ~Lands, NEW i \in Ids
    PROVE  /\ Holders(disk, i) # {} => Holders(disk', i) \subseteq Holders(disk, i)
           /\ Rereads \/ Holders(disk, i) \subseteq Holders(disk', i)
<1>0. Way(op.todo) # "lands" /\ (Way(op.todo) = "rereads" => Rereads)
  BY DEF Lands, Rereads, Elsewhere, Now, Way
<1> DEFINE after == disk'
           seen == op.seen
<1>1. disk \in [Files -> Documents] /\ seen \in Shots
  BY DEF IInv, Typed, Ops
<1>2. /\ after \in [Files -> Documents] /\ after[f] = doc
      /\ \A g \in Files : g # f => after[g] = disk[g]
  BY <1>1 DEF OneStep
<1>3. /\ f \in DOMAIN seen
      /\ Rereads \/
            NamesIn(seen[f]) \subseteq NamesIn(doc) \cup NamesAt(seen, DOMAIN seen \ {f})
      /\ \A name \in NamesIn(doc) \ NamesAt(seen, DOMAIN seen) :
             name[2] \notin Named(disk, Files)
  BY <1>0 DEF OneStep
<1>4. DOMAIN seen \subseteq Files /\ \A g \in DOMAIN seen : seen[g] = disk[g]
  <2>1. DOMAIN seen \subseteq Files \ stale
    BY <1>1, ShotType
  <2> QED BY <2>1 DEF IInv, Current
<1> HIDE DEF after, seen
<1>5. ASSUME ~Rereads, NEW n \in Holders(disk, i)
      PROVE  n \in Holders(after, i)
  <2>1. PICK g \in Files : <<n, i>> \in NamesIn(disk[g])
    BY <1>1, HoldersAre
  <2>2. \E h \in Files : <<n, i>> \in NamesIn(after[h])
    <3>1. CASE g # f
      BY <1>2, <2>1, <3>1
    <3>2. CASE g = f
      <4>1. \/ <<n, i>> \in NamesIn(doc)
            \/ \E h \in DOMAIN seen \ {f} : <<n, i>> \in NamesIn(seen[h])
        BY <1>3, <1>4, <1>5, <2>1, <3>2 DEF NamesAt
      <4> QED BY <1>2, <1>4, <4>1
    <3> QED BY <3>1, <3>2
  <2> QED BY <1>2, <2>2, HoldersAre
<1>6. ASSUME Holders(disk, i) # {}, NEW n \in Holders(after, i)
      PROVE  n \in Holders(disk, i)
  <2>1. PICK g \in Files : <<n, i>> \in NamesIn(after[g])
    BY <1>2, HoldersAre
  <2>2. i \in Named(disk, Files)
    <3>1. PICK m : m \in Holders(disk, i)
      BY <1>6
    <3>2. PICK h \in Files : <<m, i>> \in NamesIn(disk[h])
      BY <1>1, <3>1, HoldersAre
    <3>3. <<m, i>>[2] = i
      OBVIOUS
    <3>4. Named(disk, Files) = {name[2] : name \in UNION {NamesIn(disk[x]) : x \in Files}}
      BY <1>1, NamedIds
    <3> QED BY <3>2, <3>3, <3>4
  <2>3. \E h \in Files : <<n, i>> \in NamesIn(disk[h])
    <3>1. CASE g # f
      BY <1>2, <2>1, <3>1
    <3>2. CASE g = f
      <4>1. <<n, i>> \in NamesIn(doc) /\ <<n, i>>[2] = i
        BY <1>2, <2>1, <3>2
      <4>2. <<n, i>> \in NamesAt(seen, DOMAIN seen)
        BY <1>3, <2>2, <4>1
      <4>3. PICK h \in DOMAIN seen : <<n, i>> \in NamesIn(seen[h])
        BY <4>2 DEF NamesAt
      <4> QED BY <1>4, <4>3
    <3> QED BY <3>1, <3>2
  <2> QED BY <1>1, <2>3, HoldersAre
<1> QED BY <1>5, <1>6 DEF after

(* In a workspace of any size, a step of an edit whose files the index knew as
   they are does not hand the id of a note on disk to another, nor does it take
   it from the note, unless it promotes or demotes the file; regions refiled
   under a heading of their own file are left out.                           *)
THEOREM NamesSurvive == Spec => IdentityKept
<1>1. IInv /\ [Next]_vars =>
        [Engine /\ DOMAIN op.seen \cap stale = {} /\ ~Lands =>
            \A i \in Ids :
                LET was == Holders(disk, i)
                    now == Holders(disk', i)
                IN  /\ was # {} => now \subseteq was
                    /\ Rereads \/ \A n \in was : n \in OnDisk' => n \in now]_vars
  <2> SUFFICES ASSUME IInv, Engine, DOMAIN op.seen \cap stale = {}, ~Lands, NEW i \in Ids
               PROVE  /\ Holders(disk, i) # {} => Holders(disk', i) \subseteq Holders(disk, i)
                      /\ Rereads \/ Holders(disk, i) \subseteq Holders(disk', i)
    OBVIOUS
  <2>1. CASE disk' = disk
    BY <2>1
  <2>2. CASE \E f \in Files, doc \in Documents : OneStep(f, doc)
    BY <2>2, StepKeepsNames
  <2> QED BY <2>1, <2>2, EngineSteps
<1> QED BY <1>1, AlwaysInv, PTL DEF Spec, IdentityKept
=============================================================================
