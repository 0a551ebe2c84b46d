----------------------------- MODULE NamesProofs ----------------------------
(***************************************************************************)
(* Proofs about Names, for every map, every label and every specification: *)
(* what is read is the specification, the loop of names_resolve computes   *)
(* the meaning of the map, and on a map that lists every table and command *)
(* name once it never guesses.                                             *)
(***************************************************************************)
EXTENDS Names, FiniteSetTheorems, WellFoundedInduction, SequenceTheorems, TLAPS

-----------------------------------------------------------------------------
(* Positions *)

\* A nonempty set of naturals has a first one.
LEMMA FirstExists ==
  ASSUME NEW H \in SUBSET Nat, H # {}
  PROVE  \E j \in H : \A m \in H : j <= m
<1> DEFINE Less == {pair \in Nat \X Nat : pair[1] < pair[2]}
<1>1. IsWellFoundedOn(Less, Nat)
  BY NatLessThanWellFounded DEF OpToRel
<1>2. PICK j \in H : \A m \in H : <<m, j>> \notin Less
  <2> HIDE DEF Less
  <2> QED  BY <1>1, WFMin
<1>3. \A m, n \in Nat : <<m, n>> \notin Less => n <= m
  OBVIOUS
<1> HIDE DEF Less
<1> QED  BY <1>2, <1>3

\* And one of positions a last: the first when counted from the other end.
LEMMA LastExists ==
  ASSUME NEW n \in Nat, NEW H \in SUBSET (1 .. n), H # {}
  PROVE  \E j \in H : \A m \in H : m <= j
<1> DEFINE G == {n - j : j \in H}
<1>1. PICK g \in G : \A h \in G : g <= h
  <2>1. \A j \in H : n - j \in Nat
    OBVIOUS
  <2>2. G \in SUBSET Nat /\ G # {}
    BY <2>1
  <2> HIDE DEF G
  <2> QED  BY <2>2, FirstExists
<1>2. PICK j \in H : g = n - j
  OBVIOUS
<1>3. \A m \in H : n - j <= n - m /\ m \in 1 .. n /\ j \in 1 .. n
  BY <1>1, <1>2
<1> QED  BY <1>3


-----------------------------------------------------------------------------
(* Texts *)

\* Min and Max choose what they should.
LEMMA MinIs ==
  ASSUME NEW n \in Nat, NEW H \in SUBSET (1 .. n), H # {}
  PROVE  Min(H) \in H /\ \A j \in H : Min(H) <= j
<1>1. \E j \in H : \A m \in H : j <= m
  BY FirstExists
<1>2. QED
  BY <1>1 DEF Min

\* The greatest element of a finite set of positions.
LEMMA MaxIs ==
  ASSUME NEW n \in Nat, NEW H \in SUBSET (0 .. n), H # {}
  PROVE  Max(H) \in H /\ \A j \in H : j <= Max(H)
<1> DEFINE G == {j + 1 : j \in H}
<1>0. n + 1 \in Nat /\ \A m \in H : m \in Nat /\ m + 1 \in 1 .. n + 1
  <2>1. \A m \in 0 .. n : m \in Nat /\ m + 1 \in 1 .. n + 1
    OBVIOUS
  <2>2. QED
    BY <2>1
<1>1. G \in SUBSET (1 .. n + 1) /\ G # {} /\ n + 1 \in Nat
  BY <1>0
<1>2. PICK g \in G : \A k \in G : k <= g
  <2> HIDE DEF G
  <2>1. QED
    BY <1>1, LastExists
<1>3. PICK j \in H : g = j + 1
  OBVIOUS
<1>4. \A m \in H : m + 1 <= j + 1 /\ m \in Nat /\ j \in Nat
  BY <1>0, <1>2, <1>3
<1>5. \E x \in H : \A y \in H : x >= y
  BY <1>4
<1>6. Max(H) \in H /\ (\A y \in H : Max(H) >= y)
  BY <1>5 DEF Max
<1>7. QED
  BY <1>4, <1>6

\* Find stops at the first of cs, or after the text.
LEMMA FindIs ==
  ASSUME NEW s \in Seq(Chars), NEW k \in 1 .. Len(s) + 1, NEW cs
  PROVE  /\ Find(s, k, cs) \in k .. Len(s) + 1
         /\ Find(s, k, cs) <= Len(s) => s[Find(s, k, cs)] \in cs
         /\ \A j \in k .. Find(s, k, cs) - 1 : s[j] \notin cs
<1> DEFINE H == {j \in DOMAIN s : j >= k /\ s[j] \in cs} \cup {Len(s) + 1}
<1>1. H \in SUBSET (1 .. Len(s) + 1) /\ H # {} /\ Len(s) + 1 \in Nat
  OBVIOUS
<1>2. Min(H) \in H /\ \A j \in H : Min(H) <= j
  <2> HIDE DEF H
  <2>1. QED
    BY <1>1, MinIs
<1>3. Find(s, k, cs) = Min(H)
  BY DEF Find
<1>4. ASSUME NEW m \in Nat, m \in 1 .. Len(s) + 1, \A j \in H : m <= j
      PROVE  \A j \in k .. m - 1 : j \in DOMAIN s /\ s[j] \notin cs
  <2>1. \A j \in k .. m - 1 : j \in DOMAIN s /\ j \notin H
    BY <1>4, Len(s) \in Nat, DOMAIN s = 1 .. Len(s)
  <2>2. QED
    BY <2>1
<1>5. Min(H) \in Nat /\ Min(H) \in 1 .. Len(s) + 1
  BY <1>1, <1>2
<1>6. \A j \in k .. Min(H) - 1 : j \in DOMAIN s /\ s[j] \notin cs
  <2> HIDE DEF H
  <2>1. QED
    BY <1>2, <1>4, <1>5
<1>7. QED
  BY <1>2, <1>3, <1>5, <1>6

\* What Trim keeps is the text between the whitespace around it.
LEMMA TrimIs ==
  ASSUME NEW s \in Seq(Chars)
  PROVE  \E first \in 1 .. Len(s) + 1 : \E last \in first - 1 .. Len(s) :
           /\ Trim(s) = SubSeq(s, first, last)
           /\ \A j \in 1 .. first - 1 : s[j] \in Leading
           /\ \A j \in last + 1 .. Len(s) : s[j] \in Trailing
           /\ first <= last => s[first] \notin Leading /\ s[last] \notin Trailing
<1> DEFINE A == {j \in DOMAIN s : s[j] \notin Leading} \cup {Len(s) + 1}
           first == Min(A)
           B == {j \in first .. Len(s) : s[j] \notin Trailing} \cup {first - 1}
           last == Max(B)
<1>1. A \in SUBSET (1 .. Len(s) + 1) /\ A # {} /\ Len(s) \in Nat
      /\ Len(s) + 1 \in Nat
  OBVIOUS
<1>2. first \in A /\ \A j \in A : first <= j
  <2> HIDE DEF A
  <2>1. QED
    BY <1>1, MinIs
<1> HIDE DEF first
<1>3. first \in 1 .. Len(s) + 1 /\ \A j \in 1 .. first - 1 : s[j] \in Leading
  <2>1. first \in 1 .. Len(s) + 1
    BY <1>1, <1>2
  <2>2. \A j \in 1 .. first - 1 : j \in DOMAIN s /\ j \notin A
    BY <1>1, <1>2, <2>1
  <2>3. QED
    BY <2>1, <2>2
<1>4. B \in SUBSET (0 .. Len(s)) /\ B # {}
  BY <1>3
<1>5. last \in B /\ \A j \in B : j <= last
  <2> HIDE DEF B
  <2>1. QED
    BY <1>1, <1>4, MaxIs
<1> HIDE DEF last
<1>6. last \in first - 1 .. Len(s) /\ (first <= last => s[last] \notin Trailing)
  BY <1>3, <1>5
<1>7. \A j \in last + 1 .. Len(s) : s[j] \in Trailing
  <2>1. \A j \in last + 1 .. Len(s) : j \in first .. Len(s) /\ j \notin B
    BY <1>3, <1>5, <1>6
  <2>2. QED
    BY <2>1
<1>8. first <= last => s[first] \notin Leading
  BY <1>2, <1>3, <1>6
<1>9. Trim(s) = SubSeq(s, first, last)
  BY DEF Trim, first, last
<1>10. QED
  BY <1>3, <1>6, <1>7, <1>8, <1>9

\* A part of a text is a text.
LEMMA PartIs ==
  ASSUME NEW s \in Seq(Chars), NEW m \in Nat \ {0}, NEW n \in Int, n <= Len(s)
  PROVE  /\ SubSeq(s, m, n) \in Seq(Chars)
         /\ Len(SubSeq(s, m, n)) = IF m <= n THEN n - m + 1 ELSE 0
         /\ \A j \in 1 .. n - m + 1 : SubSeq(s, m, n)[j] = s[m + j - 1]
<1>1. \A j \in m .. n : s[j] \in Chars
  OBVIOUS
<1>2. QED
  BY <1>1, SubSeqProperties

\* What trim returns is of the type of what it is given.
LEMMA TrimType ==
  ASSUME NEW s \in Seq(Chars)
  PROVE  Trim(s) \in Seq(Chars)
<1>1. PICK first \in 1 .. Len(s) + 1 : \E last \in first - 1 .. Len(s) :
             Trim(s) = SubSeq(s, first, last)
  BY TrimIs
<1>2. PICK last \in first - 1 .. Len(s) : Trim(s) = SubSeq(s, first, last)
  BY <1>1
<1>3. first \in Nat \ {0} /\ last \in Int /\ last <= Len(s)
  OBVIOUS
<1>4. QED
  BY <1>2, <1>3, PartIs

-----------------------------------------------------------------------------
(* Types *)

\* A piece of the specification, its entry and the sides of the entry.
LEMMA PieceTypes ==
  ASSUME TypeOK, AtPiece
  PROVE  /\ PieceEnd \in p .. Len(spec) + 1
         /\ SubSeq(spec, p, PieceEnd - 1) \in Seq(Chars)
         /\ Entry \in Seq(Chars)
         /\ EqualsAt \in 1 .. Len(Entry) + 1
         /\ EqualsAt <= Len(Entry) => Table \in Seq(Chars) /\ Name \in Seq(Chars)
<1>1. spec \in Seq(Chars) /\ p \in 1 .. Len(spec) + 1 /\ Len(spec) \in Nat
  BY DEF TypeOK, AtPiece
<1>2. PieceEnd \in p .. Len(spec) + 1
  BY <1>1, FindIs DEF PieceEnd
<1>3. SubSeq(spec, p, PieceEnd - 1) \in Seq(Chars)
  BY <1>1, <1>2, PartIs
<1>4. Entry \in Seq(Chars)
  BY <1>3, TrimType DEF Entry
<1>5. EqualsAt \in 1 .. Len(Entry) + 1
  BY <1>4, FindIs, 1 \in 1 .. Len(Entry) + 1 DEF EqualsAt
<1>6. ASSUME EqualsAt <= Len(Entry)
      PROVE  Table \in Seq(Chars) /\ Name \in Seq(Chars)
  <2>1. SubSeq(Entry, 1, EqualsAt - 1) \in Seq(Chars)
    BY <1>4, <1>5, PartIs
  <2>2. SubSeq(Entry, EqualsAt + 1, Len(Entry)) \in Seq(Chars)
    BY <1>4, <1>5, PartIs
  <2>3. QED
    BY <2>1, <2>2, TrimType DEF Table, Name
<1>7. QED
  BY <1>2, <1>3, <1>4, <1>5, <1>6

\* Types hold in every reachable state.
THEOREM NamesTypeCorrect == Spec => []TypeOK
<1>1. Init => TypeOK
  BY NamesAssumption DEF Init, TypeOK
<1>2. TypeOK /\ [Next]_vars => TypeOK'
  <2> SUFFICES ASSUME TypeOK, [Next]_vars PROVE TypeOK'
    OBVIOUS
  <2> USE DEF TypeOK
  <2>1. CASE SkipBlank
    BY <2>1, PieceTypes DEF SkipBlank, AtPiece, scanVars
  <2>2. CASE AddEntry
    <3>1. [table |-> Table, name |-> Name] \in Entries
      BY <2>2, PieceTypes DEF AddEntry, AtPiece, WellFormed, Entries, Spellings
    <3>2. map' \in Seq(Entries)
      BY <2>2, <3>1 DEF AddEntry
    <3>3. QED
      BY <2>2, <3>2, PieceTypes DEF AddEntry, AtPiece, scanVars
  <2>3. CASE RejectEntry
    BY <2>3 DEF RejectEntry, scanVars
  <2>4. CASE FinishParse
    BY <2>4 DEF FinishParse, scanVars
  <2>5. CASE NoLabel
    BY <2>5 DEF NoLabel, Resolved
  <2>6. CASE ScanEntry
    <3>1. map[i] \in Entries
      BY <2>6 DEF ScanEntry
    <3>2. QED
      BY <2>6, <3>1 DEF ScanEntry
  <2>7. CASE Decide
    <3>1. label \in Spellings
      BY <2>7, NamesAssumption DEF Decide
    <3>2. result' \in [ok : BOOLEAN, table : Spellings \cup {NULL},
                                     name : Spellings \cup {NULL}]
      BY <2>7, <3>1 DEF Decide, Choice, Resolved, Rejected, Entries
    <3>3. QED
      BY <2>7, <3>2 DEF Decide
  <2>8. CASE UNCHANGED vars
    BY <2>8 DEF vars
  <2>9. QED
    BY <2>1, <2>2, <2>3, <2>4, <2>5, <2>6, <2>7, <2>8 DEF Next
<1>3. QED
  BY <1>1, <1>2, PTL DEF Spec

-----------------------------------------------------------------------------
(* The scan *)

\* The hits among the first i - 1 entries after one more entry is read.
LEMMA SeenStep ==
  ASSUME NEW hits, NEW m \in Seq(Entries), hits \subseteq DOMAIN m,
         NEW k \in 1 .. Len(m)
  PROVE  LastHit(m, hits \cap Seen(m, k + 1))
           = IF k \in hits THEN m[k] ELSE LastHit(m, hits \cap Seen(m, k))
<1> DEFINE before == hits \cap Seen(m, k)
           after  == hits \cap Seen(m, k + 1)
<1> USE DEF Seen
<1>1. CASE k \notin hits
  <2>1. after = before
    BY <1>1
  <2>2. QED
    BY <1>1, <2>1
<1>2. CASE k \in hits
  <2>1. k \in after /\ \A j \in after : j <= k
    BY <1>2
  <2>2. after \subseteq Nat
    OBVIOUS
  <2>3. (CHOOSE x \in after : \A j \in after : j <= x) = k
    <3>1. \A x \in after : (\A j \in after : j <= x) => x = k
      BY <2>1, <2>2
    <3>2. \E x \in after : \A j \in after : j <= x
      BY <2>1
    <3> HIDE DEF after
    <3>3. QED
      BY <3>1, <3>2
  <2>4. QED
    BY <1>2, <2>1, <2>3 DEF LastHit
<1>3. QED
  BY <1>1, <1>2

\* What the two cells of the scan say of the entries it has passed: an entry
\* in a cell is one of the hits, an empty cell means there was none.
CellInv(cell, hits) ==
  /\ cell = LastHit(map, hits \cap Seen(map, i))
  /\ cell = NULL => hits \cap Seen(map, i) = {}
  /\ cell # NULL => \E j \in hits \cap Seen(map, i) : cell = map[j]

ScanInv ==
  pc \in {"scan", "done"} =>
    /\ i <= Len(map) + 1
    /\ CellInv(asTable, TableHits(map, label))
    /\ CellInv(asName, NameHits(map, label))

DecideInv ==
  /\ pc = "parse" => i = 1 /\ asTable = NULL /\ asName = NULL
  /\ pc = "done" =>
       IF label = NULL THEN result = Resolved(NULL, NULL)
       ELSE i > Len(map) /\ result = Choice(label, asTable, asName)

IInv == ScanInv /\ DecideInv

\* IInv holds before the scan begins,
LEMMA InductiveInit == Init => IInv
BY DEF Init, IInv, ScanInv, DecideInv

\* and every step of the scan keeps it.
LEMMA InductiveStep == TypeOK /\ TypeOK' /\ IInv /\ [Next]_vars => IInv'
<1> SUFFICES ASSUME TypeOK, TypeOK', IInv, [Next]_vars PROVE IInv'
  OBVIOUS
<1>1. CASE SkipBlank
  BY <1>1 DEF SkipBlank, AtPiece, scanVars, IInv, ScanInv, DecideInv
<1>2. CASE AddEntry
  BY <1>2 DEF AddEntry, AtPiece, scanVars, IInv, ScanInv, DecideInv
<1>3. CASE RejectEntry
  BY <1>3 DEF RejectEntry, AtPiece, scanVars, IInv, ScanInv, DecideInv
<1>4. CASE FinishParse
  <2>1. i' = 1 /\ asTable' = NULL /\ asName' = NULL /\ pc' = "scan"
    BY <1>4 DEF FinishParse, scanVars, IInv, DecideInv
  <2>2. Seen(map, i)' = {}
    BY <2>1 DEF TypeOK, Seen
  <2>3. CellInv(asTable, TableHits(map, label))'
    BY <2>1, <2>2 DEF CellInv, LastHit
  <2>4. CellInv(asName, NameHits(map, label))'
    BY <2>1, <2>2 DEF CellInv, LastHit
  <2>5. QED
    BY <2>1, <2>3, <2>4 DEF IInv, ScanInv, DecideInv, TypeOK
<1>5. CASE NoLabel
  BY <1>5 DEF NoLabel, IInv, ScanInv, DecideInv, CellInv
<1>6. CASE ScanEntry
  <2>1. i \in 1 .. Len(map) /\ map \in Seq(Entries) /\ NULL \notin Entries
    BY <1>6, NamesAssumption DEF ScanEntry, TypeOK
  <2>2. map[i] # NULL /\ map[i] \in Entries
    BY <2>1
  <2>3. CellInv(asTable, TableHits(map, label))
        /\ CellInv(asName, NameHits(map, label))
    BY <1>6 DEF ScanEntry, IInv, ScanInv
  <2>4. ASSUME NEW hits, hits \subseteq DOMAIN map, NEW cell,
               CellInv(cell, hits)
        PROVE  LET new == IF i \in hits THEN map[i] ELSE cell IN
               /\ new = LastHit(map, hits \cap Seen(map, i + 1))
               /\ new = NULL => hits \cap Seen(map, i + 1) = {}
               /\ new # NULL => \E j \in hits \cap Seen(map, i + 1) : new = map[j]
    <3>1. LastHit(map, hits \cap Seen(map, i + 1))
            = IF i \in hits THEN map[i] ELSE LastHit(map, hits \cap Seen(map, i))
      BY <2>1, <2>4, SeenStep
    <3>2. CASE i \in hits
      BY <2>1, <2>2, <3>1, <3>2 DEF Seen
    <3>3. CASE i \notin hits
      <4>1. Seen(map, i + 1) \cap hits = Seen(map, i) \cap hits
        BY <2>1, <2>4, <3>3 DEF Seen
      <4>2. QED
        BY <2>4, <3>3, <4>1 DEF CellInv
    <3>4. QED
      BY <3>2, <3>3
  <2>5. CellInv(asTable, TableHits(map, label))'
    <3>1. TableHits(map, label) \subseteq DOMAIN map
          /\ (i \in TableHits(map, label) <=> map[i].table = label)
      BY <2>1 DEF TableHits
    <3>2. asTable' = IF i \in TableHits(map, label) THEN map[i] ELSE asTable
      BY <1>6, <3>1 DEF ScanEntry
    <3>3. i' = i + 1 /\ map' = map /\ label' = label
      BY <1>6 DEF ScanEntry
    <3>4. /\ asTable' = LastHit(map, TableHits(map, label) \cap Seen(map, i + 1))
          /\ asTable' = NULL => TableHits(map, label) \cap Seen(map, i + 1) = {}
          /\ asTable' # NULL =>
               \E j \in TableHits(map, label) \cap Seen(map, i + 1) :
                 asTable' = map[j]
      BY <2>3, <2>4, <3>1, <3>2
    <3>5. TableHits(map, label)' = TableHits(map, label)
          /\ Seen(map, i)' = Seen(map, i + 1)
      BY <3>3
    <3>6. QED
      BY <3>3, <3>4, <3>5 DEF CellInv
  <2>6. CellInv(asName, NameHits(map, label))'
    <3>1. NameHits(map, label) \subseteq DOMAIN map
          /\ (i \in NameHits(map, label) <=> map[i].name = label)
      BY <2>1 DEF NameHits
    <3>2. asName' = IF i \in NameHits(map, label) THEN map[i] ELSE asName
      BY <1>6, <3>1 DEF ScanEntry
    <3>3. i' = i + 1 /\ map' = map /\ label' = label
      BY <1>6 DEF ScanEntry
    <3>4. /\ asName' = LastHit(map, NameHits(map, label) \cap Seen(map, i + 1))
          /\ asName' = NULL => NameHits(map, label) \cap Seen(map, i + 1) = {}
          /\ asName' # NULL =>
               \E j \in NameHits(map, label) \cap Seen(map, i + 1) :
                 asName' = map[j]
      BY <2>3, <2>4, <3>1, <3>2
    <3>5. NameHits(map, label)' = NameHits(map, label)
          /\ Seen(map, i)' = Seen(map, i + 1)
      BY <3>3
    <3>6. QED
      BY <3>3, <3>4, <3>5 DEF CellInv
  <2>7. QED
    BY <1>6, <2>1, <2>5, <2>6 DEF ScanEntry, IInv, ScanInv, DecideInv
<1>7. CASE Decide
  BY <1>7 DEF Decide, IInv, ScanInv, DecideInv, CellInv
<1>8. CASE UNCHANGED vars
  BY <1>8 DEF vars, IInv, ScanInv, DecideInv, CellInv
<1>9. QED
  BY <1>1, <1>2, <1>3, <1>4, <1>5, <1>6, <1>7, <1>8 DEF Next

\* The loop of cypher_name_resolve holds, after each entry, the last entry seen
\* that matches as a table and the last that matches as a name, and what it
\* returns is chosen from the two.
THEOREM ScanInvariant == Spec => []IInv
<1>1. QED
  BY InductiveInit, InductiveStep, NamesTypeCorrect, PTL DEF Spec

-----------------------------------------------------------------------------
(* What the scan is for *)

\* At the end of the scan every entry has been seen.
LEMMA ScanComplete ==
  TypeOK /\ IInv /\ pc = "done" /\ label # NULL
    => /\ CellInv(asTable, TableHits(map, label))
       /\ CellInv(asName, NameHits(map, label))
       /\ Seen(map, i) = DOMAIN map
       /\ result = Choice(label, asTable, asName)
<1> SUFFICES ASSUME TypeOK, IInv, pc = "done", label # NULL
             PROVE  /\ CellInv(asTable, TableHits(map, label))
                    /\ CellInv(asName, NameHits(map, label))
                    /\ Seen(map, i) = DOMAIN map
                    /\ result = Choice(label, asTable, asName)
  OBVIOUS
<1>1. i > Len(map) /\ result = Choice(label, asTable, asName)
  BY DEF IInv, DecideInv
<1>2. Seen(map, i) = DOMAIN map
  <2>1. DOMAIN map = 1 .. Len(map) /\ Len(map) \in Nat /\ i \in Nat
    BY DEF TypeOK
  <2>2. \A j \in DOMAIN map : j < i
    BY <1>1, <2>1
  <2>3. QED
    BY <2>2 DEF Seen
<1>3. QED
  BY <1>1, <1>2 DEF IInv, ScanInv

\* names_resolve returns the meaning of the map, for any map and label.
THEOREM ResolveIsCorrect == Spec => []ResolveCorrect
<1>1. TypeOK /\ IInv => ResolveCorrect
  <2> SUFFICES ASSUME TypeOK, IInv, pc = "done"
               PROVE  result = Resolution(map, label)
    BY DEF ResolveCorrect
  <2>1. CASE label = NULL
    BY <2>1 DEF IInv, DecideInv, Resolution
  <2>2. CASE label # NULL
    <3>1. TableHits(map, label) \cap DOMAIN map = TableHits(map, label)
          /\ NameHits(map, label) \cap DOMAIN map = NameHits(map, label)
      BY DEF TableHits, NameHits
    <3>2. asTable = LastHit(map, TableHits(map, label))
          /\ asName = LastHit(map, NameHits(map, label))
      BY <2>2, <3>1, ScanComplete DEF CellInv
    <3>3. QED
      BY <2>2, <3>2, ScanComplete DEF Resolution
  <2>3. QED
    BY <2>1, <2>2
<1>2. QED
  BY <1>1, ScanInvariant, NamesTypeCorrect, PTL

\* names.h:14-20 for every map that lists each table and name once: the
\* answer is the only possible one, and a label two entries claim is rejected.
THEOREM ResolveNeverGuesses == Spec => []NeverGuesses
<1>1. TypeOK /\ IInv => NeverGuesses
  <2> SUFFICES ASSUME TypeOK, IInv, pc = "done", label # NULL, OneToOne(map)
               PROVE  NeverGuesses
    BY DEF NeverGuesses
  <2> DEFINE T == TableHits(map, label)
             N == NameHits(map, label)
             claims == {map[j] : j \in T \cup N}
  <2>1. T \subseteq DOMAIN map /\ N \subseteq DOMAIN map
    BY DEF TableHits, NameHits
  <2>2. result = Choice(label, asTable, asName)
    BY ScanComplete
  <2>3. (asTable = NULL => T = {})
        /\ (asTable # NULL => \E j \in T : asTable = map[j])
    BY <2>1, ScanComplete DEF CellInv
  <2>4. (asName = NULL => N = {})
        /\ (asName # NULL => \E j \in N : asName = map[j])
    BY <2>1, ScanComplete DEF CellInv
  <2>5. (\A j \in T : map[j] = asTable) /\ (\A j \in N : map[j] = asName)
    BY <2>1, <2>3, <2>4 DEF OneToOne, TableHits, NameHits
  <2>6. claims = (IF asTable = NULL THEN {} ELSE {asTable})
                   \cup (IF asName = NULL THEN {} ELSE {asName})
    BY <2>3, <2>4, <2>5
  <2> HIDE DEF claims, T, N
  <2>7. CASE claims = {}
    BY <2>2, <2>6, <2>7 DEF Choice, NeverGuesses, claims, T, N
  <2>8. CASE \E e \in claims : claims = {e}
    <3>1. PICK e \in claims : claims = {e}
      BY <2>8
    <3>2. result = Resolved(e.table, e.name)
      BY <2>2, <2>6, <3>1 DEF Choice
    <3>3. claims # {}
      BY <3>1
    <3>4. QED
      BY <2>8, <3>1, <3>2, <3>3 DEF NeverGuesses, claims, T, N
  <2>9. CASE claims # {} /\ ~\E e \in claims : claims = {e}
    <3>1. asTable # NULL /\ asName # NULL /\ asTable # asName
      BY <2>6, <2>9
    <3>2. result = Rejected
      BY <2>2, <3>1 DEF Choice
    <3>3. QED
      BY <2>9, <3>2 DEF NeverGuesses, claims, T, N
  <2>10. QED
    BY <2>7, <2>8, <2>9
<1>2. QED
  BY <1>1, ScanInvariant, NamesTypeCorrect, PTL
\* The cell of a reading with hits is one of them.
LEMMA LastHitIsHit ==
  ASSUME NEW m \in Seq(Entries), NEW H \in SUBSET DOMAIN m, H # {}
  PROVE  \E j \in H : LastHit(m, H) = m[j]
<1>1. DOMAIN m = 1 .. Len(m) /\ Len(m) \in Nat
  OBVIOUS
<1>2. \E j \in H : \A k \in H : k <= j
  BY <1>1, LastExists
<1>3. (CHOOSE j \in H : \A k \in H : k <= j) \in H
  BY <1>2
<1>4. QED
  BY <1>3 DEF LastHit

\* On a map that lists each table and name once, the cell of a reading is the
\* entry of any hit.
LEMMA OnlyHit ==
  ASSUME NEW m \in Seq(Entries), OneToOne(m), NEW s, NEW k \in DOMAIN m
  PROVE  /\ m[k].table = s => LastHit(m, TableHits(m, s)) = m[k]
         /\ m[k].name = s => LastHit(m, NameHits(m, s)) = m[k]
<1>1. TableHits(m, s) \in SUBSET DOMAIN m /\ NameHits(m, s) \in SUBSET DOMAIN m
  BY DEF TableHits, NameHits
<1>2. ASSUME m[k].table = s PROVE LastHit(m, TableHits(m, s)) = m[k]
  <2>1. TableHits(m, s) # {}
    BY <1>2 DEF TableHits
  <2>2. PICK j \in TableHits(m, s) : LastHit(m, TableHits(m, s)) = m[j]
    BY <1>1, <2>1, LastHitIsHit
  <2>3. QED
    BY <1>2, <2>2 DEF TableHits, OneToOne
<1>3. ASSUME m[k].name = s PROVE LastHit(m, NameHits(m, s)) = m[k]
  <2>1. NameHits(m, s) # {}
    BY <1>3 DEF NameHits
  <2>2. PICK j \in NameHits(m, s) : LastHit(m, NameHits(m, s)) = m[j]
    BY <1>1, <2>1, LastHitIsHit
  <2>3. QED
    BY <1>3, <2>2 DEF NameHits, OneToOne
<1>4. QED
  BY <1>2, <1>3

\* names.h:15-17 for every such map: either spelling of the entry that answered
\* a label has the same answer or is rejected.
THEOREM BothSpellingsAgree == Spec => []SpellingsAgree
<1>1. TypeOK /\ ResolveCorrect => SpellingsAgree
  <2> SUFFICES ASSUME TypeOK, result = Resolution(map, label), OneToOne(map),
                      result.ok, label # NULL, NEW s \in {result.table, result.name}
               PROVE  Resolution(map, s) \in {result, Rejected}
    BY DEF ResolveCorrect, SpellingsAgree
  <2> DEFINE T(x) == LastHit(map, TableHits(map, x))
             N(x) == LastHit(map, NameHits(map, x))
  <2>1. map \in Seq(Entries) /\ NULL \notin Entries /\ NULL \notin Spellings
        /\ label \in Spellings
    BY NamesAssumption DEF TypeOK
  <2>2. result = Choice(label, T(label), N(label))
    BY DEF Resolution
  <2>3. CASE T(label) = NULL /\ N(label) = NULL
    <3>1. result = Resolved(label, label)
      BY <2>2, <2>3 DEF Choice
    <3>2. s = label
      BY <3>1 DEF Resolved
    <3>3. QED
      BY <3>2
  <2>4. CASE T(label) # NULL \/ N(label) # NULL
    <3>1. PICK j \in DOMAIN map : result = Resolved(map[j].table, map[j].name)
      <4>1. \A H \in SUBSET DOMAIN map : LastHit(map, H) # NULL
              => \E j \in DOMAIN map : LastHit(map, H) = map[j]
        BY <2>1, LastHitIsHit DEF LastHit
      <4>2. TableHits(map, label) \in SUBSET DOMAIN map
            /\ NameHits(map, label) \in SUBSET DOMAIN map
        BY DEF TableHits, NameHits
      <4>3. T(label) # NULL => \E j \in DOMAIN map : T(label) = map[j]
        BY <4>1, <4>2
      <4>4. N(label) # NULL => \E j \in DOMAIN map : N(label) = map[j]
        BY <4>1, <4>2
      <4> HIDE DEF T, N
      <4>5. CASE T(label) # NULL
        <5>1. result = Resolved(T(label).table, T(label).name)
          BY <2>2, <4>5 DEF Choice, Rejected
        <5>2. QED
          BY <4>3, <4>5, <5>1
      <4>6. CASE T(label) = NULL /\ N(label) # NULL
        <5>1. result = Resolved(N(label).table, N(label).name)
          BY <2>2, <4>6 DEF Choice
        <5>2. QED
          BY <4>4, <4>6, <5>1
      <4>7. QED
        BY <2>4, <4>5, <4>6
    <3>2. map[j] \in Entries /\ map[j] # NULL
      BY <2>1
    <3>3. s # NULL /\ (s = map[j].table \/ s = map[j].name)
      BY <2>1, <3>1, <3>2 DEF Resolved, Entries
    <3>4. T(s) = map[j] \/ N(s) = map[j]
      BY <2>1, <3>3, OnlyHit
    <3>5. Resolution(map, s) = Choice(s, T(s), N(s))
      BY <3>3 DEF Resolution
    <3> HIDE DEF T, N
    <3>6. Choice(s, T(s), N(s)) \in {Resolved(map[j].table, map[j].name), Rejected}
      BY <3>2, <3>4 DEF Choice
    <3>7. QED
      BY <3>1, <3>5, <3>6
  <2>5. QED
    BY <2>3, <2>4
<1>2. QED
  BY <1>1, ResolveIsCorrect, NamesTypeCorrect, PTL

-----------------------------------------------------------------------------
(* What is read is the specification *)

\* trim takes off blanks, at both ends, and nothing else.
LEMMA TrimStrips ==
  ASSUME NEW s \in Seq(Chars)
  PROVE  Strips(s, Trim(s))
<1>1. PICK first \in 1 .. Len(s) + 1 : \E last \in first - 1 .. Len(s) :
             /\ Trim(s) = SubSeq(s, first, last)
             /\ \A j \in 1 .. first - 1 : s[j] \in Leading
             /\ \A j \in last + 1 .. Len(s) : s[j] \in Trailing
             /\ first <= last => s[first] \notin Leading /\ s[last] \notin Trailing
  BY TrimIs
<1>2. PICK last \in first - 1 .. Len(s) :
             /\ Trim(s) = SubSeq(s, first, last)
             /\ \A j \in 1 .. first - 1 : s[j] \in Leading
             /\ \A j \in last + 1 .. Len(s) : s[j] \in Trailing
             /\ first <= last => s[first] \notin Leading /\ s[last] \notin Trailing
  BY <1>1
<1> DEFINE t == SubSeq(s, first, last)
<1>3. first \in Nat \ {0} /\ last \in Int /\ last <= Len(s)
  OBVIOUS
<1>4. /\ t \in Seq(Chars) /\ Len(t) = IF first <= last THEN last - first + 1 ELSE 0
      /\ \A j \in 1 .. last - first + 1 : t[j] = s[first + j - 1]
  BY <1>3, PartIs
<1>5. ASSUME t # <<>>
      PROVE  t[1] \notin Leading /\ t[Len(t)] \notin Trailing
  <2>1. first <= last
    BY <1>3, <1>4, <1>5
  <2>2. t[1] = s[first] /\ t[Len(t)] = s[last]
    BY <1>3, <1>4, <2>1
  <2>3. QED
    BY <1>2, <2>1, <2>2
<1>6. QED
  BY <1>2, <1>5 DEF Strips

\* Whitespace around what is stripped does not matter.
LEMMA StripsMore ==
  ASSUME NEW s \in Seq(Chars), NEW lo \in 1 .. Len(s) + 1,
         NEW hi \in lo - 1 .. Len(s), NEW t, Strips(SubSeq(s, lo, hi), t),
         \A j \in 1 .. lo - 1 : s[j] \in Leading,
         \A j \in hi + 1 .. Len(s) : s[j] \in Trailing
  PROVE  Strips(s, t)
<1> DEFINE u == SubSeq(s, lo, hi)
<1>1. lo \in Nat \ {0} /\ hi \in Int /\ hi <= Len(s) /\ Len(s) \in Nat
  OBVIOUS
<1>2. /\ u \in Seq(Chars) /\ Len(u) = hi - lo + 1
      /\ \A j \in 1 .. hi - lo + 1 : u[j] = s[lo + j - 1]
  BY <1>1, PartIs
<1>3. PICK f \in 1 .. Len(u) + 1, l \in 0 .. Len(u) :
        /\ l >= f - 1 /\ t = SubSeq(u, f, l)
        /\ \A j \in 1 .. f - 1 : u[j] \in Leading
        /\ \A j \in l + 1 .. Len(u) : u[j] \in Trailing
        /\ t # <<>> => t[1] \notin Leading /\ t[Len(t)] \notin Trailing
  <2>1. PICK f \in 1 .. Len(u) + 1 : \E l \in f - 1 .. Len(u) :
        /\ t = SubSeq(u, f, l)
        /\ \A j \in 1 .. f - 1 : u[j] \in Leading
        /\ \A j \in l + 1 .. Len(u) : u[j] \in Trailing
        /\ t # <<>> => t[1] \notin Leading /\ t[Len(t)] \notin Trailing
    BY DEF Strips
  <2>2. PICK l \in f - 1 .. Len(u) :
        /\ t = SubSeq(u, f, l)
        /\ \A j \in 1 .. f - 1 : u[j] \in Leading
        /\ \A j \in l + 1 .. Len(u) : u[j] \in Trailing
        /\ t # <<>> => t[1] \notin Leading /\ t[Len(t)] \notin Trailing
    BY <2>1
  <2> HIDE DEF u
  <2>3. l \in 0 .. Len(u) /\ l >= f - 1
    BY <1>1, <1>2
  <2>4. QED
    BY <2>2, <2>3
<1> DEFINE first == lo + f - 1
           last == lo + l - 1
<1> HIDE DEF u
<1>4. first \in 1 .. Len(s) + 1 /\ last \in first - 1 .. Len(s)
  BY <1>1, <1>2, <1>3
<1>5. t = SubSeq(s, first, last)
  <2>1. /\ t \in Seq(Chars) /\ Len(t) = IF f <= l THEN l - f + 1 ELSE 0
        /\ \A j \in 1 .. l - f + 1 : t[j] = u[f + j - 1]
    <3>1. f \in Nat \ {0} /\ l \in Int /\ l <= Len(u)
      BY <1>2, <1>3, SMTT(30)
    <3>2. /\ SubSeq(u, f, l) \in Seq(Chars)
          /\ Len(SubSeq(u, f, l)) = IF f <= l THEN l - f + 1 ELSE 0
          /\ \A j \in 1 .. l - f + 1 : SubSeq(u, f, l)[j] = u[f + j - 1]
      BY <1>2, <3>1, PartIs
    <3>3. QED
      BY <1>3, <3>2
  <2>2. /\ SubSeq(s, first, last) \in Seq(Chars)
        /\ Len(SubSeq(s, first, last)) = IF first <= last THEN last - first + 1 ELSE 0
        /\ \A j \in 1 .. last - first + 1 : SubSeq(s, first, last)[j] = s[first + j - 1]
    <3>1. first \in Nat \ {0} /\ last \in Int /\ last <= Len(s)
      BY <1>1, <1>4
    <3> HIDE DEF first, last
    <3>2. QED
      BY <3>1, PartIs
  <2>3. Len(SubSeq(s, first, last)) = Len(t)
    BY <1>1, <1>3, <2>1, <2>2
  <2>4. \A j \in 1 .. Len(t) : t[j] = SubSeq(s, first, last)[j]
    <3>1. SUFFICES ASSUME NEW j \in 1 .. Len(t) PROVE t[j] = SubSeq(s, first, last)[j]
      OBVIOUS
    <3>2. f <= l /\ j \in 1 .. l - f + 1 /\ f + j - 1 \in 1 .. hi - lo + 1
      BY <1>1, <1>2, <1>3, <2>1
    <3>3. t[j] = s[lo + (f + j - 1) - 1]
      BY <1>2, <2>1, <3>2
    <3>4. SubSeq(s, first, last)[j] = s[first + j - 1]
      BY <1>3, <2>2, <3>2
    <3>5. lo + (f + j - 1) - 1 = first + j - 1
      BY <1>1, <1>3, <3>2
    <3>6. QED
      BY <3>3, <3>4, <3>5
  <2> HIDE DEF first, last
  <2>5. QED
    BY <2>1, <2>2, <2>3, <2>4, SeqEqual
<1>6. \A j \in 1 .. first - 1 : s[j] \in Leading
  <2>1. SUFFICES ASSUME NEW j \in 1 .. first - 1, ~(j < lo) PROVE s[j] \in Leading
    BY <1>1
  <2>2. j - lo + 1 \in 1 .. f - 1 /\ j - lo + 1 \in 1 .. hi - lo + 1
        /\ lo + (j - lo + 1) - 1 = j
    BY <1>1, <1>2, <1>3, <2>1
  <2>3. QED
    BY <1>2, <1>3, <2>2
<1>7. \A j \in last + 1 .. Len(s) : s[j] \in Trailing
  <2>1. SUFFICES ASSUME NEW j \in last + 1 .. Len(s), ~(j > hi) PROVE s[j] \in Trailing
    BY <1>1, <1>4
  <2>2. j - lo + 1 \in l + 1 .. Len(u) /\ j - lo + 1 \in 1 .. hi - lo + 1
        /\ lo + (j - lo + 1) - 1 = j
    BY <1>1, <1>2, <1>3, <2>1
  <2>3. QED
    BY <1>2, <1>3, <2>2
<1>8. QED
  BY <1>3, <1>4, <1>5, <1>6, <1>7 DEF Strips

\* The two sides parse_entry cuts from a trimmed piece are the sides of the
\* piece.
LEMMA SidesOfPiece ==
  ASSUME NEW s \in Seq(Chars),
         Find(Trim(s), 1, {"="}) <= Len(Trim(s))
  PROVE  LET e == Trim(s) q == Find(e, 1, {"="}) IN
         IsEntry(s, [table |-> Trim(SubSeq(e, 1, q - 1)),
                     name |-> Trim(SubSeq(e, q + 1, Len(e)))])
<1> DEFINE e == Trim(s)
           q == Find(e, 1, {"="})
<1>1. PICK first \in 1 .. Len(s) + 1 : \E last \in first - 1 .. Len(s) :
             /\ e = SubSeq(s, first, last)
             /\ \A j \in 1 .. first - 1 : s[j] \in Leading
             /\ \A j \in last + 1 .. Len(s) : s[j] \in Trailing
  BY TrimIs
<1>2. PICK last \in first - 1 .. Len(s) :
             /\ e = SubSeq(s, first, last)
             /\ \A j \in 1 .. first - 1 : s[j] \in Leading
             /\ \A j \in last + 1 .. Len(s) : s[j] \in Trailing
  BY <1>1
<1>3. first \in Nat \ {0} /\ last \in Int /\ last <= Len(s) /\ Len(s) \in Nat
  OBVIOUS
<1>4. /\ SubSeq(s, first, last) \in Seq(Chars)
      /\ Len(SubSeq(s, first, last)) = IF first <= last THEN last - first + 1 ELSE 0
      /\ \A j \in 1 .. last - first + 1 : SubSeq(s, first, last)[j] = s[first + j - 1]
  BY <1>3, PartIs
<1> HIDE DEF e
<1>5. /\ e \in Seq(Chars) /\ Len(e) = last - first + 1
      /\ \A j \in 1 .. Len(e) : e[j] = s[first + j - 1]
  BY <1>2, <1>3, <1>4
<1>6. /\ q \in 1 .. Len(e) /\ e[q] = "="
      /\ \A j \in 1 .. q - 1 : e[j] # "="
  <2>1. /\ q \in 1 .. Len(e) + 1 /\ (q <= Len(e) => e[q] \in {"="})
        /\ \A j \in 1 .. q - 1 : e[j] \notin {"="}
    BY <1>5, FindIs, 1 \in 1 .. Len(e) + 1
  <2>2. q <= Len(e)
    BY DEF e
  <2>3. QED
    BY <1>5, <2>1, <2>2
<1> DEFINE Q == first + q - 1
           left == SubSeq(s, 1, Q - 1)
           right == SubSeq(s, Q + 1, Len(s))
<1> HIDE DEF q
<1>7. Q \in first .. last /\ Q \in DOMAIN s /\ s[Q] = "="
  BY <1>3, <1>5, <1>6
<1>8. \A j \in 1 .. Q - 1 : s[j] # "="
  <2>1. SUFFICES ASSUME NEW j \in 1 .. Q - 1 PROVE s[j] # "="
    OBVIOUS
  <2>2. CASE j < first
    <3>1. j \in 1 .. first - 1
      BY <1>3, <1>7, <2>1, <2>2
    <3>2. s[j] \in Leading
      BY <1>2, <3>1
    <3>3. "=" \notin Leading
      BY DEF Leading
    <3>4. QED
      BY <3>2, <3>3
  <2>3. CASE j >= first
    <3>1. j - first + 1 \in 1 .. q - 1 /\ j - first + 1 \in 1 .. Len(e)
          /\ first + (j - first + 1) - 1 = j
      BY <1>3, <1>6, <2>1, <2>3
    <3>2. QED
      BY <1>5, <1>6, <3>1
  <2>4. QED
    BY <1>3, <2>1, <2>2, <2>3
<1>9. Strips(left, Trim(SubSeq(e, 1, q - 1)))
  <2>1. /\ left \in Seq(Chars) /\ Len(left) = Q - 1
        /\ \A j \in 1 .. Q - 1 : left[j] = s[j]
    BY <1>3, <1>7, PartIs
  <2>2. /\ SubSeq(e, 1, q - 1) \in Seq(Chars) /\ Len(SubSeq(e, 1, q - 1)) = q - 1
        /\ \A j \in 1 .. q - 1 : SubSeq(e, 1, q - 1)[j] = e[j]
    BY <1>5, <1>6, PartIs
  <2> HIDE DEF left
  <2>3. /\ SubSeq(left, first, Q - 1) \in Seq(Chars)
        /\ Len(SubSeq(left, first, Q - 1)) = q - 1
        /\ \A j \in 1 .. q - 1 : SubSeq(left, first, Q - 1)[j] = left[first + j - 1]
    <3>1. first \in Nat \ {0} /\ Q - 1 \in Int /\ Q - 1 <= Len(left)
      BY <1>3, <1>7, <2>1
    <3>2. Q - 1 - first + 1 = q - 1
      BY <1>3, <1>6
    <3>3. /\ SubSeq(left, first, Q - 1) \in Seq(Chars)
          /\ Len(SubSeq(left, first, Q - 1)) = IF first <= Q - 1 THEN Q - 1 - first + 1 ELSE 0
          /\ \A j \in 1 .. Q - 1 - first + 1 : SubSeq(left, first, Q - 1)[j] = left[first + j - 1]
      BY <2>1, <3>1, PartIs
    <3>4. QED
      BY <1>3, <1>6, <3>2, <3>3
  <2>4. SubSeq(e, 1, q - 1) = SubSeq(left, first, Q - 1)
    <3>1. \A j \in 1 .. q - 1 : SubSeq(e, 1, q - 1)[j] = SubSeq(left, first, Q - 1)[j]
      <4>1. SUFFICES ASSUME NEW j \in 1 .. q - 1
                     PROVE  e[j] = left[first + j - 1]
        BY <2>2, <2>3
      <4>2. j \in 1 .. Len(e) /\ first + j - 1 \in 1 .. Q - 1
        BY <1>3, <1>6
      <4>3. QED
        BY <1>5, <2>1, <4>2
    <3>2. QED
      BY <2>2, <2>3, <3>1, SeqEqual
  <2>5. Strips(SubSeq(left, first, Q - 1), Trim(SubSeq(e, 1, q - 1)))
    BY <2>2, <2>4, TrimStrips
  <2>6. first \in 1 .. Len(left) + 1 /\ Q - 1 \in first - 1 .. Len(left)
    BY <1>3, <1>7, <2>1
  <2>7. /\ \A j \in 1 .. first - 1 : left[j] \in Leading
        /\ \A j \in (Q - 1) + 1 .. Len(left) : left[j] \in Trailing
    <3>1. \A j \in 1 .. first - 1 : j \in 1 .. Q - 1
      BY <1>3, <1>7
    <3>2. (Q - 1) + 1 .. Len(left) = {}
      BY <1>3, <1>7, <2>1
    <3> HIDE DEF Q
    <3>3. QED
      BY <1>2, <2>1, <3>1, <3>2
  <2>8. QED
    BY <2>1, <2>5, <2>6, <2>7, StripsMore
<1>10. Strips(right, Trim(SubSeq(e, q + 1, Len(e))))
  <2>1. /\ right \in Seq(Chars) /\ Len(right) = Len(s) - Q
        /\ \A j \in 1 .. Len(s) - Q : right[j] = s[Q + j]
    <3>1. /\ right \in Seq(Chars)
          /\ Len(right) = IF Q + 1 <= Len(s) THEN Len(s) - (Q + 1) + 1 ELSE 0
          /\ \A j \in 1 .. Len(s) - (Q + 1) + 1 : right[j] = s[(Q + 1) + j - 1]
      BY <1>3, <1>7, PartIs
    <3>2. Q \in Nat /\ Q <= Len(s)
      BY <1>3, <1>7
    <3> HIDE DEF right, Q
    <3>3. QED
      BY <1>3, <3>1, <3>2
  <2>2. /\ SubSeq(e, q + 1, Len(e)) \in Seq(Chars)
        /\ Len(SubSeq(e, q + 1, Len(e))) = Len(e) - q
        /\ \A j \in 1 .. Len(e) - q : SubSeq(e, q + 1, Len(e))[j] = e[q + j]
    <3>1. /\ SubSeq(e, q + 1, Len(e)) \in Seq(Chars)
          /\ Len(SubSeq(e, q + 1, Len(e))) =
                IF q + 1 <= Len(e) THEN Len(e) - (q + 1) + 1 ELSE 0
          /\ \A j \in 1 .. Len(e) - (q + 1) + 1 :
               SubSeq(e, q + 1, Len(e))[j] = e[(q + 1) + j - 1]
      BY <1>5, <1>6, PartIs
    <3>2. QED
      BY <1>5, <1>6, <3>1
  <2> HIDE DEF right
  <2>3. /\ SubSeq(right, 1, last - Q) \in Seq(Chars)
        /\ Len(SubSeq(right, 1, last - Q)) = Len(e) - q
        /\ \A j \in 1 .. Len(e) - q : SubSeq(right, 1, last - Q)[j] = right[j]
    <3>1. last - Q \in Nat /\ last - Q <= Len(right) /\ last - Q = Len(e) - q
      BY <1>3, <1>5, <1>6, <1>7, <2>1
    <3> HIDE DEF Q
    <3>2. /\ SubSeq(right, 1, last - Q) \in Seq(Chars)
          /\ Len(SubSeq(right, 1, last - Q)) = IF 1 <= last - Q THEN last - Q - 1 + 1 ELSE 0
          /\ \A j \in 1 .. last - Q - 1 + 1 : SubSeq(right, 1, last - Q)[j] = right[1 + j - 1]
      BY <2>1, <3>1, PartIs
    <3>3. QED
      BY <3>1, <3>2
  <2>4. SubSeq(e, q + 1, Len(e)) = SubSeq(right, 1, last - Q)
    <3>1. \A j \in 1 .. Len(e) - q :
            SubSeq(e, q + 1, Len(e))[j] = SubSeq(right, 1, last - Q)[j]
      <4>1. SUFFICES ASSUME NEW j \in 1 .. Len(e) - q PROVE e[q + j] = right[j]
        BY <2>2, <2>3
      <4>2. q + j \in 1 .. Len(e) /\ j \in 1 .. Len(s) - Q
            /\ first + (q + j) - 1 = Q + j
        BY <1>3, <1>5, <1>6
      <4>3. QED
        BY <1>5, <2>1, <4>2
    <3>2. QED
      BY <2>2, <2>3, <3>1, SeqEqual
  <2>5. Strips(SubSeq(right, 1, last - Q), Trim(SubSeq(e, q + 1, Len(e))))
    BY <2>2, <2>4, TrimStrips
  <2>6. 1 \in 1 .. Len(right) + 1 /\ last - Q \in 1 - 1 .. Len(right)
    BY <1>3, <1>7, <2>1
  <2>7. /\ \A j \in 1 .. 1 - 1 : right[j] \in Leading
        /\ \A j \in (last - Q) + 1 .. Len(right) : right[j] \in Trailing
    <3>1. \A j \in (last - Q) + 1 .. Len(right) :
            Q + j \in last + 1 .. Len(s) /\ j \in 1 .. Len(s) - Q
      BY <1>3, <1>7, <2>1, SMTT(30)
    <3>2. QED
      BY <1>2, <2>1, <3>1
  <2>8. QED
    BY <2>1, <2>5, <2>6, <2>7, StripsMore
<1>11. QED
  <2>1. IsEntry(s, [table |-> Trim(SubSeq(e, 1, q - 1)),
                    name |-> Trim(SubSeq(e, q + 1, Len(e)))])
    <3> HIDE DEF Q
    <3>1. QED
      BY <1>7, <1>8, <1>9, <1>10 DEF IsEntry
  <2>2. QED
    BY <2>1 DEF e, q

\* Whatever is left of a text without its whitespace is the same; so text that
\* is not blank does not pass for blank.
LEMMA NotBlank ==
  ASSUME NEW s \in Seq(Chars), NEW t, Strips(s, t), t # <<>>
  PROVE  ~Strips(s, <<>>)
<1> SUFFICES ASSUME Strips(s, <<>>) PROVE FALSE
  OBVIOUS
<1>1. PICK f \in 1 .. Len(s) + 1 : \E l \in f - 1 .. Len(s) :
        /\ <<>> = SubSeq(s, f, l)
        /\ \A j \in 1 .. f - 1 : s[j] \in Leading
        /\ \A j \in l + 1 .. Len(s) : s[j] \in Trailing
  BY DEF Strips
<1>2. PICK l \in f - 1 .. Len(s) :
        /\ <<>> = SubSeq(s, f, l)
        /\ \A j \in 1 .. f - 1 : s[j] \in Leading
        /\ \A j \in l + 1 .. Len(s) : s[j] \in Trailing
  BY <1>1
<1>3. \A j \in f .. Len(s) : s[j] \in Trailing
  <2>1. f \in Nat \ {0} /\ l \in Int /\ l <= Len(s) /\ Len(s) \in Nat
    OBVIOUS
  <2>2. Len(SubSeq(s, f, l)) = IF f <= l THEN l - f + 1 ELSE 0
    BY <2>1, PartIs
  <2>3. Len(SubSeq(s, f, l)) = 0
    BY <1>2
  <2>4. l < f
    BY <2>1, <2>2, <2>3
  <2>5. \A j \in f .. Len(s) : j \in l + 1 .. Len(s)
    BY <2>1, <2>4
  <2> QED
    BY <1>2, <2>5
<1>4. PICK first \in 1 .. Len(s) + 1 : \E last \in first - 1 .. Len(s) :
        /\ t = SubSeq(s, first, last)
        /\ t[1] \notin Leading /\ t[Len(t)] \notin Trailing
  BY DEF Strips
<1>5. PICK last \in first - 1 .. Len(s) :
        /\ t = SubSeq(s, first, last)
        /\ t[1] \notin Leading /\ t[Len(t)] \notin Trailing
  BY <1>4
<1>6. first \in Nat \ {0} /\ last \in Int /\ last <= Len(s) /\ Len(s) \in Nat
  OBVIOUS
<1>7. /\ t \in Seq(Chars) /\ Len(t) = IF first <= last THEN last - first + 1 ELSE 0
      /\ \A j \in 1 .. last - first + 1 : t[j] = s[first + j - 1]
  BY <1>5, <1>6, PartIs
<1>8. first <= last
  <2>1. Len(t) # 0
    BY <1>7
  <2> QED
    BY <1>6, <1>7, <2>1
<1>9. t[1] = s[first] /\ t[Len(t)] = s[last]
  BY <1>6, <1>7, <1>8
<1>10. f <= first
  <2>1. \A j \in 1 .. f - 1 : s[j] \in Leading
    BY <1>2
  <2> QED
    BY <1>5, <1>6, <1>9, <2>1
<1>11. last \in f .. Len(s)
  BY <1>6, <1>8, <1>10
<1> QED
  BY <1>3, <1>5, <1>9, <1>11

\* An entry without "=" was cut from a piece without one.
LEMMA NoEquals ==
  ASSUME NEW s \in Seq(Chars), Find(Trim(s), 1, {"="}) > Len(Trim(s))
  PROVE  \A j \in DOMAIN s : s[j] # "="
<1> DEFINE e == Trim(s)
<1>1. PICK first \in 1 .. Len(s) + 1 : \E last \in first - 1 .. Len(s) :
             /\ e = SubSeq(s, first, last)
             /\ \A j \in 1 .. first - 1 : s[j] \in Leading
             /\ \A j \in last + 1 .. Len(s) : s[j] \in Trailing
  BY TrimIs
<1>2. PICK last \in first - 1 .. Len(s) :
             /\ e = SubSeq(s, first, last)
             /\ \A j \in 1 .. first - 1 : s[j] \in Leading
             /\ \A j \in last + 1 .. Len(s) : s[j] \in Trailing
  BY <1>1
<1>3. first \in Nat \ {0} /\ last \in Int /\ last <= Len(s) /\ Len(s) \in Nat
  OBVIOUS
<1>4. /\ e \in Seq(Chars) /\ Len(e) = IF first <= last THEN last - first + 1 ELSE 0
      /\ \A j \in 1 .. last - first + 1 : e[j] = s[first + j - 1]
  BY <1>2, <1>3, PartIs
<1>5. \A j \in 1 .. Len(e) : e[j] # "="
  <2>1. 1 \in 1 .. Len(e) + 1 /\ Len(e) \in Nat
    BY <1>4
  <2>2. /\ Find(e, 1, {"="}) \in 1 .. Len(e) + 1
        /\ \A j \in 1 .. Find(e, 1, {"="}) - 1 : e[j] \notin {"="}
    BY <1>4, <2>1, FindIs
  <2>3. Find(e, 1, {"="}) - 1 = Len(e)
    BY <2>1, <2>2
  <2> QED
    BY <2>2, <2>3
<1> HIDE DEF e
<1>6. ASSUME NEW j \in DOMAIN s PROVE s[j] # "="
  <2>1. "=" \notin Leading /\ "=" \notin Trailing
    BY DEF Leading, Trailing
  <2>2. j \in 1 .. Len(s)
    BY <1>6
  <2>3. CASE j < first
    BY <1>2, <1>3, <2>1, <2>2, <2>3
  <2>4. CASE j > last
    BY <1>2, <1>3, <2>1, <2>2, <2>4
  <2>5. CASE j \in first .. last
    <3>1. j - first + 1 \in 1 .. Len(e) /\ first + (j - first + 1) - 1 = j
          /\ j - first + 1 \in 1 .. last - first + 1
      BY <1>3, <1>4, <2>2, <2>5
    <3> QED
      BY <1>4, <1>5, <3>1
  <2> QED
    BY <1>3, <2>2, <2>3, <2>4, <2>5
<1> QED
  BY <1>6

\* What parse_entry rejects is malformed, whatever whitespace is around it.
LEMMA RejectsMalformed ==
  ASSUME NEW s \in Seq(Chars), Trim(s) # <<>>,
         LET e == Trim(s) q == Find(e, 1, {"="}) IN
         q <= Len(e) => \/ Trim(SubSeq(e, 1, q - 1)) = <<>>
                        \/ Trim(SubSeq(e, q + 1, Len(e))) = <<>>
  PROVE  Malformed(s)
<1> DEFINE e == Trim(s)
           q == Find(e, 1, {"="})
<1>1. ~Strips(s, <<>>)
  BY TrimStrips, NotBlank
<1>2. CASE q > Len(e)
  BY <1>1, <1>2, NoEquals DEF Malformed
<1>3. CASE q <= Len(e)
  <2> DEFINE r == [table |-> Trim(SubSeq(e, 1, q - 1)),
                   name |-> Trim(SubSeq(e, q + 1, Len(e)))]
  <2>1. IsEntry(s, r)
    BY <1>3, SidesOfPiece
  <2>2. r.table = <<>> \/ r.name = <<>>
    BY <1>3
  <2> HIDE DEF r
  <2>3. PICK g \in DOMAIN s :
          /\ s[g] = "=" /\ \A j \in 1 .. g - 1 : s[j] # "="
          /\ Strips(SubSeq(s, 1, g - 1), r.table)
          /\ Strips(SubSeq(s, g + 1, Len(s)), r.name)
    BY <2>1 DEF IsEntry
  <2>4. ASSUME NEW h \in DOMAIN s, s[h] = "=", \A j \in 1 .. h - 1 : s[j] # "="
        PROVE  h = g
    <3>1. h \in 1 .. Len(s) /\ g \in 1 .. Len(s) /\ Len(s) \in Nat
      BY <2>3, <2>4
    <3>2. ~(h < g) /\ ~(g < h)
      BY <2>3, <2>4, <3>1
    <3> QED
      BY <3>1, <3>2
  <2> QED
    BY <1>1, <2>2, <2>3, <2>4 DEF Malformed
<1> QED
  <2>1. q \in 1 .. Len(e) + 1 /\ Len(e) \in Nat
    <3>1. e \in Seq(Chars)
      BY TrimType
    <3>2. Len(e) \in Nat /\ 1 \in 1 .. Len(e) + 1
      BY <3>1
    <3> QED
      BY <3>1, <3>2, FindIs
  <2> QED
    BY <1>2, <1>3, <2>1

\* What has been read when the piece at p is next: every piece before it is an
\* entry of the map or blank.
Reads(at, upto) ==
  /\ \A j, k \in DOMAIN map : j < k => at[j] < at[k]
  /\ \A j \in DOMAIN map :
       /\ at[j] < upto
       /\ IsEntry(PieceAt(at[j]), map[j]) /\ map[j] \in Entries
  /\ \A a \in Starts : a < upto /\ (\A j \in DOMAIN map : at[j] # a)
       => Strips(PieceAt(a), <<>>)
ParseInv ==
  pc = "parse" =>
    /\ p \in Starts \/ p > Len(spec)
    /\ \E at \in [DOMAIN map -> Starts] : Reads(at, p)

\* The next piece starts after the separator, and none between.
LEMMA NextPiece ==
  ASSUME TypeOK, AtPiece, p \in Starts
  PROVE  /\ PieceEnd + 1 \in Nat /\ p < PieceEnd + 1
         /\ PieceEnd + 1 \in Starts \/ PieceEnd + 1 > Len(spec)
         /\ \A a \in Starts : a < PieceEnd + 1 => a <= p
         /\ SubSeq(spec, p, PieceEnd - 1) = PieceAt(p)
<1>1. spec \in Seq(Chars) /\ p \in 1 .. Len(spec) + 1 /\ Len(spec) \in Nat
      /\ p <= Len(spec) /\ DOMAIN spec = 1 .. Len(spec)
  BY DEF TypeOK, AtPiece
<1>2. /\ PieceEnd \in p .. Len(spec) + 1
      /\ PieceEnd <= Len(spec) => spec[PieceEnd] \in Separators
      /\ \A j \in p .. PieceEnd - 1 : spec[j] \notin Separators
  BY <1>1, FindIs DEF PieceEnd
<1>3. ASSUME PieceEnd + 1 <= Len(spec)
      PROVE  PieceEnd + 1 \in Starts
  <2>1. PieceEnd + 1 \in DOMAIN spec /\ (PieceEnd + 1) - 1 = PieceEnd
        /\ PieceEnd <= Len(spec)
    BY <1>1, <1>2, <1>3
  <2>2. QED
    BY <1>2, <2>1 DEF Starts
<1>4. ASSUME NEW a \in Starts, a < PieceEnd + 1, ~(a <= p)
      PROVE  FALSE
  <2>1. a \in 1 .. Len(spec) /\ (a = 1 \/ spec[a - 1] \in Separators)
    BY <1>1 DEF Starts
  <2>2. a - 1 \in p .. PieceEnd - 1 /\ a # 1
    BY <1>1, <1>2, <1>4, <2>1
  <2>3. QED
    BY <1>2, <2>1, <2>2
<1>5. SubSeq(spec, p, PieceEnd - 1) = PieceAt(p)
  BY DEF PieceAt, PieceEnd
<1>6. QED
  BY <1>1, <1>2, <1>3, <1>4, <1>5

\* Every step of the parse keeps what ties the map to the pieces read so far.
LEMMA ParseStep ==
  TypeOK /\ ParseInv /\ MapIsSpec /\ [Next]_vars => ParseInv' /\ MapIsSpec'
<1> SUFFICES ASSUME TypeOK, ParseInv, MapIsSpec, [Next]_vars
             PROVE  ParseInv' /\ MapIsSpec'
  OBVIOUS
<1>1. CASE SkipBlank
  <2>1. pc = "parse" /\ AtPiece /\ p \in Starts
    BY <1>1 DEF SkipBlank, AtPiece, ParseInv, TypeOK, Starts
  <2>2. pc' = pc /\ spec' = spec /\ map' = map /\ p' = PieceEnd + 1
        /\ Entry = <<>>
    BY <1>1 DEF SkipBlank
  <2>3. PICK at \in [DOMAIN map -> Starts] : Reads(at, p)
    BY <2>1 DEF ParseInv
  <2>4. Strips(PieceAt(p), <<>>)
    BY <2>1, <2>2, NextPiece, PieceTypes, TrimStrips DEF Entry
  <2>5. Reads(at, PieceEnd + 1)
    <3>1. \A j \in DOMAIN map : at[j] < PieceEnd + 1
      <4>1. \A j \in DOMAIN map : at[j] \in Starts /\ at[j] < p
        BY <2>3 DEF Reads
      <4>2. \A a \in Starts : a \in Nat
        BY DEF TypeOK, Starts
      <4>3. QED
        BY <2>1, <4>1, <4>2, NextPiece
    <3>2. ASSUME NEW a \in Starts, a < PieceEnd + 1, \A j \in DOMAIN map : at[j] # a
          PROVE  Strips(PieceAt(a), <<>>)
      <4>1. a < p \/ a = p
        BY <2>1, <3>2, NextPiece, a \in Nat, p \in Nat DEF TypeOK, Starts
      <4>2. QED
        BY <2>3, <2>4, <3>2, <4>1 DEF Reads
    <3>3. QED
      BY <2>3, <3>1, <3>2 DEF Reads
  <2>6. Starts' = Starts /\ (\A a : PieceAt(a)' = PieceAt(a))
    BY <2>2 DEF Starts, PieceAt
  <2>7. Reads(at, p)'
    BY <2>2, <2>5, <2>6 DEF Reads
  <2>8. ParseInv'
    BY <2>1, <2>2, <2>3, <2>6, <2>7, NextPiece DEF ParseInv
  <2>9. QED
    BY <2>1, <2>2, <2>8 DEF MapIsSpec
<1>2. CASE AddEntry
  <2>1. pc = "parse" /\ AtPiece /\ p \in Starts
    BY <1>2 DEF AddEntry, AtPiece, ParseInv, TypeOK, Starts
  <2> DEFINE new == [table |-> Table, name |-> Name]
             n == Len(map)
  <2>2. pc' = pc /\ spec' = spec /\ map' = Append(map, new) /\ p' = PieceEnd + 1
        /\ WellFormed
    BY <1>2 DEF AddEntry
  <2>3. PICK at \in [DOMAIN map -> Starts] : Reads(at, p)
    BY <2>1 DEF ParseInv
  <2>4. new \in Entries
    BY <2>1, <2>2, PieceTypes DEF WellFormed, Entries, Spellings
  <2>5. IsEntry(PieceAt(p), new)
    <3>1. EqualsAt <= Len(Entry)
      BY <2>2 DEF WellFormed
    <3>2. PieceAt(p) \in Seq(Chars) /\ Entry = Trim(PieceAt(p))
      BY <2>1, NextPiece, PieceTypes DEF Entry
    <3>3. EqualsAt = Find(Trim(PieceAt(p)), 1, {"="})
      BY <3>2 DEF EqualsAt
    <3>4. QED
      BY <3>1, <3>2, <3>3, SidesOfPiece DEF Table, Name
  <2> HIDE DEF new
  <2>6. /\ n \in Nat /\ DOMAIN map = 1 .. n /\ DOMAIN map' = 1 .. n + 1
        /\ map'[n + 1] = new /\ \A j \in 1 .. n : map'[j] = map[j]
    BY <2>2, <2>4 DEF TypeOK
  <2>7. PICK at2 \in [1 .. n + 1 -> Starts] :
          /\ at2[n + 1] = p
          /\ \A j \in 1 .. n : at2[j] = at[j] /\ at[j] \in Starts
    <3> DEFINE more == [j \in 1 .. n + 1 |-> IF j = n + 1 THEN p ELSE at[j]]
    <3>1. /\ more[n + 1] = p
          /\ \A j \in 1 .. n : more[j] = at[j] /\ at[j] \in Starts
      BY <2>3, <2>6
    <3>2. more \in [1 .. n + 1 -> Starts]
      BY <2>1, <2>3, <2>6
    <3>3. QED
      BY <3>1, <3>2
  <2>8. at2 \in [DOMAIN map' -> Starts]
    BY <2>6, <2>7
  <2> HIDE DEF n
  <2>9. Starts' = Starts /\ (\A a : PieceAt(a)' = PieceAt(a))
    BY <2>2 DEF Starts, PieceAt
  <2>10. p \in Nat /\ PieceEnd + 1 \in Nat /\ p < PieceEnd + 1
         /\ \A a \in Starts : a \in Nat
    BY <2>1, NextPiece DEF TypeOK, Starts
  <2>11. \A j, k \in 1 .. n + 1 : j < k => at2[j] < at2[k]
    <3>1. SUFFICES ASSUME NEW j \in 1 .. n + 1, NEW k \in 1 .. n + 1, j < k
                   PROVE  at2[j] < at2[k]
      OBVIOUS
    <3>2. j \in 1 .. n /\ at2[j] = at[j] /\ at[j] < p
      BY <2>3, <2>6, <2>7, <3>1 DEF Reads
    <3>3. k = n + 1 \/ k \in 1 .. n
      BY <2>6
    <3>4. QED
      BY <2>3, <2>6, <2>7, <3>1, <3>2, <3>3 DEF Reads
  <2>12. \A j \in 1 .. n + 1 :
           /\ at2[j] < PieceEnd + 1
           /\ IsEntry(PieceAt(at2[j]), map'[j]) /\ map'[j] \in Entries
    <3>1. SUFFICES ASSUME NEW j \in 1 .. n + 1
                   PROVE /\ at2[j] < PieceEnd + 1
                         /\ IsEntry(PieceAt(at2[j]), map'[j]) /\ map'[j] \in Entries
      OBVIOUS
    <3>2. CASE j = n + 1
      BY <2>4, <2>5, <2>6, <2>7, <2>10, <3>2
    <3>3. CASE j \in 1 .. n
      <4>1. at2[j] = at[j] /\ map'[j] = map[j] /\ at[j] < p /\ at[j] \in Nat
            /\ IsEntry(PieceAt(at[j]), map[j]) /\ map[j] \in Entries
        BY <2>3, <2>6, <2>7, <2>10, <3>3 DEF Reads
      <4>2. QED
        BY <2>10, <4>1
    <3>4. QED
      BY <2>6, <3>2, <3>3
  <2>13. ASSUME NEW a \in Starts, a < PieceEnd + 1, \A j \in 1 .. n + 1 : at2[j] # a
         PROVE  Strips(PieceAt(a), <<>>)
    <3>1. a # p /\ \A j \in 1 .. n : at[j] # a
      BY <2>6, <2>7, <2>13
    <3>2. a < p
      BY <2>1, <2>10, <2>13, <3>1, NextPiece
    <3>3. QED
      BY <2>3, <2>6, <3>1, <3>2 DEF Reads
  <2>14. Reads(at2, p)'
    BY <2>2, <2>6, <2>9, <2>11, <2>12, <2>13 DEF Reads
  <2>15. p' \in Starts' \/ p' > Len(spec')
    BY <2>1, <2>2, <2>9, NextPiece
  <2>16. ParseInv'
    BY <2>6, <2>8, <2>9, <2>14, <2>15 DEF ParseInv
  <2>17. QED
    BY <2>1, <2>2, <2>16 DEF MapIsSpec
<1>3. CASE RejectEntry
  <2>1. pc = "parse" /\ AtPiece /\ p \in Starts /\ pc' = "rejected" /\ spec' = spec
        /\ Entry # <<>> /\ ~WellFormed
    BY <1>3 DEF RejectEntry, AtPiece, ParseInv, TypeOK, Starts
  <2>2. PieceAt(p) \in Seq(Chars) /\ Entry = Trim(PieceAt(p))
    BY <2>1, NextPiece, PieceTypes DEF Entry
  <2>3. EqualsAt = Find(Trim(PieceAt(p)), 1, {"="})
    BY <2>2 DEF EqualsAt
  <2>4. Malformed(PieceAt(p))
    BY <2>1, <2>2, <2>3, RejectsMalformed DEF WellFormed, Table, Name
  <2>5. Starts' = Starts
    BY <2>1 DEF Starts
  <2>6. \E a \in Starts' : Malformed(PieceAt(a)')
    BY <2>1, <2>4, <2>5 DEF PieceAt
  <2> QED
    BY <2>1, <2>6 DEF ParseInv, MapIsSpec
<1>4. CASE FinishParse
  <2>1. pc = "parse" /\ p > Len(spec) /\ pc' = "scan" /\ spec' = spec /\ map' = map
    BY <1>4 DEF FinishParse
  <2>2. PICK at \in [DOMAIN map -> Starts] : Reads(at, p)
    BY <2>1 DEF ParseInv
  <2>3. \A a \in Starts : a < p
    BY <2>1 DEF TypeOK, Starts
  <2>4. Starts' = Starts /\ (\A a : PieceAt(a)' = PieceAt(a))
    BY <2>1 DEF Starts, PieceAt
  <2>5. MapIsSpec'
    BY <2>1, <2>2, <2>3, <2>4 DEF MapIsSpec, Reads
  <2>6. QED
    BY <2>1, <2>5 DEF ParseInv
<1>5. CASE pc # "parse" /\ UNCHANGED <<spec, map>> /\ pc' # "parse"
           /\ (pc' \in {"scan", "done"} => pc \in {"scan", "done"})
           /\ (pc' = "rejected" => pc = "rejected")
  <2>1. Starts' = Starts /\ (\A a : PieceAt(a)' = PieceAt(a))
    BY <1>5 DEF Starts, PieceAt
  <2>2. QED
    BY <1>5, <2>1 DEF ParseInv, MapIsSpec
<1>6. CASE NoLabel \/ ScanEntry \/ Decide
  BY <1>5, <1>6 DEF NoLabel, ScanEntry, Decide
<1>7. CASE UNCHANGED vars
  <2>1. Starts' = Starts /\ (\A a : PieceAt(a)' = PieceAt(a))
    BY <1>7 DEF vars, Starts, PieceAt
  <2>2. UNCHANGED <<pc, spec, map, p>>
    BY <1>7 DEF vars
  <2>3. QED
    BY <2>1, <2>2 DEF ParseInv, MapIsSpec, Reads
<1>8. QED
  BY <1>1, <1>2, <1>3, <1>4, <1>6, <1>7 DEF Next

\* names.h:29-34 for every specification: a map that is used holds exactly the
\* entries written, trimmed, in their order, and all the rest was blank; one that
\* is rejected had a piece that is neither.
THEOREM MapIsTheSpec == Spec => []MapIsSpec
<1>1. Init => ParseInv /\ MapIsSpec
  <2> SUFFICES ASSUME Init PROVE ParseInv /\ MapIsSpec
    OBVIOUS
  <2>1. pc = "parse" /\ p = 1 /\ map = <<>> /\ spec \in Seq(Chars)
    BY NamesAssumption DEF Init
  <2>2. p \in Starts \/ p > Len(spec)
    BY <2>1 DEF Starts
  <2>3. Reads(<<>>, p) /\ <<>> \in [DOMAIN map -> Starts]
    <3>1. DOMAIN map = {}
      BY <2>1
    <3>2. <<>> \in [DOMAIN map -> Starts]
      BY <3>1
    <3>3. \A a \in Starts : ~(a < p)
      BY <2>1 DEF Starts
    <3>4. QED
      BY <3>1, <3>2, <3>3 DEF Reads
  <2>4. QED
    BY <2>1, <2>2, <2>3 DEF ParseInv, MapIsSpec
<1>2. QED
  BY <1>1, ParseStep, NamesTypeCorrect, PTL DEF Spec
=============================================================================
