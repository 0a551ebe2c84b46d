--------------------------- MODULE TransformProofs --------------------------
(***************************************************************************)
(* Proofs about transform_query, for every catalog, name map and set of    *)
(* queries: whatever engine a query is given, the bookkeeping keeps its    *)
(* types; the slots and anchors transform_general collects are what the    *)
(* rest of it takes them for; the ON clauses built from them make the      *)
(* relationships that meet at a slot meet at one node, no ON clause reads  *)
(* an item to the right of the one it joins, and of a query whose names    *)
(* mean one thing every reference reads the item it was resolved to.       *)
(***************************************************************************)
EXTENDS Transform, Translation, FiniteSetTheorems, WellFoundedInduction, SequenceTheorems, TLAPS

-----------------------------------------------------------------------------
(* Positions and recursion *)

\* A nonempty set of naturals has a first one.
LEMMA FirstExists ==
  ASSUME NEW H \in SUBSET Nat, H # {}
  PROVE  \E j \in H : \A m \in H : j <= m
<1> DEFINE Less == {pair \in Nat \X Nat : pair[1] < pair[2]}
<1>1. IsWellFoundedOn(Less, Nat)
  BY NatLessThanWellFounded DEF OpToRel
<1>2. PICK j \in H : \A m \in H : <<m, j>> \notin Less
  <2> HIDE DEF Less
  <2> QED  BY <1>1, WFMin
<1>3. \A m, n \in Nat : <<m, n>> \notin Less => n <= m
  OBVIOUS
<1> HIDE DEF Less
<1> QED  BY <1>2, <1>3

\* And one of positions a last: the first when counted from the other end.
LEMMA LastExists ==
  ASSUME NEW n \in Nat, NEW H \in SUBSET (1 .. n), H # {}
  PROVE  \E j \in H : \A m \in H : m <= j
<1> DEFINE G == {n - j : j \in H}
<1>1. PICK g \in G : \A h \in G : g <= h
  <2>1. \A j \in H : n - j \in Nat
    OBVIOUS
  <2>2. G \in SUBSET Nat /\ G # {}
    BY <2>1
  <2> HIDE DEF G
  <2> QED  BY <2>2, FirstExists
<1>2. PICK j \in H : g = n - j
  OBVIOUS
<1>3. \A m \in H : n - j <= n - m /\ m \in 1 .. n /\ j \in 1 .. n
  BY <1>1, <1>2
<1> QED  BY <1>3

\* Induction along positions: what holds of the first, and of each after one
\* of which it holds, holds of all.
LEMMA Induction ==
  ASSUME NEW n \in Nat, NEW S,
         n > 0 => 1 \in S,
         \A at \in 1 .. n - 1 : at \in S => at + 1 \in S
  PROVE  1 .. n \subseteq S
<1> SUFFICES ASSUME (1 .. n) \ S # {} PROVE FALSE
  OBVIOUS
<1>1. PICK j \in (1 .. n) \ S : \A m \in (1 .. n) \ S : j <= m
  <2>1. (1 .. n) \ S \in SUBSET Nat
    OBVIOUS
  <2> QED  BY <2>1, FirstExists
<1> QED  BY <1>1, j - 1 \in 0 .. n - 1, j - 1 \notin (1 .. n) \ S, j - 1 + 1 = j

\* Recursion: a rule G for the value at d, which looks at values of lower rank
\* only, is kept by some function.
IsRule(G, D, V, rank, N) ==
  /\ V # {} /\ N \in Nat /\ rank \in [D -> 1 .. N]
  /\ G \in [D \X [D -> V] -> V]
  /\ \A d \in D : \A f, h \in [D -> V] :
       (\A e \in D : rank[e] < rank[d] => f[e] = h[e]) => G[<<d, f>>] = G[<<d, h>>]
IsKept(G, D, V) == \E f \in [D -> V] : \A d \in D : f[d] = G[<<d, f>>]

\* What is defined by such a rule exists.
LEMMA Recursion ==
  \A G, D, V, rank, N : IsRule(G, D, V, rank, N) => IsKept(G, D, V)
<1> SUFFICES ASSUME NEW G, NEW D, NEW V, NEW rank, NEW N, IsRule(G, D, V, rank, N)
             PROVE  IsKept(G, D, V)
  OBVIOUS
<1> USE DEF IsRule
<1> DEFINE Kept(f, m) == \A d \in D : rank[d] <= m => f[d] = G[<<d, f>>]
           Missed == {m \in 0 .. N : ~ \E f \in [D -> V] : Kept(f, m)}
<1>1. ASSUME NEW m \in 0 .. N - 1, NEW f \in [D -> V], Kept(f, m)
      PROVE  \E h \in [D -> V] : Kept(h, m + 1)
  <2> DEFINE h == [d \in D |-> IF rank[d] <= m THEN f[d] ELSE G[<<d, f>>]]
  <2>1. /\ h \in [D -> V]
        /\ \A d \in D : rank[d] <= m => h[d] = f[d]
        /\ \A d \in D : rank[d] > m => h[d] = G[<<d, f>>]
        /\ \A d \in D : rank[d] \in 1 .. N
    OBVIOUS
  <2> HIDE DEF h
  <2>2. ASSUME NEW d \in D, rank[d] <= m + 1
        PROVE  h[d] = G[<<d, h>>]
    <3>1. \A e \in D : rank[e] < rank[d] => f[e] = h[e]
      BY <2>1, <2>2
    <3>2. G[<<d, f>>] = G[<<d, h>>]
      BY <2>1, <3>1
    <3> QED  BY <1>1, <2>1, <3>2
  <2> QED  BY <2>1, <2>2
<1>2. 0 \notin Missed
  <2>1. \A d \in D : ~(rank[d] <= 0)
    OBVIOUS
  <2>2. PICK v \in V : TRUE
    OBVIOUS
  <2>3. [d \in D |-> v] \in [D -> V]
    BY <2>2
  <2>4. \E f \in [D -> V] : Kept(f, 0)
    BY <2>1, <2>3
  <2> HIDE DEF Kept
  <2> QED  BY <2>4
<1>3. Missed = {}
  <2>1. SUFFICES ASSUME Missed # {} PROVE FALSE
    OBVIOUS
  <2>2. Missed \in SUBSET Nat
    OBVIOUS
  <2>3. PICK j \in Missed : \A m \in Missed : j <= m
    <3> HIDE DEF Missed
    <3> QED  BY <2>1, <2>2, FirstExists
  <2>4. j - 1 \in 0 .. N - 1 /\ j - 1 \notin Missed /\ j - 1 + 1 = j
    <3>1. j \in 1 .. N
      BY <1>2, <2>3
    <3>2. j - 1 \in 0 .. N - 1 /\ j - 1 + 1 = j /\ ~(j <= j - 1)
      BY <3>1
    <3> HIDE DEF Missed
    <3> QED  BY <2>3, <3>2
  <2> HIDE DEF Kept
  <2> QED  BY <1>1, <2>3, <2>4
<1>4. PICK f \in [D -> V] : Kept(f, N)
  <2> HIDE DEF Kept
  <2> QED  BY <1>3
<1> QED  BY <1>4 DEF IsKept


\* The entry a name map's scan is left with is an entry of the map.
LEMMA LastHitIsEntry ==
  ASSUME NEW E, NEW m \in Seq(E), NEW H \in SUBSET (DOMAIN m), H # {}
  PROVE  LastHit(m, H) \in E
<1>1. \E i \in H : \A j \in H : j <= i
  BY LastExists, Len(m) \in Nat, DOMAIN m = 1 .. Len(m)
<1>2. (CHOOSE i \in H : \A j \in H : j <= i) \in H
  BY <1>1
<1>3. QED
  BY <1>2 DEF LastHit

\* A label resolves to labels.
LEMMA ResolutionType ==
  ASSUME NEW label \in OrNull(Labels)
  PROVE  /\ Resolution(NameMap, label).table \in OrNull(Labels)
         /\ Resolution(NameMap, label).name \in OrNull(Labels)
<1> DEFINE E == [table : Labels, name : Labels]
           t == LastHit(NameMap, TableHits(NameMap, label))
           m == LastHit(NameMap, NameHits(NameMap, label))
<1>1. NameMap \in Seq(E)
  BY EmissionAssumption
<1>2. t = NULL \/ t \in E
  <2>1. CASE TableHits(NameMap, label) = {}
    BY <2>1 DEF LastHit
  <2>2. CASE TableHits(NameMap, label) # {}
    BY <1>1, <2>2, LastHitIsEntry DEF TableHits
  <2>3. QED
    BY <2>1, <2>2
<1>3. m = NULL \/ m \in E
  <2>1. CASE NameHits(NameMap, label) = {}
    BY <2>1 DEF LastHit
  <2>2. CASE NameHits(NameMap, label) # {}
    BY <1>1, <2>2, LastHitIsEntry DEF NameHits
  <2>3. QED
    BY <2>1, <2>2
<1>4. CASE label = NULL
  BY <1>4 DEF Resolution, Resolved, OrNull
<1>5. CASE label # NULL
  <2>1. Resolution(NameMap, label) = Choice(label, t, m)
    BY <1>5 DEF Resolution
  <2> HIDE DEF t, m
  <2>2. QED
    BY <1>2, <1>3, <1>5, <2>1 DEF Choice, Resolved, Rejected, OrNull
<1>6. QED
  BY <1>4, <1>5

-----------------------------------------------------------------------------
(* Collection *)

\* One slot for a variable, one for each anonymous occurrence.
UniqueIn(ss) ==
  \A i, j \in DOMAIN ss :
    /\ ss[i].var = ss[j].var
    /\ ss[i].var # NULL \/ ss[i].np = ss[j].np
    => i = j

\* Where the collection stands: a segment of its path, whose start has a slot.
Position ==
  pc \in {"dispatch", "collect"} =>
    /\ k > 0 => prev \in DOMAIN slots /\ pi <= Len(query.paths)
    /\ pi <= Len(query.paths) => k <= Len(query.paths[pi].segs)

\* The invariant of the slots ss and the relationships ee, part by part.
SidesIn(ss, ee) ==
  \A e \in DOMAIN ee, onTarget \in BOOLEAN :
    LET i == IF onTarget THEN ee[e].tgt ELSE ee[e].src IN
    i \in DOMAIN ss /\ ss[i].anchor \in 1 .. e
AnchorsIn(ss, ee) ==
  \A i \in DOMAIN ss :
    ss[i].anchor # 0 =>
      /\ ss[i].anchor \in DOMAIN ee
      /\ \/ /\ ss[i].onTarget = TRUE
            /\ ee[ss[i].anchor].tgt = i /\ ee[ss[i].anchor].src # i
         \/ ss[i].onTarget = FALSE /\ ee[ss[i].anchor].src = i

IInv ==
  /\ TypeOK /\ Position /\ UniqueIn(slots)
  /\ SidesIn(slots, edges) /\ AnchorsIn(slots, edges)

\* The parts are what the checked invariant says.
LEMMA IInvImplies == IInv => Anchored
<1> SUFFICES ASSUME IInv PROVE Anchored
  OBVIOUS
<1>1. \A i, j \in DOMAIN slots :
        slots[i].var # NULL /\ slots[i].var = slots[j].var => i = j
  BY DEF IInv, UniqueIn
<1>2. \A e \in DOMAIN edges, onTarget \in BOOLEAN :
        SlotOn(e, onTarget) \in DOMAIN slots
          /\ slots[SlotOn(e, onTarget)].anchor \in 1 .. e
  BY DEF IInv, SidesIn, SlotOn
<1>3. ASSUME NEW i \in DOMAIN slots, slots[i].anchor # 0
      PROVE  /\ slots[i].anchor \in DOMAIN edges
             /\ SlotOn(slots[i].anchor, slots[i].onTarget) = i
             /\ slots[i].onTarget => SlotOn(slots[i].anchor, FALSE) # i
  BY <1>3 DEF IInv, AnchorsIn, SlotOn
<1>4. QED
  BY <1>1, <1>2, <1>3 DEF Anchored

\* SlotIndex is the slot of the occurrence, or the next one if there is none.
LEMMA SlotIndexIs ==
  ASSUME TypeOK, UniqueIn(slots), NEW node \in NodePats, NEW np
  PROVE  /\ SlotIndex(node, np) \in 1 .. Len(slots) + 1
         /\ SlotIndex(node, np) <= Len(slots) =>
              Same(slots[SlotIndex(node, np)], node, np)
         /\ SlotIndex(node, np) = Len(slots) + 1 =>
              \A i \in DOMAIN slots : ~Same(slots[i], node, np)
<1> DEFINE H == Hits(node, np)
<1>0. Len(slots) \in Nat /\ DOMAIN slots = 1 .. Len(slots)
  BY DEF TypeOK
<1>1. CASE H = {}
  BY <1>0, <1>1 DEF SlotIndex, Hits
<1>2. CASE H # {}
  <2>1. PICK i \in H : TRUE
    BY <1>2
  <2>2. \A j \in H : j = i
    BY <2>1 DEF Hits, Same, UniqueIn
  <2>3. i \in 1 .. Len(slots) /\ Same(slots[i], node, np)
    BY <1>0, <2>1 DEF Hits
  <2>4. SlotIndex(node, np) = i
    <3>1. i \in H /\ \A j \in H : i <= j
      BY <2>1, <2>2, <2>3
    <3>2. \A x \in H : (\A j \in H : x <= j) => x = i
      BY <2>2
    <3> HIDE DEF H
    <3>3. (CHOOSE x \in H : \A j \in H : x <= j) = i
      BY <3>1, <3>2
    <3>4. QED
      BY <1>2, <3>3 DEF SlotIndex, H
  <2>5. QED
    BY <1>0, <2>3, <2>4
<1>3. QED
  BY <1>1, <1>2

\* Collecting an occurrence keeps the slots there are, up to a label, and the
\* occurrence has its slot afterwards; a slot that is new touches no edge.
Kept(s, t) ==
  t.var = s.var /\ t.np = s.np /\ t.anchor = s.anchor
    /\ t.onTarget = s.onTarget

GrownTo(ss) ==
  /\ ss \in Seq(SlotRecords)
  /\ DOMAIN slots \subseteq DOMAIN ss
  /\ UniqueIn(ss)
  /\ \A i \in DOMAIN slots : Kept(slots[i], ss[i])
  /\ \A i \in DOMAIN ss \ DOMAIN slots : ss[i].anchor = 0

\* Finding or adding the slot of a node grows the slots, and keeps them unique.
LEMMA SlotForIs ==
  ASSUME TypeOK, UniqueIn(slots), NEW node \in NodePats,
         NEW np \in Nat \X Nat
  PROVE  /\ GrownTo(SlotFor(node, np))
         /\ SlotIndex(node, np) \in DOMAIN SlotFor(node, np)
<1> DEFINE c == SlotIndex(node, np)
           ss == SlotFor(node, np)
<1>0. Len(slots) \in Nat /\ DOMAIN slots = 1 .. Len(slots)
        /\ slots \in Seq(SlotRecords) /\ c \in 1 .. Len(slots) + 1
  BY SlotIndexIs DEF TypeOK
<1>1. NewSlot(node, np) \in SlotRecords
  BY DEF NewSlot, SlotRecords, NodePats, OrNull
<1>2. CASE c = Len(slots) + 1
  <2>1. ss = Append(slots, NewSlot(node, np))
    BY <1>2 DEF SlotFor
  <2>2. ss \in Seq(SlotRecords) /\ Len(ss) = Len(slots) + 1
          /\ DOMAIN ss = 1 .. Len(slots) + 1
    BY <1>0, <1>1, <2>1, AppendProperties, LenProperties
  <2>3. \A i \in DOMAIN slots : ss[i] = slots[i]
    BY <1>0, <1>1, <2>1, AppendProperties
  <2>4. ss[c] = NewSlot(node, np)
    BY <1>0, <1>1, <1>2, <2>1, AppendProperties
  <2>5. \A i \in DOMAIN slots : ~Same(slots[i], node, np)
    BY <1>2, SlotIndexIs
  <2> HIDE DEF ss, c
  <2>6. \A i \in DOMAIN ss : i \in DOMAIN slots \/ i = c
    BY <1>0, <1>2, <2>2
  <2>7. ASSUME NEW i \in DOMAIN slots
        PROVE  /\ ~(ss[i].var = ss[c].var
                     /\ (ss[i].var # NULL \/ ss[i].np = ss[c].np))
               /\ ~(ss[i].var = ss[c].var
                     /\ (ss[c].var # NULL \/ ss[i].np = ss[c].np))
    BY <2>3, <2>4, <2>5 DEF Same, NewSlot
  <2>8. UniqueIn(ss)
    <3> SUFFICES ASSUME NEW i \in DOMAIN ss, NEW j \in DOMAIN ss,
                        ss[i].var = ss[j].var,
                        ss[i].var # NULL \/ ss[i].np = ss[j].np
                 PROVE  i = j
      BY DEF UniqueIn
    <3>1. CASE i \in DOMAIN slots /\ j \in DOMAIN slots
      BY <2>3, <3>1 DEF UniqueIn
    <3>2. CASE i = c \/ j = c
      BY <2>6, <2>7, <3>2
    <3>3. QED
      BY <2>6, <3>1, <3>2
  <2>9. c \in DOMAIN ss /\ DOMAIN slots \subseteq DOMAIN ss
    BY <1>0, <2>2
  <2>10. \A i \in DOMAIN slots : Kept(slots[i], ss[i])
    BY <2>3 DEF Kept
  <2>11. \A i \in DOMAIN ss \ DOMAIN slots : ss[i].anchor = 0
    BY <2>4, <2>6 DEF NewSlot
  <2>12. QED
    BY <2>2, <2>8, <2>9, <2>10, <2>11 DEF ss, c, GrownTo
<1>3. CASE c # Len(slots) + 1
  <2>1. c \in DOMAIN slots
    BY <1>0, <1>3
  <2> DEFINE t == [slots[c] EXCEPT !.label = node.label]
  <2>2. ss = slots \/ ss = [slots EXCEPT ![c] = t]
    BY <1>3 DEF SlotFor
  <2>3. t \in SlotRecords /\ Kept(slots[c], t)
    <3>1. node.label \in OrNull(Labels) /\ slots[c] \in SlotRecords
      BY <1>0, <2>1 DEF NodePats
    <3>2. QED
      BY <3>1 DEF SlotRecords, Kept
  <2> HIDE DEF ss, c, t
  <2>4. ss \in Seq(SlotRecords) /\ DOMAIN ss = DOMAIN slots
    BY <1>0, <2>1, <2>2, <2>3, SMTT(30)
  <2>5. \A i \in DOMAIN slots : Kept(slots[i], ss[i])
    BY <1>0, <2>1, <2>2, <2>3 DEF Kept
  <2>6. UniqueIn(ss)
    BY <2>4, <2>5 DEF UniqueIn, Kept
  <2>7. QED
    BY <2>1, <2>4, <2>5, <2>6 DEF ss, c, GrownTo
<1>4. QED
  BY <1>2, <1>3

\* Anchoring touches a slot that has no anchor, and only its anchor.
AnchorEffect(ss, tt, c, e, onTarget) ==
  /\ tt \in Seq(SlotRecords) /\ DOMAIN tt = DOMAIN ss
  /\ \A i \in DOMAIN ss :
       tt[i].var = ss[i].var /\ tt[i].np = ss[i].np /\ tt[i].label = ss[i].label
  /\ ss[c].anchor = 0 => tt[c].anchor = e /\ tt[c].onTarget = onTarget
  /\ \A i \in DOMAIN ss :
       i # c \/ ss[i].anchor # 0 =>
         tt[i].anchor = ss[i].anchor /\ tt[i].onTarget = ss[i].onTarget

\* Anchoring a slot changes no slot but that one, and that one only if it was
\* anchored to nothing.
LEMMA AnchorIs ==
  ASSUME NEW ss \in Seq(SlotRecords), NEW c \in DOMAIN ss,
         NEW e \in Nat \ {0}, NEW onTarget \in BOOLEAN
  PROVE  AnchorEffect(ss, Anchor(ss, c, e, onTarget), c, e, onTarget)
<1> USE DEF AnchorEffect
<1> DEFINE tt == Anchor(ss, c, e, onTarget)
<1>1. CASE ss[c].anchor # 0
  BY <1>1 DEF Anchor
<1>2. CASE ss[c].anchor = 0
  <2>1. ss[c] \in SlotRecords /\ \A i \in DOMAIN ss : ss[i] \in SlotRecords
    OBVIOUS
  <2> DEFINE t == [ss[c] EXCEPT !.anchor = e, !.onTarget = onTarget]
  <2>2. tt = [ss EXCEPT ![c] = t]
    BY <1>2, <2>1 DEF Anchor, SlotRecords
  <2>3. /\ t \in SlotRecords /\ t.anchor = e /\ t.onTarget = onTarget
        /\ t.var = ss[c].var /\ t.np = ss[c].np /\ t.label = ss[c].label
    BY <2>1 DEF SlotRecords
  <2> HIDE DEF t, tt
  <2>4. /\ tt \in Seq(SlotRecords) /\ DOMAIN tt = DOMAIN ss /\ tt[c] = t
        /\ \A i \in DOMAIN ss : i # c => tt[i] = ss[i]
    BY <2>2, <2>3
  <2>5. AnchorEffect(ss, tt, c, e, onTarget)
    BY <1>2, <2>3, <2>4
  <2>6. QED
    BY <2>5 DEF tt
<1>3. QED
  BY <1>1, <1>2

\* A relationship added between two slots: the bookkeeping of slots and
\* relationships stays right.
Linked(ss, ee) ==
  /\ ss \in Seq(SlotRecords) /\ ee \in Seq(EdgeRecords)
  /\ UniqueIn(ss) /\ SidesIn(ss, ee) /\ AnchorsIn(ss, ee)

\* A relationship added with its two anchors leaves the slots and the
\* relationships linked.
LEMMA EdgeAdded ==
  ASSUME Linked(slots, edges),
         NEW ss, GrownTo(ss),
         NEW R \in EdgeRecords, R.src \in DOMAIN ss, R.tgt \in DOMAIN ss
  PROVE  LET e == Len(edges) + 1
             tt == Anchor(Anchor(ss, R.src, e, FALSE), R.tgt, e, TRUE)
         IN Linked(tt, Append(edges, R)) /\ DOMAIN tt = DOMAIN ss
<1> DEFINE e == Len(edges) + 1
           s1 == Anchor(ss, R.src, e, FALSE)
           tt == Anchor(s1, R.tgt, e, TRUE)
           ee == Append(edges, R)
<1>0. e \in Nat \ {0} /\ DOMAIN edges = 1 .. e - 1
  <2>1. Len(edges) \in Nat /\ DOMAIN edges = 1 .. Len(edges)
    BY LenProperties DEF Linked
  <2>2. QED
    BY <2>1
<1>1. AnchorEffect(ss, s1, R.src, e, FALSE)
  BY <1>0, AnchorIs DEF GrownTo
<1> HIDE DEF s1
<1>2. AnchorEffect(s1, tt, R.tgt, e, TRUE)
  <2>1. s1 \in Seq(SlotRecords) /\ R.tgt \in DOMAIN s1
    BY <1>1 DEF AnchorEffect
  <2>2. QED
    BY <1>0, <2>1, AnchorIs
<1>3. /\ ee \in Seq(EdgeRecords) /\ DOMAIN ee = 1 .. e /\ ee[e] = R
      /\ \A i \in DOMAIN edges : ee[i] = edges[i]
  <2>1. edges \in Seq(EdgeRecords)
    BY DEF Linked
  <2>2. QED
    BY <1>0, <2>1, AppendProperties, LenProperties
<1> HIDE DEF tt, ee, e
<1>dom. DOMAIN tt = DOMAIN ss /\ tt \in Seq(SlotRecords)
  BY <1>1, <1>2 DEF AnchorEffect
<1>4. UniqueIn(tt)
  <2>1. DOMAIN tt = DOMAIN ss /\ UniqueIn(ss)
    BY <1>1, <1>2 DEF AnchorEffect, GrownTo
  <2>2. \A i \in DOMAIN ss : tt[i].var = ss[i].var /\ tt[i].np = ss[i].np
    BY <1>1, <1>2 DEF AnchorEffect
  <2>3. QED
    BY <2>1, <2>2 DEF UniqueIn
<1>5. \A i \in DOMAIN slots :
        /\ slots[i].anchor = ss[i].anchor
        /\ slots[i].onTarget = ss[i].onTarget
  BY DEF Kept, GrownTo
<1>gr. DOMAIN slots \subseteq DOMAIN ss
  BY DEF GrownTo
<1>6. \A i \in DOMAIN ss :
        ss[i].anchor # 0 =>
          tt[i].anchor = ss[i].anchor /\ tt[i].onTarget = ss[i].onTarget
  BY <1>1, <1>2 DEF AnchorEffect
<1>7. \A i \in DOMAIN ss :
        ss[i].anchor = 0 =>
          /\ i = R.src => tt[i].anchor = e /\ tt[i].onTarget = FALSE
          /\ i = R.tgt /\ i # R.src => tt[i].anchor = e /\ tt[i].onTarget = TRUE
          /\ i # R.src /\ i # R.tgt => tt[i].anchor = 0
  BY <1>0, <1>1, <1>2 DEF AnchorEffect
<1>8. \A i \in DOMAIN ss :
        ss[i].anchor # 0 => i \in DOMAIN slots /\ ss[i].anchor \in 1 .. e - 1
  BY <1>0, <1>5 DEF AnchorsIn, Linked, GrownTo
<1>9. ASSUME NEW d \in DOMAIN ee, NEW onTarget \in BOOLEAN,
             NEW i, i = IF onTarget THEN ee[d].tgt ELSE ee[d].src
      PROVE  i \in DOMAIN tt /\ tt[i].anchor \in 1 .. d
  <2>1. CASE d = e
    BY <1>0, <1>dom, <1>3, <1>6, <1>7, <1>8, <1>9, <2>1
  <2>2. CASE d \in DOMAIN edges
    <3>1. i \in DOMAIN slots /\ slots[i].anchor \in 1 .. d
      BY <1>3, <1>9, <2>2 DEF SidesIn, Linked
    <3>2. QED
      BY <1>dom, <1>5, <1>6, <1>gr, <3>1
  <2>3. QED
    BY <1>0, <1>3, <2>1, <2>2
<1>10. SidesIn(tt, ee)
  BY <1>9 DEF SidesIn
<1>11. ASSUME NEW i \in DOMAIN tt, tt[i].anchor # 0
       PROVE  /\ tt[i].anchor \in DOMAIN ee
              /\ \/ /\ tt[i].onTarget = TRUE
                    /\ ee[tt[i].anchor].tgt = i /\ ee[tt[i].anchor].src # i
                 \/ tt[i].onTarget = FALSE /\ ee[tt[i].anchor].src = i
  <2>1. CASE ss[i].anchor = 0
    BY <1>0, <1>dom, <1>3, <1>7, <1>11, <2>1
  <2>2. CASE ss[i].anchor # 0
    <3>1. i \in DOMAIN slots /\ slots[i].anchor # 0
            /\ slots[i].anchor \in DOMAIN edges
      BY <1>0, <1>dom, <1>5, <1>8, <2>2
    <3>2. tt[i].anchor = slots[i].anchor /\ tt[i].onTarget = slots[i].onTarget
      BY <1>dom, <1>5, <1>6, <2>2, <3>1
    <3>3. ee[slots[i].anchor] = edges[slots[i].anchor]
      BY <1>3, <3>1
    <3>4. QED
      BY <1>0, <1>3, <3>1, <3>2, <3>3 DEF AnchorsIn, Linked
  <2>3. QED
    BY <2>1, <2>2
<1>12. AnchorsIn(tt, ee)
  BY <1>11 DEF AnchorsIn
<1>13. QED
  BY <1>3, <1>4, <1>10, <1>12, <1>dom DEF Linked, tt, ee, s1, e

\* The phases after the collection.
LEMMA PhasesAre ==
  /\ DOMAIN Phases = 1 .. 14 /\ Len(Phases) = 14 /\ Phases[1] = "collect"
  /\ \A i \in 2 .. 14 : Phases[i] # "collect" /\ Phases[i] # "failed"
  /\ \A i \in 1 .. 14 : Phases[i] # "dispatch"
BY DEF Phases

\* IInv holds before a path is collected.
LEMMA InductiveInit == Init => IInv
<1> SUFFICES ASSUME Init PROVE IInv
  OBVIOUS
<1>1. query \in QueryType
  BY EmissionAssumption DEF Init
<1>3. slots \in Seq(SlotRecords) /\ edges \in Seq(EdgeRecords)
        /\ DOMAIN slots = {} /\ DOMAIN edges = {}
  BY EmptySeq DEF Init
<1>4. TypeOK
  BY <1>1, <1>3 DEF Init, TypeOK
<1>5. Position
  <2>1. pi <= Len(query.paths) => Len(query.paths[pi].segs) \in Nat
    <3>1. query.paths \in Seq(Paths) /\ pi = 1
      BY <1>1 DEF QueryType, Init
    <3>2. pi <= Len(query.paths) => query.paths[pi] \in Paths
      BY <3>1
    <3>3. QED
      BY <3>2 DEF Paths
  <2>2. QED
    BY <2>1 DEF Init, Position
<1>6. UniqueIn(slots) /\ SidesIn(slots, edges) /\ AnchorsIn(slots, edges)
  BY <1>3 DEF UniqueIn, SidesIn, AnchorsIn
<1>7. QED
  BY <1>4, <1>5, <1>6 DEF IInv

\* A step after the collection, or one that ends it, leaves the identities
\* and the anchors of the slots alone.
Quiet ==
  /\ query' = query /\ pi' = pi /\ prev' = prev /\ edges' = edges
  /\ pc' \in {Phases[i] : i \in DOMAIN Phases} \cup {"failed"}
  /\ pc' \notin {"dispatch", "collect"}
  /\ k' \in Nat /\ (pc' # "failed" => k' # 0)
  /\ slots' \in Seq(SlotRecords) /\ DOMAIN slots' = DOMAIN slots
  /\ \A i \in DOMAIN slots : Kept(slots[i], slots'[i])

\* A quiet step keeps the types,
LEMMA QuietTypes == TypeOK /\ Quiet => TypeOK'
BY DEF TypeOK, Quiet

\* and IInv.
LEMMA QuietStep == IInv /\ Quiet => IInv'
<1> SUFFICES ASSUME IInv, Quiet PROVE IInv'
  OBVIOUS
<1>1. TypeOK'
  BY QuietTypes DEF IInv
<1>2. Position'
  BY DEF Position, Quiet
<1>3. DOMAIN slots' = DOMAIN slots /\ edges' = edges
        /\ \A i \in DOMAIN slots : Kept(slots[i], slots'[i])
  BY DEF Quiet
<1>4. UniqueIn(slots)'
  BY <1>3 DEF UniqueIn, IInv, Kept
<1>5. SidesIn(slots, edges)'
  BY <1>3 DEF SidesIn, IInv, Kept
<1>6. AnchorsIn(slots, edges)'
  BY <1>3 DEF AnchorsIn, IInv, Kept
<1>7. QED
  BY <1>1, <1>2, <1>4, <1>5, <1>6 DEF IInv

\* A sequence of slots rebuilt pointwise is a sequence of slots.
LEMMA Rebuilt ==
  ASSUME slots \in Seq(SlotRecords), NEW ss,
         DOMAIN ss = DOMAIN slots, ss = [i \in DOMAIN slots |-> ss[i]],
         \A i \in DOMAIN slots : ss[i] \in SlotRecords
  PROVE  ss \in Seq(SlotRecords)
<1>1. Len(slots) \in Nat /\ DOMAIN slots = 1 .. Len(slots)
  BY LenProperties
<1>2. ss \in [1 .. Len(slots) -> SlotRecords]
  BY <1>1
<1>3. QED
  BY <1>1, <1>2, SeqDef

\* Marking touches the field "referenced" alone.
LEMMA MarkedIs ==
  ASSUME slots \in Seq(SlotRecords), NEW x
  PROVE  /\ Marked(x) \in Seq(SlotRecords) /\ DOMAIN Marked(x) = DOMAIN slots
         /\ \A i \in DOMAIN slots : Kept(slots[i], Marked(x)[i])
<1> DEFINE ss == Marked(x)
<1>1. DOMAIN ss = DOMAIN slots /\ ss = [i \in DOMAIN slots |-> ss[i]]
  BY DEF Marked
<1>2. ASSUME NEW i \in DOMAIN slots
      PROVE  ss[i] \in SlotRecords /\ Kept(slots[i], ss[i])
  <2>1. slots[i] \in SlotRecords
    OBVIOUS
  <2>2. ss[i] = slots[i] \/ ss[i] = [slots[i] EXCEPT !.referenced = TRUE]
    BY DEF Marked
  <2> HIDE DEF ss
  <2>3. QED
    BY <2>1, <2>2 DEF SlotRecords, Kept
<1> HIDE DEF ss
<1>3. ss \in Seq(SlotRecords)
  BY <1>1, <1>2, Rebuilt
<1>4. QED
  BY <1>1, <1>2, <1>3 DEF ss

\* A step of a later phase that changes no slot.
LEMMA SlotsSame ==
  ASSUME TypeOK, slots' = slots, edges' = edges, query' = query, pi' = pi,
         prev' = prev,
         pc' \in {Phases[i] : i \in DOMAIN Phases} \cup {"failed"},
         pc' \notin {"dispatch", "collect"}, k' \in Nat, pc' # "failed" => k' # 0
  PROVE  Quiet
BY DEF TypeOK, Quiet, Kept

\* Every step but the collection's is quiet.
LEMMA RejectStep ==
  ASSUME TypeOK, NEW why, Reject(why)
  PROVE  Quiet
<1>1. QED
  BY SlotsSame, PhasesAre DEF Reject, TypeOK

\* The step to the next phase is quiet,
LEMMA PhaseStep == TypeOK /\ NextPhase => Quiet
<1> SUFFICES ASSUME TypeOK, NextPhase PROVE Quiet
  OBVIOUS
<1>1. PICK i \in 1 .. 13 : pc' = Phases[i + 1]
  BY PhasesAre DEF NextPhase
<1>2. i + 1 \in 2 .. 14
  OBVIOUS
<1>3. pc' \in {Phases[j] : j \in DOMAIN Phases} /\ pc' \notin {"dispatch", "collect"}
  BY <1>1, <1>2, PhasesAre
<1>4. QED
  BY <1>3, SlotsSame DEF NextPhase

\* The part all the steps of one phase share.
Stay == pc' = pc /\ k' = k + 1 /\ UNCHANGED <<query, pi, prev, edges>>

\* as is one that stays in its phase.
LEMMA StayStep ==
  ASSUME TypeOK, Stay, pc \notin {"dispatch", "collect", "failed"},
         \/ slots' = slots
         \/ \E x : slots' = Marked(x)
         \/ /\ slots' \in Seq(SlotRecords) /\ DOMAIN slots' = DOMAIN slots
            /\ \A i \in DOMAIN slots : Kept(slots[i], slots'[i])
  PROVE  Quiet
<1>1. /\ query' = query /\ pi' = pi /\ prev' = prev /\ edges' = edges
      /\ pc' \in {Phases[i] : i \in DOMAIN Phases} \cup {"failed"}
      /\ pc' \notin {"dispatch", "collect"} /\ k' \in Nat /\ k' # 0
  BY DEF TypeOK, Stay
<1>2. slots \in Seq(SlotRecords)
  BY DEF TypeOK
<1>3. CASE slots' = slots
  BY <1>1, <1>3, SlotsSame
<1>4. CASE \E x : slots' = Marked(x)
  BY <1>1, <1>2, <1>4, MarkedIs DEF Quiet
<1>5. CASE /\ slots' \in Seq(SlotRecords) /\ DOMAIN slots' = DOMAIN slots
           /\ \A i \in DOMAIN slots : Kept(slots[i], slots'[i])
  BY <1>1, <1>5 DEF Quiet
<1>6. QED
  BY <1>3, <1>4, <1>5

\* Resolving and marking a slot change its label, name and lone fields.
LEMMA ResolveStep == TypeOK /\ ResolveSlot => Quiet
<1> SUFFICES ASSUME TypeOK, ResolveSlot PROVE Quiet
  OBVIOUS
<1> DEFINE r == Resolution(NameMap, slots[k].label)
           t == [slots[k] EXCEPT !.label = r.table, !.name = r.name]
<1>1. k \in DOMAIN slots /\ slots[k] \in SlotRecords
        /\ slots \in Seq(SlotRecords)
  <2>1. k \in Nat \ {0} /\ k <= Len(slots) /\ slots \in Seq(SlotRecords)
    BY DEF ResolveSlot, AtStep, PhaseLength, TypeOK
  <2>2. QED
    BY <2>1
<1>2. r.table \in OrNull(Labels) /\ r.name \in OrNull(Labels)
  <2>1. slots[k].label \in OrNull(Labels)
    BY <1>1 DEF SlotRecords
  <2>2. QED
    BY <2>1, ResolutionType
<1>3. slots' = [slots EXCEPT ![k] = t]
  BY DEF ResolveSlot
<1> HIDE DEF r
<1>4. t \in SlotRecords /\ Kept(slots[k], t)
  BY <1>1, <1>2 DEF SlotRecords, Kept
<1> HIDE DEF t
<1>5. /\ slots' \in Seq(SlotRecords) /\ DOMAIN slots' = DOMAIN slots
      /\ \A i \in DOMAIN slots : Kept(slots[i], slots'[i])
  BY <1>1, <1>3, <1>4 DEF Kept
<1>6. Stay /\ pc \notin {"dispatch", "collect", "failed"}
  BY DEF ResolveSlot, AtStep, Stay
<1>7. QED
  BY <1>5, <1>6, StayStep

\* Marking a slot changes whether it is lone.
LEMMA MarkStep == TypeOK /\ MarkSlot => Quiet
<1> SUFFICES ASSUME TypeOK, MarkSlot PROVE Quiet
  OBVIOUS
<1> DEFINE t == [slots[k] EXCEPT !.lone = (slots[k].anchor = 0)]
<1>1. k \in DOMAIN slots /\ slots[k] \in SlotRecords
        /\ slots \in Seq(SlotRecords)
  <2>1. k \in Nat \ {0} /\ k <= Len(slots) /\ slots \in Seq(SlotRecords)
    BY DEF MarkSlot, AtStep, PhaseLength, TypeOK
  <2>2. QED
    BY <2>1
<1>2. slots' = [slots EXCEPT ![k] = t]
  BY DEF MarkSlot
<1>3. t \in SlotRecords /\ Kept(slots[k], t)
  BY <1>1 DEF SlotRecords, Kept
<1> HIDE DEF t
<1>4. /\ slots' \in Seq(SlotRecords) /\ DOMAIN slots' = DOMAIN slots
      /\ \A i \in DOMAIN slots : Kept(slots[i], slots'[i])
  BY <1>1, <1>2, <1>3 DEF Kept
<1>5. Stay /\ pc \notin {"dispatch", "collect", "failed"}
  BY DEF MarkSlot, AtStep, Stay
<1>6. QED
  BY <1>4, <1>5, StayStep

\* Binding, emitting and joining: slots are marked or left alone.
LEMMA EmissionStep ==
  ASSUME TypeOK,
         \/ Bind \/ EmitSelect \/ EmitWhere \/ OrderByAlias \/ EmitOrder
         \/ EmitGroup \/ SkipGroup \/ FromEdge \/ FromLone \/ SkipLone
         \/ FromNode \/ SkipJoin \/ EmitPreds \/ EmitPage
  PROVE  Quiet
<1>1. CASE Bind
  BY <1>1, StayStep DEF Bind, AtStep, Stay
<1>2. CASE EmitSelect
  BY <1>2, StayStep DEF EmitSelect, AtStep, Stay
<1>3. CASE EmitWhere
  BY <1>3, StayStep DEF EmitWhere, AtStep, Stay
<1>4. CASE OrderByAlias
  BY <1>4, StayStep DEF OrderByAlias, AtStep, Stay
<1>5. CASE EmitOrder
  BY <1>5, StayStep DEF EmitOrder, Emit, AtStep, Stay
<1>6. CASE EmitGroup
  BY <1>6, StayStep DEF EmitGroup, Emit, AtStep, Stay
<1>7. CASE SkipGroup
  BY <1>7, StayStep DEF SkipGroup, Skip, AtStep, Stay
<1>8. CASE FromEdge
  BY <1>8, StayStep DEF FromEdge, AddFrom, AtStep, Stay
<1>9. CASE FromLone
  BY <1>9, StayStep DEF FromLone, AddFrom, AtStep, Stay
<1>10. CASE SkipLone
  BY <1>10, StayStep DEF SkipLone, Skip, AtStep, Stay
<1>11. CASE FromNode
  BY <1>11, StayStep DEF FromNode, AddFrom, AtStep, Stay
<1>12. CASE SkipJoin
  BY <1>12, StayStep DEF SkipJoin, Skip, AtStep, Stay
<1>13. CASE EmitPreds
  BY <1>13, StayStep DEF EmitPreds, AtStep, Stay
<1>14. CASE EmitPage
  BY <1>14, StayStep DEF EmitPage, AtStep, Stay
<1>15. QED
  BY <1>1, <1>2, <1>3, <1>4, <1>5, <1>6, <1>7, <1>8, <1>9, <1>10, <1>11,
     <1>12, <1>13, <1>14

\* The path and the segments the collection looks at are well formed.
LEMMA PathsTyped ==
  ASSUME query \in QueryType, NEW i \in Nat \ {0}, i <= Len(query.paths)
  PROVE  /\ query.paths[i].start \in NodePats
         /\ Len(query.paths[i].segs) \in Nat
         /\ \A n \in 1 .. Len(query.paths[i].segs) :
              /\ query.paths[i].segs[n].node \in NodePats
              /\ query.paths[i].segs[n].rel \in RelPats
<1> DEFINE p == query.paths[i]
           Segs == [rel : RelPats, node : NodePats]
<1>1. query.paths \in Seq(Paths)
  BY DEF QueryType
<1>2. p \in Paths
  BY <1>1
<1> HIDE DEF p
<1>3. p.start \in NodePats /\ p.segs \in Seq(Segs)
  BY <1>2 DEF Paths
<1>4. Len(p.segs) \in Nat /\ \A n \in 1 .. Len(p.segs) : p.segs[n] \in Segs
  BY <1>3, LenProperties, ElementOfSeq
<1>5. QED
  BY <1>3, <1>4 DEF p

\* The step to the next segment, or to the next path, keeps the position.
LEMMA SegmentStep ==
  ASSUME IInv, NextSegment, pc = "collect", pc' = pc, query' = query,
         pi <= Len(query.paths), prev' \in DOMAIN slots'
  PROVE  Position' /\ pi' \in Nat \ {0} /\ k' \in Nat
<1>1. query \in QueryType /\ pi \in Nat \ {0} /\ k \in Nat
  BY DEF IInv, TypeOK
<1>2. \/ /\ k < Len(query.paths[pi].segs) /\ k' = k + 1 /\ pi' = pi
      \/ k' = 0 /\ pi' = pi + 1
  BY DEF NextSegment
<1>3. Len(query.paths[pi].segs) \in Nat
  BY <1>1, PathsTyped
<1>4. \A i \in Nat \ {0} :
        i <= Len(query.paths) => 0 <= Len(query.paths[i].segs)
  BY <1>1, PathsTyped
<1>5. pi' \in Nat \ {0} /\ k' \in Nat
  BY <1>1, <1>2
<1>6. k' > 0 => pi' <= Len(query.paths)
  BY <1>1, <1>2
<1>7. pi' <= Len(query.paths) => k' <= Len(query.paths[pi'].segs)
  <2>1. CASE k < Len(query.paths[pi].segs) /\ k' = k + 1 /\ pi' = pi
    BY <1>1, <1>3, <2>1
  <2>2. CASE k' = 0 /\ pi' = pi + 1
    BY <1>4, <1>5, <2>2
  <2>3. QED
    BY <1>2, <2>1, <2>2
<1>8. QED
  BY <1>5, <1>6, <1>7 DEF Position

\* Collecting the first node of a path keeps IInv,
LEMMA StartStep == IInv /\ CollectStart => IInv'
<1> SUFFICES ASSUME IInv, CollectStart PROVE IInv'
  OBVIOUS
<1> DEFINE node == NodeAt(pi, 0)
           np == <<pi, 0>>
<1>1. query \in QueryType /\ pi \in Nat \ {0} /\ TypeOK /\ UniqueIn(slots)
  BY DEF IInv, TypeOK
<1>2. /\ pc = "collect" /\ pi <= Len(query.paths) /\ NextSegment
      /\ query' = query /\ pc' = pc /\ edges' = edges
      /\ slots' = SlotFor(node, np) /\ prev' = SlotIndex(node, np)
  BY DEF CollectStart, AtSegment
<1>3. node \in NodePats /\ np \in Nat \X Nat
  BY <1>1, <1>2, PathsTyped DEF NodeAt
<1> HIDE DEF node, np
<1>4. GrownTo(slots') /\ prev' \in DOMAIN slots'
  BY <1>1, <1>2, <1>3, SlotForIs
<1>5. Position' /\ pi' \in Nat \ {0} /\ k' \in Nat
  BY <1>2, <1>4, SegmentStep
<1>6. DOMAIN slots' \subseteq Nat
  <2>1. Len(slots') \in Nat /\ DOMAIN slots' = 1 .. Len(slots')
    BY <1>4, LenProperties DEF GrownTo
  <2>2. QED
    BY <2>1
<1>7. TypeOK'
  BY <1>2, <1>4, <1>5, <1>6 DEF IInv, TypeOK, GrownTo
<1>8. \A i \in DOMAIN slots :
        i \in DOMAIN slots' /\ slots'[i].anchor = slots[i].anchor
          /\ slots'[i].onTarget = slots[i].onTarget
  BY <1>4 DEF GrownTo, Kept
<1>9. SidesIn(slots, edges)'
  BY <1>2, <1>8 DEF IInv, SidesIn
<1>10. AnchorsIn(slots, edges)'
  <2>1. \A i \in DOMAIN slots' : slots'[i].anchor # 0 => i \in DOMAIN slots
    BY <1>4 DEF GrownTo
  <2>2. QED
    BY <1>2, <1>8, <2>1 DEF IInv, AnchorsIn
<1>11. UniqueIn(slots)'
  BY <1>4 DEF GrownTo
<1>12. QED
  BY <1>5, <1>7, <1>9, <1>10, <1>11 DEF IInv

\* and so does collecting one of its segments.
LEMMA SegmentAdded == IInv /\ CollectSegment => IInv'
<1> SUFFICES ASSUME IInv, CollectSegment PROVE IInv'
  OBVIOUS
<1> DEFINE node == NodeAt(pi, k)
           np == <<pi, k>>
           rel == query.paths[pi].segs[k].rel
           cur == SlotIndex(node, np)
           src == IF rel.dir = "left" THEN cur ELSE prev
           tgt == IF rel.dir = "left" THEN prev ELSE cur
           e == Len(edges) + 1
           ss == SlotFor(node, np)
           R == [var |-> rel.var, type |-> rel.type, props |-> rel.props,
                 src |-> src, tgt |-> tgt]
<1>1. /\ query \in QueryType /\ pi \in Nat \ {0} /\ k \in Nat
      /\ TypeOK /\ UniqueIn(slots) /\ Linked(slots, edges)
  BY DEF IInv, TypeOK, Linked
<1>2. /\ k > 0 /\ pc = "collect" /\ pi <= Len(query.paths) /\ NextSegment
      /\ query' = query /\ pc' = pc /\ prev' = cur
      /\ edges' = Append(edges, R)
      /\ slots' = Anchor(Anchor(ss, src, e, FALSE), tgt, e, TRUE)
  BY DEF CollectSegment, AtSegment
<1>3. k \in 1 .. Len(query.paths[pi].segs) /\ prev \in DOMAIN slots
  <2>1. Len(query.paths[pi].segs) \in Nat
    BY <1>1, <1>2, PathsTyped
  <2>2. k <= Len(query.paths[pi].segs) /\ prev \in DOMAIN slots
    BY <1>2 DEF IInv, Position
  <2>3. k \in Nat /\ k > 0
    BY <1>1, <1>2, Zenon
  <2>4. k \in 1 .. Len(query.paths[pi].segs)
    BY <2>1, <2>2, <2>3
  <2>5. QED
    BY <2>2, <2>4
<1>4. node \in NodePats /\ rel \in RelPats /\ np \in Nat \X Nat
  BY <1>1, <1>2, <1>3, PathsTyped DEF NodeAt
<1> HIDE DEF node, np, rel
<1>5. GrownTo(ss) /\ cur \in DOMAIN ss
  BY <1>1, <1>4, SlotForIs
<1> HIDE DEF cur, ss
<1>6. src \in DOMAIN ss /\ tgt \in DOMAIN ss
  BY <1>3, <1>5 DEF GrownTo
<1>7. DOMAIN ss \subseteq Nat \ {0}
  <2>1. Len(ss) \in Nat /\ DOMAIN ss = 1 .. Len(ss)
    BY <1>5, LenProperties DEF GrownTo
  <2>2. QED
    BY <2>1
<1>8. R \in EdgeRecords /\ R.src = src /\ R.tgt = tgt
  <2> HIDE DEF src, tgt
  <2>1. QED
    BY <1>4, <1>6, <1>7 DEF EdgeRecords, RelPats
<1>9. Linked(slots', edges') /\ DOMAIN slots' = DOMAIN ss
  <2> HIDE DEF R, src, tgt
  <2>1. R.src \in DOMAIN ss /\ R.tgt \in DOMAIN ss
    BY <1>6, <1>8
  <2>2. QED
    BY <1>1, <1>2, <1>5, <1>8, <2>1, EdgeAdded
<1>10. Position' /\ pi' \in Nat \ {0} /\ k' \in Nat
  BY <1>2, <1>5, <1>9, SegmentStep
<1>11. TypeOK'
  BY <1>2, <1>5, <1>7, <1>9, <1>10 DEF IInv, TypeOK, Linked
<1>12. QED
  BY <1>9, <1>10, <1>11 DEF IInv, Linked

-----------------------------------------------------------------------------
(* The directed engine *)

\* IInv includes the types.
LEMMA IInvTypes == IInv => TypeOK
BY DEF IInv

\* Every step of the directed engine keeps IInv.
LEMMA InductiveStep == IInv /\ [GeneralNext]_vars => IInv'
<1> SUFFICES ASSUME IInv, [GeneralNext]_vars PROVE IInv'
  OBVIOUS
<1>1. CASE CollectStart
  BY <1>1, StartStep
<1>2. CASE CollectSegment
  BY <1>2, SegmentAdded
<1>3. CASE CollectFail
  BY <1>3, IInvTypes, RejectStep, QuietStep DEF CollectFail
<1>4. CASE NextPhase
  BY <1>4, IInvTypes, PhaseStep, QuietStep
<1>5. CASE ResolveSlot
  BY <1>5, IInvTypes, ResolveStep, QuietStep
<1>6. CASE MarkSlot
  BY <1>6, IInvTypes, MarkStep, QuietStep
<1>7. CASE \/ Bind \/ EmitSelect \/ EmitWhere \/ OrderByAlias \/ EmitOrder
           \/ EmitGroup \/ SkipGroup \/ FromEdge \/ FromLone \/ SkipLone
           \/ FromNode \/ SkipJoin \/ EmitPreds \/ EmitPage
  BY <1>7, IInvTypes, EmissionStep, QuietStep
<1>8. CASE \/ ResolveFail \/ MarkFail \/ SelectFail \/ WhereFail
           \/ OrderFail \/ PredsFail
  BY <1>8, IInvTypes, RejectStep, QuietStep
  DEF ResolveFail, MarkFail, SelectFail, WhereFail, OrderFail, PredsFail
<1>9. CASE UNCHANGED vars
  <2>1. TypeOK'
    BY <1>9 DEF vars, IInv, TypeOK
  <2>2. Position'
    BY <1>9 DEF vars, IInv, Position
  <2>3. UniqueIn(slots)' /\ SidesIn(slots, edges)' /\ AnchorsIn(slots, edges)'
    BY <1>9 DEF vars, IInv, UniqueIn, SidesIn, AnchorsIn
  <2>4. QED
    BY <2>1, <2>2, <2>3 DEF IInv
<1>10. QED
  BY <1>1, <1>2, <1>3, <1>4, <1>5, <1>6, <1>7, <1>8, <1>9 DEF GeneralNext

-----------------------------------------------------------------------------
(* The engines for a single hop *)

\* The ends and the relationship of a query that is a single hop.
LEMMA HopTyped ==
  ASSUME query \in QueryType, Sole
  PROVE  Left \in NodePats /\ Right \in NodePats /\ Rel \in RelPats
<1>1. 1 \in Nat \ {0} /\ 1 <= Len(query.paths) /\ 1 \in 1 .. Len(query.paths[1].segs)
  BY DEF Sole
<1>2. QED
  BY <1>1, PathsTyped DEF Left, Right, Rel, NodeAt

\* The slot of an end of the sole hop is of its type.
LEMMA EndSlotTyped ==
  ASSUME NEW node \in NodePats, NEW n \in Nat
  PROVE  EndSlot(node, n) \in SlotRecords
<1>1. node.label \in OrNull(Labels) /\ node.var \in OrNull(Vars)
  BY DEF NodePats
<1>2. Meaning(node).table \in OrNull(Labels) /\ Meaning(node).name \in OrNull(Labels)
  BY <1>1, ResolutionType DEF Meaning
<1>3. QED
  BY <1>1, <1>2 DEF EndSlot, SlotRecords

\* Opening a hop: two slots and one relationship, which is not anchored.
LEMMA OpenStep ==
  ASSUME TypeOK, Sole, NEW src \in {1, 2}, NEW tgt \in {1, 2}, OpenHop(src, tgt)
  PROVE  TypeOK' /\ DOMAIN edges' = {1} /\ query' = query /\ pc' = "select"
<1> DEFINE hop == [var |-> Rel.var, type |-> Rel.type, props |-> Rel.props,
                   src |-> src, tgt |-> tgt]
           s == EndSlot(Left, 0)
           t == EndSlot(Right, 1)
<1>1. Left \in NodePats /\ Right \in NodePats /\ Rel \in RelPats
  BY HopTyped DEF TypeOK
<1>2. hop \in EdgeRecords
  BY <1>1 DEF EdgeRecords, RelPats
<1>3. s \in SlotRecords /\ t \in SlotRecords
  BY <1>1, EndSlotTyped
<1>4. edges' = <<hop>> /\ slots' = <<s, t>> /\ query' = query /\ pi' = pi /\ prev' = prev
        /\ pc' = "select" /\ k' = 1
  BY DEF OpenHop, HopPhases
<1> HIDE DEF hop, s, t
<1>5. <<hop>> \in Seq(EdgeRecords) /\ DOMAIN <<hop>> = {1}
  BY <1>2
<1>6. <<s, t>> \in Seq(SlotRecords)
  BY <1>3
<1>7. "select" \in {Phases[i] : i \in DOMAIN Phases}
  <2>1. 5 \in DOMAIN Phases /\ Phases[5] = "select"
    BY DEF Phases
  <2>2. QED
    BY <2>1
<1>8. QED
  BY <1>4, <1>5, <1>6, <1>7 DEF TypeOK

\* The step to the next phase of the other engines is quiet,
LEMMA HopPhaseStep == TypeOK /\ NextHopPhase => Quiet
<1> SUFFICES ASSUME TypeOK, NextHopPhase PROVE Quiet
  OBVIOUS
<1>1. PICK i \in 1 .. 8 : pc' = HopPhases[i + 1]
  BY DEF NextHopPhase, HopPhases
<1>2. pc' \in {"where", "order", "group", "from", "join", "pred", "page", "done"}
  BY <1>1 DEF HopPhases
<1>3. pc' \in {Phases[j] : j \in DOMAIN Phases}
  <2>1. /\ \A j \in 6 .. 9 : j \in DOMAIN Phases
        /\ \A j \in 11 .. 14 : j \in DOMAIN Phases
        /\ Phases[6] = "where" /\ Phases[7] = "order" /\ Phases[8] = "group"
        /\ Phases[9] = "from" /\ Phases[11] = "join" /\ Phases[12] = "pred"
        /\ Phases[13] = "page" /\ Phases[14] = "done"
    BY DEF Phases
  <2>2. QED
    BY <1>2, <2>1
<1>4. QED
  BY <1>2, <1>3, SlotsSame DEF NextHopPhase

\* and so is one that adds predicates.
LEMMA PredsStep ==
  ASSUME TypeOK, NEW preds, AddPreds(preds), pc = "pred"
  PROVE  Quiet
BY StayStep DEF AddPreds, Stay

\* What a step of these engines does: it opens the hop, goes on with a quiet
\* step, or fails.
Running == pc \notin {"dispatch", "collect", "failed"}
HopStep ==
  \/ TypeOK' /\ DOMAIN edges' = {1} /\ query' = query /\ pc = "collect" /\ pc' = "select"
  \/ Quiet /\ (Running \/ pc' = "failed")

\* The steps of both engines after the hop is opened.
LEMMA SharedStep ==
  ASSUME TypeOK,
         \/ NextHopPhase \/ EmitClauses
         \/ \E table : FromHop(table)
         \/ \E i, on : JoinEnd(i, on) \/ SkipEnd(i)
  PROVE  Quiet /\ (Running \/ pc' = "failed")
<1>1. CASE NextHopPhase
  <2>1. pc \in {"select", "where", "order", "group", "from", "join", "pred", "page"}
    BY <1>1 DEF NextHopPhase, HopPhases
  <2>2. QED
    BY <1>1, <2>1, HopPhaseStep DEF Running
<1>2. CASE \/ EmitSelect \/ EmitWhere \/ OrderByAlias \/ EmitOrder
           \/ EmitGroup \/ SkipGroup \/ EmitPage
  <2>1. Running
    BY <1>2 DEF EmitSelect, EmitWhere, OrderByAlias, EmitOrder, EmitGroup, SkipGroup,
                EmitPage, AtStep, Running
  <2>2. QED
    BY <1>2, <2>1, EmissionStep
<1>3. CASE SelectFail \/ WhereFail \/ OrderFail
  BY <1>3, RejectStep DEF SelectFail, WhereFail, OrderFail, Reject
<1>4. CASE \E table : FromHop(table)
  BY <1>4, StayStep DEF FromHop, AddFrom, AtStep, Stay, Running
<1>5. CASE \E i, on : JoinEnd(i, on) \/ SkipEnd(i)
  BY <1>5, StayStep DEF JoinEnd, SkipEnd, AddFrom, Skip, AtStep, Stay, Running
<1>6. QED
  BY <1>1, <1>2, <1>3, <1>4, <1>5 DEF EmitClauses

\* Each step of the undirected engine,
LEMMA UndirectedStep ==
  ASSUME TypeOK, UndirectedNext, pc = "collect" => Sole
  PROVE  HopStep
<1>1. CASE OpenUndirected
  BY <1>1, OpenStep DEF OpenUndirected, HopStep
<1>2. CASE RefuseUndirected \/ RefusePreds
  BY <1>2, RejectStep DEF RefuseUndirected, RefusePreds, Reject, HopStep
<1>3. CASE NextHopPhase \/ EmitClauses \/ FromUndirected \/ JoinUndirected \/ SkipUndirected
  BY <1>3, SharedStep DEF FromUndirected, JoinUndirected, SkipUndirected, HopStep
<1>4. CASE PredsUndirected
  BY <1>4, PredsStep DEF PredsUndirected, AtStep, Running, HopStep
<1>5. QED
  BY <1>1, <1>2, <1>3, <1>4 DEF UndirectedNext

\* and of the variable-length one, is such a step.
LEMMA VarlenStep ==
  ASSUME TypeOK, VarlenNext, pc = "collect" => Sole
  PROVE  HopStep
<1>1. CASE OpenVarlen
  <2>1. SlotOf("source") \in {1, 2} /\ SlotOf("target") \in {1, 2}
    BY DEF SlotOf
  <2>2. QED
    BY <1>1, <2>1, OpenStep DEF OpenVarlen, HopStep
<1>2. CASE RefuseVarlen
  BY <1>2, RejectStep DEF RefuseVarlen, Reject, HopStep
<1>3. CASE NextHopPhase \/ EmitClauses \/ JoinWalk \/ SkipWalk
  BY <1>3, SharedStep DEF JoinWalk, SkipWalk, HopStep
<1>4. CASE FromWalk
  BY <1>4, StayStep DEF FromWalk, AtStep, Stay, Running, HopStep
<1>5. CASE PredsWalk
  BY <1>5, PredsStep DEF PredsWalk, AtStep, Running, HopStep
<1>6. QED
  BY <1>1, <1>2, <1>3, <1>4, <1>5 DEF VarlenNext

-----------------------------------------------------------------------------
(* Theorems *)

\* The invariant of the whole translation: IInv until an engine is chosen and
\* in transform_general; the other engines have a single hop and, once it is
\* opened, one relationship.
HopInv ==
  Engine # "directed" =>
    /\ pc \notin {"dispatch", "failed"} => Sole
    /\ pc \notin {"dispatch", "collect", "failed"} => DOMAIN edges = {1}
TInv ==
  /\ TypeOK
  /\ pc = "dispatch" \/ Engine = "directed" => IInv
  /\ HopInv

\* The query is never changed, nor what is chosen by it.
LEMMA QueryStays ==
  ASSUME query' = query
  PROVE  Engine' = Engine /\ Sole' = Sole
BY DEF Engine, HasVarlen, HasUndirected, Rels, Sole

\* TInv holds when a query comes in,
LEMMA TInvInit == Init => TInv
<1> SUFFICES ASSUME Init PROVE TInv
  OBVIOUS
<1>1. IInv /\ pc = "dispatch"
  BY InductiveInit DEF Init
<1>2. QED
  BY <1>1, IInvTypes DEF TInv, HopInv

\* when its engine is chosen,
LEMMA DispatchStep == TInv /\ Dispatch => TInv'
<1> SUFFICES ASSUME TInv, Dispatch PROVE TInv'
  OBVIOUS
<1>1. /\ pc = "dispatch" /\ pc' = "collect" /\ query' = query /\ pi' = pi
      /\ k' = k /\ prev' = prev /\ slots' = slots /\ edges' = edges
  BY DEF Dispatch
<1>2. IInv
  BY <1>1 DEF TInv
<1>3. "collect" \in {Phases[i] : i \in DOMAIN Phases}
  <2>1. 1 \in DOMAIN Phases /\ Phases[1] = "collect"
    BY PhasesAre
  <2>2. QED
    BY <2>1
<1>4. TypeOK'
  BY <1>1, <1>2, <1>3 DEF IInv, TypeOK
<1>5. Position'
  BY <1>1, <1>2 DEF IInv, Position
<1>6. UniqueIn(slots)' /\ SidesIn(slots, edges)' /\ AnchorsIn(slots, edges)'
  BY <1>1, <1>2 DEF IInv, UniqueIn, SidesIn, AnchorsIn
<1>7. HopInv'
  BY <1>1, QueryStays DEF HopInv, Dispatch, Accepted
<1>8. QED
  BY <1>4, <1>5, <1>6, <1>7 DEF TInv, IInv

\* when it is refused,
LEMMA RefuseStep == TInv /\ Refuse => TInv'
<1> SUFFICES ASSUME TInv, Refuse PROVE TInv'
  OBVIOUS
<1>1. IInv /\ pc' = "failed" /\ Quiet
  BY RejectStep DEF Refuse, Reject, TInv
<1>2. IInv'
  BY <1>1, QuietStep
<1>3. QED
  BY <1>1, <1>2, IInvTypes DEF TInv, IInv, HopInv


\* The directed engine does not touch the query.
LEMMA GeneralKeepsQuery == TypeOK /\ GeneralNext => query' = query
<1> SUFFICES ASSUME TypeOK, GeneralNext PROVE query' = query
  OBVIOUS
<1>1. CASE CollectStart \/ CollectSegment \/ NextPhase
  BY <1>1 DEF CollectStart, CollectSegment, NextPhase
<1>2. CASE CollectFail \/ ResolveFail \/ MarkFail \/ SelectFail \/ WhereFail
           \/ OrderFail \/ PredsFail
  BY <1>2 DEF CollectFail, ResolveFail, MarkFail, SelectFail, WhereFail, OrderFail,
              PredsFail, Reject
<1>3. CASE ResolveSlot \/ MarkSlot
  BY <1>3 DEF ResolveSlot, MarkSlot
<1>4. CASE \/ Bind \/ EmitSelect \/ EmitWhere \/ OrderByAlias \/ EmitOrder
           \/ EmitGroup \/ SkipGroup \/ FromEdge \/ FromLone \/ SkipLone
           \/ FromNode \/ SkipJoin \/ EmitPreds \/ EmitPage
  BY <1>4, EmissionStep DEF Quiet
<1>5. QED
  BY <1>1, <1>2, <1>3, <1>4 DEF GeneralNext

\* Each step of the directed engine keeps TInv,
LEMMA DirectedStep == TInv /\ Engine = "directed" /\ GeneralNext => TInv'
<1> SUFFICES ASSUME TInv, Engine = "directed", GeneralNext PROVE TInv'
  OBVIOUS
<1>1. IInv'
  BY InductiveStep DEF TInv
<1>2. Engine' = "directed"
  BY GeneralKeepsQuery, QueryStays DEF TInv
<1>3. QED
  BY <1>1, <1>2 DEF TInv, IInv, HopInv

\* each step of the others does,
LEMMA HopsStep ==
  TInv /\ Engine # "directed" /\ (UndirectedNext \/ VarlenNext) => TInv'
<1> SUFFICES ASSUME TInv, Engine # "directed", UndirectedNext \/ VarlenNext PROVE TInv'
  OBVIOUS
<1>1. TypeOK /\ (pc = "collect" => Sole)
  BY DEF TInv, HopInv
<1>2. HopStep
  BY <1>1, UndirectedStep, VarlenStep
<1>3. query' = query /\ pc' # "dispatch" /\ TypeOK'
  BY <1>1, <1>2, QuietTypes DEF HopStep, Quiet
<1>4. Engine' # "directed" /\ Sole' = Sole
  BY <1>3, QueryStays
<1>5. HopInv'
  <2>1. CASE pc = "collect" /\ DOMAIN edges' = {1}
    BY <1>1, <1>4, <2>1 DEF HopInv
  <2>2. CASE Quiet /\ (Running \/ pc' = "failed")
    BY <1>4, <2>2 DEF HopInv, TInv, Quiet, Running
  <2>3. QED
    BY <1>2, <2>1, <2>2 DEF HopStep
<1>6. QED
  BY <1>3, <1>4, <1>5 DEF TInv

\* so every step does,
LEMMA TInvStep == TInv /\ [Next]_vars => TInv'
<1> SUFFICES ASSUME TInv, [Next]_vars PROVE TInv'
  OBVIOUS
<1>1. CASE Dispatch \/ Refuse
  BY <1>1, DispatchStep, RefuseStep
<1>2. CASE Engine = "directed" /\ GeneralNext
  BY <1>2, DirectedStep
<1>3. CASE \/ Engine = "undirected" /\ UndirectedNext
           \/ Engine = "varlen" /\ VarlenNext
  BY <1>3, HopsStep
<1>4. CASE UNCHANGED vars
  <2>1. Engine' = Engine /\ Sole' = Sole
    BY <1>4, QueryStays DEF vars
  <2>2. IInv => IInv'
    BY <1>4, InductiveStep
  <2>3. TypeOK' /\ HopInv'
    BY <1>4, <2>1 DEF vars, TInv, TypeOK, HopInv
  <2>4. QED
    BY <1>4, <2>1, <2>2, <2>3 DEF vars, TInv
<1>5. QED
  BY <1>1, <1>2, <1>3, <1>4 DEF Next

\* and TInv holds throughout.
LEMMA Translating == Spec => []TInv
<1>1. QED
  BY TInvInit, TInvStep, PTL DEF Spec

\* In every engine the slots, the relationships and the positions of the loops
\* keep their types.
THEOREM TransformTypeCorrect == Spec => []TypeOK
<1>1. TInv => TypeOK
  BY DEF TInv
<1>2. QED
  BY <1>1, Translating, PTL

\* transform.c:19-24, 786-817: for every query, one slot for a variable, and
\* every slot on a relationship is anchored to the first one it is on, on the
\* side that is its own.
THEOREM GeneralAnchors == Spec => []AnchorInv
<1>1. TInv => AnchorInv
  BY IInvImplies DEF TInv, AnchorInv, Engine
<1>2. QED
  BY <1>1, Translating, PTL

-----------------------------------------------------------------------------
(* Ties *)

\* Two elements keep their places before and after at most two others.
NoneOrTwo(X) == X = <<>> \/ \E a, b : X = <<a, b>>
Contains(X, P, Q) == \E i, j \in DOMAIN X : X[i] = P /\ X[j] = Q

\* Two equalities are both among those they are joined to, in front or behind.
LEMMA Pairs ==
  ASSUME NEW P, NEW Q, NEW X, NoneOrTwo(X)
  PROVE  Contains(<<P, Q>> \o X, P, Q) /\ Contains(X \o <<P, Q>>, P, Q)
<1>1. PICK S : P \in S /\ Q \in S /\ X \in Seq(S)
  <2>1. CASE X = <<>>
    <3>1. X \in Seq({P, Q})
      BY <2>1, EmptySeq
    <3>2. QED
      BY <3>1
  <2>2. CASE \E a, b : X = <<a, b>>
    <3>1. PICK a, b : X = <<a, b>>
      BY <2>2
    <3>2. X \in Seq({P, Q, a, b})
      BY <3>1
    <3>3. QED
      BY <3>2
  <2>3. QED
    BY <2>1, <2>2 DEF NoneOrTwo
<1> DEFINE W == <<P, Q>>
           n == Len(X)
<1>2. W \in Seq(S) /\ Len(W) = 2 /\ W[1] = P /\ W[2] = Q /\ n \in Nat
  BY <1>1, LenProperties
<1> HIDE DEF W, n
<1>3. /\ W \o X \in Seq(S) /\ Len(W \o X) = 2 + n
      /\ \A i \in 1 .. 2 + n :
           (W \o X)[i] = IF i <= 2 THEN W[i] ELSE X[i - 2]
  <2>1. /\ W \o X \in Seq(S) /\ Len(W \o X) = Len(W) + Len(X)
        /\ \A i \in 1 .. Len(W) + Len(X) :
             (W \o X)[i] = IF i <= Len(W) THEN W[i] ELSE X[i - Len(W)]
    BY <1>1, <1>2, ConcatProperties
  <2>2. QED
    BY <1>2, <2>1 DEF n
<1>4. /\ X \o W \in Seq(S) /\ Len(X \o W) = n + 2
      /\ \A i \in 1 .. n + 2 :
           (X \o W)[i] = IF i <= n THEN X[i] ELSE W[i - n]
  <2>1. /\ X \o W \in Seq(S) /\ Len(X \o W) = Len(X) + Len(W)
        /\ \A i \in 1 .. Len(X) + Len(W) :
             (X \o W)[i] = IF i <= Len(X) THEN X[i] ELSE W[i - Len(X)]
    BY <1>1, <1>2, ConcatProperties
  <2>2. QED
    BY <1>2, <2>1 DEF n
<1>5. DOMAIN (W \o X) = 1 .. 2 + n /\ DOMAIN (X \o W) = 1 .. n + 2
  BY <1>3, <1>4, LenProperties
<1>6. /\ 1 \in 1 .. 2 + n /\ 2 \in 1 .. 2 + n
      /\ n + 1 \in 1 .. n + 2 /\ n + 2 \in 1 .. n + 2
  BY <1>2
<1>7. Contains(W \o X, P, Q) /\ Contains(X \o W, P, Q)
  <2>1. (W \o X)[1] = P /\ (W \o X)[2] = Q
    BY <1>2, <1>3, <1>6
  <2>2. (X \o W)[n + 1] = P /\ (X \o W)[n + 2] = Q
    BY <1>2, <1>4, <1>6
  <2>3. QED
    BY <1>5, <1>6, <2>1, <2>2 DEF Contains
<1>8. QED
  BY <1>7 DEF W

\* Where the columns of side s of relationship e must agree with those of the
\* anchor of the slot there.
AtAnchor(f, e, s) ==
  LET i == SlotOn(e, s) a == slots[i].anchor t == slots[i].onTarget IN
  /\ f[e][IdColumn(s)] = f[a][IdColumn(t)]
  /\ f[e][NameColumn(s)] = f[a][NameColumn(t)]

\* What the ON clause of a relationship says: each side is its slot's anchor.
LEMMA TieToAnchor ==
  ASSUME TypeOK, Anchored, NEW f, NEW e \in DOMAIN edges, TiesHold(f, e),
         edges[e].src # edges[e].tgt, NEW s \in BOOLEAN
  PROVE  AtAnchor(f, e, s)
<1> DEFINE i == SlotOn(e, s)
           a == slots[i].anchor
           t == slots[i].onTarget
           P == <<EdgeRef(e, IdColumn(s)), EdgeRef(a, IdColumn(t))>>
           Q == <<EdgeRef(e, NameColumn(s)), EdgeRef(a, NameColumn(t))>>
<1>1. /\ i \in DOMAIN slots /\ a \in 1 .. e /\ a # 0
      /\ SlotOn(a, t) = i /\ e \in Nat
  <2>1. e \in Nat
    BY DEF TypeOK
  <2>2. i \in DOMAIN slots /\ a \in 1 .. e
    BY DEF Anchored
  <2> HIDE DEF i
  <2>3. a # 0
    BY <2>1, <2>2
  <2>4. SlotOn(a, t) = i
    BY <2>2, <2>3 DEF Anchored
  <2>5. QED
    BY <2>1, <2>2, <2>3, <2>4
<1>2. t \in BOOLEAN
  <2>1. slots[i] \in SlotRecords
    BY <1>1 DEF TypeOK
  <2>2. QED
    BY <2>1 DEF SlotRecords
<1>3. CASE a = e
  <2>1. t = s
    BY <1>1, <1>2, <1>3 DEF SlotOn
  <2>2. QED
    BY <1>3, <2>1 DEF AtAnchor
<1>4. CASE a # e
  <2>1. e # 1
    BY <1>1, <1>4
  <2>2. Ties(e, i, s) = <<P, Q>>
    BY <1>4 DEF Ties
  <2> DEFINE X == Ties(e, edges[e].src, FALSE)
             Y == Ties(e, edges[e].tgt, TRUE)
  <2>3. EdgeTies(e) = X \o Y
    BY <2>1 DEF EdgeTies
  <2>4. NoneOrTwo(X) /\ NoneOrTwo(Y)
    BY DEF Ties, NoneOrTwo
  <2>5. X = <<P, Q>> \/ Y = <<P, Q>>
    BY <2>2 DEF SlotOn
  <2> HIDE DEF X, Y, P, Q
  <2>6. Contains(EdgeTies(e), P, Q)
    <3>1. CASE X = <<P, Q>>
      BY <2>3, <2>4, <3>1, Pairs
    <3>2. CASE Y = <<P, Q>>
      BY <2>3, <2>4, <3>2, Pairs
    <3>3. QED
      BY <2>5, <3>1, <3>2
  <2>7. \A j \in DOMAIN EdgeTies(e) :
          f[EdgeTies(e)[j][1].of[2]][EdgeTies(e)[j][1].col]
            = f[EdgeTies(e)[j][2].of[2]][EdgeTies(e)[j][2].col]
    BY DEF TiesHold
  <2>8. /\ f[P[1].of[2]][P[1].col] = f[P[2].of[2]][P[2].col]
        /\ f[Q[1].of[2]][Q[1].col] = f[Q[2].of[2]][Q[2].col]
    BY <2>6, <2>7 DEF Contains
  <2>9. /\ P[1].of[2] = e /\ P[1].col = IdColumn(s)
        /\ P[2].of[2] = a /\ P[2].col = IdColumn(t)
        /\ Q[1].of[2] = e /\ Q[1].col = NameColumn(s)
        /\ Q[2].of[2] = a /\ Q[2].col = NameColumn(t)
    BY DEF P, Q, EdgeRef
  <2>10. QED
    BY <2>8, <2>9 DEF AtAnchor
<1>5. QED
  BY <1>3, <1>4

\* Where every occurrence is tied to its slot's anchor, the relationships that
\* meet at a slot agree on the node there.
LEMMA AnchorsMakeNodes == TypeOK /\ Anchored => SlotsAreNodes
<1> SUFFICES ASSUME TypeOK, Anchored,
                    \A e \in DOMAIN edges : edges[e].src # edges[e].tgt,
                    NEW f, \A e \in DOMAIN edges : TiesHold(f, e),
                    NEW e \in DOMAIN edges, NEW g \in DOMAIN edges,
                    NEW s \in BOOLEAN, NEW t \in BOOLEAN,
                    SlotOn(e, s) = SlotOn(g, t)
             PROVE  /\ f[e][IdColumn(s)] = f[g][IdColumn(t)]
                    /\ f[e][NameColumn(s)] = f[g][NameColumn(t)]
  BY DEF SlotsAreNodes
<1>1. AtAnchor(f, e, s) /\ AtAnchor(f, g, t)
  BY TieToAnchor
<1>2. QED
  BY <1>1 DEF AtAnchor

\* transform.c:21-24: for every query without a relationship from a node to
\* itself, the ON clauses make the relationships that meet at a slot agree on
\* the id and the name of the node there.
THEOREM GeneralSlotsAreNodes == Spec => []SlotsAreNodes
<1>1. TInv => SlotsAreNodes
  <2>1. CASE Engine = "directed"
    BY <2>1, IInvImplies, AnchorsMakeNodes DEF TInv
  <2>2. CASE Engine # "directed"
    <3> SUFFICES ASSUME TInv, pc = "from",
                        \A e \in DOMAIN edges : edges[e].src # edges[e].tgt
                 PROVE  \A e, g \in DOMAIN edges, s, t \in BOOLEAN :
                          SlotOn(e, s) = SlotOn(g, t) => e = g /\ s = t
      BY DEF SlotsAreNodes
    <3>1. DOMAIN edges = {1}
      BY <2>2 DEF TInv, HopInv
    <3>2. QED
      BY <3>1 DEF SlotOn
  <2>3. QED
    BY <2>1, <2>2
<1>2. QED
  BY <1>1, Translating, PTL

-----------------------------------------------------------------------------
(* What the ON clauses read *)

\* The phases before any item of FROM is written, and those after the last
\* relationship is.
Early == {"dispatch", "collect", "resolve", "mark", "bind", "select", "where",
          "order", "group"}
Late == {"lone", "join", "pred", "page", "done"}

\* The items of FROM are first the relationships, in their order.
EdgesFirst(n) ==
  n <= Len(sql.from) /\ \A e \in 1 .. n : sql.from[e].of = <<"edge", e>>
FromInv ==
  /\ "from" \in DOMAIN sql /\ \E S : sql.from \in Seq(S)
  /\ pc \in Early => sql.from = <<>>
  /\ pc = "from" => EdgesFirst(k - 1) /\ Len(sql.from) = k - 1
  /\ pc \in Late => EdgesFirst(Len(edges))

\* Slots that no relationship touches are found out before the binds are made.
LoneInv ==
  Engine = "directed" =>
    \A i \in DOMAIN slots :
      \/ pc \in {"dispatch", "collect", "resolve", "failed"}
      \/ pc = "mark" /\ k <= i
      \/ slots[i].lone = (slots[i].anchor = 0)

LInv == TInv /\ FromInv /\ LoneInv /\ OnReadsLeft

\* A step that writes no item of FROM.
LEMMA FromKept ==
  ASSUME FromInv, OnReadsLeft, "from" \in DOMAIN sql', sql'.from = sql.from,
         \/ pc' = "failed"
         \/ pc' = pc /\ pc \in Early
         \/ pc' \in Late /\ pc' = pc /\ edges' = edges
         \/ pc \in Early /\ pc' \in Early
  PROVE  FromInv' /\ OnReadsLeft'
<1>1. OnReadsLeft'
  BY DEF OnReadsLeft
<1>2. FromInv'
  BY DEF FromInv, EdgesFirst, Early, Late
<1>3. QED
  BY <1>1, <1>2

\* An item that reads what is on its left, or itself.
ReadsLeft(item) ==
  \A c \in Range(item.on), s \in {1, 2} :
    c[s].of = item.of \/ \E i \in 1 .. Len(sql.from) : sql.from[i].of = c[s].of

\* An item of FROM whose ON reads only items to its left is appended:
LEMMA Appended ==
  ASSUME FromInv, OnReadsLeft, NEW item, ReadsLeft(item),
         "from" \in DOMAIN sql', sql'.from = Append(sql.from, item)
  PROVE  /\ OnReadsLeft'
         /\ "from" \in DOMAIN sql' /\ \E S : sql'.from \in Seq(S)
         /\ Len(sql'.from) = Len(sql.from) + 1
         /\ Len(sql.from) \in Nat
         /\ \A n \in 1 .. Len(sql.from) : sql'.from[n] = sql.from[n]
         /\ sql'.from[Len(sql.from) + 1] = item
<1>1. PICK S : sql.from \in Seq(S)
  BY DEF FromInv
<1> DEFINE n == Len(sql.from)
           Wider == S \cup {item}
<1>2. n \in Nat /\ DOMAIN sql.from = 1 .. n
  BY <1>1, LenProperties
<1>3. sql.from \in Seq(Wider) /\ item \in Wider
  BY <1>1, SeqDef
<1>4. /\ sql'.from \in Seq(Wider) /\ Len(sql'.from) = n + 1
      /\ \A m \in 1 .. n : sql'.from[m] = sql.from[m]
      /\ sql'.from[n + 1] = item
  BY <1>3, AppendProperties
<1>5. DOMAIN sql'.from = 1 .. n + 1
  BY <1>4, LenProperties
<1>6. ASSUME NEW j \in DOMAIN sql'.from, NEW c \in Range(sql'.from[j].on),
             NEW s \in {1, 2}
      PROVE  \E i \in 1 .. j : sql'.from[i].of = c[s].of
  <2>1. CASE j = n + 1
    <3>1. sql'.from[j] = item
      BY <1>4, <2>1
    <3>2. c \in Range(item.on)
      BY <1>6, <3>1
    <3>3. \/ c[s].of = item.of
          \/ \E i \in 1 .. n : sql.from[i].of = c[s].of
      BY <1>6, <3>2 DEF ReadsLeft
    <3>4. QED
      BY <1>2, <1>4, <2>1, <3>1, <3>3
  <2>2. CASE j # n + 1
    <3>1. j \in 1 .. n /\ j \in DOMAIN sql.from
      BY <1>2, <1>5, <2>2
    <3>2. sql'.from[j] = sql.from[j]
      BY <1>4, <3>1
    <3>3. \E i \in 1 .. j : sql.from[i].of = c[s].of
      BY <1>6, <3>1, <3>2 DEF OnReadsLeft
    <3>4. QED
      BY <1>2, <1>4, <3>1, <3>3
  <2>3. QED
    BY <2>1, <2>2
<1>7. OnReadsLeft'
  BY <1>6 DEF OnReadsLeft
<1>8. QED
  BY <1>2, <1>4, <1>7

\* The item of the relationship the loop looks at, and an item of a node.
LEMMA EdgeAppended ==
  ASSUME FromInv, OnReadsLeft, TypeOK, pc = "from", pc' = "from", k' = k + 1,
         NEW item, ReadsLeft(item), item.of = <<"edge", k>>,
         "from" \in DOMAIN sql', sql'.from = Append(sql.from, item)
  PROVE  FromInv' /\ OnReadsLeft'
<1>1. /\ OnReadsLeft'
      /\ "from" \in DOMAIN sql' /\ \E S : sql'.from \in Seq(S)
      /\ Len(sql'.from) = Len(sql.from) + 1 /\ Len(sql.from) \in Nat
      /\ \A n \in 1 .. Len(sql.from) : sql'.from[n] = sql.from[n]
      /\ sql'.from[Len(sql.from) + 1] = item
  BY Appended
<1>2. k \in Nat /\ Len(sql.from) = k - 1
      /\ \A e \in 1 .. k - 1 : sql.from[e].of = <<"edge", e>>
  BY DEF FromInv, EdgesFirst, TypeOK
<1>3. ASSUME NEW e \in 1 .. k
      PROVE  sql'.from[e].of = <<"edge", e>>
  <2>1. CASE e = k
    <3>1. sql'.from[e] = item
      BY <1>1, <1>2, <2>1
    <3>2. QED
      BY <2>1, <3>1
  <2>2. CASE e # k
    <3>1. e \in 1 .. k - 1 /\ e \in 1 .. Len(sql.from)
      BY <1>2, <2>2
    <3>2. sql'.from[e] = sql.from[e] /\ sql.from[e].of = <<"edge", e>>
      BY <1>1, <1>2, <3>1
    <3>3. QED
      BY <3>2
  <2>3. QED
    BY <2>1, <2>2
<1>4. (EdgesFirst(k - 1) /\ Len(sql.from) = k - 1)'
  <2>1. k' - 1 = k /\ Len(sql'.from) = k
    BY <1>1, <1>2
  <2>2. \A e \in 1 .. k' - 1 : sql'.from[e].of = <<"edge", e>>
    BY <1>3, <2>1
  <2>3. QED
    BY <1>1, <2>1, <2>2 DEF EdgesFirst
<1>5. QED
  BY <1>1, <1>4 DEF FromInv, Early, Late

\* in particular, a lone slot's.
LEMMA NodeAppended ==
  ASSUME FromInv, OnReadsLeft, TypeOK, pc \in Late, pc' = pc, edges' = edges,
         NEW item, ReadsLeft(item),
         "from" \in DOMAIN sql', sql'.from = Append(sql.from, item)
  PROVE  FromInv' /\ OnReadsLeft'
<1>1. /\ OnReadsLeft'
      /\ "from" \in DOMAIN sql' /\ \E S : sql'.from \in Seq(S)
      /\ Len(sql'.from) = Len(sql.from) + 1 /\ Len(sql.from) \in Nat
      /\ \A n \in 1 .. Len(sql.from) : sql'.from[n] = sql.from[n]
  BY Appended
<1>2. Len(edges) \in Nat /\ EdgesFirst(Len(edges))
  BY LenProperties DEF FromInv, TypeOK
<1>3. EdgesFirst(Len(edges))'
  BY <1>1, <1>2 DEF EdgesFirst
<1>4. QED
  BY <1>1, <1>3 DEF FromInv, Early, Late

\* The steps of the engines that write no item.
LEMMA PhaseKeepsFrom ==
  ASSUME FromInv, OnReadsLeft, TypeOK, NextPhase \/ NextHopPhase
  PROVE  FromInv' /\ OnReadsLeft'
<1>1. sql' = sql /\ edges' = edges /\ k' = 1 /\ Len(edges) \in Nat /\ k \in Nat
  BY LenProperties DEF NextPhase, NextHopPhase, TypeOK
<1>2. \/ pc \in Early /\ pc' \in Early
      \/ pc = "group" /\ pc' = "from"
      \/ pc = "from" /\ pc' \in Late
      \/ pc \in Late /\ pc' \in Late
  <2>1. CASE NextPhase
    <3>1. PICK i \in 1 .. 13 : pc = Phases[i] /\ pc' = Phases[i + 1]
      BY <2>1, PhasesAre DEF NextPhase
    <3>2. QED
      BY <3>1 DEF Phases, Early, Late
  <2>2. CASE NextHopPhase
    <3>1. PICK i \in 1 .. 8 : pc = HopPhases[i] /\ pc' = HopPhases[i + 1]
      BY <2>2 DEF NextHopPhase, HopPhases
    <3>2. QED
      BY <3>1 DEF HopPhases, Early, Late
  <2>3. QED
    BY <2>1, <2>2
<1>3. CASE pc \in Early /\ pc' \in Early
  BY <1>1, <1>3, FromKept DEF FromInv
<1>4. OnReadsLeft' /\ ("from" \in DOMAIN sql /\ \E S : sql.from \in Seq(S))'
  <2>1. OnReadsLeft'
    BY <1>1 DEF OnReadsLeft
  <2>2. ("from" \in DOMAIN sql /\ \E S : sql.from \in Seq(S))'
    BY <1>1 DEF FromInv
  <2>3. QED
    BY <2>1, <2>2
<1>5. CASE pc = "group" /\ pc' = "from"
  <2>1. sql.from = <<>>
    BY <1>5 DEF FromInv, Early
  <2>2. (EdgesFirst(k - 1) /\ Len(sql.from) = k - 1)'
    BY <1>1, <2>1 DEF EdgesFirst
  <2>3. QED
    BY <1>4, <1>5, <2>2 DEF FromInv, Early, Late
<1>6. CASE pc = "from" /\ pc' \in Late
  <2>1. Len(edges) < k
    <3>1. PhaseLength < k
      BY <1>6 DEF NextPhase, NextHopPhase
    <3>2. PhaseLength = Len(edges)
      BY <1>6 DEF PhaseLength
    <3>3. QED
      BY <3>1, <3>2
  <2>2. EdgesFirst(Len(edges))
    BY <1>1, <1>6, <2>1 DEF FromInv, EdgesFirst
  <2>3. EdgesFirst(Len(edges))'
    BY <1>1, <2>2 DEF EdgesFirst
  <2>4. QED
    BY <1>4, <1>6, <2>3 DEF FromInv, Early, Late
<1>7. CASE pc \in Late /\ pc' \in Late
  <2>1. EdgesFirst(Len(edges))'
    BY <1>1, <1>7 DEF FromInv, EdgesFirst
  <2>2. QED
    BY <1>4, <1>7, <2>1 DEF FromInv, Early, Late
<1>8. QED
  BY <1>2, <1>3, <1>5, <1>6, <1>7

\* The clauses other than FROM leave its items alone.
LEMMA ClauseKeepsFrom ==
  ASSUME FromInv, OnReadsLeft, TypeOK, EmitClauses
  PROVE  FromInv' /\ OnReadsLeft'
<1>1. CASE EmitSelect \/ EmitWhere \/ OrderByAlias \/ EmitPage
  <2>1. /\ "from" \in DOMAIN sql' /\ sql'.from = sql.from /\ edges' = edges
        /\ pc' = pc /\ (pc \in Early \/ pc \in Late)
    BY <1>1 DEF EmitSelect, EmitWhere, OrderByAlias, EmitPage, AtStep, FromInv, Early, Late
  <2>2. QED
    BY <2>1, FromKept
<1>2. CASE EmitOrder \/ EmitGroup
  <2>1. /\ "from" \in DOMAIN sql' /\ sql'.from = sql.from /\ edges' = edges
        /\ pc' = pc /\ pc \in Early
    BY <1>2 DEF EmitOrder, EmitGroup, Emit, AtStep, FromInv, Early
  <2>2. QED
    BY <2>1, FromKept
<1>3. CASE SkipGroup
  BY <1>3, FromKept DEF SkipGroup, Skip, AtStep, FromInv, Early
<1>4. CASE SelectFail \/ WhereFail \/ OrderFail
  BY <1>4, FromKept DEF SelectFail, WhereFail, OrderFail, Reject, FromInv
<1>5. QED
  BY <1>1, <1>2, <1>3, <1>4 DEF EmitClauses

\* A tie is between the relationship and the anchor of its slot.
LEMMA TieReads ==
  ASSUME NEW e, NEW i, NEW t, NEW c \in Range(Ties(e, i, t)), NEW s \in {1, 2}
  PROVE  c[s].of = <<"edge", e>> \/ c[s].of = <<"edge", slots[i].anchor>>
<1> DEFINE a == slots[i].anchor
           u == <<EdgeRef(e, IdColumn(t)), EdgeRef(a, IdColumn(slots[i].onTarget))>>
           v == <<EdgeRef(e, NameColumn(t)), EdgeRef(a, NameColumn(slots[i].onTarget))>>
<1>1. Ties(e, i, t) = <<>> \/ Ties(e, i, t) = <<u, v>>
  BY DEF Ties
<1>2. c = u \/ c = v
  <2> HIDE DEF u, v
  <2>1. QED
    BY <1>1 DEF Range
<1>3. QED
  BY <1>2 DEF EdgeRef

\* The equalities that tie an end of a relationship are a sequence.
LEMMA TiesAreSeq ==
  ASSUME NEW e, NEW i, NEW t
  PROVE  Ties(e, i, t) \in Seq(Range(Ties(e, i, t)))
<1> DEFINE a == slots[i].anchor
           u == <<EdgeRef(e, IdColumn(t)), EdgeRef(a, IdColumn(slots[i].onTarget))>>
           v == <<EdgeRef(e, NameColumn(t)), EdgeRef(a, NameColumn(slots[i].onTarget))>>
<1>1. Ties(e, i, t) = <<>> \/ Ties(e, i, t) = <<u, v>>
  BY DEF Ties
<1> HIDE DEF u, v
<1>2. CASE Ties(e, i, t) = <<>>
  BY <1>2, EmptySeq
<1>3. CASE Ties(e, i, t) = <<u, v>>
  <2>1. u \in Range(<<u, v>>) /\ v \in Range(<<u, v>>)
    <3>1. 1 \in DOMAIN <<u, v>> /\ 2 \in DOMAIN <<u, v>>
      OBVIOUS
    <3>2. QED
      BY <3>1 DEF Range
  <2>2. <<u, v>> \in Seq(Range(<<u, v>>))
    BY <2>1
  <2>3. QED
    BY <1>3, <2>2
<1>4. QED
  BY <1>1, <1>2, <1>3

\* What a concatenation holds one of its parts holds.
LEMMA ConcatRange ==
  ASSUME NEW X, NEW Y, X \in Seq(Range(X)), Y \in Seq(Range(Y)),
         NEW c \in Range(X \o Y)
  PROVE  c \in Range(X) \/ c \in Range(Y)
<1> DEFINE Both == Range(X) \cup Range(Y)
<1>1. X \in Seq(Both) /\ Y \in Seq(Both)
  BY SeqDef
<1>2. X \o Y \in Seq(Both)
  BY <1>1, ConcatProperties
<1>3. QED
  BY <1>2, LenProperties, ElementOfSeq DEF Range

\* A relationship's ON reads it and the anchors, which are to its left;
LEMMA EdgeReadsLeft ==
  ASSUME IInv, FromInv, AtStep("from"), NEW item,
         item.on = EdgeTies(k), item.of = <<"edge", k>>
  PROVE  ReadsLeft(item)
<1>1. /\ k \in DOMAIN edges /\ k \in Nat /\ Len(sql.from) = k - 1
      /\ \A e \in 1 .. k - 1 : sql.from[e].of = <<"edge", e>>
  BY LenProperties DEF AtStep, PhaseLength, IInv, TypeOK, FromInv, EdgesFirst
<1>2. slots[edges[k].src].anchor \in 1 .. k /\ slots[edges[k].tgt].anchor \in 1 .. k
  BY <1>1 DEF IInv, SidesIn
<1>3. ASSUME NEW c \in Range(item.on), NEW s \in {1, 2}
      PROVE  \E a \in 1 .. k : c[s].of = <<"edge", a>>
  <2>1. k # 1
    <3>1. ASSUME k = 1 PROVE item.on = <<>>
      BY <3>1 DEF EdgeTies
    <3>2. Range(<<>>) = {}
      BY DEF Range
    <3>3. QED
      BY <1>3, <3>1, <3>2
  <2>2. \/ c \in Range(Ties(k, edges[k].src, FALSE))
        \/ c \in Range(Ties(k, edges[k].tgt, TRUE))
    BY <1>3, <2>1, TiesAreSeq, ConcatRange DEF EdgeTies
  <2>3. \/ c[s].of = <<"edge", k>>
        \/ c[s].of = <<"edge", slots[edges[k].src].anchor>>
        \/ c[s].of = <<"edge", slots[edges[k].tgt].anchor>>
    <3>1. ASSUME NEW i, NEW t, c \in Range(Ties(k, i, t))
          PROVE  \/ c[s].of = <<"edge", k>>
                 \/ c[s].of = <<"edge", slots[i].anchor>>
      BY <1>3, <3>1, TieReads
    <3>2. QED
      BY <2>2, <3>1
  <2>4. k \in 1 .. k
    BY <1>1, LenProperties DEF IInv, TypeOK
  <2>5. QED
    BY <1>2, <2>3, <2>4
<1>4. ASSUME NEW c \in Range(item.on), NEW s \in {1, 2}
      PROVE  \/ c[s].of = item.of
             \/ \E i \in 1 .. Len(sql.from) : sql.from[i].of = c[s].of
  <2>1. PICK a \in 1 .. k : c[s].of = <<"edge", a>>
    BY <1>3
  <2>2. CASE a = k
    BY <2>1, <2>2
  <2>3. CASE a # k
    <3>1. a \in 1 .. k - 1
      BY <1>1, <2>3
    <3>2. QED
      BY <1>1, <2>1, <3>1
  <2>4. QED
    BY <2>2, <2>3
<1>5. QED
  BY <1>4 DEF ReadsLeft

\* an item with no ON reads nothing.
LEMMA NothingReadsLeft ==
  ASSUME NEW item, item.on = <<>>
  PROVE  ReadsLeft(item)
<1>1. Range(<<>>) = {}
  BY DEF Range
<1>2. QED
  BY <1>1 DEF ReadsLeft

\* A node is joined by its own id to the relationship it is anchored to.
LEMMA NodeReadsLeft ==
  ASSUME FromInv, pc \in Late, Len(edges) \in Nat,
         NEW item, NEW id, NEW ref, NEW e \in 1 .. Len(edges),
         item.on = <<<<id, ref>>>>, id.of = item.of, ref.of = <<"edge", e>>
  PROVE  ReadsLeft(item)
<1>1. PICK S : sql.from \in Seq(S)
  BY DEF FromInv
<1>2. Len(sql.from) \in Nat /\ EdgesFirst(Len(edges))
  BY <1>1, LenProperties DEF FromInv
<1>3. e \in 1 .. Len(sql.from) /\ sql.from[e].of = <<"edge", e>>
  BY <1>2 DEF EdgesFirst
<1>4. ASSUME NEW c \in Range(item.on)
      PROVE  c = <<id, ref>>
  <2> DEFINE p == <<id, ref>>
  <2>1. item.on = <<p>>
    OBVIOUS
  <2> HIDE DEF p
  <2>2. c = p
    BY <1>4, <2>1 DEF Range
  <2>3. QED
    BY <2>2 DEF p
<1>5. QED
  BY <1>3, <1>4 DEF ReadsLeft

\* Each step of the directed engine keeps what is said of FROM,
LEMMA GeneralKeepsLeft ==
  ASSUME IInv, FromInv, LoneInv, OnReadsLeft, Engine = "directed", GeneralNext
  PROVE  FromInv' /\ OnReadsLeft'
<1>1. TypeOK /\ Len(edges) \in Nat /\ Len(slots) \in Nat
      /\ DOMAIN edges = 1 .. Len(edges) /\ DOMAIN slots = 1 .. Len(slots)
  BY LenProperties DEF IInv, TypeOK
<1>2. CASE CollectStart \/ CollectSegment
  <2>1. sql' = sql /\ pc' = pc /\ pc \in Early
    BY <1>2 DEF CollectStart, CollectSegment, AtSegment, Early
  <2>2. QED
    BY <2>1, FromKept DEF FromInv
<1>3. CASE CollectFail \/ ResolveFail \/ MarkFail \/ PredsFail
  <2>1. sql' = sql /\ pc' = "failed"
    BY <1>3 DEF CollectFail, ResolveFail, MarkFail, PredsFail, Reject
  <2>2. QED
    BY <2>1, FromKept DEF FromInv
<1>4. CASE NextPhase
  BY <1>1, <1>4, PhaseKeepsFrom
<1>5. CASE ResolveSlot \/ MarkSlot \/ Bind
  <2>1. sql' = sql /\ pc' = pc /\ pc \in Early
    BY <1>5 DEF ResolveSlot, MarkSlot, Bind, AtStep, Early
  <2>2. QED
    BY <2>1, FromKept DEF FromInv
<1>6. CASE \/ EmitSelect \/ SelectFail \/ EmitWhere \/ WhereFail
           \/ OrderByAlias \/ EmitOrder \/ OrderFail \/ EmitGroup \/ SkipGroup
           \/ EmitPage
  BY <1>1, <1>6, ClauseKeepsFrom DEF EmitClauses
<1>7. CASE SkipLone \/ SkipJoin
  <2>1. sql' = sql /\ pc' = pc /\ pc \in Late /\ edges' = edges
    BY <1>7 DEF SkipLone, SkipJoin, Skip, AtStep, Late
  <2>2. QED
    BY <2>1, FromKept DEF FromInv
<1>8. CASE EmitPreds
  <2>1. /\ "from" \in DOMAIN sql' /\ sql'.from = sql.from
        /\ pc' = pc /\ pc \in Late /\ edges' = edges
    BY <1>8 DEF EmitPreds, AtStep, Late, FromInv
  <2>2. QED
    BY <2>1, FromKept
<1>9. CASE FromEdge
  <2> DEFINE item == FromItem(EdgeTable, EdgeAlias(k), EdgeTies(k), <<"edge", k>>)
  <2>1. /\ pc = "from" /\ pc' = "from" /\ k' = k + 1 /\ AtStep("from")
        /\ "from" \in DOMAIN sql' /\ sql'.from = Append(sql.from, item)
    BY <1>9 DEF FromEdge, AddFrom, AtStep, FromInv
  <2>2. item.on = EdgeTies(k) /\ item.of = <<"edge", k>>
    BY DEF FromItem
  <2> HIDE DEF item
  <2>3. QED
    BY <1>1, <2>1, <2>2, EdgeReadsLeft, EdgeAppended
<1>10. CASE FromLone
  <2> DEFINE item == FromItem(slots[k].label, SlotAlias(k), <<>>, <<"slot", k>>)
  <2>1. /\ pc \in Late /\ pc' = pc /\ edges' = edges
        /\ "from" \in DOMAIN sql' /\ sql'.from = Append(sql.from, item)
    BY <1>10 DEF FromLone, AddFrom, AtStep, FromInv, Late
  <2>2. item.on = <<>>
    BY DEF FromItem
  <2> HIDE DEF item
  <2>3. QED
    BY <1>1, <2>1, <2>2, NothingReadsLeft, NodeAppended
<1>11. CASE FromNode
  <2> DEFINE e == slots[k].anchor
             id == [alias |-> SlotAlias(k), col |-> "id", of |-> <<"slot", k>>]
             ref == EdgeRef(e, IdColumn(slots[k].onTarget))
             item == FromItem(slots[k].label, SlotAlias(k), <<<<id, ref>>>>, <<"slot", k>>)
  <2>1. /\ pc = "join" /\ pc' = pc /\ edges' = edges
        /\ "from" \in DOMAIN sql' /\ sql'.from = Append(sql.from, item)
    BY <1>11 DEF FromNode, AddFrom, AtStep, FromInv
  <2>2. k \in DOMAIN slots /\ ~slots[k].lone
    BY <1>1, <1>11 DEF FromNode, AtStep, PhaseLength, Joins, IInv, TypeOK
  <2>3. slots[k].anchor # 0
    BY <2>1, <2>2 DEF LoneInv
  <2>4. e \in 1 .. Len(edges)
    BY <1>1, <2>2, <2>3 DEF IInv, AnchorsIn
  <2>5. item.on = <<<<id, ref>>>> /\ id.of = item.of /\ ref.of = <<"edge", e>>
    BY DEF FromItem, EdgeRef
  <2> HIDE DEF item, id, ref, e
  <2>6. ReadsLeft(item)
    BY <1>1, <2>1, <2>4, <2>5, NodeReadsLeft DEF Late
  <2>7. QED
    BY <1>1, <2>1, <2>6, NodeAppended DEF Late
<1>12. QED
  BY <1>2, <1>3, <1>4, <1>5, <1>6, <1>7, <1>8, <1>9, <1>10, <1>11 DEF GeneralNext

\* and each step of the others does.
LEMMA HopsKeepLeft ==
  ASSUME TypeOK, FromInv, OnReadsLeft, UndirectedNext \/ VarlenNext,
         pc \notin {"dispatch", "collect", "failed"} => DOMAIN edges = {1}
  PROVE  FromInv' /\ OnReadsLeft'
<1>1. Len(edges) \in Nat /\ DOMAIN edges = 1 .. Len(edges) /\ k \in Nat
  BY LenProperties DEF TypeOK
<1>2. CASE OpenUndirected \/ OpenVarlen
  <2>1. sql' = sql /\ pc \in Early /\ pc' \in Early
    BY <1>2 DEF OpenUndirected, OpenVarlen, OpenHop, HopPhases, Early
  <2>2. QED
    BY <2>1, FromKept DEF FromInv
<1>3. CASE RefuseUndirected \/ RefusePreds \/ RefuseVarlen
  <2>1. sql' = sql /\ pc' = "failed"
    BY <1>3 DEF RefuseUndirected, RefusePreds, RefuseVarlen, Reject
  <2>2. QED
    BY <2>1, FromKept DEF FromInv
<1>4. CASE NextHopPhase
  BY <1>4, PhaseKeepsFrom
<1>5. CASE EmitClauses
  BY <1>5, ClauseKeepsFrom
<1>6. CASE FromUndirected
  <2> DEFINE item == FromItem(EdgeTable, EdgeAlias(k), <<>>, <<"edge", k>>)
  <2>1. /\ pc = "from" /\ pc' = "from" /\ k' = k + 1
        /\ "from" \in DOMAIN sql' /\ sql'.from = Append(sql.from, item)
    BY <1>6 DEF FromUndirected, FromHop, AddFrom, AtStep, FromInv
  <2>2. item.on = <<>> /\ item.of = <<"edge", k>>
    BY DEF FromItem
  <2> HIDE DEF item
  <2>3. QED
    BY <2>1, <2>2, NothingReadsLeft, EdgeAppended
<1>7. CASE FromWalk
  <2> DEFINE item == FromItem(WalkTable, EdgeAlias(1), <<>>, <<"edge", 1>>)
  <2>1. /\ pc = "from" /\ pc' = "from" /\ k' = k + 1
        /\ "from" \in DOMAIN sql' /\ sql'.from = Append(sql.from, item)
    BY <1>7 DEF FromWalk, AtStep, FromInv
  <2>2. item.on = <<>> /\ item.of = <<"edge", 1>>
    BY DEF FromItem
  <2>3. k = 1
    <3>1. k <= Len(edges) /\ Len(edges) = 1 /\ k # 0
      BY <1>1, <1>7, <2>1 DEF FromWalk, AtStep, PhaseLength, TypeOK
    <3>2. QED
      BY <1>1, <3>1
  <2> HIDE DEF item
  <2>4. QED
    BY <2>1, <2>2, <2>3, NothingReadsLeft, EdgeAppended
<1>8. CASE JoinUndirected
  <2> DEFINE item == FromItem(slots[k].label, slots[k].var, <<>>, <<"slot", k>>)
  <2>1. /\ pc \in Late /\ pc' = pc /\ edges' = edges
        /\ "from" \in DOMAIN sql' /\ sql'.from = Append(sql.from, item)
    BY <1>8 DEF JoinUndirected, JoinEnd, AddFrom, AtStep, FromInv, Late
  <2>2. item.on = <<>>
    BY DEF FromItem
  <2> HIDE DEF item
  <2>3. QED
    BY <2>1, <2>2, NothingReadsLeft, NodeAppended
<1>9. CASE JoinWalk
  <2> DEFINE i == SlotOf(Side)
             id == [alias |-> slots[i].var, col |-> "id", of |-> <<"slot", i>>]
             ref == EdgeRef(1, IdColumn(Side = "target"))
             item == FromItem(slots[i].label, slots[i].var, <<<<id, ref>>>>, <<"slot", i>>)
  <2>1. /\ pc = "join" /\ pc' = pc /\ edges' = edges
        /\ "from" \in DOMAIN sql' /\ sql'.from = Append(sql.from, item)
    BY <1>9 DEF JoinWalk, JoinEnd, AddFrom, AtStep, FromInv
  <2>2. 1 \in 1 .. Len(edges)
    BY <1>1, <2>1
  <2>3. item.on = <<<<id, ref>>>> /\ id.of = item.of /\ ref.of = <<"edge", 1>>
    BY DEF FromItem, EdgeRef
  <2> HIDE DEF item, id, ref, i
  <2>4. ReadsLeft(item)
    BY <1>1, <2>1, <2>2, <2>3, NodeReadsLeft DEF Late
  <2>5. QED
    BY <2>1, <2>4, NodeAppended DEF Late
<1>10. CASE SkipUndirected \/ SkipWalk
  <2>1. sql' = sql /\ pc' = pc /\ pc \in Late /\ edges' = edges
    BY <1>10 DEF SkipUndirected, SkipWalk, SkipEnd, Skip, AtStep, Late
  <2>2. QED
    BY <2>1, FromKept DEF FromInv
<1>11. CASE PredsUndirected \/ PredsWalk
  <2>1. /\ "from" \in DOMAIN sql' /\ sql'.from = sql.from
        /\ pc' = pc /\ pc \in Late /\ edges' = edges
    BY <1>11 DEF PredsUndirected, PredsWalk, AddPreds, AtStep, Late, FromInv
  <2>2. QED
    BY <2>1, FromKept
<1>12. QED
  BY <1>2, <1>3, <1>4, <1>5, <1>6, <1>7, <1>8, <1>9, <1>10, <1>11
  DEF UndirectedNext, VarlenNext

\* Which slots are lone is settled by MarkSlot alone.
SameLone == \A i \in DOMAIN slots :
  slots'[i].lone = slots[i].lone /\ slots'[i].anchor = slots[i].anchor

\* Marking what is referenced changes neither the lone slots nor the anchors.
LEMMA MarkedSameLone ==
  ASSUME TypeOK, NEW x, slots' = Marked(x)
  PROVE  DOMAIN slots' = DOMAIN slots /\ SameLone
<1>1. DOMAIN slots' = DOMAIN slots
  BY DEF Marked
<1>2. ASSUME NEW i \in DOMAIN slots
      PROVE  slots'[i].lone = slots[i].lone /\ slots'[i].anchor = slots[i].anchor
  <2>1. slots[i] \in SlotRecords
    BY DEF TypeOK
  <2>2. slots'[i] = slots[i] \/ slots'[i] = [slots[i] EXCEPT !.referenced = TRUE]
    BY DEF Marked
  <2>3. QED
    BY <2>1, <2>2 DEF SlotRecords
<1>3. QED
  BY <1>1, <1>2 DEF SameLone

\* A slot is lone, once marked, if it has no anchor.
LEMMA LoneStep ==
  ASSUME TypeOK, LoneInv, Engine = "directed", GeneralNext
  PROVE  LoneInv'
<1>1. Engine' = Engine
  BY GeneralKeepsQuery, QueryStays
<1>2. DOMAIN slots = 1 .. Len(slots) /\ Len(slots) \in Nat /\ k \in Nat
  BY LenProperties DEF TypeOK
<1> DEFINE Unmarked == {"dispatch", "collect", "resolve", "failed"}
<1>3. CASE pc' \in Unmarked
  BY <1>3 DEF LoneInv
<1>4. ASSUME pc' = pc, pc \notin Unmarked, pc # "mark", DOMAIN slots' = DOMAIN slots, SameLone
      PROVE  LoneInv'
  BY <1>1, <1>4 DEF LoneInv, SameLone
<1>5. CASE CollectStart \/ CollectSegment \/ ResolveSlot
  BY <1>3, <1>5 DEF CollectStart, CollectSegment, ResolveSlot, AtSegment, AtStep
<1>6. CASE \/ CollectFail \/ ResolveFail \/ MarkFail \/ SelectFail \/ WhereFail
           \/ OrderFail \/ PredsFail
  BY <1>3, <1>6 DEF CollectFail, ResolveFail, MarkFail, SelectFail, WhereFail,
                    OrderFail, PredsFail, Reject
<1>7. CASE NextPhase
  <2>1. slots' = slots /\ k' = 1
    BY <1>7 DEF NextPhase
  <2>2. PICK j \in 1 .. 13 : pc = Phases[j] /\ pc' = Phases[j + 1]
    BY <1>7, PhasesAre DEF NextPhase
  <2>3. \/ pc' \in Unmarked
        \/ pc' = "mark"
        \/ pc = "mark" /\ pc' \notin Unmarked
        \/ pc \notin Unmarked \cup {"mark"} /\ pc' \notin Unmarked \cup {"mark"}
    BY <2>2 DEF Phases
  <2>4. CASE pc' = "mark"
    BY <1>1, <1>2, <2>1, <2>4 DEF LoneInv
  <2>5. CASE pc = "mark" /\ pc' \notin Unmarked
    <3>1. Len(slots) < k
      BY <1>7, <2>5 DEF NextPhase, PhaseLength
    <3>2. QED
      BY <1>1, <1>2, <2>1, <2>5, <3>1 DEF LoneInv
  <2>6. CASE pc \notin Unmarked \cup {"mark"} /\ pc' \notin Unmarked \cup {"mark"}
    BY <1>1, <2>1, <2>6 DEF LoneInv
  <2>7. QED
    BY <1>3, <2>3, <2>4, <2>5, <2>6
<1>8. CASE MarkSlot
  <2>1. /\ pc = "mark" /\ pc' = pc /\ k' = k + 1
        /\ slots' = [slots EXCEPT ![k].lone = (slots[k].anchor = 0)]
    BY <1>8 DEF MarkSlot, AtStep
  <2>2. ASSUME NEW i \in DOMAIN slots', ~(k' <= i)
        PROVE  slots'[i].lone = (slots'[i].anchor = 0)
    <3>1. i \in DOMAIN slots /\ slots[i] \in SlotRecords
      BY <2>1 DEF TypeOK
    <3>2. CASE i = k
      <4>1. slots'[i] = [slots[i] EXCEPT !.lone = (slots[i].anchor = 0)]
        BY <2>1, <3>1, <3>2
      <4>2. QED
        BY <3>1, <4>1 DEF SlotRecords
    <3>3. CASE i # k
      <4>1. slots'[i] = slots[i] /\ ~(k <= i)
        BY <1>2, <2>1, <2>2, <3>1, <3>3
      <4>2. QED
        BY <2>1, <3>1, <4>1 DEF LoneInv
    <3>4. QED
      BY <3>2, <3>3
  <2>3. QED
    BY <2>1, <2>2 DEF LoneInv
<1>9. CASE \/ Bind \/ OrderByAlias \/ SkipGroup \/ FromEdge \/ FromLone \/ SkipLone
           \/ FromNode \/ SkipJoin \/ EmitPreds \/ EmitPage
  <2>1. slots' = slots /\ pc' = pc /\ pc \notin Unmarked /\ pc # "mark"
    BY <1>9 DEF Bind, OrderByAlias, SkipGroup, FromEdge, FromLone, SkipLone, FromNode,
                SkipJoin, EmitPreds, EmitPage, AddFrom, Skip, AtStep
  <2>2. QED
    BY <1>4, <2>1 DEF SameLone
<1>10. CASE EmitSelect \/ EmitWhere \/ EmitOrder \/ EmitGroup
  <2>1. /\ \E x : slots' = Marked(x)
        /\ pc' = pc /\ pc \notin Unmarked /\ pc # "mark"
    BY <1>10 DEF EmitSelect, EmitWhere, EmitOrder, EmitGroup, Emit, AtStep
  <2>2. QED
    BY <1>4, <2>1, MarkedSameLone
<1>11. QED
  BY <1>5, <1>6, <1>7, <1>8, <1>9, <1>10 DEF GeneralNext

\* LInv holds when a query comes in,
LEMMA LInvInit == Init => LInv
<1> SUFFICES ASSUME Init PROVE LInv
  OBVIOUS
<1>1. sql = NoSql /\ pc = "dispatch"
  BY DEF Init
<1>2. "from" \in DOMAIN sql /\ sql.from = <<>>
  BY <1>1 DEF NoSql
<1>3. FromInv
  <2>1. \E S : sql.from \in Seq(S)
    BY <1>2, EmptySeq
  <2>2. QED
    BY <1>1, <1>2, <2>1 DEF FromInv, Early, Late
<1>4. LoneInv
  BY <1>1 DEF LoneInv
<1>5. OnReadsLeft
  BY <1>2 DEF OnReadsLeft
<1>6. QED
  BY <1>3, <1>4, <1>5, TInvInit DEF LInv

\* and every step keeps it.
LEMMA LInvStep == LInv /\ [Next]_vars => LInv'
<1> SUFFICES ASSUME LInv, [Next]_vars PROVE LInv'
  OBVIOUS
<1>1. TInv' /\ TInv /\ TypeOK /\ FromInv /\ LoneInv /\ OnReadsLeft
  BY TInvStep DEF LInv, TInv
<1>2. CASE Dispatch \/ Refuse
  <2>1. /\ sql' = sql /\ pc = "dispatch" /\ pc' \in {"collect", "failed"}
    BY <1>2 DEF Dispatch, Refuse, Reject
  <2>2. FromInv' /\ OnReadsLeft'
    BY <1>1, <2>1, FromKept DEF FromInv, Early
  <2>3. LoneInv'
    BY <2>1 DEF LoneInv
  <2>4. QED
    BY <1>1, <2>2, <2>3 DEF LInv
<1>3. CASE Engine = "directed" /\ GeneralNext
  <2>1. IInv
    BY <1>1, <1>3 DEF TInv
  <2>2. QED
    BY <1>1, <1>3, <2>1, GeneralKeepsLeft, LoneStep DEF LInv
<1>4. CASE \/ Engine = "undirected" /\ UndirectedNext
           \/ Engine = "varlen" /\ VarlenNext
  <2>1. pc \notin {"dispatch", "collect", "failed"} => DOMAIN edges = {1}
    BY <1>1, <1>4 DEF TInv, HopInv
  <2>2. FromInv' /\ OnReadsLeft'
    BY <1>1, <1>4, <2>1, HopsKeepLeft
  <2>3. query' = query
    <3>1. pc = "collect" => Sole
      BY <1>1, <1>4 DEF TInv, HopInv
    <3>2. HopStep
      BY <1>1, <1>4, <3>1, UndirectedStep, VarlenStep
    <3>3. QED
      BY <3>2 DEF HopStep, Quiet
  <2>4. Engine' # "directed"
    BY <1>4, <2>3, QueryStays
  <2>5. QED
    BY <1>1, <2>2, <2>4 DEF LInv, LoneInv
<1>5. CASE UNCHANGED vars
  <2>1. sql' = sql /\ pc' = pc /\ k' = k /\ slots' = slots /\ edges' = edges /\ query' = query
    BY <1>5 DEF vars
  <2>2. OnReadsLeft'
    BY <1>1, <2>1 DEF OnReadsLeft
  <2>3. FromInv'
    BY <1>1, <2>1 DEF FromInv, EdgesFirst
  <2>4. LoneInv'
    BY <1>1, <2>1, QueryStays DEF LoneInv
  <2>5. QED
    BY <1>1, <2>2, <2>3, <2>4 DEF LInv
<1>6. QED
  BY <1>2, <1>3, <1>4, <1>5 DEF Next

\* transform.c:19-24, 880-931: for every query and every engine, an ON clause
\* reads only the item it joins and items on its left.
THEOREM JoinsReadLeft == Spec => []OnReadsLeft
<1>1. Spec => []LInv
  BY LInvInit, LInvStep, PTL DEF Spec
<1>2. LInv => OnReadsLeft
  BY DEF LInv
<1>3. QED
  BY <1>1, <1>2, PTL

-----------------------------------------------------------------------------
(* Binds: what the variables of a query stand for *)

\* The records of variables are some of the records, and are of variables.
LEMMA NamedInIs ==
  ASSUME NEW R, NEW records \in Seq(R)
  PROVE  /\ NamedIn(records) \in Seq(1 .. Len(records))
         /\ \A j \in DOMAIN NamedIn(records) :
              records[NamedIn(records)[j]].var # NULL
<1> DEFINE n == Len(records)
           V == Seq(1 .. n)
           D == 0 .. n
           rank == [m \in D |-> m + 1]
           Step(m, f) == IF m = 0 THEN <<>>
                         ELSE IF records[m].var = NULL THEN f[m - 1]
                         ELSE Append(f[m - 1], m)
           G == [a \in D \X [D -> V] |-> Step(a[1], a[2])]
<1>1. n \in Nat /\ DOMAIN records = 1 .. n
  BY LenProperties
<1>2. <<>> \in V
  BY EmptySeq
<1>3. ASSUME NEW m \in D, NEW f \in [D -> V]
      PROVE  Step(m, f) \in V
  <2>1. CASE m = 0
    BY <1>2, <2>1
  <2>2. CASE m # 0
    <3>1. m - 1 \in D /\ m \in 1 .. n
      BY <1>1, <2>2
    <3>2. f[m - 1] \in V
      BY <3>1
    <3>3. Append(f[m - 1], m) \in V
      BY <3>1, <3>2, AppendProperties
    <3> QED  BY <2>2, <3>2, <3>3
  <2> QED  BY <2>1, <2>2
<1>4. \A m \in D, f \in [D -> V] : G[<<m, f>>] = Step(m, f)
  <2> HIDE DEF Step, V, D
  <2> QED  OBVIOUS
<1>5. G \in [D \X [D -> V] -> V]
  <2> HIDE DEF Step, V, D
  <2> QED  BY <1>3
<1>6. ASSUME NEW m \in D, NEW f \in [D -> V], NEW h \in [D -> V],
             \A d \in D : rank[d] < rank[m] => f[d] = h[d]
      PROVE  G[<<m, f>>] = G[<<m, h>>]
  <2>1. m # 0 => f[m - 1] = h[m - 1]
    <3> HIDE DEF V, G, Step
    <3>1. m # 0 => m - 1 \in D /\ rank[m - 1] < rank[m]
      BY <1>1
    <3> QED  BY <1>6, <3>1
  <2>2. Step(m, f) = Step(m, h)
    BY <2>1
  <2> HIDE DEF G, Step
  <2> QED  BY <1>4, <2>2
<1>7. rank \in [D -> 1 .. n + 1]
  BY <1>1
<1>8. IsRule(G, D, V, rank, n + 1)
  <2>1. V # {} /\ n + 1 \in Nat
    <3> HIDE DEF V, n
    <3> QED  BY <1>1, <1>2
  <2> HIDE DEF G, rank, n, V, D
  <2> QED  BY <1>5, <1>6, <1>7, <2>1 DEF IsRule
<1>9. PICK f \in [D -> V] : \A m \in D : f[m] = G[<<m, f>>]
  <2> HIDE DEF G, rank, n, V, D
  <2>1. IsKept(G, D, V)
    BY <1>8, Recursion
  <2> QED  BY <2>1 DEF IsKept
<1>10. \A m \in D : f[m] = Step(m, f)
  <2> HIDE DEF G, Step, D, V
  <2> QED  BY <1>4, <1>9
<1> HIDE DEF G
<1>11. f = [m \in 0 .. Len(records) |->
              IF m = 0 THEN <<>>
              ELSE IF records[m].var = NULL THEN f[m - 1]
              ELSE Append(f[m - 1], m)]
  BY <1>9, <1>10
<1> DEFINE Is(g) == g = [m \in 0 .. Len(records) |->
              IF m = 0 THEN <<>>
              ELSE IF records[m].var = NULL THEN g[m - 1]
              ELSE Append(g[m - 1], m)]
           among == CHOOSE g : Is(g)
<1>12. NamedIn(records) = among[n]
  BY DEF NamedIn
<1>13. Is(among)
  <2>1. Is(f)
    BY <1>11
  <2> HIDE DEF Is
  <2> QED  BY <2>1
<1> HIDE DEF among
<1> DEFINE Good(s) == s \in V /\ \A j \in DOMAIN s : records[s[j]].var # NULL
           S == {m \in 1 .. n : Good(among[m])}
<1>14. Good(among[0])
  <2>1. among[0] = <<>>
    BY <1>1, <1>13
  <2>2. DOMAIN <<>> = {}
    OBVIOUS
  <2> QED  BY <1>2, <2>1, <2>2
<1>15. ASSUME NEW m \in 0 .. n - 1, Good(among[m])
       PROVE  Good(among[m + 1])
  <2>1. among[m + 1] = IF records[m + 1].var = NULL THEN among[m]
                       ELSE Append(among[m], m + 1)
    <3>1. m + 1 \in 0 .. Len(records) /\ m + 1 # 0 /\ (m + 1) - 1 = m
      BY <1>1
    <3> QED  BY <1>13, <3>1
  <2>2. CASE records[m + 1].var = NULL
    BY <1>15, <2>1, <2>2
  <2>3. CASE records[m + 1].var # NULL
    <3> DEFINE s == among[m] t == Append(s, m + 1)
    <3>1. m + 1 \in 1 .. n /\ s \in V
      BY <1>1, <1>15
    <3>2. /\ t \in V /\ Len(s) \in Nat /\ DOMAIN s = 1 .. Len(s)
          /\ DOMAIN t = 1 .. Len(s) + 1 /\ t[Len(s) + 1] = m + 1
          /\ \A j \in 1 .. Len(s) : t[j] = s[j]
      <4> HIDE DEF s
      <4> QED  BY <3>1, AppendProperties, LenProperties
    <3>3. \A j \in DOMAIN s : records[s[j]].var # NULL
      BY <1>15
    <3>4. Good(t)
      <4> HIDE DEF s, t, V
      <4>1. ASSUME NEW j \in 1 .. Len(s) + 1
            PROVE  records[t[j]].var # NULL
        <5>1. CASE j \in 1 .. Len(s)
          BY <3>2, <3>3, <5>1
        <5>2. CASE j = Len(s) + 1
          BY <2>3, <3>2, <5>2
        <5> QED  BY <3>2, <5>1, <5>2
      <4> QED  BY <3>2, <4>1
    <3> QED  BY <2>1, <2>3, <3>4
  <2> QED  BY <2>2, <2>3
<1>16. Good(among[n])
  <2> HIDE DEF Good
  <2>1. n > 0 => 1 \in S
    <3>1. n > 0 => 0 \in 0 .. n - 1 /\ 0 + 1 = 1 /\ 1 \in 1 .. n
      BY <1>1
    <3> QED  BY <1>14, <1>15, <3>1
  <2>2. ASSUME NEW m \in 1 .. n - 1, m \in S
        PROVE  m + 1 \in S
    <3>1. m \in 0 .. n - 1 /\ m + 1 \in 1 .. n
      BY <1>1
    <3> QED  BY <1>15, <2>2, <3>1
  <2>3. 1 .. n \subseteq S
    <3> HIDE DEF S, n
    <3> QED  BY <1>1, <2>1, <2>2, Induction
  <2>4. n = 0 \/ n \in 1 .. n
    BY <1>1
  <2> QED  BY <1>14, <2>3, <2>4
<1> QED  BY <1>12, <1>16

\* What a bind of the slots ss and the relationships es may be.
NodeBind(ss, i) == [var |-> ss[i].var, table |-> ss[i].label, of |-> <<"slot", i>>]
EdgeBind(es, e) == [var |-> es[e].var, table |-> EdgeTable, of |-> <<"edge", e>>]
BindsFor(ss, es) ==
  {NodeBind(ss, i) : i \in {i \in DOMAIN ss : ss[i].var # NULL}}
  \cup {EdgeBind(es, e) : e \in {e \in DOMAIN es : es[e].var # NULL}}

\* The binds an engine makes are of its named nodes and relationships.
LEMMA BindsOfIs ==
  ASSUME NEW R, NEW Q, NEW ss \in Seq(R), NEW es \in Seq(Q)
  PROVE  BindsOf(ss, es) \in Seq(BindsFor(ss, es))
<1> DEFINE nodes == NamedIn(ss)
           rels == NamedIn(es)
           B == BindsFor(ss, es)
           NB == [j \in DOMAIN nodes |-> NodeBind(ss, nodes[j])]
           EB == [j \in DOMAIN rels |-> EdgeBind(es, rels[j])]
<1>1. /\ nodes \in Seq(1 .. Len(ss)) /\ rels \in Seq(1 .. Len(es))
      /\ \A j \in DOMAIN nodes : ss[nodes[j]].var # NULL
      /\ \A j \in DOMAIN rels : es[rels[j]].var # NULL
  BY NamedInIs
<1>2. /\ Len(nodes) \in Nat /\ DOMAIN nodes = 1 .. Len(nodes)
      /\ Len(rels) \in Nat /\ DOMAIN rels = 1 .. Len(rels)
      /\ DOMAIN ss = 1 .. Len(ss) /\ DOMAIN es = 1 .. Len(es)
  BY <1>1, LenProperties
<1>3. BindsOf(ss, es) = NB \o EB
  BY DEF BindsOf, NodeBind, EdgeBind
<1> HIDE DEF nodes, rels
<1>4. /\ \A j \in DOMAIN nodes : nodes[j] \in DOMAIN ss
      /\ \A j \in DOMAIN rels : rels[j] \in DOMAIN es
  BY <1>1, <1>2
<1>5. /\ \A j \in DOMAIN nodes : NodeBind(ss, nodes[j]) \in B
      /\ \A j \in DOMAIN rels : EdgeBind(es, rels[j]) \in B
  BY <1>1, <1>4 DEF BindsFor
<1> HIDE DEF B
<1>6. NB \in [1 .. Len(nodes) -> B] /\ EB \in [1 .. Len(rels) -> B]
  BY <1>2, <1>5
<1>7. NB \in Seq(B) /\ EB \in Seq(B)
  <2> HIDE DEF NB, EB
  <2>1. \A n \in Nat : \A f \in [1 .. n -> B] : f \in Seq(B)
    BY SeqDef
  <2>2. Len(nodes) \in Nat /\ Len(rels) \in Nat
    BY <1>2
  <2> QED  BY <1>6, <2>1, <2>2
<1>8. NB \o EB \in Seq(B)
  <2> HIDE DEF NB, EB
  <2> QED  BY <1>7, ConcatProperties
<1> QED  BY <1>3, <1>8 DEF B

\* The bind a variable is found in is one of its binds.
LEMMA BindOfIs ==
  ASSUME NEW B, binds \in Seq(B), NEW var, IsBound(var)
  PROVE  \E j \in DOMAIN binds : BindOf(var) = binds[j] /\ binds[j].var = var
<1> DEFINE hits == {j \in DOMAIN binds : binds[j].var = var}
<1>1. Len(binds) \in Nat /\ DOMAIN binds = 1 .. Len(binds)
  BY LenProperties
<1>2. hits \in SUBSET (1 .. Len(binds)) /\ hits # {}
  BY <1>1 DEF IsBound
<1>3. \E j \in hits : \A i \in hits : j <= i
  <2> HIDE DEF hits
  <2> QED  BY <1>1, <1>2, FirstExists
<1>4. (CHOOSE j \in hits : \A i \in hits : j <= i) \in hits
  <2> HIDE DEF hits
  <2> QED  BY <1>3
<1>5. BindOf(var) = binds[CHOOSE j \in hits : \A i \in hits : j <= i]
  BY DEF BindOf
<1> QED  BY <1>4, <1>5

\* Appending to a sequence, of whatever it is.
LEMMA AppendIs ==
  ASSUME NEW S, NEW X \in Seq(S), NEW c
  PROVE  /\ Append(X, c) \in Seq(S \cup {c}) /\ Len(X) \in Nat
         /\ DOMAIN X = 1 .. Len(X) /\ DOMAIN Append(X, c) = 1 .. Len(X) + 1
         /\ Len(Append(X, c)) = Len(X) + 1
         /\ \A n \in 1 .. Len(X) : Append(X, c)[n] = X[n]
         /\ Append(X, c)[Len(X) + 1] = c
         /\ \A d \in Range(Append(X, c)) : d \in Range(X) \/ d = c
<1> DEFINE Wider == S \cup {c}
           Y == Append(X, c)
<1>1. X \in Seq(Wider) /\ c \in Wider
  BY SeqDef
<1>2. /\ Y \in Seq(Wider) /\ Len(X) \in Nat /\ DOMAIN X = 1 .. Len(X)
      /\ DOMAIN Y = 1 .. Len(X) + 1 /\ Len(Y) = Len(X) + 1
      /\ \A n \in 1 .. Len(X) : Y[n] = X[n] /\ Y[Len(X) + 1] = c
      /\ Y[Len(X) + 1] = c
  <2> HIDE DEF Wider
  <2> QED  BY <1>1, AppendProperties, LenProperties
<1> HIDE DEF Y
<1>3. ASSUME NEW d \in Range(Y)
      PROVE  d \in Range(X) \/ d = c
  <2>1. PICK n \in 1 .. Len(X) + 1 : d = Y[n]
    BY <1>2 DEF Range
  <2>2. n \in 1 .. Len(X) \/ n = Len(X) + 1
    BY <1>2
  <2> QED  BY <1>2, <2>1, <2>2 DEF Range
<1> QED  BY <1>2, <1>3 DEF Y, Wider

-----------------------------------------------------------------------------
(* The records are those of the occurrences of the query *)

\* The occurrences the collection has passed.
Seen(o) ==
  pc \in {"dispatch", "collect"} => o[1] < pi \/ (o[1] = pi /\ o[2] < k)

\* A slot is of the occurrence it was made for, and no two are of the same.
SlotsFound ==
  /\ \A i \in DOMAIN slots :
       /\ slots[i].np \in NodeOccs /\ Seen(slots[i].np)
       /\ slots[i].var = NodeOf(slots[i].np).var
  /\ \A i, j \in DOMAIN slots : slots[i].np = slots[j].np => i = j

\* A record of a relationship is of an occurrence, and its ends are the slots
\* of the nodes the occurrence is between.
EdgeOf(e, o) ==
  /\ edges[e].var = RelOf(o).var /\ edges[e].type = RelOf(o).type
  /\ edges[e].props = RelOf(o).props
  /\ edges[e].src \in DOMAIN slots /\ KeyOf(slots[edges[e].src].np) = SrcKey(o)
  /\ edges[e].tgt \in DOMAIN slots /\ KeyOf(slots[edges[e].tgt].np) = TgtKey(o)

\* Each relationship that was passed has one record, and each record has one.
EdgesFound ==
  pc # "failed" =>
    \E occ \in [DOMAIN edges -> RelOccs] :
      /\ IsInjective(occ)
      /\ \A e \in DOMAIN edges : Seen(occ[e]) /\ EdgeOf(e, occ[e])
      /\ \A o \in RelOccs : Seen(o) => \E e \in DOMAIN edges : occ[e] = o

\* Each node that was passed has a slot, and prev is the slot of the last one.
KeysFound ==
  pc # "failed" =>
    /\ \A o \in NodeOccs : Seen(o) => \E i \in DOMAIN slots : KeyOf(slots[i].np) = KeyOf(o)
    /\ pc \in {"dispatch", "collect"} /\ k > 0 =>
         KeyOf(slots[prev].np) = KeyOf(<<pi, k - 1>>)

\* The occurrences of a query.
LEMMA OccsAre ==
  ASSUME query \in QueryType
  PROVE  /\ \A o \in NodeOccs :
              /\ o = <<o[1], o[2]>> /\ o[1] \in 1 .. Len(query.paths)
              /\ o[2] \in 0 .. Len(query.paths[o[1]].segs) /\ o[2] \in Nat
         /\ \A i \in 1 .. Len(query.paths) :
              /\ Len(query.paths[i].segs) \in Nat
              /\ \A n \in 0 .. Len(query.paths[i].segs) : <<i, n>> \in NodeOccs
         /\ Len(query.paths) \in Nat
<1>1. Len(query.paths) \in Nat /\ DOMAIN query.paths = 1 .. Len(query.paths)
  BY LenProperties DEF QueryType
<1>2. \A i \in 1 .. Len(query.paths) : Len(query.paths[i].segs) \in Nat
  BY <1>1, PathsTyped
<1>3. ASSUME NEW o \in NodeOccs
      PROVE  /\ o = <<o[1], o[2]>> /\ o[1] \in 1 .. Len(query.paths)
             /\ o[2] \in 0 .. Len(query.paths[o[1]].segs) /\ o[2] \in Nat
  <2>1. PICK i \in DOMAIN query.paths : o \in {<<i, n>> : n \in 0 .. Len(query.paths[i].segs)}
    BY DEF NodeOccs, NodeOccsIn
  <2>2. PICK n \in 0 .. Len(query.paths[i].segs) : o = <<i, n>>
    BY <2>1
  <2> QED  BY <1>1, <1>2, <2>2
<1>4. ASSUME NEW i \in 1 .. Len(query.paths), NEW n \in 0 .. Len(query.paths[i].segs)
      PROVE  <<i, n>> \in NodeOccs
  <2>1. <<i, n>> \in {<<i, m>> : m \in 0 .. Len(query.paths[i].segs)}
    OBVIOUS
  <2> QED  BY <1>1, <2>1 DEF NodeOccs, NodeOccsIn
<1> QED  BY <1>1, <1>2, <1>3, <1>4

\* What belongs to the query stays.
LEMMA OccsStay ==
  ASSUME query' = query
  PROVE  /\ NodeOccs' = NodeOccs /\ RelOccs' = RelOccs
         /\ \A o : NodeOf(o)' = NodeOf(o) /\ RelOf(o)' = RelOf(o)
         /\ \A o : KeyOf(o)' = KeyOf(o) /\ SrcKey(o)' = SrcKey(o) /\ TgtKey(o)' = TgtKey(o)
BY DEF NodeOccs, NodeOccsIn, RelOccs, RelOccsIn, NodeOf, NodeAt, RelOf, KeyOf, SrcKey,
     TgtKey, Before

\* The record of a relationship stays that of its occurrence.
LEMMA EdgeOfKept ==
  ASSUME query' = query, NEW e \in DOMAIN edges, NEW o, EdgeOf(e, o),
         edges'[e] = edges[e], DOMAIN slots \subseteq DOMAIN slots',
         \A i \in DOMAIN slots : slots'[i].np = slots[i].np
  PROVE  EdgeOf(e, o)'
<1>1. /\ RelOf(o)' = RelOf(o) /\ SrcKey(o)' = SrcKey(o) /\ TgtKey(o)' = TgtKey(o)
      /\ \A p : KeyOf(p)' = KeyOf(p)
  BY OccsStay
<1>2. ASSUME NEW i \in DOMAIN slots
      PROVE  KeyOf(slots[i].np)' = KeyOf(slots[i].np)
  BY <1>1
<1>3. /\ edges[e].src \in DOMAIN slots /\ edges[e].tgt \in DOMAIN slots
      /\ KeyOf(slots[edges[e].src].np) = SrcKey(o) /\ KeyOf(slots[edges[e].tgt].np) = TgtKey(o)
  BY DEF EdgeOf
<1>4. /\ KeyOf(slots[edges[e].src].np)' = SrcKey(o)'
      /\ KeyOf(slots[edges[e].tgt].np)' = TgtKey(o)'
  BY <1>1, <1>3
<1> QED  BY <1>1, <1>3, <1>4 DEF EdgeOf

\* A collecting step passes the occurrence it stands at and no other.
LEMMA SeenStep ==
  ASSUME IInv, pc = "collect", pc' = pc, NextSegment, pi <= Len(query.paths)
  PROVE  /\ <<pi, k>> \in NodeOccs /\ ~Seen(<<pi, k>>)
         /\ \A o \in NodeOccs : Seen(o)' <=> Seen(o) \/ o = <<pi, k>>
<1>1. query \in QueryType /\ pi \in Nat \ {0} /\ k \in Nat
  BY DEF IInv, TypeOK
<1>2. /\ pi \in 1 .. Len(query.paths) /\ Len(query.paths[pi].segs) \in Nat
      /\ k <= Len(query.paths[pi].segs)
  <2>1. pi \in 1 .. Len(query.paths)
    BY <1>1, OccsAre
  <2> QED  BY <1>1, <2>1, OccsAre DEF IInv, Position
<1>3. <<pi, k>> \in NodeOccs
  BY <1>1, <1>2, OccsAre
<1>4. ~Seen(<<pi, k>>)
  BY <1>1 DEF Seen
<1>5. ASSUME NEW o \in NodeOccs
      PROVE  Seen(o)' <=> Seen(o) \/ o = <<pi, k>>
  <2> DEFINE i == o[1] n == o[2] L == Len(query.paths[pi].segs)
  <2>1. o = <<i, n>> /\ i \in Nat /\ n \in Nat /\ (i = pi => n <= L)
    BY <1>1, <1>2, OccsAre
  <2>2. Seen(o) <=> i < pi \/ (i = pi /\ n < k)
    BY DEF Seen
  <2>3. Seen(o)' <=> i < pi' \/ (i = pi' /\ n < k')
    BY DEF Seen
  <2>4. o = <<pi, k>> <=> i = pi /\ n = k
    BY <2>1
  <2> HIDE DEF i, n, L
  <2>5. CASE k < L /\ k' = k + 1 /\ pi' = pi
    BY <1>1, <1>2, <2>1, <2>2, <2>3, <2>4, <2>5
  <2>6. CASE ~(k < L) /\ k' = 0 /\ pi' = pi + 1
    BY <1>1, <1>2, <2>1, <2>2, <2>3, <2>4, <2>6 DEF L
  <2> QED  BY <2>5, <2>6 DEF NextSegment, L
<1> QED  BY <1>3, <1>4, <1>5

\* Before anything is collected nothing is found.
LEMMA FoundInit == Init => SlotsFound /\ EdgesFound /\ KeysFound
<1> SUFFICES ASSUME Init PROVE SlotsFound /\ EdgesFound /\ KeysFound
  OBVIOUS
<1>1. DOMAIN slots = {} /\ DOMAIN edges = {} /\ query \in QueryType
        /\ pc = "dispatch" /\ pi = 1 /\ k = 0
  BY EmissionAssumption DEF Init
<1>2. /\ \A o \in NodeOccs : ~Seen(o)
      /\ \A o \in RelOccs : o \in NodeOccs
  <2>1. \A o \in RelOccs : o \in NodeOccs
    BY DEF RelOccs, RelOccsIn, NodeOccs
  <2> QED  BY <1>1, <2>1, OccsAre DEF Seen
<1>3. SlotsFound
  BY <1>1 DEF SlotsFound
<1>4. EdgesFound
  <2> DEFINE occ == [e \in {} |-> <<1, 1>>]
  <2>1. occ \in [DOMAIN edges -> RelOccs] /\ IsInjective(occ)
    BY <1>1 DEF IsInjective
  <2> HIDE DEF occ
  <2> QED  BY <1>1, <1>2, <2>1 DEF EdgesFound
<1>5. KeysFound
  BY <1>1, <1>2 DEF KeysFound
<1> QED  BY <1>3, <1>4, <1>5

\* Steps that neither collect nor change what a slot is.
LEMMA FoundKept ==
  ASSUME SlotsFound, EdgesFound, KeysFound, query \in QueryType, query' = query, edges' = edges,
         DOMAIN slots' = DOMAIN slots,
         \A i \in DOMAIN slots :
           slots'[i].var = slots[i].var /\ slots'[i].np = slots[i].np,
         \/ pc' = "failed"
         \/ pc' \notin {"dispatch", "collect"} /\ pc \notin {"dispatch", "collect", "failed"}
         \/ pc' \notin {"dispatch", "collect"} /\ Len(query.paths) < pi /\ pi \in Nat
              /\ pc # "failed"
         \/ pc' \in {"dispatch", "collect"} /\ pc \in {"dispatch", "collect"}
              /\ pi' = pi /\ k' = k /\ prev' = prev /\ slots' = slots
  PROVE  SlotsFound' /\ EdgesFound' /\ KeysFound'
<1>1. /\ NodeOccs' = NodeOccs /\ RelOccs' = RelOccs
      /\ \A o : NodeOf(o)' = NodeOf(o) /\ RelOf(o)' = RelOf(o) /\ KeyOf(o)' = KeyOf(o)
  BY OccsStay
<1>2. \A o \in NodeOccs : Seen(o) => Seen(o)'
  BY DEF Seen
<1>3. /\ pc' # "failed" => \A o \in NodeOccs : Seen(o)' => Seen(o)
      /\ \A o \in RelOccs : o \in NodeOccs
  <2>1. \A o \in RelOccs : o \in NodeOccs
    BY DEF RelOccs, RelOccsIn, NodeOccs
  <2>2. ASSUME Len(query.paths) < pi, pi \in Nat, NEW o \in NodeOccs
        PROVE  Seen(o)
    <3>1. o[1] < pi
      BY <2>1, <2>2, OccsAre
    <3> QED  BY <3>1 DEF Seen
  <2> QED  BY <2>1, <2>2 DEF Seen
<1>4. SlotsFound'
  BY <1>1, <1>2 DEF SlotsFound
<1>5. EdgesFound'
  <2>1. SUFFICES ASSUME pc' # "failed" PROVE EdgesFound'
    BY DEF EdgesFound
  <2>2. pc # "failed"
    BY <2>1
  <2>3. PICK occ \in [DOMAIN edges -> RelOccs] :
          /\ IsInjective(occ)
          /\ \A e \in DOMAIN edges : Seen(occ[e]) /\ EdgeOf(e, occ[e])
          /\ \A o \in RelOccs : Seen(o) => \E e \in DOMAIN edges : occ[e] = o
    BY <2>2 DEF EdgesFound
  <2>4. \A e \in DOMAIN edges : occ[e] \in RelOccs /\ occ[e] \in NodeOccs
    BY DEF RelOccs, RelOccsIn, NodeOccs
  <2>5. \A e \in DOMAIN edges' : Seen(occ[e])' /\ EdgeOf(e, occ[e])'
    <3> SUFFICES ASSUME NEW e \in DOMAIN edges
                 PROVE  Seen(occ[e])' /\ EdgeOf(e, occ[e])'
      OBVIOUS
    <3>1. Seen(occ[e]) /\ EdgeOf(e, occ[e])
      BY <2>3
    <3>2. EdgeOf(e, occ[e])'
      BY <3>1, EdgeOfKept
    <3> QED  BY <1>2, <2>4, <3>1, <3>2
  <2>6. \A o \in RelOccs' : Seen(o)' => \E e \in DOMAIN edges' : occ[e] = o
    BY <1>1, <1>3, <2>1, <2>3
  <2>7. occ \in [DOMAIN edges' -> RelOccs']
    BY <1>1
  <2> QED  BY <2>3, <2>5, <2>6, <2>7 DEF EdgesFound
<1>6. KeysFound'
  <2>1. SUFFICES ASSUME pc' # "failed" PROVE KeysFound'
    BY DEF KeysFound
  <2>2. pc # "failed"
    BY <2>1
  <2>3. ASSUME NEW o \in NodeOccs, Seen(o)'
        PROVE  \E i \in DOMAIN slots' : KeyOf(slots[i].np)' = KeyOf(o)'
    <3>1. PICK i \in DOMAIN slots : KeyOf(slots[i].np) = KeyOf(o)
      BY <1>3, <2>1, <2>2, <2>3 DEF KeysFound
    <3>2. KeyOf(slots[i].np)' = KeyOf(slots[i].np) /\ KeyOf(o)' = KeyOf(o)
      BY <1>1
    <3> QED  BY <3>1, <3>2
  <2>4. ASSUME pc' \in {"dispatch", "collect"}, k' > 0
        PROVE  KeyOf(slots[prev].np)' = KeyOf(<<pi, k - 1>>)'
    <3>1. pc \in {"dispatch", "collect"} /\ pi' = pi /\ k' = k /\ prev' = prev /\ slots' = slots
      BY <2>1, <2>4
    <3>2. KeyOf(slots[prev].np) = KeyOf(<<pi, k - 1>>)
      BY <2>4, <3>1 DEF KeysFound
    <3> QED  BY <1>1, <3>1, <3>2
  <2> QED  BY <1>1, <2>3, <2>4 DEF KeysFound
<1> QED  BY <1>4, <1>5, <1>6

\* Collecting an occurrence adds a slot for it, or none.
LEMMA SlotForAdds ==
  ASSUME TypeOK, UniqueIn(slots), NEW node \in NodePats, NEW np \in Nat \X Nat,
         NEW i \in DOMAIN SlotFor(node, np)
  PROVE  \/ i \in DOMAIN slots
         \/ SlotFor(node, np)[i].var = node.var /\ SlotFor(node, np)[i].np = np
            /\ i = Len(slots) + 1
<1> DEFINE c == SlotIndex(node, np)
           ss == SlotFor(node, np)
<1>1. /\ Len(slots) \in Nat /\ DOMAIN slots = 1 .. Len(slots)
      /\ slots \in Seq(SlotRecords) /\ c \in 1 .. Len(slots) + 1
  BY SlotIndexIs, LenProperties DEF TypeOK
<1>2. NewSlot(node, np) \in SlotRecords
  BY DEF NewSlot, SlotRecords, NodePats, OrNull
<1>3. CASE c = Len(slots) + 1
  <2>1. ss = Append(slots, NewSlot(node, np))
    BY <1>3 DEF SlotFor
  <2>2. DOMAIN ss = 1 .. Len(slots) + 1 /\ ss[Len(slots) + 1] = NewSlot(node, np)
    BY <1>1, <1>2, <2>1, AppendProperties, LenProperties
  <2>3. i \in DOMAIN slots \/ i = Len(slots) + 1
    BY <1>1, <2>2
  <2>4. NewSlot(node, np).var = node.var /\ NewSlot(node, np).np = np
    BY DEF NewSlot
  <2> QED  BY <2>2, <2>3, <2>4
<1>4. CASE c # Len(slots) + 1
  <2>1. ss = slots \/ ss = [slots EXCEPT ![c].label = node.label]
    BY <1>4 DEF SlotFor
  <2>2. DOMAIN ss = DOMAIN slots
    BY <2>1
  <2> QED  BY <2>2
<1> QED  BY <1>3, <1>4

\* Collecting an occurrence keeps the slots found.
LEMMA SlotsFoundStep ==
  ASSUME IInv, SlotsFound, pc = "collect", pc' = pc, query' = query, NextSegment,
         pi <= Len(query.paths),
         NEW node \in NodePats, node = NodeAt(pi, k),
         DOMAIN slots' = DOMAIN SlotFor(node, <<pi, k>>),
         \A i \in DOMAIN slots' :
           /\ slots'[i].var = SlotFor(node, <<pi, k>>)[i].var
           /\ slots'[i].np = SlotFor(node, <<pi, k>>)[i].np
  PROVE  SlotsFound'
<1> DEFINE np == <<pi, k>>
           ss == SlotFor(node, np)
<1>1. /\ NodeOccs' = NodeOccs /\ \A o : NodeOf(o)' = NodeOf(o)
  BY OccsStay
<1>2. /\ np \in NodeOccs /\ ~Seen(np)
      /\ \A o \in NodeOccs : o = np => Seen(o)'
      /\ \A o \in NodeOccs : Seen(o) => Seen(o)'
  <2>1. /\ <<pi, k>> \in NodeOccs /\ ~Seen(<<pi, k>>)
        /\ \A o \in NodeOccs : Seen(o)' <=> Seen(o) \/ o = <<pi, k>>
    BY SeenStep
  <2>2. \A o \in NodeOccs : o = np => Seen(o)'
    BY <2>1
  <2> QED  BY <2>1, <2>2
<1>3. NodeOf(np) = node
  BY DEF NodeOf
<1>4. TypeOK /\ UniqueIn(slots) /\ np \in Nat \X Nat
  BY DEF IInv, TypeOK
<1>5. /\ \A i \in DOMAIN slots : ss[i].var = slots[i].var /\ ss[i].np = slots[i].np
      /\ DOMAIN slots \subseteq DOMAIN ss
  BY <1>4, SlotForIs DEF GrownTo, Kept
<1>6. \A i \in DOMAIN ss :
        i \in DOMAIN slots \/ (ss[i].var = node.var /\ ss[i].np = np /\ i = Len(slots) + 1)
  BY <1>4, SlotForAdds
<1> HIDE DEF np, ss
<1>7. \A i \in DOMAIN slots' : slots'[i].var = ss[i].var /\ slots'[i].np = ss[i].np
  BY DEF ss, np
<1>8. DOMAIN slots' = DOMAIN ss
  BY DEF ss, np
<1>9. ASSUME NEW i \in DOMAIN slots'
      PROVE  /\ slots'[i].np \in NodeOccs
             /\ \A o \in NodeOccs : o = slots'[i].np => Seen(o)'
             /\ slots'[i].var = NodeOf(slots'[i].np).var
             /\ i \in DOMAIN slots => slots'[i].np # np /\ slots'[i].np = slots[i].np
             /\ i \notin DOMAIN slots => slots'[i].np = np /\ i = Len(slots) + 1
  <2>1. CASE i \in DOMAIN slots
    <3>1. slots'[i].var = slots[i].var /\ slots'[i].np = slots[i].np
      BY <1>5, <1>7, <2>1
    <3>2. /\ slots[i].np \in NodeOccs /\ Seen(slots[i].np)
          /\ slots[i].var = NodeOf(slots[i].np).var
      BY <2>1 DEF SlotsFound
    <3> QED  BY <1>2, <2>1, <3>1, <3>2
  <2>2. CASE i \notin DOMAIN slots
    BY <1>2, <1>3, <1>6, <1>7, <1>8, <2>2
  <2> QED  BY <2>1, <2>2
<1>10. ASSUME NEW i \in DOMAIN slots', NEW j \in DOMAIN slots', slots'[i].np = slots'[j].np
       PROVE  i = j
  BY <1>9, <1>10 DEF SlotsFound
<1>11. \A i \in DOMAIN slots' :
         /\ slots'[i].np \in NodeOccs' /\ (Seen(slots[i].np))'
         /\ slots'[i].var = (NodeOf(slots[i].np))'.var
  BY <1>1, <1>9
<1> QED  BY <1>10, <1>11 DEF SlotsFound

\* The slot found or added for an occurrence is of its key.
LEMMA SlotKey ==
  ASSUME TypeOK, UniqueIn(slots), SlotsFound, NEW np \in NodeOccs, np \in Nat \X Nat,
         NEW node \in NodePats, node = NodeOf(np)
  PROVE  KeyOf(SlotFor(node, np)[SlotIndex(node, np)].np) = KeyOf(np)
<1> DEFINE c == SlotIndex(node, np)
           ss == SlotFor(node, np)
<1>1. /\ GrownTo(ss) /\ c \in DOMAIN ss /\ Len(slots) \in Nat /\ DOMAIN slots = 1 .. Len(slots)
      /\ c \in 1 .. Len(slots) + 1
  BY SlotForIs, SlotIndexIs, LenProperties DEF TypeOK
<1>2. CASE c = Len(slots) + 1
  <2>1. c \notin DOMAIN slots
    BY <1>1, <1>2
  <2>2. ss[c].np = np
    BY <1>1, <2>1, SlotForAdds
  <2> QED  BY <2>2
<1>3. CASE c # Len(slots) + 1
  <2>1. c \in DOMAIN slots /\ c <= Len(slots)
    <3> HIDE DEF c
    <3> QED  BY <1>1, <1>3
  <2>2. Same(slots[c], node, np) /\ ss[c].np = slots[c].np
    BY <1>1, <2>1, SlotIndexIs DEF GrownTo, Kept
  <2>3. slots[c].var = NodeOf(slots[c].np).var
    BY <2>1 DEF SlotsFound
  <2> HIDE DEF c, ss
  <2>4. KeyOf(ss[c].np) = KeyOf(np)
    <3>1. CASE node.var # NULL
      BY <2>2, <2>3, <3>1 DEF Same, KeyOf
    <3>2. CASE node.var = NULL
      BY <2>2, <3>2 DEF Same
    <3> QED  BY <3>1, <3>2
  <2> QED  BY <2>4 DEF c, ss
<1> QED  BY <1>2, <1>3

\* Collecting an occurrence keeps the keys found.
LEMMA KeysFoundStep ==
  ASSUME IInv, SlotsFound, KeysFound, pc = "collect", pc' = pc, query' = query, NextSegment,
         pi <= Len(query.paths),
         NEW node \in NodePats, node = NodeAt(pi, k),
         prev' = SlotIndex(node, <<pi, k>>),
         DOMAIN slots' = DOMAIN SlotFor(node, <<pi, k>>),
         \A i \in DOMAIN slots' : slots'[i].np = SlotFor(node, <<pi, k>>)[i].np
  PROVE  KeysFound'
<1> DEFINE np == <<pi, k>>
           ss == SlotFor(node, np)
           c == SlotIndex(node, np)
<1>1. /\ NodeOccs' = NodeOccs /\ \A o : KeyOf(o)' = KeyOf(o)
  BY OccsStay
<1>2. /\ np \in NodeOccs /\ \A o \in NodeOccs : Seen(o)' => Seen(o) \/ o = np
  BY SeenStep
<1>3. TypeOK /\ UniqueIn(slots) /\ np \in Nat \X Nat /\ node = NodeOf(np)
  BY DEF IInv, TypeOK, NodeOf
<1>4. GrownTo(ss) /\ c \in DOMAIN ss /\ KeyOf(ss[c].np) = KeyOf(np)
  BY <1>2, <1>3, SlotForIs, SlotKey
<1>5. /\ DOMAIN slots' = DOMAIN ss /\ \A i \in DOMAIN slots' : slots'[i].np = ss[i].np
      /\ prev' = c
  OBVIOUS
<1> HIDE DEF np, ss, c
<1>6. c \in DOMAIN slots' /\ KeyOf(slots'[c].np) = KeyOf(np)
  BY <1>4, <1>5
<1>7. \A i \in DOMAIN slots : i \in DOMAIN slots' /\ slots'[i].np = slots[i].np
  BY <1>4, <1>5 DEF GrownTo, Kept
<1>8. ASSUME NEW o \in NodeOccs, Seen(o)'
      PROVE  \E i \in DOMAIN slots' : KeyOf(slots'[i].np) = KeyOf(o)
  <2>1. CASE o = np
    BY <1>6, <2>1
  <2>2. CASE Seen(o)
    <3>1. PICK i \in DOMAIN slots : KeyOf(slots[i].np) = KeyOf(o)
      BY <2>2 DEF KeysFound
    <3> QED  BY <1>7, <3>1
  <2> QED  BY <1>2, <1>8, <2>1, <2>2
<1>9. k' > 0 => <<pi', k' - 1>> = np
  BY DEF NextSegment, np, IInv, TypeOK
<1>10. \A o \in NodeOccs' : Seen(o)' => \E i \in DOMAIN slots' : KeyOf(slots[i].np)' = KeyOf(o)'
  BY <1>1, <1>8
<1>11. k' > 0 => KeyOf(slots[prev].np)' = KeyOf(<<pi, k - 1>>)'
  BY <1>1, <1>5, <1>6, <1>9
<1> QED  BY <1>10, <1>11 DEF KeysFound

\* The step that collects the start of a path.
LEMMA StartFound ==
  ASSUME IInv, SlotsFound, EdgesFound, KeysFound, CollectStart
  PROVE  SlotsFound' /\ EdgesFound' /\ KeysFound'
<1> DEFINE node == NodeAt(pi, 0)
<1>1. /\ pc = "collect" /\ pi <= Len(query.paths) /\ NextSegment /\ k = 0
      /\ query' = query /\ pc' = pc /\ edges' = edges
      /\ slots' = SlotFor(node, <<pi, k>>) /\ prev' = SlotIndex(node, <<pi, k>>)
  BY DEF CollectStart, AtSegment
<1>2. node \in NodePats
  BY <1>1, PathsTyped DEF NodeAt, IInv, TypeOK
<1>3. SlotsFound'
  BY <1>1, <1>2, SlotsFoundStep
<1>5. GrownTo(SlotFor(node, <<pi, k>>))
  <2>1. <<pi, k>> \in Nat \X Nat
    BY DEF IInv, TypeOK
  <2> QED  BY <1>2, <2>1, SlotForIs DEF IInv
<1>6. KeysFound'
  BY <1>1, <1>2, KeysFoundStep
<1>4. EdgesFound'
  <2>1. PICK occ \in [DOMAIN edges -> RelOccs] :
          /\ IsInjective(occ)
          /\ \A e \in DOMAIN edges : Seen(occ[e]) /\ EdgeOf(e, occ[e])
          /\ \A o \in RelOccs : Seen(o) => \E e \in DOMAIN edges : occ[e] = o
    BY <1>1 DEF EdgesFound
  <2>2. \A o \in RelOccs : o \in NodeOccs /\ o # <<pi, k>>
    BY <1>1 DEF RelOccs, RelOccsIn, NodeOccs
  <2>3. \A o \in RelOccs : Seen(o)' <=> Seen(o)
    BY <1>1, <2>2, SeenStep
  <2>4. RelOccs' = RelOccs /\ \A o : RelOf(o)' = RelOf(o)
    BY <1>1, OccsStay
  <2>5. \A e \in DOMAIN edges' : Seen(occ[e])' /\ EdgeOf(e, occ[e])'
    <3> SUFFICES ASSUME NEW e \in DOMAIN edges
                 PROVE  Seen(occ[e])' /\ EdgeOf(e, occ[e])'
      BY <1>1
    <3>1. Seen(occ[e]) /\ EdgeOf(e, occ[e]) /\ occ[e] \in RelOccs
      BY <2>1
    <3>2. /\ DOMAIN slots \subseteq DOMAIN slots'
          /\ \A i \in DOMAIN slots : slots'[i].np = slots[i].np
      BY <1>1, <1>5 DEF GrownTo, Kept
    <3>3. EdgeOf(e, occ[e])'
      BY <1>1, <3>1, <3>2, EdgeOfKept
    <3> QED  BY <2>3, <3>1, <3>3
  <2>6. \A o \in RelOccs' : Seen(o)' => \E e \in DOMAIN edges' : occ[e] = o
    BY <1>1, <2>1, <2>3, <2>4
  <2>7. occ \in [DOMAIN edges' -> RelOccs']
    BY <1>1, <2>4
  <2> QED  BY <2>1, <2>5, <2>6, <2>7 DEF EdgesFound
<1> QED  BY <1>3, <1>4, <1>6

\* The step that collects a segment: a relationship and the node after it.
LEMMA SegmentFound ==
  ASSUME IInv, SlotsFound, EdgesFound, KeysFound, CollectSegment
  PROVE  SlotsFound' /\ EdgesFound' /\ KeysFound'
<1> DEFINE node == NodeAt(pi, k)
           np == <<pi, k>>
           rel == query.paths[pi].segs[k].rel
           cur == SlotIndex(node, np)
           src == IF rel.dir = "left" THEN cur ELSE prev
           tgt == IF rel.dir = "left" THEN prev ELSE cur
           e == Len(edges) + 1
           ss == SlotFor(node, np)
           s1 == Anchor(ss, src, e, FALSE)
           R == [var |-> rel.var, type |-> rel.type, props |-> rel.props,
                 src |-> src, tgt |-> tgt]
<1>1. /\ k > 0 /\ pc = "collect" /\ pi <= Len(query.paths) /\ NextSegment
      /\ query' = query /\ pc' = pc
      /\ edges' = Append(edges, R)
      /\ slots' = Anchor(s1, tgt, e, TRUE) /\ prev' = cur
  BY DEF CollectSegment, AtSegment
<1>2. /\ query \in QueryType /\ pi \in Nat \ {0} /\ k \in Nat
      /\ TypeOK /\ UniqueIn(slots) /\ edges \in Seq(EdgeRecords)
  BY DEF IInv, TypeOK
<1>3. k \in 1 .. Len(query.paths[pi].segs) /\ prev \in DOMAIN slots
  <2>1. Len(query.paths[pi].segs) \in Nat
    BY <1>1, <1>2, PathsTyped
  <2>2. k <= Len(query.paths[pi].segs) /\ prev \in DOMAIN slots
    BY <1>1 DEF IInv, Position
  <2>3. k \in Nat /\ k > 0
    BY <1>1, <1>2, Zenon
  <2>4. k \in 1 .. Len(query.paths[pi].segs)
    BY <2>1, <2>2, <2>3
  <2> QED  BY <2>2, <2>4
<1>4. node \in NodePats /\ np \in Nat \X Nat
  BY <1>1, <1>2, <1>3, PathsTyped DEF NodeAt
<1>5. GrownTo(ss) /\ cur \in DOMAIN ss
  BY <1>2, <1>4, SlotForIs
<1>e. e \in Nat \ {0} /\ DOMAIN edges = 1 .. Len(edges) /\ Len(edges) \in Nat
  <2>1. Len(edges) \in Nat /\ DOMAIN edges = 1 .. Len(edges)
    BY <1>2, LenProperties
  <2> QED  BY <2>1
<1>6. /\ DOMAIN slots' = DOMAIN ss
      /\ \A i \in DOMAIN ss : slots'[i].var = ss[i].var /\ slots'[i].np = ss[i].np
  <2> HIDE DEF ss, cur, node, np, rel, e
  <2>1. src \in DOMAIN ss /\ tgt \in DOMAIN ss /\ ss \in Seq(SlotRecords)
    BY <1>3, <1>5 DEF GrownTo
  <2> HIDE DEF src, tgt
  <2>2. AnchorEffect(ss, s1, src, e, FALSE)
    BY <1>e, <2>1, AnchorIs
  <2>3. s1 \in Seq(SlotRecords) /\ DOMAIN s1 = DOMAIN ss
    BY <2>2 DEF AnchorEffect
  <2> HIDE DEF s1
  <2>4. slots' = Anchor(s1, tgt, e, TRUE)
    BY <1>1
  <2>5. tgt \in DOMAIN s1 /\ e \in Nat \ {0} /\ TRUE \in BOOLEAN
    BY <1>e, <2>1, <2>3
  <2>6. AnchorEffect(s1, Anchor(s1, tgt, e, TRUE), tgt, e, TRUE)
    BY <2>3, <2>5, AnchorIs
  <2> QED  BY <2>2, <2>3, <2>4, <2>6 DEF AnchorEffect
<1>7. SlotsFound'
  <2>1. DOMAIN slots' = DOMAIN SlotFor(node, <<pi, k>>)
    BY <1>6
  <2> QED  BY <1>1, <1>4, <1>6, <2>1, SlotsFoundStep
<1>k. KeysFound'
  <2>1. DOMAIN slots' = DOMAIN SlotFor(node, <<pi, k>>) /\ prev' = SlotIndex(node, <<pi, k>>)
    BY <1>1, <1>6
  <2> QED  BY <1>1, <1>4, <1>6, <2>1, KeysFoundStep
<1>8. EdgesFound'
  <2>1. PICK occ \in [DOMAIN edges -> RelOccs] :
          /\ IsInjective(occ)
          /\ \A d \in DOMAIN edges : Seen(occ[d]) /\ EdgeOf(d, occ[d])
          /\ \A o \in RelOccs : Seen(o) => \E d \in DOMAIN edges : occ[d] = o
    BY <1>1 DEF EdgesFound
  <2>2. \A o \in RelOccs : o \in NodeOccs
    BY DEF RelOccs, RelOccsIn, NodeOccs
  <2>3. /\ np \in NodeOccs /\ ~Seen(np)
        /\ \A o \in RelOccs : Seen(o)' <=> Seen(o) \/ o = np
    BY <1>1, <2>2, SeenStep
  <2>4. RelOccs' = RelOccs /\ \A o : RelOf(o)' = RelOf(o)
    BY <1>1, OccsStay
  <2>5. np \in RelOccs /\ RelOf(np) = rel
    <3>1. np[2] > 0
      BY <1>1
    <3> QED  BY <2>3, <3>1 DEF RelOccs, RelOccsIn, NodeOccs, RelOf
  <2>6. /\ DOMAIN edges' = 1 .. Len(edges) + 1 /\ edges'[e] = R
        /\ \A d \in DOMAIN edges : edges'[d] = edges[d]
    <3>2. edges' = Append(edges, R) /\ edges \in Seq(EdgeRecords)
      BY <1>1, <1>2
    <3> HIDE DEF R
    <3>3. /\ DOMAIN edges = 1 .. Len(edges) /\ DOMAIN edges' = 1 .. Len(edges) + 1
          /\ edges'[Len(edges) + 1] = R
          /\ \A d \in 1 .. Len(edges) : edges'[d] = edges[d]
      BY <3>2, AppendIs
    <3> QED  BY <3>3
  <2>p. PICK o0, e0 : o0 = np /\ e0 = e
    OBVIOUS
  <2>k. EdgeOf(e0, o0)'
    <3>1. /\ cur \in DOMAIN slots' /\ prev \in DOMAIN slots'
          /\ KeyOf(slots'[cur].np) = KeyOf(np) /\ KeyOf(slots'[prev].np) = KeyOf(<<pi, k - 1>>)
      <4>1. np \in NodeOccs /\ node = NodeOf(np)
        BY <2>3 DEF NodeOf
      <4>2. KeyOf(ss[cur].np) = KeyOf(np)
        BY <1>2, <1>4, <4>1, SlotKey DEF IInv
      <4>3. /\ cur \in DOMAIN ss /\ prev \in DOMAIN ss /\ ss[prev].np = slots[prev].np
        BY <1>3, <1>5 DEF GrownTo, Kept
      <4>4. KeyOf(slots[prev].np) = KeyOf(<<pi, k - 1>>)
        BY <1>1 DEF KeysFound
      <4> HIDE DEF cur, ss, np
      <4> QED  BY <1>6, <4>2, <4>3, <4>4
    <3>2. /\ SrcKey(np) = KeyOf(IF rel.dir = "left" THEN np ELSE <<pi, k - 1>>)
          /\ TgtKey(np) = KeyOf(IF rel.dir = "left" THEN <<pi, k - 1>> ELSE np)
      BY <2>5 DEF SrcKey, TgtKey, Before
    <3>3. /\ R.var = rel.var /\ R.type = rel.type /\ R.props = rel.props
          /\ R.src = src /\ R.tgt = tgt
      OBVIOUS
    <3>4. /\ src \in DOMAIN slots' /\ KeyOf(slots'[src].np) = SrcKey(np)
          /\ tgt \in DOMAIN slots' /\ KeyOf(slots'[tgt].np) = TgtKey(np)
      <4> HIDE DEF np, cur, rel
      <4> QED  BY <3>1, <3>2
    <3> HIDE DEF np, R, src, tgt, rel, e
    <3>5. /\ RelOf(o0)' = RelOf(o0) /\ SrcKey(o0)' = SrcKey(o0) /\ TgtKey(o0)' = TgtKey(o0)
          /\ \A o : KeyOf(o)' = KeyOf(o)
      BY <1>1, OccsStay
    <3>6. /\ edges'[e0].var = RelOf(o0)'.var /\ edges'[e0].type = RelOf(o0)'.type
          /\ edges'[e0].props = RelOf(o0)'.props
          /\ edges'[e0].src = src /\ edges'[e0].tgt = tgt
      BY <2>5, <2>6, <2>p, <3>3, <3>5
    <3>7. PICK a0, b0 : a0 = src /\ b0 = tgt
      OBVIOUS
    <3>8. /\ a0 \in DOMAIN slots' /\ KeyOf(slots[a0].np)' = SrcKey(o0)'
          /\ b0 \in DOMAIN slots' /\ KeyOf(slots[b0].np)' = TgtKey(o0)'
      BY <2>p, <3>4, <3>5, <3>7
    <3>9. edges'[e0].src = a0 /\ edges'[e0].tgt = b0
      BY <3>6, <3>7
    <3>10. /\ (edges[e0].src \in DOMAIN slots)' /\ KeyOf(slots[edges[e0].src].np)' = SrcKey(o0)'
           /\ (edges[e0].tgt \in DOMAIN slots)' /\ KeyOf(slots[edges[e0].tgt].np)' = TgtKey(o0)'
      BY <3>8, <3>9
    <3> QED  BY <3>6, <3>10 DEF EdgeOf
  <2>o. PICK occ2 : occ2 = [d \in 1 .. Len(edges) + 1 |-> IF d = e THEN np ELSE occ[d]]
    OBVIOUS
  <2> HIDE DEF np, rel, R, ss, s1, cur, src, tgt, node
  <2>7. \A d \in DOMAIN edges : d \in 1 .. Len(edges) + 1 /\ d # e /\ occ2[d] = occ[d]
    BY <1>e, <2>o
  <2>8. e \in 1 .. Len(edges) + 1 /\ occ2[e] = np
    BY <1>e, <2>o
  <2>9. \A d \in 1 .. Len(edges) + 1 : d \in DOMAIN edges \/ d = e
    BY <1>e, <2>o
  <2>10. occ2 \in [DOMAIN edges' -> RelOccs']
    BY <2>4, <2>5, <2>6, <2>9, <2>o
  <2>d. DOMAIN occ2 = 1 .. Len(edges) + 1
    BY <2>o
  <2> HIDE DEF e
  <2>11. IsInjective(occ2)
    <3>1. ASSUME NEW a \in DOMAIN occ2, NEW b \in DOMAIN occ2, occ2[a] = occ2[b]
          PROVE  a = b
      <4>1. CASE a \in DOMAIN edges /\ b \in DOMAIN edges
        <5>1. occ[a] = occ[b] /\ a \in DOMAIN occ /\ b \in DOMAIN occ
          BY <2>7, <3>1, <4>1
        <5> QED  BY <2>1, <5>1 DEF IsInjective
      <4>2. CASE a = e /\ b \in DOMAIN edges
        BY <2>1, <2>3, <2>7, <2>8, <3>1, <4>2
      <4>3. CASE b = e /\ a \in DOMAIN edges
        BY <2>1, <2>3, <2>7, <2>8, <3>1, <4>3
      <4> QED  BY <2>9, <2>d, <4>1, <4>2, <4>3
    <3> QED  BY <3>1 DEF IsInjective
  <2>12. \A d \in DOMAIN edges' : Seen(occ2[d])' /\ EdgeOf(d, occ2[d])'
    <3>1. ASSUME NEW d \in DOMAIN edges
          PROVE  Seen(occ2[d])' /\ EdgeOf(d, occ2[d])'
      <4>1. occ2[d] = occ[d] /\ occ[d] \in RelOccs
        BY <2>7
      <4>2. Seen(occ[d]) /\ EdgeOf(d, occ[d])
        BY <2>1
      <4>3. /\ DOMAIN slots \subseteq DOMAIN slots'
            /\ \A i \in DOMAIN slots : slots'[i].np = slots[i].np
        BY <1>5, <1>6 DEF GrownTo, Kept
      <4>4. EdgeOf(d, occ[d])'
        BY <1>1, <2>6, <4>2, <4>3, EdgeOfKept
      <4> QED  BY <2>3, <4>1, <4>2, <4>4
    <3>2. ASSUME NEW d, d = e
          PROVE  Seen(occ2[d])' /\ EdgeOf(d, occ2[d])'
      <4>1. occ2[d] = np /\ occ2[d] \in RelOccs
        BY <2>5, <2>8, <3>2
      <4>2. Seen(occ2[d])'
        BY <2>3, <4>1
      <4>3. d = e0 /\ occ2[d] = o0
        BY <2>p, <3>2, <4>1
      <4> QED  BY <2>k, <4>2, <4>3
    <3> QED  BY <2>6, <2>9, <3>1, <3>2
  <2>13. \A o \in RelOccs' : Seen(o)' => \E d \in DOMAIN edges' : occ2[d] = o
    <3> SUFFICES ASSUME NEW o \in RelOccs, Seen(o)'
                 PROVE  \E d \in DOMAIN edges' : occ2[d] = o
      BY <2>4
    <3>1. CASE o = np
      BY <2>6, <2>8, <3>1
    <3>2. CASE Seen(o)
      <4>1. PICK d \in DOMAIN edges : occ[d] = o
        BY <2>1, <3>2
      <4> QED  BY <2>6, <2>7, <4>1
    <3> QED  BY <2>3, <3>1, <3>2
  <2> QED  BY <2>10, <2>11, <2>12, <2>13 DEF EdgesFound
<1> QED  BY <1>7, <1>8, <1>k

\* Opening a hop finds both its ends and its relationship.
LEMMA OpenFound ==
  ASSUME TypeOK, Sole, pc = "collect", NEW src \in {1, 2}, NEW tgt \in {1, 2},
         OpenHop(src, tgt), Rel.dir = "left" => src = 2 /\ tgt = 1,
         Rel.dir # "left" => src = 1 /\ tgt = 2
  PROVE  SlotsFound' /\ EdgesFound' /\ KeysFound'
<1> DEFINE s == EndSlot(Left, 0)
           t == EndSlot(Right, 1)
           hop == [var |-> Rel.var, type |-> Rel.type, props |-> Rel.props,
                   src |-> src, tgt |-> tgt]
<1>1. /\ slots' = <<s, t>> /\ edges' = <<hop>> /\ query' = query /\ pc' = "select"
  BY DEF OpenHop, HopPhases
<1>2. /\ s.np = <<1, 0>> /\ t.np = <<1, 1>> /\ s.var = Left.var /\ t.var = Right.var
      /\ hop.var = Rel.var /\ hop.type = Rel.type /\ hop.props = Rel.props
      /\ hop.src = src /\ hop.tgt = tgt
  BY DEF EndSlot
<1> HIDE DEF s, t, hop
<1>3. query \in QueryType /\ Len(query.paths) = 1 /\ Len(query.paths[1].segs) = 1
  BY DEF TypeOK, Sole
<1>4. /\ <<1, 0>> \in NodeOccs /\ <<1, 1>> \in NodeOccs
      /\ \A o \in NodeOccs : o = <<1, 0>> \/ o = <<1, 1>>
  <2>1. 1 \in 1 .. Len(query.paths) /\ 0 \in 0 .. Len(query.paths[1].segs)
          /\ 1 \in 0 .. Len(query.paths[1].segs)
    BY <1>3
  <2>2. ASSUME NEW o \in NodeOccs
        PROVE  o = <<1, 0>> \/ o = <<1, 1>>
    <3>1. /\ o = <<o[1], o[2]>> /\ o[1] \in 1 .. Len(query.paths)
          /\ o[2] \in 0 .. Len(query.paths[o[1]].segs) /\ o[2] \in Nat
      BY <1>3, OccsAre
    <3>2. o[1] = 1
      BY <1>3, <3>1
    <3>3. o[2] = 0 \/ o[2] = 1
      <4>1. Len(query.paths[o[1]].segs) = 1
        BY <1>3, <3>2
      <4>2. o[2] \in 0 .. 1
        BY <3>1, <4>1
      <4> HIDE DEF NodeOccs
      <4> QED  BY <4>2
    <3> QED  BY <3>1, <3>2, <3>3
  <2> QED  BY <1>3, <2>1, <2>2, OccsAre
<1>5. RelOccs = {<<1, 1>>}
  <2>1. \A o \in NodeOccs : o[2] > 0 <=> o = <<1, 1>>
    BY <1>4
  <2> QED  BY <1>4, <2>1 DEF RelOccs, RelOccsIn, NodeOccs
<1>6. /\ NodeOccs' = NodeOccs /\ RelOccs' = RelOccs
      /\ \A o : NodeOf(o)' = NodeOf(o) /\ RelOf(o)' = RelOf(o)
      /\ \A o : SrcKey(o)' = SrcKey(o) /\ TgtKey(o)' = TgtKey(o) /\ KeyOf(o)' = KeyOf(o)
      /\ \A o : Seen(o)'
  BY <1>1, OccsStay DEF Seen
<1>7. /\ NodeOf(<<1, 0>>) = Left /\ NodeOf(<<1, 1>>) = Right /\ RelOf(<<1, 1>>) = Rel
  BY DEF NodeOf, Left, Right, RelOf, Rel
<1>8. SlotsFound'
  <2>1. DOMAIN slots' = {1, 2} /\ slots'[1] = s /\ slots'[2] = t
    BY <1>1
  <2>2. slots'[1].np # slots'[2].np
    BY <1>2, <2>1
  <2>3. /\ \A i \in {1, 2} : /\ slots'[i].np \in NodeOccs'
                             /\ slots'[i].var = (NodeOf(slots[i].np))'.var
    BY <1>2, <1>4, <1>6, <1>7, <2>1
  <2> QED  BY <1>6, <2>1, <2>2, <2>3 DEF SlotsFound
<1>9. EdgesFound'
  <2> DEFINE occ == [e \in {1} |-> <<1, 1>>]
  <2>1. DOMAIN edges' = {1} /\ edges'[1] = hop
    BY <1>1
  <2>2. occ \in [DOMAIN edges' -> RelOccs'] /\ IsInjective(occ)
    BY <1>5, <1>6, <2>1 DEF IsInjective
  <2>5. \A e \in DOMAIN edges' : e = 1 /\ occ[e] = <<1, 1>>
    BY <2>1
  <2>6. DOMAIN slots' = {1, 2} /\ slots'[1].np = <<1, 0>> /\ slots'[2].np = <<1, 1>>
    BY <1>1, <1>2
  <2>7. /\ SrcKey(<<1, 1>>) = KeyOf(IF Rel.dir = "left" THEN <<1, 1>> ELSE <<1, 0>>)
        /\ TgtKey(<<1, 1>>) = KeyOf(IF Rel.dir = "left" THEN <<1, 0>> ELSE <<1, 1>>)
    BY <1>7 DEF SrcKey, TgtKey, Before
  <2>8. /\ KeyOf(slots[src].np)' = SrcKey(<<1, 1>>)' /\ src \in DOMAIN slots'
        /\ KeyOf(slots[tgt].np)' = TgtKey(<<1, 1>>)' /\ tgt \in DOMAIN slots'
    BY <1>6, <2>6, <2>7
  <2>9. edges'[1].src = src /\ edges'[1].tgt = tgt
    BY <1>2, <2>1
  <2>10. /\ KeyOf(slots[edges[1].src].np)' = SrcKey(<<1, 1>>)'
         /\ KeyOf(slots[edges[1].tgt].np)' = TgtKey(<<1, 1>>)'
    BY <2>8, <2>9
  <2>11. EdgeOf(1, <<1, 1>>)'
    BY <1>2, <1>6, <1>7, <2>1, <2>8, <2>9, <2>10 DEF EdgeOf
  <2>3. \A e \in DOMAIN edges' : EdgeOf(e, occ[e])'
    BY <2>5, <2>11
  <2>4. \A o \in RelOccs' : \E e \in DOMAIN edges' : occ[e] = o
    BY <1>5, <1>6, <2>1
  <2> HIDE DEF occ
  <2> QED  BY <1>6, <2>2, <2>3, <2>4 DEF EdgesFound
<1>10. KeysFound'
  <2>1. DOMAIN slots' = {1, 2} /\ slots'[1].np = <<1, 0>> /\ slots'[2].np = <<1, 1>>
    BY <1>1, <1>2
  <2>2. \A o \in NodeOccs : \E i \in DOMAIN slots' : slots'[i].np = o
    BY <1>4, <2>1
  <2>3. \A o \in NodeOccs' : \E i \in DOMAIN slots' : KeyOf(slots[i].np)' = KeyOf(o)'
    BY <1>6, <2>2
  <2> QED  BY <1>1, <2>3 DEF KeysFound
<1> QED  BY <1>8, <1>9, <1>10

Found == SlotsFound /\ EdgesFound /\ KeysFound

\* A step that leaves the records alone leaves what was found.
LEMMA QuietFound ==
  ASSUME TypeOK, Found, Quiet, Running \/ pc' = "failed" \/ (NextPhase /\ Engine = "directed")
  PROVE  Found'
<1>1. /\ query' = query /\ edges' = edges /\ DOMAIN slots' = DOMAIN slots
      /\ \A i \in DOMAIN slots : slots'[i].var = slots[i].var /\ slots'[i].np = slots[i].np
      /\ pc' \notin {"dispatch", "collect"} /\ query \in QueryType /\ pi \in Nat
  BY DEF Quiet, Kept, TypeOK
<1>2. \/ pc' = "failed"
      \/ pc \notin {"dispatch", "collect", "failed"}
      \/ Len(query.paths) < pi /\ pc # "failed"
  <2>1. CASE NextPhase
    <3>1. pc # "failed" /\ pc # "dispatch"
      <4>1. PICK i \in 1 .. 13 : pc = Phases[i]
        BY <2>1, PhasesAre DEF NextPhase
      <4> QED  BY <4>1 DEF Phases
    <3>2. CASE pc = "collect"
      <4>1. PhaseLength < pi
        BY <2>1, <3>2 DEF NextPhase
      <4> QED  BY <3>1, <3>2, <4>1 DEF PhaseLength
    <3> QED  BY <3>1, <3>2
  <2> QED  BY <2>1 DEF Running
<1> QED  BY <1>1, <1>2, FoundKept DEF Found

\* The only relationship of a query of the other engines is why they took it.
LEMMA SoleUndirected ==
  ASSUME query \in QueryType, Sole
  PROVE  /\ Rels = {Rel}
         /\ Engine = "undirected" => Rel.dir = "none" /\ Rel.varlen = NULL
         /\ Engine = "varlen" => Rel.varlen # NULL
<1>1. DOMAIN query.paths = {1}
  <2>1. Len(query.paths) = 1 /\ DOMAIN query.paths = 1 .. Len(query.paths)
    BY LenProperties DEF QueryType, Sole
  <2> QED  BY <2>1
<1>2. DOMAIN query.paths[1].segs = {1}
  <2>1. query.paths[1] \in Paths
    BY <1>1 DEF QueryType
  <2>2. query.paths[1].segs \in Seq([rel : RelPats, node : NodePats])
    BY <2>1 DEF Paths
  <2>3. Len(query.paths[1].segs) = 1
    BY DEF Sole
  <2>4. DOMAIN query.paths[1].segs = 1 .. 1
    BY <2>2, <2>3, LenProperties
  <2> QED  BY <2>4
<1>3. Rels = {Rel}
  BY <1>1, <1>2 DEF Rels, Rel
<1> QED  BY <1>3 DEF Engine, HasVarlen, HasUndirected

\* Every step keeps the records those of the occurrences that were passed.
LEMMA FoundStep == TInv /\ Found /\ [Next]_vars => Found'
<1> SUFFICES ASSUME TInv, Found, [Next]_vars PROVE Found'
  OBVIOUS
<1>1. TypeOK /\ query \in QueryType
  BY DEF TInv, TypeOK
<1>2. CASE Dispatch \/ UNCHANGED vars
  <2>1. /\ query' = query /\ edges' = edges /\ slots' = slots /\ pi' = pi /\ k' = k
        /\ prev' = prev
        /\ \/ pc = "dispatch" /\ pc' = "collect"
           \/ pc' = pc
    BY <1>2 DEF Dispatch, vars
  <2> QED  BY <1>1, <2>1, FoundKept DEF Found
<1>3. CASE Refuse
  <2>1. Quiet /\ pc' = "failed"
    BY <1>1, <1>3, RejectStep DEF Refuse, Reject
  <2> QED  BY <1>1, <2>1, QuietFound
<1>4. CASE Engine = "directed" /\ GeneralNext
  <2>1. IInv
    BY <1>4 DEF TInv
  <2>2. CASE CollectStart \/ CollectSegment
    BY <2>1, <2>2, StartFound, SegmentFound DEF Found
  <2>3. CASE \/ CollectFail \/ ResolveFail \/ MarkFail \/ SelectFail \/ WhereFail
             \/ OrderFail \/ PredsFail
    <3>1. Quiet /\ pc' = "failed"
      BY <1>1, <2>3, RejectStep DEF CollectFail, ResolveFail, MarkFail, SelectFail,
           WhereFail, OrderFail, PredsFail, Reject
    <3> QED  BY <1>1, <3>1, QuietFound
  <2>4. CASE NextPhase
    BY <1>1, <1>4, <2>4, PhaseStep, QuietFound
  <2>5. CASE ResolveSlot \/ MarkSlot
    <3>1. Quiet /\ Running
      BY <1>1, <2>5, ResolveStep, MarkStep DEF ResolveSlot, MarkSlot, AtStep, Running
    <3> QED  BY <1>1, <3>1, QuietFound
  <2>6. CASE \/ Bind \/ EmitSelect \/ EmitWhere \/ OrderByAlias \/ EmitOrder
             \/ EmitGroup \/ SkipGroup \/ FromEdge \/ FromLone \/ SkipLone
             \/ FromNode \/ SkipJoin \/ EmitPreds \/ EmitPage
    <3>1. Running
      BY <2>6 DEF Bind, EmitSelect, EmitWhere, OrderByAlias, EmitOrder, EmitGroup,
           SkipGroup, FromEdge, FromLone, SkipLone, FromNode, SkipJoin, EmitPreds,
           EmitPage, AtStep, Running
    <3> QED  BY <1>1, <2>6, <3>1, EmissionStep, QuietFound
  <2> QED  BY <1>4, <2>2, <2>3, <2>4, <2>5, <2>6 DEF GeneralNext
<1>5. CASE \/ Engine = "undirected" /\ UndirectedNext
           \/ Engine = "varlen" /\ VarlenNext
  <2>1. pc = "collect" => Sole
    BY <1>5 DEF TInv, HopInv
  <2>2. CASE \/ Engine = "undirected" /\ OpenUndirected
             \/ Engine = "varlen" /\ OpenVarlen
    <3>1. CASE Engine = "varlen" /\ OpenVarlen
      <4>1. /\ pc = "collect" /\ OpenHop(SlotOf("source"), SlotOf("target"))
            /\ Rel.dir = "left" => SlotOf("source") = 2 /\ SlotOf("target") = 1
            /\ Rel.dir # "left" => SlotOf("source") = 1 /\ SlotOf("target") = 2
            /\ SlotOf("source") \in {1, 2} /\ SlotOf("target") \in {1, 2}
        BY <3>1 DEF OpenVarlen, SlotOf, OnLeft
      <4> HIDE DEF Found
      <4> QED  BY <1>1, <2>1, <4>1, OpenFound DEF Found
    <3>2. CASE Engine = "undirected" /\ OpenUndirected
      <4>1. pc = "collect" /\ OpenHop(1, 2)
        BY <3>2 DEF OpenUndirected
      <4>2. Rel.dir # "left"
        BY <1>1, <2>1, <3>2, <4>1, SoleUndirected
      <4> QED  BY <1>1, <2>1, <4>1, <4>2, OpenFound DEF Found
    <3> QED  BY <2>2, <3>1, <3>2
  <2>3. CASE ~(\/ Engine = "undirected" /\ OpenUndirected
               \/ Engine = "varlen" /\ OpenVarlen)
    <3>1. Quiet /\ (Running \/ pc' = "failed")
      <4>1. CASE RefuseUndirected \/ RefuseVarlen \/ RefusePreds
        BY <1>1, <4>1, RejectStep DEF RefuseUndirected, RefuseVarlen, RefusePreds, Reject
      <4>2. CASE \/ NextHopPhase \/ EmitClauses \/ FromUndirected \/ JoinUndirected
                 \/ SkipUndirected \/ JoinWalk \/ SkipWalk
        BY <1>1, <4>2, SharedStep DEF FromUndirected, JoinUndirected, SkipUndirected,
             JoinWalk, SkipWalk
      <4>3. CASE PredsUndirected \/ PredsWalk
        BY <1>1, <4>3, PredsStep DEF PredsUndirected, PredsWalk, AtStep, Running
      <4>4. CASE FromWalk
        BY <1>1, <4>4, StayStep DEF FromWalk, AtStep, Stay, Running
      <4> QED  BY <1>5, <2>3, <4>1, <4>2, <4>3, <4>4 DEF UndirectedNext, VarlenNext
    <3> QED  BY <1>1, <3>1, QuietFound
  <2> QED  BY <2>2, <2>3
<1> QED  BY <1>2, <1>3, <1>4, <1>5 DEF Next

-----------------------------------------------------------------------------
(* What the steps that emit write *)

\* The phases that emit, and those before them.
Emitting == {"select", "where", "order", "group", "from", "lone", "join", "pred",
             "page", "done"}
Unbound == {"dispatch", "collect", "resolve", "mark", "bind"}

\* A step that emits leaves what the nodes, relationships and binds are alone,
\* but nodes may be marked.
MarksOnly(s, t) ==
  /\ t.var = s.var /\ t.label = s.label /\ t.name = s.name /\ t.lone = s.lone
  /\ t.anchor = s.anchor /\ t.onTarget = s.onTarget /\ t.np = s.np
  /\ s.referenced => t.referenced
Steady ==
  /\ query' = query /\ edges' = edges /\ binds' = binds
  /\ DOMAIN slots' = DOMAIN slots
  /\ \A i \in DOMAIN slots : MarksOnly(slots[i], slots'[i])

\* What marking does to a slot.
LEMMA MarkedSlot ==
  ASSUME TypeOK, NEW x, NEW i \in DOMAIN slots
  PROVE  /\ MarksOnly(slots[i], Marked(x)[i]) /\ DOMAIN Marked(x) = DOMAIN slots
         /\ (\E r \in Reads(x) : r.of = <<"slot", i>>) => Marked(x)[i].referenced
         /\ Marked(x)[i].referenced =>
              slots[i].referenced \/ \E r \in Reads(x) : r.of = <<"slot", i>>
<1> DEFINE read == \E r \in Reads(x) : r.of = <<"slot", i>>
<1>1. slots[i] \in SlotRecords /\ DOMAIN Marked(x) = DOMAIN slots
  BY DEF TypeOK, Marked
<1>2. Marked(x)[i] = IF read THEN [slots[i] EXCEPT !.referenced = TRUE] ELSE slots[i]
  BY DEF Marked
<1> HIDE DEF read
<1>3. CASE read
  BY <1>1, <1>2, <1>3 DEF SlotRecords, MarksOnly, read
<1>4. CASE ~read
  BY <1>1, <1>2, <1>4 DEF MarksOnly, read
<1> QED  BY <1>3, <1>4

\* What the steps that emit write: an expression of a clause, an item of FROM,
\* predicates, or nothing that is read.
Clauses == {"select", "where", "order", "group"}
Written == Clauses \cup {"from", "pred"}
Others(f) == \A g \in (Written \cup {"with"}) \ {f} : g \in DOMAIN sql' /\ sql'[g] = sql[g]
WritesNothing == slots' = slots /\ Others("")
WritesClause(f, c) ==
  /\ pc = f /\ pc' = f /\ k' = k + 1 /\ f \in DOMAIN sql' /\ sql'[f] = Append(sql[f], c)
  /\ Others(f)
  /\ \/ \E e : CanEmit(e) /\ c.reads = Reads(e) /\ slots' = Marked(e)
     \/ c.reads = {} /\ slots' = slots
WritesItem(item) ==
  /\ slots' = slots /\ pc' = pc /\ k' = k + 1
  /\ "from" \in DOMAIN sql' /\ sql'.from = Append(sql.from, item)
  /\ \A g \in Clauses \cup {"pred"} : g \in DOMAIN sql' /\ sql'[g] = sql[g]
WritesPreds(preds) ==
  /\ slots' = slots /\ pc' = pc
  /\ "pred" \in DOMAIN sql' /\ sql'.pred = sql.pred \o preds /\ Others("pred")

\* Every clause is a sequence.
Clean == \A f \in Written \cup {"with"} : f \in DOMAIN sql /\ \E S : sql[f] \in Seq(S)

\* The steps of the phases that emit, engine by engine.
DirectedItem == Engine = "directed" /\ (FromEdge \/ FromLone \/ FromNode)
UndirectedItem == Engine = "undirected" /\ (FromUndirected \/ JoinUndirected)
WalkItem == Engine = "varlen" /\ (FromWalk \/ JoinWalk)
Item == DirectedItem \/ UndirectedItem \/ WalkItem
Skipped ==
  \/ SkipGroup \/ EmitPage
  \/ Engine = "directed" /\ (SkipLone \/ SkipJoin)
  \/ Engine = "undirected" /\ SkipUndirected
  \/ Engine = "varlen" /\ SkipWalk
Predicates ==
  \/ Engine = "directed" /\ EmitPreds
  \/ Engine = "undirected" /\ PredsUndirected
  \/ Engine = "varlen" /\ PredsWalk
Clause == EmitSelect \/ EmitWhere \/ OrderByAlias \/ EmitOrder \/ EmitGroup
Phase ==
  \/ Engine = "directed" /\ NextPhase
  \/ Engine # "directed" /\ NextHopPhase

\* The steps of the phases that emit are those above.
LEMMA EmittingSteps ==
  ASSUME Next, pc \in Emitting, pc' # "failed"
  PROVE  Phase \/ Clause \/ Skipped \/ Item \/ Predicates
<1>1. pc # "dispatch" /\ pc # "collect" /\ pc # "resolve" /\ pc # "mark" /\ pc # "bind"
  BY DEF Emitting
<1>2. CASE Engine = "directed" /\ GeneralNext
  <2>1. /\ ~CollectStart /\ ~CollectSegment /\ ~CollectFail /\ ~ResolveSlot /\ ~ResolveFail
        /\ ~MarkSlot /\ ~MarkFail /\ ~Bind
        /\ ~SelectFail /\ ~WhereFail /\ ~OrderFail /\ ~PredsFail
    BY <1>1 DEF CollectStart, CollectSegment, CollectFail, ResolveSlot, ResolveFail,
         MarkSlot, MarkFail, Bind, AtStep, AtSegment, SelectFail, WhereFail, OrderFail,
         PredsFail, Reject
  <2> QED  BY <1>2, <2>1 DEF GeneralNext, Phase, Clause, Skipped, Item, DirectedItem, Predicates
<1>3. CASE Engine = "undirected" /\ UndirectedNext
  <2>1. /\ ~OpenUndirected /\ ~RefuseUndirected /\ ~RefusePreds
        /\ ~SelectFail /\ ~WhereFail /\ ~OrderFail
    BY <1>1 DEF OpenUndirected, RefuseUndirected, RefusePreds, SelectFail, WhereFail,
         OrderFail, Reject
  <2> QED  BY <1>3, <2>1
       DEF UndirectedNext, EmitClauses, Phase, Clause, Skipped, Item, UndirectedItem, Predicates
<1>4. CASE Engine = "varlen" /\ VarlenNext
  <2>1. ~OpenVarlen /\ ~RefuseVarlen /\ ~SelectFail /\ ~WhereFail /\ ~OrderFail
    BY <1>1 DEF OpenVarlen, RefuseVarlen, SelectFail, WhereFail, OrderFail, Reject
  <2> QED  BY <1>4, <2>1
       DEF VarlenNext, EmitClauses, Phase, Clause, Skipped, Item, WalkItem, Predicates
<1>5. ~Dispatch /\ ~Refuse
  BY <1>1 DEF Dispatch, Refuse
<1> QED  BY <1>2, <1>3, <1>4, <1>5 DEF Next

\* Which phases follow which.
LEMMA PhaseOrder ==
  ASSUME Phase, pc \in Emitting
  PROVE  /\ pc' \in Emitting /\ k' = 1 /\ PhaseLength < k
         /\ UNCHANGED <<query, slots, edges, binds, sql>>
         /\ <<pc, pc'>> \in
              {<<"select", "where">>, <<"where", "order">>, <<"order", "group">>,
               <<"group", "from">>, <<"pred", "page">>, <<"page", "done">>,
               <<"join", "pred">>}
              \cup (IF Engine = "directed" THEN {<<"from", "lone">>, <<"lone", "join">>}
                    ELSE {<<"from", "join">>})
<1>1. CASE Engine = "directed" /\ NextPhase
  <2>1. PICK i \in 1 .. 13 : pc = Phases[i] /\ pc' = Phases[i + 1]
    BY <1>1, PhasesAre DEF NextPhase
  <2>2. <<pc, pc'>> \in
              {<<"select", "where">>, <<"where", "order">>, <<"order", "group">>,
               <<"group", "from">>, <<"pred", "page">>, <<"page", "done">>,
               <<"join", "pred">>, <<"from", "lone">>, <<"lone", "join">>}
    BY <2>1 DEF Phases, Emitting
  <2>3. k' = 1 /\ PhaseLength < k /\ UNCHANGED <<query, slots, edges, binds, sql>>
    BY <1>1, <2>2 DEF NextPhase
  <2>4. pc' \in Emitting
    BY <2>2 DEF Emitting
  <2> QED  BY <1>1, <2>2, <2>3, <2>4
<1>2. CASE Engine # "directed" /\ NextHopPhase
  <2>1. PICK i \in 1 .. 8 : pc = HopPhases[i] /\ pc' = HopPhases[i + 1]
    BY <1>2 DEF NextHopPhase, HopPhases
  <2>2. <<pc, pc'>> \in
              {<<"select", "where">>, <<"where", "order">>, <<"order", "group">>,
               <<"group", "from">>, <<"pred", "page">>, <<"page", "done">>,
               <<"join", "pred">>, <<"from", "join">>}
    BY <2>1 DEF HopPhases, Emitting
  <2>3. k' = 1 /\ PhaseLength < k /\ UNCHANGED <<query, slots, edges, binds, sql>>
    BY <1>2 DEF NextHopPhase
  <2>4. pc' \in Emitting
    BY <2>2 DEF Emitting
  <2> QED  BY <1>2, <2>2, <2>3, <2>4
<1> QED  BY <1>1, <1>2 DEF Phase

\* A step that may mark nodes and changes no record is steady.
LEMMA SlotsSteady ==
  ASSUME TypeOK, query' = query, edges' = edges, binds' = binds,
         slots' = slots \/ \E x : slots' = Marked(x)
  PROVE  Steady
<1>1. CASE slots' = slots
  BY <1>1 DEF Steady, MarksOnly
<1>2. CASE \E x : slots' = Marked(x)
  <2>1. PICK x : slots' = Marked(x)
    BY <1>2
  <2>2. DOMAIN slots' = DOMAIN slots
    BY <2>1 DEF Marked
  <2>3. \A i \in DOMAIN slots : MarksOnly(slots[i], slots'[i])
    BY <2>1, MarkedSlot
  <2> QED  BY <2>2, <2>3 DEF Steady
<1> QED  BY <1>1, <1>2

\* A step of RETURN, WHERE, ORDER BY or GROUP BY writes at the end of its clause.
LEMMA ClauseWrites ==
  ASSUME TypeOK, Clean, Clause
  PROVE  Steady /\ pc' = pc /\ k' = k + 1 /\ \E f \in Clauses : \E c : WritesClause(f, c)
<1> USE DEF Clauses, Written
<1>1. \A f \in Written \cup {"with"} : f \in DOMAIN sql
  BY DEF Clean
<1>2. CASE EmitSelect
  <2> DEFINE e == query.items[k] c == Selected(e)
  <2>1. /\ pc = "select" /\ pc' = pc /\ k' = k + 1 /\ CanEmit(e) /\ slots' = Marked(e)
        /\ query' = query /\ edges' = edges /\ binds' = binds
        /\ sql' = [sql EXCEPT !.distinct = query.distinct, !.select = Append(@, c)]
    BY <1>2 DEF EmitSelect, AtStep
  <2>2. c.reads = Reads(e)
    BY DEF Selected
  <2> HIDE DEF e, c
  <2>3. sql'["select"] = Append(sql["select"], c) /\ Others("select") /\ "select" \in DOMAIN sql'
    BY <1>1, <2>1 DEF Others
  <2>4. WritesClause("select", c)
    BY <2>1, <2>2, <2>3 DEF WritesClause
  <2> QED  BY <2>1, <2>4, SlotsSteady
<1>3. CASE EmitWhere
  <2> DEFINE e == query.where[k] c == [reads |-> Reads(e), val |-> query.where[k].val]
  <2>1. /\ pc = "where" /\ pc' = pc /\ k' = k + 1 /\ CanEmit(e) /\ slots' = Marked(e)
        /\ query' = query /\ edges' = edges /\ binds' = binds
        /\ sql' = [sql EXCEPT !.where = Append(@, c)]
    BY <1>3 DEF EmitWhere, AtStep, CanTest
  <2>2. c.reads = Reads(e)
    OBVIOUS
  <2> HIDE DEF e, c
  <2>3. sql'["where"] = Append(sql["where"], c) /\ Others("where") /\ "where" \in DOMAIN sql'
    BY <1>1, <2>1 DEF Others
  <2>4. WritesClause("where", c)
    BY <2>1, <2>2, <2>3 DEF WritesClause
  <2> QED  BY <2>1, <2>4, SlotsSteady
<1>4. CASE OrderByAlias
  <2> DEFINE c == [kind |-> "alias", reads |-> {}, name |-> query.order[k].var]
  <2>1. /\ pc = "order" /\ pc' = pc /\ k' = k + 1 /\ slots' = slots
        /\ query' = query /\ edges' = edges /\ binds' = binds
        /\ sql' = [sql EXCEPT !.order = Append(@, c)]
    BY <1>4 DEF OrderByAlias, AtStep
  <2>2. c.reads = {}
    OBVIOUS
  <2> HIDE DEF c
  <2>3. sql'["order"] = Append(sql["order"], c) /\ Others("order") /\ "order" \in DOMAIN sql'
    BY <1>1, <2>1 DEF Others
  <2>4. WritesClause("order", c)
    BY <2>1, <2>2, <2>3 DEF WritesClause
  <2> QED  BY <2>1, <2>4, SlotsSteady
<1>5. CASE EmitOrder \/ EmitGroup
  <2>0. PICK f \in {"order", "group"} : pc = f /\ \E e : Emit(f, e)
    BY <1>5 DEF EmitOrder, EmitGroup, AtStep
  <2>1. PICK e : Emit(f, e)
    BY <2>0
  <2> DEFINE c == Emitted(e)
  <2>2. /\ pc' = pc /\ k' = k + 1 /\ CanEmit(e) /\ slots' = Marked(e)
        /\ query' = query /\ edges' = edges /\ binds' = binds
        /\ sql' = [sql EXCEPT ![f] = Append(@, c)]
    BY <2>1 DEF Emit
  <2>3. c.reads = Reads(e)
    BY DEF Emitted
  <2> HIDE DEF c
  <2>4. sql'[f] = Append(sql[f], c) /\ Others(f) /\ f \in DOMAIN sql'
    BY <1>1, <2>2 DEF Others
  <2>5. WritesClause(f, c)
    BY <2>0, <2>2, <2>3, <2>4 DEF WritesClause
  <2> QED  BY <2>2, <2>5, SlotsSteady
<1> QED  BY <1>2, <1>3, <1>4, <1>5 DEF Clause

\* A step to another phase, or past a slot or an item, writes nothing.
LEMMA SkipWrites ==
  ASSUME TypeOK, Clean, (Phase /\ pc \in Emitting) \/ Skipped
  PROVE  Steady /\ WritesNothing /\ (Skipped => pc' = pc /\ k' = k + 1)
<1>1. \A f \in Written \cup {"with"} : f \in DOMAIN sql
  BY DEF Clean
<1>2. CASE Phase /\ pc \in Emitting /\ ~Skipped
  <2>1. UNCHANGED <<query, slots, edges, binds, sql>>
    BY <1>2, PhaseOrder
  <2> QED  BY <1>1, <1>2, <2>1, SlotsSteady DEF WritesNothing, Others
<1>3. CASE EmitPage
  <2>1. /\ UNCHANGED <<query, slots, edges, binds>> /\ pc' = pc /\ k' = k + 1
        /\ sql' = [sql EXCEPT !.offset = query.skip,
               !.limit = IF query.limit = NULL /\ query.skip # NULL THEN -1
                         ELSE query.limit]
    BY <1>3 DEF EmitPage
  <2>2. Others("")
    BY <1>1, <2>1 DEF Others, Written, Clauses
  <2> QED  BY <2>1, <2>2, SlotsSteady DEF WritesNothing
<1>4. CASE Skipped /\ ~EmitPage
  <2>1. Skip
    BY <1>4 DEF Skipped, SkipGroup, SkipLone, SkipJoin, SkipUndirected, SkipWalk, SkipEnd
  <2>2. UNCHANGED <<query, slots, edges, binds, sql>> /\ pc' = pc /\ k' = k + 1
    BY <2>1 DEF Skip
  <2> QED  BY <1>1, <2>2, SlotsSteady DEF WritesNothing, Others
<1> QED  BY <1>2, <1>3, <1>4

PredsWritten ==
  CASE Engine = "directed" -> EdgePreds(k) \o PropPreds(k)
    [] Engine = "undirected" -> TypePreds \o OrientationPreds \o PropPreds(1)
    [] Engine = "varlen" -> EndPreds("source") \o EndPreds("target") \o DepthPreds

\* A step of the predicates joins what it writes to those there are.
LEMMA PredsWrites ==
  ASSUME TypeOK, Clean, Predicates
  PROVE  Steady /\ pc' = pc /\ pc = "pred" /\ k' = k + 1 /\ WritesPreds(PredsWritten)
<1>1. \A f \in Written \cup {"with"} : f \in DOMAIN sql /\ \E S : sql[f] \in Seq(S)
  BY DEF Clean
<1>2. /\ UNCHANGED <<query, slots, edges, binds>> /\ pc' = pc /\ pc = "pred" /\ k' = k + 1
  BY DEF Predicates, EmitPreds, PredsUndirected, PredsWalk, AddPreds, AtStep
<1>3. sql' = [sql EXCEPT !.pred = @ \o PredsWritten]
  <2>1. CASE Engine = "directed" /\ EmitPreds
    <3>1. sql' = [sql EXCEPT !.pred = @ \o (EdgePreds(k) \o PropPreds(k))]
      BY <2>1 DEF EmitPreds
    <3> QED  BY <2>1, <3>1 DEF PredsWritten
  <2>2. CASE Engine = "undirected" /\ PredsUndirected
    BY <2>2 DEF PredsUndirected, AddPreds, PredsWritten
  <2>3. CASE Engine = "varlen" /\ PredsWalk
    BY <2>3 DEF PredsWalk, AddPreds, PredsWritten
  <2> QED  BY <2>1, <2>2, <2>3 DEF Predicates
<1> HIDE DEF PredsWritten
<1>4. Others("pred") /\ sql'.pred = sql.pred \o PredsWritten /\ "pred" \in DOMAIN sql'
  BY <1>1, <1>3 DEF Others, Written, Clauses
<1> QED  BY <1>2, <1>4, SlotsSteady DEF WritesPreds

ItemWritten ==
  IF Engine = "directed"
  THEN CASE pc = "from" -> FromItem(EdgeTable, EdgeAlias(k), EdgeTies(k), <<"edge", k>>)
         [] pc = "lone" -> FromItem(slots[k].label, SlotAlias(k), <<>>, <<"slot", k>>)
         [] pc = "join" ->
              FromItem(slots[k].label, SlotAlias(k),
                <<<<[alias |-> SlotAlias(k), col |-> "id", of |-> <<"slot", k>>],
                    EdgeRef(slots[k].anchor, IdColumn(slots[k].onTarget))>>>>,
                <<"slot", k>>)
  ELSE IF Engine = "undirected"
  THEN IF pc = "from" THEN FromItem(EdgeTable, EdgeAlias(k), <<>>, <<"edge", k>>)
       ELSE FromItem(slots[k].label, slots[k].var, <<>>, <<"slot", k>>)
  ELSE IF pc = "from" THEN FromItem(WalkTable, EdgeAlias(1), <<>>, <<"edge", 1>>)
       ELSE LET i == SlotOf(Side) IN
            FromItem(slots[i].label, slots[i].var,
              <<<<[alias |-> slots[i].var, col |-> "id", of |-> <<"slot", i>>],
                  EdgeRef(1, IdColumn(Side = "target"))>>>>,
              <<"slot", i>>)

\* A step of FROM writes one item at its end; only the walk touches WITH.
LEMMA ItemWrites ==
  ASSUME TypeOK, Clean, Item
  PROVE  /\ Steady /\ pc' = pc /\ pc \in {"from", "lone", "join"} /\ k' = k + 1
         /\ WritesItem(ItemWritten)
         /\ "with" \in DOMAIN sql' /\ (~FromWalk => sql'.with = sql.with)
         /\ k <= PhaseLength
<1>1. \A f \in Written \cup {"with"} : f \in DOMAIN sql
  BY DEF Clean
<1>2. /\ UNCHANGED <<query, slots, edges, binds>> /\ pc' = pc /\ k' = k + 1
      /\ pc \in {"from", "lone", "join"} /\ k <= PhaseLength
  BY DEF Item, DirectedItem, UndirectedItem, WalkItem, FromEdge, FromLone, FromNode,
         FromUndirected, FromHop, JoinUndirected, FromWalk, JoinWalk, JoinEnd, AddFrom, AtStep
<1>3. \/ sql' = [sql EXCEPT !.from = Append(@, ItemWritten)]
      \/ FromWalk /\ \E w : sql' = [sql EXCEPT !.with = w, !.from = Append(@, ItemWritten)]
  <2>1. CASE DirectedItem
    BY <2>1 DEF DirectedItem, FromEdge, FromLone, FromNode, AddFrom, AtStep, ItemWritten
  <2>2. CASE UndirectedItem
    BY <2>2 DEF UndirectedItem, FromUndirected, FromHop, JoinUndirected, JoinEnd, AddFrom,
                AtStep, ItemWritten
  <2>3. CASE Engine = "varlen" /\ FromWalk
    BY <2>3 DEF FromWalk, AtStep, ItemWritten
  <2>4. CASE Engine = "varlen" /\ JoinWalk
    BY <2>4 DEF JoinWalk, JoinEnd, AddFrom, AtStep, ItemWritten
  <2> QED  BY <2>1, <2>2, <2>3, <2>4 DEF Item, WalkItem
<1> HIDE DEF ItemWritten
<1>4. WritesItem(ItemWritten)
  BY <1>1, <1>2, <1>3 DEF WritesItem, Written, Clauses
<1>5. "with" \in DOMAIN sql' /\ (~FromWalk => sql'.with = sql.with)
  BY <1>1, <1>3 DEF Written, Clauses
<1> QED  BY <1>2, <1>4, <1>5, SlotsSteady

\* What a bind stands for has its variable and its table.
BindsOK == binds \in Seq(BindsFor(slots, edges))

\* Binds stay binds of the nodes and relationships.
LEMMA BindsKept ==
  ASSUME BindsOK, Steady
  PROVE  BindsOK'
<1>1. BindsFor(slots', edges') = BindsFor(slots, edges)
  BY DEF Steady, MarksOnly, BindsFor, NodeBind, EdgeBind
<1>2. binds' \in Seq(BindsFor(slots', edges'))
  BY <1>1 DEF BindsOK, Steady
<1> QED  BY <1>2 DEF BindsOK

\* A variable that is bound is that of a node or of a relationship.
LEMMA BoundIs ==
  ASSUME BindsOK, NEW var, IsBound(var)
  PROVE  /\ var # NULL
         /\ \/ \E i \in DOMAIN slots :
                 /\ BindOf(var).of = <<"slot", i>> /\ slots[i].var = var
                 /\ BindOf(var).table = slots[i].label
            \/ \E e \in DOMAIN edges :
                 /\ BindOf(var).of = <<"edge", e>> /\ edges[e].var = var
                 /\ BindOf(var).table = EdgeTable
<1>1. PICK j \in DOMAIN binds : BindOf(var) = binds[j] /\ binds[j].var = var
  BY BindOfIs DEF BindsOK
<1>2. binds[j] \in BindsFor(slots, edges)
  BY DEF BindsOK
<1>3. CASE \E i \in DOMAIN slots : slots[i].var # NULL /\ binds[j] = NodeBind(slots, i)
  BY <1>1, <1>3 DEF NodeBind
<1>4. CASE \E e \in DOMAIN edges : edges[e].var # NULL /\ binds[j] = EdgeBind(edges, e)
  BY <1>1, <1>4 DEF EdgeBind
<1> QED  BY <1>2, <1>3, <1>4 DEF BindsFor

\* What the engines for a hop have.
HopShape ==
  Engine # "directed" =>
    /\ DOMAIN slots = {1, 2} /\ \A i \in {1, 2} : slots[i].lone = FALSE
    /\ DOMAIN edges = {1}
    /\ Engine = "varlen" => edges[1].var = NULL

\* A hop stays a hop.
LEMMA HopKept ==
  ASSUME HopShape, Steady
  PROVE  HopShape'
<1>1. Engine' = Engine
  BY QueryStays DEF Steady
<1> QED  BY <1>1 DEF HopShape, Steady, MarksOnly

\* Only what a variable is bound to is marked, and its table is known.
MarkInv ==
  \A i \in DOMAIN slots :
    slots[i].referenced =>
      /\ slots[i].var # NULL /\ IsBound(slots[i].var)
      /\ BindOf(slots[i].var).of = <<"slot", i>>
      /\ slots[i].label # NULL /\ slots[i].label \in DOMAIN Catalog

\* A reference an expression reads is of a bind whose table has that column.
LEMMA ReadIs ==
  ASSUME NEW e, CanEmit(e), NEW r \in Reads(e)
  PROVE  /\ HasTable(e.var) /\ r.col \in Catalog[BindOf(e.var).table]
         /\ r = Ref(e.var, r.col)
<1>1. e.kind \in {"property", "aggregate", "variable", "count"}
  BY DEF CanEmit
<1>2. CASE e.kind \in {"property", "aggregate"}
  <2>1. HasColumn(e.var, e.key)
    BY <1>2 DEF CanEmit
  <2>2. Reads(e) = {Ref(e.var, e.key)}
    BY <1>2 DEF Reads
  <2> QED  BY <2>1, <2>2 DEF HasColumn, Ref
<1>3. CASE e.kind = "variable"
  <2>1. HasTable(e.var)
    BY <1>3 DEF CanEmit
  <2>2. Reads(e) = {Ref(e.var, c) : c \in Catalog[BindOf(e.var).table]}
    BY <1>3 DEF Reads
  <2> QED  BY <2>1, <2>2 DEF Ref
<1>4. CASE e.kind = "count"
  BY <1>4 DEF Reads
<1> QED  BY <1>1, <1>2, <1>3, <1>4

\* Marking keeps the marks on nodes whose table is known.
LEMMA MarkKept ==
  ASSUME TypeOK, BindsOK, MarkInv, Steady,
         \/ slots' = slots
         \/ \E e : CanEmit(e) /\ slots' = Marked(e)
  PROVE  MarkInv'
<1>1. \A var : IsBound(var)' = IsBound(var) /\ BindOf(var)' = BindOf(var)
  BY DEF Steady, IsBound, BindOf
<1>2. ASSUME NEW i \in DOMAIN slots, slots'[i].referenced
      PROVE  /\ slots[i].var # NULL /\ IsBound(slots[i].var)
             /\ BindOf(slots[i].var).of = <<"slot", i>>
             /\ slots[i].label # NULL /\ slots[i].label \in DOMAIN Catalog
  <2>1. CASE slots[i].referenced
    BY <2>1 DEF MarkInv
  <2>2. CASE ~slots[i].referenced
    <3>1. PICK e : CanEmit(e) /\ slots' = Marked(e)
      BY <1>2, <2>2
    <3>2. PICK r \in Reads(e) : r.of = <<"slot", i>>
      BY <1>2, <2>2, <3>1, MarkedSlot
    <3>3. HasTable(e.var) /\ r.of = BindOf(e.var).of
      BY <3>1, ReadIs DEF Ref
    <3>4. /\ IsBound(e.var) /\ BindOf(e.var).table # NULL
          /\ BindOf(e.var).table \in DOMAIN Catalog
      BY <3>3 DEF HasTable
    <3>5. BindOf(e.var).of = <<"slot", i>>
      BY <3>2, <3>3
    <3>6. e.var # NULL /\ slots[i].var = e.var /\ BindOf(e.var).table = slots[i].label
      BY <3>4, <3>5, BoundIs
    <3> QED  BY <3>4, <3>5, <3>6
  <2> QED  BY <2>1, <2>2
<1>3. \A i \in DOMAIN slots : slots'[i].var = slots[i].var /\ slots'[i].label = slots[i].label
  BY DEF Steady, MarksOnly
<1>4. DOMAIN slots' = DOMAIN slots
  BY DEF Steady
<1>5. ASSUME NEW i \in DOMAIN slots', slots'[i].referenced, NEW var, var = slots'[i].var
      PROVE  /\ var # NULL /\ IsBound(var)' /\ BindOf(var)'.of = <<"slot", i>>
             /\ slots'[i].label # NULL /\ slots'[i].label \in DOMAIN Catalog
  BY <1>1, <1>2, <1>3, <1>4, <1>5
<1> QED  BY <1>5 DEF MarkInv

-----------------------------------------------------------------------------
(* What may be read *)

\* A reference the statement may make: to a node whose columns are read or to a
\* relationship, by its alias, of a column it has.
HopColumns == IF Engine = "varlen" THEN WalkColumns ELSE Catalog[EdgeTable]
NodeRef(ref, i) ==
  /\ ref.of = <<"slot", i>> /\ ref.alias = slots[i].var /\ slots[i].referenced
  /\ slots[i].label # EdgeTable => ref.col \in Catalog[slots[i].label]
HopRef(ref, e) ==
  ref.of = <<"edge", e>> /\ ref.alias = EdgeAlias(e) /\ ref.col \in HopColumns
RefOK(ref) ==
  (\E i \in DOMAIN slots : NodeRef(ref, i)) \/ (\E e \in DOMAIN edges : HopRef(ref, e))

\* A reference that may be made may be made later.
LEMMA RefKept ==
  ASSUME Steady, NEW ref, RefOK(ref)
  PROVE  RefOK(ref)'
<1>1. Engine' = Engine
  BY QueryStays DEF Steady
<1>2. \A e \in DOMAIN edges : HopRef(ref, e) => HopRef(ref, e)'
  BY <1>1 DEF Steady, HopRef, HopColumns, EdgeAlias
<1>3. \A i \in DOMAIN slots : NodeRef(ref, i) => NodeRef(ref, i)'
  BY DEF Steady, MarksOnly, NodeRef
<1>4. DOMAIN slots' = DOMAIN slots /\ DOMAIN edges' = DOMAIN edges
  BY DEF Steady
<1> QED  BY <1>2, <1>3, <1>4 DEF RefOK

\* What an expression reads, its marks being made.
LEMMA ReadsOK ==
  ASSUME TypeOK, BindsOK, HopShape, Steady, NEW e, CanEmit(e), slots' = Marked(e),
         NEW ref \in Reads(e)
  PROVE  RefOK(ref)'
<1> DEFINE var == e.var b == BindOf(var)
<1>1. /\ IsBound(var) /\ b.table \in DOMAIN Catalog /\ ref.col \in Catalog[b.table]
      /\ ref.alias = var /\ ref.of = b.of
  BY ReadIs DEF HasTable, Ref
<1> HIDE DEF var, b
<1>2. CASE \E i \in DOMAIN slots :
             b.of = <<"slot", i>> /\ slots[i].var = var /\ b.table = slots[i].label
  <2>1. PICK i \in DOMAIN slots :
             b.of = <<"slot", i>> /\ slots[i].var = var /\ b.table = slots[i].label
    BY <1>2
  <2>2. slots'[i].referenced /\ MarksOnly(slots[i], slots'[i])
    BY <1>1, <2>1, MarkedSlot
  <2>3. NodeRef(ref, i)'
    BY <1>1, <2>1, <2>2 DEF NodeRef, MarksOnly
  <2> QED  BY <2>1, <2>3 DEF RefOK, Steady
<1>3. CASE \E d \in DOMAIN edges :
             b.of = <<"edge", d>> /\ edges[d].var = var /\ b.table = EdgeTable
  <2>1. PICK d \in DOMAIN edges :
             b.of = <<"edge", d>> /\ edges[d].var = var /\ b.table = EdgeTable
    BY <1>3
  <2>2. var # NULL
    BY <1>1, BoundIs DEF var
  <2>3. Engine # "varlen"
    BY <2>1, <2>2 DEF HopShape
  <2>4. HopRef(ref, d)
    BY <1>1, <2>1, <2>2, <2>3 DEF HopRef, HopColumns, EdgeAlias
  <2>5. RefOK(ref)
    BY <2>4 DEF RefOK
  <2> QED  BY <2>5, RefKept
<1> QED  BY <1>1, <1>2, <1>3, BoundIs DEF b, var

\* References to a relationship, and to the id of a node that is marked.
LEMMA EdgeRefOK ==
  ASSUME NEW e \in DOMAIN edges, NEW col \in HopColumns
  PROVE  RefOK(EdgeRef(e, col))
BY DEF RefOK, HopRef, EdgeRef

\* The tables a hop is read from have the columns of its ends.
LEMMA EndColumnsOK ==
  \A onTarget \in BOOLEAN : IdColumn(onTarget) \in HopColumns /\ NameColumn(onTarget) \in HopColumns
BY SchemaAssumption DEF IdColumn, NameColumn, HopColumns, WalkColumns

\* The id of a node that is marked may be read.
LEMMA IdRefOK ==
  ASSUME MarkInv, NEW i \in DOMAIN slots, slots[i].referenced, NEW alias,
         alias = slots[i].var
  PROVE  RefOK([alias |-> alias, col |-> "id", of |-> <<"slot", i>>])
<1>1. slots[i].label \in DOMAIN Catalog
  BY DEF MarkInv
<1>2. slots[i].label # EdgeTable => "id" \in Catalog[slots[i].label]
  BY <1>1, SchemaAssumption
<1> QED  BY <1>2 DEF RefOK, NodeRef

\* A sequence is one of its own elements.
LEMMA OverRange ==
  ASSUME NEW S, NEW X \in Seq(S)
  PROVE  X \in Seq(Range(X))
<1>1. Len(X) \in Nat /\ DOMAIN X = 1 .. Len(X) /\ X = [n \in 1 .. Len(X) |-> X[n]]
  BY LenProperties
<1>2. \A n \in 1 .. Len(X) : X[n] \in Range(X)
  BY <1>1 DEF Range
<1>3. X \in [1 .. Len(X) -> Range(X)]
  BY <1>1, <1>2
<1> QED  BY <1>1, <1>3, SeqDef

\* Predicates and conditions that read what they may.
Sound(c) == \A ref \in c.reads : RefOK(ref)
SoundSeq(X) == (\E S : X \in Seq(S)) /\ \A c \in Range(X) : Sound(c)
SoundOn(on) == \A c \in Range(on), s \in {1, 2} : RefOK(c[s])

\* No predicate at all.
LEMMA SoundNone == SoundSeq(<<>>)
<1>1. Range(<<>>) = {}
  BY DEF Range
<1>2. <<>> \in Seq({})
  BY EmptySeq
<1> QED  BY <1>1, <1>2 DEF SoundSeq

\* One predicate.
LEMMA SoundOne ==
  ASSUME NEW c, Sound(c)
  PROVE  SoundSeq(<<c>>)
<1>1. \A d \in Range(<<c>>) : d = c
  BY DEF Range
<1>2. <<c>> \in Seq({c})
  OBVIOUS
<1> QED  BY <1>1, <1>2 DEF SoundSeq

\* Two sequences of predicates, joined.
LEMMA SoundBoth ==
  ASSUME NEW X, NEW Y, SoundSeq(X), SoundSeq(Y)
  PROVE  SoundSeq(X \o Y)
<1>1. X \in Seq(Range(X)) /\ Y \in Seq(Range(Y))
  BY OverRange DEF SoundSeq
<1>2. \A c \in Range(X \o Y) : c \in Range(X) \/ c \in Range(Y)
  BY <1>1, ConcatRange
<1>3. X \o Y \in Seq(Range(X) \cup Range(Y))
  <2> DEFINE Both == Range(X) \cup Range(Y)
  <2>1. X \in Seq(Both) /\ Y \in Seq(Both)
    BY <1>1, SeqDef
  <2> HIDE DEF Both
  <2>2. X \o Y \in Seq(Both)
    BY <2>1, ConcatProperties
  <2> QED  BY <2>2 DEF Both
<1> QED  BY <1>2, <1>3 DEF SoundSeq

\* A comparison with what the pattern may give or not.
LEMMA SoundIfGiven ==
  ASSUME NEW e \in DOMAIN edges, NEW col \in HopColumns, NEW val
  PROVE  SoundSeq(IfGiven(EdgeRef(e, col), val))
<1>1. RefOK(EdgeRef(e, col))
  BY EdgeRefOK
<1>2. Sound(Equals(EdgeRef(e, col), val))
  BY <1>1 DEF Sound, Equals
<1> QED  BY <1>2, SoundNone, SoundOne DEF IfGiven

\* The inline properties of a relationship: columns of the edge table.
LEMMA PropsSound ==
  ASSUME TypeOK, Engine # "varlen", NEW e \in DOMAIN edges, PropsOK(e)
  PROVE  SoundSeq(PropPreds(e))
<1> DEFINE X == PropPreds(e) P == edges[e].props
<1>1. P \in Seq(Props)
  <2>1. edges[e] \in EdgeRecords
    BY DEF TypeOK
  <2> QED  BY <2>1 DEF EdgeRecords
<1>2. /\ Len(P) \in Nat /\ DOMAIN P = 1 .. Len(P)
      /\ X = [j \in 1 .. Len(P) |-> Equals(EdgeRef(e, P[j].key), P[j].val)]
  BY <1>1, LenProperties DEF PropPreds
<1>3. ASSUME NEW j \in 1 .. Len(P)
      PROVE  Sound(Equals(EdgeRef(e, P[j].key), P[j].val))
  <2>1. P[j].key \in Catalog[EdgeTable]
    BY <1>2 DEF PropsOK
  <2>2. RefOK(EdgeRef(e, P[j].key))
    BY <2>1, EdgeRefOK DEF HopColumns
  <2> QED  BY <2>2 DEF Sound, Equals
<1> HIDE DEF X, P
<1>4. X \in Seq(Range(X))
  <2>1. X \in [1 .. Len(P) -> Range(X)]
    BY <1>2 DEF Range
  <2> QED  BY <1>2, <2>1, SeqDef
<1>5. \A c \in Range(X) : Sound(c)
  BY <1>2, <1>3 DEF Range
<1> QED  BY <1>4, <1>5 DEF SoundSeq, X

\* The two orientations of a relationship without a direction.
LEMMA OrientationSound ==
  ASSUME MarkInv, DOMAIN slots = {1, 2}, DOMAIN edges = {1}
  PROVE  SoundSeq(OrientationPreds)
<1>1. ASSUME NEW i \in {1, 2}, NEW t \in BOOLEAN, NEW p \in SideIds(i, t)
      PROVE  RefOK(p[1]) /\ RefOK(p[2])
  <2>1. slots[i].referenced /\ p = <<EdgeRef(1, IdColumn(t)), SlotRef(i, "id")>>
    BY DEF SideIds
  <2>2. RefOK(EdgeRef(1, IdColumn(t)))
    BY EndColumnsOK, EdgeRefOK
  <2>3. RefOK(SlotRef(i, "id"))
    BY <2>1, IdRefOK DEF SlotRef
  <2> QED  BY <2>1, <2>2, <2>3
<1>2. ASSUME NEW i \in {1, 2}, NEW t \in BOOLEAN, NEW p \in SideNames(i, t)
      PROVE  RefOK(p[1])
  <2>1. p = <<EdgeRef(1, NameColumn(t)), slots[i].name>>
    BY DEF SideNames
  <2>2. RefOK(EdgeRef(1, NameColumn(t)))
    BY EndColumnsOK, EdgeRefOK
  <2> QED  BY <2>1, <2>2
<1> DEFINE cases == {Orientation(FALSE), Orientation(TRUE)}
<1>3. ASSUME NEW c \in cases
      PROVE  /\ \A p \in c.ids : RefOK(p[1]) /\ RefOK(p[2])
             /\ \A p \in c.names : RefOK(p[1])
  <2>1. PICK t \in BOOLEAN : c = Orientation(t)
    OBVIOUS
  <2>2. (~t) \in BOOLEAN /\ 1 \in {1, 2} /\ 2 \in {1, 2}
    OBVIOUS
  <2>3. /\ \A p \in c.ids : p \in SideIds(1, t) \/ p \in SideIds(2, ~t)
        /\ \A p \in c.names : p \in SideNames(1, t) \/ p \in SideNames(2, ~t)
    BY <2>1 DEF Orientation
  <2> QED  BY <1>1, <1>2, <2>2, <2>3
<1>4. Sound(EitherWay)
  <2> DEFINE A == UNION {UNION {{p[1], p[2]} : p \in c.ids} : c \in cases}
             B == UNION {{p[1] : p \in c.names} : c \in cases}
  <2>1. EitherWay.reads = A \cup B
    BY DEF EitherWay
  <2> HIDE DEF cases
  <2>2. ASSUME NEW ref \in A
        PROVE  RefOK(ref)
    <3>1. PICK c \in cases : ref \in UNION {{p[1], p[2]} : p \in c.ids}
      OBVIOUS
    <3>2. PICK p \in c.ids : ref \in {p[1], p[2]}
      BY <3>1
    <3> QED  BY <1>3, <3>2
  <2>3. ASSUME NEW ref \in B
        PROVE  RefOK(ref)
    <3>1. PICK c \in cases : ref \in {p[1] : p \in c.names}
      OBVIOUS
    <3>2. PICK p \in c.names : ref = p[1]
      BY <3>1
    <3> QED  BY <1>3, <3>2
  <2> HIDE DEF A, B
  <2> QED  BY <2>1, <2>2, <2>3 DEF Sound
<1> QED  BY <1>4, SoundNone, SoundOne DEF OrientationPreds

\* What a step of the predicates writes reads what it may.
LEMMA PredsSound ==
  ASSUME TInv, MarkInv, HopShape, Predicates
  PROVE  SoundSeq(PredsWritten)
<1>1. TypeOK /\ Len(edges) \in Nat /\ DOMAIN edges = 1 .. Len(edges)
        /\ pc = "pred" /\ k \in Nat /\ k # 0
  BY LenProperties
  DEF TInv, TypeOK, Predicates, EmitPreds, PredsUndirected, PredsWalk, AtStep
<1>2. \A t \in BOOLEAN : NameColumn(t) \in HopColumns
  BY EndColumnsOK
<1>3. CASE Engine = "directed" /\ EmitPreds
  <2>1. k \in DOMAIN edges /\ PropsOK(k)
    BY <1>1, <1>3 DEF EmitPreds, AtStep, PhaseLength
  <2>2. "edge_type" \in HopColumns /\ NameColumn(FALSE) = "source_name" /\ NameColumn(TRUE) = "target_name"
    BY <1>3, SchemaAssumption DEF HopColumns, NameColumn
  <2>3. SoundSeq(EdgePreds(k))
    <3>1. SoundSeq(IfGiven(EdgeRef(k, "edge_type"), edges[k].type))
      BY <2>1, <2>2, SoundIfGiven
    <3>2. SoundSeq(IfGiven(EdgeRef(k, "source_name"), slots[edges[k].src].name))
      BY <1>2, <2>1, <2>2, SoundIfGiven
    <3>3. SoundSeq(IfGiven(EdgeRef(k, "target_name"), slots[edges[k].tgt].name))
      BY <1>2, <2>1, <2>2, SoundIfGiven
    <3> QED  BY <3>1, <3>2, <3>3, SoundBoth DEF EdgePreds
  <2>4. SoundSeq(PropPreds(k))
    BY <1>1, <1>3, <2>1, PropsSound
  <2> QED  BY <1>3, <2>3, <2>4, SoundBoth DEF PredsWritten
<1>4. CASE Engine = "undirected" /\ PredsUndirected
  <2>1. 1 \in DOMAIN edges /\ DOMAIN edges = {1} /\ DOMAIN slots = {1, 2} /\ PropsOK(1)
    BY <1>4 DEF HopShape, PredsUndirected
  <2>2. "edge_type" \in HopColumns
    BY <1>4, SchemaAssumption DEF HopColumns
  <2>3. SoundSeq(TypePreds)
    BY <2>1, <2>2, SoundIfGiven DEF TypePreds
  <2>4. SoundSeq(OrientationPreds)
    BY <2>1, OrientationSound
  <2>5. SoundSeq(PropPreds(1))
    BY <1>1, <1>4, <2>1, PropsSound
  <2> QED  BY <1>4, <2>3, <2>4, <2>5, SoundBoth DEF PredsWritten
<1>5. CASE Engine = "varlen" /\ PredsWalk
  <2>1. 1 \in DOMAIN edges
    BY <1>5 DEF HopShape
  <2>2. \A side \in {"source", "target"} : SoundSeq(EndPreds(side))
    BY <1>2, <2>1, SoundIfGiven DEF EndPreds
  <2>3. SoundSeq(DepthPreds)
    <3> DEFINE c == [op |-> ">=", reads |-> {EdgeRef(1, "depth")}, least |-> ReadMin]
    <3>1. RefOK(EdgeRef(1, "depth"))
      BY <1>5, <2>1, EdgeRefOK DEF HopColumns, WalkColumns
    <3>2. Sound(c)
      BY <3>1 DEF Sound
    <3> HIDE DEF c
    <3>3. SoundSeq(<<c>>)
      BY <3>2, SoundOne
    <3> QED  BY <3>3, SoundNone DEF DepthPreds, c
  <2> QED  BY <1>5, <2>2, <2>3, SoundBoth DEF PredsWritten
<1> QED  BY <1>3, <1>4, <1>5 DEF Predicates

\* The ON clause of an item.
LEMMA NothingSound == SoundOn(<<>>)
<1>1. Range(<<>>) = {}
  BY DEF Range
<1> QED  BY <1>1 DEF SoundOn

\* Two relationships that meet at a slot are compared by what they have.
LEMMA TieSound ==
  ASSUME NEW e \in DOMAIN edges, NEW i, slots[i].anchor \in DOMAIN edges,
         slots[i].onTarget \in BOOLEAN, NEW t \in BOOLEAN
  PROVE  SoundOn(Ties(e, i, t))
<1> DEFINE a == slots[i].anchor s == slots[i].onTarget
           u == <<EdgeRef(e, IdColumn(t)), EdgeRef(a, IdColumn(s))>>
           v == <<EdgeRef(e, NameColumn(t)), EdgeRef(a, NameColumn(s))>>
<1>1. Ties(e, i, t) = <<>> \/ Ties(e, i, t) = <<u, v>>
  BY DEF Ties
<1>2. RefOK(u[1]) /\ RefOK(u[2]) /\ RefOK(v[1]) /\ RefOK(v[2])
  BY EndColumnsOK, EdgeRefOK
<1> HIDE DEF u, v
<1>3. \A c \in Range(Ties(e, i, t)) : c = u \/ c = v
  BY <1>1 DEF Range
<1> QED  BY <1>2, <1>3 DEF SoundOn

\* A node is joined by its id, which it has, to an end of a relationship.
LEMMA IdJoinSound ==
  ASSUME MarkInv, NEW i \in DOMAIN slots, slots[i].referenced, NEW alias,
         alias = slots[i].var, NEW e \in DOMAIN edges, NEW t \in BOOLEAN
  PROVE  SoundOn(<<<<[alias |-> alias, col |-> "id", of |-> <<"slot", i>>],
                     EdgeRef(e, IdColumn(t))>>>>)
<1> DEFINE id == [alias |-> alias, col |-> "id", of |-> <<"slot", i>>]
           p == <<id, EdgeRef(e, IdColumn(t))>>
<1>1. RefOK(p[1]) /\ RefOK(p[2])
  BY IdRefOK, EndColumnsOK, EdgeRefOK
<1> HIDE DEF p
<1>2. \A c \in Range(<<p>>) : c = p
  BY DEF Range
<1>3. SoundOn(<<p>>)
  BY <1>1, <1>2 DEF SoundOn
<1> QED  BY <1>3 DEF p

\* The ON clause of the item a step writes reads what it may.
LEMMA ItemSound ==
  ASSUME LInv, MarkInv, HopShape, Item
  PROVE  SoundOn(ItemWritten.on)
<1>1. /\ TypeOK /\ Len(edges) \in Nat /\ DOMAIN edges = 1 .. Len(edges)
      /\ Len(slots) \in Nat /\ DOMAIN slots = 1 .. Len(slots)
      /\ k \in Nat
  BY LenProperties DEF LInv, TInv, TypeOK
<1>k. k # 0
  BY <1>1 DEF TypeOK, Item, DirectedItem, UndirectedItem, WalkItem, FromEdge, FromLone,
       FromNode, FromUndirected, FromHop, JoinUndirected, FromWalk, JoinWalk, JoinEnd, AtStep
<1>2. ASSUME DirectedItem PROVE SoundOn(ItemWritten.on)
  <2>1. IInv /\ Engine = "directed" /\ k \in DOMAIN slots \cup DOMAIN edges
    BY <1>1, <1>2, <1>k DEF DirectedItem, LInv, TInv, FromEdge, FromLone, FromNode, AtStep, PhaseLength
  <2>2. CASE FromEdge
    <3>1. /\ ItemWritten.on = EdgeTies(k) /\ k \in DOMAIN edges
      BY <1>1, <1>k, <2>1, <2>2 DEF ItemWritten, FromItem, FromEdge, AtStep, PhaseLength
    <3>2. \A t \in BOOLEAN : LET i == IF t THEN edges[k].tgt ELSE edges[k].src IN
            i \in DOMAIN slots /\ slots[i].anchor \in 1 .. k
      BY <2>1, <3>1 DEF IInv, SidesIn
    <3>3. \A i \in DOMAIN slots : slots[i].onTarget \in BOOLEAN
      <4>1. \A i \in DOMAIN slots : slots[i] \in SlotRecords
        BY <1>1 DEF TypeOK
      <4> QED  BY <4>1 DEF SlotRecords
    <3>4. SoundOn(Ties(k, edges[k].src, FALSE)) /\ SoundOn(Ties(k, edges[k].tgt, TRUE))
      <4>2. FALSE \in BOOLEAN /\ TRUE \in BOOLEAN
        OBVIOUS
      <4>3. /\ edges[k].src \in DOMAIN slots /\ slots[edges[k].src].anchor \in 1 .. k
            /\ edges[k].tgt \in DOMAIN slots /\ slots[edges[k].tgt].anchor \in 1 .. k
        BY <3>2, <4>2, Zenon
      <4>1. /\ slots[edges[k].src].anchor \in DOMAIN edges
            /\ slots[edges[k].src].onTarget \in BOOLEAN
            /\ slots[edges[k].tgt].anchor \in DOMAIN edges
            /\ slots[edges[k].tgt].onTarget \in BOOLEAN
        BY <1>1, <3>1, <3>3, <4>3
      <4> QED  BY <3>1, <4>1, TieSound
    <3>5. SoundOn(Ties(k, edges[k].src, FALSE) \o Ties(k, edges[k].tgt, TRUE))
      <4> DEFINE X == Ties(k, edges[k].src, FALSE) Y == Ties(k, edges[k].tgt, TRUE)
      <4>1. X \in Seq(Range(X)) /\ Y \in Seq(Range(Y))
        BY TiesAreSeq
      <4> HIDE DEF X, Y
      <4>2. \A c \in Range(X \o Y) : c \in Range(X) \/ c \in Range(Y)
        BY <4>1, ConcatRange
      <4>3. SoundOn(X) /\ SoundOn(Y)
        BY <3>4 DEF X, Y
      <4>4. SoundOn(X \o Y)
        BY <4>2, <4>3 DEF SoundOn
      <4> QED  BY <4>4 DEF X, Y
    <3> QED  BY <3>1, <3>5, NothingSound DEF EdgeTies
  <2>3. CASE FromLone
    <3>1. ItemWritten.on = <<>>
      BY <2>1, <2>3 DEF ItemWritten, FromItem, FromLone, AtStep
    <3> QED  BY <3>1, NothingSound
  <2>4. CASE FromNode
    <3>1. /\ k \in DOMAIN slots /\ slots[k].referenced /\ ~slots[k].lone /\ pc = "join"
          /\ ItemWritten.on = <<<<[alias |-> SlotAlias(k), col |-> "id", of |-> <<"slot", k>>],
                    EdgeRef(slots[k].anchor, IdColumn(slots[k].onTarget))>>>>
      BY <1>1, <1>k, <2>1, <2>4 DEF ItemWritten, FromItem, FromNode, AtStep, PhaseLength, Joins
    <3>2. slots[k].anchor # 0
      BY <2>1, <3>1 DEF LInv, LoneInv
    <3>3. slots[k].anchor \in DOMAIN edges
      BY <2>1, <3>1, <3>2 DEF IInv, AnchorsIn
    <3>4. SlotAlias(k) = slots[k].var
      BY <3>1 DEF SlotAlias, MarkInv
    <3>5. slots[k].onTarget \in BOOLEAN
      <4>1. slots[k] \in SlotRecords
        BY <1>1, <3>1 DEF TypeOK
      <4> QED  BY <4>1 DEF SlotRecords
    <3> QED  BY <3>1, <3>3, <3>4, <3>5, IdJoinSound
  <2> QED  BY <1>2, <2>2, <2>3, <2>4 DEF DirectedItem
<1>3. ASSUME UndirectedItem PROVE SoundOn(ItemWritten.on)
  <2>1. ItemWritten.on = <<>>
    BY <1>3 DEF UndirectedItem, ItemWritten, FromItem
  <2> QED  BY <2>1, NothingSound
<1>4. ASSUME WalkItem PROVE SoundOn(ItemWritten.on)
  <2>1. Engine = "varlen" /\ 1 \in DOMAIN edges /\ DOMAIN slots = {1, 2}
    BY <1>4 DEF WalkItem, HopShape
  <2>2. CASE FromWalk
    <3>1. ItemWritten.on = <<>>
      BY <2>1, <2>2 DEF ItemWritten, FromItem, FromWalk, AtStep
    <3> QED  BY <3>1, NothingSound
  <2>3. CASE JoinWalk
    <3> DEFINE i == SlotOf(Side) t == (Side = "target") alias == slots[i].var
    <3>1. /\ i \in DOMAIN slots /\ t \in BOOLEAN /\ slots[i].referenced
          /\ ItemWritten.on = <<<<[alias |-> alias, col |-> "id", of |-> <<"slot", i>>],
                  EdgeRef(1, IdColumn(t))>>>>
      BY <2>1, <2>3 DEF ItemWritten, FromItem, JoinWalk, JoinEnd, AtStep, SlotOf
    <3> HIDE DEF i, t
    <3>2. SoundOn(<<<<[alias |-> alias, col |-> "id", of |-> <<"slot", i>>],
                  EdgeRef(1, IdColumn(t))>>>>)
      BY <2>1, <3>1, IdJoinSound
    <3> QED  BY <3>1, <3>2
  <2> QED  BY <1>4, <2>2, <2>3 DEF WalkItem
<1> QED  BY <1>2, <1>3, <1>4 DEF Item

\* Whatever the clauses hold reads what it may.
ReadInv ==
  /\ \A f \in Clauses \cup {"pred"} : \A c \in Range(sql[f]) : Sound(c)
  /\ \A j \in DOMAIN sql.from : SoundOn(sql.from[j].on)

\* The walk is in the statement once it stands in its FROM.
WithInv ==
  /\ Engine # "varlen" => sql.with = <<>>
  /\ Engine = "varlen" /\ (pc \in Late \/ (pc = "from" /\ k > 1)) =>
       sql.with # <<>> /\ sql.with[1].name = WalkTable

\* What was sound when it was written stays so.
LEMMA SoundKept ==
  ASSUME Steady, NEW c
  PROVE  /\ Sound(c) => Sound(c)'
         /\ SoundOn(c) => SoundOn(c)'
BY RefKept DEF Sound, SoundOn

\* A clause a step leaves alone stays a sequence.
LEMMA SeqKept ==
  ASSUME Clean, NEW g \in Written \cup {"with"}, g \in DOMAIN sql', sql'[g] = sql[g]
  PROVE  g \in DOMAIN sql' /\ \E S : sql'[g] \in Seq(S)
BY DEF Clean

\* A step that emits leaves a statement of clauses that read what they may.
LEMMA NothingKeeps ==
  ASSUME Clean, ReadInv, Steady, WritesNothing
  PROVE  Clean' /\ ReadInv' /\ sql'.from = sql.from /\ sql'.with = sql.with
<1>1. \A g \in Written \cup {"with"} : g \in DOMAIN sql' /\ sql'[g] = sql[g]
  BY DEF WritesNothing, Others, Written, Clauses
<1>2. Clean'
  <2>1. \A g \in Written \cup {"with"} : g \in DOMAIN sql' /\ \E S : sql'[g] \in Seq(S)
    BY <1>1, SeqKept
  <2> QED  BY <2>1 DEF Clean
<1>3. sql'.from = sql.from /\ sql'.with = sql.with
  BY <1>1 DEF Written
<1>4. ReadInv'
  <2>1. \A f \in Clauses \cup {"pred"} : \A c \in Range(sql'[f]) : Sound(c)'
    BY <1>1, SoundKept DEF ReadInv, Written
  <2>2. \A j \in DOMAIN sql'.from : SoundOn(sql.from[j].on)'
    <3>1. ASSUME NEW j \in DOMAIN sql'.from, NEW on, on = sql'.from[j].on
          PROVE  SoundOn(on)'
      BY <1>3, <3>1, SoundKept DEF ReadInv
    <3> QED  BY <3>1 DEF SoundOn
  <2> QED  BY <2>1, <2>2 DEF ReadInv
<1> QED  BY <1>2, <1>3, <1>4

\* A step of a clause.
LEMMA ClauseKeeps ==
  ASSUME TypeOK, Clean, ReadInv, BindsOK, HopShape, Steady,
         NEW f \in Clauses, NEW c, WritesClause(f, c)
  PROVE  Clean' /\ ReadInv' /\ sql'.from = sql.from /\ sql'.with = sql.with
<1>1. /\ f \in DOMAIN sql' /\ sql'[f] = Append(sql[f], c)
      /\ \A g \in (Written \cup {"with"}) \ {f} : g \in DOMAIN sql' /\ sql'[g] = sql[g]
  BY DEF WritesClause, Others
<1>2. f \in Written /\ f # "from" /\ f # "with" /\ f # "pred"
  BY DEF Clauses, Written
<1>3. PICK S : sql[f] \in Seq(S)
  BY <1>2 DEF Clean
<1>4. Clean'
  <2>1. sql'[f] \in Seq(S \cup {c})
    BY <1>1, <1>3, AppendIs
  <2>2. \A g \in Written \cup {"with"} : g \in DOMAIN sql' /\ \E U : sql'[g] \in Seq(U)
    BY <1>1, <2>1, SeqKept
  <2> QED  BY <2>2 DEF Clean
<1>5. sql'.from = sql.from /\ sql'.with = sql.with
  <2>1. "from" \in (Written \cup {"with"}) \ {f} /\ "with" \in (Written \cup {"with"}) \ {f}
    BY <1>2 DEF Written
  <2> QED  BY <1>1, <2>1
<1>6. Sound(c)'
  <2>1. CASE c.reads = {}
    BY <2>1 DEF Sound
  <2>2. CASE \E e : CanEmit(e) /\ c.reads = Reads(e) /\ slots' = Marked(e)
    <3>1. PICK e : CanEmit(e) /\ c.reads = Reads(e) /\ slots' = Marked(e)
      BY <2>2
    <3>2. \A ref \in c.reads : RefOK(ref)'
      BY <3>1, ReadsOK
    <3> QED  BY <3>2 DEF Sound
  <2> QED  BY <2>1, <2>2 DEF WritesClause
<1>7. ReadInv'
  <2>1. \A d \in Range(sql'[f]) : Sound(d)'
    <3>1. \A d \in Range(sql'[f]) : d \in Range(sql[f]) \/ d = c
      BY <1>1, <1>3, AppendIs
    <3> QED  BY <1>6, <3>1, SoundKept DEF ReadInv
  <2>2. \A g \in (Clauses \cup {"pred"}) \ {f} : \A d \in Range(sql'[g]) : Sound(d)'
    BY <1>1, SoundKept DEF ReadInv, Written
  <2>3. \A j \in DOMAIN sql'.from : SoundOn(sql.from[j].on)'
    <3>1. ASSUME NEW j \in DOMAIN sql'.from, NEW on, on = sql'.from[j].on
          PROVE  SoundOn(on)'
      BY <1>5, <3>1, SoundKept DEF ReadInv
    <3> QED  BY <3>1 DEF SoundOn
  <2>4. \A g \in Clauses \cup {"pred"} : \A d \in Range(sql'[g]) : Sound(d)'
    BY <2>1, <2>2
  <2> QED  BY <2>3, <2>4 DEF ReadInv
<1> QED  BY <1>4, <1>5, <1>7

\* A step of the predicates.
LEMMA PredsKeep ==
  ASSUME Clean, ReadInv, Steady, NEW preds, SoundSeq(preds), WritesPreds(preds)
  PROVE  Clean' /\ ReadInv' /\ sql'.from = sql.from /\ sql'.with = sql.with
<1>1. /\ "pred" \in DOMAIN sql' /\ sql'["pred"] = sql["pred"] \o preds
      /\ \A g \in (Written \cup {"with"}) \ {"pred"} : g \in DOMAIN sql' /\ sql'[g] = sql[g]
  BY DEF WritesPreds, Others
<1>2. SoundSeq(sql["pred"])
  BY DEF Clean, Written, ReadInv, SoundSeq
<1>3. SoundSeq(sql["pred"] \o preds)
  BY <1>2, SoundBoth
<1>4. Clean'
  <2>1. \E U : sql'["pred"] \in Seq(U)
    BY <1>1, <1>3 DEF SoundSeq
  <2>2. \A g \in Written \cup {"with"} : g \in DOMAIN sql' /\ \E U : sql'[g] \in Seq(U)
    BY <1>1, <2>1, SeqKept
  <2> QED  BY <2>2 DEF Clean
<1>5. sql'.from = sql.from /\ sql'.with = sql.with
  <2>1. "from" \in (Written \cup {"with"}) \ {"pred"} /\ "with" \in (Written \cup {"with"}) \ {"pred"}
    BY DEF Written
  <2> QED  BY <1>1, <2>1
<1>7. ReadInv'
  <2>1. \A d \in Range(sql'["pred"]) : Sound(d)'
    BY <1>1, <1>3, SoundKept DEF SoundSeq
  <2>2. \A g \in Clauses : \A d \in Range(sql'[g]) : Sound(d)'
    <3>1. \A g \in Clauses : g \in (Written \cup {"with"}) \ {"pred"}
      BY DEF Clauses, Written
    <3> QED  BY <1>1, <3>1, SoundKept DEF ReadInv
  <2>3. \A j \in DOMAIN sql'.from : SoundOn(sql.from[j].on)'
    <3>1. ASSUME NEW j \in DOMAIN sql'.from, NEW on, on = sql'.from[j].on
          PROVE  SoundOn(on)'
      BY <1>5, <3>1, SoundKept DEF ReadInv
    <3> QED  BY <3>1 DEF SoundOn
  <2>4. \A g \in Clauses \cup {"pred"} : \A d \in Range(sql'[g]) : Sound(d)'
    BY <2>1, <2>2
  <2> QED  BY <2>3, <2>4 DEF ReadInv
<1> QED  BY <1>4, <1>5, <1>7

\* A step of FROM.
LEMMA ItemKeeps ==
  ASSUME Clean, ReadInv, Steady, NEW item, SoundOn(item.on), WritesItem(item),
         "with" \in DOMAIN sql', \E S : sql'.with \in Seq(S)
  PROVE  Clean' /\ ReadInv'
<1>1. /\ "from" \in DOMAIN sql' /\ sql'.from = Append(sql.from, item)
      /\ \A g \in Clauses \cup {"pred"} : g \in DOMAIN sql' /\ sql'[g] = sql[g]
  BY DEF WritesItem
<1>2. PICK S : sql.from \in Seq(S)
  BY DEF Clean, Written
<1>3. /\ sql'.from \in Seq(S \cup {item}) /\ Len(sql.from) \in Nat
      /\ DOMAIN sql.from = 1 .. Len(sql.from) /\ DOMAIN sql'.from = 1 .. Len(sql.from) + 1
      /\ \A n \in 1 .. Len(sql.from) : sql'.from[n] = sql.from[n]
      /\ sql'.from[Len(sql.from) + 1] = item
  BY <1>1, <1>2, AppendIs
<1>4. Clean'
  <2>1. \A g \in Clauses \cup {"pred"} : g \in DOMAIN sql' /\ \E U : sql'[g] \in Seq(U)
    BY <1>1, SeqKept DEF Written
  <2>2. \A g \in {"from", "with"} : g \in DOMAIN sql' /\ \E U : sql'[g] \in Seq(U)
    BY <1>1, <1>3
  <2> QED  BY <2>1, <2>2 DEF Clean, Written
<1>5. ReadInv'
  <2>1. \A g \in Clauses \cup {"pred"} : \A d \in Range(sql'[g]) : Sound(d)'
    BY <1>1, SoundKept DEF ReadInv
  <2>2. ASSUME NEW j \in DOMAIN sql'.from, NEW on, on = sql'.from[j].on
        PROVE  SoundOn(on)'
    <3>1. CASE j \in 1 .. Len(sql.from)
      <4>1. on = sql.from[j].on /\ SoundOn(on)
        BY <1>3, <2>2, <3>1 DEF ReadInv
      <4> QED  BY <4>1, SoundKept
    <3>2. CASE j = Len(sql.from) + 1
      <4>1. on = item.on /\ SoundOn(on)
        BY <1>3, <2>2, <3>2
      <4> QED  BY <4>1, SoundKept
    <3> QED  BY <1>3, <3>1, <3>2
  <2>3. \A j \in DOMAIN sql'.from : SoundOn(sql.from[j].on)'
    BY <2>2 DEF SoundOn
  <2> QED  BY <2>1, <2>3 DEF ReadInv
<1> QED  BY <1>4, <1>5

\* The invariant of the phases that emit.
EInv ==
  /\ Clean /\ BindsOK /\ HopShape /\ MarkInv /\ ReadInv /\ WithInv

\* Every step of the phases that emit keeps their invariant.
LEMMA EInvStep ==
  ASSUME LInv, EInv, Next, pc \in Emitting, pc' # "failed"
  PROVE  EInv' /\ Steady /\ pc' \in Emitting
<1>1. TypeOK /\ TInv /\ k \in Nat
  BY DEF LInv, TInv, TypeOK
<1>2. Phase \/ Clause \/ Skipped \/ Item \/ Predicates
  BY EmittingSteps
<1>4. CASE Phase \/ Skipped
  <2>1. Steady /\ WritesNothing /\ (Skipped => pc' = pc /\ k' = k + 1)
    BY <1>1, <1>4, SkipWrites DEF EInv
  <2>2. Clean' /\ ReadInv' /\ sql'.with = sql.with
    BY <2>1, NothingKeeps DEF EInv
  <2>3. BindsOK' /\ HopShape'
    BY <2>1, BindsKept, HopKept DEF EInv
  <2>4. MarkInv'
    BY <1>1, <2>1, MarkKept DEF EInv, WritesNothing
  <2>5. Engine' = Engine
    BY <2>1, QueryStays DEF Steady
  <2>6. pc' \in Emitting /\ WithInv'
    <3>1. CASE Phase
      <4>1. /\ pc' \in Emitting /\ k' = 1 /\ PhaseLength < k
            /\ <<pc, pc'>> \in
              {<<"select", "where">>, <<"where", "order">>, <<"order", "group">>,
               <<"group", "from">>, <<"pred", "page">>, <<"page", "done">>,
               <<"join", "pred">>, <<"from", "lone">>, <<"lone", "join">>, <<"from", "join">>}
        BY <3>1, PhaseOrder
      <4>2. Engine = "varlen" /\ pc' \in Late => pc \in Late \/ (pc = "from" /\ k > 1)
        <5>1. Engine = "varlen" /\ pc = "from" => PhaseLength = 1
          <6>1. Engine = "varlen" => DOMAIN edges = {1}
            BY DEF EInv, HopShape
          <6>2. Len(edges) \in Nat /\ DOMAIN edges = 1 .. Len(edges)
            BY <1>1, LenProperties DEF TypeOK
          <6> QED  BY <6>1, <6>2 DEF PhaseLength
        <5>2. pc \in Late \/ pc = "from" \/ pc' \notin Late
          BY <4>1 DEF Late
        <5> QED  BY <1>1, <4>1, <5>1, <5>2
      <4>3. WithInv'
        BY <2>2, <2>5, <4>1, <4>2 DEF EInv, WithInv
      <4> QED  BY <4>1, <4>3
    <3>2. CASE Skipped
      <4>1. pc' = pc /\ pc # "from"
        BY <2>1, <3>2 DEF Skipped, SkipGroup, EmitPage, SkipLone, SkipJoin,
             SkipUndirected, SkipWalk, SkipEnd, AtStep
      <4> QED  BY <2>2, <2>5, <4>1 DEF EInv, WithInv
    <3> QED  BY <1>4, <3>1, <3>2
  <2> QED  BY <2>1, <2>2, <2>3, <2>4, <2>6 DEF EInv
<1>5. CASE Clause
  <2>1. Steady /\ pc' = pc /\ k' = k + 1 /\ \E f \in Clauses : \E c : WritesClause(f, c)
    BY <1>1, <1>5, ClauseWrites DEF EInv
  <2>2. PICK f \in Clauses : \E c : WritesClause(f, c)
    BY <2>1
  <2>3. PICK c : WritesClause(f, c)
    BY <2>2
  <2>4. Clean' /\ ReadInv' /\ sql'.with = sql.with
    BY <1>1, <2>1, <2>3, ClauseKeeps DEF EInv
  <2>5. BindsOK' /\ HopShape'
    BY <2>1, BindsKept, HopKept DEF EInv
  <2>6. MarkInv'
    BY <1>1, <2>1, <2>3, MarkKept DEF EInv, WritesClause
  <2>7. Engine' = Engine
    BY <2>1, QueryStays DEF Steady
  <2>8. pc # "from"
    BY <2>3 DEF WritesClause, Clauses
  <2>9. WithInv'
    BY <2>1, <2>4, <2>7, <2>8 DEF EInv, WithInv
  <2> QED  BY <2>1, <2>4, <2>5, <2>6, <2>9 DEF EInv
<1>6. CASE Predicates
  <2>1. Steady /\ pc' = pc /\ pc = "pred" /\ WritesPreds(PredsWritten)
    BY <1>1, <1>6, PredsWrites DEF EInv
  <2>2. SoundSeq(PredsWritten)
    BY <1>1, <1>6, PredsSound DEF EInv
  <2>3. PICK preds : preds = PredsWritten
    OBVIOUS
  <2>4. SoundSeq(preds) /\ WritesPreds(preds)
    BY <2>1, <2>2, <2>3
  <2>5. Clean' /\ ReadInv' /\ sql'.with = sql.with
    BY <2>1, <2>4, PredsKeep DEF EInv
  <2>6. BindsOK' /\ HopShape'
    BY <2>1, BindsKept, HopKept DEF EInv
  <2>7. MarkInv'
    BY <1>1, <2>1, MarkKept DEF EInv, WritesPreds
  <2>8. Engine' = Engine
    BY <2>1, QueryStays DEF Steady
  <2>9. WithInv'
    BY <2>1, <2>5, <2>8 DEF EInv, WithInv
  <2> QED  BY <2>1, <2>5, <2>6, <2>7, <2>9 DEF EInv
<1>7. CASE Item
  <2>1. /\ Steady /\ pc' = pc /\ k' = k + 1 /\ WritesItem(ItemWritten)
        /\ "with" \in DOMAIN sql' /\ (~FromWalk => sql'.with = sql.with)
    BY <1>1, <1>7, ItemWrites DEF EInv
  <2>2. SoundOn(ItemWritten.on)
    BY <1>7, ItemSound DEF EInv
  <2>3. PICK item : item = ItemWritten
    OBVIOUS
  <2>4. SoundOn(item.on) /\ WritesItem(item)
    BY <2>1, <2>2, <2>3
  <2> DEFINE walk == [name |-> WalkTable, type |-> edges[1].type, max |-> ReadMax]
  <2>w. FromWalk => sql'.with = <<walk>> /\ pc = "from"
    <3>1. "with" \in DOMAIN sql
      BY DEF EInv, Clean
    <3> QED  BY <3>1 DEF FromWalk, AtStep
  <2>n. walk.name = WalkTable
    OBVIOUS
  <2> HIDE DEF walk
  <2>5. FromWalk => sql'.with # <<>> /\ sql'.with[1].name = WalkTable
    <3>1. <<walk>> # <<>> /\ <<walk>>[1] = walk
      OBVIOUS
    <3> QED  BY <2>w, <2>n, <3>1
  <2>6. \E S : sql'.with \in Seq(S)
    <3>1. CASE FromWalk
      <4>1. <<walk>> \in Seq({walk})
        OBVIOUS
      <4> QED  BY <2>w, <3>1, <4>1
    <3>2. CASE ~FromWalk
      BY <2>1, <3>2 DEF EInv, Clean
    <3> QED  BY <3>1, <3>2
  <2>7. Clean' /\ ReadInv'
    BY <2>1, <2>4, <2>6, ItemKeeps DEF EInv
  <2>8. BindsOK' /\ HopShape'
    BY <2>1, BindsKept, HopKept DEF EInv
  <2>9. MarkInv'
    BY <1>1, <2>1, MarkKept DEF EInv, WritesItem
  <2>10. Engine' = Engine
    BY <2>1, QueryStays DEF Steady
  <2>11. WithInv'
    <3>1. CASE Engine = "varlen" /\ FromWalk
      BY <2>5, <2>10, <3>1 DEF WithInv
    <3>2. CASE ~FromWalk
      <4>1. Engine = "varlen" => pc # "from"
        BY <1>7, <3>2 DEF Item, DirectedItem, UndirectedItem, WalkItem, JoinWalk, JoinEnd, AtStep
      <4> QED  BY <2>1, <2>10, <3>2, <4>1 DEF EInv, WithInv
    <3>3. CASE Engine # "varlen" /\ FromWalk
      <4>1. DirectedItem \/ UndirectedItem
        BY <1>7, <3>3 DEF Item, WalkItem
      <4>2. sql'.with = sql.with
        <5>1. "with" \in DOMAIN sql
          BY DEF EInv, Clean
        <5> QED  BY <4>1, <5>1 DEF DirectedItem, UndirectedItem, FromEdge, FromLone, FromNode,
             FromUndirected, FromHop, JoinUndirected, JoinEnd, AddFrom
      <4> QED  BY <2>10, <3>3, <4>2 DEF EInv, WithInv
    <3> QED  BY <3>1, <3>2, <3>3
  <2> QED  BY <2>1, <2>7, <2>8, <2>9, <2>11 DEF EInv
<1> QED  BY <1>2, <1>4, <1>5, <1>6, <1>7

-----------------------------------------------------------------------------
(* The items of FROM *)

\* What stands in the FROM: the relationships, and the nodes that are lone or read.
HopTable == IF Engine = "varlen" THEN WalkTable ELSE EdgeTable
EdgeItem(item, e) ==
  item.of = <<"edge", e>> /\ item.alias = EdgeAlias(e) /\ item.table = HopTable
NodeItem(item, i) ==
  /\ item.of = <<"slot", i>> /\ item.alias = SlotAlias(i)
  /\ item.table = slots[i].label
  /\ slots[i].lone \/ slots[i].referenced
ItemOK(item) ==
  (\E e \in DOMAIN edges : EdgeItem(item, e)) \/ (\E i \in DOMAIN slots : NodeItem(item, i))

\* The slot the n-th step of a phase looks at, and whether a node has its item.
At(n) ==
  IF Engine = "varlen" THEN SlotOf(IF n = 1 THEN "source" ELSE "target") ELSE n
Passed(i) == \E n \in 1 .. k - 1 : At(n) = i
Has(i) == \E j \in DOMAIN sql.from : sql.from[j].of = <<"slot", i>>
Due(i) ==
  CASE pc = "lone" -> slots[i].lone /\ i < k
    [] pc = "join" -> slots[i].lone \/ (slots[i].referenced /\ Passed(i))
    [] pc \in {"pred", "page", "done"} -> slots[i].lone \/ slots[i].referenced
    [] OTHER -> FALSE
ItemsInv ==
  /\ \A j \in DOMAIN sql.from : ItemOK(sql.from[j])
  /\ \A i, j \in DOMAIN sql.from : sql.from[i].of = sql.from[j].of => i = j
  /\ \A i \in DOMAIN slots : Has(i) <=> Due(i)

\* What is selected has the name the query gives it, and only such names are
\* sorted by.
AnswerInv ==
  /\ pc = "select" => Len(sql.select) = k - 1 /\ k <= Len(query.items) + 1
  /\ pc # "select" => Len(sql.select) = Len(query.items)
  /\ \A j \in DOMAIN sql.select :
       query.items[j].alias # NULL => sql.select[j].as = query.items[j].alias
  /\ \A c \in Range(sql.order) : c.kind = "alias" => c.name # NULL /\ HasAlias(c.name)

\* Before the binds are made nothing is written and no node is marked.
Unwritten ==
  /\ sql = NoSql /\ \A i \in DOMAIN slots : slots[i].referenced = FALSE
  /\ pc = "bind" /\ k > 1 => BindsOK
DInv ==
  /\ query \in Queries /\ LInv /\ Found
  /\ pc \in Unbound => Unwritten
  /\ pc \in Emitting => EInv /\ ItemsInv /\ AnswerInv

-----------------------------------------------------------------------------

\* An item stays that of its node or relationship.
LEMMA ItemKept ==
  ASSUME Steady, NEW item, ItemOK(item)
  PROVE  ItemOK(item)'
<1>1. Engine' = Engine
  BY QueryStays DEF Steady
<1>2. \A e \in DOMAIN edges : EdgeItem(item, e) => EdgeItem(item, e)'
  BY <1>1 DEF Steady, EdgeItem, HopTable, EdgeAlias
<1>3. \A i \in DOMAIN slots : NodeItem(item, i) => NodeItem(item, i)'
  BY DEF Steady, MarksOnly, NodeItem, SlotAlias
<1>4. DOMAIN slots' = DOMAIN slots /\ DOMAIN edges' = DOMAIN edges
  BY DEF Steady
<1> QED  BY <1>2, <1>3, <1>4 DEF ItemOK

\* The steps of a phase look at every slot once.
LEMMA AtIs ==
  ASSUME TypeOK, HopShape
  PROVE  /\ Len(slots) \in Nat /\ DOMAIN slots = 1 .. Len(slots)
         /\ \A n \in DOMAIN slots : At(n) \in DOMAIN slots
         /\ \A n, m \in DOMAIN slots : At(n) = At(m) => n = m
         /\ \A i \in DOMAIN slots : \E n \in DOMAIN slots : At(n) = i
         /\ Engine # "varlen" => \A n : At(n) = n
<1>1. Len(slots) \in Nat /\ DOMAIN slots = 1 .. Len(slots)
  BY LenProperties DEF TypeOK
<1>2. CASE Engine # "varlen"
  BY <1>1, <1>2 DEF At
<1>3. CASE Engine = "varlen"
  <2>1. DOMAIN slots = {1, 2}
    BY <1>3 DEF HopShape
  <2>2. {SlotOf("source"), SlotOf("target")} = {1, 2} /\ SlotOf("source") # SlotOf("target")
    BY DEF SlotOf, OnLeft
  <2>3. At(1) = SlotOf("source") /\ At(2) = SlotOf("target")
    BY <1>3 DEF At
  <2> QED  BY <1>1, <1>3, <2>1, <2>2, <2>3
<1> QED  BY <1>2, <1>3

\* Which item a step writes.
LEMMA ItemIs ==
  ASSUME TypeOK, HopShape, MarkInv, Item
  PROVE  \/ pc = "from" /\ k \in DOMAIN edges /\ EdgeItem(ItemWritten, k)
         \/ /\ k \in DOMAIN slots /\ NodeItem(ItemWritten, At(k))
            /\ \/ pc = "lone" /\ Engine = "directed" /\ slots[At(k)].lone
               \/ pc = "join" /\ slots[At(k)].referenced /\ ~slots[At(k)].lone
<1>1. k \in Nat \ {0} /\ k <= PhaseLength /\ pc \in {"from", "lone", "join"}
  <2>1. AtStep(pc) /\ pc \in {"from", "lone", "join"}
    BY DEF Item, DirectedItem, UndirectedItem, WalkItem, FromEdge, FromLone, FromNode,
         FromUndirected, FromHop, JoinUndirected, FromWalk, JoinWalk, JoinEnd, AtStep
  <2> QED  BY <2>1 DEF AtStep, TypeOK
<1>2. /\ Len(slots) \in Nat /\ DOMAIN slots = 1 .. Len(slots)
      /\ Len(edges) \in Nat /\ DOMAIN edges = 1 .. Len(edges)
  BY LenProperties DEF TypeOK
<1>3. /\ pc = "from" => k \in DOMAIN edges
      /\ pc # "from" => k \in DOMAIN slots
  BY <1>1, <1>2 DEF PhaseLength
<1>4. CASE DirectedItem
  <2>1. Engine = "directed" /\ At(k) = k
    BY <1>4 DEF DirectedItem, At
  <2>2. CASE FromEdge
    <3>1. pc = "from" /\ ItemWritten = FromItem(EdgeTable, EdgeAlias(k), EdgeTies(k), <<"edge", k>>)
      BY <2>1, <2>2 DEF FromEdge, AtStep, ItemWritten
    <3> QED  BY <1>3, <2>1, <3>1 DEF EdgeItem, FromItem, HopTable
  <2>3. CASE FromLone
    <3>1. /\ pc = "lone" /\ slots[k].lone
          /\ ItemWritten = FromItem(slots[k].label, SlotAlias(k), <<>>, <<"slot", k>>)
      BY <2>1, <2>3 DEF FromLone, AtStep, ItemWritten
    <3> QED  BY <1>3, <2>1, <3>1 DEF NodeItem, FromItem
  <2>4. CASE FromNode
    <3>1. /\ pc = "join" /\ slots[k].referenced /\ ~slots[k].lone
          /\ \E on : ItemWritten = FromItem(slots[k].label, SlotAlias(k), on, <<"slot", k>>)
      BY <2>1, <2>4 DEF FromNode, AtStep, ItemWritten, Joins
    <3> QED  BY <1>3, <2>1, <3>1 DEF NodeItem, FromItem
  <2> QED  BY <1>4, <2>2, <2>3, <2>4 DEF DirectedItem
<1>5. CASE UndirectedItem \/ WalkItem
  <2>1. /\ Engine # "directed" /\ DOMAIN edges = {1} /\ DOMAIN slots = {1, 2}
        /\ \A i \in {1, 2} : slots[i].lone = FALSE
    BY <1>5 DEF UndirectedItem, WalkItem, HopShape
  <2>2. CASE FromUndirected /\ Engine = "undirected"
    <3>1. pc = "from" /\ ItemWritten = FromItem(EdgeTable, EdgeAlias(k), <<>>, <<"edge", k>>)
      BY <2>2 DEF FromUndirected, FromHop, AtStep, ItemWritten
    <3> QED  BY <1>3, <2>2, <3>1 DEF EdgeItem, FromItem, HopTable
  <2>3. CASE FromWalk /\ Engine = "varlen"
    <3>1. pc = "from" /\ ItemWritten = FromItem(WalkTable, EdgeAlias(1), <<>>, <<"edge", 1>>)
      BY <2>3 DEF FromWalk, AtStep, ItemWritten
    <3>2. k = 1
      BY <1>3, <2>1, <3>1
    <3> QED  BY <1>3, <2>3, <3>1, <3>2 DEF EdgeItem, FromItem, HopTable
  <2>4. CASE /\ \/ JoinUndirected /\ Engine = "undirected"
                \/ JoinWalk /\ Engine = "varlen"
    <3> DEFINE i == At(k)
    <3>1. /\ pc = "join" /\ slots[i].referenced
          /\ \E on : ItemWritten = FromItem(slots[i].label, slots[i].var, on, <<"slot", i>>)
      <4>1. CASE JoinUndirected /\ Engine = "undirected"
        BY <4>1 DEF JoinUndirected, JoinEnd, AtStep, ItemWritten, At
      <4>2. CASE JoinWalk /\ Engine = "varlen"
        <5>1. SlotOf(Side) = i
          BY <4>2 DEF Side, At
        <5> QED  BY <4>2, <5>1 DEF JoinWalk, JoinEnd, AtStep, ItemWritten
      <4> QED  BY <2>4, <4>1, <4>2
    <3>2. i \in DOMAIN slots
      BY <1>3, <3>1, AtIs
    <3>3. SlotAlias(i) = slots[i].var
      BY <3>1, <3>2 DEF MarkInv, SlotAlias
    <3> HIDE DEF i
    <3>4. NodeItem(ItemWritten, i) /\ ~slots[i].lone
      BY <2>1, <3>1, <3>2, <3>3 DEF NodeItem, FromItem
    <3> QED  BY <1>3, <3>1, <3>4 DEF i
  <2> QED  BY <1>5, <2>2, <2>3, <2>4 DEF UndirectedItem, WalkItem
<1> QED  BY <1>4, <1>5 DEF Item

\* Which slot a step leaves out.
LEMMA SkipIs ==
  ASSUME TypeOK, HopShape, Skipped
  PROVE  \/ pc \in {"group", "page"}
         \/ /\ k \in DOMAIN slots
            /\ \/ pc = "lone" /\ Engine = "directed" /\ ~slots[At(k)].lone
               \/ pc = "join" /\ (slots[At(k)].lone \/ ~slots[At(k)].referenced)
<1>1. /\ Len(slots) \in Nat /\ DOMAIN slots = 1 .. Len(slots)
  BY AtIs
<1>2. CASE SkipGroup \/ EmitPage
  BY <1>2 DEF SkipGroup, EmitPage, AtStep
<1>3. CASE ~SkipGroup /\ ~EmitPage
  <2>1. AtStep(pc) /\ pc \in {"lone", "join"}
    BY <1>3 DEF Skipped, SkipLone, SkipJoin, SkipUndirected, SkipWalk, SkipEnd, AtStep
  <2>2. k \in DOMAIN slots
    <3>1. k \in Nat \ {0} /\ k <= PhaseLength
      BY <2>1 DEF AtStep, TypeOK
    <3> QED  BY <1>1, <2>1, <3>1 DEF PhaseLength
  <2>3. CASE Engine = "directed" /\ (SkipLone \/ SkipJoin)
    <3>1. At(k) = k
      BY <2>3 DEF At
    <3> QED  BY <2>2, <2>3, <3>1 DEF SkipLone, SkipJoin, Joins, AtStep
  <2>4. CASE Engine = "undirected" /\ SkipUndirected
    BY <2>2, <2>4 DEF At, SkipUndirected, SkipEnd, AtStep
  <2>5. CASE Engine = "varlen" /\ SkipWalk
    <3>1. SlotOf(Side) = At(k)
      BY <2>5 DEF Side, At
    <3> QED  BY <2>2, <2>5, <3>1 DEF SkipWalk, SkipEnd, AtStep
  <2> QED  BY <1>3, <2>3, <2>4, <2>5 DEF Skipped
<1> QED  BY <1>2, <1>3

\* Which slots have been looked at, after a step and at the end of a phase.
LEMMA PassedNext ==
  ASSUME Steady, k \in Nat \ {0}, k' = k + 1
  PROVE  \A i : Passed(i)' <=> Passed(i) \/ At(k) = i
<1>1. Engine' = Engine /\ query' = query
  BY QueryStays DEF Steady
<1>2. \A n : At(n)' = At(n)
  BY <1>1 DEF At, SlotOf, OnLeft, Rel
<1>3. 1 .. k' - 1 = (1 .. k - 1) \cup {k}
  OBVIOUS
<1>4. \A i : Passed(i)' <=> \E n \in (1 .. k - 1) \cup {k} : At(n) = i
  BY <1>2, <1>3 DEF Passed
<1> QED  BY <1>4 DEF Passed

\* A phase that is over has looked at every slot.
LEMMA AllPassed ==
  ASSUME TypeOK, HopShape, k \in Nat, Len(slots) < k
  PROVE  \A i \in DOMAIN slots : Passed(i)
<1>1. \A n \in DOMAIN slots : n \in 1 .. k - 1
  BY AtIs
<1>2. \A i \in DOMAIN slots : \E n \in DOMAIN slots : At(n) = i
  BY AtIs
<1> QED  BY <1>1, <1>2 DEF Passed

\* A step that writes no item leaves the FROM as it should be.
LEMMA ItemsKept ==
  ASSUME ItemsInv, Steady, sql'.from = sql.from,
         \A i \in DOMAIN slots : Due(i)' <=> Due(i)
  PROVE  ItemsInv'
<1>1. \A j \in DOMAIN sql'.from : ItemOK(sql.from[j])'
  <2>1. ASSUME NEW j \in DOMAIN sql'.from, NEW item, item = sql'.from[j]
        PROVE  ItemOK(item)'
    BY <2>1, ItemKept DEF ItemsInv
  <2> QED  BY <2>1 DEF ItemOK, EdgeItem, NodeItem
<1>2. DOMAIN slots' = DOMAIN slots /\ \A i : Has(i)' <=> Has(i)
  BY DEF Steady, Has
<1> QED  BY <1>1, <1>2 DEF ItemsInv

\* A step to the next phase leaves the nodes that are due.
LEMMA DuePhase ==
  ASSUME TypeOK, HopShape, Steady, slots' = slots, Phase, pc \in Emitting,
         NEW i \in DOMAIN slots
  PROVE  Due(i)' <=> Due(i)
<1>0. Len(slots) \in Nat /\ DOMAIN slots = 1 .. Len(slots)
  BY AtIs
<1>1. k \in Nat /\ i \in Nat \ {0}
  BY <1>0 DEF TypeOK
<1>2. /\ k' = 1 /\ PhaseLength < k
      /\ <<pc, pc'>> \in
              {<<"select", "where">>, <<"where", "order">>, <<"order", "group">>,
               <<"group", "from">>, <<"pred", "page">>, <<"page", "done">>,
               <<"join", "pred">>}
              \cup (IF Engine = "directed" THEN {<<"from", "lone">>, <<"lone", "join">>}
                    ELSE {<<"from", "join">>})
  BY PhaseOrder
<1>3. ~Passed(i)'
  <2>1. 1 .. k' - 1 = {}
    BY <1>2
  <2> QED  BY <2>1 DEF Passed
<1>4. CASE pc = "lone" /\ pc' = "join"
  <2>1. i < k
    BY <1>1, <1>2, <1>4, AtIs DEF PhaseLength
  <2> QED  BY <1>3, <1>4, <2>1 DEF Due
<1>5. CASE pc = "from" /\ pc' = "lone"
  BY <1>1, <1>2, <1>5 DEF Due
<1>6. CASE pc = "from" /\ pc' = "join" /\ Engine # "directed"
  <2>1. slots[i].lone = FALSE
    BY <1>6 DEF HopShape
  <2> QED  BY <1>3, <1>6, <2>1 DEF Due
<1>7. CASE pc = "join" /\ pc' = "pred"
  <2>1. Passed(i)
    BY <1>1, <1>2, <1>7, AllPassed DEF PhaseLength
  <2> QED  BY <1>7, <2>1 DEF Due
<1>8. CASE pc' \in {"where", "order", "group", "from"} /\ pc \in {"select", "where", "order", "group"}
  BY <1>8 DEF Due
<1>9. CASE pc \in {"pred", "page"} /\ pc' \in {"page", "done"}
  BY <1>9 DEF Due
<1> QED  BY <1>2, <1>4, <1>5, <1>6, <1>7, <1>8, <1>9

\* So does a step past a slot: its node is not due, or had its item before.
LEMMA DueSkipped ==
  ASSUME TypeOK, HopShape, Steady, slots' = slots, Skipped, pc' = pc, k' = k + 1,
         NEW i \in DOMAIN slots
  PROVE  Due(i)' <=> Due(i)
<1>0. Len(slots) \in Nat /\ DOMAIN slots = 1 .. Len(slots)
  BY AtIs
<1>1. CASE pc \in {"group", "page"}
  BY <1>1 DEF Due
<1>2. CASE pc = "lone" /\ k \in DOMAIN slots /\ Engine = "directed" /\ ~slots[At(k)].lone
  <2>1. At(k) = k /\ i \in Nat /\ k \in Nat
    BY <1>2, AtIs
  <2>2. slots[i].lone => i # k
    BY <1>2, <2>1
  <2> QED  BY <1>2, <2>1, <2>2 DEF Due
<1>3. CASE pc = "join" /\ k \in DOMAIN slots /\ (slots[At(k)].lone \/ ~slots[At(k)].referenced)
  <2>1. k \in Nat \ {0}
    BY <1>0, <1>3
  <2>2. Passed(i)' <=> Passed(i) \/ At(k) = i
    BY <2>1, PassedNext
  <2>3. At(k) = i => slots[i].lone \/ ~slots[i].referenced
    BY <1>3
  <2> QED  BY <1>3, <2>2, <2>3 DEF Due
<1> QED  BY <1>1, <1>2, <1>3, SkipIs

\* The item a step writes is new, and the only one that becomes due.
LEMMA DueWritten ==
  ASSUME TypeOK, HopShape, MarkInv, Steady, slots' = slots, Item, pc' = pc, k' = k + 1,
         pc # "from"
  PROVE  /\ At(k) \in DOMAIN slots /\ ~Due(At(k)) /\ NodeItem(ItemWritten, At(k))
         /\ \A i \in DOMAIN slots : Due(i)' <=> Due(i) \/ i = At(k)
<1>1. /\ k \in DOMAIN slots /\ NodeItem(ItemWritten, At(k))
      /\ \/ pc = "lone" /\ Engine = "directed" /\ slots[At(k)].lone
         \/ pc = "join" /\ slots[At(k)].referenced /\ ~slots[At(k)].lone
  BY ItemIs
<1>2. At(k) \in DOMAIN slots /\ k \in Nat \ {0} /\ Len(slots) \in Nat
        /\ DOMAIN slots = 1 .. Len(slots)
  BY <1>1, AtIs
<1>3. CASE pc = "lone"
  <2>1. At(k) = k /\ slots[k].lone
    BY <1>1, <1>3, AtIs
  <2>2. \A i \in DOMAIN slots : i < k + 1 <=> i < k \/ i = k
    BY <1>2
  <2>3. \A i \in DOMAIN slots : Due(i)' <=> slots[i].lone /\ i < k + 1
    BY <1>3 DEF Due
  <2>4. \A i \in DOMAIN slots : Due(i) <=> slots[i].lone /\ i < k
    BY <1>3 DEF Due
  <2>5. ~(k < k)
    BY <1>2
  <2> QED  BY <1>1, <1>2, <2>1, <2>2, <2>3, <2>4, <2>5
<1>4. CASE pc = "join"
  <2>1. \A i : Passed(i)' <=> Passed(i) \/ At(k) = i
    BY <1>2, PassedNext
  <2>2. ~Passed(At(k))
    <3>1. \A n \in 1 .. k - 1 : n \in DOMAIN slots /\ n # k
      BY <1>1, <1>2
    <3> QED  BY <1>1, <3>1, AtIs DEF Passed
  <2>3. \A i \in DOMAIN slots : Due(i)' <=> slots[i].lone \/ (slots[i].referenced /\ Passed(i)')
    BY <1>4 DEF Due
  <2>4. \A i \in DOMAIN slots : Due(i) <=> slots[i].lone \/ (slots[i].referenced /\ Passed(i))
    BY <1>4 DEF Due
  <2> QED  BY <1>1, <1>2, <1>4, <2>1, <2>2, <2>3, <2>4
<1> QED  BY <1>1, <1>3, <1>4

\* A step that writes an item leaves the FROM as it should be.
LEMMA ItemsGrow ==
  ASSUME LInv, EInv, ItemsInv, Steady, Item, slots' = slots, pc' = pc, k' = k + 1,
         WritesItem(ItemWritten)
  PROVE  ItemsInv'
<1>1. TypeOK /\ FromInv /\ HopShape /\ MarkInv /\ k \in Nat
  BY DEF LInv, EInv, TInv, TypeOK
<1>2. PICK item : item = ItemWritten
  OBVIOUS
<1>3. PICK S : sql.from \in Seq(S)
  BY <1>1 DEF FromInv
<1> DEFINE n == Len(sql.from)
<1>4. /\ n \in Nat /\ DOMAIN sql.from = 1 .. n /\ DOMAIN sql'.from = 1 .. n + 1
      /\ \A j \in 1 .. n : sql'.from[j] = sql.from[j]
      /\ sql'.from[n + 1] = item
  BY <1>2, <1>3, AppendIs DEF WritesItem
<1>5. /\ ItemOK(item)
      /\ \A j \in 1 .. n : sql.from[j].of # item.of
      /\ \A i \in DOMAIN slots : (Has(i) \/ item.of = <<"slot", i>>) <=> Due(i)'
  <2>1. CASE pc = "from"
    <3>1. k \in DOMAIN edges /\ EdgeItem(item, k)
      BY <1>1, <1>2, <2>1, ItemIs
    <3>2. n = k - 1 /\ \A j \in 1 .. k - 1 : sql.from[j].of = <<"edge", j>>
      BY <1>1, <2>1 DEF FromInv, EdgesFirst
    <3>3. item.of = <<"edge", k>> /\ ItemOK(item)
      BY <3>1 DEF EdgeItem, ItemOK
    <3>4. \A j \in 1 .. n : sql.from[j].of # item.of
      BY <1>1, <3>2, <3>3
    <3>5. \A i : ~Has(i) /\ item.of # <<"slot", i>>
      <4>1. \A i, j : <<"edge", j>> # <<"slot", i>>
        OBVIOUS
      <4> QED  BY <1>4, <3>2, <3>3, <4>1 DEF Has
    <3>6. \A i \in DOMAIN slots : ~Due(i)'
      BY <2>1 DEF Due
    <3> QED  BY <3>3, <3>4, <3>5, <3>6
  <2>2. CASE pc # "from"
    <3>1. /\ At(k) \in DOMAIN slots /\ ~Due(At(k)) /\ NodeItem(item, At(k))
          /\ \A i \in DOMAIN slots : Due(i)' <=> Due(i) \/ i = At(k)
      BY <1>1, <1>2, <2>2, DueWritten
    <3>2. PICK a : a = At(k)
      OBVIOUS
    <3>3. item.of = <<"slot", a>> /\ ItemOK(item)
      BY <3>1, <3>2 DEF NodeItem, ItemOK
    <3>4. ~Has(a)
      BY <3>1, <3>2 DEF ItemsInv
    <3>5. \A j \in 1 .. n : sql.from[j].of # item.of
      BY <1>4, <3>3, <3>4 DEF Has
    <3>6. \A i : item.of = <<"slot", i>> <=> i = a
      BY <3>3
    <3> QED  BY <3>1, <3>2, <3>3, <3>5, <3>6 DEF ItemsInv
  <2> QED  BY <2>1, <2>2
<1> HIDE DEF n
<1>6. \A j \in DOMAIN sql'.from : ItemOK(sql.from[j])'
  <2>1. ASSUME NEW j \in DOMAIN sql'.from, NEW x, x = sql'.from[j]
        PROVE  ItemOK(x)'
    <3>1. ItemOK(x)
      BY <1>4, <1>5, <2>1 DEF ItemsInv
    <3> QED  BY <3>1, ItemKept
  <2> QED  BY <2>1 DEF ItemOK, EdgeItem, NodeItem
<1>7. ASSUME NEW i \in 1 .. n + 1, NEW j \in 1 .. n + 1,
             sql'.from[i].of = sql'.from[j].of
      PROVE  i = j
  <2>1. CASE i \in 1 .. n /\ j \in 1 .. n
    BY <1>4, <1>7, <2>1 DEF ItemsInv
  <2>2. CASE i \in 1 .. n /\ j = n + 1
    BY <1>4, <1>5, <1>7, <2>2
  <2>3. CASE i = n + 1 /\ j \in 1 .. n
    BY <1>4, <1>5, <1>7, <2>3
  <2> QED  BY <1>4, <2>1, <2>2, <2>3
<1>8. ASSUME NEW i \in DOMAIN slots
      PROVE  Has(i)' <=> Due(i)'
  <2>1. Has(i)' <=> \E j \in 1 .. n + 1 : sql'.from[j].of = <<"slot", i>>
    BY <1>4 DEF Has
  <2>2. 1 .. n + 1 = (1 .. n) \cup {n + 1}
    BY <1>4
  <2>3. Has(i) <=> \E j \in 1 .. n : sql.from[j].of = <<"slot", i>>
    BY <1>4 DEF Has
  <2> QED  BY <1>4, <1>5, <2>1, <2>2, <2>3
<1> QED  BY <1>4, <1>6, <1>7, <1>8 DEF ItemsInv

\* Every step of the phases that emit leaves the items those that are due.
LEMMA ItemsStep ==
  ASSUME LInv, EInv, ItemsInv, Next, pc \in Emitting, pc' # "failed"
  PROVE  ItemsInv'
<1>1. TypeOK /\ HopShape /\ Steady /\ Clean
  BY EInvStep DEF LInv, TInv, EInv
<1>2. Phase \/ Clause \/ Skipped \/ Item \/ Predicates
  BY EmittingSteps
<1>3. CASE Phase \/ Skipped
  <2>1. WritesNothing /\ (Skipped => pc' = pc /\ k' = k + 1)
    BY <1>1, <1>3, SkipWrites
  <2>2. slots' = slots /\ sql'.from = sql.from
    BY <2>1 DEF WritesNothing, Others, Written
  <2>3. \A i \in DOMAIN slots : Due(i)' <=> Due(i)
    BY <1>1, <1>3, <2>1, <2>2, DuePhase, DueSkipped
  <2> QED  BY <1>1, <2>2, <2>3, ItemsKept
<1>4. CASE Clause
  <2>1. pc' = pc /\ \E f \in Clauses : \E c : WritesClause(f, c)
    BY <1>1, <1>4, ClauseWrites
  <2>2. PICK f \in Clauses : \E c : WritesClause(f, c)
    BY <2>1
  <2>3. pc = f /\ sql'.from = sql.from
    BY <2>2 DEF WritesClause, Others, Written, Clauses
  <2>4. \A i \in DOMAIN slots : ~Due(i)' /\ ~Due(i)
    BY <2>1, <2>3 DEF Due, Clauses
  <2> QED  BY <1>1, <2>3, <2>4, ItemsKept
<1>5. CASE Predicates
  <2>1. pc' = pc /\ pc = "pred" /\ slots' = slots /\ sql'.from = sql.from
    BY <1>1, <1>5, PredsWrites DEF WritesPreds, Others, Written
  <2>2. \A i \in DOMAIN slots : Due(i)' <=> Due(i)
    BY <2>1 DEF Due
  <2> QED  BY <1>1, <2>1, <2>2, ItemsKept
<1>6. CASE Item
  <2>1. pc' = pc /\ k' = k + 1 /\ WritesItem(ItemWritten) /\ slots' = slots
    BY <1>1, <1>6, ItemWrites DEF WritesItem
  <2> QED  BY <1>1, <1>6, <2>1, ItemsGrow
<1> QED  BY <1>2, <1>3, <1>4, <1>5, <1>6

-----------------------------------------------------------------------------
\* What the steps that emit do to the columns of the answer and their order.
LEMMA SelectStep ==
  ASSUME Clean, EmitSelect
  PROVE  /\ pc = "select" /\ k <= Len(query.items)
         /\ sql'.select = Append(sql.select, Selected(query.items[k]))
         /\ sql'.order = sql.order
<1>1. "select" \in DOMAIN sql /\ "order" \in DOMAIN sql
  BY DEF Clean, Written, Clauses
<1> QED  BY <1>1 DEF EmitSelect, AtStep, PhaseLength

\* A step of ORDER BY sorts by a name only if an item of RETURN has it.
LEMMA OrderStep ==
  ASSUME TypeOK, Clean, OrderByAlias \/ EmitOrder
  PROVE  /\ pc = "order" /\ sql'.select = sql.select
         /\ \E c : /\ sql'.order = Append(sql.order, c)
                   /\ c.kind = "alias" => c.name # NULL /\ HasAlias(c.name)
<1>1. "select" \in DOMAIN sql /\ "order" \in DOMAIN sql
  BY DEF Clean, Written, Clauses
<1> DEFINE s == query.order[k]
<1>2. CASE OrderByAlias
  <2> DEFINE c == [kind |-> "alias", reads |-> {}, name |-> s.var]
  <2>1. s \in Sorts
    <3>1. k \in Nat \ {0} /\ k <= Len(query.order) /\ query.order \in Seq(Sorts)
      BY <1>2 DEF OrderByAlias, AtStep, PhaseLength, TypeOK, QueryType
    <3> QED  BY <3>1
  <2>2. s.kind = "variable" /\ CanOrder(s)
    BY <1>2 DEF OrderByAlias
  <2> HIDE DEF s
  <2>3. s.var # NULL /\ HasAlias(s.var)
    BY <2>1, <2>2 DEF Sorts, CanOrder
  <2>4. c.name # NULL /\ HasAlias(c.name)
    BY <2>3
  <2>5. pc = "order" /\ sql' = [sql EXCEPT !.order = Append(@, c)]
    BY <1>2 DEF OrderByAlias, AtStep, s
  <2> HIDE DEF c
  <2> QED  BY <1>1, <2>4, <2>5
<1>3. CASE EmitOrder
  <2> DEFINE c == Emitted(s)
  <2>1. pc = "order" /\ sql' = [sql EXCEPT !["order"] = Append(@, c)] /\ s.kind = "property"
    BY <1>3 DEF EmitOrder, AtStep, Emit
  <2>2. c.kind # "alias"
    BY <2>1 DEF Emitted
  <2> HIDE DEF c, s
  <2> QED  BY <1>1, <2>1, <2>2
<1> QED  BY <1>2, <1>3

\* The other steps touch neither SELECT nor ORDER BY.
LEMMA AnswerSame ==
  ASSUME Clean, Next, pc \in Emitting, pc' # "failed", TypeOK,
         ~EmitSelect, ~OrderByAlias, ~EmitOrder
  PROVE  sql'.select = sql.select /\ sql'.order = sql.order
<1>1. Phase \/ Clause \/ Skipped \/ Item \/ Predicates
  BY EmittingSteps
<1> USE DEF Written, Clauses
<1>2. CASE Phase \/ Skipped
  BY <1>2, SkipWrites DEF WritesNothing, Others
<1>3. CASE Clause
  <2>1. EmitWhere \/ EmitGroup
    BY <1>3 DEF Clause
  <2>2. PICK f \in Clauses : \E c : WritesClause(f, c)
    BY <1>3, ClauseWrites
  <2>3. pc = f /\ Others(f)
    BY <2>2 DEF WritesClause
  <2>4. pc \in {"where", "group"}
    BY <2>1 DEF EmitWhere, EmitGroup, AtStep
  <2> QED  BY <2>3, <2>4 DEF Others
<1>4. CASE Item
  BY <1>4, ItemWrites DEF WritesItem
<1>5. CASE Predicates
  BY <1>5, PredsWrites DEF WritesPreds, Others
<1> QED  BY <1>1, <1>2, <1>3, <1>4, <1>5

\* Every step of the phases that emit keeps the names of the answer.
LEMMA AnswerStep ==
  ASSUME LInv, EInv, AnswerInv, Next, pc \in Emitting, pc' # "failed"
  PROVE  AnswerInv'
<1>1. /\ TypeOK /\ Clean /\ query' = query /\ pc' \in Emitting
      /\ k \in Nat /\ query.items \in Seq(Items)
  BY EInvStep DEF LInv, TInv, EInv, Steady, TypeOK, QueryType
<1>2. Len(query.items) \in Nat /\ DOMAIN query.items = 1 .. Len(query.items)
  BY <1>1, LenProperties
<1>3. \A name : HasAlias(name)' <=> HasAlias(name)
  BY <1>1 DEF HasAlias
<1>4. /\ pc = "select" /\ pc' # "select" => Len(sql.select) = Len(query.items)
      /\ pc # "select" => pc' # "select"
      /\ pc = "select" /\ pc' = "select" => k' = k + 1 /\ EmitSelect
  <2>1. CASE Phase
    <3>1. /\ PhaseLength < k
          /\ <<pc, pc'>> \in
              {<<"select", "where">>, <<"where", "order">>, <<"order", "group">>,
               <<"group", "from">>, <<"pred", "page">>, <<"page", "done">>,
               <<"join", "pred">>, <<"from", "lone">>, <<"lone", "join">>, <<"from", "join">>}
      BY <1>1, <2>1, PhaseOrder
    <3>2. pc = "select" => Len(sql.select) = Len(query.items)
      <4>1. pc = "select" => PhaseLength = Len(query.items)
        BY DEF PhaseLength
      <4> QED  BY <1>1, <1>2, <3>1, <4>1 DEF AnswerInv
    <3> QED  BY <3>1, <3>2
  <2>2. CASE Clause
    <3>1. pc' = pc /\ k' = k + 1
      BY <1>1, <2>2, ClauseWrites
    <3>2. pc = "select" => EmitSelect
      BY <2>2 DEF Clause, EmitWhere, OrderByAlias, EmitOrder, EmitGroup, AtStep
    <3> QED  BY <3>1, <3>2
  <2>3. CASE Skipped
    <3>1. pc' = pc /\ pc # "select"
      BY <1>1, <2>3, SkipWrites DEF Skipped, SkipGroup, EmitPage, SkipLone, SkipJoin,
           SkipUndirected, SkipWalk, SkipEnd, AtStep
    <3> QED  BY <3>1
  <2>4. CASE Item
    BY <1>1, <2>4, ItemWrites
  <2>5. CASE Predicates
    BY <1>1, <2>5, PredsWrites
  <2> QED  BY <2>1, <2>2, <2>3, <2>4, <2>5, EmittingSteps
<1>5. CASE EmitSelect
  <2>1. /\ pc = "select" /\ k <= Len(query.items)
        /\ sql'.select = Append(sql.select, Selected(query.items[k]))
        /\ sql'.order = sql.order
    BY <1>1, <1>5, SelectStep
  <2>2. PICK c : c = Selected(query.items[k])
    OBVIOUS
  <2>3. query.items[k].alias # NULL => c.as = query.items[k].alias
    BY <2>2 DEF Selected
  <2>4. PICK S : sql.select \in Seq(S)
    BY <1>1 DEF Clean, Written, Clauses
  <2>5. /\ Len(sql.select) \in Nat /\ DOMAIN sql.select = 1 .. Len(sql.select)
        /\ DOMAIN sql'.select = 1 .. Len(sql.select) + 1
        /\ Len(sql'.select) = Len(sql.select) + 1
        /\ \A n \in 1 .. Len(sql.select) : sql'.select[n] = sql.select[n]
        /\ sql'.select[Len(sql.select) + 1] = c
    BY <2>1, <2>2, <2>4, AppendIs
  <2>6. pc' = pc /\ k' = k + 1 /\ Len(sql.select) = k - 1
    BY <1>5, <2>1 DEF EmitSelect, AnswerInv
  <2>7. ASSUME NEW j \in DOMAIN sql'.select, query.items[j].alias # NULL
        PROVE  sql'.select[j].as = query.items[j].alias
    <3>1. CASE j \in DOMAIN sql.select
      BY <2>5, <2>7, <3>1 DEF AnswerInv
    <3>2. CASE j \notin DOMAIN sql.select
      <4>1. j = k
        BY <1>1, <2>5, <2>6, <3>2
      <4> QED  BY <1>1, <2>3, <2>5, <2>6, <2>7, <4>1
    <3> QED  BY <3>1, <3>2
  <2>8. Len(sql'.select) = k' - 1 /\ k' <= Len(query.items) + 1
    BY <1>1, <1>2, <2>1, <2>5, <2>6
  <2> QED  BY <1>1, <1>3, <2>1, <2>6, <2>7, <2>8 DEF AnswerInv
<1>6. CASE ~EmitSelect
  <2>1. sql'.select = sql.select
    BY <1>1, <1>6, AnswerSame, OrderStep
  <2>2. \A c \in Range(sql'.order) : c.kind = "alias" => c.name # NULL /\ HasAlias(c.name)
    <3>1. CASE OrderByAlias \/ EmitOrder
      <4>1. PICK c : /\ sql'.order = Append(sql.order, c)
                     /\ c.kind = "alias" => c.name # NULL /\ HasAlias(c.name)
        BY <1>1, <3>1, OrderStep
      <4>2. PICK S : sql.order \in Seq(S)
        BY <1>1 DEF Clean, Written, Clauses
      <4>3. \A d \in Range(sql'.order) : d \in Range(sql.order) \/ d = c
        BY <4>1, <4>2, AppendIs
      <4> QED  BY <4>1, <4>3 DEF AnswerInv
    <3>2. CASE ~(OrderByAlias \/ EmitOrder)
      <4>1. sql'.order = sql.order
        BY <1>1, <1>6, <3>2, AnswerSame
      <4> QED  BY <4>1 DEF AnswerInv
    <3> QED  BY <3>1, <3>2
  <2>3. pc' # "select"
    BY <1>4, <1>6
  <2>4. Len(sql'.select) = Len(query.items)
    BY <1>4, <2>1, <2>3 DEF AnswerInv
  <2> QED  BY <1>1, <1>3, <2>1, <2>2, <2>3, <2>4 DEF AnswerInv
<1> QED  BY <1>5, <1>6

-----------------------------------------------------------------------------
(* The invariant, from the beginning *)

\* An empty statement, the binds being made and no node marked.
LEMMA Fresh ==
  ASSUME sql' = NoSql, pc' = "select", k' = 1, query' \in QueryType,
         \A i \in DOMAIN slots' : slots'[i].referenced = FALSE,
         BindsOK', HopShape'
  PROVE  (EInv /\ ItemsInv /\ AnswerInv)'
<1>1. /\ \A f \in Written \cup {"with"} : f \in DOMAIN NoSql /\ NoSql[f] = <<>>
      /\ DOMAIN <<>> = {} /\ Len(<<>>) = 0 /\ Range(<<>>) = {}
  BY DEF NoSql, Written, Clauses, Range
<1>2. /\ \A f \in Written \cup {"with"} : f \in DOMAIN sql' /\ sql'[f] = <<>>
      /\ sql'.from = <<>> /\ sql'.with = <<>> /\ sql'.select = <<>> /\ sql'.order = <<>>
  BY <1>1 DEF Written, Clauses
<1>3. Clean'
  <2>1. <<>> \in Seq({})
    BY EmptySeq
  <2> QED  BY <1>2, <2>1 DEF Clean
<1>4. MarkInv'
  BY DEF MarkInv
<1>5. ReadInv'
  BY <1>1, <1>2 DEF ReadInv, Written
<1>6. WithInv'
  BY <1>2 DEF WithInv, Late
<1>7. ItemsInv'
  <2>1. \A i : ~Has(i)'
    BY <1>1, <1>2 DEF Has
  <2>2. \A i \in DOMAIN slots' : ~Due(i)'
    BY DEF Due
  <2> QED  BY <1>1, <1>2, <2>1, <2>2 DEF ItemsInv
<1>8. AnswerInv'
  <2>1. Len(query'.items) \in Nat
    BY LenProperties DEF QueryType
  <2>2. Len(sql'.select) = k' - 1 /\ k' <= Len(query'.items) + 1
    BY <1>1, <1>2, <2>1
  <2> QED  BY <1>1, <1>2, <2>2 DEF AnswerInv
<1> QED  BY <1>3, <1>4, <1>5, <1>6, <1>7, <1>8 DEF EInv

\* The step that collects a hop begins so.
LEMMA OpenFresh ==
  ASSUME TypeOK, Sole, pc = "collect", sql = NoSql, Engine # "directed",
         Engine = "varlen" => Rel.var = NULL,
         NEW src \in {1, 2}, NEW tgt \in {1, 2}, OpenHop(src, tgt)
  PROVE  pc' = "select" /\ (EInv /\ ItemsInv /\ AnswerInv)'
<1> DEFINE s == EndSlot(Left, 0)
           t == EndSlot(Right, 1)
           hop == [var |-> Rel.var, type |-> Rel.type, props |-> Rel.props,
                   src |-> src, tgt |-> tgt]
<1>1. /\ slots' = <<s, t>> /\ edges' = <<hop>> /\ query' = query /\ pc' = "select"
      /\ k' = 1 /\ sql' = sql /\ binds' = BindsOf(<<s, t>>, <<hop>>)
  BY DEF OpenHop, HopPhases
<1>2. /\ s.referenced = FALSE /\ s.lone = FALSE /\ t.referenced = FALSE /\ t.lone = FALSE
      /\ hop.var = Rel.var
  BY DEF EndSlot
<1>3. Engine' = Engine
  BY <1>1, QueryStays
<1> HIDE DEF s, t, hop
<1>4. /\ DOMAIN slots' = {1, 2} /\ slots'[1] = s /\ slots'[2] = t
      /\ DOMAIN edges' = {1} /\ edges'[1] = hop
  BY <1>1
<1>5. HopShape'
  BY <1>2, <1>3, <1>4 DEF HopShape
<1>6. BindsOK'
  <2>1. <<s, t>> \in Seq({s, t}) /\ <<hop>> \in Seq({hop})
    OBVIOUS
  <2>2. binds' \in Seq(BindsFor(slots', edges'))
    BY <1>1, <2>1, BindsOfIs
  <2> QED  BY <2>2 DEF BindsOK
<1>7. \A i \in DOMAIN slots' : slots'[i].referenced = FALSE
  BY <1>2, <1>4
<1> QED  BY <1>1, <1>5, <1>6, <1>7, Fresh DEF TypeOK

\* Neither collecting nor looking at the slots marks one.
Unmarked(ss) == \A i \in DOMAIN ss : ss[i].referenced = FALSE

\* A new slot is not marked.
LEMMA SlotForUnmarked ==
  ASSUME TypeOK, Unmarked(slots), NEW node \in NodePats, NEW np \in Nat \X Nat
  PROVE  Unmarked(SlotFor(node, np))
<1> DEFINE i == SlotIndex(node, np)
           new == NewSlot(node, np)
<1>1. Len(slots) \in Nat /\ DOMAIN slots = 1 .. Len(slots)
  BY LenProperties DEF TypeOK
<1>2. new.referenced = FALSE
  BY DEF NewSlot
<1> HIDE DEF i, new
<1>3. CASE i = Len(slots) + 1
  <2>1. SlotFor(node, np) = Append(slots, new)
    BY <1>3 DEF SlotFor, i, new
  <2>2. slots \in Seq(SlotRecords)
    BY DEF TypeOK
  <2>3. /\ DOMAIN Append(slots, new) = 1 .. Len(slots) + 1
        /\ \A j \in 1 .. Len(slots) : Append(slots, new)[j] = slots[j]
        /\ Append(slots, new)[Len(slots) + 1] = new
    BY <2>2, AppendIs
  <2>4. \A j \in 1 .. Len(slots) + 1 : j \in DOMAIN slots \/ j = Len(slots) + 1
    BY <1>1
  <2> QED  BY <1>1, <1>2, <2>1, <2>3, <2>4 DEF Unmarked
<1>4. CASE i # Len(slots) + 1
  <2>1. SlotFor(node, np) \in {slots, [slots EXCEPT ![i].label = node.label]}
    BY <1>4 DEF SlotFor, i
  <2>2. ASSUME NEW j \in DOMAIN slots
        PROVE  [slots EXCEPT ![i].label = node.label][j].referenced = FALSE
    <3>1. slots[j].referenced = FALSE /\ slots[j] \in SlotRecords
      BY DEF Unmarked, TypeOK
    <3> QED  BY <3>1 DEF SlotRecords
  <2> QED  BY <2>1, <2>2 DEF Unmarked
<1> QED  BY <1>3, <1>4

\* Anchoring a slot does not mark it.
LEMMA AnchorUnmarked ==
  ASSUME NEW ss \in Seq(SlotRecords), Unmarked(ss), NEW c \in DOMAIN ss, NEW e, NEW b
  PROVE  Unmarked(Anchor(ss, c, e, b))
<1>1. \A i \in DOMAIN ss : ss[i] \in SlotRecords /\ ss[i].referenced = FALSE
  BY DEF Unmarked
<1>2. CASE ss[c].anchor # 0
  BY <1>2 DEF Anchor
<1>3. CASE ss[c].anchor = 0
  <2>1. Anchor(ss, c, e, b) = [ss EXCEPT ![c].anchor = e, ![c].onTarget = b]
    BY <1>3 DEF Anchor
  <2>2. \A i \in DOMAIN ss : [ss EXCEPT ![c].anchor = e, ![c].onTarget = b][i].referenced = FALSE
    BY <1>1 DEF SlotRecords
  <2> QED  BY <2>1, <2>2 DEF Unmarked
<1> QED  BY <1>2, <1>3

\* Nor does collecting a segment.
LEMMA SegmentUnmarked ==
  ASSUME IInv, Unmarked(slots), CollectSegment
  PROVE  Unmarked(slots')
<1> DEFINE node == NodeAt(pi, k)
           np == <<pi, k>>
           rel == query.paths[pi].segs[k].rel
           cur == SlotIndex(node, np)
           src == IF rel.dir = "left" THEN cur ELSE prev
           tgt == IF rel.dir = "left" THEN prev ELSE cur
           e == Len(edges) + 1
           ss == SlotFor(node, np)
<1>1. /\ query \in QueryType /\ pi \in Nat \ {0} /\ k \in Nat
      /\ TypeOK /\ UniqueIn(slots) /\ edges \in Seq(EdgeRecords)
  BY DEF IInv, TypeOK
<1>2. /\ k > 0 /\ pc = "collect" /\ pi <= Len(query.paths)
      /\ slots' = Anchor(Anchor(ss, src, e, FALSE), tgt, e, TRUE)
  BY DEF CollectSegment, AtSegment
<1>3. k \in 1 .. Len(query.paths[pi].segs) /\ prev \in DOMAIN slots
  <2>1. Len(query.paths[pi].segs) \in Nat
    BY <1>1, <1>2, PathsTyped
  <2>2. k <= Len(query.paths[pi].segs) /\ prev \in DOMAIN slots
    BY <1>2 DEF IInv, Position
  <2>3. k \in Nat /\ k > 0
    BY <1>1, <1>2, Zenon
  <2>4. k \in 1 .. Len(query.paths[pi].segs)
    BY <2>1, <2>2, <2>3
  <2> QED  BY <2>2, <2>4
<1>4. node \in NodePats /\ np \in Nat \X Nat
  BY <1>1, <1>2, <1>3, PathsTyped DEF NodeAt
<1> HIDE DEF node, np, rel
<1>5. GrownTo(ss) /\ cur \in DOMAIN ss
  BY <1>1, <1>4, SlotForIs
<1>6. Unmarked(ss)
  BY <1>1, <1>4, SlotForUnmarked
<1> HIDE DEF cur, ss
<1>7. src \in DOMAIN ss /\ tgt \in DOMAIN ss /\ ss \in Seq(SlotRecords) /\ e \in Nat \ {0}
  <2>1. Len(edges) \in Nat
    BY <1>1, LenProperties
  <2> QED  BY <1>3, <1>5, <2>1 DEF GrownTo
<1> HIDE DEF src, tgt, e
<1> DEFINE s1 == Anchor(ss, src, e, FALSE)
<1>8. Unmarked(s1)
  BY <1>6, <1>7, AnchorUnmarked
<1>9. s1 \in Seq(SlotRecords) /\ DOMAIN s1 = DOMAIN ss
  <2>1. AnchorEffect(ss, s1, src, e, FALSE)
    BY <1>7, AnchorIs
  <2> QED  BY <2>1 DEF AnchorEffect
<1> HIDE DEF s1
<1>10. Unmarked(Anchor(s1, tgt, e, TRUE))
  BY <1>7, <1>8, <1>9, AnchorUnmarked
<1> QED  BY <1>2, <1>10 DEF s1

\* The steps before the binds are made, and none after a failure.
LEMMA UnboundSteps ==
  ASSUME Next, pc \in Unbound, pc' # "failed"
  PROVE  \/ Dispatch
         \/ /\ Engine = "directed"
            /\ CollectStart \/ CollectSegment \/ NextPhase \/ ResolveSlot \/ MarkSlot \/ Bind
         \/ Engine = "undirected" /\ OpenUndirected
         \/ Engine = "varlen" /\ OpenVarlen
<1>1. pc \notin {"select", "where", "order", "group", "from", "lone", "join", "pred",
                 "page", "done"}
  BY DEF Unbound
<1>2. /\ ~EmitSelect /\ ~EmitWhere /\ ~OrderByAlias /\ ~EmitOrder /\ ~EmitGroup
      /\ ~SkipGroup /\ ~EmitPage /\ ~SelectFail /\ ~WhereFail /\ ~OrderFail
  BY <1>1 DEF EmitSelect, EmitWhere, OrderByAlias, EmitOrder, EmitGroup, SkipGroup,
     EmitPage, SelectFail, WhereFail, OrderFail, AtStep
<1>3. /\ ~FromEdge /\ ~FromLone /\ ~SkipLone /\ ~FromNode /\ ~SkipJoin /\ ~EmitPreds
      /\ ~PredsFail
  BY <1>1 DEF FromEdge, FromLone, SkipLone, FromNode, SkipJoin, EmitPreds, PredsFail, AtStep
<1>4. ~NextHopPhase
  <2>1. \A i \in 1 .. Len(HopPhases) - 1 : pc # HopPhases[i]
    BY <1>1 DEF HopPhases
  <2> QED  BY <2>1 DEF NextHopPhase
<1>5. /\ ~FromUndirected /\ ~JoinUndirected /\ ~SkipUndirected /\ ~PredsUndirected
      /\ ~FromWalk /\ ~JoinWalk /\ ~SkipWalk /\ ~PredsWalk /\ ~RefusePreds
  BY <1>1 DEF FromUndirected, FromHop, JoinUndirected, JoinEnd, SkipUndirected, SkipEnd,
     PredsUndirected, FromWalk, JoinWalk, SkipWalk, PredsWalk, RefusePreds, AtStep
<1>6. /\ ~CollectFail /\ ~ResolveFail /\ ~MarkFail /\ ~RefuseUndirected /\ ~RefuseVarlen
      /\ ~Refuse
  BY DEF CollectFail, ResolveFail, MarkFail, RefuseUndirected, RefuseVarlen, Refuse, Reject
<1> QED  BY <1>2, <1>3, <1>4, <1>5, <1>6
         DEF Next, GeneralNext, UndirectedNext, VarlenNext, EmitClauses

\* A query that was rejected stays rejected.
LEMMA FailedStays ==
  ASSUME Next, pc = "failed"
  PROVE  pc' = "failed"
<1>1. /\ ~EmitSelect /\ ~EmitWhere /\ ~OrderByAlias /\ ~EmitOrder /\ ~EmitGroup
      /\ ~SkipGroup /\ ~EmitPage /\ ~SelectFail /\ ~WhereFail /\ ~OrderFail
  BY DEF EmitSelect, EmitWhere, OrderByAlias, EmitOrder, EmitGroup, SkipGroup,
     EmitPage, SelectFail, WhereFail, OrderFail, AtStep
<1>2. /\ ~FromEdge /\ ~FromLone /\ ~SkipLone /\ ~FromNode /\ ~SkipJoin /\ ~EmitPreds
      /\ ~PredsFail
  BY DEF FromEdge, FromLone, SkipLone, FromNode, SkipJoin, EmitPreds, PredsFail, AtStep
<1>3. ~NextHopPhase /\ ~NextPhase
  <2>1. \A i \in 1 .. Len(HopPhases) - 1 : pc # HopPhases[i]
    BY DEF HopPhases
  <2>2. \A i \in 1 .. Len(Phases) - 1 : pc # Phases[i]
    BY DEF Phases
  <2> QED  BY <2>1, <2>2 DEF NextHopPhase, NextPhase
<1>4. /\ ~FromUndirected /\ ~JoinUndirected /\ ~SkipUndirected /\ ~PredsUndirected
      /\ ~FromWalk /\ ~JoinWalk /\ ~SkipWalk /\ ~PredsWalk /\ ~RefusePreds
  BY DEF FromUndirected, FromHop, JoinUndirected, JoinEnd, SkipUndirected, SkipEnd,
     PredsUndirected, FromWalk, JoinWalk, SkipWalk, PredsWalk, RefusePreds, AtStep
<1>5. /\ ~CollectStart /\ ~CollectSegment /\ ~ResolveSlot /\ ~MarkSlot /\ ~Bind
      /\ ~OpenUndirected /\ ~OpenVarlen /\ ~Dispatch
  BY DEF CollectStart, CollectSegment, AtSegment, ResolveSlot, MarkSlot, Bind, AtStep,
     OpenUndirected, OpenVarlen, Dispatch
<1>6. CollectFail \/ ResolveFail \/ MarkFail \/ RefuseUndirected \/ RefuseVarlen \/ Refuse
        => pc' = "failed"
  BY DEF CollectFail, ResolveFail, MarkFail, RefuseUndirected, RefuseVarlen, Refuse, Reject
<1> QED  BY <1>1, <1>2, <1>3, <1>4, <1>5, <1>6
         DEF Next, GeneralNext, UndirectedNext, VarlenNext, EmitClauses

\* The phases, and rejection, are all there is.
LEMMA PcIs ==
  ASSUME TypeOK
  PROVE  pc \in Unbound \/ pc \in Emitting \/ pc = "failed"
<1>1. CASE pc \in {Phases[i] : i \in DOMAIN Phases}
  <2>1. PICK i \in DOMAIN Phases : pc = Phases[i]
    BY <1>1
  <2>2. i \in 1 .. 14
    BY DEF Phases
  <2> QED  BY <2>1, <2>2 DEF Phases, Unbound, Emitting
<1> QED  BY <1>1 DEF TypeOK, Unbound

\* The invariant holds of a query that is not yet looked at.
LEMMA DInvInit == Init => DInv
<1> SUFFICES ASSUME Init PROVE DInv
  OBVIOUS
<1>1. pc = "dispatch" /\ sql = NoSql /\ DOMAIN slots = {}
  BY DEF Init
<1>2. Unwritten
  BY <1>1 DEF Unwritten
<1>3. pc \notin Emitting
  BY <1>1 DEF Emitting
<1>4. query \in Queries
  BY DEF Init
<1> QED  BY <1>2, <1>3, <1>4, LInvInit, FoundInit DEF DInv, Found

\* A step before the binds are made, up to and with opening the statement.
LEMMA UnboundStep ==
  ASSUME DInv, Next, pc \in Unbound, pc' # "failed"
  PROVE  /\ pc' \in Unbound => Unwritten'
         /\ pc' \in Emitting => (EInv /\ ItemsInv /\ AnswerInv)'
<1>1. TypeOK /\ TInv /\ sql = NoSql /\ Unmarked(slots) /\ (pc = "bind" /\ k > 1 => BindsOK)
  BY DEF DInv, LInv, TInv, Unwritten, Unmarked
<1>2. CASE Dispatch
  <2>1. pc' = "collect" /\ sql' = sql /\ slots' = slots
    BY <1>2 DEF Dispatch
  <2> QED  BY <1>1, <2>1 DEF Unwritten, Unmarked, Emitting
<1>3. CASE Engine = "directed" /\ (CollectStart \/ CollectSegment)
  <2>1. IInv
    BY <1>1, <1>3 DEF TInv
  <2>2. pc' = "collect" /\ sql' = sql
    BY <1>3 DEF CollectStart, CollectSegment, AtSegment
  <2>3. CASE CollectStart
    <3> DEFINE node == NodeAt(pi, 0) np == <<pi, 0>>
    <3>1. slots' = SlotFor(node, np) /\ pi <= Len(query.paths)
      BY <2>3 DEF CollectStart, AtSegment
    <3>2. node \in NodePats /\ np \in Nat \X Nat
      BY <1>1, <3>1, PathsTyped DEF NodeAt, TypeOK
    <3> HIDE DEF node, np
    <3>3. Unmarked(slots')
      BY <1>1, <3>1, <3>2, SlotForUnmarked
    <3> QED  BY <1>1, <2>2, <3>3 DEF Unwritten, Unmarked, Emitting
  <2>4. CASE CollectSegment
    <3>1. Unmarked(slots')
      BY <1>1, <2>1, <2>4, SegmentUnmarked
    <3> QED  BY <1>1, <2>2, <3>1 DEF Unwritten, Unmarked, Emitting
  <2> QED  BY <1>3, <2>3, <2>4
<1>4. CASE Engine = "directed" /\ NextPhase
  <2>1. PICK i \in 1 .. 13 : pc = Phases[i] /\ pc' = Phases[i + 1]
    BY <1>4, PhasesAre DEF NextPhase
  <2>2. <<pc, pc'>> \in {<<"collect", "resolve">>, <<"resolve", "mark">>,
                         <<"mark", "bind">>, <<"bind", "select">>}
    BY <2>1 DEF Phases, Unbound
  <2>3. /\ k' = 1 /\ UNCHANGED <<query, slots, edges, binds, sql>>
        /\ (pc # "collect" => PhaseLength < k)
    BY <1>4 DEF NextPhase
  <2>4. CASE pc' = "select"
    <3>1. pc = "bind" /\ PhaseLength = 1
      BY <2>2, <2>4 DEF PhaseLength
    <3>2. BindsOK
      BY <1>1, <2>3, <3>1
    <3>3. BindsOK'
      BY <2>3, <3>2 DEF BindsOK, BindsFor, NodeBind, EdgeBind
    <3>4. HopShape'
      BY <1>4, <2>3, QueryStays DEF HopShape
    <3>5. pc' \notin Unbound
      BY <2>4 DEF Unbound
    <3>6. query' \in QueryType
      BY <1>1, <2>3 DEF TypeOK
    <3> QED  BY <1>1, <2>3, <2>4, <3>3, <3>4, <3>5, <3>6, Fresh DEF Unmarked
  <2>5. CASE pc' # "select"
    <3>1. pc' \notin Emitting /\ ~(k' > 1)
      BY <2>2, <2>3, <2>5 DEF Emitting
    <3> QED  BY <1>1, <2>3, <3>1 DEF Unwritten, Unmarked
  <2> QED  BY <2>4, <2>5
<1>5. CASE Engine = "directed" /\ (ResolveSlot \/ MarkSlot)
  <2>1. sql' = sql /\ pc' = pc /\ pc \in {"resolve", "mark"}
    BY <1>5 DEF ResolveSlot, MarkSlot, AtStep
  <2>2. Unmarked(slots')
    <3>1. \A i \in DOMAIN slots : slots[i] \in SlotRecords /\ slots[i].referenced = FALSE
      BY <1>1 DEF TypeOK, Unmarked
    <3>2. CASE ResolveSlot
      <4>1. PICK label, name : slots' = [slots EXCEPT ![k].label = label, ![k].name = name]
        BY <3>2 DEF ResolveSlot
      <4>2. DOMAIN slots' = DOMAIN slots
        BY <4>1
      <4>3. \A i \in DOMAIN slots : slots'[i].referenced = FALSE
        BY <3>1, <4>1 DEF SlotRecords
      <4> QED  BY <4>2, <4>3 DEF Unmarked
    <3>3. CASE MarkSlot
      <4>1. PICK lone : slots' = [slots EXCEPT ![k].lone = lone]
        BY <3>3 DEF MarkSlot
      <4>2. DOMAIN slots' = DOMAIN slots
        BY <4>1
      <4>3. \A i \in DOMAIN slots : slots'[i].referenced = FALSE
        BY <3>1, <4>1 DEF SlotRecords
      <4> QED  BY <4>2, <4>3 DEF Unmarked
    <3> QED  BY <1>5, <3>2, <3>3
  <2> QED  BY <1>1, <2>1, <2>2 DEF Unwritten, Unmarked, Emitting
<1>6. CASE Engine = "directed" /\ Bind
  <2>1. /\ pc' = pc /\ pc = "bind" /\ sql' = sql /\ slots' = slots /\ edges' = edges
        /\ binds' = BindsOf(slots, edges)
    BY <1>6 DEF Bind, AtStep
  <2>2. slots \in Seq(SlotRecords) /\ edges \in Seq(EdgeRecords)
    BY <1>1 DEF TypeOK
  <2>3. binds' \in Seq(BindsFor(slots', edges'))
    BY <2>1, <2>2, BindsOfIs
  <2>4. BindsOK'
    BY <2>3 DEF BindsOK
  <2> QED  BY <1>1, <2>1, <2>4 DEF Unwritten, Unmarked, Emitting
<1>7. CASE \/ Engine = "undirected" /\ OpenUndirected
           \/ Engine = "varlen" /\ OpenVarlen
  <2>1. pc = "collect" /\ Engine # "directed"
    BY <1>7 DEF OpenUndirected, OpenVarlen
  <2>2. Sole
    BY <1>1, <2>1 DEF TInv, HopInv
  <2>3. Engine = "varlen" => Rel.var = NULL
    BY <1>7 DEF OpenVarlen, Supported
  <2>4. \E src, tgt \in {1, 2} : OpenHop(src, tgt)
    <3>1. SlotOf("source") \in {1, 2} /\ SlotOf("target") \in {1, 2}
      BY DEF SlotOf
    <3> QED  BY <1>7, <3>1 DEF OpenUndirected, OpenVarlen
  <2>5. pc' = "select" /\ (EInv /\ ItemsInv /\ AnswerInv)'
    BY <1>1, <2>1, <2>2, <2>3, <2>4, OpenFresh
  <2>6. pc' \notin Unbound
    BY <2>5 DEF Unbound
  <2> QED  BY <2>5, <2>6
<1> QED  BY <1>2, <1>3, <1>4, <1>5, <1>6, <1>7, UnboundSteps

\* A step that changes nothing.
LEMMA StutterKeeps ==
  ASSUME DInv, UNCHANGED vars
  PROVE  /\ pc' \in Unbound => Unwritten'
         /\ pc' \in Emitting => (EInv /\ ItemsInv /\ AnswerInv)'
<1>1. /\ TypeOK /\ pc' = pc /\ k' = k /\ sql' = sql /\ slots' = slots
      /\ query' = query /\ edges' = edges /\ binds' = binds
  BY DEF DInv, LInv, TInv, vars
<1>2. Steady
  BY <1>1, SlotsSteady
<1>3. CASE pc \in Unbound
  <2>1. pc = "bind" /\ k > 1 => BindsOK'
    BY <1>2, <1>3, BindsKept DEF DInv, Unwritten
  <2>2. pc' \notin Emitting
    BY <1>1, <1>3 DEF Unbound, Emitting
  <2> QED  BY <1>1, <1>3, <2>1, <2>2 DEF DInv, Unwritten
<1>4. CASE pc \in Emitting
  <2>1. EInv /\ ItemsInv /\ AnswerInv /\ pc' \notin Unbound
    BY <1>1, <1>4 DEF DInv, Unbound, Emitting
  <2>2. WritesNothing
    BY <1>1, <2>1 DEF WritesNothing, Others, EInv, Clean
  <2>3. Clean' /\ ReadInv' /\ BindsOK' /\ HopShape' /\ MarkInv'
    BY <1>1, <1>2, <2>1, <2>2, NothingKeeps, BindsKept, HopKept, MarkKept DEF EInv
  <2>4. Engine' = Engine
    BY <1>1, QueryStays
  <2>5. WithInv'
    BY <1>1, <2>1, <2>4 DEF EInv, WithInv
  <2>6. \A i \in DOMAIN slots : Due(i)' <=> Due(i)
    BY <1>1, <2>4 DEF Due, Passed, At, SlotOf, OnLeft, Rel
  <2>7. ItemsInv'
    BY <1>1, <1>2, <2>1, <2>6, ItemsKept
  <2>8. AnswerInv'
    BY <1>1, <2>1 DEF AnswerInv, HasAlias
  <2> QED  BY <2>1, <2>3, <2>5, <2>7, <2>8 DEF EInv
<1>5. CASE pc = "failed"
  BY <1>1, <1>5 DEF Unbound, Emitting
<1> QED  BY <1>1, <1>3, <1>4, <1>5, PcIs

\* No step changes the query.
LEMMA QueryNever == TInv /\ [Next]_vars => query' = query
<1> SUFFICES ASSUME TInv, [Next]_vars PROVE query' = query
  OBVIOUS
<1>1. TypeOK /\ (Engine # "directed" /\ pc = "collect" => Sole)
  BY DEF TInv, HopInv
<1>2. CASE Dispatch \/ Refuse \/ UNCHANGED vars
  BY <1>2 DEF Dispatch, Refuse, Reject, vars
<1>3. CASE Engine = "directed" /\ GeneralNext
  BY <1>1, <1>3, GeneralKeepsQuery
<1>4. CASE \/ Engine = "undirected" /\ UndirectedNext
           \/ Engine = "varlen" /\ VarlenNext
  <2>1. HopStep
    BY <1>1, <1>4, UndirectedStep, VarlenStep
  <2> QED  BY <2>1 DEF HopStep, Quiet
<1> QED  BY <1>2, <1>3, <1>4 DEF Next

\* The invariant is inductive.
LEMMA DInvStep == DInv /\ [Next]_vars => DInv'
<1> SUFFICES ASSUME DInv, [Next]_vars PROVE DInv'
  OBVIOUS
<1>1. TypeOK /\ TInv /\ LInv /\ Found
  BY DEF DInv, LInv, TInv
<1>2. LInv' /\ Found' /\ query' \in Queries
  BY <1>1, LInvStep, FoundStep, QueryNever DEF DInv
<1>3. /\ pc' \in Unbound => Unwritten'
      /\ pc' \in Emitting => (EInv /\ ItemsInv /\ AnswerInv)'
  <2>1. CASE UNCHANGED vars
    BY <2>1, StutterKeeps
  <2>2. CASE pc' = "failed"
    BY <2>2 DEF Unbound, Emitting
  <2>3. CASE Next /\ pc' # "failed"
    <3>1. CASE pc \in Unbound
      BY <2>3, <3>1, UnboundStep
    <3>2. CASE pc \in Emitting
      <4>1. EInv /\ ItemsInv /\ AnswerInv
        BY <3>2 DEF DInv
      <4>2. EInv' /\ pc' \in Emitting /\ ItemsInv' /\ AnswerInv'
        BY <1>1, <2>3, <3>2, <4>1, EInvStep, ItemsStep, AnswerStep
      <4>3. pc' \notin Unbound
        BY <4>2 DEF Unbound, Emitting
      <4> QED  BY <4>2, <4>3
    <3>3. CASE pc = "failed"
      BY <2>3, <3>3, FailedStays
    <3> QED  BY <1>1, <3>1, <3>2, <3>3, PcIs
  <2> QED  BY <2>1, <2>2, <2>3
<1> QED  BY <1>2, <1>3 DEF DInv

\* Every state a translation reaches satisfies it.
LEMMA Denoting == Spec => []DInv
BY DInvInit, DInvStep, PTL DEF Spec

-----------------------------------------------------------------------------
(* Names that mean one thing *)

\* How many numbers there are from 1 to n.
LEMMA Counting ==
  ASSUME NEW n \in Nat
  PROVE  IsFiniteSet(1 .. n) /\ Cardinality(1 .. n) = n /\ IsFiniteSet(0 .. n)
<1>1. 1 \in Int /\ 0 \in Int /\ n \in Int
  OBVIOUS
<1>2. /\ IsFiniteSet(1 .. n) /\ IsFiniteSet(0 .. n)
      /\ Cardinality(1 .. n) = IF 1 > n THEN 0 ELSE n - 1 + 1
  BY <1>1, FS_Interval, Zenon
<1>3. (IF 1 > n THEN 0 ELSE n - 1 + 1) = n
  OBVIOUS
<1> QED  BY <1>2, <1>3

\* A query has finitely many occurrences of nodes and relationships.
LEMMA OccsFinite ==
  ASSUME query \in QueryType
  PROVE  IsFiniteSet(NodeOccs) /\ IsFiniteSet(RelOccs)
<1> DEFINE N == Len(query.paths)
           OfPath(i) == {<<i, n>> : n \in 0 .. Len(query.paths[i].segs)}
           All == {OfPath(i) : i \in 1 .. N}
<1>1. N \in Nat /\ DOMAIN query.paths = 1 .. N
  BY LenProperties DEF QueryType
<1>2. ASSUME NEW i \in 1 .. N
      PROVE  IsFiniteSet(OfPath(i))
  <2> DEFINE L == Len(query.paths[i].segs)
             at == [n \in 0 .. L |-> <<i, n>>]
  <2>1. L \in Nat
    BY <1>1, PathsTyped
  <2>2. at \in Surjection(0 .. L, OfPath(i))
    <3> HIDE DEF L
    <3>1. OfPath(i) = {<<i, n>> : n \in 0 .. L}
      BY DEF L
    <3> HIDE DEF OfPath
    <3> QED  BY <3>1 DEF Surjection
  <2>3. IsFiniteSet(0 .. L)
    BY <2>1, Counting
  <2> HIDE DEF at, OfPath, L
  <2> QED  BY <2>2, <2>3, FS_Surjection
<1>3. IsFiniteSet(All)
  <2> DEFINE path == [i \in 1 .. N |-> OfPath(i)]
  <2>1. path \in Surjection(1 .. N, All)
    <3> HIDE DEF OfPath, N
    <3> QED  BY DEF Surjection
  <2>2. IsFiniteSet(1 .. N)
    BY <1>1, Counting
  <2> HIDE DEF path, All, N
  <2> QED  BY <2>1, <2>2, FS_Surjection
<1>4. NodeOccs = UNION All
  BY <1>1 DEF NodeOccs, NodeOccsIn
<1>5. IsFiniteSet(NodeOccs)
  <2>1. \A S \in All : IsFiniteSet(S)
    BY <1>2
  <2> HIDE DEF All
  <2> QED  BY <1>3, <1>4, <2>1, FS_UNION
<1>6. RelOccs \in SUBSET NodeOccs
  BY DEF RelOccs, RelOccsIn, NodeOccs
<1> QED  BY <1>5, <1>6, FS_Subset

\* A variable of a well named query stands for one relationship.
LEMMA NamedOnce ==
  ASSUME query \in QueryType, WellNamed,
         NEW o \in RelOccs, NEW p \in RelOccs,
         RelOf(o).var # NULL, RelOf(o).var = RelOf(p).var
  PROVE  o = p
<1> DEFINE anonymous == {x \in RelOccs : RelOf(x).var = NULL}
           named == {x \in RelOccs : RelOf(x).var # NULL}
           var == [x \in named |-> RelOf(x).var]
<1>1. Cardinality(RelVars) + Cardinality(anonymous) = Cardinality(RelOccs)
  BY DEF WellNamed
<1>2. IsFiniteSet(RelOccs)
  BY OccsFinite
<1>3. named \in SUBSET RelOccs /\ anonymous \in SUBSET RelOccs
  OBVIOUS
<1>4. IsFiniteSet(named) /\ IsFiniteSet(anonymous)
  <2> HIDE DEF named, anonymous
  <2> QED  BY <1>2, <1>3, FS_Subset
<1>5. var \in Surjection(named, RelVars)
  <2>1. \A v \in RelVars : \E x \in named : v = RelOf(x).var
    BY DEF RelVars
  <2>2. \A x \in named : RelOf(x).var \in RelVars
    BY DEF RelVars
  <2> HIDE DEF named
  <2> QED  BY <2>1, <2>2 DEF Surjection
<1>6. named \cup anonymous = RelOccs /\ named \cap anonymous = {}
  OBVIOUS
<1>7. o \in named /\ p \in named /\ var[o] = RelOf(o).var /\ var[p] = RelOf(p).var
  OBVIOUS
<1> HIDE DEF named, anonymous, var
<1>8. /\ Cardinality(RelOccs) = Cardinality(named) + Cardinality(anonymous)
      /\ Cardinality(named) \in Nat /\ Cardinality(anonymous) \in Nat
  <2>1. /\ Cardinality(named \cup anonymous) = Cardinality(named) + Cardinality(anonymous)
                                                 - Cardinality(named \cap anonymous)
        /\ Cardinality(named) \in Nat /\ Cardinality(anonymous) \in Nat
    BY <1>4, FS_Union, FS_CardinalityType, Zenon
  <2>2. Cardinality(named \cap anonymous) = 0
    BY <1>6, FS_EmptySet, Zenon
  <2>3. Cardinality(RelOccs) = Cardinality(named \cup anonymous)
    BY <1>6, Zenon
  <2>4. \A a, b \in Nat : a + b - 0 = a + b
    OBVIOUS
  <2> QED  BY <2>1, <2>2, <2>3, <2>4, Zenon
<1>9. IsFiniteSet(RelVars)
  BY <1>4, <1>5, FS_Surjection
<1>10. Cardinality(RelVars) = Cardinality(named)
  <2>1. Cardinality(RelVars) \in Nat
    BY <1>9, FS_CardinalityType
  <2> QED  BY <1>1, <1>8, <2>1
<1>11. var \in Injection(named, RelVars)
  BY <1>4, <1>5, <1>10, FS_Surjection
<1>12. IsInjective(var) /\ DOMAIN var = named
  BY <1>11 DEF Injection
<1> QED  BY <1>7, <1>12 DEF IsInjective

\* There are as many records as relationships, and no more slots than nodes.
LEMMA EdgesCounted ==
  ASSUME TypeOK, NEW occ \in [DOMAIN edges -> RelOccs], IsInjective(occ),
         \A o \in RelOccs : \E e \in DOMAIN edges : occ[e] = o
  PROVE  Cardinality(RelOccs) = Len(edges)
<1>1. Len(edges) \in Nat /\ DOMAIN edges = 1 .. Len(edges)
  BY LenProperties DEF TypeOK
<1>2. IsFiniteSet(1 .. Len(edges)) /\ Cardinality(1 .. Len(edges)) = Len(edges)
  BY <1>1, Counting
<1>3. occ \in Surjection(1 .. Len(edges), RelOccs)
  BY <1>1 DEF Surjection
<1>4. occ \in Injection(1 .. Len(edges), RelOccs)
  BY <1>1 DEF Injection
<1> QED  BY <1>2, <1>3, <1>4, FS_Surjection

\* There are no more slots than occurrences of nodes.
LEMMA SlotsCounted ==
  ASSUME TypeOK, SlotsFound
  PROVE  Len(slots) <= Cardinality(NodeOccs)
<1> DEFINE at == [i \in DOMAIN slots |-> slots[i].np]
<1>1. Len(slots) \in Nat /\ DOMAIN slots = 1 .. Len(slots)
  BY LenProperties DEF TypeOK
<1>2. IsFiniteSet(1 .. Len(slots)) /\ Cardinality(1 .. Len(slots)) = Len(slots)
  BY <1>1, Counting
<1>3. at \in [DOMAIN slots -> NodeOccs] /\ IsInjective(at)
  BY DEF SlotsFound, IsInjective
<1>4. at \in Injection(1 .. Len(slots), NodeOccs)
  <2> HIDE DEF at
  <2> QED  BY <1>1, <1>3 DEF Injection
<1>5. IsFiniteSet(NodeOccs)
  BY OccsFinite DEF TypeOK
<1> HIDE DEF at
<1> QED  BY <1>2, <1>4, <1>5, FS_Injection

\* What the relationships of the finished statement are called: by a variable of
\* the query, or by an alias that is no variable's.
EdgeVar(e) == edges[e].var # NULL /\ EdgeAlias(e) = edges[e].var /\ edges[e].var \in RelVars
EdgeGen(e) ==
  /\ edges[e].var = NULL /\ EdgeAlias(e) \in {SoleEdge} \cup Range(GenEdge)
  /\ Lower(EdgeAlias(e)) = EdgeAlias(e) /\ EdgeAlias(e) \notin Keywords
  /\ \A v \in NodeVars \cup RelVars : Lower(v) # EdgeAlias(e)
  /\ Len(edges) = 1 \/ (EdgeAlias(e) = GenEdge[e] /\ e \in DOMAIN GenEdge)
SlotVar(i) == slots[i].var # NULL /\ SlotAlias(i) = slots[i].var /\ slots[i].var \in NodeVars
SlotGen(i) ==
  /\ slots[i].var = NULL /\ SlotAlias(i) \in Range(GenNode)
  /\ Lower(SlotAlias(i)) = SlotAlias(i) /\ SlotAlias(i) \notin Keywords
  /\ \A v \in NodeVars \cup RelVars : Lower(v) # SlotAlias(i)
  /\ SlotAlias(i) = GenNode[i] /\ i \in DOMAIN GenNode

\* The records of the relationships and the relationships, one for one.
LEMMA AllFound ==
  ASSUME DInv, pc = "done"
  PROVE  \E occ \in [DOMAIN edges -> RelOccs] :
           /\ IsInjective(occ) /\ Cardinality(RelOccs) = Len(edges)
           /\ \A e \in DOMAIN edges : EdgeOf(e, occ[e]) /\ edges[e].var = RelOf(occ[e]).var
           /\ \A o \in RelOccs : \E e \in DOMAIN edges : occ[e] = o
<1>1. TypeOK /\ EdgesFound
  BY DEF DInv, Found, LInv, TInv
<1>2. \A o : Seen(o)
  BY DEF Seen
<1>3. PICK occ \in [DOMAIN edges -> RelOccs] :
      /\ IsInjective(occ)
      /\ \A e \in DOMAIN edges : Seen(occ[e]) /\ EdgeOf(e, occ[e])
      /\ \A o \in RelOccs : Seen(o) => \E e \in DOMAIN edges : occ[e] = o
  BY <1>1 DEF EdgesFound
<1>4. \A o \in RelOccs : \E e \in DOMAIN edges : occ[e] = o
  BY <1>2, <1>3
<1>5. Cardinality(RelOccs) = Len(edges)
  BY <1>1, <1>3, <1>4, EdgesCounted
<1> QED  BY <1>3, <1>4, <1>5 DEF EdgeOf

\* Facts of the assumption on the generated aliases.
LEMMA Generated ==
  /\ Len(GenEdge) \in Nat /\ DOMAIN GenEdge = 1 .. Len(GenEdge) /\ IsInjective(GenEdge)
  /\ Len(GenNode) \in Nat /\ DOMAIN GenNode = 1 .. Len(GenNode) /\ IsInjective(GenNode)
  /\ Range(GenNode) \cap ({SoleEdge} \cup Range(GenEdge)) = {}
  /\ \A name \in {SoleEdge} \cup Range(GenEdge) \cup Range(GenNode) :
       Lower(name) = name /\ name \notin Keywords
  /\ \A q \in Queries : /\ Cardinality(RelOccsIn(q)) <= Len(GenEdge)
                        /\ Cardinality(NodeOccsIn(q)) <= Len(GenNode)
BY AliasAssumption, LenProperties

\* A relationship is called by its variable or by an alias of no variable.
LEMMA EdgeAliasIs ==
  ASSUME DInv, pc = "done", WellNamed, NEW e \in DOMAIN edges
  PROVE  EdgeVar(e) \/ EdgeGen(e)
<1>1. /\ query \in Queries /\ Len(edges) \in Nat /\ DOMAIN edges = 1 .. Len(edges)
  BY LenProperties DEF DInv, LInv, TInv, TypeOK
<1>2. PICK occ \in [DOMAIN edges -> RelOccs] :
           /\ IsInjective(occ) /\ Cardinality(RelOccs) = Len(edges)
           /\ \A f \in DOMAIN edges : edges[f].var = RelOf(occ[f]).var
  BY AllFound
<1>3. CASE edges[e].var # NULL
  <2>1. edges[e].var \in RelVars
    BY <1>2, <1>3 DEF RelVars
  <2> QED  BY <1>3, <2>1 DEF EdgeVar, EdgeAlias
<1>4. CASE edges[e].var = NULL
  <2> DEFINE a == EdgeAlias(e)
             names == NodeVars \cup RelVars
             anonymous == {o \in RelOccs : RelOf(o).var = NULL}
             mine == IF Cardinality(RelOccs) = 1 THEN {SoleEdge} ELSE Range(GenEdge)
  <2>1. Len(edges) <= Len(GenEdge)
    BY <1>1, <1>2, Generated DEF RelOccs
  <2>2. e \in DOMAIN GenEdge
    BY <1>1, <2>1, Generated
  <2>3. a = IF Len(edges) = 1 THEN SoleEdge ELSE GenEdge[e]
    BY <1>4 DEF EdgeAlias
  <2>4. a \in mine
    BY <1>2, <2>2, <2>3 DEF Range
  <2>5. anonymous # {}
    BY <1>2, <1>4
  <2>6. \A v \in names : Lower(v) \notin mine
    <3>1. {Lower(v) : v \in names}
            \cap ((IF anonymous = {} THEN {}
                  ELSE IF Cardinality(RelOccs) = 1 THEN {SoleEdge}
                  ELSE Range(GenEdge)) \cup Range(GenNode)) = {}
      BY DEF WellNamed
    <3> HIDE DEF anonymous, names
    <3> QED  BY <2>5, <3>1
  <2>7. a \in {SoleEdge} \cup Range(GenEdge)
    BY <2>4
  <2>8. Lower(a) = a /\ a \notin Keywords
    BY <2>7, Generated
  <2>9. \A v \in names : Lower(v) # a
    BY <2>4, <2>6
  <2> QED  BY <1>4, <2>2, <2>3, <2>7, <2>8, <2>9 DEF EdgeGen
<1> QED  BY <1>3, <1>4

\* So is a node.
LEMMA SlotAliasIs ==
  ASSUME DInv, pc = "done", WellNamed, NEW i \in DOMAIN slots
  PROVE  SlotVar(i) \/ SlotGen(i)
<1>1. /\ query \in Queries /\ Len(slots) \in Nat /\ DOMAIN slots = 1 .. Len(slots)
      /\ TypeOK /\ SlotsFound
  BY LenProperties DEF DInv, Found, LInv, TInv, TypeOK
<1>2. CASE slots[i].var # NULL
  <2>1. slots[i].var \in NodeVars
    BY <1>1, <1>2 DEF SlotsFound, NodeVars
  <2> QED  BY <1>2, <2>1 DEF SlotVar, SlotAlias
<1>3. CASE slots[i].var = NULL
  <2>1. Len(slots) <= Cardinality(NodeOccs) /\ Cardinality(NodeOccs) \in Nat
    BY <1>1, SlotsCounted, OccsFinite, FS_CardinalityType DEF TypeOK
  <2>2. Cardinality(NodeOccs) <= Len(GenNode)
    BY <1>1, Generated DEF NodeOccs
  <2>3. i \in DOMAIN GenNode
    BY <1>1, <2>1, <2>2, Generated
  <2>4. SlotAlias(i) = GenNode[i]
    BY <1>3 DEF SlotAlias
  <2>5. SlotAlias(i) \in Range(GenNode)
    BY <2>3, <2>4 DEF Range
  <2>6. \A v \in NodeVars \cup RelVars : Lower(v) \notin Range(GenNode)
    BY DEF WellNamed
  <2>7. Lower(SlotAlias(i)) = SlotAlias(i) /\ SlotAlias(i) \notin Keywords
    BY <2>5, Generated
  <2> QED  BY <1>3, <2>3, <2>4, <2>5, <2>6, <2>7 DEF SlotGen
<1> QED  BY <1>2, <1>3

\* Names of two items are not told apart only if the items are one.
LEMMA EdgesApart ==
  ASSUME DInv, pc = "done", WellNamed, NEW e \in DOMAIN edges, NEW f \in DOMAIN edges,
         Lower(EdgeAlias(e)) = Lower(EdgeAlias(f))
  PROVE  e = f
<1>1. /\ Len(edges) \in Nat /\ DOMAIN edges = 1 .. Len(edges) /\ query \in QueryType
  BY LenProperties DEF DInv, LInv, TInv, TypeOK
<1>2. PICK occ \in [DOMAIN edges -> RelOccs] :
           /\ IsInjective(occ) /\ Cardinality(RelOccs) = Len(edges)
           /\ \A d \in DOMAIN edges : edges[d].var = RelOf(occ[d]).var
  BY AllFound
<1>3. (EdgeVar(e) \/ EdgeGen(e)) /\ (EdgeVar(f) \/ EdgeGen(f))
  BY EdgeAliasIs
<1>4. CASE EdgeVar(e) /\ EdgeVar(f)
  <2>1. edges[e].var = edges[f].var
    BY <1>4 DEF EdgeVar, WellNamed
  <2>2. occ[e] \in RelOccs /\ occ[f] \in RelOccs
    BY <1>2
  <2>3. occ[e] = occ[f]
    BY <1>1, <1>2, <1>4, <2>1, <2>2, NamedOnce DEF EdgeVar
  <2> QED  BY <1>2, <2>3 DEF IsInjective
<1>5. CASE (EdgeVar(e) /\ EdgeGen(f)) \/ (EdgeGen(e) /\ EdgeVar(f))
  BY <1>5 DEF EdgeVar, EdgeGen
<1>6. CASE EdgeGen(e) /\ EdgeGen(f)
  <2>1. EdgeAlias(e) = EdgeAlias(f)
    BY <1>6 DEF EdgeGen
  <2>2. CASE Len(edges) = 1
    BY <1>1, <2>2
  <2>3. CASE Len(edges) # 1
    BY <1>6, <2>1, <2>3, Generated DEF EdgeGen, IsInjective
  <2> QED  BY <2>2, <2>3
<1> QED  BY <1>3, <1>4, <1>5, <1>6

\* The same of the nodes that are in the FROM.
LEMMA SlotsApart ==
  ASSUME DInv, pc = "done", WellNamed, NEW i \in DOMAIN slots, NEW j \in DOMAIN slots,
         slots[i].lone \/ slots[i].referenced, slots[j].lone \/ slots[j].referenced,
         Lower(SlotAlias(i)) = Lower(SlotAlias(j))
  PROVE  i = j
<1>1. (SlotVar(i) \/ SlotGen(i)) /\ (SlotVar(j) \/ SlotGen(j))
  BY SlotAliasIs
<1>2. CASE SlotVar(i) /\ SlotVar(j)
  <2>1. slots[i].var = slots[j].var /\ slots[i].var # NULL
    BY <1>2 DEF SlotVar, WellNamed
  <2>2. CASE Engine = "directed"
    <3>1. UniqueIn(slots)
      BY <2>2 DEF DInv, LInv, TInv, IInv
    <3> QED  BY <2>1, <3>1 DEF UniqueIn
  <2>3. CASE Engine # "directed"
    <3>1. HopShape /\ MarkInv
      BY DEF DInv, Emitting, EInv
    <3>2. slots[i].lone = FALSE /\ slots[j].lone = FALSE
      BY <2>3, <3>1 DEF HopShape
    <3>3. /\ BindOf(slots[i].var).of = <<"slot", i>>
          /\ BindOf(slots[j].var).of = <<"slot", j>>
      BY <3>1, <3>2 DEF MarkInv
    <3>4. <<"slot", i>> = <<"slot", j>>
      BY <2>1, <3>3
    <3> QED  BY <3>4
  <2> QED  BY <2>2, <2>3
<1>3. CASE (SlotVar(i) /\ SlotGen(j)) \/ (SlotGen(i) /\ SlotVar(j))
  BY <1>3 DEF SlotVar, SlotGen
<1>4. CASE SlotGen(i) /\ SlotGen(j)
  BY <1>4, Generated DEF SlotGen, IsInjective
<1> QED  BY <1>1, <1>2, <1>3, <1>4

\* The same of a relationship and a node.
LEMMA EdgeNotSlot ==
  ASSUME DInv, pc = "done", WellNamed, NEW e \in DOMAIN edges, NEW i \in DOMAIN slots
  PROVE  Lower(EdgeAlias(e)) # Lower(SlotAlias(i))
<1>1. (EdgeVar(e) \/ EdgeGen(e)) /\ (SlotVar(i) \/ SlotGen(i))
  BY EdgeAliasIs, SlotAliasIs
<1>2. CASE EdgeVar(e) /\ SlotVar(i)
  <2>1. edges[e].var # slots[i].var
    BY <1>2 DEF EdgeVar, SlotVar, WellNamed
  <2> QED  BY <1>2, <2>1 DEF EdgeVar, SlotVar, WellNamed
<1>3. CASE (EdgeVar(e) /\ SlotGen(i)) \/ (EdgeGen(e) /\ SlotVar(i))
  BY <1>3 DEF EdgeVar, EdgeGen, SlotVar, SlotGen
<1>4. CASE EdgeGen(e) /\ SlotGen(i)
  BY <1>4, Generated DEF EdgeGen, SlotGen
<1> QED  BY <1>1, <1>2, <1>3, <1>4

\* No name of an item is a keyword.
LEMMA NoKeyword ==
  ASSUME DInv, pc = "done", WellNamed
  PROVE  /\ \A e \in DOMAIN edges : EdgeAlias(e) \notin Keywords
         /\ \A i \in DOMAIN slots : SlotAlias(i) \notin Keywords
<1>1. \A v \in NodeVars \cup RelVars : v \notin Keywords
  BY DEF WellNamed
<1>2. \A e \in DOMAIN edges : EdgeAlias(e) \notin Keywords
  BY <1>1, EdgeAliasIs DEF EdgeVar, EdgeGen
<1>3. \A i \in DOMAIN slots : SlotAlias(i) \notin Keywords
  BY <1>1, SlotAliasIs DEF SlotVar, SlotGen
<1> QED  BY <1>2, <1>3

-----------------------------------------------------------------------------
(* What the references denote *)

\* What a reference may be to is in the FROM, under the name it uses and with the
\* column it reads.
Called(ref, j) ==
  /\ j \in DOMAIN sql.from /\ sql.from[j].of = ref.of
  /\ sql.from[j].alias = ref.alias /\ ref.alias \notin Keywords
  /\ ref.col \in TableColumns(sql.from[j].table)
  /\ ItemOK(sql.from[j])

\* A relationship that is read.
LEMMA HopNamed ==
  ASSUME DInv, pc = "done", WellNamed, NEW ref, NEW e \in DOMAIN edges, HopRef(ref, e)
  PROVE  \E j : Called(ref, j)
<1>1. /\ EInv /\ ItemsInv /\ FromInv /\ Len(edges) \in Nat /\ DOMAIN edges = 1 .. Len(edges)
  BY LenProperties DEF DInv, Emitting, LInv, TInv, TypeOK
<1>2. EdgesFirst(Len(edges))
  BY <1>1 DEF FromInv, Late
<1>3. e \in DOMAIN sql.from /\ sql.from[e].of = <<"edge", e>>
  <2>1. Len(sql.from) \in Nat /\ DOMAIN sql.from = 1 .. Len(sql.from)
    BY <1>1, LenProperties DEF FromInv
  <2> QED  BY <1>1, <1>2, <2>1 DEF EdgesFirst
<1>4. ItemOK(sql.from[e])
  BY <1>1, <1>3 DEF ItemsInv
<1>5. sql.from[e].alias = EdgeAlias(e) /\ sql.from[e].table = HopTable
  <2>1. \A i : <<"slot", i>> # <<"edge", e>>
    OBVIOUS
  <2>2. \A f : <<"edge", f>> = <<"edge", e>> => f = e
    OBVIOUS
  <2>3. PICK f \in DOMAIN edges : EdgeItem(sql.from[e], f)
    BY <1>3, <1>4, <2>1 DEF ItemOK, NodeItem
  <2> QED  BY <1>3, <2>2, <2>3 DEF EdgeItem
<1>6. TableColumns(HopTable) = HopColumns
  <2>1. CASE Engine = "varlen"
    <3>1. sql.with # <<>> /\ sql.with[1].name = WalkTable
      BY <1>1, <2>1 DEF EInv, WithInv, Late
    <3> QED  BY <2>1, <3>1 DEF TableColumns, IsWalk, HopTable, HopColumns
  <2>2. CASE Engine # "varlen"
    <3>1. ~IsWalk(EdgeTable)
      BY <1>1, <2>2, SchemaAssumption DEF WellNamed
    <3> QED  BY <2>2, <3>1 DEF TableColumns, HopTable, HopColumns
  <2> QED  BY <2>1, <2>2
<1>7. EdgeAlias(e) \notin Keywords
  BY NoKeyword
<1>8. Called(ref, e)
  BY <1>3, <1>4, <1>5, <1>6, <1>7 DEF Called, HopRef
<1> QED  BY <1>8

\* A node that is read.
LEMMA NodeNamed ==
  ASSUME DInv, pc = "done", WellNamed, NEW ref, NEW i \in DOMAIN slots, NodeRef(ref, i)
  PROVE  \E j : Called(ref, j)
<1>1. EInv /\ ItemsInv
  BY DEF DInv, Emitting
<1>2. /\ slots[i].var # NULL /\ slots[i].label \in DOMAIN Catalog
      /\ slots[i].label # EdgeTable /\ ~IsWalk(slots[i].label)
  BY <1>1 DEF EInv, MarkInv, NodeRef, WellNamed
<1>3. PICK j \in DOMAIN sql.from : sql.from[j].of = <<"slot", i>>
  <2>1. Due(i)
    BY DEF Due, NodeRef
  <2> QED  BY <1>1, <2>1 DEF ItemsInv, Has
<1>4. ItemOK(sql.from[j])
  BY <1>1 DEF ItemsInv
<1>5. sql.from[j].alias = SlotAlias(i) /\ sql.from[j].table = slots[i].label
  <2>1. \A e : <<"edge", e>> # <<"slot", i>>
    OBVIOUS
  <2>2. \A h : <<"slot", h>> = <<"slot", i>> => h = i
    OBVIOUS
  <2>3. PICK h \in DOMAIN slots : NodeItem(sql.from[j], h)
    BY <1>3, <1>4, <2>1 DEF ItemOK, EdgeItem
  <2> QED  BY <1>3, <2>2, <2>3 DEF NodeItem
<1>6. SlotAlias(i) = slots[i].var /\ SlotAlias(i) \notin Keywords
  BY <1>2, NoKeyword DEF SlotAlias
<1>7. ref.col \in TableColumns(slots[i].label)
  BY <1>2 DEF NodeRef, TableColumns
<1>8. Called(ref, j)
  BY <1>3, <1>4, <1>5, <1>6, <1>7 DEF Called, NodeRef
<1> QED  BY <1>8

\* No two items have one name.
LEMMA ItemsApart ==
  ASSUME DInv, pc = "done", WellNamed,
         NEW i \in DOMAIN sql.from, NEW j \in DOMAIN sql.from,
         Lower(sql.from[i].alias) = Lower(sql.from[j].alias)
  PROVE  i = j
<1>1. /\ ItemOK(sql.from[i]) /\ ItemOK(sql.from[j])
      /\ sql.from[i].of = sql.from[j].of => i = j
  BY DEF DInv, Emitting, ItemsInv
<1>2. CASE \E e, f \in DOMAIN edges : EdgeItem(sql.from[i], e) /\ EdgeItem(sql.from[j], f)
  BY <1>1, <1>2, EdgesApart DEF EdgeItem
<1>3. CASE \E e, f \in DOMAIN slots : NodeItem(sql.from[i], e) /\ NodeItem(sql.from[j], f)
  BY <1>1, <1>3, SlotsApart DEF NodeItem
<1>4. CASE \E e \in DOMAIN edges, f \in DOMAIN slots :
             \/ EdgeItem(sql.from[i], e) /\ NodeItem(sql.from[j], f)
             \/ NodeItem(sql.from[i], f) /\ EdgeItem(sql.from[j], e)
  BY <1>4, EdgeNotSlot DEF EdgeItem, NodeItem
<1> QED  BY <1>1, <1>2, <1>3, <1>4 DEF ItemOK

\* A reference that may be made reads one item, the one it was resolved to.
LEMMA RefDenotes ==
  ASSUME DInv, pc = "done", WellNamed, NEW ref, RefOK(ref)
  PROVE  \E j \in DOMAIN sql.from : Denoted(ref) = {j} /\ sql.from[j].of = ref.of
<1>1. PICK j : Called(ref, j)
  BY HopNamed, NodeNamed DEF RefOK
<1>2. j \in Denoted(ref)
  BY <1>1 DEF Called, Denoted
<1>3. ASSUME NEW i \in Denoted(ref)
      PROVE  i = j
  <2>1. i \in DOMAIN sql.from /\ Lower(sql.from[i].alias) = Lower(sql.from[j].alias)
    BY <1>1, <1>3 DEF Denoted, Called
  <2> QED  BY <1>1, <2>1, ItemsApart DEF Called
<1>4. Denoted(ref) = {j}
  BY <1>2, <1>3
<1> QED  BY <1>1, <1>4 DEF Called

\* Whatever the finished statement reads may be read.
LEMMA ReadsAreOK ==
  ASSUME ReadInv, NEW ref \in AllReads
  PROVE  RefOK(ref)
<1> DEFINE inClauses == UNION {c.reads : c \in Range(sql.select) \cup Range(sql.where)
                            \cup Range(sql.order) \cup Range(sql.group)
                            \cup Range(sql.pred)}
           inJoins == UNION {{c[1], c[2]} : c \in UNION {Range(sql.from[j].on) :
                                               j \in DOMAIN sql.from}}
<1>1. CASE ref \in inClauses
  <2>1. PICK c \in Range(sql.select) \cup Range(sql.where) \cup Range(sql.order)
                     \cup Range(sql.group) \cup Range(sql.pred) : ref \in c.reads
    BY <1>1
  <2>2. \A f \in Clauses \cup {"pred"} : \A d \in Range(sql[f]) : Sound(d)
    BY DEF ReadInv
  <2>3. /\ "select" \in Clauses /\ "where" \in Clauses /\ "order" \in Clauses
        /\ "group" \in Clauses
    BY DEF Clauses
  <2>4. Sound(c)
    BY <2>1, <2>2, <2>3
  <2> QED  BY <2>1, <2>4 DEF Sound
<1>2. CASE ref \in inJoins
  <2>1. PICK j \in DOMAIN sql.from :
           \E c \in Range(sql.from[j].on) : ref \in {c[1], c[2]}
    BY <1>2
  <2>2. PICK c \in Range(sql.from[j].on) : ref \in {c[1], c[2]}
    BY <2>1
  <2>3. SoundOn(sql.from[j].on)
    BY DEF ReadInv
  <2>4. RefOK(c[1]) /\ RefOK(c[2])
    BY <2>2, <2>3 DEF SoundOn
  <2> QED  BY <2>2, <2>4
<1>3. ref \in inClauses \cup inJoins
  BY DEF AllReads
<1> QED  BY <1>1, <1>2, <1>3

\* A name that is sorted by is the name of one column.
LEMMA SortDenotes ==
  ASSUME DInv, pc = "done", WellNamed,
         NEW c \in Range(sql.order), c.kind = "alias"
  PROVE  query.items[OutputNamed(c.name)].alias = c.name
<1> DEFINE hits == {j \in DOMAIN sql.select :
                      /\ sql.select[j].as # NULL
                      /\ Lower(sql.select[j].as) = Lower(c.name)}
<1>1. AnswerInv /\ EInv /\ query \in QueryType
  BY DEF DInv, Emitting, LInv, TInv, TypeOK
<1>2. /\ Len(query.items) \in Nat /\ DOMAIN query.items = 1 .. Len(query.items)
      /\ DOMAIN sql.select = 1 .. Len(query.items)
  <2>1. query.items \in Seq(Items)
    BY <1>1 DEF QueryType
  <2>2. \E S : sql.select \in Seq(S)
    BY <1>1 DEF EInv, Clean, Written, Clauses
  <2>3. Len(sql.select) = Len(query.items)
    BY <1>1 DEF AnswerInv
  <2> QED  BY <2>1, <2>2, <2>3, LenProperties
<1>3. c.name # NULL /\ HasAlias(c.name)
  BY <1>1 DEF AnswerInv
<1>4. PICK j \in DOMAIN query.items : query.items[j].alias = c.name
  BY <1>3 DEF HasAlias
<1>5. j \in DOMAIN sql.select /\ sql.select[j].as = c.name
  BY <1>1, <1>2, <1>3, <1>4 DEF AnswerInv
<1>6. j \in hits
  BY <1>3, <1>5
<1>7. \A i \in hits : i = j
  BY <1>3, <1>5 DEF WellNamed
<1>8. OutputNamed(c.name) = j
  <2>1. hits = {j} /\ j \in Nat
    BY <1>2, <1>6, <1>7
  <2>2. OutputNamed(c.name) = CHOOSE x \in hits : \A i \in hits : x <= i
    BY DEF OutputNamed
  <2> HIDE DEF hits
  <2> QED  BY <2>1, <2>2
<1> QED  BY <1>4, <1>8

\* The invariant says that the references of a finished statement denote.
LEMMA DInvDenotes == DInv => NamedReadsDenote
<1> SUFFICES ASSUME DInv, WellNamed, pc = "done" PROVE ReadsDenote
  BY DEF NamedReadsDenote, ReadsDenote
<1>1. ReadInv
  BY DEF DInv, Emitting, EInv
<1>2. \A ref \in AllReads :
        \E j \in DOMAIN sql.from : Denoted(ref) = {j} /\ sql.from[j].of = ref.of
  BY <1>1, ReadsAreOK, RefDenotes
<1>3. \A c \in Range(sql.order) :
        c.kind = "alias" => query.items[OutputNamed(c.name)].alias = c.name
  BY SortDenotes
<1> QED  BY <1>2, <1>3 DEF ReadsDenote

\* transform.c:178-181, 261-262, 422-424: for every catalog, name map and query
\* whose names mean one thing, whatever the engine, a reference of the finished
\* statement reads the one item of its FROM that it was resolved to, and an alias
\* in ORDER BY is the column of that alias.
THEOREM ReferencesDenote == Spec => []NamedReadsDenote
<1>1. Spec => []DInv
  BY Denoting
<1>2. DInv => NamedReadsDenote
  BY DInvDenotes
<1> QED  BY <1>1, <1>2, PTL
=============================================================================
