----------------------------- MODULE WalkProofs -----------------------------
(***************************************************************************)
(* Proofs about Walk, for every edge table, every pattern and every order  *)
(* in which the database extends rows: every row is a trail, no trail is   *)
(* produced twice, and when the queue is empty no trail has been missed.   *)
(***************************************************************************)
EXTENDS Walk, SequenceTheorems, FiniteSetTheorems, TLAPS

-----------------------------------------------------------------------------
(* Rows *)

\* A base row is a true row.
LEMMA BaseRowTruth ==
  ASSUME TypeOK, NEW e \in Edges, HasType(graph, hop, e)
  PROVE  BaseRow(e) \in Rows /\ RowTruth(BaseRow(e))
<1>1. graph.src[e] \in Nodes /\ graph.tgt[e] \in Nodes
  BY DEF TypeOK, Graphs
<1>2. <<e>> \in Seq(Edges) /\ Len(<<e>>) = 1 /\ <<e>>[1] = e
  OBVIOUS
<1>3. BaseRow(e) \in Rows
  BY <1>1, <1>2 DEF BaseRow, Rows
<1>4. hop.max # NULL => 1 <= hop.max
  BY DEF TypeOK, Hops
<1>5. IsTrail(graph, hop, <<e>>)
  BY <1>2, <1>4 DEF IsTrail
<1>6. QED
  BY <1>2, <1>3, <1>5 DEF RowTruth, BaseRow

\* What an extended row is made of.
LEMMA ExtendedPath ==
  ASSUME NEW w \in Rows, NEW e \in Edges
  PROVE  LET x == ExtendedRow(w, e) IN
         /\ x.path \in Seq(Edges)
         /\ Len(x.path) = Len(w.path) + 1
         /\ \A i \in 1 .. Len(w.path) : x.path[i] = w.path[i]
         /\ x.path[Len(w.path) + 1] = e
         /\ x.depth = w.depth + 1 /\ x.source = w.source
         /\ x.target = graph.tgt[e]
<1>1. w.path \in Seq(Edges)
  BY DEF Rows
<1>2. QED
  BY <1>1, AppendProperties DEF ExtendedRow

\* The join condition is equality of nodes.
LEMMA MeetsIsEquality ==
  ASSUME TypeOK, NEW w \in Rows, NEW e \in Edges
  PROVE  Meets(w, e) <=> graph.src[e] = w.target
<1>1. graph.src[e] \in Nodes /\ w.target \in Nodes
  BY DEF TypeOK, Graphs, Rows
<1>2. QED
  BY <1>1 DEF Meets, Nodes

\* Extending a true row by an edge the recursive member accepts gives a true
\* row.
LEMMA ExtendedRowTruth ==
  ASSUME TypeOK, NEW w \in Rows, RowTruth(w), NEW e \in Edges, CanExtend(w, e)
  PROVE  ExtendedRow(w, e) \in Rows /\ RowTruth(ExtendedRow(w, e))
<1> DEFINE x == ExtendedRow(w, e)
           n == Len(w.path)
<1>1. w.path \in Seq(Edges) /\ n \in Nat /\ n >= 1
  BY LenProperties DEF Rows, RowTruth, IsTrail
<1>2. /\ x.path \in Seq(Edges) /\ Len(x.path) = n + 1
      /\ \A i \in 1 .. n : x.path[i] = w.path[i]
      /\ x.path[n + 1] = e
      /\ x.depth = w.depth + 1 /\ x.source = w.source
      /\ x.target = graph.tgt[e]
  BY ExtendedPath
<1>3. x \in Rows
  <2>1. w.source \in Nodes /\ graph.tgt[e] \in Nodes /\ w.depth \in Nat
    BY DEF TypeOK, Graphs, Rows
  <2>2. QED
    BY <1>2, <2>1 DEF ExtendedRow, Rows
<1>4. graph.tgt[w.path[n]] = graph.src[e]
  BY MeetsIsEquality DEF CanExtend, RowTruth
<1> HIDE DEF x
<1>5. IsTrail(graph, hop, x.path)
  <2>1. \A i \in 1 .. n + 1 : HasType(graph, hop, x.path[i])
    BY <1>1, <1>2 DEF CanExtend, RowTruth, IsTrail
  <2>2. \A i \in 1 .. n : graph.tgt[x.path[i]] = graph.src[x.path[i + 1]]
    <3>1. ASSUME NEW i \in 1 .. n
          PROVE  graph.tgt[x.path[i]] = graph.src[x.path[i + 1]]
      <4>1. CASE i = n
        BY <1>1, <1>2, <1>4, <4>1
      <4>2. CASE i # n
        <5>1. i \in 1 .. n - 1 /\ i + 1 \in 1 .. n
          BY <1>1, <4>2
        <5>2. graph.tgt[w.path[i]] = graph.src[w.path[i + 1]]
          BY <5>1 DEF RowTruth, IsTrail
        <5>3. QED
          BY <1>2, <5>1, <5>2
      <4>3. QED
        BY <4>1, <4>2
    <3>2. QED
      BY <3>1
  <2>3. \A i, j \in 1 .. n + 1 : x.path[i] = x.path[j] => i = j
    <3>1. \A i \in 1 .. n : x.path[i] # e
      BY <1>2 DEF CanExtend, Unused
    <3>2. \A i, j \in 1 .. n : x.path[i] = x.path[j] => i = j
      BY <1>2 DEF RowTruth, IsTrail
    <3>3. \A i \in 1 .. n + 1 : i \in 1 .. n \/ i = n + 1
      BY <1>1
    <3>4. QED
      BY <1>2, <3>1, <3>2, <3>3
  <2>4. hop.max # NULL => n + 1 <= hop.max
    <3>1. hop.max # NULL => hop.max \in Nat
      BY DEF TypeOK, Hops
    <3>2. QED
      BY <1>1, <3>1 DEF CanExtend, MayGrow, RowTruth
  <2>5. QED
    BY <1>1, <1>2, <2>1, <2>2, <2>3, <2>4 DEF IsTrail
<1>6. x.depth = Len(x.path) /\ x.source = graph.src[x.path[1]]
      /\ x.target = graph.tgt[x.path[Len(x.path)]]
  BY <1>1, <1>2 DEF RowTruth
<1>7. QED
  BY <1>3, <1>5, <1>6 DEF RowTruth, x

-----------------------------------------------------------------------------
(* Types and the truth of every row *)

\* Before the base member the table is empty; the answer exists at the end.
PcInv ==
  /\ pc = "base" => queue = {} /\ result = {}
  /\ pc # "done" => answer = {}
  /\ pc = "done" => queue = {} /\ answer = {w \in result : Selected(w)}

SoundInv == TypeOK /\ PcInv /\ TrailInv

\* SoundInv holds before the base SELECT runs,
LEMMA SoundInit == Init => SoundInv
BY WalkAssumption DEF Init, SoundInv, TypeOK, PcInv, TrailInv

\* and every step of the CTE keeps it.
LEMMA SoundStep == SoundInv /\ [Next]_vars => SoundInv'
<1> SUFFICES ASSUME SoundInv, [Next]_vars PROVE SoundInv'
  OBVIOUS
<1> USE DEF SoundInv
<1>1. CASE Base
  <2>1. queue' \subseteq Rows /\ \A w \in queue' : RowTruth(w)
    BY <1>1, BaseRowTruth DEF Base
  <2>2. QED
    BY <1>1, <2>1 DEF Base, TypeOK, PcInv, TrailInv, RowTruth
<1>2. ASSUME NEW w \in queue, Extend(w) PROVE SoundInv'
  <2>1. w \in Rows /\ RowTruth(w)
    BY DEF TypeOK, TrailInv
  <2>2. \A x \in Extensions(w) : x \in Rows /\ RowTruth(x)
    BY <2>1, ExtendedRowTruth DEF Extensions
  <2>3. queue' \subseteq Rows /\ result' \subseteq Rows
    BY <1>2, <2>1, <2>2 DEF Extend, TypeOK
  <2>4. \A x \in queue' \cup result' : RowTruth(x)
    BY <1>2, <2>1, <2>2 DEF Extend, TrailInv
  <2>5. QED
    BY <1>2, <2>3, <2>4 DEF Extend, TypeOK, PcInv, TrailInv, RowTruth
<1>3. CASE Select
  BY <1>3 DEF Select, TypeOK, PcInv, TrailInv, RowTruth, Selected
<1>4. CASE UNCHANGED vars
  BY <1>4 DEF vars, TypeOK, PcInv, TrailInv, RowTruth, Selected
<1>5. QED
  BY <1>1, <1>2, <1>3, <1>4 DEF Next

\* Every row of the recursive CTE, queued or kept, is a trail of the graph, and
\* the answer holds those of the kept rows the outer SELECT lets through.
THEOREM WalkSound == Spec => []SoundInv
BY SoundInit, SoundStep, PTL DEF Spec

\* Types hold in every reachable state.
THEOREM WalkTypeCorrect == Spec => []TypeOK
BY WalkSound, PTL DEF SoundInv

\* For every graph: each row of walk is a trail of the pattern's type within
\* its bounds, and depth, source and target describe it.
THEOREM WalkRowsAreTrails == Spec => []TrailInv
BY WalkSound, PTL DEF SoundInv

-----------------------------------------------------------------------------
(* No path is produced twice *)

\* A row with more than one edge comes from an extracted row.
ParentInv ==
  \A r \in queue \cup result : Len(r.path) > 1 =>
    \E v \in result : v.path = SubSeq(r.path, 1, Len(r.path) - 1)

OnceInv == queue \cap result = {} /\ ParentInv

\* A true row is determined by its path.
LEMMA PathDeterminesRow ==
  ASSUME NEW v \in Rows, NEW w \in Rows, RowTruth(v), RowTruth(w),
         v.path = w.path
  PROVE  v = w
BY DEF RowTruth, Rows

\* Dropping the last edge of an extended row gives the row back.
LEMMA ParentOfExtension ==
  ASSUME NEW w \in Rows, NEW e \in Edges
  PROVE  LET x == ExtendedRow(w, e) IN
         SubSeq(x.path, 1, Len(x.path) - 1) = w.path
<1> DEFINE x == ExtendedRow(w, e)
           n == Len(w.path)
<1>1. w.path \in Seq(Edges) /\ n \in Nat
  BY LenProperties DEF Rows
<1>2. /\ x.path \in Seq(Edges) /\ Len(x.path) = n + 1
      /\ \A i \in 1 .. n : x.path[i] = w.path[i]
  BY ExtendedPath
<1> HIDE DEF x
<1>3. \A i \in 1 .. n : x.path[i] \in Edges
  BY <1>1, <1>2, ElementOfSeq
<1>4. /\ SubSeq(x.path, 1, n) \in Seq(Edges)
      /\ Len(SubSeq(x.path, 1, n)) = n
      /\ \A i \in 1 .. n : SubSeq(x.path, 1, n)[i] = x.path[i]
  BY <1>1, <1>3, SubSeqProperties
<1>5. SubSeq(x.path, 1, n) = w.path
  BY <1>1, <1>2, <1>4, SeqEqual
<1>6. QED
  BY <1>1, <1>2, <1>5 DEF x

\* The rows made by an extraction are rows nobody has made before.
LEMMA FreshExtensions ==
  ASSUME SoundInv, OnceInv, NEW w \in queue
  PROVE  Extensions(w) \cap (queue \cup result) = {}
<1> SUFFICES ASSUME NEW e \in Edges, CanExtend(w, e),
                    ExtendedRow(w, e) \in queue \cup result
             PROVE  FALSE
  BY DEF Extensions
<1> DEFINE x == ExtendedRow(w, e)
<1>1. w \in Rows /\ RowTruth(w)
  BY DEF SoundInv, TypeOK, TrailInv
<1>2. Len(w.path) \in Nat /\ Len(w.path) >= 1
  BY <1>1, LenProperties DEF Rows, RowTruth, IsTrail
<1>3. Len(x.path) > 1
  BY <1>1, <1>2, ExtendedPath
<1>4. PICK v \in result : v.path = SubSeq(x.path, 1, Len(x.path) - 1)
  BY <1>3 DEF OnceInv, ParentInv
<1>5. v \in Rows /\ RowTruth(v)
  BY DEF SoundInv, TypeOK, TrailInv
<1>6. v.path = w.path
  BY <1>1, <1>4, ParentOfExtension
<1>7. v = w
  BY <1>1, <1>5, <1>6, PathDeterminesRow
<1>8. QED
  BY <1>7 DEF OnceInv

\* A step takes one row from the queue, keeps it, and queues only longer ones.
LEMMA OnceStep == SoundInv /\ OnceInv /\ [Next]_vars => OnceInv'
<1> SUFFICES ASSUME SoundInv, OnceInv, [Next]_vars PROVE OnceInv'
  OBVIOUS
<1>1. CASE Base
  <2>1. \A r \in queue' : ~(Len(r.path) > 1)
    <3>1. ASSUME NEW e \in Edges PROVE ~(Len(BaseRow(e).path) > 1)
      <4>1. Len(<<e>>) = 1
        OBVIOUS
      <4>2. QED
        BY <4>1 DEF BaseRow
    <3>2. QED
      BY <1>1, <3>1 DEF Base
  <2>2. result' = {}
    BY <1>1 DEF Base, SoundInv, PcInv
  <2>3. \A r \in queue' \cup result' : ~(Len(r.path) > 1)
    BY <2>1, <2>2
  <2>4. QED
    BY <2>2, <2>3 DEF OnceInv, ParentInv
<1>2. ASSUME NEW w \in queue, Extend(w) PROVE OnceInv'
  <2>1. w \in Rows
    BY DEF SoundInv, TypeOK
  <2>2. Extensions(w) \cap (queue \cup result) = {}
    BY FreshExtensions
  <2>3. w \notin Extensions(w)
    BY <2>2
  <2>4. queue' \cap result' = {}
    BY <1>2, <2>2, <2>3 DEF Extend, OnceInv
  <2>5. ASSUME NEW r \in queue' \cup result', Len(r.path) > 1
        PROVE  \E v \in result' : v.path = SubSeq(r.path, 1, Len(r.path) - 1)
    <3>1. CASE r \in queue \cup result
      BY <1>2, <2>5, <3>1 DEF Extend, OnceInv, ParentInv
    <3>2. CASE r \in Extensions(w)
      <4>1. PICK e \in Edges : r = ExtendedRow(w, e)
        BY <3>2 DEF Extensions
      <4>2. w.path = SubSeq(r.path, 1, Len(r.path) - 1)
        BY <2>1, <4>1, ParentOfExtension
      <4>3. QED
        BY <1>2, <4>2 DEF Extend
    <3>3. QED
      BY <1>2, <3>1, <3>2 DEF Extend
  <2>6. QED
    BY <2>4, <2>5 DEF OnceInv, ParentInv
<1>3. CASE Select
  BY <1>3 DEF Select, OnceInv, ParentInv
<1>4. CASE UNCHANGED vars
  BY <1>4 DEF vars, OnceInv, ParentInv
<1>5. QED
  BY <1>1, <1>2, <1>3, <1>4 DEF Next

\* No row is both queued and kept, and no row is kept before the one it extends:
\* the CTE extends each row once.
THEOREM WalkOnce == Spec => []OnceInv
<1>1. Init => OnceInv
  BY DEF Init, OnceInv, ParentInv
<1>2. QED
  BY <1>1, OnceStep, WalkSound, PTL DEF Spec

\* For every graph: no path is produced by two rows, so that UNION ALL never
\* counts a match twice.
THEOREM WalkRowsOnce == Spec => []RowsOnce
<1>1. SoundInv /\ OnceInv => RowsOnce
  <2> SUFFICES ASSUME SoundInv, OnceInv PROVE RowsOnce
    OBVIOUS
  <2>1. ASSUME NEW v \in queue \cup result, NEW w \in queue \cup result,
               v.path = w.path
        PROVE  v = w
    BY <2>1, PathDeterminesRow DEF SoundInv, TypeOK, TrailInv
  <2>2. QED
    BY <2>1, FreshExtensions DEF RowsOnce, OnceInv
<1>2. QED
  BY <1>1, WalkSound, WalkOnce, PTL

-----------------------------------------------------------------------------
(* No trail is missed *)

\* Frontier for every trail, of whatever length.
FrontierInv ==
  pc # "base" => \A p \in Seq(Edges) : IsTrail(graph, hop, p) => Reached(p)

\* A prefix of a sequence, element by element.
LEMMA Prefix ==
  ASSUME NEW p \in Seq(Edges), NEW k \in 1 .. Len(p)
  PROVE  /\ SubSeq(p, 1, k) \in Seq(Edges)
         /\ Len(SubSeq(p, 1, k)) = k
         /\ \A i \in 1 .. k : SubSeq(p, 1, k)[i] = p[i]
<1>1. Len(p) \in Nat /\ \A i \in 1 .. k : p[i] \in Edges
  BY LenProperties, ElementOfSeq
<1>2. QED
  BY <1>1, SubSeqProperties

\* A trail is begun by the base row of its first edge.
LEMMA TrailBegins ==
  ASSUME NEW p \in Seq(Edges), Len(p) >= 1
  PROVE  /\ BaseRow(p[1]).path = SubSeq(p, 1, 1)
         /\ p[1] \in Edges
<1>1. 1 \in 1 .. Len(p) /\ p[1] \in Edges
  BY LenProperties, ElementOfSeq
<1>2. <<p[1]>> \in Seq(Edges) /\ Len(<<p[1]>>) = 1 /\ <<p[1]>>[1] = p[1]
  BY <1>1
<1>3. \A i \in 1 .. 1 : <<p[1]>>[i] = SubSeq(p, 1, 1)[i]
  BY <1>1, <1>2, Prefix
<1>4. <<p[1]>> = SubSeq(p, 1, 1)
  BY <1>1, <1>2, <1>3, Prefix, SeqEqual
<1>5. QED
  BY <1>1, <1>4 DEF BaseRow

\* A row that holds a proper prefix of a trail can be extended along it.
LEMMA TrailContinues ==
  ASSUME TypeOK, NEW w \in Rows, RowTruth(w),
         NEW p \in Seq(Edges), IsTrail(graph, hop, p),
         NEW k \in 1 .. Len(p) - 1, w.path = SubSeq(p, 1, k)
  PROVE  \E x \in Extensions(w) : x.path = SubSeq(p, 1, k + 1)
<1> DEFINE e == p[k + 1]
<1>1. /\ Len(p) \in Nat /\ k \in 1 .. Len(p) /\ k + 1 \in 1 .. Len(p)
      /\ e \in Edges
  BY LenProperties, ElementOfSeq
<1>2. Len(w.path) = k /\ \A i \in 1 .. k : w.path[i] = p[i]
  BY <1>1, Prefix
<1>3. CanExtend(w, e)
  <2>1. Meets(w, e)
    <3>1. w.target = graph.tgt[p[k]]
      BY <1>1, <1>2 DEF RowTruth
    <3>2. graph.tgt[p[k]] = graph.src[e]
      BY DEF IsTrail
    <3>3. QED
      BY <1>1, <3>1, <3>2, MeetsIsEquality
  <2>2. HasType(graph, hop, e)
    BY <1>1 DEF IsTrail
  <2>3. MayGrow(w)
    <3>1. hop.max # NULL => k + 1 <= hop.max /\ hop.max \in Nat
      <4>1. hop.max # NULL => Len(p) <= hop.max /\ hop.max \in Nat
        BY DEF IsTrail, TypeOK, Hops
      <4>2. QED
        BY <1>1, <4>1
    <3>2. QED
      BY <1>1, <1>2, <3>1 DEF MayGrow, RowTruth
  <2>4. Unused(w, e)
    <3>1. \A i \in 1 .. k : i \in 1 .. Len(p) /\ i # k + 1
      BY <1>1
    <3>2. QED
      BY <1>1, <1>2, <3>1 DEF Unused, IsTrail
  <2>5. QED
    BY <2>1, <2>2, <2>3, <2>4 DEF CanExtend
<1> DEFINE x == ExtendedRow(w, e)
           q == SubSeq(p, 1, k + 1)
<1>4. x \in Extensions(w)
  BY <1>1, <1>3 DEF Extensions
<1>5. /\ x.path \in Seq(Edges) /\ Len(x.path) = k + 1
      /\ \A i \in 1 .. k : x.path[i] = p[i]
      /\ x.path[k + 1] = p[k + 1]
  BY <1>1, <1>2, ExtendedPath
<1>6. /\ q \in Seq(Edges) /\ Len(q) = k + 1
      /\ \A i \in 1 .. k + 1 : q[i] = p[i]
  BY <1>1, Prefix
<1> HIDE DEF x, q
<1>7. \A i \in 1 .. k + 1 : x.path[i] = q[i]
  <2>1. \A i \in 1 .. k + 1 : i \in 1 .. k \/ i = k + 1
    BY <1>1
  <2>2. QED
    BY <1>5, <1>6, <2>1
<1>8. x.path = q
  BY <1>5, <1>6, <1>7, SeqEqual
<1>9. QED
  BY <1>4, <1>8 DEF x, q

\* A prefix that is reached by waiting rows makes the trail reached.
LEMMA ReachedByPrefix ==
  ASSUME NEW p \in Seq(Edges), NEW k \in 1 .. Len(p),
         NEW Q, NEW R,
         \E x \in Q : x.path = SubSeq(p, 1, k)
  PROVE  \/ \E x \in Q \cup R : x.path = p
         \/ \E x \in Q : \E j \in 1 .. Len(p) - 1 : x.path = SubSeq(p, 1, j)
<1>1. Len(p) \in Nat
  BY LenProperties
<1>2. CASE k = Len(p)
  BY <1>2, SubSeqFull
<1>3. CASE k # Len(p)
  <2>1. k \in 1 .. Len(p) - 1
    BY <1>1, <1>3
  <2>2. QED
    BY <2>1
<1>4. QED
  BY <1>2, <1>3

\* A row leaves the queue only when all its extensions have entered it.
LEMMA FrontierStep == SoundInv /\ FrontierInv /\ [Next]_vars => FrontierInv'
<1> SUFFICES ASSUME SoundInv, FrontierInv, [Next]_vars PROVE FrontierInv'
  OBVIOUS
<1>1. CASE Base
  <2> SUFFICES ASSUME NEW p \in Seq(Edges), IsTrail(graph, hop, p)
               PROVE  Reached(p)'
    BY <1>1 DEF Base, FrontierInv
  <2>1. Len(p) >= 1 /\ 1 \in 1 .. Len(p) /\ HasType(graph, hop, p[1])
    BY LenProperties DEF IsTrail
  <2>2. BaseRow(p[1]) \in queue' /\ BaseRow(p[1]).path = SubSeq(p, 1, 1)
    BY <1>1, <2>1, TrailBegins DEF Base
  <2>3. \E x \in queue' : x.path = SubSeq(p, 1, 1)
    BY <2>2
  <2>4. QED
    BY <2>1, <2>3, ReachedByPrefix DEF Reached
<1>2. ASSUME NEW w \in queue, Extend(w) PROVE FrontierInv'
  <2> SUFFICES ASSUME NEW p \in Seq(Edges), IsTrail(graph, hop, p)
               PROVE  Reached(p)'
    BY <1>2 DEF Extend, FrontierInv
  <2>1. /\ queue' = (queue \ {w}) \cup Extensions(w)
        /\ result' = result \cup {w}
        /\ queue \cup result \subseteq queue' \cup result'
    BY <1>2 DEF Extend
  <2>2. Reached(p)
    BY <1>2 DEF Extend, FrontierInv
  <2>3. CASE \E v \in queue \cup result : v.path = p
    BY <2>1, <2>3 DEF Reached
  <2>4. CASE \E v \in queue : \E k \in 1 .. Len(p) - 1 :
               v.path = SubSeq(p, 1, k)
    <3>1. PICK v \in queue, k \in 1 .. Len(p) - 1 : v.path = SubSeq(p, 1, k)
      BY <2>4
    <3>2. CASE v # w
      BY <2>1, <3>1, <3>2 DEF Reached
    <3>3. CASE v = w
      <4>1. w \in Rows /\ RowTruth(w) /\ TypeOK
        BY DEF SoundInv, TypeOK, TrailInv
      <4>2. \E x \in queue' : x.path = SubSeq(p, 1, k + 1)
        BY <2>1, <3>1, <3>3, <4>1, TrailContinues
      <4>3. k + 1 \in 1 .. Len(p)
        BY LenProperties
      <4>4. QED
        BY <4>2, <4>3, ReachedByPrefix DEF Reached
    <3>4. QED
      BY <3>2, <3>3
  <2>5. QED
    BY <2>2, <2>3, <2>4 DEF Reached
<1>3. CASE Select
  BY <1>3 DEF Select, FrontierInv, Reached
<1>4. CASE UNCHANGED vars
  BY <1>4 DEF vars, FrontierInv, Reached
<1>5. QED
  BY <1>1, <1>2, <1>3, <1>4 DEF Next

\* Whenever the base rows are out, every trail of the pattern, of whatever
\* length, is already a row or has a prefix in the queue: the CTE misses none.
THEOREM WalkReaches == Spec => []FrontierInv
<1>1. Init => FrontierInv
  BY DEF Init, FrontierInv
<1>2. QED
  BY <1>1, FrontierStep, WalkSound, PTL DEF Spec

\* Candidates are sequences of edges.
LEMMA CandidatesAreSequences ==
  ASSUME NEW p \in Candidates PROVE p \in Seq(Edges)
<1>1. PICK n \in 1 .. Cardinality(Edges) : p \in [1 .. n -> Edges]
  BY DEF Candidates
<1>2. n \in Nat
  OBVIOUS
<1>3. QED
  BY <1>1, <1>2, SeqDef

\* For every graph: a trail that is not yet a row has a waiting prefix.
THEOREM WalkFrontier == Spec => []Frontier
<1>1. FrontierInv => Frontier
  BY CandidatesAreSequences DEF FrontierInv, Frontier, AllTrails
<1>2. QED
  BY <1>1, WalkReaches, PTL

-----------------------------------------------------------------------------
(* The answer *)

\* The outer WHERE keeps exactly the rows whose path matches.
LEMMA SelectedMatches ==
  ASSUME TypeOK, NEW w \in Rows, RowTruth(w)
  PROVE  Selected(w) <=> Matches(graph, hop, w.path)
<1>1. hop.min \in Nat \ {0} /\ w.depth \in Nat /\ w.depth = Len(w.path)
      /\ Len(w.path) >= 1
  BY DEF TypeOK, Hops, Rows, RowTruth, IsTrail
<1>2. (hop.min > 1 => w.depth >= hop.min) <=> Len(w.path) >= hop.min
  BY <1>1
<1>3. QED
  BY <1>2 DEF Selected, Matches, RowTruth

\* For every graph: the answer has one row for each matching trail and none
\* besides.
THEOREM WalkAnswerExact == Spec => []AnswerExact
<1>1. SoundInv /\ RowsOnce /\ FrontierInv => AnswerExact
  <2> SUFFICES ASSUME SoundInv, RowsOnce, FrontierInv, pc = "done"
               PROVE  AnswerExact
    BY DEF AnswerExact
  <2>1. queue = {} /\ answer = {w \in result : Selected(w)}
    BY DEF SoundInv, PcInv
  <2>2. \A w \in result : w \in Rows /\ RowTruth(w)
    BY DEF SoundInv, TypeOK, TrailInv
  <2>3. \A w \in result : Selected(w) <=> Matches(graph, hop, w.path)
    BY <2>2, SelectedMatches DEF SoundInv
  <2>4. \A p \in AllTrails(graph, hop) : \E w \in result : w.path = p
    BY <2>1, CandidatesAreSequences DEF FrontierInv, Reached, AllTrails
  <2>5. \A v, w \in answer : v.path = w.path => v = w
    BY <2>1 DEF RowsOnce
  <2>6. QED
    BY <2>1, <2>2, <2>3, <2>4, <2>5 DEF AnswerExact, RowTruth
<1>2. QED
  BY <1>1, WalkSound, WalkRowsOnce, WalkReaches, PTL

-----------------------------------------------------------------------------
(* The end *)

\* Of finitely many edges there are finitely many sequences of one length: each
\* is a set of pairs of a place and an edge.
LEMMA FinitelyManyOfLength ==
  ASSUME IsFiniteSet(Edges), NEW n \in Nat
  PROVE  IsFiniteSet([1 .. n -> Edges])
<1> DEFINE S == [1 .. n -> Edges]
           X == SUBSET ((1 .. n) \X Edges)
           pairs == [p \in S |-> {<<i, p[i]>> : i \in 1 .. n}]
<1>1. IsFiniteSet(X)
  <2>1. IsFiniteSet(1 .. n)
    BY FS_Interval
  <2>2. IsFiniteSet((1 .. n) \X Edges)
    BY <2>1, FS_Product
  <2> QED
    BY <2>2, FS_SUBSET
<1>2. pairs \in Injection(S, X)
  <2>1. pairs \in [S -> X]
    OBVIOUS
  <2>2. ASSUME NEW p \in S, NEW q \in S, pairs[p] = pairs[q]
        PROVE  p = q
    <3>1. ASSUME NEW i \in 1 .. n PROVE p[i] = q[i]
      <4>1. <<i, p[i]>> \in {<<j, q[j]>> : j \in 1 .. n}
        BY <2>2
      <4> QED
        BY <4>1
    <3> QED
      BY <3>1
  <2> QED
    BY <2>1, <2>2 DEF Injection, IsInjective
<1> HIDE DEF S, X, pairs
<1>3. IsFiniteSet(S)
  BY <1>1, <1>2, FS_Injection
<1> QED
  BY <1>3 DEF S

\* A graph with finitely many edges has finitely many trails, cyclic or not.
LEMMA FinitelyManyTrails ==
  ASSUME IsFiniteSet(Edges)
  PROVE  IsFiniteSet(AllTrails(graph, hop))
<1>1. IsFiniteSet(Candidates)
  <2> DEFINE L == 1 .. Cardinality(Edges)
             Of(n) == [1 .. n -> Edges]
             C == {Of(n) : n \in L}
  <2>1. IsFiniteSet(L)
    BY FS_CardinalityType, FS_Interval
  <2>2. IsFiniteSet(C)
    <3> HIDE DEF L
    <3> DEFINE f == [n \in L |-> Of(n)]
    <3>1. f \in Surjection(L, C)
      BY DEF Surjection
    <3> HIDE DEF f, C
    <3> QED
      BY <2>1, <3>1, FS_Surjection
  <2>3. \A T \in C : IsFiniteSet(T)
    <3>1. \A n \in L : n \in Nat
      OBVIOUS
    <3> QED
      BY <3>1, FinitelyManyOfLength
  <2>4. Candidates = UNION C
    BY DEF Candidates
  <2> HIDE DEF C
  <2> QED
    BY <2>2, <2>3, <2>4, FS_UNION
<1> QED
  BY <1>1, FS_Subset DEF AllTrails

\* A trail uses no edge twice, so it is no longer than there are edges.
LEMMA TrailIsCandidate ==
  ASSUME IsFiniteSet(Edges), NEW p \in Seq(Edges), IsTrail(graph, hop, p)
  PROVE  p \in AllTrails(graph, hop)
<1>1. Len(p) \in Nat /\ Len(p) >= 1 /\ p \in [1 .. Len(p) -> Edges]
  BY LenProperties DEF IsTrail
<1>2. p \in Injection(1 .. Len(p), Edges)
  BY <1>1 DEF IsTrail, Injection, IsInjective
<1>3. Cardinality(1 .. Len(p)) <= Cardinality(Edges)
  BY <1>2, FS_Injection
<1>4. Cardinality(1 .. Len(p)) = Len(p)
  BY <1>1, FS_Interval
<1>5. Len(p) \in 1 .. Cardinality(Edges)
  BY <1>1, <1>3, <1>4, FS_CardinalityType
<1>6. p \in Candidates
  BY <1>1, <1>5 DEF Candidates
<1> QED
  BY <1>6 DEF AllTrails

\* The trails not extended yet, and how many steps the query has left at most.
Unextended == {p \in AllTrails(graph, hop) : \A w \in result : w.path # p}
StepsLeft ==
  Cardinality(Unextended)
    + (CASE pc = "base" -> 2 [] pc = "walk" -> 1 [] pc = "done" -> 0)
Shortens == StepsLeft \in Nat /\ StepsLeft' \in Nat /\ StepsLeft' < StepsLeft

\* A row is extended once, so each extension leaves one trail fewer.
LEMMA StepsLeftStep ==
  ASSUME IsFiniteSet(Edges), SoundInv, SoundInv', RowsOnce, Next
  PROVE  Shortens
<1>1. graph' = graph /\ hop' = hop
  BY DEF Next, Base, Extend, Select
<1>2. AllTrails(graph, hop)' = AllTrails(graph, hop)
  BY <1>1
<1>3. IsFiniteSet(Unextended) /\ Cardinality(Unextended) \in Nat
  BY FinitelyManyTrails, FS_Subset, FS_CardinalityType DEF Unextended
<1>4. CASE Base
  <2>1. pc = "base" /\ pc' = "walk" /\ result' = result
    BY <1>4 DEF Base
  <2>2. Unextended' = Unextended
    BY <1>2, <2>1 DEF Unextended
  <2> QED
    BY <1>3, <2>1, <2>2 DEF StepsLeft, Shortens
<1>5. CASE Select
  <2>1. pc = "walk" /\ pc' = "done" /\ result' = result
    BY <1>5 DEF Select
  <2>2. Unextended' = Unextended
    BY <1>2, <2>1 DEF Unextended
  <2> QED
    BY <1>3, <2>1, <2>2 DEF StepsLeft, Shortens
<1>6. CASE \E w \in queue : Extend(w)
  <2>1. PICK w \in queue : Extend(w)
    BY <1>6
  <2>2. pc = "walk" /\ pc' = "walk" /\ result' = result \cup {w}
    BY <2>1 DEF Extend
  <2>3. w \in Rows /\ w.path \in Seq(Edges) /\ IsTrail(graph, hop, w.path)
    BY <2>1 DEF SoundInv, TypeOK, TrailInv, RowTruth, Rows
  <2>4. w.path \in Unextended
    <3>1. \A v \in result : v.path # w.path
      BY <2>1 DEF RowsOnce
    <3> QED
      BY <2>3, <3>1, TrailIsCandidate DEF Unextended
  <2>5. Unextended' = Unextended \ {w.path}
    BY <1>2, <2>2 DEF Unextended
  <2>6. Cardinality(Unextended \ {w.path}) = Cardinality(Unextended) - 1
    BY <1>3, <2>4, FS_RemoveElement
  <2>7. IsFiniteSet(Unextended \ {w.path})
    BY <1>3, FS_RemoveElement
  <2>8. Cardinality(Unextended \ {w.path}) \in Nat
    BY <2>7, FS_CardinalityType
  <2> HIDE DEF Unextended
  <2> QED
    BY <1>3, <2>2, <2>5, <2>6, <2>8 DEF StepsLeft, Shortens
<1> QED
  BY <1>4, <1>5, <1>6 DEF Next

\* transform.c:1205-1207, the recursion ends, on a cyclic graph and without an
\* upper bound too: however the database picks rows, each step leaves it fewer
\* steps to take, as long as the edge table is finite.
THEOREM WalkEnds ==
  ASSUME IsFiniteSet(Edges)
  PROVE  Spec => [][Shortens]_vars
<1>1. SoundInv /\ SoundInv' /\ RowsOnce /\ [Next]_vars
        => [Shortens]_vars
  BY StepsLeftStep
<1> QED
  BY <1>1, WalkSound, WalkRowsOnce, PTL DEF Spec

-----------------------------------------------------------------------------
(* Refinement *)

\* The instance reads the graph with the same definitions.
LEMMA SameTrails ==
  /\ Search!Graphs = Graphs /\ Search!Hops = Hops
  /\ \A g, h, p : Search!IsTrail(g, h, p) <=> IsTrail(g, h, p)
  /\ \A g, h, p : Search!Matches(g, h, p) <=> Matches(g, h, p)
  /\ \A g, h : Search!AllTrails(g, h) = AllTrails(g, h)
<1>1. Search!Graphs = Graphs /\ Search!Hops = Hops
  BY DEF Search!Graphs, Graphs, Search!Hops, Hops, Search!Nodes, Nodes
<1>2. \A g, h, p : Search!IsTrail(g, h, p) <=> IsTrail(g, h, p)
  BY DEF Search!IsTrail, IsTrail, Search!HasType, HasType
<1>3. \A g, h, p : Search!Matches(g, h, p) <=> Matches(g, h, p)
  BY DEF Search!Matches, Matches
<1>4. \A g, h : Search!AllTrails(g, h) = AllTrails(g, h)
  <2>1. Search!Cardinality(Edges) = Cardinality(Edges)
    BY DEF Search!Cardinality, Cardinality
  <2>2. Search!Candidates = Candidates
    BY <2>1 DEF Search!Candidates, Candidates
  <2>3. QED
    BY <1>2, <2>2 DEF Search!AllTrails, AllTrails
<1>5. QED
  BY <1>1, <1>2, <1>3, <1>4

\* The first states of the CTE are first states of the search for trails,
LEMMA SearchInit == Init => Search!Init
BY WalkAssumption, SameTrails DEF Init, Search!Init, Paths

\* and a step of the CTE is a step of that search, or none.
LEMMA SearchStep ==
  SoundInv /\ SoundInv' /\ FrontierInv /\ [Next]_vars
    => [Search!Next]_(Search!vars)
<1> SUFFICES ASSUME SoundInv, SoundInv', FrontierInv, [Next]_vars
             PROVE  [Search!Next]_(Search!vars)
  OBVIOUS
<1>1. CASE Base
  <2>1. Paths(result)' = Paths(result) /\ Paths(answer)' = Paths(answer)
        /\ (pc = "done") = (pc = "done")' /\ graph' = graph /\ hop' = hop
    BY <1>1 DEF Base
  <2>2. QED
    BY <2>1 DEF Search!vars
<1>2. ASSUME NEW w \in queue, Extend(w)
      PROVE  Search!Find
  <2>1. pc = "walk" /\ pc' = "walk" /\ result' = result \cup {w}
        /\ UNCHANGED <<graph, hop, answer>>
    BY <1>2 DEF Extend
  <2>2. Paths(result) \subseteq Paths(result)'
    BY <2>1 DEF Paths
  <2>3. \A p \in Paths(result)' : IsTrail(graph, hop, p)
    BY <2>1 DEF SoundInv, TrailInv, RowTruth, Paths
  <2>4. QED
    BY <2>1, <2>2, <2>3, SameTrails DEF Search!Find, Paths
<1>3. CASE Select
  <2>1. pc = "walk" /\ pc' = "done" /\ queue = {}
        /\ answer' = {w \in result : Selected(w)}
        /\ UNCHANGED <<graph, hop, queue, result>>
    BY <1>3 DEF Select
  <2>2. \A w \in result : Selected(w) <=> Matches(graph, hop, w.path)
    BY SelectedMatches DEF SoundInv, TypeOK, TrailInv
  <2>3. AllTrails(graph, hop) \subseteq Paths(result)
    BY <2>1, CandidatesAreSequences
    DEF FrontierInv, Reached, AllTrails, Paths
  <2>4. Paths(answer)'
          = {p \in Paths(result) : Matches(graph, hop, p)}
    BY <2>1, <2>2 DEF Paths
  <2>5. QED
    <3>1. {p \in Paths(result) : Matches(graph, hop, p)}
            = {p \in Paths(result) : Search!Matches(graph, hop, p)}
      BY SameTrails
    <3>2. Paths(result)' = Paths(result)
      BY <2>1 DEF Paths
    <3>3. Search!AllTrails(graph, hop) \subseteq Paths(result)
      BY <2>3, SameTrails
    <3>4. QED
      BY <2>1, <2>4, <3>1, <3>2, <3>3
      DEF Search!Report, Search!Next
<1>4. CASE UNCHANGED vars
  BY <1>4 DEF vars, Search!vars
<1>5. QED
  BY <1>1, <1>2, <1>3, <1>4 DEF Next, Search!Next

\* For every graph, the query implements the abstract search for trails.
THEOREM WalkImplementsSearch == Spec => ImplementsSearch
<1>1. QED
  BY SearchInit, SearchStep, WalkSound, WalkReaches, PTL
  DEF Spec, ImplementsSearch, Search!Spec
=============================================================================
