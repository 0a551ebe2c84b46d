---------------------------- MODULE AnswerProofs ----------------------------
(***************************************************************************)
(* What the SQL answers, for every catalog, name map, set of queries and   *)
(* database: what the clauses and the items of a translation in progress   *)
(* say, which rows satisfy the finished statement, and that they are the   *)
(* matches of the query, each as often as the query has it.                *)
(***************************************************************************)
EXTENDS TransformProofs

-----------------------------------------------------------------------------
(* Answers under a bijection of the rows *)

\* A bijection, by what it does.
LEMMA BijectionIs ==
  ASSUME NEW X, NEW Y, NEW b \in [X -> Y],
         \A x, y \in X : b[x] = b[y] => x = y,
         \A y \in Y : \E x \in X : b[x] = y
  PROVE  b \in Bijection(X, Y)
BY DEF Bijection, Injection, Surjection, IsInjective

\* The same, the other way.
LEMMA BijectionDoes ==
  ASSUME NEW X, NEW Y, NEW b \in Bijection(X, Y)
  PROVE  /\ b \in [X -> Y]
         /\ \A x, y \in X : b[x] = b[y] => x = y
         /\ \A y \in Y : \E x \in X : b[x] = y
BY DEF Bijection, Injection, Surjection, IsInjective

\* What a bijection takes to each other has as many elements.
LEMMA SameCount ==
  ASSUME NEW X, IsFiniteSet(X), NEW Y, NEW b \in Bijection(X, Y)
  PROVE  IsFiniteSet(Y) /\ Cardinality(Y) = Cardinality(X)
BY FS_Bijection DEF ExistsBijection

\* What a function takes the elements of a set to.
Image(b, A) == {b[x] : x \in A}

\* A bijection takes a part of what it is of to a part.
LEMMA PartBijection ==
  ASSUME NEW X, NEW Y, NEW b \in Bijection(X, Y), NEW A \in SUBSET X,
         NEW B, B = Image(b, A)
  PROVE  [x \in A |-> b[x]] \in Bijection(A, B)
<1> DEFINE c == [x \in A |-> b[x]]
<1>1. \A x, y \in X : b[x] = b[y] => x = y
  BY BijectionDoes
<1>2. c \in [A -> B] /\ \A x \in A : c[x] = b[x]
  BY DEF Image
<1>3. \A y \in B : \E x \in A : c[x] = y
  BY DEF Image
<1> HIDE DEF c
<1>4. \A x, y \in A : c[x] = c[y] => x = y
  BY <1>1, <1>2
<1> QED  BY <1>2, <1>3, <1>4, BijectionIs DEF c

\* Each value occurs as often in what a bijection takes to each other.
LEMMA BagSame ==
  ASSUME NEW X, IsFiniteSet(X), NEW Y, NEW b \in Bijection(X, Y),
         NEW f, DOMAIN f = X, NEW h, DOMAIN h = Y, \A x \in X : f[x] = h[b[x]],
         NEW d
  PROVE  Bag(f, d) = Bag(h, d)
<1>1. b \in [X -> Y] /\ \A y \in Y : \E x \in X : b[x] = y
  BY BijectionDoes
<1>2. Range(f) = Range(h)
  BY <1>1 DEF Range
<1>3. ASSUME NEW v
      PROVE  Cardinality({x \in DOMAIN f : f[x] = v}) = Cardinality({y \in DOMAIN h : h[y] = v})
  <2> DEFINE A == {x \in X : f[x] = v}
             B == {y \in Y : h[y] = v}
             c == [x \in A |-> b[x]]
  <2>1. A \in SUBSET X /\ IsFiniteSet(A)
    BY FS_Subset
  <2>2. B = Image(b, A)
    BY <1>1 DEF Image
  <2>3. c \in Bijection(A, B)
    <3> HIDE DEF A, B
    <3> QED  BY <2>1, <2>2, PartBijection
  <2>4. Cardinality(B) = Cardinality(A)
    <3> HIDE DEF A, B, c
    <3> QED  BY <2>1, <2>3, SameCount
  <2> QED  BY <2>4
<1> QED  BY <1>2, <1>3 DEF Bag

\* What an answer is made of: what is shown of each row, and its key.
Total(items) == {i \in DOMAIN items : IsAggregate(items[i])}

\* The groups of the rows X of an answer, and the line of a group.
GroupsOf(X, key, items) ==
  IF Total(items) = {} THEN {{x} : x \in X}
  ELSE IF Total(items) = DOMAIN items THEN {X}
  ELSE {{x \in X : key[x] = v} : v \in Range(key)}
LineOf(shown, items, g) ==
  [i \in DOMAIN items |->
     IF i \in Total(items) THEN Bag([x \in g |-> shown[x][i]], items[i].distinct)
     ELSE {shown[x][i] : x \in g}]

\* An answer is the bag of the lines of its groups.
LEMMA LinesAre ==
  ASSUME NEW shown, NEW key, NEW items, NEW distinct
  PROVE  Lines(shown, key, items, distinct) =
           Bag([g \in GroupsOf(DOMAIN shown, key, items) |-> LineOf(shown, items, g)], distinct)
BY DEF Lines, GroupsOf, LineOf, Total

\* Items that are aggregated alike, and keys that tell apart the same rows.
SameItems(items, others) ==
  /\ DOMAIN items = DOMAIN others
  /\ \A i \in DOMAIN items : /\ IsAggregate(items[i]) <=> IsAggregate(others[i])
                             /\ items[i].distinct = others[i].distinct

\* Aggregates beside other items; what a second answer shows of the rows that
\* a function b makes of X; and keys that tell the same rows apart.
Mixed(items) == Total(items) # {} /\ Total(items) # DOMAIN items
SeenAs(X, b, items, shown, seen) ==
  \A x \in X, i \in DOMAIN items : shown[x][i] = seen[b[x]][i]
SameKeys(X, b, key, other) ==
  \A x, y \in X : key[x] = key[y] <=> other[b[x]] = other[b[y]]

\* The groups of the rows are the groups of what a bijection takes them to.
LEMMA GroupsSame ==
  ASSUME NEW X, NEW Y, NEW b \in Bijection(X, Y), NEW items, NEW others,
         SameItems(items, others),
         NEW key, DOMAIN key = X, NEW other, DOMAIN other = Y,
         Mixed(items) => SameKeys(X, b, key, other),
         NEW g \in GroupsOf(X, key, items)
  PROVE  g \in SUBSET X /\ Image(b, g) \in GroupsOf(Y, other, others)
<1>1. Total(items) = Total(others) /\ DOMAIN items = DOMAIN others
  BY DEF Total, SameItems
<1>2. b \in [X -> Y] /\ \A y \in Y : \E x \in X : b[x] = y
  BY BijectionDoes
<1>3. CASE Total(items) = {}
  <2>1. PICK x \in X : g = {x}
    BY <1>3 DEF GroupsOf
  <2>2. Image(b, g) = {b[x]} /\ b[x] \in Y
    BY <1>2, <2>1 DEF Image
  <2> QED  BY <1>1, <1>3, <2>1, <2>2 DEF GroupsOf
<1>4. CASE Total(items) # {} /\ Total(items) = DOMAIN items
  <2>1. g = X
    BY <1>4 DEF GroupsOf
  <2>2. Image(b, g) = Y
    BY <1>2, <2>1 DEF Image
  <2> QED  BY <1>1, <1>4, <2>1, <2>2 DEF GroupsOf
<1>5. CASE Mixed(items)
  <2>1. PICK v \in Range(key) : g = {x \in X : key[x] = v}
    BY <1>5 DEF GroupsOf, Mixed
  <2>2. PICK z \in X : key[z] = v
    BY DEF Range
  <2>3. other[b[z]] \in Range(other)
    BY <1>2 DEF Range
  <2>4. \A x \in X : key[x] = v <=> other[b[x]] = other[b[z]]
    BY <1>5, <2>2 DEF SameKeys
  <2>5. Image(b, g) = {y \in Y : other[y] = other[b[z]]}
    BY <1>2, <2>1, <2>4 DEF Image
  <2>6. {y \in Y : other[y] = other[b[z]]} \in GroupsOf(Y, other, others)
    BY <1>1, <1>5, <2>3 DEF GroupsOf, Mixed
  <2> QED  BY <2>1, <2>5, <2>6
<1> QED  BY <1>3, <1>4, <1>5 DEF Mixed

\* Every group of what a bijection takes the rows to is one of them.
LEMMA GroupsAll ==
  ASSUME NEW X, NEW Y, NEW b \in Bijection(X, Y), NEW items, NEW others,
         SameItems(items, others),
         NEW key, DOMAIN key = X, NEW other, DOMAIN other = Y,
         Mixed(items) => SameKeys(X, b, key, other),
         NEW h \in GroupsOf(Y, other, others)
  PROVE  \E g \in GroupsOf(X, key, items) : h = Image(b, g)
<1>1. Total(items) = Total(others) /\ DOMAIN items = DOMAIN others
  BY DEF Total, SameItems
<1>2. b \in [X -> Y] /\ \A y \in Y : \E x \in X : b[x] = y
  BY BijectionDoes
<1>3. CASE Total(items) = {}
  <2>1. PICK y \in Y : h = {y}
    BY <1>1, <1>3 DEF GroupsOf
  <2>2. PICK x \in X : b[x] = y
    BY <1>2
  <2>3. Image(b, {x}) = h
    BY <2>1, <2>2 DEF Image
  <2>4. {x} \in GroupsOf(X, key, items)
    BY <1>3 DEF GroupsOf
  <2> QED  BY <2>3, <2>4
<1>4. CASE Total(items) # {} /\ Total(items) = DOMAIN items
  <2>1. h = Y
    BY <1>1, <1>4 DEF GroupsOf
  <2>2. Image(b, X) = Y
    BY <1>2 DEF Image
  <2>3. X \in GroupsOf(X, key, items)
    BY <1>4 DEF GroupsOf
  <2> QED  BY <2>1, <2>2, <2>3
<1>5. CASE Mixed(items)
  <2>1. PICK v \in Range(other) : h = {y \in Y : other[y] = v}
    BY <1>1, <1>5 DEF GroupsOf, Mixed
  <2>2. PICK z \in X : other[b[z]] = v
    <3>1. PICK y \in Y : other[y] = v
      BY DEF Range
    <3> QED  BY <1>2, <3>1
  <2>3. \A x \in X : key[x] = key[z] <=> other[b[x]] = v
    BY <1>5, <2>2 DEF SameKeys
  <2> DEFINE g == {x \in X : key[x] = key[z]}
  <2>4. g \in GroupsOf(X, key, items)
    BY <1>5 DEF GroupsOf, Mixed, Range
  <2>5. h = Image(b, g)
    BY <1>2, <2>1, <2>3 DEF Image
  <2> QED  BY <2>4, <2>5
<1> QED  BY <1>3, <1>4, <1>5 DEF Mixed

\* The line of a group is the line of what a bijection takes it to.
LEMMA LineSame ==
  ASSUME NEW X, IsFiniteSet(X), NEW Y, NEW b \in Bijection(X, Y),
         NEW items, NEW others, SameItems(items, others),
         NEW shown, NEW seen, SeenAs(X, b, items, shown, seen),
         NEW g \in SUBSET X
  PROVE  LineOf(shown, items, g) = LineOf(seen, others, Image(b, g))
<1> DEFINE h == Image(b, g)
<1>1. Total(items) = Total(others) /\ DOMAIN items = DOMAIN others
        /\ \A i \in DOMAIN items : items[i].distinct = others[i].distinct
  BY DEF Total, SameItems
<1>2. ASSUME NEW i \in DOMAIN items
      PROVE  /\ {shown[x][i] : x \in g} = {seen[y][i] : y \in h}
             /\ Bag([x \in g |-> shown[x][i]], items[i].distinct)
                  = Bag([y \in h |-> seen[y][i]], items[i].distinct)
  <2> DEFINE c == [x \in g |-> b[x]]
             f == [x \in g |-> shown[x][i]]
             k1 == [y \in h |-> seen[y][i]]
  <2>1. IsFiniteSet(g)
    BY FS_Subset
  <2>2. c \in Bijection(g, h)
    <3>1. h = Image(b, g)
      OBVIOUS
    <3> HIDE DEF h
    <3> QED  BY <3>1, PartBijection
  <2>3. \A x \in g : c[x] = b[x] /\ b[x] \in h /\ f[x] = k1[c[x]]
    BY <1>2 DEF SeenAs, Image
  <2>4. DOMAIN f = g /\ DOMAIN k1 = h
    OBVIOUS
  <2>5. Bag(f, items[i].distinct) = Bag(k1, items[i].distinct)
    <3> HIDE DEF f, k1, c
    <3> QED  BY <2>1, <2>2, <2>3, <2>4, BagSame
  <2>6. {shown[x][i] : x \in g} = {seen[y][i] : y \in h}
    BY <1>2 DEF SeenAs, Image
  <2> QED  BY <2>5, <2>6
<1> QED  BY <1>1, <1>2 DEF LineOf

\* An answer is made of what is shown of the rows, and nothing else of them.
LEMMA LinesSame ==
  ASSUME NEW X, IsFiniteSet(X), NEW Y, NEW b \in Bijection(X, Y),
         NEW items, NEW others, SameItems(items, others),
         NEW shown, DOMAIN shown = X, NEW seen, DOMAIN seen = Y,
         SeenAs(X, b, items, shown, seen),
         NEW key, DOMAIN key = X, NEW other, DOMAIN other = Y,
         Mixed(items) => SameKeys(X, b, key, other),
         NEW distinct
  PROVE  Lines(shown, key, items, distinct) = Lines(seen, other, others, distinct)
<1> DEFINE G == GroupsOf(X, key, items)
           H == GroupsOf(Y, other, others)
           c == [g \in G |-> Image(b, g)]
           f == [g \in G |-> LineOf(shown, items, g)]
           h == [g \in H |-> LineOf(seen, others, g)]
<1> HIDE DEF f, h, c
<1>1. \A g \in G : g \in SUBSET X /\ Image(b, g) \in H
  <2>1. SUFFICES ASSUME NEW g \in GroupsOf(X, key, items)
                 PROVE  /\ g \in SUBSET X
                        /\ Image(b, g) \in GroupsOf(Y, other, others)
    OBVIOUS
  <2> QED  BY GroupsSame
<1>2. \A y \in H : \E g \in G : y = Image(b, g)
  BY GroupsAll
<1>3. \A x, y \in X : b[x] = b[y] => x = y
  BY BijectionDoes
<1>4. IsFiniteSet(G)
  <2>1. IsFiniteSet(SUBSET X)
    BY FS_SUBSET
  <2>2. G \in SUBSET (SUBSET X)
    <3> HIDE DEF G, H
    <3> QED  BY <1>1
  <2> HIDE DEF G
  <2> QED  BY <2>1, <2>2, FS_Subset
<1>5. \A g \in G : LineOf(shown, items, g) = LineOf(seen, others, Image(b, g))
  <2> HIDE DEF G, H
  <2> TAKE g \in G
  <2>1. g \in SUBSET X
    BY <1>1
  <2> QED  BY <2>1, LineSame
<1> HIDE DEF G, H
<1>6. c \in Bijection(G, H)
  <2>1. c \in [G -> H] /\ \A y \in H : \E g \in G : c[g] = y
    BY <1>1, <1>2 DEF c
  <2>2. ASSUME NEW p \in G, NEW q \in G, c[p] = c[q]
        PROVE  p = q
    <3>1. Image(b, p) = Image(b, q) /\ p \in SUBSET X /\ q \in SUBSET X
      BY <1>1, <2>2 DEF c
    <3>2. \A x \in p : x \in q
      <4> TAKE x \in p
      <4>1. PICK y \in q : b[x] = b[y]
        BY <3>1 DEF Image
      <4> QED  BY <1>3, <3>1, <4>1
    <3>3. \A x \in q : x \in p
      <4> TAKE x \in q
      <4>1. PICK y \in p : b[x] = b[y]
        BY <3>1 DEF Image
      <4> QED  BY <1>3, <3>1, <4>1
    <3> QED  BY <3>2, <3>3
  <2> HIDE DEF c
  <2> QED  BY <2>1, <2>2, BijectionIs
<1>7. DOMAIN f = G /\ DOMAIN h = H /\ \A g \in G : f[g] = h[c[g]]
  BY <1>1, <1>5 DEF c, f, h
<1>8. Bag(f, distinct) = Bag(h, distinct)
  <2> HIDE DEF f, h, c
  <2> QED  BY <1>4, <1>6, <1>7, BagSame
<1> QED  BY <1>8, LinesAre DEF G, H, f, h

-----------------------------------------------------------------------------
(* The rows of FROM *)

\* What a function gives of finitely many is finite.
LEMMA RangeFinite ==
  ASSUME NEW D, IsFiniteSet(D), NEW f, DOMAIN f = D
  PROVE  IsFiniteSet(Range(f))
<1>1. [x \in D |-> f[x]] \in Surjection(D, Range(f))
  BY DEF Surjection, Range
<1> QED  BY <1>1, FS_Surjection

\* Induction from zero.
LEMMA InductionFromZero ==
  ASSUME NEW n \in Nat, NEW S, 0 \in S, \A m \in 0 .. n - 1 : m \in S => m + 1 \in S
  PROVE  0 .. n \subseteq S
<1>1. n > 0 => 1 \in S
  <2>1. n > 0 => 0 \in 0 .. n - 1 /\ 0 + 1 = 1
    OBVIOUS
  <2> QED  BY <2>1
<1>2. \A m \in 1 .. n - 1 : m \in S => m + 1 \in S
  OBVIOUS
<1>3. 1 .. n \subseteq S
  BY <1>1, <1>2, Induction
<1> QED  BY <1>3

\* What a trail of a table is.
LEMMA TrailIs ==
  ASSUME NEW E, NEW type, NEW max, NEW p \in TrailsOf(E, type, max)
  PROVE  /\ \E n \in 1 .. Cardinality(E) : p \in [1 .. n -> E]
         /\ Len(p) >= 1
         /\ \A n \in 1 .. Len(p) : type # NULL => p[n].edge_type = type
         /\ max # NULL => Len(p) <= max
<1> DEFINE hop == [type |-> type, max |-> max]
<1>1. p \in {q \in T(E)!Candidates : T(E)!IsTrail(GraphOf(E), hop, q)}
  BY DEF TrailsOf, T!AllTrails
<1>2. T(E)!Cardinality(E) = Cardinality(E)
  BY DEF T!Cardinality, Cardinality
<1>3. p \in UNION {[1 .. n -> E] : n \in 1 .. Cardinality(E)}
  BY <1>1, <1>2 DEF T!Candidates
<1>4. PICK n \in 1 .. Cardinality(E) : p \in [1 .. n -> E]
  BY <1>3
<1>5. /\ Len(p) >= 1
      /\ \A i \in 1 .. Len(p) : T(E)!HasType(GraphOf(E), hop, p[i])
      /\ hop.max # NULL => Len(p) <= hop.max
  BY <1>1 DEF T!IsTrail
<1>6. ASSUME NEW i \in 1 .. Len(p), type # NULL
      PROVE  p[i].edge_type = type
  <2>1. T(E)!HasType(GraphOf(E), hop, p[i]) /\ hop.type = type
    BY <1>5
  <2>2. GraphOf(E).type[p[i]] = type
    BY <1>6, <2>1 DEF T!HasType
  <2>3. p[i] \in E
    <3>1. Len(p) = n
      BY <1>4
    <3> QED  BY <1>4, <3>1
  <2>4. GraphOf(E).type[p[i]] = p[i].edge_type
    BY <2>3 DEF GraphOf
  <2> QED  BY <2>2, <2>4
<1> QED  BY <1>4, <1>5, <1>6

\* Functions from parts of a finite set to a finite set are finitely many.
LEMMA FunctionsFinite ==
  ASSUME NEW D, IsFiniteSet(D), NEW S, IsFiniteSet(S), NEW F,
         \A f \in F : \E A \in SUBSET D : f \in [A -> S]
  PROVE  IsFiniteSet(F)
<1> DEFINE graph == [f \in F |-> {<<x, f[x]>> : x \in DOMAIN f}]
<1>1. IsFiniteSet(SUBSET (D \X S))
  BY FS_Product, FS_SUBSET
<1>2. \A f \in F : DOMAIN f \subseteq D /\ f \in [DOMAIN f -> S]
  OBVIOUS
<1>3. graph \in [F -> SUBSET (D \X S)]
  BY <1>2
<1>4. ASSUME NEW f \in F, NEW g \in F, graph[f] = graph[g]
      PROVE  f = g
  <2>1. {<<x, f[x]>> : x \in DOMAIN f} = {<<x, g[x]>> : x \in DOMAIN g}
    BY <1>4
  <2>2. \A x \in DOMAIN f : x \in DOMAIN g /\ f[x] = g[x]
    <3>1. ASSUME NEW x \in DOMAIN f
          PROVE  x \in DOMAIN g /\ f[x] = g[x]
      <4>1. <<x, f[x]>> \in {<<y, g[y]>> : y \in DOMAIN g}
        BY <2>1
      <4> QED  BY <4>1
    <3> QED  BY <3>1
  <2>3. \A x \in DOMAIN g : x \in DOMAIN f
    <3>1. ASSUME NEW x \in DOMAIN g
          PROVE  x \in DOMAIN f
      <4>1. <<x, g[x]>> \in {<<y, f[y]>> : y \in DOMAIN f}
        BY <2>1
      <4> QED  BY <4>1
    <3> QED  BY <3>1
  <2> QED  BY <1>2, <2>2, <2>3
<1> HIDE DEF graph
<1>5. graph \in Injection(F, SUBSET (D \X S))
  BY <1>3, <1>4 DEF Injection, IsInjective
<1> QED  BY <1>1, <1>5, FS_Injection

\* A finite table has finitely many trails.
LEMMA TrailsFinite ==
  ASSUME NEW E, IsFiniteSet(E), NEW type, NEW max
  PROVE  IsFiniteSet(TrailsOf(E, type, max))
<1>1. Cardinality(E) \in Nat /\ IsFiniteSet(1 .. Cardinality(E))
  BY FS_CardinalityType, FS_Interval
<1>2. ASSUME NEW p \in TrailsOf(E, type, max)
      PROVE  \E A \in SUBSET (1 .. Cardinality(E)) : p \in [A -> E]
  <2>1. PICK n \in 1 .. Cardinality(E) : p \in [1 .. n -> E]
    BY TrailIs
  <2>2. 1 .. n \in SUBSET (1 .. Cardinality(E))
    BY <1>1
  <2> QED  BY <2>1, <2>2
<1> QED  BY <1>1, <1>2, FunctionsFinite

\* A reference is to one item.
Denotes(ref, j) == Denoted(ref) = {j}

\* What ON compares is of the item joined or of items before it.
OnLocal ==
  \A n \in 1 .. Len(sql.from) : \A c \in Range(sql.from[n].on), s \in {1, 2} :
    \E j \in 1 .. n : Denotes(c[s], j)

\* The rows of one item more.
NextRows(db, rows, n) ==
  {row \in {Append(r, x) : r \in rows, x \in TableRows(db, sql.from[n].table)} :
     OnHolds(row, n)}

\* The first n items of a row of FROM.
IsJoined(db, row, n) ==
  /\ \E A : row \in [1 .. n -> A]
  /\ \A j \in 1 .. n : row[j] \in TableRows(db, sql.from[j].table) /\ OnHolds(row, j)

\* What a reference reads is in the item it denotes.
LEMMA ValueIs ==
  ASSUME NEW row, NEW ref, NEW j, Denotes(ref, j)
  PROVE  Value(row, ref) = row[j][ref.col]
<1>1. (CHOOSE m \in {j} : TRUE) = j
  OBVIOUS
<1> QED  BY <1>1 DEF Value, Denotes

\* ON clauses say the same of rows that are alike up to the item joined.
LEMMA OnHoldsAlike ==
  ASSUME OnLocal, NEW n \in 1 .. Len(sql.from), NEW row, NEW other,
         \A j \in 1 .. n : row[j] = other[j]
  PROVE  OnHolds(row, n) <=> OnHolds(other, n)
<1>1. ASSUME NEW c \in Range(sql.from[n].on), NEW s \in {1, 2}
      PROVE  Value(row, c[s]) = Value(other, c[s])
  <2>1. PICK j \in 1 .. n : Denotes(c[s], j)
    BY DEF OnLocal
  <2> DEFINE ref == c[s]
  <2>2. Denotes(ref, j)
    BY <2>1
  <2> HIDE DEF ref
  <2>3. Value(row, ref) = row[j][ref.col] /\ Value(other, ref) = other[j][ref.col]
    BY <2>2, ValueIs
  <2>4. Value(row, ref) = Value(other, ref)
    BY <2>3
  <2> QED  BY <2>4 DEF ref
<1>2. \A c \in Range(sql.from[n].on) : Value(row, c[1]) = Value(other, c[1])
                                     /\ Value(row, c[2]) = Value(other, c[2])
  BY <1>1
<1> QED  BY <1>2 DEF OnHolds

\* The rows of FROM are those whose items are rows of their tables and keep
\* every ON clause.
LEMMA JoinedRowsAre ==
  ASSUME NEW Item0, sql.from \in Seq(Item0), OnLocal, NEW db, NEW row
  PROVE  row \in JoinedRows(db) <=> IsJoined(db, row, Len(sql.from))
<1> DEFINE n == Len(sql.from)
           A == UNION {TableRows(db, sql.from[j].table) : j \in 1 .. n}
           V == SUBSET Seq(A)
           D == 0 .. n
           rank == [m \in D |-> m + 1]
           Step(m, f) == IF m = 0 THEN {<<>>} ELSE NextRows(db, f[m - 1], m)
           G == [a \in D \X [D -> V] |-> Step(a[1], a[2])]
<1>1. n \in Nat /\ DOMAIN sql.from = 1 .. n
  BY LenProperties
<1>2. {<<>>} \in V
  BY EmptySeq
<1>t. \A m \in 1 .. n : TableRows(db, sql.from[m].table) \subseteq A
  OBVIOUS
<1>3. ASSUME NEW m \in D, NEW f \in [D -> V]
      PROVE  Step(m, f) \in V
  <2>1. CASE m = 0
    BY <1>2, <2>1
  <2>2. CASE m # 0
    <3>1. m - 1 \in D /\ m \in 1 .. n
      BY <1>1, <2>2
    <3>2. f[m - 1] \subseteq Seq(A)
      BY <3>1
    <3>3. \A q \in f[m - 1], x \in TableRows(db, sql.from[m].table) : Append(q, x) \in Seq(A)
      <4> HIDE DEF A
      <4>1. \A q \in f[m - 1] : q \in Seq(A)
        BY <3>2
      <4>2. \A x \in TableRows(db, sql.from[m].table) : x \in A
        BY <1>t, <3>1
      <4> QED  BY <4>1, <4>2, AppendProperties
    <3> HIDE DEF A
    <3> QED  BY <2>2, <3>3 DEF NextRows
  <2> QED  BY <2>1, <2>2
<1>4. \A m \in D, f \in [D -> V] : G[<<m, f>>] = Step(m, f)
  <2> HIDE DEF Step, V, D
  <2> QED  OBVIOUS
<1>5. G \in [D \X [D -> V] -> V]
  <2> HIDE DEF Step, V, D
  <2> QED  BY <1>3
<1>6. ASSUME NEW m \in D, NEW f \in [D -> V], NEW h \in [D -> V],
             \A d \in D : rank[d] < rank[m] => f[d] = h[d]
      PROVE  G[<<m, f>>] = G[<<m, h>>]
  <2>1. m # 0 => f[m - 1] = h[m - 1]
    <3> HIDE DEF V, G, Step
    <3>1. m # 0 => m - 1 \in D /\ rank[m - 1] < rank[m]
      BY <1>1
    <3> QED  BY <1>6, <3>1
  <2>2. Step(m, f) = Step(m, h)
    BY <2>1
  <2> HIDE DEF G, Step
  <2> QED  BY <1>4, <2>2
<1>7. rank \in [D -> 1 .. n + 1]
  BY <1>1
<1>8. IsRule(G, D, V, rank, n + 1)
  <2>1. V # {} /\ n + 1 \in Nat
    <3> HIDE DEF V, n
    <3> QED  BY <1>1, <1>2
  <2> HIDE DEF G, rank, n, V, D
  <2> QED  BY <1>5, <1>6, <1>7, <2>1 DEF IsRule
<1>9. PICK f \in [D -> V] : \A m \in D : f[m] = G[<<m, f>>]
  <2> HIDE DEF G, rank, n, V, D
  <2>1. IsKept(G, D, V)
    BY <1>8, Recursion
  <2> QED  BY <2>1 DEF IsKept
<1>10. \A m \in D : f[m] = Step(m, f)
  <2> HIDE DEF G, Step, D, V
  <2> QED  BY <1>4, <1>9
<1> HIDE DEF G
<1> DEFINE Is(g) == g = [m \in D |-> Step(m, g)]
           joined == CHOOSE g : Is(g)
<1>11. Is(f)
  <2> HIDE DEF V, Step, D
  <2> QED  BY <1>9, <1>10
<1>12. JoinedRows(db) = joined[n]
  BY DEF JoinedRows, NextRows
<1>13. Is(joined)
  <2> HIDE DEF Is
  <2> QED  BY <1>11
<1> HIDE DEF joined
<1> DEFINE Good(m) == \A r : r \in joined[m] <=> IsJoined(db, r, m)
           S == {m \in 0 .. n : Good(m)}
<1>14. Good(0)
  <2>1. joined[0] = {<<>>}
    BY <1>1, <1>13
  <2>2. \A r : (\E B : r \in [1 .. 0 -> B]) <=> r = <<>>
    <3>1. 1 .. 0 = {}
      OBVIOUS
    <3>2. \A r : (\E B : r \in [{} -> B]) <=> r = <<>>
      <4>1. ASSUME NEW r, NEW B, r \in [{} -> B]
            PROVE  r = <<>>
        BY <4>1
      <4>2. <<>> \in [{} -> {}]
        OBVIOUS
      <4> QED  BY <4>1, <4>2
    <3> QED  BY <3>1, <3>2
  <2>3. 1 .. 0 = {}
    OBVIOUS
  <2> QED  BY <2>1, <2>2, <2>3 DEF IsJoined
<1>15. ASSUME NEW m \in 0 .. n - 1, Good(m)
       PROVE  Good(m + 1)
  <2> DEFINE X == TableRows(db, sql.from[m + 1].table)
  <2>1. joined[m + 1] = {r \in {Append(q, x) : q \in joined[m], x \in X} : OnHolds(r, m + 1)}
    <3>1. m + 1 \in D /\ m + 1 # 0 /\ (m + 1) - 1 = m
      BY <1>1
    <3>2. joined[m + 1] = Step(m + 1, joined)
      <4> HIDE DEF Step, D
      <4> QED  BY <1>13, <3>1
    <3>3. joined[(m + 1) - 1] = joined[m]
      BY <3>1
    <3>4. joined[m + 1] = NextRows(db, joined[m], m + 1)
      BY <3>1, <3>2, <3>3
    <3> QED  BY <3>4 DEF NextRows
  <2>m. m \in Nat /\ m + 1 \in 1 .. n /\ \A j \in 1 .. m : j \in 1 .. n /\ j \in 1 .. m + 1
        /\ \A l \in 1 .. m + 1 : l \in 1 .. m \/ l = m + 1
    BY <1>1
  <2>2. ASSUME NEW r, r \in joined[m + 1]
        PROVE  IsJoined(db, r, m + 1)
    <3>1. PICK q \in joined[m], x \in X : r = Append(q, x) /\ OnHolds(r, m + 1)
      BY <2>1, <2>2
    <3>2. IsJoined(db, q, m)
      BY <1>15
    <3>3. PICK B : q \in [1 .. m -> B]
      BY <3>2 DEF IsJoined
    <3>4. q \in Seq(B) /\ Len(q) = m
      BY <2>m, <3>3, SeqDef
    <3> HIDE DEF X
    <3>5. /\ r \in Seq(B \cup {x}) /\ Len(r) = m + 1 /\ r[m + 1] = x
          /\ \A j \in 1 .. m : r[j] = q[j]
      BY <3>1, <3>4, AppendIs
    <3>6. r \in [1 .. m + 1 -> B \cup {x}]
      BY <3>5, LenProperties
    <3>7. ASSUME NEW j \in 1 .. m
          PROVE  r[j] \in TableRows(db, sql.from[j].table) /\ OnHolds(r, j)
      <4>1. q[j] \in TableRows(db, sql.from[j].table) /\ OnHolds(q, j)
        BY <3>2 DEF IsJoined
      <4>2. \A i \in 1 .. j : i \in 1 .. m
        OBVIOUS
      <4>3. \A i \in 1 .. j : r[i] = q[i]
        BY <3>5, <4>2
      <4>4. OnHolds(r, j) <=> OnHolds(q, j)
        BY <2>m, <4>3, OnHoldsAlike
      <4> QED  BY <3>5, <4>1, <4>4
    <3>8. r[m + 1] \in TableRows(db, sql.from[m + 1].table)
      BY <3>5 DEF X
    <3> HIDE DEF X, V, D, S, Good, Is
    <3>9. ASSUME NEW j \in 1 .. m + 1
          PROVE  r[j] \in TableRows(db, sql.from[j].table) /\ OnHolds(r, j)
      <4>1. CASE j \in 1 .. m
        BY <3>7, <4>1
      <4>2. CASE j = m + 1
        BY <3>1, <3>8, <4>2
      <4> QED  BY <2>m, <4>1, <4>2
    <3>10. \E B2 : r \in [1 .. m + 1 -> B2]
      BY <3>6
    <3> QED  BY <3>9, <3>10 DEF IsJoined
  <2>3. ASSUME NEW r, IsJoined(db, r, m + 1)
        PROVE  r \in joined[m + 1]
    <3>1. PICK B : r \in [1 .. m + 1 -> B]
      BY <2>3 DEF IsJoined
    <3> DEFINE q == [j \in 1 .. m |-> r[j]]
    <3>2. /\ q \in [1 .. m -> B] /\ \A j \in 1 .. m : r[j] = q[j]
          /\ r[m + 1] \in B
      BY <2>m, <3>1
    <3> HIDE DEF q
    <3>3. q \in Seq(B) /\ Len(q) = m
      BY <2>m, <3>2, SeqDef
    <3>4. r = Append(q, r[m + 1])
      <4> DEFINE a == Append(q, r[m + 1])
      <4>1. /\ a \in Seq(B \cup {r[m + 1]}) /\ Len(a) = m + 1
            /\ DOMAIN a = 1 .. m + 1
            /\ \A j \in 1 .. m : a[j] = q[j] /\ a[m + 1] = r[m + 1]
            /\ a[m + 1] = r[m + 1]
        BY <3>3, AppendIs
      <4>2. a \in [1 .. m + 1 -> B \cup {r[m + 1]}]
        <5> HIDE DEF a
        <5> QED  BY <4>1, LenProperties
      <4>3. \A j \in 1 .. m + 1 : a[j] = r[j]
        <5> HIDE DEF a
        <5> QED  BY <2>m, <3>2, <4>1
      <4> HIDE DEF a
      <4>4. r = a
        BY <3>1, <4>2, <4>3
      <4> QED  BY <4>4 DEF a
    <3>5. \A j \in 1 .. m : q[j] \in TableRows(db, sql.from[j].table) /\ OnHolds(q, j)
      <4> SUFFICES ASSUME NEW j \in 1 .. m
                   PROVE  q[j] \in TableRows(db, sql.from[j].table) /\ OnHolds(q, j)
        OBVIOUS
      <4>1. r[j] \in TableRows(db, sql.from[j].table) /\ OnHolds(r, j)
        BY <2>3, <2>m DEF IsJoined
      <4>2. \A i \in 1 .. j : i \in 1 .. m
        OBVIOUS
      <4>3. \A i \in 1 .. j : r[i] = q[i]
        BY <3>2, <4>2
      <4>4. OnHolds(r, j) <=> OnHolds(q, j)
        BY <2>m, <4>3, OnHoldsAlike
      <4> QED  BY <3>2, <4>1, <4>4
    <3>6. q \in joined[m]
      BY <1>15, <3>2, <3>5 DEF IsJoined
    <3>7. r[m + 1] \in X /\ OnHolds(r, m + 1)
      BY <2>3, <2>m DEF IsJoined
    <3> HIDE DEF X
    <3> QED  BY <2>1, <3>4, <3>6, <3>7
  <2> QED  BY <2>2, <2>3
<1>16. Good(n)
  <2> HIDE DEF Good
  <2>1. 0 \in S
    BY <1>1, <1>14
  <2>2. \A m \in 0 .. n - 1 : m \in S => m + 1 \in S
    <3>1. \A m \in 0 .. n - 1 : m + 1 \in 0 .. n
      BY <1>1
    <3> QED  BY <1>15, <3>1
  <2>3. 0 .. n \subseteq S
    <3> HIDE DEF S, n
    <3> QED  BY <1>1, <2>1, <2>2, InductionFromZero
  <2>4. n \in 0 .. n
    BY <1>1
  <2> QED  BY <2>3, <2>4
<1> QED  BY <1>12, <1>16

\* Finite tables join to finitely many rows.
LEMMA JoinedFinite ==
  ASSUME NEW Item0, sql.from \in Seq(Item0), OnLocal, NEW db,
         \A j \in 1 .. Len(sql.from) : IsFiniteSet(TableRows(db, sql.from[j].table))
  PROVE  IsFiniteSet(JoinedRows(db))
<1> DEFINE n == Len(sql.from)
           tables == [j \in 1 .. n |-> TableRows(db, sql.from[j].table)]
           A == UNION Range(tables)
<1>1. n \in Nat /\ IsFiniteSet(1 .. n)
  BY LenProperties, FS_Interval
<1>2. IsFiniteSet(A)
  <2>1. DOMAIN tables = 1 .. n
    OBVIOUS
  <2>2. \A X \in Range(tables) : IsFiniteSet(X)
    BY DEF Range
  <2> HIDE DEF tables
  <2>3. IsFiniteSet(Range(tables))
    BY <1>1, <2>1, RangeFinite
  <2> QED  BY <2>2, <2>3, FS_UNION
<1>3. ASSUME NEW row \in JoinedRows(db)
      PROVE  \E D \in SUBSET (1 .. n) : row \in [D -> A]
  <2>1. IsJoined(db, row, n)
    BY JoinedRowsAre
  <2>2. PICK B : row \in [1 .. n -> B]
    BY <2>1 DEF IsJoined
  <2>3. ASSUME NEW j \in 1 .. n
        PROVE  row[j] \in A
    <3>1. row[j] \in tables[j] /\ tables[j] \in Range(tables)
      BY <2>1 DEF IsJoined, Range
    <3> HIDE DEF tables
    <3> QED  BY <3>1
  <2>4. row \in [1 .. n -> A]
    <3> HIDE DEF A
    <3> QED  BY <2>2, <2>3
  <2> QED  BY <2>4
<1> HIDE DEF A, n
<1> QED  BY <1>1, <1>2, <1>3, FunctionsFinite

-----------------------------------------------------------------------------
(* The clauses say what the query says *)

\* The clauses of a statement, and those that are written once.
Columned == DOMAIN sql = DOMAIN NoSql

\* Each clause is written by the step of its own.
LEMMA OnlyWrites ==
  ASSUME Columned, Next, pc \in Emitting, pc' # "failed"
  PROVE  /\ DOMAIN sql' = DOMAIN NoSql
         /\ ~EmitSelect => sql'.select = sql.select /\ sql'.distinct = sql.distinct
         /\ ~EmitWhere => sql'.where = sql.where
         /\ ~EmitGroup => sql'.group = sql.group
         /\ ~EmitPage => sql'.limit = sql.limit /\ sql'.offset = sql.offset
<1> DEFINE Fields == {"select", "distinct", "where", "group", "limit", "offset",
                      "order", "from", "pred", "with"}
<1>1. DOMAIN sql = Fields /\ DOMAIN NoSql = Fields
  BY DEF Columned, NoSql
<1>2. Phase \/ Clause \/ Skipped \/ Item \/ Predicates
  BY EmittingSteps
<1>3. CASE Phase \/ (Skipped /\ ~EmitPage)
  <2>1. sql' = sql
    <3>1. CASE Phase
      BY <3>1, PhaseOrder
    <3>2. CASE Skipped /\ ~EmitPage
      BY <3>2 DEF Skipped, SkipGroup, SkipLone, SkipJoin, SkipUndirected, SkipWalk, SkipEnd, Skip
    <3> QED  BY <1>3, <3>1, <3>2
  <2> QED  BY <1>1, <2>1
<1>4. CASE EmitPage
  BY <1>1, <1>4 DEF EmitPage
<1>5. CASE Clause
  <2>1. CASE EmitSelect
    BY <1>1, <2>1 DEF EmitSelect
  <2>2. CASE EmitWhere
    BY <1>1, <2>2 DEF EmitWhere
  <2>3. CASE OrderByAlias
    BY <1>1, <2>3 DEF OrderByAlias
  <2>4. CASE EmitOrder
    BY <1>1, <2>4 DEF EmitOrder, Emit
  <2>5. CASE EmitGroup
    BY <1>1, <2>5 DEF EmitGroup, Emit
  <2> QED  BY <1>5, <2>1, <2>2, <2>3, <2>4, <2>5 DEF Clause
<1>6. CASE Item
  <2>1. CASE FromWalk
    BY <1>1, <2>1 DEF FromWalk
  <2>2. CASE ~FromWalk
    <3>1. PICK item : sql' = [sql EXCEPT !.from = Append(@, item)]
      BY <1>6, <2>2 DEF Item, DirectedItem, UndirectedItem, WalkItem, FromEdge, FromLone, FromNode,
           FromUndirected, FromHop, JoinUndirected, JoinWalk, JoinEnd, AddFrom
    <3> QED  BY <1>1, <3>1
  <2> QED  BY <2>1, <2>2
<1>7. CASE Predicates
  <2>1. PICK preds : sql' = [sql EXCEPT !.pred = @ \o preds]
    BY <1>7 DEF Predicates, EmitPreds, PredsUndirected, PredsWalk, AddPreds
  <2> QED  BY <1>1, <2>1
<1> QED  BY <1>2, <1>3, <1>4, <1>5, <1>6, <1>7

\* What the clauses are of the query.
Tested(c) == [reads |-> Reads(c), val |-> c.val]

\* The items that GROUP BY gets.
IsGrouped(j) ==
  /\ \E i \in DOMAIN query.items : IsAggregate(query.items[i])
  /\ ~IsAggregate(query.items[j])

\* Each clause has what the steps so far emitted of the query, and is complete
\* once its phase is over.
SelectInv ==
  /\ \A j \in DOMAIN sql.select :
       CanEmit(query.items[j]) /\ sql.select[j] = Selected(query.items[j])
  /\ sql.select # <<>> => sql.distinct = query.distinct
WhereInv ==
  /\ pc = "select" => sql.where = <<>>
  /\ pc = "where" => Len(sql.where) = k - 1 /\ k <= Len(query.where) + 1
  /\ pc \notin {"select", "where"} => Len(sql.where) = Len(query.where)
  /\ \A j \in DOMAIN sql.where :
       CanTest(query.where[j]) /\ sql.where[j] = Tested(query.where[j])
GroupInv ==
  /\ pc \in {"select", "where", "order"} => sql.group = <<>>
  /\ \A c \in Range(sql.group) :
       \E j \in DOMAIN query.items : IsGrouped(j) /\ c = Emitted(query.items[j])
  /\ pc \notin {"select", "where", "order"} =>
       \A j \in DOMAIN query.items :
         IsGrouped(j) /\ (pc = "group" => j < k) => Emitted(query.items[j]) \in Range(sql.group)
PageInv ==
  (pc = "page" /\ k > 1) \/ pc = "done" =>
    /\ sql.offset = query.skip
    /\ sql.limit = IF query.limit = NULL /\ query.skip # NULL THEN -1 ELSE query.limit

\* The clauses of a translation that is being emitted.
ClauseInv == Columned /\ SelectInv /\ WhereInv /\ GroupInv /\ PageInv

\* The engine starts to emit with an empty statement.
LEMMA Opens ==
  ASSUME DInv, Next, pc \in Unbound, pc' \in Emitting
  PROVE  pc' = "select" /\ k' = 1 /\ sql' = NoSql
<1>1. TypeOK /\ sql = NoSql /\ pc' # "failed"
  BY DEF DInv, LInv, TInv, Unwritten, Emitting
<1>2. CASE Dispatch \/ CollectStart \/ CollectSegment \/ ResolveSlot \/ MarkSlot \/ Bind
  <2>1. pc' \in {"collect", "resolve", "mark", "bind"}
    BY <1>2 DEF Dispatch, CollectStart, CollectSegment, AtSegment, ResolveSlot, MarkSlot, Bind, AtStep
  <2> QED  BY <2>1 DEF Emitting
<1>3. CASE NextPhase
  BY <1>1, <1>3 DEF NextPhase, Phases, Unbound, Emitting
<1>4. CASE OpenUndirected \/ OpenVarlen
  BY <1>1, <1>4 DEF OpenUndirected, OpenVarlen, OpenHop, HopPhases
<1> QED  BY <1>1, <1>2, <1>3, <1>4, UnboundSteps

\* So the clauses are those of the query at first.
LEMMA ClauseFresh ==
  ASSUME pc' = "select", k' = 1, sql' = NoSql
  PROVE  ClauseInv'
<1>1. /\ DOMAIN <<>> = {} /\ Range(<<>>) = {} /\ NoSql.select = <<>> /\ NoSql.where = <<>>
      /\ NoSql.group = <<>>
  BY DEF NoSql, Range
<1> QED  BY <1>1 DEF ClauseInv, Columned, SelectInv, WhereInv, GroupInv, PageInv

\* What an expression becomes depends on the binds alone.
LEMMA ReadsStay ==
  ASSUME binds' = binds
  PROVE  \A e : /\ CanEmit(e)' <=> CanEmit(e)
                /\ Reads(e)' = Reads(e) /\ Emitted(e)' = Emitted(e)
                /\ Selected(e)' = Selected(e) /\ Tested(e)' = Tested(e)
                /\ CanTest(e)' <=> CanTest(e)
<1>1. \A e : HasColumn(e.var, e.key)' <=> HasColumn(e.var, e.key)
  BY DEF HasColumn, HasTable, IsBound, BindOf
<1>2. \A e : HasTable(e.var)' <=> HasTable(e.var)
  BY DEF HasTable, IsBound, BindOf
<1>3. \A e : CanEmit(e)' <=> CanEmit(e)
  BY <1>1, <1>2 DEF CanEmit
<1>4. \A e : Reads(e)' = Reads(e)
  BY DEF Reads, Ref, BindOf
<1> QED  BY <1>3, <1>4 DEF Emitted, Selected, Tested, CanTest

\* A sequence that is appended to has one element more.
LEMMA AppendRange ==
  ASSUME NEW S, NEW X \in Seq(S), NEW c
  PROVE  Range(Append(X, c)) = Range(X) \cup {c}
<1>1. PICK Y : Y = Append(X, c)
  OBVIOUS
<1>2. DOMAIN X = 1 .. Len(X) /\ Len(X) \in Nat
  BY AppendIs
<1>3. DOMAIN Y = 1 .. Len(X) + 1
  BY <1>1, AppendIs
<1>4. (\A n \in 1 .. Len(X) : Y[n] = X[n]) /\ Y[Len(X) + 1] = c
  BY <1>1, AppendIs
<1>5. \A d \in Range(Y) : d \in Range(X) \/ d = c
  BY <1>2, <1>3, <1>4 DEF Range
<1>6. \A d \in Range(X) : d \in Range(Y)
  BY <1>2, <1>3, <1>4 DEF Range
<1>7. c \in Range(Y)
  BY <1>2, <1>3, <1>4 DEF Range
<1> QED  BY <1>1, <1>5, <1>6, <1>7

\* Where a phase of the clauses leaves off.
LEMMA ClauseMoves ==
  ASSUME TypeOK, Clean, Next, pc \in Emitting, pc' # "failed"
  PROVE  /\ pc = "select" => \/ pc' = "select" /\ EmitSelect
                             \/ pc' = "where" /\ k' = 1 /\ ~EmitSelect /\ ~EmitWhere
         /\ pc = "where" => \/ pc' = "where" /\ EmitWhere
                            \/ pc' = "order" /\ k > Len(query.where) /\ ~EmitWhere
         /\ pc = "order" => pc' = "order" \/ (pc' = "group" /\ k' = 1)
         /\ pc = "group" => \/ pc' = "group" /\ k' = k + 1 /\ (EmitGroup \/ ~Grouped)
                            \/ pc' = "from" /\ k > Len(query.items)
         /\ pc \notin {"select", "where", "order"} => pc' \notin {"select", "where", "order"}
         /\ pc \notin {"select", "where", "order", "group"} => pc' # "group"
         /\ pc = "page" /\ pc' = "done" /\ ~EmitPage => k > 1
         /\ pc = "page" /\ pc' = "page" => EmitPage
         /\ pc' = "page" /\ pc # "page" => k' = 1
         /\ pc' = "done" => pc = "page"
         /\ EmitSelect => pc = "select"
         /\ EmitWhere => pc = "where"
         /\ EmitGroup => pc = "group"
         /\ EmitPage => pc = "page" /\ k = 1 /\ pc' = "page"
<1>0. k \in Nat \ {0}
  BY DEF TypeOK, Emitting
<1>1. /\ EmitSelect => pc = "select"
      /\ EmitWhere => pc = "where"
      /\ EmitGroup => pc = "group"
      /\ EmitPage => pc = "page" /\ k <= 1
      /\ EmitOrder \/ OrderByAlias => pc = "order"
      /\ SkipGroup => pc = "group" /\ ~Grouped
  BY DEF EmitSelect, EmitWhere, EmitGroup, EmitPage, EmitOrder, OrderByAlias, SkipGroup, AtStep,
       PhaseLength
<1>2. CASE Phase
  <2>1. /\ k' = 1 /\ PhaseLength < k
        /\ <<pc, pc'>> \in
              {<<"select", "where">>, <<"where", "order">>, <<"order", "group">>,
               <<"group", "from">>, <<"pred", "page">>, <<"page", "done">>,
               <<"join", "pred">>, <<"from", "lone">>, <<"lone", "join">>, <<"from", "join">>}
    BY <1>2, PhaseOrder
  <2>2. /\ pc = "where" => Len(query.where) < k
        /\ pc = "group" => Len(query.items) < k
        /\ pc = "page" => 1 < k
    BY <2>1 DEF PhaseLength
  <2>3. ~EmitSelect /\ ~EmitWhere /\ ~EmitGroup /\ ~EmitPage
    BY <2>1 DEF EmitSelect, EmitWhere, EmitGroup, Emit, EmitPage
  <2> QED  BY <1>0, <2>1, <2>2, <2>3
<1>3. CASE Clause
  <2>1. pc' = pc /\ k' = k + 1
    BY <1>3, ClauseWrites
  <2>2. EmitSelect \/ EmitWhere \/ pc = "order" \/ EmitGroup
    BY <1>1, <1>3 DEF Clause
  <2>3. ~EmitPage
    BY <1>1, <2>2
  <2>4. CASE pc = "select"
    BY <1>1, <2>1, <2>2, <2>3, <2>4
  <2>5. CASE pc = "where"
    BY <1>1, <2>1, <2>2, <2>3, <2>5
  <2>6. CASE pc = "order"
    <3>1. pc' = "order" /\ ~EmitSelect /\ ~EmitWhere /\ ~EmitGroup
      BY <1>1, <2>1, <2>6
    <3> QED  BY <2>3, <2>6, <3>1
  <2>7. CASE pc = "group"
    BY <1>1, <2>1, <2>2, <2>3, <2>7
  <2> QED  BY <1>1, <2>2, <2>4, <2>5, <2>6, <2>7
<1>4. CASE Skipped
  <2>1. pc' = pc /\ k' = k + 1
    BY <1>4, SkipWrites
  <2>2. SkipGroup \/ EmitPage \/ pc \in {"lone", "join"}
    BY <1>4 DEF Skipped, SkipLone, SkipJoin, SkipUndirected, SkipWalk, SkipEnd, AtStep
  <2> QED  BY <1>0, <1>1, <2>1, <2>2
<1>5. CASE Item
  <2>1. pc' = pc /\ pc \in {"from", "lone", "join"}
    BY <1>5, ItemWrites
  <2> QED  BY <1>0, <1>1, <2>1
<1>6. CASE Predicates
  <2>1. pc' = pc /\ pc = "pred"
    BY <1>6, PredsWrites
  <2> QED  BY <1>0, <1>1, <2>1
<1> QED  BY <1>2, <1>3, <1>4, <1>5, <1>6, EmittingSteps

\* Every step of the phases that emit keeps the clauses those of the query.
LEMMA ClauseStep ==
  ASSUME LInv, EInv, AnswerInv, ClauseInv, Next, pc \in Emitting, pc' # "failed"
  PROVE  ClauseInv'
<1>1. /\ TypeOK /\ Clean /\ query' = query /\ binds' = binds /\ pc' \in Emitting /\ Columned
      /\ k \in Nat \ {0} /\ query.items \in Seq(Items) /\ query.where \in Seq(Conds)
  BY EInvStep DEF LInv, TInv, EInv, Steady, TypeOK, QueryType, ClauseInv, Emitting
<1>2. /\ Len(query.items) \in Nat /\ DOMAIN query.items = 1 .. Len(query.items)
      /\ Len(query.where) \in Nat /\ DOMAIN query.where = 1 .. Len(query.where)
  BY <1>1, LenProperties
<1>3. /\ DOMAIN sql' = DOMAIN NoSql
      /\ ~EmitSelect => sql'.select = sql.select /\ sql'.distinct = sql.distinct
      /\ ~EmitWhere => sql'.where = sql.where
      /\ ~EmitGroup => sql'.group = sql.group
      /\ ~EmitPage => sql'.limit = sql.limit /\ sql'.offset = sql.offset
  BY <1>1, OnlyWrites
<1>4. \A e : /\ CanEmit(e)' <=> CanEmit(e)
             /\ Reads(e)' = Reads(e) /\ Emitted(e)' = Emitted(e)
             /\ Selected(e)' = Selected(e) /\ Tested(e)' = Tested(e)
             /\ CanTest(e)' <=> CanTest(e)
  BY <1>1, ReadsStay
<1>f. {"select", "distinct", "where", "group", "limit", "offset"} \subseteq DOMAIN sql
  BY <1>1 DEF Columned, NoSql
<1>5. SelectInv'
  <2>1. CASE EmitSelect
    <3>1. /\ pc = "select" /\ k <= Len(query.items) /\ CanEmit(query.items[k])
          /\ sql'.select = Append(sql.select, Selected(query.items[k]))
      BY <1>1, <2>1, SelectStep DEF EmitSelect
    <3>2. sql'.distinct = query.distinct
      BY <1>f, <2>1 DEF EmitSelect
    <3>3. PICK S : sql.select \in Seq(S)
      BY <1>1 DEF Clean, Written, Clauses
    <3>4. PICK c : c = Selected(query.items[k])
      OBVIOUS
    <3>5. /\ Len(sql.select) = k - 1 /\ DOMAIN sql.select = 1 .. k - 1
          /\ DOMAIN sql'.select = 1 .. k
          /\ \A n \in 1 .. k - 1 : sql'.select[n] = sql.select[n]
          /\ sql'.select[k] = c
      BY <1>1, <3>1, <3>3, <3>4, AppendIs DEF AnswerInv
    <3>6. ASSUME NEW j \in DOMAIN sql'.select
          PROVE  CanEmit(query.items[j]) /\ sql'.select[j] = Selected(query.items[j])
      <4>1. CASE j \in 1 .. k - 1
        BY <3>5, <4>1 DEF ClauseInv, SelectInv
      <4>2. CASE j = k
        BY <3>1, <3>4, <3>5, <4>2
      <4> QED  BY <1>1, <3>5, <4>1, <4>2
    <3> QED  BY <1>1, <1>4, <3>2, <3>6 DEF SelectInv
  <2>2. CASE ~EmitSelect
    BY <1>1, <1>3, <1>4, <2>2 DEF ClauseInv, SelectInv
  <2> QED  BY <2>1, <2>2
<1>m. /\ pc = "select" => \/ pc' = "select" /\ EmitSelect
                          \/ pc' = "where" /\ k' = 1 /\ ~EmitSelect /\ ~EmitWhere
      /\ pc = "where" => \/ pc' = "where" /\ EmitWhere
                         \/ pc' = "order" /\ k > Len(query.where) /\ ~EmitWhere
      /\ pc = "order" => pc' = "order" \/ (pc' = "group" /\ k' = 1)
      /\ pc = "group" => \/ pc' = "group" /\ k' = k + 1 /\ (EmitGroup \/ ~Grouped)
                         \/ pc' = "from" /\ k > Len(query.items)
      /\ pc \notin {"select", "where", "order"} => pc' \notin {"select", "where", "order"}
      /\ pc \notin {"select", "where", "order", "group"} => pc' # "group"
      /\ pc = "page" /\ pc' = "done" /\ ~EmitPage => k > 1
      /\ pc = "page" /\ pc' = "page" => EmitPage
      /\ pc' = "page" /\ pc # "page" => k' = 1
      /\ pc' = "done" => pc = "page"
      /\ EmitSelect => pc = "select"
      /\ EmitWhere => pc = "where"
      /\ EmitGroup => pc = "group"
      /\ EmitPage => pc = "page" /\ k = 1 /\ pc' = "page"
  BY <1>1, ClauseMoves
<1>6. WhereInv'
  <2>1. CASE EmitWhere
    <3>1. /\ pc = "where" /\ k <= Len(query.where) /\ CanTest(query.where[k])
          /\ sql'.where = Append(sql.where, Tested(query.where[k])) /\ k' = k + 1 /\ pc' = pc
      BY <1>f, <2>1 DEF EmitWhere, Tested, AtStep, PhaseLength
    <3>3. PICK S : sql.where \in Seq(S)
      BY <1>1 DEF Clean, Written, Clauses
    <3>4. PICK c : c = Tested(query.where[k])
      OBVIOUS
    <3>5. /\ Len(sql.where) = k - 1 /\ DOMAIN sql.where = 1 .. k - 1
          /\ DOMAIN sql'.where = 1 .. k /\ Len(sql'.where) = k
          /\ \A n \in 1 .. k - 1 : sql'.where[n] = sql.where[n]
          /\ sql'.where[k] = c
      BY <1>1, <3>1, <3>3, <3>4, AppendIs DEF ClauseInv, WhereInv
    <3>6. ASSUME NEW j \in DOMAIN sql'.where
          PROVE  CanTest(query.where[j]) /\ sql'.where[j] = Tested(query.where[j])
      <4>1. CASE j \in 1 .. k - 1
        BY <3>5, <4>1 DEF ClauseInv, WhereInv
      <4>2. CASE j = k
        BY <3>1, <3>4, <3>5, <4>2
      <4> QED  BY <1>1, <3>5, <4>1, <4>2
    <3>7. Len(sql'.where) = k' - 1 /\ k' <= Len(query.where) + 1
      BY <1>1, <1>2, <3>1, <3>5
    <3> QED  BY <1>1, <1>4, <3>1, <3>6, <3>7 DEF WhereInv
  <2>2. CASE ~EmitWhere
    <3>1. sql'.where = sql.where
      BY <1>3, <2>2
    <3>2. pc = "select" => sql.where = <<>> /\ Len(sql.where) = 0
      BY DEF ClauseInv, WhereInv
    <3>3. pc' = "select" => sql'.where = <<>>
      BY <1>m, <3>1, <3>2
    <3>4. pc' = "where" => Len(sql'.where) = k' - 1 /\ k' <= Len(query.where) + 1
      BY <1>1, <1>2, <1>m, <2>2, <3>1, <3>2
    <3>5. pc' \notin {"select", "where"} => Len(sql'.where) = Len(query.where)
      <4>1. pc = "where" /\ pc' # "where" => Len(sql.where) = Len(query.where)
        BY <1>1, <1>2, <1>m DEF ClauseInv, WhereInv
      <4>2. pc \notin {"select", "where"} => Len(sql.where) = Len(query.where)
        BY DEF ClauseInv, WhereInv
      <4> QED  BY <1>m, <3>1, <4>1, <4>2
    <3> QED  BY <1>1, <1>4, <3>1, <3>3, <3>4, <3>5 DEF ClauseInv, WhereInv
  <2> QED  BY <2>1, <2>2
<1>g. \A j : IsGrouped(j)' <=> IsGrouped(j)
  BY <1>1 DEF IsGrouped, IsAggregate
<1>7. GroupInv'
  <2>1. CASE EmitGroup
    <3>1. /\ pc = "group" /\ pc' = "group" /\ k <= Len(query.items) /\ k' = k + 1 /\ IsGrouped(k)
          /\ sql'.group = Append(sql.group, Emitted(query.items[k]))
      BY <1>f, <2>1 DEF EmitGroup, Emit, AtStep, PhaseLength, Grouped, IsGrouped
    <3>3. PICK S : sql.group \in Seq(S)
      BY <1>1 DEF Clean, Written, Clauses
    <3>4. PICK c : c = Emitted(query.items[k])
      OBVIOUS
    <3>5. Range(sql'.group) = Range(sql.group) \cup {c}
      <4>1. sql'.group = Append(sql.group, c)
        BY <3>1, <3>4
      <4> QED  BY <3>3, <4>1, AppendRange
    <3>6. \A d \in Range(sql'.group) :
            \E j \in DOMAIN query.items : IsGrouped(j) /\ d = Emitted(query.items[j])
      <4>1. k \in DOMAIN query.items
        BY <1>1, <1>2, <3>1
      <4> QED  BY <3>1, <3>4, <3>5, <4>1 DEF ClauseInv, GroupInv
    <3>7. ASSUME NEW j \in DOMAIN query.items, IsGrouped(j), j < k'
          PROVE  Emitted(query.items[j]) \in Range(sql'.group)
      <4>1. CASE j < k
        BY <3>1, <3>5, <3>7, <4>1 DEF ClauseInv, GroupInv
      <4>2. CASE j = k
        BY <3>4, <3>5, <4>2
      <4> QED  BY <1>1, <1>2, <3>1, <3>7, <4>1, <4>2
    <3> QED  BY <1>1, <1>4, <1>g, <3>1, <3>6, <3>7 DEF GroupInv
  <2>2. CASE ~EmitGroup
    <3>1. sql'.group = sql.group
      BY <1>3, <2>2
    <3>2. pc' \in {"select", "where", "order"} => sql'.group = <<>>
      BY <1>m, <3>1 DEF ClauseInv, GroupInv
    <3>3. ASSUME pc' \notin {"select", "where", "order"}, NEW j \in DOMAIN query.items,
                 IsGrouped(j), pc' = "group" => j < k'
          PROVE  Emitted(query.items[j]) \in Range(sql.group)
      <4>1. CASE pc \in {"select", "where", "order"}
        <5>1. pc' = "group" /\ k' = 1
          BY <1>m, <3>3, <4>1
        <5> QED  BY <1>2, <3>3, <5>1
      <4>2. CASE pc = "group"
        <5>1. j < k
          <6>1. CASE pc' = "group"
            <7>1. ~Grouped /\ k' = k + 1
              BY <1>m, <2>2, <4>2, <6>1
            <7>2. j # k
              BY <3>3, <7>1 DEF Grouped, IsGrouped
            <7> QED  BY <1>1, <1>2, <3>3, <6>1, <7>1, <7>2
          <6>2. CASE pc' # "group"
            <7>1. k > Len(query.items)
              BY <1>m, <4>2, <6>2
            <7> QED  BY <1>1, <1>2, <7>1
          <6> QED  BY <6>1, <6>2
        <5> QED  BY <3>3, <4>2, <5>1 DEF ClauseInv, GroupInv
      <4>3. CASE pc \notin {"select", "where", "order", "group"}
        BY <3>3, <4>3 DEF ClauseInv, GroupInv
      <4> QED  BY <4>1, <4>2, <4>3
    <3> QED  BY <1>1, <1>4, <1>g, <3>1, <3>2, <3>3 DEF ClauseInv, GroupInv
  <2> QED  BY <2>1, <2>2
<1>8. PageInv'
  <2>1. CASE EmitPage
    <3>1. /\ sql'.offset = query.skip
          /\ sql'.limit = IF query.limit = NULL /\ query.skip # NULL THEN -1 ELSE query.limit
      BY <1>f, <2>1 DEF EmitPage
    <3> QED  BY <1>1, <3>1 DEF PageInv
  <2>2. CASE ~EmitPage
    <3>1. sql'.limit = sql.limit /\ sql'.offset = sql.offset
      BY <1>3, <2>2
    <3>2. (pc' = "page" /\ k' > 1) \/ pc' = "done" => pc = "page" /\ k > 1
      BY <1>m, <2>2
    <3> QED  BY <1>1, <3>1, <3>2 DEF ClauseInv, PageInv
  <2> QED  BY <2>1, <2>2
<1> QED  BY <1>3, <1>5, <1>6, <1>7, <1>8 DEF ClauseInv, Columned

\* The clauses that are emitted are those the query has.
ClausesInv == DInv /\ (pc \in Emitting => ClauseInv)

\* Every step keeps the invariant of the clauses.
LEMMA ClausesInductive == ClausesInv /\ [Next]_vars => ClausesInv'
<1> SUFFICES ASSUME ClausesInv, [Next]_vars PROVE ClausesInv'
  OBVIOUS
<1>1. DInv /\ DInv' /\ TypeOK
  BY DInvStep DEF ClausesInv, DInv, LInv, TInv
<1>2. ASSUME pc' \in Emitting
      PROVE  ClauseInv'
  <2>1. CASE UNCHANGED vars
    <3>1. /\ pc' = pc /\ k' = k /\ sql' = sql /\ query' = query /\ binds' = binds
      BY <2>1 DEF vars
    <3>2. ClauseInv
      BY <1>2, <3>1 DEF ClausesInv
    <3>3. \A e : /\ CanEmit(e)' <=> CanEmit(e)
                 /\ Reads(e)' = Reads(e) /\ Emitted(e)' = Emitted(e)
                 /\ Selected(e)' = Selected(e) /\ Tested(e)' = Tested(e)
                 /\ CanTest(e)' <=> CanTest(e)
      BY <3>1, ReadsStay
    <3>4. \A j : IsGrouped(j)' <=> IsGrouped(j)
      BY <3>1 DEF IsGrouped, IsAggregate
    <3>5. Columned' /\ SelectInv'
      BY <3>1, <3>2, <3>3 DEF ClauseInv, Columned, SelectInv
    <3>6. WhereInv'
      BY <3>1, <3>2, <3>3 DEF ClauseInv, WhereInv
    <3>7. GroupInv'
      BY <3>1, <3>2, <3>3, <3>4 DEF ClauseInv, GroupInv
    <3>8. PageInv'
      BY <3>1, <3>2 DEF ClauseInv, PageInv
    <3> QED  BY <3>5, <3>6, <3>7, <3>8 DEF ClauseInv
  <2>2. CASE Next
    <3>1. CASE pc \in Unbound
      BY <1>1, <1>2, <2>2, <3>1, Opens, ClauseFresh
    <3>2. CASE pc \in Emitting
      <4>1. pc' # "failed"
        BY <1>2 DEF Emitting
      <4>2. LInv /\ EInv /\ AnswerInv /\ ClauseInv
        BY <3>2 DEF ClausesInv, DInv
      <4> QED  BY <2>2, <3>2, <4>1, <4>2, ClauseStep
    <3>3. CASE pc = "failed"
      <4>1. pc' = "failed"
        BY <2>2, <3>3, FailedStays
      <4> QED  BY <1>2, <4>1 DEF Emitting
    <3> QED  BY <1>1, <3>1, <3>2, <3>3, PcIs
  <2> QED  BY <2>1, <2>2
<1> QED  BY <1>1, <1>2 DEF ClausesInv

-----------------------------------------------------------------------------
(* Answers from rows that agree *)

\* The rows of the pattern: the joined rows its predicates keep.
PatternRows(db) == {row \in JoinedRows(db) : \A c \in Range(sql.pred) : Holds(row, c)}

\* A row of the pattern says of every variable that is read what a match says
\* of it.
Agree(db, m, row) ==
  \A var, c :
    HasColumn(var, c) /\ RefOK(Ref(var, c)) =>
      /\ RowOf(db, m, var) \in db[BindOf(var).table]
      /\ RowOf(db, m, var)[c] = Value(row, Ref(var, c))

\* An expression the engine can emit, all of whose references may be made.
ReadsOf(e) == CanEmit(e) /\ \A ref \in Reads(e) : RefOK(ref)

\* The table a variable is bound to is the table its labels mean.
TableFor(var) ==
  LET key == [var |-> var, at |-> NULL] IN IF key \in Keys THEN TableOf(key) ELSE EdgeTable
TablesMeant == \A var : HasTable(var) => BindOf(var).table = TableFor(var)

\* Each laying has its row of the pattern, and each row a laying; the rows that use
\* no relationship twice are those of the matches.
Onto(db, f) ==
  /\ f \in [Layings(db) -> PatternRows(db)]
  /\ \A row \in PatternRows(db) : \E m \in Layings(db) : f[m] = row
  /\ \A m \in Layings(db) : Agree(db, m, f[m])
  /\ \A m \in Layings(db) : RepeatsNone(f[m]) <=> UsesOnce(m)
OneToOneOn(db, f) == \A m, n \in Layings(db) : f[m] = f[n] => m = n

\* Where the statement counts matches no two have one row, and where it does not
\* every laying is a match.
Counts(db, f) ==
  IF CountsMatches THEN OneToOneOn(db, f) ELSE \A m \in Layings(db) : UsesOnce(m)

\* The rows of the statement are those of the pattern the conditions keep.
LEMMA SqlRowsAre ==
  ASSUME NEW db, NEW row
  PROVE  row \in SqlRows(db) <=>
           row \in PatternRows(db) /\ \A c \in Range(sql.where) : Tests(row, c)
BY DEF SqlRows, PatternRows

\* A match answers the query if and only if its row passes the conditions and
\* uses no relationship twice.
LEMMA WhereSame ==
  ASSUME ClauseInv, ReadInv, pc = "done",
         NEW db, NEW m \in Layings(db), NEW row \in PatternRows(db),
         Agree(db, m, row), RepeatsNone(row) <=> UsesOnce(m), query \in QueryType, \E S : sql.where \in Seq(S)
  PROVE  row \in OnceRows(db) <=> m \in QueryRows(db)
<1>0. PICK S : sql.where \in Seq(S) OBVIOUS
<1>1. DOMAIN sql.where = DOMAIN query.where
  <2>1. query.where \in Seq(Conds) BY DEF QueryType
  <2>2. Len(sql.where) = Len(query.where) BY DEF ClauseInv, WhereInv
  <2> QED BY <1>0, <2>1, <2>2
<1>2. ASSUME NEW j \in DOMAIN sql.where
      PROVE  Tests(row, sql.where[j]) <=>
               RowOf(db, m, query.where[j].var)[query.where[j].key] = query.where[j].val
  <2> DEFINE c == query.where[j]
  <2>1. CanTest(c) /\ sql.where[j] = Tested(c) BY DEF ClauseInv, WhereInv
  <2>2. c.kind = "property" /\ HasColumn(c.var, c.key) BY <2>1 DEF CanTest, CanEmit
  <2>3. Reads(c) = {Ref(c.var, c.key)} BY <2>2 DEF Reads
  <2>6. RefOK(Ref(c.var, c.key))
    <3>1. sql.where[j] \in Range(sql.where) /\ sql.where[j].reads = Reads(c)
      BY <2>1 DEF Range, Tested
    <3> QED BY <2>3, <3>1 DEF ReadInv, Clauses, Sound
  <2>4. RowOf(db, m, c.var)[c.key] = Value(row, Ref(c.var, c.key)) BY <2>2, <2>6 DEF Agree
  <2>5. Tests(row, sql.where[j]) <=> Value(row, Ref(c.var, c.key)) = c.val
    BY <2>1, <2>3 DEF Tests, Tested
  <2> QED BY <2>4, <2>5
<1>3. (\A c \in Range(sql.where) : Tests(row, c)) <=>
        (\A c \in Range(query.where) : RowOf(db, m, c.var)[c.key] = c.val)
  BY <1>1, <1>2 DEF Range
<1> QED BY <1>3, SqlRowsAre DEF QueryRows, Matches, OnceRows

\* A column of the answer shows of a row what it shows of the match.
ColumnsOf(row, e) == {<<ref.col, Value(row, ref)>> : ref \in Reads(e)}

\* What SELECT shows of a row is what the query shows of its match.
LEMMA ShownSame ==
  ASSUME NEW db, NEW m, NEW row, Agree(db, m, row), TablesMeant,
         NEW e, ReadsOf(e)
  PROVE  ColumnsOf(row, e) = Shown(db, m, e)
<1>1. CASE e.kind \in {"property", "aggregate"}
  <2>1. HasColumn(e.var, e.key) BY <1>1 DEF CanEmit, ReadsOf
  <2>2. Reads(e) = {Ref(e.var, e.key)} BY <1>1 DEF Reads
  <2>3. Ref(e.var, e.key).col = e.key BY DEF Ref
  <2>4. RowOf(db, m, e.var)[e.key] = Value(row, Ref(e.var, e.key))
    BY <2>1, <2>2 DEF Agree, ReadsOf
  <2>5. ColumnsOf(row, e) = {<<e.key, Value(row, Ref(e.var, e.key))>>}
    BY <2>2, <2>3 DEF ColumnsOf
  <2>6. Shown(db, m, e) = {<<e.key, RowOf(db, m, e.var)[e.key]>>} BY <1>1 DEF Shown
  <2> QED BY <2>4, <2>5, <2>6
<1>2. CASE e.kind = "variable"
  <2>1. HasTable(e.var) BY <1>2 DEF CanEmit, ReadsOf
  <2> DEFINE C == Catalog[BindOf(e.var).table]
  <2>2. Reads(e) = {Ref(e.var, c) : c \in C} BY <1>2 DEF Reads
  <2>3. \A c \in C : /\ Ref(e.var, c).col = c
                     /\ RowOf(db, m, e.var)[c] = Value(row, Ref(e.var, c))
    <3> TAKE c \in C
    <3>1. HasColumn(e.var, c) /\ RefOK(Ref(e.var, c)) BY <2>1, <2>2 DEF HasColumn, ReadsOf
    <3> QED BY <3>1 DEF Agree, Ref
  <2>4. ColumnsOf(row, e) = {<<c, RowOf(db, m, e.var)[c]>> : c \in C}
    <3>1. ColumnsOf(row, e) = {<<ref.col, Value(row, ref)>> : ref \in {Ref(e.var, c) : c \in C}}
      BY <2>2 DEF ColumnsOf
    <3> HIDE DEF C
    <3> QED BY <3>1, <2>3
  <2>5. Shown(db, m, e) = {<<c, RowOf(db, m, e.var)[c]>> : c \in Catalog[TableFor(e.var)]}
    BY <1>2 DEF Shown, TableFor
  <2>6. BindOf(e.var).table = TableFor(e.var) BY <2>1 DEF TablesMeant
  <2> QED BY <2>4, <2>5, <2>6
<1>3. CASE e.kind = "count"
  <2>1. Reads(e) = {} BY <1>3 DEF Reads
  <2>2. Shown(db, m, e) = {} BY <1>3 DEF Shown
  <2> QED BY <2>1, <2>2 DEF ColumnsOf
<1> QED BY <1>1, <1>2, <1>3 DEF CanEmit, ReadsOf

\* At the end every item of the query is a column of the answer.
LEMMA SelectIs ==
  ASSUME ClauseInv, AnswerInv, ReadInv, Clean, pc = "done", query \in QueryType
  PROVE  /\ DOMAIN sql.select = DOMAIN query.items
         /\ \A j \in DOMAIN query.items :
              /\ CanEmit(query.items[j]) /\ sql.select[j] = Selected(query.items[j])
              /\ sql.select[j].reads = Reads(query.items[j])
              /\ ReadsOf(query.items[j])
<1>1. PICK S : sql.select \in Seq(S) BY DEF Clean, Written, Clauses
<1>2. query.items \in Seq(Items) BY DEF QueryType
<1>3. Len(sql.select) = Len(query.items) BY DEF AnswerInv
<1>4. DOMAIN sql.select = DOMAIN query.items BY <1>1, <1>2, <1>3
<1>5. \A j \in DOMAIN query.items : CanEmit(query.items[j]) /\ sql.select[j] = Selected(query.items[j])
  BY <1>4 DEF ClauseInv, SelectInv
<1>6. \A e : Selected(e).reads = Reads(e) BY DEF Selected
<1>7. \A j \in DOMAIN sql.select : Sound(sql.select[j])
  BY DEF ReadInv, Clauses, Range
<1> QED BY <1>4, <1>5, <1>6, <1>7 DEF Sound, ReadsOf

\* What the answer shows of a row is what it shows of the match.
LEMMA LineShown ==
  ASSUME ClauseInv, AnswerInv, ReadInv, Clean, pc = "done", query \in QueryType, TablesMeant,
         NEW db, NEW m \in QueryRows(db), NEW row \in SqlRows(db), Agree(db, m, row)
  PROVE  SqlShown(db)[row] = QueryShown(db)[m]
<1>1. SqlShown(db)[row] =
        [i \in DOMAIN sql.select |-> {<<ref.col, Value(row, ref)>> : ref \in sql.select[i].reads}]
  BY DEF SqlShown
<1>2. QueryShown(db)[m] = [i \in DOMAIN query.items |-> Shown(db, m, query.items[i])]
  BY DEF QueryShown
<1>3. ASSUME NEW i \in DOMAIN query.items
      PROVE  {<<ref.col, Value(row, ref)>> : ref \in sql.select[i].reads} =
               Shown(db, m, query.items[i])
  BY ShownSame, SelectIs DEF ColumnsOf
<1> QED BY <1>1, <1>2, <1>3, SelectIs

\* The page of a query is the page of its statement.
LEMMA PageSame ==
  ASSUME ClauseInv, pc = "done", query \in QueryType, NEW n
  PROVE  SqlPage(n) = QueryPage(n)
<1>1. query.skip \in OrNull(Nat) /\ query.limit \in OrNull(Nat) BY DEF QueryType
<1>2. /\ sql.offset = query.skip
      /\ sql.limit = IF query.limit = NULL /\ query.skip # NULL THEN -1 ELSE query.limit
  BY DEF ClauseInv, PageInv
<1>3. ASSUME NEW l \in 1 .. n
      PROVE  l \in SqlPage(n) <=> l \in QueryPage(n)
  <2>1. l \in Int /\ l >= 1 OBVIOUS
  <2>2. CASE query.skip = NULL /\ query.limit = NULL
    BY <1>2, <2>1, <2>2 DEF SqlPage, QueryPage
  <2>3. CASE query.skip = NULL /\ query.limit # NULL
    BY <1>1, <1>2, <2>1, <2>3 DEF SqlPage, QueryPage, OrNull
  <2>4. CASE query.skip # NULL /\ query.limit = NULL
    BY <1>1, <1>2, <2>1, <2>4 DEF SqlPage, QueryPage, OrNull
  <2>5. CASE query.skip # NULL /\ query.limit # NULL
    BY <1>1, <1>2, <2>1, <2>5 DEF SqlPage, QueryPage, OrNull
  <2> QED BY <2>2, <2>3, <2>4, <2>5
<1>4. SqlPage(n) \subseteq 1 .. n /\ QueryPage(n) \subseteq 1 .. n
  BY DEF SqlPage, QueryPage
<1> HIDE DEF SqlPage, QueryPage
<1> QED BY <1>3, <1>4

-----------------------------------------------------------------------------
(* Groups *)

\* What GROUP BY goes by of an item in a match.
ValueOf(db, m, e) == IF e.kind = "variable" THEN RowOf(db, m, e.var) ELSE Shown(db, m, e)

\* An item that is not aggregated has the same value in two matches if and only
\* if the statement shows the same columns for their rows.
LEMMA ValuesSame ==
  ASSUME NEW db \in Databases, WellNamed, TypeOK, BindsOK, NEW e, ReadsOf(e),
         e.kind = "variable" /\ e.var \in RelVars =>
           \A r, s \in db[EdgeTable] : (\A c \in Catalog[EdgeTable] : r[c] = s[c]) => r = s,
         \A d \in DOMAIN edges : edges[d].var # NULL => edges[d].var \in RelVars,
         NEW m, NEW n, NEW row, NEW other, Agree(db, m, row), Agree(db, n, other), TablesMeant
  PROVE  ValueOf(db, m, e) = ValueOf(db, n, e) <=> ColumnsOf(row, e) = ColumnsOf(other, e)
<1>1. ColumnsOf(row, e) = Shown(db, m, e) /\ ColumnsOf(other, e) = Shown(db, n, e)
  BY ShownSame
<1>2. CASE e.kind # "variable" BY <1>1, <1>2 DEF ValueOf
<1>3. CASE e.kind = "variable"
  <2> DEFINE r == RowOf(db, m, e.var)
             s == RowOf(db, n, e.var)
             table == BindOf(e.var).table
             C == Catalog[table]
  <2>1. HasTable(e.var) BY <1>3 DEF CanEmit, ReadsOf
  <2>2. r \in db[table] /\ s \in db[table]
    <3>1. PICK c : c \in C
      <4>1. table \in DOMAIN Catalog BY <2>1 DEF HasTable
      <4> QED BY <4>1, SchemaAssumption
    <3>2. HasColumn(e.var, c) /\ Ref(e.var, c) \in Reads(e)
      BY <1>3, <2>1, <3>1 DEF HasColumn, Reads
    <3> QED BY <3>2 DEF Agree, ReadsOf
  <2>3. Shown(db, m, e) = {<<c, r[c]>> : c \in C} /\ Shown(db, n, e) = {<<c, s[c]>> : c \in C}
    BY <1>3, <2>1 DEF Shown, TablesMeant, TableFor
  <2>4. (\A c \in C : r[c] = s[c]) => r = s
    <3>1. IsBound(e.var) /\ table # NULL /\ table \in DOMAIN Catalog BY <2>1 DEF HasTable
    <3>2. CASE \E i \in DOMAIN slots : table = slots[i].label
      <4>1. table # EdgeTable BY <3>2 DEF WellNamed
      <4>2. "id" \in C BY <3>1, <4>1, SchemaAssumption
      <4>3. \A x, y \in db[table] : x.id = y.id => x = y
        BY <3>1, <4>1, DatabaseAssumption
      <4> HIDE DEF r, s, C, table
      <4> QED BY <2>2, <4>2, <4>3
    <3>3. CASE \E d \in DOMAIN edges : edges[d].var = e.var /\ table = EdgeTable
      <4>1. e.var # NULL BY <3>1, BoundIs
      <4>2. e.var \in RelVars BY <3>3, <4>1
      <4> QED BY <1>3, <2>2, <3>3, <4>2
    <3> QED BY <3>1, <3>2, <3>3, BoundIs
  <2> HIDE DEF r, s, C
  <2>5. {<<c, r[c]>> : c \in C} = {<<c, s[c]>> : c \in C} <=> \A c \in C : r[c] = s[c]
    <3>1. ASSUME {<<c, r[c]>> : c \in C} = {<<c, s[c]>> : c \in C}, NEW c \in C
          PROVE  r[c] = s[c]
      <4>1. <<c, r[c]>> \in {<<d, s[d]>> : d \in C} BY <3>1
      <4> QED BY <4>1
    <3> QED BY <3>1
  <2>6. ValueOf(db, m, e) = r /\ ValueOf(db, n, e) = s BY <1>3 DEF ValueOf, r, s
  <2> QED BY <1>1, <2>3, <2>4, <2>5, <2>6
<1> QED BY <1>2, <1>3

\* Rows are of one group of the statement if and only if they agree on the
\* columns of every item that is not aggregated.
LEMMA SqlKeysAre ==
  ASSUME GroupInv, pc = "done", Clean, NEW row, NEW other,
         \E i \in DOMAIN query.items : IsAggregate(query.items[i])
  PROVE  SqlKey(row) = SqlKey(other) <=>
           \A i \in DOMAIN query.items :
             ~IsAggregate(query.items[i]) =>
               ColumnsOf(row, query.items[i]) = ColumnsOf(other, query.items[i])
<1> DEFINE Of(r, c) == {<<ref.col, Value(r, ref)>> : ref \in c.reads}
<1>1. SqlKey(row) = [j \in DOMAIN sql.group |-> Of(row, sql.group[j])]
      /\ SqlKey(other) = [j \in DOMAIN sql.group |-> Of(other, sql.group[j])]
  BY DEF SqlKey
<1>2. \A e, r : ColumnsOf(r, e) = Of(r, Emitted(e))
  BY DEF ColumnsOf, Emitted
<1>3. \A c \in Range(sql.group) :
        \E j \in DOMAIN query.items : ~IsAggregate(query.items[j]) /\ c = Emitted(query.items[j])
  BY DEF GroupInv, IsGrouped
<1>4. \A j \in DOMAIN query.items :
        ~IsAggregate(query.items[j]) => Emitted(query.items[j]) \in Range(sql.group)
  BY DEF GroupInv, IsGrouped
<1> HIDE DEF Of
<1>5. SqlKey(row) = SqlKey(other) <=> \A j \in DOMAIN sql.group : Of(row, sql.group[j]) = Of(other, sql.group[j])
  <2>1. ASSUME SqlKey(row) = SqlKey(other), NEW j \in DOMAIN sql.group
        PROVE  Of(row, sql.group[j]) = Of(other, sql.group[j])
    <3>1. SqlKey(row)[j] = Of(row, sql.group[j]) /\ SqlKey(other)[j] = Of(other, sql.group[j])
      BY <1>1
    <3> QED BY <2>1, <3>1
  <2> QED BY <1>1, <2>1
<1>6. SqlKey(row) = SqlKey(other) <=> \A c \in Range(sql.group) : Of(row, c) = Of(other, c)
  BY <1>5 DEF Range
<1> QED BY <1>2, <1>3, <1>4, <1>6

\* Matches are of one group of the query if and only if they have one value for
\* every item that is not aggregated.
LEMMA QueryKeysAre ==
  ASSUME NEW db, NEW m, NEW n
  PROVE  QueryKey(db, m) = QueryKey(db, n) <=>
           \A i \in DOMAIN query.items :
             ~IsAggregate(query.items[i]) =>
               ValueOf(db, m, query.items[i]) = ValueOf(db, n, query.items[i])
<1> DEFINE D == {j \in DOMAIN query.items : ~IsAggregate(query.items[j])}
<1>1. \A x : QueryKey(db, x) = [i \in D |-> ValueOf(db, x, query.items[i])]
  BY DEF QueryKey, ValueOf
<1>2. QueryKey(db, m) = [i \in D |-> ValueOf(db, m, query.items[i])]
      /\ QueryKey(db, n) = [i \in D |-> ValueOf(db, n, query.items[i])]
  BY <1>1
<1>3. \A i \in D : /\ QueryKey(db, m)[i] = ValueOf(db, m, query.items[i])
                   /\ QueryKey(db, n)[i] = ValueOf(db, n, query.items[i])
  BY <1>2
<1> QED BY <1>2, <1>3

-----------------------------------------------------------------------------
(* The answer *)

\* The lines of the statement's answer are those of the query's.
LEMMA LinesOfRows ==
  ASSUME ClauseInv, AnswerInv, ReadInv, Clean, TypeOK, BindsOK, WellNamed, pc = "done",
         TablesMeant, query.items # <<>>, NEW db \in Databases, TellsApart(db),
         \A d \in DOMAIN edges : edges[d].var # NULL => edges[d].var \in RelVars,
         IsFiniteSet(SqlRows(db)),
         NEW f, Onto(db, f), OneToOneOn(db, f)
  PROVE  AnswerOver(db, OnceRows(db)) = QueryAnswer(db)
<1> DEFINE X == OnceRows(db)
           Y == QueryRows(db)
           b == [row \in X |-> CHOOSE m \in Y : f[m] = row]
           items == sql.select
           others == query.items
           shown == Restrict(SqlShown(db), X)
           seen == QueryShown(db)
           key == [row \in X |-> SqlKey(row)]
           other == [m \in Y |-> QueryKey(db, m)]
<1>0. query \in QueryType BY DEF TypeOK
<1>1. \A m \in Layings(db) : /\ f[m] \in PatternRows(db) /\ Agree(db, m, f[m])
                             /\ f[m] \in X <=> m \in Y
  <2>1. \A m \in Layings(db) : /\ f[m] \in PatternRows(db) /\ Agree(db, m, f[m])
                               /\ RepeatsNone(f[m]) <=> UsesOnce(m)
    BY DEF Onto
  <2>2. \E S : sql.where \in Seq(S) BY DEF Clean, Written, Clauses
  <2> QED BY <1>0, <2>1, <2>2, WhereSame
<1>2. Y \subseteq Layings(db) BY DEF QueryRows, Matches
<1>3. X \subseteq PatternRows(db) BY SqlRowsAre DEF OnceRows
<1>4. ASSUME NEW row \in X PROVE b[row] \in Y /\ f[b[row]] = row
  <2>1. PICK m \in Layings(db) : f[m] = row BY <1>3 DEF Onto
  <2>2. m \in Y BY <1>1, <2>1
  <2> HIDE DEF X, Y
  <2> QED BY <2>1, <2>2
<1>5. b \in Bijection(X, Y)
  <2>1. b \in [X -> Y]
    <3>1. \A row \in X : (CHOOSE m \in Y : f[m] = row) \in Y BY <1>4
    <3> HIDE DEF X, Y
    <3> QED BY <3>1
  <2>2. \A x, y \in X : b[x] = b[y] => x = y
    <3> HIDE DEF b, X, Y
    <3> QED BY <1>4
  <2>3. \A y \in Y : \E x \in X : b[x] = y
    <3> TAKE y \in Y
    <3>1. y \in Layings(db) /\ f[y] \in X BY <1>1, <1>2
    <3>2. b[f[y]] \in Y /\ f[b[f[y]]] = f[y] BY <1>4, <3>1
    <3>3. b[f[y]] = y BY <1>2, <3>1, <3>2 DEF OneToOneOn
    <3> HIDE DEF b, X, Y
    <3> QED BY <3>1, <3>3
  <2> HIDE DEF b, X, Y
  <2> QED BY <2>1, <2>2, <2>3, BijectionIs
<1>6. \A x \in X : b[x] \in Y /\ Agree(db, b[x], x)
  BY <1>1, <1>2, <1>4
<1>7. SameItems(items, others)
  <2>1. \A j \in DOMAIN others : items[j] = Selected(others[j]) BY <1>0, SelectIs
  <2>2. \A e : Selected(e).kind = e.kind /\ Selected(e).distinct = e.distinct BY DEF Selected
  <2> QED BY <1>0, <2>1, <2>2, SelectIs DEF SameItems, IsAggregate
<1>8. DOMAIN shown = X /\ DOMAIN seen = Y BY DEF QueryShown, Restrict
<1>9. SeenAs(X, b, items, shown, seen)
  <2>1. \A x \in X : shown[x] = seen[b[x]]
    <3> TAKE x \in X
    <3>1. x \in SqlRows(db) BY DEF OnceRows
    <3>2. PICK y : y = b[x] OBVIOUS
    <3>3. y \in QueryRows(db) /\ Agree(db, y, x) BY <1>6, <3>2
    <3>4. SqlShown(db)[x] = QueryShown(db)[y] BY <1>0, <3>1, <3>3, LineShown
    <3>5. shown[x] = SqlShown(db)[x] BY DEF Restrict
    <3> QED BY <3>2, <3>4, <3>5
  <2> QED BY <2>1 DEF SeenAs
<1>10. DOMAIN key = X /\ DOMAIN other = Y OBVIOUS
<1>11. Mixed(items) => SameKeys(X, b, key, other)
  <2> SUFFICES ASSUME Mixed(items), NEW x \in X, NEW y \in X
               PROVE  key[x] = key[y] <=> other[b[x]] = other[b[y]]
    BY DEF SameKeys
  <2>1. \E i \in DOMAIN others : IsAggregate(others[i])
    BY <1>7 DEF Mixed, Total, SameItems
  <2>2. key[x] = SqlKey(x) /\ key[y] = SqlKey(y) OBVIOUS
  <2>3. b[x] \in Y /\ b[y] \in Y BY <1>6
  <2>4. other[b[x]] = QueryKey(db, b[x]) /\ other[b[y]] = QueryKey(db, b[y]) BY <2>3
  <2>5. Agree(db, b[x], x) /\ Agree(db, b[y], y) BY <1>6
  <2> HIDE DEF b, X, Y, key, other
  <2>6. ASSUME NEW i \in DOMAIN others
        PROVE  ValueOf(db, b[x], others[i]) = ValueOf(db, b[y], others[i])
                 <=> ColumnsOf(x, others[i]) = ColumnsOf(y, others[i])
    <3>1. ReadsOf(others[i]) BY <1>0, SelectIs
    <3>2. others[i].kind = "variable" /\ others[i].var \in RelVars =>
            \A r, s \in db[EdgeTable] : (\A c \in Catalog[EdgeTable] : r[c] = s[c]) => r = s
      BY <2>1 DEF TellsApart
    <3> QED BY <2>5, <3>1, <3>2, ValuesSame
  <2>7. SqlKey(x) = SqlKey(y) <=>
          \A i \in DOMAIN others : ~IsAggregate(others[i]) =>
             ColumnsOf(x, others[i]) = ColumnsOf(y, others[i])
    BY <2>1, SqlKeysAre DEF ClauseInv
  <2>8. QueryKey(db, b[x]) = QueryKey(db, b[y]) <=>
          \A i \in DOMAIN others : ~IsAggregate(others[i]) =>
             ValueOf(db, b[x], others[i]) = ValueOf(db, b[y], others[i])
    BY QueryKeysAre
  <2> QED BY <2>2, <2>4, <2>6, <2>7, <2>8
<1>12. sql.distinct = query.distinct
  <2>1. sql.select # <<>> => sql.distinct = query.distinct BY DEF ClauseInv, SelectInv
  <2>2. DOMAIN items = DOMAIN others BY <1>0, SelectIs
  <2>3. others \in Seq(Items) BY <1>0 DEF QueryType
  <2>4. PICK S : items \in Seq(S) BY DEF Clean, Written, Clauses
  <2> QED BY <2>1, <2>2, <2>3, <2>4
<1>13. Lines(shown, key, items, sql.distinct) = Lines(seen, other, others, sql.distinct)
  <2> HIDE DEF b, X, Y, key, other, items, others, shown, seen
  <2>1. IsFiniteSet(X)
    <3>1. X \subseteq SqlRows(db) BY DEF X, OnceRows
    <3> QED BY <3>1, FS_Subset
  <2> QED BY <2>1, <1>5, <1>7, <1>8, <1>9, <1>10, <1>11, LinesSame
<1> QED BY <1>12, <1>13 DEF AnswerOver, QueryAnswer

\* Without it counting rows, the statement shows what the query shows.
LEMMA LinesShown ==
  ASSUME ClauseInv, AnswerInv, ReadInv, Clean, TypeOK, pc = "done", TablesMeant,
         NEW db, NEW f, Onto(db, f), \A m \in Layings(db) : UsesOnce(m)
  PROVE  Range(SqlShown(db)) = Range(QueryShown(db))
<1> DEFINE X == SqlRows(db)
           Y == QueryRows(db)
<1>0. query \in QueryType BY DEF TypeOK
<1>1. \A m \in Layings(db) : /\ f[m] \in PatternRows(db) /\ Agree(db, m, f[m])
                             /\ f[m] \in X <=> m \in Y
  <2>1. \A m \in Layings(db) : /\ f[m] \in PatternRows(db) /\ Agree(db, m, f[m])
                               /\ RepeatsNone(f[m]) <=> UsesOnce(m)
    BY DEF Onto
  <2>2. \E S : sql.where \in Seq(S) BY DEF Clean, Written, Clauses
  <2>3. \A m \in Layings(db) : f[m] \in OnceRows(db) <=> m \in Y
    BY <1>0, <2>1, <2>2, WhereSame
  <2>4. \A m \in Layings(db) : f[m] \in OnceRows(db) <=> f[m] \in X
    BY <2>1 DEF OnceRows
  <2> QED BY <2>1, <2>3, <2>4
<1>2. Y \subseteq Layings(db) BY DEF QueryRows, Matches
<1>3. X \subseteq PatternRows(db) BY SqlRowsAre
<1>4. \A x \in X : \E m \in Y : f[m] = x
  <2> TAKE x \in X
  <2>1. PICK m \in Layings(db) : f[m] = x BY <1>3 DEF Onto
  <2> HIDE DEF X, Y
  <2> QED BY <1>1, <2>1
<1>5. \A m \in Y : f[m] \in X /\ SqlShown(db)[f[m]] = QueryShown(db)[m]
  <2> TAKE m \in Y
  <2>1. f[m] \in X /\ Agree(db, m, f[m]) BY <1>1, <1>2
  <2> QED BY <1>0, <2>1, LineShown
<1>6. DOMAIN SqlShown(db) = X /\ DOMAIN QueryShown(db) = Y BY DEF SqlShown, QueryShown
<1> HIDE DEF X, Y
<1> QED BY <1>4, <1>5, <1>6 DEF Range

\* If the rows of the pattern are its matches, once each where rows are counted,
\* the statement answers the query.
LEMMA AnswerFrom ==
  ASSUME ClauseInv, AnswerInv, ReadInv, Clean, TypeOK, BindsOK, WellNamed, pc = "done",
         TablesMeant, query.items # <<>>,
         \A d \in DOMAIN edges : edges[d].var # NULL => edges[d].var \in RelVars,
         \A db \in Databases :
           /\ IsFiniteSet(SqlRows(db))
           /\ \E f : Onto(db, f) /\ Counts(db, f)
  PROVE  SameAnswer
<1> SUFFICES ASSUME NEW db \in Databases
             PROVE  IF CountsMatches
                    THEN /\ TellsApart(db) => AnswerOver(db, OnceRows(db)) = QueryAnswer(db)
                         /\ LET n == Cardinality(SqlRows(db)) IN SqlPage(n) = QueryPage(n)
                    ELSE Range(SqlShown(db)) = Range(QueryShown(db))
  BY DEF SameAnswer
<1>1. PICK f : Onto(db, f) /\ Counts(db, f) OBVIOUS
<1>2. IsFiniteSet(SqlRows(db)) OBVIOUS
<1>3. query \in QueryType BY DEF TypeOK
<1>4. \A n : SqlPage(n) = QueryPage(n) BY <1>3, PageSame
<1>5. ASSUME CountsMatches, TellsApart(db)
      PROVE  AnswerOver(db, OnceRows(db)) = QueryAnswer(db)
  BY <1>1, <1>2, <1>5, LinesOfRows DEF Counts
<1>6. ASSUME ~CountsMatches PROVE Range(SqlShown(db)) = Range(QueryShown(db))
  BY <1>1, <1>6, LinesShown DEF Counts
<1> QED BY <1>4, <1>5, <1>6

-----------------------------------------------------------------------------
(* FROM and the predicates, exactly *)

\* The ON clause of a relationship and of a node, by the engine, and the
\* predicates of a relationship.
EdgeOn(e) == IF Engine = "directed" THEN EdgeTies(e) ELSE <<>>
NodeTie(i, a, t) ==
  <<<<[alias |-> SlotAlias(i), col |-> "id", of |-> <<"slot", i>>], EdgeRef(a, IdColumn(t))>>>>
NodeOn(i) ==
  IF Engine = "directed"
  THEN IF slots[i].lone THEN <<>> ELSE NodeTie(i, slots[i].anchor, slots[i].onTarget)
  ELSE IF Engine = "undirected" THEN <<>> ELSE NodeTie(i, 1, i = SlotOf("target"))

\* An item of FROM has the ON clause of what it stands for.
OnExact(item) ==
  /\ \A e \in DOMAIN edges : item.of = <<"edge", e>> => item.on = EdgeOn(e)
  /\ \A i \in DOMAIN slots : item.of = <<"slot", i>> => item.on = NodeOn(i)
PredsOf(e) ==
  CASE Engine = "directed" -> EdgePreds(e) \o PropPreds(e)
    [] Engine = "undirected" -> TypePreds \o OrientationPreds \o PropPreds(1)
    [] Engine = "varlen" -> EndPreds("source") \o EndPreds("target") \o DepthPreds
PredsUpTo(n) == UNION {Range(PredsOf(e)) : e \in 1 .. n}

\* The ON clauses and the predicates are those of the relationships and nodes
\* passed so far, and the common table expression is that of the query.
FromExact == \A j \in DOMAIN sql.from : OnExact(sql.from[j])
PredExact ==
  /\ pc = "pred" => Range(sql.pred) = PredsUpTo(k - 1) /\ k <= Len(edges) + 1
  /\ pc \in {"page", "done"} => Range(sql.pred) = PredsUpTo(Len(edges))
  /\ pc \in Emitting \ {"pred", "page", "done"} => sql.pred = <<>>
WithExact ==
  Engine = "varlen" /\ (pc \in Late \/ (pc = "from" /\ k > 1)) =>
    sql.with[1].type = edges[1].type /\ sql.with[1].max = ReadMax
ExactInv == FromExact /\ PredExact /\ WithExact

\* What an ON clause is made of stays as it is once clauses are emitted.
LEMMA OnKept ==
  ASSUME TInv, Steady, NEW item, OnExact(item)
  PROVE  OnExact(item)'
<1>1. Engine' = Engine BY QueryStays DEF Steady
<1>2. \A i \in DOMAIN slots : MarksOnly(slots[i], slots'[i]) BY DEF Steady
<1>3. \A e, c : EdgeRef(e, c)' = EdgeRef(e, c) BY DEF EdgeRef, EdgeAlias, Steady
<1>4. ASSUME NEW i \in DOMAIN slots PROVE NodeOn(i)' = NodeOn(i)
  <2>1. SlotOf("target")' = SlotOf("target") BY DEF SlotOf, OnLeft, Rel, Steady
  <2>2. SlotAlias(i)' = SlotAlias(i) BY <1>2 DEF SlotAlias, MarksOnly
  <2>3. \A a, t : NodeTie(i, a, t)' = NodeTie(i, a, t) BY <1>3, <2>2 DEF NodeTie
  <2> QED BY <1>1, <1>2, <2>1, <2>3 DEF NodeOn, MarksOnly
<1>5. ASSUME NEW e \in DOMAIN edges PROVE EdgeOn(e)' = EdgeOn(e)
  <2>1. CASE Engine # "directed" BY <1>1, <2>1 DEF EdgeOn
  <2>2. CASE Engine = "directed"
    <3>1. edges[e].src \in DOMAIN slots /\ edges[e].tgt \in DOMAIN slots
      BY <2>2 DEF TInv, IInv, SidesIn
    <3>2. \A i \in DOMAIN slots : \A t : Ties(e, i, t)' = Ties(e, i, t)
      BY <1>2, <1>3 DEF Ties, MarksOnly
    <3>3. edges' = edges BY DEF Steady
    <3> QED BY <1>1, <2>2, <3>1, <3>2, <3>3 DEF EdgeOn, EdgeTies
  <2> QED BY <2>1, <2>2
<1>6. edges' = edges /\ DOMAIN slots' = DOMAIN slots BY DEF Steady
<1> QED BY <1>4, <1>5, <1>6 DEF OnExact

\* The item a step writes has the ON clause of what it stands for.
LEMMA ItemExact ==
  ASSUME TypeOK, HopShape, MarkInv, Item
  PROVE  OnExact(ItemWritten)
<1>1. Engine \in {"directed", "undirected", "varlen"} BY DEF Engine
<1>2. pc \in {"from", "lone", "join"}
  BY DEF Item, DirectedItem, UndirectedItem, WalkItem, FromEdge, FromLone, FromNode,
         FromUndirected, FromHop, JoinUndirected, JoinEnd, FromWalk, JoinWalk, AtStep
<1>3. CASE Engine = "directed"
  <2>1. FromEdge \/ FromLone \/ FromNode
    BY <1>3 DEF Item, DirectedItem, UndirectedItem, WalkItem
  <2>2. CASE FromEdge
    <3>1. ItemWritten.of = <<"edge", k>> /\ ItemWritten.on = EdgeTies(k)
      BY <1>3, <2>2 DEF FromEdge, AtStep, ItemWritten, FromItem
    <3>2. \A e : <<"edge", k>> = <<"edge", e>> => e = k OBVIOUS
    <3>3. \A i : <<"edge", k>> # <<"slot", i>> OBVIOUS
    <3> QED BY <1>3, <3>1, <3>2, <3>3 DEF OnExact, EdgeOn
  <2>3. CASE FromLone
    <3>1. ItemWritten.of = <<"slot", k>> /\ ItemWritten.on = <<>> /\ slots[k].lone
      BY <1>3, <2>3 DEF FromLone, AtStep, ItemWritten, FromItem
    <3>2. \A e : <<"slot", k>> = <<"slot", e>> => e = k OBVIOUS
    <3>3. \A i : <<"edge", i>> # <<"slot", k>> OBVIOUS
    <3> QED BY <1>3, <3>1, <3>2, <3>3 DEF OnExact, NodeOn
  <2>4. CASE FromNode
    <3>1. /\ ItemWritten.of = <<"slot", k>> /\ ~slots[k].lone
          /\ ItemWritten.on = NodeTie(k, slots[k].anchor, slots[k].onTarget)
      BY <1>3, <2>4 DEF FromNode, AtStep, ItemWritten, FromItem, Joins, NodeTie
    <3>2. \A e : <<"slot", k>> = <<"slot", e>> => e = k OBVIOUS
    <3>3. \A i : <<"edge", i>> # <<"slot", k>> OBVIOUS
    <3> QED BY <1>3, <3>1, <3>2, <3>3 DEF OnExact, NodeOn
  <2> QED BY <2>1, <2>2, <2>3, <2>4
<1>4. CASE Engine = "undirected"
  <2>1. \E n : ItemWritten.of = <<"edge", n>> \/ ItemWritten.of = <<"slot", n>>
    BY <1>4 DEF ItemWritten, FromItem
  <2>2. ItemWritten.on = <<>> BY <1>4 DEF ItemWritten, FromItem
  <2> QED BY <1>4, <2>2 DEF OnExact, EdgeOn, NodeOn
<1>5. CASE Engine = "varlen"
  <2>1. CASE pc = "from"
    <3>1. ItemWritten.of = <<"edge", 1>> /\ ItemWritten.on = <<>>
      BY <1>5, <2>1 DEF ItemWritten, FromItem
    <3>2. \A i : <<"edge", 1>> # <<"slot", i>> OBVIOUS
    <3> QED BY <1>5, <3>1, <3>2 DEF OnExact, EdgeOn
  <2>2. CASE pc # "from"
    <3>1. JoinWalk
      BY <1>5, <2>2 DEF Item, DirectedItem, UndirectedItem, WalkItem, FromWalk, AtStep
    <3>2. PICK i : i = SlotOf(Side) OBVIOUS
    <3>3. i \in DOMAIN slots BY <1>5, <3>2 DEF SlotOf, HopShape
    <3>4. SlotAlias(i) = slots[i].var
      BY <3>1, <3>2, <3>3 DEF JoinWalk, JoinEnd, MarkInv, SlotAlias
    <3>5. (Side = "target") = (i = SlotOf("target"))
      BY <3>2 DEF Side, SlotOf, OnLeft
    <3>6. ItemWritten.of = <<"slot", i>> /\ ItemWritten.on = NodeTie(i, 1, i = SlotOf("target"))
      BY <1>5, <2>2, <3>2, <3>4, <3>5 DEF ItemWritten, FromItem, NodeTie
    <3>7. \A j : <<"slot", i>> = <<"slot", j>> => j = i OBVIOUS
    <3>8. \A e : <<"edge", e>> # <<"slot", i>> OBVIOUS
    <3> QED BY <1>5, <3>6, <3>7, <3>8 DEF OnExact, NodeOn
  <2> QED BY <2>1, <2>2
<1> QED BY <1>1, <1>3, <1>4, <1>5

\* The predicates of a relationship depend on nothing that changes once FROM is
\* being written.
LEMMA PredsStay ==
  ASSUME TypeOK, Steady, slots' = slots
  PROVE  \A n : PredsUpTo(n)' = PredsUpTo(n)
<1>1. Engine' = Engine BY QueryStays DEF Steady
<1>2. query' = query /\ edges' = edges BY DEF Steady
<1>3. \A e, c : EdgeRef(e, c)' = EdgeRef(e, c) BY <1>2 DEF EdgeRef, EdgeAlias
<1>4. \A e : EdgePreds(e)' = EdgePreds(e) BY <1>2, <1>3 DEF EdgePreds, IfGiven, Equals
<1>5. \A e : PropPreds(e)' = PropPreds(e) BY <1>2, <1>3 DEF PropPreds, Equals
<1>6. TypePreds' = TypePreds BY <1>2, <1>3 DEF TypePreds, IfGiven, Equals
<1>7. OrientationPreds' = OrientationPreds
  <2>1. \A i, t : SideIds(i, t)' = SideIds(i, t) /\ SideNames(i, t)' = SideNames(i, t)
    BY <1>3 DEF SideIds, SideNames, SlotRef
  <2>2. EitherWay' = EitherWay BY <2>1 DEF EitherWay, Orientation
  <2> QED BY <2>2 DEF OrientationPreds
<1>8. \A side : EndPreds(side)' = EndPreds(side)
  BY <1>2, <1>3 DEF EndPreds, IfGiven, Equals, SlotOf, OnLeft, Rel
<1>9. DepthPreds' = DepthPreds BY <1>2, <1>3 DEF DepthPreds, ReadMin, Rel
<1>10. \A e : PredsOf(e)' = PredsOf(e)
  BY <1>1, <1>4, <1>5, <1>6, <1>7, <1>8, <1>9 DEF PredsOf
<1> QED BY <1>10 DEF PredsUpTo

\* The values of two sequences in one.
LEMMA ConcatIs ==
  ASSUME NEW S, NEW X \in Seq(S), NEW T0, NEW Y \in Seq(T0)
  PROVE  Range(X \o Y) = Range(X) \cup Range(Y)
<1>1. X \in Seq(S \cup T0) /\ Y \in Seq(S \cup T0)
  <2>1. \A Z, A, B : Z \in Seq(A) /\ A \subseteq B => Z \in Seq(B) OBVIOUS
  <2> QED BY <2>1
<1>2. /\ Len(X \o Y) = Len(X) + Len(Y) /\ Len(X) \in Nat /\ Len(Y) \in Nat
      /\ DOMAIN (X \o Y) = 1 .. Len(X) + Len(Y)
      /\ DOMAIN X = 1 .. Len(X) /\ DOMAIN Y = 1 .. Len(Y)
  BY <1>1
<1>3. /\ \A n \in 1 .. Len(X) : (X \o Y)[n] = X[n]
      /\ \A n \in 1 .. Len(Y) : (X \o Y)[Len(X) + n] = Y[n]
  BY <1>1, <1>2
<1>4. ASSUME NEW n \in 1 .. Len(X) + Len(Y)
      PROVE  n \in 1 .. Len(X) \/ \E m \in 1 .. Len(Y) : n = Len(X) + m
  <2>1. CASE n <= Len(X) BY <1>2, <2>1
  <2>2. CASE n > Len(X)
    <3>1. n - Len(X) \in 1 .. Len(Y) /\ n = Len(X) + (n - Len(X)) BY <1>2, <2>2
    <3> QED BY <3>1
  <2> QED BY <1>2, <2>1, <2>2
<1>5. ASSUME NEW n \in 1 .. Len(X) + Len(Y) PROVE (X \o Y)[n] \in Range(X) \cup Range(Y)
  <2>1. CASE n \in 1 .. Len(X)
    <3>1. X[n] \in Range(X) BY <1>2, <2>1 DEF Range
    <3> QED BY <1>3, <2>1, <3>1
  <2>2. CASE n \notin 1 .. Len(X)
    <3>1. PICK m \in 1 .. Len(Y) : n = Len(X) + m BY <1>4, <2>2
    <3>2. Y[m] \in Range(Y) BY <1>2, <3>1 DEF Range
    <3> QED BY <1>3, <3>1, <3>2
  <2> QED BY <2>1, <2>2
<1>6. \A v : v \in Range(X) \cup Range(Y) => v \in Range(X \o Y)
  <2>1. \A n \in 1 .. Len(X) : n \in 1 .. Len(X) + Len(Y) BY <1>2
  <2>2. \A n \in 1 .. Len(Y) : Len(X) + n \in 1 .. Len(X) + Len(Y) BY <1>2
  <2> QED BY <1>2, <1>3, <2>1, <2>2 DEF Range
<1>7. \A v : v \in Range(X \o Y) => v \in Range(X) \cup Range(Y)
  <2> SUFFICES ASSUME NEW v, v \in Range(X \o Y) PROVE v \in Range(X) \cup Range(Y)
    OBVIOUS
  <2>1. PICK n \in 1 .. Len(X) + Len(Y) : v = (X \o Y)[n] BY <1>2 DEF Range
  <2> QED BY <1>5, <2>1
<1> QED BY <1>6, <1>7

\* FROM and the predicates stay exact with every step.
LEMMA ExactStep ==
  ASSUME LInv, EInv, ExactInv, Next, pc \in Emitting, pc' # "failed"
  PROVE  ExactInv'
<1>1. TypeOK /\ TInv /\ k \in Nat BY DEF LInv, TInv, TypeOK
<1>2. Phase \/ Clause \/ Skipped \/ Item \/ Predicates BY EmittingSteps
<1>3. Len(edges) \in Nat /\ DOMAIN edges = 1 .. Len(edges) BY <1>1, LenProperties DEF TypeOK
<1>4. Steady BY EInvStep
<1>5. Engine' = Engine /\ query' = query /\ edges' = edges
  BY <1>4, QueryStays DEF Steady
<1>6. sql'.from = sql.from => FromExact'
  <2> SUFFICES ASSUME sql'.from = sql.from, NEW j \in DOMAIN sql'.from, NEW x, x = sql'.from[j]
               PROVE  OnExact(x)'
    BY DEF FromExact, OnExact
  <2>1. OnExact(x) BY DEF ExactInv, FromExact
  <2> QED BY <1>1, <1>4, <2>1, OnKept
<1>7. ReadMax' = ReadMax BY <1>5 DEF ReadMax, Rel
<1>8. CASE Phase
  <2>1. /\ pc' \in Emitting /\ k' = 1 /\ PhaseLength < k
        /\ UNCHANGED <<query, slots, edges, binds, sql>>
        /\ <<pc, pc'>> \in
           {<<"select", "where">>, <<"where", "order">>, <<"order", "group">>,
            <<"group", "from">>, <<"pred", "page">>, <<"page", "done">>,
            <<"join", "pred">>, <<"from", "lone">>, <<"lone", "join">>, <<"from", "join">>}
    BY <1>8, PhaseOrder
  <2>2. \A n : PredsUpTo(n)' = PredsUpTo(n) BY <1>1, <1>4, <2>1, PredsStay
  <2>3. pc = "pred" => k - 1 = Len(edges)
    <3>1. pc = "pred" => PhaseLength = Len(edges) BY DEF PhaseLength
    <3> QED BY <1>1, <1>3, <2>1, <3>1 DEF ExactInv, PredExact
  <2>4. PredsUpTo(0) = {} BY DEF PredsUpTo
  <2>5. Range(<<>>) = {} BY DEF Range
  <2>6. PredExact'
    <3>1. CASE pc = "pred" BY <1>5, <2>1, <2>2, <2>3, <3>1 DEF ExactInv, PredExact
    <3>2. CASE pc = "page" BY <1>5, <2>1, <2>2, <3>2 DEF ExactInv, PredExact
    <3>3. CASE pc = "join"
      <4>1. sql'.pred = <<>> /\ k' = 1 /\ pc' = "pred" /\ edges' = edges
        BY <1>5, <2>1, <3>3 DEF ExactInv, PredExact, Emitting
      <4>2. ASSUME NEW n, n = 0 PROVE PredsUpTo(n)' = {} BY <2>2, <2>4, <4>2
      <4>3. k' - 1 = 0 BY <4>1
      <4>4. PredsUpTo(k - 1)' = {} BY <4>2, <4>3
      <4>5. Range(sql'.pred) = {} BY <2>5, <4>1
      <4>6. k' <= Len(edges') + 1 BY <1>3, <4>1
      <4>7. Range(sql'.pred) = PredsUpTo(k - 1)' BY <4>4, <4>5
      <4> QED BY <4>1, <4>6, <4>7 DEF PredExact
    <3>4. CASE pc \notin {"pred", "page", "join"}
      BY <2>1, <3>4 DEF ExactInv, PredExact, Emitting
    <3> QED BY <3>1, <3>2, <3>3, <3>4
  <2>7. WithExact'
    <3>1. Engine = "varlen" /\ pc' \in Late => pc \in Late \/ (pc = "from" /\ k > 1)
      <4>1. Engine = "varlen" /\ pc = "from" => PhaseLength = 1
        <5>1. Engine = "varlen" => DOMAIN edges = {1} BY DEF EInv, HopShape
        <5> QED BY <1>3, <5>1 DEF PhaseLength
      <4>2. pc \in Late \/ pc = "from" \/ pc' \notin Late BY <2>1 DEF Late
      <4> QED BY <1>1, <2>1, <4>1, <4>2
    <3>2. ~(pc' = "from" /\ k' > 1) BY <2>1
    <3>3. sql' = sql BY <2>1
    <3> QED BY <1>5, <1>7, <3>1, <3>2, <3>3 DEF ExactInv, WithExact
  <2> QED BY <1>6, <2>1, <2>6, <2>7 DEF ExactInv
<1>9. CASE Skipped
  <2>1. WritesNothing /\ pc' = pc /\ k' = k + 1 BY <1>1, <1>9, SkipWrites DEF EInv
  <2>2. pc # "from" /\ pc # "pred"
    BY <1>9 DEF Skipped, SkipGroup, EmitPage, SkipLone, SkipJoin,
             SkipUndirected, SkipWalk, SkipEnd, AtStep
  <2>3. \A n : PredsUpTo(n)' = PredsUpTo(n) BY <1>1, <1>4, <2>1, PredsStay DEF WritesNothing
  <2>4. sql'.from = sql.from /\ sql'.pred = sql.pred /\ sql'.with = sql.with
    BY <2>1 DEF WritesNothing, Others, Written
  <2>5. PredExact' BY <1>5, <2>1, <2>2, <2>3, <2>4 DEF ExactInv, PredExact
  <2>6. WithExact' BY <1>5, <1>7, <2>1, <2>2, <2>4 DEF ExactInv, WithExact
  <2> QED BY <1>6, <2>4, <2>5, <2>6 DEF ExactInv
<1>10. CASE Clause
  <2>1. pc' = pc /\ \E f \in Clauses : \E c : WritesClause(f, c)
    BY <1>1, <1>10, ClauseWrites DEF EInv
  <2>2. PICK f \in Clauses : \E c : WritesClause(f, c) BY <2>1
  <2>3. /\ pc \in Clauses
        /\ sql'.from = sql.from /\ sql'.pred = sql.pred /\ sql'.with = sql.with
    BY <2>2 DEF WritesClause, Others, Written, Clauses
  <2>4. PredExact' BY <2>1, <2>3 DEF ExactInv, PredExact, Clauses
  <2>5. WithExact' BY <2>1, <2>3 DEF ExactInv, WithExact, Clauses, Late
  <2> QED BY <1>6, <2>3, <2>4, <2>5 DEF ExactInv
<1>11. CASE Predicates
  <2>1. pc' = pc /\ pc = "pred" /\ k' = k + 1 /\ WritesPreds(PredsWritten)
    BY <1>1, <1>11, PredsWrites DEF EInv
  <2>2. SoundSeq(PredsWritten) BY <1>1, <1>11, PredsSound DEF EInv
  <2>3. PICK S : PredsWritten \in Seq(S) BY <2>2 DEF SoundSeq
  <2>4. PICK S0 : sql.pred \in Seq(S0) BY DEF EInv, Clean, Written
  <2>5. /\ sql'.pred = sql.pred \o PredsWritten /\ slots' = slots
        /\ sql'.from = sql.from /\ sql'.with = sql.with
    BY <2>1 DEF WritesPreds, Others, Written
  <2>6. Range(sql'.pred) = Range(sql.pred) \cup Range(PredsWritten)
    BY <2>3, <2>4, <2>5, ConcatIs
  <2>7. k \in 1 .. Len(edges)
    <3>1. k <= PhaseLength
      BY <1>11 DEF Predicates, EmitPreds, PredsUndirected, PredsWalk, AtStep
    <3>2. PhaseLength = Len(edges) BY <2>1 DEF PhaseLength
    <3>3. k # 0 BY <1>1, <2>1 DEF TypeOK
    <3> QED BY <1>1, <1>3, <3>1, <3>2, <3>3
  <2>8. PredsWritten = PredsOf(k) BY DEF PredsWritten, PredsOf
  <2>9. PredsUpTo(k) = PredsUpTo(k - 1) \cup Range(PredsOf(k))
    <3>1. 1 .. k = (1 .. k - 1) \cup {k} BY <1>3, <2>7
    <3> QED BY <3>1 DEF PredsUpTo
  <2>10. \A n : PredsUpTo(n)' = PredsUpTo(n) BY <1>1, <1>4, <2>5, PredsStay
  <2>11. Range(sql'.pred) = PredsUpTo(k) /\ k <= Len(edges)
    BY <2>1, <2>6, <2>7, <2>8, <2>9 DEF ExactInv, PredExact
  <2>12. ASSUME NEW n, n = k PROVE PredsUpTo(n)' = PredsUpTo(k) BY <2>10, <2>12
  <2>13. k' - 1 = k BY <1>1, <2>1
  <2>14. PredsUpTo(k - 1)' = PredsUpTo(k) BY <2>12, <2>13
  <2>15. k' <= Len(edges') + 1 BY <1>3, <1>5, <2>1, <2>7
  <2>16. PredExact' BY <2>1, <2>11, <2>14, <2>15 DEF PredExact, Emitting
  <2>17. WithExact' BY <1>5, <1>7, <2>1, <2>5 DEF ExactInv, WithExact, Late
  <2> QED BY <1>6, <2>5, <2>16, <2>17 DEF ExactInv
<1>12. CASE Item
  <2>1. /\ pc' = pc /\ pc \in {"from", "lone", "join"} /\ k' = k + 1
        /\ WritesItem(ItemWritten)
        /\ "with" \in DOMAIN sql' /\ (~FromWalk => sql'.with = sql.with)
    BY <1>1, <1>12, ItemWrites DEF EInv
  <2>2. PICK S : sql.from \in Seq(S) BY DEF EInv, Clean, Written
  <2>3. OnExact(ItemWritten) BY <1>1, <1>12, ItemExact DEF EInv
  <2>4. PICK item : item = ItemWritten OBVIOUS
  <2>5. OnExact(item) /\ sql'.from = Append(sql.from, item) /\ sql'.pred = sql.pred
    BY <2>1, <2>3, <2>4 DEF WritesItem
  <2>6. \A x \in Range(sql'.from) : x \in Range(sql.from) \/ x = item
    BY <2>2, <2>5, AppendIs
  <2>7. FromExact'
    <3>1. ASSUME NEW j \in DOMAIN sql'.from, NEW x, x = sql'.from[j] PROVE OnExact(x)'
      <4>1. OnExact(x) BY <2>5, <2>6, <3>1 DEF ExactInv, FromExact, Range
      <4> QED BY <1>1, <1>4, <4>1, OnKept
    <3> QED BY <3>1 DEF FromExact, OnExact
  <2>8. PredExact' BY <2>1, <2>5 DEF ExactInv, PredExact, Emitting
  <2>9. WithExact'
    <3>1. CASE FromWalk
      <4>1. sql'.with = <<[name |-> WalkTable, type |-> edges[1].type, max |-> ReadMax]>>
        BY <3>1 DEF FromWalk, EInv, Clean, Written
      <4> QED BY <1>5, <1>7, <4>1 DEF WithExact
    <3>2. CASE ~FromWalk /\ pc # "from"
      BY <1>5, <1>7, <2>1, <3>2 DEF ExactInv, WithExact, Late
    <3>3. CASE ~FromWalk /\ pc = "from"
      <4>1. Engine # "varlen"
        BY <1>12, <3>3 DEF Item, DirectedItem, UndirectedItem, WalkItem, JoinWalk, JoinEnd, AtStep
      <4> QED BY <1>5, <4>1 DEF WithExact
    <3> QED BY <3>1, <3>2, <3>3
  <2> QED BY <2>7, <2>8, <2>9 DEF ExactInv
<1> QED BY <1>2, <1>8, <1>9, <1>10, <1>11, <1>12

-----------------------------------------------------------------------------
(* What the checks of the query leave *)

\* A query that is translated was accepted as a whole.
AcceptedInv == pc \notin {"dispatch", "failed"} => Accepted

\* The ends of a single hop are its nodes, with what their labels mean, and a
\* hop of variable length has passed its checks.
EndIs(i) ==
  LET m == Meaning(NodeAt(1, i - 1)) IN
  /\ slots[i].np = <<1, i - 1>> /\ m.ok /\ KnownTable(m.table)
  /\ slots[i].label = m.table /\ slots[i].name = m.name

\* Where the engine of a single hop emits, it has resolved the labels of both
\* ends, and the bounds of a variable length passed its checks.
EndsInv ==
  Engine # "directed" /\ pc \in Emitting =>
    /\ EndIs(1) /\ EndIs(2)
    /\ Engine = "varlen" => Supported /\ BoundsOK

\* A query that is being translated stays accepted.
LEMMA AcceptedStep ==
  ASSUME TInv, AcceptedInv, [Next]_vars
  PROVE  AcceptedInv'
<1>1. query' = query BY QueryNever
<1>2. Accepted' = Accepted
  BY <1>1 DEF Accepted, Shape, Engine, HasVarlen, HasUndirected, Rels, Sole
<1>3. CASE UNCHANGED vars BY <1>2, <1>3 DEF vars, AcceptedInv
<1>4. CASE Next
  <2>1. pc = "failed" => pc' = "failed" BY <1>4, FailedStays
  <2>2. pc = "dispatch" => Accepted \/ pc' = "failed"
    <3> SUFFICES ASSUME pc = "dispatch", pc' # "failed" PROVE Accepted
      OBVIOUS
    <3>1. pc \in Unbound BY DEF Unbound
    <3>2. \/ Dispatch
          \/ CollectStart \/ CollectSegment \/ NextPhase \/ ResolveSlot \/ MarkSlot \/ Bind
          \/ OpenUndirected \/ OpenVarlen
      BY <1>4, <3>1, UnboundSteps
    <3>3. ~(CollectStart \/ CollectSegment \/ ResolveSlot \/ MarkSlot \/ Bind
              \/ OpenUndirected \/ OpenVarlen)
      BY DEF CollectStart, CollectSegment, AtSegment, ResolveSlot, MarkSlot, Bind, AtStep,
             OpenUndirected, OpenVarlen
    <3>4. ~NextPhase BY PhasesAre DEF NextPhase
    <3> QED BY <3>2, <3>3, <3>4 DEF Dispatch
  <2> QED BY <1>2, <2>1, <2>2 DEF AcceptedInv
<1> QED BY <1>3, <1>4

\* Every step keeps the ends of a single hop.
LEMMA EndsStep ==
  ASSUME DInv, EndsInv, [Next]_vars
  PROVE  EndsInv'
<1>1. TInv /\ TypeOK BY DEF DInv, LInv, TInv
<1>2. query' = query BY <1>1, QueryNever
<1>3. Engine' = Engine BY <1>2, QueryStays
<1>4. \A i : Meaning(NodeAt(1, i - 1))' = Meaning(NodeAt(1, i - 1))
  BY <1>2 DEF Meaning, NodeAt
<1>5. \A t : KnownTable(t)' = KnownTable(t) BY DEF KnownTable
<1>6. Supported' = Supported /\ BoundsOK' = BoundsOK
  BY <1>2 DEF Supported, BoundsOK, ReadMin, ReadMax, Rel, Left, Right, NodeAt
<1>7. CASE UNCHANGED vars
  <2>1. ASSUME NEW i PROVE EndIs(i)' <=> EndIs(i)
    <3>1. slots' = slots BY <1>7 DEF vars
    <3> QED BY <1>4, <1>5, <3>1 DEF EndIs
  <2> QED BY <1>3, <1>6, <1>7, <2>1 DEF EndsInv, vars
<1>8. CASE Next
  <2> SUFFICES ASSUME Engine # "directed", pc' \in Emitting
               PROVE  (EndIs(1) /\ EndIs(2))' /\ (Engine = "varlen" => Supported /\ BoundsOK)
    BY <1>3, <1>6 DEF EndsInv
  <2>0. pc' # "failed" BY DEF Emitting
  <2>1. CASE pc \in Emitting
    <3>1. Steady BY <1>8, <2>0, <2>1, EInvStep DEF DInv
    <3>2. EndIs(1) /\ EndIs(2) /\ DOMAIN slots = {1, 2}
      BY <2>1 DEF EndsInv, DInv, EInv, HopShape
    <3>3. MarksOnly(slots[1], slots'[1]) /\ MarksOnly(slots[2], slots'[2])
      BY <3>1, <3>2 DEF Steady
    <3>4. EndIs(1)' /\ EndIs(2)'
      BY <1>4, <3>2, <3>3 DEF EndIs, MarksOnly, KnownTable
    <3> QED BY <2>1, <3>4 DEF EndsInv
  <2>2. CASE pc \in Unbound
    <3>1. (OpenUndirected /\ Engine = "undirected") \/ (OpenVarlen /\ Engine = "varlen")
      <4>1. ~Dispatch BY DEF Dispatch, Emitting
      <4> QED BY <1>8, <2>0, <2>2, <4>1, UnboundSteps
    <3>2. /\ slots' = <<EndSlot(Left, 0), EndSlot(Right, 1)>>
          /\ EndsRefusal = NULL
          /\ Engine = "varlen" => Supported /\ BoundsOK
      BY <3>1 DEF OpenUndirected, OpenVarlen, OpenHop
    <3>3. /\ Meaning(Left).ok /\ Meaning(Right).ok
          /\ KnownTable(Meaning(Left).table) /\ KnownTable(Meaning(Right).table)
      BY <3>2, SoleHopAssumption DEF EndsRefusal
    <3>4. Left = NodeAt(1, 1 - 1) /\ Right = NodeAt(1, 2 - 1) BY DEF Left, Right
    <3>5. /\ slots'[1] = EndSlot(Left, 0) /\ slots'[2] = EndSlot(Right, 1)
          /\ 1 - 1 = 0 /\ 2 - 1 = 1
      BY <3>2
    <3>6. ASSUME NEW node, NEW n
          PROVE  /\ EndSlot(node, n).np = <<1, n>> /\ EndSlot(node, n).label = Meaning(node).table
                 /\ EndSlot(node, n).name = Meaning(node).name
      BY DEF EndSlot
    <3>7. EndIs(1)'
      <4>1. Meaning(NodeAt(1, 1 - 1))' = Meaning(Left) BY <1>4, <3>4
      <4> QED BY <3>3, <3>5, <3>6, <4>1, <1>5 DEF EndIs
    <3>8. EndIs(2)'
      <4>1. Meaning(NodeAt(1, 2 - 1))' = Meaning(Right) BY <1>4, <3>4
      <4> QED BY <3>3, <3>5, <3>6, <4>1, <1>5 DEF EndIs
    <3> QED BY <3>2, <3>7, <3>8
  <2> QED BY <1>1, <1>8, <2>0, <2>1, <2>2, PcIs, FailedStays
<1> QED BY <1>7, <1>8

-----------------------------------------------------------------------------
(* What a match says of a variable *)

\* The node of a slot: its table is what the labels written for it mean.
SlotMeans(i) ==
  LET s == slots[i] key == KeyOf(slots[i].np) IN
  \/ s.label = NULL /\ s.name = NULL /\ Meanings(key) = {}
  \/ /\ s.label # NULL /\ s.name # NULL /\ s.label \in DOMAIN Catalog
     /\ \E L \in Labels :
          LET r == Resolution(NameMap, L) IN
          r.ok /\ Meanings(key) = {r} /\ r.table = s.label /\ r.name = s.name

\* All slots mean what the labels of their nodes mean, and those of lone nodes
\* are marked and labelled.
SlotsMean ==
  \A i \in DOMAIN slots :
    /\ SlotMeans(i)
    /\ slots[i].lone <=> KeyOf(slots[i].np) \in LoneKeys
    /\ KeyOf(slots[i].np) \in LoneKeys => slots[i].label # NULL

\* What a relationship stands for is a trail of rows of the edge table, of one
\* row unless its length is variable, and its ends are ends of those rows.
IsEnd(db, node) == \E e \in db[EdgeTable] : node \in {Source(e), Target(e)}

\* What stands for a relationship is a path of rows whose ends are nodes.
LEMMA StandIs ==
  ASSUME NEW db, NEW o, NEW t \in StandsFor(o, db)
  PROVE  /\ \E n \in Nat \ {0} : t.path \in [1 .. n -> db[EdgeTable]] /\ Len(t.path) = n
         /\ RelOf(o).varlen = NULL => t.path = <<t.path[1]>> /\ t.path[1] \in db[EdgeTable]
         /\ IsEnd(db, First(t)) /\ IsEnd(db, Last(t))
<1> DEFINE E == db[EdgeTable]
<1>1. CASE RelOf(o).varlen # NULL
  <2>1. PICK p \in TrailsOf(E, RelOf(o).type, RelOf(o).varlen.max) : t = Trail(p, FALSE)
    BY <1>1 DEF StandsFor
  <2>2. PICK n \in 1 .. Cardinality(E) : p \in [1 .. n -> E]
    BY <2>1, TrailIs
  <2>3. Len(p) >= 1 BY <2>1, TrailIs
  <2>4. t.path = p /\ t.flipped = FALSE BY <2>1 DEF Trail
  <2>5. n \in Nat \ {0} /\ Len(p) = n
    <3>1. n \in Int /\ n >= 1 BY <2>2
    <3>2. p \in Seq(E) BY <2>2, <3>1
    <3> QED BY <2>2, <3>1, <3>2
  <2>6. p[1] \in E /\ p[Len(p)] \in E BY <2>2, <2>5
  <2>7. First(t) = Source(p[1]) /\ Last(t) = Target(p[Len(p)]) BY <2>4 DEF First, Last
  <2>8. IsEnd(db, First(t)) /\ IsEnd(db, Last(t)) BY <2>6, <2>7 DEF IsEnd
  <2> QED BY <1>1, <2>2, <2>4, <2>5, <2>8
<1>2. CASE RelOf(o).varlen = NULL
  <2>1. PICK row \in E, b \in BOOLEAN : t = Trail(<<row>>, b)
    BY <1>2 DEF StandsFor
  <2>2. t.path = <<row>> /\ t.flipped = b BY <2>1 DEF Trail
  <2>3. Len(<<row>>) = 1 /\ <<row>>[1] = row /\ <<row>> \in [1 .. 1 -> E] BY <2>1
  <2>4. First(t) \in {Source(row), Target(row)} /\ Last(t) \in {Source(row), Target(row)}
    BY <2>2, <2>3 DEF First, Last
  <2>5. IsEnd(db, First(t)) /\ IsEnd(db, Last(t)) BY <2>1, <2>4 DEF IsEnd
  <2>6. t.path \in [1 .. 1 -> E] /\ Len(t.path) = 1 /\ 1 \in Nat \ {0} BY <2>2, <2>3
  <2>7. t.path = <<t.path[1]>> /\ t.path[1] \in E BY <2>1, <2>2, <2>3
  <2> QED BY <2>5, <2>6, <2>7
<1> QED BY <1>1, <1>2

\* The nodes a match puts at a key that relationships meet at.
LEMMA MatchIs ==
  ASSUME query \in QueryType, NEW db, NEW m \in Layings(db)
  PROVE  /\ m = [rels |-> m.rels, lone |-> m.lone]
         /\ DOMAIN m.rels = RelOccs /\ DOMAIN m.lone = LoneKeys
         /\ m.rels = [o \in RelOccs |-> m.rels[o]]
         /\ m.lone = [key \in LoneKeys |-> m.lone[key]]
         /\ \A o \in RelOccs : m.rels[o] \in StandsFor(o, db) /\ Fits(o, m.rels[o])
         /\ \A key \in LoneKeys : m.lone[key] \in db[TableOf(key)]
         /\ \A key \in Keys \ LoneKeys :
              /\ \E node : EndsAt(m.rels, key) = {node} /\ IsEnd(db, node)
              /\ \A node \in EndsAt(m.rels, key), r \in Meanings(key) : node.name = r.name
<1>1. \A o \in RelOccs : m.rels[o] \in StandsFor(o, db) /\ Fits(o, m.rels[o])
  BY DEF Layings
<1>2. ASSUME NEW key \in Keys \ LoneKeys
      PROVE  \E node : EndsAt(m.rels, key) = {node} /\ IsEnd(db, node)
  <2>1. Cardinality(EndsAt(m.rels, key)) = 1 BY DEF Layings
  <2>2. ASSUME NEW node \in EndsAt(m.rels, key) PROVE IsEnd(db, node)
    BY <1>1, StandIs DEF EndsAt
  <2>3. IsFiniteSet(EndsAt(m.rels, key))
    <3> DEFINE firsts == [o \in {x \in RelOccs : SrcKey(x) = key} |-> First(m.rels[o])]
               lasts == [o \in {x \in RelOccs : TgtKey(x) = key} |-> Last(m.rels[o])]
    <3>1. IsFiniteSet({x \in RelOccs : SrcKey(x) = key})
          /\ IsFiniteSet({x \in RelOccs : TgtKey(x) = key})
      BY OccsFinite, FS_Subset
    <3>2. IsFiniteSet(Range(firsts)) /\ IsFiniteSet(Range(lasts)) BY <3>1, RangeFinite
    <3>3. EndsAt(m.rels, key) = Range(firsts) \cup Range(lasts) BY DEF EndsAt, Range
    <3> QED BY <3>2, <3>3, FS_Union
  <2>4. \E node : EndsAt(m.rels, key) = {node} BY <2>1, <2>3, FS_Singleton
  <2> QED BY <2>2, <2>4
<1>3. /\ m = [rels |-> m.rels, lone |-> m.lone]
      /\ DOMAIN m.rels = RelOccs /\ DOMAIN m.lone = LoneKeys
      /\ m.rels = [o \in RelOccs |-> m.rels[o]]
      /\ m.lone = [key \in LoneKeys |-> m.lone[key]]
  BY DEF Layings
<1>4. /\ \A key \in LoneKeys : m.lone[key] \in db[TableOf(key)]
      /\ \A key \in Keys \ LoneKeys :
           \A node \in EndsAt(m.rels, key), r \in Meanings(key) : node.name = r.name
  BY DEF Layings
<1> QED BY <1>1, <1>2, <1>3, <1>4

\* A choice of what the relationships stand for, and of rows for the other nodes,
\* is a match if one node is at each key, of the name its labels mean.
LEMMA MatchMade ==
  ASSUME NEW db, NEW R, NEW L, R = [o \in RelOccs |-> R[o]], L = [key \in LoneKeys |-> L[key]],
         \A o \in RelOccs : R[o] \in StandsFor(o, db) /\ Fits(o, R[o]),
         \A key \in LoneKeys : L[key] \in db[TableOf(key)],
         \A key \in Keys \ LoneKeys :
           /\ \E node : EndsAt(R, key) = {node}
           /\ \A node \in EndsAt(R, key), r \in Meanings(key) : node.name = r.name
  PROVE  [rels |-> R, lone |-> L] \in Layings(db)
<1>1. R \in [RelOccs -> UNION {StandsFor(o, db) : o \in RelOccs}]
  <2>1. \A o \in RelOccs : R[o] \in UNION {StandsFor(x, db) : x \in RelOccs} OBVIOUS
  <2> QED BY <2>1
<1>2. L \in [LoneKeys -> UNION {db[TableOf(key)] : key \in LoneKeys}]
  <2>1. \A key \in LoneKeys : L[key] \in UNION {db[TableOf(x)] : x \in LoneKeys} OBVIOUS
  <2> QED BY <2>1
<1>3. \A key \in Keys \ LoneKeys : Cardinality(EndsAt(R, key)) = 1 BY FS_Singleton
<1>4. PICK m : m = [rels |-> R, lone |-> L] OBVIOUS
<1>5. m.rels = R /\ m.lone = L BY <1>4
<1>6. m \in [rels : [RelOccs -> UNION {StandsFor(o, db) : o \in RelOccs}],
             lone : [LoneKeys -> UNION {db[TableOf(key)] : key \in LoneKeys}]]
  BY <1>1, <1>2, <1>4
<1> QED BY <1>3, <1>4, <1>5, <1>6 DEF Layings

-----------------------------------------------------------------------------
(* The row of a match *)

\* What stands for a relationship in FROM, and for a node.
HopRow(t) == IF Engine = "varlen" THEN WalkRow(t.path) ELSE t.path[1]

\* The row of a node in a match, and the row of FROM items that a match has.
NodeRow(db, m, i) ==
  LET key == KeyOf(slots[i].np) IN
  IF key \in LoneKeys THEN m.lone[key]
  ELSE CHOOSE row \in db[TableOf(key)] : \E node \in EndsAt(m.rels, key) : row.id = node.id
RowFor(occ, db, m) ==
  [j \in DOMAIN sql.from |->
     IF sql.from[j].of[1] = "edge" THEN HopRow(m.rels[occ[sql.from[j].of[2]]])
     ELSE NodeRow(db, m, sql.from[j].of[2])]

\* The occurrence of each relationship.
OccsOf(occ) ==
  /\ occ \in [DOMAIN edges -> RelOccs] /\ IsInjective(occ)
  /\ \A e \in DOMAIN edges : EdgeOf(e, occ[e]) /\ edges[e].var = RelOf(occ[e]).var
  /\ \A o \in RelOccs : \E e \in DOMAIN edges : occ[e] = o

\* The table a slot's key means is its label.
LEMMA SlotTable ==
  ASSUME NEW i \in DOMAIN slots, SlotMeans(i), slots[i].label # NULL
  PROVE  TableOf(KeyOf(slots[i].np)) = slots[i].label
<1>1. PICK L \in Labels : LET r == Resolution(NameMap, L) IN
        r.ok /\ Meanings(KeyOf(slots[i].np)) = {r} /\ r.table = slots[i].label
  BY DEF SlotMeans
<1> QED BY <1>1 DEF TableOf

\* The row of a node in a match is of the table its labels mean; it is chosen, or
\* it is the row of the node at which the relationships meet, and the only one.
LEMMA NodeRowIs ==
  ASSUME query \in QueryType, WellNamed, SlotsFound,
         NEW db \in Databases, NEW m \in Layings(db),
         NEW i \in DOMAIN slots, SlotMeans(i), slots[i].label # NULL
  PROVE  /\ NodeRow(db, m, i) \in db[slots[i].label]
         /\ KeyOf(slots[i].np) \notin LoneKeys =>
              \A node \in EndsAt(m.rels, KeyOf(slots[i].np)) :
                /\ NodeRow(db, m, i).id = node.id
                /\ \A row \in db[slots[i].label] : row.id = node.id => row = NodeRow(db, m, i)
<1> DEFINE key == KeyOf(slots[i].np)
           table == slots[i].label
<1>1. TableOf(key) = table BY SlotTable
<1>2. key \in Keys BY DEF Keys, SlotsFound
<1>3. table \in DOMAIN Catalog \ {EdgeTable} BY DEF SlotMeans, WellNamed
<1>4. CASE key \in LoneKeys
  <2>1. NodeRow(db, m, i) = m.lone[key] BY <1>4 DEF NodeRow
  <2>2. \A x \in LoneKeys : m.lone[x] \in db[TableOf(x)] BY MatchIs
  <2>3. m.lone[key] \in db[table] BY <1>1, <1>4, <2>2
  <2> HIDE DEF table, key
  <2>4. NodeRow(db, m, i) \in db[table] BY <2>1, <2>3
  <2> QED BY <1>4, <2>4 DEF table, key
<1>5. CASE key \notin LoneKeys
  <2>1. PICK node : EndsAt(m.rels, key) = {node} /\ IsEnd(db, node)
    BY <1>2, <1>5, MatchIs
  <2>2. PICK L \in Labels : LET r == Resolution(NameMap, L) IN
          r.ok /\ Meanings(key) = {r} /\ r.table = table
    BY DEF SlotMeans
  <2>9. ASSUME NEW x \in Keys \ LoneKeys, NEW n \in EndsAt(m.rels, x), NEW r \in Meanings(x)
        PROVE  n.name = r.name
    BY DEF Layings
  <2>3. node.name = Resolution(NameMap, L).name
    <3>1. \A n \in EndsAt(m.rels, key), r \in Meanings(key) : n.name = r.name
      BY <1>2, <1>5, <2>9
    <3>2. node \in EndsAt(m.rels, key) BY <2>1
    <3>3. Resolution(NameMap, L) \in Meanings(key) BY <2>2
    <3> HIDE DEF key
    <3> QED BY <3>1, <3>2, <3>3
  <2>4. PICK e \in db[EdgeTable] : node \in {Source(e), Target(e)} BY <2>1 DEF IsEnd
  <2>5. \E r \in db[table] : r.id = node.id
    BY <1>3, <2>2, <2>3, <2>4, DatabaseAssumption
  <2>6. NodeRow(db, m, i) = CHOOSE row \in db[table] : \E n \in {node} : row.id = n.id
    BY <1>1, <1>5, <2>1 DEF NodeRow
  <2>7. NodeRow(db, m, i) \in db[table] /\ NodeRow(db, m, i).id = node.id
    <3> HIDE DEF table
    <3> QED BY <2>5, <2>6
  <2>8. \A r, s \in db[table] : r.id = s.id => r = s BY <1>3, DatabaseAssumption
  <2> QED BY <2>1, <2>7, <2>8
<1> QED BY <1>4, <1>5

\* A variable is bound to the table that its labels mean.
LEMMA BoundTables ==
  ASSUME TypeOK, BindsOK, WellNamed, SlotsFound, \A i \in DOMAIN slots : SlotMeans(i),
         NEW occ, OccsOf(occ)
  PROVE  TablesMeant
<1> SUFFICES ASSUME NEW var, HasTable(var) PROVE BindOf(var).table = TableFor(var)
  BY DEF TablesMeant
<1> DEFINE key == [var |-> var, at |-> NULL]
<1>1. IsBound(var) /\ BindOf(var).table # NULL BY DEF HasTable
<1>2. var # NULL BY <1>1, BoundIs
<1>3. CASE \E i \in DOMAIN slots : slots[i].var = var /\ BindOf(var).table = slots[i].label
  <2>1. PICK i \in DOMAIN slots : slots[i].var = var /\ BindOf(var).table = slots[i].label
    BY <1>3
  <2>2. KeyOf(slots[i].np) = key /\ key \in Keys
    <3>1. slots[i].np \in NodeOccs /\ NodeOf(slots[i].np).var = var BY <2>1 DEF SlotsFound
    <3>2. KeyOf(slots[i].np) = key BY <1>2, <3>1 DEF KeyOf
    <3> QED BY <3>1, <3>2 DEF Keys
  <2> QED BY <1>1, <2>1, <2>2, SlotTable DEF TableFor
<1>4. CASE \E e \in DOMAIN edges : edges[e].var = var /\ BindOf(var).table = EdgeTable
  <2>1. PICK e \in DOMAIN edges : edges[e].var = var /\ BindOf(var).table = EdgeTable
    BY <1>4
  <2>2. var \in RelVars BY <1>2, <2>1 DEF OccsOf, RelVars
  <2>3. var \notin NodeVars BY <2>2 DEF WellNamed
  <2>4. key \notin Keys
    <3>1. ASSUME NEW o \in NodeOccs, KeyOf(o) = key PROVE FALSE
      <4>1. NodeOf(o).var = var BY <3>1 DEF KeyOf
      <4> QED BY <1>2, <2>3, <4>1 DEF NodeVars
    <3> QED BY <3>1 DEF Keys
  <2> QED BY <2>1, <2>4 DEF TableFor
<1> QED BY <1>1, <1>3, <1>4, BoundIs

\* The row of a match has for each item what stands for it.
LEMMA RowForIs ==
  ASSUME NEW occ, NEW db, NEW m, NEW j \in DOMAIN sql.from
  PROVE  /\ \A e : sql.from[j].of = <<"edge", e>> => RowFor(occ, db, m)[j] = HopRow(m.rels[occ[e]])
         /\ \A i : sql.from[j].of = <<"slot", i>> => RowFor(occ, db, m)[j] = NodeRow(db, m, i)
<1>1. RowFor(occ, db, m)[j] =
        IF sql.from[j].of[1] = "edge" THEN HopRow(m.rels[occ[sql.from[j].of[2]]])
        ELSE NodeRow(db, m, sql.from[j].of[2])
  BY DEF RowFor
<1>2. ASSUME NEW e, sql.from[j].of = <<"edge", e>>
      PROVE  RowFor(occ, db, m)[j] = HopRow(m.rels[occ[e]])
  <2>1. sql.from[j].of[1] = "edge" /\ sql.from[j].of[2] = e BY <1>2
  <2> QED BY <1>1, <2>1
<1>3. ASSUME NEW i, sql.from[j].of = <<"slot", i>>
      PROVE  RowFor(occ, db, m)[j] = NodeRow(db, m, i)
  <2>1. sql.from[j].of[1] = "slot" /\ sql.from[j].of[2] = i /\ "slot" # "edge" BY <1>3
  <2> QED BY <1>1, <2>1
<1> QED BY <1>2, <1>3

\* A reference reads of the row of a match what stands for the node or the
\* relationship it was resolved to.
LEMMA ReadsRow ==
  ASSUME DInv, pc = "done", WellNamed, NEW occ, NEW db, NEW m, NEW ref, RefOK(ref)
  PROVE  /\ \A e : ref.of = <<"edge", e>> =>
              Value(RowFor(occ, db, m), ref) = HopRow(m.rels[occ[e]])[ref.col]
         /\ \A i : ref.of = <<"slot", i>> =>
              Value(RowFor(occ, db, m), ref) = NodeRow(db, m, i)[ref.col]
<1>1. PICK j \in DOMAIN sql.from : Denoted(ref) = {j} /\ sql.from[j].of = ref.of
  BY RefDenotes
<1>2. \A row : Value(row, ref) = row[j][ref.col] BY <1>1, ValueIs DEF Denotes
<1>3. Value(RowFor(occ, db, m), ref) = RowFor(occ, db, m)[j][ref.col] BY <1>2
<1> QED BY <1>1, <1>3, RowForIs

\* A named relationship is one occurrence.
LEMMA NamedRow ==
  ASSUME query \in QueryType, WellNamed, NEW occ, OccsOf(occ), NEW e \in DOMAIN edges,
         NEW var, var = edges[e].var, var # NULL
  PROVE  (CHOOSE o \in RelOccs : RelOf(o).var = var) = occ[e]
<1>1. occ[e] \in RelOccs /\ RelOf(occ[e]).var = var BY DEF OccsOf
<1>2. \A o \in RelOccs : RelOf(o).var = var => o = occ[e] BY <1>1, NamedOnce
<1> QED BY <1>1, <1>2

\* The row of a match says of every variable that is read what the match says.
LEMMA RowAgrees ==
  ASSUME DInv, pc = "done", WellNamed, SlotsMean, NEW occ, OccsOf(occ),
         NEW db \in Databases, NEW m \in Layings(db)
  PROVE  Agree(db, m, RowFor(occ, db, m))
<1> SUFFICES ASSUME NEW var, NEW c, HasColumn(var, c), RefOK(Ref(var, c))
             PROVE  /\ RowOf(db, m, var) \in db[BindOf(var).table]
                    /\ RowOf(db, m, var)[c] = Value(RowFor(occ, db, m), Ref(var, c))
  BY DEF Agree
<1>1. /\ TypeOK /\ query \in QueryType /\ SlotsFound /\ HopShape /\ BindsOK
  BY DEF DInv, LInv, TInv, TypeOK, Found, EInv, Emitting
<1>2. IsBound(var) /\ BindOf(var).table # NULL BY DEF HasColumn, HasTable
<1>3. var # NULL BY <1>1, <1>2, BoundIs
<1>4. PICK ref : ref = Ref(var, c) OBVIOUS
<1>5. ref.col = c /\ ref.of = BindOf(var).of BY <1>4 DEF Ref
<1>6. CASE \E i \in DOMAIN slots :
             /\ BindOf(var).of = <<"slot", i>> /\ slots[i].var = var
             /\ BindOf(var).table = slots[i].label
  <2>1. PICK i \in DOMAIN slots :
             /\ BindOf(var).of = <<"slot", i>> /\ slots[i].var = var
             /\ BindOf(var).table = slots[i].label
    BY <1>6
  <2>2. Value(RowFor(occ, db, m), ref) = NodeRow(db, m, i)[c]
    BY <1>4, <1>5, <2>1, ReadsRow
  <2>3. KeyOf(slots[i].np) = [var |-> var, at |-> NULL] /\ KeyOf(slots[i].np) \in Keys
    <3>1. slots[i].np \in NodeOccs /\ NodeOf(slots[i].np).var = var BY <1>1, <2>1 DEF SlotsFound
    <3>2. KeyOf(slots[i].np) = [var |-> var, at |-> NULL] BY <1>3, <3>1 DEF KeyOf
    <3> QED BY <3>1, <3>2 DEF Keys
  <2>4. RowOf(db, m, var) = NodeRow(db, m, i)
    BY <2>3 DEF RowOf, NodeRow
  <2>5. NodeRow(db, m, i) \in db[slots[i].label]
    <3>1. SlotMeans(i) BY DEF SlotsMean
    <3>2. slots[i].label # NULL BY <1>2, <2>1
    <3> QED BY <1>1, <3>1, <3>2, NodeRowIs
  <2> QED BY <1>4, <2>1, <2>2, <2>4, <2>5
<1>7. CASE \E e \in DOMAIN edges :
             /\ BindOf(var).of = <<"edge", e>> /\ edges[e].var = var
             /\ BindOf(var).table = EdgeTable
  <2>1. PICK e \in DOMAIN edges :
             /\ BindOf(var).of = <<"edge", e>> /\ edges[e].var = var
             /\ BindOf(var).table = EdgeTable
    BY <1>7
  <2>2. Value(RowFor(occ, db, m), ref) = HopRow(m.rels[occ[e]])[c]
    BY <1>4, <1>5, <2>1, ReadsRow
  <2>3. Engine # "varlen" BY <1>1, <1>3, <2>1 DEF HopShape
  <2>4. HopRow(m.rels[occ[e]]) = m.rels[occ[e]].path[1] BY <2>3 DEF HopRow
  <2>5. [var |-> var, at |-> NULL] \notin Keys
    <3>1. var \in RelVars BY <1>3, <2>1 DEF OccsOf, RelVars
    <3>2. var \notin NodeVars BY <3>1 DEF WellNamed
    <3>3. ASSUME NEW o \in NodeOccs, KeyOf(o) = [var |-> var, at |-> NULL] PROVE FALSE
      <4>1. NodeOf(o).var = var BY <3>3 DEF KeyOf
      <4> QED BY <1>3, <3>2, <4>1 DEF NodeVars
    <3> QED BY <3>3 DEF Keys
  <2>6. [var |-> var, at |-> NULL] \notin LoneKeys BY <2>5 DEF LoneKeys
  <2>7. RowOf(db, m, var) = m.rels[occ[e]].path[1]
    <3>1. (CHOOSE o \in RelOccs : RelOf(o).var = var) = occ[e] BY <1>1, <1>3, <2>1, NamedRow
    <3> QED BY <2>5, <2>6, <3>1 DEF RowOf
  <2>8. m.rels[occ[e]].path[1] \in db[EdgeTable]
    <3>1. occ[e] \in RelOccs BY DEF OccsOf
    <3>2. m.rels[occ[e]] \in StandsFor(occ[e], db) BY <3>1 DEF Layings
    <3>3. PICK t \in StandsFor(occ[e], db) : t = m.rels[occ[e]] BY <3>2
    <3>4. PICK n \in Nat \ {0} : t.path \in [1 .. n -> db[EdgeTable]] BY StandIs
    <3>5. 1 \in 1 .. n BY <3>4
    <3>6. t.path[1] \in db[EdgeTable] BY <3>4, <3>5
    <3> QED BY <3>3, <3>6
  <2> QED BY <1>4, <2>1, <2>2, <2>4, <2>7, <2>8
<1> QED BY <1>1, <1>2, <1>6, <1>7, BoundIs

-----------------------------------------------------------------------------
(* The finished statement *)

\* The bounds written in the query fit an int.
BoundsFit ==
  \A rel \in Rels : rel.varlen # NULL =>
    \A n \in {rel.varlen.min, rel.varlen.max} : n # NULL => Atoi(n) = n

\* What is known of a finished statement whose names mean one thing.
Settled(occ) ==
  /\ DInv /\ pc = "done" /\ WellNamed /\ BoundsFit
  /\ ExactInv /\ EndsInv /\ AcceptedInv /\ SlotsMean /\ OccsOf(occ)

\* What is known of a finished statement.
LEMMA SettledIs ==
  ASSUME NEW occ, Settled(occ)
  PROVE  /\ DInv /\ pc = "done" /\ pc \in Emitting /\ WellNamed /\ SlotsMean /\ OccsOf(occ)
         /\ TypeOK /\ query \in QueryType /\ query \in Queries /\ Accepted /\ TInv /\ LInv
         /\ SlotsFound /\ KeysFound
         /\ Clean /\ BindsOK /\ HopShape /\ MarkInv /\ ReadInv /\ WithInv /\ ItemsInv
         /\ FromInv /\ OnReadsLeft /\ LoneInv
         /\ FromExact /\ Range(sql.pred) = PredsUpTo(Len(edges)) /\ WithExact
<1>1. pc = "done" /\ pc \in Emitting BY DEF Settled, Emitting
<1>2. DInv /\ WellNamed /\ SlotsMean /\ OccsOf(occ) /\ Accepted
  BY <1>1 DEF Settled, AcceptedInv
<1>3. LInv /\ TInv /\ TypeOK /\ query \in QueryType /\ query \in Queries
  BY <1>2 DEF DInv, LInv, TInv, TypeOK
<1>4. Clean /\ BindsOK /\ HopShape /\ MarkInv /\ ReadInv /\ WithInv /\ ItemsInv
  BY <1>1, <1>2 DEF DInv, EInv
<1>5. FromInv /\ OnReadsLeft /\ LoneInv BY <1>3 DEF LInv
<1>6. SlotsFound /\ KeysFound BY <1>2 DEF DInv, Found
<1>7. FromExact /\ Range(sql.pred) = PredsUpTo(Len(edges)) /\ WithExact
  BY <1>1 DEF Settled, ExactInv, PredExact
<1> QED BY <1>1, <1>2, <1>3, <1>4, <1>5, <1>6, <1>7

\* ON clauses read items that are joined by then.
LEMMA OnIsLocal ==
  ASSUME NEW occ, Settled(occ)
  PROVE  OnLocal
<1> SUFFICES ASSUME NEW n \in 1 .. Len(sql.from), NEW c \in Range(sql.from[n].on), NEW s \in {1, 2}
             PROVE  \E j \in 1 .. n : Denotes(c[s], j)
  BY DEF OnLocal
<1>1. PICK S : sql.from \in Seq(S) BY SettledIs DEF FromInv
<1>2. n \in DOMAIN sql.from /\ DOMAIN sql.from = 1 .. Len(sql.from) /\ Len(sql.from) \in Nat
  BY <1>1
<1>3. PICK ref : ref = c[s] OBVIOUS
<1>4. RefOK(ref) BY <1>2, <1>3, SettledIs DEF ReadInv, SoundOn
<1>5. PICK j \in DOMAIN sql.from : Denoted(ref) = {j} /\ sql.from[j].of = ref.of
  BY <1>4, SettledIs, RefDenotes
<1>6. PICK i \in 1 .. n : sql.from[i].of = ref.of
  BY <1>2, <1>3, SettledIs DEF OnReadsLeft
<1>7. i \in DOMAIN sql.from BY <1>2, <1>6
<1>8. i = j BY <1>5, <1>6, <1>7, SettledIs DEF ItemsInv
<1> QED BY <1>3, <1>5, <1>6, <1>8 DEF Denotes

\* The tables of FROM: the edge table or the walk of the query for a
\* relationship, a table of the catalog for a node.
LEMMA ItemTables ==
  ASSUME NEW occ, Settled(occ), NEW j \in DOMAIN sql.from
  PROVE  \/ \E e \in DOMAIN edges :
              /\ sql.from[j].of = <<"edge", e>> /\ sql.from[j].table = HopTable
              /\ sql.from[j].on = EdgeOn(e)
         \/ \E i \in DOMAIN slots :
              /\ sql.from[j].of = <<"slot", i>> /\ sql.from[j].table = slots[i].label
              /\ sql.from[j].on = NodeOn(i)
              /\ slots[i].label # NULL /\ slots[i].label \in DOMAIN Catalog \ {EdgeTable}
              /\ ~IsWalk(slots[i].label) /\ (slots[i].lone \/ slots[i].referenced)
<1>1. ItemOK(sql.from[j]) /\ OnExact(sql.from[j]) BY SettledIs DEF ItemsInv, FromExact
<1>2. CASE \E e \in DOMAIN edges : EdgeItem(sql.from[j], e)
  BY <1>1, <1>2 DEF EdgeItem, OnExact
<1>3. CASE \E i \in DOMAIN slots : NodeItem(sql.from[j], i)
  <2>1. PICK i \in DOMAIN slots : NodeItem(sql.from[j], i) BY <1>3
  <2>2. slots[i].lone \/ slots[i].referenced BY <2>1 DEF NodeItem
  <2>3. slots[i].label # NULL
    <3>1. slots[i].lone => slots[i].label # NULL BY SettledIs DEF SlotsMean
    <3>2. slots[i].referenced => slots[i].label # NULL BY SettledIs DEF MarkInv
    <3> QED BY <2>2, <3>1, <3>2
  <2>4. slots[i].label \in DOMAIN Catalog BY <2>3, SettledIs DEF SlotsMean, SlotMeans
  <2>5. slots[i].label # EdgeTable /\ ~IsWalk(slots[i].label)
    BY <2>4, SettledIs DEF WellNamed
  <2> QED BY <1>1, <2>1, <2>2, <2>3, <2>4, <2>5 DEF NodeItem, OnExact
<1> QED BY <1>1, <1>2, <1>3 DEF ItemOK

\* A single hop is two nodes and a relationship.
LEMMA HopOccs ==
  ASSUME query \in QueryType, Sole
  PROVE  /\ NodeOccs = {<<1, 0>>, <<1, 1>>} /\ RelOccs = {<<1, 1>>}
         /\ NodeOf(<<1, 0>>) = Left /\ NodeOf(<<1, 1>>) = Right /\ RelOf(<<1, 1>>) = Rel
<1>1. DOMAIN query.paths = 1 .. 1 /\ Len(query.paths[1].segs) = 1 BY DEF Sole, QueryType
<1>2. 0 .. 1 = {0, 1} /\ 1 .. 1 = {1} OBVIOUS
<1>3. NodeOccs = {<<1, n>> : n \in {0, 1}}
  <2>1. NodeOccs = UNION {{<<i, n>> : n \in 0 .. Len(query.paths[i].segs)} : i \in {1}}
    BY <1>1, <1>2 DEF NodeOccs, NodeOccsIn
  <2>2. NodeOccs = {<<1, n>> : n \in 0 .. Len(query.paths[1].segs)} BY <2>1
  <2> QED BY <1>1, <1>2, <2>2
<1>4. NodeOccs = {<<1, 0>>, <<1, 1>>} BY <1>3
<1>5. RelOccs = {o \in NodeOccs : o[2] > 0} BY DEF RelOccs, RelOccsIn, NodeOccs
<1>6. RelOccs = {<<1, 1>>} BY <1>4, <1>5
<1> QED BY <1>4, <1>6 DEF NodeOf, NodeAt, RelOf, Left, Right, Rel

\* The walk of the query is of its type and within its bounds.
LEMMA WalkIs ==
  ASSUME NEW occ, Settled(occ), Engine = "varlen"
  PROVE  /\ IsWalk(WalkTable) /\ sql.with[1].type = Rel.type /\ sql.with[1].max = Rel.varlen.max
         /\ ReadMin = (IF Rel.varlen.min = NULL THEN 1 ELSE Rel.varlen.min)
<1>1. sql.with # <<>> /\ sql.with[1].name = WalkTable
  BY SettledIs DEF WithInv, Late
<1>2. sql.with[1].type = edges[1].type /\ sql.with[1].max = ReadMax
  BY SettledIs DEF WithExact, Late
<1>3. edges[1].type = Rel.type
  <2>1. 1 \in DOMAIN edges BY SettledIs DEF HopShape
  <2>2. EdgeOf(1, occ[1]) /\ occ[1] \in RelOccs BY <2>1, SettledIs DEF OccsOf
  <2>5. Sole BY SettledIs DEF Accepted
  <2>3. occ[1] = <<1, 1>> BY <2>2, <2>5, SettledIs, HopOccs
  <2>4. RelOf(<<1, 1>>) = Rel BY DEF RelOf, Rel
  <2> QED BY <2>2, <2>3, <2>4 DEF EdgeOf
<1>4. Rel \in Rels /\ Rel.varlen # NULL
  <2>1. Sole BY SettledIs DEF Accepted
  <2> QED BY <2>1, SettledIs, SoleUndirected
<1>5. ReadMax = Rel.varlen.max
  BY <1>4 DEF Settled, BoundsFit, ReadMax
<1>6. ReadMin = IF Rel.varlen.min = NULL THEN 1 ELSE Rel.varlen.min
  BY <1>4 DEF Settled, BoundsFit, ReadMin
<1> QED BY <1>1, <1>2, <1>3, <1>5, <1>6 DEF IsWalk

\* The occurrence of the relationship of an edge.
LEMMA OccIs ==
  ASSUME NEW occ, Settled(occ), NEW e \in DOMAIN edges
  PROVE  /\ occ[e] \in RelOccs /\ EdgeOf(e, occ[e])
         /\ Engine # "directed" => e = 1 /\ occ[e] = <<1, 1>> /\ RelOf(occ[e]) = Rel
<1>1. occ[e] \in RelOccs /\ EdgeOf(e, occ[e]) BY SettledIs DEF OccsOf
<1>2. ASSUME Engine # "directed" PROVE e = 1 /\ occ[e] = <<1, 1>> /\ RelOf(occ[e]) = Rel
  <2>1. Sole /\ query \in QueryType BY <1>2, SettledIs DEF Accepted
  <2>2. e = 1 BY <1>2, SettledIs DEF HopShape
  <2> QED BY <1>1, <2>1, <2>2, HopOccs
<1> QED BY <1>1, <1>2

\* Only a hop of variable length is one.
LEMMA VarlenIs ==
  ASSUME NEW o \in RelOccs
  PROVE  /\ Engine # "varlen" => RelOf(o).varlen = NULL
         /\ Engine = "directed" => RelOf(o).dir # "none"
<1>1. RelOf(o) \in Rels BY DEF RelOccs, RelOccsIn, NodeOccsIn, RelOf, Rels
<1> QED BY <1>1 DEF Engine, HasVarlen, HasUndirected

\* What stands for a relationship is a row of its table, of its trail.
LEMMA HopRowIs ==
  ASSUME NEW occ, Settled(occ), NEW e \in DOMAIN edges, NEW db, NEW t \in StandsFor(occ[e], db)
  PROVE  HopRow(t) \in TableRows(db, HopTable)
<1>1. occ[e] \in RelOccs BY OccIs
<1>2. CASE Engine = "varlen"
  <2>1. RelOf(occ[e]) = Rel BY <1>2, OccIs
  <2>2. Rel.varlen # NULL
    <3>1. Sole BY <1>2, SettledIs DEF Accepted
    <3> QED BY <1>2, <3>1, SettledIs, SoleUndirected
  <2>3. PICK p \in TrailsOf(db[EdgeTable], Rel.type, Rel.varlen.max) : t = Trail(p, FALSE)
    BY <2>1, <2>2 DEF StandsFor
  <2>4. HopRow(t) = WalkRow(p) BY <1>2, <2>3 DEF HopRow, Trail
  <2>5. TableRows(db, HopTable) =
          {WalkRow(q) : q \in TrailsOf(db[EdgeTable], Rel.type, Rel.varlen.max)}
    BY <1>2, WalkIs DEF TableRows, HopTable
  <2> QED BY <2>3, <2>4, <2>5
<1>3. CASE Engine # "varlen"
  <2>1. RelOf(occ[e]).varlen = NULL BY <1>1, <1>3, VarlenIs
  <2>2. t.path[1] \in db[EdgeTable] BY <2>1, StandIs
  <2>3. ~IsWalk(EdgeTable) BY SettledIs, SchemaAssumption DEF WellNamed
  <2> QED BY <1>3, <2>2, <2>3 DEF HopRow, TableRows, HopTable
<1> QED BY <1>2, <1>3

\* The row of a match has rows of the tables joined.
LEMMA RowTyped ==
  ASSUME NEW occ, Settled(occ), NEW db \in Databases, NEW m \in Layings(db),
         NEW j \in DOMAIN sql.from
  PROVE  RowFor(occ, db, m)[j] \in TableRows(db, sql.from[j].table)
<1>1. CASE \E e \in DOMAIN edges : sql.from[j].of = <<"edge", e>> /\ sql.from[j].table = HopTable
  <2>1. PICK e \in DOMAIN edges : sql.from[j].of = <<"edge", e>> /\ sql.from[j].table = HopTable
    BY <1>1
  <2>2. RowFor(occ, db, m)[j] = HopRow(m.rels[occ[e]]) BY <2>1, RowForIs
  <2>3. m.rels[occ[e]] \in StandsFor(occ[e], db)
    <3>1. occ[e] \in RelOccs BY OccIs
    <3> QED BY <3>1 DEF Layings
  <2> QED BY <2>1, <2>2, <2>3, HopRowIs
<1>2. CASE \E i \in DOMAIN slots :
              /\ sql.from[j].of = <<"slot", i>> /\ sql.from[j].table = slots[i].label
              /\ slots[i].label # NULL /\ ~IsWalk(slots[i].label)
  <2>1. PICK i \in DOMAIN slots :
              /\ sql.from[j].of = <<"slot", i>> /\ sql.from[j].table = slots[i].label
              /\ slots[i].label # NULL /\ ~IsWalk(slots[i].label)
    BY <1>2
  <2>2. RowFor(occ, db, m)[j] = NodeRow(db, m, i) BY <2>1, RowForIs
  <2>3. NodeRow(db, m, i) \in db[slots[i].label]
    <3>1. SlotMeans(i) BY SettledIs DEF SlotsMean
    <3> QED BY <2>1, <3>1, SettledIs, NodeRowIs
  <2> QED BY <2>1, <2>2, <2>3 DEF TableRows
<1> QED BY <1>1, <1>2, ItemTables

\* A statement has finitely many rows.
LEMMA RowsFinite ==
  ASSUME NEW occ, Settled(occ), NEW db \in Databases
  PROVE  IsFiniteSet(SqlRows(db))
<1>1. PICK S : sql.from \in Seq(S) BY SettledIs DEF FromInv
<1>2. DOMAIN sql.from = 1 .. Len(sql.from) BY <1>1
<1>3. ASSUME NEW j \in DOMAIN sql.from PROVE IsFiniteSet(TableRows(db, sql.from[j].table))
  <2>1. \A table \in DOMAIN Catalog : IsFiniteSet(db[table]) BY DatabaseAssumption
  <2>2. EdgeTable \in DOMAIN Catalog BY SchemaAssumption
  <2>3. IsFiniteSet(TableRows(db, HopTable))
    <3>1. CASE Engine = "varlen"
      <4> DEFINE P == TrailsOf(db[EdgeTable], Rel.type, Rel.varlen.max)
                 f == [p \in P |-> WalkRow(p)]
      <4>1. TableRows(db, HopTable) = {WalkRow(p) : p \in P}
        BY <3>1, WalkIs DEF TableRows, HopTable
      <4>2. IsFiniteSet(P) BY <2>1, <2>2, TrailsFinite
      <4>3. IsFiniteSet(Range(f)) BY <4>2, RangeFinite
      <4>4. Range(f) = {WalkRow(p) : p \in P} BY DEF Range
      <4> QED BY <4>1, <4>3, <4>4
    <3>2. CASE Engine # "varlen"
      <4>1. ~IsWalk(EdgeTable) BY <2>2, SettledIs DEF WellNamed
      <4> QED BY <2>1, <2>2, <3>2, <4>1 DEF TableRows, HopTable
    <3> QED BY <3>1, <3>2
  <2>4. \A table \in DOMAIN Catalog : ~IsWalk(table) => IsFiniteSet(TableRows(db, table))
    BY <2>1 DEF TableRows
  <2> QED BY <2>3, <2>4, ItemTables
<1>4. IsFiniteSet(JoinedRows(db)) BY <1>1, <1>2, <1>3, OnIsLocal, JoinedFinite
<1>5. SqlRows(db) \subseteq JoinedRows(db) BY DEF SqlRows
<1> QED BY <1>4, <1>5, FS_Subset

-----------------------------------------------------------------------------
(* Rows and matches *)

\* The row of a match is joined if the ON clauses hold of it.
LEMMA RowJoined ==
  ASSUME NEW occ, Settled(occ), NEW db \in Databases, NEW m \in Layings(db),
         \A j \in DOMAIN sql.from : OnHolds(RowFor(occ, db, m), j)
  PROVE  RowFor(occ, db, m) \in JoinedRows(db)
<1> DEFINE row == RowFor(occ, db, m)
           n == Len(sql.from)
<1>1. PICK S : sql.from \in Seq(S) BY SettledIs DEF FromInv
<1>2. DOMAIN sql.from = 1 .. n BY <1>1
<1>3. \E A : row \in [1 .. n -> A]
  <2>1. row = [j \in 1 .. n |-> row[j]] BY <1>2 DEF RowFor
  <2> HIDE DEF row, n
  <2>2. row \in [1 .. n -> {row[j] : j \in 1 .. n}] BY <2>1
  <2> QED BY <2>2
<1>4. \A j \in 1 .. n : row[j] \in TableRows(db, sql.from[j].table) /\ OnHolds(row, j)
  BY <1>2, RowTyped
<1>5. IsJoined(db, row, n) BY <1>3, <1>4 DEF IsJoined
<1> QED BY <1>1, <1>5, OnIsLocal, JoinedRowsAre

\* A joined row has rows of the tables, for which the ON clauses hold.
LEMMA JoinedHas ==
  ASSUME NEW occ, Settled(occ), NEW db, NEW row \in JoinedRows(db)
  PROVE  /\ row = [j \in DOMAIN sql.from |-> row[j]]
         /\ \A j \in DOMAIN sql.from :
              row[j] \in TableRows(db, sql.from[j].table) /\ OnHolds(row, j)
<1> DEFINE n == Len(sql.from)
<1>1. PICK S : sql.from \in Seq(S) BY SettledIs DEF FromInv
<1>2. DOMAIN sql.from = 1 .. n BY <1>1
<1>3. IsJoined(db, row, n) BY <1>1, OnIsLocal, JoinedRowsAre
<1>4. row = [j \in 1 .. n |-> row[j]] BY <1>3 DEF IsJoined
<1> QED BY <1>2, <1>3, <1>4 DEF IsJoined

\* A reference reads of a joined row the item it was resolved to.
LEMMA ReadsItem ==
  ASSUME NEW occ, Settled(occ), NEW ref, RefOK(ref)
  PROVE  \E j \in DOMAIN sql.from :
           /\ sql.from[j].of = ref.of
           /\ \A row : Value(row, ref) = row[j][ref.col]
<1>1. PICK j \in DOMAIN sql.from : Denoted(ref) = {j} /\ sql.from[j].of = ref.of
  BY SettledIs, RefDenotes
<1> QED BY <1>1, ValueIs DEF Denotes

\* There is one item for a relationship or a node.
LEMMA ItemOnce ==
  ASSUME NEW occ, Settled(occ), NEW i \in DOMAIN sql.from, NEW j \in DOMAIN sql.from,
         sql.from[i].of = sql.from[j].of
  PROVE  i = j
BY SettledIs DEF ItemsInv

\* Every relationship has an item, and every node that is read or lone.
LEMMA ItemsThere ==
  ASSUME NEW occ, Settled(occ)
  PROVE  /\ \A e \in DOMAIN edges : \E j \in DOMAIN sql.from : sql.from[j].of = <<"edge", e>>
         /\ \A i \in DOMAIN slots :
              slots[i].lone \/ slots[i].referenced =>
                \E j \in DOMAIN sql.from : sql.from[j].of = <<"slot", i>>
<1>1. PICK S : sql.from \in Seq(S) BY SettledIs DEF FromInv
<1>2. EdgesFirst(Len(edges)) BY SettledIs DEF FromInv, Late
<1>3. DOMAIN edges = 1 .. Len(edges) /\ Len(edges) \in Nat BY SettledIs, LenProperties DEF TypeOK
<1>4. \A e \in DOMAIN edges : e \in DOMAIN sql.from /\ sql.from[e].of = <<"edge", e>>
  BY <1>1, <1>2, <1>3 DEF EdgesFirst
<1>5. \A i \in DOMAIN slots : Due(i) <=> slots[i].lone \/ slots[i].referenced
  BY SettledIs DEF Due
<1>6. \A i \in DOMAIN slots : Due(i) => Has(i) BY SettledIs DEF ItemsInv
<1> QED BY <1>4, <1>5, <1>6 DEF Has

-----------------------------------------------------------------------------
(* Single hops *)

\* The end of a hop at the left node, slot 1, and at the right node, slot 2.
EndAt(t, i) == IF i = SlotOf("source") THEN First(t) ELSE Last(t)

\* The relationship of a single hop.
OnlyHop == <<1, 1>>

\* The ends of a single hop are two nodes, and none is lone.
LEMMA HopEnds ==
  ASSUME NEW occ, Settled(occ), Engine # "directed", ~HasSelfLoop
  PROVE  /\ NodeOccs = {<<1, 0>>, <<1, 1>>} /\ RelOccs = {OnlyHop} /\ RelOf(OnlyHop) = Rel
         /\ DOMAIN slots = {1, 2} /\ DOMAIN edges = {1} /\ LoneKeys = {}
         /\ Keys = {KeyOf(slots[1].np), KeyOf(slots[2].np)}
         /\ KeyOf(slots[1].np) # KeyOf(slots[2].np)
         /\ SrcKey(OnlyHop) = KeyOf(slots[SlotOf("source")].np)
         /\ TgtKey(OnlyHop) = KeyOf(slots[SlotOf("target")].np)
         /\ SlotOf("source") \in {1, 2} /\ SlotOf("target") \in {1, 2}
         /\ SlotOf("source") # SlotOf("target")
<1>1. Sole /\ query \in QueryType BY SettledIs DEF Accepted
<1>2. /\ NodeOccs = {<<1, 0>>, <<1, 1>>} /\ RelOccs = {OnlyHop} /\ RelOf(OnlyHop) = Rel
  BY <1>1, HopOccs DEF OnlyHop
<1>3. DOMAIN slots = {1, 2} /\ DOMAIN edges = {1} BY SettledIs DEF HopShape
<1>4. slots[1].np = <<1, 0>> /\ slots[2].np = <<1, 1>>
  <2>1. EndIs(1) /\ EndIs(2) BY SettledIs DEF Settled, EndsInv
  <2> QED BY <2>1 DEF EndIs
<1>5. Keys = {KeyOf(slots[1].np), KeyOf(slots[2].np)} BY <1>2, <1>4 DEF Keys
<1>6. Before(OnlyHop) = <<1, 0>> BY DEF Before, OnlyHop
<1>7. /\ SlotOf("source") = IF Rel.dir = "left" THEN 2 ELSE 1
      /\ SlotOf("target") = IF Rel.dir = "left" THEN 1 ELSE 2
  BY DEF SlotOf, OnLeft
<1>8. /\ SrcKey(OnlyHop) = IF Rel.dir = "left" THEN KeyOf(<<1, 1>>) ELSE KeyOf(<<1, 0>>)
      /\ TgtKey(OnlyHop) = IF Rel.dir = "left" THEN KeyOf(<<1, 0>>) ELSE KeyOf(<<1, 1>>)
  <2>1. CASE Rel.dir = "left" BY <1>2, <1>6, <2>1 DEF SrcKey, TgtKey, OnlyHop
  <2>2. CASE Rel.dir # "left" BY <1>2, <1>6, <2>2 DEF SrcKey, TgtKey, OnlyHop
  <2> QED BY <2>1, <2>2
<1>9. SrcKey(OnlyHop) # TgtKey(OnlyHop) BY <1>2 DEF HasSelfLoop
<1>10. LoneKeys = {}
  <2>1. LoneKeys = Keys \ {SrcKey(OnlyHop), TgtKey(OnlyHop)} BY <1>2 DEF LoneKeys
  <2> QED BY <1>4, <1>5, <1>8, <2>1
<1>11. /\ SrcKey(OnlyHop) = KeyOf(slots[SlotOf("source")].np)
       /\ TgtKey(OnlyHop) = KeyOf(slots[SlotOf("target")].np)
  BY <1>4, <1>7, <1>8
<1>12. KeyOf(slots[1].np) # KeyOf(slots[2].np) BY <1>4, <1>8, <1>9
<1> QED BY <1>2, <1>3, <1>5, <1>7, <1>10, <1>11, <1>12

\* The nodes at the ends of a hop, and what their labels ask of them.
LEMMA HopEndsAt ==
  ASSUME NEW occ, Settled(occ), Engine # "directed", ~HasSelfLoop, NEW i \in {1, 2}, NEW R
  PROVE  EndsAt(R, KeyOf(slots[i].np)) = {EndAt(R[OnlyHop], i)}
<1> DEFINE key == KeyOf(slots[i].np)
<1>1. CASE i = SlotOf("source")
  <2>1. SrcKey(OnlyHop) = key /\ TgtKey(OnlyHop) # key BY <1>1, HopEnds
  <2>2. {x \in RelOccs : SrcKey(x) = key} = {OnlyHop} /\ {x \in RelOccs : TgtKey(x) = key} = {}
    BY <2>1, HopEnds
  <2> QED BY <1>1, <2>2 DEF EndsAt, EndAt
<1>2. CASE i # SlotOf("source")
  <2>1. i = SlotOf("target") BY <1>2, HopEnds
  <2>2. TgtKey(OnlyHop) = key /\ SrcKey(OnlyHop) # key BY <1>2, <2>1, HopEnds
  <2>3. {x \in RelOccs : TgtKey(x) = key} = {OnlyHop} /\ {x \in RelOccs : SrcKey(x) = key} = {}
    BY <2>2, HopEnds
  <2> QED BY <1>2, <2>3 DEF EndsAt, EndAt
<1> QED BY <1>1, <1>2

\* The name a node must have.
LEMMA NamesMean ==
  ASSUME NEW i \in DOMAIN slots, SlotMeans(i)
  PROVE  \A node : (\A r \in Meanings(KeyOf(slots[i].np)) : node.name = r.name) <=>
                     (slots[i].name # NULL => node.name = slots[i].name)
<1>1. CASE slots[i].name = NULL /\ Meanings(KeyOf(slots[i].np)) = {} BY <1>1
<1>2. CASE slots[i].name # NULL /\ \E r : Meanings(KeyOf(slots[i].np)) = {r} /\ r.name = slots[i].name
  BY <1>2
<1> QED BY <1>1, <1>2 DEF SlotMeans

\* A match of a single hop is a trail whose ends have the names of the nodes.
HopMatch(t) == [rels |-> [o \in RelOccs |-> t], lone |-> [key \in LoneKeys |-> NULL]]

\* A trail that fits the hop, with nodes of the names its labels ask for at
\* both ends.
HopFits(db, t) ==
  /\ t \in StandsFor(OnlyHop, db) /\ Fits(OnlyHop, t)
  /\ \A i \in {1, 2} : slots[i].name # NULL => EndAt(t, i).name = slots[i].name

\* The matches of a hop are the trails that fit it.
LEMMA HopMatches ==
  ASSUME NEW occ, Settled(occ), Engine # "directed", ~HasSelfLoop, NEW db
  PROVE  /\ \A t : HopFits(db, t) => HopMatch(t) \in Layings(db) /\ HopMatch(t).rels[OnlyHop] = t
         /\ \A m \in Layings(db) : HopFits(db, m.rels[OnlyHop]) /\ m = HopMatch(m.rels[OnlyHop])
<1>0. \A i \in {1, 2} : SlotMeans(i) BY HopEnds, SettledIs DEF SlotsMean
<1>1. ASSUME NEW t, HopFits(db, t)
      PROVE  HopMatch(t) \in Layings(db) /\ HopMatch(t).rels[OnlyHop] = t
  <2> DEFINE R == [o \in RelOccs |-> t]
             L == [key \in LoneKeys |-> NULL]
  <2>1. R[OnlyHop] = t BY HopEnds
  <2>2. \A o \in RelOccs : R[o] \in StandsFor(o, db) /\ Fits(o, R[o])
    BY <1>1, <2>1, HopEnds DEF HopFits
  <2>3. ASSUME NEW key \in Keys \ LoneKeys
        PROVE  /\ \E node : EndsAt(R, key) = {node}
               /\ \A node \in EndsAt(R, key), r \in Meanings(key) : node.name = r.name
    <3>1. PICK i \in {1, 2} : key = KeyOf(slots[i].np) BY HopEnds
    <3>2. EndsAt(R, key) = {EndAt(t, i)}
      <4>1. EndsAt(R, KeyOf(slots[i].np)) = {EndAt(R[OnlyHop], i)} BY HopEndsAt
      <4> QED BY <2>1, <3>1, <4>1
    <3>3. \A r \in Meanings(key) : EndAt(t, i).name = r.name
      <4>1. slots[i].name # NULL => EndAt(t, i).name = slots[i].name BY <1>1 DEF HopFits
      <4>2. i \in DOMAIN slots BY HopEnds
      <4> QED BY <1>0, <3>1, <4>1, <4>2, NamesMean
    <3> QED BY <3>2, <3>3
  <2>4. R = [o \in RelOccs |-> R[o]] /\ L = [key \in LoneKeys |-> L[key]] OBVIOUS
  <2>5. \A key \in LoneKeys : L[key] \in db[TableOf(key)] BY HopEnds
  <2>6. HopMatch(t) = [rels |-> R, lone |-> L] BY DEF HopMatch
  <2> HIDE DEF R, L
  <2>7. [rels |-> R, lone |-> L] \in Layings(db) BY <2>2, <2>3, <2>4, <2>5, MatchMade
  <2> QED BY <2>1, <2>6, <2>7
<1>2. ASSUME NEW m \in Layings(db)
      PROVE  HopFits(db, m.rels[OnlyHop]) /\ m = HopMatch(m.rels[OnlyHop])
  <2>0. query \in QueryType BY SettledIs
  <2>1. /\ m = [rels |-> m.rels, lone |-> m.lone]
        /\ m.rels = [o \in RelOccs |-> m.rels[o]] /\ m.lone = [key \in LoneKeys |-> m.lone[key]]
        /\ \A o \in RelOccs : m.rels[o] \in StandsFor(o, db) /\ Fits(o, m.rels[o])
    BY <2>0, MatchIs
  <2>2. m.rels = [o \in RelOccs |-> m.rels[OnlyHop]] BY <2>1, HopEnds
  <2>3. m.lone = [key \in LoneKeys |-> NULL] BY <2>1, HopEnds
  <2>4. ASSUME NEW i \in {1, 2}, slots[i].name # NULL
        PROVE  EndAt(m.rels[OnlyHop], i).name = slots[i].name
    <3>1. i \in DOMAIN slots /\ KeyOf(slots[i].np) \in Keys \ LoneKeys BY HopEnds
    <3>2. EndsAt(m.rels, KeyOf(slots[i].np)) = {EndAt(m.rels[OnlyHop], i)} BY HopEndsAt
    <3>3. ASSUME NEW r \in Meanings(KeyOf(slots[i].np))
          PROVE  EndAt(m.rels[OnlyHop], i).name = r.name
      BY <3>1, <3>2 DEF Layings
    <3> QED BY <1>0, <2>4, <3>1, <3>3, NamesMean
  <2>5. OnlyHop \in RelOccs BY HopEnds
  <2> QED BY <2>1, <2>2, <2>3, <2>4, <2>5 DEF HopFits, HopMatch
<1> QED BY <1>1, <1>2

-----------------------------------------------------------------------------
(* What the statement says of a row *)

\* The part of a row that is the relationship's, and the part that is the node's.
ItemFor(of) == CHOOSE j \in DOMAIN sql.from : sql.from[j].of = of
EdgeRow(row, e) == row[ItemFor(<<"edge", e>>)]
SlotRow(row, i) == row[ItemFor(<<"slot", i>>)]
There(i) == slots[i].lone \/ slots[i].referenced

\* The parts of a row are the rows of its items.
LEMMA PartOf ==
  ASSUME NEW occ, Settled(occ), NEW j \in DOMAIN sql.from
  PROVE  ItemFor(sql.from[j].of) = j
<1>1. ItemFor(sql.from[j].of) \in DOMAIN sql.from
      /\ sql.from[ItemFor(sql.from[j].of)].of = sql.from[j].of
  BY DEF ItemFor
<1> QED BY <1>1, ItemOnce

\* A reference reads the part of the row that is its relationship's or node's.
LEMMA ReadsPart ==
  ASSUME NEW occ, Settled(occ), NEW ref, RefOK(ref), NEW row
  PROVE  /\ \A e : ref.of = <<"edge", e>> => Value(row, ref) = EdgeRow(row, e)[ref.col]
         /\ \A i : ref.of = <<"slot", i>> => Value(row, ref) = SlotRow(row, i)[ref.col]
<1>1. PICK j \in DOMAIN sql.from : /\ sql.from[j].of = ref.of
                                   /\ \A other : Value(other, ref) = other[j][ref.col]
  BY ReadsItem
<1>2. ItemFor(ref.of) = j BY <1>1, PartOf
<1> QED BY <1>1, <1>2 DEF EdgeRow, SlotRow

\* The parts of a joined row are rows of the tables.
LEMMA PartsTyped ==
  ASSUME NEW occ, Settled(occ), NEW db, NEW row \in JoinedRows(db)
  PROVE  /\ \A e \in DOMAIN edges : EdgeRow(row, e) \in TableRows(db, HopTable)
         /\ \A i \in DOMAIN slots : There(i) => SlotRow(row, i) \in db[slots[i].label]
<1>1. ASSUME NEW e \in DOMAIN edges
      PROVE  EdgeRow(row, e) \in TableRows(db, HopTable)
  <2>1. PICK j \in DOMAIN sql.from : sql.from[j].of = <<"edge", e>> BY ItemsThere
  <2>2. ItemFor(<<"edge", e>>) = j BY <2>1, PartOf
  <2>3. sql.from[j].table = HopTable
    <3>1. \A i : <<"slot", i>> # <<"edge", e>> OBVIOUS
    <3> QED BY <2>1, <3>1, ItemTables
  <2>4. row[j] \in TableRows(db, sql.from[j].table) BY JoinedHas
  <2> QED BY <2>2, <2>3, <2>4 DEF EdgeRow
<1>2. ASSUME NEW i \in DOMAIN slots, There(i)
      PROVE  SlotRow(row, i) \in db[slots[i].label]
  <2>1. PICK j \in DOMAIN sql.from : sql.from[j].of = <<"slot", i>>
    BY <1>2, ItemsThere DEF There
  <2>2. ItemFor(<<"slot", i>>) = j BY <2>1, PartOf
  <2>3. sql.from[j].table = slots[i].label /\ ~IsWalk(slots[i].label)
    <3>1. \A e : <<"slot", i>> # <<"edge", e>> OBVIOUS
    <3>2. \A e : <<"slot", i>> = <<"slot", e>> => e = i OBVIOUS
    <3> QED BY <2>1, <3>1, <3>2, ItemTables
  <2>4. row[j] \in TableRows(db, sql.from[j].table) BY JoinedHas
  <2> QED BY <2>2, <2>3, <2>4 DEF SlotRow, TableRows
<1> QED BY <1>1, <1>2

\* Rows of the same parts are the same row.
LEMMA PartsTell ==
  ASSUME NEW occ, Settled(occ), NEW row, NEW other,
         row = [j \in DOMAIN sql.from |-> row[j]],
         other = [j \in DOMAIN sql.from |-> other[j]],
         \A e \in DOMAIN edges : EdgeRow(row, e) = EdgeRow(other, e),
         \A i \in DOMAIN slots : There(i) => SlotRow(row, i) = SlotRow(other, i)
  PROVE  row = other
<1>1. ASSUME NEW j \in DOMAIN sql.from PROVE row[j] = other[j]
  <2>1. ItemFor(sql.from[j].of) = j BY PartOf
  <2>2. CASE \E e \in DOMAIN edges : sql.from[j].of = <<"edge", e>>
    BY <2>1, <2>2 DEF EdgeRow
  <2>3. CASE \E i \in DOMAIN slots : sql.from[j].of = <<"slot", i>> /\ There(i)
    BY <2>1, <2>3 DEF SlotRow
  <2> QED BY <2>2, <2>3, ItemTables DEF There
<1>2. [j \in DOMAIN sql.from |-> row[j]] = [j \in DOMAIN sql.from |-> other[j]] BY <1>1
<1> QED BY <1>2

\* The parts of the row of a match.
LEMMA MatchParts ==
  ASSUME NEW occ, Settled(occ), NEW db, NEW m
  PROVE  LET row == RowFor(occ, db, m) IN
         /\ row = [j \in DOMAIN sql.from |-> row[j]]
         /\ \A e \in DOMAIN edges : EdgeRow(row, e) = HopRow(m.rels[occ[e]])
         /\ \A i \in DOMAIN slots : There(i) => SlotRow(row, i) = NodeRow(db, m, i)
<1> DEFINE row == RowFor(occ, db, m)
<1>1. row = [j \in DOMAIN sql.from |-> row[j]] BY DEF RowFor
<1>2. ASSUME NEW e \in DOMAIN edges
      PROVE  EdgeRow(row, e) = HopRow(m.rels[occ[e]])
  <2>1. PICK j \in DOMAIN sql.from : sql.from[j].of = <<"edge", e>> BY ItemsThere
  <2>2. ItemFor(<<"edge", e>>) = j BY <2>1, PartOf
  <2>3. row[j] = HopRow(m.rels[occ[e]]) BY <2>1, RowForIs
  <2> HIDE DEF row
  <2> QED BY <2>2, <2>3 DEF EdgeRow
<1>3. ASSUME NEW i \in DOMAIN slots, There(i)
      PROVE  SlotRow(row, i) = NodeRow(db, m, i)
  <2>1. PICK j \in DOMAIN sql.from : sql.from[j].of = <<"slot", i>>
    BY <1>3, ItemsThere DEF There
  <2>2. ItemFor(<<"slot", i>>) = j BY <2>1, PartOf
  <2>3. row[j] = NodeRow(db, m, i) BY <2>1, RowForIs
  <2> HIDE DEF row
  <2> QED BY <2>2, <2>3 DEF SlotRow
<1> QED BY <1>1, <1>2, <1>3

\* The items of the edge table are of relationships.
LEMMA EdgeItems ==
  ASSUME NEW occ, Settled(occ), NEW j \in DOMAIN sql.from, sql.from[j].table = EdgeTable
  PROVE  \E e \in DOMAIN edges : sql.from[j].of = <<"edge", e>>
BY ItemTables

\* The ON clauses hold of a row if those of each relationship and node do.
OnOK(row, on) == \A c \in Range(on) : Value(row, c[1]) = Value(row, c[2])

\* All ON clauses hold if those of the relationships and of the nodes do.
LEMMA AllOn ==
  ASSUME NEW occ, Settled(occ), NEW row
  PROVE  (\A j \in DOMAIN sql.from : OnHolds(row, j)) <=>
           /\ \A e \in DOMAIN edges : OnOK(row, EdgeOn(e))
           /\ \A i \in DOMAIN slots : There(i) => OnOK(row, NodeOn(i))
<1>1. \A j \in DOMAIN sql.from : OnHolds(row, j) <=> OnOK(row, sql.from[j].on)
  BY DEF OnHolds, OnOK
<1>2. \A j \in DOMAIN sql.from :
        \/ \E e \in DOMAIN edges : sql.from[j].of = <<"edge", e>> /\ sql.from[j].on = EdgeOn(e)
        \/ \E i \in DOMAIN slots : There(i) /\ sql.from[j].on = NodeOn(i)
  BY ItemTables DEF There
<1>3. \A e \in DOMAIN edges : \E j \in DOMAIN sql.from : sql.from[j].on = EdgeOn(e)
  <2> TAKE e \in DOMAIN edges
  <2>1. PICK j \in DOMAIN sql.from : sql.from[j].of = <<"edge", e>> BY ItemsThere
  <2>2. OnExact(sql.from[j]) BY SettledIs DEF FromExact
  <2> QED BY <2>1, <2>2 DEF OnExact
<1>4. \A i \in DOMAIN slots : There(i) => \E j \in DOMAIN sql.from : sql.from[j].on = NodeOn(i)
  <2> SUFFICES ASSUME NEW i \in DOMAIN slots, There(i)
               PROVE  \E j \in DOMAIN sql.from : sql.from[j].on = NodeOn(i)
    OBVIOUS
  <2>1. PICK j \in DOMAIN sql.from : sql.from[j].of = <<"slot", i>> BY ItemsThere DEF There
  <2>2. OnExact(sql.from[j]) BY SettledIs DEF FromExact
  <2> QED BY <2>1, <2>2 DEF OnExact
<1> QED BY <1>1, <1>2, <1>3, <1>4

\* The references of an ON clause and of a predicate are resolved.
LEMMA OnSound ==
  ASSUME NEW occ, Settled(occ)
  PROVE  /\ \A e \in DOMAIN edges : SoundOn(EdgeOn(e))
         /\ \A i \in DOMAIN slots : There(i) => SoundOn(NodeOn(i))
         /\ \A e \in DOMAIN edges : \A c \in Range(PredsOf(e)) : Sound(c) /\ c \in Range(sql.pred)
<1>1. \A j \in DOMAIN sql.from : SoundOn(sql.from[j].on) BY SettledIs DEF ReadInv
<1>2. \A e \in DOMAIN edges : SoundOn(EdgeOn(e))
  <2> TAKE e \in DOMAIN edges
  <2>1. PICK j \in DOMAIN sql.from : sql.from[j].of = <<"edge", e>> BY ItemsThere
  <2>2. OnExact(sql.from[j]) BY SettledIs DEF FromExact
  <2> QED BY <1>1, <2>1, <2>2 DEF OnExact
<1>3. \A i \in DOMAIN slots : There(i) => SoundOn(NodeOn(i))
  <2> SUFFICES ASSUME NEW i \in DOMAIN slots, There(i) PROVE SoundOn(NodeOn(i))
    OBVIOUS
  <2>1. PICK j \in DOMAIN sql.from : sql.from[j].of = <<"slot", i>> BY ItemsThere DEF There
  <2>2. OnExact(sql.from[j]) BY SettledIs DEF FromExact
  <2> QED BY <1>1, <2>1, <2>2 DEF OnExact
<1>4. \A c \in Range(sql.pred) : Sound(c) BY SettledIs DEF ReadInv
<1>5. \A e \in DOMAIN edges : \A c \in Range(PredsOf(e)) : c \in Range(sql.pred)
  <2>1. DOMAIN edges = 1 .. Len(edges) BY SettledIs, LenProperties DEF TypeOK
  <2>2. Range(sql.pred) = PredsUpTo(Len(edges)) BY SettledIs
  <2> QED BY <2>1, <2>2 DEF PredsUpTo
<1> QED BY <1>2, <1>3, <1>4, <1>5

\* The predicates hold of a row if those of each relationship do.
LEMMA AllPreds ==
  ASSUME NEW occ, Settled(occ), NEW row
  PROVE  (\A c \in Range(sql.pred) : Holds(row, c)) <=>
           \A e \in DOMAIN edges : \A c \in Range(PredsOf(e)) : Holds(row, c)
<1>1. DOMAIN edges = 1 .. Len(edges) BY SettledIs, LenProperties DEF TypeOK
<1>2. Range(sql.pred) = PredsUpTo(Len(edges)) BY SettledIs
<1> QED BY <1>1, <1>2 DEF PredsUpTo

\* The node is joined to the end of a relationship by its id.
LEMMA TieSays ==
  ASSUME NEW occ, Settled(occ), NEW i, NEW a, NEW t, SoundOn(NodeTie(i, a, t)), NEW row
  PROVE  OnOK(row, NodeTie(i, a, t)) <=> SlotRow(row, i).id = EdgeRow(row, a)[IdColumn(t)]
<1> DEFINE id == [alias |-> SlotAlias(i), col |-> "id", of |-> <<"slot", i>>]
           ref == EdgeRef(a, IdColumn(t))
           c == <<id, ref>>
<1>1. NodeTie(i, a, t) = <<c>> BY DEF NodeTie
<1>2. Range(<<c>>) = {c} BY DEF Range
<1>3. RefOK(id) /\ RefOK(ref)
  <2>1. c[1] = id /\ c[2] = ref OBVIOUS
  <2>2. \A s \in {1, 2} : RefOK(c[s]) BY <1>1, <1>2 DEF SoundOn
  <2> QED BY <2>1, <2>2
<1>4. id.of = <<"slot", i>> /\ id.col = "id" OBVIOUS
<1>5. ref.of = <<"edge", a>> /\ ref.col = IdColumn(t) BY DEF EdgeRef
<1>6. c[1] = id /\ c[2] = ref OBVIOUS
<1> HIDE DEF id, ref, c
<1>7. Value(row, id) = SlotRow(row, i).id BY <1>3, <1>4, ReadsPart
<1>8. Value(row, ref) = EdgeRow(row, a)[IdColumn(t)] BY <1>3, <1>5, ReadsPart
<1> QED BY <1>1, <1>2, <1>6, <1>7, <1>8 DEF OnOK

\* A predicate on a column of a relationship.
LEMMA EqualsSays ==
  ASSUME NEW occ, Settled(occ), NEW e, NEW col, NEW val, Sound(Equals(EdgeRef(e, col), val)), NEW row
  PROVE  Holds(row, Equals(EdgeRef(e, col), val)) <=> EdgeRow(row, e)[col] = val
<1> DEFINE ref == EdgeRef(e, col)
           c == Equals(ref, val)
<1>1. c.op = "=" /\ c.reads = {ref} /\ c.val = val BY DEF Equals
<1>2. ref.of = <<"edge", e>> /\ ref.col = col BY DEF EdgeRef
<1>3. RefOK(ref) BY <1>1 DEF Sound
<1> HIDE DEF ref, c
<1>4. Value(row, ref) = EdgeRow(row, e)[col] BY <1>2, <1>3, ReadsPart
<1>5. Holds(row, c) <=> Value(row, ref) = val BY <1>1 DEF Holds
<1> QED BY <1>4, <1>5 DEF ref, c

\* A predicate the pattern may give or not.
AllSound(X) == \A c \in Range(X) : Sound(c)
AllHold(row, X) == \A c \in Range(X) : Holds(row, c)

\* What a predicate that may be absent says.
LEMMA GivenSays ==
  ASSUME NEW occ, Settled(occ), NEW e, NEW col, NEW val, NEW row,
         AllSound(IfGiven(EdgeRef(e, col), val))
  PROVE  AllHold(row, IfGiven(EdgeRef(e, col), val)) <=>
           (val # NULL => EdgeRow(row, e)[col] = val)
<1>1. CASE val = NULL
  <2>1. IfGiven(EdgeRef(e, col), val) = <<>> BY <1>1 DEF IfGiven
  <2>2. Range(<<>>) = {} BY DEF Range
  <2> QED BY <1>1, <2>1, <2>2 DEF AllHold
<1>2. CASE val # NULL
  <2> DEFINE c == Equals(EdgeRef(e, col), val)
  <2>1. IfGiven(EdgeRef(e, col), val) = <<c>> BY <1>2 DEF IfGiven
  <2>2. Range(<<c>>) = {c} BY DEF Range
  <2>3. Sound(c) BY <2>1, <2>2 DEF AllSound
  <2>4. Holds(row, c) <=> EdgeRow(row, e)[col] = val BY <2>3, EqualsSays
  <2> HIDE DEF c
  <2> QED BY <1>2, <2>1, <2>2, <2>4 DEF AllHold
<1> QED BY <1>1, <1>2

\* The predicates of the inline properties.
LEMMA PropsSay ==
  ASSUME NEW occ, Settled(occ), NEW e, NEW row, AllSound(PropPreds(e))
  PROVE  AllHold(row, PropPreds(e)) <=>
           \A p \in Range(edges[e].props) : EdgeRow(row, e)[p.key] = p.val
<1> DEFINE props == edges[e].props
           pred(j) == Equals(EdgeRef(e, props[j].key), props[j].val)
<1>1. Range(PropPreds(e)) = {pred(j) : j \in DOMAIN props} BY DEF PropPreds, Range
<1>2. \A j \in DOMAIN props : Holds(row, pred(j)) <=> EdgeRow(row, e)[props[j].key] = props[j].val
  BY <1>1, EqualsSays DEF AllSound
<1>3. Range(props) = {props[j] : j \in DOMAIN props} BY DEF Range
<1> HIDE DEF pred, props
<1>4. AllHold(row, PropPreds(e)) <=> \A j \in DOMAIN props : Holds(row, pred(j))
  BY <1>1 DEF AllHold
<1>5. (\A p \in Range(props) : EdgeRow(row, e)[p.key] = p.val) <=>
        \A j \in DOMAIN props : EdgeRow(row, e)[props[j].key] = props[j].val
  BY <1>3
<1> QED BY <1>2, <1>4, <1>5 DEF props

-----------------------------------------------------------------------------
(* What the statement of a single hop says *)

\* The side of the relationship a node is on, if it is read flipped or not.
OnSide(b, i) == IF b THEN i # SlotOf("target") ELSE i = SlotOf("target")

\* The ends of a row are those of the hop, read forwards or backwards.
Oriented(row, b) ==
  \A i \in {1, 2} :
    /\ slots[i].referenced => EdgeRow(row, 1)[IdColumn(OnSide(b, i))] = SlotRow(row, i).id
    /\ slots[i].name # NULL => EdgeRow(row, 1)[NameColumn(OnSide(b, i))] = slots[i].name

\* What a row of the hop's table has to be besides.
Limits(x) ==
  IF Engine = "varlen" THEN ReadMin > 1 => x.depth >= ReadMin
  ELSE /\ Rel.type # NULL => x.edge_type = Rel.type
       /\ \A p \in Range(Rel.props) : x[p.key] = p.val

\* A walk is not read backwards.
MayFlip(b) == b \in BOOLEAN /\ (Engine = "varlen" => ~b)

\* The only relationship of a hop is the pattern's.
LEMMA HopEdge ==
  ASSUME NEW occ, Settled(occ), Engine # "directed"
  PROVE  /\ DOMAIN edges = {1} /\ DOMAIN slots = {1, 2} /\ occ[1] = OnlyHop
         /\ edges[1].type = Rel.type /\ edges[1].props = Rel.props
         /\ \A i \in {1, 2} : There(i) <=> slots[i].referenced
         /\ query \in QueryType /\ Sole
<1>1. /\ DOMAIN edges = {1} /\ DOMAIN slots = {1, 2}
      /\ \A i \in {1, 2} : slots[i].lone = FALSE
      /\ query \in QueryType /\ Sole
  BY SettledIs DEF HopShape, Accepted
<1>2. occ[1] = OnlyHop /\ EdgeOf(1, occ[1]) /\ RelOf(occ[1]) = Rel BY <1>1, OccIs DEF OnlyHop
<1> QED BY <1>1, <1>2 DEF EdgeOf, There

\* An undirected hop accepts either orientation.
LEMMA EitherWaySays ==
  ASSUME NEW occ, Settled(occ), Engine = "undirected", NEW row,
         AllSound(OrientationPreds)
  PROVE  AllHold(row, OrientationPreds) <=> \E b \in BOOLEAN : Oriented(row, b)
<1>0. SlotOf("target") = 2
  <2>1. Sole /\ query \in QueryType BY HopEdge
  <2>2. Rel.dir = "none" BY <2>1, SoleUndirected
  <2> QED BY <2>2 DEF SlotOf, OnLeft
<1>1. OnSide(FALSE, 1) = FALSE /\ OnSide(FALSE, 2) = TRUE
      /\ OnSide(TRUE, 1) = TRUE /\ OnSide(TRUE, 2) = FALSE
  BY <1>0 DEF OnSide
<1>2. CASE \A i \in {1, 2} : ~slots[i].referenced /\ slots[i].name = NULL
  <2>1. OrientationPreds = <<>> BY <1>2 DEF OrientationPreds
  <2>2. Range(<<>>) = {} BY DEF Range
  <2>3. Oriented(row, TRUE) BY <1>2 DEF Oriented
  <2> QED BY <2>1, <2>2, <2>3 DEF AllHold
<1>3. CASE \E i \in {1, 2} : slots[i].referenced \/ slots[i].name # NULL
  <2>1. OrientationPreds = <<EitherWay>> BY <1>3 DEF OrientationPreds
  <2>2. Range(<<EitherWay>>) = {EitherWay} BY DEF Range
  <2>3. /\ EitherWay.op = "or" /\ EitherWay.cases = {Orientation(FALSE), Orientation(TRUE)}
        /\ \A c \in EitherWay.cases : /\ \A p \in c.ids : p[1] \in EitherWay.reads /\ p[2] \in EitherWay.reads
                                      /\ \A p \in c.names : p[1] \in EitherWay.reads
    <3> DEFINE cases == {Orientation(FALSE), Orientation(TRUE)}
               reads == (UNION {UNION {{p[1], p[2]} : p \in c.ids} : c \in cases})
                          \cup (UNION {{p[1] : p \in c.names} : c \in cases})
    <3>1. EitherWay.op = "or" /\ EitherWay.cases = cases /\ EitherWay.reads = reads
      BY DEF EitherWay
    <3> HIDE DEF cases
    <3>2. ASSUME NEW c \in cases, NEW p \in c.ids PROVE p[1] \in reads /\ p[2] \in reads
      <4>1. p[1] \in {p[1], p[2]} /\ p[2] \in {p[1], p[2]} OBVIOUS
      <4>2. {p[1], p[2]} \subseteq UNION {{q[1], q[2]} : q \in c.ids} OBVIOUS
      <4> QED BY <4>1, <4>2
    <3>3. ASSUME NEW c \in cases, NEW p \in c.names PROVE p[1] \in reads OBVIOUS
    <3> HIDE DEF reads
    <3> QED BY <3>1, <3>2, <3>3 DEF cases
  <2>4. \A ref \in EitherWay.reads : RefOK(ref) BY <2>1, <2>2 DEF Sound, AllSound
  <2>5. ASSUME NEW b \in BOOLEAN
        PROVE  (/\ \A p \in Orientation(b).ids : Value(row, p[1]) = Value(row, p[2])
                /\ \A p \in Orientation(b).names : Value(row, p[1]) = p[2])
                  <=> Oriented(row, b)
    <3> DEFINE on(i) == IF i = 1 THEN b ELSE ~b
    <3>1. \A i \in {1, 2} : on(i) = OnSide(b, i) BY <1>1
    <3>2. Orientation(b).ids = SideIds(1, on(1)) \cup SideIds(2, on(2))
          /\ Orientation(b).names = SideNames(1, on(1)) \cup SideNames(2, on(2))
      BY DEF Orientation
    <3>3. Orientation(b) \in EitherWay.cases BY <2>3
    <3> HIDE DEF on
    <3>4. ASSUME NEW i \in {1, 2}
          PROVE  (\A p \in SideIds(i, on(i)) : Value(row, p[1]) = Value(row, p[2])) <=>
                   (slots[i].referenced => EdgeRow(row, 1)[IdColumn(OnSide(b, i))] = SlotRow(row, i).id)
      <4>1. CASE ~slots[i].referenced
        <5>1. SideIds(i, on(i)) = {} BY <4>1 DEF SideIds
        <5> QED BY <4>1, <5>1
      <4>2. CASE slots[i].referenced
        <5> DEFINE e == EdgeRef(1, IdColumn(on(i)))
                   s == SlotRef(i, "id")
        <5>1. SideIds(i, on(i)) = {<<e, s>>} BY <4>2 DEF SideIds
        <5>2. e.of = <<"edge", 1>> /\ e.col = IdColumn(on(i)) BY DEF EdgeRef
        <5>3. s.of = <<"slot", i>> /\ s.col = "id" BY DEF SlotRef
        <5> HIDE DEF e, s
        <5>4. <<e, s>> \in Orientation(b).ids BY <3>2, <5>1
        <5>5. RefOK(e) /\ RefOK(s)
          <6>1. e \in EitherWay.reads /\ s \in EitherWay.reads BY <2>3, <3>3, <5>4
          <6> QED BY <2>4, <6>1
        <5>6. Value(row, e) = EdgeRow(row, 1)[IdColumn(on(i))] /\ Value(row, s) = SlotRow(row, i)["id"]
          BY <5>2, <5>3, <5>5, ReadsPart
        <5>7. (\A p \in SideIds(i, on(i)) : Value(row, p[1]) = Value(row, p[2])) <=>
                Value(row, e) = Value(row, s)
          BY <5>1
        <5> QED BY <3>1, <4>2, <5>6, <5>7
      <4> QED BY <4>1, <4>2
    <3>5. ASSUME NEW i \in {1, 2}
          PROVE  (\A p \in SideNames(i, on(i)) : Value(row, p[1]) = p[2]) <=>
                   (slots[i].name # NULL => EdgeRow(row, 1)[NameColumn(OnSide(b, i))] = slots[i].name)
      <4>1. CASE slots[i].name = NULL
        <5>1. SideNames(i, on(i)) = {} BY <4>1 DEF SideNames
        <5> QED BY <4>1, <5>1
      <4>2. CASE slots[i].name # NULL
        <5> DEFINE e == EdgeRef(1, NameColumn(on(i)))
        <5>1. SideNames(i, on(i)) = {<<e, slots[i].name>>} BY <4>2 DEF SideNames
        <5>2. e.of = <<"edge", 1>> /\ e.col = NameColumn(on(i)) BY DEF EdgeRef
        <5> HIDE DEF e
        <5>3. <<e, slots[i].name>> \in Orientation(b).names BY <3>2, <5>1
        <5>4. RefOK(e)
          <6>1. e \in EitherWay.reads BY <2>3, <3>3, <5>3
          <6> QED BY <2>4, <6>1
        <5>5. Value(row, e) = EdgeRow(row, 1)[NameColumn(on(i))] BY <5>2, <5>4, ReadsPart
        <5>6. (\A p \in SideNames(i, on(i)) : Value(row, p[1]) = p[2]) <=>
                Value(row, e) = slots[i].name
          BY <5>1
        <5> QED BY <3>1, <4>2, <5>5, <5>6
      <4> QED BY <4>1, <4>2
    <3> QED BY <3>2, <3>4, <3>5 DEF Oriented
  <2>6. Holds(row, EitherWay) <=>
          \E b \in BOOLEAN : /\ \A p \in Orientation(b).ids : Value(row, p[1]) = Value(row, p[2])
                             /\ \A p \in Orientation(b).names : Value(row, p[1]) = p[2]
    BY <2>3 DEF Holds
  <2> QED BY <2>1, <2>2, <2>5, <2>6 DEF AllHold
<1> QED BY <1>2, <1>3

\* The statement of an undirected hop.
LEMMA UndirectedSays ==
  ASSUME NEW occ, Settled(occ), Engine = "undirected", NEW row
  PROVE  /\ \A j \in DOMAIN sql.from : OnHolds(row, j)
         /\ (\A c \in Range(sql.pred) : Holds(row, c)) <=>
              Limits(EdgeRow(row, 1)) /\ \E b \in BOOLEAN : MayFlip(b) /\ Oriented(row, b)
<1>1. /\ DOMAIN edges = {1} /\ DOMAIN slots = {1, 2}
      /\ edges[1].type = Rel.type /\ edges[1].props = Rel.props
  BY HopEdge
<1>2. \A j \in DOMAIN sql.from : OnHolds(row, j)
  <2>1. \A e \in DOMAIN edges : OnOK(row, EdgeOn(e)) BY DEF EdgeOn, OnOK, Range
  <2>2. \A i \in DOMAIN slots : OnOK(row, NodeOn(i)) BY DEF NodeOn, OnOK, Range
  <2> QED BY <2>1, <2>2, AllOn
<1>3. PredsOf(1) = TypePreds \o OrientationPreds \o PropPreds(1) BY DEF PredsOf
<1>4. Range(PredsOf(1)) = Range(TypePreds) \cup Range(OrientationPreds) \cup Range(PropPreds(1))
  <2>1. \E S : TypePreds \in Seq(S)
    <3> DEFINE c == Equals(EdgeRef(1, "edge_type"), edges[1].type)
    <3>1. TypePreds = <<>> \/ TypePreds = <<c>> BY DEF TypePreds, IfGiven
    <3> HIDE DEF c
    <3>2. <<c>> \in Seq({c}) /\ <<>> \in Seq({c}) OBVIOUS
    <3>3. CASE TypePreds = <<>> BY <3>2, <3>3
    <3>4. CASE TypePreds = <<c>> BY <3>2, <3>4
    <3> QED BY <3>1, <3>3, <3>4
  <2>2. \E S : OrientationPreds \in Seq(S)
    <3>1. OrientationPreds = <<>> \/ OrientationPreds = <<EitherWay>> BY DEF OrientationPreds
    <3>2. <<EitherWay>> \in Seq({EitherWay}) /\ <<>> \in Seq({EitherWay}) OBVIOUS
    <3>3. CASE OrientationPreds = <<>> BY <3>2, <3>3
    <3>4. CASE OrientationPreds = <<EitherWay>> BY <3>2, <3>4
    <3> QED BY <3>1, <3>3, <3>4
  <2>3. \E S : PropPreds(1) \in Seq(S)
    <3>1. PICK n \in Nat : DOMAIN edges[1].props = 1 .. n
      <4>0. edges \in Seq(EdgeRecords) BY SettledIs DEF TypeOK
      <4>1. edges[1] \in EdgeRecords BY <1>1, <4>0
      <4>2. edges[1].props \in Seq(Props) BY <4>1 DEF EdgeRecords
      <4> QED BY <4>2
    <3>2. PropPreds(1) = [j \in 1 .. n |-> PropPreds(1)[j]] BY <3>1 DEF PropPreds
    <3>3. PropPreds(1) \in Seq(Range(PropPreds(1)))
      <4> DEFINE X == PropPreds(1)
      <4>1. X = [j \in 1 .. n |-> X[j]] BY <3>2
      <4> HIDE DEF X
      <4>2. X \in [1 .. n -> Range(X)] BY <4>1 DEF Range
      <4> QED BY <3>1, <4>2 DEF X
    <3> QED BY <3>3
  <2>4. PICK A : TypePreds \in Seq(A) BY <2>1
  <2>5. PICK B : OrientationPreds \in Seq(B) BY <2>2
  <2>6. PICK C : PropPreds(1) \in Seq(C) BY <2>3
  <2>7. TypePreds \o OrientationPreds \in Seq(A \cup B)
    <3> DEFINE X == TypePreds
               Y == OrientationPreds
    <3>1. X \in Seq(A) /\ Y \in Seq(B) BY <2>4, <2>5
    <3> HIDE DEF X, Y
    <3>2. X \in Seq(A \cup B) /\ Y \in Seq(A \cup B)
      <4>1. \A Z, D, E : Z \in Seq(D) /\ D \subseteq E => Z \in Seq(E) OBVIOUS
      <4> QED BY <3>1, <4>1
    <3>3. X \o Y \in Seq(A \cup B) BY <3>2
    <3> QED BY <3>3 DEF X, Y
  <2>8. Range(TypePreds \o OrientationPreds) = Range(TypePreds) \cup Range(OrientationPreds)
    BY <2>4, <2>5, ConcatIs
  <2>9. Range((TypePreds \o OrientationPreds) \o PropPreds(1)) =
          Range(TypePreds \o OrientationPreds) \cup Range(PropPreds(1))
    BY <2>6, <2>7, ConcatIs
  <2> QED BY <1>3, <2>8, <2>9
<1>5. \A c \in Range(PredsOf(1)) : Sound(c) BY <1>1, OnSound
<1>6. AllHold(row, TypePreds) <=>
        (Rel.type # NULL => EdgeRow(row, 1)["edge_type"] = Rel.type)
  <2>0. PICK col, val : col = "edge_type" /\ val = Rel.type OBVIOUS
  <2>1. TypePreds = IfGiven(EdgeRef(1, col), val) BY <1>1, <2>0 DEF TypePreds
  <2>2. AllSound(IfGiven(EdgeRef(1, col), val)) BY <1>4, <1>5, <2>1 DEF AllSound
  <2>3. AllHold(row, IfGiven(EdgeRef(1, col), val)) <=>
          (val # NULL => EdgeRow(row, 1)[col] = val)
    BY <2>2, GivenSays
  <2> QED BY <2>0, <2>1, <2>3
<1>7. AllHold(row, PropPreds(1)) <=>
        \A p \in Range(Rel.props) : EdgeRow(row, 1)[p.key] = p.val
  <2>1. AllSound(PropPreds(1)) BY <1>4, <1>5 DEF AllSound
  <2> QED BY <1>1, <2>1, PropsSay
<1>8. AllHold(row, OrientationPreds) <=> \E b \in BOOLEAN : Oriented(row, b)
  <2>1. AllSound(OrientationPreds) BY <1>4, <1>5 DEF AllSound
  <2> QED BY <2>1, EitherWaySays
<1>9. (\A c \in Range(sql.pred) : Holds(row, c)) <=> \A c \in Range(PredsOf(1)) : Holds(row, c)
  <2>1. (\A c \in Range(sql.pred) : Holds(row, c)) <=>
          \A e \in DOMAIN edges : \A c \in Range(PredsOf(e)) : Holds(row, c)
    BY AllPreds
  <2> QED BY <1>1, <2>1
<1>10. (\A c \in Range(PredsOf(1)) : Holds(row, c)) <=>
         /\ AllHold(row, TypePreds)
         /\ AllHold(row, OrientationPreds)
         /\ AllHold(row, PropPreds(1))
  BY <1>4 DEF AllHold
<1>11. Limits(EdgeRow(row, 1)) <=>
         /\ Rel.type # NULL => EdgeRow(row, 1)["edge_type"] = Rel.type
         /\ \A p \in Range(Rel.props) : EdgeRow(row, 1)[p.key] = p.val
  BY DEF Limits
<1>12. \A b \in BOOLEAN : MayFlip(b) BY DEF MayFlip
<1> QED BY <1>2, <1>6, <1>7, <1>8, <1>9, <1>10, <1>11, <1>12

\* Predicates in a row hold if each of them does.
LEMMA BothHold ==
  ASSUME NEW S, NEW X \in Seq(S), NEW T0, NEW Y \in Seq(T0), NEW row
  PROVE  /\ AllHold(row, X \o Y) <=> AllHold(row, X) /\ AllHold(row, Y)
         /\ AllSound(X \o Y) => AllSound(X) /\ AllSound(Y)
         /\ X \o Y \in Seq(S \cup T0)
<1>1. Range(X \o Y) = Range(X) \cup Range(Y) BY ConcatIs
<1>2. X \in Seq(S \cup T0) /\ Y \in Seq(S \cup T0)
  <2>1. \A Z, D, E : Z \in Seq(D) /\ D \subseteq E => Z \in Seq(E) OBVIOUS
  <2> QED BY <2>1
<1>3. X \o Y \in Seq(S \cup T0) BY <1>2
<1> QED BY <1>1, <1>3 DEF AllHold, AllSound

\* What the pattern may give or not is a sequence.
LEMMA GivenIsSeq ==
  ASSUME NEW ref, NEW val
  PROVE  \E S : IfGiven(ref, val) \in Seq(S)
<1> DEFINE c == Equals(ref, val)
<1>1. IfGiven(ref, val) = <<>> \/ IfGiven(ref, val) = <<c>> BY DEF IfGiven
<1> HIDE DEF c
<1>2. <<c>> \in Seq({c}) /\ <<>> \in Seq({c}) OBVIOUS
<1>3. CASE IfGiven(ref, val) = <<>> BY <1>2, <1>3
<1>4. CASE IfGiven(ref, val) = <<c>> BY <1>2, <1>4
<1> QED BY <1>1, <1>3, <1>4

\* The statement of a hop of variable length.
LEMMA WalkSays ==
  ASSUME NEW occ, Settled(occ), Engine = "varlen", ~HasSelfLoop, NEW row
  PROVE  (/\ \A j \in DOMAIN sql.from : OnHolds(row, j)
          /\ \A c \in Range(sql.pred) : Holds(row, c)) <=>
            Limits(EdgeRow(row, 1)) /\ Oriented(row, FALSE)
<1>1. /\ DOMAIN edges = {1} /\ DOMAIN slots = {1, 2}
      /\ \A i \in {1, 2} : There(i) <=> slots[i].referenced
  BY HopEdge
<1>2. /\ SlotOf("source") \in {1, 2} /\ SlotOf("target") \in {1, 2}
      /\ SlotOf("source") # SlotOf("target")
  BY HopEnds
<1>3. \A i : OnSide(FALSE, i) = (i = SlotOf("target")) BY DEF OnSide
<1>4. (\A j \in DOMAIN sql.from : OnHolds(row, j)) <=>
        \A i \in {1, 2} : slots[i].referenced =>
          EdgeRow(row, 1)[IdColumn(OnSide(FALSE, i))] = SlotRow(row, i).id
  <2>1. \A e \in DOMAIN edges : OnOK(row, EdgeOn(e)) BY DEF EdgeOn, OnOK, Range
  <2>2. ASSUME NEW i \in DOMAIN slots, There(i)
        PROVE  OnOK(row, NodeOn(i)) <=> EdgeRow(row, 1)[IdColumn(OnSide(FALSE, i))] = SlotRow(row, i).id
    <3>1. PICK t : t = OnSide(FALSE, i) OBVIOUS
    <3>2. NodeOn(i) = NodeTie(i, 1, t) BY <1>3, <3>1 DEF NodeOn
    <3>3. SoundOn(NodeTie(i, 1, t)) BY <2>2, <3>2, OnSound
    <3>4. OnOK(row, NodeTie(i, 1, t)) <=> SlotRow(row, i).id = EdgeRow(row, 1)[IdColumn(t)]
      BY <3>3, TieSays
    <3> QED BY <3>1, <3>2, <3>4
  <2> QED BY <1>1, <2>1, <2>2, AllOn
<1>5. AllSound(PredsOf(1)) BY <1>1, OnSound DEF AllSound
<1>6. (\A c \in Range(sql.pred) : Holds(row, c)) <=> AllHold(row, PredsOf(1))
  <2>1. (\A c \in Range(sql.pred) : Holds(row, c)) <=>
          \A e \in DOMAIN edges : \A c \in Range(PredsOf(e)) : Holds(row, c)
    BY AllPreds
  <2> QED BY <1>1, <2>1 DEF AllHold
<1> DEFINE X == EndPreds("source")
           Y == EndPreds("target")
<1>7. PredsOf(1) = X \o Y \o DepthPreds BY DEF PredsOf
<1>8. PICK A, B, C : X \in Seq(A) /\ Y \in Seq(B) /\ DepthPreds \in Seq(C)
  <2>1. \E A : X \in Seq(A) BY GivenIsSeq DEF EndPreds
  <2>2. \E A : Y \in Seq(A) BY GivenIsSeq DEF EndPreds
  <2>3. \E A : DepthPreds \in Seq(A)
    <3> DEFINE c == [op |-> ">=", reads |-> {EdgeRef(1, "depth")}, least |-> ReadMin]
    <3>1. DepthPreds = <<>> \/ DepthPreds = <<c>> BY DEF DepthPreds
    <3> HIDE DEF c
    <3>2. <<c>> \in Seq({c}) /\ <<>> \in Seq({c}) OBVIOUS
    <3>3. CASE DepthPreds = <<>> BY <3>2, <3>3
    <3>4. CASE DepthPreds = <<c>> BY <3>2, <3>4
    <3> QED BY <3>1, <3>3, <3>4
  <2> QED BY <2>1, <2>2, <2>3
<1> HIDE DEF X, Y
<1>9. /\ AllHold(row, PredsOf(1)) <=> AllHold(row, X) /\ AllHold(row, Y) /\ AllHold(row, DepthPreds)
      /\ AllSound(X) /\ AllSound(Y) /\ AllSound(DepthPreds)
  <2>1. /\ AllHold(row, X \o Y) <=> AllHold(row, X) /\ AllHold(row, Y)
        /\ AllSound(X \o Y) => AllSound(X) /\ AllSound(Y)
        /\ X \o Y \in Seq(A \cup B)
    BY <1>8, BothHold
  <2>2. /\ AllHold(row, (X \o Y) \o DepthPreds) <=> AllHold(row, X \o Y) /\ AllHold(row, DepthPreds)
        /\ AllSound((X \o Y) \o DepthPreds) => AllSound(X \o Y) /\ AllSound(DepthPreds)
    BY <1>8, <2>1, BothHold
  <2> QED BY <1>5, <1>7, <2>1, <2>2
<1>10. ASSUME NEW side \in {"source", "target"}, AllSound(EndPreds(side))
       PROVE  LET i == SlotOf(side) IN
              AllHold(row, EndPreds(side)) <=>
                (slots[i].name # NULL =>
                   EdgeRow(row, 1)[NameColumn(OnSide(FALSE, i))] = slots[i].name)
  <2>1. PICK col, val, i : /\ i = SlotOf(side) /\ col = NameColumn(OnSide(FALSE, i))
                           /\ val = slots[i].name
    OBVIOUS
  <2>2. (side = "target") = OnSide(FALSE, i) BY <1>2, <1>3, <2>1
  <2>3. EndPreds(side) = IfGiven(EdgeRef(1, col), val) BY <2>1, <2>2 DEF EndPreds
  <2>4. AllSound(IfGiven(EdgeRef(1, col), val)) BY <1>10, <2>3
  <2>5. AllHold(row, IfGiven(EdgeRef(1, col), val)) <=> (val # NULL => EdgeRow(row, 1)[col] = val)
    BY <2>4, GivenSays
  <2> QED BY <2>1, <2>3, <2>5
<1>11. AllHold(row, X) /\ AllHold(row, Y) <=>
         \A i \in {1, 2} : slots[i].name # NULL =>
           EdgeRow(row, 1)[NameColumn(OnSide(FALSE, i))] = slots[i].name
  <2>1. \A i \in {1, 2} : i = SlotOf("source") \/ i = SlotOf("target") BY <1>2
  <2> QED BY <1>2, <1>9, <1>10, <2>1 DEF X, Y
<1>12. AllHold(row, DepthPreds) <=> Limits(EdgeRow(row, 1))
  <2>1. CASE ReadMin > 1
    <3> DEFINE ref == EdgeRef(1, "depth")
               c == [op |-> ">=", reads |-> {ref}, least |-> ReadMin]
    <3>1. DepthPreds = <<c>> BY <2>1 DEF DepthPreds
    <3>2. ref.of = <<"edge", 1>> /\ ref.col = "depth" BY DEF EdgeRef
    <3>3. c.op = ">=" /\ c.reads = {ref} /\ c.least = ReadMin OBVIOUS
    <3> HIDE DEF c, ref
    <3>4. Range(<<c>>) = {c} BY DEF Range
    <3>5. RefOK(ref) BY <1>9, <3>1, <3>3, <3>4 DEF AllSound, Sound
    <3>6. Value(row, ref) = EdgeRow(row, 1)["depth"] BY <3>2, <3>5, ReadsPart
    <3>7. Holds(row, c) <=> Value(row, ref) >= ReadMin BY <3>3 DEF Holds
    <3>8. AllHold(row, DepthPreds) <=> Holds(row, c) BY <3>1, <3>4 DEF AllHold
    <3> QED BY <2>1, <3>6, <3>7, <3>8 DEF Limits
  <2>2. CASE ~(ReadMin > 1)
    <3>1. DepthPreds = <<>> BY <2>2 DEF DepthPreds
    <3>2. Range(<<>>) = {} BY DEF Range
    <3> QED BY <2>2, <3>1, <3>2 DEF AllHold, Limits
  <2> QED BY <2>1, <2>2
<1>13. Oriented(row, FALSE) <=>
         /\ \A i \in {1, 2} : slots[i].referenced =>
              EdgeRow(row, 1)[IdColumn(OnSide(FALSE, i))] = SlotRow(row, i).id
         /\ \A i \in {1, 2} : slots[i].name # NULL =>
              EdgeRow(row, 1)[NameColumn(OnSide(FALSE, i))] = slots[i].name
  BY DEF Oriented
<1> QED BY <1>4, <1>6, <1>9, <1>11, <1>12, <1>13

\* The statement of a single hop.
LEMMA HopSays ==
  ASSUME NEW occ, Settled(occ), Engine # "directed", ~HasSelfLoop, NEW row
  PROVE  (/\ \A j \in DOMAIN sql.from : OnHolds(row, j)
          /\ \A c \in Range(sql.pred) : Holds(row, c)) <=>
            Limits(EdgeRow(row, 1)) /\ \E b \in BOOLEAN : MayFlip(b) /\ Oriented(row, b)
<1>1. Engine \in {"directed", "undirected", "varlen"} BY DEF Engine
<1>2. CASE Engine = "undirected" BY <1>2, UndirectedSays
<1>3. CASE Engine = "varlen"
  <2>1. \A b \in BOOLEAN : MayFlip(b) <=> b = FALSE BY <1>3 DEF MayFlip
  <2> QED BY <1>3, <2>1, WalkSays
<1> QED BY <1>1, <1>2, <1>3

-----------------------------------------------------------------------------
(* What a trail and a row of the hop's table say of each other *)

\* The trail a row of the hop's table is of.
TrailFor(x, b) == Trail(IF Engine = "varlen" THEN x.path ELSE <<x>>, b)

\* What the end of a trail is, by the columns of its row.
LEMMA EndIsColumn ==
  ASSUME NEW occ, Settled(occ), Engine # "directed", ~HasSelfLoop, NEW db,
         NEW t \in StandsFor(OnlyHop, db), NEW i \in {1, 2}
  PROVE  /\ EndAt(t, i).id = HopRow(t)[IdColumn(OnSide(t.flipped, i))]
         /\ EndAt(t, i).name = HopRow(t)[NameColumn(OnSide(t.flipped, i))]
         /\ EndAt(t, i) = [id |-> EndAt(t, i).id, name |-> EndAt(t, i).name]
         /\ t.flipped \in BOOLEAN
<1>1. /\ SlotOf("source") \in {1, 2} /\ SlotOf("target") \in {1, 2}
      /\ SlotOf("source") # SlotOf("target") /\ RelOf(OnlyHop) = Rel
  BY HopEnds
<1>2. Sole /\ query \in QueryType BY HopEdge
<1>3. IdColumn(TRUE) = "target_id" /\ IdColumn(FALSE) = "source_id"
      /\ NameColumn(TRUE) = "target_name" /\ NameColumn(FALSE) = "source_name"
  BY DEF IdColumn, NameColumn
<1>4. CASE Engine = "varlen"
  <2>1. Rel.varlen # NULL BY <1>2, <1>4, SoleUndirected
  <2>2. PICK p : t = Trail(p, FALSE) BY <1>1, <2>1 DEF StandsFor
  <2>3. t.path = p /\ t.flipped = FALSE BY <2>2 DEF Trail
  <2>4. HopRow(t) = WalkRow(p) BY <1>4, <2>3 DEF HopRow
  <2>5. /\ First(t) = Source(p[1]) /\ Last(t) = Target(p[Len(p)]) BY <2>3 DEF First, Last
  <2>6. /\ HopRow(t)["source_id"] = Source(p[1]).id /\ HopRow(t)["source_name"] = Source(p[1]).name
        /\ HopRow(t)["target_id"] = Target(p[Len(p)]).id
        /\ HopRow(t)["target_name"] = Target(p[Len(p)]).name
    BY <2>4 DEF WalkRow
  <2>7. \A x : Source(x) = [id |-> Source(x).id, name |-> Source(x).name]
               /\ Target(x) = [id |-> Target(x).id, name |-> Target(x).name]
    BY DEF Source, Target
  <2>8. OnSide(FALSE, i) = (i = SlotOf("target")) BY DEF OnSide
  <2>9. CASE i = SlotOf("source")
    <3>1. EndAt(t, i) = Source(p[1]) /\ OnSide(FALSE, i) = FALSE
      BY <1>1, <2>5, <2>8, <2>9 DEF EndAt
    <3> QED BY <1>3, <2>3, <2>6, <2>7, <3>1
  <2>10. CASE i = SlotOf("target")
    <3>1. EndAt(t, i) = Target(p[Len(p)]) /\ OnSide(FALSE, i) = TRUE
      BY <1>1, <2>5, <2>8, <2>10 DEF EndAt
    <3> QED BY <1>3, <2>3, <2>6, <2>7, <3>1
  <2> QED BY <1>1, <2>9, <2>10
<1>5. CASE Engine # "varlen"
  <2>1. OnlyHop \in RelOccs BY HopEnds
  <2>2. Rel.varlen = NULL BY <1>1, <1>5, <2>1, VarlenIs
  <2>0. PICK b \in BOOLEAN : \E x : t = Trail(<<x>>, b) BY <1>1, <2>2 DEF StandsFor
  <2>3. PICK x : t = Trail(<<x>>, b) BY <2>0
  <2>4. t.path = <<x>> /\ t.flipped = b BY <2>3 DEF Trail
  <2>5. HopRow(t) = x BY <1>5, <2>4 DEF HopRow
  <2>6. Len(<<x>>) = 1 /\ <<x>>[1] = x OBVIOUS
  <2>7. /\ First(t) = IF b THEN Target(x) ELSE Source(x)
        /\ Last(t) = IF b THEN Source(x) ELSE Target(x)
    BY <2>4, <2>6 DEF First, Last
  <2>8. /\ OnSide(TRUE, i) <=> i = SlotOf("source")
        /\ OnSide(FALSE, i) <=> i = SlotOf("target")
    BY <1>1 DEF OnSide
  <2>9. EndAt(t, i) = IF OnSide(b, i) THEN Target(x) ELSE Source(x)
    <3>1. CASE b = TRUE BY <1>1, <2>7, <2>8, <3>1 DEF EndAt
    <3>2. CASE b = FALSE
      <4>1. First(t) = Source(x) /\ Last(t) = Target(x) BY <2>7, <3>2
      <4>0. i # SlotOf("source") <=> i = SlotOf("target") BY <1>1
      <4>2. OnSide(b, i) <=> i # SlotOf("source") BY <4>0, <3>2 DEF OnSide
      <4> QED BY <4>1, <4>2 DEF EndAt
    <3> QED BY <3>1, <3>2
  <2>10. /\ Source(x) = [id |-> x["source_id"], name |-> x["source_name"]]
         /\ Target(x) = [id |-> x["target_id"], name |-> x["target_name"]]
    BY DEF Source, Target
  <2>11. PICK s : s = OnSide(t.flipped, i) OBVIOUS
  <2>12. s \in BOOLEAN BY <2>11 DEF OnSide
  <2>13. EndAt(t, i) = IF s THEN Target(x) ELSE Source(x) BY <2>4, <2>9, <2>11
  <2>14. EndAt(t, i).id = x[IdColumn(s)] /\ EndAt(t, i).name = x[NameColumn(s)]
         /\ EndAt(t, i) = [id |-> EndAt(t, i).id, name |-> EndAt(t, i).name]
    <3>1. CASE s = TRUE
      <4>1. EndAt(t, i) = Target(x) BY <2>13, <3>1
      <4>2. IdColumn(s) = "target_id" /\ NameColumn(s) = "target_name" BY <1>3, <3>1
      <4> QED BY <2>10, <4>1, <4>2
    <3>2. CASE s = FALSE
      <4>1. EndAt(t, i) = Source(x) BY <2>13, <3>2
      <4>2. IdColumn(s) = "source_id" /\ NameColumn(s) = "source_name" BY <1>3, <3>2
      <4> QED BY <2>10, <4>1, <4>2
    <3> QED BY <2>12, <3>1, <3>2
  <2> QED BY <2>4, <2>5, <2>11, <2>14
<1> QED BY <1>4, <1>5

\* What the pattern of a hop says of a trail.
LEMMA HopTrails ==
  ASSUME NEW occ, Settled(occ), Engine # "directed", ~HasSelfLoop, NEW db, NEW t
  PROVE  /\ Engine = "varlen" =>
              (t \in StandsFor(OnlyHop, db) <=>
                 \E p \in TrailsOf(db[EdgeTable], Rel.type, Rel.varlen.max) :
                   t = Trail(p, FALSE) /\ (Rel.varlen.min # NULL => Len(p) >= Rel.varlen.min))
         /\ Engine # "varlen" =>
              (t \in StandsFor(OnlyHop, db) <=>
                 \E b \in BOOLEAN, x \in db[EdgeTable] :
                   t = Trail(<<x>>, b) /\ (b => Source(x) # Target(x)))
<1>1. RelOf(OnlyHop) = Rel /\ OnlyHop \in RelOccs BY HopEnds
<1>2. Sole /\ query \in QueryType BY HopEdge
<1>3. CASE Engine = "varlen"
  <2>1. Rel.varlen # NULL BY <1>2, <1>3, SoleUndirected
  <2> QED BY <1>1, <1>3, <2>1 DEF StandsFor
<1>4. CASE Engine # "varlen"
  <2>1. Rel.varlen = NULL BY <1>1, <1>4, VarlenIs
  <2>2. Rel.dir = "none"
    <3>1. Engine \in {"directed", "undirected", "varlen"} BY DEF Engine
    <3> QED BY <1>2, <1>4, <3>1, SoleUndirected
  <2>3. t \in StandsFor(OnlyHop, db) <=>
          \/ \E x \in db[EdgeTable] : t = Trail(<<x>>, FALSE)
          \/ \E x \in db[EdgeTable] : Source(x) # Target(x) /\ t = Trail(<<x>>, TRUE)
    BY <1>1, <2>1, <2>2 DEF StandsFor
  <2> QED BY <1>4, <2>3
<1> QED BY <1>3, <1>4

\* The table of the hop has the relationships, or the trails, of the database.
LEMMA HopRows ==
  ASSUME NEW occ, Settled(occ), NEW db, NEW x
  PROVE  /\ Engine = "varlen" =>
              (x \in TableRows(db, HopTable) <=>
                 \E p \in TrailsOf(db[EdgeTable], Rel.type, Rel.varlen.max) : x = WalkRow(p))
         /\ Engine # "varlen" => (x \in TableRows(db, HopTable) <=> x \in db[EdgeTable])
<1>1. CASE Engine = "varlen" BY <1>1, WalkIs DEF TableRows, HopTable
<1>2. CASE Engine # "varlen"
  <2>1. ~IsWalk(EdgeTable) BY SettledIs, SchemaAssumption DEF WellNamed
  <2> QED BY <1>2, <2>1 DEF TableRows, HopTable
<1> QED BY <1>1, <1>2

\* A trail that stands for the hop has its row.
LEMMA TrailToRow ==
  ASSUME NEW occ, Settled(occ), Engine # "directed", ~HasSelfLoop, NEW db,
         NEW t \in StandsFor(OnlyHop, db), Fits(OnlyHop, t)
  PROVE  /\ HopRow(t) \in TableRows(db, HopTable) /\ Limits(HopRow(t))
         /\ MayFlip(t.flipped) /\ t = TrailFor(HopRow(t), t.flipped)
         /\ t.flipped => Source(HopRow(t)) # Target(HopRow(t))
<1>1. RelOf(OnlyHop) = Rel BY HopEnds
<1>2. CASE Engine = "varlen"
  <2>1. PICK p \in TrailsOf(db[EdgeTable], Rel.type, Rel.varlen.max) :
          t = Trail(p, FALSE) /\ (Rel.varlen.min # NULL => Len(p) >= Rel.varlen.min)
    BY <1>2, HopTrails
  <2>2. t.path = p /\ t.flipped = FALSE BY <2>1 DEF Trail
  <2>3. HopRow(t) = WalkRow(p) /\ WalkRow(p).path = p /\ WalkRow(p).depth = Len(p)
    BY <1>2, <2>2 DEF HopRow, WalkRow
  <2>4. ReadMin > 1 => Len(p) >= ReadMin
    <3>1. ReadMin = (IF Rel.varlen.min = NULL THEN 1 ELSE Rel.varlen.min) BY <1>2, WalkIs
    <3> QED BY <2>1, <3>1
  <2>5. Limits(HopRow(t)) BY <1>2, <2>3, <2>4 DEF Limits
  <2>6. HopRow(t) \in TableRows(db, HopTable) BY <1>2, <2>3, HopRows
  <2>7. MayFlip(t.flipped) BY <2>2 DEF MayFlip
  <2>8. t = TrailFor(HopRow(t), t.flipped) BY <1>2, <2>1, <2>2, <2>3 DEF TrailFor
  <2> QED BY <2>2, <2>5, <2>6, <2>7, <2>8
<1>3. CASE Engine # "varlen"
  <2>1. PICK b \in BOOLEAN, x \in db[EdgeTable] :
          t = Trail(<<x>>, b) /\ (b => Source(x) # Target(x))
    BY <1>3, HopTrails
  <2>2. t.path = <<x>> /\ t.flipped = b BY <2>1 DEF Trail
  <2>3. HopRow(t) = x BY <1>3, <2>2 DEF HopRow
  <2>4. Limits(x)
    <3>1. /\ Rel.type # NULL => x.edge_type = Rel.type
          /\ \A p \in Range(Rel.props) : x[p.key] = p.val
      BY <1>1, <2>2 DEF Fits
    <3> QED BY <1>3, <3>1 DEF Limits
  <2>5. x \in TableRows(db, HopTable) BY <1>3, HopRows
  <2>6. MayFlip(b) BY <1>3 DEF MayFlip
  <2>7. t = TrailFor(x, b) BY <1>3, <2>1 DEF TrailFor
  <2> QED BY <2>1, <2>2, <2>3, <2>4, <2>5, <2>6, <2>7
<1> QED BY <1>2, <1>3

\* A row of the hop's table that the limits let through is of a trail.
LEMMA RowToTrail ==
  ASSUME NEW occ, Settled(occ), Engine # "directed", ~HasSelfLoop, NEW db,
         NEW x \in TableRows(db, HopTable), Limits(x),
         NEW b, MayFlip(b), b => Source(x) # Target(x)
  PROVE  LET t == TrailFor(x, b) IN
         /\ t \in StandsFor(OnlyHop, db) /\ Fits(OnlyHop, t)
         /\ HopRow(t) = x /\ t.flipped = b
<1>1. RelOf(OnlyHop) = Rel BY HopEnds
<1> DEFINE t == TrailFor(x, b)
<1>2. CASE Engine = "varlen"
  <2>1. b = FALSE BY <1>2 DEF MayFlip
  <2>2. PICK p \in TrailsOf(db[EdgeTable], Rel.type, Rel.varlen.max) : x = WalkRow(p)
    BY <1>2, HopRows
  <2>3. x.path = p /\ x.depth = Len(p) BY <2>2 DEF WalkRow
  <2>4. t = Trail(p, FALSE) BY <1>2, <2>1, <2>3 DEF TrailFor
  <2>5. t.path = p /\ t.flipped = FALSE BY <2>4 DEF Trail
  <2>6. HopRow(t) = x BY <1>2, <2>2, <2>5 DEF HopRow
  <2>7. /\ \E n \in Nat : p \in [1 .. n -> db[EdgeTable]] /\ Len(p) = n
        /\ Len(p) >= 1
        /\ \A n \in 1 .. Len(p) : Rel.type # NULL => p[n].edge_type = Rel.type
    <3>1. /\ \E n \in 1 .. Cardinality(db[EdgeTable]) : p \in [1 .. n -> db[EdgeTable]]
          /\ Len(p) >= 1
          /\ \A n \in 1 .. Len(p) : Rel.type # NULL => p[n].edge_type = Rel.type
      BY TrailIs
    <3>2. PICK n \in Nat : p \in [1 .. n -> db[EdgeTable]] BY <3>1
    <3>3. Len(p) = n BY <3>2
    <3> QED BY <3>1, <3>2, <3>3
  <2>8. Rel.varlen.min # NULL => Len(p) >= Rel.varlen.min
    <3>1. ReadMin = (IF Rel.varlen.min = NULL THEN 1 ELSE Rel.varlen.min) BY <1>2, WalkIs
    <3>2. ReadMin > 1 => Len(p) >= ReadMin BY <1>2, <2>3 DEF Limits
    <3>3. Rel.varlen.min # NULL => Rel.varlen.min \in Nat
      <4>1. Sole /\ query \in QueryType BY HopEdge
      <4>2. Rel \in RelPats /\ Rel.varlen # NULL BY <1>2, <4>1, HopTyped, SoleUndirected
      <4>3. Rel.varlen \in Bounds BY <4>2 DEF RelPats, OrNull
      <4> QED BY <4>3 DEF Bounds, OrNull
    <3> QED BY <2>7, <3>1, <3>2, <3>3
  <2>9. t \in StandsFor(OnlyHop, db) BY <1>2, <2>4, <2>8, HopTrails
  <2>10. Rel.props = <<>>
    <3>1. Supported BY <1>2, SettledIs DEF Settled, EndsInv
    <3> QED BY <3>1 DEF Supported
  <2>11. Fits(OnlyHop, t)
    <3>1. DOMAIN p = 1 .. Len(p) BY <2>7
    <3>2. Range(Rel.props) = {} BY <2>10 DEF Range
    <3> HIDE DEF t
    <3> QED BY <1>1, <2>5, <2>7, <3>1, <3>2 DEF Fits
  <2> QED BY <2>1, <2>5, <2>6, <2>9, <2>11
<1>3. CASE Engine # "varlen"
  <2>0. b \in BOOLEAN BY DEF MayFlip
  <2>1. t = Trail(<<x>>, b) BY <1>3 DEF TrailFor
  <2>2. t.path = <<x>> /\ t.flipped = b BY <2>1 DEF Trail
  <2>3. HopRow(t) = x BY <1>3, <2>2 DEF HopRow
  <2>4. x \in db[EdgeTable] BY <1>3, HopRows
  <2>5. t \in StandsFor(OnlyHop, db) BY <1>3, <2>0, <2>1, <2>4, HopTrails
  <2>6. Fits(OnlyHop, t)
    <3>1. /\ Rel.type # NULL => x.edge_type = Rel.type
          /\ \A p \in Range(Rel.props) : x[p.key] = p.val
      BY <1>3 DEF Limits
    <3>2. DOMAIN <<x>> = {1} /\ <<x>>[1] = x OBVIOUS
    <3> HIDE DEF t
    <3> QED BY <1>1, <2>2, <3>1, <3>2 DEF Fits
  <2> QED BY <2>2, <2>3, <2>5, <2>6
<1> QED BY <1>2, <1>3

\* The row of a node of a hop is the row of the end of the trail.
LEMMA HopNode ==
  ASSUME NEW occ, Settled(occ), Engine # "directed", ~HasSelfLoop,
         NEW db \in Databases, NEW m \in Layings(db), NEW i \in {1, 2}, slots[i].referenced
  PROVE  /\ slots[i].label # NULL /\ slots[i].name # NULL
         /\ NodeRow(db, m, i) \in db[slots[i].label]
         /\ NodeRow(db, m, i).id = EndAt(m.rels[OnlyHop], i).id
         /\ \A row \in db[slots[i].label] :
              row.id = EndAt(m.rels[OnlyHop], i).id => row = NodeRow(db, m, i)
<1>1. i \in DOMAIN slots /\ KeyOf(slots[i].np) \notin LoneKeys BY HopEnds
<1>2. SlotMeans(i) BY <1>1, SettledIs DEF SlotsMean
<1>3. slots[i].label # NULL BY <1>1, SettledIs DEF MarkInv
<1>4. slots[i].name # NULL BY <1>2, <1>3 DEF SlotMeans
<1>5. EndsAt(m.rels, KeyOf(slots[i].np)) = {EndAt(m.rels[OnlyHop], i)} BY HopEndsAt
<1>6. /\ NodeRow(db, m, i) \in db[slots[i].label]
      /\ KeyOf(slots[i].np) \notin LoneKeys =>
           \A node \in EndsAt(m.rels, KeyOf(slots[i].np)) :
             /\ NodeRow(db, m, i).id = node.id
             /\ \A row \in db[slots[i].label] : row.id = node.id => row = NodeRow(db, m, i)
  BY <1>1, <1>2, <1>3, SettledIs, NodeRowIs
<1> QED BY <1>1, <1>3, <1>4, <1>5, <1>6

-----------------------------------------------------------------------------
(* A hop's matches and the statement's rows *)

\* The row of a match is a row of the statement.
LEMMA HopRowIn ==
  ASSUME NEW occ, Settled(occ), Engine # "directed", ~HasSelfLoop,
         NEW db \in Databases, NEW m \in Layings(db)
  PROVE  RowFor(occ, db, m) \in PatternRows(db)
<1> DEFINE row == RowFor(occ, db, m)
           t == m.rels[OnlyHop]
<1>1. HopFits(db, t) BY HopMatches
<1>2. t \in StandsFor(OnlyHop, db) /\ Fits(OnlyHop, t)
      /\ \A i \in {1, 2} : slots[i].name # NULL => EndAt(t, i).name = slots[i].name
  BY <1>1 DEF HopFits
<1>3. /\ DOMAIN edges = {1} /\ DOMAIN slots = {1, 2} /\ occ[1] = OnlyHop
      /\ \A i \in {1, 2} : There(i) <=> slots[i].referenced
  BY HopEdge
<1>4. EdgeRow(row, 1) = HopRow(t) BY <1>3, MatchParts
<1>5. \A i \in {1, 2} : slots[i].referenced => SlotRow(row, i) = NodeRow(db, m, i)
  BY <1>3, MatchParts
<1> HIDE DEF row
<1>6. Limits(EdgeRow(row, 1)) /\ MayFlip(t.flipped) /\ t.flipped \in BOOLEAN
  <2>1. Limits(HopRow(t)) /\ MayFlip(t.flipped) BY <1>2, TrailToRow
  <2> QED BY <1>4, <2>1 DEF MayFlip
<1>7. Oriented(row, t.flipped)
  <2> SUFFICES ASSUME NEW i \in {1, 2}
               PROVE  /\ slots[i].referenced =>
                           EdgeRow(row, 1)[IdColumn(OnSide(t.flipped, i))] = SlotRow(row, i).id
                      /\ slots[i].name # NULL =>
                           EdgeRow(row, 1)[NameColumn(OnSide(t.flipped, i))] = slots[i].name
    BY DEF Oriented
  <2>1. /\ EndAt(t, i).id = HopRow(t)[IdColumn(OnSide(t.flipped, i))]
        /\ EndAt(t, i).name = HopRow(t)[NameColumn(OnSide(t.flipped, i))]
    BY <1>2, EndIsColumn
  <2>2. slots[i].referenced => NodeRow(db, m, i).id = EndAt(t, i).id BY HopNode
  <2> HIDE DEF t
  <2> QED BY <1>2, <1>4, <1>5, <2>1, <2>2
<1>8. /\ \A j \in DOMAIN sql.from : OnHolds(row, j)
      /\ \A c \in Range(sql.pred) : Holds(row, c)
  BY <1>6, <1>7, HopSays
<1>9. row \in JoinedRows(db) BY <1>8, RowJoined DEF row
<1> QED BY <1>8, <1>9 DEF PatternRows, row

\* Each row of the statement is the row of a match.
LEMMA HopRowFrom ==
  ASSUME NEW occ, Settled(occ), Engine # "directed", ~HasSelfLoop,
         NEW db \in Databases, NEW row \in PatternRows(db)
  PROVE  \E m \in Layings(db) : RowFor(occ, db, m) = row
<1>1. row \in JoinedRows(db) /\ \A c \in Range(sql.pred) : Holds(row, c) BY DEF PatternRows
<1>2. /\ row = [j \in DOMAIN sql.from |-> row[j]]
      /\ \A j \in DOMAIN sql.from : OnHolds(row, j)
  BY <1>1, JoinedHas
<1>3. PICK x : x = EdgeRow(row, 1) OBVIOUS
<1>4. Limits(x) /\ \E b \in BOOLEAN : MayFlip(b) /\ Oriented(row, b) BY <1>1, <1>2, <1>3, HopSays
<1>5. /\ DOMAIN edges = {1} /\ DOMAIN slots = {1, 2} /\ occ[1] = OnlyHop
      /\ \A i \in {1, 2} : There(i) <=> slots[i].referenced
  BY HopEdge
<1>6. x \in TableRows(db, HopTable) BY <1>1, <1>3, <1>5, PartsTyped
<1>7. \E b \in BOOLEAN : MayFlip(b) /\ Oriented(row, b) /\ (b => Source(x) # Target(x))
  <2>1. PICK b \in BOOLEAN : MayFlip(b) /\ Oriented(row, b) BY <1>4
  <2>2. CASE Source(x) # Target(x) BY <2>1, <2>2
  <2>3. CASE Source(x) = Target(x)
    <3>1. x["source_id"] = x["target_id"] /\ x["source_name"] = x["target_name"]
      BY <2>3 DEF Source, Target
    <3>2. \A s : /\ x[IdColumn(s)] = x["source_id"]
                 /\ x[NameColumn(s)] = x["source_name"]
      BY <3>1 DEF IdColumn, NameColumn
    <3>3. Oriented(row, FALSE) BY <1>3, <2>1, <3>2 DEF Oriented
    <3>4. MayFlip(FALSE) BY DEF MayFlip
    <3> QED BY <3>3, <3>4
  <2> QED BY <2>2, <2>3
<1>8. PICK b \in BOOLEAN : MayFlip(b) /\ Oriented(row, b) /\ (b => Source(x) # Target(x))
  BY <1>7
<1>9. PICK t : t = TrailFor(x, b) OBVIOUS
<1>10. /\ t \in StandsFor(OnlyHop, db) /\ Fits(OnlyHop, t)
       /\ HopRow(t) = x /\ t.flipped = b
  <2>1. LET tt == TrailFor(x, b) IN
        /\ tt \in StandsFor(OnlyHop, db) /\ Fits(OnlyHop, tt)
        /\ HopRow(tt) = x /\ tt.flipped = b
    BY <1>4, <1>6, <1>8, RowToTrail
  <2> QED BY <1>9, <2>1
<1>11. \A i \in {1, 2} : /\ EndAt(t, i).id = x[IdColumn(OnSide(b, i))]
                         /\ EndAt(t, i).name = x[NameColumn(OnSide(b, i))]
  <2> TAKE i \in {1, 2}
  <2>1. /\ EndAt(t, i).id = HopRow(t)[IdColumn(OnSide(t.flipped, i))]
        /\ EndAt(t, i).name = HopRow(t)[NameColumn(OnSide(t.flipped, i))]
    BY <1>10, EndIsColumn
  <2> QED BY <1>10, <2>1
<1>12. HopFits(db, t) BY <1>3, <1>8, <1>10, <1>11 DEF HopFits, Oriented
<1>13. PICK m \in Layings(db) : m.rels[OnlyHop] = t BY <1>12, HopMatches
<1>14. PICK other : other = RowFor(occ, db, m) OBVIOUS
<1>15. /\ other = [j \in DOMAIN sql.from |-> other[j]]
       /\ EdgeRow(other, 1) = HopRow(m.rels[occ[1]])
       /\ \A i \in DOMAIN slots : There(i) => SlotRow(other, i) = NodeRow(db, m, i)
  BY <1>5, <1>14, MatchParts
<1>16. EdgeRow(other, 1) = EdgeRow(row, 1) BY <1>3, <1>5, <1>10, <1>13, <1>15
<1>17. ASSUME NEW i \in DOMAIN slots, There(i)
       PROVE  SlotRow(other, i) = SlotRow(row, i)
  <2>1. i \in {1, 2} /\ slots[i].referenced BY <1>5, <1>17
  <2>2. SlotRow(row, i) \in db[slots[i].label] BY <1>1, <1>17, PartsTyped
  <2>3. SlotRow(row, i).id = EndAt(t, i).id BY <1>3, <1>8, <1>11, <2>1 DEF Oriented
  <2>4. \A r \in db[slots[i].label] : r.id = EndAt(m.rels[OnlyHop], i).id => r = NodeRow(db, m, i)
    BY <2>1, HopNode
  <2>5. SlotRow(row, i) = NodeRow(db, m, i) BY <1>13, <2>2, <2>3, <2>4
  <2> QED BY <1>15, <1>17, <2>5
<1>18. other = row BY <1>2, <1>5, <1>15, <1>16, <1>17, PartsTell
<1> QED BY <1>14, <1>18

\* A row whose ends have different names fits one orientation.
LEMMA NamesTurn ==
  ASSUME NEW db, NEW t \in StandsFor(OnlyHop, db), NEW u \in StandsFor(OnlyHop, db),
         NEW x, HopRow(t) = x, HopRow(u) = x,
         NEW occ, Settled(occ), Engine # "directed", ~HasSelfLoop,
         EndAt(t, 1).name = slots[1].name, EndAt(t, 2).name = slots[2].name,
         EndAt(u, 1).name = slots[1].name, EndAt(u, 2).name = slots[2].name,
         slots[1].name # slots[2].name
  PROVE  t.flipped = u.flipped
<1>1. ASSUME NEW i \in {1, 2}
      PROVE  /\ EndAt(t, i).name = x[NameColumn(OnSide(t.flipped, i))]
             /\ EndAt(u, i).name = x[NameColumn(OnSide(u.flipped, i))]
             /\ t.flipped \in BOOLEAN /\ u.flipped \in BOOLEAN
  BY EndIsColumn
<1>2. PICK b, c : b = t.flipped /\ c = u.flipped OBVIOUS
<1>3. b \in BOOLEAN /\ c \in BOOLEAN BY <1>1, <1>2
<1>4. SUFFICES ASSUME b # c PROVE FALSE BY <1>2
<1>5. OnSide(b, 1) = OnSide(c, 2) BY <1>3, <1>4 DEF OnSide, SlotOf
<1>6. EndAt(t, 1).name = x[NameColumn(OnSide(b, 1))] /\ EndAt(u, 2).name = x[NameColumn(OnSide(c, 2))]
  BY <1>1, <1>2
<1> QED BY <1>5, <1>6

\* Where the statement counts matches, no two have one row.
LEMMA HopRowOnce ==
  ASSUME NEW occ, Settled(occ), Engine # "directed", ~HasSelfLoop, CountsMatches,
         NEW db \in Databases, NEW m \in Layings(db), NEW n \in Layings(db),
         RowFor(occ, db, m) = RowFor(occ, db, n)
  PROVE  m = n
<1>1. PICK t, u : t = m.rels[OnlyHop] /\ u = n.rels[OnlyHop] OBVIOUS
<1>2. HopFits(db, t) /\ m = HopMatch(t) BY <1>1, HopMatches
<1>3. HopFits(db, u) /\ n = HopMatch(u) BY <1>1, HopMatches
<1>4. /\ t \in StandsFor(OnlyHop, db) /\ Fits(OnlyHop, t)
      /\ \A i \in {1, 2} : slots[i].name # NULL => EndAt(t, i).name = slots[i].name
  BY <1>2 DEF HopFits
<1>5. /\ u \in StandsFor(OnlyHop, db) /\ Fits(OnlyHop, u)
      /\ \A i \in {1, 2} : slots[i].name # NULL => EndAt(u, i).name = slots[i].name
  BY <1>3 DEF HopFits
<1>6. /\ DOMAIN edges = {1} /\ DOMAIN slots = {1, 2} /\ occ[1] = OnlyHop
      /\ \A i \in {1, 2} : There(i) <=> slots[i].referenced
      /\ query \in QueryType /\ Sole
  BY HopEdge
<1>7. PICK row : row = RowFor(occ, db, m) /\ row = RowFor(occ, db, n) OBVIOUS
<1>8. /\ EdgeRow(row, 1) = HopRow(t)
      /\ \A i \in DOMAIN slots : There(i) => SlotRow(row, i) = NodeRow(db, m, i)
  BY <1>1, <1>6, <1>7, MatchParts
<1>9. /\ EdgeRow(row, 1) = HopRow(u)
      /\ \A i \in DOMAIN slots : There(i) => SlotRow(row, i) = NodeRow(db, n, i)
  BY <1>1, <1>6, <1>7, MatchParts
<1>10. PICK x : x = HopRow(t) /\ x = HopRow(u) BY <1>8, <1>9
<1>11. /\ MayFlip(t.flipped) /\ t = TrailFor(x, t.flipped)
       /\ t.flipped => Source(x) # Target(x)
  BY <1>4, <1>10, TrailToRow
<1>12. /\ MayFlip(u.flipped) /\ u = TrailFor(x, u.flipped)
       /\ u.flipped => Source(x) # Target(x)
  BY <1>5, <1>10, TrailToRow
<1>13. t.flipped = u.flipped
  <2>1. CASE Engine = "varlen" BY <1>11, <1>12, <2>1 DEF MayFlip
  <2>2. CASE Engine # "varlen"
    <3>1. Rel.dir = "none"
      <4>1. Engine \in {"directed", "undirected", "varlen"} BY DEF Engine
      <4> QED BY <1>6, <2>2, <4>1, SoleUndirected
    <3>2. \E o \in RelOccs : RelOf(o).dir = "none" BY <3>1, HopEnds
    <3>3. CASE ~\E i \in {1, 2} : slots[i].referenced
      <4>1. slots[1].name # NULL /\ slots[2].name # NULL /\ slots[1].name # slots[2].name
        BY <1>6, <3>2, <3>3 DEF CountsMatches
      <4>2. /\ EndAt(t, 1).name = slots[1].name /\ EndAt(t, 2).name = slots[2].name
            /\ EndAt(u, 1).name = slots[1].name /\ EndAt(u, 2).name = slots[2].name
        BY <1>4, <1>5, <4>1
      <4> QED BY <1>4, <1>5, <1>10, <4>1, <4>2, NamesTurn
    <3> SUFFICES ASSUME NEW i \in {1, 2}, slots[i].referenced PROVE t.flipped = u.flipped
      BY <3>3
    <3>4. /\ NodeRow(db, m, i).id = EndAt(t, i).id /\ NodeRow(db, n, i).id = EndAt(u, i).id
          /\ slots[i].name # NULL
      BY <1>1, <3>3, HopNode
    <3>5. EndAt(t, i).id = EndAt(u, i).id BY <1>6, <1>8, <1>9, <3>3, <3>4
    <3>6. EndAt(t, i).name = EndAt(u, i).name BY <1>4, <1>5, <3>4
    <3>7. /\ EndAt(t, i).id = x[IdColumn(OnSide(t.flipped, i))]
          /\ EndAt(t, i).name = x[NameColumn(OnSide(t.flipped, i))]
      BY <1>4, <1>10, EndIsColumn
    <3>8. /\ EndAt(u, i).id = x[IdColumn(OnSide(u.flipped, i))]
          /\ EndAt(u, i).name = x[NameColumn(OnSide(u.flipped, i))]
      BY <1>5, <1>10, EndIsColumn
    <3>9. PICK p, q : p = OnSide(t.flipped, i) /\ q = OnSide(u.flipped, i) OBVIOUS
    <3>10. p \in BOOLEAN /\ q \in BOOLEAN BY <3>9 DEF OnSide
    <3>11. t.flipped \in BOOLEAN /\ u.flipped \in BOOLEAN BY <1>11, <1>12 DEF MayFlip
    <3>12. CASE t.flipped # u.flipped
      <4>1. p # q BY <3>9, <3>11, <3>12 DEF OnSide
      <4>2. x[IdColumn(p)] = x[IdColumn(q)] /\ x[NameColumn(p)] = x[NameColumn(q)]
        BY <3>5, <3>6, <3>7, <3>8, <3>9
      <4>3. x["source_id"] = x["target_id"] /\ x["source_name"] = x["target_name"]
        <5>1. /\ IdColumn(TRUE) = "target_id" /\ NameColumn(TRUE) = "target_name"
              /\ IdColumn(FALSE) = "source_id" /\ NameColumn(FALSE) = "source_name"
          BY DEF IdColumn, NameColumn
        <5>2. (p = TRUE /\ q = FALSE) \/ (p = FALSE /\ q = TRUE) BY <3>10, <4>1
        <5>3. CASE p = TRUE /\ q = FALSE
          <6>1. x[IdColumn(TRUE)] = x[IdColumn(FALSE)] /\ x[NameColumn(TRUE)] = x[NameColumn(FALSE)]
            BY <4>2, <5>3
          <6> QED BY <5>1, <6>1
        <5>4. CASE p = FALSE /\ q = TRUE
          <6>1. x[IdColumn(FALSE)] = x[IdColumn(TRUE)] /\ x[NameColumn(FALSE)] = x[NameColumn(TRUE)]
            BY <4>2, <5>4
          <6> QED BY <5>1, <6>1
        <5> QED BY <5>2, <5>3, <5>4
      <4>4. Source(x) = Target(x) BY <4>3 DEF Source, Target
      <4> QED BY <1>11, <1>12, <3>11, <3>12, <4>4
    <3> QED BY <3>12
  <2> QED BY <2>1, <2>2
<1> QED BY <1>2, <1>3, <1>11, <1>12, <1>13

\* A single hop has one relationship, and its statement one item for it.
LEMMA HopUsesOnce ==
  ASSUME NEW occ, Settled(occ), Engine # "directed", NEW m
  PROVE  UsesOnce(m)
<1>1. Sole /\ query \in QueryType BY HopEdge
<1>2. RelOccs = {<<1, 1>>} BY <1>1, HopOccs
<1> QED BY <1>2 DEF UsesOnce

\* So no row of it uses a relationship twice.
LEMMA HopRepeatsNone ==
  ASSUME NEW occ, Settled(occ), Engine # "directed", NEW row
  PROVE  RepeatsNone(row)
<1> SUFFICES ASSUME NEW i \in DOMAIN sql.from, NEW j \in DOMAIN sql.from,
                    sql.from[i].table = EdgeTable, sql.from[j].table = EdgeTable
             PROVE  i = j
  BY DEF RepeatsNone
<1>1. ASSUME NEW n \in DOMAIN sql.from, sql.from[n].table = EdgeTable
      PROVE  sql.from[n].of = <<"edge", 1>>
  <2>1. PICK e \in DOMAIN edges : sql.from[n].of = <<"edge", e>>
    BY <1>1, EdgeItems
  <2>2. DOMAIN edges = {1} BY HopEdge
  <2> QED BY <2>1, <2>2
<1>2. sql.from[i].of = sql.from[j].of BY <1>1
<1> QED BY <1>2, ItemOnce

\* So the rows of the statement are the layings, and those of the matches repeat none.
LEMMA HopOnto ==
  ASSUME NEW occ, Settled(occ), Engine # "directed", ~HasSelfLoop, NEW db \in Databases
  PROVE  \E f : Onto(db, f) /\ Counts(db, f)
<1> DEFINE f == [m \in Layings(db) |-> RowFor(occ, db, m)]
<1>1. \A m \in Layings(db) : f[m] = RowFor(occ, db, m) OBVIOUS
<1>2. \A m \in Layings(db) : RowFor(occ, db, m) \in PatternRows(db) BY HopRowIn
<1>3. f \in [Layings(db) -> PatternRows(db)] BY <1>2
<1>4. ASSUME NEW row \in PatternRows(db) PROVE \E m \in Layings(db) : f[m] = row
  <2>1. PICK m \in Layings(db) : RowFor(occ, db, m) = row BY HopRowFrom
  <2> QED BY <1>1, <2>1
<1>5. ASSUME NEW m \in Layings(db) PROVE Agree(db, m, f[m])
  <2>1. Agree(db, m, RowFor(occ, db, m))
    <3>1. DInv /\ pc = "done" /\ WellNamed /\ SlotsMean /\ OccsOf(occ) BY SettledIs
    <3> QED BY <3>1, RowAgrees
  <2> QED BY <1>1, <2>1
<1>6. \A m \in Layings(db) : UsesOnce(m)
  BY HopUsesOnce
<1>7. \A m \in Layings(db) : RepeatsNone(f[m]) <=> UsesOnce(m)
  BY <1>1, <1>6, HopRepeatsNone
<1>8. CountsMatches => OneToOneOn(db, f)
  <2> SUFFICES ASSUME CountsMatches, NEW m \in Layings(db), NEW n \in Layings(db), f[m] = f[n]
               PROVE  m = n
    BY DEF OneToOneOn
  <2>1. RowFor(occ, db, m) = RowFor(occ, db, n) BY <1>1
  <2> QED BY <2>1, HopRowOnce
<1> HIDE DEF f
<1>9. Onto(db, f) BY <1>3, <1>4, <1>5, <1>7 DEF Onto
<1> QED BY <1>8, <1>9, <1>6 DEF Counts

\* A label that can be resolved is of a table and a recorded name.
LEMMA LabelMeans ==
  ASSUME NEW label \in Labels, Resolution(NameMap, label).ok
  PROVE  /\ Resolution(NameMap, label).table \in Labels
         /\ Resolution(NameMap, label).name \in Labels
<1> DEFINE E == [table : Labels, name : Labels]
           t == LastHit(NameMap, TableHits(NameMap, label))
           n == LastHit(NameMap, NameHits(NameMap, label))
<1>1. NameMap \in Seq(E) /\ NULL \notin Labels BY EmissionAssumption
<1>2. t = NULL \/ t \in E
  <2>1. CASE TableHits(NameMap, label) = {} BY <2>1 DEF LastHit
  <2>2. CASE TableHits(NameMap, label) # {} BY <1>1, <2>2, LastHitIsEntry DEF TableHits
  <2> QED BY <2>1, <2>2
<1>3. n = NULL \/ n \in E
  <2>1. CASE NameHits(NameMap, label) = {} BY <2>1 DEF LastHit
  <2>2. CASE NameHits(NameMap, label) # {} BY <1>1, <2>2, LastHitIsEntry DEF NameHits
  <2> QED BY <2>1, <2>2
<1>4. Resolution(NameMap, label) = Choice(label, t, n) BY <1>1 DEF Resolution
<1> HIDE DEF t, n
<1> QED BY <1>2, <1>3, <1>4 DEF Choice, Resolved, Rejected

\* The nodes of a single hop mean what their labels mean.
LEMMA HopMeans ==
  ASSUME DInv, pc = "done", EndsInv, Accepted, Engine # "directed", ~HasSelfLoop
  PROVE  SlotsMean
<1>1. query \in QueryType /\ HopShape /\ Sole /\ EndIs(1) /\ EndIs(2)
  BY DEF DInv, EInv, LInv, TInv, TypeOK, Emitting, Accepted, EndsInv
<1>2. /\ NodeOccs = {<<1, 0>>, <<1, 1>>} /\ RelOccs = {OnlyHop} /\ RelOf(OnlyHop) = Rel
      /\ NodeOf(<<1, 0>>) = Left /\ NodeOf(<<1, 1>>) = Right
  BY <1>1, HopOccs DEF OnlyHop
<1>3. Before(OnlyHop) = <<1, 0>> BY DEF Before, OnlyHop
<1>4. /\ SrcKey(OnlyHop) = IF Rel.dir = "left" THEN KeyOf(<<1, 1>>) ELSE KeyOf(<<1, 0>>)
      /\ TgtKey(OnlyHop) = IF Rel.dir = "left" THEN KeyOf(<<1, 0>>) ELSE KeyOf(<<1, 1>>)
  <2>1. CASE Rel.dir = "left" BY <1>2, <1>3, <2>1 DEF SrcKey, TgtKey, OnlyHop
  <2>2. CASE Rel.dir # "left" BY <1>2, <1>3, <2>2 DEF SrcKey, TgtKey, OnlyHop
  <2> QED BY <2>1, <2>2
<1>5. KeyOf(<<1, 0>>) # KeyOf(<<1, 1>>)
  <2>1. SrcKey(OnlyHop) # TgtKey(OnlyHop) BY <1>2 DEF HasSelfLoop
  <2> QED BY <1>4, <2>1
<1>6. LoneKeys = {}
  <2>1. LoneKeys = Keys \ {SrcKey(OnlyHop), TgtKey(OnlyHop)} BY <1>2 DEF LoneKeys
  <2>2. Keys = {KeyOf(<<1, 0>>), KeyOf(<<1, 1>>)} BY <1>2 DEF Keys
  <2> QED BY <1>4, <2>1, <2>2
<1>7. ASSUME NEW i \in {1, 2} PROVE SlotMeans(i)
  <2>1. PICK o \in NodeOccs : o = <<1, i - 1>> BY <1>2
  <2>2. PICK label : label = NodeOf(o).label OBVIOUS
  <2>3. NodeAt(1, i - 1) = NodeOf(o) BY <2>1 DEF NodeOf
  <2>4. label \in OrNull(Labels)
    <3>1. Left \in NodePats /\ Right \in NodePats BY <1>1, HopTyped
    <3>2. NodeOf(o) \in NodePats BY <1>2, <3>1
    <3> QED BY <2>2, <3>2 DEF NodePats
  <2>5. PICK r : r = Resolution(NameMap, label) OBVIOUS
  <2>6. /\ slots[i].np = o /\ r.ok /\ slots[i].label = r.table /\ slots[i].name = r.name
        /\ r.table # NULL => r.table \in DOMAIN Catalog
    BY <1>1, <2>1, <2>2, <2>3, <2>5 DEF EndIs, Meaning, KnownTable
  <2>7. Meanings(KeyOf(o)) = {Resolution(NameMap, NodeOf(x).label) : x \in {x \in {o} : NodeOf(x).label # NULL}}
    <3>1. {x \in NodeOccs : KeyOf(x) = KeyOf(o) /\ NodeOf(x).label # NULL} =
            {x \in {o} : NodeOf(x).label # NULL}
      BY <1>2, <1>5, <2>1
    <3> QED BY <3>1 DEF Meanings
  <2>8. CASE label = NULL
    <3>1. Meanings(KeyOf(o)) = {} BY <2>2, <2>7, <2>8
    <3>2. r.table = NULL /\ r.name = NULL BY <2>5, <2>8 DEF Resolution, Resolved
    <3> QED BY <2>6, <3>1, <3>2 DEF SlotMeans
  <2>9. CASE label # NULL
    <3>1. Meanings(KeyOf(o)) = {r} BY <2>2, <2>5, <2>7, <2>9
    <3>2. label \in Labels /\ NULL \notin Labels BY <2>4, <2>9, EmissionAssumption DEF OrNull
    <3>3. r.table \in Labels /\ r.name \in Labels BY <2>5, <2>6, <3>2, LabelMeans
    <3> QED BY <2>5, <2>6, <3>1, <3>2, <3>3 DEF SlotMeans
  <2> QED BY <2>8, <2>9
<1>8. DOMAIN slots = {1, 2} /\ \A i \in {1, 2} : slots[i].lone = FALSE BY <1>1 DEF HopShape
<1> QED BY <1>6, <1>7, <1>8 DEF SlotsMean

\* A finished statement whose rows are the matches answers the query.
LEMMA RowsAnswer ==
  ASSUME ClausesInv, NEW occ, Settled(occ),
         \A db \in Databases : \E f : Onto(db, f) /\ Counts(db, f)
  PROVE  SameAnswer
<1>1. /\ DInv /\ pc = "done" /\ pc \in Emitting /\ WellNamed /\ SlotsMean /\ OccsOf(occ)
      /\ TypeOK /\ query \in Queries /\ Accepted /\ SlotsFound
      /\ Clean /\ BindsOK /\ ReadInv
  BY SettledIs
<1>2. ClauseInv /\ AnswerInv BY <1>1 DEF ClausesInv, DInv
<1>3. TablesMeant BY <1>1, BoundTables DEF SlotsMean
<1>4. query.items # <<>> BY <1>1, EmissionAssumption DEF Accepted, Shape
<1>5. \A d \in DOMAIN edges : edges[d].var # NULL => edges[d].var \in RelVars
  BY <1>1 DEF OccsOf, RelVars
<1>6. \A db \in Databases : IsFiniteSet(SqlRows(db)) BY RowsFinite
<1> QED BY <1>1, <1>2, <1>3, <1>4, <1>5, <1>6, AnswerFrom

\* The answer of a single hop.
LEMMA HopAnswers ==
  ASSUME ClausesInv, ExactInv, AcceptedInv, EndsInv, pc = "done", Engine # "directed", BoundsFit
  PROVE  SameAnswer
<1> SUFFICES ASSUME WellNamed, ~HasSelfLoop PROVE SameAnswer BY DEF SameAnswer
<1>1. DInv BY DEF ClausesInv
<1>2. SlotsMean BY <1>1, HopMeans DEF AcceptedInv
<1>3. PICK occ : OccsOf(occ) BY <1>1, AllFound DEF OccsOf
<1>4. Settled(occ) BY <1>1, <1>2, <1>3 DEF Settled
<1>5. \A db \in Databases : \E f : Onto(db, f) /\ Counts(db, f)
  BY <1>4, HopOnto
<1> QED BY <1>4, <1>5, RowsAnswer

-----------------------------------------------------------------------------

\* When the clauses are opened nothing is joined.
LEMMA ExactFresh ==
  ASSUME pc' = "select", sql' = NoSql
  PROVE  ExactInv'
<1>1. sql'.from = <<>> /\ sql'.pred = <<>> BY DEF NoSql
<1>2. FromExact' BY <1>1 DEF FromExact
<1>3. PredExact' BY <1>1 DEF PredExact
<1>4. WithExact' BY DEF WithExact, Late
<1> QED BY <1>2, <1>3, <1>4 DEF ExactInv

-----------------------------------------------------------------------------
(* The labels of the nodes *)

\* An occurrence of the key of a slot is the slot's.
LEMMA KeyIsSame ==
  ASSUME SlotsFound, NEW j \in DOMAIN slots, NEW np, KeyOf(slots[j].np) = KeyOf(np)
  PROVE  Same(slots[j], NodeOf(np), np)
<1>1. slots[j].var = NodeOf(slots[j].np).var
  BY DEF SlotsFound
<1>2. NodeOf(slots[j].np).var = NodeOf(np).var
  BY DEF KeyOf
<1>3. NodeOf(np).var = NULL => slots[j].np = np
  <2>1. KeyOf(slots[j].np).at = KeyOf(np).at
    OBVIOUS
  <2> QED  BY <1>2, <2>1 DEF KeyOf
<1> QED  BY <1>1, <1>2, <1>3 DEF Same

\* Slots have keys of their own.
LEMMA KeysApart ==
  ASSUME UniqueIn(slots), SlotsFound, NEW i \in DOMAIN slots, NEW j \in DOMAIN slots,
         KeyOf(slots[i].np) = KeyOf(slots[j].np)
  PROVE  i = j
<1>1. PICK np : np = slots[i].np
  OBVIOUS
<1>2. Same(slots[i], NodeOf(np), np) /\ Same(slots[j], NodeOf(np), np)
  BY <1>1, KeyIsSame
<1> QED  BY <1>2 DEF Same, UniqueIn

\* The labels seen of a slot's node are L, and L is one if it is given.
LabelledAs(i, L) ==
  /\ \A o \in NodeOccs :
       Seen(o) /\ KeyOf(o) = KeyOf(slots[i].np) /\ NodeOf(o).label # NULL => NodeOf(o).label = L
  /\ L # NULL =>
       \E o \in NodeOccs : Seen(o) /\ KeyOf(o) = KeyOf(slots[i].np) /\ NodeOf(o).label = L

\* The slot has what its label is resolved to; it has not been read yet; and
\* what is known of its label before and after that.
ResolvedAs(s, L) ==
  LET r == Resolution(NameMap, L) IN r.ok /\ s.label = r.table /\ s.name = r.name
Unread(i) == pc \in {"dispatch", "collect"} \/ (pc = "resolve" /\ k <= i)
LabelsInv ==
  Engine = "directed" /\ pc # "failed" =>
    \A i \in DOMAIN slots :
      /\ Unread(i) => LabelledAs(i, slots[i].label)
      /\ ~Unread(i) => \E L \in OrNull(Labels) : LabelledAs(i, L) /\ ResolvedAs(slots[i], L)

\* What has been seen stays so, and nothing more is, in steps that collect nothing.
SeenSame == \A o \in NodeOccs : Seen(o)' <=> Seen(o)

\* Steps that move past no occurrence leave what has been seen.
LEMMA SeenSameWhen ==
  ASSUME query \in QueryType,
         \/ pc \notin {"dispatch", "collect"} /\ pc' \notin {"dispatch", "collect"}
         \/ /\ pc \in {"dispatch", "collect"} /\ pc' \in {"dispatch", "collect"}
            /\ pi' = pi /\ k' = k
         \/ pc' \notin {"dispatch", "collect"} /\ pi \in Nat /\ Len(query.paths) < pi
  PROVE  SeenSame
<1>1. \A o \in NodeOccs : o[1] \in 1 .. Len(query.paths) /\ Len(query.paths) \in Nat
  BY OccsAre
<1> QED  BY <1>1 DEF SeenSame, Seen

\* The labels of a node are those seen of it.
LEMMA LabelledKept ==
  ASSUME query' = query, SeenSame, NEW i, slots'[i].np = slots[i].np, NEW L
  PROVE  LabelledAs(i, L)' <=> LabelledAs(i, L)
<1>1. /\ NodeOccs' = NodeOccs /\ \A o : NodeOf(o)' = NodeOf(o)
      /\ \A o : KeyOf(o)' = KeyOf(o)
  BY OccsStay
<1>2. KeyOf(slots[i].np)' = KeyOf(slots[i].np)
  BY <1>1
<1> QED  BY <1>1, <1>2 DEF LabelledAs, SeenSame

\* Collecting an occurrence reads its label.
LEMMA LabelsGrow ==
  ASSUME IInv, SlotsFound, KeysFound, pc = "collect", pc' = pc, query' = query, NextSegment,
         pi <= Len(query.paths),
         \A i \in DOMAIN slots : LabelledAs(i, slots[i].label),
         NEW node \in NodePats, node = NodeAt(pi, k), ~Conflict(node, <<pi, k>>),
         DOMAIN slots' = DOMAIN SlotFor(node, <<pi, k>>),
         \A i \in DOMAIN slots' : /\ slots'[i].np = SlotFor(node, <<pi, k>>)[i].np
                                  /\ slots'[i].label = SlotFor(node, <<pi, k>>)[i].label
  PROVE  \A i \in DOMAIN slots' : LabelledAs(i, slots[i].label)'
<1> DEFINE np == <<pi, k>>
           ss == SlotFor(node, np)
           c == SlotIndex(node, np)
<1>1. /\ NodeOccs' = NodeOccs /\ \A o : NodeOf(o)' = NodeOf(o)
      /\ \A o : KeyOf(o)' = KeyOf(o)
  BY OccsStay
<1>2. np \in NodeOccs /\ \A o \in NodeOccs : Seen(o)' <=> Seen(o) \/ o = np
  BY SeenStep
<1>3. TypeOK /\ UniqueIn(slots) /\ np \in Nat \X Nat /\ node = NodeOf(np) /\ slots \in Seq(SlotRecords)
  BY DEF IInv, TypeOK, NodeOf
<1>4. /\ GrownTo(ss) /\ c \in DOMAIN ss /\ KeyOf(ss[c].np) = KeyOf(np)
      /\ Len(slots) \in Nat /\ DOMAIN slots = 1 .. Len(slots)
      /\ c \in 1 .. Len(slots) + 1
      /\ c <= Len(slots) => Same(slots[c], node, np)
      /\ c = Len(slots) + 1 => \A i \in DOMAIN slots : ~Same(slots[i], node, np)
  BY <1>2, <1>3, SlotForIs, SlotKey, SlotIndexIs, LenProperties
<1>5. \A i \in DOMAIN slots' : slots'[i].np = ss[i].np /\ slots'[i].label = ss[i].label
  OBVIOUS
<1>6. \A i \in DOMAIN slots : KeyOf(slots[i].np) = KeyOf(np) => i = c
  <2> SUFFICES ASSUME NEW i \in DOMAIN slots, KeyOf(slots[i].np) = KeyOf(np)
               PROVE  i = c
    OBVIOUS
  <2>1. Same(slots[i], node, np)
    BY <1>3, KeyIsSame
  <2>2. c \in DOMAIN slots /\ Same(slots[c], node, np)
    <3> HIDE DEF c, np
    <3> QED  BY <1>4, <2>1
  <2> HIDE DEF c, np
  <2> QED  BY <1>3, <2>1, <2>2 DEF Same, UniqueIn
<1>7. CASE c = Len(slots) + 1
  <2>1. ss = Append(slots, NewSlot(node, np))
    BY <1>7 DEF SlotFor
  <2>2. NewSlot(node, np) \in SlotRecords /\ NewSlot(node, np).label = node.label
    BY <1>3 DEF NewSlot, SlotRecords, NodePats, OrNull
  <2>3. /\ DOMAIN ss = 1 .. Len(slots) + 1 /\ ss[c].label = node.label
        /\ \A i \in DOMAIN slots : ss[i] = slots[i]
    <3> HIDE DEF ss, c, np
    <3>1. /\ DOMAIN ss = 1 .. Len(slots) + 1 /\ ss[Len(slots) + 1] = NewSlot(node, np)
          /\ \A i \in 1 .. Len(slots) : ss[i] = slots[i]
      BY <1>3, <2>1, AppendIs
    <3> QED  BY <1>4, <1>7, <2>2, <3>1
  <2>4. \A o \in NodeOccs : Seen(o) => KeyOf(o) # KeyOf(np)
    <3> SUFFICES ASSUME NEW o \in NodeOccs, Seen(o), KeyOf(o) = KeyOf(np)
                 PROVE  FALSE
      OBVIOUS
    <3>1. PICK j \in DOMAIN slots : KeyOf(slots[j].np) = KeyOf(o)
      BY DEF KeysFound
    <3>2. Same(slots[j], node, np)
      BY <1>3, <3>1, KeyIsSame
    <3> QED  BY <1>4, <1>7, <3>2
  <2> HIDE DEF ss, c, np
  <2>5. ASSUME NEW i \in DOMAIN slots'
        PROVE  LabelledAs(i, slots[i].label)'
    <3>1. CASE i = c
      <4>1. /\ \A o \in NodeOccs : Seen(o)' /\ KeyOf(o) = KeyOf(np) => o = np
            /\ NodeOf(np).label = slots'[i].label
            /\ KeyOf(slots'[i].np) = KeyOf(np)
        <5>1. slots'[i].np = ss[c].np /\ slots'[i].label = ss[c].label
          BY <1>5, <3>1 DEF ss, np
        <5> QED  BY <1>2, <1>3, <1>4, <2>3, <2>4, <5>1
      <4>2. /\ \A o \in NodeOccs : Seen(o)' /\ KeyOf(o) = KeyOf(slots'[i].np) => o = np
            /\ \A o \in NodeOccs : o = np => Seen(o)'
        BY <1>2, <4>1
      <4> QED  BY <1>1, <1>2, <4>1, <4>2 DEF LabelledAs
    <3>2. CASE i # c
      <4>1. i \in DOMAIN slots /\ slots'[i].np = slots[i].np /\ slots'[i].label = slots[i].label
        <5>1. i \in 1 .. Len(slots) + 1 /\ i # Len(slots) + 1
          BY <1>7, <2>3, <3>2 DEF ss, np
        <5>2. i \in DOMAIN slots
          BY <1>4, <5>1
        <5> QED  BY <1>5, <2>3, <5>2
      <4>2. KeyOf(slots'[i].np) # KeyOf(np) /\ LabelledAs(i, slots[i].label)
        BY <1>6, <3>2, <4>1
      <4> QED  BY <1>1, <1>2, <4>1, <4>2 DEF LabelledAs
    <3> QED  BY <3>1, <3>2
  <2> QED  BY <2>5
<1>8. CASE c # Len(slots) + 1
  <2>1. c \in DOMAIN slots /\ c <= Len(slots)
    <3> HIDE DEF c
    <3> QED  BY <1>4, <1>8
  <2>2. /\ DOMAIN ss = DOMAIN slots
        /\ \A i \in DOMAIN slots : ss[i].np = slots[i].np
        /\ \A i \in DOMAIN slots : i # c => ss[i].label = slots[i].label
        /\ ss[c].label = IF node.label = NULL THEN slots[c].label ELSE node.label
    <3>1. ss = IF node.label = NULL THEN slots ELSE [slots EXCEPT ![c].label = node.label]
      BY <1>8 DEF SlotFor
    <3>2. slots[c] \in SlotRecords
      BY <1>3, <2>1
    <3> HIDE DEF ss, c
    <3>3. \A i \in DOMAIN slots : ss[i].np = slots[i].np
      BY <1>4 DEF GrownTo, Kept
    <3>4. DOMAIN ss = DOMAIN slots /\ \A i \in DOMAIN slots : i # c => ss[i].label = slots[i].label
      BY <3>1
    <3>5. node.label # NULL => ss[c] = [slots[c] EXCEPT !.label = node.label]
      BY <2>1, <3>1
    <3> QED  BY <3>1, <3>2, <3>3, <3>4, <3>5 DEF SlotRecords
  <2>3. node.label # NULL /\ slots[c].label # NULL => node.label = slots[c].label
    BY <2>1 DEF Conflict
  <2> HIDE DEF ss, c, np
  <2>4. ASSUME NEW i \in DOMAIN slots'
        PROVE  LabelledAs(i, slots[i].label)'
    <3>0. i \in DOMAIN slots /\ slots'[i].np = slots[i].np /\ LabelledAs(i, slots[i].label)
      BY <1>5, <2>2 DEF ss, np
    <3>1. CASE i = c
      <4>1. KeyOf(slots[i].np) = KeyOf(np)
        BY <1>4, <2>2, <3>0, <3>1
      <4>2. slots'[i].label = IF node.label = NULL THEN slots[i].label ELSE node.label
        BY <1>5, <2>2, <3>1
      <4>3. \A o \in NodeOccs : o = np => Seen(o)'
        BY <1>2
      <4>4. ASSUME NEW o \in NodeOccs, Seen(o)', KeyOf(o) = KeyOf(slots[i].np),
                   NodeOf(o).label # NULL
            PROVE  NodeOf(o).label = slots'[i].label
        <5>1. CASE Seen(o)
          BY <2>3, <3>0, <3>1, <4>2, <4>4, <5>1 DEF LabelledAs
        <5>2. CASE o = np
          BY <1>3, <4>2, <4>4, <5>2 DEF np
        <5> QED  BY <1>2, <4>4, <5>1, <5>2
      <4>5. ASSUME slots'[i].label # NULL
            PROVE  \E o \in NodeOccs :
                     Seen(o)' /\ KeyOf(o) = KeyOf(slots[i].np) /\ NodeOf(o).label = slots'[i].label
        <5>1. CASE node.label = NULL
          BY <1>2, <3>0, <4>2, <4>5, <5>1 DEF LabelledAs
        <5>2. CASE node.label # NULL
          BY <1>2, <1>3, <4>1, <4>2, <4>3, <5>2 DEF np
        <5> QED  BY <5>1, <5>2
      <4> QED  BY <1>1, <3>0, <4>4, <4>5 DEF LabelledAs
    <3>2. CASE i # c
      <4>1. slots'[i].label = slots[i].label /\ KeyOf(slots[i].np) # KeyOf(np)
        BY <1>5, <1>6, <2>2, <3>0, <3>2
      <4> QED  BY <1>1, <1>2, <3>0, <4>1 DEF LabelledAs
    <3> QED  BY <3>1, <3>2
  <2> QED  BY <2>4
<1> QED  BY <1>7, <1>8

\* A step that changes no label and reads none.
LEMMA LabelsKept ==
  ASSUME LabelsInv, query' = query, SeenSame, pc # "failed",
         DOMAIN slots' = DOMAIN slots,
         \A i \in DOMAIN slots :
           /\ slots'[i].np = slots[i].np /\ slots'[i].label = slots[i].label
           /\ slots'[i].name = slots[i].name
           /\ (Unread(i)' <=> Unread(i))
  PROVE  LabelsInv'
<1>1. Engine' = Engine
  BY QueryStays
<1>2. SUFFICES ASSUME Engine = "directed", NEW i \in DOMAIN slots
               PROVE  /\ Unread(i)' => LabelledAs(i, slots[i].label)'
                      /\ ~Unread(i)' => \E L \in OrNull(Labels) :
                                          LabelledAs(i, L)' /\ ResolvedAs(slots[i], L)'
  BY <1>1 DEF LabelsInv
<1>3. ASSUME NEW L
      PROVE  LabelledAs(i, L)' <=> LabelledAs(i, L)
  BY LabelledKept
<1>4. PICK L0 : L0 = slots[i].label
  OBVIOUS
<1>5. LabelledAs(i, slots[i].label)' <=> LabelledAs(i, L0)'
  BY <1>4 DEF LabelledAs
<1>6. ASSUME NEW L
      PROVE  ResolvedAs(slots[i], L)' <=> ResolvedAs(slots[i], L)
  <2>1. slots'[i].label = slots[i].label /\ slots'[i].name = slots[i].name
    OBVIOUS
  <2> QED  BY <2>1 DEF ResolvedAs
<1> QED  BY <1>2, <1>3, <1>4, <1>5, <1>6 DEF LabelsInv

\* A step of transform_general keeps what the labels are of.
LEMMA LabelsStep ==
  ASSUME TInv, Found, LabelsInv, Engine = "directed", GeneralNext
  PROVE  LabelsInv'
<1>1. /\ IInv /\ TypeOK /\ query' = query /\ Engine' = Engine /\ slots \in Seq(SlotRecords)
      /\ DOMAIN slots = 1 .. Len(slots) /\ Len(slots) \in Nat /\ k \in Nat /\ pi \in Nat
      /\ query \in QueryType /\ SlotsFound /\ KeysFound /\ UniqueIn(slots)
  BY GeneralKeepsQuery, QueryStays, LenProperties DEF TInv, TypeOK, Found, IInv
<1>2. CASE pc' = "failed"
  BY <1>2 DEF LabelsInv
<1>3. CASE CollectStart \/ CollectSegment
  <2> DEFINE node == NodeAt(pi, k)
             np == <<pi, k>>
             ss == SlotFor(node, np)
  <2>1. /\ pc = "collect" /\ pc' = pc /\ pi <= Len(query.paths) /\ NextSegment
        /\ ~Conflict(node, np)
    <3>1. CASE CollectStart
      <4>1. k = 0
        BY <3>1 DEF CollectStart, AtSegment
      <4> QED  BY <3>1, <4>1 DEF CollectStart, AtSegment
    <3>2. CASE CollectSegment
      BY <3>2 DEF CollectSegment, AtSegment
    <3> QED  BY <1>3, <3>1, <3>2
  <2>2. node \in NodePats /\ np \in Nat \X Nat
    <3>1. k <= Len(query.paths[pi].segs)
      BY <1>1, <2>1 DEF IInv, Position
    <3>2. /\ query.paths[pi].start \in NodePats
          /\ k # 0 => query.paths[pi].segs[k].node \in NodePats
      BY <1>1, <2>1, <3>1, PathsTyped DEF TypeOK
    <3> QED  BY <1>1, <3>2 DEF NodeAt
  <2>3. GrownTo(ss) /\ SlotIndex(node, np) \in DOMAIN ss
    BY <1>1, <2>2, SlotForIs
  <2>4. /\ DOMAIN slots' = DOMAIN ss
        /\ \A i \in DOMAIN slots' : slots'[i].np = ss[i].np /\ slots'[i].label = ss[i].label
    <3>1. CASE CollectStart
      <4>1. k = 0 /\ slots' = SlotFor(NodeAt(pi, 0), <<pi, 0>>)
        BY <3>1 DEF CollectStart, AtSegment
      <4>2. slots' = ss
        BY <4>1
      <4> QED  BY <4>2
    <3>2. CASE CollectSegment
      <4> DEFINE rel == query.paths[pi].segs[k].rel
                 cur == SlotIndex(node, np)
                 src == IF rel.dir = "left" THEN cur ELSE prev
                 tgt == IF rel.dir = "left" THEN prev ELSE cur
                 e == Len(edges) + 1
                 tt == Anchor(ss, src, e, FALSE)
      <4>1. slots' = Anchor(tt, tgt, e, TRUE) /\ k > 0
        BY <3>2 DEF CollectSegment
      <4>2. prev \in DOMAIN slots /\ e \in Nat \ {0}
        <5>1. prev \in DOMAIN slots
          BY <1>1, <2>1, <4>1 DEF IInv, Position
        <5> QED  BY <1>1, <5>1, LenProperties DEF TypeOK
      <4>3. src \in DOMAIN ss /\ tgt \in DOMAIN ss /\ ss \in Seq(SlotRecords)
        <5> HIDE DEF ss, node, np
        <5> QED  BY <2>3, <4>2 DEF GrownTo, ss, node, np
      <4> HIDE DEF ss, src, tgt, e
      <4>t. TRUE \in BOOLEAN /\ FALSE \in BOOLEAN
        OBVIOUS
      <4>a. AnchorEffect(ss, tt, src, e, FALSE)
        BY <4>2, <4>3, <4>t, AnchorIs
      <4>5. /\ tt \in Seq(SlotRecords) /\ DOMAIN tt = DOMAIN ss
            /\ \A i \in DOMAIN ss : tt[i].np = ss[i].np /\ tt[i].label = ss[i].label
        BY <4>a DEF AnchorEffect
      <4> HIDE DEF tt
      <4>c. AnchorEffect(tt, slots', tgt, e, TRUE)
        BY <4>1, <4>2, <4>3, <4>5, <4>t, AnchorIs
      <4> QED  BY <4>5, <4>c DEF AnchorEffect
    <3> QED  BY <1>3, <3>1, <3>2
  <2>5. \A i \in DOMAIN slots : LabelledAs(i, slots[i].label)
    BY <1>1, <2>1 DEF LabelsInv, Unread
  <2> HIDE DEF node, ss, np
  <2>6. \A i \in DOMAIN slots' : LabelledAs(i, slots[i].label)'
    BY <1>1, <2>1, <2>2, <2>4, <2>5, LabelsGrow DEF node, ss, np
  <2>7. \A i : Unread(i)'
    BY <2>1 DEF Unread
  <2> QED  BY <1>1, <2>6, <2>7 DEF LabelsInv
<1>4. CASE ResolveSlot
  <2> DEFINE r == Resolution(NameMap, slots[k].label)
  <2>1. /\ pc = "resolve" /\ pc' = pc /\ k' = k + 1 /\ k <= Len(slots) /\ r.ok
        /\ slots' = [slots EXCEPT ![k].label = r.table, ![k].name = r.name]
    BY <1>4 DEF ResolveSlot, AtStep, PhaseLength
  <2>2. k \in DOMAIN slots /\ slots[k] \in SlotRecords
    BY <1>1, <2>1 DEF TypeOK
  <2>3. /\ DOMAIN slots' = DOMAIN slots
        /\ \A i \in DOMAIN slots : slots'[i].np = slots[i].np
        /\ \A i \in DOMAIN slots : i # k => slots'[i] = slots[i]
        /\ slots'[k].label = r.table /\ slots'[k].name = r.name
    <3>1. DOMAIN slots' = DOMAIN slots /\ \A i \in DOMAIN slots : i # k => slots'[i] = slots[i]
      BY <2>1
    <3>2. slots'[k] = [slots[k] EXCEPT !.label = r.table, !.name = r.name]
      <4> HIDE DEF r
      <4> QED  BY <2>1, <2>2
    <3>3. slots'[k].label = r.table /\ slots'[k].name = r.name /\ slots'[k].np = slots[k].np
      <4> HIDE DEF r
      <4> QED  BY <2>2, <3>2 DEF SlotRecords
    <3> HIDE DEF r
    <3> QED  BY <3>1, <3>3
  <2>4. SeenSame
    BY <1>1, <2>1, SeenSameWhen
  <2>5. ASSUME NEW i \in DOMAIN slots, NEW L
        PROVE  LabelledAs(i, L)' <=> LabelledAs(i, L)
    BY <1>1, <2>3, <2>4, LabelledKept
  <2> HIDE DEF r
  <2>6. ASSUME NEW i \in DOMAIN slots
        PROVE  /\ Unread(i)' => LabelledAs(i, slots[i].label)'
               /\ ~Unread(i)' => \E L \in OrNull(Labels) :
                                   LabelledAs(i, L)' /\ ResolvedAs(slots[i], L)'
    <3>0. PICK L0 : L0 = slots[i].label
      OBVIOUS
    <3>1. CASE i = k
      <4>1. ~Unread(i)'
        BY <1>1, <2>1, <3>1 DEF Unread
      <4>2. LabelledAs(i, L0) /\ L0 \in OrNull(Labels)
        <5>1. Unread(i)
          BY <1>1, <2>1, <3>1 DEF Unread
        <5>2. LabelledAs(i, slots[i].label)
          BY <2>1, <5>1 DEF LabelsInv
        <5> QED  BY <2>2, <3>0, <3>1, <5>2 DEF SlotRecords
      <4>3. ResolvedAs(slots[i], L0)'
        BY <2>1, <2>3, <3>0, <3>1 DEF ResolvedAs, r
      <4> QED  BY <2>5, <4>1, <4>2, <4>3
    <3>2. CASE i # k
      <4>1. slots'[i] = slots[i] /\ (Unread(i)' <=> Unread(i))
        BY <1>1, <2>1, <2>3, <3>2 DEF Unread
      <4>0. slots'[i].label = slots[i].label /\ slots'[i].name = slots[i].name
        BY <4>1
      <4>2. LabelledAs(i, slots[i].label)' <=> LabelledAs(i, L0)'
        BY <3>0, <4>0 DEF LabelledAs
      <4>3. ASSUME NEW L
            PROVE  ResolvedAs(slots[i], L)' <=> ResolvedAs(slots[i], L)
        BY <4>0 DEF ResolvedAs
      <4> QED  BY <2>1, <2>5, <3>0, <4>1, <4>2, <4>3 DEF LabelsInv
    <3> QED  BY <3>1, <3>2
  <2> QED  BY <1>1, <2>3, <2>6 DEF LabelsInv
<1>5. CASE NextPhase
  <2>1. /\ slots' = slots /\ k' = 1 /\ pi' = pi /\ PhaseLength < (IF pc = "collect" THEN pi ELSE k)
    BY <1>5 DEF NextPhase
  <2>2. PICK j \in 1 .. 13 : pc = Phases[j] /\ pc' = Phases[j + 1]
    BY <1>5, PhasesAre DEF NextPhase
  <2>3. \/ pc = "collect" /\ pc' = "resolve"
        \/ pc = "resolve" /\ pc' = "mark"
        \/ pc \notin {"dispatch", "collect", "resolve", "failed"} /\ pc' \notin {"dispatch", "collect", "resolve"}
    BY <2>2 DEF Phases
  <2>4. SeenSame
    <3>1. pc = "collect" => Len(query.paths) < pi
      BY <2>1 DEF PhaseLength
    <3> QED  BY <1>1, <2>3, <3>1, SeenSameWhen
  <2>5. \A i \in DOMAIN slots : Unread(i)' <=> Unread(i)
    <3>1. CASE pc = "collect" /\ pc' = "resolve"
      BY <1>1, <2>1, <3>1 DEF Unread
    <3>2. CASE pc = "resolve" /\ pc' = "mark"
      <4>1. Len(slots) < k
        BY <2>1, <3>2 DEF PhaseLength
      <4> QED  BY <1>1, <3>2, <4>1 DEF Unread
    <3>3. CASE pc \notin {"dispatch", "collect", "resolve", "failed"} /\ pc' \notin {"dispatch", "collect", "resolve"}
      BY <3>3 DEF Unread
    <3> QED  BY <2>3, <3>1, <3>2, <3>3
  <2> QED  BY <1>1, <2>1, <2>3, <2>4, <2>5, LabelsKept
<1>6. ASSUME pc \notin {"dispatch", "collect", "resolve", "failed"}, pc' = pc,
             DOMAIN slots' = DOMAIN slots,
             \A i \in DOMAIN slots :
               /\ slots'[i].np = slots[i].np /\ slots'[i].label = slots[i].label
               /\ slots'[i].name = slots[i].name
      PROVE  LabelsInv'
  <2>1. SeenSame
    BY <1>1, <1>6, SeenSameWhen
  <2>2. \A i : Unread(i)' <=> Unread(i)
    BY <1>6 DEF Unread
  <2> QED  BY <1>1, <1>6, <2>1, <2>2, LabelsKept
<1>7. CASE MarkSlot
  <2>1. /\ pc = "mark" /\ pc' = pc
        /\ slots' = [slots EXCEPT ![k].lone = (slots[k].anchor = 0)]
    BY <1>7 DEF MarkSlot, AtStep
  <2>2. ASSUME NEW i \in DOMAIN slots
        PROVE  /\ slots'[i].np = slots[i].np /\ slots'[i].label = slots[i].label
               /\ slots'[i].name = slots[i].name
    <3>1. slots[i] \in SlotRecords
      BY <1>1, <2>2
    <3>2. slots'[i] = slots[i] \/ slots'[i] = [slots[i] EXCEPT !.lone = (slots[k].anchor = 0)]
      BY <2>1
    <3> QED  BY <3>1, <3>2 DEF SlotRecords
  <2>3. DOMAIN slots' = DOMAIN slots
    BY <2>1
  <2> QED  BY <1>6, <2>1, <2>2, <2>3
<1>8. CASE \/ Bind \/ OrderByAlias \/ SkipGroup \/ FromEdge \/ FromLone \/ SkipLone
           \/ FromNode \/ SkipJoin \/ EmitPreds \/ EmitPage
  <2>1. slots' = slots /\ pc' = pc /\ pc \notin {"dispatch", "collect", "resolve", "failed"}
    BY <1>8 DEF Bind, OrderByAlias, SkipGroup, FromEdge, FromLone, SkipLone, FromNode,
                SkipJoin, EmitPreds, EmitPage, AddFrom, Skip, AtStep
  <2> QED  BY <1>6, <2>1
<1>9. CASE EmitSelect \/ EmitWhere \/ EmitOrder \/ EmitGroup
  <2>1. PICK x : slots' = Marked(x)
    BY <1>9 DEF EmitSelect, EmitWhere, EmitOrder, EmitGroup, Emit
  <2>2. pc' = pc /\ pc \notin {"dispatch", "collect", "resolve", "failed"}
    BY <1>9 DEF EmitSelect, EmitWhere, EmitOrder, EmitGroup, Emit, AtStep
  <2>3. DOMAIN slots' = DOMAIN slots
    BY <2>1 DEF Marked
  <2>4. \A i \in DOMAIN slots : MarksOnly(slots[i], slots'[i])
    BY <1>1, <2>1, MarkedSlot
  <2> QED  BY <1>6, <2>2, <2>3, <2>4 DEF MarksOnly
<1>10. CASE \/ CollectFail \/ ResolveFail \/ MarkFail \/ SelectFail \/ WhereFail
           \/ OrderFail \/ PredsFail
  BY <1>2, <1>10 DEF CollectFail, ResolveFail, MarkFail, SelectFail, WhereFail,
                    OrderFail, PredsFail, Reject
<1> QED
  BY <1>3, <1>4, <1>5, <1>7, <1>8, <1>9, <1>10 DEF GeneralNext

\* A slot that has been marked can be: it has a known table if it has a label,
\* and a label if no relationship touches it.
MarkedInv ==
  Engine = "directed" =>
    \A i \in DOMAIN slots :
      \/ pc \in {"dispatch", "collect", "resolve", "failed"}
      \/ pc = "mark" /\ k <= i
      \/ Markable(slots[i])

\* A step that changes no label and no anchor of a marked slot.
LEMMA MarkedKept ==
  ASSUME MarkedInv, Engine' = Engine, pc \notin {"dispatch", "collect", "resolve", "failed", "mark"},
         pc' \notin {"dispatch", "collect", "resolve", "failed", "mark"},
         DOMAIN slots' = DOMAIN slots,
         \A i \in DOMAIN slots :
           slots'[i].label = slots[i].label /\ slots'[i].anchor = slots[i].anchor
  PROVE  MarkedInv'
<1> SUFFICES ASSUME Engine = "directed", NEW i \in DOMAIN slots PROVE Markable(slots[i])'
  BY DEF MarkedInv
<1>1. Markable(slots[i]) BY DEF MarkedInv
<1>2. slots'[i].label = slots[i].label /\ slots'[i].anchor = slots[i].anchor OBVIOUS
<1> QED BY <1>1, <1>2 DEF Markable

\* A step of transform_general keeps the marked slots as they must be.
LEMMA MarkedStep ==
  ASSUME TypeOK, MarkedInv, Engine = "directed", GeneralNext
  PROVE  MarkedInv'
<1> DEFINE Unready == {"dispatch", "collect", "resolve", "failed"}
<1>1. Engine' = Engine
  BY GeneralKeepsQuery, QueryStays
<1>2. DOMAIN slots = 1 .. Len(slots) /\ Len(slots) \in Nat /\ k \in Nat
  BY LenProperties DEF TypeOK
<1>3. CASE pc' \in Unready
  BY <1>3 DEF MarkedInv
<1>5. CASE CollectStart \/ CollectSegment \/ ResolveSlot
  BY <1>3, <1>5 DEF CollectStart, CollectSegment, ResolveSlot, AtSegment, AtStep
<1>6. CASE \/ CollectFail \/ ResolveFail \/ MarkFail \/ SelectFail \/ WhereFail
           \/ OrderFail \/ PredsFail
  BY <1>3, <1>6 DEF CollectFail, ResolveFail, MarkFail, SelectFail, WhereFail,
                    OrderFail, PredsFail, Reject
<1>7. CASE NextPhase
  <2>1. slots' = slots /\ k' = 1
    BY <1>7 DEF NextPhase
  <2>2. PICK j \in 1 .. 13 : pc = Phases[j] /\ pc' = Phases[j + 1]
    BY <1>7, PhasesAre DEF NextPhase
  <2>3. \/ pc' \in Unready
        \/ pc' = "mark"
        \/ pc = "mark" /\ pc' \notin Unready
        \/ pc \notin Unready \cup {"mark"} /\ pc' \notin Unready \cup {"mark"}
    BY <2>2 DEF Phases
  <2>m. \A i \in DOMAIN slots : Markable(slots[i])' <=> Markable(slots[i])
    BY <2>1 DEF Markable
  <2>4. CASE pc' = "mark"
    BY <1>2, <2>1, <2>4 DEF MarkedInv
  <2>5. CASE pc = "mark" /\ pc' \notin Unready
    <3>1. Len(slots) < k
      BY <1>7, <2>5 DEF NextPhase, PhaseLength
    <3>2. \A i \in DOMAIN slots : Markable(slots[i])
      BY <1>2, <2>5, <3>1 DEF MarkedInv
    <3> QED  BY <2>1, <2>m, <3>2 DEF MarkedInv
  <2>6. CASE pc \notin Unready \cup {"mark"} /\ pc' \notin Unready \cup {"mark"}
    BY <1>1, <2>1, <2>6, MarkedKept
  <2> QED  BY <1>3, <2>3, <2>4, <2>5, <2>6
<1>8. CASE MarkSlot
  <2>1. /\ pc = "mark" /\ pc' = pc /\ k' = k + 1 /\ Markable(slots[k])
        /\ slots' = [slots EXCEPT ![k].lone = (slots[k].anchor = 0)]
    BY <1>8 DEF MarkSlot, AtStep
  <2>2. ASSUME NEW i \in DOMAIN slots', ~(k' <= i)
        PROVE  Markable(slots[i])'
    <3>1. i \in DOMAIN slots /\ slots[i] \in SlotRecords
      BY <2>1 DEF TypeOK
    <3>2. Markable(slots[i])
      <4>1. CASE i = k  BY <2>1, <4>1
      <4>2. CASE i # k
        <5>1. ~(k <= i)  BY <1>2, <2>1, <2>2, <3>1, <4>2
        <5> QED  BY <2>1, <3>1, <5>1 DEF MarkedInv
      <4> QED  BY <4>1, <4>2
    <3>3. slots'[i] = slots[i] \/ slots'[i] = [slots[i] EXCEPT !.lone = (slots[k].anchor = 0)]
      BY <2>1, <3>1
    <3>4. slots'[i].label = slots[i].label /\ slots'[i].anchor = slots[i].anchor
      BY <3>1, <3>3 DEF SlotRecords
    <3> QED  BY <3>2, <3>4 DEF Markable
  <2> QED  BY <2>1, <2>2 DEF MarkedInv
<1>9. CASE \/ Bind \/ OrderByAlias \/ SkipGroup \/ FromEdge \/ FromLone \/ SkipLone
           \/ FromNode \/ SkipJoin \/ EmitPreds \/ EmitPage
  <2>1. slots' = slots /\ pc' = pc /\ pc \notin Unready /\ pc # "mark"
    BY <1>9 DEF Bind, OrderByAlias, SkipGroup, FromEdge, FromLone, SkipLone, FromNode,
                SkipJoin, EmitPreds, EmitPage, AddFrom, Skip, AtStep
  <2> QED  BY <1>1, <2>1, MarkedKept
<1>10. CASE EmitSelect \/ EmitWhere \/ EmitOrder \/ EmitGroup
  <2>1. /\ \E x : slots' = Marked(x)
        /\ pc' = pc /\ pc \notin Unready /\ pc # "mark"
    BY <1>10 DEF EmitSelect, EmitWhere, EmitOrder, EmitGroup, Emit, AtStep
  <2>2. PICK x : slots' = Marked(x)
    BY <2>1
  <2>3. /\ DOMAIN slots' = DOMAIN slots
        /\ \A i \in DOMAIN slots : MarksOnly(slots[i], slots'[i])
    <3>1. DOMAIN slots' = DOMAIN slots  BY <2>2 DEF Marked
    <3> QED  BY <2>2, <3>1, MarkedSlot
  <2> QED  BY <1>1, <2>1, <2>3, MarkedKept DEF MarksOnly
<1> QED
  BY <1>5, <1>6, <1>7, <1>8, <1>9, <1>10 DEF GeneralNext

\* What holds of the slots of transform_general in every state.
NodesInv == LabelsInv /\ MarkedInv

\* NodesInv holds when a query comes in, and every step keeps it.
LEMMA NodesInit == Init => NodesInv
<1> SUFFICES ASSUME Init PROVE NodesInv  OBVIOUS
<1>1. DOMAIN slots = {}  BY DEF Init
<1> QED  BY <1>1 DEF NodesInv, LabelsInv, MarkedInv

\* Every step keeps NodesInv.
LEMMA NodesStep ==
  ASSUME TInv, Found, NodesInv, [Next]_vars
  PROVE  NodesInv'
<1>1. TypeOK /\ LabelsInv /\ MarkedInv /\ query \in QueryType
  BY DEF TInv, TypeOK, NodesInv
<1>2. CASE UNCHANGED vars
  <2>1. query' = query /\ pc' = pc /\ pi' = pi /\ k' = k /\ slots' = slots
    BY <1>2 DEF vars
  <2>2. Engine' = Engine  BY <2>1, QueryStays
  <2>3. MarkedInv'  BY <1>1, <2>1, <2>2 DEF MarkedInv, Markable
  <2>4. SeenSame  BY <2>1 DEF SeenSame, Seen
  <2>5. \A i : Unread(i)' <=> Unread(i)  BY <2>1 DEF Unread
  <2>6. pc = "failed" => LabelsInv'  BY <2>1 DEF LabelsInv
  <2>7. pc # "failed" => LabelsInv'  BY <1>1, <2>1, <2>4, <2>5, LabelsKept
  <2> QED  BY <2>3, <2>6, <2>7 DEF NodesInv
<1>3. CASE Refuse
  <2>1. pc' = "failed"  BY <1>3 DEF Refuse, Reject
  <2> QED  BY <2>1 DEF NodesInv, LabelsInv, MarkedInv
<1>4. CASE Dispatch
  <2>1. /\ query' = query /\ pc = "dispatch" /\ pc' = "collect" /\ pi' = pi /\ k' = k /\ slots' = slots
    BY <1>4 DEF Dispatch
  <2>2. MarkedInv'  BY <2>1 DEF MarkedInv
  <2>3. SeenSame  BY <2>1 DEF SeenSame, Seen
  <2>4. \A i : Unread(i)' <=> Unread(i)  BY <2>1 DEF Unread
  <2>5. LabelsInv'  BY <1>1, <2>1, <2>3, <2>4, LabelsKept
  <2> QED  BY <2>2, <2>5 DEF NodesInv
<1>5. CASE Engine = "directed" /\ GeneralNext
  BY <1>1, <1>5, LabelsStep, MarkedStep DEF NodesInv
<1>6. CASE Engine # "directed" /\ (UndirectedNext \/ VarlenNext)
  <2>1. query' = query
    <3>1. pc = "collect" => Sole
      BY <1>6 DEF TInv, HopInv
    <3>2. HopStep
      BY <1>1, <1>6, <3>1, UndirectedStep, VarlenStep
    <3> QED  BY <3>2 DEF HopStep, Quiet
  <2>2. Engine' # "directed"
    BY <1>6, <2>1, QueryStays
  <2> QED  BY <2>2 DEF NodesInv, LabelsInv, MarkedInv
<1> QED  BY <1>2, <1>3, <1>4, <1>5, <1>6 DEF Next

-----------------------------------------------------------------------------
(* What the slots and the edges of a directed pattern mean *)

\* Edge e stands for occurrence o, from one slot to another.
JoinsSlots(e, o) ==
  /\ o \in RelOccs /\ edges[e].type = RelOf(o).type /\ edges[e].props = RelOf(o).props
  /\ edges[e].src \in DOMAIN slots /\ KeyOf(slots[edges[e].src].np) = SrcKey(o)
  /\ edges[e].tgt \in DOMAIN slots /\ KeyOf(slots[edges[e].tgt].np) = TgtKey(o)
  /\ edges[e].src # edges[e].tgt

\* What is known of the records when a directed pattern is translated.
LEMMA DirectedHas ==
  ASSUME DInv, pc = "done", Engine = "directed", ~HasSelfLoop, NEW occ, OccsOf(occ)
  PROVE  /\ TypeOK /\ IInv /\ Anchored /\ UniqueIn(slots) /\ SlotsFound /\ KeysFound
         /\ query \in QueryType /\ \A o \in NodeOccs : Seen(o)
         /\ \A e \in DOMAIN edges : JoinsSlots(e, occ[e])
         /\ \A i \in DOMAIN slots : slots[i].lone = (slots[i].anchor = 0)
<1>1. /\ TypeOK /\ IInv /\ UniqueIn(slots) /\ SlotsFound /\ KeysFound /\ LoneInv
      /\ query \in QueryType
  BY DEF DInv, LInv, TInv, IInv, TypeOK, Found
<1>2. Anchored
  BY <1>1, IInvImplies
<1>3. \A o \in NodeOccs : Seen(o)
  BY DEF Seen
<1>4. ASSUME NEW e \in DOMAIN edges PROVE JoinsSlots(e, occ[e])
  <2>1. occ[e] \in RelOccs /\ EdgeOf(e, occ[e])
    BY DEF OccsOf
  <2>2. SrcKey(occ[e]) # TgtKey(occ[e])
    BY <2>1 DEF HasSelfLoop
  <2> QED  BY <2>1, <2>2 DEF EdgeOf, JoinsSlots
<1>5. \A i \in DOMAIN slots : slots[i].lone = (slots[i].anchor = 0)
  BY <1>1 DEF LoneInv
<1> QED  BY <1>1, <1>2, <1>3, <1>4, <1>5

\* A slot touches no edge if and only if no relationship touches its node.
LEMMA LoneMeans ==
  ASSUME DInv, pc = "done", Engine = "directed", ~HasSelfLoop, NEW occ, OccsOf(occ),
         NEW i \in DOMAIN slots
  PROVE  slots[i].lone <=> KeyOf(slots[i].np) \in LoneKeys
<1> DEFINE key == KeyOf(slots[i].np)
<1>1. /\ IInv /\ UniqueIn(slots) /\ SlotsFound
      /\ \A e \in DOMAIN edges : JoinsSlots(e, occ[e])
      /\ slots[i].lone = (slots[i].anchor = 0)
  BY DirectedHas
<1>2. key \in Keys
  BY <1>1 DEF SlotsFound, Keys
<1>3. ASSUME slots[i].lone, NEW o \in RelOccs PROVE key # SrcKey(o) /\ key # TgtKey(o)
  <2>1. slots[i].anchor = 0
    BY <1>1, <1>3
  <2>2. PICK e \in DOMAIN edges : occ[e] = o
    BY <1>3 DEF OccsOf
  <2>3. JoinsSlots(e, o)
    BY <1>1, <2>2
  <2>4. edges[e].src # i /\ edges[e].tgt # i
    <3>1. SidesIn(slots, edges)
      BY <1>1 DEF IInv
    <3>2. slots[edges[e].src].anchor \in 1 .. e /\ slots[edges[e].tgt].anchor \in 1 .. e
      BY <3>1 DEF SidesIn
    <3> QED  BY <2>1, <3>2
  <2>5. KeyOf(slots[edges[e].src].np) # key /\ KeyOf(slots[edges[e].tgt].np) # key
    BY <1>1, <2>3, <2>4, KeysApart DEF JoinsSlots
  <2> QED  BY <2>3, <2>5 DEF JoinsSlots
<1>4. ASSUME ~slots[i].lone PROVE \E o \in RelOccs : key = SrcKey(o) \/ key = TgtKey(o)
  <2>1. PICK a : a = slots[i].anchor /\ a \in DOMAIN edges
                 /\ (edges[a].tgt = i \/ edges[a].src = i)
    BY <1>1, <1>4 DEF IInv, AnchorsIn
  <2>2. JoinsSlots(a, occ[a])
    BY <1>1, <2>1
  <2> QED  BY <2>1, <2>2 DEF JoinsSlots
<1> HIDE DEF key
<1>5. key \in LoneKeys <=> ~ \E o \in RelOccs : key = SrcKey(o) \/ key = TgtKey(o)
  BY <1>2 DEF LoneKeys
<1>6. key \in LoneKeys <=> slots[i].lone
  <2>1. slots[i].lone \in BOOLEAN
    BY <1>1
  <2> QED  BY <1>3, <1>4, <1>5, <2>1
<1> QED  BY <1>6 DEF key

\* The slots of a directed pattern mean what the labels of their nodes mean.
LEMMA DirectedMeans ==
  ASSUME DInv, NodesInv, pc = "done", Engine = "directed", ~HasSelfLoop
  PROVE  SlotsMean
<1>1. PICK occ : OccsOf(occ)
  BY AllFound DEF OccsOf
<1>2. /\ \A o \in NodeOccs : Seen(o)
      /\ \A i \in DOMAIN slots : slots[i].lone = (slots[i].anchor = 0)
      /\ SlotsFound
  BY <1>1, DirectedHas
<1>3. ASSUME NEW i \in DOMAIN slots
      PROVE  SlotMeans(i) /\ (slots[i].anchor = 0 => slots[i].label # NULL)
  <2>1. Markable(slots[i])
    BY <1>3 DEF NodesInv, MarkedInv
  <2>2. PICK L \in OrNull(Labels) : LabelledAs(i, L) /\ ResolvedAs(slots[i], L)
    BY <1>3 DEF NodesInv, LabelsInv, Unread
  <2>3. PICK r : r = Resolution(NameMap, L)
    OBVIOUS
  <2>4. r.ok /\ slots[i].label = r.table /\ slots[i].name = r.name
    BY <2>2, <2>3 DEF ResolvedAs
  <2>5. PICK key : key = KeyOf(slots[i].np)
    OBVIOUS
  <2>6. \A o \in NodeOccs : KeyOf(o) = key /\ NodeOf(o).label # NULL => NodeOf(o).label = L
    BY <1>2, <2>2, <2>5 DEF LabelledAs
  <2>7. L # NULL => \E o \in NodeOccs : KeyOf(o) = key /\ NodeOf(o).label = L
    BY <2>2, <2>5 DEF LabelledAs
  <2>8. CASE L = NULL
    <3>1. Meanings(key) = {}
      BY <2>6, <2>8 DEF Meanings
    <3>2. r.table = NULL /\ r.name = NULL
      BY <2>3, <2>8 DEF Resolution, Resolved
    <3> QED  BY <2>1, <2>4, <2>5, <3>1, <3>2 DEF SlotMeans, Markable
  <2>9. CASE L # NULL
    <3>1. \A o \in NodeOccs :
            KeyOf(o) = key /\ NodeOf(o).label # NULL => Resolution(NameMap, NodeOf(o).label) = r
      BY <2>3, <2>6
    <3>2. \E o \in NodeOccs : KeyOf(o) = key /\ NodeOf(o).label # NULL
      BY <2>7, <2>9
    <3>3. Meanings(key) = {r}
      BY <3>1, <3>2 DEF Meanings
    <3>4. L \in Labels /\ NULL \notin Labels
      BY <2>9, EmissionAssumption DEF OrNull
    <3>5. r.table \in Labels /\ r.name \in Labels
      BY <2>3, <2>4, <3>4, LabelMeans
    <3> QED  BY <2>1, <2>3, <2>4, <2>5, <3>3, <3>4, <3>5 DEF SlotMeans, Markable
  <2> QED  BY <2>8, <2>9
<1>4. \A i \in DOMAIN slots : slots[i].lone <=> KeyOf(slots[i].np) \in LoneKeys
  BY <1>1, LoneMeans
<1> QED  BY <1>2, <1>3, <1>4 DEF SlotsMean

-----------------------------------------------------------------------------
(* What the statement of a directed pattern says *)

\* The node an end of a relationship is, by the row of the relationship.
EndOf(x, s) == IF s THEN Target(x) ELSE Source(x)
SideAt(row, e, s) == EndOf(EdgeRow(row, e), s)

\* It is the two columns of that end.
LEMMA SideIs ==
  ASSUME NEW x, NEW s \in BOOLEAN
  PROVE  /\ EndOf(x, s) = [id |-> x[IdColumn(s)], name |-> x[NameColumn(s)]]
         /\ EndOf(x, s).id = x[IdColumn(s)] /\ EndOf(x, s).name = x[NameColumn(s)]
<1>1. CASE s = TRUE
  <2>1. IdColumn(s) = "target_id" /\ NameColumn(s) = "target_name"
    BY <1>1 DEF IdColumn, NameColumn
  <2>2. EndOf(x, s) = [id |-> x.target_id, name |-> x.target_name]
    BY <1>1 DEF EndOf, Target
  <2> QED  BY <2>1, <2>2
<1>2. CASE s = FALSE
  <2>1. IdColumn(s) = "source_id" /\ NameColumn(s) = "source_name"
    BY <1>2 DEF IdColumn, NameColumn
  <2>2. EndOf(x, s) = [id |-> x.source_id, name |-> x.source_name]
    BY <1>2 DEF EndOf, Source
  <2> QED  BY <2>1, <2>2
<1> QED  BY <1>1, <1>2

\* Two ends are one node if their ids and their names are.
LEMMA SidesEqual ==
  ASSUME NEW x, NEW s \in BOOLEAN, NEW y, NEW t \in BOOLEAN
  PROVE  EndOf(x, s) = EndOf(y, t) <=>
           (x[IdColumn(s)] = y[IdColumn(t)] /\ x[NameColumn(s)] = y[NameColumn(t)])
<1>1. PICK p, q : p = EndOf(x, s) /\ q = EndOf(y, t)
  OBVIOUS
<1>2. /\ p = [id |-> x[IdColumn(s)], name |-> x[NameColumn(s)]]
      /\ p.id = x[IdColumn(s)] /\ p.name = x[NameColumn(s)]
  BY <1>1, SideIs
<1>3. /\ q = [id |-> y[IdColumn(t)], name |-> y[NameColumn(t)]]
      /\ q.id = y[IdColumn(t)] /\ q.name = y[NameColumn(t)]
  BY <1>1, SideIs
<1> QED  BY <1>1, <1>2, <1>3

\* An end of a relationship is at the anchor of its slot.
MeetsAnchor(row, e, s) ==
  LET i == SlotOn(e, s) IN SideAt(row, e, s) = SideAt(row, slots[i].anchor, slots[i].onTarget)

\* The anchor of an end is an end of the same slot.
LEMMA AnchorOf ==
  ASSUME TypeOK, Anchored, NEW e \in DOMAIN edges, NEW s \in BOOLEAN
  PROVE  LET i == SlotOn(e, s) a == slots[i].anchor t == slots[i].onTarget IN
         /\ i \in DOMAIN slots /\ a \in DOMAIN edges /\ a \in 1 .. e /\ t \in BOOLEAN
         /\ SlotOn(a, t) = i
         /\ a = e /\ edges[e].src # edges[e].tgt => t = s
<1>1. PICK i : i = SlotOn(e, s)
  OBVIOUS
<1>2. i \in DOMAIN slots /\ slots[i].anchor \in 1 .. e
  BY <1>1 DEF Anchored
<1>3. e \in Nat
  BY DEF TypeOK
<1>4. slots[i].anchor # 0
  BY <1>2, <1>3
<1>5. slots[i].anchor \in DOMAIN edges /\ SlotOn(slots[i].anchor, slots[i].onTarget) = i
  BY <1>2, <1>4 DEF Anchored
<1>6. slots[i].onTarget \in BOOLEAN
  <2>1. slots[i] \in SlotRecords
    BY <1>2 DEF TypeOK
  <2> QED  BY <2>1 DEF SlotRecords
<1>7. slots[i].anchor = e /\ edges[e].src # edges[e].tgt => slots[i].onTarget = s
  BY <1>1, <1>5, <1>6 DEF SlotOn
<1> QED  BY <1>1, <1>2, <1>5, <1>6, <1>7

\* What the ON clause says of one end of a relationship.
LEMMA EndTied ==
  ASSUME NEW occ, Settled(occ), Engine = "directed", ~HasSelfLoop, NEW row,
         NEW e \in DOMAIN edges, NEW s \in BOOLEAN, SoundOn(Ties(e, SlotOn(e, s), s))
  PROVE  OnOK(row, Ties(e, SlotOn(e, s), s)) <=> MeetsAnchor(row, e, s)
<1>1. DInv /\ pc = "done" /\ OccsOf(occ)
  BY SettledIs
<1>2. TypeOK /\ Anchored /\ JoinsSlots(e, occ[e])
  BY <1>1, DirectedHas
<1>3. PICK i, a, t : i = SlotOn(e, s) /\ a = slots[i].anchor /\ t = slots[i].onTarget
  OBVIOUS
<1>4. t \in BOOLEAN /\ (a = e => t = s)
  BY <1>2, <1>3, AnchorOf DEF JoinsSlots
<1>5. MeetsAnchor(row, e, s) <=> EndOf(EdgeRow(row, e), s) = EndOf(EdgeRow(row, a), t)
  BY <1>3 DEF MeetsAnchor, SideAt
<1>6. CASE a = e
  <2>1. Ties(e, i, s) = <<>>
    BY <1>3, <1>6 DEF Ties
  <2>2. Range(<<>>) = {}
    BY DEF Range
  <2> QED  BY <1>3, <1>4, <1>5, <1>6, <2>1, <2>2 DEF OnOK
<1>7. CASE a # e
  <2> DEFINE P == <<EdgeRef(e, IdColumn(s)), EdgeRef(a, IdColumn(t))>>
             Q == <<EdgeRef(e, NameColumn(s)), EdgeRef(a, NameColumn(t))>>
  <2>1. Ties(e, i, s) = <<P, Q>>
    BY <1>3, <1>7 DEF Ties
  <2>2. Range(<<P, Q>>) = {P, Q}
    <3> HIDE DEF P, Q
    <3> QED  BY DEF Range
  <2>3. RefOK(P[1]) /\ RefOK(P[2]) /\ RefOK(Q[1]) /\ RefOK(Q[2])
    <3> HIDE DEF P, Q
    <3> QED  BY <1>3, <2>1, <2>2 DEF SoundOn
  <2>4. \A g, col : RefOK(EdgeRef(g, col)) =>
          Value(row, EdgeRef(g, col)) = EdgeRow(row, g)[col]
    <3> SUFFICES ASSUME NEW g, NEW col, RefOK(EdgeRef(g, col))
                 PROVE  Value(row, EdgeRef(g, col)) = EdgeRow(row, g)[col]
      OBVIOUS
    <3>1. PICK ref : ref = EdgeRef(g, col)
      OBVIOUS
    <3>2. ref.of = <<"edge", g>> /\ ref.col = col
      BY <3>1 DEF EdgeRef
    <3> QED  BY <3>1, <3>2, ReadsPart
  <2>5. OnOK(row, Ties(e, i, s)) <=>
          Value(row, P[1]) = Value(row, P[2]) /\ Value(row, Q[1]) = Value(row, Q[2])
    <3> HIDE DEF P, Q
    <3> QED  BY <2>1, <2>2 DEF OnOK
  <2>6. OnOK(row, Ties(e, i, s)) <=>
          /\ EdgeRow(row, e)[IdColumn(s)] = EdgeRow(row, a)[IdColumn(t)]
          /\ EdgeRow(row, e)[NameColumn(s)] = EdgeRow(row, a)[NameColumn(t)]
    BY <2>3, <2>4, <2>5
  <2>7. (EndOf(EdgeRow(row, e), s) = EndOf(EdgeRow(row, a), t)) <=>
          (/\ EdgeRow(row, e)[IdColumn(s)] = EdgeRow(row, a)[IdColumn(t)]
           /\ EdgeRow(row, e)[NameColumn(s)] = EdgeRow(row, a)[NameColumn(t)])
    BY <1>4, SidesEqual
  <2> HIDE DEF P, Q
  <2> QED  BY <1>3, <1>5, <2>6, <2>7
<1> QED  BY <1>6, <1>7

\* What the ON clause of a relationship says.
LEMMA EdgeTied ==
  ASSUME NEW occ, Settled(occ), Engine = "directed", ~HasSelfLoop, NEW row, NEW e \in DOMAIN edges
  PROVE  OnOK(row, EdgeOn(e)) <=> \A s \in BOOLEAN : MeetsAnchor(row, e, s)
<1>1. DInv /\ pc = "done" /\ OccsOf(occ) /\ SoundOn(EdgeOn(e))
  BY SettledIs, OnSound
<1>2. TypeOK /\ Anchored /\ JoinsSlots(e, occ[e])
  BY <1>1, DirectedHas
<1>3. EdgeOn(e) = EdgeTies(e) /\ SlotOn(e, FALSE) = edges[e].src /\ SlotOn(e, TRUE) = edges[e].tgt
  BY DEF EdgeOn, SlotOn
<1>4. CASE e = 1
  <2>1. EdgeTies(e) = <<>> /\ Range(<<>>) = {}
    BY <1>4 DEF EdgeTies, Range
  <2>2. ASSUME NEW s \in BOOLEAN PROVE MeetsAnchor(row, e, s)
    <3>1. PICK i, a, t : i = SlotOn(e, s) /\ a = slots[i].anchor /\ t = slots[i].onTarget
      OBVIOUS
    <3>2. a \in 1 .. e /\ (a = e /\ edges[e].src # edges[e].tgt => t = s)
      BY <1>2, <3>1, AnchorOf
    <3>3. a = e /\ t = s
      BY <1>2, <1>4, <3>2 DEF JoinsSlots
    <3> QED  BY <3>1, <3>3 DEF MeetsAnchor
  <2> QED  BY <1>3, <2>1, <2>2 DEF OnOK
<1>5. CASE e # 1
  <2>1. PICK X, Y : X = Ties(e, edges[e].src, FALSE) /\ Y = Ties(e, edges[e].tgt, TRUE)
    OBVIOUS
  <2>2. EdgeTies(e) = X \o Y
    BY <1>5, <2>1 DEF EdgeTies
  <2>3. \A i, t : \E S : Ties(e, i, t) \in Seq(S)
    <3> SUFFICES ASSUME NEW i, NEW t PROVE \E S : Ties(e, i, t) \in Seq(S)
      OBVIOUS
    <3>1. PICK p, q : Ties(e, i, t) = <<>> \/ Ties(e, i, t) = <<p, q>>
      BY DEF Ties
    <3>2. <<>> \in Seq({p, q}) /\ <<p, q>> \in Seq({p, q})
      OBVIOUS
    <3> QED  BY <3>1, <3>2
  <2>4. Range(X \o Y) = Range(X) \cup Range(Y)
    <3>1. PICK S : X \in Seq(S)
      BY <2>1, <2>3
    <3>2. PICK U : Y \in Seq(U)
      BY <2>1, <2>3
    <3> QED  BY <3>1, <3>2, ConcatIs
  <2>5. OnOK(row, EdgeTies(e)) <=> OnOK(row, X) /\ OnOK(row, Y)
    BY <2>2, <2>4 DEF OnOK
  <2>6. SoundOn(X) /\ SoundOn(Y)
    BY <1>1, <1>3, <2>2, <2>4 DEF SoundOn
  <2>7. OnOK(row, X) <=> MeetsAnchor(row, e, FALSE)
    <3>1. \A s \in BOOLEAN : SoundOn(Ties(e, SlotOn(e, s), s)) =>
            (OnOK(row, Ties(e, SlotOn(e, s), s)) <=> MeetsAnchor(row, e, s))
      BY EndTied
    <3> QED  BY <1>3, <2>1, <2>6, <3>1
  <2>8. OnOK(row, Y) <=> MeetsAnchor(row, e, TRUE)
    <3>1. \A s \in BOOLEAN : SoundOn(Ties(e, SlotOn(e, s), s)) =>
            (OnOK(row, Ties(e, SlotOn(e, s), s)) <=> MeetsAnchor(row, e, s))
      BY EndTied
    <3> QED  BY <1>3, <2>1, <2>6, <3>1
  <2>9. (\A s \in BOOLEAN : MeetsAnchor(row, e, s)) <=>
          MeetsAnchor(row, e, FALSE) /\ MeetsAnchor(row, e, TRUE)
    OBVIOUS
  <2> QED  BY <1>3, <2>5, <2>7, <2>8, <2>9
<1> QED  BY <1>4, <1>5

\* The relationships that meet at a slot meet at one node.
NodesMeet(row) ==
  \A e, g \in DOMAIN edges, s, t \in BOOLEAN :
    SlotOn(e, s) = SlotOn(g, t) => SideAt(row, e, s) = SideAt(row, g, t)

\* transform.c:21-24: that is what the ON clauses of the relationships say.
LEMMA TiesSay ==
  ASSUME NEW occ, Settled(occ), Engine = "directed", ~HasSelfLoop, NEW row
  PROVE  (\A e \in DOMAIN edges : OnOK(row, EdgeOn(e))) <=> NodesMeet(row)
<1>1. DInv /\ pc = "done" /\ OccsOf(occ)
  BY SettledIs
<1>2. TypeOK /\ Anchored
  BY <1>1, DirectedHas
<1>3. (\A e \in DOMAIN edges : OnOK(row, EdgeOn(e))) <=>
        \A e \in DOMAIN edges, s \in BOOLEAN : MeetsAnchor(row, e, s)
  BY EdgeTied
<1>4. ASSUME \A e \in DOMAIN edges, s \in BOOLEAN : MeetsAnchor(row, e, s)
      PROVE  NodesMeet(row)
  BY <1>4 DEF NodesMeet, MeetsAnchor
<1>5. ASSUME NodesMeet(row), NEW e \in DOMAIN edges, NEW s \in BOOLEAN
      PROVE  MeetsAnchor(row, e, s)
  <2>1. PICK i, a, t : i = SlotOn(e, s) /\ a = slots[i].anchor /\ t = slots[i].onTarget
    OBVIOUS
  <2>2. a \in DOMAIN edges /\ t \in BOOLEAN /\ SlotOn(a, t) = i
    BY <1>2, <2>1, AnchorOf
  <2>3. SideAt(row, e, s) = SideAt(row, a, t)
    BY <1>5, <2>1, <2>2 DEF NodesMeet
  <2> QED  BY <2>1, <2>3 DEF MeetsAnchor
<1> QED  BY <1>3, <1>4, <1>5

\* The predicates of a relationship ask its type, its properties and the names
\* of its ends.
LimitsAt(row, e) ==
  /\ edges[e].type # NULL => EdgeRow(row, e).edge_type = edges[e].type
  /\ \A p \in Range(edges[e].props) : EdgeRow(row, e)[p.key] = p.val
  /\ \A s \in BOOLEAN :
       slots[SlotOn(e, s)].name # NULL => SideAt(row, e, s).name = slots[SlotOn(e, s)].name

\* The predicates of the inline properties are a sequence.
LEMMA PropsSeq ==
  ASSUME TypeOK, NEW e \in DOMAIN edges
  PROVE  \E S : PropPreds(e) \in Seq(S)
<1>1. PICK n \in Nat : DOMAIN edges[e].props = 1 .. n
  <2>1. edges[e] \in EdgeRecords
    BY DEF TypeOK
  <2>2. edges[e].props \in Seq(Props)
    BY <2>1 DEF EdgeRecords
  <2> QED  BY <2>2
<1> DEFINE X == PropPreds(e)
<1>2. X = [j \in 1 .. n |-> X[j]]
  BY <1>1 DEF PropPreds
<1> HIDE DEF X
<1>3. X \in [1 .. n -> Range(X)]
  BY <1>2 DEF Range
<1>4. X \in Seq(Range(X))
  BY <1>1, <1>3
<1> QED  BY <1>4 DEF X

\* That is what the predicates say.
LEMMA PredsSay ==
  ASSUME NEW occ, Settled(occ), Engine = "directed", NEW row, NEW e \in DOMAIN edges
  PROVE  AllHold(row, PredsOf(e)) <=> LimitsAt(row, e)
<1>1. TypeOK
  BY SettledIs
<1>2. AllSound(PredsOf(e))
  BY OnSound DEF AllSound
<1> DEFINE T0 == IfGiven(EdgeRef(e, "edge_type"), edges[e].type)
           F == IfGiven(EdgeRef(e, "source_name"), slots[edges[e].src].name)
           G == IfGiven(EdgeRef(e, "target_name"), slots[edges[e].tgt].name)
           P == PropPreds(e)
<1>3. PredsOf(e) = ((T0 \o F) \o G) \o P
  BY DEF PredsOf, EdgePreds
<1>4. PICK A : T0 \in Seq(A)
  BY GivenIsSeq
<1>5. PICK B : F \in Seq(B)
  BY GivenIsSeq
<1>6. PICK C : G \in Seq(C)
  BY GivenIsSeq
<1>7. PICK D : P \in Seq(D)
  BY <1>1, PropsSeq
<1> HIDE DEF T0, F, G, P
<1>8. /\ AllHold(row, T0 \o F) <=> AllHold(row, T0) /\ AllHold(row, F)
      /\ AllSound(T0 \o F) => AllSound(T0) /\ AllSound(F)
      /\ T0 \o F \in Seq(A \cup B)
  BY <1>4, <1>5, BothHold
<1>9. /\ AllHold(row, (T0 \o F) \o G) <=> AllHold(row, T0 \o F) /\ AllHold(row, G)
      /\ AllSound((T0 \o F) \o G) => AllSound(T0 \o F) /\ AllSound(G)
      /\ (T0 \o F) \o G \in Seq((A \cup B) \cup C)
  BY <1>6, <1>8, BothHold
<1>10. /\ AllHold(row, ((T0 \o F) \o G) \o P) <=> AllHold(row, (T0 \o F) \o G) /\ AllHold(row, P)
       /\ AllSound(((T0 \o F) \o G) \o P) => AllSound((T0 \o F) \o G) /\ AllSound(P)
  BY <1>7, <1>9, BothHold
<1>11. AllSound(T0) /\ AllSound(F) /\ AllSound(G) /\ AllSound(P)
  BY <1>2, <1>3, <1>8, <1>9, <1>10
<1>12. AllHold(row, PredsOf(e)) <=>
         AllHold(row, T0) /\ AllHold(row, F) /\ AllHold(row, G) /\ AllHold(row, P)
  BY <1>3, <1>8, <1>9, <1>10
<1>13. AllHold(row, T0) <=> (edges[e].type # NULL => EdgeRow(row, e)["edge_type"] = edges[e].type)
  BY <1>11, GivenSays DEF T0
<1>14. ASSUME NEW s \in BOOLEAN, NEW val,
              AllSound(IfGiven(EdgeRef(e, NameColumn(s)), val))
       PROVE  AllHold(row, IfGiven(EdgeRef(e, NameColumn(s)), val)) <=>
                (val # NULL => SideAt(row, e, s).name = val)
  <2>1. PICK col : col = NameColumn(s)
    OBVIOUS
  <2>2. AllHold(row, IfGiven(EdgeRef(e, col), val)) <=> (val # NULL => EdgeRow(row, e)[col] = val)
    BY <1>14, <2>1, GivenSays
  <2>3. SideAt(row, e, s).name = EdgeRow(row, e)[col]
    BY <2>1, SideIs DEF SideAt
  <2> QED  BY <2>1, <2>2, <2>3
<1>15. NameColumn(FALSE) = "source_name" /\ NameColumn(TRUE) = "target_name"
  BY DEF NameColumn
<1>16. AllHold(row, F) <=>
         (slots[edges[e].src].name # NULL => SideAt(row, e, FALSE).name = slots[edges[e].src].name)
  <2>1. PICK s \in BOOLEAN : s = FALSE
    OBVIOUS
  <2>2. PICK val : val = slots[edges[e].src].name
    OBVIOUS
  <2>3. F = IfGiven(EdgeRef(e, NameColumn(s)), val)
    BY <1>15, <2>1, <2>2 DEF F
  <2> QED  BY <1>11, <1>14, <2>1, <2>2, <2>3
<1>17. AllHold(row, G) <=>
         (slots[edges[e].tgt].name # NULL => SideAt(row, e, TRUE).name = slots[edges[e].tgt].name)
  <2>1. PICK s \in BOOLEAN : s = TRUE
    OBVIOUS
  <2>2. PICK val : val = slots[edges[e].tgt].name
    OBVIOUS
  <2>3. G = IfGiven(EdgeRef(e, NameColumn(s)), val)
    BY <1>15, <2>1, <2>2 DEF G
  <2> QED  BY <1>11, <1>14, <2>1, <2>2, <2>3
<1>18. AllHold(row, P) <=> \A p \in Range(edges[e].props) : EdgeRow(row, e)[p.key] = p.val
  BY <1>11, PropsSay DEF P
<1>19. SlotOn(e, FALSE) = edges[e].src /\ SlotOn(e, TRUE) = edges[e].tgt
  BY DEF SlotOn
<1>20. (\A s \in BOOLEAN :
          slots[SlotOn(e, s)].name # NULL => SideAt(row, e, s).name = slots[SlotOn(e, s)].name)
       <=> AllHold(row, F) /\ AllHold(row, G)
  <2> DEFINE Named(s) ==
        slots[SlotOn(e, s)].name # NULL => SideAt(row, e, s).name = slots[SlotOn(e, s)].name
  <2>1. Named(FALSE) <=> AllHold(row, F)
    BY <1>16, <1>19
  <2>2. Named(TRUE) <=> AllHold(row, G)
    BY <1>17, <1>19
  <2> HIDE DEF Named
  <2>3. (\A s \in BOOLEAN : Named(s)) <=> Named(FALSE) /\ Named(TRUE)
    OBVIOUS
  <2>4. (\A s \in BOOLEAN : Named(s)) <=> AllHold(row, F) /\ AllHold(row, G)
    BY <2>1, <2>2, <2>3
  <2> QED  BY <2>4 DEF Named
<1> QED  BY <1>12, <1>13, <1>18, <1>20 DEF LimitsAt

\* A node that is joined has the id of its anchor.
NodesAt(row) ==
  \A i \in DOMAIN slots :
    slots[i].referenced /\ ~slots[i].lone =>
      SlotRow(row, i).id = SideAt(row, slots[i].anchor, slots[i].onTarget).id

\* The statement of a directed pattern.
LEMMA DirectedSays ==
  ASSUME NEW occ, Settled(occ), Engine = "directed", ~HasSelfLoop, NEW row
  PROVE  (/\ \A j \in DOMAIN sql.from : OnHolds(row, j)
          /\ \A c \in Range(sql.pred) : Holds(row, c)) <=>
            (NodesMeet(row) /\ NodesAt(row) /\ \A e \in DOMAIN edges : LimitsAt(row, e))
<1>1. TypeOK
  BY SettledIs
<1>2. (\A c \in Range(sql.pred) : Holds(row, c)) <=> \A e \in DOMAIN edges : LimitsAt(row, e)
  <2>1. (\A c \in Range(sql.pred) : Holds(row, c)) <=> \A e \in DOMAIN edges : AllHold(row, PredsOf(e))
    BY AllPreds DEF AllHold
  <2>2. \A e \in DOMAIN edges : AllHold(row, PredsOf(e)) <=> LimitsAt(row, e)
    BY PredsSay
  <2> QED  BY <2>1, <2>2
<1>3. ASSUME NEW i \in DOMAIN slots, There(i)
      PROVE  OnOK(row, NodeOn(i)) <=>
               (~slots[i].lone =>
                  SlotRow(row, i).id = SideAt(row, slots[i].anchor, slots[i].onTarget).id)
  <2>1. CASE slots[i].lone
    <3>1. NodeOn(i) = <<>> /\ Range(<<>>) = {}
      BY <2>1 DEF NodeOn, Range
    <3> QED  BY <2>1, <3>1 DEF OnOK
  <2>2. CASE ~slots[i].lone
    <3>1. PICK a, t : a = slots[i].anchor /\ t = slots[i].onTarget
      OBVIOUS
    <3>2. NodeOn(i) = NodeTie(i, a, t)
      BY <2>2, <3>1 DEF NodeOn
    <3>3. SoundOn(NodeTie(i, a, t))
      BY <1>3, <3>2, OnSound
    <3>4. OnOK(row, NodeTie(i, a, t)) <=> SlotRow(row, i).id = EdgeRow(row, a)[IdColumn(t)]
      BY <3>3, TieSays
    <3>5. t \in BOOLEAN
      <4>1. slots[i] \in SlotRecords
        BY <1>1, <1>3 DEF TypeOK
      <4> QED  BY <3>1, <4>1 DEF SlotRecords
    <3>6. SideAt(row, a, t).id = EdgeRow(row, a)[IdColumn(t)]
      BY <3>5, SideIs DEF SideAt
    <3> QED  BY <2>2, <3>1, <3>2, <3>4, <3>6
  <2> QED  BY <2>1, <2>2
<1>4. (\A i \in DOMAIN slots : There(i) => OnOK(row, NodeOn(i))) <=> NodesAt(row)
  BY <1>3 DEF NodesAt, There
<1>5. (\A e \in DOMAIN edges : OnOK(row, EdgeOn(e))) <=> NodesMeet(row)
  BY TiesSay
<1>6. (\A j \in DOMAIN sql.from : OnHolds(row, j)) <=> NodesMeet(row) /\ NodesAt(row)
  BY <1>4, <1>5, AllOn
<1> QED  BY <1>2, <1>6

-----------------------------------------------------------------------------
(* What a row of a directed statement and the trails of a match have in common *)

\* The trail of one relationship, read as it is written.
OneRow(x) == Trail(<<x>>, FALSE)

\* What that trail is.
LEMMA OneRowIs ==
  ASSUME NEW x
  PROVE  /\ OneRow(x).path[1] = x /\ First(OneRow(x)) = EndOf(x, FALSE)
         /\ Last(OneRow(x)) = EndOf(x, TRUE) /\ DOMAIN OneRow(x).path = {1}
<1>1. OneRow(x).path = <<x>> /\ OneRow(x).flipped = FALSE
  BY DEF OneRow, Trail
<1>2. <<x>>[1] = x /\ Len(<<x>>) = 1 /\ DOMAIN <<x>> = {1}
  OBVIOUS
<1>3. First(OneRow(x)) = Source(x) /\ Last(OneRow(x)) = Target(x)
  BY <1>1, <1>2 DEF First, Last
<1> QED  BY <1>1, <1>2, <1>3 DEF EndOf

\* In a directed pattern a relationship stands for a row of the edge table, of
\* the type and with the properties asked for.
LEMMA RowStands ==
  ASSUME Engine = "directed", NEW e \in DOMAIN edges, NEW o, JoinsSlots(e, o), NEW db, NEW t
  PROVE  t \in StandsFor(o, db) /\ Fits(o, t) <=>
           \E x \in db[EdgeTable] :
             /\ t = OneRow(x)
             /\ edges[e].type # NULL => x.edge_type = edges[e].type
             /\ \A p \in Range(edges[e].props) : x[p.key] = p.val
<1>1. RelOf(o).varlen = NULL /\ RelOf(o).dir # "none"
  BY VarlenIs DEF JoinsSlots
<1>2. t \in StandsFor(o, db) <=> \E x \in db[EdgeTable] : t = OneRow(x)
  BY <1>1 DEF StandsFor, OneRow
<1>3. ASSUME NEW x
      PROVE  Fits(o, OneRow(x)) <=>
               /\ edges[e].type # NULL => x.edge_type = edges[e].type
               /\ \A p \in Range(edges[e].props) : x[p.key] = p.val
  <2>1. PICK u : u = OneRow(x)
    OBVIOUS
  <2>2. u.path[1] = x /\ DOMAIN u.path = {1}
    BY <2>1, OneRowIs
  <2>3. Fits(o, u) <=> /\ RelOf(o).type # NULL => u.path[1].edge_type = RelOf(o).type
                       /\ \A p \in Range(RelOf(o).props) : u.path[1][p.key] = p.val
    BY <2>2 DEF Fits
  <2>4. edges[e].type = RelOf(o).type /\ edges[e].props = RelOf(o).props
    BY DEF JoinsSlots
  <2> QED  BY <2>1, <2>2, <2>3, <2>4
<1> QED  BY <1>2, <1>3

\* The trails of the relationships are the rows of their FROM items.
SameRows(row, R, occ) == \A e \in DOMAIN edges : R[occ[e]] = OneRow(EdgeRow(row, e))

\* Then the nodes at a slot are the ends that touch it.
LEMMA DirectedEnds ==
  ASSUME NEW occ, Settled(occ), Engine = "directed", ~HasSelfLoop, NEW row, NEW R,
         SameRows(row, R, occ), NEW i \in DOMAIN slots, NEW node
  PROVE  node \in EndsAt(R, KeyOf(slots[i].np)) <=>
           \E e \in DOMAIN edges, s \in BOOLEAN : SlotOn(e, s) = i /\ node = SideAt(row, e, s)
<1> DEFINE key == KeyOf(slots[i].np)
<1>1. DInv /\ pc = "done" /\ OccsOf(occ)
  BY SettledIs
<1>2. UniqueIn(slots) /\ SlotsFound /\ \A e \in DOMAIN edges : JoinsSlots(e, occ[e])
  BY <1>1, DirectedHas
<1>3. ASSUME NEW e \in DOMAIN edges
      PROVE  /\ occ[e] \in RelOccs
             /\ SrcKey(occ[e]) = key <=> SlotOn(e, FALSE) = i
             /\ TgtKey(occ[e]) = key <=> SlotOn(e, TRUE) = i
             /\ First(R[occ[e]]) = SideAt(row, e, FALSE) /\ Last(R[occ[e]]) = SideAt(row, e, TRUE)
  <2>1. JoinsSlots(e, occ[e]) /\ R[occ[e]] = OneRow(EdgeRow(row, e))
    BY <1>2 DEF SameRows
  <2>2. First(R[occ[e]]) = SideAt(row, e, FALSE) /\ Last(R[occ[e]]) = SideAt(row, e, TRUE)
    BY <2>1, OneRowIs DEF SideAt
  <2>3. SlotOn(e, FALSE) = edges[e].src /\ SlotOn(e, TRUE) = edges[e].tgt
    BY DEF SlotOn
  <2>4. \A j \in DOMAIN slots : KeyOf(slots[j].np) = key <=> j = i
    BY <1>2, KeysApart
  <2> HIDE DEF key
  <2> QED  BY <2>1, <2>2, <2>3, <2>4 DEF JoinsSlots
<1> HIDE DEF key
<1>4. node \in EndsAt(R, key) <=>
        \E o \in RelOccs : \/ SrcKey(o) = key /\ node = First(R[o])
                           \/ TgtKey(o) = key /\ node = Last(R[o])
  BY DEF EndsAt
<1>5. \A o \in RelOccs : \E e \in DOMAIN edges : occ[e] = o
  BY <1>1 DEF OccsOf
<1>6. node \in EndsAt(R, key) <=>
        \E e \in DOMAIN edges : \/ SlotOn(e, FALSE) = i /\ node = SideAt(row, e, FALSE)
                                \/ SlotOn(e, TRUE) = i /\ node = SideAt(row, e, TRUE)
  <2>1. ASSUME NEW o \in RelOccs,
               \/ SrcKey(o) = key /\ node = First(R[o])
               \/ TgtKey(o) = key /\ node = Last(R[o])
        PROVE  \E e \in DOMAIN edges : \/ SlotOn(e, FALSE) = i /\ node = SideAt(row, e, FALSE)
                                       \/ SlotOn(e, TRUE) = i /\ node = SideAt(row, e, TRUE)
    <3>1. PICK e \in DOMAIN edges : occ[e] = o
      BY <1>5
    <3> QED  BY <1>3, <2>1, <3>1
  <2>2. ASSUME NEW e \in DOMAIN edges,
               \/ SlotOn(e, FALSE) = i /\ node = SideAt(row, e, FALSE)
               \/ SlotOn(e, TRUE) = i /\ node = SideAt(row, e, TRUE)
        PROVE  \E o \in RelOccs : \/ SrcKey(o) = key /\ node = First(R[o])
                                  \/ TgtKey(o) = key /\ node = Last(R[o])
    <3>1. occ[e] \in RelOccs
      BY <1>3
    <3> QED  BY <1>3, <2>2, <3>1
  <2> QED  BY <1>4, <2>1, <2>2
<1>7. (\E e \in DOMAIN edges, s \in BOOLEAN : SlotOn(e, s) = i /\ node = SideAt(row, e, s)) <=>
        \E e \in DOMAIN edges : \/ SlotOn(e, FALSE) = i /\ node = SideAt(row, e, FALSE)
                                \/ SlotOn(e, TRUE) = i /\ node = SideAt(row, e, TRUE)
  <2> DEFINE EndsOn(e, s) == SlotOn(e, s) = i /\ node = SideAt(row, e, s)
  <2> HIDE DEF EndsOn
  <2>1. \A e : (\E s \in BOOLEAN : EndsOn(e, s)) <=> EndsOn(e, FALSE) \/ EndsOn(e, TRUE)
    OBVIOUS
  <2>2. (\E e \in DOMAIN edges, s \in BOOLEAN : EndsOn(e, s)) <=>
          \E e \in DOMAIN edges : EndsOn(e, FALSE) \/ EndsOn(e, TRUE)
    BY <2>1
  <2> QED  BY <2>2 DEF EndsOn
<1> QED  BY <1>6, <1>7 DEF key

\* A slot that a relationship touches is of no lone node, and an anchor touches
\* the slot it anchors.
LEMMA TouchedKey ==
  ASSUME NEW occ, Settled(occ), Engine = "directed", ~HasSelfLoop, NEW i \in DOMAIN slots
  PROVE  /\ KeyOf(slots[i].np) \in Keys
         /\ slots[i].lone <=> KeyOf(slots[i].np) \in LoneKeys
         /\ \A e \in DOMAIN edges, s \in BOOLEAN : SlotOn(e, s) = i => ~slots[i].lone
         /\ ~slots[i].lone =>
              /\ slots[i].anchor \in DOMAIN edges /\ slots[i].onTarget \in BOOLEAN
              /\ SlotOn(slots[i].anchor, slots[i].onTarget) = i
<1>1. DInv /\ pc = "done" /\ OccsOf(occ)
  BY SettledIs
<1>2. /\ TypeOK /\ Anchored /\ SlotsFound
      /\ slots[i].lone = (slots[i].anchor = 0)
  BY <1>1, DirectedHas
<1>3. KeyOf(slots[i].np) \in Keys
  BY <1>2 DEF SlotsFound, Keys
<1>4. slots[i].lone <=> KeyOf(slots[i].np) \in LoneKeys
  BY <1>1, LoneMeans
<1>5. ASSUME NEW e \in DOMAIN edges, NEW s \in BOOLEAN, SlotOn(e, s) = i PROVE ~slots[i].lone
  <2>1. slots[i].anchor \in 1 .. e
    BY <1>2, <1>5 DEF Anchored
  <2>2. e \in Nat
    BY <1>2 DEF TypeOK
  <2>3. slots[i].anchor # 0
    BY <2>1, <2>2
  <2> QED  BY <1>2, <2>3
<1>6. ASSUME ~slots[i].lone
      PROVE  /\ slots[i].anchor \in DOMAIN edges /\ slots[i].onTarget \in BOOLEAN
             /\ SlotOn(slots[i].anchor, slots[i].onTarget) = i
  <2>1. slots[i].anchor # 0
    BY <1>2, <1>6
  <2>2. slots[i] \in SlotRecords
    BY <1>2 DEF TypeOK
  <2>3. slots[i].onTarget \in BOOLEAN
    BY <2>2 DEF SlotRecords
  <2> QED  BY <1>2, <2>1, <2>3 DEF Anchored
<1> QED  BY <1>3, <1>4, <1>5, <1>6

-----------------------------------------------------------------------------
(* The matches of a directed pattern and the statement's rows *)

\* The trails of a match are the rows of its row.
LEMMA MatchSameRows ==
  ASSUME NEW occ, Settled(occ), Engine = "directed", ~HasSelfLoop,
         NEW db, NEW m \in Layings(db), NEW row, row = RowFor(occ, db, m)
  PROVE  /\ SameRows(row, m.rels, occ)
         /\ \A e \in DOMAIN edges :
              /\ edges[e].type # NULL => EdgeRow(row, e).edge_type = edges[e].type
              /\ \A p \in Range(edges[e].props) : EdgeRow(row, e)[p.key] = p.val
         /\ \A i \in DOMAIN slots : There(i) => SlotRow(row, i) = NodeRow(db, m, i)
<1>1. DInv /\ pc = "done" /\ OccsOf(occ) /\ query \in QueryType
  BY SettledIs
<1>2. \A e \in DOMAIN edges : JoinsSlots(e, occ[e])
  BY <1>1, DirectedHas
<1>3. /\ \A e \in DOMAIN edges : EdgeRow(row, e) = HopRow(m.rels[occ[e]])
      /\ \A i \in DOMAIN slots : There(i) => SlotRow(row, i) = NodeRow(db, m, i)
  BY MatchParts
<1>4. \A o \in RelOccs : m.rels[o] \in StandsFor(o, db) /\ Fits(o, m.rels[o])
  BY <1>1, MatchIs
<1>5. ASSUME NEW e \in DOMAIN edges
      PROVE  /\ m.rels[occ[e]] = OneRow(EdgeRow(row, e))
             /\ edges[e].type # NULL => EdgeRow(row, e).edge_type = edges[e].type
             /\ \A p \in Range(edges[e].props) : EdgeRow(row, e)[p.key] = p.val
  <2>1. PICK t : t = m.rels[occ[e]]
    OBVIOUS
  <2>2. t \in StandsFor(occ[e], db) /\ Fits(occ[e], t)
    BY <1>2, <1>4, <2>1 DEF JoinsSlots
  <2>3. PICK x \in db[EdgeTable] : /\ t = OneRow(x)
                                   /\ edges[e].type # NULL => x.edge_type = edges[e].type
                                   /\ \A p \in Range(edges[e].props) : x[p.key] = p.val
    BY <1>2, <2>2, RowStands
  <2>4. HopRow(t) = x
    BY <2>3, OneRowIs DEF HopRow
  <2> QED  BY <1>3, <2>1, <2>3, <2>4
<1> QED  BY <1>3, <1>5 DEF SameRows

\* The row of a match is a row of the statement.
LEMMA DirectedRowIn ==
  ASSUME NEW occ, Settled(occ), Engine = "directed", ~HasSelfLoop,
         NEW db \in Databases, NEW m \in Layings(db)
  PROVE  RowFor(occ, db, m) \in PatternRows(db)
<1>1. PICK row : row = RowFor(occ, db, m)
  OBVIOUS
<1>2. /\ SameRows(row, m.rels, occ)
      /\ \A e \in DOMAIN edges :
           /\ edges[e].type # NULL => EdgeRow(row, e).edge_type = edges[e].type
           /\ \A p \in Range(edges[e].props) : EdgeRow(row, e)[p.key] = p.val
      /\ \A i \in DOMAIN slots : There(i) => SlotRow(row, i) = NodeRow(db, m, i)
  BY <1>1, MatchSameRows
<1>3. /\ DInv /\ pc = "done" /\ OccsOf(occ) /\ query \in QueryType /\ WellNamed
      /\ SlotsFound /\ SlotsMean /\ MarkInv
  BY SettledIs
<1>4. TypeOK /\ Anchored
  BY <1>3, DirectedHas
<1>11. \A key \in Keys \ LoneKeys :
         /\ \E node : EndsAt(m.rels, key) = {node}
         /\ \A node \in EndsAt(m.rels, key), r \in Meanings(key) : node.name = r.name
  <2>1. \A key \in Keys \ LoneKeys :
          /\ \E node : EndsAt(m.rels, key) = {node} /\ IsEnd(db, node)
          /\ \A node \in EndsAt(m.rels, key), r \in Meanings(key) : node.name = r.name
    BY <1>3, MatchIs
  <2> QED  BY <2>1
<1>5. ASSUME NEW e \in DOMAIN edges, NEW s \in BOOLEAN
      PROVE  LET i == SlotOn(e, s) IN
             /\ i \in DOMAIN slots /\ ~slots[i].lone
             /\ EndsAt(m.rels, KeyOf(slots[i].np)) = {SideAt(row, e, s)}
             /\ slots[i].name # NULL => SideAt(row, e, s).name = slots[i].name
  <2>1. PICK i : i = SlotOn(e, s)
    OBVIOUS
  <2>2. i \in DOMAIN slots
    BY <1>4, <2>1 DEF Anchored
  <2>3. PICK key : key = KeyOf(slots[i].np)
    OBVIOUS
  <2>4. ~slots[i].lone /\ key \in Keys \ LoneKeys
    BY <2>1, <2>2, <2>3, TouchedKey
  <2>5. /\ \E node : EndsAt(m.rels, key) = {node}
        /\ \A node \in EndsAt(m.rels, key), r \in Meanings(key) : node.name = r.name
    BY <1>11, <2>4
  <2>6. SideAt(row, e, s) \in EndsAt(m.rels, key)
    BY <1>2, <2>1, <2>2, <2>3, DirectedEnds
  <2>7. \A node : (\A r \in Meanings(key) : node.name = r.name) <=>
                     (slots[i].name # NULL => node.name = slots[i].name)
    BY <1>3, <2>2, <2>3, NamesMean DEF SlotsMean
  <2> QED  BY <2>1, <2>2, <2>3, <2>4, <2>5, <2>6, <2>7
<1>6. NodesMeet(row)
  <2> SUFFICES ASSUME NEW e \in DOMAIN edges, NEW g \in DOMAIN edges,
                      NEW s \in BOOLEAN, NEW t \in BOOLEAN, SlotOn(e, s) = SlotOn(g, t)
               PROVE  SideAt(row, e, s) = SideAt(row, g, t)
    BY DEF NodesMeet
  <2> QED  BY <1>5
<1>7. ASSUME NEW e \in DOMAIN edges PROVE LimitsAt(row, e)
  BY <1>2, <1>5 DEF LimitsAt
<1>8. NodesAt(row)
  <2> SUFFICES ASSUME NEW i \in DOMAIN slots, slots[i].referenced, ~slots[i].lone
               PROVE  SlotRow(row, i).id = SideAt(row, slots[i].anchor, slots[i].onTarget).id
    BY DEF NodesAt
  <2>1. PICK a, t : a = slots[i].anchor /\ t = slots[i].onTarget
    OBVIOUS
  <2>2. a \in DOMAIN edges /\ t \in BOOLEAN /\ SlotOn(a, t) = i /\ KeyOf(slots[i].np) \notin LoneKeys
    BY <2>1, TouchedKey
  <2>3. SideAt(row, a, t) \in EndsAt(m.rels, KeyOf(slots[i].np))
    BY <1>5, <2>2
  <2>4. SlotMeans(i) /\ slots[i].label # NULL
    BY <1>3 DEF SlotsMean, MarkInv
  <2>5. \A node \in EndsAt(m.rels, KeyOf(slots[i].np)) : NodeRow(db, m, i).id = node.id
    BY <1>3, <2>2, <2>4, NodeRowIs
  <2>6. SlotRow(row, i) = NodeRow(db, m, i)
    BY <1>2 DEF There
  <2> QED  BY <2>1, <2>3, <2>5, <2>6
<1>9. /\ \A j \in DOMAIN sql.from : OnHolds(row, j)
      /\ \A c \in Range(sql.pred) : Holds(row, c)
  BY <1>6, <1>7, <1>8, DirectedSays
<1>10. row \in JoinedRows(db)
  BY <1>1, <1>9, RowJoined
<1> QED  BY <1>1, <1>9, <1>10 DEF PatternRows

\* The match a row of the statement is of.
MatchOf(row, occ) ==
  [rels |-> [o \in RelOccs |-> OneRow(EdgeRow(row, CHOOSE e \in DOMAIN edges : occ[e] = o))],
   lone |-> [key \in LoneKeys |-> SlotRow(row, CHOOSE i \in DOMAIN slots : KeyOf(slots[i].np) = key)]]

\* Its trails and its lone rows are those of the row.
LEMMA MatchOfIs ==
  ASSUME NEW occ, Settled(occ), Engine = "directed", ~HasSelfLoop, NEW row
  PROVE  /\ SameRows(row, MatchOf(row, occ).rels, occ)
         /\ \A i \in DOMAIN slots :
              slots[i].lone => MatchOf(row, occ).lone[KeyOf(slots[i].np)] = SlotRow(row, i)
<1>1. DInv /\ pc = "done" /\ OccsOf(occ)
  BY SettledIs
<1>2. UniqueIn(slots) /\ SlotsFound
  BY <1>1, DirectedHas
<1>3. ASSUME NEW e \in DOMAIN edges
      PROVE  MatchOf(row, occ).rels[occ[e]] = OneRow(EdgeRow(row, e))
  <2>1. occ[e] \in RelOccs
    BY <1>1 DEF OccsOf
  <2>2. (CHOOSE g \in DOMAIN edges : occ[g] = occ[e]) = e
    <3>1. \A g \in DOMAIN edges : occ[g] = occ[e] => g = e
      <4>1. DOMAIN occ = DOMAIN edges
        BY <1>1 DEF OccsOf
      <4> QED  BY <1>1, <4>1 DEF OccsOf, IsInjective
    <3> QED  BY <3>1
  <2> QED  BY <2>1, <2>2 DEF MatchOf
<1>4. ASSUME NEW i \in DOMAIN slots, slots[i].lone
      PROVE  MatchOf(row, occ).lone[KeyOf(slots[i].np)] = SlotRow(row, i)
  <2>1. PICK key : key = KeyOf(slots[i].np)
    OBVIOUS
  <2>2. key \in LoneKeys
    BY <1>4, <2>1, TouchedKey
  <2>3. (CHOOSE j \in DOMAIN slots : KeyOf(slots[j].np) = key) = i
    <3>1. \A j \in DOMAIN slots : KeyOf(slots[j].np) = key => j = i
      BY <1>2, <2>1, KeysApart
    <3> QED  BY <2>1, <3>1
  <2> QED  BY <2>1, <2>2, <2>3 DEF MatchOf
<1> QED  BY <1>3, <1>4 DEF SameRows

\* The match of a row is one.
LEMMA MatchOfIn ==
  ASSUME NEW occ, Settled(occ), Engine = "directed", ~HasSelfLoop,
         NEW db \in Databases, NEW row \in PatternRows(db)
  PROVE  MatchOf(row, occ) \in Layings(db)
<1>1. PICK m : m = MatchOf(row, occ)
  OBVIOUS
<1>2. PICK R, L : R = m.rels /\ L = m.lone
  OBVIOUS
<1>3. /\ m = [rels |-> R, lone |-> L]
      /\ R = [o \in RelOccs |-> R[o]] /\ L = [key \in LoneKeys |-> L[key]]
  BY <1>1, <1>2 DEF MatchOf
<1>4. /\ SameRows(row, R, occ)
      /\ \A i \in DOMAIN slots : slots[i].lone => L[KeyOf(slots[i].np)] = SlotRow(row, i)
  BY <1>1, <1>2, MatchOfIs
<1>5. /\ DInv /\ pc = "done" /\ OccsOf(occ) /\ WellNamed /\ SlotsMean
  BY SettledIs
<1>6. /\ TypeOK /\ Anchored /\ SlotsFound /\ KeysFound /\ \A o \in NodeOccs : Seen(o)
      /\ \A e \in DOMAIN edges : JoinsSlots(e, occ[e])
  BY <1>5, DirectedHas
<1>7. row \in JoinedRows(db) /\ \A c \in Range(sql.pred) : Holds(row, c)
  BY DEF PatternRows
<1>8. NodesMeet(row) /\ \A e \in DOMAIN edges : LimitsAt(row, e)
  <2>1. \A j \in DOMAIN sql.from : OnHolds(row, j)
    BY <1>7, JoinedHas
  <2> QED  BY <1>7, <2>1, DirectedSays
<1>9. ASSUME NEW o \in RelOccs PROVE R[o] \in StandsFor(o, db) /\ Fits(o, R[o])
  <2>1. PICK e \in DOMAIN edges : occ[e] = o
    BY <1>5 DEF OccsOf
  <2>2. JoinsSlots(e, o) /\ R[o] = OneRow(EdgeRow(row, e))
    BY <1>4, <1>6, <2>1 DEF SameRows
  <2>3. PICK x : x = EdgeRow(row, e)
    OBVIOUS
  <2>4. x \in db[EdgeTable]
    <3>1. x \in TableRows(db, HopTable)
      BY <1>7, <2>3, PartsTyped
    <3> QED  BY <3>1, HopRows
  <2>5. /\ edges[e].type # NULL => x.edge_type = edges[e].type
        /\ \A p \in Range(edges[e].props) : x[p.key] = p.val
    BY <1>8, <2>3 DEF LimitsAt
  <2> QED  BY <2>2, <2>3, <2>4, <2>5, RowStands
<1>10. ASSUME NEW key \in Keys PROVE \E i \in DOMAIN slots : KeyOf(slots[i].np) = key
  <2>1. PICK o \in NodeOccs : KeyOf(o) = key
    BY DEF Keys
  <2> QED  BY <1>5, <1>6, <2>1 DEF KeysFound
<1>11. ASSUME NEW key \in LoneKeys PROVE L[key] \in db[TableOf(key)]
  <2>1. PICK i \in DOMAIN slots : KeyOf(slots[i].np) = key
    BY <1>10 DEF LoneKeys
  <2>2. slots[i].lone /\ slots[i].label # NULL /\ SlotMeans(i)
    BY <1>5, <2>1, TouchedKey DEF SlotsMean
  <2>3. SlotRow(row, i) \in db[slots[i].label]
    BY <1>7, <2>2, PartsTyped DEF There
  <2>4. TableOf(key) = slots[i].label
    BY <2>1, <2>2, SlotTable
  <2> QED  BY <1>4, <2>1, <2>2, <2>3, <2>4
<1>12. ASSUME NEW key \in Keys \ LoneKeys
       PROVE  /\ \E node : EndsAt(R, key) = {node}
              /\ \A node \in EndsAt(R, key), r \in Meanings(key) : node.name = r.name
  <2>1. PICK i \in DOMAIN slots : KeyOf(slots[i].np) = key
    BY <1>10
  <2>2. PICK a, t : a = slots[i].anchor /\ t = slots[i].onTarget
    OBVIOUS
  <2>3. a \in DOMAIN edges /\ t \in BOOLEAN /\ SlotOn(a, t) = i
    BY <2>1, <2>2, TouchedKey
  <2>4. PICK node : node = SideAt(row, a, t)
    OBVIOUS
  <2>5. \A x : x \in EndsAt(R, key) <=>
                 \E e \in DOMAIN edges, s \in BOOLEAN : SlotOn(e, s) = i /\ x = SideAt(row, e, s)
    BY <1>4, <2>1, DirectedEnds
  <2>6. EndsAt(R, key) = {node}
    <3>1. node \in EndsAt(R, key)
      BY <2>3, <2>4, <2>5
    <3>2. \A x \in EndsAt(R, key) : x = node
      BY <1>8, <2>3, <2>4, <2>5 DEF NodesMeet
    <3> QED  BY <3>1, <3>2
  <2>7. slots[i].name # NULL => node.name = slots[i].name
    BY <1>8, <2>3, <2>4 DEF LimitsAt
  <2>8. (\A r \in Meanings(key) : node.name = r.name) <=>
          (slots[i].name # NULL => node.name = slots[i].name)
    BY <1>5, <2>1, NamesMean DEF SlotsMean
  <2> QED  BY <2>6, <2>7, <2>8
<1>13. [rels |-> R, lone |-> L] \in Layings(db)
  BY <1>3, <1>9, <1>11, <1>12, MatchMade
<1> QED  BY <1>1, <1>3, <1>13

\* Each row of the statement is the row of a match.
LEMMA DirectedRowFrom ==
  ASSUME NEW occ, Settled(occ), Engine = "directed", ~HasSelfLoop,
         NEW db \in Databases, NEW row \in PatternRows(db)
  PROVE  \E m \in Layings(db) : RowFor(occ, db, m) = row
<1>1. PICK m : m = MatchOf(row, occ)
  OBVIOUS
<1>2. m \in Layings(db)
  BY <1>1, MatchOfIn
<1>3. /\ SameRows(row, m.rels, occ)
      /\ \A i \in DOMAIN slots : slots[i].lone => m.lone[KeyOf(slots[i].np)] = SlotRow(row, i)
  BY <1>1, MatchOfIs
<1>4. PICK other : other = RowFor(occ, db, m)
  OBVIOUS
<1>5. /\ other = [j \in DOMAIN sql.from |-> other[j]]
      /\ \A e \in DOMAIN edges : EdgeRow(other, e) = HopRow(m.rels[occ[e]])
      /\ \A i \in DOMAIN slots : There(i) => SlotRow(other, i) = NodeRow(db, m, i)
  BY <1>4, MatchParts
<1>6. row \in JoinedRows(db) /\ \A c \in Range(sql.pred) : Holds(row, c)
  BY DEF PatternRows
<1>7. /\ row = [j \in DOMAIN sql.from |-> row[j]]
      /\ \A j \in DOMAIN sql.from : OnHolds(row, j)
  BY <1>6, JoinedHas
<1>8. NodesAt(row)
  BY <1>6, <1>7, DirectedSays
<1>9. ASSUME NEW e \in DOMAIN edges PROVE EdgeRow(other, e) = EdgeRow(row, e)
  <2>1. PICK x : x = EdgeRow(row, e)
    OBVIOUS
  <2>2. m.rels[occ[e]] = OneRow(x)
    BY <1>3, <2>1 DEF SameRows
  <2>3. HopRow(OneRow(x)) = x
    BY OneRowIs DEF HopRow
  <2> QED  BY <1>5, <2>1, <2>2, <2>3
<1>10. /\ query \in QueryType /\ WellNamed /\ SlotsFound /\ SlotsMean /\ MarkInv
  BY SettledIs
<1>11. ASSUME NEW i \in DOMAIN slots, There(i) PROVE SlotRow(other, i) = SlotRow(row, i)
  <2>1. PICK key : key = KeyOf(slots[i].np)
    OBVIOUS
  <2>2. CASE slots[i].lone
    <3>1. key \in LoneKeys
      BY <2>1, <2>2, TouchedKey
    <3>2. NodeRow(db, m, i) = m.lone[key]
      BY <2>1, <3>1 DEF NodeRow
    <3> QED  BY <1>3, <1>5, <1>11, <2>1, <2>2, <3>2
  <2>3. CASE ~slots[i].lone
    <3>1. PICK a, t : a = slots[i].anchor /\ t = slots[i].onTarget
      OBVIOUS
    <3>2. a \in DOMAIN edges /\ t \in BOOLEAN /\ SlotOn(a, t) = i /\ key \notin LoneKeys
      BY <2>1, <2>3, <3>1, TouchedKey
    <3>3. slots[i].referenced
      BY <1>11, <2>3 DEF There
    <3>4. SlotMeans(i) /\ slots[i].label # NULL
      BY <1>10, <3>3 DEF SlotsMean, MarkInv
    <3>5. SideAt(row, a, t) \in EndsAt(m.rels, key)
      BY <1>3, <2>1, <3>2, DirectedEnds
    <3>6. \A node \in EndsAt(m.rels, key) :
            \A r \in db[slots[i].label] : r.id = node.id => r = NodeRow(db, m, i)
      BY <1>2, <1>10, <2>1, <3>2, <3>4, NodeRowIs
    <3>7. SlotRow(row, i) \in db[slots[i].label]
      BY <1>6, <1>11, PartsTyped
    <3>8. SlotRow(row, i).id = SideAt(row, a, t).id
      BY <1>8, <2>3, <3>1, <3>3 DEF NodesAt
    <3>9. SlotRow(row, i) = NodeRow(db, m, i)
      BY <3>5, <3>6, <3>7, <3>8
    <3> QED  BY <1>5, <1>11, <3>9
  <2> QED  BY <2>2, <2>3
<1>12. other = row
  BY <1>5, <1>7, <1>9, <1>11, PartsTell
<1> QED  BY <1>2, <1>4, <1>12

\* No two matches have one row.
LEMMA DirectedRowOnce ==
  ASSUME NEW occ, Settled(occ), Engine = "directed", ~HasSelfLoop,
         NEW db \in Databases, NEW m \in Layings(db), NEW n \in Layings(db),
         RowFor(occ, db, m) = RowFor(occ, db, n)
  PROVE  m = n
<1>1. PICK row : row = RowFor(occ, db, m) /\ row = RowFor(occ, db, n)
  OBVIOUS
<1>2. /\ SameRows(row, m.rels, occ)
      /\ \A i \in DOMAIN slots : There(i) => SlotRow(row, i) = NodeRow(db, m, i)
  BY <1>1, MatchSameRows
<1>3. /\ SameRows(row, n.rels, occ)
      /\ \A i \in DOMAIN slots : There(i) => SlotRow(row, i) = NodeRow(db, n, i)
  BY <1>1, MatchSameRows
<1>4. DInv /\ pc = "done" /\ OccsOf(occ) /\ query \in QueryType
  BY SettledIs
<1>5. KeysFound /\ \A o \in NodeOccs : Seen(o)
  BY <1>4, DirectedHas
<1>6. /\ m = [rels |-> m.rels, lone |-> m.lone]
      /\ m.rels = [o \in RelOccs |-> m.rels[o]] /\ m.lone = [key \in LoneKeys |-> m.lone[key]]
  BY <1>4, MatchIs
<1>7. /\ n = [rels |-> n.rels, lone |-> n.lone]
      /\ n.rels = [o \in RelOccs |-> n.rels[o]] /\ n.lone = [key \in LoneKeys |-> n.lone[key]]
  BY <1>4, MatchIs
<1>8. \A o \in RelOccs : m.rels[o] = n.rels[o]
  <2> TAKE o \in RelOccs
  <2>1. PICK e \in DOMAIN edges : occ[e] = o
    BY <1>4 DEF OccsOf
  <2> QED  BY <1>2, <1>3, <2>1 DEF SameRows
<1>9. \A key \in LoneKeys : m.lone[key] = n.lone[key]
  <2> TAKE key \in LoneKeys
  <2>1. PICK o \in NodeOccs : KeyOf(o) = key
    BY DEF LoneKeys, Keys
  <2>2. PICK i \in DOMAIN slots : KeyOf(slots[i].np) = key
    BY <1>4, <1>5, <2>1 DEF KeysFound
  <2>3. There(i)
    BY <2>2, TouchedKey DEF There
  <2>4. NodeRow(db, m, i) = m.lone[key] /\ NodeRow(db, n, i) = n.lone[key]
    BY <2>2 DEF NodeRow
  <2> QED  BY <1>2, <1>3, <2>2, <2>3, <2>4
<1> QED  BY <1>6, <1>7, <1>8, <1>9

\* The row of a match, and of no other laying, uses no relationship twice.
LEMMA DirectedUsesOnce ==
  ASSUME NEW occ, Settled(occ), Engine = "directed", ~HasSelfLoop,
         NEW db \in Databases, NEW m \in Layings(db)
  PROVE  RepeatsNone(RowFor(occ, db, m)) <=> UsesOnce(m)
<1>1. PICK row : row = RowFor(occ, db, m)
  OBVIOUS
<1>2. SameRows(row, m.rels, occ)
  BY <1>1, MatchSameRows
<1>3. OccsOf(occ)
  BY SettledIs
<1>4. ASSUME NEW e \in DOMAIN edges
      PROVE  Range(m.rels[occ[e]].path) = {EdgeRow(row, e)}
  <2>1. PICK x : x = EdgeRow(row, e)
    OBVIOUS
  <2>2. m.rels[occ[e]] = OneRow(x)
    BY <1>2, <2>1 DEF SameRows
  <2>3. OneRow(x).path[1] = x /\ DOMAIN OneRow(x).path = {1}
    BY OneRowIs
  <2>4. Range(OneRow(x).path) = {x}
    BY <2>3 DEF Range
  <2> QED  BY <2>1, <2>2, <2>4
<1>5. ASSUME NEW e \in DOMAIN edges
      PROVE  \E j \in DOMAIN sql.from :
               /\ sql.from[j].of = <<"edge", e>> /\ sql.from[j].table = EdgeTable
               /\ EdgeRow(row, e) = row[j]
  <2>1. PICK j \in DOMAIN sql.from : sql.from[j].of = <<"edge", e>>
    BY ItemsThere
  <2>2. \A i : <<"slot", i>> # <<"edge", e>>
    OBVIOUS
  <2>3. sql.from[j].table = HopTable
    BY <2>1, <2>2, ItemTables
  <2>4. ItemFor(<<"edge", e>>) = j
    BY <2>1, PartOf
  <2> QED  BY <2>1, <2>3, <2>4 DEF HopTable, EdgeRow
<1>6. ASSUME RepeatsNone(row) PROVE UsesOnce(m)
  <2> SUFFICES ASSUME NEW o \in RelOccs, NEW p \in RelOccs, o # p
               PROVE  Range(m.rels[o].path) \cap Range(m.rels[p].path) = {}
    BY DEF UsesOnce
  <2>1. PICK e \in DOMAIN edges : occ[e] = o
    BY <1>3 DEF OccsOf
  <2>2. PICK g \in DOMAIN edges : occ[g] = p
    BY <1>3 DEF OccsOf
  <2>3. PICK i \in DOMAIN sql.from : /\ sql.from[i].of = <<"edge", e>>
                                     /\ sql.from[i].table = EdgeTable
                                     /\ EdgeRow(row, e) = row[i]
    BY <1>5
  <2>4. PICK j \in DOMAIN sql.from : /\ sql.from[j].of = <<"edge", g>>
                                     /\ sql.from[j].table = EdgeTable
                                     /\ EdgeRow(row, g) = row[j]
    BY <1>5
  <2>5. i # j
    <3>1. e # g
      BY <2>1, <2>2
    <3>2. <<"edge", e>> # <<"edge", g>>
      BY <3>1
    <3> QED  BY <2>3, <2>4, <3>2
  <2>6. row[i] # row[j]
    BY <1>6, <2>3, <2>4, <2>5 DEF RepeatsNone
  <2>7. EdgeRow(row, e) # EdgeRow(row, g)
    BY <2>3, <2>4, <2>6
  <2> QED  BY <1>4, <2>1, <2>2, <2>7
<1>7. ASSUME UsesOnce(m) PROVE RepeatsNone(row)
  <2> SUFFICES ASSUME NEW i \in DOMAIN sql.from, NEW j \in DOMAIN sql.from, i # j,
                      sql.from[i].table = EdgeTable, sql.from[j].table = EdgeTable
               PROVE  row[i] # row[j]
    BY DEF RepeatsNone
  <2>1. PICK e \in DOMAIN edges : sql.from[i].of = <<"edge", e>>
    BY EdgeItems
  <2>2. PICK g \in DOMAIN edges : sql.from[j].of = <<"edge", g>>
    BY EdgeItems
  <2>3. EdgeRow(row, e) = row[i] /\ EdgeRow(row, g) = row[j]
    BY <2>1, <2>2, PartOf DEF EdgeRow
  <2>4. e # g
    BY <2>1, <2>2, ItemOnce
  <2>5. occ[e] # occ[g]
    <3>1. DOMAIN occ = DOMAIN edges
      BY <1>3 DEF OccsOf
    <3> QED  BY <1>3, <2>4, <3>1 DEF OccsOf, IsInjective
  <2>6. occ[e] \in RelOccs /\ occ[g] \in RelOccs
    BY <1>3 DEF OccsOf
  <2>7. {EdgeRow(row, e)} \cap {EdgeRow(row, g)} = {}
    BY <1>4, <1>7, <2>5, <2>6 DEF UsesOnce
  <2> QED  BY <2>3, <2>7
<1> QED  BY <1>1, <1>6, <1>7

\* So the rows of the statement are the layings, and those of the matches repeat none.
LEMMA DirectedOnto ==
  ASSUME NEW occ, Settled(occ), Engine = "directed", ~HasSelfLoop, NEW db \in Databases
  PROVE  \E f : Onto(db, f) /\ Counts(db, f)
<1> DEFINE f == [m \in Layings(db) |-> RowFor(occ, db, m)]
<1>1. \A m \in Layings(db) : f[m] = RowFor(occ, db, m)
  OBVIOUS
<1>2. \A m \in Layings(db) : RowFor(occ, db, m) \in PatternRows(db)
  BY DirectedRowIn
<1>3. f \in [Layings(db) -> PatternRows(db)]
  BY <1>2
<1>4. ASSUME NEW row \in PatternRows(db) PROVE \E m \in Layings(db) : f[m] = row
  <2>1. PICK m \in Layings(db) : RowFor(occ, db, m) = row
    BY DirectedRowFrom
  <2> QED  BY <1>1, <2>1
<1>5. ASSUME NEW m \in Layings(db) PROVE Agree(db, m, f[m])
  <2>1. Agree(db, m, RowFor(occ, db, m))
    <3>1. DInv /\ pc = "done" /\ WellNamed /\ SlotsMean /\ OccsOf(occ)
      BY SettledIs
    <3> QED  BY <3>1, RowAgrees
  <2> QED  BY <1>1, <2>1
<1>6. OneToOneOn(db, f)
  <2> SUFFICES ASSUME NEW m \in Layings(db), NEW n \in Layings(db), f[m] = f[n]
               PROVE  m = n
    BY DEF OneToOneOn
  <2>1. RowFor(occ, db, m) = RowFor(occ, db, n)
    BY <1>1
  <2> QED  BY <2>1, DirectedRowOnce
<1> HIDE DEF f
<1>7. \A m \in Layings(db) : RepeatsNone(f[m]) <=> UsesOnce(m)
  BY <1>1, DirectedUsesOnce
<1>8. Onto(db, f)
  BY <1>3, <1>4, <1>5, <1>7 DEF Onto
<1>9. CountsMatches
  BY VarlenIs DEF CountsMatches
<1> QED  BY <1>6, <1>8, <1>9 DEF Counts

\* The answer of a directed pattern.
LEMMA DirectedAnswers ==
  ASSUME ClausesInv, ExactInv, AcceptedInv, EndsInv, NodesInv, pc = "done",
         Engine = "directed", BoundsFit
  PROVE  SameAnswer
<1> SUFFICES ASSUME WellNamed, ~HasSelfLoop PROVE SameAnswer
  BY DEF SameAnswer
<1>1. DInv
  BY DEF ClausesInv
<1>2. SlotsMean
  BY <1>1, DirectedMeans
<1>3. PICK occ : OccsOf(occ)
  BY <1>1, AllFound DEF OccsOf
<1>4. Settled(occ)
  BY <1>1, <1>2, <1>3 DEF Settled
<1>5. \A db \in Databases : \E f : Onto(db, f) /\ Counts(db, f)
  BY <1>4, DirectedOnto
<1> QED  BY <1>4, <1>5, RowsAnswer

-----------------------------------------------------------------------------
(* The theorem *)

\* The invariant behind it: the clauses are those of the query, the ON clauses
\* and the predicates those of the pattern, and the slots have the labels that
\* were written.
StatedInv ==
  /\ ClausesInv /\ AcceptedInv /\ EndsInv /\ NodesInv
  /\ pc \in Emitting => ExactInv

\* StatedInv holds when a query comes in.
LEMMA StatedInit == Init => StatedInv
<1> SUFFICES ASSUME Init PROVE StatedInv OBVIOUS
<1>1. DInv BY DInvInit
<1>3. NodesInv BY NodesInit
<1>2. pc = "dispatch" /\ pc \notin Emitting BY DEF Init, Emitting
<1> QED BY <1>1, <1>2, <1>3 DEF StatedInv, ClausesInv, AcceptedInv, EndsInv

\* Every step keeps it.
LEMMA StatedStep == StatedInv /\ [Next]_vars => StatedInv'
<1> SUFFICES ASSUME StatedInv, [Next]_vars PROVE StatedInv' OBVIOUS
<1>1. ClausesInv /\ ClausesInv' /\ DInv /\ TInv /\ TypeOK
  BY ClausesInductive DEF StatedInv, ClausesInv, DInv, LInv, TInv
<1>2. AcceptedInv' BY <1>1, AcceptedStep DEF StatedInv
<1>3. EndsInv' BY <1>1, EndsStep DEF StatedInv
<1>4. ASSUME pc' \in Emitting PROVE ExactInv'
  <2>1. CASE UNCHANGED vars
    <3>1. pc \in Emitting /\ ExactInv BY <1>4, <2>1 DEF StatedInv, vars
    <3>2. Steady /\ slots' = slots /\ pc' = pc /\ k' = k /\ sql' = sql
      BY <2>1 DEF vars, Steady, MarksOnly
    <3>3. FromExact'
      <4>1. \A j \in DOMAIN sql.from : OnExact(sql.from[j])'
        BY <1>1, <3>1, <3>2, OnKept DEF ExactInv, FromExact
      <4> QED BY <3>2, <4>1 DEF FromExact
    <3>4. PredExact'
      <4>1. \A n : PredsUpTo(n)' = PredsUpTo(n) BY <1>1, <3>2, PredsStay
      <4>2. edges' = edges BY <3>2 DEF Steady
      <4> QED BY <3>1, <3>2, <4>1, <4>2 DEF ExactInv, PredExact
    <3>5. WithExact'
      <4>1. query' = query /\ edges' = edges BY <3>2 DEF Steady
      <4>2. Engine' = Engine /\ ReadMax' = ReadMax BY <4>1, QueryStays DEF ReadMax, Rel
      <4> QED BY <3>1, <3>2, <4>1, <4>2 DEF ExactInv, WithExact
    <3> QED BY <3>3, <3>4, <3>5 DEF ExactInv
  <2>2. CASE Next
    <3>1. CASE pc \in Unbound BY <1>1, <1>4, <2>2, <3>1, Opens, ExactFresh
    <3>2. CASE pc \in Emitting
      <4>1. pc' # "failed" BY <1>4 DEF Emitting
      <4>2. LInv /\ EInv /\ ExactInv BY <1>1, <3>2 DEF StatedInv, DInv
      <4> QED BY <2>2, <3>2, <4>1, <4>2, ExactStep
    <3>3. CASE pc = "failed"
      <4>1. pc' = "failed" BY <2>2, <3>3, FailedStays
      <4> QED BY <1>4, <4>1 DEF Emitting
    <3> QED BY <1>1, <3>1, <3>2, <3>3, PcIs
  <2> QED BY <2>1, <2>2
<1>5. NodesInv'
  <2>1. TInv /\ Found /\ NodesInv BY <1>1 DEF StatedInv, DInv
  <2> QED BY <2>1, NodesStep
<1> QED BY <1>1, <1>2, <1>3, <1>4, <1>5 DEF StatedInv

\* So it holds throughout.
LEMMA Stating == Spec => []StatedInv
BY StatedInit, StatedStep, PTL DEF Spec

\* transform.c:2-52: SameAnswer, for every catalog, name map, set of queries and
\* databases.  If the bounds of a variable length are numbers that fit (BoundsFit),
\* the names mean one thing (WellNamed) and no relationship is from a variable to
\* itself, then on every database the rows of the finished statement that use no
\* relationship twice are the matches of the pattern, once each and nothing else,
\* and give the answer of the query where equal relationships need not be told
\* apart (TellsApart); the page is the query's.  For an undirected hop whose ends
\* nothing tells apart (~CountsMatches), they show the same, but not as often.
THEOREM StatementAnswers == Spec => [](BoundsFit => SameAnswer)
<1>1. StatedInv => (BoundsFit => SameAnswer)
  <2> SUFFICES ASSUME StatedInv, BoundsFit, pc = "done"
               PROVE  SameAnswer
    BY DEF SameAnswer
  <2>1. pc \in Emitting
    BY DEF Emitting
  <2>2. ClausesInv /\ ExactInv /\ AcceptedInv /\ EndsInv /\ NodesInv
    BY <2>1 DEF StatedInv
  <2>3. CASE Engine = "directed"
    BY <2>2, <2>3, DirectedAnswers
  <2>4. CASE Engine # "directed"
    BY <2>2, <2>4, HopAnswers
  <2> QED  BY <2>3, <2>4
<1> QED  BY <1>1, Stating, PTL
=============================================================================
