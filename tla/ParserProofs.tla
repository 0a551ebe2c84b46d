---------------------------- MODULE ParserProofs ----------------------------
(***************************************************************************)
(* Proofs about Parser, for every set of statements, slips and phrases.    *)
(***************************************************************************)
EXTENDS Parser, FiniteSetTheorems, WellFoundedInduction, SequenceTheorems, TLAPS

-----------------------------------------------------------------------------
(* Positions and recursion *)

\* A nonempty set of naturals has a first one.
LEMMA FirstExists ==
  ASSUME NEW H \in SUBSET Nat, H # {}
  PROVE  \E j \in H : \A m \in H : j <= m
<1> DEFINE Less == {pair \in Nat \X Nat : pair[1] < pair[2]}
<1>1. IsWellFoundedOn(Less, Nat)
  BY NatLessThanWellFounded DEF OpToRel
<1>2. PICK j \in H : \A m \in H : <<m, j>> \notin Less
  <2> HIDE DEF Less
  <2> QED  BY <1>1, WFMin
<1>3. \A m, n \in Nat : <<m, n>> \notin Less => n <= m
  OBVIOUS
<1> HIDE DEF Less
<1> QED  BY <1>2, <1>3

\* Induction along positions: what holds of the first, and of each after one
\* of which it holds, holds of all.
LEMMA Induction ==
  ASSUME NEW n \in Nat, NEW S,
         n > 0 => 1 \in S,
         \A k \in 1 .. n - 1 : k \in S => k + 1 \in S
  PROVE  1 .. n \subseteq S
<1> SUFFICES ASSUME (1 .. n) \ S # {} PROVE FALSE
  OBVIOUS
<1>1. PICK j \in (1 .. n) \ S : \A m \in (1 .. n) \ S : j <= m
  <2>1. (1 .. n) \ S \in SUBSET Nat
    OBVIOUS
  <2> QED  BY <2>1, FirstExists
<1> QED  BY <1>1, j - 1 \in 0 .. n - 1, j - 1 \notin (1 .. n) \ S, j - 1 + 1 = j

\* Recursion: a rule G for the value at d, which looks at values of lower rank
\* only, is kept by some function.
IsRule(G, D, V, rank, N) ==
  /\ V # {} /\ N \in Nat /\ rank \in [D -> 1 .. N]
  /\ G \in [D \X [D -> V] -> V]
  /\ \A d \in D : \A f, h \in [D -> V] :
       (\A e \in D : rank[e] < rank[d] => f[e] = h[e]) => G[<<d, f>>] = G[<<d, h>>]
IsKept(G, D, V) == \E f \in [D -> V] : \A d \in D : f[d] = G[<<d, f>>]

\* What is defined by such a rule exists.
LEMMA Recursion ==
  \A G, D, V, rank, N : IsRule(G, D, V, rank, N) => IsKept(G, D, V)
<1> SUFFICES ASSUME NEW G, NEW D, NEW V, NEW rank, NEW N, IsRule(G, D, V, rank, N)
             PROVE  IsKept(G, D, V)
  OBVIOUS
<1> USE DEF IsRule
<1> DEFINE Kept(f, m) == \A d \in D : rank[d] <= m => f[d] = G[<<d, f>>]
           Missed == {m \in 0 .. N : ~ \E f \in [D -> V] : Kept(f, m)}
<1>1. ASSUME NEW m \in 0 .. N - 1, NEW f \in [D -> V], Kept(f, m)
      PROVE  \E h \in [D -> V] : Kept(h, m + 1)
  <2> DEFINE h == [d \in D |-> IF rank[d] <= m THEN f[d] ELSE G[<<d, f>>]]
  <2>1. /\ h \in [D -> V]
        /\ \A d \in D : rank[d] <= m => h[d] = f[d]
        /\ \A d \in D : rank[d] > m => h[d] = G[<<d, f>>]
        /\ \A d \in D : rank[d] \in 1 .. N
    OBVIOUS
  <2> HIDE DEF h
  <2>2. ASSUME NEW d \in D, rank[d] <= m + 1
        PROVE  h[d] = G[<<d, h>>]
    <3>1. \A e \in D : rank[e] < rank[d] => f[e] = h[e]
      BY <2>1, <2>2
    <3>2. G[<<d, f>>] = G[<<d, h>>]
      BY <2>1, <3>1
    <3> QED  BY <1>1, <2>1, <3>2
  <2> QED  BY <2>1, <2>2
<1>2. 0 \notin Missed
  <2>1. \A d \in D : ~(rank[d] <= 0)
    OBVIOUS
  <2>2. PICK v \in V : TRUE
    OBVIOUS
  <2>3. [d \in D |-> v] \in [D -> V]
    BY <2>2
  <2>4. \E f \in [D -> V] : Kept(f, 0)
    BY <2>1, <2>3
  <2> HIDE DEF Kept
  <2> QED  BY <2>4
<1>3. Missed = {}
  <2>1. SUFFICES ASSUME Missed # {} PROVE FALSE
    OBVIOUS
  <2>2. Missed \in SUBSET Nat
    OBVIOUS
  <2>3. PICK j \in Missed : \A m \in Missed : j <= m
    <3> HIDE DEF Missed
    <3> QED  BY <2>1, <2>2, FirstExists
  <2>4. j - 1 \in 0 .. N - 1 /\ j - 1 \notin Missed /\ j - 1 + 1 = j
    <3>1. j \in 1 .. N
      BY <1>2, <2>3
    <3>2. j - 1 \in 0 .. N - 1 /\ j - 1 + 1 = j /\ ~(j <= j - 1)
      BY <3>1
    <3> HIDE DEF Missed
    <3> QED  BY <2>3, <3>2
  <2> HIDE DEF Kept
  <2> QED  BY <1>1, <2>3, <2>4
<1>4. PICK f \in [D -> V] : Kept(f, N)
  <2> HIDE DEF Kept
  <2> QED  BY <1>3
<1> QED  BY <1>4 DEF IsKept


-----------------------------------------------------------------------------
(* The automaton *)

\* The states of the stack: below its first symbol there is the start state.
StateAt(k) == IF k = 0 THEN Start(Cypher) ELSE stack[k].state

Rhs(p) == Productions[p].rhs

\* What an item is.
LEMMA ItemIs ==
  ASSUME NEW p, NEW d
  PROVE  LET i == Item(Productions, p, d) IN
         i.p = p /\ i.d = d /\ i.next = IF d = Len(Rhs(p)) THEN NONE ELSE Rhs(p)[d + 1]
BY DEF Item, Rhs

\* An item, and the symbol behind its dot.
LEMMA ItemsAre ==
  ASSUME NEW i \in Items
  PROVE  /\ i.p \in DOMAIN Productions /\ i.p \in Nat
         /\ Len(Rhs(i.p)) \in Nat /\ DOMAIN Rhs(i.p) = 1 .. Len(Rhs(i.p))
         /\ i.d \in 0 .. Len(Rhs(i.p))
         /\ i = Item(Productions, i.p, i.d)
         /\ i.next = IF i.d = Len(Rhs(i.p)) THEN NONE ELSE Rhs(i.p)[i.d + 1]
<1>0. PICK p \in DOMAIN Productions :
        i \in {Item(Productions, p, d) : d \in 0 .. Len(Productions[p].rhs)}
  BY DEF Items
<1>1. PICK d \in 0 .. Len(Productions[p].rhs) : i = Item(Productions, p, d)
  BY <1>0
<1>2. i.p = p /\ i.d = d /\ i.next = IF d = Len(Rhs(p)) THEN NONE ELSE Rhs(p)[d + 1]
  BY <1>1, ItemIs
<1>3. Rhs(p) \in Seq(STRING) /\ p \in Nat
  BY GrammarAssumption DEF Rhs
<1>4. Len(Rhs(p)) \in Nat /\ DOMAIN Rhs(p) = 1 .. Len(Rhs(p))
  BY <1>3, LenProperties
<1> QED  BY <1>1, <1>2, <1>3, <1>4 DEF Rhs

\* An item that stands before a symbol is not complete.
LEMMA ItemNext ==
  ASSUME NEW i \in Items, i.next # NONE
  PROVE  i.d + 1 \in DOMAIN Rhs(i.p) /\ i.next = Rhs(i.p)[i.d + 1]
BY ItemsAre

\* And a complete one has read its whole production.
LEMMA ItemComplete ==
  ASSUME NEW i \in Items, i.next = NONE
  PROVE  i.d = Len(Rhs(i.p))
<1>1. SUFFICES ASSUME i.d # Len(Rhs(i.p)) PROVE FALSE
  OBVIOUS
<1>2. i.d + 1 \in DOMAIN Rhs(i.p) /\ Rhs(i.p)[i.d + 1] = NONE /\ i.p \in DOMAIN Productions
  BY <1>1, ItemsAre
<1> QED  BY <1>2, GrammarAssumption DEF Rhs

\* The grammar the automaton is built from, and the items its closures add.
LEMMA BegunIs ==
  /\ DOMAIN Cypher.begun = Lhs(Productions)
  /\ Cypher.productions = Productions
  /\ \A m \in Lhs(Productions) : \A i \in Cypher.begun[m] :
       \E p \in DOMAIN Productions : i = Item(Productions, p, 0)
<1> DEFINE corners == Corners(Productions)
           fresh(m) == {p \in DOMAIN Productions : <<m, Productions[p].lhs>> \in corners}
           begun == [m \in Lhs(Productions) |-> {Item(Productions, p, 0) : p \in fresh(m)}]
<1>1. Cypher = [productions |-> Productions, levels |-> Levels, begun |-> begun]
  BY DEF Cypher, TheGrammar
<1> QED  BY <1>1

\* What a symbol leads to: an item that has read something has read that symbol.
LEMMA GotoBack ==
  ASSUME NEW s \in SUBSET Items, NEW x, x # NONE,
         NEW i \in Goto(Cypher, s, x), i.d # 0
  PROVE  /\ i.d - 1 \in 0 .. Len(Rhs(i.p)) /\ i.d \in DOMAIN Rhs(i.p)
         /\ Rhs(i.p)[i.d] = x
         /\ Item(Productions, i.p, i.d - 1) \in s
<1> DEFINE kernel == {Item(Productions, j.p, j.d + 1) : j \in {j \in s : j.next = x}}
<1>1. Goto(Cypher, s, x) = Closure(Cypher, kernel)
  BY BegunIs DEF Goto
<1>2. i \in kernel
  <2>1. SUFFICES ASSUME NEW j \in kernel, j.next \in Lhs(Productions),
                        i \in Cypher.begun[j.next]
                 PROVE  FALSE
    BY <1>1, BegunIs DEF Closure
  <2> QED  BY <2>1, BegunIs, ItemIs
<1>3. PICK j \in s : j.next = x /\ i = Item(Productions, j.p, j.d + 1)
  BY <1>2
<1>4. j \in Items
  OBVIOUS
<1>5. j.d + 1 \in DOMAIN Rhs(j.p) /\ x = Rhs(j.p)[j.d + 1]
  BY <1>3, <1>4, ItemNext
<1>6. i.p = j.p /\ i.d = j.d + 1
  BY <1>3, ItemIs
<1>7. j.d \in 0 .. Len(Rhs(j.p)) /\ j = Item(Productions, j.p, j.d)
  BY <1>4, ItemsAre
<1> QED  BY <1>5, <1>6, <1>7

\* What begins a production stands behind its left-hand side's turn: but for
\* the first production, some item is before that nonterminal.
LEMMA Begins ==
  ASSUME NEW kernel, NEW i \in Closure(Cypher, kernel), i \notin kernel
  PROVE  /\ i.d = 0
         /\ \E j \in Closure(Cypher, kernel) : j.next = Productions[i.p].lhs
<1>1. PICK k \in kernel : k.next \in Lhs(Productions) /\ i \in Cypher.begun[k.next]
  BY BegunIs DEF Closure
<1>2. i.d = 0
  BY <1>1, BegunIs, ItemIs
<1>3. \A j \in Cypher.begun[k.next] : j \in Closure(Cypher, kernel)
  BY <1>1, BegunIs DEF Closure
<1>4. k \in Closure(Cypher, kernel)
  BY DEF Closure
<1>5. \/ Productions[i.p].lhs = k.next
      \/ \E j \in Cypher.begun[k.next] : j.next = Productions[i.p].lhs
  BY <1>1, GrammarAssumption
<1> QED  BY <1>2, <1>3, <1>4, <1>5

\* Where nothing is read every item is at its start.
LEMMA StartItems ==
  ASSUME NEW i \in Start(Cypher)
  PROVE  i.d = 0 /\ (i = Item(Productions, 1, 0)
                    \/ \E j \in Start(Cypher) : j.next = Productions[i.p].lhs)
<1> DEFINE kernel == {Item(Productions, 1, 0)}
<1>1. Start(Cypher) = Closure(Cypher, kernel)
  BY BegunIs DEF Start
<1>2. CASE i \in kernel
  BY <1>2, ItemIs
<1>3. CASE i \notin kernel
  <2> HIDE DEF kernel
  <2> QED  BY <1>1, <1>3, Begins
<1> QED  BY <1>2, <1>3

\* An item that has read nothing, in a state some symbol leads to: its
\* left-hand side's turn is in that state as well.
LEMMA GotoBegins ==
  ASSUME NEW s \in SUBSET Items, NEW x, NEW i \in Goto(Cypher, s, x), i.d = 0
  PROVE  \E j \in Goto(Cypher, s, x) : j.next = Productions[i.p].lhs
<1> DEFINE kernel == {Item(Productions, j.p, j.d + 1) : j \in {j \in s : j.next = x}}
<1>1. Goto(Cypher, s, x) = Closure(Cypher, kernel)
  BY BegunIs DEF Goto
<1>2. i \notin kernel
  <2>1. SUFFICES ASSUME NEW j \in s, i = Item(Productions, j.p, j.d + 1) PROVE FALSE
    OBVIOUS
  <2>2. i.d = j.d + 1 /\ j.d \in Nat
    BY <2>1, ItemIs, ItemsAre
  <2> QED  BY <2>2
<1> HIDE DEF kernel
<1> QED  BY <1>1, <1>2, Begins

-----------------------------------------------------------------------------
(* The stack spells a path of the automaton *)

Symbols == Written \cup {End} \cup (Lhs(Productions) \ {"$accept"})

Path ==
  /\ stack \in Seq(Range(stack))
  /\ \A k \in 1 .. Len(stack) :
       /\ stack[k].symbol \in Symbols
       /\ stack[k].state = Goto(Cypher, StateAt(k - 1), stack[k].symbol)
       /\ stack[k].state \in Automaton /\ stack[k].state # {}

\* No symbol of the grammar is the mark for none.
LEMMA SymbolsAre == NONE \notin Symbols /\ "$accept" \notin Lhs(Productions) \ {"$accept"}
<1>1. NONE \notin Lhs(Productions)
  BY GrammarAssumption DEF Lhs
<1>2. NONE # End
  BY DEF NONE, End
<1> QED  BY <1>1, <1>2, TextAssumption DEF Symbols

\* The states on the path, each reached from the one below it.
LEMMA StatesAre ==
  ASSUME Path, NEW k \in 0 .. Len(stack)
  PROVE  /\ Len(stack) \in Nat /\ DOMAIN stack = 1 .. Len(stack)
         /\ StateAt(k) \in Automaton /\ StateAt(k) \subseteq Items
         /\ k # 0 => /\ k - 1 \in 0 .. Len(stack)
                     /\ StateAt(k) = Goto(Cypher, StateAt(k - 1), stack[k].symbol)
                     /\ stack[k].symbol \in Symbols /\ stack[k].symbol # NONE
<1>1. Len(stack) \in Nat /\ DOMAIN stack = 1 .. Len(stack)
  BY LenProperties DEF Path
<1>2. k # 0 => k \in 1 .. Len(stack) /\ k - 1 \in 0 .. Len(stack)
  BY <1>1
<1>3. StateAt(k) \in Automaton
  BY <1>2, AutomatonAssumption DEF StateAt, Path
<1>4. StateAt(k) \subseteq Items
  BY <1>3, AutomatonAssumption
<1> QED  BY <1>1, <1>2, <1>3, <1>4, SymbolsAre DEF StateAt, Path

\* What an item has read of its production is on top of the stack, and below
\* it the production was begun.
LEMMA Handle ==
  ASSUME Path, NEW k \in 0 .. Len(stack), NEW i \in StateAt(k)
  PROVE  /\ i \in Items /\ i.d \in 0 .. k /\ i.d <= Len(Rhs(i.p))
         /\ \A j \in 1 .. i.d : stack[k - i.d + j].symbol = Rhs(i.p)[j]
         /\ Item(Productions, i.p, 0) \in StateAt(k - i.d)
<1> DEFINE d == i.d
           back(m) == /\ m <= k /\ Item(Productions, i.p, d - m) \in StateAt(k - m)
                      /\ \A j \in d - m + 1 .. d : stack[k - d + j].symbol = Rhs(i.p)[j]
           S == {e \in 1 .. d + 1 : back(e - 1)}
<1>1. i \in Items /\ d \in Nat /\ d <= Len(Rhs(i.p)) /\ i = Item(Productions, i.p, d)
  BY StatesAre, ItemsAre
<1>2. back(0)
  BY <1>1
<1>3. ASSUME NEW m \in 0 .. d - 1, back(m)
      PROVE  back(m + 1)
  <2> DEFINE h == Item(Productions, i.p, d - m)
  <2>1. h.p = i.p /\ h.d = d - m /\ h.d # 0 /\ h \in StateAt(k - m)
    BY <1>1, <1>3, ItemIs
  <2> HIDE DEF h
  <2>2. k - m \in 0 .. Len(stack)
    BY <1>3, StatesAre
  <2>3. k - m # 0
    <3>1. SUFFICES ASSUME k - m = 0 PROVE FALSE
      OBVIOUS
    <3> QED  BY <2>1, <3>1, StartItems DEF StateAt
  <2>4. /\ StateAt(k - m) = Goto(Cypher, StateAt(k - m - 1), stack[k - m].symbol)
        /\ StateAt(k - m - 1) \in SUBSET Items /\ stack[k - m].symbol # NONE
    BY <2>2, <2>3, StatesAre
  <2>5. /\ Rhs(i.p)[d - m] = stack[k - m].symbol
        /\ Item(Productions, i.p, d - m - 1) \in StateAt(k - m - 1)
    BY <2>1, <2>4, GotoBack
  <2>6. \A j \in d - (m + 1) + 1 .. d : stack[k - d + j].symbol = Rhs(i.p)[j]
    <3>1. \A j \in d - (m + 1) + 1 .. d : j = d - m \/ j \in d - m + 1 .. d
      BY <1>1
    <3>2. k - d + (d - m) = k - m
      BY <1>1
    <3> QED  BY <1>3, <2>5, <3>1, <3>2
  <2>7. m + 1 <= k /\ d - (m + 1) = d - m - 1 /\ k - (m + 1) = k - m - 1
    BY <1>1, <2>2, <2>3
  <2> QED  BY <2>5, <2>6, <2>7
<1> HIDE DEF back, d
<1>4. 1 .. d + 1 \subseteq S
  <2>1. 1 \in S
    BY <1>1, <1>2
  <2>2. \A e \in 1 .. (d + 1) - 1 : e \in S => e + 1 \in S
    <3>1. \A e \in 1 .. (d + 1) - 1 : e - 1 \in 0 .. d - 1 /\ (e - 1) + 1 = e /\ (e + 1) - 1 = e
                                      /\ e + 1 \in 1 .. d + 1
      BY <1>1
    <3> QED  BY <1>3, <3>1
  <2>3. d + 1 \in Nat
    BY <1>1
  <2> HIDE DEF S
  <2> QED  BY <2>1, <2>2, <2>3, Induction
<1>5. back(d)
  BY <1>1, <1>4
<1> QED  BY <1>1, <1>5 DEF back, d

\* Where a production is begun its left-hand side can follow; the first one is
\* begun at the bottom only.
LEMMA Below ==
  ASSUME Path, NEW k \in 0 .. Len(stack), NEW p \in DOMAIN Productions,
         Item(Productions, p, 0) \in StateAt(k)
  PROVE  /\ p = 1 => k = 0
         /\ p # 1 => \E j \in StateAt(k) : j.next = Productions[p].lhs
<1> DEFINE i == Item(Productions, p, 0)
<1>1. i.p = p /\ i.d = 0
  BY ItemIs
<1> HIDE DEF i
<1>2. CASE k = 0
  BY <1>1, <1>2, StartItems, ItemIs DEF StateAt, i
<1>3. CASE k # 0
  <2>1. \E j \in StateAt(k) : j.next = Productions[p].lhs
    BY <1>1, <1>3, StatesAre, GotoBegins DEF i
  <2>2. p # 1
    <3>1. SUFFICES ASSUME p = 1 PROVE FALSE
      OBVIOUS
    <3>2. PICK j \in StateAt(k) : j.next = "$accept"
      BY <2>1, <3>1, GrammarAssumption
    <3>3. j \in Items /\ j.next # NONE
      BY <3>2, StatesAre DEF NONE
    <3> QED  BY <3>2, <3>3, ItemNext, ItemsAre, GrammarAssumption DEF Rhs
  <2> QED  BY <2>1, <2>2
<1> QED  BY <1>2, <1>3

\* The state on top.
LEMMA TopIs == ASSUME Path PROVE Top = StateAt(Len(stack))
<1>1. Len(stack) \in Nat /\ (stack = <<>> <=> Len(stack) = 0)
  BY EmptySeq, LenProperties DEF Path
<1> QED  BY <1>1 DEF Top, StateAt, Last

\* A symbol that can follow is pushed on the first m symbols of the stack.
Push(m, x, v) ==
  stack' = Append(SubSeq(stack, 1, m),
                  [symbol |-> x, value |-> v, state |-> Goto(Cypher, StateAt(m), x)])

\* One symbol pushed on what is left of the stack keeps the path.
LEMMA Pushed ==
  ASSUME Path, NEW m \in 0 .. Len(stack), NEW x \in Symbols, NEW v,
         NEW j \in StateAt(m), j.next = x, Push(m, x, v)
  PROVE  /\ Path' /\ Len(stack') = m + 1 /\ DOMAIN stack' = 1 .. m + 1
         /\ \A k \in 1 .. m : stack'[k] = stack[k]
         /\ stack'[m + 1].symbol = x /\ stack'[m + 1].value = v
<1> DEFINE g == Goto(Cypher, StateAt(m), x)
           e == [symbol |-> x, value |-> v, state |-> g]
           low == SubSeq(stack, 1, m)
           R == Range(stack) \cup {e}
<1>1. /\ low \in Seq(R) /\ Len(low) = m /\ \A k \in 1 .. m : low[k] = stack[k]
  <2>1. \A k \in 1 .. m : stack[k] \in R
    BY LenProperties DEF Path
  <2>2. m \in Nat /\ 1 \in Int /\ m \in Int
    BY LenProperties DEF Path
  <2> HIDE DEF R
  <2>3. /\ low \in Seq(R) /\ Len(low) = IF 1 <= m THEN m - 1 + 1 ELSE 0
        /\ \A k \in 1 .. m - 1 + 1 : low[k] = stack[1 + k - 1]
    BY <2>1, <2>2, SubSeqProperties
  <2> QED  BY <2>2, <2>3
<1>2. /\ stack' \in Seq(R) /\ Len(stack') = m + 1
      /\ \A k \in 1 .. m : stack'[k] = stack[k]
      /\ stack'[m + 1] = e
  <2>1. e \in R /\ stack' = Append(low, e)
    BY DEF Push
  <2> HIDE DEF R, low, e
  <2> QED  BY <1>1, <2>1, AppendProperties
<1>3. stack' \in Seq(Range(stack')) /\ DOMAIN stack' = 1 .. m + 1 /\ m \in Nat
  <2> HIDE DEF R
  <2> QED  BY <1>2, SeqOfRange, LenProperties DEF Path
<1>4. g \in Automaton
  BY StatesAre, AutomatonAssumption, SymbolsAre
<1>5. g # {}
  <2>1. Item(Productions, j.p, j.d + 1) \in g
    BY BegunIs DEF Goto, Closure
  <2> QED  BY <2>1
<1> HIDE DEF g
<1>6. \A k \in 0 .. m : StateAt(k)' = StateAt(k)
  BY <1>2, <1>3 DEF StateAt
<1>7. ASSUME NEW k \in 1 .. m + 1
      PROVE  /\ stack'[k].symbol \in Symbols
             /\ stack'[k].state = Goto(Cypher, StateAt(k - 1)', stack'[k].symbol)
             /\ stack'[k].state \in Automaton /\ stack'[k].state # {}
  <2>1. StateAt(k - 1)' = StateAt(k - 1)
    BY <1>3, <1>6
  <2>2. CASE k \in 1 .. m
    <3>1. k \in 1 .. Len(stack)
      BY <1>3, <2>2, LenProperties DEF Path
    <3>2. stack'[k] = stack[k]
      BY <1>2, <2>2
    <3> QED  BY <2>1, <3>1, <3>2 DEF Path
  <2>3. CASE k = m + 1
    BY <1>2, <1>3, <1>4, <1>5, <2>1, <2>3 DEF g
  <2> QED  BY <1>3, <2>2, <2>3
<1> QED  BY <1>2, <1>3, <1>7 DEF Path

\* What a state that can reduce reduces: the production is on top of the stack.
LEMMA Reducing ==
  ASSUME Path, Complete(Top) # {}
  PROVE  LET p == TheComplete(Top) IN
         /\ p \in DOMAIN Productions /\ Reduced(Cypher, Top) = Productions[p]
         /\ Len(Rhs(p)) \in 0 .. Len(stack) /\ DOMAIN Rhs(p) = 1 .. Len(Rhs(p))
         /\ \A j \in 1 .. Len(Rhs(p)) :
              stack[Len(stack) - Len(Rhs(p)) + j].symbol = Rhs(p)[j]
         /\ Item(Productions, p, 0) \in StateAt(Len(stack) - Len(Rhs(p)))
<1> DEFINE p == TheComplete(Top)
           n == Len(stack)
<1>1. n \in 0 .. Len(stack)
  BY LenProperties DEF Path
<1>2. PICK i \in StateAt(n) : i.next = NONE /\ i.p = p
  <2>1. p \in Complete(Top)
    BY DEF TheComplete
  <2> HIDE DEF p
  <2> QED  BY <2>1, TopIs DEF Complete
<1>3. i \in Items /\ i.d = Len(Rhs(p))
  BY <1>1, <1>2, StatesAre, ItemComplete
<1>4. p \in DOMAIN Productions /\ DOMAIN Rhs(p) = 1 .. Len(Rhs(p))
  BY <1>2, <1>3, ItemsAre
<1>5. Reduced(Cypher, Top) = Productions[p]
  BY BegunIs DEF Reduced
<1> HIDE DEF p, n
<1>6. /\ i.d \in 0 .. n
      /\ \A j \in 1 .. i.d : stack[n - i.d + j].symbol = Rhs(p)[j]
      /\ Item(Productions, p, 0) \in StateAt(n - i.d)
  BY <1>1, <1>2, Handle
<1> QED  BY <1>3, <1>4, <1>5, <1>6 DEF p, n

\* The first production is reduced when the stack is a statement and its end.
LEMMA Accepting ==
  ASSUME Path, Complete(Top) # {}, Reduced(Cypher, Top).lhs = "$accept"
  PROVE  /\ Len(stack) = 2
         /\ stack[1].symbol = "statement" /\ stack[2].symbol = End
<1> DEFINE p == TheComplete(Top)
<1>1. p = 1
  BY Reducing, GrammarAssumption
<1>2. Rhs(1)[1] = "statement" /\ Rhs(1)[2] = End /\ Len(Rhs(1)) = 2
  BY GrammarAssumption DEF Rhs
<1>3. Len(stack) \in Nat
  BY LenProperties DEF Path
<1>4. /\ 2 \in 0 .. Len(stack)
      /\ \A j \in 1 .. 2 : stack[Len(stack) - 2 + j].symbol = Rhs(1)[j]
      /\ Item(Productions, 1, 0) \in StateAt(Len(stack) - 2)
  BY <1>1, <1>2, Reducing
<1>5. Len(stack) - 2 = 0
  <2>1. Len(stack) - 2 \in 0 .. Len(stack)
    BY <1>3, <1>4
  <2> QED  BY <1>4, <2>1, Below, GrammarAssumption
<1>6. Len(stack) - 2 + 1 = 1 /\ Len(stack) - 2 + 2 = 2 /\ Len(stack) = 2
  BY <1>3, <1>5
<1>7. 1 \in 1 .. 2 /\ 2 \in 1 .. 2
  OBVIOUS
<1> QED  BY <1>2, <1>4, <1>6, <1>7

\* The end of the text is shifted on a statement only, and then nothing is left
\* to do but to accept.
LEMMA EndIsLast ==
  ASSUME Path, NEW k \in 1 .. Len(stack), stack[k].symbol = End
  PROVE  k = Len(stack) /\ Consistent(Cypher, Top)
<1> DEFINE s == StateAt(k - 1)
           kernel(x, y) == {Item(Productions, j.p, j.d + 1) : j \in {j \in x : j.next = y}}
           last == Item(Productions, 1, 2)
<1>1. /\ Len(stack) \in Nat /\ s \subseteq Items /\ StateAt(k) = Goto(Cypher, s, End)
      /\ StateAt(k) # {} /\ k \in 0 .. Len(stack)
  <2>1. Len(stack) \in Nat
    BY LenProperties DEF Path
  <2>2. k \in 0 .. Len(stack) /\ k - 1 \in 0 .. Len(stack) /\ k # 0
    BY <2>1
  <2> QED  BY <2>1, <2>2, StatesAre DEF Path, StateAt
<1>2. Len(Rhs(1)) = 2 /\ Rhs(1)[1] = "statement" /\ Rhs(1)[2] = End /\ End # "statement"
      /\ End # NONE
  BY GrammarAssumption DEF Rhs, End, NONE
<1>3. last.next = NONE /\ last.p = 1
  <2>1. last.p = 1 /\ last.next = IF 2 = Len(Rhs(1)) THEN NONE ELSE Rhs(1)[2 + 1]
    BY ItemIs
  <2> QED  BY <1>2, <2>1
<1>4. ASSUME NEW j \in s, j.next = End
      PROVE  Item(Productions, j.p, j.d + 1) = last
  <2>1. j.d + 1 \in DOMAIN Rhs(j.p) /\ Rhs(j.p)[j.d + 1] = End /\ j.p \in DOMAIN Productions
        /\ DOMAIN Rhs(j.p) = 1 .. Len(Rhs(j.p)) /\ j.d \in Nat
    BY <1>1, <1>2, <1>4, ItemNext, ItemsAre
  <2>2. j.p = 1
    BY <2>1, GrammarAssumption DEF Rhs
  <2>3. j.d + 1 = 2
    BY <1>2, <2>1, <2>2
  <2> QED  BY <2>2, <2>3
<1>5. kernel(s, End) \subseteq {last}
  BY <1>4
<1>6. \A x, y : Goto(Cypher, x, y) = Closure(Cypher, kernel(x, y))
  BY BegunIs DEF Goto
<1>7. NONE \notin Lhs(Productions)
  BY GrammarAssumption DEF Lhs
<1> HIDE DEF last
<1>8. \A K : K \subseteq {last} => Closure(Cypher, K) = K
  BY <1>3, <1>7, BegunIs DEF Closure
<1>9. StateAt(k) = {last}
  <2> HIDE DEF kernel
  <2> QED  BY <1>1, <1>5, <1>6, <1>8
<1>10. k = Len(stack)
  <2>1. SUFFICES ASSUME k # Len(stack) PROVE FALSE
    OBVIOUS
  <2>2. /\ k + 1 \in 1 .. Len(stack) /\ k + 1 \in 0 .. Len(stack) /\ k + 1 # 0
        /\ (k + 1) - 1 = k
    BY <1>1, <2>1
  <2>3. /\ StateAt(k + 1) = Goto(Cypher, {last}, stack[k + 1].symbol)
        /\ stack[k + 1].symbol # NONE
    BY <1>9, <2>2, StatesAre
  <2>4. kernel({last}, stack[k + 1].symbol) = {}
    BY <1>3, <2>3
  <2>5. StateAt(k + 1) = {}
    <3> HIDE DEF kernel
    <3> QED  BY <1>6, <1>8, <2>3, <2>4
  <2> QED  BY <2>2, <2>5 DEF Path, StateAt
<1>11. Consistent(Cypher, {last})
  BY <1>3, BegunIs DEF Consistent, Complete
<1> QED  BY <1>9, <1>10, <1>11, TopIs

-----------------------------------------------------------------------------
(* Sequences of strings *)

Ids == Seq(Nat)
Ascending(s) == \A i, j \in DOMAIN s : i < j => s[i] < s[j]
Precedes(s, t) == \A a \in Range(s), b \in Range(t) : a < b
NoneTwice(s) == \A i, j \in DOMAIN s : s[i] = s[j] => i = j

\* A sequence of strings' identities,
LEMMA IdsAre ==
  ASSUME NEW s \in Ids
  PROVE  /\ Len(s) \in Nat /\ DOMAIN s = 1 .. Len(s)
         /\ \A i \in DOMAIN s : s[i] \in Nat
         /\ Range(s) \subseteq Nat
         /\ \A a : a \in Range(s) <=> \E i \in DOMAIN s : a = s[i]
         /\ Ascending(s) => NoneTwice(s)
         /\ Range(s) = {} <=> s = <<>>
<1>1. Len(s) \in Nat /\ DOMAIN s = 1 .. Len(s) /\ \A i \in DOMAIN s : s[i] \in Nat
  BY LenProperties DEF Ids
<1>2. \A a : a \in Range(s) <=> \E i \in DOMAIN s : a = s[i]
  BY DEF Range
<1>3. Ascending(s) => NoneTwice(s)
  BY <1>1 DEF Ascending, NoneTwice
<1>4. Range(s) = {} <=> s = <<>>
  <2>1. s # <<>> => 1 \in DOMAIN s
    BY <1>1, EmptySeq DEF Ids
  <2>2. DOMAIN <<>> = {}
    OBVIOUS
  <2> QED  BY <1>2, <2>1, <2>2
<1> QED  BY <1>1, <1>2, <1>3, <1>4

\* the empty one,
LEMMA NoIds == <<>> \in Ids /\ Ascending(<<>>) /\ NoneTwice(<<>>) /\ Range(<<>>) = {}
BY EmptySeq DEF Ids, Ascending, NoneTwice, Range

\* and one of a single string.
LEMMA OneId ==
  ASSUME NEW n \in Nat
  PROVE  <<n>> \in Ids /\ Ascending(<<n>>) /\ Range(<<n>>) = {n}
BY DEF Ids, Ascending, Range

\* Two sequences one behind the other.
LEMMA ConcatIs ==
  ASSUME NEW s \in Ids, NEW t \in Ids
  PROVE  /\ s \o t \in Ids /\ Range(s \o t) = Range(s) \cup Range(t)
         /\ Ascending(s) /\ Ascending(t) /\ Precedes(s, t) => Ascending(s \o t)
         /\ NoneTwice(s) /\ NoneTwice(t) /\ Range(s) \cap Range(t) = {} => NoneTwice(s \o t)
         /\ s \o <<>> = s /\ <<>> \o t = t
<1> DEFINE u == s \o t
<1>1. /\ u \in Ids /\ Len(u) = Len(s) + Len(t)
      /\ \A i \in 1 .. Len(s) + Len(t) : u[i] = IF i <= Len(s) THEN s[i] ELSE t[i - Len(s)]
  BY ConcatProperties DEF Ids
<1>2. Range(u) = Range(s) \cup Range(t)
  BY RangeConcatenation DEF Ids
<1>3. /\ Len(s) \in Nat /\ DOMAIN s = 1 .. Len(s) /\ Len(t) \in Nat /\ DOMAIN t = 1 .. Len(t)
      /\ DOMAIN u = 1 .. Len(s) + Len(t)
  BY <1>1, IdsAre
<1> HIDE DEF u
<1>4. ASSUME NEW i \in DOMAIN u
      PROVE  \/ i \in DOMAIN s /\ u[i] = s[i] /\ u[i] \in Range(s) /\ i <= Len(s)
             \/ i - Len(s) \in DOMAIN t /\ u[i] = t[i - Len(s)] /\ u[i] \in Range(t) /\ i > Len(s)
  BY <1>1, <1>3, IdsAre
<1>5. ASSUME Ascending(s), Ascending(t), Precedes(s, t), NEW i \in DOMAIN u, NEW j \in DOMAIN u, i < j
      PROVE  u[i] < u[j]
  <2>1. i \in Nat /\ j \in Nat
    BY <1>3
  <2>2. CASE i <= Len(s) /\ j <= Len(s)
    BY <1>3, <1>4, <1>5, <2>1, <2>2 DEF Ascending
  <2>3. CASE i <= Len(s) /\ j > Len(s)
    BY <1>3, <1>4, <1>5, <2>1, <2>3 DEF Precedes
  <2>4. CASE i > Len(s) /\ j > Len(s)
    BY <1>3, <1>4, <1>5, <2>1, <2>4 DEF Ascending
  <2> QED  BY <1>3, <1>5, <2>1, <2>2, <2>3, <2>4
<1>6. ASSUME NoneTwice(s), NoneTwice(t), Range(s) \cap Range(t) = {},
             NEW i \in DOMAIN u, NEW j \in DOMAIN u, u[i] = u[j]
      PROVE  i = j
  <2>1. i \in Nat /\ j \in Nat
    BY <1>3
  <2>2. CASE i <= Len(s) /\ j <= Len(s)
    BY <1>3, <1>4, <1>6, <2>1, <2>2 DEF NoneTwice
  <2>3. CASE i > Len(s) /\ j > Len(s)
    <3>1. i - Len(s) = j - Len(s)
      BY <1>3, <1>4, <1>6, <2>1, <2>3 DEF NoneTwice
    <3> QED  BY <1>3, <2>1, <3>1
  <2>4. ~(i <= Len(s) /\ j > Len(s)) /\ ~(i > Len(s) /\ j <= Len(s))
    BY <1>3, <1>4, <1>6, <2>1
  <2> QED  BY <1>3, <2>1, <2>2, <2>3, <2>4
<1>7. s \o <<>> = s /\ <<>> \o t = t
  BY ConcatEmptySeq DEF Ids
<1> QED  BY <1>1, <1>2, <1>5, <1>6, <1>7 DEF u, Ascending, NoneTwice

\* FlattenSeq concatenates one sequence after the other.
Flattens(g, q) ==
  /\ g \in [0 .. Len(q) -> Ids] /\ g[0] = <<>>
  /\ \A i \in 1 .. Len(q) : g[i] = g[i - 1] \o q[i]
  /\ FlattenSeq(q) = g[Len(q)]

\* Flattening a sequence of sequences, one element at a time.
LEMMA FlattenIs ==
  ASSUME NEW q \in Seq(Ids)
  PROVE  \E g : Flattens(g, q)
<1> DEFINE n == Len(q)
           D == 1 .. n
           Step(i, f) == IF i = 1 THEN q[i] ELSE f[i - 1] \o q[i]
           G == [a \in D \X [D -> Ids] |-> Step(a[1], a[2])]
           rank == [i \in D |-> i]
<1>1. n \in Nat /\ DOMAIN q = D /\ \A i \in D : q[i] \in Ids
  BY LenProperties
<1>2. CASE n = 0
  <2>1. FlattenSeq(q) = <<>>
    BY <1>2, EmptySeq DEF FlattenSeq
  <2>2. Flattens([i \in {0} |-> <<>>], q)
    BY <1>2, <2>1, NoIds DEF Flattens
  <2> QED  BY <2>2
<1>3. CASE n # 0
  <2>1. ASSUME NEW i \in D, NEW f \in [D -> Ids]
        PROVE  Step(i, f) \in Ids
    <3>1. i # 1 => i - 1 \in D
      BY <1>1
    <3>2. i # 1 => f[i - 1] \in Ids
      BY <3>1
    <3> HIDE DEF D, n
    <3> QED  BY <1>1, <3>2, ConcatIs
  <2>2. \A i \in D, f \in [D -> Ids] : G[<<i, f>>] = Step(i, f)
    <3> HIDE DEF Step, D
    <3> QED  OBVIOUS
  <2>3. G \in [D \X [D -> Ids] -> Ids]
    <3> HIDE DEF Step, D
    <3> QED  BY <2>1
  <2>4. ASSUME NEW i \in D, NEW f \in [D -> Ids], NEW h \in [D -> Ids],
               \A d \in D : rank[d] < rank[i] => f[d] = h[d]
        PROVE  G[<<i, f>>] = G[<<i, h>>]
    <3>1. i # 1 => i - 1 \in D /\ rank[i - 1] < rank[i]
      BY <1>1
    <3>2. Step(i, f) = Step(i, h)
      BY <2>4, <3>1
    <3> HIDE DEF G, Step
    <3> QED  BY <2>2, <3>2
  <2>5. IsRule(G, D, Ids, rank, n)
    <3>1. rank \in [D -> 1 .. n] /\ Ids # {}
      BY NoIds
    <3> HIDE DEF G, D, rank, n
    <3> QED  BY <1>1, <2>3, <2>4, <3>1 DEF IsRule
  <2>6. PICK f \in [D -> Ids] : \A i \in D : f[i] = G[<<i, f>>]
    <3> HIDE DEF G, D, rank, n
    <3>1. IsKept(G, D, Ids)
      BY <2>5, Recursion
    <3> QED  BY <3>1 DEF IsKept
  <2>7. \A i \in D : f[i] = Step(i, f)
    <3> HIDE DEF G, Step, D
    <3> QED  BY <2>2, <2>6
  <2> HIDE DEF G
  <2> DEFINE Is(h) == h = [i \in 1 .. Len(q) |-> IF i = 1 THEN q[i] ELSE h[i - 1] \o q[i]]
             flat == CHOOSE h : Is(h)
  <2>8. FlattenSeq(q) = flat[n]
    BY <1>3 DEF FlattenSeq
  <2>9. Is(flat)
    <3>1. Is(f)
      BY <2>6, <2>7
    <3> HIDE DEF Is
    <3> QED  BY <3>1
  <2> HIDE DEF flat
  <2>10. \A i \in D : flat[i] = Step(i, flat)
    BY <2>9
  <2> DEFINE S == {i \in D : flat[i] \in Ids}
  <2>11. D \subseteq S
    <3>1. 1 \in S
      BY <1>1, <1>3, <2>10
    <3>2. ASSUME NEW i \in 1 .. n - 1, i \in S
          PROVE  i + 1 \in S
      <4>1. i + 1 \in D /\ i + 1 # 1 /\ (i + 1) - 1 = i
        BY <1>1
      <4>2. flat[i + 1] = flat[i] \o q[i + 1]
        BY <2>10, <4>1
      <4>3. flat[i] \in Ids /\ q[i + 1] \in Ids
        BY <1>1, <3>2, <4>1
      <4>4. flat[i + 1] \in Ids
        BY <4>2, <4>3, ConcatIs
      <4> QED  BY <4>1, <4>4
    <3> HIDE DEF S
    <3> QED  BY <1>1, <3>1, <3>2, Induction
  <2> DEFINE g == [i \in 0 .. n |-> IF i = 0 THEN <<>> ELSE flat[i]]
  <2>12. g \in [0 .. n -> Ids] /\ g[0] = <<>> /\ g[n] = flat[n]
    <3>1. \A i \in 0 .. n : i = 0 \/ i \in D
      BY <1>1
    <3>2. \A i \in D : flat[i] \in Ids
      BY <2>11
    <3> QED  BY <1>1, <1>3, <3>1, <3>2, NoIds
  <2>13. ASSUME NEW i \in 1 .. n
         PROVE  g[i] = g[i - 1] \o q[i]
    <3>1. CASE i = 1
      <4>1. 1 \in D /\ 1 \in 0 .. n /\ 0 \in 0 .. n
        BY <1>1, <3>1
      <4>2. g[1] = flat[1] /\ g[0] = <<>>
        BY <4>1
      <4>3. flat[1] = q[1] /\ q[1] \in Ids
        BY <1>1, <2>10, <4>1
      <4>4. <<>> \o q[1] = q[1]
        BY <4>3, ConcatIs
      <4>5. i - 1 = 0
        BY <3>1
      <4> HIDE DEF g
      <4> QED  BY <3>1, <4>2, <4>3, <4>4, <4>5
    <3>2. CASE i # 1
      <4>1. i - 1 \in 1 .. n /\ i \in 0 .. n /\ i - 1 \in 0 .. n /\ i # 0 /\ i - 1 # 0
        BY <1>1, <3>2
      <4>2. g[i] = flat[i] /\ g[i - 1] = flat[i - 1]
        BY <4>1
      <4> QED  BY <2>10, <3>2, <4>2
    <3> QED  BY <3>1, <3>2
  <2> HIDE DEF g
  <2>14. Flattens(g, q)
    BY <2>8, <2>12, <2>13 DEF Flattens
  <2> QED  BY <2>14
<1> QED  BY <1>2, <1>3

\* What lies in order stays in order when it is flattened, and nothing is lost.
LEMMA Flattened ==
  ASSUME NEW q \in Seq(Ids)
  PROVE  /\ FlattenSeq(q) \in Ids
         /\ Range(FlattenSeq(q)) = UNION {Range(q[i]) : i \in DOMAIN q}
         /\ (\A i \in DOMAIN q : Ascending(q[i]))
            /\ (\A i, j \in DOMAIN q : i < j => Precedes(q[i], q[j]))
            => Ascending(FlattenSeq(q))
<1> DEFINE n == Len(q)
           Up == /\ \A i \in DOMAIN q : Ascending(q[i])
                 /\ \A i, j \in DOMAIN q : i < j => Precedes(q[i], q[j])
           Parts(m) == UNION {Range(q[i]) : i \in 1 .. m}
<1>1. n \in Nat /\ DOMAIN q = 1 .. n /\ \A i \in 1 .. n : q[i] \in Ids
  BY LenProperties
<1>2. PICK g : Flattens(g, q)
  BY FlattenIs
<1>3. \A m \in 0 .. n : g[m] \in Ids
  BY <1>2 DEF Flattens
<1> DEFINE Good(m) == Range(g[m]) = Parts(m) /\ (Up => Ascending(g[m]))
           S == {m \in 1 .. n : Good(m)}
<1>4. Good(0)
  <2>1. g[0] = <<>>
    BY <1>2 DEF Flattens
  <2>2. Parts(0) = {}
    OBVIOUS
  <2> HIDE DEF Parts
  <2> QED  BY <2>1, <2>2, NoIds
<1>5. ASSUME NEW m \in 0 .. n - 1, Good(m)
      PROVE  Good(m + 1)
  <2>1. m + 1 \in 1 .. n /\ m \in 0 .. n /\ (m + 1) - 1 = m /\ m + 1 \in DOMAIN q
    BY <1>1
  <2>2. g[m + 1] = g[m] \o q[m + 1]
    BY <1>2, <2>1 DEF Flattens
  <2>3. g[m] \in Ids /\ q[m + 1] \in Ids
    BY <1>1, <1>3, <2>1
  <2>4. Parts(m + 1) = Parts(m) \cup Range(q[m + 1])
    <3>1. 1 .. m + 1 = 1 .. m \cup {m + 1}
      BY <1>1
    <3> QED  BY <3>1
  <2>5. Range(g[m + 1]) = Parts(m + 1)
    <3> HIDE DEF Parts
    <3> QED  BY <1>5, <2>2, <2>3, <2>4, ConcatIs
  <2>6. Up => Ascending(g[m + 1])
    <3>1. SUFFICES ASSUME Up PROVE Ascending(g[m + 1])
      OBVIOUS
    <3>2. \A i \in 1 .. m : i \in DOMAIN q /\ i < m + 1
      BY <1>1, <2>1
    <3>3. \A i \in 1 .. m : Precedes(q[i], q[m + 1])
      BY <2>1, <3>1, <3>2
    <3>4. Precedes(g[m], q[m + 1])
      <4>1. SUFFICES ASSUME NEW a \in Parts(m), NEW b \in Range(q[m + 1])
                     PROVE  a < b
        <5> HIDE DEF Parts
        <5> QED  BY <1>5 DEF Precedes
      <4>2. PICK i \in 1 .. m : a \in Range(q[i])
        BY <4>1
      <4> QED  BY <3>3, <4>2 DEF Precedes
    <3>5. Ascending(q[m + 1]) /\ Ascending(g[m])
      BY <1>5, <2>1, <3>1
    <3> HIDE DEF Up
    <3> QED  BY <2>2, <2>3, <3>4, <3>5, ConcatIs
  <2> QED  BY <2>5, <2>6
<1>6. Good(n)
  <2> HIDE DEF Good
  <2>1. CASE n = 0
    BY <1>4, <2>1
  <2>2. CASE n # 0
    <3>1. 1 \in S
      <4>1. 0 \in 0 .. n - 1 /\ 0 + 1 = 1 /\ 1 \in 1 .. n
        BY <1>1, <2>2
      <4> QED  BY <1>4, <1>5, <4>1
    <3>2. \A m \in 1 .. n - 1 : m \in S => m + 1 \in S
      <4>1. \A m \in 1 .. n - 1 : m \in 0 .. n - 1 /\ m + 1 \in 1 .. n
        BY <1>1
      <4> QED  BY <1>5, <4>1
    <3>3. 1 .. n \subseteq S
      <4> HIDE DEF S, n
      <4> QED  BY <1>1, <3>1, <3>2, Induction
    <3> QED  BY <1>1, <2>2, <3>3
  <2> QED  BY <2>1, <2>2
<1>7. FlattenSeq(q) = g[n]
  BY <1>2 DEF Flattens
<1> QED  BY <1>1, <1>3, <1>6, <1>7

\* Something put where nothing was last comes last.
LEMMA FlattenedLast ==
  ASSUME NEW q \in Seq(Ids), NEW r \in Seq(Ids), Len(r) = Len(q), q # <<>>,
         \A i \in 1 .. Len(q) : i # Len(q) => r[i] = q[i],
         q[Len(q)] = <<>>
  PROVE  FlattenSeq(r) = FlattenSeq(q) \o r[Len(r)]
<1> DEFINE n == Len(q)
<1>1. n \in Nat /\ n # 0 /\ \A i \in 1 .. n : r[i] \in Ids
  BY EmptySeq, LenProperties
<1>2. PICK g : Flattens(g, q)
  BY FlattenIs
<1>3. PICK h : Flattens(h, r)
  BY FlattenIs
<1> DEFINE S == {i \in 1 .. n : g[i - 1] = h[i - 1]}
<1>4. 1 .. n \subseteq S
  <2>1. 1 \in S
    <3>1. g[0] = <<>> /\ h[0] = <<>> /\ 1 - 1 = 0
      BY <1>2, <1>3 DEF Flattens
    <3> QED  BY <1>1, <3>1
  <2>2. ASSUME NEW i \in 1 .. n - 1, i \in S
        PROVE  i + 1 \in S
    <3>1. i \in 1 .. n /\ i # n /\ i + 1 \in 1 .. n /\ (i + 1) - 1 = i
      BY <1>1
    <3>2. g[i] = g[i - 1] \o q[i] /\ h[i] = h[i - 1] \o r[i]
      BY <1>2, <1>3, <3>1 DEF Flattens
    <3> QED  BY <2>2, <3>1, <3>2
  <2> HIDE DEF S, n
  <2> QED  BY <1>1, <2>1, <2>2, Induction
<1>5. n \in 1 .. n /\ n - 1 \in 0 .. n
  BY <1>1
<1>6. g[n] = g[n - 1] \o q[n] /\ h[n] = h[n - 1] \o r[n] /\ g[n - 1] = h[n - 1]
  BY <1>2, <1>3, <1>4, <1>5 DEF Flattens
<1>7. g[n - 1] \in Ids
  BY <1>2, <1>5 DEF Flattens
<1>8. g[n] = g[n - 1]
  BY <1>6, <1>7, ConcatIs, NoIds
<1> QED  BY <1>2, <1>3, <1>6, <1>8 DEF Flattens

-----------------------------------------------------------------------------
(* Values *)

\* A node that nothing is chained behind yet, and could be.
IsUnchained(v) ==
  LET order == Released[v.struct] IN
  /\ v.struct \in DOMAIN Released /\ "next" \notin DOMAIN v.fields
  /\ order # <<>> /\ order[Len(order)] = "next"
  /\ \A i \in DOMAIN order : order[i] \in DOMAIN v.fields => Strings(v.fields[order[i]]) \in Ids
  /\ v.strings = Node(v.struct, v.kind, v.fields).strings

\* The values of a right-hand side: in the order of the text, none where the
\* symbol carries none, and those something is chained to are unchained.
Fit(p, vals) ==
  /\ DOMAIN vals = DOMAIN Rhs(p)
  /\ \A k \in DOMAIN vals :
       /\ Strings(vals[k]) \in Ids /\ Ascending(Strings(vals[k]))
       /\ Rhs(p)[k] \notin Destructed => Strings(vals[k]) = <<>>
       /\ Rhs(p)[k] \in Unchained => IsUnchained(vals[k])
  /\ \A k, l \in DOMAIN vals : k < l => Precedes(Strings(vals[k]), Strings(vals[l]))

Reach(vals) == UNION {Range(Strings(vals[k])) : k \in DOMAIN vals}

\* Exactly the strings of the right-hand side are in the new value or freed,
\* in the order they were in.
Conserved(p, vals, v, spent) ==
  LET lhs == Productions[p].lhs IN
  /\ Strings(v) \in Ids /\ Ascending(Strings(v))
  /\ spent \in Ids /\ Ascending(spent)
  /\ Range(Strings(v)) \cup Range(spent) = Reach(vals)
  /\ Strings(v) = <<>> \/ spent = <<>>
  /\ lhs \notin Destructed \cup {"statement"} => Strings(v) = <<>>
  /\ lhs \in Unchained => IsUnchained(v)
  /\ lhs = "statement" => v.struct = "Query"

\* The pointers a node releases, in order.
Reached(struct, fields) ==
  LET order == Released[struct]
  IN  [i \in DOMAIN order |-> IF order[i] \in DOMAIN fields THEN Strings(fields[order[i]]) ELSE <<>>]

\* The order in which a structure's fields are released: next is the last.
LEMMA ReleasedIs ==
  ASSUME NEW struct \in DOMAIN Released
  PROVE  LET order == Released[struct] IN
         /\ struct \notin {"nil", "str"}
         /\ Len(order) \in Nat /\ DOMAIN order = 1 .. Len(order)
         /\ order # <<>> => Len(order) \in DOMAIN order
         /\ \A i \in DOMAIN order : order[i] = "next" => i = Len(order)
<1>1. Released[struct] \in Seq(STRING)
  BY ActsAssumption
<1>2. Len(Released[struct]) \in Nat /\ DOMAIN Released[struct] = 1 .. Len(Released[struct])
  BY <1>1, LenProperties
<1>3. Released[struct] # <<>> => Len(Released[struct]) # 0
  BY <1>1, EmptySeq
<1> QED  BY <1>2, <1>3, ActsAssumption

\* A node's strings are those of its fields, in that order;
LEMMA NodeIs ==
  ASSUME NEW struct \in DOMAIN Released, NEW kind, NEW fields,
         \A i \in DOMAIN Released[struct] :
           Released[struct][i] \in DOMAIN fields => Strings(fields[Released[struct][i]]) \in Ids
  PROVE  LET v == Node(struct, kind, fields) IN
         /\ v.struct = struct /\ v.kind = kind /\ v.fields = fields
         /\ v.strings = FlattenSeq(Reached(struct, fields)) /\ Strings(v) = v.strings
         /\ Reached(struct, fields) \in Seq(Ids)
         /\ Len(Reached(struct, fields)) = Len(Released[struct])
<1> DEFINE order == Released[struct]
           q == Reached(struct, fields)
           v == Node(struct, kind, fields)
<1>1. /\ v.struct = struct /\ v.kind = kind /\ v.fields = fields
      /\ v.strings = FlattenSeq(q)
  BY DEF Node, Reached
<1>2. Strings(v) = v.strings
  BY <1>1, ReleasedIs DEF Strings
<1>3. Len(order) \in Nat /\ DOMAIN order = 1 .. Len(order)
  BY ReleasedIs
<1>4. q \in [1 .. Len(order) -> Ids]
  BY <1>3, NoIds DEF Reached
<1>5. q \in Seq(Ids) /\ Len(q) = Len(order)
  <2> HIDE DEF q
  <2>1. q \in Seq(Ids)
    BY <1>3, <1>4, SeqDef
  <2>2. Len(q) \in Nat /\ 1 .. Len(q) = 1 .. Len(order)
    BY <1>4, <2>1, LenProperties
  <2> QED  BY <1>3, <2>1, <2>2
<1> QED  BY <1>1, <1>2, <1>5

\* a null pointer has none.
LEMMA NilIs == Strings(NIL) = <<>> /\ NIL.struct = "nil"
BY DEF Strings, NIL

\* What Fit says of the strings of a right-hand side.
LEMMA FitIs ==
  ASSUME NEW p \in DOMAIN Productions, NEW vals, Fit(p, vals)
  PROVE  /\ Len(Rhs(p)) \in Nat /\ DOMAIN vals = 1 .. Len(Rhs(p)) /\ DOMAIN vals = DOMAIN Rhs(p)
         /\ \A k \in DOMAIN vals : Strings(vals[k]) # <<>> => Rhs(p)[k] \in Destructed
         /\ \A a : a \in Reach(vals) <=> \E k \in DOMAIN vals : a \in Range(Strings(vals[k]))
<1>1. Rhs(p) \in Seq(STRING)
  BY GrammarAssumption DEF Rhs
<1> QED  BY <1>1, LenProperties DEF Fit, Reach

\* A constructor: its pointers take the values in the order of the text.
LEMMA NewConserves ==
  ASSUME NEW p \in DOMAIN Productions, NEW vals, Fit(p, vals), Productions[p].act.do = "new"
  PROVE  Conserved(p, vals, Reduction(Productions[p].act, vals), <<>>)
<1> DEFINE act == Productions[p].act
           lhs == Productions[p].lhs
           order == Released[act.struct]
           F == [f \in DOMAIN act.fields |-> IF act.fields[f] = 0 THEN NIL ELSE vals[act.fields[f]]]
           v == Reduction(act, vals)
           q == Reached(act.struct, F)
           to(i) == GivenTo(act, i)
           carriers == {k \in DOMAIN Rhs(p) : Rhs(p)[k] \in Destructed}
<1>1. /\ lhs \in Destructed \cup {"statement"} /\ act.struct \in DOMAIN Released
      /\ \A i \in Given(act) : to(i) \in DOMAIN vals
      /\ \A k \in carriers : \E i \in Given(act) : to(i) = k
      /\ \A i, j \in Given(act) : i < j => to(i) < to(j)
      /\ lhs \in Unchained => "next" \notin DOMAIN act.fields
      /\ lhs = "statement" => act.struct = "Query"
  <2>1. UsesOnce(p)
    BY ActsAssumption
  <2> QED  BY <2>1 DEF UsesOnce, Rhs, Fit
<1>2. v = Node(act.struct, act.kind, F)
  BY DEF Reduction, Constructed
<1>3. \A i \in DOMAIN order :
        /\ q[i] = IF i \in Given(act) THEN Strings(vals[to(i)]) ELSE <<>>
        /\ order[i] \in DOMAIN F => Strings(F[order[i]]) \in Ids
  BY <1>1, NilIs, NoIds DEF Reached, Given, GivenTo, Fit
<1> HIDE DEF v, F
<1>4. /\ v.struct = act.struct /\ v.kind = act.kind /\ v.fields = F
      /\ v.strings = FlattenSeq(q) /\ Strings(v) = FlattenSeq(q)
      /\ q \in Seq(Ids) /\ DOMAIN q = DOMAIN order
  <2>1. /\ v.struct = act.struct /\ v.kind = act.kind /\ v.fields = F
        /\ v.strings = FlattenSeq(q) /\ Strings(v) = FlattenSeq(q) /\ q \in Seq(Ids)
    BY <1>1, <1>2, <1>3, NodeIs
  <2>2. DOMAIN q = DOMAIN order
    BY DEF Reached
  <2> QED  BY <2>1, <2>2
<1> HIDE DEF q
<1>5. \A i \in DOMAIN q : Ascending(q[i])
  BY <1>1, <1>3, <1>4, NoIds DEF Fit
<1>6. \A i, j \in DOMAIN q : i < j => Precedes(q[i], q[j])
  BY <1>1, <1>3, <1>4, NoIds DEF Fit, Precedes
<1>7. /\ Strings(v) \in Ids /\ Ascending(Strings(v))
      /\ Range(Strings(v)) = UNION {Range(q[i]) : i \in DOMAIN q}
  BY <1>4, <1>5, <1>6, Flattened
<1>8. Range(Strings(v)) = Reach(vals)
  <2>1. ASSUME NEW a \in Range(Strings(v))
        PROVE  a \in Reach(vals)
    <3>1. PICK i \in DOMAIN q : a \in Range(q[i])
      BY <1>7, <2>1
    <3>2. i \in Given(act) /\ a \in Range(Strings(vals[to(i)]))
      BY <1>3, <1>4, <3>1, NoIds
    <3> QED  BY <1>1, <3>2, FitIs
  <2>2. ASSUME NEW a \in Reach(vals)
        PROVE  a \in Range(Strings(v))
    <3>1. PICK k \in DOMAIN vals : a \in Range(Strings(vals[k]))
      BY <2>2, FitIs
    <3>2. k \in carriers
      BY <3>1, FitIs, NoIds
    <3>3. PICK i \in Given(act) : to(i) = k
      BY <1>1, <3>2
    <3>4. i \in DOMAIN q
      BY <1>4 DEF Given
    <3>5. q[i] = Strings(vals[k])
      BY <1>3, <1>4, <3>3, <3>4
    <3> QED  BY <1>7, <3>1, <3>4, <3>5
  <2> QED  BY <2>1, <2>2
<1>9. lhs \in Unchained => IsUnchained(v)
  <2>1. SUFFICES ASSUME lhs \in Unchained PROVE IsUnchained(v)
    OBVIOUS
  <2>2. order # <<>> /\ order[Len(order)] = "next"
    BY <2>1, ActsAssumption
  <2>3. "next" \notin DOMAIN F
    BY <1>1, <2>1 DEF F
  <2>4. v.strings = Node(v.struct, v.kind, v.fields).strings
    BY <1>2, <1>4
  <2> QED  BY <1>1, <1>3, <1>4, <2>2, <2>3, <2>4 DEF IsUnchained
<1>10. lhs = "statement" => v.struct = "Query"
  BY <1>1, <1>4
<1> QED  BY <1>1, <1>7, <1>8, <1>9, <1>10, NoIds DEF Conserved, v

\* $$ = $i.
LEMMA SameConserves ==
  ASSUME NEW p \in DOMAIN Productions, NEW vals, Fit(p, vals), Productions[p].act.do = "same"
  PROVE  Conserved(p, vals, Reduction(Productions[p].act, vals), <<>>)
<1> DEFINE act == Productions[p].act
           lhs == Productions[p].lhs
           carriers == {k \in DOMAIN Rhs(p) : Rhs(p)[k] \in Destructed}
<1>1. /\ lhs \in Destructed \ Unchained /\ carriers \subseteq {act.from}
      /\ act.from \in DOMAIN vals
  <2>1. UsesOnce(p)
    BY ActsAssumption
  <2> QED  BY <2>1 DEF UsesOnce, Rhs, Fit
<1>2. Reduction(act, vals) = vals[act.from]
  BY DEF Reduction
<1>3. Range(Strings(vals[act.from])) = Reach(vals)
  <2>1. \A k \in DOMAIN vals : Strings(vals[k]) # <<>> => k = act.from
    BY <1>1, FitIs
  <2>2. \A k \in DOMAIN vals : Range(Strings(vals[k])) # {} => k = act.from
    BY <2>1, NoIds
  <2>3. \A a : a \in Reach(vals) <=> \E k \in DOMAIN vals : a \in Range(Strings(vals[k]))
    BY FitIs
  <2> DEFINE R(k) == Range(Strings(vals[k]))
  <2> HIDE DEF R
  <2>4. \A k \in DOMAIN vals : R(k) # {} => k = act.from
    BY <2>2 DEF R
  <2>5. \A a : a \in Reach(vals) <=> \E k \in DOMAIN vals : a \in R(k)
    BY <2>3 DEF R
  <2>6. R(act.from) = Reach(vals)
    BY <1>1, <2>4, <2>5
  <2> QED  BY <2>6 DEF R
<1>4. lhs # "statement"
  BY <1>1 DEF Destructed, Undestructed, StringTokens
<1> QED  BY <1>1, <1>2, <1>3, <1>4, NoIds DEF Conserved, Fit

\* $i->next = $j: the strings of the list come behind those of its new head.
LEMMA ChainConserves ==
  ASSUME NEW p \in DOMAIN Productions, NEW vals, Fit(p, vals), Productions[p].act.do = "chain"
  PROVE  Conserved(p, vals, Reduction(Productions[p].act, vals), <<>>)
<1> DEFINE act == Productions[p].act
           lhs == Productions[p].lhs
           carriers == {k \in DOMAIN Rhs(p) : Rhs(p)[k] \in Destructed}
           u == vals[act.from]
           w == vals[act.next]
           order == Released[u.struct]
           n == Len(order)
           F == [f \in DOMAIN u.fields \cup {"next"} |-> IF f = "next" THEN w ELSE u.fields[f]]
           v == Reduction(act, vals)
           q == Reached(u.struct, u.fields)
           r == Reached(u.struct, F)
<1>1. /\ lhs \in Destructed \ Unchained /\ carriers = {act.from, act.next}
      /\ act.from < act.next
  <2>1. UsesOnce(p)
    BY ActsAssumption
  <2> QED  BY <2>1 DEF UsesOnce, Rhs
<1>2. act.from \in DOMAIN vals /\ act.next \in DOMAIN vals
  BY <1>1, FitIs
<1>3. IsUnchained(u)
  <2>1. Rhs(p)[act.from] \in Unchained
    BY DEF Unchained, Rhs
  <2> QED  BY <1>2, <2>1 DEF Fit
<1>4. /\ Strings(u) \in Ids /\ Ascending(Strings(u)) /\ Strings(w) \in Ids /\ Ascending(Strings(w))
      /\ Precedes(Strings(u), Strings(w))
  BY <1>1, <1>2 DEF Fit
<1>5. v = Node(u.struct, u.kind, F)
  BY DEF Reduction, Chained
<1>6. /\ u.struct \in DOMAIN Released /\ "next" \notin DOMAIN u.fields
      /\ order # <<>> /\ order[n] = "next" /\ n \in DOMAIN order /\ DOMAIN order = 1 .. n
      /\ \A i \in DOMAIN order : order[i] = "next" => i = n
      /\ \A i \in DOMAIN order : order[i] \in DOMAIN u.fields => Strings(u.fields[order[i]]) \in Ids
      /\ u.strings = Node(u.struct, u.kind, u.fields).strings
      /\ u.struct \notin {"nil", "str"}
  BY <1>3, ReleasedIs DEF IsUnchained
<1>7. Strings(u) = FlattenSeq(q) /\ q \in Seq(Ids) /\ Len(q) = n
  <2>1. Strings(u) = u.strings
    BY <1>6 DEF Strings
  <2> HIDE DEF q, u
  <2> QED  BY <1>6, <2>1, NodeIs DEF q
<1>8. \A i \in DOMAIN order :
        /\ order[i] \in DOMAIN F => Strings(F[order[i]]) \in Ids
        /\ r[i] = IF i = n THEN Strings(w) ELSE q[i]
  BY <1>4, <1>6 DEF Reached
<1>9. Strings(v) = FlattenSeq(r) /\ r \in Seq(Ids) /\ Len(r) = n
  <2> HIDE DEF F, u, r
  <2> QED  BY <1>5, <1>6, <1>8, NodeIs DEF r
<1>10. FlattenSeq(r) = FlattenSeq(q) \o r[n]
  <2>1. q[n] = <<>>
    BY <1>6 DEF Reached
  <2>2. q # <<>>
    <3>1. n # 0
      BY <1>6
    <3> HIDE DEF q
    <3> QED  BY <1>7, <3>1, EmptySeq
  <2>3. \A i \in 1 .. Len(q) : i # Len(q) => r[i] = q[i]
    BY <1>6, <1>7, <1>8
  <2> HIDE DEF q, r, n
  <2> QED  BY <1>7, <1>9, <2>1, <2>2, <2>3, FlattenedLast
<1>11. Strings(v) = Strings(u) \o Strings(w)
  BY <1>6, <1>7, <1>8, <1>9, <1>10
<1> HIDE DEF v, q, r, F
<1>12. /\ Strings(v) \in Ids /\ Ascending(Strings(v))
       /\ Range(Strings(v)) = Range(Strings(u)) \cup Range(Strings(w))
  BY <1>4, <1>11, ConcatIs
<1>13. Range(Strings(v)) = Reach(vals)
  <2>1. \A k \in DOMAIN vals : Strings(vals[k]) # <<>> => k = act.from \/ k = act.next
    BY <1>1, FitIs
  <2> QED  BY <1>2, <1>12, <2>1, FitIs, NoIds
<1>14. lhs # "statement"
  BY <1>1 DEF Destructed, Undestructed, StringTokens
<1> QED  BY <1>1, <1>12, <1>13, <1>14, NoIds DEF Conserved, v

\* The bounds of a range of hops are freed; no other action frees anything.
LEMMA SpendConserves ==
  ASSUME NEW p \in DOMAIN Productions, NEW vals, Fit(p, vals), Productions[p].act.do = "spend"
  PROVE  Conserved(p, vals, NIL, Spent(Productions[p].act, vals))
<1> DEFINE act == Productions[p].act
           lhs == Productions[p].lhs
           carriers == {k \in DOMAIN Rhs(p) : Rhs(p)[k] \in Destructed}
           n == Len(Rhs(p))
           q == [i \in DOMAIN vals |-> IF i \in act.of THEN Strings(vals[i]) ELSE <<>>]
<1>1. lhs \notin Destructed \cup {"statement"} \cup Unchained /\ carriers = act.of
  <2>1. UsesOnce(p)
    BY ActsAssumption
  <2> QED  BY <2>1 DEF UsesOnce, Rhs
<1>2. Spent(act, vals) = FlattenSeq(q)
  BY DEF Spent
<1>3. n \in Nat /\ q \in [1 .. n -> Ids] /\ DOMAIN vals = 1 .. n
  BY FitIs, NoIds DEF Fit
<1>4. q \in Seq(Ids) /\ DOMAIN q = DOMAIN vals
  <2>1. q \in Seq(Ids)
    <3> HIDE DEF q, n
    <3> QED  BY <1>3, SeqDef
  <2> QED  BY <2>1
<1>5. \A i \in DOMAIN q : Ascending(q[i])
  BY NoIds DEF Fit
<1>6. \A i, j \in DOMAIN q : i < j => Precedes(q[i], q[j])
  BY NoIds DEF Fit, Precedes
<1>7. UNION {Range(q[i]) : i \in DOMAIN q} = Reach(vals)
  <2>1. \A k \in DOMAIN vals : Strings(vals[k]) # <<>> => k \in act.of
    BY <1>1, FitIs
  <2>2. \A k \in DOMAIN vals : Range(q[k]) = Range(Strings(vals[k]))
    BY <2>1
  <2> QED  BY <1>4, <2>2 DEF Reach
<1> HIDE DEF q
<1>8. /\ FlattenSeq(q) \in Ids /\ Ascending(FlattenSeq(q))
      /\ Range(FlattenSeq(q)) = Reach(vals)
  BY <1>4, <1>5, <1>6, <1>7, Flattened
<1> QED  BY <1>1, <1>2, <1>8, NilIs, NoIds DEF Conserved

\* An action that does nothing has no string to lose.
LEMMA NothingConserves ==
  ASSUME NEW p \in DOMAIN Productions, NEW vals, Fit(p, vals), Productions[p].act.do = "nothing"
  PROVE  Conserved(p, vals, NIL, <<>>)
<1> DEFINE act == Productions[p].act
           lhs == Productions[p].lhs
           carriers == {k \in DOMAIN Rhs(p) : Rhs(p)[k] \in Destructed}
<1>1. lhs \notin Unchained \cup {"statement"} /\ carriers = {}
  <2>1. UsesOnce(p)
    BY ActsAssumption
  <2> QED  BY <2>1 DEF UsesOnce, Rhs
<1>2. Reach(vals) = {}
  BY <1>1, FitIs, NoIds
<1> QED  BY <1>1, <1>2, NilIs, NoIds DEF Conserved

\* A reduction keeps every string of its right-hand side, or frees it.
LEMMA ReductionConserves ==
  ASSUME NEW p \in DOMAIN Productions, NEW vals, Fit(p, vals)
  PROVE  LET act == Productions[p].act IN
         Conserved(p, vals, Reduction(act, vals), Spent(act, vals))
<1> DEFINE act == Productions[p].act
<1>1. act.do \in {"new", "same", "chain", "spend", "nothing"}
  <2>1. UsesOnce(p)
    BY ActsAssumption
  <2> QED  BY <2>1 DEF UsesOnce
<1>2. act.do # "spend" => Spent(act, vals) = <<>>
  BY DEF Spent
<1>3. act.do \in {"spend", "nothing"} => Reduction(act, vals) = NIL
  BY DEF Reduction
<1> QED  BY <1>1, <1>2, <1>3, NewConserves, SameConserves, ChainConserves, SpendConserves,
             NothingConserves

-----------------------------------------------------------------------------
(* The inductive invariant *)

Texts ==
  /\ rest \in Seq(Written) /\ text \in Seq(Written)
  /\ slips \in 0 .. MaxSlips /\ phrases \in 0 .. MaxPhrases

\* The strings of the values at the bottom of the stack, m of them.
Stacked(m) == UNION {Range(Strings(stack[k].value)) : k \in 1 .. m}

\* From the bottom of the stack to the lookahead the strings are in the order of
\* the text, and a symbol that bison does not destroy carries none.
Values ==
  /\ \A k \in 1 .. Len(stack) :
       LET s == Strings(stack[k].value) IN
       /\ s \in Ids /\ Ascending(s) /\ Precedes(s, Strings(look.value))
       /\ stack[k].symbol \notin Destructed => s = <<>>
       /\ stack[k].symbol \in Unchained => IsUnchained(stack[k].value)
  /\ \A k, l \in 1 .. Len(stack) :
       k < l => Precedes(Strings(stack[k].value), Strings(stack[l].value))

\* The value of a token just scanned.
ValueOf(token) == IF token \in StringTokens THEN Str(Allocated(text)) ELSE NIL

Looking ==
  \/ look = NoToken
  \/ look = [token |-> End, value |-> NIL]
  \/ \E t \in Written : look = [token |-> t, value |-> ValueOf(t)]

\* No string is freed twice, freed while something keeps it, or lost.
Owned ==
  LET kept == Stacked(Len(stack))
      ahead == Range(Strings(look.value))
      stored == Range(Strings(result))
  IN  /\ freed \in Ids /\ NoneTwice(freed)
      /\ Strings(result) \in Ids /\ Ascending(Strings(result))
      /\ Range(freed) \cup kept \cup ahead \cup stored = 1 .. Allocated(text)
      /\ Range(freed) \cap (kept \cup ahead \cup stored) = {}
      /\ stored \cap (kept \cup ahead) = {}

\* A query is stored once there is a statement at the bottom of the stack.
Phase ==
  /\ status \in {"parsing", "accepted", "failed", "released"}
  /\ result = NIL \/ result.struct = "Query"
  /\ status = "parsing" /\ result # NIL => stack # <<>> /\ stack[1].symbol = "statement"
  /\ status # "parsing" => stack = <<>> /\ look = NoToken
  /\ status \in {"failed", "released"} => result = NIL

\* Once the end of the text is scanned nothing more is.
Ended ==
  LET shifted == \E k \in 1 .. Len(stack) : stack[k].symbol = End
  IN  /\ look.token = End \/ shifted \/ status \in {"accepted", "released"} => TextEnds
      /\ shifted => look = NoToken

IInv == Texts /\ Path /\ Values /\ Looking /\ Owned /\ Phase /\ Ended

-----------------------------------------------------------------------------
(* What the invariant says of the text and the lookahead *)

\* The texts are written in the characters Written.
LEMMA TextsAre ==
  /\ Alphabet \subseteq Written
  /\ \A s \in Statements \cup Phrases : s \in Seq(Written)
<1>1. \A s \in Statements \cup Phrases : Range(s) \subseteq Written
  BY DEF Written
<1>2. \A s \in Statements \cup Phrases : s \in Seq(Range(s))
  BY TextAssumption
<1>3. \A s \in Statements \cup Phrases : s \in Seq(Written)
  BY <1>1, <1>2, SeqMonotonic
<1> QED  BY <1>3 DEF Written

\* Strings are numbered as they are scanned.
LEMMA AllocatedIs ==
  ASSUME NEW s \in Seq(Written)
  PROVE  /\ Allocated(s) \in Nat
         /\ \A t \in Written : Allocated(Append(s, t)) =
              IF t \in StringTokens THEN Allocated(s) + 1 ELSE Allocated(s)
<1> DEFINE n == Len(s)
           In(q) == {i \in DOMAIN q : q[i] \in StringTokens}
<1>1. n \in Nat /\ DOMAIN s = 1 .. n
  BY LenProperties
<1>2. IsFiniteSet(In(s))
  <2>1. IsFiniteSet(1 .. n)
    BY <1>1, FS_Interval
  <2> QED  BY <1>1, <2>1, FS_Subset
<1>3. Allocated(s) = Cardinality(In(s)) /\ n + 1 \notin In(s)
  BY <1>1 DEF Allocated
<1>4. Allocated(s) \in Nat
  <2> HIDE DEF In
  <2> QED  BY <1>2, <1>3, FS_CardinalityType
<1>5. ASSUME NEW t \in Written
      PROVE  Allocated(Append(s, t)) =
               IF t \in StringTokens THEN Allocated(s) + 1 ELSE Allocated(s)
  <2> DEFINE u == Append(s, t)
  <2>1. /\ DOMAIN u = 1 .. n + 1 /\ \A i \in 1 .. n : u[i] = s[i]
        /\ u[n + 1] = t
    BY AppendProperties, LenProperties
  <2>2. Allocated(u) = Cardinality(In(u))
    BY DEF Allocated
  <2> HIDE DEF u
  <2>3. In(u) = IF t \in StringTokens THEN In(s) \cup {n + 1} ELSE In(s)
    BY <1>1, <2>1
  <2> HIDE DEF In
  <2>4. Cardinality(In(s) \cup {n + 1}) = Cardinality(In(s)) + 1
    BY <1>2, <1>3, FS_AddElement
  <2> QED  BY <1>3, <2>2, <2>3, <2>4 DEF u
<1> QED  BY <1>4, <1>5

\* The lookahead's value: a string if its token carries one, else nothing.
LEMMA LookIs ==
  ASSUME Texts, Looking
  PROVE  /\ Allocated(text) \in Nat
         /\ Strings(look.value) \in Ids /\ Ascending(Strings(look.value))
         /\ look.token \notin Destructed => Strings(look.value) = <<>>
         /\ look.token \notin Unchained
         /\ look.value.struct \in {"nil", "str"}
         /\ look # NoToken => look.token \in Symbols
         /\ look = NoToken => Strings(look.value) = <<>> /\ look.token # End
<1>1. Allocated(text) \in Nat
  BY AllocatedIs DEF Texts
<1>2. /\ Written \cap (Lhs(Productions) \cup {End, NONE}) = {} /\ End # NONE
      /\ End \notin Lhs(Productions) /\ NONE \notin Lhs(Productions)
      /\ Unchained \subseteq Lhs(Productions)
  BY TextAssumption, GrammarAssumption, ActsAssumption DEF Lhs, End, NONE
<1>3. CASE look = NoToken
  BY <1>1, <1>2, <1>3, NilIs, NoIds DEF NoToken
<1>4. CASE look = [token |-> End, value |-> NIL]
  BY <1>1, <1>2, <1>4, NilIs, NoIds DEF NoToken, Symbols
<1>5. ASSUME NEW t \in Written, look = [token |-> t, value |-> ValueOf(t)]
      PROVE  look \notin {NoToken} /\ look.token = t /\ t \in Symbols /\ t \notin Unchained
  BY <1>2, <1>5 DEF NoToken, Symbols
<1>6. ASSUME NEW t \in StringTokens
      PROVE  /\ ValueOf(t).struct = "str" /\ t \in Destructed
             /\ Strings(ValueOf(t)) = <<Allocated(text)>>
  BY DEF ValueOf, Str, Strings, Destructed
<1>7. ASSUME NEW t, t \notin StringTokens
      PROVE  ValueOf(t) = NIL
  BY <1>7 DEF ValueOf
<1>8. ASSUME NEW t \in Written, look = [token |-> t, value |-> ValueOf(t)]
      PROVE  /\ Strings(look.value) \in Ids /\ Ascending(Strings(look.value))
             /\ look.token \notin Destructed => Strings(look.value) = <<>>
             /\ look.value.struct \in {"nil", "str"}
  <2>1. look.token = t /\ look.value = ValueOf(t)
    BY <1>8
  <2>2. CASE t \in StringTokens
    BY <1>1, <1>6, <2>1, <2>2, OneId
  <2>3. CASE t \notin StringTokens
    BY <1>7, <2>1, <2>3, NilIs, NoIds
  <2> QED  BY <2>2, <2>3
<1> QED  BY <1>1, <1>3, <1>4, <1>5, <1>8 DEF Looking

-----------------------------------------------------------------------------
(* The actions that only scan *)

\* IInv holds when nothing is read,
LEMMA InitOk == Init => IInv
<1> SUFFICES ASSUME Init PROVE IInv
  OBVIOUS
<1> USE DEF Init
<1>1. Len(stack) = 0 /\ stack = <<>> /\ 1 .. 0 = {}
  OBVIOUS
<1>2. Texts
  BY TextsAre, EmptySeq, TextAssumption DEF Texts
<1>3. Path
  <2>1. stack \in Seq(Range(stack))
    BY EmptySeq
  <2> QED  BY <1>1, <2>1 DEF Path
<1>4. Values
  BY <1>1 DEF Values
<1>5. Looking
  BY DEF Looking
<1>6. Owned
  <2>1. Stacked(Len(stack)) = {}
    BY <1>1 DEF Stacked
  <2>2. Allocated(text) = 0
    <3>1. {i \in DOMAIN text : text[i] \in StringTokens} = {}
      OBVIOUS
    <3> QED  BY <3>1, FS_EmptySet DEF Allocated
  <2>3. Strings(look.value) = <<>> /\ Strings(result) = <<>>
    BY NilIs DEF NoToken
  <2> QED  BY <1>1, <2>1, <2>2, <2>3, NoIds DEF Owned
<1>7. Phase
  BY DEF Phase
<1>8. Ended
  BY <1>1, <1>2, <1>5, LookIs DEF Ended
<1> QED  BY <1>2, <1>3, <1>4, <1>5, <1>6, <1>7, <1>8 DEF IInv

\* Where the parser asks for a token the end of the text is not on the stack.
LEMMA AskingIs ==
  ASSUME IInv, Asks
  PROVE  look = NoToken /\ status = "parsing" /\ \A k \in 1 .. Len(stack) : stack[k].symbol # End
BY EndIsLast DEF IInv, Asks

\* The text left changes, and nothing else that the invariant is about.
LEMMA RestChanges ==
  ASSUME IInv, Asks, rest' \in Seq(Written), slips' \in 0 .. MaxSlips, phrases' \in 0 .. MaxPhrases,
         UNCHANGED <<stack, look, text, freed, result, status>>
  PROVE  IInv'
<1>1. Texts'
  BY DEF IInv, Texts
<1>2. Path'
  BY DEF IInv, Path, StateAt
<1>3. Values'
  BY DEF IInv, Values
<1>4. Looking'
  BY DEF IInv, Looking, ValueOf
<1>5. Owned'
  BY DEF IInv, Owned, Stacked
<1>6. Phase'
  BY DEF IInv, Phase
<1>7. Ended'
  BY AskingIs, LookIs DEF IInv, Ended
<1> QED  BY <1>1, <1>2, <1>3, <1>4, <1>5, <1>6, <1>7 DEF IInv

\* an error put into the text keeps it,
LEMMA SlipKeeps == ASSUME IInv, Slip PROVE IInv'
<1>1. rest \in Seq(Written) /\ rest # <<>> /\ Tail(rest) \in Seq(Written)
  BY HeadTailProperties DEF Slip, IInv, Texts
<1>2. \A t \in Alphabet : <<t>> \in Seq(Written)
  BY TextsAre
<1>3. rest' \in Seq(Written)
  <2>1. \A t \in Alphabet : /\ <<t>> \o rest \in Seq(Written)
                            /\ <<t>> \o Tail(rest) \in Seq(Written)
    BY <1>1, <1>2, ConcatProperties
  <2> QED  BY <1>1, <2>1, EmptySeq DEF Slip
<1>4. slips' \in 0 .. MaxSlips
  BY TextAssumption DEF Slip, IInv, Texts
<1> QED  BY <1>3, <1>4, RestChanges DEF Slip, IInv, Texts

\* as do a phrase put behind it,
LEMMA WriteKeeps == ASSUME IInv, Write PROVE IInv'
<1>1. rest' \in Seq(Written)
  BY TextsAre DEF Write
<1>2. phrases' \in 0 .. MaxPhrases
  BY TextAssumption DEF Write, IInv, Texts
<1> QED  BY <1>1, <1>2, RestChanges DEF Write, IInv, Texts

\* and the end of the text.
LEMMA ScanEndKeeps == ASSUME IInv, ScanEnd PROVE IInv'
<1>1. look = NoToken /\ Strings(look.value) = <<>> /\ Strings(look'.value) = <<>>
  BY LookIs, NilIs DEF IInv, ScanEnd, Asks
<1>2. Texts' /\ Path'
  BY DEF IInv, Texts, Path, StateAt, ScanEnd
<1>3. Values'
  BY <1>1 DEF IInv, Values, ScanEnd
<1>4. Looking'
  BY DEF Looking, ScanEnd
<1>5. Owned'
  BY <1>1 DEF IInv, Owned, Stacked, ScanEnd
<1>6. Phase'
  BY DEF IInv, Phase, ScanEnd, Asks
<1>7. Ended'
  BY AskingIs DEF Ended, ScanEnd, TextEnds
<1> QED  BY <1>2, <1>3, <1>4, <1>5, <1>6, <1>7 DEF IInv

\* A string scanned comes behind all there are.
LEMMA ScanTokenKeeps == ASSUME IInv, ScanToken PROVE IInv'
<1> DEFINE n == Allocated(text)
<1>0. PICK t : t = Head(rest)
  OBVIOUS
<1>1. rest \in Seq(Written) /\ rest # <<>> /\ t \in Written /\ Tail(rest) \in Seq(Written)
  BY <1>0, HeadTailProperties DEF ScanToken, TextEnds, IInv, Texts
<1>2. text' \in Seq(Written) /\ text' = Append(text, t)
  BY <1>0, <1>1, AppendProperties DEF ScanToken, IInv, Texts
<1>3. n \in Nat /\ Allocated(text') = IF t \in StringTokens THEN n + 1 ELSE n
  BY <1>1, <1>2, AllocatedIs DEF IInv, Texts
<1>4. look' = [token |-> t, value |-> ValueOf(t)']
  BY <1>0 DEF ScanToken, ValueOf
<1>5. Texts' /\ Path'
  BY <1>1, <1>2 DEF IInv, Texts, Path, StateAt, ScanToken
<1>6. Looking'
  BY <1>1, <1>4 DEF Looking
<1>7. Strings(look'.value) = IF t \in StringTokens THEN <<n + 1>> ELSE <<>>
  BY <1>3, <1>4, NilIs DEF ValueOf, Str, Strings
<1>8. Range(Strings(look'.value)) = IF t \in StringTokens THEN {n + 1} ELSE {}
  <2>1. n + 1 \in Nat
    BY <1>3
  <2> HIDE DEF n
  <2> QED  BY <1>7, <2>1, OneId, NoIds
<1>9. Strings(look.value) = <<>> /\ Range(Strings(look.value)) = {}
  BY LookIs, NoIds DEF IInv, ScanToken, Asks
<1>10. Range(freed) \cup Stacked(Len(stack)) \cup Range(Strings(result)) = 1 .. n
  BY <1>9 DEF IInv, Owned
<1>11. Values'
  <2>1. \A k \in 1 .. Len(stack) : Range(Strings(stack[k].value)) \subseteq 1 .. n
    BY <1>10 DEF Stacked
  <2>2. \A k \in 1 .. Len(stack) : Precedes(Strings(stack[k].value), Strings(look'.value))
    BY <1>3, <1>8, <2>1 DEF Precedes
  <2> QED  BY <2>2 DEF IInv, Values, ScanToken
<1>12. Owned'
  <2>1. Stacked(Len(stack))' = Stacked(Len(stack)) /\ freed' = freed /\ result' = result
    BY DEF Stacked, ScanToken
  <2>2. 1 .. Allocated(text') = 1 .. n \cup Range(Strings(look'.value))
    BY <1>3, <1>8
  <2>3. n + 1 \notin 1 .. n
    BY <1>3
  <2> QED  BY <1>8, <1>10, <2>1, <2>2, <2>3 DEF IInv, Owned
<1>13. Phase'
  BY DEF IInv, Phase, ScanToken, Asks
<1>14. Ended'
  <2>1. t # End
    BY <1>1, TextAssumption
  <2>2. look'.token = t
    BY <1>4
  <2> QED  BY <2>1, <2>2, AskingIs DEF Ended, ScanToken
<1> QED  BY <1>5, <1>6, <1>11, <1>12, <1>13, <1>14 DEF IInv

-----------------------------------------------------------------------------
(* The actions that move the stack *)

\* What is pushed on the first m values, in their order and before the
\* lookahead, keeps the stack in order.
LEMMA PushKeeps ==
  ASSUME Path, Values, NEW m \in 0 .. Len(stack), NEW x \in Symbols, NEW v,
         NEW j \in StateAt(m), j.next = x, Push(m, x, v),
         Strings(v) \in Ids, Ascending(Strings(v)),
         x \notin Destructed => Strings(v) = <<>>,
         x \in Unchained => IsUnchained(v),
         \A k \in 1 .. m : Precedes(Strings(stack[k].value), Strings(v)),
         \A k \in 1 .. m : Precedes(Strings(stack[k].value), Strings(look'.value)),
         Precedes(Strings(v), Strings(look'.value))
  PROVE  /\ Path' /\ Values'
         /\ Stacked(Len(stack))' = Stacked(m) \cup Range(Strings(v))
         /\ Len(stack') = m + 1 /\ m \in Nat
         /\ \A k \in 1 .. m : stack'[k] = stack[k] /\ k \in 1 .. Len(stack)
         /\ stack'[m + 1].symbol = x
<1>1. /\ Path' /\ Len(stack') = m + 1
      /\ \A k \in 1 .. m : stack'[k] = stack[k]
      /\ stack'[m + 1].symbol = x /\ stack'[m + 1].value = v
  BY Pushed
<1>2. m \in Nat /\ \A k \in 1 .. m : k \in 1 .. Len(stack)
  BY LenProperties DEF Path
<1>3. \A k \in 1 .. m + 1 : k \in 1 .. m \/ k = m + 1
  BY <1>2
<1>4. ASSUME NEW k \in 1 .. Len(stack')
      PROVE  LET s == Strings(stack'[k].value) IN
             /\ s \in Ids /\ Ascending(s) /\ Precedes(s, Strings(look'.value))
             /\ stack'[k].symbol \notin Destructed => s = <<>>
             /\ stack'[k].symbol \in Unchained => IsUnchained(stack'[k].value)
  <2>1. CASE k \in 1 .. m
    BY <1>1, <1>2, <2>1 DEF Values
  <2>2. CASE k = m + 1
    BY <1>1, <2>2
  <2> QED  BY <1>1, <1>3, <2>1, <2>2
<1>5. ASSUME NEW k \in 1 .. Len(stack'), NEW l \in 1 .. Len(stack'), k < l
      PROVE  Precedes(Strings(stack'[k].value), Strings(stack'[l].value))
  <2>1. k \in 1 .. m
    BY <1>1, <1>2, <1>5
  <2>2. CASE l \in 1 .. m
    BY <1>1, <1>2, <1>5, <2>1, <2>2 DEF Values
  <2>3. CASE l = m + 1
    BY <1>1, <2>1, <2>3
  <2> QED  BY <1>1, <1>3, <2>2, <2>3
<1>6. Values'
  BY <1>4, <1>5 DEF Values
<1>7. Stacked(Len(stack))' = Stacked(m) \cup Range(Strings(v))
  <2>1. 1 .. m + 1 = 1 .. m \cup {m + 1}
    BY <1>2
  <2>2. Stacked(Len(stack))' = UNION {Range(Strings(stack'[k].value)) : k \in 1 .. m + 1}
    BY <1>1 DEF Stacked
  <2>3. \A k \in 1 .. m : Strings(stack'[k].value) = Strings(stack[k].value)
    BY <1>1
  <2> QED  BY <1>1, <2>1, <2>2, <2>3 DEF Stacked
<1> QED  BY <1>1, <1>2, <1>6, <1>7

\* No string comes before or behind none.
LEMMA NothingFollows == \A s : Precedes(s, <<>>) /\ Precedes(<<>>, s)
BY NoIds DEF Precedes

\* A shift moves the lookahead's strings to the top of the stack.
LEMMA ShiftKeeps == ASSUME IInv, Shift PROVE IInv'
<1> DEFINE n == Len(stack)
<1> USE DEF IInv
<1>1. n \in Nat /\ n \in 0 .. Len(stack) /\ Top = StateAt(n)
  <2>1. Len(stack) \in Nat
    BY LenProperties DEF Path
  <2> QED  BY <2>1, TopIs
<1>2. /\ status = "parsing" /\ look # NoToken /\ look' = NoToken
      /\ UNCHANGED <<rest, slips, phrases, text, freed, result, status>>
  BY DEF Shift, Acts
<1>3. PICK j \in StateAt(n) : j.next = look.token
  <2>1. Decision(Cypher, Top, look.token) = "shift"
    BY DEF Shift, Acts
  <2>2. \E i \in Top : i.next = look.token
    BY <2>1 DEF Decision
  <2> QED  BY <1>1, <2>2
<1>4. /\ look.token \in Symbols
      /\ Strings(look.value) \in Ids /\ Ascending(Strings(look.value))
      /\ look.token \notin Destructed => Strings(look.value) = <<>>
      /\ look.token \notin Unchained
      /\ Strings(look'.value) = <<>>
  BY <1>2, LookIs, NilIs DEF NoToken
<1>5. Push(n, look.token, look.value)
  <2>1. SubSeq(stack, 1, n) = stack
    BY SubSeqFull DEF Path
  <2> QED  BY <1>1, <2>1 DEF Shift, Push
<1>6. \A k \in 1 .. n : Precedes(Strings(stack[k].value), Strings(look.value))
  BY DEF Values
<1>7. /\ Path' /\ Values'
      /\ Stacked(Len(stack))' = Stacked(n) \cup Range(Strings(look.value))
      /\ Len(stack') = n + 1
      /\ \A k \in 1 .. n : stack'[k] = stack[k]
      /\ stack'[n + 1].symbol = look.token
  <2> HIDE DEF n, IInv
  <2>1. Path /\ Values
    BY DEF IInv
  <2> QED  BY <1>1, <1>3, <1>4, <1>5, <1>6, <2>1, NothingFollows, PushKeeps
<1>8. Texts'
  BY <1>2 DEF Texts
<1>9. Looking'
  BY <1>2 DEF Looking
<1>10. Owned'
  <2>1. Range(Strings(look'.value)) = {}
    BY <1>4, NoIds
  <2> HIDE DEF IInv
  <2>2. Owned
    BY DEF IInv
  <2> QED  BY <1>2, <1>7, <2>1, <2>2 DEF Owned
<1>11. Phase'
  <2>1. stack' # <<>>
    BY <1>1, <1>7
  <2>2. stack # <<>> => 1 \in 1 .. n
    BY <1>1, EmptySeq, LenProperties DEF Path
  <2>3. result # NIL => stack'[1].symbol = "statement"
    BY <1>2, <1>7, <2>2 DEF Phase
  <2> QED  BY <1>2, <2>1, <2>3 DEF Phase
<1>12. Ended'
  <2>1. (\E k \in 1 .. Len(stack') : stack'[k].symbol = End) => TextEnds
    <3>1. SUFFICES ASSUME NEW k \in 1 .. n + 1, stack'[k].symbol = End PROVE TextEnds
      BY <1>7
    <3>2. CASE k \in 1 .. n
      BY <1>7, <3>1, <3>2 DEF Ended
    <3>3. CASE k = n + 1
      BY <1>7, <3>1, <3>3 DEF Ended
    <3> QED  BY <1>1, <3>2, <3>3
  <2>2. look'.token # End
    BY <1>2 DEF NoToken, NONE, End
  <2>3. TextEnds' = TextEnds
    BY <1>2 DEF TextEnds
  <2> QED  BY <1>2, <2>1, <2>2, <2>3 DEF Ended
<1> QED  BY <1>7, <1>8, <1>9, <1>10, <1>11, <1>12

\* Where a statement can follow nothing is on the stack.
LEMMA StatementBelow ==
  ASSUME Path, NEW m \in 0 .. Len(stack), NEW j \in StateAt(m), j.next = "statement"
  PROVE  m = 0
<1>1. j \in Items /\ "statement" # NONE
  BY StatesAre DEF NONE
<1>2. /\ j.d + 1 \in DOMAIN Rhs(j.p) /\ Rhs(j.p)[j.d + 1] = "statement"
      /\ j.p \in DOMAIN Productions /\ DOMAIN Rhs(j.p) = 1 .. Len(Rhs(j.p))
      /\ j.d \in Nat /\ j = Item(Productions, j.p, j.d)
  BY <1>1, ItemNext, ItemsAre
<1>3. j.p = 1
  BY <1>2, GrammarAssumption DEF Rhs
<1>4. Len(Rhs(1)) = 2 /\ Rhs(1)[2] # "statement"
  BY GrammarAssumption DEF Rhs, End
<1>5. j.d = 0
  BY <1>2, <1>3, <1>4
<1> QED  BY <1>2, <1>3, <1>5, Below

\* The symbols that carry nothing bison destroys.
LEMMA BareSymbols ==
  "statement" \notin Destructed /\ "statement" \notin Unchained
  /\ End \notin Destructed /\ "statement" # End
<1>1. "statement" \notin Destructed
  BY DEF Destructed, Undestructed, StringTokens
<1>2. End \notin Destructed
  BY GrammarAssumption DEF Destructed, StringTokens, Lhs, End
<1> QED  BY <1>1, <1>2, ActsAssumption DEF End

\* What a reduction finds: its production is the top of the stack, the values
\* of its right-hand side are in order, and below them it was begun.
LEMMA HandleFits ==
  ASSUME IInv, Complete(Top) # {}, Reduced(Cypher, Top).lhs # "$accept"
  PROVE  LET p == TheComplete(Top)
             m == Len(stack) - Len(Rhs(p))
             vals == [i \in DOMAIN Rhs(p) |-> stack[m + i].value]
         IN  /\ p \in DOMAIN Productions /\ p # 1 /\ Reduced(Cypher, Top) = Productions[p]
             /\ m \in 0 .. Len(stack) /\ m \in Nat
             /\ Productions[p].lhs \in Symbols \ {End}
             /\ \E j \in StateAt(m) : j.next = Productions[p].lhs
             /\ Fit(p, vals)
             /\ \A k \in m + 1 .. Len(stack) : stack[k].symbol \notin {"statement", End}
             /\ Stacked(Len(stack)) = Stacked(m) \cup Reach(vals)
             /\ \A k \in 1 .. m, a \in Reach(vals) : \A b \in Range(Strings(stack[k].value)) : b < a
             /\ \A a \in Reach(vals), b \in Range(Strings(look.value)) : a < b
<1> DEFINE p == TheComplete(Top)
           n == Len(Rhs(p))
           m == Len(stack) - n
           vals == [i \in DOMAIN Rhs(p) |-> stack[m + i].value]
<1>0. Path /\ Values
  BY DEF IInv
<1>1. /\ p \in DOMAIN Productions /\ Reduced(Cypher, Top) = Productions[p]
      /\ n \in 0 .. Len(stack) /\ DOMAIN Rhs(p) = 1 .. n
      /\ \A j \in 1 .. n : stack[m + j].symbol = Rhs(p)[j]
      /\ Item(Productions, p, 0) \in StateAt(m)
      /\ Len(stack) \in Nat
  BY <1>0, Reducing, LenProperties DEF Path
<1>2. p # 1
  BY <1>1, GrammarAssumption
<1>3. m \in 0 .. Len(stack) /\ m \in Nat
  BY <1>1
<1>4. Productions[p].lhs \in Symbols \ {End}
  BY <1>1, <1>2, GrammarAssumption DEF Symbols, Lhs
<1>5. \E j \in StateAt(m) : j.next = Productions[p].lhs
  <2> HIDE DEF p, m
  <2> QED  BY <1>0, <1>1, <1>2, <1>3, Below
<1>6. \A i \in 1 .. n : m + i \in 1 .. Len(stack) /\ m + i \in m + 1 .. Len(stack)
  BY <1>1
<1>7. \A k \in m + 1 .. Len(stack) : k - m \in 1 .. n /\ m + (k - m) = k /\ k \in 1 .. Len(stack)
  BY <1>1
<1>8. \A k \in 1 .. m, i \in 1 .. n : k < m + i /\ k \in 1 .. Len(stack)
  BY <1>1
<1>9. \A i, l \in 1 .. n : i < l => m + i < m + l
  BY <1>3
<1>10. \A k \in 1 .. Len(stack) : k \in 1 .. m \/ k \in m + 1 .. Len(stack)
  BY <1>1
<1>11. \A i \in 1 .. n : vals[i] = stack[m + i].value
  BY <1>1
<1>12. DOMAIN vals = 1 .. n /\ DOMAIN vals = DOMAIN Rhs(p)
  BY <1>1
<1> HIDE DEF m, n, vals, p
<1>13. Fit(p, vals)
  <2>1. ASSUME NEW k \in 1 .. n
        PROVE  /\ Strings(vals[k]) \in Ids /\ Ascending(Strings(vals[k]))
               /\ Rhs(p)[k] \notin Destructed => Strings(vals[k]) = <<>>
               /\ Rhs(p)[k] \in Unchained => IsUnchained(vals[k])
    BY <1>0, <1>1, <1>6, <1>11 DEF Values
  <2>2. ASSUME NEW k \in 1 .. n, NEW l \in 1 .. n, k < l
        PROVE  Precedes(Strings(vals[k]), Strings(vals[l]))
    BY <1>0, <1>6, <1>9, <1>11, <2>2 DEF Values
  <2> QED  BY <1>12, <2>1, <2>2 DEF Fit
<1>14. \A k \in m + 1 .. Len(stack) : stack[k].symbol \notin {"statement", End}
  <2>1. \A i \in 1 .. n : Rhs(p)[i] \notin {"statement", End}
    BY <1>1, <1>2, GrammarAssumption DEF Rhs
  <2> QED  BY <1>1, <1>7, <2>1
<1>15. \A a : a \in Reach(vals) <=> \E i \in 1 .. n : a \in Range(Strings(stack[m + i].value))
  BY <1>11, <1>12 DEF Reach
<1>16. Stacked(Len(stack)) = Stacked(m) \cup Reach(vals)
  <2> DEFINE R(k) == Range(Strings(stack[k].value))
  <2>1. Stacked(m) = UNION {R(k) : k \in 1 .. m}
        /\ Stacked(Len(stack)) = UNION {R(k) : k \in 1 .. Len(stack)}
    BY DEF Stacked
  <2>2. \A a : a \in Reach(vals) <=> \E i \in 1 .. n : a \in R(m + i)
    BY <1>15
  <2> HIDE DEF R
  <2>3. \A a : a \in Reach(vals) <=> \E k \in m + 1 .. Len(stack) : a \in R(k)
    BY <1>6, <1>7, <2>2
  <2>4. 1 .. Len(stack) = 1 .. m \cup m + 1 .. Len(stack)
    BY <1>1, <1>3
  <2> QED  BY <2>1, <2>3, <2>4
<1>17. ASSUME NEW k \in 1 .. m, NEW a \in Reach(vals), NEW b \in Range(Strings(stack[k].value))
       PROVE  b < a
  <2>1. PICK i \in 1 .. n : a \in Range(Strings(stack[m + i].value))
    BY <1>15
  <2>2. Precedes(Strings(stack[k].value), Strings(stack[m + i].value))
    BY <1>0, <1>6, <1>8 DEF Values
  <2> QED  BY <2>1, <2>2 DEF Precedes
<1>18. ASSUME NEW a \in Reach(vals), NEW b \in Range(Strings(look.value))
       PROVE  a < b
  <2>1. PICK i \in 1 .. n : a \in Range(Strings(stack[m + i].value))
    BY <1>15
  <2>2. Precedes(Strings(stack[m + i].value), Strings(look.value))
    BY <1>0, <1>6 DEF Values
  <2> QED  BY <2>1, <2>2 DEF Precedes
<1> QED  BY <1>1, <1>2, <1>3, <1>4, <1>5, <1>13, <1>14, <1>16, <1>17, <1>18 DEF p, m, n, vals

\* A reduction puts the node in the place of its symbols, with their strings in
\* the same order.
LEMMA ReduceKeeps == ASSUME IInv, Reduce PROVE IInv'
<1> DEFINE p == TheComplete(Top)
           lhs == Productions[p].lhs
           act == Productions[p].act
           m == Len(stack) - Len(Rhs(p))
           vals == [i \in DOMAIN Rhs(p) |-> stack[m + i].value]
           value == Reduction(act, vals)
           spent == Spent(act, vals)
           put == IF lhs = "statement" THEN NIL ELSE value
<1>0. Texts /\ Path /\ Values /\ Looking /\ Owned /\ Phase /\ Ended
  BY DEF IInv
<1>1. /\ status = "parsing"
      /\ UNCHANGED <<rest, slips, phrases, look, text, status>>
  BY DEF Reduce
<1>2. Complete(Top) # {} /\ Reduced(Cypher, Top).lhs # "$accept"
  BY DEF Reduce, Acts, Decision, Consistent
<1>3. /\ p \in DOMAIN Productions /\ p # 1 /\ Reduced(Cypher, Top) = Productions[p]
      /\ m \in 0 .. Len(stack) /\ m \in Nat
      /\ lhs \in Symbols \ {End}
      /\ \E j \in StateAt(m) : j.next = lhs
      /\ Fit(p, vals)
      /\ \A k \in m + 1 .. Len(stack) : stack[k].symbol \notin {"statement", End}
      /\ Stacked(Len(stack)) = Stacked(m) \cup Reach(vals)
      /\ \A k \in 1 .. m, a \in Reach(vals) : \A b \in Range(Strings(stack[k].value)) : b < a
      /\ \A a \in Reach(vals), b \in Range(Strings(look.value)) : a < b
  BY <1>2, HandleFits
<1>4. /\ freed' = freed \o spent
      /\ result' = IF lhs = "statement" THEN value ELSE result
      /\ Push(m, lhs, put)
  <2>1. Reduced(Cypher, Top) = Productions[p] /\ Productions[p].rhs = Rhs(p)
    BY <1>3 DEF Rhs
  <2> QED  BY <2>1 DEF Reduce, Push, StateAt
<1>5. Conserved(p, vals, value, spent)
  <2> HIDE DEF vals, p
  <2> QED  BY <1>3, ReductionConserves
<1> HIDE DEF p, m, vals, value, spent
<1>6. /\ Strings(value) \in Ids /\ Ascending(Strings(value))
      /\ spent \in Ids /\ Ascending(spent)
      /\ Range(Strings(value)) \cup Range(spent) = Reach(vals)
      /\ Strings(value) = <<>> \/ spent = <<>>
      /\ lhs \notin Destructed \cup {"statement"} => Strings(value) = <<>>
      /\ lhs \in Unchained => IsUnchained(value)
      /\ lhs = "statement" => value.struct = "Query"
  BY <1>5 DEF Conserved
<1>7. /\ Strings(put) \in Ids /\ Ascending(Strings(put))
      /\ Range(Strings(put)) \subseteq Reach(vals)
      /\ lhs \notin Destructed => Strings(put) = <<>>
      /\ lhs \in Unchained => IsUnchained(put)
  BY <1>6, NilIs, NoIds, BareSymbols
<1>8. PICK j \in StateAt(m) : j.next = lhs
  BY <1>3
<1>9. /\ Path' /\ Values'
      /\ Stacked(Len(stack))' = Stacked(m) \cup Range(Strings(put))
      /\ Len(stack') = m + 1
      /\ \A k \in 1 .. m : stack'[k] = stack[k] /\ k \in 1 .. Len(stack)
      /\ stack'[m + 1].symbol = lhs
  <2>1. /\ \A k \in 1 .. m : Precedes(Strings(stack[k].value), Strings(put))
        /\ Precedes(Strings(put), Strings(look'.value))
    BY <1>1, <1>3, <1>7 DEF Precedes
  <2>2. \A k \in 1 .. m : Precedes(Strings(stack[k].value), Strings(look'.value))
    <3>1. \A k \in 1 .. m : k \in 1 .. Len(stack)
      BY <1>3
    <3> QED  BY <1>0, <1>1, <3>1 DEF Values
  <2>3. lhs \in Symbols
    BY <1>3
  <2> HIDE DEF lhs, put
  <2> QED  BY <1>0, <1>3, <1>4, <1>7, <1>8, <2>1, <2>2, <2>3, PushKeeps
<1>10. lhs = "statement" => m = 0 /\ result = NIL
  <2>1. SUFFICES ASSUME lhs = "statement" PROVE m = 0 /\ result = NIL
    OBVIOUS
  <2>2. m = 0
    BY <1>0, <1>3, <1>8, <2>1, StatementBelow
  <2>3. stack # <<>> => 1 \in m + 1 .. Len(stack)
    BY <1>0, <2>2, EmptySeq, LenProperties DEF Path
  <2> QED  BY <1>0, <1>1, <1>3, <2>2, <2>3 DEF Phase
<1>11. Texts' /\ Looking'
  BY <1>0, <1>1 DEF Texts, Looking, ValueOf
<1>12. Owned'
  <2> DEFINE low == Stacked(m)
             ahead == Range(Strings(look.value))
             stored == Range(Strings(result))
             new == Range(Strings(value))
             reach == Reach(vals)
  <2>1. /\ freed \in Ids /\ NoneTwice(freed)
        /\ Range(freed) \cup (low \cup reach) \cup ahead \cup stored = 1 .. Allocated(text)
        /\ Range(freed) \cap (low \cup reach \cup ahead \cup stored) = {}
        /\ stored \cap (low \cup reach \cup ahead) = {}
    BY <1>0, <1>3 DEF Owned
  <2>2. low \cap reach = {} /\ reach \cap ahead = {}
    <3>1. \A a \in low, b \in reach : a < b
      BY <1>3 DEF Stacked
    <3>2. \A a \in low \cup reach : ~(a < a)
      BY <2>1
    <3> QED  BY <1>3, <3>1, <3>2
  <2>3. /\ new \cup Range(spent) = reach /\ new \cap Range(spent) = {}
    BY <1>6, NoIds
  <2>4. /\ freed' \in Ids /\ Range(freed') = Range(freed) \cup Range(spent) /\ NoneTwice(freed')
    <3>1. NoneTwice(spent)
      BY <1>6, IdsAre
    <3>2. Range(freed) \cap Range(spent) = {}
      BY <2>1, <2>3
    <3> QED  BY <1>4, <1>6, <2>1, <3>1, <3>2, ConcatIs
  <2>5. Strings(result') \in Ids /\ Ascending(Strings(result'))
    BY <1>0, <1>4, <1>6 DEF Owned
  <2>6. look' = look /\ text' = text
    BY <1>1
  <2>7. CASE lhs = "statement"
    <3>1. Stacked(Len(stack))' = low /\ Range(Strings(result')) = new /\ stored = {}
      BY <1>4, <1>9, <1>10, <2>7, NilIs, NoIds
    <3> HIDE DEF low, ahead, stored, new, reach
    <3>2. /\ Range(freed') \cup low \cup ahead \cup new = 1 .. Allocated(text)
          /\ Range(freed') \cap (low \cup ahead \cup new) = {}
          /\ new \cap (low \cup ahead) = {}
      BY <2>1, <2>2, <2>3, <2>4, <3>1
    <3> QED  BY <2>4, <2>5, <2>6, <3>1, <3>2 DEF Owned, ahead
  <2>8. CASE lhs # "statement"
    <3>1. Stacked(Len(stack))' = low \cup new /\ Range(Strings(result')) = stored
      BY <1>4, <1>9, <2>8
    <3> HIDE DEF low, ahead, stored, new, reach
    <3>2. /\ Range(freed') \cup (low \cup new) \cup ahead \cup stored = 1 .. Allocated(text)
          /\ Range(freed') \cap (low \cup new \cup ahead \cup stored) = {}
          /\ stored \cap (low \cup new \cup ahead) = {}
      BY <2>1, <2>2, <2>3, <2>4
    <3> QED  BY <2>4, <2>5, <2>6, <3>1, <3>2 DEF Owned, ahead
  <2> QED  BY <2>7, <2>8
<1>13. Phase'
  <2>1. stack' # <<>>
    BY <1>3, <1>9
  <2>2. result' = NIL \/ result'.struct = "Query"
    BY <1>0, <1>4, <1>6 DEF Phase
  <2>3. result' # NIL => stack'[1].symbol = "statement"
    <3>1. CASE lhs = "statement"
      BY <1>9, <1>10, <3>1
    <3>2. CASE lhs # "statement" /\ result # NIL
      <4>1. stack # <<>> /\ stack[1].symbol = "statement"
        BY <1>0, <1>1, <3>2 DEF Phase
      <4>2. 1 \in 1 .. Len(stack) /\ Len(stack) \in Nat
        BY <1>0, <4>1, EmptySeq, LenProperties DEF Path
      <4>3. 1 \in 1 .. m
        BY <1>3, <4>1, <4>2
      <4> QED  BY <1>9, <4>1, <4>3
    <3> QED  BY <1>4, <3>1, <3>2
  <2> QED  BY <1>0, <1>1, <2>1, <2>2, <2>3 DEF Phase
<1>14. Ended'
  <2>1. ASSUME NEW k \in 1 .. Len(stack'), stack'[k].symbol = End
        PROVE  \E l \in 1 .. Len(stack) : stack[l].symbol = End
    <3>1. k \in 1 .. m
      BY <1>3, <1>9, <2>1
    <3> QED  BY <1>9, <2>1, <3>1
  <2>2. TextEnds' = TextEnds
    BY <1>1 DEF TextEnds
  <2> QED  BY <1>0, <1>1, <2>1, <2>2 DEF Ended
<1> QED  BY <1>9, <1>11, <1>12, <1>13, <1>14 DEF IInv

\* What a failed parse destroys is all the stack holds: what a symbol without a
\* destructor carries is nothing.
LEMMA DestructionIs ==
  ASSUME NEW symbol, NEW value, symbol \notin Destructed => Strings(value) = <<>>
  PROVE  Destruction(symbol, value) = Strings(value)
BY DEF Destruction

\* The strings of a list of values, one after the other.
LEMMA StackedIs ==
  ASSUME Path, Values
  PROVE  LET all == FlattenSeq([i \in DOMAIN stack |-> Strings(stack[i].value)]) IN
         /\ all \in Ids /\ Ascending(all) /\ Range(all) = Stacked(Len(stack))
<1> DEFINE q == [i \in DOMAIN stack |-> Strings(stack[i].value)]
<1>1. Len(stack) \in Nat /\ DOMAIN stack = 1 .. Len(stack)
  BY LenProperties DEF Path
<1>2. q \in [1 .. Len(stack) -> Ids] /\ \A i \in 1 .. Len(stack) : q[i] = Strings(stack[i].value)
  BY <1>1 DEF Values
<1>3. DOMAIN q = 1 .. Len(stack)
  BY <1>1
<1> HIDE DEF q
<1>4. q \in Seq(Ids)
  BY <1>1, <1>2, SeqDef
<1>5. \A i \in DOMAIN q : Ascending(q[i])
  BY <1>2, <1>3 DEF Values
<1>6. \A i, j \in DOMAIN q : i < j => Precedes(q[i], q[j])
  BY <1>2, <1>3 DEF Values
<1>7. UNION {Range(q[i]) : i \in DOMAIN q} = Stacked(Len(stack))
  BY <1>2, <1>3 DEF Stacked
<1> QED  BY <1>4, <1>5, <1>6, <1>7, Flattened DEF q

\* The stack, the lookahead and the result hold different strings.
LEMMA HeldIs ==
  ASSUME IInv
  PROVE  LET all == FlattenSeq([i \in DOMAIN stack |-> Strings(stack[i].value)])
             held == all \o Strings(look.value) \o Strings(result)
         IN  /\ freed \o held \in Ids /\ NoneTwice(freed \o held)
             /\ Range(freed \o held) = 1 .. Allocated(text)
             /\ held \in Ids
             /\ freed \o all \o Strings(look.value) \o Strings(result) = freed \o held
             /\ status \in {"failed", "released"} => held = <<>>
<1> DEFINE all == FlattenSeq([i \in DOMAIN stack |-> Strings(stack[i].value)])
           ahead == Strings(look.value)
           stored == Strings(result)
           held == all \o ahead \o stored
<1>0. Texts /\ Path /\ Values /\ Looking /\ Owned /\ Phase
  BY DEF IInv
<1>1. all \in Ids /\ Ascending(all) /\ Range(all) = Stacked(Len(stack))
  BY <1>0, StackedIs
<1>2. /\ ahead \in Ids /\ Ascending(ahead) /\ stored \in Ids /\ Ascending(stored)
      /\ freed \in Ids /\ NoneTwice(freed)
      /\ Range(freed) \cup Range(all) \cup Range(ahead) \cup Range(stored) = 1 .. Allocated(text)
      /\ Range(freed) \cap (Range(all) \cup Range(ahead) \cup Range(stored)) = {}
      /\ Range(stored) \cap (Range(all) \cup Range(ahead)) = {}
  BY <1>0, <1>1, LookIs DEF Owned
<1>3. Precedes(all, ahead)
  <2>1. \A k \in 1 .. Len(stack) : Precedes(Strings(stack[k].value), ahead)
    BY <1>0 DEF Values
  <2> HIDE DEF all, ahead
  <2> QED  BY <1>1, <2>1 DEF Precedes, Stacked
<1>4. status \in {"failed", "released"} => Range(all) = {} /\ Range(ahead) = {} /\ Range(stored) = {}
  <2>1. SUFFICES ASSUME status \in {"failed", "released"}
                 PROVE  Range(all) = {} /\ Range(ahead) = {} /\ Range(stored) = {}
    OBVIOUS
  <2>2. stack = <<>> /\ look = NoToken /\ result = NIL
    BY <1>0, <2>1 DEF Phase
  <2>3. Stacked(Len(stack)) = {}
    BY <2>2 DEF Stacked
  <2> QED  BY <1>0, <1>1, <2>2, <2>3, LookIs, NilIs, NoIds
<1> HIDE DEF all, ahead, stored
<1>5. /\ all \o ahead \in Ids /\ Range(all \o ahead) = Range(all) \cup Range(ahead)
      /\ NoneTwice(all \o ahead) /\ NoneTwice(stored)
  BY <1>1, <1>2, <1>3, ConcatIs, IdsAre
<1>6. held \in Ids /\ Range(held) = Range(all) \cup Range(ahead) \cup Range(stored) /\ NoneTwice(held)
  BY <1>2, <1>5, ConcatIs
<1>7. freed \o all \o ahead \o stored = freed \o held
  <2>1. \A r, s, t \in Ids : (r \o s) \o t = r \o (s \o t)
    BY ConcatAssociative DEF Ids
  <2>2. freed \in Ids /\ all \in Ids /\ ahead \in Ids /\ stored \in Ids /\ all \o ahead \in Ids
    BY <1>1, <1>2, <1>5
  <2>3. freed \o all \o ahead = freed \o (all \o ahead)
    BY <2>1, <2>2, Zenon
  <2>4. freed \o (all \o ahead) \o stored = freed \o (all \o ahead \o stored)
    BY <2>1, <2>2, Zenon
  <2> QED  BY <2>3, <2>4, Zenon
<1>8. status \in {"failed", "released"} => held = <<>>
  BY <1>4, <1>6, IdsAre
<1> HIDE DEF held
<1>9. /\ freed \o held \in Ids /\ NoneTwice(freed \o held)
      /\ Range(freed \o held) = 1 .. Allocated(text)
  <2>1. Range(freed) \cap Range(held) = {} /\ Range(freed) \cup Range(held) = 1 .. Allocated(text)
    BY <1>2, <1>6
  <2> QED  BY <1>2, <1>6, <2>1, ConcatIs
<1> QED  BY <1>6, <1>7, <1>8, <1>9 DEF held, all, ahead, stored

\* A syntax error: what was held is freed.
LEMMA FailKeeps == ASSUME IInv, Fail PROVE IInv'
<1> DEFINE all == FlattenSeq([i \in DOMAIN stack |-> Strings(stack[i].value)])
<1>0. Texts /\ Path /\ Values /\ Looking /\ Owned /\ Phase /\ Ended
  BY DEF IInv
<1>1. /\ stack' = <<>> /\ look' = NoToken /\ result' = NIL /\ status' = "failed"
      /\ UNCHANGED <<rest, slips, phrases, text>>
  BY DEF Fail
<1>2. freed' = freed \o all \o Strings(look.value) \o Strings(result)
  <2>1. [i \in DOMAIN stack |-> Destruction(stack[i].symbol, stack[i].value)]
          = [i \in DOMAIN stack |-> Strings(stack[i].value)]
    <3>1. DOMAIN stack = 1 .. Len(stack)
      BY <1>0, LenProperties DEF Path
    <3>2. \A i \in DOMAIN stack :
            Destruction(stack[i].symbol, stack[i].value) = Strings(stack[i].value)
      BY <1>0, <3>1, DestructionIs DEF Values
    <3> QED  BY <3>2
  <2>2. Destruction(look.token, look.value) = Strings(look.value)
    BY <1>0, LookIs, DestructionIs
  <2> QED  BY <2>1, <2>2 DEF Fail
<1>3. freed' \in Ids /\ NoneTwice(freed') /\ Range(freed') = 1 .. Allocated(text)
  <2> HIDE DEF all
  <2> QED  BY <1>2, HeldIs DEF all
<1>4. Len(stack') = 0 /\ 1 .. 0 = {}
  BY <1>1
<1>5. Texts' /\ Path'
  BY <1>0, <1>1, <1>4, EmptySeq DEF Texts, Path
<1>6. Values' /\ Looking' /\ Phase'
  BY <1>1, <1>4 DEF Values, Looking, Phase
<1>7. Owned'
  <2>1. Stacked(Len(stack))' = {}
    BY <1>4 DEF Stacked
  <2>2. Strings(look'.value) = <<>> /\ Strings(result') = <<>>
    BY <1>1, NilIs DEF NoToken
  <2> QED  BY <1>1, <1>3, <2>1, <2>2, NoIds DEF Owned
<1>8. Ended'
  BY <1>1, <1>4 DEF Ended, NoToken, NONE, End
<1> QED  BY <1>5, <1>6, <1>7, <1>8 DEF IInv

\* What accepts a text has its statement and its end on the stack only.
LEMMA AcceptKeeps == ASSUME IInv, Accept PROVE IInv'
<1>0. Texts /\ Path /\ Values /\ Looking /\ Owned /\ Phase /\ Ended
  BY DEF IInv
<1>1. /\ stack' = <<>> /\ status' = "accepted" /\ status = "parsing"
      /\ UNCHANGED <<rest, slips, phrases, look, text, freed, result>>
  BY DEF Accept
<1>2. Len(stack) = 2 /\ stack[1].symbol = "statement" /\ stack[2].symbol = End
  BY <1>0, Accepting DEF Accept, Consistent
<1>3. look = NoToken /\ TextEnds
  <2>1. 2 \in 1 .. Len(stack)
    BY <1>2
  <2> QED  BY <1>0, <1>2, <2>1 DEF Ended
<1>4. Stacked(Len(stack)) = {}
  <2>1. \A k \in 1 .. 2 : k = 1 \/ k = 2
    OBVIOUS
  <2>2. \A k \in 1 .. 2 : Strings(stack[k].value) = <<>>
    BY <1>0, <1>2, <2>1, BareSymbols DEF Values
  <2> QED  BY <1>2, <2>2, NoIds DEF Stacked
<1>5. Len(stack') = 0 /\ 1 .. 0 = {}
  BY <1>1
<1>6. Texts' /\ Path' /\ Looking'
  BY <1>0, <1>1, <1>5, EmptySeq DEF Texts, Path, Looking, ValueOf
<1>7. Values' /\ Phase'
  BY <1>0, <1>1, <1>3, <1>5 DEF Values, Phase
<1>8. Owned'
  <2>1. Stacked(Len(stack))' = {}
    BY <1>5 DEF Stacked
  <2> QED  BY <1>0, <1>1, <1>4, <2>1 DEF Owned
<1>9. Ended'
  BY <1>1, <1>3, <1>5 DEF Ended, TextEnds
<1> QED  BY <1>6, <1>7, <1>8, <1>9 DEF IInv

\* Each entry the parser pops on an error has its strings freed.
LEMMA ReleaseKeeps == ASSUME IInv, Release PROVE IInv'
<1>0. Texts /\ Path /\ Values /\ Looking /\ Owned /\ Phase /\ Ended
  BY DEF IInv
<1>1. /\ status = "accepted" /\ freed' = freed \o Strings(result)
      /\ result' = NIL /\ status' = "released"
      /\ UNCHANGED <<rest, slips, phrases, stack, look, text>>
  BY DEF Release
<1>2. stack = <<>> /\ look = NoToken
  BY <1>0, <1>1 DEF Phase
<1>3. Texts' /\ Path' /\ Values' /\ Looking' /\ Phase' /\ Ended'
  BY <1>0, <1>1, <1>2
     DEF Texts, Path, StateAt, Values, Looking, ValueOf, Phase, Ended, TextEnds
<1>4. Owned'
  <2> DEFINE stored == Strings(result)
  <2>1. /\ stored \in Ids /\ Ascending(stored) /\ freed \in Ids /\ NoneTwice(freed)
        /\ Range(freed) \cap Range(stored) = {}
        /\ Range(stored) \cap (Stacked(Len(stack)) \cup Range(Strings(look.value))) = {}
    BY <1>0 DEF Owned
  <2>2. /\ freed' \in Ids /\ Range(freed') = Range(freed) \cup Range(stored) /\ NoneTwice(freed')
    <3> HIDE DEF stored
    <3>1. NoneTwice(stored)
      BY <2>1, IdsAre
    <3> QED  BY <1>1, <2>1, <3>1, ConcatIs DEF stored
  <2>3. Stacked(Len(stack))' = Stacked(Len(stack))
    BY <1>1 DEF Stacked
  <2>4. Strings(result') = <<>>
    BY <1>1, NilIs
  <2> HIDE DEF stored
  <2>5. /\ Range(freed) \cup Stacked(Len(stack)) \cup Range(Strings(look.value)) \cup Range(stored)
             = 1 .. Allocated(text)
        /\ Range(freed) \cap (Stacked(Len(stack)) \cup Range(Strings(look.value))) = {}
    BY <1>0 DEF Owned, stored
  <2> QED  BY <1>1, <2>1, <2>2, <2>3, <2>4, <2>5, NoIds DEF Owned
<1> QED  BY <1>3, <1>4 DEF IInv

-----------------------------------------------------------------------------
(* The theorems *)

\* Every step keeps IInv.
LEMMA StepKeeps == IInv /\ [Next]_vars => IInv'
<1> SUFFICES ASSUME IInv, [Next]_vars PROVE IInv'
  OBVIOUS
<1>1. CASE UNCHANGED vars
  BY <1>1 DEF vars, IInv, Texts, Path, StateAt, Values, Looking, ValueOf, Owned, Stacked, Phase,
              Ended, TextEnds
<1> QED  BY <1>1, SlipKeeps, WriteKeeps, ScanEndKeeps, ScanTokenKeeps, ShiftKeeps, ReduceKeeps,
            FailKeeps, AcceptKeeps, ReleaseKeeps DEF Next

\* The stack spells a path of the grammar's automaton, and each string scanned
\* is in one place: on the stack in the order of the text, ahead, in the result
\* or freed.
THEOREM Invariance == Spec => []IInv
BY InitOk, StepKeeps, PTL DEF Spec

\* How many there are in a sequence in which none is twice.
LEMMA HowMany ==
  ASSUME NEW s \in Ids, NoneTwice(s), NEW n \in Nat, Range(s) = 1 .. n
  PROVE  Len(s) = n
<1>1. Len(s) \in Nat /\ DOMAIN s = 1 .. Len(s) /\ s \in [1 .. Len(s) -> Nat]
  BY LenProperties DEF Ids
<1>2. s \in Bijection(1 .. Len(s), 1 .. n)
  <2>1. \A a : a \in 1 .. n <=> \E i \in 1 .. Len(s) : a = s[i]
    BY <1>1, IdsAre
  <2>2. s \in [1 .. Len(s) -> 1 .. n]
    BY <1>1, <2>1
  <2>3. IsInjective(s)
    BY <1>1 DEF NoneTwice, IsInjective
  <2> QED  BY <1>1, <2>1, <2>2, <2>3 DEF Bijection, Injection, Surjection, IsInjective
<1>3. /\ IsFiniteSet(1 .. Len(s)) /\ Cardinality(1 .. Len(s)) = Len(s)
      /\ Cardinality(1 .. n) = n
  <2>1. ASSUME NEW k \in Nat
        PROVE  IsFiniteSet(1 .. k) /\ Cardinality(1 .. k) = k
    <3>1. /\ IsFiniteSet(1 .. k)
          /\ Cardinality(1 .. k) = IF 1 > k THEN 0 ELSE k - 1 + 1
      BY FS_Interval
    <3> QED  BY <3>1
  <2> QED  BY <1>1, <2>1
<1>4. ExistsBijection(1 .. Len(s), 1 .. n)
  BY <1>2 DEF ExistsBijection
<1> QED  BY <1>3, <1>4, FS_Bijection

\* What the invariant gives: the types,
LEMMA Typed == IInv => TypeOK
<1> SUFFICES ASSUME IInv PROVE TypeOK
  OBVIOUS
<1>0. Texts /\ Path /\ Values /\ Looking /\ Owned /\ Phase
  BY DEF IInv
<1>1. OneReduction
  <2>1. Top \in Automaton
    <3>1. Len(stack) \in 0 .. Len(stack)
      BY <1>0, LenProperties DEF Path
    <3> QED  BY <1>0, <3>1, TopIs, StatesAre
  <2>2. \A p, q \in Complete(Top) : p = q
    BY <2>1, AutomatonAssumption DEF Complete
  <2>3. CASE Complete(Top) = {}
    BY <2>3, FS_EmptySet DEF OneReduction
  <2>4. CASE Complete(Top) # {}
    <3>1. PICK p : p \in Complete(Top)
      BY <2>4
    <3>2. Complete(Top) = {p}
      BY <2>2, <3>1
    <3>3. Cardinality(Complete(Top)) = 1
      <4> HIDE DEF Complete
      <4> QED  BY <3>2, FS_Singleton
    <3> QED  BY <3>3 DEF OneReduction
  <2> QED  BY <2>3, <2>4
<1>2. Range(rest) \subseteq Written /\ Range(text) \subseteq Written
  BY <1>0, RangeOfSeq DEF Texts
<1>3. Range(freed) \subseteq 1 .. Allocated(text)
  BY <1>0 DEF Owned
<1>4. \A i \in DOMAIN stack : stack[i].state # {}
  BY <1>0, LenProperties DEF Path
<1>5. look.value.struct \in {"nil", "str"} /\ result.struct \in {"nil", "Query"}
  BY <1>0, LookIs, NilIs DEF Phase
<1> QED  BY <1>0, <1>1, <1>2, <1>3, <1>4, <1>5 DEF TypeOK, Texts, Phase

\* Wherever the parser is, at most one production is complete, and every value
\* is of its type.
THEOREM TypeCorrect == Spec => []TypeOK
BY Invariance, Typed, PTL

\* the ownership of the strings,
LEMMA Owning == IInv => Ownership
<1> SUFFICES ASSUME IInv PROVE Ownership
  OBVIOUS
<1> DEFINE held == FlattenSeq([i \in DOMAIN stack |-> Strings(stack[i].value)])
                   \o Strings(look.value) \o Strings(result)
<1>1. /\ freed \o held \in Ids /\ NoneTwice(freed \o held)
      /\ Range(freed \o held) = 1 .. Allocated(text)
      /\ status \in {"failed", "released"} => held = <<>>
  BY HeldIs
<1>2. Allocated(text) \in Nat
  BY LookIs DEF IInv
<1> HIDE DEF held
<1>3. Len(freed \o held) = Allocated(text)
  BY <1>1, <1>2, HowMany
<1> QED  BY <1>1, <1>3 DEF Ownership, held

\* Each string the scanner allocates is freed once or owned once, whatever the
\* text, wherever an error strikes.
THEOREM EachOwnedOnce == Spec => []Ownership
BY Invariance, Owning, PTL

\* their order in the tree,
LEMMA Ordered == IInv => TextOrder
BY DEF IInv, Owned, TextOrder, Ascending

\* The tree of an accepted text has its strings in the order of the text.
THEOREM KeepsTextOrder == Spec => []TextOrder
BY Invariance, Ordered, PTL

\* What is scanned is of the grammar, but for a token the parser has not taken yet.
Scanned == status # "failed" => Range(text) \subseteq Tokens \cup {look.token}

\* A token shifted is one of the grammar.
LEMMA ShiftedIs == ASSUME IInv, Shift PROVE look.token \in Tokens
<1>0. Path /\ Texts /\ Looking
  BY DEF IInv
<1>1. Len(stack) \in 0 .. Len(stack) /\ Top = StateAt(Len(stack))
  BY <1>0, LenProperties, TopIs DEF Path
<1>2. PICK j \in StateAt(Len(stack)) : j.next = look.token
  <2>1. Decision(Cypher, Top, look.token) = "shift"
    BY DEF Shift, Acts
  <2> QED  BY <1>1, <2>1 DEF Decision
<1>3. j \in Items /\ look.token # NONE
  <2>1. look # NoToken
    BY DEF Shift, Acts
  <2>2. NONE \notin Written /\ End # NONE
    BY TextAssumption DEF End, NONE
  <2> QED  BY <1>0, <1>1, <1>2, <2>1, <2>2, StatesAre DEF Looking
<1> QED  BY <1>2, <1>3, ItemNext, ItemsAre DEF Tokens, Rhs, Range

\* Each step keeps it: what follows an unexpected token is an error.
LEMMA ScannedKeeps == ASSUME IInv, Scanned, [Next]_vars PROVE Scanned'
<1>0. /\ Range(text) \subseteq Written /\ NONE \notin Written
      /\ look = NoToken => look.token = NONE
  BY RangeOfSeq, TextAssumption DEF IInv, Texts, NoToken
<1>1. CASE ScanEnd
  BY <1>0, <1>1 DEF Scanned, ScanEnd, Asks
<1>2. CASE ScanToken
  <2>1. text \in Seq(Written) /\ rest \in Seq(Written) /\ rest # <<>> /\ Head(rest) \in Written
    BY <1>2, HeadTailProperties DEF ScanToken, TextEnds, IInv, Texts
  <2>2. Range(text') = Range(text) \cup {Head(rest)}
    <3>1. text' = Append(text, Head(rest))
      BY <1>2 DEF ScanToken
    <3>2. /\ Len(text) \in Nat /\ DOMAIN text = 1 .. Len(text)
          /\ DOMAIN text' = 1 .. Len(text) + 1 /\ text'[Len(text) + 1] = Head(rest)
          /\ \A i \in 1 .. Len(text) : text'[i] = text[i]
      BY <2>1, <3>1, AppendProperties, LenProperties
    <3>3. 1 .. Len(text) + 1 = 1 .. Len(text) \cup {Len(text) + 1}
      BY <3>2
    <3> QED  BY <3>2, <3>3 DEF Range
  <2> QED  BY <1>0, <1>2, <2>2 DEF Scanned, ScanToken, Asks
<1>3. CASE Shift
  BY <1>0, <1>3, ShiftedIs DEF Scanned, Shift, Acts
<1>4. CASE Reduce
  BY <1>4 DEF Scanned, Reduce
<1>5. CASE Fail
  BY <1>5 DEF Scanned, Fail
<1>6. CASE Slip \/ Write \/ Accept \/ Release \/ UNCHANGED vars
  BY <1>6 DEF Scanned, Slip, Write, Accept, Release, vars
<1> QED  BY <1>1, <1>2, <1>3, <1>4, <1>5, <1>6 DEF Next

\* and that only a byte above 127 ends a text early.
LEMMA Whole == IInv /\ Scanned => AcceptsUpToHigh
<1> SUFFICES ASSUME IInv, Scanned, status \in {"accepted", "released"} PROVE AcceptsUpToHigh
  BY DEF AcceptsUpToHigh
<1>1. look.token = NONE /\ TextEnds
  BY DEF IInv, Phase, Ended, NoToken
<1>2. Range(text) \subseteq Tokens
  <2>1. Range(text) \subseteq Written /\ NONE \notin Written
    BY RangeOfSeq, TextAssumption DEF IInv, Texts
  <2> QED  BY <1>1, <2>1 DEF Scanned
<1> QED  BY <1>1, <1>2 DEF TextEnds, AcceptsUpToHigh

\* Whether char is signed or not, an accepted text is one of the grammar's tokens
\* to its end, or to a byte above 127 where char is signed.
THEOREM AcceptsAllOfIt == Spec => []AcceptsUpToHigh
<1>1. Init => Scanned
  BY EmptySeq DEF Init, Scanned, Range
<1>2. Spec => []Scanned
  BY <1>1, Invariance, ScannedKeeps, PTL DEF Spec
<1> QED  BY <1>2, Invariance, Whole, PTL
=============================================================================
