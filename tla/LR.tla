--------------------------------- MODULE LR ---------------------------------
(* The decisions of a generated shift/reduce parser (bison's for Cypher, and *)
(* lemon's for SQLite): the LR(0) automaton of a grammar, the default        *)
(* reduction of a state, and the precedences that settle shift against       *)
(* reduce.  No state of these grammars has two complete productions, so the  *)
(* lookahead sets of LALR(1) are never consulted (see OneReduction).         *)
(*                                                                           *)
(* A grammar G is made by Grammar from its productions, a sequence of        *)
(* [lhs, rhs, prec], the start's first, and its precedence levels, loosest   *)
(* first, each an associativity and a set of tokens.                         *)
EXTENDS Naturals, Sequences

LOCAL INSTANCE FiniteSetsExt

NONE == "none"
End == "$end"

Lhs(productions) == {productions[p].lhs : p \in DOMAIN productions}

\* Which nonterminals can stand first in a string derived from another: the
\* reflexive and transitive closure of "begins a production of" (Warshall's).
Corners(productions) ==
  LET symbols == Lhs(productions)
      begun == {p \in DOMAIN productions :
                  IF productions[p].rhs = <<>> THEN FALSE
                  ELSE productions[p].rhs[1] \in symbols}
      begins == {<<productions[p].lhs, productions[p].rhs[1]>> : p \in begun}
      via(k, reach) == reach \cup {<<a[1], b[2]>> : a \in {x \in reach : x[2] = k},
                                                   b \in {y \in reach : y[1] = k}}
  IN  FoldSet(via, begins \cup {<<m, m>> : m \in symbols}, symbols)

\* An item [p, d]: d symbols of production p's right-hand side are read, and
\* next is the one that follows, or NONE when the production is complete.
Item(productions, p, d) ==
  [p |-> p, d |-> d,
   next |-> IF d = Len(productions[p].rhs) THEN NONE ELSE productions[p].rhs[d + 1]]

TheGrammar(productions, levels) ==
  LET corners == Corners(productions)
      fresh(m) == {p \in DOMAIN productions : <<m, productions[p].lhs>> \in corners}
  IN  [productions |-> productions,
       levels |-> levels,
       begun |-> [m \in Lhs(productions) |->
                    {Item(productions, p, 0) : p \in fresh(m)}]]

Closure(G, kernel) ==
  kernel \cup UNION {G.begun[i.next] : i \in {j \in kernel : j.next \in DOMAIN G.begun}}

Start(G) == Closure(G, {Item(G.productions, 1, 0)})

Goto(G, state, symbol) ==
  Closure(G, {Item(G.productions, i.p, i.d + 1) : i \in {j \in state : j.next = symbol}})

Complete(state) == {i.p : i \in {j \in state : j.next = NONE}}

\* A state whose only action is a reduction takes it without a lookahead.
Consistent(G, state) ==
  /\ Complete(state) # {}
  /\ \A i \in state : i.next \in DOMAIN G.begun \cup {NONE}

LevelOf(G, token) == {l \in DOMAIN G.levels : token \in G.levels[l].tokens}

\* A production has the precedence of its %prec, else of its last token.
ProductionLevel(G, p) ==
  LET rhs == G.productions[p].rhs
      ranked == {k \in DOMAIN rhs : LevelOf(G, rhs[k]) # {}}
  IN  IF G.productions[p].prec # NONE THEN LevelOf(G, G.productions[p].prec)
      ELSE IF ranked = {} THEN {}
      ELSE LevelOf(G, rhs[Max(ranked)])

\* What settles a state that can both shift the token and reduce p.
Settled(G, p, token) ==
  LET ranks == ProductionLevel(G, p) \X LevelOf(G, token)
      production == (CHOOSE r \in ranks : TRUE)[1]
      tokens == (CHOOSE r \in ranks : TRUE)[2]
  IN  IF ranks = {} \/ tokens > production THEN "shift"
      ELSE IF tokens < production THEN "reduce"
      ELSE CASE G.levels[tokens].assoc = "left" -> "reduce"
             [] G.levels[tokens].assoc = "right" -> "shift"
             [] OTHER -> "error"

\* The production a state reduces by, of those it completes: there is one.
TheComplete(state) == CHOOSE p \in Complete(state) : TRUE

\* What the state does on a token: "shift", "reduce" or "error".
Decision(G, state, token) ==
  LET canShift == \E i \in state : i.next = token
  IN  IF Complete(state) = {} THEN IF canShift THEN "shift" ELSE "error"
      ELSE IF ~canShift THEN "reduce"
      ELSE Settled(G, TheComplete(state), token)

\* The production a state reduces by.
Reduced(G, state) == G.productions[TheComplete(state)]

\* The states of the automaton that at most so many symbols lead to.
States(G, steps) ==
  LET after[n \in Nat] ==
        IF n = 0 THEN {Start(G)}
        ELSE LET before == after[n - 1]
                 next(s) == {Goto(G, s, i.next) : i \in {j \in s : j.next # NONE}}
             IN  before \cup UNION {next(s) : s \in before}
  IN  after[steps]
=============================================================================
