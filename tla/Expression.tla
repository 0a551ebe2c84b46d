----------------------------- MODULE Expression -----------------------------
(* WHERE expressions, from the tokens of the query to what SQLite makes of   *)
(* the SQL: the tree the parser builds, the tokens emit_expr writes for it,  *)
(* and the tree SQLite's own parser reads back from them.                    *)
EXTENDS Parser

\* Trees common to both languages: an operator over its operands, and a leaf
\* known by its string's place in the query (0: a constant of the emission).
Tree(op, args) == [op |-> op, leaf |-> 0, args |-> args]
Leaf(n) == [op |-> "leaf", leaf |-> n, args |-> <<>>]

LikeKinds == {"STARTS_WITH", "ENDS_WITH", "CONTAINS"}
CmpKinds == {"=", "<>", "<", ">", "<=", ">="}

LeafOf(e) ==
  CASE e.kind = "BOOL" -> Leaf(0)
    [] e.kind = "PROPERTY" -> Leaf(e.fields.key.id)
    [] OTHER -> Leaf(e.fields.lit_text.id)

RECURSIVE Members(_)
Members(list) ==
  <<list.fields.expr>> \o
    (IF "next" \in DOMAIN list.fields THEN Members(list.fields.next) ELSE <<>>)

\* What emit_expr refuses: a bare variable, a function, a pattern match whose
\* right-hand side is no string literal; anywhere in the expression.
RECURSIVE Supported(_)
Supported(e) ==
  CASE e.kind \in {"VARIABLE", "FUNC"} -> FALSE
    [] e.kind \in LikeKinds -> e.fields.right.kind = "STRING" /\ Supported(e.fields.left)
    [] e.kind = "IN" -> /\ Supported(e.fields.left)
                        /\ \A x \in Range(Members(e.fields.args)) : Supported(x)
    [] "right" \in DOMAIN e.fields -> Supported(e.fields.left) /\ Supported(e.fields.right)
    [] "left" \in DOMAIN e.fields -> Supported(e.fields.left)
    [] OTHER -> TRUE

\* A token of the SQL text; a column or a value is a "LEAF".
Sql(token) == <<[token |-> token, value |-> Leaf(0)]>>
SqlLeaf(leaf) == <<[token |-> "LEAF", value |-> leaf]>>

\* emit_literal: NULL is a keyword, the booleans are the numbers 1 and 0.
EmittedLeaf(e) == IF e.kind = "NULL" THEN Sql("NULL") ELSE SqlLeaf(LeafOf(e))

\* A mutant of Enclosed: no parentheses around AND, OR and NOT.
Bare(tokens) == tokens
Enclosed(tokens) == Sql("(") \o tokens \o Sql(")")

RECURSIVE Emitted(_)
Emitted(e) ==
  CASE e.kind \in {"OR", "AND"} ->
         Enclosed(Emitted(e.fields.left) \o Sql(e.kind) \o Emitted(e.fields.right))
    [] e.kind = "NOT" -> Enclosed(Sql("NOT") \o Emitted(e.fields.left))
    [] e.kind \in CmpKinds ->
         Emitted(e.fields.left) \o Sql(e.kind) \o Emitted(e.fields.right)
    [] e.kind = "IN" ->
         LET texts == [i \in DOMAIN Members(e.fields.args) |->
                         IF i = 1 THEN Emitted(Members(e.fields.args)[i])
                         ELSE Sql(",") \o Emitted(Members(e.fields.args)[i])]
         IN  Emitted(e.fields.left) \o Sql("IN") \o Sql("(") \o FlattenSeq(texts) \o Sql(")")
    [] e.kind = "IS_NULL" -> Emitted(e.fields.left) \o Sql("IS") \o Sql("NULL")
    [] e.kind = "IS_NOT_NULL" -> Emitted(e.fields.left) \o Sql("ISNOT") \o Sql("NULL")
    [] e.kind \in LikeKinds ->
         Emitted(e.fields.left) \o Sql("LIKE") \o SqlLeaf(LeafOf(e.fields.right))
         \o Sql("ESCAPE") \o SqlLeaf(Leaf(0))
    [] OTHER -> EmittedLeaf(e)

\* The same expression as a tree of SQL operators, as emit_expr intends it.
RECURSIVE Meant(_)
Meant(e) ==
  CASE e.kind \in {"OR", "AND"} \cup CmpKinds ->
         Tree(e.kind, <<Meant(e.fields.left), Meant(e.fields.right)>>)
    [] e.kind = "NOT" -> Tree("NOT", <<Meant(e.fields.left)>>)
    [] e.kind = "IN" ->
         Tree("IN", <<Meant(e.fields.left)>> \o
                [i \in DOMAIN Members(e.fields.args) |-> Meant(Members(e.fields.args)[i])])
    [] e.kind = "IS_NULL" -> Tree("IS", <<Meant(e.fields.left), Tree("NULL", <<>>)>>)
    [] e.kind = "IS_NOT_NULL" -> Tree("ISNOT", <<Meant(e.fields.left), Tree("NULL", <<>>)>>)
    [] e.kind \in LikeKinds ->
         Tree("LIKE", <<Meant(e.fields.left), LeafOf(e.fields.right), Leaf(0)>>)
    [] e.kind = "NULL" -> Tree("NULL", <<>>)
    [] OTHER -> LeafOf(e)

-----------------------------------------------------------------------------
(* SQLite's grammar of these expressions, with its precedences: the          *)
(* equalities, IS, IN and LIKE are one left-associative level, the           *)
(* inequalities the next tighter one.                                        *)

SqlP(lhs, rhs, op, args) == [P(lhs, rhs, Nothing) EXCEPT !.act = [op |-> op, args |-> args]]
SqlBinary(op) == SqlP("expr", <<"expr", op, "expr">>, op, <<1, 3>>)

SqlProductions == <<
  SqlP("$accept", <<"expr", End>>, "same", <<1>>),
  SqlP("expr", <<"LEAF">>, "same", <<1>>),
  SqlP("expr", <<"NULL">>, "NULL", <<>>),
  SqlP("expr", <<"(", "expr", ")">>, "same", <<2>>),
  SqlP("expr", <<"NOT", "expr">>, "NOT", <<2>>),
  [SqlP("expr", <<"expr", "LIKE", "expr", "ESCAPE", "expr">>, "LIKE", <<1, 3, 5>>)
     EXCEPT !.prec = "LIKE"],
  SqlP("expr", <<"expr", "IN", "(", "list", ")">>, "IN", <<1, 4>>),
  SqlP("list", <<"expr">>, "first", <<1>>),
  SqlP("list", <<"list", ",", "expr">>, "more", <<1, 3>>),
  SqlBinary("OR"), SqlBinary("AND"), SqlBinary("IS"), SqlBinary("ISNOT"), SqlBinary("="),
  SqlBinary("<>"), SqlBinary("<"), SqlBinary(">"), SqlBinary("<="), SqlBinary(">=") >>

SqlLevels == <<
  [assoc |-> "left", tokens |-> {"OR"}],
  [assoc |-> "left", tokens |-> {"AND"}],
  [assoc |-> "right", tokens |-> {"NOT"}],
  [assoc |-> "left", tokens |-> {"=", "<>", "IS", "ISNOT", "IN", "LIKE"}],
  [assoc |-> "left", tokens |-> {"<", ">", "<=", ">="}],
  [assoc |-> "right", tokens |-> {"ESCAPE"}] >>

Sqlite == TheGrammar(SqlProductions, SqlLevels)

SqlValue(act, vals) ==
  CASE act.op = "same" -> vals[act.args[1]]
    [] act.op = "first" -> Tree("list", <<vals[1]>>)
    [] act.op = "more" -> Tree("list", Append(vals[1].args, vals[3]))
    [] act.op = "IN" -> Tree("IN", <<vals[1]>> \o vals[4].args)
    [] OTHER -> Tree(act.op, [i \in DOMAIN act.args |-> vals[act.args[i]]])

\* SQLite's parser from a stack on; no tree when the text is no expression.
RECURSIVE SqlRun(_, _)
SqlRun(below, input) ==
  LET top == Last(below).state
      does == IF Consistent(Sqlite, top) THEN "reduce"
              ELSE Decision(Sqlite, top, Head(input).token)
      p == Reduced(Sqlite, top)
      kept == Len(below) - Len(p.rhs)
      value == SqlValue(p.act, [i \in DOMAIN p.rhs |-> below[kept + i].value])
  IN  CASE does = "error" -> Tree("none", <<>>)
        [] does = "shift" ->
             SqlRun(Append(below, [value |-> Head(input).value,
                                   state |-> Goto(Sqlite, top, Head(input).token)]),
                    Tail(input))
        [] OTHER ->
             IF p.lhs = "$accept" THEN value
             ELSE SqlRun(Append(SubSeq(below, 1, kept),
                                [value |-> value,
                                 state |-> Goto(Sqlite, below[kept].state, p.lhs)]),
                         input)

ReadBySqlite(tokens) ==
  SqlRun(<<[value |-> Leaf(0), state |-> Start(Sqlite)]>>, tokens \o Sql(End))

-----------------------------------------------------------------------------
(* When the missing parentheses do no harm.                                  *)

Tightness(kind) ==
  IF kind \in {"=", "<>", "IN", "IS_NULL", "IS_NOT_NULL"} \cup LikeKinds THEN {1}
  ELSE IF kind \in CmpKinds THEN {2} ELSE {}

\* The operators exposed at the left and at the right end of e's SQL text.
RECURSIVE LeftEdge(_)
LeftEdge(e) ==
  Tightness(e.kind) \cup IF Tightness(e.kind) = {} THEN {} ELSE LeftEdge(e.fields.left)

RECURSIVE RightEdge(_)
RightEdge(e) ==
  IF e.kind = "IN" THEN {}
  ELSE Tightness(e.kind) \cup IF e.kind \in CmpKinds THEN RightEdge(e.fields.right) ELSE {}

RECURSIVE SafeNesting(_)
SafeNesting(e) ==
  /\ \A k \in Tightness(e.kind) :
       /\ \A l \in RightEdge(e.fields.left) : l >= k
       /\ e.kind \in CmpKinds => \A r \in LeftEdge(e.fields.right) : r > k
  /\ "left" \in DOMAIN e.fields => SafeNesting(e.fields.left)
  /\ "right" \in DOMAIN e.fields => SafeNesting(e.fields.right)
  /\ e.kind = "IN" => \A x \in Range(Members(e.fields.args)) : SafeNesting(x)

-----------------------------------------------------------------------------
(* The reference reading of the query's own text, by splitting it: OR is the *)
(* loosest operator, then AND, both to the left, then NOT, then comparisons. *)

\* The tokens of the WHERE, each string token with its place among them.
WhereText ==
  LET numbered == [i \in DOMAIN text |->
                     [token |-> text[i], id |-> Allocated(SubSeq(text, 1, i))]]
      from == CHOOSE i \in DOMAIN text : text[i] = "WHERE"
      to == CHOOSE i \in DOMAIN text : text[i] = "RETURN"
  IN  SubSeq(numbered, from + 1, to - 1)

Outside(ts, tokens) ==
  {i \in DOMAIN ts :
     /\ ts[i].token \in tokens
     /\ Cardinality({j \in 1..i : ts[j].token \in {"(", "["}})
          = Cardinality({j \in 1..i : ts[j].token \in {")", "]"}})}

CypherCmp == {"=", "NE", "<", ">", "LE", "GE", "STARTS", "ENDS", "CONTAINS", "IN", "IS"}

RECURSIVE Split(_), SplitList(_)
SplitList(ts) ==
  LET commas == Outside(ts, {","})
  IN  IF commas = {} THEN <<Split(ts)>>
      ELSE <<Split(SubSeq(ts, 1, Min(commas) - 1))>>
             \o SplitList(SubSeq(ts, Min(commas) + 1, Len(ts)))

Split(ts) ==
  LET ors == Outside(ts, {"OR"})
      ands == Outside(ts, {"AND"})
      nots == {i \in Outside(ts, {"NOT"}) : i = 1 \/ ts[i - 1].token # "IS"}
      cmps == {i \in Outside(ts, CypherCmp) : \A j \in nots : i < j}
      at == IF ors # {} THEN Max(ors) ELSE IF ands # {} THEN Max(ands) ELSE Max(cmps)
      left == Split(SubSeq(ts, 1, at - 1))
      right(skip) == Split(SubSeq(ts, at + 1 + skip, Len(ts)))
  IN  CASE ors # {} -> Tree("OR", <<left, right(0)>>)
        [] ors = {} /\ ands # {} -> Tree("AND", <<left, right(0)>>)
        [] ors \cup ands = {} /\ ts[1].token = "NOT" ->
             Tree("NOT", <<Split(Tail(ts))>>)
        [] ors \cup ands = {} /\ ts[1].token # "NOT" /\ cmps # {} ->
             CASE ts[at].token \in {"STARTS", "ENDS"} ->
                    Tree("LIKE", <<left, right(1), Leaf(0)>>)
               [] ts[at].token = "CONTAINS" -> Tree("LIKE", <<left, right(0), Leaf(0)>>)
               [] ts[at].token = "IN" -> 
                    Tree("IN", <<left>> \o SplitList(SubSeq(ts, at + 2, Len(ts) - 1)))
               [] ts[at].token = "IS" ->
                    Tree(IF Len(ts) = at + 1 THEN "IS" ELSE "ISNOT",
                         <<left, Tree("NULL", <<>>)>>)
               [] OTHER -> Tree(CASE ts[at].token = "NE" -> "<>"
                                  [] ts[at].token = "LE" -> "<="
                                  [] ts[at].token = "GE" -> ">="
                                  [] OTHER -> ts[at].token, <<left, right(0)>>)
        [] OTHER ->
             CASE ts[1].token = "(" -> Split(SubSeq(ts, 2, Len(ts) - 1))
               [] ts[1].token = "NULLTOK" -> Tree("NULL", <<>>)
               [] ts[1].token \in {"TRUETOK", "FALSETOK"} -> Leaf(0)
               [] OTHER -> Leaf(Last(ts).id)

-----------------------------------------------------------------------------

Where == result.fields.matches.fields.where

\* A text was accepted whose WHERE emit_expr has a translation for.
Translated == status = "accepted" /\ IF Where = NIL THEN FALSE ELSE Supported(Where)

\* The parser groups an expression as its operators' precedences say, however
\* shifts and reductions interleave: OR loosest, then AND, NOT, comparisons.
GroupsAsSplit ==
  Translated => Meant(Where) = Split(WhereText)

\* SQLite reads the emitted text back as the tree it was emitted from exactly
\* when no comparison, IN, IS or LIKE has one as an operand that binds no
\* tighter (on the right) or looser (on the left) than itself: the
\* parentheses around OR, AND and NOT suffice for everything else.
ReadBackIffSafe ==
  Translated =>
    (ReadBySqlite(Emitted(Where)) = Meant(Where) <=> SafeNesting(Where))

\* emit_expr emits a boolean or value expression as SQL: SQLite reads the text
\* back as the expression that was parsed.
ReadBack ==
  Translated => ReadBySqlite(Emitted(Where)) = Meant(Where)

\* The text of a query is taken for what it says: what is accepted is all of it
\* (an "unexpected char" is a "parser error", says the scanner's last rule), and
\* its expressions reach SQLite with the grouping they were written with.
TextAsWritten == AcceptsWholeText /\ ReadBack
=============================================================================
