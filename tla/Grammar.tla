------------------------------ MODULE Grammar -------------------------------
(* The grammar of src/src/cypher_parser.y as data: its productions with what *)
(* their semantic actions do to the values of the right-hand side, its       *)
(* precedences, and which pointers of each struct the ast_free functions     *)
(* release.                                                                  *)
EXTENDS LR

\* Tokens that carry a string the scanner allocated (%token <str>).
StringTokens == {"IDENT", "BQIDENT", "STRING", "INTEGER", "REAL"}

P(lhs, rhs, act) == [lhs |-> lhs, rhs |-> rhs, prec |-> NONE, act |-> act]
PrecP(lhs, rhs, prec, act) == [P(lhs, rhs, act) EXCEPT !.prec = prec]

\* The semantic actions: a constructor call (fields: the $i each pointer gets),
\* $$ = $i, $$ = NULL (or a number), $i->next = $j, and free() of spent strings.
New(struct, kind, fields) ==
  [do |-> "new", struct |-> struct, kind |-> kind, fields |-> fields]
Same(i) == [do |-> "same", from |-> i]
Nothing == [do |-> "nothing"]
Chain(i, j) == [do |-> "chain", from |-> i, next |-> j]
Spend(is) == [do |-> "spend", of |-> is]

StatementRules == <<
  P("$accept", <<"statement", "$end">>, Nothing),
  P("statement", <<"match_list", "return_clause", "opt_semicolon">>,
    New("Query", NONE, [matches |-> 1, ret |-> 2])),
  P("opt_semicolon", <<>>, Nothing),
  P("opt_semicolon", <<";">>, Nothing),
  P("match_list", <<"match_clause">>, Same(1)),
  P("match_list", <<"match_clause", "match_list">>, Chain(1, 2)),
  P("match_clause", <<"MATCH", "pattern_list", "where_opt">>,
    New("Match", NONE, [patterns |-> 2, where |-> 3])),
  P("where_opt", <<>>, Nothing),
  P("where_opt", <<"WHERE", "expr">>, Same(2)) >>

PatternRules == <<
  P("pattern_list", <<"pattern">>, New("PathList", NONE, [path |-> 1])),
  P("pattern_list", <<"pattern", ",", "pattern_list">>,
    New("PathList", NONE, [path |-> 1, next |-> 3])),
  P("pattern", <<"node_pattern", "path_tail">>,
    New("Path", NONE, [start |-> 1, segments |-> 2])),
  P("path_tail", <<>>, Nothing),
  P("path_tail", <<"relationship", "node_pattern", "path_tail">>,
    New("Segment", NONE, [rel |-> 1, node |-> 2, next |-> 3])),
  P("node_pattern", <<"(", "variable_opt", "labels_opt", "properties_opt", ")">>,
    New("NodePat", NONE, [var |-> 2, labels |-> 3, props |-> 4])) >>

RelationshipRules == <<
  P("relationship", <<"-", "rel_body", "ARROW_R">>, Same(2)),
  P("relationship", <<"ARROW_L", "rel_body", "-">>, Same(2)),
  P("relationship", <<"-", "rel_body", "-">>, Same(2)),
  P("rel_body", <<>>, New("RelPat", NONE, [var |-> 0])),
  P("rel_body", <<"[", "rel_detail", "]">>, Same(2)),
  P("rel_detail", <<"variable_opt", "rel_types_opt", "varlen_opt", "properties_opt">>,
    New("RelPat", NONE, [var |-> 1, types |-> 2, props |-> 4])),
  P("varlen_opt", <<>>, Nothing),
  P("varlen_opt", <<"*">>, Nothing),
  P("varlen_opt", <<"*", "INTEGER">>, Spend({2})),
  P("varlen_opt", <<"*", "INTEGER", "DOTDOT">>, Spend({2})),
  P("varlen_opt", <<"*", "DOTDOT", "INTEGER">>, Spend({3})),
  P("varlen_opt", <<"*", "INTEGER", "DOTDOT", "INTEGER">>, Spend({2, 4})),
  P("varlen_opt", <<"*", "DOTDOT">>, Nothing) >>

LabelRules == <<
  P("labels_opt", <<>>, Nothing),
  P("labels_opt", <<"labels">>, Same(1)),
  P("labels", <<":", "label">>, New("StrList", NONE, [s |-> 2])),
  P("labels", <<":", "label", "labels">>, New("StrList", NONE, [s |-> 2, next |-> 3])),
  P("rel_types_opt", <<>>, Nothing),
  P("rel_types_opt", <<"rel_types">>, Same(1)),
  P("rel_types", <<":", "type_list">>, Same(2)),
  P("type_list", <<"rel_type">>, New("StrList", NONE, [s |-> 1])),
  P("type_list", <<"rel_type", "|", "type_list">>,
    New("StrList", NONE, [s |-> 1, next |-> 3])) >>

PropertyRules == <<
  P("properties_opt", <<>>, Nothing),
  P("properties_opt", <<"properties">>, Same(1)),
  P("properties", <<"{", "}">>, Nothing),
  P("properties", <<"{", "prop_map", "}">>, Same(2)),
  P("prop_map", <<"property_key", ":", "expr">>,
    New("PropList", NONE, [key |-> 1, value |-> 3])),
  P("prop_map", <<"property_key", ":", "expr", ",", "prop_map">>,
    New("PropList", NONE, [key |-> 1, value |-> 3, next |-> 5])) >>

ReturnRules == <<
  P("return_clause", <<"RETURN", "distinct_opt", "*", "order_opt", "skip_opt", "limit_opt">>,
    New("Return", NONE, [order |-> 4, skip |-> 5, limit |-> 6])),
  P("return_clause", <<"RETURN", "distinct_opt", "return_item_list", "order_opt",
                       "skip_opt", "limit_opt">>,
    New("Return", NONE, [items |-> 3, order |-> 4, skip |-> 5, limit |-> 6])),
  P("distinct_opt", <<>>, Nothing),
  P("distinct_opt", <<"DISTINCT">>, Nothing),
  P("return_item_list", <<"return_item">>, Same(1)),
  P("return_item_list", <<"return_item", ",", "return_item_list">>, Chain(1, 3)),
  P("return_item", <<"expr">>, New("ReturnItem", NONE, [expr |-> 1])),
  P("return_item", <<"expr", "AS", "variable">>,
    New("ReturnItem", NONE, [expr |-> 1, alias |-> 3])),
  P("order_opt", <<>>, Nothing),
  P("order_opt", <<"ORDER", "BY", "sort_list">>, Same(3)),
  P("sort_list", <<"sort_item">>, Same(1)),
  P("sort_list", <<"sort_item", ",", "sort_list">>, Chain(1, 3)),
  P("sort_item", <<"expr", "sort_dir">>, New("SortItem", NONE, [expr |-> 1])),
  P("sort_dir", <<>>, Nothing),
  P("sort_dir", <<"ASC">>, Nothing),
  P("sort_dir", <<"DESC">>, Nothing),
  P("skip_opt", <<>>, Nothing),
  P("skip_opt", <<"SKIP", "expr">>, Same(2)),
  P("limit_opt", <<>>, Nothing),
  P("limit_opt", <<"LIMIT", "expr">>, Same(2)) >>

Binary(kind, op) ==
  P("expr", <<"expr", op, "expr">>, New("Expr", kind, [left |-> 1, right |-> 3]))

ExprRules == <<
  Binary("OR", "OR"), Binary("AND", "AND"),
  P("expr", <<"NOT", "expr">>, New("Expr", "NOT", [left |-> 2])),
  Binary("=", "="), Binary("<>", "NE"), Binary("<", "<"), Binary(">", ">"),
  Binary("<=", "LE"), Binary(">=", "GE"),
  PrecP("expr", <<"expr", "STARTS", "WITH", "expr">>, "STARTS",
        New("Expr", "STARTS_WITH", [left |-> 1, right |-> 4])),
  PrecP("expr", <<"expr", "ENDS", "WITH", "expr">>, "ENDS",
        New("Expr", "ENDS_WITH", [left |-> 1, right |-> 4])),
  Binary("CONTAINS", "CONTAINS"),
  PrecP("expr", <<"expr", "IN", "[", "arg_list", "]">>, "IN",
        New("Expr", "IN", [left |-> 1, args |-> 4])),
  PrecP("expr", <<"expr", "IS", "NULLTOK">>, "IS", New("Expr", "IS_NULL", [left |-> 1])),
  PrecP("expr", <<"expr", "IS", "NOT", "NULLTOK">>, "IS",
        New("Expr", "IS_NOT_NULL", [left |-> 1])),
  P("expr", <<"primary">>, Same(1)) >>

Literal(token, kind) == P("literal", <<token>>, New("Expr", kind, [lit_text |-> 1]))

PrimaryRules == <<
  P("primary", <<"IDENT">>, New("Expr", "VARIABLE", [var |-> 1])),
  P("primary", <<"IDENT", ".", "property_key">>,
    New("Expr", "PROPERTY", [var |-> 1, key |-> 3])),
  P("primary", <<"func_call">>, Same(1)),
  P("primary", <<"literal">>, Same(1)),
  P("primary", <<"(", "expr", ")">>, Same(2)),
  P("func_call", <<"IDENT", "(", ")">>, New("Expr", "FUNC", [func |-> 1])),
  P("func_call", <<"IDENT", "(", "*", ")">>, New("Expr", "FUNC", [func |-> 1])),
  P("func_call", <<"IDENT", "(", "arg_list", ")">>,
    New("Expr", "FUNC", [func |-> 1, args |-> 3])),
  P("func_call", <<"IDENT", "(", "DISTINCT", "arg_list", ")">>,
    New("Expr", "FUNC", [func |-> 1, args |-> 4])),
  P("arg_list", <<"expr">>, New("ExprList", NONE, [expr |-> 1])),
  P("arg_list", <<"expr", ",", "arg_list">>,
    New("ExprList", NONE, [expr |-> 1, next |-> 3])),
  Literal("INTEGER", "INT"), Literal("REAL", "REAL"), Literal("STRING", "STRING"),
  P("literal", <<"TRUETOK">>, New("Expr", "BOOL", [lit_text |-> 0])),
  P("literal", <<"FALSETOK">>, New("Expr", "BOOL", [lit_text |-> 0])),
  P("literal", <<"NULLTOK">>, New("Expr", "NULL", [lit_text |-> 0])) >>

NameRules == <<
  P("variable_opt", <<>>, Nothing),
  P("variable_opt", <<"variable">>, Same(1)),
  P("variable", <<"IDENT">>, Same(1)),
  P("label", <<"IDENT">>, Same(1)), P("label", <<"BQIDENT">>, Same(1)),
  P("rel_type", <<"IDENT">>, Same(1)), P("rel_type", <<"BQIDENT">>, Same(1)),
  P("property_key", <<"IDENT">>, Same(1)), P("property_key", <<"BQIDENT">>, Same(1)) >>

Productions ==
  StatementRules \o PatternRules \o RelationshipRules \o LabelRules \o PropertyRules
  \o ReturnRules \o ExprRules \o PrimaryRules \o NameRules

\* A mutant of Levels: AND binds no tighter than OR.
LevelsFlat == <<
  [assoc |-> "left", tokens |-> {"OR", "AND"}],
  [assoc |-> "right", tokens |-> {"NOT"}],
  [assoc |-> "nonassoc", tokens |-> {"=", "NE", "<", ">", "LE", "GE", "STARTS", "ENDS",
                                     "CONTAINS", "IN", "IS"}] >>
Levels == <<
  [assoc |-> "left", tokens |-> {"OR"}],
  [assoc |-> "left", tokens |-> {"AND"}],
  [assoc |-> "right", tokens |-> {"NOT"}],
  [assoc |-> "nonassoc", tokens |-> {"=", "NE", "<", ">", "LE", "GE", "STARTS", "ENDS",
                                     "CONTAINS", "IN", "IS"}] >>

Cypher == TheGrammar(Productions, Levels)

\* The symbols whose value bison destroys when it pops them off a failed parse:
\* the strings and every symbol of a pointer type; statement, the numbers and
\* the punctuation have no %destructor.
Undestructed == {"statement", "opt_semicolon", "varlen_opt", "distinct_opt", "sort_dir"}
Destructed ==
  StringTokens \cup (Lhs(Productions) \ Undestructed)

\* The pointers each ast_free function releases, in the order of the text.
Released == [
  Query |-> <<"matches", "ret">>, Match |-> <<"patterns", "where", "next">>,
  Return |-> <<"items", "order", "skip", "limit">>,
  ReturnItem |-> <<"expr", "alias", "next">>, SortItem |-> <<"expr", "next">>,
  PathList |-> <<"path", "next">>, Path |-> <<"start", "segments">>,
  Segment |-> <<"rel", "node", "next">>,
  NodePat |-> <<"var", "labels", "props">>, RelPat |-> <<"var", "types", "props">>,
  StrList |-> <<"s", "next">>, PropList |-> <<"key", "value", "next">>,
  ExprList |-> <<"expr", "next">>,
  Expr |-> <<"func", "left", "var", "key", "right", "args", "lit_text">>]
-----------------------------------------------------------------------------
(* What the proofs about the parser use of this grammar, all of it decided   *)
(* by evaluation: the statements are about constants.                        *)

\* The states of the automaton: no two are further apart than this.
Longest == 16
Automaton == States(Cypher, Longest)
Items ==
  UNION {{Item(Productions, p, d) : d \in 0..Len(Productions[p].rhs)} : p \in DOMAIN Productions}

ASSUME AutomatonAssumption ==
  /\ Start(Cypher) \in Automaton
  /\ \A s \in Automaton :
       /\ s \subseteq Items
       /\ \A i \in s : i.next # NONE => Goto(Cypher, s, i.next) \in Automaton
       /\ \A i, j \in s : i.next = NONE /\ j.next = NONE => i.p = j.p

\* The first production alone ends a text, and nothing is made of it; what a
\* nonterminal begins with, one of the productions it begins with is made of.
ASSUME GrammarAssumption ==
  /\ DOMAIN Productions \subseteq Nat /\ 1 \in DOMAIN Productions
  /\ Productions[1].lhs = "$accept" /\ Productions[1].rhs = <<"statement", End>>
  /\ \A p \in DOMAIN Productions :
       LET rhs == Productions[p].rhs IN
       /\ rhs \in Seq(STRING)
       /\ Productions[p].lhs \notin {End, NONE}
       /\ \A k \in DOMAIN rhs : rhs[k] \notin {NONE, "$accept"}
       /\ p # 1 => /\ Productions[p].lhs # "$accept"
                   /\ \A k \in DOMAIN rhs : rhs[k] \notin {"statement", End}
  /\ \A m \in Lhs(Productions) : \A i \in Cypher.begun[m] :
       \/ Productions[i.p].lhs = m
       \/ \E j \in Cypher.begun[m] : j.next = Productions[i.p].lhs

\* The symbols whose node has nothing chained behind it yet.
Unchained ==
  {Productions[p].rhs[Productions[p].act.from] :
     p \in {q \in DOMAIN Productions : Productions[q].act.do = "chain"}}

\* The pointers of a new node that are given one of the values, in the order
\* its ast_free goes through them.
Given(act) ==
  {i \in DOMAIN Released[act.struct] :
     IF Released[act.struct][i] \in DOMAIN act.fields
     THEN act.fields[Released[act.struct][i]] # 0 ELSE FALSE}
GivenTo(act, i) == act.fields[Released[act.struct][i]]

\* Each value that is destroyed with its symbol is used, once, and in the order
\* of the text; and a pointer that keeps it is released.
UsesOnce(p) ==
  LET act == Productions[p].act
      lhs == Productions[p].lhs
      carriers == {k \in DOMAIN Productions[p].rhs : Productions[p].rhs[k] \in Destructed}
  IN  CASE act.do = "new" ->
             /\ lhs \in Destructed \cup {"statement"}
             /\ act.struct \in DOMAIN Released
             /\ \A i \in Given(act) : GivenTo(act, i) \in DOMAIN Productions[p].rhs
             /\ \A k \in carriers : \E i \in Given(act) : GivenTo(act, i) = k
             /\ \A i, j \in Given(act) : i < j => GivenTo(act, i) < GivenTo(act, j)
             /\ lhs \in Unchained => "next" \notin DOMAIN act.fields
             /\ lhs = "statement" <=> act.struct = "Query"
        [] act.do = "same" ->
             /\ lhs \in Destructed \ Unchained
             /\ carriers \subseteq {act.from} /\ act.from \in DOMAIN Productions[p].rhs
        [] act.do = "chain" ->
             /\ lhs \in Destructed \ Unchained
             /\ carriers = {act.from, act.next} /\ act.from < act.next
        [] act.do = "spend" ->
             /\ lhs \notin Destructed \cup {"statement"} \cup Unchained
             /\ carriers = act.of
        [] act.do = "nothing" -> lhs \notin Unchained \cup {"statement"} /\ carriers = {}
        [] OTHER -> FALSE

ASSUME ActsAssumption ==
  /\ \A p \in DOMAIN Productions : UsesOnce(p)
  /\ Unchained \subseteq Lhs(Productions) \cap Destructed
  /\ \A struct \in DOMAIN Released :
       /\ struct \notin {"nil", "str"}
       /\ Released[struct] \in Seq(STRING)
       /\ \A i \in DOMAIN Released[struct] :
            Released[struct][i] = "next" => i = Len(Released[struct])
  /\ \A p \in DOMAIN Productions :
       Productions[p].lhs \in Unchained =>
         LET order == Released[Productions[p].act.struct]
         IN  order # <<>> /\ order[Len(order)] = "next"
=============================================================================
