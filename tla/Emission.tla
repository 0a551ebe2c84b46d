------------------------------ MODULE Emission ------------------------------
(***************************************************************************)
(* What the three engines of transform.c share: the query they translate,  *)
(* the records of nodes, relationships and binds, and the emission of      *)
(* RETURN, WHERE, ORDER BY and GROUP BY, which marks the nodes whose table *)
(* is needed before any FROM clause is written.                            *)
(*                                                                         *)
(* Indices start at 1 and 0 stands for the code's -1.  The SQL text is     *)
(* kept as a record of its clauses.  A column reference is the text        *)
(* alias.col; its field "of" says which slot or edge the code emitted it   *)
(* for, and the field "of" of a FROM item which one the item stands for:   *)
(* no action reads them, the properties compare them.                      *)
(***************************************************************************)
EXTENDS Integers, NameMaps

CONSTANTS
  Vars,       \* variables of queries
  Labels,     \* labels, tables and recorded names
  Columns,    \* column names
  Values,     \* edge types and literals
  Queries,    \* the parsed queries a run starts from
  NameMap,    \* the --names entries
  Catalog,    \* table -> its columns
  EdgeTable,  \* KG_EDGE_TABLE
  SoleEdge,   \* the alias of an only, anonymous relationship: "r"
  GenEdge,    \* the aliases _e0, _e1, ... of other anonymous relationships
  GenNode,    \* the aliases _n0, _n1, ... of anonymous lone nodes
  Samples     \* values the ids and names of nodes are drawn from

OrNull(S) == S \cup {NULL}

\* The abstract syntax: "plain" is FALSE for a node with inline properties or
\* several labels, and for a relationship with several types.  The bounds of a
\* variable-length relationship are the numbers written in the query.
NodePats == [var : OrNull(Vars), label : OrNull(Labels), plain : BOOLEAN]
Props == [key : Columns, val : Values, literal : BOOLEAN]
Bounds == [min : OrNull(Nat), max : OrNull(Nat)]
RelPats == [var : OrNull(Vars), type : OrNull(Values),
            dir : {"left", "right", "none"}, props : Seq(Props),
            plain : BOOLEAN, varlen : OrNull(Bounds)]
Paths == [start : NodePats, segs : Seq([rel : RelPats, node : NodePats])]
ExprKinds ==
  {"property", "variable", "count", "aggregate", "function", "other"}
Items == [kind : ExprKinds, var : OrNull(Vars), key : OrNull(Columns),
          alias : OrNull(Vars), distinct : BOOLEAN]
Conds == [kind : ExprKinds, var : OrNull(Vars), key : OrNull(Columns),
          val : Values]
Sorts == {s \in [kind : ExprKinds, var : OrNull(Vars), key : OrNull(Columns)] :
            s.kind = "variable" => s.var # NULL}

\* matches counts the MATCH clauses; paging says that SKIP and LIMIT are
\* integers or absent, and then skip and limit are what they are.
QueryType == [matches : Nat \ {0}, paths : Seq(Paths), star : BOOLEAN,
              distinct : BOOLEAN, items : Seq(Items), paging : BOOLEAN,
              skip : OrNull(Nat), limit : OrNull(Nat),
              where : Seq(Conds), order : Seq(Sorts)]

ASSUME EmissionAssumption ==
  /\ NULL \notin Vars /\ NULL \notin Labels
  /\ Queries \subseteq QueryType
  /\ \A q \in Queries : q.items # <<>> \/ q.star
  /\ NameMap \in Seq([table : Labels, name : Labels])

VARIABLES
  query,  \* the query, never changed
  pc,     \* the phase of the translation
  pi,     \* the path being collected
  k,      \* the segment, slot, edge or item the phase looks at next
  prev,   \* the slot the next segment starts from
  slots,  \* one record per node of the pattern
  edges,  \* one record per relationship
  binds,  \* what the variables of the query stand for
  sql,    \* the clauses emitted so far
  err     \* why the query was rejected, NULL if it was not

vars == <<query, pc, pi, k, prev, slots, edges, binds, sql, err>>

\* The clauses: "with" has the common table expression of a variable-length
\* pattern, if it is one.
NoSql == [with |-> <<>>, distinct |-> FALSE, select |-> <<>>, where |-> <<>>,
          order |-> <<>>, group |-> <<>>, from |-> <<>>, pred |-> <<>>,
          limit |-> NULL, offset |-> NULL]

\* The node occurrence at segment n of path i; 0 is the path's start.
NodeAt(i, n) == IF n = 0 THEN query.paths[i].start
                ELSE query.paths[i].segs[n].node

Rels == UNION {{query.paths[i].segs[n].rel : n \in DOMAIN query.paths[i].segs} :
                 i \in DOMAIN query.paths}
HasVarlen == \E rel \in Rels : rel.varlen # NULL
HasUndirected == \E rel \in Rels : rel.dir = "none"

\* A mutant of Reject: no message is stored.
RejectSilent(why) ==
  /\ pc' = "failed"
  /\ UNCHANGED <<query, pi, k, prev, slots, edges, binds, sql, err>>

\* fail: store the message; what was emitted is dropped with the buffers.
Reject(why) ==
  /\ pc' = "failed" /\ err' = why
  /\ UNCHANGED <<query, pi, k, prev, slots, edges, binds, sql>>

-----------------------------------------------------------------------------
(* Phases *)

\* How many steps the phase has; collect counts paths.
PhaseLength ==
  CASE pc = "collect" -> Len(query.paths)
    [] pc \in {"resolve", "mark", "lone", "join"} -> Len(slots)
    [] pc \in {"bind", "page"} -> 1
    [] pc \in {"select", "group"} -> Len(query.items)
    [] pc = "where" -> Len(query.where)
    [] pc = "order" -> Len(query.order)
    [] pc \in {"from", "pred"} -> Len(edges)
    [] OTHER -> 0

AtStep(phase) == pc = phase /\ k <= PhaseLength

Skip ==
  /\ k' = k + 1
  /\ UNCHANGED <<query, pc, pi, prev, slots, edges, binds, sql, err>>

-----------------------------------------------------------------------------
(* References *)

\* Which of the records are of variables, in their order.
NamedIn(records) ==
  LET among[n \in 0 .. Len(records)] ==
        IF n = 0 THEN <<>>
        ELSE IF records[n].var = NULL THEN among[n - 1]
        ELSE Append(among[n - 1], n)
  IN among[Len(records)]

\* The binds of an engine: nodes first, then relationships; anonymous ones
\* cannot be named.
BindsOf(ss, es) ==
  LET nodes == NamedIn(ss)
      rels == NamedIn(es)
  IN [j \in DOMAIN nodes |->
        [var |-> ss[nodes[j]].var, table |-> ss[nodes[j]].label,
         of |-> <<"slot", nodes[j]>>]]
     \o [j \in DOMAIN rels |->
           [var |-> es[rels[j]].var, table |-> EdgeTable,
            of |-> <<"edge", rels[j]>>]]

\* find_bind: the first bind of the variable; var must be bound.
IsBound(var) == \E j \in DOMAIN binds : binds[j].var = var
BindOf(var) ==
  LET hits == {j \in DOMAIN binds : binds[j].var = var}
  IN binds[CHOOSE j \in hits : \A i \in hits : j <= i]

\* A variable whose columns are known, and one of those columns.
HasTable(var) ==
  IsBound(var) /\ BindOf(var).table # NULL
    /\ BindOf(var).table \in DOMAIN Catalog
HasColumn(var, key) == HasTable(var) /\ key \in Catalog[BindOf(var).table]

Ref(var, key) == [alias |-> var, col |-> key, of |-> BindOf(var).of]

\* What emit_return_expr makes of an expression: the columns it reads.
CanEmit(e) ==
  CASE e.kind \in {"property", "aggregate"} -> HasColumn(e.var, e.key)
    [] e.kind = "variable" -> HasTable(e.var)
    [] e.kind = "count" -> TRUE
    [] OTHER -> FALSE
Reads(e) ==
  CASE e.kind \in {"property", "aggregate"} -> {Ref(e.var, e.key)}
    [] e.kind = "variable" ->
         {Ref(e.var, c) : c \in Catalog[BindOf(e.var).table]}
    [] e.kind = "count" -> {}
Emitted(e) == [kind |-> e.kind, reads |-> Reads(e)]

\* A mutant of Marked: nothing is marked.
MarkedNever(e) == slots

\* Reading a column of a node asks for its table to be joined.
Marked(e) ==
  [i \in DOMAIN slots |->
     IF \E r \in Reads(e) : r.of = <<"slot", i>>
     THEN [slots[i] EXCEPT !.referenced = TRUE] ELSE slots[i]]

\* Emit an expression at the end of a clause.
Emit(clause, e) ==
  /\ CanEmit(e)
  /\ sql' = [sql EXCEPT ![clause] = Append(@, Emitted(e))]
  /\ slots' = Marked(e)
  /\ k' = k + 1
  /\ UNCHANGED <<query, pc, pi, prev, edges, binds, err>>

\* An item and the name of its column, if it has one: a whole entity has the
\* name of its variable unless the query gives another.
Selected(item) ==
  [kind |-> item.kind, reads |-> Reads(item), distinct |-> item.distinct,
   as |-> IF item.alias = NULL /\ item.kind = "variable" THEN item.var
          ELSE item.alias]
EmitSelect ==
  /\ AtStep("select") /\ CanEmit(query.items[k])
  /\ sql' = [sql EXCEPT !.distinct = query.distinct,
                        !.select = Append(@, Selected(query.items[k]))]
  /\ slots' = Marked(query.items[k])
  /\ k' = k + 1
  /\ UNCHANGED <<query, pc, pi, prev, edges, binds, err>>
SelectFail ==
  AtStep("select") /\ ~CanEmit(query.items[k]) /\ Reject("unresolved")

\* A condition of WHERE compares a property with a literal; a bare variable or
\* a function is refused.
CanTest(e) == e.kind = "property" /\ CanEmit(e)
EmitWhere ==
  /\ AtStep("where") /\ CanTest(query.where[k])
  /\ sql' = [sql EXCEPT !.where =
               Append(@, [reads |-> Reads(query.where[k]),
                          val |-> query.where[k].val])]
  /\ slots' = Marked(query.where[k])
  /\ k' = k + 1
  /\ UNCHANGED <<query, pc, pi, prev, edges, binds, err>>
WhereFail ==
  AtStep("where") /\ ~CanTest(query.where[k]) /\ Reject("unresolved")

\* ORDER BY an explicit alias of RETURN, or a property.
HasAlias(name) == \E j \in DOMAIN query.items : query.items[j].alias = name
CanOrder(e) ==
  CASE e.kind = "variable" -> HasAlias(e.var)
    [] e.kind = "property" -> CanEmit(e)
    [] OTHER -> FALSE
OrderByAlias ==
  /\ AtStep("order") /\ query.order[k].kind = "variable"
  /\ CanOrder(query.order[k])
  /\ sql' = [sql EXCEPT !.order =
               Append(@, [kind |-> "alias", reads |-> {}, name |-> query.order[k].var])]
  /\ k' = k + 1
  /\ UNCHANGED <<query, pc, pi, prev, slots, edges, binds, err>>
EmitOrder ==
  AtStep("order") /\ query.order[k].kind = "property"
    /\ Emit("order", query.order[k])
OrderFail ==
  AtStep("order") /\ ~CanOrder(query.order[k]) /\ Reject("unresolved")

IsAggregate(e) == e.kind \in {"count", "aggregate"}
Grouped ==
  /\ \E j \in DOMAIN query.items : IsAggregate(query.items[j])
  /\ ~IsAggregate(query.items[k])
EmitGroup == AtStep("group") /\ Grouped /\ Emit("group", query.items[k])
SkipGroup == AtStep("group") /\ ~Grouped /\ Skip

\* emit_limit_offset: OFFSET stands after a LIMIT only, and a negative one is none.
EmitPage ==
  /\ AtStep("page")
  /\ sql' = [sql EXCEPT !.offset = query.skip,
               !.limit = IF query.limit = NULL /\ query.skip # NULL THEN -1
                         ELSE query.limit]
  /\ k' = k + 1
  /\ UNCHANGED <<query, pc, pi, prev, slots, edges, binds, err>>

-----------------------------------------------------------------------------
(* FROM and predicates *)

\* A variable is its own alias; an anonymous relationship and an anonymous
\* lone node are given one.
EdgeAlias(e) ==
  IF edges[e].var # NULL THEN edges[e].var
  ELSE IF Len(edges) = 1 THEN SoleEdge ELSE GenEdge[e]
SlotAlias(i) ==
  IF slots[i].var # NULL THEN slots[i].var ELSE GenNode[i]

EdgeRef(e, col) ==
  [alias |-> EdgeAlias(e), col |-> col, of |-> <<"edge", e>>]
IdColumn(onTarget) == IF onTarget THEN "target_id" ELSE "source_id"
NameColumn(onTarget) == IF onTarget THEN "target_name" ELSE "source_name"

FromItem(table, alias, on, of) ==
  [table |-> table, alias |-> alias, on |-> on, of |-> of]
AddFrom(item) ==
  /\ sql' = [sql EXCEPT !.from = Append(@, item)]
  /\ k' = k + 1
  /\ UNCHANGED <<query, pc, pi, prev, slots, edges, binds, err>>

\* A predicate compares a column with a constant.
Equals(ref, val) == [op |-> "=", reads |-> {ref}, val |-> val]

\* The same of what the pattern may give or not.
IfGiven(ref, val) == IF val = NULL THEN <<>> ELSE <<Equals(ref, val)>>

\* Inline properties: columns of the edge table, with literal values.
PropsOK(e) ==
  \A j \in DOMAIN edges[e].props :
    /\ EdgeTable \in DOMAIN Catalog
    /\ edges[e].props[j].key \in Catalog[EdgeTable]
    /\ edges[e].props[j].literal
PropPreds(e) ==
  [j \in DOMAIN edges[e].props |->
     Equals(EdgeRef(e, edges[e].props[j].key), edges[e].props[j].val)]
=============================================================================
