------------------------------- MODULE SoleHop ------------------------------
(***************************************************************************)
(* What transform_undirected and transform_varlen have in common: each     *)
(* translates a pattern of one relationship between two nodes, which get   *)
(* the slots 1 (left) and 2 (right) whatever they are called.  Both emit   *)
(* RETURN and the other clauses first, and join the nodes they need to the *)
(* one item that stands for the hop.  Their test that a node to join has a *)
(* table repeats what emitting a column of it has already required.        *)
(***************************************************************************)
EXTENDS Emission

\* The null pointer is no message.
ASSUME SoleHopAssumption == NULL \notin {"ambiguous", "unknown table"}

\* A mutant of HopPhases: FROM is written before the clauses are.
HopPhasesLate == <<"from", "join", "select", "where", "order", "group",
                   "pred", "page", "done">>

HopPhases == <<"select", "where", "order", "group", "from", "join", "pred",
               "page", "done">>

Left  == NodeAt(1, 0)
Right == NodeAt(1, 1)
Rel   == query.paths[1].segs[1].rel

Meaning(node) == Resolution(NameMap, node.label)
KnownTable(table) == table # NULL => table \in DOMAIN Catalog

\* Why the ends of the hop are rejected, NULL if they are not.  The labels are
\* resolved before either table is looked up.
EndsRefusal ==
  IF ~Meaning(Left).ok \/ ~Meaning(Right).ok THEN "ambiguous"
  ELSE IF ~KnownTable(Meaning(Left).table) \/ ~KnownTable(Meaning(Right).table)
  THEN "unknown table"
  ELSE NULL

\* A mutant of EndSlot: the record is not zeroed.
EndSlotUnset(node, n) ==
  [var |-> node.var, np |-> <<1, n>>, label |-> Meaning(node).table,
   name |-> Meaning(node).name, referenced |-> NULL, lone |-> FALSE,
   anchor |-> 0, onTarget |-> FALSE]

EndSlot(node, n) ==
  [var |-> node.var, np |-> <<1, n>>, label |-> Meaning(node).table,
   name |-> Meaning(node).name, referenced |-> FALSE, lone |-> FALSE,
   anchor |-> 0, onTarget |-> FALSE]

\* The engine's locals; src and tgt are the slots of the sides.
OpenHop(src, tgt) ==
  LET ends == <<EndSlot(Left, 0), EndSlot(Right, 1)>>
      hop == <<[var |-> Rel.var, type |-> Rel.type, props |-> Rel.props,
                src |-> src, tgt |-> tgt]>>
  IN /\ slots' = ends /\ edges' = hop /\ binds' = BindsOf(ends, hop)
     /\ pc' = HopPhases[1] /\ k' = 1
     /\ UNCHANGED <<query, pi, prev, sql, err>>

NextHopPhase ==
  \E i \in 1 .. Len(HopPhases) - 1 :
    /\ pc = HopPhases[i] /\ pc' = HopPhases[i + 1]
    /\ PhaseLength < k /\ k' = 1
    /\ UNCHANGED <<query, pi, prev, slots, edges, binds, sql, err>>

\* The item that stands for the hop.
FromHop(table) ==
  AtStep("from") /\ AddFrom(FromItem(table, EdgeAlias(k), <<>>, <<"edge", k>>))

\* Slot i, joined where a column of it is read.
JoinEnd(i, on) ==
  /\ AtStep("join") /\ slots[i].referenced
  /\ AddFrom(FromItem(slots[i].label, slots[i].var, on, <<"slot", i>>))
SkipEnd(i) == AtStep("join") /\ ~slots[i].referenced /\ Skip

AddPreds(preds) ==
  /\ sql' = [sql EXCEPT !.pred = @ \o preds]
  /\ k' = k + 1
  /\ UNCHANGED <<query, pc, pi, prev, slots, edges, binds, err>>

\* The clauses of RETURN and WHERE are the same code in every engine.
EmitClauses ==
  \/ EmitSelect \/ SelectFail \/ EmitWhere \/ WhereFail
  \/ OrderByAlias \/ EmitOrder \/ OrderFail \/ EmitGroup \/ SkipGroup \/ EmitPage
=============================================================================
