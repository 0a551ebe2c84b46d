------------------------------- MODULE General ------------------------------
(***************************************************************************)
(* transform_general, the engine for directed patterns: it collects the    *)
(* nodes of the pattern into slots and the relationships into edges, binds *)
(* the variables, emits what the query reads and only then the FROM clause *)
(* and the predicates of the pattern.                                      *)
(***************************************************************************)
EXTENDS Emission

Phases == <<"collect", "resolve", "mark", "bind", "select", "where",
            "order", "group", "from", "lone", "join", "pred", "page",
            "done">>

-----------------------------------------------------------------------------
(* Slots *)

\* Is slot s the slot of this occurrence?  Variables name a node across the
\* query, an anonymous node is its own occurrence.
Same(s, node, np) ==
  IF node.var # NULL THEN s.var = node.var ELSE s.var = NULL /\ s.np = np

Hits(node, np) == {i \in DOMAIN slots : Same(slots[i], node, np)}

SlotIndex(node, np) ==
  IF Hits(node, np) = {} THEN Len(slots) + 1
  ELSE CHOOSE i \in Hits(node, np) : \A j \in Hits(node, np) : i <= j

NewSlot(node, np) ==
  [var |-> node.var, np |-> np, label |-> node.label, name |-> NULL,
   referenced |-> FALSE, lone |-> FALSE, anchor |-> 0, onTarget |-> FALSE]

Conflict(node, np) ==
  LET i == SlotIndex(node, np) IN
  i <= Len(slots) /\ node.label # NULL /\ slots[i].label # NULL
    /\ slots[i].label # node.label

\* slots with the occurrence found or added, and its label merged.
SlotFor(node, np) ==
  LET i == SlotIndex(node, np) IN
  IF i = Len(slots) + 1 THEN Append(slots, NewSlot(node, np))
  ELSE IF node.label = NULL THEN slots
  ELSE [slots EXCEPT ![i].label = node.label]

\* A mutant of Anchor: the last edge wins.
AnchorLast(ss, i, e, onTarget) ==
  [ss EXCEPT ![i].anchor = e, ![i].onTarget = onTarget]

\* A slot is anchored to the first edge and side it appears on.
Anchor(ss, i, e, onTarget) ==
  IF ss[i].anchor # 0 THEN ss
  ELSE [ss EXCEPT ![i].anchor = e, ![i].onTarget = onTarget]

\* Move to the next segment of path pi, or to the start of the next path.
NextSegment ==
  IF k < Len(query.paths[pi].segs) THEN k' = k + 1 /\ pi' = pi
                                   ELSE k' = 0 /\ pi' = pi + 1

AtSegment(n) == pc = "collect" /\ pi <= Len(query.paths) /\ n = k
RelPlain(n) == n = 0 \/ query.paths[pi].segs[n].rel.plain

CollectStart ==
  /\ AtSegment(0)
  /\ LET node == NodeAt(pi, 0) np == <<pi, 0>> IN
     /\ node.plain /\ ~Conflict(node, np)
     /\ slots' = SlotFor(node, np)
     /\ prev' = SlotIndex(node, np)
  /\ NextSegment
  /\ UNCHANGED <<query, pc, edges, binds, sql, err>>

CollectSegment ==
  /\ k > 0 /\ AtSegment(k)
  /\ LET node == NodeAt(pi, k)
         np == <<pi, k>>
         rel == query.paths[pi].segs[k].rel
         cur == SlotIndex(node, np)
         src == IF rel.dir = "left" THEN cur ELSE prev
         tgt == IF rel.dir = "left" THEN prev ELSE cur
         e == Len(edges) + 1
     IN /\ node.plain /\ rel.plain /\ ~Conflict(node, np)
        /\ edges' = Append(edges, [var |-> rel.var, type |-> rel.type,
                                   props |-> rel.props,
                                   src |-> src, tgt |-> tgt])
        /\ slots' = Anchor(Anchor(SlotFor(node, np), src, e, FALSE),
                           tgt, e, TRUE)
        /\ prev' = cur
  /\ NextSegment
  /\ UNCHANGED <<query, pc, binds, sql, err>>

\* check_node, several relationship types, or labels that disagree.
CollectFail ==
  /\ AtSegment(k)
  /\ LET node == NodeAt(pi, k) IN
     IF ~node.plain \/ ~RelPlain(k) THEN Reject("unsupported")
     ELSE Conflict(node, <<pi, k>>) /\ Reject("conflict")

-----------------------------------------------------------------------------
(* Phases *)

\* A mutant of NextPhase: a phase starts one before its first element.
NextPhaseZero ==
  \E i \in 1 .. Len(Phases) - 1 :
    /\ pc = Phases[i] /\ pc' = Phases[i + 1]
    /\ PhaseLength < (IF pc = "collect" THEN pi ELSE k)
    /\ k' = 0
    /\ UNCHANGED <<query, pi, prev, slots, edges, binds, sql, err>>

NextPhase ==
  \E i \in 1 .. Len(Phases) - 1 :
    /\ pc = Phases[i] /\ pc' = Phases[i + 1]
    /\ PhaseLength < (IF pc = "collect" THEN pi ELSE k)
    /\ k' = 1
    /\ UNCHANGED <<query, pi, prev, slots, edges, binds, sql, err>>

\* A mutant of ResolveSlot: the table is used as the recorded name too.
ResolveSlotTable ==
  /\ AtStep("resolve")
  /\ LET r == Resolution(NameMap, slots[k].label) IN
     /\ r.ok
     /\ slots' = [slots EXCEPT ![k].label = r.table, ![k].name = r.table]
  /\ k' = k + 1
  /\ UNCHANGED <<query, pc, pi, prev, edges, binds, sql, err>>

ResolveSlot ==
  /\ AtStep("resolve")
  /\ LET r == Resolution(NameMap, slots[k].label) IN
     /\ r.ok
     /\ slots' = [slots EXCEPT ![k].label = r.table, ![k].name = r.name]
  /\ k' = k + 1
  /\ UNCHANGED <<query, pc, pi, prev, edges, binds, sql, err>>

ResolveFail ==
  /\ AtStep("resolve")
  /\ ~Resolution(NameMap, slots[k].label).ok
  /\ Reject("ambiguous")

\* A label must be a table, and a node that touches no edge must have one.
Markable(s) ==
  /\ s.label # NULL => s.label \in DOMAIN Catalog
  /\ s.anchor = 0 => s.label # NULL

MarkSlot ==
  /\ AtStep("mark") /\ Markable(slots[k])
  /\ slots' = [slots EXCEPT ![k].lone = (slots[k].anchor = 0)]
  /\ k' = k + 1
  /\ UNCHANGED <<query, pc, pi, prev, edges, binds, sql, err>>

MarkFail ==
  /\ AtStep("mark") /\ ~Markable(slots[k])
  /\ Reject(IF slots[k].label = NULL THEN "unlabelled" ELSE "unknown table")

Bind ==
  /\ AtStep("bind")
  /\ binds' = BindsOf(slots, edges)
  /\ k' = k + 1
  /\ UNCHANGED <<query, pc, pi, prev, slots, edges, sql, err>>

-----------------------------------------------------------------------------
(* FROM and the pattern predicates *)

\* A mutant of Ties: the name equality is left out.
TiesById(e, i, onTarget) ==
  LET a == slots[i].anchor IN
  IF a = e THEN <<>>
  ELSE <<<<EdgeRef(e, IdColumn(onTarget)),
           EdgeRef(a, IdColumn(slots[i].onTarget))>>>>

\* emit_tie: the side of edge e is the node slot i was anchored as.
Ties(e, i, onTarget) ==
  LET a == slots[i].anchor IN
  IF a = e THEN <<>>
  ELSE <<<<EdgeRef(e, IdColumn(onTarget)),
           EdgeRef(a, IdColumn(slots[i].onTarget))>>,
         <<EdgeRef(e, NameColumn(onTarget)),
           EdgeRef(a, NameColumn(slots[i].onTarget))>>>>

\* A mutant of EdgeTies: only the side the chain comes from is tied.
EdgeTiesOne(e) ==
  IF e = 1 THEN <<>> ELSE Ties(e, edges[e].src, FALSE)

\* The first edge is the base of the FROM and has no ON clause.
EdgeTies(e) ==
  IF e = 1 THEN <<>>
  ELSE Ties(e, edges[e].src, FALSE) \o Ties(e, edges[e].tgt, TRUE)

FromEdge ==
  /\ AtStep("from")
  /\ AddFrom(FromItem(EdgeTable, EdgeAlias(k),
                      EdgeTies(k), <<"edge", k>>))

FromLone ==
  /\ AtStep("lone") /\ slots[k].lone
  /\ AddFrom(FromItem(slots[k].label, SlotAlias(k), <<>>, <<"slot", k>>))
SkipLone == AtStep("lone") /\ ~slots[k].lone /\ Skip

\* A node whose columns are read is joined to its anchor by id.
Joins(s) == s.referenced /\ ~s.lone
FromNode ==
  /\ AtStep("join") /\ Joins(slots[k])
  /\ LET s == slots[k]
         id == [alias |-> SlotAlias(k), col |-> "id", of |-> <<"slot", k>>]
     IN AddFrom(FromItem(s.label, SlotAlias(k),
                         <<<<id, EdgeRef(s.anchor, IdColumn(s.onTarget))>>>>,
                         <<"slot", k>>))
SkipJoin == AtStep("join") /\ ~Joins(slots[k]) /\ Skip

\* Type and endpoint names of an edge, those the pattern gives.
EdgePreds(e) ==
  IfGiven(EdgeRef(e, "edge_type"), edges[e].type)
    \o IfGiven(EdgeRef(e, "source_name"), slots[edges[e].src].name)
    \o IfGiven(EdgeRef(e, "target_name"), slots[edges[e].tgt].name)

EmitPreds ==
  /\ AtStep("pred") /\ PropsOK(k)
  /\ sql' = [sql EXCEPT !.pred = @ \o (EdgePreds(k) \o PropPreds(k))]
  /\ k' = k + 1
  /\ UNCHANGED <<query, pc, pi, prev, slots, edges, binds, err>>
PredsFail == AtStep("pred") /\ ~PropsOK(k) /\ Reject("inline property")

GeneralNext ==
  \/ CollectStart \/ CollectSegment \/ CollectFail
  \/ NextPhase
  \/ ResolveSlot \/ ResolveFail \/ MarkSlot \/ MarkFail \/ Bind
  \/ EmitSelect \/ SelectFail \/ EmitWhere \/ WhereFail
  \/ OrderByAlias \/ EmitOrder \/ OrderFail \/ EmitGroup \/ SkipGroup
  \/ FromEdge \/ FromLone \/ SkipLone \/ FromNode \/ SkipJoin
  \/ EmitPreds \/ PredsFail \/ EmitPage

-----------------------------------------------------------------------------
(* Properties *)

SlotRecords ==
  [var : OrNull(Vars), np : Nat \X Nat, label : OrNull(Labels),
   name : OrNull(Labels), referenced : BOOLEAN, lone : BOOLEAN,
   anchor : Nat, onTarget : BOOLEAN]
EdgeRecords ==
  [var : OrNull(Vars), type : OrNull(Values), props : Seq(Props),
   src : Nat \ {0}, tgt : Nat \ {0}]

\* Every variable of the pattern's bookkeeping keeps its type, in the other
\* engines too.
TypeOK ==
  /\ query \in QueryType
  /\ pc \in {Phases[i] : i \in DOMAIN Phases} \cup {"dispatch", "failed"}
  /\ pi \in Nat \ {0} /\ k \in Nat /\ prev \in Nat
  /\ pc \notin {"dispatch", "collect", "failed"} => k # 0
  /\ slots \in Seq(SlotRecords) /\ edges \in Seq(EdgeRecords)

SlotOn(e, onTarget) == IF onTarget THEN edges[e].tgt ELSE edges[e].src

Anchored ==
  /\ \A i, j \in DOMAIN slots :
       slots[i].var # NULL /\ slots[i].var = slots[j].var => i = j
  /\ \A e \in DOMAIN edges, onTarget \in BOOLEAN :
       LET i == SlotOn(e, onTarget) IN
       i \in DOMAIN slots /\ slots[i].anchor \in 1 .. e
  /\ \A i \in DOMAIN slots :
       slots[i].anchor # 0 =>
         /\ slots[i].anchor \in DOMAIN edges
         /\ SlotOn(slots[i].anchor, slots[i].onTarget) = i
         /\ slots[i].onTarget =>
              SlotOn(slots[i].anchor, FALSE) # i

\* transform.c:19-24: a variable has one slot; a slot touched by a
\* relationship is anchored to the first one that touches it, and the side it
\* is anchored on really is that slot's (transform_general; the other engines
\* have one relationship and anchor nothing).
AnchorInv == ~HasVarlen /\ ~HasUndirected => Anchored

\* A choice of values for the end columns of every relationship, and what
\* the ON clause of one relationship says of it.
EndColumns == {"source_id", "source_name", "target_id", "target_name"}
Choices == [DOMAIN edges -> [EndColumns -> Samples]]
TiesHold(f, e) ==
  \A j \in DOMAIN EdgeTies(e) :
    LET c == EdgeTies(e)[j] IN
    f[c[1].of[2]][c[1].col] = f[c[2].of[2]][c[2].col]

\* transform.c:21-24: a tie to the anchor alone, for each later relationship,
\* makes all the relationships that meet at a slot meet at one node, whatever
\* the order and the directions of the pattern.  A relationship from a node
\* to itself is excluded: both its sides are the anchor and neither is tied.
SlotsAreNodes ==
  /\ pc = "from" /\ k = 1
  /\ \A e \in DOMAIN edges : edges[e].src # edges[e].tgt
  =>
    \A f \in Choices :
      (\A e \in DOMAIN edges : TiesHold(f, e)) =>
        \A e, g \in DOMAIN edges, s, t \in BOOLEAN :
          SlotOn(e, s) = SlotOn(g, t) =>
            /\ f[e][IdColumn(s)] = f[g][IdColumn(t)]
            /\ f[e][NameColumn(s)] = f[g][NameColumn(t)]
=============================================================================
