----------------------------- MODULE Undirected -----------------------------
(***************************************************************************)
(* transform_undirected: a hop (a)-[e]-(b) is one row of the edge table    *)
(* under a predicate that accepts it in either orientation.                *)
(***************************************************************************)
EXTENDS SoleHop

OpenUndirected ==
  /\ pc = "collect"
  /\ Left.plain /\ Right.plain /\ Rel.plain /\ EndsRefusal = NULL
  /\ OpenHop(1, 2)

RefuseUndirected ==
  /\ pc = "collect"
  /\ IF ~Left.plain \/ ~Right.plain \/ ~Rel.plain THEN Reject("unsupported")
     ELSE EndsRefusal # NULL /\ Reject(EndsRefusal)

FromUndirected == FromHop(EdgeTable)

\* Which row of the table it is, the orientation says.
JoinUndirected == JoinEnd(k, <<>>)
SkipUndirected == SkipEnd(k)

SlotRef(i, col) == [alias |-> slots[i].var, col |-> col, of |-> <<"slot", i>>]

\* orient_side: slot i is on this side of the edge, by id if its table is
\* joined and by name if it has a label.
SideIds(i, onTarget) ==
  IF slots[i].referenced
  THEN {<<EdgeRef(1, IdColumn(onTarget)), SlotRef(i, "id")>>} ELSE {}
SideNames(i, onTarget) ==
  IF slots[i].name # NULL
  THEN {<<EdgeRef(1, NameColumn(onTarget)), slots[i].name>>} ELSE {}

\* A mutant of Orientation: the names are not turned round.
OrientationNames(leftOnTarget) ==
  [ids |-> SideIds(1, leftOnTarget) \cup SideIds(2, ~leftOnTarget),
   names |-> SideNames(1, FALSE) \cup SideNames(2, TRUE)]

\* build_orient: the left node is on one side, the right node on the other.
Orientation(leftOnTarget) ==
  [ids |-> SideIds(1, leftOnTarget) \cup SideIds(2, ~leftOnTarget),
   names |-> SideNames(1, leftOnTarget) \cup SideNames(2, ~leftOnTarget)]

\* The disjunction of both, left out when it would say nothing.
EitherWay ==
  LET cases == {Orientation(FALSE), Orientation(TRUE)} IN
  [op |-> "or", cases |-> cases,
   reads |-> (UNION {UNION {{p[1], p[2]} : p \in c.ids} : c \in cases})
             \cup (UNION {{p[1] : p \in c.names} : c \in cases})]
OrientationPreds ==
  IF \E i \in {1, 2} : slots[i].referenced \/ slots[i].name # NULL
  THEN <<EitherWay>> ELSE <<>>

TypePreds == IfGiven(EdgeRef(1, "edge_type"), edges[1].type)

PredsUndirected ==
  /\ AtStep("pred") /\ PropsOK(1)
  /\ AddPreds(TypePreds \o OrientationPreds \o PropPreds(1))
RefusePreds ==
  AtStep("pred") /\ ~PropsOK(1) /\ Reject("inline property")

UndirectedNext ==
  \/ OpenUndirected \/ RefuseUndirected \/ NextHopPhase \/ EmitClauses
  \/ FromUndirected \/ JoinUndirected \/ SkipUndirected
  \/ PredsUndirected \/ RefusePreds
=============================================================================
