------------------------------- MODULE Varlen -------------------------------
(***************************************************************************)
(* transform_varlen around the recursive query of Walk: the bounds the     *)
(* parser read, the checks, and the outer query, where the walk stands in  *)
(* for one relationship under the alias r.                                 *)
(***************************************************************************)
EXTENDS SoleHop

CONSTANTS
  WalkTable,  \* the name of the common table expression: "walk"
  IntBits,    \* the width of an int
  LongMax     \* LONG_MAX

ASSUME VarlenAssumption == IntBits \in Nat \ {0} /\ LongMax \in Nat

\* atoi of the digits of n: strtol, which stops at LONG_MAX, cast to int.
Atoi(n) ==
  LET long == IF n > LongMax THEN LongMax ELSE n
      low == long % 2 ^ IntBits
  IN IF low >= 2 ^ (IntBits - 1) THEN low - 2 ^ IntBits ELSE low

\* The bounds the engine works with; an absent upper bound is NULL.
ReadMin == IF Rel.varlen.min = NULL THEN 1 ELSE Atoi(Rel.varlen.min)
ReadMax == IF Rel.varlen.max = NULL THEN NULL ELSE Atoi(Rel.varlen.max)

BoundsOK ==
  /\ ReadMin >= 1
  /\ ReadMax # NULL =>
       ReadMax >= 1 /\ (Rel.varlen.min # NULL => ReadMin <= ReadMax)

Supported ==
  /\ Left.plain /\ Right.plain /\ Rel.props = <<>> /\ Rel.plain
  /\ Rel.dir # "none" /\ Rel.var = NULL

\* A mutant of OnLeft: the direction is ignored.
OnLeftAlways(side) == side = "source"

\* Is the left node on this side of the walk?
OnLeft(side) == (side = "source") = (Rel.dir # "left")

SlotOf(side) == IF OnLeft(side) THEN 1 ELSE 2

OpenVarlen ==
  /\ pc = "collect" /\ Supported /\ BoundsOK /\ EndsRefusal = NULL
  /\ OpenHop(SlotOf("source"), SlotOf("target"))

RefuseVarlen ==
  /\ pc = "collect"
  /\ IF ~Supported THEN Reject("unsupported")
     ELSE IF ~BoundsOK THEN Reject("bounds")
     ELSE EndsRefusal # NULL /\ Reject(EndsRefusal)

\* The common table expression and the outer query's base.
FromWalk ==
  /\ AtStep("from")
  /\ sql' = [sql EXCEPT
       !.with = <<[name |-> WalkTable, type |-> edges[1].type,
                   max |-> ReadMax]>>,
       !.from = Append(@, FromItem(WalkTable, EdgeAlias(1), <<>>,
                                   <<"edge", 1>>))]
  /\ k' = k + 1
  /\ UNCHANGED <<query, pc, pi, prev, slots, edges, binds, err>>

\* The source side first, then the target side.
Side == IF k = 1 THEN "source" ELSE "target"
JoinWalk ==
  LET i == SlotOf(Side)
      id == [alias |-> slots[i].var, col |-> "id", of |-> <<"slot", i>>]
  IN JoinEnd(i, <<<<id, EdgeRef(1, IdColumn(Side = "target"))>>>>)
SkipWalk == SkipEnd(SlotOf(Side))

\* depth >= min, emitted for a lower bound above one.
DepthPreds ==
  IF ReadMin > 1
  THEN <<[op |-> ">=", reads |-> {EdgeRef(1, "depth")}, least |-> ReadMin]>>
  ELSE <<>>
EndPreds(side) ==
  IfGiven(EdgeRef(1, NameColumn(side = "target")), slots[SlotOf(side)].name)

PredsWalk ==
  /\ AtStep("pred")
  /\ AddPreds(EndPreds("source") \o EndPreds("target") \o DepthPreds)

VarlenNext ==
  \/ OpenVarlen \/ RefuseVarlen \/ NextHopPhase \/ EmitClauses
  \/ FromWalk \/ JoinWalk \/ SkipWalk \/ PredsWalk
=============================================================================
