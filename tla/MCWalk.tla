------------------------------- MODULE MCWalk -------------------------------
(* Every edge table with three edges over three nodes, two of which share   *)
(* an id and two of which share a name, so that tables, cycles, self-loops  *)
(* and parallel edges all occur.                                            *)
EXTENDS Walk

CONSTANTS e1, e2, e3

MCEdges == {e1, e2, e3}
MCIds == {1, 2}
MCNames == {"f", "g"}
MCTypes == {"calls", "uses"}
MCNodes == {[id |-> 1, name |-> "f"], [id |-> 1, name |-> "g"],
            [id |-> 2, name |-> "f"]}

MCInitGraphs ==
  [src : [MCEdges -> MCNodes], tgt : [MCEdges -> MCNodes],
   type : {[e \in MCEdges |-> IF e = e3 THEN "uses" ELSE "calls"]}]

Hop(type, min, max, srcName, tgtName) ==
  [type |-> type, min |-> min, max |-> max,
   srcName |-> srcName, tgtName |-> tgtName]

\* `*`, `*1..2`, `*2..` with endpoint labels, `:calls*2..2`.
MCInitHops ==
  {Hop(NULL, 1, NULL, NULL, NULL), Hop(NULL, 1, 2, NULL, NULL),
   Hop(NULL, 2, NULL, "f", "g"), Hop("calls", 2, 2, "f", NULL)}
=============================================================================
