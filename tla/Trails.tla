------------------------------- MODULE Trails -------------------------------
(***************************************************************************)
(* The provenance graph and its trails.  A row of __provenance__ is an     *)
(* edge; a node is what its *_id and *_name columns say together, ids are  *)
(* unique within a table only.  A trail is what a variable-length pattern  *)
(* matches: a chain of edges none of which is used twice.                  *)
(***************************************************************************)
EXTENDS Naturals, Sequences, FiniteSets

CONSTANTS
  NULL,    \* an absent label, type or bound
  Edges,   \* the rowids of __provenance__
  Ids,     \* values of the *_id columns
  Names,   \* values of the *_name columns
  Types    \* values of the edge_type column

Nodes == [id : Ids, name : Names]

\* A table of edges.
Graphs == [src : [Edges -> Nodes], tgt : [Edges -> Nodes],
           type : [Edges -> Types]]

\* A hop [:type*min..max] between endpoints filtered by name; max = NULL is
\* an open upper bound.
Hops == [type : Types \cup {NULL}, min : Nat \ {0},
         max : (Nat \ {0}) \cup {NULL},
         srcName : Names \cup {NULL}, tgtName : Names \cup {NULL}]

ASSUME TrailsAssumption ==
  NULL \notin Types /\ NULL \notin Names /\ NULL \notin Nat

HasType(graph, hop, e) == hop.type = NULL \/ graph.type[e] = hop.type

\* The trails of the hop's type within its upper bound.
IsTrail(graph, hop, p) ==
  /\ Len(p) >= 1
  /\ \A i \in 1 .. Len(p) : HasType(graph, hop, p[i])
  /\ \A i \in 1 .. Len(p) - 1 : graph.tgt[p[i]] = graph.src[p[i + 1]]
  /\ \A i, j \in 1 .. Len(p) : p[i] = p[j] => i = j
  /\ hop.max # NULL => Len(p) <= hop.max

\* The trails that answer the pattern.
Matches(graph, hop, p) ==
  /\ Len(p) >= hop.min
  /\ hop.srcName # NULL => graph.src[p[1]].name = hop.srcName
  /\ hop.tgtName # NULL => graph.tgt[p[Len(p)]].name = hop.tgtName

\* Long enough to hold every trail, which uses no edge twice.
Candidates == UNION {[1 .. n -> Edges] : n \in 1 .. Cardinality(Edges)}
AllTrails(graph, hop) == {p \in Candidates : IsTrail(graph, hop, p)}
=============================================================================
