----------------------------- MODULE MCDirected -----------------------------
(* Directed patterns of up to three relationships.                          *)
EXTENDS MCData

NodesA == {Node("a", "jobs"), Node("a", "submit"), Node("a", NULL)}
NodesB == {Node("b", "mc"), Node("b", NULL), Node(NULL, "jobs")}
NodesC == {Node("c", "jobs"), Node("a", NULL), Node("b", NULL),
           Node(NULL, "mc"), Node("a", "jobs")}
Rels1 == {Hop("e", NULL, "right"), Hop(NULL, "calls", "left")}
Rels2 == {Hop("f", "calls", "right"), Hop(NULL, NULL, "left")}

\* One hop, two hops in a chain, two paths, and a hop beside a lone node.
Chains ==
  {<<Path(n, <<Seg(r, m)>>)>> : n \in NodesA, r \in Rels1, m \in NodesB}
  \cup {<<Path(n, <<Seg(r, m), Seg(s, o)>>)>> :
          n \in NodesA, r \in Rels1, m \in NodesB, s \in Rels2, o \in NodesC}
Forks ==
  {<<Path(n, <<Seg(r, m)>>), Path(o, <<Seg(s, p)>>)>> :
     n \in NodesA, r \in Rels1, m \in NodesB, o \in NodesC, s \in Rels2,
     p \in {Node(NULL, NULL), Node("b", NULL)}}
Lones ==
  {<<Path(n, <<>>)>> : n \in NodesA \cup NodesB}
  \cup {<<Path(n, <<>>), Path(m, <<Seg(r, o)>>)>> :
          n \in NodesA, m \in NodesC, r \in Rels2, o \in NodesB}
  \cup {<<Path(n, <<>>), Path(m, <<>>)>> :
          n \in NodesA \cup {Node(NULL, "mc")}, m \in NodesB \cup NodesC}

\* Three relationships: a chain that closes on itself, and a star.
Triples ==
  {<<Path(Node("a", "jobs"), <<Seg(r, m), Seg(s, Node("c", NULL)),
                                Seg(t, o)>>)>> :
     r \in Rels1, m \in NodesB, s \in Rels2, o \in NodesC,
     t \in {Hop(NULL, NULL, "right"), Hop(NULL, "calls", "left")}}
  \cup {<<Path(Node("a", "jobs"), <<Seg(r, m)>>),
          Path(o, <<Seg(s, Node("a", NULL)), Seg(t, Node("b", NULL))>>)>> :
          r \in Rels1, m \in NodesB, s \in Rels2, o \in NodesC,
          t \in {Hop(NULL, NULL, "right"), Hop(NULL, "calls", "left")}}

\* What the queries read.
DirectedTails ==
  {Reading(<<Property("a", "x")>>, <<>>, <<>>),
   Reading(<<Property("b", "id"), Count>>, <<Cond("a", "x", "u")>>,
        <<Sort("variable", "n", NULL)>>),
   Reading(<<Entity("a"), Count>>, <<>>, <<Sort("property", "b", "z")>>),
   Reading(<<Entity("e"), Aggregate("c", "x")>>, <<>>, <<>>),
   Reading(<<Property("f", "start_time"), Property("a", "start_time")>>,
        <<Cond("f", "edge_type", "calls")>>, <<>>)}

\* What is rejected, or nearly: inline properties, labels that are ambiguous
\* or unknown, and what the parser accepts but the engine does not support.
Odd ==
  {<<Path(n, <<Seg(r, Node("b", "mc"))>>)>> :
     n \in {Node("a", "jobs"), Node("a", "amb"), Node("a", "mc2"),
            Unplain(Node("a", "jobs"))},
     r \in {Inline(Hop("e", NULL, "right"), <<Prop("edge_type", "calls", TRUE),
                     Prop("start_time", "t0", TRUE)>>),
            Inline(Hop("e", NULL, "right"), <<Prop("nope", "t0", TRUE)>>),
            Inline(Hop("e", NULL, "right"), <<Prop("start_time", "t0", FALSE)>>),
            Unplain(Hop(NULL, NULL, "right"))}}
OddTails ==
  {Reading(<<Property("b", "z")>>, <<>>, <<>>),
   Reading(<<Unknown>>, <<>>, <<>>),
   Reading(<<Property("a", "x")>>, <<Cond("a", "nope", "u")>>, <<>>),
   Reading(<<Property("a", "x")>>, <<>>, <<Sort("variable", "n", NULL)>>)}

DirectedQueries ==
  {Ask(ps, t) : ps \in Chains \cup Forks \cup Lones, t \in DirectedTails}
  \cup {Ask(ps, Reading(<<Property("a", "x"), Count>>, <<>>, <<>>)) :
          ps \in Triples}
  \cup {Ask(ps, t) : ps \in Odd, t \in OddTails}

\* The queries behind the findings of the README: a relationship from a node
\* to itself, a node named like the alias of an anonymous relationship, two
\* nodes whose names differ in case, a node named like a keyword, a node labelled
\* with both spellings of one table, a node labelled with the edge table, and two
\* columns of the answer whose names differ in case.
MCLoopQueries ==
  {Ask(<<Path(Node("a", "jobs"), <<Seg(Hop("e", "calls", d), Node("a", NULL))>>)>>,
       Reading(<<Property("e", "source_id")>>, <<>>, <<>>)) :
     d \in {"right", "left"}}
MCAliasQueries ==
  {Ask(<<Path(Node("r", "jobs"),
              <<Seg(Hop(NULL, "calls", "right"), Node("b", "mc"))>>)>>,
       Reading(<<Property("r", "start_time")>>, <<>>, <<>>))}
MCCaseQueries ==
  {Ask(<<Path(Node("a", "jobs"), <<Seg(Hop("e", "calls", "right"), Node("A", "mc"))>>)>>,
       Reading(<<Property("a", "id"), Property("A", "id")>>, <<>>, <<>>))}
MCKeywordQueries ==
  {Ask(<<Path(Node("group", "jobs"), <<>>)>>,
       Reading(<<Property("group", "x")>>, <<>>, <<>>))}
MCSpellingQueries ==
  {Ask(<<Path(Node("a", "jobs"), <<Seg(Hop("e", NULL, "right"), Node("b", "mc"))>>),
         Path(Node("a", "submit"), <<>>)>>,
       Reading(<<Property("a", "x")>>, <<>>, <<>>))}
MCEdgeNodeQueries ==
  {Ask(<<Path(Node("a", "__provenance__"),
              <<Seg(Hop("e", "calls", "right"), Node("b", "mc"))>>)>>,
       Reading(<<Property("a", "edge_type")>>, <<>>, <<>>))}
MCOutputQueries ==
  {Ask(<<Path(Node("a", "jobs"), <<Seg(Hop("e", "calls", "right"), Node("b", "mc"))>>)>>,
       Reading(<<Entity("a"), [Property("b", "id") EXCEPT !.alias = "A"]>>, <<>>,
               <<Sort("variable", "A", NULL)>>))}
=============================================================================
