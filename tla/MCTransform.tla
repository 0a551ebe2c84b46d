---------------------------- MODULE MCTransform -----------------------------
(* Every engine: directed patterns, hops of all three kinds between all      *)
(* kinds of ends, and the queries that no engine takes.                      *)
EXTENDS Transform, MCDirected

MCWalkTable == "walk"

\* An int of three bits holds -4 to 3, a long stops at 31.
MCIntBits == 3
MCLongMax == 31

Upto(min, max) == [min |-> min, max |-> max]
Walk(type, dir, bounds) == [Hop(NULL, type, dir) EXCEPT !.varlen = bounds]
One(left, rel, right) == <<Path(left, <<Seg(rel, right)>>)>>

Lefts == {Node("a", "jobs"), Node("a", "submit"), Node("a", NULL),
          Node(NULL, "mc")}
Rights == {Node("b", "mc"), Node("b", "jobs"), Node("b", NULL),
           Node(NULL, "submit"), Node(NULL, NULL)}
UndirectedRels ==
  {Hop("e", NULL, "none"), Hop(NULL, "calls", "none"),
   Inline(Hop("e", "calls", "none"), <<Prop("start_time", "t0", TRUE)>>)}
WalkRels ==
  {Walk(t, d, b) : t \in {NULL, "calls"}, d \in {"left", "right"},
                   b \in {Upto(NULL, NULL), Upto(2, NULL), Upto(NULL, 1),
                          Upto(2, 3)}}
DirectedRels == {Hop("e", "calls", "left"), Hop(NULL, NULL, "right")}

Tails ==
  {Reading(<<Property("a", "x")>>, <<>>, <<>>),
   Reading(<<Entity("b"), Count>>, <<Cond("a", "x", "u")>>,
           <<Sort("variable", "n", NULL)>>),
   Reading(<<Property("b", "id"), Aggregate("a", "x")>>, <<>>,
           <<Sort("property", "a", "x")>>),
   Reading(<<Count>>, <<>>, <<>>)}
EdgeTails ==
  {Reading(<<Property("e", "start_time")>>, <<Cond("b", "z", "w")>>, <<>>)}
BadTails ==
  {Reading(<<Unknown>>, <<>>, <<>>),
   Reading(<<Property("a", "x")>>, <<Cond("a", "nope", "u")>>, <<>>),
   Reading(<<Property("a", "x")>>, <<>>, <<Sort("variable", "m", NULL)>>)}

Hops ==
  {Ask(One(l, r, m), t) : l \in Lefts, m \in Rights, t \in Tails,
     r \in UndirectedRels \cup WalkRels \cup DirectedRels}
  \cup {Ask(One(l, r, m), t) : l \in Lefts, r \in UndirectedRels, m \in Rights,
                               t \in EdgeTails}

\* What an engine refuses.
A == Node("a", "jobs")
B == Node("b", "mc")
BadHops ==
  {Ask(One(l, r, B), t) :
     l \in {A, Node("a", "amb"), Node("a", "jobs2"), Unplain(A)},
     r \in {Hop("e", NULL, "none"), Walk(NULL, "right", Upto(NULL, NULL)),
            Unplain(Hop("e", NULL, "none")),
            Inline(Hop("e", NULL, "none"), <<Prop("nope", "t0", TRUE)>>)},
     t \in {Reading(<<Count>>, <<>>, <<>>)} \cup BadTails}
  \cup {Ask(One(A, r, B), Reading(<<Count>>, <<>>, <<>>)) :
          r \in {Walk(NULL, "right", b) :
                   b \in {Upto(0, NULL), Upto(3, 2), Upto(NULL, 0),
                          Upto(NULL, 4), Upto(NULL, 40)}}
                \cup {Walk(NULL, "none", Upto(NULL, NULL)),
                      [Walk(NULL, "left", Upto(1, 2)) EXCEPT !.var = "e"],
                      Inline(Walk(NULL, "left", Upto(1, 2)),
                             <<Prop("start_time", "t0", TRUE)>>)}}

\* Chains and pairs of hops, and lone nodes, beside a directed hop.
C == Node("c", "jobs")
Two(r, s) ==
  {<<Path(A, <<Seg(r, B), Seg(s, C)>>)>>, <<Path(A, <<Seg(r, B)>>), Path(C, <<>>)>>,
   <<Path(C, <<>>), Path(A, <<Seg(s, B)>>)>>,
   <<Path(A, <<Seg(r, B)>>), Path(B, <<Seg(s, C)>>)>>}
Pairs ==
  {Ask(p, Reading(<<Property("a", "x"), Count>>, <<>>, <<>>)) :
     p \in UNION {Two(r, s) :
             r \in DirectedRels \cup {Hop("e", NULL, "none"),
                                      Walk(NULL, "left", Upto(1, 2))},
             s \in {Hop("f", NULL, "right"), Hop("f", NULL, "none"),
                    Walk(NULL, "right", Upto(1, 2))}}}

\* Answers that are grouped, counted, made distinct, ordered by an alias or cut
\* to a page.
Once(item) == [item EXCEPT !.distinct = TRUE]
Named(item, name) == [item EXCEPT !.alias = name]
AnswerShapes ==
  {One(A, Hop("e", NULL, "right"), Node("b", NULL)),
   One(A, Hop(NULL, "calls", "none"), Node("b", NULL)),
   One(A, Walk("calls", "right", Upto(NULL, NULL)), Node("b", NULL)),
   <<Path(A, <<>>), Path(B, <<>>)>>}
AnswerTails ==
  {Reading(<<Named(Property("a", "x"), "m")>>, <<>>,
           <<Sort("variable", "m", NULL)>>),
   Reading(<<Property("a", "start_time"), Once(Aggregate("a", "x"))>>, <<>>, <<>>),
   Reading(<<Count, Entity("a"), Aggregate("a", "start_time")>>, <<>>,
           <<Sort("variable", "n", NULL), Sort("property", "a", "x")>>),
   Reading(<<Once(Aggregate("a", "start_time")), Count>>, <<>>, <<>>)}
Answers ==
  {[Ask(p, t) EXCEPT !.distinct = d, !.skip = s, !.limit = l] :
     p \in AnswerShapes, t \in AnswerTails, d \in BOOLEAN,
     s \in {NULL, 0, 1, 2}, l \in {NULL, 0, 1}}

\* What transform_query itself refuses.
Plain == Ask(One(A, Hop("e", NULL, "right"), B),
             Reading(<<Property("a", "x")>>, <<>>, <<>>))
BadShapes ==
  {[Plain EXCEPT !.matches = 2], [Plain EXCEPT !.star = TRUE],
   [Plain EXCEPT !.paging = FALSE],
   [Plain EXCEPT !.items = <<[Count EXCEPT !.kind = "other"]>>]}

MCQueries == DirectedQueries \cup Hops \cup BadHops \cup Pairs \cup Answers
               \cup BadShapes

\* The queries behind the findings of the README: a walk from a node to itself,
\* a lower bound too large for an int, two relationships that may be one row, a
\* hop without a direction between nodes that are not joined, counted, and a
\* table named like the walk.
MCReachQueries ==
  {Ask(One(A, Walk("calls", "right", Upto(NULL, NULL)), Node("a", NULL)),
       Reading(<<Property("a", "x")>>, <<>>, <<>>))}
MCWrapQueries ==
  {Ask(One(A, Walk("calls", "right", Upto(9, NULL)), B),
       Reading(<<Property("a", "x")>>, <<>>, <<>>))}
MCSharedQueries ==
  {Ask(<<Path(A, <<Seg(Hop("e", "calls", "right"), B),
                   Seg(Hop("f", "calls", "left"), C)>>)>>,
       Reading(<<Property("a", "id"), Property("c", "id")>>, <<>>, <<>>))}
MCBothWaysQueries ==
  {Ask(One(Node("a", NULL), Hop("e", NULL, "none"), Node("b", NULL)),
       Reading(<<Count>>, <<>>, <<>>))}
MCShadowQueries ==
  {Ask(One(Node("a", "walk"), Walk("calls", "right", Upto(NULL, NULL)), B),
       Reading(<<Property("a", "steps")>>, <<>>, <<>>))}
\* Statements whose rows are not what the query says, and queries whose names
\* are not taken for what they are.
MCRowQueries ==
  MCLoopQueries \cup MCReachQueries \cup MCWrapQueries \cup MCSharedQueries
    \cup MCBothWaysQueries
MCNameQueries ==
  MCAliasQueries \cup MCCaseQueries \cup MCKeywordQueries \cup MCShadowQueries
    \cup MCSpellingQueries \cup MCEdgeNodeQueries \cup MCOutputQueries
MCShadowCatalog ==
  [t \in DOMAIN MCCatalog \cup {"walk"} |->
     IF t = "walk" THEN {"id", "steps"} ELSE MCCatalog[t]]
=============================================================================
