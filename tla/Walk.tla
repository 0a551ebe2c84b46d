-------------------------------- MODULE Walk --------------------------------
(***************************************************************************)
(* The recursive query transform_varlen emits, as the database runs it:    *)
(*                                                                         *)
(*   WITH RECURSIVE walk(...) AS (base UNION ALL recursive) SELECT ...     *)
(*                                                                         *)
(* Rows wait in a queue; a row taken from it joins the result and is       *)
(* extended by the recursive member.  The order of extraction is not       *)
(* specified by the query, so any row of the queue may be next.            *)
(***************************************************************************)
EXTENDS Trails

CONSTANTS
  InitGraphs,  \* the edge tables a run starts from
  InitHops     \* the patterns a run starts from

ASSUME WalkAssumption == InitGraphs \subseteq Graphs /\ InitHops \subseteq Hops

VARIABLES
  graph,   \* the edge table
  hop,     \* the pattern compiled into the query
  pc,      \* "base", "walk" or "done"
  queue,   \* rows of walk still to be extended
  result,  \* rows of walk already extended
  answer   \* the rows the outer SELECT keeps, none before it runs

vars == <<graph, hop, pc, queue, result, answer>>

Rows == [source : Nodes, target : Nodes, depth : Nat \ {0},
         path : Seq(Edges)]

Init ==
  /\ graph \in InitGraphs /\ hop \in InitHops
  /\ pc = "base" /\ queue = {} /\ result = {} /\ answer = {}

BaseRow(e) ==
  [source |-> graph.src[e], target |-> graph.tgt[e], depth |-> 1,
   path |-> <<e>>]

\* The base member: every edge of the type.
Base ==
  /\ pc = "base" /\ pc' = "walk"
  /\ queue' = {BaseRow(e) : e \in {d \in Edges : HasType(graph, hop, d)}}
  /\ UNCHANGED <<graph, hop, result, answer>>

\* e.source_id = w.target_id AND e.source_name = w.target_name
Meets(w, e) ==
  /\ graph.src[e].id = w.target.id
  /\ graph.src[e].name = w.target.name

\* w.path NOT LIKE '%/' || e.rowid || '/%'
Unused(w, e) == \A k \in 1 .. Len(w.path) : w.path[k] # e

\* w.depth < max, when the pattern has an upper bound
MayGrow(w) == hop.max # NULL => w.depth < hop.max

\* Mutants of CanExtend: the name equality dropped from the join; the depth
\* test off by one; only the last edge remembered.
CanExtendById(w, e) ==
  /\ graph.src[e].id = w.target.id
  /\ HasType(graph, hop, e) /\ MayGrow(w) /\ Unused(w, e)
CanExtendLate(w, e) ==
  /\ Meets(w, e) /\ HasType(graph, hop, e) /\ Unused(w, e)
  /\ hop.max # NULL => w.depth < hop.max + 1
CanExtendEarly(w, e) ==
  /\ Meets(w, e) /\ HasType(graph, hop, e) /\ Unused(w, e)
  /\ hop.max # NULL => w.depth + 1 < hop.max

CanExtend(w, e) ==
  Meets(w, e) /\ HasType(graph, hop, e) /\ MayGrow(w) /\ Unused(w, e)

ExtendedRow(w, e) ==
  [source |-> w.source, target |-> graph.tgt[e], depth |-> w.depth + 1,
   path |-> Append(w.path, e)]

Extensions(w) == {ExtendedRow(w, e) : e \in {d \in Edges : CanExtend(w, d)}}

\* Mutants of Extend: the extracted row is left in the queue; only rows that
\* nothing extends are kept as results.
ExtendKeep(w) ==
  /\ pc = "walk"
  /\ queue' = queue \cup Extensions(w)
  /\ result' = result \cup {w}
  /\ UNCHANGED <<graph, hop, pc, answer>>
ExtendLeaves(w) ==
  /\ pc = "walk"
  /\ queue' = (queue \ {w}) \cup Extensions(w)
  /\ result' = IF Extensions(w) = {} THEN result \cup {w} ELSE result
  /\ UNCHANGED <<graph, hop, pc, answer>>

\* The recursive member, run on one row taken from the queue.
Extend(w) ==
  /\ pc = "walk"
  /\ queue' = (queue \ {w}) \cup Extensions(w)
  /\ result' = result \cup {w}
  /\ UNCHANGED <<graph, hop, pc, answer>>

\* A mutant of Selected: an endpoint filter reads the wrong end.
SelectedSwapped(w) ==
  /\ hop.min > 1 => w.depth >= hop.min
  /\ hop.srcName # NULL => w.target.name = hop.srcName
  /\ hop.tgtName # NULL => w.target.name = hop.tgtName

\* The outer WHERE: depth >= m and the labelled endpoints' names.
Selected(w) ==
  /\ hop.min > 1 => w.depth >= hop.min
  /\ hop.srcName # NULL => w.source.name = hop.srcName
  /\ hop.tgtName # NULL => w.target.name = hop.tgtName

Select ==
  /\ pc = "walk" /\ queue = {} /\ pc' = "done"
  /\ answer' = {w \in result : Selected(w)}
  /\ UNCHANGED <<graph, hop, queue, result>>

Next == Base \/ (\E w \in queue : Extend(w)) \/ Select

Spec == Init /\ [][Next]_vars

\* A running statement is stepped until it is done.
FairSpec == Spec /\ WF_vars(Next)

-----------------------------------------------------------------------------
(* Properties *)

\* Every variable keeps its type.
TypeOK ==
  /\ graph \in Graphs /\ hop \in Hops
  /\ pc \in {"base", "walk", "done"}
  /\ queue \subseteq Rows /\ result \subseteq Rows /\ answer \subseteq Rows

\* A row of walk says the truth about its path: the path is a trail, depth
\* counts its edges, and source and frontier are its two ends.
RowTruth(w) ==
  /\ IsTrail(graph, hop, w.path)
  /\ w.depth = Len(w.path)
  /\ w.source = graph.src[w.path[1]]
  /\ w.target = graph.tgt[w.path[Len(w.path)]]

\* transform.c:1197-1207: every row of the table walk is such a row.
TrailInv == \A w \in queue \cup result : RowTruth(w)

\* UNION ALL keeps duplicates, and a duplicate row would be a match counted
\* twice: no path is ever produced by two rows.
RowsOnce ==
  /\ queue \cap result = {}
  /\ \A v, w \in queue \cup result : v.path = w.path => v = w
  /\ pc = "walk" => \A w \in queue : Extensions(w) \cap (queue \cup result) = {}

\* No trail is lost: each is already a row, or one of its proper prefixes
\* still waits to be extended.
Reached(p) ==
  \/ \E w \in queue \cup result : w.path = p
  \/ \E w \in queue : \E k \in 1 .. Len(p) - 1 : w.path = SubSeq(p, 1, k)
Frontier == pc # "base" => \A p \in AllTrails(graph, hop) : Reached(p)

\* The answer is the set of matching trails, one row for each.
AnswerExact ==
  pc = "done" =>
    /\ \A w \in answer :
         IsTrail(graph, hop, w.path) /\ Matches(graph, hop, w.path)
    /\ \A p \in AllTrails(graph, hop) :
         Matches(graph, hop, p) => \E w \in answer : w.path = p
    /\ \A v, w \in answer : v.path = w.path => v = w

\* transform.c:1205-1207: the walk ends, on a cyclic graph and without an
\* upper bound too.
Terminates == <>(pc = "done")

Paths(rows) == {w.path : w \in rows}

\* The query keeps the promise of a variable-length pattern.
Search == INSTANCE TrailSearch
            WITH found <- Paths(result),
                 reported <- pc = "done",
                 answer <- Paths(answer)
ImplementsSearch == Search!Spec
=============================================================================
