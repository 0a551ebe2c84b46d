------------------------------- MODULE MCData -------------------------------
(* The names, tables and databases of the model-checking instances: a table *)
(* and its recorded name differ, two tables share an id, and relationships  *)
(* are parallel, chained, cyclic and self-loops.                            *)
EXTENDS Translation

MCEdgeTable == "__provenance__"
MCSoleEdge == "r"
MCGenEdge == <<"_e0", "_e1", "_e2">>
MCGenNode == <<"_n0", "_n1", "_n2", "_n3", "_n4">>
MCSamples == {0, 1}
MCVars == {"a", "A", "b", "c", "e", "f", "group", "m", "n", "r"}
MCLower(name) == IF name = "A" THEN "a" ELSE name
MCKeywords == {"group"}
MCLabels == {"jobs", "submit", "mc", "amb", "jobs2", "mc2", "walk",
             "__provenance__"}
MCValues == {"calls", "uses", "u", "w", "t0"}

\* jobs records submit; amb is a table of one entry and a name of the other.
MCNameMap == <<[table |-> "jobs", name |-> "submit"],
               [table |-> "amb", name |-> "jobs2"],
               [table |-> "mc", name |-> "mc"],
               [table |-> "mc2", name |-> "amb"]>>
MCCatalog ==
  [t \in {"jobs", "mc", "__provenance__"} |->
     CASE t = "jobs" -> {"id", "x", "start_time"}
       [] t = "mc" -> {"id", "z"}
       [] OTHER -> {"source_id", "source_name", "target_id", "target_name",
                    "edge_type", "start_time"}]

MCColumns ==
  (UNION {MCCatalog[t] : t \in DOMAIN MCCatalog}) \cup {"nope", "steps"}

Node(var, label) == [var |-> var, label |-> label, plain |-> TRUE]
Hop(var, type, dir) ==
  [var |-> var, type |-> type, dir |-> dir, props |-> <<>>, plain |-> TRUE,
   varlen |-> NULL]
Seg(rel, node) == [rel |-> rel, node |-> node]
Path(start, segs) == [start |-> start, segs |-> segs]
Property(var, key) ==
  [kind |-> "property", var |-> var, key |-> key, alias |-> NULL, distinct |-> FALSE]
Entity(var) == [kind |-> "variable", var |-> var, key |-> NULL, alias |-> NULL, distinct |-> FALSE]
Count == [kind |-> "count", var |-> NULL, key |-> NULL, alias |-> "n", distinct |-> FALSE]
Aggregate(var, key) ==
  [kind |-> "aggregate", var |-> var, key |-> key, alias |-> NULL, distinct |-> FALSE]
Unknown == [kind |-> "function", var |-> NULL, key |-> NULL, alias |-> NULL, distinct |-> FALSE]
Sort(kind, var, key) == [kind |-> kind, var |-> var, key |-> key]
Cond(var, key, val) ==
  [kind |-> "property", var |-> var, key |-> key, val |-> val]
Query(paths, items, where, order) ==
  [matches |-> 1, paths |-> paths, star |-> FALSE, distinct |-> FALSE,
   items |-> items, paging |-> TRUE, skip |-> NULL, limit |-> NULL,
   where |-> where, order |-> order]

Reading(items, where, order) ==
  [items |-> items, where |-> where, order |-> order]
Ask(paths, t) == Query(paths, t.items, t.where, t.order)

\* What is rejected, or nearly.
Prop(key, val, literal) == [key |-> key, val |-> val, literal |-> literal]
Inline(rel, props) == [rel EXCEPT !.props = props]
Unplain(x) == [x EXCEPT !.plain = FALSE]

EdgeRow(rowid, s, t, type) ==
  [rowid |-> rowid, source_id |-> s[1], source_name |-> s[2],
   target_id |-> t[1], target_name |-> t[2],
   edge_type |-> type, start_time |-> "t0"]
JobRow(id, x) == [id |-> id, x |-> x, start_time |-> "t1"]
Database(edgeRows) ==
  [t \in DOMAIN Catalog |->
     CASE t = "jobs" -> {JobRow("1", "u"), JobRow("2", "v")}
       [] t = "mc" -> {[id |-> "1", z |-> "w"]}
       [] t = EdgeTable -> edgeRows
       [] OTHER -> {}]
j1 == <<"1", "submit">>
j2 == <<"2", "submit">>
m1 == <<"1", "mc">>
MCDatabases ==
  {Database({EdgeRow(1, j1, m1, "calls"), EdgeRow(2, m1, j2, "calls"),
             EdgeRow(3, j1, j1, "calls"), EdgeRow(4, j1, m1, "uses")}),
   Database({EdgeRow(1, j1, j2, "calls"), EdgeRow(2, j2, j1, "calls"),
             EdgeRow(3, m1, j1, "calls")}),
   Database({EdgeRow(1, j1, m1, "calls"), EdgeRow(2, j1, m1, "calls")})}
=============================================================================
