----------------------------- MODULE Translation ----------------------------
(***************************************************************************)
(* What an emitted statement means, and what the query meant.  The clauses *)
(* the engines emit are evaluated on small databases the way SQL evaluates *)
(* them, and compared with the matches of the pattern.                     *)
(*                                                                         *)
(* A database maps each table to a set of rows, a row maps the columns of  *)
(* the catalog to values.  Rows of the edge table also have their rowid,   *)
(* which no query reads, so that two equal relationships stay two rows.    *)
(***************************************************************************)
EXTENDS Emission, FiniteSets, Functions

CONSTANTS
  Databases,
  Lower(_),       \* how SQLite compares the names of FROM items
  Keywords        \* what SQLite does not take for a name

\* The trails of an edge table, and the graph its rows are.
T(E) == INSTANCE Trails WITH Edges <- E, Ids <- {}, Names <- {}, Types <- {}
Source(row) == [id |-> row.source_id, name |-> row.source_name]
Target(row) == [id |-> row.target_id, name |-> row.target_name]
GraphOf(E) == [src |-> [e \in E |-> Source(e)], tgt |-> [e \in E |-> Target(e)],
               type |-> [e \in E |-> e.edge_type]]
TrailsOf(E, type, max) ==
  T(E)!AllTrails(GraphOf(E), [type |-> type, max |-> max])

-----------------------------------------------------------------------------
(* The SQL *)

\* The rows and the columns of a table; the common table expression hides a
\* table of its name.  Its rows are the trails, as module Walk shows.
IsWalk(table) == sql.with # <<>> /\ table = sql.with[1].name
WalkRow(p) ==
  LET s == Source(p[1]) f == Target(p[Len(p)]) IN
  [source_id |-> s.id, source_name |-> s.name, target_id |-> f.id,
   target_name |-> f.name, depth |-> Len(p), path |-> p]
WalkColumns == {"source_id", "source_name", "target_id", "target_name",
                "depth", "path"}
TableRows(db, table) ==
  IF IsWalk(table)
  THEN {WalkRow(p) : p \in TrailsOf(db[EdgeTable], sql.with[1].type, sql.with[1].max)}
  ELSE db[table]
TableColumns(table) == IF IsWalk(table) THEN WalkColumns ELSE Catalog[table]

\* The FROM items a column reference may stand for.  A reference to an alias
\* is an error of the database unless exactly one item has that column; an
\* alias is written without quotes, and compared without regard to case.
Denoted(ref) ==
  {j \in DOMAIN sql.from : /\ ref.alias \notin Keywords
                           /\ Lower(sql.from[j].alias) = Lower(ref.alias)
                           /\ ref.col \in TableColumns(sql.from[j].table)}
Value(row, ref) == row[CHOOSE j \in Denoted(ref) : TRUE][ref.col]

OnHolds(row, n) ==
  \A c \in Range(sql.from[n].on) : Value(row, c[1]) = Value(row, c[2])

\* The rows of FROM, joined one item after the other.
JoinedRows(db) ==
  LET joined[n \in 0 .. Len(sql.from)] ==
        IF n = 0 THEN {<<>>}
        ELSE {row \in {Append(r, x) : r \in joined[n - 1],
                                      x \in TableRows(db, sql.from[n].table)} :
                OnHolds(row, n)}
  IN joined[Len(sql.from)]

\* A predicate of the pattern, and a condition of the query.
Holds(row, c) ==
  CASE c.op = "=" -> \A ref \in c.reads : Value(row, ref) = c.val
    [] c.op = ">=" -> \A ref \in c.reads : Value(row, ref) >= c.least
    [] c.op = "or" ->
         \E one \in c.cases :
           /\ \A p \in one.ids : Value(row, p[1]) = Value(row, p[2])
           /\ \A p \in one.names : Value(row, p[1]) = p[2]
Tests(row, c) == \A ref \in c.reads : Value(row, ref) = c.val

\* The rows the WHERE clause keeps, and what SELECT shows of each.
SqlRows(db) ==
  {row \in JoinedRows(db) :
     /\ \A c \in Range(sql.pred) : Holds(row, c)
     /\ \A c \in Range(sql.where) : Tests(row, c)}
SqlShown(db) ==
  [row \in SqlRows(db) |->
     [i \in DOMAIN sql.select |->
        {<<ref.col, Value(row, ref)>> : ref \in sql.select[i].reads}]]

\* What GROUP BY tells rows apart by.
SqlKey(row) ==
  [j \in DOMAIN sql.group |->
     {<<ref.col, Value(row, ref)>> : ref \in sql.group[j].reads}]

\* How often each value occurs, or that it does.
Bag(f, distinct) ==
  [v \in Range(f) |->
     IF distinct THEN 1 ELSE Cardinality({x \in DOMAIN f : f[x] = v})]

\* The lines of an answer: one for each row or, with aggregates, for each group
\* of rows of one key.  An aggregate is of the values it is given; of a column
\* that is not aggregated any row of the group may be read.
Lines(shown, key, items, distinct) ==
  LET total == {i \in DOMAIN items : IsAggregate(items[i])}
      groups == IF total = {} THEN {{x} : x \in DOMAIN shown}
                ELSE IF total = DOMAIN items THEN {DOMAIN shown}
                ELSE {{x \in DOMAIN shown : key[x] = v} : v \in Range(key)}
  IN Bag([g \in groups |->
            [i \in DOMAIN items |->
               IF i \in total
               THEN Bag([x \in g |-> shown[x][i]], items[i].distinct)
               ELSE {shown[x][i] : x \in g}]],
         distinct)
AnswerOver(db, rows) ==
  Lines(Restrict(SqlShown(db), rows), [row \in rows |-> SqlKey(row)],
        sql.select, sql.distinct)
SqlAnswer(db) == AnswerOver(db, SqlRows(db))

\* Which of the lines 1 to n LIMIT and OFFSET let through.
SqlPage(n) ==
  {l \in 1 .. n :
     LET first == IF sql.offset = NULL THEN 0 ELSE sql.offset
     IN /\ l > first
        /\ sql.limit # NULL /\ sql.limit >= 0 => l <= first + sql.limit}

\* The column ORDER BY takes a name for: the first whose name it is, in any case.
OutputNamed(name) ==
  LET hits == {j \in DOMAIN sql.select : /\ sql.select[j].as # NULL
                                         /\ Lower(sql.select[j].as) = Lower(name)}
  IN CHOOSE j \in hits : \A i \in hits : j <= i

-----------------------------------------------------------------------------
(* The query *)

NodeOccsIn(q) == UNION {{<<i, n>> : n \in 0 .. Len(q.paths[i].segs)} :
                          i \in DOMAIN q.paths}
RelOccsIn(q) == {o \in NodeOccsIn(q) : o[2] > 0}
NodeOccs == NodeOccsIn(query)
RelOccs == RelOccsIn(query)
NodeOf(o) == NodeAt(o[1], o[2])
RelOf(o) == query.paths[o[1]].segs[o[2]].rel

\* Occurrences with one key are one node.
KeyOf(o) == [var |-> NodeOf(o).var,
             at |-> IF NodeOf(o).var = NULL THEN o ELSE NULL]
Before(o) == <<o[1], o[2] - 1>>
SrcKey(o) == KeyOf(IF RelOf(o).dir = "left" THEN o ELSE Before(o))
TgtKey(o) == KeyOf(IF RelOf(o).dir = "left" THEN Before(o) ELSE o)

Keys == {KeyOf(o) : o \in NodeOccs}
LoneKeys == Keys \ ({SrcKey(o) : o \in RelOccs}
                       \cup {TgtKey(o) : o \in RelOccs})

\* What the labels written for a node mean.
Meanings(key) ==
  {Resolution(NameMap, NodeOf(o).label) :
     o \in {x \in NodeOccs : KeyOf(x) = key /\ NodeOf(x).label # NULL}}
TableOf(key) == (CHOOSE m \in Meanings(key) : TRUE).table

\* What a relationship of the pattern may stand for: a trail, of one row
\* unless its length is variable, and read backwards if it has no direction.
\* Backwards, a row from a node to itself is nothing new.
Trail(path, flipped) == [path |-> path, flipped |-> flipped]
StandsFor(o, db) ==
  LET rel == RelOf(o) rows == db[EdgeTable] IN
  IF rel.varlen # NULL
  THEN {Trail(p, FALSE) :
          p \in {q \in TrailsOf(rows, rel.type, rel.varlen.max) :
                   rel.varlen.min # NULL => Len(q) >= rel.varlen.min}}
  ELSE {Trail(<<row>>, FALSE) : row \in rows}
       \cup {Trail(<<row>>, TRUE) :
               row \in {r \in rows : rel.dir = "none"
                                       /\ Source(r) # Target(r)}}
Fits(o, trail) ==
  \A n \in DOMAIN trail.path :
    /\ RelOf(o).type # NULL => trail.path[n].edge_type = RelOf(o).type
    /\ \A p \in Range(RelOf(o).props) : trail.path[n][p.key] = p.val
First(trail) == IF trail.flipped THEN Target(trail.path[1])
                                 ELSE Source(trail.path[1])
Last(trail) == IF trail.flipped THEN Source(trail.path[1])
                                ELSE Target(trail.path[Len(trail.path)])

\* The nodes a choice of relationships puts at a key.
EndsAt(rels, key) ==
  {First(rels[o]) : o \in {x \in RelOccs : SrcKey(x) = key}}
    \cup {Last(rels[o]) : o \in {x \in RelOccs : TgtKey(x) = key}}

\* A laying of the pattern over the database chooses what each relationship of
\* the pattern stands for and a row for each node that has none.
Layings(db) ==
  {m \in [rels : [RelOccs -> UNION {StandsFor(o, db) : o \in RelOccs}],
          lone : [LoneKeys -> UNION {db[TableOf(key)] : key \in LoneKeys}]] :
     /\ \A o \in RelOccs :
          m.rels[o] \in StandsFor(o, db) /\ Fits(o, m.rels[o])
     /\ \A key \in LoneKeys : m.lone[key] \in db[TableOf(key)]
     /\ \A key \in Keys \ LoneKeys :
          /\ Cardinality(EndsAt(m.rels, key)) = 1
          /\ \A node \in EndsAt(m.rels, key), r \in Meanings(key) :
               node.name = r.name}

\* A match is a laying in which no two relationships of the pattern use one row
\* of the edge table: "Cypher's relationship-uniqueness" of transform.c:46-48
\* and 1205-1207.  Within one walk it is the trail that sees to it.
UsesOnce(m) ==
  \A o, p \in RelOccs :
    o # p => Range(m.rels[o].path) \cap Range(m.rels[p].path) = {}
Matches(db) == {m \in Layings(db) : UsesOnce(m)}

\* The row a variable stands for in a match.
RowOf(db, m, var) ==
  LET key == [var |-> var, at |-> NULL] IN
  IF key \in LoneKeys THEN m.lone[key]
  ELSE IF key \in Keys
  THEN CHOOSE row \in db[TableOf(key)] :
         \E node \in EndsAt(m.rels, key) : row.id = node.id
  ELSE m.rels[CHOOSE o \in RelOccs : RelOf(o).var = var].path[1]

Shown(db, m, e) ==
  CASE e.kind \in {"property", "aggregate"} ->
         {<<e.key, RowOf(db, m, e.var)[e.key]>>}
    [] e.kind = "variable" ->
         LET key == [var |-> e.var, at |-> NULL]
             table == IF key \in Keys THEN TableOf(key) ELSE EdgeTable
         IN {<<c, RowOf(db, m, e.var)[c]>> : c \in Catalog[table]}
    [] e.kind = "count" -> {}

QueryRows(db) ==
  {m \in Matches(db) :
     \A c \in Range(query.where) : RowOf(db, m, c.var)[c.key] = c.val}
QueryShown(db) ==
  [m \in QueryRows(db) |->
     [i \in DOMAIN query.items |-> Shown(db, m, query.items[i])]]

\* Matches are grouped by what is not aggregated, whole entities being what they
\* are and not what they look like.
QueryKey(db, m) ==
  [i \in {j \in DOMAIN query.items : ~IsAggregate(query.items[j])} |->
     IF query.items[i].kind = "variable" THEN RowOf(db, m, query.items[i].var)
     ELSE Shown(db, m, query.items[i])]
QueryAnswer(db) ==
  Lines(QueryShown(db), [m \in QueryRows(db) |-> QueryKey(db, m)], query.items,
        query.distinct)
QueryPage(n) ==
  {l \in 1 .. n :
     /\ query.skip # NULL => l > query.skip
     /\ query.limit # NULL =>
          l <= query.limit + (IF query.skip = NULL THEN 0 ELSE query.skip)}

-----------------------------------------------------------------------------
(* Properties *)

NodeVars == {NodeOf(o).var : o \in NodeOccs} \ {NULL}
RelVars == {RelOf(o).var : o \in RelOccs} \ {NULL}

\* README.md:24-45, catalog.c:128-134: the tables of a schema are the edge table,
\* which has the ends and the type of a relationship, and tables with an id.
ASSUME SchemaAssumption ==
  /\ EdgeTable \in DOMAIN Catalog
  /\ {"source_id", "source_name", "target_id", "target_name", "edge_type"}
       \subseteq Catalog[EdgeTable]
  /\ \A table \in DOMAIN Catalog \ {EdgeTable} : "id" \in Catalog[table]

\* README.md:24-30: a row of a node table is the node of its id, and the end of a
\* relationship that has the name recorded for a table has its row there.
ASSUME DatabaseAssumption ==
  \A db \in Databases :
    /\ \A table \in DOMAIN Catalog : IsFiniteSet(db[table])
    /\ \A table \in DOMAIN Catalog \ {EdgeTable} :
         \A r, s \in db[table] : r.id = s.id => r = s
    /\ \A label \in Labels :
         LET m == Resolution(NameMap, label) IN
         m.ok /\ m.table \in DOMAIN Catalog \ {EdgeTable} =>
           \A e \in db[EdgeTable] : \A node \in {Source(e), Target(e)} :
             node.name = m.name => \E r \in db[m.table] : r.id = node.id

\* transform.c:835-838, 853-855: r, _e0, _e1, ..., _n0, _n1, ... are distinct, of
\* small letters, no keywords, and there is one for whatever a query needs.
ASSUME AliasAssumption ==
  LET generated == {SoleEdge} \cup Range(GenEdge) \cup Range(GenNode) IN
  /\ GenEdge \in Seq(generated) /\ IsInjective(GenEdge)
  /\ GenNode \in Seq(generated) /\ IsInjective(GenNode)
  /\ Range(GenNode) \cap ({SoleEdge} \cup Range(GenEdge)) = {}
  /\ \A name \in generated : Lower(name) = name /\ name \notin Keywords
  /\ \A q \in Queries : /\ Cardinality(RelOccsIn(q)) <= Len(GenEdge)
                        /\ Cardinality(NodeOccsIn(q)) <= Len(GenNode)

\* Names that mean one thing: a relationship variable is used once, is no
\* node, no two variables differ in case only, none is a keyword or spelled
\* like an alias the engine generates; no table is hidden by the walk, no node
\* is of the edge table, which has no id, and no two columns of the answer have
\* one name.
WellNamed ==
  LET names == NodeVars \cup RelVars
      anonymous == {o \in RelOccs : RelOf(o).var = NULL}
      generated == (IF anonymous = {} THEN {}
                    ELSE IF Cardinality(RelOccs) = 1 THEN {SoleEdge}
                    ELSE Range(GenEdge)) \cup Range(GenNode)
  IN /\ Cardinality(RelVars) + Cardinality(anonymous) = Cardinality(RelOccs)
     /\ NodeVars \cap RelVars = {}
     /\ \A v, w \in names : Lower(v) = Lower(w) => v = w
     /\ names \cap Keywords = {} /\ {Lower(v) : v \in names} \cap generated = {}
     /\ \A table \in DOMAIN Catalog : ~IsWalk(table)
     /\ \A i \in DOMAIN slots : slots[i].label # EdgeTable
     /\ \A i, j \in DOMAIN sql.select :
          LET named == sql.select[i].as # NULL /\ sql.select[j].as # NULL IN
          named /\ Lower(sql.select[i].as) = Lower(sql.select[j].as) => i = j

\* A relationship from a node to itself.
HasSelfLoop == \E o \in RelOccs : SrcKey(o) = TgtKey(o)

\* Every reference of the finished statement, from all of its clauses.
AllReads ==
  (UNION {c.reads : c \in Range(sql.select) \cup Range(sql.where)
                            \cup Range(sql.order) \cup Range(sql.group)
                            \cup Range(sql.pred)})
    \cup (UNION {{c[1], c[2]} : c \in UNION {Range(sql.from[j].on) :
                                               j \in DOMAIN sql.from}})

\* transform.c:178-181, 261-262: a reference resolved against the binds reads
\* the node or relationship it was resolved to, whose table is in the FROM; and
\* transform.c:422-424, an alias in ORDER BY is resolved to the column of that alias.
ReadsDenote ==
  pc = "done" =>
    /\ \A ref \in AllReads :
         \E j \in DOMAIN sql.from :
           Denoted(ref) = {j} /\ sql.from[j].of = ref.of
    /\ \A c \in Range(sql.order) :
         c.kind = "alias" => query.items[OutputNamed(c.name)].alias = c.name

\* The same for queries whose names mean one thing: there, emitting SELECT,
\* WHERE, ORDER BY and GROUP BY first has every table joined that they read.
NamedReadsDenote == WellNamed => ReadsDenote

\* ON clauses read only items to their left and the item they join: the
\* database refuses others.
OnReadsLeft ==
  \A j \in DOMAIN sql.from : \A c \in Range(sql.from[j].on), s \in {1, 2} :
    \E i \in 1 .. j : sql.from[i].of = c[s].of

\* The statement has a row for each match.  An undirected hop has one row for
\* both orientations of a relationship unless something tells its ends apart: a
\* joined end, or names that differ.
CountsMatches ==
  (\E o \in RelOccs : RelOf(o).dir = "none") =>
    \/ \E i \in DOMAIN slots : slots[i].referenced
    \/ /\ \A i \in DOMAIN slots : slots[i].name # NULL
       /\ \E i, j \in DOMAIN slots : slots[i].name # slots[j].name

\* Where whole relationships are grouped by or made distinct, no two of them are
\* equal in every column: SQL has only the columns to tell them apart by.
TellsApart(db) ==
  (/\ query.distinct \/ \E i \in DOMAIN query.items : IsAggregate(query.items[i])
   /\ \E i \in DOMAIN query.items : /\ query.items[i].kind = "variable"
                                    /\ query.items[i].var \in RelVars)
    => \A r, s \in db[EdgeTable] :
         (\A c \in Catalog[EdgeTable] : r[c] = s[c]) => r = s

\* The rows of the statement that do not use a row of the edge table twice.
RepeatsNone(row) ==
  \A i, j \in DOMAIN sql.from :
    /\ i # j
    /\ sql.from[i].table = EdgeTable /\ sql.from[j].table = EdgeTable
    => row[i] # row[j]
OnceRows(db) == {row \in SqlRows(db) : RepeatsNone(row)}

\* transform.c:2-52: on every database, the rows of the statement that use no
\* relationship twice are the matches of the pattern, once for each and nothing
\* else, and what they answer is what the query asks of the matches, grouped,
\* counted and made distinct; the page is the one the query says.  Where no row
\* uses a relationship twice, that is the answer of the statement.  With an
\* undirected hop whose ends nothing tells apart, the rows show what the matches
\* do but not as often.  AnswersAsWritten has none of these conditions.
SameAnswer ==
  pc = "done" /\ WellNamed /\ ~HasSelfLoop =>
    \A db \in Databases :
      IF CountsMatches
      THEN /\ TellsApart(db) => AnswerOver(db, OnceRows(db)) = QueryAnswer(db)
           /\ LET n == Cardinality(SqlRows(db)) IN SqlPage(n) = QueryPage(n)
      ELSE Range(SqlShown(db)) = Range(QueryShown(db))

\* transform.c:127-128, "A node is identified across the whole query by its
\* variable name": in a row of the statement the relationships that meet at a
\* variable meet at one node.
SameVariableSameNode ==
  LET same(i, j) ==
        i = j \/ (slots[i].var # NULL /\ slots[i].var = slots[j].var)
  IN pc = "done" /\ WellNamed =>
       \A db \in Databases : \A row \in SqlRows(db) :
         \A e, f \in DOMAIN edges :
           /\ same(edges[e].src, edges[f].src) =>
                row[e].source_id = row[f].source_id
           /\ same(edges[e].src, edges[f].tgt) =>
                row[e].source_id = row[f].target_id

\* transform.c:1190-1213, a hop "compiled to a recursive CTE" of which "depth >=
\* m enforces the lower bound (the upper bound is enforced inside the
\* recursion)": the walks returned are as long as the query says.
DepthsAsWritten ==
  pc = "done" /\ sql.with # <<>> =>
    \A db \in Databases : \A row \in SqlRows(db) :
      LET bounds == RelOf(<<1, 1>>).varlen IN
      /\ bounds.min # NULL => row[1].depth >= bounds.min
      /\ bounds.max # NULL => row[1].depth <= bounds.max

\* transform.c:46-48, "an edge's rowid may appear once per path", as in "Cypher's
\* relationship-uniqueness", and 32-33, "an undirected hop `(a)-[r]-(b)` is
\* translated separately as an OR over both orientations": the statement
\* answers for each match of the pattern, and for nothing else.
AnswersAsWritten ==
  pc = "done" /\ WellNamed =>
    \A db \in Databases :
      TellsApart(db) => SqlAnswer(db) = QueryAnswer(db)

\* The rows of a statement are of the nodes and the lengths the query names, and
\* they are its matches.
RowsAsWritten ==
  SameVariableSameNode /\ DepthsAsWritten /\ AnswersAsWritten

\* names.h:14-15, "a label may be written as either spelling": labels of one
\* variable are rejected as conflicting only when they mean different nodes.
SpellingsDoNotConflict ==
  err = "conflict" =>
    \E key \in Keys : Cardinality(Meanings(key)) > 1

\* A name of the query stands for one node, in the statement's references and
\* in either spelling of its label.
NamesAsWritten == ReadsDenote /\ SpellingsDoNotConflict
=============================================================================
