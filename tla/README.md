# A TLA+ model of knit-cypher-to-sql

knit-cypher-to-sql reads a Cypher query and prints one SQLite statement that
answers it over a provenance graph. The graph is a table of relationships,
`__provenance__` (rows with `source_id`, `source_name`, `target_id`,
`target_name`, `edge_type`, ...), and one table per recorded function, whose
rows are the nodes. The program is sequential and keeps nothing between runs.
What is hard in it is not concurrency: it is that the statement must mean what
the query meant, for every pattern, and that several passes over the pattern
must agree with each other before the first character of `FROM` is printed.

Paths below are relative to `src/` of the repository.

## The system

| Part | Source | State it keeps | Operations |
|---|---|---|---|
| Command line | `main.c` | the options read so far, the query, the map | option loop, choice of the map's source, run, exit codes |
| Scanner | `cypher_scanner.l` | the current token's text | rules, `decode_string`, `strip_backticks` |
| Parser | `cypher_parser.y` | the semantic stack | reductions that build the tree, `%destructor`, `cypher_parse` |
| Syntax tree | `ast.c`, `ast.h` | none, a tree of owned nodes | constructors, frees, dump |
| Schema catalog | `catalog.c` | tables and their columns | `catalog_from_schema` (parse, drop tables without `id`), lookups |
| Name map | `names.c` | the entries `table=name` | `names_parse`, `names_parse_file`, `names_resolve` |
| General engine | `transform.c` 620-1005 | slots, edges, binds, seven text buffers | `transform_general` |
| Undirected engine | `transform.c` 1007-1191 | two slots, one edge | `transform_undirected` |
| Variable-length engine | `transform.c` 1193-1453 | two slots, bounds | `transform_varlen` |
| Dispatch | `transform.c` 326-347, 1457-1504 | flags of one scan | `transform_query` |
| Expressions, quoting | `transform.c` 91-114, 459-622 | none | `emit_expr`, `emit_like`, `append_ident`, `append_string` |
| String buffer | `sqlbuf.c` | bytes, length, capacity | append, appendf, detach |
| SQLite (external) | how `transform.c` uses it | rows of the running statement | joins, recursive common table expression |

The parts call each other in one direction. `main.c` loads the catalog and the
map, the parser builds a tree, `transform_query` dispatches the tree to one of
three engines, each engine asks the map what a label means and the catalog
which columns exist, and writes into string buffers. The state that passes
between steps is inside one engine: the slot table of a pattern, where a
reference found while printing SELECT decides which tables FROM joins.

What makes each part correct:

- **Name map.** A label means the entry that spells it as table or as recorded
  name, an ambiguity is reported, and a malformed map is never half used.
- **General engine.** One slot per node, one anchor per slot, every reference
  denotes what it was resolved to, every later relationship is tied to the
  nodes it shares, and the statement returns each match once.
- **Variable-length engine.** The recursive query yields every trail (no
  relationship twice) within the bounds, once, and ends on a cyclic graph.
- **Undirected engine.** An edge is answered for each orientation that fits.
- **Dispatch.** Every query gets the engine that knows its shape, or a message.
- **Catalog, buffer, parser, command line.** Ownership: what is dropped is
  freed once, what is kept is not; an error leaves no output and a status.

The hard behaviours are orders of passes (references before joins), aliasing
(variables, generated names and tables share one name space), ids that are
unique per table only, cycles, repeated entries of the map, and bounds.

## The modules

| Module | What it is |
|---|---|
| `NameMaps` | what a name map means for a label, without the loop |
| `Names` | `names_parse` on the characters of a specification, then the loop of `names_resolve` |
| `Catalog` | `catalog_from_schema` line by line, its filtering in place, `catalog_free` |
| `Emission` | what the engines share: the shapes of `ast.h`, the locals of an engine, and the clauses before FROM |
| `General` | `transform_general` as a state machine over one query |
| `SoleHop` | what the two engines for a single hop share |
| `Undirected` | `transform_undirected` |
| `Varlen` | `transform_varlen` around its recursive query |
| `Transform` | `transform_query`: the checks, the choice of the engine, and the engine; composes the three |
| `Translation` | the emitted SQL evaluated on databases, the query evaluated directly, and the properties that compare them |
| `Trails` | a provenance graph, its trails, and which of them a pattern matches |
| `TrailSearch` | the promise of a variable-length pattern: trails are found in any order, the answer comes when all are |
| `Walk` | the recursive query of `transform_varlen` as the database runs it |
| `LR` | what a generated shift/reduce parser decides: its automaton, default reductions, precedences |
| `Grammar` | `cypher_parser.y` as data: productions with their actions, precedences, destructors |
| `Parser` | `cypher_parse` scan by scan, shift by shift, with the owner of every string |
| `Expression` | WHERE from the query's tokens to the tree SQLite reads back from the emitted SQL |
| `Strings` | one quoted string: decoded by the scanner, written by `append_*`, read by SQLite |
| `Text` | what `sqlbuf.h` promises: a text that grows and is handed over |
| `SqlBuf` | `sqlbuf.c` byte by byte, in memory that may run out |
| `Slurp` | the loops that read stdin and the map file into a buffer that doubles |
| `Main` | `main.c`: arguments, order of the work, failures, releases, exit codes; runs the loops of `Slurp` where it reads |
| `MCData`, `MCDirected` | the names, tables and databases of the instance of `Transform`, and its directed patterns |
| `MCNames`, `MCCatalog`, `MCWalk`, `MCTransform`, `MCExpression`, `MCStrings`, `MCSqlBuf` | constants for TLC |
| `NamesProofs`, `WalkProofs`, `TransformProofs`, `MainProofs`, `ParserProofs`, `StringsProofs` | theorems and proofs |
| `AnswerProofs` | what the statement of a translation answers, on top of `TransformProofs` |
| `MemoryProofs` | theorems and proofs about the two parts that own memory, `Catalog` and `SqlBuf` |

How they stand on each other: `Names` and `Emission` use `NameMaps`. `Names`
shows that the loop computes `Resolution`, and the engines use `Resolution` as
one step. `General`, `SoleHop` and `Translation` extend `Emission`, `Undirected`
and `Varlen` extend `SoleHop`, and `Transform` extends the three engines: it has
the initial state and dispatches to the steps of one (`GeneralNext`,
`UndirectedNext`, `VarlenNext`). `MCTransform` puts it beside `Translation`, so
that the properties read the statement it leaves. `Walk` shows that the
rows of the recursive query are the trails of `Trails`, and `Translation`, in
which the recursive query is one item of FROM, takes its rows to be them.

`Parser` runs the automaton `LR` builds from `Grammar`. `Expression` extends
`Parser`: the trees it compares are the ones the parser builds, and SQLite's own
parser is `LR` over a second grammar. `SqlBuf` implements `Text`, and `Strings`
stands alone. `Main` extends `Slurp`, whose loop it runs for the map file and
for the schema; of the other parts it takes only what they leave allocated when
they succeed and when they fail, which is what `Catalog`, `Parser` and `SqlBuf`
show of them.

### Names

A specification is a text of characters, of which `=`, the two separators and
the four kinds of whitespace mean something. `PieceEnd` is the loop of
`names_parse`, `Trim` is `trim`, which takes more off the end than off the front,
and `EqualsAt` is the `strchr` of `parse_entry`. One action per branch of
`parse_entry` (`SkipBlank`, `AddEntry`, `RejectEntry`) and of `names_resolve`
(`NoLabel`, `ScanEntry`, `Decide`). The four pointers of the loop are two cells,
`asTable` and `asName`, each an entry or `NULL`. `MapIsSpec` says what the map of a
text is without cutting or trimming it: which intervals of the text are entries,
and which text is rejected (`Malformed`).

### Catalog

| Code | Model |
|---|---|
| the loop over lines, `catalog_add_table`, `table_add_column` | `SkipLine`, `AddTable` with `Table`, `EndRead` |
| `table_has_id`, the edge table | `HasId`, `IsGraphTable` |
| compacting in place | `Keep`, `Drop`, `EndFilter` |
| `free_table_contents` | `Release` |
| `catalog_free` | `StartFree`, `FreeTable`, `EndFree` |
| `catalog_find_table` | `Find` |

The strings of one table are one block, named after the line they were copied
from; an assignment of structures copies the reference to the block, which is
what makes the entries left behind at the end of the array dangerous. `live`
is the memory, `fault` remembers a second release.

### The engines

The variables are the locals of the engines: `slots`, `edges`, `binds` and the
buffers as the fields of `sql`. `pc` is the loop being run and `k` its index;
indices start at 1 and 0 stands for the code's -1.

| Code | Model |
|---|---|
| `emit_select`, `emit_expr`, `emit_order_by`, `emit_group_by` | `EmitSelect`, `EmitWhere`, `EmitOrder`, `OrderByAlias`, `EmitGroup`, `SkipGroup` and the failing actions |
| `emit_limit_offset` | `EmitPage` |
| `emit_property`, `emit_entity`, `emit_agg` | `CanEmit`, `Reads`, `Marked` |
| `find_bind`, binds | `BindOf`, `BindsOf` |
| `emit_rel_props` | `PropsOK`, `PropPreds` |
| `slot_for` | `SlotIndex`, `SlotFor`, `Conflict` |
| general: collecting a path's start, a segment, anchoring | `CollectStart`, `CollectSegment`, `CollectFail`, `Anchor` |
| general: the resolution loop | `ResolveSlot`, `ResolveFail` |
| general: lone nodes and table checks, binds | `MarkSlot`, `MarkFail`, `Bind` |
| general: edges, lone nodes, referenced nodes in FROM | `FromEdge`, `FromLone`, `SkipLone`, `FromNode`, `SkipJoin`, with `Ties` for `emit_tie` |
| general: predicates | `EmitPreds`, `PredsFail` |
| single hop: the two slots, the edge and the binds | `OpenHop`, `EndSlot`, `EndsRefusal` |
| single hop: joins of the ends | `JoinEnd`, `SkipEnd` |
| `orient_side`, `build_orient` | `SideIds`, `SideNames`, `Orientation`, `EitherWay` |
| undirected: checks, FROM, WHERE | `OpenUndirected`, `RefuseUndirected`, `FromUndirected`, `PredsUndirected`, `RefusePreds` |
| `varlen_opt` of the parser | `Atoi`, `ReadMin`, `ReadMax` |
| variable length: checks and bounds | `Supported`, `BoundsOK`, `OpenVarlen`, `RefuseVarlen` |
| variable length: the outer query | `FromWalk`, `JoinWalk`, `SkipWalk`, `EndPreds`, `DepthPreds` |
| `transform_query`, `check_return_shape` | `Engine`, `Shape`, `Sole`, `Dispatch`, `Refuse` |

The text of the statement is kept as a record of clauses. A column reference
carries the alias and the column, as the text does, and in `of` the slot or
edge it was emitted for. No action reads `of`: `Translation` finds the item of
FROM by the alias, as SQLite does, and the properties compare the two.

In the engines for a single hop the test that a node to join has a table
(lines 1113-1121 and 1302-1310) repeats what emitting a column of it has
required, so it has no action: a slot is marked only in `emit_property` and
`emit_entity`, which reject a slot without a table.

`Translation` gives the meaning of both sides. `SqlRows` joins the items of
FROM left to right under their ON clauses and keeps the rows WHERE accepts.
`QueryRows` is written from Cypher alone: a laying of the pattern over the database
(`Layings`) is a choice of a relationship, or a trail, for each relationship of the
pattern and of a row for each lone node, such that occurrences with one variable are
one node, and a match is a laying that uses no relationship twice (`UsesOnce`), which
is the relationship-uniqueness `transform.c:46-48` speaks of. `SqlAnswer` and
`QueryAnswer` group both by what is not aggregated: the statement by the terms of
its GROUP BY, the query by the values and the entities its items mean. A line
then has, for an aggregate, the bag of the values it is given (or their set, if
DISTINCT), and the answer is the bag of the lines, or their set. What an aggregate
computes and how lines are sorted are functions of these and of the references
`NamedReadsDenote` covers.

Two properties compare the answers. `AnswersAsWritten`, a part of `RowsAsWritten`,
wants them equal for every query whose names mean one thing, and the run
`transform_rows` shows where they are not. `SameAnswer` says how much of it holds:

- The engines do not keep two relationships of a pattern apart, so the statement may
  have rows that are layings and no matches. `SameAnswer` is of the rows that use no
  relationship twice (`OnceRows`): they are the matches, and the lines made of them
  are the answer. With a single hop, or types that differ, these are all the rows.
- An undirected hop whose ends nothing tells apart (`CountsMatches` is false: no end is
  joined, and not both have names that differ) has one row for a relationship that
  matches both ways round. There the rows show what the matches show, as a set.
- Two rows of the edge table equal in every column are one to GROUP BY and DISTINCT
  and two to the query. With whole relationships made distinct or beside aggregates,
  the answers are compared where no two are equal (`TellsApart`).

The lines that LIMIT and OFFSET let through are compared, for as many rows as the
statement has, with those that SKIP and LIMIT mean.

### Walk

`queue` holds rows of `walk` not yet extended, `result` those that are. SQLite
takes rows from the queue in an order the query does not fix, so `Extend` takes
any of them. The text path `/3/7/` is the sequence of rowids; `NOT LIKE
'%/n/%'` is "n is not in the sequence", which is what the delimiters are for.
An outer row is a row of `walk` that passes `Selected`.

### Parser

Bison generates tables, not code one could map line by line, so the model
builds the automaton from the rules. `LR` has LR(0) states, bison's default
reductions (a state with a single reduction takes it without looking at a
token), and precedences against the shift/reduce conflicts. LALR lookahead sets
are never needed, because no state has two complete rules: `OneReduction`, a
part of `TypeOK`.

| Code | Model |
|---|---|
| the rules of `cypher_parser.y` and their actions | `StatementRules` ... `NameRules`: each right-hand side, the constructor called and the values its pointers get |
| `%left`, `%right`, `%nonassoc` | `Levels` |
| `%destructor` | `Destructed`, `Destruction` |
| `ast_free_*` | `Released`, `Strings`: the pointers each one releases, in order (a `Node` keeps the strings it reaches) |
| `yylex` | `ScanToken`, `ScanEnd`; `StringTokens` own a string |
| `yyparse` | `Shift`, `Reduce`, `Fail`, `Accept` |
| `cypher_parse`'s failure, `main`'s free | `Fail`, `Release` |

Every string the scanner allocates has a number, its place among them, and a
value is the tree of nodes that own them. A text is a statement in which
something may go wrong (`Slip`: a token put in, replaced or dropped, the text
cut) or is written on phrase by phrase (`Write`); it is settled only as it is
read, so that texts which fail early are one behaviour.

### Expression

`Emitted` is `emit_expr`, as tokens: it writes parentheses around OR and AND and
around the operand of NOT and nowhere else. `ReadBySqlite` parses those tokens by SQLite's
precedences, in which equality, IS, IN and LIKE are one level, and inequality
the next tighter one. `Meant` is the tree `emit_expr` stands for. The two agree
exactly when no comparison is nested unsafely, which `SafeNesting` says from the
tree alone: `ReadBackIffSafe` is both the guarantee and its limit.
`GroupsAsSplit` compares the parser with a reference that never heard of bison:
split the text at the outermost OR, then AND, then NOT, then the comparisons.

### Strings

`DecodeChar`, `EndDecode` and `Strip` are `decode_string` and `strip_backticks`,
with the room `malloc` gave them; `EmitChar` is one turn of the loop of
`append_string`, `append_ident` or `append_like_pattern`. `Tokens` says which
texts the rules of the scanner match. SQLite's side is `QuoteEnd` and `Dequoted`
(a quoted token ends at a quote that is not doubled) and `Like` with the escape
character. Strings hold no NUL: the query is an argument of the program.

### SqlBuf, Slurp

`SqlBuf` has one action per step that touches memory: `Call` computes what is
needed, `Double` doubles, `Realloc` moves the bytes or `Oom` ends the program,
`Write` writes text and NUL, and `Detach` and `Free` end the buffer. Memory is a
cell per byte with junk in what was never written. `sqlbuf_appendf` measures
its text with one formatting and writes it with a second; both give the same
length, so it is the same action.

`Slurp` is the loop of both readers: `fread` returns any number of bytes the
buffer has room for, and 0 only at the end of the input or when it was asked for
none. `read_all_stdin` looks whether the NUL has room (`Terminate(TRUE)`),
`names_parse_file` does not.

### Main

`i` and the arguments taken are the locals of the option loop; an option stores
where its value stands, so that a value which looks like an option can be told
from one. `heap` follows each resource of `main`, `run_transpile` and
`names_parse_file` from allocation to release. `OpenMap` and `OpenSchema` start a
read, `ReadInput` is a turn of its loop, `ParseMap` and `ReadSchema` take what it
left, and `Abort` is the `exit` of `names_parse_file` without memory. What other
callees return is free, what they leave allocated is their contract.

## The runs

| Run | Configuration | States | Shows |
|---|---|---|---|
| `names` | `Names.cfg` | 247 thousand | the loop computes the map's meaning, the two spellings of an entry agree, no guess between two entries, a map is its specification |
| `names_ambiguity` | `NamesAmbiguity.cfg` | violation | an ambiguity that repeated entries hide |
| `catalog` | `Catalog.cfg` | 22 thousand | every string has one owner while tables move, and a name finds the first line that makes it a table of the graph |
| `walk` | `Walk.cfg` | 76 thousand | rows are trails, none twice, none lost, the answer exact, the refinement, termination |
| `transform` | `Transform.cfg` | 121 thousand | every engine: ties, references, the order of ON clauses, the answer of the rows that repeat no relationship with its groups, the page, and that a translation ends with a whole statement or a message |
| `transform_names` | `TransformNames.cfg` | violation | a name of the query stands for something else: taken aliases, keywords, case, a table called `walk`, a node labelled with the edge table, two spellings of a label, two output columns |
| `transform_rows` | `TransformRows.cfg` | violation | rows the query does not mean: `(a)-[e]->(a)`, `(a)-[:t*]->(a)`, a bound beyond an int, one relationship for two of the pattern, an undirected hop answered once for both directions |
| `expression` | `Expression.cfg` | 1.7 million | every scanned string is owned once or freed once, wherever an error strikes; the tree keeps the order of the text; what is accepted was read to its end or to a byte above 127, and nothing unexpected was in it; grouping by precedence; SQLite reads back the same tree exactly when nesting is safe |
| `expression_text` | `ExpressionText.cfg` | violation | a text is not taken for what it says: a byte above 127 ends it, a comparison nested to the right is read back as another tree |
| `strings` | `Strings.cfg` | 213 thousand | decoding stays in its block and is exact, the SQL token ends where it should and means the string, a pattern matches its affix only |
| `sqlbuf` | `SqlBuf.cfg` | 16 thousand | no write outside the memory, always terminated, the refinement of `Text`, every call returns |
| `main` | `Main.cfg` | 242 thousand | options read as meant, inputs read whole, everything released once, exit codes, termination |

A violation run stops at its first counterexample. Each of the query sets that
`MCNameQueries` and `MCRowQueries` join (`MCAliasQueries`, `MCLoopQueries`, ...)
breaks the property alone; give one of them to `Queries` to see its case. So does
each of the two sets of texts that `MCTextStatements` joins, given to `Statements`.

Bounds and why they are enough:

- `names`: three spellings and three entries. An answer depends on the last
  entry of either reading and on one that disagrees with it; a third entry
  hides or repeats one of them. For the parser, all texts of up to `MaxChars` = 6
  characters over a letter, `=`, `;`, space and carriage return, which put
  whitespace, separators and signs at both ends of both names, and texts of up
  to three lines in two layouts, one of them indented with DOS line ends.
- `catalog`: all schemas of up to four lines out of six kinds: blank, three
  kinds that stay (an `id` in either case, the edge table) and two that go, with
  names shared between kept and dropped tables. Moving an entry past a hole
  needs three lines, a copy left behind that could be released again four.
- `walk`: all 729 placements of three relationships over three nodes, of which
  two share an id and two a name, with types fixed by edge. Self-loops,
  parallel edges, cycles of length 2 and 3 and the id collision all occur. The
  patterns cover no bounds, an upper bound, a lower bound with both filters,
  and equal bounds with a type.
- `transform`, directed: up to three relationships, in chains, forks, stars and
  closed chains, both directions; anonymous and named nodes; two occurrences of a
  variable with one label, and with none. Ties involve two edges, and the third
  is there because it may be tied to either.
- `transform`, single hops of every kind (undirected, variable length with
  each way to write bounds, directed) between every pair of kinds of ends
  (labelled by table, by recorded name, unlabelled, anonymous), four ways to
  read them; chains and pairs of hops that mix the kinds; and at least one query
  for each refusal. Pages and groups: four patterns, read with one item, with a
  key and aggregates, with an entity as the key and with aggregates only, each
  with and without DISTINCT and with every pair of SKIP in {none, 0, 1, 2} and
  LIMIT in {none, 0, 1}. An int has three bits and `LONG_MAX` is 31, so that bounds
  within, at and beyond the int range all occur.
- `transform`, databases: three. In two of them a table and its recorded name
  differ, an id occurs in two tables, and relationships are parallel, mutual and
  loops; the third has two relationships equal in every column, which only their
  rows tell apart. In each, one relationship can stand for two of a pattern.
- `expression`, statements: three that between them use every rule of the
  grammar and six with a WHERE of their own (the operators not among the phrases,
  and what `emit_expr` refuses), each whole, with `MaxSlips` = 1 slip at any place
  (every token of the alphabet put in or written over), and cut anywhere. The
  parser has no memory of an error, since the first ends it, so a second slip adds
  only longer texts of the same kind. The alphabet has two bytes that no rule
  matches, one above 127. `CharIsSigned` is TRUE, as it is where the build leaves it to
  the usual compilers on x86 (nothing in `configure.ac` or `Makefile.am` makes char
  unsigned); where it is FALSE the byte above 127 is what the other byte is here, an
  unexpected character.
- `expression`, phrases: all texts of up to `MaxPhrases` = 8 phrases in a WHERE: an
  operand, parentheses, NOT, AND, OR, `=`, `<`, STARTS WITH, IN, IS NULL. Eight
  allow two nested comparisons in parentheses, or three levels side by side. A
  text slips or is written on, not both.
- `strings`: all texts of up to `MaxChars` = 4 characters between the quotes,
  over both quotes, the backtick, the backslash, both wildcards, `n` and a
  newline, so every pair of special characters stands next to each other, at
  both ends and inside. Patterns are matched against all subjects of up to three
  characters.
- `sqlbuf`: a first capacity of 2, texts of up to `MaxText` = 7 characters in
  pieces that double the buffer once, twice or not at all, and `SizeMax` = 16, so
  that a need beyond `size_t` would wrap. `BytesAssumption` and `SizeAssumption` say that
  texts stay below half of `size_t`, as objects in memory do.
- `main`: all command lines of up to five arguments over `-h`, `--ast`, both
  names options and a query; `--help` is read as `-h` is. A first capacity of 3
  and inputs of every length up to 26, for the schema and for the map file, which
  passes three doublings and hits each capacity exactly.

A translation, the catalog's life, a statement, a parse, a string, a buffer
without memory and the program end, so no run checks deadlock. `FairSpec` of
`Walk` is weak fairness of `Next`: a statement that is stepped until done, which
is what a caller does with the printed SQL; it is assumed only for `Terminates`.
`Spec` of `Transform` has weak fairness of `Next` for `Answered`: the translation
is one thread that waits for nothing. `Main` has weak fairness of `Next` for the
same reason: a read may block for as long as its input takes, but is answered.
`SqlBuf` is fair only to the steps inside a call (`Double`, `Realloc`, `Write`):
nothing says that a caller ever calls again, but a call that began runs on.

## What is proved

By TLAPS, for every value of the constants:

- `Names`: the type invariant; the inductive invariant of the loop, that both
  cells are the last entries seen of their reading; hence `ResolveCorrect`, and
  `NeverGuesses` for one-to-one maps, and from the two `BothSpellingsAgree`: in
  such a map the last entry that has a spelling is the only one.
  `MapIsTheSpec` is for texts of any length, and both ways: a map that is used has
  the entries of the text and nothing else was in it, and a text is rejected only for a
  piece that is neither blank nor an entry. `RejectsMalformed` rests on `NotBlank`: since
  `trim` takes more off the end than off the front, it needs an argument that what is
  left of a text does not depend on where one trims. `ParseInv` says that every piece
  before `p` is blank or the entry that `at` assigns to it, in order (`Reads`);
  `TrimIs` and `FindIs`, by `FirstExists` and `LastExists`, say that `Trim` and `Find`
  return the intervals the property describes.
- `Catalog`: all four properties, for schemas of any length. `Held` is the set
  of entries that own their strings: while the array is compacted, the kept
  prefix and those not looked at yet, with a gap of dead copies between. The
  invariant says that `live` is the blocks of `Held`, that blocks increase
  along the array (so no two entries own one), that each entry is a line of the
  schema, and that no line of the graph is missing. `NoDoubleFree` alone says
  nothing about the copies; the increase of blocks is also what makes the first
  hit of a lookup the first line.
- `Walk`: `WalkSound`, that every row tells the truth about its path, from
  which types and `TrailInv` follow; `WalkOnce`, that a row extended is not in
  the queue, that every row of more than one edge has a parent that was
  extended, and so no path is produced twice; `WalkReaches`, that each trail is
  a row or has a prefix still queued, by taking the longest prefix that is a
  row; from the three, `WalkAnswerExact` and the refinement
  `WalkImplementsSearch`. `WalkEnds` is as much of `Terminates` as can be proved: of a
  finite edge table there are finitely many trails (`FinitelyManyTrails`), a row is
  extended once, so a natural number, `StepsLeft`, falls at each step, in
  whatever order rows are picked. It needs no fairness and says nothing of whether a step
  is taken.
- `Transform`: the types of the bookkeeping of all three engines, whichever the
  query is sent to. `TInv` says that a directed query keeps `IInv` and the others
  keep `HopInv`. `IInv` adds to the types where the collecting loop stands, that a
  variable has one slot, that ends are slots, and that an anchored slot is an end
  of its anchor, on the recorded side (`AnchorInv`, which is not inductive alone:
  a segment may anchor only because `prev` is a slot that exists). From
  `AnchorInv`, `GeneralSlotsAreNodes`: each tie equates a side with its slot's
  anchor, so any two sides on a slot are equal through it, except for a
  relationship from a node to itself. `JoinsReadLeft` also needs what FROM holds
  at each step: the relationships first, in their order, exactly `k - 1` of them
  before relationship `k` is added (`FromInv`), and that a node joined with an ON
  clause has an anchor, since those without one were settled as lone before
  (`LoneInv`); an anchor is an earlier relationship, so ties and joins read left.
  `HopInv` says that an engine for a single
  hop runs only on one, and has its edge once it is past the checks.
- `Transform`, `NamedReadsDenote`: that every reference of the finished statement
  is to the one item of its FROM it was resolved to, which is where the order of
  the passes matters. The invariant `DInv` has four parts.
  `Found`: the slots are of occurrences of nodes, no two of one, and the
  relationships are those of the pattern, one for one. `EInv`: the binds are of the
  slots and relationships, a slot is marked only when its variable is bound to it
  and its table is in the catalog (`MarkInv`), and every reference written, in whatever clause, is of a marked
  slot or of a relationship, by its alias, of a column its table has (`ReadInv`).
  `ItemsInv`: each item of FROM is of one relationship or of one node that is lone
  or marked, and a node has its item exactly when it is `Due`, which says for every
  phase how far the loops that write FROM have come; since no phase after GROUP BY
  marks a node, at the end all that are marked have one. `AnswerInv`: the columns
  of SELECT have the names of the query's items, and only those are sorted by. That an alias is of
  one item is then a matter of counting: `WellNamed` says that there are as many
  variables of relationships as relationships that have one, so (`NamedOnce`) no two
  share one; a generated alias belongs to one record because the records are at
  most as many as the occurrences (`EdgesCounted`, `SlotsCounted`), for which there
  are aliases enough.
- `Transform`, `SameAnswer`: that the statement answers the query, whichever engine
  wrote it (`StatementAnswers`), under these hypotheses: the names mean one thing
  (`WellNamed`), no relationship is from a variable to itself (`HasSelfLoop`), and, which
  the property does not say, the bounds written in the query fit an int (`BoundsFit`), where
  `atoi` is the identity. Each query that the run `transform` translates to its end
  satisfies the last: there a bound beyond an int is refused. One that is not refused is in
  `transform_rows`. It concludes of the rows that use no relationship twice, of answers
  where `TellsApart`, and of sets only unless `CountsMatches`. The argument has three parts.
  First what the statement is, by the inductive invariant `StatedInv`. `ClausesInv`
  adds to `DInv` what is written of SELECT, WHERE, GROUP BY, DISTINCT and the page: the
  items and the conditions are the query's, one for one, each reading the columns of
  the record its variable is bound to. `ExactInv`, of the phases that emit, says that every item of
  FROM has the ON clause of what it stands for, that the predicates are those of the
  relationships passed so far, no fewer and no more, and that the recursive query has the type and
  the bound of the hop. `AcceptedInv` keeps from the checks at the start what the query
  cannot be, `EndsInv` what the two slots of a single hop are the ends of.
  `NodesInv` is of directed patterns, where a slot is met again and again: its label is one
  of those written at its occurrences seen so far, or none if none has one; past the resolution
  loop it has the table and the name the label means; past the marking loop, one without an anchor has a table.
  Then what a row of the statement says. In each engine the ON and WHERE clauses of a
  finished statement mean, of rows one from each item, that a match of the
  pattern was put together from them: for directed patterns, that all sides on a slot are one
  node (`TiesSay`, by `AnchorOf`: tied to the anchor, hence to each other), that the
  nodes joined are the rows of those ends (`NodesAt`) and that each relationship is
  as written (`PredsSay`); for single hops, `HopSays`, with the two orientations of
  an undirected one and the trails of one of variable length. `RowFor` takes a
  match to its row. It lands in the rows of the statement (`DirectedRowIn`, `HopRowIn`), reaches
  all of them (`DirectedRowFrom`, `HopRowFrom`), uses a relationship twice exactly when
  the match would (`RepeatsNone`), and, where `CountsMatches`, takes no two matches
  to one row (`DirectedRowOnce`, `HopRowOnce`): one for one, by `DirectedOnto` and `HopOnto`.
  Then the answer. A column reads in that row what the item means in the match, so
  the rows kept by WHERE, the values shown and the keys of the groups correspond
  (`RowsAnswer`). `AnswerFrom` carries this through groups, aggregates, DISTINCT and
  the page: lines are functions of the bag of rows, and a one-to-one
  correspondence keeps the bags (`SameCount`). Where the rows are fewer than the
  matches the shown values are still the same set.
- `SqlBuf`: no overrun (`Fits`), a C string between calls (`Terminated`), a
  capacity never twice too large (`NoWaste`), and the refinement of `Text`. The
  inductive invariant adds what a call in progress knows: its piece is pending,
  a capacity of 0 holds no text, the capacity asked for is positive and tight.
  Lemma `NoWrap` shows that no sum or doubling leaves `size_t`, which everything
  else rests on.
- `Main`: everything released once, the exit code, and that whatever is parsed
  was read whole and has room for its NUL. `HeapInv` says of each resource at which
  steps it is live (`While`) and before which it does not exist (`Before`);
  `Balanced` alone does not say what a failing step still holds. `SlurpInv` says
  that `len < cap` at every turn of the loop, without which `ReadsWhole` is not
  inductive: it is why a read of nothing is the end of the input. `ReadAsMeant` follows
  from `ArgsRead`: the loop stands at an argument that is not the value of the one
  before, and what it has stored is what the arguments before it mean. Whether an
  argument is a value depends on the whole run of options before it, and the loop
  knows it only because it steps over values.
- `Strings`, for texts of any length. Decoding stays inside its block
  (`StringFits`): what was written trails what was read, and an escape never stands
  last before the closing quote. It is exact (`DecodedAsMatched`): the loop stands
  where a character or an escape begins and has written what the text before stands
  for (`DecodeInv`). What is written for SQLite is one token (`ReadAsOne`): until the
  closing quote SQLite, reading what is there, is still inside the token and has
  read what was written so far (`EmitInv`, `Grown`), whatever quotes the string has.
  A pattern matches its affix only (`MatchesAffix`): LIKE, over the pattern that was
  written, asks of a value character by character what the string is (`Covers`), and
  of the wildcards nothing. What SQLite and the rules of the scanner compute is defined by recursion on
  the text; the proofs use these definitions as equations, which lemma `Recursion`
  allows, and go by `Induction` along the text.
- `Parser`, for every set of statements, slips and phrases: all four properties, by
  `IInv`, in three steps.
  First the automaton. `Path` says that the stack spells a path of it: each state is
  what `Goto` makes of the one below and the symbol between. So what an item of the top
  state has read of its production lies on top of the stack, and below it the
  production was begun (`Handle`, by going down the stack symbol by symbol; `Below`): a
  reduction finds its right-hand side, `$end` is shifted on a statement only and
  leaves nothing to do but accept (`EndIsLast`), and a statement is reduced only on an
  empty stack (`StatementBelow`).
  Then the values. `FlattenIs` and `Flattened` say what flattening does to order and to
  what is in a list; `ReductionConserves`, one lemma for each kind of semantic action,
  that the strings of the right-hand side are exactly those of the new value and those
  freed, in the order they were in. What is chained (`$1->next = $2`) had nothing
  chained behind it, and `next` is the last pointer released, so the list comes last.
  Then the state. `Values`: from the bottom of the stack to the lookahead strings are
  in the order of the text, and a symbol without `%destructor` carries none, which is
  why a failed parse frees all. `Owned`: freed, stacked, ahead and stored are disjoint
  and together all there are. `Phase`: a query is stored only while there is a statement
  at the bottom, so no second one overwrites it. `Ended`: once the end is scanned
  nothing more is, and `$end` on the stack means that the lookahead is used up.
  `Scanned`, beside `IInv`: what is scanned and not refused is of the grammar, but for the
  lookahead, since only what an item of the automaton expects is shifted. With `Ended` it
  gives `AcceptsUpToHigh`, whether char is signed or not; that it is read to the end
  (`AcceptsWholeText`) is false where char is signed (below).

The proofs about `Parser` rest on facts about the grammar of `cypher_parser.y`, which
has no parameter, so that TLC decides them by evaluation at every start of a run of
`Grammar`: `AutomatonAssumption`, that the states within `Longest` = 16 symbols of the
start are all there are and none completes two productions; `GrammarAssumption`, on
the first production and on what productions begin with; `ActsAssumption`, that each
action uses every value bison would destroy exactly once, in order, in a pointer that
is released. Each rule and each state is looked at; that this is enough for every
text is what is proved.

The other assumptions are `TextAssumption` (texts are made of tokens), `NamesAssumption`, `CatalogAssumption`, `TrailsAssumption`,
`WalkAssumption`, `EmissionAssumption`, `VarlenAssumption`, `SoleHopAssumption`, `BytesAssumption`,
`SizeAssumption`, `SlurpAssumption`, `MainAssumption` and `StringsAssumption`: the constants have their types,
`NULL` is none of the strings, NUL and junk are no characters, the first capacity is positive, and the texts
appended fit half of `size_t`. `EmissionAssumption` also says that a query returns something: a list of
items is never empty, as the grammar has it (`cypher_parser.y:216`, `ast.h:146-147`).
`StringsAssumption` also says that subjects are texts. `DatabaseAssumption` of `Translation` is
what the recorder of provenance guarantees (`README.md:24-30`): tables are finite, ids are unique in a
table of nodes, and an end of a relationship whose name is the one recorded for a
label has its row in the table of that label. Two assumptions of `Translation` are of the
names: `SchemaAssumption`, that the edge table has the ends and the type of a relationship
(`README.md:24-29`) and every other table a column `id`, which is what the catalog
keeps a table for (`catalog.c:128-134`; that it takes `ID` for one is below); and
`AliasAssumption`, that `r`, `_e0`, `_e1`, ... and `_n0`, `_n1`, ... are distinct, of
small letters and no keywords (`transform.c:835-838, 853-855`), and that the
sequence of them, which has an end only in the model, is as long as a query needs. The types of `Catalog`, `Walk`, `SqlBuf` and
`Strings`, `AnchorInv` and `NoWaste` are proved and not run: each is a part of, or
follows from, an inductive invariant. Edges are a set of any size in the proofs about `Walk`,
a finite one in `WalkEnds`.

Only model-checked: `Terminates`, `Answered`, `Returns` and `Exits` (liveness is
out of the prover's reach), and the two properties of `Expression`, whose operators
are recursive over trees (a module with a RECURSIVE operator is out of reach too).

## What the model found

Each of these breaks the property of a violation run. The properties of the passing
runs exclude these cases: by `WellNamed` (aliases that are taken, keywords, or equal but for
case, tables that are hidden or have no id), `HasSelfLoop`, `OnceRows`, `CountsMatches`,
`SafeNesting`, the byte `AcceptsUpToHigh` names, or the inputs of the run. One exclusion
is no finding: `TellsApart`, for relationships that are equal in every column, since no
document of the repository says that such rows are kept apart.

- **Self-loops** (`transform.c:685`). Both sides of `e` in `(a)-[e]->(a)` are
  the slot's anchor: neither is tied.
- **Walks to the same node** (`transform.c:1266`). The two ends of a single hop
  get two slots even when they are one variable. The undirected engine fills
  its slots the same way (`transform.c:1073`).
- **Aliases** (`transform.c:835`). A node called `r` beside an anonymous
  relationship; likewise `_e0`, `_n0`.
- **A table called `walk`** (`transform.c:1393`). The outer query joins it by
  name and gets the common table expression.
- **One relationship for two** (`transform.c:885`). In `(a)-[e]->(b)<-[f]-(c)` nothing
  keeps `e` and `f` from being one row of the edge table. Cypher forbids it, and the
  recursive query of a variable length does see to it (`transform.c:46-48`).
- **Undirected hops** (`transform.c:1148`). `(a)-[r]-(b)` matches each relationship
  both ways round. The disjunction of the orientations is written only for ends with a
  label or a joined table, and one row of the edge table stays one row unless an end is
  joined or the two have different names: `count(*)`, groups and pages are of half the matches.
- **Bounds beyond an int** (`cypher_parser.y:170`). `atoi` keeps the low bits:
  `*4294967297..` is `*1..`.
- **The edge table as a label** (`transform.c:843`). A node may be labelled
  `__provenance__`: the catalog has that table. It is joined by an `id` that it
  does not have; the proof of `NamedReadsDenote` cannot do without excluding it.
- **Case of aliases** (`transform.c:173`). `a` and `A` are two nodes, but one
  alias to SQLite.
- **Keywords as aliases** (`transform.c:119`). Aliases are written without
  quotes, so a variable called `group` makes the SQL a syntax error.
- **Nested comparisons** (`transform.c:571`). `a.x = (a.y = a.z)` is emitted
  without its parentheses and grouped to the left.
- **Bytes above 127** (`cypher_scanner.l:121`). The last rule returns `yytext[0]`, and the
  build leaves char at the compiler's default. Where it is signed, such a byte outside
  quotes is a negative token, which ends the text without an error: what is behind it,
  a LIMIT say, is dropped. The rule's comment says "unexpected char -> parser error".
- **Output columns** (`transform.c:437`). `RETURN a, b.id AS A ORDER BY A` sorts by
  the whole entity `a`: the alias is looked up with its case and SQLite ignores it.
- **Spellings** (`transform.c:656`). Labels are compared before the map is
  applied.
- **Ambiguity** (`names.c:206`). The last entry wins within a reading, so an
  ambiguity can be hidden by a third entry.

Read in the code and not run: `table_has_id` ignores case and
`catalog_table_has_column` does not, so a table with `ID` is kept and its `id`
is not found; `catalog.h:32` says tables are sorted by name and they stay in
the order of the schema; a write to stdout that fails is not noticed
(`main.c:169`): the exit code is 0; a NUL byte in the map file or the schema ends
it silently, since both are read on as C strings; two relationships equal in
every column are one to GROUP BY and DISTINCT when a query returns them whole.

## What is not modelled

- Values are compared, never computed: NULL columns, collations, numeric
  affinity, what an aggregate makes of its values and the order of lines are left
  out, and in the engines WHERE is a conjunction of equalities between a column and a literal (`Expression` has
  all of it, but no rows).
- Databases satisfy what the recorder of provenance guarantees: ids are unique
  in a table and each end of a relationship has its row.
- Memory runs out only in `SqlBuf` and in the loops of `Slurp`; elsewhere the program exits at
  once and holds nothing anyone could see. The stack of the parser has no limit
  (bison's is 10000 symbols, and then an error that frees everything).
- Scanner: how flex matches keywords, numbers and identifiers. `Strings` takes
  the regular expressions of quoted strings as they stand.
- LIKE in SQLite ignores the case of ASCII letters, Cypher's operators do not;
  the strings of `Strings` have one letter only. The dump of `--ast` and all
  wording.
- SQLite's grammar in `Expression` and its string functions in `Strings` are
  external: they are what SQLite documents, as far as the emitted SQL reaches.
- Build files and tests.

## Plan

Done: name map, general engine, recursive query, the two engines for a single
hop, dispatch, grouping and paging, catalog, parser, expressions, quoting, string
buffer, reading of input, command line; proofs of all of these but
the expressions. Left:

1. The two properties of `Expression` stay with TLC: they are about trees that
   recursive operators build. A proof would need those trees as functions over
   positions, as `StringsProofs` has its texts.
2. Liveness stays with TLC. What can be proved of it is a measure that falls, as for
   `Walk`; the loops of the engines would be next.
