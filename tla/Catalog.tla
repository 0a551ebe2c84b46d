------------------------------ MODULE Catalog -------------------------------
(***************************************************************************)
(* catalog_from_schema and catalog_free: the lines of a schema become an   *)
(* array of tables, the tables outside of the graph are dropped while the  *)
(* others are compacted to its front in place, and all is released at the  *)
(* end.                                                                    *)
(*                                                                         *)
(* The strings of a table are one block of memory, named after the line    *)
(* they were copied from.  "live" holds the blocks not yet released, and   *)
(* "fault" is set when one is released that is not live.  Memory does not  *)
(* run out.                                                                *)
(***************************************************************************)
EXTENDS Naturals, Sequences

CONSTANTS
  NULL,
  Names,      \* table names
  Columns,    \* column names
  NoColumn,   \* what two commas in a row enclose
  IdColumns,  \* the spellings of "id" in upper and lower case
  EdgeTable,  \* KG_EDGE_TABLE
  Schemas     \* the schemas a run starts from

\* A line is blank, or names a table and its columns.
Lines == [name : Names, cols : Seq(Columns \cup {NoColumn})] \cup {NULL}

ASSUME CatalogAssumption ==
  /\ NULL \notin [name : Names, cols : Seq(Columns \cup {NoColumn})]
  /\ IdColumns \subseteq Columns /\ NoColumn \notin Columns
  /\ Schemas \subseteq Seq(Lines)

VARIABLES
  schema,   \* the text, split into lines
  pc,       \* "read", "filter", "loaded", "free" or "freed"
  i,        \* the line or table looked at
  nkept,    \* the tables kept so far
  tables,   \* the array
  ntables,  \* how many of its entries count
  live,     \* the blocks allocated and not released
  fault     \* a block was released twice

vars == <<schema, pc, i, nkept, tables, ntables, live, fault>>

Init ==
  /\ schema \in Schemas
  /\ pc = "read" /\ i = 1 /\ nkept = 0
  /\ tables = <<>> /\ ntables = 0 /\ live = {} /\ fault = FALSE

ColumnsOf(line) == {line.cols[j] : j \in DOMAIN line.cols}

\* catalog_add_table and table_add_column: empty columns are skipped.
Table(n, line) ==
  [block |-> n, name |-> line.name, columns |-> ColumnsOf(line) \ {NoColumn}]

SkipLine ==
  /\ pc = "read" /\ i <= Len(schema) /\ schema[i] = NULL
  /\ i' = i + 1
  /\ UNCHANGED <<schema, pc, nkept, tables, ntables, live, fault>>

AddTable ==
  /\ pc = "read" /\ i <= Len(schema) /\ schema[i] # NULL
  /\ tables' = Append(tables, Table(i, schema[i]))
  /\ ntables' = ntables + 1
  /\ live' = live \cup {i}
  /\ i' = i + 1
  /\ UNCHANGED <<schema, pc, nkept, fault>>

EndRead ==
  /\ pc = "read" /\ i > Len(schema)
  /\ pc' = "filter" /\ i' = 1
  /\ UNCHANGED <<schema, nkept, tables, ntables, live, fault>>

HasId(t) == t.columns \cap IdColumns # {}
IsGraphTable(t) == HasId(t) \/ t.name = EdgeTable

\* free_table_contents.
Release(t) ==
  /\ live' = live \ {t.block}
  /\ fault' = (fault \/ t.block \notin live)

\* A mutant of Keep: the table stays where it is.
KeepStill ==
  /\ pc = "filter" /\ i <= ntables /\ IsGraphTable(tables[i])
  /\ nkept' = nkept + 1 /\ i' = i + 1
  /\ UNCHANGED <<schema, pc, tables, ntables, live, fault>>

\* The entry moves to the front; its old place keeps a copy.
Keep ==
  /\ pc = "filter" /\ i <= ntables /\ IsGraphTable(tables[i])
  /\ tables' = [tables EXCEPT ![nkept + 1] = tables[i]]
  /\ nkept' = nkept + 1 /\ i' = i + 1
  /\ UNCHANGED <<schema, pc, ntables, live, fault>>

\* A mutant of Drop: the strings are not released.
DropLeak ==
  /\ pc = "filter" /\ i <= ntables /\ ~IsGraphTable(tables[i])
  /\ i' = i + 1
  /\ UNCHANGED <<schema, pc, nkept, tables, ntables, live, fault>>

Drop ==
  /\ pc = "filter" /\ i <= ntables /\ ~IsGraphTable(tables[i])
  /\ Release(tables[i])
  /\ i' = i + 1
  /\ UNCHANGED <<schema, pc, nkept, tables, ntables>>

\* A mutant of EndFilter: the copies left behind still count.
EndFilterAll ==
  /\ pc = "filter" /\ i > ntables
  /\ pc' = "loaded"
  /\ UNCHANGED <<schema, i, nkept, tables, ntables, live, fault>>

EndFilter ==
  /\ pc = "filter" /\ i > ntables
  /\ pc' = "loaded" /\ ntables' = nkept
  /\ UNCHANGED <<schema, i, nkept, tables, live, fault>>

\* catalog_free, once the statement is printed.
StartFree ==
  /\ pc = "loaded"
  /\ pc' = "free" /\ i' = 1
  /\ UNCHANGED <<schema, nkept, tables, ntables, live, fault>>

FreeTable ==
  /\ pc = "free" /\ i <= ntables
  /\ Release(tables[i])
  /\ i' = i + 1
  /\ UNCHANGED <<schema, pc, nkept, tables, ntables>>

EndFree ==
  /\ pc = "free" /\ i > ntables
  /\ pc' = "freed"
  /\ UNCHANGED <<schema, i, nkept, tables, ntables, live, fault>>

Next ==
  \/ SkipLine \/ AddTable \/ EndRead
  \/ Keep \/ Drop \/ EndFilter
  \/ StartFree \/ FreeTable \/ EndFree

Spec == Init /\ [][Next]_vars

\* catalog_find_table returns the first entry of the name, 0 for none.
Find(name) ==
  LET hits == {j \in 1 .. ntables : tables[j].name = name} IN
  IF hits = {} THEN 0 ELSE CHOOSE j \in hits : \A m \in hits : j <= m

-----------------------------------------------------------------------------
(* Properties *)

Tables == [block : Nat \ {0}, name : Names, columns : SUBSET Columns]

\* The array, its counters and the blocks keep their types.
TypeOK ==
  /\ schema \in Seq(Lines)
  /\ pc \in {"read", "filter", "loaded", "free", "freed"}
  /\ i \in Nat \ {0} /\ nkept \in Nat
  /\ tables \in Seq(Tables) /\ ntables \in 0 .. Len(tables)
  /\ live \subseteq Nat /\ fault \in BOOLEAN

\* catalog.c:128-141: while tables are moved over one another and the copies
\* stay behind, no string is released twice, and catalog_free later releases
\* each exactly once.
NoDoubleFree == ~fault

\* catalog.h:16, "The catalog owns all of its memory; catalog_free releases
\* it": a loaded catalog holds exactly the strings of its tables, and none is
\* left when it has been released.
NothingLeaks ==
  /\ pc = "loaded" => live = {tables[j].block : j \in 1 .. ntables}
  /\ pc = "freed" => live = {}

\* catalog.h:44-47, "a table is kept if it has a column named "id" or is the
\* edge table": a name finds the first line of the schema that gives it to a
\* table of the graph, also where earlier lines give it to tables that are
\* dropped, and nothing else.
FindsFirstGraphLine ==
  pc = "loaded" =>
    \A name \in Names :
      LET lines == {n \in DOMAIN schema :
                      /\ schema[n] # NULL /\ schema[n].name = name
                      /\ IsGraphTable(Table(n, schema[n]))}
      IN IF lines = {} THEN Find(name) = 0
         ELSE \E n \in lines :
                /\ \A m \in lines : n <= m
                /\ Find(name) # 0 /\ tables[Find(name)] = Table(n, schema[n])
=============================================================================
