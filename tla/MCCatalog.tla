----------------------------- MODULE MCCatalog ------------------------------
(* Schemas of up to four lines: repeated names, tables without a key, blank *)
(* lines and empty columns.                                                 *)
EXTENDS Catalog

MCNames == {"jobs", "kv", "__provenance__"}
MCColumns == {"id", "ID", "x"}
MCNoColumn == ""
MCIdColumns == {"id", "ID"}
MCEdgeTable == "__provenance__"

Line(name, cols) == [name |-> name, cols |-> cols]
MCLines ==
  {NULL, Line("jobs", <<>>), Line("jobs", <<"x", "", "ID">>),
   Line("kv", <<"x">>), Line("kv", <<"", "id">>), Line("__provenance__", <<"x">>)}
MCSchemas == UNION {[1 .. n -> MCLines] : n \in 0 .. 4}
=============================================================================
