-------------------------------- MODULE Main --------------------------------
(* The program: main reads its arguments, then dumps a query's tree or       *)
(* builds the name map, reads the schema, parses, translates and prints.     *)
(* Each callee succeeds or fails as it likes; what it leaves allocated on    *)
(* either outcome is its contract, and main has to release it on every path. *)
(* Running out of memory, which most callees answer with exit, is left out,  *)
(* but for the two loops of Slurp that read an input, which run here.        *)
EXTENDS Integers, Sequences, FiniteSets, Slurp

CONSTANTS
  Args,           \* what an argument may be: the options, and anything else
  MaxArgs         \* bound: arguments on the command line

ASSUME MainAssumption == MaxArgs \in Nat

NONE == 0         \* no argument was taken (NULL)
Help == {"-h", "--help"}
NamesOptions == {"--names", "--names-file"}
Resources == {"stream", "text", "map", "schema", "catalog", "query", "sql", "error"}

VARIABLES
  argv, i,        \* the arguments, and where the loop is
  ast, spec, file, query,   \* ast_mode, and where the other three were taken from
  heap,           \* each resource: "none", "live", "freed", or freed "twice"
  printed,        \* what stdout was given: NONE, "usage", "tree" or "sql"
  told,           \* whether stderr was told of an error
  status,         \* the exit code to be
  pc

options == <<argv, i, ast, spec, file, query>>
vars == <<options, heap, printed, told, status, pc, slurp>>

Init ==
  /\ argv \in UNION {[1 .. n -> Args] : n \in 0 .. MaxArgs} /\ i = 1
  /\ ast = FALSE /\ spec = NONE /\ file = NONE /\ query = NONE
  /\ heap = [r \in Resources |-> "none"]
  /\ printed = "nothing" /\ told = FALSE
  /\ status = 0
  /\ pc = "args"
  /\ Closed

Got(h, r) == [h EXCEPT ![r] = "live"]

\* free, or a release function, of resources that may be NULL.
Freed(h, rs) ==
  [r \in Resources |-> IF r \notin rs \/ h[r] = "none" THEN h[r]
                       ELSE IF h[r] = "live" THEN "freed" ELSE "twice"]

Exit(code) == status' = code /\ pc' = "exit"

\* A usage error: the message and the usage go to stderr.
Misused ==
  /\ told' = TRUE /\ Exit(2)
  /\ UNCHANGED <<options, heap, printed, slurp>>

-----------------------------------------------------------------------------
(* The loop over the arguments *)

Reading == pc = "args" /\ i <= Len(argv)

ShowHelp ==
  /\ Reading /\ argv[i] \in Help
  /\ printed' = "usage" /\ Exit(0)
  /\ UNCHANGED <<options, heap, told, slurp>>

\* A mutant of SetAst: the option is neither taken nor passed.
SetAstStays == Reading /\ argv[i] = "--ast" /\ UNCHANGED vars
SetAst ==
  /\ Reading /\ argv[i] = "--ast"
  /\ ast' = TRUE
  /\ i' = i + 1
  /\ UNCHANGED <<argv, spec, file, query, heap, printed, told, status, pc, slurp>>

\* Mutants of SetNames: the value is looked at again; an option at the end is
\* not noticed.
SetNamesOne ==
  /\ Reading /\ argv[i] \in NamesOptions /\ i < Len(argv)
  /\ IF argv[i] = "--names" THEN spec' = i + 1 /\ UNCHANGED file
                            ELSE file' = i + 1 /\ UNCHANGED spec
  /\ i' = i + 1
  /\ UNCHANGED <<argv, ast, query, heap, printed, told, status, pc, slurp>>
SetNamesUnguarded ==
  /\ Reading /\ argv[i] \in NamesOptions
  /\ IF argv[i] = "--names" THEN spec' = i + 1 /\ UNCHANGED file
                            ELSE file' = i + 1 /\ UNCHANGED spec
  /\ i' = i + 2
  /\ UNCHANGED <<argv, ast, query, heap, printed, told, status, pc, slurp>>
SetNames ==
  /\ Reading /\ argv[i] \in NamesOptions /\ i < Len(argv)
  /\ IF argv[i] = "--names" THEN spec' = i + 1 /\ UNCHANGED file
                            ELSE file' = i + 1 /\ UNCHANGED spec
  /\ i' = i + 2
  /\ UNCHANGED <<argv, ast, query, heap, printed, told, status, pc, slurp>>

NoArgument ==
  /\ Reading /\ argv[i] \in NamesOptions /\ i = Len(argv)
  /\ Misused

IsOption == argv[i] \in Help \cup NamesOptions \cup {"--ast"}

SetQuery ==
  /\ Reading /\ ~IsOption /\ query = NONE
  /\ query' = i
  /\ i' = i + 1
  /\ UNCHANGED <<argv, ast, spec, file, heap, printed, told, status, pc, slurp>>

ExtraArgument == Reading /\ ~IsOption /\ query # NONE /\ Misused

NoQuery == pc = "args" /\ i > Len(argv) /\ query = NONE /\ Misused

Proceed ==
  /\ pc = "args" /\ i > Len(argv) /\ query # NONE
  /\ pc' = IF ast THEN "dump" ELSE "map"
  /\ UNCHANGED <<options, heap, printed, told, status, slurp>>

-----------------------------------------------------------------------------
(* The work *)

\* Something failed: it is reported, what was held is freed, and on it goes.
Failed(held, next) ==
  /\ heap' = Freed(heap, held)
  /\ told' = TRUE
  /\ status' = 1
  /\ pc' = next
  /\ UNCHANGED <<options, printed>>

\* --ast: parse_or_report (whose error message is its own to free), ast_dump.
DumpTree ==
  /\ pc = "dump" /\ UNCHANGED slurp
  /\ \/ /\ heap' = Freed(Got(heap, "query"), {"query"})
        /\ printed' = "tree"
        /\ Exit(0)
        /\ UNCHANGED <<options, told>>
     \/ Failed({}, "exit")

\* build_explicit_map without a file; names_parse frees a map that does not
\* parse.
BuildMap ==
  /\ pc = "map" /\ (file = NONE \/ spec # NONE)
  /\ IF spec # NONE /\ file # NONE THEN Misused
     ELSE \/ /\ heap' = IF spec = NONE THEN heap ELSE Got(heap, "map")
             /\ pc' = "schema"
             /\ UNCHANGED <<options, printed, told, status, slurp>>
          \/ spec # NONE /\ Failed({}, "exit") /\ UNCHANGED slurp

\* names_parse_file: fopen, which may fail, and the buffer, without which the
\* program ends.
OpenMap ==
  /\ pc = "map" /\ file # NONE /\ spec = NONE
  /\ \/ /\ heap' = Got(Got(heap, "stream"), "text")
        /\ Open /\ pc' = "file"
        /\ UNCHANGED <<options, printed, told, status>>
     \/ \E next \in {"exit", "abort"} : Failed({}, next) /\ UNCHANGED slurp

\* A mutant of ParseMap: a stream that failed keeps its buffer.
ParseMapKeeps ==
  /\ pc = "file" /\ io \in {"done", "failed"}
  /\ Close
  /\ \/ /\ io = "done"
        /\ heap' = Freed(Got(heap, "map"), {"stream", "text"})
        /\ pc' = "schema"
        /\ UNCHANGED <<options, printed, told, status>>
     \/ Failed({"stream"} \cup (IF io = "done" THEN {"text"} ELSE {}), "exit")

\* The file is closed; its text is parsed, or refused, and freed.
ParseMap ==
  /\ pc = "file" /\ io \in {"done", "failed"}
  /\ Close
  /\ \/ /\ io = "done"
        /\ heap' = Freed(Got(heap, "map"), {"stream", "text"})
        /\ pc' = "schema"
        /\ UNCHANGED <<options, printed, told, status>>
     \/ Failed({"stream", "text"}, "exit")

\* names_parse_file does not return without memory: exit, as things stand.
Abort ==
  /\ pc = "file" /\ io = "oom"
  /\ Close
  /\ Failed({}, "abort")

OpenSchema ==
  /\ pc = "schema"
  /\ \/ /\ heap' = Got(heap, "schema")
        /\ Open /\ pc' = "stdin"
        /\ UNCHANGED <<options, printed, told, status>>
     \/ Failed({}, "return") /\ UNCHANGED slurp

\* read_all_stdin returns the schema, or NULL.
ReadSchema ==
  /\ pc = "stdin" /\ io \in {"done", "failed", "oom"}
  /\ Close
  /\ \/ /\ io = "done"
        /\ pc' = "catalog"
        /\ UNCHANGED <<options, heap, printed, told, status>>
     \/ io # "done" /\ Failed({"schema"}, "return")

\* One turn of the loop that reads.
ReadInput ==
  /\ pc \in {"file", "stdin"}
  /\ Slurp(pc = "stdin")
  /\ UNCHANGED <<options, heap, printed, told, status, pc>>

\* A mutant of MakeCatalog: a schema that is refused is not freed.
MakeCatalogKeeps ==
  /\ pc = "catalog" /\ UNCHANGED slurp
  /\ \/ /\ heap' = Freed(Got(heap, "catalog"), {"schema"})
        /\ pc' = "parse"
        /\ UNCHANGED <<options, printed, told, status>>
     \/ Failed({}, "return")

\* The schema's text is freed whether a catalog was made of it or not.
MakeCatalog ==
  /\ pc = "catalog" /\ UNCHANGED slurp
  /\ \/ /\ heap' = Freed(Got(heap, "catalog"), {"schema"})
        /\ pc' = "parse"
        /\ UNCHANGED <<options, printed, told, status>>
     \/ Failed({"schema"}, "return")

ParseQuery ==
  /\ pc = "parse" /\ UNCHANGED slurp
  /\ \/ /\ heap' = Got(heap, "query")
        /\ pc' = "translate"
        /\ UNCHANGED <<options, printed, told, status>>
     \/ Failed({"catalog"}, "return")

\* A mutant of Translate: a translation that fails still exits with 0.
TranslateQuiet ==
  /\ pc = "translate" /\ UNCHANGED slurp
  /\ \/ /\ heap' = Freed(Got(heap, "sql"), {"sql", "error", "query", "catalog"})
        /\ printed' = "sql"
        /\ UNCHANGED <<options, told>>
     \/ /\ heap' = Freed(Got(heap, "error"), {"sql", "error", "query", "catalog"})
        /\ told' = TRUE
        /\ UNCHANGED <<options, printed>>
  /\ pc' = "return"
  /\ UNCHANGED status

\* transform_query gives the SQL or an error, never both.
Translate ==
  /\ pc = "translate" /\ UNCHANGED slurp
  /\ \/ /\ heap' = Freed(Got(heap, "sql"), {"sql", "error", "query", "catalog"})
        /\ printed' = "sql"
        /\ pc' = "return"
        /\ UNCHANGED <<options, told, status>>
     \/ /\ heap' = Freed(Got(heap, "error"), {"sql", "error", "query", "catalog"})
        /\ told' = TRUE
        /\ status' = 1
        /\ pc' = "return"
        /\ UNCHANGED <<options, printed>>

\* Back in main: names_free, which takes NULL.
Return ==
  /\ pc = "return" /\ UNCHANGED slurp
  /\ heap' = Freed(heap, {"map"})
  /\ pc' = "exit"
  /\ UNCHANGED <<options, printed, told, status>>

Next ==
  \/ ShowHelp \/ SetAst \/ SetNames \/ NoArgument \/ SetQuery \/ ExtraArgument
  \/ NoQuery \/ Proceed \/ DumpTree \/ BuildMap \/ OpenMap \/ ParseMap \/ Abort
  \/ OpenSchema \/ ReadSchema \/ ReadInput \/ MakeCatalog \/ ParseQuery
  \/ Translate \/ Return

Spec == Init /\ [][Next]_vars /\ WF_vars(Next)
-----------------------------------------------------------------------------
(* How a command line is meant to be read *)

\* Argument j is the value of the option before it: of the names options that
\* end just before j, every second one is itself a value.
IsValue(j) ==
  Cardinality({k \in 1 .. j - 1 : \A l \in k .. j - 1 : argv[l] \in NamesOptions})
    % 2 = 1

\* The arguments before n that are options or the query, not values.
Given(n, words) == {j \in 1 .. n - 1 : argv[j] \in words /\ ~IsValue(j)}
Queries(n) ==
  Given(n, Args \ (Help \cup NamesOptions \cup {"--ast"}))
Values(n, option) ==
  {j \in 2 .. n - 1 : argv[j - 1] = option /\ IsValue(j)}

IsFirst(j, S) == IF S = {} THEN j = NONE ELSE j \in S /\ \A k \in S : j <= k
IsLast(j, S) == IF S = {} THEN j = NONE ELSE j \in S /\ \A k \in S : k <= j

Dangling(n) == Given(n, NamesOptions) \cap {n - 1} # {}

TypeOK ==
  /\ i \in 1 .. Len(argv) + 1
  /\ ast \in BOOLEAN
  /\ {spec, file, query} \subseteq 0 .. Len(argv)
  /\ heap \in [Resources -> {"none", "live", "freed", "twice"}]
  /\ printed \in {"nothing", "usage", "tree", "sql"}
  /\ told \in BOOLEAN /\ status \in 0 .. 2
  /\ pc \in {"args", "dump", "map", "file", "schema", "stdin", "catalog", "parse",
             "translate", "return", "exit", "abort"}
  /\ SlurpTypeOK

\* The options are read as the usage text means them, however values that look
\* like options are strewn in: an option's value is never an option or the
\* query, the last --names and --names-file count, and the work starts only
\* with one query and no option left without its value (main's loop).
ReadAsMeant ==
  /\ ast = (Given(i, {"--ast"}) # {})
  /\ IsFirst(query, Queries(i))
  /\ IsLast(spec, Values(i, "--names")) /\ IsLast(file, Values(i, "--names-file"))
  /\ pc \notin {"args", "exit"} =>
       /\ i = Len(argv) + 1 /\ Cardinality(Queries(i)) = 1
       /\ ~Dangling(i) /\ Given(i, Help) = {}
       /\ (pc = "dump") = ast

\* Whatever fails, everything allocated is released once by the time main
\* returns (main, run_transpile, build_explicit_map, names_parse_file), and a
\* buffer being read is never let go of.
Balanced ==
  \A r \in Resources :
    /\ heap[r] # "twice" /\ (pc = "exit" => heap[r] # "live")
    /\ io # "closed" => heap[IF pc = "file" THEN "text" ELSE "schema"] = "live"

\* A caller can trust the exit code: 0 with what was asked on stdout and no
\* error, another with an error and nothing on stdout; 2 is told before
\* anything is read or parsed.
ExitCodeTells ==
  /\ pc \in {"exit", "abort"} =>
       (status = 0 <=> printed # "nothing") /\ (status # 0 <=> told)
  /\ status = 2 => \A r \in Resources : heap[r] = "none"

\* Every command line is answered, whatever the sizes of the reads.
Exits == <>(pc \in {"exit", "abort"})
=============================================================================
