----------------------------- MODULE MainProofs -----------------------------
(* What main releases, what its exit code tells and how its options are      *)
(* read, for every command line over every set of arguments, whatever is     *)
(* read and whatever fails.                                                  *)
EXTENDS Main, FiniteSetTheorems, TLAPS

\* The inductive invariant of the work: a resource is live only between its
\* allocation and its release, and untouched before; the rest is freed once.
Before(r) ==
  {"args", "dump", "map"}
    \cup (IF r \in {"stream", "text"} THEN {} ELSE {"file"})
    \cup (IF r \in {"stream", "text", "map"} THEN {} ELSE {"schema"})
    \cup (IF r \in {"stream", "text", "map", "schema"} THEN {} ELSE {"stdin", "catalog"})
    \cup (IF r \in {"query", "sql", "error"} THEN {"parse"} ELSE {})
    \cup (IF r \in {"sql", "error"} THEN {"translate"} ELSE {})

While(r) ==
  IF r = "map" THEN {"schema", "stdin", "catalog", "parse", "translate", "return"}
  ELSE IF r \in {"stream", "text"} THEN {"file", "abort"}
  ELSE IF r = "schema" THEN {"stdin", "catalog"}
  ELSE IF r = "catalog" THEN {"parse", "translate"}
  ELSE IF r = "query" THEN {"translate"} ELSE {}

HeapInv ==
  /\ heap \in [Resources -> {"none", "live", "freed"}]
  /\ \A r \in Resources : /\ heap[r] = "live" => pc \in While(r)
                          /\ heap[r] = "freed" => pc \notin While(r)
                          /\ pc \in Before(r) => heap[r] = "none"
  /\ pc = "file" => heap["text"] = "live"
  /\ pc = "stdin" => heap["schema"] = "live"

\* What is being read has a buffer with room, until the loop is over, and the
\* loop ends with nothing left.
SlurpInv ==
  /\ SlurpTypeOK
  /\ io # "oom" => len < cap
  /\ io \in {"ended", "done"} => left = 0
  /\ io # "closed" => pc \in {"file", "stdin"}

\* Nothing is printed or told before the end.
EndInv ==
  /\ pc \notin {"return", "exit", "abort"} => printed = "nothing" /\ ~told /\ status = 0
  /\ pc \in {"return", "exit", "abort"} =>
       (status = 0 <=> printed # "nothing") /\ (status # 0 <=> told)
  /\ status = 2 => pc = "exit" /\ \A r \in Resources : heap[r] = "none"

IInv == argv \in Seq(Args) /\ TypeOK /\ HeapInv /\ EndInv /\ SlurpInv

\* IInv holds when main is entered.
LEMMA InitIInv == Init => IInv
<1> SUFFICES ASSUME Init PROVE IInv  OBVIOUS
<1>1. PICK n \in 0 .. MaxArgs : argv \in [1 .. n -> Args]
  BY DEF Init
<1>2. argv \in Seq(Args)
  BY <1>1, MainAssumption
<1>3. TypeOK
  <2>1. Len(argv) \in Nat
    BY <1>2
  <2>2. heap \in [Resources -> {"none", "live", "freed", "twice"}]
    BY DEF Init
  <2>3. ast \in BOOLEAN /\ told \in BOOLEAN
    BY Zenon DEF Init
  <2>4. i \in 1 .. Len(argv) + 1 /\ {spec, file, query} \subseteq 0 .. Len(argv)
    BY <2>1 DEF Init, NONE
  <2>5. status \in 0 .. 2
    BY DEF Init
  <2>6. SlurpTypeOK
    BY SlurpAssumption DEF Init, Closed, SlurpTypeOK
  <2> QED  BY <2>2, <2>3, <2>4, <2>5, <2>6 DEF Init, TypeOK
<1>4. HeapInv
  BY DEF Init, HeapInv, Before, While
<1>5. EndInv
  BY DEF Init, EndInv
<1>6. SlurpInv
  BY SlurpAssumption DEF Init, Closed, SlurpInv, SlurpTypeOK
<1> QED  BY <1>2, <1>3, <1>4, <1>5, <1>6 DEF IInv

\* The loop over the arguments keeps its types and allocates nothing.
LEMMA ArgsIInv ==
  ASSUME IInv,
         \/ ShowHelp \/ SetAst \/ SetNames \/ NoArgument \/ SetQuery
         \/ ExtraArgument \/ NoQuery \/ Proceed
  PROVE  IInv'
<1>1. argv' = argv /\ heap' = heap /\ pc = "args" /\ UNCHANGED slurp
  BY DEF ShowHelp, SetAst, SetNames, NoArgument, SetQuery, ExtraArgument, NoQuery,
         Proceed, Reading, Misused, options
<1>2. TypeOK'
  <2> USE DEF ShowHelp, SetAst, SetNames, NoArgument, SetQuery, ExtraArgument,
              NoQuery, Proceed, Misused, Exit
  <2>1. ast' \in BOOLEAN /\ told' \in BOOLEAN
    BY DEF IInv, TypeOK, options
  <2>2. Len(argv) \in Nat /\ i \in Nat
    BY DEF IInv, TypeOK
  <2>3. i' \in 1 .. Len(argv) + 1
    BY <2>2 DEF IInv, TypeOK, Reading, options
  <2>4. {spec', file', query'} \subseteq 0 .. Len(argv)
    BY <2>2 DEF IInv, TypeOK, Reading, options
  <2>5. printed' \in {"nothing", "usage", "tree", "sql"} /\ status' \in 0 .. 2
    BY DEF IInv, TypeOK, options
  <2>6. pc' \in {"args", "dump", "map", "exit"}
    BY <1>1
  <2> QED  BY <1>1, <2>1, <2>3, <2>4, <2>5, <2>6
           DEF IInv, TypeOK, SlurpTypeOK, slurp
<1>3. pc' \in {"args", "dump", "map", "exit"}
  BY <1>1 DEF ShowHelp, SetAst, SetNames, NoArgument, SetQuery, ExtraArgument,
     NoQuery, Proceed, Reading, Misused, Exit
<1>4. HeapInv'
  BY <1>1, <1>3 DEF IInv, HeapInv, Before, While
<1>5. EndInv'
  BY <1>1 DEF IInv, EndInv, HeapInv, Before, ShowHelp, SetAst, SetNames, NoArgument,
     SetQuery, ExtraArgument, NoQuery, Proceed, Reading, Misused, Exit
<1>6. SlurpInv'
  BY <1>1 DEF IInv, SlurpInv, SlurpTypeOK, slurp
<1> QED  BY <1>1, <1>2, <1>4, <1>5, <1>6 DEF IInv

\* A turn of the loop that reads keeps room for the NUL, and ends only with
\* nothing left.
LEMMA FreadKeeps ==
  ASSUME SlurpInv, NEW n \in 1 .. MaxInput, Fread(n), pc' = pc
  PROVE  SlurpInv' /\ io' # "closed"
<1> USE SlurpAssumption DEF SlurpInv, SlurpTypeOK
<1>1. /\ io = "read" /\ n <= left /\ len + n <= cap
      /\ left' = left - n /\ len' = len + n
  BY Zenon DEF Fread
<1>2. /\ left' \in 0 .. MaxInput /\ len' \in 0 .. cap
      /\ n \in Nat \ {0} /\ cap \in Nat \ {0}
  BY <1>1
<1>3. CASE len' < cap /\ UNCHANGED <<cap, io>>
  BY <1>1, <1>2, <1>3
<1>4. CASE len' = cap /\ cap' = 2 * cap /\ UNCHANGED io
  <2>1. cap' \in Nat \ {0} /\ len' < cap' /\ len' \in 0 .. cap'
    BY <1>1, <1>2, <1>4
  <2> QED  BY <1>1, <1>2, <1>4, <2>1
<1>5. CASE len' = cap /\ io' = "oom" /\ UNCHANGED cap
  BY <1>1, <1>2, <1>5
<1> QED  BY <1>3, <1>4, <1>5, Zenon DEF Fread

\* A step of slurp keeps what is said of its buffer,
LEMMA SlurpKeeps ==
  ASSUME SlurpInv, NEW looks \in BOOLEAN, Slurp(looks), pc' = pc
  PROVE  SlurpInv' /\ io' # "closed"
<1> USE SlurpAssumption DEF SlurpInv, SlurpTypeOK
<1>1. CASE FreadNothing
  BY <1>1 DEF FreadNothing
<1>2. CASE FreadError
  BY <1>2 DEF FreadError
<1>3. CASE Terminate(looks)
  <2>1. io = "ended"
    BY <1>3, Zenon DEF Terminate
  <2>2. len # cap
    BY <2>1
  <2>3. io' = "done" /\ UNCHANGED <<cap, len, left>>
    BY <1>3, <2>2, Zenon DEF Terminate
  <2> QED  BY <2>1, <2>2, <2>3
<1> QED  BY <1>1, <1>2, <1>3, FreadKeeps DEF Slurp

\* as do the opening of a file,
LEMMA OpenKeeps == ASSUME Open, pc' \in {"file", "stdin"} PROVE SlurpInv'
  BY SlurpAssumption DEF Open, SlurpInv, SlurpTypeOK

\* its closing,
LEMMA CloseKeeps == ASSUME Close PROVE SlurpInv'
  BY SlurpAssumption DEF Close, SlurpInv, SlurpTypeOK

\* and every step taken when none is under way.
LEMMA ClosedKeeps == ASSUME SlurpInv, pc \notin {"file", "stdin"}, UNCHANGED slurp
                     PROVE  SlurpInv'
  BY DEF slurp, SlurpInv, SlurpTypeOK

\* Reading the map or the query, whatever comes of it, keeps IInv.
LEMMA InputIInv == ASSUME IInv, ReadInput PROVE IInv'
<1>1. pc \in {"file", "stdin"} /\ (pc = "stdin") \in BOOLEAN /\ Slurp(pc = "stdin")
      /\ pc' = pc /\ argv' = argv /\ heap' = heap
  BY DEF ReadInput, options
<1>2. SlurpInv'
  BY <1>1, SlurpKeeps DEF IInv
<1>3. HeapInv'
  BY <1>1 DEF IInv, HeapInv, Before, While
<1>4. TypeOK' /\ EndInv'
  BY <1>1, <1>2 DEF IInv, TypeOK, EndInv, SlurpInv, ReadInput, options
<1> QED  BY <1>1, <1>2, <1>3, <1>4 DEF IInv

\* Every step of the work keeps count of what it holds.
LEMMA WorkIInv ==
  ASSUME IInv,
         \/ DumpTree \/ BuildMap \/ OpenMap \/ ParseMap \/ Abort \/ OpenSchema
         \/ ReadSchema \/ MakeCatalog \/ ParseQuery \/ Translate \/ Return
  PROVE  IInv'
<1> USE DEF IInv, Got, Freed, Failed, Exit, Misused
<1>1. argv' = argv /\ i' = i /\ ast' = ast /\ spec' = spec /\ file' = file /\ query' = query
  BY DEF options, DumpTree, BuildMap, OpenMap, ParseMap, Abort, OpenSchema,
     ReadSchema, MakeCatalog, ParseQuery, Translate, Return
<1>2. CASE DumpTree
  <2>1. HeapInv'
    BY <1>2 DEF HeapInv, Before, While, Resources, DumpTree, options
  <2>2. SlurpInv'
    BY <1>2, ClosedKeeps DEF DumpTree
  <2>3. TypeOK'
    <3>1. told' \in BOOLEAN
      BY <1>2 DEF TypeOK, DumpTree
    <3>2. /\ printed' \in {"nothing", "usage", "tree", "sql"} /\ status' \in 0 .. 2
          /\ pc' \in {"file", "schema", "stdin", "catalog", "parse", "translate",
                       "return", "exit", "abort"}
      BY <1>2 DEF TypeOK, DumpTree
    <3> QED  BY <1>1, <2>1, <2>2, <3>1, <3>2 DEF TypeOK, HeapInv, SlurpInv
  <2>4. EndInv'
    BY <1>2 DEF TypeOK, EndInv, HeapInv, Before, DumpTree
  <2> QED  BY <1>1, <2>1, <2>2, <2>3, <2>4
<1>3. CASE BuildMap
  <2>1. HeapInv'
    BY <1>3 DEF HeapInv, Before, While, Resources, BuildMap, options
  <2>2. SlurpInv'
    BY <1>3, ClosedKeeps DEF BuildMap
  <2>3. TypeOK'
    <3>1. told' \in BOOLEAN
      BY <1>3 DEF TypeOK, BuildMap
    <3>2. /\ printed' \in {"nothing", "usage", "tree", "sql"} /\ status' \in 0 .. 2
          /\ pc' \in {"file", "schema", "stdin", "catalog", "parse", "translate",
                       "return", "exit", "abort"}
      BY <1>3 DEF TypeOK, BuildMap
    <3> QED  BY <1>1, <2>1, <2>2, <3>1, <3>2 DEF TypeOK, HeapInv, SlurpInv
  <2>4. EndInv'
    BY <1>3 DEF TypeOK, EndInv, HeapInv, Before, BuildMap
  <2> QED  BY <1>1, <2>1, <2>2, <2>3, <2>4
<1>4. CASE OpenMap
  <2>1. HeapInv'
    BY <1>4 DEF HeapInv, Before, While, Resources, OpenMap, options
  <2>2. SlurpInv'
    <3>1. CASE Open /\ pc' = "file"
      BY <3>1, OpenKeeps
    <3>2. CASE pc = "map" /\ UNCHANGED slurp
      BY <3>2, ClosedKeeps
    <3> QED  BY <1>4, <3>1, <3>2 DEF OpenMap
  <2>3. TypeOK'
    <3>1. told' \in BOOLEAN
      BY <1>4 DEF TypeOK, OpenMap
    <3>2. /\ printed' \in {"nothing", "usage", "tree", "sql"} /\ status' \in 0 .. 2
          /\ pc' \in {"file", "schema", "stdin", "catalog", "parse", "translate",
                       "return", "exit", "abort"}
      BY <1>4 DEF TypeOK, OpenMap
    <3> QED  BY <1>1, <2>1, <2>2, <3>1, <3>2 DEF TypeOK, HeapInv, SlurpInv
  <2>4. EndInv'
    BY <1>4 DEF TypeOK, EndInv, HeapInv, Before, OpenMap
  <2> QED  BY <1>1, <2>1, <2>2, <2>3, <2>4
<1>5. CASE ParseMap
  <2>1. HeapInv'
    BY <1>5 DEF HeapInv, Before, While, Resources, ParseMap, options
  <2>2. SlurpInv'
    BY <1>5, CloseKeeps DEF ParseMap
  <2>3. TypeOK'
    <3>1. told' \in BOOLEAN
      BY <1>5 DEF TypeOK, ParseMap
    <3>2. /\ printed' \in {"nothing", "usage", "tree", "sql"} /\ status' \in 0 .. 2
          /\ pc' \in {"file", "schema", "stdin", "catalog", "parse", "translate",
                       "return", "exit", "abort"}
      BY <1>5 DEF TypeOK, ParseMap
    <3> QED  BY <1>1, <2>1, <2>2, <3>1, <3>2 DEF TypeOK, HeapInv, SlurpInv
  <2>4. EndInv'
    BY <1>5 DEF TypeOK, EndInv, HeapInv, Before, ParseMap
  <2> QED  BY <1>1, <2>1, <2>2, <2>3, <2>4
<1>6. CASE Abort
  <2>1. HeapInv'
    BY <1>6 DEF HeapInv, Before, While, Resources, Abort, options
  <2>2. SlurpInv'
    BY <1>6, CloseKeeps DEF Abort
  <2>3. TypeOK'
    <3>1. told' \in BOOLEAN
      BY <1>6 DEF TypeOK, Abort
    <3>2. /\ printed' \in {"nothing", "usage", "tree", "sql"} /\ status' \in 0 .. 2
          /\ pc' \in {"file", "schema", "stdin", "catalog", "parse", "translate",
                       "return", "exit", "abort"}
      BY <1>6 DEF TypeOK, Abort
    <3> QED  BY <1>1, <2>1, <2>2, <3>1, <3>2 DEF TypeOK, HeapInv, SlurpInv
  <2>4. EndInv'
    BY <1>6 DEF TypeOK, EndInv, HeapInv, Before, Abort
  <2> QED  BY <1>1, <2>1, <2>2, <2>3, <2>4
<1>7. CASE OpenSchema
  <2>1. HeapInv'
    BY <1>7 DEF HeapInv, Before, While, Resources, OpenSchema, options
  <2>2. SlurpInv'
    <3>1. CASE Open /\ pc' = "stdin"
      BY <3>1, OpenKeeps
    <3>2. CASE pc = "schema" /\ UNCHANGED slurp
      BY <3>2, ClosedKeeps
    <3> QED  BY <1>7, <3>1, <3>2 DEF OpenSchema
  <2>3. TypeOK'
    <3>1. told' \in BOOLEAN
      BY <1>7 DEF TypeOK, OpenSchema
    <3>2. /\ printed' \in {"nothing", "usage", "tree", "sql"} /\ status' \in 0 .. 2
          /\ pc' \in {"file", "schema", "stdin", "catalog", "parse", "translate",
                       "return", "exit", "abort"}
      BY <1>7 DEF TypeOK, OpenSchema
    <3> QED  BY <1>1, <2>1, <2>2, <3>1, <3>2 DEF TypeOK, HeapInv, SlurpInv
  <2>4. EndInv'
    BY <1>7 DEF TypeOK, EndInv, HeapInv, Before, OpenSchema
  <2> QED  BY <1>1, <2>1, <2>2, <2>3, <2>4
<1>8. CASE ReadSchema
  <2>1. HeapInv'
    BY <1>8 DEF HeapInv, Before, While, Resources, ReadSchema, options
  <2>2. SlurpInv'
    BY <1>8, CloseKeeps DEF ReadSchema
  <2>3. TypeOK'
    <3>1. told' \in BOOLEAN
      BY <1>8 DEF TypeOK, ReadSchema
    <3>2. /\ printed' \in {"nothing", "usage", "tree", "sql"} /\ status' \in 0 .. 2
          /\ pc' \in {"file", "schema", "stdin", "catalog", "parse", "translate",
                       "return", "exit", "abort"}
      BY <1>8 DEF TypeOK, ReadSchema
    <3> QED  BY <1>1, <2>1, <2>2, <3>1, <3>2 DEF TypeOK, HeapInv, SlurpInv
  <2>4. EndInv'
    BY <1>8 DEF TypeOK, EndInv, HeapInv, Before, ReadSchema
  <2> QED  BY <1>1, <2>1, <2>2, <2>3, <2>4
<1>9. CASE MakeCatalog
  <2>1. HeapInv'
    BY <1>9 DEF HeapInv, Before, While, Resources, MakeCatalog, options
  <2>2. SlurpInv'
    BY <1>9, ClosedKeeps DEF MakeCatalog
  <2>3. TypeOK'
    <3>1. told' \in BOOLEAN
      BY <1>9 DEF TypeOK, MakeCatalog
    <3>2. /\ printed' \in {"nothing", "usage", "tree", "sql"} /\ status' \in 0 .. 2
          /\ pc' \in {"file", "schema", "stdin", "catalog", "parse", "translate",
                       "return", "exit", "abort"}
      BY <1>9 DEF TypeOK, MakeCatalog
    <3> QED  BY <1>1, <2>1, <2>2, <3>1, <3>2 DEF TypeOK, HeapInv, SlurpInv
  <2>4. EndInv'
    BY <1>9 DEF TypeOK, EndInv, HeapInv, Before, MakeCatalog
  <2> QED  BY <1>1, <2>1, <2>2, <2>3, <2>4
<1>10. CASE ParseQuery
  <2>1. HeapInv'
    BY <1>10 DEF HeapInv, Before, While, Resources, ParseQuery, options
  <2>2. SlurpInv'
    BY <1>10, ClosedKeeps DEF ParseQuery
  <2>3. TypeOK'
    <3>1. told' \in BOOLEAN
      BY <1>10 DEF TypeOK, ParseQuery
    <3>2. /\ printed' \in {"nothing", "usage", "tree", "sql"} /\ status' \in 0 .. 2
          /\ pc' \in {"file", "schema", "stdin", "catalog", "parse", "translate",
                       "return", "exit", "abort"}
      BY <1>10 DEF TypeOK, ParseQuery
    <3> QED  BY <1>1, <2>1, <2>2, <3>1, <3>2 DEF TypeOK, HeapInv, SlurpInv
  <2>4. EndInv'
    BY <1>10 DEF TypeOK, EndInv, HeapInv, Before, ParseQuery
  <2> QED  BY <1>1, <2>1, <2>2, <2>3, <2>4
<1>11. CASE Translate
  <2>1. HeapInv'
    BY <1>11 DEF HeapInv, Before, While, Resources, Translate, options
  <2>2. SlurpInv'
    BY <1>11, ClosedKeeps DEF Translate
  <2>3. TypeOK'
    <3>1. told' \in BOOLEAN
      BY <1>11 DEF TypeOK, Translate
    <3>2. /\ printed' \in {"nothing", "usage", "tree", "sql"} /\ status' \in 0 .. 2
          /\ pc' \in {"file", "schema", "stdin", "catalog", "parse", "translate",
                       "return", "exit", "abort"}
      BY <1>11 DEF TypeOK, Translate
    <3> QED  BY <1>1, <2>1, <2>2, <3>1, <3>2 DEF TypeOK, HeapInv, SlurpInv
  <2>4. EndInv'
    BY <1>11 DEF TypeOK, EndInv, HeapInv, Before, Translate
  <2> QED  BY <1>1, <2>1, <2>2, <2>3, <2>4
<1>12. CASE Return
  <2>1. HeapInv'
    BY <1>12 DEF HeapInv, Before, While, Resources, Return, options
  <2>2. SlurpInv'
    BY <1>12, ClosedKeeps DEF Return
  <2>3. TypeOK'
    <3>1. told' \in BOOLEAN
      BY <1>12 DEF TypeOK, Return
    <3>2. /\ printed' \in {"nothing", "usage", "tree", "sql"} /\ status' \in 0 .. 2
          /\ pc' \in {"file", "schema", "stdin", "catalog", "parse", "translate",
                       "return", "exit", "abort"}
      BY <1>12 DEF TypeOK, Return
    <3> QED  BY <1>1, <2>1, <2>2, <3>1, <3>2 DEF TypeOK, HeapInv, SlurpInv
  <2>4. EndInv'
    BY <1>12 DEF TypeOK, EndInv, HeapInv, Before, Return
  <2> QED  BY <1>1, <2>1, <2>2, <2>3, <2>4
<1> QED  BY <1>2, <1>3, <1>4, <1>5, <1>6, <1>7, <1>8, <1>9, <1>10, <1>11, <1>12

\* IInv holds throughout.
LEMMA SpecIInv == Spec => []IInv
<1>1. ASSUME IInv, UNCHANGED vars PROVE IInv'
  <2>1. UNCHANGED <<argv, i, ast, spec, file, query, heap, printed, told, status, pc,
                    cap, len, left, io>>
    BY <1>1 DEF vars, options, slurp
  <2>2. TypeOK' /\ HeapInv' /\ EndInv' /\ SlurpInv'
    BY <1>1, <2>1 DEF IInv, TypeOK, HeapInv, EndInv, SlurpInv, SlurpTypeOK, Before, While
  <2> QED  BY <1>1, <2>1, <2>2 DEF IInv
<1>2. IInv /\ [Next]_vars => IInv'
  BY <1>1, ArgsIInv, WorkIInv, InputIInv DEF Next
<1> QED  BY <1>2, InitIInv, PTL DEF Spec

\* The loop's indices stay inside the command line, and main's state is of its
\* type at every step.
THEOREM MainTypeCorrect == Spec => []TypeOK
<1>1. IInv => TypeOK
  BY DEF IInv
<1> QED  BY <1>1, SpecIInv, PTL

\* Whatever fails, main returns with everything released, and released once.
THEOREM MainBalanced == Spec => []Balanced
<1>1. IInv => Balanced
  BY DEF IInv, HeapInv, SlurpInv, While, Balanced
<1> QED  BY <1>1, SpecIInv, PTL

\* The exit code is 0 exactly when what was asked for was printed, another
\* exactly when an error was told, and 2 only before anything was read.
THEOREM MainExitCodeTells == Spec => []ExitCodeTells
<1>1. IInv => ExitCodeTells
  BY DEF IInv, EndInv, ExitCodeTells
<1> QED  BY <1>1, SpecIInv, PTL

\* A schema or map file that is parsed was read to its end, and its NUL lies
\* inside the buffer.
THEOREM AlwaysReadsWhole == Spec => []ReadsWhole
<1>1. IInv => ReadsWhole
  BY DEF IInv, SlurpInv, ReadsWhole
<1> QED  BY <1>1, SpecIInv, PTL

\* The room read_all_stdin makes at the end is never needed.
THEOREM TailNeverNeeded == Spec => [](io = "ended" => len < cap)
<1>1. IInv => (io = "ended" => len < cap)
  BY DEF IInv, SlurpInv
<1> QED  BY <1>1, SpecIInv, PTL
-----------------------------------------------------------------------------
(* The arguments                                                             *)

\* The options that end just before j, of a command line a, and whether j is the
\* value of the one before it.
Run(a, j) == {k \in 1 .. j - 1 : \A l \in k .. j - 1 : a[l] \in NamesOptions}
ValueIn(a, j) == Cardinality(Run(a, j)) % 2 = 1

\* An argument after an option that is not itself a value is a value, and no other.
LEMMA NextValue ==
  ASSUME NEW a, NEW j \in Nat \ {0}
  PROVE  ValueIn(a, j + 1) <=> a[j] \in NamesOptions /\ ~ValueIn(a, j)
<1>1. IsFiniteSet(Run(a, j)) /\ Cardinality(Run(a, j)) \in Nat
  <2>1. IsFiniteSet(1 .. j - 1)
    BY FS_Interval
  <2>2. Run(a, j) \subseteq 1 .. j - 1
    BY DEF Run
  <2> QED  BY <2>1, <2>2, FS_Subset, FS_CardinalityType
<1>2. CASE a[j] \notin NamesOptions
  <2>1. Run(a, j + 1) = {}
    <3>1. \A k \in 1 .. j : j \in k .. j
      OBVIOUS
    <3>2. j + 1 - 1 = j
      OBVIOUS
    <3> QED  BY <1>2, <3>1, <3>2 DEF Run
  <2>2. Cardinality(Run(a, j + 1)) = 0
    BY <2>1, FS_EmptySet
  <2> QED  BY <1>2, <2>2 DEF ValueIn
<1>3. CASE a[j] \in NamesOptions
  <2>1. Run(a, j + 1) = Run(a, j) \cup {j}
    <3>1. \A k \in 1 .. j : k .. j = (k .. j - 1) \cup {j}
      OBVIOUS
    <3>2. 1 .. j = (1 .. j - 1) \cup {j} /\ j + 1 - 1 = j
      OBVIOUS
    <3>3. \A k \in 1 .. j :
            k \in Run(a, j + 1) <=> \A l \in k .. j - 1 : a[l] \in NamesOptions
      BY <1>3, <3>1, <3>2 DEF Run
    <3>4. j .. j - 1 = {}
      OBVIOUS
    <3>5. j \in Run(a, j + 1)
      BY <3>2, <3>3, <3>4
    <3>6. Run(a, j + 1) \subseteq 1 .. j
      BY <3>2 DEF Run
    <3>7. \A k \in 1 .. j - 1 : k \in Run(a, j + 1) <=> k \in Run(a, j)
      BY <3>2, <3>3 DEF Run
    <3>8. Run(a, j) \subseteq 1 .. j - 1
      BY DEF Run
    <3> QED  BY <3>2, <3>5, <3>6, <3>7, <3>8
  <2>2. j \notin Run(a, j)
    BY DEF Run
  <2>3. Cardinality(Run(a, j + 1)) = Cardinality(Run(a, j)) + 1
    BY <1>1, <2>1, <2>2, FS_AddElement
  <2>4. \A n \in Nat : (n + 1) % 2 = 1 <=> ~(n % 2 = 1)
    OBVIOUS
  <2> QED  BY <1>1, <1>3, <2>3, <2>4 DEF ValueIn
<1> QED  BY <1>2, <1>3

\* The first argument is the program's name, never an option's value.
LEMMA FirstIsNone == \A a : ~ValueIn(a, 1)
<1> SUFFICES ASSUME NEW a PROVE ~ValueIn(a, 1)  OBVIOUS
<1>1. Run(a, 1) = {}
  BY DEF Run
<1>2. Cardinality(Run(a, 1)) = 0
  BY <1>1, FS_EmptySet
<1> QED  BY <1>2 DEF ValueIn

\* What the arguments before n mean, of a command line a.
GivenIn(a, n, words) == {j \in 1 .. n - 1 : a[j] \in words /\ ~ValueIn(a, j)}
ValuesIn(a, n, option) == {j \in 2 .. n - 1 : a[j - 1] = option /\ ValueIn(a, j)}
Words == Args \ (Help \cup NamesOptions \cup {"--ast"})

\* One argument more that is no option of a value, and two more that are one
\* and its value.
LEMMA OneMore ==
  ASSUME NEW a, NEW n \in Nat \ {0}, ~ValueIn(a, n), a[n] \notin NamesOptions
  PROVE  /\ ~ValueIn(a, n + 1)
         /\ \A words : GivenIn(a, n + 1, words)
                         = GivenIn(a, n, words) \cup (IF a[n] \in words THEN {n} ELSE {})
         /\ \A option : ValuesIn(a, n + 1, option) = ValuesIn(a, n, option)
<1>1. ~ValueIn(a, n + 1)
  BY NextValue
<1>2. 1 .. n + 1 - 1 = (1 .. n - 1) \cup {n} /\ n + 1 - 1 = n
  OBVIOUS
<1>3. \A j \in 2 .. n : j \in 2 .. n - 1 \/ j = n
  OBVIOUS
<1>4. 2 .. n - 1 \subseteq 2 .. n
  OBVIOUS
<1>5. ASSUME NEW words
      PROVE  GivenIn(a, n + 1, words)
               = GivenIn(a, n, words) \cup (IF a[n] \in words THEN {n} ELSE {})
  BY <1>2 DEF GivenIn
<1>6. ASSUME NEW option
      PROVE  ValuesIn(a, n + 1, option) = ValuesIn(a, n, option)
  BY <1>2, <1>3, <1>4 DEF ValuesIn
<1> QED  BY <1>1, <1>5, <1>6

\* What one more option with its value adds to what was read.
LEMMA TwoMore ==
  ASSUME NEW a, NEW n \in Nat \ {0}, ~ValueIn(a, n), a[n] \in NamesOptions
  PROVE  /\ ValueIn(a, n + 1) /\ ~ValueIn(a, n + 2)
         /\ \A words : GivenIn(a, n + 2, words)
                         = GivenIn(a, n, words) \cup (IF a[n] \in words THEN {n} ELSE {})
         /\ \A option : ValuesIn(a, n + 2, option)
              = ValuesIn(a, n, option) \cup (IF a[n] = option THEN {n + 1} ELSE {})
<1>1. ValueIn(a, n + 1)
  BY NextValue
<1>2. ~ValueIn(a, n + 2)
  <2>1. n + 1 \in Nat \ {0} /\ n + 1 + 1 = n + 2
    OBVIOUS
  <2> QED  BY <1>1, <2>1, NextValue
<1>3. /\ 1 .. n + 2 - 1 = (1 .. n - 1) \cup {n, n + 1}
      /\ 2 .. n + 2 - 1 = ((2 .. n - 1) \cup {n, n + 1}) \ {1}
      /\ n + 1 - 1 = n /\ n + 1 # 1
  OBVIOUS
<1>4. ASSUME NEW words
      PROVE  GivenIn(a, n + 2, words)
               = GivenIn(a, n, words) \cup (IF a[n] \in words THEN {n} ELSE {})
  BY <1>1, <1>3 DEF GivenIn
<1>5. ASSUME NEW option
      PROVE  ValuesIn(a, n + 2, option)
               = ValuesIn(a, n, option) \cup (IF a[n] = option THEN {n + 1} ELSE {})
  BY <1>1, <1>3 DEF ValuesIn
<1> QED  BY <1>1, <1>2, <1>4, <1>5

\* The inductive invariant of the options: the loop stands at an argument that
\* is no value, and has taken what the arguments before it mean.
ArgsRead ==
  /\ ~ValueIn(argv, i)
  /\ ast = (GivenIn(argv, i, {"--ast"}) # {})
  /\ GivenIn(argv, i, Help) = {}
  /\ GivenIn(argv, i, Words) = IF query = NONE THEN {} ELSE {query}
  /\ IsLast(spec, ValuesIn(argv, i, "--names"))
  /\ IsLast(file, ValuesIn(argv, i, "--names-file"))
  /\ pc \notin {"args", "exit"} =>
       /\ i = Len(argv) + 1 /\ query # NONE
       /\ (pc = "dump") = ast

\* The arguments before the cursor are read, to begin with,
LEMMA InitArgsRead == Init => ArgsRead
<1> SUFFICES ASSUME Init PROVE ArgsRead  OBVIOUS
<1>1. /\ i = 1 /\ ast = FALSE /\ spec = NONE /\ file = NONE /\ query = NONE
      /\ pc = "args"
  BY DEF Init
<1>2. 1 .. 1 - 1 = {} /\ 2 .. 1 - 1 = {}
  OBVIOUS
<1>3. /\ \A words : GivenIn(argv, 1, words) = {}
      /\ \A option : ValuesIn(argv, 1, option) = {}
  BY <1>2 DEF GivenIn, ValuesIn
<1> QED  BY <1>1, <1>3, FirstIsNone DEF ArgsRead, IsLast

\* One more is the last.
LEMMA LaterIsLast ==
  ASSUME NEW n \in Nat, NEW S, S \subseteq 1 .. n
  PROVE  IsLast(n + 1, S \cup {n + 1})
<1>1. \A j \in S : j <= n + 1
  OBVIOUS
<1> QED  BY <1>1 DEF IsLast

\* and after each step.
LEMMA StepArgsRead == IInv /\ ArgsRead /\ [Next]_vars => ArgsRead'
<1> SUFFICES ASSUME IInv, ArgsRead, [Next]_vars PROVE ArgsRead'  OBVIOUS
<1>1. /\ i \in Nat \ {0} /\ i <= Len(argv) + 1 /\ Len(argv) \in Nat
      /\ \A j \in 1 .. Len(argv) : argv[j] \in Args
      /\ query \in Nat
  BY DEF IInv, TypeOK
<1>2. /\ "--ast" \notin NamesOptions /\ "--ast" \notin Words /\ "--ast" \notin Help
      /\ \A w \in NamesOptions : w \notin Words /\ w \notin Help /\ w # "--ast"
      /\ \A w \in Words : w \notin Help /\ w \notin NamesOptions /\ w # "--ast"
      /\ NamesOptions = {"--names", "--names-file"} /\ "--names" # "--names-file"
  BY DEF NamesOptions, Words, Help
<1>3. ASSUME UNCHANGED options,
             \/ pc' = "exit" \/ pc' = pc
             \/ /\ pc \notin {"args", "exit", "dump"}
                /\ pc' \notin {"args", "dump"}
      PROVE  ArgsRead'
  <2>1. UNCHANGED <<argv, i, ast, spec, file, query>>
    BY <1>3 DEF options
  <2> QED  BY <1>3, <2>1 DEF ArgsRead
<1>4. CASE UNCHANGED vars
  BY <1>3, <1>4 DEF vars
<1>5. CASE ShowHelp \/ NoArgument \/ ExtraArgument \/ NoQuery
  <2>1. UNCHANGED options /\ pc' = "exit"
    BY <1>5 DEF ShowHelp, NoArgument, ExtraArgument, NoQuery, Misused, Exit
  <2> QED  BY <1>3, <2>1
<1>6. CASE SetAst
  <2>1. /\ pc = "args" /\ i <= Len(argv) /\ argv[i] = "--ast" /\ ast' = TRUE /\ i' = i + 1
        /\ UNCHANGED <<argv, spec, file, query, pc>>
    BY <1>6 DEF SetAst, Reading
  <2>2. ~ValueIn(argv, i) /\ argv[i] \notin NamesOptions
    BY <1>2, <2>1 DEF ArgsRead
  <2>3. /\ ~ValueIn(argv, i + 1)
        /\ \A words : GivenIn(argv, i + 1, words)
                        = GivenIn(argv, i, words) \cup (IF argv[i] \in words THEN {i} ELSE {})
        /\ \A option : ValuesIn(argv, i + 1, option) = ValuesIn(argv, i, option)
    BY <1>1, <2>2, OneMore
  <2>4. GivenIn(argv, i + 1, {"--ast"}) # {}
    BY <2>1, <2>3
  <2>5. /\ GivenIn(argv, i + 1, Help) = GivenIn(argv, i, Help)
        /\ GivenIn(argv, i + 1, Words) = GivenIn(argv, i, Words)
    BY <1>2, <2>1, <2>3
  <2> QED  BY <2>1, <2>3, <2>4, <2>5 DEF ArgsRead
<1>7. CASE SetQuery
  <2>1. /\ pc = "args" /\ i <= Len(argv) /\ query = NONE /\ query' = i /\ i' = i + 1
        /\ argv[i] \notin Help \cup NamesOptions \cup {"--ast"}
        /\ UNCHANGED <<argv, ast, spec, file, pc>>
    BY <1>7 DEF SetQuery, Reading, IsOption
  <2>2. argv[i] \in Words
    BY <1>1, <2>1 DEF Words
  <2>3. /\ ~ValueIn(argv, i + 1)
        /\ \A words : GivenIn(argv, i + 1, words)
                        = GivenIn(argv, i, words) \cup (IF argv[i] \in words THEN {i} ELSE {})
        /\ \A option : ValuesIn(argv, i + 1, option) = ValuesIn(argv, i, option)
    BY <1>1, <2>1, OneMore DEF ArgsRead
  <2>4. /\ GivenIn(argv, i + 1, Help) = GivenIn(argv, i, Help)
        /\ GivenIn(argv, i + 1, {"--ast"}) = GivenIn(argv, i, {"--ast"})
    BY <2>1, <2>3
  <2>5. GivenIn(argv, i + 1, Words) = {i}
    BY <2>1, <2>2, <2>3 DEF ArgsRead
  <2>6. query' # NONE
    BY <1>1, <2>1 DEF NONE
  <2> QED  BY <2>1, <2>3, <2>4, <2>5, <2>6 DEF ArgsRead
<1>8. CASE SetNames
  <2>1. /\ pc = "args" /\ i < Len(argv) /\ argv[i] \in NamesOptions /\ i' = i + 2
        /\ UNCHANGED <<argv, ast, query, pc>>
        /\ argv[i] = "--names" => spec' = i + 1 /\ file' = file
        /\ argv[i] # "--names" => file' = i + 1 /\ spec' = spec
    BY <1>8 DEF SetNames, Reading
  <2>2. /\ ~ValueIn(argv, i + 2)
        /\ \A words : GivenIn(argv, i + 2, words)
                        = GivenIn(argv, i, words) \cup (IF argv[i] \in words THEN {i} ELSE {})
        /\ \A option : ValuesIn(argv, i + 2, option)
             = ValuesIn(argv, i, option) \cup (IF argv[i] = option THEN {i + 1} ELSE {})
    BY <1>1, <2>1, TwoMore DEF ArgsRead
  <2>3. /\ GivenIn(argv, i + 2, Help) = GivenIn(argv, i, Help)
        /\ GivenIn(argv, i + 2, Words) = GivenIn(argv, i, Words)
        /\ GivenIn(argv, i + 2, {"--ast"}) = GivenIn(argv, i, {"--ast"})
    BY <1>2, <2>1, <2>2
  <2>4. \A option : ValuesIn(argv, i, option) \subseteq 1 .. i
    BY <1>1 DEF ValuesIn
  <2>5. \A option : IsLast(i + 1, ValuesIn(argv, i, option) \cup {i + 1})
    BY <1>1, <2>4, LaterIsLast
  <2>6. ASSUME NEW option
        PROVE  /\ argv[i] = option =>
                    IsLast(i + 1, ValuesIn(argv, i + 2, option))
               /\ argv[i] # option =>
                    ValuesIn(argv, i + 2, option) = ValuesIn(argv, i, option)
    <3>1. ValuesIn(argv, i + 2, option)
            = ValuesIn(argv, i, option) \cup (IF argv[i] = option THEN {i + 1} ELSE {})
      BY <2>2
    <3>2. IsLast(i + 1, ValuesIn(argv, i, option) \cup {i + 1})
      BY <2>5
    <3> QED  BY <3>1, <3>2
  <2>7. CASE argv[i] = "--names"
    <3>1. spec' = i + 1 /\ file' = file /\ argv[i] # "--names-file"
      BY <2>1, <2>7
    <3>2. IsLast(spec', ValuesIn(argv, i + 2, "--names"))
      BY <2>6, <2>7, <3>1
    <3>3. IsLast(file', ValuesIn(argv, i + 2, "--names-file"))
      BY <2>6, <3>1 DEF ArgsRead
    <3> QED  BY <2>1, <2>2, <2>3, <3>2, <3>3 DEF ArgsRead
  <2>8. CASE argv[i] # "--names"
    <3>1. file' = i + 1 /\ spec' = spec /\ argv[i] = "--names-file"
      BY <1>2, <2>1, <2>8
    <3>2. IsLast(spec', ValuesIn(argv, i + 2, "--names"))
      BY <2>6, <2>8, <3>1 DEF ArgsRead
    <3>3. IsLast(file', ValuesIn(argv, i + 2, "--names-file"))
      BY <2>6, <3>1
    <3> QED  BY <2>1, <2>2, <2>3, <3>2, <3>3 DEF ArgsRead
  <2> QED  BY <2>7, <2>8
<1>9. CASE Proceed
  <2>1. /\ pc = "args" /\ i > Len(argv) /\ query # NONE /\ UNCHANGED options
        /\ pc' = IF ast THEN "dump" ELSE "map"
    BY <1>9 DEF Proceed
  <2>2. UNCHANGED <<argv, i, ast, spec, file, query>>
    BY <2>1 DEF options
  <2>3. i = Len(argv) + 1
    BY <1>1, <2>1
  <2>4. (pc' = "dump") = ast
    BY <2>1 DEF ArgsRead
  <2> QED  BY <2>1, <2>2, <2>3, <2>4 DEF ArgsRead
<1>10. CASE DumpTree \/ BuildMap \/ OpenMap \/ ParseMap \/ Abort \/ OpenSchema
            \/ ReadSchema \/ ReadInput \/ MakeCatalog \/ ParseQuery \/ Translate \/ Return
  <2>1. UNCHANGED options
    BY <1>10 DEF DumpTree, BuildMap, OpenMap, ParseMap, Abort, OpenSchema, ReadSchema,
       ReadInput, MakeCatalog, ParseQuery, Translate, Return, Misused, Failed
  <2>2. \/ pc' = "exit" \/ pc' = pc
        \/ pc \notin {"args", "exit", "dump"} /\ pc' \notin {"args", "dump"}
    BY <1>10 DEF DumpTree, BuildMap, OpenMap, ParseMap, Abort, OpenSchema, ReadSchema,
       ReadInput, MakeCatalog, ParseQuery, Translate, Return, Misused, Failed, Exit
  <2> QED  BY <1>3, <2>1, <2>2
<1> QED  BY <1>4, <1>5, <1>6, <1>7, <1>8, <1>9, <1>10 DEF Next

\* main.c:180-216: the options are read as the usage text means them, whatever
\* the values look like, on every command line.
THEOREM OptionsReadAsMeant == Spec => []ReadAsMeant
<1>1. IInv /\ ArgsRead => ReadAsMeant
  <2> SUFFICES ASSUME IInv, ArgsRead PROVE ReadAsMeant  OBVIOUS
  <2>1. /\ \A j : IsValue(j) <=> ValueIn(argv, j)
        /\ \A n, words : Given(n, words) = GivenIn(argv, n, words)
        /\ \A n, option : Values(n, option) = ValuesIn(argv, n, option)
        /\ \A n : Queries(n) = GivenIn(argv, n, Words)
    BY DEF IsValue, ValueIn, Run, Given, GivenIn, Values, ValuesIn, Queries, Words
  <2>2. IsFirst(query, Queries(i))
    <3>1. query \in Nat
      BY DEF IInv, TypeOK
    <3> QED  BY <2>1, <3>1 DEF ArgsRead, IsFirst
  <2>3. ASSUME pc \notin {"args", "exit"}
        PROVE  Cardinality(Queries(i)) = 1 /\ Given(i, Help) = {}
    BY <2>1, <2>3, FS_Singleton DEF ArgsRead
  <2>4. ~Dangling(i)
    <3> SUFFICES ASSUME Dangling(i) PROVE FALSE  OBVIOUS
    <3>1. i \in Nat \ {0}
      BY DEF IInv, TypeOK
    <3>2. /\ i - 1 \in 1 .. i - 1 /\ argv[i - 1] \in NamesOptions
          /\ ~ValueIn(argv, i - 1)
      BY <2>1 DEF Dangling, GivenIn
    <3>3. i - 1 \in Nat \ {0} /\ i - 1 + 1 = i
      BY <3>1, <3>2
    <3>4. ValueIn(argv, i)
      BY <3>2, <3>3, NextValue
    <3> QED  BY <3>4 DEF ArgsRead
  <2> QED  BY <2>1, <2>2, <2>3, <2>4 DEF ArgsRead, ReadAsMeant
<1>2. IInv /\ ArgsRead /\ [Next]_vars => ArgsRead'
  BY StepArgsRead
<1> QED  BY <1>1, <1>2, InitArgsRead, SpecIInv, PTL DEF Spec
=============================================================================
