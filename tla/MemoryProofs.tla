---------------------------- MODULE MemoryProofs ----------------------------
(***************************************************************************)
(* Proofs about the two modules that manage memory.  Catalog, for schemas  *)
(* of any length: compacting the array in place keeps every table of the   *)
(* graph, in the order of the schema, and every string has one owner until *)
(* it is released.  SqlBuf, for every size of size_t, every first capacity *)
(* and all texts memory can hold, and that it implements Text.             *)
(***************************************************************************)
EXTENDS Catalog, SqlBuf, FiniteSetTheorems, WellFoundedInduction, SequenceTheorems, TLAPS

-----------------------------------------------------------------------------
(* Positions *)

\* A nonempty set of naturals has a first one.
LEMMA FirstExists ==
  ASSUME NEW H \in SUBSET Nat, H # {}
  PROVE  \E j \in H : \A m \in H : j <= m
<1> DEFINE Less == {pair \in Nat \X Nat : pair[1] < pair[2]}
<1>1. IsWellFoundedOn(Less, Nat)
  BY NatLessThanWellFounded DEF OpToRel
<1>2. PICK j \in H : \A m \in H : <<m, j>> \notin Less
  <2> HIDE DEF Less
  <2> QED  BY <1>1, WFMin
<1>3. \A m, n \in Nat : <<m, n>> \notin Less => n <= m
  OBVIOUS
<1> HIDE DEF Less
<1> QED  BY <1>2, <1>3


\* The entries of the array that own their strings: while it is compacted, the
\* kept ones and those not looked at yet.
Held ==
  CASE pc = "filter" -> (1 .. nkept) \cup (i .. ntables)
    [] pc = "free" -> i .. ntables
    [] pc = "freed" -> {}
    [] OTHER -> 1 .. ntables

Counters ==
  /\ pc \in {"read", "filter"} => ntables = Len(tables)
  /\ pc = "read" => nkept = 0 /\ i <= Len(schema) + 1
  /\ pc = "filter" => nkept < i /\ i <= ntables + 1
  /\ pc = "loaded" => ntables = nkept
  /\ pc = "free" => i <= ntables + 1

\* Blocks grow along the array, so no two entries own the same.
Owned ==
  /\ live = {tables[j].block : j \in Held}
  /\ \A j, m \in Held : j < m => tables[j].block < tables[m].block
  /\ ~fault

OfLine(n) == schema[n] # NULL /\ IsGraphTable(Table(n, schema[n]))

\* Entries are lines of the schema, and no line of the graph is missing.
Faithful ==
  /\ \A j \in Held :
       LET n == tables[j].block IN
       n \in DOMAIN schema /\ schema[n] # NULL /\ tables[j] = Table(n, schema[n])
  /\ pc = "read" =>
       /\ \A j \in Held : tables[j].block < i
       /\ \A n \in 1 .. i - 1 :
            schema[n] # NULL => \E j \in Held : tables[j].block = n
  /\ pc \in {"filter", "loaded"} =>
       /\ \A j \in 1 .. nkept : IsGraphTable(tables[j])
       /\ \A n \in DOMAIN schema :
            OfLine(n) => \E j \in Held : tables[j].block = n

IInv == TypeOK /\ Counters /\ Owned /\ Faithful

\* A line that is not blank makes a table of the right type.
LEMMA TableType ==
  ASSUME NEW n \in Nat \ {0}, NEW line \in Lines, line # NULL
  PROVE  Table(n, line) \in Tables
<1>1. line.name \in Names /\ line.cols \in Seq(Columns \cup {NoColumn})
  BY DEF Lines
<1>2. ColumnsOf(line) \subseteq Columns \cup {NoColumn}
  BY <1>1 DEF ColumnsOf
<1>3. QED
  BY <1>1, <1>2 DEF Table, Tables

\* Only entries that count own their strings.
LEMMA HeldRange ==
  ASSUME TypeOK, Counters
  PROVE  Held \subseteq 1 .. ntables
BY DEF TypeOK, Counters, Held

\* A catalog not read yet owns nothing.
LEMMA CatalogInitial == Init => IInv
<1> SUFFICES ASSUME Init PROVE IInv
  OBVIOUS
<1>1. schema \in Seq(Lines)
  BY CatalogAssumption DEF Init
<1>2. Held = {}
  BY DEF Init, Held
<1>3. TypeOK
  <2>1. tables \in Seq(Tables) /\ ntables \in 0 .. Len(tables)
    BY Len(<<>>) = 0 DEF Init
  <2>2. i \in Nat \ {0} /\ nkept \in Nat /\ live \subseteq Nat
    BY DEF Init
  <2>3. pc \in {"read", "filter", "loaded", "free", "freed"}
          /\ fault \in BOOLEAN
    BY DEF Init
  <2>4. QED
    BY <1>1, <2>1, <2>2, <2>3 DEF TypeOK
<1>4. Counters
  BY <1>1 DEF Init, Counters
<1>5. Owned
  BY <1>2 DEF Init, Owned
<1>6. Faithful
  BY <1>1, <1>2 DEF Init, Faithful
<1>7. QED
  BY <1>3, <1>4, <1>5, <1>6 DEF IInv

\* Releasing an entry that owns its strings is no fault.
LEMMA ReleaseOwned ==
  ASSUME IInv, NEW j \in Held, Release(tables[j]),
         NEW H, H = Held \ {j}
  PROVE  live' = {tables[m].block : m \in H} /\ ~fault'
<1>1. \A m \in Held : m \in Nat /\ tables[m].block \in Nat
  <2>1. Held \subseteq 1 .. Len(tables)
    BY HeldRange, Len(tables) \in Nat DEF IInv, TypeOK
  <2>2. \A m \in 1 .. Len(tables) : tables[m] \in Tables
    BY DEF IInv, TypeOK
  <2>3. QED
    BY <2>1, <2>2 DEF Tables
<1>2. \A m \in Held : tables[m].block = tables[j].block => m = j
  BY <1>1 DEF IInv, Owned
<1>3. QED
  BY <1>2 DEF IInv, Owned, Release

-----------------------------------------------------------------------------
(* The steps *)

\* Reading one line more.
LEMMA ReadStep ==
  ASSUME IInv, SkipLine \/ AddTable \/ EndRead
  PROVE  IInv'
<1>1. /\ schema \in Seq(Lines) /\ i \in Nat \ {0} /\ i <= Len(schema) + 1
      /\ tables \in Seq(Tables) /\ ntables = Len(tables) /\ nkept = 0
      /\ live \subseteq Nat /\ pc = "read"
  BY DEF IInv, TypeOK, Counters, SkipLine, AddTable, EndRead
<1>2. Held = 1 .. ntables
  BY <1>1 DEF Held
<1>3. CASE SkipLine
  <2>1. Held' = Held
    BY <1>1, <1>2, <1>3 DEF SkipLine, Held
  <2>2. TypeOK' /\ Counters'
    BY <1>1, <1>3 DEF SkipLine, IInv, TypeOK, Counters
  <2>3. Owned'
    BY <1>3, <2>1 DEF SkipLine, IInv, Owned
  <2>4. \A j \in Held' : tables[j].block \in Nat /\ tables[j].block < i + 1
    BY <1>1, <1>2, <2>1 DEF IInv, Faithful, Tables
  <2>5. \A n \in 1 .. i : schema[n] # NULL =>
                            \E j \in Held' : tables[j].block = n
    BY <1>1, <1>3, <2>1 DEF SkipLine, IInv, Faithful
  <2>6. Faithful'
    BY <1>1, <1>3, <2>1, <2>4, <2>5 DEF SkipLine, IInv, Faithful
  <2>7. QED
    BY <2>2, <2>3, <2>6 DEF IInv
<1>4. CASE AddTable
  <2> DEFINE t == Table(i, schema[i])
  <2>1. t \in Tables /\ t.block = i
    BY <1>1, <1>4, TableType DEF AddTable, Table
  <2>2. /\ tables' \in Seq(Tables) /\ Len(tables') = ntables + 1
        /\ tables'[ntables + 1] = t
        /\ \A j \in 1 .. ntables : tables'[j] = tables[j]
    <3>1. tables' = Append(tables, t)
      BY <1>4 DEF AddTable
    <3> HIDE DEF t
    <3>2. QED
      BY <1>1, <2>1, <3>1
  <2>3. Held' = (1 .. ntables) \cup {ntables + 1}
    BY <1>1, <1>4 DEF AddTable, Held
  <2>4. \A j \in 1 .. ntables :
          tables'[j] = tables[j] /\ tables[j].block \in Nat
            /\ tables[j].block < i
    <3>1. \A j \in 1 .. ntables : tables[j] \in Tables
      BY <1>1
    <3>2. \A j \in 1 .. ntables : tables[j].block < i
      BY <1>1, <1>2 DEF IInv, Faithful
    <3>3. QED
      BY <2>2, <3>1, <3>2 DEF Tables
  <2> HIDE DEF t
  <2>5. TypeOK' /\ Counters'
    <3>1. TypeOK'
      <4>1. /\ schema' = schema /\ pc' = pc /\ i' = i + 1 /\ nkept' = nkept
            /\ ntables' = ntables + 1 /\ live' = live \cup {i} /\ fault' = fault
        BY <1>4 DEF AddTable
      <4>2. fault' \in BOOLEAN
        BY <4>1 DEF IInv, TypeOK
      <4>3. /\ schema' \in Seq(Lines) /\ pc' \in {"read", "filter", "loaded", "free", "freed"}
            /\ i' \in Nat \ {0} /\ nkept' \in Nat /\ live' \subseteq Nat
        BY <1>1, <4>1
      <4>4. ntables' \in 0 .. Len(tables')
        BY <1>1, <2>2, <4>1
      <4> QED
        BY <2>2, <4>2, <4>3, <4>4 DEF TypeOK
    <3>2. Counters'
      BY <1>1, <1>4, <2>2 DEF AddTable, IInv, Counters
    <3>3. QED
      BY <3>1, <3>2
  <2>6. Owned'
    <3>1. live' = {tables'[j].block : j \in Held'}
      <4>1. live = {tables[j].block : j \in 1 .. ntables}
        BY <1>2 DEF IInv, Owned
      <4>2. live' = live \cup {i}
        BY <1>4 DEF AddTable
      <4>3. {tables[j].block : j \in 1 .. ntables}
              = {tables'[j].block : j \in 1 .. ntables}
        BY <2>2
      <4>4. {tables'[j].block : j \in Held'}
              = {tables'[j].block : j \in 1 .. ntables}
                  \cup {tables'[ntables + 1].block}
        BY <2>3
      <4>5. QED
        BY <2>1, <2>2, <4>1, <4>2, <4>3, <4>4
    <3>2. \A j, m \in Held' : j < m => tables'[j].block < tables'[m].block
      BY <1>1, <1>2, <2>1, <2>2, <2>3, <2>4 DEF IInv, Owned
    <3>3. QED
      BY <1>4, <3>1, <3>2 DEF AddTable, IInv, Owned
  <2>7. Faithful'
    <3>1. schema' = schema /\ pc' = "read" /\ i' = i + 1 /\ i \in DOMAIN schema
            /\ schema[i] # NULL
      BY <1>1, <1>4 DEF AddTable
    <3>2. \A j \in Held' :
            LET n == tables'[j].block IN
            /\ n \in DOMAIN schema /\ schema[n] # NULL
            /\ tables'[j] = Table(n, schema[n])
      BY <1>2, <2>1, <2>2, <2>3, <3>1 DEF IInv, Faithful, t
    <3>3. ASSUME NEW j \in Held'
          PROVE  tables'[j].block < i + 1
      <4>1. CASE j \in 1 .. ntables
        BY <1>1, <2>4, <4>1
      <4>2. CASE j = ntables + 1
        BY <1>1, <2>1, <2>2, <4>2
      <4>3. QED
        BY <2>3, <4>1, <4>2
    <3>4. \A n \in 1 .. i : schema[n] # NULL =>
                              \E j \in Held' : tables'[j].block = n
      BY <1>1, <1>2, <2>1, <2>2, <2>3, SMTT(30) DEF IInv, Faithful
    <3>5. QED
      BY <1>1, <3>1, <3>2, <3>3, <3>4 DEF Faithful
  <2>8. QED
    BY <2>5, <2>6, <2>7 DEF IInv
<1>5. CASE EndRead
  <2>1. Held' = Held
    BY <1>1, <1>2, <1>5 DEF EndRead, Held
  <2>2. TypeOK' /\ Counters'
    BY <1>1, <1>5 DEF EndRead, IInv, TypeOK, Counters
  <2>3. Owned'
    BY <1>5, <2>1 DEF EndRead, IInv, Owned
  <2>4. Faithful'
    BY <1>1, <1>5, <2>1 DEF EndRead, IInv, Faithful, OfLine
  <2>5. QED
    BY <2>2, <2>3, <2>4 DEF IInv
<1>6. QED
  BY <1>3, <1>4, <1>5

\* Keeping a table: the entries that own strings are the same lines as before,
\* one of them further left.
LEMMA KeepStep ==
  ASSUME IInv, Keep
  PROVE  IInv'
<1> DEFINE Old(j) == IF j = nkept + 1 THEN i ELSE j
<1>1. /\ i \in Nat \ {0} /\ nkept \in Nat /\ nkept < i /\ i <= ntables
      /\ tables \in Seq(Tables) /\ ntables = Len(tables)
      /\ pc = "filter" /\ IsGraphTable(tables[i])
  BY DEF IInv, TypeOK, Counters, Keep
<1>2. /\ tables' \in Seq(Tables) /\ Len(tables') = ntables
      /\ \A j \in 1 .. ntables : tables'[j] = tables[Old(j)]
  <2>1. tables' = [tables EXCEPT ![nkept + 1] = tables[i]]
    BY DEF Keep
  <2>2. nkept + 1 \in 1 .. Len(tables) /\ tables[i] \in Tables
    BY <1>1
  <2>3. QED
    BY <1>1, <2>1, <2>2
<1>3. Held = (1 .. nkept) \cup (i .. ntables)
  BY <1>1 DEF Held
<1>4. Held' = (1 .. nkept + 1) \cup (i + 1 .. ntables)
  BY <1>1 DEF Keep, Held
<1>5. \A j \in Held' : Old(j) \in Held /\ tables'[j] = tables[Old(j)]
  BY <1>1, <1>2, <1>3, <1>4
<1>6. \A m \in Held : \E j \in Held' : Old(j) = m
  <2>1. \A m \in Held : m = i \/ (m \in Held' /\ m # nkept + 1)
    <3>1. \A m \in 1 .. nkept : m \in 1 .. nkept + 1 /\ m # nkept + 1
      BY <1>1
    <3>2. \A m \in i .. ntables : m = i \/ m \in i + 1 .. ntables
      BY <1>1
    <3>3. \A m \in i + 1 .. ntables : m # nkept + 1
      BY <1>1
    <3>4. QED
      BY <1>3, <1>4, <3>1, <3>2, <3>3
  <2>2. nkept + 1 \in Held'
    BY <1>1, <1>4
  <2>3. QED
    BY <2>1, <2>2
<1>7. \A j, m \in Held' : j < m => Old(j) < Old(m)
  BY <1>1, <1>4
<1>8. TypeOK' /\ Counters'
  BY <1>1, <1>2 DEF Keep, IInv, TypeOK, Counters
<1>9. Owned'
  <2> HIDE DEF Old
  <2>1. {tables'[j].block : j \in Held'} = {tables[m].block : m \in Held}
    BY <1>5, <1>6
  <2>2. \A j, m \in Held' : j < m => tables'[j].block < tables'[m].block
    BY <1>5, <1>7 DEF IInv, Owned
  <2>3. QED
    BY <2>1, <2>2 DEF Keep, IInv, Owned
<1>10. Faithful'
  <2>1. \A j \in 1 .. nkept + 1 : IsGraphTable(tables'[j])
    BY <1>1, <1>2 DEF IInv, Faithful
  <2> HIDE DEF Old
  <2>2. \A j \in Held' :
          LET n == tables'[j].block IN
          /\ n \in DOMAIN schema /\ schema[n] # NULL
          /\ tables'[j] = Table(n, schema[n])
    BY <1>5 DEF IInv, Faithful
  <2>3. \A n \in DOMAIN schema :
          OfLine(n) => \E j \in Held' : tables'[j].block = n
    BY <1>1, <1>5, <1>6 DEF IInv, Faithful
  <2>4. QED
    BY <1>1, <2>1, <2>2, <2>3 DEF Keep, Faithful, OfLine, IsGraphTable, HasId
<1>11. QED
  BY <1>8, <1>9, <1>10 DEF IInv

\* Dropping a table, or passing on to the loaded catalog.
LEMMA DropStep ==
  ASSUME IInv, Drop \/ EndFilter
  PROVE  IInv'
<1>1. /\ i \in Nat \ {0} /\ nkept \in Nat /\ nkept < i /\ i <= ntables + 1
      /\ tables \in Seq(Tables) /\ ntables = Len(tables) /\ pc = "filter"
  BY DEF IInv, TypeOK, Counters, Drop, EndFilter
<1>2. Held = (1 .. nkept) \cup (i .. ntables)
  BY <1>1 DEF Held
<1>3. CASE Drop
  <2>1. i \in Held /\ Held' = Held \ {i}
    BY <1>1, <1>2, <1>3 DEF Drop, Held
  <2>2. live' = {tables[m].block : m \in Held \ {i}} /\ ~fault'
    BY <1>3, <2>1, ReleaseOwned DEF Drop
  <2>3. TypeOK' /\ Counters'
    <3>1. live' \subseteq Nat
      BY <1>3 DEF Drop, Release, IInv, TypeOK
    <3>2. fault' \in BOOLEAN
      BY <1>3 DEF Drop, Release
    <3>3. QED
      BY <1>1, <1>3, <3>1, <3>2 DEF Drop, IInv, TypeOK, Counters
  <2>4. Owned'
    BY <1>3, <2>1, <2>2 DEF Drop, IInv, Owned
  <2>5. Faithful'
    <3>1. tables[i].block \in DOMAIN schema => ~OfLine(tables[i].block)
      BY <1>3, <2>1 DEF Drop, IInv, Faithful, OfLine
    <3>2. \A n \in DOMAIN schema :
            OfLine(n) => \E j \in Held' : tables[j].block = n
      BY <1>1, <2>1, <3>1 DEF IInv, Faithful
    <3>3. QED
      BY <1>1, <1>3, <2>1, <3>2
      DEF Drop, IInv, Faithful, OfLine, IsGraphTable, HasId
  <2>6. QED
    BY <2>3, <2>4, <2>5 DEF IInv
<1>4. CASE EndFilter
  <2>1. Held' = Held /\ Held = 1 .. nkept
    BY <1>1, <1>2, <1>4 DEF EndFilter, Held
  <2>2. TypeOK' /\ Counters'
    BY <1>1, <1>4 DEF EndFilter, IInv, TypeOK, Counters
  <2>3. Owned'
    BY <1>4, <2>1 DEF EndFilter, IInv, Owned
  <2>4. Faithful'
    BY <1>1, <1>4, <2>1 DEF EndFilter, IInv, Faithful, OfLine, IsGraphTable, HasId
  <2>5. QED
    BY <2>2, <2>3, <2>4 DEF IInv
<1>5. QED
  BY <1>3, <1>4

\* Releasing the catalog.
LEMMA FreeStep ==
  ASSUME IInv, StartFree \/ FreeTable \/ EndFree
  PROVE  IInv'
<1>1. /\ i \in Nat \ {0} /\ nkept \in Nat /\ live \subseteq Nat
      /\ tables \in Seq(Tables) /\ ntables \in 0 .. Len(tables)
      /\ pc \in {"loaded", "free"}
  BY DEF IInv, TypeOK, StartFree, FreeTable, EndFree
<1>2. CASE StartFree
  <2>1. Held' = Held
    BY <1>1, <1>2 DEF StartFree, Held
  <2>2. TypeOK' /\ Counters'
    BY <1>1, <1>2 DEF StartFree, IInv, TypeOK, Counters
  <2>3. Owned'
    BY <1>2, <2>1 DEF StartFree, IInv, Owned
  <2>4. Faithful'
    BY <1>2, <2>1 DEF StartFree, IInv, Faithful
  <2>5. QED
    BY <2>2, <2>3, <2>4 DEF IInv
<1>3. CASE FreeTable
  <2>1. i \in Held /\ Held' = Held \ {i}
    BY <1>1, <1>3 DEF FreeTable, Held
  <2>2. live' = {tables[m].block : m \in Held \ {i}} /\ ~fault'
    BY <1>3, <2>1, ReleaseOwned DEF FreeTable
  <2>3. TypeOK' /\ Counters'
    <3>1. live' \subseteq Nat
      BY <1>3 DEF FreeTable, Release, IInv, TypeOK
    <3>2. fault' \in BOOLEAN
      BY <1>3 DEF FreeTable, Release
    <3>3. QED
      BY <1>1, <1>3, <3>1, <3>2 DEF FreeTable, IInv, TypeOK, Counters
  <2>4. Owned'
    BY <1>3, <2>1, <2>2 DEF FreeTable, IInv, Owned
  <2>5. Faithful'
    BY <1>3, <2>1 DEF FreeTable, IInv, Faithful
  <2>6. QED
    BY <2>3, <2>4, <2>5 DEF IInv
<1>4. CASE EndFree
  <2>1. Held' = {} /\ Held = {}
    BY <1>1, <1>4 DEF EndFree, Held, IInv, Counters
  <2>2. TypeOK' /\ Counters'
    BY <1>1, <1>4 DEF EndFree, IInv, TypeOK, Counters
  <2>3. Owned'
    BY <1>4, <2>1 DEF EndFree, IInv, Owned
  <2>4. Faithful'
    BY <1>4, <2>1 DEF EndFree, Faithful
  <2>5. QED
    BY <2>2, <2>3, <2>4 DEF IInv
<1>5. QED
  BY <1>2, <1>3, <1>4

\* Every step keeps the invariant.
LEMMA CatalogStep == IInv /\ [Next]_vars => IInv'
<1> SUFFICES ASSUME IInv, [Next]_vars PROVE IInv'
  OBVIOUS
<1>1. CASE SkipLine \/ AddTable \/ EndRead
  BY <1>1, ReadStep
<1>2. CASE Keep
  BY <1>2, KeepStep
<1>3. CASE Drop \/ EndFilter
  BY <1>3, DropStep
<1>4. CASE StartFree \/ FreeTable \/ EndFree
  BY <1>4, FreeStep
<1>5. CASE UNCHANGED vars
  <2>1. Held' = Held
    BY <1>5 DEF vars, Held
  <2>2. QED
    BY <1>5, <2>1
    DEF vars, IInv, TypeOK, Counters, Owned, Faithful, OfLine, IsGraphTable, HasId
<1>6. QED
  BY <1>1, <1>2, <1>3, <1>4, <1>5 DEF Next

\* The catalog's inductive invariant holds throughout.
LEMMA CatalogInvariant == Spec => []IInv
BY CatalogInitial, CatalogStep, PTL DEF Spec

-----------------------------------------------------------------------------
(* What follows *)

\* catalog.c:34-69: the array, its counters and the blocks keep their types,
\* for every schema.
THEOREM CatalogTypeCorrect == Spec => []TypeOK
<1>1. IInv => TypeOK
  BY DEF IInv
<1>2. QED
  BY <1>1, CatalogInvariant, PTL

\* catalog.c:128-155: no string of a table is released twice, however the
\* tables were moved before.
THEOREM CatalogNoDoubleFree == Spec => []NoDoubleFree
<1>1. IInv => NoDoubleFree
  BY DEF IInv, Owned, NoDoubleFree
<1>2. QED
  BY <1>1, CatalogInvariant, PTL

\* catalog.h:16: a loaded catalog holds the strings of its tables and no
\* others, a released one none.
THEOREM CatalogNothingLeaks == Spec => []NothingLeaks
<1>1. IInv => NothingLeaks
  BY DEF IInv, Owned, NothingLeaks, Held
<1>2. QED
  BY <1>1, CatalogInvariant, PTL

\* catalog.h:44-47: a name finds the first line of the schema that makes it a
\* table of the graph.
THEOREM CatalogFindsFirst == Spec => []FindsFirstGraphLine
<1>1. ASSUME IInv, pc = "loaded", NEW name \in Names,
             NEW lines, lines = {n \in DOMAIN schema :
                                   /\ schema[n] # NULL /\ schema[n].name = name
                                   /\ IsGraphTable(Table(n, schema[n]))}
      PROVE  IF lines = {} THEN Find(name) = 0
             ELSE \E n \in lines :
                    /\ \A m \in lines : n <= m
                    /\ Find(name) # 0
                    /\ tables[Find(name)] = Table(n, schema[n])
  <2> DEFINE hits == {j \in 1 .. ntables : tables[j].name = name}
  <2>1. Held = 1 .. ntables /\ ntables = nkept /\ ntables \in Nat
    BY <1>1 DEF IInv, TypeOK, Counters, Held
  <2>2. \A n : Table(n, schema[n]).block = n
               /\ Table(n, schema[n]).name = schema[n].name
    BY DEF Table
  <2>3. \A j \in hits : tables[j].block \in lines
                        /\ tables[j] = Table(tables[j].block, schema[tables[j].block])
    BY <1>1, <2>1, <2>2 DEF IInv, Faithful
  <2>4. \A n \in lines : \E j \in hits : tables[j].block = n
    <3>1. TAKE n \in lines
    <3>2. PICK j \in Held : tables[j].block = n
      BY <1>1 DEF IInv, Faithful, OfLine
    <3>3. tables[j] = Table(n, schema[n])
      BY <1>1, <3>2 DEF IInv, Faithful
    <3>4. QED
      BY <1>1, <2>1, <2>2, <3>2, <3>3
  <2>5. CASE lines = {}
    BY <2>3, <2>5 DEF Find
  <2>6. CASE lines # {}
    <3>1. \E j \in hits : \A m \in hits : j <= m
      <4>1. hits \in SUBSET (1 .. ntables) /\ hits # {}
        BY <2>4, <2>6
      <4> HIDE DEF hits
      <4>2. QED
        BY <2>1, <4>1, FirstExists
    <3>2. Find(name) \in hits /\ \A m \in hits : Find(name) <= m
      BY <3>1 DEF Find
    <3>3. \A m \in hits : tables[Find(name)].block <= tables[m].block
      <4>1. \A j \in hits : j \in Held /\ j \in Nat /\ tables[j].block \in Nat
        BY <1>1, <2>1, <2>3
        DEF IInv, TypeOK
      <4>2. QED
        BY <1>1, <3>2, <4>1 DEF IInv, Owned
    <3>4. QED
      BY <2>1, <2>3, <2>4, <2>6, <3>2, <3>3
  <2>7. QED
    BY <2>5, <2>6
<1>2. IInv => FindsFirstGraphLine
  BY <1>1 DEF FindsFirstGraphLine
<1>3. QED
  BY <1>2, CatalogInvariant, PTL

-----------------------------------------------------------------------------
(* SqlBuf *)

\* The capacity asked for is the first one, or less than twice what is needed.
Tight(c) == c <= Initial \/ c < 2 * (len + Len(pending) + 1)

\* The inductive invariant: BufTypeOK, Fits and Terminated, that the call in
\* progress fits the memory there is, and how far reserve's loop has come.
Calling ==
  /\ len + Len(pending) <= MaxText
  /\ step = "idle" => pending = <<>>
  /\ step # "idle" => pending \in Pieces
  /\ cap = 0 => len = 0
  /\ Tight(cap)
  /\ step = "grow" => want > 0 /\ want >= cap /\ Tight(want)

BufInv == BufTypeOK /\ Fits /\ Terminated /\ Calling

\* A text's length is a number, and a call never wraps size_t: nothing is lost
\* in need = len + extra + 1, nor in doubling a capacity that is too small.
LEMMA NoWrap ==
  ASSUME BufInv
  PROVE  /\ Len(pending) \in Nat
         /\ Need(pending) = len + Len(pending) + 1
         /\ want < Need(pending) => Wrap(want * 2) = 2 * want
<1>1. Len(pending) \in Nat /\ len \in Nat /\ want \in Nat
  BY DEF BufInv, BufTypeOK
<1>2. len + Len(pending) + 1 <= MaxText + 1
  BY <1>1, SizeAssumption DEF BufInv, Calling
<1>3. len + Len(pending) + 1 < SizeMax
  BY <1>1, <1>2, SizeAssumption
<1>4. Need(pending) = len + Len(pending) + 1
  BY <1>3 DEF Need, Wrap
<1>5. want < Need(pending) => want * 2 < SizeMax
  BY <1>1, <1>2, <1>4, SizeAssumption
<1> QED  BY <1>1, <1>4, <1>5 DEF Wrap

\* BufInv holds of a buffer just initialised.
LEMMA BufInitial == BufInit => BufInv
<1> SUFFICES ASSUME BufInit PROVE BufInv  OBVIOUS
<1>1. BufTypeOK
  BY DEF BufInit, BufTypeOK, Null, Memory
<1>2. Fits /\ Terminated
  BY DEF BufInit, Fits, Terminated
<1>3. Calling
  BY SizeAssumption DEF BufInit, Calling, Tight
<1> QED  BY <1>1, <1>2, <1>3 DEF BufInv

\* The entry of an append keeps it,
LEMMA BufCall == ASSUME BufInv, NEW s \in Pieces, Call(s) PROVE BufInv'
<1> USE DEF Call
<1>1. s \in Seq(Chars) /\ Len(s) \in Nat
  BY BytesAssumption
<1>2. BufTypeOK'
  BY <1>1, SizeAssumption DEF BufInv, BufTypeOK, Memory
<1>3. Terminated'
  BY DEF BufInv, Terminated
<1>4. Len(pending) = 0
  BY DEF BufInv, Calling
<1>5. len + Len(s) + 1 < SizeMax
  BY <1>1, SizeAssumption DEF BufInv, BufTypeOK
<1>6. Need(s) = len + Len(s) + 1
  BY <1>5 DEF Need, Wrap
<1>7. Fits'
  BY <1>1, <1>6 DEF BufInv, BufTypeOK, Fits
<1>8. Calling'
  BY <1>1, <1>4, SizeAssumption DEF BufInv, BufTypeOK, Calling, Tight
<1> QED  BY <1>2, <1>3, <1>7, <1>8 DEF BufInv

\* the doubling of the capacity,
LEMMA BufDouble == ASSUME BufInv, Double PROVE BufInv'
<1> USE DEF Double
<1>1. want' = 2 * want /\ want < len + Len(pending) + 1 /\ Len(pending) \in Nat
  BY NoWrap
<1>2. BufTypeOK'
  BY <1>1 DEF BufInv, BufTypeOK, Memory
<1>3. Fits' /\ Terminated'
  BY DEF BufInv, Fits, Terminated
<1>4. Calling'
  BY <1>1 DEF BufInv, BufTypeOK, Calling, Tight
<1> QED  BY <1>2, <1>3, <1>4 DEF BufInv

\* the reallocation, granted or refused,
LEMMA BufRealloc == ASSUME BufInv, Realloc PROVE BufInv'
<1> USE DEF Realloc
<1>1. want >= len + Len(pending) + 1 /\ Len(pending) \in Nat /\ want \in Nat /\ len \in Nat
  BY NoWrap DEF BufInv, BufTypeOK
<1>2. data \in [0 .. cap - 1 -> Chars \cup {NUL, JUNK}]
  BY DEF BufInv, BufTypeOK, Memory
<1>3. BufTypeOK'
  BY <1>1, <1>2 DEF BufInv, BufTypeOK, Memory
<1>4. Fits'
  BY <1>1 DEF Fits
<1>5. Terminated'
  <2> SUFFICES ASSUME NEW n \in 0 .. len - 1 PROVE data'[n] \in Chars
    BY DEF Terminated
  <2>1. cap > 0 /\ n \in 0 .. cap - 1
    BY <1>1 DEF BufInv, BufTypeOK, Fits, Calling
  <2>2. data'[n] = data[n]
    BY <1>1, <1>2, <2>1
  <2> QED  BY <2>1, <2>2 DEF BufInv, Terminated
<1>6. Calling'
  BY <1>1 DEF BufInv, BufTypeOK, Calling, Tight
<1> QED  BY <1>3, <1>4, <1>5, <1>6 DEF BufInv

\* the copy and the terminator,
LEMMA BufWrite == ASSUME BufInv, Write PROVE BufInv'
<1> USE DEF Write
<1>1. /\ len \in Nat /\ cap \in Nat /\ Len(pending) \in Nat
      /\ len + Len(pending) < cap /\ cap' = cap
      /\ data \in [0 .. cap - 1 -> Chars \cup {NUL, JUNK}]
      /\ pending \in Seq(Chars)
  BY DEF BufInv, BufTypeOK, Memory, Fits
<1>2. \A n \in 0 .. len' - 1 : data'[n] \in Chars
  <2> SUFFICES ASSUME NEW n \in 0 .. len' - 1 PROVE data'[n] \in Chars  OBVIOUS
  <2>1. n \in 0 .. cap - 1
    BY <1>1
  <2>2. CASE n >= len
    <3>1. n \in len .. len + Len(pending) - 1 /\ n - len + 1 \in 1 .. Len(pending)
      BY <1>1, <2>2
    <3> QED  BY <1>1, <2>1, <3>1
  <2>3. CASE n < len
    <3>1. data'[n] = data[n]
      BY <1>1, <2>1, <2>3
    <3> QED  BY <1>1, <2>3, <3>1 DEF BufInv, Terminated
  <2> QED  BY <1>1, <2>2, <2>3
<1>3. data'[len'] = NUL
  BY <1>1
<1>4. \A n \in 0 .. cap - 1 : data'[n] \in Chars \cup {NUL, JUNK}
  <2> SUFFICES ASSUME NEW n \in 0 .. cap - 1 PROVE data'[n] \in Chars \cup {NUL, JUNK}
    OBVIOUS
  <2>1. CASE n < len'
    BY <1>1, <1>2, <2>1
  <2>2. CASE n = len'
    BY <1>3, <2>2
  <2>3. CASE n > len'
    BY <1>1, <2>3
  <2> QED  BY <1>1, <2>1, <2>2, <2>3
<1>5. BufTypeOK'
  BY <1>1, <1>4 DEF BufInv, BufTypeOK, Memory
<1>6. Fits' /\ Terminated'
  BY <1>1, <1>2, <1>3 DEF Fits, Terminated
<1>7. Calling'
  BY <1>1 DEF BufInv, Calling, Tight
<1> QED  BY <1>5, <1>6, <1>7 DEF BufInv

\* What a reader of the buffer sees is its contents: the first NUL of the
\* memory is the one behind the text.
LEMMA ContentsRead == ASSUME BufInv, step = "idle", cap > 0 PROVE CString(data) = Contents
<1>1. len \in Nat /\ cap \in Nat /\ len < cap /\ DOMAIN data = 0 .. cap - 1
  BY DEF BufInv, BufTypeOK, Memory, Fits
<1>2. data[len] = NUL /\ \A n \in 0 .. len - 1 : data[n] # NUL
  BY BytesAssumption DEF BufInv, Terminated
<1> DEFINE Ends(n) == data[n] = NUL /\ \A k \in 0 .. n - 1 : data[k] # NUL
<1>3. len \in DOMAIN data /\ Ends(len)
  BY <1>1, <1>2
<1>4. \A n \in DOMAIN data : Ends(n) => n = len
  BY <1>1, <1>2
<1>5. (CHOOSE n \in DOMAIN data : Ends(n)) = len
  BY <1>3, <1>4
<1> QED  BY <1>5 DEF CString, Contents

\* The contents are a text of len characters.
LEMMA ContentsType == ASSUME BufInv PROVE Contents \in Seq(Chars) /\ Len(Contents) = len
<1>1. len \in Nat
  BY DEF BufInv, BufTypeOK
<1>2. \A n \in 1 .. len : data[n - 1] \in Chars
  <2> SUFFICES ASSUME NEW n \in 1 .. len PROVE data[n - 1] \in Chars  OBVIOUS
  <2>1. cap > 0 /\ n - 1 \in 0 .. len - 1
    BY <1>1 DEF BufInv, BufTypeOK, Calling
  <2> QED  BY <2>1 DEF BufInv, Terminated
<1> QED  BY <1>1, <1>2 DEF Contents

\* an emptied buffer,
LEMMA BufRelease ==
  ASSUME BufInv, step = "idle", step' = "idle", data' = Null, len' = 0, cap' = 0,
         pending' = pending, want' = want, taken' \in Seq(Chars)
  PROVE  BufInv'
<1>1. BufTypeOK'
  BY DEF BufInv, BufTypeOK, Memory, Null
<1>2. Fits' /\ Terminated'
  BY DEF Fits, Terminated
<1>3. Calling'
  BY SizeAssumption DEF BufInv, BufTypeOK, Calling, Tight
<1> QED  BY <1>1, <1>2, <1>3 DEF BufInv

\* and the handing over of its text.
LEMMA BufDetach == ASSUME BufInv, Detach PROVE BufInv'
<1>1. taken' \in Seq(Chars)
  <2>1. CASE cap = 0
    BY <2>1 DEF Detach
  <2>2. CASE cap # 0
    BY <2>2, ContentsRead, ContentsType DEF Detach, BufInv, BufTypeOK
  <2> QED  BY <2>1, <2>2
<1> QED  BY <1>1, BufRelease DEF Detach

\* Every step keeps BufInv,
LEMMA BufKept == BufInv /\ [BufNext]_bufVars => BufInv'
<1> SUFFICES ASSUME BufInv, [BufNext]_bufVars PROVE BufInv'  OBVIOUS
<1>1. CASE \E s \in Pieces : Call(s)
  BY <1>1, BufCall
<1>2. CASE Double
  BY <1>2, BufDouble
<1>3. CASE Realloc
  BY <1>3, BufRealloc
<1>4. CASE Oom
  BY <1>4 DEF Oom, BufInv, BufTypeOK, Memory, Fits, Terminated, Calling, Tight
<1>5. CASE Write
  BY <1>5, BufWrite
<1>6. CASE Detach
  BY <1>6, BufDetach
<1>7. CASE Free
  BY <1>7, BufRelease DEF Free, BufInv, BufTypeOK
<1>8. CASE UNCHANGED bufVars
  BY <1>8 DEF bufVars, BufInv, BufTypeOK, Memory, Fits, Terminated, Calling, Tight
<1> QED  BY <1>1, <1>2, <1>3, <1>4, <1>5, <1>6, <1>7, <1>8 DEF BufNext

\* so it holds throughout.
LEMMA BufInvariant == BufSpec => []BufInv
  BY BufInitial, BufKept, PTL DEF BufSpec

\* Every variable keeps its type: the memory is always cap bytes long.
THEOREM BufTypeCorrect == BufSpec => []BufTypeOK
<1>1. BufInv => BufTypeOK
  BY DEF BufInv
<1> QED  BY <1>1, BufInvariant, PTL

\* No write of an append passes the end of the memory reserve has made.
THEOREM NeverOverruns == BufSpec => []Fits
<1>1. BufInv => Fits
  BY DEF BufInv
<1> QED  BY <1>1, BufInvariant, PTL

\* The memory is a C string of exactly the text appended.
THEOREM AlwaysTerminated == BufSpec => []Terminated
<1>1. BufInv => Terminated
  BY DEF BufInv
<1> QED  BY <1>1, BufInvariant, PTL

\* Doubling wastes at most half of the memory.
THEOREM NeverWasteful == BufSpec => []NoWaste
<1>1. BufInv => NoWaste
  <2> SUFFICES ASSUME BufInv, step = "idle" PROVE cap <= Initial \/ cap < 2 * (len + 1)
    BY DEF NoWaste
  <2>1. Len(pending) = 0 /\ Tight(cap)
    BY DEF BufInv, Calling
  <2> QED  BY <2>1 DEF Tight, BufInv, BufTypeOK
<1> QED  BY <1>1, BufInvariant, PTL
-----------------------------------------------------------------------------

\* Two sequences of the same length with the same elements are equal.
LEMMA SameElements ==
  ASSUME NEW S, NEW s \in Seq(S), NEW t \in Seq(S), Len(s) = Len(t),
         \A n \in 1 .. Len(s) : s[n] = t[n]
  PROVE  s = t
  OBVIOUS

\* A write adds the pending text to the contents, wherever it landed.
LEMMA WriteGrows == ASSUME BufInv, Write PROVE Abstract!Grow(pending)
<1> USE DEF Write
<1>1. /\ len \in Nat /\ cap \in Nat /\ Len(pending) \in Nat
      /\ len + Len(pending) < cap
      /\ DOMAIN data = 0 .. cap - 1
      /\ pending \in Seq(Chars)
  BY DEF BufInv, BufTypeOK, Memory, Fits
<1>2. Contents \in Seq(Chars) /\ Len(Contents) = len
  BY ContentsType
<1>3. Contents' = [n \in 1 .. len + Len(pending) |-> data'[n - 1]]
  BY DEF Contents
<1>4. /\ Contents \o pending \in Seq(Chars)
      /\ Len(Contents \o pending) = len + Len(pending)
      /\ \A n \in 1 .. len + Len(pending) : (Contents \o pending)[n] =
            IF n <= len THEN Contents[n] ELSE pending[n - len]
  BY <1>1, <1>2, ConcatProperties
<1>5. \A n \in 1 .. len + Len(pending) :
        data'[n - 1] = IF n <= len THEN Contents[n] ELSE pending[n - len]
  <2> SUFFICES ASSUME NEW n \in 1 .. len + Len(pending)
               PROVE  data'[n - 1] = IF n <= len THEN Contents[n] ELSE pending[n - len]
    OBVIOUS
  <2>1. n - 1 \in DOMAIN data
    BY <1>1
  <2>2. CASE n <= len
    <3>1. data'[n - 1] = data[n - 1]
      BY <1>1, <2>1, <2>2
    <3> QED  BY <1>1, <2>2, <3>1 DEF Contents
  <2>3. CASE n > len
    <3>1. n - 1 \in len .. len + Len(pending) - 1 /\ (n - 1) - len + 1 = n - len
      BY <1>1, <2>3
    <3> QED  BY <1>1, <2>1, <2>3, <3>1
  <2> QED  BY <1>1, <2>2, <2>3
<1>6. Contents' = Contents \o pending
  <2>1. Contents' \in Seq(Chars) /\ Len(Contents') = len + Len(pending)
    <3>1. \A n \in 1 .. len + Len(pending) : data'[n - 1] \in Chars
      <4>1. Terminated' /\ cap' > 0
        BY <1>1, BufWrite DEF BufInv
      <4>2. ASSUME NEW n \in 1 .. len + Len(pending) PROVE data'[n - 1] \in Chars
        <5>1. n - 1 \in 0 .. len' - 1
          BY <1>1
        <5> HIDE DEF Write
        <5> QED  BY <4>1, <5>1 DEF Terminated
      <4> QED  BY <4>2
    <3> QED  BY <1>1, <1>3, <3>1
  <2>2. \A n \in 1 .. len + Len(pending) : Contents'[n] = (Contents \o pending)[n]
    BY <1>3, <1>4, <1>5
  <2> HIDE DEF Write
  <2> QED  BY <1>4, <2>1, <2>2, SameElements
<1>7. Len(Contents) + Len(pending) <= MaxText
  BY <1>2 DEF BufInv, Calling
<1> QED  BY <1>6, <1>7 DEF Abstract!Grow

\* A reallocation moves the contents and changes none of them.
LEMMA ReallocKeeps == ASSUME BufInv, Realloc PROVE Contents' = Contents
<1> USE DEF Realloc
<1>1. /\ len \in Nat /\ cap \in Nat /\ want \in Nat /\ Len(pending) \in Nat
      /\ want >= len + Len(pending) + 1 /\ DOMAIN data = 0 .. cap - 1
  BY NoWrap DEF BufInv, BufTypeOK, Memory
<1>2. \A n \in 1 .. len : data'[n - 1] = data[n - 1]
  <2> SUFFICES ASSUME NEW n \in 1 .. len PROVE data'[n - 1] = data[n - 1]  OBVIOUS
  <2>1. cap > 0
    BY <1>1 DEF BufInv, Calling
  <2>2. n - 1 \in 0 .. cap - 1 /\ n - 1 \in 0 .. want - 1
    BY <1>1, <2>1 DEF BufInv, Fits
  <2> QED  BY <1>1, <2>2
<1> QED  BY <1>2 DEF Contents

\* With no characters there are no contents, whatever the memory was.
LEMMA EmptyContents == len = 0 => Contents = <<>>
  BY DEF Contents

\* Every step of the buffer is a step of the text of its interface: the write
\* of an append grows it, detach takes it, free drops it, and the steps of
\* reserve leave it alone.
LEMMA StepIsText ==
  BufInv /\ [BufNext]_bufVars => [Abstract!Next]_<<Contents, taken>>
<1> SUFFICES ASSUME BufInv, [BufNext]_bufVars
             PROVE  [Abstract!Next]_<<Contents, taken>>
  OBVIOUS
<1>1. CASE \E s \in Pieces : Call(s)
  <2>1. Contents' = Contents /\ taken' = taken
    BY <1>1 DEF Call, Contents
  <2> QED  BY <2>1
<1>2. CASE Double
  <2>1. Contents' = Contents /\ taken' = taken
    BY <1>2 DEF Double, Contents
  <2> QED  BY <2>1
<1>3. CASE Realloc
  <2>1. Contents' = Contents /\ taken' = taken
    BY <1>3, ReallocKeeps DEF Realloc
  <2> QED  BY <2>1
<1>4. CASE Oom
  <2>1. Contents' = Contents /\ taken' = taken
    BY <1>4 DEF Oom, Contents
  <2> QED  BY <2>1
<1>5. CASE Write
  <2>1. pending \in Pieces
    BY <1>5 DEF Write, BufInv, Calling
  <2> QED  BY <1>5, <2>1, WriteGrows DEF Abstract!Next
<1>6. CASE Detach
  <2>1. Contents' = <<>>
    BY <1>6 DEF Detach, Contents
  <2>2. taken' = Contents
    <3>1. CASE cap = 0
      BY <1>6, <3>1, EmptyContents DEF Detach, BufInv, Calling
    <3>2. CASE cap # 0
      BY <1>6, <3>2, ContentsRead DEF Detach, BufInv, BufTypeOK
    <3> QED  BY <3>1, <3>2
  <2> QED  BY <2>1, <2>2 DEF Abstract!Next, Abstract!Take
<1>7. CASE Free
  <2>1. Contents' = <<>> /\ taken' = taken
    BY <1>7 DEF Free, Contents
  <2> QED  BY <2>1 DEF Abstract!Next, Abstract!Drop
<1>8. CASE UNCHANGED bufVars
  <2>1. Contents' = Contents /\ taken' = taken
    BY <1>8 DEF bufVars, Contents
  <2> QED  BY <2>1
<1> QED  BY <1>1, <1>2, <1>3, <1>4, <1>5, <1>6, <1>7, <1>8 DEF BufNext

\* The buffer implements the text sqlbuf.h promises: the pieces one behind the
\* other, and detach hands over all of them.
THEOREM Implements == BufSpec => IsText
<1>1. BufInit => Abstract!Init
  BY EmptyContents DEF BufInit, Abstract!Init
<1> QED  BY <1>1, StepIsText, BufInvariant, PTL DEF BufSpec, IsText, Abstract!Spec
=============================================================================
