------------------------------ MODULE NameMaps ------------------------------
(***************************************************************************)
(* What a name map means.  names.h describes the map as a list of          *)
(* table=name entries read both ways: a label may be the table of an entry *)
(* or the command name an entry records.  This module states the outcome   *)
(* of resolving a label, without the loop that computes it; Names.tla has  *)
(* the loop, and the translator modules use Resolution as one step.        *)
(***************************************************************************)
EXTENDS Naturals, Sequences

CONSTANT NULL  \* the C null pointer

\* The entries that spell the label as their table, and as their name.
TableHits(map, label) == {i \in DOMAIN map : map[i].table = label}
NameHits(map, label)  == {i \in DOMAIN map : map[i].name = label}

\* The entry the scan is left with: each hit overwrites the one before it.
LastHit(map, hits) ==
  IF hits = {} THEN NULL
               ELSE map[CHOOSE i \in hits : \A j \in hits : j <= i]

Resolved(table, name) == [ok |-> TRUE, table |-> table, name |-> name]
Rejected == [ok |-> FALSE, table |-> NULL, name |-> NULL]

\* A mutant of Choice: the table reading wins over a name reading.
ChoiceGuess(label, asTable, asName) ==
  CASE asTable # NULL -> Resolved(asTable.table, asTable.name)
    [] asTable = NULL /\ asName # NULL ->
         Resolved(asName.table, asName.name)
    [] asTable = NULL /\ asName = NULL -> Resolved(label, label)

\* The choice names_resolve makes between its two readings of the label.
Choice(label, asTable, asName) ==
  CASE asTable # NULL /\ asName # NULL ->
         IF asTable = asName THEN Resolved(asTable.table, asTable.name)
                             ELSE Rejected
    [] asTable # NULL /\ asName = NULL ->
         Resolved(asTable.table, asTable.name)
    [] asTable = NULL /\ asName # NULL ->
         Resolved(asName.table, asName.name)
    [] asTable = NULL /\ asName = NULL -> Resolved(label, label)

Resolution(map, label) ==
  IF label = NULL
  THEN Resolved(NULL, NULL)
  ELSE Choice(label, LastHit(map, TableHits(map, label)),
                     LastHit(map, NameHits(map, label)))

\* A map in which no table and no recorded name has two different entries.
OneToOne(map) ==
  \A i, j \in DOMAIN map :
    (map[i].table = map[j].table \/ map[i].name = map[j].name)
      => map[i] = map[j]
=============================================================================
