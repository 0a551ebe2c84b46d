------------------------------- MODULE Names --------------------------------
(***************************************************************************)
(* The name map of names.c, on characters: names_parse cuts a              *)
(* specification at newlines and ';' and reads each piece into an entry,   *)
(* names_resolve scans the entries for a label.                            *)
(***************************************************************************)
EXTENDS NameMaps, FiniteSetsExt

CONSTANTS
  Letters,    \* the characters that mean nothing to the parser
  Labels,     \* the labels to resolve
  Specs       \* the specifications a run starts from

Separators == {"\n", ";"}
Leading == {" ", "\t"}                  \* what trim skips at the front
Trailing == {" ", "\t", "\r", "\n"}     \* and takes off the end
Chars == Letters \cup Separators \cup Trailing \cup {"="}
Spellings == Seq(Chars) \ {<<>>}
Entries == [table : Spellings, name : Spellings]

ASSUME NamesAssumption ==
  /\ NULL \notin Spellings /\ NULL \notin Entries
  /\ Labels \subseteq Spellings /\ Specs \subseteq Seq(Chars)

VARIABLES
  pc,       \* "parse", "scan", "done" or "rejected"
  spec,     \* the specification being read
  p,        \* where its next piece starts
  map,      \* the entries read so far
  label,    \* the label to resolve
  i,        \* the entry names_resolve looks at next
  asTable,  \* the last entry whose table is the label, or NULL
  asName,   \* the last entry whose name is the label, or NULL
  result    \* what names_resolve returned, NULL before it has

vars == <<pc, spec, p, map, label, i, asTable, asName, result>>
scanVars == <<label, i, asTable, asName, result>>

Init ==
  /\ spec \in Specs /\ label \in Labels \cup {NULL}
  /\ pc = "parse" /\ p = 1 /\ map = <<>>
  /\ i = 1 /\ asTable = NULL /\ asName = NULL /\ result = NULL

-----------------------------------------------------------------------------
(* names_parse *)

\* The first place from k on with one of cs, or the end of the text.
Find(s, k, cs) ==
  Min({j \in DOMAIN s : j >= k /\ s[j] \in cs} \cup {Len(s) + 1})

\* A mutant of Trim: the end of a line of a DOS file is kept.
TrimUnix(s) ==
  LET first == Min({j \in DOMAIN s : s[j] \notin Leading} \cup {Len(s) + 1})
      last == Max({j \in first .. Len(s) : s[j] \notin Leading} \cup {first - 1})
  IN SubSeq(s, first, last)

Trim(s) ==
  LET first == Min({j \in DOMAIN s : s[j] \notin Leading} \cup {Len(s) + 1})
      last == Max({j \in first .. Len(s) : s[j] \notin Trailing} \cup {first - 1})
  IN SubSeq(s, first, last)

\* The entry that starts at p, up to the next separator.
PieceEnd == Find(spec, p, Separators)
Entry == Trim(SubSeq(spec, p, PieceEnd - 1))
EqualsAt == Find(Entry, 1, {"="})
Table == Trim(SubSeq(Entry, 1, EqualsAt - 1))
Name == Trim(SubSeq(Entry, EqualsAt + 1, Len(Entry)))

\* Mutants of WellFormed: the empty-name check dropped; and an entry cut at
\* every "=" instead of the first.
WellFormedLax == EqualsAt <= Len(Entry) /\ Table # <<>>
WellFormedTwo ==
  /\ EqualsAt <= Len(Entry) /\ Table # <<>> /\ Name # <<>>
  /\ Find(Name, 1, {"="}) > Len(Name)

\* parse_entry's verdict: an entry has a '=' and both sides.
WellFormed == EqualsAt <= Len(Entry) /\ Table # <<>> /\ Name # <<>>

AtPiece == pc = "parse" /\ p <= Len(spec)

SkipBlank ==
  /\ AtPiece /\ Entry = <<>>
  /\ p' = PieceEnd + 1
  /\ UNCHANGED <<pc, spec, map, scanVars>>

AddEntry ==
  /\ AtPiece /\ WellFormed
  /\ map' = Append(map, [table |-> Table, name |-> Name])
  /\ p' = PieceEnd + 1
  /\ UNCHANGED <<pc, spec, scanVars>>

\* A malformed entry abandons the parse; the entries read are freed.
RejectEntry ==
  /\ AtPiece /\ Entry # <<>> /\ ~WellFormed
  /\ pc' = "rejected" /\ map' = <<>>
  /\ UNCHANGED <<spec, p, scanVars>>

FinishParse ==
  /\ pc = "parse" /\ p > Len(spec)
  /\ pc' = "scan"
  /\ UNCHANGED <<spec, p, map, scanVars>>

-----------------------------------------------------------------------------
(* names_resolve *)

\* It returns at once when there is no label.
NoLabel ==
  /\ pc = "scan" /\ label = NULL
  /\ pc' = "done" /\ result' = Resolved(NULL, NULL)
  /\ UNCHANGED <<spec, p, map, label, i, asTable, asName>>

\* Mutants of ScanEntry: the first hit is kept instead of the last; and the
\* name reading is looked for only while there is no table reading.
ScanEntryFirst ==
  /\ pc = "scan" /\ label # NULL /\ i <= Len(map)
  /\ asTable' = IF map[i].table = label /\ asTable = NULL
                THEN map[i] ELSE asTable
  /\ asName'  = IF map[i].name = label THEN map[i] ELSE asName
  /\ i' = i + 1
  /\ UNCHANGED <<pc, spec, p, map, label, result>>
ScanEntryElse ==
  /\ pc = "scan" /\ label # NULL /\ i <= Len(map)
  /\ asTable' = IF map[i].table = label THEN map[i] ELSE asTable
  /\ asName'  = IF map[i].table # label /\ asTable = NULL
                   /\ map[i].name = label
                THEN map[i] ELSE asName
  /\ i' = i + 1
  /\ UNCHANGED <<pc, spec, p, map, label, result>>

ScanEntry ==
  /\ pc = "scan" /\ label # NULL /\ i <= Len(map)
  /\ asTable' = IF map[i].table = label THEN map[i] ELSE asTable
  /\ asName'  = IF map[i].name = label THEN map[i] ELSE asName
  /\ i' = i + 1
  /\ UNCHANGED <<pc, spec, p, map, label, result>>

\* A mutant of Decide: two readings that agree are rejected too.
DecideStrict ==
  /\ pc = "scan" /\ label # NULL /\ i > Len(map)
  /\ result' = IF asTable # NULL /\ asName # NULL
               THEN Rejected ELSE Choice(label, asTable, asName)
  /\ pc' = "done"
  /\ UNCHANGED <<spec, p, map, label, i, asTable, asName>>

Decide ==
  /\ pc = "scan" /\ label # NULL /\ i > Len(map)
  /\ result' = Choice(label, asTable, asName)
  /\ pc' = "done"
  /\ UNCHANGED <<spec, p, map, label, i, asTable, asName>>

Next ==
  \/ SkipBlank \/ AddEntry \/ RejectEntry \/ FinishParse
  \/ NoLabel \/ ScanEntry \/ Decide

Spec == Init /\ [][Next]_vars

-----------------------------------------------------------------------------
(* Properties *)

\* Every variable keeps its type.
TypeOK ==
  /\ pc \in {"parse", "scan", "done", "rejected"}
  /\ spec \in Seq(Chars) /\ p \in Nat \ {0}
  /\ map \in Seq(Entries)
  /\ label \in Labels \cup {NULL} /\ i \in Nat \ {0}
  /\ asTable \in Entries \cup {NULL} /\ asName \in Entries \cup {NULL}
  /\ result = NULL
       \/ result \in [ok : BOOLEAN, table : Spellings \cup {NULL},
                                    name : Spellings \cup {NULL}]

\* The entries of a map before position k.
Seen(m, k) == {j \in DOMAIN m : j < k}

\* The answer of names_resolve is the meaning of the map for that label.
ResolveCorrect == pc = "done" => result = Resolution(map, label)

\* names.h:14-20 for a map that lists every table and every command name
\* once: an answer is the only entry either spelling of the label can mean,
\* and a label is rejected exactly when two entries claim it.
NeverGuesses ==
  pc = "done" /\ label # NULL /\ OneToOne(map) =>
    LET hits == TableHits(map, label) \cup NameHits(map, label)
        claims == {map[j] : j \in hits}
    IN CASE claims = {} -> result = Resolved(label, label)
         [] \E e \in claims : claims = {e} ->
              \E e \in claims : result = Resolved(e.table, e.name)
         [] OTHER -> result = Rejected

\* names.h:15-17, the two spellings of one entry have the same answer: if the
\* label is answered by an entry, resolving either of that entry's spellings
\* gives the same answer or is rejected, it never reaches another table.
SpellingsAgree ==
  pc = "done" /\ OneToOne(map) /\ result.ok /\ label # NULL =>
    \A s \in {result.table, result.name} :
      Resolution(map, s) \in {result, Rejected}

\* What a piece of text is, said without the order in which it is cut: t is s
\* without the whitespace around it.
Strips(s, t) ==
  \E first \in 1 .. Len(s) + 1 : \E last \in first - 1 .. Len(s) :
    /\ t = SubSeq(s, first, last)
    /\ \A j \in 1 .. first - 1 : s[j] \in Leading
    /\ \A j \in last + 1 .. Len(s) : s[j] \in Trailing
    /\ t # <<>> => t[1] \notin Leading /\ t[Len(t)] \notin Trailing
IsEntry(s, e) ==
  \E q \in DOMAIN s :
    /\ s[q] = "=" /\ \A j \in 1 .. q - 1 : s[j] # "="
    /\ Strips(SubSeq(s, 1, q - 1), e.table)
    /\ Strips(SubSeq(s, q + 1, Len(s)), e.name)
Malformed(s) ==
  /\ ~Strips(s, <<>>)
  /\ \A q \in DOMAIN s :
       s[q] = "=" /\ (\A j \in 1 .. q - 1 : s[j] # "=") =>
         \/ Strips(SubSeq(s, 1, q - 1), <<>>)
         \/ Strips(SubSeq(s, q + 1, Len(s)), <<>>)

\* The pieces of the specification, by where they start.
Starts == {j \in DOMAIN spec : j = 1 \/ spec[j - 1] \in Separators}
PieceAt(j) == SubSeq(spec, j, Find(spec, j, Separators) - 1)

\* names.h:29-34, "entries separated by newlines or ';', each table=name",
\* trimmed, "and empty entries are ignored": a map is used only if every piece
\* was an entry or blank, and then it holds the entries in their order; it is
\* rejected only for a piece without "=" or with an empty side (names.c:89-90).
MapIsSpec ==
  /\ pc \in {"scan", "done"} =>
       \E at \in [DOMAIN map -> Starts] :
         /\ \A j, k \in DOMAIN map : j < k => at[j] < at[k]
         /\ \A j \in DOMAIN map :
              IsEntry(PieceAt(at[j]), map[j]) /\ map[j] \in Entries
         /\ \A a \in Starts : (\A j \in DOMAIN map : at[j] # a)
              => Strips(PieceAt(a), <<>>)
  /\ pc = "rejected" => \E a \in Starts : Malformed(PieceAt(a))

\* names.h:18-20 without the one-to-one condition: a label that is the table
\* of one entry and the name of a different entry is reported.
AmbiguityReported ==
  pc = "done" /\ label # NULL =>
    ((\E j \in TableHits(map, label), k \in NameHits(map, label) :
        map[j].table # map[k].table /\ map[j].name # map[k].name)
      => ~result.ok)
=============================================================================
