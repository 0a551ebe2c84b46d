------------------------------- MODULE Parser -------------------------------
(* cypher_parse: the generated parser run over a text, one scan, shift or    *)
(* reduction at a time, with the strings the scanner allocates (numbered in  *)
(* the order of the text) and who owns each.  The text is settled as it is   *)
(* read: a statement with slips in it, or one written on phrase by phrase.   *)
EXTENDS Grammar, SequencesExt

CONSTANTS
  Statements,     \* the texts a run starts from, as sequences of tokens
  Alphabet,       \* what a slip may put into the text
  MaxSlips,       \* bound: slips (a token put in, replaced, dropped; a cut)
  Phrases,        \* what may be written on at the end of a text without RETURN
  MaxPhrases,     \* bound: phrases written
  CharIsSigned    \* whether the build's char is signed

\* Texts are made of tokens; what the parser makes of them is not in a text.
Written == Alphabet \cup UNION {Range(s) : s \in Statements \cup Phrases}

ASSUME TextAssumption ==
  /\ \A s \in Statements \cup Phrases : s \in Seq(Range(s))
  /\ Written \cap (Lhs(Productions) \cup {End, NONE}) = {}
  /\ MaxSlips \in Nat /\ MaxPhrases \in Nat

VARIABLES
  rest,           \* the text not scanned yet
  slips, phrases, \* how often the text was changed, written on
  stack,          \* the parser's stack: [symbol, value, state]
  look,           \* its lookahead [token, value], or NoToken
  text,           \* the tokens scanned so far
  freed,          \* the strings freed so far, in order
  result,         \* *result
  status          \* "parsing", "accepted", "failed" or "released"

vars == <<rest, slips, phrases, stack, look, text, freed, result, status>>

\* The number of strings the scanner has allocated for a text: each is known
\* by its place among them.
Allocated(tokens) == Cardinality({i \in DOMAIN tokens : tokens[i] \in StringTokens})

NIL == [struct |-> "nil"]
NoToken == [token |-> NONE, value |-> NIL]
Str(n) == [struct |-> "str", id |-> n]

\* The strings freed when a value is destroyed: those its ast_free reaches,
\* which a node keeps with it.
Strings(v) ==
  CASE v.struct = "nil" -> <<>>
    [] v.struct = "str" -> <<v.id>>
    [] OTHER -> v.strings

\* A node, whose ast_free goes through its pointers in the order of Released.
Node(struct, kind, fields) ==
  LET order == Released[struct]
      reached == [i \in DOMAIN order |->
                    IF order[i] \in DOMAIN fields THEN Strings(fields[order[i]]) ELSE <<>>]
  IN  [struct |-> struct, kind |-> kind, fields |-> fields, strings |-> FlattenSeq(reached)]

\* A mutant of Constructed: the query is not built, its first part is.
ConstructedBelow(act, vals) ==
  IF act.struct = "Query" THEN vals[1]
  ELSE Node(act.struct, act.kind,
            [f \in DOMAIN act.fields |-> IF act.fields[f] = 0 THEN NIL ELSE vals[act.fields[f]]])
\* A constructor's node: each of its pointers is one of the values $1..$n.
Constructed(act, vals) ==
  Node(act.struct, act.kind,
       [f \in DOMAIN act.fields |-> IF act.fields[f] = 0 THEN NIL ELSE vals[act.fields[f]]])

\* $i->next = $j.  (A mutant of it: the list is put in front of its element.)
ChainedInFront(v, list) ==
  Node(list.struct, list.kind,
       [f \in DOMAIN list.fields \cup {"next"} |-> IF f = "next" THEN v ELSE list.fields[f]])
Chained(v, list) ==
  Node(v.struct, v.kind,
       [f \in DOMAIN v.fields \cup {"next"} |-> IF f = "next" THEN list ELSE v.fields[f]])

\* $$ of a reduction, from the values of the right-hand side.
Reduction(act, vals) ==
  CASE act.do = "new" -> Constructed(act, vals)
    [] act.do = "same" -> vals[act.from]
    [] act.do = "chain" -> Chained(vals[act.from], vals[act.next])
    [] OTHER -> NIL

\* The strings a reduction frees itself: the hop bounds once read by atoi.
\* (A mutant of it: of two bounds one is freed.)
SpentOne(act, vals) ==
  IF act.do # "spend" THEN <<>> ELSE Strings(vals[Max(act.of)])
Spent(act, vals) ==
  IF act.do # "spend" THEN <<>>
  ELSE FlattenSeq([i \in DOMAIN vals |->
                     IF i \in act.of THEN Strings(vals[i]) ELSE <<>>])

\* The strings a %destructor frees for a symbol popped or discarded.
\* (A mutant of it: tokens only.)
DestructionOfTokens(symbol, value) ==
  IF symbol \in StringTokens THEN Strings(value) ELSE <<>>
Destruction(symbol, value) ==
  IF symbol \in Destructed THEN Strings(value) ELSE <<>>

Top == IF stack = <<>> THEN Start(Cypher) ELSE Last(stack).state

\* Whether the parser is about to ask the scanner for a token.
Asks == status = "parsing" /\ look = NoToken /\ ~Consistent(Cypher, Top)

-----------------------------------------------------------------------------

Init ==
  /\ rest \in Statements
  /\ slips = 0 /\ phrases = 0
  /\ stack = <<>> /\ look = NoToken
  /\ text = <<>> /\ freed = <<>>
  /\ result = NIL
  /\ status = "parsing"

\* The rest of the text is not what the statement says: a token is put in,
\* replaced or dropped, or the text ends here.
Slip ==
  /\ Asks /\ rest # <<>> /\ slips < MaxSlips /\ phrases = 0
  /\ slips' = slips + 1
  /\ \/ \E t \in Alphabet : rest' = <<t>> \o rest
     \/ \E t \in Alphabet : rest' = <<t>> \o Tail(rest)
     \/ rest' = Tail(rest)
     \/ rest' = <<>>
  /\ UNCHANGED <<phrases, stack, look, text, freed, result, status>>

Write ==
  /\ Asks /\ rest = <<>> /\ phrases < MaxPhrases /\ slips = 0
  /\ "RETURN" \notin Range(text)
  /\ phrases' = phrases + 1
  /\ \E p \in Phrases : rest' = p
  /\ UNCHANGED <<slips, stack, look, text, freed, result, status>>

\* yylex: the end of the text is token 0, and so, to the parser, is a byte no
\* rule matches when char is signed and the byte is above 127.
\* (A mutant of it: any such byte.)
TextEndsAtUnknown == IF rest = <<>> THEN TRUE ELSE Head(rest) \in {"?", "HIGH"}
TextEnds == IF rest = <<>> THEN TRUE ELSE Head(rest) = "HIGH" /\ CharIsSigned

ScanEnd ==
  /\ Asks
  /\ TextEnds
  /\ look' = [token |-> End, value |-> NIL]
  /\ UNCHANGED <<rest, slips, phrases, stack, text, freed, result, status>>

ScanToken ==
  /\ Asks /\ ~TextEnds
  /\ rest' = Tail(rest)
  /\ text' = Append(text, Head(rest))
  /\ look' = [token |-> Head(rest),
              value |-> IF Head(rest) \in StringTokens THEN Str(Allocated(text')) ELSE NIL]
  /\ UNCHANGED <<slips, phrases, stack, freed, result, status>>

Acts(decision) ==
  /\ status = "parsing" /\ look # NoToken /\ ~Consistent(Cypher, Top)
  /\ Decision(Cypher, Top, look.token) = decision

Shift ==
  /\ Acts("shift")
  /\ stack' = Append(stack, [symbol |-> look.token, value |-> look.value,
                             state |-> Goto(Cypher, Top, look.token)])
  /\ look' = NoToken
  /\ UNCHANGED <<rest, slips, phrases, text, freed, result, status>>

\* Reducing to statement stores the query in *result as well.
Reduce ==
  /\ status = "parsing" /\ (Acts("reduce") \/ Consistent(Cypher, Top))
  /\ LET p == Reduced(Cypher, Top)
         kept == Len(stack) - Len(p.rhs)
         vals == [i \in DOMAIN p.rhs |-> stack[kept + i].value]
         value == Reduction(p.act, vals)
         below == IF kept = 0 THEN Start(Cypher) ELSE stack[kept].state
         pushed(v) == Append(SubSeq(stack, 1, kept),
                             [symbol |-> p.lhs, value |-> v, state |-> Goto(Cypher, below, p.lhs)])
     IN  /\ p.lhs # "$accept"
         /\ freed' = freed \o Spent(p.act, vals)
         /\ IF p.lhs = "statement"
            THEN result' = value /\ stack' = pushed(NIL)
            ELSE stack' = pushed(value) /\ UNCHANGED result
  /\ UNCHANGED <<rest, slips, phrases, look, text, status>>

\* A syntax error: no rule of the grammar shifts error, so the whole stack and
\* the lookahead are destroyed, and cypher_parse frees a query already stored.
Fail ==
  /\ Acts("error")
  /\ freed' = freed
       \o FlattenSeq([i \in DOMAIN stack |-> Destruction(stack[i].symbol, stack[i].value)])
       \o Destruction(look.token, look.value)
       \o Strings(result)
  /\ stack' = <<>> /\ look' = NoToken /\ result' = NIL
  /\ status' = "failed"
  /\ UNCHANGED <<rest, slips, phrases, text>>

Accept ==
  /\ status = "parsing" /\ Consistent(Cypher, Top) /\ Reduced(Cypher, Top).lhs = "$accept"
  /\ status' = "accepted"
  /\ stack' = <<>>
  /\ UNCHANGED <<rest, slips, phrases, look, text, freed, result>>

\* main frees the query once it is dumped or translated.
Release ==
  /\ status = "accepted"
  /\ freed' = freed \o Strings(result)
  /\ result' = NIL
  /\ status' = "released"
  /\ UNCHANGED <<rest, slips, phrases, stack, look, text>>

Next ==
  \/ Slip \/ Write \/ ScanEnd \/ ScanToken
  \/ Shift \/ Reduce \/ Fail \/ Accept \/ Release

Spec == Init /\ [][Next]_vars
-----------------------------------------------------------------------------

\* A state of the automaton has at most one complete production, so that which
\* one is reduced never depends on the lookahead sets.
OneReduction == Cardinality(Complete(Top)) <= 1

TypeOK ==
  /\ OneReduction
  /\ Range(rest) \cup Range(text) \subseteq Written
  /\ slips \in 0..MaxSlips /\ phrases \in 0..MaxPhrases
  /\ Range(freed) \subseteq 1..Allocated(text)
  /\ \A i \in DOMAIN stack : stack[i].state # {}
  /\ look.value.struct \in {"nil", "str"}
  /\ result.struct \in {"nil", "Query"}
  /\ status \in {"parsing", "accepted", "failed", "released"}

\* Every string the scanner has allocated is either freed, once, or owned by
\* exactly one of the stack's values, the lookahead and the result: the actions
\* of the grammar lose none and share none, the %destructors and ast_free
\* functions reach each of them on an error wherever it strikes (a query stored
\* in *result before the error included), and nothing is freed twice.
Ownership ==
  LET held == FlattenSeq([i \in DOMAIN stack |-> Strings(stack[i].value)])
              \o Strings(look.value) \o Strings(result)
  IN  /\ Len(freed \o held) = Allocated(text)
      /\ Range(freed \o held) = 1..Allocated(text)
      /\ status \in {"failed", "released"} => held = <<>>

\* The tree keeps the order of the text: read field by field its strings are
\* in the order they were scanned, whatever was chained behind what.
TextOrder ==
  status = "accepted" =>
    LET kept == Strings(result)
    IN  \A i, j \in DOMAIN kept : i < j => kept[i] < kept[j]

\* What is accepted is the whole text: an unexpected character is a parser
\* error wherever it stands, and nothing behind it is dropped unread.
AcceptsWholeText == status \in {"accepted", "released"} => rest = <<>>

Tokens == UNION {Range(Productions[p].rhs) : p \in DOMAIN Productions}

\* Short of that, whatever the sign of char: all the scanner reads of an accepted
\* text are tokens of the grammar, up to the end of the text or to a byte above
\* 127 where char is signed, and to no other unexpected character.
AcceptsUpToHigh ==
  status \in {"accepted", "released"} =>
    /\ Range(text) \subseteq Tokens
    /\ rest = <<>> \/ (CharIsSigned /\ Head(rest) = "HIGH")
=============================================================================
