------------------------------- MODULE Strings ------------------------------
(* A quoted string of the query, character by character: decoded by the      *)
(* scanner, written into the SQL as a literal, a LIKE pattern or a quoted    *)
(* name, and read by SQLite.                                                 *)
EXTENDS Naturals, Sequences, FiniteSets

CONSTANTS
  Chars,          \* the characters of the text
  MaxChars,       \* bound: the characters between the quotes
  Subjects        \* the values a pattern is matched with

SQ == "'"
DQ == "\""
BT == "backtick"
BS == "\\"
NL == "\n"

ASSUME StringsAssumption ==
  /\ {SQ, DQ, BT, BS, "%", "_"} \subseteq Chars
  /\ MaxChars \in Nat
  /\ Subjects \subseteq Seq(Chars)

\* What becomes of the text: an escaped string, or a name in backticks.
Affixes == {"starts", "ends", "contains"}
Uses == {"literal", "name"} \cup Affixes

VARIABLES
  use,
  text,           \* the token, its quotes included
  room,           \* the size allocated for the decoded string
  i, out,         \* decode_string: where it is in text, what it has written
  p, sql,         \* append_...: where it is in out, the SQL written
  pc              \* "decode", "emit" or "done"

vars == <<use, text, room, i, out, p, sql, pc>>

-----------------------------------------------------------------------------
(* The scanner *)

\* Whether each character is one that a backslash before it escapes.
Escaped(body) ==
  LET esc[k \in DOMAIN body] == k > 1 /\ body[k - 1] = BS /\ ~esc[k - 1] IN esc

\* '([^'\\]|\\.)*' and its twin for ": a quote inside is escaped, a newline is
\* not, and what a backslash escapes is there.
IsString(body, quote) ==
  LET esc == Escaped(body) IN
  /\ \A k \in DOMAIN body : body[k] # IF esc[k] THEN NL ELSE quote
  /\ body # <<>> => esc[Len(body)] \/ body[Len(body)] # BS

Tokens(u) ==
  LET Bodies == UNION {[1 .. n -> Chars] : n \in 0 .. MaxChars} IN
  IF u = "name"
  THEN {<<BT>> \o b \o <<BT>> : b \in {b \in Bodies : \A k \in DOMAIN b : b[k] # BT}}
  ELSE UNION {{<<q>> \o b \o <<q>> : b \in {b \in Bodies : IsString(b, q)}} : q \in {SQ, DQ}}

\* malloc in decode_string and in strip_backticks.
\* (A mutant of it: no room for the NUL.)
RoomShort(t, u) == Len(t) - 2
Room(t, u) == IF u = "name" THEN Len(t) - 1 ELSE Len(t)

Init ==
  /\ use \in Uses /\ text \in Tokens(use)
  /\ room = Room(text, use)
  /\ i = 1 /\ out = <<>> /\ p = 1 /\ sql = <<>>
  /\ pc = "decode"

\* text[i], as C counts.
At(k) == text[k + 1]

Unescaped(c) == CASE c = "n" -> NL [] c = "t" -> "\t" [] c = "r" -> "\r" [] OTHER -> c

Decoding == pc = "decode" /\ use # "name" /\ i < Len(text) - 1

\* A mutant of DecodeChar: the escaped character is read again.
DecodeCharTwice ==
  /\ Decoding
  /\ IF At(i) = BS /\ i + 1 < Len(text) - 1
     THEN out' = Append(out, Unescaped(At(i + 1)))
     ELSE out' = Append(out, At(i))
  /\ i' = i + 1
  /\ UNCHANGED <<use, text, room, p, sql, pc>>
DecodeChar ==
  /\ Decoding
  /\ IF At(i) = BS /\ i + 1 < Len(text) - 1
     THEN out' = Append(out, Unescaped(At(i + 1))) /\ i' = i + 2
     ELSE out' = Append(out, At(i)) /\ i' = i + 1
  /\ UNCHANGED <<use, text, room, p, sql, pc>>

-----------------------------------------------------------------------------
(* The SQL *)

\* The quote and the wildcard the SQL opens and closes with.
Opening ==
  CASE use = "name" -> <<DQ>>
    [] use \in {"ends", "contains"} -> <<SQ, "%">>
    [] OTHER -> <<SQ>>
Closing ==
  CASE use = "name" -> <<DQ>>
    [] use \in {"starts", "contains"} -> <<"%", SQ>>
    [] OTHER -> <<SQ>>

EndDecode ==
  /\ pc = "decode" /\ use # "name" /\ i >= Len(text) - 1
  /\ sql' = Opening
  /\ pc' = "emit"
  /\ UNCHANGED <<use, text, room, i, out, p>>

Strip ==
  /\ pc = "decode" /\ use = "name"
  /\ out' = SubSeq(text, 2, Len(text) - 1)
  /\ sql' = Opening
  /\ pc' = "emit"
  /\ UNCHANGED <<use, text, room, i, p>>

\* Mutants of Written: a quote is not doubled; a backslash is not escaped.
WrittenOnce(c) ==
  IF use \in Affixes /\ c \in {"%", "_", BS} THEN <<BS, c>> ELSE <<c>>
WrittenNoEscape(c) ==
  IF use \in Affixes /\ c \in {"%", "_"} THEN <<BS, c>>
  ELSE IF c = (IF use = "name" THEN DQ ELSE SQ) THEN <<c, c>> ELSE <<c>>

\* append_ident, append_string and append_like_pattern, of one character.
Written(c) ==
  IF use \in Affixes /\ c \in {"%", "_", BS} THEN <<BS, c>>
  ELSE IF c = (IF use = "name" THEN DQ ELSE SQ) THEN <<c, c>> ELSE <<c>>

EmitChar ==
  /\ pc = "emit" /\ p <= Len(out)
  /\ sql' = sql \o Written(out[p])
  /\ p' = p + 1
  /\ UNCHANGED <<use, text, room, i, out, pc>>

EndEmit ==
  /\ pc = "emit" /\ p > Len(out)
  /\ sql' = sql \o Closing
  /\ pc' = "done"
  /\ UNCHANGED <<use, text, room, i, out, p>>

Next == DecodeChar \/ EndDecode \/ Strip \/ EmitChar \/ EndEmit

Spec == Init /\ [][Next]_vars
-----------------------------------------------------------------------------
(* SQLite *)

\* Where the token that starts s ends (0: nowhere), and what it stands for: a
\* quote in it is doubled.
QuoteEnd(s) ==
  LET end[k \in 2 .. Len(s) + 2] ==
        IF k > Len(s) THEN 0
        ELSE IF s[k] # s[1] THEN end[k + 1]
        ELSE IF k < Len(s) /\ s[k + 1] = s[1] THEN end[k + 2] ELSE k
  IN end[2]

Dequoted(s) ==
  LET value[k \in 2 .. Len(s) + 2] ==
        IF k >= Len(s) THEN <<>>
        ELSE <<s[k]>> \o value[IF s[k] = s[1] THEN k + 2 ELSE k + 1]
  IN value[2]

\* value LIKE pattern ESCAPE '\' (letter case aside).
Like(pattern, value) ==
  LET like[at \in (1 .. Len(pattern) + 1) \X (1 .. Len(value) + 1)] ==
        LET j == at[1]
            k == at[2]
        IN  IF j > Len(pattern) THEN k > Len(value)
            ELSE IF pattern[j] = "%"
            THEN like[<<j + 1, k>>] \/ (k <= Len(value) /\ like[<<j, k + 1>>])
            ELSE IF k > Len(value) THEN FALSE
            ELSE IF pattern[j] = BS
            THEN j < Len(pattern) /\ pattern[j + 1] = value[k] /\ like[<<j + 2, k + 1>>]
            ELSE pattern[j] \in {"_", value[k]} /\ like[<<j + 1, k + 1>>]
  IN like[<<1, 1>>]
-----------------------------------------------------------------------------

TypeOK ==
  /\ use \in Uses
  /\ text \in Seq(Chars) /\ Len(text) >= 2
  /\ room \in Nat
  /\ i \in 1 .. Len(text) - 1
  /\ out \in Seq(Chars \cup {NL, "\t", "\r"})
  /\ p \in 1 .. Len(out) + 1
  /\ sql \in Seq(Chars \cup {NL, "\t", "\r"})
  /\ pc \in {"decode", "emit", "done"}

\* The decoded string and its NUL fit into what was allocated, whatever is
\* escaped (decode_string, strip_backticks).
StringFits == Len(out) < room

\* The string decoded is the one the scanner's rule matched: each escape is one
\* character, and every other character is itself.
DecodedAsMatched ==
  pc # "decode" /\ use # "name" =>
    LET body == SubSeq(text, 2, Len(text) - 1)
        esc == Escaped(body)
        kept == {k \in DOMAIN body : esc[k] \/ body[k] # BS}
        Place(k) == Cardinality({l \in kept : l <= k})
    IN /\ Len(out) = Cardinality(kept)
       /\ \A k \in kept :
            out[Place(k)] = IF esc[k] THEN Unescaped(body[k]) ELSE body[k]

\* SQLite reads what was written as one token, whatever quotes are in it, and a
\* literal or a name as the string it was made of.
ReadAsOne ==
  pc = "done" =>
    /\ QuoteEnd(sql) = Len(sql)
    /\ use \in {"literal", "name"} => Dequoted(sql) = out

\* The pattern matches the values that start with, end with or contain the
\* string, and no others: nothing in the string is a wildcard or an escape
\* (append_like_pattern, emit_like).
MatchesAffix ==
  pc = "done" /\ use \in Affixes =>
    \A s \in Subjects :
      Like(Dequoted(sql), s) <=>
        \E from \in 0 .. Len(s) - Len(out) :
          /\ SubSeq(s, from + 1, from + Len(out)) = out
          /\ use = "starts" => from = 0
          /\ use = "ends" => from = Len(s) - Len(out)
=============================================================================
