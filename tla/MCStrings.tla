------------------------------ MODULE MCStrings -----------------------------
(* Strings over the quotes, the escape, the wildcards and a letter that has  *)
(* an escape of its own.                                                     *)
EXTENDS Strings

MCChars == {SQ, DQ, BT, BS, "%", "_", "n", NL}
MCSubjects == UNION {[1 .. k -> {SQ, BS, "%", "n", NL}] : k \in 0 .. 3}
=============================================================================
