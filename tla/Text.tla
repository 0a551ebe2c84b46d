-------------------------------- MODULE Text --------------------------------
(* What sqlbuf.h promises its callers: a text that grows at its end, and is  *)
(* handed over whole when it is taken.                                       *)
EXTENDS Naturals, Sequences

CONSTANTS
  Pieces,         \* what callers append
  MaxText         \* bound: the longest text

VARIABLES
  text,           \* the text accumulated
  taken           \* the text handed over last

Init == text = <<>> /\ taken = <<>>

Grow(s) ==
  /\ Len(text) + Len(s) <= MaxText
  /\ text' = text \o s
  /\ UNCHANGED taken

Take == taken' = text /\ text' = <<>>

Drop == text' = <<>> /\ UNCHANGED taken

Next == (\E s \in Pieces : Grow(s)) \/ Take \/ Drop

Spec == Init /\ [][Next]_<<text, taken>>
=============================================================================
