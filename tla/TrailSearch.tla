----------------------------- MODULE TrailSearch ----------------------------
(***************************************************************************)
(* What a variable-length pattern promises: trails are found, in any order *)
(* and any number at a time, never anything else, and the answer is given  *)
(* only when all of them have been found.                                  *)
(***************************************************************************)
EXTENDS Trails

VARIABLES
  graph,     \* the edges
  hop,       \* the pattern
  found,     \* trails found so far
  reported,  \* has the answer been given?
  answer     \* the trails that match, once reported

vars == <<graph, hop, found, reported, answer>>

Init ==
  /\ graph \in Graphs /\ hop \in Hops
  /\ found = {} /\ ~reported /\ answer = {}

Find ==
  /\ ~reported
  /\ found \subseteq found'
  /\ \A p \in found' : IsTrail(graph, hop, p)
  /\ UNCHANGED <<graph, hop, reported, answer>>

Report ==
  /\ ~reported /\ reported'
  /\ AllTrails(graph, hop) \subseteq found
  /\ answer' = {p \in found : Matches(graph, hop, p)}
  /\ UNCHANGED <<graph, hop, found>>

Next == Find \/ Report

Spec == Init /\ [][Next]_vars
=============================================================================
