----------------------------- MODULE Transform ------------------------------
(***************************************************************************)
(* transform_query: the checks on the query as a whole, the choice of the  *)
(* engine, and the engine.                                                 *)
(***************************************************************************)
EXTENDS General, Undirected, Varlen

\* A mutant of Engine: undirected hops are looked for first.
EngineUndirectedFirst ==
  IF HasUndirected THEN "undirected"
  ELSE IF HasVarlen THEN "varlen" ELSE "directed"

\* Variable-length paths go first: an undirected one is theirs to reject.
Engine ==
  IF HasVarlen THEN "varlen"
  ELSE IF HasUndirected THEN "undirected" ELSE "directed"

\* One path of one relationship.
Sole == Len(query.paths) = 1 /\ Len(query.paths[1].segs) = 1

\* check_return_shape.
Shape ==
  /\ ~query.star /\ query.paging
  /\ \A i \in DOMAIN query.items : query.items[i].kind # "other"

Init ==
  /\ query \in Queries
  /\ pc = "dispatch" /\ pi = 1 /\ k = 0 /\ prev = 0
  /\ slots = <<>> /\ edges = <<>> /\ binds = <<>>
  /\ sql = NoSql /\ err = NULL

Accepted ==
  query.matches = 1 /\ Shape /\ (Engine # "directed" => Sole)

Dispatch ==
  /\ pc = "dispatch" /\ Accepted
  /\ pc' = "collect"
  /\ UNCHANGED <<query, pi, k, prev, slots, edges, binds, sql, err>>

Refuse ==
  /\ pc = "dispatch" /\ ~Accepted
  /\ Reject(IF query.matches > 1 THEN "matches"
            ELSE IF ~Shape THEN "return" ELSE "not a single hop")

Next ==
  \/ Dispatch \/ Refuse
  \/ Engine = "directed" /\ GeneralNext
  \/ Engine = "undirected" /\ UndirectedNext
  \/ Engine = "varlen" /\ VarlenNext

\* The translation is one thread that never waits.
Spec == Init /\ [][Next]_vars /\ WF_vars(Next)

-----------------------------------------------------------------------------
(* Properties *)

\* transform.h: transform_query returns, and either with a statement or with
\* a message that says why there is none, never with both.
Answered ==
  <>[](\/ pc = "done" /\ err = NULL /\ Len(sql.select) = Len(query.items)
       \/ pc = "failed" /\ err # NULL)
=============================================================================
