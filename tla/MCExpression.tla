---------------------------- MODULE MCExpression ----------------------------
(* Statements that use every production of the grammar and what may slip in, *)
(* and every WHERE expression of a few phrases: an operand, a parenthesis,   *)
(* NOT, an operator of each level and form.                                  *)
EXTENDS Expression

WholeStatements == {
  \* MATCH (a:P)-[r:t|u*1..3 {k:'v', `l`:1}]->(:`q`:R {}) WHERE NOT a.n = 2.5
  \*   OR f(*) RETURN DISTINCT a.n AS m, g(a, b) ORDER BY a ASC, b.k DESC
  \*   SKIP 1 LIMIT 2;
  <<"MATCH", "(", "IDENT", ":", "IDENT", ")", "-", "[", "IDENT", ":", "IDENT", "|",
    "BQIDENT", "*", "INTEGER", "DOTDOT", "INTEGER", "{", "IDENT", ":", "STRING", ",",
    "BQIDENT", ":", "INTEGER", "}", "]", "ARROW_R", "(", ":", "BQIDENT", ":", "IDENT",
    "{", "}", ")", "WHERE", "NOT", "IDENT", ".", "IDENT", "=", "REAL", "OR", "IDENT",
    "(", "*", ")", "RETURN", "DISTINCT", "IDENT", ".", "BQIDENT", "AS", "IDENT", ",",
    "IDENT", "(", "IDENT", ",", "IDENT", ")", "ORDER", "BY", "IDENT", "ASC", ",",
    "IDENT", ".", "IDENT", "DESC", "SKIP", "INTEGER", "LIMIT", "INTEGER", ";">>,
  \* MATCH ()<-[*2..]-()-[*..3]-(), () MATCH (a)-[*]-()-[*..]-()-[*2]-() --> (b)
  \*   WHERE a.n IN ['x', 1] AND a.s STARTS WITH 'y' OR a.t ENDS WITH 'z'
  \*   RETURN *
  <<"MATCH", "(", ")", "ARROW_L", "[", "*", "INTEGER", "DOTDOT", "]", "-", "(", ")",
    "-", "[", "*", "DOTDOT", "INTEGER", "]", "-", "(", ")", ",", "(", ")",
    "MATCH", "(", "IDENT", ")", "-", "[", "*", "]", "-", "(", ")", "-", "[", "*",
    "DOTDOT", "]", "-", "(", ")", "-", "[", "*", "INTEGER", "]", "-", "(", ")", "-",
    "ARROW_R", "(", "IDENT", ")", "WHERE", "IDENT", ".", "IDENT", "IN", "[", "STRING",
    ",", "INTEGER", "]", "AND", "IDENT", ".", "IDENT", "STARTS", "WITH", "STRING",
    "OR", "IDENT", ".", "IDENT", "ENDS", "WITH", "STRING", "RETURN", "*">>,
  \* MATCH (a) WHERE (a.s CONTAINS 'x' OR TRUE) AND a.n IS NULL AND a.m IS NOT NULL
  \*   AND a.u <> FALSE AND a.v < NULL AND a.v > 1 AND a.v <= 1 AND a.v >= 1
  \*   RETURN count(), count(DISTINCT a.n)
  <<"MATCH", "(", "IDENT", ")", "WHERE", "(", "IDENT", ".", "IDENT", "CONTAINS",
    "STRING", "OR", "TRUETOK", ")", "AND", "IDENT", ".", "IDENT", "IS", "NULLTOK",
    "AND", "IDENT", ".", "IDENT", "IS", "NOT", "NULLTOK", "AND", "IDENT", "NE",
    "FALSETOK", "AND", "IDENT", "<", "NULLTOK", "AND", "IDENT", ">", "INTEGER", "AND",
    "IDENT", "LE", "INTEGER", "AND", "IDENT", "GE", "INTEGER",
    "RETURN", "IDENT", "(", ")", ",", "IDENT", "(", "DISTINCT", "IDENT", ".", "IDENT",
    ")">>}

MCAlphabet == StringTokens \cup
  {"MATCH", "WHERE", "RETURN", "AS", "ORDER", "BY", "SKIP", "LIMIT", "DISTINCT", "AND",
   "OR", "NOT", "IN", "IS", "NULLTOK", "STARTS", "WITH", "DESC", "ARROW_L", "ARROW_R",
   "LE", "NE", "DOTDOT", "(", ")", "[", "]", "{", "}", ",", ":", ".", "=", "-", "*",
   "|", ";", "?", "HIGH"}

A == <<"IDENT", ".", "IDENT">>
Query(where) == <<"MATCH", "(", ")", "WHERE">> \o where \o <<"RETURN", "*">>

WhereStatements == {
  <<"MATCH", "(", ")", "WHERE">>,
  \* a.k IN ['x', a.k, NULL] IS NOT NULL AND a.k <> TRUE AND 1 >= a.k OR ...
  Query(A \o <<"IN", "[", "STRING", ",">> \o A \o <<",", "NULLTOK", "]", "IS", "NOT", "NULLTOK">>
        \o <<"AND">> \o A \o <<"NE", "TRUETOK", "AND", "INTEGER", "GE">> \o A
        \o <<"OR">> \o A \o <<"ENDS", "WITH", "STRING", "AND", "REAL", "<">> \o A),
  \* a.k <= (a.k CONTAINS 'x') OR NOT (a.k IS NOT NULL) > FALSE
  Query(A \o <<"LE", "(">> \o A \o <<"CONTAINS", "STRING", ")", "OR", "NOT", "(">> \o A
        \o <<"IS", "NOT", "NULLTOK", ")", ">", "FALSETOK">>),
  \* what emit_expr refuses: a.k CONTAINS a.k; a = 'x'; NOT f(a.k)
  Query(A \o <<"CONTAINS">> \o A),
  Query(<<"IDENT", "=", "STRING">>),
  Query(<<"NOT", "IDENT", "(">> \o A \o <<")">>)}

MCStatements == WholeStatements \cup WhereStatements

\* A byte above 127, behind a statement and inside one, and more text behind it:
\* a no-break space, say, or a letter with an accent.
MCHighStatements == {
  <<"MATCH", "(", ")", "RETURN", "*", "HIGH", "LIMIT", "INTEGER">>,
  <<"MATCH", "(", "IDENT", "HIGH", "IDENT", ")", "RETURN", "*">>}
MCTextStatements == MCStatements \cup MCHighStatements

MCPhrases == {
  A, <<"(">>, <<")">>, <<"NOT">>, <<"AND">>, <<"OR">>, <<"=">>,
  <<"<">>, <<"STARTS", "WITH", "STRING">>, <<"IN", "[", "STRING", "]">>,
  <<"IS", "NULLTOK">>, <<"RETURN", "*">>}
=============================================================================
