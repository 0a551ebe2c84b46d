------------------------------ MODULE MCSqlBuf ------------------------------
(* Texts of no, one and several characters, longer than the first capacity   *)
(* and longer than a doubling of it.                                         *)
EXTENDS SqlBuf

MCPieces == {<<>>, <<"a">>, <<"b", "a">>, <<"a", "b", "b", "a", "b">>}
=============================================================================
