--------------------------- MODULE MCSnmpRequest ---------------------------
(***************************************************************************)
(* A finite instance of SnmpRequest for TLC: two requests, a Get and a     *)
(* GetNext, that may have the same id and come to the same port, and a     *)
(* tree of an object and one below it, whose last number the program       *)
(* misspells.                                                              *)
(***************************************************************************)
EXTENDS SnmpRequest

CONSTANTS get, next, p1, i1, i2, table, entry

GetAndNext == {get, next}
NextOnly   == {next}
OnePort    == {p1}
TwoIds     == {i1, i2}
OneShort   == {i1}
Tree       == {table, entry}
Subtree    == {<<table, table>>, <<entry, table>>}

=============================================================================
