------------------------------- MODULE MCPages ------------------------------
(***************************************************************************)
(* An instance of Pages for TLC: rows of two columns, two rows to a value  *)
(* of the first.                                                           *)
(***************************************************************************)
EXTENDS Pages

TwoColumns == {<<1, 1>>, <<1, 2>>, <<2, 1>>, <<2, 2>>, <<3, 1>>}
FarBounds == {<<2, 1>>}
=============================================================================
