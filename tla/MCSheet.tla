------------------------------- MODULE MCSheet -------------------------------
(***************************************************************************)
(* Three positions: a number, a sum that refers twice to one cell, a range *)
(* over a single cell, which two other cells may share, and one over two   *)
(* cells, so that a range may stand on a sum or on a range, and a circle   *)
(* may be closed.                                                          *)
(***************************************************************************)
EXTENDS Sheet
MCInputs == {Num(2), Add(Ref(3), Ref(3)), Product(<<2, 2>>), Product(<<2, 3>>)}
=============================================================================
