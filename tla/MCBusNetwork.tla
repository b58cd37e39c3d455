---------------------------- MODULE MCBusNetwork ----------------------------
(***************************************************************************)
(* Stops are only compared, so that exchanging them changes nothing; lines *)
(* are sorted, and are not exchanged.                                      *)
(***************************************************************************)
EXTENDS BusNetwork, TLC
Symmetry == Permutations(Stops)
=============================================================================
