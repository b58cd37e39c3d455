---------------------------- MODULE MCGameServer ----------------------------
(***************************************************************************)
(* One player: the files of two players have nothing in common but the     *)
(* scoreboard, which two games of one player share as well.  Colors are    *)
(* only compared, so that exchanging them changes nothing.                 *)
(***************************************************************************)
EXTENDS GameServer
Symmetry == Permutations(Colors)
=============================================================================
