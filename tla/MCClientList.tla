---------------------------- MODULE MCClientList ----------------------------
(***************************************************************************)
(* Finite instances of ClientList for TLC.                                 *)
(***************************************************************************)
EXTENDS ClientList, TLC

CONSTANTS c1, c2, c3

Symmetry == Permutations(Cells)
=============================================================================
