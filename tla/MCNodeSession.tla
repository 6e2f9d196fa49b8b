---------------------------- MODULE MCNodeSession ----------------------------
(***************************************************************************)
(* Instances of NodeSession for TLC.                                       *)
(***************************************************************************)
EXTENDS NodeSessionInv, TLC

CONSTANTS x1, x2, zeros

Symmetry == Permutations(InfoHash)

=============================================================================
