----------------------------- MODULE MCBuyerApp -----------------------------
(***************************************************************************)
(* Instances of BuyerApp for TLC.                                          *)
(***************************************************************************)
EXTENDS BuyerApp

CONSTANTS p1, p2, nobody

=============================================================================
