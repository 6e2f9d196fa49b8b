----------------------------- MODULE MCSellerApp -----------------------------
(***************************************************************************)
(* Instances of SellerApp for TLC.                                         *)
(***************************************************************************)
EXTENDS SellerApp

CONSTANTS p1, p2, nobody

TwoBuyers == <<p1, p2>>

=============================================================================
