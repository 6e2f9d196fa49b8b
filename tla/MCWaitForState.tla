--------------------------- MODULE MCWaitForState ---------------------------
(***************************************************************************)
(* Instances of WaitForState for TLC.                                      *)
(***************************************************************************)
EXTENDS WaitForState

CONSTANTS checking, downloading, seeding

(* What buyer.js waits for, in the order of its calls.                     *)
BuyerWaits == <<downloading, seeding>>

=============================================================================
