---------------------------- MODULE MCDealNumbers ----------------------------
EXTENDS DealNumbers

(* 2, 2.5 and 3 *)
ThreeAmounts == {4, 5, 6}

(* 2; 5.5, which cut to 5 is negative in three bits with sign; and 9, which *)
(* needs more than three bits                                              *)
ThreeCounts == {4, 11, 18}

=============================================================================
