-------------------------- MODULE ConnectionStatus --------------------------
(***************************************************************************)
(* The two sides of a connection's payment channel as src/Connection.cpp   *)
(* encodes them for JavaScript: payor when we pay, payee when we are paid. *)
(* Keys, signatures, outpoints and lock times are left out.                *)
(***************************************************************************)

EncodePayor(payor) ==
    [price                |-> payor.price,
     numberOfPaymentsMade |-> payor.numberOfPaymentsMade,
     funds                |-> payor.funds]

(* As in the code: the payments, where a payor has its funds.              *)
EncodePayee(payee) ==
    [price                |-> payee.price,
     numberOfPaymentsMade |-> payee.numberOfPaymentsMade,
     funds                |-> payee.numberOfPaymentsMade]

=============================================================================
