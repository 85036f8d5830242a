----------------------------- MODULE MCDelivery -----------------------------
(* Model-checking instances of Delivery.                                   *)
EXTENDS Delivery
=============================================================================
