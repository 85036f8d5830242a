------------------------------ MODULE MCRouter ------------------------------
(* Router for TLC: two routers, one of which bootstraps from the other. *)
EXTENDS Router

CONSTANTS a, b

TwoNodes  == {a, b}
AtoB      == {<<a, b>>}
=============================================================================
