------------------------------ MODULE MCClient ------------------------------
(* The client daemon for TLC. *)
EXTENDS Client, TLC

Symmetry == Permutations(Groups) \union Permutations(Passphrases)
=============================================================================
