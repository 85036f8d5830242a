----------------------------- MODULE MCRatchet -----------------------------
(* Model-checking instances of RatchetManager.                             *)
EXTENDS RatchetManager
=============================================================================
