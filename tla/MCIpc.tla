------------------------------- MODULE MCIpc -------------------------------
(* Model-checking instances of Ipc.                                        *)
EXTENDS Ipc
=============================================================================
