------------------------------ MODULE MCSession ------------------------------
(* Session on a small instance: the bounds are set in the .cfg files.      *)
EXTENDS Session
=============================================================================
