------------------------------ MODULE MCClient ------------------------------
(* Client on a small instance: the bound is set in the .cfg files.         *)
EXTENDS Client
=============================================================================
