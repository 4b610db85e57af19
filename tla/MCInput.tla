------------------------------ MODULE MCInput ------------------------------
(* Input on a small instance: the bounds are set in the .cfg file.         *)
EXTENDS Input
=============================================================================
