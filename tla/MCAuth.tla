-------------------------------- MODULE MCAuth --------------------------------
(* Auth on a small instance: the values are set in the .cfg files.         *)
EXTENDS Auth, TLC

\* The clients are interchangeable.
ClientSymmetry == Permutations(Clients)
=============================================================================
