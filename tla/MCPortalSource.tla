--------------------------- MODULE MCPortalSource ---------------------------
(* PortalSource on a small instance: the faults are set in the .cfg files. *)
EXTENDS PortalSource
=============================================================================
