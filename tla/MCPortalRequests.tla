-------------------------- MODULE MCPortalRequests --------------------------
(* PortalRequests on small instances: the bounds are set in the .cfg files. *)
EXTENDS PortalRequests
=============================================================================
