----------------------------- MODULE MCX11Extend -----------------------------
(* X11Extend on small instances: the bounds are set in the .cfg files.     *)
EXTENDS X11Extend
=============================================================================
