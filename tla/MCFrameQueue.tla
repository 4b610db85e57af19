----------------------------- MODULE MCFrameQueue -----------------------------
(* FrameQueue on a small instance: the bounds are set in the .cfg files.   *)
EXTENDS FrameQueue
=============================================================================
