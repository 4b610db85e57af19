--------------------------- MODULE MCVideoDecoder ---------------------------
(* VideoDecoder on a small instance: the bounds are set in the .cfg file.  *)
EXTENDS VideoDecoder
=============================================================================
