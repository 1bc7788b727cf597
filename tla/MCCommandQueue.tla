--------------------------- MODULE MCCommandQueue ---------------------------
(* CommandQueue with a queue of MaxQueue items.                             *)
EXTENDS CommandQueue
=============================================================================
