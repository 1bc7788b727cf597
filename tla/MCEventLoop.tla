---------------------------- MODULE MCEventLoop ----------------------------
(* EventLoop with two sockets, one readable and two writable entries, and   *)
(* two timers that expire at once or at the next tick.                      *)
EXTENDS EventLoop
=============================================================================
