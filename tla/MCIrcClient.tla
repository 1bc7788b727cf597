---------------------------- MODULE MCIrcClient ----------------------------
(* IrcClient on a small instance: two timer objects, a receive buffer of   *)
(* MaxInbox messages, MaxBackoff steps of the interval, and registrations  *)
(* counted to MaxWriters for each half of a pass.                          *)
EXTENDS IrcClient
=============================================================================
