---------------------------- MODULE MCChannels -----------------------------
(* A tracker with two other users on a channel, with one for whom a nick is  *)
(* free, and with one on two channels, whose nicks change, also in case      *)
(* only; and a joiner of two channels.                                       *)
EXTENDS Channels, TLC

CONSTANTS u, v, x, y, m, a, A, b
MCKey == (m :> m) @@ (a :> a) @@ (A :> a) @@ (b :> b)
MCSettings == {[others |-> {u, v}, chans |-> {x}, nicks |-> {m, a, A, b}, joiner |-> FALSE],
               [others |-> {u}, chans |-> {x}, nicks |-> {m, a, A, b}, joiner |-> FALSE],
               [others |-> {u}, chans |-> {x, y}, nicks |-> {m, a, A}, joiner |-> FALSE],
               [others |-> {}, chans |-> {x, y}, nicks |-> {m, a}, joiner |-> TRUE]}
=============================================================================
