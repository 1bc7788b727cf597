---------------------------- MODULE AutoJoiner -----------------------------
(* irc.AutoJoiner: the channels a client is to be on, and its attempts to    *)
(* join them again.  A handler takes the joiner J and returns what becomes   *)
(* of it.                                                                    *)
(*   rejoining: a table by channel; an entry is the channel its timer will   *)
(*   ask for, or None without a timer that runs.  The replies are filed      *)
(*   under the nick of the client (the first argument of a numeric reply),   *)
(*   so an entry of that name may have the timer of any channel.             *)
(*   on: on_channels.  listening: whether it gets the messages.              *)
(*   left: the timers that no entry has any more.                            *)
(* Intervals are left out: a timer fires at some time.                       *)
EXTENDS FiniteSets, Functions

CONSTANT None

\* with the configured channels
NewJoiner(autojoin) == [rejoining |-> [c \in autojoin |-> None], on |-> {}, listening |-> FALSE, left |-> {}]

Entry(J, k, timer) == [J EXCEPT !.rejoining = [x \in DOMAIN @ \cup {k} |-> IF x = k THEN timer ELSE @[x]]]
NoEntry(J, k) == [J EXCEPT !.rejoining = Restrict(@, DOMAIN @ \ {k})]
TimerOf(J, k) == IF k \in DOMAIN J.rejoining THEN J.rejoining[k] ELSE None

\* what to ask for when the client gets connected
Wanted(J) == DOMAIN J.rejoining
JoinerConnected(J) == [J EXCEPT !.listening = TRUE]

\* The connection is lost, or an attempt fails: on_channels stays as it is.
ConnectionLostForgets(J) == [J EXCEPT !.listening = FALSE]       \* faulty: does not copy
ConnectionLost(J) ==
    [rejoining |-> [k \in DOMAIN J.rejoining \cup J.on |-> IF k \in J.on THEN None ELSE J.rejoining[k]],
     on |-> J.on, listening |-> FALSE,
     left |-> J.left \cup ({TimerOf(J, k) : k \in J.on} \ {None})]

OwnJoin(J, c) == [NoEntry(J, c) EXCEPT !.on = @ \cup {c}]
OwnPart(J, c) == [NoEntry(J, c) EXCEPT !.on = @ \ {c}]
OwnKick(J, c) == [Entry(J, c, c) EXCEPT !.on = @ \ {c}]

\* 471, 474 and 437: the attempt is repeated
Refused(J, me, c) ==
    IF c \notin DOMAIN J.rejoining THEN J ELSE [Entry(J, me, c) EXCEPT !.on = @ \ {me}]
\* 403, 475, 473 and 476: it is not
Forbidden(J, me, c) == IF c \notin DOMAIN J.rejoining THEN J ELSE NoEntry(J, me)

AddChannel(J, c) == [Entry(J, c, None) EXCEPT !.left = @ \cup ({TimerOf(J, c)} \ {None})]

\* the timers that run, and one that fires: it asks for c if c has an entry
Running(J) == (Range(J.rejoining) \ {None}) \cup J.left
Fired(J, k) == Entry(J, k, None)
FiredLeft(J, c) == [J EXCEPT !.left = @ \ {c}]
=============================================================================
