------------------------------ MODULE IrcClient ------------------------------
(***************************************************************************)
(* The connection machine of irc.lua's Client: connecting, the SSL         *)
(* handshake, registration, pings, buffered output, disconnecting and      *)
(* reconnecting with a growing interval, as eventloop.lua drives it: every *)
(* pass of the loop polls the socket once, calls the client's readable     *)
(* handler, then its writable handlers, then the timers that are due.      *)
(*                                                                         *)
(* Between two handlers of one pass other handlers run (the console,       *)
(* other clients, plugins), and those may call the client: the Api actions.*)
(* What happens outside the process (the peer, the network, the clock)     *)
(* only shows at the next poll, so the environment acts between passes.    *)
(***************************************************************************)
EXTENDS Naturals, Sequences

CONSTANTS
    TimerId,        \* identities of the timer objects of eventloop.lua
    None,           \* _timer before the first timer was made (nil)
    MaxInbox,       \* bound: messages in the socket's receive buffer
    MaxBackoff,     \* the steps from the initial to the maximal interval
    MaxWriters      \* bound: writable registrations are told apart up to here

ASSUME TimerIdAssumption == None \notin TimerId
ASSUME BoundsAssumption ==
    /\ MaxInbox \in Nat \ {0}
    /\ MaxBackoff \in Nat \ {0}
    /\ MaxWriters \in Nat \ {0}

VARIABLES
    state,                  \* Client.state
    conn,                   \* whether _conn is a socket (not nil)
    net,                    \* what the peer and the network did to that socket
    inbox,                  \* messages received by the kernel and not yet read
    sendbuf,                \* _sendbuf
    reader,                 \* is _rhandler registered for _conn?
    writers,                \* how often _whandler is registered for _conn:
                            \* before this pass and not called yet, and since
    timer,                  \* _timer
    timers,                 \* the timer objects that still run
    intentionally_quit,     \* _intentionally_quit
    reconnecttime,          \* _reconnecttime, in steps; 0 is nil
    time_last_connected,    \* _time_last_connected, against the reset time
    phase,                  \* where EventLoop:step is
    rcall,                  \* the readable handler is still to be called
    wleft,                  \* calls of the writable handler still to be made
    lines,                  \* messages _on_readable has read and not handled
    eof,                    \* its local err = 'closed'
    ssl,                    \* netinfo.ssl
    autoreconnect           \* is initial_reconnection_interval set?

socketVars  == <<conn, net, inbox>>
timerVars   == <<timer, timers>>
handlerVars == <<reader, writers>>
sessionVars == <<intentionally_quit, reconnecttime, time_last_connected>>
passVars    == <<phase, rcall, wleft, lines, eof>>
settings    == <<ssl, autoreconnect>>
vars == <<state, socketVars, sendbuf, handlerVars, timerVars, sessionVars,
          passVars, settings>>

Attempting == {"connecting", "sslhandshake", "registering"}
CanSend == {"registering", "connected"}
Live == Attempting \cup {"connected"}
State == Live \cup {"disconnected", "reconnecting"}

\* "PING" stands for any message that is answered with one (PING, a CTCP
\* request), "PONG" for the answer to the latest PING, "QUIT" for the client's
\* own QUIT, "OTHER" for messages that change nothing modelled here.
Message == {"001", "PING", "PONG", "QUIT", "OTHER"}

\* none: no socket; pending: connect() in progress; up: connected; closed: the
\* peer closed, reset or refused; dead: connect() itself failed, for instance
\* the name did not resolve, and the socket was never connected.
Net == {"none", "pending", "up", "closed", "dead"}

Timeout == {"connectingtimeout", "sslhandshaketimeout", "registeringtimeout",
            "pingtimeout"}
Callback == Timeout \cup {"ping", "connect"}
Idle == [cb |-> "none", due |-> FALSE]
Timer == {Idle} \cup [cb : Callback, due : BOOLEAN]
-----------------------------------------------------------------------------
(* Timers, handlers and output, the parts every operation is made of.      *)

\* self._timer:cancel() in a state of the timers
Cancel(T) == [t \in TimerId |-> IF t = timer THEN Idle ELSE T[t]]

\* self._timer = self._eventloop:timer(...): a new object, never the last one
Arm(T, cb) ==
    \E t \in TimerId \ {timer} :
        /\ T[t] = Idle
        /\ timer' = t
        /\ timers' = [T EXCEPT ![t] = [cb |-> cb, due |-> FALSE]]

NoWriters == [old |-> 0, new |-> 0]

\* faulty: the writable handler is forgotten
RemoveReadableOnly == reader' = FALSE /\ UNCHANGED writers

RemoveHandlers == reader' = FALSE /\ writers' = NoWriters

\* add_writable_handler makes a new key even for a pair that has one already
AddWriter(w) == [w EXCEPT !.new = IF @ < MaxWriters THEN @ + 1 ELSE @]

\* the loop drops the key it has just called, because _on_writable returns
\* false or because it failed
Visited(w) == [w EXCEPT !.old = IF @ > 0 THEN @ - 1 ELSE @]

\* what one _send can leave behind: the socket takes everything, or part of
\* it, or reports an error and the text is lost; behind queued text it queues
Send(o) ==
    IF o.buf = "data"
    THEN {[buf |-> "data", w |-> AddWriter(o.w)]}
    ELSE {r \in {o, [buf |-> "data", w |-> AddWriter(o.w)]} :
             /\ net = "pending" => r.buf = "data"
             /\ net \notin {"pending", "up"} => r.buf = o.buf}

Sends(o) ==
    \E r \in Send(o) : sendbuf' = r.buf /\ writers' = r.w

\* faulty: without the maximum
NextIntervalUncapped ==
    IF ~autoreconnect THEN 0
    ELSE IF reconnecttime = 0 \/ time_last_connected = "old" THEN 1
    ELSE reconnecttime + 1

\* faulty: every welcome sets the interval back, however recent it is
NextIntervalAfterWelcome ==
    IF ~autoreconnect THEN 0
    ELSE IF reconnecttime = 0 \/ time_last_connected # "never" THEN 1
    ELSE IF reconnecttime < MaxBackoff THEN reconnecttime + 1
    ELSE MaxBackoff

\* the interval _reconnect waits: initial, then one step more per attempt; a
\* last welcome longer ago than the reset time sets it back
NextInterval ==
    IF ~autoreconnect THEN 0
    ELSE IF reconnecttime = 0 \/ time_last_connected = "old" THEN 1
    ELSE IF reconnecttime < MaxBackoff THEN reconnecttime + 1
    ELSE MaxBackoff
-----------------------------------------------------------------------------
(* Operations of the client, given the timers T that run when they start.  *)

\* faulty: _timer is cancelled last, and with it the new one
ReconnectCancelsLast(T) ==
    /\ RemoveHandlers
    /\ conn' = FALSE
    /\ net' = "none"
    /\ inbox' = <<>>
    /\ reconnecttime' = NextInterval
    /\ state' = "reconnecting"
    /\ timers' = Cancel(T)
    /\ UNCHANGED <<timer, sendbuf, intentionally_quit, time_last_connected>>

\* Without an initial interval, eventloop:timer(nil) raises at the very end:
\* everything is undone and no timer made.
Reconnect(T) ==
    /\ RemoveHandlers
    /\ conn' = FALSE
    /\ net' = "none"
    /\ inbox' = <<>>
    /\ reconnecttime' = NextInterval
    /\ state' = "reconnecting"
    /\ IF autoreconnect THEN Arm(Cancel(T), "connect")
       ELSE timers' = Cancel(T) /\ UNCHANGED timer
    /\ UNCHANGED <<sendbuf, intentionally_quit, time_last_connected>>

\* A registration that a quit left behind on the previous socket is not
\* followed any further.
Connect(T) ==
    /\ state \in {"disconnected", "reconnecting"}
    /\ intentionally_quit' = FALSE
    /\ conn' = TRUE
    /\ net' \in {"pending", "dead"}
    /\ inbox' = <<>>
    /\ reader' = TRUE
    /\ writers' = AddWriter(NoWriters)
    /\ state' = "connecting"
    /\ Arm(Cancel(T), "connectingtimeout")
    /\ UNCHANGED <<sendbuf, reconnecttime, time_last_connected>>

\* faulty: the timer of the attempt so far keeps running
HandshakeDoneLeavesTimer(w) ==
    /\ state' = "registering"
    /\ \E r \in Send([buf |-> "empty", w |-> w]) : Sends(r)
    /\ Arm(timers, "registeringtimeout")
    /\ UNCHANGED <<socketVars, sessionVars>>

\* faulty: registration is not timed
HandshakeDoneUntimed(w) ==
    /\ state' = "registering"
    /\ \E r \in Send([buf |-> "empty", w |-> w]) : Sends(r)
    /\ timers' = Cancel(timers)
    /\ UNCHANGED <<timer, socketVars, sessionVars>>

\* _on_ssl_handshake_done: USER and NICK are sent, registration is timed
HandshakeDone(w) ==
    /\ state' = "registering"
    /\ \E r \in Send([buf |-> "empty", w |-> w]) : Sends(r)
    /\ Arm(Cancel(timers), "registeringtimeout")
    /\ UNCHANGED <<socketVars, sessionVars>>

\* _do_ssl_handshake, resumed with the writers w
DoSslHandshake(w) ==
    \/ net = "up" /\ HandshakeDone(w) /\ UNCHANGED reader
    \/ /\ net \in {"pending", "up"}
       /\ writers' \in {w, AddWriter(w)}                \* wantread, wantwrite
       /\ UNCHANGED <<state, socketVars, sendbuf, reader, timerVars, sessionVars>>
    \/ net # "pending" /\ Reconnect(timers)             \* closed or an error

\* _on_socket_connected for SSL: wrap the socket, register it anew, and start
\* the handshake, which may be over at once
StartSsl ==
    LET w == AddWriter(NoWriters)
    IN  \/ net = "up" /\ reader' = TRUE /\ HandshakeDone(w)
        \/ /\ net \in {"pending", "up"}
           /\ reader' = TRUE
           /\ writers' \in {w, AddWriter(w)}
           /\ state' = "sslhandshake"
           /\ Arm(Cancel(timers), "sslhandshaketimeout")
           /\ UNCHANGED <<socketVars, sendbuf, sessionVars>>
        \/ net # "pending" /\ Reconnect(timers)

OnSocketConnected(w) ==
    IF ssl THEN StartSsl ELSE HandshakeDone(w) /\ UNCHANGED reader

\* faulty: the answer is not awaited, the next ping is
PingUntimed(T) ==
    /\ Sends([buf |-> sendbuf, w |-> writers])
    /\ Arm(Cancel(T), "ping")

\* Client:ping in a state that lets it send
Ping(T) ==
    /\ Sends([buf |-> sendbuf, w |-> writers])
    /\ Arm(Cancel(T), "pingtimeout")
-----------------------------------------------------------------------------
(* One pass of EventLoop:step over this client.                            *)

\* The socket is level-triggered. select gets one entry per registration and
\* returns them all, and the loop calls every registration for each of them:
\* n registrations make n * n calls.
Select ==
    /\ phase = "select"
    /\ LET over  == net \in {"closed", "dead"}
           n     == writers.new
       IN  \E helloarrived, room \in BOOLEAN :
            /\ state = "connecting" => room
            /\ rcall' = (/\ reader
                         /\ \/ over
                            \/ net = "up" /\ inbox # <<>>
                            \/ net = "up" /\ state = "sslhandshake" /\ helloarrived)
            /\ wleft' = IF over \/ (net = "up" /\ room) THEN n * n ELSE 0
            /\ writers' = [old |-> n, new |-> 0]
    /\ phase' = "read"
    /\ UNCHANGED <<state, socketVars, sendbuf, reader, timerVars, sessionVars,
                   lines, eof, settings>>

\* _on_readable up to the reading: the peer's messages become lines. A read
\* that fills all of its 8192 bytes counts as the end of the stream.
Receive ==
    IF conn /\ net \in {"up", "closed"}
    THEN /\ lines' = inbox
         /\ inbox' = <<>>
         /\ \E full \in BOOLEAN :
                /\ full => inbox # <<>>
                /\ eof' = (full \/ net = "closed")
         /\ phase' = "lines"
    ELSE UNCHANGED <<inbox, lines, eof, phase>>     \* an error, or nothing yet

OnReadable ==
    /\ phase = "read"
    /\ rcall
    /\ rcall' = FALSE
    /\ \/ /\ state = "connecting"
          /\ OnSocketConnected(writers)
          /\ UNCHANGED <<phase, lines, eof>>
       \/ /\ state = "sslhandshake"
          /\ DoSslHandshake(writers)
          /\ UNCHANGED <<phase, lines, eof>>
       \/ /\ state \notin {"connecting", "sslhandshake"}
          /\ Receive
          /\ UNCHANGED <<state, conn, net, sendbuf, handlerVars, timerVars, sessionVars>>
    /\ UNCHANGED <<wleft, settings>>

\* The next line's branch of the receive loop. What plugins send while they
\* see the message, and the lines of autorun, are ApiSend.
NextLine(kind) ==
    /\ phase = "lines"
    /\ lines # <<>>
    /\ Head(lines) = kind
    /\ lines' = Tail(lines)
    /\ UNCHANGED <<phase, rcall, wleft, eof, socketVars, reader, reconnecttime, settings>>

OnWelcome ==
    /\ NextLine("001")
    /\ IF state = "registering"
       THEN /\ time_last_connected' = "recent"
            /\ state' = "connected"
            /\ Ping(Cancel(timers))
       ELSE UNCHANGED <<state, time_last_connected, sendbuf, writers, timerVars>>
    /\ UNCHANGED intentionally_quit

OnPong ==
    /\ NextLine("PONG")
    /\ IF state = "connected" THEN Arm(Cancel(timers), "ping") ELSE UNCHANGED timerVars
    /\ UNCHANGED <<state, sendbuf, writers, intentionally_quit, time_last_connected>>

OnPing ==
    /\ NextLine("PING")
    /\ IF state \in CanSend THEN Sends([buf |-> sendbuf, w |-> writers])
       ELSE UNCHANGED <<sendbuf, writers>>
    /\ UNCHANGED <<state, timerVars, intentionally_quit, time_last_connected>>

OnOwnQuit ==
    /\ NextLine("QUIT")
    /\ intentionally_quit' = TRUE
    /\ UNCHANGED <<state, sendbuf, writers, timerVars, time_last_connected>>

OnOther ==
    /\ NextLine("OTHER")
    /\ UNCHANGED <<state, sendbuf, writers, timerVars, intentionally_quit, time_last_connected>>

\* The end of _on_readable. After an intentional quit neither the timer is
\* cancelled nor the socket dropped.
EndOfLines ==
    /\ phase = "lines"
    /\ lines = <<>>
    /\ phase' = "read"
    /\ eof' = FALSE
    /\ \/ /\ ~eof
          /\ UNCHANGED <<state, socketVars, sendbuf, handlerVars, timerVars, sessionVars>>
       \/ /\ eof /\ intentionally_quit
          /\ state' = "disconnected"
          /\ RemoveHandlers
          /\ UNCHANGED <<socketVars, sendbuf, timerVars, sessionVars>>
       \/ /\ eof /\ ~intentionally_quit
          /\ Reconnect(timers)
    /\ UNCHANGED <<rcall, wleft, lines, settings>>

EndRead ==
    /\ phase = "read"
    /\ ~rcall
    /\ phase' = "write"
    /\ UNCHANGED <<state, socketVars, sendbuf, handlerVars, timerVars, sessionVars,
                   rcall, wleft, lines, eof, settings>>

\* faulty: after a partial send the handler is not registered again
FlushOnce(w) ==
    \/ /\ sendbuf = "data" /\ conn /\ net \in {"pending", "up"}
       /\ writers' = w
       /\ UNCHANGED sendbuf
    \/ /\ sendbuf = "data" /\ conn /\ net # "pending"
       /\ sendbuf' = "empty"
       /\ writers' = w
    \/ /\ ~(sendbuf = "data" /\ conn)
       /\ writers' = w
       /\ UNCHANGED sendbuf

\* _on_writable's last case: send what is queued; an error loses it
Flush(w) ==
    \/ /\ sendbuf = "data" /\ conn /\ net \in {"pending", "up"}
       /\ writers' = AddWriter(w)                       \* 'timeout'
       /\ UNCHANGED sendbuf
    \/ /\ sendbuf = "data" /\ conn /\ net # "pending"
       /\ sendbuf' = "empty"
       /\ writers' = w
    \/ /\ ~(sendbuf = "data" /\ conn)                   \* nothing, or it raises
       /\ writers' = w
       /\ UNCHANGED sendbuf

OnWritable ==
    /\ phase = "write"
    /\ wleft > 0
    /\ wleft' = wleft - 1
    /\ \/ state = "connecting" /\ OnSocketConnected(Visited(writers))
       \/ state = "sslhandshake" /\ DoSslHandshake(Visited(writers))
       \/ /\ state \notin {"connecting", "sslhandshake"}
          /\ Flush(Visited(writers))
          /\ UNCHANGED <<state, socketVars, reader, timerVars, sessionVars>>
    /\ UNCHANGED <<phase, rcall, lines, eof, settings>>

EndWrite ==
    /\ phase = "write"
    /\ wleft = 0
    /\ phase' = "timers"
    /\ LET n == writers.old + writers.new
       IN  writers' = [old |-> 0, new |-> IF n < MaxWriters THEN n ELSE MaxWriters]
    /\ UNCHANGED <<state, socketVars, sendbuf, reader, timerVars, sessionVars,
                   rcall, wleft, lines, eof, settings>>

\* The timers that are due, in an order pairs() chooses
Fires(t, cbs) ==
    /\ phase = "timers"
    /\ timers[t].due
    /\ timers[t].cb \in cbs
    /\ UNCHANGED <<passVars, settings>>

Expired(t) == [timers EXCEPT ![t] = Idle]

TimeoutFires(t) == Fires(t, Timeout) /\ Reconnect(Expired(t))

ConnectTimerFires(t) == Fires(t, {"connect"}) /\ Connect(Expired(t))

\* elsewhere nothing but the cancellation happens: sendmessage asserts
PingTimerFires(t) ==
    /\ Fires(t, {"ping"})
    /\ IF state \in CanSend THEN Ping(Expired(t))
       ELSE timers' = Cancel(Expired(t)) /\ UNCHANGED <<timer, sendbuf, writers>>
    /\ UNCHANGED <<state, socketVars, reader, sessionVars>>

EndTimers ==
    /\ phase = "timers"
    /\ \A t \in TimerId : ~timers[t].due
    /\ phase' = "select"
    /\ UNCHANGED <<state, socketVars, sendbuf, handlerVars, timerVars, sessionVars,
                   rcall, wleft, lines, eof, settings>>
-----------------------------------------------------------------------------
(* Calls from other handlers of the loop, and the world outside.           *)

InOtherHandler == phase \in {"read", "write", "timers"}

ApiConnect ==
    /\ InOtherHandler
    /\ Connect(timers)
    /\ UNCHANGED <<passVars, settings>>

\* faulty: a live client's timer keeps running
ApiDisconnectLeavesTimer ==
    /\ InOtherHandler
    /\ state \in Live
    /\ RemoveHandlers
    /\ conn' = FALSE
    /\ net' = "none"
    /\ inbox' = <<>>
    /\ state' = "disconnected"
    /\ UNCHANGED <<timerVars, sendbuf, sessionVars, passVars, settings>>

\* faulty: the socket is closed and not forgotten
ApiDisconnectKeepsSocket ==
    /\ InOtherHandler
    /\ state \in Live
    /\ timers' = Cancel(timers)
    /\ RemoveHandlers
    /\ net' = "dead"
    /\ inbox' = <<>>
    /\ state' = "disconnected"
    /\ UNCHANGED <<conn, timer, sendbuf, sessionVars, passVars, settings>>

ApiDisconnect ==
    /\ InOtherHandler
    /\ \/ /\ state = "reconnecting"
          /\ timers' = Cancel(timers)
          /\ reconnecttime' = 0
          /\ UNCHANGED <<state, socketVars, handlerVars, timer>>
       \/ /\ state \in Live
          /\ timers' = Cancel(timers)
          /\ RemoveHandlers
          /\ conn' = FALSE
          /\ net' = "none"
          /\ inbox' = <<>>
          /\ state' = "disconnected"
          /\ UNCHANGED <<timer, reconnecttime>>
    /\ UNCHANGED <<sendbuf, intentionally_quit, time_last_connected, passVars, settings>>

\* sendmessage and sendmessageline, also from callbacks of the receive loop
ApiSend ==
    /\ InOtherHandler \/ phase = "lines"
    /\ state \in CanSend
    /\ Sends([buf |-> sendbuf, w |-> writers])
    /\ UNCHANGED <<state, socketVars, reader, timerVars, sessionVars, passVars, settings>>

\* connect() completes or is refused, or the peer goes away
NetChanges ==
    /\ phase = "select"
    /\ \/ net = "pending" /\ net' \in {"up", "closed"}
       \/ net = "up" /\ net' = "closed"
    /\ UNCHANGED <<state, conn, inbox, sendbuf, handlerVars, timerVars, sessionVars,
                   passVars, settings>>

ServerSends ==
    /\ phase = "select"
    /\ net = "up"
    /\ Len(inbox) < MaxInbox
    /\ \E m \in Message : inbox' = Append(inbox, m)
    /\ UNCHANGED <<state, conn, net, sendbuf, handlerVars, timerVars, sessionVars,
                   passVars, settings>>

\* more than reconnection_interval_reset_time has passed since the welcome
WelcomeAges ==
    /\ phase = "select"
    /\ time_last_connected = "recent"
    /\ time_last_connected' = "old"
    /\ UNCHANGED <<state, socketVars, sendbuf, handlerVars, timerVars,
                   intentionally_quit, reconnecttime, passVars, settings>>

\* the time of a running timer comes, whatever the loop is doing
TimeComes(t) ==
    /\ timers[t] # Idle
    /\ ~timers[t].due
    /\ timers' = [timers EXCEPT ![t].due = TRUE]
    /\ UNCHANGED <<state, socketVars, sendbuf, handlerVars, timer, sessionVars,
                   passVars, settings>>
-----------------------------------------------------------------------------
\* A new Client; the program connects it before the loop starts or from a
\* handler, which is what phase "timers" allows.
Init ==
    /\ state = "disconnected"
    /\ conn = FALSE
    /\ net = "none"
    /\ inbox = <<>>
    /\ sendbuf = "unset"
    /\ reader = FALSE
    /\ writers = NoWriters
    /\ timer = None
    /\ timers = [t \in TimerId |-> Idle]
    /\ intentionally_quit = FALSE
    /\ reconnecttime = 0
    /\ time_last_connected = "never"
    /\ phase = "timers"
    /\ rcall = FALSE
    /\ wleft = 0
    /\ lines = <<>>
    /\ eof = FALSE
    /\ ssl \in BOOLEAN
    /\ autoreconnect \in BOOLEAN

LoopStep ==
    \/ Select
    \/ OnReadable
    \/ OnWelcome
    \/ OnPong
    \/ OnPing
    \/ OnOwnQuit
    \/ OnOther
    \/ EndOfLines
    \/ EndRead
    \/ OnWritable
    \/ EndWrite
    \/ \E t \in TimerId : TimeoutFires(t) \/ ConnectTimerFires(t) \/ PingTimerFires(t)
    \/ EndTimers

Next ==
    \/ LoopStep
    \/ ApiConnect
    \/ ApiDisconnect
    \/ ApiSend
    \/ NetChanges
    \/ ServerSends
    \/ WelcomeAges
    \/ \E t \in TimerId : TimeComes(t)

\* The loop never rests, and time passes; nothing is assumed of the peer.
Fairness ==
    /\ WF_vars(LoopStep)
    /\ \A t \in TimerId : WF_vars(TimeComes(t))

Spec == Init /\ [][Next]_vars /\ Fairness
-----------------------------------------------------------------------------
TypeOK ==
    /\ state \in State
    /\ conn \in BOOLEAN
    /\ net \in Net
    /\ inbox \in Seq(Message)
    /\ sendbuf \in {"unset", "empty", "data"}
    /\ reader \in BOOLEAN
    /\ writers \in [old : 0..MaxWriters, new : 0..MaxWriters]
    /\ timer \in TimerId \cup {None}
    /\ timers \in [TimerId -> Timer]
    /\ intentionally_quit \in BOOLEAN
    /\ reconnecttime \in 0..MaxBackoff
    /\ time_last_connected \in {"never", "recent", "old"}
    /\ phase \in {"select", "read", "lines", "write", "timers"}
    /\ rcall \in BOOLEAN
    /\ wleft \in Nat
    /\ lines \in Seq(Message)
    /\ eof \in BOOLEAN
    /\ ssl \in BOOLEAN
    /\ autoreconnect \in BOOLEAN

\* the client's timer is running, to call one of cbs
Running(cbs) == timer \in TimerId /\ timers[timer].cb \in cbs

\* At most one timer of a client runs, it is the one _timer can cancel, and it
\* is the one its state calls for: an attempt and an unanswered ping are timed,
\* a connection is always either waiting for its next ping or for an answer,
\* and "reconnecting" waits for a connect timer unless disconnect() took it
\* away (irc.lua:502) or no interval is configured, when nothing is left that
\* could ever end that state. A client that has quit keeps its timer
\* (irc.lua:747), any of the three it can have had.
TimerMatchesState ==
    /\ \A t \in TimerId : t # timer => timers[t] = Idle
    /\ state = "connecting" => Running({"connectingtimeout"})
    /\ state = "sslhandshake" => Running({"sslhandshaketimeout"})
    /\ state = "registering" => Running({"registeringtimeout"})
    /\ state = "connected" => Running({"ping", "pingtimeout"})
    /\ (state = "reconnecting" /\ reconnecttime # 0) => Running({"connect"})
    /\ (state = "reconnecting" /\ reconnecttime = 0) => ~Running(Callback)
    /\ state = "disconnected" =>
           ~Running({"connectingtimeout", "sslhandshaketimeout", "connect"})

\* _reconnect never meets a nil socket: whenever a timeout is running or an end
\* of stream is about to be handled, there is one (irc.lua:454).
SocketToClose ==
    (eof \/ Running(Timeout)) => conn

\* A client is in the middle of a connection exactly as long as it has the
\* socket for it; only one that has quit keeps a socket it does not use. Lines
\* are handled, and an end of stream reported, only where messages can be
\* answered: no handler the loop selected earlier in the pass reads for a
\* connection that is gone, or for the next one that is not up yet (it may
\* call the client all the same, eventloop.lua:75). What was registered
\* before the pass has been called, or is counted anew, when it ends.
PassMatchesState ==
    /\ state \in Live => conn
    /\ state = "reconnecting" => ~conn
    /\ phase = "lines" => state \in CanSend /\ ~rcall
    /\ eof => phase = "lines"
    /\ rcall /\ conn => state \in Live
    /\ phase \in {"select", "timers"} => writers.old = 0

\* The readable handler is registered exactly while there is a connection to
\* hear from, no writable handler outlives its socket, and a connecting client
\* is woken by whichever side of the socket becomes ready (irc.lua:490). A
\* writable handler can outlive the connection: after a quit the client keeps
\* the socket, and a call selected before registers it anew (irc.lua:751,771).
HandlersMatchState ==
    /\ reader <=> state \in Live
    /\ ~conn => writers = NoWriters
    /\ state = "connecting" => writers.old + writers.new > 0

\* Text in _sendbuf is never stranded: a writable handler is registered
\* whenever a connection has some, although every writable handler drops
\* itself and may run again for a registration already gone (irc.lua:767).
NoStuckOutput ==
    (state \in CanSend /\ sendbuf = "data") => writers.old + writers.new > 0

\* Every attempt ends: a client that is connecting, in the SSL handshake or
\* registering gets connected, gives up and retries, or is disconnected, even
\* when the peer never says a word (the three timeouts of irc.lua:258).
AttemptEnds == (state \in Attempting) ~> (state \notin Attempting)

\* A client that waits to reconnect tries again, unless disconnect() cancels
\* the retry (irc.lua:477, irc.lua:503).
RetryHappens ==
    (state = "reconnecting" /\ reconnecttime # 0)
        ~> (state = "connecting" \/ reconnecttime = 0)

\* A client does not stay connected to a server that stopped answering its
\* pings (irc.lua:600).
SilenceNoticed ==
    []<>(\/ state # "connected"
         \/ phase = "lines" /\ lines # <<>> /\ Head(lines) = "PONG")

\* The interval is multiplied after every attempt that fails, up to its maximum
\* (irc.lua:265), whatever the attempts before it did and however often the
\* client connected in between; only disconnect() forgets it. Exempt is what the
\* comment does not say: once the last welcome is older than the reset time,
\* every attempt that fails sets the interval back (irc.lua:462).
BackoffGrows ==
    [][/\ (state # "reconnecting" /\ state' = "reconnecting" /\ reconnecttime # 0)
            => \/ reconnecttime' > reconnecttime \/ reconnecttime' = MaxBackoff
               \/ time_last_connected = "old"
       /\ reconnecttime' < reconnecttime
            => \/ time_last_connected = "old"
               \/ state = "reconnecting" /\ state' = state]_vars

\* irc.lua:294: a client goes to "reconnecting" after an error. What it reads
\* from a connection the peer keeps open is none.
HealthyConnectionKept ==
    [][(phase = "lines" /\ state # state' /\ state' = "reconnecting")
       => net = "closed"]_vars

\* irc.lua:289: a client that has quit is disconnected, until connect().
QuitStaysQuit ==
    [][(state = "disconnected" /\ state' # state) => state' = "connecting"]_vars
=============================================================================
