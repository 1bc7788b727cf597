--------------------------- MODULE IrcClientProofs ---------------------------
(***************************************************************************)
(* The safety invariants of IrcClient hold for any number of timer objects *)
(* and any bounds. Together they are inductive: none of them is on its own.*)
(***************************************************************************)
EXTENDS IrcClient, TLAPS

Writers == [old : 0..MaxWriters, new : 0..MaxWriters]
Output == [buf : {"unset", "empty", "data"}, w : Writers]

\* no timer but the client's own runs in T
OnlyOwn(T) == \A t \in TimerId : t # timer => T[t] = Idle

\* The inductive invariant. That a timer is the only one and that of its state
\* (TimerMatchesState) is what makes a firing timer find the state it expects;
\* where the pass is (PassMatchesState) is what makes a handler find it.
IInv ==
    /\ TypeOK
    /\ TimerMatchesState
    /\ SocketToClose
    /\ PassMatchesState
    /\ HandlersMatchState
    /\ NoStuckOutput
-----------------------------------------------------------------------------
(* The parts every operation is made of.                                   *)

\* a timer cancelled through _timer leaves none running
LEMMA CancelIdles ==
    ASSUME NEW T \in [TimerId -> Timer], OnlyOwn(T)
    PROVE  Cancel(T) = [t \in TimerId |-> Idle]
  BY DEF Cancel, OnlyOwn

LEMMA IdleIsTimer == Idle \in Timer /\ Idle.cb \notin Callback
  BY DEF Idle, Timer, Callback, Timeout

\* after the cancellation, the new timer is the only one
LEMMA ArmAfterCancel ==
    ASSUME timer \in TimerId \cup {None},
           NEW T \in [TimerId -> Timer], OnlyOwn(T),
           NEW cb \in Callback, Arm(Cancel(T), cb)
    PROVE  /\ timer' \in TimerId
           /\ timers' \in [TimerId -> Timer]
           /\ \A t \in TimerId : t # timer' => timers'[t] = Idle
           /\ timers'[timer'].cb = cb
  <1>1. Cancel(T) = [t \in TimerId |-> Idle]
    BY CancelIdles
  <1>2. PICK t \in TimerId \ {timer} :
            /\ timer' = t
            /\ timers' = [Cancel(T) EXCEPT ![t] = [cb |-> cb, due |-> FALSE]]
    BY DEF Arm
  <1>3. [cb |-> cb, due |-> FALSE] \in Timer
    BY DEF Timer
  <1> QED
    BY <1>1, <1>2, <1>3, IdleIsTimer

\* registering once more is seen
LEMMA AddWriterAdds ==
    ASSUME NEW w \in Writers
    PROVE  /\ AddWriter(w) \in Writers
           /\ AddWriter(w).old = w.old
           /\ AddWriter(w).new > 0
  BY BoundsAssumption DEF AddWriter, Writers

LEMMA VisitedIsWriters ==
    ASSUME NEW w \in Writers
    PROVE  Visited(w) \in Writers /\ Visited(w).new = w.new
  BY BoundsAssumption DEF Visited, Writers

\* text is only left in the buffer with a registration made for it
LEMMA SendRegisters ==
    ASSUME NEW o \in Output, NEW r \in Send(o)
    PROVE  /\ r \in Output
           /\ r.w.old = o.w.old
           /\ r.w.new > 0 \/ r.w = o.w
           /\ r.buf = "data" => r.w.new > 0
  <1>1. o.w \in Writers
    BY DEF Output
  <1>2. (r = o /\ o.buf # "data") \/ r = [buf |-> "data", w |-> AddWriter(o.w)]
    BY DEF Send
  <1> QED
    BY <1>1, <1>2, AddWriterAdds DEF Output

LEMMA SendsRegisters ==
    ASSUME NEW o \in Output, Sends(o)
    PROVE  /\ sendbuf' \in {"unset", "empty", "data"}
           /\ writers' \in Writers
           /\ writers'.old = o.w.old
           /\ writers'.new > 0 \/ writers' = o.w
           /\ sendbuf' = "data" => writers'.new > 0
  BY SendRegisters DEF Sends, Output

LEMMA NothingRead == <<>> \in Seq(Message)
  OBVIOUS

LEMMA IntervalType ==
    ASSUME TypeOK
    PROVE  /\ NextInterval \in 0..MaxBackoff
           /\ NextInterval = 0 <=> ~autoreconnect
  BY BoundsAssumption DEF TypeOK, NextInterval
-----------------------------------------------------------------------------
(* The operations: each leads from the invariant to the invariant, wherever *)
(* in a pass it is called.                                                 *)

\* what the pass may do while an operation runs that can end a connection
PassGoesOn ==
    /\ UNCHANGED settings
    /\ phase' \in {"select", "read", "write", "timers"}
    /\ rcall' \in BOOLEAN
    /\ wleft' \in Nat
    /\ lines' \in Seq(Message)
    /\ eof' = FALSE

LEMMA ReconnectKeeps ==
    ASSUME IInv, NEW T \in [TimerId -> Timer], OnlyOwn(T), Reconnect(T), PassGoesOn
    PROVE  IInv'
  <1> USE DEF IInv
  <1>1. /\ state' = "reconnecting" /\ conn' = FALSE /\ net' = "none" /\ inbox' = <<>>
        /\ reader' = FALSE /\ writers' = NoWriters /\ UNCHANGED autoreconnect
        /\ reconnecttime' \in 0..MaxBackoff
        /\ reconnecttime' = 0 <=> ~autoreconnect
        /\ UNCHANGED <<sendbuf, intentionally_quit, time_last_connected>>
    BY IntervalType DEF Reconnect, RemoveHandlers, PassGoesOn, settings
  <1>2. /\ timer' \in TimerId \cup {None}
        /\ timers' \in [TimerId -> Timer]
        /\ \A t \in TimerId : t # timer' => timers'[t] = Idle
        /\ autoreconnect => timer' \in TimerId /\ timers'[timer'].cb = "connect"
        /\ ~autoreconnect => timers' = [t \in TimerId |-> Idle] /\ timer' = timer
    <2>1. CASE autoreconnect
      <3>1. "connect" \in Callback /\ Arm(Cancel(T), "connect")
        BY <2>1 DEF Reconnect, Callback
      <3>2. timer \in TimerId \cup {None}
        BY DEF TypeOK
      <3> HIDE DEF IInv
      <3> QED
        BY <2>1, <3>1, <3>2, ArmAfterCancel
    <2>2. CASE ~autoreconnect
      <3>1. timers' = [t \in TimerId |-> Idle] /\ timer' = timer
        BY <2>2, CancelIdles DEF Reconnect
      <3> QED
        BY <2>2, <3>1, IdleIsTimer DEF TypeOK
    <2> QED
      BY <2>1, <2>2
  <1>3. TypeOK'
    <2>1. NoWriters \in [old : 0..MaxWriters, new : 0..MaxWriters]
      BY BoundsAssumption DEF NoWriters
    <2> QED
      BY <1>1, <1>2, <2>1, NothingRead DEF TypeOK, PassGoesOn, settings, State, Net
  <1>4. ~Running(Timeout)'
    <2>1. "connect" \notin Timeout /\ Idle.cb \notin Timeout
      BY DEF Timeout, Idle
    <2> QED
      BY <1>2, <2>1 DEF Running
  <1>5. TimerMatchesState'
    <2>1. autoreconnect => Running({"connect"})'
      BY <1>2 DEF Running
    <2>2. ~autoreconnect => ~Running(Callback)'
      BY <1>2, IdleIsTimer DEF Running
    <2> QED
      BY <1>1, <1>2, <2>1, <2>2 DEF TimerMatchesState
  <1>6. SocketToClose' /\ PassMatchesState' /\ HandlersMatchState' /\ NoStuckOutput'
    BY <1>1, <1>4 DEF PassGoesOn, SocketToClose, PassMatchesState, HandlersMatchState,
       NoStuckOutput, NoWriters, Live, Attempting, CanSend
  <1> QED
    BY <1>3, <1>5, <1>6

LEMMA ConnectKeeps ==
    ASSUME IInv, NEW T \in [TimerId -> Timer], OnlyOwn(T), Connect(T),
           InOtherHandler, UNCHANGED passVars, UNCHANGED settings
    PROVE  IInv'
  <1> USE DEF IInv
  <1>1. /\ state' = "connecting" /\ conn' = TRUE /\ net' \in {"pending", "dead"}
        /\ inbox' = <<>> /\ reader' = TRUE /\ writers' = AddWriter(NoWriters)
        /\ intentionally_quit' = FALSE
        /\ UNCHANGED <<sendbuf, reconnecttime, time_last_connected>>
    BY DEF Connect
  <1>2. writers' \in Writers /\ writers'.old = 0 /\ writers'.new > 0
    <2>1. NoWriters \in Writers /\ NoWriters.old = 0
      BY BoundsAssumption DEF NoWriters, Writers
    <2> QED
      BY <1>1, <2>1, AddWriterAdds
  <1>3. /\ timer' \in TimerId
        /\ timers' \in [TimerId -> Timer]
        /\ \A t \in TimerId : t # timer' => timers'[t] = Idle
        /\ timers'[timer'].cb = "connectingtimeout"
    <2>1. "connectingtimeout" \in Callback /\ Arm(Cancel(T), "connectingtimeout")
      BY DEF Connect, Callback, Timeout
    <2>2. timer \in TimerId \cup {None}
      BY DEF TypeOK
    <2> QED
      BY <2>1, <2>2, ArmAfterCancel
  <1>4. TypeOK'
    <2>1. /\ state' \in State /\ conn' \in BOOLEAN /\ net' \in Net /\ inbox' \in Seq(Message)
          /\ reader' \in BOOLEAN /\ intentionally_quit' \in BOOLEAN
      BY <1>1, NothingRead DEF State, Live, Attempting, Net
    <2>2. /\ sendbuf' \in {"unset", "empty", "data"} /\ reconnecttime' \in 0..MaxBackoff
          /\ time_last_connected' \in {"never", "recent", "old"}
      BY <1>1 DEF TypeOK
    <2>3. writers' \in [old : 0..MaxWriters, new : 0..MaxWriters]
      BY <1>2 DEF Writers
    <2>4. /\ phase' = phase /\ rcall' = rcall /\ wleft' = wleft /\ lines' = lines /\ eof' = eof
          /\ ssl' = ssl /\ autoreconnect' = autoreconnect
      BY DEF passVars, settings
    <2>5. timer' \in TimerId \cup {None} /\ timers' \in [TimerId -> Timer]
      BY <1>3
    <2> QED
      BY <2>1, <2>2, <2>3, <2>4, <2>5 DEF TypeOK
  <1>5. TimerMatchesState'
    BY <1>1, <1>3 DEF TimerMatchesState, Running
  <1>6. SocketToClose' /\ PassMatchesState' /\ HandlersMatchState' /\ NoStuckOutput'
    BY <1>1, <1>2 DEF InOtherHandler, passVars, SocketToClose, PassMatchesState,
       HandlersMatchState, NoStuckOutput, Writers, Live, Attempting, CanSend
  <1> QED
    BY <1>4, <1>5, <1>6

LEMMA OwnTimersOnly == IInv => OnlyOwn(timers) /\ timers \in [TimerId -> Timer]
  BY DEF IInv, TimerMatchesState, OnlyOwn, TypeOK

\* the new state is that of an attempt, and its timer runs
LEMMA HandshakeDoneKeeps ==
    ASSUME IInv, conn, NEW w \in Writers, HandshakeDone(w), reader',
           phase \in {"read", "write"}, UNCHANGED settings, UNCHANGED phase,
           rcall' \in BOOLEAN, wleft' \in Nat, UNCHANGED lines, eof' = FALSE
    PROVE  IInv'
  <1> USE DEF IInv
  <1>1. /\ state' = "registering" /\ reader' = TRUE
        /\ UNCHANGED <<conn, net, inbox, intentionally_quit, reconnecttime,
                       time_last_connected>>
    BY DEF HandshakeDone, socketVars, sessionVars, TypeOK
  <1>2. /\ sendbuf' \in {"unset", "empty", "data"}
        /\ writers' \in Writers
        /\ sendbuf' = "data" => writers'.new > 0
    <2>1. PICK r \in Send([buf |-> "empty", w |-> w]) : Sends(r)
      BY DEF HandshakeDone
    <2>2. [buf |-> "empty", w |-> w] \in Output
      BY DEF Output
    <2>3. r \in Output
      BY <2>1, <2>2, SendRegisters
    <2> QED
      BY <2>1, <2>3, SendsRegisters
  <1>3. /\ timer' \in TimerId
        /\ timers' \in [TimerId -> Timer]
        /\ \A t \in TimerId : t # timer' => timers'[t] = Idle
        /\ timers'[timer'].cb = "registeringtimeout"
    <2>1. "registeringtimeout" \in Callback /\ Arm(Cancel(timers), "registeringtimeout")
      BY DEF HandshakeDone, Callback, Timeout
    <2>2. timer \in TimerId \cup {None}
      BY DEF TypeOK
    <2> QED
      BY <2>1, <2>2, ArmAfterCancel, OwnTimersOnly
  <1>4. TypeOK'
    BY <1>1, <1>2, <1>3
       DEF TypeOK, settings, State, Live, Attempting, Net, Writers
  <1>5. TimerMatchesState'
    BY <1>1, <1>3 DEF TimerMatchesState, Running
  <1>6. SocketToClose' /\ PassMatchesState' /\ HandlersMatchState' /\ NoStuckOutput'
    BY <1>1, <1>2 DEF SocketToClose, PassMatchesState,
       HandlersMatchState, NoStuckOutput, Writers, Live, Attempting, CanSend
  <1> QED
    BY <1>4, <1>5, <1>6

\* a handler of the pass is called, and reads no line
HandlerCalled ==
    /\ phase \in {"read", "write"}
    /\ rcall' \in BOOLEAN
    /\ wleft' \in Nat
    /\ UNCHANGED <<phase, lines, eof>>
    /\ UNCHANGED settings

LEMMA HandlerCalledGoesOn ==
    ASSUME IInv, HandlerCalled
    PROVE  PassGoesOn /\ eof' = FALSE
  BY DEF IInv, TypeOK, PassMatchesState, HandlerCalled, PassGoesOn

LEMMA DoSslHandshakeKeeps ==
    ASSUME IInv, state = "sslhandshake", NEW w \in Writers, DoSslHandshake(w),
           HandlerCalled
    PROVE  IInv'
  <1>1. conn /\ reader
    BY DEF IInv, PassMatchesState, HandlersMatchState, Live, Attempting
  <1>2. CASE HandshakeDone(w) /\ UNCHANGED reader
    BY <1>1, <1>2, HandshakeDoneKeeps, HandlerCalledGoesOn DEF HandlerCalled
  <1>3. CASE /\ writers' \in {w, AddWriter(w)}
             /\ UNCHANGED <<state, socketVars, sendbuf, reader, timerVars, sessionVars>>
    <2>1. writers' \in Writers
      BY <1>3, AddWriterAdds
    <2>2. TypeOK'
      BY <1>3, <2>1, HandlerCalledGoesOn
         DEF IInv, TypeOK, HandlerCalled, settings, socketVars, timerVars, sessionVars,
             Writers
    <2>3. TimerMatchesState'
      BY <1>3 DEF IInv, TimerMatchesState, Running, timerVars, sessionVars
    <2>4. SocketToClose' /\ PassMatchesState' /\ HandlersMatchState' /\ NoStuckOutput'
      BY <1>1, <1>3, HandlerCalledGoesOn DEF IInv, HandlerCalled, SocketToClose,
         PassMatchesState, HandlersMatchState, NoStuckOutput, socketVars, Live,
         Attempting, CanSend
    <2> QED
      BY <2>2, <2>3, <2>4 DEF IInv
  <1>4. CASE Reconnect(timers)
    BY <1>4, ReconnectKeeps, OwnTimersOnly, HandlerCalledGoesOn
  <1> QED
    BY <1>2, <1>3, <1>4 DEF DoSslHandshake

LEMMA StartSslKeeps ==
    ASSUME IInv, state = "connecting", StartSsl, HandlerCalled
    PROVE  IInv'
  <1> DEFINE w == AddWriter(NoWriters)
  <1>1. conn
    BY DEF IInv, PassMatchesState, Live, Attempting
  <1>2. w \in Writers
    <2>1. NoWriters \in Writers
      BY BoundsAssumption DEF NoWriters, Writers
    <2> QED
      BY <2>1, AddWriterAdds
  <1> HIDE DEF w
  <1>3. CASE reader' = TRUE /\ HandshakeDone(w)
    BY <1>1, <1>2, <1>3, HandshakeDoneKeeps, HandlerCalledGoesOn DEF HandlerCalled
  <1>4. CASE /\ reader' = TRUE
             /\ writers' \in {w, AddWriter(w)}
             /\ state' = "sslhandshake"
             /\ Arm(Cancel(timers), "sslhandshaketimeout")
             /\ UNCHANGED <<socketVars, sendbuf, sessionVars>>
    <2>1. writers' \in Writers
      BY <1>2, <1>4, AddWriterAdds
    <2>2. /\ timer' \in TimerId
          /\ timers' \in [TimerId -> Timer]
          /\ \A t \in TimerId : t # timer' => timers'[t] = Idle
          /\ timers'[timer'].cb = "sslhandshaketimeout"
      <3>1. "sslhandshaketimeout" \in Callback
        BY DEF Callback, Timeout
      <3>2. timer \in TimerId \cup {None}
        BY DEF IInv, TypeOK
      <3> QED
        BY <1>4, <3>1, <3>2, ArmAfterCancel, OwnTimersOnly
    <2>3. TypeOK'
      BY <1>4, <2>1, <2>2 DEF IInv, TypeOK, HandlerCalled, settings, socketVars,
         sessionVars, Writers, State, Live, Attempting
    <2>4. TimerMatchesState'
      BY <1>4, <2>2 DEF TimerMatchesState, Running
    <2>5. SocketToClose' /\ PassMatchesState' /\ HandlersMatchState' /\ NoStuckOutput'
      BY <1>1, <1>4, HandlerCalledGoesOn DEF IInv, HandlerCalled, SocketToClose,
         PassMatchesState, HandlersMatchState, NoStuckOutput, socketVars, Live,
         Attempting, CanSend
    <2> QED
      BY <2>3, <2>4, <2>5 DEF IInv
  <1>5. CASE Reconnect(timers)
    BY <1>5, ReconnectKeeps, OwnTimersOnly, HandlerCalledGoesOn
  <1> QED
    BY <1>3, <1>4, <1>5 DEF StartSsl, w

LEMMA OnSocketConnectedKeeps ==
    ASSUME IInv, state = "connecting", NEW w \in Writers, OnSocketConnected(w),
           HandlerCalled
    PROVE  IInv'
  <1>1. conn /\ reader
    BY DEF IInv, PassMatchesState, HandlersMatchState, Live, Attempting
  <1>2. CASE ssl
    BY <1>2, StartSslKeeps DEF OnSocketConnected
  <1>3. CASE ~ssl
    <2>1. HandshakeDone(w) /\ reader'
      BY <1>1, <1>3 DEF OnSocketConnected
    <2> QED
      BY <1>1, <2>1, HandshakeDoneKeeps, HandlerCalledGoesOn DEF HandlerCalled
  <1> QED
    BY <1>2, <1>3
-----------------------------------------------------------------------------
(* The steps.                                                              *)

LEMMA InitEstablishes == Init => IInv
  <1> SUFFICES ASSUME Init PROVE IInv
    OBVIOUS
  <1>1. NoWriters \in [old : 0..MaxWriters, new : 0..MaxWriters]
    BY BoundsAssumption DEF NoWriters
  <1>2. TypeOK
    <2>1. timers \in [TimerId -> Timer]
      BY IdleIsTimer DEF Init
    <2>2. reconnecttime \in 0..MaxBackoff /\ wleft \in Nat
      BY BoundsAssumption DEF Init
    <2>3. inbox \in Seq(Message) /\ lines \in Seq(Message)
      BY NothingRead DEF Init
    <2> QED
      BY <1>1, <2>1, <2>2, <2>3 DEF Init, TypeOK, State, Net
  <1>3. TimerMatchesState
    BY TimerIdAssumption DEF Init, TimerMatchesState, Running
  <1>4. SocketToClose
    BY TimerIdAssumption DEF Init, SocketToClose, Running
  <1>5. PassMatchesState
    BY DEF Init, PassMatchesState, NoWriters, Live, Attempting
  <1>6. HandlersMatchState
    BY DEF Init, HandlersMatchState, Live, Attempting
  <1>7. NoStuckOutput
    BY DEF Init, NoStuckOutput
  <1> QED
    BY <1>2, <1>3, <1>4, <1>5, <1>6, <1>7 DEF IInv

\* Steps that neither touch the timers nor the state of the client, nor what
\* is registered and queued, except that they may register and queue more.
LEMMA TimersUntouched ==
    ASSUME IInv, UNCHANGED <<state, timer, timers, reconnecttime>>
    PROVE  TimerMatchesState'
  BY DEF IInv, TimerMatchesState, Running

LEMMA SendKeeps ==
    ASSUME IInv, state \in CanSend, Sends([buf |-> sendbuf, w |-> writers]),
           UNCHANGED <<state, conn, reader>>
    PROVE  /\ sendbuf' \in {"unset", "empty", "data"}
           /\ writers' \in Writers
           /\ writers'.old = writers.old
           /\ HandlersMatchState'
           /\ NoStuckOutput'
  <1>1. [buf |-> sendbuf, w |-> writers] \in Output
    BY DEF IInv, TypeOK, Output, Writers
  <1>2. /\ sendbuf' \in {"unset", "empty", "data"}
        /\ writers' \in Writers
        /\ writers'.old = writers.old
        /\ sendbuf' = "data" => writers'.new > 0
    BY <1>1, SendsRegisters
  <1>3. conn
    BY DEF IInv, PassMatchesState, CanSend, Live, Attempting
  <1>4. HandlersMatchState'
    BY <1>3 DEF IInv, HandlersMatchState, CanSend
  <1>5. NoStuckOutput'
    BY <1>2 DEF NoStuckOutput, Writers
  <1> QED
    BY <1>2, <1>4, <1>5

LEMMA SelectKeeps == IInv /\ Select => IInv'
  <1> SUFFICES ASSUME IInv, Select PROVE IInv'
    OBVIOUS
  <1>1. /\ phase = "select" /\ phase' = "read"
        /\ UNCHANGED <<state, conn, net, inbox, sendbuf, reader, timer, timers,
                       intentionally_quit, reconnecttime, time_last_connected,
                       lines, eof, ssl, autoreconnect>>
        /\ rcall' \in BOOLEAN /\ (rcall' => reader)
        /\ wleft' \in {0, writers.new * writers.new}
        /\ writers' = [old |-> writers.new, new |-> 0]
    BY DEF Select, socketVars, timerVars, sessionVars, settings, IInv, TypeOK
  <1>2. writers.old = 0 /\ writers \in Writers
    BY <1>1 DEF IInv, PassMatchesState, TypeOK, Writers
  <1>3. /\ writers' \in Writers /\ wleft' \in Nat
        /\ writers'.old + writers'.new = writers.old + writers.new
        /\ writers = NoWriters => writers' = NoWriters
    BY <1>1, <1>2, BoundsAssumption DEF Writers, NoWriters
  <1>4. TypeOK'
    BY <1>1, <1>3 DEF IInv, TypeOK, Writers
  <1>5. SocketToClose' /\ PassMatchesState'
    BY <1>1 DEF IInv, SocketToClose, PassMatchesState, HandlersMatchState, Running
  <1>6. HandlersMatchState'
    BY <1>1, <1>3 DEF IInv, HandlersMatchState
  <1>7. NoStuckOutput'
    BY <1>1, <1>3 DEF IInv, NoStuckOutput
  <1> QED
    BY <1>1, <1>4, <1>5, <1>6, <1>7, TimersUntouched DEF IInv

LEMMA OnReadableKeeps == IInv /\ OnReadable => IInv'
  <1> SUFFICES ASSUME IInv, OnReadable PROVE IInv'
    OBVIOUS
  <1>1. writers \in Writers
    BY DEF IInv, TypeOK, Writers
  <1>2. CASE /\ state \in {"connecting", "sslhandshake"}
             /\ state = "connecting" => OnSocketConnected(writers)
             /\ state = "sslhandshake" => DoSslHandshake(writers)
             /\ UNCHANGED <<phase, lines, eof>>
    <2>1. HandlerCalled
      BY <1>2 DEF OnReadable, HandlerCalled, IInv, TypeOK
    <2> QED
      BY <1>1, <1>2, <2>1, OnSocketConnectedKeeps, DoSslHandshakeKeeps
  <1>3. CASE /\ state \notin {"connecting", "sslhandshake"}
             /\ Receive
             /\ UNCHANGED <<state, conn, net, sendbuf, handlerVars, timerVars, sessionVars>>
    <2>1. /\ phase = "read" /\ rcall /\ rcall' = FALSE
          /\ UNCHANGED <<state, conn, net, sendbuf, reader, writers, timer, timers, wleft,
                         intentionally_quit, reconnecttime, time_last_connected,
                         ssl, autoreconnect>>
      BY <1>3 DEF OnReadable, handlerVars, timerVars, sessionVars, settings
    <2>2. CASE conn /\ net \in {"up", "closed"}
      <3>1. /\ inbox' = <<>> /\ lines' = inbox /\ phase' = "lines" /\ eof' \in BOOLEAN
        BY <1>3, <2>2 DEF Receive
      <3>2. state \in CanSend
        BY <1>3, <2>1, <2>2 DEF IInv, PassMatchesState, Live, Attempting, CanSend
      <3>3. TypeOK'
        BY <2>1, <3>1, NothingRead DEF IInv, TypeOK
      <3>4. SocketToClose' /\ PassMatchesState' /\ HandlersMatchState' /\ NoStuckOutput'
        BY <2>1, <2>2, <3>1, <3>2 DEF IInv, SocketToClose, PassMatchesState,
           HandlersMatchState, NoStuckOutput, Running
      <3> QED
        BY <2>1, <3>3, <3>4, TimersUntouched DEF IInv
    <2>3. CASE ~(conn /\ net \in {"up", "closed"})
      <3>1. UNCHANGED <<inbox, lines, eof, phase>>
        BY <1>3, <2>3 DEF Receive
      <3>2. TypeOK'
        BY <2>1, <3>1 DEF IInv, TypeOK
      <3>3. SocketToClose' /\ PassMatchesState' /\ HandlersMatchState' /\ NoStuckOutput'
        BY <2>1, <3>1 DEF IInv, SocketToClose, PassMatchesState,
           HandlersMatchState, NoStuckOutput, Running
      <3> QED
        BY <2>1, <3>2, <3>3, TimersUntouched DEF IInv
    <2> QED
      BY <2>2, <2>3
  <1> QED
    BY <1>2, <1>3 DEF OnReadable

\* what handling a line leaves alone
LEMMA LineHandled ==
    ASSUME IInv, NEW kind, NextLine(kind)
    PROVE  /\ phase = "lines" /\ phase' = "lines" /\ state \in CanSend /\ conn
           /\ lines' \in Seq(Message)
           /\ UNCHANGED <<rcall, wleft, eof, conn, net, inbox, reader, reconnecttime,
                          ssl, autoreconnect>>
  <1>1. lines \in Seq(Message) /\ lines # <<>> /\ lines' = Tail(lines)
    BY DEF NextLine, IInv, TypeOK
  <1>2. Tail(lines) \in Seq(Message)
    BY <1>1
  <1> QED
    BY <1>1, <1>2 DEF NextLine, socketVars, settings, IInv, PassMatchesState, CanSend,
       Live, Attempting

LEMMA LinesKeep ==
    IInv /\ (OnWelcome \/ OnPong \/ OnPing \/ OnOwnQuit \/ OnOther) => IInv'
  <1> SUFFICES ASSUME IInv, OnWelcome \/ OnPong \/ OnPing \/ OnOwnQuit \/ OnOther
               PROVE  IInv'
    OBVIOUS
  <1>1. /\ phase = "lines" /\ phase' = "lines" /\ state \in CanSend /\ conn
        /\ lines' \in Seq(Message)
        /\ UNCHANGED <<rcall, wleft, eof, conn, net, inbox, reader, reconnecttime,
                       ssl, autoreconnect>>
    BY LineHandled DEF OnWelcome, OnPong, OnPing, OnOwnQuit, OnOther
  <1>2. CASE OnWelcome /\ state = "registering"
    <2>1. /\ state' = "connected" /\ time_last_connected' = "recent"
          /\ Sends([buf |-> sendbuf, w |-> writers])
          /\ Arm(Cancel(Cancel(timers)), "pingtimeout")
          /\ UNCHANGED intentionally_quit
      BY <1>2 DEF OnWelcome, Ping
    <2>2. /\ timer' \in TimerId
          /\ timers' \in [TimerId -> Timer]
          /\ \A t \in TimerId : t # timer' => timers'[t] = Idle
          /\ timers'[timer'].cb = "pingtimeout"
      <3>1. Cancel(timers) \in [TimerId -> Timer] /\ OnlyOwn(Cancel(timers))
        BY OwnTimersOnly, CancelIdles, IdleIsTimer DEF OnlyOwn
      <3>2. "pingtimeout" \in Callback /\ timer \in TimerId \cup {None}
        BY DEF Callback, Timeout, IInv, TypeOK
      <3> QED
        BY <2>1, <3>1, <3>2, ArmAfterCancel
    <2>3. /\ sendbuf' \in {"unset", "empty", "data"}
          /\ writers' \in Writers
          /\ writers'.old = writers.old
          /\ sendbuf' = "data" => writers'.new > 0
      <3>1. [buf |-> sendbuf, w |-> writers] \in Output
        BY DEF IInv, TypeOK, Output, Writers
      <3> QED
        BY <2>1, <3>1, SendsRegisters
    <2>4. TypeOK'
      BY <1>1, <2>1, <2>2, <2>3 DEF IInv, TypeOK, State, Live, Writers
    <2>5. TimerMatchesState'
      BY <2>1, <2>2 DEF TimerMatchesState, Running
    <2>6. SocketToClose' /\ PassMatchesState'
      BY <1>1, <2>1 DEF IInv, SocketToClose, PassMatchesState, CanSend, Live
    <2>7. HandlersMatchState'
      BY <1>1, <1>2, <2>1 DEF IInv, HandlersMatchState, Live, Attempting
    <2>8. NoStuckOutput'
      BY <2>3 DEF NoStuckOutput, Writers
    <2> QED
      BY <2>4, <2>5, <2>6, <2>7, <2>8 DEF IInv
  <1>3. CASE OnPong /\ state = "connected"
    <2>1. /\ Arm(Cancel(timers), "ping")
          /\ UNCHANGED <<state, sendbuf, writers, intentionally_quit, time_last_connected>>
      BY <1>3 DEF OnPong
    <2>2. /\ timer' \in TimerId
          /\ timers' \in [TimerId -> Timer]
          /\ \A t \in TimerId : t # timer' => timers'[t] = Idle
          /\ timers'[timer'].cb = "ping"
      <3>1. "ping" \in Callback /\ timer \in TimerId \cup {None}
        BY DEF Callback, IInv, TypeOK
      <3> QED
        BY <2>1, <3>1, OwnTimersOnly, ArmAfterCancel
    <2>3. TypeOK'
      BY <1>1, <2>1, <2>2 DEF IInv, TypeOK
    <2>4. TimerMatchesState'
      BY <1>3, <2>1, <2>2 DEF TimerMatchesState, Running
    <2>5. SocketToClose' /\ PassMatchesState' /\ HandlersMatchState' /\ NoStuckOutput'
      BY <1>1, <2>1 DEF IInv, SocketToClose, PassMatchesState, HandlersMatchState,
         NoStuckOutput
    <2> QED
      BY <2>3, <2>4, <2>5 DEF IInv
  <1>4. CASE OnPing
    <2>1. /\ Sends([buf |-> sendbuf, w |-> writers])
          /\ UNCHANGED <<state, timer, timers, intentionally_quit, time_last_connected>>
      BY <1>1, <1>4 DEF OnPing, timerVars
    <2>2. /\ sendbuf' \in {"unset", "empty", "data"}
          /\ writers' \in Writers
          /\ writers'.old = writers.old
          /\ HandlersMatchState'
          /\ NoStuckOutput'
      BY <1>1, <2>1, SendKeeps
    <2>3. TypeOK'
      BY <1>1, <2>1, <2>2 DEF IInv, TypeOK, Writers
    <2>4. SocketToClose' /\ PassMatchesState'
      BY <1>1, <2>1 DEF IInv, SocketToClose, PassMatchesState
    <2> QED
      BY <1>1, <2>1, <2>2, <2>3, <2>4, TimersUntouched DEF IInv
  <1>5. CASE \/ OnWelcome /\ state # "registering"
             \/ OnPong /\ state # "connected"
             \/ OnOwnQuit
             \/ OnOther
    <2>1. /\ UNCHANGED <<state, sendbuf, writers, timer, timers, time_last_connected>>
          /\ intentionally_quit' \in BOOLEAN
      BY <1>5 DEF OnWelcome, OnPong, OnOwnQuit, OnOther, timerVars, IInv, TypeOK
    <2>2. TypeOK'
      BY <1>1, <2>1 DEF IInv, TypeOK
    <2>3. SocketToClose' /\ PassMatchesState' /\ HandlersMatchState' /\ NoStuckOutput'
      BY <1>1, <2>1 DEF IInv, SocketToClose, PassMatchesState, HandlersMatchState,
         NoStuckOutput, Running
    <2> QED
      BY <1>1, <2>1, <2>2, <2>3, TimersUntouched DEF IInv
  <1> QED
    BY <1>2, <1>3, <1>4, <1>5

LEMMA EndOfLinesKeeps == IInv /\ EndOfLines => IInv'
  <1> SUFFICES ASSUME IInv, EndOfLines PROVE IInv'
    OBVIOUS
  <1>1. /\ phase = "lines" /\ phase' = "read" /\ eof' = FALSE
        /\ state \in CanSend /\ ~rcall
        /\ UNCHANGED <<rcall, wleft, lines, ssl, autoreconnect>>
    BY DEF EndOfLines, settings, IInv, PassMatchesState
  <1>2. CASE UNCHANGED <<state, socketVars, sendbuf, handlerVars, timerVars, sessionVars>>
    <2>1. UNCHANGED <<state, conn, net, inbox, sendbuf, reader, writers, timer, timers,
                      intentionally_quit, reconnecttime, time_last_connected>>
      BY <1>2 DEF socketVars, handlerVars, timerVars, sessionVars
    <2>2. TypeOK'
      BY <1>1, <2>1 DEF IInv, TypeOK
    <2>3. SocketToClose' /\ PassMatchesState' /\ HandlersMatchState' /\ NoStuckOutput'
      BY <1>1, <2>1 DEF IInv, SocketToClose, PassMatchesState, HandlersMatchState,
         NoStuckOutput, Running
    <2> QED
      BY <2>1, <2>2, <2>3, TimersUntouched DEF IInv
  <1>3. CASE /\ state' = "disconnected"
             /\ RemoveHandlers
             /\ UNCHANGED <<socketVars, sendbuf, timerVars, sessionVars>>
    <2>1. /\ reader' = FALSE /\ writers' = NoWriters
          /\ UNCHANGED <<conn, net, inbox, sendbuf, timer, timers,
                         intentionally_quit, reconnecttime, time_last_connected>>
      BY <1>3 DEF RemoveHandlers, socketVars, timerVars, sessionVars
    <2>2. TypeOK'
      <3>1. NoWriters \in [old : 0..MaxWriters, new : 0..MaxWriters]
        BY BoundsAssumption DEF NoWriters
      <3> QED
        BY <1>1, <1>3, <2>1, <3>1 DEF IInv, TypeOK, State
    <2>3. TimerMatchesState'
      BY <1>1, <1>3, <2>1 DEF IInv, TimerMatchesState, Running, CanSend
    <2>4. SocketToClose' /\ PassMatchesState' /\ HandlersMatchState' /\ NoStuckOutput'
      BY <1>1, <1>3, <2>1 DEF IInv, SocketToClose, PassMatchesState,
         HandlersMatchState, NoStuckOutput, Running, CanSend, Live, Attempting
    <2> QED
      BY <2>2, <2>3, <2>4 DEF IInv
  <1>4. CASE Reconnect(timers)
    <2>1. PassGoesOn
      BY <1>1 DEF PassGoesOn, settings, IInv, TypeOK
    <2> QED
      BY <1>4, <2>1, ReconnectKeeps, OwnTimersOnly
  <1> QED
    BY <1>2, <1>3, <1>4 DEF EndOfLines

LEMMA OnWritableKeeps == IInv /\ OnWritable => IInv'
  <1> SUFFICES ASSUME IInv, OnWritable PROVE IInv'
    OBVIOUS
  <1>1. HandlerCalled /\ phase = "write" /\ UNCHANGED rcall
    BY DEF OnWritable, HandlerCalled, IInv, TypeOK
  <1>2. writers \in Writers
    BY DEF IInv, TypeOK, Writers
  <1>3. Visited(writers) \in Writers
    BY <1>2, VisitedIsWriters
  <1>4. CASE state = "connecting" /\ OnSocketConnected(Visited(writers))
    BY <1>1, <1>3, <1>4, OnSocketConnectedKeeps
  <1>5. CASE state = "sslhandshake" /\ DoSslHandshake(Visited(writers))
    BY <1>1, <1>3, <1>5, DoSslHandshakeKeeps
  <1>6. CASE /\ state \notin {"connecting", "sslhandshake"}
             /\ Flush(Visited(writers))
             /\ UNCHANGED <<state, socketVars, reader, timerVars, sessionVars>>
    <2>1. UNCHANGED <<state, conn, net, inbox, reader, timer, timers, phase, rcall,
                      intentionally_quit, reconnecttime, time_last_connected>>
      BY <1>1, <1>6 DEF socketVars, timerVars, sessionVars, HandlerCalled
    <2>2. \* what is left is text with a registration, or there is no connection
          /\ sendbuf' \in {"unset", "empty", "data"}
          /\ \/ writers' = Visited(writers) /\ (sendbuf' # "data" \/ ~conn)
             \/ conn /\ writers' = AddWriter(Visited(writers))
      BY <1>6 DEF Flush, IInv, TypeOK
    <2>3. writers' \in Writers
      BY <1>3, <2>2, AddWriterAdds
    <2>4. TypeOK'
      BY <1>1, <2>1, <2>2, <2>3 DEF IInv, TypeOK, HandlerCalled, settings, Writers
    <2>5. SocketToClose' /\ PassMatchesState'
      BY <1>1, <2>1 DEF IInv, SocketToClose, PassMatchesState, Running, HandlerCalled
    <2>6. HandlersMatchState'
      <3>1. ~conn => writers' = NoWriters
        BY <2>2 DEF IInv, HandlersMatchState, NoWriters, Visited
      <3> QED
        BY <1>6, <2>1, <3>1 DEF IInv, HandlersMatchState
    <2>7. NoStuckOutput'
      <3>1. state \in CanSend => conn
        BY DEF IInv, PassMatchesState, CanSend, Live, Attempting
      <3>2. sendbuf' = "data" /\ conn => writers'.new > 0
        BY <1>3, <2>2, AddWriterAdds
      <3> QED
        BY <2>1, <2>3, <3>1, <3>2 DEF NoStuckOutput, Writers
    <2> QED
      BY <2>1, <2>4, <2>5, <2>6, <2>7, TimersUntouched DEF IInv
  <1> QED
    BY <1>4, <1>5, <1>6 DEF OnWritable

LEMMA EndsKeep == IInv /\ (EndRead \/ EndWrite \/ EndTimers) => IInv'
  <1> SUFFICES ASSUME IInv, EndRead \/ EndWrite \/ EndTimers PROVE IInv'
    OBVIOUS
  <1>1. /\ UNCHANGED <<state, conn, net, inbox, sendbuf, reader, timer, timers,
                       intentionally_quit, reconnecttime, time_last_connected,
                       rcall, wleft, lines, eof, ssl, autoreconnect>>
        /\ \/ phase = "read" /\ phase' = "write" /\ UNCHANGED writers
           \/ phase = "timers" /\ phase' = "select" /\ UNCHANGED writers
           \/ EndWrite
    BY DEF EndRead, EndWrite, EndTimers, socketVars, handlerVars, timerVars,
       sessionVars, settings
  <1>2. CASE UNCHANGED writers /\ ~EndWrite
    <2>1. TypeOK'
      BY <1>1, <1>2 DEF IInv, TypeOK
    <2>2. SocketToClose' /\ PassMatchesState' /\ HandlersMatchState' /\ NoStuckOutput'
      BY <1>1, <1>2 DEF IInv, SocketToClose, PassMatchesState, HandlersMatchState,
         NoStuckOutput, Running
    <2> QED
      BY <1>1, <2>1, <2>2, TimersUntouched DEF IInv
  <1>3. CASE EndWrite
    <2>1. /\ phase = "write" /\ phase' = "timers"
          /\ writers' \in Writers
          /\ writers'.old = 0
          /\ writers.old + writers.new > 0 => writers'.new > 0
          /\ writers = NoWriters => writers' = NoWriters
      <3>1. writers \in Writers
        BY DEF IInv, TypeOK, Writers
      <3>2. writers' = [old |-> 0,
                        new |-> IF writers.old + writers.new < MaxWriters
                                THEN writers.old + writers.new ELSE MaxWriters]
        BY <1>3 DEF EndWrite
      <3>3. phase = "write" /\ phase' = "timers"
        BY <1>3 DEF EndWrite
      <3> QED
        BY <3>1, <3>2, <3>3, BoundsAssumption DEF Writers, NoWriters
    <2>2. TypeOK'
      BY <1>1, <2>1 DEF IInv, TypeOK, Writers
    <2>3. SocketToClose' /\ PassMatchesState'
      BY <1>1, <2>1 DEF IInv, SocketToClose, PassMatchesState, Running
    <2>4. HandlersMatchState' /\ NoStuckOutput'
      BY <1>1, <2>1 DEF IInv, HandlersMatchState, NoStuckOutput, Writers
    <2> QED
      BY <1>1, <2>2, <2>3, <2>4, TimersUntouched DEF IInv
  <1> QED
    BY <1>1, <1>2, <1>3

\* a timer that fires is the client's own, and is gone from the loop
LEMMA FiresOwn ==
    ASSUME IInv, NEW t \in TimerId, NEW cbs, Fires(t, cbs)
    PROVE  /\ timer = t /\ timers[t].cb \in cbs /\ Running(cbs)
           /\ Expired(t) \in [TimerId -> Timer]
           /\ OnlyOwn(Expired(t))
           /\ phase = "timers" /\ InOtherHandler /\ eof = FALSE
           /\ UNCHANGED passVars /\ UNCHANGED settings
           /\ PassGoesOn
  <1>1. /\ timers[t] # Idle /\ timers[t].cb \in cbs
        /\ phase = "timers" /\ UNCHANGED passVars /\ UNCHANGED settings
    BY DEF Fires, Idle
  <1>2. timer = t /\ timers \in [TimerId -> Timer]
    BY <1>1 DEF IInv, TimerMatchesState, TypeOK
  <1>3. Expired(t) \in [TimerId -> Timer] /\ OnlyOwn(Expired(t))
    BY <1>2, IdleIsTimer, OwnTimersOnly DEF Expired, OnlyOwn
  <1>4. PassGoesOn /\ eof = FALSE
    BY <1>1 DEF PassGoesOn, passVars, IInv, TypeOK, PassMatchesState
  <1> QED
    BY <1>1, <1>2, <1>3, <1>4 DEF InOtherHandler, Running

LEMMA FiringsKeep ==
    ASSUME IInv, NEW t \in TimerId,
           TimeoutFires(t) \/ ConnectTimerFires(t) \/ PingTimerFires(t)
    PROVE  IInv'
  <1>1. CASE TimeoutFires(t)
    BY <1>1, FiresOwn, ReconnectKeeps DEF TimeoutFires
  <1>2. CASE ConnectTimerFires(t)
    BY <1>2, FiresOwn, ConnectKeeps DEF ConnectTimerFires
  <1>3. CASE PingTimerFires(t)
    <2>1. /\ Fires(t, {"ping"})
          /\ UNCHANGED <<state, conn, net, inbox, reader, intentionally_quit,
                         reconnecttime, time_last_connected>>
      BY <1>3 DEF PingTimerFires, socketVars, sessionVars
    <2>2. /\ Running({"ping"}) /\ timer = t /\ phase = "timers"
          /\ Expired(t) \in [TimerId -> Timer] /\ OnlyOwn(Expired(t))
          /\ UNCHANGED <<phase, rcall, wleft, lines, eof, ssl, autoreconnect>>
      BY <2>1, FiresOwn DEF passVars, settings
    <2>3. state \in {"connected", "disconnected"}
      <3>1. Running(Callback)
        BY <2>2 DEF Running, Callback
      <3> QED
        BY <2>2, <3>1 DEF IInv, TypeOK, TimerMatchesState, State, Live, Attempting, Running
    <2>4. CASE state \in CanSend
      <3>1. /\ Sends([buf |-> sendbuf, w |-> writers])
            /\ Arm(Cancel(Expired(t)), "pingtimeout")
        BY <1>3, <2>4 DEF PingTimerFires, Ping
      <3>2. /\ timer' \in TimerId
            /\ timers' \in [TimerId -> Timer]
            /\ \A u \in TimerId : u # timer' => timers'[u] = Idle
            /\ timers'[timer'].cb = "pingtimeout"
        <4>1. "pingtimeout" \in Callback /\ timer \in TimerId \cup {None}
          BY DEF Callback, Timeout, IInv, TypeOK
        <4> QED
          BY <2>2, <3>1, <4>1, ArmAfterCancel
      <3>3. /\ sendbuf' \in {"unset", "empty", "data"}
            /\ writers' \in Writers
            /\ writers'.old = writers.old
            /\ HandlersMatchState'
            /\ NoStuckOutput'
        BY <2>1, <2>4, <3>1, SendKeeps
      <3>4. TypeOK'
        BY <2>1, <2>2, <3>2, <3>3 DEF IInv, TypeOK, Writers
      <3>5. TimerMatchesState'
        BY <2>1, <2>3, <2>4, <3>2 DEF TimerMatchesState, Running, CanSend
      <3>6. SocketToClose' /\ PassMatchesState'
        BY <2>1, <2>2, <2>4, <3>3
           DEF IInv, SocketToClose, PassMatchesState, CanSend, Live, Attempting
      <3> QED
        BY <3>3, <3>4, <3>5, <3>6 DEF IInv
    <2>5. CASE state \notin CanSend
      <3>1. UNCHANGED <<timer, sendbuf, writers>> /\ timers' = Cancel(Expired(t))
        BY <1>3, <2>5 DEF PingTimerFires
      <3>2. timers' = [u \in TimerId |-> Idle]
        BY <2>2, <3>1, CancelIdles
      <3>3. state = "disconnected"
        BY <2>3, <2>5 DEF CanSend
      <3>4. TypeOK'
        BY <2>1, <2>2, <3>1, <3>2, IdleIsTimer DEF IInv, TypeOK
      <3>5. \A cbs : cbs \subseteq Callback => ~Running(cbs)'
        BY <3>2, IdleIsTimer DEF Running
      <3>6. TimerMatchesState'
        <4>1. {"connectingtimeout", "sslhandshaketimeout", "connect"} \subseteq Callback
          BY DEF Callback, Timeout
        <4> QED
          BY <2>1, <3>2, <3>3, <3>5, <4>1 DEF TimerMatchesState
      <3>7. SocketToClose'
        <4>1. Timeout \subseteq Callback
          BY DEF Callback
        <4> QED
          BY <2>1, <2>2, <3>5, <4>1 DEF IInv, SocketToClose
      <3>8. PassMatchesState' /\ HandlersMatchState' /\ NoStuckOutput'
        BY <2>1, <2>2, <3>1 DEF IInv, PassMatchesState, HandlersMatchState, NoStuckOutput
      <3> QED
        BY <3>4, <3>6, <3>7, <3>8 DEF IInv
    <2> QED
      BY <2>4, <2>5
  <1> QED
    BY <1>1, <1>2, <1>3

LEMMA ApiKeeps == IInv /\ (ApiConnect \/ ApiDisconnect \/ ApiSend) => IInv'
  <1> SUFFICES ASSUME IInv, ApiConnect \/ ApiDisconnect \/ ApiSend PROVE IInv'
    OBVIOUS
  <1>1. CASE ApiConnect
    BY <1>1, ConnectKeeps, OwnTimersOnly DEF ApiConnect
  <1>2. CASE ApiDisconnect
    <2>1. /\ timers' = [t \in TimerId |-> Idle]
          /\ phase \in {"read", "write", "timers"} /\ eof = FALSE
          /\ UNCHANGED <<timer, sendbuf, intentionally_quit, time_last_connected,
                         phase, rcall, wleft, lines, eof, ssl, autoreconnect>>
      <3>1. timers' = Cancel(timers)
        BY <1>2 DEF ApiDisconnect
      <3>2. phase \in {"read", "write", "timers"} /\ eof = FALSE
        BY <1>2 DEF ApiDisconnect, InOtherHandler, IInv, TypeOK, PassMatchesState
      <3>3. /\ UNCHANGED <<timer, sendbuf, intentionally_quit, time_last_connected,
                           phase, rcall, wleft, lines, eof, ssl, autoreconnect>>
        BY <1>2 DEF ApiDisconnect, passVars, settings
      <3> QED
        BY <3>1, <3>2, <3>3, OwnTimersOnly, CancelIdles
    <2>2. \A cbs : cbs \subseteq Callback => ~Running(cbs)'
      BY <2>1, IdleIsTimer DEF Running
    <2>3. SocketToClose'
      <3>1. Timeout \subseteq Callback
        BY DEF Callback
      <3> QED
        BY <2>1, <2>2, <3>1 DEF SocketToClose
    <2>4. CASE /\ state = "reconnecting" /\ UNCHANGED <<state, conn, net, inbox, reader, writers>>
               /\ reconnecttime' = 0
      <3>1. TypeOK'
        BY <2>1, <2>4, IdleIsTimer, BoundsAssumption DEF IInv, TypeOK
      <3>2. TimerMatchesState'
        BY <2>1, <2>2, <2>4 DEF TimerMatchesState
      <3>3. PassMatchesState' /\ HandlersMatchState' /\ NoStuckOutput'
        BY <2>1, <2>4 DEF IInv, PassMatchesState, HandlersMatchState, NoStuckOutput
      <3> QED
        BY <2>3, <3>1, <3>2, <3>3 DEF IInv
    <2>5. CASE /\ state' = "disconnected" /\ conn' = FALSE /\ net' = "none" /\ inbox' = <<>>
               /\ reader' = FALSE /\ writers' = NoWriters /\ UNCHANGED reconnecttime
      <3>1. NoWriters \in [old : 0..MaxWriters, new : 0..MaxWriters]
        BY BoundsAssumption DEF NoWriters
      <3>2. TypeOK'
        BY <2>1, <2>5, <3>1, NothingRead, IdleIsTimer DEF IInv, TypeOK, State, Net
      <3>3. TimerMatchesState'
        <4>1. {"connectingtimeout", "sslhandshaketimeout", "connect"} \subseteq Callback
          BY DEF Callback, Timeout
        <4> QED
          BY <2>1, <2>2, <2>5, <4>1 DEF TimerMatchesState
      <3>4. PassMatchesState' /\ HandlersMatchState' /\ NoStuckOutput'
        BY <2>1, <2>5 DEF PassMatchesState, HandlersMatchState, NoStuckOutput,
           NoWriters, Live, Attempting, CanSend
      <3> QED
        BY <2>3, <3>2, <3>3, <3>4 DEF IInv
    <2> QED
      BY <1>2, <2>4, <2>5 DEF ApiDisconnect, socketVars, handlerVars, RemoveHandlers
  <1>3. CASE ApiSend
    <2>1. /\ state \in CanSend
          /\ Sends([buf |-> sendbuf, w |-> writers])
          /\ UNCHANGED <<state, conn, net, inbox, reader, timer, timers,
                         intentionally_quit, reconnecttime, time_last_connected,
                         phase, rcall, wleft, lines, eof, ssl, autoreconnect>>
      BY <1>3 DEF ApiSend, socketVars, timerVars, sessionVars, passVars, settings
    <2>2. /\ sendbuf' \in {"unset", "empty", "data"}
          /\ writers' \in Writers
          /\ writers'.old = writers.old
          /\ HandlersMatchState'
          /\ NoStuckOutput'
      BY <2>1, SendKeeps
    <2>3. TypeOK'
      BY <2>1, <2>2 DEF IInv, TypeOK, Writers
    <2>4. SocketToClose' /\ PassMatchesState'
      BY <2>1, <2>2 DEF IInv, SocketToClose, PassMatchesState, Running
    <2> QED
      BY <2>1, <2>2, <2>3, <2>4, TimersUntouched DEF IInv
  <1> QED
    BY <1>1, <1>2, <1>3

LEMMA WorldKeeps ==
    IInv /\ (NetChanges \/ ServerSends \/ WelcomeAges \/ \E t \in TimerId : TimeComes(t))
        => IInv'
  <1> SUFFICES ASSUME IInv,
                      \/ NetChanges \/ ServerSends \/ WelcomeAges
                      \/ \E t \in TimerId : TimeComes(t)
               PROVE  IInv'
    OBVIOUS
  <1>1. UNCHANGED <<state, conn, sendbuf, reader, writers, timer, reconnecttime,
                    intentionally_quit, phase, rcall, wleft, lines, eof, ssl,
                    autoreconnect>>
    BY DEF NetChanges, ServerSends, WelcomeAges, TimeComes, socketVars, handlerVars,
       timerVars, sessionVars, passVars, settings
  <1>2. /\ net' \in Net
        /\ inbox' \in Seq(Message)
        /\ time_last_connected' \in {"never", "recent", "old"}
    <2>1. \A m \in Message : inbox \in Seq(Message) => Append(inbox, m) \in Seq(Message)
      OBVIOUS
    <2> QED
      BY <2>1 DEF NetChanges, ServerSends, WelcomeAges, TimeComes, socketVars,
         sessionVars, IInv, TypeOK, Net
  <1>3. /\ timers' \in [TimerId -> Timer]
        /\ \A t \in TimerId : timers'[t].cb = timers[t].cb
        /\ \A t \in TimerId : timers[t] = Idle => timers'[t] = Idle
    <2>1. CASE timers' = timers
      BY <2>1 DEF IInv, TypeOK
    <2>2. CASE \E t \in TimerId : TimeComes(t)
      <3>1. PICK t \in TimerId : /\ timers[t] # Idle
                                 /\ timers' = [timers EXCEPT ![t].due = TRUE]
        BY <2>2 DEF TimeComes
      <3>2. timers \in [TimerId -> Timer]
        BY DEF IInv, TypeOK
      <3>3. /\ [timers[t] EXCEPT !.due = TRUE] \in Timer
            /\ [timers[t] EXCEPT !.due = TRUE].cb = timers[t].cb
        BY <3>1, <3>2 DEF Timer
      <3> QED
        BY <3>1, <3>2, <3>3
    <2> QED
      BY <2>1, <2>2 DEF NetChanges, ServerSends, WelcomeAges, timerVars
  <1>4. \A cbs : Running(cbs)' <=> Running(cbs)
    BY <1>1, <1>3 DEF Running
  <1>5. TypeOK'
    BY <1>1, <1>2, <1>3 DEF IInv, TypeOK
  <1>6. TimerMatchesState'
    BY <1>1, <1>3, <1>4 DEF IInv, TimerMatchesState
  <1>7. SocketToClose'
    BY <1>1, <1>4 DEF IInv, SocketToClose
  <1>8. PassMatchesState' /\ HandlersMatchState' /\ NoStuckOutput'
    BY <1>1 DEF IInv, PassMatchesState, HandlersMatchState, NoStuckOutput
  <1> QED
    BY <1>5, <1>6, <1>7, <1>8 DEF IInv

LEMMA StutterKeeps == IInv /\ UNCHANGED vars => IInv'
  BY DEF IInv, vars, socketVars, timerVars, handlerVars, sessionVars, passVars,
     settings, TypeOK, TimerMatchesState, SocketToClose, PassMatchesState,
     HandlersMatchState, NoStuckOutput, Running

\* No step of the client, of the loop around it, of its callers or of the world
\* leads out of the invariant.
THEOREM InvariantIsInductive == IInv /\ [Next]_vars => IInv'
  <1> SUFFICES ASSUME IInv, [Next]_vars PROVE IInv'
    OBVIOUS
  <1>1. CASE Select
    BY <1>1, SelectKeeps
  <1>2. CASE OnReadable
    BY <1>2, OnReadableKeeps
  <1>3. CASE OnWelcome \/ OnPong \/ OnPing \/ OnOwnQuit \/ OnOther
    BY <1>3, LinesKeep
  <1>4. CASE EndOfLines
    BY <1>4, EndOfLinesKeeps
  <1>5. CASE EndRead \/ EndWrite \/ EndTimers
    BY <1>5, EndsKeep
  <1>6. CASE OnWritable
    BY <1>6, OnWritableKeeps
  <1>7. CASE \E t \in TimerId : TimeoutFires(t) \/ ConnectTimerFires(t) \/ PingTimerFires(t)
    BY <1>7, FiringsKeep
  <1>8. CASE ApiConnect \/ ApiDisconnect \/ ApiSend
    BY <1>8, ApiKeeps
  <1>9. CASE NetChanges \/ ServerSends \/ WelcomeAges \/ \E t \in TimerId : TimeComes(t)
    BY <1>9, WorldKeeps
  <1>10. CASE UNCHANGED vars
    BY <1>10, StutterKeeps
  <1> QED
    BY <1>1, <1>2, <1>3, <1>4, <1>5, <1>6, <1>7, <1>8, <1>9, <1>10 DEF Next, LoopStep

\* The invariant holds for ever.
THEOREM InvariantHolds == Spec => []IInv
  BY InitEstablishes, InvariantIsInductive, PTL DEF Spec

\* Every variable keeps its type.
THEOREM TypeCorrect == Spec => []TypeOK
  <1>1. IInv => TypeOK
    BY DEF IInv
  <1> QED
    BY <1>1, InvariantHolds, PTL

\* A client never has two timers, nor the wrong one for its state: what
\* irc.lua:456-520 and 600-742 cancel and make always fits.
THEOREM TimerAlwaysMatches == Spec => []TimerMatchesState
  <1>1. IInv => TimerMatchesState
    BY DEF IInv
  <1> QED
    BY <1>1, InvariantHolds, PTL

\* _reconnect (irc.lua:454) never closes a socket that is not there.
THEOREM SocketAlwaysThere == Spec => []SocketToClose
  <1>1. IInv => SocketToClose
    BY DEF IInv
  <1> QED
    BY <1>1, InvariantHolds, PTL

\* A client has a socket while it is in a connection, and no call of a handler
\* that the loop selected earlier in the pass handles lines of a connection
\* that is gone (eventloop.lua:75, irc.lua:522-611).
THEOREM PassAlwaysMatches == Spec => []PassMatchesState
  <1>1. IInv => PassMatchesState
    BY DEF IInv
  <1> QED
    BY <1>1, InvariantHolds, PTL

\* The readable handler of a connection is registered exactly while there is
\* one, and a connecting client is always woken (irc.lua:490, 455, 509).
THEOREM HandlersAlwaysMatch == Spec => []HandlersMatchState
  <1>1. IInv => HandlersMatchState
    BY DEF IInv
  <1> QED
    BY <1>1, InvariantHolds, PTL

\* Text that is queued always has a writable handler on its way to send it
\* (irc.lua:757-797), however often handlers are registered and drop themselves.
THEOREM OutputNeverStuck == Spec => []NoStuckOutput
  <1>1. IInv => NoStuckOutput
    BY DEF IInv
  <1> QED
    BY <1>1, InvariantHolds, PTL
-----------------------------------------------------------------------------
(* The interval, which only _reconnect and disconnect() touch.              *)

IntervalStep ==
    /\ autoreconnect' = autoreconnect
    /\ \/ reconnecttime' = NextInterval /\ state' = "reconnecting"
       \/ reconnecttime' = reconnecttime /\ (state' = "reconnecting" => state = "reconnecting")
       \/ reconnecttime' = 0 /\ state' = state /\ state = "reconnecting"

LEMMA IntervalSteps == [Next]_vars => IntervalStep
  <1>1. ASSUME NEW T, Reconnect(T), UNCHANGED settings PROVE IntervalStep
    BY <1>1 DEF Reconnect, IntervalStep, settings
  <1>2. ASSUME NEW T, Connect(T), UNCHANGED settings PROVE IntervalStep
    BY <1>2 DEF Connect, IntervalStep, settings
  <1>3. ASSUME NEW w, HandshakeDone(w), UNCHANGED settings PROVE IntervalStep
    BY <1>3 DEF HandshakeDone, IntervalStep, settings, sessionVars
  <1>4. ASSUME NEW w, DoSslHandshake(w), UNCHANGED settings PROVE IntervalStep
    BY <1>1, <1>3, <1>4 DEF DoSslHandshake, IntervalStep, settings, sessionVars
  <1>5. ASSUME NEW w, OnSocketConnected(w), UNCHANGED settings PROVE IntervalStep
    BY <1>1, <1>3, <1>5 DEF OnSocketConnected, StartSsl, IntervalStep, settings, sessionVars
  <1>6. CASE OnReadable
    BY <1>4, <1>5, <1>6 DEF OnReadable, IntervalStep, settings, sessionVars
  <1>7. CASE OnWritable
    BY <1>4, <1>5, <1>7 DEF OnWritable, IntervalStep, settings, sessionVars
  <1>8. CASE OnWelcome \/ OnPong \/ OnPing \/ OnOwnQuit \/ OnOther
    BY <1>8 DEF OnWelcome, OnPong, OnPing, OnOwnQuit, OnOther, NextLine, IntervalStep, settings
  <1>9. CASE EndOfLines
    BY <1>1, <1>9 DEF EndOfLines, IntervalStep, settings, sessionVars
  <1>10. CASE Select \/ EndRead \/ EndWrite \/ EndTimers
    BY <1>10 DEF Select, EndRead, EndWrite, EndTimers, IntervalStep, settings, sessionVars
  <1>11. ASSUME NEW t \in TimerId, TimeoutFires(t) \/ ConnectTimerFires(t) \/ PingTimerFires(t)
         PROVE  IntervalStep
    BY <1>1, <1>2, <1>11
       DEF TimeoutFires, ConnectTimerFires, PingTimerFires, Fires, IntervalStep, settings, sessionVars
  <1>12. CASE ApiConnect \/ ApiDisconnect \/ ApiSend
    BY <1>2, <1>12 DEF ApiConnect, ApiDisconnect, ApiSend, IntervalStep, settings, sessionVars
  <1>13. CASE NetChanges \/ ServerSends \/ WelcomeAges \/ \E t \in TimerId : TimeComes(t)
    BY <1>13 DEF NetChanges, ServerSends, WelcomeAges, TimeComes, IntervalStep, settings, sessionVars
  <1>14. CASE UNCHANGED vars
    BY <1>14 DEF vars, IntervalStep, settings, sessionVars
  <1> QED
    BY <1>6, <1>7, <1>8, <1>9, <1>10, <1>11, <1>12, <1>13, <1>14 DEF Next, LoopStep

\* Without an initial interval there is none at all.
NoInterval == ~autoreconnect => reconnecttime = 0

(* The interval grows with every attempt that fails, up to its maximum, and  *)
(* only the reset time or disconnect() sets it back (irc.lua:456-520).       *)
THEOREM BackoffAlwaysGrows == Spec => BackoffGrows
  <1>1. Init => NoInterval
    BY DEF Init, NoInterval
  <1>2. NoInterval /\ [Next]_vars => NoInterval'
    BY IntervalSteps DEF NoInterval, IntervalStep, NextInterval
  <1>3. TypeOK /\ NoInterval /\ [Next]_vars =>
          [/\ (state # "reconnecting" /\ state' = "reconnecting" /\ reconnecttime # 0)
                => \/ reconnecttime' > reconnecttime \/ reconnecttime' = MaxBackoff
                   \/ time_last_connected = "old"
           /\ reconnecttime' < reconnecttime
                => \/ time_last_connected = "old"
                   \/ state = "reconnecting" /\ state' = state]_vars
    <2> SUFFICES ASSUME TypeOK, NoInterval, IntervalStep
                 PROVE  /\ (state # "reconnecting" /\ state' = "reconnecting" /\ reconnecttime # 0)
                             => \/ reconnecttime' > reconnecttime \/ reconnecttime' = MaxBackoff
                                \/ time_last_connected = "old"
                        /\ reconnecttime' < reconnecttime
                             => \/ time_last_connected = "old"
                                \/ state = "reconnecting" /\ state' = state
      BY IntervalSteps
    <2>1. reconnecttime \in 0..MaxBackoff /\ MaxBackoff \in Nat
      BY BoundsAssumption DEF TypeOK
    <2> QED
      BY <2>1 DEF NoInterval, IntervalStep, NextInterval
  <1> QED
    BY <1>1, <1>2, <1>3, TypeCorrect, PTL DEF Spec, BackoffGrows
=============================================================================
