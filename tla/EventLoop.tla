------------------------------ MODULE EventLoop ------------------------------
(***************************************************************************)
(* eventloop.lua: socket handlers and timers, and the passes of step() that*)
(* call them. A callback is entered, may use every operation of the loop,  *)
(* and returns a true or a false value or raises; all its effects are      *)
(* interleaved with nothing, because the loop has a single thread, but they*)
(* meet a pass that is under way: its snapshots of the handler tables, and *)
(* its traversal of the timer table.                                       *)
(*                                                                         *)
(* One callback per socket and direction is registered, as often as one    *)
(* likes; the weak values of the tables are left to those who register:    *)
(* their callbacks are referenced elsewhere for as long as they matter.    *)
(***************************************************************************)
EXTENDS Integers, FiniteSets

CONSTANTS
    Socket,
    ReadKey,        \* bound: key objects {sock} of _readable_handlers
    WriteKey,       \* bound: key objects {sock} of _writable_handlers
    TimerId,        \* bound: timer objects in _timers at a time
    MaxDelay,       \* bound: the longest timeout, in ticks
    None

ASSUME MaxDelayAssumption == MaxDelay \in Nat
ASSUME KeysAssumption == IsFiniteSet(ReadKey) /\ IsFiniteSet(WriteKey)

VARIABLES
    readable,       \* _readable_handlers: key -> socket, None: not in the table
    writable,       \* _writable_handlers
    timers,         \* _timers
    ready,          \* the sockets select would report, for either direction
    phase,          \* where step() is; "idle": run() is not running
    exiting,        \* _exit
    rcalls,         \* calls of this pass still to make, per key in r's snapshot
    wcalls,
    due,            \* timers that were due when the pass got to the timers
    grown,          \* a callback added a timer while they are traversed
    active          \* the callback that is running, or None

tables == <<readable, writable, timers>>
pass == <<phase, rcalls, wcalls, due, grown>>
vars == <<tables, ready, pass, exiting, active>>

NoTimer == [st |-> "none", left |-> 0]
TimerState == {NoTimer} \cup [st : {"running", "cancelled"}, left : 0..MaxDelay]
Pending(t) == timers[t] # NoTimer
Due(t) == Pending(t) /\ timers[t].left = 0

Callbacks == [kind : {"read"}, id : ReadKey] \cup [kind : {"write"}, id : WriteKey]
                \cup [kind : {"timer"}, id : TimerId]

ASSUME NoneAssumption ==
    /\ None \notin Socket \cup TimerId \cup Callbacks
    /\ None \notin Nat
-----------------------------------------------------------------------------
(* The operations, called by a callback or while the loop is not running.  *)

Caller == active # None \/ phase = "idle"

\* a fresh table is the key: never one the pass still refers to
AddReadable(s) ==
    /\ Caller
    /\ \E k \in ReadKey :
        /\ readable[k] = None /\ rcalls[k] = 0 /\ active # [kind |-> "read", id |-> k]
        /\ readable' = [readable EXCEPT ![k] = s]
    /\ UNCHANGED <<writable, timers, ready, pass, exiting, active>>

AddWritable(s) ==
    /\ Caller
    /\ \E k \in WriteKey :
        /\ writable[k] = None /\ wcalls[k] = 0 /\ active # [kind |-> "write", id |-> k]
        /\ writable' = [writable EXCEPT ![k] = s]
    /\ UNCHANGED <<readable, timers, ready, pass, exiting, active>>

Without(table, s) ==
    [k \in DOMAIN table |-> IF table[k] = s THEN None ELSE table[k]]

RemoveReadable(s) ==
    /\ Caller
    /\ readable' = Without(readable, s)
    /\ UNCHANGED <<writable, timers, ready, pass, exiting, active>>

RemoveWritable(s) ==
    /\ Caller
    /\ writable' = Without(writable, s)
    /\ UNCHANGED <<readable, timers, ready, pass, exiting, active>>

RemoveSocket(s) ==
    /\ Caller
    /\ readable' = Without(readable, s)
    /\ writable' = Without(writable, s)
    /\ UNCHANGED <<timers, ready, pass, exiting, active>>

MakeTimer(d) ==
    /\ Caller
    /\ \E t \in TimerId :
        /\ ~Pending(t)
        /\ timers' = [timers EXCEPT ![t] = [st |-> "running", left |-> d]]
    /\ grown' = (grown \/ phase = "timers")
    /\ UNCHANGED <<readable, writable, ready, phase, rcalls, wcalls, due, exiting, active>>

\* faulty: the object leaves the table at once
CancelTimerTakesOut(t) ==
    /\ Caller
    /\ timers[t].st = "running"
    /\ timers' = [timers EXCEPT ![t] = NoTimer]
    /\ UNCHANGED <<readable, writable, ready, pass, exiting, active>>

\* The object stays in _timers until its time.
CancelTimer(t) ==
    /\ Caller
    /\ timers[t].st = "running"
    /\ timers' = [timers EXCEPT ![t].st = "cancelled"]
    /\ UNCHANGED <<readable, writable, ready, pass, exiting, active>>

Exit ==
    /\ active # None
    /\ exiting' = TRUE
    /\ UNCHANGED <<tables, ready, pass, active>>
-----------------------------------------------------------------------------
(* The loop.                                                               *)

Run ==
    /\ phase = "idle"
    /\ phase' = "select"
    /\ exiting' = FALSE
    /\ UNCHANGED <<tables, ready, rcalls, wcalls, due, grown, active>>

\* faulty: one ready socket is served per pass
CallsOfOne(table) ==
    [k \in DOMAIN table |->
        IF ready # {} /\ table[k] = CHOOSE s \in ready : TRUE THEN 1 ELSE 0]

\* How often step() will call each handler of a table: select returns a ready
\* socket once per entry, and every entry is called each time.
Calls(table) ==
    [k \in DOMAIN table |->
        IF table[k] \in ready THEN Cardinality({j \in DOMAIN table : table[j] = table[k]})
        ELSE 0]

Select ==
    /\ phase = "select"
    /\ rcalls' = Calls(readable)
    /\ wcalls' = Calls(writable)
    /\ phase' = "read"
    /\ UNCHANGED <<tables, ready, due, grown, exiting, active>>

\* The calls of one traversal, in whatever order pairs() gives: a handler of the
\* snapshot is called though it may be registered no more.
CallReadable(k) ==
    /\ phase = "read"
    /\ active = None
    /\ rcalls[k] > 0
    /\ rcalls' = [rcalls EXCEPT ![k] = @ - 1]
    /\ active' = [kind |-> "read", id |-> k]
    /\ UNCHANGED <<tables, ready, phase, wcalls, due, grown, exiting>>

\* Its entry goes if it returns a false value. If it raises, the loop takes the
\* key out of the other table (eventloop.lua:84), where it never is.
ReadableReturns ==
    /\ phase = "read"
    /\ active # None
    /\ active' = None
    /\ readable' \in {readable, [readable EXCEPT ![active.id] = None]}
    /\ UNCHANGED <<writable, timers, ready, pass, exiting>>

EndRead ==
    /\ phase = "read"
    /\ active = None
    /\ \A k \in ReadKey : rcalls[k] = 0
    /\ phase' = "write"
    /\ UNCHANGED <<tables, ready, rcalls, wcalls, due, grown, exiting, active>>

CallWritable(k) ==
    /\ phase = "write"
    /\ active = None
    /\ wcalls[k] > 0
    /\ wcalls' = [wcalls EXCEPT ![k] = @ - 1]
    /\ active' = [kind |-> "write", id |-> k]
    /\ UNCHANGED <<tables, ready, phase, rcalls, due, grown, exiting>>

\* faulty: every entry of the socket goes, not just the one that was called
WritableReturnsDropsSocket ==
    /\ phase = "write"
    /\ active # None
    /\ active' = None
    /\ writable' \in {writable, Without(writable, writable[active.id])}
    /\ UNCHANGED <<readable, timers, ready, pass, exiting>>

\* Its entry goes if it returns a false value or raises.
WritableReturns ==
    /\ phase = "write"
    /\ active # None
    /\ active' = None
    /\ writable' \in {writable, [writable EXCEPT ![active.id] = None]}
    /\ UNCHANGED <<readable, timers, ready, pass, exiting>>

EndWrite ==
    /\ phase = "write"
    /\ active = None
    /\ \A k \in WriteKey : wcalls[k] = 0
    /\ phase' = "timers"
    /\ due' = {t \in TimerId : Due(t)}
    /\ grown' = FALSE
    /\ UNCHANGED <<tables, ready, rcalls, wcalls, exiting, active>>

\* faulty: a timer found due is called, cancelled by then or not
CallTimerUnchecked(t) ==
    /\ phase = "timers"
    /\ active = None
    /\ Due(t)
    /\ active' = [kind |-> "timer", id |-> t]
    /\ UNCHANGED <<tables, ready, pass, exiting>>

\* A due timer is called when the traversal comes to it, also one that was made
\* or became due in the meantime; it stays in the table until it returns.
CallTimer(t) ==
    /\ phase = "timers"
    /\ active = None
    /\ Due(t)
    /\ timers[t].st = "running"
    /\ active' = [kind |-> "timer", id |-> t]
    /\ UNCHANGED <<tables, ready, pass, exiting>>

TakeOut(t) ==
    /\ timers' = [timers EXCEPT ![t] = NoTimer]
    /\ due' = due \ {t}
    /\ UNCHANGED <<readable, writable, ready, phase, rcalls, wcalls, grown, exiting>>

TimerReturns ==
    /\ phase = "timers"
    /\ active # None
    /\ active' = None
    /\ TakeOut(active.id)

DropTimer(t) ==
    /\ phase = "timers"
    /\ active = None
    /\ Due(t)
    /\ timers[t].st = "cancelled"
    /\ TakeOut(t)
    /\ UNCHANGED active

\* faulty: run() never looks at _exit
EndTimersGoesOn ==
    /\ phase = "timers"
    /\ active = None
    /\ due = {} \/ grown
    /\ due' = {}
    /\ grown' = FALSE
    /\ phase' = "select"
    /\ UNCHANGED <<tables, ready, rcalls, wcalls, exiting, active>>

\* Adding to a table while pairs() traverses it makes the traversal undefined:
\* once a callback has, timers that are due may be passed over.
EndTimers ==
    /\ phase = "timers"
    /\ active = None
    /\ due = {} \/ grown
    /\ due' = {}
    /\ grown' = FALSE
    /\ phase' = IF exiting THEN "idle" ELSE "select"
    /\ UNCHANGED <<tables, ready, rcalls, wcalls, exiting, active>>
-----------------------------------------------------------------------------
(* The world outside.                                                      *)

\* Time passes anywhere, except that select does not sleep past the time of a
\* timer that is still in the table, nor when a socket is ready.
Tick ==
    /\ phase = "select" =>
           /\ \A t \in TimerId : ~Due(t)
           /\ \A s \in ready : \A k \in ReadKey : readable[k] # s
           /\ \A s \in ready : \A k \in WriteKey : writable[k] # s
    /\ timers' = [t \in TimerId |->
                     IF timers[t].left > 0 THEN [timers[t] EXCEPT !.left = @ - 1]
                     ELSE timers[t]]
    /\ UNCHANGED <<readable, writable, ready, pass, exiting, active>>

SocketsChange ==
    /\ phase = "select"
    /\ \E s \in Socket : ready' \in {ready \cup {s}, ready \ {s}}
    /\ UNCHANGED <<tables, pass, exiting, active>>
-----------------------------------------------------------------------------
Init ==
    /\ readable = [k \in ReadKey |-> None]
    /\ writable = [k \in WriteKey |-> None]
    /\ timers = [t \in TimerId |-> NoTimer]
    /\ ready = {}
    /\ phase = "idle"
    /\ exiting = FALSE
    /\ rcalls = [k \in ReadKey |-> 0]
    /\ wcalls = [k \in WriteKey |-> 0]
    /\ due = {}
    /\ grown = FALSE
    /\ active = None

Operation ==
    \/ \E s \in Socket :
          \/ AddReadable(s)
          \/ AddWritable(s)
          \/ RemoveReadable(s)
          \/ RemoveWritable(s)
          \/ RemoveSocket(s)
    \/ \E d \in 0..MaxDelay : MakeTimer(d)
    \/ \E t \in TimerId : CancelTimer(t)
    \/ Exit

LoopStep ==
    \/ Select
    \/ \E k \in ReadKey : CallReadable(k)
    \/ ReadableReturns
    \/ EndRead
    \/ \E k \in WriteKey : CallWritable(k)
    \/ WritableReturns
    \/ EndWrite
    \/ \E t \in TimerId : CallTimer(t) \/ DropTimer(t)
    \/ TimerReturns
    \/ EndTimers

Next ==
    \/ Operation
    \/ Run
    \/ LoopStep
    \/ Tick
    \/ SocketsChange

\* Callbacks return and passes go on; a traversal ends, though timers are added
\* to the table meanwhile, and does not miss the same timer in every pass; time
\* passes.
Fairness ==
    /\ WF_vars(LoopStep)
    /\ SF_vars(EndTimers)
    /\ \A t \in TimerId : SF_vars(CallTimer(t))
    /\ SF_vars(Tick)

Spec == Init /\ [][Next]_vars /\ Fairness
-----------------------------------------------------------------------------
TypeOK ==
    /\ readable \in [ReadKey -> Socket \cup {None}]
    /\ writable \in [WriteKey -> Socket \cup {None}]
    /\ timers \in [TimerId -> TimerState]
    /\ ready \subseteq Socket
    /\ phase \in {"idle", "select", "read", "write", "timers"}
    /\ exiting \in BOOLEAN
    /\ rcalls \in [ReadKey -> Nat]
    /\ wcalls \in [WriteKey -> Nat]
    /\ due \subseteq TimerId
    /\ grown \in BOOLEAN
    /\ active \in Callbacks \cup {None}

\* A callback only runs in its part of a pass; while a timer's runs, its time
\* has come and its object is in the table and nobody else's, so nothing the
\* callback does, not even cancelling it, can make it run again
\* (eventloop.lua:107-112).
ActiveInItsPass ==
    active # None =>
        /\ active.kind = "read" => phase = "read"
        /\ active.kind = "write" => phase = "write"
        /\ active.kind = "timer" => phase = "timers" /\ Due(active.id)

\* The two belong together: that a returning callback is of the kind its part of
\* the pass calls is what keeps the tables typed (eventloop.lua:78-114).
LoopInv == TypeOK /\ ActiveInItsPass

\* The timer a user of the loop sees: its ticks left until it is called.
Remaining ==
    [t \in TimerId |->
        IF timers[t].st = "running" /\ ~(active # None /\ active.kind = "timer" /\ active.id = t)
        THEN timers[t].left ELSE None]

\* The timer that is being called.
Calling == IF active # None /\ active.kind = "timer" THEN active.id ELSE None

Service == INSTANCE TimerService
    WITH remaining <- Remaining, calling <- Calling, on <- (phase # "idle"), Idle <- None

\* Timers are called once, in time but never early, never after cancel(), even
\* if that comes from a callback of the same pass, and always in the end
\* (eventloop.lua:104-114).
TimersKeepTheirPromise == Service!Spec

\* What a callback returns decides about the entry that was called and about no
\* other: a handler that registers its socket anew and then returns false, as
\* _on_writable does (irc.lua:771), stays registered (eventloop.lua:99).
OnlyTheCalledEntryGoes ==
    [][(active # None /\ active' = None) =>
          /\ \A k \in ReadKey : active # [kind |-> "read", id |-> k]
                                  => readable'[k] = readable[k]
          /\ \A k \in WriteKey : active # [kind |-> "write", id |-> k]
                                  => writable'[k] = writable[k]]_vars

\* However busy other sockets and the timers are, a socket that stays registered
\* and ready has its handler called again and again (eventloop.lua:78-103).
NoStarvation ==
    /\ \A k \in ReadKey :
          <>[](readable[k] \in ready /\ phase # "idle")
              => []<>(active = [kind |-> "read", id |-> k])
    /\ \A k \in WriteKey :
          <>[](writable[k] \in ready /\ phase # "idle")
              => []<>(active = [kind |-> "write", id |-> k])

\* exit() ends run(), after the pass it is called in (eventloop.lua:117-124).
ExitEnds == (exiting /\ phase # "idle") ~> phase = "idle"
=============================================================================
