--------------------------- MODULE EventLoopProofs ---------------------------
(***************************************************************************)
(* For any number of sockets, entries and timers: a callback only runs in  *)
(* its part of a pass, what it returns concerns its own entry, and the     *)
(* loop's timers implement the safety part of TimerService.                *)
(***************************************************************************)
EXTENDS EventLoop, FiniteSetTheorems, TLAPS

LEMMA CallsAreCounted ==
    ASSUME NEW K, IsFiniteSet(K), NEW table \in [K -> Socket \cup {None}]
    PROVE  Calls(table) \in [K -> Nat]
  <1>1. \A k \in K : Cardinality({j \in K : table[j] = table[k]}) \in Nat
    <2>1. TAKE k \in K
    <2>2. IsFiniteSet({j \in K : table[j] = table[k]})
      BY FS_Subset
    <2> QED
      BY <2>2, FS_CardinalityType
  <1> QED
    BY <1>1 DEF Calls

LEMMA NoTimerIsTimer == NoTimer \in TimerState /\ NoTimer.left = 0 /\ NoTimer.st = "none"
  BY DEF NoTimer, TimerState

\* a record of the timer table, and what the operations make of it
LEMMA TimerStates ==
    ASSUME NEW r \in TimerState
    PROVE  /\ r.left \in 0..MaxDelay
           /\ r.st \in {"none", "running", "cancelled"}
           /\ r.st = "none" <=> r = NoTimer
           /\ r # NoTimer => [r EXCEPT !.st = "cancelled"] \in TimerState
           /\ r.left > 0 => [r EXCEPT !.left = @ - 1] \in TimerState
  <1>1. CASE r = NoTimer
    BY <1>1, NoTimerIsTimer, MaxDelayAssumption
  <1>2. CASE r \in [st : {"running", "cancelled"}, left : 0..MaxDelay]
    <2>1. r # NoTimer /\ r.left \in 0..MaxDelay /\ r.st \in {"running", "cancelled"}
      BY <1>2 DEF NoTimer
    <2>2. [r EXCEPT !.st = "cancelled"] \in TimerState
      BY <1>2 DEF TimerState
    <2>3. r.left > 0 => r.left - 1 \in 0..MaxDelay
      BY <2>1, MaxDelayAssumption
    <2>4. r.left > 0 => [r EXCEPT !.left = @ - 1] \in TimerState
      BY <1>2, <2>3 DEF TimerState
    <2> QED
      BY <2>1, <2>2, <2>4
  <1> QED
    BY <1>1, <1>2 DEF TimerState

\* whose callback runs
LEMMA ActiveKind ==
    ASSUME LoopInv, active # None
    PROVE  /\ phase = "read" => active \in [kind : {"read"}, id : ReadKey]
           /\ phase = "write" => active \in [kind : {"write"}, id : WriteKey]
           /\ phase = "timers" => active \in [kind : {"timer"}, id : TimerId]
           /\ phase \in {"read", "write", "timers"}
  BY DEF LoopInv, TypeOK, ActiveInItsPass, Callbacks
-----------------------------------------------------------------------------
(* The steps keep the invariant.                                           *)

LEMMA LoopInitEstablishes == Init => LoopInv
  <1> SUFFICES ASSUME Init PROVE LoopInv
    OBVIOUS
  <1>1. /\ readable \in [ReadKey -> Socket \cup {None}]
        /\ writable \in [WriteKey -> Socket \cup {None}]
        /\ timers \in [TimerId -> TimerState]
    BY NoTimerIsTimer DEF Init
  <1>2. rcalls \in [ReadKey -> Nat] /\ wcalls \in [WriteKey -> Nat]
    BY DEF Init
  <1>3. TypeOK
    BY <1>1, <1>2 DEF Init, TypeOK
  <1>4. ActiveInItsPass
    BY DEF Init, ActiveInItsPass
  <1> QED
    BY <1>3, <1>4 DEF LoopInv

LEMMA TablesKeep ==
    ASSUME LoopInv, NEW s \in Socket,
           \/ AddReadable(s) \/ AddWritable(s) \/ RemoveReadable(s)
           \/ RemoveWritable(s) \/ RemoveSocket(s)
    PROVE  LoopInv'
  <1>1. UNCHANGED <<timers, ready, phase, rcalls, wcalls, due, grown, exiting, active>>
    BY DEF AddReadable, AddWritable, RemoveReadable, RemoveWritable, RemoveSocket, pass
  <1>2. /\ readable' \in [ReadKey -> Socket \cup {None}]
        /\ writable' \in [WriteKey -> Socket \cup {None}]
    <2>1. /\ readable \in [ReadKey -> Socket \cup {None}]
          /\ writable \in [WriteKey -> Socket \cup {None}]
      BY DEF LoopInv, TypeOK
    <2>2. /\ Without(readable, s) \in [ReadKey -> Socket \cup {None}]
          /\ Without(writable, s) \in [WriteKey -> Socket \cup {None}]
      BY <2>1 DEF Without
    <2> QED
      BY <2>1, <2>2 DEF AddReadable, AddWritable, RemoveReadable, RemoveWritable,
         RemoveSocket
  <1> QED
    BY <1>1, <1>2 DEF LoopInv, TypeOK, ActiveInItsPass, Due, Pending

\* the timer that is being called stays due, whatever happens to the others
LEMMA TimersKeep ==
    ASSUME LoopInv, UNCHANGED <<readable, writable, ready, phase, rcalls, wcalls, exiting,
                                active>>,
           due' \subseteq TimerId, grown' \in BOOLEAN,
           timers' \in [TimerId -> TimerState],
           \A t \in TimerId : Due(t) => Due(t)'
    PROVE  LoopInv'
  <1>1. TypeOK'
    BY DEF LoopInv, TypeOK
  <1>2. active # None /\ active.kind = "timer" => active.id \in TimerId
    BY DEF LoopInv, TypeOK, Callbacks
  <1>3. ActiveInItsPass'
    BY <1>2 DEF LoopInv, ActiveInItsPass
  <1> QED
    BY <1>1, <1>3 DEF LoopInv

LEMMA TimerOperationsKeep ==
    ASSUME LoopInv,
           \/ \E d \in 0..MaxDelay : MakeTimer(d)
           \/ \E t \in TimerId : CancelTimer(t)
    PROVE  LoopInv'
  <1>1. timers \in [TimerId -> TimerState]
    BY DEF LoopInv, TypeOK
  <1>2. ASSUME NEW d \in 0..MaxDelay, MakeTimer(d) PROVE LoopInv'
    <2>1. PICK t \in TimerId :
              ~Pending(t) /\ timers' = [timers EXCEPT ![t] = [st |-> "running", left |-> d]]
      BY <1>2 DEF MakeTimer
    <2>2. [st |-> "running", left |-> d] \in TimerState
      BY DEF TimerState
    <2>3. /\ timers' \in [TimerId -> TimerState]
          /\ \A u \in TimerId : Due(u) => Due(u)'
      BY <1>1, <2>1, <2>2 DEF Due, Pending
    <2> QED
      BY <1>2, <2>3, TimersKeep DEF MakeTimer, LoopInv, TypeOK
  <1>3. ASSUME NEW t \in TimerId, CancelTimer(t) PROVE LoopInv'
    <2>1. /\ timers[t].st = "running"
          /\ timers' = [timers EXCEPT ![t].st = "cancelled"]
          /\ UNCHANGED <<readable, writable, ready, phase, rcalls, wcalls, due, grown,
                         exiting, active>>
      BY <1>3 DEF CancelTimer, pass
    <2>2. [timers[t] EXCEPT !.st = "cancelled"] \in TimerState
      BY <1>1, <2>1, TimerStates
    <2>3. /\ [timers[t] EXCEPT !.st = "cancelled"] # NoTimer
          /\ [timers[t] EXCEPT !.st = "cancelled"].left = timers[t].left
      BY <1>1, <2>1 DEF NoTimer, TimerState
    <2>4. /\ timers' \in [TimerId -> TimerState]
          /\ \A u \in TimerId : Due(u) => Due(u)'
      BY <1>1, <2>1, <2>2, <2>3 DEF Due, Pending
    <2> QED
      BY <2>1, <2>4, TimersKeep DEF LoopInv, TypeOK
  <1> QED
    BY <1>2, <1>3

LEMMA CallsKeep ==
    ASSUME LoopInv,
           \/ \E k \in ReadKey : CallReadable(k)
           \/ \E k \in WriteKey : CallWritable(k)
           \/ \E t \in TimerId : CallTimer(t)
    PROVE  LoopInv'
  <1>1. /\ rcalls \in [ReadKey -> Nat] /\ wcalls \in [WriteKey -> Nat]
        /\ UNCHANGED <<readable, writable, timers, ready, phase, due, grown, exiting>>
    BY DEF LoopInv, TypeOK, CallReadable, CallWritable, CallTimer, tables, pass
  <1>2. rcalls' \in [ReadKey -> Nat] /\ wcalls' \in [WriteKey -> Nat]
    BY <1>1 DEF CallReadable, CallWritable, CallTimer, pass
  <1>3. /\ active' \in Callbacks
        /\ active'.kind = "read" => phase = "read"
        /\ active'.kind = "write" => phase = "write"
        /\ active'.kind = "timer" => phase = "timers" /\ Due(active'.id)
    BY DEF CallReadable, CallWritable, CallTimer, Callbacks
  <1>4. TypeOK'
    BY <1>1, <1>2, <1>3 DEF LoopInv, TypeOK
  <1>5. ActiveInItsPass'
    BY <1>1, <1>3 DEF ActiveInItsPass, Due, Pending
  <1> QED
    BY <1>4, <1>5 DEF LoopInv

LEMMA ReturnsKeep ==
    ASSUME LoopInv, ReadableReturns \/ WritableReturns \/ TimerReturns
    PROVE  LoopInv'
  <1>1. active' = None /\ UNCHANGED <<ready, phase, rcalls, wcalls, grown, exiting>>
    BY DEF ReadableReturns, WritableReturns, TimerReturns, TakeOut, pass
  <1>2. /\ readable' \in [ReadKey -> Socket \cup {None}]
        /\ writable' \in [WriteKey -> Socket \cup {None}]
        /\ timers' \in [TimerId -> TimerState]
        /\ due' \subseteq TimerId
    <2>1. /\ readable \in [ReadKey -> Socket \cup {None}]
          /\ writable \in [WriteKey -> Socket \cup {None}]
          /\ timers \in [TimerId -> TimerState]
          /\ due \subseteq TimerId
      BY DEF LoopInv, TypeOK
    <2>2. CASE ReadableReturns
      BY <2>1, <2>2 DEF ReadableReturns, pass
    <2>3. CASE WritableReturns
      BY <2>1, <2>3 DEF WritableReturns, pass
    <2>4. CASE TimerReturns
      BY <2>1, <2>4, NoTimerIsTimer DEF TimerReturns, TakeOut
    <2> QED
      BY <2>2, <2>3, <2>4
  <1>3. TypeOK'
    BY <1>1, <1>2 DEF LoopInv, TypeOK
  <1>4. ActiveInItsPass'
    BY <1>1 DEF ActiveInItsPass
  <1> QED
    BY <1>3, <1>4 DEF LoopInv

LEMMA DropTimerKeeps ==
    ASSUME LoopInv, NEW t \in TimerId, DropTimer(t)
    PROVE  LoopInv'
  <1>1. active = None /\ active' = None
    BY DEF DropTimer
  <1>2. TypeOK'
    BY NoTimerIsTimer DEF DropTimer, TakeOut, LoopInv, TypeOK
  <1> QED
    BY <1>1, <1>2 DEF LoopInv, ActiveInItsPass

LEMMA SelectKeeps == LoopInv /\ Select => LoopInv'
  <1> SUFFICES ASSUME LoopInv, Select PROVE LoopInv'
    OBVIOUS
  <1>1. rcalls' \in [ReadKey -> Nat] /\ wcalls' \in [WriteKey -> Nat]
    BY KeysAssumption, CallsAreCounted DEF Select, LoopInv, TypeOK
  <1>2. active = None
    BY ActiveKind DEF Select
  <1>3. TypeOK'
    BY <1>1 DEF Select, LoopInv, TypeOK, tables
  <1> QED
    BY <1>2, <1>3 DEF LoopInv, Select, ActiveInItsPass

LEMMA PassStepsKeep ==
    ASSUME LoopInv, Run \/ EndRead \/ EndWrite \/ EndTimers \/ Exit \/ SocketsChange
    PROVE  LoopInv'
  <1>1. /\ UNCHANGED <<readable, writable, timers, rcalls, wcalls, active>>
        /\ ready' \subseteq Socket /\ exiting' \in BOOLEAN /\ grown' \in BOOLEAN
        /\ due' \subseteq TimerId
        /\ phase' \in {"idle", "select", "read", "write", "timers"}
    BY DEF Run, EndRead, EndWrite, EndTimers, Exit, SocketsChange, tables, pass,
       LoopInv, TypeOK
  <1>2. active = None \/ UNCHANGED phase
    BY ActiveKind DEF Run, EndRead, EndWrite, EndTimers, Exit, SocketsChange, pass
  <1>3. TypeOK'
    BY <1>1 DEF LoopInv, TypeOK
  <1>4. ActiveInItsPass'
    BY <1>1, <1>2 DEF LoopInv, ActiveInItsPass, Due, Pending
  <1> QED
    BY <1>3, <1>4 DEF LoopInv

\* what a tick makes of the timers
LEMMA Ticked ==
    ASSUME LoopInv, Tick
    PROVE  /\ timers' \in [TimerId -> TimerState]
           /\ \A t \in TimerId :
                 /\ timers'[t].st = timers[t].st
                 /\ timers'[t].left = IF timers[t].left > 0 THEN timers[t].left - 1
                                      ELSE timers[t].left
                 /\ timers[t].left \in Nat
           /\ UNCHANGED <<readable, writable, ready, phase, rcalls, wcalls, due, grown,
                          exiting, active>>
  <1>1. timers \in [TimerId -> TimerState]
    BY DEF LoopInv, TypeOK
  <1>2. timers' = [t \in TimerId |->
                      IF timers[t].left > 0 THEN [timers[t] EXCEPT !.left = @ - 1]
                      ELSE timers[t]]
    BY DEF Tick
  <1>3. \A t \in TimerId :
            /\ timers[t].left \in Nat
            /\ timers[t].left > 0 => [timers[t] EXCEPT !.left = @ - 1] \in TimerState
    <2>1. TAKE t \in TimerId
    <2>2. /\ timers[t].left \in 0..MaxDelay
          /\ timers[t].left > 0 => [timers[t] EXCEPT !.left = @ - 1] \in TimerState
      BY <1>1, TimerStates
    <2> QED
      BY <2>2, MaxDelayAssumption
  <1>4. timers' \in [TimerId -> TimerState]
    BY <1>1, <1>2, <1>3
  <1>5. \A t \in TimerId :
            /\ timers'[t].st = timers[t].st
            /\ timers'[t].left = IF timers[t].left > 0 THEN timers[t].left - 1
                                 ELSE timers[t].left
    <2>1. TAKE t \in TimerId
    <2>2. timers[t].left > 0 =>
              timers[t] \in [st : {"running", "cancelled"}, left : 0..MaxDelay]
      BY <1>1, NoTimerIsTimer DEF TimerState
    <2> QED
      BY <1>2, <2>2
  <1> QED
    BY <1>3, <1>4, <1>5 DEF Tick, pass

LEMMA TickKeeps == LoopInv /\ Tick => LoopInv'
  <1> SUFFICES ASSUME LoopInv, Tick PROVE LoopInv'
    OBVIOUS
  <1>1. \A t \in TimerId : Due(t) => Due(t)'
    <2>1. SUFFICES ASSUME NEW t \in TimerId, Due(t) PROVE Due(t)'
      OBVIOUS
    <2>2. timers[t].left = 0 /\ timers'[t] = timers[t]
      BY <2>1 DEF Due, Tick
    <2> QED
      BY <2>1, <2>2 DEF Due, Pending
  <1>2. due' \subseteq TimerId /\ grown' \in BOOLEAN
    BY Ticked DEF LoopInv, TypeOK
  <1> QED
    BY <1>1, <1>2, Ticked, TimersKeep

\* Nothing a callback, the loop or the world does leads out of the invariant.
THEOREM LoopInvariantIsInductive == LoopInv /\ [Next]_vars => LoopInv'
  <1> SUFFICES ASSUME LoopInv, [Next]_vars PROVE LoopInv'
    OBVIOUS
  <1>1. CASE \E s \in Socket : \/ AddReadable(s) \/ AddWritable(s) \/ RemoveReadable(s)
                               \/ RemoveWritable(s) \/ RemoveSocket(s)
    BY <1>1, TablesKeep
  <1>2. CASE \/ \E d \in 0..MaxDelay : MakeTimer(d)
             \/ \E t \in TimerId : CancelTimer(t)
    BY <1>2, TimerOperationsKeep
  <1>3. CASE Run \/ EndRead \/ EndWrite \/ EndTimers \/ Exit \/ SocketsChange
    BY <1>3, PassStepsKeep
  <1>4. CASE Select
    BY <1>4, SelectKeeps
  <1>5. CASE \/ \E k \in ReadKey : CallReadable(k)
             \/ \E k \in WriteKey : CallWritable(k)
             \/ \E t \in TimerId : CallTimer(t)
    BY <1>5, CallsKeep
  <1>6. CASE ReadableReturns \/ WritableReturns \/ TimerReturns
    BY <1>6, ReturnsKeep
  <1>7. CASE \E t \in TimerId : DropTimer(t)
    BY <1>7, DropTimerKeeps
  <1>8. CASE Tick
    BY <1>8, TickKeeps
  <1>9. CASE UNCHANGED vars
    BY <1>9 DEF vars, tables, pass, LoopInv, TypeOK, ActiveInItsPass, Due, Pending
  <1> QED
    BY <1>1, <1>2, <1>3, <1>4, <1>5, <1>6, <1>7, <1>8, <1>9
       DEF Next, Operation, LoopStep

\* The invariant holds for ever.
THEOREM LoopInvariantHolds == Spec => []LoopInv
  BY LoopInitEstablishes, LoopInvariantIsInductive, PTL DEF Spec

\* Every variable keeps its type.
THEOREM LoopTypeCorrect == Spec => []TypeOK
  <1>1. LoopInv => TypeOK
    BY DEF LoopInv
  <1> QED
    BY <1>1, LoopInvariantHolds, PTL

\* A callback runs in its part of a pass, and a timer's while its object is
\* still in the table (eventloop.lua:78-114).
THEOREM ActiveAlwaysInItsPass == Spec => []ActiveInItsPass
  <1>1. LoopInv => ActiveInItsPass
    BY DEF LoopInv
  <1> QED
    BY <1>1, LoopInvariantHolds, PTL
-----------------------------------------------------------------------------
(* What returning callbacks may do, and what users of the timers see.      *)

\* A handler that returns takes away its own entry or none
\* (eventloop.lua:81-101).
THEOREM EntriesStay == Spec => OnlyTheCalledEntryGoes
  <1> DEFINE Stay == (active # None /\ active' = None) =>
                 /\ \A k \in ReadKey : active # [kind |-> "read", id |-> k]
                                         => readable'[k] = readable[k]
                 /\ \A k \in WriteKey : active # [kind |-> "write", id |-> k]
                                         => writable'[k] = writable[k]
  <1>1. LoopInv /\ [Next]_vars => [Stay]_vars
    <2> SUFFICES ASSUME LoopInv, [Next]_vars, active # None, active' = None
                 PROVE  Stay
      OBVIOUS
    <2>1. /\ readable \in [ReadKey -> Socket \cup {None}]
          /\ writable \in [WriteKey -> Socket \cup {None}]
      BY DEF LoopInv, TypeOK
    <2>2. CASE ReadableReturns
      <3>1. active = [kind |-> "read", id |-> active.id] /\ UNCHANGED writable
        BY <2>2, ActiveKind DEF ReadableReturns
      <3> QED
        BY <2>1, <2>2, <3>1 DEF ReadableReturns
    <2>3. CASE WritableReturns
      <3>1. active = [kind |-> "write", id |-> active.id] /\ UNCHANGED readable
        BY <2>3, ActiveKind DEF WritableReturns
      <3> QED
        BY <2>1, <2>3, <3>1 DEF WritableReturns
    <2>4. CASE TimerReturns
      BY <2>4 DEF TimerReturns, TakeOut
    <2> QED
      BY <2>2, <2>3, <2>4 DEF Next, Operation, LoopStep, vars, tables, pass, AddReadable,
         AddWritable, RemoveReadable, RemoveWritable, RemoveSocket, MakeTimer, CancelTimer,
         Exit, Run, Select, CallReadable, EndRead, CallWritable, EndWrite, CallTimer,
         DropTimer, EndTimers, Tick, SocketsChange
  <1> QED
    BY <1>1, LoopInvariantHolds, PTL DEF Spec, OnlyTheCalledEntryGoes

\* what the timer of a callback looks like from outside
LEMMA RemainingSame ==
    ASSUME UNCHANGED <<timers, active>>
    PROVE  UNCHANGED <<Remaining, Calling>>
  BY DEF Remaining, Calling

\* steps that are none of the timers' business
LEMMA SameIsStutter ==
    ASSUME UNCHANGED <<Remaining, Calling>>, (phase = "idle") <=> (phase' = "idle")
    PROVE  UNCHANGED Service!serviceVars
  BY DEF Service!serviceVars

LEMMA SameOrSwitch ==
    ASSUME UNCHANGED <<timers, active>>
    PROVE  [Service!Next]_(Service!serviceVars)
  <1>1. UNCHANGED <<Remaining, Calling>>
    BY RemainingSame
  <1>2. CASE (phase = "idle") <=> (phase' = "idle")
    BY <1>1, <1>2, SameIsStutter
  <1>3. CASE ~((phase = "idle") <=> (phase' = "idle"))
    BY <1>1, <1>3 DEF Service!Next, Service!Switch
  <1> QED
    BY <1>2, <1>3

\* the callback of t runs
InCall(t) == active # None /\ active.kind = "timer" /\ active.id = t

LEMMA RemainingOf ==
    ASSUME NEW t \in TimerId
    PROVE  Remaining[t] = IF timers[t].st = "running" /\ ~InCall(t) THEN timers[t].left ELSE None
  BY DEF Remaining, InCall

LEMMA SocketCallsAreNoTimerCalls ==
    ASSUME LoopInv, UNCHANGED <<timers, phase>>,
           \/ \E k \in ReadKey : CallReadable(k)
           \/ \E k \in WriteKey : CallWritable(k)
           \/ ReadableReturns
           \/ WritableReturns
    PROVE  UNCHANGED Service!serviceVars
  <1>1. /\ active = None \/ active.kind # "timer"
        /\ active' = None \/ active'.kind # "timer"
    BY ActiveKind DEF CallReadable, CallWritable, ReadableReturns, WritableReturns
  <1>2. UNCHANGED <<Remaining, Calling>>
    BY <1>1 DEF Remaining, Calling
  <1> QED
    BY <1>2, SameIsStutter

LEMMA MakeTimerIsMake ==
    ASSUME LoopInv, NEW d \in 0..MaxDelay, MakeTimer(d)
    PROVE  \E t \in TimerId : Service!Make(t, d)
  <1>1. PICK t \in TimerId :
            ~Pending(t) /\ timers' = [timers EXCEPT ![t] = [st |-> "running", left |-> d]]
    BY DEF MakeTimer
  <1>2. timers \in [TimerId -> TimerState] /\ UNCHANGED <<active, phase>>
    BY DEF LoopInv, TypeOK, MakeTimer
  <1>3. ~InCall(t)
    BY <1>1 DEF LoopInv, ActiveInItsPass, InCall, Due
  <1>4. Remaining[t] = None
    BY <1>1, RemainingOf, NoTimerIsTimer DEF Pending
  <1>5. Remaining' = [Remaining EXCEPT ![t] = d]
    BY <1>1, <1>2, <1>3 DEF Remaining, InCall
  <1>6. UNCHANGED Calling
    BY <1>2 DEF Calling
  <1> QED
    BY <1>2, <1>4, <1>5, <1>6 DEF Service!Make

LEMMA CancelTimerIsCancel ==
    ASSUME LoopInv, NEW t \in TimerId, CancelTimer(t)
    PROVE  Service!Cancel(t)
  <1>1. /\ timers \in [TimerId -> TimerState] /\ timers[t].st = "running"
        /\ timers' = [timers EXCEPT ![t].st = "cancelled"]
        /\ UNCHANGED <<active, phase>>
    BY DEF LoopInv, TypeOK, CancelTimer, pass
  <1>2. timers'[t].st = "cancelled" /\ \A u \in TimerId : u # t => timers'[u] = timers[u]
    BY <1>1, NoTimerIsTimer DEF TimerState
  <1>3. Remaining' = [Remaining EXCEPT ![t] = None]
    BY <1>1, <1>2 DEF Remaining, InCall
  <1>4. UNCHANGED Calling
    BY <1>1 DEF Calling
  <1> QED
    BY <1>1, <1>3, <1>4 DEF Service!Cancel

LEMMA CallTimerIsCall ==
    ASSUME LoopInv, NEW t \in TimerId, CallTimer(t)
    PROVE  Service!Call(t)
  <1>1. /\ phase = "timers" /\ active = None /\ Due(t) /\ timers[t].st = "running"
        /\ active' = [kind |-> "timer", id |-> t]
        /\ UNCHANGED <<timers, phase>>
    BY DEF CallTimer, tables, pass
  <1>2. active' # None
    BY <1>1, NoneAssumption DEF Callbacks
  <1>3. Remaining[t] = 0
    BY <1>1, RemainingOf DEF InCall, Due
  <1>4. Remaining' = [Remaining EXCEPT ![t] = None]
    BY <1>1, <1>2 DEF Remaining
  <1>5. Calling' = t
    BY <1>1, <1>2 DEF Calling
  <1> QED
    BY <1>1, <1>3, <1>4, <1>5 DEF Service!Call

LEMMA TimerReturnsIsReturn ==
    ASSUME LoopInv, TimerReturns
    PROVE  Service!Return
  <1>1. /\ active # None /\ active' = None /\ UNCHANGED phase
        /\ timers' = [timers EXCEPT ![active.id] = NoTimer]
        /\ timers \in [TimerId -> TimerState]
    BY DEF TimerReturns, TakeOut, LoopInv, TypeOK
  <1>2. active.kind = "timer" /\ active.id \in TimerId
    BY ActiveKind DEF TimerReturns
  <1>3. UNCHANGED Remaining
    BY <1>1, <1>2, NoTimerIsTimer DEF Remaining
  <1>4. Calling' = None
    BY <1>1 DEF Calling
  <1> QED
    BY <1>1, <1>3, <1>4 DEF Service!Return

LEMMA DropTimerIsStutter ==
    ASSUME LoopInv, NEW t \in TimerId, DropTimer(t)
    PROVE  UNCHANGED Service!serviceVars
  <1>1. /\ active = None /\ active' = None /\ UNCHANGED phase
        /\ timers[t].st = "cancelled"
        /\ timers' = [timers EXCEPT ![t] = NoTimer]
        /\ timers \in [TimerId -> TimerState]
    BY DEF DropTimer, TakeOut, LoopInv, TypeOK
  <1>2. UNCHANGED <<Remaining, Calling>>
    BY <1>1, NoTimerIsTimer DEF Remaining, Calling
  <1> QED
    BY <1>1, <1>2, SameIsStutter

LEMMA TickIsTick ==
    ASSUME LoopInv, Tick
    PROVE  Service!Tick
  <1>1. \A t \in TimerId :
            Remaining'[t] = IF Remaining[t] \in {None, 0} THEN Remaining[t]
                            ELSE Remaining[t] - 1
    <2>1. TAKE t \in TimerId
    <2>2. /\ timers'[t].st = timers[t].st
          /\ timers'[t].left = IF timers[t].left > 0 THEN timers[t].left - 1
                               ELSE timers[t].left
          /\ timers[t].left \in Nat
          /\ UNCHANGED active
      BY Ticked
    <2>3. /\ Remaining[t] = IF timers[t].st = "running" /\ ~InCall(t)
                            THEN timers[t].left ELSE None
          /\ Remaining'[t] = IF timers'[t].st = "running" /\ ~InCall(t)
                             THEN timers'[t].left ELSE None
      BY <2>2 DEF Remaining, InCall
    <2>4. timers[t].left # None
      BY <2>2, NoneAssumption
    <2> QED
      BY <2>2, <2>3, <2>4
  <1>2. Remaining' = [t \in TimerId |-> IF Remaining[t] \in {None, 0} THEN Remaining[t]
                                        ELSE Remaining[t] - 1]
    <2>1. Remaining' = [t \in TimerId |-> Remaining'[t]]
      BY DEF Remaining
    <2> QED
      BY <1>1, <2>1
  <1>3. UNCHANGED <<Calling, phase>>
    BY Ticked DEF Calling
  <1> QED
    BY <1>2, <1>3 DEF Service!Tick

\* Every step of the loop is a step of the timer service or none: no callback
\* of a cancelled timer, none before its time and none twice
\* (eventloop.lua:104-114, 127-154).
THEOREM StepsKeepThePromise == LoopInv /\ [Next]_vars => [Service!Next]_(Service!serviceVars)
  <1> SUFFICES ASSUME LoopInv, [Next]_vars PROVE [Service!Next]_(Service!serviceVars)
    OBVIOUS
  <1>1. CASE \E s \in Socket : \/ AddReadable(s) \/ AddWritable(s) \/ RemoveReadable(s)
                               \/ RemoveWritable(s) \/ RemoveSocket(s)
    BY <1>1, SameOrSwitch DEF AddReadable, AddWritable, RemoveReadable, RemoveWritable,
       RemoveSocket
  <1>2. CASE \E d \in 0..MaxDelay : MakeTimer(d)
    BY <1>2, MakeTimerIsMake DEF Service!Next
  <1>3. CASE \E t \in TimerId : CancelTimer(t)
    BY <1>3, CancelTimerIsCancel DEF Service!Next
  <1>4. CASE \/ Run \/ Select \/ EndRead \/ EndWrite \/ EndTimers \/ Exit \/ SocketsChange
    BY <1>4, SameOrSwitch DEF Run, Select, EndRead, EndWrite, EndTimers, Exit,
       SocketsChange, tables
  <1>5. CASE \/ \E k \in ReadKey : CallReadable(k)
             \/ \E k \in WriteKey : CallWritable(k)
             \/ ReadableReturns
             \/ WritableReturns
    <2>1. UNCHANGED <<timers, phase>>
      BY <1>5 DEF CallReadable, CallWritable, ReadableReturns, WritableReturns, tables, pass
    <2> QED
      BY <1>5, <2>1, SocketCallsAreNoTimerCalls
  <1>6. CASE \E t \in TimerId : CallTimer(t)
    BY <1>6, CallTimerIsCall DEF Service!Next
  <1>7. CASE TimerReturns
    BY <1>7, TimerReturnsIsReturn DEF Service!Next
  <1>8. CASE \E t \in TimerId : DropTimer(t)
    BY <1>8, DropTimerIsStutter
  <1>9. CASE Tick
    BY <1>9, TickIsTick DEF Service!Next
  <1>10. CASE UNCHANGED vars
    BY <1>10, SameOrSwitch DEF vars, tables
  <1> QED
    BY <1>1, <1>2, <1>3, <1>4, <1>5, <1>6, <1>7, <1>8, <1>9, <1>10
       DEF Next, Operation, LoopStep

\* The loop implements the safety part of TimerService.
THEOREM LoopServesTimers == Spec => Service!Init /\ [][Service!Next]_(Service!serviceVars)
  <1>1. Init => Service!Init
    BY NoTimerIsTimer DEF Init, Service!Init, Remaining, Calling
  <1> QED
    BY <1>1, LoopInvariantHolds, StepsKeepThePromise, PTL DEF Spec
=============================================================================
