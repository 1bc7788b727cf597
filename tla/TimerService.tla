---------------------------- MODULE TimerService ----------------------------
(***************************************************************************)
(* What the users of eventloop.lua's timers rely on: a timer that was made *)
(* calls its callback once, not before its time and never after it was     *)
(* cancelled, and if the loop keeps running it does call it.               *)
(***************************************************************************)
EXTENDS Naturals

CONSTANTS
    TimerId,        \* the timer objects
    MaxDelay,       \* the longest timeout asked for, in clock ticks
    Idle            \* not a number: not made yet, cancelled or called

VARIABLES
    remaining,      \* the ticks until each timer's time, or Idle
    calling,        \* the timer whose callback runs, or Idle
    on              \* the loop is running

serviceVars == <<remaining, calling, on>>

Init ==
    /\ remaining = [t \in TimerId |-> Idle]
    /\ calling = Idle
    /\ on = FALSE

Make(t, d) ==
    /\ remaining[t] = Idle
    /\ remaining' = [remaining EXCEPT ![t] = d]
    /\ UNCHANGED <<calling, on>>

Cancel(t) ==
    /\ remaining' = [remaining EXCEPT ![t] = Idle]
    /\ UNCHANGED <<calling, on>>

Call(t) ==
    /\ on
    /\ remaining[t] = 0
    /\ remaining' = [remaining EXCEPT ![t] = Idle]
    /\ calling' = t
    /\ UNCHANGED on

Return ==
    /\ calling' = Idle
    /\ UNCHANGED <<remaining, on>>

Tick ==
    /\ remaining' = [t \in TimerId |->
                        IF remaining[t] \in {Idle, 0} THEN remaining[t]
                        ELSE remaining[t] - 1]
    /\ UNCHANGED <<calling, on>>

Switch ==
    /\ on' = ~on
    /\ UNCHANGED <<remaining, calling>>

Next ==
    \/ \E t \in TimerId :
          \/ \E d \in 0..MaxDelay : Make(t, d)
          \/ Cancel(t)
          \/ Call(t)
    \/ Return
    \/ Tick
    \/ Switch

Spec ==
    /\ Init
    /\ [][Next]_serviceVars
    /\ \A t \in TimerId : WF_serviceVars(Call(t))
=============================================================================
