----------------------------- MODULE PacedQueue -----------------------------
(***************************************************************************)
(* What bot.lua's command queue promises the server and the people who use *)
(* the bot: what was accepted is worked off in bursts, no burst starts     *)
(* before the pause after the last one is over, and as long as something is*)
(* left there will be a next one. Nothing is said about timers.            *)
(***************************************************************************)
EXTENDS Naturals

CONSTANTS
    MaxQueue,       \* the most that can wait
    MaxInterval     \* the longest pause, in ticks

VARIABLES
    backlog,        \* how much waits
    busy,           \* a burst is under way
    pause           \* ticks until the next burst may start

pacedVars == <<backlog, busy, pause>>

Init == backlog = 0 /\ busy = FALSE /\ pause = 0

Accept ==
    /\ ~busy
    /\ backlog < MaxQueue
    /\ backlog' = backlog + 1
    /\ UNCHANGED <<busy, pause>>

\* a burst of something new, when nothing waited
BeginNew ==
    /\ ~busy /\ pause = 0 /\ backlog = 0
    /\ busy' = TRUE
    /\ UNCHANGED <<backlog, pause>>

\* a burst of what waited, perhaps as something new takes its place
BeginQueued ==
    /\ ~busy /\ pause = 0 /\ backlog > 0
    /\ busy' = TRUE
    /\ backlog' \in {backlog - 1, backlog}
    /\ UNCHANGED pause

End ==
    /\ busy
    /\ busy' = FALSE
    /\ pause' \in 1..MaxInterval
    /\ UNCHANGED backlog

Tick ==
    /\ pause > 0
    /\ pause' = pause - 1
    /\ UNCHANGED <<backlog, busy>>

Forget ==
    /\ ~busy
    /\ backlog' = 0
    /\ UNCHANGED <<busy, pause>>

Next == Accept \/ BeginNew \/ BeginQueued \/ End \/ Tick \/ Forget

Spec == Init /\ [][Next]_pacedVars /\ WF_pacedVars(BeginQueued) /\ WF_pacedVars(End)
=============================================================================
