----------------------------- MODULE CommandQueue -----------------------------
(***************************************************************************)
(* The queue bot.lua keeps for every client: commands and replies are      *)
(* functions that queue() accepts and run_next_queued() runs, one per      *)
(* interval, woken by a timer. A function may call queue() itself: the     *)
(* command that prints several lines queues the first, and each line the   *)
(* next. Then run_next_queued() runs inside itself, and next_item_time,    *)
(* which is only set when a function returns, still allows it to.          *)
(***************************************************************************)
EXTENDS Naturals, Sequences

CONSTANTS
    MaxQueue,       \* config.max_queue_size
    MaxInterval,    \* bound: the longest mininterval of a command, in ticks
    MaxLines        \* bound: the lines of a reply

ASSUME QueueAssumption == MaxQueue \in Nat \ {0}
ASSUME IntervalAssumption == MaxInterval \in Nat \ {0}
ASSUME LinesAssumption == MaxLines \in Nat

VARIABLES
    known,          \* the client is in clients
    queue,          \* clients[client].queue
    wait,           \* ticks until next_item_time, 0 once it has passed
    timers,         \* ticks until each timer that will call run_next_queued
    running         \* the functions that run, innermost first: the interval of
                    \* each, and the lines it has yet to queue

vars == <<known, queue, wait, timers, running>>

\* config.default_min_queue_interval
DefaultInterval == 1

\* a function, the lines it will have queued one by one, and whether it is the
\* one AcceptedIsRun follows
Item == [interval : 1..MaxInterval, lines : 0..MaxLines, watched : BOOLEAN]
Frame == [interval : 1..MaxInterval, lines : 0..MaxLines]

NextLine(lines) ==
    [interval |-> DefaultInterval, lines |-> lines - 1, watched |-> FALSE]

\* faulty: the next item runs whatever next_item_time says
RunNextQueuedAtOnce(q, frames) ==
    IF q # <<>>
    THEN /\ queue' = Tail(q)
         /\ running' = <<[interval |-> Head(q).interval, lines |-> Head(q).lines]>> \o frames
    ELSE queue' = q /\ running' = frames

\* faulty: the item stays in the queue while it runs
RunNextQueuedKeepsItem(q, frames) ==
    IF wait = 0 /\ q # <<>>
    THEN /\ queue' = q
         /\ running' = <<[interval |-> Head(q).interval, lines |-> Head(q).lines]>> \o frames
    ELSE queue' = q /\ running' = frames

\* faulty: the last item comes first
RunNextQueuedLast(q, frames) ==
    IF wait = 0 /\ q # <<>>
    THEN LET last == q[Len(q)]
         IN  /\ queue' = SubSeq(q, 1, Len(q) - 1)
             /\ running' = <<[interval |-> last.interval, lines |-> last.lines]>> \o frames
    ELSE queue' = q /\ running' = frames

\* run_next_queued up to its call of the function, with the queue q and the
\* functions that run already
RunNextQueued(q, frames) ==
    IF wait = 0 /\ q # <<>>
    THEN /\ queue' = Tail(q)
         /\ running' = <<[interval |-> Head(q).interval, lines |-> Head(q).lines]>> \o frames
    ELSE queue' = q /\ running' = frames

\* queue(): a full queue drops the item without a word
Enqueue(item, frames) ==
    IF Len(queue) < MaxQueue
    THEN RunNextQueued(Append(queue, item), frames)
    ELSE queue' = queue /\ running' = frames
-----------------------------------------------------------------------------
\* A command, a response, a relayed message: queue() called by an event handler
Request(item) ==
    /\ known
    /\ running = <<>>
    /\ item.watched => \A i \in DOMAIN queue : ~queue[i].watched
    /\ Enqueue(item, <<>>)
    /\ UNCHANGED <<known, wait, timers>>

\* the innermost function queues what is left of its lines
FunctionQueues ==
    /\ running # <<>>
    /\ Head(running).lines > 0
    /\ Enqueue(NextLine(Head(running).lines),
               <<[Head(running) EXCEPT !.lines = 0]>> \o Tail(running))
    /\ UNCHANGED <<known, wait, timers>>

\* faulty: the timer is made for the default interval, whatever the item's
FunctionReturnsEarlyTimer ==
    /\ running # <<>>
    /\ wait' = Head(running).interval
    /\ timers' = timers \cup {DefaultInterval}
    /\ running' = Tail(running)
    /\ UNCHANGED <<known, queue>>

\* The innermost function is done, or it raises before it has queued the rest,
\* for instance because the client is not connected; run_next_queued goes on.
FunctionReturns ==
    /\ running # <<>>
    /\ wait' = Head(running).interval
    /\ timers' = timers \cup {Head(running).interval}
    /\ running' = Tail(running)
    /\ UNCHANGED <<known, queue>>

TimerFires ==
    /\ running = <<>>
    /\ 0 \in timers
    /\ timers' = timers \ {0}
    /\ IF known THEN RunNextQueued(queue, <<>>) ELSE UNCHANGED <<queue, running>>
    /\ UNCHANGED <<known, wait>>

Less(n) == IF n > 0 THEN n - 1 ELSE 0

\* Time passes, also while a function blocks.
Tick ==
    /\ wait' = Less(wait)
    /\ timers' = {Less(n) : n \in timers}
    /\ UNCHANGED <<known, queue, running>>

\* load_config forgets a client that is no longer configured, and its queue
RemoveClient ==
    /\ known
    /\ running = <<>>
    /\ known' = FALSE
    /\ queue' = <<>>
    /\ UNCHANGED <<wait, timers, running>>
-----------------------------------------------------------------------------
Init ==
    /\ known = TRUE
    /\ queue = <<>>
    /\ wait = 0
    /\ timers = {}
    /\ running = <<>>

Next ==
    \/ \E item \in Item : Request(item)
    \/ FunctionQueues
    \/ FunctionReturns
    \/ TimerFires
    \/ Tick
    \/ RemoveClient

\* Functions return, the event loop calls timers that are due, time passes.
Fairness ==
    /\ WF_vars(FunctionReturns)
    /\ SF_vars(TimerFires)
    /\ WF_vars(Tick)

Spec == Init /\ [][Next]_vars /\ Fairness
-----------------------------------------------------------------------------
TypeOK ==
    /\ known \in BOOLEAN
    /\ queue \in Seq(Item)
    /\ Len(queue) <= MaxQueue
    /\ wait \in 0..MaxInterval
    /\ timers \subseteq 0..MaxInterval
    /\ running \in Seq(Frame)

\* Whenever something is queued and nothing runs, a timer is on its way that
\* does not come before next_item_time, when it would find that it is too early
\* and go for good (bot.lua:34). Nested runs leave several of each behind.
WakeUpPending ==
    (queue # <<>> /\ running = <<>>) => \E n \in timers : n >= wait

\* The lines of a reply are never cut short by a full queue: a function that is
\* about to queue the rest has left the queue itself and everything it called
\* has, too (bot.lua:50,70).
RoomForTheRest ==
    (running # <<>> /\ Head(running).lines > 0) => Len(queue) < MaxQueue

\* the queue is only left to a timer that comes when it may run: also while
\* next_item_time lies ahead and nothing is queued yet
WakeUpReady ==
    (running = <<>> /\ (wait > 0 \/ queue # <<>>)) => \E n \in timers : n >= wait

\* Nested runs are the tail of a reply: only the innermost function has lines
\* left, it was started when next_item_time had passed, and there is room.
OnlyInnermostGoesOn ==
    /\ running # <<>> => known
    /\ \A i \in 2..Len(running) : running[i].lines = 0
    /\ (running # <<>> /\ Head(running).lines > 0) => wait = 0

ForgottenIsEmpty == ~known => queue = <<>>

\* All of this together: whatever the order of requests, lines, returns and
\* timers, a reply finds room, the queue keeps to its size, and every state
\* leaves the timers it needs (bot.lua:32-73).
QInv ==
    /\ TypeOK
    /\ WakeUpReady
    /\ RoomForTheRest
    /\ OnlyInnermostGoesOn
    /\ ForgottenIsEmpty

\* Everything accepted is run, however much is accepted after it, unless its
\* client is removed (bot.lua:32-41).
Watched == \E i \in DOMAIN queue : queue[i].watched
AcceptedIsRun == Watched ~> ~Watched

\* A burst is a function and everything that runs inside it.
Paced == INSTANCE PacedQueue
    WITH backlog <- Len(queue),
         busy <- (running # <<>>),
         pause <- (IF running = <<>> THEN wait ELSE 0)

\* Bursts keep the intervals and are never stalled: the timers do what the
\* paced queue asks for. The lines of one reply are one burst: inside it
\* next_item_time holds nothing back (bot.lua:39,70).
BurstsArePaced == Paced!Spec
=============================================================================
