-------------------------- MODULE CommandQueueProofs --------------------------
(***************************************************************************)
(* The queue of a client never loses its wake-up, always has room for the  *)
(* rest of a reply, and paces its bursts, whatever the size of the queue,  *)
(* the intervals and the length of the replies.                            *)
(***************************************************************************)
EXTENDS CommandQueue, TLAPS
-----------------------------------------------------------------------------
(* Sequences.                                                              *)

LEMMA Push ==
    ASSUME NEW f \in Frame, NEW s \in Seq(Frame)
    PROVE  /\ <<f>> \o s \in Seq(Frame)
           /\ <<f>> \o s # <<>>
           /\ Len(<<f>> \o s) = Len(s) + 1
           /\ Head(<<f>> \o s) = f
           /\ \A i \in 2..(Len(s) + 1) : (<<f>> \o s)[i] = s[i - 1]
  OBVIOUS

LEMMA Pop ==
    ASSUME NEW S, NEW s \in Seq(S), s # <<>>
    PROVE  /\ Head(s) \in S
           /\ Tail(s) \in Seq(S)
           /\ Len(Tail(s)) = Len(s) - 1
           /\ Len(s) > 0
           /\ \A i \in 1..(Len(s) - 1) : Tail(s)[i] = s[i + 1]
  OBVIOUS

LEMMA AddLast ==
    ASSUME NEW S, NEW s \in Seq(S), NEW x \in S
    PROVE  /\ Append(s, x) \in Seq(S)
           /\ Append(s, x) # <<>>
           /\ Len(Append(s, x)) = Len(s) + 1
  <1>1. Append(s, x) \in Seq(S) /\ Len(Append(s, x)) = Len(s) + 1 /\ Len(s) \in Nat
    OBVIOUS
  <1>2. Len(<<>>) = 0
    OBVIOUS
  <1> QED
    BY <1>1, <1>2

LEMMA LongIsNotEmpty ==
    ASSUME NEW S, NEW s \in Seq(S), Len(s) > 0
    PROVE  s # <<>>
  OBVIOUS

LEMMA EmptyIsShort ==
    ASSUME NEW S, NEW s \in Seq(S)
    PROVE  Len(s) \in Nat /\ (s = <<>> <=> Len(s) = 0)
  OBVIOUS
-----------------------------------------------------------------------------
(* run_next_queued and queue, and what each leads to.                      *)

\* the head of q runs
Runs(q, frames) ==
    /\ wait = 0
    /\ q # <<>>
    /\ queue' \in Seq(Item)
    /\ Len(queue') = Len(q) - 1
    /\ running' \in Seq(Frame)
    /\ Len(running') = Len(frames) + 1
    /\ \A i \in 2..Len(running') : running'[i] = frames[i - 1]

LEMMA RunNextQueuedRuns ==
    ASSUME NEW q \in Seq(Item), NEW frames \in Seq(Frame), RunNextQueued(q, frames)
    PROVE  \/ Runs(q, frames)
           \/ (wait # 0 \/ q = <<>>) /\ queue' = q /\ running' = frames
  <1>1. CASE wait = 0 /\ q # <<>>
    <2> DEFINE f == [interval |-> Head(q).interval, lines |-> Head(q).lines]
    <2>1. f \in Frame
      BY <1>1, Pop DEF Item, Frame
    <2>2. queue' = Tail(q) /\ running' = <<f>> \o frames
      BY <1>1 DEF RunNextQueued
    <2> HIDE DEF f
    <2>3. queue' \in Seq(Item) /\ Len(queue') = Len(q) - 1
      BY <1>1, <2>2, Pop
    <2>4. /\ running' \in Seq(Frame)
          /\ Len(running') = Len(frames) + 1
          /\ \A i \in 2..Len(running') : running'[i] = frames[i - 1]
      BY <2>1, <2>2, Push
    <2> QED
      BY <1>1, <2>3, <2>4 DEF Runs
  <1>2. CASE ~(wait = 0 /\ q # <<>>)
    BY <1>2 DEF RunNextQueued
  <1> QED
    BY <1>1, <1>2

LEMMA RunsIsBusy ==
    ASSUME NEW q \in Seq(Item), NEW frames \in Seq(Frame), Runs(q, frames)
    PROVE  running' # <<>>
  <1>1. running' \in Seq(Frame) /\ Len(frames) \in Nat /\ Len(running') = Len(frames) + 1
    BY EmptyIsShort DEF Runs
  <1> QED
    BY <1>1, LongIsNotEmpty

\* a function started leaves room for what it will queue
LEMMA RunsKeeps ==
    ASSUME QInv, NEW q \in Seq(Item), NEW frames \in Seq(Frame), Runs(q, frames),
           Len(q) <= MaxQueue, known, UNCHANGED <<known, wait>>,
           timers' \subseteq timers,
           \A i \in 1..Len(frames) : frames[i].lines = 0
    PROVE  QInv'
  <1>1. /\ Len(queue') < MaxQueue /\ queue' \in Seq(Item) /\ wait = 0
        /\ running' \in Seq(Frame) /\ Len(running') = Len(frames) + 1
    BY EmptyIsShort, QueueAssumption DEF Runs
  <1>2. running' # <<>> /\ Len(frames) \in Nat
    BY <1>1, EmptyIsShort
  <1>3. TypeOK'
    BY <1>1, QueueAssumption DEF QInv, TypeOK
  <1>4. WakeUpReady' /\ RoomForTheRest' /\ ForgottenIsEmpty'
    BY <1>1, <1>2 DEF WakeUpReady, RoomForTheRest, ForgottenIsEmpty
  <1>5. OnlyInnermostGoesOn'
    <2>1. ASSUME NEW i \in 2..Len(running')
          PROVE  running'[i].lines = 0
      <3>1. i - 1 \in 1..Len(frames)
        BY <1>1, <1>2
      <3>2. running'[i] = frames[i - 1]
        BY DEF Runs
      <3> QED
        BY <3>1, <3>2
    <2> QED
      BY <1>1, <2>1 DEF OnlyInnermostGoesOn
  <1> QED
    BY <1>3, <1>4, <1>5 DEF QInv

LEMMA NextLineIsItem ==
    ASSUME NEW n \in 0..MaxLines, n > 0
    PROVE  NextLine(n) \in Item
  BY IntervalAssumption, LinesAssumption DEF NextLine, Item, DefaultInterval

LEMMA EnqueueResult ==
    ASSUME TypeOK, NEW item \in Item, NEW frames \in Seq(Frame), Enqueue(item, frames)
    PROVE  LET q == Append(queue, item) IN
           \/ /\ Len(queue) < MaxQueue /\ q \in Seq(Item) /\ Len(q) = Len(queue) + 1
              /\ Runs(q, frames)
           \/ /\ Len(queue) < MaxQueue /\ wait # 0
              /\ queue' \in Seq(Item) /\ queue' # <<>> /\ Len(queue') = Len(queue) + 1
              /\ running' = frames
           \/ /\ Len(queue) >= MaxQueue
              /\ queue' = queue /\ running' = frames
  <1> DEFINE q == Append(queue, item)
  <1>1. q \in Seq(Item) /\ q # <<>> /\ Len(q) = Len(queue) + 1
    BY AddLast DEF TypeOK
  <1> HIDE DEF q
  <1>2. CASE Len(queue) < MaxQueue
    <2>1. RunNextQueued(q, frames)
      BY <1>2 DEF Enqueue, q
    <2>2. Runs(q, frames) \/ (wait # 0 /\ queue' = q /\ running' = frames)
      BY <1>1, <2>1, RunNextQueuedRuns
    <2> QED
      BY <1>1, <1>2, <2>2 DEF q
  <1>3. CASE ~(Len(queue) < MaxQueue)
    <2>1. Len(queue) >= MaxQueue
      BY <1>3, QueueAssumption, EmptyIsShort DEF TypeOK
    <2> QED
      BY <1>3, <2>1 DEF Enqueue
  <1> QED
    BY <1>2, <1>3
-----------------------------------------------------------------------------
(* The steps.                                                              *)

LEMMA QInitEstablishes == Init => QInv
  <1> SUFFICES ASSUME Init PROVE QInv
    OBVIOUS
  <1>1. TypeOK
    BY QueueAssumption, IntervalAssumption DEF Init, TypeOK
  <1> QED
    BY <1>1 DEF Init, QInv, WakeUpReady, RoomForTheRest, OnlyInnermostGoesOn,
       ForgottenIsEmpty

LEMMA RequestKeeps ==
    ASSUME QInv, NEW item \in Item, Request(item)
    PROVE  QInv'
  <1>1. /\ known /\ running = <<>> /\ Enqueue(item, <<>>)
        /\ UNCHANGED <<known, wait, timers>>
        /\ <<>> \in Seq(Frame) /\ Len(<<>>) = 0
        /\ TypeOK
    BY DEF Request, QInv
  <1>2. CASE \E q \in Seq(Item) : Len(q) <= MaxQueue /\ Runs(q, <<>>)
    <2>1. PICK q \in Seq(Item) : Len(q) <= MaxQueue /\ Runs(q, <<>>)
      BY <1>2
    <2>2. \A i \in 1..Len(<<>>) : <<>>[i].lines = 0
      BY <1>1
    <2> QED
      BY <1>1, <2>1, <2>2, RunsKeeps
  <1>3. CASE /\ Len(queue) < MaxQueue /\ wait # 0
             /\ queue' \in Seq(Item) /\ Len(queue') = Len(queue) + 1
             /\ running' = <<>>
    <2>1. TypeOK'
      BY <1>1, <1>3, EmptyIsShort, QueueAssumption DEF TypeOK
    <2>2. WakeUpReady'
      BY <1>1, <1>3 DEF QInv, WakeUpReady, TypeOK
    <2>3. RoomForTheRest' /\ OnlyInnermostGoesOn' /\ ForgottenIsEmpty'
      BY <1>1, <1>3 DEF RoomForTheRest, OnlyInnermostGoesOn, ForgottenIsEmpty
    <2> QED
      BY <2>1, <2>2, <2>3 DEF QInv
  <1>4. CASE queue' = queue /\ running' = <<>>
    BY <1>1, <1>4 DEF QInv, TypeOK, WakeUpReady, RoomForTheRest, OnlyInnermostGoesOn,
       ForgottenIsEmpty
  <1> QED
    <2>1. Len(queue) \in Nat
      BY <1>1, EmptyIsShort DEF TypeOK
    <2>2. Len(queue) < MaxQueue => Len(queue) + 1 <= MaxQueue
      BY <2>1, QueueAssumption
    <2> HIDE DEF QInv
    <2>3. \/ \E q \in Seq(Item) : Len(q) <= MaxQueue /\ Runs(q, <<>>)
          \/ /\ Len(queue) < MaxQueue /\ wait # 0
             /\ queue' \in Seq(Item) /\ Len(queue') = Len(queue) + 1
             /\ running' = <<>>
          \/ queue' = queue /\ running' = <<>>
      BY <1>1, <2>2, EnqueueResult
    <2> QED
      BY <1>2, <1>3, <1>4, <2>3

LEMMA SilentIsFrame ==
    ASSUME NEW f \in Frame
    PROVE  [f EXCEPT !.lines = 0] \in Frame /\ [f EXCEPT !.lines = 0].lines = 0
  <1>1. 0 \in 0..MaxLines
    BY LinesAssumption
  <1> QED
    BY <1>1 DEF Frame

\* the function that queues has room for what it queues, and may run it
LEMMA FunctionQueuesRuns ==
    ASSUME QInv, FunctionQueues
    PROVE  \E q \in Seq(Item), frames \in Seq(Frame) :
               /\ Len(q) = Len(queue) + 1 /\ Len(q) <= MaxQueue
               /\ Runs(q, frames)
               /\ \A i \in 1..Len(frames) : frames[i].lines = 0
  <1> DEFINE inner == [Head(running) EXCEPT !.lines = 0]
             frames == <<inner>> \o Tail(running)
             item == NextLine(Head(running).lines)
  <1>1. /\ running \in Seq(Frame) /\ running # <<>> /\ Head(running).lines > 0
        /\ Enqueue(item, frames)
        /\ TypeOK
    BY DEF FunctionQueues, QInv, TypeOK
  <1>2. /\ Head(running) \in Frame /\ Tail(running) \in Seq(Frame)
        /\ Len(running) \in Nat /\ Len(Tail(running)) = Len(running) - 1
        /\ \A i \in 1..(Len(running) - 1) : Tail(running)[i] = running[i + 1]
    BY <1>1, Pop, EmptyIsShort
  <1>3. item \in Item
    BY <1>1, <1>2, NextLineIsItem DEF Frame
  <1>4. inner \in Frame /\ inner.lines = 0
    BY <1>2, SilentIsFrame
  <1>5. wait = 0 /\ Len(queue) < MaxQueue
    BY <1>1 DEF QInv, OnlyInnermostGoesOn, RoomForTheRest
  <1> HIDE DEF inner, item
  <1>6. /\ frames \in Seq(Frame) /\ Len(frames) = Len(running)
        /\ frames[1] = inner
        /\ \A i \in 2..Len(running) : frames[i] = running[i]
    <2>1. /\ frames \in Seq(Frame) /\ Len(frames) = Len(Tail(running)) + 1
          /\ Head(frames) = inner
          /\ \A i \in 2..(Len(Tail(running)) + 1) : frames[i] = Tail(running)[i - 1]
      BY <1>2, <1>4, Push
    <2>2. frames[1] = inner
      BY <2>1
    <2> QED
      BY <1>2, <2>1, <2>2
  <1>7. \A i \in 1..Len(frames) : frames[i].lines = 0
    <2>1. \A i \in 2..Len(running) : running[i].lines = 0
      BY DEF QInv, OnlyInnermostGoesOn
    <2> QED
      BY <1>2, <1>4, <1>6, <2>1
  <1> HIDE DEF frames
  <1>8. /\ Append(queue, item) \in Seq(Item)
        /\ Len(Append(queue, item)) = Len(queue) + 1
        /\ Runs(Append(queue, item), frames)
    <2>1. Len(queue) \in Nat
      BY <1>1, EmptyIsShort DEF TypeOK
    <2> QED
      BY <1>1, <1>3, <1>5, <1>6, <2>1, EnqueueResult, QueueAssumption
  <1>9. Len(queue) + 1 <= MaxQueue
    BY <1>1, <1>5, QueueAssumption, EmptyIsShort DEF TypeOK
  <1> QED
    BY <1>6, <1>7, <1>8, <1>9

LEMMA FunctionQueuesKeeps == QInv /\ FunctionQueues => QInv'
  <1> SUFFICES ASSUME QInv, FunctionQueues PROVE QInv'
    OBVIOUS
  <1>1. known /\ UNCHANGED <<known, wait, timers>>
    BY DEF FunctionQueues, QInv, OnlyInnermostGoesOn
  <1> QED
    BY <1>1, FunctionQueuesRuns, RunsKeeps

\* what is left when the innermost function returns
LEMMA FunctionReturnsLeaves ==
    ASSUME QInv, FunctionReturns
    PROVE  /\ running # <<>> /\ running' \in Seq(Frame)
           /\ wait' \in 1..MaxInterval
           /\ timers' = timers \cup {wait'}
           /\ Len(running) \in Nat /\ Len(running') = Len(running) - 1
           /\ \A i \in 1..Len(running') : running'[i] = running[i + 1]
           /\ UNCHANGED <<known, queue>>
  <1>1. running \in Seq(Frame) /\ running # <<>> /\ running' = Tail(running)
    BY DEF FunctionReturns, QInv, TypeOK
  <1>2. Head(running).interval \in 1..MaxInterval
    <2>1. Head(running) \in Frame
      BY <1>1, Pop
    <2> QED
      BY <2>1 DEF Frame
  <1> QED
    BY <1>1, <1>2, Pop, EmptyIsShort DEF FunctionReturns

LEMMA FunctionReturnsKeeps == QInv /\ FunctionReturns => QInv'
  <1> SUFFICES ASSUME QInv, FunctionReturns PROVE QInv'
    OBVIOUS
  <1>1. \A i \in 1..Len(running') : running'[i].lines = 0
    BY FunctionReturnsLeaves DEF QInv, OnlyInnermostGoesOn
  <1>2. running' # <<>> => Head(running').lines = 0
    <2>1. ASSUME running' # <<>> PROVE Len(running') > 0
      BY <2>1, FunctionReturnsLeaves, EmptyIsShort
    <2> QED
      BY <1>1, <2>1, FunctionReturnsLeaves
  <1>3. TypeOK'
    <2>1. wait' \in 0..MaxInterval
      BY FunctionReturnsLeaves, IntervalAssumption
    <2> QED
      BY <2>1, FunctionReturnsLeaves DEF QInv, TypeOK
  <1>4. WakeUpReady'
    BY FunctionReturnsLeaves DEF WakeUpReady
  <1>5. RoomForTheRest' /\ OnlyInnermostGoesOn' /\ ForgottenIsEmpty'
    BY <1>1, <1>2, FunctionReturnsLeaves
       DEF QInv, RoomForTheRest, OnlyInnermostGoesOn, ForgottenIsEmpty
  <1> QED
    BY <1>3, <1>4, <1>5 DEF QInv

LEMMA LessIsLess ==
    ASSUME NEW m \in Nat, NEW n \in 0..m
    PROVE  Less(n) \in 0..m /\ (n > 0 => Less(n) = n - 1) /\ (n = 0 => Less(n) = 0)
  BY DEF Less

LEMMA LessKeepsOrder ==
    ASSUME NEW m \in Nat, NEW a \in 0..m, NEW b \in 0..m, b >= a
    PROVE  Less(b) >= Less(a)
  BY DEF Less

LEMMA TickKeeps == QInv /\ Tick => QInv'
  <1> SUFFICES ASSUME QInv, Tick PROVE QInv'
    OBVIOUS
  <1>1. /\ wait' = Less(wait) /\ timers' = {Less(n) : n \in timers}
        /\ UNCHANGED <<known, queue, running>>
        /\ wait \in 0..MaxInterval /\ timers \subseteq 0..MaxInterval
        /\ MaxInterval \in Nat
    BY IntervalAssumption DEF Tick, QInv, TypeOK
  <1>2. TypeOK'
    BY <1>1, LessIsLess DEF QInv, TypeOK
  <1>3. WakeUpReady'
    <2>1. \A n \in timers : n >= wait => Less(n) >= Less(wait)
      BY <1>1, LessKeepsOrder
    <2>2. wait' > 0 => wait > 0
      BY <1>1, LessIsLess
    <2> QED
      BY <1>1, <2>1, <2>2 DEF QInv, WakeUpReady
  <1>4. wait = 0 => wait' = 0
    BY <1>1, LessIsLess
  <1> QED
    BY <1>1, <1>2, <1>3, <1>4
       DEF QInv, RoomForTheRest, OnlyInnermostGoesOn, ForgottenIsEmpty

LEMMA TimerFiresKeeps == QInv /\ TimerFires => QInv'
  <1> SUFFICES ASSUME QInv, TimerFires PROVE QInv'
    OBVIOUS
  <1>1. /\ running = <<>> /\ timers' = timers \ {0} /\ UNCHANGED <<known, wait>>
        /\ TypeOK /\ queue \in Seq(Item) /\ Len(queue) <= MaxQueue
        /\ <<>> \in Seq(Frame) /\ Len(<<>>) = 0
    BY DEF TimerFires, QInv, TypeOK
  <1>2. CASE known /\ Runs(queue, <<>>)
    <2>1. \A i \in 1..Len(<<>>) : <<>>[i].lines = 0
      BY <1>1
    <2> QED
      BY <1>1, <1>2, <2>1, RunsKeeps
  <1>3. CASE queue' = queue /\ running' = <<>> /\ (wait # 0 \/ queue = <<>>)
    <2>1. TypeOK'
      BY <1>1, <1>3 DEF TypeOK
    <2>2. WakeUpReady'
      <3>1. ASSUME wait > 0 PROVE \E n \in timers' : n >= wait
        <4>1. PICK n \in timers : n >= wait
          BY <1>1, <3>1 DEF QInv, WakeUpReady
        <4>2. n # 0
          BY <1>1, <3>1, <4>1 DEF TypeOK
        <4> QED
          BY <1>1, <4>1, <4>2
      <3>2. wait # 0 => wait > 0
        BY <1>1 DEF TypeOK
      <3> QED
        BY <1>1, <1>3, <3>1, <3>2 DEF WakeUpReady
    <2>3. RoomForTheRest' /\ OnlyInnermostGoesOn' /\ ForgottenIsEmpty'
      BY <1>1, <1>3 DEF QInv, RoomForTheRest, OnlyInnermostGoesOn, ForgottenIsEmpty
    <2> QED
      BY <2>1, <2>2, <2>3 DEF QInv
  <1> QED
    <2>1. CASE known
      <3>1. RunNextQueued(queue, <<>>)
        BY <2>1 DEF TimerFires
      <3> HIDE DEF QInv
      <3> QED
        BY <1>1, <1>2, <1>3, <2>1, <3>1, RunNextQueuedRuns
    <2>2. CASE ~known
      <3>1. UNCHANGED <<queue, running>> /\ queue = <<>>
        BY <2>2 DEF TimerFires, QInv, ForgottenIsEmpty
      <3> QED
        BY <1>1, <1>3, <3>1
    <2> QED
      BY <2>1, <2>2

LEMMA RemoveClientKeeps == QInv /\ RemoveClient => QInv'
  <1> SUFFICES ASSUME QInv, RemoveClient PROVE QInv'
    OBVIOUS
  <1>1. /\ running = <<>> /\ running' = <<>> /\ queue' = <<>> /\ known' = FALSE
        /\ UNCHANGED <<wait, timers>>
    BY DEF RemoveClient
  <1>2. <<>> \in Seq(Item) /\ <<>> \in Seq(Frame) /\ Len(<<>>) = 0
    OBVIOUS
  <1>3. TypeOK'
    <2>1. queue' \in Seq(Item) /\ running' \in Seq(Frame) /\ Len(queue') = 0
      BY <1>1, <1>2
    <2>2. known' \in BOOLEAN
      BY <1>1
    <2> QED
      BY <1>1, <2>1, <2>2, QueueAssumption DEF QInv, TypeOK
  <1>4. WakeUpReady'
    BY <1>1 DEF QInv, WakeUpReady
  <1>5. RoomForTheRest' /\ OnlyInnermostGoesOn' /\ ForgottenIsEmpty'
    BY <1>1, <1>2 DEF RoomForTheRest, OnlyInnermostGoesOn, ForgottenIsEmpty
  <1> QED
    BY <1>3, <1>4, <1>5 DEF QInv

\* No request, nested queueing, return, timer, tick or removal leads out of the
\* invariant.
THEOREM QueueInvariantIsInductive == QInv /\ [Next]_vars => QInv'
  <1> SUFFICES ASSUME QInv, [Next]_vars PROVE QInv'
    OBVIOUS
  <1>1. CASE \E item \in Item : Request(item)
    BY <1>1, RequestKeeps
  <1>2. CASE FunctionQueues
    BY <1>2, FunctionQueuesKeeps
  <1>3. CASE FunctionReturns
    BY <1>3, FunctionReturnsKeeps
  <1>4. CASE TimerFires
    BY <1>4, TimerFiresKeeps
  <1>5. CASE Tick
    BY <1>5, TickKeeps
  <1>6. CASE RemoveClient
    BY <1>6, RemoveClientKeeps
  <1>7. CASE UNCHANGED vars
    BY <1>7 DEF vars, QInv, TypeOK, WakeUpReady, RoomForTheRest, OnlyInnermostGoesOn,
       ForgottenIsEmpty
  <1> QED
    BY <1>1, <1>2, <1>3, <1>4, <1>5, <1>6, <1>7 DEF Next

\* The invariant holds for ever.
THEOREM QueueInvariantHolds == Spec => []QInv
  BY QInitEstablishes, QueueInvariantIsInductive, PTL DEF Spec

\* Every variable keeps its type; the queue never outgrows max_queue_size.
THEOREM QueueTypeCorrect == Spec => []TypeOK
  <1>1. QInv => TypeOK
    BY DEF QInv
  <1> QED
    BY <1>1, QueueInvariantHolds, PTL

\* Queued items always have a timer coming that may run them (bot.lua:32-41).
THEOREM WakeUpAlwaysPending == Spec => []WakeUpPending
  <1>1. QInv => WakeUpPending
    BY DEF QInv, WakeUpReady, WakeUpPending
  <1> QED
    BY <1>1, QueueInvariantHolds, PTL

\* A reply that has begun is never cut short by a full queue (bot.lua:50, 60-73).
THEOREM AlwaysRoomForTheRest == Spec => []RoomForTheRest
  <1>1. QInv => RoomForTheRest
    BY DEF QInv
  <1> QED
    BY <1>1, QueueInvariantHolds, PTL
-----------------------------------------------------------------------------
(* The queue implements the safety part of PacedQueue.                     *)

LEMMA RunsBegins ==
    ASSUME QInv, running = <<>>, NEW q \in Seq(Item), Runs(q, <<>>),
           q = queue \/ Len(q) = Len(queue) + 1
    PROVE  Paced!BeginNew \/ Paced!BeginQueued
  <1>1. /\ Len(queue) \in Nat /\ Len(q) \in Nat /\ Len(queue') \in Nat
        /\ Len(q) > 0
        /\ Len(queue') = Len(q) - 1 /\ wait = 0 /\ running' # <<>>
    <2>1. Len(<<>>) = 0 /\ <<>> \in Seq(Frame)
      OBVIOUS
    <2>2. running' # <<>>
      BY <2>1, RunsIsBusy
    <2>3. q # <<>> /\ queue' \in Seq(Item) /\ Len(queue') = Len(q) - 1 /\ wait = 0
      BY DEF Runs
    <2> QED
      BY <2>2, <2>3, EmptyIsShort DEF QInv, TypeOK
  <1> QED
    BY <1>1 DEF Paced!BeginNew, Paced!BeginQueued

LEMMA RequestIsPaced ==
    ASSUME QInv, NEW item \in Item, Request(item)
    PROVE  [Paced!Next]_(Paced!pacedVars)
  <1>1. /\ running = <<>> /\ Enqueue(item, <<>>) /\ UNCHANGED <<known, wait, timers>>
        /\ <<>> \in Seq(Frame) /\ TypeOK /\ Len(queue) \in Nat
    BY EmptyIsShort DEF Request, QInv, TypeOK
  <1>2. CASE \E q \in Seq(Item) : Len(q) = Len(queue) + 1 /\ Runs(q, <<>>)
    BY <1>1, <1>2, RunsBegins DEF Paced!Next
  <1>3. CASE /\ Len(queue) < MaxQueue /\ Len(queue') = Len(queue) + 1
             /\ running' = <<>>
    BY <1>1, <1>3 DEF Paced!Next, Paced!Accept
  <1>4. CASE queue' = queue /\ running' = <<>>
    BY <1>1, <1>4 DEF Paced!pacedVars
  <1> QED
    <2> HIDE DEF QInv
    <2> QED
      BY <1>1, <1>2, <1>3, <1>4, EnqueueResult

\* Every step of the queue is a step of the paced queue or none: a burst never
\* begins before the pause is over, and nothing but a burst or the removal of
\* the client takes something out of the backlog.
THEOREM StepsArePaced == QInv /\ [Next]_vars => [Paced!Next]_(Paced!pacedVars)
  <1> SUFFICES ASSUME QInv, [Next]_vars PROVE [Paced!Next]_(Paced!pacedVars)
    OBVIOUS
  <1>1. CASE \E item \in Item : Request(item)
    BY <1>1, RequestIsPaced
  <1>2. CASE FunctionQueues
    <2>1. running # <<>>
      BY <1>2 DEF FunctionQueues
    <2>2. PICK q \in Seq(Item), frames \in Seq(Frame) :
              Len(q) = Len(queue) + 1 /\ Runs(q, frames)
      BY <1>2, FunctionQueuesRuns
    <2>3. Len(queue') = Len(queue) /\ running' # <<>>
      <3>1. Len(queue) \in Nat /\ Len(frames) \in Nat
        BY <2>2, EmptyIsShort DEF QInv, TypeOK
      <3>2. Len(running') > 0
        BY <2>2, <3>1 DEF Runs
      <3> QED
        BY <2>2, <3>1, <3>2 DEF Runs
    <2> QED
      BY <2>1, <2>3 DEF Paced!pacedVars
  <1>3. CASE FunctionReturns
    <2>1. /\ running # <<>> /\ wait' \in 1..MaxInterval /\ UNCHANGED queue
      BY <1>3, FunctionReturnsLeaves
    <2>2. CASE running' = <<>>
      BY <2>1, <2>2 DEF Paced!Next, Paced!End
    <2>3. CASE running' # <<>>
      BY <2>1, <2>3 DEF Paced!pacedVars
    <2> QED
      BY <2>2, <2>3
  <1>4. CASE TimerFires
    <2>1. /\ running = <<>> /\ UNCHANGED wait /\ queue \in Seq(Item)
          /\ <<>> \in Seq(Frame)
      BY <1>4 DEF TimerFires, QInv, TypeOK
    <2>2. CASE Runs(queue, <<>>)
      BY <2>1, <2>2, RunsBegins DEF Paced!Next
    <2>3. CASE queue' = queue /\ running' = <<>>
      BY <2>1, <2>3 DEF Paced!pacedVars
    <2>4. known => RunNextQueued(queue, <<>>)
      BY <1>4 DEF TimerFires
    <2>5. ~known => queue' = queue /\ running' = <<>>
      BY <1>4, <2>1 DEF TimerFires
    <2> HIDE DEF QInv
    <2> QED
      BY <2>1, <2>2, <2>3, <2>4, <2>5, RunNextQueuedRuns
  <1>5. CASE Tick
    <2>1. /\ wait \in Nat /\ UNCHANGED <<queue, running>>
          /\ wait > 0 => wait' = wait - 1
          /\ wait = 0 => wait' = 0
      BY <1>5, LessIsLess, IntervalAssumption DEF Tick, QInv, TypeOK
    <2>2. CASE running = <<>> /\ wait > 0
      BY <2>1, <2>2 DEF Paced!Next, Paced!Tick
    <2>3. CASE ~(running = <<>> /\ wait > 0)
      BY <2>1, <2>3 DEF Paced!pacedVars
    <2> QED
      BY <2>2, <2>3
  <1>6. CASE RemoveClient
    <2>1. Len(queue') = 0 /\ running = <<>> /\ UNCHANGED <<running, wait>>
      BY <1>6 DEF RemoveClient
    <2> QED
      BY <2>1 DEF Paced!Next, Paced!Forget
  <1>7. CASE UNCHANGED vars
    BY <1>7 DEF vars, Paced!pacedVars
  <1> QED
    BY <1>1, <1>2, <1>3, <1>4, <1>5, <1>6, <1>7 DEF Next

\* The command queue implements the safety part of PacedQueue.
THEOREM QueueIsPaced == Spec => Paced!Init /\ [][Paced!Next]_(Paced!pacedVars)
  <1>1. Init => Paced!Init
    BY DEF Init, Paced!Init
  <1> QED
    BY <1>1, QueueInvariantHolds, StepsArePaced, PTL DEF Spec
=============================================================================
