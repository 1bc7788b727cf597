--------------------------- MODULE LuaCallsProofs ---------------------------
(***************************************************************************)
(* Proofs about LuaCalls.  The frames of the C stack determine what the    *)
(* lua_State of every thread must be: Imply adds up, frame by frame, the   *)
(* C calls, the CallInfos, the place to jump to, the hooks and the         *)
(* protected calls that a thread has below it.  The invariant says that    *)
(* each lua_State is what the frames imply, and that what luaD_pcall has   *)
(* saved is what the frames below it imply; then an error that cuts the    *)
(* stack and restores what was saved keeps it.  At the end: coroutines     *)
(* do what Coroutines promises, the chain of which is what the frames of   *)
(* lua_resume link.                                                        *)
(***************************************************************************)
EXTENDS LuaCalls, SequenceTheorems, NaturalsInduction, WellFoundedInduction, TLAPS

\* What nCcalls stays below, error handlers included, and the functions of CallInfos.
Limit == MaxCCalls + CSlack
Functs == LuaFunctions \cup CFunctions

\* The types of the frames and of the lua_States.
Frames ==
    [a : {"exec"}, thread : Threads, n : Nat \ {0}]
    \cup [a : {"cfun"}, thread : Threads, f : CFunctions]
    \cup [a : {"pcall"}, thread : Threads, depth : Nat, nC : Nat, errf : BOOLEAN,
          allow : BOOLEAN, jmp : Nat]
    \cup [a : {"parser"}, thread : Threads, n : Nat]
    \cup [a : {"resume"}, thread : Threads, jmp : Nat]
    \cup [a : {"call", "hook", "errormsg"}, thread : Threads]

LuaStates ==
    [status : {"none", "ok", "yield", "error"}, ci : Seq(Functs \cup {"base"}), size : Nat,
     nC : Nat, baseC : Nat, jmp : Nat, errf : BOOLEAN, allow : BOOLEAN,
     vals : {"none", "function", "values"}, opened : SUBSET Nat]

\* What the first i frames imply for the thread of the last of them: the C calls, the
\* CallInfos, the place to jump to, the numbers of hooks and of protected calls, the
\* C calls below its coroutine, and the threads that have resumed each other.
Implied == [c : Nat, d : Nat, j : Nat, h : Nat, p : Nat, b : Nat, r : Seq(Threads)]
Nothing == [c |-> 0, d |-> 0, j |-> 0, h |-> 0, p |-> 0, b |-> 0, r |-> <<Main>>]
Protects(f) == f.a \in {"pcall", "resume"}
Imply(x, f, i) ==
    [c |-> x.c + Nested(f),
     d |-> IF f.a = "resume" THEN 0 ELSE x.d + CallInfos(f),
     j |-> IF Protects(f) THEN i ELSE x.j,
     h |-> IF f.a = "resume" THEN 0 ELSE IF f.a = "hook" THEN x.h + 1 ELSE x.h,
     p |-> IF f.a = "resume" THEN 0 ELSE IF f.a = "pcall" THEN x.p + 1 ELSE x.p,
     b |-> IF f.a = "resume" THEN x.c + 1 ELSE x.b,
     r |-> IF f.a = "resume" THEN Append(x.r, f.thread) ELSE x.r]

\* The main thread runs below the first frame.
ThreadAt(nat, i) == IF i = 0 THEN Main ELSE nat[i].thread
Waits(nat, i) == i = Len(nat) \/ nat[i + 1].a = "resume"
Off(nat, t) == \A i \in 0..Len(nat) : ThreadAt(nat, i) # t

\* Which frame can be on which.
Placed(nat, i) ==
    LET f == nat[i]
        on == nat[i - 1].a
    IN  /\ i = 1 => f.a = "pcall"
        /\ f.a = "exec" => i > 1 /\ on \in {"call", "resume"}
        /\ f.a = "cfun" => i > 1 /\ on \in {"exec", "call", "resume"}
        /\ f.a = "resume" => i > 1 /\ on = "cfun"
        /\ f.a # "resume" => f.thread = ThreadAt(nat, i - 1)
        /\ f.a = "resume" => f.jmp = 0 /\ \A k \in 0..(i - 1) : ThreadAt(nat, k) # f.thread

\* What luaD_pcall has saved.
Saved(f, x) ==
    /\ f.nC = x.c /\ f.depth = x.d + 1 /\ f.jmp = x.j
    /\ f.allow <=> x.h = 0
    /\ f.errf => x.p > 0
\* What the frames imply, frame by frame, and what those that save have saved.
Follows(nat, g, i) ==
    /\ g[i] = Imply(g[i - 1], nat[i], i)
    /\ g[i - 1].c < Limit
    /\ nat[i].a = "pcall" => Saved(nat[i], g[i - 1])
    /\ nat[i].a = "hook" => g[i - 1].h = 0

\* What is between a frame and the protected frame below it.
Lands(nat, g, i) ==
    LET j == g[i].j
    IN  /\ j \in 1..i /\ Protects(nat[j])
        /\ \A k \in j..i : nat[k].thread = nat[i].thread
        /\ nat[j].a = "pcall" => g[j - 1].b = g[i].b /\ g[j - 1].r = g[i].r
        /\ nat[j].a = "resume" => /\ g[i].b = g[j - 1].c + 1
                                  /\ g[i].r = Append(g[j - 1].r, nat[i].thread)
\* j, h and p are about the frames of the thread.
Counts(nat, g, i) ==
    /\ \A k \in 1..i : nat[k].thread = nat[i].thread /\ Protects(nat[k]) => k <= g[i].j
    /\ g[i].h > 0 <=> \E k \in 1..i : nat[k].thread = nat[i].thread /\ nat[k].a = "hook"
    /\ g[i].p > 0 => \E k \in 1..i : nat[k].thread = nat[i].thread /\ nat[k].a = "pcall"
\* The CallInfos of a thread are added to, and it has no frames above the one it waits at.
Grows(nat, g, i) ==
    /\ g[i].b <= g[i].c
    /\ \A k \in 0..i : ThreadAt(nat, k) = ThreadAt(nat, i) => g[k].d <= g[i].d
    /\ \A k \in 0..(i - 1) : Waits(nat, k) => ThreadAt(nat, k) # ThreadAt(nat, i)

\* The C stack is one that calls can build, and g is what its frames imply.
StackInv(nat, g) ==
    /\ nat \in Seq(Frames)
    /\ g \in [0..Len(nat) -> Implied] /\ g[0] = Nothing
    /\ \A i \in 1..Len(nat) : Placed(nat, i) /\ Follows(nat, g, i)
                              /\ Lands(nat, g, i) /\ Counts(nat, g, i) /\ Grows(nat, g, i)
    /\ \A i \in 0..Len(nat) : \E k \in i..Len(nat) :
                                 Waits(nat, k) /\ ThreadAt(nat, k) = ThreadAt(nat, i)

\* The CallInfos that a frame runs.  Only what an earlier run has left on the stack
\* of a coroutine makes resume call a function of C.
Runs(q, f, x) ==
    /\ f.a = "exec" => \A y \in (x.d - f.n + 2)..(x.d + 1) : q.ci[y] = "lua"
    /\ f.a = "cfun" => /\ q.ci[x.d + 1] = f.f
                       /\ x.d = 1 /\ x.c = x.b => q.vals = "values"
\* A coroutine that has yielded: Lua functions, and yield; without any Lua function
\* it is one that an earlier run has left values to.
Yielded(q) ==
    /\ Len(q.ci) >= 2 /\ q.ci[Len(q.ci)] # "lua"
    /\ \A y \in 2..(Len(q.ci) - 1) : q.ci[y] = "lua"
    /\ Len(q.ci) = 2 => q.vals = "values"

\* The lua_State of a thread whose last frame is f.
Matches(q, yields, x) ==
    /\ q.nC = x.c /\ q.baseC = x.b /\ q.jmp = x.j
    /\ q.allow <=> x.h = 0
    /\ q.errf => x.p > 0
    /\ \/ q.status = "ok" /\ Len(q.ci) = x.d + 1
       \/ q.status = "yield" /\ yields /\ Yielded(q)
\* The lua_State of a thread without frames.
Rests(q) ==
    /\ q.jmp = 0 /\ q.nC <= Limit
    /\ q.status = "none" => q.vals = "none"
    /\ q.status \in {"ok", "yield"} => q.allow /\ ~q.errf
    /\ q.status = "ok" => Len(q.ci) = 1
    /\ q.status = "yield" => Yielded(q)
\* The lua_State of any thread.
Sound(q) ==
    /\ q \in LuaStates
    /\ Len(q.ci) \in 1..q.size /\ q.size <= 2 * MaxCalls
    /\ \A y \in 2..Len(q.ci) : q.ci[y] \in Functs
    /\ \A y \in q.opened : y \in 1..Len(q.ci) /\ q.ci[y] = "lua"

\* Every thread is what the last of its frames implies.
Yields(nat, i) == i > 0 /\ nat[i].a = "resume"
StatesInv(str, nat, g) ==
    /\ str \in [Threads -> LuaStates]
    /\ \A t \in Threads : Sound(str[t])
    /\ \A i \in 1..Len(nat) : Runs(str[nat[i].thread], nat[i], g[i])
    /\ \A i \in 0..Len(nat) : Waits(nat, i) => Matches(str[ThreadAt(nat, i)], Yields(nat, i), g[i])
    /\ \A t \in Threads : Off(nat, t) => Rests(str[t])

\* The frames and the lua_States are in order.
Agree(s, g) ==
    /\ s = [st |-> s.st, native |-> s.native, ctl |-> s.ctl]
    /\ StackInv(s.native, g) /\ StatesInv(s.st, s.native, g)

\* The frames, the lua_States and the limit on C calls are in order.
InOrder(s) ==
    /\ s.ctl \in {"run", "ret", "fail", "overfull", "crash"}
    /\ \E g : Agree(s, g) /\ g[Len(s.native)].c < Limit

\* The inductive invariant.
IInv == InOrder(State)

-----------------------------------------------------------------------------
(* Sequences.                                                                *)

\* What is appended comes last.
LEMMA AppendIs ==
    ASSUME NEW D, NEW s \in Seq(D), NEW e \in D
    PROVE  /\ Append(s, e) \in Seq(D) /\ Len(Append(s, e)) = Len(s) + 1
           /\ Append(s, e)[Len(s) + 1] = e
           /\ \A i \in 1..Len(s) : Append(s, e)[i] = s[i]
  OBVIOUS

\* The first m elements.
LEMMA CutIs ==
    ASSUME NEW D, NEW s \in Seq(D), NEW m \in 0..Len(s)
    PROVE  /\ SubSeq(s, 1, m) \in Seq(D) /\ Len(SubSeq(s, 1, m)) = m
           /\ \A i \in 1..m : SubSeq(s, 1, m)[i] = s[i]
<1>1. \A i \in 1..m : s[i] \in D
  OBVIOUS
<1> QED
  BY <1>1, SubSeqProperties

\* All but the last.
LEMMA FrontIs ==
    ASSUME NEW D, NEW s \in Seq(D), s # <<>>
    PROVE  /\ Len(s) >= 1 /\ Last(s) = s[Len(s)] /\ Last(s) \in D
           /\ Front(s) = SubSeq(s, 1, Len(s) - 1)
           /\ Front(s) \in Seq(D) /\ Len(Front(s)) = Len(s) - 1
           /\ \A i \in 1..(Len(s) - 1) : Front(s)[i] = s[i]
<1>1. Len(s) \in Nat /\ Len(s) >= 1 /\ Len(s) - 1 \in 0..Len(s)
  BY EmptySeq
<1>2. Front(s) = SubSeq(s, 1, Len(s) - 1) /\ Last(s) = s[Len(s)]
  BY DEF Front, Last
<1>3. /\ SubSeq(s, 1, Len(s) - 1) \in Seq(D) /\ Len(SubSeq(s, 1, Len(s) - 1)) = Len(s) - 1
      /\ \A i \in 1..(Len(s) - 1) : SubSeq(s, 1, Len(s) - 1)[i] = s[i]
  BY <1>1, CutIs
<1>4. s[Len(s)] \in D
  BY <1>1, ElementOfSeq
<1> QED
  BY <1>1, <1>2, <1>3, <1>4

-----------------------------------------------------------------------------
(* The frames.                                                               *)

\* The fields of a frame of each kind.
LEMMA FrameFields ==
    ASSUME NEW f \in Frames
    PROVE  /\ f.thread \in Threads
           /\ f.a \in {"exec", "cfun", "pcall", "parser", "resume", "call", "hook", "errormsg"}
           /\ f.a = "exec" => f.n \in Nat \ {0}
           /\ f.a = "cfun" => f.f \in CFunctions
           /\ f.a = "parser" => f.n \in Nat
           /\ f.a = "resume" => f.jmp \in Nat
           /\ f.a = "pcall" => /\ f.depth \in Nat /\ f.nC \in Nat /\ f.jmp \in Nat
                               /\ f.errf \in BOOLEAN /\ f.allow \in BOOLEAN
           /\ Nested(f) \in Nat /\ CallInfos(f) \in Nat
  BY DEF Frames, Nested, CallInfos

\* What a frame implies is of the right type.
LEMMA ImplyType ==
    ASSUME NEW x \in Implied, NEW f \in Frames, NEW i \in Nat
    PROVE  /\ Imply(x, f, i) \in Implied
           /\ Imply(x, f, i).c = x.c + Nested(f)
           /\ Imply(x, f, i).d = (IF f.a = "resume" THEN 0 ELSE x.d + CallInfos(f))
           /\ Imply(x, f, i).j = (IF Protects(f) THEN i ELSE x.j)
           /\ Imply(x, f, i).h = (IF f.a = "resume" THEN 0 ELSE IF f.a = "hook" THEN x.h + 1 ELSE x.h)
           /\ Imply(x, f, i).p = (IF f.a = "resume" THEN 0 ELSE IF f.a = "pcall" THEN x.p + 1 ELSE x.p)
           /\ Imply(x, f, i).b = (IF f.a = "resume" THEN x.c + 1 ELSE x.b)
           /\ Imply(x, f, i).r = (IF f.a = "resume" THEN Append(x.r, f.thread) ELSE x.r)
<1>1. /\ f.thread \in Threads /\ Nested(f) \in Nat /\ CallInfos(f) \in Nat
  BY FrameFields
<1>2. /\ x.c \in Nat /\ x.d \in Nat /\ x.j \in Nat /\ x.h \in Nat /\ x.p \in Nat /\ x.b \in Nat
      /\ x.r \in Seq(Threads)
  BY DEF Implied
<1>3. Append(x.r, f.thread) \in Seq(Threads)
  BY <1>1, <1>2
<1> QED
  BY <1>1, <1>2, <1>3, SMTT(20) DEF Imply, Implied

\* The type of the frames and of what they imply.
LEMMA StackTypes ==
    ASSUME NEW nat, NEW g, StackInv(nat, g)
    PROVE  /\ nat \in Seq(Frames) /\ Len(nat) \in Nat /\ Main \in Threads
           /\ \A i \in 1..Len(nat) : nat[i] \in Frames /\ nat[i].thread \in Threads
           /\ \A i \in 0..Len(nat) : g[i] \in Implied /\ ThreadAt(nat, i) \in Threads
           /\ Nothing \in Implied
<1>1. nat \in Seq(Frames) /\ Len(nat) \in Nat /\ Main \in Threads
  BY Limits DEF StackInv
<1>2. \A i \in 1..Len(nat) : nat[i] \in Frames /\ nat[i].thread \in Threads
  BY <1>1, FrameFields
<1>3. Nothing \in Implied
  <2>1. <<Main>> \in Seq(Threads)
    BY <1>1
  <2> QED
    BY <2>1 DEF Nothing, Implied
<1> QED
  BY <1>1, <1>2, <1>3 DEF StackInv, ThreadAt

-----------------------------------------------------------------------------
(* A frame is added to the stack, or the stack is cut.                       *)

\* What the frames imply when f is pushed.
Pushed(nat, g, f) ==
    [i \in 0..(Len(nat) + 1) |-> IF i = Len(nat) + 1 THEN Imply(g[Len(nat)], f, i) ELSE g[i]]
\* What has to be true of the new frame.
Fits(nat, g, f) ==
    LET n == Len(nat)
    IN  /\ f \in Frames
        /\ Placed(Append(nat, f), n + 1)
        /\ g[n].c < Limit
        /\ f.a = "pcall" => Saved(f, g[n])
        /\ f.a = "hook" => g[n].h = 0

\* The stack with one more frame, and what it implies.
LEMMA PushedIs ==
    ASSUME NEW nat, NEW g, StackInv(nat, g), NEW f \in Frames
    PROVE  LET nat2 == Append(nat, f)  g2 == Pushed(nat, g, f)  n == Len(nat)
           IN  /\ nat2 \in Seq(Frames) /\ Len(nat2) = n + 1 /\ n \in Nat
               /\ nat2[n + 1] = f /\ \A i \in 1..n : nat2[i] = nat[i]
               /\ \A i \in 0..n : ThreadAt(nat2, i) = ThreadAt(nat, i) /\ g2[i] = g[i]
               /\ ThreadAt(nat2, n + 1) = f.thread
               /\ g2[n + 1] = Imply(g[n], f, n + 1)
               /\ g2 \in [0..(n + 1) -> Implied]
<1>1. nat \in Seq(Frames) /\ Len(nat) \in Nat /\ \A i \in 0..Len(nat) : g[i] \in Implied
  BY StackTypes
<1>2. /\ Append(nat, f) \in Seq(Frames) /\ Len(Append(nat, f)) = Len(nat) + 1
      /\ Append(nat, f)[Len(nat) + 1] = f /\ \A i \in 1..Len(nat) : Append(nat, f)[i] = nat[i]
  BY <1>1, AppendIs
<1>3. Imply(g[Len(nat)], f, Len(nat) + 1) \in Implied
  <2>1. g[Len(nat)] \in Implied /\ Len(nat) + 1 \in Nat
    BY <1>1
  <2> QED
    BY <2>1, ImplyType
<1> QED
  BY <1>1, <1>2, <1>3 DEF Pushed, ThreadAt

\* A thread is off the stack, or it waits or runs at one frame of it.
LEMMA OffOrAt ==
    ASSUME NEW nat, NEW g, StackInv(nat, g), NEW t
    PROVE  Off(nat, t) \/ \E k \in 0..Len(nat) : Waits(nat, k) /\ ThreadAt(nat, k) = t
  BY DEF StackInv, Off

\* The frames stay in order when one is added.
LEMMA PushStack ==
    ASSUME NEW nat, NEW g, StackInv(nat, g), NEW f, Fits(nat, g, f)
    PROVE  StackInv(Append(nat, f), Pushed(nat, g, f))
<1> DEFINE n == Len(nat)
           nat2 == Append(nat, f)
           g2 == Pushed(nat, g, f)
<1>1. /\ nat2 \in Seq(Frames) /\ Len(nat2) = n + 1 /\ n \in Nat
      /\ nat2[n + 1] = f /\ \A i \in 1..n : nat2[i] = nat[i]
      /\ \A i \in 0..n : ThreadAt(nat2, i) = ThreadAt(nat, i) /\ g2[i] = g[i]
      /\ ThreadAt(nat2, n + 1) = f.thread
      /\ g2[n + 1] = Imply(g[n], f, n + 1)
      /\ g2 \in [0..(n + 1) -> Implied]
      /\ f \in Frames
  BY PushedIs DEF Fits
<1>2. /\ Placed(nat2, n + 1)
      /\ g[n].c < Limit
      /\ f.a = "pcall" => Saved(f, g[n])
      /\ f.a = "hook" => g[n].h = 0
  BY DEF Fits
<1>3. /\ \A i \in 1..n : nat[i] \in Frames
      /\ \A i \in 0..n : g[i] \in Implied
      /\ g[0] = Nothing
  BY StackTypes DEF StackInv
<1> HIDE DEF nat2, g2
<1>4. LET x == g[n]  y == g2[n + 1]
      IN  /\ y.c = x.c + Nested(f) /\ Nested(f) \in Nat /\ CallInfos(f) \in Nat
          /\ y.d = (IF f.a = "resume" THEN 0 ELSE x.d + CallInfos(f))
          /\ y.j = (IF Protects(f) THEN n + 1 ELSE x.j)
          /\ y.h = (IF f.a = "resume" THEN 0 ELSE IF f.a = "hook" THEN x.h + 1 ELSE x.h)
          /\ y.p = (IF f.a = "resume" THEN 0 ELSE IF f.a = "pcall" THEN x.p + 1 ELSE x.p)
          /\ y.b = (IF f.a = "resume" THEN x.c + 1 ELSE x.b)
          /\ y.r = (IF f.a = "resume" THEN Append(x.r, f.thread) ELSE x.r)
          /\ x.c \in Nat /\ x.d \in Nat /\ x.j \in Nat /\ x.h \in Nat /\ x.p \in Nat /\ x.b \in Nat
  <2>1. g[n] \in Implied /\ n + 1 \in Nat /\ f \in Frames
    BY <1>1, <1>3
  <2>2. Nested(f) \in Nat /\ CallInfos(f) \in Nat
    BY <1>1, FrameFields
  <2>3. LET x == g[n]
        IN  x.c \in Nat /\ x.d \in Nat /\ x.j \in Nat /\ x.h \in Nat /\ x.p \in Nat /\ x.b \in Nat
    BY <2>1 DEF Implied
  <2>4. LET x == g[n]  y == Imply(g[n], f, n + 1)
        IN  /\ y.c = x.c + Nested(f)
            /\ y.d = (IF f.a = "resume" THEN 0 ELSE x.d + CallInfos(f))
            /\ y.j = (IF Protects(f) THEN n + 1 ELSE x.j)
            /\ y.h = (IF f.a = "resume" THEN 0 ELSE IF f.a = "hook" THEN x.h + 1 ELSE x.h)
            /\ y.p = (IF f.a = "resume" THEN 0 ELSE IF f.a = "pcall" THEN x.p + 1 ELSE x.p)
            /\ y.b = (IF f.a = "resume" THEN x.c + 1 ELSE x.b)
            /\ y.r = (IF f.a = "resume" THEN Append(x.r, f.thread) ELSE x.r)
    BY <2>1, ImplyType
  <2> QED
    BY <1>1, <2>2, <2>3, <2>4
<1>5. \A i \in 1..n : /\ Placed(nat, i) /\ Follows(nat, g, i)
                      /\ Lands(nat, g, i) /\ Counts(nat, g, i) /\ Grows(nat, g, i)
  BY DEF StackInv
<1>6. \A i \in 0..(n - 1) : Waits(nat2, i) <=> Waits(nat, i)
  BY <1>1 DEF Waits
<1>7. Waits(nat2, n + 1) /\ (Waits(nat2, n) <=> f.a = "resume") /\ Waits(nat, n)
  BY <1>1 DEF Waits
<1>8. \A i \in 1..n : Placed(nat2, i) /\ Follows(nat2, g2, i)
  BY <1>1, <1>5 DEF Placed, Follows
<1>9. \A i \in 1..n : Lands(nat2, g2, i) /\ Counts(nat2, g2, i)
  <2> SUFFICES ASSUME NEW i \in 1..n
               PROVE  Lands(nat2, g2, i) /\ Counts(nat2, g2, i)
    OBVIOUS
  <2>1. Lands(nat, g, i) /\ Counts(nat, g, i) /\ g[i].j \in 1..i
    BY <1>5 DEF Lands
  <2>2. g2[i] = g[i] /\ \A k \in 1..i : nat2[k] = nat[k]
    BY <1>1
  <2>3. g2[g[i].j - 1] = g[g[i].j - 1]
    <3>1. g[i].j - 1 \in 0..n
      BY <1>1, <2>1
    <3> QED
      BY <1>1, <3>1
  <2>4. Lands(nat2, g2, i)
    BY <2>1, <2>2, <2>3 DEF Lands
  <2>5. Counts(nat2, g2, i)
    BY <2>1, <2>2 DEF Counts
  <2> QED
    BY <2>4, <2>5
<1>10. \A i \in 1..n : Grows(nat2, g2, i)
  BY <1>1, <1>5, <1>6 DEF Grows
<1>11. Follows(nat2, g2, n + 1)
  BY <1>1, <1>2 DEF Follows
<1>12. f.a # "resume" => f.thread = ThreadAt(nat, n) /\ f.a # "resume"
  BY <1>1, <1>2 DEF Placed
<1>13. f.a = "resume" => n >= 1 /\ \A k \in 0..n : ThreadAt(nat, k) # f.thread
  BY <1>1, <1>2 DEF Placed
<1>14. n = 0 => f.a = "pcall"
  BY <1>1, <1>2 DEF Placed
<1>15. Lands(nat2, g2, n + 1)
  <2>1. CASE Protects(f)
    <3>1. g2[n + 1].j = n + 1 /\ nat2[n + 1] = f /\ g2[n] = g[n]
      BY <1>1, <1>4, <2>1
    <3>2. f.a = "pcall" => g2[n].b = g2[n + 1].b /\ g2[n].r = g2[n + 1].r
      BY <1>1, <1>4
    <3>3. f.a = "resume" => g2[n + 1].r = Append(g2[n].r, f.thread) /\ g2[n + 1].b = g2[n].c + 1
      BY <1>4, <3>1
    <3>4. n + 1 \in 1..(n + 1) /\ (n + 1) - 1 = n /\ \A k \in (n + 1)..(n + 1) : k = n + 1
      BY <1>1
    <3> QED
      BY <2>1, <3>1, <3>2, <3>3, <3>4 DEF Lands
  <2>2. CASE ~Protects(f)
    <3>1. n >= 1 /\ f.a # "resume" /\ f.a # "pcall"
      BY <1>1, <1>14, <2>2 DEF Protects
    <3>2. Lands(nat, g, n) /\ g2[n + 1].j = g[n].j /\ g[n].j \in 1..n
      BY <1>1, <1>4, <1>5, <2>2, <3>1 DEF Lands
    <3>3. nat[n].thread = f.thread /\ nat2[n + 1].thread = f.thread
      BY <1>1, <1>12, <3>1 DEF ThreadAt
    <3>4. g2[n + 1].b = g[n].b /\ g2[n + 1].r = g[n].r /\ g2[g[n].j - 1] = g[g[n].j - 1]
      <4>1. g[n].j - 1 \in 0..n
        BY <1>1, <3>2
      <4>2. g2[g[n].j - 1] = g[g[n].j - 1]
        BY <1>1, <4>1
      <4> QED
        BY <1>4, <3>1, <4>2
    <3>5. \A k \in g[n].j..n : nat2[k] = nat[k] /\ nat[k].thread = f.thread
      BY <1>1, <3>2, <3>3 DEF Lands
    <3>6. \A k \in g[n].j..(n + 1) : nat2[k].thread = f.thread
      BY <1>1, <3>3, <3>5
    <3>7. nat2[g[n].j] = nat[g[n].j] /\ g[n].j \in 1..(n + 1)
      BY <1>1, <3>2
    <3> QED
      BY <3>2, <3>3, <3>4, <3>6, <3>7 DEF Lands
  <2> QED
    BY <2>1, <2>2
<1>16. Counts(nat2, g2, n + 1)
  <2>1. CASE f.a = "resume"
    <3>1. \A k \in 1..n : nat2[k].thread # f.thread
      BY <1>1, <1>13, <2>1 DEF ThreadAt
    <3> QED
      BY <1>1, <1>4, <2>1, <3>1, SMTT(20) DEF Counts, Protects
  <2>2. CASE f.a # "resume" /\ n = 0
    BY <1>1, <1>3, <1>4, <1>14, <2>2 DEF Counts, Protects, Nothing
  <2>3. CASE f.a # "resume" /\ n # 0
    <3>1. nat[n].thread = f.thread /\ Counts(nat, g, n) /\ n >= 1
      BY <1>1, <1>5, <1>12, <2>3 DEF ThreadAt
    <3>2. \A k \in 1..(n + 1) : nat2[k].thread = f.thread /\ Protects(nat2[k]) => k <= g2[n + 1].j
      <4> SUFFICES ASSUME NEW k \in 1..(n + 1), nat2[k].thread = f.thread, Protects(nat2[k])
                   PROVE  k <= g2[n + 1].j
        OBVIOUS
      <4>1. CASE Protects(f)
        BY <1>1, <1>4, <4>1
      <4>2. CASE ~Protects(f)
        <5>1. k \in 1..n /\ nat2[k] = nat[k]
          BY <1>1, <4>2
        <5> QED
          BY <1>4, <3>1, <4>2, <5>1 DEF Counts
      <4> QED
        BY <4>1, <4>2
    <3>3. g2[n + 1].h > 0 <=> \E k \in 1..(n + 1) : nat2[k].thread = f.thread /\ nat2[k].a = "hook"
      <4>1. g[n].h > 0 <=> \E k \in 1..n : nat2[k].thread = f.thread /\ nat2[k].a = "hook"
        BY <1>1, <3>1 DEF Counts
      <4>2. g2[n + 1].h > 0 <=> g[n].h > 0 \/ f.a = "hook"
        BY <1>4, <2>3
      <4>3. \A k \in 1..(n + 1) : k \in 1..n \/ nat2[k] = f
        BY <1>1
      <4> QED
        BY <1>1, <4>1, <4>2, <4>3
    <3>4. g2[n + 1].p > 0 => \E k \in 1..(n + 1) : nat2[k].thread = f.thread /\ nat2[k].a = "pcall"
      <4>1. g[n].p > 0 => \E k \in 1..n : nat2[k].thread = f.thread /\ nat2[k].a = "pcall"
        BY <1>1, <3>1 DEF Counts
      <4>2. g2[n + 1].p > 0 => g[n].p > 0 \/ f.a = "pcall"
        BY <1>4, <2>3
      <4> QED
        BY <1>1, <4>1, <4>2
    <3> QED
      BY <1>1, <3>2, <3>3, <3>4 DEF Counts
  <2> QED
    BY <2>1, <2>2, <2>3
<1>17. Grows(nat2, g2, n + 1)
  <2>1. g[n].b <= g[n].c /\ \A k \in 0..n : ThreadAt(nat, k) = ThreadAt(nat, n) => g[k].d <= g[n].d
    <3>1. CASE n = 0
      BY <1>3, <3>1 DEF Nothing
    <3>2. CASE n # 0
      BY <1>1, <1>5, <3>2 DEF Grows
    <3> QED
      BY <3>1, <3>2
  <2>2. g2[n + 1].b <= g2[n + 1].c
    <3>1. f.a = "resume" => Nested(f) = 1
      BY DEF Nested
    <3> QED
      BY <1>4, <2>1, <3>1
  <2>3. \A k \in 0..(n + 1) : ThreadAt(nat2, k) = ThreadAt(nat2, n + 1) => g2[k].d <= g2[n + 1].d
    <3> SUFFICES ASSUME NEW k \in 0..n, ThreadAt(nat, k) = f.thread
                 PROVE  g[k].d <= g2[n + 1].d
      <4>1. g2[n + 1].d \in Nat
        <5> HIDE DEF n
        <5>1. g[n].d + CallInfos(f) \in Nat
          BY <1>4
        <5>2. g2[n + 1].d = 0 \/ g2[n + 1].d = g[n].d + CallInfos(f)
          BY <1>4
        <5> QED
          BY <5>1, <5>2
      <4>2. \A k \in 0..(n + 1) : k = n + 1 \/ k \in 0..n
        BY <1>1
      <4>3. g2[n + 1].d <= g2[n + 1].d
        BY <4>1
      <4>4. \A k \in 0..n : ThreadAt(nat2, k) = ThreadAt(nat, k) /\ g2[k] = g[k]
        BY <1>1
      <4>5. ThreadAt(nat2, n + 1) = f.thread
        BY <1>1
      <4> QED
        BY <4>2, <4>3, <4>4, <4>5
    <3>1. f.a # "resume" /\ f.thread = ThreadAt(nat, n)
      BY <1>12, <1>13
    <3>2. g[k].d <= g[n].d /\ g[k].d \in Nat
      BY <1>3, <2>1, <3>1 DEF Implied
    <3>3. g2[n + 1].d = g[n].d + CallInfos(f) /\ CallInfos(f) \in Nat /\ g[n].d \in Nat
      BY <1>4, <3>1
    <3> QED
      BY <3>2, <3>3
  <2>4. \A k \in 0..n : Waits(nat2, k) => ThreadAt(nat2, k) # ThreadAt(nat2, n + 1)
    <3> SUFFICES ASSUME NEW k \in 0..n, Waits(nat2, k), f.a # "resume"
                 PROVE  ThreadAt(nat, k) # f.thread
      BY <1>1, <1>13
    <3>1. k \in 0..(n - 1) /\ Waits(nat, k) /\ n \in 1..n
      BY <1>1, <1>6, <1>7
    <3>2. Grows(nat, g, n)
      BY <1>5, <3>1
    <3> QED
      BY <1>12, <3>1, <3>2 DEF Grows
  <2> QED
    BY <1>1, <2>2, <2>3, <2>4 DEF Grows
<1>18. \A i \in 0..(n + 1) : \E k \in i..(n + 1) : Waits(nat2, k) /\ ThreadAt(nat2, k) = ThreadAt(nat2, i)
  <2> SUFFICES ASSUME NEW i \in 0..n
               PROVE  \E k \in i..(n + 1) : Waits(nat2, k) /\ ThreadAt(nat2, k) = ThreadAt(nat2, i)
    BY <1>1, <1>7
  <2>1. PICK k \in i..n : Waits(nat, k) /\ ThreadAt(nat, k) = ThreadAt(nat, i)
    BY DEF StackInv
  <2>2. CASE k # n \/ f.a = "resume"
    BY <1>1, <1>6, <1>7, <2>1, <2>2
  <2>3. CASE k = n /\ f.a # "resume"
    BY <1>1, <1>7, <1>12, <2>1, <2>3
  <2> QED
    BY <2>2, <2>3
<1>19. g2[0] = Nothing /\ g2 \in [0..(n + 1) -> Implied]
  BY <1>1, <1>3
<1> QED
  BY <1>1, <1>2, <1>8, <1>9, <1>10, <1>11, <1>15, <1>16, <1>17, <1>18, <1>19 DEF StackInv, nat2, g2

Below(g, m) == [i \in 0..m |-> g[i]]
\* All the frames above the first m belong to thread t.
Above(nat, m, t) == \A i \in (m + 1)..Len(nat) : nat[i].thread = t

\* The first m frames, and what they imply.
LEMMA BelowIs ==
    ASSUME NEW nat, NEW g, StackInv(nat, g), NEW m \in 0..Len(nat)
    PROVE  LET nat2 == SubSeq(nat, 1, m)  g2 == Below(g, m)
           IN  /\ nat2 \in Seq(Frames) /\ Len(nat2) = m /\ Len(nat) \in Nat
               /\ \A i \in 1..m : nat2[i] = nat[i]
               /\ \A i \in 0..m : ThreadAt(nat2, i) = ThreadAt(nat, i) /\ g2[i] = g[i]
               /\ \A i \in 0..(m - 1) : Waits(nat2, i) <=> Waits(nat, i)
               /\ Waits(nat2, m)
               /\ g2 \in [0..m -> Implied]
<1>1. nat \in Seq(Frames) /\ Len(nat) \in Nat /\ \A i \in 0..Len(nat) : g[i] \in Implied
  BY StackTypes
<1>2. /\ SubSeq(nat, 1, m) \in Seq(Frames) /\ Len(SubSeq(nat, 1, m)) = m
      /\ \A i \in 1..m : SubSeq(nat, 1, m)[i] = nat[i]
  BY <1>1, CutIs
<1> QED
  BY <1>1, <1>2 DEF Below, ThreadAt, Waits

\* The thread that is left is the one below, unless the cut is below a coroutine.
LEMMA ThreadBelow ==
    ASSUME NEW nat, NEW g, StackInv(nat, g), NEW m \in 0..(Len(nat) - 1), NEW t,
           Above(nat, m, t)
    PROVE  /\ nat[m + 1].a # "resume" => ThreadAt(nat, m) = t
           /\ nat[m + 1].a = "resume" => \A i \in 0..m : ThreadAt(nat, i) # t
           /\ t \in Threads /\ ThreadAt(nat, Len(nat)) = t
<1>1. m + 1 \in 1..Len(nat) /\ Len(nat) \in Nat /\ Len(nat) \in (m + 1)..Len(nat)
  BY StackTypes
<1>2. Placed(nat, m + 1) /\ nat[m + 1].thread = t /\ nat[Len(nat)].thread = t /\ t \in Threads
  BY <1>1, StackTypes DEF StackInv, Above
<1> QED
  BY <1>1, <1>2 DEF Placed, ThreadAt

\* A stack that is cut above a frame is still in order.
LEMMA CutStack ==
    ASSUME NEW nat, NEW g, StackInv(nat, g), NEW m \in 0..(Len(nat) - 1), NEW t,
           Above(nat, m, t)
    PROVE  StackInv(SubSeq(nat, 1, m), Below(g, m))
<1> DEFINE n == Len(nat)
           nat2 == SubSeq(nat, 1, m)
           g2 == Below(g, m)
<1>1. /\ nat2 \in Seq(Frames) /\ Len(nat2) = m /\ n \in Nat
      /\ \A i \in 1..m : nat2[i] = nat[i]
      /\ \A i \in 0..m : ThreadAt(nat2, i) = ThreadAt(nat, i) /\ g2[i] = g[i]
      /\ \A i \in 0..(m - 1) : Waits(nat2, i) <=> Waits(nat, i)
      /\ Waits(nat2, m)
      /\ g2 \in [0..m -> Implied]
  <2>1. m \in 0..n
    BY StackTypes
  <2> QED
    BY <2>1, BelowIs
<1>2. /\ \A i \in 1..n : /\ Placed(nat, i) /\ Follows(nat, g, i)
                         /\ Lands(nat, g, i) /\ Counts(nat, g, i) /\ Grows(nat, g, i)
      /\ \A i \in 0..n : \E k \in i..n : Waits(nat, k) /\ ThreadAt(nat, k) = ThreadAt(nat, i)
      /\ g[0] = Nothing
  BY DEF StackInv
<1> HIDE DEF nat2, g2
<1>8. \A i \in 1..m : i \in 1..n /\ i - 1 \in 0..m /\ i \in 0..m
  BY <1>1
<1>3. \A i \in 1..m : Placed(nat2, i) /\ Follows(nat2, g2, i)
  <2> SUFFICES ASSUME NEW i \in 1..m
               PROVE  Placed(nat2, i) /\ Follows(nat2, g2, i)
    OBVIOUS
  <2>1. Placed(nat, i) /\ Follows(nat, g, i) /\ g2[i] = g[i] /\ g2[i - 1] = g[i - 1]
    BY <1>1, <1>2, <1>8
  <2>2. nat2[i] = nat[i] /\ (i > 1 => nat2[i - 1] = nat[i - 1])
    BY <1>1
  <2>3. \A k \in 0..(i - 1) : ThreadAt(nat2, k) = ThreadAt(nat, k)
    BY <1>1
  <2>4. ThreadAt(nat2, i - 1) = ThreadAt(nat, i - 1)
    BY <1>1, <1>8
  <2> QED
    BY <2>1, <2>2, <2>3, <2>4 DEF Placed, Follows
<1>4. \A i \in 1..m : Lands(nat2, g2, i) /\ Counts(nat2, g2, i)
  <2> SUFFICES ASSUME NEW i \in 1..m
               PROVE  Lands(nat2, g2, i) /\ Counts(nat2, g2, i)
    OBVIOUS
  <2>1. Lands(nat, g, i) /\ Counts(nat, g, i) /\ g[i].j \in 1..i
    BY <1>2, <1>8 DEF Lands
  <2>2. g2[i] = g[i] /\ g2[g[i].j - 1] = g[g[i].j - 1] /\ \A k \in 1..i : nat2[k] = nat[k]
    BY <1>1, <2>1
  <2>3. Lands(nat2, g2, i)
    BY <2>1, <2>2 DEF Lands
  <2>4. Counts(nat2, g2, i)
    BY <2>1, <2>2, SMTT(20) DEF Counts
  <2> QED
    BY <2>3, <2>4
<1>5. \A i \in 1..m : Grows(nat2, g2, i)
  <2> SUFFICES ASSUME NEW i \in 1..m
               PROVE  Grows(nat2, g2, i)
    OBVIOUS
  <2>1. Grows(nat, g, i) /\ i \in 0..m
    BY <1>2, <1>8
  <2>2. \A k \in 0..i : ThreadAt(nat2, k) = ThreadAt(nat, k) /\ g2[k] = g[k]
    BY <1>1
  <2>3. \A k \in 0..(i - 1) : Waits(nat2, k) <=> Waits(nat, k)
    BY <1>1
  <2>4. \A k \in 0..(i - 1) : k \in 0..i
    OBVIOUS
  <2>5. i \in 0..i
    OBVIOUS
  <2> QED
    BY <2>1, <2>2, <2>3, <2>4, <2>5 DEF Grows
<1>6. \A i \in 0..m : \E k \in i..m : Waits(nat2, k) /\ ThreadAt(nat2, k) = ThreadAt(nat2, i)
  <2> SUFFICES ASSUME NEW i \in 0..m
               PROVE  \E k \in i..m : Waits(nat2, k) /\ ThreadAt(nat2, k) = ThreadAt(nat2, i)
    OBVIOUS
  <2>0. i \in 0..n
    BY <1>1, <1>8
  <2>1. PICK k \in i..n : Waits(nat, k) /\ ThreadAt(nat, k) = ThreadAt(nat, i)
    BY <1>2, <2>0
  <2>2. CASE k <= m
    BY <1>1, <2>1, <2>2
  <2>3. CASE k > m
    <3>1. ThreadAt(nat, i) = t
      BY <1>1, <2>1, <2>3 DEF Above, ThreadAt
    <3>2. ThreadAt(nat, m) = t
      BY <3>1, ThreadBelow
    <3> QED
      BY <1>1, <3>1, <3>2
  <2> QED
    BY <1>1, <2>2, <2>3
<1>7. g2[0] = Nothing
  BY <1>1, <1>2
<1> QED
  BY <1>1, <1>3, <1>4, <1>5, <1>6, <1>7 DEF StackInv, nat2, g2

-----------------------------------------------------------------------------
(* The lua_State of the thread that runs, and of the others.                 *)

\* The running thread; the CallInfos of two lua_States are the same up to n.
Top(nat) == ThreadAt(nat, Len(nat))
SameBelow(q, r, n) == q.vals = r.vals /\ \A y \in 2..n : q.ci[y] = r.ci[y]

\* The thread of the last frame matches what the frames imply.
LEMMA TopMatches ==
    ASSUME NEW s, NEW g, Agree(s, g)
    PROVE  LET q == s.st[Top(s.native)]  n == Len(s.native)
           IN  /\ Matches(q, Yields(s.native, n), g[n]) /\ Sound(q)
               /\ Top(s.native) \in Threads /\ g[n] \in Implied /\ n \in Nat
               /\ s.native # <<>> => /\ Last(s.native) = s.native[n] /\ Last(s.native) \in Frames
                                     /\ Top(s.native) = Last(s.native).thread /\ n >= 1
<1>1. /\ s.native \in Seq(Frames) /\ Len(s.native) \in Nat
      /\ g[Len(s.native)] \in Implied /\ Top(s.native) \in Threads
  BY StackTypes DEF Agree, Top
<1>2. Waits(s.native, Len(s.native))
  BY DEF Waits
<1>3. s.native # <<>> => /\ Last(s.native) = s.native[Len(s.native)] /\ Last(s.native) \in Frames
                         /\ Len(s.native) >= 1
  BY <1>1, FrontIs
<1> QED
  BY <1>1, <1>2, <1>3 DEF Agree, StatesInv, Top, ThreadAt

\* No other thread waits at a frame above the last frame of a thread.
LEMMA TopIsNotBelow ==
    ASSUME NEW nat, NEW g, StackInv(nat, g), NEW i \in 0..(Len(nat) - 1), Waits(nat, i)
    PROVE  ThreadAt(nat, i) # Top(nat)
<1>1. Len(nat) \in 1..Len(nat) /\ Grows(nat, g, Len(nat))
  BY StackTypes DEF StackInv
<1> QED
  BY <1>1 DEF Grows, Top

\* The CallInfos that a frame runs are those of its thread up to the number implied.
LEMMA RunsBelow ==
    ASSUME NEW nat, NEW g, StackInv(nat, g), NEW m \in 0..Len(nat), NEW i \in 1..m,
           ThreadAt(nat, m) = nat[i].thread, NEW q, NEW r, Runs(r, nat[i], g[i]),
           SameBelow(q, r, g[m].d + 1)
    PROVE  Runs(q, nat[i], g[i])
<1>1. /\ Len(nat) \in Nat /\ i \in 1..Len(nat) /\ i - 1 \in 0..Len(nat) /\ m \in 1..Len(nat)
      /\ nat[i] \in Frames /\ g[i] \in Implied /\ g[i - 1] \in Implied /\ g[m] \in Implied
      /\ Follows(nat, g, i) /\ Grows(nat, g, m)
  <2>1. Len(nat) \in Nat
    BY StackTypes
  <2>2. i \in 1..Len(nat) /\ i - 1 \in 0..Len(nat) /\ m \in 1..Len(nat)
        /\ m \in 0..Len(nat) /\ i \in 0..Len(nat)
    BY <2>1
  <2> QED
    BY <2>1, <2>2, StackTypes DEF StackInv
<1>2. g[i].d <= g[m].d /\ g[i].d \in Nat /\ g[m].d \in Nat
  <2>1. ThreadAt(nat, i) = ThreadAt(nat, m) /\ i \in 0..m
    BY DEF ThreadAt
  <2> QED
    BY <1>1, <2>1 DEF Grows, Implied
<1>3. g[i].d - CallInfos(nat[i]) \in Nat \/ nat[i].a = "resume"
  <2>1. nat[i].a # "resume" => g[i].d = g[i - 1].d + CallInfos(nat[i])
    <3>1. g[i] = Imply(g[i - 1], nat[i], i) /\ i \in Nat
      BY <1>1 DEF Follows
    <3>2. g[i - 1] \in Implied /\ nat[i] \in Frames
      BY <1>1
    <3>3. Imply(g[i - 1], nat[i], i).d
            = (IF nat[i].a = "resume" THEN 0 ELSE g[i - 1].d + CallInfos(nat[i]))
      BY <3>1, <3>2, ImplyType
    <3> QED
      BY <3>1, <3>3
  <2>2. g[i - 1].d \in Nat /\ CallInfos(nat[i]) \in Nat
    BY <1>1, FrameFields DEF Implied
  <2> QED
    BY <1>2, <2>1, <2>2
<1>4. \A y \in 2..(g[i].d + 1) : q.ci[y] = r.ci[y]
  BY <1>2 DEF SameBelow
<1>5. CASE nat[i].a = "exec"
  <2>1. CallInfos(nat[i]) = nat[i].n /\ nat[i].n \in Nat
    BY <1>1, <1>5, FrameFields DEF CallInfos
  <2>2. \A y \in (g[i].d - nat[i].n + 2)..(g[i].d + 1) : y \in 2..(g[i].d + 1)
    <3> DEFINE e == g[i].d  c == nat[i].n
    <3>1. e \in Nat /\ c \in Nat /\ e - c \in Nat
      BY <1>2, <1>3, <1>5, <2>1
    <3> HIDE DEF e, c
    <3>2. \A y \in (e - c + 2)..(e + 1) : y \in 2..(e + 1)
      BY <3>1
    <3> QED
      BY <3>2 DEF e, c
  <2>3. \A y \in (g[i].d - nat[i].n + 2)..(g[i].d + 1) : q.ci[y] = r.ci[y]
    BY <1>4, <2>2
  <2> QED
    BY <1>5, <2>3 DEF Runs
<1>6. CASE nat[i].a = "cfun"
  <2>1. CallInfos(nat[i]) = 1
    BY <1>6 DEF CallInfos
  <2>2. g[i].d + 1 \in 2..(g[i].d + 1)
    BY <1>2, <1>3, <1>6, <2>1
  <2>3. q.ci[g[i].d + 1] = r.ci[g[i].d + 1] /\ q.vals = r.vals
    BY <1>4, <2>2 DEF SameBelow
  <2> QED
    BY <1>6, <2>3 DEF Runs
<1>7. CASE nat[i].a \notin {"exec", "cfun"}
  BY <1>7 DEF Runs
<1> QED
  BY <1>5, <1>6, <1>7

\* The frames above the first m are cut, one may be added, and the lua_State of their
\* thread changes: the others still match.
LEMMA StatesAfter ==
    ASSUME NEW s, NEW g, Agree(s, g), NEW nat2, NEW g2, StackInv(nat2, g2),
           NEW m \in 0..Len(s.native), NEW t \in Threads, NEW q,
           Len(nat2) \in {m, m + 1},
           \A i \in 1..m : nat2[i] = s.native[i], \A i \in 0..m : g2[i] = g[i],
           Above(s.native, m, t), Above(nat2, m, t),
           ThreadAt(s.native, m) = t \/ \A i \in 0..m : ThreadAt(s.native, i) # t,
           Sound(q),
           ThreadAt(s.native, m) = t => SameBelow(q, s.st[t], g[m].d + 1),
           Len(nat2) = m + 1 => Runs(q, nat2[m + 1], g2[m + 1]),
           Top(nat2) = t => Matches(q, Yields(nat2, Len(nat2)), g2[Len(nat2)]),
           Top(nat2) # t => Rests(q)
    PROVE  StatesInv([s.st EXCEPT ![t] = q], nat2, g2)
<1> DEFINE nat == s.native  n == Len(nat)  str == s.st  n2 == Len(nat2)
           str2 == [str EXCEPT ![t] = q]
<1>1. /\ StackInv(nat, g) /\ StatesInv(str, nat, g) /\ n \in Nat /\ n2 \in Nat
      /\ \A i \in 1..n : nat[i] \in Frames /\ nat[i].thread \in Threads
      /\ \A i \in 0..n : g[i] \in Implied /\ ThreadAt(nat, i) \in Threads
      /\ \A i \in 0..n2 : ThreadAt(nat2, i) \in Threads
  BY StackTypes DEF Agree
<1>2. /\ str2 \in [Threads -> LuaStates] /\ str2[t] = q
      /\ \A u \in Threads : u # t => str2[u] = str[u]
  BY <1>1 DEF StatesInv, Sound
<1> HIDE DEF str2
<1>3. \A i \in 0..m : ThreadAt(nat2, i) = ThreadAt(nat, i) /\ Yields(nat2, i) = Yields(nat, i)
  BY DEF ThreadAt, Yields
<1>4. \A i \in 1..n2 : Runs(str2[nat2[i].thread], nat2[i], g2[i])
  <2> SUFFICES ASSUME NEW i \in 1..n2
               PROVE  Runs(str2[nat2[i].thread], nat2[i], g2[i])
    OBVIOUS
  <2>1. CASE i = m + 1
    BY <1>1, <1>2, <2>1 DEF Above
  <2>2. CASE i \in 1..m /\ nat[i].thread = t
    <3>1. ThreadAt(nat, i) = t /\ i \in 0..m /\ i \in 1..n
      BY <1>1, <2>2 DEF ThreadAt
    <3>2. ThreadAt(nat, m) = t /\ SameBelow(q, str[t], g[m].d + 1)
      BY <3>1
    <3>3. Runs(str[t], nat[i], g[i])
      BY <1>1, <2>2, <3>1 DEF StatesInv
    <3>4. Runs(q, nat[i], g[i])
      BY <1>1, <2>2, <3>2, <3>3, RunsBelow
    <3> QED
      BY <1>2, <2>2, <3>1, <3>4
  <2>3. CASE i \in 1..m /\ nat[i].thread # t
    <3>1. i \in 0..m /\ i \in 1..n
      BY <1>1, <2>3
    <3> QED
      BY <1>1, <1>2, <2>3, <3>1 DEF StatesInv
  <2> QED
    BY <1>1, <2>1, <2>2, <2>3
<1>5. ThreadAt(nat, m) # t => Waits(nat, m)
  <2>1. ASSUME m # n, nat[m + 1].a # "resume"
        PROVE  ThreadAt(nat, m) = t
    <3>1. m \in 0..(n - 1)
      BY <1>1, <2>1
    <3> QED
      BY <1>1, <2>1, <3>1, ThreadBelow
  <2> QED
    BY <2>1 DEF Waits
<1>6. \A i \in 0..(m - 1) : Waits(nat2, i) => Waits(nat, i)
  BY <1>1 DEF Waits
<1>7. n2 = m + 1 => Top(nat2) = t
  BY <1>1 DEF Above, Top, ThreadAt
<1>8. ASSUME NEW i \in 0..n2, Waits(nat2, i)
      PROVE  Matches(str2[ThreadAt(nat2, i)], Yields(nat2, i), g2[i])
  <2>1. CASE i = n2 /\ Top(nat2) = t
    BY <1>2, <2>1 DEF Top
  <2>2. CASE i # n2 \/ Top(nat2) # t
    <3>1. i \in 0..m
      BY <1>1, <1>7, <2>2
    <3>2. ThreadAt(nat, i) # t
      <4>1. CASE i = n2
        BY <1>3, <2>2, <3>1, <4>1 DEF Top
      <4>2. CASE i # n2 /\ Top(nat2) = t
        <5>1. i \in 0..(n2 - 1)
          BY <1>1, <4>2
        <5> QED
          BY <1>3, <1>8, <3>1, <4>2, <5>1, TopIsNotBelow
      <4>3. CASE Top(nat2) # t
        <5>1. n2 = m /\ ThreadAt(nat, m) # t
          BY <1>1, <1>3, <1>7, <4>3 DEF Top
        <5> QED
          BY <3>1, <5>1
      <4> QED
        BY <4>1, <4>2, <4>3
    <3>3. Waits(nat, i)
      BY <1>1, <1>5, <1>6, <1>8, <3>1, <3>2
    <3>4. i \in 0..n
      BY <1>1, <3>1
    <3> QED
      BY <1>1, <1>2, <1>3, <3>1, <3>2, <3>3, <3>4 DEF StatesInv
  <2> QED
    BY <2>1, <2>2
<1>9. ASSUME NEW u \in Threads, Off(nat2, u)
      PROVE  Rests(str2[u])
  <2>1. CASE u = t
    <3>1. Top(nat2) # t
      BY <1>1, <1>9, <2>1 DEF Off, Top
    <3> QED
      BY <1>2, <2>1, <3>1
  <2>2. CASE u # t
    <3>1. Off(nat, u)
      <4> SUFFICES ASSUME NEW i \in 0..n
                   PROVE  ThreadAt(nat, i) # u
        BY DEF Off
      <4>1. CASE i \in 0..m
        BY <1>1, <1>3, <1>9, <4>1 DEF Off
      <4>2. CASE i \notin 0..m
        BY <1>1, <2>2, <4>2 DEF Above, ThreadAt
      <4> QED
        BY <4>1, <4>2
    <3> QED
      BY <1>1, <1>2, <2>2, <3>1 DEF StatesInv
  <2> QED
    BY <2>1, <2>2
<1> QED
  BY <1>1, <1>2, <1>4, <1>8, <1>9 DEF StatesInv, str2

\* The frames stay, and the lua_State of the running thread changes.
LEMMA TouchTop ==
    ASSUME NEW s, NEW g, Agree(s, g), NEW q,
           Sound(q), Matches(q, Yields(s.native, Len(s.native)), g[Len(s.native)]),
           SameBelow(q, s.st[Top(s.native)], g[Len(s.native)].d + 1)
    PROVE  StatesInv([s.st EXCEPT ![Top(s.native)] = q], s.native, g)
<1>1. StackInv(s.native, g) /\ Len(s.native) \in Nat /\ Top(s.native) \in Threads
  BY TopMatches DEF Agree
<1> DEFINE nat == s.native  n == Len(nat)  t == Top(nat)
<1>2. /\ n \in 0..n /\ n \in {n, n + 1} /\ n # n + 1 /\ Above(nat, n, t)
      /\ ThreadAt(nat, n) = t
  BY <1>1 DEF Above, Top
<1> QED
  BY <1>1, <1>2, StatesAfter

\* The frames stay, and the lua_State of a thread without frames changes.
LEMMA TouchOff ==
    ASSUME NEW s, NEW g, Agree(s, g), NEW t \in Threads, Off(s.native, t), NEW q,
           Sound(q), Rests(q)
    PROVE  StatesInv([s.st EXCEPT ![t] = q], s.native, g)
<1> DEFINE n == Len(s.native)
<1>1. StackInv(s.native, g) /\ n \in Nat
  BY TopMatches DEF Agree
<1>2. n \in 0..n /\ n \in {n, n + 1} /\ n # n + 1
  BY <1>1
<1>3. Above(s.native, n, t)
  BY <1>1 DEF Above
<1>4. (\A i \in 0..n : ThreadAt(s.native, i) # t) /\ ThreadAt(s.native, n) # t /\ Top(s.native) # t
  BY <1>2 DEF Off, Top
<1> QED
  BY <1>1, <1>2, <1>3, <1>4, StatesAfter

\* The running thread gets one more frame.
LEMMA PushTop ==
    ASSUME NEW s, NEW g, Agree(s, g), NEW f, Fits(s.native, g, f), f.a # "resume", NEW q,
           Sound(q), SameBelow(q, s.st[Top(s.native)], g[Len(s.native)].d + 1),
           Runs(q, f, Imply(g[Len(s.native)], f, Len(s.native) + 1)),
           Matches(q, FALSE, Imply(g[Len(s.native)], f, Len(s.native) + 1))
    PROVE  /\ StackInv(Append(s.native, f), Pushed(s.native, g, f))
           /\ StatesInv([s.st EXCEPT ![Top(s.native)] = q],
                        Append(s.native, f), Pushed(s.native, g, f))
<1> DEFINE nat == s.native  n == Len(nat)  t == Top(nat)
           nat2 == Append(nat, f)  g2 == Pushed(nat, g, f)
<1>1. StackInv(nat, g) /\ n \in Nat /\ t \in Threads /\ f \in Frames
  BY TopMatches DEF Agree, Fits
<1>2. StackInv(nat2, g2)
  BY <1>1, PushStack
<1>3. /\ Len(nat2) = n + 1 /\ nat2[n + 1] = f /\ \A i \in 1..n : nat2[i] = nat[i]
      /\ \A i \in 0..n : g2[i] = g[i]
      /\ ThreadAt(nat2, n + 1) = f.thread /\ g2[n + 1] = Imply(g[n], f, n + 1)
  BY <1>1, PushedIs
<1> HIDE DEF nat2, g2
<1>4. f.thread = t
  <2>1. Placed(nat2, n + 1)
    BY DEF Fits, nat2
  <2>2. nat2[n + 1 - 1] = nat[n] \/ n = 0
    BY <1>1, <1>3
  <2>3. ThreadAt(nat2, n) = ThreadAt(nat, n)
    BY <1>1, <1>3 DEF ThreadAt
  <2> QED
    BY <1>1, <1>3, <2>1, <2>3 DEF Placed, Top
<1>5. Top(nat2) = t /\ Above(nat2, n, t) /\ Above(nat, n, t) /\ ~Yields(nat2, n + 1)
  BY <1>1, <1>3, <1>4 DEF Top, Above, Yields
<1>6. Matches(q, Yields(nat2, n + 1), g2[n + 1]) /\ Runs(q, nat2[n + 1], g2[n + 1])
  BY <1>3, <1>5 DEF Matches
<1>7. ThreadAt(nat, n) = t /\ n \in 0..n /\ Len(nat2) \in {n, n + 1}
  BY <1>1, <1>3 DEF Top
<1>8. Len(nat2) = n + 1 => Runs(q, nat2[n + 1], g2[n + 1])
  BY <1>6
<1>9. Top(nat2) = t => Matches(q, Yields(nat2, Len(nat2)), g2[Len(nat2)])
  BY <1>3, <1>6
<1>10. StatesInv([s.st EXCEPT ![t] = q], nat2, g2)
  <2>1. \A i \in 1..n : nat2[i] = nat[i]
    BY <1>3
  <2>2. \A i \in 0..n : g2[i] = g[i]
    BY <1>3
  <2>3. t \in Threads /\ SameBelow(q, s.st[t], g[n].d + 1)
    BY <1>1
  <2> HIDE DEF n, t, nat
  <2> QED
    BY <1>2, <1>5, <1>7, <1>8, <1>9, <2>1, <2>2, <2>3, StatesAfter DEF n, nat
<1> QED
  BY <1>2, <1>10 DEF nat2, g2

\* A coroutine is resumed: it gets its first frame.
LEMMA PushCoroutine ==
    ASSUME NEW s, NEW g, Agree(s, g), NEW f, Fits(s.native, g, f), f.a = "resume", NEW q,
           Sound(q), Matches(q, TRUE, Imply(g[Len(s.native)], f, Len(s.native) + 1))
    PROVE  /\ StackInv(Append(s.native, f), Pushed(s.native, g, f))
           /\ StatesInv([s.st EXCEPT ![f.thread] = q],
                        Append(s.native, f), Pushed(s.native, g, f))
<1> DEFINE nat == s.native  n == Len(nat)  t == f.thread
           nat2 == Append(nat, f)  g2 == Pushed(nat, g, f)
<1>1. StackInv(nat, g) /\ n \in Nat /\ f \in Frames /\ t \in Threads
  BY TopMatches, FrameFields DEF Agree, Fits
<1>2. StackInv(nat2, g2)
  BY <1>1, PushStack
<1>3. /\ Len(nat2) = n + 1 /\ nat2[n + 1] = f /\ \A i \in 1..n : nat2[i] = nat[i]
      /\ \A i \in 0..n : g2[i] = g[i] /\ ThreadAt(nat2, i) = ThreadAt(nat, i)
      /\ ThreadAt(nat2, n + 1) = t /\ g2[n + 1] = Imply(g[n], f, n + 1)
  BY <1>1, PushedIs
<1> HIDE DEF nat2, g2
<1>4. \A i \in 0..n : ThreadAt(nat, i) # t
  <2>1. Placed(nat2, n + 1)
    BY DEF Fits, nat2
  <2> QED
    BY <1>1, <1>3, <2>1 DEF Placed
<1>5. Top(nat2) = t /\ Above(nat2, n, t) /\ Above(nat, n, t) /\ Yields(nat2, n + 1)
  BY <1>1, <1>3, <1>4 DEF Top, Above, Yields
<1>6. Matches(q, Yields(nat2, n + 1), g2[n + 1]) /\ Runs(q, nat2[n + 1], g2[n + 1])
  BY <1>3, <1>5 DEF Matches, Runs
<1>7. ThreadAt(nat, n) # t /\ n \in 0..n /\ Len(nat2) \in {n, n + 1}
  BY <1>1, <1>3, <1>4
<1>8. Len(nat2) = n + 1 => Runs(q, nat2[n + 1], g2[n + 1])
  BY <1>6
<1>9. Top(nat2) = t => Matches(q, Yields(nat2, Len(nat2)), g2[Len(nat2)])
  BY <1>3, <1>6
<1>10. /\ \A i \in 1..n : nat2[i] = nat[i]
       /\ \A i \in 0..n : g2[i] = g[i]
  BY <1>3
<1>11. Above(nat, n, t) /\ Above(nat2, n, t) /\ Top(nat2) = t
  BY <1>5
<1>12. StatesInv([s.st EXCEPT ![t] = q], nat2, g2)
  BY <1>1, <1>2, <1>4, <1>7, <1>8, <1>9, <1>10, <1>11, StatesAfter
<1> QED
  BY <1>2, <1>12 DEF nat2, g2

\* The running thread loses its last frames, and has others.
LEMMA CutTop ==
    ASSUME NEW s, NEW g, Agree(s, g), NEW m \in 0..(Len(s.native) - 1),
           Above(s.native, m, Top(s.native)), s.native[m + 1].a # "resume", NEW q,
           Sound(q), SameBelow(q, s.st[Top(s.native)], g[m].d + 1),
           Matches(q, Yields(s.native, m), g[m])
    PROVE  /\ StackInv(SubSeq(s.native, 1, m), Below(g, m))
           /\ StatesInv([s.st EXCEPT ![Top(s.native)] = q],
                        SubSeq(s.native, 1, m), Below(g, m))
<1> DEFINE nat == s.native  n == Len(nat)  t == Top(nat)
           nat2 == SubSeq(nat, 1, m)  g2 == Below(g, m)
<1>1. StackInv(nat, g) /\ n \in Nat /\ t \in Threads /\ m \in 0..n
  <2>1. StackInv(nat, g) /\ n \in Nat /\ t \in Threads
    BY TopMatches DEF Agree
  <2> QED
    BY <2>1
<1>2. StackInv(nat2, g2) /\ ThreadAt(nat, m) = t
  BY <1>1, CutStack, ThreadBelow
<1>3. /\ Len(nat2) = m /\ \A i \in 1..m : nat2[i] = nat[i]
      /\ \A i \in 0..m : g2[i] = g[i] /\ ThreadAt(nat2, i) = ThreadAt(nat, i)
  BY <1>1, BelowIs
<1> HIDE DEF nat2, g2
<1>4. Top(nat2) = t /\ Above(nat2, m, t) /\ Yields(nat2, m) = Yields(nat, m) /\ g2[m] = g[m]
  BY <1>1, <1>2, <1>3 DEF Top, Above, Yields
<1>5. Len(nat2) \in {m, m + 1} /\ Len(nat2) # m + 1
  BY <1>1, <1>3
<1>6. StatesInv([s.st EXCEPT ![t] = q], nat2, g2)
  BY <1>1, <1>2, <1>3, <1>4, <1>5, StatesAfter
<1> QED
  BY <1>2, <1>6 DEF nat2, g2

\* A coroutine loses all of its frames.
LEMMA CutCoroutine ==
    ASSUME NEW s, NEW g, Agree(s, g), NEW m \in 0..(Len(s.native) - 1),
           Above(s.native, m, Top(s.native)), s.native[m + 1].a = "resume", NEW q,
           Sound(q), Rests(q)
    PROVE  /\ StackInv(SubSeq(s.native, 1, m), Below(g, m))
           /\ StatesInv([s.st EXCEPT ![Top(s.native)] = q],
                        SubSeq(s.native, 1, m), Below(g, m))
<1> DEFINE nat == s.native  n == Len(nat)  t == Top(nat)
           nat2 == SubSeq(nat, 1, m)  g2 == Below(g, m)
<1>1. StackInv(nat, g) /\ n \in Nat /\ t \in Threads /\ m \in 0..n
  <2>1. StackInv(nat, g) /\ n \in Nat /\ t \in Threads
    BY TopMatches DEF Agree
  <2> QED
    BY <2>1
<1>2. StackInv(nat2, g2) /\ \A i \in 0..m : ThreadAt(nat, i) # t
  BY <1>1, CutStack, ThreadBelow
<1>3. /\ Len(nat2) = m /\ \A i \in 1..m : nat2[i] = nat[i]
      /\ \A i \in 0..m : g2[i] = g[i] /\ ThreadAt(nat2, i) = ThreadAt(nat, i)
  BY <1>1, BelowIs
<1> HIDE DEF nat2, g2
<1>4. m \in 0..m /\ ThreadAt(nat, m) # t /\ Top(nat2) # t /\ Above(nat2, m, t)
  BY <1>1, <1>2, <1>3 DEF Top, Above
<1>5. Len(nat2) \in {m, m + 1} /\ Len(nat2) # m + 1
  BY <1>1, <1>3
<1>6. StatesInv([s.st EXCEPT ![t] = q], nat2, g2)
  BY <1>1, <1>2, <1>3, <1>4, <1>5, StatesAfter
<1> QED
  BY <1>2, <1>6 DEF nat2, g2

-----------------------------------------------------------------------------
(* Errors.                                                                   *)

\* A new state of an interpreter whose thread at the top of the stack has a new
\* lua_State, as the lemmas above give it.
LEMMA InOrderIs ==
    ASSUME NEW str, NEW nat, NEW g, StackInv(nat, g), StatesInv(str, nat, g),
           g[Len(nat)].c < Limit, NEW c \in {"run", "ret", "fail", "overfull", "crash"}
    PROVE  InOrder([st |-> str, native |-> nat, ctl |-> c])
  BY DEF InOrder, Agree

\* The fields of a state of the interpreter.
LEMMA PartsOf ==
    ASSUME NEW s, NEW str, NEW nat, NEW c, s = [st |-> str, native |-> nat, ctl |-> c]
    PROVE  s.st = str /\ s.native = nat /\ s.ctl = c
  OBVIOUS

\* The fields of a lua_State.
LEMMA StateFields ==
    ASSUME NEW r \in LuaStates
    PROVE  /\ r.status \in {"none", "ok", "yield", "error"} /\ r.ci \in Seq(Functs \cup {"base"})
           /\ r.size \in Nat /\ r.nC \in Nat /\ r.baseC \in Nat /\ r.jmp \in Nat
           /\ r.errf \in BOOLEAN /\ r.allow \in BOOLEAN
           /\ r.vals \in {"none", "function", "values"} /\ r.opened \subseteq Nat
           /\ Len(r.ci) \in Nat /\ \A y \in 1..Len(r.ci) : r.ci[y] \in Functs \cup {"base"}
  BY DEF LuaStates

\* luaD_pcall puts a lua_State back to what it has saved.
LEMMA RecoveredIs ==
    ASSUME NEW r, Sound(r), NEW back \in Frames, back.a = "pcall", back.depth \in 1..Len(r.ci)
    PROVE  LET q == Recovered(r, back)
           IN  /\ Sound(q) /\ q.status = r.status /\ q.baseC = r.baseC /\ q.nC = back.nC
               /\ q.jmp = back.jmp /\ q.errf = back.errf /\ q.allow = back.allow
               /\ Len(q.ci) = back.depth /\ \A y \in 1..back.depth : q.ci[y] = r.ci[y]
              /\ q.vals = r.vals
<1> DEFINE q == Recovered(r, back)
           z == LimitRestored(r.size, back.depth - 1)
<1>1. /\ back.depth \in Nat /\ back.nC \in Nat /\ back.jmp \in Nat
      /\ back.errf \in BOOLEAN /\ back.allow \in BOOLEAN
  BY FrameFields
<1>2. r \in LuaStates /\ r.size \in Nat /\ Len(r.ci) \in Nat /\ r.ci \in Seq(Functs \cup {"base"})
  BY StateFields DEF Sound
<1>3. /\ SubSeq(r.ci, 1, back.depth) \in Seq(Functs \cup {"base"})
      /\ Len(SubSeq(r.ci, 1, back.depth)) = back.depth
      /\ \A y \in 1..back.depth : SubSeq(r.ci, 1, back.depth)[y] = r.ci[y]
  <2>1. back.depth \in 0..Len(r.ci)
    BY <1>2
  <2> QED
    BY <1>2, <2>1, CutIs
<1>4. z \in Nat /\ z <= 2 * MaxCalls /\ back.depth <= z
  BY <1>1, <1>2, Limits DEF Sound, LimitRestored
<1>5. q = [r EXCEPT !.nC = back.nC, !.ci = SubSeq(r.ci, 1, back.depth), !.jmp = back.jmp,
                    !.errf = back.errf, !.allow = back.allow,
                    !.opened = {d \in r.opened : d <= back.depth}, !.size = z]
  BY DEF Recovered
<1>6. /\ q \in LuaStates /\ q.status = r.status /\ q.baseC = r.baseC /\ q.nC = back.nC
      /\ q.jmp = back.jmp /\ q.errf = back.errf /\ q.allow = back.allow /\ q.size = z
      /\ q.ci = SubSeq(r.ci, 1, back.depth) /\ q.opened = {d \in r.opened : d <= back.depth}
      /\ q.vals = r.vals
  <2>1. {d \in r.opened : d <= back.depth} \in SUBSET Nat
    BY <1>2, StateFields
  <2> HIDE DEF z, q
  <2> QED
    BY <1>1, <1>2, <1>3, <1>4, <1>5, <2>1 DEF LuaStates
<1> HIDE DEF q, z
<1>7. Sound(q)
  <2>1. Len(q.ci) \in 1..q.size /\ q.size <= 2 * MaxCalls
    BY <1>1, <1>3, <1>4, <1>6
  <2>2. \A y \in 2..Len(q.ci) : q.ci[y] \in Functs
    BY <1>2, <1>3, <1>6 DEF Sound
  <2>3. \A y \in q.opened : y \in 1..Len(q.ci) /\ q.ci[y] = "lua"
    BY <1>2, <1>3, <1>6 DEF Sound
  <2> QED
    BY <1>6, <2>1, <2>2, <2>3 DEF Sound
<1> QED
  BY <1>3, <1>6, <1>7 DEF q

\* An error lands at a frame of its thread, and what is restored there is what the frames
\* below imply.
LEMMA ThrowKeeps ==
    ASSUME NEW s, NEW g, Agree(s, g), s.native # <<>>, s.st[Top(s.native)].status = "ok",
           g[Len(s.native)].c <= Limit
    PROVE  InOrder(Throw(s)) /\ Len(Throw(s).native) # Len(s.native)
<1> DEFINE nat == s.native  n == Len(nat)  t == Top(nat)  str == s.st
           at == str[t].jmp  m == at - 1  back == nat[at]
<1>1. /\ Matches(str[t], Yields(nat, n), g[n]) /\ Sound(str[t]) /\ t \in Threads
      /\ g[n] \in Implied /\ n \in Nat /\ t = Last(nat).thread /\ t = nat[n].thread /\ n >= 1
      /\ StackInv(nat, g) /\ StatesInv(str, nat, g)
  BY TopMatches DEF Agree
<1>2. /\ at = g[n].j /\ at \in 1..n /\ Protects(back) /\ Lands(nat, g, n)
      /\ \A k \in at..n : nat[k].thread = t
      /\ Grows(nat, g, n)
  <2>1. at = g[n].j /\ n \in 1..n
    BY <1>1 DEF Matches
  <2>2. Lands(nat, g, n) /\ Grows(nat, g, n)
    BY <1>1, <2>1 DEF StackInv
  <2> QED
    BY <1>1, <2>1, <2>2 DEF Lands
<1>3. /\ m \in 0..(n - 1) /\ m # n /\ m + 1 = at /\ at \in 1..n /\ m \in 0..n /\ Above(nat, m, t)
      /\ back \in Frames /\ Placed(nat, at) /\ Follows(nat, g, at) /\ g[m] \in Implied
  <2>1. m \in 0..(n - 1) /\ m # n /\ m + 1 = at /\ m \in 0..n
    BY <1>1, <1>2
  <2> QED
    BY <1>1, <1>2, <2>1, StackTypes DEF Above, StackInv
<1>4. Throw(s) = [st |-> [str EXCEPT ![t] = IF back.a = "pcall" THEN Recovered(str[t], back)
                                            ELSE Failed(str[t], back)],
                  native |-> SubSeq(nat, 1, m), ctl |-> "fail"]
  <2>1. at # 0 /\ t = Last(nat).thread
    BY <1>1, <1>2
  <2> QED
    BY <2>1 DEF Throw
<1>5. g[m].c < Limit /\ Below(g, m)[m] = g[m] /\ Len(SubSeq(nat, 1, m)) = m
  <2>1. m \in 0..m
    BY <1>3
  <2>2. Below(g, m)[m] = g[m] /\ Len(SubSeq(nat, 1, m)) = m
    <3>1. \A i \in 0..m : Below(g, m)[i] = g[i]
      BY DEF Below
    <3>2. Len(SubSeq(nat, 1, m)) = m
      BY <1>1, <1>3, BelowIs, ZenonT(40)
    <3> QED
      BY <2>1, <3>1, <3>2
  <2>3. Follows(nat, g, m + 1) /\ (m + 1) - 1 = m
    BY <1>3
  <2> QED
    BY <2>2, <2>3 DEF Follows
<1>6. CASE back.a = "pcall"
  <2>1. Saved(back, g[m]) /\ ThreadAt(nat, m) = t
    BY <1>1, <1>3, <1>6, ThreadBelow DEF Follows
  <2>2. g[m].d <= g[n].d /\ g[m].d \in Nat /\ g[n].d \in Nat
    BY <1>1, <1>2, <1>3, <2>1 DEF Grows, Implied, Top
  <2>3. back.depth \in 1..Len(str[t].ci) /\ back.depth = g[m].d + 1
    <3>1. back.depth = g[m].d + 1
      BY <2>1 DEF Saved
    <3>2. Matches(str[t], Yields(nat, n), g[n]) /\ str[t].status = "ok"
      BY <1>1
    <3> HIDE DEF nat, n, t, str, at, m, back
    <3>3. Len(str[t].ci) = g[n].d + 1
      BY <3>2 DEF Matches
    <3> QED
      BY <2>2, <3>1, <3>3
  <2> DEFINE q == Recovered(str[t], back)
  <2>4. /\ Sound(q) /\ q.status = "ok" /\ q.baseC = str[t].baseC /\ q.nC = back.nC
        /\ q.jmp = back.jmp /\ q.errf = back.errf /\ q.allow = back.allow
        /\ Len(q.ci) = back.depth /\ \A y \in 1..back.depth : q.ci[y] = str[t].ci[y]
        /\ q.vals = str[t].vals
    BY <1>1, <1>3, <1>6, <2>3, RecoveredIs
  <2> HIDE DEF q
  <2>5. g[m].b = g[n].b
    BY <1>2, <1>6 DEF Lands
  <2>6. Matches(q, Yields(nat, m), g[m])
    BY <1>1, <2>1, <2>3, <2>4, <2>5 DEF Matches, Saved
  <2>7. SameBelow(q, str[t], g[m].d + 1)
    <3>1. \A y \in 1..(g[m].d + 1) : q.ci[y] = str[t].ci[y]
      BY <2>3, <2>4
    <3>2. g[m].d \in Nat
      BY <2>2
    <3>3. q.vals = str[t].vals
      BY <2>4
    <3> HIDE DEF nat, n, t, str, at, m, back
    <3> QED
      BY <3>1, <3>2, <3>3 DEF SameBelow
  <2>8. /\ StackInv(SubSeq(nat, 1, m), Below(g, m))
        /\ StatesInv([str EXCEPT ![t] = q], SubSeq(nat, 1, m), Below(g, m))
    BY <1>3, <1>6, <2>4, <2>6, <2>7, CutTop
  <2>9. Throw(s) = [st |-> [str EXCEPT ![t] = q], native |-> SubSeq(nat, 1, m), ctl |-> "fail"]
    BY <1>4, <1>6 DEF q
  <2>10. InOrder(Throw(s))
    BY <1>5, <2>8, <2>9, InOrderIs
  <2>11. Len(Throw(s).native) = m /\ m # n
    <3> DEFINE nat2 == SubSeq(nat, 1, m)
    <3>1. Len(nat2) = m
      BY <1>5
    <3>4. m # n
      BY <1>3
    <3> HIDE DEF nat2
    <3>2. Throw(s) = [st |-> [str EXCEPT ![t] = q], native |-> nat2, ctl |-> "fail"]
      BY <2>9 DEF nat2
    <3>3. Throw(s).native = nat2
      BY <3>2, PartsOf
    <3> QED
      BY <3>1, <3>3, <3>4
  <2> QED
    BY <2>10, <2>11
<1>7. CASE back.a = "resume"
  <2> DEFINE q == Failed(str[t], back)
  <2>1. back.jmp = 0 /\ g[n].b = g[m].c + 1 /\ g[n].b <= g[n].c /\ g[m].c \in Nat /\ g[n].c \in Nat
    BY <1>1, <1>2, <1>3, <1>7 DEF Placed, Lands, Grows, Implied
  <2>2. str[t].nC = g[n].c /\ str[t].nC - 1 \in Nat /\ str[t].nC - 1 <= Limit /\ Limit \in Nat
    <3>1. Limit \in Nat
      BY Limits DEF Limit
    <3>2. str[t].nC = g[n].c
      BY <1>1 DEF Matches
    <3>3. g[n].c \in Nat /\ g[n].c >= 1
      BY <2>1
    <3>4. g[n].c <= Limit
      OBVIOUS
    <3> HIDE DEF n, str, t
    <3> QED
      BY <3>1, <3>2, <3>3, <3>4
  <2>3. /\ q \in LuaStates /\ q.status = "error" /\ q.nC = str[t].nC - 1 /\ q.jmp = 0
        /\ q.ci = str[t].ci /\ q.size = str[t].size /\ q.opened = str[t].opened
    <3>1. str[t] \in LuaStates /\ q = [str[t] EXCEPT !.status = "error", !.nC = str[t].nC - 1, !.jmp = 0]
      BY <1>1, <2>1 DEF Failed, Sound
    <3> HIDE DEF q
    <3> QED
      BY <2>2, <3>1 DEF LuaStates
  <2> HIDE DEF q
  <2>4. Sound(q) /\ Rests(q)
    BY <1>1, <2>2, <2>3 DEF Sound, Rests
  <2>5. /\ StackInv(SubSeq(nat, 1, m), Below(g, m))
        /\ StatesInv([str EXCEPT ![t] = q], SubSeq(nat, 1, m), Below(g, m))
    BY <1>3, <1>7, <2>4, CutCoroutine
  <2>6. Throw(s) = [st |-> [str EXCEPT ![t] = q], native |-> SubSeq(nat, 1, m), ctl |-> "fail"]
    BY <1>4, <1>7 DEF q
  <2>7. InOrder(Throw(s))
    BY <1>5, <2>5, <2>6, InOrderIs
  <2>8. Len(Throw(s).native) = m /\ m # n
    <3> DEFINE nat2 == SubSeq(nat, 1, m)
    <3>1. Len(nat2) = m
      BY <1>5
    <3>4. m # n
      BY <1>3
    <3> HIDE DEF nat2
    <3>2. Throw(s) = [st |-> [str EXCEPT ![t] = q], native |-> nat2, ctl |-> "fail"]
      BY <2>6 DEF nat2
    <3>3. Throw(s).native = nat2
      BY <3>2, PartsOf
    <3> QED
      BY <3>1, <3>3, <3>4
  <2> QED
    BY <2>7, <2>8
<1> QED
  BY <1>2, <1>6, <1>7 DEF Protects

\* Where a frame can be put.
LEMMA PlacedOnTop ==
    ASSUME NEW nat, NEW g, StackInv(nat, g), nat # <<>>, NEW f \in Frames,
           f.a # "resume", f.thread = Top(nat),
           f.a = "exec" => Last(nat).a \in {"call", "resume"},
           f.a = "cfun" => Last(nat).a \in {"exec", "call", "resume"}
    PROVE  Placed(Append(nat, f), Len(nat) + 1)
<1> DEFINE n == Len(nat)  nat2 == Append(nat, f)
<1>1. nat \in Seq(Frames) /\ n \in Nat
  BY StackTypes
<1>2. n >= 1 /\ Last(nat) = nat[n]
  BY <1>1, FrontIs
<1>3. nat2[n + 1] = f /\ \A i \in 1..n : nat2[i] = nat[i]
  BY <1>1, AppendIs
<1> HIDE DEF nat2, n
<1>4. nat2[n] = nat[n] /\ (n + 1) - 1 = n /\ n + 1 > 1 /\ n + 1 # 1 /\ n # 0
  BY <1>1, <1>2, <1>3
<1>5. f.thread = ThreadAt(nat2, n)
  BY <1>4 DEF Top, ThreadAt, n
<1>6. Placed(nat2, n + 1)
  BY <1>2, <1>3, <1>4, <1>5 DEF Placed
<1> QED
  BY <1>6 DEF n, nat2

\* What the top of the stack implies, one frame later.
LEMMA PushedLast ==
    ASSUME NEW nat, NEW g, StackInv(nat, g), NEW f \in Frames
    PROVE  /\ Len(Append(nat, f)) = Len(nat) + 1
           /\ Pushed(nat, g, f)[Len(nat) + 1] = Imply(g[Len(nat)], f, Len(nat) + 1)
           /\ Append(nat, f)[Len(nat) + 1] = f /\ Top(Append(nat, f)) = f.thread
           /\ Append(nat, f) # <<>> /\ Last(Append(nat, f)) = f
<1>1. /\ Len(Append(nat, f)) = Len(nat) + 1 /\ Len(nat) \in Nat
      /\ Pushed(nat, g, f)[Len(nat) + 1] = Imply(g[Len(nat)], f, Len(nat) + 1)
      /\ Append(nat, f)[Len(nat) + 1] = f /\ ThreadAt(Append(nat, f), Len(nat) + 1) = f.thread
      /\ Append(nat, f) \in Seq(Frames)
  BY PushedIs
<1>2. Append(nat, f) # <<>>
  BY <1>1, EmptySeq
<1> QED
  BY <1>1, <1>2, FrontIs DEF Top

\* An error of the program keeps the order, whether or not a handler hears of it.
LEMMA RunErrorKeeps ==
    ASSUME NEW s, NEW g, Agree(s, g), s.native # <<>>, s.st[Top(s.native)].status = "ok",
           g[Len(s.native)].c < Limit
    PROVE  InOrder(RunError(s)) /\ Len(RunError(s).native) # Len(s.native)
<1> DEFINE nat == s.native  n == Len(nat)  t == Top(nat)  str == s.st
           f == Frame("errormsg", t)  nat2 == Append(nat, f)  g2 == Pushed(nat, g, f)
<1>1. /\ Matches(str[t], Yields(nat, n), g[n]) /\ Sound(str[t]) /\ t \in Threads
      /\ g[n] \in Implied /\ n \in Nat /\ t = Last(nat).thread
      /\ StackInv(nat, g) /\ StatesInv(str, nat, g)
  BY TopMatches DEF Agree
<1>2. CASE str[t].errf
  <2>1. f \in Frames /\ f.a = "errormsg" /\ f.thread = t
    BY <1>1 DEF Frame, Frames
  <2> HIDE DEF f
  <2>2. Fits(nat, g, f)
    BY <1>1, <2>1, PlacedOnTop DEF Fits
  <2>3. LET x == g[n]  y == Imply(g[n], f, n + 1)
        IN  y.c = x.c /\ y.d = x.d /\ y.j = x.j /\ y.h = x.h /\ y.p = x.p /\ y.b = x.b
            /\ x.c \in Nat /\ x.d \in Nat
    <3>1. n + 1 \in Nat /\ Nested(f) = 0 /\ CallInfos(f) = 0 /\ ~Protects(f)
      BY <1>1, <2>1 DEF Nested, CallInfos, Protects
    <3>2. g[n].c \in Nat /\ g[n].d \in Nat
      BY <1>1 DEF Implied
    <3>3. g[n] \in Implied /\ f \in Frames
      BY <1>1, <2>1
    <3>4. LET x == g[n]  y == Imply(g[n], f, n + 1)
          IN  /\ y.c = x.c + Nested(f)
              /\ y.d = (IF f.a = "resume" THEN 0 ELSE x.d + CallInfos(f))
              /\ y.j = (IF Protects(f) THEN n + 1 ELSE x.j)
              /\ y.h = (IF f.a = "resume" THEN 0 ELSE IF f.a = "hook" THEN x.h + 1 ELSE x.h)
              /\ y.p = (IF f.a = "resume" THEN 0 ELSE IF f.a = "pcall" THEN x.p + 1 ELSE x.p)
              /\ y.b = (IF f.a = "resume" THEN x.c + 1 ELSE x.b)
      BY <3>1, <3>3, ImplyType
    <3> QED
      BY <2>1, <3>1, <3>2, <3>4
  <2>4. Matches(str[t], FALSE, Imply(g[n], f, n + 1)) /\ Runs(str[t], f, Imply(g[n], f, n + 1))
    BY <1>1, <2>1, <2>3 DEF Matches, Runs
  <2>5. StackInv(nat2, g2) /\ StatesInv([str EXCEPT ![t] = str[t]], nat2, g2)
    BY <1>1, <2>1, <2>2, <2>4, PushTop DEF SameBelow
  <2>6. [str EXCEPT ![t] = str[t]] = str
    BY <1>1 DEF StatesInv
  <2>7. g2[Len(nat2)].c < Limit
    BY <1>1, <2>1, <2>3, PushedLast
  <2>8. RunError(s) = [st |-> str, native |-> nat2, ctl |-> "run"]
    <3>1. s = [st |-> s.st, native |-> s.native, ctl |-> s.ctl]
      BY DEF Agree
    <3>2. RunError(s) = [s EXCEPT !.native = nat2, !.ctl = "run"]
      BY <1>1, <1>2 DEF RunError, f
    <3> QED
      BY <3>1, <3>2
  <2>9. StackInv(nat2, g2) /\ StatesInv(str, nat2, g2) /\ "run" \in {"run", "ret", "fail", "overfull", "crash"}
    BY <2>5, <2>6
  <2>10. InOrder([st |-> str, native |-> nat2, ctl |-> "run"])
    <3> HIDE DEF nat2, g2, str
    <3> QED
      BY <2>7, <2>9, InOrderIs
  <2>11. RunError(s).native = nat2 /\ Len(nat2) = n + 1
    BY <1>1, <2>1, <2>8, PushedLast
  <2> QED
    BY <1>1, <2>8, <2>10, <2>11
<1>3. CASE ~str[t].errf
  <2>1. RunError(s) = Throw(s)
    BY <1>1, <1>3 DEF RunError
  <2>2. g[n].c <= Limit
    <3>1. g[n].c \in Nat /\ Limit \in Nat
      BY <1>1, Limits DEF Implied, Limit
    <3> QED
      BY <3>1
  <2> QED
    BY <2>1, <2>2, ThrowKeeps
<1> QED
  BY <1>2, <1>3

-----------------------------------------------------------------------------
(* Calls.                                                                    *)

\* The lua_State with one more CallInfo.
Entered(q, r, f) ==
    /\ q.status = r.status /\ q.nC = r.nC /\ q.baseC = r.baseC /\ q.jmp = r.jmp
    /\ q.errf = r.errf /\ q.allow = r.allow
    /\ q.ci = Append(r.ci, f) /\ q.opened = r.opened
    /\ q.vals = r.vals

\* A lua_State whose CallInfos fit in an array of another size.
LEMMA ResizedIs ==
    ASSUME NEW r, Sound(r), NEW z \in Nat, Len(r.ci) <= z, z <= 2 * MaxCalls
    PROVE  LET q == [r EXCEPT !.size = z]
           IN  /\ Sound(q)
               /\ q.status = r.status /\ q.nC = r.nC /\ q.baseC = r.baseC /\ q.jmp = r.jmp
               /\ q.errf = r.errf /\ q.allow = r.allow /\ q.ci = r.ci /\ q.size = z
               /\ q.opened = r.opened /\ q.vals = r.vals
<1> DEFINE q == [r EXCEPT !.size = z]
<1>1. /\ q \in LuaStates
      /\ q.status = r.status /\ q.nC = r.nC /\ q.baseC = r.baseC /\ q.jmp = r.jmp
      /\ q.errf = r.errf /\ q.allow = r.allow /\ q.ci = r.ci /\ q.size = z
      /\ q.opened = r.opened /\ q.vals = r.vals
  BY DEF Sound, LuaStates
<1> HIDE DEF q
<1>2. Sound(q)
  BY <1>1, StateFields DEF Sound
<1> QED
  BY <1>1, <1>2 DEF q

\* A lua_State with one more CallInfo is sound.
LEMMA EnteredIs ==
    ASSUME NEW r, Sound(r), NEW f \in Functs, NEW z \in Nat,
           Len(r.ci) + 1 <= z, z <= 2 * MaxCalls
    PROVE  LET q == [r EXCEPT !.ci = Append(r.ci, f), !.size = z]
           IN  Sound(q) /\ Entered(q, r, f)
<1> DEFINE q == [r EXCEPT !.ci = Append(r.ci, f), !.size = z]
<1>1. /\ r \in LuaStates /\ r.ci \in Seq(Functs \cup {"base"}) /\ Len(r.ci) \in Nat
  BY StateFields DEF Sound
<1>2. /\ Append(r.ci, f) \in Seq(Functs \cup {"base"}) /\ Len(Append(r.ci, f)) = Len(r.ci) + 1
      /\ Append(r.ci, f)[Len(r.ci) + 1] = f
      /\ \A i \in 1..Len(r.ci) : Append(r.ci, f)[i] = r.ci[i]
  BY <1>1, AppendIs
<1>3. q \in LuaStates /\ Entered(q, r, f) /\ q.size = z
  BY <1>1, <1>2 DEF LuaStates, Entered
<1> HIDE DEF q
<1>4. Len(q.ci) \in 1..q.size /\ q.size <= 2 * MaxCalls
  BY <1>1, <1>2, <1>3 DEF Entered
<1>5. \A y \in 2..Len(q.ci) : q.ci[y] \in Functs
  <2> SUFFICES ASSUME NEW y \in 2..Len(q.ci)
               PROVE  q.ci[y] \in Functs
    OBVIOUS
  <2>1. y \in 2..Len(r.ci) \/ y = Len(r.ci) + 1
    BY <1>1, <1>2, <1>3 DEF Entered
  <2> QED
    BY <1>1, <1>2, <1>3, <2>1 DEF Entered, Sound
<1>6. \A y \in q.opened : y \in 1..Len(q.ci) /\ q.ci[y] = "lua"
  BY <1>1, <1>2, <1>3 DEF Entered, Sound
<1> QED
  BY <1>3, <1>4, <1>5, <1>6 DEF Sound, q

\* A state whose running thread has a new lua_State.
LEMMA TouchAgrees ==
    ASSUME NEW s, NEW g, Agree(s, g), NEW q,
           Sound(q), Matches(q, Yields(s.native, Len(s.native)), g[Len(s.native)]),
           SameBelow(q, s.st[Top(s.native)], g[Len(s.native)].d + 1), NEW c
    PROVE  Agree([st |-> [s.st EXCEPT ![Top(s.native)] = q], native |-> s.native, ctl |-> c], g)
  BY TouchTop DEF Agree

\* A state whose running thread has a new lua_State and one more frame.
LEMMA PushAgrees ==
    ASSUME NEW s, NEW g, Agree(s, g), NEW f, Fits(s.native, g, f), f.a # "resume", NEW q,
           Sound(q), SameBelow(q, s.st[Top(s.native)], g[Len(s.native)].d + 1),
           Runs(q, f, Imply(g[Len(s.native)], f, Len(s.native) + 1)),
           Matches(q, FALSE, Imply(g[Len(s.native)], f, Len(s.native) + 1)), NEW c
    PROVE  Agree([st |-> [s.st EXCEPT ![Top(s.native)] = q], native |-> Append(s.native, f),
                  ctl |-> c], Pushed(s.native, g, f))
  BY PushTop DEF Agree

\* A call that fits in the array of CallInfos, or an error that keeps the order.
LEMMA EnterCases ==
    ASSUME NEW s, NEW g, Agree(s, g), s.native # <<>>, s.st[Top(s.native)].status = "ok",
           g[Len(s.native)].c < Limit, NEW f \in Functs, NEW nat
    PROVE  LET t == Top(s.native)  r == s.st[t]
           IN  \/ InOrder(Enter(s, f, nat)) /\ Len(Enter(s, f, nat).native) # Len(s.native)
               \/ \E q : /\ Sound(q) /\ Entered(q, r, f)
                         /\ Enter(s, f, nat) = [st |-> [s.st EXCEPT ![t] = q], native |-> nat,
                                                ctl |-> "run"]
<1> DEFINE n == Len(s.native)  t == Top(s.native)  str == s.st  r == str[t]  size == r.size
<1>1. /\ Matches(r, Yields(s.native, n), g[n]) /\ Sound(r) /\ t \in Threads
      /\ g[n] \in Implied /\ n \in Nat /\ t = Last(s.native).thread
      /\ s = [st |-> s.st, native |-> s.native, ctl |-> s.ctl]
      /\ str \in [Threads -> LuaStates]
  BY TopMatches DEF Agree, StatesInv
<1>2. size \in Nat /\ Len(r.ci) \in 1..size /\ size <= 2 * MaxCalls /\ r \in LuaStates /\ MaxCalls \in Nat
  BY <1>1, StateFields, Limits DEF Sound
<1>3. CASE Len(r.ci) < size
  <2> DEFINE q == [r EXCEPT !.ci = Append(r.ci, f), !.size = size]
  <2>0. size \in Nat /\ Len(r.ci) + 1 <= size /\ size <= 2 * MaxCalls
    BY <1>2, <1>3
  <2>1. Sound(q) /\ Entered(q, r, f)
    BY <1>1, <2>0, EnteredIs
  <2>2. Enter(s, f, nat) = [s EXCEPT !.st[t].ci = Append(@, f), !.native = nat, !.ctl = "run"]
    BY <1>1, <1>2, <1>3 DEF Enter
  <2>3. [r EXCEPT !.ci = Append(@, f)] = q
    BY <1>2 DEF LuaStates
  <2>4. Enter(s, f, nat) = [st |-> [str EXCEPT ![t] = q], native |-> nat, ctl |-> "run"]
    BY <1>1, <2>2, <2>3
  <2> QED
    BY <2>1, <2>4
<1>4. CASE Len(r.ci) >= size /\ size > MaxCalls
  <2>1. Enter(s, f, nat) = Throw(s)
    BY <1>1, <1>2, <1>4 DEF Enter
  <2>2. g[n].c <= Limit
    BY <1>1, Limits DEF Implied, Limit
  <2>3. InOrder(Throw(s)) /\ Len(Throw(s).native) # Len(s.native)
    BY <2>2, ThrowKeeps
  <2> QED
    BY <2>1, <2>3
<1>5. CASE Len(r.ci) >= size /\ size <= MaxCalls /\ 2 * size > MaxCalls
  <2> DEFINE q == [r EXCEPT !.size = 2 * size]
             s2 == [st |-> [str EXCEPT ![t] = q], native |-> s.native, ctl |-> s.ctl]
  <2>1. Enter(s, f, nat) = RunError([s EXCEPT !.st[t].size = 2 * size])
    BY <1>1, <1>2, <1>5 DEF Enter
  <2>2. [s EXCEPT !.st[t].size = 2 * size] = s2
    BY <1>1
  <2>3. 2 * size \in Nat /\ Len(r.ci) <= 2 * size /\ 2 * size <= 2 * MaxCalls
    BY <1>2, <1>5
  <2>4. /\ Sound(q)
        /\ q.status = r.status /\ q.nC = r.nC /\ q.baseC = r.baseC /\ q.jmp = r.jmp
        /\ q.errf = r.errf /\ q.allow = r.allow /\ q.ci = r.ci /\ q.vals = r.vals
    BY <1>1, <2>3, ResizedIs
  <2>5. str[t] = r /\ [str EXCEPT ![t] = q][t] = q
    BY <1>1
  <2> HIDE DEF q
  <2>6. Matches(q, Yields(s.native, n), g[n]) /\ SameBelow(q, r, g[n].d + 1)
    BY <1>1, <2>4 DEF Matches, Yielded, SameBelow
  <2>7. Agree(s2, g)
    BY <2>4, <2>6, TouchAgrees
  <2>8. s2.native = s.native /\ s2.st[t].status = "ok"
    BY <2>4, <2>5
  <2> HIDE DEF s2
  <2>9. InOrder(RunError(s2)) /\ Len(RunError(s2).native) # Len(s2.native)
    BY <2>7, <2>8, RunErrorKeeps
  <2> QED
    BY <2>1, <2>2, <2>8, <2>9
<1>6. CASE Len(r.ci) >= size /\ size <= MaxCalls /\ ~(2 * size > MaxCalls)
  <2> DEFINE q == [r EXCEPT !.ci = Append(r.ci, f), !.size = 2 * size]
  <2>1. 2 * size \in Nat /\ Len(r.ci) + 1 <= 2 * size /\ 2 * size <= 2 * MaxCalls
    <3> DEFINE len == Len(r.ci)
    <3>1. len \in Nat /\ len <= size /\ 1 <= size /\ size \in Nat /\ MaxCalls \in Nat /\ size <= MaxCalls
      BY <1>2, <1>6
    <3> HIDE DEF len, size
    <3>2. 2 * size \in Nat /\ len + 1 <= 2 * size /\ 2 * size <= 2 * MaxCalls
      BY <3>1
    <3> QED
      BY <3>2 DEF len
  <2>2. Sound(q) /\ Entered(q, r, f)
    BY <1>1, <2>1, EnteredIs
  <2> DEFINE e == [r EXCEPT !.ci = Append(@, f)]
             en == [s EXCEPT !.st[t].ci = Append(@, f), !.native = nat, !.ctl = "run"]
  <2>3. Enter(s, f, nat) = [en EXCEPT !.st[t].size = 2 * size]
    BY <1>1, <1>2, <1>6, SMTT(20) DEF Enter
  <2>4. [e EXCEPT !.size = 2 * size] = q
    BY <1>2 DEF LuaStates
  <2>5. en = [st |-> [str EXCEPT ![t] = e], native |-> nat, ctl |-> "run"]
    <3>1. /\ [r EXCEPT !.ci = Append(@, f)] = e
          /\ [s EXCEPT !.st[t].ci = Append(@, f), !.native = nat, !.ctl = "run"] = en
      OBVIOUS
    <3> HIDE DEF e, en
    <3> QED
      BY <1>1, <3>1
  <2> HIDE DEF e, en, q
  <2>6. [str EXCEPT ![t] = e][t] = e /\ [[str EXCEPT ![t] = e] EXCEPT ![t] = q] = [str EXCEPT ![t] = q]
    BY <1>1
  <2>7. Enter(s, f, nat) = [st |-> [str EXCEPT ![t] = q], native |-> nat, ctl |-> "run"]
    BY <2>3, <2>4, <2>5, <2>6
  <2> QED
    BY <2>2, <2>7 DEF q
<1> QED
  BY <1>2, <1>3, <1>4, <1>5, <1>6

-----------------------------------------------------------------------------
(* One frame more, or one less, and the lua_State that goes with it.         *)

\* The lua_State of a running thread that gets the frame f as the frame at place i.
Gains(q, r, f, i) ==
    /\ Sound(q) /\ q.status = "ok" /\ q.baseC = r.baseC
    /\ q.nC = r.nC + Nested(f)
    /\ q.jmp = IF Protects(f) THEN i ELSE r.jmp
    /\ q.allow = (f.a # "hook" /\ r.allow)
    /\ q.errf => f.a = "pcall" \/ r.errf
    /\ Len(q.ci) = Len(r.ci) + CallInfos(f) /\ SameBelow(q, r, Len(r.ci))
    /\ f.a = "exec" => \A y \in (Len(q.ci) - f.n + 1)..Len(q.ci) : q.ci[y] = "lua"
    /\ f.a = "cfun" => /\ q.ci[Len(q.ci)] = f.f
                       /\ Len(q.ci) = 2 /\ q.nC = q.baseC => q.vals = "values"

\* What the frames imply for a running thread.
LEMMA RunningIs ==
    ASSUME NEW s, NEW g, Agree(s, g), s.st[Top(s.native)].status = "ok"
    PROVE  LET r == s.st[Top(s.native)]  x == g[Len(s.native)]
           IN  /\ r.nC = x.c /\ r.baseC = x.b /\ r.jmp = x.j /\ Len(r.ci) = x.d + 1
               /\ r.allow <=> x.h = 0
               /\ r.errf => x.p > 0
               /\ x.c \in Nat /\ x.d \in Nat /\ x.j \in Nat /\ x.h \in Nat /\ x.p \in Nat /\ x.b \in Nat
               /\ Sound(r) /\ r \in LuaStates /\ r.allow \in BOOLEAN /\ r.errf \in BOOLEAN
               /\ s.native \in Seq(Frames) /\ Len(s.native) \in Nat /\ Top(s.native) \in Threads
               /\ StackInv(s.native, g) /\ s.st \in [Threads -> LuaStates]
<1>1. LET q == s.st[Top(s.native)]  n == Len(s.native)
      IN  /\ Matches(q, Yields(s.native, n), g[n]) /\ Sound(q)
          /\ Top(s.native) \in Threads /\ g[n] \in Implied /\ n \in Nat
  BY TopMatches
<1>2. s.native \in Seq(Frames) /\ StackInv(s.native, g) /\ s.st \in [Threads -> LuaStates]
  BY DEF Agree, StackInv, StatesInv
<1>3. LET r == s.st[Top(s.native)]
      IN  r \in LuaStates /\ r.allow \in BOOLEAN /\ r.errf \in BOOLEAN
  BY <1>1, StateFields DEF Sound
<1> QED
  BY <1>1, <1>2, <1>3 DEF Matches, Implied

\* The running thread gets one more frame.
LEMMA PushKeeps ==
    ASSUME NEW s, NEW g, Agree(s, g), s.st[Top(s.native)].status = "ok",
           NEW f, Fits(s.native, g, f), f.a # "resume",
           NEW q, Gains(q, s.st[Top(s.native)], f, Len(s.native) + 1), NEW c
    PROVE  /\ Agree([st |-> [s.st EXCEPT ![Top(s.native)] = q], native |-> Append(s.native, f),
                     ctl |-> c], Pushed(s.native, g, f))
           /\ Len(Append(s.native, f)) = Len(s.native) + 1
           /\ Pushed(s.native, g, f)[Len(s.native) + 1].c = g[Len(s.native)].c + Nested(f)
<1> DEFINE n == Len(s.native)  t == Top(s.native)  r == s.st[t]  x == g[n]  y == Imply(x, f, n + 1)
<1>1. /\ r.nC = x.c /\ r.baseC = x.b /\ r.jmp = x.j /\ Len(r.ci) = x.d + 1
      /\ r.allow <=> x.h = 0
      /\ r.errf => x.p > 0
      /\ x.c \in Nat /\ x.d \in Nat /\ x.j \in Nat /\ x.h \in Nat /\ x.p \in Nat /\ x.b \in Nat
      /\ r.allow \in BOOLEAN /\ r.errf \in BOOLEAN
      /\ n \in Nat /\ StackInv(s.native, g)
  BY RunningIs
<1>2. x \in Implied /\ f \in Frames /\ n + 1 \in Nat
  BY <1>1, TopMatches DEF Fits
<1>3. /\ y.c = x.c + Nested(f)
      /\ y.d = (IF f.a = "resume" THEN 0 ELSE x.d + CallInfos(f))
      /\ y.j = (IF Protects(f) THEN n + 1 ELSE x.j)
      /\ y.h = (IF f.a = "resume" THEN 0 ELSE IF f.a = "hook" THEN x.h + 1 ELSE x.h)
      /\ y.p = (IF f.a = "resume" THEN 0 ELSE IF f.a = "pcall" THEN x.p + 1 ELSE x.p)
      /\ y.b = (IF f.a = "resume" THEN x.c + 1 ELSE x.b)
  BY <1>2, ImplyType
<1>4. CallInfos(f) \in Nat /\ Nested(f) \in Nat /\ (f.a = "exec" => f.n \in Nat)
  BY <1>2, FrameFields
<1> HIDE DEF x, y, r, n, t
<1>5. Len(q.ci) = y.d + 1 /\ y.d \in Nat
  <2>1. Len(q.ci) = Len(r.ci) + CallInfos(f)
    BY DEF Gains, r, t, n
  <2>2. Len(r.ci) = x.d + 1 /\ y.d = x.d + CallInfos(f) /\ x.d \in Nat
    BY <1>1, <1>3
  <2> QED
    BY <1>4, <2>1, <2>2
<1>6. Sound(q) /\ SameBelow(q, r, x.d + 1)
  BY <1>1 DEF Gains, r, t, n
<1>7. Matches(q, FALSE, y)
  <2>1. q.nC = y.c /\ q.baseC = y.b /\ q.jmp = y.j
    BY <1>1, <1>3 DEF Gains, r, t, n
  <2>2. q.allow <=> y.h = 0
    <3>1. q.allow = (f.a # "hook" /\ r.allow)
      BY DEF Gains, r, t, n
    <3>2. y.h = 0 <=> f.a # "hook" /\ x.h = 0
      BY <1>1, <1>3
    <3> QED
      BY <1>1, <3>1, <3>2
  <2>3. q.errf => y.p > 0
    BY <1>1, <1>3 DEF Gains, r, t, n
  <2> QED
    BY <1>5, <2>1, <2>2, <2>3 DEF Matches, Gains
<1>8. Runs(q, f, y)
  <2>1. f.a = "exec" => \A k \in (Len(q.ci) - f.n + 1)..Len(q.ci) : q.ci[k] = "lua"
    BY DEF Gains
  <2>2. f.a = "cfun" => /\ q.ci[Len(q.ci)] = f.f
                        /\ Len(q.ci) = 2 /\ q.nC = q.baseC => q.vals = "values"
    BY DEF Gains
  <2>3. f.a = "exec" => Len(q.ci) - f.n + 1 = y.d - f.n + 2
    BY <1>4, <1>5
  <2> QED
    BY <1>5, <1>7, <2>1, <2>2, <2>3 DEF Runs, Matches
<1>9. Agree([st |-> [s.st EXCEPT ![t] = q], native |-> Append(s.native, f), ctl |-> c],
            Pushed(s.native, g, f))
  BY <1>6, <1>7, <1>8, PushAgrees DEF x, y, r, n, t
<1>10. Len(Append(s.native, f)) = n + 1 /\ Pushed(s.native, g, f)[n + 1] = y
  BY <1>1, <1>2, PushedLast DEF x, y, n
<1> QED
  BY <1>3, <1>9, <1>10 DEF x, n, t

\* The lua_State of a running thread that loses the frame f.
Loses(q, r, f) ==
    /\ Sound(q) /\ q.status = "ok" /\ q.baseC = r.baseC
    /\ q.nC = r.nC - Nested(f)
    /\ q.jmp = IF f.a = "pcall" THEN f.jmp ELSE r.jmp
    /\ q.allow = (f.a = "hook" \/ r.allow)
    /\ q.errf = IF f.a = "pcall" THEN f.errf ELSE r.errf
    /\ Len(q.ci) = Len(r.ci) - CallInfos(f) /\ SameBelow(q, r, Len(q.ci))

\* The running thread loses its last frame, and has others.
LEMMA PopKeeps ==
    ASSUME NEW s, NEW g, Agree(s, g), s.native # <<>>, s.st[Top(s.native)].status = "ok",
           Last(s.native).a # "resume",
           NEW q, Loses(q, s.st[Top(s.native)], Last(s.native)), NEW c
    PROVE  /\ Agree([st |-> [s.st EXCEPT ![Top(s.native)] = q], native |-> Front(s.native),
                     ctl |-> c], Below(g, Len(s.native) - 1))
           /\ Len(Front(s.native)) = Len(s.native) - 1
           /\ Below(g, Len(s.native) - 1)[Len(s.native) - 1].c < Limit
           /\ Top(Front(s.native)) = Top(s.native)
<1> DEFINE n == Len(s.native)  m == n - 1  t == Top(s.native)  r == s.st[t]  x == g[m]  y == g[n]
           f == Last(s.native)
<1>1. /\ r.nC = y.c /\ r.baseC = y.b /\ r.jmp = y.j /\ Len(r.ci) = y.d + 1
      /\ r.allow <=> y.h = 0
      /\ r.errf => y.p > 0
      /\ y.c \in Nat /\ y.d \in Nat /\ y.j \in Nat /\ y.h \in Nat /\ y.p \in Nat /\ y.b \in Nat
      /\ r.allow \in BOOLEAN /\ r.errf \in BOOLEAN
      /\ n \in Nat /\ StackInv(s.native, g) /\ s.native \in Seq(Frames)
  BY RunningIs
<1>2. /\ n >= 1 /\ f = s.native[n] /\ f \in Frames /\ Front(s.native) = SubSeq(s.native, 1, m)
      /\ Len(Front(s.native)) = m
  BY <1>1, FrontIs
<1>3. n \in 1..n /\ m \in 0..n /\ m \in 0..(n - 1) /\ m + 1 = n /\ m \in 0..m
  BY <1>1, <1>2
<1>4. x \in Implied /\ Follows(s.native, g, n) /\ Lands(s.native, g, n)
  BY <1>1, <1>3, StackTypes DEF StackInv
<1>5. /\ y.c = x.c + Nested(f)
      /\ y.d = (IF f.a = "resume" THEN 0 ELSE x.d + CallInfos(f))
      /\ y.j = (IF Protects(f) THEN n ELSE x.j)
      /\ y.h = (IF f.a = "resume" THEN 0 ELSE IF f.a = "hook" THEN x.h + 1 ELSE x.h)
      /\ y.p = (IF f.a = "resume" THEN 0 ELSE IF f.a = "pcall" THEN x.p + 1 ELSE x.p)
      /\ y.b = (IF f.a = "resume" THEN x.c + 1 ELSE x.b)
  <2>1. y = Imply(x, f, n) /\ n \in Nat
    BY <1>1, <1>2, <1>4 DEF Follows
  <2>2. x \in Implied /\ f \in Frames
    BY <1>2, <1>4
  <2>3. LET z == Imply(x, f, n)
        IN  /\ z.c = x.c + Nested(f)
            /\ z.d = (IF f.a = "resume" THEN 0 ELSE x.d + CallInfos(f))
            /\ z.j = (IF Protects(f) THEN n ELSE x.j)
            /\ z.h = (IF f.a = "resume" THEN 0 ELSE IF f.a = "hook" THEN x.h + 1 ELSE x.h)
            /\ z.p = (IF f.a = "resume" THEN 0 ELSE IF f.a = "pcall" THEN x.p + 1 ELSE x.p)
            /\ z.b = (IF f.a = "resume" THEN x.c + 1 ELSE x.b)
    BY <2>1, <2>2, ImplyType
  <2> HIDE DEF x, y, f, n
  <2> QED
    BY <2>1, <2>3
<1>6. /\ x.c < Limit
      /\ f.a = "pcall" => Saved(f, x)
      /\ f.a = "hook" => x.h = 0
  BY <1>2, <1>4 DEF Follows
<1>7. /\ CallInfos(f) \in Nat /\ Nested(f) \in Nat
      /\ x.c \in Nat /\ x.d \in Nat /\ x.j \in Nat /\ x.h \in Nat /\ x.p \in Nat /\ x.b \in Nat
  BY <1>2, <1>4, FrameFields DEF Implied
<1>8. Above(s.native, m, t) /\ s.native[m + 1].a # "resume" /\ ~(f.a = "resume")
  BY <1>1, <1>2, <1>3, SMTT(20) DEF Above, Top, ThreadAt
<1>9. Loses(q, r, f)
  OBVIOUS
<1> HIDE DEF x, y, r, n, m, t, f
<1>10. Sound(q) /\ Len(q.ci) = x.d + 1 /\ SameBelow(q, r, x.d + 1)
  <2>1. Sound(q) /\ Len(q.ci) = Len(r.ci) - CallInfos(f) /\ SameBelow(q, r, Len(q.ci))
    BY <1>9 DEF Loses
  <2>2. Len(r.ci) = y.d + 1 /\ y.d = x.d + CallInfos(f) /\ x.d \in Nat /\ CallInfos(f) \in Nat
    BY <1>1, <1>5, <1>7, <1>8
  <2>3. Len(q.ci) = x.d + 1
    BY <2>1, <2>2
  <2> QED
    BY <2>1, <2>3
<1>11. Matches(q, Yields(s.native, m), x)
  <2>1. q.nC = x.c /\ q.baseC = x.b
    BY <1>1, <1>5, <1>7, <1>8, <1>9 DEF Loses
  <2>2. q.jmp = x.j
    BY <1>1, <1>5, <1>6, <1>8, <1>9 DEF Loses, Saved, Protects
  <2>3. q.allow <=> x.h = 0
    <3>1. q.allow = (f.a = "hook" \/ r.allow)
      BY <1>9 DEF Loses
    <3>2. x.h = 0 <=> f.a = "hook" \/ y.h = 0
      BY <1>5, <1>6, <1>8
    <3> QED
      BY <1>1, <3>1, <3>2
  <2>4. q.errf => x.p > 0
    <3>1. CASE f.a = "pcall"
      BY <1>6, <1>9, <3>1 DEF Loses, Saved
    <3>2. CASE f.a # "pcall"
      BY <1>1, <1>5, <1>8, <1>9, <3>2 DEF Loses
    <3> QED
      BY <3>1, <3>2
  <2> QED
    BY <1>9, <1>10, <2>1, <2>2, <2>3, <2>4 DEF Matches, Loses
<1>12. /\ StackInv(SubSeq(s.native, 1, m), Below(g, m))
       /\ StatesInv([s.st EXCEPT ![t] = q], SubSeq(s.native, 1, m), Below(g, m))
  <2>1. m \in 0..(Len(s.native) - 1)
    BY <1>3 DEF n
  <2>2. /\ Above(s.native, m, Top(s.native)) /\ s.native[m + 1].a # "resume"
        /\ SameBelow(q, s.st[Top(s.native)], g[m].d + 1)
        /\ Matches(q, Yields(s.native, m), g[m])
    BY <1>8, <1>10, <1>11 DEF t, r, x
  <2> QED
    BY <1>10, <2>1, <2>2, CutTop DEF t
<1>13. Below(g, m)[m] = x
  BY <1>3 DEF Below, x
<1>14. Top(Front(s.native)) = t
  <2>1. ThreadAt(s.native, m) = t
    BY <1>1, <1>3, <1>8, ThreadBelow DEF n
  <2>2. ThreadAt(SubSeq(s.native, 1, m), m) = ThreadAt(s.native, m)
    BY <1>1, <1>3, BelowIs DEF n
  <2> QED
    BY <1>2, <2>1, <2>2 DEF Top
<1> QED
  BY <1>2, <1>6, <1>12, <1>13, <1>14 DEF Agree, n, m, t

\* A lua_State with the same CallInfos and open upvalues.
LEMMA SoundIs ==
    ASSUME NEW r, Sound(r), NEW q \in LuaStates, q.ci = r.ci, q.size = r.size,
           q.opened = r.opened, q.vals = r.vals
    PROVE  Sound(q) /\ Len(q.ci) = Len(r.ci) /\ \A n : SameBelow(q, r, n)
  BY DEF Sound, SameBelow

\* A state in order, from what the frames of it imply.
LEMMA AgreeInOrder ==
    ASSUME NEW s, NEW g, Agree(s, g), s.ctl \in {"run", "ret", "fail", "overfull", "crash"},
           g[Len(s.native)].c < Limit
    PROVE  InOrder(s)
  BY DEF InOrder

\* A function is entered: its frame is put on the stack.
LEMMA BodyKeeps ==
    ASSUME NEW s, NEW g, Agree(s, g), s.native # <<>>, s.st[Top(s.native)].status = "ok",
           g[Len(s.native)].c < Limit, NEW f \in Functs,
           f = "lua" => Last(s.native).a \in {"call", "resume"},
           f # "lua" => Last(s.native).a \in {"exec", "call", "resume"},
           NEW q, Sound(q), Entered(q, s.st[Top(s.native)], f),
           f # "lua" /\ Len(q.ci) = 2 /\ q.nC = q.baseC => q.vals = "values"
    PROVE  InOrder([st |-> [s.st EXCEPT ![Top(s.native)] = q],
                    native |-> Append(s.native, Body(Top(s.native), f)), ctl |-> "run"])
<1> DEFINE n == Len(s.native)  t == Top(s.native)  r == s.st[t]  b == Body(t, f)
<1>1. /\ StackInv(s.native, g) /\ t \in Threads /\ n \in Nat /\ r \in LuaStates
      /\ r.allow \in BOOLEAN /\ g[n].c \in Nat
  BY RunningIs
<1>2. /\ b \in Frames /\ b.thread = t /\ b.a \in {"exec", "cfun"}
      /\ f = "lua" => b.a = "exec" /\ b.n = 1
      /\ f # "lua" => b.a = "cfun" /\ b.f = f
  BY <1>1 DEF Body, Exec, CFrame, Frames, Functs, LuaFunctions
<1>3. CallInfos(b) = 1 /\ Nested(b) = 0 /\ ~Protects(b)
  BY <1>2 DEF CallInfos, Nested, Protects
<1> HIDE DEF b
<1>4. Fits(s.native, g, b)
  <2>1. Placed(Append(s.native, b), Len(s.native) + 1)
    BY <1>1, <1>2, PlacedOnTop
  <2> QED
    BY <1>2, <2>1 DEF Fits
<1>5. /\ r.ci \in Seq(Functs \cup {"base"}) /\ Len(r.ci) \in Nat /\ q.ci = Append(r.ci, f)
      /\ r.nC \in Nat
  BY <1>1, StateFields DEF Entered
<1>6. /\ Len(q.ci) = Len(r.ci) + 1 /\ q.ci[Len(r.ci) + 1] = f
      /\ \A y \in 1..Len(r.ci) : q.ci[y] = r.ci[y]
  BY <1>5, AppendIs
<1>7. Gains(q, r, b, n + 1)
  <2>1. /\ q.status = "ok" /\ q.baseC = r.baseC /\ q.nC = r.nC + Nested(b)
        /\ q.jmp = (IF Protects(b) THEN n + 1 ELSE r.jmp)
        /\ q.allow = (b.a # "hook" /\ r.allow)
        /\ q.errf => b.a = "pcall" \/ r.errf
    BY <1>1, <1>2, <1>3, <1>5 DEF Entered
  <2>2. Len(q.ci) = Len(r.ci) + CallInfos(b) /\ SameBelow(q, r, Len(r.ci))
    BY <1>3, <1>5, <1>6 DEF SameBelow, Entered
  <2>3. b.a = "exec" => \A y \in (Len(q.ci) - b.n + 1)..Len(q.ci) : q.ci[y] = "lua"
    <3> SUFFICES ASSUME b.a = "exec", NEW y \in (Len(q.ci) - b.n + 1)..Len(q.ci)
                 PROVE  q.ci[y] = "lua"
      OBVIOUS
    <3>1. b.n = 1 /\ f = "lua"
      BY <1>2
    <3>2. y = Len(r.ci) + 1
      BY <1>5, <1>6, <3>1
    <3> QED
      BY <1>6, <3>1, <3>2
  <2>4. b.a = "cfun" => /\ q.ci[Len(q.ci)] = b.f
                        /\ Len(q.ci) = 2 /\ q.nC = q.baseC => q.vals = "values"
    BY <1>2, <1>6
  <2> QED
    BY <2>1, <2>2, <2>3, <2>4 DEF Gains
<1> DEFINE s2 == [st |-> [s.st EXCEPT ![t] = q], native |-> Append(s.native, b), ctl |-> "run"]
           g2 == Pushed(s.native, g, b)
<1>8. Agree(s2, g2) /\ Len(Append(s.native, b)) = n + 1 /\ g2[n + 1].c = g[n].c + Nested(b)
  BY <1>2, <1>4, <1>7, PushKeeps
<1>9. g2[Len(s2.native)].c < Limit /\ s2.ctl = "run"
  <2>1. Len(s2.native) = n + 1
    BY <1>8
  <2>2. g2[n + 1].c = g[n].c
    BY <1>1, <1>3, <1>8
  <2> HIDE DEF g2
  <2> QED
    BY <2>1, <2>2
<1>10. InOrder(s2)
  <2> HIDE DEF s2, g2
  <2> QED
    BY <1>8, <1>9, AgreeInOrder
<1> QED
  BY <1>10 DEF b

\* The C calls of a coroutine are those of its resume, and more.
LEMMA BaseBelow ==
    ASSUME NEW s, NEW g, Agree(s, g)
    PROVE  g[Len(s.native)].b <= g[Len(s.native)].c
<1> DEFINE n == Len(s.native)
<1>1. StackInv(s.native, g) /\ n \in Nat /\ g[0] = Nothing
  BY TopMatches DEF Agree, StackInv
<1>2. n \in 1..n => Grows(s.native, g, n)
  BY <1>1 DEF StackInv
<1> QED
  BY <1>1, <1>2 DEF Grows, Nothing

\* luaD_call keeps the order, at the limit on nested C calls too.
LEMMA CallKeeps ==
    ASSUME NEW s, NEW g, Agree(s, g), s.native # <<>>, s.st[Top(s.native)].status = "ok",
           g[Len(s.native)].c < Limit, NEW f \in Functs
    PROVE  InOrder(Call(s, f))
<1> DEFINE n == Len(s.native)  t == Top(s.native)  r == s.st[t]  b == Frame("call", t)
           m == r.nC + 1  q == [r EXCEPT !.nC = m]
           en == [s EXCEPT !.st[t].nC = m, !.native = Append(@, Frame("call", t))]
           c == [st |-> [s.st EXCEPT ![t] = q], native |-> Append(s.native, b), ctl |-> s.ctl]
           g2 == Pushed(s.native, g, b)
<1>1. /\ StackInv(s.native, g) /\ t \in Threads /\ n \in Nat /\ r \in LuaStates
      /\ r.allow \in BOOLEAN /\ g[n].c \in Nat /\ r.nC = g[n].c /\ Sound(r)
      /\ s.st \in [Threads -> LuaStates] /\ s.native \in Seq(Frames)
  BY RunningIs
<1>2. b \in Frames /\ b.thread = t /\ b.a = "call"
  BY <1>1 DEF Frame, Frames
<1>3. CallInfos(b) = 0 /\ Nested(b) = 1 /\ ~Protects(b)
  BY <1>2 DEF CallInfos, Nested, Protects
<1>4. Last(s.native).thread = t /\ s = [st |-> s.st, native |-> s.native, ctl |-> s.ctl]
  BY TopMatches DEF Agree
<1>5. en = c
  <2>1. q = [r EXCEPT !.nC = m] /\ b = Frame("call", t)
        /\ [s EXCEPT !.st[t].nC = m, !.native = Append(@, Frame("call", t))] = en
    OBVIOUS
  <2> HIDE DEF en, b, q
  <2> QED
    BY <1>4, <2>1
<1>6. Call(s, f) = CASE m = MaxCCalls -> RunError(c)
                     [] m >= MaxCCalls + CSlack -> Throw(c)
                     [] OTHER -> Enter(c, f, Append(c.native, Body(t, f)))
  <2>1. Call(s, f) = CASE m = MaxCCalls -> RunError(en)
                     [] m >= MaxCCalls + CSlack -> Throw(en)
                     [] OTHER -> Enter(en, f, Append(en.native, Body(t, f)))
    BY <1>4 DEF Call
  <2> HIDE DEF en, c
  <2> QED
    BY <1>5, <2>1
<1>7. /\ q \in LuaStates /\ q.status = "ok" /\ q.baseC = r.baseC /\ q.nC = m /\ q.jmp = r.jmp
      /\ q.errf = r.errf /\ q.allow = r.allow /\ q.ci = r.ci /\ q.size = r.size
      /\ q.opened = r.opened /\ q.vals = r.vals
  <2>1. m \in Nat
    BY <1>1
  <2> QED
    BY <1>1, <2>1 DEF LuaStates
<1> HIDE DEF b, q
<1>8. Fits(s.native, g, b)
  <2>1. Placed(Append(s.native, b), Len(s.native) + 1)
    BY <1>1, <1>2, PlacedOnTop
  <2> QED
    BY <1>2, <2>1 DEF Fits
<1>9. Gains(q, r, b, n + 1)
  <2>1. Sound(q) /\ Len(q.ci) = Len(r.ci) /\ SameBelow(q, r, Len(r.ci))
    BY <1>1, <1>7, SoundIs
  <2>2. Len(r.ci) \in Nat
    BY <1>1, StateFields
  <2> HIDE DEF r
  <2> QED
    BY <1>1, <1>2, <1>3, <1>7, <2>1, <2>2 DEF Gains
<1>10. Agree(c, g2) /\ Len(Append(s.native, b)) = n + 1 /\ g2[n + 1].c = g[n].c + Nested(b)
  BY <1>2, <1>8, <1>9, PushKeeps
<1>11. /\ c.native = Append(s.native, b) /\ Len(c.native) = n + 1 /\ c.native # <<>>
       /\ Last(c.native) = b /\ Top(c.native) = t /\ c.st[t] = q
  BY <1>1, <1>2, PushedLast
<1>12. g2[Len(c.native)].c = m /\ m \in Nat /\ m <= Limit /\ Limit = MaxCCalls + CSlack
       /\ MaxCCalls \in Nat /\ CSlack \in Nat \ {0}
  BY <1>1, <1>3, <1>10, <1>11, Limits DEF Limit
<1>13. c.st[Top(c.native)].status = "ok" /\ c.st[Top(c.native)].nC # c.st[Top(c.native)].baseC
  <2>1. g[n].b <= g[n].c /\ g[n].b \in Nat /\ r.baseC = g[n].b
    BY BaseBelow, RunningIs
  <2> QED
    BY <1>1, <1>7, <1>11, <2>1
<1> HIDE DEF c, g2, m, n, r, t
<1>14. CASE m = MaxCCalls
  <2>1. Call(s, f) = RunError(c) /\ g2[Len(c.native)].c < Limit
    BY <1>6, <1>12, <1>14
  <2> QED
    BY <1>10, <1>11, <1>13, <2>1, RunErrorKeeps
<1>15. CASE m # MaxCCalls /\ m >= MaxCCalls + CSlack
  <2>1. Call(s, f) = Throw(c) /\ g2[Len(c.native)].c <= Limit
    BY <1>6, <1>12, <1>15
  <2> QED
    BY <1>10, <1>11, <1>13, <2>1, ThrowKeeps
<1>16. CASE m # MaxCCalls /\ ~(m >= MaxCCalls + CSlack)
  <2>1. Call(s, f) = Enter(c, f, Append(c.native, Body(t, f))) /\ g2[Len(c.native)].c < Limit
    BY <1>6, <1>12, <1>16
  <2>2. CASE InOrder(Enter(c, f, Append(c.native, Body(t, f))))
    BY <2>1, <2>2
  <2>3. ASSUME NEW p, Sound(p), Entered(p, c.st[Top(c.native)], f),
               Enter(c, f, Append(c.native, Body(t, f)))
                 = [st |-> [c.st EXCEPT ![Top(c.native)] = p],
                    native |-> Append(c.native, Body(t, f)), ctl |-> "run"]
        PROVE  InOrder(Enter(c, f, Append(c.native, Body(t, f))))
    <3>1. /\ f = "lua" => Last(c.native).a \in {"call", "resume"}
          /\ f # "lua" => Last(c.native).a \in {"exec", "call", "resume"}
          /\ p.nC # p.baseC
      BY <1>2, <1>11, <1>13, <2>3 DEF Entered
    <3>2. InOrder([st |-> [c.st EXCEPT ![Top(c.native)] = p],
                   native |-> Append(c.native, Body(Top(c.native), f)), ctl |-> "run"])
      BY <1>10, <1>11, <1>13, <2>1, <2>3, <3>1, BodyKeeps
    <3> QED
      BY <1>11, <2>3, <3>2
  <2> QED
    BY <1>10, <1>11, <1>13, <2>1, <2>2, <2>3, EnterCases
<1> QED
  BY <1>14, <1>15, <1>16

\* The CallInfos of the running thread, for a frame that runs them.
LEMMA TopRuns ==
    ASSUME NEW s, NEW g, Agree(s, g), s.native # <<>>
    PROVE  LET f == Last(s.native)  r == s.st[Top(s.native)]
           IN  /\ f.a # "resume" => r.status = "ok"
               /\ f.a = "exec" => /\ Len(r.ci) >= f.n + 1 /\ f.n \in Nat \ {0}
                                  /\ \A y \in (Len(r.ci) - f.n + 1)..Len(r.ci) : r.ci[y] = "lua"
               /\ f.a = "cfun" => /\ Len(r.ci) >= 2 /\ r.ci[Len(r.ci)] = f.f
                                  /\ Len(r.ci) = 2 /\ r.nC = r.baseC => r.vals = "values"
<1> DEFINE n == Len(s.native)  t == Top(s.native)  r == s.st[t]  f == Last(s.native)
<1>1. /\ Matches(r, Yields(s.native, n), g[n]) /\ g[n] \in Implied /\ n \in Nat
      /\ f = s.native[n] /\ f \in Frames /\ t = f.thread /\ n >= 1
      /\ StackInv(s.native, g) /\ StatesInv(s.st, s.native, g)
  BY TopMatches DEF Agree
<1>2. n \in 1..n /\ n - 1 \in 0..n
  BY <1>1
<1>3. g[n - 1] \in Implied /\ Follows(s.native, g, n)
  BY <1>1, <1>2, StackTypes DEF StackInv
<1>4. Runs(r, f, g[n])
  BY <1>1, <1>2 DEF StatesInv
<1>5. f.a # "resume" => r.status = "ok" /\ Len(r.ci) = g[n].d + 1
  BY <1>1 DEF Matches, Yields
<1>6. f.a # "resume" => g[n].d = g[n - 1].d + CallInfos(f)
  <2>1. g[n] = Imply(g[n - 1], f, n)
    BY <1>1, <1>3 DEF Follows
  <2>2. Imply(g[n - 1], f, n).d = (IF f.a = "resume" THEN 0 ELSE g[n - 1].d + CallInfos(f))
    BY <1>1, <1>3, ImplyType
  <2> QED
    BY <2>1, <2>2
<1>7. g[n - 1].d \in Nat /\ g[n].d \in Nat /\ CallInfos(f) \in Nat
  BY <1>1, <1>3, FrameFields DEF Implied
<1>8. /\ f.a = "exec" => f.n \in Nat \ {0} /\ CallInfos(f) = f.n
      /\ f.a = "cfun" => CallInfos(f) = 1
  BY <1>1, FrameFields DEF CallInfos
<1> HIDE DEF n, r, f, t
<1>9. ASSUME f.a = "exec"
      PROVE  Len(r.ci) >= f.n + 1 /\ \A y \in (Len(r.ci) - f.n + 1)..Len(r.ci) : r.ci[y] = "lua"
  <2>1. Len(r.ci) = g[n].d + 1 /\ g[n].d = g[n - 1].d + f.n
    BY <1>5, <1>6, <1>8, <1>9
  <2>2. Len(r.ci) - f.n + 1 = g[n].d - f.n + 2
    BY <1>7, <1>8, <1>9, <2>1
  <2>3. \A y \in (g[n].d - f.n + 2)..(g[n].d + 1) : r.ci[y] = "lua"
    BY <1>4, <1>9 DEF Runs
  <2>4. Len(r.ci) >= f.n + 1
    BY <1>7, <1>8, <1>9, <2>1
  <2> QED
    BY <2>1, <2>2, <2>3, <2>4
<1>10. ASSUME f.a = "cfun"
       PROVE  /\ Len(r.ci) >= 2 /\ r.ci[Len(r.ci)] = f.f
              /\ Len(r.ci) = 2 /\ r.nC = r.baseC => r.vals = "values"
  <2>1. Len(r.ci) = g[n].d + 1 /\ g[n].d = g[n - 1].d + 1
    BY <1>5, <1>6, <1>8, <1>10
  <2>2. r.ci[g[n].d + 1] = f.f /\ (g[n].d = 1 /\ g[n].c = g[n].b => r.vals = "values")
    BY <1>4, <1>10 DEF Runs
  <2>3. r.nC = g[n].c /\ r.baseC = g[n].b
    BY <1>1 DEF Matches
  <2> QED
    BY <1>7, <2>1, <2>2, <2>3
<1> QED
  BY <1>5, <1>8, <1>9, <1>10 DEF r, f, t

\* What the frames imply when the last one is replaced.
Swapped(nat, g, f) == Pushed(Front(nat), Below(g, Len(nat) - 1), f)

\* The last frame of the running thread is replaced by another one of its kind.
LEMMA SwapKeeps ==
    ASSUME NEW s, NEW g, Agree(s, g), s.native # <<>>, s.st[Top(s.native)].status = "ok",
           NEW f, f \in Frames, f.a = Last(s.native).a, f.thread = Last(s.native).thread,
           f.a \in {"exec", "parser"},
           NEW p, Loses(p, s.st[Top(s.native)], Last(s.native)),
           NEW q, Gains(q, p, f, Len(s.native)), NEW c
    PROVE  /\ Agree([st |-> [s.st EXCEPT ![Top(s.native)] = q],
                     native |-> [s.native EXCEPT ![Len(s.native)] = f], ctl |-> c],
                    Swapped(s.native, g, f))
           /\ p.nC \in Nat /\ p.nC < Limit
           /\ Swapped(s.native, g, f)[Len(s.native)].c = p.nC + Nested(f)
<1> DEFINE n == Len(s.native)  m == n - 1  t == Top(s.native)  r == s.st[t]  h == Last(s.native)
           s1 == [st |-> [s.st EXCEPT ![t] = p], native |-> Front(s.native), ctl |-> c]
           g1 == Below(g, m)
           s2 == [st |-> [s1.st EXCEPT ![Top(s1.native)] = q], native |-> Append(s1.native, f), ctl |-> c]
           g2 == Pushed(s1.native, g1, f)
<1>1. /\ s.native \in Seq(Frames) /\ n \in Nat /\ t \in Threads /\ StackInv(s.native, g)
      /\ s.st \in [Threads -> LuaStates]
  BY RunningIs
<1>2. /\ n >= 1 /\ h = s.native[n] /\ h \in Frames /\ Front(s.native) \in Seq(Frames)
      /\ Len(Front(s.native)) = m /\ \A i \in 1..m : Front(s.native)[i] = s.native[i]
  BY <1>1, FrontIs
<1>3. h.a # "resume"
  OBVIOUS
<1>4. /\ Agree(s1, g1) /\ g1[m].c < Limit /\ Top(Front(s.native)) = t
  BY <1>3, PopKeeps
<1>5. s1.st[t] = p /\ s1.native = Front(s.native) /\ Len(s1.native) = m /\ Top(s1.native) = t
  BY <1>1, <1>2, <1>4
<1>6. p.status = "ok"
  BY DEF Loses
<1>7. Append(Front(s.native), f) = [s.native EXCEPT ![n] = f]
  <2>1. /\ Append(Front(s.native), f) \in Seq(Frames) /\ Len(Append(Front(s.native), f)) = n
        /\ Append(Front(s.native), f)[n] = f
        /\ \A i \in 1..m : Append(Front(s.native), f)[i] = s.native[i]
    BY <1>1, <1>2, AppendIs
  <2>2. /\ [s.native EXCEPT ![n] = f] \in Seq(Frames) /\ Len([s.native EXCEPT ![n] = f]) = n
        /\ \A i \in 1..n : [s.native EXCEPT ![n] = f][i] = IF i = n THEN f ELSE s.native[i]
    BY <1>1, <1>2, ExceptSeq
  <2>3. \A i \in 1..n : i = n \/ i \in 1..m
    BY <1>1
  <2>4. \A i \in 1..m : i # n /\ i \in 1..n
    BY <1>1
  <2> DEFINE a == Append(Front(s.native), f)  b == [s.native EXCEPT ![n] = f]
  <2>5. a \in Seq(Frames) /\ Len(a) = n
    BY <2>1
  <2>6. b \in Seq(Frames) /\ Len(b) = n
    BY <2>2
  <2>7. \A i \in 1..n : a[i] = b[i]
    BY <2>1, <2>2, <2>3, <2>4
  <2> HIDE DEF a, b, n
  <2>8. a = b
    BY <2>5, <2>6, <2>7, SeqEqual
  <2> QED
    BY <2>8 DEF a, b
<1>8. Fits(s1.native, g1, f)
  <2>1. Placed(s.native, n)
    BY <1>1, <1>2 DEF StackInv
  <2>2. /\ Append(Front(s.native), f)[n] = f
        /\ \A i \in 1..m : Append(Front(s.native), f)[i] = s.native[i]
    BY <1>1, <1>2, AppendIs
  <2>3. /\ n > 1 => Append(Front(s.native), f)[n - 1] = s.native[n - 1]
        /\ ThreadAt(Append(Front(s.native), f), n - 1) = ThreadAt(s.native, n - 1)
    <3>1. n = 1 => n - 1 = 0
      OBVIOUS
    <3>4. n \in Nat /\ n >= 1 /\ m = n - 1
      BY <1>1, <1>2
    <3> HIDE DEF n, m
    <3>2. n > 1 => n - 1 \in 1..m /\ n - 1 # 0
      BY <3>4
    <3>3. n = 1 \/ n > 1
      BY <3>4
    <3> QED
      BY <2>2, <3>1, <3>2, <3>3 DEF ThreadAt
  <2>4. Placed(Append(Front(s.native), f), n)
    BY <1>1, <1>2, <2>1, <2>2, <2>3 DEF Placed
  <2> HIDE DEF s1, g1
  <2> QED
    BY <1>1, <1>2, <1>4, <1>5, <2>4 DEF Fits
<1>9. Gains(q, s1.st[Top(s1.native)], f, Len(s1.native) + 1) /\ s1.st[Top(s1.native)].status = "ok"
  BY <1>1, <1>5, <1>6
<1>10. Agree(s2, g2) /\ g2[m + 1].c = g1[m].c + Nested(f)
  <2>1. f.a # "resume"
    OBVIOUS
  <2> HIDE DEF s1, g1
  <2> QED
    BY <1>4, <1>5, <1>8, <1>9, <2>1, PushKeeps
<1>11. s2 = [st |-> [s.st EXCEPT ![t] = q], native |-> [s.native EXCEPT ![n] = f], ctl |-> c]
  <2>1. [[s.st EXCEPT ![t] = p] EXCEPT ![t] = q] = [s.st EXCEPT ![t] = q]
    BY <1>1
  <2> QED
    BY <1>4, <1>7, <2>1
<1>12. g1[m].c \in Nat /\ p.nC = g1[m].c
  <2> HIDE DEF s1, g1
  <2>1. /\ Agree(s1, g1) /\ s1.st[Top(s1.native)].status = "ok"
        /\ s1.st[Top(s1.native)] = p /\ Len(s1.native) = m
    BY <1>4, <1>5, <1>6
  <2> HIDE DEF m
  <2>2. LET x == g1[Len(s1.native)]
        IN  s1.st[Top(s1.native)].nC = x.c /\ x.c \in Nat
    BY <2>1, RunningIs
  <2> QED
    BY <2>1, <2>2
<1>13. g2[n].c = g1[m].c + Nested(f)
  BY <1>1, <1>10
<1>14. g2 = Swapped(s.native, g, f)
  BY DEF Swapped
<1> HIDE DEF g1, g2, s2
<1> QED
  BY <1>4, <1>10, <1>11, <1>12, <1>13, <1>14

\* A lua_State without its last k CallInfos.
LEMMA ShortenedIs ==
    ASSUME NEW r, Sound(r), NEW k \in Nat, k < Len(r.ci)
    PROVE  \E p : /\ Sound(p) /\ p.status = r.status /\ p.nC = r.nC /\ p.baseC = r.baseC
                  /\ p.jmp = r.jmp /\ p.errf = r.errf /\ p.allow = r.allow
                  /\ Len(p.ci) = Len(r.ci) - k /\ SameBelow(p, r, Len(p.ci))
<1> DEFINE n == Len(r.ci)  m == n - k  o == {d \in r.opened : d <= m}
           p == [r EXCEPT !.ci = SubSeq(r.ci, 1, m), !.opened = o]
<1>1. /\ r \in LuaStates /\ r.ci \in Seq(Functs \cup {"base"}) /\ n \in Nat
      /\ r.opened \subseteq Nat /\ r.size \in Nat
  BY StateFields DEF Sound
<1>2. m \in Nat /\ m <= n /\ m >= 1 /\ m \in 0..n
  BY <1>1
<1>3. /\ SubSeq(r.ci, 1, m) \in Seq(Functs \cup {"base"}) /\ Len(SubSeq(r.ci, 1, m)) = m
      /\ \A i \in 1..m : SubSeq(r.ci, 1, m)[i] = r.ci[i]
  BY <1>1, <1>2, CutIs
<1>4. o \in SUBSET Nat
  BY <1>1
<1> HIDE DEF m, o
<1>5. /\ p \in LuaStates /\ p.status = r.status /\ p.nC = r.nC /\ p.baseC = r.baseC
      /\ p.jmp = r.jmp /\ p.errf = r.errf /\ p.allow = r.allow /\ p.ci = SubSeq(r.ci, 1, m)
      /\ p.size = r.size /\ p.opened = o /\ p.vals = r.vals
  BY <1>1, <1>3, <1>4 DEF LuaStates
<1> HIDE DEF p, n
<1>6. /\ n \in 1..r.size /\ r.size <= 2 * MaxCalls
      /\ \A y \in 2..n : r.ci[y] \in Functs
      /\ \A y \in r.opened : y \in 1..n /\ r.ci[y] = "lua"
  BY DEF Sound, n
<1>7. Len(p.ci) = m /\ \A y \in 1..m : p.ci[y] = r.ci[y]
  BY <1>3, <1>5
<1>8. Sound(p)
  <2>1. Len(p.ci) \in 1..p.size /\ p.size <= 2 * MaxCalls
    BY <1>1, <1>2, <1>5, <1>6, <1>7
  <2>2. \A y \in 2..Len(p.ci) : p.ci[y] \in Functs
    BY <1>1, <1>2, <1>6, <1>7
  <2>3. \A y \in p.opened : y \in 1..Len(p.ci) /\ p.ci[y] = "lua"
    BY <1>1, <1>2, <1>5, <1>6, <1>7 DEF o
  <2> QED
    BY <1>5, <2>1, <2>2, <2>3 DEF Sound
<1>9. SameBelow(p, r, Len(p.ci))
  BY <1>2, <1>5, <1>7 DEF SameBelow
<1> QED
  BY <1>5, <1>7, <1>8, <1>9 DEF m, n

\* The lua_State when luaV_execute runs k functions instead of n.
Goes(q, r, n, k) ==
    /\ Sound(q) /\ q.status = "ok" /\ q.nC = r.nC /\ q.baseC = r.baseC
    /\ q.jmp = r.jmp /\ q.errf = r.errf /\ q.allow = r.allow
    /\ Len(q.ci) = Len(r.ci) - n + k
    /\ SameBelow(q, r, Len(r.ci) - n)
    /\ \A y \in (Len(q.ci) - k + 1)..Len(q.ci) : q.ci[y] = "lua"

\* luaV_execute runs another number of functions.
LEMMA ExecKeeps ==
    ASSUME NEW s, NEW g, Agree(s, g), s.native # <<>>, Last(s.native).a = "exec",
           NEW k \in Nat \ {0}, NEW q, Goes(q, s.st[Top(s.native)], Last(s.native).n, k)
    PROVE  InOrder([st |-> [s.st EXCEPT ![Top(s.native)] = q],
                    native |-> [s.native EXCEPT ![Len(s.native)].n = k], ctl |-> "run"])
<1> DEFINE n == Len(s.native)  t == Top(s.native)  r == s.st[t]  h == Last(s.native)
           f == [h EXCEPT !.n = k]
<1>1. /\ h \in Frames /\ h.thread \in Threads /\ h = s.native[n] /\ n \in Nat /\ Sound(r)
      /\ n >= 1 /\ t = h.thread
  BY TopMatches, FrameFields
<1>2. Len(r.ci) >= h.n + 1 /\ h.n \in Nat \ {0} /\ r.status = "ok"
  BY TopRuns
<1>3. /\ r \in LuaStates /\ Len(r.ci) \in Nat /\ r.nC \in Nat /\ r.allow \in BOOLEAN
      /\ s.native \in Seq(Frames)
  BY <1>1, StateFields DEF Sound, Agree, StackInv
<1>4. /\ f \in Frames /\ f.a = "exec" /\ f.thread = h.thread /\ f.n = k
  BY <1>1 DEF Frames
<1>5. [s.native EXCEPT ![n].n = k] = [s.native EXCEPT ![n] = f]
  BY <1>1
<1> HIDE DEF f
<1>6. PICK p : /\ Sound(p) /\ p.status = r.status /\ p.nC = r.nC /\ p.baseC = r.baseC
               /\ p.jmp = r.jmp /\ p.errf = r.errf /\ p.allow = r.allow
               /\ Len(p.ci) = Len(r.ci) - h.n /\ SameBelow(p, r, Len(p.ci))
  <2>1. h.n \in Nat /\ h.n < Len(r.ci)
    BY <1>2, <1>3
  <2> QED
    BY <1>1, <2>1, ShortenedIs
<1>14. /\ Sound(q) /\ q.status = "ok" /\ q.nC = r.nC /\ q.baseC = r.baseC
       /\ q.jmp = r.jmp /\ q.errf = r.errf /\ q.allow = r.allow
       /\ Len(q.ci) = Len(r.ci) - h.n + k /\ SameBelow(q, r, Len(r.ci) - h.n)
       /\ \A y \in (Len(q.ci) - k + 1)..Len(q.ci) : q.ci[y] = "lua"
  BY DEF Goes
<1>7. /\ CallInfos(h) = h.n /\ Nested(h) = 0 /\ ~Protects(h)
      /\ CallInfos(f) = k /\ Nested(f) = 0 /\ ~Protects(f)
  BY <1>4 DEF CallInfos, Nested, Protects
<1>8. Loses(p, r, h)
  <2> HIDE DEF r
  <2> QED
    BY <1>2, <1>3, <1>6, <1>7 DEF Loses
<1>9. Gains(q, p, f, n)
  <2>1. Len(q.ci) = Len(p.ci) + CallInfos(f)
    BY <1>6, <1>7, <1>14
  <2>2. SameBelow(q, p, Len(p.ci))
    BY <1>6, <1>14 DEF SameBelow
  <2>3. f.a = "exec" => \A y \in (Len(q.ci) - f.n + 1)..Len(q.ci) : q.ci[y] = "lua"
    BY <1>4, <1>14
  <2>4. /\ q.status = "ok" /\ q.baseC = p.baseC /\ q.nC = p.nC + Nested(f)
        /\ q.jmp = (IF Protects(f) THEN n ELSE p.jmp)
        /\ q.allow = (f.a # "hook" /\ p.allow)
        /\ q.errf => f.a = "pcall" \/ p.errf
        /\ f.a # "cfun"
    BY <1>3, <1>4, <1>6, <1>7, <1>14
  <2> QED
    BY <1>14, <2>1, <2>2, <2>3, <2>4 DEF Gains
<1> DEFINE s2 == [st |-> [s.st EXCEPT ![t] = q], native |-> [s.native EXCEPT ![n] = f], ctl |-> "run"]
           g2 == Swapped(s.native, g, f)
<1>10. Agree(s2, g2) /\ p.nC \in Nat /\ p.nC < Limit /\ g2[n].c = p.nC + Nested(f)
  <2>1. f.a = h.a /\ f.a \in {"exec", "parser"}
    BY <1>4
  <2>2. r.status = "ok" /\ f \in Frames /\ f.thread = h.thread
    BY <1>2, <1>4
  <2> QED
    BY <1>8, <1>9, <2>1, <2>2, SwapKeeps
<1>11. Len(s2.native) = n /\ s2.ctl = "run"
  <2>1. Len([s.native EXCEPT ![n] = f]) = n
    <3>1. n \in 1..n /\ f \in Frames /\ s.native \in Seq(Frames)
      BY <1>1, <1>3, <1>4
    <3> QED
      BY <3>1, ExceptSeq
  <2> QED
    BY <2>1
<1>12. g2[n].c < Limit
  <2> HIDE DEF g2
  <2> QED
    BY <1>7, <1>10
<1>13. InOrder(s2)
  <2> HIDE DEF s2, g2
  <2> QED
    BY <1>10, <1>11, <1>12, AgreeInOrder
<1> QED
  BY <1>5, <1>13

-----------------------------------------------------------------------------
(* The steps.                                                                *)

\* A step to a state in order.
LEMMA NextInOrder ==
    ASSUME NEW x, InOrder(x), st' = x.st, native' = x.native, ctl' = x.ctl
    PROVE  IInv'
<1>1. x = [st |-> x.st, native |-> x.native, ctl |-> x.ctl]
  BY DEF InOrder, Agree
<1>2. [st |-> st', native |-> native', ctl |-> ctl'] = x
  BY <1>1
<1> QED
  BY <1>2 DEF IInv, State

\* The state, as the lemmas speak of it.
LEMMA Here ==
    ASSUME NEW g, Agree(State, g), native # <<>>
    PROVE  /\ State.st = st /\ State.native = native /\ State.ctl = ctl
           /\ L = Top(native) /\ S = st[L] /\ top = native[Len(native)] /\ top.thread = L
           /\ L \in Threads /\ top \in Frames /\ native \in Seq(Frames)
           /\ Len(native) \in Nat /\ Len(native) >= 1
           /\ Sound(S) /\ S \in LuaStates /\ st \in [Threads -> LuaStates]
           /\ top.a # "resume" => S.status = "ok"
<1>1. State.st = st /\ State.native = native /\ State.ctl = ctl
  BY DEF State
<1> HIDE DEF State
<1>2. /\ Sound(st[Top(native)]) /\ Top(native) \in Threads /\ Len(native) \in Nat
      /\ top = native[Len(native)] /\ top \in Frames /\ Top(native) = top.thread /\ Len(native) >= 1
  BY <1>1, TopMatches DEF top
<1>3. native \in Seq(Frames) /\ st \in [Threads -> LuaStates]
  BY <1>1 DEF Agree, StackInv, StatesInv
<1>4. top.a # "resume" => st[Top(native)].status = "ok"
  BY <1>1, TopRuns DEF top
<1> QED
  BY <1>1, <1>2, <1>3, <1>4 DEF L, S, Sound

\* A function returns: its CallInfo is left, and the upvalues into it are closed.
Popped(r, o) == [r EXCEPT !.ci = Front(r.ci), !.opened = o]
\* What is left of a lua_State whose last function has returned.
LEMMA PoppedIs ==
    ASSUME NEW r, Sound(r), Len(r.ci) >= 2, NEW o, o \subseteq r.opened,
           Len(r.ci) \notin o
    PROVE  LET q == Popped(r, o)
           IN  /\ Sound(q) /\ q.status = r.status /\ q.nC = r.nC /\ q.baseC = r.baseC
               /\ q.jmp = r.jmp /\ q.errf = r.errf /\ q.allow = r.allow
               /\ q.ci = Front(r.ci) /\ Len(q.ci) = Len(r.ci) - 1 /\ Len(r.ci) \in Nat
               /\ \A y \in 1..(Len(r.ci) - 1) : q.ci[y] = r.ci[y]
               /\ SameBelow(q, r, Len(q.ci)) /\ q.vals = r.vals
<1> DEFINE q == Popped(r, o)  n == Len(r.ci)
<1>1. r \in LuaStates /\ r.ci \in Seq(Functs \cup {"base"}) /\ n \in Nat /\ r.ci # <<>>
  BY StateFields, EmptySeq DEF Sound
<1>2. /\ Front(r.ci) \in Seq(Functs \cup {"base"}) /\ Len(Front(r.ci)) = n - 1
      /\ \A i \in 1..(n - 1) : Front(r.ci)[i] = r.ci[i]
  BY <1>1, FrontIs
<1>3. o \in SUBSET Nat
  BY <1>1, StateFields
<1>4. /\ q \in LuaStates /\ q.status = r.status /\ q.nC = r.nC /\ q.baseC = r.baseC
      /\ q.jmp = r.jmp /\ q.errf = r.errf /\ q.allow = r.allow /\ q.ci = Front(r.ci)
      /\ q.size = r.size /\ q.opened = o /\ q.vals = r.vals
  BY <1>1, <1>2, <1>3 DEF LuaStates, Popped
<1> HIDE DEF q, n
<1>5. n >= 2 /\ n \notin o /\ n \in 1..r.size /\ r.size <= 2 * MaxCalls /\ r.size \in Nat
      /\ (\A y \in 2..n : r.ci[y] \in Functs) /\ (\A y \in o : y \in 1..n /\ r.ci[y] = "lua")
  BY <1>1, StateFields DEF Sound, n
<1>6. Sound(q)
  <2>1. Len(q.ci) \in 1..q.size /\ q.size <= 2 * MaxCalls
    BY <1>1, <1>2, <1>4, <1>5
  <2>2. \A y \in 2..Len(q.ci) : q.ci[y] \in Functs
    BY <1>1, <1>2, <1>4, <1>5
  <2>3. \A y \in q.opened : y \in 1..Len(q.ci) /\ q.ci[y] = "lua"
    <3> SUFFICES ASSUME NEW y \in o
                 PROVE  y \in 1..(n - 1) /\ q.ci[y] = "lua"
      BY <1>2, <1>4
    <3>1. y \in 1..n /\ y # n /\ r.ci[y] = "lua"
      BY <1>5
    <3> QED
      BY <1>1, <1>2, <1>4, <3>1
  <2> QED
    BY <1>4, <2>1, <2>2, <2>3 DEF Sound
<1>7. SameBelow(q, r, Len(q.ci))
  BY <1>1, <1>2, <1>4 DEF SameBelow
<1> QED
  BY <1>1, <1>2, <1>4, <1>6, <1>7 DEF q, n

\* Where luaV_execute goes on, or a C frame of the interpreter.
LEMMA LeftIs ==
    ASSUME NEW nat
    PROVE  Left(nat) \in {"run", "ret", "fail", "overfull", "crash"}
  BY DEF Left

\* A Lua function returns to luaV_execute, or luaV_execute itself returns.
LEMMA OpReturnKeeps ==
    ASSUME IInv, OpReturn
    PROVE  IInv'
<1> PICK g : Agree(State, g) /\ g[Len(native)].c < Limit
  BY DEF IInv, InOrder, State
<1> DEFINE n == Len(native)  o == S.opened \ {Depth(L)}
           q == [S EXCEPT !.ci = Front(S.ci), !.opened = o]
<1>1. native # <<>> /\ top.a = "exec" /\ ctl = "run"
  BY DEF OpReturn, Executes
<1>2. /\ State.st = st /\ State.native = native /\ State.ctl = ctl
      /\ L = Top(native) /\ S = st[L] /\ top = native[n] /\ top.thread = L
      /\ L \in Threads /\ top \in Frames /\ native \in Seq(Frames)
      /\ n \in Nat /\ n >= 1
      /\ Sound(S) /\ S \in LuaStates /\ st \in [Threads -> LuaStates]
      /\ S.status = "ok" /\ top = Last(native)
  BY <1>1, Here DEF top
<1>3. /\ Len(S.ci) >= top.n + 1 /\ top.n \in Nat \ {0}
      /\ \A y \in (Len(S.ci) - top.n + 1)..Len(S.ci) : S.ci[y] = "lua"
  BY <1>1, <1>2, TopRuns
<1>4. st' = [st EXCEPT ![L] = q]
  BY <1>2 DEF OpReturn, Depth
<1>5. Len(S.ci) \in Nat /\ S.ci \in Seq(Functs \cup {"base"})
  BY <1>2, StateFields
<1>6. /\ Sound(q) /\ q.status = S.status /\ q.nC = S.nC /\ q.baseC = S.baseC
      /\ q.jmp = S.jmp /\ q.errf = S.errf /\ q.allow = S.allow
      /\ q.ci = Front(S.ci) /\ Len(q.ci) = Len(S.ci) - 1
      /\ \A y \in 1..(Len(S.ci) - 1) : q.ci[y] = S.ci[y]
      /\ SameBelow(q, S, Len(q.ci))
  <2>1. Len(S.ci) >= 2 /\ o \subseteq S.opened /\ Len(S.ci) \notin o
    BY <1>2, <1>3, <1>5 DEF Depth
  <2>2. Sound(S)
    BY <1>2
  <2>3. q = Popped(S, o)
    BY DEF Popped
  <2> HIDE DEF o, q, S
  <2>4. LET w == Popped(S, o)
        IN  /\ Sound(w) /\ w.status = S.status /\ w.nC = S.nC /\ w.baseC = S.baseC
            /\ w.jmp = S.jmp /\ w.errf = S.errf /\ w.allow = S.allow
            /\ w.ci = Front(S.ci) /\ Len(w.ci) = Len(S.ci) - 1
            /\ \A y \in 1..(Len(S.ci) - 1) : w.ci[y] = S.ci[y]
            /\ SameBelow(w, S, Len(w.ci))
    BY <2>1, <2>2, PoppedIs
  <2> QED
    BY <2>3, <2>4
<1> HIDE DEF q, o, State
<1>7. CallInfos(top) = top.n /\ Nested(top) = 0 /\ ~Protects(top) /\ S.nC \in Nat
      /\ S.allow \in BOOLEAN
  BY <1>1, <1>2, StateFields DEF CallInfos, Nested, Protects
<1>8. CASE top.n = 1
  <2>1. Loses(q, S, top)
    BY <1>1, <1>2, <1>5, <1>6, <1>7, <1>8 DEF Loses
  <2> DEFINE c == Left(Front(native))
             s2 == [st |-> [st EXCEPT ![L] = q], native |-> Front(native), ctl |-> c]
  <2>2. Agree(s2, Below(g, n - 1)) /\ Len(Front(native)) = n - 1 /\ Below(g, n - 1)[n - 1].c < Limit
    BY <1>1, <1>2, <2>1, PopKeeps
  <2>3. st' = s2.st /\ native' = s2.native /\ ctl' = s2.ctl
    BY <1>4, <1>8 DEF OpReturn
  <2>4. InOrder(s2)
    BY <2>2, LeftIs, AgreeInOrder
  <2> HIDE DEF s2
  <2> QED
    BY <2>3, <2>4, NextInOrder
<1>9. CASE top.n # 1
  <2> DEFINE k == top.n - 1
             s2 == [st |-> [st EXCEPT ![L] = q], native |-> [native EXCEPT ![n].n = k], ctl |-> "run"]
  <2>1. k \in Nat \ {0}
    BY <1>3, <1>9
  <2>2. Goes(q, S, top.n, k)
    <3>4. Len(q.ci) = Len(S.ci) - 1 /\ top.n \in Nat /\ Len(S.ci) \in Nat
      BY <1>3, <1>5, <1>6
    <3>1. Len(q.ci) = Len(S.ci) - top.n + k /\ Len(q.ci) - k + 1 = Len(S.ci) - top.n + 1
      <4>1. \A x, y \in Nat : x - 1 = x - y + (y - 1) /\ x - 1 - (y - 1) + 1 = x - y + 1
        OBVIOUS
      <4> QED
        BY <3>4, <4>1
    <3>2. SameBelow(q, S, Len(S.ci) - top.n)
      BY <1>3, <1>5, <1>6 DEF SameBelow
    <3>3. \A y \in (Len(S.ci) - top.n + 1)..(Len(S.ci) - 1) : q.ci[y] = S.ci[y] /\ S.ci[y] = "lua"
      BY <1>3, <1>5, <1>6
    <3>5. \A y \in (Len(q.ci) - k + 1)..Len(q.ci) : q.ci[y] = "lua"
      BY <3>1, <3>3, <3>4
    <3> QED
      BY <1>2, <1>6, <3>1, <3>2, <3>5 DEF Goes
  <2>3. InOrder(s2)
    <3> HIDE DEF k
    <3> QED
      BY <1>1, <1>2, <2>1, <2>2, ExecKeeps
  <2>4. st' = s2.st /\ native' = s2.native /\ ctl' = s2.ctl
    BY <1>1, <1>2, <1>4, <1>9 DEF OpReturn
  <2> HIDE DEF s2
  <2> QED
    BY <2>3, <2>4, NextInOrder
<1> QED
  BY <1>8, <1>9

\* A thread runs, and the limit on nested C calls is not reached.
Ready(s, g) ==
    /\ Agree(s, g) /\ s.native # <<>> /\ s.st[Top(s.native)].status = "ok"
    /\ g[Len(s.native)].c < Limit

\* A step to a state in order is one that keeps the order.
LEMMA BecomesKeeps ==
    ASSUME NEW x, InOrder(x), Becomes(x)
    PROVE  IInv'
  BY NextInOrder DEF Becomes

\* The state before a step of a frame that is not of lua_resume.
LEMMA ReadyNow ==
    ASSUME IInv, native # <<>>, top.a # "resume"
    PROVE  /\ \E g : Ready(State, g)
           /\ State.st = st /\ State.native = native /\ State.ctl = ctl
           /\ L = Top(native) /\ S = st[L] /\ top = native[Len(native)] /\ top.thread = L
           /\ top = Last(native)
           /\ L \in Threads /\ top \in Frames /\ native \in Seq(Frames)
           /\ Len(native) \in Nat /\ Len(native) >= 1
           /\ Sound(S) /\ S \in LuaStates /\ st \in [Threads -> LuaStates]
           /\ S.status = "ok" /\ Depth(L) = Len(S.ci)
           /\ ctl \in {"run", "ret", "fail", "overfull", "crash"}
<1>0. ctl \in {"run", "ret", "fail", "overfull", "crash"}
  BY DEF IInv, InOrder, State
<1>1. PICK g : Agree(State, g) /\ g[Len(native)].c < Limit
  BY DEF IInv, InOrder, State
<1>2. /\ State.st = st /\ State.native = native /\ State.ctl = ctl
      /\ L = Top(native) /\ S = st[L] /\ top = native[Len(native)] /\ top.thread = L
      /\ L \in Threads /\ top \in Frames /\ native \in Seq(Frames)
      /\ Len(native) \in Nat /\ Len(native) >= 1
      /\ Sound(S) /\ S \in LuaStates /\ st \in [Threads -> LuaStates]
      /\ S.status = "ok"
  BY <1>1, Here
<1>3. State.native # <<>> /\ State.st[Top(State.native)].status = "ok"
  BY <1>2
<1>4. Ready(State, g)
  BY <1>1, <1>2, <1>3 DEF Ready
<1> QED
  BY <1>0, <1>2, <1>4 DEF top, Depth

\* The instruction OP_CALL: of a Lua function in the same luaV_execute, or of a C function.
LEMMA OpCallKeeps ==
    ASSUME IInv, NEW f \in Functs, OpCall(f)
    PROVE  IInv'
<1>1. native # <<>> /\ top.a = "exec" /\ ctl = "run"
  BY DEF OpCall, Executes
<1>2. PICK g : Ready(State, g)
  BY <1>1, ReadyNow
<1>3. /\ State.st = st /\ State.native = native
      /\ L = Top(native) /\ S = st[L] /\ top = Last(native) /\ L \in Threads
      /\ Sound(S) /\ S.status = "ok" /\ native # <<>> /\ Len(native) \in Nat
  BY <1>1, ReadyNow
<1> HIDE DEF State
<1> DEFINE nat == IF f = "lua" THEN [native EXCEPT ![Len(native)].n = @ + 1]
                  ELSE Append(native, CFrame(L, f))
           e == Enter(State, f, nat)
<1>4. Becomes(e)
  BY DEF OpCall
<1>5. ASSUME NEW q, Sound(q), Entered(q, S, f),
             e = [st |-> [st EXCEPT ![L] = q], native |-> nat, ctl |-> "run"]
      PROVE  InOrder(e)
  <2>1. CASE f = "lua"
    <3>1. /\ Len(S.ci) >= top.n + 1 /\ top.n \in Nat \ {0}
          /\ \A y \in (Len(S.ci) - top.n + 1)..Len(S.ci) : S.ci[y] = "lua"
      BY <1>1, <1>2, <1>3, TopRuns DEF Ready
    <3>2. S.ci \in Seq(Functs \cup {"base"}) /\ Len(S.ci) \in Nat /\ q.ci = Append(S.ci, f)
          /\ q.vals = S.vals
      BY <1>3, <1>5, StateFields DEF Sound, Entered
    <3>3. /\ Len(q.ci) = Len(S.ci) + 1 /\ q.ci[Len(S.ci) + 1] = "lua"
          /\ \A y \in 1..Len(S.ci) : q.ci[y] = S.ci[y]
      BY <2>1, <3>2, AppendIs
    <3> DEFINE k == top.n + 1
    <3>4. Goes(q, S, top.n, k)
      <4>1. Len(q.ci) = Len(S.ci) - top.n + k /\ Len(q.ci) - k + 1 = Len(S.ci) - top.n + 1
        <5>1. \A x, y \in Nat : x + 1 = x - y + (y + 1) /\ x + 1 - (y + 1) + 1 = x - y + 1
          OBVIOUS
        <5>2. Len(q.ci) = Len(S.ci) + 1 /\ top.n \in Nat /\ Len(S.ci) \in Nat
          BY <3>1, <3>2, <3>3
        <5> QED
          BY <5>1, <5>2
      <4>2. SameBelow(q, S, Len(S.ci) - top.n)
        BY <3>1, <3>2, <3>3 DEF SameBelow
      <4>3. \A y \in (Len(S.ci) - top.n + 1)..(Len(S.ci) + 1) : q.ci[y] = "lua"
        <5> SUFFICES ASSUME NEW y \in (Len(S.ci) - top.n + 1)..(Len(S.ci) + 1)
                     PROVE  q.ci[y] = "lua"
          OBVIOUS
        <5>1. CASE y = Len(S.ci) + 1
          BY <3>3, <5>1
        <5>2. CASE y # Len(S.ci) + 1
          <6>1. y \in (Len(S.ci) - top.n + 1)..Len(S.ci) /\ y \in 1..Len(S.ci)
            BY <3>1, <3>2, <5>2
          <6> QED
            BY <3>1, <3>3, <6>1
        <5> QED
          BY <5>1, <5>2
      <4>4. \A y \in (Len(q.ci) - k + 1)..Len(q.ci) : q.ci[y] = "lua"
        BY <3>3, <4>1, <4>3
      <4> QED
        BY <1>3, <1>5, <4>1, <4>2, <4>4 DEF Goes, Entered
    <3>5. k \in Nat \ {0}
      BY <3>1
    <3>6. InOrder([st |-> [st EXCEPT ![L] = q], native |-> [native EXCEPT ![Len(native)].n = k],
                   ctl |-> "run"])
      <4> HIDE DEF k
      <4>1. Goes(q, State.st[Top(State.native)], Last(State.native).n, k)
        BY <1>3, <3>4
      <4>2. InOrder([st |-> [State.st EXCEPT ![Top(State.native)] = q],
                     native |-> [State.native EXCEPT ![Len(State.native)].n = k], ctl |-> "run"])
        BY <1>1, <1>2, <1>3, <3>5, <4>1, ExecKeeps DEF Ready
      <4> QED
        BY <1>3, <4>2
    <3>7. nat = [native EXCEPT ![Len(native)].n = k]
      BY <1>1, <1>3, <2>1 DEF top, Last
    <3> QED
      BY <1>5, <3>6, <3>7
  <2>2. CASE f # "lua"
    <3>1. Body(Top(State.native), f) = CFrame(L, f)
      BY <1>3, <2>2 DEF Body
    <3>2. nat = Append(State.native, Body(Top(State.native), f))
      BY <1>3, <2>2, <3>1
    <3>3. Last(State.native).a = "exec" /\ Entered(q, State.st[Top(State.native)], f)
      BY <1>1, <1>3, <1>5
    <3>5. Len(q.ci) # 2
      <4>1. Len(S.ci) >= top.n + 1 /\ top.n \in Nat \ {0}
        BY <1>1, <1>2, <1>3, TopRuns DEF Ready
      <4>2. S.ci \in Seq(Functs \cup {"base"}) /\ Len(S.ci) \in Nat /\ q.ci = Append(S.ci, f)
        BY <1>3, <1>5, StateFields DEF Sound, Entered
      <4>3. Len(q.ci) = Len(S.ci) + 1
        BY <4>2, AppendIs
      <4> QED
        BY <4>1, <4>2, <4>3
    <3>4. InOrder([st |-> [State.st EXCEPT ![Top(State.native)] = q],
                   native |-> Append(State.native, Body(Top(State.native), f)), ctl |-> "run"])
      BY <1>2, <1>5, <2>2, <3>3, <3>5, BodyKeeps DEF Ready
    <3> HIDE DEF nat
    <3> QED
      BY <1>3, <1>5, <3>2, <3>4
  <2> QED
    BY <2>1, <2>2
<1>6. InOrder(e)
  <2> HIDE DEF nat
  <2>1. \/ InOrder(Enter(State, f, nat))
        \/ \E q : /\ Sound(q) /\ Entered(q, State.st[Top(State.native)], f)
                  /\ Enter(State, f, nat) = [st |-> [State.st EXCEPT ![Top(State.native)] = q],
                                             native |-> nat, ctl |-> "run"]
    BY <1>2, EnterCases DEF Ready
  <2> QED
    BY <1>3, <1>5, <2>1
<1> HIDE DEF e
<1> QED
  BY <1>4, <1>6, BecomesKeeps

\* An instruction calls a metamethod.
LEMMA CallTMKeeps ==
    ASSUME IInv, NEW f \in Functs, CallTM(f)
    PROVE  IInv'
<1>1. native # <<>> /\ top.a # "resume" /\ Becomes(Call(State, f))
  BY DEF CallTM, Executes
<1>2. PICK g : Ready(State, g)
  BY <1>1, ReadyNow
<1>3. InOrder(Call(State, f))
  BY <1>2, CallKeeps DEF Ready
<1> QED
  BY <1>1, <1>3, BecomesKeeps

\* An error of the program: with a handler it is called, else the stack is cut.
LEMMA RaiseErrorKeeps ==
    ASSUME IInv, RaiseError
    PROVE  IInv'
<1>1. native # <<>> /\ top.a # "resume" /\ Becomes(RunError(State))
  BY DEF RaiseError
<1>2. PICK g : Ready(State, g)
  BY <1>1, ReadyNow
<1>3. InOrder(RunError(State))
  BY <1>2, RunErrorKeeps DEF Ready
<1> QED
  BY <1>1, <1>3, BecomesKeeps

\* At the limit or below it, an error without a handler keeps the order.
LEMMA ReadyThrow ==
    ASSUME NEW s, NEW g, Ready(s, g)
    PROVE  InOrder(Throw(s))
<1>1. g[Len(s.native)].c \in Nat /\ Limit \in Nat
  BY RunningIs, Limits DEF Ready, Limit
<1>2. g[Len(s.native)].c <= Limit
  BY <1>1 DEF Ready
<1> QED
  BY <1>2, ThrowKeeps DEF Ready

\* An error that no handler hears of cuts the stack.
LEMMA MemoryErrorKeeps ==
    ASSUME IInv, MemoryError
    PROVE  IInv'
<1>1. native # <<>> /\ top.a # "resume" /\ Becomes(Throw(State))
  BY DEF MemoryError
<1>2. PICK g : Ready(State, g)
  BY <1>1, ReadyNow
<1>3. InOrder(Throw(State))
  BY <1>2, ReadyThrow
<1> QED
  BY <1>1, <1>3, BecomesKeeps

\* The message handler has returned, and the error is thrown.
LEMMA HandlerReturnsKeeps ==
    ASSUME IInv, HandlerReturns
    PROVE  IInv'
<1>1. native # <<>> /\ top.a # "resume" /\ Becomes(Throw(State))
  BY DEF HandlerReturns, Returned
<1>2. PICK g : Ready(State, g)
  BY <1>1, ReadyNow
<1>3. InOrder(Throw(State))
  BY <1>2, ReadyThrow
<1> QED
  BY <1>1, <1>3, BecomesKeeps

\* luaG_errormsg calls the message handler.
LEMMA CallHandlerKeeps ==
    ASSUME IInv, NEW f \in Functs, CallHandler(f)
    PROVE  IInv'
<1>1. native # <<>> /\ top.a # "resume" /\ Becomes(Call(State, f))
  BY DEF CallHandler
<1>2. PICK g : Ready(State, g)
  BY <1>1, ReadyNow
<1>3. InOrder(Call(State, f))
  BY <1>2, CallKeeps DEF Ready
<1> QED
  BY <1>1, <1>3, BecomesKeeps

\* The running thread stays at its frame, and has as many CallInfos as before.
LEMMA SameKeeps ==
    ASSUME NEW s, NEW g, Ready(s, g), NEW q, Sound(q),
           LET r == s.st[Top(s.native)]
           IN  /\ q.status = "ok" /\ q.nC = r.nC /\ q.baseC = r.baseC /\ q.jmp = r.jmp
               /\ q.errf = r.errf /\ q.allow = r.allow
               /\ Len(q.ci) = Len(r.ci) /\ SameBelow(q, r, Len(r.ci)),
           NEW c \in {"run", "ret", "fail", "overfull", "crash"}
    PROVE  InOrder([st |-> [s.st EXCEPT ![Top(s.native)] = q], native |-> s.native, ctl |-> c])
<1> DEFINE r == s.st[Top(s.native)]  x == g[Len(s.native)]
           s2 == [st |-> [s.st EXCEPT ![Top(s.native)] = q], native |-> s.native, ctl |-> c]
<1>1. /\ r.nC = x.c /\ r.baseC = x.b /\ r.jmp = x.j /\ Len(r.ci) = x.d + 1
      /\ r.allow <=> x.h = 0
      /\ r.errf => x.p > 0
  BY RunningIs DEF Ready
<1>2. Matches(q, Yields(s.native, Len(s.native)), x) /\ SameBelow(q, r, x.d + 1)
  BY <1>1 DEF Matches
<1>3. Agree(s2, g)
  BY <1>2, TouchAgrees DEF Ready
<1>4. s2.native = s.native /\ s2.ctl = c
  OBVIOUS
<1> HIDE DEF s2
<1>5. InOrder(s2)
  BY <1>3, <1>4, AgreeInOrder DEF Ready
<1> QED
  BY <1>5 DEF s2

\* The running thread gets a frame that makes no nested C call.
LEMMA PlainKeeps ==
    ASSUME NEW s, NEW g, Ready(s, g), NEW f \in Frames, f.thread = Top(s.native), Nested(f) = 0,
           f.a \in {"call", "hook", "pcall", "errormsg", "parser"},
           f.a = "pcall" => Saved(f, g[Len(s.native)]),
           f.a = "hook" => g[Len(s.native)].h = 0,
           NEW q, Gains(q, s.st[Top(s.native)], f, Len(s.native) + 1), NEW c
    PROVE  Ready([st |-> [s.st EXCEPT ![Top(s.native)] = q], native |-> Append(s.native, f),
                  ctl |-> c], Pushed(s.native, g, f))
<1> DEFINE n == Len(s.native)  t == Top(s.native)  g2 == Pushed(s.native, g, f)
           s2 == [st |-> [s.st EXCEPT ![t] = q], native |-> Append(s.native, f), ctl |-> c]
<1>1. /\ StackInv(s.native, g) /\ t \in Threads /\ n \in Nat /\ g[n].c \in Nat
      /\ s.st \in [Threads -> LuaStates] /\ g[n].c < Limit
  BY RunningIs DEF Ready
<1>2. Fits(s.native, g, f)
  <2>1. Placed(Append(s.native, f), Len(s.native) + 1)
    BY <1>1, PlacedOnTop DEF Ready
  <2> QED
    BY <1>1, <2>1 DEF Fits
<1>3. Agree(s2, g2) /\ g2[n + 1].c = g[n].c + Nested(f)
  <2>1. f.a # "resume"
    OBVIOUS
  <2> QED
    BY <1>2, <2>1, PushKeeps DEF Ready
<1>4. /\ s2.native # <<>> /\ Top(s2.native) = t /\ s2.st[t] = q /\ Len(s2.native) = n + 1
      /\ q.status = "ok"
  BY <1>1, PushedLast DEF Gains
<1>5. g2[n + 1].c < Limit
  <2> HIDE DEF g2
  <2> QED
    BY <1>1, <1>3
<1> HIDE DEF s2, g2
<1>6. Ready(s2, g2)
  BY <1>3, <1>4, <1>5 DEF Ready
<1> QED
  BY <1>6 DEF s2, g2

\* A tail call takes the place of its caller.
LEMMA OpTailCallKeeps ==
    ASSUME IInv, OpTailCall
    PROVE  IInv'
<1>1. native # <<>> /\ top.a = "exec" /\ top.a # "resume"
  BY DEF OpTailCall, Executes
<1>2. PICK g : Ready(State, g)
  BY <1>1, ReadyNow
<1>3. /\ State.st = st /\ State.native = native /\ L = Top(native) /\ S = st[L] /\ L \in Threads
      /\ Sound(S) /\ S \in LuaStates /\ S.status = "ok" /\ Depth(L) = Len(S.ci) /\ native # <<>>
      /\ st \in [Threads -> LuaStates]
  BY <1>1, ReadyNow
<1> HIDE DEF State
<1> DEFINE e == Enter(State, "lua", native)
           x == [e EXCEPT !.st[L].ci = Front(@), !.st[L].opened = @ \ {Depth(L)}]
<1>4. Becomes(IF e.native = native THEN x ELSE e)
  BY DEF OpTailCall
<1>5. CASE InOrder(e) /\ Len(e.native) # Len(native)
  <2>1. e.native # native
    BY <1>5
  <2> HIDE DEF e, x
  <2>2. Becomes(e)
    BY <1>4, <2>1
  <2> QED
    BY <1>5, <2>2, BecomesKeeps
<1>6. ASSUME NEW q, Sound(q), Entered(q, S, "lua"),
             e = [st |-> [st EXCEPT ![L] = q], native |-> native, ctl |-> "run"]
      PROVE  IInv'
  <2> DEFINE o == q.opened \ {Depth(L)}
             p == [q EXCEPT !.ci = Front(q.ci), !.opened = o]
             n == Len(S.ci)
  <2>1. /\ q \in LuaStates /\ S.ci \in Seq(Functs \cup {"base"}) /\ n \in Nat /\ n >= 1
        /\ q.ci = Append(S.ci, "lua") /\ q.opened = S.opened /\ \A y \in S.opened : y \in 1..n
    BY <1>3, <1>6, StateFields DEF Sound, Entered
  <2>2. Len(q.ci) = n + 1 /\ \A y \in 1..n : q.ci[y] = S.ci[y]
    <3>1. "lua" \in Functs \cup {"base"}
      BY DEF Functs, LuaFunctions
    <3> QED
      BY <2>1, <3>1, AppendIs
  <2>3. /\ Sound(p) /\ p.status = q.status /\ p.nC = q.nC /\ p.baseC = q.baseC
        /\ p.jmp = q.jmp /\ p.errf = q.errf /\ p.allow = q.allow
        /\ Len(p.ci) = Len(q.ci) - 1 /\ \A y \in 1..(Len(q.ci) - 1) : p.ci[y] = q.ci[y]
        /\ p.vals = q.vals
    <3>1. Len(q.ci) >= 2 /\ o \subseteq q.opened /\ Len(q.ci) \notin o
      BY <1>3, <2>1, <2>2
    <3>2. p = Popped(q, o)
      BY DEF Popped
    <3> HIDE DEF o, p
    <3>3. LET w == Popped(q, o)
          IN  /\ Sound(w) /\ w.status = q.status /\ w.nC = q.nC /\ w.baseC = q.baseC
              /\ w.jmp = q.jmp /\ w.errf = q.errf /\ w.allow = q.allow
              /\ Len(w.ci) = Len(q.ci) - 1 /\ \A y \in 1..(Len(q.ci) - 1) : w.ci[y] = q.ci[y]
              /\ w.vals = q.vals
      BY <1>6, <3>1, PoppedIs
    <3> QED
      BY <3>2, <3>3
  <2>4. x = [st |-> [st EXCEPT ![L] = p], native |-> native, ctl |-> "run"]
    <3>1. x = [st |-> [[st EXCEPT ![L] = q] EXCEPT ![L] = p], native |-> native, ctl |-> "run"]
      <4>1. [e EXCEPT !.st[L].ci = Front(@), !.st[L].opened = @ \ {Depth(L)}] = x
            /\ [q EXCEPT !.ci = Front(@), !.opened = @ \ {Depth(L)}] = p
            /\ [st EXCEPT ![L] = q][L] = q
        BY <1>3
      <4> HIDE DEF x, p, e
      <4> QED
        BY <1>6, <4>1
    <3> HIDE DEF x, p
    <3> QED
      BY <1>3, <3>1
  <2> HIDE DEF p, x
  <2>5. Len(p.ci) = Len(S.ci) /\ SameBelow(p, S, Len(S.ci))
    BY <1>6, <2>1, <2>2, <2>3 DEF SameBelow, Entered
  <2>6. /\ p.status = "ok" /\ p.nC = S.nC /\ p.baseC = S.baseC /\ p.jmp = S.jmp
        /\ p.errf = S.errf /\ p.allow = S.allow
    BY <1>3, <1>6, <2>3 DEF Entered
  <2>7. InOrder([st |-> [State.st EXCEPT ![Top(State.native)] = p], native |-> State.native,
                 ctl |-> "run"])
    BY <1>2, <1>3, <2>3, <2>5, <2>6, SameKeeps
  <2>8. e.native = native
    BY <1>6
  <2>9. Becomes(x)
    <3> HIDE DEF e
    <3> QED
      BY <1>4, <2>8
  <2> QED
    BY <1>3, <2>4, <2>7, <2>9, BecomesKeeps
<1>7. \/ InOrder(e) /\ Len(e.native) # Len(native)
      \/ \E q : /\ Sound(q) /\ Entered(q, S, "lua")
                /\ e = [st |-> [st EXCEPT ![L] = q], native |-> native, ctl |-> "run"]
  <2>1. "lua" \in Functs
    BY DEF Functs, LuaFunctions
  <2>2. \/ InOrder(Enter(State, "lua", native))
           /\ Len(Enter(State, "lua", native).native) # Len(State.native)
        \/ \E q : /\ Sound(q) /\ Entered(q, State.st[Top(State.native)], "lua")
                  /\ Enter(State, "lua", native) = [st |-> [State.st EXCEPT ![Top(State.native)] = q],
                                                    native |-> native, ctl |-> "run"]
    BY <1>2, <2>1, EnterCases DEF Ready
  <2> QED
    BY <1>3, <2>2
<1> QED
  BY <1>5, <1>6, <1>7

\* A closure over a local of the running function.
LEMMA OpClosureKeeps ==
    ASSUME IInv, OpClosure
    PROVE  IInv'
<1>1. native # <<>> /\ top.a = "exec" /\ top.a # "resume" /\ ctl = "run"
  BY DEF OpClosure, Executes
<1>2. PICK g : Ready(State, g)
  BY <1>1, ReadyNow
<1>3. /\ State.st = st /\ State.native = native /\ L = Top(native) /\ S = st[L] /\ L \in Threads
      /\ Sound(S) /\ S \in LuaStates /\ S.status = "ok" /\ Depth(L) = Len(S.ci) /\ native # <<>>
      /\ st \in [Threads -> LuaStates] /\ top = Last(native)
  BY <1>1, ReadyNow
<1> HIDE DEF State
<1> DEFINE q == [S EXCEPT !.opened = @ \cup {Depth(L)}]  n == Len(S.ci)
           s2 == [st |-> [st EXCEPT ![L] = q], native |-> native, ctl |-> "run"]
<1>4. st' = s2.st /\ native' = s2.native /\ ctl' = s2.ctl
  BY <1>1, <1>3 DEF OpClosure
<1>5. n \in Nat /\ n >= 2 /\ S.ci[n] = "lua" /\ S.opened \subseteq Nat
  <2>1. /\ Len(S.ci) >= top.n + 1 /\ top.n \in Nat \ {0}
        /\ \A y \in (Len(S.ci) - top.n + 1)..Len(S.ci) : S.ci[y] = "lua"
    BY <1>1, <1>2, <1>3, TopRuns DEF Ready
  <2>2. n \in Nat /\ S.opened \subseteq Nat
    BY <1>3, StateFields
  <2> QED
    BY <2>1, <2>2
<1>6. S.opened \cup {n} \in SUBSET Nat
  BY <1>5
<1>7. /\ q \in LuaStates /\ q.status = "ok" /\ q.nC = S.nC /\ q.baseC = S.baseC /\ q.jmp = S.jmp
      /\ q.errf = S.errf /\ q.allow = S.allow /\ q.ci = S.ci /\ q.size = S.size
      /\ q.opened = S.opened \cup {n} /\ q.vals = S.vals
  <2> DEFINE o == S.opened \cup {n}
  <2>1. S \in LuaStates /\ S.status = "ok" /\ o \in SUBSET Nat /\ Depth(L) = n
    BY <1>3, <1>6
  <2>2. q = [S EXCEPT !.opened = o]
    BY <2>1
  <2> HIDE DEF o, S, n, q
  <2>3. LET w == [S EXCEPT !.opened = o]
        IN  /\ w \in LuaStates /\ w.status = "ok" /\ w.nC = S.nC /\ w.baseC = S.baseC
            /\ w.jmp = S.jmp /\ w.errf = S.errf /\ w.allow = S.allow /\ w.ci = S.ci
            /\ w.size = S.size /\ w.opened = o /\ w.vals = S.vals
    BY <2>1 DEF LuaStates
  <2> QED
    BY <2>2, <2>3 DEF o
<1> HIDE DEF q
<1>8. Sound(q)
  BY <1>3, <1>5, <1>7 DEF Sound
<1>9. SameBelow(q, S, Len(S.ci))
  BY <1>7 DEF SameBelow
<1>10. InOrder([st |-> [State.st EXCEPT ![Top(State.native)] = q], native |-> State.native, ctl |-> "run"])
  BY <1>2, <1>3, <1>7, <1>8, <1>9, SameKeeps
<1> QED
  BY <1>3, <1>4, <1>10, NextInOrder

\* The hook is called, and is off meanwhile.
LEMMA CallHookKeeps ==
    ASSUME IInv, CallHook
    PROVE  IInv'
<1>1. native # <<>> /\ top.a = "exec" /\ top.a # "resume" /\ S.allow
  BY DEF CallHook, Executes
<1>2. PICK g : Ready(State, g)
  BY <1>1, ReadyNow
<1>3. /\ State.st = st /\ State.native = native /\ L = Top(native) /\ S = st[L] /\ L \in Threads
      /\ Sound(S) /\ S \in LuaStates /\ S.status = "ok" /\ native # <<>>
      /\ st \in [Threads -> LuaStates] /\ top = Last(native)
      /\ State = [st |-> st, native |-> native, ctl |-> ctl]
  BY <1>1, ReadyNow DEF State
<1> DEFINE b == Frame("hook", L)  q == [S EXCEPT !.allow = FALSE]
           x == [State EXCEPT !.st[L].allow = FALSE, !.native = Append(@, Frame("hook", L))]
           s2 == [st |-> [st EXCEPT ![L] = q], native |-> Append(native, b), ctl |-> ctl]
<1>4. Becomes(Call(x, "lua"))
  BY DEF CallHook
<1> HIDE DEF State
<1>5. x = s2
  <2>1. [State EXCEPT !.st[L].allow = FALSE, !.native = Append(@, Frame("hook", L))] = x
        /\ [S EXCEPT !.allow = FALSE] = q /\ Frame("hook", L) = b
    OBVIOUS
  <2>2. State = [st |-> st, native |-> native, ctl |-> ctl] /\ S = st[L]
    BY <1>3
  <2> HIDE DEF x, q, b
  <2> QED
    BY <2>1, <2>2
<1>6. b \in Frames /\ b.a = "hook" /\ b.thread = Top(native)
  BY <1>3 DEF Frame, Frames
<1>7. /\ q \in LuaStates /\ q.status = "ok" /\ q.nC = S.nC /\ q.baseC = S.baseC /\ q.jmp = S.jmp
      /\ q.errf = S.errf /\ q.allow = FALSE /\ q.ci = S.ci /\ q.size = S.size
      /\ q.opened = S.opened /\ q.vals = S.vals /\ S.nC \in Nat /\ Len(S.ci) \in Nat
  <2>1. S \in LuaStates /\ S.status = "ok"
    BY <1>3
  <2> HIDE DEF S
  <2>2. S.nC \in Nat /\ Len(S.ci) \in Nat
    BY <2>1, StateFields
  <2>3. q \in LuaStates
    BY <2>1 DEF LuaStates
  <2>4. /\ q.status = "ok" /\ q.nC = S.nC /\ q.baseC = S.baseC /\ q.jmp = S.jmp
        /\ q.errf = S.errf /\ q.allow = FALSE /\ q.ci = S.ci /\ q.size = S.size
        /\ q.opened = S.opened /\ q.vals = S.vals
    BY <2>1 DEF LuaStates
  <2> QED
    BY <2>2, <2>3, <2>4
<1>8. g[Len(native)].h = 0
  BY <1>1, <1>2, <1>3, RunningIs DEF Ready
<1> HIDE DEF b, q, x
<1>9. Gains(q, S, b, Len(native) + 1)
  <2>1. Sound(q) /\ SameBelow(q, S, Len(S.ci))
    BY <1>3, <1>7, SoundIs
  <2>2. Nested(b) = 0 /\ CallInfos(b) = 0 /\ ~Protects(b)
    BY <1>6 DEF Nested, CallInfos, Protects
  <2>3. q.allow = (b.a # "hook" /\ S.allow)
    BY <1>6, <1>7
  <2>4. /\ Len(q.ci) = Len(S.ci) + CallInfos(b) /\ q.nC = S.nC + Nested(b)
        /\ q.jmp = (IF Protects(b) THEN Len(native) + 1 ELSE S.jmp)
        /\ q.errf => b.a = "pcall" \/ S.errf
    BY <1>6, <1>7, <2>2
  <2> QED
    BY <1>6, <1>7, <2>1, <2>3, <2>4 DEF Gains
<1>10. Ready(s2, Pushed(native, g, b))
  <2>1. Nested(b) = 0 /\ b.a \in {"call", "hook", "pcall", "errormsg", "parser"}
    BY <1>6 DEF Nested
  <2>2. Ready([st |-> [State.st EXCEPT ![Top(State.native)] = q], native |-> Append(State.native, b),
               ctl |-> ctl], Pushed(State.native, g, b))
    BY <1>2, <1>3, <1>6, <1>8, <1>9, <2>1, PlainKeeps
  <2> QED
    BY <1>3, <2>2
<1>11. InOrder(Call(s2, "lua"))
  <2>1. "lua" \in Functs
    BY DEF Functs, LuaFunctions
  <2> HIDE DEF s2
  <2> QED
    BY <1>10, <2>1, CallKeeps DEF Ready
<1> QED
  BY <1>4, <1>5, <1>11, BecomesKeeps

\* A new lua_State.
LEMMA NewStateIs ==
    ASSUME NEW a \in {"none", "ok"}, NEW v \in {"none", "function", "values"},
           a = "none" => v = "none"
    PROVE  LET q == NewState(a, v)
           IN  /\ Sound(q) /\ Rests(q) /\ q.status = a /\ Len(q.ci) = 1 /\ q.nC = 0 /\ q.baseC = 0
               /\ q.jmp = 0 /\ ~q.errf /\ q.allow
<1> DEFINE q == NewState(a, v)
<1>1. /\ q.status = a /\ q.ci = <<"base">> /\ q.nC = 0 /\ q.baseC = 0 /\ q.size = BasicCI
      /\ q.vals = v /\ q.jmp = 0 /\ q.errf = FALSE /\ q.allow = TRUE /\ q.opened = {}
  BY DEF NewState
<1>2. q \in LuaStates
  <2>1. <<"base">> \in Seq(Functs \cup {"base"})
    OBVIOUS
  <2> QED
    BY <2>1, Limits DEF NewState, LuaStates
<1> HIDE DEF q
<1>3. Len(q.ci) = 1 /\ BasicCI \in Nat \ {0} /\ MaxCalls \in Nat /\ MaxCalls >= BasicCI /\ Limit \in Nat
  BY <1>1, Limits DEF Limit
<1> QED
  BY <1>1, <1>2, <1>3 DEF Sound, Rests, q

\* A thread that is not created has no frames.
LEMMA NoneIsOff ==
    ASSUME NEW str, NEW nat, NEW g, StackInv(nat, g), StatesInv(str, nat, g),
           NEW t \in Threads, str[t].status = "none"
    PROVE  Off(nat, t) /\ Rests(str[t])
<1>1. ASSUME NEW k \in 0..Len(nat), Waits(nat, k), ThreadAt(nat, k) = t
      PROVE  FALSE
  <2>1. Matches(str[t], Yields(nat, k), g[k])
    BY <1>1 DEF StatesInv
  <2> QED
    BY <2>1 DEF Matches
<1>2. Off(nat, t)
  BY <1>1, OffOrAt
<1> QED
  BY <1>2 DEF StatesInv

\* A new coroutine has no frames, and nothing to restore.
LEMMA CreateKeeps ==
    ASSUME IInv, NEW t \in Threads, Create(t)
    PROVE  IInv'
<1>1. native # <<>> /\ top.a = "exec" /\ top.a # "resume" /\ ctl = "run" /\ st[t].status = "none"
  BY DEF Create, Executes
<1>2. PICK g : Ready(State, g)
  BY <1>1, ReadyNow
<1>3. State.st = st /\ State.native = native
  BY <1>1, ReadyNow
<1> DEFINE q == NewState("ok", "function")
           s2 == [st |-> [st EXCEPT ![t] = q], native |-> native, ctl |-> "run"]
<1>4. st' = s2.st /\ native' = s2.native /\ ctl' = s2.ctl
  BY <1>1 DEF Create
<1> HIDE DEF State
<1>5. Sound(q) /\ Rests(q)
  BY NewStateIs
<1>6. StackInv(native, g) /\ StatesInv(st, native, g) /\ g[Len(native)].c < Limit
  BY <1>2, <1>3 DEF Ready, Agree
<1>7. Off(native, t)
  BY <1>1, <1>6, NoneIsOff
<1>8. StatesInv([State.st EXCEPT ![t] = q], State.native, g)
  <2> HIDE DEF q
  <2> QED
    BY <1>2, <1>3, <1>5, <1>7, TouchOff DEF Ready
<1>9. InOrder(s2)
  <2> HIDE DEF q
  <2> QED
    BY <1>3, <1>6, <1>8, InOrderIs
<1> HIDE DEF s2
<1> QED
  BY <1>4, <1>9, NextInOrder

\* The array of a thread gets another size, wherever its frames are.
LEMMA ResizeKeeps ==
    ASSUME NEW s, NEW g, Ready(s, g), NEW t \in Threads, NEW z \in Nat,
           Len(s.st[t].ci) <= z, z <= 2 * MaxCalls
    PROVE  StatesInv([s.st EXCEPT ![t] = [s.st[t] EXCEPT !.size = z]], s.native, g)
<1> DEFINE r == s.st[t]  q == [r EXCEPT !.size = z]  str2 == [s.st EXCEPT ![t] = q]
<1>1. /\ StackInv(s.native, g) /\ StatesInv(s.st, s.native, g) /\ s.st \in [Threads -> LuaStates]
      /\ Sound(r)
  BY DEF Ready, Agree, StatesInv
<1>2. /\ Sound(q)
      /\ q.status = r.status /\ q.nC = r.nC /\ q.baseC = r.baseC /\ q.jmp = r.jmp
      /\ q.errf = r.errf /\ q.allow = r.allow /\ q.ci = r.ci /\ q.vals = r.vals
  BY <1>1, ResizedIs
<1>3. str2 \in [Threads -> LuaStates] /\ str2[t] = q /\ \A u \in Threads : u # t => str2[u] = s.st[u]
  BY <1>1, <1>2 DEF Sound
<1> HIDE DEF q, str2
<1>4. /\ \A f, x : Runs(r, f, x) => Runs(q, f, x)
      /\ \A y, x : Matches(r, y, x) => Matches(q, y, x)
      /\ Rests(r) => Rests(q)
  BY <1>2 DEF Runs, Matches, Rests, Yielded
<1>5. \A i \in 1..Len(s.native) : s.native[i].thread \in Threads
  BY <1>1, StackTypes
<1>6. \A i \in 0..Len(s.native) : ThreadAt(s.native, i) \in Threads
  BY <1>1, StackTypes
<1>7. \A u \in Threads : Sound(str2[u])
  BY <1>1, <1>2, <1>3 DEF StatesInv
<1>8. \A i \in 1..Len(s.native) : Runs(str2[s.native[i].thread], s.native[i], g[i])
  BY <1>1, <1>3, <1>4, <1>5 DEF StatesInv
<1>9. \A i \in 0..Len(s.native) :
          Waits(s.native, i) => Matches(str2[ThreadAt(s.native, i)], Yields(s.native, i), g[i])
  BY <1>1, <1>3, <1>4, <1>6 DEF StatesInv
<1>10. \A u \in Threads : Off(s.native, u) => Rests(str2[u])
  BY <1>1, <1>3, <1>4 DEF StatesInv
<1> QED
  BY <1>3, <1>7, <1>8, <1>9, <1>10 DEF StatesInv, str2, q

\* The collector makes the array of a thread smaller, never too small.
LEMMA ShrinkCIKeeps ==
    ASSUME IInv, NEW t \in Threads, ShrinkCI(t)
    PROVE  IInv'
<1>1. /\ native # <<>> /\ top.a # "resume" /\ ctl = "run"
      /\ 4 * (Len(st[t].ci) - 1) < st[t].size /\ 2 * BasicCI < st[t].size
  BY DEF ShrinkCI, Executes, Depth
<1>2. PICK g : Ready(State, g)
  BY <1>1, ReadyNow
<1>3. State.st = st /\ State.native = native
  BY <1>1, ReadyNow
<1> DEFINE z == st[t].size \div 2
           s2 == [st |-> [st EXCEPT ![t] = [st[t] EXCEPT !.size = z]], native |-> native, ctl |-> "run"]
<1>4. st' = s2.st /\ native' = s2.native /\ ctl' = s2.ctl
  BY <1>1 DEF ShrinkCI
<1> HIDE DEF State
<1>5. StackInv(native, g) /\ StatesInv(st, native, g) /\ g[Len(native)].c < Limit
  BY <1>2, <1>3 DEF Ready, Agree
<1>6. /\ Sound(st[t]) /\ st[t].size \in Nat /\ Len(st[t].ci) \in 1..st[t].size
      /\ st[t].size <= 2 * MaxCalls /\ BasicCI \in Nat \ {0} /\ MaxCalls \in Nat
      /\ Len(st[t].ci) \in Nat
  BY <1>5, StateFields, Limits DEF StatesInv, Sound
<1>7. z \in Nat /\ Len(st[t].ci) <= z /\ z <= 2 * MaxCalls
  <2> DEFINE x == st[t].size  y == Len(st[t].ci)
  <2>1. /\ x \in Nat /\ y \in Nat /\ 4 * (y - 1) < x /\ 2 * BasicCI < x /\ x <= 2 * MaxCalls
        /\ y >= 1 /\ BasicCI \in Nat \ {0} /\ MaxCalls \in Nat
    BY <1>1, <1>6
  <2> HIDE DEF x, y
  <2>2. x \div 2 \in Nat /\ y <= x \div 2 /\ x \div 2 <= 2 * MaxCalls
    BY <2>1
  <2> QED
    BY <2>2 DEF x, y
<1>8. StatesInv([State.st EXCEPT ![t] = [State.st[t] EXCEPT !.size = z]], State.native, g)
  <2> HIDE DEF z
  <2> QED
    BY <1>2, <1>3, <1>7, ResizeKeeps
<1>9. InOrder(s2)
  BY <1>3, <1>5, <1>8, InOrderIs
<1> HIDE DEF s2
<1> QED
  BY <1>4, <1>9, NextInOrder

\* luaD_pcall saves what the frames imply, and becomes the place to jump to.
LEMMA ProtectedKeeps ==
    ASSUME NEW s, NEW g, Agree(s, g), s.st[Top(s.native)].status = "ok",
           g[Len(s.native)].c < Limit, NEW h \in BOOLEAN
    PROVE  LET s2 == Protected(s, Top(s.native), h)
           IN  /\ \E g2 : Ready(s2, g2)
               /\ s2.ctl = s.ctl /\ Top(s2.native) = Top(s.native)
<1> DEFINE n == Len(s.native)  t == Top(s.native)  r == s.st[t]  x == g[n]
           b == [a |-> "pcall", thread |-> t, depth |-> Len(r.ci), nC |-> r.nC,
                 errf |-> r.errf, allow |-> r.allow, jmp |-> r.jmp]
           q == [r EXCEPT !.errf = h, !.jmp = n + 1]
           s2 == [st |-> [s.st EXCEPT ![t] = q], native |-> Append(s.native, b), ctl |-> s.ctl]
           p == Protected(s, t, h)
           g2 == Pushed(s.native, g, b)
<1>1. /\ r.nC = x.c /\ r.baseC = x.b /\ r.jmp = x.j /\ Len(r.ci) = x.d + 1
      /\ r.allow <=> x.h = 0
      /\ r.errf => x.p > 0
      /\ x.c \in Nat /\ x.d \in Nat /\ x.j \in Nat /\ x.h \in Nat /\ x.p \in Nat /\ x.b \in Nat
      /\ Sound(r) /\ r \in LuaStates /\ r.allow \in BOOLEAN /\ r.errf \in BOOLEAN
      /\ s.native \in Seq(Frames) /\ n \in Nat /\ t \in Threads
      /\ StackInv(s.native, g) /\ s.st \in [Threads -> LuaStates]
  BY RunningIs
<1>2. s = [st |-> s.st, native |-> s.native, ctl |-> s.ctl]
  BY DEF Agree
<1>3. p = s2
  <2>1. p = [s EXCEPT !.st[t].errf = h, !.st[t].jmp = n + 1, !.native = Append(@, b)]
    BY DEF Protected
  <2>2. q = [r EXCEPT !.errf = h, !.jmp = n + 1] /\ r = s.st[t]
    OBVIOUS
  <2>3. t \in Threads /\ s.st \in [Threads -> LuaStates]
    BY <1>1
  <2> HIDE DEF p, b, q, n, r, t
  <2> QED
    BY <1>2, <2>1, <2>2, <2>3
<1>4. Len(r.ci) \in Nat /\ r.nC \in Nat /\ r.jmp \in Nat
  BY <1>1
<1>5. /\ b \in Frames /\ b.a = "pcall" /\ b.thread = t /\ b.depth = Len(r.ci) /\ b.nC = r.nC
      /\ b.errf = r.errf /\ b.allow = r.allow /\ b.jmp = r.jmp
  BY <1>1, <1>4 DEF Frames
<1>6. /\ q \in LuaStates /\ q.status = "ok" /\ q.nC = r.nC /\ q.baseC = r.baseC /\ q.jmp = n + 1
      /\ q.errf = h /\ q.allow = r.allow /\ q.ci = r.ci /\ q.size = r.size /\ q.opened = r.opened
      /\ q.vals = r.vals
  <2>1. r \in LuaStates /\ n + 1 \in Nat /\ r.status = "ok"
    BY <1>1
  <2> HIDE DEF r, n
  <2> QED
    BY <2>1 DEF LuaStates
<1> HIDE DEF b, q, p
<1>7. Saved(b, x)
  BY <1>1, <1>5 DEF Saved
<1>8. Gains(q, r, b, n + 1)
  <2>1. Sound(q) /\ SameBelow(q, r, Len(r.ci))
    BY <1>1, <1>6, SoundIs
  <2>2. Nested(b) = 0 /\ CallInfos(b) = 0 /\ Protects(b)
    BY <1>5 DEF Nested, CallInfos, Protects
  <2>3. q.allow = (b.a # "hook" /\ r.allow)
    BY <1>1, <1>5, <1>6
  <2>4. Len(q.ci) = Len(r.ci) + CallInfos(b) /\ q.nC = r.nC + Nested(b)
    BY <1>4, <1>6, <2>2
  <2> QED
    BY <1>5, <1>6, <2>1, <2>2, <2>3, <2>4 DEF Gains
<1>9. Fits(s.native, g, b)
  <2>1. /\ Append(s.native, b)[n + 1] = b /\ ThreadAt(Append(s.native, b), n) = ThreadAt(s.native, n)
    <3>1. /\ Append(s.native, b)[n + 1] = b
          /\ \A i \in 0..n : ThreadAt(Append(s.native, b), i) = ThreadAt(s.native, i)
      BY <1>1, <1>5, PushedIs
    <3>2. n \in 0..n
      BY <1>1
    <3> QED
      BY <3>1, <3>2
  <2>2. n + 1 - 1 = n
    BY <1>1
  <2>3. Placed(Append(s.native, b), n + 1)
    BY <1>5, <2>1, <2>2 DEF Placed, Top
  <2> QED
    BY <1>5, <1>7, <2>3 DEF Fits
<1>10. Agree(s2, g2) /\ Len(Append(s.native, b)) = n + 1 /\ g2[n + 1].c = g[n].c + Nested(b)
  <2>1. b.a # "resume"
    BY <1>5
  <2> QED
    BY <1>8, <1>9, <2>1, PushKeeps
<1>11. /\ s2.native # <<>> /\ Top(s2.native) = t /\ s2.st[t] = q /\ Len(s2.native) = n + 1
       /\ s2.ctl = s.ctl
  BY <1>1, <1>5, PushedLast
<1>12. g2[n + 1].c < Limit
  <2>1. Nested(b) = 0
    BY <1>5 DEF Nested
  <2> HIDE DEF g2
  <2> QED
    BY <1>1, <1>10, <2>1
<1> HIDE DEF s2, g2
<1>13. Ready(s2, g2)
  BY <1>6, <1>10, <1>11, <1>12 DEF Ready
<1> QED
  BY <1>3, <1>11, <1>13 DEF p

\* pcall and xpcall: what luaD_pcall saves is what the frames imply.
LEMMA LuaPcallKeeps ==
    ASSUME IInv, NEW f \in Functs, LuaPcall(f)
    PROVE  IInv'
<1>1. native # <<>> /\ top.a # "resume"
      /\ Becomes(Call(Protected(State, L, top.f = "xpcall"), f))
  BY DEF LuaPcall, InC
<1>2. PICK g : Ready(State, g)
  BY <1>1, ReadyNow
<1>3. State.native = native /\ L = Top(native)
  BY <1>1, ReadyNow
<1> HIDE DEF State
<1> DEFINE p == Protected(State, L, top.f = "xpcall")
<1>4. PICK g2 : Ready(p, g2)
  <2>1. (top.f = "xpcall") \in BOOLEAN
    OBVIOUS
  <2> DEFINE h == top.f = "xpcall"
  <2> HIDE DEF h
  <2>2. \E g2 : Ready(Protected(State, Top(State.native), h), g2)
    BY <1>2, <2>1, ProtectedKeeps DEF Ready, h
  <2> QED
    BY <1>3, <2>2 DEF h
<1> HIDE DEF p
<1>5. InOrder(Call(p, f))
  BY <1>4, CallKeeps DEF Ready
<1> QED
  BY <1>1, <1>5, BecomesKeeps DEF p

\* A state in order, from what the frames of it imply.
LEMMA ReadyInOrder ==
    ASSUME NEW s, NEW g, Ready(s, g), s.ctl \in {"run", "ret", "fail", "overfull", "crash"}
    PROVE  InOrder(s)
  BY AgreeInOrder DEF Ready

\* load: the parser runs in a protected call.
LEMMA LuaLoadKeeps ==
    ASSUME IInv, LuaLoad
    PROVE  IInv'
<1>1. native # <<>> /\ top.a # "resume" /\ ctl = "run"
      /\ Becomes([Protected(State, L, S.errf) EXCEPT
                    !.native = Append(@, [a |-> "parser", thread |-> L, n |-> 0])])
  BY DEF LuaLoad, InC
<1>2. PICK g : Ready(State, g)
  BY <1>1, ReadyNow
<1>3. State.native = native /\ State.ctl = ctl /\ L = Top(native) /\ S \in LuaStates /\ L \in Threads
  BY <1>1, ReadyNow
<1> HIDE DEF State
<1> DEFINE p == Protected(State, L, S.errf)  b == [a |-> "parser", thread |-> L, n |-> 0]
<1>4. PICK g2 : Ready(p, g2) /\ p.ctl = "run" /\ Top(p.native) = L
  <2>1. S.errf \in BOOLEAN
    BY <1>3, StateFields
  <2>2. LET s2 == Protected(State, Top(State.native), S.errf)
        IN  /\ \E g2 : Ready(s2, g2)
            /\ s2.ctl = State.ctl /\ Top(s2.native) = Top(State.native)
    BY <1>2, <2>1, ProtectedKeeps DEF Ready
  <2> QED
    BY <1>1, <1>3, <2>2
<1> HIDE DEF p
<1> DEFINE r == p.st[L]  s3 == [st |-> p.st, native |-> Append(p.native, b), ctl |-> p.ctl]
<1>5. /\ r \in LuaStates /\ Sound(r) /\ r.status = "ok" /\ p.st \in [Threads -> LuaStates]
      /\ p = [st |-> p.st, native |-> p.native, ctl |-> p.ctl]
      /\ r.allow \in BOOLEAN /\ r.nC \in Nat /\ Len(r.ci) \in Nat
  <2>1. Sound(r) /\ r \in LuaStates /\ p.st \in [Threads -> LuaStates]
    BY <1>4, RunningIs DEF Ready
  <2>2. r.allow \in BOOLEAN /\ r.nC \in Nat /\ Len(r.ci) \in Nat
    BY <2>1, StateFields
  <2> QED
    BY <1>4, <2>1, <2>2 DEF Ready, Agree
<1>6. b \in Frames /\ b.a = "parser" /\ b.thread = L /\ b.n = 0
  BY <1>3 DEF Frames
<1> HIDE DEF b
<1>7. Nested(b) = 0 /\ CallInfos(b) = 0 /\ ~Protects(b)
  BY <1>6 DEF Nested, CallInfos, Protects
<1>8. Gains(r, r, b, Len(p.native) + 1)
  <2> HIDE DEF r
  <2> QED
    BY <1>5, <1>6, <1>7 DEF Gains, SameBelow
<1>9. Ready([st |-> [p.st EXCEPT ![L] = r], native |-> Append(p.native, b), ctl |-> p.ctl],
            Pushed(p.native, g2, b))
  <2>1. b.a \in {"call", "hook", "pcall", "errormsg", "parser"}
    BY <1>6
  <2> QED
    BY <1>4, <1>6, <1>7, <1>8, <2>1, PlainKeeps
<1>10. [p.st EXCEPT ![L] = r] = p.st
  BY <1>5
<1>11. InOrder(s3)
  <2> HIDE DEF r
  <2>1. Ready(s3, Pushed(p.native, g2, b)) /\ s3.ctl = "run"
    BY <1>4, <1>9, <1>10
  <2> HIDE DEF s3
  <2> QED
    BY <2>1, ReadyInOrder
<1>12. [p EXCEPT !.native = Append(@, b)] = s3
  <2> DEFINE x == [p EXCEPT !.native = Append(@, b)]
  <2>1. x = [p EXCEPT !.native = Append(@, b)] /\ p = [st |-> p.st, native |-> p.native, ctl |-> p.ctl]
    BY <1>5
  <2> HIDE DEF x
  <2>2. x = s3
    BY <2>1
  <2> QED
    BY <2>2 DEF x
<1> HIDE DEF s3
<1>13. Becomes(s3)
  BY <1>1, <1>12 DEF p, b
<1> QED
  BY <1>11, <1>13, BecomesKeeps

\* A C function such as sort calls the program.
LEMMA CallsBackKeeps ==
    ASSUME IInv, NEW f \in Functs, CallsBack(f)
    PROVE  IInv'
<1>1. native # <<>> /\ top.a # "resume" /\ Becomes(Call([State EXCEPT !.ctl = "run"], f))
  BY DEF CallsBack, InC
<1>2. PICK g : Ready(State, g)
  BY <1>1, ReadyNow
<1> DEFINE s2 == [State EXCEPT !.ctl = "run"]
<1>3. s2 = [st |-> st, native |-> native, ctl |-> "run"] /\ State.st = st /\ State.native = native
  BY DEF State
<1>4. Ready(s2, g)
  <2> HIDE DEF s2, State
  <2>1. s2.st = st /\ s2.native = native /\ s2 = [st |-> s2.st, native |-> s2.native, ctl |-> s2.ctl]
    BY <1>3
  <2> QED
    BY <1>2, <1>3, <2>1 DEF Ready, Agree
<1> HIDE DEF s2
<1>5. InOrder(Call(s2, f))
  BY <1>4, CallKeeps DEF Ready
<1> QED
  BY <1>1, <1>5, BecomesKeeps DEF s2

\* A thread has made the C calls of its last frame.
LEMMA TopCalls ==
    ASSUME NEW s, NEW g, Ready(s, g), Last(s.native).a # "resume"
    PROVE  LET r == s.st[Top(s.native)]  f == Last(s.native)
           IN  r.nC \in Nat /\ Nested(f) \in Nat /\ r.nC - Nested(f) \in Nat /\ r.nC < Limit
<1> DEFINE n == Len(s.native)  r == s.st[Top(s.native)]  f == Last(s.native)
<1>1. /\ r.nC = g[n].c /\ g[n].c \in Nat /\ n \in Nat /\ StackInv(s.native, g)
      /\ g[n].c < Limit /\ s.native # <<>> /\ s.native \in Seq(Frames)
  BY RunningIs DEF Ready
<1>2. f = s.native[n] /\ f \in Frames /\ n >= 1
  BY <1>1, FrontIs
<1>3. n \in 1..n /\ n - 1 \in 0..n
  BY <1>1, <1>2
<1>4. g[n - 1] \in Implied /\ g[n] = Imply(g[n - 1], f, n)
  BY <1>1, <1>2, <1>3, StackTypes DEF StackInv, Follows
<1>5. Imply(g[n - 1], f, n).c = g[n - 1].c + Nested(f)
  BY <1>1, <1>2, <1>4, ImplyType
<1>6. g[n - 1].c \in Nat /\ Nested(f) \in Nat
  BY <1>2, <1>4, FrameFields DEF Implied
<1> HIDE DEF n, r, f
<1>7. r.nC = g[n - 1].c + Nested(f)
  BY <1>1, <1>4, <1>5
<1> QED
  BY <1>1, <1>6, <1>7 DEF r, f

\* The last frame of the running thread is left.
LEMMA PopInOrder ==
    ASSUME NEW s, NEW g, Ready(s, g), Last(s.native).a # "resume",
           NEW q, Loses(q, s.st[Top(s.native)], Last(s.native)),
           NEW c \in {"run", "ret", "fail", "overfull", "crash"}
    PROVE  InOrder([st |-> [s.st EXCEPT ![Top(s.native)] = q], native |-> Front(s.native),
                    ctl |-> c])
<1> DEFINE s2 == [st |-> [s.st EXCEPT ![Top(s.native)] = q], native |-> Front(s.native), ctl |-> c]
           g2 == Below(g, Len(s.native) - 1)
<1>1. /\ Agree(s2, g2) /\ Len(Front(s.native)) = Len(s.native) - 1
      /\ g2[Len(s.native) - 1].c < Limit
  BY PopKeeps DEF Ready
<1>2. s2.native = Front(s.native) /\ s2.ctl = c
  BY DEF Front
<1> HIDE DEF s2, g2
<1>3. InOrder(s2)
  BY <1>1, <1>2, AgreeInOrder
<1> QED
  BY <1>3 DEF s2

\* The step in which the last frame of the running thread is left.
LEMMA PopStep ==
    ASSUME IInv, native # <<>>, top.a # "resume", NEW q, Loses(q, S, top),
           st' = [st EXCEPT ![L] = q], native' = Front(native),
           ctl' \in {"run", "ret", "fail", "overfull", "crash"}
    PROVE  IInv'
<1>1. PICK g : Ready(State, g)
  BY ReadyNow
<1>2. State.st = st /\ State.native = native /\ L = Top(native) /\ S = st[L] /\ top = Last(native)
  BY ReadyNow
<1> HIDE DEF State
<1>3. PICK c \in {"run", "ret", "fail", "overfull", "crash"} : c = ctl'
  OBVIOUS
<1> DEFINE s2 == [st |-> [st EXCEPT ![L] = q], native |-> Front(native), ctl |-> c]
<1>4. InOrder(s2)
  BY <1>1, <1>2, PopInOrder
<1>5. st' = s2.st /\ native' = s2.native /\ ctl' = s2.ctl
  BY <1>3
<1> HIDE DEF s2
<1> QED
  BY <1>4, <1>5, NextInOrder

\* The counts of a frame that is about to be left.
LEMMA TopNow ==
    ASSUME IInv, native # <<>>, top.a # "resume"
    PROVE  /\ S.nC \in Nat /\ Nested(top) \in Nat /\ S.nC - Nested(top) \in Nat /\ S.nC < Limit
           /\ S.ci \in Seq(Functs \cup {"base"}) /\ Len(S.ci) \in Nat /\ S.allow \in BOOLEAN
           /\ S.errf \in BOOLEAN /\ S.jmp \in Nat /\ S.status = "ok" /\ top \in Frames
           /\ Sound(S) /\ S \in LuaStates /\ st \in [Threads -> LuaStates] /\ L \in Threads
           /\ st = [st EXCEPT ![L] = S] /\ ctl \in {"run", "ret", "fail", "overfull", "crash"}
           /\ top.a = "cfun" => Len(S.ci) >= 2 /\ S.ci[Len(S.ci)] = top.f
<1>1. PICK g : Ready(State, g)
  BY ReadyNow
<1>2. /\ State.st = st /\ State.native = native /\ L = Top(native) /\ S = st[L] /\ top = Last(native)
      /\ Sound(S) /\ S \in LuaStates /\ st \in [Threads -> LuaStates] /\ L \in Threads
      /\ S.status = "ok" /\ top \in Frames /\ ctl \in {"run", "ret", "fail", "overfull", "crash"}
  BY ReadyNow
<1> HIDE DEF State
<1>3. S.nC \in Nat /\ Nested(top) \in Nat /\ S.nC - Nested(top) \in Nat /\ S.nC < Limit
  BY <1>1, <1>2, TopCalls
<1>4. top.a = "cfun" => Len(S.ci) >= 2 /\ S.ci[Len(S.ci)] = top.f
  BY <1>1, <1>2, TopRuns DEF Ready
<1>5. /\ S.ci \in Seq(Functs \cup {"base"}) /\ Len(S.ci) \in Nat /\ S.allow \in BOOLEAN
      /\ S.errf \in BOOLEAN /\ S.jmp \in Nat
  BY <1>2, StateFields
<1>6. st = [st EXCEPT ![L] = S]
  BY <1>2
<1> QED
  BY <1>2, <1>3, <1>4, <1>5, <1>6

\* A C function returns.
LEMMA CReturnsKeeps ==
    ASSUME IInv, CReturns
    PROVE  IInv'
<1>1. native # <<>> /\ top.a = "cfun" /\ top.a # "resume" /\ native' = Front(native)
      /\ ctl' = Left(native') /\ st' = [st EXCEPT ![L].ci = Front(@)]
  BY DEF CReturns, InC
<1>2. /\ S.nC \in Nat /\ S.ci \in Seq(Functs \cup {"base"}) /\ Len(S.ci) \in Nat /\ S.allow \in BOOLEAN
      /\ S.status = "ok" /\ Sound(S) /\ S \in LuaStates /\ st \in [Threads -> LuaStates]
      /\ L \in Threads /\ Len(S.ci) >= 2 /\ S.ci[Len(S.ci)] = top.f /\ top \in Frames
  BY <1>1, TopNow
<1> DEFINE q == [S EXCEPT !.ci = Front(S.ci), !.opened = S.opened]
<1>3. Len(S.ci) \notin S.opened
  <2>1. top.f \in CFunctions /\ "lua" \notin CFunctions
    BY <1>1, <1>2, FrameFields DEF CFunctions
  <2> QED
    BY <1>2, <2>1 DEF Sound
<1>4. /\ Sound(q) /\ q.status = S.status /\ q.nC = S.nC /\ q.baseC = S.baseC
      /\ q.jmp = S.jmp /\ q.errf = S.errf /\ q.allow = S.allow
      /\ Len(q.ci) = Len(S.ci) - 1 /\ SameBelow(q, S, Len(q.ci))
  <2> DEFINE r == S  o == S.opened
  <2>1. Sound(r) /\ Len(r.ci) >= 2 /\ o \subseteq r.opened /\ Len(r.ci) \notin o
    BY <1>2, <1>3
  <2>2. q = Popped(r, o)
    BY DEF Popped
  <2>3. r = S
    OBVIOUS
  <2> HIDE DEF r, o, q
  <2>4. LET w == Popped(r, o)
        IN  /\ Sound(w) /\ w.status = r.status /\ w.nC = r.nC /\ w.baseC = r.baseC
            /\ w.jmp = r.jmp /\ w.errf = r.errf /\ w.allow = r.allow
            /\ Len(w.ci) = Len(r.ci) - 1 /\ SameBelow(w, r, Len(w.ci))
    BY <2>1, PoppedIs
  <2> QED
    BY <2>2, <2>3, <2>4
<1>5. st' = [st EXCEPT ![L] = q]
  <2>1. [S EXCEPT !.ci = Front(@)] = q
    BY <1>2 DEF LuaStates
  <2> HIDE DEF q
  <2> QED
    BY <1>1, <2>1 DEF S
<1> HIDE DEF q
<1>6. Nested(top) = 0 /\ CallInfos(top) = 1
  BY <1>1 DEF Nested, CallInfos
<1>7. Loses(q, S, top)
  <2>1. q.allow = (top.a = "hook" \/ S.allow) /\ q.nC = S.nC - Nested(top)
    BY <1>1, <1>2, <1>4, <1>6
  <2> QED
    BY <1>1, <1>2, <1>4, <1>6, <2>1 DEF Loses
<1>8. ctl' \in {"run", "ret", "fail", "overfull", "crash"}
  BY <1>1, LeftIs
<1> QED
  BY <1>1, <1>5, <1>7, <1>8, PopStep

\* luaD_call gives back its C call.
LEMMA CallReturnsKeeps ==
    ASSUME IInv, CallReturns
    PROVE  IInv'
<1>1. native # <<>> /\ top.a = "call" /\ top.a # "resume" /\ native' = Front(native)
      /\ ctl' = Left(native') /\ st' = [st EXCEPT ![L].nC = @ - 1]
  BY DEF CallReturns, Returned
<1> DEFINE m == S.nC - 1  q == [S EXCEPT !.nC = m]
<1>2. Nested(top) = 1 /\ CallInfos(top) = 0
  BY <1>1 DEF Nested, CallInfos
<1>3. /\ m \in Nat /\ Len(S.ci) \in Nat /\ S.allow \in BOOLEAN
      /\ S.status = "ok" /\ Sound(S) /\ S \in LuaStates
  BY <1>1, <1>2, TopNow
<1>4. st' = [st EXCEPT ![L] = q]
  BY <1>1 DEF S
<1>5. /\ q \in LuaStates /\ q.status = "ok" /\ q.nC = m /\ q.baseC = S.baseC /\ q.jmp = S.jmp
      /\ q.errf = S.errf /\ q.allow = S.allow /\ q.ci = S.ci /\ q.size = S.size /\ q.opened = S.opened
      /\ q.vals = S.vals
  <2> HIDE DEF m
  <2> QED
    BY <1>3 DEF LuaStates
<1> HIDE DEF q
<1>6. Loses(q, S, top)
  <2>1. Sound(q) /\ SameBelow(q, S, Len(q.ci))
    BY <1>3, <1>5, SoundIs
  <2>2. q.allow = (top.a = "hook" \/ S.allow) /\ Len(q.ci) = Len(S.ci) - CallInfos(top)
    BY <1>1, <1>2, <1>3, <1>5
  <2> QED
    BY <1>1, <1>2, <1>5, <2>1, <2>2 DEF Loses
<1>7. ctl' \in {"run", "ret", "fail", "overfull", "crash"}
  BY <1>1, LeftIs
<1> QED
  BY <1>1, <1>4, <1>6, <1>7, PopStep

\* luaD_pcall restores the handler and the place to jump to.
LEMMA PcallReturnsKeeps ==
    ASSUME IInv, PcallReturns
    PROVE  IInv'
<1>1. /\ native # <<>> /\ top.a = "pcall" /\ top.a # "resume" /\ native' = Front(native)
      /\ ctl' = ctl /\ st' = [st EXCEPT ![L].errf = top.errf, ![L].jmp = top.jmp]
  BY DEF PcallReturns, Returned
<1> DEFINE q == [S EXCEPT !.errf = top.errf, !.jmp = top.jmp]
<1>2. /\ Len(S.ci) \in Nat /\ S.allow \in BOOLEAN /\ S.nC \in Nat /\ L \in Threads
      /\ S.status = "ok" /\ Sound(S) /\ S \in LuaStates /\ top \in Frames
      /\ st \in [Threads -> LuaStates] /\ ctl' \in {"run", "ret", "fail", "overfull", "crash"}
  BY <1>1, TopNow
<1>3. top.errf \in BOOLEAN /\ top.jmp \in Nat /\ Nested(top) = 0 /\ CallInfos(top) = 0
  BY <1>1, <1>2, FrameFields DEF Nested, CallInfos
<1>4. st' = [st EXCEPT ![L] = q]
  BY <1>1, <1>2 DEF S
<1>5. /\ q \in LuaStates /\ q.status = "ok" /\ q.nC = S.nC /\ q.baseC = S.baseC /\ q.jmp = top.jmp
      /\ q.errf = top.errf /\ q.allow = S.allow /\ q.ci = S.ci /\ q.size = S.size
      /\ q.opened = S.opened /\ q.vals = S.vals
  BY <1>2, <1>3 DEF LuaStates
<1> HIDE DEF q
<1>6. Loses(q, S, top)
  <2>1. Sound(q) /\ SameBelow(q, S, Len(q.ci))
    BY <1>2, <1>5, SoundIs
  <2>2. /\ q.allow = (top.a = "hook" \/ S.allow) /\ Len(q.ci) = Len(S.ci) - CallInfos(top)
        /\ q.nC = S.nC - Nested(top)
    BY <1>1, <1>2, <1>3, <1>5
  <2> QED
    BY <1>1, <1>5, <2>1, <2>2 DEF Loses
<1> QED
  BY <1>1, <1>2, <1>4, <1>6, PopStep

\* The hook has returned, and is on again.
LEMMA HookReturnsKeeps ==
    ASSUME IInv, HookReturns
    PROVE  IInv'
<1>1. /\ native # <<>> /\ top.a = "hook" /\ top.a # "resume" /\ native' = Front(native)
      /\ ctl' = Left(native') /\ st' = [st EXCEPT ![L].allow = TRUE]
  BY DEF HookReturns, Returned
<1> DEFINE q == [S EXCEPT !.allow = TRUE]
<1>2. /\ Len(S.ci) \in Nat /\ S.allow \in BOOLEAN /\ S.nC \in Nat
      /\ S.status = "ok" /\ Sound(S) /\ S \in LuaStates
  BY <1>1, TopNow
<1>3. Nested(top) = 0 /\ CallInfos(top) = 0
  BY <1>1 DEF Nested, CallInfos
<1>4. st' = [st EXCEPT ![L] = q]
  BY <1>1 DEF S
<1>5. /\ q \in LuaStates /\ q.status = "ok" /\ q.nC = S.nC /\ q.baseC = S.baseC /\ q.jmp = S.jmp
      /\ q.errf = S.errf /\ q.allow = TRUE /\ q.ci = S.ci /\ q.size = S.size /\ q.opened = S.opened
      /\ q.vals = S.vals
  BY <1>2 DEF LuaStates
<1> HIDE DEF q
<1>6. Loses(q, S, top)
  <2>1. Sound(q) /\ SameBelow(q, S, Len(q.ci))
    BY <1>2, <1>5, SoundIs
  <2>2. q.allow = (top.a = "hook" \/ S.allow)
    BY <1>1, <1>5
  <2>3. Len(q.ci) = Len(S.ci) - CallInfos(top) /\ q.nC = S.nC - Nested(top)
    BY <1>2, <1>3, <1>5
  <2> QED
    BY <1>1, <1>5, <2>1, <2>2, <2>3 DEF Loses
<1>7. ctl' \in {"run", "ret", "fail", "overfull", "crash"}
  BY <1>1, LeftIs
<1> QED
  BY <1>1, <1>4, <1>6, <1>7, PopStep

\* The parser returns with all levels left.
LEMMA ParserEndsKeeps ==
    ASSUME IInv, ParserEnds
    PROVE  IInv'
<1>1. /\ native # <<>> /\ top.a = "parser" /\ top.a # "resume" /\ native' = Front(native)
      /\ ctl' = "ret" /\ st' = st /\ top.n = 0
  BY DEF ParserEnds, Parses
<1>2. /\ Len(S.ci) \in Nat /\ S.allow \in BOOLEAN /\ S.nC \in Nat
      /\ S.status = "ok" /\ Sound(S) /\ S \in LuaStates /\ st = [st EXCEPT ![L] = S]
  BY <1>1, TopNow
<1>3. Nested(top) = 0 /\ CallInfos(top) = 0
  BY <1>1 DEF Nested, CallInfos
<1>4. Loses(S, S, top)
  <2>1. S.allow = (top.a = "hook" \/ S.allow) /\ SameBelow(S, S, Len(S.ci))
    BY <1>1, <1>2 DEF SameBelow
  <2> QED
    BY <1>1, <1>2, <1>3, <2>1 DEF Loses
<1>5. ctl' \in {"run", "ret", "fail", "overfull", "crash"} /\ st' = [st EXCEPT ![L] = S]
  BY <1>1, <1>2
<1> QED
  BY <1>1, <1>4, <1>5, PopStep

\* The parser is at another level: so many C calls more, or less.
LEMMA LevelKeeps ==
    ASSUME IInv, native # <<>>, top.a = "parser", NEW k \in Nat, NEW z \in Nat,
           z = (S.nC - top.n) + k, NEW c
    PROVE  /\ \E g2 : /\ Agree([st |-> [st EXCEPT ![L] = [S EXCEPT !.nC = z]],
                                native |-> [native EXCEPT ![Len(native)] =
                                              [a |-> "parser", thread |-> L, n |-> k]],
                                ctl |-> c], g2)
                      /\ g2[Len(native)].c = z
           /\ top = [a |-> "parser", thread |-> L, n |-> top.n]
<1>1. top.a # "resume"
  OBVIOUS
<1>2. PICK g : Ready(State, g)
  BY <1>1, ReadyNow
<1>3. State.st = st /\ State.native = native /\ L = Top(native) /\ top = Last(native)
      /\ Len(native) \in Nat
  BY <1>1, ReadyNow
<1>4. Nested(top) = top.n /\ CallInfos(top) = 0 /\ top.n \in Nat
  BY <1>1, TopNow, FrameFields DEF Nested, CallInfos
<1>5. /\ S.nC \in Nat /\ S.nC - top.n \in Nat /\ Len(S.ci) \in Nat /\ S.allow \in BOOLEAN
      /\ S.status = "ok" /\ Sound(S) /\ S \in LuaStates /\ top \in Frames /\ L \in Threads
  BY <1>1, <1>4, TopNow
<1>6. top = [a |-> "parser", thread |-> L, n |-> top.n]
  BY <1>5 DEF Frames, L
<1> DEFINE f == [a |-> "parser", thread |-> L, n |-> k]
           m == S.nC - top.n
           p == [S EXCEPT !.nC = m]
           q == [S EXCEPT !.nC = z]
<1>7. f \in Frames /\ f.a = "parser" /\ f.thread = L /\ f.n = k
  BY <1>5 DEF Frames
<1>8. Nested(f) = k /\ CallInfos(f) = 0 /\ ~Protects(f)
  BY DEF Nested, CallInfos, Protects
<1>9. m \in Nat /\ m = S.nC - Nested(top) /\ z = m + k
  BY <1>4, <1>5
<1>10. /\ p \in LuaStates /\ p.status = "ok" /\ p.nC = m /\ p.baseC = S.baseC /\ p.jmp = S.jmp
       /\ p.errf = S.errf /\ p.allow = S.allow /\ p.ci = S.ci /\ p.size = S.size
       /\ p.opened = S.opened /\ p.vals = S.vals
  <2> HIDE DEF m
  <2> QED
    BY <1>5, <1>9 DEF LuaStates
<1>11. /\ q \in LuaStates /\ q.status = "ok" /\ q.nC = z /\ q.baseC = S.baseC /\ q.jmp = S.jmp
       /\ q.errf = S.errf /\ q.allow = S.allow /\ q.ci = S.ci /\ q.size = S.size
       /\ q.opened = S.opened /\ q.vals = S.vals
  BY <1>5 DEF LuaStates
<1> HIDE DEF f, m, p, q
<1>12. Sound(p) /\ \A n : SameBelow(p, S, n)
  BY <1>5, <1>10, SoundIs
<1>13. Sound(q) /\ \A n : SameBelow(q, S, n)
  BY <1>5, <1>11, SoundIs
<1>14. Loses(p, S, top)
  <2>1. p.allow = (top.a = "hook" \/ S.allow)
    BY <1>5, <1>10
  <2>2. Len(p.ci) = Len(S.ci) - CallInfos(top) /\ p.nC = S.nC - Nested(top)
    BY <1>4, <1>5, <1>9, <1>10
  <2> QED
    BY <1>10, <1>12, <2>1, <2>2 DEF Loses
<1>15. Gains(q, p, f, Len(native))
  <2>1. q.allow = (f.a # "hook" /\ p.allow)
    BY <1>5, <1>7, <1>10, <1>11
  <2>2. Len(q.ci) = Len(p.ci) + CallInfos(f) /\ q.nC = p.nC + Nested(f)
    BY <1>5, <1>8, <1>9, <1>10, <1>11
  <2>3. SameBelow(q, p, Len(p.ci))
    BY <1>10, <1>11, <1>13 DEF SameBelow
  <2> QED
    BY <1>7, <1>8, <1>10, <1>11, <1>13, <2>1, <2>2, <2>3 DEF Gains
<1> DEFINE g2 == Swapped(native, g, f)
<1>16. Agree([st |-> [st EXCEPT ![L] = q], native |-> [native EXCEPT ![Len(native)] = f],
              ctl |-> c], g2) /\ g2[Len(native)].c = p.nC + Nested(f)
  <2>1. /\ Agree(State, g) /\ State.native # <<>>
        /\ State.st[Top(State.native)].status = "ok"
    BY <1>2 DEF Ready
  <2>2. /\ f.a = Last(State.native).a /\ f.thread = Last(State.native).thread
        /\ f.a \in {"exec", "parser"}
    <3>1. top.thread = L /\ Last(State.native) = top
      BY <1>3 DEF L
    <3> QED
      BY <1>7, <3>1
  <2>3. /\ Loses(p, State.st[Top(State.native)], Last(State.native))
        /\ Gains(q, p, f, Len(State.native))
    BY <1>3, <1>14, <1>15 DEF S
  <2> HIDE DEF State
  <2>4. /\ Agree([st |-> [State.st EXCEPT ![Top(State.native)] = q],
                  native |-> [State.native EXCEPT ![Len(State.native)] = f], ctl |-> c],
                 Swapped(State.native, g, f))
        /\ Swapped(State.native, g, f)[Len(State.native)].c = p.nC + Nested(f)
    BY <1>7, <2>1, <2>2, <2>3, SwapKeeps
  <2> QED
    BY <1>3, <2>4
<1> HIDE DEF g2
<1>17. g2[Len(native)].c = z
  BY <1>8, <1>9, <1>10, <1>16
<1> QED
  BY <1>6, <1>16, <1>17 DEF f, q

\* The parser goes one level deeper, or stops with an error at the limit.
LEMMA EnterLevelKeeps ==
    ASSUME IInv, EnterLevel
    PROVE  IInv'
<1>1. native # <<>> /\ top.a = "parser" /\ top.a # "resume"
  BY DEF EnterLevel, Parses
<1>2. /\ S.nC \in Nat /\ top.n \in Nat /\ S.nC < Limit /\ L \in Threads
      /\ st \in [Threads -> LuaStates] /\ ctl \in {"run", "ret", "fail", "overfull", "crash"}
      /\ S \in LuaStates /\ S.status = "ok"
  BY <1>1, TopNow, FrameFields
<1>3. /\ native \in Seq(Frames) /\ Len(native) \in Nat /\ Len(native) >= 1
      /\ top = native[Len(native)] /\ Len(native) \in 1..Len(native)
  BY <1>1, ReadyNow
<1> DEFINE q == [S EXCEPT !.nC = S.nC + 1]
           f == [a |-> "parser", thread |-> L, n |-> top.n + 1]
           n2 == [native EXCEPT ![Len(native)] = f]
           x == [st |-> [st EXCEPT ![L] = q], native |-> n2, ctl |-> ctl]
           s == [State EXCEPT !.st[L].nC = @ + 1, !.native[Len(native)].n = @ + 1]
<1>4. PICK g2 : Agree(x, g2) /\ g2[Len(native)].c = S.nC + 1
  <2>1. S.nC + 1 \in Nat /\ top.n + 1 \in Nat /\ S.nC + 1 = (S.nC - top.n) + (top.n + 1)
    BY <1>2
  <2> DEFINE k == top.n + 1  z == S.nC + 1
  <2>2. k \in Nat /\ z \in Nat /\ z = (S.nC - top.n) + k
    BY <2>1
  <2> HIDE DEF k, z
  <2>3. \E g2 : /\ Agree([st |-> [st EXCEPT ![L] = [S EXCEPT !.nC = z]],
                          native |-> [native EXCEPT ![Len(native)] =
                                        [a |-> "parser", thread |-> L, n |-> k]],
                          ctl |-> ctl], g2)
                /\ g2[Len(native)].c = z
    BY <1>1, <2>2, LevelKeeps
  <2> QED
    BY <2>3 DEF k, z
<1>5. top = [a |-> "parser", thread |-> L, n |-> top.n]
  <2>1. S.nC \in Nat /\ top.n \in Nat /\ S.nC = (S.nC - top.n) + top.n
    BY <1>2
  <2> QED
    BY <1>1, <2>1, LevelKeeps
<1>6. s = x
  <2>1. [native EXCEPT ![Len(native)].n = @ + 1] = n2
    <3> DEFINE r == top
    <3>1. r = [a |-> "parser", thread |-> L, n |-> top.n] /\ r = native[Len(native)]
      BY <1>3, <1>5
    <3> HIDE DEF r
    <3>2. [r EXCEPT !.n = top.n + 1] = f
      BY <3>1
    <3>3. [native EXCEPT ![Len(native)].n = @ + 1] = [native EXCEPT ![Len(native)] = [r EXCEPT !.n = top.n + 1]]
      BY <1>5, <3>1 DEF r
    <3> HIDE DEF f
    <3> QED
      BY <3>2, <3>3
  <2>2. [st EXCEPT ![L].nC = @ + 1] = [st EXCEPT ![L] = q]
    BY DEF S
  <2> DEFINE n3 == [native EXCEPT ![Len(native)].n = @ + 1]  st3 == [st EXCEPT ![L].nC = @ + 1]
  <2>3. s = [st |-> st3, native |-> n3, ctl |-> ctl]
    <3>1. State = [st |-> st, native |-> native, ctl |-> ctl]
      BY DEF State
    <3>2. State.st = st /\ State.native = native
      BY DEF State
    <3> DEFINE st4 == [State.st EXCEPT ![L].nC = @ + 1]
               n4 == [State.native EXCEPT ![Len(native)].n = @ + 1]
    <3>3. s = [State EXCEPT !.st = st4, !.native = n4]
      OBVIOUS
    <3>4. st4 = st3 /\ n4 = n3
      BY <3>2
    <3> HIDE DEF st4, n4, st3, n3, State, s
    <3> QED
      BY <3>1, <3>3, <3>4
  <2> HIDE DEF s, n3, st3, n2, q
  <2> QED
    BY <2>1, <2>2, <2>3 DEF n3, st3
<1>7. /\ x.st[Top(x.native)].status = "ok" /\ Len(x.native) = Len(native) /\ x.native # <<>>
      /\ x.ctl = ctl
  <2>1. Len(n2) = Len(native) /\ n2[Len(native)] = f /\ n2 # <<>>
    BY <1>3
  <2>2. f.thread = L /\ q.status = "ok"
    BY <1>2 DEF LuaStates
  <2>3. Top(n2) = L
    BY <1>3, <2>1, <2>2 DEF Top, ThreadAt
  <2> HIDE DEF f, n2, q
  <2> QED
    BY <1>2, <2>1, <2>2, <2>3
<1>8. Becomes(IF S.nC + 1 > MaxCCalls THEN Throw(x) ELSE x)
  BY <1>6 DEF EnterLevel
<1> HIDE DEF x, s
<1>9. MaxCCalls \in Nat /\ CSlack \in Nat /\ CSlack >= 1
  BY Limits
<1>10. g2[Len(x.native)].c = S.nC + 1
  BY <1>4, <1>7
<1>11. CASE S.nC + 1 > MaxCCalls
  <2>1. g2[Len(x.native)].c <= Limit
    BY <1>2, <1>9, <1>10 DEF Limit
  <2>2. InOrder(Throw(x))
    BY <1>4, <1>7, <2>1, ThrowKeeps
  <2> QED
    BY <1>8, <1>11, <2>2, BecomesKeeps
<1>12. CASE ~(S.nC + 1 > MaxCCalls)
  <2>1. g2[Len(x.native)].c < Limit
    BY <1>2, <1>9, <1>10, <1>12 DEF Limit
  <2>2. InOrder(x)
    BY <1>2, <1>4, <1>7, <2>1, AgreeInOrder
  <2> QED
    BY <1>8, <1>12, <2>2, BecomesKeeps
<1> QED
  BY <1>11, <1>12

\* The parser comes back from a level.
LEMMA LeaveLevelKeeps ==
    ASSUME IInv, LeaveLevel
    PROVE  IInv'
<1>1. native # <<>> /\ top.a = "parser" /\ top.a # "resume" /\ top.n > 0
      /\ st' = [st EXCEPT ![L].nC = @ - 1]
      /\ native' = [native EXCEPT ![Len(native)].n = @ - 1] /\ ctl' = ctl
  BY DEF LeaveLevel, Parses
<1>2. /\ S.nC \in Nat /\ top.n \in Nat /\ S.nC < Limit /\ L \in Threads
      /\ st \in [Threads -> LuaStates] /\ ctl \in {"run", "ret", "fail", "overfull", "crash"}
      /\ S \in LuaStates /\ S.status = "ok" /\ S.nC - top.n \in Nat
  <2>1. Nested(top) = top.n
    BY <1>1 DEF Nested
  <2> QED
    BY <1>1, <2>1, TopNow, FrameFields
<1>3. /\ native \in Seq(Frames) /\ Len(native) \in Nat /\ Len(native) >= 1
      /\ top = native[Len(native)] /\ Len(native) \in 1..Len(native)
  BY <1>1, ReadyNow
<1> DEFINE k == top.n - 1  z == S.nC - 1
           q == [S EXCEPT !.nC = z]
           f == [a |-> "parser", thread |-> L, n |-> k]
           n2 == [native EXCEPT ![Len(native)] = f]
           x == [st |-> [st EXCEPT ![L] = q], native |-> n2, ctl |-> ctl]
<1>4. k \in Nat /\ z \in Nat /\ z = (S.nC - top.n) + k /\ z < Limit
  <2> DEFINE a == S.nC  b == top.n
  <2>1. a \in Nat /\ b \in Nat /\ a < Limit /\ a - b \in Nat /\ b # 0 /\ Limit \in Nat
    BY <1>1, <1>2, Limits DEF Limit
  <2>2. k = b - 1 /\ z = a - 1
    OBVIOUS
  <2> HIDE DEF a, b, k, z
  <2>3. k \in Nat /\ z \in Nat /\ z = (a - b) + k /\ z < Limit
    BY <2>1, <2>2
  <2> QED
    BY <2>3 DEF a, b
<1>5. top = [a |-> "parser", thread |-> L, n |-> top.n]
      /\ \E g2 : Agree(x, g2) /\ g2[Len(native)].c = z
  <2> HIDE DEF k, z
  <2> QED
    BY <1>1, <1>4, LevelKeeps
<1>6. PICK g2 : Agree(x, g2) /\ g2[Len(native)].c = z
  BY <1>5
<1>7. native' = n2
  <2> DEFINE r == top
  <2>1. r = [a |-> "parser", thread |-> L, n |-> top.n] /\ r = native[Len(native)]
    BY <1>3, <1>5
  <2> HIDE DEF r
  <2>2. [r EXCEPT !.n = top.n - 1] = f
    BY <2>1
  <2>3. native' = [native EXCEPT ![Len(native)] = [r EXCEPT !.n = top.n - 1]]
    BY <1>1, <1>5, <2>1 DEF r
  <2> HIDE DEF f
  <2> QED
    BY <2>2, <2>3
<1>8. st' = [st EXCEPT ![L] = q]
  BY <1>1 DEF S
<1>9. Len(n2) = Len(native)
  BY <1>3
<1>10. InOrder(x)
  <2> HIDE DEF n2, q, z
  <2>1. x.native = n2 /\ x.ctl = ctl
    OBVIOUS
  <2> HIDE DEF x
  <2> QED
    BY <1>2, <1>4, <1>6, <1>9, <2>1, AgreeInOrder
<1>11. st' = x.st /\ native' = x.native /\ ctl' = x.ctl
  <2> HIDE DEF n2, q
  <2> QED
    BY <1>1, <1>7, <1>8
<1> HIDE DEF x
<1> QED
  BY <1>10, <1>11, NextInOrder

\* A suspended coroutine has no frames on the C stack.
LEMMA SuspendedIs ==
    ASSUME NEW g, Ready(State, g), top.a = "cfun", NEW t \in Threads,
           st[t].status # "none", CoStatus(L, t) = "suspended"
    PROVE  /\ Off(native, t) /\ Rests(st[t])
           /\ st[t].status \in {"ok", "yield"}
<1>1. /\ StackInv(native, g) /\ StatesInv(st, native, g) /\ native # <<>>
      /\ State.native = native /\ Agree(State, g)
  BY DEF Ready, Agree, State
<1>2. /\ L = Top(native) /\ top = native[Len(native)] /\ Len(native) \in Nat /\ Len(native) >= 1
  BY <1>1, Here
<1>3. Sound(st[t]) /\ st[t] \in LuaStates /\ Len(st[t].ci) \in Nat
      /\ st[t].status \in {"none", "ok", "yield", "error"}
  BY <1>1, StateFields DEF StatesInv, Sound
<1>4. /\ t # L /\ st[t].status \in {"ok", "yield"}
      /\ st[t].status = "ok" => Len(st[t].ci) <= 1
  <2>1. t # L
    BY DEF CoStatus
  <2>2. st[t].status # "error"
    BY <2>1 DEF CoStatus
  <2>3. CASE st[t].status = "ok"
    <3>1. ~(Depth(t) > 1)
      BY <2>1, <2>3 DEF CoStatus
    <3> QED
      BY <1>3, <2>1, <2>3, <3>1 DEF Depth
  <2> QED
    BY <1>3, <2>1, <2>2, <2>3
<1>5. Off(native, t)
  <2> SUFFICES ASSUME NEW k \in 0..Len(native), Waits(native, k), ThreadAt(native, k) = t
               PROVE  FALSE
    BY <1>1, OffOrAt
  <2>1. k # Len(native) /\ k + 1 \in 1..Len(native) /\ native[k + 1].a = "resume"
    BY <1>2, <1>4 DEF Waits, Top
  <2>2. k + 1 > 1 /\ native[k + 1 - 1].a = "cfun" /\ k + 1 - 1 = k
    BY <1>1, <2>1 DEF StackInv, Placed
  <2>3. k \in 1..Len(native) /\ k - 1 \in 0..Len(native) /\ native[k].a = "cfun"
    BY <1>2, <2>1, <2>2
  <2>4. Matches(st[t], Yields(native, k), g[k])
    BY <1>1 DEF StatesInv
  <2>5. ~Yields(native, k)
    BY <2>3 DEF Yields
  <2>6. st[t].status = "ok" /\ Len(st[t].ci) = g[k].d + 1
    BY <1>4, <2>4, <2>5 DEF Matches
  <2>7. g[k] = Imply(g[k - 1], native[k], k) /\ g[k - 1] \in Implied /\ native[k] \in Frames
    BY <1>1, <2>3, StackTypes DEF StackInv, Follows
  <2>8. g[k - 1].d \in Nat /\ CallInfos(native[k]) = 1
    BY <2>3, <2>7 DEF Implied, CallInfos
  <2>9. g[k].d = g[k - 1].d + 1
    BY <2>3, <2>7, <2>8, ImplyType
  <2> QED
    BY <1>3, <1>4, <2>6, <2>8, <2>9
<1> QED
  BY <1>1, <1>4, <1>5 DEF StatesInv

\* A coroutine that cannot be resumed because of the limit on C calls.
LEMMA RefusedKeeps ==
    ASSUME NEW g, Ready(State, g), NEW t \in Threads, Off(native, t),
           st[t].status \in {"ok", "yield"}, NEW v \in {"none", "function", "values"},
           st[t].status = "yield" => v = st[t].vals,
           NEW z \in Nat, z <= Limit
    PROVE  InOrder([st |-> [st EXCEPT ![t] = [st[t] EXCEPT !.nC = z, !.vals = v]],
                    native |-> native, ctl |-> "fail"])
<1>1. /\ StackInv(native, g) /\ StatesInv(st, native, g) /\ g[Len(native)].c < Limit
      /\ State.native = native /\ State.st = st /\ Agree(State, g)
  BY DEF Ready, Agree, State
<1> DEFINE r == st[t]  q == [r EXCEPT !.nC = z, !.vals = v]
<1>2. r \in LuaStates /\ Sound(r) /\ Rests(r)
  BY <1>1 DEF StatesInv
<1>3. /\ q \in LuaStates /\ q.status = r.status /\ q.nC = z /\ q.jmp = r.jmp /\ q.errf = r.errf
      /\ q.allow = r.allow /\ q.ci = r.ci /\ q.size = r.size /\ q.opened = r.opened /\ q.vals = v
  <2> HIDE DEF r
  <2> QED
    BY <1>2 DEF LuaStates
<1>8. r.status = "yield" => v = r.vals
  OBVIOUS
<1> HIDE DEF q, r
<1>4. Sound(q)
  BY <1>2, <1>3 DEF Sound
<1>5. Rests(q)
  <2>1. ASSUME q.status = "yield"
        PROVE  Yielded(q)
    <3>1. Yielded(r) /\ q.ci = r.ci /\ q.vals = r.vals
      BY <1>2, <1>3, <1>8, <2>1 DEF Rests
    <3> QED
      BY <3>1 DEF Yielded
  <2>2. q.status \in {"ok", "yield"}
    BY <1>3 DEF r
  <2> QED
    BY <1>2, <1>3, <2>1, <2>2 DEF Rests
<1> HIDE DEF State
<1>6. StatesInv([State.st EXCEPT ![t] = q], State.native, g)
  BY <1>1, <1>4, <1>5, TouchOff
<1>7. InOrder([st |-> [st EXCEPT ![t] = q], native |-> native, ctl |-> "fail"])
  BY <1>1, <1>6, InOrderIs
<1> QED
  BY <1>7 DEF q, r

\* lua_resume has put its frame f on the C stack, and q in the place of the lua_State
\* of the coroutine t.
Armed(g, t, q, f, x) ==
    /\ Agree(x, Pushed(native, g, f))
    /\ Pushed(native, g, f)[Len(native) + 1].c < Limit
    /\ Pushed(native, g, f)[Len(native) + 1].d = 0
    /\ Top(x.native) = t /\ x.st[t] = q /\ Last(x.native) = f /\ x.native # <<>>
    /\ Len(x.native) = Len(native) + 1 /\ Sound(q) /\ q.status = st[t].status
    /\ q.ci = st[t].ci
    /\ q.status = "yield" => Yielded(q)
    /\ q.status = "ok" => Len(q.ci) = 1

\* The lua_State, the frame and the state of the program, when v is what is left on the
\* stack of t.
ArmedState(t, v) == [st[t] EXCEPT !.nC = S.nC + 1, !.baseC = S.nC + 1, !.jmp = Len(native) + 1,
                                  !.vals = v]
ArmedFrame(t) == [a |-> "resume", thread |-> t, jmp |-> st[t].jmp]
Arming(t, v) == [st |-> [st EXCEPT ![t] = ArmedState(t, v)],
                 native |-> Append(native, ArmedFrame(t)), ctl |-> "run"]

\* lua_resume puts its frame on the C stack, and the coroutine runs.
LEMMA CoroutineReady ==
    ASSUME NEW g, Ready(State, g), top.a = "cfun", NEW t \in Threads, Off(native, t),
           st[t].status \in {"ok", "yield"}, S.nC < MaxCCalls,
           NEW v \in {"none", "function", "values"}, st[t].status = "yield" => v = st[t].vals
    PROVE  Armed(g, t, ArmedState(t, v), ArmedFrame(t), Arming(t, v))
<1>1. /\ StackInv(native, g) /\ StatesInv(st, native, g) /\ g[Len(native)].c < Limit
      /\ State.native = native /\ State.st = st /\ Agree(State, g) /\ native # <<>>
      /\ State.st[Top(native)].status = "ok"
  BY DEF Ready, Agree, State
<1>2. /\ L = Top(native) /\ top = native[Len(native)] /\ Len(native) \in Nat /\ Len(native) >= 1
      /\ native \in Seq(Frames) /\ S = st[L] /\ st \in [Threads -> LuaStates]
  BY <1>1, Here
<1> DEFINE n == Len(native)  r == st[t]  z == S.nC + 1
           q0 == [r EXCEPT !.nC = z, !.baseC = z, !.jmp = n + 1, !.vals = v]
           f0 == [a |-> "resume", thread |-> t, jmp |-> r.jmp]
           x0 == [st |-> [st EXCEPT ![t] = q0], native |-> Append(native, f0), ctl |-> "run"]
           g1 == Pushed(native, g, f0)
<1>0. ArmedState(t, v) = q0 /\ ArmedFrame(t) = f0 /\ Arming(t, v) = x0
  BY DEF ArmedState, ArmedFrame, Arming
<1>3. S.nC = g[n].c /\ S.nC \in Nat /\ g[n] \in Implied
  <2> HIDE DEF State
  <2>1. State.st[Top(State.native)].nC = g[Len(State.native)].c /\ g[Len(State.native)].c \in Nat
    BY <1>1, RunningIs
  <2>2. g[n] \in Implied
    BY <1>1, <1>2, StackTypes
  <2> QED
    BY <1>1, <1>2, <2>1, <2>2
<1>4. /\ r \in LuaStates /\ Sound(r) /\ Rests(r) /\ r.status \in {"ok", "yield"}
      /\ r.status = "yield" => v = r.vals
  BY <1>1 DEF StatesInv
<1>5. z \in Nat /\ n + 1 \in Nat /\ z < Limit
  BY <1>2, <1>3, Limits DEF Limit
<1>6. /\ q0 \in LuaStates /\ q0.status = r.status /\ q0.nC = z /\ q0.baseC = z /\ q0.jmp = n + 1
      /\ q0.errf = r.errf /\ q0.allow = r.allow /\ q0.ci = r.ci /\ q0.size = r.size
      /\ q0.opened = r.opened /\ q0.vals = v
  <2> HIDE DEF r, n, z
  <2> QED
    BY <1>4, <1>5 DEF LuaStates
<1>7. f0 \in Frames /\ f0.a = "resume" /\ f0.thread = t /\ f0.jmp = 0
  <2>1. r.jmp = 0
    BY <1>4 DEF Rests
  <2> HIDE DEF r
  <2> QED
    BY <2>1 DEF Frames
<1> HIDE DEF f0, q0, r
<1>8. Sound(q0)
  BY <1>4, <1>6 DEF Sound
<1>9. /\ q0.status = "yield" => Yielded(q0)
      /\ q0.status = "ok" => Len(q0.ci) = 1
      /\ q0.allow /\ ~q0.errf
  BY <1>4, <1>6 DEF Rests, Yielded
<1>10. /\ Append(native, f0)[n + 1] = f0
       /\ \A i \in 1..n : Append(native, f0)[i] = native[i]
       /\ \A i \in 0..n : ThreadAt(Append(native, f0), i) = ThreadAt(native, i)
  BY <1>1, <1>7, PushedIs
<1>11. Placed(Append(native, f0), n + 1)
  <2>1. n + 1 > 1 /\ Append(native, f0)[n + 1 - 1].a = "cfun" /\ n + 1 - 1 = n
    <3>1. n \in 1..n /\ n + 1 - 1 = n /\ n + 1 > 1
      BY <1>2
    <3> QED
      BY <1>2, <1>10, <3>1
  <2>2. \A k \in 0..(n + 1 - 1) : ThreadAt(Append(native, f0), k) # f0.thread
    BY <1>7, <1>10, <2>1 DEF Off
  <2> QED
    BY <1>2, <1>7, <1>10, <2>1, <2>2 DEF Placed
<1>12. Fits(native, g, f0)
  BY <1>1, <1>7, <1>11 DEF Fits
<1>13. Matches(q0, TRUE, Imply(g[n], f0, n + 1)) /\ Imply(g[n], f0, n + 1).c = z
       /\ Imply(g[n], f0, n + 1).d = 0
  <2> DEFINE y == Imply(g[n], f0, n + 1)
  <2>1. Nested(f0) = 1 /\ CallInfos(f0) = 0 /\ Protects(f0)
    BY <1>7 DEF Nested, CallInfos, Protects
  <2>2. /\ y.c = g[n].c + 1 /\ y.d = 0 /\ y.j = n + 1 /\ y.h = 0 /\ y.p = 0 /\ y.b = g[n].c + 1
    <3> DEFINE w == g[n]  i == n + 1
    <3>1. w \in Implied /\ i \in Nat
      BY <1>3, <1>5
    <3> HIDE DEF w, i
    <3>2. /\ Imply(w, f0, i).c = w.c + Nested(f0)
          /\ Imply(w, f0, i).d = (IF f0.a = "resume" THEN 0 ELSE w.d + CallInfos(f0))
          /\ Imply(w, f0, i).j = (IF Protects(f0) THEN i ELSE w.j)
          /\ Imply(w, f0, i).h = (IF f0.a = "resume" THEN 0 ELSE IF f0.a = "hook" THEN w.h + 1 ELSE w.h)
          /\ Imply(w, f0, i).p = (IF f0.a = "resume" THEN 0 ELSE IF f0.a = "pcall" THEN w.p + 1 ELSE w.p)
          /\ Imply(w, f0, i).b = (IF f0.a = "resume" THEN w.c + 1 ELSE w.b)
      BY <1>7, <3>1, ImplyType
    <3>3. /\ Imply(w, f0, i).c = w.c + 1 /\ Imply(w, f0, i).d = 0 /\ Imply(w, f0, i).j = i
          /\ Imply(w, f0, i).h = 0 /\ Imply(w, f0, i).p = 0 /\ Imply(w, f0, i).b = w.c + 1
      BY <1>7, <2>1, <3>2
    <3> QED
      BY <3>3 DEF w, i
  <2>3. q0.nC = y.c /\ q0.baseC = y.b
    BY <1>3, <1>6, <2>2
  <2>4. q0.status = "ok" \/ q0.status = "yield"
    BY <1>4, <1>6
  <2>5. y.c = z
    BY <1>3, <2>2
  <2> HIDE DEF y
  <2>6. Matches(q0, TRUE, y)
    BY <1>6, <1>9, <2>2, <2>3, <2>4 DEF Matches
  <2> QED
    BY <2>2, <2>5, <2>6 DEF y
<1>14. StackInv(Append(native, f0), g1)
       /\ StatesInv([st EXCEPT ![t] = q0], Append(native, f0), g1)
  <2> HIDE DEF State
  <2>1. /\ StackInv(Append(State.native, f0), Pushed(State.native, g, f0))
        /\ StatesInv([State.st EXCEPT ![f0.thread] = q0],
                     Append(State.native, f0), Pushed(State.native, g, f0))
    BY <1>1, <1>7, <1>8, <1>12, <1>13, PushCoroutine
  <2> QED
    BY <1>1, <1>7, <2>1
<1>15. /\ Len(Append(native, f0)) = n + 1 /\ g1[n + 1] = Imply(g[n], f0, n + 1)
       /\ Top(Append(native, f0)) = t /\ Append(native, f0) # <<>> /\ Last(Append(native, f0)) = f0
  BY <1>1, <1>7, PushedLast
<1>16. Agree(x0, g1)
  <2> HIDE DEF g1
  <2> QED
    BY <1>14 DEF Agree
<1>17. x0.st[t] = q0 /\ x0.native = Append(native, f0)
  BY <1>2
<1> HIDE DEF x0, g1
<1>18. g1[n + 1].c < Limit /\ g1[n + 1].d = 0
  BY <1>5, <1>13, <1>15
<1>19. Pushed(native, g, f0) = g1 /\ x0.native = Append(native, f0) /\ r = st[t]
  BY <1>17 DEF g1, r
<1>20. /\ Top(x0.native) = t /\ Last(x0.native) = f0 /\ x0.native # <<>>
       /\ Len(x0.native) = n + 1
  BY <1>15, <1>17
<1>21. q0.status = st[t].status /\ q0.ci = st[t].ci
  BY <1>6, <1>19
<1>22. Armed(g, t, q0, f0, x0)
  <2>1. Agree(x0, Pushed(native, g, f0)) /\ Pushed(native, g, f0)[n + 1].c < Limit
        /\ Pushed(native, g, f0)[n + 1].d = 0
    BY <1>16, <1>18, <1>19
  <2> QED
    BY <1>8, <1>9, <1>17, <1>20, <1>21, <2>1 DEF Armed
<1> QED
  BY <1>0, <1>22

\* A coroutine that has yielded goes on.
Woken(q) == [q EXCEPT !.status = "ok", !.ci = Front(q.ci)]

\* It is rid of the call of yield.
LEMMA WokenIs ==
    ASSUME NEW q, Sound(q), Yielded(q), ~Stranded(q), q.status = "yield"
    PROVE  LET q2 == Woken(q)
           IN  /\ Sound(q2) /\ q2.status = "ok" /\ q2.nC = q.nC /\ q2.baseC = q.baseC
               /\ q2.jmp = q.jmp /\ q2.errf = q.errf /\ q2.allow = q.allow
               /\ Len(q2.ci) = Len(q.ci) - 1 /\ q2.vals = q.vals
               /\ \A i \in 1..(Len(q.ci) - 1) : q2.ci[i] = q.ci[i]
<1> DEFINE q2 == Woken(q)
           o == q.opened
           r == [q EXCEPT !.status = "ok"]
           p == [r EXCEPT !.ci = Front(r.ci), !.opened = o]
<1>1. /\ q \in LuaStates /\ Len(q.ci) \in Nat /\ Len(q.ci) >= 3 /\ o \subseteq Nat
      /\ q.ci[Len(q.ci)] # "lua"
  <2>1. q \in LuaStates
    BY DEF Sound
  <2>2. Len(q.ci) \in Nat /\ o \subseteq Nat
    BY <2>1, StateFields
  <2>3. Len(q.ci) >= 2 /\ Len(q.ci) # 2 /\ q.ci[Len(q.ci)] # "lua"
    BY DEF Yielded, Stranded
  <2> DEFINE l == Len(q.ci)
  <2>4. l \in Nat /\ l >= 2 /\ l # 2
    BY <2>2, <2>3
  <2> HIDE DEF l
  <2>5. l >= 3
    BY <2>4
  <2> QED
    BY <2>1, <2>2, <2>3, <2>5 DEF l
<1>2. /\ r \in LuaStates /\ r.status = "ok" /\ r.nC = q.nC /\ r.baseC = q.baseC /\ r.jmp = q.jmp
      /\ r.errf = q.errf /\ r.allow = q.allow /\ r.ci = q.ci /\ r.size = q.size /\ r.opened = o
      /\ r.vals = q.vals
  BY <1>1 DEF LuaStates
<1>3. q2 = p
  BY <1>1, <1>2 DEF LuaStates, Woken
<1>4. p = Popped(r, o)
  BY DEF Popped
<1> HIDE DEF p, q2, r
<1>5. Sound(r)
  BY <1>1, <1>2, SoundIs
<1>6. Len(r.ci) >= 2 /\ o \subseteq r.opened /\ Len(r.ci) \notin o
  BY <1>1, <1>2 DEF Sound
<1> HIDE DEF o
<1>7. LET w == Popped(r, o)
      IN  /\ Sound(w) /\ w.status = r.status /\ w.nC = r.nC /\ w.baseC = r.baseC
          /\ w.jmp = r.jmp /\ w.errf = r.errf /\ w.allow = r.allow
          /\ Len(w.ci) = Len(r.ci) - 1 /\ \A y \in 1..(Len(r.ci) - 1) : w.ci[y] = r.ci[y]
          /\ w.vals = r.vals
  BY <1>5, <1>6, PoppedIs
<1>8. /\ Sound(p) /\ p.status = r.status /\ p.nC = r.nC /\ p.baseC = r.baseC
      /\ p.jmp = r.jmp /\ p.errf = r.errf /\ p.allow = r.allow
      /\ Len(p.ci) = Len(r.ci) - 1 /\ \A y \in 1..(Len(r.ci) - 1) : p.ci[y] = r.ci[y]
      /\ p.vals = r.vals
  BY <1>4, <1>7
<1>9. /\ Sound(q2) /\ q2.status = "ok" /\ q2.nC = q.nC /\ q2.baseC = q.baseC
      /\ q2.jmp = q.jmp /\ q2.errf = q.errf /\ q2.allow = q.allow
      /\ Len(q2.ci) = Len(q.ci) - 1 /\ q2.vals = q.vals
      /\ \A i \in 1..(Len(q.ci) - 1) : q2.ci[i] = q.ci[i]
  BY <1>2, <1>3, <1>8
<1> QED
  BY <1>9 DEF q2

\* A coroutine that goes on where it yielded runs the Lua functions it has.
LEMMA GoesOnKeeps ==
    ASSUME NEW x, NEW g, Agree(x, g), g[Len(x.native)].c < Limit, g[Len(x.native)].d = 0,
           NEW t, Top(x.native) = t, x.native # <<>>, Last(x.native).a = "resume",
           NEW q, x.st[t] = q, q.status = "yield", Yielded(q), ~Stranded(q),
           x.ctl \in {"run", "ret", "fail", "overfull", "crash"}
    PROVE  InOrder([st |-> [x.st EXCEPT ![t] = [q EXCEPT !.status = "ok", !.ci = Front(q.ci)]],
                    native |-> Append(x.native, Exec(t, Len(q.ci) - 2)), ctl |-> x.ctl])
<1> DEFINE n == Len(x.native)  y == g[n]  k == Len(q.ci) - 2  f == Exec(t, k)
           q2 == Woken(q)
<1>1. /\ Matches(q, Yields(x.native, n), y) /\ Sound(q) /\ t \in Threads /\ y \in Implied
      /\ n \in Nat /\ StackInv(x.native, g)
  BY TopMatches DEF Agree
<1>2. /\ q \in LuaStates /\ Len(q.ci) \in Nat /\ Len(q.ci) >= 3 /\ k \in Nat \ {0}
      /\ q.opened \subseteq Nat /\ q.ci[Len(q.ci)] # "lua"
      /\ \A i \in 2..(Len(q.ci) - 1) : q.ci[i] = "lua"
  <2>1. q \in LuaStates
    BY <1>1 DEF Sound
  <2>2. Len(q.ci) \in Nat /\ q.opened \subseteq Nat
    BY <2>1, StateFields
  <2>5. /\ Len(q.ci) >= 2 /\ Len(q.ci) # 2 /\ q.ci[Len(q.ci)] # "lua"
        /\ \A i \in 2..(Len(q.ci) - 1) : q.ci[i] = "lua"
    BY DEF Yielded, Stranded
  <2>3. /\ Len(q.ci) >= 3 /\ q.ci[Len(q.ci)] # "lua"
        /\ \A i \in 2..(Len(q.ci) - 1) : q.ci[i] = "lua"
    <3> DEFINE l == Len(q.ci)
    <3>1. l \in Nat /\ l >= 2 /\ l # 2
      BY <2>2, <2>5
    <3> HIDE DEF l
    <3>2. l >= 3
      BY <3>1
    <3> QED
      BY <2>5, <3>2 DEF l
  <2>4. k \in Nat \ {0}
    BY <2>2, <2>3
  <2> QED
    BY <2>1, <2>2, <2>3, <2>4
<1>3. f \in Frames /\ f.a = "exec" /\ f.thread = t /\ f.n = k
  BY <1>1, <1>2 DEF Exec, Frames
<1> HIDE DEF f
<1>4. /\ Sound(q2) /\ q2.status = "ok" /\ q2.nC = q.nC /\ q2.baseC = q.baseC /\ q2.jmp = q.jmp
      /\ q2.errf = q.errf /\ q2.allow = q.allow /\ Len(q2.ci) = Len(q.ci) - 1 /\ q2.vals = q.vals
      /\ \A i \in 1..(Len(q.ci) - 1) : q2.ci[i] = q.ci[i]
  BY <1>1, WokenIs
<1> HIDE DEF q2
<1> DEFINE w == Imply(y, f, n + 1)
<1>5. Nested(f) = 0 /\ CallInfos(f) = k /\ ~Protects(f)
  BY <1>3 DEF Nested, CallInfos, Protects
<1>6. w.c = y.c /\ w.d = k /\ w.j = y.j /\ w.h = y.h /\ w.p = y.p /\ w.b = y.b
  <2>1. n + 1 \in Nat /\ y.c \in Nat /\ y.d = 0
    BY <1>1 DEF Implied
  <2> DEFINE i == n + 1
  <2>2. i \in Nat /\ y \in Implied
    BY <1>1
  <2>3. w = Imply(y, f, i)
    OBVIOUS
  <2> HIDE DEF y, n, k, i, w
  <2>4. /\ Imply(y, f, i).c = y.c + Nested(f)
        /\ Imply(y, f, i).d = (IF f.a = "resume" THEN 0 ELSE y.d + CallInfos(f))
        /\ Imply(y, f, i).j = (IF Protects(f) THEN i ELSE y.j)
        /\ Imply(y, f, i).h = (IF f.a = "resume" THEN 0 ELSE IF f.a = "hook" THEN y.h + 1 ELSE y.h)
        /\ Imply(y, f, i).p = (IF f.a = "resume" THEN 0 ELSE IF f.a = "pcall" THEN y.p + 1 ELSE y.p)
        /\ Imply(y, f, i).b = (IF f.a = "resume" THEN y.c + 1 ELSE y.b)
    BY <1>3, <2>2, ImplyType
  <2>5. /\ w.c = y.c + 0 /\ w.d = y.d + k /\ w.j = y.j /\ w.h = y.h
        /\ w.p = y.p /\ w.b = y.b
    BY <1>3, <1>5, <2>3, <2>4
  <2> QED
    BY <1>2, <2>1, <2>5
<1> HIDE DEF w
<1>7. Matches(q2, FALSE, w)
  <2>1. /\ q.nC = y.c /\ q.baseC = y.b /\ q.jmp = y.j
        /\ q.allow <=> y.h = 0
        /\ q.errf => y.p > 0
    BY <1>1 DEF Matches
  <2>2. Len(q2.ci) = w.d + 1
    BY <1>2, <1>4, <1>6
  <2> HIDE DEF y
  <2> QED
    BY <1>4, <1>6, <2>1, <2>2 DEF Matches
<1>8. Runs(q2, f, w)
  <2>1. \A i \in (w.d - f.n + 2)..(w.d + 1) : i \in 1..(Len(q.ci) - 1) /\ i \in 2..(Len(q.ci) - 1)
    BY <1>2, <1>3, <1>6
  <2>2. \A i \in (w.d - f.n + 2)..(w.d + 1) : q2.ci[i] = "lua"
    <3> TAKE i \in (w.d - f.n + 2)..(w.d + 1)
    <3>1. i \in 1..(Len(q.ci) - 1) /\ i \in 2..(Len(q.ci) - 1)
      BY <2>1
    <3>2. q2.ci[i] = q.ci[i]
      BY <1>4, <3>1
    <3>3. q.ci[i] = "lua"
      BY <1>2, <3>1
    <3> QED
      BY <3>2, <3>3
  <2>3. f.a = "exec"
    BY <1>3
  <2> HIDE DEF y, k, n
  <2> QED
    BY <2>2, <2>3 DEF Runs
<1>9. Fits(x.native, g, f)
  <2>1. Placed(Append(x.native, f), n + 1)
    BY <1>1, <1>3, PlacedOnTop
  <2> QED
    BY <1>3, <2>1 DEF Fits
<1>10. SameBelow(q2, x.st[Top(x.native)], g[Len(x.native)].d + 1)
  BY <1>4 DEF SameBelow
<1> DEFINE z == [st |-> [x.st EXCEPT ![t] = q2], native |-> Append(x.native, f), ctl |-> x.ctl]
           g2 == Pushed(x.native, g, f)
<1>11. Agree(z, g2)
  <2>1. f.a # "resume"
    BY <1>3
  <2>2. Agree([st |-> [x.st EXCEPT ![Top(x.native)] = q2], native |-> Append(x.native, f),
               ctl |-> x.ctl], Pushed(x.native, g, f))
    BY <1>4, <1>7, <1>8, <1>9, <1>10, <2>1, PushAgrees DEF w, y
  <2> QED
    BY <2>2
<1>12. z.native = Append(x.native, f) /\ z.ctl = x.ctl
  OBVIOUS
<1>13. Len(z.native) = n + 1 /\ g2[n + 1] = w
  BY <1>1, <1>3, PushedLast DEF w
<1> HIDE DEF z, g2
<1>14. g2[Len(z.native)].c < Limit
  BY <1>6, <1>13
<1>15. InOrder(z)
  BY <1>11, <1>12, <1>14, AgreeInOrder
<1> QED
  BY <1>15 DEF z, q2, f, Woken

\* A coroutine that starts calls the function on its stack, or fails.
LEMMA StartsKeeps ==
    ASSUME NEW c, NEW g, Ready(c, g), Last(c.native).a = "resume", NEW t, Top(c.native) = t,
           NEW f
    PROVE  /\ f \in Functs /\ (f # "lua" => c.st[t].vals = "values")
                => InOrder(Enter(c, f, Append(c.native, Body(t, f))))
           /\ InOrder(RunError(c))
<1>1. Agree(c, g) /\ c.native # <<>> /\ c.st[t].status = "ok" /\ g[Len(c.native)].c < Limit
  BY DEF Ready
<1> DEFINE nat == Append(c.native, Body(t, f))
<1>2. ASSUME f \in Functs, f # "lua" => c.st[t].vals = "values"
      PROVE  InOrder(Enter(c, f, nat))
  <2> HIDE DEF nat
  <2>1. \/ InOrder(Enter(c, f, nat))
        \/ \E q : /\ Sound(q) /\ Entered(q, c.st[t], f)
                  /\ Enter(c, f, nat) = [st |-> [c.st EXCEPT ![t] = q], native |-> nat,
                                         ctl |-> "run"]
    BY <1>1, <1>2, EnterCases
  <2>2. ASSUME NEW q, Sound(q), Entered(q, c.st[t], f),
               Enter(c, f, nat) = [st |-> [c.st EXCEPT ![t] = q], native |-> nat, ctl |-> "run"]
        PROVE  InOrder(Enter(c, f, nat))
    <3>1. f # "lua" => q.vals = "values"
      BY <1>2, <2>2 DEF Entered
    <3>2. InOrder([st |-> [c.st EXCEPT ![t] = q], native |-> Append(c.native, Body(t, f)),
                   ctl |-> "run"])
      BY <1>1, <1>2, <2>2, <3>1, BodyKeeps
    <3> QED
      BY <2>2, <3>2 DEF nat
  <2> QED
    BY <2>1, <2>2
<1>3. InOrder(RunError(c))
  BY <1>1, RunErrorKeeps
<1> QED
  BY <1>2, <1>3

\* auxresume and lua_resume: the state they leave.
LEMMA AuxResumeIs ==
    ASSUME NEW t \in Threads, NEW fn, AuxResume(t, fn), ctl = "run",
           st \in [Threads -> LuaStates]
    PROVE  LET r == st[t]
               z == S.nC + 1
               q == [r EXCEPT !.nC = z, !.baseC = z, !.jmp = Len(native) + 1]
               f == [a |-> "resume", thread |-> t, jmp |-> r.jmp]
               x == [st |-> [st EXCEPT ![t] = q], native |-> Append(native, f), ctl |-> "run"]
               v == IF r.status = "ok" THEN "none" ELSE r.vals
               refused == [st |-> [st EXCEPT ![t] = [r EXCEPT !.nC = S.nC, !.vals = v]],
                           native |-> native, ctl |-> "fail"]
               failed == [st |-> st, native |-> native, ctl |-> "fail"]
               crashed == [st |-> st, native |-> native, ctl |-> "crash"]
           IN  Becomes(IF CoStatus(L, t) # "suspended" THEN failed
                       ELSE IF S.nC >= MaxCCalls THEN refused
                       ELSE IF Stranded(r) THEN crashed ELSE Resumed(x, t, fn))
<1> DEFINE r == st[t]  n == Len(native)
           z == S.nC + 1
           q == [r EXCEPT !.nC = z, !.baseC = z, !.jmp = n + 1]
           f == [a |-> "resume", thread |-> t, jmp |-> r.jmp]
           x == [st |-> [st EXCEPT ![t] = q], native |-> Append(native, f), ctl |-> "run"]
           v == IF r.status = "ok" THEN "none" ELSE r.vals
           refused == [st |-> [st EXCEPT ![t] = [r EXCEPT !.nC = S.nC, !.vals = v]],
                       native |-> native, ctl |-> "fail"]
           failed == [st |-> st, native |-> native, ctl |-> "fail"]
           crashed == [st |-> st, native |-> native, ctl |-> "crash"]
<1>1. State = [st |-> st, native |-> native, ctl |-> ctl]
  BY DEF State
<1>2. [State EXCEPT !.ctl = "fail"] = failed /\ [State EXCEPT !.ctl = "crash"] = crashed
  BY <1>1
<1>3. [State EXCEPT !.ctl = "fail", !.st[t].nC = S.nC,
                    !.st[t].vals = IF r.status = "ok" THEN "none" ELSE @] = refused
  <2> DEFINE st2 == [State.st EXCEPT ![t].nC = S.nC, ![t].vals = IF r.status = "ok" THEN "none" ELSE @]
             y == [State EXCEPT !.ctl = "fail", !.st[t].nC = S.nC,
                                !.st[t].vals = IF r.status = "ok" THEN "none" ELSE @]
             p == [r EXCEPT !.nC = S.nC, !.vals = v]
  <2>1. y = [State EXCEPT !.ctl = "fail", !.st = st2]
    <3> HIDE DEF State, S, r
    <3> QED
      BY <1>1
  <2>2. st2 = [st EXCEPT ![t] = p]
    <3>1. State.st = st
      BY <1>1
    <3> QED
      BY <3>1 DEF LuaStates
  <2> HIDE DEF st2, p
  <2>3. y = [st |-> st2, native |-> native, ctl |-> "fail"]
    <3> HIDE DEF y, State
    <3> QED
      BY <1>1, <2>1
  <2> QED
    BY <2>2, <2>3 DEF p
<1>4. [State EXCEPT !.st[t] = [@ EXCEPT !.nC = S.nC + 1, !.baseC = S.nC + 1, !.jmp = Len(native) + 1],
                    !.native = Append(@, [a |-> "resume", thread |-> t, jmp |-> st[t].jmp])] = x
  <2> DEFINE y == [State EXCEPT !.st[t] = [@ EXCEPT !.nC = S.nC + 1, !.baseC = S.nC + 1,
                                                    !.jmp = Len(native) + 1],
                    !.native = Append(@, [a |-> "resume", thread |-> t, jmp |-> st[t].jmp])]
             st2 == [st EXCEPT ![t] = q]
             nat2 == Append(native, f)
  <2>1. State.st = st /\ State.native = native
    BY <1>1
  <2>2. y = [State EXCEPT !.st = st2, !.native = nat2]
    BY <2>1
  <2> HIDE DEF st2, nat2, y
  <2>3. y = [st |-> st2, native |-> nat2, ctl |-> ctl]
    <3> HIDE DEF State
    <3> QED
      BY <1>1, <2>2
  <2> QED
    BY <2>3 DEF st2, nat2, y
<1>5. Becomes(IF CoStatus(L, t) # "suspended" THEN failed
              ELSE IF S.nC >= MaxCCalls THEN refused
              ELSE IF Stranded(r) THEN crashed ELSE Resumed(x, t, fn))
  <2> HIDE DEF x, refused, failed, crashed, State
  <2> QED
    BY <1>2, <1>3, <1>4 DEF AuxResume
<1> QED
  BY <1>5

\* A coroutine goes on where it yielded.
LEMMA ResumedWakes ==
    ASSUME NEW x, x = [st |-> x.st, native |-> x.native, ctl |-> x.ctl],
           x.st \in [Threads -> LuaStates], NEW t \in Threads, NEW fn,
           NEW q, x.st[t] = q, q.status = "yield"
    PROVE  Resumed(x, t, fn)
             = [st |-> [x.st EXCEPT ![t] = Woken(q)],
                native |-> Append(x.native, Exec(t, Len(q.ci) - 2)), ctl |-> x.ctl]
<1> DEFINE st2 == [x.st EXCEPT ![t].status = "ok", ![t].ci = Front(@)]
           nat2 == Append(x.native, Exec(t, Len(q.ci) - 2))
           w == Resumed(x, t, fn)
<1>1. w = [x EXCEPT !.st[t].status = "ok", !.st[t].ci = Front(@),
                    !.native = Append(@, Exec(t, Len(q.ci) - 2))]
  BY DEF Resumed
<1>2. w = [x EXCEPT !.st = st2, !.native = nat2]
  BY <1>1
<1>3. st2 = [x.st EXCEPT ![t] = Woken(q)]
  BY DEF LuaStates, Woken
<1> HIDE DEF st2, nat2, w
<1>4. w = [st |-> st2, native |-> nat2, ctl |-> x.ctl]
  BY <1>2
<1> QED
  BY <1>3, <1>4 DEF nat2, w

\* A coroutine starts: what an earlier run has left below the function stays.
Begun(q) == [q EXCEPT !.vals = IF q.vals = "values" THEN q.vals ELSE "none"]

\* The call of the function.
LEMMA ResumedStarts ==
    ASSUME NEW x, x = [st |-> x.st, native |-> x.native, ctl |-> x.ctl],
           x.st \in [Threads -> LuaStates], NEW t \in Threads, NEW fn,
           NEW q, x.st[t] = q, q.status # "yield", NEW y,
           y = [st |-> [x.st EXCEPT ![t] = Begun(q)], native |-> x.native, ctl |-> x.ctl]
    PROVE  Resumed(x, t, fn) = IF fn = "uncallable" THEN RunError(y)
                               ELSE Enter(y, fn, Append(y.native, Body(t, fn)))
<1> DEFINE st2 == [x.st EXCEPT ![t].vals = IF @ = "values" THEN @ ELSE "none"]
           c == [x EXCEPT !.st[t].vals = IF @ = "values" THEN @ ELSE "none"]
<1>1. c = [x EXCEPT !.st = st2]
  OBVIOUS
<1>2. st2 = [x.st EXCEPT ![t] = Begun(q)]
  BY DEF Begun
<1>3. Resumed(x, t, fn) = IF fn = "uncallable" THEN RunError(c)
                          ELSE Enter(c, fn, Append(c.native, Body(t, fn)))
  BY DEF Resumed
<1> HIDE DEF st2, c
<1>4. c = [st |-> st2, native |-> x.native, ctl |-> x.ctl]
  BY <1>1
<1>5. c = y
  BY <1>2, <1>4
<1> QED
  BY <1>3, <1>5

\* A coroutine starts, goes on where it yielded, or is refused.
LEMMA AuxResumeKeeps ==
    ASSUME IInv, NEW t \in Threads, NEW fn \in Functs \cup {"uncallable"}, AuxResume(t, fn)
    PROVE  IInv'
<1>1. native # <<>> /\ top.a = "cfun" /\ top.a # "resume" /\ ctl = "run"
      /\ st[t].status # "none" /\ (st[t].vals = "values" \/ fn = "lua")
  BY DEF AuxResume, InC
<1>2. PICK g : Ready(State, g)
  BY <1>1, ReadyNow
<1>3. /\ L = Top(native) /\ Len(native) \in Nat /\ native \in Seq(Frames)
      /\ st \in [Threads -> LuaStates] /\ S.nC \in Nat /\ S.nC < Limit
  BY <1>1, ReadyNow, TopNow
<1> DEFINE r == st[t]  n == Len(native)
           z == S.nC + 1
           q == [r EXCEPT !.nC = z, !.baseC = z, !.jmp = n + 1]
           f == [a |-> "resume", thread |-> t, jmp |-> r.jmp]
           x == [st |-> [st EXCEPT ![t] = q], native |-> Append(native, f), ctl |-> "run"]
           v == IF r.status = "ok" THEN "none" ELSE r.vals
           refused == [st |-> [st EXCEPT ![t] = [r EXCEPT !.nC = S.nC, !.vals = v]],
                       native |-> native, ctl |-> "fail"]
           failed == [st |-> st, native |-> native, ctl |-> "fail"]
           crashed == [st |-> st, native |-> native, ctl |-> "crash"]
<1>4. State = [st |-> st, native |-> native, ctl |-> ctl]
  BY DEF State
<1>8. Becomes(IF CoStatus(L, t) # "suspended" THEN failed
              ELSE IF S.nC >= MaxCCalls THEN refused
              ELSE IF Stranded(r) THEN crashed ELSE Resumed(x, t, fn))
  BY <1>1, <1>3, AuxResumeIs
<1>7. StackInv(native, g) /\ StatesInv(st, native, g) /\ g[Len(native)].c < Limit
  BY <1>2, <1>4 DEF Ready, Agree
<1>9. CASE CoStatus(L, t) # "suspended"
  <2>1. InOrder(failed)
    BY <1>7, InOrderIs
  <2> HIDE DEF failed
  <2> QED
    BY <1>8, <1>9, <2>1, BecomesKeeps
<1>10. ASSUME CoStatus(L, t) = "suspended"
       PROVE  Off(native, t) /\ Rests(st[t]) /\ st[t].status \in {"ok", "yield"}
  BY <1>1, <1>2, <1>10, SuspendedIs
<1>11. CASE CoStatus(L, t) = "suspended" /\ S.nC >= MaxCCalls
  <2>1. v \in {"none", "function", "values"} /\ (r.status = "yield" => v = r.vals)
    BY <1>3, StateFields
  <2>2. InOrder(refused)
    <3> DEFINE m == S.nC
    <3>1. m \in Nat /\ m <= Limit
      BY <1>3, Limits DEF Limit
    <3> HIDE DEF v, m
    <3>2. InOrder([st |-> [st EXCEPT ![t] = [st[t] EXCEPT !.nC = m, !.vals = v]],
                   native |-> native, ctl |-> "fail"])
      BY <1>2, <1>10, <1>11, <2>1, <3>1, RefusedKeeps
    <3> QED
      BY <3>2 DEF m
  <2> HIDE DEF refused
  <2>3. Becomes(refused)
    BY <1>8, <1>11
  <2> QED
    BY <2>2, <2>3, BecomesKeeps
<1>12. CASE CoStatus(L, t) = "suspended" /\ ~(S.nC >= MaxCCalls) /\ Stranded(r)
  <2>1. InOrder(crashed)
    BY <1>7, InOrderIs
  <2> HIDE DEF crashed
  <2>2. Becomes(crashed)
    BY <1>8, <1>12
  <2> QED
    BY <2>1, <2>2, BecomesKeeps
<1>13. CASE CoStatus(L, t) = "suspended" /\ ~(S.nC >= MaxCCalls) /\ ~Stranded(r)
  <2>1. S.nC < MaxCCalls
    BY <1>3, <1>13, Limits
  <2> DEFINE w == IF r.status = "ok" /\ r.vals # "values" THEN "none" ELSE r.vals
             qw == [r EXCEPT !.nC = z, !.baseC = z, !.jmp = n + 1, !.vals = w]
             y == [st |-> [st EXCEPT ![t] = qw], native |-> Append(native, f), ctl |-> "run"]
             g1 == Pushed(native, g, f)
  <2>2. w \in {"none", "function", "values"} /\ (r.status = "yield" => w = r.vals)
    BY <1>3, StateFields
  <2>3. /\ r.status = "yield" => qw = q
        /\ r.status = "ok" => qw = Begun(q)
        /\ q.status = r.status /\ q.ci = r.ci /\ qw.vals = w
    <3>1. r \in LuaStates
      BY <1>3
    <3> HIDE DEF r, n, z
    <3> QED
      BY <2>2, <3>1 DEF LuaStates, Begun
  <2>4. /\ Agree(y, g1) /\ g1[n + 1].c < Limit /\ g1[n + 1].d = 0
        /\ Top(y.native) = t /\ y.st[t] = qw /\ Last(y.native) = f /\ y.native # <<>>
        /\ Len(y.native) = n + 1 /\ Sound(qw) /\ qw.status = r.status /\ qw.ci = r.ci
        /\ qw.status = "yield" => Yielded(qw)
    <3>1. Off(native, t) /\ st[t].status \in {"ok", "yield"} /\ S.nC < MaxCCalls
      BY <1>10, <1>13, <2>1
    <3>2. w \in {"none", "function", "values"} /\ (st[t].status = "yield" => w = st[t].vals)
      BY <2>2
    <3>3. qw = ArmedState(t, w) /\ f = ArmedFrame(t) /\ y = Arming(t, w)
      BY DEF ArmedState, ArmedFrame, Arming
    <3> HIDE DEF State, w, qw, f, y
    <3>5. Armed(g, t, ArmedState(t, w), ArmedFrame(t), Arming(t, w))
      BY <1>1, <1>2, <3>1, <3>2, CoroutineReady
    <3>4. Armed(g, t, qw, f, y)
      BY <3>3, <3>5
    <3> QED
      BY <3>4 DEF Armed
  <2>5. /\ f.a = "resume" /\ x.ctl = "run" /\ x = [st |-> x.st, native |-> x.native, ctl |-> x.ctl]
        /\ y = [st |-> [x.st EXCEPT ![t] = qw], native |-> x.native, ctl |-> x.ctl] /\ y.ctl = "run"
        /\ x.st[t] = q
    BY <1>3
  <2>6. Becomes(Resumed(x, t, fn))
    BY <1>8, <1>13
  <2>7. x.st \in [Threads -> LuaStates]
    <3>1. q \in LuaStates
      <4>1. r \in LuaStates /\ z \in Nat /\ n + 1 \in Nat
        BY <1>3
      <4> HIDE DEF r, n, z
      <4> QED
        BY <4>1 DEF LuaStates
    <3> HIDE DEF q
    <3> QED
      BY <1>3, <3>1
  <2>8. ~(r.status = "yield" /\ Len(r.ci) = 2)
    BY <1>13 DEF Stranded
  <2>9. r.status = "ok" /\ fn # "lua" => w = "values"
    BY <1>1
  <2> HIDE DEF x, y, g1, q, qw, f, r, n, w
  <2>10. g1[Len(y.native)].c < Limit /\ g1[Len(y.native)].d = 0
    BY <2>4
  <2>11. CASE r.status = "yield"
    <3> DEFINE y2 == [st |-> [y.st EXCEPT ![t] = Woken(q)],
                      native |-> Append(y.native, Exec(t, Len(q.ci) - 2)), ctl |-> y.ctl]
    <3>1. y = x /\ q.status = "yield" /\ Yielded(q) /\ ~Stranded(q) /\ y.st[t] = q
      <4>1. qw = q
        BY <2>3, <2>11
      <4>2. [x.st EXCEPT ![t] = q] = x.st
        BY <2>5, <2>7
      <4> QED
        BY <2>3, <2>4, <2>5, <2>8, <2>11, <4>1, <4>2 DEF Stranded
    <3>2. InOrder(y2)
      BY <2>4, <2>5, <2>10, <3>1, GoesOnKeeps DEF Woken
    <3>3. Resumed(x, t, fn) = y2
      <4>1. y2 = [st |-> [x.st EXCEPT ![t] = Woken(q)],
                  native |-> Append(x.native, Exec(t, Len(q.ci) - 2)), ctl |-> x.ctl]
        BY <3>1
      <4> HIDE DEF y2
      <4> QED
        BY <2>5, <2>7, <3>1, <4>1, ResumedWakes
    <3> HIDE DEF y2
    <3> QED
      BY <2>6, <3>2, <3>3, BecomesKeeps
  <2>12. CASE r.status = "ok"
    <3>1. q.status # "yield" /\ qw = Begun(q) /\ qw.status = "ok"
      BY <2>3, <2>4, <2>12
    <3>2. Resumed(x, t, fn) = IF fn = "uncallable" THEN RunError(y)
                              ELSE Enter(y, fn, Append(y.native, Body(t, fn)))
      BY <2>5, <2>7, <3>1, ResumedStarts
    <3>3. Ready(y, g1)
      BY <2>4, <2>10, <3>1 DEF Ready
    <3>4. Last(y.native).a = "resume" /\ Top(y.native) = t
      BY <2>4, <2>5
    <3>5. fn \in Functs /\ fn # "lua" => y.st[t].vals = "values"
      BY <2>3, <2>4, <2>9, <2>12
    <3>6. InOrder(RunError(y)) /\ (fn \in Functs => InOrder(Enter(y, fn, Append(y.native, Body(t, fn)))))
      BY <3>3, <3>4, <3>5, StartsKeeps
    <3>7. InOrder(Resumed(x, t, fn))
      BY <3>2, <3>6
    <3> QED
      BY <2>6, <3>7, BecomesKeeps
  <2> QED
    BY <1>10, <1>13, <2>11, <2>12 DEF r
<1> QED
  BY <1>9, <1>11, <1>12, <1>13

\* luaB_yield is called by a Lua function that lua_resume runs, or by lua_resume.
LEMMA YieldsFrom ==
    ASSUME NEW nat, NEW g, StackInv(nat, g), NEW n, n = Len(nat), nat # <<>>,
           nat[n].a = "cfun", ~(g[n].c > g[n].b)
    PROVE  /\ n \in Nat /\ n - 1 \in 1..n /\ g[n].c = g[n].b
           /\ g[n] = Imply(g[n - 1], nat[n], n) /\ g[n - 1] \in Implied
           /\ nat[n - 1] \in Frames /\ nat[n] \in Frames /\ nat[n - 1].thread = nat[n].thread
           /\ nat[n - 1].a \in {"exec", "resume"}
           /\ nat[n - 1].a = "exec" =>
                 /\ n - 2 \in 1..n /\ nat[n - 2].a = "resume"
                 /\ nat[n - 2].thread = nat[n].thread
                 /\ g[n - 1] = Imply(g[n - 2], nat[n - 1], n - 1)
                 /\ g[n - 2].d = 0 /\ g[n - 2] \in Implied /\ g[n - 2].c < Limit
           /\ nat[n - 1].a = "resume" => g[n - 1].d = 0 /\ g[n - 1].c < Limit
<1>1. n \in Nat /\ n \in 1..n /\ nat \in Seq(Frames)
  BY StackTypes
<1>2. ASSUME NEW i \in 1..n
      PROVE  /\ Placed(nat, i) /\ Follows(nat, g, i) /\ i - 1 \in 0..n /\ nat[i] \in Frames
             /\ g[i - 1] \in Implied /\ g[i] \in Implied /\ g[i - 1].b <= g[i - 1].c
  <2>1. Placed(nat, i) /\ Follows(nat, g, i) /\ i - 1 \in 0..n /\ nat[i] \in Frames /\ i \in 0..n
    <3>1. i - 1 \in 0..n /\ i \in 0..n
      BY <1>1
    <3>2. nat[i] \in Frames
      BY <1>1
    <3>3. Placed(nat, i) /\ Follows(nat, g, i)
      BY DEF StackInv
    <3> QED
      BY <3>1, <3>2, <3>3
  <2>2. g[i - 1] \in Implied /\ g[i] \in Implied
    BY <2>1, StackTypes
  <2>3. g[i - 1].b <= g[i - 1].c
    <3>1. CASE i - 1 = 0
      BY <3>1 DEF StackInv, Nothing
    <3>2. CASE i - 1 \in 1..n
      BY <3>2 DEF StackInv, Grows
    <3> QED
      BY <1>1, <3>1, <3>2
  <2> QED
    BY <2>1, <2>2, <2>3
\* A call adds to the C calls of a coroutine.
<1>3. ASSUME NEW i \in 1..n, nat[i].a = "call"
      PROVE  g[i].c > g[i].b
  <2> DEFINE x == g[i - 1]  y == g[i]
  <2>1. y = Imply(x, nat[i], i) /\ x \in Implied /\ nat[i] \in Frames /\ x.b <= x.c /\ i \in Nat
    BY <1>2 DEF Follows
  <2> HIDE DEF x, y
  <2>2. Nested(nat[i]) = 1
    BY <1>3 DEF Nested
  <2>3. Imply(x, nat[i], i).c = x.c + Nested(nat[i]) /\ Imply(x, nat[i], i).b = x.b
    BY <1>3, <2>1, ImplyType
  <2>4. x.c \in Nat /\ x.b \in Nat
    BY <2>1 DEF Implied
  <2>5. y.c > y.b
    BY <2>1, <2>2, <2>3, <2>4
  <2> QED
    BY <2>5 DEF y
\* Frames of C functions and of luaV_execute do not.
<1>4. ASSUME NEW i \in 1..n, nat[i].a \in {"cfun", "exec"}, ~(g[i].c > g[i].b)
      PROVE  ~(g[i - 1].c > g[i - 1].b)
  <2> DEFINE x == g[i - 1]  y == g[i]
  <2>1. y = Imply(x, nat[i], i) /\ x \in Implied /\ nat[i] \in Frames /\ i \in Nat
    BY <1>2 DEF Follows
  <2> HIDE DEF x
  <2>2. Nested(nat[i]) = 0
    BY <1>4 DEF Nested
  <2>3. Imply(x, nat[i], i).c = x.c + Nested(nat[i]) /\ Imply(x, nat[i], i).b = x.b
    BY <1>4, <2>1, ImplyType
  <2>4. x.c \in Nat /\ x.b \in Nat
    BY <2>1 DEF Implied
  <2>5. y.c = x.c /\ y.b = x.b
    BY <2>1, <2>2, <2>3, <2>4
  <2> QED
    BY <1>4, <2>5 DEF x
<1>5. /\ n - 1 \in 1..n /\ nat[n - 1].a \in {"exec", "resume"}
      /\ nat[n].thread = nat[n - 1].thread /\ ~(g[n - 1].c > g[n - 1].b)
  <2>1. Placed(nat, n)
    BY <1>1, <1>2
  <2>2. n > 1 /\ nat[n - 1].a \in {"exec", "call", "resume"} /\ nat[n].thread = ThreadAt(nat, n - 1)
    BY <2>1 DEF Placed
  <2>3. n - 1 \in 1..n /\ n - 1 # 0
    BY <1>1, <2>2
  <2>4. ~(g[n - 1].c > g[n - 1].b)
    BY <1>1, <1>4
  <2>5. nat[n - 1].a # "call"
    BY <1>3, <2>3, <2>4
  <2> QED
    BY <2>2, <2>3, <2>4, <2>5 DEF ThreadAt
<1>6. ASSUME nat[n - 1].a = "exec"
      PROVE  n - 2 \in 1..n /\ nat[n - 2].a = "resume" /\ nat[n - 1].thread = nat[n - 2].thread
  <2> DEFINE i == n - 1
  <2>1. i \in 1..n /\ i - 1 = n - 2
    BY <1>1, <1>5
  <2> HIDE DEF i
  <2>2. Placed(nat, i) /\ nat[i].a = "exec" /\ ~(g[i].c > g[i].b)
    BY <1>2, <1>5, <1>6, <2>1 DEF i
  <2>3. i > 1 /\ nat[i - 1].a \in {"call", "resume"} /\ nat[i].thread = ThreadAt(nat, i - 1)
    BY <2>2 DEF Placed
  <2>4. i - 1 \in 1..n /\ i - 1 # 0
    BY <1>1, <2>1, <2>3
  <2>5. ~(g[i - 1].c > g[i - 1].b)
    BY <1>4, <2>1, <2>2
  <2>6. nat[i - 1].a # "call"
    BY <1>3, <2>4, <2>5
  <2>7. nat[i - 1].a = "resume" /\ nat[i].thread = nat[i - 1].thread
    BY <2>3, <2>4, <2>6 DEF ThreadAt
  <2> QED
    BY <2>1, <2>4, <2>7 DEF i
<1>7. /\ g[n] = Imply(g[n - 1], nat[n], n) /\ g[n - 1] \in Implied /\ nat[n] \in Frames
  BY <1>1, <1>2 DEF Follows
<1>8. /\ g[n - 1] = Imply(g[n - 2], nat[n - 1], n - 1) /\ g[n - 2] \in Implied
      /\ nat[n - 1] \in Frames /\ g[n - 2].c < Limit /\ g[n - 1].c < Limit
  <2> DEFINE i == n - 1
  <2>1. i \in 1..n /\ i - 1 = n - 2
    BY <1>1, <1>5
  <2> HIDE DEF i
  <2>2. /\ g[i] = Imply(g[i - 1], nat[i], i) /\ g[i - 1] \in Implied
        /\ nat[i] \in Frames /\ g[i - 1].c < Limit
    BY <1>2, <2>1 DEF Follows
  <2>3. g[n - 1].c < Limit
    BY <1>1, <1>2 DEF Follows
  <2> QED
    BY <2>1, <2>2, <2>3 DEF i
<1>9. ASSUME NEW i \in 1..n, nat[i].a = "resume"
      PROVE  g[i].d = 0
  <2>1. g[i] = Imply(g[i - 1], nat[i], i)
    BY <1>2 DEF Follows
  <2> QED
    BY <1>9, <2>1 DEF Imply
<1>10. nat[n - 1].a = "exec" => g[n - 2].d = 0
  <2> DEFINE i == n - 2
  <2> HIDE DEF i
  <2>1. nat[n - 1].a = "exec" => i \in 1..n /\ nat[i].a = "resume"
    BY <1>6 DEF i
  <2> QED
    BY <1>9, <2>1 DEF i
<1>11. nat[n - 1].a = "resume" => g[n - 1].d = 0
  BY <1>5, <1>9
<1>12. g[n].c = g[n].b
  <2>1. g[n].b <= g[n].c /\ g[n] \in Implied
    BY <1>1, <1>2 DEF StackInv, Grows
  <2>2. g[n].b \in Nat /\ g[n].c \in Nat
    BY <2>1 DEF Implied
  <2> QED
    BY <2>1, <2>2
<1> QED
  BY <1>1, <1>5, <1>6, <1>7, <1>8, <1>10, <1>11, <1>12

\* A coroutine yields: the frames on that of lua_resume go.
LEMMA LuaYieldKeeps ==
    ASSUME IInv, LuaYield
    PROVE  IInv'
<1>1. native # <<>> /\ top.a = "cfun" /\ top.f = "yield" /\ top.a # "resume"
      /\ ctl = "run"
      /\ Becomes(IF S.nC > S.baseC THEN RunError(State)
                 ELSE [st |-> [st EXCEPT ![L].status = "yield"],
                       native |-> IF native[Len(native) - 1].a = "exec"
                                  THEN SubSeq(native, 1, Len(native) - 2) ELSE Front(native),
                       ctl |-> "ret"])
  BY DEF LuaYield, InC
<1>2. PICK g : Ready(State, g)
  BY <1>1, ReadyNow
<1>3. /\ State.native = native /\ State.st = st /\ L = Top(native) /\ S = st[L]
      /\ top = native[Len(native)] /\ st \in [Threads -> LuaStates] /\ L \in Threads
  BY <1>1, ReadyNow
<1>4. /\ Agree(State, g) /\ g[Len(native)].c < Limit /\ State.st[Top(State.native)].status = "ok"
      /\ StackInv(native, g) /\ StatesInv(st, native, g)
  BY <1>2, <1>3 DEF Ready, Agree
<1> HIDE DEF State
<1> DEFINE n == Len(native)  q == [S EXCEPT !.status = "yield"]
           m == IF native[n - 1].a = "exec" THEN n - 2 ELSE n - 1
           x == [st |-> [st EXCEPT ![L] = q], native |-> SubSeq(native, 1, m), ctl |-> "ret"]
<1>5. /\ S.nC = g[n].c /\ S.baseC = g[n].b /\ S.jmp = g[n].j /\ Len(S.ci) = g[n].d + 1
      /\ S.allow <=> g[n].h = 0
      /\ S.errf => g[n].p > 0
      /\ Sound(S) /\ S \in LuaStates
  <2>1. LET r == State.st[Top(State.native)]  y == g[Len(State.native)]
        IN  /\ r.nC = y.c /\ r.baseC = y.b /\ r.jmp = y.j /\ Len(r.ci) = y.d + 1
            /\ r.allow <=> y.h = 0
            /\ r.errf => y.p > 0
            /\ Sound(r) /\ r \in LuaStates
    BY <1>4, RunningIs
  <2> QED
    BY <1>3, <2>1
<1>6. CASE S.nC > S.baseC
  <2>1. InOrder(RunError(State))
    BY <1>1, <1>3, <1>4, RunErrorKeeps
  <2> QED
    BY <1>1, <1>6, <2>1, BecomesKeeps
<1>7. CASE ~(S.nC > S.baseC)
  <2> DEFINE k == IF native[n - 1].a = "exec" THEN native[n - 1].n ELSE 0
  <2>1. /\ n \in Nat /\ n - 1 \in 1..n /\ g[n].c = g[n].b
        /\ g[n] = Imply(g[n - 1], native[n], n) /\ g[n - 1] \in Implied
        /\ native[n - 1] \in Frames /\ native[n] \in Frames
        /\ native[n - 1].thread = native[n].thread /\ native[n - 1].a \in {"exec", "resume"}
        /\ native[n - 1].a = "exec" =>
              /\ n - 2 \in 1..n /\ native[n - 2].a = "resume"
              /\ native[n - 2].thread = native[n].thread
              /\ g[n - 1] = Imply(g[n - 2], native[n - 1], n - 1)
              /\ g[n - 2].d = 0 /\ g[n - 2] \in Implied /\ g[n - 2].c < Limit
        /\ native[n - 1].a = "resume" => g[n - 1].d = 0 /\ g[n - 1].c < Limit
    BY <1>1, <1>3, <1>4, <1>5, <1>7, YieldsFrom
\* The C function runs its CallInfo only.
  <2>2. /\ g[n].c = g[n - 1].c /\ g[n].d = g[n - 1].d + 1 /\ g[n].b = g[n - 1].b
        /\ g[n].j = g[n - 1].j /\ g[n].h = g[n - 1].h /\ g[n].p = g[n - 1].p
    <3> DEFINE y == g[n - 1]  z == g[n]
    <3>1. top.a = "cfun" /\ z = Imply(y, top, n) /\ y \in Implied /\ top \in Frames
      BY <1>1, <1>3, <2>1
    <3> HIDE DEF y, z, n
    <3>2. Nested(top) = 0 /\ CallInfos(top) = 1 /\ ~Protects(top) /\ y.c \in Nat
      BY <3>1 DEF Nested, CallInfos, Protects, Implied
    <3>3. /\ z.c = y.c + Nested(top) /\ z.d = y.d + CallInfos(top) /\ z.j = y.j /\ z.h = y.h
          /\ z.p = y.p /\ z.b = y.b
      BY <3>1, <3>2 DEF Imply
    <3> QED
      BY <3>2, <3>3 DEF y, z
\* And so does luaV_execute.
  <2>16. ASSUME native[n - 1].a = "exec"
         PROVE  /\ g[n - 1].c = g[n - 2].c /\ g[n - 1].d = k /\ g[n - 1].b = g[n - 2].b
                /\ g[n - 1].j = g[n - 2].j /\ g[n - 1].h = g[n - 2].h /\ g[n - 1].p = g[n - 2].p
                /\ k \in Nat \ {0}
    <3> DEFINE e == native[n - 1]  w == g[n - 2]  y == g[n - 1]  i == n - 1
    <3>1. /\ e.a = "exec" /\ y = Imply(w, e, i) /\ w.d = 0 /\ w \in Implied /\ e \in Frames
          /\ i \in Nat /\ k = e.n
      BY <2>1, <2>16
    <3> HIDE DEF e, w, y, i, k, n
    <3>2. Nested(e) = 0 /\ CallInfos(e) = k /\ ~Protects(e) /\ k \in Nat \ {0} /\ w.c \in Nat
      BY <3>1, FrameFields DEF Nested, CallInfos, Protects, Implied
    <3>3. /\ y.c = w.c + Nested(e) /\ y.d = w.d + CallInfos(e) /\ y.j = w.j /\ y.h = w.h
          /\ y.p = w.p /\ y.b = w.b
      BY <3>1, <3>2 DEF Imply
    <3> QED
      BY <3>1, <3>2, <3>3 DEF w, y, i, n
  <2>17. /\ m \in 1..(n - 1) /\ native[m].a = "resume" /\ native[m].thread = native[n].thread
         /\ g[n].c = g[m].c /\ g[n].b = g[m].b /\ g[n].j = g[m].j /\ g[n].h = g[m].h
         /\ g[n].p = g[m].p /\ g[n].d = k + 1 /\ g[m].d = 0 /\ g[m].c < Limit /\ k \in Nat
         /\ \A i \in (m + 1)..n : native[i].thread = native[n].thread
         /\ native[m + 1].a # "resume"
    <3>1. CASE native[n - 1].a = "exec"
      <4>1. m = n - 2 /\ m \in 1..(n - 1) /\ m + 1 = n - 1
        BY <2>1, <3>1
      <4>2. \A i \in (m + 1)..n : i = n - 1 \/ i = n
        BY <2>1, <4>1
      <4> HIDE DEF k, m, n
      <4> QED
        BY <2>1, <2>2, <2>16, <3>1, <4>1, <4>2
    <3>2. CASE native[n - 1].a = "resume"
      <4>1. m = n - 1 /\ m \in 1..(n - 1) /\ m + 1 = n /\ k = 0
        BY <2>1, <3>2
      <4>2. \A i \in (m + 1)..n : i = n
        BY <2>1, <4>1
      <4>3. native[n].a = "cfun"
        BY <1>1, <1>3
      <4> HIDE DEF k, m, n
      <4> QED
        BY <2>1, <2>2, <3>2, <4>1, <4>2, <4>3
    <3> QED
      BY <2>1, <3>1, <3>2
  <2>3. /\ q \in LuaStates /\ q.status = "yield" /\ q.nC = S.nC /\ q.baseC = S.baseC /\ q.jmp = S.jmp
        /\ q.errf = S.errf /\ q.allow = S.allow /\ q.ci = S.ci /\ q.size = S.size
        /\ q.opened = S.opened /\ q.vals = S.vals
    BY <1>5 DEF LuaStates
  <2> HIDE DEF q
  <2>4. Sound(q) /\ \A i : SameBelow(q, S, i)
    BY <1>5, <2>3, SoundIs
  <2>5. Yielded(q)
    <3>1. Runs(S, native[n - 1], g[n - 1]) /\ Runs(S, native[n], g[n])
      BY <1>3, <1>4, <2>1 DEF StatesInv, Top, ThreadAt
    <3>2. S.ci[k + 2] = "yield" /\ (k = 0 => S.vals = "values") /\ Len(S.ci) = k + 2
      <4>1. S.ci[g[n].d + 1] = "yield" /\ (g[n].d = 1 => S.vals = "values")
        BY <1>1, <1>3, <2>1, <3>1 DEF Runs
      <4> HIDE DEF k, n
      <4> QED
        BY <1>5, <2>17, <4>1
    <3>3. \A y \in 2..(k + 1) : S.ci[y] = "lua"
      <4>1. CASE native[n - 1].a = "exec"
        <5>1. \A y \in (g[n - 1].d - k + 2)..(g[n - 1].d + 1) : S.ci[y] = "lua"
          BY <3>1, <4>1 DEF Runs
        <5>2. g[n - 1].d - k + 2 = 2 /\ g[n - 1].d + 1 = k + 1
          BY <2>16, <4>1
        <5> DEFINE d == g[n - 1].d
        <5> HIDE DEF d, k
        <5> QED
          BY <5>1, <5>2
      <4>2. CASE native[n - 1].a # "exec"
        BY <4>2
      <4> QED
        BY <4>1, <4>2
    <3>4. Len(q.ci) = k + 2 /\ q.ci = S.ci /\ "yield" # "lua" /\ k \in Nat /\ q.vals = S.vals
      BY <2>3, <2>17, <3>2
    <3> HIDE DEF k
    <3>5. Len(q.ci) - 1 = k + 1 /\ Len(q.ci) >= 2 /\ (Len(q.ci) = 2 => k = 0)
      BY <3>4
    <3> QED
      BY <3>2, <3>3, <3>4, <3>5 DEF Yielded
  <2>6. Yields(native, m)
    BY <2>17 DEF Yields
  <2>7. Matches(q, Yields(native, m), g[m])
    <3> DEFINE w == g[m]
    <3>1. /\ q.nC = w.c /\ q.baseC = w.b /\ q.jmp = w.j
          /\ q.allow <=> w.h = 0
          /\ q.errf => w.p > 0
      BY <1>5, <2>3, <2>17
    <3> HIDE DEF w, m
    <3>2. Matches(q, Yields(native, m), w)
      BY <2>3, <2>5, <2>6, <3>1 DEF Matches
    <3> QED
      BY <3>2 DEF w
  <2>8. Above(native, m, Top(native)) /\ m \in 0..(n - 1) /\ m \in 0..n /\ m \in 0..m
    <3>1. Top(native) = native[n].thread
      BY <2>1 DEF Top, ThreadAt
    <3> HIDE DEF m
    <3> QED
      BY <2>1, <2>17, <3>1 DEF Above
  <2>9. /\ StackInv(SubSeq(native, 1, m), Below(g, m))
        /\ StatesInv([st EXCEPT ![L] = q], SubSeq(native, 1, m), Below(g, m))
    <3>1. State.native[m + 1].a # "resume"
      BY <1>3, <2>17
    <3> HIDE DEF m
    <3>2. /\ StackInv(SubSeq(State.native, 1, m), Below(g, m))
          /\ StatesInv([State.st EXCEPT ![Top(State.native)] = q],
                       SubSeq(State.native, 1, m), Below(g, m))
      BY <1>3, <1>4, <2>4, <2>7, <2>8, <3>1, CutTop
    <3> QED
      BY <1>3, <3>2
  <2>10. Len(SubSeq(native, 1, m)) = m /\ Below(g, m)[m] = g[m]
    <3>1. m \in 0..n /\ m \in 0..m
      BY <2>8
    <3> HIDE DEF m
    <3>2. Len(SubSeq(native, 1, m)) = m /\ \A i \in 0..m : Below(g, m)[i] = g[i]
      BY <1>4, <3>1, BelowIs
    <3> QED
      BY <3>1, <3>2
  <2>11. InOrder(x)
    <3> DEFINE nat2 == SubSeq(native, 1, m)  g2 == Below(g, m)  st2 == [st EXCEPT ![L] = q]
    <3>1. StackInv(nat2, g2) /\ StatesInv(st2, nat2, g2) /\ g2[Len(nat2)].c < Limit
      BY <2>9, <2>10, <2>17
    <3> HIDE DEF nat2, g2, st2
    <3>2. InOrder([st |-> st2, native |-> nat2, ctl |-> "ret"])
      BY <3>1, InOrderIs
    <3> QED
      BY <3>2 DEF nat2, st2
  <2>12. Becomes(x)
    <3>1. [st EXCEPT ![L].status = "yield"] = [st EXCEPT ![L] = q]
      BY <1>3 DEF q
    <3>2. SubSeq(native, 1, m) = IF native[Len(native) - 1].a = "exec"
                                 THEN SubSeq(native, 1, Len(native) - 2) ELSE Front(native)
      BY <1>1, <1>4, <2>1, FrontIs DEF StackInv
    <3> QED
      BY <1>1, <1>7, <3>1, <3>2
  <2> HIDE DEF x
  <2> QED
    BY <2>11, <2>12, BecomesKeeps
<1> QED
  BY <1>6, <1>7

\* A coroutine comes back to the one that resumed it, and rests.
LEMMA ResumeReturnsKeeps ==
    ASSUME IInv, NEW fits \in BOOLEAN, ResumeReturns(fits)
    PROVE  IInv'
<1>1. native # <<>> /\ top.a = "resume" /\ ctl = "ret"
  BY DEF ResumeReturns, Returned
<1> PICK g : Agree(State, g) /\ g[Len(native)].c < Limit
  BY DEF IInv, InOrder, State
<1> DEFINE n == Len(native)  m == n - 1  z == S.nC - 1
           ended == IF fits THEN "none" ELSE "values"
           v == IF S.status = "ok" THEN ended ELSE S.vals
           q == [S EXCEPT !.nC = z, !.jmp = top.jmp, !.vals = v]
           c == IF fits THEN "ret" ELSE "overfull"
           x == [st |-> [st EXCEPT ![L] = q], native |-> SubSeq(native, 1, m), ctl |-> c]
<1>2. /\ State.st = st /\ State.native = native
      /\ L = Top(native) /\ S = st[L] /\ top = native[n] /\ top.thread = L
      /\ L \in Threads /\ top \in Frames /\ native \in Seq(Frames) /\ n \in Nat /\ n >= 1
      /\ Sound(S) /\ S \in LuaStates /\ st \in [Threads -> LuaStates]
  BY <1>1, Here
<1>3. StackInv(native, g) /\ StatesInv(st, native, g) /\ Matches(S, Yields(native, n), g[n])
  <2>1. StackInv(native, g) /\ StatesInv(st, native, g)
    BY <1>2 DEF Agree
  <2>2. Waits(native, n) /\ n \in 0..n
    BY <1>2 DEF Waits
  <2> QED
    BY <1>2, <2>1, <2>2 DEF StatesInv, Top
<1>4. /\ m \in 0..(n - 1) /\ m + 1 = n /\ n \in 1..n /\ m \in 0..n /\ m \in Nat
  BY <1>2
<1>5. /\ Placed(native, n) /\ g[n] = Imply(g[m], top, n) /\ g[m].c < Limit /\ g[m] \in Implied
  BY <1>2, <1>3, <1>4, StackTypes DEF StackInv, Follows
<1>6. top.jmp = 0
  BY <1>1, <1>2, <1>5 DEF Placed
<1>7. g[n].c = g[m].c + 1 /\ g[n].d = 0 /\ g[n].h = 0 /\ g[n].p = 0 /\ g[m].c \in Nat
  BY <1>1, <1>5 DEF Imply, Nested, Implied
<1>8. z \in Nat /\ z <= Limit
  <2>1. S.nC = g[n].c
    BY <1>3 DEF Matches
  <2> QED
    BY <1>5, <1>7, <2>1, Limits DEF Limit
<1>9. v \in {"none", "function", "values"} /\ (S.status = "yield" => v = S.vals)
  BY <1>2, StateFields
<1>10. /\ q \in LuaStates /\ q.status = S.status /\ q.nC = z /\ q.jmp = 0
       /\ q.errf = S.errf /\ q.allow = S.allow /\ q.ci = S.ci /\ q.size = S.size
       /\ q.opened = S.opened /\ q.vals = v
  <2> DEFINE j == top.jmp  s == S  u == [s EXCEPT !.nC = z, !.jmp = j, !.vals = v]
  <2>1. u = q /\ j = 0 /\ s = S /\ j \in Nat
    BY <1>6
  <2>2. s \in LuaStates
    BY <1>2
  <2> HIDE DEF z, v, j, q, s
  <2>3. /\ u \in LuaStates /\ u.status = s.status /\ u.nC = z /\ u.jmp = j
        /\ u.errf = s.errf /\ u.allow = s.allow /\ u.ci = s.ci /\ u.size = s.size
        /\ u.opened = s.opened /\ u.vals = v
    BY <1>8, <1>9, <2>1, <2>2 DEF LuaStates
  <2> HIDE DEF u
  <2> QED
    BY <2>1, <2>3
<1> HIDE DEF State
<1>11. x.native = SubSeq(native, 1, m) /\ State = [st |-> st, native |-> native, ctl |-> ctl]
  BY DEF State
<1>12. Becomes(x)
  <2> DEFINE y == [State EXCEPT !.st[L] = [@ EXCEPT !.nC = S.nC - 1, !.jmp = top.jmp],
                                !.native = Front(@)]
             p == [S EXCEPT !.nC = z, !.jmp = top.jmp]
             st2 == [State.st EXCEPT ![L] = [@ EXCEPT !.nC = S.nC - 1, !.jmp = top.jmp]]
             st3 == [st EXCEPT ![L] = p]
             nat2 == SubSeq(native, 1, m)
             r == [st |-> st3, native |-> nat2, ctl |-> "ret"]
             w == [y EXCEPT !.ctl = IF fits THEN @ ELSE "overfull",
                            !.st[L].vals = IF S.status = "ok" THEN ended ELSE @]
  <2>1. Becomes(w)
    BY DEF ResumeReturns
  <2>2. st2 = st3
    BY <1>2
  <2>3. Front(State.native) = nat2
    BY <1>1, <1>2, FrontIs
  <2>4. y = [State EXCEPT !.st = st2, !.native = Front(State.native)]
    OBVIOUS
  <2> HIDE DEF y, st2, st3, nat2
  <2>5. y = [State EXCEPT !.st = st3, !.native = nat2]
    BY <2>2, <2>3, <2>4
  <2>6. y = r
    BY <1>1, <1>11, <2>5
  <2>7. r.st = st3 /\ st3 = [st EXCEPT ![L] = p] /\ st3[L] = p
    BY <1>2 DEF st3
  <2>8. p.vals = S.vals /\ p \in LuaStates
    <3> DEFINE j == top.jmp  s == S  u == [s EXCEPT !.nC = z, !.jmp = j]
    <3>1. u = p /\ s = S /\ j \in Nat
      BY <1>6
    <3>2. s \in LuaStates
      BY <1>2
    <3> HIDE DEF z, j, p, s
    <3>3. u \in LuaStates /\ u.vals = s.vals
      BY <1>8, <3>1, <3>2 DEF LuaStates
    <3> HIDE DEF u
    <3> QED
      BY <3>1, <3>3
  <2> DEFINE st4 == [r.st EXCEPT ![L].vals = IF S.status = "ok" THEN ended ELSE @]
  <2>9. w = [r EXCEPT !.ctl = c, !.st = st4]
    <3>1. w = [r EXCEPT !.ctl = IF fits THEN @ ELSE "overfull",
                        !.st[L].vals = IF S.status = "ok" THEN ended ELSE @]
      BY <2>6
    <3> HIDE DEF ended, st3, nat2, w
    <3> QED
      BY <3>1
  <2>10. st4 = [st EXCEPT ![L] = q]
    <3>1. [p EXCEPT !.vals = v] = q
      <4> HIDE DEF z, v
      <4> QED
        BY <1>2 DEF LuaStates
    <3>2. v = IF S.status = "ok" THEN ended ELSE p.vals
      BY <2>8
    <3> HIDE DEF r, p, v, q, ended
    <3>3. st4 = [st3 EXCEPT ![L] = [p EXCEPT !.vals = v]]
      BY <2>7, <3>2
    <3> QED
      BY <1>2, <2>7, <3>1, <3>3
  <2> HIDE DEF st4, w, c
  <2>11. w = [st |-> st4, native |-> nat2, ctl |-> c]
    BY <2>9
  <2>12. w = x
    <3> HIDE DEF q
    <3> QED
      BY <2>10, <2>11 DEF nat2
  <2> HIDE DEF x
  <2> QED
    BY <2>1, <2>12
<1> HIDE DEF q
<1>13. Sound(q)
  BY <1>2, <1>10 DEF Sound
<1>14. Rests(q)
  <2>1. S.status = "ok" => Len(S.ci) = 1
    BY <1>3, <1>7 DEF Matches
  <2>2. S.status = "yield" => Yielded(S)
    BY <1>3 DEF Matches
  <2>3. S.allow /\ ~S.errf /\ S.status # "none"
    BY <1>3, <1>7 DEF Matches
  <2> QED
    BY <1>8, <1>9, <1>10, <2>1, <2>2, <2>3 DEF Rests, Yielded
<1>15. InOrder(x)
  <2>1. Above(native, m, Top(native)) /\ native[m + 1].a = "resume"
    <3>1. \A i \in (m + 1)..n : i = n
      BY <1>2
    <3> QED
      BY <1>1, <1>2, <1>4, <3>1 DEF Above
  <2> DEFINE k == m
  <2>2. k \in 0..(Len(native) - 1) /\ k \in 0..Len(native) /\ k \in 0..k
    BY <1>4
  <2> HIDE DEF k
  <2>3. /\ StackInv(SubSeq(State.native, 1, k), Below(g, k))
        /\ StatesInv([State.st EXCEPT ![Top(State.native)] = q], SubSeq(State.native, 1, k), Below(g, k))
    BY <1>2, <1>13, <1>14, <2>1, <2>2, CutCoroutine DEF k
  <2>4. Len(SubSeq(native, 1, k)) = k /\ \A i \in 0..k : Below(g, k)[i] = g[i]
    BY <1>3, <2>2, BelowIs
  <2> DEFINE nat2 == SubSeq(native, 1, k)  g2 == Below(g, k)  st2 == [st EXCEPT ![L] = q]
  <2>5. StackInv(nat2, g2) /\ StatesInv(st2, nat2, g2)
    BY <1>2, <2>3
  <2>6. g2[Len(nat2)].c < Limit
    BY <1>5, <2>2, <2>4 DEF k
  <2>7. c \in {"run", "ret", "fail", "overfull", "crash"}
    OBVIOUS
  <2> HIDE DEF nat2, g2, st2, c
  <2>8. InOrder([st |-> st2, native |-> nat2, ctl |-> c])
    BY <2>5, <2>6, <2>7, InOrderIs
  <2> QED
    BY <2>8 DEF nat2, st2, k
<1> HIDE DEF x
<1> QED
  BY <1>12, <1>15, BecomesKeeps

\* luaL_error of auxresume: an error in the thread that resumed.
LEMMA ResumeFailsKeeps ==
    ASSUME IInv, ResumeFails
    PROVE  IInv'
<1>1. native # <<>> /\ top.a # "resume" /\ Becomes(RunError([State EXCEPT !.ctl = "run"]))
  BY DEF ResumeFails, InC
<1>2. PICK g : Ready(State, g)
  BY <1>1, ReadyNow
<1> DEFINE s2 == [State EXCEPT !.ctl = "run"]
<1>3. s2 = [st |-> st, native |-> native, ctl |-> "run"] /\ State.st = st /\ State.native = native
  BY DEF State
<1>4. Ready(s2, g)
  <2> HIDE DEF s2, State
  <2>1. s2.st = st /\ s2.native = native /\ s2 = [st |-> s2.st, native |-> s2.native, ctl |-> s2.ctl]
    BY <1>3
  <2> QED
    BY <1>2, <1>3, <2>1 DEF Ready, Agree
<1> HIDE DEF s2
<1>5. InOrder(RunError(s2))
  BY <1>4, RunErrorKeeps DEF Ready
<1> QED
  BY <1>1, <1>5, BecomesKeeps DEF s2

\* The sandbox calls the chunk, or what is not a function.
LEMMA StartKeeps ==
    ASSUME IInv, NEW compiled \in BOOLEAN, Start(compiled)
    PROVE  IInv'
<1> DEFINE p == Protected(State, Main, FALSE)
<1>1. native = <<>> /\ ctl = "run" /\ Becomes(IF compiled THEN Call(p, "lua") ELSE RunError(p))
  BY DEF Start
<1>2. PICK g : Agree(State, g) /\ g[Len(native)].c < Limit
  BY DEF IInv, InOrder, State
<1>3. State.native = native /\ State.st = st
  BY DEF State
<1>4. Top(native) = Main /\ ~Yields(native, Len(native))
  BY <1>1 DEF Top, ThreadAt, Yields
<1> HIDE DEF State, p
<1>5. State.st[Top(State.native)].status = "ok" /\ g[Len(State.native)].c < Limit
  BY <1>2, <1>3, <1>4, TopMatches DEF Matches
<1>6. PICK g2 : Ready(p, g2)
  <2>1. FALSE \in BOOLEAN
    OBVIOUS
  <2>2. LET s2 == Protected(State, Top(State.native), FALSE)
        IN  /\ \E g2 : Ready(s2, g2)
            /\ s2.ctl = State.ctl /\ Top(s2.native) = Top(State.native)
    BY <1>2, <1>5, <2>1, ProtectedKeeps
  <2> QED
    BY <1>3, <1>4, <2>2 DEF p
<1>7. "lua" \in Functs
  BY DEF Functs, LuaFunctions
<1>8. InOrder(Call(p, "lua")) /\ InOrder(RunError(p))
  BY <1>6, <1>7, CallKeeps, RunErrorKeeps DEF Ready
<1> QED
  BY <1>1, <1>8, BecomesKeeps

\* The program begins in order: no frames, and a main thread.
LEMMA InitInOrder ==
    ASSUME Init
    PROVE  IInv
<1> DEFINE g == [i \in 0..0 |-> Nothing]
<1>1. native = <<>> /\ ctl = "run" /\ Main \in Threads
      /\ st = [t \in Threads |-> NewState(IF t = Main THEN "ok" ELSE "none", "none")]
  BY Limits DEF Init
<1>2. Len(native) = 0 /\ native \in Seq(Frames) /\ 0..Len(native) = {0} /\ 1..Len(native) = {}
  BY <1>1
<1>3. Nothing \in Implied /\ Nothing.c = 0 /\ Nothing.d = 0 /\ Nothing.j = 0 /\ Nothing.h = 0
      /\ Nothing.p = 0 /\ Nothing.b = 0
  <2>1. <<Main>> \in Seq(Threads)
    BY <1>1
  <2> QED
    BY <2>1 DEF Nothing, Implied
<1>4. g[0] = Nothing /\ g \in [0..0 -> Implied] /\ 0..0 = {0}
  BY <1>3
<1> HIDE DEF g
<1>5. Waits(native, 0) /\ ThreadAt(native, 0) = Main /\ ~Yields(native, 0)
  BY <1>2 DEF Waits, ThreadAt, Yields
<1>6. StackInv(native, g)
  BY <1>2, <1>4, <1>5 DEF StackInv
<1>7. ASSUME NEW t \in Threads
      PROVE  /\ Sound(st[t]) /\ Rests(st[t]) /\ st[t].nC = 0 /\ st[t].baseC = 0 /\ st[t].jmp = 0
             /\ ~st[t].errf /\ st[t].allow /\ Len(st[t].ci) = 1
             /\ t = Main => st[t].status = "ok"
  <2> DEFINE a == IF t = Main THEN "ok" ELSE "none"  q == NewState(a, "none")
  <2>1. a \in {"none", "ok"} /\ (t = Main => a = "ok") /\ st[t] = q
    BY <1>1
  <2> HIDE DEF a
  <2>2. /\ Sound(q) /\ Rests(q) /\ q.status = a /\ Len(q.ci) = 1 /\ q.nC = 0 /\ q.baseC = 0
        /\ q.jmp = 0 /\ ~q.errf /\ q.allow
    BY <2>1, NewStateIs
  <2> HIDE DEF q
  <2> QED
    BY <2>1, <2>2
<1>8. st \in [Threads -> LuaStates]
  BY <1>1, <1>7 DEF Sound
<1>9. Matches(st[Main], FALSE, Nothing)
  BY <1>1, <1>3, <1>7 DEF Matches
<1>10. StatesInv(st, native, g)
  <2>1. \A i \in 0..Len(native) :
            Waits(native, i) => Matches(st[ThreadAt(native, i)], Yields(native, i), g[i])
    <3>1. Yields(native, 0) = FALSE
      BY <1>5 DEF Yields
    <3>2. Matches(st[ThreadAt(native, 0)], Yields(native, 0), g[0])
      BY <1>4, <1>5, <1>9, <3>1
    <3> QED
      BY <1>2, <3>2
  <2>2. (\A t \in Threads : Sound(st[t])) /\ \A t \in Threads : Off(native, t) => Rests(st[t])
    BY <1>7
  <2>3. \A i \in 1..Len(native) : Runs(st[native[i].thread], native[i], g[i])
    BY <1>2
  <2> QED
    BY <1>8, <2>1, <2>2, <2>3 DEF StatesInv
<1>11. g[Len(native)].c < Limit
  BY <1>2, <1>3, <1>4, Limits DEF Limit
<1>12. InOrder([st |-> st, native |-> native, ctl |-> "run"])
  BY <1>6, <1>10, <1>11, InOrderIs
<1> QED
  BY <1>1, <1>12 DEF IInv, State

\* The invariant is about these variables only.
LEMMA StutterKeeps ==
    ASSUME IInv, UNCHANGED vars
    PROVE  IInv'
  BY DEF IInv, InOrder, State, vars

\* Every step keeps the order.
LEMMA NextKeeps ==
    ASSUME IInv, Next
    PROVE  IInv'
<1>1. /\ \A f \in LuaFunctions \cup (uses \cap CFunctions) : f \in Functs
      /\ \A f \in LuaFunctions \cup (uses \cap {"yield"}) : f \in Functs
  BY DEF Functs, CFunctions
<1>2. ASSUME NEW b \in BOOLEAN, Start(b) \/ ResumeReturns(b)
      PROVE  IInv'
  BY <1>2, StartKeeps, ResumeReturnsKeeps
<1>3. ASSUME NEW f \in LuaFunctions \cup (uses \cap CFunctions), OpCall(f)
      PROVE  IInv'
  BY <1>1, <1>3, OpCallKeeps
<1>4. ASSUME NEW f \in LuaFunctions \cup (uses \cap {"yield"}),
             CallTM(f) \/ LuaPcall(f) \/ CallsBack(f) \/ CallHandler(f)
      PROVE  IInv'
  BY <1>1, <1>4, CallTMKeeps, LuaPcallKeeps, CallsBackKeeps, CallHandlerKeeps
<1>11. \A f \in Values : f \in Functs \cup {"uncallable"}
  BY DEF Values, Functs, CFunctions
<1>5. ASSUME NEW t \in Threads, Create(t) \/ ShrinkCI(t) \/ \E f \in Values : AuxResume(t, f)
      PROVE  IInv'
  BY <1>5, <1>11, CreateKeeps, ShrinkCIKeeps, AuxResumeKeeps
<1>6. ASSUME OpTailCall \/ OpReturn \/ OpClosure \/ CallHook
      PROVE  IInv'
  BY <1>6, OpTailCallKeeps, OpReturnKeeps, OpClosureKeeps, CallHookKeeps
<1>7. ASSUME RaiseError \/ MemoryError
      PROVE  IInv'
  BY <1>7, RaiseErrorKeeps, MemoryErrorKeeps
<1>8. ASSUME LuaLoad \/ EnterLevel \/ LeaveLevel \/ ParserEnds
      PROVE  IInv'
  BY <1>8, LuaLoadKeeps, EnterLevelKeeps, LeaveLevelKeeps, ParserEndsKeeps
<1>9. ASSUME CReturns \/ CallReturns \/ PcallReturns \/ HookReturns \/ HandlerReturns
      PROVE  IInv'
  BY <1>9, CReturnsKeeps, CallReturnsKeeps, PcallReturnsKeeps, HookReturnsKeeps,
     HandlerReturnsKeeps
<1>10. ASSUME LuaYield \/ ResumeFails
       PROVE  IInv'
  BY <1>10, LuaYieldKeeps, ResumeFailsKeeps
<1> QED
  BY <1>2, <1>3, <1>4, <1>5, <1>6, <1>7, <1>8, <1>9, <1>10 DEF Next

\* The inductive invariant holds in every state of every execution.
THEOREM InOrderAlways == Spec => []IInv
<1>1. Init => IInv
  BY InitInOrder
<1>2. IInv /\ [Next]_vars => IInv'
  BY NextKeeps, StutterKeeps
<1> QED
  BY <1>1, <1>2, PTL DEF Spec

-----------------------------------------------------------------------------
(* What the invariant says of the properties.                                *)

\* A set of natural numbers has a least one, so that what fails for some part of a
\* sum fails for a first one.
LEMMA LeastNat ==
    ASSUME NEW T, T \subseteq Nat, T # {}
    PROVE  \E n \in T : \A m \in T : n <= m
<1> DEFINE R == OpToRel(<, Nat)
<1>1. IsWellFoundedOn(R, Nat)
  BY NatLessThanWellFounded
<1>2. \A a, b \in Nat : a < b => <<a, b>> \in R
  BY DEF OpToRel
<1> HIDE DEF R
<1>3. PICK n \in T : \A m \in T : ~(<<m, n>> \in R)
  BY <1>1, WFMin
<1>4. \A m \in T : ~(m < n)
  BY <1>2, <1>3
<1> QED
  BY <1>4

\* A sum is what is added up step by step.
LEMMA SumIs ==
    ASSUME NEW f, NEW n \in Nat, Len(f) = n, NEW d, d \in [0..n -> Nat], d[0] = 0,
           \A i \in 1..n : d[i] = d[i - 1] + f[i]
    PROVE  SumOf(f) = d[n]
<1> DEFINE Step(g) == [i \in 0..n |-> IF i = 0 THEN 0 ELSE g[i - 1] + f[i]]
           sum == CHOOSE g : g = Step(g)
<1>1. SumOf(f) = sum[n]
  BY DEF SumOf
<1>2. d = Step(d)
  <2>1. \A i \in 0..n : d[i] = IF i = 0 THEN 0 ELSE d[i - 1] + f[i]
    <3> SUFFICES ASSUME NEW i \in 0..n
                 PROVE  d[i] = IF i = 0 THEN 0 ELSE d[i - 1] + f[i]
      OBVIOUS
    <3>1. i = 0 \/ i \in 1..n
      OBVIOUS
    <3> QED
      BY <3>1
  <2> QED
    BY <2>1
<1>3. sum = Step(sum)
  BY <1>2
<1> HIDE DEF sum
<1>4. \A i \in 0..n : sum[i] = IF i = 0 THEN 0 ELSE sum[i - 1] + f[i]
  BY <1>3
<1> DEFINE T == {i \in 0..n : sum[i] # d[i]}
<1>5. T = {}
  <2> SUFFICES ASSUME T # {}
               PROVE  FALSE
    OBVIOUS
  <2>1. T \subseteq Nat
    OBVIOUS
  <2> HIDE DEF T
  <2>2. PICK i \in T : \A m \in T : i <= m
    BY <2>1, LeastNat
  <2>3. i \in 0..n /\ sum[i] # d[i]
    BY <2>2 DEF T
  <2>4. i # 0
    BY <1>4, <2>3
  <2>5. i \in 1..n /\ i - 1 \in 0..n /\ ~(i <= i - 1)
    BY <2>3, <2>4
  <2>6. i - 1 \notin T
    BY <2>2, <2>5
  <2>7. sum[i - 1] = d[i - 1]
    BY <2>5, <2>6 DEF T
  <2>8. sum[i] = sum[i - 1] + f[i]
    BY <1>4, <2>3, <2>4
  <2> QED
    BY <2>3, <2>5, <2>7, <2>8
<1> QED
  BY <1>1, <1>5

\* Where the frames of a thread are: the last one is the one it waits at.
LEMMA LastFrame ==
    ASSUME NEW g, StackInv(native, g), NEW t \in Threads, FramesOf(t) # {}
    PROVE  \E k \in 1..Len(native) :
              /\ Waits(native, k) /\ native[k].thread = t /\ ThreadAt(native, k) = t
              /\ \A i \in 1..Len(native) : native[i].thread = t => i <= k
              /\ k \in FramesOf(t) /\ \A i \in FramesOf(t) : i <= k
              /\ Max(FramesOf(t)) = k
<1>1. FramesOf(t) = {i \in 1..Len(native) : native[i].thread = t} /\ Len(native) \in Nat
  BY StackTypes DEF FramesOf, Indices
<1> HIDE DEF FramesOf
<1>2. PICK i \in 1..Len(native) : native[i].thread = t
  BY <1>1
<1>3. i \in 0..Len(native) /\ ThreadAt(native, i) = t
  BY <1>1, <1>2 DEF ThreadAt
<1>4. PICK k \in i..Len(native) : Waits(native, k) /\ ThreadAt(native, k) = t
  BY <1>3 DEF StackInv
<1>5. k \in 1..Len(native) /\ native[k].thread = t
  BY <1>1, <1>2, <1>4 DEF ThreadAt
<1>6. ASSUME NEW j \in 1..Len(native), native[j].thread = t
      PROVE  j <= k
  <2>1. ThreadAt(native, j) = t
    BY <1>6 DEF ThreadAt
  <2>2. \A m \in 0..(j - 1) : Waits(native, m) => ThreadAt(native, m) # ThreadAt(native, j)
    BY <1>6 DEF StackInv, Grows
  <2> QED
    BY <1>1, <1>4, <1>5, <2>1, <2>2
<1>7. k \in FramesOf(t) /\ \A j \in FramesOf(t) : j <= k
  BY <1>1, <1>5, <1>6
<1>8. Max(FramesOf(t)) = k
  <2> DEFINE F == FramesOf(t)
  <2>1. F \subseteq Nat
    BY <1>1
  <2>2. k \in F /\ \A j \in F : k >= j
    BY <1>1, <1>7
  <2> HIDE DEF F
  <2>3. Max(F) \in F /\ \A j \in F : Max(F) >= j
    BY <2>2 DEF Max
  <2>4. Max(F) = k
    <3> DEFINE m == Max(F)
    <3>1. m \in Nat /\ k \in Nat /\ m >= k /\ k >= m
      BY <2>1, <2>2, <2>3
    <3> HIDE DEF m
    <3>2. m = k
      BY <3>1
    <3> QED
      BY <3>2 DEF m
  <2> QED
    BY <2>4 DEF F
<1> QED
  BY <1>4, <1>5, <1>6, <1>7, <1>8

\* A thread without frames is off the C stack, or it is the main thread, which
\* waits below all of them.
LEMMA NoFrames ==
    ASSUME NEW g, StackInv(native, g), NEW t \in Threads, FramesOf(t) = {}
    PROVE  Off(native, t) \/ (Waits(native, 0) /\ ThreadAt(native, 0) = t)
<1>1. FramesOf(t) = {i \in 1..Len(native) : native[i].thread = t} /\ Len(native) \in Nat
  BY StackTypes DEF FramesOf, Indices
<1>2. ASSUME NEW k \in 0..Len(native), Waits(native, k), ThreadAt(native, k) = t
      PROVE  k = 0
  BY <1>1, <1>2 DEF ThreadAt
<1>3. CASE ~Off(native, t)
  <2>1. PICK k \in 0..Len(native) : Waits(native, k) /\ ThreadAt(native, k) = t
    BY <1>3, OffOrAt
  <2>2. k = 0
    BY <1>2, <2>1
  <2> QED
    BY <2>1, <2>2
<1> QED
  BY <1>3

\* What the invariant says of the frames and of the thread that waits at one.
LEMMA AtFrame ==
    ASSUME NEW g, Agree(State, g), g[Len(native)].c < Limit, NEW k \in 0..Len(native)
    PROVE  /\ g[k] \in Implied /\ g[k].c \in Nat /\ g[k].d \in Nat /\ g[k].j \in Nat
           /\ g[k].h \in Nat /\ g[k].p \in Nat /\ g[k].b \in Nat /\ g[k].c < Limit
           /\ Waits(native, k) => Matches(st[ThreadAt(native, k)], Yields(native, k), g[k])
           /\ k # 0 => /\ k - 1 \in 0..Len(native) /\ k \in 1..Len(native)
                       /\ g[k] = Imply(g[k - 1], native[k], k)
                       /\ Placed(native, k) /\ Lands(native, g, k) /\ Counts(native, g, k)
                       /\ native[k] \in Frames
<1>1. StackInv(native, g) /\ StatesInv(st, native, g) /\ Len(native) \in Nat
  BY StackTypes DEF Agree, State
<1>2. g[k] \in Implied
  BY <1>1, StackTypes
<1>3. /\ g[k].c \in Nat /\ g[k].d \in Nat /\ g[k].j \in Nat
      /\ g[k].h \in Nat /\ g[k].p \in Nat /\ g[k].b \in Nat
  BY <1>2 DEF Implied
<1>4. g[k].c < Limit
  <2>1. CASE k = Len(native)
    BY <2>1
  <2>2. CASE k # Len(native)
    <3>1. k + 1 \in 1..Len(native) /\ k + 1 - 1 = k
      BY <1>1, <2>2
    <3> QED
      BY <1>1, <3>1 DEF StackInv, Follows
  <2> QED
    BY <2>1, <2>2
<1>5. ASSUME k # 0
      PROVE  /\ k - 1 \in 0..Len(native) /\ k \in 1..Len(native)
             /\ g[k] = Imply(g[k - 1], native[k], k)
             /\ Placed(native, k) /\ Lands(native, g, k) /\ Counts(native, g, k)
             /\ native[k] \in Frames
  <2>1. k - 1 \in 0..Len(native) /\ k \in 1..Len(native)
    BY <1>1, <1>5
  <2> QED
    BY <1>1, <2>1, StackTypes DEF StackInv, Follows
<1> QED
  BY <1>1, <1>2, <1>3, <1>4, <1>5 DEF StatesInv

\* In order, the count of C calls of every thread is that of the frames up to its last.
LEMMA CallsAreCounted ==
    ASSUME IInv
    PROVE  CallsCounted
<1> PICK g : Agree(State, g) /\ g[Len(native)].c < Limit
  BY DEF IInv, InOrder, State
<1>1. StackInv(native, g) /\ Len(native) \in Nat /\ g[0] = Nothing
  BY StackTypes DEF Agree, State, StackInv
<1> SUFFICES ASSUME NEW t \in Threads, FramesOf(t) # {}
             PROVE  st[t].nC = SumOf([i \in 1..Max(FramesOf(t)) |-> Nested(native[i])])
  BY DEF CallsCounted
<1>2. PICK k \in 1..Len(native) : /\ Waits(native, k) /\ ThreadAt(native, k) = t
                                  /\ Max(FramesOf(t)) = k
  BY <1>1, LastFrame
<1> DEFINE f == [i \in 1..k |-> Nested(native[i])]  d == [i \in 0..k |-> g[i].c]
<1>3. \A i \in 0..k : i \in 0..Len(native) /\ g[i].c \in Nat
  BY <1>1, AtFrame
<1>4. d \in [0..k -> Nat] /\ d[0] = 0
  <2>1. 0 \in 0..k /\ g[0].c = 0
    BY <1>1 DEF Nothing
  <2> QED
    BY <1>3, <2>1
<1>5. \A i \in 1..k : d[i] = d[i - 1] + f[i]
  <2> SUFFICES ASSUME NEW i \in 1..k
               PROVE  g[i].c = g[i - 1].c + Nested(native[i])
    OBVIOUS
  <2>1. i \in 0..Len(native) /\ i # 0
    BY <1>1
  <2>2. g[i] = Imply(g[i - 1], native[i], i)
    BY <2>1, AtFrame
  <2> QED
    BY <2>2 DEF Imply
<1>6. Len(f) = k /\ k \in Nat
  BY <1>1
<1>7. SumOf(f) = d[k]
  <2> HIDE DEF f, d
  <2> QED
    BY <1>4, <1>5, <1>6, SumIs
<1>8. st[t].nC = g[k].c
  <2>1. k \in 0..Len(native)
    BY <1>1
  <2> QED
    BY <1>2, <2>1, AtFrame DEF Matches
<1>9. d[k] = g[k].c
  BY <1>1
<1> HIDE DEF f, d
<1> QED
  BY <1>2, <1>7, <1>8, <1>9 DEF f

\* In order, the types hold, and every array has room.
LEMMA TypesHold ==
    ASSUME IInv
    PROVE  TypeOK
<1> PICK g : Agree(State, g) /\ g[Len(native)].c < Limit
  BY DEF IInv, InOrder, State
<1>1. /\ StackInv(native, g) /\ StatesInv(st, native, g) /\ Len(native) \in Nat
      /\ native \in Seq(Frames) /\ \A i \in 1..Len(native) : native[i].thread \in Threads
  BY StackTypes DEF Agree, State
<1>2. ctl \in {"run", "ret", "fail", "overfull", "crash"}
  BY DEF IInv, InOrder, State
<1>3. ASSUME NEW t \in Threads
      PROVE  st[t].nC <= Limit
  <2>1. CASE Off(native, t)
    BY <1>1, <2>1 DEF StatesInv, Rests
  <2>2. CASE ~Off(native, t)
    <3>1. PICK k \in 0..Len(native) : Waits(native, k) /\ ThreadAt(native, k) = t
      BY <1>1, <2>2, OffOrAt
    <3>2. st[t].nC = g[k].c /\ g[k].c < Limit /\ g[k].c \in Nat
      BY <3>1, AtFrame DEF Matches
    <3> QED
      BY <3>2, Limits DEF Limit
  <2> QED
    BY <2>1, <2>2
<1>4. ASSUME NEW t \in Threads
      PROVE  /\ st[t].status \in {"none", "ok", "yield", "error"}
             /\ Len(st[t].ci) \in 1..st[t].size /\ st[t].size <= 2 * MaxCalls
             /\ Range(Tail(st[t].ci)) \subseteq LuaFunctions \cup CFunctions
             /\ st[t].nC \in 0..(MaxCCalls + CSlack) /\ st[t].baseC \in Nat
             /\ st[t].vals \in {"none", "function", "values"}
             /\ st[t].jmp \in Nat /\ st[t].errf \in BOOLEAN /\ st[t].allow \in BOOLEAN
  <2>1. Sound(st[t]) /\ st[t] \in LuaStates
    BY <1>1 DEF StatesInv, Sound
  <2>2. /\ st[t].status \in {"none", "ok", "yield", "error"} /\ st[t].baseC \in Nat
        /\ st[t].vals \in {"none", "function", "values"} /\ st[t].nC \in Nat
        /\ st[t].jmp \in Nat /\ st[t].errf \in BOOLEAN /\ st[t].allow \in BOOLEAN
        /\ st[t].ci \in Seq(Functs \cup {"base"}) /\ Len(st[t].ci) \in Nat
    BY <2>1, StateFields
  <2>3. Len(st[t].ci) \in 1..st[t].size /\ st[t].size <= 2 * MaxCalls
    BY <2>1 DEF Sound
  <2>4. st[t].nC \in 0..(MaxCCalls + CSlack)
    BY <1>3, <2>2, Limits DEF Limit
  <2>5. Range(Tail(st[t].ci)) \subseteq LuaFunctions \cup CFunctions
    <3> DEFINE c == st[t].ci  D == Functs \cup {"base"}
    <3>1. c \in Seq(D) /\ c # <<>> /\ \A y \in 2..Len(c) : c[y] \in Functs
      <4>1. Len(c) # 0
        BY <2>2, <2>3
      <4>2. \A y \in 2..Len(c) : c[y] \in Functs
        BY <2>1 DEF Sound
      <4> QED
        BY <2>2, <4>1, <4>2
    <3> HIDE DEF c, D
    <3>2. /\ Len(Tail(c)) = Len(c) - 1 /\ Tail(c) \in Seq(D) /\ Len(c) \in Nat
          /\ \A i \in 1..Len(Tail(c)) : Tail(c)[i] = c[i + 1]
      BY <3>1, HeadTailProperties
    <3>3. \A i \in DOMAIN Tail(c) : Tail(c)[i] \in Functs
      <4> SUFFICES ASSUME NEW i \in DOMAIN Tail(c)
                   PROVE  Tail(c)[i] \in Functs
        OBVIOUS
      <4>1. i \in 1..Len(Tail(c))
        BY <3>2
      <4>2. i + 1 \in 2..Len(c)
        BY <3>2, <4>1
      <4> QED
        BY <3>1, <3>2, <4>1, <4>2
    <3> QED
      BY <3>3 DEF Range, Functs, c
  <2> QED
    BY <2>2, <2>3, <2>4, <2>5
<1>5. DOMAIN native = 1..Len(native)
  BY <1>1
<1> QED
  BY <1>1, <1>2, <1>4, <1>5 DEF TypeOK

\* In order, open upvalues are locals of Lua functions that have not returned.
LEMMA UpvaluesHold ==
    ASSUME IInv
    PROVE  UpvaluesInFrames
<1> PICK g : Agree(State, g)
  BY DEF IInv, InOrder
<1>1. \A t \in Threads : Sound(st[t])
  BY DEF Agree, State, StatesInv
<1> QED
  BY <1>1 DEF UpvaluesInFrames, Sound, Depth

\* In order, there is a place to jump to, and it is the right one.
LEMMA JumpsAreRight ==
    ASSUME IInv
    PROVE  JumpsLand
<1> PICK g : Agree(State, g) /\ g[Len(native)].c < Limit
  BY DEF IInv, InOrder, State
<1>1. /\ StackInv(native, g) /\ StatesInv(st, native, g) /\ Len(native) \in Nat
      /\ native \in Seq(Frames) /\ g[0] = Nothing
  BY StackTypes DEF Agree, State, StackInv
<1>2. ctl # "exit"
  BY DEF IInv, InOrder, State
<1>3. ASSUME NEW t \in Threads
      PROVE  LET pcalls == {i \in FramesOf(t) : native[i].a \in {"pcall", "resume"}}
                 hooks == {i \in FramesOf(t) : native[i].a = "hook"}
             IN  /\ st[t].jmp = Innermost(pcalls)
                 /\ FramesOf(t) # {} => st[t].allow = (hooks = {})
                 /\ FramesOf(t) # {} /\ st[t].errf =>
                       \E i \in pcalls : native[i].a = "pcall"
  <2> DEFINE pcalls == {i \in FramesOf(t) : native[i].a \in {"pcall", "resume"}}
             hooks == {i \in FramesOf(t) : native[i].a = "hook"}
             r == st[t]
  <2>1. FramesOf(t) = {i \in 1..Len(native) : native[i].thread = t}
    BY <1>1 DEF FramesOf, Indices
  <2>2. CASE FramesOf(t) = {}
    <3>1. r.jmp = 0
      <4>1. CASE Off(native, t)
        BY <1>1, <4>1 DEF StatesInv, Rests
      <4>2. CASE Waits(native, 0) /\ ThreadAt(native, 0) = t
        <5>1. 0 \in 0..Len(native)
          BY <1>1
        <5>2. r.jmp = g[0].j
          BY <4>2, <5>1, AtFrame DEF Matches
        <5> QED
          BY <1>1, <5>2 DEF Nothing
      <4> QED
        BY <1>1, <2>2, <4>1, <4>2, NoFrames
    <3>2. Innermost(pcalls) = 0
      BY <2>2 DEF Innermost
    <3> QED
      BY <2>2, <3>1, <3>2
  <2>3. CASE FramesOf(t) # {}
    <3>1. PICK k \in 1..Len(native) : /\ Waits(native, k) /\ native[k].thread = t
                                      /\ ThreadAt(native, k) = t
                                      /\ \A i \in 1..Len(native) : native[i].thread = t => i <= k
      BY <1>1, <2>3, LastFrame
    <3>2. k \in 0..Len(native) /\ k # 0
      BY <1>1
    <3>3. /\ r.jmp = g[k].j
          /\ r.allow <=> g[k].h = 0
          /\ r.errf => g[k].p > 0
          /\ g[k].h \in Nat
      <4>1. Matches(r, Yields(native, k), g[k]) /\ g[k].h \in Nat
        BY <3>1, <3>2, AtFrame
      <4> QED
        BY <4>1 DEF Matches
    <3>4. Lands(native, g, k) /\ Counts(native, g, k)
      BY <3>2, AtFrame
    <3>5. r.jmp = Innermost(pcalls)
      <4> DEFINE j == g[k].j
      <4>1. j \in 1..k /\ Protects(native[j]) /\ native[j].thread = t
        BY <3>1, <3>4 DEF Lands
      <4>2. j \in pcalls
        BY <1>1, <2>1, <4>1 DEF Protects
      <4>3. \A i \in pcalls : i \in 1..k /\ i <= j
        <5> SUFFICES ASSUME NEW i \in pcalls
                     PROVE  i \in 1..k /\ i <= j
          OBVIOUS
        <5>1. i \in 1..Len(native) /\ native[i].thread = t /\ Protects(native[i])
          BY <2>1 DEF Protects
        <5>2. i \in 1..k
          BY <1>1, <3>1, <5>1
        <5> QED
          BY <3>1, <3>4, <5>1, <5>2 DEF Counts
      <4> HIDE DEF pcalls, j
      <4>4. Max(pcalls) = j
        <5>1. j \in Nat /\ \A i \in pcalls : i \in Nat /\ j >= i
          BY <1>1, <4>1, <4>3
        <5>2. Max(pcalls) \in pcalls /\ \A i \in pcalls : Max(pcalls) >= i
          BY <4>2, <5>1 DEF Max
        <5> DEFINE m == Max(pcalls)
        <5>3. m \in Nat /\ m >= j /\ j >= m
          BY <4>2, <5>1, <5>2
        <5> HIDE DEF m
        <5>4. m = j
          BY <5>1, <5>3
        <5> QED
          BY <5>4 DEF m
      <4>5. pcalls # {}
        BY <4>2
      <4> QED
        BY <3>3, <4>4, <4>5 DEF Innermost, j
    <3>6. r.allow = (hooks = {})
      <4>1. hooks # {} <=> \E i \in 1..k : native[i].thread = native[k].thread /\ native[i].a = "hook"
        BY <1>1, <2>1, <3>1
      <4>2. g[k].h > 0 <=> \E i \in 1..k : native[i].thread = native[k].thread /\ native[i].a = "hook"
        BY <3>4 DEF Counts
      <4>3. g[k].h > 0 <=> g[k].h # 0
        BY <3>3
      <4>4. r.allow \in BOOLEAN
        BY <1>1, StateFields DEF StatesInv
      <4> HIDE DEF hooks, r
      <4>5. r.allow <=> hooks = {}
        BY <3>3, <4>1, <4>2, <4>3
      <4> QED
        BY <4>4, <4>5
    <3>7. ASSUME r.errf
          PROVE  \E i \in pcalls : native[i].a = "pcall"
      <4>1. PICK i \in 1..k : native[i].thread = native[k].thread /\ native[i].a = "pcall"
        BY <3>3, <3>4, <3>7 DEF Counts
      <4>2. i \in pcalls
        BY <1>1, <2>1, <3>1, <4>1
      <4> QED
        BY <4>1, <4>2
    <3> HIDE DEF pcalls, hooks, r
    <3>8. /\ r.jmp = Innermost(pcalls)
          /\ FramesOf(t) # {} => r.allow = (hooks = {})
          /\ FramesOf(t) # {} /\ r.errf => \E i \in pcalls : native[i].a = "pcall"
      BY <3>5, <3>6, <3>7
    <3> QED
      BY <3>8 DEF pcalls, hooks, r
  <2> QED
    BY <2>2, <2>3
<1> QED
  BY <1>2, <1>3 DEF JumpsLand

\* In order, the CallInfos of a thread that does not yield are those its frames run.
LEMMA FramesAreMatched ==
    ASSUME IInv
    PROVE  FramesMatch
<1> PICK g : Agree(State, g) /\ g[Len(native)].c < Limit
  BY DEF IInv, InOrder, State
<1>1. StackInv(native, g) /\ Len(native) \in Nat /\ g[0] = Nothing /\ native \in Seq(Frames)
      /\ DOMAIN native = 1..Len(native)
  BY StackTypes DEF Agree, State, StackInv
<1> SUFFICES ASSUME NEW t \in Threads, FramesOf(t) # {}, st[t].status # "yield"
             PROVE  Depth(t) - 1 = SumOf([i \in DOMAIN native |->
                                IF native[i].thread = t THEN CallInfos(native[i]) ELSE 0])
  BY DEF FramesMatch
<1>2. PICK k \in 1..Len(native) : /\ Waits(native, k) /\ ThreadAt(native, k) = t
                                  /\ \A i \in 1..Len(native) : native[i].thread = t => i <= k
  BY <1>1, LastFrame
<1> DEFINE n == Len(native)
           f == [i \in 1..n |-> IF native[i].thread = t THEN CallInfos(native[i]) ELSE 0]
           e == [i \in 0..n |-> IF ThreadAt(native, i) = t THEN g[i].d
                                ELSE IF i < k THEN 0 ELSE g[k].d]
<1>3. \A i \in 0..n : g[i].d \in Nat
  BY AtFrame
<1>4. e \in [0..n -> Nat]
  BY <1>1, <1>3
<1>5. e[0] = 0
  <2>1. 0 \in 0..n /\ g[0].d = 0 /\ 0 < k
    BY <1>1 DEF Nothing
  <2> QED
    BY <2>1
<1>6. \A i \in 1..n : e[i] = e[i - 1] + f[i]
  <2> SUFFICES ASSUME NEW i \in 1..n
               PROVE  e[i] = e[i - 1] + f[i]
    OBVIOUS
  <2> DEFINE h == native[i]
  <2>1. /\ i \in 0..n /\ i - 1 \in 0..n /\ i # 0 /\ i \in Nat /\ k \in Nat /\ k \in 0..n
        /\ g[i].d \in Nat /\ g[i - 1].d \in Nat /\ g[k].d \in Nat
    BY <1>1, <1>3
  <2>2. Placed(native, i) /\ g[i] = Imply(g[i - 1], h, i) /\ h \in Frames
    BY <2>1, AtFrame
  <2>3. ThreadAt(native, i) = h.thread
    BY <2>1 DEF ThreadAt
  <2>4. CallInfos(h) \in Nat /\ (h.a = "resume" => CallInfos(h) = 0)
    BY <2>2, FrameFields DEF CallInfos
  <2>5. g[i].d = IF h.a = "resume" THEN 0 ELSE g[i - 1].d + CallInfos(h)
    BY <2>2 DEF Imply
  <2>6. /\ h.a # "resume" => h.thread = ThreadAt(native, i - 1)
        /\ h.a = "resume" => ThreadAt(native, i - 1) # h.thread
    <3>1. i - 1 \in 0..(i - 1)
      BY <2>1
    <3> QED
      BY <2>2, <3>1 DEF Placed
  \* No other frame of the thread waits.
  <2>7. \A m \in 0..n : Waits(native, m) /\ ThreadAt(native, m) = t => m = k
    <3> SUFFICES ASSUME NEW m \in 0..n, Waits(native, m), ThreadAt(native, m) = t
                 PROVE  m = k
      OBVIOUS
    <3>1. ~(m \in 0..(k - 1))
      BY <1>1, <1>2 DEF StackInv, Grows
    <3>2. m \in 1..n => m <= k
      BY <1>1, <1>2 DEF ThreadAt
    <3> QED
      BY <1>1, <2>1, <3>1, <3>2
  <2>8. e[i] = (IF ThreadAt(native, i) = t THEN g[i].d ELSE IF i < k THEN 0 ELSE g[k].d)
        /\ e[i - 1] = (IF ThreadAt(native, i - 1) = t THEN g[i - 1].d
                       ELSE IF i - 1 < k THEN 0 ELSE g[k].d)
        /\ f[i] = IF h.thread = t THEN CallInfos(h) ELSE 0
    BY <2>1
  <2> HIDE DEF e, f, h
  <2>9. CASE h.thread = t
    <3>1. i <= k
      BY <1>2, <2>9 DEF h
    <3>2. e[i] = g[i].d /\ f[i] = CallInfos(h)
      BY <2>3, <2>8, <2>9
    <3>3. CASE h.a = "resume"
      <4>1. e[i - 1] = 0
        BY <2>1, <2>6, <2>8, <2>9, <3>1, <3>3
      <4> QED
        BY <2>4, <2>5, <3>2, <3>3, <4>1
    <3>4. CASE h.a # "resume"
      <4>1. e[i - 1] = g[i - 1].d
        BY <2>6, <2>8, <2>9, <3>4
      <4> QED
        BY <2>5, <3>2, <3>4, <4>1
    <3> QED
      BY <3>3, <3>4
  <2>10. CASE h.thread # t
    <3>1. f[i] = 0 /\ e[i] = IF i < k THEN 0 ELSE g[k].d
      BY <2>3, <2>8, <2>10
    <3>2. i # k
      BY <1>2, <2>3, <2>10
    <3>3. CASE ThreadAt(native, i - 1) = t
      <4>1. h.a = "resume"
        BY <2>6, <2>10, <3>3
      <4>2. Waits(native, i - 1)
        BY <2>1, <4>1 DEF Waits, h
      <4>3. i - 1 = k
        BY <2>1, <2>7, <3>3, <4>2
      <4>4. e[i - 1] = g[k].d /\ ~(i < k)
        BY <2>1, <2>8, <3>3, <4>3
      <4> QED
        BY <2>1, <3>1, <4>4
    <3>4. CASE ThreadAt(native, i - 1) # t
      <4>1. e[i - 1] = IF i - 1 < k THEN 0 ELSE g[k].d
        BY <2>8, <3>4
      <4>2. i - 1 # k
        BY <1>2, <3>4
      <4>3. i - 1 < k <=> i < k
        BY <2>1, <3>2, <4>2
      <4>4. e[i - 1] = e[i] /\ e[i] \in Nat
        BY <2>1, <3>1, <4>1, <4>3
      <4> QED
        BY <3>1, <4>4
    <3> QED
      BY <3>3, <3>4
  <2> QED
    BY <2>9, <2>10
<1>7. Len(f) = n /\ n \in Nat
  BY <1>1
<1>8. SumOf(f) = e[n]
  <2> HIDE DEF f, e, n
  <2> QED
    BY <1>4, <1>5, <1>6, <1>7, SumIs, ZenonT(40)
<1>9. e[n] = g[k].d
  <2>1. e[n] = IF ThreadAt(native, n) = t THEN g[n].d ELSE IF n < k THEN 0 ELSE g[k].d
    BY <1>1
  <2>2. CASE ThreadAt(native, n) = t
    <3>1. n = k
      <4>1. n \in Nat /\ k \in 1..n /\ n \in 1..n /\ n # 0
        BY <1>1
      <4>2. native[n].thread = t
        BY <2>2, <4>1 DEF ThreadAt
      <4> HIDE DEF n
      <4>3. n <= k
        BY <1>2, <4>1, <4>2 DEF n
      <4> QED
        BY <4>1, <4>3
    <3> QED
      BY <2>1, <2>2, <3>1
  <2>3. CASE ThreadAt(native, n) # t
    <3>1. ~(n < k)
      BY <1>1
    <3> QED
      BY <2>1, <2>3, <3>1
  <2> QED
    BY <2>2, <2>3
<1>10. Len(st[t].ci) = g[k].d + 1 /\ g[k].d \in Nat
  <2>1. k \in 0..Len(native)
    BY <1>1
  <2> QED
    BY <1>2, <1>3, <2>1, AtFrame DEF Matches
<1>11. f = [i \in DOMAIN native |-> IF native[i].thread = t THEN CallInfos(native[i]) ELSE 0]
  BY <1>1
<1>12. Depth(t) - 1 = g[k].d
  BY <1>10 DEF Depth
<1> HIDE DEF f, e
<1> QED
  BY <1>8, <1>9, <1>11, <1>12

\* Errors, yields and returns leave every lua_State with its types, with the number of
\* C calls that its frames have made, and with open upvalues in frames that exist.
THEOREM StatesAlwaysRestored == Spec => []StatesRestored
<1>1. IInv => StatesRestored
  BY TypesHold, CallsAreCounted, UpvaluesHold DEF StatesRestored
<1> QED
  BY <1>1, InOrderAlways, PTL

\* A thread that does not yield has exactly the CallInfos that its frames run.
THEOREM FramesAlwaysMatch == Spec => []FramesMatch
<1> QED
  BY FramesAreMatched, InOrderAlways, PTL

\* An error always has a place to jump to, and it is the innermost protected call.
THEOREM JumpsAlwaysLand == Spec => []JumpsLand
<1> QED
  BY JumpsAreRight, InOrderAlways, PTL

-----------------------------------------------------------------------------
(* The chain of coroutines.                                                  *)

\* The chain that the first i frames make is c[i].
Links(nat, c) ==
    /\ nat \in Seq(Frames)
    /\ c \in [0..Len(nat) -> Seq(Threads)] /\ c[0] = <<Main>>
    /\ \A i \in 1..Len(nat) :
          c[i] = IF nat[i].a = "resume" THEN Append(c[i - 1], nat[i].thread) ELSE c[i - 1]

\* The chain is what the frames add to it, one by one.
LEMMA ChainIs ==
    ASSUME NEW nat, NEW c, Links(nat, c)
    PROVE  ChainOf(nat) = c[Len(nat)] /\ ChainOf(nat) \in Seq(Threads)
<1> DEFINE n == Len(nat)
           Step(h) == [i \in 0..n |->
                          IF i = 0 THEN <<Main>>
                          ELSE IF nat[i].a = "resume" THEN Append(h[i - 1], nat[i].thread)
                          ELSE h[i - 1]]
           chain == CHOOSE h : h = Step(h)
<1>0. /\ n \in Nat /\ c \in [0..n -> Seq(Threads)] /\ c[0] = <<Main>>
      /\ \A i \in 1..n :
            c[i] = IF nat[i].a = "resume" THEN Append(c[i - 1], nat[i].thread) ELSE c[i - 1]
  BY DEF Links
<1>1. ChainOf(nat) = chain[n]
  BY DEF ChainOf
<1> HIDE DEF n
<1>2. c = Step(c)
  <2>1. \A i \in 0..n : c[i] = IF i = 0 THEN <<Main>>
                               ELSE IF nat[i].a = "resume" THEN Append(c[i - 1], nat[i].thread)
                               ELSE c[i - 1]
    <3> SUFFICES ASSUME NEW i \in 0..n
                 PROVE  c[i] = IF i = 0 THEN <<Main>>
                               ELSE IF nat[i].a = "resume" THEN Append(c[i - 1], nat[i].thread)
                               ELSE c[i - 1]
      OBVIOUS
    <3>1. i = 0 \/ i \in 1..n
      BY <1>0
    <3> QED
      BY <1>0, <3>1
  <2> QED
    BY <1>0, <2>1
<1>3. chain = Step(chain)
  BY <1>2
<1> HIDE DEF chain
<1>4. \A i \in 0..n : chain[i] = IF i = 0 THEN <<Main>>
                                 ELSE IF nat[i].a = "resume"
                                      THEN Append(chain[i - 1], nat[i].thread)
                                 ELSE chain[i - 1]
  BY <1>3
<1> HIDE DEF Step
<1> DEFINE T == {i \in 0..n : chain[i] # c[i]}
<1>5. T = {}
  <2> SUFFICES ASSUME T # {}
               PROVE  FALSE
    OBVIOUS
  <2>1. T \subseteq Nat
    BY <1>0
  <2> HIDE DEF T
  <2>2. PICK i \in T : \A m \in T : i <= m
    BY <2>1, LeastNat
  <2>3. i \in 0..n /\ chain[i] # c[i]
    BY <2>2 DEF T
  <2>4. i # 0
    BY <1>0, <1>4, <2>3
  <2>5. i \in 1..n /\ i - 1 \in 0..n /\ ~(i <= i - 1)
    BY <1>0, <2>3, <2>4
  <2>6. i - 1 \notin T
    BY <2>2, <2>5
  <2>7. chain[i - 1] = c[i - 1]
    BY <2>5, <2>6 DEF T
  <2>8. chain[i] = IF nat[i].a = "resume" THEN Append(chain[i - 1], nat[i].thread)
                   ELSE chain[i - 1]
    BY <1>4, <2>3, <2>4
  <2> QED
    BY <1>0, <2>3, <2>5, <2>7, <2>8
<1>6. n \in 0..n
  BY <1>0
<1>7. chain[n] = c[n] /\ c[n] \in Seq(Threads)
  BY <1>0, <1>5, <1>6
<1> QED
  BY <1>1, <1>7 DEF n

\* What the frames imply has the chain in it.
LEMMA ImpliedLinks ==
    ASSUME NEW nat, NEW g, StackInv(nat, g)
    PROVE  Links(nat, [i \in 0..Len(nat) |-> g[i].r])
<1> DEFINE n == Len(nat)  c == [i \in 0..n |-> g[i].r]
<1>1. /\ nat \in Seq(Frames) /\ n \in Nat /\ g[0] = Nothing
      /\ \A i \in 0..n : g[i] \in Implied
      /\ \A i \in 1..n : g[i] = Imply(g[i - 1], nat[i], i)
  BY StackTypes DEF StackInv, Follows
<1>2. \A i \in 0..n : g[i].r \in Seq(Threads)
  BY <1>1 DEF Implied
<1>3. g[0].r = <<Main>>
  BY <1>1 DEF Nothing
<1>4. \A i \in 1..n :
         g[i].r = IF nat[i].a = "resume" THEN Append(g[i - 1].r, nat[i].thread) ELSE g[i - 1].r
  <2> SUFFICES ASSUME NEW i \in 1..n
               PROVE  g[i].r = IF nat[i].a = "resume" THEN Append(g[i - 1].r, nat[i].thread)
                               ELSE g[i - 1].r
    OBVIOUS
  <2>1. g[i] = Imply(g[i - 1], nat[i], i)
    BY <1>1
  <2>2. Imply(g[i - 1], nat[i], i).r = IF nat[i].a = "resume" THEN Append(g[i - 1].r, nat[i].thread)
                                       ELSE g[i - 1].r
    BY DEF Imply
  <2> QED
    BY <2>1, <2>2
<1> HIDE DEF n
<1>5. c \in [0..n -> Seq(Threads)] /\ c[0] = <<Main>>
  BY <1>1, <1>2, <1>3
<1>6. \A i \in 1..n : c[i] = IF nat[i].a = "resume" THEN Append(c[i - 1], nat[i].thread) ELSE c[i - 1]
  <2> SUFFICES ASSUME NEW i \in 1..n
               PROVE  c[i] = IF nat[i].a = "resume" THEN Append(c[i - 1], nat[i].thread) ELSE c[i - 1]
    OBVIOUS
  <2>1. i \in 0..n /\ i - 1 \in 0..n
    BY <1>1
  <2>2. c[i] = g[i].r /\ c[i - 1] = g[i - 1].r
    BY <2>1
  <2> QED
    BY <1>4, <2>2
<1> QED
  BY <1>1, <1>5, <1>6 DEF Links, n

\* The chains with one more frame.
Longer(nat, c, f) ==
    [i \in 0..(Len(nat) + 1) |->
        IF i = Len(nat) + 1
        THEN IF f.a = "resume" THEN Append(c[Len(nat)], f.thread) ELSE c[Len(nat)]
        ELSE c[i]]

\* One more frame, of the kind of lua_resume or of another.
LEMMA LinksPushed ==
    ASSUME NEW nat, NEW c, Links(nat, c), NEW f \in Frames
    PROVE  LET c2 == Longer(nat, c, f)
           IN  /\ Links(Append(nat, f), c2) /\ Len(Append(nat, f)) = Len(nat) + 1
               /\ \A i \in 0..Len(nat) : c2[i] = c[i]
               /\ f.a = "resume" => c2[Len(nat) + 1] = Append(c[Len(nat)], f.thread)
               /\ f.a # "resume" => c2[Len(nat) + 1] = c[Len(nat)]
<1> DEFINE n == Len(nat)  nat2 == Append(nat, f)
           e == IF f.a = "resume" THEN Append(c[n], f.thread) ELSE c[n]
           c2 == [i \in 0..(n + 1) |-> IF i = n + 1 THEN e ELSE c[i]]
<1>0. c2 = Longer(nat, c, f)
  BY DEF Longer
<1>1. /\ nat \in Seq(Frames) /\ n \in Nat /\ c \in [0..n -> Seq(Threads)] /\ c[0] = <<Main>>
      /\ \A i \in 1..n :
            c[i] = IF nat[i].a = "resume" THEN Append(c[i - 1], nat[i].thread) ELSE c[i - 1]
  BY DEF Links
<1>2. /\ nat2 \in Seq(Frames) /\ Len(nat2) = n + 1 /\ nat2[n + 1] = f
      /\ \A i \in 1..n : nat2[i] = nat[i]
  BY <1>1, AppendIs
<1> HIDE DEF n, nat2
<1>3. e \in Seq(Threads)
  <2>1. c[n] \in Seq(Threads) /\ f.thread \in Threads
    BY <1>1, FrameFields
  <2> QED
    BY <2>1
<1>4. e = IF f.a = "resume" THEN Append(c[n], f.thread) ELSE c[n]
  OBVIOUS
<1> HIDE DEF e
<1>5. /\ c2 \in [0..(n + 1) -> Seq(Threads)] /\ c2[n + 1] = e
      /\ \A i \in 0..n : c2[i] = c[i]
  BY <1>1, <1>3
<1> HIDE DEF c2
<1>6. c2[0] = <<Main>>
  BY <1>1, <1>5
<1>7. \A i \in 1..(n + 1) :
         c2[i] = IF nat2[i].a = "resume" THEN Append(c2[i - 1], nat2[i].thread) ELSE c2[i - 1]
  <2> SUFFICES ASSUME NEW i \in 1..(n + 1)
               PROVE  c2[i] = IF nat2[i].a = "resume" THEN Append(c2[i - 1], nat2[i].thread)
                              ELSE c2[i - 1]
    OBVIOUS
  <2>1. i - 1 \in 0..n /\ (i \in 1..n \/ (i = n + 1 /\ i - 1 = n))
    BY <1>1
  <2>2. CASE i \in 1..n
    <3>1. i \in 0..n
      BY <1>1, <2>2
    <3>2. c2[i] = c[i] /\ c2[i - 1] = c[i - 1] /\ nat2[i] = nat[i]
      BY <1>2, <1>5, <2>1, <2>2, <3>1
    <3> QED
      BY <1>1, <2>2, <3>2
  <2>3. CASE i = n + 1 /\ i - 1 = n
    BY <1>2, <1>4, <1>5, <2>1, <2>3
  <2> QED
    BY <2>1, <2>2, <2>3
<1>8. Links(nat2, c2)
  BY <1>2, <1>5, <1>6, <1>7 DEF Links
<1>9. /\ f.a = "resume" => c2[n + 1] = Append(c[n], f.thread)
      /\ f.a # "resume" => c2[n + 1] = c[n]
  BY <1>4, <1>5
<1> QED
  BY <1>0, <1>2, <1>5, <1>8, <1>9 DEF n, nat2

\* The chain with one more frame.
LEMMA PushedChain ==
    ASSUME NEW nat, NEW c, Links(nat, c), NEW f \in Frames
    PROVE  /\ f.a # "resume" => ChainOf(Append(nat, f)) = ChainOf(nat)
           /\ f.a = "resume" => ChainOf(Append(nat, f)) = Append(ChainOf(nat), f.thread)
<1> DEFINE nat2 == Append(nat, f)  c2 == Longer(nat, c, f)
<1>1. /\ Links(nat2, c2) /\ Len(nat2) = Len(nat) + 1
      /\ f.a = "resume" => c2[Len(nat) + 1] = Append(c[Len(nat)], f.thread)
      /\ f.a # "resume" => c2[Len(nat) + 1] = c[Len(nat)]
  BY LinksPushed
<1> HIDE DEF nat2, c2
<1>2. ChainOf(nat2) = c2[Len(nat2)] /\ ChainOf(nat) = c[Len(nat)]
  BY <1>1, ChainIs
<1> QED
  BY <1>1, <1>2 DEF nat2

\* A stack that is cut.
LEMMA LinksCut ==
    ASSUME NEW nat, NEW c, Links(nat, c), NEW m \in 0..Len(nat)
    PROVE  /\ Links(SubSeq(nat, 1, m), [i \in 0..m |-> c[i]])
           /\ ChainOf(SubSeq(nat, 1, m)) = c[m] /\ c[m] \in Seq(Threads)
<1> DEFINE n == Len(nat)  nat2 == SubSeq(nat, 1, m)  c2 == [i \in 0..m |-> c[i]]
<1>1. /\ nat \in Seq(Frames) /\ n \in Nat /\ c \in [0..n -> Seq(Threads)] /\ c[0] = <<Main>>
      /\ \A i \in 1..n :
            c[i] = IF nat[i].a = "resume" THEN Append(c[i - 1], nat[i].thread) ELSE c[i - 1]
      /\ m \in 0..n
  BY DEF Links
<1>2. nat2 \in Seq(Frames) /\ Len(nat2) = m /\ \A i \in 1..m : nat2[i] = nat[i]
  BY <1>1, CutIs
<1> HIDE DEF n, nat2
<1>3. c2 \in [0..m -> Seq(Threads)] /\ \A i \in 0..m : c2[i] = c[i]
  BY <1>1
<1> HIDE DEF c2
<1>4. c2[0] = <<Main>> /\ m \in 0..m
  BY <1>1, <1>3
<1>5. \A i \in 1..m :
         c2[i] = IF nat2[i].a = "resume" THEN Append(c2[i - 1], nat2[i].thread) ELSE c2[i - 1]
  <2> SUFFICES ASSUME NEW i \in 1..m
               PROVE  c2[i] = IF nat2[i].a = "resume" THEN Append(c2[i - 1], nat2[i].thread)
                              ELSE c2[i - 1]
    OBVIOUS
  <2>1. i \in 0..m /\ i - 1 \in 0..m /\ i \in 1..n
    BY <1>1
  <2> QED
    BY <1>1, <1>2, <1>3, <2>1
<1>6. Links(nat2, c2)
  BY <1>2, <1>3, <1>4, <1>5 DEF Links
<1>7. ChainOf(nat2) = c2[m] /\ ChainOf(nat2) \in Seq(Threads)
  BY <1>2, <1>6, ChainIs
<1>8. c2[m] = c[m]
  BY <1>3, <1>4
<1> QED
  BY <1>6, <1>7, <1>8 DEF nat2, c2

\* The last of the chain is the thread that runs.
LEMMA LastOfChain ==
    ASSUME NEW nat, NEW g, StackInv(nat, g)
    PROVE  /\ ChainOf(nat) = g[Len(nat)].r
           /\ ChainOf(nat) \in Seq(Threads) /\ ChainOf(nat) # <<>>
           /\ Last(ChainOf(nat)) = Top(nat)
<1> DEFINE n == Len(nat)
           T == {i \in 0..n : g[i].r = <<>> \/ g[i].r[Len(g[i].r)] # ThreadAt(nat, i)}
<1>1. /\ nat \in Seq(Frames) /\ n \in Nat /\ Main \in Threads
      /\ \A i \in 1..n : nat[i].thread \in Threads
      /\ g[0] = Nothing
      /\ \A i \in 0..n : g[i] \in Implied
      /\ \A i \in 1..n : g[i] = Imply(g[i - 1], nat[i], i) /\ Placed(nat, i)
  BY StackTypes DEF StackInv, Follows
<1>2. \A i \in 0..n : g[i].r \in Seq(Threads)
  BY <1>1 DEF Implied
<1>3. ChainOf(nat) = g[n].r /\ n \in 0..n
  <2>1. Links(nat, [i \in 0..n |-> g[i].r]) /\ n \in 0..n
    BY <1>1, ImpliedLinks
  <2> HIDE DEF n
  <2> DEFINE c == [i \in 0..n |-> g[i].r]
  <2>2. c[n] = g[n].r
    BY <2>1
  <2> HIDE DEF c
  <2>3. ChainOf(nat) = c[n]
    BY <2>1, ChainIs DEF c, n
  <2> QED
    BY <2>1, <2>2, <2>3
<1>4. g[0].r = <<Main>>
  BY <1>1 DEF Nothing
<1>5. \A i \in 1..n :
         /\ g[i].r = IF nat[i].a = "resume" THEN Append(g[i - 1].r, nat[i].thread) ELSE g[i - 1].r
         /\ ThreadAt(nat, i) = nat[i].thread
         /\ nat[i].a # "resume" => nat[i].thread = ThreadAt(nat, i - 1)
  <2> SUFFICES ASSUME NEW i \in 1..n
               PROVE  /\ g[i].r = IF nat[i].a = "resume" THEN Append(g[i - 1].r, nat[i].thread)
                                  ELSE g[i - 1].r
                      /\ ThreadAt(nat, i) = nat[i].thread
                      /\ nat[i].a # "resume" => nat[i].thread = ThreadAt(nat, i - 1)
    OBVIOUS
  <2>1. g[i] = Imply(g[i - 1], nat[i], i) /\ Placed(nat, i)
    BY <1>1
  <2>2. Imply(g[i - 1], nat[i], i).r = IF nat[i].a = "resume" THEN Append(g[i - 1].r, nat[i].thread)
                                       ELSE g[i - 1].r
    BY DEF Imply
  <2>3. ThreadAt(nat, i) = nat[i].thread
    BY <1>1 DEF ThreadAt
  <2>4. nat[i].a # "resume" => nat[i].thread = ThreadAt(nat, i - 1)
    BY <2>1 DEF Placed
  <2> QED
    BY <2>1, <2>2, <2>3, <2>4
<1> HIDE DEF n
<1>6. T = {}
  <2> SUFFICES ASSUME T # {}
               PROVE  FALSE
    OBVIOUS
  <2>1. T \subseteq Nat
    BY <1>1
  <2> HIDE DEF T
  <2>2. PICK i \in T : \A m \in T : i <= m
    BY <2>1, LeastNat
  <2>3. i \in 0..n /\ (g[i].r = <<>> \/ g[i].r[Len(g[i].r)] # ThreadAt(nat, i))
    BY <2>2 DEF T
  <2>4. i # 0
    <3>1. <<Main>> # <<>> /\ <<Main>>[Len(<<Main>>)] = Main
      OBVIOUS
    <3> QED
      BY <1>4, <2>3, <3>1 DEF ThreadAt
  <2>5. i \in 1..n /\ i - 1 \in 0..n /\ ~(i <= i - 1)
    BY <1>1, <2>3, <2>4
  <2>6. i - 1 \notin T
    BY <2>2, <2>5
  <2>7. g[i - 1].r # <<>> /\ g[i - 1].r[Len(g[i - 1].r)] = ThreadAt(nat, i - 1)
    BY <2>5, <2>6 DEF T
  <2>8. CASE nat[i].a = "resume"
    <3> DEFINE b == g[i - 1].r  u == nat[i].thread
    <3>1. b \in Seq(Threads) /\ u \in Threads /\ g[i].r = Append(b, u)
      BY <1>1, <1>2, <1>5, <2>5, <2>8
    <3> HIDE DEF b
    <3>2. Append(b, u) # <<>> /\ Append(b, u)[Len(Append(b, u))] = u
      BY <3>1
    <3> QED
      BY <1>5, <2>3, <2>5, <3>1, <3>2
  <2>9. CASE nat[i].a # "resume"
    BY <1>5, <2>3, <2>5, <2>7, <2>9
  <2> QED
    BY <2>8, <2>9
<1>7. g[n].r # <<>> /\ g[n].r[Len(g[n].r)] = ThreadAt(nat, n) /\ g[n].r \in Seq(Threads)
  BY <1>2, <1>3, <1>6
<1> QED
  BY <1>3, <1>7 DEF Last, Top, n

-----------------------------------------------------------------------------
(* What a step of the thread that runs can do to the chain.                  *)

\* An error has a place to jump to, and the chain is the same there and at the top.
Guarded(s, c) ==
    LET n == Len(s.native)
        t == Top(s.native)
        j == s.st[t].jmp
    IN  /\ s = [st |-> s.st, native |-> s.native, ctl |-> s.ctl]
        /\ Links(s.native, c) /\ s.native # <<>> /\ t \in Threads
        /\ s.st \in [Threads -> LuaStates]
        /\ j \in 1..n /\ s.native[j].thread = t /\ Protects(s.native[j]) /\ c[j] = c[n]

\* The chain stays, or its last thread fails; the other lua_States stay, and so does
\* what an earlier run has left to a coroutine.
Others(s, s2) ==
    \A u \in Threads : /\ u # Top(s.native) => s2.st[u] = s.st[u]
                       /\ s2.st[u].vals = s.st[u].vals
Calm(s, s2) == Others(s, s2) /\ ChainOf(s2.native) = ChainOf(s.native)
Fails(s, s2) ==
    /\ Others(s, s2) /\ s2.st[Top(s.native)].status = "error"
    /\ ChainOf(s2.native) \in Seq(Threads)
    /\ ChainOf(s.native) = Append(ChainOf(s2.native), Top(s.native))
Moves(s, s2) == Calm(s, s2) \/ Fails(s, s2)

\* The last of a stack.
LEMMA TopIs ==
    ASSUME NEW nat \in Seq(Frames), nat # <<>>
    PROVE  /\ Top(nat) = nat[Len(nat)].thread /\ Last(nat) = nat[Len(nat)]
           /\ Len(nat) \in Nat /\ Len(nat) >= 1 /\ nat[Len(nat)] \in Frames
           /\ Top(nat) \in Threads
<1>1. Len(nat) >= 1 /\ Last(nat) = nat[Len(nat)] /\ Last(nat) \in Frames
  BY FrontIs
<1>2. Len(nat) \in Nat /\ Len(nat) # 0 /\ nat[Len(nat)] \in Frames
  BY <1>1
<1> QED
  BY <1>1, <1>2, FrameFields DEF Top, ThreadAt

\* The thread that runs a frame other than that of lua_resume can fail.
LEMMA ReadyGuarded ==
    ASSUME NEW s, NEW g, Ready(s, g), Last(s.native).a # "resume"
    PROVE  Guarded(s, [i \in 0..Len(s.native) |-> g[i].r])
<1> DEFINE nat == s.native  n == Len(nat)  t == Top(nat)  r == s.st[t]  j == r.jmp
           c == [i \in 0..n |-> g[i].r]
<1>1. /\ Agree(s, g) /\ nat # <<>> /\ r.status = "ok"
      /\ StackInv(nat, g) /\ nat \in Seq(Frames) /\ t \in Threads
      /\ s.st \in [Threads -> LuaStates] /\ r.jmp = g[n].j
      /\ s = [st |-> s.st, native |-> s.native, ctl |-> s.ctl]
  BY RunningIs DEF Ready, Agree
<1>2. n \in Nat /\ n >= 1 /\ t = nat[n].thread
  BY <1>1, TopIs
<1>3. Links(nat, c)
  BY <1>1, ImpliedLinks
<1>4. /\ j \in 1..n /\ Protects(nat[j]) /\ nat[j].thread = nat[n].thread
      /\ nat[j].a = "pcall" => g[j - 1].r = g[n].r
      /\ nat[j].a = "resume" => g[n].r = Append(g[j - 1].r, nat[n].thread)
  <2>1. Lands(nat, g, n) /\ n \in g[n].j..n
    <3>1. Lands(nat, g, n)
      BY <1>1, <1>2 DEF StackInv
    <3>2. g[n].j \in 1..n
      BY <3>1 DEF Lands
    <3> QED
      BY <1>2, <3>1, <3>2
  <2>2. j = g[n].j
    BY <1>1
  <2> HIDE DEF j, n
  <2>3. j \in 1..n
    BY <2>1, <2>2 DEF Lands
  <2>4. j \in j..n
    BY <1>2, <2>3
  <2> QED
    BY <2>1, <2>2, <2>3, <2>4 DEF Lands
<1> HIDE DEF j, n
<1>5. c[j] = g[j].r /\ c[n] = g[n].r
  BY <1>2, <1>4
<1>6. g[j] = Imply(g[j - 1], nat[j], j)
  BY <1>1, <1>4 DEF StackInv, Follows, n
<1>7. g[j].r = IF nat[j].a = "resume" THEN Append(g[j - 1].r, nat[j].thread) ELSE g[j - 1].r
  <2>1. Imply(g[j - 1], nat[j], j).r =
           IF nat[j].a = "resume" THEN Append(g[j - 1].r, nat[j].thread) ELSE g[j - 1].r
    BY DEF Imply
  <2> QED
    BY <1>6, <2>1
<1>8. g[j].r = g[n].r
  BY <1>4, <1>7 DEF Protects
<1> HIDE DEF c
<1>9. c[j] = c[n]
  BY <1>5, <1>8
<1> QED
  BY <1>1, <1>2, <1>3, <1>4, <1>9 DEF Guarded, c, j, n

\* luaD_throw: the chain stays, or the last coroutine of it fails.
LEMMA ThrowMoves ==
    ASSUME NEW s, NEW c, Guarded(s, c)
    PROVE  Moves(s, Throw(s))
<1> DEFINE nat == s.native  n == Len(nat)  t == Top(nat)  j == s.st[t].jmp  back == nat[j]
           q == IF back.a = "pcall" THEN Recovered(s.st[t], back) ELSE Failed(s.st[t], back)
           s2 == [st |-> [s.st EXCEPT ![t] = q], native |-> SubSeq(nat, 1, j - 1),
                  ctl |-> "fail"]
<1>1. /\ Links(nat, c) /\ nat # <<>> /\ t \in Threads /\ s.st \in [Threads -> LuaStates]
      /\ j \in 1..n /\ nat[j].thread = t /\ Protects(nat[j]) /\ c[j] = c[n]
  BY DEF Guarded
<1>2. /\ nat \in Seq(Frames) /\ n \in Nat
      /\ c[j] = IF nat[j].a = "resume" THEN Append(c[j - 1], nat[j].thread) ELSE c[j - 1]
  <2> HIDE DEF j
  <2> QED
    BY <1>1 DEF Links
<1>3. Last(nat).thread = t
  BY <1>1, <1>2, TopIs
<1>4. Throw(s) = s2
  <2>1. j # 0
    BY <1>1
  <2>2. [s.st EXCEPT ![t] = IF back.a = "pcall" THEN Recovered(@, back) ELSE Failed(@, back)]
           = [s.st EXCEPT ![t] = q]
    BY <1>1
  <2> HIDE DEF j, t
  <2> QED
    BY <1>3, <2>1, <2>2 DEF Throw, j, t
<1>5. ChainOf(nat) = c[n]
  BY <1>1, ChainIs
<1>6. ChainOf(SubSeq(nat, 1, j - 1)) = c[j - 1] /\ c[j - 1] \in Seq(Threads)
  <2>1. j - 1 \in 0..n
    BY <1>1, <1>2
  <2> QED
    BY <1>1, <2>1, LinksCut
<1>7. q = IF back.a = "pcall" THEN Recovered(s.st[t], back) ELSE Failed(s.st[t], back)
  OBVIOUS
<1>11. q.vals = s.st[t].vals
  <2>1. s.st[t] \in LuaStates
    BY <1>1
  <2> HIDE DEF back, t
  <2> QED
    BY <2>1 DEF Recovered, Failed, LuaStates
<1> HIDE DEF q
<1>8. s2.native = SubSeq(nat, 1, j - 1) /\ s2.st[t] = q
      /\ \A u \in Threads : (u # t => s2.st[u] = s.st[u]) /\ s2.st[u].vals = s.st[u].vals
  BY <1>1, <1>11
<1> HIDE DEF s2
<1>9. CASE nat[j].a = "pcall"
  <2>1. ChainOf(s2.native) = ChainOf(nat)
    BY <1>1, <1>2, <1>5, <1>6, <1>8, <1>9
  <2> QED
    BY <1>4, <1>8, <2>1 DEF Moves, Calm, Others
<1>10. CASE nat[j].a = "resume"
  <2>1. ChainOf(nat) = Append(ChainOf(s2.native), t) /\ ChainOf(s2.native) \in Seq(Threads)
    BY <1>1, <1>2, <1>5, <1>6, <1>8, <1>10
  <2>2. q.status = "error"
    <3>1. s.st[t] \in LuaStates /\ q = Failed(s.st[t], back)
      BY <1>1, <1>7, <1>10
    <3> QED
      BY <3>1 DEF Failed, LuaStates
  <2> QED
    BY <1>4, <1>8, <2>1, <2>2 DEF Moves, Fails, Others
<1> QED
  BY <1>1, <1>9, <1>10 DEF Protects

\* A frame is pushed, which is not one of lua_resume: the chain stays.
LEMMA PushGuarded ==
    ASSUME NEW s, NEW c, Guarded(s, c), NEW q \in LuaStates, NEW f \in Frames,
           f.a # "resume", f.thread = Top(s.native),
           q.jmp = IF Protects(f) THEN Len(s.native) + 1 ELSE s.st[Top(s.native)].jmp,
           q.vals = s.st[Top(s.native)].vals, NEW x
    PROVE  LET s2 == [st |-> [s.st EXCEPT ![Top(s.native)] = q], native |-> Append(s.native, f),
                      ctl |-> x]
           IN  /\ Calm(s, s2) /\ Top(s2.native) = Top(s.native) /\ s2.st[Top(s.native)] = q
               /\ \E c2 : Guarded(s2, c2)
<1> DEFINE nat == s.native  n == Len(nat)  t == Top(nat)  j == s.st[t].jmp
           nat2 == Append(nat, f)  str2 == [s.st EXCEPT ![t] = q]
           s2 == [st |-> str2, native |-> nat2, ctl |-> x]
<1>1. /\ Links(nat, c) /\ nat # <<>> /\ t \in Threads /\ s.st \in [Threads -> LuaStates]
      /\ j \in 1..n /\ nat[j].thread = t /\ Protects(nat[j]) /\ c[j] = c[n]
  BY DEF Guarded
<1>2. nat \in Seq(Frames) /\ n \in Nat
  BY <1>1 DEF Links
<1>3. /\ nat2 \in Seq(Frames) /\ Len(nat2) = n + 1 /\ nat2[n + 1] = f
      /\ \A i \in 1..n : nat2[i] = nat[i]
  BY <1>2, AppendIs
<1> DEFINE c2 == Longer(nat, c, f)
<1>4. /\ Links(nat2, c2)
      /\ \A i \in 0..n : c2[i] = c[i]
      /\ c2[n + 1] = c[n]
  BY <1>1, LinksPushed
<1> HIDE DEF c2
<1>5. /\ str2 \in [Threads -> LuaStates] /\ str2[t] = q
      /\ \A u \in Threads : (u # t => str2[u] = s.st[u]) /\ str2[u].vals = s.st[u].vals
  BY <1>1
<1>6. s2.st = str2 /\ s2.native = nat2 /\ s2.ctl = x /\ s2 = [st |-> s2.st, native |-> s2.native, ctl |-> s2.ctl]
  OBVIOUS
<1> HIDE DEF s2, str2, nat2, n, j
<1>7. nat2 # <<>> /\ Top(nat2) = t
  <2>1. nat2 # <<>>
    BY <1>2, <1>3
  <2> QED
    BY <1>3, <2>1, TopIs
<1>8. c2[n + 1] = c[n] /\ n \in 0..n
  BY <1>2, <1>4
<1>9. ChainOf(nat2) = c2[n + 1] /\ ChainOf(nat) = c[n]
  BY <1>1, <1>3, <1>4, ChainIs DEF n
<1>10. Calm(s, s2)
  BY <1>5, <1>6, <1>8, <1>9 DEF Calm, Others
<1>11. /\ q.jmp \in 1..(n + 1) /\ nat2[q.jmp].thread = t /\ Protects(nat2[q.jmp])
       /\ c2[q.jmp] = c2[n + 1]
  <2>1. CASE Protects(f)
    <3>1. q.jmp = n + 1
      BY <2>1 DEF n
    <3> QED
      BY <1>2, <1>3, <2>1, <3>1
  <2>2. CASE ~Protects(f)
    <3>1. q.jmp = j
      BY <2>2 DEF j
    <3>2. j \in 1..(n + 1) /\ j \in 0..n /\ nat2[j] = nat[j]
      BY <1>1, <1>2, <1>3
    <3>3. c2[j] = c[j] /\ c2[n + 1] = c[n]
      BY <1>4, <1>8, <3>2
    <3> QED
      BY <1>1, <3>1, <3>2, <3>3
  <2> QED
    BY <2>1, <2>2
<1>12. Guarded(s2, c2)
  BY <1>1, <1>3, <1>4, <1>5, <1>6, <1>7, <1>11 DEF Guarded
<1> QED
  BY <1>5, <1>6, <1>7, <1>10, <1>12 DEF s2, str2, nat2

\* The lua_State of the thread that runs changes: the chain stays.
LEMMA TouchGuarded ==
    ASSUME NEW s, NEW c, Guarded(s, c), NEW q \in LuaStates, q.jmp = s.st[Top(s.native)].jmp,
           q.vals = s.st[Top(s.native)].vals, NEW x
    PROVE  LET s2 == [st |-> [s.st EXCEPT ![Top(s.native)] = q], native |-> s.native, ctl |-> x]
           IN  Calm(s, s2) /\ Guarded(s2, c) /\ s2.st[Top(s.native)] = q
<1> DEFINE nat == s.native  t == Top(nat)  str2 == [s.st EXCEPT ![t] = q]
           s2 == [st |-> str2, native |-> nat, ctl |-> x]
<1>1. /\ Links(nat, c) /\ nat # <<>> /\ t \in Threads /\ s.st \in [Threads -> LuaStates]
      /\ LET j == s.st[t].jmp
         IN  j \in 1..Len(nat) /\ nat[j].thread = t /\ Protects(nat[j]) /\ c[j] = c[Len(nat)]
  BY DEF Guarded
<1>2. /\ str2 \in [Threads -> LuaStates] /\ str2[t] = q
      /\ \A u \in Threads : (u # t => str2[u] = s.st[u]) /\ str2[u].vals = s.st[u].vals
  BY <1>1
<1>3. s2.st = str2 /\ s2.native = nat /\ s2.ctl = x /\ s2 = [st |-> s2.st, native |-> s2.native, ctl |-> s2.ctl]
  OBVIOUS
<1> HIDE DEF s2, str2
<1>4. Calm(s, s2)
  BY <1>2, <1>3 DEF Calm, Others
<1>5. Guarded(s2, c)
  BY <1>1, <1>2, <1>3 DEF Guarded
<1> QED
  BY <1>2, <1>3, <1>4, <1>5 DEF s2, str2

\* A calm step, and then another.
LEMMA CalmThen ==
    ASSUME NEW s, NEW s2, NEW s3, Calm(s, s2), Top(s2.native) = Top(s.native), Moves(s2, s3)
    PROVE  Moves(s, s3)
<1>1. ASSUME Calm(s2, s3)
      PROVE  Calm(s, s3)
  BY <1>1 DEF Calm, Others
<1>2. ASSUME Fails(s2, s3)
      PROVE  Fails(s, s3)
  BY <1>2 DEF Calm, Fails, Others
<1> QED
  BY <1>1, <1>2 DEF Moves

\* luaG_runerror: the message handler is called, or the error is thrown.
LEMMA RunErrorMoves ==
    ASSUME NEW s, NEW c, Guarded(s, c)
    PROVE  Moves(s, RunError(s))
<1> DEFINE nat == s.native  n == Len(nat)  t == Top(nat)  f == Frame("errormsg", t)
           q == s.st[t]
<1>1. /\ s = [st |-> s.st, native |-> s.native, ctl |-> s.ctl]
      /\ nat \in Seq(Frames) /\ nat # <<>> /\ t \in Threads /\ s.st \in [Threads -> LuaStates]
  BY DEF Guarded, Links
<1>2. Last(nat).thread = t
  BY <1>1, TopIs
<1>3. CASE s.st[t].errf
  <2>1. f \in Frames /\ f.a = "errormsg" /\ f.thread = t
    BY <1>1 DEF Frame, Frames
  <2>2. q \in LuaStates /\ [s.st EXCEPT ![t] = q] = s.st
    BY <1>1
  <2>3. RunError(s) = [st |-> s.st, native |-> Append(nat, f), ctl |-> "run"]
    <3>1. RunError(s) = [s EXCEPT !.native = Append(nat, f), !.ctl = "run"]
      BY <1>2, <1>3 DEF RunError
    <3> QED
      BY <1>1, <3>1
  <2> HIDE DEF f, q
  <2>4. (q.jmp = IF Protects(f) THEN n + 1 ELSE s.st[t].jmp) /\ q.vals = s.st[t].vals
    BY <2>1 DEF Protects, q
  <2>5. Calm(s, [st |-> [s.st EXCEPT ![t] = q], native |-> Append(nat, f), ctl |-> "run"])
    BY <2>1, <2>2, <2>4, PushGuarded
  <2> QED
    BY <2>2, <2>3, <2>5 DEF Moves
<1>4. CASE ~s.st[t].errf
  <2>1. RunError(s) = Throw(s)
    BY <1>2, <1>4 DEF RunError
  <2> QED
    BY <2>1, ThrowMoves
<1> QED
  BY <1>3, <1>4

\* inc_ci: a CallInfo is made, on a C stack with the same chain, or there is an error.
LEMMA EnterMoves ==
    ASSUME NEW s, NEW c, Guarded(s, c), NEW f, NEW nat,
           ChainOf(nat) = ChainOf(s.native)
    PROVE  Moves(s, Enter(s, f, nat))
<1> DEFINE t == Top(s.native)  str == s.st  r == str[t]  size == r.size
<1>1. /\ s = [st |-> s.st, native |-> s.native, ctl |-> s.ctl]
      /\ s.native \in Seq(Frames) /\ s.native # <<>> /\ t \in Threads
      /\ str \in [Threads -> LuaStates]
  BY DEF Guarded, Links
<1>2. Last(s.native).thread = t
  BY <1>1, TopIs
<1>3. size \in Nat /\ Len(r.ci) \in Nat /\ MaxCalls \in Nat /\ r \in LuaStates
  BY <1>1, StateFields, Limits
<1> DEFINE e == [r EXCEPT !.ci = Append(@, f)]
           en == [s EXCEPT !.st[t].ci = Append(@, f), !.native = nat, !.ctl = "run"]
<1>4. en = [st |-> [str EXCEPT ![t] = e], native |-> nat, ctl |-> "run"]
  <2>1. /\ [r EXCEPT !.ci = Append(@, f)] = e
        /\ [s EXCEPT !.st[t].ci = Append(@, f), !.native = nat, !.ctl = "run"] = en
    OBVIOUS
  <2> HIDE DEF e, en
  <2> QED
    BY <1>1, <2>1
<1>5. CASE Len(r.ci) < size
  <2>1. Enter(s, f, nat) = en
    BY <1>2, <1>3, <1>5 DEF Enter
  <2>3. e.vals = r.vals
    BY <1>3 DEF LuaStates
  <2> HIDE DEF e, en
  <2>2. Calm(s, [st |-> [str EXCEPT ![t] = e], native |-> nat, ctl |-> "run"])
    BY <1>1, <2>3 DEF Calm, Others
  <2> QED
    BY <1>4, <2>1, <2>2 DEF Moves
<1>6. CASE Len(r.ci) >= size /\ size > MaxCalls
  <2>1. Enter(s, f, nat) = Throw(s)
    BY <1>2, <1>3, <1>6 DEF Enter
  <2> QED
    BY <2>1, ThrowMoves
<1>7. CASE Len(r.ci) >= size /\ size <= MaxCalls /\ 2 * size > MaxCalls
  <2> DEFINE q == [r EXCEPT !.size = 2 * size]
             s2 == [st |-> [str EXCEPT ![t] = q], native |-> s.native, ctl |-> s.ctl]
  <2>1. Enter(s, f, nat) = RunError([s EXCEPT !.st[t].size = 2 * size])
    BY <1>2, <1>3, <1>7 DEF Enter
  <2>2. [s EXCEPT !.st[t].size = 2 * size] = s2
    BY <1>1
  <2>3. q \in LuaStates /\ q.jmp = r.jmp /\ q.vals = r.vals
    <3>1. 2 * size \in Nat
      BY <1>3
    <3> HIDE DEF size
    <3> QED
      BY <1>3, <3>1 DEF LuaStates
  <2> HIDE DEF q
  <2>4. Calm(s, s2) /\ Guarded(s2, c)
    BY <2>3, TouchGuarded
  <2>5. Top(s2.native) = Top(s.native)
    OBVIOUS
  <2> HIDE DEF s2
  <2>6. Moves(s2, RunError(s2))
    BY <2>4, RunErrorMoves
  <2> QED
    BY <2>1, <2>2, <2>4, <2>5, <2>6, CalmThen
<1>8. CASE Len(r.ci) >= size /\ size <= MaxCalls /\ ~(2 * size > MaxCalls)
  <2> DEFINE q == [e EXCEPT !.size = 2 * size]
  <2>1. Enter(s, f, nat) = [en EXCEPT !.st[t].size = 2 * size]
    BY <1>2, <1>3, <1>8 DEF Enter
  <2> HIDE DEF en
  <2>2. [en EXCEPT !.st[t].size = 2 * size]
           = [st |-> [str EXCEPT ![t] = q], native |-> nat, ctl |-> "run"]
    <3> HIDE DEF e, size
    <3>1. [str EXCEPT ![t] = e][t] = e
      BY <1>1
    <3>2. [[str EXCEPT ![t] = e] EXCEPT ![t].size = 2 * size] = [str EXCEPT ![t] = q]
      BY <1>1
    <3> QED
      BY <1>4, <3>2
  <2>4. q.vals = r.vals
    BY <1>3 DEF LuaStates
  <2> HIDE DEF q
  <2>3. Calm(s, [st |-> [str EXCEPT ![t] = q], native |-> nat, ctl |-> "run"])
    BY <1>1, <2>4 DEF Calm, Others
  <2> QED
    BY <2>1, <2>2, <2>3 DEF Moves
<1> QED
  BY <1>3, <1>5, <1>6, <1>7, <1>8

\* luaD_call: two frames more, or an error.
LEMMA CallMoves ==
    ASSUME NEW s, NEW c, Guarded(s, c), NEW f \in Functs
    PROVE  Moves(s, Call(s, f))
<1> DEFINE t == Top(s.native)  str == s.st  r == str[t]  n == r.nC + 1
           b == Frame("call", t)  q == [r EXCEPT !.nC = n]  body == Body(t, f)
           s2 == [st |-> [str EXCEPT ![t] = q], native |-> Append(s.native, b), ctl |-> s.ctl]
           x == [s EXCEPT !.st[t].nC = n, !.native = Append(@, Frame("call", t))]
<1>1. /\ s = [st |-> s.st, native |-> s.native, ctl |-> s.ctl]
      /\ s.native \in Seq(Frames) /\ s.native # <<>> /\ t \in Threads
      /\ str \in [Threads -> LuaStates]
  BY DEF Guarded, Links
<1>2. Last(s.native).thread = t
  BY <1>1, TopIs
<1>3. n \in Nat /\ r \in LuaStates /\ MaxCCalls \in Nat /\ CSlack \in Nat
  BY <1>1, StateFields, Limits
<1>4. x = s2
  <2>1. /\ [r EXCEPT !.nC = n] = q
        /\ [s EXCEPT !.st[t].nC = n, !.native = Append(@, Frame("call", t))] = x
    OBVIOUS
  <2> HIDE DEF q, x, n
  <2>2. x = [st |-> [str EXCEPT ![t] = q], native |-> Append(s.native, b), ctl |-> s.ctl]
    BY <1>1, <2>1
  <2> QED
    BY <2>2
<1>5. b \in Frames /\ b.a = "call" /\ b.thread = t
  BY <1>1 DEF Frame, Frames
<1>6. q \in LuaStates /\ q.jmp = r.jmp /\ q.vals = r.vals
  <2> HIDE DEF n
  <2> QED
    BY <1>3 DEF LuaStates
<1>7. body \in Frames /\ body.a # "resume" /\ body.thread = t
  BY <1>1 DEF Functs, LuaFunctions, Body, Exec, CFrame, Frames
<1> HIDE DEF q, b
<1>8. Calm(s, s2) /\ Top(s2.native) = t /\ \E c2 : Guarded(s2, c2)
  <2>1. q.jmp = IF Protects(b) THEN Len(s.native) + 1 ELSE r.jmp
    BY <1>5, <1>6 DEF Protects
  <2>2. b.a # "resume"
    BY <1>5
  <2> QED
    BY <1>5, <1>6, <2>1, <2>2, PushGuarded
<1>9. PICK c2 : Guarded(s2, c2)
  BY <1>8
<1>10. Call(s, f) = CASE n = MaxCCalls -> RunError(s2)
                     [] n >= MaxCCalls + CSlack -> Throw(s2)
                     [] OTHER -> Enter(s2, f, Append(s2.native, body))
  <2>1. Call(s, f) = CASE n = MaxCCalls -> RunError(x)
                     [] n >= MaxCCalls + CSlack -> Throw(x)
                     [] OTHER -> Enter(x, f, Append(x.native, body))
    BY <1>2 DEF Call
  <2> HIDE DEF x, s2
  <2> QED
    BY <1>4, <2>1
<1> HIDE DEF x, s2, n, body
<1>11. ChainOf(Append(s2.native, body)) = ChainOf(s2.native)
  <2>1. Links(s2.native, c2)
    BY <1>9 DEF Guarded
  <2> QED
    BY <1>7, <2>1, PushedChain
<1>12. Moves(s2, RunError(s2)) /\ Moves(s2, Throw(s2)) /\ Moves(s2, Enter(s2, f, Append(s2.native, body)))
  BY <1>9, <1>11, RunErrorMoves, ThrowMoves, EnterMoves
<1> DEFINE z == Call(s, f)
<1>13. Moves(s2, z)
  <2>1. CASE n = MaxCCalls
    BY <1>3, <1>10, <1>12, <2>1
  <2>2. CASE n # MaxCCalls /\ n >= MaxCCalls + CSlack
    BY <1>3, <1>10, <1>12, <2>2
  <2>3. CASE n # MaxCCalls /\ ~(n >= MaxCCalls + CSlack)
    BY <1>3, <1>10, <1>12, <2>3
  <2> QED
    BY <2>1, <2>2, <2>3
<1> HIDE DEF z
<1>14. Moves(s, z)
  BY <1>8, <1>13, CalmThen
<1> QED
  BY <1>14 DEF z

\* luaD_pcall: a frame to jump to.
LEMMA ProtectedCalm ==
    ASSUME NEW s, NEW c, Links(s.native, c), s.st \in [Threads -> LuaStates],
           s = [st |-> s.st, native |-> s.native, ctl |-> s.ctl],
           NEW t \in Threads, t = Top(s.native), NEW h \in BOOLEAN
    PROVE  LET s2 == Protected(s, t, h)
           IN  Calm(s, s2) /\ Top(s2.native) = t /\ \E c2 : Guarded(s2, c2)
<1> DEFINE n == Len(s.native)  r == s.st[t]
           b == [a |-> "pcall", thread |-> t, depth |-> Len(r.ci), nC |-> r.nC,
                 errf |-> r.errf, allow |-> r.allow, jmp |-> r.jmp]
           q == [r EXCEPT !.errf = h, !.jmp = n + 1]
           nat2 == Append(s.native, b)  str2 == [s.st EXCEPT ![t] = q]
           s2 == [st |-> str2, native |-> nat2, ctl |-> s.ctl]
<1>1. r \in LuaStates /\ s.native \in Seq(Frames) /\ n \in Nat
  BY DEF Links
<1>2. b \in Frames /\ b.a = "pcall" /\ b.thread = t
  <2>1. /\ Len(r.ci) \in Nat /\ r.nC \in Nat /\ r.errf \in BOOLEAN /\ r.allow \in BOOLEAN
        /\ r.jmp \in Nat
    BY <1>1, StateFields
  <2> QED
    BY <2>1 DEF Frames
<1>3. q \in LuaStates /\ q.jmp = n + 1 /\ q.vals = r.vals
  <2>1. n + 1 \in Nat
    BY <1>1
  <2> HIDE DEF n
  <2> QED
    BY <1>1, <2>1 DEF LuaStates
<1>4. Protected(s, t, h) = s2
  <2> DEFINE z == Protected(s, t, h)
  <2>1. z = [s EXCEPT !.st[t].errf = h, !.st[t].jmp = n + 1, !.native = Append(@, b)]
    BY DEF Protected
  <2>2. q = [r EXCEPT !.errf = h, !.jmp = n + 1] /\ r = s.st[t]
    OBVIOUS
  <2> HIDE DEF z, b, q, n, r
  <2>3. z = s2
    BY <2>1, <2>2
  <2> QED
    BY <2>3 DEF z
<1> HIDE DEF b, q
<1>5. /\ nat2 \in Seq(Frames) /\ Len(nat2) = n + 1 /\ nat2[n + 1] = b
  BY <1>1, <1>2, AppendIs
<1>6. /\ str2 \in [Threads -> LuaStates] /\ str2[t] = q
      /\ \A u \in Threads : (u # t => str2[u] = s.st[u]) /\ str2[u].vals = s.st[u].vals
  BY <1>3
<1>7. s2.st = str2 /\ s2.native = nat2 /\ s2 = [st |-> s2.st, native |-> s2.native, ctl |-> s2.ctl]
  OBVIOUS
<1>8. nat2 = Append(s.native, b)
  OBVIOUS
<1> HIDE DEF nat2, str2, s2
<1> DEFINE c2 == Longer(s.native, c, b)
<1>10. Links(nat2, c2) /\ c2[n + 1] = c[n]
  BY <1>2, <1>8, LinksPushed
<1> HIDE DEF c2
<1>11. nat2 # <<>> /\ Top(nat2) = t
  <2>1. nat2 # <<>>
    BY <1>1, <1>5
  <2> QED
    BY <1>2, <1>5, <2>1, TopIs
<1>12. ChainOf(nat2) = c2[Len(nat2)] /\ ChainOf(s.native) = c[n]
  BY <1>10, ChainIs
<1>13. Calm(s, s2)
  BY <1>5, <1>6, <1>7, <1>10, <1>12 DEF Calm, Others
<1>14. Guarded(s2, c2)
  <2>1. n + 1 \in 1..(n + 1) /\ Protects(b)
    BY <1>1, <1>2 DEF Protects
  <2> HIDE DEF n
  <2> QED
    BY <1>2, <1>3, <1>5, <1>6, <1>7, <1>10, <1>11, <2>1 DEF Guarded
<1> QED
  BY <1>4, <1>7, <1>11, <1>13, <1>14

-----------------------------------------------------------------------------
(* Every step is one that the abstract specification allows.                 *)

\* What coroutine.status says of a thread that does not run.
Told(q) ==
    IF q.status = "none" THEN "none"
    ELSE IF q.status = "error" THEN "dead"
    ELSE IF q.status = "ok" /\ Len(q.ci) > 1 THEN "normal"
    ELSE IF q.status = "ok" /\ q.vals = "none" THEN "dead" ELSE "suspended"

\* The program has not crashed, and does not in this step.
Unbroken == ctl # "crash" /\ ctl' # "crash"

\* What it says of any.
ToldOf(str, chain, u) ==
    IF u = Last(chain) /\ str[u].status # "none" THEN "running" ELSE Told(str[u])

\* What coroutine.status says of every thread.
LEMMA StatusesAre ==
    ASSUME ctl # "crash",
           \A u \in Threads : /\ st[u].status \in {"none", "ok", "yield", "error"}
                              /\ st[u].vals \in {"none", "function", "values"}
                              /\ Len(st[u].ci) \in Nat
    PROVE  Statuses = [u \in Threads |-> ToldOf(st, Chain, u)]
<1>1. ASSUME NEW u \in Threads
      PROVE  Status(Last(Chain), u) = ToldOf(st, Chain, u)
  BY DEF Status, CoStatus, ToldOf, Told, Depth
<1>2. Chain = ChainOf(native)
  BY DEF Chain
<1> QED
  BY <1>1, <1>2 DEF Statuses

\* The same after a step.
LEMMA NextStatusesAre ==
    ASSUME ctl' # "crash",
           \A u \in Threads : /\ st'[u].status \in {"none", "ok", "yield", "error"}
                              /\ st'[u].vals \in {"none", "function", "values"}
                              /\ Len(st'[u].ci) \in Nat
    PROVE  Statuses' = [u \in Threads |-> ToldOf(st', Chain', u)]
<1>1. ASSUME NEW u \in Threads
      PROVE  Status(Last(Chain), u)' = ToldOf(st', Chain', u)
  BY DEF Status, CoStatus, ToldOf, Told, Depth
<1>2. Chain' = ChainOf(native')
  BY DEF Chain
<1> QED
  BY <1>1, <1>2 DEF Statuses

\* What a state in order says of the chain and of the threads.
LEMMA ChainInOrder ==
    ASSUME NEW s, InOrder(s)
    PROVE  LET chain == ChainOf(s.native)
           IN  /\ chain \in Seq(Threads) /\ chain # <<>> /\ Last(chain) = Top(s.native)
               /\ Top(s.native) \in Threads
               /\ s.st[Top(s.native)].status \in {"ok", "yield"}
               /\ s.st \in [Threads -> LuaStates]
               /\ \A u \in Threads : /\ s.st[u].status \in {"none", "ok", "yield", "error"}
                                     /\ s.st[u].vals \in {"none", "function", "values"}
                                     /\ Len(s.st[u].ci) \in Nat
<1>1. PICK g : Agree(s, g)
  BY DEF InOrder
<1>2. /\ Matches(s.st[Top(s.native)], Yields(s.native, Len(s.native)), g[Len(s.native)])
      /\ Top(s.native) \in Threads
  BY <1>1, TopMatches
<1>3. StackInv(s.native, g) /\ s.st \in [Threads -> LuaStates]
  BY <1>1 DEF Agree, StatesInv
<1>4. \A u \in Threads : s.st[u] \in LuaStates
  BY <1>3
<1>5. \A u \in Threads : /\ s.st[u].status \in {"none", "ok", "yield", "error"}
                         /\ s.st[u].vals \in {"none", "function", "values"}
                         /\ Len(s.st[u].ci) \in Nat
  BY <1>4, StateFields
<1>6. s.st[Top(s.native)].status \in {"ok", "yield"}
  BY <1>2 DEF Matches
<1> QED
  BY <1>2, <1>3, <1>5, <1>6, LastOfChain

\* This for the states before and after a step.
Told2(str, chain) ==
    /\ chain \in Seq(Threads) /\ chain # <<>> /\ Last(chain) \in Threads
    /\ str[Last(chain)].status \in {"ok", "yield"} /\ str \in [Threads -> LuaStates]

\* The chain and the statuses before and after a step that keeps the order.
LEMMA NowAndNext ==
    ASSUME IInv, IInv', Unbroken
    PROVE  /\ Told2(st, Chain) /\ Told2(st', Chain')
           /\ Last(Chain) = Top(native) /\ Last(Chain') = Top(native')
           /\ Statuses = [u \in Threads |-> ToldOf(st, Chain, u)]
           /\ Statuses' = [u \in Threads |-> ToldOf(st', Chain', u)]
<1>1. State.st = st /\ State.native = native /\ State'.st = st' /\ State'.native = native'
  BY DEF State
<1>2. InOrder(State) /\ InOrder(State')
  BY DEF IInv
<1> DEFINE a == State  b == State'
<1>3. InOrder(a) /\ InOrder(b) /\ a.st = st /\ a.native = native /\ b.st = st' /\ b.native = native'
  BY <1>1, <1>2
<1> HIDE DEF a, b
<1>4. /\ Told2(st, Chain) /\ Last(Chain) = Top(native)
      /\ \A u \in Threads : /\ st[u].status \in {"none", "ok", "yield", "error"}
                            /\ st[u].vals \in {"none", "function", "values"}
                            /\ Len(st[u].ci) \in Nat
  BY <1>3, ChainInOrder DEF Told2, Chain, Unbroken
<1>5. /\ Told2(st', Chain') /\ Last(Chain') = Top(native')
      /\ \A u \in Threads : /\ st'[u].status \in {"none", "ok", "yield", "error"}
                            /\ st'[u].vals \in {"none", "function", "values"}
                            /\ Len(st'[u].ci) \in Nat
  BY <1>3, ChainInOrder DEF Told2, Chain, Unbroken
<1> QED
  BY <1>4, <1>5, StatusesAre, NextStatusesAre DEF Unbroken

\* The threads that are not mentioned are told the same.
Same(T) == \A u \in Threads : u \notin T => Told(st'[u]) = Told(st[u])

\* The coroutines that an earlier run has left values to.
LEMMA KeptStays ==
    ASSUME \A u \in Threads : (st'[u].vals = "values") <=> (st[u].vals = "values")
    PROVE  Kept' = Kept
  BY DEF Kept

\* Nothing that a program can see.
LEMMA Stutters ==
    ASSUME IInv, IInv', Unbroken, Chain' = Chain, Kept' = Kept, Same({Last(Chain)})
    PROVE  UNCHANGED <<Statuses, Chain, Kept>>
<1>1. /\ Told2(st, Chain) /\ Told2(st', Chain')
      /\ Statuses = [u \in Threads |-> ToldOf(st, Chain, u)]
      /\ Statuses' = [u \in Threads |-> ToldOf(st', Chain', u)]
  BY NowAndNext
<1>2. ASSUME NEW u \in Threads
      PROVE  ToldOf(st', Chain', u) = ToldOf(st, Chain, u)
  <2>1. CASE u = Last(Chain)
    BY <1>1, <2>1 DEF ToldOf, Told2
  <2>2. CASE u # Last(Chain)
    BY <2>2 DEF ToldOf, Same
  <2> QED
    BY <2>1, <2>2
<1> QED
  BY <1>1, <1>2

\* What was added last can be taken away again.
LEMMA FrontOfAppend ==
    ASSUME NEW c \in Seq(Threads), NEW a \in Threads
    PROVE  Front(Append(c, a)) = c
<1> DEFINE d == Append(c, a)
<1>1. Len(c) \in Nat
  OBVIOUS
<1>2. /\ d \in Seq(Threads) /\ d # <<>> /\ Len(d) = Len(c) + 1
      /\ \A i \in 1..Len(c) : d[i] = c[i]
  BY AppendIs
<1> HIDE DEF d
<1>3. /\ Front(d) \in Seq(Threads) /\ Len(Front(d)) = Len(d) - 1
      /\ \A i \in 1..(Len(d) - 1) : Front(d)[i] = d[i]
  BY <1>2, FrontIs
<1>4. Len(Front(d)) = Len(c) /\ \A i \in 1..Len(c) : Front(d)[i] = c[i]
  BY <1>1, <1>2, <1>3
<1>5. Front(d) = c
  BY <1>3, <1>4
<1> QED
  BY <1>5 DEF d

\* The last coroutine of the chain yields or ends.
LEMMA Leaves ==
    ASSUME IInv, IInv', Unbroken, Chain = Append(Chain', Last(Chain)), Same({Last(Chain), Last(Chain')}),
           \/ Told(st'[Last(Chain)]) = "suspended" /\ Kept' \in {Kept, Kept \cup {Last(Chain)}}
           \/ Told(st'[Last(Chain)]) = "dead" /\ Kept' \in {Kept, Kept \ {Last(Chain)}}
    PROVE  Promise!Next
<1> DEFINE a == Last(Chain)  b == Last(Chain')  to == Told(st'[a])
<1>1. /\ Told2(st, Chain) /\ Told2(st', Chain')
      /\ Statuses = [u \in Threads |-> ToldOf(st, Chain, u)]
      /\ Statuses' = [u \in Threads |-> ToldOf(st', Chain', u)]
  BY NowAndNext
<1>2. a \in Threads /\ b \in Threads /\ Chain' \in Seq(Threads) /\ Chain' # <<>>
  BY <1>1 DEF Told2
<1>3. Chain' = Front(Chain) /\ Len(Chain) > 1
  <2> DEFINE c == Chain'
  <2>1. c \in Seq(Threads) /\ c # <<>> /\ Chain = Append(c, a) /\ a \in Threads
    BY <1>2
  <2> HIDE DEF c, a
  <2>2. Len(c) \in Nat /\ Len(c) # 0
    BY <2>1
  <2>3. Append(c, a) \in Seq(Threads) /\ Append(c, a) # <<>> /\ Len(Append(c, a)) = Len(c) + 1
    BY <2>1
  <2>4. Front(Append(c, a)) = c
    BY <2>1, FrontOfAppend
  <2> QED
    BY <2>1, <2>2, <2>3, <2>4 DEF c
<1>4. Statuses' = [Statuses EXCEPT ![a] = to, ![b] = "running"]
  <2>1. ASSUME NEW u \in Threads
        PROVE  ToldOf(st', Chain', u) = [Statuses EXCEPT ![a] = to, ![b] = "running"][u]
    <3>1. CASE u = b
      BY <1>1, <3>1 DEF ToldOf, Told2
    <3>2. CASE u # b /\ u = a
      BY <1>1, <3>2 DEF ToldOf
    <3>3. CASE u # b /\ u # a
      <4>1. Told(st'[u]) = Told(st[u])
        BY <3>3 DEF Same
      <4> QED
        BY <1>1, <3>3, <4>1 DEF ToldOf
    <3> QED
      BY <3>1, <3>2, <3>3
  <2>2. [Statuses EXCEPT ![a] = to, ![b] = "running"]
           = [u \in Threads |-> [Statuses EXCEPT ![a] = to, ![b] = "running"][u]]
    BY <1>1
  <2> QED
    BY <1>1, <2>1, <2>2
<1>5. \/ to = "suspended" /\ Kept' \in {Kept, Kept \cup {a}}
      \/ to = "dead" /\ Kept' \in {Kept, Kept \ {a}}
  OBVIOUS
<1> HIDE DEF to
<1>6. Promise!Leave(to) /\ Promise!Last(Chain) = Last(Chain)
  <2>1. /\ Promise!Last(Chain) = Last(Chain) /\ Promise!Last(Chain') = Last(Chain')
        /\ Promise!Front(Chain) = Front(Chain)
    BY DEF Promise!Last, Last, Promise!Front, Front
  <2> QED
    BY <1>3, <1>4, <2>1 DEF Promise!Leave
<1>7. Promise!Yield \/ Promise!EndOverfull \/ Promise!Fail \/ Promise!End
  BY <1>5, <1>6 DEF Promise!Yield, Promise!EndOverfull, Promise!Fail, Promise!End
<1>8. Chain # <<>>
  BY <1>1 DEF Told2
<1> QED
  BY <1>7, <1>8 DEF Promise!Next

\* A coroutine is resumed.
LEMMA Resumes ==
    ASSUME IInv, IInv', Unbroken, NEW t \in Threads, t # Last(Chain), Chain' = Append(Chain, t),
           Told(st[t]) = "suspended", Told(st'[Last(Chain)]) = "normal",
           Kept' = Kept, Same({Last(Chain), t})
    PROVE  Promise!Next
<1> DEFINE a == Last(Chain)
<1>1. /\ Told2(st, Chain) /\ Told2(st', Chain')
      /\ Statuses = [u \in Threads |-> ToldOf(st, Chain, u)]
      /\ Statuses' = [u \in Threads |-> ToldOf(st', Chain', u)]
  BY NowAndNext
<1>2. a \in Threads /\ Last(Chain') = t
  <2>1. a \in Threads /\ Chain \in Seq(Threads)
    BY <1>1 DEF Told2
  <2> DEFINE c == Chain
  <2> HIDE DEF c
  <2>2. c \in Seq(Threads)
    BY <2>1 DEF c
  <2>3. Len(Append(c, t)) = Len(c) + 1 /\ Append(c, t)[Len(c) + 1] = t
    BY <2>2
  <2> QED
    BY <2>1, <2>3 DEF c, Last
<1>3. Statuses' = [Statuses EXCEPT ![t] = "running", ![a] = "normal"]
  <2>1. ASSUME NEW u \in Threads
        PROVE  ToldOf(st', Chain', u) = [Statuses EXCEPT ![t] = "running", ![a] = "normal"][u]
    <3>1. CASE u = t
      BY <1>1, <1>2, <3>1 DEF ToldOf, Told2
    <3>2. CASE u # t /\ u = a
      BY <1>1, <1>2, <3>2 DEF ToldOf
    <3>3. CASE u # t /\ u # a
      <4>1. Told(st'[u]) = Told(st[u])
        BY <3>3 DEF Same
      <4> QED
        BY <1>1, <1>2, <3>3, <4>1 DEF ToldOf
    <3> QED
      BY <3>1, <3>2, <3>3
  <2>2. [Statuses EXCEPT ![t] = "running", ![a] = "normal"]
           = [u \in Threads |-> [Statuses EXCEPT ![t] = "running", ![a] = "normal"][u]]
    BY <1>1
  <2> QED
    BY <1>1, <2>1, <2>2
<1>4. Statuses[t] = "suspended" /\ Chain # <<>>
  BY <1>1 DEF ToldOf, Told2
<1>5. Promise!Resume(t)
  <2>1. Promise!Last(Chain) = Last(Chain)
    BY DEF Promise!Last, Last
  <2> QED
    BY <1>3, <1>4, <2>1 DEF Promise!Resume
<1> QED
  BY <1>4, <1>5 DEF Promise!Next

\* The status of one thread that does not run changes.
LEMMA OneChanges ==
    ASSUME IInv, IInv', Unbroken, NEW t \in Threads, t # Last(Chain), Chain' = Chain,
           Same({Last(Chain), t})
    PROVE  /\ Statuses' = [Statuses EXCEPT ![t] = Told(st'[t])] /\ Statuses[t] = Told(st[t])
           /\ Chain # <<>>
<1>1. /\ Told2(st, Chain) /\ Told2(st', Chain')
      /\ Statuses = [u \in Threads |-> ToldOf(st, Chain, u)]
      /\ Statuses' = [u \in Threads |-> ToldOf(st', Chain', u)]
  BY NowAndNext
<1> DEFINE to == Told(st'[t])
<1>2. ASSUME NEW u \in Threads
      PROVE  ToldOf(st', Chain', u) = [Statuses EXCEPT ![t] = to][u]
  <2>1. CASE u = t
    BY <1>1, <2>1 DEF ToldOf
  <2>2. CASE u # t /\ u = Last(Chain)
    BY <1>1, <2>2 DEF ToldOf, Told2
  <2>3. CASE u # t /\ u # Last(Chain)
    <3>1. Told(st'[u]) = Told(st[u])
      BY <2>3 DEF Same
    <3> QED
      BY <1>1, <2>3, <3>1 DEF ToldOf
  <2> QED
    BY <2>1, <2>2, <2>3
<1>3. [Statuses EXCEPT ![t] = to] = [u \in Threads |-> [Statuses EXCEPT ![t] = to][u]]
  BY <1>1
<1>4. Statuses' = [Statuses EXCEPT ![t] = to]
  BY <1>1, <1>2, <1>3
<1>5. Statuses[t] = Told(st[t]) /\ Chain # <<>>
  BY <1>1 DEF ToldOf, Told2
<1> QED
  BY <1>4, <1>5

\* A coroutine cannot be started.
LEMMA Refuses ==
    ASSUME IInv, IInv', Unbroken, NEW t \in Threads, t # Last(Chain), Chain' = Chain,
           Told(st[t]) = "suspended", Told(st'[t]) = "dead", Same({Last(Chain), t}),
           Kept' \in {Kept, Kept \ {t}}
    PROVE  Promise!Next
<1>1. Statuses' = [Statuses EXCEPT ![t] = "dead"] /\ Statuses[t] = "suspended" /\ Chain # <<>>
  BY OneChanges
<1>2. Promise!Refuse(t)
  BY <1>1 DEF Promise!Refuse
<1> QED
  BY <1>1, <1>2 DEF Promise!Next

\* A coroutine is created.
LEMMA Creates ==
    ASSUME IInv, IInv', Unbroken, NEW t \in Threads, t # Last(Chain), Chain' = Chain,
           Told(st[t]) = "none", Told(st'[t]) = "suspended", Same({Last(Chain), t}),
           Kept' = Kept
    PROVE  Promise!Next
<1>1. Statuses' = [Statuses EXCEPT ![t] = "suspended"] /\ Statuses[t] = "none" /\ Chain # <<>>
  BY OneChanges
<1>2. Promise!Create(t)
  BY <1>1 DEF Promise!Create
<1> QED
  BY <1>1, <1>2 DEF Promise!Next

\* A step that moves the chain as calls and errors do.
LEMMA MovesPromise ==
    ASSUME IInv, IInv', Unbroken, NEW z, Moves(State, z), z.st = st', z.native = native'
    PROVE  [Promise!Next]_<<Statuses, Chain, Kept>>
<1>1. /\ Told2(st, Chain) /\ Told2(st', Chain')
      /\ Last(Chain) = Top(native) /\ Last(Chain') = Top(native')
  BY NowAndNext
<1>2. State.st = st /\ State.native = native
  BY DEF State
<1>3. Chain = ChainOf(native) /\ Chain' = ChainOf(native')
  BY DEF Chain, Unbroken
<1> HIDE DEF State
<1>6. Kept' = Kept
  <2>1. \A u \in Threads : st'[u].vals = st[u].vals
    BY <1>2 DEF Moves, Calm, Fails, Others
  <2> QED
    BY <2>1, KeptStays
<1>4. CASE Calm(State, z)
  <2>1. Chain' = Chain /\ Same({Last(Chain)})
    BY <1>1, <1>2, <1>3, <1>4 DEF Calm, Others, Same
  <2> QED
    BY <1>6, <2>1, Stutters
<1>5. CASE Fails(State, z)
  <2>1. Chain = Append(Chain', Last(Chain)) /\ Same({Last(Chain), Last(Chain')})
    BY <1>1, <1>2, <1>3, <1>5 DEF Fails, Others, Same
  <2>2. Told(st'[Last(Chain)]) = "dead"
    BY <1>1, <1>2, <1>3, <1>5 DEF Fails, Told
  <2> QED
    BY <1>6, <2>1, <2>2, Leaves
<1> QED
  BY <1>4, <1>5 DEF Moves

\* The chain without the last frame.
LEMMA PoppedChain ==
    ASSUME NEW nat, NEW c, Links(nat, c), nat # <<>>
    PROVE  /\ Front(nat) = SubSeq(nat, 1, Len(nat) - 1)
           /\ Last(nat).a # "resume" => ChainOf(Front(nat)) = ChainOf(nat)
           /\ Last(nat).a = "resume" => /\ ChainOf(nat) = Append(ChainOf(Front(nat)), Last(nat).thread)
                                        /\ ChainOf(Front(nat)) \in Seq(Threads)
<1> DEFINE n == Len(nat)  m == n - 1
<1>1. nat \in Seq(Frames)
  BY DEF Links
<1>2. n \in Nat /\ n >= 1 /\ Last(nat) = nat[n] /\ Front(nat) = SubSeq(nat, 1, m)
  BY <1>1, FrontIs
<1>3. m \in 0..n /\ n \in 1..n
  BY <1>2
<1>4. c[n] = IF nat[n].a = "resume" THEN Append(c[m], nat[n].thread) ELSE c[m]
  BY <1>3 DEF Links
<1>5. ChainOf(SubSeq(nat, 1, m)) = c[m] /\ c[m] \in Seq(Threads)
  BY <1>3, LinksCut
<1>6. ChainOf(nat) = c[n]
  BY ChainIs
<1> HIDE DEF n, m
<1> QED
  BY <1>2, <1>4, <1>5, <1>6 DEF n, m

\* The stack whose last frame runs another number of functions, or of levels.
Recounted(nat, e) == [nat EXCEPT ![Len(nat)].n = e]

\* That changes nothing of the chain.
LEMMA RecountedChain ==
    ASSUME NEW nat, NEW c, Links(nat, c), nat # <<>>, Last(nat).a \in {"exec", "parser"},
           NEW e \in Nat, Last(nat).a = "exec" => e # 0
    PROVE  LET nat2 == Recounted(nat, e)
           IN  /\ Links(nat2, c) /\ ChainOf(nat2) = ChainOf(nat) /\ Len(nat2) = Len(nat)
               /\ \A i \in 1..Len(nat) : nat2[i].a = nat[i].a /\ nat2[i].thread = nat[i].thread
<1> DEFINE n == Len(nat)  f == nat[n]  g == [f EXCEPT !.n = e]  nat2 == Recounted(nat, e)
<1>1. nat \in Seq(Frames)
  BY DEF Links
<1>2. n \in Nat /\ n >= 1 /\ Last(nat) = f /\ f \in Frames
  BY <1>1, TopIs
<1>3. n \in 1..n
  BY <1>2
<1> HIDE DEF f
<1>4. g \in Frames /\ g.a = f.a /\ g.thread = f.thread
  <2>1. CASE f.a = "exec"
    <3>1. f \in [a : {"exec"}, thread : Threads, n : Nat \ {0}]
      BY <1>2, <2>1 DEF Frames
    <3>2. e \in Nat \ {0}
      BY <1>2, <2>1
    <3>3. g \in [a : {"exec"}, thread : Threads, n : Nat \ {0}]
      BY <3>1, <3>2
    <3>4. g.a = f.a /\ g.thread = f.thread
      BY <3>1
    <3> QED
      BY <3>3, <3>4 DEF Frames
  <2>2. CASE f.a = "parser"
    <3>1. f \in [a : {"parser"}, thread : Threads, n : Nat]
      BY <1>2, <2>2 DEF Frames
    <3>2. g \in [a : {"parser"}, thread : Threads, n : Nat]
      BY <3>1
    <3>3. g.a = f.a /\ g.thread = f.thread
      BY <3>1
    <3> QED
      BY <3>2, <3>3 DEF Frames
  <2> QED
    BY <1>2, <2>1, <2>2
<1>5. nat2 = [nat EXCEPT ![n] = g]
  BY <1>1, <1>3 DEF f, Recounted
<1> HIDE DEF g, nat2
<1>6. nat2 \in Seq(Frames) /\ Len(nat2) = n /\ nat2[n] = g /\ \A i \in 1..n : i # n => nat2[i] = nat[i]
  BY <1>1, <1>3, <1>4, <1>5
<1>7. \A i \in 1..n : nat2[i].a = nat[i].a /\ nat2[i].thread = nat[i].thread
  BY <1>4, <1>6 DEF f
<1> HIDE DEF n
<1>8. Links(nat2, c)
  BY <1>6, <1>7 DEF Links, n
<1>9. ChainOf(nat2) = c[n] /\ ChainOf(nat) = c[n]
  BY <1>6, <1>8, ChainIs DEF n
<1> QED
  BY <1>6, <1>7, <1>8, <1>9 DEF n, nat2

\* A step that the abstract specification allows.
Allowed == [Promise!Next]_<<Statuses, Chain, Kept>>

\* The state before a step.
LEMMA GuardedNow ==
    ASSUME IInv, native # <<>>, top.a # "resume"
    PROVE  /\ \E c : Guarded(State, c) /\ Links(native, c)
           /\ State.st = st /\ State.native = native /\ State.ctl = ctl
           /\ State = [st |-> st, native |-> native, ctl |-> ctl]
           /\ L = Top(native) /\ L = Top(State.native) /\ S = st[L] /\ L \in Threads
           /\ S \in LuaStates /\ st \in [Threads -> LuaStates] /\ top = Last(native)
           /\ top.thread = L /\ top \in Frames /\ native \in Seq(Frames)
           /\ Len(native) \in Nat /\ Len(native) >= 1 /\ top = native[Len(native)]
<1>1. PICK g : Ready(State, g)
  BY ReadyNow
<1>2. /\ State.st = st /\ State.native = native /\ State.ctl = ctl
      /\ L = Top(native) /\ S = st[L] /\ L \in Threads
      /\ S \in LuaStates /\ st \in [Threads -> LuaStates] /\ top = Last(native)
      /\ top.thread = L /\ top \in Frames /\ native \in Seq(Frames)
      /\ Len(native) \in Nat /\ Len(native) >= 1 /\ top = native[Len(native)]
  BY ReadyNow
<1>3. State = [st |-> st, native |-> native, ctl |-> ctl]
  BY DEF State
<1> HIDE DEF State
<1> DEFINE c == [i \in 0..Len(State.native) |-> g[i].r]
<1>4. Guarded(State, c)
  BY <1>1, <1>2, ReadyGuarded
<1> HIDE DEF c
<1>5. Links(native, c)
  BY <1>2, <1>4 DEF Guarded
<1> QED
  BY <1>2, <1>3, <1>4, <1>5

\* A step to a state that moves the chain as calls and errors do.
LEMMA BecomesAllowed ==
    ASSUME IInv, IInv', Unbroken, NEW z, Becomes(z), Moves(State, z)
    PROVE  Allowed
  BY MovesPromise DEF Becomes, Allowed

\* A step of the thread that runs, which leaves the chain as it is.
LEMMA QuietAllowed ==
    ASSUME IInv, IInv', Unbroken, NEW q, st' = [st EXCEPT ![L] = q], L = Top(native),
           st \in [Threads -> LuaStates], q.vals = S.vals, L \in Threads,
           ChainOf(native') = ChainOf(native)
    PROVE  Allowed
<1> DEFINE z == [st |-> st', native |-> native', ctl |-> ctl']
<1>1. State.st = st /\ State.native = native
  BY DEF State
<1>2. z.st = st' /\ z.native = native'
  OBVIOUS
<1> HIDE DEF z, State
<1>3. \A u \in Threads : (u # L => st'[u] = st[u]) /\ st'[u].vals = st[u].vals
  BY DEF S
<1>4. Calm(State, z)
  BY <1>1, <1>2, <1>3 DEF Calm, Others
<1> QED
  BY <1>2, <1>4, MovesPromise DEF Moves, Allowed

\* The state before a step, with another ctl.
LEMMA CtlGuarded ==
    ASSUME NEW s, NEW c, Guarded(s, c), NEW x
    PROVE  LET s2 == [s EXCEPT !.ctl = x]
           IN  Calm(s, s2) /\ Guarded(s2, c) /\ Top(s2.native) = Top(s.native)
<1> DEFINE s2 == [s EXCEPT !.ctl = x]
<1>1. s = [st |-> s.st, native |-> s.native, ctl |-> s.ctl]
  BY DEF Guarded
<1>2. s2 = [st |-> s.st, native |-> s.native, ctl |-> x]
  BY <1>1
<1> HIDE DEF s2
<1>3. s2.st = s.st /\ s2.native = s.native /\ s2 = [st |-> s2.st, native |-> s2.native, ctl |-> s2.ctl]
  BY <1>2
<1>4. Guarded(s2, c)
  BY <1>3 DEF Guarded
<1>5. Calm(s, s2)
  BY <1>3 DEF Calm, Others
<1> QED
  BY <1>3, <1>4, <1>5 DEF s2

\* OP_CALL: the chain stays, or an error is thrown.
LEMMA OpCallAllowed ==
    ASSUME IInv, IInv', Unbroken, NEW f \in Functs, OpCall(f)
    PROVE  Allowed
<1> DEFINE nat == IF f = "lua" THEN [native EXCEPT ![Len(native)].n = @ + 1]
                  ELSE Append(native, CFrame(L, f))
<1>1. native # <<>> /\ top.a = "exec" /\ top.a # "resume" /\ Becomes(Enter(State, f, nat))
  BY DEF OpCall, Executes
<1>2. /\ State.native = native /\ L \in Threads /\ top = Last(native) /\ top \in Frames
      /\ top = native[Len(native)] /\ native \in Seq(Frames) /\ Len(native) \in 1..Len(native)
  BY <1>1, GuardedNow
<1>3. PICK c : Guarded(State, c) /\ Links(native, c)
  BY <1>1, GuardedNow
<1> HIDE DEF State
<1>4. ChainOf(nat) = ChainOf(native)
  <2>1. CASE f = "lua"
    <3> DEFINE e == top.n + 1
    <3>1. e \in Nat /\ e # 0
      BY <1>1, <1>2, FrameFields
    <3>2. nat = Recounted(native, e)
      BY <1>2, <2>1 DEF Recounted
    <3>3. Last(native).a \in {"exec", "parser"}
      BY <1>1, <1>2
    <3> HIDE DEF e, nat
    <3> QED
      BY <1>1, <1>3, <3>1, <3>2, <3>3, RecountedChain
  <2>2. CASE f # "lua"
    <3>1. CFrame(L, f) \in Frames /\ CFrame(L, f).a # "resume"
      BY <1>2, <2>2 DEF CFrame, Frames, Functs, LuaFunctions
    <3> QED
      BY <1>3, <2>2, <3>1, PushedChain
  <2> QED
    BY <2>1, <2>2
<1> HIDE DEF nat
<1>5. Moves(State, Enter(State, f, nat))
  BY <1>2, <1>3, <1>4, EnterMoves
<1> QED
  BY <1>1, <1>5, BecomesAllowed

\* OP_TAILCALL.
LEMMA OpTailCallAllowed ==
    ASSUME IInv, IInv', Unbroken, OpTailCall
    PROVE  Allowed
<1> DEFINE e == Enter(State, "lua", native)
           x == [e EXCEPT !.st[L].ci = Front(@), !.st[L].opened = @ \ {Depth(L)}]
<1>1. native # <<>> /\ top.a = "exec" /\ top.a # "resume"
      /\ Becomes(IF e.native = native THEN x ELSE e)
  BY DEF OpTailCall, Executes
<1>2. PICK g : Ready(State, g)
  BY <1>1, ReadyNow
<1>3. /\ State.st = st /\ State.native = native /\ L = Top(native) /\ st \in [Threads -> LuaStates]
      /\ L \in Threads
  BY <1>1, GuardedNow
<1>4. PICK c : Guarded(State, c)
  BY <1>1, GuardedNow
<1> HIDE DEF State
<1>5. Moves(State, e)
  BY <1>3, <1>4, EnterMoves
<1>6. "lua" \in Functs
  BY DEF Functs, LuaFunctions
<1>7. \/ Len(e.native) # Len(native)
      \/ \E q : /\ q \in LuaStates /\ q.vals = st[L].vals
                /\ e = [st |-> [st EXCEPT ![L] = q], native |-> native, ctl |-> "run"]
  BY <1>2, <1>3, <1>6, EnterCases DEF Ready, Entered, Sound
<1>8. CASE Len(e.native) # Len(native)
  <2>1. Becomes(e)
    <3>1. e.native # native
      BY <1>8
    <3> HIDE DEF e, x
    <3> QED
      BY <1>1, <3>1
  <2> HIDE DEF e
  <2> QED
    BY <1>5, <2>1, BecomesAllowed
<1>9. ASSUME NEW q, q \in LuaStates, q.vals = st[L].vals,
             e = [st |-> [st EXCEPT ![L] = q], native |-> native, ctl |-> "run"]
      PROVE  Allowed
  <2>1. Becomes(x)
    <3>1. e.native = native
      BY <1>9
    <3> HIDE DEF e, x
    <3> QED
      BY <1>1, <3>1
  <2>2. x.native = native /\ \A u \in Threads : (u # L => x.st[u] = st[u]) /\ x.st[u].vals = st[u].vals
    <3>1. e.st = [st EXCEPT ![L] = q] /\ e.native = native
      <4> HIDE DEF e
      <4> QED
        BY <1>9
    <3>2. /\ [e EXCEPT !.st[L].ci = Front(@), !.st[L].opened = @ \ {Depth(L)}] = x
          /\ e = [st |-> e.st, native |-> native, ctl |-> "run"]
      BY <1>9
    <3> DEFINE str == e.st
               str2 == [str EXCEPT ![L].ci = Front(@), ![L].opened = @ \ {Depth(L)}]
    <3>3. x = [e EXCEPT !.st = str2]
      OBVIOUS
    <3>4. \A u \in Threads : (u # L => str2[u] = str[u]) /\ str2[u].vals = str[u].vals
      <4>1. str \in [Threads -> LuaStates]
        BY <1>3, <1>9, <3>1
      <4> DEFINE p == [str[L] EXCEPT !.ci = Front(@), !.opened = @ \ {Depth(L)}]
      <4>2. str2 = [str EXCEPT ![L] = p]
        <5> HIDE DEF e, str, L
        <5>1. "ci" \in DOMAIN str[L] /\ "opened" \in DOMAIN str[L] /\ L \in DOMAIN str
          BY <1>3, <4>1 DEF LuaStates
        <5> QED
          BY <4>1, <5>1
      <4>3. p.vals = str[L].vals
        <5> DEFINE r == str[L]
        <5>1. r \in LuaStates
          BY <1>3, <4>1
        <5> HIDE DEF r
        <5>2. [r EXCEPT !.ci = Front(@), !.opened = @ \ {Depth(L)}].vals = r.vals
          BY <5>1 DEF LuaStates
        <5> QED
          BY <5>2 DEF r
      <4> HIDE DEF e, str, L, p, str2
      <4> QED
        BY <1>3, <4>1, <4>2, <4>3
    <3> HIDE DEF e, x, str2
    <3>5. x.st = str2 /\ x.native = native
      BY <3>2, <3>3
    <3>6. \A u \in Threads : (u # L => str[u] = st[u]) /\ str[u].vals = st[u].vals
      BY <1>3, <1>9, <3>1
    <3> QED
      BY <3>4, <3>5, <3>6
  <2> HIDE DEF x
  <2>3. Calm(State, x)
    BY <1>3, <2>2 DEF Calm, Others
  <2> QED
    BY <2>1, <2>3, BecomesAllowed DEF Moves
<1> HIDE DEF e
<1> QED
  BY <1>7, <1>8, <1>9

\* OP_RETURN.
LEMMA OpReturnAllowed ==
    ASSUME IInv, IInv', Unbroken, OpReturn
    PROVE  Allowed
<1> DEFINE q == [S EXCEPT !.ci = Front(@), !.opened = @ \ {Depth(L)}]
<1>1. /\ native # <<>> /\ top.a = "exec" /\ top.a # "resume"
      /\ st' = [st EXCEPT ![L].ci = Front(@), ![L].opened = @ \ {Depth(L)}]
      /\ \/ native' = Front(native)
         \/ top.n # 1 /\ native' = [native EXCEPT ![Len(native)].n = @ - 1]
  BY DEF OpReturn, Executes
<1>2. /\ S = st[L] /\ L \in Threads /\ L = Top(native) /\ st \in [Threads -> LuaStates]
      /\ S \in LuaStates /\ top = Last(native) /\ top \in Frames /\ top = native[Len(native)]
      /\ native \in Seq(Frames) /\ Len(native) \in 1..Len(native)
  BY <1>1, GuardedNow
<1>3. PICK c : Links(native, c)
  BY <1>1, GuardedNow
<1>4. st' = [st EXCEPT ![L] = q] /\ q.vals = S.vals
  BY <1>1, <1>2 DEF LuaStates
<1> HIDE DEF q
<1>5. CASE native' = Front(native)
  <2>1. ChainOf(native') = ChainOf(native)
    BY <1>1, <1>2, <1>3, <1>5, PoppedChain
  <2> QED
    BY <1>2, <1>4, <2>1, QuietAllowed
<1>6. CASE top.n # 1 /\ native' = [native EXCEPT ![Len(native)].n = @ - 1]
  <2> DEFINE e == top.n - 1
  <2>1. e \in Nat /\ e # 0
    BY <1>1, <1>2, <1>6, FrameFields
  <2>2. native' = Recounted(native, e)
    BY <1>2, <1>6 DEF Recounted
  <2>3. Last(native).a \in {"exec", "parser"}
    BY <1>1, <1>2
  <2> HIDE DEF e
  <2>4. ChainOf(native') = ChainOf(native)
    BY <1>1, <1>3, <2>1, <2>2, <2>3, RecountedChain
  <2> QED
    BY <1>2, <1>4, <2>4, QuietAllowed
<1> QED
  BY <1>1, <1>5, <1>6

\* OP_CLOSURE.
LEMMA OpClosureAllowed ==
    ASSUME IInv, IInv', Unbroken, OpClosure
    PROVE  Allowed
<1> DEFINE q == [S EXCEPT !.opened = @ \cup {Depth(L)}]
<1>1. /\ native # <<>> /\ top.a # "resume" /\ native' = native
      /\ st' = [st EXCEPT ![L].opened = @ \cup {Depth(L)}]
  BY DEF OpClosure, Executes
<1>2. /\ S = st[L] /\ L \in Threads /\ L = Top(native) /\ st \in [Threads -> LuaStates]
      /\ S \in LuaStates
  BY <1>1, GuardedNow
<1>3. st' = [st EXCEPT ![L] = q] /\ q.vals = S.vals
  BY <1>1, <1>2 DEF LuaStates
<1> HIDE DEF q
<1> QED
  BY <1>1, <1>2, <1>3, QuietAllowed

\* A metamethod, and the message handler.
LEMMA CallsAllowed ==
    ASSUME IInv, IInv', Unbroken, NEW f \in Functs, CallTM(f) \/ CallHandler(f)
    PROVE  Allowed
<1>1. native # <<>> /\ top.a # "resume" /\ Becomes(Call(State, f))
  BY DEF CallTM, CallHandler, Executes
<1>2. PICK c : Guarded(State, c)
  BY <1>1, GuardedNow
<1> HIDE DEF State
<1>3. Moves(State, Call(State, f))
  BY <1>2, CallMoves
<1> QED
  BY <1>1, <1>3, BecomesAllowed

\* Errors.
LEMMA ErrorsAllowed ==
    ASSUME IInv, IInv', Unbroken, RaiseError \/ MemoryError \/ HandlerReturns
    PROVE  Allowed
<1>1. native # <<>> /\ top.a # "resume" /\ (Becomes(RunError(State)) \/ Becomes(Throw(State)))
  BY DEF RaiseError, MemoryError, HandlerReturns, Returned
<1>2. PICK c : Guarded(State, c)
  BY <1>1, GuardedNow
<1> HIDE DEF State
<1>3. Moves(State, RunError(State)) /\ Moves(State, Throw(State))
  BY <1>2, RunErrorMoves, ThrowMoves
<1> QED
  BY <1>1, <1>3, BecomesAllowed

\* sort and the like call back, and auxresume and auxwrap raise an error.
LEMMA BackAllowed ==
    ASSUME IInv, IInv', Unbroken, ResumeFails \/ \E f \in Functs : CallsBack(f)
    PROVE  Allowed
<1> DEFINE s == [State EXCEPT !.ctl = "run"]
<1>1. native # <<>> /\ top.a # "resume" /\ (Becomes(RunError(s)) \/ \E f \in Functs : Becomes(Call(s, f)))
  BY DEF ResumeFails, CallsBack, InC
<1>2. PICK c : Guarded(State, c)
  BY <1>1, GuardedNow
<1> HIDE DEF State
<1>3. Calm(State, s) /\ Guarded(s, c) /\ Top(s.native) = Top(State.native)
  BY <1>2, CtlGuarded
<1> HIDE DEF s
<1>4. Moves(State, RunError(s)) /\ \A f \in Functs : Moves(State, Call(s, f))
  BY <1>3, RunErrorMoves, CallMoves, CalmThen
<1> QED
  BY <1>1, <1>4, BecomesAllowed

\* A hook.
LEMMA CallHookAllowed ==
    ASSUME IInv, IInv', Unbroken, CallHook
    PROVE  Allowed
<1> DEFINE b == Frame("hook", L)  q == [S EXCEPT !.allow = FALSE]
           x == [State EXCEPT !.st[L].allow = FALSE, !.native = Append(@, Frame("hook", L))]
           s2 == [st |-> [State.st EXCEPT ![Top(State.native)] = q],
                  native |-> Append(State.native, b), ctl |-> ctl]
<1>1. native # <<>> /\ top.a # "resume" /\ Becomes(Call(x, "lua"))
  BY DEF CallHook, Executes
<1>2. /\ State.st = st /\ State.native = native /\ State = [st |-> st, native |-> native, ctl |-> ctl]
      /\ L = Top(State.native) /\ S = st[L] /\ L \in Threads /\ S \in LuaStates
      /\ st \in [Threads -> LuaStates]
  BY <1>1, GuardedNow
<1>3. PICK c : Guarded(State, c)
  BY <1>1, GuardedNow
<1> HIDE DEF State
<1>4. x = s2
  <2>1. /\ [S EXCEPT !.allow = FALSE] = q /\ Frame("hook", L) = b
        /\ [State EXCEPT !.st[L].allow = FALSE, !.native = Append(@, Frame("hook", L))] = x
    OBVIOUS
  <2>2. State = [st |-> st, native |-> native, ctl |-> ctl] /\ S = st[L]
    BY <1>2
  <2> HIDE DEF q, b, x
  <2>3. x = [st |-> [st EXCEPT ![L] = q], native |-> Append(native, b), ctl |-> ctl]
    BY <2>1, <2>2
  <2> QED
    BY <1>2, <2>3
<1>5. b \in Frames /\ b.a = "hook" /\ b.a # "resume" /\ b.thread = L
  BY <1>2 DEF Frame, Frames
<1>6. q \in LuaStates /\ q.jmp = S.jmp /\ q.vals = State.st[Top(State.native)].vals
  BY <1>2 DEF LuaStates
<1> HIDE DEF b, q, x
<1>7. q.jmp = IF Protects(b) THEN Len(State.native) + 1 ELSE State.st[Top(State.native)].jmp
  BY <1>2, <1>5, <1>6 DEF Protects
<1>8. /\ Calm(State, s2) /\ Top(s2.native) = Top(State.native) /\ \E c2 : Guarded(s2, c2)
  BY <1>2, <1>3, <1>5, <1>6, <1>7, PushGuarded, ZenonT(40)
<1>9. "lua" \in Functs
  BY DEF Functs, LuaFunctions
<1> HIDE DEF s2
<1>10. Moves(State, Call(s2, "lua"))
  BY <1>8, <1>9, CallMoves, CalmThen
<1> QED
  BY <1>1, <1>4, <1>10, BecomesAllowed

\* pcall and xpcall.
LEMMA LuaPcallAllowed ==
    ASSUME IInv, IInv', Unbroken, NEW f \in Functs, LuaPcall(f)
    PROVE  Allowed
<1> DEFINE h == top.f = "xpcall"  p == Protected(State, L, h)
<1>1. native # <<>> /\ top.a # "resume" /\ Becomes(Call(p, f))
  BY DEF LuaPcall, InC
<1>2. /\ State.st = st /\ State.native = native /\ State = [st |-> st, native |-> native, ctl |-> ctl]
      /\ State.ctl = ctl /\ L = Top(State.native) /\ L \in Threads /\ st \in [Threads -> LuaStates]
  BY <1>1, GuardedNow
<1>3. PICK c : Links(native, c)
  BY <1>1, GuardedNow
<1> HIDE DEF State
<1>4. h \in BOOLEAN
  OBVIOUS
<1> HIDE DEF h
<1>5. Calm(State, p) /\ Top(p.native) = L /\ \E c2 : Guarded(p, c2)
  BY <1>2, <1>3, <1>4, ProtectedCalm
<1> HIDE DEF p
<1>6. Moves(State, Call(p, f))
  BY <1>2, <1>5, CallMoves, CalmThen
<1> QED
  BY <1>1, <1>6, BecomesAllowed

\* load.
LEMMA LuaLoadAllowed ==
    ASSUME IInv, IInv', Unbroken, LuaLoad
    PROVE  Allowed
<1> DEFINE h == S.errf  p == Protected(State, L, h)  b == [a |-> "parser", thread |-> L, n |-> 0]
           z == [p EXCEPT !.native = Append(@, b)]
<1>1. native # <<>> /\ top.a # "resume" /\ Becomes(z)
  BY DEF LuaLoad, InC
<1>2. /\ State.st = st /\ State.native = native /\ State = [st |-> st, native |-> native, ctl |-> ctl]
      /\ State.ctl = ctl /\ L = Top(State.native) /\ L \in Threads /\ st \in [Threads -> LuaStates]
      /\ S \in LuaStates
  BY <1>1, GuardedNow
<1>3. PICK c : Links(native, c)
  BY <1>1, GuardedNow
<1> HIDE DEF State
<1>4. h \in BOOLEAN
  BY <1>2, StateFields
<1>5. b \in Frames /\ b.a # "resume"
  BY <1>2 DEF Frames
<1> HIDE DEF h, b
<1>6. Calm(State, p) /\ Top(p.native) = L /\ \E c2 : Guarded(p, c2)
  BY <1>2, <1>3, <1>4, ProtectedCalm
<1> HIDE DEF p
<1>7. PICK c2 : Guarded(p, c2)
  BY <1>6
<1>8. Links(p.native, c2) /\ p = [st |-> p.st, native |-> p.native, ctl |-> p.ctl]
  BY <1>7 DEF Guarded
<1>9. z.st = p.st /\ z.native = Append(p.native, b)
  BY <1>8
<1>10. ChainOf(z.native) = ChainOf(p.native)
  BY <1>5, <1>8, <1>9, PushedChain
<1> HIDE DEF z
<1>11. Calm(State, z)
  BY <1>6, <1>9, <1>10 DEF Calm, Others
<1> QED
  BY <1>1, <1>11, BecomesAllowed DEF Moves

\* The program starts.
LEMMA StartAllowed ==
    ASSUME IInv, IInv', Unbroken, NEW compiled \in BOOLEAN, Start(compiled)
    PROVE  Allowed
<1> DEFINE p == Protected(State, Main, FALSE)
<1>1. native = <<>> /\ Becomes(IF compiled THEN Call(p, "lua") ELSE RunError(p))
  BY DEF Start
<1>2. PICK g : Agree(State, g)
  BY DEF IInv, InOrder
<1>3. State.native = native /\ State.st = st
  BY DEF State
<1>4. Top(native) = Main /\ Main \in Threads
  BY <1>1, Limits DEF Top, ThreadAt
<1> HIDE DEF State
<1>5. /\ State = [st |-> State.st, native |-> State.native, ctl |-> State.ctl]
      /\ StackInv(State.native, g) /\ State.st \in [Threads -> LuaStates]
  BY <1>2 DEF Agree, StatesInv
<1> DEFINE c == [i \in 0..Len(State.native) |-> g[i].r]
<1>6. Links(State.native, c)
  BY <1>5, ImpliedLinks
<1> HIDE DEF c
<1>7. FALSE \in BOOLEAN /\ "lua" \in Functs
  BY DEF Functs, LuaFunctions
<1>8. Calm(State, p) /\ Top(p.native) = Main /\ \E c2 : Guarded(p, c2)
  BY <1>3, <1>4, <1>5, <1>6, <1>7, ProtectedCalm
<1> HIDE DEF p
<1>9. Moves(State, Call(p, "lua")) /\ Moves(State, RunError(p))
  BY <1>3, <1>4, <1>7, <1>8, CallMoves, RunErrorMoves, CalmThen
<1> QED
  BY <1>1, <1>9, BecomesAllowed

\* A frame that is not of lua_resume is left.
LEMMA PopAllowed ==
    ASSUME IInv, IInv', Unbroken, native # <<>>, top.a # "resume", NEW q, st' = [st EXCEPT ![L] = q],
           q.vals = S.vals, native' = Front(native)
    PROVE  Allowed
<1>1. S = st[L] /\ L \in Threads /\ L = Top(native) /\ st \in [Threads -> LuaStates] /\ top = Last(native)
  BY GuardedNow
<1>2. PICK c : Links(native, c)
  BY GuardedNow
<1>3. ChainOf(native') = ChainOf(native)
  BY <1>1, <1>2, PoppedChain
<1> QED
  BY <1>1, <1>3, QuietAllowed

\* Returns.
LEMMA ReturnsAllowed ==
    ASSUME IInv, IInv', Unbroken, CReturns \/ CallReturns \/ PcallReturns \/ HookReturns \/ ParserEnds
    PROVE  Allowed
<1>1. native # <<>> /\ top.a # "resume" /\ native' = Front(native)
  BY DEF CReturns, CallReturns, PcallReturns, HookReturns, ParserEnds, InC, Returned, Parses
<1>2. S = st[L] /\ L \in Threads /\ st \in [Threads -> LuaStates] /\ S \in LuaStates
  BY <1>1, GuardedNow
<1>3. \/ st' = [st EXCEPT ![L].ci = Front(@)] \/ st' = [st EXCEPT ![L].nC = @ - 1]
      \/ st' = [st EXCEPT ![L].errf = top.errf, ![L].jmp = top.jmp]
      \/ st' = [st EXCEPT ![L].allow = TRUE] \/ st' = st
  BY DEF CReturns, CallReturns, PcallReturns, HookReturns, ParserEnds
<1>4. CASE st' = [st EXCEPT ![L].ci = Front(@)]
  <2>1. st' = [st EXCEPT ![L] = [st[L] EXCEPT !.ci = Front(@)]]
    BY <1>4
  <2>2. [st[L] EXCEPT !.ci = Front(@)].vals = S.vals
    BY <1>2 DEF LuaStates
  <2> QED
    BY <1>1, <2>1, <2>2, PopAllowed
<1>5. CASE st' = [st EXCEPT ![L].nC = @ - 1]
  <2>1. st' = [st EXCEPT ![L] = [st[L] EXCEPT !.nC = @ - 1]]
    BY <1>5
  <2>2. [st[L] EXCEPT !.nC = @ - 1].vals = S.vals
    BY <1>2 DEF LuaStates
  <2> QED
    BY <1>1, <2>1, <2>2, PopAllowed
<1>6. CASE st' = [st EXCEPT ![L].errf = top.errf, ![L].jmp = top.jmp]
  <2>1. st' = [st EXCEPT ![L] = [st[L] EXCEPT !.errf = top.errf, !.jmp = top.jmp]]
    BY <1>2, <1>6
  <2>2. [st[L] EXCEPT !.errf = top.errf, !.jmp = top.jmp].vals = S.vals
    BY <1>2 DEF LuaStates
  <2> QED
    BY <1>1, <2>1, <2>2, PopAllowed
<1>7. CASE st' = [st EXCEPT ![L].allow = TRUE]
  <2>1. st' = [st EXCEPT ![L] = [st[L] EXCEPT !.allow = TRUE]]
    BY <1>7
  <2>2. [st[L] EXCEPT !.allow = TRUE].vals = S.vals
    BY <1>2 DEF LuaStates
  <2> QED
    BY <1>1, <2>1, <2>2, PopAllowed
<1>8. CASE st' = st
  <2>1. st' = [st EXCEPT ![L] = S]
    BY <1>2, <1>8
  <2> QED
    BY <1>1, <2>1, PopAllowed
<1> QED
  BY <1>3, <1>4, <1>5, <1>6, <1>7, <1>8

\* leavelevel.
LEMMA LeaveLevelAllowed ==
    ASSUME IInv, IInv', Unbroken, LeaveLevel
    PROVE  Allowed
<1> DEFINE q == [S EXCEPT !.nC = @ - 1]  e == top.n - 1
<1>1. /\ native # <<>> /\ top.a = "parser" /\ top.a # "resume" /\ top.n > 0
      /\ st' = [st EXCEPT ![L].nC = @ - 1]
      /\ native' = [native EXCEPT ![Len(native)].n = @ - 1]
  BY DEF LeaveLevel, Parses
<1>2. /\ S = st[L] /\ L \in Threads /\ L = Top(native) /\ st \in [Threads -> LuaStates]
      /\ S \in LuaStates /\ top = Last(native) /\ top \in Frames /\ top = native[Len(native)]
      /\ native \in Seq(Frames) /\ Len(native) \in 1..Len(native)
  BY <1>1, GuardedNow
<1>3. PICK c : Links(native, c)
  BY <1>1, GuardedNow
<1>4. st' = [st EXCEPT ![L] = q] /\ q.vals = S.vals
  BY <1>1, <1>2 DEF LuaStates
<1>5. e \in Nat /\ Last(native).a \in {"exec", "parser"} /\ Last(native).a # "exec"
  BY <1>1, <1>2, FrameFields
<1>6. native' = Recounted(native, e)
  BY <1>1, <1>2 DEF Recounted
<1> HIDE DEF q, e
<1>7. ChainOf(native') = ChainOf(native)
  BY <1>1, <1>3, <1>5, <1>6, RecountedChain
<1> QED
  BY <1>2, <1>4, <1>7, QuietAllowed

\* enterlevel, and its error.
LEMMA EnterLevelAllowed ==
    ASSUME IInv, IInv', Unbroken, EnterLevel
    PROVE  Allowed
<1> DEFINE k == S.nC + 1  q == [S EXCEPT !.nC = k]  e == top.n + 1  nat2 == Recounted(native, e)
           x == [State EXCEPT !.st[L].nC = @ + 1, !.native[Len(native)].n = @ + 1]
           s2 == [st |-> [st EXCEPT ![L] = q], native |-> nat2, ctl |-> ctl]
<1>1. /\ native # <<>> /\ top.a = "parser" /\ top.a # "resume"
      /\ Becomes(IF k > MaxCCalls THEN Throw(x) ELSE x)
  BY DEF EnterLevel, Parses
<1>2. /\ S = st[L] /\ L \in Threads /\ L = Top(native) /\ st \in [Threads -> LuaStates]
      /\ top = Last(native) /\ top \in Frames /\ top = native[Len(native)] /\ S \in LuaStates
      /\ native \in Seq(Frames) /\ Len(native) \in 1..Len(native) /\ top.thread = L
      /\ State.st = st /\ State.native = native /\ State = [st |-> st, native |-> native, ctl |-> ctl]
  BY <1>1, GuardedNow
<1>3. PICK c : Guarded(State, c) /\ Links(native, c)
  BY <1>1, GuardedNow
<1>4. x = s2
  <2> DEFINE st2 == [st EXCEPT ![L].nC = @ + 1]  nat3 == [native EXCEPT ![Len(native)].n = @ + 1]
  <2>1. st2 = [st EXCEPT ![L] = q]
    BY <1>2
  <2>2. nat3 = nat2
    BY <1>2 DEF Recounted
  <2>3. x = [State EXCEPT !.st = st2, !.native = nat3]
    BY <1>2
  <2> HIDE DEF x, st2, nat3, nat2, q
  <2>4. State = [st |-> st, native |-> native, ctl |-> ctl]
    BY <1>2
  <2> HIDE DEF State
  <2>5. x = [st |-> st2, native |-> nat3, ctl |-> ctl]
    BY <2>3, <2>4
  <2> QED
    BY <2>1, <2>2, <2>5
<1> HIDE DEF State, x
<1>5. k \in Nat /\ e \in Nat /\ Last(native).a \in {"exec", "parser"} /\ Last(native).a # "exec"
  BY <1>1, <1>2, FrameFields, StateFields
<1>6. q \in LuaStates /\ q.jmp = S.jmp /\ q.vals = S.vals
  <2> HIDE DEF k
  <2> QED
    BY <1>2, <1>5 DEF LuaStates
<1> HIDE DEF k, q, e
<1>7. /\ Links(nat2, c) /\ ChainOf(nat2) = ChainOf(native) /\ Len(nat2) = Len(native)
      /\ \A i \in 1..Len(native) : nat2[i].a = native[i].a /\ nat2[i].thread = native[i].thread
  BY <1>1, <1>3, <1>5, RecountedChain
<1> HIDE DEF nat2
<1>8. nat2 \in Seq(Frames) /\ nat2 # <<>>
  <2>1. nat2 \in Seq(Frames)
    BY <1>7 DEF Links
  <2> QED
    BY <1>2, <1>7, <2>1
<1>9. Top(nat2) = L
  <2>1. Top(nat2) = nat2[Len(nat2)].thread
    BY <1>8, TopIs
  <2> QED
    BY <1>2, <1>7, <2>1
<1>10. /\ s2.st = [st EXCEPT ![L] = q] /\ s2.native = nat2
       /\ s2.st \in [Threads -> LuaStates] /\ s2.st[L] = q
       /\ \A u \in Threads : (u # L => s2.st[u] = st[u]) /\ s2.st[u].vals = st[u].vals
       /\ s2 = [st |-> s2.st, native |-> s2.native, ctl |-> s2.ctl]
  BY <1>2, <1>6
<1> HIDE DEF s2
<1>11. Calm(State, s2)
  BY <1>2, <1>7, <1>10 DEF Calm, Others
<1>12. Guarded(s2, c)
  <2>1. /\ S.jmp \in 1..Len(native) /\ native[S.jmp].thread = L
        /\ Protects(native[S.jmp]) /\ c[S.jmp] = c[Len(native)]
    BY <1>2, <1>3 DEF Guarded
  <2>2. /\ q.jmp \in 1..Len(nat2) /\ nat2[q.jmp].thread = L /\ c[q.jmp] = c[Len(nat2)]
    BY <1>6, <1>7, <2>1
  <2>3. Protects(nat2[q.jmp])
    BY <1>6, <1>7, <2>1 DEF Protects
  <2> QED
    BY <1>2, <1>7, <1>8, <1>9, <1>10, <2>2, <2>3 DEF Guarded
<1>13. Moves(State, Throw(s2))
  BY <1>2, <1>9, <1>10, <1>11, <1>12, ThrowMoves, CalmThen
<1> QED
  BY <1>1, <1>4, <1>11, <1>13, BecomesAllowed DEF Moves

\* coroutine.create.
LEMMA CreateAllowed ==
    ASSUME IInv, IInv', Unbroken, NEW t \in Threads, Create(t)
    PROVE  Allowed
<1> DEFINE q == NewState("ok", "function")
<1>1. /\ native # <<>> /\ top.a = "exec" /\ top.a # "resume" /\ st[t].status = "none"
      /\ st' = [st EXCEPT ![t] = q] /\ native' = native
  BY DEF Create, Executes
<1>2. Told2(st, Chain)
  BY NowAndNext
<1>3. t # Last(Chain) /\ st \in [Threads -> LuaStates]
  BY <1>1, <1>2 DEF Told2
<1>4. Chain' = Chain
  BY <1>1 DEF Chain, Unbroken
<1>5. q.status = "ok" /\ Len(q.ci) = 1 /\ q.vals = "function"
  BY DEF NewState
<1> HIDE DEF q
<1>6. st'[t] = q /\ \A u \in Threads : u # t => st'[u] = st[u]
  BY <1>1, <1>3
<1>7. Told(st[t]) = "none" /\ Told(st'[t]) = "suspended"
  <2>1. ~(Len(q.ci) > 1)
    BY <1>5
  <2>2. Told(q) = "suspended"
    BY <1>5, <2>1 DEF Told
  <2>3. Told(st[t]) = "none"
    BY <1>1 DEF Told
  <2> QED
    BY <1>6, <2>2, <2>3
<1>8. Same({Last(Chain), t})
  BY <1>6 DEF Same
<1>9. Kept' = Kept
  <2>1. PICK g : StackInv(native, g) /\ StatesInv(st, native, g)
    BY DEF IInv, InOrder, Agree, State
  <2>2. st[t].vals # "values" /\ st'[t].vals # "values"
    BY <1>1, <1>5, <1>6, <2>1, NoneIsOff DEF Rests
  <2> QED
    BY <1>6, <2>2, KeptStays
<1> QED
  BY <1>3, <1>4, <1>7, <1>8, <1>9, Creates DEF Allowed

\* The collector makes an array smaller.
LEMMA ShrinkCIAllowed ==
    ASSUME IInv, IInv', Unbroken, NEW t \in Threads, ShrinkCI(t)
    PROVE  Allowed
<1> DEFINE q == [st[t] EXCEPT !.size = @ \div 2]
<1>1. native' = native /\ st' = [st EXCEPT ![t].size = @ \div 2]
  BY DEF ShrinkCI
<1>2. st \in [Threads -> LuaStates]
  BY NowAndNext DEF Told2
<1>3. st[t] \in LuaStates /\ st' = [st EXCEPT ![t] = q]
  BY <1>1, <1>2
<1>4. q.status = st[t].status /\ q.ci = st[t].ci /\ q.vals = st[t].vals
  BY <1>3 DEF LuaStates
<1> HIDE DEF q
<1>5. st'[t] = q /\ \A u \in Threads : u # t => st'[u] = st[u]
  BY <1>2, <1>3
<1>6. Same({Last(Chain)})
  BY <1>4, <1>5 DEF Same, Told
<1>7. Chain' = Chain
  BY <1>1 DEF Chain, Unbroken
<1>8. Kept' = Kept
  BY <1>4, <1>5, KeptStays
<1> QED
  BY <1>6, <1>7, <1>8, Stutters DEF Allowed

\* coroutine.yield: only the frames on that of lua_resume go.
LEMMA LuaYieldAllowed ==
    ASSUME IInv, IInv', Unbroken, LuaYield
    PROVE  Allowed
<1> DEFINE n == Len(native)  q == [S EXCEPT !.status = "yield"]
           m == IF native[n - 1].a = "exec" THEN n - 2 ELSE n - 1
<1>1. native # <<>> /\ top.a = "cfun" /\ top.a # "resume"
      /\ Becomes(IF S.nC > S.baseC THEN RunError(State)
                 ELSE [st |-> [st EXCEPT ![L].status = "yield"],
                       native |-> IF native[n - 1].a = "exec"
                                  THEN SubSeq(native, 1, n - 2) ELSE Front(native),
                       ctl |-> "ret"])
  BY DEF LuaYield, InC
<1>2. PICK g : Ready(State, g)
  BY <1>1, ReadyNow
<1>3. /\ State.native = native /\ State.st = st /\ L = Top(native) /\ S = st[L]
      /\ top = native[n] /\ st \in [Threads -> LuaStates] /\ L \in Threads /\ S \in LuaStates
      /\ native \in Seq(Frames)
  BY <1>1, GuardedNow
<1>4. PICK c : Guarded(State, c) /\ Links(native, c)
  BY <1>1, GuardedNow
<1> HIDE DEF State
<1>5. CASE S.nC > S.baseC
  BY <1>1, <1>4, <1>5, RunErrorMoves, BecomesAllowed
<1>6. CASE ~(S.nC > S.baseC)
  <2>1. StackInv(native, g) /\ Agree(State, g) /\ State.st[Top(State.native)].status = "ok"
    BY <1>2, <1>3 DEF Ready, Agree
  <2>2. S.nC = g[n].c /\ S.baseC = g[n].b
    BY <1>3, <2>1, RunningIs
  <2>3. /\ n - 1 \in 1..n /\ n \in Nat /\ native[n - 1].a \in {"exec", "resume"}
        /\ native[n - 1].a = "exec" => n - 2 \in 1..n
    BY <1>1, <1>3, <1>6, <2>1, <2>2, YieldsFrom
  <2>4. m \in 0..n
    BY <2>3
  <2>5. native' = SubSeq(native, 1, m) /\ st' = [st EXCEPT ![L] = q] /\ q.vals = S.vals
    <3>1. Front(native) = SubSeq(native, 1, n - 1)
      BY <1>1, <1>3, FrontIs
    <3>2. q.vals = S.vals
      BY <1>3 DEF LuaStates
    <3>3. /\ native' = IF native[n - 1].a = "exec" THEN SubSeq(native, 1, n - 2) ELSE Front(native)
          /\ st' = [st EXCEPT ![L] = q]
      BY <1>1, <1>3, <1>6 DEF Becomes
    <3> HIDE DEF q, n
    <3> QED
      BY <3>1, <3>2, <3>3
  <2>6. c[n] = c[m]
    <3>1. \A i \in 1..n : native[i].a # "resume" => c[i] = c[i - 1]
      BY <1>4 DEF Links
    <3>2. n \in 1..n /\ native[n].a # "resume"
      BY <1>1, <1>3, <2>3
    <3>3. c[n] = c[n - 1]
      BY <3>1, <3>2
    <3>4. CASE native[n - 1].a = "exec"
      <4> DEFINE k == n - 1
      <4>1. k \in 1..n /\ k - 1 = m /\ native[k].a # "resume"
        BY <2>3, <3>4
      <4> HIDE DEF k, m
      <4>2. c[k] = c[m]
        BY <3>1, <4>1
      <4> QED
        BY <3>3, <4>2 DEF k
    <3>5. CASE native[n - 1].a # "exec"
      BY <3>3, <3>5
    <3> QED
      BY <3>4, <3>5
  <2> HIDE DEF m, q
  <2>7. ChainOf(SubSeq(native, 1, m)) = c[m]
    BY <1>4, <2>4, LinksCut
  <2>8. ChainOf(native) = c[n]
    BY <1>4, ChainIs
  <2> QED
    BY <1>3, <2>5, <2>6, <2>7, <2>8, QuietAllowed
<1> QED
  BY <1>5, <1>6

\* lua_resume returns: its coroutine has yielded or ended, and rests.
LEMMA ResumeReturnsAllowed ==
    ASSUME IInv, IInv', Unbroken, NEW fits \in BOOLEAN, ResumeReturns(fits)
    PROVE  Allowed
<1> DEFINE n == Len(native)
           r == [State EXCEPT !.st[L] = [@ EXCEPT !.nC = S.nC - 1, !.jmp = top.jmp],
                              !.native = Front(@)]
           ended == IF fits THEN "none" ELSE "values"
           w == [r EXCEPT !.ctl = IF fits THEN @ ELSE "overfull",
                          !.st[L].vals = IF S.status = "ok" THEN ended ELSE @]
<1>1. native # <<>> /\ top.a = "resume" /\ Becomes(w)
  BY DEF ResumeReturns, Returned
<1>2. PICK g : Agree(State, g)
  BY DEF IInv, InOrder
<1>3. /\ State = [st |-> st, native |-> native, ctl |-> ctl]
      /\ State.st = st /\ State.native = native
  BY DEF State
<1>4. /\ L = Top(native) /\ S = st[L] /\ top = native[n] /\ top.thread = L
      /\ L \in Threads /\ native \in Seq(Frames) /\ n \in Nat /\ n >= 1
      /\ S \in LuaStates /\ st \in [Threads -> LuaStates]
  BY <1>1, <1>2, Here
<1>5. top = Last(native)
  BY DEF top
<1> HIDE DEF State, top, S
<1> DEFINE q == w.st[L]
<1>6. /\ w.native = Front(native) /\ q.status = S.status /\ q.ci = S.ci
      /\ q.vals = IF S.status = "ok" THEN ended ELSE S.vals
      /\ \A u \in Threads : u # L => w.st[u] = st[u]
  <2> DEFINE p == [S EXCEPT !.nC = S.nC - 1, !.jmp = top.jmp]
             st2 == [st EXCEPT ![L] = p]
             st3 == [st2 EXCEPT ![L].vals = IF S.status = "ok" THEN ended ELSE @]
             x == IF fits THEN ctl ELSE "overfull"
  <2>1. p.status = S.status /\ p.ci = S.ci /\ p.vals = S.vals
    BY <1>4 DEF LuaStates
  <2>2. r = [st |-> st2, native |-> Front(native), ctl |-> ctl]
    <3> DEFINE st4 == [st EXCEPT ![L] = [@ EXCEPT !.nC = S.nC - 1, !.jmp = top.jmp]]
    <3>1. st4 = st2
      BY <1>4
    <3>2. r = [State EXCEPT !.st = st4, !.native = Front(native)]
      BY <1>3
    <3> HIDE DEF r, st2, st4
    <3>3. r = [st |-> st4, native |-> Front(native), ctl |-> ctl]
      BY <1>3, <3>2
    <3> QED
      BY <3>1, <3>3
  <2>3. st2[L] = p /\ \A u \in Threads : u # L => st2[u] = st[u]
    BY <1>4
  <2>6. "vals" \in DOMAIN p
    BY <1>4 DEF LuaStates
  <2>7. L \in DOMAIN st2
    BY <1>4
  <2> HIDE DEF r, p, st2, ended
  <2>4. w = [st |-> st3, native |-> Front(native), ctl |-> x]
    <3>1. w = [r EXCEPT !.ctl = x, !.st = st3]
      BY <2>2
    <3> HIDE DEF st3, w, x
    <3> QED
      BY <2>2, <3>1
  <2>5. /\ st3[L].status = p.status /\ st3[L].ci = p.ci
        /\ st3[L].vals = IF S.status = "ok" THEN ended ELSE p.vals
        /\ \A u \in Threads : u # L => st3[u] = st[u]
    <3> DEFINE y == [st2[L] EXCEPT !.vals = IF S.status = "ok" THEN ended ELSE @]
    <3>1. /\ y.status = p.status /\ y.ci = p.ci
          /\ y.vals = IF S.status = "ok" THEN ended ELSE p.vals
      BY <2>3, <2>6
    <3>2. st3 = [st2 EXCEPT ![L] = y]
      OBVIOUS
    <3> HIDE DEF y, st3
    <3> QED
      BY <1>4, <2>3, <2>7, <3>1, <3>2
  <2> HIDE DEF st3, w
  <2> QED
    BY <2>1, <2>4, <2>5
<1> HIDE DEF w
<1>7. st' = w.st /\ native' = Front(native)
  BY <1>1, <1>6 DEF Becomes
<1>8. /\ S.status = "ok" => Len(S.ci) = 1
      /\ S.status \in {"ok", "yield"}
  <2>1. StackInv(native, g) /\ StatesInv(st, native, g) /\ n \in 1..n /\ n \in 0..n
    BY <1>2, <1>3, <1>4 DEF Agree
  <2>2. Matches(S, Yields(native, n), g[n])
    BY <1>4, <2>1 DEF StatesInv, Top, Waits
  <2>3. g[n] = Imply(g[n - 1], native[n], n)
    BY <2>1 DEF StackInv, Follows
  <2>4. g[n].d = 0
    BY <1>1, <1>4, <2>3 DEF Imply
  <2> QED
    BY <2>2, <2>4 DEF Matches
<1>9. /\ Told2(st, Chain) /\ Last(Chain) = L /\ Last(Chain') = Top(native')
      /\ Told2(st', Chain')
  BY <1>4, NowAndNext
<1>10. \/ Told(st'[L]) = "suspended" /\ Kept' \in {Kept, Kept \cup {L}}
       \/ Told(st'[L]) = "dead" /\ Kept' \in {Kept, Kept \ {L}}
  <2> DEFINE p == st'[L]
  <2>1. p.status = S.status /\ p.ci = S.ci /\ (p.vals = IF S.status = "ok" THEN ended ELSE S.vals)
    BY <1>6, <1>7
  <2>2. \A u \in Threads : u # L => st'[u] = st[u]
    BY <1>6, <1>7
  <2>3. CASE S.status = "yield"
    <3>1. Told(p) = "suspended"
      BY <2>1, <2>3 DEF Told
    <3>2. p.vals = st[L].vals
      BY <1>4, <2>1, <2>3
    <3>3. Kept' = Kept
      BY <2>2, <3>2, KeptStays
    <3> QED
      BY <3>1, <3>3
  <2>4. CASE S.status = "ok"
    <3>1. p.vals = ended /\ p.status = "ok" /\ ~(Len(p.ci) > 1)
      <4> DEFINE l == Len(S.ci)
      <4>1. l = 1 /\ Len(p.ci) = l
        BY <1>8, <2>1, <2>4
      <4> HIDE DEF l
      <4>2. ~(l > 1)
        BY <4>1
      <4> QED
        BY <2>1, <2>4, <4>1, <4>2
    <3>2. CASE fits
      <4>1. Told(p) = "dead"
        BY <3>1, <3>2 DEF Told
      <4>2. p.vals # "values"
        BY <3>1, <3>2
      <4>3. Kept' = Kept \ {L}
        BY <2>2, <4>2 DEF Kept
      <4> QED
        BY <4>1, <4>3
    <3>3. CASE ~fits
      <4>1. Told(p) = "suspended"
        BY <3>1, <3>3 DEF Told
      <4>2. p.vals = "values"
        BY <3>1, <3>3
      <4>3. Kept' = Kept \cup {L}
        BY <1>4, <2>2, <4>2 DEF Kept
      <4> QED
        BY <4>1, <4>3
    <3> QED
      BY <3>2, <3>3
  <2> QED
    BY <1>8, <2>3, <2>4
<1>12. Same({Last(Chain), Last(Chain')})
  BY <1>6, <1>7, <1>9 DEF Same
<1>13. Links(native, [i \in 0..Len(native) |-> g[i].r])
  <2>1. StackInv(native, g)
    BY <1>2, <1>3 DEF Agree
  <2> QED
    BY <2>1, ImpliedLinks
<1>14. Chain = Append(Chain', Last(Chain))
  <2>1. ChainOf(native) = Append(ChainOf(Front(native)), Last(native).thread)
    BY <1>1, <1>5, <1>13, PoppedChain
  <2> QED
    BY <1>4, <1>5, <1>7, <1>9, <2>1 DEF Chain, Unbroken
<1> QED
  BY <1>9, <1>10, <1>12, <1>14, Leaves DEF Allowed

\* A coroutine is put on the chain, and then starts, or fails to.
LEMMA StartedPromise ==
    ASSUME IInv, IInv', Unbroken, NEW t \in Threads, t # Last(Chain), NEW y, NEW z, Moves(y, z),
           z.st = st', z.native = native', Top(y.native) = t,
           ChainOf(y.native) = Append(Chain, t), \A u \in Threads : u # t => y.st[u] = st[u],
           (y.st[t].vals = "values") <=> (st[t].vals = "values"),
           Told(st[t]) = "suspended", Told(st[Last(Chain)]) = "normal"
    PROVE  Promise!Next
<1>1. /\ Told2(st, Chain) /\ Told2(st', Chain')
  BY NowAndNext
<1>2. Chain' = ChainOf(z.native)
  BY DEF Chain, Unbroken
<1>3. Last(Chain) \in Threads /\ Chain \in Seq(Threads)
  BY <1>1 DEF Told2
<1>9. Others(y, z)
  BY DEF Moves, Calm, Fails
<1>4. \A u \in Threads : u # t => st'[u] = st[u]
  BY <1>9 DEF Others
<1>5. Same({Last(Chain), t})
  BY <1>4 DEF Same
<1>8. Kept' = Kept
  <2>1. \A u \in Threads : z.st[u].vals = y.st[u].vals
    BY <1>9 DEF Others
  <2>2. \A u \in Threads : (st'[u].vals = "values") <=> (st[u].vals = "values")
    BY <1>4, <2>1
  <2> QED
    BY <2>2, KeptStays
<1>6. CASE Calm(y, z)
  <2>1. Chain' = Append(Chain, t)
    BY <1>2, <1>6 DEF Calm
  <2>2. Told(st'[Last(Chain)]) = "normal"
    BY <1>3, <1>4
  <2> QED
    BY <1>5, <1>8, <2>1, <2>2, Resumes
<1>7. CASE Fails(y, z)
  <2> DEFINE c == Chain  d == ChainOf(z.native)
  <2>1. d \in Seq(Threads) /\ Append(c, t) = Append(d, t) /\ c \in Seq(Threads)
    BY <1>3, <1>7 DEF Fails
  <2>2. Told(st'[t]) = "dead"
    BY <1>7 DEF Fails, Told
  <2>3. Chain' = d
    BY <1>2
  <2> HIDE DEF c, d
  <2>4. Front(Append(c, t)) = c /\ Front(Append(d, t)) = d
    BY <2>1, FrontOfAppend
  <2>5. Chain' = Chain
    BY <2>1, <2>3, <2>4 DEF c
  <2> QED
    BY <1>5, <1>8, <2>2, <2>5, Refuses
<1> QED
  BY <1>6, <1>7 DEF Moves

\* A coroutine starts, goes on where it yielded, or is refused.
LEMMA AuxResumeAllowed ==
    ASSUME IInv, IInv', Unbroken, NEW t \in Threads, NEW fn \in Functs \cup {"uncallable"},
           AuxResume(t, fn)
    PROVE  Allowed
<1> DEFINE r == st[t]  n == Len(native)
           z == S.nC + 1
           q == [r EXCEPT !.nC = z, !.baseC = z, !.jmp = n + 1]
           f == [a |-> "resume", thread |-> t, jmp |-> r.jmp]
           x == [st |-> [st EXCEPT ![t] = q], native |-> Append(native, f), ctl |-> "run"]
           v == IF r.status = "ok" THEN "none" ELSE r.vals
           refused == [st |-> [st EXCEPT ![t] = [r EXCEPT !.nC = S.nC, !.vals = v]],
                       native |-> native, ctl |-> "fail"]
           failed == [st |-> st, native |-> native, ctl |-> "fail"]
           crashed == [st |-> st, native |-> native, ctl |-> "crash"]
<1>1. native # <<>> /\ top.a = "cfun" /\ top.a # "resume" /\ ctl = "run" /\ st[t].status # "none"
  BY DEF AuxResume, InC
<1>2. PICK g : Ready(State, g)
  BY <1>1, ReadyNow
<1>3. PICK c0 : Links(native, c0)
  BY <1>1, GuardedNow
<1>4. /\ L = Top(native) /\ S = st[L] /\ L \in Threads /\ native \in Seq(Frames) /\ n \in Nat
      /\ st \in [Threads -> LuaStates]
  BY <1>1, GuardedNow
<1>5. S.nC \in Nat /\ S.status = "ok" /\ Len(S.ci) \in Nat /\ Len(S.ci) >= 2
  BY <1>1, TopNow
<1>6. L = Last(Chain) /\ Chain = ChainOf(native) /\ Told2(st', Chain')
  BY <1>4, NowAndNext DEF Chain, Unbroken
<1>7. Becomes(IF CoStatus(L, t) # "suspended" THEN failed
              ELSE IF S.nC >= MaxCCalls THEN refused
              ELSE IF Stranded(r) THEN crashed ELSE Resumed(x, t, fn))
  BY <1>1, <1>4, AuxResumeIs
<1>8. r \in LuaStates /\ r.status \in {"none", "ok", "yield", "error"}
      /\ r.vals \in {"none", "function", "values"} /\ Len(r.ci) \in Nat
  BY <1>4, StateFields
<1>9. Told(st[L]) = "normal"
  <2> DEFINE l == Len(S.ci)
  <2>1. l \in Nat /\ l >= 2
    BY <1>5
  <2> HIDE DEF l
  <2>2. l > 1
    BY <2>1
  <2> HIDE DEF S
  <2>3. Told(S) = "normal"
    BY <1>5, <2>2 DEF Told, l
  <2> QED
    BY <1>4, <2>3
<1>10. CASE CoStatus(L, t) # "suspended"
  <2>1. st' = st /\ native' = native
    BY <1>7, <1>10 DEF Becomes
  <2>2. Chain' = Chain /\ Same({Last(Chain)}) /\ Kept' = Kept
    BY <2>1 DEF Chain, Unbroken, Same, Kept
  <2> QED
    BY <2>2, Stutters DEF Allowed
<1>11. ASSUME CoStatus(L, t) = "suspended"
       PROVE  /\ t # L /\ Told(r) = "suspended" /\ r.status \in {"ok", "yield"}
              /\ r.status = "ok" => ~(Len(r.ci) > 1)
  <2>1. t # L
    BY <1>11 DEF CoStatus
  <2>2. r.status # "error" /\ r.status # "none"
    BY <1>1, <1>11, <2>1 DEF CoStatus
  <2>3. r.status = "ok" => ~(Len(r.ci) > 1) /\ r.vals # "none"
    BY <1>11, <2>1 DEF CoStatus, Depth
  <2> HIDE DEF r
  <2> QED
    BY <1>8, <2>1, <2>2, <2>3 DEF Told
<1>12. CASE CoStatus(L, t) = "suspended" /\ S.nC >= MaxCCalls
  <2> DEFINE p == [r EXCEPT !.nC = S.nC, !.vals = v]
  <2>1. st' = [st EXCEPT ![t] = p] /\ native' = native
    BY <1>7, <1>12 DEF Becomes
  <2>2. p.status = r.status /\ p.ci = r.ci /\ p.vals = v
    <3> HIDE DEF r, v
    <3> QED
      BY <1>8 DEF LuaStates
  <2> HIDE DEF p
  <2>3. st'[t] = p /\ \A u \in Threads : u # t => st'[u] = st[u]
    BY <1>4, <2>1
  <2>4. Chain' = Chain /\ Same({Last(Chain), t})
    BY <2>1, <2>3 DEF Chain, Unbroken, Same
  <2>5. CASE r.status = "ok"
    <3>1. v = "none"
      BY <2>5
    <3>2. p.status = "ok" /\ p.vals = "none" /\ ~(Len(p.ci) > 1)
      BY <1>11, <1>12, <2>2, <2>5, <3>1
    <3>3. Told(p) = "dead"
      BY <3>2 DEF Told
    <3>4. Kept' = Kept \ {t}
      BY <2>3, <3>2 DEF Kept
    <3> QED
      BY <1>6, <1>11, <1>12, <2>3, <2>4, <3>3, <3>4, Refuses DEF Allowed
  <2>6. CASE r.status = "yield"
    <3>1. p.status = r.status /\ p.ci = r.ci /\ p.vals = r.vals
      BY <2>2, <2>6
    <3>2. Told(p) = Told(r)
      BY <3>1 DEF Told
    <3>3. Same({Last(Chain)})
      BY <2>3, <3>2 DEF Same
    <3>4. Kept' = Kept
      BY <2>3, <3>1, KeptStays
    <3> QED
      BY <2>4, <3>3, <3>4, Stutters DEF Allowed
  <2> QED
    BY <1>11, <1>12, <2>5, <2>6
<1>14. CASE CoStatus(L, t) = "suspended" /\ ~(S.nC >= MaxCCalls) /\ Stranded(r)
  <2>1. Becomes(crashed)
    BY <1>7, <1>14
  <2>2. ctl' = "crash"
    BY <2>1 DEF Becomes
  <2> QED
    BY <2>2 DEF Unbroken
<1>13. CASE CoStatus(L, t) = "suspended" /\ ~(S.nC >= MaxCCalls) /\ ~Stranded(r)
  <2>1. S.nC < MaxCCalls /\ Off(native, t)
    <3>1. Off(native, t)
      BY <1>1, <1>2, <1>13, SuspendedIs
    <3> QED
      BY <1>5, <1>13, <3>1, Limits
  <2> DEFINE w == IF r.status = "ok" /\ r.vals # "values" THEN "none" ELSE r.vals
             qw == [r EXCEPT !.nC = z, !.baseC = z, !.jmp = n + 1, !.vals = w]
             y == [st |-> [st EXCEPT ![t] = qw], native |-> Append(native, f), ctl |-> "run"]
  <2>2. /\ w \in {"none", "function", "values"} /\ (r.status = "yield" => w = r.vals)
        /\ (w = "values") <=> (r.vals = "values")
    BY <1>8
  <2>3. /\ r.status = "yield" => qw = q
        /\ r.status = "ok" => qw = Begun(q)
        /\ q.status = r.status /\ q.ci = r.ci /\ qw.vals = w
        /\ qw \in LuaStates => qw.jmp = n + 1
    <3> HIDE DEF r, n, z
    <3> QED
      BY <1>8, <2>2 DEF LuaStates, Begun
  <2>4. /\ Agree(y, Pushed(native, g, f))
        /\ Top(y.native) = t /\ y.st[t] = qw /\ Last(y.native) = f /\ y.native # <<>>
        /\ Len(y.native) = n + 1 /\ Sound(qw) /\ qw.status = r.status /\ qw.ci = r.ci
        /\ qw.status = "yield" => Yielded(qw)
    <3>1. Off(native, t) /\ st[t].status \in {"ok", "yield"} /\ S.nC < MaxCCalls
      BY <1>11, <1>13, <2>1
    <3>2. w \in {"none", "function", "values"} /\ (st[t].status = "yield" => w = st[t].vals)
      BY <2>2
    <3>3. qw = ArmedState(t, w) /\ f = ArmedFrame(t) /\ y = Arming(t, w)
      BY DEF ArmedState, ArmedFrame, Arming
    <3> HIDE DEF State, w, qw, f, y
    <3>5. Armed(g, t, ArmedState(t, w), ArmedFrame(t), Arming(t, w))
      BY <1>1, <1>2, <3>1, <3>2, CoroutineReady
    <3>4. Armed(g, t, qw, f, y)
      BY <3>3, <3>5
    <3> QED
      BY <3>4 DEF Armed
  <2>5. /\ y.native = Append(native, f) /\ f.a = "resume" /\ f.thread = t
        /\ y = [st |-> y.st, native |-> y.native, ctl |-> y.ctl]
        /\ x = [st |-> x.st, native |-> x.native, ctl |-> x.ctl] /\ x.st[t] = q
        /\ y = [st |-> [x.st EXCEPT ![t] = qw], native |-> x.native, ctl |-> x.ctl]
        /\ x.native = Append(native, f)
        /\ \A u \in Threads : u # t => y.st[u] = st[u]
    BY <1>4
  <2>6. y.st \in [Threads -> LuaStates] /\ y.native \in Seq(Frames) /\ qw \in LuaStates
    BY <2>4 DEF Agree, StatesInv, StackInv, Sound
  <2>7. Becomes(Resumed(x, t, fn))
    BY <1>7, <1>13
  <2>8. x.st \in [Threads -> LuaStates]
    <3>1. q \in LuaStates
      <4>1. r \in LuaStates /\ z \in Nat /\ n + 1 \in Nat
        BY <1>4, <1>5, <1>8
      <4> HIDE DEF r, n, z
      <4> QED
        BY <4>1 DEF LuaStates
    <3> HIDE DEF q
    <3> QED
      BY <1>4, <3>1
  <2>9. ~(r.status = "yield" /\ Len(r.ci) = 2)
    BY <1>13 DEF Stranded
  <2> HIDE DEF x, y, q, qw, f, w, r
  <2>10. f \in Frames
    <3>1. y.native[n + 1] = f /\ n + 1 \in 1..Len(y.native)
      BY <1>4, <2>4 DEF Last
    <3> QED
      BY <2>6, <3>1
  <2> DEFINE c == Longer(native, c0, f)
  <2>11. ChainOf(y.native) = Append(Chain, t) /\ Links(y.native, c)
    <3>1. ChainOf(Append(native, f)) = Append(ChainOf(native), f.thread)
      BY <1>3, <2>5, <2>10, PushedChain
    <3>2. Links(Append(native, f), c)
      BY <1>3, <2>10, LinksPushed
    <3> HIDE DEF c
    <3> QED
      BY <1>6, <2>5, <3>1, <3>2
  <2> HIDE DEF c
  <2>12. Guarded(y, c)
    <3>1. y.native[n + 1] = f /\ n + 1 \in 1..(n + 1) /\ c[n + 1] = c[n + 1]
      BY <1>4, <2>4 DEF Last
    <3>2. Protects(f) /\ qw.jmp = n + 1
      BY <2>3, <2>5, <2>6 DEF Protects
    <3> HIDE DEF n
    <3> QED
      BY <2>4, <2>5, <2>6, <2>11, <3>1, <3>2 DEF Guarded
  <2>13. ASSUME NEW v2, Moves(y, v2), Becomes(v2)
         PROVE  Allowed
    <3>1. v2.st = st' /\ v2.native = native'
      BY <2>13 DEF Becomes
    <3>2. t # Last(Chain) /\ Told(st[t]) = "suspended" /\ Told(st[Last(Chain)]) = "normal"
      BY <1>6, <1>9, <1>11, <1>13 DEF r
    <3>3. (y.st[t].vals = "values") <=> (st[t].vals = "values")
      BY <2>2, <2>3, <2>4 DEF r
    <3>4. Promise!Next
      BY <2>4, <2>5, <2>11, <2>13, <3>1, <3>2, <3>3, StartedPromise
    <3> QED
      BY <3>4 DEF Allowed
  <2>14. CASE r.status = "yield"
    <3> DEFINE e == Exec(t, Len(q.ci) - 2)
               y2 == [st |-> [y.st EXCEPT ![t] = Woken(q)], native |-> Append(y.native, e),
                      ctl |-> y.ctl]
    <3>1. /\ y = x /\ q.status = "yield" /\ Yielded(q) /\ ~Stranded(q) /\ y.st[t] = q
          /\ Sound(q)
      <4>1. qw = q
        BY <2>3, <2>14
      <4>2. [x.st EXCEPT ![t] = q] = x.st
        BY <2>5, <2>8
      <4> QED
        BY <2>3, <2>4, <2>5, <2>9, <2>14, <4>1, <4>2 DEF Stranded
    <3>2. Resumed(x, t, fn) = y2
      <4>1. y2 = [st |-> [x.st EXCEPT ![t] = Woken(q)],
                  native |-> Append(x.native, Exec(t, Len(q.ci) - 2)), ctl |-> x.ctl]
        BY <3>1
      <4> HIDE DEF y2
      <4>2. x = [st |-> x.st, native |-> x.native, ctl |-> x.ctl] /\ x.st[t] = q
        BY <2>5
      <4>3. q.status = "yield"
        BY <3>1
      <4> HIDE DEF e
      <4> QED
        BY <2>8, <4>1, <4>2, <4>3, ResumedWakes
    <3>3. /\ y2.native = Append(y.native, e) /\ \A u \in Threads : u # t => y2.st[u] = y.st[u]
          /\ y2.st[t] = Woken(q)
      BY <2>6
    <3> HIDE DEF y2
    <3>4. Woken(q).vals = q.vals
      BY <3>1, WokenIs
    <3>5. ChainOf(y2.native) = ChainOf(y.native)
      <4>1. e \in Frames /\ e.a # "resume"
        <5> DEFINE l == Len(q.ci)
        <5>1. l \in Nat /\ l >= 2 /\ l # 2
          BY <2>6, <3>1, StateFields DEF Yielded, Stranded, Sound
        <5> HIDE DEF l
        <5>2. l - 2 \in Nat \ {0}
          BY <5>1
        <5>3. Exec(t, l - 2) \in Frames /\ Exec(t, l - 2).a # "resume"
          BY <5>2 DEF Exec, Frames
        <5> QED
          BY <5>3 DEF l
      <4> QED
        BY <2>11, <3>3, <4>1, PushedChain
    <3>6. Calm(y, y2)
      BY <2>4, <3>1, <3>3, <3>4, <3>5 DEF Calm, Others
    <3> QED
      BY <2>7, <2>13, <3>2, <3>6 DEF Moves
  <2>15. CASE r.status = "ok"
    <3>1. q.status # "yield" /\ qw = Begun(q)
      BY <2>3, <2>15
    <3>2. Resumed(x, t, fn) = IF fn = "uncallable" THEN RunError(y)
                              ELSE Enter(y, fn, Append(y.native, Body(t, fn)))
      <4>1. x = [st |-> x.st, native |-> x.native, ctl |-> x.ctl] /\ x.st[t] = q
        BY <2>5
      <4>2. y = [st |-> [x.st EXCEPT ![t] = Begun(q)], native |-> x.native, ctl |-> x.ctl]
        BY <2>5, <3>1
      <4> QED
        BY <2>8, <3>1, <4>1, <4>2, ResumedStarts
    <3>3. ASSUME fn \in Functs
          PROVE  Moves(y, Enter(y, fn, Append(y.native, Body(t, fn))))
      <4>1. Body(t, fn) \in Frames /\ Body(t, fn).a # "resume"
        <5>1. Exec(t, 1) \in Frames /\ Exec(t, 1).a # "resume"
          BY DEF Exec, Frames
        <5>2. fn # "lua" => fn \in CFunctions
          BY <3>3 DEF Functs, LuaFunctions
        <5>3. fn # "lua" => CFrame(t, fn) \in Frames /\ CFrame(t, fn).a # "resume"
          BY <5>2 DEF CFrame, Frames
        <5> QED
          BY <5>1, <5>3 DEF Body
      <4>2. ChainOf(Append(y.native, Body(t, fn))) = ChainOf(y.native)
        BY <2>11, <4>1, PushedChain
      <4> QED
        BY <2>12, <4>2, EnterMoves
    <3>4. Moves(y, RunError(y))
      BY <2>12, RunErrorMoves
    <3>5. CASE fn = "uncallable"
      <4>1. Becomes(RunError(y))
        BY <2>7, <3>2, <3>5
      <4> QED
        BY <2>13, <3>4, <4>1
    <3>6. CASE fn # "uncallable"
      <4>1. Becomes(Enter(y, fn, Append(y.native, Body(t, fn)))) /\ fn \in Functs
        BY <2>7, <3>2, <3>6
      <4> QED
        BY <2>13, <3>3, <4>1
    <3> QED
      BY <3>5, <3>6
  <2> QED
    BY <1>11, <1>13, <2>14, <2>15
<1> QED
  BY <1>10, <1>12, <1>13, <1>14

\* Every step is one that the abstract specification allows.
LEMMA NextAllowed ==
    ASSUME IInv, IInv', Unbroken, Next
    PROVE  Allowed
<1>1. /\ \A f \in LuaFunctions \cup (uses \cap CFunctions) : f \in Functs
      /\ \A f \in LuaFunctions \cup (uses \cap {"yield"}) : f \in Functs
  BY DEF Functs, CFunctions
<1>2. ASSUME NEW b \in BOOLEAN, Start(b) \/ ResumeReturns(b)
      PROVE  Allowed
  BY <1>2, StartAllowed, ResumeReturnsAllowed
<1>3. ASSUME NEW f \in LuaFunctions \cup (uses \cap CFunctions), OpCall(f)
      PROVE  Allowed
  BY <1>1, <1>3, OpCallAllowed
<1>4. ASSUME NEW f \in LuaFunctions \cup (uses \cap {"yield"}),
             CallTM(f) \/ LuaPcall(f) \/ CallsBack(f) \/ CallHandler(f)
      PROVE  Allowed
  <2>1. f \in Functs
    BY <1>1
  <2> QED
    BY <1>4, <2>1, CallsAllowed, LuaPcallAllowed, BackAllowed
<1>11. \A f \in Values : f \in Functs \cup {"uncallable"}
  BY DEF Values, Functs, CFunctions
<1>5. ASSUME NEW t \in Threads, Create(t) \/ ShrinkCI(t) \/ \E f \in Values : AuxResume(t, f)
      PROVE  Allowed
  BY <1>5, <1>11, CreateAllowed, ShrinkCIAllowed, AuxResumeAllowed
<1>6. ASSUME OpTailCall \/ OpReturn \/ OpClosure \/ CallHook
      PROVE  Allowed
  BY <1>6, OpTailCallAllowed, OpReturnAllowed, OpClosureAllowed, CallHookAllowed
<1>7. ASSUME RaiseError \/ MemoryError \/ HandlerReturns
      PROVE  Allowed
  BY <1>7, ErrorsAllowed
<1>8. ASSUME LuaLoad \/ EnterLevel \/ LeaveLevel
      PROVE  Allowed
  BY <1>8, LuaLoadAllowed, EnterLevelAllowed, LeaveLevelAllowed
<1>9. ASSUME CReturns \/ CallReturns \/ PcallReturns \/ HookReturns \/ ParserEnds
      PROVE  Allowed
  BY <1>9, ReturnsAllowed
<1>10. ASSUME LuaYield \/ ResumeFails
       PROVE  Allowed
  BY <1>10, LuaYieldAllowed, BackAllowed
<1> QED
  BY <1>2, <1>3, <1>4, <1>5, <1>6, <1>7, <1>8, <1>9, <1>10 DEF Next

\* The main thread runs first, and there are no others.
LEMMA InitPromise ==
    ASSUME Init
    PROVE  Promise!Init
<1>1. native = <<>> /\ Main \in Threads
      /\ st = [t \in Threads |-> NewState(IF t = Main THEN "ok" ELSE "none", "none")]
  BY Limits DEF Init
<1> DEFINE g == [i \in 0..0 |-> <<Main>>]
<1>2. native \in Seq(Frames) /\ Len(native) = 0 /\ 0..0 = {0} /\ 1..0 = {}
  BY <1>1
<1>3. g \in [0..0 -> Seq(Threads)] /\ g[0] = <<Main>>
  <2>1. <<Main>> \in Seq(Threads)
    BY <1>1
  <2> QED
    BY <1>2, <2>1
<1> HIDE DEF g
<1>4. Links(native, g)
  BY <1>2, <1>3 DEF Links
<1>5. ChainOf(native) = <<Main>> /\ Chain = <<Main>>
  <2>1. ChainOf(native) = <<Main>>
    BY <1>2, <1>3, <1>4, ChainIs
  <2> QED
    BY <2>1 DEF Chain, Init
<1>6. Last(ChainOf(native)) = Main
  BY <1>5 DEF Last
<1>7. ASSUME NEW t \in Threads
      PROVE  Status(Main, t) = IF t = Main THEN "running" ELSE "none"
  <2>1. st[t].status = IF t = Main THEN "ok" ELSE "none"
    BY <1>1 DEF NewState
  <2> QED
    BY <2>1 DEF Status, CoStatus
<1>8. Statuses = [t \in Threads |-> IF t = Main THEN "running" ELSE "none"]
  BY <1>6, <1>7 DEF Statuses
<1>9. Kept = {}
  BY <1>1 DEF Kept, NewState
<1> QED
  BY <1>5, <1>8, <1>9 DEF Promise!Init

-----------------------------------------------------------------------------
(* A crash: only a coroutine that should have been dead comes to it.         *)

\* The program goes on, or stops in an orderly way.
Going(s) == "ctl" \in DOMAIN s /\ s.ctl # "crash"

\* Errors and calls do not crash.
LEMMA CallsGo ==
    ASSUME NEW s, Going(s)
    PROVE  /\ Going(Throw(s)) /\ Going(RunError(s))
           /\ \A f, nat : Going(Enter(s, f, nat))
           /\ \A f : Going(Call(s, f))
           /\ \A t, handler : Going(Protected(s, t, handler))
<1>1. ASSUME NEW x, Going(x)
      PROVE  Going(Throw(x))
  BY <1>1 DEF Going, Throw
<1>2. ASSUME NEW x, Going(x)
      PROVE  Going(RunError(x))
  <2>1. Going([x EXCEPT !.native = Append(@, Frame("errormsg", Last(x.native).thread)),
                        !.ctl = "run"])
    BY <1>2 DEF Going
  <2> QED
    BY <1>1, <1>2, <2>1 DEF RunError
<1>3. ASSUME NEW x, Going(x), NEW f, NEW nat
      PROVE  Going(Enter(x, f, nat))
  <2> DEFINE t == Last(x.native).thread
             size == x.st[t].size
             entered == [x EXCEPT !.st[t].ci = Append(@, f), !.native = nat, !.ctl = "run"]
             grown == [x EXCEPT !.st[t].size = 2 * size]
  <2>1. Going(entered) /\ Going(grown) /\ Going([entered EXCEPT !.st[t].size = 2 * size])
    BY <1>3 DEF Going
  <2>2. Going(RunError(grown)) /\ Going(Throw(x))
    <3> HIDE DEF grown
    <3> QED
      BY <1>1, <1>2, <1>3, <2>1
  <2>3. \/ Enter(x, f, nat) = entered \/ Enter(x, f, nat) = Throw(x)
        \/ Enter(x, f, nat) = RunError(grown)
        \/ Enter(x, f, nat) = [entered EXCEPT !.st[t].size = 2 * size]
    BY DEF Enter
  <2> HIDE DEF entered, grown, size, t
  <2> QED
    BY <2>1, <2>2, <2>3
<1>4. ASSUME NEW f
      PROVE  Going(Call(s, f))
  <2> DEFINE t == Last(s.native).thread
             m == s.st[t].nC + 1
             c == [s EXCEPT !.st[t].nC = m, !.native = Append(@, Frame("call", t))]
  <2>1. Going(c)
    BY DEF Going
  <2>2. \/ Call(s, f) = RunError(c) \/ Call(s, f) = Throw(c)
        \/ Call(s, f) = Enter(c, f, Append(c.native, Body(t, f)))
    BY DEF Call
  <2> HIDE DEF c, t
  <2> QED
    BY <1>1, <1>2, <1>3, <2>1, <2>2
<1>5. ASSUME NEW t, NEW handler
      PROVE  Going(Protected(s, t, handler))
  BY DEF Going, Protected
<1> QED
  BY <1>1, <1>2, <1>3, <1>4, <1>5

\* No step is taken after a crash.
LEMMA NoneAfterCrash ==
    ASSUME Next
    PROVE  ctl # "crash"
<1>1. ASSUME NEW b \in BOOLEAN, Start(b) \/ ResumeReturns(b)
      PROVE  ctl # "crash"
  BY <1>1 DEF Start, ResumeReturns, Returned
<1>2. ASSUME NEW f, OpCall(f) \/ CallTM(f) \/ LuaPcall(f) \/ CallsBack(f) \/ CallHandler(f)
      PROVE  ctl # "crash"
  BY <1>2 DEF OpCall, CallTM, Executes, LuaPcall, CallsBack, InC, CallHandler
<1>3. ASSUME NEW t, NEW f, Create(t) \/ ShrinkCI(t) \/ AuxResume(t, f)
      PROVE  ctl # "crash"
  BY <1>3 DEF Create, ShrinkCI, AuxResume, Executes, InC
<1>4. ASSUME \/ OpTailCall \/ OpReturn \/ OpClosure \/ CallHook \/ RaiseError \/ MemoryError
             \/ LuaLoad \/ EnterLevel \/ LeaveLevel \/ ParserEnds
      PROVE  ctl # "crash"
  BY <1>4 DEF OpTailCall, OpReturn, OpClosure, CallHook, RaiseError, MemoryError, LuaLoad,
     EnterLevel, LeaveLevel, ParserEnds, Executes, InC, Parses
<1>5. ASSUME \/ CReturns \/ CallReturns \/ PcallReturns \/ HookReturns \/ HandlerReturns
             \/ LuaYield \/ ResumeFails
      PROVE  ctl # "crash"
  BY <1>5 DEF CReturns, CallReturns, PcallReturns, HookReturns, HandlerReturns, LuaYield,
     ResumeFails, InC, Returned
<1> QED
  BY <1>1, <1>2, <1>3, <1>4, <1>5 DEF Next

\* The coroutine t is resumed where it has no function to go on with.
Crashes(t) ==
    /\ native # <<>> /\ top.a = "cfun" /\ st[t].status # "none"
    /\ CoStatus(L, t) = "suspended" /\ Stranded(st[t])
    /\ UNCHANGED <<st, native>>

\* The only step that crashes.
LEMMA OnlyThenCrashes ==
    ASSUME ctl # "crash", Next, ctl' = "crash"
    PROVE  \E t \in Threads : Crashes(t)
<1>1. Going(State) /\ State.ctl = ctl /\ State.native = native
  BY DEF Going, State
<1>2. \A z : Becomes(z) /\ Going(z) => ctl' # "crash"
  BY DEF Becomes, Going
<1> HIDE DEF State
<1>3. \A nat : Left(nat) # "crash"
  BY DEF Left
<1>4. ASSUME NEW b \in BOOLEAN, Start(b)
      PROVE  FALSE
  <2> DEFINE p == Protected(State, Main, FALSE)
  <2>1. Going(p)
    BY <1>1, CallsGo
  <2>2. Becomes(IF b THEN Call(p, "lua") ELSE RunError(p))
    BY <1>4 DEF Start
  <2> HIDE DEF p
  <2>3. Going(Call(p, "lua")) /\ Going(RunError(p))
    BY <2>1, CallsGo
  <2> QED
    BY <1>2, <2>2, <2>3
<1>5. ASSUME NEW b \in BOOLEAN, ResumeReturns(b)
      PROVE  FALSE
  <2> DEFINE r == [State EXCEPT !.st[L] = [@ EXCEPT !.nC = S.nC - 1, !.jmp = top.jmp],
                                !.native = Front(@)]
             ended == IF b THEN "none" ELSE "values"
             w == [r EXCEPT !.ctl = IF b THEN @ ELSE "overfull",
                            !.st[L].vals = IF S.status = "ok" THEN ended ELSE @]
  <2>1. Going(r)
    BY <1>1 DEF Going
  <2>2. Becomes(w)
    BY <1>5 DEF ResumeReturns
  <2> HIDE DEF r
  <2>3. Going(w)
    BY <2>1 DEF Going
  <2> HIDE DEF w
  <2> QED
    BY <1>2, <2>2, <2>3
<1>6. ASSUME NEW f, OpCall(f) \/ CallTM(f) \/ CallHandler(f)
      PROVE  FALSE
  BY <1>1, <1>2, <1>6, CallsGo DEF OpCall, CallTM, CallHandler
<1>7. ASSUME NEW f, LuaPcall(f)
      PROVE  FALSE
  <2> DEFINE p == Protected(State, L, top.f = "xpcall")
  <2>1. Going(p) /\ Becomes(Call(p, f))
    BY <1>1, <1>7, CallsGo DEF LuaPcall
  <2> HIDE DEF p
  <2> QED
    BY <1>2, <2>1, CallsGo
<1>8. ASSUME NEW f, CallsBack(f)
      PROVE  FALSE
  <2> DEFINE p == [State EXCEPT !.ctl = "run"]
  <2>1. Going(p) /\ Becomes(Call(p, f))
    BY <1>1, <1>8 DEF CallsBack, Going
  <2> HIDE DEF p
  <2> QED
    BY <1>2, <2>1, CallsGo
<1>9. ASSUME NEW t \in Threads, NEW f, AuxResume(t, f)
      PROVE  Crashes(t)
  <2> DEFINE r == [State EXCEPT !.ctl = "fail", !.st[t].nC = S.nC,
                                !.st[t].vals = IF st[t].status = "ok" THEN "none" ELSE @]
             x == [State EXCEPT
                     !.st[t] = [@ EXCEPT !.nC = S.nC + 1, !.baseC = S.nC + 1,
                                         !.jmp = Len(native) + 1],
                     !.native = Append(@, [a |-> "resume", thread |-> t, jmp |-> st[t].jmp])]
             failed == [State EXCEPT !.ctl = "fail"]
             crashed == [State EXCEPT !.ctl = "crash"]
  <2>1. Becomes(IF CoStatus(L, t) # "suspended" THEN failed
                ELSE IF S.nC >= MaxCCalls THEN r
                ELSE IF Stranded(st[t]) THEN crashed ELSE Resumed(x, t, f))
    BY <1>9 DEF AuxResume
  <2>2. Going(failed) /\ Going(r) /\ Going(x) /\ crashed.st = st /\ crashed.native = native
    BY <1>1 DEF Going, State
  <2> HIDE DEF r, x, failed, crashed
  <2>3. Going(Resumed(x, t, f))
    <3> DEFINE c == [x EXCEPT !.st[t].vals = IF @ = "values" THEN @ ELSE "none"]
               w == [x EXCEPT !.st[t].status = "ok", !.st[t].ci = Front(@),
                              !.native = Append(@, Exec(t, Len(x.st[t].ci) - 2))]
    <3>1. Going(c) /\ Going(w)
      BY <2>2 DEF Going
    <3>2. \/ Resumed(x, t, f) = w \/ Resumed(x, t, f) = RunError(c)
          \/ Resumed(x, t, f) = Enter(c, f, Append(c.native, Body(t, f)))
      BY DEF Resumed
    <3> HIDE DEF c, w
    <3> QED
      BY <3>1, <3>2, CallsGo
  <2>4. /\ CoStatus(L, t) = "suspended" /\ Stranded(st[t]) /\ Becomes(crashed)
    BY <1>2, <2>1, <2>2, <2>3
  <2> QED
    BY <1>9, <2>2, <2>4 DEF Crashes, AuxResume, InC, Becomes
<1>10. ASSUME NEW t \in Threads, Create(t) \/ ShrinkCI(t)
       PROVE  FALSE
  BY <1>10 DEF Create, ShrinkCI
<1>11. ASSUME OpTailCall
       PROVE  FALSE
  <2> DEFINE e == Enter(State, "lua", native)
             p == [e EXCEPT !.st[L].ci = Front(@), !.st[L].opened = @ \ {Depth(L)}]
  <2>1. Going(e) /\ Becomes(IF e.native = native THEN p ELSE e)
    BY <1>1, <1>11, CallsGo DEF OpTailCall
  <2> HIDE DEF e
  <2>2. Going(p)
    BY <2>1 DEF Going
  <2> HIDE DEF p
  <2> QED
    BY <1>2, <2>1, <2>2
<1>12. ASSUME CallHook
       PROVE  FALSE
  <2> DEFINE p == [State EXCEPT !.st[L].allow = FALSE, !.native = Append(@, Frame("hook", L))]
  <2>1. Going(p) /\ Becomes(Call(p, "lua"))
    BY <1>1, <1>12 DEF CallHook, Going
  <2> HIDE DEF p
  <2> QED
    BY <1>2, <2>1, CallsGo
<1>13. ASSUME OpReturn \/ OpClosure \/ LeaveLevel \/ ParserEnds
       PROVE  FALSE
  BY <1>3, <1>13 DEF OpReturn, OpClosure, LeaveLevel, ParserEnds
<1>14. ASSUME RaiseError \/ MemoryError \/ HandlerReturns
       PROVE  FALSE
  BY <1>1, <1>2, <1>14, CallsGo DEF RaiseError, MemoryError, HandlerReturns
<1>15. ASSUME LuaLoad
       PROVE  FALSE
  <2> DEFINE p == Protected(State, L, S.errf)
             w == [p EXCEPT !.native = Append(@, [a |-> "parser", thread |-> L, n |-> 0])]
  <2>1. Going(p) /\ Becomes(w)
    BY <1>1, <1>15, CallsGo DEF LuaLoad
  <2> HIDE DEF p
  <2>2. Going(w)
    BY <2>1 DEF Going
  <2> HIDE DEF w
  <2> QED
    BY <1>2, <2>1, <2>2
<1>16. ASSUME EnterLevel
       PROVE  FALSE
  <2> DEFINE s == [State EXCEPT !.st[L].nC = @ + 1, !.native[Len(native)].n = @ + 1]
  <2>1. Going(s) /\ Becomes(IF S.nC + 1 > MaxCCalls THEN Throw(s) ELSE s)
    BY <1>1, <1>16 DEF EnterLevel, Going
  <2> HIDE DEF s
  <2>2. Going(Throw(s))
    BY <2>1, CallsGo
  <2> QED
    BY <1>2, <2>1, <2>2
<1>17. ASSUME CReturns \/ CallReturns \/ PcallReturns \/ HookReturns
       PROVE  FALSE
  BY <1>3, <1>17 DEF CReturns, CallReturns, PcallReturns, HookReturns
<1>18. ASSUME LuaYield
       PROVE  FALSE
  <2> DEFINE p == [st |-> [st EXCEPT ![L].status = "yield"],
                   native |-> IF native[Len(native) - 1].a = "exec"
                              THEN SubSeq(native, 1, Len(native) - 2) ELSE Front(native),
                   ctl |-> "ret"]
  <2>1. Going(p) /\ Becomes(IF S.nC > S.baseC THEN RunError(State) ELSE p)
    BY <1>18 DEF LuaYield, Going
  <2> HIDE DEF p
  <2> QED
    BY <1>1, <1>2, <2>1, CallsGo
<1>19. ASSUME ResumeFails
       PROVE  FALSE
  <2> DEFINE p == [State EXCEPT !.ctl = "run"]
  <2>1. Going(p) /\ Becomes(RunError(p))
    BY <1>1, <1>19 DEF ResumeFails, Going
  <2> HIDE DEF p
  <2> QED
    BY <1>2, <2>1, CallsGo
<1> QED
  BY <1>4, <1>5, <1>6, <1>7, <1>8, <1>9, <1>10, <1>11, <1>12, <1>13, <1>14, <1>15, <1>16,
     <1>17, <1>18, <1>19 DEF Next

\* It is a step of the abstract specification.
LEMMA CrashPromise ==
    ASSUME IInv, ctl # "crash", ctl' = "crash", NEW t \in Threads, Crashes(t)
    PROVE  Promise!Next
<1>1. native # <<>> /\ top.a = "cfun" /\ top.a # "resume" /\ st[t].status # "none"
      /\ CoStatus(L, t) = "suspended" /\ Stranded(st[t]) /\ UNCHANGED <<st, native>>
  BY DEF Crashes
<1>2. PICK g : Ready(State, g)
  BY <1>1, ReadyNow
<1>3. State.st = st /\ State.native = native /\ InOrder(State) /\ L = Top(native)
  BY <1>1, GuardedNow DEF IInv
<1> HIDE DEF State
<1>4. Chain = ChainOf(native) /\ Chain # <<>> /\ Last(ChainOf(native)) = L
  BY <1>3, ChainInOrder DEF Chain
<1>5. Chain' = <<>>
  BY DEF Chain
<1>6. UNCHANGED <<Statuses, Kept>>
  BY <1>1 DEF Statuses, Status, CoStatus, Depth, Kept
<1>7. Statuses[t] = "suspended"
  BY <1>1, <1>4 DEF Statuses, Status
<1>8. t \in Kept
  <2>1. Rests(st[t]) /\ st[t].status = "yield" /\ Len(st[t].ci) = 2
    BY <1>1, <1>2, SuspendedIs DEF Stranded
  <2> QED
    BY <2>1 DEF Rests, Yielded, Kept
<1>9. Promise!Crash(t)
  BY <1>5, <1>6, <1>7, <1>8 DEF Promise!Crash
<1> QED
  BY <1>4, <1>9 DEF Promise!Next

\* Coroutines keep what Coroutines promises of them: one runs, those that wait for it
\* form a chain down to the main thread, one that has ended never runs again unless it
\* has kept values, and one that is suspended can go on unless it has.
THEOREM CallsImplementCoroutines == Spec => CoroutinesPromise
<1>1. Init => Promise!Init
  BY InitPromise
<1>2. IInv /\ IInv' /\ [Next]_vars => [Promise!Next]_<<Statuses, Chain, Kept>>
  <2>1. ASSUME IInv, IInv', Next
        PROVE  [Promise!Next]_<<Statuses, Chain, Kept>>
    <3>1. ctl # "crash"
      BY <2>1, NoneAfterCrash
    <3>2. CASE ctl' = "crash"
      <4>1. PICK t \in Threads : Crashes(t)
        BY <2>1, <3>1, <3>2, OnlyThenCrashes
      <4> QED
        BY <2>1, <3>1, <3>2, <4>1, CrashPromise
    <3>3. CASE ctl' # "crash"
      BY <2>1, <3>1, <3>3, NextAllowed DEF Unbroken, Allowed
    <3> QED
      BY <3>2, <3>3
  <2>2. ASSUME UNCHANGED vars
        PROVE  UNCHANGED <<Statuses, Chain, Kept>>
    BY <2>2 DEF vars, Statuses, Status, CoStatus, Depth, Chain, Kept
  <2> QED
    BY <2>1, <2>2
<1> QED
  BY <1>1, <1>2, InOrderAlways, PTL DEF Spec, CoroutinesPromise, Promise!Spec
=============================================================================
