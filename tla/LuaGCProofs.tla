---------------------------- MODULE LuaGCProofs ----------------------------
(* The collector of lgc.c never frees what the program can reach, for any     *)
(* number of objects, any program, and any interleaving of its steps with     *)
(* those of the program: its references never dangle, black objects refer to  *)
(* no white ones, and every step is one that module LuaHeap allows.           *)
EXTENDS LuaGC, TLAPS, SequenceTheorems, WellFoundedInduction

-----------------------------------------------------------------------------
(* What the steps of the program do to the references between the objects,   *)
(* and the part of the invariant that colours have no part in: memory that    *)
(* was given back holds nothing, and a thread that resumed another one        *)
(* refers to it.                                                              *)

\* What has no memory refers to nothing, and nothing is open in it.
FreedEmpty ==
    /\ \A o \in Threads \ alloc : stk[o] = {}
    /\ \A o \in Tables \ alloc : ent[o] = {}
    /\ \A o \in (Tables \cup Udata) \ alloc : meta[o] = Nothing
    /\ \A o \in Closures \ alloc : ref[o] = {}
    /\ \A o \in Upvals \ alloc : val[o] = Nothing /\ open[o] = Nothing
    /\ \A o \in Upvals : open[o] # Nothing => open[o] \in alloc
    /\ finalized \subseteq alloc /\ tmudata \subseteq alloc

\* The threads that wait for another one to yield have it on their stack.
CallsChain ==
    /\ calls[1] = Main
    /\ \A i, j \in 1..Len(calls) : calls[i] = calls[j] => i = j
    /\ \A i \in 2..Len(calls) : calls[i] \in stk[calls[i - 1]]
    /\ \A o \in Threads : tms[o] # {} => \E i \in 1..Len(calls) : o = calls[i]

HeapInv == HeapTypeOK /\ FreedEmpty /\ CallsChain

-----------------------------------------------------------------------------
\* What an object refers to, by its kind.
LEMMA RefsOf ==
    ASSUME NEW o
    PROVE  /\ o \in Tables => Refs(o) = Objects(KeysOf(o) \cup ValuesOf(o) \cup {meta[o]})
           /\ o \in Udata => Refs(o) = Objects({meta[o]})
           /\ o \in Closures => Refs(o) = Objects(ref[o])
           /\ o \in Upvals => Refs(o) = Objects({val[o]})
           /\ o \in Threads =>
                 Refs(o) = Objects(stk[o] \cup tms[o] \cup {val[u] : u \in Opened(o)})
           /\ o \in Strings => Refs(o) = {}
  BY Kinds DEF Refs, Objects

\* The same after a step.
LEMMA RefsOfNext ==
    ASSUME NEW o
    PROVE  /\ o \in Tables => Refs(o)' = Objects(KeysOf(o) \cup ValuesOf(o) \cup {meta[o]})'
           /\ o \in Udata => Refs(o)' = Objects({meta[o]})'
           /\ o \in Closures => Refs(o)' = Objects(ref[o])'
           /\ o \in Upvals => Refs(o)' = Objects({val[o]})'
           /\ o \in Threads =>
                 Refs(o)' = Objects(stk[o] \cup tms[o] \cup {val[u] : u \in Opened(o)})'
           /\ o \in Strings => Refs(o)' = {}
  BY Kinds DEF Refs, Objects

\* What an object of each kind can refer to.
LEMMA RefsKinds ==
    ASSUME HeapTypeOK, NEW o \in Obj
    PROVE  /\ Refs(o) \subseteq Obj
           /\ o \notin Closures => Refs(o) \subseteq Values
           /\ o \in Udata => Refs(o) \subseteq Tables
           /\ o \in Closures => Refs(o) = ref[o] /\ Refs(o) \subseteq Upvals
<1>1. CASE o \in Tables
  <2>1. KeysOf(o) \subseteq Values \cup {Nothing} /\ ValuesOf(o) \subseteq Values
    BY <1>1 DEF HeapTypeOK, KeysOf, ValuesOf
  <2>2. meta[o] \in Tables \cup {Nothing} /\ Tables \subseteq Values
    BY <1>1, Kinds DEF HeapTypeOK, Values, Obj
  <2> QED
    BY <1>1, <2>1, <2>2, RefsOf, Kinds DEF Objects, Values, Obj
<1>2. CASE o \in Udata
  <2>1. meta[o] \in Tables \cup {Nothing}
    BY <1>2 DEF HeapTypeOK
  <2> QED
    BY <1>2, <2>1, RefsOf, Kinds DEF Objects, Values, Obj
<1>3. CASE o \in Closures
  <2>1. ref[o] \subseteq Upvals
    BY <1>3 DEF HeapTypeOK
  <2>2. Objects(ref[o]) = ref[o]
    BY <2>1, Kinds DEF Objects, Obj
  <2>3. o \notin Udata /\ Upvals \subseteq Obj
    BY <1>3, Kinds DEF Obj
  <2> QED
    BY <1>3, <2>1, <2>2, <2>3, RefsOf
<1>4. CASE o \in Upvals
  <2>1. val[o] \in Values \cup {Nothing}
    BY <1>4 DEF HeapTypeOK
  <2> QED
    BY <1>4, <2>1, RefsOf, Kinds DEF Objects, Values, Obj
<1>5. CASE o \in Threads
  <2>1. stk[o] \subseteq Values /\ tms[o] \subseteq Values
    BY <1>5, Kinds DEF HeapTypeOK, Values, Obj
  <2>2. {val[u] : u \in Opened(o)} \subseteq Values \cup {Nothing}
    BY DEF HeapTypeOK, Opened
  <2> QED
    BY <1>5, <2>1, <2>2, RefsOf, Kinds DEF Objects, Values, Obj
<1>6. CASE o \in Strings
  BY <1>6, RefsOf, Kinds
<1> QED
  BY <1>1, <1>2, <1>3, <1>4, <1>5, <1>6 DEF Obj

\* The running thread.
LEMMA Running ==
    ASSUME HeapTypeOK
    PROVE  /\ Len(calls) \in Nat \ {0} /\ DOMAIN calls = 1..Len(calls)
           /\ running = calls[Len(calls)] /\ running \in Threads /\ running \in Range(calls)
           /\ \A i \in 1..Len(calls) : calls[i] \in Threads
           /\ Range(calls) = {calls[i] : i \in 1..Len(calls)}
<1>1. calls \in Seq(Threads) /\ calls # <<>>
  BY DEF HeapTypeOK
<1>2. Len(calls) \in Nat \ {0} /\ DOMAIN calls = 1..Len(calls)
  BY <1>1
<1>3. \A i \in 1..Len(calls) : calls[i] \in Threads
  BY <1>1
<1>4. Range(calls) = {calls[i] : i \in 1..Len(calls)}
  BY <1>2 DEF Range
<1>5. running = calls[Len(calls)]
  BY DEF running, Last
<1> QED
  BY <1>2, <1>3, <1>4, <1>5

\* The threads in calls after a step.
LEMMA RangeNext ==
    ASSUME HeapTypeOK'
    PROVE  Range(calls)' = {calls'[i] : i \in 1..Len(calls')}
<1>1. DOMAIN calls' = 1..Len(calls')
  BY DEF HeapTypeOK
<1> QED
  BY <1>1 DEF Range

\* What the running function can name is of the kinds a variable can refer to.
LEMMA HoldsKinds ==
    ASSUME HeapTypeOK
    PROVE  /\ Holds \subseteq Values /\ Nothing \notin Holds
           /\ Locals \subseteq Values \cup {Nothing}
           /\ \A o \in Holds : Objects(Readable(o)) \subseteq Values
<1>1. running \in Threads
  BY Running
<1>2. Holds \subseteq Values
  BY <1>1, Kinds DEF HeapTypeOK, Holds, Values, Obj
<1>3. \A o \in Holds : Objects(Readable(o)) \subseteq Values
  <2> TAKE o \in Holds
  <2>1. CASE o \in Tables \cup Udata
    <3>1. Objects(Readable(o)) = Refs(o)
      BY <2>1, RefsOf, Kinds DEF Readable
    <3> QED
      BY <2>1, <3>1, <1>2, RefsKinds, Kinds DEF Values
  <2>2. CASE o \in Closures
    <3>1. Readable(o) = {val[u] : u \in ref[o]}
      BY <2>2, Kinds DEF Readable
    <3> QED
      BY <2>2, <3>1 DEF HeapTypeOK, Objects
  <2>3. CASE o \notin Tables \cup Udata \cup Closures
    BY <2>3 DEF Readable, Objects
  <2> QED
    BY <2>1, <2>2, <2>3
<1> QED
  BY <1>2, <1>3, Kinds DEF Locals, Values

-----------------------------------------------------------------------------
\* A step that changes stacks only adds their new members to what threads refer to.
LEMMA StackStep ==
    ASSUME NEW N, UNCHANGED <<ent, meta, ref, val, open>>,
           Upvals \cap alloc' = Upvals \cap alloc,
           \A o \in Threads : stk'[o] \subseteq stk[o] \cup N /\ tms'[o] \subseteq tms[o]
    PROVE  /\ \A o \in Obj \ Threads : Refs(o)' = Refs(o)
           /\ \A o \in Threads : Refs(o)' \subseteq Refs(o) \cup Objects(N)
<1>1. ASSUME NEW o \in Obj \ Threads
      PROVE  Refs(o)' = Refs(o)
  <2>1. o \in Tables => Objects(KeysOf(o) \cup ValuesOf(o) \cup {meta[o]})'
                         = Objects(KeysOf(o) \cup ValuesOf(o) \cup {meta[o]})
    BY DEF KeysOf, ValuesOf, Objects
  <2>2. /\ Objects({meta[o]})' = Objects({meta[o]})
        /\ Objects(ref[o])' = Objects(ref[o])
        /\ Objects({val[o]})' = Objects({val[o]})
    BY DEF Objects
  <2> QED
    BY <1>1, <2>1, <2>2, RefsOf, RefsOfNext DEF Obj
<1>2. ASSUME NEW o \in Threads
      PROVE  Refs(o)' \subseteq Refs(o) \cup Objects(N)
  <2>1. {val[u] : u \in Opened(o)}' = {val[u] : u \in Opened(o)}
    BY DEF Opened
  <2> QED
    BY <1>2, <2>1, RefsOf, RefsOfNext DEF Objects
<1> QED
  BY <1>1, <1>2

\* The roots that the program steps of this module need to be allocated.
HeldAllocated == Range(calls) \cup Holds \subseteq alloc

\* What was given back refers to nothing.
LEMMA FreedRefs ==
    ASSUME HeapInv, HeldAllocated, NEW o \in Obj \ alloc
    PROVE  Refs(o) = {}
<1>1. o \in Tables => KeysOf(o) = {} /\ ValuesOf(o) = {}
  BY DEF HeapInv, FreedEmpty, KeysOf, ValuesOf
<1>2. o \in Threads => Opened(o) = {}
  BY Kinds DEF HeapInv, FreedEmpty, Opened, Obj
<1>3. o \in Threads => tms[o] = {}
  BY Running DEF HeapInv, CallsChain, HeldAllocated
<1>4. o \in Threads => {val[u] : u \in Opened(o)} = {}
  BY <1>2
<1> QED
  BY <1>1, <1>3, <1>4, RefsOf DEF HeapInv, FreedEmpty, Objects, Obj

\* The chain of calls does not change where stacks only gain members.
LEMMA ChainKept ==
    ASSUME HeapInv, calls' = calls,
           \A i \in 2..Len(calls) : stk[calls[i - 1]] \cap Threads \subseteq stk'[calls[i - 1]],
           \A o \in Threads : tms'[o] # {} => tms[o] # {} \/ o = running
    PROVE  CallsChain'
<1>1. \A i \in 2..Len(calls) : calls[i] \in Threads
  BY Running DEF HeapInv
<1>2. \A i \in 2..Len(calls') : calls'[i] \in stk'[calls'[i - 1]]
  BY <1>1 DEF HeapInv, CallsChain
<1>3. \E i \in 1..Len(calls) : running = calls[i]
  BY Running DEF HeapInv
<1> QED
  BY <1>2, <1>3 DEF HeapInv, CallsChain

\* A new object refers to itself at most, a thread that is alone on its stack.
LEMMA NewStep ==
    ASSUME HeapInv, HeldAllocated, NEW o \in program.objs, New(o)
    PROVE  /\ HeapInv'
           /\ \A x \in Obj \ Threads : Refs(x)' = Refs(x)
           /\ \A x \in Threads : Refs(x)' \subseteq Refs(x) \cup {o}
           /\ Refs(o)' \subseteq {o}
           /\ o \in (Obj \ alloc) \ (Closures \cup Upvals) /\ alloc' = alloc \cup {o}
<1>1. running \in Threads /\ running \in alloc /\ o \in Obj \ {Main, Registry} /\ o \notin alloc
      /\ o \in Values /\ o \notin Closures \cup Upvals
  BY Running, Kinds DEF HeapInv, HeapTypeOK, New, Values, HeldAllocated
<1>2. stk' = [stk EXCEPT ![running] = @ \cup {o}] /\ alloc' = alloc \cup {o}
  BY DEF New, Pushed
<1>3. HeapTypeOK'
  BY <1>1, <1>2 DEF HeapInv, HeapTypeOK, New, Values
<1>4. FreedEmpty'
  BY <1>1, <1>2 DEF HeapInv, HeapTypeOK, FreedEmpty, New
<1>5. \A x \in Threads : stk[x] \subseteq stk'[x] /\ stk'[x] \subseteq stk[x] \cup {o}
  BY <1>1, <1>2 DEF HeapInv, HeapTypeOK
<1>6. CallsChain'
  BY <1>5, ChainKept, Running DEF New, HeapInv
<1>7. /\ \A x \in Obj \ Threads : Refs(x)' = Refs(x)
      /\ \A x \in Threads : Refs(x)' \subseteq Refs(x) \cup Objects({o})
  <2>1. UNCHANGED <<ent, meta, ref, val, open, tms>> /\ Upvals \cap alloc' = Upvals \cap alloc
    BY <1>1, <1>2 DEF New
  <2> QED
    BY <2>1, <1>5, StackStep
<1>8. Objects({o}) = {o}
  BY <1>1, Kinds DEF Objects
<1> QED
  BY <1>1, <1>2, <1>3, <1>4, <1>6, <1>7, <1>8, FreedRefs DEF HeapInv

\* Intern and Load: an allocated object is pushed.
LEMMA PushStep ==
    ASSUME HeapInv, HeldAllocated, NEW v \in Values, stk' = Pushed(v),
           UNCHANGED <<program, alloc, calls, ent, meta, ref, val, open, basicmt,
                       finalized, tmudata, tms>>
    PROVE  /\ HeapInv'
           /\ \A x \in Obj \ Threads : Refs(x)' = Refs(x)
           /\ \A x \in Threads : Refs(x)' \subseteq Refs(x) \cup Objects({v})
<1>1. running \in Threads /\ running \in alloc
  BY Running DEF HeapInv, HeldAllocated
<1>2. stk' = [stk EXCEPT ![running] = @ \cup {v}]
  BY DEF Pushed
<1>3. HeapTypeOK'
  BY <1>1, <1>2 DEF HeapInv, HeapTypeOK
<1>4. FreedEmpty'
  BY <1>1, <1>2 DEF HeapInv, HeapTypeOK, FreedEmpty
<1>5. \A x \in Threads : stk[x] \subseteq stk'[x] /\ stk'[x] \subseteq stk[x] \cup {v}
  BY <1>1, <1>2 DEF HeapInv, HeapTypeOK
<1>6. CallsChain'
  BY <1>5, ChainKept, Running DEF HeapInv
<1>7. /\ \A x \in Obj \ Threads : Refs(x)' = Refs(x)
      /\ \A x \in Threads : Refs(x)' \subseteq Refs(x) \cup Objects({v})
  BY <1>5, StackStep
<1> QED
  BY <1>3, <1>4, <1>6, <1>7 DEF HeapInv

\* A step of the program that forgets a value.
LEMMA DropStep ==
    ASSUME HeapInv, HeldAllocated, NEW v, Drop(v)
    PROVE  /\ HeapInv'
           /\ \A x \in Obj \ Threads : Refs(x)' = Refs(x)
           /\ \A x \in Threads : Refs(x)' \subseteq Refs(x)
<1>1. running \in Threads /\ running \in alloc
  BY Running DEF HeapInv, HeldAllocated
<1>2. stk' = [stk EXCEPT ![running] = @ \ {v}]
  BY DEF Drop
<1>3. HeapTypeOK'
  BY <1>1, <1>2 DEF HeapInv, HeapTypeOK, Drop
<1>4. FreedEmpty'
  BY <1>1, <1>2 DEF HeapInv, HeapTypeOK, FreedEmpty, Drop
<1>5. \A x \in Threads : stk'[x] \subseteq stk[x] \cup {} /\ (x # running => stk'[x] = stk[x])
  BY <1>1, <1>2 DEF HeapInv, HeapTypeOK
<1>6. \A i \in 2..Len(calls) : calls[i - 1] # running
  BY Running DEF HeapInv, CallsChain
<1>7. \A i \in 2..Len(calls) : calls[i - 1] \in Threads
  BY Running DEF HeapInv
<1>8. CallsChain'
  BY <1>5, <1>6, <1>7, ChainKept DEF Drop
<1>9. /\ \A x \in Obj \ Threads : Refs(x)' = Refs(x)
      /\ \A x \in Threads : Refs(x)' \subseteq Refs(x) \cup Objects({})
  BY <1>5, StackStep DEF Drop
<1> QED
  BY <1>3, <1>4, <1>8, <1>9 DEF HeapInv, Objects

\* A finalizer that returns.
LEMMA TMReturnsStep ==
    ASSUME HeapInv, HeldAllocated, NEW u, TMReturns(u)
    PROVE  /\ HeapInv'
           /\ \A x \in Obj \ Threads : Refs(x)' = Refs(x)
           /\ \A x \in Threads : Refs(x)' \subseteq Refs(x)
<1>1. running \in Threads
  BY Running DEF HeapInv
<1>2. tms' = [tms EXCEPT ![running] = @ \ {u}]
  BY DEF TMReturns
<1>3. HeapTypeOK'
  BY <1>1, <1>2 DEF HeapInv, HeapTypeOK, TMReturns
<1>4. FreedEmpty'
  BY DEF HeapInv, FreedEmpty, TMReturns
<1>5. \A x \in Threads : tms'[x] \subseteq tms[x]
  BY <1>1, <1>2 DEF HeapInv, HeapTypeOK
<1>6. CallsChain'
  BY <1>5, ChainKept, Running DEF TMReturns, HeapInv
<1>7. /\ \A x \in Obj \ Threads : Refs(x)' = Refs(x)
      /\ \A x \in Threads : Refs(x)' \subseteq Refs(x) \cup Objects({})
  BY <1>5, StackStep DEF TMReturns
<1> QED
  BY <1>3, <1>4, <1>6, <1>7 DEF HeapInv, Objects

\* The metatable of the basic types has no owner.
LEMMA SetBasicStep ==
    ASSUME HeapInv, NEW m, SetBasicMetatable(m)
    PROVE  HeapInv' /\ (\A x \in Obj : Refs(x)' = Refs(x)) /\ (m \in Holds \/ m = Nothing)
<1>1. HeapTypeOK'
  BY DEF HeapInv, HeapTypeOK, SetBasicMetatable
<1>2. FreedEmpty' /\ CallsChain'
  BY DEF HeapInv, FreedEmpty, CallsChain, SetBasicMetatable
<1>3. \A x \in Obj : Refs(x)' = Refs(x)
  BY DEF SetBasicMetatable, Refs, KeysOf, ValuesOf, Opened, Objects
<1> QED
  BY <1>1, <1>2, <1>3 DEF HeapInv, SetBasicMetatable

\* The resumed thread is one the program holds, and the argument is on its stack.
LEMMA ResumeStep ==
    ASSUME HeapInv, HeldAllocated, NEW th, NEW v, Resume(th, v)
    PROVE  /\ HeapInv'
           /\ \A x \in Obj \ Threads : Refs(x)' = Refs(x)
           /\ \A x \in Threads : Refs(x)' \subseteq Refs(x) \cup Objects({v})
           /\ Range(calls)' = Range(calls) \cup {th} /\ th \in Holds /\ v \in Locals
<1>1. /\ running \in Threads /\ th \in Threads /\ th \in alloc /\ v \in Locals /\ th \in Holds
      /\ th \notin Range(calls)
  BY Running DEF HeapInv, HeldAllocated, Resume
<1>2. stk' = [stk EXCEPT ![th] = @ \cup Objects({v})] /\ calls' = Append(calls, th)
  BY DEF Resume
<1>3. Objects({v}) \subseteq Values
  BY <1>1, HoldsKinds DEF Objects, HeapInv
<1>4. HeapTypeOK'
  <2>1. calls' \in Seq(Threads) /\ calls' # <<>>
    BY <1>1, <1>2, AppendProperties DEF HeapInv, HeapTypeOK
  <2>2. stk' \in [Threads -> SUBSET Values]
    BY <1>1, <1>2, <1>3 DEF HeapInv, HeapTypeOK
  <2> QED
    BY <2>1, <2>2 DEF HeapInv, HeapTypeOK, Resume
<1>5. FreedEmpty'
  BY <1>1, <1>2 DEF HeapInv, HeapTypeOK, FreedEmpty, Resume
<1>6. \A x \in Threads : stk[x] \subseteq stk'[x] /\ stk'[x] \subseteq stk[x] \cup Objects({v})
  BY <1>1, <1>2 DEF HeapInv, HeapTypeOK
<1>7. th \in stk[running]
  BY <1>1, Kinds DEF HeapInv, HeapTypeOK, Holds
<1>8. /\ Len(calls') = Len(calls) + 1 /\ calls'[Len(calls) + 1] = th
      /\ \A i \in 1..Len(calls) : calls'[i] = calls[i]
      /\ Len(calls) \in Nat \ {0}
      /\ \A i \in 1..Len(calls) : calls[i] \in Threads /\ calls[i] # th
  BY <1>1, <1>2, Running DEF HeapInv, HeapTypeOK
<1>9. CallsChain'
  <2>1. calls'[1] = Main
    BY <1>8 DEF HeapInv, CallsChain
  <2>2. \A i, j \in 1..Len(calls') : calls'[i] = calls'[j] => i = j
    BY <1>8 DEF HeapInv, CallsChain
  <2>3. ASSUME NEW i \in 2..Len(calls')
        PROVE  calls'[i] \in stk'[calls'[i - 1]]
    <3>1. CASE i = Len(calls) + 1
      BY <3>1, <1>6, <1>7, <1>8, Running DEF HeapInv
    <3>2. CASE i # Len(calls) + 1
      <4>1. i \in 2..Len(calls) /\ i - 1 \in 1..Len(calls)
        BY <3>2, <1>8
      <4> QED
        BY <4>1, <1>6, <1>8 DEF HeapInv, CallsChain
    <3> QED
      BY <3>1, <3>2
  <2>4. \A o \in Threads : tms'[o] # {} => \E i \in 1..Len(calls') : o = calls'[i]
    BY <1>8 DEF HeapInv, CallsChain, Resume
  <2> QED
    BY <2>1, <2>2, <2>3, <2>4 DEF CallsChain
<1>10. /\ \A x \in Obj \ Threads : Refs(x)' = Refs(x)
       /\ \A x \in Threads : Refs(x)' \subseteq Refs(x) \cup Objects(Objects({v}))
  BY <1>6, StackStep DEF Resume
<1>11. Range(calls)' = Range(calls) \cup {th}
  <2>1. Range(calls)' = {calls'[i] : i \in 1..Len(calls')}
    BY <1>4, RangeNext
  <2> QED
    BY <2>1, <1>8, Running DEF HeapInv
<1> QED
  BY <1>1, <1>4, <1>5, <1>9, <1>10, <1>11 DEF HeapInv, Objects

\* The thread that yields leaves the calls, and its result is on the one before.
LEMMA YieldStep ==
    ASSUME HeapInv, HeldAllocated, NEW v, Yield(v)
    PROVE  /\ HeapInv'
           /\ \A x \in Obj \ Threads : Refs(x)' = Refs(x)
           /\ \A x \in Threads : Refs(x)' \subseteq Refs(x) \cup Objects({v})
           /\ Range(calls)' \subseteq Range(calls) /\ (v \in Holds \/ v = Nothing)
<1> DEFINE n == Len(calls) - 1
<1>1. /\ Len(calls) \in Nat /\ n \in Nat \ {0} /\ tms[running] = {}
      /\ v \in Holds \cup {Nothing} /\ running = calls[n + 1]
      /\ \A i \in 1..Len(calls) : calls[i] \in Threads
  BY Running DEF HeapInv, Yield
<1>2. calls' = SubSeq(calls, 1, n) /\ Len(calls') = n /\ \A i \in 1..n : calls'[i] = calls[i]
  BY <1>1 DEF Yield, Front, HeapInv, HeapTypeOK
<1>3. Last(calls') = calls[n]
  BY <1>1, <1>2 DEF Last
<1>4. stk' = [stk EXCEPT ![calls[n]] = @ \cup Objects({v})] /\ calls[n] \in Threads
  BY <1>1, <1>3 DEF Yield
<1>5. Objects({v}) \subseteq Values
  BY <1>1, HoldsKinds DEF Objects, HeapInv
<1>6. calls[n] \in alloc
  BY <1>1, Running DEF HeldAllocated, HeapInv
<1> HIDE DEF n
<1>7. HeapTypeOK'
  <2>1. calls' \in Seq(Threads) /\ calls' # <<>>
    <3>1. \A i \in 1..n : calls[i] \in Threads
      BY <1>1 DEF n
    <3>2. calls' \in Seq(Threads)
      BY <1>1, <1>2, <3>1, SubSeqProperties
    <3>3. calls' # <<>>
      BY <1>1, <1>2
    <3> QED
      BY <3>2, <3>3
  <2>2. stk' \in [Threads -> SUBSET Values]
    BY <1>4, <1>5 DEF HeapInv, HeapTypeOK
  <2> QED
    BY <2>1, <2>2 DEF HeapInv, HeapTypeOK, Yield
<1>8. FreedEmpty'
  BY <1>4, <1>6 DEF HeapInv, HeapTypeOK, FreedEmpty, Yield
<1>9. \A x \in Threads : stk[x] \subseteq stk'[x] /\ stk'[x] \subseteq stk[x] \cup Objects({v})
  BY <1>4 DEF HeapInv, HeapTypeOK
<1>10. CallsChain'
  <2>1. 1..n \subseteq 1..Len(calls) /\ 2..n \subseteq 2..Len(calls)
    BY <1>1 DEF n
  <2>2. calls'[1] = Main /\ \A i, j \in 1..Len(calls') : calls'[i] = calls'[j] => i = j
    BY <2>1, <1>1, <1>2 DEF HeapInv, CallsChain
  <2>3. ASSUME NEW i \in 2..n
        PROVE  calls'[i] \in stk'[calls'[i - 1]]
    <3>1. i - 1 \in 1..n /\ i \in 1..n
      BY <1>1
    <3>2. calls[i] \in stk[calls[i - 1]] /\ calls[i - 1] \in Threads
      BY <2>1, <3>1, <1>1 DEF HeapInv, CallsChain
    <3> QED
      BY <3>1, <3>2, <1>2, <1>9
  <2>4. ASSUME NEW o \in Threads, tms[o] # {}
        PROVE  \E i \in 1..n : o = calls'[i]
    <3>1. PICK i \in 1..Len(calls) : o = calls[i]
      BY <2>4 DEF HeapInv, CallsChain
    <3>2. i # n + 1
      BY <2>4, <3>1, <1>1
    <3>3. i \in 1..n
      BY <3>1, <3>2, <1>1 DEF n
    <3> QED
      BY <3>1, <3>3, <1>2
  <2>5. tms' = tms
    BY DEF Yield
  <2>6. Len(calls') = n
    BY <1>2
  <2> QED
    BY <2>2, <2>3, <2>4, <2>5, <2>6 DEF CallsChain
<1>11. /\ \A x \in Obj \ Threads : Refs(x)' = Refs(x)
       /\ \A x \in Threads : Refs(x)' \subseteq Refs(x) \cup Objects(Objects({v}))
  BY <1>9, StackStep DEF Yield
<1>12. Range(calls)' \subseteq Range(calls)
  <2>1. Range(calls)' = {calls'[i] : i \in 1..Len(calls')}
    BY <1>7, RangeNext
  <2>2. 1..n \subseteq 1..Len(calls)
    BY <1>1 DEF n
  <2> QED
    BY <2>1, <2>2, <1>2, Running DEF HeapInv
<1> QED
  BY <1>1, <1>7, <1>8, <1>10, <1>11, <1>12 DEF HeapInv, Objects

\* A table that is assigned to refers to the value as well, and to a new key.
LEMMA SetEntryStep ==
    ASSUME HeapInv, HeldAllocated, NEW t, NEW k, NEW v, SetEntry(t, k, v)
    PROVE  /\ HeapInv'
           /\ t \in Holds \cap Tables /\ k \in Holds \cup {Nothing} /\ v \in Holds \cup {Nothing}
           /\ \A x \in Obj \ {t} : Refs(x)' = Refs(x)
           /\ Refs(t)' \subseteq Refs(t) \cup
                  Objects({v} \cup (IF k \in KeysOf(t) \/ v = Nothing THEN {} ELSE {k}))
<1>1. /\ t \in Holds \cap Tables /\ k \in Holds \cup {Nothing} /\ v \in Holds \cup {Nothing}
      /\ t \in alloc
  BY DEF SetEntry, HeldAllocated
<1>2. ent' = [ent EXCEPT ![t] = WithEntry(t, k, v)]
  BY DEF SetEntry
<1>3. WithEntry(t, k, v) \subseteq (Values \cup {Nothing}) \X Values
  <2>1. ent[t] \subseteq (Values \cup {Nothing}) \X Values
    BY <1>1 DEF HeapInv, HeapTypeOK
  <2>2. v # Nothing => <<k, v>> \in (Values \cup {Nothing}) \X Values
    BY <1>1, HoldsKinds DEF HeapInv
  <2> QED
    BY <2>1, <2>2 DEF WithEntry
<1>4. HeapTypeOK'
  BY <1>1, <1>2, <1>3 DEF HeapInv, HeapTypeOK, SetEntry
<1>5. FreedEmpty'
  BY <1>1, <1>2 DEF HeapInv, HeapTypeOK, FreedEmpty, SetEntry
<1>6. CallsChain'
  BY DEF HeapInv, CallsChain, SetEntry
<1>7. ASSUME NEW x \in Obj \ {t}
      PROVE  Refs(x)' = Refs(x)
  <2>1. x \in Tables => KeysOf(x)' = KeysOf(x) /\ ValuesOf(x)' = ValuesOf(x)
    BY <1>1, <1>2, <1>7 DEF HeapInv, HeapTypeOK, KeysOf, ValuesOf
  <2> QED
    BY <2>1 DEF SetEntry, Refs, Opened, Objects
<1>8. /\ KeysOf(t)' \subseteq KeysOf(t) \cup (IF v = Nothing THEN {} ELSE {k})
      /\ ValuesOf(t)' \subseteq ValuesOf(t) \cup (IF v = Nothing THEN {} ELSE {v})
  <2>1. ent'[t] = WithEntry(t, k, v)
    BY <1>1, <1>2 DEF HeapInv, HeapTypeOK
  <2> QED
    BY <2>1 DEF WithEntry, KeysOf, ValuesOf
<1>9. Refs(t)' \subseteq Refs(t) \cup
          Objects({v} \cup (IF k \in KeysOf(t) \/ v = Nothing THEN {} ELSE {k}))
  <2>1. /\ Refs(t) = Objects(KeysOf(t) \cup ValuesOf(t) \cup {meta[t]})
        /\ Refs(t)' = Objects(KeysOf(t)' \cup ValuesOf(t)' \cup {meta[t]})
    BY <1>1, RefsOf, RefsOfNext DEF SetEntry, Objects
  <2> QED
    BY <2>1, <1>8 DEF Objects
<1> QED
  BY <1>1, <1>4, <1>5, <1>6, <1>7, <1>9 DEF HeapInv

\* Only the object that is given the metatable changes.
LEMMA SetMetatableStep ==
    ASSUME HeapInv, HeldAllocated, NEW o, NEW m, SetMetatable(o, m)
    PROVE  /\ HeapInv'
           /\ o \in Holds \cap (Tables \cup Udata) /\ m \in (Holds \cap Tables) \cup {Nothing}
           /\ \A x \in Obj \ {o} : Refs(x)' = Refs(x)
           /\ Refs(o)' \subseteq Refs(o) \cup Objects({m})
<1>1. /\ o \in Holds \cap (Tables \cup Udata) /\ m \in (Holds \cap Tables) \cup {Nothing}
      /\ o \in alloc
  BY DEF SetMetatable, HeldAllocated
<1>2. meta' = [meta EXCEPT ![o] = m]
  BY DEF SetMetatable
<1>3. HeapTypeOK'
  BY <1>1, <1>2 DEF HeapInv, HeapTypeOK, SetMetatable
<1>4. FreedEmpty'
  BY <1>1, <1>2 DEF HeapInv, HeapTypeOK, FreedEmpty, SetMetatable
<1>5. CallsChain'
  BY DEF HeapInv, CallsChain, SetMetatable
<1>6. \A x \in Tables \cup Udata : x # o => meta'[x] = meta[x]
  BY <1>1, <1>2 DEF HeapInv, HeapTypeOK
<1>7. meta'[o] = m
  BY <1>1, <1>2 DEF HeapInv, HeapTypeOK
<1>8. ASSUME NEW x \in Obj \ {o}
      PROVE  Refs(x)' = Refs(x)
  BY <1>6, <1>8 DEF SetMetatable, Refs, Opened, Objects, KeysOf, ValuesOf
<1>9. Refs(o)' \subseteq Refs(o) \cup Objects({m})
  BY <1>1, <1>7, RefsOf, RefsOfNext DEF SetMetatable, KeysOf, ValuesOf, Objects
<1> QED
  BY <1>1, <1>3, <1>4, <1>5, <1>8, <1>9 DEF HeapInv

\* The closure refers to its upvalue, which refers to a local variable.
LEMMA MakeClosureStep ==
    ASSUME HeapInv, HeldAllocated, NEW c, NEW u \in Upvals, MakeClosure(c, u)
    PROVE  /\ HeapInv'
           /\ c \in Closures \ alloc /\ alloc' = alloc \cup {c, u}
           /\ u \in Opened(running) \/ u \notin alloc
           /\ open' = [open EXCEPT ![u] = running]
           /\ \A x \in Obj \ (Threads \cup {c, u}) : Refs(x)' = Refs(x)
           /\ Refs(c)' = {u}
           /\ Refs(u)' \subseteq Refs(u) \cup Objects(Locals)
           /\ \A x \in Threads : Refs(x)' \subseteq Refs(x) \cup {c} \cup Objects(Locals)
<1>1. /\ c \in Closures \ alloc /\ alloc' = alloc \cup {c, u}
      /\ u \in Opened(running) \/ u \notin alloc
      /\ open' = [open EXCEPT ![u] = running]
      /\ ref' = [ref EXCEPT ![c] = {u}]
      /\ stk' = [stk EXCEPT ![running] = @ \cup {c}]
      /\ UNCHANGED <<program, calls, ent, meta, basicmt, finalized, tmudata, tms>>
  BY DEF MakeClosure, Pushed
<1>2. val' = val \/ (u \notin alloc /\ \E v \in Locals : val' = [val EXCEPT ![u] = v])
  BY DEF MakeClosure
<1>3. running \in Threads /\ running \in alloc /\ c \in Values /\ c \in Obj /\ u \in Obj
  BY <1>1, Running, Kinds DEF HeapInv, HeldAllocated, Values, Obj
<1>4. val' \in [Upvals -> Values \cup {Nothing}]
  BY <1>2, HoldsKinds DEF HeapInv, HeapTypeOK
<1>5. HeapTypeOK'
  <2>1. stk' \in [Threads -> SUBSET Values] /\ ref' \in [Closures -> SUBSET Upvals]
        /\ open' \in [Upvals -> Threads \cup {Nothing}]
    BY <1>1, <1>3 DEF HeapInv, HeapTypeOK
  <2> QED
    BY <2>1, <1>1, <1>3, <1>4 DEF HeapInv, HeapTypeOK
<1>6. \A w \in Upvals : w # u => val'[w] = val[w] /\ open'[w] = open[w]
  BY <1>1, <1>2 DEF HeapInv, HeapTypeOK
<1>7. val'[u] = val[u] \/ (u \notin alloc /\ val'[u] \in Locals)
  BY <1>2 DEF HeapInv, HeapTypeOK
<1>8. \A d \in Closures : d # c => ref'[d] = ref[d]
  BY <1>1 DEF HeapInv, HeapTypeOK
<1>9. ref'[c] = {u} /\ open'[u] = running
  BY <1>1 DEF HeapInv, HeapTypeOK
<1>10. \A x \in Threads : stk[x] \subseteq stk'[x] /\ stk'[x] \subseteq stk[x] \cup {c}
                           /\ (x # running => stk'[x] = stk[x])
  BY <1>1, <1>3 DEF HeapInv, HeapTypeOK
<1>11. FreedEmpty'
  BY <1>1, <1>3, <1>6, <1>8, <1>9, <1>10 DEF HeapInv, FreedEmpty
<1>12. CallsChain'
  BY <1>1, <1>10, ChainKept, Running DEF HeapInv
<1>13. ASSUME NEW x \in Obj \ (Threads \cup {c, u})
       PROVE  Refs(x)' = Refs(x)
  BY <1>1, <1>6, <1>8, <1>13 DEF Refs, Objects, KeysOf, ValuesOf
<1>14. Refs(c)' = {u}
  BY <1>1, <1>3, <1>9, RefsOfNext, Kinds DEF Objects
<1>15. Refs(u)' \subseteq Refs(u) \cup Objects(Locals)
  BY <1>7, RefsOf, RefsOfNext DEF Objects
<1>16. ASSUME NEW x \in Threads
       PROVE  Refs(x)' \subseteq Refs(x) \cup {c} \cup Objects(Locals)
  <2>1. \A w \in Opened(x)' : w \in Opened(x) \/ w = u
    BY <1>1, <1>6, Kinds DEF Opened
  <2>2. u \in Opened(x)' => val'[u] \in {val[w] : w \in Opened(x)} \/ val'[u] \in Locals
    <3>1. CASE u \in Opened(running)
      BY <3>1, <1>2, <1>9 DEF Opened
    <3>2. CASE u \notin alloc
      <4>1. val[u] = Nothing /\ Nothing \in Locals
        BY <3>2 DEF HeapInv, FreedEmpty, Locals
      <4> QED
        BY <4>1, <1>7
    <3> QED
      BY <1>1, <3>1, <3>2
  <2>3. {val[w] : w \in Opened(x)}' \subseteq {val[w] : w \in Opened(x)} \cup Locals
    <3> SUFFICES ASSUME NEW w \in Opened(x)'
                 PROVE  val'[w] \in {val[y] : y \in Opened(x)} \cup Locals
      OBVIOUS
    <3>1. CASE w = u
      BY <3>1, <2>2
    <3>2. CASE w # u
      <4>1. w \in Opened(x) /\ w \in Upvals
        BY <3>2, <2>1 DEF Opened
      <4> QED
        BY <4>1, <3>2, <1>6
    <3> QED
      BY <3>1, <3>2
  <2>4. Refs(x)' = Objects(stk'[x] \cup tms[x] \cup {val[w] : w \in Opened(x)}')
    BY <1>1, RefsOfNext DEF Objects
  <2> QED
    BY <2>3, <2>4, <1>10, RefsOf DEF Objects
<1> QED
  BY <1>1, <1>5, <1>11, <1>12, <1>13, <1>14, <1>15, <1>16 DEF HeapInv

\* The closure refers to an upvalue of another one.
LEMMA ShareUpvalueStep ==
    ASSUME HeapInv, HeldAllocated, NEW c, NEW d, NEW u, ShareUpvalue(c, d, u)
    PROVE  /\ HeapInv'
           /\ c \in Closures \ alloc /\ alloc' = alloc \cup {c}
           /\ d \in Holds \cap Closures /\ u \in Refs(d)
           /\ \A x \in Obj \ (Threads \cup {c}) : Refs(x)' = Refs(x)
           /\ Refs(c)' = {u}
           /\ \A x \in Threads : Refs(x)' \subseteq Refs(x) \cup {c}
<1>1. /\ c \in Closures \ alloc /\ alloc' = alloc \cup {c}
      /\ d \in Holds \cap Closures /\ u \in ref[d]
      /\ ref' = [ref EXCEPT ![c] = {u}]
      /\ stk' = [stk EXCEPT ![running] = @ \cup {c}]
      /\ UNCHANGED <<program, calls, ent, meta, val, open, basicmt, finalized, tmudata, tms>>
  BY DEF ShareUpvalue, Pushed
<1>2. running \in Threads /\ running \in alloc /\ c \in Values /\ c \in Obj /\ c \notin Upvals
      /\ u \in Upvals /\ u \in Obj
  BY <1>1, Running, Kinds DEF HeapInv, HeapTypeOK, HeldAllocated, Values, Obj
<1>3. HeapTypeOK'
  <2>1. stk' \in [Threads -> SUBSET Values] /\ ref' \in [Closures -> SUBSET Upvals]
    BY <1>1, <1>2 DEF HeapInv, HeapTypeOK
  <2> QED
    BY <2>1, <1>1, <1>2 DEF HeapInv, HeapTypeOK
<1>4. \A e \in Closures : e # c => ref'[e] = ref[e]
  BY <1>1 DEF HeapInv, HeapTypeOK
<1>5. ref'[c] = {u}
  BY <1>1 DEF HeapInv, HeapTypeOK
<1>6. \A x \in Threads : stk[x] \subseteq stk'[x] /\ stk'[x] \subseteq stk[x] \cup {c}
                          /\ (x # running => stk'[x] = stk[x])
  BY <1>1, <1>2 DEF HeapInv, HeapTypeOK
<1>7. FreedEmpty'
  BY <1>1, <1>2, <1>4, <1>6 DEF HeapInv, FreedEmpty
<1>8. CallsChain'
  BY <1>1, <1>6, ChainKept, Running DEF HeapInv
<1>9. ASSUME NEW x \in Obj \ (Threads \cup {c})
      PROVE  Refs(x)' = Refs(x)
  BY <1>1, <1>4, <1>9 DEF Refs, Objects, KeysOf, ValuesOf
<1>10. Refs(c)' = {u}
  BY <1>1, <1>2, <1>5, RefsOfNext, Kinds DEF Objects
<1>11. ASSUME NEW x \in Threads
       PROVE  Refs(x)' \subseteq Refs(x) \cup {c}
  <2>1. Opened(x)' = Opened(x)
    BY <1>1, <1>2 DEF Opened
  <2>2. Refs(x)' = Objects(stk'[x] \cup tms[x] \cup {val[w] : w \in Opened(x)})
    BY <1>1, <2>1, RefsOfNext DEF Objects
  <2> QED
    BY <2>2, <1>6, RefsOf DEF Objects
<1>12. u \in Refs(d)
  BY <1>1, <1>2, RefsOf, Kinds DEF Objects
<1> QED
  BY <1>1, <1>3, <1>7, <1>8, <1>9, <1>10, <1>11, <1>12 DEF HeapInv

\* The value may live on the stack of another thread, the only one that changes too.
LEMMA SetUpvalueStep ==
    ASSUME HeapInv, HeldAllocated, NEW c, NEW u \in alloc, NEW v, SetUpvalue(c, u, v)
    PROVE  /\ HeapInv'
           /\ c \in Holds \cap Closures /\ u \in Refs(c) /\ u \in Upvals /\ v \in Locals
           /\ \A x \in Obj \ (Threads \cup {u}) : Refs(x)' = Refs(x)
           /\ Refs(u)' \subseteq Objects({v})
           /\ \A x \in Threads : Refs(x)' \subseteq Refs(x) \cup Objects({v})
<1>1. /\ c \in Holds \cap Closures /\ u \in ref[c] /\ v \in Locals
      /\ val' = [val EXCEPT ![u] = v]
      /\ UNCHANGED <<program, alloc, calls, stk, ent, meta, ref, open, basicmt,
                     finalized, tmudata, tms>>
  BY DEF SetUpvalue
<1>2. u \in Upvals /\ u \in Obj /\ v \in Values \cup {Nothing}
  BY <1>1, HoldsKinds DEF HeapInv, HeapTypeOK, Obj
<1>3. HeapTypeOK'
  BY <1>1, <1>2 DEF HeapInv, HeapTypeOK
<1>4. (\A w \in Upvals : w # u => val'[w] = val[w]) /\ val'[u] = v
  BY <1>1, <1>2 DEF HeapInv, HeapTypeOK
<1>5. u \in Refs(c)
  BY <1>1, <1>2, RefsOf, Kinds DEF Objects
<1>6. FreedEmpty' /\ CallsChain'
  BY <1>1, <1>4 DEF HeapInv, FreedEmpty, CallsChain
<1>7. ASSUME NEW x \in Obj \ (Threads \cup {u})
      PROVE  Refs(x)' = Refs(x)
  BY <1>1, <1>4, <1>7 DEF Refs, Objects, KeysOf, ValuesOf
<1>8. Refs(u)' \subseteq Objects({v})
  BY <1>2, <1>4, RefsOfNext DEF Objects
<1>9. ASSUME NEW x \in Threads
      PROVE  Refs(x)' \subseteq Refs(x) \cup Objects({v})
  <2>1. Opened(x)' = Opened(x)
    BY <1>1 DEF Opened
  <2>2. Opened(x) \subseteq Upvals
    BY DEF Opened
  <2>3. {val[w] : w \in Opened(x)}' \subseteq {val[w] : w \in Opened(x)} \cup {v}
    BY <2>1, <2>2, <1>4
  <2>4. Refs(x)' = Objects(stk[x] \cup tms[x] \cup {val[w] : w \in Opened(x)}')
    BY <1>1, RefsOfNext DEF Objects
  <2> QED
    BY <2>3, <2>4, RefsOf DEF Objects
<1> QED
  BY <1>1, <1>2, <1>3, <1>5, <1>6, <1>7, <1>8, <1>9 DEF HeapInv

\* Closing drops the values of the upvalues of dead, and takes none from another.
LEMMA CloseStep ==
    ASSUME HeapInv, HeldAllocated, NEW dead \in SUBSET Opened(running), CloseAllBut(dead)
    PROVE  /\ HeapInv'
           /\ alloc' = alloc \ dead
           /\ \A u \in Upvals : open'[u] = IF u \in Opened(running) THEN Nothing ELSE open[u]
           /\ \A x \in Obj \ (Threads \cup dead) : Refs(x)' = Refs(x)
           /\ \A x \in Threads : Refs(x)' \subseteq Refs(x)
<1>1. /\ open' = [u \in Upvals |-> IF u \in Opened(running) THEN Nothing ELSE open[u]]
      /\ val' = [u \in Upvals |-> IF u \in dead THEN Nothing ELSE val[u]]
      /\ alloc' = alloc \ dead
      /\ UNCHANGED <<program, calls, stk, ent, meta, ref, basicmt, finalized, tmudata, tms>>
  BY DEF CloseAllBut
<1>2. dead \subseteq Upvals /\ dead \cap (Tables \cup Udata \cup Closures \cup Threads) = {}
  BY Kinds DEF Opened
<1>3. running \in Threads /\ Nothing \notin Threads
  BY Running, Kinds DEF HeapInv, Obj
<1>4. HeapTypeOK'
  <2>1. val' \in [Upvals -> Values \cup {Nothing}] /\ open' \in [Upvals -> Threads \cup {Nothing}]
    BY <1>1 DEF HeapInv, HeapTypeOK
  <2> QED
    BY <2>1, <1>1, <1>2, Kinds DEF HeapInv, HeapTypeOK
<1>5. FreedEmpty'
  <2>1. \A u \in Upvals \ alloc' : val'[u] = Nothing /\ open'[u] = Nothing
    BY <1>1 DEF HeapInv, FreedEmpty
  <2>2. \A u \in Upvals : open'[u] # Nothing => open'[u] \in alloc'
    BY <1>1, <1>2 DEF HeapInv, HeapTypeOK, FreedEmpty
  <2>3. finalized' \subseteq alloc' /\ tmudata' \subseteq alloc'
    BY <1>1, <1>2 DEF HeapInv, HeapTypeOK, FreedEmpty
  <2> QED
    BY <2>1, <2>2, <2>3, <1>1, <1>2 DEF HeapInv, FreedEmpty
<1>6. CallsChain'
  BY <1>1 DEF HeapInv, CallsChain
<1>7. ASSUME NEW x \in Obj \ (Threads \cup dead)
      PROVE  Refs(x)' = Refs(x)
  BY <1>1, <1>7 DEF Refs, Objects, KeysOf, ValuesOf
<1>8. ASSUME NEW x \in Threads
      PROVE  Refs(x)' \subseteq Refs(x)
  <2>1. Opened(x)' \subseteq Opened(x) /\ \A u \in Opened(x)' : val'[u] = val[u]
    <3> SUFFICES ASSUME NEW u \in Opened(x)'
                 PROVE  u \in Opened(x) /\ val'[u] = val[u]
      OBVIOUS
    <3>1. u \in Upvals /\ u \in alloc /\ u \notin dead /\ open'[u] = x
      BY <1>1 DEF Opened
    <3>2. u \notin Opened(running)
      BY <3>1, <1>1, <1>3
    <3> QED
      BY <3>1, <3>2, <1>1 DEF Opened
  <2>2. Refs(x)' = Objects(stk[x] \cup tms[x] \cup {val[w] : w \in Opened(x)}')
    BY <1>1, RefsOfNext DEF Objects
  <2>3. {val[w] : w \in Opened(x)}' \subseteq {val[w] : w \in Opened(x)}
    BY <2>1
  <2> QED
    BY <2>2, <2>3, RefsOf DEF Objects
<1> QED
  BY <1>1, <1>4, <1>5, <1>6, <1>7, <1>8 DEF HeapInv

-----------------------------------------------------------------------------
(* The steps of the collector.                                               *)

\* The finalizer that is called refers to its userdata.
LEMMA CallTMStep ==
    ASSUME HeapInv, NEW u, CallTM(u)
    PROVE  /\ HeapInv'
           /\ \A x \in Obj \ Threads : Refs(x)' = Refs(x)
           /\ \A x \in Threads : Refs(x)' \subseteq Refs(x) \cup Objects({u})
<1>1. /\ u \in tmudata /\ tmudata' = tmudata \ {u} /\ u \in Udata /\ running \in Threads
      /\ tms' = [tms EXCEPT ![running] = IF NeedsGC(u) THEN @ \cup {u} ELSE @]
      /\ UNCHANGED <<program, alloc, calls, stk, ent, meta, ref, val, open, basicmt, finalized>>
  BY Running DEF HeapInv, HeapTypeOK, CallTM
<1>2. HeapTypeOK'
  BY <1>1 DEF HeapInv, HeapTypeOK
<1>3. FreedEmpty'
  BY <1>1 DEF HeapInv, FreedEmpty
<1>4. \A x \in Threads : tms'[x] \subseteq tms[x] \cup {u} /\ (x # running => tms'[x] = tms[x])
  BY <1>1 DEF HeapInv, HeapTypeOK
<1>5. CallsChain'
  BY <1>1, <1>4, ChainKept, Running DEF HeapInv
<1>6. ASSUME NEW x \in Obj \ Threads
      PROVE  Refs(x)' = Refs(x)
  BY <1>1, <1>6 DEF Refs, Objects, KeysOf, ValuesOf
<1>7. ASSUME NEW x \in Threads
      PROVE  Refs(x)' \subseteq Refs(x) \cup Objects({u})
  <2>1. Opened(x)' = Opened(x)
    BY <1>1 DEF Opened
  <2>2. Refs(x)' = Objects(stk[x] \cup tms'[x] \cup {val[w] : w \in Opened(x)})
    BY <1>1, <2>1, RefsOfNext DEF Objects
  <2> QED
    BY <2>2, <1>4, RefsOf DEF Objects
<1> QED
  BY <1>2, <1>3, <1>5, <1>6, <1>7 DEF HeapInv

\* The memory of D is given back.
GivenBack(D) ==
    /\ alloc' = alloc \ D
    /\ stk' = [o \in Threads |-> IF o \in D THEN {} ELSE stk[o]]
    /\ ent' = [o \in Tables |-> IF o \in D THEN {} ELSE ent[o]]
    /\ meta' = [o \in Tables \cup Udata |-> IF o \in D THEN Nothing ELSE meta[o]]
    /\ ref' = [o \in Closures |-> IF o \in D THEN {} ELSE ref[o]]
    /\ val' = [o \in Upvals |-> IF o \in D THEN Nothing ELSE val[o]]
    /\ open' = [o \in Upvals |-> IF o \in D \/ open[o] \in D THEN Nothing ELSE open[o]]
    /\ finalized' = finalized \ D
    /\ UNCHANGED <<program, calls, basicmt, tmudata, tms>>

\* Memory that no root has is given back, and no reference appears.
LEMMA GivenBackStep ==
    ASSUME HeapInv, NEW D \in SUBSET alloc, D \cap Roots = {}, GivenBack(D)
    PROVE  /\ HeapInv'
           /\ \A x \in Obj : Refs(x)' \subseteq Refs(x)
           /\ D = {} => UNCHANGED heap
<1>1. /\ Main \notin D /\ Registry \notin D /\ tmudata \cap D = {}
      /\ \A i \in 1..Len(calls) : calls[i] \notin D
  BY Running DEF HeapInv, Roots
<1>2. HeapTypeOK'
  <2>1. /\ stk' \in [Threads -> SUBSET Values]
        /\ ent' \in [Tables -> SUBSET ((Values \cup {Nothing}) \X Values)]
        /\ meta' \in [Tables \cup Udata -> Tables \cup {Nothing}]
        /\ ref' \in [Closures -> SUBSET Upvals]
        /\ val' \in [Upvals -> Values \cup {Nothing}]
        /\ open' \in [Upvals -> Threads \cup {Nothing}]
    BY DEF HeapInv, HeapTypeOK, GivenBack
  <2> QED
    BY <2>1, <1>1 DEF HeapInv, HeapTypeOK, GivenBack
<1>3. FreedEmpty'
  BY <1>1, Kinds DEF HeapInv, HeapTypeOK, FreedEmpty, GivenBack
<1>4. CallsChain'
  <2>1. \A i \in 2..Len(calls) : i - 1 \in 1..Len(calls) /\ calls[i - 1] \in Threads
    BY Running DEF HeapInv
  <2>2. \A i \in 2..Len(calls) : stk'[calls[i - 1]] = stk[calls[i - 1]]
    BY <2>1, <1>1 DEF GivenBack
  <2> QED
    BY <2>2 DEF HeapInv, CallsChain, GivenBack
<1>5. ASSUME NEW x \in Obj
      PROVE  Refs(x)' \subseteq Refs(x)
  <2>1. CASE x \in Threads
    <3>1. Opened(x)' \subseteq Opened(x)
      BY <2>1, Kinds DEF Opened, GivenBack, Obj
    <3>2. \A w \in Opened(x)' : val'[w] = val[w]
      BY DEF Opened, GivenBack
    <3>3. {val[w] : w \in Opened(x)}' \subseteq {val[w] : w \in Opened(x)}
      BY <3>1, <3>2
    <3>4. stk'[x] \subseteq stk[x] /\ tms' = tms
      BY <2>1 DEF GivenBack
    <3>5. Refs(x)' = Objects(stk'[x] \cup tms'[x] \cup {val[w] : w \in Opened(x)}')
      BY <2>1, RefsOfNext DEF Objects
    <3> QED
      BY <2>1, <3>3, <3>4, <3>5, RefsOf DEF Objects
  <2>2. CASE x \in Tables
    <3>1. /\ KeysOf(x)' \subseteq KeysOf(x) /\ ValuesOf(x)' \subseteq ValuesOf(x)
          /\ meta'[x] \in {meta[x], Nothing}
      BY <2>2 DEF GivenBack, KeysOf, ValuesOf
    <3> QED
      BY <2>2, <3>1, RefsOf, RefsOfNext DEF Objects
  <2>3. CASE x \in Udata
    <3>1. meta'[x] \in {meta[x], Nothing}
      BY <2>3 DEF GivenBack
    <3>2. Refs(x) = Objects({meta[x]}) /\ Refs(x)' = Objects({meta'[x]})
      BY <2>3, RefsOf, RefsOfNext DEF Objects
    <3> QED
      BY <3>1, <3>2 DEF Objects
  <2>4. CASE x \in Closures
    <3>1. ref'[x] \subseteq ref[x]
      BY <2>4 DEF GivenBack
    <3>2. Refs(x) = Objects(ref[x]) /\ Refs(x)' = Objects(ref'[x])
      BY <2>4, RefsOf, RefsOfNext DEF Objects
    <3> QED
      BY <3>1, <3>2 DEF Objects
  <2>5. CASE x \in Upvals
    <3>1. val'[x] \in {val[x], Nothing}
      BY <2>5 DEF GivenBack
    <3>2. Refs(x) = Objects({val[x]}) /\ Refs(x)' = Objects({val'[x]})
      BY <2>5, RefsOf, RefsOfNext DEF Objects
    <3> QED
      BY <3>1, <3>2 DEF Objects
  <2>6. CASE x \in Strings
    BY <2>6, RefsOf, RefsOfNext
  <2> QED
    BY <2>1, <2>2, <2>3, <2>4, <2>5, <2>6 DEF Obj
<1>6. ASSUME D = {}
      PROVE  UNCHANGED heap
  <2>1. stk' = stk /\ ent' = ent /\ meta' = meta
    BY <1>6 DEF HeapInv, HeapTypeOK, GivenBack
  <2>2. ref' = ref /\ val' = val /\ open' = open
    BY <1>6 DEF HeapInv, HeapTypeOK, GivenBack
  <2> QED
    BY <1>6, <2>1, <2>2 DEF heap, GivenBack
<1> QED
  BY <1>2, <1>3, <1>4, <1>5, <1>6 DEF HeapInv

\* A strong reference is a reference, and only weak tables have others.
LEMMA StrongRefs ==
    ASSUME NEW o
    PROVE  /\ Strong(o) \subseteq Refs(o)
           /\ o \notin Tables => Strong(o) = Refs(o)
           /\ o \in Tables /\ Mode(o) = {} => Strong(o) = Refs(o)
  BY RefsOf DEF Strong, Objects

\* What is outside of a closed set with all of S is out of reach.
LEMMA Outside ==
    ASSUME NEW S, NEW X, NEW C, C \subseteq alloc, S \subseteq C,
           \A o \in C \ X : Strong(o) \subseteq C
    PROVE  alloc \ C \subseteq OutOfReach(S, X)
  BY DEF OutOfReach

\* A set of natural numbers has a least one, and so an induction over the calls
\* a first thread for which it fails.
LEMMA LeastNat ==
    ASSUME NEW T, T \subseteq Nat, T # {}
    PROVE  \E n \in T : \A m \in T : n <= m
<1> DEFINE R == OpToRel(<, Nat)
<1>1. IsWellFoundedOn(R, Nat)
  BY NatLessThanWellFounded
<1>2. \A a, b \in Nat : a < b => <<a, b>> \in R
  BY DEF OpToRel
<1> HIDE DEF R
<1>3. PICK n \in T : \A m \in T : ~(<<m, n>> \in R)
  BY <1>1, WFMin
<1>4. \A m \in T : ~(m < n)
  BY <1>2, <1>3
<1> QED
  BY <1>4

\* A set with the main thread and all that the stacks of its members refer to has
\* every thread that has been resumed.
LEMMA CallsReached ==
    ASSUME HeapInv, NEW C, Main \in C, \A o \in C \cap Threads : stk[o] \subseteq C
    PROVE  Range(calls) \subseteq C
<1> DEFINE T == {i \in 1..Len(calls) : calls[i] \notin C}
<1>1. SUFFICES ASSUME T # {}
               PROVE  FALSE
  BY Running DEF HeapInv
<1>2. T \subseteq Nat
  OBVIOUS
<1>3. PICK n \in T : \A m \in T : n <= m
  BY <1>1, <1>2, LeastNat
<1>4. n \in 2..Len(calls) /\ n - 1 \in 1..Len(calls)
  BY <1>3, Running DEF HeapInv, CallsChain
<1>5. calls[n - 1] \in C /\ calls[n - 1] \in Threads
  BY <1>3, <1>4, Running DEF HeapInv
<1>6. calls[n] \in C
  BY <1>4, <1>5 DEF HeapInv, CallsChain
<1> QED
  BY <1>3, <1>6

-----------------------------------------------------------------------------
(* The collector.                                                            *)

Colored(S) == \A v \in S : ~IsWhite(v)
Live == {o \in alloc : ~IsDead(o)}

\* Only the sweeps meet an object with memory that is dead.
AllLive ==
    /\ \A o \in Obj \ alloc : IsDead(o)
    /\ gcstate \in {"pause", "propagate", "finalize"} => \A o \in alloc : ~IsDead(o)

\* A userdata turns black at once; a thread, whose stack has no barrier, and an
\* upvalue in it are never black; a string is never traversed.
Colours ==
    /\ \A o \in Udata : ~IsGray(o)
    /\ \A o \in Threads \cup Strings : ~IsBlack(o)
    /\ \A o \in Upvals : (IsGray(o) => open[o] # Nothing) /\ (IsBlack(o) => open[o] = Nothing)

\* While marking, what was traversed refers to marked objects, and each line of
\* atomic() adds a group of objects for which that is so.
Marking == gcstate = "propagate" =>
    /\ \A o \in alloc \ tmudata : IsBlack(o) => Colored(Refs(o))
    /\ Colored({Main, Registry})
    /\ gray \subseteq Tables \cup Closures \cup Threads
    /\ grayagain \subseteq Tables \cup Threads
    /\ OneListOnly
    /\ astep >= 1 => \A u \in Upvals \cap alloc : ~IsWhite(u) => Colored(Refs(u))
    /\ astep >= 2 => /\ Colored({running} \cup Objects({basicmt}))
                     /\ \A o \in weak : IsWeak(o) /\ Colored(Strong(o))
    /\ astep >= 3 => \A o \in grayagain : o \in Threads /\ Colored(Refs(o))
    /\ astep = 4 => \A o \in tmudata : IsBlack(o) /\ Colored(Refs(o))

\* The sweeps have turned white what they passed.
Sweeping ==
    /\ IF gcstate = "sweepstring" THEN sweepstr < strsize ELSE sweepstr = 0
    /\ gcstate = "sweepstring" =>
          \A s \in Strings \cap alloc : Bucket(s) < sweepstr => mark[s] = "white"
    /\ gcstate \in {"sweepstring", "sweep"} =>
          \A o \in alloc \ (Strings \cup tmudata \cup unswept) : mark[o] = "white"
    /\ SweptClean

IInv ==
    /\ HeapInv /\ GCTypeOK /\ AllLive /\ NoDangling
    /\ Colours /\ Marking /\ Sweeping

-----------------------------------------------------------------------------
\* What the program names is live.
LEMMA HoldsLive ==
    ASSUME IInv
    PROVE  /\ Roots \subseteq Live /\ (\A o \in Live : Refs(o) \subseteq Live)
           /\ Holds \subseteq Live /\ HeldAllocated /\ Objects(Locals) \subseteq Live
           /\ \A o \in Holds : Objects(Readable(o)) \subseteq Live
<1>1. Roots \subseteq Live /\ (\A o \in Live : Refs(o) \subseteq Live)
  BY DEF IInv, NoDangling, Live
<1>2. running \in Threads /\ running \in Range(calls)
  BY Running DEF IInv, HeapInv
<1>3. Holds \subseteq Live
  <2>1. Holds \subseteq Refs(running) \cup {Registry}
    BY <1>2, RefsOf, HoldsKinds DEF Holds, Objects, IInv, HeapInv
  <2> QED
    BY <1>1, <1>2, <2>1 DEF Roots
<1>4. ASSUME NEW o \in Holds
      PROVE  Objects(Readable(o)) \subseteq Live
  <2>1. CASE o \in Tables \cup Udata
    <3>1. Objects(Readable(o)) = Refs(o)
      BY <2>1, RefsOf, Kinds DEF Readable
    <3> QED
      BY <3>1, <1>1, <1>3
  <2>2. CASE o \in Closures
    <3>1. Readable(o) = {val[u] : u \in ref[o]}
      BY <2>2, Kinds DEF Readable
    <3>2. ASSUME NEW u \in ref[o], val[u] # Nothing
          PROVE  val[u] \in Live
      <4>1. u \in Refs(o) /\ u \in Upvals
        BY <2>2, RefsKinds, Kinds DEF IInv, HeapInv, Obj
      <4>2. val[u] \in Refs(u)
        BY <4>1, <3>2, RefsOf DEF Objects
      <4> QED
        BY <4>1, <4>2, <1>1, <1>3
    <3> QED
      BY <3>1, <3>2 DEF Objects
  <2>3. CASE o \notin Tables \cup Udata \cup Closures
    BY <2>3 DEF Readable, Objects
  <2> QED
    BY <2>1, <2>2, <2>3
<1> QED
  BY <1>1, <1>3, <1>4 DEF HeldAllocated, Roots, Live, Locals, Objects

\* A step that only makes objects of N, dead before, white, and that gives
\* threads and them references to live objects, keeps the invariant.
LEMMA CalmStep ==
    ASSUME IInv, astep = 0, HeapInv', NEW N,
           mark' = [x \in Obj |-> IF x \in N THEN "white" ELSE mark[x]],
           \A x \in N : IsDead(x) /\ x \in alloc',
           alloc \subseteq alloc', alloc' \subseteq alloc \cup N,
           \A x \in Obj \ (Threads \cup N) : Refs(x)' \subseteq Refs(x),
           \A x \in Threads : Refs(x)' \subseteq Refs(x) \cup Live',
           \A x \in N : Refs(x)' \subseteq Live',
           Range(calls)' \cup Objects({basicmt})' \subseteq Live',
           \A u \in Upvals \ N : open'[u] = open[u],
           UNCHANGED <<tmudata, gcstate, astep, gray, grayagain, weak, sweepstr, unswept, full>>,
           strsize' = strsize \/ (strsize' \in Nat \ {0} /\ gcstate # "sweepstring")
    PROVE  IInv'
<1>1. GCTypeOK'
  BY DEF IInv, GCTypeOK, Whites
<1>2. alloc' \subseteq Obj /\ N \subseteq Obj /\ tmudata \subseteq alloc
  BY DEF HeapInv, HeapTypeOK, FreedEmpty, IInv
<1>3. \A x \in Obj : mark'[x] = IF x \in N THEN "white" ELSE mark[x]
  OBVIOUS
<1>4. AllLive'
  BY <1>2, <1>3 DEF IInv, AllLive, IsDead
<1>5. Live \subseteq Live' /\ Live' \subseteq Live \cup N
  BY <1>2, <1>3 DEF Live, IsDead
<1>6. NoDangling'
  <2>1. Roots' \subseteq Live'
    BY <1>5, HoldsLive DEF Roots
  <2>2. ASSUME NEW x \in Live'
        PROVE  Refs(x)' \subseteq Live'
    BY <1>2, <1>5, HoldsLive DEF Live
  <2> QED
    BY <2>1, <2>2 DEF NoDangling, Live
<1>7. Colours'
  BY <1>3, Kinds DEF IInv, Colours, IsGray, IsBlack, IsDead, Obj
<1>8. Marking'
  <2> SUFFICES ASSUME gcstate = "propagate"
               PROVE  Marking'
    BY DEF Marking
  <2>1. ASSUME NEW x \in alloc' \ tmudata', IsBlack(x)'
        PROVE  Colored(Refs(x))'
    <3>1. x \notin N /\ IsBlack(x) /\ x \in alloc \ tmudata
      BY <2>1, <1>2, <1>3 DEF IsBlack
    <3>2. x \notin Threads
      BY <3>1 DEF IInv, Colours
    <3>3. Colored(Refs(x)) /\ x \in Obj
      BY <3>1, <1>2 DEF IInv, Marking
    <3>4. Refs(x)' \subseteq Refs(x) /\ Refs(x) \subseteq Obj
      BY <3>1, <3>2, <3>3, RefsKinds DEF IInv, HeapInv
    <3> QED
      BY <3>3, <3>4, <1>3 DEF Colored, IsWhite, IsDead, Whites
  <2>2. Colored({Main, Registry})'
    BY <1>3, Kinds DEF IInv, Marking, Colored, IsWhite, IsDead, Whites, Obj
  <2>3. OneListOnly'
    BY <1>2, <1>3 DEF IInv, GCTypeOK, Marking, OneListOnly, IsGray, IsDead, Listed
  <2> QED
    BY <2>1, <2>2, <2>3 DEF IInv, Marking
<1>9. Sweeping'
  BY <1>2, <1>3 DEF IInv, Sweeping, SweptClean, Bucket
<1> QED
  BY <1>1, <1>4, <1>6, <1>7, <1>8, <1>9 DEF IInv

\* The calls without a barrier: no mark changes.
LEMMA QuietStep ==
    ASSUME IInv, astep = 0, HeapInv', NEW v, Objects({v}) \subseteq Live, NoBarrier,
           UNCHANGED <<alloc, open, tmudata>>,
           \A x \in Obj \ Threads : Refs(x)' = Refs(x),
           \A x \in Threads : Refs(x)' \subseteq Refs(x) \cup Objects({v}),
           Range(calls)' \cup Objects({basicmt})' \subseteq Live
    PROVE  IInv'
<1> DEFINE N == {}
<1>1. mark' = [x \in Obj |-> IF x \in N THEN "white" ELSE mark[x]]
  BY DEF IInv, GCTypeOK, NoBarrier, gcvars
<1>2. Live' = Live
  BY DEF Live, IsDead, NoBarrier, gcvars
<1>3. UNCHANGED <<gcstate, astep, gray, grayagain, weak, strsize, sweepstr, unswept, full>>
  BY DEF NoBarrier, gcvars
<1>4. /\ \A x \in N : IsDead(x) /\ x \in alloc' /\ Refs(x)' \subseteq Live'
      /\ alloc \subseteq alloc' /\ alloc' \subseteq alloc \cup N
      /\ \A x \in Obj \ (Threads \cup N) : Refs(x)' \subseteq Refs(x)
      /\ \A x \in Threads : Refs(x)' \subseteq Refs(x) \cup Live'
      /\ Range(calls)' \cup Objects({basicmt})' \subseteq Live'
  BY <1>2
<1> HIDE DEF N
<1> QED
  BY <1>1, <1>3, <1>4, CalmStep

\* luaC_link: an object is made white.
LEMMA NewKeeps ==
    ASSUME IInv, NEW o \in program.objs, GCNew(o)
    PROVE  IInv'
<1>1. HeapInv /\ HeldAllocated /\ New(o) /\ astep = 0
  BY HoldsLive DEF IInv, GCNew, CanRun
<1>2. /\ HeapInv'
      /\ \A x \in Obj \ Threads : Refs(x)' = Refs(x)
      /\ \A x \in Threads : Refs(x)' \subseteq Refs(x) \cup {o}
      /\ Refs(o)' \subseteq {o}
      /\ o \in (Obj \ alloc) \ (Closures \cup Upvals) /\ alloc' = alloc \cup {o}
  BY <1>1, NewStep
<1> DEFINE N == {o}
<1>3. mark' = [x \in Obj |-> IF x \in N THEN "white" ELSE mark[x]] /\ IsDead(o)
  BY <1>2 DEF IInv, GCTypeOK, GCNew, AllLive
<1>4. Live \subseteq Live' /\ o \in Live'
  BY <1>2, <1>3 DEF Live, IsDead, IInv, HeapInv, HeapTypeOK
<1>5. Range(calls)' \cup Objects({basicmt})' \subseteq Live'
  BY <1>1, <1>4, HoldsLive DEF New, Roots, Objects
<1>6. strsize' = strsize \/ (strsize' \in Nat \ {0} /\ gcstate # "sweepstring")
  BY DEF GCNew, IInv, GCTypeOK
<1>7. UNCHANGED <<open, tmudata, gcstate, astep, gray, grayagain, weak, sweepstr, unswept, full>>
  BY <1>1 DEF GCNew, New
<1>8. /\ \A x \in N : IsDead(x) /\ x \in alloc' /\ Refs(x)' \subseteq Live'
      /\ alloc \subseteq alloc' /\ alloc' \subseteq alloc \cup N
      /\ \A x \in Obj \ (Threads \cup N) : Refs(x)' \subseteq Refs(x)
      /\ \A x \in Threads : Refs(x)' \subseteq Refs(x) \cup Live'
  BY <1>2, <1>3, <1>4
<1> HIDE DEF N
<1> QED
  BY <1>1, <1>2, <1>3, <1>5, <1>6, <1>7, <1>8, CalmStep

\* luaS_newlstr: a dead string is white again.
LEMMA InternKeeps ==
    ASSUME IInv, NEW s, GCIntern(s)
    PROVE  IInv'
<1>1. /\ HeapInv /\ HeldAllocated /\ astep = 0 /\ s \in Strings \cap alloc /\ s \in Values /\ s \in Obj
      /\ s # Nothing
      /\ stk' = Pushed(s)
      /\ UNCHANGED <<program, alloc, calls, ent, meta, ref, val, open, basicmt,
                     finalized, tmudata, tms>>
  BY HoldsLive, Kinds DEF IInv, GCIntern, Intern, CanRun, Values, Obj
<1>2. /\ HeapInv'
      /\ \A x \in Obj \ Threads : Refs(x)' = Refs(x)
      /\ \A x \in Threads : Refs(x)' \subseteq Refs(x) \cup Objects({s})
  BY <1>1, PushStep
<1> DEFINE N == {x \in {s} : IsDead(s)}
<1>3. mark' = [x \in Obj |-> IF x \in N THEN "white" ELSE mark[x]]
  BY <1>1 DEF IInv, GCTypeOK, GCIntern
<1>4. Live \subseteq Live' /\ s \in Live'
  BY <1>1, <1>3 DEF Live, IsDead, IInv, HeapInv, HeapTypeOK
<1>5. Range(calls)' \cup Objects({basicmt})' \subseteq Live'
  BY <1>1, <1>4, HoldsLive DEF Roots, Objects
<1>6. \A x \in N : IsDead(x) /\ x \in alloc' /\ Refs(x)' \subseteq Live'
  BY <1>1, RefsOfNext
<1>7. UNCHANGED <<gcstate, astep, gray, grayagain, weak, strsize, sweepstr, unswept, full>>
  BY DEF GCIntern
<1> HIDE DEF N
<1>8. \A x \in Threads : Refs(x)' \subseteq Refs(x) \cup Live'
  BY <1>2, <1>4 DEF Objects
<1> QED
  BY <1>1, <1>2, <1>3, <1>5, <1>6, <1>7, <1>8, CalmStep

\* A value is read onto the stack of the running thread, which needs no barrier.
LEMMA LoadKeeps ==
    ASSUME IInv, NEW o \in Holds, NEW v \in Objects(Readable(o)), GCLoad(o, v)
    PROVE  IInv'
<1>1. /\ HeapInv /\ HeldAllocated /\ astep = 0 /\ NoBarrier
      /\ v \in Live /\ v \in Values
      /\ stk' = Pushed(v)
      /\ UNCHANGED <<program, alloc, calls, ent, meta, ref, val, open, basicmt,
                     finalized, tmudata, tms>>
  BY HoldsLive, HoldsKinds DEF IInv, GCLoad, Load, CanRun, HeapInv
<1>2. /\ HeapInv'
      /\ \A x \in Obj \ Threads : Refs(x)' = Refs(x)
      /\ \A x \in Threads : Refs(x)' \subseteq Refs(x) \cup Objects({v})
  BY <1>1, PushStep
<1>3. Range(calls)' \cup Objects({basicmt})' \subseteq Live /\ Objects({v}) \subseteq Live
  BY <1>1, HoldsLive DEF Roots, Objects
<1> QED
  BY <1>1, <1>2, <1>3, QuietStep

\* A value leaves the stack.
LEMMA DropKeeps ==
    ASSUME IInv, NEW v, GCDrop(v)
    PROVE  IInv'
<1>1. HeapInv /\ HeldAllocated /\ astep = 0 /\ NoBarrier /\ Drop(v)
  BY HoldsLive DEF IInv, GCDrop, CanRun
<1>2. /\ HeapInv'
      /\ \A x \in Obj \ Threads : Refs(x)' = Refs(x)
      /\ \A x \in Threads : Refs(x)' \subseteq Refs(x)
  BY <1>1, DropStep
<1>3. Range(calls)' \cup Objects({basicmt})' \subseteq Live /\ UNCHANGED <<alloc, open, tmudata>>
  BY <1>1, HoldsLive DEF Roots, Objects, Drop
<1>4. Objects({Nothing}) = {}
  BY DEF Objects
<1> QED
  BY <1>1, <1>2, <1>3, <1>4, QuietStep

\* A finalizer returns.
LEMMA TMReturnsKeeps ==
    ASSUME IInv, NEW u, GCTMReturns(u)
    PROVE  IInv'
<1>1. HeapInv /\ HeldAllocated /\ astep = 0 /\ NoBarrier /\ TMReturns(u)
  BY HoldsLive DEF IInv, GCTMReturns, CanRun
<1>2. /\ HeapInv'
      /\ \A x \in Obj \ Threads : Refs(x)' = Refs(x)
      /\ \A x \in Threads : Refs(x)' \subseteq Refs(x)
  BY <1>1, TMReturnsStep
<1>3. Range(calls)' \cup Objects({basicmt})' \subseteq Live /\ UNCHANGED <<alloc, open, tmudata>>
  BY <1>1, HoldsLive DEF Roots, Objects, TMReturns
<1>4. Objects({Nothing}) = {}
  BY DEF Objects
<1> QED
  BY <1>1, <1>2, <1>3, <1>4, QuietStep

\* lua_setmetatable of a basic type, a root.
LEMMA SetBasicKeeps ==
    ASSUME IInv, NEW m, GCSetBasicMetatable(m)
    PROVE  IInv'
<1>1. HeapInv /\ astep = 0 /\ NoBarrier /\ SetBasicMetatable(m)
  BY DEF IInv, GCSetBasicMetatable, CanRun
<1>2. HeapInv' /\ (\A x \in Obj : Refs(x)' = Refs(x)) /\ (m \in Holds \/ m = Nothing)
  BY <1>1, SetBasicStep
<1>3. Range(calls)' \cup Objects({basicmt})' \subseteq Live /\ UNCHANGED <<alloc, open, tmudata>>
  BY <1>1, <1>2, HoldsLive DEF Roots, Objects, SetBasicMetatable
<1>4. Objects({Nothing}) = {} /\ Threads \subseteq Obj
  BY DEF Objects, Obj
<1> QED
  BY <1>1, <1>2, <1>3, <1>4, QuietStep

\* coroutine.resume.
LEMMA ResumeKeeps ==
    ASSUME IInv, NEW th, NEW v, GCResume(th, v)
    PROVE  IInv'
<1>1. HeapInv /\ HeldAllocated /\ astep = 0 /\ NoBarrier /\ Resume(th, v)
  BY HoldsLive DEF IInv, GCResume, CanRun
<1>2. /\ HeapInv'
      /\ \A x \in Obj \ Threads : Refs(x)' = Refs(x)
      /\ \A x \in Threads : Refs(x)' \subseteq Refs(x) \cup Objects({v})
      /\ Range(calls)' = Range(calls) \cup {th} /\ th \in Holds /\ v \in Locals
  BY <1>1, ResumeStep
<1>3. UNCHANGED <<alloc, open, tmudata, basicmt>>
  BY <1>1 DEF Resume
<1>4. Range(calls)' \cup Objects({basicmt})' \subseteq Live /\ Objects({v}) \subseteq Live
  BY <1>2, <1>3, HoldsLive DEF Roots, Objects
<1> QED
  BY <1>1, <1>2, <1>3, <1>4, QuietStep

\* coroutine.yield.
LEMMA YieldKeeps ==
    ASSUME IInv, NEW v, GCYield(v)
    PROVE  IInv'
<1>1. HeapInv /\ HeldAllocated /\ astep = 0 /\ NoBarrier /\ Yield(v)
  BY HoldsLive DEF IInv, GCYield, CanRun
<1>2. /\ HeapInv'
      /\ \A x \in Obj \ Threads : Refs(x)' = Refs(x)
      /\ \A x \in Threads : Refs(x)' \subseteq Refs(x) \cup Objects({v})
      /\ Range(calls)' \subseteq Range(calls) /\ (v \in Holds \/ v = Nothing)
  BY <1>1, YieldStep
<1>3. UNCHANGED <<alloc, open, tmudata, basicmt>>
  BY <1>1 DEF Yield
<1>4. Range(calls)' \cup Objects({basicmt})' \subseteq Live /\ Objects({v}) \subseteq Live
  BY <1>2, <1>3, HoldsLive DEF Roots, Objects
<1> QED
  BY <1>1, <1>2, <1>3, <1>4, QuietStep

\* OP_CLOSURE over a local variable: the upvalue found may have been dead.
LEMMA MakeClosureKeeps ==
    ASSUME IInv, NEW c, NEW u \in Upvals, GCMakeClosure(c, u)
    PROVE  IInv'
<1>1. HeapInv /\ HeldAllocated /\ astep = 0 /\ MakeClosure(c, u)
  BY HoldsLive DEF IInv, GCMakeClosure, CanRun
<1>2. /\ HeapInv'
      /\ c \in Closures \ alloc /\ alloc' = alloc \cup {c, u}
      /\ u \in Opened(running) \/ u \notin alloc
      /\ open' = [open EXCEPT ![u] = running]
      /\ \A x \in Obj \ (Threads \cup {c, u}) : Refs(x)' = Refs(x)
      /\ Refs(c)' = {u}
      /\ Refs(u)' \subseteq Refs(u) \cup Objects(Locals)
      /\ \A x \in Threads : Refs(x)' \subseteq Refs(x) \cup {c} \cup Objects(Locals)
  BY <1>1, MakeClosureStep
<1> DEFINE N == {c} \cup {x \in {u} : IsDead(u)}
<1>3. c \in Obj /\ u \in Obj /\ c # u /\ IsDead(c) /\ (u \notin alloc => IsDead(u))
  BY <1>2, Kinds DEF IInv, AllLive, Obj
<1>4. mark' = [x \in Obj |-> IF x \in N THEN "white" ELSE mark[x]]
  BY <1>3 DEF IInv, GCTypeOK, GCMakeClosure
<1>5. Live \subseteq Live' /\ c \in Live' /\ u \in Live'
  BY <1>2, <1>3, <1>4 DEF Live, IsDead, IInv, HeapInv, HeapTypeOK
<1>6. Range(calls)' \cup Objects({basicmt})' \subseteq Live'
  BY <1>1, <1>5, HoldsLive DEF Roots, Objects, MakeClosure
<1>7. Refs(u) \subseteq Live
  <2>1. CASE u \notin alloc
    BY <2>1, <1>1, <1>3, FreedRefs
  <2>2. CASE u \in Opened(running)
    <3>1. running \in Threads /\ running \in Live
      BY Running, HoldsLive DEF IInv, HeapInv, Roots
    <3>2. Refs(u) \subseteq Refs(running)
      BY <2>2, <3>1, RefsOf DEF Objects
    <3> QED
      BY <3>1, <3>2, HoldsLive
  <2> QED
    BY <1>2, <2>1, <2>2
<1>8. \A x \in N : IsDead(x) /\ x \in alloc' /\ Refs(x)' \subseteq Live'
  BY <1>2, <1>3, <1>5, <1>7, HoldsLive
<1>9. \A x \in Obj \ (Threads \cup N) : Refs(x)' \subseteq Refs(x)
  <2>1. u \notin N => Refs(u)' = Refs(u)
    <3> SUFFICES ASSUME u \notin N
                 PROVE  Refs(u)' = Refs(u)
      OBVIOUS
    <3>1. u \in alloc
      BY <1>3
    <3>2. val' = val
      BY <1>1, <3>1 DEF MakeClosure
    <3> QED
      BY <3>2, RefsOf, RefsOfNext DEF Objects
  <2> QED
    BY <2>1, <1>2
<1>10. \A x \in Threads : Refs(x)' \subseteq Refs(x) \cup Live'
  BY <1>2, <1>5, HoldsLive
<1>11. \A w \in Upvals \ N : open'[w] = open[w]
  BY <1>2, <1>3 DEF Opened, IInv, HeapInv, HeapTypeOK
<1>12. UNCHANGED <<tmudata, gcstate, astep, gray, grayagain, weak, strsize, sweepstr, unswept, full>>
  BY <1>1 DEF GCMakeClosure, MakeClosure
<1>13. alloc \subseteq alloc' /\ alloc' \subseteq alloc \cup N
  BY <1>2, <1>3
<1> HIDE DEF N
<1> QED
  BY <1>1, <1>2, <1>4, <1>6, <1>8, <1>9, <1>10, <1>11, <1>12, <1>13, CalmStep

\* OP_CLOSURE over an upvalue of the running function.
LEMMA ShareUpvalueKeeps ==
    ASSUME IInv, NEW c, NEW d, NEW u, GCShareUpvalue(c, d, u)
    PROVE  IInv'
<1>1. HeapInv /\ HeldAllocated /\ astep = 0 /\ ShareUpvalue(c, d, u)
  BY HoldsLive DEF IInv, GCShareUpvalue, CanRun
<1>2. /\ HeapInv'
      /\ c \in Closures \ alloc /\ alloc' = alloc \cup {c}
      /\ d \in Holds \cap Closures /\ u \in Refs(d)
      /\ \A x \in Obj \ (Threads \cup {c}) : Refs(x)' = Refs(x)
      /\ Refs(c)' = {u}
      /\ \A x \in Threads : Refs(x)' \subseteq Refs(x) \cup {c}
  BY <1>1, ShareUpvalueStep
<1>3. c \in Obj /\ IsDead(c) /\ u \in Live
  BY <1>2, HoldsLive DEF IInv, AllLive, Obj
<1> DEFINE N == {c}
<1>4. mark' = [x \in Obj |-> IF x \in N THEN "white" ELSE mark[x]]
  BY <1>3 DEF IInv, GCTypeOK, GCShareUpvalue
<1>5. Live \subseteq Live' /\ c \in Live'
  BY <1>2, <1>3, <1>4 DEF Live, IsDead, IInv, HeapInv, HeapTypeOK
<1>6. Range(calls)' \cup Objects({basicmt})' \subseteq Live'
  BY <1>1, <1>5, HoldsLive DEF Roots, Objects, ShareUpvalue
<1>7. UNCHANGED <<open, tmudata, gcstate, astep, gray, grayagain, weak, strsize, sweepstr, unswept, full>>
  BY <1>1 DEF GCShareUpvalue, ShareUpvalue
<1>8. /\ \A x \in N : IsDead(x) /\ x \in alloc' /\ Refs(x)' \subseteq Live'
      /\ alloc \subseteq alloc' /\ alloc' \subseteq alloc \cup N
      /\ \A x \in Obj \ (Threads \cup N) : Refs(x)' \subseteq Refs(x)
      /\ \A x \in Threads : Refs(x)' \subseteq Refs(x) \cup Live'
  BY <1>2, <1>3, <1>5
<1>9. strsize' = strsize
  BY DEF GCShareUpvalue
<1> HIDE DEF N
<1> QED
  BY <1>1, <1>2, <1>4, <1>6, <1>7, <1>8, <1>9, CalmStep

-----------------------------------------------------------------------------
\* reallymarkobject marks white objects only, all of those it is given, and what
\* the userdata and the upvalues among them refer to.
LEMMA MarkedWithFacts ==
    ASSUME HeapTypeOK, NEW S \in SUBSET alloc, \A o \in alloc : Refs(o) \subseteq alloc
    PROVE  /\ MarkedWith(S) \subseteq alloc
           /\ \A o \in MarkedWith(S) : IsWhite(o)
           /\ \A o \in S : IsWhite(o) => o \in MarkedWith(S)
           /\ \A o \in MarkedWith(S) \cap (Udata \cup Upvals) :
                 \A v \in Refs(o) : IsWhite(v) => v \in MarkedWith(S)
           /\ S \subseteq Values => MarkedWith(S) \subseteq Values
<1> DEFINE A == White(S)
           B == A \cup UNION {MarksAtOnce(o) : o \in A}
           M == B \cup UNION {MarksAtOnce(o) : o \in B}
<1>1. MarkedWith(S) = M
  BY DEF MarkedWith
<1>2. A \subseteq alloc /\ (\A o \in A : IsWhite(o)) /\ \A o \in S : IsWhite(o) => o \in A
  BY DEF White
<1>3. alloc \subseteq Obj
  BY DEF HeapTypeOK
<1>4. ASSUME NEW o \in alloc
      PROVE  /\ MarksAtOnce(o) \subseteq alloc
             /\ \A v \in MarksAtOnce(o) : IsWhite(v)
             /\ o \in Udata \cup Upvals =>
                   /\ \A v \in Refs(o) : IsWhite(v) => v \in MarksAtOnce(o)
                   /\ MarksAtOnce(o) \subseteq Values
             /\ o \in Udata => MarksAtOnce(o) \subseteq Tables
             /\ o \notin Udata \cup Upvals => MarksAtOnce(o) = {}
  BY <1>3, RefsKinds, Kinds DEF MarksAtOnce, White
<1>5. B \subseteq alloc /\ M \subseteq alloc
  BY <1>2, <1>4
<1>6. (\A o \in B : IsWhite(o)) /\ (\A o \in M : IsWhite(o))
  BY <1>2, <1>4, <1>5
<1>7. \A o \in S : IsWhite(o) => o \in M
  BY <1>2
<1>8. ASSUME NEW o \in M \cap (Udata \cup Upvals), NEW v \in Refs(o), IsWhite(v)
      PROVE  v \in M
  <2>1. v \in MarksAtOnce(o)
    BY <1>4, <1>5, <1>8
  <2>2. CASE o \in B
    BY <2>1, <2>2
  <2>3. CASE o \notin B
    <3>1. PICK p \in B : o \in MarksAtOnce(p)
      BY <2>3, <1>8
    <3>2. p \in Upvals /\ o \in Udata
      BY <3>1, <1>4, <1>5, <1>8, Kinds DEF Values
    <3>3. p \notin A
      BY <2>3, <3>1
    <3>4. PICK q \in A : p \in MarksAtOnce(q)
      BY <3>3, <3>1
    <3>5. p \in Values
      BY <3>4, <1>2, <1>4
    <3> QED
      BY <3>2, <3>5 DEF Values
  <2> QED
    BY <2>2, <2>3
<1>9. ASSUME S \subseteq Values
      PROVE  M \subseteq Values
  <2>1. A \subseteq Values
    BY <1>9 DEF White
  <2>2. \A o \in alloc : MarksAtOnce(o) \subseteq Values
    BY <1>4
  <2> QED
    BY <2>1, <2>2, <1>2, <1>5
<1> HIDE DEF A, B, M
<1> QED
  BY <1>1, <1>5, <1>6, <1>7, <1>8, <1>9

\* What becomes of the marks.
LEMMA MarkedFacts ==
    ASSUME HeapTypeOK, NEW S \in SUBSET alloc, NEW B, NEW W,
           \A o \in alloc : Refs(o) \subseteq alloc, mark' = Marked(S, B, W)
    PROVE  /\ \A o \in Obj : ~IsWhite(o) => ~IsWhite(o)'
           /\ \A o \in Obj : IsDead(o)' => IsDead(o)
           /\ \A o \in S : ~IsWhite(o)'
           /\ \A o \in MarkedWith(S) :
                 /\ mark'[o] = MarkColor(o)
                 /\ o \in Udata \cup Upvals => \A v \in Refs(o) : ~IsWhite(v)'
           /\ \A o \in Obj \ MarkedWith(S) :
                 mark'[o] = IF o \in W THEN "gray" ELSE IF o \in B THEN "black" ELSE mark[o]
<1> DEFINE M == MarkedWith(S)
<1>1. /\ M \subseteq alloc
      /\ \A o \in M : IsWhite(o)
      /\ \A o \in S : IsWhite(o) => o \in M
      /\ \A o \in M \cap (Udata \cup Upvals) : \A v \in Refs(o) : IsWhite(v) => v \in M
  BY MarkedWithFacts
<1>2. alloc \subseteq Obj
  BY DEF HeapTypeOK
<1> HIDE DEF M
<1>3. \A o \in Obj : mark'[o] = IF o \in M THEN MarkColor(o) ELSE IF o \in W THEN "gray"
                                ELSE IF o \in B THEN "black" ELSE mark[o]
  BY DEF Marked, M
<1>4. \A o \in Obj : MarkColor(o) \in {"gray", "black"}
  BY DEF MarkColor
<1>5. \A o \in Obj : ~IsWhite(o) => ~IsWhite(o)'
  BY <1>3, <1>4 DEF IsWhite, Whites
<1>6. \A o \in M : ~IsWhite(o)'
  BY <1>1, <1>2, <1>3, <1>4 DEF IsWhite, Whites
<1>7. \A o \in S : ~IsWhite(o)'
  BY <1>1, <1>2, <1>5, <1>6
<1>8. ASSUME NEW o \in M, o \in Udata \cup Upvals, NEW v \in Refs(o)
      PROVE  ~IsWhite(v)'
  BY <1>1, <1>2, <1>5, <1>6, <1>8
<1>9. \A o \in Obj : IsDead(o)' => IsDead(o)
  BY <1>3, <1>4 DEF IsDead
<1> QED
  BY <1>1, <1>2, <1>3, <1>5, <1>7, <1>8, <1>9 DEF M

\* In the mark phase everything with memory is live.
LEMMA PropagateLive ==
    ASSUME IInv, gcstate = "propagate"
    PROVE  /\ HeapTypeOK /\ Live = alloc /\ alloc \subseteq Obj
           /\ \A o \in alloc : Refs(o) \subseteq alloc /\ Strong(o) \subseteq Refs(o)
<1>1. Live = alloc
  BY DEF IInv, AllLive, Live
<1> QED
  BY <1>1, HoldsLive, StrongRefs DEF IInv, HeapInv, HeapTypeOK

\* More objects are marked while marking; the upvalues of B turn black.
LEMMA MarkMore ==
    ASSUME IInv, gcstate = "propagate", NEW S \in SUBSET alloc,
           NEW B, B \subseteq {u \in Upvals \cap alloc : IsGray(u)},
           mark' = Marked(S, B, {}), gray' = gray \cup NewGray(S),
           UNCHANGED <<grayagain, weak, gcstate, alloc>>
    PROVE  /\ mark' \in [Obj -> Whites \cup {"gray", "black"}]
           /\ gray' \subseteq Tables \cup Closures \cup Threads /\ OneListOnly' /\ AllLive'
           /\ \A o \in Udata : ~IsGray(o)'
           /\ \A o \in Threads \cup Strings : ~IsBlack(o)'
           /\ \A o \in Upvals : /\ IsGray(o)' => open[o] # Nothing /\ o \notin B
                                /\ IsBlack(o)' => open[o] = Nothing \/ o \in B
           /\ \A o \in alloc \ tmudata :
                 IsBlack(o)' => o \in B \/ \A v \in Refs(o) : ~IsWhite(v)'
<1> DEFINE M == MarkedWith(S)
<1>1. HeapTypeOK /\ alloc \subseteq Obj /\ \A o \in alloc : Refs(o) \subseteq alloc
  BY PropagateLive
<1>2. M \subseteq alloc /\ \A o \in M : IsWhite(o)
  BY <1>1, MarkedWithFacts
<1>3. /\ \A o \in Obj : ~IsWhite(o) => ~IsWhite(o)'
      /\ \A o \in Obj : IsDead(o)' => IsDead(o)
      /\ \A o \in M : /\ mark'[o] = MarkColor(o)
                      /\ o \in Udata \cup Upvals => \A v \in Refs(o) : ~IsWhite(v)'
      /\ \A o \in Obj \ M : mark'[o] = IF o \in B THEN "black" ELSE mark[o]
  BY <1>1, MarkedFacts
<1> HIDE DEF M
<1>4. mark' \in [Obj -> Whites \cup {"gray", "black"}]
  BY DEF Marked, MarkColor, IInv, GCTypeOK, Whites
<1>5. NewGray(S) = {o \in M : Listed(o)}
  BY DEF NewGray, M
<1>6. \A o \in M : Listed(o) => mark'[o] = "gray"
  BY <1>3, Kinds DEF MarkColor, Listed
<1>7. gray' \subseteq Tables \cup Closures \cup Threads
  BY <1>5 DEF IInv, Marking, Listed
<1>8. OneListOnly'
  <2>1. OneListOnly
    BY DEF IInv, Marking
  <2>2. \A o \in gray \cup grayagain \cup weak : o \notin M /\ o \notin B /\ o \in Obj
    BY <2>1, <1>1, <1>2, <1>7, Kinds
       DEF OneListOnly, IsGray, IsWhite, Whites, IInv, Marking, GCTypeOK
  <2>3. \A o \in gray' \cup grayagain' \cup weak' : o \in alloc' /\ IsGray(o)'
    BY <2>1, <2>2, <1>2, <1>3, <1>5, <1>6 DEF OneListOnly, IsGray
  <2>4. gray' \cap grayagain' = {} /\ gray' \cap weak' = {} /\ grayagain' \cap weak' = {}
    BY <2>1, <2>2, <1>5 DEF OneListOnly
  <2>5. ASSUME NEW o \in alloc', IsGray(o)', Listed(o)
        PROVE  o \in gray' \cup grayagain' \cup weak'
    <3>1. CASE o \in M
      BY <3>1, <2>5, <1>5
    <3>2. CASE o \notin M
      <4>1. IsGray(o)
        BY <3>2, <2>5, <1>1, <1>3 DEF IsGray
      <4> QED
        BY <4>1, <2>1, <2>5 DEF OneListOnly
    <3> QED
      BY <3>1, <3>2
  <2>6. \A o : Listed(o)' = Listed(o)
    BY DEF Listed
  <2> QED
    BY <2>3, <2>4, <2>5, <2>6 DEF OneListOnly
<1>9. AllLive'
  <2>1. \A o \in Obj \ alloc : IsDead(o)'
    BY <1>2, <1>3, <1>1 DEF IInv, AllLive, IsDead, IsGray
  <2> QED
    BY <2>1, <1>1, <1>3 DEF IInv, AllLive
<1>10. ASSUME NEW o \in Obj
       PROVE  /\ o \in Udata => ~IsGray(o)'
              /\ o \in Threads \cup Strings => ~IsBlack(o)'
              /\ o \in Upvals => /\ IsGray(o)' => open[o] # Nothing /\ o \notin B
                                 /\ IsBlack(o)' => open[o] = Nothing \/ o \in B
  <2>1. CASE o \in M
    BY <2>1, <1>2, <1>3, Kinds DEF MarkColor, IsGray, IsBlack, IsWhite, Whites
  <2>2. CASE o \notin M
    BY <2>2, <1>3, Kinds DEF IInv, Colours, IsGray, IsBlack
  <2> QED
    BY <2>1, <2>2
<1>11. ASSUME NEW o \in alloc \ tmudata, IsBlack(o)', o \notin B
       PROVE  \A v \in Refs(o) : ~IsWhite(v)'
  <2>1. CASE o \in M
    <3>1. o \in Udata \cup Upvals
      BY <2>1, <1>3, <1>11 DEF MarkColor, IsBlack
    <3> QED
      BY <2>1, <3>1, <1>3
  <2>2. CASE o \notin M
    <3>1. IsBlack(o)
      BY <2>2, <1>1, <1>3, <1>11 DEF IsBlack
    <3>2. Colored(Refs(o)) /\ Refs(o) \subseteq Obj
      BY <3>1, <1>1, <1>11 DEF IInv, Marking
    <3> QED
      BY <3>2, <1>3 DEF Colored
  <2> QED
    BY <2>1, <2>2
<1>12. Udata \subseteq Obj /\ Upvals \subseteq Obj /\ Threads \cup Strings \subseteq Obj
  BY DEF Obj
<1> QED
  BY <1>4, <1>7, <1>8, <1>9, <1>10, <1>11, <1>12

-----------------------------------------------------------------------------
(* The calls with a barrier.                                                 *)

\* Where the references that change are to live objects none dangles.
LEMMA StoreStep ==
    ASSUME IInv, HeapInv', NEW o \in Live, NEW S \in SUBSET Live,
           UNCHANGED <<alloc, calls, basicmt, tmudata, gcstate>>,
           \A x \in Obj \ (Threads \cup {o}) : Refs(x)' = Refs(x),
           \A x \in Threads \cup {o} : Refs(x)' \subseteq Refs(x) \cup S,
           \A x \in Obj : IsDead(x)' <=> IsDead(x)
    PROVE  NoDangling' /\ AllLive'
<1>1. alloc \subseteq Obj
  BY DEF IInv, HeapInv, HeapTypeOK
<1>2. Live' = Live
  BY <1>1 DEF Live
<1>3. Roots' = Roots
  BY DEF Roots, Objects
<1>4. AllLive'
  BY <1>1 DEF IInv, AllLive
<1>5. \A x \in Live : Refs(x)' \subseteq Live
  BY <1>1, HoldsLive DEF Live
<1> QED
  BY <1>2, <1>3, <1>4, <1>5, HoldsLive DEF NoDangling, Live

\* luaC_barrierback: a black table that is given a white object is gray again.
LEMMA BackStep ==
    ASSUME IInv, astep = 0, HeapInv', NEW t \in Tables \cap Live, NEW S \in SUBSET Live,
           BarrierBack(t, S),
           UNCHANGED <<alloc, calls, basicmt, open, tmudata>>,
           \A x \in Obj \ {t} : Refs(x)' = Refs(x), Refs(t)' \subseteq Refs(t) \cup S
    PROVE  IInv'
<1>1. /\ UNCHANGED <<gcstate, astep, gray, weak, strsize, sweepstr, unswept, full>>
      /\ t \in Obj /\ t \in alloc /\ t \notin Threads \cup Strings \cup Udata \cup Upvals
  BY Kinds DEF BarrierBack, Live, Obj
<1> DEFINE regray == IsBlack(t) /\ White(S) # {}
<1>2. /\ mark' \in [Obj -> Whites \cup {"gray", "black"}]
      /\ \A x \in Obj : mark'[x] = IF regray /\ x = t THEN "gray" ELSE mark[x]
      /\ grayagain' = IF regray THEN grayagain \cup {t} ELSE grayagain
  BY <1>1 DEF IInv, GCTypeOK, BarrierBack, Whites
<1>3. ~regray /\ IsBlack(t) => Colored(S)
  BY DEF White, Colored
<1>4. regray => IsBlack(t)
  OBVIOUS
<1> HIDE DEF regray
<1>5. \A x \in Obj : (IsDead(x)' <=> IsDead(x)) /\ (IsWhite(x)' <=> IsWhite(x))
  BY <1>2, <1>4 DEF IsDead, IsWhite, IsBlack, Whites
<1>6. NoDangling' /\ AllLive'
  <2>1. \A x \in Threads \cup {t} : Refs(x)' \subseteq Refs(x) \cup S
    BY <1>1 DEF Obj
  <2> QED
    BY <2>1, <1>1, <1>5, StoreStep
<1>7. GCTypeOK'
  BY <1>1, <1>2 DEF IInv, GCTypeOK
<1>8. Colours'
  BY <1>1, <1>2, Kinds DEF IInv, Colours, IsGray, IsBlack, Obj
<1>9. Marking'
  <2> SUFFICES ASSUME gcstate = "propagate"
               PROVE  Marking'
    BY <1>1 DEF Marking
  <2>1. alloc \subseteq Obj /\ \A x \in alloc : Refs(x) \subseteq alloc
    BY PropagateLive
  <2>2. ASSUME NEW x \in alloc \ tmudata, IsBlack(x)'
        PROVE  Colored(Refs(x))'
    <3>1. IsBlack(x) /\ x \in Obj /\ Colored(Refs(x)) /\ (x = t => Colored(S))
      BY <2>1, <2>2, <1>2, <1>3 DEF IInv, Marking, IsBlack
    <3>2. \A v \in Refs(x)' : ~IsWhite(v) /\ v \in Obj
      BY <2>1, <3>1, <2>2 DEF Colored, Live
    <3> QED
      BY <3>2, <1>5 DEF Colored
  <2>3. Colored({Main, Registry})'
    BY <1>5, Kinds DEF IInv, Marking, Colored, Obj
  <2>4. OneListOnly'
    BY <2>1, <1>1, <1>2, <1>4 DEF IInv, GCTypeOK, Marking, OneListOnly, IsGray, IsBlack, Listed
  <2> QED
    BY <2>2, <2>3, <2>4, <1>1, <1>2 DEF IInv, Marking
<1>10. Sweeping'
  <2>1. regray => /\ gcstate \notin {"finalize", "pause"}
                  /\ gcstate \in {"sweepstring", "sweep"} => t \in unswept
    BY <1>1, <1>4, Kinds DEF IInv, HeapInv, HeapTypeOK, Sweeping, SweptClean, IsBlack
  <2>2. HeapTypeOK
    BY DEF IInv, HeapInv
  <2> QED
    BY <2>1, <2>2, <1>1, <1>2 DEF IInv, Sweeping, SweptClean, Bucket, HeapTypeOK
<1> QED
  BY <1>6, <1>7, <1>8, <1>9, <1>10 DEF IInv

\* luaC_barrierf: the object is marked, or its owner turns white.
LEMMA ForwardStep ==
    ASSUME IInv, astep = 0, HeapInv', NEW o \in (Udata \cup Upvals) \cap Live,
           NEW v, Objects({v}) \subseteq Live, BarrierForward(o, v),
           UNCHANGED <<alloc, calls, basicmt, open, tmudata>>,
           \A x \in Obj \ (Threads \cup {o}) : Refs(x)' = Refs(x),
           \A x \in Threads \cup {o} : Refs(x)' \subseteq Refs(x) \cup Objects({v})
    PROVE  IInv'
<1>1. /\ UNCHANGED <<gcstate, astep, grayagain, weak, strsize, sweepstr, unswept, full>>
      /\ o \in Obj /\ o \in alloc /\ o \notin Threads \cup Strings \cup Tables
  BY Kinds DEF BarrierForward, Live, Obj
<1>2. HeapTypeOK /\ alloc \subseteq Obj
  BY DEF IInv, HeapInv, HeapTypeOK
<1>3. CASE ~(v \in Obj /\ IsBlack(o) /\ v \in White({v}))
  <2>1. mark' = mark /\ gray' = gray
    BY <1>3 DEF BarrierForward
  <2>2. IsBlack(o) => Colored(Objects({v}))
    BY <1>2, <1>3 DEF Colored, Objects, White, Live
  <2>3. NoDangling' /\ AllLive'
    <3>1. \A x \in Obj : IsDead(x)' <=> IsDead(x)
      BY <2>1 DEF IsDead
    <3> QED
      BY <1>1, <3>1, StoreStep
  <2>4. GCTypeOK' /\ Colours'
    BY <2>1, <1>1 DEF IInv, GCTypeOK, Colours, IsGray, IsBlack
  <2>5. Sweeping'
    BY <2>1, <1>1 DEF IInv, Sweeping, SweptClean, Bucket
  <2>6. Marking'
    <3> SUFFICES ASSUME gcstate = "propagate"
                 PROVE  Marking'
      BY <1>1 DEF Marking
    <3>1. ASSUME NEW x \in alloc \ tmudata, IsBlack(x)
          PROVE  Colored(Refs(x))'
      <4>1. x \notin Threads /\ x \in Obj /\ Colored(Refs(x)) /\ (x = o => Colored(Objects({v})))
        BY <2>2, <3>1, <1>2 DEF IInv, Colours, Marking
      <4>2. \A w \in Refs(x)' : ~IsWhite(w)
        BY <4>1 DEF Colored
      <4> QED
        BY <4>2, <2>1 DEF Colored, IsWhite
    <3> QED
      BY <3>1, <2>1, <1>1 DEF IInv, Marking, OneListOnly, Colored, IsWhite, IsBlack, IsGray, Listed
  <2> QED
    BY <2>3, <2>4, <2>5, <2>6 DEF IInv
<1>4. CASE v \in Obj /\ IsBlack(o) /\ v \in White({v}) /\ gcstate = "propagate"
  <2>1. mark' = Marked({v}, {}, {}) /\ gray' = gray \cup NewGray({v})
    BY <1>4 DEF BarrierForward
  <2>2. v \in Live /\ Objects({v}) = {v} /\ {v} \in SUBSET alloc
    BY <1>4, Kinds DEF Objects, Live
  <2>3. \A x \in alloc : Refs(x) \subseteq alloc
    BY <1>4, PropagateLive
  <2>4. /\ mark' \in [Obj -> Whites \cup {"gray", "black"}]
        /\ gray' \subseteq Tables \cup Closures \cup Threads /\ OneListOnly' /\ AllLive'
        /\ \A x \in Udata : ~IsGray(x)'
        /\ \A x \in Threads \cup Strings : ~IsBlack(x)'
        /\ \A x \in Upvals : (IsGray(x)' => open[x] # Nothing) /\ (IsBlack(x)' => open[x] = Nothing)
        /\ \A x \in alloc \ tmudata : IsBlack(x)' => \A w \in Refs(x) : ~IsWhite(w)'
    <3>1. {} \subseteq {u \in Upvals \cap alloc : IsGray(u)}
      OBVIOUS
    <3>2. UNCHANGED <<grayagain, weak, gcstate, alloc>>
      BY <1>1
    <3> QED
      BY <1>4, <2>1, <2>2, <3>1, <3>2, MarkMore
  <2>5. /\ \A x \in Obj : ~IsWhite(x) => ~IsWhite(x)'
        /\ \A x \in {v} : ~IsWhite(x)'
    BY <1>2, <2>1, <2>2, <2>3, MarkedFacts
  <2>6. NoDangling'
    <3>1. Live = alloc /\ Live' = alloc
      BY <1>1, <1>4, <2>4 DEF IInv, AllLive, Live
    <3>2. Roots' = Roots
      BY DEF Roots, Objects
    <3>3. \A x \in alloc : Refs(x)' \subseteq alloc
      BY <1>2, <2>2, <2>3
    <3> QED
      BY <3>1, <3>2, <3>3, HoldsLive DEF NoDangling, Live
  <2>7. GCTypeOK'
    BY <2>4, <1>1 DEF IInv, GCTypeOK, Obj
  <2>8. Colours'
    BY <2>4 DEF Colours
  <2>9. Marking'
    <3>1. ASSUME NEW x \in alloc \ tmudata, IsBlack(x)'
          PROVE  Colored(Refs(x))'
      <4>1. x \notin Threads /\ x \in Obj
        BY <2>4, <3>1, <1>2
      <4>2. \A w \in Refs(x)' : w \in Refs(x) \/ w = v
        BY <4>1, <2>2
      <4> QED
        BY <2>4, <2>5, <3>1, <4>2 DEF Colored
    <3>2. Colored({Main, Registry})'
      BY <2>5, <1>4, Kinds DEF IInv, Marking, Colored, Obj
    <3> QED
      BY <3>1, <3>2, <2>4, <1>1, <1>4 DEF IInv, Marking
  <2>10. Sweeping'
    BY <1>1, <1>4 DEF IInv, Sweeping, SweptClean
  <2> QED
    BY <2>4, <2>6, <2>7, <2>8, <2>9, <2>10 DEF IInv
<1>5. CASE v \in Obj /\ IsBlack(o) /\ v \in White({v}) /\ gcstate # "propagate"
  <2>1. mark' = [mark EXCEPT ![o] = "white"] /\ gray' = gray
    BY <1>5 DEF BarrierForward
  <2>2. /\ mark' \in [Obj -> Whites \cup {"gray", "black"}]
        /\ \A x \in Obj : mark'[x] = IF x = o THEN "white" ELSE mark[x]
    BY <2>1, <1>1 DEF IInv, GCTypeOK, Whites
  <2>3. NoDangling' /\ AllLive'
    <3>1. \A x \in Obj : IsDead(x)' <=> IsDead(x)
      BY <2>2, <1>5 DEF IsDead, IsBlack
    <3> QED
      BY <1>1, <3>1, StoreStep
  <2>4. GCTypeOK'
    BY <2>1, <2>2, <1>1 DEF IInv, GCTypeOK
  <2>5. Colours'
    BY <2>2, Kinds DEF IInv, Colours, IsGray, IsBlack, Obj
  <2>6. Sweeping'
    BY <2>2, <1>1, <1>2 DEF IInv, Sweeping, SweptClean, Bucket
  <2>7. Marking'
    BY <1>1, <1>5 DEF Marking
  <2> QED
    BY <2>3, <2>4, <2>5, <2>6, <2>7 DEF IInv
<1> QED
  BY <1>3, <1>4, <1>5

\* luaH_set and its barriers.
LEMMA SetEntryKeeps ==
    ASSUME IInv, NEW t, NEW k, NEW v, GCSetEntry(t, k, v)
    PROVE  IInv'
<1> DEFINE S == Objects({v} \cup (IF k \in KeysOf(t) \/ v = Nothing THEN {} ELSE {k}))
<1>1. HeapInv /\ HeldAllocated /\ astep = 0 /\ SetEntry(t, k, v) /\ BarrierBack(t, S)
  BY HoldsLive DEF IInv, GCSetEntry, CanRun
<1>2. /\ HeapInv'
      /\ t \in Holds \cap Tables /\ k \in Holds \cup {Nothing} /\ v \in Holds \cup {Nothing}
      /\ \A x \in Obj \ {t} : Refs(x)' = Refs(x)
      /\ Refs(t)' \subseteq Refs(t) \cup S
  BY <1>1, SetEntryStep
<1>3. S \subseteq Live /\ t \in Tables \cap Live
  BY <1>2, HoldsLive DEF Objects
<1>4. UNCHANGED <<alloc, calls, basicmt, open, tmudata>>
  BY <1>1 DEF SetEntry
<1> HIDE DEF S
<1> QED
  BY <1>1, <1>2, <1>3, <1>4, BackStep

\* lua_setmetatable of a table or of a userdata.
LEMMA SetMetatableKeeps ==
    ASSUME IInv, NEW o, NEW m, GCSetMetatable(o, m)
    PROVE  IInv'
<1>1. HeapInv /\ HeldAllocated /\ astep = 0 /\ SetMetatable(o, m)
  BY HoldsLive DEF IInv, GCSetMetatable, CanRun
<1>2. /\ HeapInv'
      /\ o \in Holds \cap (Tables \cup Udata) /\ m \in (Holds \cap Tables) \cup {Nothing}
      /\ \A x \in Obj \ {o} : Refs(x)' = Refs(x)
      /\ Refs(o)' \subseteq Refs(o) \cup Objects({m})
  BY <1>1, SetMetatableStep
<1>3. Objects({m}) \subseteq Live /\ o \in Live
  BY <1>2, HoldsLive DEF Objects
<1>4. UNCHANGED <<alloc, calls, basicmt, open, tmudata>>
  BY <1>1 DEF SetMetatable
<1>5. CASE o \in Tables
  <2>1. BarrierBack(o, Objects({m}))
    BY <1>5 DEF GCSetMetatable
  <2> QED
    BY <1>1, <1>2, <1>3, <1>4, <1>5, <2>1, BackStep
<1>6. CASE o \notin Tables
  <2>1. BarrierForward(o, m) /\ o \in (Udata \cup Upvals) \cap Live
    BY <1>2, <1>3, <1>6 DEF GCSetMetatable
  <2>2. \A x \in Threads \cup {o} : Refs(x)' \subseteq Refs(x) \cup Objects({m})
    BY <1>2 DEF Obj
  <2> QED
    BY <1>1, <1>2, <1>3, <1>4, <2>1, <2>2, ForwardStep
<1> QED
  BY <1>5, <1>6

\* OP_SETUPVAL.
LEMMA SetUpvalueKeeps ==
    ASSUME IInv, NEW c, NEW u, NEW v, GCSetUpvalue(c, u, v)
    PROVE  IInv'
<1>1. HeapInv /\ HeldAllocated /\ astep = 0 /\ SetUpvalue(c, u, v) /\ BarrierForward(u, v)
  BY HoldsLive DEF IInv, GCSetUpvalue, CanRun
<1>2. c \in Holds \cap Closures /\ u \in ref[c]
  BY <1>1 DEF SetUpvalue
<1>3. u \in Live /\ u \in alloc
  <2>1. u \in Refs(c) /\ c \in Live
    BY <1>2, RefsKinds, HoldsLive DEF IInv, HeapInv, Obj
  <2> QED
    BY <2>1, HoldsLive DEF Live
<1>4. /\ HeapInv'
      /\ u \in Upvals /\ v \in Locals
      /\ \A x \in Obj \ (Threads \cup {u}) : Refs(x)' = Refs(x)
      /\ Refs(u)' \subseteq Objects({v})
      /\ \A x \in Threads : Refs(x)' \subseteq Refs(x) \cup Objects({v})
  BY <1>1, <1>3, SetUpvalueStep
<1>5. Objects({v}) \subseteq Live
  BY <1>4, HoldsLive DEF Objects
<1>6. UNCHANGED <<alloc, calls, basicmt, open, tmudata>>
  BY <1>1 DEF SetUpvalue
<1>7. \A x \in Threads \cup {u} : Refs(x)' \subseteq Refs(x) \cup Objects({v})
  BY <1>4
<1> QED
  BY <1>1, <1>3, <1>4, <1>5, <1>6, <1>7, ForwardStep

\* luaF_close: a dead upvalue of the running thread goes, a gray one becomes an
\* object that needs barriers.
LEMMA CloseUpvaluesKeeps ==
    ASSUME IInv, GCCloseUpvalues
    PROVE  IInv'
<1> DEFINE mine == Opened(running)
           dead == {u \in mine : IsDead(u)}
           closed == {u \in mine : IsGray(u)}
           S == Objects({val[u] : u \in closed})
<1>1. /\ HeapInv /\ HeldAllocated /\ astep = 0 /\ CloseAllBut(dead)
      /\ IF gcstate = "propagate"
         THEN mark' = Marked(S, closed, {}) /\ gray' = gray \cup NewGray(S)
         ELSE mark' = [o \in Obj |-> IF o \in closed THEN "white" ELSE mark[o]] /\ gray' = gray
      /\ unswept' = unswept \ dead
      /\ UNCHANGED <<gcstate, astep, grayagain, weak, strsize, sweepstr, full>>
  BY HoldsLive DEF IInv, GCCloseUpvalues, CanRun
<1>2. /\ HeapInv' /\ alloc' = alloc \ dead
      /\ \A u \in Upvals : open'[u] = IF u \in mine THEN Nothing ELSE open[u]
      /\ \A x \in Obj \ (Threads \cup dead) : Refs(x)' = Refs(x)
      /\ \A x \in Threads : Refs(x)' \subseteq Refs(x)
  BY <1>1, CloseStep
<1>3. /\ mine \subseteq Upvals \cap alloc /\ closed \subseteq mine /\ dead \subseteq mine
      /\ mine \cap (Threads \cup Strings \cup Tables \cup Udata \cup Closures) = {}
      /\ \A u \in mine : open[u] # Nothing
  BY Running, Kinds DEF Opened, IInv, HeapInv, Obj
<1>4. S \subseteq Live /\ \A u \in closed : Refs(u) \subseteq S
  <2>1. \A u \in closed : Refs(u) = Objects({val[u]}) /\ u \in Live
    BY <1>3, RefsOf DEF Live, IsGray, IsDead
  <2> QED
    BY <2>1, HoldsLive DEF Objects
<1>5. alloc \subseteq Obj /\ HeapTypeOK
  BY DEF IInv, HeapInv, HeapTypeOK
<1>6. UNCHANGED <<calls, basicmt, tmudata>>
  BY <1>1 DEF CloseAllBut
<1>7. closed \subseteq {u \in Upvals \cap alloc : IsGray(u)}
  BY <1>3
<1>8. gcstate = "propagate" =>
         /\ S \in SUBSET alloc /\ \A o \in alloc : Refs(o) \subseteq alloc /\ ~IsDead(o)
         /\ dead = {} /\ mark' = Marked(S, closed, {}) /\ gray' = gray \cup NewGray(S)
         /\ S \subseteq Values
  <2>1. S \subseteq Values
    BY <1>3, <1>5, Kinds DEF HeapTypeOK, Objects
  <2> QED
    BY <1>1, <1>3, <1>4, <2>1, PropagateLive DEF Live
<1> HIDE DEF closed, S
<1>9. ASSUME gcstate = "propagate"
      PROVE  /\ \A o \in Obj : ~IsWhite(o) => ~IsWhite(o)'
             /\ \A o \in Obj : IsDead(o)' => IsDead(o)
             /\ \A o \in S : ~IsWhite(o)'
             /\ \A o \in mine : mark'[o] = IF o \in closed THEN "black" ELSE mark[o]
  <2>1. /\ MarkedWith(S) \subseteq alloc /\ MarkedWith(S) \subseteq Values
    BY <1>5, <1>8, <1>9, MarkedWithFacts
  <2>2. mine \cap Values = {} /\ mine \subseteq Obj
    BY <1>3, <1>5 DEF Values
  <2> DEFINE W == {}
  <2>3. mark' = Marked(S, closed, W) /\ \A o \in alloc : Refs(o) \subseteq alloc
    BY <1>8, <1>9
  <2>4. \A o : o \notin W
    OBVIOUS
  <2> HIDE DEF W
  <2>5. /\ \A o \in Obj : ~IsWhite(o) => ~IsWhite(o)'
        /\ \A o \in Obj : IsDead(o)' => IsDead(o)
        /\ \A o \in S : ~IsWhite(o)'
        /\ \A o \in Obj \ MarkedWith(S) :
              mark'[o] = IF o \in W THEN "gray" ELSE IF o \in closed THEN "black" ELSE mark[o]
    <3>1. HeapTypeOK /\ S \in SUBSET alloc
      BY <1>5, <1>8, <1>9
    <3> QED
      BY <2>3, <3>1, MarkedFacts
  <2> QED
    BY <2>1, <2>2, <2>4, <2>5
<1>10. ASSUME gcstate # "propagate"
       PROVE  /\ \A x \in Obj : mark'[x] = IF x \in closed THEN "white" ELSE mark[x]
              /\ mark' \in [Obj -> Whites \cup {"gray", "black"}]
  BY <1>1, <1>10 DEF IInv, GCTypeOK, Whites
<1>11. \A x \in Obj : IsDead(x)' => IsDead(x) /\ x \notin closed
  <2>1. CASE gcstate = "propagate"
    BY <2>1, <1>3, <1>9 DEF IsDead
  <2>2. CASE gcstate # "propagate"
    BY <2>2, <1>10 DEF IsDead
  <2> QED
    BY <2>1, <2>2
<1>12. \A x \in Obj \ alloc' : IsDead(x)'
  <2>1. CASE gcstate = "propagate"
    <3>1. alloc' = alloc
      BY <1>2, <1>8, <2>1
    <3>2. UNCHANGED <<grayagain, weak, gcstate, alloc>>
      BY <3>1, <1>1
    <3>3. AllLive'
      BY <1>7, <1>8, <2>1, <3>2, MarkMore
    <3> QED
      BY <3>3 DEF AllLive
  <2>2. CASE gcstate # "propagate"
    <3>1. \A x \in Obj \ alloc' : IsDead(x) /\ x \notin closed
      BY <1>2, <1>5, <1>7 DEF IInv, AllLive, IsDead, IsGray
    <3> QED
      BY <2>2, <3>1, <1>10 DEF IsDead
  <2> QED
    BY <2>1, <2>2
<1>13. AllLive'
  BY <1>1, <1>2, <1>5, <1>11, <1>12 DEF IInv, AllLive
<1>14. Live' = Live
  <2>1. CASE gcstate = "propagate"
    BY <2>1, <1>2, <1>5, <1>8, <1>11 DEF Live
  <2>2. CASE gcstate # "propagate"
    BY <2>2, <1>2, <1>3, <1>5, <1>10, <1>11 DEF Live, IsDead
  <2> QED
    BY <2>1, <2>2
<1>15. NoDangling'
  <2>1. Roots' = Roots
    BY <1>6 DEF Roots, Objects
  <2>2. \A x \in Live : Refs(x)' \subseteq Live
    BY <1>2, <1>5, <1>14, HoldsLive DEF Live
  <2> QED
    BY <1>14, <2>1, <2>2, HoldsLive DEF NoDangling, Live
<1>16. GCTypeOK' /\ Colours'
  <2>1. CASE gcstate = "propagate"
    <3>1. UNCHANGED <<grayagain, weak, gcstate, alloc>>
      BY <1>1, <1>2, <1>8, <2>1
    <3>2. /\ mark' \in [Obj -> Whites \cup {"gray", "black"}]
          /\ gray' \subseteq Tables \cup Closures \cup Threads
          /\ \A o \in Udata : ~IsGray(o)'
          /\ \A o \in Threads \cup Strings : ~IsBlack(o)'
          /\ \A o \in Upvals : /\ IsGray(o)' => open[o] # Nothing /\ o \notin closed
                               /\ IsBlack(o)' => open[o] = Nothing \/ o \in closed
      BY <1>7, <1>8, <2>1, <3>1, MarkMore
    <3>3. GCTypeOK'
      BY <1>1, <3>2 DEF IInv, GCTypeOK, Obj
    <3>4. ASSUME NEW o \in Upvals
          PROVE  (IsGray(o)' => open'[o] # Nothing) /\ (IsBlack(o)' => open'[o] = Nothing)
      <4>1. CASE o \in mine
        <5>1. IsGray(o) => o \in closed
          BY <4>1 DEF closed
        <5>2. ~IsGray(o)'
          BY <4>1, <5>1, <1>9, <2>1 DEF IsGray
        <5> QED
          BY <4>1, <5>2, <1>2
      <4>2. CASE o \notin mine
        BY <4>2, <3>2, <1>2, <1>3
      <4> QED
        BY <4>1, <4>2
    <3> QED
      BY <3>2, <3>3, <3>4 DEF Colours
  <2>2. CASE gcstate # "propagate"
    <3>1. GCTypeOK'
      BY <2>2, <1>1, <1>10 DEF IInv, GCTypeOK
    <3>2. ASSUME NEW o \in Upvals
          PROVE  (IsGray(o)' => open'[o] # Nothing) /\ (IsBlack(o)' => open'[o] = Nothing)
      <4>1. o \in Obj /\ (o \in mine /\ IsGray(o) => o \in closed)
        BY DEF Obj, closed
      <4> QED
        BY <4>1, <2>2, <1>2, <1>10 DEF IInv, Colours, IsGray, IsBlack
    <3>3. \A o \in Udata \cup Threads \cup Strings : o \in Obj /\ o \notin closed
      BY <1>3, Kinds DEF Obj
    <3>4. (\A o \in Udata : ~IsGray(o)') /\ \A o \in Threads \cup Strings : ~IsBlack(o)'
      BY <3>3, <2>2, <1>10 DEF IInv, Colours, IsGray, IsBlack
    <3> QED
      BY <3>1, <3>2, <3>4 DEF Colours
  <2> QED
    BY <2>1, <2>2
<1>17. Marking'
  <2> SUFFICES ASSUME gcstate = "propagate"
               PROVE  Marking'
    BY <1>1 DEF Marking
  <2>1. UNCHANGED <<grayagain, weak, gcstate, alloc>>
    BY <1>1, <1>2, <1>8
  <2>2. /\ gray' \subseteq Tables \cup Closures \cup Threads /\ OneListOnly'
        /\ \A o \in Threads \cup Strings : ~IsBlack(o)'
        /\ \A o \in alloc \ tmudata :
              IsBlack(o)' => o \in closed \/ \A v \in Refs(o) : ~IsWhite(v)'
    BY <1>7, <1>8, <2>1, MarkMore
  <2>3. ASSUME NEW o \in alloc \ tmudata, IsBlack(o)'
        PROVE  Colored(Refs(o))'
    <3>1. \A v \in Refs(o) : ~IsWhite(v)'
      BY <2>2, <2>3, <1>4, <1>9
    <3>2. Refs(o)' = Refs(o)
      BY <2>2, <2>3, <1>2, <1>5, <1>8
    <3> QED
      BY <3>1, <3>2 DEF Colored
  <2>4. Colored({Main, Registry})'
    BY <1>9, Kinds DEF IInv, Marking, Colored, Obj
  <2>5. astep' = 0 /\ UNCHANGED <<tmudata, gcstate, alloc>>
    BY <1>1, <1>6, <2>1
  <2> QED
    BY <2>1, <2>2, <2>3, <2>4, <2>5 DEF IInv, Marking
<1>18. Sweeping'
  <2>1. CASE gcstate = "propagate"
    BY <2>1, <1>1 DEF IInv, Sweeping, SweptClean
  <2>2. CASE gcstate # "propagate"
    <3>1. \A o \in Obj : mark[o] = "white" => mark'[o] = "white"
      BY <2>2, <1>10
    <3>2. alloc' \subseteq alloc /\ alloc' \ unswept' = alloc' \ unswept
      BY <1>1, <1>2
    <3> QED
      BY <3>1, <3>2, <1>1, <1>5, <1>6 DEF IInv, Sweeping, SweptClean, Bucket
  <2> QED
    BY <2>1, <2>2
<1> QED
  BY <1>2, <1>13, <1>15, <1>16, <1>17, <1>18 DEF IInv

-----------------------------------------------------------------------------
(* The steps of the collector.                                               *)

\* A step that leaves the heap alone leaves the references and the roots.
LEMMA SameHeap ==
    ASSUME UNCHANGED heap
    PROVE  /\ HeapInv => HeapInv'
           /\ \A o : /\ Refs(o)' = Refs(o) /\ Strong(o)' = Strong(o)
                     /\ IsWeak(o)' = IsWeak(o) /\ Listed(o)' = Listed(o)
           /\ Roots' = Roots /\ running' = running /\ Objects({basicmt})' = Objects({basicmt})
           /\ UNCHANGED <<program, alloc, calls, stk, ent, meta, ref, val, open, basicmt,
                          finalized, tmudata, tms>>
<1>1. UNCHANGED <<program, alloc, calls, stk, ent, meta, ref, val, open, basicmt,
                  finalized, tmudata, tms>>
  BY DEF heap
<1>2. HeapInv => HeapInv'
  BY <1>1 DEF HeapInv, HeapTypeOK, FreedEmpty, CallsChain
<1>3. \A o : Opened(o)' = Opened(o)
  BY <1>1 DEF Opened
<1>4. \A o : /\ Refs(o)' = Refs(o) /\ Strong(o)' = Strong(o)
             /\ IsWeak(o)' = IsWeak(o) /\ Listed(o)' = Listed(o)
  BY <1>1, <1>3 DEF Refs, Strong, IsWeak, Listed, Mode, Objects, KeysOf, ValuesOf
<1>5. Roots' = Roots /\ running' = running /\ Objects({basicmt})' = Objects({basicmt})
  BY <1>1 DEF Roots, Objects, running
<1> QED
  BY <1>1, <1>2, <1>4, <1>5

\* luaC_fullgc gives up a mark phase: all marks are left to the sweep.
LEMMA FullGCKeeps ==
    ASSUME IInv, FullGC
    PROVE  IInv'
<1>1. /\ UNCHANGED heap /\ UNCHANGED <<mark, astep, strsize, sweepstr>> /\ astep = 0
      /\ full' = [at |-> "sweep", tms |-> RunningTMs]
      /\ \/ /\ gcstate \in {"pause", "propagate"} /\ gcstate' = "sweepstring"
            /\ unswept' = alloc \ (Strings \cup tmudata)
            /\ gray' = {} /\ grayagain' = {} /\ weak' = {}
         \/ UNCHANGED <<unswept, gray, grayagain, weak, gcstate>>
  BY DEF FullGC, CanRun
<1>2. /\ HeapInv' /\ (\A o : Refs(o)' = Refs(o) /\ Listed(o)' = Listed(o)) /\ Roots' = Roots
      /\ alloc' = alloc /\ tmudata' = tmudata /\ open' = open
  BY <1>1, SameHeap DEF IInv
<1>3. \A o : /\ IsDead(o)' = IsDead(o) /\ IsWhite(o)' = IsWhite(o)
             /\ IsBlack(o)' = IsBlack(o) /\ IsGray(o)' = IsGray(o)
  BY <1>1 DEF IsDead, IsWhite, IsBlack, IsGray
<1>4. RunningTMs \subseteq Udata
  BY Running DEF IInv, HeapInv, HeapTypeOK, RunningTMs
<1>5. GCTypeOK'
  BY <1>1, <1>2, <1>4 DEF IInv, GCTypeOK, HeapInv, HeapTypeOK
<1>6. AllLive' /\ NoDangling' /\ Colours'
  BY <1>1, <1>2, <1>3 DEF IInv, AllLive, NoDangling, Colours
<1>7. Marking'
  BY <1>1, <1>2, <1>3 DEF IInv, Marking, Colored, OneListOnly
<1>8. Sweeping'
  <2>1. CASE gcstate \in {"pause", "propagate"} /\ gcstate' = "sweepstring"
    <3>1. sweepstr' = 0 /\ strsize' \in Nat \ {0}
      BY <2>1, <1>1, <1>5 DEF IInv, Sweeping, GCTypeOK
    <3>2. \A s \in Strings : ~(Bucket(s)' < 0)
      BY <3>1, StringTable DEF Bucket
    <3>3. alloc' \ (Strings \cup tmudata' \cup unswept') = {}
      BY <1>1, <1>2, <2>1 DEF IInv, Sweeping
    <3> QED
      BY <2>1, <3>1, <3>2, <3>3 DEF Sweeping, SweptClean
  <2>2. CASE UNCHANGED <<unswept, gray, grayagain, weak, gcstate>>
    BY <2>2, <1>1, <1>2 DEF IInv, Sweeping, SweptClean, Bucket
  <2> QED
    BY <2>1, <2>2, <1>1
<1> QED
  BY <1>2, <1>5, <1>6, <1>7, <1>8 DEF IInv

\* A cycle begins when everything is white but what waits for a finalizer.
LEMMA MarkRootKeeps ==
    ASSUME IInv, gcstate \in {"pause", "finalize"}, MarkRoot,
           full' \in [at : {"no", "sweep", "mark"}, tms : SUBSET Udata],
           UNCHANGED heap, UNCHANGED <<astep, strsize, sweepstr, unswept>>
    PROVE  IInv'
<1> DEFINE S == {Main, Registry} \cup Objects({basicmt})
           E == {}
           M == MarkedWith(S)
<1>1. /\ mark' = Marked(S, E, E) /\ gray' = {o \in M : Listed(o)}
      /\ grayagain' = {} /\ weak' = {} /\ gcstate' = "propagate"
  BY DEF MarkRoot, NewGray
<1>2. /\ HeapInv' /\ (\A o : Refs(o)' = Refs(o) /\ Listed(o)' = Listed(o)) /\ Roots' = Roots
      /\ alloc' = alloc /\ tmudata' = tmudata /\ open' = open
  BY SameHeap DEF IInv
<1>3. HeapTypeOK /\ alloc \subseteq Obj /\ \A o \in alloc : ~IsDead(o) /\ Refs(o) \subseteq alloc
  BY DEF IInv, HeapInv, HeapTypeOK, AllLive, NoDangling
<1>4. S \in SUBSET alloc /\ Roots \subseteq alloc
  BY DEF IInv, NoDangling, Roots
<1>5. \A o \in alloc \ tmudata : mark[o] = "white"
  BY DEF IInv, Sweeping, SweptClean
<1>6. \A o : o \notin E
  OBVIOUS
<1> HIDE DEF S, E
<1>7. M \subseteq alloc /\ \A o \in M : IsWhite(o)
  BY <1>3, <1>4, MarkedWithFacts
<1>8. /\ \A o \in Obj : ~IsWhite(o) => ~IsWhite(o)'
      /\ \A o \in Obj : IsDead(o)' => IsDead(o)
      /\ \A o \in S : ~IsWhite(o)'
      /\ \A o \in M : /\ mark'[o] = MarkColor(o)
                      /\ o \in Udata \cup Upvals => \A v \in Refs(o) : ~IsWhite(v)'
      /\ \A o \in Obj \ M : mark'[o] = IF o \in E THEN "gray" ELSE IF o \in E THEN "black" ELSE mark[o]
  BY <1>1, <1>3, <1>4, MarkedFacts
<1> HIDE DEF M
<1>9. \A o \in Obj \ M : mark'[o] = mark[o]
  BY <1>6, <1>8
<1>10. GCTypeOK'
  <2>1. mark' \in [Obj -> Whites \cup {"gray", "black"}]
    BY <1>1 DEF Marked, MarkColor, IInv, GCTypeOK, Whites
  <2> QED
    BY <2>1, <1>1, <1>3, <1>7 DEF IInv, GCTypeOK
<1>11. AllLive'
  BY <1>2, <1>3, <1>7, <1>8, <1>9 DEF IInv, AllLive, IsDead
<1>12. NoDangling'
  BY <1>2, <1>3, <1>4, <1>8 DEF NoDangling
<1>13. Colours'
  <2>1. ASSUME NEW o \in Obj
        PROVE  /\ o \in Udata => ~IsGray(o)'
               /\ o \in Threads \cup Strings => ~IsBlack(o)'
               /\ o \in Upvals => (IsGray(o)' => open[o] # Nothing) /\ (IsBlack(o)' => open[o] = Nothing)
    <3>1. CASE o \in M
      BY <3>1, <1>8, Kinds DEF MarkColor, IsGray, IsBlack
    <3>2. CASE o \notin M
      BY <3>2, <1>9, Kinds DEF IInv, Colours, IsGray, IsBlack
    <3> QED
      BY <3>1, <3>2
  <2> QED
    BY <2>1, <1>2 DEF Colours, Obj
<1>14. Marking'
  <2>1. ASSUME NEW o \in alloc \ tmudata, IsBlack(o)'
        PROVE  Colored(Refs(o))'
    <3>1. o \in M
      BY <2>1, <1>3, <1>5, <1>9 DEF IsBlack
    <3>2. o \in Udata \cup Upvals
      BY <2>1, <3>1, <1>8 DEF MarkColor, IsBlack
    <3> QED
      BY <3>1, <3>2, <1>2, <1>8 DEF Colored
  <2>2. Colored({Main, Registry})'
    BY <1>8 DEF Colored, S
  <2>3. OneListOnly'
    <3>1. \A o \in gray' : o \in alloc /\ IsGray(o)'
      BY <1>1, <1>7, <1>8, Kinds DEF MarkColor, IsGray, Listed
    <3>2. ASSUME NEW o \in alloc, IsGray(o)', Listed(o)
          PROVE  o \in gray'
      <4>1. o \in M
        BY <3>2, <1>3, <1>5, <1>9, Kinds DEF IsGray, Listed, IInv, HeapInv, HeapTypeOK
      <4> QED
        BY <4>1, <3>2, <1>1
    <3> QED
      BY <3>1, <3>2, <1>1, <1>2 DEF OneListOnly
  <2>4. gray' \subseteq Tables \cup Closures \cup Threads
    BY <1>1 DEF Listed
  <2>5. astep' = 0
    BY DEF IInv, GCTypeOK
  <2> QED
    BY <2>1, <2>2, <2>3, <2>4, <2>5, <1>1, <1>2 DEF Marking
<1>15. Sweeping'
  BY <1>1 DEF IInv, Sweeping, SweptClean
<1> QED
  BY <1>2, <1>10, <1>11, <1>12, <1>13, <1>14, <1>15 DEF IInv

\* singlestep at GCSpause.
LEMMA StartCycleKeeps ==
    ASSUME IInv, StartCycle
    PROVE  IInv'
<1>1. /\ gcstate \in {"pause", "finalize"} /\ MarkRoot
      /\ UNCHANGED heap /\ UNCHANGED <<astep, strsize, sweepstr, unswept>>
      /\ full' \in [at : {"no", "sweep", "mark"}, tms : SUBSET Udata]
  BY DEF StartCycle, IInv, GCTypeOK
<1> QED
  BY <1>1, MarkRootKeeps

\* The cycle of luaC_fullgc.
LEMMA FullGCMarksKeeps ==
    ASSUME IInv, FullGCMarks
    PROVE  IInv'
<1>1. /\ gcstate \in {"pause", "finalize"} /\ MarkRoot
      /\ UNCHANGED heap /\ UNCHANGED <<astep, strsize, sweepstr, unswept>>
      /\ full' \in [at : {"no", "sweep", "mark"}, tms : SUBSET Udata]
  BY DEF FullGCMarks, IInv, GCTypeOK
<1> QED
  BY <1>1, MarkRootKeeps

\* While marking, the objects of S are marked and gray ones of T traversed, those
\* of W staying gray.
LEMMA MarkStep ==
    ASSUME IInv, gcstate = "propagate", gcstate' = "propagate", UNCHANGED heap,
           NEW S \in SUBSET alloc, NEW T \in SUBSET gray, NEW W \in SUBSET T,
           T \cap Threads \subseteq W, mark' = Marked(S, T, W), sweepstr' = sweepstr
    PROVE  /\ mark' \in [Obj -> Whites \cup {"gray", "black"}]
           /\ HeapInv' /\ AllLive' /\ NoDangling' /\ Colours' /\ Sweeping'
           /\ \A o \in Obj : ~IsWhite(o) => ~IsWhite(o)'
           /\ \A o \in S : ~IsWhite(o)'
           /\ \A o \in alloc : IsBlack(o)' => \/ IsBlack(o) \/ o \in T \ W
                                              \/ Colored(Refs(o))'
           /\ \A u \in Upvals \cap alloc : ~IsWhite(u)' => ~IsWhite(u) \/ Colored(Refs(u))'
           /\ NewGray(S) \subseteq alloc
           /\ \A o \in NewGray(S) : IsWhite(o) /\ Listed(o)
           /\ \A o \in alloc : Listed(o) =>
                 (IsGray(o)' <=> o \in NewGray(S) \/ (IsGray(o) /\ o \notin T \ W))
           /\ \A o \in alloc : IsBlack(o) => IsBlack(o)'
<1> DEFINE M == MarkedWith(S)
<1>1. /\ HeapTypeOK /\ Live = alloc /\ alloc \subseteq Obj
      /\ \A o \in alloc : Refs(o) \subseteq alloc
  BY PropagateLive
<1>2. /\ HeapInv' /\ (\A o : Refs(o)' = Refs(o) /\ Listed(o)' = Listed(o)) /\ Roots' = Roots
      /\ alloc' = alloc /\ tmudata' = tmudata /\ open' = open
  BY SameHeap DEF IInv
<1>3. M \subseteq alloc /\ \A o \in M : IsWhite(o)
  BY <1>1, MarkedWithFacts
<1>4. /\ \A o \in Obj : ~IsWhite(o) => ~IsWhite(o)'
      /\ \A o \in Obj : IsDead(o)' => IsDead(o)
      /\ \A o \in S : ~IsWhite(o)'
      /\ \A o \in M : /\ mark'[o] = MarkColor(o)
                      /\ o \in Udata \cup Upvals => \A v \in Refs(o) : ~IsWhite(v)'
      /\ \A o \in Obj \ M : mark'[o] = IF o \in W THEN "gray" ELSE IF o \in T THEN "black" ELSE mark[o]
  BY <1>1, MarkedFacts
<1>5. NewGray(S) = {o \in M : Listed(o)}
  BY DEF NewGray
<1> HIDE DEF M
<1>6. mark' \in [Obj -> Whites \cup {"gray", "black"}]
  BY DEF Marked, MarkColor, IInv, GCTypeOK, Whites
<1>7. /\ T \subseteq Tables \cup Closures \cup Threads /\ T \subseteq alloc
      /\ \A o \in T : IsGray(o) /\ ~IsWhite(o) /\ o \notin M
  BY <1>3 DEF IInv, Marking, OneListOnly, IsGray, IsWhite, Whites
<1>8. AllLive'
  <2>1. \A o \in Obj \ alloc : mark'[o] = mark[o]
    BY <1>3, <1>4, <1>7
  <2> QED
    BY <2>1, <1>1, <1>2, <1>4 DEF IInv, AllLive, IsDead
<1>9. NoDangling'
  BY <1>1, <1>2, <1>4, HoldsLive DEF IInv, NoDangling, AllLive
<1>10. ASSUME NEW o \in Obj
       PROVE  /\ o \in Udata => ~IsGray(o)'
              /\ o \in Threads \cup Strings => ~IsBlack(o)'
              /\ o \in Upvals => (IsGray(o)' => open[o] # Nothing) /\ (IsBlack(o)' => open[o] = Nothing)
  <2>1. CASE o \in M
    BY <2>1, <1>4, Kinds DEF MarkColor, IsGray, IsBlack
  <2>2. CASE o \notin M
    BY <2>2, <1>4, <1>7, Kinds DEF IInv, Colours, IsGray, IsBlack
  <2> QED
    BY <2>1, <2>2
<1>11. Colours'
  BY <1>2, <1>10 DEF Colours, Obj
<1>12. Sweeping'
  BY DEF IInv, Sweeping, SweptClean
<1>13. ASSUME NEW o \in alloc, IsBlack(o)', ~IsBlack(o), o \notin T \ W
       PROVE  Colored(Refs(o))'
  <2>1. o \in M
    BY <1>1, <1>4, <1>13 DEF IsBlack
  <2>2. o \in Udata \cup Upvals
    BY <2>1, <1>4, <1>13 DEF IsBlack, MarkColor
  <2> QED
    BY <2>1, <2>2, <1>2, <1>4 DEF Colored
<1>14. ASSUME NEW u \in Upvals \cap alloc, ~IsWhite(u)', IsWhite(u)
       PROVE  Colored(Refs(u))'
  <2>1. u \notin T
    BY <1>7, Kinds
  <2>2. u \in M
    BY <2>1, <1>1, <1>4, <1>14 DEF IsWhite
  <2> QED
    BY <2>2, <1>2, <1>4 DEF Colored
<1>15. ASSUME NEW o \in alloc, Listed(o)
       PROVE  IsGray(o)' <=> o \in NewGray(S) \/ (IsGray(o) /\ o \notin T \ W)
  <2>1. CASE o \in M
    BY <2>1, <1>3, <1>4, <1>5, <1>15, Kinds DEF MarkColor, IsGray, Listed, IsWhite, Whites
  <2>2. CASE o \notin M
    BY <2>2, <1>1, <1>4, <1>5, <1>7 DEF IsGray
  <2> QED
    BY <2>1, <2>2
<1>16. ASSUME NEW o \in alloc, IsBlack(o)
       PROVE  IsBlack(o)'
  <2>1. o \notin M /\ o \notin T
    BY <1>3, <1>7, <1>16 DEF IsWhite, Whites, IsBlack, IsGray
  <2> QED
    BY <2>1, <1>1, <1>4, <1>16 DEF IsBlack
<1> QED
  BY <1>2, <1>3, <1>4, <1>5, <1>6, <1>8, <1>9, <1>11, <1>12, <1>13, <1>14, <1>15, <1>16

\* propagatemark of some of the gray objects.
LEMMA TraverseKeeps ==
    ASSUME IInv, gcstate = "propagate", NEW T \in SUBSET gray, Traverse(T),
           UNCHANGED heap, UNCHANGED <<gcstate, astep, strsize, sweepstr, unswept, full>>
    PROVE  IInv'
<1> DEFINE S == UNION {Strong(o) : o \in T}
           W == {o \in T : IsWeak(o) \/ o \in Threads}
           G == NewGray(S)
           Weaks == {o \in T : IsWeak(o)}
<1>1. /\ mark' = Marked(S, T, W) /\ gray' = (gray \ T) \cup G
      /\ weak' = weak \cup Weaks /\ grayagain' = grayagain \cup (T \cap Threads)
  BY DEF Traverse
<1>2. /\ HeapTypeOK /\ Live = alloc /\ alloc \subseteq Obj
      /\ \A o \in alloc : Refs(o) \subseteq alloc /\ Strong(o) \subseteq Refs(o)
  BY PropagateLive
<1>3. /\ T \subseteq Tables \cup Closures \cup Threads /\ T \subseteq alloc
      /\ OneListOnly /\ \A o \in T : ~IsWhite(o) /\ IsGray(o) /\ Listed(o)
  BY DEF IInv, Marking, OneListOnly, IsGray, IsWhite, Whites, Listed
<1>4. S \in SUBSET alloc
  BY <1>2, <1>3
<1>5. \A o \in T : Strong(o) \subseteq S /\ (o \notin W => Refs(o) = Strong(o))
                   /\ (o \in Threads => Refs(o) = Strong(o))
  BY StrongRefs, <1>2, <1>3, Kinds DEF IsWeak, HeapTypeOK
<1>6. /\ W \in SUBSET T /\ T \cap Threads \subseteq W
      /\ Weaks \subseteq Tables /\ T \subseteq gray /\ Weaks \subseteq T
      /\ \A o \in T : o \in W <=> o \in Weaks \/ o \in Threads
      /\ \A o \in Weaks : IsWeak(o)
  BY DEF IsWeak
<1>7. /\ (\A o : /\ Refs(o)' = Refs(o) /\ Strong(o)' = Strong(o)
                 /\ Listed(o)' = Listed(o) /\ IsWeak(o)' = IsWeak(o))
      /\ running' = running /\ Objects({basicmt})' = Objects({basicmt})
      /\ alloc' = alloc /\ tmudata' = tmudata
  BY SameHeap
<1> HIDE DEF S, W, G, Weaks
<1>8. /\ mark' \in [Obj -> Whites \cup {"gray", "black"}]
      /\ HeapInv' /\ AllLive' /\ NoDangling' /\ Colours' /\ Sweeping'
      /\ \A o \in Obj : ~IsWhite(o) => ~IsWhite(o)'
      /\ \A o \in S : ~IsWhite(o)'
      /\ \A o \in alloc : IsBlack(o)' => \/ IsBlack(o) \/ o \in T \ W
                                         \/ Colored(Refs(o))'
      /\ \A u \in Upvals \cap alloc : ~IsWhite(u)' => ~IsWhite(u) \/ Colored(Refs(u))'
      /\ G \subseteq alloc
      /\ \A o \in G : IsWhite(o) /\ Listed(o)
      /\ \A o \in alloc : Listed(o) =>
            (IsGray(o)' <=> o \in G \/ (IsGray(o) /\ o \notin T \ W))
      /\ \A o \in alloc : IsBlack(o) => IsBlack(o)'
  BY <1>1, <1>4, <1>6, MarkStep DEF G
<1>9. \A A \in SUBSET Obj : Colored(A) => Colored(A)'
  BY <1>8 DEF Colored
<1>10. \A A \in SUBSET S : Colored(A)'
  BY <1>8 DEF Colored
<1>11. G \subseteq Tables \cup Closures \cup Threads
  BY <1>8 DEF Listed
<1>12. GCTypeOK'
  BY <1>1, <1>2, <1>3, <1>6, <1>8 DEF IInv, GCTypeOK
<1>13. OneListOnly'
  <2>1. G \cap (gray \cup grayagain \cup weak) = {}
    BY <1>3, <1>8 DEF OneListOnly, IsGray, IsWhite, Whites
  <2>2. gray' \cap grayagain' = {} /\ gray' \cap weak' = {} /\ grayagain' \cap weak' = {}
    BY <2>1, <1>1, <1>3, <1>6, Kinds DEF OneListOnly
  <2>3. \A o \in gray' \cup grayagain' \cup weak' : o \in alloc /\ Listed(o)
    BY <1>1, <1>3, <1>6, <1>8 DEF OneListOnly, IInv, GCTypeOK, Marking, Listed
  <2>4. \A o \in gray' \cup grayagain' \cup weak' : o \in G \/ (IsGray(o) /\ o \notin T \ W)
    <3>1. \A o \in gray \cup grayagain \cup weak : IsGray(o)
      BY <1>3 DEF OneListOnly
    <3>2. \A o \in grayagain \cup weak : o \notin T
      BY <1>3, <1>6 DEF OneListOnly
    <3>3. \A o \in Weaks \cup (T \cap Threads) : IsGray(o) /\ o \notin T \ W
      BY <1>3 DEF Weaks, W
    <3> QED
      BY <3>1, <3>2, <3>3, <1>1
  <2>5. \A o \in alloc : IsGray(o) /\ Listed(o) /\ o \notin T \ W =>
                           o \in gray' \cup grayagain' \cup weak'
    BY <1>1, <1>3, <1>6 DEF OneListOnly
  <2>6. \A o \in gray' \cup grayagain' \cup weak' : o \in alloc' /\ IsGray(o)'
    BY <2>3, <2>4, <1>7, <1>8
  <2>7. \A o \in alloc' : IsGray(o)' /\ Listed(o)' => o \in gray' \cup grayagain' \cup weak'
    BY <2>5, <1>1, <1>7, <1>8
  <2> QED
    BY <2>2, <2>6, <2>7 DEF OneListOnly
<1>14. Marking'
  <2>1. ASSUME NEW o \in alloc \ tmudata, IsBlack(o)'
        PROVE  Colored(Refs(o))'
    <3>1. CASE IsBlack(o)
      <4>1. Colored(Refs(o)) /\ Refs(o) \in SUBSET Obj
        BY <3>1, <1>2 DEF IInv, Marking
      <4> QED
        BY <4>1, <1>7, <1>9
    <3>2. CASE o \in T \ W
      BY <3>2, <1>5, <1>7, <1>10
    <3> QED
      BY <3>1, <3>2, <2>1, <1>8
  <2>2. Colored({Main, Registry})'
    <3>1. {Main, Registry} \in SUBSET Obj
      BY Kinds DEF Obj
    <3>2. Colored({Main, Registry})
      BY <1>2 DEF IInv, Marking
    <3> QED
      BY <1>9, <3>1, <3>2
  <2>3. gray' \subseteq Tables \cup Closures \cup Threads /\ grayagain' \subseteq Tables \cup Threads
    BY <1>1, <1>11 DEF IInv, Marking
  <2>4. ASSUME astep >= 1, NEW u \in Upvals \cap alloc, ~IsWhite(u)'
        PROVE  Colored(Refs(u))'
    <3>1. Refs(u) \in SUBSET Obj /\ (~IsWhite(u) => Colored(Refs(u)))
      BY <2>4, <1>2 DEF IInv, Marking
    <3> QED
      BY <3>1, <2>4, <1>7, <1>8, <1>9
  <2>5. ASSUME astep >= 2
        PROVE  /\ Colored({running} \cup Objects({basicmt}))'
               /\ \A o \in weak' : IsWeak(o)' /\ Colored(Strong(o))'
    <3>1. {running} \cup Objects({basicmt}) \in SUBSET Obj
      BY <1>2, Running DEF HeapTypeOK, Objects, Obj
    <3>2. Colored({running} \cup Objects({basicmt}))
      BY <2>5 DEF IInv, Marking
    <3>3. \A o \in weak : IsWeak(o) /\ Colored(Strong(o)) /\ Strong(o) \in SUBSET Obj
      BY <2>5, <1>2, <1>3 DEF IInv, Marking, OneListOnly
    <3>4. ASSUME NEW o \in Weaks
          PROVE  IsWeak(o) /\ Strong(o) \in SUBSET S
      <4>1. o \in T /\ IsWeak(o)
        BY DEF Weaks
      <4>2. Strong(o) \subseteq S
        BY <4>1, <1>5
      <4> QED
        BY <4>1, <4>2
    <3>5. Colored({running} \cup Objects({basicmt}))'
      BY <3>1, <3>2, <1>7, <1>9
    <3> QED
      BY <3>3, <3>4, <3>5, <1>1, <1>7, <1>9, <1>10
  <2>6. ASSUME astep >= 3, NEW o \in grayagain'
        PROVE  o \in Threads /\ Colored(Refs(o))'
    <3>1. CASE o \in grayagain
      <4>1. o \in Threads /\ Colored(Refs(o)) /\ Refs(o) \in SUBSET Obj
        BY <3>1, <2>6, <1>2, <1>3 DEF IInv, Marking, OneListOnly
      <4> QED
        BY <4>1, <1>7, <1>9
    <3>2. CASE o \in T \cap Threads
      BY <3>2, <1>5, <1>7, <1>10
    <3> QED
      BY <3>1, <3>2, <2>6, <1>1
  <2>7. ASSUME astep = 4, NEW o \in tmudata
        PROVE  IsBlack(o)' /\ Colored(Refs(o))'
    <3>1. o \in alloc
      BY DEF IInv, HeapInv, FreedEmpty
    <3>2. IsBlack(o) /\ Colored(Refs(o)) /\ Refs(o) \in SUBSET Obj
      BY <2>7, <3>1, <1>2 DEF IInv, Marking
    <3> QED
      BY <3>1, <3>2, <1>7, <1>8, <1>9
  <2>8. astep' = astep
    OBVIOUS
  <2> QED
    BY <2>1, <2>2, <2>3, <2>4, <2>5, <2>6, <2>7, <2>8, <1>7, <1>13 DEF Marking
<1> QED
  BY <1>8, <1>12, <1>14 DEF IInv

\* singlestep at GCSpropagate, one object.
LEMMA PropagateKeeps ==
    ASSUME IInv, NEW o, Propagate(o)
    PROVE  IInv'
<1>1. /\ gcstate = "propagate" /\ {o} \in SUBSET gray /\ Traverse({o}) /\ UNCHANGED heap
      /\ UNCHANGED <<gcstate, astep, strsize, sweepstr, unswept, full>>
  BY DEF Propagate
<1> QED
  BY <1>1, TraverseKeeps

\* propagateall in the atomic phase.
LEMMA PropagateAllKeeps ==
    ASSUME IInv, PropagateAll
    PROVE  IInv'
<1>1. /\ gcstate = "propagate" /\ Traverse(gray) /\ UNCHANGED heap
      /\ UNCHANGED <<gcstate, astep, strsize, sweepstr, unswept, full>>
  BY DEF PropagateAll, IInv, GCTypeOK
<1> QED
  BY <1>1, TraverseKeeps

\* remarkupvals: from here on what the upvalues refer to is marked.
LEMMA RemarkUpvalsKeeps ==
    ASSUME IInv, RemarkUpvals
    PROVE  IInv'
<1> DEFINE U == {w \in Upvals \cap alloc : open[w] # Nothing /\ IsGray(w)}
           S == Objects({val[u] : u \in U})
           E == {}
           G == NewGray(S)
<1>1. /\ gcstate = "propagate" /\ gcstate' = "propagate" /\ gray = {} /\ astep' = 1 /\ gray' = G
      /\ UNCHANGED heap /\ UNCHANGED <<grayagain, weak, strsize, sweepstr, unswept, full>>
      /\ mark' = Marked(S, E, E)
  BY DEF RemarkUpvals
<1>2. /\ HeapTypeOK /\ Live = alloc /\ alloc \subseteq Obj
      /\ \A o \in alloc : Refs(o) \subseteq alloc
  BY <1>1, PropagateLive
<1>3. S \in SUBSET alloc /\ \A u \in U : Refs(u) \subseteq S
  <2>1. \A u \in U : Refs(u) = Objects({val[u]}) /\ u \in alloc
    BY RefsOf
  <2> QED
    BY <2>1, <1>2 DEF Objects
<1>4. E \in SUBSET gray /\ E \in SUBSET E /\ E \cap Threads \subseteq E /\ \A o : o \notin E
  OBVIOUS
<1>5. \A u \in Upvals \cap alloc : IsGray(u) => u \in U
  BY DEF IInv, Colours
<1>6. /\ (\A o : Refs(o)' = Refs(o) /\ Listed(o)' = Listed(o))
      /\ alloc' = alloc /\ tmudata' = tmudata
  BY <1>1, SameHeap
<1> HIDE DEF U, S, E, G
<1>7. /\ mark' \in [Obj -> Whites \cup {"gray", "black"}]
      /\ HeapInv' /\ AllLive' /\ NoDangling' /\ Colours' /\ Sweeping'
      /\ \A o \in Obj : ~IsWhite(o) => ~IsWhite(o)'
      /\ \A o \in S : ~IsWhite(o)'
      /\ \A o \in alloc : IsBlack(o)' => \/ IsBlack(o) \/ o \in E \ E
                                         \/ Colored(Refs(o))'
      /\ \A u \in Upvals \cap alloc : ~IsWhite(u)' => ~IsWhite(u) \/ Colored(Refs(u))'
      /\ G \subseteq alloc
      /\ \A o \in G : IsWhite(o) /\ Listed(o)
      /\ \A o \in alloc : Listed(o) =>
            (IsGray(o)' <=> o \in G \/ (IsGray(o) /\ o \notin E \ E))
      /\ \A o \in alloc : IsBlack(o) => IsBlack(o)'
  BY <1>1, <1>3, <1>4, MarkStep DEF G
<1>8. \A A \in SUBSET Obj : Colored(A) => Colored(A)'
  BY <1>7 DEF Colored
<1>9. GCTypeOK'
  BY <1>1, <1>2, <1>7 DEF IInv, GCTypeOK
<1>10. OneListOnly'
  <2>1. OneListOnly
    BY <1>1 DEF IInv, Marking
  <2>2. \A o \in G : o \notin grayagain \cup weak /\ IsGray(o)' /\ o \in alloc
    <3>1. \A o \in G : o \in alloc /\ Listed(o) /\ IsWhite(o)
      BY <1>7
    <3>2. \A o \in G : IsGray(o)'
      BY <3>1, <1>7
    <3>3. \A o \in grayagain \cup weak : ~IsWhite(o)
      BY <2>1, <1>1 DEF OneListOnly, IsGray, IsWhite, Whites
    <3> QED
      BY <3>1, <3>2, <3>3
  <2>3. \A o \in grayagain \cup weak : IsGray(o)' /\ o \in alloc
    BY <2>1, <1>1, <1>4, <1>7 DEF OneListOnly, IInv, Marking, GCTypeOK, Listed
  <2>4. \A o \in alloc : IsGray(o)' /\ Listed(o) => o \in G \cup grayagain \cup weak
    BY <2>1, <1>1, <1>4, <1>7 DEF OneListOnly
  <2> QED
    BY <2>1, <2>2, <2>3, <2>4, <1>1, <1>6 DEF OneListOnly
<1>11. Marking'
  <2>1. ASSUME NEW o \in alloc \ tmudata, IsBlack(o)'
        PROVE  Colored(Refs(o))'
    <3>1. IsBlack(o) => Colored(Refs(o)) /\ Refs(o) \in SUBSET Obj
      BY <2>1, <1>1, <1>2 DEF IInv, Marking
    <3> QED
      BY <3>1, <2>1, <1>4, <1>6, <1>7, <1>8
  <2>2. Colored({Main, Registry})'
    <3>1. Colored({Main, Registry})
      BY <1>1 DEF IInv, Marking
    <3>2. {Main, Registry} \in SUBSET Obj
      BY Kinds DEF Obj
    <3> QED
      BY <1>8, <3>1, <3>2
  <2>3. ASSUME NEW u \in Upvals \cap alloc, ~IsWhite(u)'
        PROVE  Colored(Refs(u))'
    <3>1. CASE IsBlack(u)
      <4>1. u \notin tmudata
        BY <1>2, Kinds DEF HeapTypeOK
      <4> QED
        BY <2>1, <3>1, <4>1, <1>7
    <3>2. CASE IsGray(u)
      <4>1. Refs(u) \subseteq S
        BY <3>2, <1>3, <1>5
      <4> QED
        BY <4>1, <1>6, <1>7 DEF Colored
    <3>3. CASE IsWhite(u)
      BY <3>3, <2>3, <1>7
    <3> QED
      BY <3>1, <3>2, <3>3, <1>2 DEF IsWhite, IsGray, IsBlack, Whites, IInv, GCTypeOK
  <2>4. gray' \subseteq Tables \cup Closures \cup Threads
    BY <1>1, <1>7 DEF Listed
  <2> QED
    BY <2>1, <2>2, <2>3, <2>4, <1>1, <1>6, <1>10 DEF IInv, Marking
<1> QED
  BY <1>7, <1>9, <1>11 DEF IInv

\* The weak tables, the running thread and the metatable of the basic types.
LEMMA RemarkWeakKeeps ==
    ASSUME IInv, RemarkWeak
    PROVE  IInv'
<1> DEFINE S == {running} \cup Objects({basicmt})
           E == {}
           G == NewGray(S)
<1>1. /\ astep = 1 /\ gray = {} /\ astep' = 2 /\ gray' = weak \cup G /\ weak' = {}
      /\ UNCHANGED heap /\ UNCHANGED <<gcstate, grayagain, strsize, sweepstr, unswept, full>>
      /\ mark' = Marked(S, E, E)
  BY DEF RemarkWeak
<1>2. gcstate = "propagate" /\ gcstate' = "propagate"
  BY <1>1 DEF IInv, GCTypeOK
<1>3. /\ HeapTypeOK /\ Live = alloc /\ alloc \subseteq Obj
      /\ \A o \in alloc : Refs(o) \subseteq alloc
  BY <1>2, PropagateLive
<1>4. S \in SUBSET alloc /\ S = {running} \cup Objects({basicmt})
  BY <1>3, Running, HoldsLive DEF Roots
<1>5. E \in SUBSET gray /\ E \in SUBSET E /\ E \cap Threads \subseteq E /\ \A o : o \notin E
  OBVIOUS
<1>6. /\ (\A o : Refs(o)' = Refs(o) /\ Listed(o)' = Listed(o))
      /\ running' = running /\ Objects({basicmt})' = Objects({basicmt})
      /\ alloc' = alloc /\ tmudata' = tmudata
  BY <1>1, SameHeap
<1> HIDE DEF S, E, G
<1>7. /\ mark' \in [Obj -> Whites \cup {"gray", "black"}]
      /\ HeapInv' /\ AllLive' /\ NoDangling' /\ Colours' /\ Sweeping'
      /\ \A o \in Obj : ~IsWhite(o) => ~IsWhite(o)'
      /\ \A o \in S : ~IsWhite(o)'
      /\ \A o \in alloc : IsBlack(o)' => \/ IsBlack(o) \/ o \in E \ E
                                         \/ Colored(Refs(o))'
      /\ \A u \in Upvals \cap alloc : ~IsWhite(u)' => ~IsWhite(u) \/ Colored(Refs(u))'
      /\ G \subseteq alloc
      /\ \A o \in G : IsWhite(o) /\ Listed(o)
      /\ \A o \in alloc : Listed(o) =>
            (IsGray(o)' <=> o \in G \/ (IsGray(o) /\ o \notin E \ E))
      /\ \A o \in alloc : IsBlack(o) => IsBlack(o)'
  BY <1>1, <1>2, <1>4, <1>5, MarkStep DEF G
<1>8. \A A \in SUBSET Obj : Colored(A) => Colored(A)'
  BY <1>7 DEF Colored
<1>9. GCTypeOK'
  BY <1>1, <1>2, <1>3, <1>7 DEF IInv, GCTypeOK, Obj
<1>10. OneListOnly'
  <2>1. OneListOnly
    BY <1>2 DEF IInv, Marking
  <2>2. \A o \in G : o \notin grayagain \cup weak
    <3>1. \A o \in G : IsWhite(o)
      BY <1>7
    <3>2. \A o \in grayagain \cup weak : ~IsWhite(o)
      BY <2>1, <1>2 DEF OneListOnly, IsGray, IsWhite, Whites
    <3> QED
      BY <3>1, <3>2
  <2>3. \A o \in G : IsGray(o)' /\ o \in alloc
    BY <1>7
  <2>4. \A o \in grayagain \cup weak : IsGray(o)' /\ o \in alloc
    BY <2>1, <1>2, <1>5, <1>7 DEF OneListOnly, IInv, Marking, GCTypeOK, Listed
  <2>5. \A o \in alloc : IsGray(o)' /\ Listed(o) => o \in G \cup grayagain \cup weak
    BY <2>1, <1>1, <1>2, <1>5, <1>7 DEF OneListOnly
  <2> QED
    BY <2>1, <2>2, <2>3, <2>4, <2>5, <1>1, <1>2, <1>6 DEF OneListOnly
<1>11. Marking'
  <2>1. ASSUME NEW o \in alloc \ tmudata, IsBlack(o)'
        PROVE  Colored(Refs(o))'
    <3>1. IsBlack(o) => Colored(Refs(o)) /\ Refs(o) \in SUBSET Obj
      BY <2>1, <1>2, <1>3 DEF IInv, Marking
    <3> QED
      BY <3>1, <2>1, <1>5, <1>6, <1>7, <1>8
  <2>2. Colored({Main, Registry})'
    <3>1. {Main, Registry} \in SUBSET Obj
      BY Kinds DEF Obj
    <3>2. Colored({Main, Registry})
      BY <1>2 DEF IInv, Marking
    <3> QED
      BY <1>8, <3>1, <3>2
  <2>3. ASSUME NEW u \in Upvals \cap alloc, ~IsWhite(u)'
        PROVE  Colored(Refs(u))'
    <3>1. ~IsWhite(u) => Colored(Refs(u)) /\ Refs(u) \in SUBSET Obj
      BY <1>1, <1>2, <1>3 DEF IInv, Marking
    <3> QED
      BY <3>1, <2>3, <1>6, <1>7, <1>8
  <2>4. gray' \subseteq Tables \cup Closures \cup Threads
    BY <1>1, <1>7 DEF Listed, IInv, GCTypeOK
  <2>5. Colored({running} \cup Objects({basicmt}))'
    BY <1>4, <1>6, <1>7 DEF Colored
  <2> QED
    BY <2>1, <2>2, <2>3, <2>4, <2>5, <1>1, <1>2, <1>6, <1>10 DEF IInv, Marking
<1> QED
  BY <1>7, <1>9, <1>11 DEF IInv

\* The threads, and the tables a barrier has put back.
LEMMA RemarkGrayAgainKeeps ==
    ASSUME IInv, RemarkGrayAgain
    PROVE  IInv'
<1>1. /\ astep = 2 /\ gray = {} /\ astep' = 3 /\ gray' = grayagain /\ grayagain' = {}
      /\ UNCHANGED heap /\ UNCHANGED <<mark, gcstate, weak, strsize, sweepstr, unswept, full>>
  BY DEF RemarkGrayAgain
<1>2. gcstate = "propagate" /\ gcstate' = "propagate"
  BY <1>1 DEF IInv, GCTypeOK
<1>3. /\ HeapInv'
      /\ (\A o : /\ Refs(o)' = Refs(o) /\ Strong(o)' = Strong(o)
                 /\ Listed(o)' = Listed(o) /\ IsWeak(o)' = IsWeak(o))
      /\ running' = running /\ Objects({basicmt})' = Objects({basicmt}) /\ Roots' = Roots
      /\ alloc' = alloc /\ tmudata' = tmudata /\ open' = open
  BY <1>1, SameHeap DEF IInv
<1>4. \A o : /\ IsDead(o)' = IsDead(o) /\ IsWhite(o)' = IsWhite(o)
             /\ IsBlack(o)' = IsBlack(o) /\ IsGray(o)' = IsGray(o)
  BY <1>1 DEF IsDead, IsWhite, IsBlack, IsGray
<1>5. GCTypeOK'
  BY <1>1, <1>2 DEF IInv, GCTypeOK
<1>6. AllLive' /\ NoDangling' /\ Colours'
  BY <1>1, <1>3, <1>4 DEF IInv, AllLive, NoDangling, Colours
<1>7. OneListOnly'
  BY <1>1, <1>2, <1>3, <1>4 DEF IInv, Marking, OneListOnly
<1>8. Marking'
  <2>1. /\ \A o : Colored(Refs(o))' = Colored(Refs(o)) /\ Colored(Strong(o))' = Colored(Strong(o))
        /\ Colored({running} \cup Objects({basicmt}))' = Colored({running} \cup Objects({basicmt}))
        /\ Colored({Main, Registry})' = Colored({Main, Registry})
    BY <1>3, <1>4 DEF Colored
  <2> QED
    BY <2>1, <1>1, <1>2, <1>3, <1>4, <1>7 DEF IInv, Marking
<1>9. Sweeping'
  BY <1>1, <1>2 DEF IInv, Sweeping, SweptClean
<1> QED
  BY <1>3, <1>5, <1>6, <1>8, <1>9 DEF IInv

\* luaC_separateudata: what waits for a finalizer and its metatable are marked.
LEMMA SeparateUdataKeeps ==
    ASSUME IInv, SeparateUdata
    PROVE  IInv'
<1> DEFINE W == ToFinalize
           T == tmudata \cup {u \in W : NeedsGC(u)}
           A == White(Objects({meta[u] : u \in T}))
<1>1. /\ astep = 3 /\ gray = {} /\ astep' = 4 /\ gray' = A \ T
      /\ finalized' = finalized \cup W /\ tmudata' = T
      /\ mark' = [o \in Obj |-> IF o \in T THEN "black" ELSE IF o \in T \cup A THEN "gray" ELSE mark[o]]
      /\ UNCHANGED <<program, alloc, calls, stk, ent, meta, ref, val, open, basicmt, tms,
                     gcstate, grayagain, weak, strsize, sweepstr, unswept, full>>
  BY DEF SeparateUdata
<1>2. gcstate = "propagate"
  BY <1>1 DEF IInv, GCTypeOK
<1>3. /\ HeapTypeOK /\ Live = alloc /\ alloc \subseteq Obj
      /\ \A o \in alloc : Refs(o) \subseteq alloc
  BY <1>2, PropagateLive
<1>4. T \subseteq Udata /\ T \subseteq alloc /\ tmudata \subseteq T /\ W \subseteq Udata \cap alloc
  BY <1>3 DEF ToFinalize, IInv, HeapInv, FreedEmpty, HeapTypeOK
<1>5. \A u \in T : Refs(u) = Objects({meta[u]}) /\ meta[u] \in Tables \cup {Nothing}
  BY <1>3, <1>4, RefsOf DEF HeapTypeOK
<1>6. /\ A \subseteq Tables \cap alloc /\ (\A o \in A : IsWhite(o))
      /\ \A u \in T : \A v \in Refs(u) : ~IsWhite(v) \/ v \in A
  BY <1>3, <1>4, <1>5, Kinds DEF White, Objects
<1> HIDE DEF W, T, A
<1>7. /\ \A o \in Obj : mark'[o] = IF o \in T THEN "black" ELSE IF o \in A THEN "gray" ELSE mark[o]
      /\ mark' \in [Obj -> Whites \cup {"gray", "black"}]
  BY <1>1 DEF IInv, GCTypeOK, Whites
<1>8. HeapInv'
  <2>1. HeapTypeOK'
    BY <1>1, <1>3, <1>4 DEF HeapTypeOK
  <2>2. FreedEmpty'
    BY <1>1, <1>4 DEF IInv, HeapInv, FreedEmpty
  <2>3. CallsChain'
    BY <1>1 DEF IInv, HeapInv, CallsChain
  <2> QED
    BY <2>1, <2>2, <2>3 DEF HeapInv
<1>9. /\ (\A o : /\ Refs(o)' = Refs(o) /\ Strong(o)' = Strong(o)
                 /\ Listed(o)' = Listed(o) /\ IsWeak(o)' = IsWeak(o))
      /\ running' = running /\ Objects({basicmt})' = Objects({basicmt})
      /\ Roots' = Roots \cup T
  <2>1. \A o : Opened(o)' = Opened(o)
    BY <1>1 DEF Opened
  <2> QED
    BY <2>1, <1>1, <1>4 DEF Refs, Strong, IsWeak, Listed, Mode, Objects, KeysOf, ValuesOf,
                            Roots, running
<1>10. /\ \A o \in Obj : ~IsWhite(o) => ~IsWhite(o)'
       /\ \A o \in Obj : IsDead(o)' => IsDead(o)
       /\ \A o \in A \cup T : ~IsWhite(o)'
       /\ \A o \in Obj : IsBlack(o)' <=> o \in T \/ (IsBlack(o) /\ o \notin A)
       /\ \A o \in Obj \ T : IsGray(o)' <=> o \in A \/ IsGray(o)
       /\ \A o \in T : o \in Obj /\ IsBlack(o)' /\ ~IsGray(o)'
       /\ A \cap T = {} /\ \A o \in Obj : IsWhite(o)' => IsWhite(o)
  BY <1>3, <1>4, <1>6, <1>7, Kinds DEF IsWhite, IsDead, IsBlack, IsGray, Whites
<1>11. \A B \in SUBSET Obj : Colored(B) => Colored(B)'
  BY <1>10 DEF Colored
<1>12. GCTypeOK'
  BY <1>1, <1>2, <1>3, <1>6, <1>7 DEF IInv, GCTypeOK
<1>13. AllLive'
  <2>1. \A o \in Obj \ alloc : o \notin T /\ o \notin A
    BY <1>4, <1>6
  <2> QED
    BY <2>1, <1>1, <1>3, <1>7, <1>10 DEF IInv, AllLive, IsDead
<1>14. NoDangling'
  <2>1. \A o \in alloc : ~IsDead(o)'
    BY <1>1, <1>2, <1>13 DEF AllLive
  <2> QED
    BY <2>1, <1>1, <1>3, <1>4, <1>9, HoldsLive DEF NoDangling
<1>15. Colours'
  <2>1. ASSUME NEW o \in Udata
        PROVE  ~IsGray(o)'
    <3>1. o \in Obj /\ o \notin A
      BY <1>6, Kinds DEF Obj
    <3> QED
      BY <3>1, <1>10 DEF IInv, Colours
  <2>2. ASSUME NEW o \in Threads \cup Strings \cup Upvals
        PROVE  mark'[o] = mark[o]
    <3>1. o \in Obj /\ o \notin A /\ o \notin T
      BY <1>4, <1>6, Kinds DEF Obj
    <3> QED
      BY <3>1, <1>7
  <2> QED
    BY <2>1, <2>2, <1>1 DEF IInv, Colours, IsGray, IsBlack
<1>16. OneListOnly'
  <2>1. OneListOnly
    BY <1>2 DEF IInv, Marking
  <2>2. \A o \in grayagain \cup weak : o \notin A
    BY <2>1, <1>2, <1>6 DEF OneListOnly, IsGray, IsWhite, Whites
  <2>3. \A o \in grayagain \cup weak : o \notin T /\ o \in alloc /\ IsGray(o)
    BY <2>1, <1>2, <1>4, Kinds DEF OneListOnly, IInv, GCTypeOK, Marking
  <2>4. gray' = A
    BY <1>1, <1>10
  <2>5. \A o \in gray' \cup grayagain' \cup weak' : o \in alloc' /\ IsGray(o)'
    BY <2>3, <2>4, <1>1, <1>3, <1>6, <1>10
  <2>6. \A o \in alloc : IsGray(o)' /\ Listed(o) => o \in gray' \cup grayagain' \cup weak'
    BY <2>1, <2>4, <1>1, <1>2, <1>3, <1>10 DEF OneListOnly
  <2> QED
    BY <2>1, <2>2, <2>4, <2>5, <2>6, <1>1, <1>2, <1>9 DEF OneListOnly
<1>17. Marking'
  <2>1. ASSUME NEW o \in alloc \ T, IsBlack(o)'
        PROVE  Colored(Refs(o))'
    <3>1. IsBlack(o) /\ o \notin tmudata /\ Refs(o) \in SUBSET Obj
      BY <2>1, <1>3, <1>4, <1>10
    <3> QED
      BY <3>1, <1>2, <1>9, <1>11 DEF IInv, Marking
  <2>2. Colored({Main, Registry})'
    BY <1>2, <1>11, Kinds DEF IInv, Marking, Obj
  <2>3. ASSUME NEW u \in Upvals \cap alloc, ~IsWhite(u)'
        PROVE  Colored(Refs(u))'
    <3>1. u \notin A /\ u \notin T
      BY <1>4, <1>6, Kinds
    <3>2. ~IsWhite(u) /\ Refs(u) \in SUBSET Obj
      BY <2>3, <3>1, <1>3, <1>7 DEF IsWhite
    <3> QED
      BY <3>2, <1>1, <1>2, <1>9, <1>11 DEF IInv, Marking
  <2>4. gray' \subseteq Tables \cup Closures \cup Threads
    BY <1>1, <1>6
  <2>5. Colored({running} \cup Objects({basicmt}))'
    <3>1. {running} \cup Objects({basicmt}) \in SUBSET Obj
      BY <1>3, Running DEF HeapTypeOK, Objects, Obj
    <3> QED
      BY <3>1, <1>1, <1>2, <1>9, <1>11 DEF IInv, Marking
  <2>6. ASSUME NEW o \in weak
        PROVE  IsWeak(o)' /\ Colored(Strong(o))'
    <3>1. o \in alloc
      BY <1>2 DEF IInv, Marking, OneListOnly
    <3>2. Strong(o) \in SUBSET Obj
      BY <3>1, <1>3, StrongRefs
    <3> QED
      BY <3>2, <1>1, <1>2, <1>9, <1>11 DEF IInv, Marking
  <2>7. ASSUME NEW o \in grayagain
        PROVE  o \in Threads /\ Colored(Refs(o))'
    <3>1. o \in alloc
      BY <1>2 DEF IInv, Marking, OneListOnly
    <3>2. Refs(o) \in SUBSET Obj
      BY <3>1, <1>3
    <3> QED
      BY <3>2, <1>1, <1>2, <1>9, <1>11 DEF IInv, Marking
  <2>8. ASSUME NEW o \in T
        PROVE  IsBlack(o)' /\ Colored(Refs(o))'
    <3>1. \A v \in Refs(o) : ~IsWhite(v)' /\ IsBlack(o)'
      BY <1>3, <1>4, <1>6, <1>10
    <3> QED
      BY <3>1, <1>9, <1>10 DEF Colored
  <2> QED
    BY <2>1, <2>2, <2>3, <2>4, <2>5, <2>6, <2>7, <2>8, <1>1, <1>2, <1>16 DEF IInv, Marking
<1>18. Sweeping'
  BY <1>1, <1>2 DEF IInv, Sweeping, SweptClean
<1> QED
  BY <1>8, <1>12, <1>13, <1>14, <1>15, <1>17, <1>18 DEF IInv

\* When all lists but those of the weak tables and the threads are empty, what is
\* marked holds the roots, and no strong reference leaves it but from userdata that
\* wait for their finalizer and were not marked again yet.
Reached == {o \in alloc : ~IsWhite(o)}

\* Nothing is left to traverse: the lemma the exchange of the whites rests on.
LEMMA AllReached ==
    ASSUME IInv, astep >= 3, gray = {}
    PROVE  /\ gcstate = "propagate"
           /\ Range(calls) \cup {Main, Registry} \cup Objects({basicmt}) \subseteq Reached
           /\ \A o \in Reached : o \notin tmudata \/ astep = 4 =>
                 Strong(o) \subseteq Reached /\ (o \notin weak => Refs(o) \subseteq Reached)
<1>1. astep \in 0..4 /\ gcstate = "propagate"
  BY DEF IInv, GCTypeOK
<1>2. /\ HeapTypeOK /\ Live = alloc /\ alloc \subseteq Obj
      /\ \A o \in alloc : Refs(o) \subseteq alloc /\ Strong(o) \subseteq Refs(o)
  BY <1>1, PropagateLive
<1>3. ASSUME NEW o \in Reached, o \notin tmudata \/ astep = 4
      PROVE  Strong(o) \subseteq Reached /\ (o \notin weak => Refs(o) \subseteq Reached)
  <2>1. o \in alloc /\ ~IsWhite(o) /\ o \in Obj
    BY <1>2, <1>3 DEF Reached
  <2>2. \A A : A \subseteq alloc /\ Colored(A) => A \subseteq Reached
    BY DEF Reached, Colored
  <2>3. Strong(o) \subseteq alloc /\ Refs(o) \subseteq alloc /\ Strong(o) \subseteq Refs(o)
    BY <1>2, <2>1
  <2>4. Colored(Strong(o)) /\ (o \notin weak => Colored(Refs(o)))
    <3>1. CASE o \in tmudata
      BY <3>1, <2>3, <1>1, <1>3 DEF IInv, Marking, Colored
    <3>2. CASE IsBlack(o) /\ o \notin tmudata
      BY <3>2, <2>1, <2>3, <1>1 DEF IInv, Marking, Colored
    <3>3. CASE IsGray(o) /\ o \in Upvals
      BY <3>3, <2>1, <2>3, <1>1 DEF IInv, Marking, Colored
    <3>4. CASE IsGray(o) /\ o \in Strings
      <4>1. Refs(o) = {}
        BY <3>4, RefsOf
      <4> QED
        BY <4>1, <2>3 DEF Colored
    <3>5. CASE IsGray(o) /\ Listed(o)
      <4>1. o \in grayagain \cup weak
        BY <3>5, <2>1, <1>1 DEF IInv, Marking, OneListOnly
      <4>2. CASE o \in grayagain
        BY <4>2, <2>3, <1>1 DEF IInv, Marking, Colored
      <4>3. CASE o \in weak
        BY <4>3, <1>1 DEF IInv, Marking
      <4> QED
        BY <4>1, <4>2, <4>3
    <3>6. o \in Udata => ~IsGray(o)
      BY DEF IInv, Colours
    <3>7. IsBlack(o) \/ IsGray(o)
      BY <2>1 DEF IInv, GCTypeOK, IsBlack, IsGray, IsWhite, Whites
    <3>8. Listed(o) \/ o \in Strings \cup Udata \cup Upvals
      BY <2>1 DEF Listed, Obj
    <3> QED
      BY <3>1, <3>2, <3>3, <3>4, <3>5, <3>6, <3>7, <3>8
  <2> QED
    BY <2>2, <2>3, <2>4
<1>4. {Main, Registry} \cup Objects({basicmt}) \subseteq Reached
  <2>1. {Main, Registry} \cup Objects({basicmt}) \subseteq alloc
    BY <1>2, HoldsLive DEF Roots
  <2>2. astep >= 2
    BY <1>1
  <2>3. \A o \in {Main, Registry} \cup Objects({basicmt}) : ~IsWhite(o)
    BY <1>1, <2>2 DEF IInv, Marking, Colored
  <2> QED
    BY <2>1, <2>3 DEF Reached
<1>5. \A o \in Reached \cap Threads : stk[o] \subseteq Reached
  <2>1. ASSUME NEW o \in Reached \cap Threads
        PROVE  stk[o] \subseteq Reached
    <3>1. Strong(o) \subseteq Reached /\ o \notin Tables
      BY <2>1, <1>2, <1>3, Kinds DEF HeapTypeOK
    <3>2. stk[o] \subseteq Refs(o) /\ Strong(o) = Refs(o)
      BY <2>1, <3>1, <1>2, RefsOf, StrongRefs, Kinds DEF HeapTypeOK, Objects, Values
    <3> QED
      BY <3>1, <3>2
  <2> QED
    BY <2>1
<1>6. Range(calls) \subseteq Reached
  BY <1>4, <1>5, CallsReached DEF IInv
<1> QED
  BY <1>1, <1>3, <1>4, <1>6

\* The roots and what lives on once the whites have been exchanged.
LEMMA ClearTablesKeeps ==
    ASSUME IInv, ClearTables
    PROVE  IInv'
<1> DEFINE kept == {o \in Strings : \E t \in weak : \E e \in ent[t] :
                       o = e[1] \/ (o = e[2] /\ ~IsCleared(e[1], TRUE))}
<1>1. /\ astep = 4 /\ gray = {} /\ astep' = 0 /\ gcstate' = "sweepstring"
      /\ ent' = [t \in Tables |-> IF t \in weak THEN {e \in ent[t] : Keeps(e)} ELSE ent[t]]
      /\ mark' = [o \in Obj |-> IF o \in kept THEN "gray" ELSE IF IsWhite(o) THEN "dead" ELSE mark[o]]
      /\ grayagain' = {} /\ weak' = {} /\ unswept' = alloc \ (Strings \cup tmudata)
      /\ UNCHANGED <<program, alloc, calls, stk, meta, ref, val, open, basicmt,
                     finalized, tmudata, tms, gray, strsize, sweepstr, full>>
  BY DEF ClearTables
<1>2. /\ gcstate = "propagate"
      /\ Range(calls) \cup {Main, Registry} \cup Objects({basicmt}) \subseteq Reached
      /\ \A o \in Reached : Strong(o) \subseteq Reached /\ (o \notin weak => Refs(o) \subseteq Reached)
  BY <1>1, AllReached
<1>3. /\ HeapTypeOK /\ Live = alloc /\ alloc \subseteq Obj
      /\ \A o \in alloc : Refs(o) \subseteq alloc
  BY <1>2, PropagateLive
<1>4. /\ weak \subseteq Tables \cap alloc
      /\ kept \subseteq Strings
      /\ \A t \in weak : \A e \in ent[t] :
            /\ e[1] \in Strings => e[1] \in kept
            /\ e[2] \in Strings /\ Keeps(e) => e[2] \in kept
  BY <1>2 DEF IInv, GCTypeOK, Marking, OneListOnly, Keeps
<1>5. kept \subseteq alloc
  <2>1. ASSUME NEW t \in weak, NEW e \in ent[t]
        PROVE  (e[1] \in Strings => e[1] \in alloc) /\ (e[2] \in Strings => e[2] \in alloc)
    <3>1. Refs(t) = Objects(KeysOf(t) \cup ValuesOf(t) \cup {meta[t]}) /\ Refs(t) \subseteq alloc
      BY <1>3, <1>4, RefsOf
    <3>2. e[1] \in KeysOf(t) /\ e[2] \in ValuesOf(t)
      BY DEF KeysOf, ValuesOf
    <3> QED
      BY <3>1, <3>2, Kinds DEF Objects, Obj
  <2> QED
    BY <2>1
<1> HIDE DEF kept
<1>6. /\ \A o \in Obj : mark'[o] = IF o \in kept THEN "gray" ELSE IF IsWhite(o) THEN "dead" ELSE mark[o]
      /\ mark' \in [Obj -> Whites \cup {"gray", "black"}]
  BY <1>1 DEF IInv, GCTypeOK, Whites
<1>7. /\ \A o \in Obj : IsDead(o)' <=> IsWhite(o) /\ o \notin kept
      /\ \A o \in Obj : mark'[o] # "white"
      /\ \A o \in Obj : IsBlack(o)' <=> IsBlack(o) /\ o \notin kept
      /\ \A o \in Obj : IsGray(o)' <=> IsGray(o) \/ o \in kept
  BY <1>6 DEF IsDead, IsWhite, IsBlack, IsGray, Whites
<1>8. /\ \A t \in Tables : ent'[t] = IF t \in weak THEN {e \in ent[t] : Keeps(e)} ELSE ent[t]
      /\ \A t \in Tables : ent'[t] \subseteq ent[t]
      /\ ent' \in [Tables -> SUBSET ((Values \cup {Nothing}) \X Values)]
  BY <1>1, <1>3 DEF HeapTypeOK
<1>9. HeapInv'
  <2>1. HeapTypeOK'
    BY <1>1, <1>3, <1>8 DEF HeapTypeOK
  <2>2. FreedEmpty'
    BY <1>1, <1>8 DEF IInv, HeapInv, FreedEmpty
  <2>3. CallsChain'
    BY <1>1 DEF IInv, HeapInv, CallsChain
  <2> QED
    BY <2>1, <2>2, <2>3 DEF HeapInv
<1>10. ASSUME NEW o \in Obj, o \notin weak
       PROVE  Refs(o)' = Refs(o)
  <2>1. Opened(o)' = Opened(o)
    BY <1>1 DEF Opened
  <2>2. o \in Tables => KeysOf(o)' = KeysOf(o) /\ ValuesOf(o)' = ValuesOf(o)
    BY <1>8, <1>10 DEF KeysOf, ValuesOf
  <2> QED
    BY <2>1, <2>2, <1>1 DEF Refs, Objects
<1>11. ASSUME NEW t \in weak, NEW v \in Refs(t)'
       PROVE  v \in Reached \cup kept
  <2>1. Refs(t)' = Objects(KeysOf(t) \cup ValuesOf(t) \cup {meta[t]})' /\ t \in Tables
    BY <1>4, RefsOfNext
  <2>2. CASE v = meta[t]
    <3>1. t \in Reached
      BY <1>2, <1>4 DEF IInv, Marking, OneListOnly, IsGray, IsWhite, Whites, Reached
    <3>2. v \in Strong(t)
      BY <2>1, <2>2, <1>1, <1>11 DEF Strong, Objects
    <3> QED
      BY <3>1, <3>2, <1>2
  <2>3. CASE v # meta[t]
    <3>1. PICK e \in ent'[t] : v = e[1] \/ v = e[2]
      BY <2>1, <2>3, <1>1, <1>11 DEF KeysOf, ValuesOf, Objects
    <3>2. e \in ent[t] /\ Keeps(e)
      BY <3>1, <1>4, <1>8
    <3>3. v \in Obj /\ v \in alloc
      <4>1. v \in Refs(t)
        BY <3>1, <3>2, <2>1, <1>4, <1>11, RefsOf DEF KeysOf, ValuesOf, Objects
      <4> QED
        BY <4>1, <1>3, <1>4
    <3>4. CASE v \in Strings
      BY <3>1, <3>2, <3>4, <1>4
    <3>5. CASE v \notin Strings
      BY <3>1, <3>2, <3>3, <3>5 DEF Keeps, IsCleared, Reached
    <3> QED
      BY <3>4, <3>5
  <2> QED
    BY <2>2, <2>3
<1>12. AllLive'
  BY <1>1, <1>3, <1>5, <1>7 DEF IInv, AllLive, IsDead, IsWhite, Whites
<1>13. NoDangling'
  <2>1. Live' = Reached \cup kept
    BY <1>1, <1>3, <1>5, <1>7 DEF Live, Reached
  <2>2. Roots' \subseteq Reached
    <3>1. tmudata \subseteq Reached
      BY <1>1, <1>2 DEF IInv, HeapInv, FreedEmpty, Marking, Reached, IsBlack, IsWhite, Whites
    <3>2. Roots' = Roots
      BY <1>1 DEF Roots, Objects
    <3> QED
      BY <3>1, <3>2, <1>2 DEF Roots
  <2>3. ASSUME NEW o \in Live'
        PROVE  Refs(o)' \subseteq Live'
    <3>1. o \in Obj
      BY <2>1, <1>3, <1>5 DEF Reached
    <3>2. CASE o \in kept
      <4>1. o \in Strings
        BY <3>2, <1>4
      <4> QED
        BY <4>1, RefsOfNext
    <3>3. CASE o \in weak
      BY <3>3, <2>1, <1>11
    <3>4. CASE o \in Reached /\ o \notin weak
      BY <3>1, <3>4, <2>1, <1>2, <1>10
    <3> QED
      BY <3>2, <3>3, <3>4, <2>1
  <2> QED
    BY <2>1, <2>2, <2>3 DEF NoDangling, Live
<1>14. Colours'
  <2>1. \A o \in Udata \cup Threads \cup Upvals : o \in Obj /\ o \notin kept
    BY <1>4, Kinds DEF Obj
  <2>2. \A o \in Strings : o \in Obj
    BY DEF Obj
  <2> QED
    BY <2>1, <2>2, <1>1, <1>7 DEF IInv, Colours
<1>15. GCTypeOK'
  BY <1>1, <1>3, <1>6 DEF IInv, GCTypeOK
<1>16. Marking'
  BY <1>1 DEF Marking
<1>17. Sweeping'
  <2>1. sweepstr' = 0 /\ strsize' \in Nat \ {0}
    BY <1>1, <1>2, <1>15 DEF IInv, Sweeping, GCTypeOK
  <2>2. \A s \in Strings : ~(Bucket(s)' < 0)
    BY <2>1, StringTable DEF Bucket
  <2>3. alloc' \ (Strings \cup tmudata' \cup unswept') = {}
    BY <1>1
  <2> QED
    BY <2>1, <2>2, <2>3, <1>1 DEF Sweeping, SweptClean
<1> QED
  BY <1>9, <1>12, <1>13, <1>14, <1>15, <1>16, <1>17 DEF IInv

\* What the sweep of the objects of S frees, and what it turns white.
Gone(S) ==
    {o \in S \cap alloc : IsDead(o) /\ o # Main}
        \cup {u \in Upvals \cap alloc : open[u] \in S /\ IsDead(u)}

\* What is freed is not live, and what the sweep passes turns white.
LEMMA SweptStep ==
    ASSUME IInv, gcstate \in {"sweepstring", "sweep"}, gcstate' \in {"sweepstring", "sweep"},
           NEW S, Swept(S), astep' = astep
    PROVE  /\ Gone(S) \subseteq alloc /\ (\A o \in Gone(S) : IsDead(o)) /\ GivenBack(Gone(S))
           /\ Gone(S) \cap Live = {}
           /\ HeapInv' /\ AllLive' /\ NoDangling' /\ Colours' /\ Marking'
           /\ mark' \in [Obj -> Whites \cup {"gray", "black"}]
           /\ \A o \in alloc' : /\ mark'[o] = "white" \/ mark'[o] = mark[o]
                                /\ o \in S => mark'[o] = "white"
                                /\ o \in Upvals /\ open[o] \in S => mark'[o] = "white"
<1> DEFINE D == Gone(S)
           Passed(o) == o \in S \/ (o \in Upvals /\ open[o] \in S)
<1>1. /\ GivenBack(D)
      /\ mark' = [o \in Obj |-> IF o \in alloc \ D /\ Passed(o) THEN "white" ELSE mark[o]]
  BY DEF Swept, GivenBack, Gone
<1>2. /\ HeapTypeOK /\ alloc \subseteq Obj /\ Main \in Live /\ Roots \subseteq Live
      /\ (\A o \in Live : Refs(o) \subseteq Live) /\ Main \in Threads
  BY HoldsLive, Kinds DEF IInv, HeapInv, HeapTypeOK, Roots
<1>3. D \in SUBSET alloc /\ (\A o \in D : IsDead(o)) /\ D \cap Live = {} /\ D \cap Roots = {}
  BY <1>2 DEF Gone, Live
<1>4. \A o \in alloc \ D : Passed(o) => ~IsDead(o)
  BY <1>2 DEF Gone, Live
<1> HIDE DEF D, Passed
<1>5. HeapInv' /\ (\A x \in Obj : Refs(x)' \subseteq Refs(x))
  BY <1>1, <1>3, GivenBackStep DEF IInv
<1>6. alloc' = alloc \ D /\ UNCHANGED <<calls, basicmt, tmudata>>
  BY <1>1 DEF GivenBack
<1>7. /\ mark' \in [Obj -> Whites \cup {"gray", "black"}]
      /\ \A o \in Obj : mark'[o] = IF o \in alloc \ D /\ Passed(o) THEN "white" ELSE mark[o]
  BY <1>1 DEF IInv, GCTypeOK, Whites
<1>8. \A o \in Obj : IsDead(o)' <=> IsDead(o)
  BY <1>4, <1>7 DEF IsDead
<1>9. AllLive'
  BY <1>3, <1>6, <1>8 DEF IInv, AllLive
<1>10. Live' = Live
  BY <1>2, <1>3, <1>6, <1>8 DEF Live
<1>11. NoDangling'
  <2>1. Roots' = Roots
    BY <1>6 DEF Roots, Objects
  <2>2. Live \subseteq Obj
    BY <1>2 DEF Live
  <2>3. \A x \in Live : Refs(x)' \subseteq Live
    BY <2>2, <1>2, <1>5
  <2> QED
    BY <2>1, <2>3, <1>2, <1>10 DEF NoDangling, Live
<1>12. Colours'
  <2>1. ASSUME NEW u \in Upvals
        PROVE  (IsGray(u)' => open'[u] # Nothing) /\ (IsBlack(u)' => open'[u] = Nothing)
    <3>1. u \in Obj
      BY DEF Obj
    <3>2. open'[u] = IF u \in D \/ open[u] \in D THEN Nothing ELSE open[u]
      BY <1>1 DEF GivenBack
    <3>3. ASSUME IsGray(u)'
          PROVE  open'[u] # Nothing
      <4>1. IsGray(u) /\ open[u] # Nothing
        BY <3>1, <3>3, <1>7 DEF IsGray, IInv, Colours
      <4>2. u \in alloc /\ u \notin D
        BY <4>1, <3>1, <1>3 DEF IsGray, IsDead, IInv, AllLive
      <4>3. ~Passed(u)
        BY <4>2, <3>1, <3>3, <1>7 DEF IsGray
      <4>4. open[u] \notin D
        <5>1. open[u] \in Threads
          BY <4>1, <1>2 DEF HeapTypeOK
        <5>2. open[u] \in D => open[u] \in S
          BY <5>1, Kinds DEF D, Gone
        <5> QED
          BY <4>3, <5>2 DEF Passed
      <4> QED
        BY <4>1, <4>2, <4>4, <3>2
    <3> QED
      BY <3>1, <3>2, <3>3, <1>7 DEF IsBlack, IInv, Colours
  <2>2. \A o \in Udata \cup Threads \cup Strings : o \in Obj
    BY DEF Obj
  <2> QED
    BY <2>1, <2>2, <1>7 DEF IInv, Colours, IsGray, IsBlack
<1>13. Marking'
  BY DEF Marking
<1>14. \A o \in alloc' : /\ mark'[o] = "white" \/ mark'[o] = mark[o]
                         /\ o \in S => mark'[o] = "white"
                         /\ o \in Upvals /\ open[o] \in S => mark'[o] = "white"
  BY <1>2, <1>6, <1>7 DEF Passed
<1> QED
  BY <1>1, <1>3, <1>5, <1>7, <1>9, <1>11, <1>12, <1>13, <1>14 DEF D

\* sweepwholelist: one bucket of the string table.
LEMMA SweepStringKeeps ==
    ASSUME IInv, SweepString
    PROVE  IInv'
<1> DEFINE S == {s \in Strings \cap alloc : Bucket(s) = sweepstr}
<1>1. /\ gcstate = "sweepstring" /\ Swept(S)
      /\ IF sweepstr + 1 < strsize
         THEN sweepstr' = sweepstr + 1 /\ gcstate' = "sweepstring"
         ELSE sweepstr' = 0 /\ gcstate' = "sweep"
      /\ UNCHANGED <<astep, gray, grayagain, weak, strsize, unswept, full>>
  BY DEF SweepString
<1>2. \A s \in Strings \cap alloc : Bucket(s) = sweepstr => s \in S
  OBVIOUS
<1> HIDE DEF S
<1>3. /\ HeapInv' /\ AllLive' /\ NoDangling' /\ Colours' /\ Marking'
      /\ mark' \in [Obj -> Whites \cup {"gray", "black"}]
      /\ \A o \in alloc' : /\ mark'[o] = "white" \/ mark'[o] = mark[o]
                           /\ o \in S => mark'[o] = "white"
      /\ GivenBack(Gone(S))
  BY <1>1, SweptStep
<1>4. alloc' \subseteq alloc /\ tmudata' = tmudata
  BY <1>3 DEF GivenBack
<1>5. sweepstr \in Nat /\ strsize \in Nat \ {0} /\ sweepstr < strsize
  BY <1>1 DEF IInv, GCTypeOK, Sweeping
<1>6. GCTypeOK'
  BY <1>1, <1>3, <1>5 DEF IInv, GCTypeOK
<1>7. \A s \in Strings : Bucket(s) \in Nat /\ Bucket(s) < strsize /\ Bucket(s)' = Bucket(s)
  BY <1>1, <1>5, StringTable DEF Bucket
<1>8. \A s \in Strings \cap alloc' : Bucket(s) < sweepstr + 1 => mark'[s] = "white"
  BY <1>1, <1>2, <1>3, <1>4, <1>5, <1>7 DEF IInv, Sweeping
<1>9. Sweeping'
  <2>1. \A o \in alloc' \ (Strings \cup tmudata' \cup unswept') : mark'[o] = "white"
    BY <1>1, <1>3, <1>4 DEF IInv, Sweeping
  <2>2. CASE sweepstr + 1 < strsize
    BY <2>1, <2>2, <1>1, <1>7, <1>8 DEF Sweeping, SweptClean
  <2>3. CASE ~(sweepstr + 1 < strsize)
    <3>1. \A s \in Strings \cap alloc' : mark'[s] = "white"
      BY <2>3, <1>5, <1>7, <1>8
    <3> QED
      BY <2>1, <2>3, <3>1, <1>1 DEF Sweeping, SweptClean
  <2> QED
    BY <2>2, <2>3
<1> QED
  BY <1>3, <1>6, <1>9 DEF IInv

\* sweeplist: one object, with the upvalues open in it if it is a thread.
LEMMA SweepKeeps ==
    ASSUME IInv, NEW o, Sweep(o)
    PROVE  IInv'
<1> DEFINE S == {o}
<1>1. /\ gcstate = "sweep" /\ Swept(S) /\ o \in unswept
      /\ unswept' = unswept \ (S \cup {u \in Upvals : open[u] \in S})
      /\ UNCHANGED <<gcstate, astep, gray, grayagain, weak, strsize, sweepstr, full>>
  BY DEF Sweep
<1> HIDE DEF S
<1>2. /\ HeapInv' /\ AllLive' /\ NoDangling' /\ Colours' /\ Marking'
      /\ mark' \in [Obj -> Whites \cup {"gray", "black"}]
      /\ \A x \in alloc' : /\ mark'[x] = "white" \/ mark'[x] = mark[x]
                           /\ x \in S => mark'[x] = "white"
                           /\ x \in Upvals /\ open[x] \in S => mark'[x] = "white"
      /\ GivenBack(Gone(S))
  BY <1>1, SweptStep
<1>3. alloc' \subseteq alloc /\ tmudata' = tmudata
  BY <1>2 DEF GivenBack
<1>4. GCTypeOK'
  BY <1>1, <1>2 DEF IInv, GCTypeOK
<1>5. Sweeping'
  <2>1. \A x \in alloc' \ (Strings \cup tmudata' \cup unswept') : mark'[x] = "white"
    BY <1>1, <1>2, <1>3 DEF IInv, Sweeping
  <2>2. \A s \in Strings \cap alloc' : mark'[s] = "white"
    BY <1>1, <1>2, <1>3 DEF IInv, Sweeping, SweptClean
  <2> QED
    BY <2>1, <2>2, <1>1 DEF IInv, Sweeping, SweptClean
<1> QED
  BY <1>2, <1>4, <1>5 DEF IInv

\* The sweep has passed everything, so all that has memory is live.
LEMMA EndSweepKeeps ==
    ASSUME IInv, EndSweep
    PROVE  IInv'
<1>1. /\ gcstate = "sweep" /\ unswept = {} /\ gcstate' = "finalize"
      /\ UNCHANGED heap
      /\ UNCHANGED <<mark, astep, gray, grayagain, weak, sweepstr, unswept, full>>
  BY DEF EndSweep
<1>2. strsize' \in Nat \ {0}
  <2>1. strsize \in Nat \ {0} /\ MinStrTab \in Nat \ {0}
    BY StringTable DEF IInv, GCTypeOK
  <2>2. strsize' = strsize \/ (strsize > 2 * MinStrTab /\ strsize' = strsize \div 2)
    BY DEF EndSweep
  <2> QED
    BY <2>1, <2>2
<1>3. /\ HeapInv' /\ (\A o : Refs(o)' = Refs(o) /\ Listed(o)' = Listed(o)) /\ Roots' = Roots
      /\ alloc' = alloc /\ tmudata' = tmudata /\ open' = open
  BY <1>1, SameHeap DEF IInv
<1>4. \A o : IsDead(o)' = IsDead(o) /\ IsBlack(o)' = IsBlack(o) /\ IsGray(o)' = IsGray(o)
  BY <1>1 DEF IsDead, IsBlack, IsGray
<1>5. \A o \in alloc \ tmudata : mark[o] = "white"
  BY <1>1 DEF IInv, Sweeping, SweptClean
<1>6. \A o \in alloc : ~IsDead(o)
  BY <1>5, HoldsLive DEF IsDead, Roots, Live
<1>7. GCTypeOK' /\ Marking'
  BY <1>1, <1>2 DEF IInv, GCTypeOK, Marking
<1>8. AllLive' /\ NoDangling' /\ Colours'
  BY <1>1, <1>3, <1>4, <1>6 DEF IInv, AllLive, NoDangling, Colours
<1>9. Sweeping'
  BY <1>1, <1>3, <1>5 DEF IInv, Sweeping, SweptClean
<1> QED
  BY <1>3, <1>7, <1>8, <1>9 DEF IInv

\* GCTM: the userdata is white again, and its finalizer refers to it.
LEMMA FinalizeKeeps ==
    ASSUME IInv, NEW u, Finalize(u)
    PROVE  IInv'
<1>1. /\ gcstate = "finalize" /\ CallTM(u) /\ mark' = [mark EXCEPT ![u] = "white"]
      /\ UNCHANGED <<gcstate, astep, gray, grayagain, weak, strsize, sweepstr, unswept, full>>
  BY DEF Finalize
<1>2. /\ u \in tmudata /\ tmudata' = tmudata \ {u}
      /\ UNCHANGED <<alloc, calls, open, basicmt>>
  BY <1>1 DEF CallTM
<1>3. /\ HeapInv'
      /\ \A x \in Obj \ Threads : Refs(x)' = Refs(x)
      /\ \A x \in Threads : Refs(x)' \subseteq Refs(x) \cup Objects({u})
  BY <1>1, CallTMStep DEF IInv
<1>4. u \in Live /\ u \in Obj /\ u \in Udata /\ alloc \subseteq Obj
  BY <1>2, HoldsLive DEF Roots, IInv, HeapInv, HeapTypeOK, Obj
<1>5. /\ mark' \in [Obj -> Whites \cup {"gray", "black"}]
      /\ \A x \in Obj : mark'[x] = IF x = u THEN "white" ELSE mark[x]
  BY <1>1 DEF IInv, GCTypeOK, Whites
<1>6. \A x \in Obj : IsDead(x)' <=> IsDead(x)
  BY <1>4, <1>5 DEF IsDead, Live
<1>7. Live' = Live
  BY <1>2, <1>4, <1>6 DEF Live
<1>8. GCTypeOK' /\ Marking'
  BY <1>1, <1>5 DEF IInv, GCTypeOK, Marking
<1>9. AllLive'
  BY <1>1, <1>2, <1>4, <1>6 DEF IInv, AllLive
<1>10. NoDangling'
  <2>1. Roots' \subseteq Roots
    BY <1>2 DEF Roots, Objects
  <2>2. \A x \in Live : Refs(x)' \subseteq Live
    <3>1. \A x \in Obj : Refs(x)' \subseteq Refs(x) \cup {u}
      BY <1>3 DEF Objects
    <3>2. Live \subseteq Obj
      BY <1>4 DEF Live
    <3> QED
      BY <3>1, <3>2, <1>4, HoldsLive
  <2> QED
    BY <2>1, <2>2, <1>7, HoldsLive DEF NoDangling, Live
<1>11. Colours'
  <2>1. \A x \in Udata \cup Threads \cup Strings \cup Upvals : x \in Obj
    BY DEF Obj
  <2> QED
    BY <2>1, <1>2, <1>4, <1>5, Kinds DEF IInv, Colours, IsGray, IsBlack
<1>12. Sweeping'
  BY <1>1, <1>2, <1>4, <1>5 DEF IInv, Sweeping, SweptClean
<1> QED
  BY <1>3, <1>8, <1>9, <1>10, <1>11, <1>12 DEF IInv

\* The finalizers have been called.
LEMMA EndCycleKeeps ==
    ASSUME IInv, EndCycle
    PROVE  IInv'
<1>1. /\ gcstate = "finalize" /\ gcstate' = "pause" /\ full' = NotFull
      /\ UNCHANGED heap
      /\ UNCHANGED <<mark, astep, gray, grayagain, weak, strsize, sweepstr, unswept>>
  BY DEF EndCycle
<1>2. /\ HeapInv' /\ (\A o : Refs(o)' = Refs(o)) /\ Roots' = Roots
      /\ alloc' = alloc /\ tmudata' = tmudata /\ open' = open
  BY <1>1, SameHeap DEF IInv
<1>3. \A o : IsDead(o)' = IsDead(o) /\ IsBlack(o)' = IsBlack(o) /\ IsGray(o)' = IsGray(o)
  BY <1>1 DEF IsDead, IsBlack, IsGray
<1>4. GCTypeOK' /\ Marking'
  BY <1>1 DEF IInv, GCTypeOK, Marking, NotFull
<1>5. AllLive' /\ NoDangling' /\ Colours'
  BY <1>1, <1>2, <1>3 DEF IInv, AllLive, NoDangling, Colours
<1>6. Sweeping'
  BY <1>1, <1>2 DEF IInv, Sweeping, SweptClean
<1> QED
  BY <1>2, <1>4, <1>5, <1>6 DEF IInv


-----------------------------------------------------------------------------
(* The invariant of every run, and what it says.                             *)

\* After f_luaopen the heap has the main thread and the registry.
LEMMA InitHolds ==
    ASSUME Init
    PROVE  IInv
<1>1. /\ program \in Programs /\ alloc = {Main, Registry} /\ calls = <<Main>>
      /\ stk = [o \in Threads |-> {}] /\ ent = [o \in Tables |-> {}]
      /\ meta = [o \in Tables \cup Udata |-> Nothing] /\ ref = [o \in Closures |-> {}]
      /\ val = [o \in Upvals |-> Nothing] /\ open = [o \in Upvals |-> Nothing]
      /\ basicmt = Nothing /\ finalized = {} /\ tmudata = {} /\ tms = [o \in Threads |-> {}]
      /\ mark = [o \in Obj |-> IF o \in {Main, Registry} THEN "white" ELSE "dead"]
      /\ gcstate = "pause" /\ astep = 0 /\ gray = {} /\ grayagain = {} /\ weak = {}
      /\ strsize = MinStrTab /\ sweepstr = 0 /\ unswept = {} /\ full = NotFull
  BY DEF Init, HeapInit
<1>2. Main \in Threads /\ Registry \in Tables /\ Main \in Obj /\ Registry \in Obj /\ Nothing \notin Obj
  BY Kinds DEF Obj
<1>3. /\ Len(calls) = 1 /\ calls[1] = Main /\ calls \in Seq(Threads) /\ calls # <<>>
  BY <1>1, <1>2
<1>4. HeapTypeOK
  BY <1>1, <1>2, <1>3 DEF HeapTypeOK
<1>5. FreedEmpty /\ CallsChain
  BY <1>1, <1>3 DEF FreedEmpty, CallsChain
<1>6. Range(calls) = {Main}
  BY <1>3, <1>4, Running
<1>7. \A o \in Obj : mark[o] = IF o \in {Main, Registry} THEN "white" ELSE "dead"
  BY <1>1
<1>8. GCTypeOK
  BY <1>1, StringTable DEF GCTypeOK, Whites, NotFull
<1>9. AllLive
  BY <1>1, <1>2, <1>7 DEF AllLive, IsDead
<1>10. NoDangling
  <2>1. Refs(Main) = {} /\ Refs(Registry) = {}
    <3>1. Opened(Main) = {}
      BY <1>1, <1>2 DEF Opened, Obj
    <3>2. KeysOf(Registry) = {} /\ ValuesOf(Registry) = {}
      BY <1>1, <1>2 DEF KeysOf, ValuesOf
    <3>3. meta[Registry] = Nothing /\ stk[Main] = {} /\ tms[Main] = {}
      BY <1>1, <1>2
    <3> QED
      BY <3>1, <3>2, <3>3, <1>2, RefsOf DEF Objects
  <2>2. Roots = {Main, Registry}
    BY <1>1, <1>6 DEF Roots, Objects
  <2> QED
    BY <2>1, <2>2, <1>1, <1>2, <1>7 DEF NoDangling, IsDead
<1>11. Colours
  BY <1>7 DEF Colours, IsGray, IsBlack, Obj
<1>12. Marking
  BY <1>1 DEF Marking
<1>13. Sweeping
  BY <1>1, <1>2, <1>7 DEF Sweeping, SweptClean
<1> QED
  BY <1>4, <1>5, <1>8, <1>9, <1>10, <1>11, <1>12, <1>13 DEF IInv, HeapInv

\* Each action keeps the invariant.
LEMMA NextKeeps ==
    ASSUME IInv, [Next]_vars
    PROVE  IInv'
<1>1. CASE UNCHANGED vars
  <2>1. UNCHANGED heap /\ UNCHANGED <<mark, gcstate, astep, gray, grayagain, weak, strsize, sweepstr,
                                      unswept, full>>
    BY <1>1 DEF vars, gcvars
  <2>2. /\ HeapInv' /\ Roots' = Roots
        /\ (\A o : /\ Refs(o)' = Refs(o) /\ Strong(o)' = Strong(o)
                   /\ IsWeak(o)' = IsWeak(o) /\ Listed(o)' = Listed(o))
        /\ running' = running /\ Objects({basicmt})' = Objects({basicmt})
        /\ alloc' = alloc /\ tmudata' = tmudata /\ open' = open
    BY <2>1, SameHeap DEF IInv
  <2>3. \A o : /\ IsDead(o)' = IsDead(o) /\ IsWhite(o)' = IsWhite(o)
               /\ IsBlack(o)' = IsBlack(o) /\ IsGray(o)' = IsGray(o)
    BY <2>1 DEF IsDead, IsWhite, IsBlack, IsGray
  <2>4. GCTypeOK' /\ AllLive' /\ NoDangling' /\ Colours'
    BY <2>1, <2>2, <2>3 DEF IInv, GCTypeOK, AllLive, NoDangling, Colours
  <2>5. Sweeping'
    BY <2>1, <2>2 DEF IInv, Sweeping, SweptClean, Bucket
  <2>6. Marking'
    <3>1. /\ \A o : Colored(Refs(o))' = Colored(Refs(o)) /\ Colored(Strong(o))' = Colored(Strong(o))
          /\ Colored({running} \cup Objects({basicmt}))' = Colored({running} \cup Objects({basicmt}))
          /\ Colored({Main, Registry})' = Colored({Main, Registry})
      BY <2>2, <2>3 DEF Colored
    <3>2. OneListOnly' = OneListOnly
      BY <2>1, <2>2, <2>3 DEF OneListOnly
    <3> QED
      BY <3>1, <3>2, <2>1, <2>2, <2>3 DEF IInv, Marking
  <2> QED
    BY <2>2, <2>4, <2>5, <2>6 DEF IInv
<1>2. CASE Collector
  BY <1>2, StartCycleKeeps, RemarkUpvalsKeeps, PropagateAllKeeps, RemarkWeakKeeps,
     RemarkGrayAgainKeeps, SeparateUdataKeeps, ClearTablesKeeps, SweepStringKeeps,
     EndSweepKeeps, EndCycleKeeps, PropagateKeeps, SweepKeeps, FinalizeKeeps DEF Collector
<1>3. CASE FullGCMarks
  BY <1>3, FullGCMarksKeeps
<1>4. CASE Mutator
  BY <1>4, NewKeeps, InternKeeps, DropKeeps, TMReturnsKeeps, ResumeKeeps, LoadKeeps,
     SetEntryKeeps, SetMetatableKeeps, SetBasicKeeps, MakeClosureKeeps, SetUpvalueKeeps,
     ShareUpvalueKeeps, YieldKeeps, CloseUpvaluesKeeps, FullGCKeeps DEF Mutator
<1> QED
  BY <1>1, <1>2, <1>3, <1>4 DEF Next

\* The inductive invariant of the collector.
LEMMA Invariant == Spec => []IInv
<1>1. Init => IInv
  BY InitHolds
<1>2. IInv /\ [Next]_vars => IInv'
  BY NextKeeps
<1> QED
  BY <1>1, <1>2, PTL DEF Spec

\* The collector's books are in order in every state: the types, the lists linked
\* through gclist, and what the sweep of lgc.c has passed.
THEOREM BooksHold == Spec => []BooksInOrder
<1>1. IInv => BooksInOrder
  <2>1. IInv => OneListOnly
    BY DEF IInv, Marking, OneListOnly
  <2> QED
    BY <2>1 DEF IInv, HeapInv, BooksInOrder, TypeOK, Sweeping
<1> QED
  BY <1>1, Invariant, PTL

\* sweeplist frees nothing that the program can still reach: whatever a live
\* object or a root of lgc.c refers to has memory and is not about to lose it.
THEOREM NothingDangles == Spec => []NoDangling
<1>1. IInv => NoDangling
  BY DEF IInv
<1> QED
  BY <1>1, Invariant, PTL

\* While the collector marks, the barriers of lapi.c and lvm.c have kept every
\* black object from a strong reference to a white one.
THEOREM BarriersHold == Spec => []BlackToWhite
<1>1. IInv => BlackToWhite
  <2> SUFFICES ASSUME IInv, gcstate = "propagate", NEW o \in alloc, IsBlack(o),
                      o \in tmudata => astep = 4
               PROVE  \A v \in Strong(o) : ~IsWhite(v)
    BY DEF BlackToWhite
  <2>1. Colored(Refs(o))
    BY DEF IInv, Marking
  <2> QED
    BY <2>1, StrongRefs DEF Colored
<1> QED
  BY <1>1, Invariant, PTL

-----------------------------------------------------------------------------
(* Every step of the collector is one that a program may rely on.            *)

\* What is not live cannot be reached.
LEMMA DeadUnreachable ==
    ASSUME IInv
    PROVE  alloc \ Live \subseteq Unreachable
<1>1. /\ Live \subseteq alloc /\ Roots \subseteq Live
      /\ \A o \in Live \ {} : Strong(o) \subseteq Live
  BY HoldsLive, StrongRefs DEF Live
<1> QED
  BY <1>1, Outside DEF Unreachable

\* What is separated is outside of what was marked and of what waited already.
LEMMA SeparateImplements ==
    ASSUME IInv, SeparateUdata
    PROVE  EndOfMark
<1>1. /\ astep = 3 /\ gray = {} /\ finalized' = finalized \cup ToFinalize
      /\ tmudata' = tmudata \cup {u \in ToFinalize : NeedsGC(u)}
      /\ UNCHANGED <<program, alloc, calls, stk, ent, meta, ref, val, open, basicmt, tms>>
  BY DEF SeparateUdata
<1> DEFINE C == Reached \cup tmudata
<1>2. /\ Range(calls) \cup {Main, Registry} \cup Objects({basicmt}) \subseteq Reached
      /\ \A o \in Reached : o \notin tmudata => Strong(o) \subseteq Reached
  BY <1>1, AllReached
<1>3. alloc \ C \subseteq OutOfReach(Roots \ tmudata, tmudata)
  <2>1. C \subseteq alloc
    BY DEF Reached, IInv, HeapInv, FreedEmpty
  <2>2. Roots \ tmudata \subseteq C /\ \A o \in C \ tmudata : Strong(o) \subseteq C
    BY <1>2 DEF Roots
  <2> HIDE DEF C
  <2> QED
    BY <2>1, <2>2, Outside
<1>4. ToFinalize \subseteq Udata /\ ToFinalize \subseteq alloc \ C /\ ToFinalize \cap finalized = {}
  BY DEF ToFinalize, Reached
<1>5. finalized' \ finalized = ToFinalize
  BY <1>1, <1>4
<1>6. Separate
  BY <1>1, <1>3, <1>4, <1>5 DEF Separate
<1>7. Clear
  BY <1>1 DEF Clear
<1> QED
  BY <1>1, <1>6, <1>7 DEF EndOfMark

\* What is cleared is outside of what was marked, or was given to a finalizer.
LEMMA ClearImplements ==
    ASSUME IInv, ClearTables
    PROVE  EndOfMark
<1>1. /\ astep = 4 /\ gray = {}
      /\ ent' = [t \in Tables |-> IF t \in weak THEN {e \in ent[t] : Keeps(e)} ELSE ent[t]]
      /\ UNCHANGED <<program, alloc, calls, stk, meta, ref, val, open, basicmt,
                     finalized, tmudata, tms>>
  BY DEF ClearTables
<1>2. /\ gcstate = "propagate"
      /\ Range(calls) \cup {Main, Registry} \cup Objects({basicmt}) \subseteq Reached
      /\ \A o \in Reached : Strong(o) \subseteq Reached
  BY <1>1, AllReached
<1>3. alloc \ Reached \subseteq Unreachable
  <2>1. tmudata \subseteq Reached
    BY <1>1, <1>2 DEF IInv, HeapInv, FreedEmpty, Marking, Reached, IsBlack, IsWhite, Whites
  <2>2. /\ Reached \subseteq alloc /\ Roots \subseteq Reached
        /\ \A o \in Reached \ {} : Strong(o) \subseteq Reached
    BY <2>1, <1>2 DEF Roots, Reached
  <2> QED
    BY <2>2, Outside DEF Unreachable
<1>4. Separate
  <2>1. finalized' \ finalized = {}
    BY <1>1
  <2> QED
    BY <2>1, <1>1 DEF Separate
<1>5. ASSUME NEW t \in Tables, NEW e \in ent[t] \ ent'[t]
      PROVE  Clearable(e[1], TRUE) \/ Clearable(e[2], FALSE)
  <2>1. t \in weak /\ ~Keeps(e)
    BY <1>1, <1>5
  <2>2. Refs(t) \subseteq alloc /\ Refs(t) = Objects(KeysOf(t) \cup ValuesOf(t) \cup {meta[t]})
    BY <2>1, <1>2, RefsOf, PropagateLive DEF IInv, Marking, OneListOnly
  <2>3. ASSUME NEW v, v \in Obj, v = e[1] \/ v = e[2]
        PROVE  v \in alloc
    <3>1. v \in KeysOf(t) \cup ValuesOf(t) /\ v # Nothing
      BY <1>5, <2>3, Kinds DEF KeysOf, ValuesOf
    <3> QED
      BY <3>1, <2>2 DEF Objects
  <2>4. \A v : v \in alloc /\ IsWhite(v) => v \in Unreachable
    BY <1>3 DEF Reached
  <2>5. finalized' = finalized
    BY <1>1
  <2> QED
    BY <2>1, <2>3, <2>4, <2>5 DEF Keeps, IsCleared, Clearable
<1>6. \A t \in Tables : ent'[t] \subseteq ent[t]
  BY <1>1
<1>7. Clear
  BY <1>5, <1>6 DEF Clear
<1> QED
  BY <1>1, <1>4, <1>7 DEF EndOfMark

\* What is swept cannot be reached.
LEMMA SweptImplements ==
    ASSUME IInv, gcstate \in {"sweepstring", "sweep"}, gcstate' \in {"sweepstring", "sweep"},
           NEW S, Swept(S), astep' = astep
    PROVE  Free \/ UNCHANGED heap
<1> DEFINE D == Gone(S)
<1>1. D \subseteq alloc /\ GivenBack(D) /\ D \cap Live = {}
  BY SweptStep
<1> HIDE DEF D
<1>2. D \in SUBSET alloc /\ D \cap Roots = {} /\ D \subseteq Unreachable
  BY <1>1, HoldsLive, DeadUnreachable
<1>3. CASE D = {}
  BY <1>1, <1>2, <1>3, GivenBackStep DEF IInv
<1>4. CASE D # {}
  <2>1. alloc \ alloc' = D /\ alloc' \subseteq alloc
    BY <1>1 DEF GivenBack
  <2> QED
    BY <1>1, <1>2, <1>4, <2>1 DEF Free, GivenBack
<1> QED
  BY <1>3, <1>4

\* An upvalue luaF_close frees cannot be reached.
LEMMA CloseImplements ==
    ASSUME IInv, GCCloseUpvalues
    PROVE  CloseUpvalues
<1> DEFINE dead == {u \in Opened(running) : IsDead(u)}
<1>1. CloseAllBut(dead)
  BY DEF GCCloseUpvalues
<1>2. dead \subseteq Opened(running) /\ dead \subseteq alloc \ Live
  BY DEF Opened, Live
<1> HIDE DEF dead
<1>3. alloc \ alloc' = dead
  BY <1>1, <1>2 DEF CloseAllBut
<1> QED
  BY <1>1, <1>2, <1>3, DeadUnreachable DEF CloseUpvalues

\* The step simulation: each step of lgc.c, of the calls of lapi.c and of the
\* instructions of lvm.c is a step of the heap a program may rely on, or leaves
\* the heap alone.
LEMMA StepImplements ==
    ASSUME IInv, [Next]_vars
    PROVE  [HeapNext]_heap
<1>1. CASE UNCHANGED vars
  BY <1>1 DEF vars
<1>2. CASE \/ StartCycle \/ RemarkUpvals \/ PropagateAll \/ RemarkWeak \/ RemarkGrayAgain
           \/ EndSweep \/ EndCycle \/ FullGCMarks \/ FullGC \/ \E o \in Obj : Propagate(o)
  BY <1>2 DEF StartCycle, RemarkUpvals, PropagateAll, RemarkWeak, RemarkGrayAgain,
              EndSweep, EndCycle, FullGCMarks, FullGC, Propagate
<1>3. CASE SeparateUdata \/ ClearTables
  BY <1>3, SeparateImplements, ClearImplements DEF HeapNext
<1>4. CASE SweepString
  <2>1. /\ gcstate \in {"sweepstring", "sweep"} /\ gcstate' \in {"sweepstring", "sweep"}
        /\ astep' = astep /\ Swept({s \in Strings \cap alloc : Bucket(s) = sweepstr})
    BY <1>4 DEF SweepString
  <2> QED
    BY <2>1, SweptImplements DEF HeapNext
<1>5. ASSUME NEW o \in Obj, Sweep(o)
      PROVE  Free \/ UNCHANGED heap
  <2>1. /\ gcstate \in {"sweepstring", "sweep"} /\ gcstate' \in {"sweepstring", "sweep"}
        /\ astep' = astep /\ Swept({o})
    BY <1>5 DEF Sweep
  <2> QED
    BY <2>1, SweptImplements
<1>6. CASE \E u \in Udata : Finalize(u)
  BY <1>6 DEF Finalize, HeapNext
<1>7. CASE Mutator /\ ~FullGC
  <2>1. CASE GCCloseUpvalues
    BY <2>1, CloseImplements DEF HeapNext, Program
  <2>2. CASE ~GCCloseUpvalues
    <3>1. Program
      BY <1>7, <2>2 DEF Mutator, Program, GCNew, GCIntern, GCDrop, GCTMReturns, GCResume,
         GCLoad, GCSetEntry, GCSetMetatable, GCSetBasicMetatable, GCMakeClosure, GCSetUpvalue,
         GCShareUpvalue, GCYield
    <3> QED
      BY <3>1 DEF HeapNext
  <2> QED
    BY <2>1, <2>2
<1> QED
  BY <1>1, <1>2, <1>3, <1>4, <1>5, <1>6, <1>7 DEF Next, Collector, HeapNext

\* The collector of lgc.c implements the heap that a program may rely on: it frees
\* what cannot be reached, clears the entries of weak tables that refer to garbage,
\* calls a finalizer once and for userdata nothing else refers to, and does
\* nothing else, whatever the program does between its steps.
THEOREM CollectorImplementsHeap == Spec => HeapSpec
<1>1. Init => HeapInit
  BY DEF Init
<1>2. IInv /\ [Next]_vars => [HeapNext]_heap
  BY StepImplements
<1> QED
  BY <1>1, <1>2, Invariant, PTL DEF Spec, HeapSpec

============================================================================
