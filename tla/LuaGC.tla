------------------------------- MODULE LuaGC -------------------------------
(***************************************************************************)
(* The incremental mark-and-sweep collector of lgc.c, interleaved with the *)
(* program of module LuaHeap: every call of the program runs its write     *)
(* barrier, and a step of the collector (singlestep) may come between any  *)
(* two of them, as luaC_checkGC lets it.  The atomic phase is a sequence   *)
(* of steps the program cannot come between, one per line of atomic().     *)
(* The order of the lists of lgc.c is abstracted: a list is a set, and     *)
(* its head any member.                                                    *)
(***************************************************************************)
EXTENDS LuaHeap

CONSTANTS
    HashOf,       \* string |-> hash
    MinStrTab     \* initial size of the string table (MINSTRTABSIZE)

ASSUME StringTable == HashOf \in [Strings -> Nat] /\ MinStrTab \in Nat \ {0}

VARIABLES
    mark,       \* object |-> its colour
    gcstate,
    astep,      \* the line of atomic() reached
    gray, grayagain, weak,    \* the lists linked through gclist
    strsize,    \* size of the string table
    sweepstr,   \* the next of its buckets to sweep
    unswept,    \* the objects after sweepgc
    full        \* what is left of luaC_fullgc, and the finalizers running when it was called

gcvars == <<mark, gcstate, astep, gray, grayagain, weak, strsize, sweepstr,
            unswept, full>>
vars == <<heap, gcvars>>

NotFull == [at |-> "no", tms |-> {}]

\* The two whites: the current one of g->currentwhite, and the other, which an
\* object keeps when the collector has not reached it.
Whites == {"white", "dead"}
IsWhite(o) == mark[o] \in Whites
IsDead(o) == mark[o] = "dead"
IsBlack(o) == mark[o] = "black"
IsGray(o) == mark[o] = "gray"

White(S) == {o \in S : IsWhite(o)}

-----------------------------------------------------------------------------
(* reallymarkobject: a string turns gray and is done, a userdata turns black *)
(* and marks its metatable, an upvalue marks its value; the others turn gray *)
(* and wait in the gray list.                                                *)

MarksAtOnce(o) == IF o \in Udata \cup Upvals THEN White(Refs(o)) ELSE {}
MarkedWith(S) ==
    LET again(T) == T \cup UNION {MarksAtOnce(o) : o \in T}
    IN  again(again(White(S)))
MarkColor(o) ==
    IF o \in Udata \/ (o \in Upvals /\ open[o] = Nothing) THEN "black" ELSE "gray"
Listed(o) == o \in Tables \cup Closures \cup Threads

\* The marks after the objects of S are marked, the objects of B being black
\* and those of W gray.
Marked(S, B, W) ==
    [o \in Obj |-> IF o \in MarkedWith(S) THEN MarkColor(o)
                   ELSE IF o \in W THEN "gray"
                   ELSE IF o \in B THEN "black" ELSE mark[o]]
NewGray(S) == {o \in MarkedWith(S) : Listed(o)}

MarkRoot ==
    LET S == {Main, Registry} \cup Objects({basicmt})
    IN  /\ mark' = Marked(S, {}, {})
        /\ gray' = NewGray(S) /\ grayagain' = {} /\ weak' = {}
        /\ gcstate' = "propagate"

\* propagatemark of the gray objects of S: a weak table and a thread stay gray.
IsWeak(o) == o \in Tables /\ Mode(o) # {}
Traverse(S) ==
    LET found == UNION {Strong(o) : o \in S}
        stay == {o \in S : IsWeak(o) \/ o \in Threads}
    IN  /\ mark' = Marked(found, S, stay)
        /\ gray' = (gray \ S) \cup NewGray(found)
        /\ weak' = weak \cup {o \in S : IsWeak(o)}
        /\ grayagain' = grayagain \cup (S \cap Threads)

-----------------------------------------------------------------------------
(* The steps of the collector.                                               *)

StartCycle ==
    /\ gcstate = "pause"
    /\ MarkRoot
    /\ UNCHANGED <<heap, astep, strsize, sweepstr, unswept, full>>

Propagate(o) ==
    /\ gcstate = "propagate" /\ astep = 0
    /\ o \in gray
    /\ Traverse({o})
    /\ UNCHANGED <<heap, gcstate, astep, strsize, sweepstr, unswept, full>>

\* atomic(): mark the values of the gray upvalues on the list of open ones.
RemarkUpvals ==
    LET S == {val[u] : u \in {w \in Upvals \cap alloc : open[w] # Nothing /\ IsGray(w)}}
    IN  /\ gcstate = "propagate" /\ astep = 0 /\ gray = {}
        /\ mark' = Marked(Objects(S), {}, {}) /\ gray' = NewGray(Objects(S))
        /\ astep' = 1
        /\ UNCHANGED <<heap, gcstate, grayagain, weak, strsize, sweepstr,
                       unswept, full>>

\* propagateall(): its result does not depend on the order of the traversal.
PropagateAll ==
    /\ astep > 0 /\ gray # {}
    /\ Traverse(gray)
    /\ UNCHANGED <<heap, gcstate, astep, strsize, sweepstr, unswept, full>>

RemarkWeak ==
    LET S == {running} \cup Objects({basicmt})
    IN  /\ astep = 1 /\ gray = {}
        /\ mark' = Marked(S, {}, {})
        /\ gray' = weak \cup NewGray(S) /\ weak' = {}
        /\ astep' = 2
        /\ UNCHANGED <<heap, gcstate, grayagain, strsize, sweepstr, unswept, full>>

RemarkGrayAgain ==
    /\ astep = 2 /\ gray = {}
    /\ gray' = grayagain /\ grayagain' = {}
    /\ astep' = 3
    /\ UNCHANGED <<heap, mark, gcstate, weak, strsize, sweepstr, unswept, full>>

\* luaC_separateudata and marktmu.
\* Mutant: a userdata left from an earlier cycle is separated again.
ToFinalizeAgain == {u \in Udata \cap alloc : IsWhite(u) /\ u \notin tmudata}
ToFinalize == {u \in Udata \cap alloc : IsWhite(u) /\ u \notin finalized \cup tmudata}
SeparateUdata ==
    /\ astep = 3 /\ gray = {}
    /\ finalized' = finalized \cup ToFinalize
    /\ tmudata' = tmudata \cup {u \in ToFinalize : NeedsGC(u)}
    /\ LET S == tmudata' \cup White(Objects({meta[u] : u \in tmudata'}))
       IN  /\ mark' = [o \in Obj |-> IF o \in tmudata' THEN "black"
                                     ELSE IF o \in S THEN "gray" ELSE mark[o]]
           /\ gray' = S \ tmudata'
    /\ astep' = 4
    /\ UNCHANGED <<program, alloc, calls, stk, ent, meta, ref, val, open, basicmt, tms,
                   gcstate, grayagain, weak, strsize, sweepstr, unswept, full>>

\* cleartable: strings are marked and kept; a userdata given to its finalizer
\* is kept as a key only.  Then the whites are exchanged: what was not marked is
\* dead.  The lists are not read again before MarkRoot empties them.
IsCleared(v, iskey) ==
    /\ v \in Obj \ Strings
    /\ IsWhite(v) \/ (~iskey /\ v \in finalized)
Keeps(e) == ~IsCleared(e[1], TRUE) /\ ~IsCleared(e[2], FALSE)
ClearTables ==
    /\ astep = 4 /\ gray = {}
    /\ ent' = [t \in Tables |-> IF t \in weak THEN {e \in ent[t] : Keeps(e)} ELSE ent[t]]
    /\ LET kept == {o \in Strings : \E t \in weak : \E e \in ent[t] :
                       o = e[1] \/ (o = e[2] /\ ~IsCleared(e[1], TRUE))}
       IN  mark' = [o \in Obj |-> IF o \in kept THEN "gray"
                                  ELSE IF IsWhite(o) THEN "dead" ELSE mark[o]]
    /\ grayagain' = {} /\ weak' = {}
    /\ unswept' = alloc \ (Strings \cup tmudata)
    /\ gcstate' = "sweepstring" /\ astep' = 0
    /\ UNCHANGED <<program, alloc, calls, stk, meta, ref, val, open, basicmt,
                   finalized, tmudata, tms, gray, strsize, sweepstr, full>>

\* sweeplist: a dead object is freed, the others turn white.  An open upvalue
\* is swept with its thread, and is closed when the thread is freed.
Bucket(s) == HashOf[s] % strsize
Swept(S) ==
    LET dead == {o \in S \cap alloc : IsDead(o) /\ o # Main}
        opened(o) == open[o] \in S
        gone == dead \cup {u \in Upvals \cap alloc : opened(u) /\ IsDead(u)}
    IN  /\ alloc' = alloc \ gone
        /\ stk' = [o \in Threads |-> IF o \in gone THEN {} ELSE stk[o]]
        /\ ent' = [o \in Tables |-> IF o \in gone THEN {} ELSE ent[o]]
        /\ meta' = [o \in Tables \cup Udata |-> IF o \in gone THEN Nothing ELSE meta[o]]
        /\ ref' = [o \in Closures |-> IF o \in gone THEN {} ELSE ref[o]]
        /\ val' = [o \in Upvals |-> IF o \in gone THEN Nothing ELSE val[o]]
        /\ open' = [o \in Upvals |-> IF o \in gone \/ open[o] \in gone
                                     THEN Nothing ELSE open[o]]
        /\ finalized' = finalized \ gone
        /\ mark' = [o \in Obj |->
              IF o \in alloc \ gone /\ (o \in S \/ (o \in Upvals /\ opened(o)))
              THEN "white" ELSE mark[o]]
        /\ UNCHANGED <<program, calls, basicmt, tmudata, tms>>

SweepString ==
    /\ gcstate = "sweepstring"
    /\ Swept({s \in Strings \cap alloc : Bucket(s) = sweepstr})
    /\ IF sweepstr + 1 < strsize
       THEN sweepstr' = sweepstr + 1 /\ UNCHANGED gcstate
       ELSE sweepstr' = 0 /\ gcstate' = "sweep"
    /\ UNCHANGED <<astep, gray, grayagain, weak, strsize, unswept, full>>

Sweep(o) ==
    /\ gcstate = "sweep"
    /\ o \in unswept /\ (o \in Upvals => open[o] = Nothing)
    /\ Swept({o})
    /\ unswept' = unswept \ ({o} \cup {u \in Upvals : open[u] = o})
    /\ UNCHANGED <<gcstate, astep, gray, grayagain, weak, strsize, sweepstr, full>>

\* checkSizes: the string table shrinks when it is too big.
EndSweep ==
    /\ gcstate = "sweep" /\ unswept = {}
    /\ strsize' = IF /\ Cardinality(Strings \cap alloc) < strsize \div 4
                     /\ strsize > 2 * MinStrTab
                  THEN strsize \div 2 ELSE strsize
    /\ gcstate' = "finalize"
    /\ UNCHANGED <<heap, mark, astep, gray, grayagain, weak, sweepstr, unswept, full>>

\* GCTM: the userdata leaves the list before its finalizer is called.
Finalize(u) ==
    /\ gcstate = "finalize" /\ full.at # "sweep"
    /\ CallTM(u)
    /\ mark' = [mark EXCEPT ![u] = "white"]
    /\ UNCHANGED <<gcstate, astep, gray, grayagain, weak, strsize, sweepstr,
                   unswept, full>>

EndCycle ==
    /\ gcstate = "finalize" /\ tmudata = {} /\ full.at # "sweep"
    /\ gcstate' = "pause" /\ full' = NotFull
    /\ UNCHANGED <<heap, mark, astep, gray, grayagain, weak, strsize, sweepstr, unswept>>

Collector ==
    \/ StartCycle \/ RemarkUpvals \/ PropagateAll \/ RemarkWeak \/ RemarkGrayAgain
    \/ SeparateUdata \/ ClearTables \/ SweepString \/ EndSweep \/ EndCycle
    \/ \E o \in Obj : Propagate(o) \/ Sweep(o)
    \/ \E u \in Udata : Finalize(u)

-----------------------------------------------------------------------------
(* The program, with what lgc.c adds to each of its calls.  It runs between  *)
(* the steps of the collector, but not in the atomic phase, and during       *)
(* luaC_fullgc only inside a finalizer that luaC_fullgc has called.           *)

\* the finalizers that have not returned
RunningTMs == UNION {tms[t] : t \in Range(calls)}
CanRun == astep = 0 /\ (full.at = "no" \/ RunningTMs \ full.tms # {})

\* Mutant: the barrier does not ask whether the table is black.
BarrierBackAlways(t, S) ==
    /\ IF ~IsWhite(t) /\ White(S) # {}
       THEN /\ mark' = [mark EXCEPT ![t] = "gray"]
            /\ grayagain' = grayagain \cup {t}
       ELSE UNCHANGED <<mark, grayagain>>
    /\ UNCHANGED <<gcstate, astep, gray, weak, strsize, sweepstr, unswept, full>>

\* Mutant: the table goes back to the list being traversed.
BarrierBackToGray(t, S) ==
    /\ IF IsBlack(t) /\ White(S) # {}
       THEN /\ mark' = [mark EXCEPT ![t] = "gray"]
            /\ gray' = gray \cup {t}
       ELSE UNCHANGED <<mark, gray>>
    /\ UNCHANGED <<gcstate, astep, grayagain, weak, strsize, sweepstr, unswept, full>>

\* luaC_barrierback: a black table given a white object is gray again.
BarrierBack(t, S) ==
    /\ IF IsBlack(t) /\ White(S) # {}
       THEN /\ mark' = [mark EXCEPT ![t] = "gray"]
            /\ grayagain' = grayagain \cup {t}
       ELSE UNCHANGED <<mark, grayagain>>
    /\ UNCHANGED <<gcstate, astep, gray, weak, strsize, sweepstr, unswept, full>>

\* luaC_barrierf: while marking, the object is marked; while sweeping, its
\* owner turns white.
BarrierForward(o, v) ==
    /\ IF v \in Obj /\ IsBlack(o) /\ v \in White({v})
       THEN IF gcstate = "propagate"
            THEN /\ mark' = Marked({v}, {}, {}) /\ gray' = gray \cup NewGray({v})
            ELSE /\ mark' = [mark EXCEPT ![o] = "white"] /\ UNCHANGED gray
       ELSE UNCHANGED <<mark, gray>>
    /\ UNCHANGED <<gcstate, astep, grayagain, weak, strsize, sweepstr, unswept, full>>

NoBarrier == UNCHANGED gcvars

\* luaC_link; a string may make the string table grow, but not while its
\* buckets are swept.
GCNew(o) ==
    /\ CanRun /\ New(o)
    /\ mark' = [mark EXCEPT ![o] = "white"]
    /\ strsize' = IF /\ o \in Strings /\ gcstate # "sweepstring"
                     /\ Cardinality(Strings \cap alloc') > strsize
                  THEN 2 * strsize ELSE strsize
    /\ UNCHANGED <<gcstate, astep, gray, grayagain, weak, sweepstr, unswept, full>>

\* Mutant: a dead string is handed out as it is.
GCInternDead(s) == CanRun /\ Intern(s) /\ NoBarrier

\* luaS_newlstr finds the string; a dead one is made white again.
GCIntern(s) ==
    /\ CanRun /\ Intern(s)
    /\ mark' = IF IsDead(s) THEN [mark EXCEPT ![s] = "white"] ELSE mark
    /\ UNCHANGED <<gcstate, astep, gray, grayagain, weak, strsize, sweepstr,
                   unswept, full>>

GCLoad(o, v) == CanRun /\ Load(o, v) /\ NoBarrier
GCDrop(v) == CanRun /\ Drop(v) /\ NoBarrier
GCSetEntry(t, k, v) ==
    /\ CanRun /\ SetEntry(t, k, v)
    /\ BarrierBack(t, Objects({v} \cup (IF k \in KeysOf(t) \/ v = Nothing THEN {} ELSE {k})))
\* Mutant: the new metatable of a userdata gets no barrier.
GCSetMetatableUnguarded(o, m) ==
    /\ CanRun /\ SetMetatable(o, m)
    /\ IF o \in Tables THEN BarrierBack(o, Objects({m})) ELSE NoBarrier

GCSetMetatable(o, m) ==
    /\ CanRun /\ SetMetatable(o, m)
    /\ IF o \in Tables THEN BarrierBack(o, Objects({m})) ELSE BarrierForward(o, m)
GCSetBasicMetatable(m) == CanRun /\ SetBasicMetatable(m) /\ NoBarrier

\* OP_CLOSURE: luaF_findupval makes a dead upvalue white again.
GCMakeClosure(c, u) ==
    /\ CanRun /\ MakeClosure(c, u)
    /\ mark' = [mark EXCEPT ![c] = "white", ![u] = IF IsDead(u) THEN "white" ELSE @]
    /\ UNCHANGED <<gcstate, astep, gray, grayagain, weak, strsize, sweepstr,
                   unswept, full>>
GCShareUpvalue(c, d, u) ==
    /\ CanRun /\ ShareUpvalue(c, d, u)
    /\ mark' = [mark EXCEPT ![c] = "white"]
    /\ UNCHANGED <<gcstate, astep, gray, grayagain, weak, strsize, sweepstr,
                   unswept, full>>

\* OP_SETUPVAL.
GCSetUpvalue(c, u, v) == CanRun /\ SetUpvalue(c, u, v) /\ BarrierForward(u, v)

\* luaF_close and luaC_linkupval: a dead upvalue is freed, a gray one turns
\* black with a barrier while marking, and white while sweeping.
GCCloseUpvalues ==
    LET mine == Opened(running)
        dead == {u \in mine : IsDead(u)}
        closed == {u \in mine : IsGray(u)}
        S == Objects({val[u] : u \in closed})
    IN  /\ CanRun /\ CloseAllBut(dead)
        /\ IF gcstate = "propagate"
           THEN /\ mark' = Marked(S, closed, {})
                /\ gray' = gray \cup NewGray(S)
           ELSE /\ mark' = [o \in Obj |-> IF o \in closed THEN "white" ELSE mark[o]]
                /\ UNCHANGED gray
        /\ unswept' = unswept \ dead
        /\ UNCHANGED <<gcstate, astep, grayagain, weak, strsize, sweepstr, full>>

GCResume(th, v) == CanRun /\ Resume(th, v) /\ NoBarrier
GCYield(v) == CanRun /\ Yield(v) /\ NoBarrier
GCTMReturns(u) == CanRun /\ TMReturns(u) /\ NoBarrier

\* luaC_fullgc: a mark phase under way is given up and all its marks swept;
\* then a whole cycle runs.
FullGC ==
    /\ CanRun
    /\ full' = [at |-> "sweep", tms |-> RunningTMs]
    /\ IF gcstate \in {"pause", "propagate"}
       THEN /\ unswept' = alloc \ (Strings \cup tmudata)
            /\ gray' = {} /\ grayagain' = {} /\ weak' = {}
            /\ gcstate' = "sweepstring"
       ELSE UNCHANGED <<unswept, gray, grayagain, weak, gcstate>>
    /\ UNCHANGED <<heap, mark, astep, strsize, sweepstr>>

FullGCMarks ==
    /\ full.at = "sweep" /\ gcstate = "finalize"
    /\ MarkRoot
    /\ full' = [full EXCEPT !.at = "mark"]
    /\ UNCHANGED <<heap, astep, strsize, sweepstr, unswept>>

Mutator ==
    \/ \E o \in program.objs : GCNew(o) \/ GCIntern(o)
    \/ \E o \in Holds : GCDrop(o) \/ GCTMReturns(o) \/ \E v \in Locals : GCResume(o, v)
    \/ \E o \in Holds : \E v \in Objects(Readable(o)) : GCLoad(o, v)
    \/ \E t \in Holds, k, v \in Holds \cup {Nothing} : GCSetEntry(t, k, v)
    \/ \E o \in Holds, m \in Holds \cup {Nothing} : GCSetMetatable(o, m)
    \/ \E m \in Holds \cup {Nothing} : GCSetBasicMetatable(m)
    \/ \E c \in program.objs, u \in Upvals : GCMakeClosure(c, u)
    \/ \E c \in Holds, u \in Upvals, v \in Locals :
          GCSetUpvalue(c, u, v)
    \/ \E c \in program.objs, d \in Holds, u \in Upvals : GCShareUpvalue(c, d, u)
    \/ \E v \in Holds \cup {Nothing} : GCYield(v)
    \/ GCCloseUpvalues \/ FullGC

Init ==
    /\ HeapInit
    /\ mark = [o \in Obj |-> IF o \in {Main, Registry} THEN "white" ELSE "dead"]
    /\ gcstate = "pause" /\ astep = 0
    /\ gray = {} /\ grayagain = {} /\ weak = {}
    /\ strsize = MinStrTab /\ sweepstr = 0 /\ unswept = {}
    /\ full = NotFull

Next == Collector \/ FullGCMarks \/ Mutator
Spec == Init /\ [][Next]_vars
\* The program goes on allocating, so that luaC_checkGC goes on calling luaC_step.
FairSpec == Spec /\ WF_vars(Collector \/ FullGCMarks)

-----------------------------------------------------------------------------
\* Types of the variables, and that the atomic phase is part of the marking.
GCTypeOK ==
    /\ mark \in [Obj -> Whites \cup {"gray", "black"}]
    /\ gcstate \in {"pause", "propagate", "sweepstring", "sweep", "finalize"}
    /\ astep \in 0..4 /\ (astep > 0 => gcstate = "propagate")
    /\ gray \subseteq Obj /\ grayagain \subseteq Obj /\ weak \subseteq Tables
    /\ strsize \in Nat \ {0} /\ sweepstr \in Nat
    /\ unswept \subseteq Obj /\ full \in [at : {"no", "sweep", "mark"}, tms : SUBSET Udata]
TypeOK == HeapTypeOK /\ GCTypeOK

\* What a live object refers to, weakly or not, is allocated and live, and so are
\* the roots: neither the sweep nor a barrier that was left out ever leaves the
\* program a pointer to freed memory.
NoDangling ==
    /\ \A o \in Roots : o \in alloc /\ ~IsDead(o)
    /\ \A o \in alloc : ~IsDead(o) => \A v \in Refs(o) : v \in alloc /\ ~IsDead(v)

\* The invariant the barriers keep while the collector marks: no black object has
\* a strong reference to a white one.  The userdata that wait for their finalizer
\* are black from an earlier cycle, and are marked again when the others are.
BlackToWhite ==
    gcstate = "propagate" =>
        \A o \in alloc : IsBlack(o) /\ (o \in tmudata => astep = 4) =>
            \A v \in Strong(o) : ~IsWhite(v)

\* One field links an object into the gray lists: an object is in one list at
\* most, it is gray there, and a gray object that was not traversed is in one.
OneListOnly ==
    gcstate = "propagate" =>
        /\ gray \cap grayagain = {} /\ gray \cap weak = {} /\ grayagain \cap weak = {}
        /\ \A o \in gray \cup grayagain \cup weak : o \in alloc /\ IsGray(o)
        /\ \A o \in alloc : IsGray(o) /\ Listed(o) => o \in gray \cup grayagain \cup weak

\* Where no barrier may be needed any more (the assertions of luaC_barrierf and
\* luaC_barrierback), the sweep has turned every object white: none is left over
\* from a bucket or a list it passed by.  The userdata that wait for a finalizer
\* are in a list of their own, which is not swept.
SweptClean ==
    /\ gcstate \in {"finalize", "pause"} => \A o \in alloc \ tmudata : mark[o] = "white"
    /\ gcstate = "sweep" => \A s \in Strings \cap alloc : mark[s] = "white"

\* The collector's books are in order: its types, its lists and what it swept.
BooksInOrder == TypeOK /\ OneListOnly /\ SweptClean

\* A cycle that has begun ends: barriers put work off to the atomic phase and
\* never give the gray list more than it had.
CyclesEnd == []<>(gcstate = "pause")
============================================================================
