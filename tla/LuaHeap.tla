------------------------------ MODULE LuaHeap ------------------------------
(***************************************************************************)
(* What the Lua interpreter of the sandbox promises about memory: objects, *)
(* the references between them, the calls of the API and the instructions  *)
(* of the virtual machine that change them, and a collector that may do    *)
(* four things only: separate userdata nothing refers to, call their       *)
(* finalizers, clear entries of weak tables, and free what cannot be       *)
(* reached.  Nothing is said of colours, lists or phases: module LuaGC has *)
(* the collector of lgc.c and is checked to implement this specification.  *)
(***************************************************************************)
EXTENDS Naturals, SequencesExt, FiniteSets, Functions

CONSTANTS
    Tables, Strings, Udata, Closures, Upvals, Threads,   \* the objects, by their tag
    Main,          \* the main thread, never collected
    Registry,      \* the table every program can name: globals and registry
    Nothing,       \* a value that is not collectable, a NULL pointer
    ModeOf,        \* the letters of the __mode field a table has as a metatable
    HasGC,         \* the tables that have a __gc field
    Programs,      \* what the programs use: the objects, the table entries they
                   \* assign, the metatables they set, the values of their locals
    MaxStack,      \* bound: references kept by the stack of one thread
    MaxEntries     \* bound: entries of one table

Obj == Tables \cup Strings \cup Udata \cup Closures \cup Upvals \cup Threads
Values == Obj \ Upvals    \* what a variable can refer to

\* Every object has one tag, and no object is the value that is none.
ASSUME Kinds ==
    /\ Strings \cap (Tables \cup Udata \cup Closures \cup Upvals \cup Threads) = {}
    /\ Tables \cap (Udata \cup Closures \cup Upvals \cup Threads) = {}
    /\ Udata \cap (Closures \cup Upvals \cup Threads) = {}
    /\ Closures \cap (Upvals \cup Threads) = {}
    /\ Upvals \cap Threads = {}
    /\ Main \in Threads /\ Registry \in Tables /\ Nothing \notin Obj
    /\ ModeOf \in [Tables -> SUBSET {"k", "v"}]
    /\ HasGC \subseteq Tables
    /\ Programs \subseteq [objs : SUBSET (Obj \ {Main, Registry}),
                            puts : SUBSET (Tables \X (Values \cup {Nothing}) \X Values),
                            metas : SUBSET ((Tables \cup Udata) \X Tables),
                            vals : SUBSET Values]

VARIABLES
    program,    \* what this behaviour runs
    alloc,      \* the objects that have memory
    calls,      \* the threads that have resumed each other, the running one last
    stk,        \* thread |-> the objects its stack refers to
    ent,        \* table |-> its entries <<key, value>>
    meta,       \* table or userdata |-> its metatable
    ref,        \* closure |-> its upvalues
    val,        \* upvalue |-> its value, wherever that lives
    open,       \* upvalue |-> the thread whose stack holds the value, if one does
    basicmt,    \* the metatable of a basic type (g->mt)
    finalized,  \* the userdata with FINALIZEDBIT
    tmudata,    \* the userdata waiting for their finalizer
    tms         \* thread |-> the userdata whose finalizer runs on its stack

heap == <<program, alloc, calls, stk, ent, meta, ref, val, open, basicmt,
          finalized, tmudata, tms>>

running == Last(calls)
Opened(th) == {u \in Upvals \cap alloc : open[u] = th}
Objects(S) == S \ {Nothing}

Mode(t) == IF meta[t] \in Tables THEN ModeOf[meta[t]] ELSE {}
NeedsGC(u) == meta[u] \in HasGC

KeysOf(t) == {e[1] : e \in ent[t]}
ValuesOf(t) == {e[2] : e \in ent[t]}

\* Every object o refers to, weakly or not.
Refs(o) ==
    Objects(CASE o \in Tables -> KeysOf(o) \cup ValuesOf(o) \cup {meta[o]}
              [] o \in Udata -> {meta[o]}
              [] o \in Closures -> ref[o]
              [] o \in Upvals -> {val[o]}
              [] o \in Threads -> stk[o] \cup tms[o] \cup {val[u] : u \in Opened(o)}
              [] OTHER -> {})

\* What o keeps alive: a weak table leaves out its keys, its values or both.
Strong(o) ==
    IF o \in Tables
    THEN Objects({meta[o]} \cup (IF "k" \in Mode(o) THEN {} ELSE KeysOf(o))
                           \cup (IF "v" \in Mode(o) THEN {} ELSE ValuesOf(o)))
    ELSE Refs(o)

Roots == {Main, Registry} \cup Range(calls) \cup tmudata \cup Objects({basicmt})

\* What no chain of strong references leads to from S that passes no object of X:
\* it is outside of a set that has all of S and that no reference leaves, but for
\* those of X.
OutOfReach(S, X) ==
    UNION {alloc \ C : C \in {C \in SUBSET alloc :
        S \subseteq C /\ \A o \in C \ X : Strong(o) \subseteq C}}
Unreachable == OutOfReach(Roots, {})

-----------------------------------------------------------------------------
(* The program: calls of lapi.c and instructions of lvm.c.  It only uses     *)
(* objects it can name: what is on the running stack, and the registry.      *)

Holds == stk[running] \cup tms[running] \cup {Registry}

Readable(o) ==
    CASE o \in Tables -> KeysOf(o) \cup ValuesOf(o) \cup {meta[o]}
      [] o \in Udata -> {meta[o]}
      [] o \in Closures -> {val[u] : u \in ref[o]}
      [] OTHER -> {}

Locals == (Holds \cap program.vals) \cup {Nothing}

Room == Cardinality(stk[running]) < MaxStack
Pushed(v) == [stk EXCEPT ![running] = @ \cup {v}]

New(o) ==
    /\ Room /\ o \in (program.objs \ alloc) \ (Closures \cup Upvals)
    /\ alloc' = alloc \cup {o}
    /\ stk' = Pushed(o)
    /\ UNCHANGED <<program, calls, ent, meta, ref, val, open, basicmt,
                   finalized, tmudata, tms>>

\* The string exists already, perhaps as garbage not swept yet.
Intern(s) ==
    /\ Room /\ s \in Strings \cap alloc
    /\ stk' = Pushed(s)
    /\ UNCHANGED <<program, alloc, calls, ent, meta, ref, val, open, basicmt,
                   finalized, tmudata, tms>>

Load(o, v) ==
    /\ Room /\ o \in Holds /\ v \in Objects(Readable(o)) \ Holds
    /\ stk' = Pushed(v)
    /\ UNCHANGED <<program, alloc, calls, ent, meta, ref, val, open, basicmt,
                   finalized, tmudata, tms>>

Drop(v) ==
    /\ v \in stk[running]
    /\ stk' = [stk EXCEPT ![running] = @ \ {v}]
    /\ UNCHANGED <<program, alloc, calls, ent, meta, ref, val, open, basicmt,
                   finalized, tmudata, tms>>

\* t[k] = v, and v = Nothing removes the key.
WithEntry(t, k, v) ==
    {e \in ent[t] : e[1] # k} \cup (IF v = Nothing THEN {} ELSE {<<k, v>>})
SetEntry(t, k, v) ==
    /\ t \in Holds \cap Tables
    /\ k \in Holds \cup {Nothing}
    /\ \/ v \in Holds /\ <<t, k, v>> \in program.puts
       \/ v = Nothing
    /\ ent' = [ent EXCEPT ![t] = WithEntry(t, k, v)]
    /\ ent' # ent
    /\ Cardinality(ent'[t]) <= MaxEntries
    /\ UNCHANGED <<program, alloc, calls, stk, meta, ref, val, open, basicmt,
                   finalized, tmudata, tms>>

SetMetatable(o, m) ==
    /\ o \in Holds \cap (Tables \cup Udata)
    /\ \/ m \in Holds \cap Tables /\ <<o, m>> \in program.metas
       \/ m = Nothing
    /\ m # meta[o]
    /\ meta' = [meta EXCEPT ![o] = m]
    /\ UNCHANGED <<program, alloc, calls, stk, ent, ref, val, open, basicmt,
                   finalized, tmudata, tms>>

\* lua_setmetatable of a value of a basic type.
SetBasicMetatable(m) ==
    /\ \/ m \in Holds \cap Tables /\ <<Registry, m>> \in program.metas
       \/ m = Nothing
    /\ m # basicmt
    /\ basicmt' = m
    /\ UNCHANGED <<program, alloc, calls, stk, ent, meta, ref, val, open,
                   finalized, tmudata, tms>>

\* A closure over a local variable of the running function: the upvalue the
\* variable has already, or a new one that refers to the slot of the stack.
MakeClosure(c, u) ==
    /\ Room /\ c \in (program.objs \ alloc) \cap Closures
    /\ \/ /\ u \in Opened(running)
          /\ UNCHANGED val
       \/ /\ u \in (program.objs \ alloc) \cap Upvals
          /\ \E v \in Locals : val' = [val EXCEPT ![u] = v]
    /\ alloc' = alloc \cup {c, u}
    /\ ref' = [ref EXCEPT ![c] = {u}]
    /\ open' = [open EXCEPT ![u] = running]
    /\ stk' = Pushed(c)
    /\ UNCHANGED <<program, calls, ent, meta, basicmt, finalized, tmudata, tms>>

\* A closure over an upvalue the running function has itself.
ShareUpvalue(c, d, u) ==
    /\ Room /\ c \in (program.objs \ alloc) \cap Closures
    /\ d \in Holds \cap Closures /\ u \in ref[d]
    /\ alloc' = alloc \cup {c}
    /\ ref' = [ref EXCEPT ![c] = {u}]
    /\ stk' = Pushed(c)
    /\ UNCHANGED <<program, calls, ent, meta, val, open, basicmt, finalized,
                   tmudata, tms>>

SetUpvalue(c, u, v) ==
    /\ c \in Holds \cap Closures /\ u \in ref[c]
    /\ v \in Locals /\ v # val[u]
    /\ val' = [val EXCEPT ![u] = v]
    /\ UNCHANGED <<program, alloc, calls, stk, ent, meta, ref, open, basicmt,
                   finalized, tmudata, tms>>

\* The function returns or its block ends: its upvalues take their values with
\* them, but for those nothing refers to.
CloseAllBut(dead) ==
    /\ Opened(running) # {}
    /\ open' = [u \in Upvals |-> IF u \in Opened(running) THEN Nothing ELSE open[u]]
    /\ val' = [u \in Upvals |-> IF u \in dead THEN Nothing ELSE val[u]]
    /\ alloc' = alloc \ dead
    /\ UNCHANGED <<program, calls, stk, ent, meta, ref, basicmt, finalized, tmudata, tms>>
CloseUpvalues ==
    LET dead == alloc \ alloc'
    IN  CloseAllBut(dead) /\ \A u \in dead : u \in Opened(running) \cap Unreachable

\* coroutine.resume with an argument, yield with a result.
Resume(th, v) ==
    /\ th \in (Holds \cap Threads) \ Range(calls)
    /\ v \in Locals
    /\ calls' = Append(calls, th)
    /\ stk' = [stk EXCEPT ![th] = @ \cup Objects({v})]
    /\ Cardinality(stk'[th]) <= MaxStack
    /\ UNCHANGED <<program, alloc, ent, meta, ref, val, open, basicmt,
                   finalized, tmudata, tms>>

Yield(v) ==
    /\ Len(calls) > 1 /\ tms[running] = {}
    /\ v \in Holds \cup {Nothing}
    /\ calls' = Front(calls)
    /\ stk' = [stk EXCEPT ![Last(calls')] = @ \cup Objects({v})]
    /\ Cardinality(stk'[Last(calls')]) <= MaxStack
    /\ UNCHANGED <<program, alloc, ent, meta, ref, val, open, basicmt,
                   finalized, tmudata, tms>>

TMReturns(u) ==
    /\ u \in tms[running]
    /\ tms' = [tms EXCEPT ![running] = @ \ {u}]
    /\ UNCHANGED <<program, alloc, calls, stk, ent, meta, ref, val, open, basicmt,
                   finalized, tmudata>>

Program ==
    \/ \E o \in program.objs : New(o) \/ Intern(o)
    \/ \E o \in Holds : Drop(o) \/ TMReturns(o) \/ \E v \in Locals : Resume(o, v)
    \/ \E o \in Holds : \E v \in Objects(Readable(o)) : Load(o, v)
    \/ \E t \in Holds, k, v \in Holds \cup {Nothing} : SetEntry(t, k, v)
    \/ \E o \in Holds, m \in Holds \cup {Nothing} : SetMetatable(o, m)
    \/ \E m \in Holds \cup {Nothing} : SetBasicMetatable(m)
    \/ \E c \in program.objs, u \in Upvals : MakeClosure(c, u)
    \/ \E c \in Holds, u \in Upvals, v \in Locals : SetUpvalue(c, u, v)
    \/ \E c \in program.objs, d \in Holds, u \in Upvals : ShareUpvalue(c, d, u)
    \/ CloseUpvalues
    \/ \E v \in Holds \cup {Nothing} : Yield(v)

-----------------------------------------------------------------------------
(* The collector, as a program may rely on it.                               *)

\* Userdata that nothing refers to, but through the userdata that wait for their
\* finalizer, get FINALIZEDBIT once, and wait themselves when they have one.
Separate ==
    LET W == finalized' \ finalized
    IN  /\ finalized \subseteq finalized'
        /\ tmudata' = tmudata \cup {u \in W : NeedsGC(u)}
        /\ W \subseteq Udata \cap OutOfReach(Roots \ tmudata, tmudata)

\* An entry goes from a weak table when its key or its value is garbage, or
\* its value is a userdata that has been given to a finalizer.
Clearable(v, iskey) ==
    /\ v \in Obj \ Strings
    /\ v \in Unreachable \/ (~iskey /\ v \in finalized')
Clear ==
    \A t \in Tables :
       /\ ent'[t] \subseteq ent[t]
       /\ \A e \in ent[t] \ ent'[t] : Clearable(e[1], TRUE) \/ Clearable(e[2], FALSE)

EndOfMark ==
    /\ UNCHANGED <<program, alloc, calls, stk, meta, ref, val, open, basicmt, tms>>
    /\ Separate
    /\ Clear

CallTM(u) ==
    /\ u \in tmudata
    /\ tmudata' = tmudata \ {u}
    /\ tms' = [tms EXCEPT ![running] = IF NeedsGC(u) THEN @ \cup {u} ELSE @]
    /\ UNCHANGED <<program, alloc, calls, stk, ent, meta, ref, val, open, basicmt, finalized>>

\* Memory is given back: a thread closes the upvalues still open in it.
Free ==
    LET D == alloc \ alloc'
    IN  /\ D # {} /\ alloc' \subseteq alloc
        /\ stk' = [o \in Threads |-> IF o \in D THEN {} ELSE stk[o]]
        /\ ent' = [o \in Tables |-> IF o \in D THEN {} ELSE ent[o]]
        /\ meta' = [o \in Tables \cup Udata |-> IF o \in D THEN Nothing ELSE meta[o]]
        /\ ref' = [o \in Closures |-> IF o \in D THEN {} ELSE ref[o]]
        /\ val' = [o \in Upvals |-> IF o \in D THEN Nothing ELSE val[o]]
        /\ open' = [o \in Upvals |-> IF o \in D \/ open[o] \in D THEN Nothing ELSE open[o]]
        /\ finalized' = finalized \ D
        /\ UNCHANGED <<program, calls, basicmt, tmudata, tms>>
        /\ D \subseteq Unreachable

HeapInit ==
    /\ program \in Programs
    /\ alloc = {Main, Registry}
    /\ calls = <<Main>>
    /\ stk = [o \in Threads |-> {}]
    /\ ent = [o \in Tables |-> {}]
    /\ meta = [o \in Tables \cup Udata |-> Nothing]
    /\ ref = [o \in Closures |-> {}]
    /\ val = [o \in Upvals |-> Nothing]
    /\ open = [o \in Upvals |-> Nothing]
    /\ basicmt = Nothing
    /\ finalized = {} /\ tmudata = {}
    /\ tms = [o \in Threads |-> {}]

HeapNext ==
    \/ Program
    \/ EndOfMark
    \/ \E u \in Udata : CallTM(u)
    \/ Free

HeapSpec == HeapInit /\ [][HeapNext]_heap

\* Types of the variables of the heap.
HeapTypeOK ==
    /\ program \in Programs
    /\ alloc \subseteq Obj /\ {Main, Registry} \subseteq alloc
    /\ calls \in Seq(Threads) /\ calls # <<>>
    /\ stk \in [Threads -> SUBSET Values]
    /\ ent \in [Tables -> SUBSET ((Values \cup {Nothing}) \X Values)]
    /\ meta \in [Tables \cup Udata -> Tables \cup {Nothing}]
    /\ ref \in [Closures -> SUBSET Upvals]
    /\ val \in [Upvals -> Values \cup {Nothing}]
    /\ open \in [Upvals -> Threads \cup {Nothing}]
    /\ basicmt \in Tables \cup {Nothing}
    /\ finalized \subseteq Udata /\ tmudata \subseteq Udata
    /\ tms \in [Threads -> SUBSET Udata]
============================================================================
