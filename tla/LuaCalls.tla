------------------------------ MODULE LuaCalls ------------------------------
(***************************************************************************)
(* Calls, errors and coroutines of the interpreter (ldo.c, and the parts   *)
(* of lapi.c, lvm.c, lbaselib.c, ldebug.c and ldblib.c that call it).      *)
(* Every thread has a stack of CallInfo records, and all of them share one *)
(* C stack.  A Lua function that calls a Lua function adds a CallInfo      *)
(* only; a C function, a metamethod, a hook or a coroutine adds C frames   *)
(* as well, and an error jumps over any number of both.  The values on the *)
(* stacks are left out, but for what decides which way a call goes.        *)
(***************************************************************************)
EXTENDS Naturals, Sequences, SequencesExt, FiniteSets, FiniteSetsExt

CONSTANTS
    Threads, Main,
    MaxCCalls,     \* LUAI_MAXCCALLS
    CSlack,        \* LUAI_MAXCCALLS >> 3, what error handlers may use beyond it
    BasicCI,       \* BASIC_CI_SIZE
    MaxCalls,      \* LUAI_MAXCALLS
    Programs       \* what the programs use, of Functions and Features

\* The functions a program can call.  "sort" stands for every C function that
\* calls back: sort, gsub, tostring, next to those that are modelled themselves.
CFunctions == {"pcall", "xpcall", "resume", "wrap", "yield", "sort", "load", "print"}
LuaFunctions == {"lua"}
Features == {"closure", "tail call", "metamethod", "hook"}

ASSUME Limits ==
    /\ Programs \subseteq SUBSET (CFunctions \cup Features)
    /\ Main \in Threads
    /\ MaxCCalls \in Nat \ {0} /\ CSlack \in Nat \ {0}
    /\ BasicCI \in Nat \ {0} /\ MaxCalls \in Nat /\ MaxCalls >= BasicCI

VARIABLES
    uses,       \* what this program uses
    st,         \* thread |-> its lua_State
    native,     \* the C stack: C frames of the interpreter, the innermost last
    ctl         \* what the innermost C frame does next: "run" goes on, "ret" a
                \* call it made has returned, "fail" a call it made has failed,
                \* "overfull" so has lua_checkstack, "exit" there is nowhere to jump,
                \* "crash" luaV_execute has been entered where there is no function
vars == <<uses, st, native, ctl>>

NewState(status, vals) ==
    [status |-> status,      \* "none": not created; "error" is any error status
     ci |-> <<"base">>,      \* the functions of its CallInfo records
     size |-> BasicCI,       \* size_ci
     nC |-> 0, baseC |-> 0,  \* nCcalls, baseCcalls
     jmp |-> 0,              \* errorJmp: a place in the C stack
     errf |-> FALSE,         \* errfunc: is there a message handler?
     allow |-> TRUE,         \* allowhook
     vals |-> vals,          \* what is on its stack outside of any call
     opened |-> {}]          \* the CallInfos whose locals are open upvalues

Frame(a, t) == [a |-> a, thread |-> t]
top == Last(native)
L == top.thread
S == st[L]
Depth(t) == Len(st[t].ci)
State == [st |-> st, native |-> native, ctl |-> ctl]
Becomes(s) == st' = s.st /\ native' = s.native /\ ctl' = s.ctl /\ UNCHANGED uses

\* After a C frame is left: luaV_execute goes on by itself.
Left(nat) == IF nat # <<>> /\ Last(nat).a = "exec" THEN "run" ELSE "ret"

-----------------------------------------------------------------------------
(* Errors.                                                                   *)

\* restore_stack_limit: give back what an overflow took, if it is not in use.
LimitRestored(size, inuse) ==
    IF size > MaxCalls /\ inuse + 1 < MaxCalls THEN MaxCalls ELSE size

\* Mutant: the number of C calls stays what it was at the error.
RecoveredKeepsCalls(r, back) ==
    [r EXCEPT !.ci = SubSeq(@, 1, back.depth), !.jmp = back.jmp, !.errf = back.errf,
              !.allow = back.allow, !.opened = {d \in @ : d <= back.depth},
              !.size = LimitRestored(@, back.depth - 1)]

\* Mutant: the CallInfos above the protected call stay.
RecoveredKeepsFrames(r, back) ==
    [r EXCEPT !.nC = back.nC, !.jmp = back.jmp, !.errf = back.errf,
              !.allow = back.allow, !.opened = {d \in @ : d <= back.depth},
              !.size = LimitRestored(@, back.depth - 1)]

\* The lua_State after luaD_pcall has caught an error.
Recovered(r, back) ==
    [r EXCEPT !.nC = back.nC, !.ci = SubSeq(@, 1, back.depth), !.jmp = back.jmp,
              !.errf = back.errf, !.allow = back.allow,
              !.opened = {d \in @ : d <= back.depth},
              !.size = LimitRestored(@, back.depth - 1)]

\* Mutant: a coroutine that fails is not marked dead.
FailedAlive(r, back) == [r EXCEPT !.nC = @ - 1, !.jmp = back.jmp]

\* The lua_State after lua_resume has caught an error.
Failed(r, back) == [r EXCEPT !.status = "error", !.nC = @ - 1, !.jmp = back.jmp]

\* luaD_throw: the C stack is cut at the last luaD_rawrunprotected of the thread.
Throw(s) ==
    LET t == Last(s.native).thread
        at == s.st[t].jmp
        back == s.native[at]
    IN  IF at = 0
        THEN [s EXCEPT !.native = <<>>, !.ctl = "exit"]
        ELSE [st |-> [s.st EXCEPT ![t] = IF back.a = "pcall" THEN Recovered(@, back)
                                         ELSE Failed(@, back)],
              native |-> SubSeq(s.native, 1, at - 1),
              ctl |-> "fail"]

\* luaG_runerror and luaG_errormsg: a message handler is called first.
RunError(s) ==
    LET t == Last(s.native).thread
    IN  IF s.st[t].errf
        THEN [s EXCEPT !.native = Append(@, Frame("errormsg", t)), !.ctl = "run"]
        ELSE Throw(s)

-----------------------------------------------------------------------------
(* Calls.                                                                    *)

\* inc_ci and growCI: the CallInfo of a call of f, and then the C stack nat; or
\* an error, once when the limit is passed and another kind beyond that.
Enter(s, f, nat) ==
    LET t == Last(s.native).thread
        size == s.st[t].size
        entered == [s EXCEPT !.st[t].ci = Append(@, f), !.native = nat, !.ctl = "run"]
        grown == [s EXCEPT !.st[t].size = 2 * size]
    IN  CASE Len(s.st[t].ci) < size -> entered
          [] Len(s.st[t].ci) >= size /\ size > MaxCalls -> Throw(s)
          [] OTHER ->
                IF 2 * size > MaxCalls THEN RunError(grown)
                ELSE [entered EXCEPT !.st[t].size = 2 * size]

Exec(t, n) == [a |-> "exec", thread |-> t, n |-> n]
CFrame(t, f) == [a |-> "cfun", thread |-> t, f |-> f]
Body(t, f) == IF f = "lua" THEN Exec(t, 1) ELSE CFrame(t, f)

\* luaD_call: with the limit on nested C calls.
Call(s, f) ==
    LET t == Last(s.native).thread
        n == s.st[t].nC + 1
        c == [s EXCEPT !.st[t].nC = n, !.native = Append(@, Frame("call", t))]
    IN  CASE n = MaxCCalls -> RunError(c)
          [] n >= MaxCCalls + CSlack -> Throw(c)
          [] OTHER -> Enter(c, f, Append(c.native, Body(t, f)))

\* luaD_pcall up to the call; the frame keeps what an error must restore.
Protected(s, t, handler) ==
    LET r == s.st[t]
        back == [a |-> "pcall", thread |-> t, depth |-> Len(r.ci), nC |-> r.nC,
                 errf |-> r.errf, allow |-> r.allow, jmp |-> r.jmp]
    IN  [s EXCEPT !.st[t].errf = handler, !.st[t].jmp = Len(s.native) + 1,
                  !.native = Append(@, back)]

-----------------------------------------------------------------------------
(* luaV_execute.                                                             *)

Executes == native # <<>> /\ top.a = "exec" /\ ctl = "run"

OpCall(f) ==
    /\ Executes
    /\ Becomes(Enter(State, f, IF f = "lua" THEN [native EXCEPT ![Len(native)].n = @ + 1]
                               ELSE Append(native, CFrame(L, f))))

\* A tail call of a Lua function: its CallInfo is made, then takes the place of
\* the caller's, whose upvalues are closed.
OpTailCall ==
    /\ Executes /\ "tail call" \in uses
    /\ LET entered == Enter(State, "lua", native)
       IN  Becomes(IF entered.native = native
                   THEN [entered EXCEPT !.st[L].ci = Front(@),
                                        !.st[L].opened = @ \ {Depth(L)}]
                   ELSE entered)

\* luaD_poscall; luaV_execute returns when it began with this function.
OpReturn ==
    /\ Executes
    /\ st' = [st EXCEPT ![L].ci = Front(@), ![L].opened = @ \ {Depth(L)}]
    /\ IF top.n = 1
       THEN native' = Front(native) /\ ctl' = Left(native')
       ELSE native' = [native EXCEPT ![Len(native)].n = @ - 1] /\ UNCHANGED ctl
    /\ UNCHANGED uses

OpClosure ==
    /\ Executes /\ "closure" \in uses
    /\ st' = [st EXCEPT ![L].opened = @ \cup {Depth(L)}]
    /\ UNCHANGED <<uses, native, ctl>>

\* callTMres and callTM: an instruction calls a metamethod.
CallTM(f) == Executes /\ "metamethod" \in uses /\ Becomes(Call(State, f))

\* luaD_callhook, which hookf answers with a call of the program's function.
CallHook ==
    /\ Executes /\ "hook" \in uses /\ S.allow
    /\ Becomes(Call([State EXCEPT !.st[L].allow = FALSE,
                                  !.native = Append(@, Frame("hook", L))], "lua"))

\* coroutine.create, with a Lua function on the new stack.
Create(t) ==
    /\ Executes /\ uses \cap {"resume", "wrap"} # {}
    /\ st[t].status = "none"
    /\ st' = [st EXCEPT ![t] = NewState("ok", "function")]
    /\ UNCHANGED <<uses, native, ctl>>

\* An error of the program: luaG_runerror, luaL_error, lua_error.
RaiseError ==
    /\ ctl = "run" /\ native # <<>> /\ top.a \in {"exec", "cfun"}
    /\ Becomes(RunError(State))

\* luaD_throw(L, LUA_ERRMEM), which no message handler hears of.
MemoryError ==
    /\ ctl = "run" /\ native # <<>> /\ top.a \in {"exec", "cfun", "parser"}
    /\ Becomes(Throw(State))

\* checkstacksizes, when the collector traverses a thread.
ShrinkCI(t) ==
    /\ Executes /\ st[t].status # "none"
    /\ st[t].size <= MaxCalls
    /\ 4 * (Depth(t) - 1) < st[t].size /\ 2 * BasicCI < st[t].size
    /\ st' = [st EXCEPT ![t].size = @ \div 2]
    /\ UNCHANGED <<uses, native, ctl>>

-----------------------------------------------------------------------------
(* C functions.                                                              *)

InC(fs, when) == native # <<>> /\ top.a = "cfun" /\ top.f \in fs /\ ctl \in when

\* luaB_pcall and luaB_xpcall: lua_pcall, f_call.
LuaPcall(f) ==
    /\ InC({"pcall", "xpcall"}, {"run"})
    /\ Becomes(Call(Protected(State, L, top.f = "xpcall"), f))

\* luaB_loadstring: luaD_protectedparser.
LuaLoad ==
    /\ InC({"load"}, {"run"})
    /\ Becomes([Protected(State, L, S.errf) EXCEPT
                  !.native = Append(@, [a |-> "parser", thread |-> L, n |-> 0])])

CallsBack(f) == InC({"sort"}, {"run", "ret"}) /\ Becomes(Call([State EXCEPT !.ctl = "run"], f))

\* The C function returns to luaD_precall.
CReturns ==
    /\ \/ InC({"sort", "print"}, {"run"})
       \/ InC({"sort", "wrap"}, {"ret"})
       \/ InC({"pcall", "xpcall", "resume", "load"}, {"ret", "fail"})
    /\ st' = [st EXCEPT ![L].ci = Front(@)]
    /\ native' = Front(native)
    /\ ctl' = Left(native')
    /\ UNCHANGED uses

\* printfunc of sandbox.c has no return statement: what luaD_precall takes for its
\* number of results may be negative, and then it is taken for a yield.
PrintReturnsNegative ==
    /\ InC({"print"}, {"run"})
    /\ native' = IF native[Len(native) - 1].a = "exec"
                 THEN SubSeq(native, 1, Len(native) - 2) ELSE Front(native)
    /\ ctl' = "ret"
    /\ UNCHANGED <<uses, st>>

\* enterlevel and leavelevel of the parser, and its errors.
Parses == native # <<>> /\ top.a = "parser" /\ ctl = "run"
EnterLevel ==
    /\ Parses
    /\ LET s == [State EXCEPT !.st[L].nC = @ + 1, !.native[Len(native)].n = @ + 1]
       IN  Becomes(IF S.nC + 1 > MaxCCalls THEN Throw(s) ELSE s)
LeaveLevel ==
    /\ Parses /\ top.n > 0
    /\ st' = [st EXCEPT ![L].nC = @ - 1]
    /\ native' = [native EXCEPT ![Len(native)].n = @ - 1]
    /\ UNCHANGED <<uses, ctl>>
ParserEnds ==
    /\ Parses /\ top.n = 0
    /\ native' = Front(native) /\ ctl' = "ret"
    /\ UNCHANGED <<uses, st>>

-----------------------------------------------------------------------------
(* What a C frame of the interpreter does when a call it made returns.       *)

Returned(a) == native # <<>> /\ top.a = a /\ ctl = "ret"

CallReturns ==
    /\ Returned("call")
    /\ st' = [st EXCEPT ![L].nC = @ - 1]
    /\ native' = Front(native) /\ ctl' = Left(native')
    /\ UNCHANGED uses

\* Mutant: only an error restores what luaD_pcall changed.
PcallReturnsArmed ==
    /\ Returned("pcall")
    /\ native' = Front(native)
    /\ UNCHANGED <<uses, st, ctl>>

PcallReturns ==
    /\ Returned("pcall")
    /\ st' = [st EXCEPT ![L].errf = top.errf, ![L].jmp = top.jmp]
    /\ native' = Front(native)
    /\ UNCHANGED <<uses, ctl>>

HookReturns ==
    /\ Returned("hook")
    /\ st' = [st EXCEPT ![L].allow = TRUE]
    /\ native' = Front(native) /\ ctl' = Left(native')
    /\ UNCHANGED uses

\* luaG_errormsg: the handler is called, and when it returns the error is thrown.
CallHandler(f) ==
    /\ native # <<>> /\ top.a = "errormsg" /\ ctl = "run"
    /\ Becomes(Call(State, f))
HandlerReturns == Returned("errormsg") /\ Becomes(Throw(State))

-----------------------------------------------------------------------------
(* Coroutines.                                                               *)

CoStatus(from, t) ==
    CASE t = from -> "running"
      [] t # from /\ st[t].status = "yield" -> "suspended"
      [] t # from /\ st[t].status = "error" -> "dead"
      [] t # from /\ st[t].status = "ok" ->
            IF Depth(t) > 1 THEN "normal"
            ELSE IF st[t].vals = "none" THEN "dead" ELSE "suspended"

\* A yield of the function of C that resume has called itself: nothing is above
\* base_ci but the CallInfo of that function.
Stranded(r) == r.status = "yield" /\ Len(r.ci) = 2

\* resume: a coroutine goes on where it yielded, or calls the topmost value f of its
\* stack.  That is the Lua function it was made with, or what an earlier run left
\* there, with the others of its values below: any function, also one of C, for which
\* luaV_execute is not entered, or nothing that can be called.
Resumed(s, t, f) ==
    LET r == s.st[t]
        c == [s EXCEPT !.st[t].vals = IF @ = "values" THEN @ ELSE "none"]
    IN  CASE r.status = "yield" ->
                [s EXCEPT !.st[t].status = "ok", !.st[t].ci = Front(@),
                          !.native = Append(@, Exec(t, Len(r.ci) - 2))]
          [] r.status # "yield" /\ f = "uncallable" -> RunError(c)
          [] r.status # "yield" /\ f # "uncallable" -> Enter(c, f, Append(c.native, Body(t, f)))

\* auxresume and lua_resume.  A stranded coroutine has no function to go on with:
\* luaV_execute takes its pc from base_ci, which has none (NULL).
AuxResume(t, f) ==
    /\ InC({"resume", "wrap"}, {"run"}) /\ st[t].status # "none"
    /\ st[t].vals = "values" \/ f = "lua"
    /\ Becomes(
         IF CoStatus(L, t) # "suspended"
         THEN [State EXCEPT !.ctl = "fail"]
         ELSE IF S.nC >= MaxCCalls
         THEN [State EXCEPT !.ctl = "fail", !.st[t].nC = S.nC,
                            !.st[t].vals = IF st[t].status = "ok" THEN "none" ELSE @]
         ELSE IF Stranded(st[t])
         THEN [State EXCEPT !.ctl = "crash"]
         ELSE Resumed([State EXCEPT
                         !.st[t] = [@ EXCEPT !.nC = S.nC + 1, !.baseC = S.nC + 1,
                                             !.jmp = Len(native) + 1],
                         !.native = Append(@, [a |-> "resume", thread |-> t, jmp |-> st[t].jmp])],
                      t, f))

\* luaB_yield: the C function returns at once, and so does luaV_execute, if that has
\* called it.
LuaYield ==
    /\ InC({"yield"}, {"run"})
    /\ Becomes(IF S.nC > S.baseC THEN RunError(State)
               ELSE [st |-> [st EXCEPT ![L].status = "yield"],
                     native |-> IF native[Len(native) - 1].a = "exec"
                                THEN SubSeq(native, 1, Len(native) - 2) ELSE Front(native),
                     ctl |-> "ret"])

\* lua_resume returns, and lua_xmove moves the values; if they are too many for
\* the stack of the other thread, they stay and auxresume raises an error.
ResumeReturns(fits) ==
    /\ Returned("resume")
    /\ LET r == [State EXCEPT !.st[L] = [@ EXCEPT !.nC = S.nC - 1, !.jmp = top.jmp],
                              !.native = Front(@)]
           ended == IF fits THEN "none" ELSE "values"
       IN  Becomes([r EXCEPT !.ctl = IF fits THEN @ ELSE "overfull",
                             !.st[L].vals = IF S.status = "ok" THEN ended ELSE @])

\* luaL_error of auxresume, and luaB_auxwrap passing an error on.
ResumeFails ==
    /\ InC({"wrap"}, {"fail"}) \/ InC({"resume", "wrap"}, {"overfull"})
    /\ Becomes(RunError([State EXCEPT !.ctl = "run"]))

-----------------------------------------------------------------------------
\* main() of sandbox.c: lua_pcall of the chunk, or, when it did not compile, of the
\* message, which is not a function.
Start(compiled) ==
    /\ native = <<>> /\ ctl = "run"
    /\ LET p == Protected(State, Main, FALSE)
       IN  Becomes(IF compiled THEN Call(p, "lua") ELSE RunError(p))

Init ==
    /\ st = [t \in Threads |-> NewState(IF t = Main THEN "ok" ELSE "none", "none")]
    /\ native = <<>> /\ ctl = "run"
    /\ uses \in Programs

\* What a program can leave on the stack of a coroutine.
Values == LuaFunctions \cup (uses \cap CFunctions) \cup {"uncallable"}

Next ==
    \/ \E b \in BOOLEAN : Start(b) \/ ResumeReturns(b)
    \/ \E f \in LuaFunctions \cup (uses \cap CFunctions) : OpCall(f)
    \/ \E f \in LuaFunctions \cup (uses \cap {"yield"}) : CallTM(f) \/ LuaPcall(f) \/ CallsBack(f) \/ CallHandler(f)
    \/ \E t \in Threads : Create(t) \/ ShrinkCI(t) \/ \E f \in Values : AuxResume(t, f)
    \/ OpTailCall \/ OpReturn \/ OpClosure \/ CallHook
    \/ RaiseError \/ MemoryError
    \/ LuaLoad \/ EnterLevel \/ LeaveLevel \/ ParserEnds
    \/ CReturns \/ CallReturns \/ PcallReturns \/ HookReturns \/ HandlerReturns
    \/ LuaYield \/ ResumeFails

Spec == Init /\ [][Next]_vars

\* With the print of the sandbox as it is compiled.
SandboxSpec == Init /\ [][Next \/ PrintReturnsNegative]_vars

-----------------------------------------------------------------------------
Indices(P(_)) == {i \in DOMAIN native : P(native[i])}
FramesOf(t) == Indices(LAMBDA r : r.thread = t)
Innermost(T) == IF T = {} THEN 0 ELSE Max(T)
SumOf(f) ==
    LET sum[i \in 0..Len(f)] == IF i = 0 THEN 0 ELSE sum[i - 1] + f[i] IN sum[Len(f)]

\* Types of the variables; the CallInfos fit in their array, which has at most
\* twice the size an overflow is reported at.
TypeOK ==
    /\ ctl \in {"run", "ret", "fail", "overfull", "exit", "crash"}
    /\ \A t \in Threads :
          /\ st[t].status \in {"none", "ok", "yield", "error"}
          /\ Len(st[t].ci) \in 1..st[t].size /\ st[t].size <= 2 * MaxCalls
          /\ Range(Tail(st[t].ci)) \subseteq LuaFunctions \cup CFunctions
          /\ st[t].nC \in 0..(MaxCCalls + CSlack) /\ st[t].baseC \in Nat
          /\ st[t].vals \in {"none", "function", "values"}
          /\ st[t].jmp \in Nat /\ st[t].errf \in BOOLEAN /\ st[t].allow \in BOOLEAN
    /\ \A i \in DOMAIN native : native[i].thread \in Threads

\* A thread that has frames on the C stack, and does not yield, has exactly the CallInfos that these
\* run, whatever errors, yields and tail calls there were.
CallInfos(r) == IF r.a = "exec" THEN r.n ELSE IF r.a = "cfun" THEN 1 ELSE 0
FramesMatch ==
    \A t \in Threads : FramesOf(t) # {} /\ st[t].status # "yield" =>
        Depth(t) - 1 = SumOf([i \in DOMAIN native |->
                                IF native[i].thread = t THEN CallInfos(native[i]) ELSE 0])

\* An error always has a place to jump to: errorJmp is the innermost protected
\* frame of the thread that is still on the C stack, and the message handler and
\* the hook flag are those that belong to it.
JumpsLand ==
    /\ ctl # "exit"
    /\ \A t \in Threads :
          LET pcalls == {i \in FramesOf(t) : native[i].a \in {"pcall", "resume"}}
              hooks == {i \in FramesOf(t) : native[i].a = "hook"}
          IN  /\ st[t].jmp = Innermost(pcalls)
              /\ FramesOf(t) # {} => st[t].allow = (hooks = {})
              /\ FramesOf(t) # {} /\ st[t].errf =>
                    \E i \in pcalls : native[i].a = "pcall"

\* nCcalls of a running or waiting thread counts the nested C calls of all threads
\* below it, so that coroutines cannot be used to get around the limit.
Nested(r) == IF r.a \in {"call", "resume"} THEN 1 ELSE IF r.a = "parser" THEN r.n ELSE 0
CallsCounted ==
    \A t \in Threads : FramesOf(t) # {} =>
        st[t].nC = SumOf([i \in 1..Max(FramesOf(t)) |-> Nested(native[i])])

\* An open upvalue is a local of a Lua function that has not returned.
UpvaluesInFrames ==
    \A t \in Threads : \A d \in st[t].opened : d <= Depth(t) /\ st[t].ci[d] = "lua"

\* What an error leaves behind in a lua_State is what a return would have left:
\* the types, the count of C calls and the open upvalues.
StatesRestored == TypeOK /\ CallsCounted /\ UpvaluesInFrames

\* Coroutines have the states the abstract specification gives them.
ChainOf(nat) ==
    LET chain[i \in 0..Len(nat)] ==
            IF i = 0 THEN <<Main>>
            ELSE IF nat[i].a = "resume" THEN Append(chain[i - 1], nat[i].thread)
            ELSE chain[i - 1]
    IN  chain[Len(nat)]
\* No thread runs any more after a crash.
Chain == IF ctl = "crash" THEN <<>> ELSE ChainOf(native)
Status(from, t) == IF st[t].status = "none" THEN "none" ELSE CoStatus(from, t)
Statuses == LET running == Last(ChainOf(native)) IN [t \in Threads |-> Status(running, t)]
Kept == {t \in Threads : st[t].vals = "values"}
Promise == INSTANCE Coroutines WITH status <- Statuses, chain <- Chain, kept <- Kept
CoroutinesPromise == Promise!Spec
============================================================================
