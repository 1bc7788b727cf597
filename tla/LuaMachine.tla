----------------------------- MODULE LuaMachine -----------------------------
(* A chunk from its tokens to its results: compiled by LuaParser, checked as *)
(* ldebug.c checks a prototype, and run one instruction a step by the        *)
(* virtual machine (luaV_execute in lvm.c with the calls of ldo.c).          *)
(*                                                                           *)
(* One stack holds the registers of all active functions: a function called  *)
(* finds its arguments where its caller left them, next to the caller's own  *)
(* registers, and an upvalue of a function still active is a place of the    *)
(* stack.  Metatables, coroutines and errors caught by pcall are elsewhere   *)
(* (LuaTable, LuaCalls): here an error ends the run.                         *)
EXTENDS LuaParser, SourceMeaning

CONSTANTS Programs,     \* the programs, as SourceMeaning has them
          StackSize,    \* slots of the stack
          \* Compile and Meaning: constants, or TLC follows every chain of calls below them
          Compiler(_), MeaningOf(_)

VARIABLES program,      \* the program, and how many of its tokens are kept
          meaning,      \* what the program should do, once it is loaded
          chunk,        \* the function the compiler made of it
          L             \* the running machine, lua_State

vars == <<program, meaning, chunk, L>>

(* ------------------------- the check of a prototype ---------------------- *)
(* luaP_opmodes: the instructions that set register A, and what B and C are: *)
(* a register, a register or a constant, anything, or nothing.               *)
BIsReg == {"MOVE", "LOADNIL", "GETTABLE", "SELF", "UNM", "NOT", "LEN", "CONCAT", "TEST", "TESTSET"}
BIsRK == {"SETTABLE", "ADD", "SUB", "MUL", "DIV", "MOD", "POW", "EQ", "LT", "LE"}
BIsConstant == {"LOADK", "GETGLOBAL", "SETGLOBAL"}
CIsReg == {"CONCAT"}
CIsRK == {"GETTABLE", "SELF"} \cup BIsRK
Jumping == {"JMP", "FORLOOP", "FORPREP"}
NoB == {"TFORLOOP", "CLOSE"}
NoC == {"MOVE", "LOADNIL", "GETUPVAL", "SETUPVAL", "UNM", "NOT", "LEN", "RETURN", "CLOSE", "VARARG"}

Precheck(p) ==
    /\ p.maxstack <= MaxStack
    /\ p.numparams + (IF "HASARG" \in p.vararg THEN 1 ELSE 0) <= p.maxstack
    /\ "NEEDSARG" \in p.vararg => "HASARG" \in p.vararg
    /\ p.code # <<>> /\ p.code[Len(p.code)].op = "RETURN"

(* Only these can follow an instruction that leaves the top of the stack     *)
(* where its values end.                                                     *)
CheckOpenOp(i) == i.op \in {"CALL", "TAILCALL", "RETURN", "SETLIST"} /\ i.b = 0

CheckInstr(p, pc) ==
    LET i == At(p, pc)
        reg(r) == r < p.maxstack
        rk(r) == IF IsK(r) THEN r - BitRK < Len(p.k) ELSE reg(r)
        size == Len(p.code)
        open == pc + 1 < size /\ CheckOpenOp(At(p, pc + 1))
    IN /\ reg(i.a)
       /\ i.op \in BIsReg => reg(i.b)
       /\ i.op \in BIsRK => rk(i.b)
       /\ i.op \in BIsConstant => i.b < Len(p.k)
       /\ i.op \in NoB => i.b = 0
       /\ i.op \in CIsReg => reg(i.c)
       /\ i.op \in CIsRK => rk(i.c)
       /\ i.op \in NoC => i.c = 0
       /\ i.op \in Jumping =>
            LET dest == pc + 1 + i.b
            IN 0 <= dest /\ dest < size /\ At(p, dest).op # "count"
       /\ i.op \in TestOps => pc + 2 < size /\ At(p, pc + 1).op = "JMP"
       /\ i.op = "LOADBOOL" /\ i.c = 1 =>
            pc + 2 < size /\ ~(At(p, pc + 1).op = "SETLIST" /\ At(p, pc + 1).c = 0)
       /\ i.op \in {"GETUPVAL", "SETUPVAL"} => i.b < p.nups
       /\ i.op \in {"GETGLOBAL", "SETGLOBAL"} => p.k[i.b + 1][1] = "string"
       /\ i.op = "SELF" => reg(i.a + 1)
       /\ i.op = "CONCAT" => i.b < i.c
       /\ i.op = "TFORLOOP" => i.c >= 1 /\ reg(i.a + 2 + i.c)
       /\ i.op \in {"FORLOOP", "FORPREP"} => reg(i.a + 3)
       /\ i.op \in {"CALL", "TAILCALL"} =>
            /\ i.b # 0 => reg(i.a + i.b - 1)
            /\ IF i.c = 0 THEN open ELSE i.c > 1 => reg(i.a + i.c - 2)
       /\ i.op = "RETURN" /\ i.b > 1 => reg(i.a + i.b - 2)
       /\ i.op = "SETLIST" =>
            /\ i.b > 0 => reg(i.a + i.b)
            /\ i.c = 0 => pc + 1 < size - 1
       /\ i.op = "CLOSURE" =>
            /\ i.b < Len(p.p)
            /\ pc + p.p[i.b + 1].nups < size
            /\ \A j \in 1..p.p[i.b + 1].nups : At(p, pc + j).op \in {"GETUPVAL", "MOVE"}
       /\ i.op = "VARARG" =>
            /\ "ISVARARG" \in p.vararg /\ "NEEDSARG" \notin p.vararg
            /\ i.b = 0 => open
            /\ reg(i.a + i.b - 2)

RECURSIVE CheckCode(_)
CheckCode(p) ==
    /\ Precheck(p)
    /\ \A pc \in 0..Len(p.code) - 1 : At(p, pc).op # "count" => CheckInstr(p, pc)
    /\ \A n \in DOMAIN p.p : CheckCode(p.p[n])

(* ------------------------------ the machine ------------------------------ *)
(* A closure knows its prototype by the way to it from the chunk.            *)
RECURSIVE ProtoAt(_, _)
ProtoAt(p, path) == IF path = <<>> THEN p ELSE ProtoAt(p.p[Head(path) + 1], Tail(path))

Ci == L.ci[Len(L.ci)]
Closure(m) == m.closures[m.stack[m.ci[Len(m.ci)].func][2]]
P == ProtoAt(chunk.main, Closure(L).path)
I == At(P, Ci.pc)
Running == L.status = "running"
Executes(ops) == Running /\ I.op \in ops

R(n) == L.stack[Ci.base + n]
RKValue(n) == IF IsK(n) THEN P.k[n - BitRK + 1] ELSE R(n)
IsFalse(v) == v \in {Nil, Bool(FALSE)}

(* The machine past the instruction, and past the jump after it.             *)
Skip(m, n) == [m EXCEPT !.ci[Len(m.ci)].pc = @ + n]
Past == Skip(L, 1)
SetReg(m, n, v) == [m EXCEPT !.stack[m.ci[Len(m.ci)].base + n] = v]
Error(m) == [m EXCEPT !.status = "error"]

(* A test skips the jump after it, or takes it.                              *)
Branch(m, taken) == Skip(m, IF taken THEN 1 + At(P, Ci.pc + 1).b ELSE 1)

Placed(stack, at, vs) ==
    [n \in DOMAIN stack |-> IF n \in at..at + Len(vs) - 1 THEN vs[n - at + 1] ELSE stack[n]]
Cut(m, from, to) == IF to <= from THEN <<>> ELSE [n \in 1..to - from |-> m.stack[from + n - 1]]
Nils(n) == IF n <= 0 THEN <<>> ELSE [x \in 1..n |-> Nil]

Content(m, t) == m.tables[t[2]]
ReadTable(m, t, key) == IF key \in DOMAIN Content(m, t) THEN Content(m, t)[key] ELSE Nil
WriteTable(m, t, key, v) ==
    [m EXCEPT !.tables[t[2]] = [x \in DOMAIN @ \cup {key} |-> IF x = key THEN v ELSE @[x]]]
Globals == <<"table", 1>>

GetTable(m, t, key, reg) ==
    IF t[1] = "table" THEN SetReg(m, reg, ReadTable(m, t, key)) ELSE Error(m)
SetTable(m, t, key, v) ==
    IF t[1] = "table" /\ key # Nil THEN WriteTable(m, t, key, v) ELSE Error(m)

(* Upvalues: a place of the stack while the variable lives, then the value.  *)
UpValue(m, n) ==
    LET uv == m.upvals[Closure(m).ups[n + 1]] IN IF uv.open THEN m.stack[uv.at] ELSE uv.v
CloseFrom(m, level) ==
    [m EXCEPT !.upvals = [n \in DOMAIN @ |->
        IF @[n].open /\ @[n].at >= level THEN [open |-> FALSE, at |-> 0, v |-> m.stack[@[n].at]]
        ELSE @[n]]]
OpenAt(m, at) == {n \in DOMAIN m.upvals : m.upvals[n].open /\ m.upvals[n].at = at}
FindUpval(m, at) ==
    IF OpenAt(m, at) # {} THEN m
    ELSE [m EXCEPT !.upvals = Append(@, [open |-> TRUE, at |-> at, v |-> Nil])]

(* Calls.  The results of a call replace the function and its arguments.     *)
Deliver(m, func, results, wanted) ==
    LET n == IF wanted = MultRet THEN Len(results) ELSE wanted
        vs == SubSeq(results, 1, IF n < Len(results) THEN n ELSE Len(results))
    IN [m EXCEPT !.stack = Placed(@, func, vs \o Nils(n - Len(vs))), !.top = func + n]

(* The parameters of a vararg function move above its arguments; a function  *)
(* that asks for it gets the others in a table.                              *)
AdjustVarargs(m, func, p) ==
    LET given == Cut(m, func + 1, m.top)
        args == given \o Nils(p.numparams - Len(given))
        extra == SubSeq(args, p.numparams + 1, Len(args))
        table == [x \in {Num(n) : n \in DOMAIN extra} \cup {Str(<<"n">>)} |->
                    IF x[1] = "number" THEN extra[x[2]] ELSE Num(Len(extra))]
        needs == "NEEDSARG" \in p.vararg
        argument == IF needs THEN <<<<"table", Len(m.tables) + 1>>>> ELSE <<>>
        base == func + 1 + Len(args)
    IN [m |-> [m EXCEPT !.tables = IF needs THEN Append(@, table) ELSE @,
                        !.stack = Placed(Placed(@, func + 1, Nils(p.numparams)), base,
                                         SubSeq(args, 1, p.numparams) \o argument),
                        !.top = base + p.numparams + Len(argument)],
        base |-> base]

PreCall(m, func, nresults) ==
    LET f == m.stack[func]
        args == Cut(m, func + 1, m.top)
        p == ProtoAt(chunk.main, m.closures[f[2]].path)
        limit == func + 1 + p.numparams
        fixed == [m |-> [m EXCEPT !.top = IF @ > limit THEN limit ELSE @], base |-> func + 1]
        r == IF p.vararg = {} THEN fixed ELSE AdjustVarargs(m, func, p)
        ci == [func |-> func, base |-> r.base, top |-> r.base + p.maxstack,
               nresults |-> nresults, pc |-> 0]
    IN CASE f[1] = "native" ->
              Deliver([m EXCEPT !.trace = Append(@, args)], func, args, nresults)
         [] f[1] = "function" ->
              IF m.top + p.maxstack + p.numparams + 1 > StackSize THEN Error(m)
              ELSE [r.m EXCEPT !.stack = Placed(@, r.m.top, Nils(ci.top - r.m.top)),
                               !.top = ci.top, !.ci = Append(@, ci)]
         [] OTHER -> Error(m)
IsLua(v) == v[1] = "function"
ToTop(m) == [m EXCEPT !.top = m.ci[Len(m.ci)].top]

(* The iterator of a generic for has returned its values to register A + 3.  *)
(* The jump after the instruction is that of the calling function.           *)
EndTFor(m, p) ==
    LET ci == m.ci[Len(m.ci)]
        i == At(p, ci.pc - 1)
        v == m.stack[ci.base + i.a + 3]
    IN IF v = Nil THEN Skip(ToTop(m), 1)
       ELSE Skip(SetReg(ToTop(m), i.a + 2, v), 1 + At(p, ci.pc).b)

(* ------------------------------ instructions ----------------------------- *)
Machine0 ==
    [stack |-> [n \in 0..StackSize - 1 |-> IF n = 0 THEN <<"function", 1>> ELSE Nil],
     top |-> 1, ci |-> <<>>, upvals |-> <<>>, tables |-> <<Library>>,
     closures |-> <<[path |-> <<>>, ups |-> <<>>]>>,
     trace |-> <<>>, results |-> <<>>, status |-> "source"]

Init ==
    /\ program \in Programs
    /\ meaning = [status |-> "", trace |-> <<>>, results |-> <<>>]
    /\ chunk = [ok |-> FALSE, sound |-> TRUE, main |-> Proto(FuncState0)]
    /\ L = Machine0

Load ==
    /\ L.status = "source"
    /\ chunk' = Compiler(Tokens(program))
    /\ meaning' = MeaningOf(program)
    /\ L' = [L EXCEPT !.status = IF chunk'.ok THEN "loaded" ELSE "rejected"]
    /\ UNCHANGED program

Start ==
    /\ L.status = "loaded"
    /\ L' = PreCall([L EXCEPT !.status = "running"], 0, MultRet)
    /\ UNCHANGED <<program, meaning, chunk>>

Becomes(m) == L' = m /\ UNCHANGED <<program, meaning, chunk>>

Move ==
    /\ Executes({"MOVE", "LOADK", "GETUPVAL", "NOT"})
    /\ Becomes(SetReg(Past, I.a,
          CASE I.op = "MOVE" -> R(I.b)
            [] I.op = "LOADK" -> P.k[I.b + 1]
            [] I.op = "GETUPVAL" -> UpValue(L, I.b)
            [] I.op = "NOT" -> Bool(IsFalse(R(I.b)))))

LoadBool ==
    /\ Executes({"LOADBOOL"})
    /\ Becomes(SetReg(Skip(L, 1 + I.c), I.a, Bool(I.b = 1)))

LoadNils ==
    /\ Executes({"LOADNIL"})
    /\ Becomes([Past EXCEPT !.stack = Placed(@, Ci.base + I.a, Nils(I.b - I.a + 1))])

GetGlobal ==
    /\ Executes({"GETGLOBAL"})
    /\ Becomes(GetTable(Past, Globals, P.k[I.b + 1], I.a))
SetGlobal ==
    /\ Executes({"SETGLOBAL"})
    /\ Becomes(SetTable(Past, Globals, P.k[I.b + 1], R(I.a)))

GetIndexed ==
    /\ Executes({"GETTABLE"})
    /\ Becomes(GetTable(Past, R(I.b), RKValue(I.c), I.a))
SetIndexed ==
    /\ Executes({"SETTABLE"})
    /\ Becomes(SetTable(Past, R(I.a), RKValue(I.b), RKValue(I.c)))
GetMethod ==
    /\ Executes({"SELF"})
    /\ Becomes(GetTable(SetReg(Past, I.a + 1, R(I.b)), R(I.b), RKValue(I.c), I.a))

SetUpval ==
    LET n == Closure(L).ups[I.b + 1]
    IN /\ Executes({"SETUPVAL"})
       /\ Becomes(IF L.upvals[n].open THEN [Past EXCEPT !.stack[L.upvals[n].at] = R(I.a)]
                  ELSE [Past EXCEPT !.upvals[n].v = R(I.a)])

NewTable ==
    /\ Executes({"NEWTABLE"})
    /\ Becomes(SetReg([Past EXCEPT !.tables = Append(@, [x \in {} |-> Nil])],
                      I.a, <<"table", Len(L.tables) + 1>>))

Arith ==
    LET b == IF I.op = "UNM" THEN R(I.b) ELSE RKValue(I.b)
        c == IF I.op = "UNM" THEN b ELSE RKValue(I.c)
    IN /\ Executes({"ADD", "SUB", "MUL", "DIV", "MOD", "POW", "UNM"})
       /\ Becomes(IF IsNumber(b) /\ IsNumber(c) THEN SetReg(Past, I.a, Calc(I.op, b, c))
                  ELSE Error(L))

(* The length of a table is that of the list it holds.                       *)
Length ==
    LET items == {n \in 1..Cardinality(DOMAIN Content(L, R(I.b))) :
                    \A m \in 1..n : ReadTable(L, R(I.b), Num(m)) # Nil}
    IN /\ Executes({"LEN"})
       /\ Becomes(CASE R(I.b)[1] = "table" -> SetReg(Past, I.a, Num(Cardinality(items)))
                    [] R(I.b)[1] = "string" -> SetReg(Past, I.a, Num(Len(R(I.b)[2])))
                    [] OTHER -> Error(L))

RECURSIVE Concatenated(_)
Concatenated(vs) == IF vs = <<>> THEN <<>> ELSE Head(vs)[2] \o Concatenated(Tail(vs))
Concatenate ==
    LET operands == Cut(L, Ci.base + I.b, Ci.base + I.c + 1)
        joined == Str(Concatenated(operands))
    IN /\ Executes({"CONCAT"})
       /\ Becomes(IF \A n \in DOMAIN operands : operands[n][1] = "string"
                  THEN SetReg(SetReg(Past, I.b, joined), I.a, joined) ELSE Error(L))

DoJump == /\ Executes({"JMP"})
          /\ Becomes(Skip(Past, I.b))

LessThan(x, y) == x[2] < y[2]
Comparable(x, y) == x[1] = "number" /\ y[1] = "number"
Compare ==
    LET b == RKValue(I.b)
        c == RKValue(I.c)
        holds == CASE I.op = "EQ" -> b = c
                   [] I.op = "LT" -> LessThan(b, c)
                   [] I.op = "LE" -> ~LessThan(c, b)
    IN /\ Executes({"EQ", "LT", "LE"})
       /\ Becomes(IF I.op = "EQ" \/ Comparable(b, c) THEN Branch(Past, holds = (I.a = 1))
                  ELSE Error(L))

Test ==
    /\ Executes({"TEST"})
    /\ Becomes(Branch(Past, IsFalse(R(I.a)) # (I.c = 1)))
TestSet ==
    LET taken == IsFalse(R(I.b)) # (I.c = 1)
    IN /\ Executes({"TESTSET"})
       /\ Becomes(Branch(IF taken THEN SetReg(Past, I.a, R(I.b)) ELSE Past, taken))

WithTop == IF I.b = 0 THEN Past ELSE [Past EXCEPT !.top = Ci.base + I.a + I.b]
(* Mutation: after a C function the top stays where its results end.         *)
CallKeepsTop ==
    /\ Executes({"CALL"})
    /\ Becomes(PreCall(WithTop, Ci.base + I.a, I.c - 1))
Call ==
    LET called == PreCall(WithTop, Ci.base + I.a, I.c - 1)
    IN /\ Executes({"CALL"})
       /\ Becomes(IF R(I.a)[1] = "native" /\ I.c > 0 THEN ToTop(called) ELSE called)

(* The new frame takes the place of the caller's.                            *)
TakesOver(called) ==
    LET new == called.ci[Len(called.ci)]
        down == new.func - Ci.func
        frame == [new EXCEPT !.func = Ci.func, !.base = @ - down, !.top = @ - down,
                             !.nresults = Ci.nresults]
    IN IF Len(called.ci) = Len(L.ci) THEN called
       ELSE [CloseFrom(called, Ci.base) EXCEPT
               !.ci = Append(SubSeq(@, 1, Len(@) - 2), frame),
               !.stack = Placed(@, Ci.func, Cut(called, new.func, called.top)),
               !.top = frame.top]
TailCall ==
    /\ Executes({"TAILCALL"})
    /\ Becomes(TakesOver(PreCall(WithTop, Ci.base + I.a, MultRet)))

(* The caller, with the results where it wants them, goes on.                *)
Resumed(back, nresults) ==
    LET caller == ProtoAt(chunk.main, Closure(back).path)
        op == At(caller, back.ci[Len(back.ci)].pc - 1).op
    IN CASE op = "TFORLOOP" -> EndTFor(back, caller)
         [] op # "TFORLOOP" -> IF nresults = MultRet THEN back ELSE ToTop(back)
Return ==
    LET m == IF I.b = 0 THEN L ELSE [L EXCEPT !.top = Ci.base + I.a + I.b - 1]
        results == Cut(m, Ci.base + I.a, m.top)
        back == Deliver([CloseFrom(m, Ci.base) EXCEPT !.ci = SubSeq(@, 1, Len(@) - 1)],
                        Ci.func, results, Ci.nresults)
    IN /\ Executes({"RETURN"})
       /\ Becomes(IF Len(L.ci) = 1 THEN [back EXCEPT !.results = results, !.status = "done"]
                  ELSE Resumed(back, Ci.nresults))

(* The index is one step below the first value until the loop begins.        *)
ForPrep ==
    /\ Executes({"FORPREP"})
    /\ Becomes(IF \A n \in 0..2 : IsNumber(R(I.a + n))
               THEN Skip(SetReg(Past, I.a, Calc("SUB", R(I.a), R(I.a + 2))), I.b)
               ELSE Error(L))
ForLoop ==
    LET step == R(I.a + 2)
        idx == Calc("ADD", R(I.a), step)
        goes == IF LessThan(Num(0), step) THEN ~LessThan(R(I.a + 1), idx)
                ELSE ~LessThan(idx, R(I.a + 1))
    IN /\ Executes({"FORLOOP"})
       /\ Becomes(IF goes THEN Skip(SetReg(SetReg(Past, I.a, idx), I.a + 3, idx), I.b) ELSE Past)
TForLoop ==
    LET cb == Ci.base + I.a + 3
        ready == [Past EXCEPT !.stack = Placed(@, cb, Cut(L, cb - 3, cb)), !.top = cb + 3]
        called == PreCall(ready, cb, I.c)
    IN /\ Executes({"TFORLOOP"})
       /\ Becomes(IF R(I.a)[1] = "native" THEN EndTFor(called, P) ELSE called)

SetItems ==
    LET m == IF I.b = 0 THEN ToTop(L) ELSE L
        n == IF I.b = 0 THEN L.top - (Ci.base + I.a) - 1 ELSE I.b
        c == IF I.c = 0 THEN At(P, Ci.pc + 1).a ELSE I.c
        first == (c - 1) * FieldsPerFlush
        items == [x \in {Num(first + j) : j \in 1..n} |-> R(I.a + x[2] - first)]
    IN /\ Executes({"SETLIST"})
       /\ Becomes(Skip([m EXCEPT !.tables[R(I.a)[2]] =
                            [x \in DOMAIN items \cup DOMAIN @ |->
                                IF x \in DOMAIN items THEN items[x] ELSE @[x]]],
                       IF I.c = 0 THEN 2 ELSE 1))

Close == /\ Executes({"CLOSE"})
         /\ Becomes(CloseFrom(Past, Ci.base + I.a))

(* The upvalues of a new closure are variables of this function, or those it *)
(* has itself: the instructions that follow say which.                       *)
RECURSIVE Captured(_, _, _)
Captured(m, n, ups) ==
    LET i == At(P, Ci.pc + 1 + Len(ups))
        found == FindUpval(m, Ci.base + i.b)
        uv == CHOOSE u \in OpenAt(found, Ci.base + i.b) : TRUE
    IN IF Len(ups) = n THEN [m |-> m, ups |-> ups]
       ELSE IF i.op = "GETUPVAL" THEN Captured(m, n, Append(ups, Closure(L).ups[i.b + 1]))
       ELSE Captured(found, n, Append(ups, uv))
MakeClosure ==
    LET n == P.p[I.b + 1].nups
        r == Captured(L, n, <<>>)
        new == [path |-> Append(Closure(L).path, I.b), ups |-> r.ups]
    IN /\ Executes({"CLOSURE"})
       /\ Becomes(SetReg(Skip([r.m EXCEPT !.closures = Append(@, new)], 1 + n),
                         I.a, <<"function", Len(L.closures) + 1>>))

Varargs ==
    LET n == Ci.base - Ci.func - P.numparams - 1
        b == IF I.b = 0 THEN n ELSE I.b - 1
        args == Cut(L, Ci.base - n, Ci.base) \o Nils(b)
        m == IF I.b = 0 THEN [Past EXCEPT !.top = Ci.base + I.a + n] ELSE Past
    IN /\ Executes({"VARARG"})
       /\ Becomes([m EXCEPT !.stack = Placed(@, Ci.base + I.a, SubSeq(args, 1, b))])

Stopped == L.status \in {"done", "error", "rejected"} /\ UNCHANGED vars

Next ==
    \/ Load \/ Start
    \/ Move \/ LoadBool \/ LoadNils \/ GetGlobal \/ SetGlobal \/ GetIndexed \/ SetIndexed
    \/ GetMethod \/ SetUpval \/ NewTable \/ Arith \/ Length \/ Concatenate
    \/ DoJump \/ Compare \/ Test \/ TestSet \/ Call \/ TailCall \/ Return
    \/ ForPrep \/ ForLoop \/ TForLoop \/ SetItems \/ Close \/ MakeClosure \/ Varargs
    \/ Stopped

Spec == Init /\ [][Next]_vars

(* ------------------------------ properties ------------------------------- *)
(* What the compiler makes of a program passes the check of a prototype, and *)
(* none of the compiler's own assertions fails on the way: temporaries are   *)
(* freed in order, every jump list is closed where it must be, no block both *)
(* breaks and scopes.  The release build checks none of it.                  *)
CodeIsSound == chunk.ok => chunk.sound /\ CheckCode(chunk.main)

(* The top of the stack is that of the function running, except between an   *)
(* instruction that leaves its values open and the one that takes them: the  *)
(* assertion of the machine's main loop.                                     *)
TopAsAsserted ==
    Running => /\ Ci.base <= L.top /\ L.top <= StackSize
               /\ L.top = Ci.top \/ CheckOpenOp(I)

(* The machine calls the library with the arguments, in the order and as     *)
(* often as the program says, and ends as the program says; a text that is   *)
(* not a program is refused.  Whatever the compiler does with registers,     *)
(* jumps, constants and upvalues stays unseen.                               *)
RunsAsWritten ==
    /\ Len(L.trace) <= Len(meaning.trace)
    /\ L.trace = SubSeq(meaning.trace, 1, Len(L.trace))
    /\ L.status \in {"done", "error", "rejected"} =>
         /\ L.status = meaning.status
         /\ L.trace = meaning.trace
         /\ L.results = meaning.results
=============================================================================
