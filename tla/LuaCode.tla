------------------------------ MODULE LuaCode ------------------------------
(* The code generator of the Lua compiler (lcode.c).  The parser reads a     *)
(* program once and emits instructions as it goes; what it does not know yet *)
(* it keeps in an expression descriptor (where the value is, which jumps     *)
(* leave the expression when it is true and which when it is false) and in   *)
(* lists of jumps linked through the jumps themselves, patched later.        *)
(*                                                                           *)
(* Every operator takes the state of the function being compiled, a          *)
(* FuncState, and returns the next one.  The descriptor of the expression at *)
(* hand is the field e.  The field sound is FALSE once an assertion of the   *)
(* compiler (lua_assert, which the build compiles out) would have failed,    *)
(* err is TRUE once the compiler has raised an error.                        *)
EXTENDS LuaValues

CONSTANTS MaxIndexRK,       \* the largest constant an operand can name
          FieldsPerFlush,   \* list items of a constructor stored at once
          MaxStack,         \* registers of a function
          MaxArgC           \* the largest C argument

NoJump == -1
NoReg == 255
MultRet == -1
BitRK == 256

ASSUME LimitsAssumption ==
    /\ {MaxIndexRK, FieldsPerFlush, MaxStack, MaxArgC} \subseteq Nat
    /\ FieldsPerFlush > 0 /\ MaxIndexRK < BitRK


(* Expression descriptors.  As in the union of the source, info holds a      *)
(* register, an index or a place in the code, and the number of a VKNUM.     *)
Exp(k, info) == [k |-> k, info |-> info, aux |-> 0, t |-> NoJump, f |-> NoJump]
HasJumps(e) == e.t # e.f
IsNumeral(e) == e.k = "VKNUM" /\ e.t = NoJump /\ e.f = NoJump

FuncState0 ==
    [code |-> <<>>, k |-> <<>>, p |-> <<>>, ups |-> <<>>, actvar |-> <<>>,
     nactvar |-> 0, freereg |-> 0, jpc |-> NoJump, lasttarget |-> -1,
     bl |-> <<>>, maxstack |-> 2, numparams |-> 0, vararg |-> {},
     e |-> Exp("VVOID", 0), sound |-> TRUE, err |-> FALSE]

Sound(fs, holds) == [fs EXCEPT !.sound = @ /\ holds]
Raise(fs) == [fs EXCEPT !.err = TRUE]

(* ------------------------------ instructions ----------------------------- *)
(* The place of an instruction counts from 0.  The argument sBx of a jump is *)
(* its field b: the distance from the next instruction, and NoJump, the      *)
(* distance of a jump to itself, for the end of a list of jumps.             *)
Instr(op, a, b, c) == [op |-> op, a |-> a, b |-> b, c |-> c]
Pc(fs) == Len(fs.code)
At(fs, pc) == fs.code[pc + 1]
IsK(rk) == rk >= BitRK

(* The instruction after which the next one is always a jump.                *)
TestOps == {"EQ", "LT", "LE", "TEST", "TESTSET", "TFORLOOP"}

GetJump(fs, pc) ==
    IF At(fs, pc).b = NoJump THEN NoJump ELSE pc + 1 + At(fs, pc).b

RECURSIVE JumpsOf(_, _)
JumpsOf(fs, list) ==
    IF list = NoJump THEN {} ELSE {list} \cup JumpsOf(fs, GetJump(fs, list))

(* The instruction that decides whether a jump is taken.                     *)
JumpControl(fs, pc) ==
    IF pc >= 1 /\ At(fs, pc - 1).op \in TestOps THEN pc - 1 ELSE pc

NeedValue(fs, list) ==
    \E j \in JumpsOf(fs, list) : At(fs, JumpControl(fs, j)).op # "TESTSET"

(* SubSeq makes TLC keep the code as a tuple, not as a function.             *)
WithCode(fs, code) == [fs EXCEPT !.code = SubSeq(code, 1, Len(code))]

(* A TESTSET gets its register, or becomes a TEST when no register is to be  *)
(* set or the value is already there.                                        *)
PatchTestReg(i, reg) ==
    IF reg # NoReg /\ reg # i.b THEN [i EXCEPT !.a = reg]
    ELSE Instr("TEST", i.b, 0, i.c)

(* Every jump of the list that carries a value goes to vtarget, with the     *)
(* value in reg, every other one to dtarget.                                 *)
PatchListAux(fs, list, vtarget, reg, dtarget) ==
    LET jumps == JumpsOf(fs, list)
        valued == {j \in jumps : At(fs, JumpControl(fs, j)).op = "TESTSET"}
        tests == {JumpControl(fs, j) : j \in valued}
        fixed == [n \in DOMAIN fs.code |->
                    CASE n - 1 \in valued -> [fs.code[n] EXCEPT !.b = vtarget - n]
                      [] n - 1 \in jumps \ valued -> [fs.code[n] EXCEPT !.b = dtarget - n]
                      [] n - 1 \in tests -> PatchTestReg(fs.code[n], reg)
                      [] OTHER -> fs.code[n]]
    IN Sound(WithCode(fs, fixed),
              (valued = {} \/ vtarget # NoJump) /\ (jumps = valued \/ dtarget # NoJump))

RemoveValues(fs, list) ==
    LET tests == {JumpControl(fs, j) : j \in JumpsOf(fs, list)}
    IN WithCode(fs, [n \in DOMAIN fs.code |->
            IF n - 1 \in tests /\ fs.code[n].op = "TESTSET"
            THEN PatchTestReg(fs.code[n], NoReg) ELSE fs.code[n]])

FixJump(fs, pc, dest) == [fs EXCEPT !.code[pc + 1].b = dest - (pc + 1)]

(* Two lists in one: the last jump of the first leads to the second.         *)
Joined(l1, l2) == IF l1 = NoJump THEN l2 ELSE l1
Concat(fs, l1, l2) ==
    IF l1 = NoJump \/ l2 = NoJump THEN fs
    ELSE FixJump(fs, CHOOSE j \in JumpsOf(fs, l1) : GetJump(fs, j) = NoJump, l2)

(* The place marked is a jump target: no optimisation across it.             *)
GetLabel(fs) == [fs EXCEPT !.lasttarget = Pc(fs)]

PatchToHere(fs, list) ==
    [Concat(GetLabel(fs), fs.jpc, list) EXCEPT !.jpc = Joined(@, list)]
PatchList(fs, list, target) ==
    IF target = Pc(fs) THEN PatchToHere(fs, list)
    ELSE Sound(PatchListAux(fs, list, target, NoReg, target), target < Pc(fs))

(* The jumps to here are patched when there is an instruction here.          *)
DischargeJpc(fs) ==
    [PatchListAux(fs, fs.jpc, Pc(fs), NoReg, Pc(fs)) EXCEPT !.jpc = NoJump]

Code(fs, op, a, b, c) ==
    [DischargeJpc(fs) EXCEPT !.code = Append(@, Instr(op, a, b, c))]

(* An instruction whose place becomes the info of the expression.            *)
CodeExp(fs, k, op, a, b, c) ==
    [Code(fs, op, a, b, c) EXCEPT !.e.k = k, !.e.info = Pc(fs)]

(* The jumps waiting for this place go wherever the new jump will go.        *)
Jump(fs) ==
    LET g == Code([fs EXCEPT !.jpc = NoJump], "JMP", 0, NoJump, 0)
    IN Concat(g, Pc(fs), fs.jpc)
CondJump(fs, op, a, b, c) == Jump(Code(fs, op, a, b, c))
LastJump(fs) == Pc(fs) - 1

Ret(fs, first, nret) == Code(fs, "RETURN", first, nret + 1, 0)

(* Registers from..from+n-1 set to nil: nothing to do at the start of the    *)
(* function, an extension of a LOADNIL just before, or a LOADNIL.            *)
LoadNil(fs, from, n) ==
    LET extends == Pc(fs) > 0 /\ At(fs, Pc(fs) - 1).op = "LOADNIL"
                   /\ At(fs, Pc(fs) - 1).a <= from /\ from <= At(fs, Pc(fs) - 1).b + 1
    IN CASE Pc(fs) > fs.lasttarget /\ Pc(fs) = 0 /\ from >= fs.nactvar -> fs
         [] Pc(fs) > fs.lasttarget /\ extends ->
              [fs EXCEPT !.code[Pc(fs)].b = IF from + n - 1 > @ THEN from + n - 1 ELSE @]
         [] OTHER -> Code(fs, "LOADNIL", from, from + n - 1, 0)

(* ------------------------- registers and constants ----------------------- *)
(* Mutation: one register too many before the function asks for more.        *)
CheckStackLate(fs, n) ==
    LET top == fs.freereg + n
    IN IF top <= fs.maxstack + 1 THEN fs
       ELSE IF top >= MaxStack THEN Raise(fs) ELSE [fs EXCEPT !.maxstack = top]
CheckStack(fs, n) ==
    LET top == fs.freereg + n
    IN IF top <= fs.maxstack THEN fs
       ELSE IF top >= MaxStack THEN Raise(fs) ELSE [fs EXCEPT !.maxstack = top]
ReserveRegs(fs, n) == [CheckStack(fs, n) EXCEPT !.freereg = @ + n]

(* Temporaries are freed in the opposite order of their allocation.          *)
FreeReg(fs, reg) ==
    IF IsK(reg) \/ reg < fs.nactvar THEN fs
    ELSE Sound([fs EXCEPT !.freereg = @ - 1], reg = fs.freereg - 1)
FreeExp(fs, e) == IF e.k = "VNONRELOC" THEN FreeReg(fs, e.info) ELSE fs
Free(fs) == FreeExp(fs, fs.e)

IndexK(fs, v) == (CHOOSE n \in DOMAIN fs.k : fs.k[n] = v) - 1
AddK(fs, v) ==
    IF \E n \in DOMAIN fs.k : fs.k[n] = v THEN fs ELSE [fs EXCEPT !.k = Append(@, v)]
ConstantExp(fs, v) ==
    LET g == AddK(fs, v) IN [g EXCEPT !.e.k = "VK", !.e.info = IndexK(g, v)]

(* ------------------------- expressions to registers ---------------------- *)
(* The instruction that computes the expression.                             *)
SetReturns(fs, nresults) ==
    CASE fs.e.k = "VCALL" -> [fs EXCEPT !.code[fs.e.info + 1].c = nresults + 1]
      [] fs.e.k = "VVARARG" ->
           ReserveRegs([fs EXCEPT !.code[fs.e.info + 1].b = nresults + 1,
                                  !.code[fs.e.info + 1].a = fs.freereg], 1)
      [] OTHER -> fs
SetMultRet(fs) == SetReturns(fs, MultRet)
SetOneRet(fs) ==
    CASE fs.e.k = "VCALL" ->
           [fs EXCEPT !.e.k = "VNONRELOC", !.e.info = At(fs, fs.e.info).a]
      [] fs.e.k = "VVARARG" ->
           [fs EXCEPT !.code[fs.e.info + 1].b = 2, !.e.k = "VRELOCABLE"]
      [] OTHER -> fs

(* The variable becomes a value: an instruction whose result register is     *)
(* still open, unless it is a local.                                         *)
DischargeVars(fs) ==
    LET e == fs.e
    IN CASE e.k = "VLOCAL" -> [fs EXCEPT !.e.k = "VNONRELOC"]
         [] e.k = "VUPVAL" -> CodeExp(fs, "VRELOCABLE", "GETUPVAL", 0, e.info, 0)
         [] e.k = "VGLOBAL" -> CodeExp(fs, "VRELOCABLE", "GETGLOBAL", 0, e.info, 0)
         [] e.k = "VINDEXED" ->
              CodeExp(FreeReg(FreeReg(fs, e.aux), e.info),
                      "VRELOCABLE", "GETTABLE", 0, e.info, e.aux)
         [] OTHER -> SetOneRet(fs)

Discharge2Reg(fs, reg) ==
    LET g == DischargeVars(fs)
        e == g.e
        loaded ==
          CASE e.k = "VNIL" -> LoadNil(g, reg, 1)
            [] e.k \in {"VFALSE", "VTRUE"} ->
                 Code(g, "LOADBOOL", reg, IF e.k = "VTRUE" THEN 1 ELSE 0, 0)
            [] e.k = "VK" -> Code(g, "LOADK", reg, e.info, 0)
            [] e.k = "VKNUM" ->
                 LET h == AddK(g, e.info) IN Code(h, "LOADK", reg, IndexK(h, e.info), 0)
            [] e.k = "VRELOCABLE" -> [g EXCEPT !.code[e.info + 1].a = reg]
            [] e.k = "VNONRELOC" ->
                 IF reg = e.info THEN g ELSE Code(g, "MOVE", reg, e.info, 0)
    IN IF e.k \in {"VVOID", "VJMP"} THEN g
       ELSE [loaded EXCEPT !.e.k = "VNONRELOC", !.e.info = reg]
Discharge2AnyReg(fs) ==
    IF fs.e.k = "VNONRELOC" THEN fs ELSE Discharge2Reg(ReserveRegs(fs, 1), fs.freereg)

CodeLabel(fs, a, b, jump) == Code(GetLabel(fs), "LOADBOOL", a, b, jump)

(* The value of the expression, whichever way its jumps leave it, in reg.    *)
(* Jumps that bring no value lead to a LOADBOOL that supplies it.            *)
Exp2Reg(fs, reg) ==
    LET d == Discharge2Reg(fs, reg)
        test == d.e.k = "VJMP"
        g == IF test THEN [Concat(d, d.e.t, d.e.info) EXCEPT !.e.t = Joined(@, d.e.info)]
             ELSE d
        loads == NeedValue(g, g.e.t) \/ NeedValue(g, g.e.f)
        skip == IF test THEN g ELSE Jump(g)
        p_f == Pc(skip)
        both == PatchToHere(CodeLabel(CodeLabel(skip, reg, 0, 1), reg, 1, 0),
                            IF test THEN NoJump ELSE LastJump(skip))
        h == GetLabel(IF loads THEN both ELSE g)
        patched == PatchListAux(PatchListAux(h, h.e.f, Pc(h), reg, IF loads THEN p_f ELSE NoJump),
                                h.e.t, Pc(h), reg, IF loads THEN p_f + 1 ELSE NoJump)
    IN [IF HasJumps(g.e) THEN patched ELSE g EXCEPT !.e = Exp("VNONRELOC", reg)]

Exp2NextReg(fs) ==
    LET g == DischargeVars(fs)
        h == ReserveRegs(Free(g), 1)
    IN Exp2Reg(h, h.freereg - 1)
Exp2AnyReg(fs) ==
    LET g == DischargeVars(fs)
    IN CASE g.e.k = "VNONRELOC" /\ ~HasJumps(g.e) -> g
         [] g.e.k = "VNONRELOC" /\ HasJumps(g.e) /\ g.e.info >= g.nactvar ->
              Exp2Reg(g, g.e.info)
         [] OTHER -> Exp2NextReg(g)
Exp2Val(fs) == IF HasJumps(fs.e) THEN Exp2AnyReg(fs) ELSE DischargeVars(fs)

(* A constant small enough to be named by an operand, or a register.         *)
Exp2RK(fs) ==
    LET g == Exp2Val(fs)
        e == g.e
        fits == Len(g.k) <= MaxIndexRK
    IN CASE e.k = "VKNUM" /\ fits -> ConstantExp(g, e.info)
         [] e.k = "VTRUE" /\ fits -> ConstantExp(g, Bool(TRUE))
         [] e.k = "VFALSE" /\ fits -> ConstantExp(g, Bool(FALSE))
         [] e.k = "VNIL" /\ fits -> ConstantExp(g, Nil)
         [] e.k = "VK" /\ e.info <= MaxIndexRK -> g
         [] OTHER -> Exp2AnyReg(g)
RK(e) == IF e.k = "VK" THEN BitRK + e.info ELSE e.info

(* The expression goes to the variable var.                                  *)
StoreVar(fs, var) ==
    CASE var.k = "VLOCAL" -> Exp2Reg(Free(fs), var.info)
      [] var.k = "VUPVAL" ->
           LET g == Exp2AnyReg(fs) IN Free(Code(g, "SETUPVAL", g.e.info, var.info, 0))
      [] var.k = "VGLOBAL" ->
           LET g == Exp2AnyReg(fs) IN Free(Code(g, "SETGLOBAL", g.e.info, var.info, 0))
      [] var.k = "VINDEXED" ->
           LET g == Exp2RK(fs) IN Free(Code(g, "SETTABLE", var.info, var.aux, RK(g.e)))
      [] OTHER -> Sound(fs, FALSE)

(* The function and the first argument of a method call.                     *)
Self(fs, key) ==
    LET g == Exp2AnyReg(fs)
        h == ReserveRegs(Free(g), 2)
        func == h.freereg - 2
        r == Exp2RK([h EXCEPT !.e = key])
    IN [Free(Code(r, "SELF", func, g.e.info, RK(r.e))) EXCEPT !.e = [g.e EXCEPT !.info = func, !.k = "VNONRELOC"]]

Indexed(fs, t) ==
    LET g == Exp2RK(fs) IN [g EXCEPT !.e = [t EXCEPT !.aux = RK(g.e), !.k = "VINDEXED"]]

(* ---------------------------- conditions --------------------------------- *)
InvertJump(fs) ==
    LET pc == JumpControl(fs, fs.e.info)
    IN Sound([fs EXCEPT !.code[pc + 1].a = 1 - @], At(fs, pc).op \in TestOps \ {"TESTSET", "TEST"})

(* A jump taken when the value is cond; a NOT just emitted is taken back.    *)
JumpOnCond(fs, cond) ==
    LET negated == fs.e.k = "VRELOCABLE" /\ At(fs, fs.e.info).op = "NOT"
        removed == [fs EXCEPT !.code = SubSeq(@, 1, Len(@) - 1)]
        g == Discharge2AnyReg(fs)
    IN IF negated THEN CondJump(removed, "TEST", At(fs, fs.e.info).b, 0, 1 - cond)
       ELSE CondJump(Free(g), "TESTSET", NoReg, g.e.info, cond)

(* Go on when the expression is true, leave through its list f otherwise.    *)
GoIfTrue(fs) ==
    LET g == DischargeVars(fs)
        always == g.e.k \in {"VK", "VKNUM", "VTRUE"}
        h == CASE always -> g
               [] g.e.k = "VJMP" -> InvertJump(g)
               [] OTHER -> JumpOnCond(g, 0)
        pc == CASE always -> NoJump
                [] g.e.k = "VJMP" -> g.e.info
                [] OTHER -> LastJump(h)
    IN [PatchToHere(Concat(h, h.e.f, pc), h.e.t) EXCEPT
            !.e.f = Joined(@, pc), !.e.t = NoJump]
(* Mutation: a constant that is true jumps at once, as older compilers had.  *)
GoIfFalseJumps(fs) ==
    LET g == DischargeVars(fs)
        never == g.e.k \in {"VNIL", "VFALSE"}
        h == CASE never \/ g.e.k = "VJMP" -> g
               [] g.e.k = "VTRUE" -> Jump(g)
               [] OTHER -> JumpOnCond(g, 1)
        pc == CASE never -> NoJump
                [] g.e.k = "VJMP" -> g.e.info
                [] OTHER -> LastJump(h)
    IN [PatchToHere(Concat(h, h.e.t, pc), h.e.f) EXCEPT
            !.e.t = Joined(@, pc), !.e.f = NoJump]
GoIfFalse(fs) ==
    LET g == DischargeVars(fs)
        never == g.e.k \in {"VNIL", "VFALSE"}
        h == IF never \/ g.e.k = "VJMP" THEN g ELSE JumpOnCond(g, 1)
        pc == CASE never -> NoJump
                [] g.e.k = "VJMP" -> g.e.info
                [] OTHER -> LastJump(h)
    IN [PatchToHere(Concat(h, h.e.t, pc), h.e.f) EXCEPT
            !.e.t = Joined(@, pc), !.e.f = NoJump]

CodeNot(fs) ==
    LET g == DischargeVars(fs)
        h == CASE g.e.k \in {"VNIL", "VFALSE"} -> [g EXCEPT !.e.k = "VTRUE"]
               [] g.e.k \in {"VK", "VKNUM", "VTRUE"} -> [g EXCEPT !.e.k = "VFALSE"]
               [] g.e.k = "VJMP" -> InvertJump(g)
               [] g.e.k \in {"VRELOCABLE", "VNONRELOC"} ->
                    LET r == Discharge2AnyReg(g)
                    IN CodeExp(Free(r), "VRELOCABLE", "NOT", 0, r.e.info, 0)
               [] OTHER -> Sound(g, FALSE)
        swapped == [h EXCEPT !.e.t = h.e.f, !.e.f = h.e.t]
    IN RemoveValues(RemoveValues(swapped, swapped.e.f), swapped.e.t)

(* ---------------------------- operators ---------------------------------- *)
(* Computed at compile time: two numerals, no division by zero.              *)
Folds(op, e1, e2) ==
    /\ IsNumeral(e1) /\ IsNumeral(e2)
    /\ op \notin {"LEN", "CONCAT"}
    /\ op \in {"DIV", "MOD"} => e2.info # Num(0)

(* The second operand is the expression at hand.                             *)
CodeArith(fs, op, e1) ==
    LET g2 == IF op \in {"UNM", "LEN"} THEN fs ELSE Exp2RK(fs)
        e2 == g2.e
        o2 == IF op \in {"UNM", "LEN"} THEN 0 ELSE RK(e2)
        g1 == Exp2RK([g2 EXCEPT !.e = e1])
        o1 == RK(g1.e)
        freed == IF o1 > o2 THEN FreeExp(Free(g1), e2) ELSE Free(FreeExp(g1, e2))
    IN IF Folds(op, e1, fs.e)
       THEN [fs EXCEPT !.e = [e1 EXCEPT !.info = Calc(op, e1.info, fs.e.info)]]
       ELSE CodeExp(freed, "VRELOCABLE", op, 0, o1, o2)

(* Greater-than is less-than with its operands exchanged.                    *)
CodeComp(fs, op, cond, e1) ==
    LET g1 == Exp2RK([fs EXCEPT !.e = e1])
        g2 == Exp2RK([g1 EXCEPT !.e = fs.e])
        o1 == RK(g1.e)
        o2 == RK(g2.e)
        freed == [FreeExp(Free(g2), g1.e) EXCEPT !.e = g1.e]
        g == IF cond = 0 /\ op # "EQ" THEN CondJump(freed, op, 1, o2, o1)
             ELSE CondJump(freed, op, cond, o1, o2)
    IN [g EXCEPT !.e.info = LastJump(g), !.e.k = "VJMP"]

Prefix(fs, op) ==
    LET g == IF IsNumeral(fs.e) /\ op = "-" THEN fs ELSE Exp2AnyReg(fs)
        arith(name) == CodeArith([g EXCEPT !.e = Exp("VKNUM", Num(0))], name, g.e)
    IN CASE op = "-" -> arith("UNM")
         [] op = "#" -> arith("LEN")
         [] op = "not" -> CodeNot(fs)

OpOf(op) ==
    CASE op = "+" -> "ADD" [] op = "-" -> "SUB" [] op = "*" -> "MUL"
      [] op = "/" -> "DIV" [] op = "%" -> "MOD" [] op = "^" -> "POW"
      [] op \in {"==", "~="} -> "EQ" [] op \in {"<", ">"} -> "LT" [] op \in {"<=", ">="} -> "LE"
Arithmetic == {"+", "-", "*", "/", "%", "^"}

(* The first operand is read before the second is parsed.                    *)
Infix(fs, op) ==
    CASE op = "and" -> GoIfTrue(fs)
      [] op = "or" -> GoIfFalse(fs)
      [] op = ".." -> Exp2NextReg(fs)
      [] op \in Arithmetic /\ IsNumeral(fs.e) -> fs
      [] OTHER -> Exp2RK(fs)

(* Both operands are there.  A concatenation joins the one on its right.     *)
Posfix(fs, op, e1) ==
    LET d == DischargeVars(fs)
        v == Exp2Val(fs)
        chained == v.e.k = "VRELOCABLE" /\ At(v, v.e.info).op = "CONCAT"
    IN CASE op = "and" ->
              Sound([Concat(d, d.e.f, e1.f) EXCEPT !.e.f = Joined(@, e1.f)], e1.t = NoJump)
         [] op = "or" ->
              Sound([Concat(d, d.e.t, e1.t) EXCEPT !.e.t = Joined(@, e1.t)], e1.f = NoJump)
         [] op = ".." /\ chained ->
              Sound([FreeExp(v, e1) EXCEPT !.code[v.e.info + 1].b = e1.info,
                                            !.e = [e1 EXCEPT !.k = "VRELOCABLE", !.info = v.e.info]],
                     e1.info = At(v, v.e.info).b - 1)
         [] op = ".." /\ ~chained -> CodeArith(Exp2NextReg(v), "CONCAT", e1)
         [] op \in Arithmetic -> CodeArith(fs, OpOf(op), e1)
         [] OTHER -> CodeComp(fs, OpOf(op), IF op \in {"~=", ">", ">="} THEN 0 ELSE 1, e1)

(* The pending items of a constructor go to the table in register base; the  *)
(* batch number takes an instruction of its own when it does not fit in C.   *)
SetList(fs, base, nelems, tostore) ==
    LET c == (nelems - 1) \div FieldsPerFlush + 1
        b == IF tostore = MultRet THEN 0 ELSE tostore
        g == IF c <= MaxArgC THEN Code(fs, "SETLIST", base, b, c)
             ELSE Code(Code(fs, "SETLIST", base, b, 0), "count", c, 0, 0)
    IN [Sound(g, tostore # 0) EXCEPT !.freereg = base + 1]
=============================================================================
