------------------------------ MODULE LuaParser ------------------------------
(* The parser of the Lua compiler (lparser.c): recursive descent over the    *)
(* tokens of the lexer, one token ahead, emitting code as it reads.  The     *)
(* state s of a compilation has the tokens not read yet, the function being  *)
(* compiled and the functions around it.  A token is a tuple whose first     *)
(* element is its kind; names, strings and numbers carry what they stand for.*)
(*                                                                           *)
(* An error leaves the parser by a long jump in the source.  Here it sets    *)
(* err, after which only the end of the input is seen: every rule ends, and  *)
(* Compile gives no function.                                                *)
EXTENDS LuaCode

CONSTANTS MaxVars,       \* active local variables of a function
          MaxUpvalues,   \* upvalues of a function
          MaxLevels      \* nested C calls, the parser's own among them

RECURSIVE Chunk(_), SubExpr(_, _), SingleVarAux(_, _, _, _)

Expr(s) == SubExpr(s, 0)

(* --------------------------------- tokens -------------------------------- *)
Token(s) == IF s.f.err \/ s.t = <<>> THEN <<"eos">> ELSE Head(s.t)
Kind(s) == Token(s)[1]
Lookahead(s) == IF Len(s.t) < 2 THEN "eos" ELSE s.t[2][1]
Advance(s) == [s EXCEPT !.t = IF s.t = <<>> THEN @ ELSE Tail(@)]
Fail(s) == [s EXCEPT !.f.err = TRUE]
Check(s, k) == IF Kind(s) = k THEN s ELSE Fail(s)
CheckNext(s, k) == IF Kind(s) = k THEN Advance(s) ELSE Fail(s)
TestNext(s, k) == IF Kind(s) = k THEN Advance(s) ELSE s

WithExp(s, e) == [s EXCEPT !.f.e = e]

EnterLevel(s) ==
    IF s.level + 1 > MaxLevels THEN Fail(s) ELSE [s EXCEPT !.level = @ + 1]
LeaveLevel(s) == [s EXCEPT !.level = @ - 1]

(* -------------------------------- variables ------------------------------ *)
NewLocal(fs, name, n) ==
    IF fs.nactvar + n + 1 > MaxVars THEN Raise(fs)
    ELSE [fs EXCEPT !.actvar = Append(SubSeq(@, 1, fs.nactvar + n), name)]
AdjustLocals(fs, n) == [fs EXCEPT !.nactvar = @ + n]
RemoveVars(fs, level) == [fs EXCEPT !.nactvar = level]

(* The innermost active local of that name.                                  *)
VarsNamed(fs, name) == {i \in 0..fs.nactvar - 1 : fs.actvar[i + 1] = name}
SearchVar(fs, name) ==
    LET vars == VarsNamed(fs, name)
    IN IF vars = {} THEN -1 ELSE CHOOSE i \in vars : \A j \in vars : j <= i

(* The block a captured local belongs to must close it when it ends.         *)
MarkUpval(fs, level) ==
    LET around == {b \in DOMAIN fs.bl : fs.bl[b].nactvar <= level}
    IN IF around = {} THEN fs
       ELSE [fs EXCEPT !.bl[CHOOSE b \in around : \A c \in around : c <= b].upval = TRUE]

IndexUpvalue(fs, name, v) ==
    LET up == [name |-> name, k |-> v.k, info |-> v.info]
        same == {i \in DOMAIN fs.ups : fs.ups[i].k = v.k /\ fs.ups[i].info = v.info}
        index == IF same = {} THEN Len(fs.ups) ELSE (CHOOSE i \in same : TRUE) - 1
        g == IF same # {} THEN Sound(fs, \A i \in same : fs.ups[i].name = name)
             ELSE IF Len(fs.ups) + 1 > MaxUpvalues THEN Raise(fs)
             ELSE [fs EXCEPT !.ups = Append(@, up)]
    IN [g EXCEPT !.e = [v EXCEPT !.k = "VUPVAL", !.info = index]]

(* The variable as function n of the stack of functions fss sees it, in the  *)
(* expression of that function: a local, an upvalue it takes from the        *)
(* function around it, or a global.                                          *)
SingleVarAux(fss, n, name, base) ==
    LET i == SearchVar(fss[n], name)
        found == [fss EXCEPT ![n].e = Exp("VLOCAL", i)]
        outer == SingleVarAux(fss, n - 1, name, FALSE)
        v == outer[n - 1].e
    IN CASE i >= 0 /\ base -> found
         [] i >= 0 /\ ~base -> [found EXCEPT ![n] = MarkUpval(@, i)]
         [] i < 0 /\ n = 1 -> [fss EXCEPT ![n].e = Exp("VGLOBAL", NoReg)]
         [] i < 0 /\ n > 1 ->
              IF v.k = "VGLOBAL" THEN [outer EXCEPT ![n].e = v]
              ELSE [outer EXCEPT ![n] = IndexUpvalue(@, name, v)]
SingleVar(s) ==
    LET name == Token(s)[2]
        fss == SingleVarAux(Append(s.up, s.f), Len(s.up) + 1, name, TRUE)
        f == fss[Len(fss)]
        g == AddK(f, Str(<<name>>))
        global == [g EXCEPT !.e.info = IndexK(g, Str(<<name>>))]
    IN Advance([s EXCEPT !.up = SubSeq(fss, 1, Len(fss) - 1),
                         !.f = IF f.e.k = "VGLOBAL" THEN global ELSE f])

HasMultRet(k) == k \in {"VCALL", "VVARARG"}

(* nexps expressions, the last one not in a register yet, give nvars values. *)
AdjustAssign(fs, nvars, nexps) ==
    LET extra == nvars - nexps
        wanted == IF extra + 1 < 0 THEN 0 ELSE extra + 1
        open == SetReturns(fs, wanted)
        g == IF fs.e.k = "VVOID" THEN fs ELSE Exp2NextReg(fs)
    IN CASE HasMultRet(fs.e.k) -> IF wanted > 1 THEN ReserveRegs(open, wanted - 1) ELSE open
         [] ~HasMultRet(fs.e.k) /\ extra > 0 ->
              LoadNil(ReserveRegs(g, extra), g.freereg, extra)
         [] OTHER -> g

(* --------------------------------- blocks -------------------------------- *)
EnterBlock(fs, isbreakable) ==
    Sound([fs EXCEPT !.bl = Append(@, [breaklist |-> NoJump, nactvar |-> fs.nactvar,
                                       upval |-> FALSE, isbreakable |-> isbreakable])],
          fs.freereg = fs.nactvar)
LeaveBlock(fs) ==
    LET bl == fs.bl[Len(fs.bl)]
        g == RemoveVars([fs EXCEPT !.bl = SubSeq(@, 1, Len(@) - 1)], bl.nactvar)
        closed == IF bl.upval THEN Code(g, "CLOSE", bl.nactvar, 0, 0) ELSE g
    IN Sound(PatchToHere([closed EXCEPT !.freereg = bl.nactvar], bl.breaklist),
             ~(bl.isbreakable /\ bl.upval))
Block(s) ==
    LET c == Chunk([s EXCEPT !.f = EnterBlock(@, FALSE)])
    IN [c EXCEPT !.f = LeaveBlock(Sound(@, @.bl[Len(@.bl)].breaklist = NoJump))]

(* -------------------------------- functions ------------------------------ *)
OpenFunc(s) == [s EXCEPT !.up = Append(@, s.f), !.f = FuncState0]

(* A prototype is what is left of the state of a function compiled.          *)
Proto(fs) ==
    [code |-> fs.code, k |-> fs.k, p |-> fs.p, nups |-> Len(fs.ups), maxstack |-> fs.maxstack,
     numparams |-> fs.numparams, vararg |-> fs.vararg]
CloseFunc(fs) == Sound(Ret(RemoveVars(fs, 0), 0, 0), fs.bl = <<>>)

(* The closure takes its upvalues from the instructions that follow it.      *)
PushClosure(fs, func) ==
    LET g == CodeExp([fs EXCEPT !.p = Append(@, Proto(func)), !.e = Exp("VRELOCABLE", 0),
                                !.sound = @ /\ func.sound, !.err = @ \/ func.err],
                     "VRELOCABLE", "CLOSURE", 0, Len(fs.p), 0)
        capture(i) == Instr(IF func.ups[i].k = "VLOCAL" THEN "MOVE" ELSE "GETUPVAL",
                            0, func.ups[i].info, 0)
    IN [g EXCEPT !.code = @ \o [i \in DOMAIN func.ups |-> capture(i)]]

(* A function with `...' has a local `arg', a table of the arguments, which  *)
(* it gets unless it uses `...' itself.                                      *)
RECURSIVE ParList(_, _)
ParList(s, n) ==
    CASE Kind(s) = "NAME" ->
           LET r == Advance([s EXCEPT !.f = NewLocal(@, Token(s)[2], n)])
           IN IF Kind(r) = "," THEN ParList(Advance(r), n + 1) ELSE [s |-> r, n |-> n + 1]
      [] Kind(s) = "..." ->
           [s |-> Advance([s EXCEPT !.f = [NewLocal(@, "arg", n) EXCEPT
                                             !.vararg = {"HASARG", "NEEDSARG", "ISVARARG"}]]),
            n |-> n + 1]
      [] OTHER -> [s |-> Fail(s), n |-> n]
Parameters(s) ==
    LET r == IF Kind(s) = ")" THEN [s |-> s, n |-> 0] ELSE ParList(s, 0)
        g == AdjustLocals(r.s.f, r.n)
        args == IF "HASARG" \in g.vararg THEN 1 ELSE 0
    IN [r.s EXCEPT !.f = ReserveRegs([g EXCEPT !.numparams = g.nactvar - args], g.nactvar)]

Body(s, needself) ==
    LET open == CheckNext(OpenFunc(s), "(")
        me == IF needself THEN [open EXCEPT !.f = AdjustLocals(NewLocal(@, "self", 0), 1)]
              ELSE open
        inner == CheckNext(Chunk(CheckNext(Parameters(me), ")")), "end")
        outer == inner.up[Len(inner.up)]
    IN [inner EXCEPT !.up = SubSeq(@, 1, Len(@) - 1),
                     !.f = PushClosure(outer, CloseFunc(inner.f))]

(* ------------------------------- expressions ----------------------------- *)
StringExp(fs, name) ==
    LET g == AddK(fs, Str(<<name>>))
    IN [g EXCEPT !.e = Exp("VK", IndexK(g, Str(<<name>>)))]
CheckName(s) ==
    IF Kind(s) = "NAME" THEN Advance([s EXCEPT !.f = StringExp(@, Token(s)[2])]) ELSE Fail(s)

(* The number of expressions, all but the last one in registers.             *)
RECURSIVE MoreExprs(_, _)
MoreExprs(s, n) ==
    IF Kind(s) = "," THEN MoreExprs(Expr([Advance(s) EXCEPT !.f = Exp2NextReg(@)]), n + 1)
    ELSE [s |-> s, n |-> n]
ExpList1(s) == MoreExprs(Expr(s), 1)

Field(s) ==
    LET g == [s EXCEPT !.f = Exp2AnyReg(@)]
        key == CheckName(Advance(g))
    IN [key EXCEPT !.f = Indexed(@, g.f.e)]
YIndex(s) == CheckNext([Expr(Advance(s)) EXCEPT !.f = Exp2Val(@)], "]")

(* Table constructors.  cc counts the named items, the list items and the    *)
(* list items not stored yet, v is the last list item read, t the table.     *)
RecField(s, cc) ==
    LET key == CheckNext(IF Kind(s) = "NAME" THEN CheckName(s) ELSE YIndex(s), "=")
        rk == [key EXCEPT !.f = Exp2RK(@)]
        val == Expr(rk)
        g == Exp2RK(val.f)
    IN [val EXCEPT !.f = [Code(g, "SETTABLE", cc.t, RK(rk.f.e), RK(g.e)) EXCEPT
                            !.freereg = s.f.freereg]]
CloseListField(fs, cc) ==
    LET g == Exp2NextReg([fs EXCEPT !.e = cc.v])
    IN CASE cc.v.k = "VVOID" -> fs
         [] cc.v.k # "VVOID" /\ cc.tostore = FieldsPerFlush -> SetList(g, cc.t, cc.na, cc.tostore)
         [] OTHER -> g
LastListField(fs, cc) ==
    LET f == [fs EXCEPT !.e = cc.v]
        g == IF cc.v.k = "VVOID" THEN f ELSE Exp2NextReg(f)
    IN CASE cc.tostore = 0 -> fs
         [] cc.tostore # 0 /\ HasMultRet(cc.v.k) -> SetList(SetMultRet(f), cc.t, cc.na, MultRet)
         [] OTHER -> SetList(g, cc.t, cc.na, cc.tostore)

RECURSIVE Items(_, _)
Items(s, cc) ==
    LET flushed == [s EXCEPT !.f = CloseListField(@, cc)]
        stored == cc.v.k # "VVOID" /\ cc.tostore = FieldsPerFlush
        closed == [cc EXCEPT !.v = Exp("VVOID", 0), !.tostore = IF stored THEN 0 ELSE @]
        named == Kind(s) = "[" \/ (Kind(s) = "NAME" /\ Lookahead(s) = "=")
        read == IF named THEN RecField(flushed, closed) ELSE Expr(flushed)
        next == IF named THEN [closed EXCEPT !.nh = @ + 1]
                ELSE [closed EXCEPT !.na = @ + 1, !.tostore = @ + 1, !.v = read.f.e]
    IN IF Kind(s) = "}" THEN [s |-> s, cc |-> cc]
       ELSE IF Kind(read) \in {",", ";"} THEN Items(Advance(read), next)
       ELSE [s |-> read, cc |-> next]
Constructor(s) ==
    LET pc == Pc(s.f)
        made == CodeExp([s.f EXCEPT !.e = Exp("VRELOCABLE", 0)], "VRELOCABLE", "NEWTABLE", 0, 0, 0)
        g == Exp2NextReg(made)
        r == Items(CheckNext([s EXCEPT !.f = g], "{"),
                   [v |-> Exp("VVOID", 0), t |-> g.e.info, nh |-> 0, na |-> 0, tostore |-> 0])
        closed == CheckNext(r.s, "}")
        open == r.cc.tostore # 0 /\ HasMultRet(r.cc.v.k)
    IN [closed EXCEPT !.f = [LastListField(@, r.cc) EXCEPT
            !.code[pc + 1].b = r.cc.na - (IF open THEN 1 ELSE 0),
            !.code[pc + 1].c = r.cc.nh, !.e = g.e]]

(* The function is in a register, its arguments go to the next ones.         *)
Arguments(s) ==
    LET list == ExpList1(Advance(s)).s
    IN CASE Kind(s) = "(" /\ Kind(Advance(s)) = ")" -> WithExp(Advance(Advance(s)), Exp("VVOID", 0))
         [] Kind(s) = "(" /\ Kind(Advance(s)) # ")" ->
              CheckNext([list EXCEPT !.f = SetMultRet(@)], ")")
         [] Kind(s) = "{" -> Constructor(s)
         [] Kind(s) = "STRING" -> Advance([s EXCEPT !.f = StringExp(@, Token(s)[2])])
         [] OTHER -> Fail(s)
FuncArgs(s) ==
    LET base == s.f.e.info
        args == Arguments(s)
        closed == IF HasMultRet(args.f.e.k) \/ args.f.e.k = "VVOID" THEN args.f
                  ELSE Exp2NextReg(args.f)
        nparams == IF HasMultRet(args.f.e.k) THEN MultRet ELSE closed.freereg - (base + 1)
        call == CodeExp([closed EXCEPT !.e = Exp("VCALL", 0)], "VCALL", "CALL", base, nparams + 1, 2)
    IN [args EXCEPT !.f = [Sound(call, s.f.e.k = "VNONRELOC") EXCEPT !.freereg = base + 1]]

PrefixExp(s) ==
    LET inner == CheckNext(Expr(Advance(s)), ")")
    IN CASE Kind(s) = "(" -> [inner EXCEPT !.f = DischargeVars(@)]
         [] Kind(s) = "NAME" -> SingleVar(s)
         [] OTHER -> Fail(s)

RECURSIVE Suffixes(_)
Suffixes(s) ==
    LET table == [s EXCEPT !.f = Exp2AnyReg(@)]
        key == YIndex(table)
        name == CheckName(Advance(s))
    IN CASE Kind(s) = "." -> Suffixes(Field(s))
         [] Kind(s) = "[" -> Suffixes([key EXCEPT !.f = Indexed(@, table.f.e)])
         [] Kind(s) = ":" ->
              Suffixes(FuncArgs([name EXCEPT !.f = Self([@ EXCEPT !.e = s.f.e], name.f.e)]))
         [] Kind(s) \in {"(", "STRING", "{"} -> Suffixes(FuncArgs([s EXCEPT !.f = Exp2NextReg(@)]))
         [] OTHER -> s
PrimaryExp(s) == Suffixes(PrefixExp(s))

Vararg(fs) ==
    IF fs.vararg = {} THEN Raise(fs)
    ELSE CodeExp([fs EXCEPT !.vararg = @ \ {"NEEDSARG"}, !.e = Exp("VVARARG", 0)],
                 "VVARARG", "VARARG", 0, 1, 0)
SimpleExp(s) ==
    CASE Kind(s) = "NUMBER" -> Advance(WithExp(s, Exp("VKNUM", Num(Token(s)[2]))))
      [] Kind(s) = "STRING" -> Advance([s EXCEPT !.f = StringExp(@, Token(s)[2])])
      [] Kind(s) = "nil" -> Advance(WithExp(s, Exp("VNIL", 0)))
      [] Kind(s) = "true" -> Advance(WithExp(s, Exp("VTRUE", 0)))
      [] Kind(s) = "false" -> Advance(WithExp(s, Exp("VFALSE", 0)))
      [] Kind(s) = "..." -> Advance([s EXCEPT !.f = Vararg(@)])
      [] Kind(s) = "{" -> Constructor(s)
      [] Kind(s) = "function" -> Body(Advance(s), FALSE)
      [] OTHER -> PrimaryExp(s)

UnaryOps == {"not", "-", "#"}
UnaryPriority == 8
Priority(op) ==
    CASE op \in {"+", "-"} -> <<6, 6>> [] op \in {"*", "/", "%"} -> <<7, 7>>
      [] op = "^" -> <<10, 9>> [] op = ".." -> <<5, 4>>
      [] op \in {"==", "~=", "<", "<=", ">", ">="} -> <<3, 3>>
      [] op = "and" -> <<2, 2>> [] op = "or" -> <<1, 1>>
BinaryOps == Arithmetic \cup {"..", "==", "~=", "<", "<=", ">", ">=", "and", "or"}

(* What follows an operand, as long as its operators bind tighter than limit.*)
RECURSIVE Operators(_, _)
Operators(s, limit) ==
    LET op == Kind(s)
        left == Infix(s.f, op)
        right == SubExpr([Advance(s) EXCEPT !.f = left], Priority(op)[2])
    IN IF op \notin BinaryOps THEN s
       ELSE IF Priority(op)[1] <= limit THEN s
       ELSE Operators([right EXCEPT !.f = Posfix(@, op, left.e)], limit)
SubExpr(s, limit) ==
    LET r == EnterLevel(s)
        operand == SubExpr(Advance(r), UnaryPriority)
        first == IF Kind(r) \in UnaryOps THEN [operand EXCEPT !.f = Prefix(@, Kind(r))]
                 ELSE SimpleExp(r)
    IN LeaveLevel(Operators(first, limit))

(* -------------------------------- statements ----------------------------- *)
BlockFollow == {"else", "elseif", "end", "until", "eos"}

(* A local about to be assigned that an earlier target of the assignment     *)
(* uses as its table or key: that target gets a copy.                        *)
CheckConflict(fs, lhs) ==
    LET v == fs.e
        clash(e) == e.k = "VINDEXED" /\ v.info \in {e.info, e.aux}
        safe(e) == IF ~clash(e) THEN e
                   ELSE [e EXCEPT !.info = IF @ = v.info THEN fs.freereg ELSE @,
                                  !.aux = IF @ = v.info THEN fs.freereg ELSE @]
        copied == ReserveRegs(Code(fs, "MOVE", fs.freereg, v.info, 0), 1)
    IN [f |-> IF \E n \in DOMAIN lhs : clash(lhs[n]) THEN copied ELSE fs,
        lhs |-> [n \in DOMAIN lhs |-> safe(lhs[n])]]

(* Values are stored from the last target to the first, each from the        *)
(* register on top.                                                          *)
RECURSIVE StoreAll(_, _)
StoreAll(fs, lhs) ==
    IF lhs = <<>> THEN fs
    ELSE StoreAll(StoreVar([fs EXCEPT !.e = Exp("VNONRELOC", fs.freereg - 1)], lhs[Len(lhs)]),
                  SubSeq(lhs, 1, Len(lhs) - 1))

Assigned(s, lhs) ==
    LET nvars == Len(lhs)
        r == ExpList1(CheckNext(s, "="))
        adjusted == AdjustAssign(r.s.f, nvars, r.n)
        dropped == IF r.n > nvars THEN r.n - nvars ELSE 0
        one == StoreVar(SetOneRet(r.s.f), lhs[nvars])
    IN IF r.n = nvars
       THEN [r.s EXCEPT !.f = StoreAll(one, SubSeq(lhs, 1, nvars - 1))]
       ELSE [r.s EXCEPT !.f = StoreAll([adjusted EXCEPT !.freereg = @ - dropped], lhs)]

RECURSIVE Assignment(_, _)
Assignment(s, lhs) ==
    LET target == PrimaryExp(Advance(s))
        checked == IF target.f.e.k = "VLOCAL" THEN CheckConflict(target.f, lhs)
                   ELSE [f |-> target.f, lhs |-> lhs]
        r == [target EXCEPT !.f = checked.f]
    IN CASE lhs[Len(lhs)].k \notin {"VLOCAL", "VUPVAL", "VGLOBAL", "VINDEXED"} -> Fail(s)
         [] Kind(s) = "," ->
              IF Len(lhs) > MaxLevels - s.level THEN Fail(r)
              ELSE Assignment(r, Append(checked.lhs, target.f.e))
         [] OTHER -> Assigned(s, lhs)

(* The list of the jumps that leave the condition when it is false.          *)
Cond(s) ==
    LET v == Expr(s)
        g == GoIfTrue([v.f EXCEPT !.e.k = IF @ = "VNIL" THEN "VFALSE" ELSE @])
    IN [s |-> [v EXCEPT !.f = g], exits |-> g.e.f]

BreakStat(fs) ==
    LET loops == {b \in DOMAIN fs.bl : fs.bl[b].isbreakable}
        b == CHOOSE x \in loops : \A y \in loops : y <= x
        upval == \E x \in b + 1..Len(fs.bl) : fs.bl[x].upval
        g == Jump(IF upval THEN Code(fs, "CLOSE", fs.bl[b].nactvar, 0, 0) ELSE fs)
    IN IF loops = {} THEN Raise(fs)
       ELSE [Concat(g, g.bl[b].breaklist, LastJump(g)) EXCEPT
                !.bl[b].breaklist = Joined(@, LastJump(g))]

JumpBack(fs, target) == LET g == Jump(fs) IN PatchList(g, LastJump(g), target)

WhileStat(s) ==
    LET c == Cond([Advance(s) EXCEPT !.f = GetLabel(@)])
        b == Block(CheckNext([c.s EXCEPT !.f = EnterBlock(@, TRUE)], "do"))
        r == CheckNext([b EXCEPT !.f = JumpBack(@, Pc(s.f))], "end")
    IN [r EXCEPT !.f = PatchToHere(LeaveBlock(@), c.exits)]

(* The condition is inside the scope of the block: when the block has        *)
(* captured locals, both ways out of it must close them.                     *)
RepeatStat(s) ==
    LET start == Pc(s.f)
        body == Chunk([Advance(s) EXCEPT !.f = EnterBlock(EnterBlock(GetLabel(@), TRUE), FALSE)])
        c == Cond(CheckNext(body, "until"))
        f == c.s.f
        plain == PatchList(LeaveBlock(f), c.exits, start)
        closing == JumpBack(LeaveBlock(PatchToHere(BreakStat(f), c.exits)), start)
    IN [c.s EXCEPT !.f = LeaveBlock(IF f.bl[Len(f.bl)].upval THEN closing ELSE plain)]

Exp1(s) == [Expr(s) EXCEPT !.f = Exp2NextReg(@)]

ForBody(s, base, nvars, isnum) ==
    LET open == CheckNext([s EXCEPT !.f = AdjustLocals(@, 3)], "do")
        f == IF isnum THEN Code(open.f, "FORPREP", base, NoJump, 0) ELSE Jump(open.f)
        prep == LastJump(f)
        inner == ReserveRegs(AdjustLocals(EnterBlock(f, FALSE), nvars), nvars)
        b == Block([open EXCEPT !.f = inner])
        end == PatchToHere(LeaveBlock(b.f), prep)
        loop == IF isnum THEN Code(end, "FORLOOP", base, NoJump, 0)
                ELSE Jump(Code(end, "TFORLOOP", base, 0, nvars))
    IN [b EXCEPT !.f = PatchList(loop, LastJump(loop), prep + 1)]

(* The three hidden variables of a loop, under names no program can use.     *)
Control(fs) == NewLocal(NewLocal(NewLocal(fs, "(for index)", 0), "(for limit)", 1), "(for step)", 2)
ForNum(s, name) ==
    LET init == Exp1(CheckNext([s EXCEPT !.f = NewLocal(Control(@), name, 3)], "="))
        limit == Exp1(CheckNext(init, ","))
        one == AddK(limit.f, Num(1))
        step == IF Kind(limit) = "," THEN Exp1(Advance(limit))
                ELSE [limit EXCEPT !.f = ReserveRegs(
                        Code(one, "LOADK", one.freereg, IndexK(one, Num(1)), 0), 1)]
    IN ForBody(step, s.f.freereg, 1, TRUE)

RECURSIVE Names(_, _)
Names(s, n) ==
    LET named == [Advance(s) EXCEPT !.f = NewLocal(@, Token(s)[2], n)]
    IN IF Kind(s) # "NAME" THEN [s |-> Fail(s), n |-> n]
       ELSE IF Kind(named) = "," THEN Names(Advance(named), n + 1)
       ELSE [s |-> named, n |-> n + 1]
ForList(s, name) ==
    LET first == [s EXCEPT !.f = NewLocal(Control(@), name, 3)]
        names == IF Kind(first) = "," THEN Names(Advance(first), 4) ELSE [s |-> first, n |-> 4]
        list == ExpList1(CheckNext(names.s, "in"))
        adjusted == CheckStack(AdjustAssign(list.s.f, 3, list.n), 3)
    IN ForBody([list.s EXCEPT !.f = adjusted], s.f.freereg, names.n - 3, FALSE)
ForStat(s) ==
    LET named == Advance([s EXCEPT !.f = EnterBlock(@, TRUE)])
        first == Advance(named)
        loop == CASE Kind(named) = "NAME" /\ Kind(first) = "=" -> ForNum(first, Token(named)[2])
                  [] Kind(named) = "NAME" /\ Kind(first) \in {",", "in"} -> ForList(first, Token(named)[2])
                  [] OTHER -> Fail(named)
    IN [CheckNext(loop, "end") EXCEPT !.f = LeaveBlock(@)]

TestThenBlock(s) ==
    LET c == Cond(Advance(s)) IN [s |-> Block(CheckNext(c.s, "then")), exits |-> c.exits]

(* After the block of a condition: the jumps to the end of the statement so  *)
(* far, and those taken when the last condition was false.                   *)
RECURSIVE IfRest(_, _, _)
IfRest(s, escapes, exits) ==
    LET j == Jump(s.f)
        g == PatchToHere(Concat(j, escapes, LastJump(j)), exits)
        out == Joined(escapes, LastJump(j))
        next == TestThenBlock([s EXCEPT !.f = g])
        other == Block(Advance([s EXCEPT !.f = g]))
    IN CASE Kind(s) = "elseif" -> IfRest(next.s, out, next.exits)
         [] Kind(s) = "else" -> CheckNext([other EXCEPT !.f = PatchToHere(@, out)], "end")
         [] OTHER -> CheckNext([s EXCEPT !.f = PatchToHere(Concat(@, escapes, exits),
                                                           Joined(escapes, exits))], "end")
IfStat(s) == LET t == TestThenBlock(s) IN IfRest(t.s, NoJump, t.exits)

(* The name of a local function is in scope in its body.                     *)
LocalFunc(s) ==
    LET v == Exp("VLOCAL", s.f.freereg)
        b == Body([Advance(s) EXCEPT !.f =
                      AdjustLocals(ReserveRegs(NewLocal(@, Token(s)[2], 0), 1), 1)], FALSE)
    IN IF Kind(s) # "NAME" THEN Fail(s) ELSE [b EXCEPT !.f = StoreVar(@, v)]
LocalStat(s) ==
    LET names == Names(s, 0)
        none == [s |-> WithExp(names.s, Exp("VVOID", 0)), n |-> 0]
        r == IF Kind(names.s) = "=" THEN ExpList1(Advance(names.s)) ELSE none
    IN [r.s EXCEPT !.f = AdjustLocals(AdjustAssign(@, names.n, r.n), names.n)]

RECURSIVE Fields(_)
Fields(s) == IF Kind(s) = "." THEN Fields(Field(s)) ELSE s
FuncStat(s) ==
    LET fields == Fields(SingleVar(Advance(s)))
        method == Kind(fields) = ":"
        named == IF method THEN Field(fields) ELSE fields
        b == Body(named, method)
    IN IF Kind(Advance(s)) # "NAME" THEN Fail(s)
       ELSE [b EXCEPT !.f = StoreVar(@, named.f.e)]

ExprStat(s) ==
    LET v == PrimaryExp(s)
    IN IF v.f.e.k = "VCALL" THEN [v EXCEPT !.f.code[v.f.e.info + 1].c = 1]
       ELSE Assignment(v, <<v.f.e>>)

RetStat(s) ==
    LET r == ExpList1(s)
        f == r.s.f
        open == SetMultRet(f)
        tail == IF f.e.k = "VCALL" /\ r.n = 1
                THEN Sound([open EXCEPT !.code[f.e.info + 1].op = "TAILCALL"],
                           At(open, f.e.info).a = f.nactvar)
                ELSE open
        single == Exp2AnyReg(f)
        several == Exp2NextReg(f)
    IN CASE Kind(s) \in BlockFollow \cup {";"} -> [s EXCEPT !.f = Ret(@, 0, 0)]
         [] HasMultRet(f.e.k) -> [r.s EXCEPT !.f = Ret(tail, tail.nactvar, MultRet)]
         [] r.n = 1 -> [r.s EXCEPT !.f = Ret(single, single.e.info, 1)]
         [] OTHER -> [r.s EXCEPT !.f = Ret(Sound(several, r.n = several.freereg - several.nactvar),
                                           several.nactvar, r.n)]

Statement(s) ==
    LET k == Kind(s)
    IN CASE k = "if" -> IfStat(s)
         [] k = "while" -> WhileStat(s)
         [] k = "do" -> CheckNext(Block(Advance(s)), "end")
         [] k = "for" -> ForStat(s)
         [] k = "repeat" -> RepeatStat(s)
         [] k = "function" -> FuncStat(s)
         [] k = "local" -> IF Kind(Advance(s)) = "function" THEN LocalFunc(Advance(Advance(s)))
                           ELSE LocalStat(Advance(s))
         [] k = "return" -> RetStat(Advance(s))
         [] k = "break" -> [Advance(s) EXCEPT !.f = BreakStat(@)]
         [] OTHER -> ExprStat(s)

(* Statements to the end of the block; nothing follows a return or a break.  *)
RECURSIVE Statements(_)
Statements(s) ==
    LET r == TestNext(Statement(s), ";")
        g == Sound(r.f, r.f.maxstack >= r.f.freereg /\ r.f.freereg >= r.f.nactvar)
        freed == [r EXCEPT !.f = [g EXCEPT !.freereg = g.nactvar]]
    IN IF Kind(s) \in BlockFollow THEN s
       ELSE IF Kind(s) \in {"return", "break"} THEN freed ELSE Statements(freed)
Chunk(s) == LeaveLevel(Statements(EnterLevel(s)))

(* A chunk is the body of a function with `...'.                             *)
Compile(tokens) ==
    LET s == Check(Chunk([t |-> tokens, up |-> <<>>, level |-> 0,
                          f |-> [FuncState0 EXCEPT !.vararg = {"ISVARARG"}]]), "eos")
        f == CloseFunc(s.f)
    IN [ok |-> ~f.err, sound |-> f.sound, main |-> Proto(f)]
=============================================================================
