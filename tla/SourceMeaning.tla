---------------------------- MODULE SourceMeaning ---------------------------
(* What a program means, from its syntax alone: no registers, no jumps, no   *)
(* upvalues.  A variable is a cell, a scope is a map from names to cells, a  *)
(* block runs its statements in order, and what can be observed of a run is  *)
(* the list of the arguments the library function was called with and how    *)
(* the run ended.  The compiler and the machine are checked against this.    *)
(*                                                                           *)
(* Expressions and statements are tuples whose first element says which.     *)
EXTENDS LuaValues

(* ------------------------- the text of a program ------------------------- *)
(* Parentheses appear only where the priorities of the manual ask for them.  *)
Binds(e) ==
    CASE e[1] = "bin" ->
           (CASE e[2] = "or" -> 1 [] e[2] = "and" -> 2
              [] e[2] \in {"<", ">", "<=", ">=", "~=", "=="} -> 3
              [] e[2] = ".." -> 4 [] e[2] \in {"+", "-"} -> 5
              [] e[2] \in {"*", "/", "%"} -> 6 [] e[2] = "^" -> 8)
      [] e[1] = "un" -> 7
      [] OTHER -> 9
RightAssociative == {"..", "^"}

T(k) == <<<<k>>>>
Name(x) == <<<<"NAME", x>>>>
RECURSIVE ExpTokens(_), BlockTokens(_), ListTokens(_), NameTokens(_), ItemTokens(_), IfTokens(_)
Wrapped(e, yes) == IF yes THEN T("(") \o ExpTokens(e) \o T(")") ELSE ExpTokens(e)
BodyTokens(f) == T("(") \o NameTokens(f[2] \o (IF f[3] = "" THEN <<>> ELSE <<"...">>)) \o T(")")
                 \o BlockTokens(f[4]) \o T("end")
ExpTokens(e) ==
    CASE e[1] \in {"nil", "true", "false", "..."} -> T(e[1])
      [] e[1] = "num" -> <<<<"NUMBER", e[2]>>>>
      [] e[1] = "str" -> <<<<"STRING", e[2]>>>>
      [] e[1] = "name" -> Name(e[2])
      [] e[1] = "dot" -> ExpTokens(e[2]) \o T(".") \o Name(e[3])
      [] e[1] = "index" -> ExpTokens(e[2]) \o T("[") \o ExpTokens(e[3]) \o T("]")
      [] e[1] = "call" -> ExpTokens(e[2]) \o T("(") \o ListTokens(e[3]) \o T(")")
      [] e[1] = "method" -> ExpTokens(e[2]) \o T(":") \o Name(e[3])
                            \o T("(") \o ListTokens(e[4]) \o T(")")
      [] e[1] = "paren" -> Wrapped(e[2], TRUE)
      [] e[1] = "function" -> T("function") \o BodyTokens(e)
      [] e[1] = "table" -> T("{") \o ItemTokens(e[2]) \o T("}")
      [] e[1] = "un" -> T(e[2]) \o Wrapped(e[3], Binds(e[3]) < 7)
      [] e[1] = "bin" ->
           LET right == e[2] \in RightAssociative
           IN Wrapped(e[3], Binds(e[3]) < Binds(e) \/ (right /\ Binds(e[3]) = Binds(e)))
              \o T(e[2])
              \o Wrapped(e[4], Binds(e[4]) < Binds(e) \/ (~right /\ Binds(e[4]) = Binds(e)))
ListTokens(es) ==
    IF es = <<>> THEN <<>>
    ELSE ExpTokens(Head(es)) \o (IF Len(es) = 1 THEN <<>> ELSE T(",") \o ListTokens(Tail(es)))
NameTokens(xs) ==
    IF xs = <<>> THEN <<>>
    ELSE (IF Head(xs) = "..." THEN T("...") ELSE Name(Head(xs)))
         \o (IF Len(xs) = 1 THEN <<>> ELSE T(",") \o NameTokens(Tail(xs)))
ItemTokens(items) ==
    IF items = <<>> THEN <<>>
    ELSE LET i == Head(items)
         IN (CASE i[1] = "item" -> ExpTokens(i[2])
               [] i[1] = "field" -> Name(i[2]) \o T("=") \o ExpTokens(i[3])
               [] i[1] = "pair" -> T("[") \o ExpTokens(i[2]) \o T("]") \o T("=") \o ExpTokens(i[3]))
            \o (IF Len(items) = 1 THEN <<>> ELSE T(",") \o ItemTokens(Tail(items)))
(* The branches of an if: pairs of a condition and a block.                  *)
IfTokens(branches) ==
    IF branches = <<>> THEN <<>>
    ELSE T("elseif") \o ExpTokens(branches[1][1]) \o T("then") \o BlockTokens(branches[1][2])
         \o IfTokens(Tail(branches))
StatTokens(s) ==
    CASE s[1] \in {"call", "method"} -> ExpTokens(s)
      [] s[1] = "local" -> T("local") \o NameTokens(s[2])
                           \o (IF s[3] = <<>> THEN <<>> ELSE T("=") \o ListTokens(s[3]))
      [] s[1] = "set" -> ListTokens(s[2]) \o T("=") \o ListTokens(s[3])
      [] s[1] = "do" -> T("do") \o BlockTokens(s[2]) \o T("end")
      [] s[1] = "while" -> T("while") \o ExpTokens(s[2]) \o T("do") \o BlockTokens(s[3]) \o T("end")
      [] s[1] = "repeat" -> T("repeat") \o BlockTokens(s[2]) \o T("until") \o ExpTokens(s[3])
      [] s[1] = "if" -> T("if") \o Tail(IfTokens(s[2]))
                        \o (IF s[3] = <<>> THEN <<>> ELSE T("else") \o BlockTokens(s[3])) \o T("end")
      [] s[1] = "for" -> T("for") \o Name(s[2]) \o T("=") \o ListTokens(s[3])
                         \o T("do") \o BlockTokens(s[4]) \o T("end")
      [] s[1] = "forin" -> T("for") \o NameTokens(s[2]) \o T("in") \o ListTokens(s[3])
                           \o T("do") \o BlockTokens(s[4]) \o T("end")
      [] s[1] = "localfunction" -> T("local") \o T("function") \o Name(s[2]) \o BodyTokens(s[3])
      [] s[1] = "deffunction" -> T("function") \o ExpTokens(s[2]) \o BodyTokens(s[3])
      [] s[1] = "defmethod" -> T("function") \o ExpTokens(s[2]) \o T(":") \o Name(s[3]) \o BodyTokens(s[4])
      [] s[1] = "return" -> T("return") \o ListTokens(s[2])
      [] s[1] = "break" -> T("break")
BlockTokens(b) == IF b = <<>> THEN <<>> ELSE StatTokens(Head(b)) \o T(";") \o BlockTokens(Tail(b))

(* A program is a block, without its last cut tokens, and legal or not.      *)
Tokens(p) == LET all == BlockTokens(p.block) IN SubSeq(all, 1, Len(all) - p.cut)

(* ------------------------------ its meaning ------------------------------ *)
(* The store: cells of variables, tables, functions, what was observed, and  *)
(* whether an error has ended the run.                                       *)
Library == [x \in {Str(<<"f">>)} |-> <<"native">>]
Env0 == [vars |-> [x \in {} |-> 0], dots |-> <<>>]
Store0(block) ==
    [cells |-> <<>>, tables |-> <<Library>>, trace |-> <<>>, ok |-> TRUE,
     functions |-> <<[params |-> <<>>, vararg |-> "...", body |-> block, env |-> Env0]>>]

Truth(v) == v \notin {Nil, Bool(FALSE)}
First(vs) == IF vs = <<>> THEN Nil ELSE vs[1]
Arg(vs, n) == IF n <= Len(vs) THEN vs[n] ELSE Nil
Broken(st) == [st |-> [st EXCEPT !.ok = FALSE], vs |-> <<Nil>>]

ReadField(st, t, key) ==
    IF t[1] # "table" THEN Broken(st)
    ELSE [st |-> st, vs |-> <<IF key \in DOMAIN st.tables[t[2]] THEN st.tables[t[2]][key] ELSE Nil>>]
WriteField(st, t, key, v) ==
    IF t[1] # "table" \/ key = Nil THEN [st EXCEPT !.ok = FALSE]
    ELSE IF ~st.ok THEN st
    ELSE [st EXCEPT !.tables[t[2]] =
            [x \in DOMAIN @ \cup {key} |-> IF x = key THEN v ELSE @[x]]]
Declare(env, st, names, vs) ==
    [env |-> [env EXCEPT !.vars = [x \in DOMAIN @ \cup {names[n] : n \in DOMAIN names} |->
                LET places == {n \in DOMAIN names : names[n] = x}
                IN IF places = {} THEN @[x]
                   ELSE Len(st.cells) + (CHOOSE n \in places : \A k \in places : k <= n)]],
     st |-> [st EXCEPT !.cells = @ \o [n \in DOMAIN names |-> Arg(vs, n)]]]

Operate(st, op, x, y) ==
    LET numbers == x[1] = "number" /\ y[1] = "number"
        order(holds) == IF numbers THEN [st |-> st, vs |-> <<Bool(holds)>>] ELSE Broken(st)
        arith(name) == IF IsNumber(x) /\ IsNumber(y) THEN [st |-> st, vs |-> <<Calc(name, x, y)>>]
                       ELSE Broken(st)
    IN CASE op = "==" -> [st |-> st, vs |-> <<Bool(x = y)>>]
         [] op = "~=" -> [st |-> st, vs |-> <<Bool(x # y)>>]
         [] op = "<" -> order(x[2] < y[2]) [] op = "<=" -> order(x[2] <= y[2])
         [] op = ">" -> order(x[2] > y[2]) [] op = ">=" -> order(x[2] >= y[2])
         [] op = "+" -> arith("ADD") [] op = "-" -> arith("SUB") [] op = "*" -> arith("MUL")
         [] op = "/" -> arith("DIV") [] op = "%" -> arith("MOD") [] op = "^" -> arith("POW")
         [] op = ".." -> IF x[1] = "string" /\ y[1] = "string"
                         THEN [st |-> st, vs |-> <<Str(x[2] \o y[2])>>] ELSE Broken(st)
LengthOf(st, t) ==
    Cardinality({n \in 1..Cardinality(DOMAIN st.tables[t[2]]) :
                    \A m \in 1..n : ReadField(st, t, Num(m)).vs[1] # Nil})

OperateOn(st, op, v) ==
    CASE op = "not" -> [st |-> st, vs |-> <<Bool(~Truth(v))>>]
      [] op = "-" /\ IsNumber(v) -> [st |-> st, vs |-> <<Calc("UNM", v, v)>>]
      [] op = "#" /\ v[1] = "string" -> [st |-> st, vs |-> <<Num(Len(v[2]))>>]
      [] op = "#" /\ v[1] = "table" -> [st |-> st, vs |-> <<Num(LengthOf(st, v))>>]
      [] OTHER -> Broken(st)

RECURSIVE Eval(_, _, _), EvalList(_, _, _), Apply(_, _, _), Fill(_, _, _, _, _), Run(_, _, _)
(* A store and the values of an expression; only calls and `...' have more   *)
(* than one.                                                                 *)
Eval(e, env, st) ==
    LET a == Eval(e[2], env, st)
        one == Eval(e[3], env, st)
        two == Eval(e[4], env, one.st)
        key == Eval(e[3], env, a.st)
        args == EvalList(e[IF e[1] = "method" THEN 4 ELSE 3], env, a.st)
        self == ReadField(a.st, First(a.vs), Str(<<e[3]>>))
        margs == EvalList(e[4], env, self.st)
    IN CASE ~st.ok -> [st |-> st, vs |-> <<Nil>>]
         [] e[1] = "nil" -> [st |-> st, vs |-> <<Nil>>]
         [] e[1] \in {"true", "false"} -> [st |-> st, vs |-> <<Bool(e[1] = "true")>>]
         [] e[1] = "num" -> [st |-> st, vs |-> <<Num(e[2])>>]
         [] e[1] = "str" -> [st |-> st, vs |-> <<Str(<<e[2]>>)>>]
         [] e[1] = "..." -> [st |-> st, vs |-> env.dots]
         [] e[1] = "name" ->
              IF e[2] \in DOMAIN env.vars THEN [st |-> st, vs |-> <<st.cells[env.vars[e[2]]]>>]
              ELSE ReadField(st, <<"table", 1>>, Str(<<e[2]>>))
         [] e[1] = "dot" -> ReadField(a.st, First(a.vs), Str(<<e[3]>>))
         [] e[1] = "index" -> ReadField(key.st, First(a.vs), First(key.vs))
         [] e[1] = "paren" -> [a EXCEPT !.vs = <<First(@)>>]
         [] e[1] = "call" -> Apply(First(a.vs), args.vs, args.st)
         [] e[1] = "method" -> Apply(First(self.vs), <<First(a.vs)>> \o margs.vs, margs.st)
         [] e[1] = "function" ->
              [st |-> [st EXCEPT !.functions = Append(@, [params |-> e[2], vararg |-> e[3],
                                                          body |-> e[4], env |-> env])],
               vs |-> <<<<"function", Len(st.functions) + 1>>>>]
         [] e[1] = "table" ->
              Fill(e[2], 1, <<"table", Len(st.tables) + 1>>, env,
                   [st EXCEPT !.tables = Append(@, [x \in {} |-> Nil])])
         [] e[1] = "un" ->
              IF one.st.ok THEN OperateOn(one.st, e[2], First(one.vs)) ELSE one
         [] e[1] = "bin" ->
              IF e[2] \in {"and", "or"}
              THEN IF Truth(First(one.vs)) = (e[2] = "and") THEN [two EXCEPT !.vs = <<First(@)>>]
                   ELSE [one EXCEPT !.vs = <<First(@)>>]
              ELSE IF ~two.st.ok THEN two
              ELSE Operate(two.st, e[2], First(one.vs), First(two.vs))
EvalList(es, env, st) ==
    LET head == Eval(es[1], env, st)
        rest == EvalList(Tail(es), env, head.st)
    IN CASE es = <<>> -> [st |-> st, vs |-> <<>>]
         [] Len(es) = 1 -> head
         [] OTHER -> [rest EXCEPT !.vs = <<First(head.vs)>> \o @]
Fill(items, n, t, env, st) ==
    LET i == Head(items)
        item == EvalList(<<i[2]>>, env, st)
        vs == IF Len(items) = 1 THEN item.vs ELSE <<First(item.vs)>>
        listed == [item.st EXCEPT !.tables[t[2]] =
                     [x \in DOMAIN @ \cup {Num(n + k - 1) : k \in DOMAIN vs} |->
                        IF x \in {Num(n + k - 1) : k \in DOMAIN vs} THEN vs[x[2] - n + 1] ELSE @[x]]]
        key == IF i[1] = "field" THEN [st |-> st, vs |-> <<Str(<<i[2]>>)>>] ELSE Eval(i[2], env, st)
        val == Eval(i[3], env, key.st)
    IN CASE items = <<>> \/ ~st.ok -> [st |-> st, vs |-> <<t>>]
         [] items # <<>> /\ i[1] = "item" -> Fill(Tail(items), n + 1, t, env, listed)
         [] OTHER -> Fill(Tail(items), n, t, env,
                          WriteField(val.st, t, First(key.vs), First(val.vs)))
(* A function with `...' that does not use it finds the arguments in arg.    *)
Apply(f, args, st) ==
    LET fn == st.functions[f[2]]
        extra == SubSeq(args, Len(fn.params) + 1, Len(args))
        old == [x \in {Num(n) : n \in DOMAIN extra} \cup {Str(<<"n">>)} |->
                    IF x[1] = "number" THEN extra[x[2]] ELSE Num(Len(extra))]
        d == IF fn.vararg = "arg"
             THEN Declare(fn.env, [st EXCEPT !.tables = Append(@, old)], Append(fn.params, "arg"),
                          [n \in DOMAIN fn.params |-> Arg(args, n)]
                          \o <<<<"table", Len(st.tables) + 1>>>>)
             ELSE Declare(fn.env, st, fn.params, args)
        r == Run(fn.body, [d.env EXCEPT !.dots = extra], d.st)
    IN CASE ~st.ok -> Broken(st)
         [] st.ok /\ f[1] = "native" ->
              [st |-> [st EXCEPT !.trace = Append(@, args)], vs |-> args]
         [] st.ok /\ f[1] = "function" -> [st |-> r.st, vs |-> r.vs]
         [] OTHER -> Broken(st)

(* The place an assignment goes to, found before anything is assigned.       *)
RECURSIVE Places(_, _, _), SetAll(_, _, _, _), While(_, _, _), Repeat(_, _, _), Count(_, _, _, _, _),
          Iterate(_, _, _, _), Choose(_, _, _, _)
Places(es, env, st) ==
    LET e == Head(es)
        a == Eval(e[2], env, st)
        key == Eval(e[3], env, a.st)
        this == CASE e[1] = "name" -> [t |-> Nil, key |-> e[2], st |-> st]
                  [] e[1] = "dot" -> [t |-> First(a.vs), key |-> Str(<<e[3]>>), st |-> a.st]
                  [] e[1] = "index" -> [t |-> First(a.vs), key |-> First(key.vs), st |-> key.st]
        rest == Places(Tail(es), env, this.st)
    IN IF es = <<>> THEN [st |-> st, at |-> <<>>]
       ELSE [st |-> rest.st, at |-> <<[t |-> this.t, key |-> this.key, name |-> e[1] = "name"]>> \o rest.at]
SetVar(st, env, x, v) ==
    IF x \in DOMAIN env.vars THEN [st EXCEPT !.cells[env.vars[x]] = v]
    ELSE WriteField(st, <<"table", 1>>, Str(<<x>>), v)
(* From the last to the first.                                               *)
SetAll(at, vs, env, st) ==
    LET n == Len(at)
        set == IF at[n].name THEN SetVar(st, env, at[n].key, Arg(vs, n))
               ELSE WriteField(st, at[n].t, at[n].key, Arg(vs, n))
    IN IF at = <<>> \/ ~st.ok THEN st ELSE SetAll(SubSeq(at, 1, n - 1), vs, env, set)

(* How a block ends: at its end, with a break, or with a return.             *)
Ends(sig, env, st, vs) == [sig |-> IF st.ok THEN sig ELSE "return", env |-> env, st |-> st, vs |-> vs]
Inside(r, env) == [r EXCEPT !.env = env]
Loops(r, env) == Ends(IF r.sig = "break" THEN "end" ELSE r.sig, env, r.st, r.vs)

While(s, env, st) ==
    LET c == Eval(s[2], env, st)
        r == Run(s[3], env, c.st)
    IN IF ~c.st.ok \/ ~Truth(First(c.vs)) THEN Ends("end", env, c.st, <<>>)
       ELSE IF r.sig = "end" THEN While(s, env, r.st) ELSE Loops(r, env)
Repeat(s, env, st) ==
    LET r == Run(s[2], env, st)
        c == Eval(s[3], r.env, r.st)
    IN IF r.sig # "end" THEN Loops(r, env)
       ELSE IF ~c.st.ok \/ Truth(First(c.vs)) THEN Ends("end", env, c.st, <<>>)
       ELSE Repeat(s, env, c.st)
Count(s, i, control, env, st) ==
    LET d == Declare(env, st, <<s[2]>>, <<Num(i)>>)
        r == Run(s[4], d.env, d.st)
    IN IF (control.step > 0 /\ i > control.limit) \/ (control.step <= 0 /\ i < control.limit)
       THEN Ends("end", env, st, <<>>)
       ELSE IF r.sig = "end" THEN Count(s, i + control.step, control, env, r.st) ELSE Loops(r, env)
Iterate(s, control, env, st) ==
    LET c == Apply(control[1], <<control[2], control[3]>>, st)
        d == Declare(env, c.st, s[2], c.vs)
        r == Run(s[4], d.env, d.st)
    IN IF ~c.st.ok \/ First(c.vs) = Nil THEN Ends("end", env, c.st, <<>>)
       ELSE IF r.sig = "end" THEN Iterate(s, [control EXCEPT ![3] = First(c.vs)], env, r.st)
       ELSE Loops(r, env)
Choose(branches, other, env, st) ==
    LET c == Eval(branches[1][1], env, st)
    IN IF branches = <<>> THEN Inside(Run(other, env, st), env)
       ELSE IF ~c.st.ok THEN Ends("return", env, c.st, <<>>)
       ELSE IF Truth(First(c.vs)) THEN Inside(Run(branches[1][2], env, c.st), env)
       ELSE Choose(Tail(branches), other, env, c.st)

Step(s, env, st) ==
    LET list == EvalList(s[3], env, st)
        places == Places(s[2], env, st)
        values == EvalList(s[3], env, places.st)
        local == Declare(env, list.st, s[2], list.vs)
        numbers == \A n \in DOMAIN list.vs : list.vs[n][1] = "number"
        step == IF Len(list.vs) < 3 THEN 1 ELSE list.vs[3][2]
        own == Declare(env, st, <<s[2]>>, <<Nil>>)
        fn == Eval(IF s[1] = "defmethod" THEN [s[4] EXCEPT ![2] = <<"self">> \o @] ELSE s[3], env, st)
        ofn == Eval(s[3], own.env, own.st)
        target == IF s[1] = "defmethod" THEN <<"dot", s[2], s[3]>> ELSE s[2]
        where == Places(<<target>>, env, fn.st)
        returned == EvalList(s[2], env, st)
    IN CASE s[1] \in {"call", "method"} -> Ends("end", env, Eval(s, env, st).st, <<>>)
         [] s[1] = "local" -> Ends("end", local.env, local.st, <<>>)
         [] s[1] = "set" -> Ends("end", env, SetAll(places.at, values.vs, env, values.st), <<>>)
         [] s[1] = "do" -> Inside(Run(s[2], env, st), env)
         [] s[1] = "while" -> While(s, env, st)
         [] s[1] = "repeat" -> Repeat(s, env, st)
         [] s[1] = "if" -> Choose(s[2], s[3], env, st)
         [] s[1] = "for" ->
              IF list.st.ok /\ numbers
              THEN Count(s, list.vs[1][2], [limit |-> list.vs[2][2], step |-> step], env, list.st)
              ELSE Ends("return", env, Broken(list.st).st, <<>>)
         [] s[1] = "forin" ->
              Iterate(s, <<Arg(list.vs, 1), Arg(list.vs, 2), Arg(list.vs, 3)>>, env, list.st)
         [] s[1] = "localfunction" ->
              Ends("end", own.env, SetVar(ofn.st, own.env, s[2], First(ofn.vs)), <<>>)
         [] s[1] \in {"deffunction", "defmethod"} ->
              Ends("end", env, SetAll(where.at, fn.vs, env, where.st), <<>>)
         [] s[1] = "return" -> Ends("return", env, returned.st, returned.vs)
         [] s[1] = "break" -> Ends("break", env, st, <<>>)
Run(block, env, st) ==
    LET r == Step(Head(block), env, st)
    IN IF block = <<>> THEN Ends("end", env, st, <<>>)
       ELSE IF r.sig # "end" THEN r ELSE Run(Tail(block), r.env, r.st)

Meaning(p) ==
    LET r == Apply(<<"function", 1>>, <<>>, Store0(p.block))
    IN IF ~p.legal THEN [status |-> "rejected", trace |-> <<>>, results |-> <<>>]
       ELSE IF ~r.st.ok THEN [status |-> "error", trace |-> r.st.trace, results |-> <<>>]
       ELSE [status |-> "done", trace |-> r.st.trace, results |-> r.vs]
=============================================================================
