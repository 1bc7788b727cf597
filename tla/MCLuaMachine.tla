---------------------------- MODULE MCLuaMachine ----------------------------
(* The programs LuaMachine is checked with.  Those of Expressions combine a  *)
(* few operands in every way with the operators that jump; the others are    *)
(* written for the statement, the scope or the limit they bring into play.   *)
EXTENDS LuaMachine

V(x) == <<"name", x>>
N(n) == <<"num", n>>
S(x) == <<"str", x>>
Bin(op, a, b) == <<"bin", op, a, b>>
Not(a) == <<"un", "not", a>>
CallOf(f, args) == <<"call", f, args>>
Out(args) == CallOf(V("f"), args)
Fn(params, body) == <<"function", params, "", body>>
Dots == <<"...">>
TableOf(items) == <<"table", items>>
Item(e) == <<"item", e>>
Local(x, e) == <<"local", <<x>>, <<e>>>>
Set(x, e) == <<"set", <<x>>, <<e>>>>
Loop(x, from, to, body) == <<"for", x, <<N(from), N(to)>>, body>>
If(c, then, else) == <<"if", <<<<c, then>>>>, else>>
Give(es) == <<"return", es>>
Break == <<"break">>

Legal(block) == [block |-> block, cut |-> 0, legal |-> TRUE]
Refused(block) == [block |-> block, cut |-> 0, legal |-> FALSE]
(* No beginning of a single statement with an end is a program.              *)
Beginnings(stat) ==
    {[block |-> <<stat>>, cut |-> n, legal |-> FALSE] :
        n \in {k \in 2..Len(BlockTokens(<<stat>>)) - 1 : TRUE}}

(* ----------------------- conditions in every position -------------------- *)
Leaves == {<<"nil">>, N(1), V("a"), V("g")}
Tests == {Not(V("a")), Not(V("g")), Bin("<", N(1), V("a")), Bin(">=", N(1), V("a")),
          Bin("==", V("a"), V("g")), Bin("~=", V("a"), N(1)), <<"false">>, <<"index", V("f2"), N(1)>>}
Pairs == {Bin(op, x, y) : op \in {"and", "or"}, x \in Leaves \cup Tests, y \in {N(1), V("g"), V("a")} \cup Tests}
Conditions == {Bin(op, x, y) : op \in {"and", "or"}, x \in Pairs, y \in {V("a"), <<"nil">>, Not(V("g"))}}
              \cup {Bin(op, x, Not(y)) : op \in {"and", "or"}, x \in {V("a"), V("g")}, y \in Pairs}
Everywhere(e) ==
    <<<<"local", <<"a", "f2">>, <<N(2), TableOf(<<Item(N(7))>>)>>>>,
      Local("b", e), Set(V("a"), e), Out(<<V("b"), e, Not(e)>>),
      If(e, <<Out(<<N(1)>>)>>, <<Out(<<N(2)>>)>>), Give(<<V("a"), e>>)>>
Expressions == {Legal(Everywhere(e)) : e \in Conditions}

(* The value of the second operand comes from the branch, not from a test.   *)
Nested == {Legal(<<Out(<<Bin("or", Bin("and", Bin("or", x, y), z), <<"false">>)>>),
                   Out(<<Bin("and", Bin("or", Bin("and", x, y), z), <<"true">>)>>)>>) :
             x \in {N(1), <<"nil">>, V("g")}, y \in {<<"false">>, <<"true">>}, z \in {<<"true">>, N(2), <<"nil">>}}

(* ------------------------------- assignments ----------------------------- *)
(* Targets that use each other as table or key, with too few, enough and too *)
(* many values, inside a function whose targets may be upvalues.             *)
Index(t, k) == <<"index", t, k>>
Targets == {V("a"), V("t"), V("g"), Index(V("t"), V("a")), Index(V("t"), N(2)), <<"dot", V("t"), "x">>}
Values == {<<N(2)>>, <<V("a"), N(3)>>, <<Out(<<V("a"), V("t")>>)>>, <<V("t"), <<"nil">>, N(4)>>,
           <<N(1), Bin("and", V("a"), V("g"))>>}
Shown == Out(<<V("a"), V("g"), Index(V("s"), N(1)), Index(V("s"), N(2)), <<"dot", V("s"), "x">>>>)
Assigning(targets, values) ==
    <<<<"local", <<"a", "t">>, <<N(1), TableOf(<<Item(N(5)), Item(N(6))>>)>>>>, Local("s", V("t")),
      <<"set", targets, values>>, Shown>>
Captive(targets, values) ==
    <<<<"local", <<"a", "t">>, <<N(1), TableOf(<<Item(N(5)), Item(N(6))>>)>>>>, Local("s", V("t")),
      <<"localfunction", "h", Fn(<<>>, <<<<"set", targets, values>>>>)>>, <<"call", V("h"), <<>>>>, Shown>>
Assignments ==
    {Legal(Assigning(<<x, y>>, v)) : x \in Targets, y \in Targets, v \in Values}
    \cup {Legal(Captive(<<x, y>>, v)) : x \in {V("a"), Index(V("t"), V("a"))}, y \in Targets, v \in Values}
    \cup {Legal(Assigning(<<Index(V("t"), V("a")), x, y>>, <<N(7), N(2), N(3)>>)) : x \in Targets, y \in Targets}

(* --------------------------- functions and calls ------------------------- *)
Given == {<<>>, <<N(1)>>, <<N(1), N(2), N(3)>>, <<N(1), Out(<<N(2), N(3)>>)>>}
Functions ==
    {<<"function", ps, mode, <<Give(r)>>>> :
        ps \in {<<>>, <<"p", "q">>}, mode \in {"", "..."},
        r \in {<<>>, <<V("p")>>, <<V("q"), N(4), V("p")>>, <<Out(<<V("p")>>)>>}}
    \cup {<<"function", <<"p">>, "...", <<Give(r)>>>> :
            r \in {<<Dots>>, <<Dots, N(4)>>, <<V("p"), Dots>>, <<Out(<<N(0), Dots>>)>>, <<<<"paren", Dots>>>>}}
    \cup {<<"function", <<"p">>, "arg", <<Give(<<Index(V("arg"), N(1)), <<"dot", V("arg"), "n">>>>)>>>>}
Calling(fn, args) ==
    LET c == CallOf(V("h"), args)
    IN <<<<"localfunction", "h", fn>>, c, <<"local", <<"x", "y">>, <<c>>>>, Out(<<V("x"), V("y"), c>>),
         Local("t", TableOf(<<Item(c), Item(c)>>)), Out(<<<<"un", "#", V("t")>>, Index(V("t"), N(2)), <<"paren", c>>>>),
         Give(<<c>>)>>
Calls == {Legal(Calling(fn, args)) : fn \in Functions, args \in Given}

(* ------------------------- loops, blocks and closures -------------------- *)
(* A variable of the body is captured and changed, before or after a break.  *)
Counter == Fn(<<>>, <<Set(V("b"), Bin("+", V("b"), V("a"))), Give(<<V("b")>>)>>)
Bodies(test) ==
    {<<Local("b", V("a")), Set(V("c"), Counter), Set(V("a"), Bin("+", V("a"), N(1))),
       Out(<<CallOf(V("c"), <<>>), V("b")>>)>>,
     <<Set(V("a"), Bin("+", V("a"), N(1))), If(test, <<Break>>, <<>>), Local("b", N(5)), Set(V("c"), Counter)>>,
     <<Local("b", V("a")), Set(V("a"), Bin("+", V("a"), N(1))), Set(V("c"), Counter),
       If(test, <<Out(<<V("b")>>), Break>>, <<Set(V("b"), N(9))>>)>>,
     <<Set(V("a"), Bin("+", V("a"), N(1))), Local("b", N(1)), If(test, <<Give(<<V("b"), Counter>>)>>, <<>>),
       Set(V("c"), Fn(<<>>, <<Give(<<Counter, V("b")>>)>>))>>}
LoopTests == {Bin("==", V("a"), N(3)), Bin("and", V("c"), Bin("<", N(2), V("a"))),
              Not(Bin("or", Bin("<", V("a"), N(3)), Not(V("a"))))}
Iterator == Fn(<<"s", "i">>, <<If(Bin("<", V("i"), V("s")), <<Give(<<Bin("+", V("i"), N(1)), V("i")>>)>>, <<>>)>>)
LoopsOf(body, test) ==
    {<<<<"while", Not(test), body>>>>, <<<<"while", Bin("<", V("a"), N(4)), body>>>>,
     <<<<"repeat", body, test>>>>,
     <<Loop("b", 1, 3, body)>>, <<<<"for", "i", <<N(3), N(1), <<"un", "-", N(1)>>>>, body>>>>,
     <<<<"forin", <<"i", "b">>, <<Iterator, N(3), N(0)>>, body>>>>,
     <<<<"while", <<"true">>, <<<<"do", body>>, If(test, <<Break>>, <<>>)>>>>>>}
(* The test of a repeat sees the variables of its body.                      *)
Repeats == {<<<<"repeat", <<Set(V("a"), Bin("+", V("a"), N(1))), Local("b", V("a"))>> \o body,
               Bin(op, V("b"), N(3))>>>> :
              op \in {"==", ">"}, body \in {<<>>, <<Set(V("c"), Counter)>>,
                     <<Set(V("c"), Counter), If(Bin("==", V("a"), N(3)), <<Break>>, <<>>)>>}}
Around(loop) ==
    <<<<"local", <<"a", "c">>, <<N(1)>>>>>> \o loop
    \o <<If(V("c"), <<Out(<<CallOf(V("c"), <<>>), V("a")>>), Give(<<CallOf(V("c"), <<>>)>>)>>, <<>>)>>
Loopings == {Legal(Around(loop)) : loop \in UNION {LoopsOf(body, t) : t \in LoopTests,
                 body \in UNION {Bodies(u) : u \in LoopTests}} \cup Repeats}

(* ------------------------------ other programs --------------------------- *)
(* Closures that share a variable, that keep one each, and one whose         *)
(* variable belongs to a function two levels up; a tail call closes them.    *)
Local0(xs) == <<"local", xs, <<>>>>
Plus(x, n) == Bin("+", V(x), N(n))
Method(t, m, args) == <<"method", t, m, args>>
Sharing ==
    <<Local("t", TableOf(<<>>)),
      Loop("i", 1, 2, <<Local("x", V("i")),
          Set(Index(V("t"), V("i")), Fn(<<"d">>, <<Set(V("x"), Bin("+", V("x"), V("d"))), Give(<<V("x")>>)>>)),
          Set(Index(V("t"), Plus("i", 2)), Fn(<<>>, <<Give(<<Fn(<<>>, <<Give(<<V("x"), V("i"), V("t")>>)>>)>>)>>))>>),
      Out(<<CallOf(Index(V("t"), N(1)), <<N(5)>>), CallOf(Index(V("t"), N(2)), <<N(1)>>),
            CallOf(CallOf(Index(V("t"), N(3)), <<>>), <<>>)>>)>>
TailCalls ==
    <<<<"localfunction", "h", Fn(<<"n", "k">>,
          <<If(Bin("==", V("n"), N(0)), <<Give(<<CallOf(V("k"), <<>>)>>)>>, <<>>),
            Give(<<CallOf(V("h"), <<Bin("-", V("n"), N(1)), Fn(<<>>, <<Give(<<V("n"), CallOf(V("k"), <<>>)>>)>>)>>)>>)>>)>>,
      Out(<<CallOf(V("h"), <<N(2), V("f")>>)>>), Give(<<CallOf(V("f"), <<N(1), N(2)>>)>>)>>
Objects ==
    <<Local("t", TableOf(<<<<"field", "n", N(3)>>, <<"pair", S("u"), TableOf(<<>>)>>>>)),
      <<"deffunction", <<"dot", <<"dot", V("t"), "u">>, "m">>, Fn(<<"p">>, <<Give(<<V("p")>>)>>)>>,
      <<"defmethod", V("t"), "m", Fn(<<"d">>, <<Give(<<Bin("*", <<"dot", V("self"), "n">>, V("d"))>>)>>)>>,
      <<"deffunction", V("g"), Fn(<<>>, <<Give(<<Method(V("t"), "m", <<N(2)>>)>>)>>)>>,
      Method(V("t"), "m", <<N(1)>>),
      Out(<<Method(V("t"), "m", <<N(4)>>), CallOf(V("g"), <<>>), CallOf(<<"dot", <<"dot", V("t"), "u">>, "m">>, <<N(6)>>)>>)>>
(* A list longer than two flushes, with a call at its end or in its middle,  *)
(* and fields between its items.                                             *)
Constructors ==
    {<<Local("t", TableOf([n \in 1..k |-> Item(N(n))] \o <<<<"field", "x", N(0)>>>> \o last)),
       Out(<<<<"un", "#", V("t")>>, Index(V("t"), N(k)), Index(V("t"), N(k + 2)), <<"dot", V("t"), "x">>>>)>> :
         k \in 1..5, last \in {<<>>, <<Item(Out(<<N(8), N(9)>>))>>, <<Item(Out(<<N(8), N(9)>>)), Item(N(3))>>}}
(* Nothing computed at compile time differs from what is computed at run     *)
(* time, and no operand is lost when the constants no longer fit.            *)
Operations == <<"+", "-", "*", "/", "%", "^", "==", "<", "<=">>
Numbers ==
    {<<Local("a", x), Local("b", y),
       Out([n \in DOMAIN Operations |-> Bin(Operations[n], x, y)]),
       Out([n \in DOMAIN Operations |-> Bin(Operations[n], V("a"), y)]),
       Out([n \in DOMAIN Operations |-> Bin(Operations[n], <<"un", "-", x>>, V("b"))]),
       Out(<<Bin("+", x, Bin("*", y, Bin("-", x, <<"un", "-", y>>))), Bin("^", x, Bin("^", N(2), y))>>)>> :
         x \in {N(4), N(0)}, y \in {N(2), N(1)}}
    \cup {<<Local("a", N(3)), Out(<<Bin("/", N(1), N(0)), Bin("/", N(4), N(2)), Bin("%", N(5), V("a"))>>)>>}
Texts ==
    <<Local("a", S("u")), Out(<<Bin("..", S("v"), Bin("..", V("a"), Bin("..", S("w"), V("a")))),
                                 <<"un", "#", Bin("..", V("a"), V("a"))>>, Not(S("u"))>>)>>
Scopes ==
    <<<<"do", <<Local("a", N(1)), Local0(<<"b">>), Local0(<<"c", "d">>), Out(<<V("a"), V("b"), V("d")>>)>>>>,
      <<"do", <<Local0(<<"b", "c">>), Out(<<V("b"), V("c")>>)>>>>,
      <<"local", <<"a", "a">>, <<N(1), N(2)>>>>, Local("a", Plus("a", 1)),
      Loop("i", 1, 2, <<Local0(<<"x">>), Out(<<V("x"), V("a")>>), Set(V("x"), V("i"))>>),
      <<"if", <<<<V("g"), <<Out(<<N(1)>>)>>>>, <<Bin("<", V("a"), N(2)), <<Out(<<N(2)>>)>>>>,
                <<Bin("==", V("a"), N(3)), <<Out(<<N(3)>>)>>>>>>, <<Out(<<N(4)>>)>>>>, Give(<<>>)>>
Inner(e) == <<"paren", e>>
Failing ==
    {<<Out(<<N(1)>>), Set(V("x"), e), Out(<<N(2)>>)>> :
        e \in {Bin("+", N(1), V("g")), Bin("<", V("f"), N(1)), <<"un", "-", V("g")>>, <<"un", "#", V("g")>>,
               Bin("..", S("u"), V("g")), Index(V("g"), N(1)), CallOf(V("g"), <<>>), Method(V("g"), "m", <<>>),
               CallOf(Inner(Fn(<<>>, <<Give(<<CallOf(Inner(N(1)), <<>>)>>)>>)), <<>>)}}
    \cup {<<<<"for", "i", <<N(1), V("g")>>, <<>>>>>>, <<Set(Index(V("g"), N(1)), N(1))>>,
          <<Local("t", TableOf(<<>>)), Set(Index(V("t"), V("g")), N(1))>>,
          <<<<"forin", <<"i">>, <<V("g")>>, <<>>>>>>}
Others == {Legal(b) : b \in {Sharing, TailCalls, Objects, Texts, Scopes} \cup Constructors \cup Numbers \cup Failing}

(* --------------------------- texts that are refused ---------------------- *)
(* Nine locals, four upvalues, more nesting or more registers than there are *)
(* is too much; one less is a program.                                       *)
Letters == <<"m", "n", "o", "p", "q", "u", "v", "w", "x">>
RECURSIVE Negated(_)
Negated(n) == IF n = 0 THEN V("a") ELSE Not(Negated(n - 1))
Variables(n) == SubSeq(Letters, 1, n)
Captures(n) == <<Local0(Variables(n)), Set(V("a"), Fn(<<>>, <<Out([i \in 1..n |-> V(Letters[i])])>>)),
                 CallOf(V("a"), <<>>)>>
Pushed(n) == <<Out([i \in 1..n |-> N(i)])>>
Large(more) == {<<Local0(Variables(8 + more))>>, Captures(3 + more), <<Out(<<Negated(18 + more)>>)>>, Pushed(28 + more)}
Refusals ==
    {Legal(b) : b \in Large(0)} \cup {Refused(b) : b \in Large(1)}
    \cup {Refused(b) : b \in
        {<<Break>>, <<Local("h", Fn(<<>>, <<Give(<<Dots>>)>>))>>,
         <<<<"while", <<"true">>, <<Local("h", Fn(<<>>, <<Break>>))>>>>>>,
         <<Out(<<N(1)>>), <<"set", <<Out(<<>>)>>, <<N(1)>>>>>>, <<<<"if", <<<<V("a"), <<Give(<<>>), Out(<<>>)>>>>>>, <<>>>>>>}}
    \cup UNION {Beginnings(s) : s \in
        {Loop("i", 1, 2, <<Out(<<V("i")>>)>>), <<"repeat", <<Break>>, V("a")>>,
         <<"defmethod", V("t"), "m", Fn(<<"p">>, <<Give(<<V("p")>>)>>)>>,
         <<"if", <<<<V("a"), <<>>>>, <<V("b"), <<Break>>>>>>, <<Give(<<>>)>>>>}}

AllPrograms == Expressions \cup Nested \cup Assignments \cup Calls \cup Loopings \cup Others \cup Refusals
=============================================================================
