---------------------------- MODULE MCLuaStrings ---------------------------
(* Calls of the string library and of concat: patterns of up to three items  *)
(* from every kind of item, on short texts; replacements; lists of pieces    *)
(* that overflow the buffer.                                                 *)
EXTENDS LuaStrings, TLC

(* -------------------------------- patterns ------------------------------- *)
All == ToSet(Order) \ {Zero}
SetItem(text, set, rep) == [kind |-> "set", text |-> text \o (IF rep = "" THEN <<>> ELSE <<rep>>), set |-> set, rep |-> rep]
A(rep) == SetItem(<<"a">>, {"a"}, rep)
Dot(rep) == SetItem(<<".">>, All, rep)
Back(n) == [kind |-> "back", text |-> <<"%", Digits[n + 1]>>, n |-> n]
FrontierItem(text, set) == [kind |-> "frontier", text |-> <<"%", "f">> \o text, set |-> set]
Malformed(text, message) == [kind |-> "malformed", text |-> text, message |-> message]
Letters == Lower \cup Upper
ItemTable ==
    ("a" :> A("")) @@ ("a*" :> A("*")) @@ ("a-" :> A("-")) @@ ("a?" :> A("?")) @@
    ("." :> Dot("")) @@ (".+" :> Dot("+")) @@ (".-" :> Dot("-")) @@ ("b" :> SetItem(<<"b">>, {"b"}, "")) @@
    ("(" :> [kind |-> "open", text |-> <<"(">>]) @@ (")" :> [kind |-> "close", text |-> <<")">>]) @@
    ("%1" :> Back(1)) @@ ("%2" :> Back(2)) @@ ("$" :> [kind |-> "dollar", text |-> <<"$">>]) @@
    ("%bab" :> [kind |-> "balance", text |-> <<"%", "b", "a", "b">>, x |-> "a", y |-> "b"]) @@
    ("%f[a]" :> FrontierItem(<<"[", "a", "]">>, {"a"})) @@
    ("%f[^a]" :> FrontierItem(<<"[", "^", "a", "]">>, (All \ {"a"}) \cup {Zero})) @@
    \* sets that are easily misread
    ("[^b]*" :> SetItem(<<"[", "^", "b", "]">>, All \ {"b"}, "*")) @@
    ("[]a]" :> SetItem(<<"[", "]", "a", "]">>, {"]", "a"}, "")) @@
    ("[^]b]+" :> SetItem(<<"[", "^", "]", "b", "]">>, All \ {"]", "b"}, "+")) @@
    ("[%]b]*" :> SetItem(<<"[", "%", "]", "b", "]">>, {"]", "b"}, "*")) @@
    ("[a-]-" :> SetItem(<<"[", "a", "-", "]">>, {"a", "-"}, "-")) @@
    ("[a-c]+" :> SetItem(<<"[", "a", "-", "c", "]">>, {"a", "b", "c"}, "+")) @@
    ("[%A-c]" :> SetItem(<<"[", "%", "A", "-", "c", "]">>, (All \ Letters) \cup {"-", "c"}, "")) @@
    ("%A*" :> SetItem(<<"%", "A">>, All \ Letters, "*")) @@ ("%x?" :> SetItem(<<"%", "x">>, Class("x"), "?")) @@
    ("%(" :> SetItem(<<"%", "(">>, {"("}, "")) @@
    \* and texts that are no patterns
    ("%" :> Malformed(<<"%">>, "malformed pattern")) @@ ("[a" :> Malformed(<<"[", "a">>, "malformed pattern")) @@
    ("[]" :> Malformed(<<"[", "]">>, "malformed pattern")) @@
    ("[a%" :> Malformed(<<"[", "a", "%">>, "malformed pattern")) @@
    ("%ba" :> Malformed(<<"%", "b", "a">>, "unbalanced pattern")) @@
    ("%fa" :> Malformed(<<"%", "f", "a">>, "missing ["))
Items == {"a", "a*", "a-", "a?", ".", ".+", ".-", "(", ")", "%1", "%2", "%bab", "%f[a]", "%f[^a]", "$"}
Sets == {"[^b]*", "[]a]", "[^]b]+", "[%]b]*", "[a-]-", "[a-c]+", "[%A-c]", "%A*", "%x?", "%("}
Wrong == {"%", "[a", "[]", "[a%", "%ba", "%fa"}
Lists(set, n) == UNION {[1..k -> set] : k \in 0..n}
Endings == {Append(items, last) : items \in Lists({"a*", ".", "(", ")"}, 2), last \in Sets \cup Wrong}
           \cup {<<last, item>> : last \in Sets, item \in {"a*", "%1", "$"}}

Texts == {<<>>, <<"a">>, <<"a", "b">>, <<"b", "a", "a">>, <<"a", "a", "b", "b">>, <<"a", "b", "a", "b">>}
Pattern(op, src, items, anchor) ==
    [op |-> op, src |-> src, items |-> items, anchor |-> anchor, init |-> 1, plain |-> FALSE,
     pat |-> (IF anchor THEN <<"^">> ELSE <<>>) \o Meaning!PatternText(items)]

Captured(items) == <<"(">> \o items \o <<")">>
Matching == {Pattern("match", src, items, FALSE) : src \in Texts, items \in Lists(Items, 3)}
CapturingTwice ==
    {Pattern("match", src, Captured(<<x, y>>) \o <<z>>, TRUE) :
            src \in Texts, x \in Items, y \in {"a*", "a?", ".-", "("}, z \in {")", "%1", "%2", "a", "$"}}
MatchingSets ==
    {Pattern("match", src, items, anchor) : src \in Texts \cup {<<"]", "b", "-">>, <<"1", "(", "c">>},
                                           items \in Endings, anchor \in BOOLEAN}
Inits == {-5, -2, -1, 0, 1, 2, 3, 5}
Finding ==
    {[Pattern("find", src, items, anchor) EXCEPT !.init = init, !.plain = plain] :
        src \in Texts, items \in Lists({"a", "b", "(", ")"}, 3) \cup Lists(Items, 1),
        anchor \in BOOLEAN, init \in Inits, plain \in BOOLEAN}
Iterating == {Pattern("gmatch", src, items, FALSE) : src \in Texts, items \in Lists(Items, 2) \cup Endings}

(* ----------------------- replacements, lists and parts ------------------- *)
Piece(text, capture, means) == [text |-> text, capture |-> capture, means |-> means]
Letter == Piece(<<"x">>, -1, <<"x">>)
Percent == Piece(<<"%", "%">>, -1, <<"%">>)
Capture(n) == Piece(<<"%", Digits[n + 1]>>, n, <<>>)
LastEscape == Piece(<<"%">>, -1, <<Zero>>)
Text1(pieces) == [kind |-> "string", pieces |-> pieces, text |-> FlattenSeq([i \in DOMAIN pieces |-> pieces[i].text]), answers |-> ""]
Replacements ==
    {Text1(p) : p \in Lists({Letter, Capture(0), Capture(1), Capture(2)}, 2) \cup
                {<<Capture(1), Letter, Capture(1), Capture(0)>>, <<Letter, Percent>>, <<Letter, LastEscape>>}}
    \cup {[kind |-> kind, pieces |-> <<>>, text |-> <<>>, answers |-> a] :
            kind \in {"function", "table"}, a \in {"first", "twice", "some", "table", "nothing"}}
Replacing ==
    {Pattern("gsub", src, items, anchor) @@ [repl |-> repl, max |-> max] :
        src \in Texts, anchor \in BOOLEAN, max \in {0, 1, 2, 9}, repl \in Replacements,
        items \in {<<>>, <<"a">>, <<"a*">>, <<".-", ")">>, <<"(", ".">>, <<"(", ")", "a">>, Captured(<<"a?">>),
                   <<"$">>, <<"(", ")", "(", ".+", ")">>, Captured(<<".">>) \o <<".-">> \o Captured(<<"a*">>)}}
Cutting == {[op |-> "sub", src |-> src, init |-> i, last |-> k, pat |-> <<>>] : src \in Texts, i, k \in Inits}
Pieces == {Str([i \in 1..n |-> "a"]) : n \in 0..4} \cup {Str(<<"b", "c">>), Num(2)}
Joining ==
    {[op |-> "concat", list |-> list, sep |-> sep, src |-> <<>>, pat |-> <<>>] :
        list \in Lists(Pieces, 4) \cup {<<[table |-> 0]>>, <<Num(1), [table |-> 0], Num(2)>>}
                 \cup [1..6 -> {Str(<<"a">>), Str(<<"b", "b", "b", "b">>)}]
                 \cup {[i \in 1..8 |-> Str([k \in 1..9 - i |-> "a"])]}, sep \in {<<>>, <<",">>}}
AllCalls == <<Matching, CapturingTwice, MatchingSets, Finding, Iterating, Replacing, Cutting, Joining>>
=============================================================================
