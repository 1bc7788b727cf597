---------------------------- MODULE LuaPattern -----------------------------
(* The pattern matcher of lstrlib.c: a recursive search that walks the text  *)
(* of the pattern character by character and keeps the captures in one       *)
(* MatchState, changed on the way down and repaired on the way back.  What   *)
(* a pattern means is in PatternMeaning.                                     *)
(*   A MatchState: src and pat, the texts; level and capture, the captures.  *)
(*   An outcome: at, the end of the match (Null: none); error, the message   *)
(*   of an error raised ("": none); ms, the MatchState it leaves.            *)
(* Places in a text count from 1; the place after the last one holds Zero,   *)
(* the end of a C string, and nothing behind it is ever read: TLC would stop.*)
EXTENDS Integers, Sequences, SequencesExt

CONSTANT MaxCaptures     \* LUA_MAXCAPTURES

ASSUME CapturesAssumption == MaxCaptures \in Nat \ {0}

Zero == "zero"
Null == 0
Unfinished == -1
Position == -2

\* the characters the instances use, in the order of their codes
Order == <<Zero, " ", "$", "%", "(", ")", "*", "+", "-", ".", "0", "1", "2", "3", "9",
           "?", "A", "B", "[", "]", "^", "a", "b", "c", "f", "x">>
Code == [c \in ToSet(Order) |-> CHOOSE i \in DOMAIN Order : Order[i] = c]
Digits == <<"0", "1", "2", "3">>
IsDigit(c) == c \in ToSet(Digits) \cup {"9"}
Digit(c) == IF c = "9" THEN 9 ELSE (CHOOSE i \in DOMAIN Digits : Digits[i] = c) - 1
Specials == {"^", "$", "*", "+", "?", ".", "(", "[", "%", "-"}

Chr(text, i) == IF i = Len(text) + 1 THEN Zero ELSE text[i]

MatchState(src, pat) ==
    [src |-> src, pat |-> pat, level |-> 0,
     capture |-> [l \in 0..MaxCaptures - 1 |-> [init |-> 0, len |-> 0]]]

Found(ms, at) == [at |-> at, error |-> "", ms |-> ms]
NotFound(ms) == Found(ms, Null)
Raise(ms, message) == [at |-> Null, error |-> message, ms |-> ms]
Failed(r) == r.at = Null /\ r.error = ""

P(ms, p) == Chr(ms.pat, p)
S(ms, s) == Chr(ms.src, s)
SrcEnd(ms) == Len(ms.src) + 1

(* -------------------- classes of single characters ----------------------- *)
Lower == {"a", "b", "c", "f", "x"}
Upper == {"A", "B"}
Punct == {"$", "%", "(", ")", "*", "+", "-", ".", "?", "[", "]", "^"}
Class(cl) == CASE cl \in {"a", "A"} -> Lower \cup Upper
               [] cl \in {"x"} -> {"a", "b", "c", "f", "A", "B"} \cup {c \in ToSet(Order) : IsDigit(c)}
MatchClass(c, cl) ==
    CASE cl \in {"a", "x"} -> c \in Class(cl)
      [] cl = "A" -> c \notin Class(cl)
      [] OTHER -> cl = c

\* the place after the ] of a set, searched from q; Null: there is none
RECURSIVE SetEnd(_, _)
SetEnd(ms, q) ==
    LET next == IF P(ms, q) = "%" /\ P(ms, q + 1) # Zero THEN q + 2 ELSE q + 1
    IN IF P(ms, q) = Zero THEN Null
       ELSE IF P(ms, next) = "]" THEN next + 1 ELSE SetEnd(ms, next)
ClassEnd(ms, p) ==
    CASE P(ms, p) = "%" -> IF P(ms, p + 1) = Zero THEN Null ELSE p + 2
      [] P(ms, p) = "[" -> SetEnd(ms, IF P(ms, p + 1) = "^" THEN p + 2 ELSE p + 1)
      [] OTHER -> p + 1

\* whether an element of the set that comes after place p and ends before ec has c
RECURSIVE InSet(_, _, _, _)
InSet(ms, c, p, ec) ==
    LET q == p + 1 IN
    IF q >= ec THEN FALSE
    ELSE IF P(ms, q) = "%" THEN MatchClass(c, P(ms, q + 1)) \/ InSet(ms, c, q + 1, ec)
    ELSE IF P(ms, q + 1) = "-" /\ q + 2 < ec
    THEN (Code[P(ms, q)] <= Code[c] /\ Code[c] <= Code[P(ms, q + 2)]) \/ InSet(ms, c, q + 2, ec)
    ELSE P(ms, q) = c \/ InSet(ms, c, q, ec)
MatchBracketClass(ms, c, p, ec) ==
    IF P(ms, p + 1) = "^" THEN ~InSet(ms, c, p + 1, ec) ELSE InSet(ms, c, p, ec)

SingleMatch(ms, c, p, ep) ==
    CASE P(ms, p) = "." -> TRUE
      [] P(ms, p) = "%" -> MatchClass(c, P(ms, p + 1))
      [] P(ms, p) = "[" -> MatchBracketClass(ms, c, p, ep - 1)
      [] OTHER -> P(ms, p) = c
SingleAt(ms, s, p, ep) == s < SrcEnd(ms) /\ SingleMatch(ms, S(ms, s), p, ep)

(* -------------------------------- captures ------------------------------- *)
\* the capture a digit of the pattern names; Raised: there is none yet
Raised == -1
CheckCapture(ms, c) ==
    LET l == Digit(c) - 1
    IN IF l < 0 \/ l >= ms.level THEN Raised
       ELSE IF ms.capture[l].len = Unfinished THEN Raised ELSE l
CaptureToClose(ms) ==
    LET open == {l \in 0..ms.level - 1 : ms.capture[l].len = Unfinished}
    IN IF open = {} THEN Raised ELSE CHOOSE l \in open : \A k \in open : k <= l

MatchCapture(ms, s, c) ==
    LET l == CheckCapture(ms, c)
        len == ms.capture[l].len
        \* the length of a position capture, as size_t, is longer than any text
        same == /\ len >= 0 /\ SrcEnd(ms) - s >= len
                /\ \A i \in 0..len - 1 : S(ms, ms.capture[l].init + i) = S(ms, s + i)
    IN IF l = Raised THEN Raise(ms, "invalid capture index")
       ELSE IF same THEN Found(ms, s + len) ELSE NotFound(ms)

(* -------------------------------- the search ----------------------------- *)
RECURSIVE Match(_, _, _)

\* The counter of %b: cont opening characters wait for the closing one.
RECURSIVE Balanced(_, _, _, _)
Balanced(ms, s, p, cont) ==
    IF s >= SrcEnd(ms) THEN NotFound(ms)
    ELSE IF S(ms, s) = P(ms, p + 1)
    THEN IF cont = 1 THEN Found(ms, s + 1) ELSE Balanced(ms, s + 1, p, cont - 1)
    ELSE Balanced(ms, s + 1, p, IF S(ms, s) = P(ms, p) THEN cont + 1 ELSE cont)
MatchBalance(ms, s, p) ==
    IF P(ms, p) = Zero THEN Raise(ms, "unbalanced pattern")
    ELSE IF P(ms, p + 1) = Zero THEN Raise(ms, "unbalanced pattern")
    ELSE IF S(ms, s) # P(ms, p) THEN NotFound(ms)
    ELSE Balanced(ms, s + 1, p, 1)

\* the search goes on at place p of the pattern where r ends, unless r failed
Then(r, p) == IF r.at = Null THEN r ELSE Match(r.ms, r.at, p)

RECURSIVE Fewer(_, _, _, _)
Fewer(ms, s, i, ep) ==
    LET r == Match(ms, s + i, ep + 1)
    IN IF Failed(r) /\ i > 0 THEN Fewer(r.ms, s, i - 1, ep) ELSE r
MaxExpand(ms, s, p, ep) ==
    Fewer(ms, s, CHOOSE i \in 0..SrcEnd(ms) - s :
                     /\ \A k \in 0..i - 1 : SingleAt(ms, s + k, p, ep)
                     /\ ~SingleAt(ms, s + i, p, ep), ep)

RECURSIVE MinExpand(_, _, _, _)
MinExpand(ms, s, p, ep) ==
    LET r == Match(ms, s, ep + 1)
    IN IF Failed(r) /\ SingleAt(r.ms, s, p, ep) THEN MinExpand(r.ms, s + 1, p, ep) ELSE r

StartCapture(ms, s, p, what) ==
    LET r == Match([ms EXCEPT !.capture[ms.level] = [init |-> s, len |-> what], !.level = @ + 1], s, p)
    IN IF ms.level >= MaxCaptures THEN Raise(ms, "too many captures")
       ELSE IF Failed(r) THEN NotFound([r.ms EXCEPT !.level = @ - 1]) ELSE r

EndCaptureForGood(ms, s, p) ==       \* faulty: does not open the capture again
    LET l == CaptureToClose(ms)
    IN IF l = Raised THEN Raise(ms, "invalid pattern capture")
       ELSE Match([ms EXCEPT !.capture[l].len = s - ms.capture[l].init], s, p)
EndCapture(ms, s, p) ==
    LET l == CaptureToClose(ms)
        r == Match([ms EXCEPT !.capture[l].len = s - ms.capture[l].init], s, p)
    IN IF l = Raised THEN Raise(ms, "invalid pattern capture")
       ELSE IF Failed(r) THEN NotFound([r.ms EXCEPT !.capture[l].len = Unfinished]) ELSE r

\* a single character, with what may follow it
PatternItem(ms, s, p) ==
    LET ep == ClassEnd(ms, p)
        m == SingleAt(ms, s, p, ep)
        one == Match(ms, s + 1, ep + 1)
    IN IF ep = Null THEN Raise(ms, "malformed pattern")
       ELSE CASE P(ms, ep) = "?" -> IF m /\ ~Failed(one) THEN one
                                    ELSE Match(IF m THEN one.ms ELSE ms, s, ep + 1)
              [] P(ms, ep) = "*" -> MaxExpand(ms, s, p, ep)
              [] P(ms, ep) = "+" -> IF m THEN MaxExpand(ms, s + 1, p, ep) ELSE NotFound(ms)
              [] P(ms, ep) = "-" -> MinExpand(ms, s, p, ep)
              [] OTHER -> IF m THEN Match(ms, s + 1, ep) ELSE NotFound(ms)

Frontier(ms, s, p) ==
    LET ep == ClassEnd(ms, p)
        previous == IF s = 1 THEN Zero ELSE S(ms, s - 1)
    IN IF P(ms, p) # "[" THEN Raise(ms, "missing [")
       ELSE IF ep = Null THEN Raise(ms, "malformed pattern")
       ELSE IF MatchBracketClass(ms, previous, p, ep - 1) \/ ~MatchBracketClass(ms, S(ms, s), p, ep - 1)
       THEN NotFound(ms) ELSE Match(ms, s, ep)

Escape(ms, s, p) ==
    CASE P(ms, p + 1) = "b" -> Then(MatchBalance(ms, s, p + 2), p + 4)
      [] P(ms, p + 1) = "f" -> Frontier(ms, s, p + 2)
      [] IsDigit(P(ms, p + 1)) -> Then(MatchCapture(ms, s, P(ms, p + 1)), p + 2)
      [] OTHER -> PatternItem(ms, s, p)

Match(ms, s, p) ==
    CASE P(ms, p) = "(" -> IF P(ms, p + 1) = ")" THEN StartCapture(ms, s, p + 2, Position)
                           ELSE StartCapture(ms, s, p + 1, Unfinished)
      [] P(ms, p) = ")" -> EndCapture(ms, s, p + 1)
      [] P(ms, p) = "%" -> Escape(ms, s, p)
      [] P(ms, p) = Zero -> Found(ms, s)
      [] P(ms, p) = "$" -> IF P(ms, p + 1) # Zero THEN PatternItem(ms, s, p)
                           ELSE IF s = SrcEnd(ms) THEN Found(ms, s) ELSE NotFound(ms)
      [] OTHER -> PatternItem(ms, s, p)

(* --------------------------- what is found ------------------------------- *)
Str(text) == [string |-> text]
Num(n) == [number |-> n]

\* push_onecapture: capture i, or the whole match from s to e; Raised with a message
OneCapture(ms, i, s, e) ==
    LET c == ms.capture[i]
    IN IF i >= ms.level
       THEN IF i = 0 THEN Str(SubSeq(ms.src, s, e - 1)) ELSE [error |-> "invalid capture index"]
       ELSE IF c.len = Unfinished THEN [error |-> "unfinished capture"]
       ELSE IF c.len = Position THEN Num(c.init)
       ELSE Str(SubSeq(ms.src, c.init, c.init + c.len - 1))
IsError(value) == DOMAIN value = {"error"}

\* push_captures: all captures, or the whole match if there are none and it is wanted
Captures(ms, s, e, whole) ==
    [i \in 1..(IF ms.level = 0 /\ whole THEN 1 ELSE ms.level) |-> OneCapture(ms, i - 1, s, e)]

\* lmemfind: the first place of s2 in the text from s1 on
RECURSIVE MemFind(_, _, _)
MemFind(text, s1, s2) ==
    LET last == Len(text) - Len(s2) + 1
        starts == {s \in s1..last : text[s] = s2[1]}
        init == CHOOSE s \in starts : \A t \in starts : s <= t
    IN IF s2 = <<>> THEN s1
       ELSE IF starts = {} THEN Null
       ELSE IF SubSeq(text, init + 1, init + Len(s2) - 1) = Tail(s2) THEN init
       ELSE MemFind(text, init + 1, s2)
=============================================================================
