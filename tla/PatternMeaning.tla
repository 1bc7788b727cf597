-------------------------- MODULE PatternMeaning ---------------------------
(* What the manual of Lua promises of patterns (section 5.4.1), without a    *)
(* search: a pattern is a list of items, an item has the alternatives it     *)
(* stands for in the order in which they are preferred, and a pattern        *)
(* matches at a place in the way its first possible combination says.        *)
(* Captures are values: nothing is ever undone.                              *)
(*   A pattern is a sequence of names of items.  An item: text, its characters in the pattern; kind; and for "set" the   *)
(*   characters that match and rep, the suffix; for "frontier" the set; for  *)
(*   "balance" the two characters; for "back" the number of the capture.     *)
(*   A way to match: at, where it ends; caps, the captures, each from a place*)
(*   to another, to Open, or only a place (Here); error, or "".              *)
EXTENDS Integers, Sequences, SequencesExt, FiniteSetsExt

CONSTANTS MostCaptures,
          Item         \* what the names of the items in a pattern stand for

Open == -1
Here == -2

Way(s, caps) == [at |-> s, caps |-> caps, error |-> ""]
Wrong(message) == [at |-> 0, caps |-> <<>>, error |-> message]

PatternText(items) == FlattenSeq([i \in DOMAIN items |-> Item[items[i]].text])

\* how many characters from s on belong to set
Run(src, s, set) == Max({k \in 0..Len(src) + 1 - s : \A i \in s..s + k - 1 : src[i] \in set})
UpFrom(n, m) == [k \in 1..m - n + 1 |-> n + k - 1]
Counts(rep, run) ==
    CASE rep = "*" -> Reverse(UpFrom(0, run))
      [] rep = "+" -> Reverse(UpFrom(1, run))
      [] rep = "-" -> UpFrom(0, run)
      [] rep = "?" -> IF run = 0 THEN <<0>> ELSE <<1, 0>>
      [] OTHER     -> IF run = 0 THEN <<>> ELSE <<1>>

\* where the text in balance that starts at s ends; 0: nowhere
Surplus(src, s, e, x, y) == Cardinality({i \in s..e : src[i] = x /\ (x # y \/ i = s)})
                            - Cardinality({i \in s + 1..e : src[i] = y})
BalanceEnd(src, s, x, y) ==
    LET ends == {e \in s + 1..Len(src) : Surplus(src, s, e, x, y) = 0}
    IN IF s > Len(src) THEN 0 ELSE IF src[s] # x \/ ends = {} THEN 0 ELSE Min(ends) + 1

\* the end of the text counts as a character that is in no set but complements
Around(src, i) == IF i \in DOMAIN src THEN src[i] ELSE "zero"

LastOpen(caps) == Max({0} \cup {i \in DOMAIN caps : caps[i].to = Open})
\* a capture by its number repeats its text; that of a mere place never matches
Repeats(src, s, cap) ==
    /\ cap.to >= cap.from /\ s + cap.to - cap.from <= Len(src) + 1
    /\ \A i \in 0..cap.to - cap.from - 1 : src[cap.from + i] = src[s + i]

RECURSIVE Ways(_, _, _, _)
Ways(items, src, s, caps) ==
    LET item == Item[Head(items)]
        rest == Tail(items)
        On(t, c) == Ways(rest, src, t, c)
        counts == Counts(item.rep, Run(src, s, item.set))
        last == LastOpen(caps)
        e == BalanceEnd(src, s, item.x, item.y)
        empty == rest # <<>> /\ Item[rest[1]].kind = "close"
    IN IF items = <<>> THEN <<Way(s, caps)>>
       ELSE CASE
           item.kind = "set" -> FlattenSeq([i \in DOMAIN counts |-> On(s + counts[i], caps)])
        [] item.kind = "open" /\ Len(caps) = MostCaptures -> <<Wrong("too many captures")>>
        [] item.kind = "open" /\ Len(caps) < MostCaptures ->
              IF empty THEN Ways(Tail(rest), src, s, Append(caps, [from |-> s, to |-> Here]))
              ELSE On(s, Append(caps, [from |-> s, to |-> Open]))
        [] item.kind = "close" ->
              IF last = 0 THEN <<Wrong("invalid pattern capture")>> ELSE On(s, [caps EXCEPT ![last].to = s])
        [] item.kind = "balance" -> IF e = 0 THEN <<>> ELSE On(e, caps)
        [] item.kind = "frontier" ->
              IF Around(src, s - 1) \notin item.set /\ Around(src, s) \in item.set THEN On(s, caps) ELSE <<>>
        [] item.kind = "back" ->
              IF item.n \notin DOMAIN caps THEN <<Wrong("invalid capture index")>>
              ELSE IF caps[item.n].to = Open THEN <<Wrong("invalid capture index")>>
              ELSE IF Repeats(src, s, caps[item.n]) THEN On(s + caps[item.n].to - caps[item.n].from, caps)
              ELSE <<>>
        [] item.kind = "dollar" ->
              IF rest = <<>> THEN IF s = Len(src) + 1 THEN <<Way(s, caps)>> ELSE <<>>
              ELSE IF Around(src, s) = "$" THEN On(s + 1, caps) ELSE <<>>
        [] item.kind = "malformed" -> <<Wrong(item.message)>>

\* the ways to match at each place of the text: what ways stands for below
AllWays(call) == [s \in 1..Len(call.src) + 1 |-> Ways(call.items, call.src, s, <<>>)]

\* the first place from s on where the pattern has a way to match; 0: none
Start(call, ways, s) ==
    LET places == {t \in s..(IF call.anchor THEN s ELSE Len(call.src) + 1) : ways[t] # <<>>}
    IN IF s > Len(call.src) + 1 \/ places = {} THEN 0 ELSE Min(places)

Failure(message) == <<[error |-> message]>>
Value(call, s, way, i) ==
    LET cap == way.caps[i] IN
    IF i \notin DOMAIN way.caps
    THEN IF i = 1 THEN [string |-> SubSeq(call.src, s, way.at - 1)] ELSE [error |-> "invalid capture index"]
    ELSE CASE cap.to = Open -> [error |-> "unfinished capture"]
           [] cap.to = Here -> [number |-> cap.from]
           [] OTHER -> [string |-> SubSeq(call.src, cap.from, cap.to - 1)]
Wrongs(values) == {i \in DOMAIN values : DOMAIN values[i] = {"error"}}
\* all captures of a match, the whole match if it has none and it is wanted, or what is wrong
Values(call, ways, s, whole) ==
    LET way == ways[s][1]
        values == [i \in 1..(IF way.caps = <<>> /\ whole THEN 1 ELSE Len(way.caps)) |-> Value(call, s, way, i)]
    IN IF way.error # "" THEN Failure(way.error)
       ELSE IF Wrongs(values) # {} THEN <<values[Min(Wrongs(values))]>> ELSE values
Failing(values) == Wrongs(values) # {}

(* ------------------------- find, match and gmatch ------------------------ *)
\* the place a position argument means: from the end if it is negative
FirstPlace(call) ==
    LET l == Len(call.src)
        i == IF call.init >= 0 THEN call.init ELSE l + 1 + call.init
    IN IF i < 1 THEN 1 ELSE IF i > l THEN l + 1 ELSE i

FindMeaning(call, ways) ==
    LET s == Start(call, ways, FirstPlace(call))
        values == Values(call, ways, s, FALSE)
    IN IF s = 0 THEN <<[nil |-> 0]>>
       ELSE IF Failing(values) THEN values
       ELSE <<[number |-> s], [number |-> ways[s][1].at - 1]>> \o values
MatchMeaning(call, ways) ==
    LET s == Start(call, ways, FirstPlace(call)) IN IF s = 0 THEN <<[nil |-> 0]>> ELSE Values(call, ways, s, TRUE)

\* all matches from left to right; after an empty one the search moves on by one
RECURSIVE GMatchMeaning(_, _, _)
GMatchMeaning(call, ways, from) ==
    LET s == Start(call, ways, from)
        values == Values(call, ways, s, TRUE)
        e == ways[s][1].at
    IN IF s = 0 THEN <<>>
       ELSE IF Failing(values) THEN values
       ELSE values \o GMatchMeaning(call, ways, IF e = s THEN e + 1 ELSE e)

\* a search that takes the pattern as it is
PlainMeaning(call) ==
    LET pat == call.pat
        places == {s \in FirstPlace(call)..Len(call.src) + 1 - Len(pat) :
                      SubSeq(call.src, s, s + Len(pat) - 1) = pat}
    IN IF places = {} THEN <<[nil |-> 0]>> ELSE <<[number |-> Min(places)], [number |-> Min(places) + Len(pat) - 1]>>

(* -------------------------------- gsub ----------------------------------- *)
Written(value) == IF DOMAIN value = {"number"} THEN <<ToString(value.number)>> ELSE value.string
\* a piece of a replacement text stands for characters, the match, or a capture
PieceMeaning(call, s, way, piece) ==
    CASE piece.capture = -1 -> [string |-> piece.means]
      [] piece.capture = 0 -> [string |-> SubSeq(call.src, s, way.at - 1)]
      [] OTHER -> Value(call, s, way, piece.capture)
\* what a function or a table given for the replacement answers to the captures
Answer(repl, values) ==
    CASE repl.answers = "first" -> values[1]
      [] repl.answers = "twice" /\ DOMAIN values[1] = {"string"} ->
            [string |-> values[1].string \o values[1].string]
      [] repl.answers = "table" -> [table |-> 0]
      [] repl.answers = "some" /\ values[1] \in {[string |-> <<"a">>], [number |-> 1]} -> [number |-> 2]
      [] OTHER -> [nil |-> 0]
\* what the match at s is replaced by
ReplacedBy(call, ways, s) ==
    LET way == ways[s][1]
        pieces == [i \in DOMAIN call.repl.pieces |-> PieceMeaning(call, s, way, call.repl.pieces[i])]
        values == IF call.repl.kind = "table" THEN <<Value(call, s, way, 1)>> ELSE Values(call, ways, s, TRUE)
        answer == Answer(call.repl, values)
    IN IF call.repl.kind = "string"
       THEN IF Failing(pieces) THEN pieces[Min(Wrongs(pieces))]
            ELSE [string |-> FlattenSeq([i \in DOMAIN pieces |-> Written(pieces[i])])]
       ELSE IF Failing(values) THEN values[Min(Wrongs(values))]
       ELSE CASE DOMAIN answer = {"nil"} -> [string |-> SubSeq(call.src, s, way.at - 1)]
              [] DOMAIN answer = {"table"} -> [error |-> "invalid replacement value"]
              [] OTHER -> [string |-> Written(answer)]

\* the text from s on with its first n matches replaced, and how many there were
RECURSIVE GSubMeaning(_, _, _, _)
GSubMeaning(call, ways, s, n) ==
    LET src == call.src
        anchored == call.anchor /\ s > 1
        m == IF n = 0 \/ anchored THEN 0 ELSE Start(call, ways, s)
        way == ways[m][1]
        by == ReplacedBy(call, ways, m)
        skipped == IF way.at > m \/ m > Len(src) THEN <<>> ELSE <<src[m]>>
        next == IF way.at > m THEN way.at ELSE m + 1
        rest == IF next > Len(src) + 1 THEN [text |-> <<>>, count |-> 0, error |-> ""]
                ELSE GSubMeaning(call, ways, next, n - 1)
    IN IF m = 0 THEN [text |-> SubSeq(src, s, Len(src)), count |-> 0, error |-> ""]
       ELSE IF way.error # "" THEN [text |-> <<>>, count |-> 0, error |-> way.error]
       ELSE IF DOMAIN by = {"error"} THEN [text |-> <<>>, count |-> 0, error |-> by.error]
       ELSE [text |-> SubSeq(src, s, m - 1) \o by.string \o skipped \o rest.text,
             count |-> 1 + rest.count, error |-> rest.error]

(* ---------------------------- sub and concat ----------------------------- *)
\* the characters from one place to another; negative ones count from the end
SubMeaning(call) ==
    LET From(i) == IF i < 0 THEN Len(call.src) + 1 + i ELSE i
        Kept(k) == IF From(call.init) <= k /\ k <= From(call.last) THEN <<call.src[k]>> ELSE <<>>
    IN <<[string |-> FlattenSeq([k \in DOMAIN call.src |-> Kept(k)])]>>
ConcatMeaning(call) ==
    LET Separated(i) == IF i = 1 THEN Written(call.list[1]) ELSE call.sep \o Written(call.list[i])
        wrong == {i \in DOMAIN call.list : DOMAIN call.list[i] = {"table"}}
    IN IF wrong # {} THEN Failure("invalid value")
       ELSE <<[string |-> FlattenSeq([i \in DOMAIN call.list |-> Separated(i)])]>>
=============================================================================
