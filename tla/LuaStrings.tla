---------------------------- MODULE LuaStrings -----------------------------
(* Functions of the string and the table library, as calls: find, match and  *)
(* sub end at once; each call of the iterator of gmatch, and each turn of the*)
(* loops of gsub and concat, which build their result in a buffer, is a step.*)
(*   call: the function and its arguments.  place: where gsub is in the text,*)
(*   the position gmatch keeps, the index of concat.  count: substitutions.  *)
(*   buffer: the luaL_Buffer.  results: what is returned, or the error.      *)
(* An action takes the matcher as its argument, the operator ??: TLC keeps   *)
(* statistics for every chain of calls below an action it can follow, and    *)
(* those of Match are too many.                                              *)
EXTENDS LuaPattern, LuaBuffer

CONSTANTS Calls,       \* a sequence of sets of calls
          Item         \* of PatternMeaning

Meaning == INSTANCE PatternMeaning WITH MostCaptures <- MaxCaptures

VARIABLES call, place, count, buffer, results, status
stringVars == <<call, place, count, buffer, results, status>>

Running(op) == status = "running" /\ call.op = op
Returns(values) == results' = values /\ status' = "returned" /\ UNCHANGED <<call, place, count>>
Fails(message) == /\ results' = <<[error |-> message]>> /\ status' = "raised"
                  /\ UNCHANGED <<call, place, count, buffer>>
\* what is pushed on the stack, unless one of the values is an error
Pushes(values) ==
    LET wrong == SelectSeq(values, IsError)
    IN IF wrong # <<>> THEN Fails(wrong[1].error) ELSE Returns(values) /\ UNCHANGED buffer

Anchored == call.pat # <<>> /\ Head(call.pat) = "^" /\ call.op # "gmatch"
PatternStart == IF Anchored THEN 2 ELSE 1
Fresh == MatchState(call.src, call.pat)
\* s ?? p: how a match at s of the pattern from its place p on ends
MatchAt(s, p) == Match(Fresh, s, p)

\* posrelat: a position from the end is negative
PosRelat(pos, len) == LET p == IF pos < 0 THEN pos + len + 1 ELSE pos
                      IN IF p >= 0 THEN p ELSE 0

(* ----------------------------- find and match ---------------------------- *)
\* the place the search starts at
InitOf(c) == LET l == Len(c.src)
                 init == PosRelat(c.init, l) - 1
             IN (IF init < 0 THEN 0 ELSE IF init > l THEN l ELSE init) + 1

\* the first place from s1 on, or s1 only, where the pattern does not fail; Null: none
Search(s1, _ ?? _) ==
    LET starts == s1..(IF Anchored THEN s1 ELSE SrcEnd(Fresh))
        hits == {s \in starts : ~Failed(s ?? PatternStart)}
    IN IF hits = {} THEN Null ELSE CHOOSE s \in hits : \A t \in hits : s <= t

Plain == call.op = "find" /\ (call.plain \/ \A i \in DOMAIN call.pat : call.pat[i] \notin Specials)

Find(_ ?? _) ==
    LET s1 == InitOf(call)
        s2 == IF Plain THEN MemFind(call.src, s1, call.pat) ELSE Search(s1, ??)
        e == s2 ?? PatternStart
    IN /\ Running("find")
       /\ IF s2 = Null THEN Pushes(<<[nil |-> 0]>>)
          ELSE IF Plain THEN Pushes(<<Num(s2), Num(s2 + Len(call.pat) - 1)>>)
          ELSE IF e.at = Null THEN Fails(e.error)
          ELSE Pushes(<<Num(s2), Num(e.at - 1)>> \o Captures(e.ms, 1, 1, FALSE))

MatchOnce(_ ?? _) ==
    LET s1 == Search(InitOf(call), ??)
        e == s1 ?? PatternStart
    IN /\ Running("match")
       /\ IF s1 = Null THEN Pushes(<<[nil |-> 0]>>)
          ELSE IF e.at = Null THEN Fails(e.error)
          ELSE Pushes(Captures(e.ms, s1, e.at, TRUE))

(* ---------------------------------- gmatch ------------------------------- *)
\* gmatch_aux: place is the number of characters behind the next search
GMatchAux(_ ?? _) ==
    LET s == IF place > Len(call.src) THEN Null ELSE Search(place + 1, ??)
        e == s ?? 1
        values == Captures(e.ms, s, e.at, TRUE)
        wrong == SelectSeq(values, IsError)
    IN /\ Running("gmatch")
       /\ IF s = Null THEN Returns(results) /\ UNCHANGED buffer
          ELSE IF e.at = Null \/ wrong # <<>>
          THEN /\ results' = Append(results, IF e.at = Null THEN [error |-> e.error] ELSE wrong[1])
               /\ status' = "raised" /\ UNCHANGED <<call, place, count, buffer>>
          ELSE /\ place' = IF e.at = s THEN e.at ELSE e.at - 1
               /\ results' = results \o values
               /\ UNCHANGED <<call, count, buffer, status>>

(* ----------------------------------- gsub -------------------------------- *)
\* lua_tolstring, of a string or a position
Text(value) == IF DOMAIN value = {"number"} THEN <<Digits[value.number + 1]>> ELSE value.string

\* add_s: the replacement text from character i on, with its escapes replaced;
\* what cannot be replaced ends it
RECURSIVE AddS(_, _, _, _, _)
AddS(ms, B, s, e, i) ==
    LET news == call.repl.text
        c == Chr(news, i + 1)
        value == OneCapture(ms, Digit(c) - 1, s, e)
    IN IF i > Len(news) THEN [buffer |-> B, error |-> ""]
       ELSE IF news[i] # "%" THEN AddS(ms, AddChar(B, news[i]), s, e, i + 1)
       ELSE IF ~IsDigit(c) THEN AddS(ms, AddChar(B, c), s, e, i + 2)
       ELSE IF c = "0" THEN AddS(ms, AddString(B, SubSeq(ms.src, s, e - 1)), s, e, i + 2)
       ELSE IF IsError(value) THEN [buffer |-> B, error |-> value.error]
       ELSE AddS(ms, AddValue(Push(B, Text(value))), s, e, i + 2)

\* add_value: what replaces the match from s to e goes to the buffer
AddReplacement(ms, s, e) ==
    LET values == IF call.repl.kind = "table" THEN <<OneCapture(ms, 0, s, e)>> ELSE Captures(ms, s, e, TRUE)
        wrong == SelectSeq(values, IsError)
        answer == Meaning!Answer(call.repl, values)
        kept == SubSeq(ms.src, s, e - 1)
    IN CASE call.repl.kind = "string" -> AddS(ms, buffer, s, e, 1)
         [] call.repl.kind # "string" /\ wrong # <<>> -> [buffer |-> buffer, error |-> wrong[1].error]
         [] OTHER -> IF DOMAIN answer = {"table"} THEN [buffer |-> buffer, error |-> "invalid replacement value"]
                     ELSE [buffer |-> AddValue(Push(buffer, IF DOMAIN answer = {"nil"} THEN kept ELSE Text(answer))),
                           error |-> ""]

\* One turn of the loop: a match at this place is replaced, and skipped if it is
\* not empty; otherwise a character is copied.  last: no turn follows.
Substitute(_ ?? _) ==
    LET e == place ?? PatternStart
        added == AddReplacement(e.ms, place, e.at)
        found == e.at # Null
        B == IF found THEN added.buffer ELSE buffer
        skips == found /\ e.at > place
        copies == ~skips /\ place <= Len(call.src)
        next == IF skips THEN e.at ELSE IF copies THEN place + 1 ELSE place
        copied == IF copies THEN AddChar(B, call.src[place]) ELSE B
        last == Anchored \/ ~(skips \/ copies)
        rest == AddString(copied, SubSeq(call.src, next, Len(call.src)))
    IN /\ Running("gsub") /\ count < call.max
       /\ IF e.error # "" THEN Fails(e.error)
          ELSE IF found /\ added.error # "" THEN Fails(added.error)
          ELSE /\ place' = next
               /\ count' = IF found THEN count + 1 ELSE count
               /\ IF last THEN /\ buffer' = PushResult(rest)
                               /\ results' = <<Str(Top(PushResult(rest))), Num(count')>>
                               /\ status' = "returned"
                          ELSE buffer' = copied /\ UNCHANGED <<results, status>>
               /\ UNCHANGED call
\* no substitution is left to make: the rest of the text is copied
EnoughSubstituted ==
    LET done == PushResult(AddString(buffer, SubSeq(call.src, place, Len(call.src))))
    IN /\ Running("gsub") /\ count >= call.max
       /\ Returns(<<Str(Top(done)), Num(count)>>)
       /\ buffer' = done

(* ------------------------------ sub and concat --------------------------- *)
Sub == LET l == Len(call.src)
           start == PosRelat(call.init, l)
           end == PosRelat(call.last, l)
       IN Running("sub") /\ Pushes(<<Str(SubSeq(call.src, IF start < 1 THEN 1 ELSE start,
                                                IF end > l THEN l ELSE end))>>)

\* tconcat: one value of the list, and a separator if it is not the last
AddField ==
    LET value == call.list[place]
        added == AddValue(Push(buffer, Text(value)))
    IN /\ Running("concat") /\ place <= Len(call.list)
       /\ IF DOMAIN value \notin {{"string"}, {"number"}} THEN Fails("invalid value")
          ELSE /\ place' = place + 1
               /\ buffer' = IF place < Len(call.list) THEN AddString(added, call.sep) ELSE added
               /\ UNCHANGED <<call, count, results, status>>
EndConcat == /\ Running("concat") /\ place > Len(call.list)
             /\ Returns(<<Str(Top(PushResult(buffer)))>>)
             /\ buffer' = PushResult(buffer)

StringsInit == /\ \E c \in DOMAIN Calls : call \in Calls[c]
               /\ place = IF call.op = "gmatch" THEN 0 ELSE 1
               /\ count = 0 /\ buffer = BuffInit /\ results = <<>> /\ status = "running"
StringsIdle == /\ call = [op |-> "none"] /\ place = 0 /\ count = 0
               /\ buffer = BuffInit /\ results = <<>> /\ status = "idle"

StringsNext == \/ Find(MatchAt) \/ MatchOnce(MatchAt) \/ GMatchAux(MatchAt)
               \/ Substitute(MatchAt) \/ EnoughSubstituted
               \/ Sub \/ AddField \/ EndConcat

(* ------------------------------- properties ------------------------------ *)
\* SPECIALS lacks ")": find takes it for text where match and gsub raise an error.
OnlyCloses(c) == ")" \in ToSet(c.pat) /\ ToSet(c.pat) \cap Specials = {}
Meant(c) ==
    LET ways == Meaning!AllWays(c)
        gsub == Meaning!GSubMeaning(c, ways, 1, c.max)
        text == c.plain \/ OnlyCloses(c)
    IN CASE c.op = "find" -> IF text THEN Meaning!PlainMeaning(c) ELSE Meaning!FindMeaning(c, ways)
         [] c.op = "match" -> Meaning!MatchMeaning(c, ways)
         [] c.op = "gmatch" -> Meaning!GMatchMeaning(c, ways, 1)
         [] c.op = "gsub" -> IF gsub.error # "" THEN <<[error |-> gsub.error]>>
                             ELSE <<Str(gsub.text), Num(gsub.count)>>
         [] c.op = "sub" -> Meaning!SubMeaning(c)
         [] c.op = "concat" -> Meaning!ConcatMeaning(c)

(* A call of the library returns, or raises, what the manual says of its     *)
(* pattern and its text: backtracking leaves no trace in the captures, no    *)
(* match is found later than it could be, nothing is lost or doubled between *)
(* the array of the buffer and the stack.                                    *)
StringsMean == status \in {"returned", "raised"} => results = Meant(call)

(* Between two additions every buffer is sound, however many strings were    *)
(* added: it never needs more of the stack than it may take.                 *)
BuffersFit == BufferSound(buffer)
=============================================================================
