----------------------------- MODULE LuaBuffer -----------------------------
(* The string buffer of lauxlib.c: what is added goes to a fixed array, and  *)
(* what overflows it stays behind as strings on the Lua stack of the caller, *)
(* which are joined now and then, the shorter ones first, so that few remain.*)
(* A buffer is a record: p, the text in the array; lvl, the strings it has   *)
(* on the stack; stack, the part of the Lua stack above where it started.    *)
(* A text is a sequence of characters.                                       *)
EXTENDS Naturals, Sequences, SequencesExt

CONSTANTS BufferSize,    \* LUAL_BUFFERSIZE
          Limit          \* LIMIT: levels of the stack a buffer may take

ASSUME BufferAssumption == BufferSize \in Nat \ {0} /\ Limit \in Nat \ {0, 1}

BuffInit == [p |-> <<>>, lvl |-> 0, stack |-> <<>>]

Push(B, value) == [B EXCEPT !.stack = Append(@, value)]
Top(B) == Last(B.stack)

\* lua_concat: one string in the place of the n topmost
ConcatTop(B, n) ==
    LET below == Len(B.stack) - n
    IN [B EXCEPT !.stack = Append(SubSeq(@, 1, below),
                                  FlattenSeq(SubSeq(@, below + 1, Len(@))))]

EmptyBuffer(B) == IF B.p = <<>> THEN B
                  ELSE [Push(B, B.p) EXCEPT !.p = <<>>, !.lvl = @ + 1]

\* The n topmost strings are joined when the next one below is shorter than
\* they are together, or when too many would be left.
JoinsMore(B, n) ==
    /\ n < B.lvl
    /\ \/ B.lvl - n + 1 >= Limit
       \/ Len(Top(ConcatTop(B, n))) > Len(B.stack[Len(B.stack) - n])
AdjustStackByLength(B) ==       \* faulty: joins by length only
    LET toget == CHOOSE n \in 1..B.lvl :
                    /\ n < B.lvl => Len(Top(ConcatTop(B, n))) <= Len(B.stack[Len(B.stack) - n])
                    /\ \A k \in 1..n-1 : Len(Top(ConcatTop(B, k))) > Len(B.stack[Len(B.stack) - k])
    IN IF B.lvl <= 1 THEN B ELSE [ConcatTop(B, toget) EXCEPT !.lvl = @ - toget + 1]
AdjustStack(B) ==
    LET toget == CHOOSE n \in 1..B.lvl : ~JoinsMore(B, n) /\ \A k \in 1..n-1 : JoinsMore(B, k)
    IN IF B.lvl <= 1 THEN B ELSE [ConcatTop(B, toget) EXCEPT !.lvl = @ - toget + 1]

PrepBuffer(B) == IF B.p = <<>> THEN B ELSE AdjustStack(EmptyBuffer(B))

AddChar(B, c) ==
    [IF Len(B.p) < BufferSize THEN B ELSE PrepBuffer(B) EXCEPT !.p = Append(@, c)]
AddString(B, text) == FoldLeft(AddChar, B, text)

\* The value on top of the stack goes to the array if it fits; else it stays,
\* as a level of its own, above the level the array is emptied to.
AddValue(B) ==
    LET text == Top(B)
        below == [B EXCEPT !.stack = Front(@)]
    IN IF Len(text) <= BufferSize - Len(B.p) THEN [below EXCEPT !.p = @ \o text]
       ELSE AdjustStack([Push(EmptyBuffer(below), text) EXCEPT !.lvl = @ + 1])

\* luaL_pushresult: all levels become the one string on the stack
PushResult(B) == LET full == EmptyBuffer(B) IN [ConcatTop(full, full.lvl) EXCEPT !.lvl = 1]

(* Between two additions a buffer has a string for each of its levels and    *)
(* nothing else on the stack, and leaves room in it: the callers ask for     *)
(* none, they rely on the LUA_MINSTACK slots every C function starts with.   *)
BufferSound(B) == /\ Len(B.stack) = B.lvl
                  /\ B.lvl <= 1 \/ B.lvl < Limit
                  /\ Len(B.p) <= BufferSize
=============================================================================
