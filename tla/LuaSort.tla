------------------------------ MODULE LuaSort ------------------------------
(* table.sort of ltablib.c: a quicksort of the places 1..n of a table that   *)
(* asks for each comparison a function of the program, which may answer      *)
(* anything, or raise.  A step is one comparison with all that follows it    *)
(* until the next.  The places next to the array hold None (nil).            *)
(*   arr: the table.  l, u, i, j, pivot: the variables of auxsort; callers:  *)
(*   the ranges its callers go on with.  asks: the comparison it is about to *)
(*   make.  order: how the function compares.                                *)
(* An element is a number; an order has a kind and, but for "any", a rank of *)
(* every element: equal ranks are equal elements that can be told apart.     *)
EXTENDS Integers, Sequences

CONSTANTS Orders,        \* each has kind, rank and the number of elements, n
          None

\* Elements are 1..n, so None is a value of its own.
ASSUME OrdersAssumption ==
    /\ None \notin Int
    /\ \A o \in Orders : /\ o.n \in Nat /\ o.kind \in {"less", "lessequal", "any"}
                         /\ o.kind # "any" => o.rank \in [1..o.n -> Int]

VARIABLES order, arr, l, u, i, j, pivot, callers, asks
sortVars == <<order, arr, l, u, i, j, pivot, callers, asks>>

N == order.n
Exchanged(table, x, y) == [table EXCEPT ![x] = table[y], ![y] = table[x]]
Swapped(x, y) == Exchanged(arr, x, y)

\* What the function may answer to "is x less than y": an operator on nil raises,
\* "any" is an arbitrary function, which may answer for nil, or raise, as well.
Truth(less) == {IF less THEN "less" ELSE "not"}
Answers(x, y) ==
    IF order.kind = "any" THEN {"less", "not", "error"}
    ELSE IF None \in {x, y} THEN {"error"}
    ELSE Truth(order.rank[x] < order.rank[y] \/ (order.kind = "lessequal" /\ order.rank[x] = order.rank[y]))
Less(x, y) == order.rank[x] < order.rank[y]

\* Goes on with the comparison `next', at the places inside and the table given.
Asks(next, table, places) == /\ asks' = next /\ arr' = table
                             /\ i' = places[1] /\ j' = places[2]
Keeps == UNCHANGED <<order, l, u, callers>>

\* the end of a call of auxsort: the caller goes on with the range it left
Return == /\ asks = "return" \/ (asks = "ends" /\ l >= u)
          /\ IF callers = <<>> THEN asks' = "sorted" /\ UNCHANGED <<l, u, callers>>
             ELSE /\ l' = Head(callers)[1] /\ u' = Head(callers)[2] /\ callers' = Tail(callers)
                  /\ asks' = "ends"
          /\ UNCHANGED <<order, arr, i, j, pivot>>

\* an error, of the function or of sort itself: it ends with the table as it is
SortRaises == asks' = "raised" /\ UNCHANGED <<order, arr, l, u, i, j, pivot, callers>>

\* a[u] < a[l]?
CompareEnds ==
    /\ asks = "ends" /\ l < u
    /\ \E answer \in Answers(arr[u], arr[l]) :
         \/ answer = "error" /\ SortRaises
         \/ /\ answer # "error" /\ Keeps /\ UNCHANGED pivot
            /\ Asks(IF u - l = 1 THEN "return" ELSE "low",
                    IF answer = "less" THEN Swapped(l, u) ELSE arr, <<(l + u) \div 2, j>>)

PartitionInPlace(table) ==      \* faulty: leaves the pivot in the middle
    IF u - l = 2 THEN Asks("return", table, <<i, j>>) /\ UNCHANGED pivot
    ELSE /\ pivot' = table[i]
         /\ Asks("up", table, <<l + 1, u - 1>>)
\* The median of the three is in the middle: it becomes the pivot, in a[u-1].
Partition(table) ==
    IF u - l = 2 THEN Asks("return", table, <<i, j>>) /\ UNCHANGED pivot
    ELSE /\ pivot' = table[i]
         /\ Asks("up", Exchanged(table, i, u - 1), <<l + 1, u - 1>>)

\* a[i] < a[l]?
CompareLow ==
    /\ asks = "low"
    /\ \E answer \in Answers(arr[i], arr[l]) :
         \/ answer = "error" /\ SortRaises
         \/ answer = "less" /\ Partition(Swapped(i, l)) /\ Keeps
         \/ answer = "not" /\ Asks("high", arr, <<i, j>>) /\ UNCHANGED pivot /\ Keeps
\* a[u] < a[i]?
CompareHigh ==
    /\ asks = "high"
    /\ \E answer \in Answers(arr[u], arr[i]) :
         \/ answer = "error" /\ SortRaises
         \/ answer # "error" /\ Partition(IF answer = "less" THEN Swapped(i, u) ELSE arr) /\ Keeps

\* a[i] < P?  i goes up until it is not; behind the end the order is invalid
CompareUp ==
    /\ asks = "up"
    /\ \E answer \in Answers(arr[i], pivot) :
         \/ (answer = "error" \/ (answer = "less" /\ i > u)) /\ SortRaises
         \/ answer = "less" /\ i <= u /\ Asks("up", arr, <<i + 1, j>>) /\ UNCHANGED pivot /\ Keeps
         \/ answer = "not" /\ Asks("down", arr, <<i, j - 1>>) /\ UNCHANGED pivot /\ Keeps

\* The pivot goes to its place i; the smaller half is sorted by a call, the larger
\* one by the loop.
DivideLargerFirst ==       \* faulty: calls itself for the larger half
    LET left == <<l, i - 1>>
        right == <<i + 1, u>>
        calls == IF i - l < u - i THEN right ELSE left
    IN /\ callers' = <<IF i - l < u - i THEN left ELSE right>> \o callers
       /\ l' = calls[1] /\ u' = calls[2]
       /\ Asks("ends", Swapped(u - 1, i), <<i, j>>)
Divide ==
    LET left == <<l, i - 1>>
        right == <<i + 1, u>>
        calls == IF i - l < u - i THEN left ELSE right
    IN /\ callers' = <<IF i - l < u - i THEN right ELSE left>> \o callers
       /\ l' = calls[1] /\ u' = calls[2]
       /\ Asks("ends", Swapped(u - 1, i), <<i, j>>)

\* P < a[j]?  j goes down until it is not; then the two change places, unless
\* they have met
CompareDown ==
    /\ asks = "down"
    /\ \E answer \in Answers(pivot, arr[j]) :
         \/ (answer = "error" \/ (answer = "less" /\ j < l)) /\ SortRaises
         \/ answer = "less" /\ j >= l /\ Asks("down", arr, <<i, j - 1>>) /\ UNCHANGED pivot /\ Keeps
         \/ answer = "not" /\ j >= i /\ Asks("up", Swapped(i, j), <<i + 1, j>>) /\ UNCHANGED pivot /\ Keeps
         \/ answer = "not" /\ j < i /\ Divide /\ UNCHANGED <<order, pivot>>

SortInit == /\ order \in Orders
            /\ arr = [x \in 0..N + 1 |-> IF x \in 1..N THEN x ELSE None]
            /\ l = 1 /\ u = N /\ i = 0 /\ j = 0 /\ pivot = None
            /\ callers = <<>> /\ asks = "ends"
SortIdle == /\ order = [kind |-> "none", n |-> 0] /\ arr = <<>>
            /\ l = 0 /\ u = 0 /\ i = 0 /\ j = 0 /\ pivot = None
            /\ callers = <<>> /\ asks = "idle"
SortNext == Return \/ CompareEnds \/ CompareLow \/ CompareHigh \/ CompareUp \/ CompareDown
SortSpec == SortInit /\ [][SortNext]_sortVars

(* ------------------------------- properties ------------------------------ *)
(* Whatever the function answers, and wherever it raises, no element is lost *)
(* or doubled, and only the place behind the last can get one: if the        *)
(* function takes nil for greater than an element.                           *)
ElementsKept == asks # "idle" =>
    /\ {arr[x] : x \in 0..N + 1} = 1..N \cup {None} /\ arr[0] = None
    /\ order.kind # "any" => {arr[x] : x \in 1..N} = 1..N

(* No more calls of auxsort are open than the size of the table has binary   *)
(* digits: it calls itself for the smaller half only, and relies on that for *)
(* its space on the stack.                                                   *)
FewCallers == asks # "idle" /\ N > 0 => 2 ^ Len(callers) <= N

(* With an order, the comments of auxsort hold: what i has passed is not     *)
(* greater than the pivot, what j has passed is not less, i and j stay       *)
(* inside the range, so no element of another range, nor nil, is compared;   *)
(* and in the end the table is sorted.                                       *)
OrderKept == order.kind = "less" =>
    /\ asks # "raised"
    /\ asks \in {"up", "down"} =>
         /\ i \in l + 1..u - 1 /\ j \in l..u - 1
         /\ \A x \in l..i - 1 : ~Less(pivot, arr[x])
         /\ \A x \in j + 1..u : ~Less(arr[x], pivot)
    /\ asks = "sorted" => \A x, y \in 1..N : x < y => ~Less(arr[y], arr[x])
SortSound == ElementsKept /\ OrderKept
=============================================================================
