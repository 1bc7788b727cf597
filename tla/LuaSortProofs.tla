--------------------------- MODULE LuaSortProofs ---------------------------
(* table.sort keeps the elements of the table whatever the comparison        *)
(* answers, and sorts them when the comparison is an order, for tables of    *)
(* every size.  The invariant says where the indices of auxsort may be, that *)
(* the ranges still to be sorted are apart, and that two elements out of     *)
(* order are always in one of them.                                          *)
EXTENDS LuaSort, TLAPS

Places == 0..N + 1
Slots == 1..N
Elements == Slots \cup {None}

\* The variables, and where the indices may be with any comparison.
Indices ==
    /\ order \in Orders
    /\ arr \in [Places -> Elements]
    /\ l \in 1..N + 2 /\ u \in 0..N /\ i \in Int /\ j \in Int /\ pivot \in Elements
    /\ callers \in Seq((1..N + 2) \X (0..N))
    /\ asks \in {"ends", "low", "high", "up", "down", "return", "sorted", "raised"}
    /\ asks \in {"low", "high"} => i \in l + 1..u - 1
    /\ asks \in {"up", "down"} => l + 3 <= u /\ i \in l + 1..u + 1
    /\ asks = "up" => j \in l + 1..u - 1
    /\ asks = "down" => j \in l - 1..u - 2 /\ (order.kind # "any" => i <= N)

\* No element is lost, and with an operator for the comparison none leaves the slots.
KeptIn(table) ==
    /\ {table[x] : x \in Places} = Elements /\ table[0] = None
    /\ order.kind # "any" => {table[x] : x \in Slots} = Slots /\ table[N + 1] = None

Rank(x) == order.rank[x]
\* x and y are in the same range that is still to be sorted
InOneCaller(x, y) == \E k \in DOMAIN callers : {x, y} \subseteq callers[k][1]..callers[k][2]
Together(x, y) == (asks \notin {"return", "sorted"} /\ {x, y} \subseteq l..u) \/ InOneCaller(x, y)
SettledIn(table) ==
    \A x, y \in Slots : x < y => Rank(table[x]) <= Rank(table[y]) \/ Together(x, y)

Apart == \A k \in DOMAIN callers :
    /\ asks \notin {"return", "sorted"} => callers[k][2] < l \/ u < callers[k][1]
    /\ \A m \in DOMAIN callers : m # k => callers[k][2] < callers[m][1] \/ callers[m][2] < callers[k][1]

\* What is known of the range at hand.
Partitioned ==
    /\ asks \in {"low", "high"} => Rank(arr[l]) <= Rank(arr[u])
    /\ asks = "high" => Rank(arr[l]) <= Rank(arr[i])
    /\ asks \in {"up", "down"} => /\ pivot = arr[u - 1] /\ i <= u - 1
                                  /\ \A x \in l..i - 1 : Rank(arr[x]) <= Rank(pivot)
    /\ asks = "up" => \A x \in j..u : Rank(pivot) <= Rank(arr[x])
    /\ asks = "down" => /\ j >= l /\ Rank(pivot) <= Rank(arr[i])
                        /\ \A x \in j + 1..u : Rank(pivot) <= Rank(arr[x])
Ordered ==
    /\ asks # "raised" /\ (asks = "sorted" => callers = <<>>)
    /\ Apart /\ SettledIn(arr) /\ Partitioned

SortInv == Indices /\ KeptIn(arr) /\ (order.kind = "less" => Ordered)
-----------------------------------------------------------------------------
\* What the assumption and the invariant say of the order and its elements.
LEMMA OrderFacts ==
    ASSUME order \in Orders
    PROVE  /\ N \in Nat /\ None \notin Int
           /\ order.kind \in {"less", "lessequal", "any"}
           /\ order.kind = "less" => \A x \in Slots : Rank(x) \in Int
  BY OrdersAssumption DEF N, Slots, Rank

LEMMA SlotsHoldElements ==
    ASSUME NEW table, order.kind # "any", KeptIn(table), NEW x \in Slots
    PROVE  table[x] \in Slots
  BY DEF KeptIn

\* With an order, the answer says how the ranks compare, and there is no error.
LEMMA OrderAnswers ==
    ASSUME order \in Orders, order.kind = "less", NEW x \in Slots, NEW y \in Slots,
           NEW answer \in Answers(x, y)
    PROVE  /\ answer = "less" => Rank(x) < Rank(y)
           /\ answer # "less" => answer = "not" /\ Rank(y) <= Rank(x)
  <1>1. None \notin {x, y} /\ Rank(x) \in Int /\ Rank(y) \in Int
    BY OrderFacts DEF Slots
  <1>2. Answers(x, y) = {IF Rank(x) < Rank(y) THEN "less" ELSE "not"}
    BY <1>1 DEF Answers, Truth, Rank
  <1> QED
    BY <1>1, <1>2

\* Any comparison gives one of three answers, and an operator raises for nil.
LEMMA SomeAnswer ==
    ASSUME order \in Orders, NEW x, NEW y, NEW answer \in Answers(x, y)
    PROVE  /\ answer \in {"less", "not", "error"}
           /\ order.kind # "any" /\ None \in {x, y} => answer = "error"
  BY OrderFacts DEF Answers, Truth

\* What set2 does to the table (ltablib.c:171).
LEMMA ExchangedIs ==
    ASSUME order \in Orders, NEW table \in [Places -> Elements], NEW x \in Places, NEW y \in Places
    PROVE  LET e == Exchanged(table, x, y)
           IN  /\ e \in [Places -> Elements]
               /\ e[x] = table[y] /\ e[y] = table[x]
               /\ \A z \in Places \ {x, y} : e[z] = table[z]
  BY DEF Exchanged

LEMMA ExchangeKeeps ==
    ASSUME order \in Orders, NEW table \in [Places -> Elements], KeptIn(table),
           NEW x \in 1..N + 1, NEW y \in 1..N + 1,
           order.kind # "any" => x \in Slots /\ y \in Slots
    PROVE  KeptIn(Exchanged(table, x, y))
  <1> DEFINE e == Exchanged(table, x, y)
  <1>1. N \in Nat /\ x \in Places /\ y \in Places
    BY OrderFacts DEF Places
  <1>2. /\ e[x] = table[y] /\ e[y] = table[x]
        /\ \A z \in Places \ {x, y} : e[z] = table[z]
    BY <1>1, ExchangedIs
  <1> HIDE DEF e
  <1>3. {e[z] : z \in Places} = {table[z] : z \in Places}
    BY <1>1, <1>2
  <1>4. e[0] = table[0]
    BY <1>1, <1>2 DEF Places
  <1>5. ASSUME order.kind # "any"
        PROVE  {e[z] : z \in Slots} = {table[z] : z \in Slots} /\ e[N + 1] = table[N + 1]
    <2>1. Slots \subseteq Places /\ N + 1 \in Places \ Slots
      BY <1>1 DEF Slots, Places
    <2> QED
      BY <1>2, <1>5, <2>1
  <1>6. KeptIn(e)
    BY <1>3, <1>4, <1>5 DEF KeptIn
  <1> QED
    BY <1>6 DEF e

\* An exchange inside the range at hand puts no pair of elements out of order that
\* is not in the same range.
LEMMA ExchangeSettles ==
    ASSUME Indices, Apart, asks \notin {"return", "sorted"}, order.kind = "less",
           NEW table \in [Places -> Elements], SettledIn(table),
           NEW x \in l..u, NEW y \in l..u
    PROVE  SettledIn(Exchanged(table, x, y))
  <1> DEFINE e == Exchanged(table, x, y)
             from(p) == IF p = x THEN y ELSE IF p = y THEN x ELSE p
  <1>1. N \in Nat /\ l \in Int /\ u \in Int /\ 1 <= l /\ u <= N
    BY OrderFacts DEF Indices
  <1>2. x \in Places /\ y \in Places /\ x \in Slots /\ y \in Slots /\ Slots \subseteq Places
    BY <1>1 DEF Places, Slots
  <1>3. \A p \in Slots : e[p] = table[from(p)] /\ from(p) \in Slots
    <2>1. order \in Orders
      BY DEF Indices
    <2>2. e[x] = table[y] /\ e[y] = table[x] /\ \A z \in Places \ {x, y} : e[z] = table[z]
      BY <1>2, <2>1, ExchangedIs
    <2> HIDE DEF e
    <2> QED
      BY <1>2, <2>2
  <1>4. \A p \in Slots : (p \in l..u <=> from(p) \in l..u) /\ (p \notin l..u => from(p) = p)
    OBVIOUS
  <1> HIDE DEF e
  <1>5. ASSUME NEW p \in Slots, NEW q \in Slots, p < q, ~Together(p, q)
        PROVE  from(p) < from(q) /\ ~Together(from(p), from(q))
    <2>1. ~({p, q} \subseteq l..u) /\ ~InOneCaller(p, q)
      BY <1>5 DEF Together
    <2>2. from(p) < from(q)
      BY <1>1, <1>4, <1>5, <2>1 DEF Slots
    <2>3. ~InOneCaller(from(p), from(q))
      <3>1. ASSUME NEW k \in DOMAIN callers PROVE callers[k][1] \in Int /\ callers[k][2] \in Int
        BY <1>1, <3>1 DEF Indices
      <3>2. ASSUME NEW k \in DOMAIN callers, NEW z \in l..u PROVE z \notin callers[k][1]..callers[k][2]
        BY <1>1, <3>1, <3>2 DEF Apart
      <3>3. \A k \in DOMAIN callers : {from(p), from(q)} \subseteq callers[k][1]..callers[k][2] =>
               {p, q} \subseteq callers[k][1]..callers[k][2]
        BY <1>4, <3>2
      <3> QED
        BY <2>1, <3>3 DEF InOneCaller
    <2>4. ~({from(p), from(q)} \subseteq l..u)
      BY <1>4, <2>1
    <2> QED
      BY <2>2, <2>3, <2>4 DEF Together
  <1>6. SettledIn(e)
    BY <1>3, <1>5 DEF SettledIn
  <1> QED
    BY <1>6 DEF e
-----------------------------------------------------------------------------
\* A step that keeps the order keeps all that is built from it.
LEMMA SameOrder ==
    ASSUME order' = order
    PROVE  Slots' = Slots /\ Places' = Places /\ Elements' = Elements /\ N' = N
  BY DEF Slots, Places, Elements, N, Slots

LEMMA KeptNext ==
    ASSUME order' = order, KeptIn(arr')
    PROVE  KeptIn(arr)'
  BY SameOrder DEF KeptIn

\* Elements are in order, or still together, after a step that takes them apart
\* only if they are in order.
LEMMA SettledNext ==
    ASSUME order' = order, SettledIn(arr'),
           \A x, y \in Slots : x < y /\ Together(x, y) =>
               Together(x, y)' \/ Rank(arr'[x]) <= Rank(arr'[y])
    PROVE  SettledIn(arr)'
  BY SameOrder DEF SettledIn, Rank

Asking == {"ends", "low", "high", "up", "down"}

\* A comparison that exchanges two places of the range at hand, or none.
LEMMA MoveKeeps ==
    ASSUME SortInv, order' = order, asks \in Asking, l < u,
           NEW x \in l..u, NEW y \in l..u, arr' = arr \/ arr' = Exchanged(arr, x, y)
    PROVE  /\ arr' \in [Places -> Elements] /\ KeptIn(arr')
           /\ order.kind = "less" => SettledIn(arr')
  <1>1. N \in Nat /\ l \in Int /\ u \in Int /\ 1 <= l /\ u <= N
    BY OrderFacts DEF SortInv, Indices
  <1>2. x \in Places /\ y \in Places /\ x \in Slots /\ y \in Slots /\ x \in 1..N + 1 /\ y \in 1..N + 1
    BY <1>1 DEF Places, Slots
  <1>3. arr \in [Places -> Elements] /\ order \in Orders /\ KeptIn(arr)
    BY DEF SortInv, Indices
  <1>4. arr' \in [Places -> Elements]
    BY <1>2, <1>3, ExchangedIs
  <1>5. KeptIn(arr')
    BY <1>2, <1>3, ExchangeKeeps
  <1>6. ASSUME order.kind = "less" PROVE SettledIn(arr')
    <2>1. Indices /\ Apart /\ SettledIn(arr) /\ asks \notin {"return", "sorted"}
      BY <1>6 DEF SortInv, Ordered, Asking
    <2>2. SettledIn(Exchanged(arr, x, y))
      BY <1>3, <1>6, <2>1, ExchangeSettles
    <2> QED
      BY <2>1, <2>2
  <1> QED
    BY <1>4, <1>5, <1>6

\* The range at hand stays the same and something in it remains to be compared.
LEMMA RangeKept ==
    ASSUME SortInv, Keeps, asks \in Asking, asks' \in Asking, order.kind = "less", SettledIn(arr')
    PROVE  Apart' /\ SettledIn(arr)'
  <1>1. Apart'
    BY DEF SortInv, Ordered, Apart, Keeps, Asking
  <1>2. \A x, y \in Slots : Together(x, y) => Together(x, y)'
    BY DEF Together, InOneCaller, Keeps, Asking
  <1> QED
    BY <1>1, <1>2, SettledNext DEF Keeps

\* The range at hand is in order, and left.
LEMMA RangeDone ==
    ASSUME SortInv, Keeps, asks \in Asking, asks' = "return", order.kind = "less", SettledIn(arr'),
           \A p, q \in l..u : p < q => Rank(arr'[p]) <= Rank(arr'[q])
    PROVE  Ordered'
  <1>1. Apart'
    BY DEF SortInv, Ordered, Apart, Keeps
  <1>2. \A x, y \in Slots : x < y /\ Together(x, y) => Together(x, y)' \/ Rank(arr'[x]) <= Rank(arr'[y])
    BY DEF Together, InOneCaller, Keeps
  <1>3. SettledIn(arr)'
    BY <1>2, SettledNext DEF Keeps
  <1> QED
    BY <1>1, <1>3 DEF Ordered, Partitioned

\* An error ends the sort with the table as it is; an order gives none.
LEMMA SortRaisesKeeps ==
    ASSUME SortInv, SortRaises, order.kind # "less"
    PROVE  SortInv'
  <1>1. order' = order /\ KeptIn(arr') /\ N \in Nat
    BY OrderFacts DEF SortRaises, SortInv, Indices
  <1>2. Indices'
    BY <1>1, SameOrder DEF Indices, SortInv, SortRaises
  <1> QED
    BY <1>1, <1>2, KeptNext DEF SortInv
-----------------------------------------------------------------------------
LEMMA ReturnKeeps ==
    ASSUME SortInv, Return
    PROVE  SortInv'
  <1>1. order' = order /\ arr' = arr /\ N \in Nat /\ N' = N
    BY OrderFacts, SameOrder DEF Return, SortInv, Indices
  <1>2. KeptIn(arr)'
    BY <1>1, KeptNext DEF SortInv
  <1>3. asks # "return" => asks = "ends" /\ l >= u
    BY DEF Return
  <1>4. callers \in Seq((1..N + 2) \X (0..N)) /\ l \in Int /\ u \in Int
    BY <1>1 DEF SortInv, Indices
  <1>5. CASE callers = <<>>
    <2>1. asks' = "sorted" /\ UNCHANGED <<l, u, i, j, pivot, callers>>
      BY <1>5 DEF Return
    <2>2. Indices'
      BY <1>1, <2>1, SameOrder DEF SortInv, Indices
    <2>3. ASSUME order.kind = "less" PROVE Ordered'
      <3>1. \A x, y \in Slots : x < y => ~Together(x, y)
        BY <1>3, <1>4, <1>5 DEF Together, InOneCaller, Slots
      <3>2. SettledIn(arr)'
        BY <1>1, <2>3, <3>1, SettledNext DEF SortInv, Ordered
      <3> QED
        BY <1>5, <2>1, <3>2 DEF Ordered, Apart, Partitioned
    <2> QED
      BY <1>1, <1>2, <2>2, <2>3 DEF SortInv
  <1>6. CASE callers # <<>>
    <2>1. /\ l' = callers[1][1] /\ u' = callers[1][2] /\ callers' = Tail(callers) /\ asks' = "ends"
          /\ UNCHANGED <<i, j, pivot>>
      BY <1>4, <1>6 DEF Return
    <2>2. /\ callers[1] \in (1..N + 2) \X (0..N) /\ callers' \in Seq((1..N + 2) \X (0..N))
          /\ 1 \in DOMAIN callers
          /\ \A k \in DOMAIN callers : k # 1 => k - 1 \in DOMAIN callers' /\ callers'[k - 1] = callers[k]
          /\ \A k \in DOMAIN callers' : k + 1 \in DOMAIN callers /\ callers'[k] = callers[k + 1]
      <3> DEFINE R == (1..N + 2) \X (0..N)
      <3>1. callers \in Seq(R) /\ callers # <<>>
        BY <1>4, <1>6
      <3> HIDE DEF R
      <3>2. callers[1] \in R /\ 1 \in DOMAIN callers
        BY <3>1
      <3>3. Tail(callers) \in Seq(R) /\ Len(Tail(callers)) = Len(callers) - 1 /\ Len(callers) \in Nat
        BY <3>1
      <3>4. DOMAIN callers = 1..Len(callers) /\ DOMAIN Tail(callers) = 1..Len(Tail(callers))
        BY <3>1, <3>3
      <3>5. \A k \in 1..(Len(callers) - 1) : Tail(callers)[k] = callers[k + 1]
        BY <3>1
      <3>6. \A k \in DOMAIN callers' : k + 1 \in DOMAIN callers /\ callers'[k] = callers[k + 1]
        BY <2>1, <3>3, <3>4, <3>5
      <3>7. ASSUME NEW k \in DOMAIN callers, k # 1
            PROVE  k - 1 \in DOMAIN callers' /\ callers'[k - 1] = callers[k]
        <4>1. k - 1 \in DOMAIN callers' /\ (k - 1) + 1 = k
          BY <2>1, <3>3, <3>4, <3>7
        <4> QED
          BY <3>6, <4>1
      <3> QED
        BY <2>1, <3>2, <3>3, <3>6, <3>7 DEF R
    <2>3. Indices'
      BY <1>1, <2>1, <2>2, SameOrder DEF SortInv, Indices
    <2>4. ASSUME order.kind = "less" PROVE Ordered'
      <3>1. \A k \in DOMAIN callers' : k \in Nat /\ k + 1 # 1
        BY <2>2
      <3>2. Apart'
        <4>1. \A k, m \in DOMAIN callers : m # k =>
                 callers[k][2] < callers[m][1] \/ callers[m][2] < callers[k][1]
          BY <2>4 DEF SortInv, Ordered, Apart
        <4>2. \A k \in DOMAIN callers' : callers'[k][2] < l' \/ u' < callers'[k][1]
          BY <2>1, <2>2, <3>1, <4>1
        <4>3. ASSUME NEW k \in DOMAIN callers', NEW m \in DOMAIN callers', m # k
              PROVE  callers'[k][2] < callers'[m][1] \/ callers'[m][2] < callers'[k][1]
          <5>1. k + 1 # m + 1
            BY <3>1, <4>3
          <5> QED
            BY <2>2, <4>1, <5>1
        <4> QED
          BY <4>2, <4>3 DEF Apart
      <3>3. ASSUME NEW x \in Slots, NEW y \in Slots, x < y, Together(x, y)
            PROVE  Together(x, y)'
        <4>1. PICK k \in DOMAIN callers : {x, y} \subseteq callers[k][1]..callers[k][2]
          BY <1>3, <1>4, <3>3 DEF Together, InOneCaller, Slots
        <4>2. CASE k = 1
          BY <2>1, <4>1, <4>2 DEF Together
        <4>3. CASE k # 1
          BY <2>2, <4>1, <4>3 DEF Together, InOneCaller
        <4> QED
          BY <4>2, <4>3
      <3>4. SettledIn(arr)'
        BY <1>1, <2>4, <3>3, SettledNext DEF SortInv, Ordered
      <3> QED
        BY <2>1, <3>2, <3>4 DEF Ordered, Partitioned
    <2> QED
      BY <1>1, <1>2, <2>3, <2>4 DEF SortInv
  <1> QED
    BY <1>5, <1>6

LEMMA CompareEndsKeeps ==
    ASSUME SortInv, CompareEnds
    PROVE  SortInv'
  <1>1. asks = "ends" /\ l < u
    BY DEF CompareEnds
  <1>2. PICK answer \in Answers(arr[u], arr[l]) :
          \/ answer = "error" /\ SortRaises
          \/ /\ answer # "error" /\ Keeps /\ UNCHANGED pivot
             /\ Asks(IF u - l = 1 THEN "return" ELSE "low",
                     IF answer = "less" THEN Swapped(l, u) ELSE arr, <<(l + u) \div 2, j>>)
    BY DEF CompareEnds
  <1>3. /\ N \in Nat /\ l \in Int /\ u \in Int /\ 1 <= l /\ u <= N /\ order \in Orders
        /\ l \in l..u /\ u \in l..u /\ l \in Slots /\ u \in Slots
    BY <1>1, OrderFacts DEF SortInv, Indices, Slots
  <1>4. ASSUME order.kind = "less"
        PROVE  /\ arr[l] \in Slots /\ arr[u] \in Slots /\ Rank(arr[l]) \in Int /\ Rank(arr[u]) \in Int
               /\ answer = "less" => Rank(arr[u]) < Rank(arr[l])
               /\ answer # "less" => answer = "not" /\ Rank(arr[l]) <= Rank(arr[u])
    <2>1. arr[l] \in Slots /\ arr[u] \in Slots
      BY <1>3, <1>4, SlotsHoldElements DEF SortInv
    <2> QED
      BY <1>3, <1>4, <2>1, OrderAnswers, OrderFacts
  <1>5. CASE answer = "error" /\ SortRaises
    BY <1>4, <1>5, SortRaisesKeeps
  <1>6. CASE answer # "error" /\ Keeps /\ UNCHANGED pivot
             /\ Asks(IF u - l = 1 THEN "return" ELSE "low",
                     IF answer = "less" THEN Swapped(l, u) ELSE arr, <<(l + u) \div 2, j>>)
    <2>1. /\ Keeps /\ order' = order /\ UNCHANGED <<pivot, j>> /\ i' = (l + u) \div 2
          /\ asks' = IF u - l = 1 THEN "return" ELSE "low"
          /\ arr' = IF answer = "less" THEN Exchanged(arr, l, u) ELSE arr
      BY <1>6 DEF Asks, Swapped, Keeps
    <2>2. /\ arr' \in [Places -> Elements] /\ KeptIn(arr')
          /\ order.kind = "less" => SettledIn(arr')
      BY <1>1, <1>3, <2>1, MoveKeeps DEF Asking
    <2>3. asks' = "low" => i' \in l + 1..u - 1
      BY <1>1, <1>3, <2>1
    <2>4. Indices'
      BY <1>3, <2>1, <2>2, <2>3, SameOrder DEF SortInv, Indices, Keeps
    <2>5. ASSUME order.kind = "less" PROVE Rank(arr'[l]) <= Rank(arr'[u])
      <3>1. answer = "less" => arr'[l] = arr[u] /\ arr'[u] = arr[l]
        BY <1>3, <2>1, ExchangedIs DEF SortInv, Indices, Slots, Places
      <3> QED
        BY <1>4, <2>1, <2>5, <3>1
    <2>6. ASSUME order.kind = "less" PROVE Ordered'
      <3>1. CASE asks' = "return"
        <4>1. \A p, q \in l..u : p < q => p = l /\ q = u
          BY <1>1, <1>3, <2>1, <3>1
        <4> QED
          BY <1>1, <2>1, <2>2, <2>5, <2>6, <3>1, <4>1, RangeDone DEF Asking
      <3>2. CASE asks' = "low"
        <4>1. Apart' /\ SettledIn(arr)'
          BY <1>1, <2>1, <2>2, <2>6, <3>2, RangeKept DEF Asking
        <4>2. Partitioned'
          BY <2>1, <2>5, <2>6, <3>2 DEF Partitioned, Rank, Keeps
        <4> QED
          BY <3>2, <4>1, <4>2 DEF Ordered
      <3> QED
        BY <2>1, <3>1, <3>2
    <2> QED
      BY <2>1, <2>2, <2>4, <2>6, KeptNext DEF SortInv
  <1> QED
    BY <1>2, <1>5, <1>6

\* With the median of the three in the middle.
LEMMA PartitionKeeps ==
    ASSUME SortInv, Keeps, asks \in {"low", "high"}, NEW table \in [Places -> Elements], KeptIn(table),
           order.kind = "less" => /\ SettledIn(table)
                                  /\ Rank(table[l]) <= Rank(table[i]) /\ Rank(table[i]) <= Rank(table[u]),
           Partition(table)
    PROVE  SortInv'
  <1>1. /\ N \in Nat /\ l \in Int /\ u \in Int /\ i \in Int /\ j \in Int /\ 1 <= l /\ u <= N /\ order \in Orders
        /\ l < i /\ i < u /\ order' = order /\ N' = N
    BY OrderFacts, SameOrder DEF SortInv, Indices, Keeps
  <1>2. i \in l..u /\ u - 1 \in l..u /\ l..u \subseteq Slots /\ Slots \subseteq Places /\ l..u \subseteq 1..N + 1
    BY <1>1 DEF Slots, Places
  <1>3. asks \in Asking /\ asks \notin {"return", "sorted"}
    BY DEF Asking
  <1>4. ASSUME order.kind = "less"
        PROVE  Indices /\ Apart /\ \A x \in l..u : table[x] \in Slots /\ Rank(table[x]) \in Int
    BY <1>1, <1>2, <1>4, OrderFacts, SlotsHoldElements DEF SortInv, Ordered
  <1>5. CASE u - l = 2
    <2>1. asks' = "return" /\ arr' = table /\ UNCHANGED <<i, j, pivot>>
      BY <1>5 DEF Partition, Asks
    <2>2. Indices'
      BY <1>1, <2>1, SameOrder DEF SortInv, Indices, Keeps
    <2>3. ASSUME order.kind = "less" PROVE Ordered'
      <3>1. l..u = {l, i, u}
        BY <1>1, <1>5
      <3>2. \A p, q \in l..u : p < q => Rank(table[p]) <= Rank(table[q])
        <4>1. /\ Rank(table[l]) \in Int /\ Rank(table[i]) \in Int /\ Rank(table[u]) \in Int
              /\ Rank(table[l]) <= Rank(table[i]) /\ Rank(table[i]) <= Rank(table[u])
          BY <1>1, <1>2, <1>4, <2>3
        <4>2. \A p, q \in {l, i, u} : p < q => \/ p = l /\ q \in {i, u}
                                               \/ p = i /\ q = u
          BY <1>1
        <4> QED
          BY <3>1, <4>1, <4>2
      <3> QED
        BY <1>3, <2>1, <2>3, <3>2, RangeDone
    <2> QED
      BY <1>1, <2>1, <2>2, <2>3, KeptNext DEF SortInv
  <1>6. CASE u - l # 2
    <2>1. /\ asks' = "up" /\ arr' = Exchanged(table, i, u - 1) /\ pivot' = table[i]
          /\ i' = l + 1 /\ j' = u - 1
      BY <1>6 DEF Partition, Asks
    <2>2. /\ arr' \in [Places -> Elements]
          /\ arr'[i] = table[u - 1] /\ arr'[u - 1] = table[i]
          /\ \A z \in Places \ {i, u - 1} : arr'[z] = table[z]
      BY <1>1, <1>2, <2>1, ExchangedIs
    <2>3. KeptIn(arr')
      BY <1>1, <1>2, <2>1, ExchangeKeeps
    <2>4. l + 3 <= u /\ pivot' \in Elements
      BY <1>1, <1>2, <1>6, <2>1
    <2>5. Indices'
      BY <1>1, <2>1, <2>2, <2>4, SameOrder DEF SortInv, Indices, Keeps
    <2>6. ASSUME order.kind = "less" PROVE Ordered'
      <3>1. SettledIn(arr')
        BY <1>2, <1>3, <1>4, <2>1, <2>6, ExchangeSettles
      <3>2. Apart' /\ SettledIn(arr)'
        BY <1>3, <2>1, <2>6, <3>1, RangeKept DEF Asking
      <3>3. arr'[l] = table[l] /\ arr'[u] = table[u]
        BY <1>1, <1>2, <2>2, <2>4
      <3>4. l..(i' - 1) = {l} /\ j'..u = {u - 1, u}
        BY <1>1, <2>1
      <3>5. Rank(pivot') \in Int
        BY <1>2, <1>4, <2>1, <2>6
      <3>6. /\ \A x \in l..(i' - 1) : Rank(arr'[x]) <= Rank(pivot')
            /\ \A x \in j'..u : Rank(pivot') <= Rank(arr'[x])
        BY <2>1, <2>2, <2>6, <3>3, <3>4, <3>5
      <3>7. Partitioned'
        BY <1>1, <2>1, <2>2, <2>4, <3>6 DEF Partitioned, Rank, Keeps
      <3> QED
        BY <2>1, <3>2, <3>7 DEF Ordered
    <2> QED
      BY <1>1, <2>3, <2>5, <2>6, KeptNext DEF SortInv
  <1> QED
    BY <1>5, <1>6

LEMMA CompareLowKeeps ==
    ASSUME SortInv, CompareLow
    PROVE  SortInv'
  <1>1. asks = "low" /\ l < i /\ i < u
    BY OrderFacts DEF CompareLow, SortInv, Indices
  <1>2. PICK answer \in Answers(arr[i], arr[l]) :
          \/ answer = "error" /\ SortRaises
          \/ answer = "less" /\ Partition(Swapped(i, l)) /\ Keeps
          \/ answer = "not" /\ Asks("high", arr, <<i, j>>) /\ UNCHANGED pivot /\ Keeps
    BY DEF CompareLow
  <1>3. /\ N \in Nat /\ l \in Int /\ u \in Int /\ i \in Int /\ j \in Int /\ 1 <= l /\ u <= N /\ order \in Orders
        /\ arr \in [Places -> Elements] /\ KeptIn(arr)
    BY OrderFacts DEF SortInv, Indices
  <1>4. l \in l..u /\ i \in l..u /\ u \in l..u /\ l..u \subseteq Slots /\ l..u \subseteq Places /\ l..u \subseteq 1..N + 1
    BY <1>1, <1>3 DEF Slots, Places
  <1>5. ASSUME order.kind = "less"
        PROVE  /\ Rank(arr[l]) \in Int /\ Rank(arr[u]) \in Int /\ Rank(arr[i]) \in Int
               /\ Rank(arr[l]) <= Rank(arr[u])
               /\ answer = "less" => Rank(arr[i]) < Rank(arr[l])
               /\ answer # "less" => answer = "not" /\ Rank(arr[l]) <= Rank(arr[i])
    <2>1. arr[l] \in Slots /\ arr[u] \in Slots /\ arr[i] \in Slots
      BY <1>3, <1>4, <1>5, SlotsHoldElements
    <2>2. Rank(arr[l]) <= Rank(arr[u])
      BY <1>1, <1>5 DEF SortInv, Ordered, Partitioned
    <2> QED
      BY <1>3, <1>5, <2>1, <2>2, OrderAnswers, OrderFacts
  <1>6. CASE answer = "error" /\ SortRaises
    BY <1>5, <1>6, SortRaisesKeeps
  <1>7. CASE answer = "less" /\ Partition(Swapped(i, l)) /\ Keeps
    <2> DEFINE table == Exchanged(arr, i, l)
    <2>1. /\ table \in [Places -> Elements]
          /\ table[i] = arr[l] /\ table[l] = arr[i] /\ table[u] = arr[u]
      <3>1. i \in Places /\ l \in Places /\ u \in Places \ {i, l}
        BY <1>1, <1>3, <1>4
      <3> QED
        BY <1>3, <3>1, ExchangedIs
    <2>2. KeptIn(table)
      BY <1>3, <1>4, ExchangeKeeps
    <2>3. ASSUME order.kind = "less"
          PROVE  /\ SettledIn(table)
                 /\ Rank(table[l]) <= Rank(table[i]) /\ Rank(table[i]) <= Rank(table[u])
      <3>1. SettledIn(table)
        BY <1>1, <1>3, <1>4, <2>3, ExchangeSettles DEF SortInv, Ordered
      <3> QED
        BY <1>5, <1>7, <2>1, <2>3, <3>1
    <2>4. Partition(table)
      BY <1>7 DEF Swapped
    <2> HIDE DEF table
    <2> QED
      BY <1>1, <1>7, <2>1, <2>2, <2>3, <2>4, PartitionKeeps
  <1>8. CASE answer = "not" /\ Asks("high", arr, <<i, j>>) /\ UNCHANGED pivot /\ Keeps
    <2>1. asks' = "high" /\ UNCHANGED <<order, arr, l, u, i, j, pivot, callers>> /\ Keeps
      BY <1>8 DEF Asks, Keeps
    <2>2. Indices'
      BY <1>1, <1>3, <2>1, SameOrder DEF SortInv, Indices
    <2>3. ASSUME order.kind = "less" PROVE Ordered'
      <3>1. Apart' /\ SettledIn(arr)'
        BY <1>1, <2>1, <2>3, RangeKept DEF Asking, SortInv, Ordered
      <3>2. Partitioned'
        BY <1>5, <1>8, <2>1, <2>3 DEF Partitioned, Rank
      <3> QED
        BY <2>1, <3>1, <3>2 DEF Ordered
    <2> QED
      BY <1>3, <2>1, <2>2, <2>3, KeptNext DEF SortInv
  <1> QED
    BY <1>2, <1>6, <1>7, <1>8

LEMMA CompareHighKeeps ==
    ASSUME SortInv, CompareHigh
    PROVE  SortInv'
  <1>1. asks = "high" /\ l < i /\ i < u
    BY OrderFacts DEF CompareHigh, SortInv, Indices
  <1>2. PICK answer \in Answers(arr[u], arr[i]) :
          \/ answer = "error" /\ SortRaises
          \/ answer # "error" /\ Partition(IF answer = "less" THEN Swapped(i, u) ELSE arr) /\ Keeps
    BY DEF CompareHigh
  <1>3. /\ N \in Nat /\ l \in Int /\ u \in Int /\ i \in Int /\ 1 <= l /\ u <= N /\ order \in Orders
        /\ arr \in [Places -> Elements] /\ KeptIn(arr)
    BY OrderFacts DEF SortInv, Indices
  <1>4. l \in l..u /\ i \in l..u /\ u \in l..u /\ l..u \subseteq Slots /\ l..u \subseteq Places /\ l..u \subseteq 1..N + 1
    BY <1>1, <1>3 DEF Slots, Places
  <1>5. ASSUME order.kind = "less"
        PROVE  /\ Rank(arr[l]) \in Int /\ Rank(arr[u]) \in Int /\ Rank(arr[i]) \in Int
               /\ Rank(arr[l]) <= Rank(arr[u]) /\ Rank(arr[l]) <= Rank(arr[i])
               /\ answer = "less" => Rank(arr[u]) < Rank(arr[i])
               /\ answer # "less" => answer = "not" /\ Rank(arr[i]) <= Rank(arr[u])
    <2>1. arr[l] \in Slots /\ arr[u] \in Slots /\ arr[i] \in Slots
      BY <1>3, <1>4, <1>5, SlotsHoldElements
    <2>2. Rank(arr[l]) <= Rank(arr[u]) /\ Rank(arr[l]) <= Rank(arr[i])
      BY <1>1, <1>5 DEF SortInv, Ordered, Partitioned
    <2> QED
      BY <1>3, <1>5, <2>1, <2>2, OrderAnswers, OrderFacts
  <1>6. CASE answer = "error" /\ SortRaises
    BY <1>5, <1>6, SortRaisesKeeps
  <1>7. CASE answer # "error" /\ Partition(IF answer = "less" THEN Swapped(i, u) ELSE arr) /\ Keeps
    <2> DEFINE table == IF answer = "less" THEN Exchanged(arr, i, u) ELSE arr
    <2>1. /\ table \in [Places -> Elements]
          /\ answer = "less" => table[i] = arr[u] /\ table[u] = arr[i] /\ table[l] = arr[l]
          /\ answer # "less" => table = arr
      <3>1. i \in Places /\ u \in Places /\ l \in Places \ {i, u}
        BY <1>1, <1>3, <1>4
      <3> QED
        BY <1>3, <3>1, ExchangedIs
    <2>2. KeptIn(table)
      BY <1>3, <1>4, ExchangeKeeps
    <2>3. ASSUME order.kind = "less"
          PROVE  /\ SettledIn(table)
                 /\ Rank(table[l]) <= Rank(table[i]) /\ Rank(table[i]) <= Rank(table[u])
      <3>1. SettledIn(table)
        BY <1>1, <1>3, <1>4, <2>3, ExchangeSettles DEF SortInv, Ordered
      <3>2. Rank(table[l]) <= Rank(table[i]) /\ Rank(table[i]) <= Rank(table[u])
        BY <1>5, <2>1, <2>3
      <3> QED
        BY <3>1, <3>2
    <2>4. Partition(table)
      BY <1>7 DEF Swapped
    <2> HIDE DEF table
    <2> QED
      BY <1>1, <1>7, <2>1, <2>2, <2>3, <2>4, PartitionKeeps
  <1> QED
    BY <1>2, <1>6, <1>7

LEMMA CompareUpKeeps ==
    ASSUME SortInv, CompareUp
    PROVE  SortInv'
  <1>1. asks = "up" /\ asks \in Asking
    BY DEF CompareUp, Asking
  <1>2. PICK answer \in Answers(arr[i], pivot) :
          \/ (answer = "error" \/ (answer = "less" /\ i > u)) /\ SortRaises
          \/ answer = "less" /\ i <= u /\ Asks("up", arr, <<i + 1, j>>) /\ UNCHANGED pivot /\ Keeps
          \/ answer = "not" /\ Asks("down", arr, <<i, j - 1>>) /\ UNCHANGED pivot /\ Keeps
    BY DEF CompareUp
  <1>3. /\ N \in Nat /\ l \in Int /\ u \in Int /\ 1 <= l /\ u <= N /\ order \in Orders
        /\ l + 3 <= u /\ i \in l + 1..u + 1 /\ j \in l + 1..u - 1
        /\ arr \in [Places -> Elements] /\ KeptIn(arr)
    BY <1>1, OrderFacts DEF SortInv, Indices
  <1>4. ASSUME order.kind = "less"
        PROVE  /\ i <= u - 1 /\ pivot = arr[u - 1] /\ Rank(arr[i]) \in Int /\ Rank(pivot) \in Int
               /\ \A x \in l..i - 1 : Rank(arr[x]) <= Rank(pivot)
               /\ \A x \in j..u : Rank(pivot) <= Rank(arr[x])
               /\ answer = "less" => Rank(arr[i]) < Rank(pivot)
               /\ answer # "less" => answer = "not" /\ Rank(pivot) <= Rank(arr[i])
    <2>1. /\ i <= u - 1 /\ pivot = arr[u - 1]
          /\ \A x \in l..i - 1 : Rank(arr[x]) <= Rank(pivot)
          /\ \A x \in j..u : Rank(pivot) <= Rank(arr[x])
      BY <1>1, <1>4 DEF SortInv, Ordered, Partitioned
    <2>2. i \in Slots /\ u - 1 \in Slots
      BY <1>3, <2>1 DEF Slots
    <2>3. arr[i] \in Slots /\ pivot \in Slots
      BY <1>3, <1>4, <2>1, <2>2, SlotsHoldElements
    <2> QED
      BY <1>3, <1>4, <2>1, <2>3, OrderAnswers, OrderFacts
  <1>5. CASE (answer = "error" \/ (answer = "less" /\ i > u)) /\ SortRaises
    BY <1>3, <1>4, <1>5, SortRaisesKeeps
  <1>6. CASE answer = "less" /\ i <= u /\ Asks("up", arr, <<i + 1, j>>) /\ UNCHANGED pivot /\ Keeps
    <2>1. asks' = "up" /\ i' = i + 1 /\ UNCHANGED <<order, arr, l, u, j, pivot, callers>> /\ Keeps
      BY <1>6 DEF Asks, Keeps
    <2>2. Indices'
      BY <1>3, <1>6, <2>1, SameOrder DEF SortInv, Indices
    <2>3. ASSUME order.kind = "less" PROVE Ordered'
      <3>1. Apart' /\ SettledIn(arr)'
        BY <1>1, <2>1, <2>3, RangeKept DEF Asking, SortInv, Ordered
      <3>2. i # u - 1
        BY <1>4, <1>6, <2>3
      <3>3. \A x \in l..i' - 1 : x \in l..i - 1 \/ x = i
        BY <1>3, <2>1
      <3>4. i' <= u - 1 /\ \A x \in l..i' - 1 : Rank(arr[x]) <= Rank(pivot)
        BY <1>3, <1>4, <1>6, <2>1, <2>3, <3>2, <3>3
      <3>5. Partitioned'
        BY <1>4, <2>1, <2>3, <3>4 DEF Partitioned, Rank
      <3> QED
        BY <2>1, <3>1, <3>5 DEF Ordered
    <2> QED
      BY <1>3, <2>1, <2>2, <2>3, KeptNext DEF SortInv
  <1>7. CASE answer = "not" /\ Asks("down", arr, <<i, j - 1>>) /\ UNCHANGED pivot /\ Keeps
    <2>1. asks' = "down" /\ j' = j - 1 /\ UNCHANGED <<order, arr, l, u, i, pivot, callers>> /\ Keeps
      BY <1>7 DEF Asks, Keeps
    <2>2. order.kind # "any" => i <= N
      <3>1. order.kind # "any" => None # arr[i]
        BY <1>3, <1>7, SomeAnswer
      <3>2. order.kind # "any" => i # N + 1
        BY <3>1 DEF SortInv, KeptIn
      <3> QED
        BY <1>3, <3>2
    <2>3. Indices'
      BY <1>3, <2>1, <2>2, SameOrder DEF SortInv, Indices
    <2>4. ASSUME order.kind = "less" PROVE Ordered'
      <3>1. Apart' /\ SettledIn(arr)'
        BY <1>1, <2>1, <2>4, RangeKept DEF Asking, SortInv, Ordered
      <3>2. j' >= l /\ j' + 1 = j
        BY <1>3, <2>1
      <3>3. Partitioned'
        BY <1>4, <1>7, <2>1, <2>4, <3>2 DEF Partitioned, Rank
      <3> QED
        BY <2>1, <3>1, <3>3 DEF Ordered
    <2> QED
      BY <1>3, <2>1, <2>3, <2>4, KeptNext DEF SortInv
  <1> QED
    BY <1>2, <1>5, <1>6, <1>7

\* The pivot goes between the two halves.
LEMMA DivideKeeps ==
    ASSUME SortInv, asks = "down", j < i, Divide, UNCHANGED <<order, pivot>>
    PROVE  SortInv'
  <1> DEFINE small == IF i - l < u - i THEN <<l, i - 1>> ELSE <<i + 1, u>>
             large == IF i - l < u - i THEN <<i + 1, u>> ELSE <<l, i - 1>>
  <1>1. /\ l' = small[1] /\ u' = small[2] /\ callers' = <<large>> \o callers /\ asks' = "ends"
        /\ arr' = Exchanged(arr, u - 1, i) /\ i' = i /\ j' = j
    BY DEF Divide, Asks, Swapped
  <1>2. /\ N \in Nat /\ l \in Int /\ u \in Int /\ 1 <= l /\ u <= N /\ order \in Orders
        /\ l + 3 <= u /\ i \in l + 1..u + 1 /\ j \in l - 1..u - 2 /\ (order.kind # "any" => i <= N)
        /\ arr \in [Places -> Elements] /\ KeptIn(arr) /\ callers \in Seq((1..N + 2) \X (0..N))
    BY OrderFacts DEF SortInv, Indices
  <1>3. /\ i \in 1..N + 1 /\ u - 1 \in 1..N + 1 /\ i \in Places /\ u - 1 \in Places /\ u - 1 \in Slots
        /\ order.kind # "any" => i \in Slots
    BY <1>2 DEF Places, Slots
  <1>4. /\ arr' \in [Places -> Elements]
        /\ arr'[i] = arr[u - 1] /\ arr'[u - 1] = arr[i]
        /\ \A z \in Places \ {i, u - 1} : arr'[z] = arr[z]
    BY <1>1, <1>2, <1>3, ExchangedIs
  <1>5. KeptIn(arr)'
    BY <1>1, <1>2, <1>3, ExchangeKeeps, KeptNext
  <1>6. /\ large \in (1..N + 2) \X (0..N) /\ l' \in 1..N + 2 /\ u' \in 0..N
        /\ callers' \in Seq((1..N + 2) \X (0..N))
    BY <1>1, <1>2
  <1>7. /\ callers'[1] = large /\ DOMAIN callers' = 1..Len(callers) + 1 /\ DOMAIN callers = 1..Len(callers)
        /\ Len(callers) \in Nat
        /\ \A k \in DOMAIN callers : k + 1 \in DOMAIN callers' /\ callers'[k + 1] = callers[k]
        /\ \A k \in DOMAIN callers' : k # 1 => k - 1 \in DOMAIN callers /\ callers'[k] = callers[k - 1]
    <2>1. /\ Len(callers) \in Nat /\ DOMAIN callers = 1..Len(callers)
          /\ Len(callers') = Len(callers) + 1 /\ DOMAIN callers' = 1..Len(callers')
      BY <1>1, <1>2, <1>6
    <2> HIDE DEF large
    <2>2. \A k \in 1..Len(callers) + 1 : callers'[k] = IF k = 1 THEN large ELSE callers[k - 1]
      BY <1>1, <1>2, <2>1
    <2> QED
      BY <2>1, <2>2
  <1>8. /\ l <= l' /\ u' <= u /\ l <= large[1] /\ large[2] <= u
        /\ large[2] < l' \/ u' < large[1]
        /\ l' \in Int /\ u' \in Int /\ large[1] \in Int /\ large[2] \in Int
    BY <1>1, <1>2
  <1>9. Indices'
    BY <1>1, <1>2, <1>4, <1>6, SameOrder DEF SortInv, Indices
  <1>10. ASSUME order.kind = "less" PROVE Ordered'
    <2>1. /\ i <= u - 1 /\ pivot = arr[u - 1] /\ Rank(pivot) <= Rank(arr[i])
          /\ \A x \in l..i - 1 : Rank(arr[x]) <= Rank(pivot)
          /\ \A x \in j + 1..u : Rank(pivot) <= Rank(arr[x])
      BY <1>10 DEF SortInv, Ordered, Partitioned
    <2>2. l..u \subseteq Slots /\ Slots \subseteq Places
      BY <1>2 DEF Slots, Places
    <2>3. i \in l..u /\ u - 1 \in l..u
      BY <1>2, <2>1
    <2>4. SettledIn(arr')
      BY <1>1, <1>2, <1>10, <2>3, ExchangeSettles DEF SortInv, Ordered
    <2>5. \A x \in l..u : Rank(arr[x]) \in Int
      BY <1>2, <1>10, <2>2, SlotsHoldElements, OrderFacts
    <2>6. \A x \in l..i : Rank(arr'[x]) <= Rank(pivot)
      <3>1. ASSUME NEW x \in l..i - 1 PROVE arr'[x] = arr[x]
        <4>1. x \in l..u /\ x \notin {i, u - 1}
          BY <1>2, <2>1, <3>1
        <4> QED
          BY <1>4, <2>2, <4>1
      <3>2. \A x \in l..i : x \in l..i - 1 \/ x = i
        BY <1>2
      <3>3. Rank(arr'[i]) <= Rank(pivot)
        BY <1>4, <2>1, <2>3, <2>5
      <3> QED
        BY <2>1, <3>1, <3>2, <3>3
    <2>7. \A x \in i..u : Rank(pivot) <= Rank(arr'[x])
      <3>1. ASSUME NEW x \in i..u, x # i, x # u - 1 PROVE arr'[x] = arr[x] /\ x \in j + 1..u
        <4>1. x \in l..u /\ x \notin {i, u - 1} /\ x \in j + 1..u
          BY <1>2, <2>1, <3>1
        <4> QED
          BY <1>4, <2>2, <4>1
      <3>2. Rank(pivot) <= Rank(arr'[i]) /\ Rank(pivot) <= Rank(arr'[u - 1])
        BY <1>4, <2>1, <2>3, <2>5
      <3> QED
        BY <2>1, <3>1, <3>2
    <2>8. Apart'
      <3>1. /\ \A k \in DOMAIN callers : callers[k][2] < l \/ u < callers[k][1]
            /\ \A k, m \in DOMAIN callers : m # k =>
                 callers[k][2] < callers[m][1] \/ callers[m][2] < callers[k][1]
        BY <1>10 DEF SortInv, Ordered, Apart
      <3>2. ASSUME NEW k \in DOMAIN callers PROVE callers[k][1] \in Int /\ callers[k][2] \in Int
        BY <1>2, <3>2
      <3>3. ASSUME NEW k \in DOMAIN callers', k # 1
            PROVE  /\ callers'[k][2] < l' \/ u' < callers'[k][1]
                   /\ callers'[k][2] < large[1] \/ large[2] < callers'[k][1]
        <4>1. k - 1 \in DOMAIN callers /\ callers'[k] = callers[k - 1]
          BY <1>7, <3>3
        <4> DEFINE c == callers[k - 1]
        <4>2. c[1] \in Int /\ c[2] \in Int /\ (c[2] < l \/ u < c[1])
          BY <3>1, <3>2, <4>1
        <4>3. callers'[k] = c
          BY <4>1
        <4> HIDE DEF large, small, c
        <4>4. (c[2] < l' \/ u' < c[1]) /\ (c[2] < large[1] \/ large[2] < c[1])
          BY <1>2, <1>8, <4>2
        <4> QED
          BY <4>3, <4>4
      <3>4. \A k \in DOMAIN callers' : callers'[k][2] < l' \/ u' < callers'[k][1]
        BY <1>7, <1>8, <3>3
      <3>5. ASSUME NEW k \in DOMAIN callers', NEW m \in DOMAIN callers', m # k
            PROVE  callers'[k][2] < callers'[m][1] \/ callers'[m][2] < callers'[k][1]
        <4>1. CASE k = 1
          BY <1>7, <3>3, <3>5, <4>1
        <4>2. CASE m = 1
          BY <1>7, <3>3, <3>5, <4>2
        <4>3. CASE k # 1 /\ m # 1
          <5>1. k - 1 # m - 1
            BY <1>7, <3>5
          <5> QED
            BY <1>7, <3>1, <4>3, <5>1
        <4> QED
          BY <4>1, <4>2, <4>3
      <3> QED
        BY <3>4, <3>5 DEF Apart
    <2>9. ASSUME NEW x \in Slots, NEW y \in Slots, x < y, Together(x, y)
          PROVE  Together(x, y)' \/ Rank(arr'[x]) <= Rank(arr'[y])
      <3>1. CASE InOneCaller(x, y)
        BY <1>7, <3>1 DEF Together, InOneCaller
      <3>2. CASE {x, y} \subseteq l..u
        <4>1. CASE x \in l..i - 1 /\ y \in l..i - 1
          BY <1>1, <1>7, <4>1 DEF Together, InOneCaller
        <4>2. CASE x \in i + 1..u /\ y \in i + 1..u
          BY <1>1, <1>7, <4>2 DEF Together, InOneCaller
        <4>3. CASE x \in l..i /\ y \in i..u
          <5>1. Rank(arr'[x]) \in Int /\ Rank(arr'[y]) \in Int /\ Rank(pivot) \in Int
            <6>1. arr'[x] \in Slots /\ arr'[y] \in Slots /\ pivot \in Slots
              BY <1>1, <1>2, <1>3, <1>10, <2>1, <2>9, ExchangeKeeps, SlotsHoldElements
            <6> QED
              BY <1>2, <1>10, <6>1, OrderFacts
          <5> QED
            BY <2>6, <2>7, <4>3, <5>1
        <4> QED
          BY <1>2, <2>9, <3>2, <4>1, <4>2, <4>3 DEF Slots
      <3> QED
        BY <2>9, <3>1, <3>2 DEF Together
    <2>10. SettledIn(arr)'
      BY <2>4, <2>9, SettledNext
    <2> QED
      BY <1>1, <2>8, <2>10 DEF Ordered, Partitioned
  <1> QED
    BY <1>5, <1>9, <1>10 DEF SortInv

LEMMA CompareDownKeeps ==
    ASSUME SortInv, CompareDown
    PROVE  SortInv'
  <1>1. asks = "down" /\ asks \in Asking
    BY DEF CompareDown, Asking
  <1>2. PICK answer \in Answers(pivot, arr[j]) :
          \/ (answer = "error" \/ (answer = "less" /\ j < l)) /\ SortRaises
          \/ answer = "less" /\ j >= l /\ Asks("down", arr, <<i, j - 1>>) /\ UNCHANGED pivot /\ Keeps
          \/ answer = "not" /\ j >= i /\ Asks("up", Swapped(i, j), <<i + 1, j>>) /\ UNCHANGED pivot /\ Keeps
          \/ answer = "not" /\ j < i /\ Divide /\ UNCHANGED <<order, pivot>>
    BY DEF CompareDown
  <1>3. /\ N \in Nat /\ l \in Int /\ u \in Int /\ 1 <= l /\ u <= N /\ order \in Orders
        /\ l + 3 <= u /\ i \in l + 1..u + 1 /\ j \in l - 1..u - 2
        /\ arr \in [Places -> Elements] /\ KeptIn(arr)
    BY <1>1, OrderFacts DEF SortInv, Indices
  <1>4. ASSUME order.kind = "less"
        PROVE  /\ i <= u - 1 /\ j >= l /\ pivot = arr[u - 1] /\ Rank(arr[j]) \in Int /\ Rank(pivot) \in Int
               /\ Rank(pivot) <= Rank(arr[i])
               /\ \A x \in l..i - 1 : Rank(arr[x]) <= Rank(pivot)
               /\ \A x \in j + 1..u : Rank(pivot) <= Rank(arr[x])
               /\ answer = "less" => Rank(pivot) < Rank(arr[j])
               /\ answer # "less" => answer = "not" /\ Rank(arr[j]) <= Rank(pivot)
    <2>1. /\ i <= u - 1 /\ j >= l /\ pivot = arr[u - 1] /\ Rank(pivot) <= Rank(arr[i])
          /\ \A x \in l..i - 1 : Rank(arr[x]) <= Rank(pivot)
          /\ \A x \in j + 1..u : Rank(pivot) <= Rank(arr[x])
      BY <1>1, <1>4 DEF SortInv, Ordered, Partitioned
    <2>2. j \in Slots /\ u - 1 \in Slots
      BY <1>3, <2>1 DEF Slots
    <2>3. arr[j] \in Slots /\ pivot \in Slots
      BY <1>3, <1>4, <2>1, <2>2, SlotsHoldElements
    <2> QED
      BY <1>3, <1>4, <2>1, <2>3, OrderAnswers, OrderFacts
  <1>5. CASE (answer = "error" \/ (answer = "less" /\ j < l)) /\ SortRaises
    BY <1>3, <1>4, <1>5, SortRaisesKeeps
  <1>6. CASE answer = "less" /\ j >= l /\ Asks("down", arr, <<i, j - 1>>) /\ UNCHANGED pivot /\ Keeps
    <2>1. asks' = "down" /\ j' = j - 1 /\ UNCHANGED <<order, arr, l, u, i, pivot, callers>> /\ Keeps
      BY <1>6 DEF Asks, Keeps
    <2>2. Indices'
      BY <1>1, <1>3, <1>6, <2>1, SameOrder DEF SortInv, Indices
    <2>3. ASSUME order.kind = "less" PROVE Ordered'
      <3>1. Apart' /\ SettledIn(arr)'
        BY <1>1, <2>1, <2>3, RangeKept DEF Asking, SortInv, Ordered
      <3>2. j # l
        <4>1. l \in l..i - 1
          BY <1>3
        <4>2. j = l => Rank(arr[j]) <= Rank(pivot)
          BY <1>4, <2>3, <4>1
        <4> QED
          BY <1>4, <1>6, <2>3, <4>2
      <3>3. \A x \in j' + 1..u : x \in j + 1..u \/ x = j
        BY <1>3, <2>1
      <3>4. j' >= l /\ \A x \in j' + 1..u : Rank(pivot) <= Rank(arr[x])
        BY <1>3, <1>4, <1>6, <2>1, <2>3, <3>2, <3>3
      <3>5. Partitioned'
        BY <1>4, <2>1, <2>3, <3>4 DEF Partitioned, Rank
      <3> QED
        BY <2>1, <3>1, <3>5 DEF Ordered
    <2> QED
      BY <1>3, <2>1, <2>2, <2>3, KeptNext DEF SortInv
  <1>7. CASE answer = "not" /\ j >= i /\ Asks("up", Swapped(i, j), <<i + 1, j>>) /\ UNCHANGED pivot /\ Keeps
    <2>1. /\ asks' = "up" /\ i' = i + 1 /\ arr' = Exchanged(arr, i, j)
          /\ UNCHANGED <<order, l, u, j, pivot, callers>> /\ Keeps
      BY <1>7 DEF Asks, Keeps, Swapped
    <2>2. i \in l..u /\ j \in l..u /\ i \in Places /\ j \in Places /\ l..u \subseteq Places /\ l < u
      BY <1>3, <1>7 DEF Places
    <2>3. /\ arr' \in [Places -> Elements] /\ KeptIn(arr')
          /\ order.kind = "less" => SettledIn(arr')
      BY <1>1, <2>1, <2>2, MoveKeeps
    <2>4. Indices'
      BY <1>3, <1>7, <2>1, <2>3, SameOrder DEF SortInv, Indices
    <2>5. ASSUME order.kind = "less" PROVE Ordered'
      <3>1. Apart' /\ SettledIn(arr)'
        BY <1>1, <2>1, <2>3, <2>5, RangeKept DEF Asking
      <3>2. arr'[i] = arr[j] /\ arr'[j] = arr[i] /\ \A z \in l..u : z # i /\ z # j => arr'[z] = arr[z]
        BY <1>3, <2>1, <2>2, ExchangedIs
      <3>3. u - 1 \in l..u /\ u - 1 # i /\ u - 1 # j /\ i' <= u - 1
        BY <1>3, <1>7, <2>1
      <3>4. \A x \in l..i' - 1 : Rank(arr'[x]) <= Rank(pivot)
        <4>1. \A x \in l..i' - 1 : x = i \/ (x \in l..i - 1 /\ x \in l..u /\ x # i /\ x # j)
          BY <1>3, <1>7, <2>1
        <4> QED
          BY <1>4, <1>7, <2>5, <3>2, <4>1
      <3>5. \A x \in j..u : Rank(pivot) <= Rank(arr'[x])
        <4>1. \A x \in j..u : x = j \/ (x \in j + 1..u /\ x \in l..u /\ x # i /\ x # j)
          BY <1>3, <1>7
        <4> QED
          BY <1>4, <2>5, <3>2, <4>1
      <3>6. Partitioned'
        BY <1>4, <2>1, <2>5, <3>2, <3>3, <3>4, <3>5 DEF Partitioned, Rank
      <3> QED
        BY <2>1, <3>1, <3>6 DEF Ordered
    <2> QED
      BY <2>1, <2>3, <2>4, <2>5, KeptNext DEF SortInv
  <1>8. CASE answer = "not" /\ j < i /\ Divide /\ UNCHANGED <<order, pivot>>
    BY <1>1, <1>8, DivideKeeps
  <1> QED
    BY <1>2, <1>5, <1>6, <1>7, <1>8
-----------------------------------------------------------------------------
LEMMA SortStarts == ASSUME SortInit PROVE SortInv
  <1>1. order \in Orders /\ N \in Nat /\ None \notin Slots
    BY OrderFacts DEF SortInit, Slots
  <1>2. arr \in [Places -> Elements] /\ \A x \in Slots : arr[x] = x
    BY <1>1 DEF SortInit, Places, Slots, Elements
  <1>3. arr[0] = None /\ arr[N + 1] = None
    BY <1>1 DEF SortInit
  <1>4. Slots \subseteq Places /\ 0 \in Places /\ \A x \in Places : x \in Slots \/ x = 0 \/ x = N + 1
    BY <1>1 DEF Places, Slots
  <1>5. KeptIn(arr)
    <2>1. {arr[x] : x \in Slots} = Slots
      BY <1>2
    <2>2. {arr[x] : x \in Places} = Elements
      BY <1>2, <1>3, <1>4 DEF Elements
    <2> QED
      BY <1>3, <2>1, <2>2 DEF KeptIn
  <1>6. Indices
    BY <1>1, <1>2 DEF SortInit, Indices, Elements
  <1>7. Ordered
    BY <1>1 DEF SortInit, Ordered, Apart, SettledIn, Together, Partitioned, Slots
  <1> QED
    BY <1>5, <1>6, <1>7 DEF SortInv

(* auxsort keeps its invariant: whatever the comparison answers it exchanges *)
(* only places of the table, and with an order all that is not sorted yet is *)
(* in the range at hand or in one its callers go on with (ltablib.c:187).    *)
THEOREM SortInvariantIsInductive == SortInv /\ [SortNext]_sortVars => SortInv'
  <1> SUFFICES ASSUME SortInv, [SortNext]_sortVars PROVE SortInv'
    OBVIOUS
  <1>1. CASE Return
    BY <1>1, ReturnKeeps
  <1>2. CASE CompareEnds
    BY <1>2, CompareEndsKeeps
  <1>3. CASE CompareLow
    BY <1>3, CompareLowKeeps
  <1>4. CASE CompareHigh
    BY <1>4, CompareHighKeeps
  <1>5. CASE CompareUp
    BY <1>5, CompareUpKeeps
  <1>6. CASE CompareDown
    BY <1>6, CompareDownKeeps
  <1>7. CASE UNCHANGED sortVars
    <2>1. KeptIn(arr)' <=> KeptIn(arr)
      BY <1>7 DEF sortVars, KeptIn, Slots, Places, Elements, N
    <2>2. Indices' <=> Indices
      BY <1>7 DEF sortVars, Indices, Places, Elements, Slots, N
    <2>3. Ordered' <=> Ordered
      BY <1>7 DEF sortVars, Ordered, Apart, SettledIn, Together, InOneCaller, Partitioned, Rank, Slots, N
    <2> QED
      BY <1>7, <2>1, <2>2, <2>3 DEF SortInv, sortVars
  <1> QED
    BY <1>1, <1>2, <1>3, <1>4, <1>5, <1>6, <1>7 DEF SortNext

LEMMA SortInvIsSound == ASSUME SortInv PROVE SortSound
  <1>1. N \in Nat /\ KeptIn(arr)
    BY OrderFacts DEF SortInv, Indices
  <1>2. ElementsKept
    BY <1>1 DEF ElementsKept, KeptIn, Places, Slots, Elements
  <1>3. ASSUME order.kind = "less" PROVE OrderKept
    <2>1. order \in Orders /\ Ordered /\ Indices
      BY <1>3 DEF SortInv, Indices
    <2>2. ASSUME NEW x \in Slots PROVE arr[x] \in Slots /\ Rank(arr[x]) \in Int
      BY <1>1, <1>3, <2>1, <2>2, SlotsHoldElements, OrderFacts
    <2>3. CASE asks \in {"up", "down"}
      <3>1. /\ l \in Int /\ u \in Int /\ 1 <= l /\ u <= N /\ l + 3 <= u /\ i \in Int /\ j \in Int
            /\ i \in l + 1..u - 1 /\ j \in l..u - 1
        BY <1>1, <2>1, <2>3 DEF Indices, Ordered, Partitioned
      <3>2. /\ Rank(pivot) \in Int
            /\ \A x \in l..i - 1 : Rank(arr[x]) <= Rank(pivot)
            /\ \A x \in j + 1..u : Rank(pivot) <= Rank(arr[x])
        <4>1. u - 1 \in Slots /\ pivot = arr[u - 1]
          BY <1>1, <2>1, <2>3, <3>1 DEF Ordered, Partitioned, Slots
        <4>2. /\ \A x \in l..i - 1 : Rank(arr[x]) <= Rank(pivot)
              /\ asks = "up" => \A x \in j..u : Rank(pivot) <= Rank(arr[x])
              /\ asks = "down" => \A x \in j + 1..u : Rank(pivot) <= Rank(arr[x])
          BY <2>1, <2>3 DEF Ordered, Partitioned
        <4>3. j + 1..u \subseteq j..u
          BY <3>1
        <4> QED
          BY <2>2, <2>3, <4>1, <4>2, <4>3
      <3>3. \A x \in l..u : Rank(arr[x]) \in Int
        BY <1>1, <2>2, <3>1 DEF Slots
      <3>4. l..i - 1 \subseteq l..u /\ j + 1..u \subseteq l..u
        BY <3>1
      <3>5. \A x \in l..i - 1 : ~Less(pivot, arr[x])
        BY <3>2, <3>3, <3>4 DEF Less, Rank
      <3>6. \A x \in j + 1..u : ~Less(arr[x], pivot)
        BY <3>2, <3>3, <3>4 DEF Less, Rank
      <3> QED
        BY <2>3, <3>1, <3>5, <3>6 DEF OrderKept
    <2>4. CASE asks = "sorted"
      <3>1. callers = <<>> /\ SettledIn(arr)
        BY <2>1, <2>4 DEF Ordered
      <3>2. \A x, y \in Slots : ~Together(x, y)
        BY <2>4, <3>1 DEF Together, InOneCaller
      <3>3. \A x, y \in Slots : x < y => Rank(arr[x]) <= Rank(arr[y])
        BY <3>1, <3>2 DEF SettledIn
      <3>4. \A x, y \in Slots : x < y => ~Less(arr[y], arr[x])
        BY <2>2, <3>3 DEF Less, Rank
      <3> QED
        BY <2>4, <3>4 DEF OrderKept, Slots
    <2>5. CASE asks \notin {"up", "down", "sorted"}
      BY <2>1, <2>5 DEF OrderKept, Ordered
    <2> QED
      BY <2>3, <2>4, <2>5
  <1> QED
    BY <1>2, <1>3 DEF SortSound, OrderKept

(* table.sort loses and doubles no element with any comparison, and with an  *)
(* order the comments of auxsort hold and the table is sorted in the end.    *)
THEOREM SortAlwaysSound == SortSpec => []SortSound
  <1>1. SortInit => SortInv
    BY SortStarts
  <1>2. SortInv => SortSound
    BY SortInvIsSound
  <1> QED
    BY <1>1, <1>2, SortInvariantIsInductive, PTL DEF SortSpec
=============================================================================
