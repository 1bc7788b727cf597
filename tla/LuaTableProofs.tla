--------------------------- MODULE LuaTableProofs ---------------------------
(* The invariant of the tables of ltable.c, for tables of any size, any keys, *)
(* hashes and programs: every key is on the chain that begins in its main     *)
(* position, and that position has a key that is at home.  From it follow     *)
(* that a key has one node, that a rehash makes room for all it moves, that   *)
(* the length is a border, that no metamethod is taken for absent, and that   *)
(* the table is the map of TableMap.                                          *)
EXTENDS LuaTable, FiniteSetTheorems, WellFoundedInduction, TLAPS

LEMMA LeastNat ==
    ASSUME NEW S, S \subseteq Nat, S # {}
    PROVE  \E n \in S : \A m \in S : n <= m
<1> DEFINE R == OpToRel(<, Nat)
<1>1. IsWellFoundedOn(R, Nat)
  BY NatLessThanWellFounded
<1>2. \A a, b \in Nat : a < b => <<a, b>> \in R
  BY DEF OpToRel
<1> HIDE DEF R
<1>3. PICK n \in S : \A m \in S : ~(<<m, n>> \in R)
  BY <1>1, WFMin
<1>4. \A m \in S : ~(m < n)
  BY <1>2, <1>3
<1> QED
  BY <1>4

\* A function that goes on from nxt[i] until it stops is the value at the place where it
\* stops, so there is one.
Goes(f, D, Stop, out, nxt) == f = [i \in D |-> IF i \in Stop THEN out[i] ELSE f[nxt[i]]]
Going(D, Stop, out, nxt) == CHOOSE f : Goes(f, D, Stop, out, nxt)
LEMMA TailRecursion ==
    ASSUME NEW D, NEW Stop \in SUBSET D, NEW out, NEW nxt, \A i \in D \ Stop : nxt[i] \in D
    PROVE  Goes(Going(D, Stop, out, nxt), D, Stop, out, nxt)
  <1> DEFINE Shut(C) == \A i \in C \ Stop : nxt[i] \in C
             Meets(i, e) == \A C \in SUBSET D : i \in C /\ Shut(C) => e \in C
             End(i) == CHOOSE e \in Stop : Meets(i, e)
             f == [i \in D |-> out[End(i)]]
  <1>1. ASSUME NEW i \in Stop
        PROVE  End(i) = i
    <2>1. Meets(i, i)
      OBVIOUS
    <2>2. ASSUME NEW e \in Stop, Meets(i, e)
          PROVE  e = i
      <3>1. {i} \in SUBSET D /\ Shut({i})
        OBVIOUS
      <3> QED
        BY <2>2, <3>1
    <2> HIDE DEF Meets
    <2> QED
      BY <2>1, <2>2
  <1>2. ASSUME NEW i \in D \ Stop, NEW e \in Stop
        PROVE  Meets(i, e) <=> Meets(nxt[i], e)
    <2>1. ASSUME Meets(i, e), NEW C \in SUBSET D, nxt[i] \in C, Shut(C)
          PROVE  e \in C
      <3>1. C \cup {i} \in SUBSET D /\ Shut(C \cup {i})
        BY <2>1
      <3>2. e \in C \cup {i}
        BY <2>1, <3>1
      <3> QED
        BY <3>2
    <2>2. ASSUME Meets(nxt[i], e), NEW C \in SUBSET D, i \in C, Shut(C)
          PROVE  e \in C
      BY <2>2
    <2> QED
      BY <2>1, <2>2
  <1>3. ASSUME NEW i \in D \ Stop
        PROVE  End(i) = End(nxt[i])
    <2>1. \A e \in Stop : Meets(i, e) <=> Meets(nxt[i], e)
      BY <1>2
    <2> HIDE DEF Meets
    <2> QED
      BY <2>1
  <1> HIDE DEF End
  <1>4. f = [i \in D |-> IF i \in Stop THEN out[i] ELSE f[nxt[i]]]
    <2>1. ASSUME NEW i \in D
          PROVE  f[i] = IF i \in Stop THEN out[i] ELSE f[nxt[i]]
      BY <1>1, <1>3
    <2> QED
      BY <2>1
  <1> HIDE DEF f
  <1>5. Goes(f, D, Stop, out, nxt)
    BY <1>4 DEF Goes
  <1> QED
    BY <1>5 DEF Going

LEMMA Twoto == twoto[0] = 1 /\ \A i \in Nat \ {0} : twoto[i] = 2 * twoto[i - 1]
  <1> DEFINE H(n) == {h \in [0..n -> Nat] : h[0] = 1 /\ \A i \in 1..n : h[i] = 2 * h[i - 1]}
             Bad == {n \in Nat : H(n) = {}}
             Differ == {i \in Nat : \E n, m \in Nat : i <= n /\ i <= m /\ \E g \in H(n), h \in H(m) : g[i] # h[i]}
  <1>1. Bad = {}
    <2> SUFFICES ASSUME Bad # {} PROVE FALSE
      OBVIOUS
    <2>1. PICK n \in Bad : \A m \in Bad : n <= m
      <3>1. Bad \subseteq Nat
        OBVIOUS
      <3> HIDE DEF Bad
      <3> QED
        BY <3>1, LeastNat
    <2>2. CASE n = 0
      <3>1. [i \in 0..0 |-> 1] \in H(0)
        OBVIOUS
      <3> QED
        BY <2>2, <3>1
    <2>3. CASE n # 0
      <3>1. n \in Nat /\ n - 1 \in Nat /\ ~(n <= n - 1)
        BY <2>3
      <3>2. PICK h : h \in H(n - 1)
        BY <2>1, <3>1
      <3> DEFINE g == [i \in 0..n |-> IF i = n THEN 2 * h[n - 1] ELSE h[i]]
      <3>3. h \in [0..(n - 1) -> Nat] /\ h[0] = 1 /\ \A i \in 1..(n - 1) : h[i] = 2 * h[i - 1]
        BY <3>2
      <3>4. g \in [0..n -> Nat]
        BY <3>1, <3>3
      <3>5. g[0] = 1 /\ \A i \in 1..n : g[i] = 2 * g[i - 1]
        BY <2>3, <3>1, <3>3
      <3>6. g \in H(n)
        BY <3>4, <3>5
      <3> QED
        BY <3>6
    <2> QED
      BY <2>2, <2>3
  <1>2. Differ = {}
    <2> SUFFICES ASSUME Differ # {} PROVE FALSE
      OBVIOUS
    <2>1. PICK i \in Differ : \A j \in Differ : i <= j
      <3>1. Differ \subseteq Nat
        OBVIOUS
      <3> HIDE DEF Differ
      <3> QED
        BY <3>1, LeastNat
    <2>2. PICK n \in Nat, m \in Nat : i <= n /\ i <= m /\ \E g \in H(n), h \in H(m) : g[i] # h[i]
      OBVIOUS
    <2>3. PICK g \in H(n), h \in H(m) : g[i] # h[i]
      BY <2>2
    <2>4. i \in Nat /\ i # 0
      BY <2>3
    <2>5. i - 1 \in Nat /\ ~(i <= i - 1) /\ i - 1 <= n /\ i - 1 <= m
      BY <2>2, <2>4
    <2>6. g[i - 1] = h[i - 1]
      <3>1. i - 1 \notin Differ
        BY <2>1, <2>5
      <3> HIDE DEF H
      <3> QED
        BY <2>5, <3>1
    <2>7. g[i] = 2 * g[i - 1] /\ h[i] = 2 * h[i - 1]
      BY <2>2, <2>4
    <2> QED
      BY <2>3, <2>6, <2>7
  <1> DEFINE pick(n) == CHOOSE h \in H(n) : TRUE
             f == [n \in Nat |-> pick(n)[n]]
  <1>3. \A n \in Nat : pick(n) \in H(n)
    <2> HIDE DEF H
    <2> QED
      BY <1>1
  <1>4. f[0] = 1
    BY <1>3
  <1>5. ASSUME NEW i \in Nat \ {0}
        PROVE  f[i] = 2 * f[i - 1]
    <2>1. i - 1 \in Nat /\ i \in 1..i /\ i - 1 <= i /\ i - 1 <= i - 1
      OBVIOUS
    <2>2. pick(i) \in H(i) /\ pick(i - 1) \in H(i - 1)
      BY <1>3, <2>1
    <2>3. pick(i)[i] = 2 * pick(i)[i - 1]
      BY <2>1, <2>2
    <2>4. pick(i)[i - 1] = pick(i - 1)[i - 1]
      <3>1. i - 1 \notin Differ
        BY <1>2
      <3> HIDE DEF H, pick
      <3> QED
        BY <2>1, <2>2, <3>1
    <2> HIDE DEF pick
    <2> QED
      BY <2>1, <2>3, <2>4
  <1> HIDE DEF f
  <1>6. f = [i \in Nat |-> IF i = 0 THEN 1 ELSE 2 * f[i - 1]]
    <2>1. f = [i \in Nat |-> f[i]]
      BY DEF f
    <2> QED
      BY <1>4, <1>5, <2>1
  <1>7. twoto = [i \in Nat |-> IF i = 0 THEN 1 ELSE 2 * twoto[i - 1]]
    BY <1>6 DEF twoto
  <1> QED
    BY <1>7

LEMMA TwotoGrows ==
    /\ \A i \in Nat : twoto[i] \in Nat \ {0} /\ twoto[i] >= i
    /\ \A i, j \in Nat : i <= j => twoto[i] <= twoto[j]
  <1>1. \A i \in Nat : twoto[i] \in Nat \ {0} /\ twoto[i] >= i
    <2> DEFINE Bad == {i \in Nat : ~(twoto[i] \in Nat \ {0} /\ twoto[i] >= i)}
    <2> SUFFICES ASSUME Bad # {} PROVE FALSE
      OBVIOUS
    <2>1. PICK i \in Bad : \A j \in Bad : i <= j
      <3>1. Bad \subseteq Nat
        OBVIOUS
      <3> HIDE DEF Bad
      <3> QED
        BY <3>1, LeastNat
    <2>2. i # 0
      BY Twoto
    <2>3. i - 1 \in Nat /\ i - 1 \notin Bad
      BY <2>1, <2>2
    <2>4. twoto[i - 1] \in Nat \ {0} /\ twoto[i - 1] >= i - 1 /\ twoto[i] = 2 * twoto[i - 1]
      BY <2>2, <2>3, Twoto
    <2> QED
      BY <2>4
  <1>2. ASSUME NEW i \in Nat, NEW j \in Nat, i <= j
        PROVE  twoto[i] <= twoto[j]
    <2> DEFINE Bad == {k \in Nat : ~(twoto[i] <= twoto[i + k])}
    <2>1. Bad = {}
      <3> SUFFICES ASSUME Bad # {} PROVE FALSE
        OBVIOUS
      <3>1. PICK k \in Bad : \A m \in Bad : k <= m
        <4>1. Bad \subseteq Nat
          OBVIOUS
        <4> HIDE DEF Bad
        <4> QED
          BY <4>1, LeastNat
      <3>2. k # 0
        BY <1>1
      <3>3. k - 1 \in Nat /\ k - 1 \notin Bad
        BY <3>1, <3>2
      <3>4. i + k \in Nat \ {0} /\ (i + k) - 1 = i + (k - 1)
        BY <3>2
      <3>5. twoto[i] <= twoto[i + (k - 1)] /\ twoto[i + k] = 2 * twoto[i + (k - 1)]
        BY <3>3, <3>4, Twoto
      <3>6. twoto[i] \in Nat /\ twoto[i + (k - 1)] \in Nat
        BY <1>1, <3>3
      <3> QED
        BY <3>1, <3>5, <3>6
    <2>2. j - i \in Nat /\ i + (j - i) = j
      BY <1>2
    <2> QED
      BY <2>1, <2>2
  <1> QED
    BY <1>1, <1>2

-----------------------------------------------------------------------------
(* The tables, and the chains of their nodes.                               *)

Vals == Values \cup Ints \cup {Nil}
Nodes == [k : Keys \cup {Nil}, dead : BOOLEAN, v : Vals, next : Nat \cup {Null}]
Tables == [arr : Seq(Vals), node : Seq(Nodes), lastfree : Nat, flags : SUBSET Events]

\* A set of nodes that the chains do not leave, and what follows m on its chain.
Closed(t, C) == \A i \in C : Node(t, i).next \in C \cup {Null}
Reach(t, m, i) == \A C \in SUBSET NodesOf(t) : m \in C /\ Closed(t, C) => i \in C

Linked(t) == \A i \in NodesOf(t) : Node(t, i).next \in NodesOf(t) \cup {Null}
Decreases(t, rank) ==
    \A i \in NodesOf(t) : Node(t, i).next # Null => rank[Node(t, i).next] < rank[i]
\* The chains end.
Ranked(t) == \E rank \in [NodesOf(t) -> Nat] : Decreases(t, rank)

LEMMA NodeIs ==
    ASSUME NEW t \in Tables
    PROVE  /\ Size(t) \in Nat
           /\ \A i \in NodesOf(t) : Node(t, i) \in Nodes /\ i \in Nat /\ i + 1 \in 1..Size(t)
           /\ \A i \in NodesOf(t) : /\ Node(t, i).k \in Keys \cup {Nil} /\ Node(t, i).dead \in BOOLEAN
                                    /\ Node(t, i).v \in Vals /\ Node(t, i).next \in Nat \cup {Null}
  <1>1. t.node \in Seq(Nodes)
    BY DEF Tables
  <1>2. Size(t) \in Nat
    BY <1>1 DEF Size
  <1>3. ASSUME NEW i \in NodesOf(t)
        PROVE  Node(t, i) \in Nodes /\ i \in Nat /\ i + 1 \in 1..Size(t)
    <2>1. i \in Nat /\ i + 1 \in 1..Len(t.node)
      BY <1>2 DEF NodesOf, Size
    <2> QED
      BY <1>1, <2>1 DEF Node, Size
  <1>4. ASSUME NEW i \in NodesOf(t)
        PROVE  /\ Node(t, i).k \in Keys \cup {Nil} /\ Node(t, i).dead \in BOOLEAN
               /\ Node(t, i).v \in Vals /\ Node(t, i).next \in Nat \cup {Null}
    BY <1>3 DEF Nodes
  <1> QED
    BY <1>2, <1>3, <1>4

LEMMA MainIs ==
    ASSUME NEW t \in Tables, Size(t) > 0, NEW k \in Keys
    PROVE  MainPosition(t, k) \in NodesOf(t)
  <1>1. Size(t) \in Nat \ {0}
    BY NodeIs
  <1> DEFINE m == IF Size(t) = 1 THEN 1 ELSE Size(t) - 1
  <1>2. m \in Nat \ {0} /\ m <= Size(t)
    BY <1>1
  <1>3. CASE k \in Ints /\ k # 0
    <2>1. NumHash[k] \in Nat
      BY <1>3, Sizes
    <2>2. NumHash[k] % m \in 0..(m - 1)
      <3> HIDE DEF m
      <3> QED
        BY <1>2, <2>1
    <2>3. MainPosition(t, k) = NumHash[k] % m
      BY <1>3 DEF MainPosition
    <2> HIDE DEF m
    <2> QED
      BY <1>1, <1>2, <2>2, <2>3 DEF NodesOf
  <1>4. CASE k \in Ints /\ k = 0
    BY <1>1, <1>4 DEF MainPosition, NodesOf
  <1>5. CASE k \notin Ints
    <2>1. StrHash[k] \in Nat
      BY <1>5, Sizes DEF Keys
    <2>2. StrHash[k] % Size(t) \in 0..(Size(t) - 1)
      BY <1>1, <2>1
    <2> QED
      BY <1>5, <2>2 DEF MainPosition, NodesOf
  <1> QED
    BY <1>3, <1>4, <1>5

\* The main position depends on the number of nodes alone.
LEMMA SameMain ==
    ASSUME NEW t, NEW u, Size(t) = Size(u)
    PROVE  NodesOf(u) = NodesOf(t) /\ \A k : MainPosition(u, k) = MainPosition(t, k)
  BY DEF NodesOf, MainPosition

\* The search along a chain gives the first node that was looked for, or there is none on it.
LEMMA SearchIs ==
    ASSUME NEW t \in Tables, Linked(t), Ranked(t), NEW k, NEW S \in SUBSET NodesOf(t),
           Size(t) > 0 => MainPosition(t, k) \in NodesOf(t)
    PROVE  /\ Search(t, k, S) \in S \cup {Null}
           /\ Search(t, k, S) = Null => \A i \in S : ~Reach(t, MainPosition(t, k), i)
           /\ Search(t, k, S) # Null =>
                /\ Reach(t, MainPosition(t, k), Search(t, k, S))
                /\ \A i \in S : Reach(t, MainPosition(t, k), i) => Reach(t, Search(t, k, S), i)
  <1> DEFINE D == NodesOf(t) \cup {Null}
             nxt == [i \in NodesOf(t) |-> Node(t, i).next]
             walked == CHOOSE w : w = [i \in D |-> IF i = Null \/ i \in S THEN i
                                                    ELSE w[Node(t, i).next]]
             mp == MainPosition(t, k)
  <1>1. CASE S = {}
    BY <1>1 DEF Search
  <1>2. CASE S # {}
    <2>1. mp \in NodesOf(t)
      <3>1. Size(t) \in Nat
        BY NodeIs
      <3> HIDE DEF mp, walked
      <3>2. PICK i : i \in S
        BY <1>2
      <3>3. i \in 0..(Size(t) - 1)
        BY <3>2 DEF NodesOf
      <3>4. Size(t) > 0
        BY <3>1, <3>3
      <3> QED
        BY <3>4 DEF mp
    <2>2. Search(t, k, S) = walked[mp]
      BY <1>2 DEF Search
    <2>3. walked = [i \in D |-> IF i = Null \/ i \in S THEN i ELSE walked[Node(t, i).next]]
      <3> DEFINE Stop == S \cup {Null}
                 out == [i \in D |-> i]
      <3>1. Stop \in SUBSET D /\ \A i \in D \ Stop : nxt[i] \in D
        BY DEF Linked
      <3>2. Goes(Going(D, Stop, out, nxt), D, Stop, out, nxt)
        <4>1. Stop \in SUBSET D
          BY <3>1
        <4>2. \A i \in D \ Stop : nxt[i] \in D
          BY <3>1
        <4> HIDE DEF D, Stop, nxt, out, walked, mp
        <4> QED
          BY <4>1, <4>2, TailRecursion
      <3>3. PICK f : f = [i \in D |-> IF i \in Stop THEN out[i] ELSE f[nxt[i]]]
        BY <3>2 DEF Goes
      <3>4. f = [i \in D |-> IF i = Null \/ i \in S THEN i ELSE f[Node(t, i).next]]
        <4>1. \A i \in D : (IF i \in Stop THEN out[i] ELSE f[nxt[i]])
                           = IF i = Null \/ i \in S THEN i ELSE f[Node(t, i).next]
          OBVIOUS
        <4> QED
          BY <3>3, <4>1
      <3> QED
        BY <3>4
    <2>4. PICK rank \in [NodesOf(t) -> Nat] : Decreases(t, rank)
      BY DEF Ranked
    <2> HIDE DEF walked
    <2>5. \A i \in NodesOf(t) : walked[i] \in S \cup {Null}
      <3> DEFINE Bad == {i \in NodesOf(t) : walked[i] \notin S \cup {Null}}
                 Ranks == {rank[i] : i \in Bad}
      <3> SUFFICES ASSUME Bad # {} PROVE FALSE
        OBVIOUS
      <3>1. PICK n \in Ranks : \A m \in Ranks : n <= m
        <4>1. Ranks \subseteq Nat /\ Ranks # {}
          OBVIOUS
        <4> HIDE DEF Ranks
        <4> QED
          BY <4>1, LeastNat
      <3>2. PICK i \in Bad : n = rank[i]
        BY <3>1
      <3>3. i \notin S \cup {Null} /\ walked[i] = walked[Node(t, i).next]
        BY <2>3, <3>2
      <3>4. CASE Node(t, i).next = Null
        BY <2>3, <3>2, <3>3, <3>4
      <3>5. CASE Node(t, i).next # Null
        <4>1. Node(t, i).next \in Bad
          BY <3>2, <3>3, <3>5 DEF Linked
        <4>2. rank[Node(t, i).next] < rank[i] /\ rank[Node(t, i).next] \in Nat /\ rank[i] \in Nat
          BY <2>4, <3>2, <3>5, <4>1 DEF Decreases
        <4> QED
          BY <3>1, <3>2, <4>1, <4>2
      <3> QED
        BY <3>4, <3>5
    <2>6. ASSUME walked[mp] = Null, NEW j \in S
          PROVE  ~Reach(t, mp, j)
      <3> DEFINE C == {i \in NodesOf(t) : walked[i] = Null}
      <3>1. Closed(t, C)
        <4>1. ASSUME NEW i \in C, Node(t, i).next # Null
              PROVE  Node(t, i).next \in C
          <5>1. i \notin S
            BY <2>3, <4>1 DEF Null, NodesOf
          <5>2. walked[Node(t, i).next] = Null
            BY <2>3, <5>1 DEF Null, NodesOf
          <5> QED
            BY <4>1, <5>2 DEF Linked
        <4>2. ASSUME NEW i \in C
              PROVE  Node(t, i).next \in C \cup {Null}
          BY <4>1
        <4> HIDE DEF C
        <4> QED
          BY <4>2 DEF Closed
      <3>2. j \notin C
        BY <2>3 DEF Null, NodesOf
      <3> QED
        BY <2>1, <2>6, <3>1, <3>2 DEF Reach
    <2>7. ASSUME walked[mp] # Null, NEW i \in S, Reach(t, mp, i)
          PROVE  Reach(t, walked[mp], i)
      <3> DEFINE j == walked[mp]
                 C == {x \in NodesOf(t) : walked[x] = j \/ Reach(t, j, x)}
      <3>1. j \in S /\ j # Null /\ Reach(t, j, j)
        BY <2>1, <2>5, <2>7 DEF Reach
      <3>2. \A x \in NodesOf(t) : x \in S => walked[x] = x
        BY <2>3
      <3>3. ASSUME NEW x \in C
            PROVE  Node(t, x).next \in C \cup {Null}
        <4>1. x \in NodesOf(t) /\ Node(t, x).next \in NodesOf(t) \cup {Null}
          BY DEF Linked
        <4>2. CASE Reach(t, j, x)
          <5>1. Node(t, x).next # Null => Reach(t, j, Node(t, x).next)
            BY <4>1, <4>2 DEF Reach, Closed
          <5> QED
            BY <4>1, <5>1
        <4>3. CASE ~Reach(t, j, x)
          <5>1. walked[x] = j /\ x \notin S /\ x # Null
            BY <3>1, <3>2, <4>1, <4>3 DEF Null, NodesOf
          <5>2. Node(t, x).next # Null => walked[Node(t, x).next] = j
            BY <2>3, <4>1, <5>1
          <5> QED
            BY <4>1, <5>2
        <4> QED
          BY <4>2, <4>3
      <3>4. mp \in C /\ C \in SUBSET NodesOf(t)
        BY <2>1
      <3>5. i \in C
        <4> HIDE DEF C
        <4>1. Closed(t, C)
          BY <3>3 DEF Closed
        <4> QED
          BY <2>7, <3>4, <4>1 DEF Reach
      <3>6. walked[i] = j => i = j
        BY <3>2, <3>5
      <3> QED
        BY <3>1, <3>5, <3>6
    <2>8. ASSUME walked[mp] # Null
          PROVE  Reach(t, mp, walked[mp])
      <3> SUFFICES ASSUME NEW C \in SUBSET NodesOf(t), mp \in C, Closed(t, C), walked[mp] \notin C
                   PROVE  FALSE
        BY DEF Reach
      <3> DEFINE Bad == {i \in C : walked[i] # Null /\ walked[i] \notin C}
                 Ranks == {rank[i] : i \in Bad}
      <3>1. PICK n \in Ranks : \A m \in Ranks : n <= m
        <4>1. Ranks \subseteq Nat /\ Ranks # {}
          BY <2>8
        <4> HIDE DEF Ranks
        <4> QED
          BY <4>1, LeastNat
      <3>2. PICK i \in Bad : n = rank[i]
        BY <3>1
      <3>3. i \notin S \cup {Null} /\ walked[i] = walked[Node(t, i).next] /\ Node(t, i).next \in C \cup {Null}
        BY <2>3, <3>2 DEF Closed
      <3>4. CASE Node(t, i).next = Null
        BY <2>3, <3>2, <3>3, <3>4
      <3>5. CASE Node(t, i).next # Null
        <4>1. Node(t, i).next \in Bad
          BY <3>2, <3>3, <3>5
        <4>2. rank[Node(t, i).next] < rank[i] /\ rank[Node(t, i).next] \in Nat /\ rank[i] \in Nat
          BY <2>4, <3>2, <3>5, <4>1 DEF Decreases
        <4> QED
          BY <3>1, <3>2, <4>1, <4>2
      <3> QED
        BY <3>4, <3>5
    <2> QED
      BY <2>1, <2>2, <2>5, <2>6, <2>7, <2>8
  <1> QED
    BY <1>1, <1>2


-----------------------------------------------------------------------------
(* The hash part.                                                           *)

\* No two nodes go on to the same node.
OneBefore(t) ==
    \A i, j \in NodesOf(t) :
       Node(t, i).next = Node(t, j).next /\ Node(t, i).next # Null => i = j
\* A node that never had a key is not on a chain.
FreeApart(t) ==
    \A i \in NodesOf(t) :
       Node(t, i).k = Nil => /\ Node(t, i).v = Nil /\ Node(t, i).next = Null /\ ~Node(t, i).dead
                             /\ \A j \in NodesOf(t) : Node(t, j).next # i
DeadAre(t) ==
    \A i \in NodesOf(t) : Node(t, i).dead => Node(t, i).k \in Names /\ Node(t, i).v = Nil
\* A key has one node; a node whose key is dead is not the node of the key.
OneNode(t) ==
    \A i, j \in NodesOf(t) :
       /\ Node(t, i).k = Node(t, j).k /\ Node(t, i).k # Nil
       /\ ~Node(t, i).dead /\ ~Node(t, j).dead
       => i = j
\* A key is on the chain that begins in its main position, and the key in that position
\* is at home.
AtHome(t, m) == m \in NodesOf(t) /\ Node(t, m).k # Nil /\ MainPosition(t, Node(t, m).k) = m
Homes(t) ==
    \A i \in NodesOf(t) :
       Node(t, i).k # Nil => /\ AtHome(t, MainPosition(t, Node(t, i).k))
                             /\ Reach(t, MainPosition(t, Node(t, i).k), i)
Chains(t) == Linked(t) /\ Ranked(t) /\ OneBefore(t) /\ FreeApart(t) /\ Homes(t)
HashOK(t) ==
    /\ t \in Tables /\ t.lastfree <= Size(t)
    /\ Chains(t) /\ DeadAre(t) /\ OneNode(t)
ArrayOK(t) == Len(t.arr) \in {0} \cup Slots(MaxBits) \/ Len(t.arr) <= MaxLen

LEMMA InKeys ==
    ASSUME NEW t \in Tables, NEW i \in NodesOf(t), Node(t, i).k # Nil
    PROVE  Node(t, i).k \in Keys /\ MainPosition(t, Node(t, i).k) \in NodesOf(t)
  <1>1. Node(t, i).k \in Keys
    BY NodeIs
  <1>2. Size(t) \in Nat /\ i \in 0..(Size(t) - 1)
    BY NodeIs DEF NodesOf
  <1> QED
    BY <1>1, <1>2, MainIs

\* A node whose key is dead comes after the node of the key.
LiveFirst(t) ==
    \A i, j \in NodesOf(t) :
       Node(t, i).k = Node(t, j).k /\ Node(t, i).k # Nil /\ ~Node(t, i).dead => Reach(t, i, j)

LEMMA ReachDown ==
    ASSUME NEW t, Linked(t), NEW rank \in [NodesOf(t) -> Nat], Decreases(t, rank),
           NEW i \in NodesOf(t), NEW j, Reach(t, i, j)
    PROVE  j \in NodesOf(t) /\ (j = i \/ rank[j] < rank[i])
  <1> DEFINE C == {x \in NodesOf(t) : x = i \/ rank[x] < rank[i]}
  <1>1. ASSUME NEW x \in C
        PROVE  Node(t, x).next \in C \cup {Null}
    <2>1. x \in NodesOf(t) /\ rank[x] <= rank[i] /\ Node(t, x).next \in NodesOf(t) \cup {Null}
      BY DEF Linked
    <2>2. Node(t, x).next # Null => rank[Node(t, x).next] < rank[x] /\ Node(t, x).next \in NodesOf(t)
      BY <2>1 DEF Decreases
    <2>3. \A y \in NodesOf(t) : rank[y] \in Nat
      OBVIOUS
    <2> QED
      BY <2>1, <2>2, <2>3
  <1>2. i \in C /\ C \in SUBSET NodesOf(t)
    OBVIOUS
  <1>3. j \in C
    <2> HIDE DEF C
    <2> QED
      BY <1>1, <1>2 DEF Reach, Closed
  <1> QED
    BY <1>3

\* So findindex, which takes a dead key for the key, finds the node of the key.
LEMMA FirstIs ==
    ASSUME NEW t, HashOK(t), LiveFirst(t), NEW i \in NodesOf(t), Node(t, i).k # Nil, ~Node(t, i).dead
    PROVE  Search(t, Node(t, i).k, {n \in NodesOf(t) : Node(t, n).k = Node(t, i).k}) = i
  <1> DEFINE k == Node(t, i).k
             S == {n \in NodesOf(t) : Node(t, n).k = k}
             mp == MainPosition(t, k)
             j == Search(t, k, S)
  <1>1. t \in Tables /\ Linked(t) /\ Ranked(t) /\ Homes(t)
    BY DEF HashOK, Chains
  <1>2. mp \in NodesOf(t) /\ Reach(t, mp, i)
    BY <1>1, InKeys DEF Homes
  <1>3. S \in SUBSET NodesOf(t) /\ i \in S /\ \A n \in S : Node(t, n).k = Node(t, i).k
    OBVIOUS
  <1> HIDE DEF S
  <1>4. /\ j \in S \cup {Null}
        /\ j = Null => \A n \in S : ~Reach(t, mp, n)
        /\ j # Null => \A n \in S : Reach(t, mp, n) => Reach(t, j, n)
    BY <1>1, <1>2, <1>3, SearchIs
  <1> HIDE DEF mp, j
  <1>5. j \in S /\ Reach(t, j, i)
    BY <1>2, <1>3, <1>4
  <1>6. j \in NodesOf(t) /\ Reach(t, i, j)
    BY <1>3, <1>5 DEF LiveFirst
  <1>7. PICK rank \in [NodesOf(t) -> Nat] : Decreases(t, rank)
    BY <1>1 DEF Ranked
  <1>8. (j = i \/ rank[j] < rank[i]) /\ (i = j \/ rank[i] < rank[j])
    BY <1>1, <1>5, <1>6, <1>7, ReachDown
  <1>9. rank[i] \in Nat /\ rank[j] \in Nat
    BY <1>6
  <1>10. j = i
    BY <1>8, <1>9
  <1> QED
    BY <1>10 DEF j, S, k

\* The search depends on the chains alone.
LEMMA SearchSame ==
    ASSUME NEW t \in Tables, Linked(t), Ranked(t), NEW u \in Tables, Linked(u), Ranked(u),
           Size(u) = Size(t), \A i \in NodesOf(t) : Node(u, i).next = Node(t, i).next,
           NEW k \in Keys, NEW S \in SUBSET NodesOf(t)
    PROVE  Search(u, k, S) = Search(t, k, S)
  <1> DEFINE mp == MainPosition(t, k)
             a == Search(t, k, S)
             b == Search(u, k, S)
  <1>1. NodesOf(u) = NodesOf(t) /\ MainPosition(u, k) = mp
    BY SameMain
  <1>2. \A C \in SUBSET NodesOf(t) : Closed(u, C) <=> Closed(t, C)
    BY DEF Closed
  <1>3. \A x, y : Reach(t, x, y) <=> Reach(u, x, y)
    BY <1>1, <1>2 DEF Reach
  <1>4. Size(t) > 0 => mp \in NodesOf(t)
    BY MainIs
  <1> HIDE DEF mp
  <1>5. /\ a \in S \cup {Null}
        /\ a = Null => \A i \in S : ~Reach(t, mp, i)
        /\ a # Null => Reach(t, mp, a) /\ \A i \in S : Reach(t, mp, i) => Reach(t, a, i)
    BY <1>4, SearchIs DEF mp
  <1>6. /\ b \in S \cup {Null}
        /\ b = Null => \A i \in S : ~Reach(u, mp, i)
        /\ b # Null => Reach(u, mp, b) /\ \A i \in S : Reach(u, mp, i) => Reach(u, b, i)
    BY <1>1, <1>4, SearchIs
  <1> HIDE DEF a, b
  <1>7. CASE a # Null /\ b # Null
    <2>1. a \in NodesOf(t) /\ b \in NodesOf(t) /\ Reach(t, a, b) /\ Reach(t, b, a)
      BY <1>3, <1>5, <1>6, <1>7
    <2>2. PICK rank \in [NodesOf(t) -> Nat] : Decreases(t, rank)
      BY DEF Ranked
    <2>3. (b = a \/ rank[b] < rank[a]) /\ (a = b \/ rank[a] < rank[b])
      BY <2>1, <2>2, ReachDown
    <2>4. rank[a] \in Nat /\ rank[b] \in Nat
      BY <2>1
    <2>5. a = b
      BY <2>3, <2>4
    <2> QED
      BY <2>5 DEF a, b
  <1>8. CASE a = Null \/ b = Null
    <2>1. a = b
      BY <1>3, <1>5, <1>6, <1>8
    <2> QED
      BY <2>1 DEF a, b
  <1> QED
    BY <1>7, <1>8

LEMMA NodeOfIs ==
    ASSUME NEW t, HashOK(t), NEW k, k # Nil
    PROVE  /\ NodeOf(t, k) # Null => /\ NodeOf(t, k) \in NodesOf(t) /\ Node(t, NodeOf(t, k)).k = k
                                     /\ ~Node(t, NodeOf(t, k)).dead
           /\ \A i \in NodesOf(t) : Node(t, i).k = k /\ ~Node(t, i).dead => NodeOf(t, k) = i
  <1> DEFINE S == {i \in NodesOf(t) : Node(t, i).k = k /\ ~Node(t, i).dead}
  <1>1. t \in Tables /\ Linked(t) /\ Ranked(t) /\ OneNode(t) /\ Homes(t)
    BY DEF HashOK, Chains
  <1>2. NodeOf(t, k) = Search(t, k, S)
    BY DEF NodeOf
  <1>3. CASE S = {}
    <2>1. NodeOf(t, k) = Null
      BY <1>2, <1>3 DEF Search
    <2> QED
      BY <1>3, <2>1
  <1>4. CASE S # {}
    <2>1. PICK j \in NodesOf(t) : Node(t, j).k = k /\ ~Node(t, j).dead
      BY <1>4
    <2>2. MainPosition(t, k) \in NodesOf(t) /\ S \in SUBSET NodesOf(t)
      BY <1>1, <2>1, InKeys
    <2>3. /\ Search(t, k, S) \in S \cup {Null}
          /\ Search(t, k, S) = Null => \A i \in S : ~Reach(t, MainPosition(t, k), i)
      <3> HIDE DEF S
      <3> QED
        BY <1>1, <2>2, SearchIs
    <2>4. Reach(t, MainPosition(t, k), j)
      BY <1>1, <2>1 DEF Homes
    <2>5. NodeOf(t, k) \in S
      BY <1>2, <2>1, <2>3, <2>4
    <2>6. \A i \in S : i = NodeOf(t, k)
      BY <1>1, <2>5 DEF OneNode
    <2> QED
      BY <2>5, <2>6
  <1> QED
    BY <1>3, <1>4

LEMMA GetIs ==
    ASSUME NEW t, HashOK(t), NEW k, k # Nil
    PROVE  /\ Get(t, k) \in Vals
           /\ ~Has(t, k) => Get(t, k) = Nil
  <1>1. t.arr \in Seq(Vals) /\ t \in Tables
    BY DEF HashOK, Tables
  <1>2. CASE InArray(t, k)
    <2>1. k \in 1..Len(t.arr) /\ Len(t.arr) \in Nat
      BY <1>1, <1>2 DEF InArray
    <2> QED
      BY <1>1, <1>2, <2>1 DEF Get, Has
  <1>3. CASE ~InArray(t, k) /\ NodeOf(t, k) = Null
    BY <1>3 DEF Get, Has, Vals
  <1>4. CASE ~InArray(t, k) /\ NodeOf(t, k) # Null
    <2>1. NodeOf(t, k) \in NodesOf(t)
      BY <1>4, NodeOfIs
    <2>2. Node(t, NodeOf(t, k)).v \in Vals
      BY <1>1, <2>1, NodeIs
    <2> QED
      BY <1>4, <2>2 DEF Get, Has
  <1> QED
    BY <1>2, <1>3, <1>4

\* A table whose nodes differ only in their values, where they have a key, and in which
\* string keys without a value are dead.
LEMMA ChainsSame ==
    ASSUME NEW t, NEW u, Size(u) = Size(t), Chains(t),
           \A i \in NodesOf(t) : /\ Node(u, i).k = Node(t, i).k /\ Node(u, i).next = Node(t, i).next
                                 /\ Node(t, i).k = Nil => Node(u, i).v = Nil /\ ~Node(u, i).dead
    PROVE  Chains(u)
  <1>1. NodesOf(u) = NodesOf(t) /\ \A k : MainPosition(u, k) = MainPosition(t, k)
    BY SameMain
  <1>2. Linked(u) /\ OneBefore(u)
    BY <1>1 DEF Chains, Linked, OneBefore
  <1>3. Ranked(u)
    BY <1>1 DEF Chains, Ranked, Linked, Decreases
  <1>4. FreeApart(u)
    BY <1>1 DEF Chains, FreeApart
  <1>5. Homes(u)
    <2>1. \A C \in SUBSET NodesOf(t) : Closed(u, C) <=> Closed(t, C)
      BY DEF Closed
    <2>2. \A m, i : Reach(t, m, i) <=> Reach(u, m, i)
      BY <1>1, <2>1 DEF Reach
    <2>3. \A m : AtHome(t, m) => AtHome(u, m)
      BY <1>1 DEF AtHome
    <2> QED
      BY <1>1, <2>2, <2>3 DEF Chains, Homes
  <1> QED
    BY <1>2, <1>3, <1>4, <1>5 DEF Chains

\* No key that belongs into the array has a node.
NoShadow(t) == \A i \in NodesOf(t) : ~InArray(t, Node(t, i).k)
\* A node holds x for j.
Entry(t, j, x) == \E i \in NodesOf(t) : Node(t, i).k = j /\ Node(t, i).v = x

LEMMA GetHash ==
    ASSUME NEW t, HashOK(t), NEW j \in Keys, ~InArray(t, j)
    PROVE  /\ Get(t, j) # Nil => Entry(t, j, Get(t, j))
           /\ \A x : x # Nil /\ Entry(t, j, x) => Get(t, j) = x
           /\ \A i \in NodesOf(t) : Node(t, i).k = j /\ ~Node(t, i).dead => Get(t, j) = Node(t, i).v
  <1>1. j # Nil /\ DeadAre(t) /\ t \in Tables
    BY Sizes DEF HashOK
  <1>2. \A i \in NodesOf(t) : i # Null
    BY <1>1, NodeIs DEF Null
  <1>3. ASSUME NEW i \in NodesOf(t), Node(t, i).k = j, ~Node(t, i).dead
        PROVE  Get(t, j) = Node(t, i).v
    <2>1. NodeOf(t, j) = i
      BY <1>1, <1>3, NodeOfIs
    <2> QED
      BY <1>2, <2>1 DEF Get
  <1>4. ASSUME Get(t, j) # Nil
        PROVE  Entry(t, j, Get(t, j))
    <2>1. NodeOf(t, j) # Null /\ Get(t, j) = Node(t, NodeOf(t, j)).v
      BY <1>4 DEF Get
    <2>2. NodeOf(t, j) \in NodesOf(t) /\ Node(t, NodeOf(t, j)).k = j
      BY <1>1, <2>1, NodeOfIs
    <2> QED
      BY <2>1, <2>2 DEF Entry
  <1>5. ASSUME NEW x, x # Nil, Entry(t, j, x)
        PROVE  Get(t, j) = x
    <2>1. PICK i \in NodesOf(t) : Node(t, i).k = j /\ Node(t, i).v = x
      BY <1>5 DEF Entry
    <2>2. ~Node(t, i).dead
      BY <1>1, <1>5, <2>1 DEF DeadAre
    <2> QED
      BY <1>3, <2>1, <2>2
  <1> QED
    BY <1>3, <1>4, <1>5

\* The value of a key depends on the nodes that hold something for it.
SameEntries(u, t, j) == \A x : x # Nil => (Entry(u, j, x) <=> Entry(t, j, x))
LEMMA GetSame ==
    ASSUME NEW t, HashOK(t), NEW u, HashOK(u), NEW j \in Keys,
           ~InArray(t, j), ~InArray(u, j), SameEntries(u, t, j)
    PROVE  Get(u, j) = Get(t, j)
  <1>1. CASE Get(t, j) # Nil
    <2>1. Entry(u, j, Get(t, j))
      BY <1>1, GetHash DEF SameEntries
    <2> QED
      BY <1>1, <2>1, GetHash
  <1>2. CASE Get(t, j) = Nil
    <2> SUFFICES ASSUME Get(u, j) # Nil PROVE FALSE
      BY <1>2
    <2>1. Entry(t, j, Get(u, j))
      BY GetHash DEF SameEntries
    <2> QED
      BY <1>2, <2>1, GetHash
  <1> QED
    BY <1>1, <1>2

SizeOK(t) == Size(t) = 0 \/ Size(t) \in Slots(Size(t))
\* The search for a free node has passed the nodes that have a key alone.
Below(t) == \A i \in NodesOf(t) : Node(t, i).k = Nil => i < t.lastfree
TableOK(t) == HashOK(t) /\ ArrayOK(t) /\ SizeOK(t) /\ Below(t) /\ NoShadow(t) /\ LiveFirst(t)
Occupied(t) == {i \in NodesOf(t) : Node(t, i).k # Nil}

LEMMA SeqIs ==
    ASSUME NEW S, NEW n \in Nat, NEW f \in [1..n -> S]
    PROVE  f \in Seq(S) /\ Len(f) = n
  OBVIOUS

IsStored(u, t, k, v) ==
    /\ u \in Tables /\ u.flags = {} /\ u.lastfree = t.lastfree
    /\ Len(u.arr) = Len(t.arr) /\ Size(u) = Size(t)
    /\ u.arr = IF InArray(t, k) THEN [t.arr EXCEPT ![k] = v] ELSE t.arr
    /\ \A i \in NodesOf(t) :
          /\ Node(u, i).k = Node(t, i).k /\ Node(u, i).dead = Node(t, i).dead
          /\ Node(u, i).next = Node(t, i).next
          /\ Node(u, i).v = IF ~InArray(t, k) /\ NodeOf(t, k) = i THEN v ELSE Node(t, i).v

LEMMA StoreIs ==
    ASSUME NEW t \in Tables, NEW k, NEW v \in Vals,
           NodeOf(t, k) # Null => NodeOf(t, k) \in NodesOf(t)
    PROVE  IsStored(Store(t, k, v), t, k, v)
  <1> DEFINE u == Store(t, k, v)
  <1>1. /\ t.arr \in Seq(Vals) /\ t.node \in Seq(Nodes) /\ t.lastfree \in Nat /\ t.flags \in SUBSET Events
        /\ t = [arr |-> t.arr, node |-> t.node, lastfree |-> t.lastfree, flags |-> t.flags]
    BY DEF Tables
  <1>2. CASE InArray(t, k)
    <2>1. u = [t EXCEPT !.arr[k] = v, !.flags = {}]
      BY <1>2 DEF Store
    <2>2. u = [arr |-> [t.arr EXCEPT ![k] = v], node |-> t.node, lastfree |-> t.lastfree, flags |-> {}]
      BY <1>1, <2>1
    <2>3. [t.arr EXCEPT ![k] = v] \in Seq(Vals) /\ Len([t.arr EXCEPT ![k] = v]) = Len(t.arr)
      <3>1. t.arr \in [1..Len(t.arr) -> Vals] /\ Len(t.arr) \in Nat
        BY <1>1
      <3>2. [t.arr EXCEPT ![k] = v] \in [1..Len(t.arr) -> Vals]
        BY <3>1
      <3> QED
        BY <3>1, <3>2, SeqIs
    <2>4. u.node = t.node /\ Size(u) = Size(t) /\ u \in Tables
      BY <1>1, <2>2, <2>3 DEF Size, Tables
    <2> HIDE DEF u
    <2>5. \A i \in NodesOf(t) : Node(u, i) = Node(t, i)
      BY <2>4 DEF Node
    <2>6. u.flags = {} /\ u.lastfree = t.lastfree /\ Len(u.arr) = Len(t.arr)
          /\ u.arr = [t.arr EXCEPT ![k] = v]
      BY <2>2, <2>3
    <2>7. IsStored(u, t, k, v)
      BY <1>2, <2>4, <2>5, <2>6 DEF IsStored
    <2> QED
      BY <2>7 DEF u
  <1>3. CASE ~InArray(t, k)
    <2> DEFINE n == NodeOf(t, k)
               ns == [t.node EXCEPT ![n + 1].v = v]
    <2>1. u = [t EXCEPT !.node[NodeOf(t, k) + 1].v = v, !.flags = {}]
      BY <1>3 DEF Store
    <2>2. u = [arr |-> t.arr, node |-> ns, lastfree |-> t.lastfree, flags |-> {}]
      BY <1>1, <2>1
    <2>3. ns \in Seq(Nodes) /\ Len(ns) = Len(t.node)
          /\ \A i \in 1..Len(t.node) : ns[i] = IF i = n + 1 THEN [t.node[i] EXCEPT !.v = v] ELSE t.node[i]
      <3>1. \A x \in Nodes : [x EXCEPT !.v = v] \in Nodes
        BY DEF Nodes
      <3>2. DOMAIN t.node = 1..Len(t.node) /\ Len(t.node) \in Nat
        BY <1>1
      <3>3. \A i \in 1..Len(t.node) : t.node[i] \in Nodes
        BY <1>1
      <3>4. ns = [i \in 1..Len(t.node) |-> IF i = n + 1 THEN [t.node[i] EXCEPT !.v = v] ELSE t.node[i]]
        BY <3>2
      <3> HIDE DEF ns, n
      <3>5. \A i \in 1..Len(t.node) : ns[i] \in Nodes
        BY <3>1, <3>3, <3>4
      <3>6. ns \in [1..Len(t.node) -> Nodes]
        BY <3>4, <3>5
      <3>7. Len(ns) = Len(t.node) /\ ns \in Seq(Nodes)
        BY <3>2, <3>6, SeqIs
      <3> QED
        BY <3>4, <3>7
    <2>4. u.node = ns /\ Size(u) = Size(t) /\ u \in Tables
      BY <1>1, <2>2, <2>3 DEF Size, Tables
    <2> HIDE DEF u, ns
    <2>5. ASSUME NEW i \in NodesOf(t)
          PROVE  /\ Node(u, i).k = Node(t, i).k /\ Node(u, i).dead = Node(t, i).dead
                 /\ Node(u, i).next = Node(t, i).next
                 /\ Node(u, i).v = IF NodeOf(t, k) = i THEN v ELSE Node(t, i).v
      <3>1. i \in Nat /\ i + 1 \in 1..Len(t.node) /\ Node(t, i) \in Nodes
        BY NodeIs DEF Size
      <3>2. n = Null \/ n \in Nat
        BY NodeIs DEF NodesOf
      <3>3. n = i <=> i + 1 = n + 1
        BY <3>1, <3>2 DEF Null
      <3>4. Node(u, i) = IF n = i THEN [Node(t, i) EXCEPT !.v = v] ELSE Node(t, i)
        BY <2>3, <2>4, <3>1, <3>3 DEF Node
      <3>5. /\ [Node(t, i) EXCEPT !.v = v].k = Node(t, i).k /\ [Node(t, i) EXCEPT !.v = v].v = v
            /\ [Node(t, i) EXCEPT !.v = v].dead = Node(t, i).dead
            /\ [Node(t, i) EXCEPT !.v = v].next = Node(t, i).next
        BY <3>1 DEF Nodes
      <3> QED
        BY <3>4, <3>5
    <2>6. u.flags = {} /\ u.lastfree = t.lastfree /\ u.arr = t.arr
      BY <2>2, <2>3
    <2>7. IsStored(u, t, k, v)
      BY <1>3, <2>4, <2>5, <2>6 DEF IsStored
    <2> QED
      BY <2>7 DEF u
  <1> QED
    BY <1>2, <1>3

\* The key k has the value v, and the others have what they had.
Sets(u, t, k, v) ==
    Has(u, k) /\ \A j \in Keys : Get(u, j) = IF j = k THEN v ELSE Get(t, j)

\* A table with the same chains and keys, in which no dead key has come to life.
LEMMA FirstSame ==
    ASSUME NEW t, NEW u, Size(u) = Size(t), LiveFirst(t),
           \A i \in NodesOf(t) : /\ Node(u, i).k = Node(t, i).k /\ Node(u, i).next = Node(t, i).next
                                 /\ Node(t, i).k # Nil /\ ~Node(u, i).dead => ~Node(t, i).dead
    PROVE  LiveFirst(u)
  <1>1. NodesOf(u) = NodesOf(t)
    BY SameMain
  <1>2. \A C \in SUBSET NodesOf(t) : Closed(u, C) <=> Closed(t, C)
    BY DEF Closed
  <1>3. \A a, b : Reach(t, a, b) <=> Reach(u, a, b)
    BY <1>1, <1>2 DEF Reach
  <1> QED
    BY <1>1, <1>3 DEF LiveFirst

LEMMA StoreKeeps ==
    ASSUME NEW t, TableOK(t), NEW k \in Keys, NEW v \in Vals
    PROVE  LET u == Store(t, k, v)
           IN  /\ TableOK(u) /\ (Has(t, k) => Sets(u, t, k, v)) /\ u.flags = {} /\ Size(u) = Size(t) /\ Len(u.arr) = Len(t.arr)
               /\ Occupied(u) = Occupied(t)
  <1> DEFINE u == Store(t, k, v)
  <1>1. /\ t \in Tables /\ t.lastfree <= Size(t) /\ Chains(t) /\ DeadAre(t) /\ OneNode(t)
        /\ HashOK(t) /\ ArrayOK(t) /\ SizeOK(t) /\ Below(t) /\ NoShadow(t) /\ LiveFirst(t) /\ k # Nil
    BY Sizes DEF TableOK, HashOK
  <1>2. NodeOf(t, k) # Null => /\ NodeOf(t, k) \in NodesOf(t) /\ Node(t, NodeOf(t, k)).k = k
                               /\ ~Node(t, NodeOf(t, k)).dead
    BY <1>1, NodeOfIs
  <1>3. IsStored(u, t, k, v)
    BY <1>1, <1>2, StoreIs
  <1> USE DEF IsStored
  <1> HIDE DEF u
  <1>4. Chains(u)
    <2>1. \A i \in NodesOf(t) : Node(t, i).k = Nil => Node(u, i).v = Nil /\ ~Node(u, i).dead
      <3>0. \A i \in NodesOf(t) : i # Null
        BY <1>1, NodeIs DEF NodesOf, Null
      <3> QED
        BY <1>1, <1>2, <1>3, <3>0 DEF Chains, FreeApart
    <2> QED
      BY <1>1, <1>3, <2>1, ChainsSame
  <1>5. NodesOf(u) = NodesOf(t)
    BY <1>3, SameMain
  <1>6. DeadAre(u) /\ OneNode(u)
    <2>0. \A i \in NodesOf(t) : i # Null
        BY <1>1, NodeIs DEF NodesOf, Null
    <2> QED
      BY <1>1, <1>2, <1>3, <1>5, <2>0 DEF DeadAre, OneNode
  <1>7. Occupied(u) = Occupied(t) /\ Below(u)
    BY <1>1, <1>3, <1>5 DEF Occupied, Below
  <1>8. ArrayOK(u) /\ SizeOK(u)
    BY <1>1, <1>3 DEF ArrayOK, SizeOK
  <1>9. NoShadow(u) /\ \A j : InArray(u, j) <=> InArray(t, j)
    BY <1>1, <1>3, <1>5 DEF NoShadow, InArray
  <1>14. LiveFirst(u)
    BY <1>1, <1>3, FirstSame
  <1>10. TableOK(u) /\ HashOK(u)
    BY <1>1, <1>3, <1>4, <1>6, <1>7, <1>8, <1>9, <1>14 DEF TableOK, HashOK
  <1>11. ASSUME Has(t, k), NEW j \in Keys
         PROVE  Get(u, j) = IF j = k THEN v ELSE Get(t, j)
    <2>1. CASE InArray(t, j)
      <3>1. Get(u, j) = u.arr[j] /\ Get(t, j) = t.arr[j]
        BY <1>9, <2>1 DEF Get
      <3>2. t.arr \in Seq(Vals) /\ j \in 1..Len(t.arr)
        BY <1>1, <2>1 DEF Tables, InArray
      <3>3. [t.arr EXCEPT ![k] = v][j] = IF j = k THEN v ELSE t.arr[j]
        BY <3>2
      <3>4. u.arr = IF InArray(t, k) THEN [t.arr EXCEPT ![k] = v] ELSE t.arr
        BY <1>3
      <3> QED
        BY <2>1, <3>1, <3>3, <3>4
    <2>2. CASE ~InArray(t, j) /\ j # k
      <3>1. \A i \in NodesOf(t) : Node(t, i).k = j => i # NodeOf(t, k)
        BY <1>1, <1>2, <2>2, NodeIs DEF Null, NodesOf
      <3>2. \A x : Entry(u, j, x) <=> Entry(t, j, x)
        BY <1>3, <1>5, <3>1 DEF Entry
      <3>3. Get(u, j) = Get(t, j)
        BY <1>1, <1>9, <1>10, <2>2, <3>2, GetSame DEF SameEntries
      <3> QED
        BY <2>2, <3>3
    <2>3. CASE ~InArray(t, j) /\ j = k
      <3> DEFINE i == NodeOf(t, k)
      <3>1. i # Null
        BY <1>11, <2>3 DEF Has
      <3>2. i \in NodesOf(u) /\ Node(u, i).k = j /\ ~Node(u, i).dead /\ Node(u, i).v = v
        BY <1>2, <1>3, <1>5, <2>3, <3>1
      <3> QED
        BY <1>9, <1>10, <2>3, <3>2, GetHash
    <2> QED
      BY <2>1, <2>2, <2>3
  <1>13. Has(t, k) => Has(u, k)
    <2>1. CASE InArray(t, k)
      BY <1>9, <2>1 DEF Has
    <2>2. CASE NodeOf(t, k) # Null
      <3>1. NodeOf(u, k) = NodeOf(t, k)
        BY <1>1, <1>2, <1>3, <1>5, <1>10, <2>2, NodeOfIs
      <3> QED
        BY <2>2, <3>1 DEF Has
    <2> QED
      BY <2>1, <2>2 DEF Has
  <1>12. Has(t, k) => Sets(u, t, k, v)
    BY <1>11, <1>13 DEF Sets
  <1> QED
    BY <1>1, <1>3, <1>7, <1>10, <1>12 DEF u

Bounded(S, b) == \A x \in S : x <= b
LEMMA MaxIs ==
    ASSUME NEW S \in SUBSET Int, S # {}, NEW b \in Int, Bounded(S, b)
    PROVE  Max(S) \in S /\ \A y \in S : y <= Max(S)
  <1> USE DEF Bounded
  <1> DEFINE D == {b - x : x \in S}
  <1>1. PICK d \in D : \A e \in D : d <= e
    <2>1. D \subseteq Nat
      <3>1. \A x \in S : b - x \in Nat
        OBVIOUS
      <3> QED
        BY <3>1
    <2>2. D # {}
      OBVIOUS
    <2> HIDE DEF D
    <2> QED
      BY <2>1, <2>2, LeastNat
  <1>2. PICK x \in S : d = b - x
    BY <1>1
  <1>3. \A y \in S : x >= y
    <2>1. ASSUME NEW y \in S
          PROVE  x >= y
      <3>1. b - y \in D
        OBVIOUS
      <3>2. b - x <= b - y
        BY <1>1, <1>2, <3>1
      <3> QED
        BY <3>2
    <2> QED
      BY <2>1
  <1>4. Max(S) \in S /\ \A y \in S : Max(S) >= y
    BY <1>3 DEF Max
  <1> QED
    BY <1>4

LEMMA MinIs ==
    ASSUME NEW S \in SUBSET Nat, S # {}
    PROVE  Min(S) \in S /\ \A y \in S : Min(S) <= y
  <1>1. PICK n \in S : \A m \in S : n <= m
    BY LeastNat
  <1> QED
    BY <1>1 DEF Min

\* A key placed in its main position, in a free node n after the key that is at home in
\* its main position, and in the place of a key that moves to a free node n, which
\* node b has before it.
IsNode(x, k, v, nx) == x.k = k /\ x.v = v /\ ~x.dead /\ x.next = nx
Rest(u, t, S) == \A i \in NodesOf(t) \ S : Node(u, i) = Node(t, i)
Like(u, t, n) ==
    u \in Tables /\ u.arr = t.arr /\ u.flags = t.flags /\ u.lastfree = n /\ Size(u) = Size(t)
PlacedHome(u, t, k, v, m) ==
    /\ Like(u, t, t.lastfree) /\ Rest(u, t, {m})
    /\ IsNode(Node(u, m), k, v, Node(t, m).next)
PlacedAfter(u, t, k, v, m, n) ==
    /\ Like(u, t, n) /\ Rest(u, t, {m, n})
    /\ IsNode(Node(u, n), k, v, Node(t, m).next)
    /\ IsNode(Node(u, m), Node(t, m).k, Node(t, m).v, n)
PlacedMoving(u, t, k, v, m, n, b) ==
    /\ Like(u, t, n) /\ Rest(u, t, {m, n, b})
    /\ IsNode(Node(u, m), k, v, Null)
    /\ IsNode(Node(u, n), Node(t, m).k, Node(t, m).v, Node(t, m).next)
    /\ Node(u, b).k = Node(t, b).k /\ Node(u, b).v = Node(t, b).v
    /\ Node(u, b).dead = Node(t, b).dead /\ Node(u, b).next = n

NodesAre(u, t, n, ns) == u = [arr |-> t.arr, node |-> ns, lastfree |-> n, flags |-> t.flags]
Replaced(u, t, n, ns) == Like(u, t, n) /\ \A i : Node(u, i) = ns[i + 1]
LEMMA NodesReplaced ==
    ASSUME NEW t \in Tables, NEW n \in Nat, NEW ns \in [1..Size(t) -> Nodes],
           NEW u, NodesAre(u, t, n, ns)
    PROVE  Replaced(u, t, n, ns)
  <1> USE DEF NodesAre, Replaced
  <1>1. /\ t.arr \in Seq(Vals) /\ t.node \in Seq(Nodes) /\ t.lastfree \in Nat /\ t.flags \in SUBSET Events
    BY DEF Tables
  <1>2. Size(t) \in Nat
    BY NodeIs
  <1>3. ns \in Seq(Nodes) /\ Len(ns) = Size(t)
    BY <1>2, SeqIs
  <1>4. u \in Tables /\ u.arr = t.arr /\ u.flags = t.flags /\ u.lastfree = n /\ u.node = ns
    BY <1>1, <1>3 DEF Tables
  <1> QED
    BY <1>3, <1>4 DEF Like, Size, Node

NewNode(k, v, nx) == [FreeNode EXCEPT !.k = k, !.v = v, !.next = nx]
LEMMA NewNodeIs ==
    ASSUME NEW k \in Keys, NEW v \in Vals, NEW nx \in Nat \cup {Null}
    PROVE  /\ NewNode(k, v, nx) \in Nodes /\ IsNode(NewNode(k, v, nx), k, v, nx)
           /\ [[FreeNode EXCEPT !.k = k, !.v = v] EXCEPT !.next = nx] = NewNode(k, v, nx)
  <1> DEFINE R == FreeNode
             Q == [R EXCEPT !.k = k, !.v = v, !.next = nx]
             P == [[R EXCEPT !.k = k, !.v = v] EXCEPT !.next = nx]
             F == [x \in {"k", "dead", "v", "next"} |->
                     IF x = "k" THEN k ELSE IF x = "v" THEN v ELSE IF x = "next" THEN nx ELSE R[x]]
  <1>1. R = [x \in {"k", "dead", "v", "next"} |-> R[x]] /\ ~R.dead /\ R.dead \in BOOLEAN
    BY DEF FreeNode
  <1> HIDE DEF R
  <1>2. Q = F /\ P = F
    BY <1>1
  <1>3. F.k = k /\ F.v = v /\ F.next = nx /\ F.dead = R.dead
    OBVIOUS
  <1>4. F \in Nodes
    BY <1>1, <1>3 DEF Nodes
  <1> QED
    BY <1>1, <1>2, <1>3, <1>4 DEF NewNode, IsNode, R

LEMMA PlaceHome ==
    ASSUME NEW t \in Tables, NEW k \in Keys, NEW v \in Vals,
           MainPosition(t, k) \in NodesOf(t), Node(t, MainPosition(t, k)).v = Nil
    PROVE  PlacedHome(Place(t, k, v), t, k, v, MainPosition(t, k))
  <1> DEFINE u == Place(t, k, v)
             mp == MainPosition(t, k)
             new == NewNode(k, v, Node(t, mp).next)
             ns == [t.node EXCEPT ![mp + 1] = new]
  <1>1. u = [t EXCEPT !.node[mp + 1] = [[FreeNode EXCEPT !.k = k, !.v = v] EXCEPT !.next = Node(t, mp).next]]
    BY DEF Place
  <1>2. Node(t, mp).next \in Nat \cup {Null} /\ mp \in Nat /\ mp + 1 \in 1..Size(t)
    BY NodeIs
  <1>3. new \in Nodes /\ IsNode(new, k, v, Node(t, mp).next)
        /\ new = [[FreeNode EXCEPT !.k = k, !.v = v] EXCEPT !.next = Node(t, mp).next]
    BY <1>2, NewNodeIs
  <1>4. u = [t EXCEPT !.node[mp + 1] = new]
    BY <1>1, <1>3
  <1> HIDE DEF new, u, mp
  <1>5. u = [arr |-> t.arr, node |-> ns, lastfree |-> t.lastfree, flags |-> t.flags] /\ t.lastfree \in Nat
    BY <1>4 DEF Tables
  <1>6. t.node \in [1..Size(t) -> Nodes]
    <2>1. t.node \in Seq(Nodes)
      BY DEF Tables
    <2> QED
      BY <2>1 DEF Size
  <1>7. ns \in [1..Size(t) -> Nodes] /\ ns[mp + 1] = new /\ \A i \in 1..Size(t) : i # mp + 1 => ns[i] = t.node[i]
    BY <1>2, <1>3, <1>6
  <1> HIDE DEF ns
  <1>8. Like(u, t, t.lastfree) /\ \A i : Node(u, i) = ns[i + 1]
    <2>1. NodesAre(u, t, t.lastfree, ns)
      BY <1>5 DEF NodesAre
    <2> QED
      <3>1. t.lastfree \in Nat /\ ns \in [1..Size(t) -> Nodes]
        BY <1>5, <1>7
      <3>2. Replaced(u, t, t.lastfree, ns)
        BY <2>1, <3>1, NodesReplaced
      <3> QED
        BY <3>2 DEF Replaced
  <1>9. Rest(u, t, {mp})
    <2>1. ASSUME NEW i \in NodesOf(t), i # mp
          PROVE  Node(u, i) = Node(t, i)
      <3>1. i + 1 \in 1..Size(t) /\ i + 1 # mp + 1
        BY <1>2, <2>1, NodeIs
      <3> QED
        BY <1>7, <1>8, <3>1 DEF Node
    <2> QED
      BY <2>1 DEF Rest
  <1>10. Node(u, mp) = new
    BY <1>7, <1>8
  <1> QED
    BY <1>3, <1>8, <1>9, <1>10 DEF PlacedHome, u, mp

LEMMA PlaceAfter ==
    ASSUME NEW t \in Tables, NEW k \in Keys, NEW v \in Vals, NEW m, NEW n \in NodesOf(t),
           m = MainPosition(t, k), m \in NodesOf(t), n # m, n = Max(FreeNodes(t)),
           Node(t, m).v # Nil, MainPosition(t, Node(t, m).k) = m, ~Node(t, m).dead
    PROVE  PlacedAfter(Place(t, k, v), t, k, v, m, n)
  <1> DEFINE u == Place(t, k, v)
             new == NewNode(k, v, Node(t, m).next)
             x == t.node[m + 1]
             linked == [x EXCEPT !.next = n]
             ns == [[t.node EXCEPT ![n + 1] = new] EXCEPT ![m + 1] = linked]
             taken == [t EXCEPT !.lastfree = n]
  <1>1. u = [taken EXCEPT !.node = [@ EXCEPT ![n + 1] = [[FreeNode EXCEPT !.k = k, !.v = v] EXCEPT !.next = Node(t, m).next],
                                             ![m + 1].next = n]]
    BY DEF Place
  <1>2. /\ Node(t, m).next \in Nat \cup {Null} /\ m \in Nat /\ m + 1 \in 1..Size(t)
        /\ n \in Nat /\ n + 1 \in 1..Size(t) /\ n + 1 # m + 1
    BY NodeIs
  <1>3. new \in Nodes /\ IsNode(new, k, v, Node(t, m).next)
        /\ new = [[FreeNode EXCEPT !.k = k, !.v = v] EXCEPT !.next = Node(t, m).next]
    <2> DEFINE nx == Node(t, m).next
    <2>1. nx \in Nat \cup {Null}
      BY <1>2
    <2> HIDE DEF nx
    <2>2. /\ NewNode(k, v, nx) \in Nodes /\ IsNode(NewNode(k, v, nx), k, v, nx)
          /\ [[FreeNode EXCEPT !.k = k, !.v = v] EXCEPT !.next = nx] = NewNode(k, v, nx)
      BY <2>1, NewNodeIs
    <2> QED
      BY <2>2 DEF nx
  <1> HIDE DEF new, u
  <1>4. t.node \in [1..Size(t) -> Nodes] /\ t.lastfree \in Nat
        /\ t = [arr |-> t.arr, node |-> t.node, lastfree |-> t.lastfree, flags |-> t.flags]
    <2>1. t.node \in Seq(Nodes)
      BY DEF Tables
    <2>2. t.node \in [1..Size(t) -> Nodes]
      BY <2>1 DEF Size
    <2> QED
      BY <2>2 DEF Tables
  <1>5. taken = [arr |-> t.arr, node |-> t.node, lastfree |-> n, flags |-> t.flags]
    BY <1>4
  <1>6. u = [taken EXCEPT !.node = [@ EXCEPT ![n + 1] = new, ![m + 1].next = n]]
    BY <1>1, <1>3
  <1>7. [taken.node EXCEPT ![n + 1] = new, ![m + 1].next = n] = ns
    BY <1>2, <1>4, <1>5
  <1>8. u = [arr |-> t.arr, node |-> ns, lastfree |-> n, flags |-> t.flags]
    <2> DEFINE M == [taken.node EXCEPT ![n + 1] = new, ![m + 1].next = n]
    <2>1. u = [taken EXCEPT !.node = M]
      BY <1>6
    <2> HIDE DEF M, ns, taken
    <2>2. M = ns
      BY <1>7 DEF M
    <2> QED
      BY <1>5, <2>1, <2>2
  <1>9. x \in Nodes /\ x = Node(t, m)
    BY <1>2, <1>4 DEF Node
  <1> HIDE DEF x
  <1>10. linked \in Nodes /\ IsNode(linked, x.k, x.v, n)
    BY <1>2, <1>9 DEF Nodes, IsNode
  <1> HIDE DEF linked
  <1>11. ns \in [1..Size(t) -> Nodes] /\ ns[n + 1] = new /\ ns[m + 1] = linked
         /\ \A i \in 1..Size(t) : i # m + 1 /\ i # n + 1 => ns[i] = t.node[i]
    BY <1>2, <1>3, <1>4, <1>10
  <1> HIDE DEF ns
  <1>12. Like(u, t, n) /\ \A i : Node(u, i) = ns[i + 1]
    <2>1. n \in Nat
      BY <1>2
    <2>2. ns \in [1..Size(t) -> Nodes]
      BY <1>11
    <2>3. NodesAre(u, t, n, ns)
      BY <1>8 DEF NodesAre
    <2>4. Replaced(u, t, n, ns)
      BY <2>1, <2>2, <2>3, NodesReplaced
    <2> QED
      BY <2>4 DEF Replaced
  <1>13. Rest(u, t, {m, n})
    <2>1. ASSUME NEW i \in NodesOf(t), i # m, i # n
          PROVE  Node(u, i) = Node(t, i)
      <3>1. i + 1 \in 1..Size(t) /\ i + 1 # m + 1 /\ i + 1 # n + 1
        BY <1>2, <2>1, NodeIs
      <3> QED
        BY <1>11, <1>12, <3>1 DEF Node
    <2> QED
      BY <2>1 DEF Rest
  <1>14. Node(u, n) = new /\ Node(u, m) = linked
    BY <1>11, <1>12
  <1> QED
    BY <1>3, <1>9, <1>10, <1>12, <1>13, <1>14 DEF PlacedAfter, u

LEMMA PlaceMoving ==
    ASSUME NEW t \in Tables, NEW k \in Keys, NEW v \in Vals, NEW m, NEW n \in NodesOf(t),
           NEW b \in NodesOf(t),
           m = MainPosition(t, k), m \in NodesOf(t), n # m, n = Max(FreeNodes(t)), n # b, m # b,
           Node(t, m).v # Nil, MainPosition(t, Node(t, m).k) # m, ~Node(t, m).dead,
           b = Search(t, Node(t, m).k, {i \in NodesOf(t) : Node(t, i).next = m})
    PROVE  PlacedMoving(Place(t, k, v), t, k, v, m, n, b)
  <1> DEFINE u == Place(t, k, v)
             new == NewNode(k, v, Null)
             x == t.node[b + 1]
             there == Node(t, m)
             linked == [x EXCEPT !.next = n]
             ns == [[[t.node EXCEPT ![b + 1] = linked] EXCEPT ![n + 1] = there] EXCEPT ![m + 1] = new]
             taken == [t EXCEPT !.lastfree = n]
  <1>1. u = [taken EXCEPT !.node = [@ EXCEPT ![b + 1].next = n, ![n + 1] = there,
                                             ![m + 1] = [FreeNode EXCEPT !.k = k, !.v = v]]]
    BY DEF Place
  <1>2. /\ m \in Nat /\ m + 1 \in 1..Size(t) /\ b \in Nat /\ b + 1 \in 1..Size(t)
        /\ n \in Nat /\ n + 1 \in 1..Size(t) /\ n + 1 # m + 1 /\ n + 1 # b + 1 /\ m + 1 # b + 1
        /\ there \in Nodes
    BY NodeIs
  <1>3. new \in Nodes /\ IsNode(new, k, v, Null) /\ new = [FreeNode EXCEPT !.k = k, !.v = v]
    <2>1. new \in Nodes /\ IsNode(new, k, v, Null)
          /\ new = [[FreeNode EXCEPT !.k = k, !.v = v] EXCEPT !.next = Null]
      BY NewNodeIs
    <2> DEFINE R == FreeNode
    <2>2. R = [y \in {"k", "dead", "v", "next"} |-> R[y]] /\ R.next = Null
      BY DEF FreeNode
    <2> HIDE DEF R
    <2>3. [[R EXCEPT !.k = k, !.v = v] EXCEPT !.next = Null] = [R EXCEPT !.k = k, !.v = v]
      BY <2>2
    <2> QED
      BY <2>1, <2>3 DEF R
  <1> HIDE DEF new, u
  <1>4. t.node \in [1..Size(t) -> Nodes] /\ t.lastfree \in Nat
        /\ t = [arr |-> t.arr, node |-> t.node, lastfree |-> t.lastfree, flags |-> t.flags]
    <2>1. t.node \in Seq(Nodes)
      BY DEF Tables
    <2>2. t.node \in [1..Size(t) -> Nodes]
      BY <2>1 DEF Size
    <2> QED
      BY <2>2 DEF Tables
  <1>5. taken = [arr |-> t.arr, node |-> t.node, lastfree |-> n, flags |-> t.flags]
    BY <1>4
  <1> HIDE DEF there
  <1>6. u = [taken EXCEPT !.node = [@ EXCEPT ![b + 1].next = n, ![n + 1] = there, ![m + 1] = new]]
    BY <1>1, <1>3
  <1>7. [taken.node EXCEPT ![b + 1].next = n, ![n + 1] = there, ![m + 1] = new] = ns
    BY <1>2, <1>4, <1>5
  <1>8. u = [arr |-> t.arr, node |-> ns, lastfree |-> n, flags |-> t.flags]
    <2> DEFINE M == [taken.node EXCEPT ![b + 1].next = n, ![n + 1] = there, ![m + 1] = new]
    <2>1. u = [taken EXCEPT !.node = M]
      BY <1>6
    <2> HIDE DEF M, ns, taken
    <2>2. M = ns
      BY <1>7 DEF M
    <2> QED
      BY <1>5, <2>1, <2>2
  <1>9. x \in Nodes /\ x = Node(t, b)
    BY <1>2, <1>4 DEF Node
  <1> HIDE DEF x
  <1>10. /\ linked \in Nodes /\ linked.k = x.k /\ linked.v = x.v /\ linked.dead = x.dead
         /\ linked.next = n
    BY <1>2, <1>9 DEF Nodes
  <1> HIDE DEF linked
  <1>11. ns \in [1..Size(t) -> Nodes] /\ ns[n + 1] = there /\ ns[m + 1] = new /\ ns[b + 1] = linked
         /\ \A i \in 1..Size(t) : i # m + 1 /\ i # n + 1 /\ i # b + 1 => ns[i] = t.node[i]
    BY <1>2, <1>3, <1>4, <1>10
  <1> HIDE DEF ns
  <1>12. Like(u, t, n) /\ \A i : Node(u, i) = ns[i + 1]
    <2>1. n \in Nat
      BY <1>2
    <2>2. ns \in [1..Size(t) -> Nodes]
      BY <1>11
    <2>3. NodesAre(u, t, n, ns)
      BY <1>8 DEF NodesAre
    <2>4. Replaced(u, t, n, ns)
      BY <2>1, <2>2, <2>3, NodesReplaced
    <2> QED
      BY <2>4 DEF Replaced
  <1>13. Rest(u, t, {m, n, b})
    <2>1. ASSUME NEW i \in NodesOf(t), i # m, i # n, i # b
          PROVE  Node(u, i) = Node(t, i)
      <3>1. i + 1 \in 1..Size(t) /\ i + 1 # m + 1 /\ i + 1 # n + 1 /\ i + 1 # b + 1
        BY <1>2, <2>1, NodeIs
      <3> QED
        BY <1>11, <1>12, <3>1 DEF Node
    <2> QED
      BY <2>1 DEF Rest
  <1>14. Node(u, n) = there /\ Node(u, m) = new /\ Node(u, b) = linked
    BY <1>11, <1>12
  <1>15. IsNode(there, Node(t, m).k, Node(t, m).v, Node(t, m).next)
    BY DEF IsNode, there
  <1> QED
    BY <1>3, <1>9, <1>10, <1>12, <1>13, <1>14, <1>15 DEF PlacedMoving, u

\* The key k has no node that is alive.
NoNode(t, k) == \A i \in NodesOf(t) : Node(t, i).k = k => Node(t, i).dead
HashParts(t) == Chains(t) /\ DeadAre(t) /\ OneNode(t) /\ Below(t) /\ LiveFirst(t)

LEMMA HomeKeeps ==
    ASSUME NEW t \in Tables, HashParts(t), NEW k \in Keys, NEW v, NEW u, NoNode(t, k),
           NEW m \in NodesOf(t), m = MainPosition(t, k), Node(t, m).v = Nil,
           PlacedHome(u, t, k, v, m)
    PROVE  HashParts(u) /\ Occupied(u) = Occupied(t) \cup {m}
  <1> USE DEF IsNode
  <1>0. k # Nil
    BY Sizes
  <1>1. u \in Tables /\ NodesOf(u) = NodesOf(t) /\ u.lastfree = t.lastfree
        /\ \A j : MainPosition(u, j) = MainPosition(t, j)
    BY SameMain DEF PlacedHome, Like
  <1>2. /\ \A i \in NodesOf(t) : i # m => Node(u, i) = Node(t, i)
        /\ Node(u, m).k = k /\ Node(u, m).v = v /\ ~Node(u, m).dead
        /\ Node(u, m).next = Node(t, m).next
    BY DEF PlacedHome, Rest
  <1>3. \A i \in NodesOf(t) : Node(u, i).next = Node(t, i).next
    BY <1>2
  <1>4. Linked(u) /\ OneBefore(u)
    BY <1>1, <1>3 DEF HashParts, Chains, Linked, OneBefore
  <1>5. Ranked(u)
    <2>1. PICK rank \in [NodesOf(t) -> Nat] : Decreases(t, rank)
      BY DEF HashParts, Chains, Ranked
    <2>2. Decreases(u, rank)
      BY <1>1, <1>3, <2>1 DEF Decreases
    <2> QED
      BY <1>1, <2>1, <2>2 DEF Ranked
  <1>6. FreeApart(u)
    BY <1>0, <1>1, <1>2, <1>3 DEF HashParts, Chains, FreeApart
  <1>7. Homes(u)
    <2>1. \A C \in SUBSET NodesOf(t) : Closed(u, C) <=> Closed(t, C)
      BY <1>3 DEF Closed
    <2>2. \A a, b : Reach(t, a, b) <=> Reach(u, a, b)
      BY <1>1, <2>1 DEF Reach
    <2>3. AtHome(u, m)
      BY <1>0, <1>1, <1>2 DEF AtHome
    <2>4. \A a : AtHome(t, a) => AtHome(u, a)
      BY <1>1, <1>2, <2>3 DEF AtHome
    <2>5. Reach(u, m, m)
      BY DEF Reach
    <2>6. ASSUME NEW i \in NodesOf(u), Node(u, i).k # Nil
          PROVE  /\ AtHome(u, MainPosition(u, Node(u, i).k))
                 /\ Reach(u, MainPosition(u, Node(u, i).k), i)
      <3>1. CASE i = m
        BY <1>1, <1>2, <2>3, <2>5, <3>1
      <3>2. CASE i # m
        <4>1. AtHome(t, MainPosition(t, Node(t, i).k)) /\ Reach(t, MainPosition(t, Node(t, i).k), i)
          BY <1>1, <1>2, <2>6, <3>2 DEF HashParts, Chains, Homes
        <4> QED
          BY <1>1, <1>2, <2>2, <2>4, <3>2, <4>1
      <3> QED
        BY <3>1, <3>2
    <2> QED
      BY <2>6 DEF Homes
  <1>8. DeadAre(u)
    BY <1>1, <1>2 DEF HashParts, DeadAre
  <1>9. OneNode(u)
    BY <1>1, <1>2 DEF HashParts, OneNode, NoNode
  <1>10. Below(u)
    BY <1>0, <1>1, <1>2 DEF HashParts, Below
  <1>11. Occupied(u) = Occupied(t) \cup {m}
    BY <1>0, <1>1, <1>2 DEF Occupied
  <1>12. LiveFirst(u)
    <2>1. \A C \in SUBSET NodesOf(t) : Closed(u, C) <=> Closed(t, C)
      BY <1>3 DEF Closed
    <2>2. \A a, b : Reach(t, a, b) <=> Reach(u, a, b)
      BY <1>1, <2>1 DEF Reach
    <2>3. ASSUME NEW i \in NodesOf(u), NEW j \in NodesOf(u), Node(u, i).k = Node(u, j).k,
                 Node(u, i).k # Nil, ~Node(u, i).dead
          PROVE  Reach(u, i, j)
      <3>1. CASE i = m /\ j = m
        BY <3>1 DEF Reach
      <3>2. CASE i = m /\ j # m
        <4>1. Node(t, j).k = k /\ j \in NodesOf(t)
          BY <1>1, <1>2, <2>3, <3>2
        <4>2. Reach(t, m, j)
          BY <1>0, <4>1 DEF HashParts, Chains, Homes
        <4> QED
          BY <2>2, <3>2, <4>2
      <3>3. CASE i # m
        <4>1. j # m /\ i \in NodesOf(t) /\ j \in NodesOf(t) /\ Node(u, i) = Node(t, i)
          BY <1>1, <1>2, <2>3, <3>3 DEF NoNode
        <4>2. Reach(t, i, j)
          BY <1>2, <2>3, <4>1 DEF HashParts, LiveFirst
        <4> QED
          BY <2>2, <4>2
      <3> QED
        BY <3>1, <3>2, <3>3
    <2> QED
      BY <2>3 DEF LiveFirst
  <1> QED
    BY <1>4, <1>5, <1>6, <1>7, <1>8, <1>9, <1>10, <1>11, <1>12 DEF HashParts, Chains

LEMMA AfterKeeps ==
    ASSUME NEW t \in Tables, HashParts(t), NEW k \in Keys, NEW v, NEW u, NoNode(t, k),
           NEW m \in NodesOf(t), m = MainPosition(t, k), Node(t, m).v # Nil,
           MainPosition(t, Node(t, m).k) = m,
           NEW n \in NodesOf(t), Node(t, n).k = Nil,
           \A i \in NodesOf(t) : Node(t, i).k = Nil => i <= n,
           PlacedAfter(u, t, k, v, m, n)
    PROVE  HashParts(u) /\ Occupied(u) = Occupied(t) \cup {n}
  <1> USE DEF IsNode
  <1>0. k # Nil /\ Node(t, m).k # Nil /\ m # n /\ ~Node(t, m).dead
    BY Sizes DEF HashParts, Chains, FreeApart, DeadAre
  <1>1. u \in Tables /\ NodesOf(u) = NodesOf(t) /\ u.lastfree = n
        /\ \A j : MainPosition(u, j) = MainPosition(t, j)
    BY SameMain DEF PlacedAfter, Like
  <1>2. /\ \A i \in NodesOf(t) : i # m /\ i # n => Node(u, i) = Node(t, i)
        /\ Node(u, n).k = k /\ Node(u, n).v = v /\ ~Node(u, n).dead
        /\ Node(u, n).next = Node(t, m).next
        /\ Node(u, m).k = Node(t, m).k /\ Node(u, m).v = Node(t, m).v /\ ~Node(u, m).dead
        /\ Node(u, m).next = n
    BY DEF PlacedAfter, Rest
  <1>3. /\ \A i \in NodesOf(t) : Node(t, i).next # n
        /\ \A i \in NodesOf(t) : Node(t, i).next \in NodesOf(t) \cup {Null}
        /\ \A i \in NodesOf(t) : i # Null /\ i \in Nat
    BY NodeIs DEF HashParts, Chains, FreeApart, Linked, Null
  <1>4. Linked(u)
    BY <1>1, <1>2, <1>3 DEF Linked
  <1>5. OneBefore(u)
    BY <1>1, <1>2, <1>3 DEF OneBefore, HashParts, Chains
  <1>6. Ranked(u)
    <2>1. PICK rank \in [NodesOf(t) -> Nat] : Decreases(t, rank)
      BY DEF HashParts, Chains, Ranked
    <2> DEFINE r == [i \in NodesOf(t) |-> IF i = n THEN 2 * rank[m] ELSE 2 * rank[i] + 1]
    <2>2. r \in [NodesOf(t) -> Nat]
      BY <2>1
    <2>3. ASSUME NEW i \in NodesOf(t), Node(u, i).next # Null
          PROVE  r[Node(u, i).next] < r[i]
      <3>1. CASE i = n
        <4>1. Node(u, i).next = Node(t, m).next /\ Node(t, m).next \in NodesOf(t)
              /\ Node(t, m).next # n
          BY <1>2, <1>3, <2>3, <3>1
        <4>2. rank[Node(t, m).next] < rank[m]
          BY <2>1, <2>3, <4>1 DEF Decreases
        <4>3. r[Node(u, i).next] = 2 * rank[Node(t, m).next] + 1 /\ r[i] = 2 * rank[m]
          BY <3>1, <4>1
        <4>4. rank[m] \in Nat /\ rank[Node(t, m).next] \in Nat
          BY <4>1
        <4> QED
          BY <4>2, <4>3, <4>4
      <3>2. CASE i = m
        BY <1>0, <1>2, <2>1, <3>2
      <3>3. CASE i # m /\ i # n
        <4>1. Node(u, i).next = Node(t, i).next /\ Node(t, i).next \in NodesOf(t)
              /\ Node(t, i).next # n
          BY <1>2, <1>3, <2>3, <3>3
        <4>2. rank[Node(t, i).next] < rank[i]
          BY <2>1, <2>3, <4>1 DEF Decreases
        <4>3. r[Node(u, i).next] = 2 * rank[Node(t, i).next] + 1 /\ r[i] = 2 * rank[i] + 1
          BY <3>3, <4>1
        <4>4. rank[i] \in Nat /\ rank[Node(t, i).next] \in Nat
          BY <4>1
        <4> QED
          BY <4>2, <4>3, <4>4
      <3> QED
        BY <3>1, <3>2, <3>3
    <2> HIDE DEF r
    <2>4. Decreases(u, r)
      BY <1>1, <2>3 DEF Decreases
    <2> QED
      BY <1>1, <2>2, <2>4 DEF Ranked
  <1>7. FreeApart(u)
    BY <1>0, <1>1, <1>2, <1>3 DEF HashParts, Chains, FreeApart
  <1>13. ASSUME NEW a \in NodesOf(t), NEW b \in NodesOf(t), Reach(t, a, b), a # n, b # n
        PROVE  Reach(u, a, b)
    <2>1. ASSUME NEW C \in SUBSET NodesOf(t), a \in C, Closed(u, C)
          PROVE  b \in C
      <3> DEFINE E == C \ {n}
      <3>1. ASSUME NEW i \in E
            PROVE  Node(t, i).next \in E \cup {Null}
        <4>1. CASE i = m
          <5>1. n \in C
            BY <1>2, <2>1, <3>1, <4>1, <1>3 DEF Closed
          <5> QED
            BY <1>2, <1>3, <2>1, <3>1, <4>1, <5>1 DEF Closed
        <4>2. CASE i # m
          BY <1>2, <1>3, <2>1, <3>1, <4>2 DEF Closed
        <4> QED
          BY <4>1, <4>2
      <3>2. E \in SUBSET NodesOf(t) /\ a \in E
        BY <1>13, <2>1
      <3> HIDE DEF E
      <3>3. Closed(t, E)
        BY <3>1 DEF Closed
      <3>4. b \in E
        BY <1>13, <3>2, <3>3 DEF Reach
      <3> QED
        BY <3>4 DEF E
    <2> QED
      BY <1>1, <2>1 DEF Reach
  <1>14. ASSUME NEW j \in NodesOf(t), Reach(t, m, j), j # m
         PROVE  Reach(u, n, j)
    <2>1. ASSUME NEW C \in SUBSET NodesOf(t), n \in C, Closed(u, C)
          PROVE  j \in C
      <3> DEFINE E == (C \ {n}) \cup {m}
      <3>1. ASSUME NEW i \in E
            PROVE  Node(t, i).next \in E \cup {Null}
        <4>1. CASE i = m
          BY <1>2, <1>3, <2>1, <4>1 DEF Closed
        <4>2. CASE i # m
          BY <1>2, <1>3, <2>1, <3>1, <4>2 DEF Closed
        <4> QED
          BY <4>1, <4>2
      <3>2. E \in SUBSET NodesOf(t) /\ m \in E
        BY <2>1
      <3> HIDE DEF E
      <3>3. Closed(t, E)
        BY <3>1 DEF Closed
      <3>4. j \in E
        BY <1>14, <3>2, <3>3 DEF Reach
      <3> QED
        BY <1>14, <3>4 DEF E
    <2> QED
      BY <1>1, <2>1 DEF Reach
  <1>8. Homes(u)
    <2>2. ASSUME NEW a, AtHome(t, a)
          PROVE  AtHome(u, a) /\ a \in NodesOf(t) /\ a # n
      BY <1>1, <1>2, <2>2 DEF AtHome
    <2>3. AtHome(u, m)
      BY <1>0, <1>1, <1>2 DEF AtHome
    <2>4. Reach(u, m, n)
      BY <1>1, <1>2, <1>3 DEF Reach, Closed
    <2>5. ASSUME NEW i \in NodesOf(u), Node(u, i).k # Nil
          PROVE  /\ AtHome(u, MainPosition(u, Node(u, i).k))
                 /\ Reach(u, MainPosition(u, Node(u, i).k), i)
      <3>1. CASE i = n
        BY <1>1, <1>2, <2>3, <2>4, <3>1
      <3>2. CASE i # n
        <4>1. Node(u, i).k = Node(t, i).k /\ i \in NodesOf(t)
          BY <1>1, <1>2, <3>2
        <4>2. AtHome(t, MainPosition(t, Node(t, i).k)) /\ Reach(t, MainPosition(t, Node(t, i).k), i)
          BY <2>5, <4>1 DEF HashParts, Chains, Homes
        <4> QED
          BY <1>1, <1>13, <2>2, <3>2, <4>1, <4>2
      <3> QED
        BY <3>1, <3>2
    <2> QED
      BY <2>5 DEF Homes
  <1>9. DeadAre(u)
    BY <1>1, <1>2 DEF HashParts, DeadAre
  <1>10. OneNode(u)
    BY <1>0, <1>1, <1>2 DEF HashParts, OneNode, NoNode
  <1>11. Below(u)
    <2>1. ASSUME NEW i \in NodesOf(u), Node(u, i).k = Nil
          PROVE  i < n
      <3>1. i # m /\ i # n /\ i \in NodesOf(t)
        BY <1>0, <1>1, <1>2, <2>1
      <3>2. i <= n /\ i \in Nat /\ n \in Nat
        BY <1>2, <1>3, <2>1, <3>1
      <3> QED
        BY <3>1, <3>2
    <2> QED
      BY <1>1, <2>1 DEF Below
  <1>12. Occupied(u) = Occupied(t) \cup {n}
    BY <1>0, <1>1, <1>2 DEF Occupied
  <1>15. LiveFirst(u)
    <2>1. ASSUME NEW i \in NodesOf(u), NEW j \in NodesOf(u), Node(u, i).k = Node(u, j).k,
                 Node(u, i).k # Nil, ~Node(u, i).dead
          PROVE  Reach(u, i, j)
      <3>1. CASE i = n /\ j = n
        BY <3>1 DEF Reach
      <3>2. CASE i = n /\ j # n
        <4>1. j \in NodesOf(t) /\ Node(t, j).k = k
          BY <1>1, <1>2, <2>1, <3>2
        <4>2. j # m
          BY <1>0, <4>1 DEF NoNode
        <4>3. Reach(t, m, j)
          BY <1>0, <4>1 DEF HashParts, Chains, Homes
        <4> QED
          BY <1>14, <3>2, <4>1, <4>2, <4>3
      <3>3. CASE i # n
        <4>1. i \in NodesOf(t) /\ Node(u, i).k = Node(t, i).k /\ ~Node(t, i).dead
          BY <1>0, <1>1, <1>2, <2>1, <3>3
        <4>2. j # n
          BY <1>2, <2>1, <4>1 DEF NoNode
        <4>3. j \in NodesOf(t) /\ Node(u, j).k = Node(t, j).k
          BY <1>1, <1>2, <2>1, <4>2
        <4>4. Reach(t, i, j)
          BY <2>1, <4>1, <4>3 DEF HashParts, LiveFirst
        <4> QED
          BY <1>13, <3>3, <4>1, <4>2, <4>3, <4>4
      <3> QED
        BY <3>1, <3>2, <3>3
    <2> QED
      BY <2>1 DEF LiveFirst
  <1> QED
    BY <1>4, <1>5, <1>6, <1>7, <1>8, <1>9, <1>10, <1>11, <1>12, <1>15 DEF HashParts, Chains

LEMMA MovingKeeps ==
    ASSUME NEW t \in Tables, HashParts(t), NEW k \in Keys, NEW v, NEW u, NoNode(t, k),
           NEW m \in NodesOf(t), m = MainPosition(t, k), Node(t, m).v # Nil,
           MainPosition(t, Node(t, m).k) # m,
           NEW n \in NodesOf(t), Node(t, n).k = Nil,
           \A i \in NodesOf(t) : Node(t, i).k = Nil => i <= n,
           NEW b \in NodesOf(t), Node(t, b).next = m,
           PlacedMoving(u, t, k, v, m, n, b)
    PROVE  HashParts(u) /\ Occupied(u) = Occupied(t) \cup {n}
  <1> USE DEF IsNode
  <1>0. k # Nil /\ Node(t, m).k # Nil /\ m # n /\ ~Node(t, m).dead
    BY Sizes DEF HashParts, Chains, FreeApart, DeadAre
  <1>1. u \in Tables /\ NodesOf(u) = NodesOf(t) /\ u.lastfree = n
        /\ \A j : MainPosition(u, j) = MainPosition(t, j)
    BY SameMain DEF PlacedMoving, Like
  <1>2. /\ \A i \in NodesOf(t) : i # m /\ i # n /\ i # b => Node(u, i) = Node(t, i)
        /\ Node(u, m).k = k /\ Node(u, m).v = v /\ ~Node(u, m).dead /\ Node(u, m).next = Null
        /\ Node(u, n).k = Node(t, m).k /\ Node(u, n).v = Node(t, m).v /\ ~Node(u, n).dead
        /\ Node(u, n).next = Node(t, m).next
        /\ Node(u, b).k = Node(t, b).k /\ Node(u, b).v = Node(t, b).v
        /\ Node(u, b).dead = Node(t, b).dead /\ Node(u, b).next = n
    BY DEF PlacedMoving, Rest
  <1>3. /\ \A i \in NodesOf(t) : Node(t, i).next # n
        /\ \A i \in NodesOf(t) : Node(t, i).next \in NodesOf(t) \cup {Null}
        /\ \A i \in NodesOf(t) : i # Null /\ i \in Nat
        /\ \A i \in NodesOf(t) : Node(t, i).next = m => i = b
    BY NodeIs DEF HashParts, Chains, FreeApart, Linked, OneBefore, Null
  <1>4. PICK rank \in [NodesOf(t) -> Nat] : Decreases(t, rank)
    BY DEF HashParts, Chains, Ranked
  <1>5. b # m /\ b # n /\ Node(t, m).next # m
    <2>1. rank[m] < rank[b] /\ rank[m] \in Nat /\ rank[b] \in Nat
      BY <1>3, <1>4 DEF Decreases
    <2>2. Node(t, m).next # m
      <3> SUFFICES ASSUME Node(t, m).next = m PROVE FALSE
        OBVIOUS
      <3>1. rank[m] < rank[m]
        BY <1>3, <1>4 DEF Decreases
      <3> QED
        BY <2>1, <3>1
    <2>3. Node(t, b).k # Nil
      BY <1>3 DEF HashParts, Chains, FreeApart
    <2> QED
      BY <2>1, <2>2, <2>3
  <1>6. Linked(u)
    BY <1>1, <1>2, <1>3 DEF Linked
  <1>7. OneBefore(u)
    BY <1>1, <1>2, <1>3, <1>5 DEF OneBefore, HashParts, Chains
  <1>8. Ranked(u)
    <2> DEFINE r == [i \in NodesOf(t) |-> IF i = n THEN rank[m] ELSE rank[i]]
    <2>2. r \in [NodesOf(t) -> Nat]
      BY <1>4
    <2>3. ASSUME NEW i \in NodesOf(t), Node(u, i).next # Null
          PROVE  r[Node(u, i).next] < r[i]
      <3>1. CASE i = n
        <4>1. Node(u, i).next = Node(t, m).next /\ Node(t, m).next \in NodesOf(t)
              /\ Node(t, m).next # n
          BY <1>2, <1>3, <2>3, <3>1
        <4>2. rank[Node(t, m).next] < rank[m]
          BY <1>4, <2>3, <4>1 DEF Decreases
        <4> QED
          BY <3>1, <4>1, <4>2
      <3>2. CASE i = m
        BY <1>0, <1>2, <2>3, <3>2
      <3>3. CASE i = b
        <4>1. rank[m] < rank[b]
          BY <1>3, <1>4 DEF Decreases
        <4> QED
          BY <1>2, <1>5, <3>3, <4>1
      <3>4. CASE i # m /\ i # n /\ i # b
        <4>1. Node(u, i).next = Node(t, i).next /\ Node(t, i).next \in NodesOf(t)
              /\ Node(t, i).next # n
          BY <1>2, <1>3, <2>3, <3>4
        <4>2. rank[Node(t, i).next] < rank[i]
          BY <1>4, <2>3, <4>1 DEF Decreases
        <4> QED
          BY <3>4, <4>1, <4>2
      <3> QED
        BY <3>1, <3>2, <3>3, <3>4
    <2> HIDE DEF r
    <2>4. Decreases(u, r)
      BY <1>1, <2>3 DEF Decreases
    <2> QED
      BY <1>1, <2>2, <2>4 DEF Ranked
  <1>9. FreeApart(u)
    <2>1. ASSUME NEW i \in NodesOf(t), Node(u, i).k = Nil
          PROVE  /\ i # m /\ i # n /\ i # b /\ Node(t, i).k = Nil
                 /\ \A j \in NodesOf(t) : Node(t, j).next # i
      BY <1>0, <1>2, <1>3, <2>1 DEF HashParts, Chains, FreeApart
    <2>2. ASSUME NEW i \in NodesOf(t), Node(u, i).k = Nil
          PROVE  /\ Node(u, i).v = Nil /\ Node(u, i).next = Null /\ ~Node(u, i).dead
                 /\ \A j \in NodesOf(t) : Node(u, j).next # i
      BY <1>2, <1>3, <2>1, <2>2 DEF HashParts, Chains, FreeApart
    <2> QED
      BY <1>1, <2>2 DEF FreeApart
  <1>10. \A i \in NodesOf(t) : Node(t, i).k # Nil => MainPosition(t, Node(t, i).k) # m
    BY DEF HashParts, Chains, Homes, AtHome
  <1>16. ASSUME NEW a \in NodesOf(t), NEW i \in NodesOf(t), Reach(t, a, i), a # n,
                NEW C \in SUBSET NodesOf(t), IF a = m THEN n \in C ELSE a \in C, Closed(u, C)
        PROVE  IF i = m THEN n \in C ELSE i \in C
    <2> DEFINE E == {j \in NodesOf(t) : IF j = m THEN n \in C ELSE j # n /\ j \in C}
    <2>1. ASSUME NEW j \in E
          PROVE  Node(t, j).next \in E \cup {Null}
      <3>1. CASE j = m
        <4>1. n \in C /\ Node(u, n).next \in C \cup {Null}
          BY <1>16, <2>1, <3>1 DEF Closed
        <4> QED
          BY <1>2, <1>3, <1>5, <3>1, <4>1
      <3>2. CASE j = b
        <4>1. b \in C /\ Node(u, b).next \in C \cup {Null}
          BY <1>5, <1>16, <2>1, <3>2 DEF Closed
        <4> QED
          BY <1>2, <1>3, <3>2, <4>1
      <3>3. CASE j # m /\ j # b
        <4>1. j \in C /\ j # n /\ Node(u, j).next \in C \cup {Null}
          BY <1>16, <2>1, <3>3 DEF Closed
        <4> QED
          BY <1>2, <1>3, <3>3, <4>1
      <3> QED
        BY <3>1, <3>2, <3>3
    <2>2. E \in SUBSET NodesOf(t) /\ a \in E
      BY <1>16
    <2> HIDE DEF E
    <2>3. Closed(t, E)
      BY <2>1 DEF Closed
    <2>4. i \in E
      BY <1>16, <2>2, <2>3 DEF Reach
    <2> QED
      BY <2>4 DEF E
  <1>11. Homes(u)
    <2>2. ASSUME NEW a, AtHome(t, a)
          PROVE  AtHome(u, a) /\ a \in NodesOf(t) /\ a # n /\ a # m
      BY <1>1, <1>2, <1>10, <2>2 DEF AtHome
    <2>3. AtHome(u, m) /\ Reach(u, m, m)
      BY <1>0, <1>1, <1>2 DEF AtHome, Reach
    <2>4. ASSUME NEW i \in NodesOf(u), Node(u, i).k # Nil
          PROVE  /\ AtHome(u, MainPosition(u, Node(u, i).k))
                 /\ Reach(u, MainPosition(u, Node(u, i).k), i)
      <3>1. CASE i = m
        BY <1>1, <1>2, <2>3, <3>1
      <3>2. CASE i = n
        <4> DEFINE a == MainPosition(t, Node(t, m).k)
        <4>1. AtHome(t, a) /\ Reach(t, a, m)
          BY <1>0 DEF HashParts, Chains, Homes
        <4>2. AtHome(u, a) /\ a \in NodesOf(t) /\ a # n /\ a # m
          BY <2>2, <4>1
        <4>3. MainPosition(u, Node(u, i).k) = a
          BY <1>1, <1>2, <3>2
        <4> HIDE DEF a
        <4>4. Reach(u, a, n)
          BY <1>1, <1>16, <4>1, <4>2 DEF Reach
        <4> QED
          BY <3>2, <4>2, <4>3, <4>4
      <3>3. CASE i # n /\ i # m
        <4> DEFINE a == MainPosition(t, Node(t, i).k)
        <4>1. Node(u, i).k = Node(t, i).k /\ i \in NodesOf(t)
          BY <1>1, <1>2, <3>3
        <4>2. AtHome(t, a) /\ Reach(t, a, i)
          BY <2>4, <4>1 DEF HashParts, Chains, Homes
        <4>3. AtHome(u, a) /\ a \in NodesOf(t) /\ a # n /\ a # m
          BY <2>2, <4>2
        <4>4. MainPosition(u, Node(u, i).k) = a
          BY <1>1, <4>1
        <4> HIDE DEF a
        <4>5. Reach(u, a, i)
          BY <1>1, <1>16, <3>3, <4>1, <4>2, <4>3 DEF Reach
        <4> QED
          BY <4>3, <4>4, <4>5
      <3> QED
        BY <3>1, <3>2, <3>3
    <2> QED
      BY <2>4 DEF Homes
  <1>12. DeadAre(u)
    BY <1>1, <1>2 DEF HashParts, DeadAre
  <1>13. OneNode(u)
    <2> DEFINE old(i) == IF i = n THEN m ELSE i
    <2>1. \A i \in NodesOf(t) : i # m => /\ old(i) \in NodesOf(t) /\ Node(u, i).k = Node(t, old(i)).k
                                         /\ (Node(u, i).dead <=> Node(t, old(i)).dead)
      BY <1>0, <1>2
    <2>2. ASSUME NEW i \in NodesOf(u), NEW j \in NodesOf(u), i # m, j # m,
                 Node(u, i).k = Node(u, j).k, Node(u, i).k # Nil,
                 ~Node(u, i).dead, ~Node(u, j).dead
          PROVE  i = j
      <3>1. old(i) = old(j)
        <4> HIDE DEF old
        <4> QED
          BY <1>1, <2>1, <2>2 DEF HashParts, OneNode
      <3> QED
        BY <2>2, <3>1
    <2>3. ASSUME NEW i \in NodesOf(u), i # m, Node(u, i).k = k
          PROVE  Node(u, i).dead
      <3> HIDE DEF old
      <3> QED
        BY <1>1, <2>1, <2>3 DEF NoNode
    <2> QED
      BY <1>1, <1>2, <2>2, <2>3 DEF OneNode
  <1>14. Below(u)
    <2>1. ASSUME NEW i \in NodesOf(u), Node(u, i).k = Nil
          PROVE  i < n
      <3>1. i # m /\ i # n /\ i \in NodesOf(t)
        BY <1>0, <1>1, <1>2, <2>1
      <3>2. i <= n /\ i \in Nat /\ n \in Nat
        BY <1>2, <1>3, <2>1, <3>1
      <3> QED
        BY <3>1, <3>2
    <2> QED
      BY <1>1, <2>1 DEF Below
  <1>15. Occupied(u) = Occupied(t) \cup {n}
    BY <1>0, <1>1, <1>2 DEF Occupied
  <1>17. LiveFirst(u)
    <2>1. ASSUME NEW i \in NodesOf(t), NEW j \in NodesOf(t), Node(u, i).k = Node(u, j).k,
                 Node(u, i).k # Nil, ~Node(u, i).dead
          PROVE  Reach(u, i, j)
      <3>1. CASE i = j
        BY <3>1 DEF Reach
      <3>2. CASE i # j /\ (i = m \/ j = m)
        <4>1. \A x \in NodesOf(t) : x # m /\ Node(u, x).k # Nil => Node(u, x).k # k
          BY <1>0, <1>2, <1>10
        <4> QED
          BY <1>2, <2>1, <3>2, <4>1
      <3>3. CASE i # j /\ i # m /\ j # m
        <4> DEFINE a == IF i = n THEN m ELSE i
                   e == IF j = n THEN m ELSE j
        <4>1. /\ a \in NodesOf(t) /\ Node(u, i).k = Node(t, a).k /\ ~Node(t, a).dead
              /\ e \in NodesOf(t) /\ Node(u, j).k = Node(t, e).k
          BY <1>0, <1>2, <2>1, <3>3
        <4>2. Reach(t, a, e) /\ a # n
          <5>1. a # n
            BY <1>0
          <5> HIDE DEF a, e
          <5> QED
            BY <2>1, <4>1, <5>1 DEF HashParts, LiveFirst
        <4>3. ASSUME NEW C \in SUBSET NodesOf(t), i \in C, Closed(u, C)
              PROVE  j \in C
          <5>1. IF a = m THEN n \in C ELSE a \in C
            BY <3>3, <4>3
          <5>2. IF e = m THEN n \in C ELSE e \in C
            <6> HIDE DEF a, e
            <6> QED
              BY <1>16, <4>1, <4>2, <4>3, <5>1
          <5> QED
            BY <3>3, <5>2
        <4> QED
          BY <1>1, <4>3 DEF Reach
      <3> QED
        BY <3>1, <3>2, <3>3
    <2> QED
      BY <1>1, <2>1 DEF LiveFirst
  <1> QED
    BY <1>6, <1>7, <1>8, <1>9, <1>11, <1>12, <1>13, <1>14, <1>15, <1>17 DEF HashParts, Chains

\* After k has been placed, it has a node that holds v, and the other keys hold what they
\* did: a node that is given to another key had no value.
Holds(u, t, k, v) ==
    /\ \E i \in NodesOf(u) : Node(u, i).k = k /\ Node(u, i).v = v /\ ~Node(u, i).dead
    /\ \A i \in NodesOf(u) : Node(u, i).k = k \/ \E l \in NodesOf(t) : Node(t, l).k = Node(u, i).k
    /\ \A j \in Keys \ {k} : SameEntries(u, t, j)

LEMMA HomeHolds ==
    ASSUME NEW t, NEW u, NEW k, NEW v, NEW m \in NodesOf(t), Node(t, m).v = Nil,
           PlacedHome(u, t, k, v, m)
    PROVE  Holds(u, t, k, v)
  <1>1. NodesOf(u) = NodesOf(t) /\ Node(u, m).k = k /\ Node(u, m).v = v /\ ~Node(u, m).dead
        /\ \A i \in NodesOf(t) : i # m => Node(u, i) = Node(t, i)
    BY SameMain DEF PlacedHome, Like, Rest, IsNode
  <1>2. ASSUME NEW j \in Keys \ {k}, NEW x, x # Nil
        PROVE  Entry(u, j, x) <=> Entry(t, j, x)
    BY <1>1, <1>2 DEF Entry
  <1> QED
    BY <1>1, <1>2 DEF Holds, SameEntries

LEMMA AfterHolds ==
    ASSUME NEW t, NEW u, NEW k, NEW v, NEW m \in NodesOf(t), NEW n \in NodesOf(t), n # m,
           Node(t, n).k = Nil, PlacedAfter(u, t, k, v, m, n)
    PROVE  Holds(u, t, k, v)
  <1>1. /\ NodesOf(u) = NodesOf(t) /\ Node(u, n).k = k /\ Node(u, n).v = v /\ ~Node(u, n).dead
        /\ Node(u, m).k = Node(t, m).k /\ Node(u, m).v = Node(t, m).v
        /\ \A i \in NodesOf(t) : i # m /\ i # n => Node(u, i) = Node(t, i)
    BY SameMain DEF PlacedAfter, Like, Rest, IsNode
  <1>2. ASSUME NEW j \in Keys \ {k}, NEW x, x # Nil
        PROVE  Entry(u, j, x) <=> Entry(t, j, x)
    <2>1. \A i \in NodesOf(t) : Node(u, i).k = j => Node(t, i).k = j /\ Node(t, i).v = Node(u, i).v
      BY <1>1, <1>2
    <2>2. \A i \in NodesOf(t) : Node(t, i).k = j => Node(u, i).k = j /\ Node(t, i).v = Node(u, i).v
      BY <1>1, <1>2, Sizes
    <2> QED
      BY <1>1, <2>1, <2>2 DEF Entry
  <1> QED
    BY <1>1, <1>2 DEF Holds, SameEntries

LEMMA MovingHolds ==
    ASSUME NEW t, NEW u, NEW k, NEW v, NEW m \in NodesOf(t), NEW n \in NodesOf(t), NEW b \in NodesOf(t),
           n # m, n # b, m # b, Node(t, n).k = Nil, PlacedMoving(u, t, k, v, m, n, b)
    PROVE  Holds(u, t, k, v)
  <1>1. /\ NodesOf(u) = NodesOf(t) /\ Node(u, m).k = k /\ Node(u, m).v = v /\ ~Node(u, m).dead
        /\ Node(u, n).k = Node(t, m).k /\ Node(u, n).v = Node(t, m).v
        /\ Node(u, b).k = Node(t, b).k /\ Node(u, b).v = Node(t, b).v
        /\ \A i \in NodesOf(t) : i # m /\ i # n /\ i # b => Node(u, i) = Node(t, i)
    BY SameMain DEF PlacedMoving, Like, Rest, IsNode
  <1> DEFINE from(i) == IF i = n THEN m ELSE i
             to(i) == IF i = m THEN n ELSE i
  <1>2. \A i \in NodesOf(t) : /\ from(i) \in NodesOf(t) /\ to(i) \in NodesOf(t)
                              /\ i # m => Node(t, from(i)).k = Node(u, i).k /\ Node(t, from(i)).v = Node(u, i).v
                              /\ i # n => Node(u, to(i)).k = Node(t, i).k /\ Node(u, to(i)).v = Node(t, i).v
    BY <1>1
  <1> HIDE DEF from, to
  <1>3. ASSUME NEW j \in Keys \ {k}, NEW x, x # Nil
        PROVE  Entry(u, j, x) <=> Entry(t, j, x)
    <2>1. \A i \in NodesOf(t) : Node(u, i).k = j => i # m
      BY <1>1
    <2>2. \A i \in NodesOf(t) : Node(t, i).k = j => i # n
      BY Sizes
    <2>3. ASSUME Entry(u, j, x) PROVE Entry(t, j, x)
      <3>1. PICK i \in NodesOf(t) : Node(u, i).k = j /\ Node(u, i).v = x
        BY <1>1, <2>3 DEF Entry
      <3> QED
        BY <1>2, <2>1, <3>1 DEF Entry
    <2>4. ASSUME Entry(t, j, x) PROVE Entry(u, j, x)
      <3>1. PICK i \in NodesOf(t) : Node(t, i).k = j /\ Node(t, i).v = x
        BY <2>4 DEF Entry
      <3> QED
        BY <1>1, <1>2, <2>2, <3>1 DEF Entry
    <2> QED
      BY <2>3, <2>4
  <1>4. \A i \in NodesOf(u) : Node(u, i).k = k \/ \E l \in NodesOf(t) : Node(t, l).k = Node(u, i).k
    BY <1>1, <1>2
  <1> QED
    BY <1>1, <1>3, <1>4 DEF Holds, SameEntries

\* A new key is placed: the table stays well formed, with at most one more node in use.
OneMore(u, t) == \E j \in NodesOf(t) : Occupied(u) = Occupied(t) \cup {j}
LEMMA PlaceKeeps ==
    ASSUME NEW t, TableOK(t), NEW k \in Keys, NEW v \in Vals, ~Has(t, k), HasRoom(t, k)
    PROVE  LET u == Place(t, k, v)
           IN  /\ TableOK(u) /\ u.flags = t.flags /\ u.arr = t.arr /\ Size(u) = Size(t) /\ OneMore(u, t)
               /\ Sets(u, t, k, v)
  <1> DEFINE u == Place(t, k, v)
             m == MainPosition(t, k)
  <1>1. /\ t \in Tables /\ HashParts(t) /\ HashOK(t) /\ Linked(t) /\ Ranked(t) /\ Homes(t)
        /\ FreeApart(t) /\ DeadAre(t) /\ ArrayOK(t) /\ SizeOK(t) /\ t.lastfree <= Size(t) /\ NoShadow(t)
    BY DEF TableOK, HashOK, HashParts, Chains
  <1>2. k # Nil
    BY Sizes
  <1>3. NoNode(t, k)
    <2>1. NodeOf(t, k) = Null
      BY DEF Has
    <2>2. \A i \in NodesOf(t) : i # Null
      BY <1>1, NodeIs DEF Null
    <2> QED
      BY <1>1, <1>2, <2>1, <2>2, NodeOfIs DEF NoNode
  <1>4. m \in NodesOf(t) /\ Size(t) \in Nat
    BY <1>1, MainIs, NodeIs DEF HasRoom
  <1>5. Node(t, m).v # Nil => Node(t, m).k # Nil /\ ~Node(t, m).dead
    BY <1>1, <1>4 DEF FreeApart, DeadAre
  <1> DEFINE n == Max(FreeNodes(t))
  <1>6. Node(t, m).v # Nil => /\ n \in NodesOf(t) /\ Node(t, n).k = Nil /\ n # m /\ n \in Nat /\ n < Size(t)
                              /\ \A i \in NodesOf(t) : Node(t, i).k = Nil => i <= n
    <2> SUFFICES ASSUME Node(t, m).v # Nil
                 PROVE  /\ n \in NodesOf(t) /\ Node(t, n).k = Nil /\ n # m /\ n \in Nat /\ n < Size(t)
                        /\ \A i \in NodesOf(t) : Node(t, i).k = Nil => i <= n
      OBVIOUS
    <2>1. FreeNodes(t) # {}
      BY DEF HasRoom
    <2>2. FreeNodes(t) \in SUBSET Int /\ Bounded(FreeNodes(t), Size(t))
      BY <1>4 DEF FreeNodes, NodesOf, Bounded
    <2>3. n \in FreeNodes(t) /\ \A y \in FreeNodes(t) : y <= n
      BY <1>4, <2>1, <2>2, MaxIs
    <2> HIDE DEF n, m
    <2>4. n \in NodesOf(t) /\ Node(t, n).k = Nil
      BY <2>3 DEF FreeNodes
    <2>5. n \in Nat /\ n < Size(t)
      BY <1>4, <2>4 DEF NodesOf
    <2>6. \A i \in NodesOf(t) : Node(t, i).k = Nil => i \in FreeNodes(t)
      BY DEF FreeNodes, TableOK, Below
    <2> QED
      BY <1>5, <2>3, <2>4, <2>5, <2>6
  <1> DEFINE Good == HashParts(u) /\ OneMore(u, t) /\ u \in Tables /\ u.flags = t.flags /\ u.arr = t.arr
                     /\ Size(u) = Size(t) /\ u.lastfree <= Size(t) /\ Holds(u, t, k, v)
  <1>7. ASSUME Node(t, m).v = Nil
        PROVE  Good
    <2>1. PlacedHome(u, t, k, v, m)
      BY <1>1, <1>4, <1>7, PlaceHome
    <2> HIDE DEF u
    <2>2. HashParts(u) /\ Occupied(u) = Occupied(t) \cup {m}
      BY <1>1, <1>3, <1>4, <1>7, <2>1, HomeKeeps
    <2>3. Like(u, t, t.lastfree)
      BY <2>1 DEF PlacedHome
    <2>4. Holds(u, t, k, v)
      BY <1>4, <1>7, <2>1, HomeHolds
    <2> HIDE DEF m
    <2> QED
      BY <1>1, <1>4, <2>2, <2>3, <2>4 DEF Like, OneMore
  <1>8. ASSUME Node(t, m).v # Nil, MainPosition(t, Node(t, m).k) = m
        PROVE  Good
    <2>1. PlacedAfter(u, t, k, v, m, n)
      <3> HIDE DEF n
      <3> QED
        BY <1>1, <1>4, <1>5, <1>6, <1>8, PlaceAfter DEF n
    <2> HIDE DEF u, n
    <2>4. /\ n \in NodesOf(t) /\ Node(t, n).k = Nil
          /\ \A i \in NodesOf(t) : Node(t, i).k = Nil => i <= n
      BY <1>6, <1>8
    <2>2. HashParts(u) /\ Occupied(u) = Occupied(t) \cup {n}
      BY <1>1, <1>3, <1>4, <1>8, <2>1, <2>4, AfterKeeps
    <2>3. Like(u, t, n)
      BY <2>1 DEF PlacedAfter
    <2>5. Holds(u, t, k, v)
      BY <1>4, <1>6, <1>8, <2>1, <2>4, AfterHolds
    <2> HIDE DEF m
    <2> QED
      BY <1>1, <1>4, <1>6, <1>8, <2>2, <2>3, <2>5 DEF Like, OneMore
  <1>9. ASSUME Node(t, m).v # Nil, MainPosition(t, Node(t, m).k) # m
        PROVE  Good
    <2> DEFINE S == {i \in NodesOf(t) : Node(t, i).next = m}
               o == MainPosition(t, Node(t, m).k)
               b == Search(t, Node(t, m).k, S)
    <2>1. AtHome(t, o) /\ Reach(t, o, m)
      BY <1>1, <1>4, <1>5, <1>9 DEF Homes
    <2>2. o \in NodesOf(t) /\ o # m
      BY <1>9, <2>1 DEF AtHome
    <2>3. ~(\A i \in S : ~Reach(t, o, i))
      <3> SUFFICES ASSUME \A i \in S : ~Reach(t, o, i) PROVE FALSE
        OBVIOUS
      <3> DEFINE C == {i \in NodesOf(t) : Reach(t, o, i)} \ {m}
      <3>1. ASSUME NEW i \in C
            PROVE  Node(t, i).next \in C \cup {Null}
        <4>1. i \in NodesOf(t) /\ Reach(t, o, i) /\ Node(t, i).next \in NodesOf(t) \cup {Null}
          BY <1>1 DEF Linked
        <4>2. Node(t, i).next # m
          BY <4>1
        <4>3. Node(t, i).next # Null => Reach(t, o, Node(t, i).next)
          BY <2>2, <4>1 DEF Reach, Closed
        <4> QED
          BY <4>1, <4>2, <4>3
      <3>2. o \in C
        BY <2>2 DEF Reach
      <3>3. m \notin C /\ C \in SUBSET NodesOf(t)
        OBVIOUS
      <3> HIDE DEF C
      <3>4. Closed(t, C)
        BY <3>1 DEF Closed
      <3> QED
        BY <2>1, <3>2, <3>3, <3>4 DEF Reach
    <2>4. b \in S
      <3>1. /\ Search(t, Node(t, m).k, S) \in S \cup {Null}
            /\ Search(t, Node(t, m).k, S) = Null => \A i \in S : ~Reach(t, o, i)
        <4>1. S \in SUBSET NodesOf(t)
          OBVIOUS
        <4> HIDE DEF S
        <4> QED
          BY <1>1, <2>2, <4>1, SearchIs
      <3> QED
        BY <2>3, <3>1
    <2>5. b \in NodesOf(t) /\ Node(t, b).next = m
      BY <2>4
    <2> HIDE DEF n
    <2>6. n # b /\ m # b
      <3>1. Node(t, b).k # Nil
        BY <1>1, <1>4, <2>5, NodeIs DEF FreeApart, Null
      <3>2. b # m
        <4> SUFFICES ASSUME Node(t, m).next = m PROVE FALSE
          BY <2>5
        <4>1. PICK rank \in [NodesOf(t) -> Nat] : Decreases(t, rank)
          BY <1>1 DEF Ranked
        <4>2. m # Null
          BY <1>1, <1>4, NodeIs DEF Null
        <4>3. rank[m] < rank[m] /\ rank[m] \in Nat
          BY <1>4, <4>1, <4>2 DEF Decreases
        <4> QED
          BY <4>3
      <3> QED
        BY <1>6, <1>9, <3>1, <3>2
    <2>7. b = Search(t, Node(t, m).k, {i \in NodesOf(t) : Node(t, i).next = m})
      OBVIOUS
    <2> HIDE DEF b, S
    <2>8. PlacedMoving(u, t, k, v, m, n, b)
      BY <1>1, <1>4, <1>5, <1>6, <1>9, <2>5, <2>6, <2>7, PlaceMoving DEF n
    <2> HIDE DEF u
    <2>9. HashParts(u) /\ Occupied(u) = Occupied(t) \cup {n}
      BY <1>1, <1>3, <1>4, <1>6, <1>9, <2>5, <2>8, MovingKeeps
    <2>10. Like(u, t, n)
      BY <2>8 DEF PlacedMoving
    <2>11. Holds(u, t, k, v)
      BY <1>4, <1>6, <1>9, <2>5, <2>6, <2>8, MovingHolds
    <2> HIDE DEF m
    <2> QED
      BY <1>1, <1>4, <1>6, <1>9, <2>9, <2>10, <2>11 DEF Like, OneMore
  <1>10. Good
    BY <1>7, <1>8, <1>9
  <1> HIDE DEF u
  <1>11. HashOK(u) /\ Below(u) /\ ArrayOK(u) /\ SizeOK(u) /\ LiveFirst(u)
    BY <1>1, <1>10 DEF HashParts, HashOK, ArrayOK, SizeOK
  <1>12. ~InArray(t, k) /\ \A j : InArray(u, j) <=> InArray(t, j)
    BY <1>10 DEF Has, InArray
  <1>13. NoShadow(u)
    BY <1>1, <1>10, <1>12 DEF NoShadow, Holds
  <1>14. ASSUME NEW j \in Keys
         PROVE  Get(u, j) = IF j = k THEN v ELSE Get(t, j)
    <2>1. CASE InArray(t, j)
      <3>1. Get(u, j) = u.arr[j] /\ Get(t, j) = t.arr[j]
        BY <1>12, <2>1 DEF Get
      <3> QED
        BY <1>10, <1>12, <2>1, <3>1
    <2>2. CASE ~InArray(t, j) /\ j = k
      <3>1. PICK i \in NodesOf(u) : Node(u, i).k = k /\ Node(u, i).v = v /\ ~Node(u, i).dead
        BY <1>10 DEF Holds
      <3> QED
        BY <1>11, <1>12, <2>2, <3>1, GetHash
    <2>3. CASE ~InArray(t, j) /\ j # k
      <3>1. SameEntries(u, t, j)
        BY <1>10, <2>3 DEF Holds
      <3> QED
        BY <1>1, <1>11, <1>12, <2>3, <3>1, GetSame
    <2> QED
      BY <2>1, <2>2, <2>3
  <1>16. Has(u, k)
    <2>1. PICK i \in NodesOf(u) : Node(u, i).k = k /\ Node(u, i).v = v /\ ~Node(u, i).dead
      BY <1>10 DEF Holds
    <2>2. NodeOf(u, k) = i /\ i # Null
      BY <1>2, <1>10, <1>11, <2>1, NodeOfIs, NodeIs DEF Null
    <2> QED
      BY <2>2 DEF Has
  <1>15. Sets(u, t, k, v)
    BY <1>14, <1>16 DEF Sets
  <1> QED
    BY <1>10, <1>11, <1>13, <1>15 DEF TableOK, u

\* The flags apart, it is the same table.
Alike(u, t) ==
    u \in Tables /\ u.node = t.node /\ u.arr = t.arr /\ u.lastfree = t.lastfree
LEMMA AlikeKeeps ==
    ASSUME NEW t, TableOK(t), NEW u, Alike(u, t)
    PROVE  /\ TableOK(u) /\ Size(u) = Size(t) /\ NodesOf(u) = NodesOf(t) /\ Occupied(u) = Occupied(t)
           /\ \A k \in Keys : (Has(u, k) <=> Has(t, k)) /\ (HasRoom(u, k) <=> HasRoom(t, k))
                              /\ Get(u, k) = Get(t, k)
  <1>1. Size(u) = Size(t) /\ NodesOf(u) = NodesOf(t) /\ \A k : MainPosition(u, k) = MainPosition(t, k)
    <2>1. Size(u) = Size(t)
      BY DEF Alike, Size
    <2> QED
      BY <2>1, SameMain
  <1>2. \A i : Node(u, i) = Node(t, i)
    BY DEF Alike, Node
  <1>3. HashOK(t) /\ Chains(t) /\ DeadAre(t) /\ OneNode(t) /\ FreeApart(t)
    BY DEF TableOK, HashOK, Chains
  <1>4. Chains(u)
    BY <1>1, <1>2, <1>3, ChainsSame DEF FreeApart
  <1>5. DeadAre(u) /\ OneNode(u)
    BY <1>1, <1>2, <1>3 DEF DeadAre, OneNode
  <1>6. HashOK(u)
    BY <1>1, <1>4, <1>5 DEF HashOK, TableOK, Alike
  <1>10. LiveFirst(u)
    BY <1>1, <1>2, FirstSame DEF TableOK
  <1>7. TableOK(u)
    BY <1>1, <1>2, <1>6, <1>10 DEF TableOK, ArrayOK, SizeOK, Below, NoShadow, InArray, Alike
  <1>8. Occupied(u) = Occupied(t) /\ FreeNodes(u) = FreeNodes(t)
    BY <1>1, <1>2 DEF Occupied, FreeNodes, Alike
  <1>9. ASSUME NEW k \in Keys
        PROVE  (Has(u, k) <=> Has(t, k)) /\ (HasRoom(u, k) <=> HasRoom(t, k)) /\ Get(u, k) = Get(t, k)
    <2>1. k # Nil
      BY Sizes
    <2>2. NodeOf(u, k) = NodeOf(t, k)
      <3>1. CASE \E i \in NodesOf(t) : Node(t, i).k = k /\ ~Node(t, i).dead
        <4>1. PICK i \in NodesOf(t) : Node(t, i).k = k /\ ~Node(t, i).dead
          BY <3>1
        <4>2. NodeOf(t, k) = i
          BY <1>3, <2>1, <4>1, NodeOfIs
        <4>3. NodeOf(u, k) = i
          BY <1>1, <1>2, <1>6, <2>1, <4>1, NodeOfIs
        <4> QED
          BY <4>2, <4>3
      <3>2. CASE ~(\E i \in NodesOf(t) : Node(t, i).k = k /\ ~Node(t, i).dead)
        <4>1. NodeOf(t, k) = Null
          BY <1>3, <2>1, <3>2, NodeOfIs
        <4>2. NodeOf(u, k) = Null
          BY <1>1, <1>2, <1>6, <2>1, <3>2, NodeOfIs
        <4> QED
          BY <4>1, <4>2
      <3> QED
        BY <3>1, <3>2
    <2>3. InArray(u, k) <=> InArray(t, k)
      BY DEF InArray, Alike
    <2>4. Has(u, k) <=> Has(t, k)
      BY <2>2, <2>3 DEF Has
    <2>5. HasRoom(u, k) <=> HasRoom(t, k)
      BY <1>1, <1>2, <1>8 DEF HasRoom
    <2>6. Get(u, k) = Get(t, k)
      BY <1>2, <2>2, <2>3 DEF Get, Alike
    <2> QED
      BY <2>4, <2>5, <2>6
  <1> QED
    BY <1>1, <1>7, <1>8, <1>9

IsPut(u, t) ==
    /\ TableOK(u) /\ u.flags = {} /\ Size(u) = Size(t) /\ Len(u.arr) = Len(t.arr)
    /\ Occupied(u) = Occupied(t) \/ OneMore(u, t)

LEMMA PutInKeeps ==
    ASSUME NEW t, TableOK(t), NEW k \in Keys, NEW v \in Vals, Has(t, k) \/ HasRoom(t, k)
    PROVE  /\ IsPut(PutIn(t, k, v), t) /\ Sets(PutIn(t, k, v), t, k, v)
           /\ Has(t, k) => Occupied(PutIn(t, k, v)) = Occupied(t)
  <1>2. CASE Has(t, k)
    BY <1>2, StoreKeeps DEF PutIn, IsPut
  <1>3. CASE ~Has(t, k)
    <2> DEFINE c == [t EXCEPT !.flags = {}]
               u == Place(c, k, v)
    <2>1. Alike(c, t) /\ c.flags = {}
      <3>1. t = [arr |-> t.arr, node |-> t.node, lastfree |-> t.lastfree, flags |-> t.flags]
            /\ t.arr \in Seq(Vals) /\ t.node \in Seq(Nodes) /\ t.lastfree \in Nat
        BY DEF TableOK, HashOK, Tables
      <3>2. c = [arr |-> t.arr, node |-> t.node, lastfree |-> t.lastfree, flags |-> {}]
        <4>1. t = [arr |-> t.arr, node |-> t.node, lastfree |-> t.lastfree, flags |-> t.flags]
          BY <3>1
        <4>2. [[arr |-> t.arr, node |-> t.node, lastfree |-> t.lastfree, flags |-> t.flags] EXCEPT !.flags = {}]
              = [arr |-> t.arr, node |-> t.node, lastfree |-> t.lastfree, flags |-> {}]
          OBVIOUS
        <4> QED
          BY <4>1, <4>2
      <3> HIDE DEF c
      <3>3. c.arr = t.arr /\ c.node = t.node /\ c.lastfree = t.lastfree /\ c.flags = {}
        BY <3>2
      <3>4. c \in Tables
        BY <3>1, <3>2 DEF Tables
      <3> QED
        BY <3>3, <3>4 DEF Alike
    <2> HIDE DEF c
    <2>2. TableOK(c) /\ Size(c) = Size(t) /\ NodesOf(c) = NodesOf(t) /\ Occupied(c) = Occupied(t)
          /\ ~Has(c, k) /\ HasRoom(c, k) /\ c.arr = t.arr /\ \A j \in Keys : Get(c, j) = Get(t, j)
      BY <1>3, <2>1, AlikeKeeps DEF Alike
    <2>3. /\ TableOK(u) /\ u.flags = {} /\ u.arr = c.arr /\ Size(u) = Size(c) /\ OneMore(u, c)
          /\ Sets(u, c, k, v)
      BY <2>1, <2>2, PlaceKeeps
    <2>4. PutIn(t, k, v) = u
      BY <1>3 DEF PutIn, c
    <2> HIDE DEF u
    <2>5. IsPut(u, t)
      BY <2>2, <2>3 DEF IsPut, OneMore
    <2>6. Sets(u, t, k, v)
      BY <2>2, <2>3 DEF Sets
    <2> QED
      BY <1>3, <2>4, <2>5, <2>6
  <1> QED
    BY <1>2, <1>3

-----------------------------------------------------------------------------
(* Folds over sequences: FoldLeft takes the last element off first.           *)

IsFold(g, n, base, F) ==
    g = [s \in SUBSET (1..n) |-> IF s = {} THEN base ELSE F[Max(s)][g[s \ {Max(s)}]]]
Inside(g, n, A) == \A s \in SUBSET (1..n) : g[s] \in A[s]

LEMMA MaxOf ==
    ASSUME NEW n \in Nat, NEW s \in SUBSET (1..n), s # {}
    PROVE  /\ Max(s) \in s /\ Max(s) \in 1..n /\ s \ {Max(s)} \in SUBSET (1..(Max(s) - 1))
           /\ s \ {Max(s)} \in SUBSET (1..n)
  <1>1. s \in SUBSET Int /\ Bounded(s, n)
    BY DEF Bounded
  <1>2. Max(s) \in s /\ \A y \in s : y <= Max(s)
    BY <1>1, MaxIs
  <1>3. ASSUME NEW y \in s \ {Max(s)}
        PROVE  y \in 1..(Max(s) - 1)
    <2>1. y \in 1..n /\ Max(s) \in 1..n /\ y <= Max(s) /\ y # Max(s)
      BY <1>2
    <2> QED
      BY <2>1
  <1> QED
    BY <1>2, <1>3

\* What holds at the start and is kept by every step holds of what a fold computes.
LEMMA FoldInside ==
    ASSUME NEW n \in Nat, NEW g, NEW A, g[{}] \in A[{}],
           \A s \in (SUBSET (1..n)) \ {{}} : g[s \ {Max(s)}] \in A[s \ {Max(s)}] => g[s] \in A[s]
    PROVE  Inside(g, n, A)
  <1> DEFINE Bad == {k \in 0..n : \E s \in SUBSET (1..k) : g[s] \notin A[s]}
  <1>1. Bad = {}
    <2> SUFFICES ASSUME Bad # {} PROVE FALSE
      OBVIOUS
    <2>1. PICK k \in Bad : \A j \in Bad : k <= j
      <3>1. Bad \subseteq Nat
        OBVIOUS
      <3> HIDE DEF Bad
      <3> QED
        BY <3>1, LeastNat
    <2>2. PICK s \in SUBSET (1..k) : g[s] \notin A[s]
      BY <2>1
    <2>3. s # {} /\ s \in SUBSET (1..n) /\ k \in Nat
      <3>1. k \in 0..n
        BY <2>1
      <3>2. \A i \in 1..k : i \in 1..n
        BY <3>1
      <3> HIDE DEF Bad
      <3> QED
        BY <2>2, <3>1, <3>2
    <2>4. Max(s) \in 1..k /\ s \ {Max(s)} \in SUBSET (1..(Max(s) - 1))
      BY <2>2, <2>3, MaxOf
    <2>5. Max(s) - 1 \in 0..n /\ Max(s) - 1 < k
      <3>1. k \in 0..n /\ Max(s) \in 1..k
        BY <2>1, <2>4
      <3> QED
        BY <3>1
    <2>6. g[s \ {Max(s)}] \in A[s \ {Max(s)}]
      <3>1. Max(s) - 1 \notin Bad
        <4>1. Max(s) - 1 \in Int /\ ~(k <= Max(s) - 1)
          BY <2>3, <2>5
        <4> HIDE DEF Bad
        <4> QED
          BY <2>1, <4>1
      <3> QED
        BY <2>4, <2>5, <3>1
    <2> QED
      BY <2>2, <2>3, <2>6
  <1>2. n \in 0..n /\ n \notin Bad
    BY <1>1
  <1>3. \A s \in SUBSET (1..n) : g[s] \in A[s]
    BY <1>2
  <1> QED
    BY <1>3 DEF Inside

\* There is a fold of functions that lead from each set of values to the next.
Steps(n, A, F) ==
    \A s \in (SUBSET (1..n)) \ {{}} : \A x \in A[s \ {Max(s)}] : F[Max(s)][x] \in A[s]
Folding(n, base, F) == CHOOSE g : IsFold(g, n, base, F)
LEMMA FoldExists ==
    ASSUME NEW n \in Nat, NEW base, NEW A, NEW F, base \in A[{}], Steps(n, A, F)
    PROVE  IsFold(Folding(n, base, F), n, base, F) /\ Inside(Folding(n, base, F), n, A)
  <1> DEFINE Bad == {k \in 0..n : ~ \E g : IsFold(g, k, base, F)}
  <1>1. Bad = {}
    <2> SUFFICES ASSUME Bad # {} PROVE FALSE
      OBVIOUS
    <2>1. PICK k \in Bad : \A j \in Bad : k <= j
      <3>1. Bad \subseteq Nat
        OBVIOUS
      <3> HIDE DEF Bad
      <3> QED
        BY <3>1, LeastNat
    <2>2. k # 0
      <3> DEFINE e == [s \in SUBSET (1..0) |-> base]
      <3>1. \A s \in SUBSET (1..0) : s = {}
        OBVIOUS
      <3>2. IsFold(e, 0, base, F)
        BY <3>1 DEF IsFold
      <3> HIDE DEF e
      <3> QED
        BY <3>2
    <2>3. k \in Nat /\ k - 1 \in 0..n /\ k - 1 \notin Bad /\ k - 1 \in Nat
      <3>1. k \in 0..n
        OBVIOUS
      <3>2. k \in Nat /\ k - 1 \in 0..n /\ ~(k <= k - 1) /\ k - 1 \in Nat
        BY <2>2, <3>1
      <3> HIDE DEF Bad
      <3> QED
        BY <2>1, <3>2
    <2>4. PICK h : IsFold(h, k - 1, base, F)
      BY <2>3
    <2> DEFINE g == [s \in SUBSET (1..k) |-> IF s \in SUBSET (1..(k - 1)) THEN h[s]
                                             ELSE F[Max(s)][h[s \ {Max(s)}]]]
               r(s) == IF s = {} THEN base ELSE F[Max(s)][g[s \ {Max(s)}]]
    <2>5. ASSUME NEW s \in SUBSET (1..k)
          PROVE  g[s] = r(s)
      <3>1. CASE s = {}
        BY <2>4, <3>1 DEF IsFold
      <3>2. CASE s # {}
        <4>1. Max(s) \in s /\ Max(s) \in 1..k /\ s \ {Max(s)} \in SUBSET (1..(Max(s) - 1))
              /\ s \ {Max(s)} \in SUBSET (1..k)
          BY <2>3, <3>2, MaxOf
        <4>2. s \ {Max(s)} \in SUBSET (1..(k - 1))
          <5>1. \A i \in 1..(Max(s) - 1) : i \in 1..(k - 1)
            BY <2>3, <4>1
          <5> QED
            BY <4>1, <5>1
        <4>3. g[s \ {Max(s)}] = h[s \ {Max(s)}]
          BY <4>1, <4>2
        <4>4. CASE s \in SUBSET (1..(k - 1))
          <5>1. h[s] = F[Max(s)][h[s \ {Max(s)}]]
            BY <2>4, <3>2, <4>4 DEF IsFold
          <5> QED
            BY <3>2, <4>3, <4>4, <5>1
        <4>5. CASE s \notin SUBSET (1..(k - 1))
          <5>1. g[s] = F[Max(s)][h[s \ {Max(s)}]]
            BY <4>5
          <5> QED
            BY <3>2, <4>3, <5>1
        <4> QED
          BY <4>4, <4>5
      <3> QED
        BY <3>1, <3>2
    <2>6. IsFold(g, k, base, F)
      <3>1. g = [s \in SUBSET (1..k) |-> g[s]]
        OBVIOUS
      <3>2. \A s \in SUBSET (1..k) : g[s] = IF s = {} THEN base ELSE F[Max(s)][g[s \ {Max(s)}]]
        BY <2>5
      <3> HIDE DEF g
      <3>3. g = [s \in SUBSET (1..k) |-> IF s = {} THEN base ELSE F[Max(s)][g[s \ {Max(s)}]]]
        BY <3>1, <3>2
      <3> QED
        BY <3>3 DEF IsFold
    <2> HIDE DEF g
    <2> QED
      BY <2>1, <2>6
  <1>2. n \in 0..n /\ n \notin Bad
    BY <1>1
  <1>3. IsFold(Folding(n, base, F), n, base, F)
    BY <1>2 DEF Folding
  <1> DEFINE f == Folding(n, base, F)
  <1>4. f[{}] \in A[{}]
    BY <1>3 DEF IsFold
  <1>5. ASSUME NEW s \in (SUBSET (1..n)) \ {{}}, f[s \ {Max(s)}] \in A[s \ {Max(s)}]
        PROVE  f[s] \in A[s]
    <2>1. f[s] = F[Max(s)][f[s \ {Max(s)}]]
      BY <1>3, <1>5 DEF IsFold
    <2> QED
      BY <1>5, <2>1 DEF Steps
  <1> HIDE DEF f
  <1>6. Inside(f, n, A)
    BY <1>4, <1>5, FoldInside
  <1> QED
    BY <1>3, <1>6 DEF f

-----------------------------------------------------------------------------
(* Room for the keys: what is counted before a rehash is enough after it.      *)

Count(S) == Cardinality(S)
LEMMA CountInjected ==
    ASSUME NEW S, NEW R, IsFiniteSet(R), NEW f \in [S -> R],
           \A x, y \in S : f[x] = f[y] => x = y
    PROVE  IsFiniteSet(S) /\ Count(S) <= Count(R)
  <1>1. f \in Injection(S, R)
    BY DEF Injection, IsInjective
  <1> QED
    BY <1>1, FS_Injection DEF Count

LEMMA PowerIs ==
    ASSUME NEW n \in Nat
    PROVE  /\ PowerOf2(n) \in Slots(PowerOf2(n)) /\ PowerOf2(n) \in Nat \ {0} /\ PowerOf2(n) >= n
           /\ \A m \in Nat : Slots(m) \subseteq Nat \ {0}
  <1>1. \A m \in Nat : Slots(m) \subseteq Nat \ {0}
    BY TwotoGrows DEF Slots
  <1> DEFINE Q == {p \in Slots(n) : p >= n}
  <1>2. twoto[n] \in Q
    <2>1. n \in 0..n /\ twoto[n] >= n
      BY TwotoGrows
    <2> QED
      BY <2>1 DEF Slots
  <1>3. Q \in SUBSET Nat
    BY <1>1
  <1>4. Min(Q) \in Q
    <2> HIDE DEF Q
    <2> QED
      BY <1>2, <1>3, MinIs
  <1>5. PowerOf2(n) \in Q
    BY <1>4 DEF PowerOf2
  <1>6. PICK i \in 0..n : PowerOf2(n) = twoto[i]
    BY <1>5 DEF Slots
  <1>7. i \in 0..PowerOf2(n)
    BY <1>1, <1>5, <1>6, TwotoGrows
  <1> QED
    BY <1>1, <1>5, <1>6, <1>7 DEF Slots

LEMMA ArrayInts ==
    ASSUME NEW t \in Tables, ArrayOK(t)
    PROVE  Len(t.arr) \in Nat /\ 1..Len(t.arr) \subseteq Ints /\ \A i \in 1..Len(t.arr) : t.arr[i] \in Vals
  <1>1. t.arr \in Seq(Vals)
    BY DEF Tables
  <1>2. Len(t.arr) \in Nat /\ \A i \in 1..Len(t.arr) : t.arr[i] \in Vals
    BY <1>1
  <1>3. CASE Len(t.arr) = 0
    BY <1>2, <1>3
  <1>4. CASE Len(t.arr) \in Slots(MaxBits)
    <2>1. PICK j \in 0..MaxBits : Len(t.arr) = twoto[j]
      BY <1>4 DEF Slots
    <2>2. MaxBits \in Nat /\ j \in Nat /\ j <= MaxBits
      BY Sizes
    <2>3. Len(t.arr) <= twoto[MaxBits] /\ twoto[MaxBits] \in Nat
      BY <2>1, <2>2, TwotoGrows
    <2>4. \A i \in 1..Len(t.arr) : i \in 1..twoto[MaxBits]
      BY <1>2, <2>3
    <2> QED
      BY <1>2, <2>4, Sizes
  <1>5. CASE Len(t.arr) <= MaxLen
    <2>1. \A i \in 1..Len(t.arr) : i \in 0..MaxLen
      BY <1>2, <1>5, Sizes
    <2> QED
      BY <1>2, <2>1, Sizes
  <1> QED
    BY <1>3, <1>4, <1>5 DEF ArrayOK

LEMMA RoomIs ==
    ASSUME NEW t, TableOK(t), Count(Occupied(t)) < Size(t), NEW k \in Keys
    PROVE  HasRoom(t, k)
  <1>1. t \in Tables /\ Below(t)
    BY DEF TableOK, HashOK
  <1>2. Size(t) \in Nat
    BY <1>1, NodeIs
  <1>3. IsFiniteSet(NodesOf(t)) /\ Cardinality(NodesOf(t)) = Size(t)
    <2>1. 0 \in Int /\ Size(t) - 1 \in Int
      BY <1>2
    <2> QED
      BY <1>2, <2>1, FS_Interval DEF NodesOf
  <1>4. Occupied(t) \subseteq NodesOf(t)
    BY DEF Occupied
  <1>5. Occupied(t) # NodesOf(t)
    BY <1>2, <1>3 DEF Count
  <1>6. PICK i \in NodesOf(t) : i \notin Occupied(t)
    BY <1>4, <1>5
  <1>7. i \in FreeNodes(t)
    BY <1>1, <1>6 DEF Occupied, FreeNodes, Below
  <1>8. Size(t) > 0
    BY <1>2, <1>6 DEF NodesOf
  <1> QED
    BY <1>7, <1>8 DEF HasRoom

\* A table that is being filled after its size was set.
Kept(u, na, p, c) ==
    /\ TableOK(u) /\ u.flags = {} /\ Len(u.arr) = na /\ Size(u) = p
    /\ Count(Occupied(u)) <= c

LEMMA PutCounts ==
    ASSUME NEW u, NEW na, NEW p, NEW c \in Nat, Kept(u, na, p, c), NEW k \in Keys, NEW v \in Vals
    PROVE  /\ Has(u, k) => Kept(PutIn(u, k, v), na, p, c)
           /\ c < p => Kept(PutIn(u, k, v), na, p, c + 1)
           /\ Has(u, k) \/ c < p => Sets(PutIn(u, k, v), u, k, v)
  <1> DEFINE w == PutIn(u, k, v)
  <1>1. TableOK(u) /\ u.flags = {} /\ Len(u.arr) = na /\ Size(u) = p /\ Count(Occupied(u)) <= c
    BY DEF Kept
  <1>2. u \in Tables /\ Size(u) \in Nat
    BY <1>1, NodeIs DEF TableOK, HashOK
  <1>3. IsFiniteSet(Occupied(u)) /\ Count(Occupied(u)) \in Nat
    <2>1. IsFiniteSet(NodesOf(u))
      BY <1>2, FS_Interval DEF NodesOf
    <2>2. Occupied(u) \in SUBSET NodesOf(u)
      BY DEF Occupied
    <2>3. IsFiniteSet(Occupied(u))
      BY <2>1, <2>2, FS_Subset
    <2> QED
      BY <2>3, FS_CardinalityType DEF Count
  <1>4. ASSUME Has(u, k)
        PROVE  Kept(w, na, p, c) /\ Sets(w, u, k, v)
    <2>1. IsPut(w, u) /\ Sets(w, u, k, v) /\ Occupied(w) = Occupied(u)
      BY <1>1, <1>4, PutInKeeps
    <2> HIDE DEF w
    <2> QED
      BY <1>1, <2>1 DEF Kept, IsPut
  <1>5. ASSUME c < p
        PROVE  Kept(w, na, p, c + 1) /\ Sets(w, u, k, v)
    <2>1. HasRoom(u, k)
      BY <1>1, <1>2, <1>3, <1>5, RoomIs
    <2>2. IsPut(w, u) /\ Sets(w, u, k, v)
      BY <1>1, <2>1, PutInKeeps
    <2> HIDE DEF w
    <2>3. Count(Occupied(w)) <= c + 1
      <3>1. CASE Occupied(w) = Occupied(u)
        BY <1>1, <1>3, <3>1
      <3>2. CASE OneMore(w, u)
        <4>1. PICK j \in NodesOf(u) : Occupied(w) = Occupied(u) \cup {j}
          BY <3>2 DEF OneMore
        <4>2. Cardinality(Occupied(u) \cup {j}) = IF j \in Occupied(u) THEN Cardinality(Occupied(u))
                                                  ELSE Cardinality(Occupied(u)) + 1
          BY <1>3, FS_AddElement
        <4>3. Count(Occupied(w)) <= Count(Occupied(u)) + 1
          BY <1>3, <4>1, <4>2 DEF Count
        <4>4. Count(Occupied(w)) \in Nat
          BY <1>3, <4>1, <4>2 DEF Count
        <4> QED
          BY <1>1, <1>3, <4>3, <4>4
      <3> QED
        BY <2>2, <3>1, <3>2 DEF IsPut
    <2> QED
      BY <1>1, <2>2, <2>3 DEF Kept, IsPut
  <1> QED
    BY <1>4, <1>5

LEMMA ResizedIs ==
    ASSUME NEW t \in Tables, NEW n \in Nat
    PROVE  /\ Resized(t.arr, n) \in Seq(Vals) /\ Len(Resized(t.arr, n)) = n
           /\ \A i \in 1..n : Resized(t.arr, n)[i] = IF i <= Len(t.arr) THEN t.arr[i] ELSE Nil
  <1> DEFINE a == [i \in 1..n |-> IF i <= Len(t.arr) THEN t.arr[i] ELSE Nil]
  <1>1. t.arr \in Seq(Vals)
    BY DEF Tables
  <1>2. ASSUME NEW i \in 1..n
        PROVE  a[i] \in Vals
    <2>1. i <= Len(t.arr) => i \in 1..Len(t.arr)
      BY <1>1
    <2>2. i <= Len(t.arr) => t.arr[i] \in Vals
      BY <1>1, <2>1
    <2> QED
      BY <2>2 DEF Vals
  <1>3. a \in [1..n -> Vals]
    BY <1>2
  <1>4. a \in Seq(Vals) /\ Len(a) = n
    <2> HIDE DEF a
    <2> QED
      BY <1>3, SeqIs
  <1> QED
    BY <1>4 DEF Resized

LEMMA FreshIs ==
    ASSUME NEW a \in Seq(Vals), NEW n \in Nat, Len(a) \in {0} \cup Slots(MaxBits) \/ Len(a) <= MaxLen
    PROVE  /\ Fresh(a, n).arr = a
           /\ Size(Fresh(a, n)) \in Nat /\ Size(Fresh(a, n)) >= n
           /\ n = 0 => Size(Fresh(a, n)) = 0
           /\ Kept(Fresh(a, n), Len(a), Size(Fresh(a, n)), 0)
           /\ \A i \in NodesOf(Fresh(a, n)) : Node(Fresh(a, n), i) = FreeNode
  <1> DEFINE u == Fresh(a, n)
             ns == NoNodes(n)
  <1>1. FreeNode \in Nodes
    <2> DEFINE R == FreeNode
    <2>1. R = [x \in {"k", "dead", "v", "next"} |-> R[x]] /\ R.k = Nil /\ R.v = Nil /\ R.next = Null
          /\ R.dead \in BOOLEAN
      BY DEF FreeNode
    <2> HIDE DEF R
    <2>2. R \in Nodes
      BY <2>1 DEF Nodes, Vals
    <2> QED
      BY <2>2 DEF R
  <1>2. PowerOf2(n) \in Nat \ {0} /\ PowerOf2(n) >= n /\ PowerOf2(n) \in Slots(PowerOf2(n))
    BY PowerIs
  <1>3. /\ ns \in Seq(Nodes) /\ Len(ns) \in Nat /\ Len(ns) >= n
        /\ Len(ns) = 0 \/ Len(ns) \in Slots(Len(ns))
        /\ \A i \in 1..Len(ns) : ns[i] = FreeNode
        /\ n = 0 => Len(ns) = 0
    <2>1. CASE n = 0
      BY <2>1 DEF NoNodes
    <2>2. CASE n # 0
      <3> DEFINE f == [i \in 1..PowerOf2(n) |-> FreeNode]
      <3>1. f \in [1..PowerOf2(n) -> Nodes]
        BY <1>1
      <3>2. f \in Seq(Nodes) /\ Len(f) = PowerOf2(n)
        <4> HIDE DEF f
        <4> QED
          BY <1>2, <3>1, SeqIs
      <3>3. ns = f
        BY <2>2 DEF NoNodes
      <3>4. \A i \in 1..PowerOf2(n) : f[i] = FreeNode
        OBVIOUS
      <3> HIDE DEF ns, f
      <3> QED
        BY <1>2, <2>2, <3>2, <3>3, <3>4
    <2> QED
      BY <2>1, <2>2
  <1>4. u = [arr |-> a, node |-> ns, lastfree |-> Len(ns), flags |-> {}]
    BY DEF Fresh
  <1> HIDE DEF ns, u
  <1>5. u.arr = a /\ u.node = ns /\ u.lastfree = Len(ns) /\ u.flags = {} /\ Size(u) = Len(ns)
    BY <1>4 DEF Size
  <1>6. u \in Tables
    BY <1>3, <1>4 DEF Tables
  <1>7. \A i \in NodesOf(u) : Node(u, i) = FreeNode
    BY <1>3, <1>5 DEF NodesOf, Node
  <1>8. FreeNode.k = Nil /\ FreeNode.v = Nil /\ FreeNode.next = Null /\ ~FreeNode.dead
    BY DEF FreeNode
  <1>9. Linked(u) /\ OneBefore(u) /\ DeadAre(u) /\ OneNode(u) /\ Homes(u)
    BY <1>7, <1>8 DEF Linked, OneBefore, DeadAre, OneNode, Homes
  <1>10. FreeApart(u)
    <2>1. \A i \in NodesOf(u) : i \in Int /\ i # Null
      BY <1>3, <1>5 DEF NodesOf, Null
    <2>2. \A i \in NodesOf(u) : Node(u, i).v = Nil /\ Node(u, i).next = Null /\ ~Node(u, i).dead
      BY <1>7, <1>8
    <2> QED
      BY <2>1, <2>2 DEF FreeApart
  <1>11. Ranked(u)
    <2> DEFINE r == [i \in NodesOf(u) |-> 0]
    <2>1. r \in [NodesOf(u) -> Nat] /\ Decreases(u, r)
      BY <1>7, <1>8 DEF Decreases
    <2> HIDE DEF r
    <2> QED
      BY <2>1 DEF Ranked
  <1>12. Below(u)
    BY <1>3, <1>5 DEF Below, NodesOf
  <1>13. HashOK(u)
    BY <1>3, <1>5, <1>6, <1>9, <1>10, <1>11 DEF HashOK, Chains
  <1>17. NoShadow(u)
    BY <1>7, <1>8, Sizes DEF NoShadow, InArray
  <1>18. LiveFirst(u)
    BY <1>7, <1>8 DEF LiveFirst
  <1>14. TableOK(u)
    BY <1>3, <1>5, <1>12, <1>13, <1>17, <1>18 DEF TableOK, ArrayOK, SizeOK
  <1>15. Count(Occupied(u)) = 0
    <2>1. Occupied(u) = {}
      BY <1>7, <1>8 DEF Occupied
    <2> QED
      BY <2>1, FS_EmptySet DEF Count
  <1>16. Kept(u, Len(a), Size(u), 0)
    BY <1>5, <1>14, <1>15 DEF Kept
  <1> QED
    BY <1>3, <1>5, <1>7, <1>16 DEF u

LEMMA CountStep ==
    ASSUME NEW D, IsFiniteSet(D), NEW s, NEW m \in s
    PROVE  /\ Count((s \ {m}) \cap D) \in Nat /\ Count(s \cap D) \in Nat /\ Count(D) \in Nat
           /\ m \notin D => Count(s \cap D) = Count((s \ {m}) \cap D)
           /\ m \in D => /\ Count(s \cap D) = Count((s \ {m}) \cap D) + 1
                         /\ Count((s \ {m}) \cap D) < Count(D)
  <1> DEFINE E == (s \ {m}) \cap D
  <1>1. E \in SUBSET D /\ (s \cap D) \in SUBSET D
    OBVIOUS
  <1>2. IsFiniteSet(E) /\ IsFiniteSet(s \cap D) /\ Cardinality(s \cap D) <= Cardinality(D)
    BY <1>1, FS_Subset
  <1>3. Cardinality(E) \in Nat /\ Cardinality(s \cap D) \in Nat /\ Cardinality(D) \in Nat
    BY <1>2, FS_CardinalityType
  <1>4. CASE m \notin D
    <2>1. s \cap D = E
      BY <1>4
    <2> QED
      BY <1>3, <1>4, <2>1 DEF Count
  <1>5. CASE m \in D
    <2>1. s \cap D = E \cup {m} /\ m \notin E
      BY <1>5
    <2> HIDE DEF E
    <2>2. Cardinality(E \cup {m}) = Cardinality(E) + 1
      BY <1>2, <2>1, FS_AddElement
    <2>3. Count(s \cap D) = Count(E) + 1 /\ Count(E) < Count(D) /\ Count(E) \in Nat /\ Count(D) \in Nat
          /\ Count(s \cap D) \in Nat
      BY <1>2, <1>3, <2>1, <2>2 DEF Count
    <2> QED
      BY <1>5, <2>3 DEF E
  <1> QED
    BY <1>4, <1>5

\* Resize first inserts again the slice of the array that goes, then the nodes.
SliceOf(t, na) == IF Len(t.arr) > na THEN [i \in 1..(Len(t.arr) - na) |-> na + i] ELSE <<>>
Moved(t, na) == {j \in 1..(Len(t.arr) - na) : t.arr[na + j] # Nil}
FromSlice(t, na, fresh) ==
    LET from(u, i) == IF t.arr[i] # Nil THEN PutIn(u, i, t.arr[i]) ELSE u
    IN  FoldLeft(from, fresh, SliceOf(t, na))

\* What the elements s of the slice were is what x has for their keys.
FromArray(x, t, na, base, s) ==
    \A j \in Keys : Get(x, j) = IF \E l \in s : j = na + l /\ t.arr[j] # Nil
                                THEN t.arr[j] ELSE Get(base, j)
LEMMA FromArrayStep ==
    ASSUME NEW t, NEW na \in Nat, NEW base, NEW s \in SUBSET Nat, NEW m \in s,
           NEW x, FromArray(x, t, na, base, s \ {m}),
           NEW y, IF t.arr[na + m] = Nil THEN y = x ELSE Sets(y, x, na + m, t.arr[na + m])
    PROVE  FromArray(y, t, na, base, s)
  <1> SUFFICES ASSUME NEW j \in Keys
               PROVE  Get(y, j) = IF \E l \in s : j = na + l /\ t.arr[j] # Nil
                                  THEN t.arr[j] ELSE Get(base, j)
    BY DEF FromArray
  <1>1. Get(x, j) = IF \E l \in s \ {m} : j = na + l /\ t.arr[j] # Nil
                    THEN t.arr[j] ELSE Get(base, j)
    BY DEF FromArray
  <1>2. CASE j = na + m /\ t.arr[j] # Nil
    BY <1>2 DEF Sets
  <1>3. CASE ~(j = na + m /\ t.arr[j] # Nil)
    <2>1. Get(y, j) = Get(x, j)
      BY <1>3 DEF Sets
    <2>2. (\E l \in s : j = na + l /\ t.arr[j] # Nil)
          <=> \E l \in s \ {m} : j = na + l /\ t.arr[j] # Nil
      BY <1>3
    <2> QED
      BY <1>1, <2>1, <2>2
  <1> QED
    BY <1>2, <1>3

LEMMA SliceKept ==
    ASSUME NEW t, TableOK(t), NEW na \in Nat, NEW p \in Nat, NEW fresh, Kept(fresh, na, p, 0),
           IsFiniteSet(Moved(t, na)), Count(Moved(t, na)) <= p
    PROVE  /\ Kept(FromSlice(t, na, fresh), na, p, Count(Moved(t, na)))
           /\ FromArray(FromSlice(t, na, fresh), t, na, fresh, 1..(Len(t.arr) - na))
  <1> DEFINE q == SliceOf(t, na)
             D == Moved(t, na)
             op(u, i) == IF t.arr[i] # Nil THEN PutIn(u, i, t.arr[i]) ELSE u
  <1>1. t \in Tables /\ Len(t.arr) \in Nat /\ 1..Len(t.arr) \subseteq Keys
        /\ \A i \in 1..Len(t.arr) : t.arr[i] \in Vals
    BY ArrayInts DEF TableOK, HashOK, Keys
  <1> DEFINE n == IF Len(t.arr) > na THEN Len(t.arr) - na ELSE 0
  <1>2. n \in Nat /\ DOMAIN q = 1..n /\ 1..n = 1..(Len(t.arr) - na)
        /\ \A j \in 1..n : q[j] = na + j /\ na + j \in 1..Len(t.arr)
    <2>1. CASE Len(t.arr) > na
      <3>1. n = Len(t.arr) - na /\ n \in Nat
        BY <1>1, <2>1
      <3>2. q = [i \in 1..n |-> na + i]
        BY <2>1, <3>1 DEF SliceOf
      <3>3. \A j \in 1..n : na + j \in 1..Len(t.arr)
        BY <1>1, <2>1, <3>1
      <3> HIDE DEF n, q
      <3> QED
        BY <3>1, <3>2, <3>3
    <2>2. CASE ~(Len(t.arr) > na)
      <3>1. q = << >> /\ n = 0
        BY <2>2 DEF SliceOf
      <3>2. DOMAIN q = 1..0 /\ \A j : j \notin 1..0 /\ j \notin 1..(Len(t.arr) - na)
        BY <1>1, <2>2, <3>1
      <3> HIDE DEF q, n
      <3> QED
        BY <3>1, <3>2
    <2> QED
      BY <2>1, <2>2
  <1> DEFINE iter == CHOOSE f : f = [s \in SUBSET DOMAIN q |-> IF s = {} THEN fresh
                                       ELSE op(f[s \ {Max(s)}], q[Max(s)])]
  <1>3. FromSlice(t, na, fresh) = iter[DOMAIN q]
    BY DEF FromSlice, FoldLeft, MapThenFoldSet
  <1> DEFINE A == [s \in SUBSET (1..n) |-> {x \in Tables : Kept(x, na, p, Count(s \cap D))
                                                            /\ FromArray(x, t, na, fresh, s)}]
             F == [j \in 1..n |-> [x \in Tables |-> op(x, q[j])]]
  <1> HIDE DEF n, q
  <1>4. ASSUME NEW s \in (SUBSET (1..n)) \ {{}}, NEW x \in A[s \ {Max(s)}]
        PROVE  F[Max(s)][x] = op(x, q[Max(s)]) /\ op(x, q[Max(s)]) \in A[s]
    <2> DEFINE m == Max(s)
    <2>1. m \in s /\ m \in 1..n /\ s \ {m} \in SUBSET (1..n)
      BY <1>2, MaxOf
    <2>2. x \in Tables /\ Kept(x, na, p, Count((s \ {m}) \cap D)) /\ FromArray(x, t, na, fresh, s \ {m})
      BY <1>4, <2>1
    <2> HIDE DEF m
    <2>3. F[m][x] = op(x, q[m])
      BY <2>1, <2>2
    <2>4. q[m] \in Keys /\ q[m] = na + m /\ t.arr[q[m]] \in Vals
      BY <1>1, <1>2, <2>1
    <2>5. m \in D <=> t.arr[q[m]] # Nil
      BY <1>2, <2>1, <2>4 DEF Moved
    <2> HIDE DEF D
    <2>6. /\ Count((s \ {m}) \cap D) \in Nat /\ Count(s \cap D) \in Nat /\ Count(D) \in Nat
          /\ m \notin D => Count(s \cap D) = Count((s \ {m}) \cap D)
          /\ m \in D => /\ Count(s \cap D) = Count((s \ {m}) \cap D) + 1
                        /\ Count((s \ {m}) \cap D) < Count(D)
      BY <2>1, CountStep DEF D
    <2>7. /\ Kept(op(x, q[m]), na, p, Count(s \cap D))
          /\ IF t.arr[na + m] = Nil THEN op(x, q[m]) = x ELSE Sets(op(x, q[m]), x, na + m, t.arr[na + m])
      <3>1. CASE t.arr[q[m]] = Nil
        BY <2>2, <2>4, <2>5, <2>6, <3>1
      <3>2. CASE t.arr[q[m]] # Nil
        <4>1. Count((s \ {m}) \cap D) < p
          BY <2>5, <2>6, <3>2 DEF D
        <4>2. Kept(PutIn(x, q[m], t.arr[q[m]]), na, p, Count((s \ {m}) \cap D) + 1)
              /\ Sets(PutIn(x, q[m], t.arr[q[m]]), x, q[m], t.arr[q[m]])
          BY <2>2, <2>4, <2>6, <4>1, PutCounts
        <4> QED
          BY <2>4, <2>5, <2>6, <3>2, <4>2
      <3> QED
        BY <3>1, <3>2
    <2>8. op(x, q[m]) \in Tables
      BY <2>7 DEF Kept, TableOK, HashOK
    <2> HIDE DEF op
    <2>10. FromArray(op(x, q[m]), t, na, fresh, s)
      <3>1. s \in SUBSET Nat
        BY <1>2
      <3> QED
        BY <2>1, <2>2, <2>7, <3>1, FromArrayStep
    <2>9. op(x, q[m]) \in A[s]
      BY <2>7, <2>8, <2>10
    <2> HIDE DEF A, F
    <2> QED
      BY <2>3, <2>9 DEF m
  <1>5. fresh \in A[{}]
    <2>1. {} \cap D = {}
      OBVIOUS
    <2>2. Count({} \cap D) = 0
      BY <2>1, FS_EmptySet DEF Count
    <2>3. fresh \in Tables
      BY DEF Kept, TableOK, HashOK
    <2>4. FromArray(fresh, t, na, fresh, {})
      BY DEF FromArray
    <2> HIDE DEF D
    <2> QED
      BY <2>2, <2>3, <2>4
  <1> HIDE DEF A, F, op
  <1>6. Steps(n, A, F)
    BY <1>4 DEF Steps
  <1> DEFINE g == Folding(n, fresh, F)
  <1>7. IsFold(g, n, fresh, F) /\ Inside(g, n, A)
    BY <1>2, <1>5, <1>6, FoldExists
  <1> HIDE DEF g
  <1>8. g = [s \in SUBSET DOMAIN q |-> IF s = {} THEN fresh ELSE op(g[s \ {Max(s)}], q[Max(s)])]
    <2>1. ASSUME NEW s \in SUBSET (1..n)
          PROVE  g[s] = IF s = {} THEN fresh ELSE op(g[s \ {Max(s)}], q[Max(s)])
      <3>1. CASE s = {}
        BY <1>7, <3>1 DEF IsFold
      <3>2. CASE s # {}
        <4>1. g[s] = F[Max(s)][g[s \ {Max(s)}]]
          BY <1>7, <3>2 DEF IsFold
        <4>2. g[s \ {Max(s)}] \in A[s \ {Max(s)}]
          BY <1>2, <1>7, <3>2, MaxOf DEF Inside
        <4> QED
          BY <1>4, <3>2, <4>1, <4>2
      <3> QED
        BY <3>1, <3>2
    <2>2. g = [s \in SUBSET (1..n) |-> g[s]]
      BY <1>7 DEF IsFold
    <2> QED
      BY <1>2, <2>1, <2>2
  <1>9. iter = [s \in SUBSET DOMAIN q |-> IF s = {} THEN fresh ELSE op(iter[s \ {Max(s)}], q[Max(s)])]
    BY <1>8 DEF op
  <1> HIDE DEF iter
  <1>10. iter[{}] \in A[{}]
    BY <1>2, <1>5, <1>9
  <1>11. ASSUME NEW s \in (SUBSET (1..n)) \ {{}}, iter[s \ {Max(s)}] \in A[s \ {Max(s)}]
         PROVE  iter[s] \in A[s]
    <2>1. iter[s] = op(iter[s \ {Max(s)}], q[Max(s)])
      BY <1>2, <1>9
    <2> QED
      BY <1>4, <1>11, <2>1
  <1>12. Inside(iter, n, A)
    BY <1>2, <1>10, <1>11, FoldInside
  <1>13. iter[1..n] \in A[1..n]
    BY <1>12 DEF Inside
  <1>14. (1..n) \cap D = D
    BY <1>2 DEF Moved
  <1>15. Kept(iter[1..n], na, p, Count((1..n) \cap D)) /\ FromArray(iter[1..n], t, na, fresh, 1..n)
    BY <1>13 DEF A
  <1> QED
    BY <1>2, <1>3, <1>14, <1>15


Again(t, na) ==
    {j \in 1..Size(t) : LET x == Node(t, Size(t) - j)
                        IN  x.v # Nil /\ ~(x.k \in Ints /\ x.k \in 1..na)}
FromNodes(t, base) ==
    LET again(u, i) == IF Node(t, i).v # Nil THEN PutIn(u, Node(t, i).k, Node(t, i).v) ELSE u
    IN  FoldLeft(again, base, Reverse([i \in 1..Size(t) |-> i - 1]))

\* What the nodes s of t, counted from the last, held is what x has for their keys.
FromHash(x, t, base, s) ==
    \A j \in Keys : Get(x, j) = IF \E l \in s : LET y == Node(t, Size(t) - l) IN y.k = j /\ y.v # Nil
                                THEN Get(t, j) ELSE Get(base, j)
LEMMA FromHashStep ==
    ASSUME NEW t, TableOK(t), NEW base, NEW s, NEW m \in s, NEW i \in NodesOf(t), i = Size(t) - m,
           NEW x, FromHash(x, t, base, s \ {m}),
           NEW y, IF Node(t, i).v = Nil THEN y = x ELSE Sets(y, x, Node(t, i).k, Node(t, i).v)
    PROVE  FromHash(y, t, base, s)
  <1> DEFINE Had(l, j) == Node(t, Size(t) - l).k = j /\ Node(t, Size(t) - l).v # Nil
  <1> SUFFICES ASSUME NEW j \in Keys
               PROVE  Get(y, j) = IF \E l \in s : Had(l, j) THEN Get(t, j) ELSE Get(base, j)
    BY DEF FromHash
  <1>1. Get(x, j) = IF \E l \in s \ {m} : Had(l, j) THEN Get(t, j) ELSE Get(base, j)
    BY DEF FromHash
  <1>2. Had(m, j) <=> Node(t, i).k = j /\ Node(t, i).v # Nil
    OBVIOUS
  <1> HIDE DEF Had
  <1>3. CASE Had(m, j)
    <2>1. Get(t, j) = Node(t, i).v
      <3>1. HashOK(t) /\ ~InArray(t, j) /\ Entry(t, j, Node(t, i).v)
        BY <1>2, <1>3 DEF TableOK, NoShadow, Entry
      <3> QED
        BY <1>2, <1>3, <3>1, GetHash
    <2>2. Get(y, j) = Node(t, i).v
      BY <1>2, <1>3 DEF Sets
    <2> QED
      BY <1>3, <2>1, <2>2
  <1>4. CASE ~Had(m, j)
    <2>1. Get(y, j) = Get(x, j)
      BY <1>2, <1>4 DEF Sets
    <2>2. (\E l \in s : Had(l, j)) <=> \E l \in s \ {m} : Had(l, j)
      BY <1>4
    <2> QED
      BY <1>1, <2>1, <2>2
  <1> QED
    BY <1>3, <1>4

LEMMA NodesKept ==
    ASSUME NEW t, TableOK(t), NEW na \in Nat, NEW p \in Nat, NEW base, NEW c0 \in Nat,
           Kept(base, na, p, c0), IsFiniteSet(Again(t, na)), c0 + Count(Again(t, na)) <= p
    PROVE  /\ Kept(FromNodes(t, base), na, p, c0 + Count(Again(t, na)))
           /\ FromHash(FromNodes(t, base), t, base, 1..Size(t))
  <1> DEFINE q == Reverse([i \in 1..Size(t) |-> i - 1])
             D == Again(t, na)
             op(u, i) == IF Node(t, i).v # Nil THEN PutIn(u, Node(t, i).k, Node(t, i).v) ELSE u
             n == Size(t)
  <1>1. t \in Tables /\ Size(t) \in Nat /\ FreeApart(t)
    BY NodeIs DEF TableOK, HashOK, Chains
  <1>2. n \in Nat /\ n = Size(t) /\ DOMAIN q = 1..n
        /\ \A j \in 1..n : q[j] = Size(t) - j /\ q[j] \in NodesOf(t)
    <2> DEFINE w == [i \in 1..Size(t) |-> i - 1]
    <2>1. w \in [1..Size(t) -> Int]
      BY <1>1
    <2>2. Len(w) = Size(t)
      <3> HIDE DEF w
      <3> QED
        BY <1>1, <2>1, SeqIs
    <2>3. q = [j \in 1..Size(t) |-> w[(Size(t) - j) + 1]]
      <3>1. q = Reverse(w)
        OBVIOUS
      <3> HIDE DEF w, q
      <3> QED
        BY <2>2, <3>1 DEF Reverse
    <2>4. ASSUME NEW j \in 1..Size(t)
          PROVE  q[j] = Size(t) - j /\ q[j] \in NodesOf(t)
      <3>1. (Size(t) - j) + 1 \in 1..Size(t) /\ Size(t) - j \in 0..(Size(t) - 1)
        BY <1>1
      <3>2. w[(Size(t) - j) + 1] = Size(t) - j
        BY <1>1, <3>1
      <3> HIDE DEF w, q
      <3> QED
        BY <2>3, <3>1, <3>2 DEF NodesOf
    <2> HIDE DEF w, q
    <2> QED
      BY <1>1, <2>3, <2>4
  <1> DEFINE iter == CHOOSE f : f = [s \in SUBSET DOMAIN q |-> IF s = {} THEN base
                                       ELSE op(f[s \ {Max(s)}], q[Max(s)])]
  <1>3. FromNodes(t, base) = iter[DOMAIN q]
    BY DEF FromNodes, FoldLeft, MapThenFoldSet
  <1> DEFINE A == [s \in SUBSET (1..n) |-> {x \in Tables : Kept(x, na, p, c0 + Count(s \cap D))
                                                            /\ FromHash(x, t, base, s)}]
             F == [j \in 1..n |-> [x \in Tables |-> op(x, q[j])]]
  <1> HIDE DEF n, q
  <1>4. ASSUME NEW s \in (SUBSET (1..n)) \ {{}}, NEW x \in A[s \ {Max(s)}]
        PROVE  F[Max(s)][x] = op(x, q[Max(s)]) /\ op(x, q[Max(s)]) \in A[s]
    <2> DEFINE m == Max(s)
    <2>1. m \in s /\ m \in 1..n /\ s \ {m} \in SUBSET (1..n)
      BY <1>2, MaxOf
    <2>2. x \in Tables /\ Kept(x, na, p, c0 + Count((s \ {m}) \cap D)) /\ FromHash(x, t, base, s \ {m})
      BY <1>4, <2>1
    <2> HIDE DEF m
    <2>3. F[m][x] = op(x, q[m])
      BY <2>1, <2>2
    <2> DEFINE i == q[m]
    <2>4. i \in NodesOf(t) /\ i = Size(t) - m
      BY <1>2, <2>1
    <2>5. m \in D <=> Node(t, i).v # Nil /\ ~(Node(t, i).k \in Ints /\ Node(t, i).k \in 1..na)
      BY <1>2, <2>1, <2>4 DEF Again
    <2> HIDE DEF D
    <2>6. /\ Count((s \ {m}) \cap D) \in Nat /\ Count(s \cap D) \in Nat /\ Count(D) \in Nat
          /\ m \notin D => Count(s \cap D) = Count((s \ {m}) \cap D)
          /\ m \in D => /\ Count(s \cap D) = Count((s \ {m}) \cap D) + 1
                        /\ Count((s \ {m}) \cap D) < Count(D)
      BY <2>1, CountStep DEF D
    <2>7. /\ Kept(op(x, i), na, p, c0 + Count(s \cap D))
          /\ IF Node(t, i).v = Nil THEN op(x, i) = x ELSE Sets(op(x, i), x, Node(t, i).k, Node(t, i).v)
      <3>1. CASE Node(t, i).v = Nil
        BY <2>2, <2>5, <2>6, <3>1
      <3>2. CASE Node(t, i).v # Nil
        <4> DEFINE c == c0 + Count((s \ {m}) \cap D)
        <4>1. Node(t, i).k \in Keys /\ Node(t, i).v \in Vals /\ c \in Nat
          BY <1>1, <2>4, <2>6, <3>2, NodeIs DEF FreeApart
        <4>2. CASE m \in D
          <5>1. c < p /\ c + 1 = c0 + Count(s \cap D)
            BY <2>6, <4>2 DEF D
          <5>2. Kept(PutIn(x, Node(t, i).k, Node(t, i).v), na, p, c + 1)
                /\ Sets(PutIn(x, Node(t, i).k, Node(t, i).v), x, Node(t, i).k, Node(t, i).v)
            BY <2>2, <4>1, <5>1, PutCounts
          <5> QED
            BY <3>2, <5>1, <5>2
        <4>3. CASE m \notin D
          <5>1. Node(t, i).k \in Ints /\ Node(t, i).k \in 1..na /\ Len(x.arr) = na
            BY <2>2, <2>5, <3>2, <4>3 DEF Kept
          <5>2. Has(x, Node(t, i).k)
            BY <5>1 DEF Has, InArray
          <5>3. Kept(PutIn(x, Node(t, i).k, Node(t, i).v), na, p, c)
                /\ Sets(PutIn(x, Node(t, i).k, Node(t, i).v), x, Node(t, i).k, Node(t, i).v)
            BY <2>2, <4>1, <5>2, PutCounts
          <5> QED
            BY <2>6, <3>2, <4>3, <5>3
        <4> QED
          BY <4>2, <4>3
      <3> QED
        BY <3>1, <3>2
    <2>8. op(x, i) \in Tables
      BY <2>7 DEF Kept, TableOK, HashOK
    <2> HIDE DEF op
    <2>10. FromHash(op(x, i), t, base, s)
      BY <2>1, <2>2, <2>4, <2>7, FromHashStep
    <2>9. op(x, i) \in A[s]
      BY <2>7, <2>8, <2>10
    <2> HIDE DEF A, F
    <2> QED
      BY <2>3, <2>9 DEF m, i
  <1>5. base \in A[{}]
    <2>1. {} \cap D = {}
      OBVIOUS
    <2>2. Count({} \cap D) = 0
      BY <2>1, FS_EmptySet DEF Count
    <2>3. base \in Tables
      BY DEF Kept, TableOK, HashOK
    <2>5. FromHash(base, t, base, {})
      BY DEF FromHash
    <2> HIDE DEF D
    <2>4. c0 + Count({} \cap D) = c0
      BY <2>2
    <2> QED
      BY <2>3, <2>4, <2>5
  <1> HIDE DEF A, F, op
  <1>6. Steps(n, A, F)
    BY <1>4 DEF Steps
  <1> DEFINE g == Folding(n, base, F)
  <1>7. IsFold(g, n, base, F) /\ Inside(g, n, A)
    BY <1>2, <1>5, <1>6, FoldExists
  <1> HIDE DEF g
  <1>8. g = [s \in SUBSET DOMAIN q |-> IF s = {} THEN base ELSE op(g[s \ {Max(s)}], q[Max(s)])]
    <2>1. ASSUME NEW s \in SUBSET (1..n)
          PROVE  g[s] = IF s = {} THEN base ELSE op(g[s \ {Max(s)}], q[Max(s)])
      <3>1. CASE s = {}
        BY <1>7, <3>1 DEF IsFold
      <3>2. CASE s # {}
        <4>1. g[s] = F[Max(s)][g[s \ {Max(s)}]]
          BY <1>7, <3>2 DEF IsFold
        <4>2. g[s \ {Max(s)}] \in A[s \ {Max(s)}]
          BY <1>2, <1>7, <3>2, MaxOf DEF Inside
        <4> QED
          BY <1>4, <3>2, <4>1, <4>2
      <3> QED
        BY <3>1, <3>2
    <2>2. g = [s \in SUBSET (1..n) |-> g[s]]
      BY <1>7 DEF IsFold
    <2> QED
      BY <1>2, <2>1, <2>2
  <1>9. iter = [s \in SUBSET DOMAIN q |-> IF s = {} THEN base ELSE op(iter[s \ {Max(s)}], q[Max(s)])]
    BY <1>8 DEF op
  <1> HIDE DEF iter
  <1>10. iter[{}] \in A[{}]
    BY <1>2, <1>5, <1>9
  <1>11. ASSUME NEW s \in (SUBSET (1..n)) \ {{}}, iter[s \ {Max(s)}] \in A[s \ {Max(s)}]
         PROVE  iter[s] \in A[s]
    <2>1. iter[s] = op(iter[s \ {Max(s)}], q[Max(s)])
      BY <1>2, <1>9
    <2> QED
      BY <1>4, <1>11, <2>1
  <1>12. Inside(iter, n, A)
    BY <1>2, <1>10, <1>11, FoldInside
  <1>13. iter[1..n] \in A[1..n]
    BY <1>12 DEF Inside
  <1>14. (1..n) \cap D = D
    BY <1>2 DEF Again
  <1>15. Kept(iter[1..n], na, p, c0 + Count((1..n) \cap D)) /\ FromHash(iter[1..n], t, base, 1..n)
    BY <1>13 DEF A
  <1> QED
    BY <1>2, <1>3, <1>14, <1>15

LEMMA ResizeIs ==
    ASSUME NEW t, TableOK(t), NEW na \in Nat, NEW nh \in Nat,
           na \in {0} \cup Slots(MaxBits) \/ na <= MaxLen,
           IsFiniteSet(Moved(t, na)), IsFiniteSet(Again(t, na)),
           Count(Moved(t, na)) + Count(Again(t, na)) <= nh
    PROVE  /\ Kept(Resize(t, na, nh), na, Size(Resize(t, na, nh)), Count(Moved(t, na)) + Count(Again(t, na)))
           /\ Size(Resize(t, na, nh)) \in Nat /\ Size(Resize(t, na, nh)) >= nh
           /\ \A j \in Keys : Get(Resize(t, na, nh), j) = Get(t, j)
  <1> DEFINE fresh == Fresh(Resized(t.arr, na), nh)
             first == FromSlice(t, na, fresh)
             p == Size(fresh)
             a == Count(Moved(t, na))
             b == Count(Again(t, na))
  <1>1. t \in Tables
    BY DEF TableOK, HashOK
  <1>2. Resized(t.arr, na) \in Seq(Vals) /\ Len(Resized(t.arr, na)) = na
        /\ \A i \in 1..na : Resized(t.arr, na)[i] = IF i <= Len(t.arr) THEN t.arr[i] ELSE Nil
    BY <1>1, ResizedIs
  <1>3. p \in Nat /\ p >= nh /\ Kept(fresh, na, p, 0) /\ fresh.arr = Resized(t.arr, na)
        /\ \A i \in NodesOf(fresh) : Node(fresh, i) = FreeNode
    BY <1>2, FreshIs
  <1>4. a \in Nat /\ b \in Nat
    BY FS_CardinalityType DEF Count
  <1>5. a <= p /\ a + b <= p
    <2> HIDE DEF a, b, p
    <2>1. a + b <= nh
      BY DEF a, b
    <2> QED
      BY <1>3, <1>4, <2>1
  <1> HIDE DEF fresh, p
  <1>6. Kept(first, na, p, a) /\ FromArray(first, t, na, fresh, 1..(Len(t.arr) - na))
    BY <1>3, <1>5, SliceKept
  <1> HIDE DEF first
  <1>7. Kept(FromNodes(t, first), na, p, a + b) /\ FromHash(FromNodes(t, first), t, first, 1..Size(t))
    BY <1>3, <1>4, <1>5, <1>6, NodesKept
  <1>8. Resize(t, na, nh) = FromNodes(t, first)
    BY DEF Resize, FromNodes, first, FromSlice, SliceOf, fresh
  <1>9. Size(Resize(t, na, nh)) = p
    BY <1>7, <1>8 DEF Kept
  <1>10. HashOK(t) /\ NoShadow(t) /\ FreeApart(t) /\ Size(t) \in Nat /\ Len(t.arr) \in Nat
         /\ 1..Len(t.arr) \subseteq Ints
    BY <1>1, NodeIs, ArrayInts DEF TableOK, HashOK, Chains
  <1>11. ASSUME NEW j \in Keys
         PROVE  Get(first, j) = IF InArray(t, j) THEN t.arr[j] ELSE Nil
    <2>1. Get(fresh, j) = IF j \in Ints /\ j \in 1..na /\ j <= Len(t.arr) THEN t.arr[j] ELSE Nil
      <3>1. CASE InArray(fresh, j)
        <4>1. Get(fresh, j) = Resized(t.arr, na)[j] /\ j \in 1..na /\ j \in Ints
          BY <1>2, <1>3, <3>1 DEF Get, InArray
        <4> QED
          BY <1>2, <4>1
      <3>2. CASE ~InArray(fresh, j)
        <4>1. ~(j \in Ints /\ j \in 1..na)
          BY <1>2, <1>3, <3>2 DEF InArray
        <4>2. \A x : x # Nil => ~Entry(fresh, j, x)
          BY <1>3 DEF Entry, FreeNode
        <4>3. HashOK(fresh)
          BY <1>3 DEF Kept, TableOK
        <4>4. Get(fresh, j) = Nil
          BY <3>2, <4>2, <4>3, GetHash
        <4> QED
          BY <4>1, <4>4
      <3> QED
        BY <3>1, <3>2
    <2>2. Get(first, j) = IF \E l \in 1..(Len(t.arr) - na) : j = na + l /\ t.arr[j] # Nil
                          THEN t.arr[j] ELSE Get(fresh, j)
      BY <1>6 DEF FromArray
    <2>3. CASE InArray(t, j)
      <3>1. j \in Ints /\ j \in 1..Len(t.arr)
        BY <2>3 DEF InArray
      <3>2. CASE j \in 1..na
        BY <1>10, <2>1, <2>2, <2>3, <3>1, <3>2
      <3>3. CASE j \notin 1..na
        <4>1. j - na \in 1..(Len(t.arr) - na) /\ j = na + (j - na)
          BY <1>10, <3>1, <3>3
        <4> QED
          BY <2>1, <2>2, <2>3, <3>3, <4>1
      <3> QED
        BY <3>2, <3>3
    <2>4. CASE ~InArray(t, j)
      <3>1. j \notin 1..Len(t.arr)
        BY <1>10, <2>4 DEF InArray
      <3>2. \A l \in 1..(Len(t.arr) - na) : j # na + l
        <4>1. ASSUME NEW l \in 1..(Len(t.arr) - na)
              PROVE  na + l \in 1..Len(t.arr)
          BY <1>10
        <4> QED
          BY <3>1, <4>1
      <3>3. ~(j \in 1..na /\ j <= Len(t.arr))
        BY <1>10, <3>1
      <3> QED
        BY <2>1, <2>2, <2>4, <3>2, <3>3
    <2> QED
      BY <2>3, <2>4
  <1>12. ASSUME NEW j \in Keys
         PROVE  Get(FromNodes(t, first), j) = Get(t, j)
    <2> DEFINE Had(l) == Node(t, Size(t) - l).k = j /\ Node(t, Size(t) - l).v # Nil
    <2>1. Get(FromNodes(t, first), j) = IF \E l \in 1..Size(t) : Had(l) THEN Get(t, j) ELSE Get(first, j)
      BY <1>7 DEF FromHash
    <2>2. CASE InArray(t, j)
      <3>1. Get(t, j) = t.arr[j]
        BY <2>2 DEF Get
      <3> QED
        BY <1>11, <2>1, <2>2, <3>1
    <2>3. CASE ~InArray(t, j) /\ Get(t, j) # Nil
      <3>1. PICK i \in NodesOf(t) : Node(t, i).k = j /\ Node(t, i).v = Get(t, j)
        BY <1>10, <2>3, GetHash DEF Entry
      <3>2. Size(t) - i \in 1..Size(t) /\ Size(t) - (Size(t) - i) = i
        BY <1>10 DEF NodesOf
      <3>3. Had(Size(t) - i)
        BY <2>3, <3>1, <3>2
      <3> HIDE DEF Had
      <3> QED
        BY <2>1, <3>2, <3>3
    <2>4. CASE ~InArray(t, j) /\ Get(t, j) = Nil
      BY <1>11, <2>1, <2>4
    <2> QED
      BY <2>2, <2>3, <2>4
  <1> QED
    BY <1>3, <1>7, <1>8, <1>9, <1>12

LEMMA CountUnion ==
    ASSUME NEW S, NEW R, IsFiniteSet(S), IsFiniteSet(R)
    PROVE  /\ IsFiniteSet(S \cup R) /\ Count(S) \in Nat /\ Count(R) \in Nat /\ Count(S \cup R) \in Nat
           /\ Count(S \cup R) <= Count(S) + Count(R)
           /\ S \cap R = {} => Count(S \cup R) = Count(S) + Count(R)
  <1>1. IsFiniteSet(S \cup R) /\ Cardinality(S \cup R) = Cardinality(S) + Cardinality(R) - Cardinality(S \cap R)
    BY FS_Union
  <1>2. IsFiniteSet(S \cap R)
    BY FS_Intersection
  <1>3. /\ Cardinality(S) \in Nat /\ Cardinality(R) \in Nat /\ Cardinality(S \cap R) \in Nat
        /\ Cardinality(S \cup R) \in Nat
    BY <1>1, <1>2, FS_CardinalityType
  <1>4. S \cap R = {} => Cardinality(S \cap R) = 0
    BY FS_EmptySet
  <1> QED
    BY <1>1, <1>3, <1>4 DEF Count

LEMMA CountSub ==
    ASSUME NEW S, IsFiniteSet(S), NEW R \in SUBSET S
    PROVE  IsFiniteSet(R) /\ Count(R) \in Nat /\ Count(S) \in Nat /\ Count(R) <= Count(S)
  BY FS_Subset, FS_CardinalityType DEF Count

LEMMA CountImage ==
    ASSUME NEW S, IsFiniteSet(S), NEW f, DOMAIN f = S
    PROVE  IsFiniteSet({f[x] : x \in S}) /\ Count({f[x] : x \in S}) <= Count(S)
  <1> DEFINE R == {f[x] : x \in S}
  <1> DEFINE h == [x \in S |-> f[x]]
  <1>2. h \in Surjection(S, R)
    BY DEF Surjection
  <1> HIDE DEF R, h
  <1>3. IsFiniteSet(R) /\ Cardinality(R) <= Cardinality(S)
    BY <1>2, FS_Surjection
  <1> QED
    BY <1>3 DEF R, Count

\* What Rehash counts: the keys in use of the array and of the nodes, divided at na.
ArrayUsed(t) == {i \in 1..Len(t.arr) : t.arr[i] # Nil}
ArrayLow(t, na) == {i \in ArrayUsed(t) : i <= na}
ArrayHigh(t, na) == {i \in ArrayUsed(t) : i > na}
NodesUsed(t) == {i \in NodesOf(t) : Node(t, i).v # Nil}
NodesLow(t, na) == {i \in NodesUsed(t) : Node(t, i).k \in Ints /\ Node(t, i).k \in 1..na}
NodesHigh(t, na) == {i \in NodesUsed(t) : ~(Node(t, i).k \in Ints /\ Node(t, i).k \in 1..na)}

LEMMA ArrayDivided ==
    ASSUME NEW t, TableOK(t), NEW na \in Nat
    PROVE  /\ IsFiniteSet(ArrayLow(t, na)) /\ IsFiniteSet(ArrayHigh(t, na)) /\ IsFiniteSet(ArrayUsed(t))
           /\ Count(ArrayUsed(t)) = Count(ArrayLow(t, na)) + Count(ArrayHigh(t, na))
           /\ IsFiniteSet(Moved(t, na)) /\ Count(Moved(t, na)) <= Count(ArrayHigh(t, na))
  <1> DEFINE L == Len(t.arr)
             f == [j \in Moved(t, na) |-> na + j]
  <1>1. L \in Nat
    BY ArrayInts DEF TableOK, HashOK
  <1>2. IsFiniteSet(1..L)
    BY <1>1, FS_Interval
  <1> HIDE DEF L
  <1>3. ArrayUsed(t) \in SUBSET (1..L) /\ ArrayLow(t, na) \in SUBSET (1..L) /\ ArrayHigh(t, na) \in SUBSET (1..L)
    BY DEF ArrayUsed, ArrayLow, ArrayHigh, L
  <1>4. IsFiniteSet(ArrayLow(t, na)) /\ IsFiniteSet(ArrayHigh(t, na)) /\ IsFiniteSet(ArrayUsed(t))
    BY <1>2, <1>3, CountSub
  <1>5. ArrayUsed(t) = ArrayLow(t, na) \cup ArrayHigh(t, na) /\ ArrayLow(t, na) \cap ArrayHigh(t, na) = {}
    <2>1. \A i \in ArrayUsed(t) : i \in Int
      BY <1>1, <1>3
    <2>2. \A i \in Int : (i <= na \/ i > na) /\ ~(i <= na /\ i > na)
      OBVIOUS
    <2> QED
      BY <2>1, <2>2 DEF ArrayLow, ArrayHigh
  <1>6. \A j \in Moved(t, na) : j \in Int /\ na + j \in ArrayHigh(t, na)
    <2>1. ASSUME NEW j \in Moved(t, na)
          PROVE  j \in Int /\ na + j \in ArrayHigh(t, na)
      <3>1. j \in 1..(L - na) /\ t.arr[na + j] # Nil
        BY DEF Moved, L
      <3>2. j \in Int /\ na + j \in 1..L /\ na + j > na
        BY <1>1, <3>1
      <3> QED
        BY <3>1, <3>2 DEF ArrayHigh, ArrayUsed, L
    <2> QED
      BY <2>1
  <1>7. f \in [Moved(t, na) -> ArrayHigh(t, na)]
    BY <1>6
  <1>8. ASSUME NEW x \in Moved(t, na), NEW y \in Moved(t, na), f[x] = f[y]
        PROVE  x = y
    <2>1. x \in Int /\ y \in Int /\ na + x = na + y
      BY <1>6, <1>8
    <2> QED
      BY <2>1
  <1> HIDE DEF f
  <1>9. IsFiniteSet(Moved(t, na)) /\ Count(Moved(t, na)) <= Count(ArrayHigh(t, na))
    BY <1>4, <1>7, <1>8, CountInjected
  <1> QED
    BY <1>4, <1>5, <1>9, CountUnion

LEMMA NodesDivided ==
    ASSUME NEW t, TableOK(t), NEW na \in Nat
    PROVE  /\ IsFiniteSet(NodesLow(t, na)) /\ IsFiniteSet(NodesHigh(t, na)) /\ IsFiniteSet(NodesUsed(t))
           /\ Count(NodesUsed(t)) = Count(NodesLow(t, na)) + Count(NodesHigh(t, na))
           /\ IsFiniteSet(Again(t, na)) /\ Count(Again(t, na)) <= Count(NodesHigh(t, na))
  <1> DEFINE f == [j \in Again(t, na) |-> Size(t) - j]
  <1>1. Size(t) \in Nat
    BY NodeIs DEF TableOK, HashOK
  <1>2. IsFiniteSet(NodesOf(t))
    BY <1>1, FS_Interval DEF NodesOf
  <1>3. /\ NodesUsed(t) \in SUBSET NodesOf(t) /\ NodesLow(t, na) \in SUBSET NodesOf(t)
        /\ NodesHigh(t, na) \in SUBSET NodesOf(t)
    BY DEF NodesUsed, NodesLow, NodesHigh
  <1>4. IsFiniteSet(NodesLow(t, na)) /\ IsFiniteSet(NodesHigh(t, na)) /\ IsFiniteSet(NodesUsed(t))
    BY <1>2, <1>3, CountSub
  <1>5. NodesUsed(t) = NodesLow(t, na) \cup NodesHigh(t, na) /\ NodesLow(t, na) \cap NodesHigh(t, na) = {}
    BY DEF NodesLow, NodesHigh
  <1>6. \A j \in Again(t, na) : j \in Int /\ Size(t) - j \in NodesHigh(t, na)
    <2>1. ASSUME NEW j \in Again(t, na)
          PROVE  j \in Int /\ Size(t) - j \in NodesHigh(t, na)
      <3>1. j \in 1..Size(t) /\ Node(t, Size(t) - j).v # Nil
            /\ ~(Node(t, Size(t) - j).k \in Ints /\ Node(t, Size(t) - j).k \in 1..na)
        BY DEF Again
      <3>2. j \in Int /\ Size(t) - j \in 0..(Size(t) - 1)
        BY <1>1, <3>1
      <3> QED
        BY <3>1, <3>2 DEF NodesHigh, NodesUsed, NodesOf
    <2> QED
      BY <2>1
  <1>7. f \in [Again(t, na) -> NodesHigh(t, na)]
    BY <1>6
  <1>8. \A x, y \in Again(t, na) : f[x] = f[y] => x = y
    BY <1>1, <1>6
  <1> HIDE DEF f
  <1>9. IsFiniteSet(Again(t, na)) /\ Count(Again(t, na)) <= Count(NodesHigh(t, na))
    BY <1>4, <1>7, <1>8, CountInjected
  <1> QED
    BY <1>4, <1>5, <1>9, CountUnion

LEMMA ArraySizeIs ==
    ASSUME NEW S
    PROVE  ArraySize(S) \in {0} \cup Slots(MaxBits) /\ ArraySize(S) \in Nat /\ ArraySize(S) <= twoto[MaxBits]
  <1> DEFINE Q == {0} \cup {n \in Slots(MaxBits) : 2 * UpTo(S, n) > n}
  <1>1. MaxBits \in Nat /\ Slots(MaxBits) \subseteq Nat /\ twoto[MaxBits] \in Nat
    BY Sizes, PowerIs, TwotoGrows
  <1>2. \A n \in Slots(MaxBits) : n <= twoto[MaxBits]
    <2>1. ASSUME NEW i \in 0..MaxBits
          PROVE  twoto[i] <= twoto[MaxBits]
      BY <1>1, TwotoGrows
    <2> QED
      BY <2>1 DEF Slots
  <1>3. Q \in SUBSET Int /\ Q # {} /\ Bounded(Q, twoto[MaxBits]) /\ Q \subseteq {0} \cup Slots(MaxBits)
    BY <1>1, <1>2 DEF Bounded
  <1>4. ArraySize(S) = Max(Q)
    BY DEF ArraySize
  <1> HIDE DEF Q
  <1>5. Max(Q) \in Q
    BY <1>1, <1>3, MaxIs
  <1>6. ArraySize(S) <= twoto[MaxBits]
    BY <1>3, <1>4, <1>5 DEF Bounded
  <1>7. ArraySize(S) \in {0} \cup Slots(MaxBits)
    BY <1>3, <1>4, <1>5
  <1> QED
    BY <1>1, <1>6, <1>7

LEMMA CountOne ==
    ASSUME NEW x
    PROVE  Count({x}) = 1 /\ Count({}) = 0 /\ IsFiniteSet({x}) /\ IsFiniteSet({})
  BY FS_Singleton, FS_EmptySet DEF Count

\* There will be a node for every key that is not in the new array, and for ek.
LEMMA NewSizes ==
    ASSUME NEW t, TableOK(t), NEW ek \in Keys, NEW na, na = NewArraySize(t, ek),
           NEW nh, nh = NewHashSize(t, ek)
    PROVE  /\ na \in {0} \cup Slots(MaxBits) /\ na \in Nat /\ nh \in Nat
           /\ IsFiniteSet(Moved(t, na)) /\ IsFiniteSet(Again(t, na))
           /\ Count(Moved(t, na)) + Count(Again(t, na)) <= nh
           /\ ~(ek \in Ints /\ ek \in 1..na) => Count(Moved(t, na)) + Count(Again(t, na)) + 1 <= nh
  <1> DEFINE W == {k \in UsedInts(t, ek) : k <= na}
             key == [i \in NodesLow(t, na) |-> Node(t, i).k]
             I == {key[i] : i \in NodesLow(t, na)}
             E == IF ek \in Ints /\ ek \in 1..na THEN {ek} ELSE {}
             low == ArrayLow(t, na)
  <1>1. na \in {0} \cup Slots(MaxBits) /\ na \in Nat
    BY ArraySizeIs DEF NewArraySize
  <1>2. /\ IsFiniteSet(low) /\ IsFiniteSet(ArrayHigh(t, na)) /\ IsFiniteSet(ArrayUsed(t))
        /\ Count(ArrayUsed(t)) = Count(low) + Count(ArrayHigh(t, na))
        /\ IsFiniteSet(Moved(t, na)) /\ Count(Moved(t, na)) <= Count(ArrayHigh(t, na))
    BY <1>1, ArrayDivided
  <1>3. /\ IsFiniteSet(NodesLow(t, na)) /\ IsFiniteSet(NodesHigh(t, na)) /\ IsFiniteSet(NodesUsed(t))
        /\ Count(NodesUsed(t)) = Count(NodesLow(t, na)) + Count(NodesHigh(t, na))
        /\ IsFiniteSet(Again(t, na)) /\ Count(Again(t, na)) <= Count(NodesHigh(t, na))
    BY <1>1, NodesDivided
  <1>4. IsFiniteSet(I) /\ Count(I) <= Count(NodesLow(t, na))
    <2>1. DOMAIN key = NodesLow(t, na)
      OBVIOUS
    <2> HIDE DEF key
    <2> QED
      BY <1>3, <2>1, CountImage
  <1>5. IsFiniteSet(E) /\ Count(E) <= 1 /\ (~(ek \in Ints /\ ek \in 1..na) => Count(E) = 0)
    BY CountOne
  <1>6. W \in SUBSET ((low \cup I) \cup E)
    <2>1. ASSUME NEW k \in W
          PROVE  k \in (low \cup I) \cup E
      <3>1. k \in Ints /\ k \in 1..twoto[MaxBits] /\ k <= na
            /\ \/ k \in ArrayUsed(t)
               \/ \E i \in NodesUsed(t) : k = Node(t, i).k
               \/ k = ek
        BY DEF UsedInts, ArrayUsed, NodesUsed
      <3>2. twoto[MaxBits] \in Nat
        BY Sizes, TwotoGrows
      <3>3. k \in 1..na
        BY <1>1, <3>1, <3>2
      <3>4. CASE k \in ArrayUsed(t)
        BY <3>1, <3>4 DEF ArrayLow
      <3>5. CASE \E i \in NodesUsed(t) : k = Node(t, i).k
        <4>1. PICK i \in NodesUsed(t) : k = Node(t, i).k
          BY <3>5
        <4>2. i \in NodesLow(t, na) /\ key[i] = k
          BY <3>1, <3>3, <4>1 DEF NodesLow
        <4> HIDE DEF key
        <4> QED
          BY <4>2
      <3>6. CASE k = ek
        BY <3>1, <3>3, <3>6
      <3> QED
        BY <3>1, <3>4, <3>5, <3>6
    <2> HIDE DEF W, I, E, low
    <2> QED
      BY <2>1
  <1>7. nh = (Count(ArrayUsed(t)) + Count(NodesUsed(t)) + 1) - Count(W)
    <2>1. UpTo(UsedInts(t, ek), na) = Count(W)
      BY DEF UpTo, Count
    <2>2. Used(t) = Count(ArrayUsed(t)) + Count(NodesUsed(t)) + 1
      BY DEF Used, UsedNodes, ArrayUsed, NodesUsed, Count
    <2>3. nh = Used(t) - UpTo(UsedInts(t, ek), na)
      BY DEF NewHashSize
    <2> HIDE DEF W
    <2> QED
      BY <2>1, <2>2, <2>3
  <1> HIDE DEF W, I, E, low
  <1>8. /\ IsFiniteSet(low \cup I) /\ Count(low) \in Nat /\ Count(I) \in Nat /\ Count(low \cup I) \in Nat
        /\ Count(low \cup I) <= Count(low) + Count(I)
    BY <1>2, <1>4, CountUnion
  <1>9. /\ IsFiniteSet((low \cup I) \cup E) /\ Count(E) \in Nat /\ Count((low \cup I) \cup E) \in Nat
        /\ Count((low \cup I) \cup E) <= Count(low \cup I) + Count(E)
    BY <1>5, <1>8, CountUnion
  <1>10. Count(W) \in Nat /\ Count(W) <= Count((low \cup I) \cup E)
    BY <1>6, <1>9, CountSub
  <1>11. /\ Count(ArrayHigh(t, na)) \in Nat /\ Count(NodesLow(t, na)) \in Nat /\ Count(NodesHigh(t, na)) \in Nat
         /\ Count(Moved(t, na)) \in Nat /\ Count(Again(t, na)) \in Nat
    BY <1>2, <1>3, FS_CardinalityType DEF Count
  <1>12. /\ nh \in Int /\ Count(Moved(t, na)) + Count(Again(t, na)) + 1 <= nh + Count(E)
    BY <1>2, <1>3, <1>4, <1>7, <1>8, <1>9, <1>10, <1>11
  <1>13. nh \in Nat /\ Count(Moved(t, na)) + Count(Again(t, na)) <= nh
         /\ (Count(E) = 0 => Count(Moved(t, na)) + Count(Again(t, na)) + 1 <= nh)
    BY <1>5, <1>9, <1>11, <1>12
  <1> QED
    BY <1>1, <1>2, <1>3, <1>5, <1>13

\* An assignment, that is luaH_set and the store of the value: whatever rehash it takes,
\* its key has the value from then on, and every other key has the one it had.
LEMMA PutKeeps ==
    ASSUME NEW t, TableOK(t), NEW k \in Keys, NEW v \in Vals
    PROVE  /\ TableOK(Put(t, k, v)) /\ Put(t, k, v).flags = {} /\ Put(t, k, v) \in Tables
           /\ Sets(Put(t, k, v), t, k, v)
  <1>1. CASE Has(t, k) \/ HasRoom(t, k)
    <2>1. IsPut(PutIn(t, k, v), t) /\ Sets(PutIn(t, k, v), t, k, v)
      BY <1>1, PutInKeeps
    <2> QED
      BY <1>1, <2>1 DEF Put, IsPut, TableOK, HashOK
  <1>2. CASE ~(Has(t, k) \/ HasRoom(t, k))
    <2> DEFINE na == NewArraySize(t, k)
               nh == NewHashSize(t, k)
               u == Resize(t, na, nh)
               c == Count(Moved(t, na)) + Count(Again(t, na))
    <2>1. /\ na \in {0} \cup Slots(MaxBits) /\ na \in Nat /\ nh \in Nat
          /\ IsFiniteSet(Moved(t, na)) /\ IsFiniteSet(Again(t, na)) /\ c <= nh
          /\ ~(k \in Ints /\ k \in 1..na) => c + 1 <= nh
      BY NewSizes
    <2>2. Put(t, k, v) = PutIn(u, k, v)
      BY <1>2 DEF Put, Rehash
    <2> HIDE DEF na, nh
    <2>3. /\ Kept(u, na, Size(u), c) /\ Size(u) \in Nat /\ Size(u) >= nh
          /\ \A j \in Keys : Get(u, j) = Get(t, j)
      BY <2>1, ResizeIs
    <2>4. c \in Nat
      BY <2>1, FS_CardinalityType DEF Count
    <2> HIDE DEF u, c
    <2>5. TableOK(u) /\ Len(u.arr) = na /\ Count(Occupied(u)) <= c
      BY <2>3 DEF Kept
    <2>6. Has(u, k) \/ HasRoom(u, k)
      <3>1. CASE k \in Ints /\ k \in 1..na
        BY <2>5, <3>1 DEF Has, InArray
      <3>2. CASE ~(k \in Ints /\ k \in 1..na)
        <4>1. Count(Occupied(u)) \in Int
          <5>1. Size(u) \in Nat /\ IsFiniteSet(NodesOf(u))
            BY <2>3, FS_Interval DEF NodesOf
          <5>2. Occupied(u) \in SUBSET NodesOf(u)
            BY DEF Occupied
          <5> QED
            BY <5>1, <5>2, CountSub
        <4>2. Count(Occupied(u)) < Size(u)
          BY <2>1, <2>3, <2>4, <2>5, <3>2, <4>1
        <4> QED
          BY <2>5, <4>2, RoomIs
      <3> QED
        BY <3>1, <3>2
    <2>7. IsPut(PutIn(u, k, v), u) /\ Sets(PutIn(u, k, v), u, k, v)
      BY <2>5, <2>6, PutInKeeps
    <2>8. Sets(Put(t, k, v), t, k, v)
      BY <2>2, <2>3, <2>7 DEF Sets
    <2> QED
      BY <2>2, <2>7, <2>8 DEF IsPut, TableOK, HashOK
  <1> QED
    BY <1>1, <1>2

-----------------------------------------------------------------------------
(* The operations.                                                          *)

Good == {x \in Tables : TableOK(x)}
Clean == {x \in Good : x.flags = {}}

\* The loops over the keys q that give each its value in s, and the value d slots away.
SetIn(t, s, q) ==
    LET set(u, i) == Put(u, i, s[i])
    IN  FoldLeft(set, t, q)
\* After the keys at w of q have been given their values in s.
Given(x, base, s, q, w) ==
    \A k \in Keys : Get(x, k) = IF \E l \in w : q[l] = k THEN s[k] ELSE Get(base, k)
LEMMA GivenStep ==
    ASSUME NEW base, NEW s, NEW q, NEW w, NEW m \in w, NEW x, Given(x, base, s, q, w \ {m}),
           NEW y, Sets(y, x, q[m], s[q[m]])
    PROVE  Given(y, base, s, q, w)
  <1>1. ASSUME NEW k \in Keys
        PROVE  Get(y, k) = IF \E l \in w : q[l] = k THEN s[k] ELSE Get(base, k)
    <2>1. Get(y, k) = IF k = q[m] THEN s[q[m]] ELSE Get(x, k)
      BY DEF Sets
    <2>2. Get(x, k) = IF \E l \in w \ {m} : q[l] = k THEN s[k] ELSE Get(base, k)
      BY DEF Given
    <2>3. CASE k = q[m]
      BY <2>1, <2>3
    <2>4. CASE k # q[m]
      <3>1. (\E l \in w : q[l] = k) <=> \E l \in w \ {m} : q[l] = k
        BY <2>4
      <3> QED
        BY <2>1, <2>2, <2>4, <3>1
    <2> QED
      BY <2>3, <2>4
  <1> QED
    BY <1>1 DEF Given

LEMMA SetIs ==
    ASSUME NEW base \in Clean, NEW s, NEW n \in Nat, NEW q, DOMAIN q = 1..n,
           \A j \in 1..n : q[j] \in Keys /\ s[q[j]] \in Vals
    PROVE  SetIn(base, s, q) \in Clean /\ Given(SetIn(base, s, q), base, s, q, 1..n)
  <1> DEFINE op(u, i) == Put(u, i, s[i])
             iter == CHOOSE f : f = [w \in SUBSET DOMAIN q |-> IF w = {} THEN base
                                       ELSE op(f[w \ {Max(w)}], q[Max(w)])]
             A == [w \in SUBSET (1..n) |-> {x \in Clean : Given(x, base, s, q, w)}]
             F == [j \in 1..n |-> [x \in Clean |-> op(x, q[j])]]
  <1>1. SetIn(base, s, q) = iter[DOMAIN q]
    BY DEF SetIn, FoldLeft, MapThenFoldSet
  <1>2. ASSUME NEW j \in 1..n, NEW x \in Clean
        PROVE  F[j][x] = op(x, q[j]) /\ op(x, q[j]) \in Clean /\ Sets(op(x, q[j]), x, q[j], s[q[j]])
    <2>1. TableOK(x) /\ q[j] \in Keys /\ s[q[j]] \in Vals
      BY DEF Clean, Good
    <2> QED
      BY <2>1, PutKeeps DEF Clean, Good
  <1> HIDE DEF F, op
  <1>12. ASSUME NEW w \in (SUBSET (1..n)) \ {{}}, NEW x \in A[w \ {Max(w)}]
         PROVE  F[Max(w)][x] = op(x, q[Max(w)]) /\ op(x, q[Max(w)]) \in A[w]
    <2> DEFINE m == Max(w)
    <2>1. m \in w /\ m \in 1..n /\ w \ {m} \in SUBSET (1..n)
      BY MaxOf
    <2>2. x \in Clean /\ Given(x, base, s, q, w \ {m})
      BY <1>12, <2>1
    <2> HIDE DEF m
    <2>3. F[m][x] = op(x, q[m]) /\ op(x, q[m]) \in Clean /\ Sets(op(x, q[m]), x, q[m], s[q[m]])
      BY <1>2, <2>1, <2>2
    <2>4. Given(op(x, q[m]), base, s, q, w)
      BY <2>1, <2>2, <2>3, GivenStep
    <2>5. w \in SUBSET (1..n)
      OBVIOUS
    <2> QED
      BY <2>3, <2>4, <2>5 DEF m
  <1>13. base \in A[{}]
    BY DEF Given
  <1> HIDE DEF A
  <1>3. Steps(n, A, F)
    BY <1>12 DEF Steps
  <1> DEFINE g == Folding(n, base, F)
  <1>4. IsFold(g, n, base, F) /\ Inside(g, n, A)
    BY <1>3, <1>13, FoldExists
  <1> HIDE DEF g
  <1>6. g = [w \in SUBSET DOMAIN q |-> IF w = {} THEN base ELSE op(g[w \ {Max(w)}], q[Max(w)])]
    <2>1. ASSUME NEW w \in SUBSET (1..n)
          PROVE  g[w] = IF w = {} THEN base ELSE op(g[w \ {Max(w)}], q[Max(w)])
      <3>1. CASE w = {}
        BY <1>4, <3>1 DEF IsFold
      <3>2. CASE w # {}
        <4>1. g[w] = F[Max(w)][g[w \ {Max(w)}]]
          BY <1>4, <3>2 DEF IsFold
        <4>2. w \ {Max(w)} \in SUBSET (1..n)
          BY <3>2, MaxOf
        <4>3. g[w \ {Max(w)}] \in A[w \ {Max(w)}]
          BY <1>4, <4>2 DEF Inside
        <4> QED
          BY <1>12, <3>2, <4>1, <4>3
      <3> QED
        BY <3>1, <3>2
    <2>2. g = [w \in SUBSET (1..n) |-> g[w]]
      BY <1>4 DEF IsFold
    <2> QED
      BY <2>1, <2>2
  <1>7. iter = [w \in SUBSET DOMAIN q |-> IF w = {} THEN base ELSE op(iter[w \ {Max(w)}], q[Max(w)])]
    BY <1>6 DEF op
  <1> HIDE DEF iter
  <1>8. iter[{}] \in A[{}]
    BY <1>7, <1>13
  <1>9. ASSUME NEW w \in (SUBSET (1..n)) \ {{}}, iter[w \ {Max(w)}] \in A[w \ {Max(w)}]
        PROVE  iter[w] \in A[w]
    <2>1. Max(w) \in 1..n /\ w \ {Max(w)} \in SUBSET (1..n)
      BY MaxOf
    <2>2. iter[w] = op(iter[w \ {Max(w)}], q[Max(w)])
      BY <1>7, <1>9, <2>1
    <2> QED
      BY <1>9, <1>12, <2>2
  <1>10. Inside(iter, n, A)
    BY <1>8, <1>9, FoldInside
  <1>11. iter[1..n] \in A[1..n]
    BY <1>10 DEF Inside
  <1>14. iter[DOMAIN q] \in Clean /\ Given(iter[DOMAIN q], base, s, q, 1..n)
    BY <1>11 DEF A
  <1> QED
    BY <1>1, <1>14

\* After the keys at w of q have been given the values d slots away.
ShiftedTo(x, base, q, d, w) ==
    \A k \in Keys : Get(x, k) = IF \E l \in w : q[l] = k THEN Get(base, k + d) ELSE Get(base, k)
\* The value a key is given has not been overwritten.
NotYet(q, d, n) == \A j \in 1..n : q[j] + d \in Keys /\ \A l \in 1..n : l < j => q[l] # q[j] + d
LEMMA ShiftStep ==
    ASSUME NEW n \in Nat, NEW base, NEW q, NEW d, NotYet(q, d, n), NEW w \in SUBSET (1..n),
           NEW m \in w, w \ {m} \in SUBSET (1..(m - 1)), NEW x, ShiftedTo(x, base, q, d, w \ {m}),
           NEW y, Sets(y, x, q[m], Get(x, q[m] + d))
    PROVE  ShiftedTo(y, base, q, d, w)
  <1>1. Get(x, q[m] + d) = Get(base, q[m] + d)
    <2>1. ASSUME NEW l \in w \ {m}
          PROVE  q[l] # q[m] + d
      <3>1. l < m /\ l \in 1..n /\ m \in 1..n
        OBVIOUS
      <3> QED
        BY <3>1 DEF NotYet
    <2>2. q[m] + d \in Keys
      BY DEF NotYet
    <2> QED
      BY <2>1, <2>2 DEF ShiftedTo
  <1>2. ASSUME NEW k \in Keys
        PROVE  Get(y, k) = IF \E l \in w : q[l] = k THEN Get(base, k + d) ELSE Get(base, k)
    <2>1. Get(y, k) = IF k = q[m] THEN Get(base, q[m] + d) ELSE Get(x, k)
      BY <1>1 DEF Sets
    <2>2. Get(x, k) = IF \E l \in w \ {m} : q[l] = k THEN Get(base, k + d) ELSE Get(base, k)
      BY DEF ShiftedTo
    <2>3. CASE k = q[m]
      BY <2>1, <2>3
    <2>4. CASE k # q[m]
      <3>1. (\E l \in w : q[l] = k) <=> \E l \in w \ {m} : q[l] = k
        BY <2>4
      <3> QED
        BY <2>1, <2>2, <2>4, <3>1
    <2> QED
      BY <2>3, <2>4
  <1> QED
    BY <1>2 DEF ShiftedTo

LEMMA ShiftIs ==
    ASSUME NEW base \in Good, NEW d \in Int, NEW n \in Nat, NEW q, DOMAIN q = 1..n,
           \A j \in 1..n : q[j] \in Ints, NotYet(q, d, n)
    PROVE  Shifted(base, q, d) \in Good /\ ShiftedTo(Shifted(base, q, d), base, q, d, 1..n)
  <1> DEFINE op(u, i) == Put(u, i, Get(u, i + d))
             iter == CHOOSE f : f = [w \in SUBSET DOMAIN q |-> IF w = {} THEN base
                                       ELSE op(f[w \ {Max(w)}], q[Max(w)])]
             A == [w \in SUBSET (1..n) |-> {x \in Good : ShiftedTo(x, base, q, d, w)}]
             F == [j \in 1..n |-> [x \in Good |-> op(x, q[j])]]
  <1>1. Shifted(base, q, d) = iter[DOMAIN q]
    BY DEF Shifted, FoldLeft, MapThenFoldSet
  <1>2. ASSUME NEW j \in 1..n, NEW x \in Good
        PROVE  F[j][x] = op(x, q[j]) /\ op(x, q[j]) \in Good /\ Sets(op(x, q[j]), x, q[j], Get(x, q[j] + d))
    <2>1. TableOK(x) /\ HashOK(x) /\ q[j] \in Keys /\ q[j] \in Int
      BY Sizes DEF Good, Keys, TableOK
    <2>2. q[j] + d # Nil
      BY <2>1, Sizes
    <2>3. Get(x, q[j] + d) \in Vals
      BY <2>1, <2>2, GetIs
    <2> QED
      BY <2>1, <2>3, PutKeeps DEF Good
  <1> HIDE DEF F, op
  <1>12. ASSUME NEW w \in (SUBSET (1..n)) \ {{}}, NEW x \in A[w \ {Max(w)}]
         PROVE  F[Max(w)][x] = op(x, q[Max(w)]) /\ op(x, q[Max(w)]) \in A[w]
    <2> DEFINE m == Max(w)
    <2>1. m \in w /\ m \in 1..n /\ w \ {m} \in SUBSET (1..(m - 1)) /\ w \ {m} \in SUBSET (1..n)
      BY MaxOf
    <2>2. x \in Good /\ ShiftedTo(x, base, q, d, w \ {m})
      BY <1>12, <2>1
    <2> HIDE DEF m
    <2>3. F[m][x] = op(x, q[m]) /\ op(x, q[m]) \in Good /\ Sets(op(x, q[m]), x, q[m], Get(x, q[m] + d))
      BY <1>2, <2>1, <2>2
    <2>5. w \in SUBSET (1..n)
      OBVIOUS
    <2>4. ShiftedTo(op(x, q[m]), base, q, d, w)
      BY <2>1, <2>2, <2>3, <2>5, ShiftStep
    <2> QED
      BY <2>3, <2>4, <2>5 DEF m
  <1>13. base \in A[{}]
    BY DEF ShiftedTo
  <1> HIDE DEF A
  <1>3. Steps(n, A, F)
    BY <1>12 DEF Steps
  <1> DEFINE g == Folding(n, base, F)
  <1>4. IsFold(g, n, base, F) /\ Inside(g, n, A)
    BY <1>3, <1>13, FoldExists
  <1> HIDE DEF g
  <1>6. g = [w \in SUBSET DOMAIN q |-> IF w = {} THEN base ELSE op(g[w \ {Max(w)}], q[Max(w)])]
    <2>1. ASSUME NEW w \in SUBSET (1..n)
          PROVE  g[w] = IF w = {} THEN base ELSE op(g[w \ {Max(w)}], q[Max(w)])
      <3>1. CASE w = {}
        BY <1>4, <3>1 DEF IsFold
      <3>2. CASE w # {}
        <4>1. g[w] = F[Max(w)][g[w \ {Max(w)}]]
          BY <1>4, <3>2 DEF IsFold
        <4>2. w \ {Max(w)} \in SUBSET (1..n)
          BY <3>2, MaxOf
        <4>3. g[w \ {Max(w)}] \in A[w \ {Max(w)}]
          BY <1>4, <4>2 DEF Inside
        <4> QED
          BY <1>12, <3>2, <4>1, <4>3
      <3> QED
        BY <3>1, <3>2
    <2>2. g = [w \in SUBSET (1..n) |-> g[w]]
      BY <1>4 DEF IsFold
    <2> QED
      BY <2>1, <2>2
  <1>7. iter = [w \in SUBSET DOMAIN q |-> IF w = {} THEN base ELSE op(iter[w \ {Max(w)}], q[Max(w)])]
    BY <1>6 DEF op
  <1> HIDE DEF iter
  <1>8. iter[{}] \in A[{}]
    BY <1>7, <1>13
  <1>9. ASSUME NEW w \in (SUBSET (1..n)) \ {{}}, iter[w \ {Max(w)}] \in A[w \ {Max(w)}]
        PROVE  iter[w] \in A[w]
    <2>1. Max(w) \in 1..n /\ w \ {Max(w)} \in SUBSET (1..n)
      BY MaxOf
    <2>2. iter[w] = op(iter[w \ {Max(w)}], q[Max(w)])
      BY <1>7, <1>9, <2>1
    <2> QED
      BY <1>9, <1>12, <2>2
  <1>10. Inside(iter, n, A)
    BY <1>8, <1>9, FoldInside
  <1>11. iter[1..n] \in A[1..n]
    BY <1>10 DEF Inside
  <1>14. iter[DOMAIN q] \in Good /\ ShiftedTo(iter[DOMAIN q], base, q, d, 1..n)
    BY <1>11 DEF A
  <1> QED
    BY <1>1, <1>14

-----------------------------------------------------------------------------
(* The border.                                                              *)

Border(t, n) == n \in Nat /\ (n = 0 \/ Get(t, n) # Nil) /\ Get(t, n + 1) = Nil
Ends(t, B) == \A j \in Nat : j >= B => Get(t, j) = Nil

LEMMA PresentIs ==
    ASSUME NEW t, HashOK(t), NEW j \in Int, Get(t, j) # Nil
    PROVE  /\ j \in Ints
           /\ InArray(t, j) \/ \E i \in NodesOf(t) : Node(t, i).k = j
  <1>1. j # Nil
    BY Sizes
  <1>2. CASE InArray(t, j)
    BY <1>2 DEF InArray
  <1>3. CASE ~InArray(t, j)
    <2>1. NodeOf(t, j) # Null
      BY <1>1, <1>3, GetIs DEF Has
    <2>2. NodeOf(t, j) \in NodesOf(t) /\ Node(t, NodeOf(t, j)).k = j
      BY <1>1, <2>1, NodeOfIs
    <2>3. j \in Keys
      BY <1>1, <2>2, NodeIs DEF HashOK
    <2>4. j \in Ints
      BY <2>3, Sizes DEF Keys
    <2> QED
      BY <2>2, <2>4
  <1> QED
    BY <1>2, <1>3

KeysBelow(t, m, B) == \A i \in NodesOf(t) : i < m /\ Node(t, i).k \in Int => Node(t, i).k < B
LEMMA EndIs ==
    ASSUME NEW t, HashOK(t), ArrayOK(t)
    PROVE  \E B \in Nat : Ends(t, B)
  <1> DEFINE L == Len(t.arr)
             Bad == {m \in Nat : ~ \E B \in Nat : B > L /\ KeysBelow(t, m, B)}
  <1>1. t \in Tables /\ L \in Nat
    BY ArrayInts DEF HashOK
  <1>2. Size(t) \in Nat /\ \A i \in NodesOf(t) : i \in Nat /\ i < Size(t)
    BY <1>1, NodeIs DEF NodesOf
  <1> HIDE DEF L
  <1>3. Bad = {}
    <2> SUFFICES ASSUME Bad # {} PROVE FALSE
      OBVIOUS
    <2>1. PICK m \in Bad : \A l \in Bad : m <= l
      <3>1. Bad \subseteq Nat
        OBVIOUS
      <3> HIDE DEF Bad
      <3> QED
        BY <3>1, LeastNat
    <2>2. m # 0
      <3>1. ASSUME m = 0
            PROVE  FALSE
        <4>1. KeysBelow(t, m, L + 1)
          BY <1>2, <3>1 DEF KeysBelow
        <4>2. L + 1 \in Nat /\ L + 1 > L
          BY <1>1
        <4> QED
          BY <2>1, <4>1, <4>2
      <3> QED
        BY <3>1
    <2>3. m - 1 \in Nat /\ m - 1 \notin Bad
      BY <2>1, <2>2
    <2>4. PICK B \in Nat : B > L /\ KeysBelow(t, m - 1, B)
      BY <2>3
    <2> DEFINE x == Node(t, m - 1).k
    <2>5. ASSUME NEW i \in NodesOf(t), i < m, i # m - 1, Node(t, i).k \in Int
          PROVE  Node(t, i).k < B
      <3>1. i < m - 1
        BY <1>2, <2>3, <2>5
      <3> QED
        BY <2>4, <2>5, <3>1 DEF KeysBelow
    <2>6. CASE x \in Int /\ x >= B
      <3>1. x + 1 \in Nat /\ x + 1 > L
        BY <1>1, <2>4, <2>6
      <3>2. KeysBelow(t, m, x + 1)
        <4>1. ASSUME NEW i \in NodesOf(t), i < m, Node(t, i).k \in Int
              PROVE  Node(t, i).k < x + 1
          <5>1. CASE i = m - 1
            BY <2>6, <5>1
          <5>2. CASE i # m - 1
            <6>1. Node(t, i).k < B
              BY <2>5, <4>1, <5>2
            <6> HIDE DEF x
            <6> QED
              BY <2>4, <2>6, <4>1, <6>1
          <5> QED
            BY <5>1, <5>2
        <4> QED
          BY <4>1 DEF KeysBelow
      <3> HIDE DEF x
      <3> QED
        BY <2>1, <3>1, <3>2
    <2>7. CASE ~(x \in Int /\ x >= B)
      <3>1. KeysBelow(t, m, B)
        <4>1. ASSUME NEW i \in NodesOf(t), i < m, Node(t, i).k \in Int
              PROVE  Node(t, i).k < B
          <5>1. CASE i = m - 1
            BY <2>7, <4>1, <5>1
          <5>2. CASE i # m - 1
            BY <2>5, <4>1, <5>2
          <5> QED
            BY <5>1, <5>2
        <4> QED
          BY <4>1 DEF KeysBelow
      <3> QED
        BY <2>1, <2>4, <3>1
    <2> QED
      BY <2>6, <2>7
  <1>4. PICK B \in Nat : B > L /\ KeysBelow(t, Size(t), B)
    BY <1>2, <1>3
  <1>5. ASSUME NEW j \in Nat, j >= B
        PROVE  Get(t, j) = Nil
    <2> SUFFICES ASSUME Get(t, j) # Nil PROVE FALSE
      OBVIOUS
    <2>1. InArray(t, j) \/ \E i \in NodesOf(t) : Node(t, i).k = j
      BY PresentIs
    <2>2. ~InArray(t, j)
      BY <1>1, <1>4, <1>5 DEF InArray, L
    <2>3. PICK i \in NodesOf(t) : Node(t, i).k = j
      BY <2>1, <2>2
    <2>4. j < B
      BY <1>2, <1>4, <2>3 DEF KeysBelow
    <2> QED
      BY <1>5, <2>4
  <1> QED
    BY <1>5 DEF Ends

LEMMA Half ==
    ASSUME NEW i \in Nat, NEW j \in Nat, NEW m, m = (i + j) \div 2
    PROVE  m \in Nat /\ (j - i > 1 => i < m /\ m < j)
  OBVIOUS

\* The binary search.
Before(t, p) == p[1] < p[2] /\ (p[1] = 0 \/ Get(t, p[1]) # Nil) /\ Get(t, p[2]) = Nil
LEMMA SearchedIs ==
    ASSUME NEW t, NEW from \in Nat, NEW to \in Nat, Before(t, <<from, to>>)
    PROVE  Border(t, Searched(t, from, to))
  <1> DEFINE D == Nat \X Nat
             mid == [p \in D |-> (p[1] + p[2]) \div 2]
             search == CHOOSE f : f = [p \in D |->
                          IF p[2] - p[1] <= 1 THEN p[1]
                          ELSE IF Get(t, (p[1] + p[2]) \div 2) = Nil
                               THEN f[<<p[1], (p[1] + p[2]) \div 2>>]
                               ELSE f[<<(p[1] + p[2]) \div 2, p[2]>>]]
             Stop == {p \in D : p[2] - p[1] <= 1}
             out == [p \in D |-> p[1]]
             nxt == [p \in D |-> IF Get(t, mid[p]) = Nil THEN <<p[1], mid[p]>> ELSE <<mid[p], p[2]>>]
  <1>1. \A p \in D : mid[p] = (p[1] + p[2]) \div 2 /\ mid[p] \in Nat
    <2>1. ASSUME NEW p \in D
          PROVE  mid[p] = (p[1] + p[2]) \div 2 /\ mid[p] \in Nat
      <3>1. p[1] \in Nat /\ p[2] \in Nat /\ mid[p] = (p[1] + p[2]) \div 2
        OBVIOUS
      <3> HIDE DEF mid, D
      <3> QED
        BY <3>1, Half
    <2> QED
      BY <2>1
  <1> HIDE DEF mid
  <1>2. Stop \in SUBSET D /\ \A p \in D \ Stop : nxt[p] \in D
    BY <1>1
  <1>3. Goes(Going(D, Stop, out, nxt), D, Stop, out, nxt)
    <2>1. Stop \in SUBSET D
      BY <1>2
    <2>2. \A p \in D \ Stop : nxt[p] \in D
      BY <1>2
    <2> HIDE DEF D, Stop, nxt, out, search
    <2> QED
      BY <2>1, <2>2, TailRecursion
  <1>4. PICK f : f = [p \in D |-> IF p \in Stop THEN out[p] ELSE f[nxt[p]]]
    <2> HIDE DEF D, Stop, nxt, out, search
    <2> QED
      BY <1>3 DEF Goes
  <1>5. f = [p \in D |-> IF p[2] - p[1] <= 1 THEN p[1]
                         ELSE IF Get(t, (p[1] + p[2]) \div 2) = Nil
                              THEN f[<<p[1], (p[1] + p[2]) \div 2>>]
                              ELSE f[<<(p[1] + p[2]) \div 2, p[2]>>]]
    <2>1. ASSUME NEW p \in D
          PROVE  (IF p \in Stop THEN out[p] ELSE f[nxt[p]])
                 = IF p[2] - p[1] <= 1 THEN p[1]
                   ELSE IF Get(t, (p[1] + p[2]) \div 2) = Nil
                        THEN f[<<p[1], (p[1] + p[2]) \div 2>>]
                        ELSE f[<<(p[1] + p[2]) \div 2, p[2]>>]
      BY <1>1
    <2> HIDE DEF D, Stop, out, nxt
    <2> QED
      BY <1>4, <2>1
  <1>6. search = [p \in D |-> IF p[2] - p[1] <= 1 THEN p[1]
                         ELSE IF Get(t, (p[1] + p[2]) \div 2) = Nil
                              THEN search[<<p[1], (p[1] + p[2]) \div 2>>]
                              ELSE search[<<(p[1] + p[2]) \div 2, p[2]>>]]
    BY <1>5
  <1>7. Searched(t, from, to) = search[<<from, to>>]
    BY DEF Searched
  <1> HIDE DEF search
  <1>8. ASSUME NEW i \in Nat, NEW j \in Nat
        PROVE  search[<<i, j>>] = IF j - i <= 1 THEN i
                                  ELSE IF Get(t, (i + j) \div 2) = Nil THEN search[<<i, (i + j) \div 2>>]
                                       ELSE search[<<(i + j) \div 2, j>>]
    <2>1. <<i, j>> \in D /\ <<i, j>>[1] = i /\ <<i, j>>[2] = j
      OBVIOUS
    <2> HIDE DEF D
    <2> QED
      BY <1>6, <2>1
  <1> DEFINE Bad == {d \in Nat : \E i, j \in Nat : d = j - i /\ Before(t, <<i, j>>) /\ ~Border(t, search[<<i, j>>])}
  <1>9. Bad = {}
    <2> SUFFICES ASSUME Bad # {} PROVE FALSE
      OBVIOUS
    <2>1. PICK d \in Bad : \A e \in Bad : d <= e
      <3>1. Bad \subseteq Nat
        OBVIOUS
      <3> HIDE DEF Bad
      <3> QED
        BY <3>1, LeastNat
    <2>2. PICK i \in Nat, j \in Nat : d = j - i /\ Before(t, <<i, j>>) /\ ~Border(t, search[<<i, j>>])
      BY <2>1
    <2>3. i < j /\ (i = 0 \/ Get(t, i) # Nil) /\ Get(t, j) = Nil
      BY <2>2 DEF Before
    <2> DEFINE m == (i + j) \div 2
    <2>4. m \in Nat /\ (j - i > 1 => i < m /\ m < j)
      BY Half
    <2>5. search[<<i, j>>] = IF j - i <= 1 THEN i
                             ELSE IF Get(t, m) = Nil THEN search[<<i, m>>] ELSE search[<<m, j>>]
      BY <1>8
    <2> HIDE DEF m
    <2>6. CASE j - i <= 1
      <3>1. j = i + 1 /\ search[<<i, j>>] = i
        BY <2>3, <2>5, <2>6
      <3> QED
        BY <2>2, <2>3, <3>1 DEF Border
    <2>7. CASE j - i > 1 /\ Get(t, m) = Nil
      <3>1. Before(t, <<i, m>>)
        BY <2>3, <2>4, <2>7 DEF Before
      <3>2. search[<<i, j>>] = search[<<i, m>>] /\ m - i \in Nat /\ m - i < d /\ d \in Nat
        BY <2>2, <2>4, <2>5, <2>7
      <3>3. m - i \in Bad
        BY <2>2, <2>4, <3>1, <3>2
      <3> HIDE DEF Bad
      <3> QED
        BY <2>1, <3>2, <3>3
    <2>8. CASE j - i > 1 /\ Get(t, m) # Nil
      <3>1. Before(t, <<m, j>>)
        BY <2>3, <2>4, <2>8 DEF Before
      <3>2. search[<<i, j>>] = search[<<m, j>>] /\ j - m \in Nat /\ j - m < d /\ d \in Nat
        BY <2>2, <2>4, <2>5, <2>8
      <3>3. j - m \in Bad
        BY <2>2, <2>4, <3>1, <3>2
      <3> HIDE DEF Bad
      <3> QED
        BY <2>1, <3>2, <3>3
    <2> QED
      BY <2>6, <2>7, <2>8
  <1>10. to - from \in Nat
    BY DEF Before
  <1>11. Border(t, search[<<from, to>>])
    BY <1>9, <1>10
  <1> QED
    BY <1>7, <1>11

\* The unbound search: where the doubling from j stops, and one after the other.
Doubled(t, j, n) ==
    /\ n \in Nat
    /\ n > MaxInt \/ Get(t, n) = Nil
    /\ n = j \/ \E h \in Nat : n = 2 * h /\ h >= 1 /\ Get(t, h) # Nil
Double(t) == CHOOSE f : f = [j \in Nat |-> IF j > MaxInt \/ Get(t, j) = Nil THEN j ELSE f[2 * j]]
Linear(t) == CHOOSE f : f = [i \in Nat |-> IF Get(t, i) = Nil THEN i - 1 ELSE f[i + 1]]

LEMMA DoubleIs ==
    ASSUME NEW t, NEW from \in Nat, from >= 1
    PROVE  Doubled(t, from, Double(t)[from])
  <1> DEFINE D == Nat
             double == CHOOSE f : f = [j \in Nat |-> IF j > MaxInt \/ Get(t, j) = Nil THEN j ELSE f[2 * j]]
             Stop == {j \in D : j > MaxInt \/ Get(t, j) = Nil}
             out == [j \in D |-> j]
             nxt == [j \in D |-> 2 * j]
  <1>1. Stop \in SUBSET D /\ \A j \in D \ Stop : nxt[j] \in D
    OBVIOUS
  <1>2. PICK f : f = [j \in D |-> IF j \in Stop THEN out[j] ELSE f[nxt[j]]]
    <2>1. Stop \in SUBSET D
      BY <1>1
    <2>2. \A p \in D \ Stop : nxt[p] \in D
      BY <1>1
    <2> HIDE DEF D, Stop, nxt, out, double
    <2>3. Goes(Going(D, Stop, out, nxt), D, Stop, out, nxt)
      BY <2>1, <2>2, TailRecursion
    <2> QED
      BY <2>3 DEF Goes
  <1>3. f = [j \in Nat |-> IF j > MaxInt \/ Get(t, j) = Nil THEN j ELSE f[2 * j]]
    <2>1. ASSUME NEW j \in D
          PROVE  (IF j \in Stop THEN out[j] ELSE f[nxt[j]])
                 = IF j > MaxInt \/ Get(t, j) = Nil THEN j ELSE f[2 * j]
      OBVIOUS
    <2>2. f = [j \in D |-> IF j > MaxInt \/ Get(t, j) = Nil THEN j ELSE f[2 * j]]
      <3> HIDE DEF D, Stop, out, nxt
      <3> QED
        BY <1>2, <2>1
    <2> QED
      BY <2>2
  <1>4. double = [j \in Nat |-> IF j > MaxInt \/ Get(t, j) = Nil THEN j ELSE double[2 * j]]
    BY <1>3
  <1>5. Double(t) = double
    BY DEF Double
  <1> HIDE DEF double
  <1>6. \A j \in Nat : double[j] = IF j > MaxInt \/ Get(t, j) = Nil THEN j ELSE double[2 * j]
    BY <1>4
  <1> DEFINE Bad == {d \in Nat : \E j \in Nat : /\ j >= 1 /\ ~Doubled(t, j, double[j])
                                                /\ d = IF j > MaxInt THEN 0 ELSE (MaxInt + 1) - j}
  <1>7. MaxInt \in Nat
    BY Sizes
  <1>8. Bad = {}
    <2> SUFFICES ASSUME Bad # {} PROVE FALSE
      OBVIOUS
    <2>1. PICK d \in Bad : \A e \in Bad : d <= e
      <3>1. Bad \subseteq Nat
        OBVIOUS
      <3> HIDE DEF Bad
      <3> QED
        BY <3>1, LeastNat
    <2>2. PICK j \in Nat : /\ j >= 1 /\ ~Doubled(t, j, double[j])
                           /\ d = IF j > MaxInt THEN 0 ELSE (MaxInt + 1) - j
      BY <2>1
    <2>3. CASE j > MaxInt \/ Get(t, j) = Nil
      BY <1>6, <2>2, <2>3 DEF Doubled
    <2>4. CASE ~(j > MaxInt \/ Get(t, j) = Nil)
      <3> DEFINE e == IF 2 * j > MaxInt THEN 0 ELSE (MaxInt + 1) - 2 * j
      <3>1. double[j] = double[2 * j] /\ 2 * j \in Nat /\ 2 * j >= 1
        BY <1>6, <2>2, <2>4
      <3>2. e \in Nat /\ e < d
        BY <1>7, <2>2, <2>4
      <3>3. ~Doubled(t, 2 * j, double[2 * j])
        <4>1. ASSUME Doubled(t, 2 * j, double[2 * j])
              PROVE  Doubled(t, j, double[j])
          <5>1. \E h \in Nat : double[j] = 2 * h /\ h >= 1 /\ Get(t, h) # Nil
            BY <2>2, <2>4, <3>1, <4>1 DEF Doubled
          <5> QED
            BY <3>1, <4>1, <5>1 DEF Doubled
        <4> QED
          BY <2>2, <4>1
      <3>4. e \in Bad
        BY <3>1, <3>2, <3>3
      <3> HIDE DEF Bad, e
      <3> QED
        BY <2>1, <3>2, <3>4
    <2> QED
      BY <2>3, <2>4
  <1>9. (IF from > MaxInt THEN 0 ELSE (MaxInt + 1) - from) \in Nat
    BY <1>7
  <1>10. Doubled(t, from, double[from])
    BY <1>8, <1>9
  <1> QED
    BY <1>5, <1>10

LEMMA LinearIs ==
    ASSUME NEW t, HashOK(t), ArrayOK(t)
    PROVE  Border(t, Linear(t)[1])
  <1> DEFINE D == Nat
             linear == CHOOSE f : f = [i \in Nat |-> IF Get(t, i) = Nil THEN i - 1 ELSE f[i + 1]]
             Stop == {i \in D : Get(t, i) = Nil}
             out == [i \in D |-> i - 1]
             nxt == [i \in D |-> i + 1]
  <1>1. Stop \in SUBSET D /\ \A j \in D \ Stop : nxt[j] \in D
    OBVIOUS
  <1>2. PICK f : f = [j \in D |-> IF j \in Stop THEN out[j] ELSE f[nxt[j]]]
    <2>1. Stop \in SUBSET D
      BY <1>1
    <2>2. \A p \in D \ Stop : nxt[p] \in D
      BY <1>1
    <2> HIDE DEF D, Stop, nxt, out, linear
    <2>3. Goes(Going(D, Stop, out, nxt), D, Stop, out, nxt)
      BY <2>1, <2>2, TailRecursion
    <2> QED
      BY <2>3 DEF Goes
  <1>3. f = [i \in Nat |-> IF Get(t, i) = Nil THEN i - 1 ELSE f[i + 1]]
    <2>1. ASSUME NEW i \in D
          PROVE  (IF i \in Stop THEN out[i] ELSE f[nxt[i]]) = IF Get(t, i) = Nil THEN i - 1 ELSE f[i + 1]
      OBVIOUS
    <2>2. f = [i \in D |-> IF Get(t, i) = Nil THEN i - 1 ELSE f[i + 1]]
      <3> HIDE DEF D, Stop, out, nxt
      <3> QED
        BY <1>2, <2>1
    <2> QED
      BY <2>2
  <1>4. linear = [i \in Nat |-> IF Get(t, i) = Nil THEN i - 1 ELSE linear[i + 1]]
    BY <1>3
  <1>5. Linear(t) = linear
    BY DEF Linear
  <1> HIDE DEF linear
  <1>6. \A i \in Nat : linear[i] = IF Get(t, i) = Nil THEN i - 1 ELSE linear[i + 1]
    BY <1>4
  <1>7. PICK B \in Nat : Ends(t, B)
    BY EndIs
  <1> DEFINE Starts(i) == i - 1 = 0 \/ Get(t, i - 1) # Nil
             Bad == {d \in Nat : \E i \in Nat : /\ i >= 1 /\ Starts(i) /\ ~Border(t, linear[i])
                                                /\ d = IF i > B THEN 0 ELSE (B + 1) - i}
  <1>8. Bad = {}
    <2> SUFFICES ASSUME Bad # {} PROVE FALSE
      OBVIOUS
    <2>1. PICK d \in Bad : \A e \in Bad : d <= e
      <3>1. Bad \subseteq Nat
        OBVIOUS
      <3> HIDE DEF Bad
      <3> QED
        BY <3>1, LeastNat
    <2>2. PICK i \in Nat : /\ i >= 1 /\ Starts(i) /\ ~Border(t, linear[i])
                           /\ d = IF i > B THEN 0 ELSE (B + 1) - i
      BY <2>1
    <2>3. CASE Get(t, i) = Nil
      <3>1. linear[i] = i - 1 /\ i - 1 \in Nat /\ (i - 1) + 1 = i
        BY <1>6, <2>2, <2>3
      <3> HIDE DEF Bad
      <3> QED
        BY <2>2, <2>3, <3>1 DEF Border
    <2>4. CASE Get(t, i) # Nil
      <3> DEFINE e == IF i + 1 > B THEN 0 ELSE (B + 1) - (i + 1)
      <3>1. linear[i] = linear[i + 1] /\ i + 1 \in Nat /\ i + 1 >= 1 /\ (i + 1) - 1 = i
        BY <1>6, <2>2, <2>4
      <3>2. i < B
        BY <1>7, <2>4 DEF Ends
      <3>3. e \in Nat /\ e < d
        BY <2>2, <3>2
      <3>4. Starts(i + 1)
        BY <2>4, <3>1
      <3> HIDE DEF Starts
      <3>5. e \in Bad
        BY <2>2, <3>1, <3>3, <3>4
      <3> HIDE DEF Bad, e
      <3> QED
        BY <2>1, <3>3, <3>5
    <2> QED
      BY <2>3, <2>4
  <1>9. Starts(1) /\ (IF 1 > B THEN 0 ELSE (B + 1) - 1) \in Nat
    OBVIOUS
  <1> HIDE DEF Starts
  <1>10. Border(t, linear[1])
    BY <1>8, <1>9
  <1> QED
    BY <1>5, <1>10

LEMMA UnboundIs ==
    ASSUME NEW t, HashOK(t), ArrayOK(t), NEW from \in Nat, from = 0 \/ Get(t, from) # Nil
    PROVE  Border(t, UnboundSearch(t, from))
  <1> DEFINE first == Double(t)[from + 1]
             low == IF first = from + 1 THEN from ELSE first \div 2
  <1>1. UnboundSearch(t, from) = IF first > MaxInt THEN Linear(t)[1] ELSE Searched(t, low, first)
    BY DEF UnboundSearch, Double, Linear
  <1>2. Doubled(t, from + 1, first)
    BY DoubleIs
  <1> HIDE DEF first
  <1>3. CASE first > MaxInt
    BY <1>1, <1>3, LinearIs
  <1>4. CASE ~(first > MaxInt)
    <2>1. first \in Nat /\ Get(t, first) = Nil
      BY <1>2, <1>4 DEF Doubled
    <2>2. low \in Nat /\ Before(t, <<low, first>>)
      <3>1. CASE first = from + 1
        BY <2>1, <3>1 DEF Before
      <3>2. CASE first # from + 1
        <4>1. PICK h \in Nat : first = 2 * h /\ h >= 1 /\ Get(t, h) # Nil
          BY <1>2, <3>2 DEF Doubled
        <4>2. first \div 2 = h /\ h < first
          BY <4>1
        <4>3. low = h
          BY <3>2, <4>2
        <4> HIDE DEF low
        <4> QED
          BY <2>1, <4>1, <4>2, <4>3 DEF Before
      <3> QED
        BY <3>1, <3>2
    <2> HIDE DEF low
    <2>3. Border(t, Searched(t, low, first))
      BY <2>1, <2>2, SearchedIs
    <2> QED
      BY <1>1, <1>4, <2>3
  <1> QED
    BY <1>3, <1>4

LEMMA GetnIs ==
    ASSUME NEW t, HashOK(t), ArrayOK(t)
    PROVE  Border(t, Getn(t)) /\ 1..Getn(t) \subseteq Ints
  <1> DEFINE j == Len(t.arr)
  <1>1. t \in Tables /\ j \in Nat /\ 1..j \subseteq Ints
    BY ArrayInts DEF HashOK
  <1>2. j > 0 => Get(t, j) = t.arr[j]
    <2>1. j > 0 => InArray(t, j)
      BY <1>1 DEF InArray
    <2> QED
      BY <2>1 DEF Get
  <1>3. Size(t) \in Nat
    BY <1>1, NodeIs
  <1>4. ASSUME j > 0 /\ t.arr[j] = Nil
        PROVE  Border(t, Getn(t))
    <2>1. Getn(t) = Searched(t, 0, j)
      BY <1>1, <1>4 DEF Getn
    <2>2. Before(t, <<0, j>>)
      <3> HIDE DEF j
      <3> QED
        BY <1>1, <1>2, <1>4 DEF Before, j
    <2> HIDE DEF j
    <2> QED
      BY <1>1, <2>1, <2>2, SearchedIs
  <1>5. ASSUME (j = 0 \/ t.arr[j] # Nil) /\ Size(t) = 0
        PROVE  Border(t, Getn(t))
    <2>1. Getn(t) = j
      BY <1>1, <1>5 DEF Getn
    <2>2. Get(t, j + 1) = Nil
      <3>1. ~InArray(t, j + 1)
        BY <1>1 DEF InArray
      <3>2. NodesOf(t) = {}
        BY <1>5 DEF NodesOf
      <3> HIDE DEF j
      <3>3. j + 1 \in Int
        BY <1>1
      <3> QED
        BY <3>1, <3>2, <3>3, PresentIs
    <2> HIDE DEF j
    <2>3. j = 0 \/ Get(t, j) # Nil
      BY <1>1, <1>2, <1>5
    <2> QED
      BY <1>1, <2>1, <2>2, <2>3 DEF Border
  <1>6. ASSUME (j = 0 \/ t.arr[j] # Nil) /\ Size(t) > 0
        PROVE  Border(t, Getn(t))
    <2>1. Getn(t) = UnboundSearch(t, j)
      BY <1>1, <1>6 DEF Getn
    <2> HIDE DEF j
    <2>2. j = 0 \/ Get(t, j) # Nil
      BY <1>1, <1>2, <1>6
    <2> QED
      BY <1>1, <2>1, <2>2, UnboundIs
  <1>7. Border(t, Getn(t))
    BY <1>1, <1>3, <1>4, <1>5, <1>6
  <1>8. 1..Getn(t) \subseteq Ints
    <2> DEFINE g == Getn(t)
    <2>1. g \in Nat /\ (g = 0 \/ Get(t, g) # Nil)
      BY <1>7 DEF Border
    <2> HIDE DEF g
    <2>2. ASSUME NEW i \in 1..g
          PROVE  i \in Ints
      <3>1. g # 0 /\ i \in 0..g
        BY <2>1
      <3>2. g \in Ints
        BY <2>1, <3>1, PresentIs
      <3> QED
        BY <3>1, <3>2, Sizes
    <2> QED
      BY <2>2 DEF g
  <1> QED
    BY <1>7, <1>8

-----------------------------------------------------------------------------
(* Walks.                                                                   *)

Indexes(t) == 1..(Len(t.arr) + Size(t))
\* The slots in use up to c are those whose keys have been seen.
SeenTo(t, seen, c) == \A i \in Indexes(t) : Filled(t, i) => (KeyAt(t, i) \in seen <=> i <= c)
At(t, k, seen) == \E c \in Nat : FindIndex(t, k) = {c} /\ SeenTo(t, seen, c)

LEMMA IndexIs ==
    ASSUME NEW t, TableOK(t), NEW i \in Indexes(t)
    PROVE  /\ t \in Tables /\ Len(t.arr) \in Nat /\ Size(t) \in Nat /\ i \in Nat
           /\ i <= Len(t.arr) => i \in 1..Len(t.arr) /\ InArray(t, i) /\ i \in Keys
           /\ ~(i <= Len(t.arr)) => (i - Len(t.arr)) - 1 \in NodesOf(t)
  <1>1. t \in Tables /\ ArrayOK(t)
    BY DEF TableOK, HashOK
  <1>2. Len(t.arr) \in Nat /\ Size(t) \in Nat /\ 1..Len(t.arr) \subseteq Ints
    BY <1>1, ArrayInts, NodeIs
  <1>3. i \in Nat /\ i >= 1 /\ i <= Len(t.arr) + Size(t)
    BY <1>2 DEF Indexes
  <1>4. ASSUME i <= Len(t.arr)
        PROVE  i \in 1..Len(t.arr) /\ InArray(t, i) /\ i \in Keys
    <2>1. i \in 1..Len(t.arr)
      BY <1>2, <1>3, <1>4
    <2> QED
      BY <1>2, <2>1 DEF InArray, Keys
  <1>5. ASSUME ~(i <= Len(t.arr))
        PROVE  (i - Len(t.arr)) - 1 \in NodesOf(t)
    BY <1>2, <1>3, <1>5 DEF NodesOf
  <1> QED
    BY <1>1, <1>2, <1>3, <1>4, <1>5

LEMMA Offsets ==
    ASSUME NEW L \in Nat, NEW N \in Nat, NEW i \in Nat
    PROVE  /\ (L + 1) + ((i - L) - 1) = i
           /\ ((L + 1 + i) - L) - 1 = i /\ ~(L + 1 + i <= L)
           /\ i <= N - 1 => L + 1 + i \in 1..(L + N)
  OBVIOUS

\* next finds the place of each key it has returned.
LEMMA SlotIs ==
    ASSUME NEW t, TableOK(t), NEW i \in Indexes(t), Filled(t, i)
    PROVE  /\ KeyAt(t, i) \in Keys /\ Get(t, KeyAt(t, i)) # Nil
           /\ FindIndex(t, KeyAt(t, i)) = {i}
  <1> DEFINE L == Len(t.arr)
             n == (i - L) - 1
             k == Node(t, n).k
  <1>1. /\ L \in Nat /\ i \in Nat
        /\ i <= L => i \in 1..L /\ InArray(t, i) /\ i \in Keys
        /\ ~(i <= L) => n \in NodesOf(t)
    BY IndexIs
  <1>2. HashOK(t) /\ t \in Tables /\ FreeApart(t) /\ DeadAre(t) /\ NoShadow(t) /\ LiveFirst(t)
    BY DEF TableOK, HashOK, Chains
  <1>3. CASE i <= L
    <2>1. KeyAt(t, i) = i /\ t.arr[i] # Nil
      BY <1>3 DEF KeyAt, Filled
    <2>2. i # Nil
      BY <1>1, <1>3, Sizes
    <2> QED
      BY <1>1, <1>3, <2>1, <2>2 DEF Get, FindIndex
  <1>4. CASE ~(i <= L)
    <2>1. n \in NodesOf(t)
      BY <1>1, <1>4
    <2>2. KeyAt(t, i) = k /\ Node(t, n).v # Nil
      BY <1>4 DEF KeyAt, Filled
    <2> HIDE DEF n
    <2>3. k # Nil /\ ~Node(t, n).dead /\ k \in Keys
      BY <1>2, <2>1, <2>2, InKeys DEF FreeApart, DeadAre
    <2>4. ~InArray(t, k)
      BY <1>2, <2>1 DEF NoShadow
    <2>5. Get(t, k) = Node(t, n).v
      BY <1>2, <2>1, <2>3, <2>4, GetHash
    <2>6. Search(t, k, {x \in NodesOf(t) : Node(t, x).k = k}) = n
      BY <1>2, <2>1, <2>3, FirstIs
    <2>7. n # Null /\ n \in Nat
      BY <1>2, <2>1, NodeIs DEF Null
    <2>8. FindIndex(t, k) = {L + 1 + n}
      BY <2>3, <2>4, <2>6, <2>7 DEF FindIndex
    <2>9. L + 1 + n = i
      BY <1>1, Offsets DEF n
    <2> QED
      BY <2>2, <2>3, <2>5, <2>8, <2>9
  <1> QED
    BY <1>3, <1>4

LEMMA SlotOf ==
    ASSUME NEW t, TableOK(t), NEW k \in Keys, Get(t, k) # Nil
    PROVE  \E i \in Indexes(t) : Filled(t, i) /\ KeyAt(t, i) = k
  <1>1. HashOK(t) /\ t \in Tables /\ ArrayOK(t)
    BY DEF TableOK, HashOK
  <1>2. Len(t.arr) \in Nat /\ Size(t) \in Nat
    BY <1>1, ArrayInts, NodeIs
  <1>3. CASE InArray(t, k)
    <2>1. k \in 1..Len(t.arr) /\ t.arr[k] # Nil
      BY <1>3 DEF InArray, Get
    <2>2. k \in Indexes(t) /\ k <= Len(t.arr)
      BY <1>2, <2>1 DEF Indexes
    <2> QED
      BY <2>1, <2>2 DEF Filled, KeyAt
  <1>4. CASE ~InArray(t, k)
    <2>1. PICK n \in NodesOf(t) : Node(t, n).k = k /\ Node(t, n).v = Get(t, k)
      BY <1>1, <1>4, GetHash DEF Entry
    <2> DEFINE i == Len(t.arr) + 1 + n
    <2>3. n \in Nat /\ n <= Size(t) - 1
      BY <1>2, <2>1 DEF NodesOf
    <2>2. i \in Indexes(t) /\ ~(i <= Len(t.arr)) /\ (i - Len(t.arr)) - 1 = n
      BY <1>2, <2>3, Offsets DEF Indexes
    <2> HIDE DEF i
    <2> QED
      BY <2>1, <2>2 DEF Filled, KeyAt
  <1> QED
    BY <1>3, <1>4

\* What next does does not change while keys keep their slots.
SameSlots(u, t) ==
    /\ Len(u.arr) = Len(t.arr) /\ Size(u) = Size(t)
    /\ \A i \in NodesOf(t) : Node(u, i).k = Node(t, i).k /\ Node(u, i).next = Node(t, i).next
    /\ \A i \in Indexes(t) : Filled(u, i) => Filled(t, i)
LEMMA AtSame ==
    ASSUME NEW t, TableOK(t), NEW u, TableOK(u), SameSlots(u, t), NEW k \in Keys \cup {Nil}, NEW seen,
           At(t, k, seen)
    PROVE  At(u, k, seen)
  <1>1. t \in Tables /\ Linked(t) /\ Ranked(t) /\ u \in Tables /\ Linked(u) /\ Ranked(u)
    BY DEF TableOK, HashOK, Chains
  <1>2. NodesOf(u) = NodesOf(t) /\ Indexes(u) = Indexes(t)
    BY SameMain DEF SameSlots, Indexes
  <1>3. \A x : InArray(u, x) <=> InArray(t, x)
    BY DEF SameSlots, InArray
  <1>4. FindIndex(u, k) = FindIndex(t, k)
    <2>1. CASE k = Nil \/ InArray(t, k)
      BY <1>3, <2>1 DEF FindIndex
    <2>2. CASE k # Nil /\ ~InArray(t, k)
      <3> DEFINE S == {n \in NodesOf(t) : Node(t, n).k = k}
      <3>1. {n \in NodesOf(u) : Node(u, n).k = k} = S
        BY <1>2 DEF SameSlots
      <3>2. Search(u, k, S) = Search(t, k, S)
        <4>1. S \in SUBSET NodesOf(t) /\ k \in Keys
          BY <2>2
        <4> HIDE DEF S
        <4> QED
          BY <1>1, <4>1, SearchSame DEF SameSlots
      <3> QED
        BY <1>3, <2>2, <3>1, <3>2 DEF FindIndex, SameSlots
    <2> QED
      BY <2>1, <2>2
  <1>5. \A i \in Indexes(t) : KeyAt(u, i) = KeyAt(t, i)
    BY IndexIs DEF KeyAt, SameSlots
  <1>6. PICK c \in Nat : FindIndex(t, k) = {c} /\ SeenTo(t, seen, c)
    BY DEF At
  <1>7. SeenTo(u, seen, c)
    BY <1>2, <1>5, <1>6 DEF SeenTo, SameSlots
  <1> QED
    BY <1>4, <1>6, <1>7 DEF At

\* An assignment to a field that is there.
LEMMA StoreAt ==
    ASSUME NEW t, TableOK(t), NEW k \in Keys, NEW v \in Vals, Get(t, k) # Nil
    PROVE  /\ Put(t, k, v) = Store(t, k, v) /\ Has(t, k)
           /\ \A j \in Keys \cup {Nil} : \A seen : At(t, j, seen) => At(Store(t, k, v), j, seen)
  <1> DEFINE u == Store(t, k, v)
  <1>1. HashOK(t) /\ t \in Tables /\ k # Nil
    BY Sizes DEF TableOK, HashOK
  <1>2. Has(t, k)
    BY <1>1, GetIs
  <1>3. Put(t, k, v) = u
    BY <1>2 DEF Put, PutIn
  <1>4. NodeOf(t, k) # Null => NodeOf(t, k) \in NodesOf(t)
    BY <1>1, NodeOfIs
  <1>5. IsStored(u, t, k, v)
    BY <1>1, <1>4, StoreIs
  <1>6. TableOK(u)
    BY StoreKeeps
  <1> HIDE DEF u
  <1>8. ASSUME NEW i \in Indexes(t), Filled(u, i)
        PROVE  Filled(t, i)
    <2>1. /\ t \in Tables /\ i \in Nat
          /\ i <= Len(t.arr) => i \in 1..Len(t.arr)
          /\ ~(i <= Len(t.arr)) => (i - Len(t.arr)) - 1 \in NodesOf(t)
      BY IndexIs
    <2>2. CASE i <= Len(t.arr)
      <3>1. u.arr[i] # Nil /\ i \in 1..Len(t.arr) /\ t.arr \in Seq(Vals)
        BY <1>8, <2>1, <2>2, <1>5 DEF Filled, IsStored, Tables
      <3>2. InArray(t, k) => t.arr[k] # Nil
        BY DEF Get
      <3>3. u.arr = IF InArray(t, k) THEN [t.arr EXCEPT ![k] = v] ELSE t.arr
        BY <1>5 DEF IsStored
      <3>4. i # k => [t.arr EXCEPT ![k] = v][i] = t.arr[i]
        BY <3>1
      <3>5. t.arr[i] # Nil
        BY <3>1, <3>2, <3>3, <3>4
      <3> QED
        BY <2>2, <3>5 DEF Filled
    <2>3. CASE ~(i <= Len(t.arr))
      <3> DEFINE n == (i - Len(t.arr)) - 1
      <3>1. n \in NodesOf(t) /\ Node(u, n).v # Nil
        BY <1>5, <1>8, <2>1, <2>3 DEF Filled, IsStored
      <3> HIDE DEF n
      <3>2. n # Null
        BY <2>1, <3>1, NodeIs DEF Null
      <3>3. ~InArray(t, k) /\ NodeOf(t, k) = n => Node(t, n).v # Nil
        BY <3>2 DEF Get
      <3>4. Node(t, n).v # Nil
        BY <1>5, <3>1, <3>3 DEF IsStored
      <3> QED
        BY <2>3, <3>4 DEF Filled, n
    <2> QED
      BY <2>2, <2>3
  <1>7. SameSlots(u, t)
    BY <1>5, <1>8 DEF IsStored, SameSlots
  <1>9. ASSUME NEW j \in Keys \cup {Nil}, NEW seen, At(t, j, seen)
        PROVE  At(u, j, seen)
    BY <1>6, <1>7, <1>9, AtSame
  <1> QED
    BY <1>2, <1>3, <1>9 DEF u

-----------------------------------------------------------------------------
(* The invariant.                                                           *)

TableInvariant ==
    /\ HashOK(T) /\ ArrayOK(T) /\ SizeOK(T) /\ (torn \/ (Below(T) /\ NoShadow(T) /\ LiveFirst(T)))
    /\ FlagsSound
    /\ cursor \in Keys \cup {Nil} /\ torn \in BOOLEAN
    /\ DOMAIN refs \subseteq Ints /\ uses \in Programs

\* What the actions find.
LEMMA Parts ==
    ASSUME TableInvariant
    PROVE  /\ HashOK(T) /\ ArrayOK(T) /\ T \in Tables /\ (torn \/ (TableOK(T) /\ T \in Good))
           /\ uses.keys \subseteq Keys /\ uses.vals \subseteq Values /\ uses.vals \cup {Nil} \subseteq Vals
           /\ 0 \in Keys /\ Ints \subseteq Keys /\ Ints \subseteq Int /\ 0 # Nil /\ Events \subseteq Keys
           /\ MaxLen \in Nat /\ 0..MaxLen \subseteq Ints
  <1>1. HashOK(T) /\ ArrayOK(T) /\ T \in Tables /\ (torn \/ (TableOK(T) /\ T \in Good))
    BY DEF TableInvariant, HashOK, TableOK, Good
  <1>2. uses \in [keys : SUBSET Keys, vals : SUBSET Values, ops : SUBSET Operations]
    BY Sizes DEF TableInvariant
  <1>3. uses.keys \subseteq Keys /\ uses.vals \subseteq Values
    BY <1>2
  <1>4. MaxLen \in Nat /\ 0 \in 0..MaxLen /\ 0..MaxLen \subseteq Ints
    BY Sizes
  <1>5. Ints \subseteq Int /\ 0 # Nil /\ Events \subseteq Names
    BY Sizes
  <1> QED
    BY <1>1, <1>3, <1>4, <1>5 DEF Vals, Keys

\* An action after which nothing is remembered of the metamethods.
LEMMA AfterPut ==
    ASSUME TableInvariant, TableOK(T'), T'.flags = {}, uses' = uses,
           cursor' \in Keys \cup {Nil}, torn' \in BOOLEAN, DOMAIN refs' \subseteq Ints
    PROVE  TableInvariant'
  BY DEF TableInvariant, TableOK, FlagsSound

LEMMA InitKeeps == Init => TableInvariant
  <1> SUFFICES ASSUME Init PROVE TableInvariant
    OBVIOUS
  <1>1. << >> \in Seq(Vals) /\ Len(<< >>) = 0
    OBVIOUS
  <1>2. TableOK(T) /\ T.flags = {}
    <2>1. Kept(Fresh(<< >>, 0), Len(<< >>), Size(Fresh(<< >>, 0)), 0)
      BY <1>1, FreshIs
    <2> QED
      BY <2>1 DEF Init, Kept
  <1>3. DOMAIN refs = {}
    BY DEF Init
  <1> QED
    BY <1>2, <1>3 DEF Init, TableInvariant, TableOK, FlagsSound

LEMMA ReverseIs ==
    ASSUME NEW n \in Nat, NEW S, NEW w \in [1..n -> S]
    PROVE  DOMAIN Reverse(w) = 1..n
           /\ \A j \in 1..n : /\ Reverse(w)[j] \in S /\ Reverse(w)[j] = w[(n - j) + 1]
                              /\ (n - j) + 1 \in 1..n
  <1>1. Len(w) = n
    BY SeqIs
  <1>2. Reverse(w) = [i \in 1..n |-> w[(n - i) + 1]]
    BY <1>1 DEF Reverse
  <1>3. ASSUME NEW j \in 1..n
        PROVE  Reverse(w)[j] \in S /\ Reverse(w)[j] = w[(n - j) + 1] /\ (n - j) + 1 \in 1..n
    <2>1. (n - j) + 1 \in 1..n
      OBVIOUS
    <2> QED
      BY <1>2, <2>1
  <1> QED
    BY <1>2, <1>3

\* The elements of s are the contents.
ListOf(t, s, n) == \A k \in Keys : Get(t, k) = IF k \in 1..n THEN s[k] ELSE Nil

LEMMA CreateKeeps ==
    ASSUME TableInvariant, NEW s \in SeqOf(uses.vals, MaxLen), NEW n \in {0, 3}, Create(s, n)
    PROVE  /\ TableInvariant'
           /\ \E l \in 0..MaxLen : ListOf(T', s, l) /\ \A i \in 1..l : s[i] \in uses.vals
  <1> DEFINE f == Fresh(<< >>, n)
             base == Resize(f, Len(s), n)
             q == Reverse([i \in DOMAIN s |-> i])
             l == Len(s)
  <1>1. << >> \in Seq(Vals) /\ Len(<< >>) = 0 /\ n \in Nat
    OBVIOUS
  <1>2. l \in Nat /\ l <= MaxLen /\ DOMAIN s = 1..l /\ \A i \in 1..l : s[i] \in Vals /\ s[i] \in uses.vals
    <2>1. PICK m \in 0..MaxLen : s \in [1..m -> uses.vals]
      BY DEF SeqOf
    <2>2. m \in Nat /\ m <= MaxLen
      BY <2>1, Parts
    <2>3. Len(s) = m
      BY <2>1, <2>2, SeqIs
    <2>4. \A i \in 1..m : s[i] \in Vals /\ s[i] \in uses.vals
      BY <2>1, Parts
    <2>5. DOMAIN s = 1..m
      BY <2>1
    <2> QED
      BY <2>2, <2>3, <2>4, <2>5
  <1>3. Kept(f, 0, Size(f), 0) /\ \A i \in NodesOf(f) : Node(f, i) = FreeNode
    BY <1>1, FreshIs
  <1>4. f.arr = << >> /\ Size(f) \in Nat
    BY <1>1, FreshIs
  <1> HIDE DEF f, l
  <1>5. Moved(f, l) = {}
    <2>1. \A j : j \notin 1..(Len(f.arr) - l)
      BY <1>1, <1>2, <1>4
    <2> QED
      BY <2>1 DEF Moved
  <1>6. Again(f, l) = {}
    <2>1. ASSUME NEW j \in 1..Size(f)
          PROVE  Node(f, Size(f) - j).v = Nil
      <3>1. Size(f) - j \in NodesOf(f)
        BY <1>4 DEF NodesOf
      <3>2. Node(f, Size(f) - j) = FreeNode
        BY <1>3, <3>1
      <3> QED
        BY <3>2 DEF FreeNode
    <2> QED
      BY <2>1 DEF Again
  <1>7. Count({}) = 0 /\ IsFiniteSet({})
    BY CountOne
  <1>8. TableOK(base) /\ base.flags = {} /\ \A k \in Keys : Get(base, k) = Get(f, k)
    <2>1. TableOK(f)
      BY <1>3 DEF Kept
    <2>2. /\ IsFiniteSet(Moved(f, l)) /\ IsFiniteSet(Again(f, l))
          /\ Count(Moved(f, l)) + Count(Again(f, l)) <= n
      BY <1>1, <1>5, <1>6, <1>7
    <2>3. Kept(Resize(f, l, n), l, Size(Resize(f, l, n)), Count(Moved(f, l)) + Count(Again(f, l)))
          /\ \A k \in Keys : Get(Resize(f, l, n), k) = Get(f, k)
      BY <1>1, <1>2, <2>1, <2>2, ResizeIs
    <2> QED
      BY <2>3 DEF Kept, l
  <1> HIDE DEF base
  <1>9. base \in Clean
    BY <1>8 DEF Clean, Good, TableOK, HashOK
  <1>10. DOMAIN q = 1..l /\ \A j \in 1..l : q[j] \in 1..l /\ q[j] = (l - j) + 1
    <2>1. [i \in DOMAIN s |-> i] = [i \in 1..l |-> i] /\ [i \in 1..l |-> i] \in [1..l -> 1..l]
      BY <1>2
    <2> DEFINE w == [i \in 1..l |-> i]
    <2>2. q = Reverse(w) /\ w \in [1..l -> 1..l]
      BY <2>1
    <2>4. \A j \in 1..l : w[j] = j
      OBVIOUS
    <2> HIDE DEF q, w
    <2> DEFINE S == 1..l
    <2>5. w \in [1..l -> S] /\ l \in Nat
      BY <1>2, <2>2
    <2> HIDE DEF S
    <2>6. DOMAIN Reverse(w) = 1..l
          /\ \A j \in 1..l : /\ Reverse(w)[j] \in S /\ Reverse(w)[j] = w[(l - j) + 1]
                             /\ (l - j) + 1 \in 1..l
      BY <2>5, ReverseIs
    <2>3. DOMAIN q = 1..l /\ \A j \in 1..l : q[j] \in 1..l /\ q[j] = w[(l - j) + 1] /\ (l - j) + 1 \in 1..l
      BY <2>2, <2>6 DEF S
    <2> QED
      BY <2>3, <2>4
  <1>11. 1..l \subseteq Keys
    <2>1. \A i \in 1..l : i \in 0..MaxLen
      BY <1>2, Parts
    <2> QED
      BY <2>1, Parts
  <1>12. T' = SetIn(base, s, q)
    BY DEF Create, SetList, SetIn, base, f
  <1> HIDE DEF q
  <1>13. SetIn(base, s, q) \in Clean /\ Given(SetIn(base, s, q), base, s, q, 1..l)
    BY <1>2, <1>9, <1>10, <1>11, SetIs
  <1>14. TableOK(T') /\ T'.flags = {}
    BY <1>12, <1>13 DEF Clean, Good
  <1>15. uses' = uses /\ cursor' = Nil /\ torn' = FALSE /\ DOMAIN refs' = {}
    BY DEF Create
  <1>16. ASSUME NEW k \in Keys
         PROVE  Get(T', k) = IF k \in 1..l THEN s[k] ELSE Nil
    <2>1. Get(f, k) = Nil
      <3>1. ~InArray(f, k) /\ HashOK(f)
        BY <1>1, <1>3, <1>4 DEF InArray, Kept, TableOK
      <3>2. ~Entry(f, k, Get(f, k))
        BY <1>3, Sizes DEF Entry, FreeNode
      <3> QED
        BY <3>1, <3>2, GetHash
    <2>2. Get(T', k) = IF \E j \in 1..l : q[j] = k THEN s[k] ELSE Get(base, k)
      BY <1>12, <1>13 DEF Given
    <2>3. (\E j \in 1..l : q[j] = k) <=> k \in 1..l
      <3>1. ASSUME k \in 1..l
            PROVE  \E j \in 1..l : q[j] = k
        <4>1. (l - k) + 1 \in 1..l /\ (l - ((l - k) + 1)) + 1 = k
          BY <1>2, <3>1
        <4> QED
          BY <1>10, <4>1
      <3> QED
        BY <1>10, <3>1
    <2> QED
      BY <1>8, <2>1, <2>2, <2>3
  <1>17. l \in 0..MaxLen
    BY <1>2, Parts
  <1> QED
    BY <1>2, <1>14, <1>15, <1>16, <1>17, AfterPut DEF ListOf

LEMMA RawSetKeeps ==
    ASSUME TableInvariant, ~torn, NEW k \in uses.keys, NEW v \in uses.vals \cup {Nil}, RawSet(k, v)
    PROVE  TableInvariant'
  <1>1. TableOK(T) /\ k \in Keys /\ v \in Vals
    BY Parts
  <1>2. T' = Put(T, k, v) /\ UNCHANGED <<uses, cursor, refs, torn>>
    BY DEF RawSet, Watched
  <1>3. TableOK(T') /\ T'.flags = {}
    BY <1>1, <1>2, PutKeeps
  <1>4. cursor \in Keys \cup {Nil} /\ torn \in BOOLEAN /\ DOMAIN refs \subseteq Ints
    BY DEF TableInvariant
  <1> QED
    BY <1>2, <1>3, <1>4, AfterPut

LEMMA SetTableKeeps ==
    ASSUME TableInvariant, ~torn, NEW k \in uses.keys, NEW v \in uses.vals \cup {Nil}, SetTable(k, v)
    PROVE  TableInvariant'
  <1> DEFINE slot == Put(T, k, Get(T, k))
  <1>1. TableOK(T) /\ HashOK(T) /\ k \in Keys /\ v \in Vals /\ k # Nil
    BY Parts, Sizes
  <1>2. (T' = Store(slot, k, v) \/ T' = slot) /\ UNCHANGED <<uses, cursor, refs, torn>>
    BY DEF SetTable, Watched
  <1>3. Get(T, k) \in Vals
    BY <1>1, GetIs
  <1>4. TableOK(slot) /\ slot.flags = {}
    BY <1>1, <1>3, PutKeeps
  <1> HIDE DEF slot
  <1>5. TableOK(Store(slot, k, v)) /\ Store(slot, k, v).flags = {}
    BY <1>1, <1>4, StoreKeeps
  <1>6. TableOK(T') /\ T'.flags = {}
    BY <1>2, <1>4, <1>5
  <1>7. cursor \in Keys \cup {Nil} /\ torn \in BOOLEAN /\ DOMAIN refs \subseteq Ints
    BY DEF TableInvariant
  <1> QED
    BY <1>2, <1>6, <1>7, AfterPut

LEMMA GetTableKeeps ==
    ASSUME TableInvariant, ~torn, GetTable
    PROVE  TableInvariant' /\ SameSlots(T', T) /\ \A j \in Keys : Get(T', j) = Get(T, j)
  <1>1. TableOK(T) /\ T \in Tables /\ Events \subseteq Keys /\ INDEX \in Events
    BY Parts, Sizes
  <1>2. T' = Remembered(T, INDEX) /\ UNCHANGED <<uses, cursor, refs, torn>>
    BY DEF GetTable, Watched
  <1> DEFINE F == IF NoTM(T, INDEX) THEN T.flags \cup {INDEX} ELSE T.flags
  <1>3. /\ T = [arr |-> T.arr, node |-> T.node, lastfree |-> T.lastfree, flags |-> T.flags]
        /\ T.arr \in Seq(Vals) /\ T.node \in Seq(Nodes) /\ T.lastfree \in Nat /\ T.flags \in SUBSET Events
    BY <1>1 DEF Tables
  <1>4. Remembered(T, INDEX) = [T EXCEPT !.flags = F]
    BY DEF Remembered
  <1>5. F \in SUBSET Events
    BY <1>1, <1>3
  <1> HIDE DEF F
  <1>6. Remembered(T, INDEX) = [arr |-> T.arr, node |-> T.node, lastfree |-> T.lastfree, flags |-> F]
    <2>1. [[arr |-> T.arr, node |-> T.node, lastfree |-> T.lastfree, flags |-> T.flags] EXCEPT !.flags = F]
          = [arr |-> T.arr, node |-> T.node, lastfree |-> T.lastfree, flags |-> F]
      OBVIOUS
    <2> QED
      BY <1>3, <1>4, <2>1
  <1>7. Alike(T', T) /\ T'.flags = F
    BY <1>2, <1>3, <1>5, <1>6 DEF Alike, Tables
  <1>8. TableOK(T') /\ \A k \in Keys : Get(T', k) = Get(T, k)
    BY <1>1, <1>7, AlikeKeeps
  <1>10. SameSlots(T', T)
    <2>1. T'.arr = T.arr /\ Size(T') = Size(T) /\ \A i : Node(T', i) = Node(T, i)
      BY <1>7 DEF Alike, Size, Node
    <2> QED
      BY <2>1 DEF SameSlots, Filled
  <1>9. FlagsSound'
    <2>1. ASSUME NEW e \in F
          PROVE  Get(T', e) = Nil
      <3>1. e \in Keys
        BY <1>1, <1>5
      <3>2. Get(T, e) = Nil
        BY DEF F, NoTM, TableInvariant, FlagsSound
      <3> QED
        BY <1>8, <3>1, <3>2
    <2> QED
      BY <1>7, <2>1 DEF FlagsSound
  <1> QED
    BY <1>2, <1>8, <1>9, <1>10 DEF TableInvariant, TableOK

LEMMA SetFailsKeeps ==
    ASSUME TableInvariant, ~torn, NEW k \in uses.keys, SetFails(k)
    PROVE  TableInvariant'
  <1> DEFINE na == NewArraySize(T, k)
             R(arr) == [arr |-> arr, node |-> T.node, lastfree |-> 0, flags |-> {}]
  <1>1. TableOK(T) /\ HashOK(T) /\ ArrayOK(T) /\ T \in Tables /\ k \in Keys
    BY Parts
  <1>2. T' \in OutOfMemory(T, k) /\ uses' = uses /\ cursor' = cursor /\ refs' = refs /\ torn' = TRUE
    BY DEF SetFails
  <1>3. /\ T = [arr |-> T.arr, node |-> T.node, lastfree |-> T.lastfree, flags |-> T.flags]
        /\ T.arr \in Seq(Vals) /\ T.node \in Seq(Nodes) /\ T.lastfree \in Nat /\ T.flags \in SUBSET Events
    BY <1>1 DEF Tables
  <1>4. na \in {0} \cup Slots(MaxBits) /\ na \in Nat
    BY <1>1, NewSizes
  <1>5. Resized(T.arr, na) \in Seq(Vals) /\ Len(Resized(T.arr, na)) = na
    BY <1>1, <1>4, ResizedIs
  <1> HIDE DEF na
  <1> DEFINE low == [T EXCEPT !.lastfree = 0]
             forgotten == [low EXCEPT !.flags = {}]
             b == Resized(T.arr, na)
  <1>6. [T EXCEPT !.lastfree = 0, !.flags = {}] = R(T.arr)
        /\ [T EXCEPT !.lastfree = 0, !.flags = {}, !.arr = Resized(@, na)] = R(b)
    <2>1. [T EXCEPT !.lastfree = 0, !.flags = {}] = forgotten
      OBVIOUS
    <2>2. [T EXCEPT !.lastfree = 0, !.flags = {}, !.arr = Resized(@, na)] = [forgotten EXCEPT !.arr = b]
      OBVIOUS
    <2> HIDE DEF b
    <2>3. low = [arr |-> T.arr, node |-> T.node, lastfree |-> 0, flags |-> T.flags]
      <3>1. [[arr |-> T.arr, node |-> T.node, lastfree |-> T.lastfree, flags |-> T.flags] EXCEPT !.lastfree = 0]
            = [arr |-> T.arr, node |-> T.node, lastfree |-> 0, flags |-> T.flags]
        OBVIOUS
      <3> QED
        BY <1>3, <3>1
    <2> HIDE DEF low
    <2>4. forgotten = R(T.arr)
      <3>1. [[arr |-> T.arr, node |-> T.node, lastfree |-> 0, flags |-> T.flags] EXCEPT !.flags = {}] = R(T.arr)
        OBVIOUS
      <3> QED
        BY <2>3, <3>1
    <2> HIDE DEF forgotten
    <2>5. [forgotten EXCEPT !.arr = b] = R(b)
      <3>1. [[arr |-> T.arr, node |-> T.node, lastfree |-> 0, flags |-> {}] EXCEPT !.arr = b] = R(b)
        OBVIOUS
      <3> QED
        BY <2>4, <3>1
    <2> QED
      BY <2>1, <2>2, <2>4, <2>5
  <1>8. T' = R(T.arr) \/ T' = R(Resized(T.arr, na))
    BY <1>2, <1>6 DEF OutOfMemory, na
  <1>9. /\ T'.arr = T.arr \/ T'.arr = Resized(T.arr, na)
        /\ T'.node = T.node /\ T'.lastfree = 0 /\ T'.flags = {}
    BY <1>8
  <1>10. T' \in Tables
    BY <1>3, <1>5, <1>8 DEF Tables
  <1>11. ArrayOK(T')
    BY <1>1, <1>4, <1>5, <1>9 DEF ArrayOK
  <1> HIDE DEF R
  <1>12. Size(T') = Size(T) /\ \A i : Node(T', i) = Node(T, i)
    BY <1>9 DEF Size, Node
  <1>13. NodesOf(T') = NodesOf(T) /\ Size(T) \in Nat
    BY <1>1, <1>12, NodeIs DEF NodesOf
  <1>14. Chains(T) /\ DeadAre(T) /\ OneNode(T) /\ FreeApart(T) /\ SizeOK(T)
    BY <1>1 DEF HashOK, Chains, TableOK
  <1>15. Chains(T')
    BY <1>12, <1>14, ChainsSame DEF FreeApart
  <1>16. DeadAre(T') /\ OneNode(T') /\ SizeOK(T')
    BY <1>12, <1>13, <1>14 DEF DeadAre, OneNode, SizeOK
  <1>17. HashOK(T')
    BY <1>9, <1>10, <1>12, <1>13, <1>15, <1>16 DEF HashOK
  <1> QED
    BY <1>2, <1>9, <1>11, <1>16, <1>17 DEF TableInvariant, FlagsSound

LEMMA CollectKeeps ==
    ASSUME TableInvariant, ~torn, Collect
    PROVE  TableInvariant' /\ SameSlots(T', T) /\ \A j \in Keys : Get(T', j) = Get(T, j)
  <1> DEFINE Dead(i) == T.node[i].k \in Names /\ T.node[i].v = Nil
             ns == [i \in DOMAIN T.node |-> [T.node[i] EXCEPT !.dead = Dead(i)]]
  <1>1. /\ TableOK(T) /\ HashOK(T) /\ ArrayOK(T) /\ SizeOK(T) /\ T \in Tables /\ Events \subseteq Keys
        /\ Chains(T) /\ DeadAre(T) /\ OneNode(T) /\ FreeApart(T) /\ Below(T) /\ NoShadow(T) /\ LiveFirst(T)
    BY Parts DEF HashOK, Chains, TableOK
  <1>2. T' = [T EXCEPT !.node = ns] /\ UNCHANGED <<uses, cursor, refs, torn>>
    BY DEF Collect, Watched
  <1>3. /\ T = [arr |-> T.arr, node |-> T.node, lastfree |-> T.lastfree, flags |-> T.flags]
        /\ T.arr \in Seq(Vals) /\ T.node \in Seq(Nodes) /\ T.lastfree \in Nat /\ T.flags \in SUBSET Events
    BY <1>1 DEF Tables
  <1>4. DOMAIN T.node = 1..Size(T) /\ Size(T) \in Nat
    BY <1>3 DEF Size
  <1>5. ASSUME NEW i \in 1..Size(T)
        PROVE  /\ ns[i] \in Nodes /\ ns[i].k = T.node[i].k /\ ns[i].v = T.node[i].v
               /\ ns[i].next = T.node[i].next /\ ns[i].dead = Dead(i)
    <2> DEFINE x == T.node[i]
               d == Dead(i)
    <2>1. x \in Nodes /\ d \in BOOLEAN
      BY <1>3, <1>4
    <2>2. ns[i] = [x EXCEPT !.dead = d]
      BY <1>4
    <2> HIDE DEF x, d, ns
    <2>3. [x EXCEPT !.dead = d] \in Nodes
      BY <2>1 DEF Nodes
    <2>4. LET y == [x EXCEPT !.dead = d] IN y.k = x.k /\ y.v = x.v /\ y.next = x.next /\ y.dead = d
      BY <2>1 DEF Nodes
    <2> QED
      BY <2>2, <2>3, <2>4 DEF x, d
  <1>6. ns \in [1..Size(T) -> Nodes]
    <2>1. DOMAIN ns = 1..Size(T) /\ ns = [i \in 1..Size(T) |-> ns[i]]
      BY <1>4
    <2> HIDE DEF ns
    <2> QED
      BY <1>5, <2>1
  <1> HIDE DEF ns
  <1>7. ns \in Seq(Nodes) /\ Len(ns) = Size(T)
    BY <1>4, <1>6, SeqIs
  <1>8. T' = [arr |-> T.arr, node |-> ns, lastfree |-> T.lastfree, flags |-> T.flags]
    <2>1. [[arr |-> T.arr, node |-> T.node, lastfree |-> T.lastfree, flags |-> T.flags] EXCEPT !.node = ns]
          = [arr |-> T.arr, node |-> ns, lastfree |-> T.lastfree, flags |-> T.flags]
      OBVIOUS
    <2> QED
      BY <1>2, <1>3, <2>1
  <1>9. /\ T' \in Tables /\ T'.arr = T.arr /\ T'.node = ns /\ T'.lastfree = T.lastfree /\ T'.flags = T.flags
        /\ Size(T') = Size(T)
    <2>1. T'.arr = T.arr /\ T'.node = ns /\ T'.lastfree = T.lastfree /\ T'.flags = T.flags
      BY <1>8
    <2> QED
      BY <1>3, <1>7, <1>8, <2>1 DEF Tables, Size
  <1>10. NodesOf(T') = NodesOf(T)
    BY <1>9 DEF NodesOf
  <1>11. ASSUME NEW i \in NodesOf(T)
         PROVE  /\ Node(T', i).k = Node(T, i).k /\ Node(T', i).v = Node(T, i).v
                /\ Node(T', i).next = Node(T, i).next
                /\ Node(T', i).dead <=> Node(T, i).k \in Names /\ Node(T, i).v = Nil
    <2>1. i + 1 \in 1..Size(T)
      BY <1>4 DEF NodesOf
    <2>2. Node(T', i) = ns[i + 1] /\ Node(T, i) = T.node[i + 1]
      BY <1>9 DEF Node
    <2> QED
      BY <1>5, <2>1, <2>2
  <1>12. Chains(T')
    <2>1. \A i \in NodesOf(T) : Node(T, i).k = Nil => Node(T', i).v = Nil /\ ~Node(T', i).dead
      BY <1>1, <1>11, Sizes DEF FreeApart, Keys
    <2> QED
      BY <1>1, <1>9, <1>11, <2>1, ChainsSame
  <1>13. DeadAre(T') /\ Below(T')
    BY <1>1, <1>9, <1>10, <1>11 DEF DeadAre, Below
  <1>14. \A i \in NodesOf(T) : ~Node(T', i).dead => ~Node(T, i).dead
    BY <1>1, <1>11 DEF DeadAre
  <1>15. OneNode(T')
    BY <1>1, <1>10, <1>11, <1>14 DEF OneNode
  <1>16. HashOK(T') /\ ArrayOK(T') /\ SizeOK(T')
    BY <1>1, <1>9, <1>12, <1>13, <1>15 DEF HashOK, ArrayOK, SizeOK
  <1>17. NoShadow(T') /\ \A j : InArray(T', j) <=> InArray(T, j)
    BY <1>1, <1>9, <1>10, <1>11 DEF NoShadow, InArray
  <1>18. ASSUME NEW j \in Keys
         PROVE  Get(T', j) = Get(T, j)
    <2>1. CASE InArray(T, j)
      BY <1>9, <1>17, <2>1 DEF Get
    <2>2. CASE ~InArray(T, j)
      <3>1. SameEntries(T', T, j)
        BY <1>10, <1>11 DEF SameEntries, Entry
      <3> QED
        BY <1>1, <1>16, <1>17, <2>2, <3>1, GetSame
    <2> QED
      BY <2>1, <2>2
  <1>21. SameSlots(T', T)
    <2>1. ASSUME NEW i \in Indexes(T), Filled(T', i)
          PROVE  Filled(T, i)
      <3>1. ~(i <= Len(T.arr)) => (i - Len(T.arr)) - 1 \in NodesOf(T)
        BY <1>1, IndexIs
      <3> QED
        BY <1>9, <1>11, <2>1, <3>1 DEF Filled
    <2> QED
      BY <1>9, <1>11, <2>1 DEF SameSlots
  <1>20. LiveFirst(T')
    BY <1>1, <1>9, <1>11, <1>14, FirstSame
  <1>19. FlagsSound'
    BY <1>1, <1>3, <1>9, <1>18 DEF FlagsSound, TableInvariant
  <1> QED
    BY <1>2, <1>13, <1>16, <1>17, <1>18, <1>19, <1>20, <1>21 DEF TableInvariant

LEMMA WalkKeeps ==
    ASSUME TableInvariant, StartWalk \/ LuaNext
    PROVE  TableInvariant'
  <1>1. uses' = uses /\ T' = T /\ refs' = refs /\ torn' = torn
    BY DEF StartWalk, LuaNext
  <1>2. cursor' \in Keys \cup {Nil}
    <2>1. CASE cursor' = Nil
      BY <2>1
    <2>2. CASE cursor' # Nil
      <3> DEFINE A == After(T, cursor)
                 i == Min(A)
                 L == Len(T.arr)
      <3>1. A # {} /\ cursor' = KeyAt(T, i)
        BY <2>2 DEF StartWalk, LuaNext
      <3>2. /\ T \in Tables /\ L \in Nat /\ 1..L \subseteq Ints /\ Ints \subseteq Keys
            /\ Size(T) \in Nat /\ FreeApart(T)
        BY Parts, ArrayInts, NodeIs DEF HashOK, Chains
      <3>3. A \in SUBSET (1..(L + Size(T)))
        BY DEF After
      <3>4. A \in SUBSET Nat
        BY <3>2, <3>3
      <3> HIDE DEF A
      <3>5. i \in A
        BY <3>1, <3>4, MinIs
      <3>6. i \in 1..(L + Size(T)) /\ Filled(T, i)
        BY <3>3, <3>5 DEF A, After
      <3> HIDE DEF i, L
      <3>7. CASE i <= L
        <4>1. cursor' = i /\ i \in 1..L
          BY <3>1, <3>2, <3>6, <3>7 DEF KeyAt, L
        <4> QED
          BY <3>2, <4>1
      <3>8. CASE ~(i <= L)
        <4> DEFINE n == (i - L) - 1
        <4>1. n \in NodesOf(T)
          BY <3>2, <3>6, <3>8 DEF NodesOf
        <4>2. cursor' = Node(T, n).k /\ Node(T, n).v # Nil
          BY <3>1, <3>6, <3>8 DEF KeyAt, Filled, L
        <4> HIDE DEF n
        <4>3. Node(T, n).k \in Keys \cup {Nil}
          BY <3>2, <4>1, NodeIs
        <4> QED
          BY <4>2, <4>3
      <3> QED
        BY <3>7, <3>8
    <2> QED
      BY <2>1, <2>2
  <1>3. FlagsSound'
    BY <1>1 DEF TableInvariant, FlagsSound
  <1> QED
    BY <1>1, <1>2, <1>3 DEF TableInvariant

\* The contents after an insertion, and after a removal.
Inserted(u, t, pos, v, e) ==
    \A k \in Keys : Get(u, k) = IF k = pos THEN v
                                ELSE IF k \in (pos + 1)..e THEN Get(t, k - 1) ELSE Get(t, k)
Removed(u, t, pos, e) ==
    \A k \in Keys : Get(u, k) = IF k = e THEN Nil
                                ELSE IF k \in pos..(e - 1) THEN Get(t, k + 1) ELSE Get(t, k)

LEMMA TInsertKeeps ==
    ASSUME TableInvariant, ~torn, NEW pos \in uses.keys, NEW v \in uses.vals, TInsert(pos, v)
    PROVE  TableInvariant' /\ Inserted(T', T, pos, v, Getn(T) + 1)
  <1> DEFINE e == Getn(T) + 1
             n == e - pos
             w == [i \in 1..n |-> pos + i]
             q == Reverse(w)
             u == Shifted(T, q, -1)
  <1>1. TableOK(T) /\ HashOK(T) /\ ArrayOK(T) /\ T \in Good /\ pos \in Keys /\ v \in Vals
        /\ MaxLen \in Nat /\ 0..MaxLen \subseteq Ints /\ Ints \subseteq Keys
    BY Parts
  <1>2. pos \in 1..e /\ e <= MaxLen /\ T' = Put(u, pos, v) /\ UNCHANGED <<uses, cursor, refs, torn>>
    BY DEF TInsert, Watched
  <1>3. Getn(T) \in Nat
    BY <1>1, GetnIs DEF Border
  <1>4. e \in Nat
    BY <1>3
  <1> HIDE DEF e
  <1>5. n \in Nat /\ pos \in Nat
    BY <1>2, <1>4
  <1>6. w \in [1..n -> Ints]
    <2>1. ASSUME NEW i \in 1..n
          PROVE  pos + i \in Ints
      <3>1. pos + i \in 0..MaxLen
        BY <1>1, <1>2, <1>4
      <3> QED
        BY <1>1, <3>1
    <2> HIDE DEF n
    <2> QED
      BY <2>1
  <1>14. \A i \in 1..n : w[i] = pos + i
    OBVIOUS
  <1> HIDE DEF w
  <1>7. DOMAIN q = 1..n /\ \A j \in 1..n : q[j] \in Ints /\ q[j] = (pos + (n - j)) + 1
    <2> HIDE DEF n
    <2>1. DOMAIN q = 1..n
          /\ \A j \in 1..n : q[j] \in Ints /\ q[j] = w[(n - j) + 1] /\ (n - j) + 1 \in 1..n
      BY <1>5, <1>6, ReverseIs
    <2> HIDE DEF q
    <2>2. ASSUME NEW j \in 1..n
          PROVE  w[(n - j) + 1] = (pos + (n - j)) + 1
      <3>1. w[(n - j) + 1] = pos + ((n - j) + 1)
        BY <1>14, <2>1
      <3> QED
        BY <1>5, <3>1
    <2> QED
      BY <2>1, <2>2
  <1> HIDE DEF q
  <1>8. -1 \in Int
    OBVIOUS
  <1>15. NotYet(q, -1, n)
    <2>1. ASSUME NEW j \in 1..n
          PROVE  q[j] + -1 \in Keys /\ \A l \in 1..n : l < j => q[l] # q[j] + -1
      <3>1. q[j] + -1 = pos + (n - j)
        BY <1>5, <1>7
      <3>2. pos + (n - j) \in 0..MaxLen
        BY <1>1, <1>2, <1>4, <1>5
      <3>3. ASSUME NEW l \in 1..n, l < j
            PROVE  q[l] # pos + (n - j)
        <4>1. q[l] = (pos + (n - l)) + 1
          BY <1>7
        <4> HIDE DEF n
        <4> QED
          BY <1>5, <3>3, <4>1
      <3> QED
        BY <1>1, <3>1, <3>2, <3>3
    <2> QED
      BY <2>1 DEF NotYet
  <1>9. u \in Good /\ ShiftedTo(u, T, q, -1, 1..n)
    <2> HIDE DEF n
    <2> QED
      BY <1>1, <1>5, <1>7, <1>8, <1>15, ShiftIs
  <1>10. TableOK(u)
    BY <1>9 DEF Good
  <1> HIDE DEF u
  <1>11. TableOK(T') /\ T'.flags = {} /\ Sets(T', u, pos, v)
    BY <1>1, <1>2, <1>10, PutKeeps
  <1>12. cursor \in Keys \cup {Nil} /\ torn \in BOOLEAN /\ DOMAIN refs \subseteq Ints
    BY DEF TableInvariant
  <1>16. ASSUME NEW k \in Keys
         PROVE  Get(T', k) = IF k = pos THEN v
                             ELSE IF k \in (pos + 1)..e THEN Get(T, k - 1) ELSE Get(T, k)
    <2>1. Get(T', k) = IF k = pos THEN v ELSE Get(u, k)
      BY <1>11 DEF Sets
    <2>2. Get(u, k) = IF \E l \in 1..n : q[l] = k THEN Get(T, k + -1) ELSE Get(T, k)
      BY <1>9 DEF ShiftedTo
    <2>3. (\E l \in 1..n : q[l] = k) <=> k \in (pos + 1)..e
      <3>1. ASSUME NEW l \in 1..n, q[l] = k
            PROVE  k \in (pos + 1)..e
        <4>1. k = (pos + (n - l)) + 1
          BY <1>7, <3>1
        <4> QED
          BY <1>4, <1>5, <4>1
      <3>2. ASSUME k \in (pos + 1)..e
            PROVE  \E l \in 1..n : q[l] = k
        <4> DEFINE l == (e - k) + 1
        <4>1. l \in 1..n /\ (pos + (n - l)) + 1 = k
          BY <1>4, <1>5, <3>2
        <4>2. q[l] = k
          BY <1>7, <4>1
        <4> QED
          BY <4>1, <4>2
      <3> QED
        BY <3>1, <3>2
    <2>4. k \in (pos + 1)..e => k + -1 = k - 1
      BY <1>4, <1>5
    <2> QED
      BY <2>1, <2>2, <2>3, <2>4
  <1>17. Inserted(T', T, pos, v, Getn(T) + 1)
    BY <1>16 DEF Inserted, e
  <1> QED
    BY <1>2, <1>11, <1>12, <1>17, AfterPut

LEMMA TRemoveKeeps ==
    ASSUME TableInvariant, ~torn, NEW pos \in uses.keys, TRemove(pos)
    PROVE  TableInvariant' /\ Removed(T', T, pos, Getn(T))
  <1> DEFINE e == Getn(T)
             n == e - pos
             q == [i \in 1..n |-> pos + i - 1]
             u == Shifted(T, q, 1)
  <1>1. TableOK(T) /\ HashOK(T) /\ ArrayOK(T) /\ T \in Good /\ pos \in Keys /\ Ints \subseteq Keys
    BY Parts
  <1>2. pos \in 1..e /\ T' = Put(u, e, Nil) /\ UNCHANGED <<uses, cursor, refs, torn>>
    BY DEF TRemove, Watched
  <1>3. e \in Nat /\ 1..e \subseteq Ints
    BY <1>1, GetnIs DEF Border
  <1> HIDE DEF e
  <1>4. n \in Nat /\ e \in 1..e /\ pos \in Nat
    BY <1>2, <1>3
  <1>5. DOMAIN q = 1..n /\ \A j \in 1..n : q[j] \in Ints /\ q[j] = (pos + j) - 1
    <2>1. ASSUME NEW i \in 1..n
          PROVE  (pos + i) - 1 \in Ints
      <3>1. (pos + i) - 1 \in 1..e
        BY <1>2, <1>3
      <3> QED
        BY <1>3, <3>1
    <2>2. ASSUME NEW i \in 1..n
          PROVE  q[i] = (pos + i) - 1
      BY <1>2, <1>3
    <2>3. DOMAIN q = 1..n
      OBVIOUS
    <2> HIDE DEF n, q
    <2> QED
      BY <2>1, <2>2, <2>3
  <1> HIDE DEF q
  <1>6. 1 \in Int
    OBVIOUS
  <1>12. NotYet(q, 1, n)
    <2>1. ASSUME NEW j \in 1..n
          PROVE  q[j] + 1 \in Keys /\ \A l \in 1..n : l < j => q[l] # q[j] + 1
      <3>1. q[j] + 1 = pos + j
        BY <1>4, <1>5
      <3>2. pos + j \in 1..e
        BY <1>2, <1>3, <1>4
      <3>3. ASSUME NEW l \in 1..n, l < j
            PROVE  q[l] # pos + j
        <4>1. q[l] = (pos + l) - 1
          BY <1>5
        <4> HIDE DEF n
        <4> QED
          BY <1>4, <3>3, <4>1
      <3> QED
        BY <1>1, <1>3, <3>1, <3>2, <3>3
    <2> QED
      BY <2>1 DEF NotYet
  <1>7. u \in Good /\ ShiftedTo(u, T, q, 1, 1..n)
    <2> HIDE DEF n
    <2> QED
      BY <1>1, <1>4, <1>5, <1>6, <1>12, ShiftIs
  <1>8. TableOK(u)
    BY <1>7 DEF Good
  <1> HIDE DEF u
  <1>9. e \in Keys /\ Nil \in Vals
    BY <1>1, <1>3, <1>4 DEF Vals
  <1>10. TableOK(T') /\ T'.flags = {} /\ Sets(T', u, e, Nil)
    BY <1>2, <1>8, <1>9, PutKeeps
  <1>11. cursor \in Keys \cup {Nil} /\ torn \in BOOLEAN /\ DOMAIN refs \subseteq Ints
    BY DEF TableInvariant
  <1>13. ASSUME NEW k \in Keys
         PROVE  Get(T', k) = IF k = e THEN Nil
                             ELSE IF k \in pos..(e - 1) THEN Get(T, k + 1) ELSE Get(T, k)
    <2>1. Get(T', k) = IF k = e THEN Nil ELSE Get(u, k)
      BY <1>10 DEF Sets
    <2>2. Get(u, k) = IF \E l \in 1..n : q[l] = k THEN Get(T, k + 1) ELSE Get(T, k)
      BY <1>7 DEF ShiftedTo
    <2>3. (\E l \in 1..n : q[l] = k) <=> k \in pos..(e - 1)
      <3>1. ASSUME NEW l \in 1..n, q[l] = k
            PROVE  k \in pos..(e - 1)
        <4>1. k = (pos + l) - 1
          BY <1>5, <3>1
        <4> QED
          BY <1>3, <1>4, <4>1
      <3>2. ASSUME k \in pos..(e - 1)
            PROVE  \E l \in 1..n : q[l] = k
        <4> DEFINE l == (k - pos) + 1
        <4>1. l \in 1..n /\ (pos + l) - 1 = k
          BY <1>3, <1>4, <3>2
        <4>2. q[l] = k
          BY <1>5, <4>1
        <4> QED
          BY <4>1, <4>2
      <3> QED
        BY <3>1, <3>2
    <2> QED
      BY <2>1, <2>2, <2>3
  <1>14. Removed(T', T, pos, Getn(T))
    BY <1>13 DEF Removed, e
  <1> QED
    BY <1>2, <1>10, <1>11, <1>14, AfterPut

LEMMA LuaLRefKeeps ==
    ASSUME TableInvariant, ~torn, NEW v \in uses.vals, LuaLRef(v)
    PROVE  TableInvariant'
  <1> DEFINE first == Get(T, 0)
             taken == first \in Ints /\ first # 0
             r == IF taken THEN first ELSE Getn(T) + 1
             t == IF taken THEN Put(T, 0, Get(T, first)) ELSE T
  <1>1. TableOK(T) /\ HashOK(T) /\ ArrayOK(T) /\ v \in Vals /\ 0 \in Keys /\ Ints \subseteq Keys
        /\ Ints \subseteq Int /\ MaxLen \in Nat /\ 0..MaxLen \subseteq Ints
    BY Parts
  <1>2. r <= MaxLen /\ T' = Put(t, r, v) /\ UNCHANGED <<uses, cursor, torn>>
        /\ DOMAIN refs' = DOMAIN refs \cup {r}
    BY DEF LuaLRef
  <1>3. Getn(T) \in Nat
    BY <1>1, GetnIs DEF Border
  <1> HIDE DEF first
  <1>4. r \in Ints
    <2>1. CASE taken
      BY <2>1
    <2>2. CASE ~taken
      <3>1. r = Getn(T) + 1
        BY <2>2
      <3>2. r \in 0..MaxLen
        BY <1>1, <1>2, <1>3, <3>1
      <3> QED
        BY <1>1, <3>2
    <2> QED
      BY <2>1, <2>2
  <1>5. TableOK(t)
    <2>1. CASE taken
      <3>1. first \in Int /\ first # Nil
        BY <1>1, <2>1, Sizes
      <3>2. Get(T, first) \in Vals
        BY <1>1, <3>1, GetIs
      <3>3. TableOK(Put(T, 0, Get(T, first)))
        BY <1>1, <3>2, PutKeeps
      <3> QED
        BY <2>1, <3>3
    <2>2. CASE ~taken
      BY <1>1, <2>2
    <2> QED
      BY <2>1, <2>2
  <1> HIDE DEF t, r
  <1>6. TableOK(T') /\ T'.flags = {}
    BY <1>1, <1>2, <1>4, <1>5, PutKeeps
  <1>7. cursor \in Keys \cup {Nil} /\ torn \in BOOLEAN /\ DOMAIN refs \subseteq Ints
    BY DEF TableInvariant
  <1>8. DOMAIN refs' \subseteq Ints
    BY <1>2, <1>4, <1>7
  <1> QED
    BY <1>2, <1>6, <1>7, <1>8, AfterPut

LEMMA LuaLUnrefKeeps ==
    ASSUME TableInvariant, ~torn, NEW r \in uses.keys, LuaLUnref(r)
    PROVE  TableInvariant'
  <1> DEFINE t == Put(T, r, Get(T, 0))
  <1>1. TableOK(T) /\ HashOK(T) /\ 0 \in Keys /\ 0 # Nil /\ Ints \subseteq Keys
    BY Parts
  <1>2. r \in DOMAIN refs /\ T' = Put(t, 0, r) /\ UNCHANGED <<uses, cursor, torn>>
        /\ DOMAIN refs' = DOMAIN refs \ {r}
    BY DEF LuaLUnref, Restrict
  <1>3. cursor \in Keys \cup {Nil} /\ torn \in BOOLEAN /\ DOMAIN refs \subseteq Ints
    BY DEF TableInvariant
  <1>4. r \in Ints /\ r \in Keys /\ r \in Vals
    BY <1>1, <1>2, <1>3 DEF Vals
  <1>5. Get(T, 0) \in Vals
    BY <1>1, GetIs
  <1>6. TableOK(t)
    BY <1>1, <1>4, <1>5, PutKeeps
  <1> HIDE DEF t
  <1>7. TableOK(T') /\ T'.flags = {}
    BY <1>1, <1>2, <1>4, <1>6, PutKeeps
  <1>8. DOMAIN refs' \subseteq Ints
    BY <1>2, <1>3
  <1> QED
    BY <1>2, <1>3, <1>7, <1>8, AfterPut

\* Every key is on the chain that begins in its main position, the chains end, and a
\* table whose search for free nodes was not interrupted has a free node below
\* lastfree for every node without a key: so a key is found where it was put, and the
\* rehash has room for all that it moves (newkey, rehash and resize of ltable.c).
THEOREM TableInvariantIsInductive ==
    /\ Init => TableInvariant
    /\ TableInvariant /\ [Next]_vars => TableInvariant'
  <1>1. ASSUME TableInvariant, [Next]_vars
        PROVE  TableInvariant'
    <2>1. ASSUME NEW s \in SeqOf(uses.vals, MaxLen), NEW n \in {0, 3}, Create(s, n)
          PROVE  TableInvariant'
      BY <1>1, <2>1, CreateKeeps
    <2>2. ASSUME ~torn, NEW k \in uses.keys, NEW v \in uses.vals \cup {Nil}, RawSet(k, v) \/ SetTable(k, v)
          PROVE  TableInvariant'
      BY <1>1, <2>2, RawSetKeeps, SetTableKeeps
    <2>3. ASSUME ~torn, NEW k \in uses.keys, SetFails(k) \/ TRemove(k) \/ LuaLUnref(k)
          PROVE  TableInvariant'
      BY <1>1, <2>3, SetFailsKeeps, TRemoveKeeps, LuaLUnrefKeeps
    <2>4. ASSUME ~torn, NEW k \in uses.keys, NEW v \in uses.vals, TInsert(k, v)
          PROVE  TableInvariant'
      BY <1>1, <2>4, TInsertKeeps
    <2>5. ASSUME ~torn, NEW v \in uses.vals, LuaLRef(v)
          PROVE  TableInvariant'
      BY <1>1, <2>5, LuaLRefKeeps
    <2>6. ASSUME ~torn, GetTable \/ Collect \/ StartWalk \/ LuaNext
          PROVE  TableInvariant'
      BY <1>1, <2>6, GetTableKeeps, CollectKeeps, WalkKeeps
    <2>7. CASE UNCHANGED vars
      BY <1>1, <2>7 DEF vars, TableInvariant, FlagsSound
    <2> QED
      BY <1>1, <2>1, <2>2, <2>3, <2>4, <2>5, <2>6, <2>7 DEF Next
  <1> QED
    BY <1>1, InitKeeps

LEMMA InvariantHolds == Spec => []TableInvariant
  BY TableInvariantIsInductive, PTL DEF Spec

\* What is not in its main position has collided with a key that is: "a main invariant
\* of these tables" (ltable.c:16); and the sizes of the two parts stay powers of two.
THEOREM TableIsWellFormed == Spec => []WellFormed
  <1>1. TableInvariant => WellFormed
    <2> SUFFICES ASSUME TableInvariant PROVE WellFormed
      OBVIOUS
    <2>1. /\ T \in Tables /\ HashOK(T) /\ ArrayOK(T) /\ SizeOK(T) /\ T.lastfree <= Size(T)
          /\ Linked(T) /\ FreeApart(T) /\ Homes(T)
      BY DEF TableInvariant, HashOK, Chains
    <2>2. Size(T) \in Nat /\ T.lastfree \in Nat /\ T.flags \subseteq Events
      BY <2>1, NodeIs DEF Tables
    <2>3. \A i \in 1..Len(T.arr) : T.arr[i] \in Vals
      BY <2>1, ArrayInts
    <2>4. ASSUME NEW i \in NodesOf(T)
          PROVE  /\ Node(T, i).k \in Keys \cup {Nil} /\ Node(T, i).v \in Vals
                 /\ Node(T, i).next \in NodesOf(T) \cup {Null}
      BY <2>1, NodeIs DEF Linked
    <2>5. TypeOK
      <3>1. Size(T) = 0 \/ Size(T) \in Slots(Size(T))
        BY <2>1 DEF SizeOK
      <3>2. Len(T.arr) \in {0} \cup Slots(MaxBits) \/ Len(T.arr) <= MaxLen
        BY <2>1 DEF ArrayOK
      <3>3. T.lastfree \in 0..Size(T)
        BY <2>1, <2>2
      <3>4. cursor \in Keys \cup {Nil} /\ torn \in BOOLEAN
        BY DEF TableInvariant
      <3> QED
        BY <2>2, <2>3, <2>4, <3>1, <3>2, <3>3, <3>4 DEF TypeOK, Vals
    <2>6. MainInvariant
      <3>1. ASSUME NEW i \in NodesOf(T), Node(T, i).v # Nil
            PROVE  MainPosition(T, Node(T, MainPosition(T, Node(T, i).k)).k) = MainPosition(T, Node(T, i).k)
        <4>1. Node(T, i).k # Nil
          BY <2>1, <3>1 DEF FreeApart
        <4> QED
          BY <2>1, <4>1 DEF Homes, AtHome
      <3> QED
        BY <3>1 DEF MainInvariant
    <2> QED
      BY <2>5, <2>6 DEF WellFormed
  <1> QED
    BY <1>1, InvariantHolds, PTL

\* The length that luaH_getn returns is a border, whatever holes the table has and
\* wherever its elements live: the doubling, the binary search and the search from one
\* all end at one.
THEOREM TableBorderFound == Spec => []BorderFound
  <1>1. TableInvariant => BorderFound
    <2> SUFFICES ASSUME TableInvariant PROVE BorderFound
      OBVIOUS
    <2>1. Border(T, Getn(T))
      BY GetnIs DEF TableInvariant
    <2> QED
      BY <2>1 DEF BorderFound, Border
  <1> QED
    BY <1>1, InvariantHolds, PTL

\* A metamethod that the table has is never taken for one it does not have: each
\* assignment forgets the flags, and a collection removes no value.
THEOREM TableFlagsSound == Spec => []FlagsSound
  <1>1. TableInvariant => FlagsSound
    BY DEF TableInvariant
  <1> QED
    BY <1>1, InvariantHolds, PTL

-----------------------------------------------------------------------------
(* The table as the map of TableMap.  A traversal that no new field has     *)
(* disturbed stands at a slot, and the fields in use up to that slot are     *)
(* those that it has returned.                                               *)

Walks == [on : BOOLEAN, seen : SUBSET Keys, disturbed : BOOLEAN]
WalkOK ==
    /\ walk \in Walks /\ (walk.on => "walk" \in uses.ops)
    /\ walk.on /\ ~walk.disturbed /\ ~torn => At(T, cursor, walk.seen)

\* A walk that goes on with the table as it was.
LEMMA WalkGoesOn ==
    ASSUME TableInvariant, WalkOK, uses' = uses, cursor' = cursor, torn' = torn,
           NEW k \in Keys, walk' = Disturbed(k),
           ~torn /\ walk.on /\ ~walk.disturbed /\ Get(T, k) # Nil /\ At(T, cursor, walk.seen) => At(T', cursor, walk.seen)
    PROVE  WalkOK'
  <1> DEFINE d == walk.disturbed \/ (walk.on /\ Get(T, k) = Nil)
  <1>1. walk \in Walks /\ d \in BOOLEAN
    BY DEF WalkOK, Walks
  <1>2. walk' = [walk EXCEPT !.disturbed = d]
    BY DEF Disturbed
  <1> HIDE DEF d
  <1>3. walk' \in Walks /\ walk'.on = walk.on /\ walk'.seen = walk.seen /\ walk'.disturbed = d
    BY <1>1, <1>2 DEF Walks
  <1>4. ASSUME walk'.on, ~walk'.disturbed, ~torn'
        PROVE  At(T', cursor', walk'.seen)
    <2>1. walk.on /\ ~walk.disturbed /\ Get(T, k) # Nil /\ ~torn
      BY <1>3, <1>4 DEF d
    <2>2. At(T, cursor, walk.seen)
      BY <2>1 DEF WalkOK
    <2>3. At(T', cursor, walk.seen)
      BY <2>1, <2>2
    <2> QED
      BY <1>3, <2>3
  <1> QED
    BY <1>3, <1>4 DEF WalkOK

\* next returns a field that it has not returned, or there is none left.
LEMMA LuaNextImplements ==
    ASSUME TableInvariant, ~torn, WalkOK, LuaNext
    PROVE  ((\E k \in Keys : Map!Visit(k)) \/ Map!EndWalk) /\ WalkOK'
  <1> DEFINE F == FindIndex(T, cursor)
             A == After(T, cursor)
             i == Min(A)
  <1>1. TableOK(T) /\ walk \in Walks /\ walk.on /\ "walk" \in uses.ops
    BY Parts DEF WalkOK, LuaNext
  <1>2. uses' = uses /\ T' = T /\ refs' = refs /\ torn' = torn /\ Contents' = Contents
    BY DEF LuaNext, Contents
  <1>3. A \subseteq Indexes(T) /\ A \in SUBSET Nat /\ \A j \in A : Filled(T, j)
    <2>1. Indexes(T) \subseteq Nat
      BY <1>1, IndexIs
    <2> QED
      BY <2>1 DEF After, Indexes
  <1>4. ASSUME NEW c, F = {c}, c \in Nat
        PROVE  A = {j \in Indexes(T) : j > c /\ Filled(T, j)}
    <2>1. Min(F) \in F
      BY <1>4, MinIs
    <2>2. Min(FindIndex(T, cursor)) = c
      BY <1>4, <2>1
    <2> QED
      BY <2>2 DEF After, Indexes
  <1>5. CASE F # {} /\ A # {}
    <2> DEFINE k == KeyAt(T, i)
    <2>1. cursor' = k /\ walk' = [walk EXCEPT !.seen = @ \cup {k}]
      BY <1>5 DEF LuaNext
    <2> HIDE DEF A, F
    <2>2. i \in A /\ \A j \in A : i <= j
      BY <1>3, <1>5, MinIs
    <2> HIDE DEF i
    <2>3. i \in Indexes(T) /\ Filled(T, i) /\ i \in Nat
      BY <1>3, <2>2
    <2>4. k \in Keys /\ Get(T, k) # Nil /\ FindIndex(T, k) = {i}
      BY <1>1, <2>3, SlotIs
    <2> HIDE DEF k
    <2>5. walk' \in Walks /\ walk'.on = walk.on /\ walk'.disturbed = walk.disturbed
          /\ walk'.seen = walk.seen \cup {k}
      BY <1>1, <2>1, <2>4 DEF Walks
    <2>6. ASSUME ~walk.disturbed
          PROVE  k \notin walk.seen /\ At(T, k, walk.seen \cup {k})
      <3>1. PICK c \in Nat : F = {c} /\ SeenTo(T, walk.seen, c)
        BY <1>1, <2>6 DEF WalkOK, At, F
      <3>2. A = {j \in Indexes(T) : j > c /\ Filled(T, j)}
        BY <1>4, <3>1
      <3>3. i > c /\ k \notin walk.seen
        BY <2>2, <2>3, <3>1, <3>2 DEF SeenTo, k
      <3>4. ASSUME NEW j \in Indexes(T), Filled(T, j)
            PROVE  KeyAt(T, j) \in walk.seen \cup {k} <=> j <= i
        <4>1. j \in Nat
          BY <1>1, IndexIs
        <4>2. KeyAt(T, j) \in walk.seen <=> j <= c
          BY <3>1, <3>4 DEF SeenTo
        <4>3. KeyAt(T, j) = k <=> j = i
          <5>1. FindIndex(T, KeyAt(T, j)) = {j}
            BY <1>1, <3>4, SlotIs
          <5> QED
            BY <2>4, <5>1 DEF k
        <4>4. j > c => j >= i
          BY <2>2, <3>2, <3>4, <4>1
        <4> QED
          BY <2>3, <3>3, <4>1, <4>2, <4>3, <4>4
      <3>5. SeenTo(T, walk.seen \cup {k}, i)
        BY <3>4 DEF SeenTo
      <3> QED
        BY <2>3, <2>4, <3>3, <3>5 DEF At
    <2>7. WalkOK'
      BY <1>1, <1>2, <2>1, <2>5, <2>6 DEF WalkOK
    <2>8. ~walk.disturbed => k \in Map!Present(Contents) \ walk.seen
      BY <2>4, <2>6 DEF Map!Present, Contents
    <2>9. Map!Visit(k)
      BY <1>1, <1>2, <2>1, <2>8 DEF Map!Visit
    <2> QED
      BY <2>4, <2>7, <2>9
  <1>6. CASE ~(F # {} /\ A # {})
    <2>1. cursor' = Nil /\ walk' = [on |-> FALSE, seen |-> {}, disturbed |-> FALSE]
      BY <1>6 DEF LuaNext
    <2> HIDE DEF A, F
    <2>2. WalkOK'
      BY <2>1 DEF WalkOK, Walks
    <2>3. ASSUME ~walk.disturbed
          PROVE  Map!Present(Contents) \subseteq walk.seen
      <3>1. PICK c \in Nat : F = {c} /\ SeenTo(T, walk.seen, c)
        BY <1>1, <2>3 DEF WalkOK, At, F
      <3>2. A = {j \in Indexes(T) : j > c /\ Filled(T, j)}
        BY <1>4, <3>1
      <3>3. A = {}
        BY <1>6, <3>1
      <3>4. ASSUME NEW k \in Keys, Get(T, k) # Nil
            PROVE  k \in walk.seen
        <4>1. PICK j \in Indexes(T) : Filled(T, j) /\ KeyAt(T, j) = k
          BY <1>1, <3>4, SlotOf
        <4>2. j \in Nat /\ ~(j > c)
          BY <1>1, <3>2, <3>3, <4>1, IndexIs
        <4> QED
          BY <3>1, <4>1, <4>2 DEF SeenTo
      <3> QED
        BY <3>4 DEF Map!Present, Contents
    <2>4. Map!EndWalk
      BY <1>1, <1>2, <2>1, <2>3 DEF Map!EndWalk, Map!NoWalk
    <2> QED
      BY <2>2, <2>4
  <1> QED
    BY <1>5, <1>6

-----------------------------------------------------------------------------
(* The list: a program that uses table.insert and table.remove has no other  *)
(* fields than those from one to the length.                                 *)

Listed(t, n) == n \in 0..MaxLen /\ \A k \in Keys : Get(t, k) # Nil <=> k \in 1..n
ListOK == "list" \in uses.ops /\ ~torn => \E n \in Nat : Listed(T, n)

\* Where there are no holes, the length is the last index.
LEMMA LengthIs ==
    ASSUME NEW t, TableOK(t), NEW n \in 0..MaxLen,
           \A k \in Ints : k >= 1 => (Get(t, k) # Nil <=> k <= n)
    PROVE  Getn(t) = n
  <1> DEFINE g == Getn(t)
  <1>1. Border(t, g) /\ 1..g \subseteq Ints
    BY GetnIs DEF TableOK
  <1> HIDE DEF g
  <1>2. n \in Nat /\ 1..n \subseteq Ints /\ g \in Nat
    BY <1>1, Sizes DEF Border
  <1>3. ~(g > n)
    <2>1. ASSUME g > n
          PROVE  FALSE
      <3>1. g \in Ints /\ g >= 1
        BY <1>1, <1>2, <2>1
      <3>2. Get(t, g) # Nil
        BY <1>1, <3>1 DEF Border
      <3> QED
        BY <1>2, <2>1, <3>1, <3>2
    <2> QED
      BY <2>1
  <1>4. ~(g < n)
    <2>1. ASSUME g < n
          PROVE  FALSE
      <3>1. g + 1 \in Ints /\ g + 1 >= 1 /\ g + 1 <= n
        BY <1>2, <2>1
      <3>2. Get(t, g + 1) # Nil
        BY <3>1
      <3> QED
        BY <1>1, <3>2 DEF Border
    <2> QED
      BY <2>1
  <1> QED
    BY <1>2, <1>3, <1>4 DEF g

\* The map of a list.
LEMMA ListIs ==
    ASSUME NEW n \in 0..MaxLen, NEW m, \A k \in Keys : m[k] # Nil <=> k \in 1..n
    PROVE  Map!Present(m) = 1..n /\ Map!Length(m) = n /\ Map!IsList(m)
  <1>1. n \in Nat /\ 1..n \subseteq Keys
    BY Sizes DEF Keys
  <1>2. Map!Present(m) = 1..n
    BY <1>1 DEF Map!Present
  <1>3. Map!Cardinality(1..n) = n
    <2>1. Cardinality(1..n) = n
      BY <1>1, FS_Interval
    <2> QED
      BY <2>1 DEF Cardinality, Map!Cardinality, IsFiniteSet, Map!IsFiniteSet
  <1> QED
    BY <1>2, <1>3 DEF Map!Length, Map!IsList

\* The list of the table, its length and its map.
LEMMA ListHas ==
    ASSUME TableInvariant, ~torn, NEW n \in Nat, Listed(T, n)
    PROVE  /\ Getn(T) = n /\ Map!Length(Contents) = n /\ Map!IsList(Contents)
           /\ n \in 0..MaxLen
  <1>1. TableOK(T) /\ n \in 0..MaxLen /\ Ints \subseteq Keys /\ Ints \subseteq Int
    BY Parts DEF Listed
  <1>2. ASSUME NEW k \in Ints, k >= 1
        PROVE  Get(T, k) # Nil <=> k <= n
    BY <1>1, <1>2 DEF Listed
  <1>3. Getn(T) = n
    BY <1>1, <1>2, LengthIs
  <1>4. \A k \in Keys : Contents[k] # Nil <=> k \in 1..n
    BY DEF Contents, Listed
  <1>5. Map!Length(Contents) = n /\ Map!IsList(Contents)
    <2> DEFINE m == Contents
    <2>1. \A k \in Keys : m[k] # Nil <=> k \in 1..n
      BY <1>4
    <2> HIDE DEF m
    <2>2. Map!Present(m) = 1..n /\ Map!Length(m) = n /\ Map!IsList(m)
      BY <1>1, <2>1, ListIs
    <2> QED
      BY <2>2 DEF m
  <1> QED
    BY <1>1, <1>3, <1>5

\* tinsert shifts the elements from pos on and makes the list one longer.
LEMMA TInsertImplements ==
    ASSUME TableInvariant, ~torn, ListOK, NEW pos \in uses.keys, NEW v \in uses.vals, TInsert(pos, v)
    PROVE  pos \in Ints /\ Map!InsertElement(pos, v) /\ ListOK'
  <1> DEFINE e == Getn(T) + 1
  <1>1. "list" \in uses.ops /\ pos \in 1..e /\ e <= MaxLen
        /\ walk' = walk /\ refs' = refs /\ torn' = torn /\ uses' = uses
    BY DEF TInsert, Watched, Does
  <1>2. PICK n \in Nat : Listed(T, n)
    BY <1>1 DEF ListOK
  <1>3. Getn(T) = n /\ Map!Length(Contents) = n /\ Map!IsList(Contents) /\ n \in 0..MaxLen
    BY <1>2, ListHas
  <1>4. Inserted(T', T, pos, v, n + 1)
    BY <1>3, TInsertKeeps
  <1>5. pos \in 1..(n + 1) /\ n + 1 <= MaxLen
    BY <1>1, <1>3
  <1>6. pos \in Ints /\ Ints \subseteq Keys /\ Ints \subseteq Int /\ v # Nil /\ Names \cap Int = {}
        /\ MaxLen \in Nat /\ 0..MaxLen \subseteq Ints /\ v \in Values
    BY <1>5, Parts, Sizes
  <1>7. \A k \in Keys \ Ints : k \notin Int
    BY <1>6 DEF Keys
  <1>8. ASSUME NEW k \in Keys
        PROVE  Get(T', k) = IF k \in Ints /\ k \in 1..(n + 1)
                            THEN IF k < pos THEN Get(T, k) ELSE IF k = pos THEN v ELSE Get(T, k - 1)
                            ELSE Nil
    <2>1. CASE k \in Ints
      <3>1. ~(k \in 1..n) => Get(T, k) = Nil
        BY <1>2 DEF Listed
      <3> QED
        BY <1>4, <1>5, <1>6, <2>1, <3>1 DEF Inserted
    <2>2. CASE k \notin Ints
      <3>1. k \notin 1..n /\ k \notin (pos + 1)..(n + 1) /\ k # pos
        BY <1>5, <1>6, <1>7, <2>2
      <3>2. Get(T, k) = Nil
        BY <1>2, <3>1 DEF Listed
      <3> QED
        BY <1>4, <2>2, <3>1, <3>2 DEF Inserted
    <2> QED
      BY <2>1, <2>2
  <1>9. Listed(T', n + 1)
    <2>1. ASSUME NEW k \in Keys
          PROVE  Get(T', k) # Nil <=> k \in 1..(n + 1)
      <3>1. CASE k \in Ints /\ k \in 1..(n + 1)
        <4>1. k < pos => Get(T, k) # Nil
          BY <1>2, <1>5, <3>1 DEF Listed
        <4>2. k > pos => k - 1 \in Keys /\ k - 1 \in 1..n
          BY <1>3, <1>5, <1>6, <3>1
        <4>3. k > pos => Get(T, k - 1) # Nil
          BY <1>2, <4>2 DEF Listed
        <4> QED
          BY <1>5, <1>6, <1>8, <3>1, <4>1, <4>3
      <3>2. CASE ~(k \in Ints /\ k \in 1..(n + 1))
        <4>1. k \notin 1..(n + 1)
          BY <1>5, <1>6, <3>2
        <4> QED
          BY <1>8, <3>2, <4>1
      <3> QED
        BY <3>1, <3>2
    <2> QED
      BY <1>5, <2>1 DEF Listed
  <1>10. Contents' = [k \in Keys |-> IF k \in Ints /\ k \in 1..(n + 1)
                                     THEN IF k < pos THEN Contents[k]
                                          ELSE IF k = pos THEN v ELSE Contents[k - 1]
                                     ELSE Nil]
    <2>1. ASSUME NEW k \in Keys, k \in Ints, k \in 1..(n + 1), ~(k < pos), k # pos
          PROVE  Contents[k - 1] = Get(T, k - 1)
      <3>1. k - 1 \in Keys
        BY <1>5, <1>6, <2>1
      <3> QED
        BY <3>1 DEF Contents
    <2>2. \A k \in Keys : Contents[k] = Get(T, k)
      BY DEF Contents
    <2>3. ASSUME NEW k \in Keys
          PROVE  Get(T', k) = IF k \in Ints /\ k \in 1..(n + 1)
                              THEN IF k < pos THEN Contents[k]
                                   ELSE IF k = pos THEN v ELSE Contents[k - 1]
                              ELSE Nil
      BY <1>8, <2>1, <2>2
    <2>4. Contents' = [k \in Keys |-> Get(T', k)]
      BY DEF Contents
    <2> QED
      BY <2>3, <2>4
  <1>11. Contents'[pos] = v
    BY <1>5, <1>6, <1>10
  <1>12. Map!InsertElement(pos, v)
    BY <1>1, <1>3, <1>5, <1>10, <1>11 DEF Map!InsertElement, Map!Splice
  <1> QED
    BY <1>6, <1>9, <1>12, <1>2 DEF ListOK

\* tremove shifts the elements after pos, and leaves none at the old length.
LEMMA TRemoveImplements ==
    ASSUME TableInvariant, ~torn, ListOK, NEW pos \in uses.keys, TRemove(pos)
    PROVE  pos \in Ints /\ Map!RemoveElement(pos) /\ ListOK'
  <1>1. "list" \in uses.ops /\ pos \in 1..Getn(T)
        /\ walk' = walk /\ refs' = refs /\ torn' = torn /\ uses' = uses
    BY DEF TRemove, Watched, Does
  <1>2. PICK n \in Nat : Listed(T, n)
    BY <1>1 DEF ListOK
  <1>3. Getn(T) = n /\ Map!Length(Contents) = n /\ Map!IsList(Contents) /\ n \in 0..MaxLen
    BY <1>2, ListHas
  <1>4. Removed(T', T, pos, n)
    BY <1>3, TRemoveKeeps
  <1>5. pos \in 1..n
    BY <1>1, <1>3
  <1>6. Ints \subseteq Keys /\ Ints \subseteq Int /\ Names \cap Int = {}
        /\ MaxLen \in Nat /\ 0..MaxLen \subseteq Ints
    BY Parts, Sizes
  <1>7. pos \in Ints /\ n - 1 \in 0..MaxLen /\ n \in 0..MaxLen
    BY <1>3, <1>5, <1>6
  <1>8. \A k \in Keys \ Ints : k \notin Int
    BY <1>6 DEF Keys
  <1>9. ASSUME NEW k \in Keys
        PROVE  Get(T', k) = IF k \in Ints /\ k \in 1..(n - 1)
                            THEN IF k < pos THEN Get(T, k) ELSE Get(T, k + 1)
                            ELSE Nil
    <2>1. CASE k \in Ints
      <3>1. ~(k \in 1..n) => Get(T, k) = Nil
        BY <1>2 DEF Listed
      <3> QED
        BY <1>4, <1>5, <1>6, <2>1, <3>1 DEF Removed
    <2>2. CASE k \notin Ints
      <3>1. k \notin 1..n /\ k \notin pos..(n - 1) /\ k # n
        BY <1>5, <1>6, <1>8, <2>2
      <3>2. Get(T, k) = Nil
        BY <1>2, <3>1 DEF Listed
      <3> QED
        BY <1>4, <2>2, <3>1, <3>2 DEF Removed
    <2> QED
      BY <2>1, <2>2
  <1>10. Listed(T', n - 1)
    <2>1. ASSUME NEW k \in Keys
          PROVE  Get(T', k) # Nil <=> k \in 1..(n - 1)
      <3>1. CASE k \in Ints /\ k \in 1..(n - 1)
        <4>1. Get(T, k) # Nil
          BY <1>2, <3>1 DEF Listed
        <4>2. k + 1 \in Keys /\ k + 1 \in 1..n
          BY <1>3, <1>6, <3>1
        <4>3. Get(T, k + 1) # Nil
          BY <1>2, <4>2 DEF Listed
        <4> QED
          BY <1>9, <3>1, <4>1, <4>3
      <3>2. CASE ~(k \in Ints /\ k \in 1..(n - 1))
        <4>1. k \notin 1..(n - 1)
          BY <1>3, <1>6, <3>2
        <4> QED
          BY <1>9, <3>2, <4>1
      <3> QED
        BY <3>1, <3>2
    <2> QED
      BY <1>7, <2>1 DEF Listed
  <1>11. Contents' = [k \in Keys |-> IF k \in Ints /\ k \in 1..(n - 1)
                                     THEN IF k < pos THEN Contents[k] ELSE Contents[k + 1]
                                     ELSE Nil]
    <2>1. ASSUME NEW k \in Keys, k \in Ints, k \in 1..(n - 1)
          PROVE  Contents[k + 1] = Get(T, k + 1)
      <3>1. k + 1 \in Keys
        BY <1>3, <1>6, <2>1
      <3> QED
        BY <3>1 DEF Contents
    <2>2. \A k \in Keys : Contents[k] = Get(T, k)
      BY DEF Contents
    <2>3. ASSUME NEW k \in Keys
          PROVE  Get(T', k) = IF k \in Ints /\ k \in 1..(n - 1)
                              THEN IF k < pos THEN Contents[k] ELSE Contents[k + 1]
                              ELSE Nil
      BY <1>9, <2>1, <2>2
    <2>4. Contents' = [k \in Keys |-> Get(T', k)]
      BY DEF Contents
    <2> QED
      BY <2>3, <2>4
  <1>12. Map!RemoveElement(pos)
    BY <1>1, <1>3, <1>5, <1>11 DEF Map!RemoveElement, Map!Splice
  <1>13. n - 1 \in Nat
    BY <1>3, <1>5
  <1> QED
    BY <1>7, <1>10, <1>12, <1>13 DEF ListOK

-----------------------------------------------------------------------------
(* The references: the free ones are a list st that ends in field zero, and  *)
(* every other field up to n is in use.                                      *)

RefList(t, n, c, st) ==
    /\ n \in 0..MaxLen /\ c \in Nat
    /\ \A i \in 1..c : st[i] \in 1..n /\ Get(t, st[i]) = IF i = 1 THEN Nil ELSE st[i - 1]
    /\ \A i, j \in 1..c : st[i] = st[j] => i = j
    /\ Get(t, 0) = IF c = 0 THEN Nil ELSE st[c]
    /\ \A k \in Ints : k > n => Get(t, k) = Nil
    /\ \A k \in 1..n : (\A i \in 1..c : st[i] # k) => Get(t, k) # Nil
InUse(t, n, c, st, rs) ==
    \A x \in DOMAIN rs : x \in 1..n /\ (\A i \in 1..c : st[i] # x) /\ Get(t, x) = rs[x] /\ rs[x] # Nil
RefsOK ==
    "refs" \in uses.ops /\ ~torn => \E n, c : \E st : RefList(T, n, c, st) /\ InUse(T, n, c, st, refs)

\* References and free references are integers among the keys.
LEMMA RefInts ==
    ASSUME NEW n \in 0..MaxLen
    PROVE  /\ n \in Nat /\ MaxLen \in Nat /\ 1..n \subseteq Ints /\ 1..n \subseteq Keys /\ 0 \in Keys /\ 0 \in Ints
           /\ 1..n \subseteq 1..MaxLen /\ Ints \subseteq Int /\ Ints \subseteq Keys /\ Nil \notin Int
           /\ Values \cap {Nil} = {} /\ 0..MaxLen \subseteq Ints
  BY Sizes DEF Keys

\* The first of the free references is taken out.
LEMMA RefListPop ==
    ASSUME NEW t, NEW n, NEW c, NEW st, RefList(t, n, c, st), c # 0, NEW rs, InUse(t, n, c, st, rs),
           NEW r, r = st[c], NEW v \in Values, NEW u,
           \A k \in Keys : Get(u, k) = IF k = r THEN v ELSE IF k = 0 THEN Get(t, r) ELSE Get(t, k)
    PROVE  /\ r \in 1..n /\ r \notin DOMAIN rs
           /\ RefList(u, n, c - 1, st)
           /\ InUse(u, n, c - 1, st, [x \in DOMAIN rs \cup {r} |-> IF x = r THEN v ELSE rs[x]])
  <1>1. n \in 0..MaxLen /\ c \in Nat /\ c \in 1..c
    BY DEF RefList
  <1>2. /\ n \in Nat /\ 1..n \subseteq Ints /\ 1..n \subseteq Keys /\ 0 \in Keys /\ 0 \in Ints
        /\ Ints \subseteq Int /\ Ints \subseteq Keys /\ Nil \notin Int /\ v # Nil
    BY <1>1, RefInts
  <1>3. r \in 1..n /\ r # 0 /\ Get(t, r) = IF c = 1 THEN Nil ELSE st[c - 1]
    BY <1>1, <1>2 DEF RefList
  <1>4. r \notin DOMAIN rs
    BY <1>1 DEF InUse
  <1>5. \A i \in 1..(c - 1) : i \in 1..c /\ i # c
    BY <1>1
  <1>6. \A i \in 1..(c - 1) : st[i] \in 1..n /\ st[i] \in Keys /\ st[i] # 0 /\ st[i] # r
                              /\ Get(u, st[i]) = Get(t, st[i])
    <2>1. \A i \in 1..(c - 1) : st[i] \in 1..n /\ st[i] # r
      BY <1>1, <1>5 DEF RefList
    <2>2. \A i \in 1..(c - 1) : st[i] \in Keys /\ st[i] # 0
      BY <1>2, <2>1
    <2> QED
      BY <2>1, <2>2
  <1>7. RefList(u, n, c - 1, st)
    <2>1. \A i \in 1..(c - 1) : Get(u, st[i]) = IF i = 1 THEN Nil ELSE st[i - 1]
      BY <1>5, <1>6 DEF RefList
    <2>2. \A i, j \in 1..(c - 1) : st[i] = st[j] => i = j
      BY <1>5 DEF RefList
    <2>3. Get(u, 0) = IF c - 1 = 0 THEN Nil ELSE st[c - 1]
      BY <1>1, <1>2, <1>3
    <2>4. \A k \in Ints : k > n => Get(u, k) = Nil
      BY <1>2, <1>3 DEF RefList
    <2>5. ASSUME NEW k \in 1..n, \A i \in 1..(c - 1) : st[i] # k
          PROVE  Get(u, k) # Nil
      <3>1. k \in Keys /\ k # 0
        BY <1>2
      <3>2. CASE k = r
        BY <1>2, <3>1, <3>2
      <3>3. CASE k # r
        <4>1. \A i \in 1..c : st[i] # k
          <5>1. \A i \in 1..c : i = c \/ i \in 1..(c - 1)
            BY <1>1
          <5> QED
            BY <2>5, <3>3, <5>1
        <4>2. Get(t, k) # Nil
          BY <4>1 DEF RefList
        <4> QED
          BY <3>1, <3>3, <4>2
      <3> QED
        BY <3>2, <3>3
    <2>6. c - 1 \in Nat
      BY <1>1
    <2> QED
      BY <1>1, <1>6, <2>1, <2>2, <2>3, <2>4, <2>5, <2>6 DEF RefList
  <1>8. InUse(u, n, c - 1, st, [x \in DOMAIN rs \cup {r} |-> IF x = r THEN v ELSE rs[x]])
    <2> DEFINE q == [x \in DOMAIN rs \cup {r} |-> IF x = r THEN v ELSE rs[x]]
    <2>1. ASSUME NEW x \in DOMAIN q
          PROVE  x \in 1..n /\ (\A i \in 1..(c - 1) : st[i] # x) /\ Get(u, x) = q[x] /\ q[x] # Nil
      <3>1. CASE x = r
        <4>1. q[x] = v
          BY <3>1
        <4> QED
          BY <1>2, <1>3, <1>6, <3>1, <4>1
      <3>2. CASE x # r
        <4>1. x \in DOMAIN rs /\ q[x] = rs[x]
          BY <3>2
        <4> HIDE DEF q
        <4>2. x \in 1..n /\ (\A i \in 1..c : st[i] # x) /\ Get(t, x) = rs[x] /\ rs[x] # Nil
          BY <4>1 DEF InUse
        <4>3. x \in Keys /\ x # 0
          BY <1>2, <4>2
        <4> QED
          BY <1>5, <3>2, <4>1, <4>2, <4>3
      <3> QED
        BY <3>1, <3>2
    <2> HIDE DEF q
    <2>2. InUse(u, n, c - 1, st, q)
      BY <2>1 DEF InUse
    <2> QED
      BY <2>2 DEF q
  <1> QED
    BY <1>3, <1>4, <1>7, <1>8

\* Without a free reference the next one is after the last.
LEMMA RefListGrow ==
    ASSUME NEW t, TableOK(t), NEW n, NEW st, RefList(t, n, 0, st), NEW rs, InUse(t, n, 0, st, rs),
           NEW r, r = Getn(t) + 1, r <= MaxLen, NEW v \in Values, NEW u,
           \A k \in Keys : Get(u, k) = IF k = r THEN v ELSE Get(t, k)
    PROVE  /\ r \in 1..MaxLen /\ r \notin DOMAIN rs
           /\ RefList(u, r, 0, st)
           /\ InUse(u, r, 0, st, [x \in DOMAIN rs \cup {r} |-> IF x = r THEN v ELSE rs[x]])
  <1>1. n \in 0..MaxLen
    BY DEF RefList
  <1>2. /\ n \in Nat /\ 1..n \subseteq Ints /\ 1..n \subseteq Keys /\ 0 \in Keys /\ 0 \in Ints /\ MaxLen \in Nat
        /\ Ints \subseteq Int /\ Ints \subseteq Keys /\ Nil \notin Int /\ v # Nil /\ 0..MaxLen \subseteq Ints
    BY <1>1, RefInts
  <1>3. ASSUME NEW k \in Ints, k >= 1
        PROVE  Get(t, k) # Nil <=> k <= n
    <2>1. k \in Int
      BY <1>2
    <2>2. k > n => Get(t, k) = Nil
      BY DEF RefList
    <2>3. k <= n => k \in 1..n
      BY <1>2, <1>3, <2>1
    <2>4. k <= n => Get(t, k) # Nil
      BY <2>3 DEF RefList
    <2> QED
      BY <1>2, <2>1, <2>2, <2>4
  <1>4. Getn(t) = n
    BY <1>1, <1>3, LengthIs
  <1>5. r = n + 1 /\ r \in 1..MaxLen /\ r \in Keys /\ r \in Int /\ r # 0 /\ r \in 0..MaxLen
    BY <1>1, <1>2, <1>4
  <1>6. r \notin DOMAIN rs
    BY <1>2, <1>5 DEF InUse
  <1>7. RefList(u, r, 0, st)
    <2>1. Get(u, 0) = Nil
      BY <1>2, <1>5 DEF RefList
    <2>2. \A k \in Ints : k > r => Get(u, k) = Nil
      BY <1>2, <1>5 DEF RefList
    <2>3. \A k \in 1..r : Get(u, k) # Nil
      <3>1. ASSUME NEW k \in 1..r
            PROVE  Get(u, k) # Nil
        <4>1. k = r \/ k \in 1..n
          BY <1>2, <1>5
        <4>2. CASE k = r
          BY <1>2, <1>5, <4>2
        <4>3. CASE k \in 1..n /\ k # r
          <5>1. k \in Ints /\ k >= 1 /\ k <= n /\ k \in Keys
            BY <1>2, <4>3
          <5>2. Get(t, k) # Nil
            BY <1>3, <5>1
          <5> QED
            BY <4>3, <5>1, <5>2
        <4> QED
          BY <4>1, <4>2, <4>3
      <3> QED
        BY <3>1
    <2> QED
      BY <1>5, <2>1, <2>2, <2>3 DEF RefList
  <1>8. InUse(u, r, 0, st, [x \in DOMAIN rs \cup {r} |-> IF x = r THEN v ELSE rs[x]])
    <2> DEFINE q == [x \in DOMAIN rs \cup {r} |-> IF x = r THEN v ELSE rs[x]]
    <2>1. ASSUME NEW x \in DOMAIN q
          PROVE  x \in 1..r /\ Get(u, x) = q[x] /\ q[x] # Nil
      <3>1. CASE x = r
        <4>1. q[x] = v
          BY <3>1
        <4> QED
          BY <1>2, <1>5, <3>1, <4>1
      <3>2. CASE x # r
        <4>1. x \in DOMAIN rs /\ q[x] = rs[x]
          BY <3>2
        <4> HIDE DEF q
        <4>2. x \in 1..n /\ Get(t, x) = rs[x] /\ rs[x] # Nil
          BY <4>1 DEF InUse
        <4>3. x \in Keys /\ x \in 1..r
          BY <1>2, <1>5, <4>2
        <4> QED
          BY <3>2, <4>1, <4>2, <4>3
      <3> QED
        BY <3>1, <3>2
    <2>2. \A i \in 1..0 : FALSE
      OBVIOUS
    <2> HIDE DEF q
    <2>3. InUse(u, r, 0, st, q)
      BY <2>1, <2>2 DEF InUse
    <2> QED
      BY <2>3 DEF q
  <1> QED
    BY <1>5, <1>6, <1>7, <1>8

\* A reference that is given back is the first of the free ones.
Pushed(new, st, c, r) == new = [i \in 1..(c + 1) |-> IF i <= c THEN st[i] ELSE r]
LEMMA RefListPush ==
    ASSUME NEW t, NEW n, NEW c, NEW st, RefList(t, n, c, st), NEW rs, InUse(t, n, c, st, rs),
           NEW r \in DOMAIN rs, NEW u,
           \A k \in Keys : Get(u, k) = IF k = 0 THEN r ELSE IF k = r THEN Get(t, 0) ELSE Get(t, k),
           NEW new, Pushed(new, st, c, r),
           NEW qs, DOMAIN qs = DOMAIN rs \ {r}, \A x \in DOMAIN qs : qs[x] = rs[x]
    PROVE  /\ r \in 1..n
           /\ RefList(u, n, c + 1, new)
           /\ InUse(u, n, c + 1, new, qs)
  <1>1. n \in 0..MaxLen /\ c \in Nat
    BY DEF RefList
  <1>2. /\ n \in Nat /\ 1..n \subseteq Ints /\ 1..n \subseteq Keys /\ 0 \in Keys /\ 0 \in Ints
        /\ Ints \subseteq Int /\ Ints \subseteq Keys /\ Nil \notin Int
    BY <1>1, RefInts
  <1>3. r \in 1..n /\ r # 0 /\ r # Nil /\ r \in Keys /\ \A i \in 1..c : st[i] # r
    <2>1. r \in 1..n /\ \A i \in 1..c : st[i] # r
      BY DEF InUse
    <2> QED
      BY <1>2, <2>1
  <1>4. /\ \A i \in 1..c : new[i] = st[i]
        /\ new[c + 1] = r
        /\ \A i \in 1..(c + 1) : i \in 1..c \/ i = c + 1
    BY <1>1 DEF Pushed
  <1>5. \A i \in 1..c : st[i] \in 1..n /\ st[i] \in Keys /\ st[i] # 0 /\ st[i] # r
                        /\ Get(u, st[i]) = Get(t, st[i])
    <2>1. \A i \in 1..c : st[i] \in 1..n
      BY DEF RefList
    <2> QED
      BY <1>2, <1>3, <2>1
  <1>6. RefList(u, n, c + 1, new)
    <2>1. ASSUME NEW i \in 1..(c + 1)
          PROVE  new[i] \in 1..n /\ Get(u, new[i]) = IF i = 1 THEN Nil ELSE new[i - 1]
      <3>1. CASE i \in 1..c
        <4>1. i # 1 => i - 1 \in 1..c
          BY <1>1, <3>1
        <4>2. Get(t, st[i]) = IF i = 1 THEN Nil ELSE st[i - 1]
          BY <3>1 DEF RefList
        <4> QED
          BY <1>4, <1>5, <3>1, <4>1, <4>2
      <3>2. CASE i = c + 1
        <4>1. c # 0 => c \in 1..c /\ i - 1 = c
          BY <1>1, <3>2
        <4>2. c = 0 <=> i = 1
          BY <1>1, <3>2
        <4>3. Get(t, 0) = IF c = 0 THEN Nil ELSE st[c]
          BY DEF RefList
        <4>4. Get(u, r) = Get(t, 0)
          BY <1>3
        <4> QED
          BY <1>3, <1>4, <3>2, <4>1, <4>2, <4>3, <4>4
      <3> QED
        BY <1>4, <3>1, <3>2
    <2>2. ASSUME NEW i \in 1..(c + 1), NEW j \in 1..(c + 1), new[i] = new[j]
          PROVE  i = j
      <3>1. i \in 1..c /\ j \in 1..c => st[i] = st[j]
        BY <1>4, <2>2
      <3>2. i \in 1..c /\ j \in 1..c => i = j
        BY <3>1 DEF RefList
      <3> QED
        BY <1>3, <1>4, <2>2, <3>2
    <2>3. Get(u, 0) = new[c + 1]
      BY <1>2, <1>3, <1>4
    <2>4. \A k \in Ints : k > n => Get(u, k) = Nil
      BY <1>2, <1>3 DEF RefList
    <2>5. ASSUME NEW k \in 1..n, \A i \in 1..(c + 1) : new[i] # k
          PROVE  Get(u, k) # Nil
      <3>1. c + 1 \in 1..(c + 1) /\ \A i \in 1..c : i \in 1..(c + 1)
        BY <1>1
      <3>2. k # r /\ \A i \in 1..c : st[i] # k
        BY <1>4, <2>5, <3>1
      <3>3. Get(t, k) # Nil
        BY <3>2 DEF RefList
      <3>4. k \in Keys /\ k # 0
        BY <1>2
      <3> QED
        BY <3>2, <3>3, <3>4
    <2>6. c + 1 \in Nat /\ c + 1 # 0
      BY <1>1
    <2> HIDE DEF RefList
    <2>7. \A i, j \in 1..(c + 1) : new[i] = new[j] => i = j
      BY <2>2
    <2> QED
      BY <1>1, <2>1, <2>3, <2>4, <2>5, <2>6, <2>7 DEF RefList
  <1>7. InUse(u, n, c + 1, new, qs)
    <2>1. ASSUME NEW x \in DOMAIN qs
          PROVE  x \in 1..n /\ (\A i \in 1..(c + 1) : new[i] # x) /\ Get(u, x) = qs[x] /\ qs[x] # Nil
      <3>1. x \in DOMAIN rs /\ x # r /\ qs[x] = rs[x]
        BY <2>1
      <3>2. x \in 1..n /\ (\A i \in 1..c : st[i] # x) /\ Get(t, x) = rs[x] /\ rs[x] # Nil
        BY <3>1 DEF InUse
      <3>3. x \in Keys /\ x # 0
        BY <1>2, <3>2
      <3> QED
        BY <1>4, <3>1, <3>2, <3>3
    <2> QED
      BY <2>1 DEF InUse
  <1> QED
    BY <1>3, <1>6, <1>7

\* luaL_ref takes the first free reference, or else the one after the last.
LEMMA LuaLRefImplements ==
    ASSUME TableInvariant, ~torn, RefsOK, NEW v \in uses.vals, LuaLRef(v)
    PROVE  (\E r \in Ints : Map!Ref(r, v)) /\ RefsOK'
  <1> DEFINE first == Get(T, 0)
             taken == first \in Ints /\ first # 0
             r == IF taken THEN first ELSE Getn(T) + 1
             t == IF taken THEN Put(T, 0, Get(T, first)) ELSE T
             rs == [x \in DOMAIN refs \cup {r} |-> IF x = r THEN v ELSE refs[x]]
  <1>1. TableOK(T) /\ HashOK(T) /\ v \in Vals /\ v \in Values /\ 0 \in Keys /\ Ints \subseteq Keys
        /\ Ints \subseteq Int /\ MaxLen \in Nat /\ 0..MaxLen \subseteq Ints
    BY Parts
  <1>2. "refs" \in uses.ops /\ r <= MaxLen /\ T' = Put(t, r, v) /\ refs' = rs
        /\ UNCHANGED <<uses, cursor, walk, torn>>
    BY DEF LuaLRef, Does
  <1>3. PICK n, c, st : RefList(T, n, c, st) /\ InUse(T, n, c, st, refs)
    BY <1>2 DEF RefsOK
  <1>4. /\ n \in 0..MaxLen /\ 1..n \subseteq Ints /\ 0 \notin 1..n /\ Nil \notin Int
        /\ c \in Nat /\ (c # 0 => c \in 1..c)
        /\ first = IF c = 0 THEN Nil ELSE st[c]
    <2>1. n \in 0..MaxLen /\ c \in Nat /\ first = IF c = 0 THEN Nil ELSE st[c]
      BY <1>3 DEF RefList
    <2>2. 1..n \subseteq Ints /\ 0 \notin 1..n /\ Nil \notin Int
      BY <2>1, RefInts
    <2> QED
      BY <2>1, <2>2
  <1>5. ASSUME NEW m, NEW d, r \in Ints, r \notin DOMAIN refs, r # 0,
               RefList(T', m, d, st), InUse(T', m, d, st, rs)
        PROVE  (\E x \in Ints : Map!Ref(x, v)) /\ RefsOK'
    <2> HIDE DEF r, rs, t, first
    <2>1. ASSUME NEW x \in DOMAIN rs
          PROVE  Contents'[x] = rs[x]
      <3>1. x \in 1..m /\ Get(T', x) = rs[x] /\ m \in 0..MaxLen
        BY <1>5, <2>1 DEF InUse, RefList
      <3>2. x \in Keys
        BY <3>1, RefInts
      <3> QED
        BY <3>1, <3>2 DEF Contents
    <2>2. Map!Ref(r, v)
      BY <1>2, <1>5, <2>1 DEF Map!Ref, rs
    <2>3. RefsOK'
      <3>1. RefList(T', m, d, st) /\ InUse(T', m, d, st, refs')
        BY <1>2, <1>5
      <3> QED
        BY <3>1 DEF RefsOK
    <2> QED
      BY <1>5, <2>2, <2>3
  <1>6. CASE c # 0
    <2>1. first = st[c] /\ st[c] \in 1..n
      BY <1>3, <1>4, <1>6 DEF RefList
    <2>2. taken /\ first \in Keys /\ first # Nil
      BY <1>1, <1>4, <2>1
    <2>3. r = st[c] /\ t = Put(T, 0, Get(T, r))
      BY <2>1, <2>2
    <2>4. r \in Ints /\ r \in Keys /\ r # 0 /\ r # Nil
      BY <1>1, <1>4, <2>1, <2>3
    <2> HIDE DEF r, rs, t, first
    <2>5. Get(T, r) \in Vals
      BY <1>1, <2>4, GetIs
    <2>6. TableOK(t) /\ Sets(t, T, 0, Get(T, r))
      BY <1>1, <2>3, <2>5, PutKeeps
    <2>7. Sets(T', t, r, v)
      BY <1>1, <1>2, <2>4, <2>6, PutKeeps
    <2>8. \A k \in Keys : Get(T', k) = IF k = r THEN v ELSE IF k = 0 THEN Get(T, r) ELSE Get(T, k)
      BY <2>6, <2>7 DEF Sets
    <2>9. /\ r \notin DOMAIN refs
          /\ RefList(T', n, c - 1, st)
          /\ InUse(T', n, c - 1, st, [x \in DOMAIN refs \cup {r} |-> IF x = r THEN v ELSE refs[x]])
      BY <1>1, <1>3, <1>6, <2>3, <2>8, RefListPop
    <2>10. InUse(T', n, c - 1, st, rs)
      BY <2>9 DEF rs
    <2> QED
      BY <1>5, <2>4, <2>9, <2>10
  <1>7. CASE c = 0
    <2>1. first = Nil
      BY <1>4, <1>7
    <2>2. ~taken
      BY <1>1, <1>4, <2>1
    <2>3. r = Getn(T) + 1 /\ t = T
      BY <2>2
    <2> HIDE DEF r, rs, t, first
    <2>4. Getn(T) \in Nat
      BY <1>1, GetnIs DEF Border, TableOK
    <2>5. r \in 0..MaxLen /\ r # 0 /\ r \in Ints /\ r \in Keys
      BY <1>1, <1>2, <2>3, <2>4
    <2>6. Sets(T', T, r, v)
      BY <1>1, <1>2, <2>3, <2>5, PutKeeps
    <2>7. \A k \in Keys : Get(T', k) = IF k = r THEN v ELSE Get(T, k)
      BY <2>6 DEF Sets
    <2>8. RefList(T, n, 0, st) /\ InUse(T, n, 0, st, refs)
      BY <1>3, <1>7
    <2>9. /\ r \notin DOMAIN refs
          /\ RefList(T', r, 0, st)
          /\ InUse(T', r, 0, st, [x \in DOMAIN refs \cup {r} |-> IF x = r THEN v ELSE refs[x]])
      BY <1>1, <1>2, <2>3, <2>7, <2>8, RefListGrow
    <2>10. InUse(T', r, 0, st, rs)
      BY <2>9 DEF rs
    <2> QED
      BY <1>5, <2>5, <2>9, <2>10
  <1> QED
    BY <1>6, <1>7

\* luaL_unref makes the reference the first of the free ones, and no other one changes.
LEMMA LuaLUnrefImplements ==
    ASSUME TableInvariant, ~torn, RefsOK, NEW r \in uses.keys, LuaLUnref(r)
    PROVE  r \in Ints /\ Map!Unref(r) /\ RefsOK'
  <1> DEFINE t == Put(T, r, Get(T, 0))
  <1>1. TableOK(T) /\ HashOK(T) /\ 0 \in Keys /\ 0 # Nil /\ Ints \subseteq Keys
    BY Parts
  <1>2. "refs" \in uses.ops /\ r \in DOMAIN refs /\ T' = Put(t, 0, r)
        /\ refs' = Restrict(refs, DOMAIN refs \ {r}) /\ UNCHANGED <<uses, cursor, walk, torn>>
    BY DEF LuaLUnref, Does
  <1>3. DOMAIN refs' = DOMAIN refs \ {r} /\ \A x \in DOMAIN refs' : refs'[x] = refs[x]
    BY <1>2 DEF Restrict
  <1>4. r \in Ints /\ r \in Keys /\ r \in Vals
    BY <1>1, <1>2 DEF Vals, TableInvariant
  <1>5. Get(T, 0) \in Vals
    BY <1>1, GetIs
  <1>6. TableOK(t) /\ Sets(t, T, r, Get(T, 0))
    BY <1>1, <1>4, <1>5, PutKeeps
  <1> HIDE DEF t
  <1>7. Sets(T', t, 0, r)
    BY <1>1, <1>2, <1>4, <1>6, PutKeeps
  <1>8. \A k \in Keys : Get(T', k) = IF k = 0 THEN r ELSE IF k = r THEN Get(T, 0) ELSE Get(T, k)
    BY <1>6, <1>7 DEF Sets
  <1>9. PICK n, c, st : RefList(T, n, c, st) /\ InUse(T, n, c, st, refs)
    BY <1>2 DEF RefsOK
  <1> DEFINE new == [i \in 1..(c + 1) |-> IF i <= c THEN st[i] ELSE r]
             rs == refs'
  <1>10. RefList(T', n, c + 1, new) /\ InUse(T', n, c + 1, new, rs)
    <2> HIDE DEF new
    <2>1. Pushed(new, st, c, r)
      BY DEF new, Pushed
    <2>2. DOMAIN rs = DOMAIN refs \ {r} /\ \A x \in DOMAIN rs : rs[x] = refs[x]
      BY <1>3
    <2> HIDE DEF rs
    <2>3. RefList(T, n, c, st) /\ InUse(T, n, c, st, refs) /\ r \in DOMAIN refs
      BY <1>2, <1>9
    <2> QED
      BY <1>8, <2>1, <2>2, <2>3, RefListPush
  <1> HIDE DEF new
  <1>11. RefsOK'
    BY <1>10 DEF RefsOK
  <1>12. ASSUME NEW x \in DOMAIN refs'
         PROVE  Contents'[x] = refs'[x]
    <2>1. x \in 1..n /\ Get(T', x) = refs'[x] /\ n \in 0..MaxLen
      BY <1>10 DEF InUse, RefList
    <2>2. x \in Keys
      BY <2>1, RefInts
    <2> QED
      BY <2>1, <2>2 DEF Contents
  <1>13. refs' = Map!Restrict(refs, DOMAIN refs \ {r})
    BY <1>2 DEF Restrict, Map!Restrict
  <1>14. Map!Unref(r)
    BY <1>2, <1>12, <1>13 DEF Map!Unref
  <1> QED
    BY <1>4, <1>11, <1>14

-----------------------------------------------------------------------------
(* Each step of the table is a step of the map.                              *)

PromiseInvariant == TableInvariant /\ WalkOK /\ ListOK /\ RefsOK

\* Nothing has changed that the map knows of.
LEMMA NothingSeen ==
    ASSUME TableInvariant, uses' = uses, torn' = torn, refs' = refs, \A j \in Keys : Get(T', j) = Get(T, j)
    PROVE  /\ Contents' = Contents
           /\ ListOK => ListOK'
           /\ RefsOK => RefsOK'
  <1>1. Contents' = Contents
    BY DEF Contents
  <1>2. ASSUME NEW n, Listed(T, n)
        PROVE  Listed(T', n)
    BY <1>2 DEF Listed
  <1>3. ASSUME NEW n, NEW c, NEW st, RefList(T, n, c, st), InUse(T, n, c, st, refs)
        PROVE  RefList(T', n, c, st) /\ InUse(T', n, c, st, refs)
    <2>1. n \in 0..MaxLen
      BY <1>3 DEF RefList
    <2>2. 1..n \subseteq Keys /\ 0 \in Keys /\ Ints \subseteq Keys
      BY <2>1, RefInts
    <2>3. \A k \in 1..n : Get(T', k) = Get(T, k)
      BY <2>2
    <2>4. Get(T', 0) = Get(T, 0) /\ \A k \in Ints : Get(T', k) = Get(T, k)
      BY <2>2
    <2>5. \A i \in 1..c : st[i] \in 1..n /\ Get(T', st[i]) = IF i = 1 THEN Nil ELSE st[i - 1]
      BY <1>3, <2>3 DEF RefList
    <2>6. RefList(T', n, c, st)
      BY <1>3, <2>3, <2>4, <2>5 DEF RefList
    <2>7. InUse(T', n, c, st, refs)
      BY <1>3, <2>3 DEF InUse
    <2> QED
      BY <2>6, <2>7
  <1>4. ListOK => ListOK'
    BY <1>2 DEF ListOK
  <1>5. RefsOK => RefsOK'
    BY <1>3 DEF RefsOK
  <1> QED
    BY <1>1, <1>4, <1>5

\* What a program does with its table.
LEMMA UsedFor ==
    ASSUME TableInvariant, NEW o \in {"assign", "meta", "walk"}, o \in uses.ops
    PROVE  "list" \notin uses.ops /\ "refs" \notin uses.ops
  <1>1. uses \in Programs
    BY DEF TableInvariant
  <1>2. "list" \in uses.ops => uses.ops \subseteq {"list", "no memory"}
    BY <1>1, UsesApart
  <1>3. "refs" \in uses.ops => uses.ops \subseteq {"refs", "no memory"}
    BY <1>1, UsesApart
  <1> QED
    BY <1>2, <1>3
\* A list is no table of references, and neither is traversed.
LEMMA NotBoth ==
    ASSUME TableInvariant
    PROVE  /\ ~("list" \in uses.ops /\ "refs" \in uses.ops)
           /\ "list" \in uses.ops \/ "refs" \in uses.ops => "walk" \notin uses.ops
  <1>1. uses \in Programs
    BY DEF TableInvariant
  <1>2. "list" \in uses.ops => uses.ops \subseteq {"list", "no memory"}
    BY <1>1, UsesApart
  <1>3. "refs" \in uses.ops => uses.ops \subseteq {"refs", "no memory"}
    BY <1>1, UsesApart
  <1> QED
    BY <1>2, <1>3

\* What assigns fields one by one uses neither a list nor references.
LEMMA NothingElse ==
    ASSUME TableInvariant, WalkOK, NEW o \in {"assign", "meta"}, o \in uses.ops, uses' = uses
    PROVE  ListOK' /\ RefsOK'
  BY UsedFor DEF ListOK, RefsOK

\* A constructor makes a list, and what the old table was is forgotten.
LEMMA CreateImplements ==
    ASSUME TableInvariant, NEW s \in SeqOf(uses.vals, MaxLen), NEW n \in {0, 3}, Create(s, n)
    PROVE  Map!New /\ WalkOK' /\ ListOK' /\ RefsOK'
  <1>1. /\ walk' = [on |-> FALSE, seen |-> {}, disturbed |-> FALSE] /\ refs' = [r \in {} |-> Nil]
        /\ torn' = FALSE /\ uses' = uses /\ (torn \/ T = Fresh(<<>>, 0))
    BY DEF Create
  <1>2. PICK l \in 0..MaxLen : ListOf(T', s, l) /\ \A i \in 1..l : s[i] \in uses.vals
    BY CreateKeeps
  <1>3. l \in Nat /\ 1..l \subseteq Ints /\ 1..l \subseteq Keys /\ 0 \in Keys /\ 0 \notin 1..l /\ Ints \subseteq Keys
        /\ Ints \subseteq Int
    <2>1. l \in Nat /\ 1..l \subseteq Ints /\ 1..l \subseteq Keys /\ 0 \in Keys /\ Ints \subseteq Keys /\ Ints \subseteq Int
      BY <1>2, RefInts
    <2> QED
      BY <2>1
  <1>4. \A i \in 1..l : s[i] # Nil
    BY <1>2, Parts, Sizes
  <1>5. \A k \in Keys : Get(T', k) # Nil <=> k \in 1..l
    BY <1>2, <1>4 DEF ListOf
  <1>6. WalkOK'
    BY <1>1 DEF WalkOK, Walks
  <1>7. ListOK'
    BY <1>2, <1>3, <1>5 DEF ListOK, Listed
  <1>8. RefsOK'
    <2>1. \A i \in 1..0 : FALSE
      OBVIOUS
    <2>2. Get(T', 0) = Nil
      BY <1>3, <1>5
    <2>3. \A k \in Ints : k > l => Get(T', k) = Nil
      BY <1>3, <1>5
    <2>4. \A k \in 1..l : Get(T', k) # Nil
      BY <1>3, <1>5
    <2>5. RefList(T', l, 0, <<>>)
      BY <1>2, <2>1, <2>2, <2>3, <2>4 DEF RefList
    <2>6. InUse(T', l, 0, <<>>, refs')
      BY <1>1 DEF InUse
    <2> QED
      BY <2>5, <2>6 DEF RefsOK
  <1>9. Map!IsList(Contents')
    <2> DEFINE m == Contents'
    <2>1. \A k \in Keys : m[k] # Nil <=> k \in 1..l
      BY <1>5 DEF Contents
    <2> HIDE DEF m
    <2>2. Map!Present(m) = 1..l /\ Map!Length(m) = l /\ Map!IsList(m)
      BY <1>2, <2>1, ListIs
    <2> QED
      BY <2>2 DEF m
  <1>10. torn \/ Contents = Map!Empty
    <2> SUFFICES ASSUME ~torn PROVE Contents = Map!Empty
      OBVIOUS
    <2>1. TableOK(T) /\ HashOK(T) /\ T = Fresh(<<>>, 0)
      BY <1>1, Parts
    <2>2. <<>> \in Seq(Vals) /\ Len(<<>>) = 0
      OBVIOUS
    <2>3. T.arr = <<>> /\ Size(T) = 0
      BY <2>1, <2>2, FreshIs
    <2>4. \A i \in NodesOf(T) : FALSE
      BY <2>3 DEF NodesOf
    <2>5. ASSUME NEW k \in Keys
          PROVE  Get(T, k) = Nil
      <3>1. ~InArray(T, k)
        BY <2>2, <2>3 DEF InArray
      <3>2. Get(T, k) # Nil => Entry(T, k, Get(T, k))
        BY <2>1, <3>1, GetHash
      <3> QED
        BY <2>4, <3>2 DEF Entry
    <2> QED
      BY <2>5 DEF Contents, Map!Empty
  <1>11. Map!New
    BY <1>1, <1>9, <1>10 DEF Map!New, Map!NoWalk
  <1> QED
    BY <1>6, <1>7, <1>8, <1>11

\* The slot that a field present has is where the traversal knows it.
LEMMA RawSetImplements ==
    ASSUME TableInvariant, ~torn, WalkOK, NEW k \in uses.keys, NEW v \in uses.vals \cup {Nil}, RawSet(k, v)
    PROVE  k \in Keys /\ v \in Values \cup {Nil} /\ Map!Assign(k, v) /\ WalkOK' /\ ListOK' /\ RefsOK'
  <1>1. TableOK(T) /\ k \in Keys /\ v \in Vals /\ v \in Values \cup {Nil} /\ cursor \in Keys \cup {Nil}
    BY Parts DEF TableInvariant
  <1>2. "assign" \in uses.ops /\ T' = Put(T, k, v) /\ walk' = Disturbed(k)
        /\ uses' = uses /\ cursor' = cursor /\ refs' = refs /\ torn' = torn
    BY DEF RawSet, Watched, Does
  <1>3. Sets(T', T, k, v)
    BY <1>1, <1>2, PutKeeps
  <1>4. ASSUME Get(T, k) # Nil, At(T, cursor, walk.seen)
        PROVE  At(T', cursor, walk.seen)
    BY <1>1, <1>2, <1>4, StoreAt
  <1>5. WalkOK'
    BY <1>1, <1>2, <1>4, WalkGoesOn
  <1>6. Map!Assign(k, v)
    <2>1. Contents'[k] = v /\ \A j \in Keys \ {k} : Contents'[j] = Contents[j]
      BY <1>1, <1>3 DEF Sets, Contents
    <2>2. walk' = [walk EXCEPT !.disturbed = @ \/ (walk.on /\ Contents[k] = Nil)]
      BY <1>1, <1>2 DEF Disturbed, Contents
    <2> QED
      BY <1>2, <2>1, <2>2 DEF Map!Assign
  <1> QED
    BY <1>1, <1>2, <1>5, <1>6, NothingElse

\* The slot is made first, and it has what it had; the value is then stored in it, or
\* the metamethod gets it.
LEMMA SetTableImplements ==
    ASSUME TableInvariant, ~torn, WalkOK, NEW k \in uses.keys, NEW v \in uses.vals \cup {Nil}, SetTable(k, v)
    PROVE  /\ k \in Keys /\ v \in Values \cup {Nil} /\ (Map!Assign(k, v) \/ Map!Redirect(k))
           /\ WalkOK' /\ ListOK' /\ RefsOK'
  <1> DEFINE slot == Put(T, k, Get(T, k))
  <1>1. TableOK(T) /\ HashOK(T) /\ k \in Keys /\ v \in Vals /\ v \in Values \cup {Nil} /\ k # Nil
        /\ cursor \in Keys \cup {Nil}
    BY Parts, Sizes DEF TableInvariant
  <1>2. "meta" \in uses.ops /\ walk' = Disturbed(k)
        /\ uses' = uses /\ cursor' = cursor /\ refs' = refs /\ torn' = torn
        /\ (T' = Store(slot, k, v) \/ (T' = slot /\ Get(T, k) = Nil))
    BY DEF SetTable, Watched, Does
  <1>3. Get(T, k) \in Vals
    BY <1>1, GetIs
  <1>4. TableOK(slot) /\ Sets(slot, T, k, Get(T, k)) /\ Has(slot, k) /\ Get(slot, k) = Get(T, k)
    <2>1. TableOK(slot) /\ Sets(slot, T, k, Get(T, k))
      BY <1>1, <1>3, PutKeeps
    <2> QED
      BY <1>1, <2>1 DEF Sets
  <1> HIDE DEF slot
  <1>5. Sets(Store(slot, k, v), slot, k, v)
    BY <1>1, <1>4, StoreKeeps
  <1>6. ASSUME Get(T, k) # Nil, At(T, cursor, walk.seen)
        PROVE  At(T', cursor, walk.seen)
    <2>1. slot = Store(T, k, Get(T, k)) /\ At(Store(T, k, Get(T, k)), cursor, walk.seen)
      BY <1>1, <1>3, <1>6, StoreAt DEF slot
    <2>2. Get(slot, k) # Nil /\ At(slot, cursor, walk.seen)
      BY <1>4, <1>6, <2>1
    <2>3. At(Store(slot, k, v), cursor, walk.seen)
      BY <1>1, <1>4, <2>2, StoreAt
    <2> QED
      BY <1>2, <1>6, <2>3
  <1>7. WalkOK'
    BY <1>1, <1>2, <1>6, WalkGoesOn
  <1>8. CASE T' = Store(slot, k, v)
    <2>1. Contents'[k] = v /\ \A j \in Keys \ {k} : Contents'[j] = Contents[j]
      BY <1>1, <1>4, <1>5, <1>8 DEF Sets, Contents
    <2>2. walk' = [walk EXCEPT !.disturbed = @ \/ (walk.on /\ Contents[k] = Nil)]
      BY <1>1, <1>2 DEF Disturbed, Contents
    <2>3. Map!Assign(k, v)
      BY <1>2, <2>1, <2>2 DEF Map!Assign
    <2> QED
      BY <1>1, <1>2, <1>7, <2>3, NothingElse
  <1>9. CASE T' = slot /\ Get(T, k) = Nil
    <2>1. \A j \in Keys : Get(T', j) = Get(T, j)
      BY <1>4, <1>9 DEF Sets
    <2>2. Contents' = Contents /\ Contents[k] = Nil
      BY <1>1, <1>9, <2>1 DEF Contents
    <2>3. walk' = [walk EXCEPT !.disturbed = @ \/ walk.on]
      BY <1>2, <1>9 DEF Disturbed
    <2>4. Map!Redirect(k)
      BY <1>2, <2>2, <2>3 DEF Map!Redirect
    <2> QED
      BY <1>1, <1>2, <1>7, <2>4, NothingElse
  <1> QED
    BY <1>2, <1>8, <1>9

\* A walk, a list and the references do not notice a lookup or a collection.
LEMMA UnseenImplements ==
    ASSUME PromiseInvariant, ~torn, GetTable \/ Collect
    PROVE  UNCHANGED Map!tablemap /\ PromiseInvariant'
  <1>1. TableInvariant /\ WalkOK /\ ListOK /\ RefsOK /\ TableOK(T)
    BY Parts DEF PromiseInvariant
  <1>2. walk' = walk /\ uses' = uses /\ cursor' = cursor /\ refs' = refs /\ torn' = torn
    BY DEF GetTable, Collect, Watched
  <1>3. TableInvariant' /\ SameSlots(T', T) /\ \A j \in Keys : Get(T', j) = Get(T, j)
    BY <1>1, GetTableKeeps, CollectKeeps
  <1>4. Contents' = Contents /\ ListOK' /\ RefsOK'
    BY <1>1, <1>2, <1>3, NothingSeen
  <1>5. TableOK(T')
    BY <1>2, <1>3 DEF TableInvariant, TableOK
  <1>6. cursor \in Keys \cup {Nil}
    BY <1>1 DEF TableInvariant
  <1>7. At(T, cursor, walk.seen) => At(T', cursor, walk.seen)
    BY <1>1, <1>3, <1>5, <1>6, AtSame
  <1>8. WalkOK'
    BY <1>1, <1>2, <1>7 DEF WalkOK
  <1> QED
    BY <1>2, <1>3, <1>4, <1>8 DEF PromiseInvariant, Map!tablemap

\* Without memory the map promises nothing more.
LEMMA SetFailsImplements ==
    ASSUME TableInvariant, ~torn, WalkOK, NEW k \in uses.keys, SetFails(k)
    PROVE  Map!RunOutOfMemory /\ WalkOK' /\ ListOK' /\ RefsOK'
  <1>1. torn' = TRUE /\ uses' = uses /\ cursor' = cursor /\ walk' = walk /\ refs' = refs
    BY DEF SetFails
  <1> QED
    BY <1>1 DEF Map!RunOutOfMemory, WalkOK, ListOK, RefsOK

\* At first no field has been returned.
LEMMA StartWalkImplements ==
    ASSUME TableInvariant, ~torn, WalkOK, StartWalk
    PROVE  Map!StartWalk /\ WalkOK' /\ ListOK' /\ RefsOK'
  <1>1. /\ "walk" \in uses.ops /\ ~walk.on
        /\ walk' = [on |-> TRUE, seen |-> {}, disturbed |-> FALSE] /\ cursor' = Nil
        /\ uses' = uses /\ T' = T /\ refs' = refs /\ torn' = torn
    BY DEF StartWalk, Does
  <1>2. TableOK(T)
    BY Parts
  <1>3. FindIndex(T, Nil) = {0}
    BY DEF FindIndex
  <1>4. SeenTo(T, {}, 0)
    <2>1. \A i \in Indexes(T) : i \in Nat /\ ~(i <= 0)
      BY <1>2, IndexIs DEF Indexes
    <2> QED
      BY <2>1 DEF SeenTo
  <1>5. At(T, Nil, {})
    BY <1>3, <1>4 DEF At
  <1>6. WalkOK'
    BY <1>1, <1>5 DEF WalkOK, Walks
  <1>7. Map!StartWalk
    <2>1. [Map!NoWalk EXCEPT !.on = TRUE] = [on |-> TRUE, seen |-> {}, disturbed |-> FALSE]
      <3>1. \A a, b, c, d : [[on |-> a, seen |-> b, disturbed |-> c] EXCEPT !.on = d]
                            = [on |-> d, seen |-> b, disturbed |-> c]
        OBVIOUS
      <3> DEFINE y == TRUE
                 n == FALSE
                 e == {}
      <3>2. Map!NoWalk = [on |-> n, seen |-> e, disturbed |-> n]
        BY DEF Map!NoWalk
      <3> HIDE DEF y, n, e
      <3>3. [Map!NoWalk EXCEPT !.on = y] = [on |-> y, seen |-> e, disturbed |-> n]
        BY <3>1, <3>2
      <3> QED
        BY <3>3 DEF y, n, e
    <2>2. Contents' = Contents
      BY <1>1 DEF Contents
    <2> QED
      BY <1>1, <2>1, <2>2 DEF Map!StartWalk
  <1> QED
    BY <1>1, <1>6, <1>7, UsedFor DEF ListOK, RefsOK

\* The empty table is the empty map.
LEMMA InitImplements == Init => Map!Init /\ PromiseInvariant
  <1> SUFFICES ASSUME Init PROVE Map!Init /\ PromiseInvariant
    OBVIOUS
  <1>1. TableInvariant
    BY InitKeeps
  <1>2. /\ T = Fresh(<<>>, 0) /\ walk = [on |-> FALSE, seen |-> {}, disturbed |-> FALSE]
        /\ refs = [r \in {} |-> Nil] /\ torn = FALSE
    BY DEF Init
  <1>3. TableOK(T) /\ HashOK(T)
    BY <1>1, <1>2, Parts
  <1>4. <<>> \in Seq(Vals) /\ Len(<<>>) = 0
    OBVIOUS
  <1>5. T.arr = <<>> /\ Size(T) = 0
    BY <1>2, <1>4, FreshIs
  <1>6. \A i \in NodesOf(T) : FALSE
    BY <1>5 DEF NodesOf
  <1>7. ASSUME NEW k \in Keys
        PROVE  Get(T, k) = Nil
    <2>1. ~InArray(T, k)
      BY <1>4, <1>5 DEF InArray
    <2>2. Get(T, k) # Nil => Entry(T, k, Get(T, k))
      BY <1>3, <2>1, GetHash
    <2> QED
      BY <1>6, <2>2 DEF Entry
  <1>8. Map!Init
    BY <1>2, <1>7 DEF Map!Init, Map!Empty, Map!NoWalk, Contents
  <1>9. WalkOK
    BY <1>2 DEF WalkOK, Walks
  <1>10. 0 \in 0..MaxLen /\ \A k \in Keys : k \notin 1..0
    BY Sizes
  <1>11. Listed(T, 0)
    BY <1>7, <1>10 DEF Listed
  <1>12. RefList(T, 0, 0, <<>>) /\ InUse(T, 0, 0, <<>>, refs)
    <2>1. 0 \in Keys /\ Ints \subseteq Keys /\ \A i \in 1..0 : FALSE
      BY <1>10, RefInts
    <2> QED
      BY <1>2, <1>7, <1>10, <2>1 DEF RefList, InUse
  <1>13. ListOK /\ RefsOK
    BY <1>11, <1>12 DEF ListOK, RefsOK
  <1> QED
    BY <1>1, <1>8, <1>9, <1>13 DEF PromiseInvariant

\* The table of ltable.c, with its two parts, its collisions and its rehashes, is the map
\* a program takes it for: an assignment changes one field, a traversal returns each field
\* once, table.insert and table.remove move the elements of a list, and a reference that
\* is handed out is not in use.
THEOREM TableImplementsMap == Spec => MapPromise
  <1>1. ASSUME PromiseInvariant, [Next]_vars
        PROVE  [Map!Next]_(Map!tablemap) /\ PromiseInvariant'
    <2> USE DEF PromiseInvariant
    <2>1. TableInvariant /\ WalkOK /\ ListOK /\ RefsOK /\ TableInvariant'
      BY <1>1, TableInvariantIsInductive
    <2> HIDE DEF PromiseInvariant
    <2>2. ASSUME WalkOK' /\ ListOK' /\ RefsOK'
          PROVE  PromiseInvariant'
      BY <2>1, <2>2 DEF PromiseInvariant
    <2>3. ASSUME NEW s \in SeqOf(uses.vals, MaxLen), NEW n \in {0, 3}, Create(s, n)
          PROVE  Map!Next /\ PromiseInvariant'
      BY <2>1, <2>2, <2>3, CreateImplements DEF Map!Next
    <2>4. ASSUME ~torn, NEW k \in uses.keys, NEW v \in uses.vals \cup {Nil}, RawSet(k, v) \/ SetTable(k, v)
          PROVE  Map!Next /\ PromiseInvariant'
      <3>1. /\ k \in Keys /\ v \in Values \cup {Nil} /\ (Map!Assign(k, v) \/ Map!Redirect(k))
            /\ WalkOK' /\ ListOK' /\ RefsOK'
        BY <2>1, <2>4, RawSetImplements, SetTableImplements
      <3> QED
        BY <2>2, <3>1 DEF Map!Next
    <2>5. ASSUME ~torn, NEW k \in uses.keys, SetFails(k)
          PROVE  Map!Next /\ PromiseInvariant'
      BY <2>1, <2>2, <2>5, SetFailsImplements DEF Map!Next
    <2>6. ASSUME ~torn, NEW k \in uses.keys, TRemove(k)
          PROVE  Map!Next /\ PromiseInvariant'
      <3>1. k \in Ints /\ Map!RemoveElement(k) /\ ListOK'
        BY <2>1, <2>6, TRemoveImplements
      <3>2. WalkOK' /\ RefsOK'
        <4>1. "list" \in uses.ops /\ uses' = uses /\ walk' = walk
          BY <2>6 DEF TRemove, Watched, Does
        <4> QED
          BY <2>1, <4>1, NotBoth DEF WalkOK, RefsOK
      <3> QED
        BY <2>2, <3>1, <3>2 DEF Map!Next
    <2>7. ASSUME ~torn, NEW k \in uses.keys, LuaLUnref(k)
          PROVE  Map!Next /\ PromiseInvariant'
      <3>1. k \in Ints /\ Map!Unref(k) /\ RefsOK'
        BY <2>1, <2>7, LuaLUnrefImplements
      <3>2. WalkOK' /\ ListOK'
        <4>1. "refs" \in uses.ops /\ uses' = uses /\ walk' = walk
          BY <2>7 DEF LuaLUnref, Does
        <4> QED
          BY <2>1, <4>1, NotBoth DEF WalkOK, ListOK
      <3> QED
        BY <2>2, <3>1, <3>2 DEF Map!Next
    <2>8. ASSUME ~torn, NEW k \in uses.keys, NEW v \in uses.vals, TInsert(k, v)
          PROVE  Map!Next /\ PromiseInvariant'
      <3>1. k \in Ints /\ Map!InsertElement(k, v) /\ ListOK' /\ v \in Values
        BY <2>1, <2>8, TInsertImplements, Parts
      <3>2. WalkOK' /\ RefsOK'
        <4>1. "list" \in uses.ops /\ uses' = uses /\ walk' = walk
          BY <2>8 DEF TInsert, Watched, Does
        <4> QED
          BY <2>1, <4>1, NotBoth DEF WalkOK, RefsOK
      <3> QED
        BY <2>2, <3>1, <3>2 DEF Map!Next
    <2>9. ASSUME ~torn, NEW v \in uses.vals, LuaLRef(v)
          PROVE  Map!Next /\ PromiseInvariant'
      <3>1. (\E r \in Ints : Map!Ref(r, v)) /\ RefsOK' /\ v \in Values
        BY <2>1, <2>9, LuaLRefImplements, Parts
      <3>2. WalkOK' /\ ListOK'
        <4>1. "refs" \in uses.ops /\ uses' = uses /\ walk' = walk
          BY <2>9 DEF LuaLRef, Does
        <4> QED
          BY <2>1, <4>1, NotBoth DEF WalkOK, ListOK
      <3> QED
        BY <2>2, <3>1, <3>2 DEF Map!Next
    <2>10. ASSUME ~torn, GetTable \/ Collect
           PROVE  UNCHANGED Map!tablemap /\ PromiseInvariant'
      BY <1>1, <2>10, UnseenImplements
    <2>11. ASSUME ~torn, StartWalk
           PROVE  Map!Next /\ PromiseInvariant'
      BY <2>1, <2>2, <2>11, StartWalkImplements DEF Map!Next
    <2>12. ASSUME ~torn, LuaNext
           PROVE  Map!Next /\ PromiseInvariant'
      <3>1. ((\E k \in Keys : Map!Visit(k)) \/ Map!EndWalk) /\ WalkOK'
        BY <2>1, <2>12, LuaNextImplements
      <3>2. ListOK' /\ RefsOK'
        <4>1. walk.on /\ uses' = uses
          BY <2>12 DEF LuaNext
        <4>2. "walk" \in uses.ops
          BY <2>1, <4>1 DEF WalkOK
        <4> QED
          BY <2>1, <4>1, <4>2, NotBoth DEF ListOK, RefsOK
      <3> QED
        BY <2>2, <3>1, <3>2 DEF Map!Next
    <2>13. CASE UNCHANGED vars
      <3>1. uses' = uses /\ T' = T /\ cursor' = cursor /\ walk' = walk /\ refs' = refs /\ torn' = torn
        BY <2>13 DEF vars
      <3>2. Contents' = Contents /\ ListOK' /\ RefsOK'
        BY <2>1, <3>1, NothingSeen
      <3>3. WalkOK'
        BY <2>1, <3>1 DEF WalkOK
      <3> QED
        BY <2>2, <3>1, <3>2, <3>3 DEF Map!tablemap
    <2>14. CASE Next
      BY <2>3, <2>4, <2>5, <2>6, <2>7, <2>8, <2>9, <2>10, <2>11, <2>12, <2>14 DEF Next
    <2> QED
      BY <1>1, <2>13, <2>14
  <1> QED
    BY <1>1, InitImplements, PTL DEF Spec, MapPromise, Map!Spec
=============================================================================
