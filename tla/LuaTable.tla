------------------------------ MODULE LuaTable ------------------------------
(***************************************************************************)
(* A Lua table as ltable.c keeps it: an array part, a hash part of nodes   *)
(* chained by their indices (Brent's variation), and the flags in which    *)
(* ltm.c remembers the metamethods a metatable does not have.  The table   *)
(* may be its own metatable.  Its users are lua_next, table.insert,        *)
(* table.remove, luaL_ref and the instructions that index and construct.   *)
(***************************************************************************)
EXTENDS Integers, Sequences, SequencesExt, FiniteSets, FiniteSetsExt, Functions

CONSTANTS
    Ints,          \* the integers among the keys
    Names,         \* the other keys: they are strings, and collectable
    Events,        \* of these the names of the fast metamethods, __index and __newindex
    INDEX, NEWINDEX,
    NumHash,       \* integer |-> what hashnum makes of its bits
    StrHash,       \* string |-> its hash
    Values, Nil,
    MaxBits,       \* the array part has at most twoto[MaxBits] slots (MAXBITS)
    MaxInt,        \* the largest int (MAX_INT)
    MaxLen,        \* bound: length of a list, and of a constructor
    Programs       \* what the programs do with the table

Keys == Ints \cup Names
Operations == {"assign", "walk", "meta", "list", "refs", "no memory"}
twoto[i \in Nat] == IF i = 0 THEN 1 ELSE 2 * twoto[i - 1]
ASSUME Sizes ==
    /\ Ints \subseteq Int /\ Names \cap Int = {} /\ Nil \notin Values \cup Keys \cup Int
    /\ 0..MaxLen \subseteq Ints /\ 1..twoto[MaxBits] \subseteq Ints
    /\ \A k \in Ints : 0..k \subseteq Ints
    /\ \A k \in Ints \ {0} : NumHash[k] \in Nat
    /\ \A k \in Names : StrHash[k] \in Nat
    /\ INDEX \in Events /\ NEWINDEX \in Events /\ Events \subseteq Names
    /\ MaxBits \in Nat /\ MaxInt \in Nat /\ MaxLen \in Nat
    /\ Programs \subseteq [keys : SUBSET Keys, vals : SUBSET Values, ops : SUBSET Operations]
\* A list and a table of references are used as nothing else.
ASSUME UsesApart ==
    \A p \in Programs :
       /\ "list" \in p.ops => p.ops \subseteq {"list", "no memory"}
       /\ "refs" \in p.ops => p.ops \subseteq {"refs", "no memory"}

VARIABLES
    uses,       \* what this program does
    T,          \* the Table
    cursor,     \* the key next is called with, Nil at first
    walk, refs, torn     \* as in TableMap
vars == <<uses, T, cursor, walk, refs, torn>>

Null == -1
FreeNode == [k |-> Nil, dead |-> FALSE, v |-> Nil, next |-> Null]

-----------------------------------------------------------------------------
(* Finding a key.  A table without hash part has no node here: the code has  *)
(* dummynode, which is shared and never written.                             *)

Size(t) == Len(t.node)
Node(t, i) == t.node[i + 1]
NodesOf(t) == 0..(Size(t) - 1)

\* mainposition: hashnum for numbers, hashpow2 for strings.
MainPosition(t, k) ==
    CASE k \in Ints /\ k = 0 -> 0
      [] k \in Ints /\ k # 0 -> NumHash[k] % (IF Size(t) = 1 THEN 1 ELSE Size(t) - 1)
      [] OTHER -> StrHash[k] % Size(t)

\* The first of the nodes S on the chain from the main position of k.
Search(t, k, S) ==
    LET walked[i \in NodesOf(t) \cup {Null}] ==
          IF i = Null \/ i \in S THEN i ELSE walked[Node(t, i).next]
    IN  IF S = {} THEN Null ELSE walked[MainPosition(t, k)]

InArray(t, k) == k \in Ints /\ k \in 1..Len(t.arr)
NodeOf(t, k) == Search(t, k, {i \in NodesOf(t) : Node(t, i).k = k /\ ~Node(t, i).dead})

\* luaH_get.
Get(t, k) ==
    IF InArray(t, k) THEN t.arr[k]
    ELSE LET i == NodeOf(t, k) IN IF i = Null THEN Nil ELSE Node(t, i).v
Has(t, k) == InArray(t, k) \/ NodeOf(t, k) # Null

\* The content of an existing slot; luaH_set forgets the flags.
Store(t, k, v) ==
    IF InArray(t, k) THEN [t EXCEPT !.arr[k] = v, !.flags = {}]
    ELSE [t EXCEPT !.node[NodeOf(t, k) + 1].v = v, !.flags = {}]

-----------------------------------------------------------------------------
(* newkey: a new key goes to its main position; if another key has that one  *)
(* and it is its main position, the new key goes to a free node, and if not, *)
(* the other key does.                                                       *)

\* Mutant: a colliding key always keeps its node.
PlaceInFreeNode(t, k, v) ==
    LET mp == MainPosition(t, k)
        new == [FreeNode EXCEPT !.k = k, !.v = v]
        n == Max({i \in NodesOf(t) : i < t.lastfree /\ Node(t, i).k = Nil})
    IN  IF Node(t, mp).v = Nil
        THEN [t EXCEPT !.node[mp + 1] = [new EXCEPT !.next = Node(t, mp).next]]
        ELSE [t EXCEPT !.node[n + 1] = [new EXCEPT !.next = Node(t, mp).next],
                       !.node[mp + 1].next = n, !.lastfree = n]

\* getfreepos looks below lastfree for a node that never had a key.
FreeNodes(t) == {i \in NodesOf(t) : i < t.lastfree /\ Node(t, i).k = Nil}
Place(t, k, v) ==
    LET mp == MainPosition(t, k)
        there == Node(t, mp)
        n == Max(FreeNodes(t))
        other == MainPosition(t, there.k)
        before == Search(t, there.k, {i \in NodesOf(t) : Node(t, i).next = mp})
        new == [FreeNode EXCEPT !.k = k, !.v = v]
        taken == [t EXCEPT !.lastfree = n]
    IN  CASE there.v = Nil -> [t EXCEPT !.node[mp + 1] = [new EXCEPT !.next = there.next]]
          [] there.v # Nil /\ other # mp ->
               [taken EXCEPT !.node = [@ EXCEPT ![before + 1].next = n, ![n + 1] = there,
                                                ![mp + 1] = new]]
          [] there.v # Nil /\ other = mp ->
               [taken EXCEPT !.node = [@ EXCEPT ![n + 1] = [new EXCEPT !.next = there.next],
                                                ![mp + 1].next = n]]
HasRoom(t, k) ==
    Size(t) > 0 /\ (Node(t, MainPosition(t, k)).v = Nil \/ FreeNodes(t) # {})

\* luaH_set and the assignment, for a key there is a slot for.
PutIn(t, k, v) == IF Has(t, k) THEN Store(t, k, v) ELSE Place([t EXCEPT !.flags = {}], k, v)

-----------------------------------------------------------------------------
(* Rehash.                                                                   *)

Slots(n) == {twoto[i] : i \in 0..n}
PowerOf2(n) == Min({p \in Slots(n) : p >= n})     \* twoto(ceillog2(n))

\* numusearray, numusehash and countint: the integer keys in use that may live
\* in the array, with the key ek that there is no slot for.
UsedInts(t, ek) ==
    {k \in {i \in 1..Len(t.arr) : t.arr[i] # Nil}
           \cup {Node(t, i).k : i \in {j \in NodesOf(t) : Node(t, j).v # Nil}} \cup {ek} :
        k \in Ints /\ k \in 1..twoto[MaxBits]}
UsedNodes(t) == Cardinality({i \in NodesOf(t) : Node(t, i).v # Nil})
Used(t) == Cardinality({i \in 1..Len(t.arr) : t.arr[i] # Nil}) + UsedNodes(t) + 1

\* computesizes: the largest array more than half of which is in use.
UpTo(S, n) == Cardinality({k \in S : k <= n})
ArraySize(S) == Max({0} \cup {n \in Slots(MaxBits) : 2 * UpTo(S, n) > n})

NoNodes(n) == IF n = 0 THEN <<>> ELSE [i \in 1..PowerOf2(n) |-> FreeNode]
Resized(arr, n) == [i \in 1..n |-> IF i <= Len(arr) THEN arr[i] ELSE Nil]
Fresh(arr, nhash) == [arr |-> arr, node |-> NoNodes(nhash), lastfree |-> Len(NoNodes(nhash)),
                      flags |-> {}]

\* resize: the vanishing slice of the array is inserted again, then the nodes,
\* the last first.
Resize(t, nasize, nhsize) ==
    LET fresh == Fresh(Resized(t.arr, nasize), nhsize)
        slice == [i \in 1..(Len(t.arr) - nasize) |-> nasize + i]
        from(u, i) == IF t.arr[i] # Nil THEN PutIn(u, i, t.arr[i]) ELSE u
        again(u, i) == IF Node(t, i).v # Nil THEN PutIn(u, Node(t, i).k, Node(t, i).v) ELSE u
    IN  FoldLeft(again, FoldLeft(from, fresh, IF Len(t.arr) > nasize THEN slice ELSE <<>>),
                 Reverse([i \in 1..Size(t) |-> i - 1]))

NewArraySize(t, ek) == ArraySize(UsedInts(t, ek))
NewHashSize(t, ek) == Used(t) - UpTo(UsedInts(t, ek), NewArraySize(t, ek))
Rehash(t, ek) == Resize(t, NewArraySize(t, ek), NewHashSize(t, ek))

\* luaH_set, luaH_setnum or luaH_setstr, and the assignment.
Put(t, k, v) ==
    IF Has(t, k) \/ HasRoom(t, k) THEN PutIn(t, k, v) ELSE PutIn(Rehash(t, k), k, v)

\* resize when memory runs out: setarrayvector has not begun, or the array has
\* grown and setnodevector has not begun.
OutOfMemory(t, k) ==
    {[t EXCEPT !.lastfree = 0, !.flags = {}]}
    \cup (IF NewArraySize(t, k) > Len(t.arr) /\ NewHashSize(t, k) > 0
          THEN {[t EXCEPT !.lastfree = 0, !.flags = {}, !.arr = Resized(@, NewArraySize(t, k))]}
          ELSE {})

-----------------------------------------------------------------------------
(* luaH_getn.                                                                *)

\* The binary searches between an index that is present, or zero, and an absent one.
Searched(t, from, to) ==
    LET search[p \in Nat \X Nat] ==
          LET m == (p[1] + p[2]) \div 2
          IN  IF p[2] - p[1] <= 1 THEN p[1]
              ELSE IF Get(t, m) = Nil THEN search[<<p[1], m>>] ELSE search[<<m, p[2]>>]
    IN  search[<<from, to>>]

\* unbound_search: j doubles until it is absent, or too large for an int.
UnboundSearch(t, from) ==
    LET double[j \in Nat] == IF j > MaxInt \/ Get(t, j) = Nil THEN j ELSE double[2 * j]
        first == double[from + 1]
        linear[i \in Nat] == IF Get(t, i) = Nil THEN i - 1 ELSE linear[i + 1]
    IN  IF first > MaxInt THEN linear[1]
        ELSE Searched(t, IF first = from + 1 THEN from ELSE first \div 2, first)

\* Mutant: the hash part is not searched.
GetnOfArray(t) ==
    LET j == Len(t.arr)
    IN  IF j > 0 /\ t.arr[j] = Nil THEN Searched(t, 0, j) ELSE j

Getn(t) ==
    LET j == Len(t.arr)
    IN  CASE j > 0 /\ t.arr[j] = Nil -> Searched(t, 0, j)
          [] (j = 0 \/ t.arr[j] # Nil) /\ Size(t) = 0 -> j
          [] (j = 0 \/ t.arr[j] # Nil) /\ Size(t) > 0 -> UnboundSearch(t, j)

-----------------------------------------------------------------------------
(* luaH_next.                                                                *)

\* Mutant: a key that is dead is not found.
FindIndexAlive(t, k) ==
    CASE k = Nil -> {0}
      [] k # Nil /\ InArray(t, k) -> {k}
      [] k # Nil /\ ~InArray(t, k) -> {Len(t.arr) + 1 + i : i \in {NodeOf(t, k)} \ {Null}}

\* findindex, counted from one: array part, then nodes; a dead key will do.
FindIndex(t, k) ==
    CASE k = Nil -> {0}
      [] k # Nil /\ InArray(t, k) -> {k}
      [] k # Nil /\ ~InArray(t, k) ->
           LET i == Search(t, k, {n \in NodesOf(t) : Node(t, n).k = k})
           IN  {Len(t.arr) + 1 + n : n \in {i} \ {Null}}

KeyAt(t, i) == IF i <= Len(t.arr) THEN i ELSE Node(t, i - Len(t.arr) - 1).k
Filled(t, i) == IF i <= Len(t.arr) THEN t.arr[i] # Nil ELSE Node(t, i - Len(t.arr) - 1).v # Nil
After(t, k) == {i \in 1..(Len(t.arr) + Size(t)) : i > Min(FindIndex(t, k)) /\ Filled(t, i)}

-----------------------------------------------------------------------------
(* The program.                                                              *)

Does(o) == o \in uses.ops
Disturbed(k) == [walk EXCEPT !.disturbed = @ \/ (walk.on /\ Get(T, k) = Nil)]
Watched == <<uses, cursor, refs, torn>>
Fails(k) == ~Has(T, k) /\ ~HasRoom(T, k)

\* OP_SETLIST: the last element first.
SetList(t, s) ==
    LET set(u, i) == Put(u, i, s[i])
    IN  FoldLeft(set, t, Reverse([i \in DOMAIN s |-> i]))

\* lua_createtable, or a constructor (OP_NEWTABLE and OP_SETLIST), at the start and
\* after the program has given up a table.
Create(s, nhash) ==
    /\ torn \/ T = Fresh(<<>>, 0)
    /\ T' = SetList(Resize(Fresh(<<>>, nhash), Len(s), nhash), s)
    /\ cursor' = Nil /\ refs' = [r \in {} |-> Nil] /\ torn' = FALSE
    /\ walk' = [on |-> FALSE, seen |-> {}, disturbed |-> FALSE]
    /\ UNCHANGED uses

\* lua_rawset.
RawSet(k, v) ==
    /\ Does("assign")
    /\ T' = Put(T, k, v)
    /\ walk' = Disturbed(k)
    /\ UNCHANGED Watched

\* fasttm on the table as its own metatable, and luaT_gettm.
NoTM(t, e) == e \in t.flags \/ Get(t, e) = Nil
Remembered(t, e) == [t EXCEPT !.flags = IF NoTM(t, e) THEN @ \cup {e} ELSE @]

\* luaV_gettable of a field that is absent.
GetTable ==
    /\ Does("meta")
    /\ T' = Remembered(T, INDEX)
    /\ UNCHANGED <<walk, Watched>>

\* Mutant: the flags set by the test itself are not reset.
SetTableRemembers(k, v) ==
    LET slot == Put(T, k, Get(T, k))
    IN  /\ Does("meta")
        /\ IF Get(T, k) # Nil THEN T' = Store(slot, k, v)
           ELSE IF NoTM(slot, NEWINDEX)
           THEN T' = [Store(slot, k, v) EXCEPT !.flags = {NEWINDEX}]
           ELSE T' = slot
        /\ walk' = Disturbed(k)
        /\ UNCHANGED Watched

\* luaV_settable: the slot is made before the metamethod is looked for; with one,
\* the table gets no value.
SetTable(k, v) ==
    LET slot == Put(T, k, Get(T, k))
    IN  /\ Does("meta")
        /\ IF Get(T, k) # Nil \/ NoTM(slot, NEWINDEX) THEN T' = Store(slot, k, v)
           ELSE T' = slot
        /\ walk' = Disturbed(k)
        /\ UNCHANGED Watched

\* The assignment needs a rehash, and there is no memory for it.
SetFails(k) ==
    /\ Does("no memory") /\ Fails(k)
    /\ T' \in OutOfMemory(T, k)
    /\ torn' = TRUE
    /\ UNCHANGED <<uses, cursor, walk, refs>>

\* traversetable: keys without a value are dead from now on.
Collect ==
    /\ T' = [T EXCEPT !.node = [i \in DOMAIN @ |->
                [@[i] EXCEPT !.dead = T.node[i].k \in Names /\ T.node[i].v = Nil]]]
    /\ UNCHANGED <<walk, Watched>>

StartWalk ==
    /\ Does("walk") /\ ~walk.on
    /\ walk' = [on |-> TRUE, seen |-> {}, disturbed |-> FALSE]
    /\ cursor' = Nil
    /\ UNCHANGED <<uses, T, refs, torn>>

\* lua_next; it raises an error when the key is not there.
LuaNext ==
    /\ walk.on
    /\ IF FindIndex(T, cursor) # {} /\ After(T, cursor) # {}
       THEN /\ cursor' = KeyAt(T, Min(After(T, cursor)))
            /\ walk' = [walk EXCEPT !.seen = @ \cup {cursor'}]
       ELSE /\ cursor' = Nil
            /\ walk' = [on |-> FALSE, seen |-> {}, disturbed |-> FALSE]
    /\ UNCHANGED <<uses, T, refs, torn>>

\* The loops of tinsert and tremove: the slots is, one after the other, get what is d
\* slots away.
Shifted(t, is, d) ==
    LET move(u, i) == Put(u, i, Get(u, i + d))
    IN  FoldLeft(move, t, is)

\* tinsert: the elements from pos on move up, the last first.
TInsert(pos, v) ==
    LET e == Getn(T) + 1
    IN  /\ Does("list") /\ pos \in 1..e /\ e <= MaxLen
        /\ T' = Put(Shifted(T, Reverse([i \in 1..(e - pos) |-> pos + i]), -1), pos, v)
        /\ UNCHANGED <<walk, Watched>>

\* tremove: the elements after pos move down.
TRemove(pos) ==
    LET e == Getn(T)
    IN  /\ Does("list") /\ pos \in 1..e
        /\ T' = Put(Shifted(T, [i \in 1..(e - pos) |-> pos + i - 1], 1), e, Nil)
        /\ UNCHANGED <<walk, Watched>>

\* luaL_ref and luaL_unref: a list of free references that begins in t[0].
LuaLRef(v) ==
    LET first == Get(T, 0)
        taken == first \in Ints /\ first # 0
        r == IF taken THEN first ELSE Getn(T) + 1
        t == IF taken THEN Put(T, 0, Get(T, first)) ELSE T
    IN  /\ Does("refs") /\ r <= MaxLen
        /\ T' = Put(t, r, v)
        /\ refs' = [x \in DOMAIN refs \cup {r} |-> IF x = r THEN v ELSE refs[x]]
        /\ UNCHANGED <<uses, cursor, walk, torn>>
LuaLUnref(r) ==
    /\ Does("refs") /\ r \in DOMAIN refs
    /\ T' = Put(Put(T, r, Get(T, 0)), 0, r)
    /\ refs' = Restrict(refs, DOMAIN refs \ {r})
    /\ UNCHANGED <<uses, cursor, walk, torn>>

Init ==
    /\ uses \in Programs
    /\ T = Fresh(<<>>, 0) /\ cursor = Nil
    /\ walk = [on |-> FALSE, seen |-> {}, disturbed |-> FALSE]
    /\ refs = [r \in {} |-> Nil] /\ torn = FALSE

Next ==
    \/ \E s \in SeqOf(uses.vals, MaxLen), n \in {0, 3} : Create(s, n)
    \/ /\ ~torn
       /\ \/ \E k \in uses.keys, v \in uses.vals \cup {Nil} : RawSet(k, v) \/ SetTable(k, v)
          \/ \E k \in uses.keys : SetFails(k) \/ TRemove(k) \/ LuaLUnref(k)
          \/ \E k \in uses.keys, v \in uses.vals : TInsert(k, v)
          \/ \E v \in uses.vals : LuaLRef(v)
          \/ GetTable \/ Collect \/ StartWalk \/ LuaNext

Spec == Init /\ [][Next]_vars

-----------------------------------------------------------------------------
Contents == [k \in Keys |-> Get(T, k)]

\* Types of the variables, and the sizes: the number of nodes is a power of two.
TypeOK ==
    /\ \A i \in 1..Len(T.arr) : T.arr[i] \in Values \cup Ints \cup {Nil}
    /\ Size(T) = 0 \/ Size(T) \in Slots(Size(T))
    /\ Len(T.arr) \in {0} \cup Slots(MaxBits) \/ Len(T.arr) <= MaxLen
    /\ T.lastfree \in 0..Size(T) /\ T.flags \subseteq Events
    /\ \A i \in NodesOf(T) :
          /\ Node(T, i).k \in Keys \cup {Nil} /\ Node(T, i).v \in Values \cup Ints \cup {Nil}
          /\ Node(T, i).next \in NodesOf(T) \cup {Null}
    /\ cursor \in Keys \cup {Nil} /\ torn \in BOOLEAN

\* "A main invariant of these tables" (ltable.c:16): if an element is not in its main
\* position, the element it collided with is in its own.
MainInvariant ==
    \A i \in NodesOf(T) :
       LET mp == MainPosition(T, Node(T, i).k)
       IN  Node(T, i).v # Nil /\ mp # i /\ Node(T, mp).v # Nil
              => MainPosition(T, Node(T, mp).k) = mp

\* A table is well formed: its sizes and its chains.
WellFormed == TypeOK /\ MainInvariant

\* luaH_getn returns a border: an index that is present, or zero, before one that is
\* absent, whatever holes there are and wherever the elements live.
BorderFound ==
    /\ Getn(T) = 0 \/ Get(T, Getn(T)) # Nil
    /\ Get(T, Getn(T) + 1) = Nil

\* What the flags say is absent is absent: a metamethod that is set is never missed.
FlagsSound == \A e \in T.flags : Get(T, e) = Nil

\* The table implements the map it stands for.
Map == INSTANCE TableMap WITH map <- Contents
MapPromise == Map!Spec
============================================================================
