------------------------------ MODULE TableMap ------------------------------
(***************************************************************************)
(* What a program may rely on when it uses a Lua table: a map, that can be *)
(* traversed while fields of it change or go, that can be used as a list   *)
(* (table.insert and table.remove) and that can hand out references        *)
(* (luaL_ref).  Module LuaTable has the array and the hash of ltable.c,    *)
(* and is checked to implement this specification.                         *)
(***************************************************************************)
EXTENDS Naturals, FiniteSets, Functions

CONSTANTS
    Keys, Ints,    \* the keys, and those of them that are integers
    Values, Nil

VARIABLES
    map,        \* key |-> its value, or Nil
    walk,       \* the traversal: is there one, the keys it has returned, and
                \* was a field assigned that the table did not have?
    refs,       \* reference handed out |-> the value it stands for
    torn        \* did an assignment fail for want of memory?
tablemap == <<map, walk, refs, torn>>

NoWalk == [on |-> FALSE, seen |-> {}, disturbed |-> FALSE]
Empty == [k \in Keys |-> Nil]
Present(m) == {k \in Keys : m[k] # Nil}
Length(m) == Cardinality(Present(m))
IsList(m) == Present(m) = 1..Length(m)

\* Another table, empty or a list, in place of one that is empty or given up.
New ==
    /\ torn \/ map = Empty
    /\ walk' = NoWalk /\ refs' = [r \in {} |-> Nil] /\ torn' = FALSE
    /\ IsList(map')

\* t[k] = v; only the field k changes.
Assign(k, v) ==
    /\ UNCHANGED <<refs, torn>>
    /\ map'[k] = v /\ \A j \in Keys \ {k} : map'[j] = map[j]
    /\ walk' = [walk EXCEPT !.disturbed = @ \/ (walk.on /\ map[k] = Nil)]

\* An assignment to a field that is absent, which a metamethod takes over.
Redirect(k) ==
    /\ map[k] = Nil
    /\ walk' = [walk EXCEPT !.disturbed = @ \/ walk.on]
    /\ UNCHANGED <<refs, torn, map>>

\* The fields a program can name are no longer to be relied on.
RunOutOfMemory ==
    /\ torn' = TRUE
    /\ UNCHANGED <<walk, refs>>

StartWalk == ~walk.on /\ walk' = [NoWalk EXCEPT !.on = TRUE] /\ UNCHANGED <<map, refs, torn>>

\* next: every field present is returned, once.
Visit(k) ==
    /\ walk.on /\ (~walk.disturbed => k \in Present(map) \ walk.seen)
    /\ walk' = [walk EXCEPT !.seen = @ \cup {k}]
    /\ UNCHANGED <<map, refs, torn>>
EndWalk ==
    /\ walk.on /\ (~walk.disturbed => Present(map) \subseteq walk.seen)
    /\ walk' = NoWalk
    /\ UNCHANGED <<map, refs, torn>>

\* The list before position pos, then the elements that List gives.
Splice(pos, n, List(_)) ==
    [k \in Keys |-> IF k \in Ints /\ k \in 1..n
                    THEN IF k < pos THEN map[k] ELSE List(k) ELSE Nil]
InsertElement(pos, v) ==
    /\ UNCHANGED <<walk, refs, torn>>
    /\ IsList(map) /\ pos \in 1..(Length(map) + 1)
    /\ map'[pos] = v
    /\ map' = Splice(pos, Length(map) + 1, LAMBDA k : IF k = pos THEN v ELSE map[k - 1])
RemoveElement(pos) ==
    /\ UNCHANGED <<walk, refs, torn>>
    /\ IsList(map) /\ pos \in 1..Length(map)
    /\ map' = Splice(pos, Length(map) - 1, LAMBDA k : map[k + 1])

\* A reference that is not in use, and the others stay what they are.
Ref(r, v) ==
    /\ r \in Ints \ (DOMAIN refs \cup {0})
    /\ refs' = [x \in DOMAIN refs \cup {r} |-> IF x = r THEN v ELSE refs[x]]
    /\ \A x \in DOMAIN refs' : map'[x] = refs'[x]
    /\ UNCHANGED <<walk, torn>>
Unref(r) ==
    /\ r \in DOMAIN refs
    /\ refs' = Restrict(refs, DOMAIN refs \ {r})
    /\ \A x \in DOMAIN refs' : map'[x] = refs'[x]
    /\ UNCHANGED <<walk, torn>>

Init == map = Empty /\ walk = NoWalk /\ refs = [r \in {} |-> Nil] /\ torn = FALSE

Next ==
    \/ \E k \in Keys : Redirect(k) \/ Visit(k) \/ \E v \in Values \cup {Nil} : Assign(k, v)
    \/ StartWalk \/ EndWalk \/ RunOutOfMemory \/ New
    \/ \E p \in Ints : RemoveElement(p) \/ Unref(p) \/ \E v \in Values : InsertElement(p, v) \/ Ref(p, v)

Spec == Init /\ [][Next]_tablemap
============================================================================
