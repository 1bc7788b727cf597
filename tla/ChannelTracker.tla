-------------------------- MODULE ChannelTracker ---------------------------
(* irc.ChannelTracker: the channels a client is on and their members, as the *)
(* messages of the server tell of them.  A handler takes the tracker T and   *)
(* returns what the message makes of it.                                     *)
(*   chanstates: channel |-> key of a nick |-> member, its mode and prefix.  *)
(*   memberprefixes: key |-> prefix; the table is weak: it alone does not    *)
(*   keep a prefix.                                                          *)
(*   nick: prefix |-> its field nick.  Prefixes are objects, and shared:     *)
(*   a natural number each.                                                  *)
(* Key is the case mapping: names that differ in case only have one key.     *)
EXTENDS Naturals, FiniteSetsExt, Functions

CONSTANTS Nicks, Chans, Key

NewTracker == [chanstates |-> <<>>, memberprefixes |-> <<>>, nick |-> <<>>]

With(f, x, y) == [z \in DOMAIN f \cup {x} |-> IF z = x THEN y ELSE f[z]]
Without(f, x) == Restrict(f, DOMAIN f \ {x})
Member(prefix, mode) == [prefix |-> prefix, mode |-> mode]

Held(T) == UNION {{T.chanstates[c][k].prefix : k \in DOMAIN T.chanstates[c]} :
                     c \in DOMAIN T.chanstates}
\* what nothing refers to is gone
Tidy(T) == [T EXCEPT !.nick = Restrict(@, Held(T) \cup Range(T.memberprefixes))]

NewPrefix(T) == Min((1..Cardinality(DOMAIN T.nick) + 1) \ DOMAIN T.nick)
Put(T, c, k, member) == [T EXCEPT !.chanstates[c] = With(@, k, member)]

\* the prefix of a nick in memberprefixes, which it enters if it is not there
Registered(T, n) ==
    IF Key[n] \in DOMAIN T.memberprefixes THEN T
    ELSE [T EXCEPT !.memberprefixes = With(@, Key[n], NewPrefix(T)),
                   !.nick = With(@, NewPrefix(T), n)]

OnOwnJoin(T, c, me) ==
    LET R == Registered(T, me)
        chan == [k \in {Key[me]} |-> Member(R.memberprefixes[k], {})]
    IN Tidy([R EXCEPT !.chanstates = With(@, c, chan)])

\* The member gets the prefix of the message, also where another one is
\* registered for the nick.
OnJoin(T, c, n) ==
    LET known == Key[n] \in DOMAIN T.memberprefixes
        R == IF known THEN [T EXCEPT !.nick = With(@, NewPrefix(T), n)] ELSE Registered(T, n)
    IN IF c \notin DOMAIN T.chanstates THEN T
       ELSE Tidy(Put(R, c, Key[n], Member(NewPrefix(T), {})))

\* PART and KICK of the client itself, and of another member
OnOwnLeave(T, c) == Tidy([T EXCEPT !.chanstates = Without(@, c)])
OnLeave(T, c, n) ==
    IF c \in DOMAIN T.chanstates THEN Tidy([T EXCEPT !.chanstates[c] = Without(@, Key[n])]) ELSE T
OnQuit(T, n) == Tidy([T EXCEPT !.chanstates = [c \in DOMAIN @ |-> Without(@[c], Key[n])]])

\* An assignment to two entries of a table, t[new], t[old] = t[old], nil: the
\* program Lua makes of it assigns to the last one first.
MovedInOrder(f, old, new) == Without(With(f, new, f[old]), old)   \* faulty: the first one first
Moved(f, old, new) == With(Without(f, old), new, f[old])

OnNick(T, n, to) ==
    LET moves(members) == IF Key[n] \in DOMAIN members THEN Moved(members, Key[n], Key[to]) ELSE members
    IN IF Key[n] \notin DOMAIN T.memberprefixes THEN T
       ELSE Tidy([T EXCEPT !.memberprefixes = Moved(@, Key[n], Key[to]),
                           !.nick[T.memberprefixes[Key[n]]] = to,
                           !.chanstates = [c \in DOMAIN @ |-> moves(@[c])]])

\* MODE with one change of a member
OnMode(T, c, n, mode, positive) ==
    IF c \notin DOMAIN T.chanstates THEN T
    ELSE IF Key[n] \notin DOMAIN T.chanstates[c] THEN T
    ELSE [T EXCEPT !.chanstates[c][Key[n]].mode = IF positive THEN @ \cup {mode} ELSE @ \ {mode}]

\* 353: one name, with its mode, and all of them
OnName(T, c, n, mode) ==
    LET R == Registered(T, n)
    IN IF Key[n] \in DOMAIN T.chanstates[c]
       THEN [T EXCEPT !.chanstates[c][Key[n]].mode = mode]
       ELSE Put(R, c, Key[n], Member(R.memberprefixes[Key[n]], mode))
OnNames(T, c, modes) ==
    IF c \notin DOMAIN T.chanstates THEN T
    ELSE Tidy(FoldSet(LAMBDA n, R : OnName(R, c, n, modes[n]), T, DOMAIN modes))

\* the state handler: a new connection starts with no channel
OnConnected(T) == Tidy([T EXCEPT !.chanstates = <<>>])

\* the garbage collector, for the entry of k
Collectable(T, k) == k \in DOMAIN T.memberprefixes /\ T.memberprefixes[k] \notin Held(T)
Collected(T, k) == Tidy([T EXCEPT !.memberprefixes = Without(@, k)])
=============================================================================
