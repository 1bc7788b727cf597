--------------------------- MODULE ChannelsProofs ---------------------------
(* For any users, channels, nicks and case mapping: the auto joiner forgets  *)
(* no channel it is to be on, across refusals, kicks, timers, changes of the *)
(* nick and lost connections; and the tracker knows the channels the client  *)
(* is on and their members, whatever is collected in between.                *)
EXTENDS Channels, FiniteSetTheorems, WellFoundedInduction, TLAPS

Names == Chans \cup Range(Key)
Joiners == [rejoining : UNION {[S -> Chans \cup {None}] : S \in SUBSET Names},
            on : SUBSET Chans, listening : BOOLEAN, left : SUBSET Chans]

\* what the server and the client agree on, and the entries of channels: their
\* timers ask for these channels
WorldOK ==
    /\ setting \in Settings
    /\ nickof \in [Others \cup {Me} -> Nicks]
    /\ present = [c \in Chans |-> present[c]]
    /\ wanted \subseteq Chans
JoinerOK ==
    /\ joiner \in Joiners
    /\ joiner.listening = Connected
    /\ \A c \in DOMAIN joiner.rejoining \cap Chans : joiner.rejoining[c] \in {None, c}
NothingForgotten ==
    \A c \in wanted : c \in DOMAIN joiner.rejoining \/ (Me \in On(c) /\ c \in joiner.on)
StillAsking ==
    \A c \in wanted : (Connected /\ Me \notin On(c) /\ c \notin given_up \cup displaced)
                         => c \in requests \cup Running(joiner)
AskInv == WorldOK /\ (setting.joiner => JoinerOK /\ NothingForgotten /\ StillAsking)
-----------------------------------------------------------------------------
(* What the handlers make of a joiner.                                       *)

LEMMA Fields ==
    ASSUME NEW J \in Joiners
    PROVE  /\ J = [rejoining |-> J.rejoining, on |-> J.on, listening |-> J.listening, left |-> J.left]
           /\ J.rejoining = [x \in DOMAIN J.rejoining |-> J.rejoining[x]]
           /\ DOMAIN J.rejoining \subseteq Names
           /\ \A x \in DOMAIN J.rejoining : J.rejoining[x] \in Chans \cup {None}
           /\ J.on \subseteq Chans /\ J.left \subseteq Chans /\ J.listening \in BOOLEAN
  BY DEF Joiners

LEMMA FromFields ==
    ASSUME NEW f, NEW on, NEW listening, NEW left,
           f = [x \in DOMAIN f |-> f[x]], DOMAIN f \subseteq Names,
           \A x \in DOMAIN f : f[x] \in Chans \cup {None},
           on \subseteq Chans, listening \in BOOLEAN, left \subseteq Chans
    PROVE  [rejoining |-> f, on |-> on, listening |-> listening, left |-> left] \in Joiners
  <1>1. f \in [DOMAIN f -> Chans \cup {None}]
    OBVIOUS
  <1>2. f \in UNION {[S -> Chans \cup {None}] : S \in SUBSET Names}
    BY <1>1
  <1> QED
    BY <1>2 DEF Joiners

LEMMA RunningIs ==
    ASSUME NEW J \in Joiners, NEW d
    PROVE  d \in Running(J) <=> (d # None /\ \E k \in DOMAIN J.rejoining : J.rejoining[k] = d) \/ d \in J.left
  BY DEF Running, Range

LEMMA EntryIs ==
    ASSUME NEW J \in Joiners, NEW k \in Names, NEW t \in Chans \cup {None}
    PROVE  /\ Entry(J, k, t) \in Joiners
           /\ DOMAIN Entry(J, k, t).rejoining = DOMAIN J.rejoining \cup {k}
           /\ Entry(J, k, t).rejoining[k] = t
           /\ \A x \in DOMAIN J.rejoining \ {k} : Entry(J, k, t).rejoining[x] = J.rejoining[x]
           /\ Entry(J, k, t).on = J.on /\ Entry(J, k, t).left = J.left
           /\ Entry(J, k, t).listening = J.listening
  <1> DEFINE f == [x \in DOMAIN J.rejoining \cup {k} |-> IF x = k THEN t ELSE J.rejoining[x]]
  <1>1. Entry(J, k, t) = [rejoining |-> f, on |-> J.on, listening |-> J.listening, left |-> J.left]
    BY Fields DEF Entry, Joiners
  <1>2. /\ f = [x \in DOMAIN f |-> f[x]] /\ DOMAIN f \subseteq Names
        /\ \A x \in DOMAIN f : f[x] \in Chans \cup {None}
    BY Fields
  <1>3. Entry(J, k, t) \in Joiners
    <2> HIDE DEF f
    <2>1. J.on \subseteq Chans /\ J.left \subseteq Chans /\ J.listening \in BOOLEAN
      BY Fields
    <2>2. [rejoining |-> f, on |-> J.on, listening |-> J.listening, left |-> J.left] \in Joiners
      BY <1>2, <2>1, FromFields
    <2> QED
      BY <1>1, <2>2
  <1> QED
    BY <1>1, <1>3

LEMMA NoEntryIs ==
    ASSUME NEW J \in Joiners, NEW k
    PROVE  /\ NoEntry(J, k) \in Joiners
           /\ DOMAIN NoEntry(J, k).rejoining = DOMAIN J.rejoining \ {k}
           /\ \A x \in DOMAIN J.rejoining \ {k} : NoEntry(J, k).rejoining[x] = J.rejoining[x]
           /\ NoEntry(J, k).on = J.on /\ NoEntry(J, k).left = J.left
           /\ NoEntry(J, k).listening = J.listening
  <1> DEFINE f == [x \in DOMAIN J.rejoining \ {k} |-> J.rejoining[x]]
  <1>1. NoEntry(J, k) = [rejoining |-> f, on |-> J.on, listening |-> J.listening, left |-> J.left]
    BY Fields DEF NoEntry, Restrict, Joiners
  <1>2. /\ f = [x \in DOMAIN f |-> f[x]] /\ DOMAIN f \subseteq Names
        /\ \A x \in DOMAIN f : f[x] \in Chans \cup {None}
    BY Fields
  <1>3. NoEntry(J, k) \in Joiners
    <2> HIDE DEF f
    <2>1. J.on \subseteq Chans /\ J.left \subseteq Chans /\ J.listening \in BOOLEAN
      BY Fields
    <2>2. [rejoining |-> f, on |-> J.on, listening |-> J.listening, left |-> J.left] \in Joiners
      BY <1>2, <2>1, FromFields
    <2> QED
      BY <1>1, <2>2
  <1> QED
    BY <1>1, <1>3

\* the fields on and left, alone
LEMMA OnIs ==
    ASSUME NEW J \in Joiners, NEW on \in SUBSET Chans, NEW left \in SUBSET Chans
    PROVE  /\ [J EXCEPT !.on = on] = [rejoining |-> J.rejoining, on |-> on, listening |-> J.listening, left |-> J.left]
           /\ [J EXCEPT !.on = on] \in Joiners
           /\ [J EXCEPT !.left = left] = [rejoining |-> J.rejoining, on |-> J.on, listening |-> J.listening, left |-> left]
           /\ [J EXCEPT !.left = left] \in Joiners
  BY DEF Joiners
LEMMA OwnJoinIs ==
    ASSUME NEW J \in Joiners, NEW c \in Chans
    PROVE  LET K == OwnJoin(J, c) IN
           /\ K \in Joiners /\ K.on = J.on \cup {c} /\ K.left = J.left /\ K.listening = J.listening
           /\ DOMAIN K.rejoining = DOMAIN J.rejoining \ {c}
           /\ \A x \in DOMAIN J.rejoining \ {c} : K.rejoining[x] = J.rejoining[x]
  <1> DEFINE N == NoEntry(J, c)
             K == [rejoining |-> N.rejoining, on |-> N.on \cup {c}, listening |-> N.listening, left |-> N.left]
  <1>1. N \in Joiners
    BY NoEntryIs
  <1>2. OwnJoin(J, c) = K
    BY <1>1 DEF OwnJoin, Joiners
  <1>3. K \in Joiners
    <2>1. N.on \cup {c} \subseteq Chans
      BY <1>1, Fields
    <2>2. [N EXCEPT !.on = N.on \cup {c}] = K /\ [N EXCEPT !.on = N.on \cup {c}] \in Joiners
      <3> HIDE DEF N
      <3> QED
        BY <1>1, <2>1, OnIs
    <2> QED
      BY <2>2
  <1> QED
    BY <1>2, <1>3, NoEntryIs

LEMMA OwnPartIs ==
    ASSUME NEW J \in Joiners, NEW c \in Chans
    PROVE  LET K == OwnPart(J, c) IN
           /\ K \in Joiners /\ K.on = J.on \ {c} /\ K.left = J.left /\ K.listening = J.listening
           /\ DOMAIN K.rejoining = DOMAIN J.rejoining \ {c}
           /\ \A x \in DOMAIN J.rejoining \ {c} : K.rejoining[x] = J.rejoining[x]
  <1> DEFINE N == NoEntry(J, c)
             K == [rejoining |-> N.rejoining, on |-> N.on \ {c}, listening |-> N.listening, left |-> N.left]
  <1>1. N \in Joiners
    BY NoEntryIs
  <1>2. OwnPart(J, c) = K
    BY <1>1 DEF OwnPart, Joiners
  <1>3. K \in Joiners
    <2>1. N.on \ {c} \subseteq Chans
      BY <1>1, Fields
    <2>2. [N EXCEPT !.on = N.on \ {c}] = K /\ [N EXCEPT !.on = N.on \ {c}] \in Joiners
      <3> HIDE DEF N
      <3> QED
        BY <1>1, <2>1, OnIs
    <2> QED
      BY <2>2
  <1> QED
    BY <1>2, <1>3, NoEntryIs

\* a kick, with k = c, and a refusal, with k the name of the client
LEMMA NewTimerIs ==
    ASSUME NEW J \in Joiners, NEW k \in Names, NEW c \in Chans
    PROVE  LET K == [Entry(J, k, c) EXCEPT !.on = @ \ {k}] IN
           /\ K \in Joiners /\ K.on = J.on \ {k} /\ K.left = J.left /\ K.listening = J.listening
           /\ DOMAIN K.rejoining = DOMAIN J.rejoining \cup {k}
           /\ K.rejoining[k] = c
           /\ \A x \in DOMAIN J.rejoining \ {k} : K.rejoining[x] = J.rejoining[x]
  <1> DEFINE N == Entry(J, k, c)
             K == [rejoining |-> N.rejoining, on |-> N.on \ {k}, listening |-> N.listening, left |-> N.left]
  <1>1. N \in Joiners
    BY EntryIs
  <1>2. [Entry(J, k, c) EXCEPT !.on = @ \ {k}] = K
    BY <1>1 DEF Joiners
  <1>3. K \in Joiners
    <2>1. N.on \ {k} \subseteq Chans
      BY <1>1, Fields
    <2>2. [N EXCEPT !.on = N.on \ {k}] = K /\ [N EXCEPT !.on = N.on \ {k}] \in Joiners
      <3> HIDE DEF N
      <3> QED
        BY <1>1, <2>1, OnIs
    <2> QED
      BY <2>2
  <1> QED
    BY <1>1, <1>2, <1>3, EntryIs DEF Joiners

LEMMA AddChannelIs ==
    ASSUME NEW J \in Joiners, NEW c \in Chans
    PROVE  LET K == AddChannel(J, c) IN
           /\ K \in Joiners /\ K.on = J.on /\ K.listening = J.listening
           /\ K.left = J.left \cup (IF c \in DOMAIN J.rejoining THEN {J.rejoining[c]} \ {None} ELSE {})
           /\ DOMAIN K.rejoining = DOMAIN J.rejoining \cup {c}
           /\ K.rejoining[c] = None
           /\ \A x \in DOMAIN J.rejoining \ {c} : K.rejoining[x] = J.rejoining[x]
  <1> DEFINE N == Entry(J, c, None)
             left == N.left \cup ({TimerOf(J, c)} \ {None})
             K == [rejoining |-> N.rejoining, on |-> N.on, listening |-> N.listening, left |-> left]
  <1>1. c \in Names /\ N \in Joiners
    BY EntryIs DEF Names
  <1>2. AddChannel(J, c) = K
    BY <1>1 DEF AddChannel, Joiners
  <1>3. TimerOf(J, c) = IF c \in DOMAIN J.rejoining THEN J.rejoining[c] ELSE None
    BY DEF TimerOf
  <1>4. left \subseteq Chans
    <2>1. N.left = J.left
      BY <1>1, EntryIs
    <2>2. J.left \subseteq Chans
      BY Fields
    <2>3. TimerOf(J, c) \in Chans \cup {None}
      <3>1. \A x \in DOMAIN J.rejoining : J.rejoining[x] \in Chans \cup {None}
        BY Fields
      <3> QED
        BY <1>3, <3>1
    <2> QED
      BY <2>1, <2>2, <2>3
  <1>5. K \in Joiners
    <2>1. [N EXCEPT !.left = left] = K /\ [N EXCEPT !.left = left] \in Joiners
      <3> HIDE DEF N, left
      <3> QED
        BY <1>1, <1>4, OnIs
    <2> QED
      BY <2>1
  <1> QED
    BY <1>1, <1>2, <1>3, <1>5, EntryIs

LEMMA FiredLeftIs ==
    ASSUME NEW J \in Joiners, NEW c
    PROVE  LET K == FiredLeft(J, c) IN
           /\ K \in Joiners /\ K.on = J.on /\ K.left = J.left \ {c} /\ K.listening = J.listening
           /\ K.rejoining = J.rejoining
  BY DEF FiredLeft, Joiners

LEMMA JoinerConnectedIs ==
    ASSUME NEW J \in Joiners
    PROVE  LET K == JoinerConnected(J) IN
           /\ K \in Joiners /\ K.on = J.on /\ K.left = J.left /\ K.listening = TRUE
           /\ K.rejoining = J.rejoining
  BY DEF JoinerConnected, Joiners

LEMMA ConnectionLostIs ==
    ASSUME NEW J \in Joiners
    PROVE  LET K == ConnectionLost(J) IN
           /\ K \in Joiners /\ K.on = J.on /\ K.listening = FALSE
           /\ DOMAIN K.rejoining = DOMAIN J.rejoining \cup J.on
           /\ \A k \in DOMAIN K.rejoining :
                K.rejoining[k] = IF k \in J.on THEN None ELSE J.rejoining[k]
  <1> DEFINE f == [k \in DOMAIN J.rejoining \cup J.on |-> IF k \in J.on THEN None ELSE J.rejoining[k]]
             left == J.left \cup ({TimerOf(J, k) : k \in J.on} \ {None})
  <1>1. ConnectionLost(J) = [rejoining |-> f, on |-> J.on, listening |-> FALSE, left |-> left]
    BY DEF ConnectionLost
  <1>2. /\ f = [x \in DOMAIN f |-> f[x]] /\ DOMAIN f \subseteq Names
        /\ \A x \in DOMAIN f : f[x] \in Chans \cup {None}
    BY Fields DEF Names
  <1>3. left \subseteq Chans
    <2>1. \A k \in DOMAIN J.rejoining : J.rejoining[k] \in Chans \cup {None}
      BY Fields
    <2>2. \A k : TimerOf(J, k) \in Chans \cup {None}
      BY <2>1 DEF TimerOf
    <2>3. J.left \subseteq Chans
      BY Fields
    <2> QED
      BY <2>2, <2>3
  <1>4. ConnectionLost(J) \in Joiners
    <2> HIDE DEF f, left
    <2>1. J.on \subseteq Chans
      BY Fields
    <2>2. [rejoining |-> f, on |-> J.on, listening |-> FALSE, left |-> left] \in Joiners
      BY <1>2, <1>3, <2>1, FromFields
    <2> QED
      BY <1>1, <2>2
  <1> QED
    BY <1>1, <1>4
-----------------------------------------------------------------------------
(* What goes on on the server does not concern the joiner.                   *)

LEMMA WithDomain == ASSUME NEW f, NEW x, NEW y PROVE DOMAIN With(f, x, y) = DOMAIN f \cup {x}
  BY DEF With

LEMMA WithoutDomain == ASSUME NEW f, NEW x PROVE DOMAIN Without(f, x) = DOMAIN f \ {x}
  BY DEF Without, Restrict

LEMMA SilentKeeps ==
    ASSUME AskInv, UNCHANGED <<connection, requests, joiner, wanted, given_up, displaced>>,
           nickof' \in [Others \cup {Me} -> Nicks],
           present' = [c \in Chans |-> present'[c]],
           \A c \in Chans : Me \in On(c)' <=> Me \in On(c)
    PROVE  AskInv'
  <1>1. UNCHANGED <<setting, state>>
    BY DEF connection
  <1>2. WorldOK'
    BY <1>1 DEF AskInv, WorldOK, Others
  <1>3. ASSUME setting.joiner PROVE (JoinerOK /\ NothingForgotten /\ StillAsking)'
    <2>1. JoinerOK /\ NothingForgotten /\ StillAsking /\ wanted \subseteq Chans
      BY <1>3 DEF AskInv, WorldOK
    <2>2. JoinerOK'
      BY <1>1, <2>1 DEF JoinerOK, Connected
    <2>3. NothingForgotten'
      BY <2>1 DEF NothingForgotten
    <2>4. StillAsking'
      BY <1>1, <2>1 DEF StillAsking, Connected
    <2> QED
      BY <2>2, <2>3, <2>4
  <1> QED
    BY <1>1, <1>2, <1>3 DEF AskInv

LEMMA ServerKeeps ==
    ASSUME AskInv, NEW u, u # Me,
           \/ \E c \in Chans : Joins(u, c) \/ Leaves(u, c) \/ ChangesMode(u, c)
           \/ Quits(u)
    PROVE  AskInv'
  <1>1. present = [c \in Chans |-> present[c]] /\ nickof \in [Others \cup {Me} -> Nicks]
    BY DEF AskInv, WorldOK
  <1>2. UNCHANGED <<connection, requests, joiner, wanted, given_up, displaced>> /\ nickof' = nickof
    BY DEF Joins, Leaves, ChangesMode, Quits, Silent
  <1>3. present' = [c \in Chans |-> present'[c]] /\ \A c \in Chans : Me \in On(c)' <=> Me \in On(c)
    <2>1. ASSUME NEW c \in Chans, Joins(u, c) PROVE <1>3!:
      <3>1. present' = [present EXCEPT ![c] = With(present[c], u, {})]
        BY <2>1 DEF Joins
      <3>2. DOMAIN With(present[c], u, {}) = DOMAIN present[c] \cup {u}
        BY WithDomain
      <3> QED
        BY <1>1, <3>1, <3>2 DEF On
    <2>2. ASSUME NEW c \in Chans, Leaves(u, c) PROVE <1>3!:
      <3>1. present' = [present EXCEPT ![c] = Without(present[c], u)]
        BY <2>2 DEF Leaves
      <3>2. DOMAIN Without(present[c], u) = DOMAIN present[c] \ {u}
        BY WithoutDomain
      <3> QED
        BY <1>1, <3>1, <3>2 DEF On
    <2>3. ASSUME NEW c \in Chans, ChangesMode(u, c) PROVE <1>3!:
      <3>1. PICK modes : present' = [present EXCEPT ![c][u] = modes]
        BY <2>3 DEF ChangesMode
      <3>2. DOMAIN [present[c] EXCEPT ![u] = modes] = DOMAIN present[c]
        OBVIOUS
      <3> QED
        BY <1>1, <3>1, <3>2 DEF On
    <2>4. CASE Quits(u)
      <3>1. present' = [c \in Chans |-> Without(present[c], u)]
        BY <2>4 DEF Quits
      <3>2. \A c \in Chans : DOMAIN Without(present[c], u) = DOMAIN present[c] \ {u}
        BY WithoutDomain
      <3> QED
        BY <1>1, <3>1, <3>2 DEF On
    <2> QED
      BY <2>1, <2>2, <2>3, <2>4
  <1> QED
    BY <1>1, <1>2, <1>3, SilentKeeps

LEMMA NamesKeep ==
    ASSUME AskInv,
           \/ \E u \in Others \cup {Me}, n \in Nicks : Renames(u, n)
           \/ \E c \in Chans : SendsNames(c)
           \/ \E k : Collects(k)
    PROVE  AskInv'
  <1>1. present = [c \in Chans |-> present[c]] /\ nickof \in [Others \cup {Me} -> Nicks]
    BY DEF AskInv, WorldOK
  <1>2. UNCHANGED <<connection, requests, joiner, wanted, given_up, displaced>> /\ present' = present
    BY DEF Renames, SendsNames, Collects, Silent, server
  <1>3. nickof' \in [Others \cup {Me} -> Nicks]
    BY <1>1 DEF Renames, SendsNames, Collects, server
  <1> QED
    BY <1>1, <1>2, <1>3, SilentKeeps DEF On
-----------------------------------------------------------------------------
(* The steps of the client and of its timers.                                *)

LEMMA WorldFacts ==
    ASSUME AskInv
    PROVE  /\ setting.chans \subseteq Chans /\ setting.nicks \subseteq Nicks /\ Me \notin Others
           /\ MyKey \in Names /\ MyKey \notin Chans
           /\ \A n \in Nicks : Key[n] \in Names
  <1>1. setting \in Settings /\ nickof[Me] \in Nicks
    BY DEF AskInv, WorldOK
  <1>2. \A n \in Nicks : Key[n] \in Range(Key)
    BY NamesAssumption DEF Range
  <1> QED
    BY <1>1, <1>2, NamesAssumption, SettingsAssumption DEF Others, MyKey, Names

\* A step that leaves the nicks and the connection alone, and tells a joiner that
\* has lost nothing.
LEMMA ClientKeeps ==
    ASSUME AskInv, UNCHANGED <<setting, state, nickof>>,
           present' = [c \in Chans |-> present'[c]], wanted' \subseteq Chans,
           setting.joiner => /\ joiner' \in Joiners
                             /\ joiner'.listening = joiner.listening
                             /\ \A c \in DOMAIN joiner'.rejoining \cap Chans :
                                  joiner'.rejoining[c] \in {None, c}
                             /\ NothingForgotten' /\ StillAsking'
    PROVE  AskInv'
  <1>1. WorldOK'
    BY DEF AskInv, WorldOK, Others
  <1>2. setting.joiner => JoinerOK'
    BY DEF AskInv, JoinerOK, Connected
  <1> QED
    BY <1>1, <1>2 DEF AskInv

LEMMA AcceptsKeeps == ASSUME AskInv, NEW c \in Chans, Accepts(c) PROVE AskInv'
  <1>1. /\ UNCHANGED <<setting, state, nickof>>
        /\ Connected /\ wanted' = wanted \cup {c} /\ wanted \subseteq Chans
        /\ displaced' = displaced \ {c} /\ given_up' = given_up /\ requests' = requests \ {c}
    BY DEF Accepts, connection, AskInv, WorldOK
  <1>2. /\ present' = [d \in Chans |-> present'[d]]
        /\ \A d \in Chans : Me \in On(d)' <=> Me \in On(d) \/ d = c
    <2>1. present' = [present EXCEPT ![c] = With(present[c], Me, {})] /\ present = [d \in Chans |-> present[d]]
      BY DEF Accepts, AskInv, WorldOK
    <2>2. DOMAIN With(present[c], Me, {}) = DOMAIN present[c] \cup {Me}
      BY WithDomain
    <2> QED
      BY <2>1, <2>2 DEF On
  <1>3. ASSUME setting.joiner
        PROVE  /\ joiner' \in Joiners /\ joiner'.listening = joiner.listening
               /\ \A d \in DOMAIN joiner'.rejoining \cap Chans : joiner'.rejoining[d] \in {None, d}
               /\ NothingForgotten' /\ StillAsking'
    <2>1. JoinerOK /\ NothingForgotten /\ StillAsking /\ joiner \in Joiners
      BY <1>3 DEF AskInv, JoinerOK
    <2>2. joiner' = OwnJoin(joiner, c)
      BY <1>1, <2>1 DEF Accepts, JoinerTold, JoinerOK
    <2>3. /\ joiner' \in Joiners /\ joiner'.on = joiner.on \cup {c} /\ joiner'.left = joiner.left
          /\ joiner'.listening = joiner.listening
          /\ DOMAIN joiner'.rejoining = DOMAIN joiner.rejoining \ {c}
          /\ \A x \in DOMAIN joiner.rejoining \ {c} : joiner'.rejoining[x] = joiner.rejoining[x]
      BY <2>1, <2>2, OwnJoinIs
    <2>4. \A d \in DOMAIN joiner'.rejoining \cap Chans : joiner'.rejoining[d] \in {None, d}
      BY <2>1, <2>3 DEF JoinerOK
    <2>5. NothingForgotten'
      BY <1>1, <1>2, <2>1, <2>3 DEF NothingForgotten
    <2>6. \A d \in Chans \ {c} : d \in Running(joiner) => d \in Running(joiner)'
      <3>1. \A x \in DOMAIN joiner.rejoining : x = c => joiner.rejoining[x] \in {None, c}
        BY <2>1 DEF JoinerOK
      <3>2. \A d \in Chans \ {c}, x \in DOMAIN joiner.rejoining :
               joiner.rejoining[x] = d => x \in DOMAIN joiner'.rejoining /\ joiner'.rejoining[x] = d
        BY <2>3, <3>1, NamesAssumption
      <3> QED
        BY <2>1, <2>3, <3>2, RunningIs
    <2>7. StillAsking'
      BY <1>1, <1>2, <2>1, <2>6 DEF StillAsking, Connected
    <2> QED
      BY <2>3, <2>4, <2>5, <2>7
  <1> QED
    BY <1>1, <1>2, <1>3, ClientKeeps

LEMMA PartsKeeps == ASSUME AskInv, NEW c \in Chans, Parts(c) PROVE AskInv'
  <1>1. /\ UNCHANGED <<setting, state, nickof>>
        /\ Connected /\ wanted' = wanted \ {c} /\ wanted \subseteq Chans
        /\ UNCHANGED <<displaced, given_up, requests>>
    BY DEF Parts, connection, AskInv, WorldOK
  <1>2. /\ present' = [d \in Chans |-> present'[d]]
        /\ \A d \in Chans : Me \in On(d)' <=> Me \in On(d) /\ d # c
    <2>1. present' = [present EXCEPT ![c] = Without(present[c], Me)] /\ present = [d \in Chans |-> present[d]]
      BY DEF Parts, Removed, AskInv, WorldOK
    <2>2. DOMAIN Without(present[c], Me) = DOMAIN present[c] \ {Me}
      BY WithoutDomain
    <2> QED
      BY <2>1, <2>2 DEF On
  <1>3. ASSUME setting.joiner
        PROVE  /\ joiner' \in Joiners /\ joiner'.listening = joiner.listening
               /\ \A d \in DOMAIN joiner'.rejoining \cap Chans : joiner'.rejoining[d] \in {None, d}
               /\ NothingForgotten' /\ StillAsking'
    <2>1. JoinerOK /\ NothingForgotten /\ StillAsking /\ joiner \in Joiners
      BY <1>3 DEF AskInv, JoinerOK
    <2>2. joiner' = OwnPart(joiner, c)
      BY <1>1, <2>1 DEF Parts, JoinerTold, JoinerOK
    <2>3. /\ joiner' \in Joiners /\ joiner'.on = joiner.on \ {c} /\ joiner'.left = joiner.left
          /\ joiner'.listening = joiner.listening
          /\ DOMAIN joiner'.rejoining = DOMAIN joiner.rejoining \ {c}
          /\ \A x \in DOMAIN joiner.rejoining \ {c} : joiner'.rejoining[x] = joiner.rejoining[x]
      BY <2>1, <2>2, OwnPartIs
    <2>4. \A d \in DOMAIN joiner'.rejoining \cap Chans : joiner'.rejoining[d] \in {None, d}
      BY <2>1, <2>3 DEF JoinerOK
    <2>5. NothingForgotten'
      BY <1>1, <1>2, <2>1, <2>3 DEF NothingForgotten
    <2>6. \A d \in Chans \ {c} : d \in Running(joiner) => d \in Running(joiner)'
      <3>1. \A x \in DOMAIN joiner.rejoining : x = c => joiner.rejoining[x] \in {None, c}
        BY <2>1 DEF JoinerOK
      <3>2. \A d \in Chans \ {c}, x \in DOMAIN joiner.rejoining :
               joiner.rejoining[x] = d => x \in DOMAIN joiner'.rejoining /\ joiner'.rejoining[x] = d
        BY <2>3, <3>1, NamesAssumption
      <3> QED
        BY <2>1, <2>3, <3>2, RunningIs
    <2>7. StillAsking'
      BY <1>1, <1>2, <2>1, <2>6 DEF StillAsking, Connected
    <2> QED
      BY <2>3, <2>4, <2>5, <2>7
  <1> QED
    BY <1>1, <1>2, <1>3, ClientKeeps

LEMMA KickedKeeps == ASSUME AskInv, NEW c \in Chans, Kicked(c) PROVE AskInv'
  <1>1. /\ UNCHANGED <<setting, state, nickof>>
        /\ Connected /\ wanted' = wanted /\ wanted \subseteq Chans
        /\ given_up' = given_up \ {c} /\ UNCHANGED <<displaced, requests>>
    BY DEF Kicked, connection, AskInv, WorldOK
  <1>2. /\ present' = [d \in Chans |-> present'[d]]
        /\ \A d \in Chans : Me \in On(d)' <=> Me \in On(d) /\ d # c
    <2>1. present' = [present EXCEPT ![c] = Without(present[c], Me)] /\ present = [d \in Chans |-> present[d]]
      BY DEF Kicked, Removed, AskInv, WorldOK
    <2>2. DOMAIN Without(present[c], Me) = DOMAIN present[c] \ {Me}
      BY WithoutDomain
    <2> QED
      BY <2>1, <2>2 DEF On
  <1>3. ASSUME setting.joiner
        PROVE  /\ joiner' \in Joiners /\ joiner'.listening = joiner.listening
               /\ \A d \in DOMAIN joiner'.rejoining \cap Chans : joiner'.rejoining[d] \in {None, d}
               /\ NothingForgotten' /\ StillAsking'
    <2>1. JoinerOK /\ NothingForgotten /\ StillAsking /\ joiner \in Joiners
      BY <1>3 DEF AskInv, JoinerOK
    <2>2. joiner' = OwnKick(joiner, c) /\ c \in Names
      BY <1>1, <2>1 DEF Kicked, JoinerTold, JoinerOK, Names
    <2>3. /\ joiner' \in Joiners /\ joiner'.on = joiner.on \ {c} /\ joiner'.left = joiner.left
          /\ joiner'.listening = joiner.listening
          /\ DOMAIN joiner'.rejoining = DOMAIN joiner.rejoining \cup {c}
          /\ joiner'.rejoining[c] = c
          /\ \A x \in DOMAIN joiner.rejoining \ {c} : joiner'.rejoining[x] = joiner.rejoining[x]
      BY <2>1, <2>2, NewTimerIs DEF OwnKick
    <2>4. \A d \in DOMAIN joiner'.rejoining \cap Chans : joiner'.rejoining[d] \in {None, d}
      BY <2>1, <2>3 DEF JoinerOK
    <2>5. NothingForgotten'
      BY <1>1, <1>2, <2>1, <2>3 DEF NothingForgotten
    <2>6. \A d \in Chans : d \in Running(joiner) \/ d = c => d \in Running(joiner)'
      <3>1. \A x \in DOMAIN joiner.rejoining : x = c => joiner.rejoining[x] \in {None, c}
        BY <2>1 DEF JoinerOK
      <3>2. \A d \in Chans, x \in DOMAIN joiner.rejoining :
               joiner.rejoining[x] = d => x \in DOMAIN joiner'.rejoining /\ joiner'.rejoining[x] = d
        BY <2>3, <3>1, NamesAssumption
      <3> QED
        BY <2>1, <2>3, <3>2, RunningIs, NamesAssumption
    <2>7. StillAsking'
      BY <1>1, <1>2, <2>1, <2>6 DEF StillAsking, Connected
    <2> QED
      BY <2>3, <2>4, <2>5, <2>7
  <1> QED
    BY <1>1, <1>2, <1>3, ClientKeeps

LEMMA RefusesKeeps == ASSUME AskInv, NEW c \in Chans, Refuses(c) PROVE AskInv'
  <1>1. /\ UNCHANGED <<setting, state, nickof>>
        /\ Connected /\ Me \notin On(c) /\ wanted' = wanted /\ wanted \subseteq Chans
        /\ given_up' = given_up /\ requests' = requests \ {c}
    BY DEF Refuses, connection, server, AskInv, WorldOK
  <1>2. /\ present' = present /\ present' = [d \in Chans |-> present'[d]]
        /\ \A d \in Chans : On(d)' = On(d)
    BY DEF Refuses, server, AskInv, WorldOK, On
  <1>3. ASSUME setting.joiner
        PROVE  /\ joiner' \in Joiners /\ joiner'.listening = joiner.listening
               /\ \A d \in DOMAIN joiner'.rejoining \cap Chans : joiner'.rejoining[d] \in {None, d}
               /\ NothingForgotten' /\ StillAsking'
    <2>1. JoinerOK /\ NothingForgotten /\ StillAsking /\ joiner \in Joiners
      BY <1>3 DEF AskInv, JoinerOK
    <2>2. joiner' = Refused(joiner, MyKey, c) /\ MyKey \in Names /\ MyKey \notin Chans
      BY <1>1, <2>1, WorldFacts DEF Refuses, JoinerTold, JoinerOK
    <2>3. CASE c \notin DOMAIN joiner.rejoining
      <3>1. joiner' = joiner /\ c \notin wanted
        BY <1>1, <2>1, <2>2, <2>3 DEF Refused, NothingForgotten
      <3>2. \A d \in wanted : d \notin displaced' => d \notin displaced
        BY <1>1, <3>1 DEF Refuses
      <3>3. NothingForgotten'
        BY <1>1, <1>2, <2>1, <3>1 DEF NothingForgotten
      <3>4. StillAsking'
        BY <1>1, <1>2, <2>1, <3>1, <3>2 DEF StillAsking, Connected
      <3> QED
        BY <2>1, <3>1, <3>3, <3>4 DEF JoinerOK
    <2>4. CASE c \in DOMAIN joiner.rejoining
      <3>1. /\ joiner' \in Joiners /\ joiner'.on = joiner.on \ {MyKey} /\ joiner'.left = joiner.left
            /\ joiner'.listening = joiner.listening
            /\ DOMAIN joiner'.rejoining = DOMAIN joiner.rejoining \cup {MyKey}
            /\ joiner'.rejoining[MyKey] = c
            /\ \A x \in DOMAIN joiner.rejoining \ {MyKey} : joiner'.rejoining[x] = joiner.rejoining[x]
        BY <2>1, <2>2, <2>4, NewTimerIs DEF Refused
      <3>2. \A d \in DOMAIN joiner'.rejoining \cap Chans : joiner'.rejoining[d] \in {None, d}
        BY <2>1, <2>2, <3>1 DEF JoinerOK
      <3>3. NothingForgotten'
        BY <1>1, <1>2, <2>1, <2>2, <3>1 DEF NothingForgotten
      <3>4. c \in Running(joiner)'
        BY <3>1, RunningIs, NamesAssumption
      <3>5. \A d \in Chans : d \in Running(joiner) /\ d \notin displaced' => d \in Running(joiner)'
        BY <1>1, <3>4 DEF Refuses, Cancelled
      <3>6. \A d \in wanted : d # c /\ d \notin displaced' => d \notin displaced
        BY <1>1 DEF Refuses
      <3>7. StillAsking'
        BY <1>1, <1>2, <2>1, <3>4, <3>5, <3>6 DEF StillAsking, Connected
      <3> QED
        BY <3>1, <3>2, <3>3, <3>7
    <2> QED
      BY <2>3, <2>4
  <1> QED
    BY <1>1, <1>2, <1>3, ClientKeeps

LEMMA ForbidsKeeps == ASSUME AskInv, NEW c, Forbids(c) PROVE AskInv'
  <1>1. /\ UNCHANGED <<setting, state, nickof>>
        /\ Connected /\ wanted' = wanted /\ wanted \subseteq Chans
        /\ given_up' = given_up \cup {c} /\ requests' = requests \ {c}
        /\ displaced \subseteq displaced'
    BY DEF Forbids, connection, server, AskInv, WorldOK
  <1>2. /\ present' = present /\ present' = [d \in Chans |-> present'[d]]
        /\ \A d \in Chans : On(d)' = On(d)
    BY DEF Forbids, server, AskInv, WorldOK, On
  <1>3. ASSUME setting.joiner
        PROVE  /\ joiner' \in Joiners /\ joiner'.listening = joiner.listening
               /\ \A d \in DOMAIN joiner'.rejoining \cap Chans : joiner'.rejoining[d] \in {None, d}
               /\ NothingForgotten' /\ StillAsking'
    <2>1. JoinerOK /\ NothingForgotten /\ StillAsking /\ joiner \in Joiners
      BY <1>3 DEF AskInv, JoinerOK
    <2>2. joiner' = Forbidden(joiner, MyKey, c) /\ MyKey \notin Chans
      BY <1>1, <2>1, WorldFacts DEF Forbids, JoinerTold, JoinerOK
    <2>3. CASE c \notin DOMAIN joiner.rejoining
      <3>1. joiner' = joiner
        BY <2>2, <2>3 DEF Forbidden
      <3>2. NothingForgotten'
        BY <1>1, <1>2, <2>1, <3>1 DEF NothingForgotten
      <3>3. StillAsking'
        BY <1>1, <1>2, <2>1, <3>1 DEF StillAsking, Connected
      <3> QED
        BY <2>1, <3>1, <3>2, <3>3 DEF JoinerOK
    <2>4. CASE c \in DOMAIN joiner.rejoining
      <3>1. /\ joiner' \in Joiners /\ joiner'.on = joiner.on /\ joiner'.left = joiner.left
            /\ joiner'.listening = joiner.listening
            /\ DOMAIN joiner'.rejoining = DOMAIN joiner.rejoining \ {MyKey}
            /\ \A x \in DOMAIN joiner.rejoining \ {MyKey} : joiner'.rejoining[x] = joiner.rejoining[x]
        BY <2>1, <2>2, <2>4, NoEntryIs DEF Forbidden
      <3>2. \A d \in DOMAIN joiner'.rejoining \cap Chans : joiner'.rejoining[d] \in {None, d}
        BY <2>1, <2>2, <3>1 DEF JoinerOK
      <3>3. NothingForgotten'
        BY <1>1, <1>2, <2>1, <2>2, <3>1 DEF NothingForgotten
      <3>4. \A d \in Chans : d \in Running(joiner) /\ d \notin displaced' /\ d # c => d \in Running(joiner)'
        BY <1>1 DEF Forbids, Cancelled
      <3>5. StillAsking'
        BY <1>1, <1>2, <2>1, <3>4 DEF StillAsking, Connected
      <3> QED
        BY <3>1, <3>2, <3>3, <3>5
    <2> QED
      BY <2>3, <2>4
  <1> QED
    BY <1>1, <1>2, <1>3, ClientKeeps

LEMMA IgnoresKeeps == ASSUME AskInv, NEW c \in Chans, Ignores(c) \/ AsksFor(c) PROVE AskInv'
  <1>1. /\ UNCHANGED <<setting, state, nickof, joiner, given_up, displaced>>
        /\ wanted' = wanted /\ wanted \subseteq Chans
        /\ setting.joiner => requests' = requests \ {c} /\ Me \in On(c)
    BY DEF Ignores, AsksFor, connection, server, history, AskInv, WorldOK
  <1>2. /\ present' = present /\ present' = [d \in Chans |-> present'[d]]
        /\ \A d \in Chans : On(d)' = On(d)
    BY DEF Ignores, AsksFor, server, AskInv, WorldOK, On
  <1>3. ASSUME setting.joiner
        PROVE  /\ joiner' \in Joiners /\ joiner'.listening = joiner.listening
               /\ \A d \in DOMAIN joiner'.rejoining \cap Chans : joiner'.rejoining[d] \in {None, d}
               /\ NothingForgotten' /\ StillAsking'
    <2>1. JoinerOK /\ NothingForgotten /\ StillAsking /\ joiner \in Joiners
      BY <1>3 DEF AskInv, JoinerOK
    <2>2. NothingForgotten' /\ StillAsking'
      BY <1>1, <1>2, <1>3, <2>1 DEF NothingForgotten, StillAsking, Connected
    <2> QED
      BY <1>1, <2>1, <2>2 DEF JoinerOK
  <1> QED
    BY <1>1, <1>2, <1>3, ClientKeeps

LEMMA AddsChannelKeeps == ASSUME AskInv, NEW c \in Chans, AddsChannel(c) PROVE AskInv'
  <1>1. /\ UNCHANGED <<setting, state, nickof, given_up, displaced>>
        /\ wanted' = wanted \cup {c} /\ wanted \subseteq Chans
        /\ Connected => requests' = requests \cup {c}
    BY DEF AddsChannel, Sent, connection, server, AskInv, WorldOK
  <1>2. /\ present' = present /\ present' = [d \in Chans |-> present'[d]]
        /\ \A d \in Chans : On(d)' = On(d)
    BY DEF AddsChannel, server, AskInv, WorldOK, On
  <1>3. ASSUME setting.joiner
        PROVE  /\ joiner' \in Joiners /\ joiner'.listening = joiner.listening
               /\ \A d \in DOMAIN joiner'.rejoining \cap Chans : joiner'.rejoining[d] \in {None, d}
               /\ NothingForgotten' /\ StillAsking'
    <2>1. JoinerOK /\ NothingForgotten /\ StillAsking /\ joiner \in Joiners
      BY <1>3 DEF AskInv, JoinerOK
    <2>2. joiner' = AddChannel(joiner, c)
      BY DEF AddsChannel
    <2>3. /\ joiner' \in Joiners /\ joiner'.on = joiner.on /\ joiner'.listening = joiner.listening
          /\ joiner'.left = joiner.left \cup (IF c \in DOMAIN joiner.rejoining
                                              THEN {joiner.rejoining[c]} \ {None} ELSE {})
          /\ DOMAIN joiner'.rejoining = DOMAIN joiner.rejoining \cup {c}
          /\ joiner'.rejoining[c] = None
          /\ \A x \in DOMAIN joiner.rejoining \ {c} : joiner'.rejoining[x] = joiner.rejoining[x]
      BY <2>1, <2>2, AddChannelIs
    <2>4. \A d \in DOMAIN joiner'.rejoining \cap Chans : joiner'.rejoining[d] \in {None, d}
      BY <2>1, <2>3 DEF JoinerOK
    <2>5. NothingForgotten'
      BY <1>1, <1>2, <2>1, <2>3 DEF NothingForgotten
    <2>6. \A d \in Chans : d \in Running(joiner) => d \in Running(joiner)'
      <3>1. \A d \in Chans, x \in DOMAIN joiner.rejoining : joiner.rejoining[x] = d =>
               \/ x \in DOMAIN joiner'.rejoining /\ joiner'.rejoining[x] = d
               \/ d \in joiner'.left
        BY <2>3, NamesAssumption
      <3> QED
        BY <2>1, <2>3, <3>1, RunningIs
    <2>7. StillAsking'
      BY <1>1, <1>2, <2>1, <2>6 DEF StillAsking, Connected
    <2> QED
      BY <2>3, <2>4, <2>5, <2>7
  <1> QED
    BY <1>1, <1>2, <1>3, ClientKeeps

LEMMA TimerFiresKeeps == ASSUME AskInv, NEW k \in Names, TimerFires(k) PROVE AskInv'
  <1> DEFINE asked == {joiner.rejoining[k]} \cap DOMAIN joiner.rejoining
  <1>1. /\ UNCHANGED <<setting, state, nickof, given_up, displaced>>
        /\ wanted' = wanted /\ wanted \subseteq Chans
        /\ Connected => requests' = requests \cup asked
    BY DEF TimerFires, Sent, connection, server, history, AskInv, WorldOK
  <1>2. /\ present' = present /\ present' = [d \in Chans |-> present'[d]]
        /\ \A d \in Chans : On(d)' = On(d)
    BY DEF TimerFires, server, AskInv, WorldOK, On
  <1>3. ASSUME setting.joiner
        PROVE  /\ joiner' \in Joiners /\ joiner'.listening = joiner.listening
               /\ \A d \in DOMAIN joiner'.rejoining \cap Chans : joiner'.rejoining[d] \in {None, d}
               /\ NothingForgotten' /\ StillAsking'
    <2>1. JoinerOK /\ NothingForgotten /\ StillAsking /\ joiner \in Joiners
      BY <1>3 DEF AskInv, JoinerOK
    <2>2. joiner' = Entry(joiner, k, None) /\ k \in DOMAIN joiner.rejoining
      BY DEF TimerFires, Fired
    <2>3. /\ joiner' \in Joiners /\ joiner'.on = joiner.on /\ joiner'.left = joiner.left
          /\ joiner'.listening = joiner.listening
          /\ DOMAIN joiner'.rejoining = DOMAIN joiner.rejoining \cup {k}
          /\ joiner'.rejoining[k] = None
          /\ \A x \in DOMAIN joiner.rejoining \ {k} : joiner'.rejoining[x] = joiner.rejoining[x]
      BY <2>1, <2>2, EntryIs
    <2>4. \A d \in DOMAIN joiner'.rejoining \cap Chans : joiner'.rejoining[d] \in {None, d}
      BY <2>1, <2>3 DEF JoinerOK
    <2>5. NothingForgotten'
      BY <1>1, <1>2, <2>1, <2>3 DEF NothingForgotten
    <2>6. \A d \in Chans : d \in Running(joiner) => d \in Running(joiner)' \/ d = joiner.rejoining[k]
      <3>1. \A d \in Chans, x \in DOMAIN joiner.rejoining : joiner.rejoining[x] = d =>
               \/ x \in DOMAIN joiner'.rejoining /\ joiner'.rejoining[x] = d
               \/ d = joiner.rejoining[k]
        BY <2>3
      <3> QED
        BY <2>1, <2>3, <3>1, RunningIs
    <2>7. \A d \in wanted : d = joiner.rejoining[k] /\ Me \notin On(d) => d \in asked
      BY <2>1 DEF NothingForgotten
    <2>8. StillAsking'
      <3> HIDE DEF asked
      <3> QED
        BY <1>1, <1>2, <2>1, <2>6, <2>7 DEF StillAsking, Connected
    <2> QED
      BY <2>3, <2>4, <2>5, <2>8
  <1> QED
    BY <1>1, <1>2, <1>3, ClientKeeps

LEMMA LeftTimerFiresKeeps == ASSUME AskInv, NEW c \in Chans, LeftTimerFires(c) PROVE AskInv'
  <1>1. /\ UNCHANGED <<setting, state, nickof, given_up, displaced>>
        /\ wanted' = wanted /\ wanted \subseteq Chans
        /\ Connected => requests' = requests \cup ({c} \cap DOMAIN joiner.rejoining)
    BY DEF LeftTimerFires, Sent, connection, server, history, AskInv, WorldOK
  <1>2. /\ present' = present /\ present' = [d \in Chans |-> present'[d]]
        /\ \A d \in Chans : On(d)' = On(d)
    BY DEF LeftTimerFires, server, AskInv, WorldOK, On
  <1>3. ASSUME setting.joiner
        PROVE  /\ joiner' \in Joiners /\ joiner'.listening = joiner.listening
               /\ \A d \in DOMAIN joiner'.rejoining \cap Chans : joiner'.rejoining[d] \in {None, d}
               /\ NothingForgotten' /\ StillAsking'
    <2>1. JoinerOK /\ NothingForgotten /\ StillAsking /\ joiner \in Joiners
      BY <1>3 DEF AskInv, JoinerOK
    <2>2. joiner' = FiredLeft(joiner, c)
      BY DEF LeftTimerFires
    <2>3. /\ joiner' \in Joiners /\ joiner'.on = joiner.on /\ joiner'.left = joiner.left \ {c}
          /\ joiner'.listening = joiner.listening /\ joiner'.rejoining = joiner.rejoining
      BY <2>1, <2>2, FiredLeftIs
    <2>4. \A d \in Chans : d \in Running(joiner) /\ d # c => d \in Running(joiner)'
      BY <2>1, <2>3, RunningIs
    <2>5. NothingForgotten'
      BY <1>1, <1>2, <2>1, <2>3 DEF NothingForgotten
    <2>6. c \in wanted /\ Me \notin On(c) => c \in DOMAIN joiner.rejoining
      BY <2>1 DEF NothingForgotten
    <2>7. StillAsking'
      BY <1>1, <1>2, <2>1, <2>4, <2>6 DEF StillAsking, Connected
    <2> QED
      BY <2>1, <2>3, <2>5, <2>7 DEF JoinerOK
  <1> QED
    BY <1>1, <1>2, <1>3, ClientKeeps
-----------------------------------------------------------------------------
(* The connection, and the theorem.                                          *)

LEMMA WelcomeKeeps == ASSUME AskInv, Registers \/ Welcome PROVE AskInv'
  <1>1. /\ UNCHANGED <<setting, nickof, present, wanted>>
        /\ present' = [c \in Chans |-> present'[c]]
        /\ \A c \in Chans : On(c)' = On(c)
    BY DEF Registers, Welcome, server, history, AskInv, WorldOK, On
  <1>2. WorldOK'
    BY <1>1 DEF AskInv, WorldOK, Others
  <1>3. ASSUME setting.joiner PROVE (JoinerOK /\ NothingForgotten /\ StillAsking)'
    <2>1. JoinerOK /\ NothingForgotten /\ joiner \in Joiners
      BY <1>3 DEF AskInv, JoinerOK
    <2>2. CASE Registers
      <3>1. joiner' = joiner /\ Connected = FALSE /\ Connected' = FALSE
        BY <2>2 DEF Registers, Connected
      <3>2. joiner'.listening = Connected'
        BY <2>1, <3>1 DEF JoinerOK
      <3>3. JoinerOK'
        BY <2>1, <3>1, <3>2 DEF JoinerOK
      <3>4. NothingForgotten'
        BY <1>1, <2>1, <3>1 DEF NothingForgotten, AskInv, WorldOK
      <3> QED
        BY <3>1, <3>3, <3>4 DEF StillAsking
    <2>3. CASE Welcome
      <3>1. joiner' = JoinerConnected(joiner) /\ requests' = DOMAIN joiner.rejoining /\ Connected'
        BY <1>3, <2>3 DEF Welcome, Connected, Wanted
      <3>2. /\ joiner' \in Joiners /\ joiner'.on = joiner.on /\ joiner'.left = joiner.left
            /\ joiner'.listening = TRUE /\ joiner'.rejoining = joiner.rejoining
        BY <2>1, <3>1, JoinerConnectedIs
      <3>3. JoinerOK'
        BY <2>1, <3>1, <3>2 DEF JoinerOK
      <3>4. NothingForgotten'
        BY <1>1, <2>1, <3>2 DEF NothingForgotten, AskInv, WorldOK
      <3>5. StillAsking'
        BY <1>1, <2>1, <3>1 DEF NothingForgotten, StillAsking, AskInv, WorldOK
      <3> QED
        BY <3>3, <3>4, <3>5
    <2> QED
      BY <2>2, <2>3
  <1> QED
    BY <1>1, <1>2, <1>3 DEF AskInv

LEMMA LosesKeeps == ASSUME AskInv, Loses PROVE AskInv'
  <1>1. /\ UNCHANGED <<setting, nickof, wanted>> /\ ~Connected' /\ wanted \subseteq Chans
        /\ present' = [c \in Chans |-> present'[c]]
    BY DEF Loses, Connected, history, AskInv, WorldOK
  <1>2. WorldOK'
    BY <1>1 DEF AskInv, WorldOK, Others
  <1>3. ASSUME setting.joiner PROVE (JoinerOK /\ NothingForgotten /\ StillAsking)'
    <2>1. JoinerOK /\ NothingForgotten /\ joiner \in Joiners
      BY <1>3 DEF AskInv, JoinerOK
    <2>2. joiner' = ConnectionLost(joiner)
      BY <1>3 DEF Loses
    <2>3. /\ joiner' \in Joiners /\ joiner'.on = joiner.on /\ joiner'.listening = FALSE
          /\ DOMAIN joiner'.rejoining = DOMAIN joiner.rejoining \cup joiner.on
          /\ \A k \in DOMAIN joiner'.rejoining :
               joiner'.rejoining[k] = IF k \in joiner.on THEN None ELSE joiner.rejoining[k]
      BY <2>1, <2>2, ConnectionLostIs
    <2>4. JoinerOK'
      <3>1. joiner'.listening = Connected'
        BY <1>1, <2>3 DEF Connected
      <3>2. \A c \in DOMAIN joiner'.rejoining \cap Chans : joiner'.rejoining[c] \in {None, c}
        BY <2>1, <2>3 DEF JoinerOK
      <3> QED
        BY <2>3, <3>1, <3>2 DEF JoinerOK
    <2>5. NothingForgotten'
      BY <1>1, <2>1, <2>3 DEF NothingForgotten
    <2> QED
      BY <1>1, <2>4, <2>5 DEF StillAsking
  <1> QED
    BY <1>1, <1>2, <1>3 DEF AskInv

LEMMA AskInit == Init => AskInv
  <1> SUFFICES ASSUME Init PROVE AskInv
    OBVIOUS
  <1>1. PICK autojoin \in IF setting.joiner THEN SUBSET setting.chans ELSE {{}} :
            joiner = NewJoiner(autojoin) /\ wanted = autojoin
    BY DEF Init
  <1>2. setting \in Settings /\ autojoin \subseteq Chans
    BY <1>1, SettingsAssumption DEF Init
  <1>3. WorldOK
    BY <1>1, <1>2, SettingsAssumption DEF Init, WorldOK
  <1>4. JoinerOK /\ NothingForgotten /\ StillAsking
    <2> DEFINE f == [c \in autojoin |-> None]
    <2>1. joiner = [rejoining |-> f, on |-> {}, listening |-> FALSE, left |-> {}]
      BY <1>1 DEF NewJoiner
    <2>2. /\ f = [x \in DOMAIN f |-> f[x]] /\ DOMAIN f \subseteq Names
          /\ \A x \in DOMAIN f : f[x] \in Chans \cup {None}
      BY <1>2 DEF Names
    <2>3. joiner \in Joiners
      <3> HIDE DEF f
      <3>1. [rejoining |-> f, on |-> {}, listening |-> FALSE, left |-> {}] \in Joiners
        BY <2>2, FromFields
      <3> QED
        BY <2>1, <3>1
    <2>4. Connected = FALSE
      BY DEF Init, Connected
    <2>5. joiner.listening = FALSE /\ joiner.rejoining = f
      BY <2>1
    <2>6. JoinerOK
      <3>1. joiner.listening = Connected
        BY <2>4, <2>5
      <3>2. \A c \in DOMAIN f : f[c] = None
        OBVIOUS
      <3> QED
        BY <2>3, <2>5, <3>1, <3>2 DEF JoinerOK
    <2>7. NothingForgotten
      BY <1>1, <2>5 DEF NothingForgotten
    <2> QED
      BY <2>4, <2>6, <2>7 DEF StillAsking
  <1> QED
    BY <1>3, <1>4 DEF AskInv

\* Every message, request, timer and loss of the connection keeps what the joiner
\* knows in step with what it is to do (irc.lua:1134-1208).
THEOREM JoinerInvariantIsInductive == AskInv /\ [Next]_vars => AskInv'
  <1> SUFFICES ASSUME AskInv, [Next]_vars PROVE AskInv'
    OBVIOUS
  <1>1. /\ setting.chans \subseteq Chans /\ setting.nicks \subseteq Nicks /\ Me \notin Others
        /\ \A n \in Nicks : Key[n] \in Names
    BY WorldFacts
  <1>2. ASSUME NEW u \in Users, NEW c \in setting.chans,
               Joins(u, c) \/ Leaves(u, c) \/ ChangesMode(u, c)
        PROVE  AskInv'
    <2>1. u # Me /\ c \in Chans
      BY <1>1, <1>2 DEF Joins, Leaves, ChangesMode
    <2> QED
      BY <1>2, <2>1, ServerKeeps
  <1>3. ASSUME NEW u \in Users, Quits(u) PROVE AskInv'
    BY <1>1, <1>3, ServerKeeps DEF Quits
  <1>4. ASSUME NEW u \in Users, NEW n \in setting.nicks, Renames(u, n) PROVE AskInv'
    BY <1>1, <1>4, NamesKeep DEF Renames
  <1>5. ASSUME NEW k, Collects(k) PROVE AskInv'
    BY <1>5, NamesKeep
  <1>6. ASSUME NEW c \in setting.chans,
               \/ SendsNames(c) \/ Accepts(c) \/ Ignores(c) \/ Refuses(c) \/ Parts(c)
               \/ Kicked(c) \/ AsksFor(c) \/ AddsChannel(c) \/ LeftTimerFires(c)
        PROVE  AskInv'
    BY <1>1, <1>6, NamesKeep, AcceptsKeeps, IgnoresKeeps, RefusesKeeps, PartsKeeps, KickedKeeps,
       AddsChannelKeeps, LeftTimerFiresKeeps
  <1>7. ASSUME NEW k \in setting.chans \cup {Key[n] : n \in setting.nicks}, Forbids(k) \/ TimerFires(k)
        PROVE  AskInv'
    <2>1. k \in Names
      BY <1>1 DEF Names
    <2> QED
      BY <1>7, <2>1, ForbidsKeeps, TimerFiresKeeps
  <1>8. CASE Registers \/ Welcome \/ Loses
    BY <1>8, WelcomeKeeps, LosesKeeps
  <1>9. CASE UNCHANGED vars
    <2>1. /\ UNCHANGED <<connection, requests, joiner, wanted, given_up, displaced, nickof, present>>
          /\ nickof \in [Others \cup {Me} -> Nicks] /\ present = [c \in Chans |-> present[c]]
      BY <1>9 DEF vars, server, history, AskInv, WorldOK
    <2> QED
      BY <2>1, SilentKeeps DEF On
  <1> QED
    BY <1>2, <1>3, <1>4, <1>5, <1>6, <1>7, <1>8, <1>9 DEF Next

\* A channel the client is to be on is never forgotten, and as long as the
\* connection lasts and nobody refuses for good, it is asked for
\* (irc.lua:1134-1208).
THEOREM JoinerKeepsAsking == Spec => []KeepsAsking
  <1>1. AskInv => KeepsAsking
    BY DEF AskInv, NothingForgotten, StillAsking, KeepsAsking
  <1> QED
    BY <1>1, AskInit, JoinerInvariantIsInductive, PTL DEF Spec

-----------------------------------------------------------------------------
(* The tracker.  Its invariant says which entries have the prefix that is    *)
(* registered for their key, which is what a NICK follows and what keeps the *)
(* prefix of a member from being collected.                                  *)

\* The fields of a tracker.
Tracker(chans, prefixes, nick) ==
    [chanstates |-> chans, memberprefixes |-> prefixes, nick |-> nick]
\* A member, the prefix of which is there.
Has(nick, member) == member = Member(member.prefix, member.mode) /\ member.prefix \in DOMAIN nick
\* Prefixes are there, and those that are registered have a nick of their key.
Prefixes(T) ==
    /\ T = Tracker(T.chanstates, T.memberprefixes, T.nick)
    /\ IsFiniteSet(DOMAIN T.nick)
    /\ \A k \in DOMAIN T.memberprefixes :
          /\ T.memberprefixes[k] \in DOMAIN T.nick
          /\ Key[T.nick[T.memberprefixes[k]]] = k
    /\ \A c \in DOMAIN T.chanstates : \A k \in DOMAIN T.chanstates[c] : Has(T.nick, T.chanstates[c][k])

\* The entry of a key has the prefix that is registered for it.
Right(T, c, k) ==
    /\ k \in DOMAIN T.chanstates[c] /\ k \in DOMAIN T.memberprefixes
    /\ T.memberprefixes[k] = T.chanstates[c][k].prefix
KeyOf(u) == Key[nickof[u]]

UsersOK ==
    /\ setting \in Settings
    /\ nickof \in [Others \cup {Me} -> Nicks]
    /\ \A u, v \in Others \cup {Me} : u # v => KeyOf(u) # KeyOf(v)
    /\ DOMAIN present = Chans
    /\ \A c \in Chans : /\ On(c) \subseteq Others \cup {Me} /\ (Me \in On(c) => Connected)
                       /\ \A u \in On(c) : present[c][u] \subseteq {"o"}
\* The client is on the channels of the tracker, and a member whose names have come has
\* an entry; while no user is exempt, every entry is that of a user.
Tracked(c, u) ==
    /\ Right(tracker, c, KeyOf(u))
    /\ tracker.chanstates[c][KeyOf(u)].mode = present[c][u]
Entered ==
    /\ DOMAIN tracker.chanstates = {c \in Chans : Me \in On(c)}
    /\ \A c \in DOMAIN tracker.chanstates \ awaited : \A u \in On(c) \ twice : Tracked(c, u)
    /\ twice = {} => \A c \in DOMAIN tracker.chanstates : \A k \in DOMAIN tracker.chanstates[c] :
          Right(tracker, c, k) /\ \E u \in On(c) : KeyOf(u) = k
TrackInv == UsersOK /\ Prefixes(tracker) /\ (Connected => Entered)
-----------------------------------------------------------------------------
(* What the helpers of a tracker make of it.                                 *)

\* Every set of natural numbers has a least one.
LEMMA LeastNat ==
    ASSUME NEW T, T \subseteq Nat, T # {}
    PROVE  \E n \in T : \A m \in T : n <= m
<1> DEFINE R == OpToRel(<, Nat)
<1>1. IsWellFoundedOn(R, Nat)
  BY NatLessThanWellFounded
<1>2. \A a, b \in Nat : a < b => <<a, b>> \in R
  BY DEF OpToRel
<1> HIDE DEF R
<1>3. PICK n \in T : \A m \in T : ~(<<m, n>> \in R)
  BY <1>1, WFMin
<1>4. \A m \in T : ~(m < n)
  BY <1>2, <1>3
<1> QED
  BY <1>4

LEMMA WithIs ==
    ASSUME NEW f, NEW x, NEW y
    PROVE  /\ DOMAIN With(f, x, y) = DOMAIN f \cup {x} /\ With(f, x, y)[x] = y
           /\ \A z \in DOMAIN f : z # x => With(f, x, y)[z] = f[z]
  BY DEF With

LEMMA WithoutIs ==
    ASSUME NEW f, NEW x
    PROVE  /\ DOMAIN Without(f, x) = DOMAIN f \ {x}
           /\ \A z \in DOMAIN f : z # x => Without(f, x)[z] = f[z]
  BY DEF Without, Restrict

\* g is f, with f[old] at new; where old is new, they are the same.
IsMoved(g, f, old, new) ==
    /\ DOMAIN g = (DOMAIN f \ {old}) \cup {new} /\ g[new] = f[old]
    /\ \A z \in DOMAIN f \ {old} : z # new => g[z] = f[z]

LEMMA MovedIs ==
    ASSUME NEW f, NEW old \in DOMAIN f, NEW new
    PROVE  IsMoved(Moved(f, old, new), f, old, new)
  <1> DEFINE g == Without(f, old)
  <1>1. DOMAIN g = DOMAIN f \ {old} /\ \A z \in DOMAIN f : z # old => g[z] = f[z]
    BY WithoutIs
  <1> DEFINE y == f[old]
             h == With(g, new, y)
  <1>2. Moved(f, old, new) = h
    BY DEF Moved
  <1>3. DOMAIN h = DOMAIN g \cup {new} /\ h[new] = y /\ \A z \in DOMAIN g : z # new => h[z] = g[z]
    <2> HIDE DEF g, y
    <2> QED
      BY DEF With
  <1> HIDE DEF g, h
  <1>4. DOMAIN h = (DOMAIN f \ {old}) \cup {new} /\ h[new] = f[old]
    BY <1>1, <1>3
  <1>5. \A z \in DOMAIN f \ {old} : z # new => h[z] = f[z]
    BY <1>1, <1>3
  <1> QED
    BY <1>2, <1>4, <1>5 DEF IsMoved

LEMMA HeldIs ==
    ASSUME NEW T, NEW p
    PROVE  p \in Held(T) <=> \E c \in DOMAIN T.chanstates : \E k \in DOMAIN T.chanstates[c] :
                                p = T.chanstates[c][k].prefix
  BY DEF Held

\* A new prefix is none of those that are there.
LEMMA NewPrefixIsNew ==
    ASSUME NEW T, IsFiniteSet(DOMAIN T.nick)
    PROVE  NewPrefix(T) \notin DOMAIN T.nick
  <1> DEFINE D == DOMAIN T.nick
             n == Cardinality(D)
             free == (1..n + 1) \ D
  <1>1. n \in Nat
    BY FS_CardinalityType
  <1>2. free # {}
    <2> SUFFICES ASSUME 1..n + 1 \subseteq D PROVE FALSE
      OBVIOUS
    <2>1. Cardinality(1..n + 1) = n + 1
      BY <1>1, FS_Interval
    <2>2. Cardinality(1..n + 1) <= n
      BY FS_Subset
    <2> QED
      BY <1>1, <2>1, <2>2
  <1>3. free \subseteq Nat
    BY <1>1
  <1>4. PICK p \in free : \A q \in free : p <= q
    <2> HIDE DEF free
    <2> QED
      BY <1>2, <1>3, LeastNat
  <1>5. NewPrefix(T) = CHOOSE q \in free : \A r \in free : q <= r
    BY DEF NewPrefix, Min
  <1>6. NewPrefix(T) \in free
    <2> HIDE DEF free
    <2> QED
      BY <1>4, <1>5
  <1> QED
    BY <1>6

\* What nothing refers to is gone; nothing else changes.
LEMMA TidyKeeps ==
    ASSUME NEW T, Prefixes(T)
    PROVE  /\ Prefixes(Tidy(T))
           /\ Tidy(T).chanstates = T.chanstates /\ Tidy(T).memberprefixes = T.memberprefixes
  <1> DEFINE kept == Held(T) \cup Range(T.memberprefixes)
             R == Tracker(T.chanstates, T.memberprefixes, Restrict(T.nick, kept))
  <1>1. Tidy(T) = R
    BY DEF Prefixes, Tracker, Tidy
  <1>2. /\ R.chanstates = T.chanstates /\ R.memberprefixes = T.memberprefixes
        /\ R.nick = Restrict(T.nick, kept)
    BY DEF Tracker
  <1>3. DOMAIN R.nick = kept /\ \A p \in kept : R.nick[p] = T.nick[p]
    BY <1>2 DEF Restrict
  <1>4. kept \subseteq DOMAIN T.nick
    <2>1. Held(T) \subseteq DOMAIN T.nick
      BY HeldIs DEF Prefixes, Has
    <2> QED
      BY <2>1 DEF Prefixes, Range
  <1>5. IsFiniteSet(kept)
    BY <1>4, FS_Subset DEF Prefixes
  <1>6. ASSUME NEW c \in DOMAIN T.chanstates, NEW k \in DOMAIN T.chanstates[c]
        PROVE  Has(R.nick, T.chanstates[c][k])
    <2>1. Has(T.nick, T.chanstates[c][k])
      BY DEF Prefixes
    <2>2. T.chanstates[c][k].prefix \in kept
      BY HeldIs
    <2> HIDE DEF R, kept
    <2> QED
      BY <1>3, <2>1, <2>2 DEF Has
  <1>7. \A k \in DOMAIN T.memberprefixes : T.memberprefixes[k] \in kept
    BY DEF Range
  <1>8. R = Tracker(R.chanstates, R.memberprefixes, R.nick)
    BY DEF Tracker
  <1>9. Prefixes(R)
    <2> HIDE DEF R
    <2>1. \A c \in DOMAIN R.chanstates : \A k \in DOMAIN R.chanstates[c] : Has(R.nick, R.chanstates[c][k])
      BY <1>2, <1>6
    <2>2. ASSUME NEW k \in DOMAIN R.memberprefixes
          PROVE  R.memberprefixes[k] \in DOMAIN R.nick /\ Key[R.nick[R.memberprefixes[k]]] = k
      <3>1. R.memberprefixes[k] = T.memberprefixes[k] /\ T.memberprefixes[k] \in kept
        BY <1>2, <1>7
      <3>2. Key[T.nick[T.memberprefixes[k]]] = k
        BY <1>2 DEF Prefixes
      <3> HIDE DEF kept
      <3> QED
        BY <1>3, <3>1, <3>2
    <2> QED
      BY <1>3, <1>5, <1>8, <2>1, <2>2 DEF Prefixes
  <1> QED
    BY <1>1, <1>2, <1>9

LEMMA TrackerIs ==
    ASSUME NEW chans, NEW prefixes, NEW nick
    PROVE  /\ Tracker(chans, prefixes, nick).chanstates = chans
           /\ Tracker(chans, prefixes, nick).memberprefixes = prefixes
           /\ Tracker(chans, prefixes, nick).nick = nick
  BY DEF Tracker

\* Another table of channels, the prefixes of which are there.
LEMMA ChansKeep ==
    ASSUME NEW T, Prefixes(T), NEW chans,
           \A c \in DOMAIN chans : \A k \in DOMAIN chans[c] : Has(T.nick, chans[c][k])
    PROVE  /\ Prefixes(Tracker(chans, T.memberprefixes, T.nick))
           /\ [T EXCEPT !.chanstates = chans] = Tracker(chans, T.memberprefixes, T.nick)
  <1> DEFINE R == Tracker(chans, T.memberprefixes, T.nick)
  <1>1. R.chanstates = chans /\ R.memberprefixes = T.memberprefixes /\ R.nick = T.nick
    BY TrackerIs
  <1>2. [T EXCEPT !.chanstates = chans] = R
    BY DEF Prefixes, Tracker
  <1> HIDE DEF R
  <1>4. R = Tracker(R.chanstates, R.memberprefixes, R.nick)
    BY <1>1 DEF R
  <1>5. Prefixes(R)
    BY <1>1, <1>4 DEF Prefixes
  <1> QED
    BY <1>2, <1>5 DEF R

LEMMA FieldsAre ==
    ASSUME NEW T, T = Tracker(T.chanstates, T.memberprefixes, T.nick), NEW prefixes, NEW nick
    PROVE  [T EXCEPT !.memberprefixes = prefixes, !.nick = nick] = Tracker(T.chanstates, prefixes, nick)
  <1> DEFINE R == [T EXCEPT !.memberprefixes = prefixes, !.nick = nick]
  <1>1. DOMAIN T = {"chanstates", "memberprefixes", "nick"}
    BY DEF Tracker
  <1>2. R = [x \in DOMAIN T |-> IF x = "nick" THEN nick
                                ELSE IF x = "memberprefixes" THEN prefixes ELSE T[x]]
    OBVIOUS
  <1>3. R.chanstates = T.chanstates /\ R.memberprefixes = prefixes /\ R.nick = nick
    BY <1>1, <1>2
  <1>4. R = [x \in {"chanstates", "memberprefixes", "nick"} |-> R[x]]
    BY <1>1, <1>2
  <1> HIDE DEF R
  <1> QED
    BY <1>3, <1>4 DEF Tracker

\* A prefix with a nick, and a key for it.
Named(T, p, n) == Tracker(T.chanstates, T.memberprefixes, With(T.nick, p, n))
Keyed(T, k, p) == Tracker(T.chanstates, With(T.memberprefixes, k, p), T.nick)

LEMMA NamedIs ==
    ASSUME NEW T, Prefixes(T), NEW p, NEW n
    PROVE  [T EXCEPT !.nick = With(@, p, n)] = Named(T, p, n)
  BY DEF Prefixes, Tracker, Named

\* Prefixes with more nicks than before.
LEMMA NicksKeep ==
    ASSUME NEW T, Prefixes(T), NEW p, p \notin DOMAIN T.nick, NEW n
    PROVE  /\ Prefixes(Named(T, p, n)) /\ Named(T, p, n).nick[p] = n
           /\ DOMAIN Named(T, p, n).nick = DOMAIN T.nick \cup {p}
  <1> DEFINE nick == With(T.nick, p, n)
             R == Tracker(T.chanstates, T.memberprefixes, nick)
  <1>1. R.chanstates = T.chanstates /\ R.memberprefixes = T.memberprefixes /\ R.nick = nick
    BY TrackerIs
  <1>2. Named(T, p, n) = R
    BY DEF Named
  <1>3. /\ DOMAIN nick = DOMAIN T.nick \cup {p} /\ nick[p] = n
        /\ \A q \in DOMAIN T.nick : nick[q] = T.nick[q]
    BY DEF With
  <1>4. R = Tracker(R.chanstates, R.memberprefixes, R.nick)
    BY <1>1
  <1> HIDE DEF nick, R
  <1>5. IsFiniteSet(DOMAIN R.nick)
    BY <1>1, <1>3, FS_AddElement DEF Prefixes
  <1>6. \A x : Has(T.nick, x) => Has(R.nick, x)
    BY <1>1, <1>3 DEF Has
  <1>7. ASSUME NEW k \in DOMAIN R.memberprefixes
        PROVE  R.memberprefixes[k] \in DOMAIN R.nick /\ Key[R.nick[R.memberprefixes[k]]] = k
    <2>1. T.memberprefixes[k] \in DOMAIN T.nick /\ Key[T.nick[T.memberprefixes[k]]] = k
      BY <1>1 DEF Prefixes
    <2> QED
      BY <1>1, <1>3, <2>1
  <1>8. \A c \in DOMAIN R.chanstates : \A k \in DOMAIN R.chanstates[c] : Has(R.nick, R.chanstates[c][k])
    BY <1>1, <1>6 DEF Prefixes
  <1>9. Prefixes(R)
    BY <1>4, <1>5, <1>7, <1>8 DEF Prefixes
  <1> QED
    BY <1>1, <1>2, <1>3, <1>9

\* A prefix that is there, registered under the key of its nick.
LEMMA RegisterKeeps ==
    ASSUME NEW T, Prefixes(T), NEW p \in DOMAIN T.nick, NEW k, Key[T.nick[p]] = k
    PROVE  Prefixes(Keyed(T, k, p))
  <1> DEFINE prefixes == With(T.memberprefixes, k, p)
             R == Tracker(T.chanstates, prefixes, T.nick)
  <1>1. R.chanstates = T.chanstates /\ R.memberprefixes = prefixes /\ R.nick = T.nick
    BY TrackerIs
  <1>3. /\ DOMAIN prefixes = DOMAIN T.memberprefixes \cup {k} /\ prefixes[k] = p
        /\ \A z \in DOMAIN T.memberprefixes : z # k => prefixes[z] = T.memberprefixes[z]
    BY DEF With
  <1>4. R = Tracker(R.chanstates, R.memberprefixes, R.nick)
    BY <1>1
  <1> HIDE DEF prefixes, R
  <1>6. ASSUME NEW z \in DOMAIN R.memberprefixes
        PROVE  R.memberprefixes[z] \in DOMAIN R.nick /\ Key[R.nick[R.memberprefixes[z]]] = z
    <2>1. CASE z = k
      BY <1>1, <1>3, <2>1
    <2>2. CASE z # k
      <3>1. T.memberprefixes[z] \in DOMAIN T.nick /\ Key[T.nick[T.memberprefixes[z]]] = z
        BY <1>1, <1>3, <2>2 DEF Prefixes
      <3> QED
        BY <1>1, <1>3, <2>2, <3>1
    <2> QED
      BY <2>1, <2>2
  <1>7. Prefixes(R)
    BY <1>1, <1>4, <1>6 DEF Prefixes
  <1> QED
    BY <1>7 DEF prefixes, R, Keyed

\* R has the prefixes of T and possibly one for k.
Extends(R, T, k) ==
    /\ DOMAIN R.memberprefixes = DOMAIN T.memberprefixes \cup {k}
    /\ \A z \in DOMAIN T.memberprefixes : R.memberprefixes[z] = T.memberprefixes[z]

LEMMA RegisteredIs ==
    ASSUME NEW T, Prefixes(T), NEW n
    PROVE  LET R == Registered(T, n)
           IN  /\ Prefixes(R) /\ R.chanstates = T.chanstates /\ Extends(R, T, Key[n])
               /\ DOMAIN T.nick \subseteq DOMAIN R.nick
               /\ Key[n] \notin DOMAIN T.memberprefixes =>
                     R.memberprefixes[Key[n]] = NewPrefix(T) /\ NewPrefix(T) \in DOMAIN R.nick
  <1> DEFINE p == NewPrefix(T)
             k == Key[n]
             S == Named(T, p, n)
             R == Keyed(S, k, p)
  <1>1. CASE k \in DOMAIN T.memberprefixes
    <2>1. Registered(T, n) = T
      BY <1>1 DEF Registered
    <2> QED
      BY <1>1, <2>1 DEF Extends
  <1>2. CASE k \notin DOMAIN T.memberprefixes
    <2>1. p \notin DOMAIN T.nick
      BY NewPrefixIsNew DEF Prefixes
    <2>2. Prefixes(S) /\ S.nick[p] = n /\ DOMAIN S.nick = DOMAIN T.nick \cup {p}
      <3> HIDE DEF p
      <3> QED
        BY <2>1, NicksKeep
    <2>3. Prefixes(R)
      <3> HIDE DEF S, p
      <3>1. p \in DOMAIN S.nick /\ Key[S.nick[p]] = k
        BY <2>2
      <3> HIDE DEF k
      <3> QED
        BY <2>2, <3>1, RegisterKeeps
    <2>4. /\ R.chanstates = T.chanstates /\ R.memberprefixes = With(T.memberprefixes, k, p)
          /\ R.nick = S.nick /\ S.nick = With(T.nick, p, n)
      BY TrackerIs DEF Named, Keyed
    <2>5. Registered(T, n) = R
      <3>1. Registered(T, n) = [T EXCEPT !.memberprefixes = With(T.memberprefixes, k, p),
                                         !.nick = With(T.nick, p, n)]
        BY <1>2 DEF Registered
      <3>2. T = Tracker(T.chanstates, T.memberprefixes, T.nick)
        BY DEF Prefixes
      <3>3. R = Tracker(T.chanstates, With(T.memberprefixes, k, p), With(T.nick, p, n))
        BY TrackerIs DEF Named, Keyed
      <3> DEFINE a == With(T.memberprefixes, k, p)  b == With(T.nick, p, n)
      <3>4. [T EXCEPT !.memberprefixes = a, !.nick = b] = Tracker(T.chanstates, a, b)
        <4> HIDE DEF a, b
        <4> QED
          BY <3>2, FieldsAre
      <3> QED
        BY <3>1, <3>3, <3>4
    <2>6. /\ DOMAIN With(T.memberprefixes, k, p) = DOMAIN T.memberprefixes \cup {k}
          /\ With(T.memberprefixes, k, p)[k] = p
          /\ \A z \in DOMAIN T.memberprefixes : With(T.memberprefixes, k, p)[z] = T.memberprefixes[z]
      <3> HIDE DEF k, p
      <3> QED
        BY <1>2 DEF With
    <2> HIDE DEF R, S
    <2> QED
      BY <2>2, <2>3, <2>4, <2>5, <2>6 DEF Extends
  <1> QED
    BY <1>1, <1>2

LEMMA PutIs ==
    ASSUME NEW T, Prefixes(T), NEW c \in DOMAIN T.chanstates, NEW k, NEW p \in DOMAIN T.nick, NEW mode
    PROVE  LET R == Put(T, c, k, Member(p, mode))
           IN  /\ Prefixes(R) /\ R.memberprefixes = T.memberprefixes /\ R.nick = T.nick
               /\ DOMAIN R.chanstates = DOMAIN T.chanstates
               /\ \A d \in DOMAIN T.chanstates : d # c => R.chanstates[d] = T.chanstates[d]
               /\ R.chanstates[c] = With(T.chanstates[c], k, Member(p, mode))
  <1> DEFINE m == Member(p, mode)
             chans == [T.chanstates EXCEPT ![c] = With(T.chanstates[c], k, m)]
             R == Tracker(chans, T.memberprefixes, T.nick)
  <1>1. Put(T, c, k, m) = [T EXCEPT !.chanstates = chans]
    BY DEF Put
  <1>2. /\ DOMAIN chans = DOMAIN T.chanstates /\ chans[c] = With(T.chanstates[c], k, m)
        /\ \A d \in DOMAIN T.chanstates : d # c => chans[d] = T.chanstates[d]
    OBVIOUS
  <1>3. Has(T.nick, m)
    BY DEF Member, Has
  <1> HIDE DEF m, chans
  <1>4. ASSUME NEW d \in DOMAIN chans, NEW z \in DOMAIN chans[d]
        PROVE  Has(T.nick, chans[d][z])
    <2>1. CASE d # c
      BY <1>2, <2>1 DEF Prefixes
    <2>2. CASE d = c
      BY <1>2, <1>3, <2>2 DEF With, Prefixes
    <2> QED
      BY <2>1, <2>2
  <1>5. Prefixes(R) /\ [T EXCEPT !.chanstates = chans] = R
    BY <1>4, ChansKeep
  <1> QED
    BY <1>1, <1>2, <1>5, TrackerIs DEF m

-----------------------------------------------------------------------------
(* What the handlers make of a tracker.                                      *)

\* R has the entries of T, except the one of k in c.
Rest(R, T, c, k) ==
    /\ DOMAIN R.chanstates = DOMAIN T.chanstates
    /\ \A d \in DOMAIN T.chanstates : d # c => R.chanstates[d] = T.chanstates[d]
    /\ \A z \in DOMAIN T.chanstates[c] : z # k => R.chanstates[c][z] = T.chanstates[c][z]

LEMMA OnJoinIs ==
    ASSUME NEW T, Prefixes(T), NEW c \in DOMAIN T.chanstates, NEW n
    PROVE  LET R == OnJoin(T, c, n)  k == Key[n]
           IN  /\ Prefixes(R) /\ Extends(R, T, k) /\ Rest(R, T, c, k)
               /\ DOMAIN R.chanstates[c] = DOMAIN T.chanstates[c] \cup {k}
               /\ R.chanstates[c][k].mode = {}
               /\ k \notin DOMAIN T.memberprefixes => R.memberprefixes[k] = R.chanstates[c][k].prefix
  <1> DEFINE p == NewPrefix(T)
             k == Key[n]
             known == k \in DOMAIN T.memberprefixes
             S == IF known THEN Named(T, p, n) ELSE Registered(T, n)
             P == Put(S, c, k, Member(p, {}))
  <1>1. p \notin DOMAIN T.nick
    BY NewPrefixIsNew DEF Prefixes
  <1>2. OnJoin(T, c, n) = Tidy(P)
    BY NamedIs DEF OnJoin
  <1>3. /\ Prefixes(S) /\ S.chanstates = T.chanstates /\ Extends(S, T, k) /\ p \in DOMAIN S.nick
        /\ ~known => S.memberprefixes[k] = p
    <2>1. CASE known
      <3>1. Prefixes(Named(T, p, n)) /\ p \in DOMAIN Named(T, p, n).nick
        <4> HIDE DEF p
        <4> QED
          BY <1>1, NicksKeep
      <3>2. /\ Named(T, p, n).chanstates = T.chanstates
            /\ Named(T, p, n).memberprefixes = T.memberprefixes
        BY TrackerIs DEF Named
      <3>3. Extends(Named(T, p, n), T, k)
        <4> HIDE DEF p
        <4> QED
          BY <2>1, <3>2 DEF Extends
      <3> QED
        BY <2>1, <3>1, <3>2, <3>3
    <2>2. CASE ~known
      BY <2>2, RegisteredIs
    <2> QED
      BY <2>1, <2>2
  <1> HIDE DEF S, p, k
  <1>4. /\ Prefixes(P) /\ P.memberprefixes = S.memberprefixes
        /\ DOMAIN P.chanstates = DOMAIN S.chanstates
        /\ \A d \in DOMAIN S.chanstates : d # c => P.chanstates[d] = S.chanstates[d]
        /\ P.chanstates[c] = With(S.chanstates[c], k, Member(p, {}))
    <2>1. c \in DOMAIN S.chanstates
      BY <1>3
    <2> QED
      BY <1>3, <2>1, PutIs
  <1> HIDE DEF P
  <1>5. /\ Prefixes(Tidy(P)) /\ Tidy(P).chanstates = P.chanstates
        /\ Tidy(P).memberprefixes = S.memberprefixes
    BY <1>4, TidyKeeps
  <1>6. /\ DOMAIN P.chanstates[c] = DOMAIN T.chanstates[c] \cup {k}
        /\ P.chanstates[c][k] = Member(p, {})
        /\ \A z \in DOMAIN T.chanstates[c] : z # k => P.chanstates[c][z] = T.chanstates[c][z]
    BY <1>3, <1>4 DEF With
  <1>7. P.chanstates[c][k].mode = {} /\ P.chanstates[c][k].prefix = p
    BY <1>6 DEF Member
  <1> DEFINE R == Tidy(P)
  <1> HIDE DEF R
  <1>8. R = Tidy(P)
    BY DEF R
  <1>9. Extends(R, T, k)
    BY <1>3, <1>5, <1>8 DEF Extends
  <1>10. Rest(R, T, c, k)
    BY <1>3, <1>4, <1>5, <1>6, <1>8 DEF Rest
  <1> QED
    BY <1>2, <1>3, <1>5, <1>6, <1>7, <1>8, <1>9, <1>10 DEF k, known

\* The client has joined c: it alone is a member, with the prefix registered for it.
LEMMA OnOwnJoinIs ==
    ASSUME NEW T, Prefixes(T), NEW c, NEW n
    PROVE  LET R == OnOwnJoin(T, c, n)  k == Key[n]
           IN  /\ Prefixes(R) /\ Extends(R, T, k)
               /\ DOMAIN R.chanstates = DOMAIN T.chanstates \cup {c}
               /\ \A d \in DOMAIN T.chanstates : d # c => R.chanstates[d] = T.chanstates[d]
               /\ DOMAIN R.chanstates[c] = {k}
               /\ R.chanstates[c][k].mode = {} /\ R.chanstates[c][k].prefix = R.memberprefixes[k]
  <1> DEFINE k == Key[n]
             S == Registered(T, n)
             p == S.memberprefixes[k]
             chan == [z \in {k} |-> Member(S.memberprefixes[z], {})]
             chans == With(S.chanstates, c, chan)
             R == Tracker(chans, S.memberprefixes, S.nick)
  <1>1. Prefixes(S) /\ S.chanstates = T.chanstates /\ Extends(S, T, k)
    BY RegisteredIs
  <1>2. k \in DOMAIN S.memberprefixes
    <2> HIDE DEF S, k
    <2> QED
      BY <1>1 DEF Extends
  <1>3. OnOwnJoin(T, c, n) = Tidy([S EXCEPT !.chanstates = chans])
    BY DEF OnOwnJoin
  <1>4. DOMAIN chan = {k} /\ chan[k] = Member(p, {})
    OBVIOUS
  <1> HIDE DEF S, k
  <1>5. p \in DOMAIN S.nick
    BY <1>1, <1>2 DEF Prefixes
  <1>6. Has(S.nick, Member(p, {})) /\ Member(p, {}).mode = {} /\ Member(p, {}).prefix = p
    BY <1>5 DEF Has, Member
  <1> HIDE DEF p, chan
  <1>7. /\ DOMAIN chans = DOMAIN T.chanstates \cup {c} /\ chans[c] = chan
        /\ \A d \in DOMAIN T.chanstates : d # c => chans[d] = T.chanstates[d]
    BY <1>1 DEF With
  <1> HIDE DEF chans
  <1>8. \A d \in DOMAIN chans : \A z \in DOMAIN chans[d] : Has(S.nick, chans[d][z])
    BY <1>1, <1>4, <1>6, <1>7 DEF Prefixes
  <1>9. Prefixes(R) /\ [S EXCEPT !.chanstates = chans] = R
    BY <1>1, <1>8, ChansKeep
  <1>10. R.chanstates = chans /\ R.memberprefixes = S.memberprefixes
    BY TrackerIs
  <1> HIDE DEF R
  <1>11. /\ Prefixes(Tidy(R)) /\ Tidy(R).chanstates = chans
         /\ Tidy(R).memberprefixes = S.memberprefixes
    BY <1>9, <1>10, TidyKeeps
  <1> DEFINE Q == Tidy(R)
  <1> HIDE DEF Q
  <1>12. Q = Tidy(R) /\ Q = OnOwnJoin(T, c, n)
    BY <1>3, <1>9 DEF Q
  <1>13. Extends(Q, T, k)
    BY <1>1, <1>11, <1>12 DEF Extends
  <1>14. Q.chanstates[c][k] = Member(p, {}) /\ Q.memberprefixes[k] = p
    BY <1>4, <1>7, <1>11, <1>12 DEF p
  <1>15. Prefixes(Q) /\ Q.chanstates = chans
    BY <1>11, <1>12
  <1> QED
    BY <1>4, <1>6, <1>7, <1>12, <1>13, <1>14, <1>15 DEF k

\* Members or channels are taken away.
LEMMA LessKeeps ==
    ASSUME NEW T, Prefixes(T), NEW chans, DOMAIN chans \subseteq DOMAIN T.chanstates,
           \A c \in DOMAIN chans : \A k \in DOMAIN chans[c] :
              k \in DOMAIN T.chanstates[c] /\ chans[c][k] = T.chanstates[c][k]
    PROVE  LET R == Tidy([T EXCEPT !.chanstates = chans])
           IN  Prefixes(R) /\ R.chanstates = chans /\ R.memberprefixes = T.memberprefixes
  <1> DEFINE R == Tracker(chans, T.memberprefixes, T.nick)
  <1>1. \A c \in DOMAIN chans : \A k \in DOMAIN chans[c] : Has(T.nick, chans[c][k])
    BY DEF Prefixes
  <1>2. Prefixes(R) /\ [T EXCEPT !.chanstates = chans] = R
    BY <1>1, ChansKeep
  <1>3. R.chanstates = chans /\ R.memberprefixes = T.memberprefixes
    BY TrackerIs
  <1> HIDE DEF R
  <1> QED
    BY <1>2, <1>3, TidyKeeps

LEMMA OnOwnLeaveIs ==
    ASSUME NEW T, Prefixes(T), NEW c
    PROVE  LET R == OnOwnLeave(T, c)
           IN  /\ Prefixes(R) /\ R.memberprefixes = T.memberprefixes
               /\ DOMAIN R.chanstates = DOMAIN T.chanstates \ {c}
               /\ \A d \in DOMAIN R.chanstates : R.chanstates[d] = T.chanstates[d]
  <1> DEFINE chans == Without(T.chanstates, c)
  <1>1. OnOwnLeave(T, c) = Tidy([T EXCEPT !.chanstates = chans])
    BY DEF OnOwnLeave
  <1>2. DOMAIN chans = DOMAIN T.chanstates \ {c} /\ \A d \in DOMAIN chans : chans[d] = T.chanstates[d]
    BY DEF Without, Restrict
  <1> HIDE DEF chans
  <1>3. \A d \in DOMAIN chans : \A k \in DOMAIN chans[d] :
           k \in DOMAIN T.chanstates[d] /\ chans[d][k] = T.chanstates[d][k]
    BY <1>2
  <1>4. /\ Prefixes(Tidy([T EXCEPT !.chanstates = chans]))
        /\ Tidy([T EXCEPT !.chanstates = chans]).chanstates = chans
        /\ Tidy([T EXCEPT !.chanstates = chans]).memberprefixes = T.memberprefixes
    BY <1>2, <1>3, LessKeeps
  <1> QED
    BY <1>1, <1>2, <1>4

\* R has the entries of T in the channels of C, except those of k, which are gone.
Gone(R, T, C, k) ==
    /\ Prefixes(R) /\ R.memberprefixes = T.memberprefixes
    /\ DOMAIN R.chanstates = DOMAIN T.chanstates
    /\ \A d \in DOMAIN T.chanstates :
          /\ DOMAIN R.chanstates[d] = DOMAIN T.chanstates[d] \ (IF d \in C THEN {k} ELSE {})
          /\ \A z \in DOMAIN R.chanstates[d] : R.chanstates[d][z] = T.chanstates[d][z]

LEMMA OnLeaveIs ==
    ASSUME NEW T, Prefixes(T), NEW c \in DOMAIN T.chanstates, NEW n
    PROVE  Gone(OnLeave(T, c, n), T, {c}, Key[n])
  <1> DEFINE k == Key[n]
             chans == [T.chanstates EXCEPT ![c] = Without(T.chanstates[c], k)]
             R == Tidy([T EXCEPT !.chanstates = chans])
  <1>1. OnLeave(T, c, n) = R
    BY DEF OnLeave
  <1>2. /\ DOMAIN chans = DOMAIN T.chanstates
        /\ \A d \in DOMAIN T.chanstates :
              chans[d] = IF d = c THEN Without(T.chanstates[c], k) ELSE T.chanstates[d]
    OBVIOUS
  <1> HIDE DEF chans, k
  <1>3. ASSUME NEW d \in DOMAIN chans
        PROVE  /\ DOMAIN chans[d] = DOMAIN T.chanstates[d] \ (IF d \in {c} THEN {k} ELSE {})
               /\ \A z \in DOMAIN chans[d] : chans[d][z] = T.chanstates[d][z]
    BY <1>2 DEF Without, Restrict
  <1>4. Prefixes(R) /\ R.chanstates = chans /\ R.memberprefixes = T.memberprefixes
    BY <1>2, <1>3, LessKeeps
  <1> HIDE DEF R
  <1> QED
    BY <1>1, <1>2, <1>3, <1>4 DEF Gone, k

LEMMA OnQuitIs ==
    ASSUME NEW T, Prefixes(T), NEW n
    PROVE  Gone(OnQuit(T, n), T, DOMAIN T.chanstates, Key[n])
  <1> DEFINE k == Key[n]
             chans == [c \in DOMAIN T.chanstates |-> Without(T.chanstates[c], k)]
             R == Tidy([T EXCEPT !.chanstates = chans])
  <1>1. OnQuit(T, n) = R
    BY DEF OnQuit
  <1>2. /\ DOMAIN chans = DOMAIN T.chanstates
        /\ \A d \in DOMAIN T.chanstates : chans[d] = Without(T.chanstates[d], k)
    OBVIOUS
  <1> HIDE DEF chans, k
  <1>3. ASSUME NEW d \in DOMAIN chans
        PROVE  /\ DOMAIN chans[d] = DOMAIN T.chanstates[d] \ {k}
               /\ \A z \in DOMAIN chans[d] : chans[d][z] = T.chanstates[d][z]
    BY <1>2 DEF Without, Restrict
  <1>4. Prefixes(R) /\ R.chanstates = chans /\ R.memberprefixes = T.memberprefixes
    BY <1>2, <1>3, LessKeeps
  <1> HIDE DEF R
  <1> QED
    BY <1>1, <1>2, <1>3, <1>4 DEF Gone, k

LEMMA OnConnectedIs ==
    ASSUME NEW T, Prefixes(T)
    PROVE  Prefixes(OnConnected(T)) /\ DOMAIN OnConnected(T).chanstates = {}
  <1> DEFINE R == Tidy([T EXCEPT !.chanstates = <<>>])
  <1>1. DOMAIN <<>> = {}
    OBVIOUS
  <1>2. Prefixes(R) /\ R.chanstates = <<>>
    BY <1>1, LessKeeps
  <1> QED
    BY <1>1, <1>2 DEF OnConnected

\* The collector takes a prefix that no entry has.
LEMMA CollectedIs ==
    ASSUME NEW T, Prefixes(T), NEW k, Collectable(T, k)
    PROVE  LET R == Collected(T, k)
           IN  /\ Prefixes(R) /\ R.chanstates = T.chanstates
               /\ DOMAIN R.memberprefixes = DOMAIN T.memberprefixes \ {k}
               /\ \A z \in DOMAIN R.memberprefixes : R.memberprefixes[z] = T.memberprefixes[z]
  <1> DEFINE prefixes == Without(T.memberprefixes, k)
             R == Tracker(T.chanstates, prefixes, T.nick)
  <1>1. Collected(T, k) = Tidy(R)
    <2>1. [T EXCEPT !.memberprefixes = prefixes] = R
      BY DEF Prefixes, Tracker
    <2> QED
      BY <2>1 DEF Collected
  <1>2. /\ DOMAIN prefixes = DOMAIN T.memberprefixes \ {k}
        /\ \A z \in DOMAIN prefixes : prefixes[z] = T.memberprefixes[z]
    BY DEF Without, Restrict
  <1>3. R.chanstates = T.chanstates /\ R.memberprefixes = prefixes /\ R.nick = T.nick
    BY TrackerIs
  <1>4. R = Tracker(R.chanstates, R.memberprefixes, R.nick)
    BY <1>3
  <1> HIDE DEF prefixes, R
  <1>5. Prefixes(R)
    BY <1>2, <1>3, <1>4 DEF Prefixes
  <1> QED
    BY <1>1, <1>2, <1>3, <1>5, TidyKeeps

\* Another mode of a member.
SetMode(T, c, k, mode) == [T EXCEPT !.chanstates[c][k].mode = mode]

LEMMA SetModeIs ==
    ASSUME NEW T, Prefixes(T), NEW c \in DOMAIN T.chanstates, NEW k \in DOMAIN T.chanstates[c], NEW mode
    PROVE  LET R == SetMode(T, c, k, mode)
           IN  /\ Prefixes(R) /\ R.memberprefixes = T.memberprefixes /\ Rest(R, T, c, k)
               /\ DOMAIN R.chanstates[c] = DOMAIN T.chanstates[c]
               /\ R.chanstates[c][k].mode = mode
               /\ R.chanstates[c][k].prefix = T.chanstates[c][k].prefix
  <1> DEFINE old == T.chanstates[c][k]
             new == Member(old.prefix, mode)
             chans == [T.chanstates EXCEPT ![c] = [T.chanstates[c] EXCEPT ![k] = new]]
             R == Tracker(chans, T.memberprefixes, T.nick)
  <1>1. Has(T.nick, old)
    BY DEF Prefixes
  <1>2. [old EXCEPT !.mode = mode] = new
    <2> HIDE DEF old
    <2> QED
      BY <1>1 DEF Has, Member
  <1>3. SetMode(T, c, k, mode) = [T EXCEPT !.chanstates = chans]
    <2>1. SetMode(T, c, k, mode)
            = [T EXCEPT !.chanstates = [T.chanstates EXCEPT ![c] = [T.chanstates[c] EXCEPT ![k] =
                 [old EXCEPT !.mode = mode]]]]
      BY DEF SetMode
    <2> HIDE DEF new, old
    <2> QED
      BY <1>2, <2>1
  <1>4. new.prefix = old.prefix /\ new.mode = mode
    BY DEF Member
  <1>5. Has(T.nick, new)
    <2>1. new = Member(new.prefix, new.mode)
      BY <1>4
    <2> HIDE DEF new, old
    <2> QED
      BY <1>1, <1>4, <2>1 DEF Has
  <1> HIDE DEF new
  <1>6. /\ DOMAIN chans = DOMAIN T.chanstates /\ DOMAIN chans[c] = DOMAIN T.chanstates[c]
        /\ chans[c][k] = new /\ \A d \in DOMAIN T.chanstates : d # c => chans[d] = T.chanstates[d]
        /\ \A z \in DOMAIN T.chanstates[c] : z # k => chans[c][z] = T.chanstates[c][z]
    OBVIOUS
  <1> HIDE DEF chans
  <1>7. \A d \in DOMAIN chans : \A z \in DOMAIN chans[d] : Has(T.nick, chans[d][z])
    BY <1>5, <1>6 DEF Prefixes
  <1>8. Prefixes(R) /\ [T EXCEPT !.chanstates = chans] = R
    BY <1>7, ChansKeep
  <1>9. R.chanstates = chans /\ R.memberprefixes = T.memberprefixes
    BY TrackerIs
  <1> HIDE DEF R
  <1>10. Rest(R, T, c, k)
    BY <1>6, <1>9 DEF Rest
  <1> QED
    BY <1>3, <1>4, <1>6, <1>8, <1>9, <1>10

\* A nick that is registered: its entries are at the new key.
LEMMA OnNickIs ==
    ASSUME NEW T, Prefixes(T), NEW n, NEW to, Key[n] \in DOMAIN T.memberprefixes
    PROVE  LET R == OnNick(T, n, to)  old == Key[n]  new == Key[to]
           IN  /\ Prefixes(R) /\ R.memberprefixes = Moved(T.memberprefixes, old, new)
               /\ DOMAIN R.chanstates = DOMAIN T.chanstates
               /\ \A c \in DOMAIN T.chanstates :
                     R.chanstates[c] = IF old \in DOMAIN T.chanstates[c] THEN Moved(T.chanstates[c], old, new)
                                       ELSE T.chanstates[c]
  <1> DEFINE old == Key[n]
             new == Key[to]
             p == T.memberprefixes[old]
             prefixes == Moved(T.memberprefixes, old, new)
             nick == [T.nick EXCEPT ![p] = to]
             chans == [c \in DOMAIN T.chanstates |->
                         IF old \in DOMAIN T.chanstates[c] THEN Moved(T.chanstates[c], old, new)
                         ELSE T.chanstates[c]]
             R == Tracker(chans, prefixes, nick)
  <1>1. OnNick(T, n, to) = Tidy(R)
    <2>1. OnNick(T, n, to)
            = Tidy([T EXCEPT !.memberprefixes = prefixes, !.nick = nick, !.chanstates = chans])
      BY DEF OnNick
    <2>2. [T EXCEPT !.memberprefixes = prefixes, !.nick = nick, !.chanstates = chans] = R
      <3> HIDE DEF prefixes, nick, chans
      <3> DEFINE S == [T EXCEPT !.memberprefixes = prefixes, !.nick = nick, !.chanstates = chans]
      <3>1. DOMAIN T = {"chanstates", "memberprefixes", "nick"}
        BY DEF Prefixes, Tracker
      <3>2. S = [x \in DOMAIN T |-> IF x = "chanstates" THEN chans ELSE IF x = "nick" THEN nick
                                    ELSE IF x = "memberprefixes" THEN prefixes ELSE T[x]]
        OBVIOUS
      <3>3. S.chanstates = chans /\ S.memberprefixes = prefixes /\ S.nick = nick
        BY <3>1, <3>2
      <3>4. S = [x \in {"chanstates", "memberprefixes", "nick"} |-> S[x]]
        BY <3>1, <3>2
      <3> HIDE DEF S
      <3>5. S = R
        BY <3>3, <3>4 DEF Tracker
      <3> QED
        BY <3>5 DEF S
    <2> QED
      BY <2>1, <2>2
  <1>2. R.chanstates = chans /\ R.memberprefixes = prefixes /\ R.nick = nick
    BY TrackerIs
  <1>3. p \in DOMAIN T.nick /\ DOMAIN nick = DOMAIN T.nick /\ nick[p] = to
        /\ \A q \in DOMAIN T.nick : q # p => nick[q] = T.nick[q]
    BY DEF Prefixes
  <1>4. /\ DOMAIN chans = DOMAIN T.chanstates
        /\ \A c \in DOMAIN T.chanstates :
              chans[c] = IF old \in DOMAIN T.chanstates[c] THEN Moved(T.chanstates[c], old, new)
                         ELSE T.chanstates[c]
    OBVIOUS
  <1>5. R = Tracker(R.chanstates, R.memberprefixes, R.nick)
    BY <1>2
  <1> HIDE DEF nick, chans, R
  <1>6. /\ DOMAIN prefixes = (DOMAIN T.memberprefixes \ {old}) \cup {new} /\ prefixes[new] = p
        /\ \A z \in DOMAIN T.memberprefixes \ {old} : z # new => prefixes[z] = T.memberprefixes[z]
    <2>1. IsMoved(prefixes, T.memberprefixes, old, new)
      <3>1. old \in DOMAIN T.memberprefixes
        OBVIOUS
      <3> HIDE DEF old, new
      <3> QED
        BY <3>1, MovedIs
    <2> HIDE DEF prefixes
    <2> QED
      BY <2>1 DEF IsMoved
  <1>7. ASSUME NEW z \in DOMAIN prefixes
        PROVE  prefixes[z] \in DOMAIN nick /\ Key[nick[prefixes[z]]] = z
    <2>1. CASE z = new
      BY <1>3, <1>6, <2>1
    <2>2. CASE z # new
      <3>1. z \in DOMAIN T.memberprefixes /\ z # old /\ prefixes[z] = T.memberprefixes[z]
        BY <1>6, <2>2
      <3>2. T.memberprefixes[z] \in DOMAIN T.nick /\ Key[T.nick[T.memberprefixes[z]]] = z /\ Key[T.nick[p]] = old
        BY <3>1 DEF Prefixes
      <3> QED
        BY <1>3, <3>1, <3>2
    <2> QED
      BY <2>1, <2>2
  <1>8. ASSUME NEW c \in DOMAIN chans, NEW z \in DOMAIN chans[c]
        PROVE  Has(nick, chans[c][z])
    <2> DEFINE members == T.chanstates[c]
    <2>1. \A x \in DOMAIN members : Has(nick, members[x])
      <3>1. \A x \in DOMAIN members : Has(T.nick, members[x])
        BY <1>4 DEF Prefixes
      <3> QED
        BY <1>3, <3>1 DEF Has
    <2> HIDE DEF members
    <2>2. CASE old \notin DOMAIN members
      BY <1>4, <2>1, <2>2 DEF members
    <2>3. CASE old \in DOMAIN members
      <3>1. chans[c] = Moved(members, old, new)
        BY <1>4, <2>3 DEF members
      <3>2. IsMoved(chans[c], members, old, new)
        <4> HIDE DEF old, new
        <4> QED
          BY <2>3, <3>1, MovedIs
      <3> QED
        BY <2>1, <2>3, <3>2 DEF IsMoved
    <2> QED
      BY <2>2, <2>3
  <1>9. Prefixes(R)
    <2>1. IsFiniteSet(DOMAIN nick)
      BY <1>3 DEF Prefixes
    <2> HIDE DEF prefixes
    <2> QED
      BY <1>2, <1>5, <1>7, <1>8, <2>1 DEF Prefixes
  <1>10. /\ Prefixes(Tidy(R)) /\ Tidy(R).chanstates = chans
         /\ Tidy(R).memberprefixes = prefixes
    BY <1>2, <1>9, TidyKeeps
  <1> QED
    BY <1>1, <1>4, <1>10

\* R has the prefixes of T, and maybe more.
More(R, T) ==
    /\ DOMAIN T.memberprefixes \subseteq DOMAIN R.memberprefixes
    /\ \A z \in DOMAIN T.memberprefixes : R.memberprefixes[z] = T.memberprefixes[z]

\* What one name of a list changes.
LEMMA OnNameIs ==
    ASSUME NEW T, Prefixes(T), NEW c \in DOMAIN T.chanstates, NEW n, NEW mode
    PROVE  LET R == OnName(T, c, n, mode)  k == Key[n]
           IN  /\ Prefixes(R) /\ More(R, T) /\ Rest(R, T, c, k)
               /\ DOMAIN R.chanstates[c] = DOMAIN T.chanstates[c] \cup {k}
               /\ R.chanstates[c][k].mode = mode
               /\ k \in DOMAIN T.chanstates[c] => R.chanstates[c][k].prefix = T.chanstates[c][k].prefix
               /\ k \notin DOMAIN T.chanstates[c] => Right(R, c, k)
  <1> DEFINE k == Key[n]
             S == Registered(T, n)
             p == S.memberprefixes[k]
             P == Put(S, c, k, Member(p, mode))
  <1>1. CASE k \in DOMAIN T.chanstates[c]
    <2> DEFINE R == SetMode(T, c, k, mode)
    <2>1. OnName(T, c, n, mode) = R
      BY <1>1 DEF OnName, SetMode
    <2> HIDE DEF k
    <2>2. /\ Prefixes(R) /\ R.memberprefixes = T.memberprefixes /\ Rest(R, T, c, k)
          /\ DOMAIN R.chanstates[c] = DOMAIN T.chanstates[c]
          /\ R.chanstates[c][k].mode = mode
          /\ R.chanstates[c][k].prefix = T.chanstates[c][k].prefix
      BY <1>1, SetModeIs
    <2> HIDE DEF R
    <2>3. More(R, T)
      BY <2>2 DEF More
    <2> QED
      BY <1>1, <2>1, <2>2, <2>3 DEF k
  <1>2. CASE k \notin DOMAIN T.chanstates[c]
    <2>1. OnName(T, c, n, mode) = P
      BY <1>2 DEF OnName
    <2>2. Prefixes(S) /\ S.chanstates = T.chanstates /\ Extends(S, T, k)
      BY RegisteredIs
    <2> HIDE DEF k, S
    <2>3. k \in DOMAIN S.memberprefixes /\ p \in DOMAIN S.nick /\ c \in DOMAIN S.chanstates
      BY <2>2 DEF Extends, Prefixes
    <2>4. p = S.memberprefixes[k]
      OBVIOUS
    <2> HIDE DEF p
    <2>5. /\ Prefixes(P) /\ P.memberprefixes = S.memberprefixes
          /\ DOMAIN P.chanstates = DOMAIN S.chanstates
          /\ \A d \in DOMAIN S.chanstates : d # c => P.chanstates[d] = S.chanstates[d]
          /\ P.chanstates[c] = With(S.chanstates[c], k, Member(p, mode))
      BY <2>2, <2>3, PutIs
    <2> HIDE DEF P
    <2>6. /\ DOMAIN P.chanstates[c] = DOMAIN T.chanstates[c] \cup {k}
          /\ P.chanstates[c][k] = Member(p, mode)
          /\ \A z \in DOMAIN T.chanstates[c] : z # k => P.chanstates[c][z] = T.chanstates[c][z]
      BY <2>2, <2>5 DEF With
    <2>7. P.chanstates[c][k].mode = mode /\ P.chanstates[c][k].prefix = p
      BY <2>6 DEF Member
    <2>8. Rest(P, T, c, k)
      BY <2>2, <2>5, <2>6 DEF Rest
    <2>9. More(P, T)
      BY <2>2, <2>5 DEF More, Extends
    <2>10. Right(P, c, k)
      BY <2>3, <2>4, <2>5, <2>6, <2>7 DEF Right
    <2> QED
      BY <1>2, <2>1, <2>5, <2>6, <2>7, <2>8, <2>9, <2>10 DEF k
  <1> QED
    BY <1>1, <1>2

\* R is T with the names of s in c: their modes are those told, and those that were
\* not there have the prefixes registered for them.
Keys(s) == {Key[n] : n \in s}
Listed(R, T, c, modes, s) ==
    /\ Prefixes(R) /\ More(R, T)
    /\ DOMAIN R.chanstates = DOMAIN T.chanstates
    /\ \A d \in DOMAIN T.chanstates : d # c => R.chanstates[d] = T.chanstates[d]
    /\ DOMAIN R.chanstates[c] = DOMAIN T.chanstates[c] \cup Keys(s)
    /\ \A z \in DOMAIN T.chanstates[c] : R.chanstates[c][z].prefix = T.chanstates[c][z].prefix
    /\ \A z \in DOMAIN T.chanstates[c] \ Keys(s) : R.chanstates[c][z] = T.chanstates[c][z]
    /\ \A n \in s : /\ R.chanstates[c][Key[n]].mode = modes[n]
                    /\ Key[n] \notin DOMAIN T.chanstates[c] => Right(R, c, Key[n])

\* One name more.
LEMMA OneMoreListed ==
    ASSUME NEW T, NEW c \in DOMAIN T.chanstates, NEW modes, NEW s, NEW n \in s,
           \A m \in s : Key[m] = Key[n] => m = n,
           NEW R, Listed(R, T, c, modes, s \ {n})
    PROVE  Listed(OnName(R, c, n, modes[n]), T, c, modes, s)
  <1> DEFINE Q == OnName(R, c, n, modes[n])
             k == Key[n]
             r == s \ {n}
  <1>1. /\ Prefixes(R) /\ More(R, T) /\ DOMAIN R.chanstates = DOMAIN T.chanstates
        /\ c \in DOMAIN R.chanstates
        /\ DOMAIN R.chanstates[c] = DOMAIN T.chanstates[c] \cup Keys(r)
    BY DEF Listed
  <1>2. /\ \A d \in DOMAIN T.chanstates : d # c => R.chanstates[d] = T.chanstates[d]
        /\ \A z \in DOMAIN T.chanstates[c] : R.chanstates[c][z].prefix = T.chanstates[c][z].prefix
        /\ \A z \in DOMAIN T.chanstates[c] \ Keys(r) : R.chanstates[c][z] = T.chanstates[c][z]
        /\ \A m \in r : /\ R.chanstates[c][Key[m]].mode = modes[m]
                        /\ Key[m] \notin DOMAIN T.chanstates[c] => Right(R, c, Key[m])
    BY DEF Listed
  <1>3. /\ Prefixes(Q) /\ More(Q, R) /\ Rest(Q, R, c, k)
        /\ DOMAIN Q.chanstates[c] = DOMAIN R.chanstates[c] \cup {k}
        /\ Q.chanstates[c][k].mode = modes[n]
        /\ k \in DOMAIN R.chanstates[c] => Q.chanstates[c][k].prefix = R.chanstates[c][k].prefix
        /\ k \notin DOMAIN R.chanstates[c] => Right(Q, c, k)
    BY <1>1, OnNameIs
  <1>4. Keys(s) = Keys(r) \cup {k} /\ k \notin Keys(r)
    BY DEF Keys
  <1>5. \A m \in r : Key[m] # k /\ Key[m] \in Keys(r)
    BY DEF Keys
  <1> HIDE DEF Q, k
  <1>6. More(Q, T)
    BY <1>1, <1>3 DEF More
  <1>7. /\ DOMAIN Q.chanstates = DOMAIN T.chanstates
        /\ \A d \in DOMAIN T.chanstates : d # c => Q.chanstates[d] = T.chanstates[d]
    BY <1>1, <1>2, <1>3 DEF Rest
  <1>8. DOMAIN Q.chanstates[c] = DOMAIN T.chanstates[c] \cup Keys(s)
    BY <1>1, <1>3, <1>4
  <1>9. ASSUME NEW z \in DOMAIN T.chanstates[c]
        PROVE  /\ Q.chanstates[c][z].prefix = T.chanstates[c][z].prefix
               /\ z \notin Keys(s) => Q.chanstates[c][z] = T.chanstates[c][z]
    <2>1. z \in DOMAIN R.chanstates[c]
      BY <1>1
    <2>2. CASE z = k
      BY <1>2, <1>3, <1>4, <2>1, <2>2
    <2>3. CASE z # k
      <3>1. Q.chanstates[c][z] = R.chanstates[c][z]
        BY <1>3, <2>1, <2>3 DEF Rest
      <3> QED
        BY <1>2, <1>4, <2>3, <3>1
    <2> QED
      BY <2>2, <2>3
  <1>10. ASSUME NEW m \in s
         PROVE  /\ Q.chanstates[c][Key[m]].mode = modes[m]
                /\ Key[m] \notin DOMAIN T.chanstates[c] => Right(Q, c, Key[m])
    <2>1. CASE m = n
      <3>1. Key[m] = k
        BY <2>1 DEF k
      <3>2. Key[m] \notin DOMAIN T.chanstates[c] => k \notin DOMAIN R.chanstates[c]
        BY <1>1, <1>4, <3>1
      <3> QED
        BY <1>3, <2>1, <3>1, <3>2
    <2>2. CASE m # n
      <3>1. m \in r /\ Key[m] # k /\ Key[m] \in DOMAIN R.chanstates[c]
        BY <1>1, <1>5, <2>2
      <3>2. Q.chanstates[c][Key[m]] = R.chanstates[c][Key[m]]
        BY <1>3, <3>1 DEF Rest
      <3>3. Right(R, c, Key[m]) => Right(Q, c, Key[m])
        BY <1>3, <3>1, <3>2 DEF Right, More
      <3> QED
        BY <1>2, <3>1, <3>2, <3>3
    <2> QED
      BY <2>1, <2>2
  <1> QED
    BY <1>3, <1>6, <1>7, <1>8, <1>9, <1>10 DEF Listed, Q

LEMMA NoneListed ==
    ASSUME NEW T, Prefixes(T), NEW c, NEW modes
    PROVE  Listed(T, T, c, modes, {})
  <1>1. Keys({}) = {}
    BY DEF Keys
  <1> QED
    BY <1>1 DEF Listed, More

AllNames(T, c, modes) == FoldSet(LAMBDA n, R : OnName(R, c, n, modes[n]), T, DOMAIN modes)

\* The fold over the names exists, and gives the tracker with all of them.
LEMMA NamesListed ==
    ASSUME NEW T, Prefixes(T), NEW c \in DOMAIN T.chanstates, NEW modes, IsFiniteSet(DOMAIN modes),
           \A m, n \in DOMAIN modes : Key[m] = Key[n] => m = n
    PROVE  Listed(AllNames(T, c, modes), T, c, modes, DOMAIN modes)
  <1> DEFINE S == DOMAIN modes
             Pick(s) == CHOOSE n \in s : TRUE
             Add(n, R) == OnName(R, c, n, modes[n])
             Step(h) == [s \in SUBSET S |-> IF s = {} THEN T ELSE Add(Pick(s), h[s \ {Pick(s)}])]
             iter == CHOOSE h : h = Step(h)
             Upto(i) == {s \in SUBSET S : Cardinality(s) <= i}
             Part(i, h) == h = [s \in Upto(i) |-> IF s = {} THEN T ELSE Add(Pick(s), h[s \ {Pick(s)}])]
             Bad == {i \in Nat : \A h : ~Part(i, h)}
  <1>1. AllNames(T, c, modes) = iter[S]
    BY DEF AllNames, FoldSet, MapThenFoldSet
  <1>2. \A s \in SUBSET S : s # {} => Pick(s) \in s
    OBVIOUS
  <1>3. ASSUME NEW s \in SUBSET S
        PROVE  /\ IsFiniteSet(s) /\ Cardinality(s) \in Nat /\ (Cardinality(s) = 0 <=> s = {})
               /\ \A n \in s : Cardinality(s \ {n}) = Cardinality(s) - 1
    BY FS_Subset, FS_CardinalityType, FS_EmptySet, FS_RemoveElement
  <1> HIDE DEF Add, Pick
  <1>4. Bad = {}
    <2> SUFFICES ASSUME Bad # {} PROVE FALSE
      OBVIOUS
    <2>1. PICK i \in Bad : \A j \in Bad : i <= j
      <3>1. Bad \subseteq Nat
        OBVIOUS
      <3> HIDE DEF Bad
      <3> QED
        BY <3>1, LeastNat
    <2>2. i \in Nat /\ \A h : ~Part(i, h)
      OBVIOUS
    <2>3. CASE i = 0
      <3> DEFINE h == [s \in Upto(0) |-> T]
      <3>1. \A s \in Upto(0) : s = {}
        BY <1>3
      <3>2. Part(0, h)
        BY <3>1
      <3> QED
        BY <2>2, <2>3, <3>2
    <2>4. CASE i # 0
      <3>1. i - 1 \in Nat /\ ~(i <= i - 1)
        BY <2>2, <2>4
      <3>2. PICK f : Part(i - 1, f)
        <4>1. i - 1 \notin Bad
          BY <2>1, <3>1
        <4> QED
          BY <3>1, <4>1
      <3> DEFINE h == [s \in Upto(i) |-> IF s = {} THEN T ELSE Add(Pick(s), f[s \ {Pick(s)}])]
      <3>3. ASSUME NEW s \in Upto(i), s # {}
            PROVE  h[s \ {Pick(s)}] = f[s \ {Pick(s)}]
        <4> DEFINE r == s \ {Pick(s)}
        <4>1. Pick(s) \in s
          BY <1>2, <3>3
        <4>2. r \in SUBSET S /\ Cardinality(r) = Cardinality(s) - 1 /\ Cardinality(s) \in Nat
          BY <1>3, <4>1
        <4>3. r \in Upto(i - 1) /\ r \in Upto(i)
          BY <2>2, <4>2
        <4> HIDE DEF r
        <4>4. f[r] = IF r = {} THEN T ELSE Add(Pick(r), f[r \ {Pick(r)}])
          BY <3>2, <4>3
        <4>5. h[r] = IF r = {} THEN T ELSE Add(Pick(r), f[r \ {Pick(r)}])
          BY <4>3
        <4> QED
          BY <4>4, <4>5 DEF r
      <3>4. Part(i, h)
        <4> DEFINE g == [s \in Upto(i) |-> IF s = {} THEN T ELSE Add(Pick(s), h[s \ {Pick(s)}])]
        <4>1. \A s \in Upto(i) : h[s] = g[s]
          <5> SUFFICES ASSUME NEW s \in Upto(i) PROVE h[s] = g[s]
            OBVIOUS
          <5>1. CASE s = {}
            BY <5>1
          <5>2. CASE s # {}
            <6> HIDE DEF Upto
            <6>1. h[s] = Add(Pick(s), f[s \ {Pick(s)}])
              BY <5>2
            <6>2. g[s] = Add(Pick(s), h[s \ {Pick(s)}])
              BY <5>2
            <6> QED
              BY <3>3, <5>2, <6>1, <6>2
          <5> QED
            BY <5>1, <5>2
        <4> HIDE DEF Upto
        <4>2. h = [s \in Upto(i) |-> h[s]] /\ g = [s \in Upto(i) |-> g[s]]
          OBVIOUS
        <4> HIDE DEF g, h
        <4>3. h = g
          BY <4>1, <4>2
        <4> QED
          BY <4>3 DEF g
      <3> QED
        BY <2>2, <3>4
    <2> QED
      BY <2>3, <2>4
  <1>5. iter = Step(iter)
    <2>1. Cardinality(S) \in Nat /\ \A s \in SUBSET S : Cardinality(s) <= Cardinality(S)
      BY FS_Subset, FS_CardinalityType
    <2>2. Upto(Cardinality(S)) = SUBSET S
      BY <2>1
    <2>3. PICK h : Part(Cardinality(S), h)
      <3>1. Cardinality(S) \notin Bad
        BY <1>4
      <3> HIDE DEF Part
      <3> QED
        BY <2>1, <3>1
    <2>4. h = Step(h)
      BY <2>2, <2>3
    <2> HIDE DEF Step
    <2> QED
      BY <2>4
  <1>6. \A s \in SUBSET S : iter[s] = IF s = {} THEN T ELSE Add(Pick(s), iter[s \ {Pick(s)}])
    <2> HIDE DEF iter
    <2> QED
      BY <1>5
  <1> HIDE DEF iter, Step
  <1> DEFINE Wrong == {i \in Nat : \E s \in SUBSET S : Cardinality(s) = i /\ ~Listed(iter[s], T, c, modes, s)}
  <1>7. Wrong = {}
    <2> SUFFICES ASSUME Wrong # {} PROVE FALSE
      OBVIOUS
    <2>1. PICK i \in Wrong : \A j \in Wrong : i <= j
      <3>1. Wrong \subseteq Nat
        OBVIOUS
      <3> HIDE DEF Wrong
      <3> QED
        BY <3>1, LeastNat
    <2>2. PICK s \in SUBSET S : Cardinality(s) = i /\ ~Listed(iter[s], T, c, modes, s)
      OBVIOUS
    <2>3. s # {}
      <3>1. iter[{}] = T
        BY <1>6
      <3> QED
        BY <2>2, <3>1, NoneListed
    <2> DEFINE n == Pick(s)
               r == s \ {n}
    <2>4. n \in s /\ \A m \in s : Key[m] = Key[n] => m = n
      BY <1>2, <2>3
    <2>5. r \in SUBSET S /\ Cardinality(r) = i - 1 /\ i - 1 \in Nat /\ ~(i <= i - 1)
      <3>1. Cardinality(s) \in Nat /\ Cardinality(s) # 0
        BY <1>3, <2>3
      <3> QED
        BY <1>3, <2>2, <2>4, <3>1
    <2>6. Listed(iter[r], T, c, modes, r)
      BY <2>1, <2>5
    <2>7. iter[s] = OnName(iter[r], c, n, modes[n])
      <3>1. iter[s] = Add(n, iter[r])
        BY <1>6, <2>3
      <3> QED
        BY <3>1 DEF Add
    <2> HIDE DEF n
    <2>8. Listed(OnName(iter[r], c, n, modes[n]), T, c, modes, s)
      BY <2>4, <2>6, OneMoreListed
    <2> QED
      BY <2>2, <2>7, <2>8
  <1>8. Listed(iter[S], T, c, modes, S)
    <2>1. Cardinality(S) \in Nat
      BY FS_CardinalityType
    <2> QED
      BY <1>7, <2>1
  <1> QED
    BY <1>1, <1>8

LEMMA OnNamesIs ==
    ASSUME NEW T, Prefixes(T), NEW c \in DOMAIN T.chanstates, NEW modes, IsFiniteSet(DOMAIN modes),
           \A m, n \in DOMAIN modes : Key[m] = Key[n] => m = n
    PROVE  Listed(OnNames(T, c, modes), T, c, modes, DOMAIN modes)
  <1> DEFINE F == AllNames(T, c, modes)
  <1>2. Listed(F, T, c, modes, DOMAIN modes)
    BY NamesListed
  <1>3. OnNames(T, c, modes) = Tidy(F)
    BY DEF OnNames, AllNames
  <1> HIDE DEF F
  <1>4. Prefixes(F)
    BY <1>2 DEF Listed
  <1>5. Prefixes(Tidy(F)) /\ Tidy(F).chanstates = F.chanstates /\ Tidy(F).memberprefixes = F.memberprefixes
    BY <1>4, TidyKeeps
  <1>6. \A k : Right(F, c, k) => Right(Tidy(F), c, k)
    BY <1>5 DEF Right
  <1>7. Listed(Tidy(F), T, c, modes, DOMAIN modes)
    BY <1>2, <1>5, <1>6 DEF Listed, More
  <1> QED
    BY <1>3, <1>7
-----------------------------------------------------------------------------
(* The steps, and the tracker.                                               *)

LEMMA UserFacts ==
    ASSUME UsersOK
    PROVE  /\ Me \notin Others /\ IsFiniteSet(Others)
           /\ setting.chans \subseteq Chans /\ setting.nicks \subseteq Nicks
  BY SettingsAssumption DEF UsersOK, Others

\* The others come and go.
LEMMA UsersKeep ==
    ASSUME UsersOK, UNCHANGED <<connection, nickof>>, DOMAIN present' = Chans,
           \A c \in Chans : /\ DOMAIN present'[c] \subseteq Others \cup {Me}
                            /\ Me \in DOMAIN present'[c] => Connected
                            /\ \A u \in DOMAIN present'[c] : present'[c][u] \subseteq {"o"}
    PROVE  UsersOK'
  <1>1. setting' = setting /\ state' = state
    BY DEF connection
  <1> QED
    BY <1>1 DEF UsersOK, Others, KeyOf, On, Connected

\* Who is on c, with which modes, is what it was; except for u.
Same(c) == DOMAIN present'[c] = On(c) /\ \A v \in On(c) : present'[c][v] = present[c][v]
Less(c, u) ==
    /\ DOMAIN present'[c] = On(c) \ {u}
    /\ \A v \in On(c) \ {u} : present'[c][v] = present[c][v]

\* The tracker is not told of what happens where the client is not.
LEMMA UntoldKeeps ==
    ASSUME TrackInv, UNCHANGED <<connection, nickof, awaited, tracker, twice>>, DOMAIN present' = Chans,
           \A c \in Chans : /\ DOMAIN present'[c] \subseteq Others \cup {Me}
                            /\ Me \in DOMAIN present'[c] <=> Me \in On(c)
                            /\ \A u \in DOMAIN present'[c] : present'[c][u] \subseteq {"o"}
                            /\ Connected /\ Me \in On(c) => Same(c)
    PROVE  TrackInv'
  <1>1. UsersOK' /\ Prefixes(tracker)'
    <2>1. \A c \in Chans : Me \in On(c) => Connected
      BY DEF TrackInv, UsersOK
    <2> QED
      BY <2>1, UsersKeep DEF TrackInv
  <1>2. ASSUME Connected'
        PROVE  Entered'
    <2>1. Connected /\ Entered
      BY <1>2 DEF Connected, connection, TrackInv
    <2>2. \A c \in DOMAIN tracker.chanstates : c \in Chans /\ Same(c)
      BY <2>1 DEF Entered
    <2>3. DOMAIN tracker'.chanstates = {c \in Chans : Me \in On(c)'}
      BY <2>1 DEF Entered, On
    <2>4. ASSUME NEW c \in DOMAIN tracker'.chanstates \ awaited', NEW u \in On(c)' \ twice'
          PROVE  Tracked(c, u)'
      <3>1. Tracked(c, u) /\ present'[c][u] = present[c][u]
        BY <2>1, <2>2 DEF Entered, Same, On
      <3> QED
        BY <3>1 DEF Tracked, KeyOf
    <2>5. ASSUME twice' = {}, NEW c \in DOMAIN tracker'.chanstates, NEW k \in DOMAIN tracker'.chanstates[c]
          PROVE  Right(tracker', c, k) /\ \E u \in On(c)' : KeyOf(u)' = k
      <3>1. Right(tracker, c, k) /\ \E u \in On(c) : KeyOf(u) = k
        BY <2>1, <2>5 DEF Entered
      <3> QED
        BY <2>2, <3>1 DEF Same, On, KeyOf
    <2> QED
      BY <2>3, <2>4, <2>5 DEF Entered
  <1> QED
    BY <1>1, <1>2 DEF TrackInv

\* An other user joins: the entry gets the prefix that is registered, unless there was
\* one before, in which case the user is exempt from now on.
LEMMA JoinsTracked ==
    ASSUME TrackInv, NEW u, NEW c \in Chans, Joins(u, c)
    PROVE  TrackInv'
  <1>1. /\ UsersOK /\ Prefixes(tracker) /\ u \in Others /\ u # Me /\ u \notin On(c)
        /\ UNCHANGED <<connection, nickof, awaited>>
    BY UserFacts DEF TrackInv, Joins, Silent
  <1>2. /\ DOMAIN present = Chans /\ DOMAIN present' = Chans
        /\ \A d \in Chans : d # c => present'[d] = present[d]
        /\ present'[c] = With(present[c], u, {})
    BY <1>1 DEF Joins, UsersOK
  <1>3. /\ DOMAIN present'[c] = On(c) \cup {u} /\ present'[c][u] = {}
        /\ \A v \in On(c) : present'[c][v] = present[c][v]
    BY <1>1, <1>2 DEF With, On
  <1>4. \A d \in Chans : /\ DOMAIN present'[d] \subseteq Others \cup {Me}
                         /\ Me \in DOMAIN present'[d] <=> Me \in On(d)
                         /\ Me \in On(d) => Connected
                         /\ \A v \in DOMAIN present'[d] : present'[d][v] \subseteq {"o"}
                         /\ d # c => Same(d)
    BY <1>1, <1>2, <1>3 DEF UsersOK, On, Same
  <1>5. CASE ~(Connected /\ Me \in On(c))
    <2>1. UNCHANGED <<tracker, twice>>
      BY <1>5 DEF Joins
    <2> QED
      BY <1>1, <1>2, <1>4, <1>5, <2>1, UntoldKeeps
  <1>6. CASE Connected /\ Me \in On(c)
    <2> DEFINE k == KeyOf(u)
               known == k \in DOMAIN tracker.memberprefixes
    <2>1. /\ tracker' = OnJoin(tracker, c, nickof[u])
          /\ twice' = IF known THEN twice \cup {u} ELSE twice
      BY <1>6 DEF Joins, KeyOf
    <2>2. Entered /\ c \in DOMAIN tracker.chanstates
      BY <1>6 DEF TrackInv, Entered
    <2>3. /\ Prefixes(tracker') /\ Extends(tracker', tracker, k) /\ Rest(tracker', tracker, c, k)
          /\ DOMAIN tracker'.chanstates[c] = DOMAIN tracker.chanstates[c] \cup {k}
          /\ tracker'.chanstates[c][k].mode = {}
          /\ ~known => tracker'.memberprefixes[k] = tracker'.chanstates[c][k].prefix
      BY <1>1, <2>1, <2>2, OnJoinIs DEF KeyOf
    <2> HIDE DEF k
    <2>4. ~known => Right(tracker', c, k)
      BY <2>3 DEF Right, Extends
    <2>5. ASSUME NEW d \in DOMAIN tracker.chanstates, NEW z, Right(tracker, d, z), z # k \/ d # c
          PROVE  Right(tracker', d, z) /\ tracker'.chanstates[d][z] = tracker.chanstates[d][z]
      BY <2>3, <2>5 DEF Right, Rest, Extends
    <2>6. DOMAIN tracker'.chanstates = {d \in Chans : Me \in On(d)'}
      BY <1>4, <2>2, <2>3 DEF Entered, Rest, On
    <2>7. ASSUME NEW d \in DOMAIN tracker'.chanstates \ awaited', NEW v \in On(d)' \ twice'
          PROVE  Tracked(d, v)'
      <3>1. d \in DOMAIN tracker.chanstates \ awaited /\ d \in Chans /\ v \in DOMAIN present'[d]
        BY <1>1, <2>2, <2>3 DEF Rest, Entered, On
      <3>2. ASSUME v \in On(d), v \notin twice, v # u \/ d # c, KeyOf(v) # k \/ d # c
            PROVE  Tracked(d, v)'
        <4>1. Tracked(d, v)
          BY <2>2, <3>1, <3>2 DEF Entered
        <4>2. present'[d][v] = present[d][v]
          BY <1>2, <1>3, <3>1, <3>2
        <4>3. KeyOf(v)' = KeyOf(v)
          BY <1>1 DEF KeyOf
        <4> QED
          BY <2>5, <3>1, <3>2, <4>1, <4>2, <4>3 DEF Tracked
      <3>3. CASE v = u /\ d = c
        <4>1. ~known
          BY <2>1, <3>3
        <4>2. KeyOf(u)' = k
          BY <1>1 DEF KeyOf, k
        <4> QED
          BY <1>3, <2>3, <2>4, <3>3, <4>1, <4>2 DEF Tracked
      <3>4. CASE v # u
        <4>1. v \in On(d) /\ v \notin twice
          BY <1>2, <1>3, <2>1, <3>1, <3>4 DEF On
        <4>2. KeyOf(v) # k
          BY <1>1, <3>1, <3>4, <4>1 DEF UsersOK, k
        <4> QED
          BY <3>2, <3>4, <4>1, <4>2
      <3>5. CASE v = u /\ d # c
        <4>1. v \in On(d) /\ v \notin twice
          BY <1>2, <2>1, <3>1, <3>5 DEF On
        <4> QED
          BY <3>2, <3>5, <4>1
      <3> QED
        BY <3>3, <3>4, <3>5
    <2>8. ASSUME twice' = {}, NEW d \in DOMAIN tracker'.chanstates, NEW z \in DOMAIN tracker'.chanstates[d]
          PROVE  Right(tracker', d, z) /\ \E v \in On(d)' : KeyOf(v)' = z
      <3>1. twice = {} /\ ~known
        BY <2>1, <2>8
      <3>2. d \in DOMAIN tracker.chanstates /\ d \in Chans
        BY <2>2, <2>3 DEF Rest, Entered
      <3>3. CASE z = k /\ d = c
        <4>1. u \in On(c)' /\ KeyOf(u)' = k
          BY <1>1, <1>3 DEF On, KeyOf, k
        <4> QED
          BY <2>4, <3>1, <3>3, <4>1
      <3>4. CASE z # k \/ d # c
        <4>1. z \in DOMAIN tracker.chanstates[d]
          BY <2>3, <3>2, <3>4 DEF Rest
        <4>2. Right(tracker, d, z) /\ \E v \in On(d) : KeyOf(v) = z
          BY <2>2, <3>1, <3>2, <4>1 DEF Entered
        <4>3. PICK v \in On(d) : KeyOf(v) = z
          BY <4>2
        <4>4. v \in On(d)' /\ KeyOf(v)' = z
          BY <1>1, <1>2, <1>3, <3>2, <4>3 DEF On, KeyOf
        <4> QED
          BY <2>5, <3>2, <3>4, <4>2, <4>4
      <3> QED
        BY <3>3, <3>4
    <2>9. Entered'
      BY <2>6, <2>7, <2>8 DEF Entered
    <2>10. UsersOK'
      BY <1>1, <1>2, <1>4, UsersKeep
    <2> QED
      BY <2>3, <2>9, <2>10 DEF TrackInv
  <1> QED
    BY <1>5, <1>6

\* An other user is gone from the channels of C, and so is the entry.
LEMMA GoneTracked ==
    ASSUME TrackInv, UNCHANGED <<connection, nickof, awaited, twice>>, NEW u \in Others, NEW C,
           DOMAIN present' = Chans,
           \A d \in Chans : IF d \in C THEN Less(d, u) ELSE Same(d),
           Connected, Gone(tracker', tracker, C, KeyOf(u))
    PROVE  TrackInv'
  <1> DEFINE k == KeyOf(u)
  <1>1. UsersOK /\ Entered /\ u # Me /\ Prefixes(tracker')
    BY UserFacts DEF TrackInv, Gone
  <1>2. \A d \in Chans : /\ DOMAIN present'[d] = On(d) \ (IF d \in C THEN {u} ELSE {})
                         /\ \A v \in DOMAIN present'[d] : present'[d][v] = present[d][v]
    BY DEF Less, Same
  <1>3. /\ DOMAIN tracker'.chanstates = DOMAIN tracker.chanstates
        /\ tracker'.memberprefixes = tracker.memberprefixes
        /\ \A d \in DOMAIN tracker.chanstates :
              /\ DOMAIN tracker'.chanstates[d] = DOMAIN tracker.chanstates[d] \ (IF d \in C THEN {k} ELSE {})
              /\ \A z \in DOMAIN tracker'.chanstates[d] :
                    tracker'.chanstates[d][z] = tracker.chanstates[d][z]
    BY DEF Gone
  <1> HIDE DEF k
  <1>4. ASSUME NEW d \in DOMAIN tracker.chanstates, NEW z, Right(tracker, d, z), z # k \/ d \notin C
        PROVE  Right(tracker', d, z) /\ tracker'.chanstates[d][z] = tracker.chanstates[d][z]
    BY <1>3, <1>4 DEF Right
  <1>5. UsersOK'
    <2>1. \A d \in Chans : /\ On(d) \subseteq Others \cup {Me} /\ (Me \in On(d) => Connected)
                           /\ \A v \in On(d) : present[d][v] \subseteq {"o"}
      BY <1>1 DEF UsersOK
    <2>2. \A d \in Chans : /\ DOMAIN present'[d] \subseteq Others \cup {Me}
                           /\ Me \in DOMAIN present'[d] => Connected
                           /\ \A v \in DOMAIN present'[d] : present'[d][v] \subseteq {"o"}
      BY <1>2, <2>1
    <2> QED
      BY <1>1, <2>2, UsersKeep
  <1>6. DOMAIN tracker'.chanstates = {d \in Chans : Me \in On(d)'}
    BY <1>1, <1>2, <1>3 DEF Entered, On
  <1>7. ASSUME NEW d \in DOMAIN tracker'.chanstates \ awaited', NEW v \in On(d)' \ twice'
        PROVE  Tracked(d, v)'
    <2>1. d \in DOMAIN tracker.chanstates \ awaited /\ d \in Chans
      BY <1>1, <1>3 DEF Entered
    <2>2. v \in On(d) /\ v \notin twice /\ (v # u \/ d \notin C) /\ present'[d][v] = present[d][v]
      BY <1>2, <2>1 DEF On
    <2>3. Tracked(d, v)
      BY <1>1, <2>1, <2>2 DEF Entered
    <2>4. KeyOf(v) # k \/ d \notin C
      BY <1>1, <2>1, <2>2 DEF UsersOK, k
    <2>5. KeyOf(v)' = KeyOf(v)
      BY DEF KeyOf
    <2> QED
      BY <1>4, <2>1, <2>2, <2>3, <2>4, <2>5 DEF Tracked
  <1>8. ASSUME twice' = {}, NEW d \in DOMAIN tracker'.chanstates, NEW z \in DOMAIN tracker'.chanstates[d]
        PROVE  Right(tracker', d, z) /\ \E v \in On(d)' : KeyOf(v)' = z
    <2>1. d \in DOMAIN tracker.chanstates /\ d \in Chans /\ z \in DOMAIN tracker.chanstates[d]
      BY <1>1, <1>3 DEF Entered
    <2>2. z # k \/ d \notin C
      BY <1>3, <2>1
    <2>3. Right(tracker, d, z) /\ \E v \in On(d) : KeyOf(v) = z
      BY <1>1, <1>8, <2>1 DEF Entered
    <2>4. PICK v \in On(d) : KeyOf(v) = z
      BY <2>3
    <2>5. v \in On(d)' /\ KeyOf(v)' = z
      BY <1>2, <2>1, <2>2, <2>4 DEF On, KeyOf, k
    <2> QED
      BY <1>4, <2>1, <2>2, <2>3, <2>5
  <1>9. Entered'
    BY <1>6, <1>7, <1>8 DEF Entered
  <1> QED
    BY <1>1, <1>5, <1>9 DEF TrackInv

LEMMA LeavesTracked ==
    ASSUME TrackInv, NEW u, NEW c \in Chans, Leaves(u, c)
    PROVE  TrackInv'
  <1>1. /\ UsersOK /\ Prefixes(tracker) /\ u \in Others /\ u # Me /\ u \in On(c)
        /\ UNCHANGED <<connection, nickof, awaited, twice>>
    BY UserFacts DEF TrackInv, Leaves, Silent
  <1>2. /\ DOMAIN present' = Chans /\ Less(c, u)
        /\ \A d \in Chans : d # c => Same(d)
    BY <1>1 DEF Leaves, UsersOK, Less, Same, Without, Restrict, On
  <1>3. CASE ~(Connected /\ Me \in On(c))
    <2>1. \A d \in Chans : /\ On(d) \subseteq Others \cup {Me}
                           /\ \A v \in On(d) : present[d][v] \subseteq {"o"}
      BY <1>1 DEF UsersOK
    <2>2. \A d \in Chans : /\ DOMAIN present'[d] \subseteq Others \cup {Me}
                           /\ Me \in DOMAIN present'[d] <=> Me \in On(d)
                           /\ \A v \in DOMAIN present'[d] : present'[d][v] \subseteq {"o"}
                           /\ Connected /\ Me \in On(d) => Same(d)
      BY <1>1, <1>2, <1>3, <2>1 DEF Less, Same
    <2>3. tracker' = tracker
      BY <1>3 DEF Leaves
    <2> QED
      BY <1>1, <1>2, <2>2, <2>3, UntoldKeeps
  <1>4. CASE Connected /\ Me \in On(c)
    <2>1. tracker' = OnLeave(tracker, c, nickof[u])
      BY <1>4 DEF Leaves
    <2>2. c \in DOMAIN tracker.chanstates
      BY <1>4 DEF TrackInv, Entered
    <2>3. Gone(tracker', tracker, {c}, KeyOf(u))
      BY <1>1, <2>1, <2>2, OnLeaveIs DEF KeyOf
    <2>4. \A d \in Chans : IF d \in {c} THEN Less(d, u) ELSE Same(d)
      BY <1>2
    <2> QED
      BY <1>1, <1>2, <1>4, <2>3, <2>4, GoneTracked
  <1> QED
    BY <1>3, <1>4

LEMMA QuitsTracked ==
    ASSUME TrackInv, NEW u, Quits(u)
    PROVE  TrackInv'
  <1>1. /\ UsersOK /\ Prefixes(tracker) /\ u \in Others /\ u # Me
        /\ UNCHANGED <<connection, nickof, awaited, twice>>
    BY UserFacts DEF TrackInv, Quits, Silent
  <1>2. DOMAIN present' = Chans /\ \A d \in Chans : Less(d, u)
    BY DEF Quits, Less, Without, Restrict, On
  <1>3. CASE ~(Connected /\ Seen(u))
    <2>1. \A d \in Chans : /\ On(d) \subseteq Others \cup {Me}
                           /\ \A v \in On(d) : present[d][v] \subseteq {"o"}
      BY <1>1 DEF UsersOK
    <2>2. \A d \in Chans : Connected /\ Me \in On(d) => u \notin On(d)
      BY <1>3 DEF Seen
    <2>3. \A d \in Chans : /\ DOMAIN present'[d] \subseteq Others \cup {Me}
                           /\ Me \in DOMAIN present'[d] <=> Me \in On(d)
                           /\ \A v \in DOMAIN present'[d] : present'[d][v] \subseteq {"o"}
                           /\ Connected /\ Me \in On(d) => Same(d)
      <3> SUFFICES ASSUME NEW d \in Chans
                   PROVE  /\ DOMAIN present'[d] \subseteq Others \cup {Me}
                          /\ Me \in DOMAIN present'[d] <=> Me \in On(d)
                          /\ \A v \in DOMAIN present'[d] : present'[d][v] \subseteq {"o"}
                          /\ Connected /\ Me \in On(d) => Same(d)
        OBVIOUS
      <3>1. /\ DOMAIN present'[d] = On(d) \ {u}
            /\ \A v \in On(d) \ {u} : present'[d][v] = present[d][v]
        BY <1>2 DEF Less
      <3>2. Connected /\ Me \in On(d) => Same(d)
        BY <2>2, <3>1 DEF Same
      <3> QED
        BY <1>1, <2>1, <3>1, <3>2
    <2>4. tracker' = tracker
      BY <1>3 DEF Quits
    <2> QED
      BY <1>1, <1>2, <2>3, <2>4, UntoldKeeps
  <1>4. CASE Connected /\ Seen(u)
    <2>1. tracker' = OnQuit(tracker, nickof[u])
      BY <1>4 DEF Quits
    <2>2. Gone(tracker', tracker, DOMAIN tracker.chanstates, KeyOf(u))
      BY <1>1, <2>1, OnQuitIs DEF KeyOf
    <2>3. Gone(tracker', tracker, Chans, KeyOf(u))
      <3>1. DOMAIN tracker.chanstates \subseteq Chans
        BY <1>4 DEF TrackInv, Entered
      <3> QED
        BY <2>2, <3>1 DEF Gone
    <2>4. \A d \in Chans : IF d \in Chans THEN Less(d, u) ELSE Same(d)
      BY <1>2
    <2> QED
      BY <1>1, <1>2, <1>4, <2>3, <2>4, GoneTracked
  <1> QED
    BY <1>3, <1>4


LEMMA ChangesModeTracked ==
    ASSUME TrackInv, NEW u, NEW c \in Chans, ChangesMode(u, c)
    PROVE  TrackInv'
  <1> DEFINE k == KeyOf(u)
  <1>1. /\ UsersOK /\ Prefixes(tracker) /\ u \in Others /\ u # Me /\ u \in On(c)
        /\ UNCHANGED <<connection, nickof, awaited, twice>>
    BY UserFacts DEF TrackInv, ChangesMode, Silent
  <1>2. PICK positive \in BOOLEAN :
          /\ present' = [present EXCEPT ![c][u] = IF positive THEN {"o"} ELSE {}]
          /\ tracker' = IF Connected /\ Me \in On(c)
                        THEN OnMode(tracker, c, nickof[u], "o", positive) ELSE tracker
    BY DEF ChangesMode
  <1> DEFINE now == IF positive THEN {"o"} ELSE {}
  <1>3. /\ DOMAIN present' = Chans /\ DOMAIN present'[c] = On(c) /\ present'[c][u] = now
        /\ \A v \in On(c) \ {u} : present'[c][v] = present[c][v]
        /\ \A d \in Chans : d # c => Same(d)
    BY <1>1, <1>2 DEF UsersOK, On, Same
  <1>4. ASSUME NEW d \in Chans
        PROVE  /\ DOMAIN present'[d] = On(d) /\ On(d) \subseteq Others \cup {Me}
               /\ Me \in On(d) => Connected
               /\ \A v \in On(d) : present'[d][v] \subseteq {"o"}
               /\ \A v \in On(d) : v # u \/ d # c => present'[d][v] = present[d][v]
    <2>1. /\ On(d) \subseteq Others \cup {Me} /\ (Me \in On(d) => Connected)
          /\ \A v \in On(d) : present[d][v] \subseteq {"o"}
      BY <1>1 DEF UsersOK
    <2>2. CASE d = c
      BY <1>3, <2>1, <2>2
    <2>3. CASE d # c
      BY <1>3, <2>1, <2>3 DEF Same
    <2> QED
      BY <2>2, <2>3
  <1> HIDE DEF now
  <1>5. CASE ~(Connected /\ Me \in On(c))
    <2>1. \A d \in Chans : Connected /\ Me \in On(d) => Same(d)
      BY <1>3, <1>5
    <2>2. tracker' = tracker
      BY <1>2, <1>5
    <2> QED
      BY <1>1, <1>3, <1>4, <2>1, <2>2, UntoldKeeps
  <1>6. CASE Connected /\ Me \in On(c)
    <2>1. Entered /\ c \in DOMAIN tracker.chanstates
      BY <1>6 DEF TrackInv, Entered
    <2>2. /\ Prefixes(tracker') /\ DOMAIN tracker'.chanstates = DOMAIN tracker.chanstates
          /\ \A d \in DOMAIN tracker.chanstates : \A z :
                Right(tracker, d, z) =>
                   /\ Right(tracker', d, z)
                   /\ z # k \/ d # c => tracker'.chanstates[d][z] = tracker.chanstates[d][z]
          /\ \A d \in DOMAIN tracker.chanstates : DOMAIN tracker'.chanstates[d] = DOMAIN tracker.chanstates[d]
      <3>1. CASE k \notin DOMAIN tracker.chanstates[c]
        <4>1. tracker' = tracker
          BY <1>2, <1>6, <2>1, <3>1 DEF OnMode, KeyOf
        <4> QED
          BY <1>1, <4>1
      <3>2. CASE k \in DOMAIN tracker.chanstates[c]
        <4> DEFINE mode == IF positive THEN tracker.chanstates[c][k].mode \cup {"o"}
                           ELSE tracker.chanstates[c][k].mode \ {"o"}
        <4>0. tracker' = OnMode(tracker, c, nickof[u], "o", positive) /\ Key[nickof[u]] \in DOMAIN tracker.chanstates[c]
          BY <1>2, <1>6, <3>2 DEF KeyOf
        <4>1. tracker' = SetMode(tracker, c, k, mode)
          <5> DEFINE n == nickof[u]
          <5>1. k = Key[n] /\ Key[n] \in DOMAIN tracker.chanstates[c] /\ tracker' = OnMode(tracker, c, n, "o", positive)
            BY <4>0 DEF KeyOf
          <5> HIDE DEF k, n
          <5> QED
            BY <2>1, <5>1 DEF OnMode, SetMode
        <4> HIDE DEF k, mode
        <4>2. /\ Prefixes(tracker') /\ tracker'.memberprefixes = tracker.memberprefixes
              /\ Rest(tracker', tracker, c, k)
              /\ DOMAIN tracker'.chanstates[c] = DOMAIN tracker.chanstates[c]
              /\ tracker'.chanstates[c][k].prefix = tracker.chanstates[c][k].prefix
          BY <1>1, <2>1, <3>2, <4>1, SetModeIs
        <4> QED
          BY <4>2 DEF Right, Rest
      <3> QED
        BY <3>1, <3>2
    <2>3. ASSUME Tracked(c, u)
          PROVE  tracker'.chanstates[c][k].mode = present'[c][u]
      <3>1. /\ k \in DOMAIN tracker.chanstates[c]
            /\ tracker.chanstates[c][k].mode = present[c][u] /\ present[c][u] \subseteq {"o"}
        BY <1>1, <2>3 DEF Tracked, Right, UsersOK
      <3> DEFINE mode == IF positive THEN tracker.chanstates[c][k].mode \cup {"o"}
                         ELSE tracker.chanstates[c][k].mode \ {"o"}
      <3>0. tracker' = OnMode(tracker, c, nickof[u], "o", positive) /\ Key[nickof[u]] \in DOMAIN tracker.chanstates[c]
        BY <1>2, <1>6, <3>1 DEF KeyOf
      <3>2. tracker' = SetMode(tracker, c, k, mode)
        <4> DEFINE n == nickof[u]
        <4>1. k = Key[n] /\ Key[n] \in DOMAIN tracker.chanstates[c] /\ tracker' = OnMode(tracker, c, n, "o", positive)
          BY <3>0 DEF KeyOf
        <4> HIDE DEF k, n
        <4> QED
          BY <2>1, <4>1 DEF OnMode, SetMode
      <3>3. mode = present'[c][u]
        BY <1>3, <3>1 DEF now
      <3> HIDE DEF k, mode
      <3>4. tracker'.chanstates[c][k].mode = mode
        BY <1>1, <2>1, <3>1, <3>2, SetModeIs
      <3> QED
        BY <3>3, <3>4
    <2> HIDE DEF k
    <2>4. DOMAIN tracker'.chanstates = {d \in Chans : Me \in On(d)'}
      BY <1>4, <2>1, <2>2 DEF Entered, On
    <2>5. ASSUME NEW d \in DOMAIN tracker'.chanstates \ awaited', NEW v \in On(d)' \ twice'
          PROVE  Tracked(d, v)'
      <3>1. d \in DOMAIN tracker.chanstates \ awaited /\ d \in Chans /\ v \in On(d) /\ v \notin twice
        BY <1>1, <1>4, <2>1, <2>2 DEF Entered, On
      <3>2. Tracked(d, v)
        BY <2>1, <3>1 DEF Entered
      <3>3. Right(tracker', d, KeyOf(v))
        BY <2>2, <3>1, <3>2 DEF Tracked
      <3>4. tracker'.chanstates[d][KeyOf(v)].mode = present'[d][v]
        <4>1. CASE v = u /\ d = c
          BY <2>3, <3>2, <4>1 DEF k
        <4>2. CASE v # u \/ d # c
          <5>1. present'[d][v] = present[d][v]
            BY <1>4, <3>1, <4>2
          <5>2. KeyOf(v) # k \/ d # c
            BY <1>1, <1>4, <3>1, <4>2 DEF UsersOK, k
          <5>3. Right(tracker, d, KeyOf(v)) /\ tracker.chanstates[d][KeyOf(v)].mode = present[d][v]
            BY <3>2 DEF Tracked
          <5> QED
            BY <2>2, <3>1, <5>1, <5>2, <5>3
        <4> QED
          BY <4>1, <4>2
      <3>5. KeyOf(v)' = KeyOf(v)
        BY <1>1 DEF KeyOf
      <3> QED
        BY <3>3, <3>4, <3>5 DEF Tracked
    <2>6. ASSUME twice' = {}, NEW d \in DOMAIN tracker'.chanstates, NEW z \in DOMAIN tracker'.chanstates[d]
          PROVE  Right(tracker', d, z) /\ \E v \in On(d)' : KeyOf(v)' = z
      <3>1. d \in DOMAIN tracker.chanstates /\ d \in Chans /\ z \in DOMAIN tracker.chanstates[d]
        BY <2>1, <2>2 DEF Entered
      <3>2. Right(tracker, d, z) /\ \E v \in On(d) : KeyOf(v) = z
        BY <1>1, <2>1, <2>6, <3>1 DEF Entered
      <3>3. PICK v \in On(d) : KeyOf(v) = z
        BY <3>2
      <3>4. v \in On(d)' /\ KeyOf(v)' = z
        BY <1>1, <1>4, <3>1, <3>3 DEF On, KeyOf
      <3> QED
        BY <2>2, <3>1, <3>2, <3>4
    <2>7. Entered'
      BY <2>4, <2>5, <2>6 DEF Entered
    <2>8. UsersOK'
      BY <1>1, <1>3, <1>4, UsersKeep
    <2> QED
      BY <2>2, <2>7, <2>8 DEF TrackInv
  <1> QED
    BY <1>5, <1>6


LEMMA CollectsTracked ==
    ASSUME TrackInv, NEW k, Collects(k)
    PROVE  TrackInv'
  <1>1. /\ UsersOK /\ Prefixes(tracker) /\ Collectable(tracker, k) /\ tracker' = Collected(tracker, k)
        /\ UNCHANGED <<connection, nickof, present, awaited, twice>>
    BY DEF TrackInv, Collects, Silent, server
  <1>2. /\ Prefixes(tracker') /\ tracker'.chanstates = tracker.chanstates
        /\ DOMAIN tracker'.memberprefixes = DOMAIN tracker.memberprefixes \ {k}
        /\ \A z \in DOMAIN tracker'.memberprefixes : tracker'.memberprefixes[z] = tracker.memberprefixes[z]
    BY <1>1, CollectedIs
  <1>3. UsersOK'
    BY <1>1, UsersKeep DEF UsersOK, On
  <1>4. ASSUME NEW d \in DOMAIN tracker.chanstates, NEW z, Right(tracker, d, z)
        PROVE  Right(tracker', d, z)
    <2>1. tracker.memberprefixes[z] \in Held(tracker)
      BY <1>4, HeldIs DEF Right
    <2>2. z # k
      BY <1>1, <2>1 DEF Collectable
    <2> QED
      BY <1>2, <1>4, <2>2 DEF Right
  <1>5. ASSUME Connected'
        PROVE  Entered'
    <2>1. Entered
      BY <1>1, <1>5 DEF TrackInv, Connected, connection
    <2>2. \A c \in Chans : On(c)' = On(c)
      BY <1>1 DEF On
    <2>3. \A u : KeyOf(u)' = KeyOf(u)
      BY <1>1 DEF KeyOf
    <2>4. \A d \in DOMAIN tracker.chanstates : d \in Chans
      BY <2>1 DEF Entered
    <2>5. DOMAIN tracker'.chanstates = {c \in Chans : Me \in On(c)'}
      BY <1>2, <2>1, <2>2 DEF Entered
    <2>6. ASSUME NEW d \in DOMAIN tracker'.chanstates \ awaited', NEW v \in On(d)' \ twice'
          PROVE  Tracked(d, v)'
      <3>1. Tracked(d, v)
        BY <1>1, <1>2, <2>1, <2>2, <2>4 DEF Entered
      <3> QED
        BY <1>1, <1>2, <1>4, <2>3, <3>1 DEF Tracked
    <2>7. ASSUME twice' = {}, NEW d \in DOMAIN tracker'.chanstates, NEW z \in DOMAIN tracker'.chanstates[d]
          PROVE  Right(tracker', d, z) /\ \E v \in On(d)' : KeyOf(v)' = z
      <3>1. Right(tracker, d, z) /\ \E v \in On(d) : KeyOf(v) = z
        BY <1>1, <1>2, <2>1, <2>7 DEF Entered
      <3> QED
        BY <1>2, <1>4, <2>2, <2>3, <2>4, <3>1
    <2> QED
      BY <2>5, <2>6, <2>7 DEF Entered
  <1> QED
    BY <1>2, <1>3, <1>5 DEF TrackInv

\* The client is on one channel less.
LEMMA RemovedTracked ==
    ASSUME TrackInv, NEW c \in Chans, Connected, Me \in On(c), Removed(c),
           tracker' = OnOwnLeave(tracker, c), UNCHANGED <<connection, nickof, twice>>
    PROVE  TrackInv'
  <1>1. UsersOK /\ Prefixes(tracker) /\ Entered
    BY DEF TrackInv
  <1>2. /\ Prefixes(tracker') /\ tracker'.memberprefixes = tracker.memberprefixes
        /\ DOMAIN tracker'.chanstates = DOMAIN tracker.chanstates \ {c}
        /\ \A d \in DOMAIN tracker'.chanstates : tracker'.chanstates[d] = tracker.chanstates[d]
    BY <1>1, OnOwnLeaveIs
  <1>3. /\ DOMAIN present' = Chans /\ Less(c, Me) /\ awaited' = awaited \ {c}
        /\ \A d \in Chans : d # c => Same(d)
    BY <1>1 DEF Removed, UsersOK, Less, Same, Without, Restrict, On
  <1>4. ASSUME NEW d \in Chans
        PROVE  /\ DOMAIN present'[d] \subseteq Others \cup {Me}
               /\ Me \in DOMAIN present'[d] <=> Me \in On(d) /\ d # c
               /\ \A v \in DOMAIN present'[d] : present'[d][v] \subseteq {"o"}
    <2>1. On(d) \subseteq Others \cup {Me} /\ \A v \in On(d) : present[d][v] \subseteq {"o"}
      BY <1>1 DEF UsersOK
    <2>2. CASE d = c
      BY <1>3, <2>1, <2>2 DEF Less
    <2>3. CASE d # c
      BY <1>3, <2>1, <2>3 DEF Same
    <2> QED
      BY <2>2, <2>3
  <1>5. UsersOK'
    BY <1>1, <1>3, <1>4, UsersKeep
  <1>6. DOMAIN tracker'.chanstates = {d \in Chans : Me \in On(d)'}
    BY <1>1, <1>2, <1>4 DEF Entered, On
  <1>7. ASSUME NEW d \in DOMAIN tracker'.chanstates
        PROVE  d \in DOMAIN tracker.chanstates /\ d \in Chans /\ d # c /\ Same(d)
    BY <1>1, <1>2, <1>3 DEF Entered
  <1>8. \A d \in DOMAIN tracker'.chanstates : \A z : Right(tracker, d, z) => Right(tracker', d, z)
    BY <1>2 DEF Right
  <1>9. ASSUME NEW d \in DOMAIN tracker'.chanstates \ awaited', NEW v \in On(d)' \ twice'
        PROVE  Tracked(d, v)'
    <2>1. d \notin awaited /\ v \in On(d) /\ v \notin twice /\ present'[d][v] = present[d][v]
      BY <1>3, <1>7 DEF On, Same
    <2>2. Tracked(d, v)
      BY <1>1, <1>7, <2>1 DEF Entered
    <2> QED
      BY <1>2, <1>8, <2>1, <2>2 DEF Tracked, KeyOf
  <1>10. ASSUME twice' = {}, NEW d \in DOMAIN tracker'.chanstates, NEW z \in DOMAIN tracker'.chanstates[d]
         PROVE  Right(tracker', d, z) /\ \E v \in On(d)' : KeyOf(v)' = z
    <2>1. Right(tracker, d, z) /\ \E v \in On(d) : KeyOf(v) = z
      BY <1>1, <1>2, <1>7, <1>10 DEF Entered
    <2> QED
      BY <1>7, <1>8, <2>1 DEF On, Same, KeyOf
  <1>11. Entered'
    BY <1>6, <1>9, <1>10 DEF Entered
  <1> QED
    BY <1>2, <1>5, <1>11 DEF TrackInv

\* The client is on one more, the names of which are to come.
LEMMA AcceptsTracked ==
    ASSUME TrackInv, NEW c \in Chans, Accepts(c)
    PROVE  TrackInv'
  <1> DEFINE k == KeyOf(Me)
  <1>1. /\ UsersOK /\ Prefixes(tracker) /\ Entered /\ Connected /\ Me \notin On(c)
        /\ UNCHANGED <<connection, nickof, twice>> /\ awaited' = awaited \cup {c}
    BY DEF TrackInv, Accepts
  <1>2. /\ Prefixes(tracker') /\ Extends(tracker', tracker, k)
        /\ DOMAIN tracker'.chanstates = DOMAIN tracker.chanstates \cup {c}
        /\ \A d \in DOMAIN tracker.chanstates : d # c => tracker'.chanstates[d] = tracker.chanstates[d]
        /\ DOMAIN tracker'.chanstates[c] = {k}
        /\ tracker'.chanstates[c][k].prefix = tracker'.memberprefixes[k]
    <2>1. tracker' = OnOwnJoin(tracker, c, nickof[Me])
      BY DEF Accepts
    <2> QED
      BY <1>1, <2>1, OnOwnJoinIs DEF KeyOf
  <1> HIDE DEF k
  <1>3. /\ DOMAIN present' = Chans /\ DOMAIN present'[c] = On(c) \cup {Me} /\ present'[c][Me] = {}
        /\ \A v \in On(c) : present'[c][v] = present[c][v]
        /\ \A d \in Chans : d # c => Same(d)
    BY <1>1 DEF Accepts, UsersOK, Same, With, On
  <1>4. ASSUME NEW d \in Chans
        PROVE  /\ DOMAIN present'[d] \subseteq Others \cup {Me}
               /\ Me \in DOMAIN present'[d] <=> Me \in On(d) \/ d = c
               /\ \A v \in DOMAIN present'[d] : present'[d][v] \subseteq {"o"}
    <2>1. On(d) \subseteq Others \cup {Me} /\ \A v \in On(d) : present[d][v] \subseteq {"o"}
      BY <1>1 DEF UsersOK
    <2>2. CASE d = c
      BY <1>3, <2>1, <2>2
    <2>3. CASE d # c
      BY <1>3, <2>1, <2>3 DEF Same
    <2> QED
      BY <2>2, <2>3
  <1>5. UsersOK'
    BY <1>1, <1>3, <1>4, UsersKeep
  <1>6. DOMAIN tracker'.chanstates = {d \in Chans : Me \in On(d)'}
    BY <1>1, <1>2, <1>4 DEF Entered, On
  <1>7. ASSUME NEW d \in DOMAIN tracker'.chanstates, d # c
        PROVE  d \in DOMAIN tracker.chanstates /\ d \in Chans /\ Same(d)
    BY <1>1, <1>2, <1>3, <1>7 DEF Entered
  <1>8. ASSUME NEW d \in DOMAIN tracker.chanstates, d # c, NEW z, Right(tracker, d, z)
        PROVE  Right(tracker', d, z)
    BY <1>2, <1>8 DEF Right, Extends
  <1>9. ASSUME NEW d \in DOMAIN tracker'.chanstates \ awaited', NEW v \in On(d)' \ twice'
        PROVE  Tracked(d, v)'
    <2>1. d \notin awaited /\ d # c
      BY <1>1
    <2>2. v \in On(d) /\ v \notin twice /\ present'[d][v] = present[d][v]
      BY <1>1, <1>7, <2>1 DEF On, Same
    <2>3. Tracked(d, v)
      BY <1>1, <1>7, <2>1, <2>2 DEF Entered
    <2>4. KeyOf(v)' = KeyOf(v)
      BY <1>1 DEF KeyOf
    <2> QED
      BY <1>2, <1>7, <1>8, <2>1, <2>2, <2>3, <2>4 DEF Tracked
  <1>10. ASSUME twice' = {}, NEW d \in DOMAIN tracker'.chanstates, NEW z \in DOMAIN tracker'.chanstates[d]
         PROVE  Right(tracker', d, z) /\ \E v \in On(d)' : KeyOf(v)' = z
    <2>1. CASE d = c
      <3>1. z = k /\ Right(tracker', d, z)
        BY <1>2, <2>1, <1>10 DEF Right, Extends
      <3>2. Me \in On(d)' /\ KeyOf(Me)' = k
        BY <1>1, <1>3, <2>1 DEF On, KeyOf, k
      <3> QED
        BY <3>1, <3>2
    <2>2. CASE d # c
      <3>1. Right(tracker, d, z) /\ \E v \in On(d) : KeyOf(v) = z
        BY <1>1, <1>2, <1>7, <1>10, <2>2 DEF Entered
      <3>2. PICK v \in On(d) : KeyOf(v) = z
        BY <3>1
      <3>3. v \in On(d)' /\ KeyOf(v)' = z
        BY <1>1, <1>7, <2>2, <3>2 DEF On, Same, KeyOf
      <3> QED
        BY <1>7, <1>8, <2>2, <3>1, <3>3
    <2> QED
      BY <2>1, <2>2
  <1>11. Entered'
    BY <1>6, <1>9, <1>10 DEF Entered
  <1> QED
    BY <1>2, <1>5, <1>11 DEF TrackInv


\* The names of a channel are sent: every user on it has an entry then, and those whose
\* entry does not have the prefix registered for the nick are exempt from now on.
LEMMA SendsNamesTracked ==
    ASSUME TrackInv, NEW c \in Chans, SendsNames(c)
    PROVE  TrackInv'
  <1> DEFINE names == {nickof[u] : u \in On(c)}
             modes == [n \in names |-> present[c][CHOOSE u \in On(c) : nickof[u] = n]]
  <1>1. /\ UsersOK /\ Prefixes(tracker) /\ Entered /\ Connected /\ Me \in On(c)
        /\ UNCHANGED <<connection, nickof, present>> /\ awaited' = awaited \ {c}
        /\ twice' = twice \cup {u \in On(c) : Strange(tracker, c, KeyOf(u))}
        /\ tracker' = OnNames(tracker, c, modes)
    BY DEF TrackInv, SendsNames, Silent, KeyOf
  <1>2. c \in DOMAIN tracker.chanstates
    BY <1>1 DEF Entered
  <1>3. /\ On(c) \subseteq Others \cup {Me} /\ IsFiniteSet(On(c))
        /\ \A u, v \in On(c) : u # v => KeyOf(u) # KeyOf(v)
    <2>1. On(c) \subseteq Others \cup {Me} /\ \A u, v \in On(c) : u # v => KeyOf(u) # KeyOf(v)
      BY <1>1 DEF UsersOK
    <2>2. IsFiniteSet(Others \cup {Me})
      BY <1>1, UserFacts, FS_AddElement
    <2> QED
      BY <2>1, <2>2, FS_Subset
  <1>4. IsFiniteSet(names)
    <2> DEFINE f == [u \in On(c) |-> nickof[u]]
    <2>1. f \in Surjection(On(c), names)
      BY DEF Surjection
    <2> HIDE DEF f, names
    <2> QED
      BY <1>3, <2>1, FS_Surjection
  <1>5. \A m, n \in names : Key[m] = Key[n] => m = n
    BY <1>3 DEF KeyOf
  <1>6. DOMAIN modes = names /\ \A u \in On(c) : modes[nickof[u]] = present[c][u]
    <2>1. \A u, v \in On(c) : nickof[u] = nickof[v] => u = v
      BY <1>3 DEF KeyOf
    <2>2. ASSUME NEW u \in On(c)
          PROVE  (CHOOSE v \in On(c) : nickof[v] = nickof[u]) = u
      BY <2>1
    <2> QED
      BY <2>2
  <1> HIDE DEF modes
  <1>7. Listed(tracker', tracker, c, modes, names)
    <2> HIDE DEF names
    <2> QED
      BY <1>1, <1>2, <1>4, <1>5, <1>6, OnNamesIs
  <1>8. \A z : z \in Keys(names) <=> \E u \in On(c) : KeyOf(u) = z
    BY DEF Keys, KeyOf
  <1>9. ASSUME NEW u \in On(c)
        PROVE  /\ KeyOf(u) \in DOMAIN tracker'.chanstates[c]
               /\ tracker'.chanstates[c][KeyOf(u)].mode = present[c][u]
               /\ KeyOf(u) \notin DOMAIN tracker.chanstates[c] => Right(tracker', c, KeyOf(u))
    <2>1. nickof[u] \in names /\ KeyOf(u) \in Keys(names)
      BY <1>8
    <2> HIDE DEF names
    <2>2. /\ KeyOf(u) \in DOMAIN tracker'.chanstates[c]
          /\ tracker'.chanstates[c][Key[nickof[u]]].mode = modes[nickof[u]]
          /\ Key[nickof[u]] \notin DOMAIN tracker.chanstates[c] => Right(tracker', c, Key[nickof[u]])
      BY <1>7, <2>1 DEF Listed
    <2> QED
      BY <1>6, <2>2 DEF KeyOf
  <1>10. ASSUME NEW d \in DOMAIN tracker.chanstates, NEW z, Right(tracker, d, z)
         PROVE  Right(tracker', d, z)
    <2> HIDE DEF names
    <2>1. CASE d = c
      BY <1>7, <1>10, <2>1 DEF Listed, More, Right
    <2>2. CASE d # c
      BY <1>7, <1>10, <2>2 DEF Listed, More, Right
    <2> QED
      BY <2>1, <2>2
  <1>11. UsersOK'
    BY <1>1, UsersKeep DEF UsersOK, On
  <1>12. /\ \A d \in Chans : On(d)' = On(d)
         /\ \A u : KeyOf(u)' = KeyOf(u)
    BY <1>1 DEF On, KeyOf
  <1>13. DOMAIN tracker'.chanstates = DOMAIN tracker.chanstates /\ Prefixes(tracker')
    BY <1>7 DEF Listed
  <1>14. DOMAIN tracker'.chanstates = {d \in Chans : Me \in On(d)'}
    BY <1>1, <1>12, <1>13 DEF Entered
  <1>15. \A d \in DOMAIN tracker.chanstates : d # c => tracker'.chanstates[d] = tracker.chanstates[d]
    BY <1>7 DEF Listed
  <1>16. ASSUME NEW d \in DOMAIN tracker'.chanstates \ awaited', NEW v \in On(d)' \ twice'
         PROVE  Tracked(d, v)'
    <2>1. d \in DOMAIN tracker.chanstates /\ d \in Chans /\ v \in On(d) /\ v \notin twice
      BY <1>1, <1>12, <1>13, <1>14
    <2>2. CASE d = c
      <3>1. ~Strange(tracker, c, KeyOf(v)) /\ v \in On(c)
        BY <1>1, <1>12, <2>1, <2>2
      <3>2. Right(tracker', c, KeyOf(v))
        <4>1. CASE KeyOf(v) \in DOMAIN tracker.chanstates[c]
          <5>1. Right(tracker, c, KeyOf(v))
            BY <3>1, <4>1 DEF Strange, Right
          <5> QED
            BY <1>2, <1>10, <5>1
        <4>2. CASE KeyOf(v) \notin DOMAIN tracker.chanstates[c]
          BY <1>9, <3>1, <4>2
        <4> QED
          BY <4>1, <4>2
      <3>3. tracker'.chanstates[c][KeyOf(v)].mode = present'[c][v]
        BY <1>1, <1>9, <3>1
      <3> QED
        BY <1>12, <2>2, <3>2, <3>3 DEF Tracked
    <2>3. CASE d # c
      <3>1. Tracked(d, v)
        BY <1>1, <2>1, <2>3 DEF Entered
      <3> QED
        BY <1>1, <1>10, <1>12, <1>15, <2>1, <2>3, <3>1 DEF Tracked
    <2> QED
      BY <2>2, <2>3
  <1>17. ASSUME twice' = {}, NEW d \in DOMAIN tracker'.chanstates, NEW z \in DOMAIN tracker'.chanstates[d]
         PROVE  Right(tracker', d, z) /\ \E v \in On(d)' : KeyOf(v)' = z
    <2>1. d \in DOMAIN tracker.chanstates /\ d \in Chans /\ twice = {}
      BY <1>1, <1>13, <1>14, <1>17
    <2>2. CASE z \in DOMAIN tracker.chanstates[d]
      <3>1. Right(tracker, d, z) /\ \E v \in On(d) : KeyOf(v) = z
        BY <1>1, <2>1, <2>2 DEF Entered
      <3> QED
        BY <1>10, <1>12, <2>1, <3>1
    <2>3. CASE z \notin DOMAIN tracker.chanstates[d]
      <3>1. d = c
        BY <1>15, <2>1, <2>3
      <3>2. z \in Keys(names)
        <4> HIDE DEF names
        <4> QED
          BY <1>7, <2>3, <3>1 DEF Listed
      <3>3. PICK u \in On(c) : KeyOf(u) = z
        BY <1>8, <3>2
      <3>4. Right(tracker', c, z)
        BY <1>9, <2>3, <3>1, <3>3
      <3> QED
        BY <1>12, <2>1, <3>1, <3>3, <3>4
    <2> QED
      BY <2>2, <2>3
  <1>18. Entered'
    BY <1>14, <1>16, <1>17 DEF Entered
  <1> QED
    BY <1>11, <1>13, <1>18 DEF TrackInv


\* A nick changes: the entries of the user are at the new key, which is no one else's.
LEMMA RenamesTracked ==
    ASSUME TrackInv, NEW u, NEW n \in Nicks, Renames(u, n)
    PROVE  TrackInv'
  <1> DEFINE old == KeyOf(u)
             new == Key[n]
  <1>1. /\ UsersOK /\ Prefixes(tracker) /\ u \in Others \cup {Me}
        /\ UNCHANGED <<connection, present, awaited, twice>> /\ setting' = setting
        /\ nickof' = [nickof EXCEPT ![u] = n]
        /\ \A v \in Others \cup {Me} : v # u => KeyOf(v) # new
        /\ tracker' = IF Connected /\ (u = Me \/ Seen(u)) THEN OnNick(tracker, nickof[u], n) ELSE tracker
    BY DEF TrackInv, Renames, Silent, KeyOf, connection
  <1>2. /\ nickof' \in [Others \cup {Me} -> Nicks] /\ KeyOf(u)' = new
        /\ \A v \in Others \cup {Me} : v # u => KeyOf(v)' = KeyOf(v)
    BY <1>1 DEF UsersOK, KeyOf
  <1> HIDE DEF new
  <1>3. /\ \A c \in Chans : On(c)' = On(c) /\ On(c) \subseteq Others \cup {Me}
        /\ Others' = Others /\ Connected' = Connected
        /\ \A v \in Others \cup {Me} : v # u => KeyOf(v) # old
    BY <1>1 DEF UsersOK, On, Others, Connected, connection
  <1> HIDE DEF old
  <1>4. UsersOK'
    <2>1. ASSUME NEW v \in Others \cup {Me}, NEW w \in Others \cup {Me}, v # w
          PROVE  KeyOf(v)' # KeyOf(w)'
      <3>1. KeyOf(v) # KeyOf(w)
        BY <1>1, <2>1 DEF UsersOK
      <3> QED
        BY <1>1, <1>2, <2>1, <3>1
    <2>2. DOMAIN present' = Chans /\ setting' \in Settings
      BY <1>1 DEF UsersOK
    <2>3. ASSUME NEW c \in Chans
          PROVE  /\ On(c)' \subseteq Others \cup {Me} /\ (Me \in On(c)' => Connected')
                 /\ \A v \in On(c)' : present'[c][v] \subseteq {"o"}
      BY <1>1, <1>3 DEF UsersOK
    <2> QED
      BY <1>2, <1>3, <2>1, <2>2, <2>3 DEF UsersOK
  <1>5. ASSUME Connected
        PROVE  Prefixes(tracker') /\ Entered'
    <2>1. Entered
      BY <1>5 DEF TrackInv
    <2>2. \A d \in DOMAIN tracker.chanstates : d \in Chans /\ Me \in On(d)
      BY <2>1 DEF Entered
    <2>3. CASE tracker' = tracker /\ (Seen(u) \/ u = Me => old \notin DOMAIN tracker.memberprefixes)
      <3>1. DOMAIN tracker'.chanstates = {d \in Chans : Me \in On(d)'}
        BY <1>3, <2>1, <2>3 DEF Entered
      <3>2. ASSUME NEW d \in DOMAIN tracker'.chanstates \ awaited', NEW v \in On(d)' \ twice'
            PROVE  Tracked(d, v)'
        <4>1. Tracked(d, v) /\ d \in Chans /\ v \in On(d)
          BY <1>1, <1>3, <2>1, <2>2, <2>3 DEF Entered
        <4>2. v # u
          <5> SUFFICES ASSUME v = u PROVE FALSE
            OBVIOUS
          <5>1. Seen(u)
            BY <2>2, <2>3, <4>1 DEF Seen
          <5>2. old \in DOMAIN tracker.memberprefixes
            BY <4>1 DEF Tracked, Right, old
          <5> QED
            BY <2>3, <5>1, <5>2
        <4>3. KeyOf(v)' = KeyOf(v)
          BY <1>2, <1>3, <4>1, <4>2
        <4> QED
          BY <1>1, <2>3, <4>1, <4>3 DEF Tracked
      <3>3. ASSUME twice' = {}, NEW d \in DOMAIN tracker'.chanstates, NEW z \in DOMAIN tracker'.chanstates[d]
            PROVE  Right(tracker', d, z) /\ \E v \in On(d)' : KeyOf(v)' = z
        <4>1. Right(tracker, d, z) /\ d \in Chans /\ \E v \in On(d) : KeyOf(v) = z
          BY <1>1, <2>1, <2>2, <2>3, <3>3 DEF Entered
        <4>2. PICK v \in On(d) : KeyOf(v) = z
          BY <4>1
        <4>3. v # u
          <5> SUFFICES ASSUME v = u PROVE FALSE
            OBVIOUS
          <5>1. Seen(u)
            BY <2>2, <2>3, <4>1, <4>2 DEF Seen
          <5>2. old \in DOMAIN tracker.memberprefixes
            BY <4>1, <4>2 DEF Right, old
          <5> QED
            BY <2>3, <5>1, <5>2
        <4>4. v \in On(d)' /\ KeyOf(v)' = z
          BY <1>2, <1>3, <4>1, <4>2, <4>3
        <4> QED
          BY <2>3, <4>1, <4>4
      <3>4. Entered'
        BY <3>1, <3>2, <3>3 DEF Entered
      <3> QED
        BY <1>1, <2>3, <3>4
    <2>4. CASE tracker' = OnNick(tracker, nickof[u], n) /\ old \in DOMAIN tracker.memberprefixes
      <3>1. /\ Prefixes(tracker') /\ tracker'.memberprefixes = Moved(tracker.memberprefixes, old, new)
            /\ DOMAIN tracker'.chanstates = DOMAIN tracker.chanstates
            /\ \A d \in DOMAIN tracker.chanstates :
                  tracker'.chanstates[d] = IF old \in DOMAIN tracker.chanstates[d]
                                           THEN Moved(tracker.chanstates[d], old, new)
                                           ELSE tracker.chanstates[d]
        BY <1>1, <2>4, OnNickIs DEF KeyOf, old, new
      <3>2. IsMoved(tracker'.memberprefixes, tracker.memberprefixes, old, new)
        BY <2>4, <3>1, MovedIs
      <3>3. ASSUME NEW d \in DOMAIN tracker.chanstates, old \in DOMAIN tracker.chanstates[d]
            PROVE  IsMoved(tracker'.chanstates[d], tracker.chanstates[d], old, new)
        <4>1. IsMoved(Moved(tracker.chanstates[d], old, new), tracker.chanstates[d], old, new)
          BY <3>3, MovedIs
        <4> QED
          BY <3>1, <3>3, <4>1
      <3>4. ASSUME NEW d \in DOMAIN tracker.chanstates, old \notin DOMAIN tracker.chanstates[d]
            PROVE  tracker'.chanstates[d] = tracker.chanstates[d]
        BY <3>1, <3>4
      <3>5. ASSUME NEW d \in DOMAIN tracker.chanstates, NEW z, Right(tracker, d, z), z # old, z # new
            PROVE  Right(tracker', d, z) /\ tracker'.chanstates[d][z] = tracker.chanstates[d][z]
        <4>1. z \in DOMAIN tracker'.memberprefixes /\ tracker'.memberprefixes[z] = tracker.memberprefixes[z]
          BY <3>2, <3>5 DEF IsMoved, Right
        <4>2. z \in DOMAIN tracker'.chanstates[d] /\ tracker'.chanstates[d][z] = tracker.chanstates[d][z]
          <5>1. CASE old \in DOMAIN tracker.chanstates[d]
            BY <3>3, <3>5, <5>1 DEF IsMoved, Right
          <5>2. CASE old \notin DOMAIN tracker.chanstates[d]
            BY <3>4, <3>5, <5>2 DEF Right
          <5> QED
            BY <5>1, <5>2
        <4> QED
          BY <3>5, <4>1, <4>2 DEF Right
      <3>6. ASSUME NEW d \in DOMAIN tracker.chanstates, Right(tracker, d, old)
            PROVE  Right(tracker', d, new) /\ tracker'.chanstates[d][new] = tracker.chanstates[d][old]
        <4>1. IsMoved(tracker'.chanstates[d], tracker.chanstates[d], old, new)
          BY <3>3, <3>6 DEF Right
        <4> QED
          BY <3>2, <3>6, <4>1 DEF IsMoved, Right
      <3>7. DOMAIN tracker'.chanstates = {d \in Chans : Me \in On(d)'}
        BY <1>3, <2>1, <3>1 DEF Entered
      <3>8. ASSUME NEW d \in DOMAIN tracker'.chanstates \ awaited', NEW v \in On(d)' \ twice'
            PROVE  Tracked(d, v)'
        <4>1. Tracked(d, v) /\ d \in Chans /\ v \in On(d) /\ d \in DOMAIN tracker.chanstates
          BY <1>1, <1>3, <2>1, <2>2, <3>1 DEF Entered
        <4>2. present'[d][v] = present[d][v]
          BY <1>1
        <4>3. CASE v = u
          BY <1>2, <3>6, <4>1, <4>2, <4>3 DEF Tracked, old
        <4>4. CASE v # u
          <5>1. KeyOf(v)' = KeyOf(v) /\ KeyOf(v) # old /\ KeyOf(v) # new
            BY <1>1, <1>2, <1>3, <4>1, <4>4
          <5> QED
            BY <3>5, <4>1, <4>2, <5>1 DEF Tracked
        <4> QED
          BY <4>3, <4>4
      <3>9. ASSUME twice' = {}, NEW d \in DOMAIN tracker'.chanstates, NEW z \in DOMAIN tracker'.chanstates[d]
            PROVE  Right(tracker', d, z) /\ \E v \in On(d)' : KeyOf(v)' = z
        <4>1. d \in Chans /\ d \in DOMAIN tracker.chanstates /\ twice = {}
          BY <1>1, <2>2, <3>1, <3>9
        <4>2. ASSUME NEW y \in DOMAIN tracker.chanstates[d]
              PROVE  Right(tracker, d, y) /\ \E v \in On(d) : KeyOf(v) = y
          BY <2>1, <4>1, <4>2 DEF Entered
        <4>3. CASE z \in DOMAIN tracker.chanstates[d] /\ z # old
          <5>1. Right(tracker, d, z) /\ \E v \in On(d) : KeyOf(v) = z
            BY <4>2, <4>3
          <5>2. PICK v \in On(d) : KeyOf(v) = z
            BY <5>1
          <5>3. v # u
            BY <4>3, <5>2 DEF old
          <5>4. z # new /\ v \in On(d)' /\ KeyOf(v)' = z
            BY <1>1, <1>2, <1>3, <4>1, <5>2, <5>3
          <5> QED
            BY <3>5, <4>1, <4>3, <5>1, <5>4
        <4>4. CASE ~(z \in DOMAIN tracker.chanstates[d] /\ z # old)
          <5>1. old \in DOMAIN tracker.chanstates[d] /\ z = new
            <6>1. CASE old \in DOMAIN tracker.chanstates[d]
              BY <3>3, <3>9, <4>1, <4>4, <6>1 DEF IsMoved
            <6>2. CASE old \notin DOMAIN tracker.chanstates[d]
              BY <3>4, <3>9, <4>1, <4>4, <6>2
            <6> QED
              BY <6>1, <6>2
          <5>2. Right(tracker, d, old) /\ \E v \in On(d) : KeyOf(v) = old
            BY <4>2, <5>1
          <5>3. u \in On(d)
            BY <1>3, <4>1, <5>2
          <5>4. u \in On(d)' /\ KeyOf(u)' = z
            BY <1>2, <1>3, <4>1, <5>1, <5>3
          <5> QED
            BY <3>6, <4>1, <5>1, <5>2, <5>4
        <4> QED
          BY <4>3, <4>4
      <3>10. Entered'
        BY <3>7, <3>8, <3>9 DEF Entered
      <3> QED
        BY <3>1, <3>10
    <2>5. \/ tracker' = tracker /\ (Seen(u) \/ u = Me => old \notin DOMAIN tracker.memberprefixes)
          \/ tracker' = OnNick(tracker, nickof[u], n) /\ old \in DOMAIN tracker.memberprefixes
      <3>1. old \notin DOMAIN tracker.memberprefixes => OnNick(tracker, nickof[u], n) = tracker
        BY DEF OnNick, old, KeyOf
      <3> QED
        BY <1>1, <1>5, <3>1
    <2> QED
      BY <2>3, <2>4, <2>5
  <1>6. ~Connected => tracker' = tracker
    BY <1>1
  <1> QED
    BY <1>1, <1>3, <1>4, <1>5, <1>6 DEF TrackInv


LEMMA AloneKeeps ==
    ASSUME TrackInv, UNCHANGED <<connection, server, tracker, twice>>
    PROVE  TrackInv'
  <1>1. UNCHANGED <<setting, state, nickof, present, awaited, tracker, twice>>
    BY DEF connection, server
  <1>2. UsersOK' /\ Prefixes(tracker') /\ (Connected' => Connected)
    BY <1>1 DEF TrackInv, UsersOK, Others, KeyOf, On, Connected
  <1>3. Entered => Entered'
    BY <1>1 DEF Entered, Tracked, KeyOf, On
  <1> QED
    BY <1>2, <1>3 DEF TrackInv

\* A connection begins and ends with the client on no channel.
LEMMA ConnectionTracked ==
    ASSUME TrackInv, Registers \/ Welcome \/ Loses
    PROVE  TrackInv'
  <1>1. /\ setting \in Settings /\ nickof \in [Others \cup {Me} -> Nicks]
        /\ \A u, v \in Others \cup {Me} : u # v => KeyOf(u) # KeyOf(v)
        /\ DOMAIN present = Chans /\ setting' = setting /\ nickof' = nickof /\ Prefixes(tracker)
    BY DEF TrackInv, UsersOK, Registers, Welcome, Loses, server
  <1>2. Others' = Others /\ \A u : KeyOf(u)' = KeyOf(u)
    BY <1>1 DEF Others, KeyOf
  <1>3. \A c \in Chans : /\ On(c) \subseteq Others \cup {Me} /\ (Me \in On(c) => Connected)
                         /\ \A u \in On(c) : present[c][u] \subseteq {"o"}
    BY DEF TrackInv, UsersOK
  <1>4. ASSUME DOMAIN present' = Chans,
               \A c \in Chans : /\ On(c)' \subseteq Others \cup {Me} /\ Me \notin On(c)'
                                /\ \A u \in On(c)' : present'[c][u] \subseteq {"o"}
        PROVE  UsersOK'
    BY <1>1, <1>2, <1>4 DEF UsersOK
  <1>5. CASE Registers
    <2>1. ~Connected /\ ~Connected' /\ tracker' = tracker /\ present' = present
      BY <1>5 DEF Registers, Connected, server
    <2>2. UsersOK'
      BY <1>1, <1>3, <1>4, <2>1 DEF On
    <2> QED
      BY <1>1, <2>1, <2>2 DEF TrackInv
  <1>6. CASE Welcome
    <2>1. ~Connected /\ tracker' = OnConnected(tracker) /\ present' = present
      BY <1>6 DEF Welcome, Connected, server
    <2>2. UsersOK'
      BY <1>1, <1>3, <1>4, <2>1 DEF On
    <2>3. Prefixes(tracker') /\ DOMAIN tracker'.chanstates = {}
      BY <1>1, <2>1, OnConnectedIs
    <2>4. \A c \in Chans : Me \notin On(c)'
      BY <1>3, <2>1 DEF On
    <2>5. Entered'
      BY <2>3, <2>4 DEF Entered
    <2> QED
      BY <2>2, <2>3, <2>5 DEF TrackInv
  <1>7. CASE Loses
    <2>1. ~Connected' /\ tracker' = tracker /\ DOMAIN present' = Chans /\ \A c \in Chans : Less(c, Me)
      BY <1>7 DEF Loses, Connected, Less, Without, Restrict, On
    <2>2. \A c \in Chans : /\ On(c)' \subseteq Others \cup {Me} /\ Me \notin On(c)'
                           /\ \A u \in On(c)' : present'[c][u] \subseteq {"o"}
      BY <1>3, <2>1 DEF Less, On
    <2>3. UsersOK'
      BY <1>4, <2>1, <2>2
    <2> QED
      BY <1>1, <2>1, <2>3 DEF TrackInv
  <1> QED
    BY <1>5, <1>6, <1>7

(* The members of a channel are tracked, from the start and in every step.   *)
THEOREM TrackerInvariantIsInductive == (Init => TrackInv) /\ (TrackInv /\ [Next]_vars => TrackInv')
  <1>1. Init => TrackInv
    <2> SUFFICES ASSUME Init PROVE TrackInv
      OBVIOUS
    <2>1. /\ setting \in Settings /\ nickof \in [Others \cup {Me} -> setting.nicks]
          /\ \A u, v \in Others \cup {Me} : u # v => KeyOf(u) # KeyOf(v)
          /\ setting.nicks \subseteq Nicks
      BY SettingsAssumption DEF Init, Others, KeyOf
    <2>2. nickof \in [Others \cup {Me} -> Nicks]
      BY <2>1
    <2>3. /\ present = [c \in Chans |-> <<>>] /\ tracker = NewTracker /\ ~Connected
      BY DEF Init, Connected
    <2>4. \A c \in Chans : On(c) = {}
      BY <2>3 DEF On
    <2>5. UsersOK
      BY <2>1, <2>2, <2>3, <2>4 DEF UsersOK
    <2>6. /\ NewTracker = Tracker(<<>>, <<>>, <<>>)
          /\ NewTracker.chanstates = <<>> /\ NewTracker.memberprefixes = <<>> /\ NewTracker.nick = <<>>
      BY DEF NewTracker, Tracker
    <2>7. IsFiniteSet(DOMAIN <<>>) /\ DOMAIN <<>> = {}
      BY FS_EmptySet
    <2>8. Prefixes(NewTracker)
      BY <2>6, <2>7 DEF Prefixes
    <2> QED
      BY <2>3, <2>5, <2>8 DEF TrackInv
  <1>2. ASSUME TrackInv, [Next]_vars
        PROVE  TrackInv'
    <2>1. setting.chans \subseteq Chans /\ setting.nicks \subseteq Nicks
      BY <1>2, UserFacts DEF TrackInv
    <2>2. ASSUME NEW u \in Users, NEW c \in setting.chans, Joins(u, c) \/ Leaves(u, c) \/ ChangesMode(u, c)
          PROVE  TrackInv'
      BY <1>2, <2>1, <2>2, JoinsTracked, LeavesTracked, ChangesModeTracked
    <2>3. ASSUME NEW u \in Users, Quits(u) \/ \E n \in setting.nicks : Renames(u, n)
          PROVE  TrackInv'
      BY <1>2, <2>1, <2>3, QuitsTracked, RenamesTracked
    <2>4. ASSUME NEW k, Collects(k)
          PROVE  TrackInv'
      BY <1>2, <2>4, CollectsTracked
    <2>5. ASSUME NEW c \in setting.chans,
                 \/ SendsNames(c) \/ Accepts(c) \/ Ignores(c) \/ Refuses(c) \/ Parts(c)
                 \/ Kicked(c) \/ AsksFor(c) \/ AddsChannel(c) \/ LeftTimerFires(c)
          PROVE  TrackInv'
      <3>1. CASE SendsNames(c)
        BY <1>2, <2>1, <3>1, SendsNamesTracked
      <3>2. CASE Accepts(c)
        BY <1>2, <2>1, <3>2, AcceptsTracked
      <3>3. CASE Parts(c) \/ Kicked(c)
        <4>1. /\ Connected /\ Me \in On(c) /\ Removed(c) /\ tracker' = OnOwnLeave(tracker, c)
              /\ UNCHANGED <<connection, nickof, twice>>
          BY <3>3 DEF Parts, Kicked
        <4> QED
          BY <1>2, <2>1, <4>1, RemovedTracked
      <3>4. CASE Ignores(c) \/ Refuses(c) \/ AsksFor(c) \/ AddsChannel(c) \/ LeftTimerFires(c)
        <4>1. UNCHANGED <<connection, server, tracker, twice>>
          BY <3>4 DEF Ignores, Refuses, AsksFor, AddsChannel, LeftTimerFires, history
        <4> QED
          BY <1>2, <4>1, AloneKeeps
      <3> QED
        BY <2>5, <3>1, <3>2, <3>3, <3>4
    <2>6. ASSUME NEW k, Forbids(k) \/ TimerFires(k) \/ UNCHANGED vars
          PROVE  TrackInv'
      <3>1. UNCHANGED <<connection, server, tracker, twice>>
        BY <2>6 DEF Forbids, TimerFires, vars, history
      <3> QED
        BY <1>2, <3>1, AloneKeeps
    <2>7. CASE Registers \/ Welcome \/ Loses
      BY <1>2, <2>7, ConnectionTracked
    <2> QED
      BY <1>2, <2>2, <2>3, <2>4, <2>5, <2>6, <2>7 DEF Next
  <1> QED
    BY <1>1, <1>2

(* For any users, channels, nicks and case mapping the tracker has exactly   *)
(* the channels the client is on, and every member with the right mode and a *)
(* prefix that says what the nick is, but for the users who got another      *)
(* prefix than the registered one (irc.lua:944).                             *)
THEOREM MembersAlwaysTracked == Spec => []MembersTracked
  <1>1. TrackInv => MembersTracked
    <2> SUFFICES ASSUME TrackInv, Connected PROVE MembersTracked
      BY DEF MembersTracked
    <2>1. Prefixes(tracker) /\ Entered
      BY DEF TrackInv
    <2>2. ASSUME NEW c \in DOMAIN tracker.chanstates, NEW u \in On(c) \ twice, c \notin awaited
          PROVE  /\ KeyOf(u) \in DOMAIN tracker.chanstates[c]
                 /\ tracker.chanstates[c][KeyOf(u)].mode = present[c][u]
                 /\ Key[tracker.nick[tracker.chanstates[c][KeyOf(u)].prefix]] = KeyOf(u)
      <3>1. Tracked(c, u)
        BY <2>1, <2>2 DEF Entered
      <3> QED
        BY <2>1, <3>1 DEF Tracked, Right, Prefixes
    <2>3. ASSUME NEW c \in DOMAIN tracker.chanstates, twice = {}
          PROVE  DOMAIN tracker.chanstates[c] \subseteq {KeyOf(u) : u \in On(c)}
      BY <2>1, <2>3 DEF Entered
    <2> QED
      BY <2>1, <2>2, <2>3 DEF MembersTracked, Entered, KeyOf
  <1>2. Init => TrackInv
    BY TrackerInvariantIsInductive
  <1>3. TrackInv /\ [Next]_vars => TrackInv'
    BY TrackerInvariantIsInductive
  <1> QED
    BY <1>1, <1>2, <1>3, PTL DEF Spec
=============================================================================
