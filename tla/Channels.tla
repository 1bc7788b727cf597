----------------------------- MODULE Channels ------------------------------
(* A ChannelTracker and an AutoJoiner of one client, and the server that     *)
(* tells them what happens.  Messages arrive in the order the server sends   *)
(* them, so a step is an event on the server with what the handlers make of  *)
(* its message; requests to join take their time, and are lost with the      *)
(* connection.                                                               *)
EXTENDS ChannelTracker, AutoJoiner

CONSTANTS Users, Me,
          Settings      \* each has others, chans and nicks: the users, channels and nicks
                        \* there are; and joiner, whether an AutoJoiner is attached

\* A name of a channel is no nick, the client is none of the others, and the
\* settings stay inside what there is.
ASSUME NamesAssumption == /\ DOMAIN Key = Nicks
                          /\ Chans \cap Range(Key) = {}
                          /\ None \notin Chans
ASSUME SettingsAssumption == \A s \in Settings :
    /\ Me \notin s.others /\ IsFiniteSet(s.others)
    /\ s.chans \subseteq Chans /\ s.nicks \subseteq Nicks

VARIABLES setting,
          state,        \* of the client: "connected", "registering" or, for all others, "offline"
          nickof,       \* user |-> nick
          present,      \* channel |-> user |-> modes there
          awaited,      \* channels joined whose names were not sent yet
          requests,     \* what a JOIN was sent for
          tracker, joiner,
          \* history, for the properties:
          twice,        \* users whose JOIN or name met an older prefix
          wanted,       \* channels to be on
          given_up,     \* refused for good since the client is connected
          displaced     \* channels whose timer a reply about another one cancelled
connection == <<setting, state>>
server == <<nickof, present, awaited>>
history == <<twice, wanted, given_up, displaced>>
vars == <<connection, server, requests, tracker, joiner, history>>

Connected == state = "connected"
On(c) == DOMAIN present[c]
Seen(u) == \E c \in Chans : {Me, u} \subseteq On(c)
MyKey == Key[nickof[Me]]
Others == setting.others

(* --------------------- the other users, and modes ------------------------ *)
Silent == UNCHANGED <<connection, requests, joiner, wanted, given_up, displaced>>

Joins(u, c) ==
    /\ u \in Others /\ u \notin On(c)
    /\ present' = [present EXCEPT ![c] = With(@, u, {})]
    /\ IF Connected /\ Me \in On(c)
       THEN /\ tracker' = OnJoin(tracker, c, nickof[u])
            /\ twice' = IF Key[nickof[u]] \in DOMAIN tracker.memberprefixes THEN twice \cup {u} ELSE twice
       ELSE UNCHANGED <<tracker, twice>>
    /\ UNCHANGED <<nickof, awaited>> /\ Silent

\* PART and KICK
Leaves(u, c) ==
    /\ u \in Others \cap On(c)
    /\ present' = [present EXCEPT ![c] = Without(@, u)]
    /\ tracker' = IF Connected /\ Me \in On(c) THEN OnLeave(tracker, c, nickof[u]) ELSE tracker
    /\ UNCHANGED <<nickof, awaited, twice>> /\ Silent

Quits(u) ==
    /\ u \in Others
    /\ present' = [c \in Chans |-> Without(present[c], u)]
    /\ tracker' = IF Connected /\ Seen(u) THEN OnQuit(tracker, nickof[u]) ELSE tracker
    /\ UNCHANGED <<nickof, awaited, twice>> /\ Silent

Renames(u, n) ==
    /\ u \in Others \cup {Me} /\ n # nickof[u]
    /\ \A v \in Others \cup {Me} : v # u => Key[nickof[v]] # Key[n]
    /\ u = Me => Connected
    /\ nickof' = [nickof EXCEPT ![u] = n]
    /\ tracker' = IF Connected /\ (u = Me \/ Seen(u)) THEN OnNick(tracker, nickof[u], n) ELSE tracker
    /\ UNCHANGED <<present, awaited, twice>> /\ Silent

ChangesMode(u, c) ==
    /\ u \in Others \cap On(c)
    /\ \E positive \in BOOLEAN :
         /\ present' = [present EXCEPT ![c][u] = IF positive THEN {"o"} ELSE {}]
         /\ tracker' = IF Connected /\ Me \in On(c)
                       THEN OnMode(tracker, c, nickof[u], "o", positive) ELSE tracker
    /\ UNCHANGED <<nickof, awaited, twice>> /\ Silent

\* an entry that does not have the prefix registered for its key
Strange(T, c, k) ==
    /\ k \in DOMAIN T.chanstates[c]
    /\ k \in DOMAIN T.memberprefixes => T.memberprefixes[k] # T.chanstates[c][k].prefix

\* after a join, and whenever somebody asks
SendsNames(c) ==
    /\ Connected /\ Me \in On(c)
    /\ LET names == {nickof[u] : u \in On(c)}
           modes == [n \in names |-> present[c][CHOOSE u \in On(c) : nickof[u] = n]]
       IN tracker' = OnNames(tracker, c, modes)
    /\ awaited' = awaited \ {c}
    /\ twice' = twice \cup {u \in On(c) : Strange(tracker, c, Key[nickof[u]])}
    /\ UNCHANGED <<nickof, present>> /\ Silent

Collects(k) ==
    /\ Collectable(tracker, k)
    /\ tracker' = Collected(tracker, k)
    /\ UNCHANGED <<server, twice>> /\ Silent

(* ----------------------------- the client -------------------------------- *)
JoinerTold(J) == joiner' = IF joiner.listening THEN J ELSE joiner
\* J is what becomes of the joiner: timers of other channels it cancels
Cancelled(J, c) == {d \in Running(joiner) : d # c /\ d \notin Running(J)}

\* the server answers a request, which may be for any name
Accepts(c) ==
    /\ Connected /\ c \in requests \cap Chans /\ Me \notin On(c)
    /\ requests' = requests \ {c}
    /\ present' = [present EXCEPT ![c] = With(@, Me, {})] /\ awaited' = awaited \cup {c}
    /\ tracker' = OnOwnJoin(tracker, c, nickof[Me])
    /\ JoinerTold(OwnJoin(joiner, c))
    /\ wanted' = wanted \cup {c} /\ displaced' = displaced \ {c}
    /\ UNCHANGED <<connection, nickof, twice, given_up>>
Ignores(c) ==
    /\ Connected /\ c \in requests \cap Chans /\ Me \in On(c)
    /\ requests' = requests \ {c}
    /\ UNCHANGED <<connection, server, tracker, joiner, history>>
Refuses(c) ==
    /\ Connected /\ c \in requests \cap Chans /\ Me \notin On(c)
    /\ setting.joiner
    /\ requests' = requests \ {c}
    /\ JoinerTold(Refused(joiner, MyKey, c))
    /\ displaced' = (displaced \cup Cancelled(joiner', c)) \ {c}
    /\ UNCHANGED <<connection, server, tracker, twice, wanted, given_up>>
Forbids(c) ==
    /\ Connected /\ c \in requests /\ (c \in Chans => Me \notin On(c))
    /\ setting.joiner
    /\ requests' = requests \ {c}
    /\ JoinerTold(Forbidden(joiner, MyKey, c))
    /\ displaced' = displaced \cup Cancelled(joiner', c)
    /\ given_up' = given_up \cup {c}
    /\ UNCHANGED <<connection, server, tracker, twice, wanted>>

Removed(c) == present' = [present EXCEPT ![c] = Without(@, Me)] /\ awaited' = awaited \ {c}
Parts(c) ==
    /\ Connected /\ Me \in On(c)
    /\ Removed(c)
    /\ tracker' = OnOwnLeave(tracker, c)
    /\ JoinerTold(OwnPart(joiner, c))
    /\ wanted' = wanted \ {c}
    /\ UNCHANGED <<connection, nickof, requests, twice, given_up, displaced>>
Kicked(c) ==
    /\ Connected /\ Me \in On(c)
    /\ Removed(c)
    /\ tracker' = OnOwnLeave(tracker, c)
    /\ JoinerTold(OwnKick(joiner, c))
    /\ given_up' = given_up \ {c}
    /\ UNCHANGED <<connection, nickof, requests, twice, wanted, displaced>>

\* sendmessage raises where it cannot send; a server forgets a JOIN before the welcome
Sent(names) == requests' = IF Connected THEN requests \cup names ELSE requests

\* A command asks for a channel; addchannel does, and remembers it.
AsksFor(c) ==
    /\ Connected /\ ~setting.joiner /\ Sent({c})
    /\ UNCHANGED <<connection, server, tracker, joiner, history>>
AddsChannel(c) ==
    /\ setting.joiner
    /\ joiner' = AddChannel(joiner, c)
    /\ Sent({c})
    /\ wanted' = wanted \cup {c}
    /\ UNCHANGED <<connection, server, tracker, twice, given_up, displaced>>

\* a rejoin timer, in any state of the client
TimerFires(k) ==
    /\ k \in DOMAIN joiner.rejoining /\ joiner.rejoining[k] # None
    /\ joiner' = Fired(joiner, k)
    /\ Sent({joiner.rejoining[k]} \cap DOMAIN joiner.rejoining)
    /\ UNCHANGED <<connection, server, tracker, history>>
LeftTimerFires(c) ==
    /\ c \in joiner.left
    /\ joiner' = FiredLeft(joiner, c)
    /\ Sent({c} \cap DOMAIN joiner.rejoining)
    /\ UNCHANGED <<connection, server, tracker, history>>

(* --------------------------- the connection ------------------------------ *)
Registers ==
    /\ state = "offline" /\ state' = "registering"
    /\ UNCHANGED <<setting, server, requests, tracker, joiner, history>>
Welcome ==
    /\ state = "registering" /\ state' = "connected"
    /\ tracker' = OnConnected(tracker)
    /\ IF setting.joiner THEN joiner' = JoinerConnected(joiner) /\ requests' = Wanted(joiner)
       ELSE UNCHANGED <<joiner, requests>>
    /\ twice' = {} /\ given_up' = {} /\ displaced' = {}
    /\ UNCHANGED <<setting, server, wanted>>
Loses ==
    /\ state # "offline" /\ state' = "offline"
    /\ present' = [c \in Chans |-> Without(present[c], Me)]
    /\ awaited' = {} /\ requests' = {}
    /\ joiner' = IF setting.joiner THEN ConnectionLost(joiner) ELSE joiner
    /\ UNCHANGED <<setting, nickof, tracker, history>>

Init ==
    /\ setting \in Settings
    /\ state = "offline"
    /\ nickof \in {f \in [Others \cup {Me} -> setting.nicks] : \A u, v \in DOMAIN f : u # v => Key[f[u]] # Key[f[v]]}
    /\ present = [c \in Chans |-> <<>>] /\ awaited = {} /\ requests = {}
    /\ tracker = NewTracker
    /\ \E autojoin \in IF setting.joiner THEN SUBSET setting.chans ELSE {{}} :
         joiner = NewJoiner(autojoin) /\ wanted = autojoin
    /\ twice = {} /\ given_up = {} /\ displaced = {}

Next ==
    \/ \E u \in Users, c \in setting.chans : Joins(u, c) \/ Leaves(u, c) \/ ChangesMode(u, c)
    \/ \E u \in Users : Quits(u) \/ \E n \in setting.nicks : Renames(u, n)
    \/ \E k \in {Key[n] : n \in setting.nicks} : Collects(k)
    \/ \E c \in setting.chans : \/ SendsNames(c) \/ Accepts(c) \/ Ignores(c) \/ Refuses(c) \/ Parts(c)
                        \/ Kicked(c) \/ AsksFor(c) \/ AddsChannel(c) \/ LeftTimerFires(c)
    \/ \E k \in setting.chans \cup {Key[n] : n \in setting.nicks} : Forbids(k) \/ TimerFires(k)
    \/ Registers \/ Welcome \/ Loses
Spec == Init /\ [][Next]_vars
-----------------------------------------------------------------------------
(* "Keep track of the channels a Client is in, and their members"            *)
(* (irc.lua:806): the table has exactly the channels the client is on; and   *)
(* once the names of a channel have come, exactly its members, each under    *)
(* its nick, with its mode, and with a prefix that says what the nick is (up *)
(* to case: a prefix not collected yet keeps the spelling it had).           *)
(* Exempt are users whose JOIN came while the tracker had a prefix for their *)
(* nick: they get another one (irc.lua:944), which a NICK does not change,   *)
(* and the first may be collected, after which a NICK is not followed.  The  *)
(* entry they leave behind then is taken for that of another user who is     *)
(* listed under this nick (irc.lua:1082).                                    *)
MembersTracked ==
    Connected =>
    /\ DOMAIN tracker.chanstates = {c \in Chans : Me \in On(c)}
    /\ \A c \in DOMAIN tracker.chanstates :
         LET members == tracker.chanstates[c] IN
         /\ \A u \in On(c) \ twice : c \notin awaited =>
              /\ Key[nickof[u]] \in DOMAIN members
              /\ members[Key[nickof[u]]].mode = present[c][u]
              /\ Key[tracker.nick[members[Key[nickof[u]]].prefix]] = Key[nickof[u]]
         /\ twice = {} => DOMAIN members \subseteq {Key[nickof[u]] : u \in On(c)}

(* A channel the client is to be on is never forgotten: it is on it and      *)
(* knows, or the next connection asks for it; and as long as this one lasts  *)
(* it keeps asking, unless it is told not to.  Exempt are channels whose     *)
(* timer was cancelled by a reply about another channel: all replies are     *)
(* filed under the nick of the client (irc.lua:1179).                        *)
KeepsAsking ==
    setting.joiner => \A c \in wanted :
    /\ c \in DOMAIN joiner.rejoining \/ (Me \in On(c) /\ c \in joiner.on)
    /\ (Connected /\ Me \notin On(c) /\ c \notin given_up \cup displaced)
          => c \in requests \cup Running(joiner)
=============================================================================
