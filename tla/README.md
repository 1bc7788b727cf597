# A specification of TuxBot

TuxBot is an IRC bot in Lua: an event loop over `socket.select`
(`src/eventloop.lua`), an IRC client library on top of it (`src/irc.lua`), a bot
that runs commands and loads plugins (`src/bot.lua`), and the plugins
(`src/plugins/`). One of them lets anybody on a channel run Lua, in a Lua 5.1
interpreter of its own (`src/plugins/lua/luasrc/`, changed for the purpose) which
is most of the code of the repository.

The bot is a single thread. What makes it hard is that nothing in it blocks:
everything is a callback the loop calls at some later time, in an order that
depends on the network and the clock, from snapshots of tables that other
callbacks have changed in the meantime. The interpreter is hard for other
reasons: a collector that works between any two instructions, errors that jump
over frames of C, tables that rearrange themselves, a compiler that emits code
before it knows what it needs.

This directory holds TLA+ models of both, the TLC configurations that check
them, and proofs, checked by TLAPS, of the invariants of the bot and, of the
interpreter, of its collector, its calls, its tables and its sort.

Contents: [inventory](#the-system) · [modules](#the-modules) ·
[runs](#the-runs-and-what-they-show) · [bounds](#bounds) ·
[fairness](#fairness) · [proofs](#the-proofs) ·
[findings](#what-the-code-does-not-keep) · [limits](#what-is-not-modelled)

## The system

| Part | State it keeps | Operations | What is hard about it | Correct when |
|---|---|---|---|---|
| Event loop, `eventloop.lua` | two tables of handlers, keyed by fresh `{sock}` objects; a table of timers; `_exit` | add and remove handlers, `timer`, `cancel`, `step`, `run`, `exit` | handlers are called from snapshots; callbacks change the tables the pass is working on; an entry of a socket with n entries is called n times | a timer is called once, not early, not after `cancel()`; only the entry that was called is dropped; nobody starves; `exit()` ends the loop |
| Client, `irc.lua` 250-807 | `state`, socket, two handlers, one timer, output buffer, reconnection interval | `connect`, `disconnect`, `sendmessage`, `ping`, `_on_readable`, `_on_writable`, `_reconnect` | six kinds of timer share one field; read, write, timer and API calls interleave; partial writes; the peer falls silent or goes away anywhere | exactly the timer, socket and handlers each state needs; every attempt ends; every retry happens, later and later; silence is noticed; no output is stranded |
| Command queue, `bot.lua` 32-73 | a queue per client, `next_item_time`, the timers made for it | `queue`, `run_next_queued`, `send_multiline` | functions queue from inside the queue, so runs nest; each leaves a timer; a timer that comes too early is gone | whatever is accepted runs; bursts keep their distance; a reply is never cut short |
| Channel tracker, `irc.lua` 834-1115 | channels, members, modes, member prefixes in a weak table | one handler per IRC message | the garbage collector decides which prefixes are still known; nicks that differ in case only | members are those the server has |
| Auto joiner, `irc.lua` 1117-1208 | channels to rejoin with timer and interval; channels it is on | state changes, JOIN, PART, KICK, error replies, timers | survives reconnections; timers fire while disconnected | wanted channels are asked for again, others are left alone |
| Nick registration, `irc.lua` 345-357, 622-628, 692-696, 1210-1289; `bot.lua` 155-171 | the nick, the latest attempt | 433, `set_nick`, NICK, 001 | two handlers for one job; server and client disagree for a while | the client's nick is the server's |
| Text functions, `irc.lua` 15-248 | none | parsing, quoting, case mapping, mode strings | boundary cases | agree with their descriptions |
| Bot, `bot.lua` | clients, plugins, configuration | load and reload configuration, reload plugins, dispatch events, console | clients and plugins go while their timers and queued functions stay | nothing acts for what was removed |
| Relay, `plugins/relay.lua` | recently relayed texts, active members, `issendingrelay` | one handler per message, moderation commands | several networks; sends that raise; a flag around a send | each text is relayed once |
| Moderation, `plugins/tmpban.lua`, `floodkick.lua` | requests waiting for a WHO reply; flood counters; unban timers | tmpban, 352, timers | late and repeated replies; bans outlive connections | every temporary ban is lifted |
| Fetching, `plugins/urltitle`, `man.lua` | a coroutine per fetch | resumed by three handlers | which of the three comes first | sockets and handlers are given back |
| Lua command, `plugins/lua/init.lua`, `sandbox.c` | two pipes, a child with an interpreter | fork, wait, read; load, run, print | the parent waits before it reads; functions of C of its own in the interpreter | the bot goes on; the chunk runs as it would anywhere |
| Lua, memory: `lgc.c`, `lstring.c`, `lfunc.c`, barriers in `lapi.c`, `lvm.c` | objects with colours, gray lists, string table, open upvalues, userdata to finalize | steps of the collector between any two instructions, finalizers, weak tables | references change while the collector marks and sweeps | nothing reachable is freed, finalizers run once, cycles end |
| Lua, calls: `ldo.c`, parts of `lbaselib.c`, `ldebug.c` | CallInfos per thread, one C stack, jump buffers, counters | calls, returns, errors, `pcall`, `xpcall`, hooks, coroutines | an error leaves any number of frames of both kinds; limits reached inside handlers | every error lands, and leaves the stacks as `pcall` found them |
| Lua, tables: `ltable.c`, `ltm.c`, parts of `ltablib.c`, `lauxlib.c` | array part, hash part, `lastfree`, flags of absent metamethods | get, set, rehash, resize, `next`, length, insert, remove, references | keys move between the parts; dead keys; memory runs out | it is a map |
| Lua, compiler and machine: `lparser.c`, `lcode.c`, `ldebug.c`, `lvm.c` | registers, jump lists, constants, blocks, upvalues; stack, CallInfos | one rule per construct; one instruction at a time | one pass: code is patched after it was emitted | a program does what its text means |
| Lua, strings and sort: `lstrlib.c`, `ltablib.c`, the buffer of `lauxlib.c` | captures of a match; an array and pieces on the Lua stack; ranges to be sorted | find, match, gmatch, gsub, sub, concat, sort | captures are repaired on the way back; pieces joined at the right time; a comparison may answer anything | what the manual says is returned; the stack suffices |
| Lua, the rest: lexer, reader, dump, loadlib, io, os, math, `lua.c`, `luac.c` | none that concerns the parts above | - | - | - |
| Help database, `plugins/help` | a cache and a file | set, remove | the file is rewritten in place | the file has what was set |
| Reply plugins, permissions, `nickregain` | none, or constants | one command each | - | - |

How they interact: the loop calls the client's handlers and timers; the client
calls its event handlers synchronously, among them the tracker's, the auto
joiner's and the bot's; the bot calls plugins, and runs commands through the
queue; all of them call `sendmessage`, which asserts that the client is
connected and writes to the socket at once or leaves the text to the loop. There
are no other threads; the child of the Lua command is the only other process. In
it, a chunk is compiled, checked and run; the machine calls the collector, tables
and library; the library calls back.

`PROJECT.json` lists the hazards this structure exposes the code to, each at the
line where it bites, with the properties that cover it or the reason why none does.

## The modules

    TimerService   <=  EventLoop                          eventloop.lua
                           | (its pass is the phase variable of)
                       IrcClient                          irc.lua, Client
    PacedQueue     <=  CommandQueue                       bot.lua, the queue
                       Channels                           a server and a connection around
                         ChannelTracker, AutoJoiner       irc.lua, the two trackers

    LuaHeap        <=  LuaGC                              lgc.c, the barriers
    Coroutines     <=  LuaCalls                           ldo.c, the base library
    TableMap       <=  LuaTable                           ltable.c
    SourceMeaning  ==  LuaMachine                         lvm.c, ldebug.c
                         LuaParser, LuaCode, LuaValues    lparser.c, lcode.c
    PatternMeaning ==  LuaStrings                         lstrlib.c, ltablib.c
                         LuaPattern, LuaBuffer            lstrlib.c, lauxlib.c
                       LuaSort                            ltablib.c, sort

`<=` is "is implemented by": the left module says what the right one promises and
is checked, in `TimerService`, `PacedQueue`, `LuaHeap`, `Coroutines` and `TableMap`
also proved in its safety part, as a refinement. `==` is a reference definition results are compared with. Indented
modules are operators the one above them is built from. `MC...` modules are what
TLC runs; `...Proofs` modules hold the theorems.

### EventLoop, and TimerService

`readable` and `writable` map key objects to the socket they are registered for,
`timers` maps timer objects to the ticks that are left and whether they are
cancelled. `phase` is the place of `step()`: `select`, then the readable, the
writable handlers, the timers. `rcalls` and `wcalls` are the calls left of the
snapshots of lines 75-77: `select` returns a socket once per entry and each time
every entry is called, so an entry of a socket with n entries is called n times.
`active` is the callback that runs.

A callback is entered (`CallReadable`, `CallWritable`, `CallTimer`), may do any
number of operations, and returns (`ReadableReturns`, ...) with either effect on
its own entry. So callbacks change handlers and timers at every point of a pass; a
readable handler that raises stays registered (line 84 looks it up in the other
table), a writable one goes. A cancelled timer stays in the table until its time
and is then dropped (`DropTimer`). A timer made during the traversal may or may
not be reached by it, and after such an insertion Lua leaves the rest of the
traversal undefined, so from then on (`grown`) the pass may end without calling
timers that are due.

`TimerService` is what users of the timers see: made, cancelled, called once when
the time has come, and called in the end as long as the loop runs. It knows
nothing of passes. The mapping (`Remaining`, `Calling`) hides cancelled objects
and the object whose callback runs.

### IrcClient

The variables are the fields of `Client` by their names, and `phase`, `rcall`,
`wleft`, `lines`, `eof` for the pass of the loop: the readable handler yet to be
called, the calls of the writable handler left, the messages `_on_readable` has
read and not handled, and its `err == 'closed'`. `net` and `inbox` are the
connection and the receive buffer of the kernel. `writers` counts registrations
of the writable handler: `old` were in the snapshot of this pass, `new` came since.

One action is one handler call, one line of the receive loop, or one API call.
`Select` polls; `OnReadable` and `OnWritable` do what the state asks for
(`OnSocketConnected`, `DoSslHandshake`, reading, flushing); `OnWelcome`, `OnPong`,
`OnPing`, `OnOwnQuit`, `OnOther` are the branches of the receive loop,
`EndOfLines` its end with the treatment of a closed stream; `TimeoutFires`,
`PingTimerFires`, `ConnectTimerFires` are the three kinds of timer callback.
`ApiConnect`, `ApiDisconnect` and `ApiSend` are calls by other handlers of the same
loop, so they come between the handlers of a pass. The world acts through
`NetChanges`, `ServerSends`, `WelcomeAges` and `TimeComes`. The first three act
between passes only, which loses nothing: the client sees the peer at the next
poll. Timers become due at any time.

Abstractions: a message is one of five kinds (an answered request such as PING or
a CTCP, PONG to the latest PING, 001, the client's own QUIT, anything else);
`_sendbuf` is unset, empty or not; a send takes all, takes part, or fails;
intervals are counted in steps from the initial to the maximal one; the time of
the last welcome is older than the reset time or not. A callback that itself
calls `connect` or `disconnect` is not modelled; the repository has none.

### CommandQueue, and PacedQueue

Time is counted in ticks: `wait` until `next_item_time`, and `timers`, the ticks
left of each timer. `running` is the stack of functions that run: a function that
calls `queue()` runs the next item inside itself, because `next_item_time` is set
only after it returns. `Request` is `queue()` called by a handler,
`FunctionQueues` is `queue()` called by the innermost function (the next line of
`send_multiline`), `FunctionReturns` is the rest of `run_next_queued` and also
covers a function that raises, `TimerFires` is the wake-up, `RemoveClient` is what
the reloading of the configuration does.

`PacedQueue` says what this is for: bursts, a pause after each, and another burst
as long as something waits. A burst is the outermost function with everything
that runs inside it.

### Channels, with ChannelTracker and AutoJoiner

The two trackers are handlers that take a record and return what the message
makes of it. A tracker `T` has `chanstates` (channel, key of a nick, member),
`memberprefixes` and the `nick` field of every prefix object: prefixes are shared
objects, so a NICK that changes one changes every member that has it. `Held` are
those a member keeps; one that only `memberprefixes` has may be collected at any
time (`Collects`), which is how the weak values of the table appear. A joiner `J`
has `rejoining`, `on_channels`, whether it is `listening`, and the timers `left`
without an entry.

`Channels` adds the server, which knows who is present on which channel with
which mode and what everybody's nick is, and the client's connection. An action
is an event on the server with what both handlers make of its message: users
join, leave, quit, rename themselves (also to the same nick in other letters) and
get modes; the client is accepted, refused for now (471, 474, 437) or for good
(403, 475, 473, 476), kicked, or parts. Requests to join take their time and die with
the connection. `TimerFires` and `LeftTimerFires` happen in any state. The
history variables `wanted`, `given_up`, `displaced` and `twice` say what the
properties are about: channels the client is to be on, was told not to ask for,
whose timer a reply about another channel cancelled; and users who joined while
the tracker still had a prefix for their nick, or whose name came while their nick
had an entry with another prefix than the registered one (`Strange`).

### LuaGC, and LuaHeap

`LuaHeap` is a Lua program without a collector's details: objects of every kind,
the references between them, and the calls and instructions that change these
(entries of tables, metatables, upvalues opened, shared, set and closed,
coroutines that run and yield, the metatable of a basic type). A collector may do
four things to it: separate userdata nothing refers to, call their finalizers,
clear entries of weak tables, free what cannot be reached.

`LuaGC` is the collector of `lgc.c`: colours, the gray lists, propagation one
object at a time, sweeping of the string table bucket by bucket and of the list
of all objects, finalizers, and `luaC_fullgc`. Every operation of the program runs its
barrier (`luaC_barrier`, `luaC_barrierback`, `luaC_link`, the special case of
upvalues) and any step may come between two of them, which is what
`luaC_checkGC` at every allocation allows. `atomic()` is a sequence of steps
(`astep`), one per line, that the program cannot interrupt. A list is a set and its
head any member; `unswept` is what the sweep has yet to pass. `tmudata` are the
userdata whose finalizers have yet to be called: `luaC_separateudata` has taken them
out of the list of all objects, so no sweep passes them and they stay black from one
cycle to the next, where `marktmu` marks them again.

### LuaCalls, and Coroutines

`native` is the C stack shared by all threads, a sequence of frames
(`luaV_execute`, a function of C, `luaD_pcall`, a hook, the parser, `lua_resume`);
`st[t].ci` are the CallInfos of a thread. `ctl` says what happens next: a call is
made, a frame runs, a value returns, an error looks for its jump buffer. A call of
a Lua function by one adds a CallInfo to the same frame of C, anything else adds
frames, and `Throw` removes any number of both. The limits are those of the
code: `LUAI_MAXCCALLS` with the extra eighth error handlers have, `BASIC_CI_SIZE`,
`LUAI_MAXCALLS` with the overflow that allows one to be handled.

`Coroutines` is what a program is promised: one coroutine runs, those waiting for
it form a chain down to the main thread, one that has ended never runs again. Its
variable `kept` has the coroutines for which that is not so, as the findings
describe: their results are still on their stack (`vals = "values"`), and the next
resume takes the topmost one for the function to start with. It may be a Lua
function, a function of C the program uses, or nothing that can be called (`Values`);
`luaV_execute` is entered for the first only (`Resumed`). When the function of C
yields, the next resume has no function to go on with (`Stranded`): `ctl` is "crash",
after which nothing happens. `Coroutines` allows that for a coroutine in `kept` only.
`SandboxSpec` adds what `print` of `sandbox.c` does, which has no return value.

### LuaTable, and TableMap

`arr` and `node` are the two parts, `lastfree` and `flags` as in the code, nodes
are chained by indices. The hashes are those of the code: the bits of a double
modulo an odd number, strings modulo a power of two. Inserting follows `newkey`
with its colliding nodes, free pointer, `rehash` and its counts; `next`, `luaH_getn`
with both searches, the raw loops of `tinsert` and `tremove`, and `luaL_ref` with
the free list it keeps in the table are whole operations; `SetList` is the
constructor's OP_SETLIST, `Shifted` the loops of raw assignments. `SetFails` is a
resize for which there is no memory.

`TableMap` is a map that can be traversed while fields of it change or go, used
as a list, and that hands out references; `torn` says that memory ran out, after
which it promises nothing.

### LuaMachine, LuaParser, LuaCode, and SourceMeaning

`LuaCode` and `LuaParser` are the compiler as operators on its state: the
`FuncState` with its code, constants, free register, active variables, jump lists
(threaded through the jumps, as in the code), blocks and upvalues; the tokens
left; the enclosing functions. Every function of `lcode.c` and `lparser.c` that
emits code has its operator of the same name. `sound` collects the assertions of
the compiler, which the build compiles out. `LuaMachine` loads a program, checks
the prototypes as `ldebug.c` does (`CheckCode`), and runs one instruction a step on one
stack, with open and closed upvalues, varargs, tail calls and open results.

`SourceMeaning` gives the same syntax trees a meaning without any of this:
variables are cells, scopes are maps from names to cells. It also spells a tree
as tokens, with the parentheses the priorities of the manual require and no
others, so that the parser reads what a programmer would write.

### LuaStrings, LuaPattern, LuaBuffer, and PatternMeaning

`LuaPattern` is the matcher with its captures, which are set on the way down and
restored on the way back; the `\0` behind a text is a character of its own, and
nothing beyond it exists. `LuaBuffer` is `luaL_Buffer`: an array of fixed size,
strings on the stack, and `adjuststack`. In `LuaStrings` the loops of `gmatch`, `gsub`
and `concat` make one turn a step; the other functions end at once. The matcher
is handed to the actions as an operator, because TLC keeps statistics for each
chain of calls below an action.

`PatternMeaning` knows no search and no position in a pattern: an item has the
alternatives it stands for in the order the manual prefers them, a pattern
matches in the first combination that fits, captures are values.

### LuaSort

`auxsort` with its variables; a step is one comparison and all that follows until the
next. `callers` are the ranges of the calls of itself that are open. The
comparison is an order (equal elements can be told apart), one that also says yes
for equals, or answers anything and may raise. What it then reads outside the range, the
code reads too: the elements around the array are part of the table.
`MCLuaLibrary` is a call of the library or a sort.

## The runs and what they show

| Run | Instance | States | Checks |
|---|---|---|---|
| `client` | 2 timer objects, 2 messages in the buffer, 2 steps of backoff, registrations told apart up to 1 | 914 thousand | six invariants, one action property, three liveness properties |
| `client_fullread`, `client_quit` | 1 message | until violated | one statement of the documentation each, see the findings |
| `eventloop` | 2 sockets, 1 readable and 2 writable entries, 2 timers, delay up to 1 | 100 thousand | the invariant, one action property, the refinement of `TimerService`, two liveness properties |
| `queue` | 3 items, intervals up to 2, replies of up to 2 further lines | 12 thousand | two invariants, one liveness property, the refinement of `PacedQueue` |
| `channels` | 2 users on 1 channel, 1 user on 1 channel with a nick to change to, 1 user on 2 channels, and a joiner of 2 channels; 4 nicks, two of which differ in case only | 997 thousand | two invariants |
| `lua_gc` | 8 programs of 2 to 4 objects, 2 references on a stack, 1 entry in a table | 331 thousand | three invariants, the refinement of `LuaHeap`, one liveness property |
| `lua_calls` | 7 programs, 3 threads, 4 C calls and 1 more for handlers, 4 calls of Lua; the two coroutines symmetric | 581 thousand | three invariants, the refinement of `Coroutines` |
| `lua_print` | the same, 3 C calls | until violated | one statement of a comment, see the findings |
| `lua_table` | 8 programs, keys 1 to 5 and three strings, or events, or lists of 3 | 62 thousand | three invariants, the refinement of `TableMap` |
| `lua_compile` | 3246 programs | 107 thousand | three invariants |
| `lua_library` | 74,058 calls; sorts of up to 7 elements with every order of three ranks (two for 7), of up to 5 with any comparison | 391 thousand | three invariants |

- **`client`.** `TimerMatchesState`: at most one timer runs, it is the one
  `_timer` can cancel, and it is the one the state needs. `SocketToClose`:
  `_reconnect` never meets a nil socket. `PassMatchesState` and
  `HandlersMatchState`: whatever was selected before the client changed, lines are
  only handled where messages can be answered, and the handlers are those of the
  current connection. `NoStuckOutput`: text in `_sendbuf` always has a
  registration that will send it, although each call drops one. `BackoffGrows`:
  attempts that fail come later and later, whatever happens in between.
  `AttemptEnds`: connecting, handshake and registration end even if the peer
  never speaks. `RetryHappens`: a scheduled retry is made. `SilenceNoticed`:
  nobody stays connected to a server that does not answer pings.
- **`eventloop`.** `LoopInv`: types, and while a timer's callback runs its object
  stays in the table, so that cancelling it or making new ones cannot call it
  again. `OnlyTheCalledEntryGoes`: what a handler returns decides about its own
  entry only, which `_on_writable` relies on when it registers itself anew and
  returns false. `TimersKeepTheirPromise`: the loop implements `TimerService`.
  `NoStarvation`, `ExitEnds`.
- **`queue`.** `QInv`: types; the next line of a reply always finds room; while
  there is a time to wait for, a timer at least as late is there. `WakeUpPending`:
  with something queued and nothing running, a timer is on its way that does not
  come before `next_item_time`. `AcceptedIsRun`. `BurstsArePaced`: the queue implements
  `PacedQueue`.
- **`channels`.** `MembersTracked`: the tracker has exactly the channels the
  client is on, and once the names have come exactly their members, under their
  nicks, with their modes, whatever was renamed, collected or lost in between.
  `KeepsAsking`: a channel that is wanted is one the client is on, or is asked for
  again on this connection and the next. Both have one exemption, which is a finding.
- **`lua_gc`.** `NoDangling`: whatever is reachable, weakly or not, is allocated
  and not condemned. `BlackToWhite`: what the barriers are for. `BooksInOrder`:
  one list an object at most, nothing gray that no list has, nothing swept that
  still carries an old mark. `HeapSpec`: the collector does nothing but the four
  things; a weak entry goes only with its object, a finalizer is called once.
  `CyclesEnd`: barriers never keep a cycle from ending.
- **`lua_calls`.** `FramesMatch`: a thread has the CallInfos its frames of C run,
  after any errors, yields and tail calls. `StatesRestored`: the count of C calls
  and the open upvalues are what the frames say. `JumpsLand`: `errorJmp` is a frame
  that still exists, handler and hooks are those of the frame. `CoroutinesPromise`:
  one that has ended never runs again, and a suspended one can go on, unless it kept
  its results.
- **`lua_table`.** `WellFormed`: sizes, chains, and that a colliding node is never
  away from its main position on behalf of another such. `BorderFound`: length is
  a border, of a torn table too. `FlagsSound`: no metamethod is remembered as absent that is there.
  `MapPromise`: the table is the map, a traversal sees every key once, insert and
  remove shift, a reference is not handed out twice.
- **`lua_compile`.** `CodeIsSound`: no assertion of the compiler fails, the code
  passes the check. `TopAsAsserted`: the assertion of the main loop.
  `RunsAsWritten`: calls of the library with their arguments, results and errors
  are those of `SourceMeaning`, and texts that are no program are refused, those one
  step beyond a limit too.
- **`lua_library`.** `StringsMean`: results and errors are those of
  `PatternMeaning`. `StackFits`: a buffer never has more pieces than it may, and
  `auxsort` has no more calls of itself open than the size has binary digits.
  `SortSound`: elements are kept; with an order, the comments of `auxsort` hold and
  the result is sorted.

Every property has a mutant in `PROJECT.json`: a plausible slip in the code (a
timer not cancelled, a barrier left out, an off-by-one), under which TLC finds
the property violated. Their comments call them faulty, or a mutant or mutation.

The results of the compiler for all 3246 programs, and of the 74,058 library
calls, were also compared with the interpreter built from the source: opcodes,
results and messages agree.

### Bounds

The proofs do not depend on any of these numbers; they matter for what is only
model-checked.

- `client`. A client replaces its timer while the old object may still be in the
  table, which takes two; more cannot differ, as `TimerMatchesState` shows all but
  one to be idle. `MaxInbox` 2: a message handled after another of the same read,
  in particular after one that changed the state. `MaxBackoff` 2: an interval that
  grows, and one at its maximum. `MaxWriters` 1: in each half, no registration or
  some; the count saturates, and losing a registration is possible or not.
- `eventloop`. Two writable entries are the fewest that can share a socket, or
  belong to two. A delay of 0 or 1 makes timers that are due at once, later in the
  same pass, or after it.
- `queue`. A queue of 3 fills, with items from outside and lines of replies;
  intervals 1 and 2 make an older timer come before or after a newer
  `next_item_time`.
- `channels`. Two users and the client have all three keys there are, so a nick
  changes its key only when somebody is gone; one user has a key to change to. A user
  shares two channels with the client, so one prefix has two holders. The members of a
  channel and the joiner's tables influence each other only through the presence
  of the client, so the joiner has an instance of its own.
- `lua_gc`. Each program is about one kind of reference: weak values, weak keys
  that refer to themselves through a userdata, finalizers that make an object
  reachable again, a coroutine with an open upvalue, an upvalue shared by
  closures, the metatable of a basic type, two userdata of which one still waits for
  its finalizer when the next cycle marks, strings sharing a bucket of a table that
  grows and shrinks. An error of the collector takes an object the collector
  has done with, one it has not seen, and a root; two references on the stack are
  enough to move one between them.
- `lua_calls`. With 4 C calls and 1 in reserve, a protected call of a function
  that itself protects one reaches the limit, and its handler the second limit;
  `BASIC_CI_SIZE` 1 and `LUAI_MAXCALLS` 4 make the CallInfos grow, overflow, be
  allowed to overflow once, and shrink. Each program combines the features that
  nest in each other. Programs end, so deadlock is not checked here and in `lua_print`.
- `lua_table`. Five integer keys fill an array of 4 (`MaxBits` 2) and leave one in
  the hash part; hashes 1, 5, 2, 3 and 7 put strings in the same and in different
  places of 1, 2 and 4 nodes. A program assigns in any order, so every
  shape the keys can give a table occurs.
- `lua_compile`. The limits are small so that they are met: only the first
  constants fit an operand, a constructor stores two items at once, nine locals,
  four upvalues, and one register or level of nesting more than there are, are
  refused, and one less is compiled. Most programs put a condition of two
  operators, over operands of each kind, into every position an expression can
  have; the others combine targets and values of assignments, parameters,
  arguments and results of functions, bodies and tests of loops whose variables
  are captured, and the constructs left.
- `lua_library`. Texts of up to four characters, patterns of up to three items,
  all positions around both ends. `BufferSize` 3 and `Limit` 3 make pieces
  overflow and join. Seven elements make a division whose parts are divided again.

### Fairness

Of the loop: it goes on (weak fairness of its steps), because it is
a single thread whose `select` waits at most five seconds and whose handlers
return. In `IrcClient` this is one condition for all steps of a pass, since a
pass leaves only one step open at a time, or steps each of which it takes in turn.
In `EventLoop` a traversal of the timers ends even if callbacks insert timers
(the table can only be walked once), and it does not pass over the same due timer
every time: strong fairness of `EndTimers` and of each `CallTimer(t)`; the second
is an assumption about Lua's tables, not a guarantee of its manual. Of the clock:
timers become due (`TimeComes`, `Tick`). In `CommandQueue`: functions return and
due timers are called, which is what `TimerService` provides. Nothing is assumed of the
peer, of users, or of other callers. In `LuaGC` the collector goes on, which it does
while the program allocates: every allocation calls `luaC_checkGC`, which, when it
is time, does steps until it has done enough. The other models state no fairness.

`CHECK_DEADLOCK` is switched off only in `lua_calls` and `lua_print`, whose
programs end; in `lua_compile` and `lua_library` the end is a step that repeats itself.

## The proofs

TLAPS checks eight modules; together they state, for all values of the constants:

| Module | Theorem | Statement |
|---|---|---|
| `IrcClientProofs` | `InvariantIsInductive`, `InvariantHolds` | the six invariants of `client` together |
| | `TypeCorrect`, `TimerAlwaysMatches`, `SocketAlwaysThere`, `PassAlwaysMatches`, `HandlersAlwaysMatch`, `OutputNeverStuck` | each of them |
| | `BackoffAlwaysGrows` | the action property of `client` |
| `CommandQueueProofs` | `QueueInvariantIsInductive`, `QueueInvariantHolds`, `QueueTypeCorrect`, `WakeUpAlwaysPending`, `AlwaysRoomForTheRest` | the two invariants of `queue`, and parts of the first |
| | `QueueIsPaced` | the queue starts and steps as `PacedQueue` allows |
| `EventLoopProofs` | `LoopInvariantIsInductive`, `LoopInvariantHolds`, `LoopTypeCorrect`, `ActiveAlwaysInItsPass`, `EntriesStay` | the invariant, its parts and the action property of `eventloop` |
| | `LoopServesTimers` | the loop starts and steps as `TimerService` allows |
| `ChannelsProofs` | `JoinerInvariantIsInductive`, `JoinerKeepsAsking` | `KeepsAsking` of `channels` |
| | `TrackerInvariantIsInductive`, `MembersAlwaysTracked` | `MembersTracked` of `channels` |
| `LuaGCProofs` | `NothingDangles`, `BarriersHold`, `BooksHold` | the three invariants of `lua_gc` |
| | `CollectorImplementsHeap` | the collector does what `LuaHeap` allows |
| `LuaCallsProofs` | `InOrderAlways` | the frames of C determine every `lua_State` |
| | `StatesAlwaysRestored`, `FramesAlwaysMatch`, `JumpsAlwaysLand` | the three invariants of `lua_calls`, for any number of coroutines and any limits |
| | `CallsImplementCoroutines` | the calls do what `Coroutines` promises |
| `LuaTableProofs` | `TableInvariantIsInductive` | what the chains of a table keep, whatever is done with it |
| | `TableIsWellFormed`, `TableBorderFound`, `TableFlagsSound` | the three invariants of `lua_table`, for any keys, hashes, sizes and programs |
| | `TableImplementsMap` | the table is the map of `TableMap` |
| `LuaSortProofs` | `SortInvariantIsInductive`, `SortAlwaysSound` | `SortSound` of `lua_library`, for tables of any size and any order |

**Assumptions.** `IrcClient`: `None` is no timer object; the bounds are positive.
`CommandQueue`: `MaxQueue` and `MaxInterval` are positive, `MaxLines` is a natural
number. `EventLoop`: the sets of keys are finite, `MaxDelay` is a natural number,
`None` is none of the things it stands in for. `Channels`: `Key` maps the nicks,
no channel is called like a nick, `None` is no channel; the client is none of
the other users, of whom there are finitely many. `LuaHeap`: the kinds of objects are disjoint, the main thread
and the registry are objects of theirs. `LuaGC`: the string table has a least size and
hashes are numbers. `LuaCalls`: programs use the functions and features that are
modelled; the limits are positive, and `MaxCalls` is at least `BasicCI`. `LuaTable`: nil is no key and no
value, strings are no integers, hashes are natural numbers; the integers that occur
as keys include the indices of the array part, of lists up to `MaxLen`, and those
between 0 and any of them; a program that uses a table as a list, or for references,
does nothing else to that table: `TableMap` promises nothing of `table.insert` on a table
with holes, nor of references that a program overwrites. `LuaSort`: an order ranks the elements by integers; `None` is no
element. TLC evaluates each of them in the runs.

**The client.** The invariant is the conjunction of the six, and none of them is
inductive alone. That `_reconnect` finds a socket needs the timer to match the
state and the state to have a socket; that the timer matches the state needs the
pass to be where the receive loop can be; that needs the handlers to match. The
proof goes by the operations: `ReconnectKeeps`, `ConnectKeeps`, `HandshakeDoneKeeps`
say once what each establishes from the timers it starts with, and every handler
and timer that calls one cites the lemma. `BackoffGrows` goes through the steps that
touch the interval (`IntervalSteps`); the others leave it or end the attempt.

**The queue.** `WakeUpPending` is about the moments when nothing runs.
`WakeUpReady` extends it to a queue that is empty: while `wait` is positive, a
timer at least as late exists, so an item accepted meanwhile has one. Timers and
`wait` count down together, which keeps the order (`LessKeepsOrder`).
`RoomForTheRest` needs `OnlyInnermostGoesOn`: only the innermost function still
has lines to queue, and when it starts an item has just been taken out of the
queue; and `ForgottenIsEmpty`: a client that was removed has an empty queue.

**The loop.** The type invariant with `ActiveInItsPass`: a callback never meets a
pass that has moved on. From it each step maps to one step of `TimerService` or to
none; the interesting ones are `CallTimer`, which takes the timer out of the
user's view while the object stays in the table, and `TimerReturns`, which
removes the object and is invisible.

**The joiner.** `AskInv` adds to `KeepsAsking` that the entry of a channel holds
that channel's own timer, if any (entries under the client's nick may have any:
that is the finding), and that the joiner listens exactly while the client is
connected: between a lost connection and the next welcome there is nobody to hear
a reply. Lemmas say of each handler which entries and timers it keeps.

**The tracker.** `TrackInv` is about prefixes: those of members and those registered
are there, and a registered one has a nick of its key (`Prefixes`). The entry of a
member who is not exempt is `Right`: its prefix is the one registered for its key. That is
what keeps the prefix from being collected and what a NICK looks for; while nobody is
exempt, every entry is right and somebody's, so no entry is in the way of a new nick
(`Entered`). Lemmas say of each handler which entries it changes. The names of a channel
arrive as a fold over a set; `NamesListed` takes its iterations as a function on the
subsets and the least number of names for which the claim would fail.
The proof needed what the run had not shown: a user who is listed under a nick that an
exempt user left behind takes over the old entry, and is exempt too (`Strange`).

**The collector.** `IInv` is about any number of objects, programs and cycles.
`NoDangling` has to survive the sweep, so the proof must show that what is white when
marking ends is not reachable. `Marking` says it line by line of `atomic()`: while
`propagate` runs, a black object refers to marked ones only; after the upvalues
(`astep` 1) so does every marked upvalue, after the roots and the weak tables (2) so do
the running thread, the metatables of basic types and, by their strong references, the
weak tables; after `grayagain` (3) what is left there is a thread that has been
traversed; after `marktmu` (4) so do the userdata to be finalized. With the gray list
empty, what is marked is then closed under references (`AllReached`), and `AllLive`,
which says that an object is dead only while the sweep is on its way to it, survives the
change of the current white. `Colours` is the reason barriers may skip some kinds: a
userdata is never gray, strings and threads never black, an open upvalue never black.
`Sweeping` says what the sweeps have passed. That every thread that has been
resumed is marked, since the stack of each refers to the next, takes an induction along
`calls`; it is done as an argument about the least counterexample (`LeastNat`). The
refinement uses that "cannot be reached" in `LuaHeap` means that some set without the
object has the roots and is closed under references (`OutOfReach`), which the marked
objects are.

**The calls.** What a `lua_State` holds is spread over the frames of C: each has
counted its C calls, pushed its CallInfos, set the jump buffer or forbidden hooks. The
invariant turns that around. `Imply` adds up, frame by frame, what the frames below
imply for the thread that runs there, and `IInv` says that there is such a sum `g` for
the whole stack (`StackInv`) which every running, waiting or yielded thread agrees with
(`StatesInv`). What `luaD_pcall` and `resume` have saved for the case of an error is what
the frames below them imply (`Saved`), so an error that cuts the stack there and puts
back what was saved keeps the invariant (`ThrowKeeps`), through however many frames,
handlers and hooks it goes. That a C call is never missing from the count rests on
`lua_yield` refusing when `nCcalls` is above `baseCcalls`: a thread that yields then has
exactly the frames of `lua_resume` and of the machine above it, and its CallInfos are
those of Lua functions, or only that of `yield` when `lua_resume` itself has called it
(`YieldsFrom`, `Yielded`). One lemma per action follows, then
those that compare the sums of the invariants with `g` (`SumIs`).

The refinement takes the chain of `Coroutines` from the frames: `ChainOf` appends the
thread of every frame of `lua_resume` (`Links`), so its last thread is the one that runs,
and a thread is resumed only when it has no frames (`Placed`). A step of the running
thread either leaves the chain and the states of all other threads alone (`Calm`), or an
error cuts the chain to where its jump buffer is and kills its last thread (`Fails`).
That an error never removes more than one thread is the part that takes the invariant:
the innermost protected call of a coroutine is in the coroutine or is the `lua_resume`
that runs it (`Lands`). Results are kept only by a coroutine that has ended (`Kept`),
and a crash takes such a one: a stranded coroutine was started with what it kept, as
`coroutine.create` takes no function of C (`CrashPromise`, `OnlyThenCrashes`).

**The tables.** What the comment of `ltable.c:16` says (`MainInvariant`: an element that
is not in its main position collided with one that is in its own) is not inductive: an
insertion that splices a node into a chain needs the chain to end, to hold every key
whose main position it begins in, and to be left by no other node into its middle.
`TableInvariant` says so: the chains are `Linked`, end (`Ranked`), each node has one
before it (`OneBefore`), nodes without a key are on none (`FreeApart`), every key is
reached from its main position, where a key is at home (`Homes`), and a key that is not
dead has one node (`OneNode`). `newkey` has three cases (`HomeKeeps`, `AfterKeeps`,
`MovingKeeps`), the last with the predecessor that the loop over the other chain looks for.
It never dereferences the end of a chain, since the node in the way is reached from the
main position of its own key. That `resize` reinserts without another rehash
is a matter of counting: what `computesizes` leaves for the hash part is at least the
elements that move out of the array, the nodes that go there again and the new key
(`Moved`, `Again`), and free nodes are all below `lastfree` (`Below`, which a table
torn by lack of memory loses). The loops are folds; a claim about them is taken as a
function on subsets of the indices, and refuted at the least one it would fail for. The
two searches of `luaH_getn` recurse without a bound in sight; `TailRecursion` gives their
values, and `EndIs` the bound: a table has a largest integer key. `FlagsSound` needs only that
whatever sets a field clears the flags, but `Get` of a name has to find the node
`Put` has made or reused, which is `OneNode` again.

That a table is a map (`MapPromise`) needs three things more of the table itself. No node
has a key that the array part has a slot for (`NoShadow`): an array that shrinks or grows
in `resize` would uncover or hide a value. What an insertion, a rehash, the constructor's
loop or a loop of raw assignments does to every key is then one statement each (`Sets`,
`ResizeIs`, `Given`, `ShiftedTo`). And of two nodes with the same key, one dead, the live
one comes first on the chain (`LiveFirst`): `findindex` of `luaH_next` takes a dead key
for the key it was, and would otherwise go on from the slot the key had before. The refinement
adds an invariant for each use. A traversal that no new field has disturbed stands at a
slot, and the fields in use up to it are exactly those it has returned (`At`); an assignment
to a field that is present, a removal and a collection leave slots where they are
(`StoreAt`, `SameSlots`). A list has the fields from one to its length and no other
(`Listed`), so the border found is its only one. The references given back form a list that
ends in field zero, disjoint from those in use, and all others up to the length are
present (`RefList`, `InUse`): that is why `luaL_ref` may take the length for the first
reference never handed out, but only when that list is empty.

**The sort.** The ranges still to be sorted, the current one and those of the
callers, are `Apart` and in order. Two elements that are out of order are always
together in one of them (`SettledIn`); so when none is left the table is sorted.
Inside the current range, `Partitioned` is what the comments of `auxsort` say of
`a[l..i-1]` and `a[j+1..u]`; it bounds `i` and `j`, and when they have met it
makes the two parts ranges between which nothing is out of order. With a
comparison that is no order, `Indices` still bounds everything, and `KeptIn` says
that elements are only exchanged.

**Only model-checked:** everything temporal beyond safety, that is `AttemptEnds`,
`RetryHappens`, `SilenceNoticed`, `NoStarvation`, `ExitEnds`, `AcceptedIsRun`,
`CyclesEnd` and the fairness of the abstract modules, as TLAPS reasons neither
about fairness nor about `ENABLED`. The buffer and `FewCallers` (powers of two) take
inductions the provers cannot instantiate. The compiler, the machine and the matcher are recursive, like the
meaning they are compared with, which is outside of what TLAPS can reach. The
statements the code violates have counterexamples from TLC.

## What the code does not keep

- **A full read ends the connection** (`client_fullread`). `receive(8192)` has a
  first result only if all 8192 bytes were there, and `irc.lua:611` then reports a
  closed stream.
- **A client that has quit comes back** (`client_quit`). `irc.lua:747-751` leaves the
  ping timer running; it calls `_reconnect`.
- **The interval stops growing** (the exemption in `BackoffGrows`). `irc.lua:265`
  promises that the interval is multiplied after every attempt.
  `_time_last_connected` is never cleared, so once the last welcome is older than
  `reconnection_interval_reset_time`, line 462 sets it back at every failure.
- **"reconnecting" without a retry** (the exemption in `TimerMatchesState`).
  `disconnect()` at `irc.lua:502` cancels the timer and leaves the state; without an
  initial interval `_reconnect` raises after it has set the state.
- **A member with two prefixes** (the exemption in `MembersTracked`). `irc.lua:944`
  stores the prefix of a JOIN and leaves an older one registered, which may be
  collected; then a NICK renames nobody. The entry that stays behind is taken for
  that of the next user who is listed under the nick (`irc.lua:1082`).
- **Two refused channels share one timer** (the exemption in `KeepsAsking`).
  `irc.lua:1179`: the replies are filed under the nick, not the channel, and the
  second cancels the timer of the first.
- **`print` returns nothing to C** (`lua_print`). `sandbox.c:115` has no return
  value; a negative one is taken for a yield, in the middle of the chunk's calls.
- **A dead coroutine that is suspended** (`kept` of `Coroutines`).
  `lbaselib.c:452`: results that do not fit stay on its stack, and it is taken for one
  that has not started.
- **A coroutine that cannot go on** (`Crash` of `Coroutines`). `ldo.c:405`: what such a
  one is started with may be a function of C, which `lbaselib.c:498` refuses to a fresh
  one. If it is `coroutine.yield`, the next resume runs `luaV_execute` on `base_ci`,
  which has no function. An interpreter built from these sources ends with a
  segmentation fault there: the coroutine returns 8000 values, the last of them
  `coroutine.yield`, and is resumed three times.
- **A table torn by lack of memory** (`torn` of `TableMap`). `ltable.c:302`: the array
  part grows before the hash part is allocated, and elements stay where they are no
  longer looked for.
- **`find` with a closing parenthesis** (`StringsMean` allows it). `lstrlib.c:170`:
  `SPECIALS` lacks `)`, so `find` takes for text what `match` refuses.

Remarks without consequence: `ltable.c:12-13` says that at least half of the
array is in use, `computesizes` wants more than half. `luaC_barrierf` asserts (in
builds with assertions) that no barrier is needed while finalizers run, but a userdata
that waits for its own is black then and may get a new metatable; the barrier only
turns it white.

## What is not modelled

Within the modelled parts:

- *Client.* The nick, 005 and user modes (`OnOther`); `ssl.wrap` returning nil
  (`irc.lua:532`), after which a client stays "connecting" with no timer; the
  socket a quit left open when `connect()` replaces it (486); `set_nick` outside a
  connection, whose event does not exist (350); what is lost when a send fails for
  another reason than a full buffer (775); the number of writable registrations
  beyond `MaxWriters`, which the code does not bound (`eventloop.lua:44`): no property
  limits it, the model only makes the calls it causes. Handlers the loop holds weakly (`eventloop.lua:13`) are all
  held by the client. `IrcClient` waits for all due timers before a pass ends; the
  passing over is in `EventLoop`.
- *Queue.* A function makes at most one call of `queue()` on its client, as those of
  the repository do.
- *Trackers.* Hosts, topics, creation times, modes of channels and their
  parameters, a 005 that changes the case mapping in the middle of a session; the
  lengths of the rejoin intervals, and an interval that is nil.
- *Lua, memory.* Prototypes and environments as references, the thresholds
  (when `luaC_step` runs and how much it does is left open), `lua_newstate` and
  `lua_close`.
- *Lua, calls.* Values on the stacks, and the growth of the stack of values. The call
  and return hooks of functions of C (`ldo.c:317`, `ldo.c:347`): `CallHook` is that of
  Lua functions, so hooks run on frames of `luaV_execute` only.
- *Lua, tables.* Keys other than integers and strings; sizes beyond the bounds.
- *Lua, compiler and machine.* The lexer; line numbers and names for messages;
  numbers other than integers, even quotients and one infinity; comparison and
  coercion of strings; hints for sizes (`luaO_int2fb`); the tracing of registers by
  `symbexec`, which is for messages only; orders of evaluation the manual leaves
  open; that a program ends, since `RunsAsWritten` speaks of what it prints, returns
  and raises, and a loop that goes on in silence does none of these; metatables, coroutines and caught errors, which are in the other modules.
- *Lua, library.* `format`, `rep`, `reverse`, the functions on case and bytes,
  `dump`, checks of arguments; a comparison that changes the table it sorts.

Whole parts, and why:

- *Nick registration*, where the order of steps is the server's, and *text
  functions*, which have no state and no order: unit tests reach both. That each
  433 asks for a longer nick without end (`bot.lua:159`) shows in one line.
- *Bot.* Loading replaces tables and calls the configuration's functions; the
  hazard in it, a client removed with queued functions and timers, is in
  `CommandQueue`. `bot.lua:114` calls the list of handlers instead of its element,
  which any test of it shows.
- *Relay, moderation, fetching, permissions, help, reply plugins.* Each has a few
  variables of its own and depends, for what is hard in it, on being called while
  the client cannot send, which `IrcClient` and `Channels` have. Comparing texts,
  hosts, HTTP, HTML and a file is the rest of their work. What stands out in their
  lines: a ban is lifted by one message that may not be sendable (`tmpban.lua:22`),
  answered requests are not removed, as line 26 uses another key than line 17; a send
  that raises leaves `issendingrelay` set (`relay.lua:40`); the texts to recognise
  are all forgotten every 15 seconds, however new (`relay.lua:9`); the help database is
  truncated before it is written (`help/init.lua:18`).
- *Lua command.* Pipes, `fork` and `wait` are calls of the system. That the parent
  waits for the child before it reads (`plugins/lua/init.lua:51`), so that a child
  that fills the pipe stops both, needs no interleaving to see.
- *Lua, the rest.* It keeps no state the other parts depend on. Of its libraries
  the interpreter of the sandbox opens those for mathematics, time and debugging.
