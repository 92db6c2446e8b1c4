# GNUWorld in TLA+

GNUWorld is a C++ daemon that links to an IRC network as a server of its own (the P10
protocol of ircu) and runs *modules* in it: services such as a channel service, an operator
service or channel repair. This directory holds TLA+ modules for its core and for the services,
the TLC configurations that check them and the theorems TLAPS proves about them. `PROJECT.json`
maps every definition to the lines it models. Paths below are those of the repository.

## 1. The system

One process, one main thread. `xServer::mainLoop()` (src/main.cc) alternates between
`ConnectionManager::Poll()`, which reads the uplink and calls the handler of each message, and
`CheckTimers()`, which calls timers that are due. Handlers and timers call modules, modules
call `xServer` and `xClient` back, and these change the same tables and post further events
before they return: most of what is hard here is reentrancy, not parallelism. The other
sources of difficulty are the link, where what we write and what the uplink writes cross; the
database, whose tables, caches and two threads go their own ways; and the clock.

| component | where | state | operations | correct if | modelled in |
|---|---|---|---|---|---|
| timers | src/server_timers.cc | timerQueue, uniqueTimerMap, lastTimerID | RegisterTimer, UnRegisterTimer, CheckTimers, removeAllTimers | identifiers unique, no timer of a deleted module runs, none starves | Timers |
| module loading | src/server.cc, src/*TimerHandler.cc | clientModuleList | Load/Unload/ReloadClient, doShutdown | a reload brings the module back; none is deleted while its code is on the stack | Timers |
| network tables | src/Network.cc | servers, clients, nicks, local and fake ones, reserved numerics | add/remove of each, rehashNick, findLeaves, allocation | the tables agree with one another and with the network | Network, P10 |
| server and client handlers | libircu/msg_{S,SQ,N,Q,D,JU,Server}.cc | - | one per message | no null pointer, removal announced to modules | Network, P10 |
| attaching | src/server.cc | - | Attach/Detach Client and Server, SquitServer | numerics given back, tables and network agree | Network, P10 |
| channel tables | src/Channel.cc, src/iClient.cc | channelMap, userList, channelList, creation time, modes | add/remove user, onMode*, removeAllModes | both halves of a membership agree; timestamps never rise | Channels, ChannelModes |
| channel handlers | libircu/msg_{J,C,L,K,B,M,CM}.cc | - | one per message | nothing deleted is used after an event | Channels, ChannelModes |
| channel calls | src/server.cc, src/client.cc | - | Join, Part, Kick, Kill, BurstChannel; Mode, Op, Voice, Ban, ClearMode | what is written is what is kept | Channels, ChannelModes |
| events | src/server_events.cc | eventList, channelEventMap | Register*, UnRegister*, Post* | every listener told, none that is gone | EventLists |
| uplink connection, main loop | src/server_connection.cc, src/main.cc | serverConnection, keepRunning, lastLoop | OnConnect, OnRead, Write, doShutdown | the pointer leads to a connection, a shutdown ends | Uplink |
| ConnectionManager | libgnuworld/ConnectionManager.cc | handlerMap, eraseMap | Connect, Disconnect, Poll | each connection told one end, deleted once | Connections |
| glines | src/server_glines.cc, libircu/msg_GL.cc, mod.ccontrol, mod.cservice | four copies | set, remove, expire, burst, load, queue | the copies follow each other | Glines |
| access lists | mod.cservice | sqlLevelCache, levels, forceMap | ADDUSER, REMUSER, MODINFO, SUSPEND, ... | memory and table agree; nobody acts above himself | AccessRules, ChannelAccess |
| registered channels | mod.cservice | banList, join limit, flags | OP, DEOP, KICK, BAN, SET, ... and events | the settings of the channel are enforced | ChannelGuard |
| scores | mod.openchanfix | sqlChanOps, dirty, pendingDeletes | points, rotation, sync, load | what is written is what there was | Scores |
| fixing | mod.openchanfix | autoFixQ, manFixQ | autoFix, processQueue, CHANFIX, REQUESTOP, BLOCK | a fix starts, ends, and gives ops back | Fixing |
| threads, notifiers | libgnuworld/threadworker.cc, libnotifier/ | job queue, notifiers | submitJob, rehash, removal | no job runs on a deleted object, every job runs | Notifier |
| burst output, other handlers | libircu/msg_{EB,DS,T,AC}.cc | burstHoldBuffer | WriteBurstBuffer | nothing written before what it depends on | - |
| text and containers | libgnuworld/{match,MTrie,StringTokenizer,misc}.cc | - | match, find, erase | as their definition | - |
| configuration, database, hashing | libgnuworld/EConfig.cc, MigrationChecker.cc, db/ | files, SQL | - | I/O | - |
| connection limits | mod.ccontrol | ipLispVector, ipLnbVector, ipLnumericMap, counts | LIMITS, EVT_NICK, EVT_QUIT, iauth | the counts are those of the network, whatever was edited | Limits |
| operators | mod.ccontrol | usersMap, accountsMap, ccUserData | LOGIN, DEAUTH, single sign on, ADDUSER, REMUSER, MODUSER, SUSPEND | a session has two halves; nobody is who he did not show to be | Opers |
| rest of mod.cservice, mod.ccontrol | | users, notes, applications, ignores, exceptions | commands, timers, events | counters equal the network | - |
| mod.nickserv | | warnQueue | queue timer, events | no dead client in the queue | - |
| mod.dronescan, cloner, stats, snoop, gnutest, clientExample | | | | | - |

`PROJECT.json` lists these components with their status and the hazards, each at the line where
it bites. "not modelled" above and below is always said of operations, and why is in section 6.

## 2. What is modelled

### Timers, TimerQueue

*TimerQueue* has the state and what is promised of it, *Timers* the actions. State: the timer queue with times relative to the clock (`Tick` ages every timer, so the state
space is finite), the identifier set, the counter, whether `CheckTimers()` is on the stack and
with which timer (`info`), the attached modules. `BeginCheckTimers`, `BeginOnTimer`,
`EndOnTimer`, `EndCheckTimers` are `CheckTimers()` cut at the points where a handler runs; between
`BeginOnTimer` and `EndOnTimer` client code may register and unregister timers and ask for a
reload, as it may in `Poll()`. `RegisterTimer` takes any time, the present and the past included, and the
`CheckTimers()` under way then runs the timer too. A reload is the two timer requests the code makes
(`UnloadClient`, `LoadClient`); `Request(...)` is the queue entry of either. The `data` pointer of a
timer is left out. Loading may fail (`failed`).

### Network and P10

`Network` has the tables of `xNetwork` that hold servers, clients and nicks, and one action per
handler and per call that changes them, for any message a correct uplink can send: the weakest
environment, good for invariants. Objects are known by their numerics. A set of servers is
removed with its clients, nicks and reservations in one step, as the recursion of
`removeServer()` runs without an interruption other than the events, collected in `quits`.

`P10` composes `Network` with the uplink (external) and two FIFO queues. It restricts the messages
to those that arrive, and lets them cross with what we write; so it can say what `Network` cannot:
that the tables equal the network once the link is quiet. `NetworkSpec`, which is the specification of
`Network`, is a property of P10's run: the composition implements it, that is, every handler is
called only where `Network` allows it.

A *scene* (constant `Scenes`, variable `scene`) is chosen in the initial state and selects which of
the next-state relation a behaviour uses: here collisions with our own clients and kills, or jupes. It never
changes what an action does. `Channels` and `ChannelGuard` (there `setting`) do the same; several instances
then share one run.

### Channels

The tables of channels and members, six handlers, and the calls that join, part, kick and kill.
A handler that posts an event can be interrupted by the modules; what it still has to do is a
*task* on `stack`, together with the pointers it keeps. When a step deletes a channel or a
client, every task on the stack that holds a pointer to it gets the pointer marked `dead`. A task
whose next part uses a dead pointer cannot run; `Crash` sets `freed` instead. `Uses` lists, per
task, which pointers the code really dereferences: `PostChannelEvent()` looks the channel up
again before it goes on, `PostChannelKick()` does not. Events are told to a listener for all
channels first and to one of the channel second, each of which may act (`React`).

Creation times are small numbers; 0 is "no time given", as in `JoinChannel()`. Operators are the
only channel mode; voices, keys, limits and bans behave the same under `removeAllModes()`. `sent`
records the timestamps a service's join was written with, and whether the clock had advanced when a channel was made without
one given (`late`). `Rejoin` is `xClient::Join()` of a service that is on the channel already, which resets it before it is refused.

### ChannelModes

One channel that always has somebody on it (Channels is about the empty one): `table` is the `Channel` of this server,
`net` the channel as the network has it. `Perform` is what `Op()`, `DeOp()`, `Voice()`, `Ban()`, ... have in common: the bot
must be an operator, or joins as one for the call; what is to change is written in `Chunks` of `MAX_CHAN_MODES`
and then done in the table. `ServerMode` is `xServer::Mode()`: `Parse` reads one change after the other, some take
effect as they are read, the rest at the end, and a change that cannot be made ends the call with nothing written.
`ModeNoLimit` is a call with +l 0, or with a limit that is no number: written without its argument, it takes that of the next change.
`MODECommand` is mod.cservice's MODE, which edits the table itself before and after it calls `Mode()`, and does not call it if
only one letter and no sign was given (`Wanted`).
`ClearMode`, a join with modes, and the messages M, CM and B are the others. The network (external) applies what it gets if
the sender may, and drops arguments beyond the limit. Messages do not cross here. A scene gives the modes and clients of a
behaviour. `spoiled` is a history variable: the modes a call has changed in the table only, by a known defect (section 4),
until something sets them right.

### EventLists

Who is told of an event. `lists` holds `eventList` and the lists `channelEventMap` leads to. A post
walks over a list; the module it is at may register, unregister, post another event, create or
destroy a channel before the walk goes on (`Tell`). A `std::list` node added behind is reached, one
erased elsewhere is not, and the one the walk is at must not be erased: `lost`, and `UseErased` is
the undefined step. An event of a channel walks over the listeners of all channels first;
`PostChannelEvent()` then looks the channel and its listeners up by name, `PostChannelKick()` and the mode
events only the listeners. If the channel has gone, the entry of the map is erased and the list leaked; a
walk over it goes on (`live` is false). `registered` is the modules' view: what they asked for.
Removing a module posts EVT_QUIT first, to the module itself too.

Channels has two listeners only and asks what their actions do to the handlers; EventLists asks who is
told, and leaves the handlers out. `MCServer` has the instances of both for TLC: a behaviour is one of the first or of the second
(`scope`).

### Connections and Uplink

`Connections` is `ConnectionManager` with a fixed set of addresses for `Connection` objects, so that an address
is used again. `Poll()` is cut where it calls a handler: `select()` chooses what is ready, each connection is
visited in three stages (read, write, test of the result), the erasure comes last. The operators `Visited`,
`Disconnect`, `scheduleErasure`, `Farewell` are composed by the handlers. `Uplink` EXTENDS it with two handlers: the
server, whose main loop keeps a pointer to what `Poll()` deletes, and the scanner module, which connects to check an
address and disconnects in the middle of a read. The loop's program counter follows `mainLoop()`, including the last
iteration after `Shutdown()`, where `doShutdown()` closes the connection with a flush. A name that does not resolve
(`Connect()` returns NULL), a refused, lost or timed out connection, an interrupted `select()` are choices.

### Glines

One gline on a host and one on a real name, in four places: the list of `xServer` (`core`), the list of mod.ccontrol
(`memory`) and its table (`table`), the list of mod.cservice (`cs`). Messages of the network, commands, the expiry of
three owners, ccontrol's queue, loading at the start and reloads change them; `EVT_GLINE` and `EVT_REMGLINE` are
part of the action that posts them. A query that fails is a choice per handler (`fails` bounds it), with what the code
makes of it: some return before they change memory, some after. `Restart` and `Reload` throw memory away.

### AccessRules and ChannelAccess

`AccessRules` is the abstract specification: who may change which record of an access list, in terms of levels,
suspension and forced access only. `ChannelAccess` has the records in memory, the rows in the database, suspension
with its expiry, forced access of admins, global suspension of an account, and every command and timer that changes
one: registration, PURGE, ADDUSER, REMUSER, MODINFO, SUSPEND, UNSUSPEND, CLEAR, FORCE, the deletion of an account by
suspension, the website that writes rows by itself and `updateLevels()` that reads them. Any query may fail. The
refinement mapping takes a record to its access and the level it is suspended at while that lasts; `RulesSpec` is the
specification of the instance `Rules`.

### ChannelGuard

One registered channel and what mod.cservice enforces on it. Each action is a whole handler with the handlers it
causes: the bot's own `Op()`, `DeOp()`, `Kick()` change the tables and post the event before they return. Every way to
become an operator (mode, burst, create, auto op, OP, login, the bot being opped) and every way to be on the channel is
an action, as are the bans with `maxBans` and the timer of the join limit with its identifiers. `lockedBy` is the mode the limit sets on the network: of the bot, of a user, or left
there by a bot that was no operator when the limit ended. `OpBotAnd` is a message that ops the bot and others, whom the loop over
`theTargets` has still to look at when the bot kicks. A mask is known by the clients
it matches (`Matches`), which may be others than the one whose `createBan()` it is (`HostMask`); accounts may be shared.

### Scores and Fixing

Two modules with one instance, `MCChanfix`: a behaviour is one of the first or of the second (`part`).

`Scores`: points per operator and day in memory, `dirty` and `pendingDeletes`, the snapshot a thread is given, the two
tables it writes in one transaction, the rotation at midnight that reuses slots, the orderly end with the last sync,
crash and load. `Fixing`: one channel, the two queues it may be in, the age of `fixStart` and `lastAttempt`, the bot's
presence, every way into a queue (autoFix, CHANFIX, REQUESTOP) and out of it (done, expired, an operator opped, BLOCK,
split). Scores are fixed there, times are ages that stop where the required score is lowest.

### Limits and Opers

Two more parts of mod.ccontrol. `Opers` shares the instance `MCControl` with `Glines`: a behaviour is one of the first or of the
second (`part`).

`Limits`: an ISP has netblocks; a client is counted in the netblocks that `Selected` takes for its address, by the sum of
each, by the prefix its address has (`Key`), and in the ISP by its user name (`UserKey`). `Count` and `Drop` are
`isIpLClientAllowed()` and `ipLDropClient()`: the second goes by a list that the first left under the numeric, and by the
settings of the moment. Every subcommand of LIMITS is an action with the recount it causes; `Reload`, which most of them
end with, may lose netblocks to the database. An address is a number and a prefix a set of them (`Cut`). `missed`,
`overlooked` and `spoiled` are history variables for what is known not to be counted, or not where it should be (section 4); `fault` is the use of freed memory, or a
client taken off counts it is not in.

`Opers`: a user, in `usersMap` (`listed`) and `accountsMap`, has clients and remembers the numeric and timestamp of
the last login; a client has its `ccUserData` (`dbUser`). `handleAC`, `OkAuthUser`, `AuthUser` and `deAuthUser` are the functions of
those names; events, LOGIN, DEAUTH, ADDUSER, REMUSER, the options of MODUSER and SUSPEND are actions. `earned` is a history variable:
which client, by numeric and timestamp, has shown to be which user, and has not logged out since.

### Notifier

The logger of mod.cservice, its pushover client and the `ThreadWorker`. What is done under the mutex is one step,
`notify_one()` is one of its own, the wait can end spuriously. A client is the address of an object held by two
`shared_ptr`s (of the module, of the logger) and by jobs as a raw pointer. `rehashConfigVariables()` makes, changes and
deletes it; the destructor takes the module's members in the order C++ does: pushover, the worker with the join, and
the logger, which belongs to the base class, last. That order is what keeps queued jobs valid. `MCUplink` has an
instance of it beside `Uplink`, with behaviours of its own.

## 3. What the runs show

| run | instance | result |
|---|---|---|
| timers | 2 modules, 4 identifiers, queue of 2 timers of clients, 1 second of lag, as long as a load waits | 4 properties |
| network | 4 servers, 1 fake server, 1 client per server, 2 nicks, any legal message | 3 |
| p10 | 4 servers; our own clients, 2 nicks and kills, or jupes and their removal; 2 messages each way | 3 |
| modes | 1 channel, 1 bot, two modes at a time, 1 client (2 for +o, none for +k with +l), 2 values, 2 masks one of which covers the other, messages of one argument | 1 |
| channels | 2 channels, 1 service, 2 clients, modules join and kick from channels they are on; or 1 channel, our own burst, a fake client, every reaction; or events: 2 modules, 1 system event, 1 channel and all channels, 2 posts at once | 5 |
| uplink | 2 connection objects, 2 handlers, clock 0..2, time-out 1; or 2 clients of pushover, 2 keys, 3 messages | 4 |
| access | a manager, a second user, an admin; "*" and one STRICTOP channel; 1 failed query or edit by the website | 4 |
| guard | 2 clients with an account each, 2 levels of bans; 2 bans and mass deop, or the join limit | 4 |
| chanfix | scores of 1 operator, 2 days, 2 points, 1 failure; or a fix of 3 clients with scores 60, 56 and 20, all intervals 1 | 5 |
| ccontrol | glines: a host and a real name, clock 0..1, 1 handler with failed queries, 2 starts; or users: a coder and an admin or none, 2 clients, 2 accounts, 2 changes | 5 |
| limits | 2 clients, 2 ISPs, prefixes of 2 lengths, 1 command | 2 |

Properties, and why they are not obvious:

* `TimerIDsUnique`: the counter wraps (4 identifiers, queues that live across the wrap), handlers
  register while their own identifier is still in use.
* `NoTimerOfDetached`: a module is deleted from inside `CheckTimers()` while timers of it are queued.
* `ReloadNeverLosesClient`: a late loop finds both requests of a reload due, with others between them; several reloads
  of one module overlap.
* `NoTimerStarves`: neither reloads nor a late loop nor handlers that register keep a timer waiting for ever, unless handlers go on
  for ever registering timers that have come already (`Rearms`), which `CheckTimers()` runs before it returns. `NeverStarves`
  without that is false (section 4). Finitely many are no harm.
* `NickMapSound`, `ClientServerKnown`, `NumericsReserved`: nicks are removed by name, servers recursively, numerics from
  four paths.
* `Mirror`: the tables against the network, with every crossing of messages within the bound of the link: without jupes
  they are equal when the link is quiet and every nick of the others leads to its client; with jupes nothing the network has
  announced is missing. `RemovalIsAnnounced`: what leaves the tables is told to the modules. `NetworkSpec`: see above.
* `Memberships`: both halves of a membership, in every state *inside* a handler too, even when a handler is about to
  crash; a channel nobody is on is gone when the handlers are done.
* `NoUseAfterDelete`: with services that react on channels they are on. `NeverFreed` without that is false (section 4).
* `TimestampDecides`, `WrittenTimestamp`: any order of joins, creations and bursts with older and newer timestamps,
  ours and theirs, with a clock that may advance between any two looks at it. A creation without a given time for which it does is marked `late`
  and keeps an older timestamp than it wrote; `WrittenAlways` without that is false (section 4).
* `Synced`: any two modes in any call, with arguments missing or wrong, a limit of 0, a command that is not carried out, between messages that set, clear or replace the same
  modes, written in pieces each of which somebody has to be allowed to write: the table equals the network, but for what
  is `spoiled`. `AlwaysSynced` without that is false (section 4).
* `ToldOnce`: nobody twice, and only who is registered: the lists change under the walk, by a module told before or by one told of an event
  posted within; a module that registers while it is told of its own EVT_QUIT leaves nothing behind.
* `PointersLive`: a connection fails, is disconnected and times out in one `Poll()`, is told one end, and the main loop's
  pointer leads to one that lives. `EverythingEnds` (liveness): no attempt, no request to close and no shutdown is forgotten.
* `Agreement` (glines), `RemovedStaysAway`: a gline is removed by one owner while another reads it back, after a
  restart, from the queue; what mod.ccontrol or mod.cservice has the server has. `ExpiredGo` (liveness): three timers share one expiry.
* `Agreement` (access), `Backed`: which half of a change is done when a query fails. `RulesSpec`: no sequence of commands,
  suspensions, forced access and edits gives anybody a change `AccessRules` would not allow. `EditsArrive` (liveness).
* `OpsKept`, `BansKept`: any order of login, ban, loss and return of the bot's operator status; what the bot does about one
  client, a ban or the loss of his level, may concern another in the same step. `LimitSound`: a join
  limit in force has one timer, which is its own. `LimitLifted` (liveness): it ends unless joins renew it for ever. Both are about the limit
  as the module has it: the mode on the network may outlive it (section 4).
* `TableFollows`, `RestartKeeps`: points are given and slots rotated while a snapshot is being written. `OpsAreStored`
  (liveness): nobody stays dirty for ever.
* `FixLeavesNothing`: every pair of ways into and out of a fix. `OpsReturn` (liveness).
* `Counted`: clients come and go while the tables they are counted in change, and every count is what counting today would
  give, but for those a removal overlooked (section 4), who are counted where they were. `Enforced`: so are the two decisions taken from the counts, which are made in different places.
* `SessionsAgree`: a session is begun in four ways and ended in five, and each has to keep both halves. `Entitled`: a numeric
  and a timestamp are enough to be authenticated after a split, so nothing may be remembered of who has logged out.
* `ClientOutlivesJobs`: the order of destruction, against jobs in the queue and one being done. `JobsRun` (liveness): no
  wake-up is lost between the two threads, and what is queued when the module goes is still done.

Bounds. Two modules, because a reload can only be disturbed by another one. Four servers: this
one, the uplink and two more, so that a server can be behind one that splits. Two messages
each way: every pair of messages can cross; with three and without our own clients the run gave
the same result. One client per server and two nicks give collisions and reuse of a numeric.
Two clients and one service on a channel: the one an event is about, one who stays or is alone,
one who reacts. Timestamps 1 and 2 (older, newer) and a clock that starts at 1. `depth` bounds how
deep modules react to events caused by reactions; 4 is deep enough for a kick, with join and
part, inside a reaction. Among the events of `channels`, two modules and two posts at once let a module change a list while
the other is being told of it; with three posts at once 13 million states showed nothing else. Two
`Connection` objects: the server's and the scanner's, or the scanner twice after a loss. Glines do not depend on each
other but for being kept in two maps (hosts and real names); the invariants were also checked with a clock of 0..2 and
one start. Three users: one who acts, one acted upon, one with forced access. Two ban levels are below and above the
level that keeps a client from being op (75). The properties of `guard` were also checked with two clients of one account, with
masks that match the other client, and with three clients whose masks overlap (14 million states, not to the end). Operators in `Scores` share the transaction and the thread's flag only; two
of them are millions of states. In `modes` one argument per message makes every call of two changes two messages; modes of
different letters meet in pairs only, and the five pairs are those whose code looks at the other. In `Fixing` one score suffices at once, one at the end of the window, one never.
In `Limits` two prefix lengths give netblocks one of which covers the other, with clones counted per prefix of either length;
one command per behaviour starts from any tables commands may have stored (a plain ISP, or one that counts wider and by force),
and two commands, from plain ISPs only, were checked once (962,152 states). A third ISP is needed to overlook
a client: the two properties were checked with three, plain, inactive or with forcecount, and one client (377,782 states). In `Opers` one client has an account or not, the other the
coder's account with an id of its own, as after a name is registered again; two changes are enough to take away what a session rests
on and to come back.

`CHECK_DEADLOCK FALSE` is set where the program may stop: `doShutdown()`, a shutdown by message, the removal of the
module, or a crash.

Fairness, always weak unless said otherwise, and never of modules, users, or the uplink:

* `timers`: the steps of the main loop and of handlers, because the loop never waits for anything but `select()`, whose
  timeout is the next timer (src/main.cc:303-328), and handlers return; strong fairness for the clock, which the bounds on
  lateness disable again and again.
* `uplink`: the loop, and time (`Passes`), which ends an attempt.
* `ccontrol`, `access`, `guard`, `chanfix`: the periodic timers named (`updateGlines`, `refreshGlines`,
  `updateLevels`, `OnTimer`, `syncToDB`, `autoFix`, `processQueue`), which register themselves again at the end of each run, which
  run `timers` shows to be enough if the configured interval is above 0; the thread of a sync, which has nothing to wait for but the database; the clock where
  something has an age.
* `uplink` for its second part: both threads; a request to pushover has a time-out of five seconds.

Each property has a mutant: an operator beside the definition it replaces, which is that definition with a plausible bug
(comment "Mutant: ..."), and which the property's run refutes.

## 4. Deviations found

Properties that are false, each with a configuration that shows it (`tlc -config X.cfg M` in this directory, M being the
module the name starts with, `Notifier` for MCNotifierRehash, `EventLists` for MCEventListsLost). They are not among the runs.

| configuration | property | what happens |
|---|---|---|
| MCP10Null | NoNullDereference | a nick change crosses our jupe of its server: libircu/msg_N.cc:103 looks at the client before 126 asks whether there is one |
| MCChannelsKicks | NeverFreed | a module kicks the first user of a burst; libircu/msg_B.cc:320 goes on with the deleted channel, against the comment at 352-354 |
| MCChannelsKicks | NeverFreed (with `Scenes <- KickOutside`) | `xClient::Kick()` of the only user of a channel the service is not on: its own part deletes the channel, and src/client.cc:1667 asks it whether it is empty |
| MCTimersBusy | NeverStarves | handlers register timers that have come, for ever: the `while` at src/server_timers.cc:142 takes them too and `CheckTimers()` does not return. The comment at 52-54 has them run in the next iteration |
| MCChannelsDirect | WrittenAlways (in place of TimestampDecides) | no time is given and the clock advances inside `JoinChannel()`: src/server.cc:1457 gives the channel 0, not what 1316-1319 wrote |
| MCChannelsDirect | TimestampDecides | a module linked after the burst joins directly with an older timestamp: src/server.cc:1432 keeps the operators include/server.h:1010-1012 and server.cc:1409 drop |
| MCEventListsLost | RegistrationKept | a listener of all channels destroys the channel it is told of: server_events.cc:235-237 erases the registrations, which include/server.h:539-547 does not know of |
| MCUplinkTimeout | NoFault | the attempt to connect times out: src/server.cc:2885-2896 leaves `serverConnection` pointing to what `Poll()` deletes, against ConnectionHandler.h ("The given Connection is no longer valid when this method is called."); and `Connect()` returning NULL is used in main.cc:323 |
| MCChannelModesSpoiled | AlwaysSynced | `xServer::Mode()` puts k, l, A and U into the table as it reads them and returns false at a later change it cannot make, with nothing written (server.cc:2040-2190); include/server.h:506-508: "update internal tables, and notify all clients" |
| MCChannelGuardPurge | NoUseOfDeleted | PURGE while the join limit is in force: its timer carries the deleted sqlChannel (cservice.cc:2993-2999); `undoJoinLimits()` uses a NULL Channel after PART; and a message that ops the bot and others has `doTheRightThing()` (4404-4405) kick whom the loop, or the deop of the source, comes to next |
| MCLimitsForced | NobodyOverlooked | `delIpLnb()` counts again only who was counted in the netblock it removes (ccontrol.cc:5862-5899). Who matched it and was left to another one, because it has forcecount, is passed over, though it may have kept a shorter netblock of a third ISP from counting him |
| MCNotifierRehash | NoUseOfDropped | a rehash disables pushover with a job queued: cservice.cc:7366-7372 deletes the client, pushover.cc:79 keeps its address |
| MCNotifierRehash | NoRace (with `-continue`) | a rehash changes the keys (cservice.cc:7353) while the worker walks over them (pushover.cc:99) |

Others were met while modelling; the models have what the code does.

Core:

* `removeAllTimers()` leaves the identifiers of the timers it removes in `uniqueTimerMap`, which
  include/server.h:1356 calls the identifiers in use. `UnRegisterTimer()` returns true for any identifier if the queue is
  empty; include/server.h:571 says false.
* The numeric msg_JU reserves for a server juped by somebody else is never given back, as
  `removeServer()` frees those in `fakeServerMap` only.
* `findNick()` misses a client after a nick collision with one of ours: `addNick()` keeps the first
  entry, `removeClient()` erases by name. `Mirror` leaves the nicks of our clients out.
* A numeric of ours is reused at once; a kill sent before the quit of its earlier holder arrived removes the new one.
* The squit of a real server, sent by name before our jupe arrived, removes our juped server and its
  fake clients from the tables; the network keeps them (libircu/msg_SQ.cc:67).
* `SquitServer()`, used for a jupe, removes the juped server only, although include/Network.h:479-480 calls a
  split "a recursive removal of all servers which are uplinked": the servers behind it stay in the tables. When such a
  server links again msg_S removes it without EVT_QUIT. If msg_S drops one of the messages that follow, as it does for a server behind
  one it does not know, the uplinks in the table can even form a circle, on which `findLeaves()` (Network.cc:653) would not
  end: it takes three servers besides the hub, and `Leaves` is the least fixed point.
* A module that unregisters, or registers again, for the event it is being told of erases the list node
  the walk stands on (server_events.cc:127, 154, 192). No module of the repository does.
* `PostChannelEvent()` tells the listeners of a channel of a join after a listener of all channels has
  kicked the client again; mod.cservice/cservice.cc:5213 takes its presence for granted.
* msg_K removes the client at once even if the kick is not authoritative, where include/server.h:613-616
  tells modules that it is still there as a zombie.
* `xClient::Join()` of a channel the service is on already, with an older time, deops everybody in the table and lowers the
  timestamp (client.cc:1842-1848) before `JoinChannel()` refuses (server.cc:1322): the network is told nothing.
* Empty channels stay in the table after the last fake client parts, or after a burst without users. A fake client joins
  with the present time even if the timestamp of the channel is newer.
* Connections: "connections terminated with Disconnect() are NOT reflected by OnDisconnect()" (ConnectionHandler.h) is
  not so; the last failure to accept erases the listener without telling its handler; an empty handler is erased from
  `handlerMap` and the erased iterator incremented (ConnectionManager.cc:846); server.cc:1167 casts an xClient to a
  ConnectionHandler it is not and finds nothing; the QUITs of a shutdown are written after the SQ, and the SQ is lost if
  the socket is not writable in the last `Poll()`; `Connect()` leaks the connection if `SSL_new` fails.

Modes:

* `Channel::onModeA(false)` removes mode k instead of mode A (Channel.cc:286-294).
* mod.cservice's MODE edits the table before it knows that the changes can be made: a missing or wrong argument, a bot that is
  not op, leave it so; and so does a command of a single letter without a sign ("MODE #c t", "MODE #c b mask"), for which
  MODECommand.cc:353 finds nothing to write. "+l 0" puts a limit of 0 into the table, and `Mode()` (server.cc:2176-2190)
  writes +l without an argument, which takes that of the change that follows. "+l-t 5" never sends the limit, as the last sign is a minus.
* `ClearMode()` without oper status clears the table without a look at whether the bot is op.
* `Mode()` asks once whether the bot is op and then writes as many messages as it takes (server.cc:2310-2352). If one of them
  takes the bot's op, the network refuses those that follow, and the table has their changes.
* msg_CM removes the bans before it makes the list the modules are given, and `parseBurstBans()` makes a list of empty entries:
  both tell of bans without a mask. msg_M does not know A and U and takes their arguments for those of the next mode. Setting
  a ban that is set is told as its removal, after it was told as set.
* `BanKick()` sets its ban without the removal of those it covers, and without an event. `DeOp()` of one client parts twice;
  `Op()` of one client parts before it has used the member it found.

Glines:

* `xServer::BurstGlines()` is never called (include/client.h:88-91): glines of the table, and those found while bursting,
  are not sent until mod.ccontrol is reloaded (history variable `unsent`).
* A gline on a real name that the network removes, or that expires there, stays in mod.ccontrol and its table. An older GL
  overrides a newer one; when the server's older copy expires it deletes mod.ccontrol's newer one.
* A gline saved while the database is down has no Id, and later changes of it fail. After an Insert whose Id could not be
  read back the Id is stale, its Delete "succeeds", and the gline returns at the next start. EVT_REMGLINE ignores a failed
  Delete.
* REMGLINE leaves the queue alone. `processGlineQueue()` compares with a size that shrinks and handles about half.
  REMSGLINE -fr leaks. mod.cservice leaks the csGline of a "$" and only ever writes its table.
  `loadData(int)` asks for 6 tuples. `removeMatchingGlines()`, which nobody calls, does not end.

Access lists:

* A failed DELETE in `sqlRegisterChannel()` leaves the access list of the last registration in force. `updateChannels`
  skips a channel without manager, but `lastChannelRefresh` moves past it. SET NOFORCE ON erases the entry of `forceMap`
  it stands on (SETCommand.cc:827-842). A global unsuspension by the website does not bring back dropped levels.
  `commit()` overwrites changes of the website it has not seen. A suspended user may REMUSER himself and be added again
  below the level of the suspension.

Registered channels:

* After the bot was deopped `xClient::Op(theChan, me)` always returns false. The mode a join limit set stays after PURGE. It also
  stays if the bot is deopped, kicked or gone when the limit ends: `undoJoinLimits()` (cservice.cc:5410-5459) writes the -mode without asking
  whether the bot may, forgets the limit, and nothing looks for the mode again, although the channel was told "for %i
  seconds" (5561).
  `OnChannelModeV` uses a NULL theChanUser (USE_NOVOICE). EVT_CREATE with an equal timestamp gives an operator nobody
  checks on a STRICTOP channel (left out of the model, so that `OpsKept` can be stated).
* The first ban that matches decides, so an overlapping lower ban shields. BAN that replaces an overlapped ban leaves the
  old one on the channel. A failed `insertRecord` leaves a ban with identifier 0. `expireBans` cannot lift a ban while the
  bot is not op. A bot kicked by an oper keeps `inChan` and stays away.
* `doCommonAuth` (cservice.cc:8919) walks over the client's channels while a kick erases the current element. A temporary
  visit that kicks the last member deletes the Channel in use. `tmpChan` (478) is NULL for a channel nobody is on.

Scores and fixing:

* A failed sync loses dirty flags and pendingDeletes and nothing retries; the periodic sync writes the slot of the current
  day only, so points of a day after its last sync reach the tables only in an orderly shutdown. Days without points are
  skipped by the last sync: a slot emptied by the rotation but not synced keeps its old points after a restart. Downtime
  across midnight never clears the slots passed. A failing query of chanops_daily at load leaves all points at 0. COMMIT of
  an aborted transaction counts as done. `getConnection()` in the thread calls `exit(0)`. The thread uses adminLog and
  syncFailures, and `elog` is shared by all threads, without a lock. DEBUG ROTATE clears tomorrow's slot early.
* fixStart and lastAttempt outlive a fix when the channel vanished or CHANFIX OVERRIDE takes over (`kept`): a later fix
  starts with a lower score, or is ended at once. BLOCK leaves an empty channel queued and `processQueue()` does not look
  at the flag. CHANFIX OVERRIDE leaves the autofix queue before it refuses a BLOCKED channel. `stopFixingChan` parts
  channels the bot is not on, or stays on. A mode +oo with the bot second deletes a ChannelUser while its vector is walked.
  Ops given to users without account, or below minClients, do not stop a fix. Autofix never clears modes when the bot is
  op. After SET NUMSERVERS led from SPLIT to BURST only another server's EB leads to RUN. `shouldCJoin` makes the bot join
  only if the first attempt would complete the fix.

Connection limits:

* `delIpLisp()`, that is DELISP and CLEARALL, keeps an iterator to the next netblock across the erasure in `delIpLnb()`
  (ccontrol.cc:5990): a netblock of the same ISP that follows is skipped, and stays with a pointer to the deleted ISP; if the
  last one is deleted the walk runs past the end of the vector (`fault`).
* Most LIMITS commands reload the ISP: its netblocks are deleted and inserted again. One the database refuses is lost, and
  after GROUP is switched off so are those longer than the prefixes clones are counted by, without a word.
* CHCCIDR, GROUP and the CHNAME of a group leave the counts of user names under keys that are never looked up again (`spoiled`).
* A client that connects while the database is down is not counted (`missed`); when it quits, what the former holder
  of its numeric left in `ipLnumericMap` is taken off the counts. Entries of that map are never erased; those of iauth's
  questions pile up, as do their iClients.
* GLUNIDENTED never leads to a gline: ccontrol.cc:1734 overwrites the verdict of 1732.
* Clients that are on when the module is loaded are not counted.

Operators:

* REMUSER tells the clients of a user that they are no longer authenticated, but `deAuthUser(ccUser*)` walks an empty vector
  (ccontrol.cc:2146) and leaves them as they are; then the ccUser they point to is deleted (`fault`).
* MODUSER -x from one account to another leaves the old entry of `accountsMap`: whoever has the old account is still signed on
  if one of the two ids is 0 (`LeftOver`), and the entry dangles after REMUSER.
* `DeleteOper()` takes the user off both maps before the second DELETE, which may fail: he is gone from memory, without masks,
  and comes back with a restart; his clients stay authenticated.
* Clients that are on when the module is loaded have no ccUserData: LOGIN fails for them after it has stored
  numeric and timestamp. De-authentication of a user with autoop who lost his oper status does not forget these.
* ADDUSER limits the new access to that of the one who adds in the first word of flags only, not in the second.

## 5. What is proved

All theorems hold for every value of the constants under the module's named assumption, and are
checked by TLAPS to the last leaf.

**P10_proofs**, the tables (`NetworkAssumption`): `NetworkTypeOK`, `NicksLeadToClients`, `ClientsHaveServers`,
`NumericsAreReserved`. `IInv` adds `OurServers` (no split takes this server away:
needed as everything of ours hangs on it) and `XClientsApart` (xClients are on this server and are not
fake). One lemma per action, and lemmas about removing a set of clients and of servers, which three
handlers share.

**P10_proofs**, the link (`P10Assumption` besides), for any number of messages under way each way:

* `LinkIsNetwork`, the refinement: each message read, each call and each step of the network is a step of `Network` or
  leaves its tables alone, so the four theorems above hold at the end of any link of this kind, jupes included.
* `TablesMirrorNetwork`: `Mirror`, and with it the absence of null pointers, as long as no server is juped. `Mirror` speaks of
  the quiet link only. What is inductive is `Followed`: the tables, brought up to date by the messages that are
  still under way, are the network. It is stated message by message, for what is announced, what is taken away and what was
  announced again since, in both queues at once: a nick that is no longer anybody's when its change is
  read, a kill whose victim has quit, a split that takes away what a kill of ours was for.
* `RemovalAnnounced`: `RemovalIsAnnounced`, from the same invariant.

**Channels_proofs** (`ChannelsAssumption`), for any number of channels, clients and services, any depth of reactions and
any stack of unfinished handlers:

* `MembershipsAgree`: `Memberships`. The invariant `Handling` says that the tables fit together (`Tabled`), that a client
  lists what it is not on only while its J 0 is under way (`Listed`), and what each task on the stack may rely on
  (`Stacked`: handlers are at the bottom; one that will add a client has a live pointer to it, or a dead one it is going to trip over;
  one that parts all channels knows every channel its client is still on). `Awaiting` adds, for the last part, that a channel nobody
  is on has a task on the stack that will remove it; `Handled` is `Handling` by itself.
* `NothingDeletedUsed`: `NoUseAfterDelete`. When modules only join, or kick from channels they are on, no pointer on the stack
  ever dies, although channels do: `Tidy` says that whenever a task that may remove a channel lies above one that holds it, a service is on that
  channel; and that nobody a burst is going to give +o is the client of a task above it, which alone can be kicked on the way.
  None of the two is inductive without `Handling` and without the other.
* `TimestampsDecide`: `TimestampDecides`, under the hypothesis that modules call `JoinChannel()` directly in a burst
  only (`"Direct" \in s.messages => s.bursting`). Without it the property is false, as configuration `MCChannelsDirect` of section 4 shows.
* `WrittenIsKept`: `WrittenTimestamp`, without a hypothesis on the clock: it may advance between any two looks at it. What a creation
  keeps is then another time than it wrote, which is the exception the property names (`late`); never a newer one.

**Channels_proofs**, events (`EventListsAssumption`, which `MCServer` assumes of its instance), for any number of modules, events and
channels and any depth of posts within posts: `ListenersToldOnce` (`ToldOnce`). The property is about walks and lists at once, and neither
half is inductive: a list must have each module once (`ListsDistinct`) for a walk to tell it once, and only modules that are there
(`Listing`); a walk must not owe anything to the module it leaves out (`WalkSound`); and a module that is being removed has its EVT_QUIT at
the bottom of the stack (`Bottom`), so that no walk outlives it. `Erasing` says what the loops that erase the first node of a module leave,
and rests on the well-foundedness of the natural numbers. `RegistrationKept` is false (section 4) and `UseErased` can happen, so neither is
part of it.

**ChannelModes_proofs** (`ModesAssumption`): `SyncedHolds` (`Synced`), for any clients, masks and keys and any limit of changes to a
message. Calls may be about any number of users and masks; where others choose the list, it has one or two changes, as in the model (`Some`).

* Both sides are compared mode by mode (`View`): what either says of a mode after a change depends only on what it said of that mode before
  (`OnMoves`, `NetMoves`), and after the same change both say the same (`Agrees`), or the mode is in `spoiled`. The inductive
  invariant `MInv` adds that they agree on the op of the bot, which need not be among the modes that are not spoiled, that the network has a ban at most
  once (`Thin`) and that a key in the table is a value (`Keyful`).
* A call is written in messages of at most `MaxModes` changes. `ChunksAre` says that these are the list again, and `Refused` what is left out of
  it when the bot loses op by one of them.
* The parser of `ServerMode()` does some changes to the table at once and gathers others for the end. `PInv` relates the table and the
  network half-way, and rests on `Commutes`: a change done late may change places with one of another mode.
* For the command MODE of mod.cservice `RInv` says that, while it reads, the table differs only where a change is listed
  already or a limit was kept, and `Passed` that the key it puts into the table at the end is the one it wrote. A command that is not
  carried out spoils what it has edited.
* So the theorem is not that every call leaves both sides the same, which is false (section 4), but that no mode differs other than by one
  of the faults `spoiled` names: a call of `Mode()` that fails or loses the bot's op half-way, a limit of 0 with what follows it, -A,
  ClearMode without op, and a MODE that is not carried out.

What the model has as recursive functions has one lemma each about every prefix of the list, by an induction
through the least number for which it would fail (`Least`, `Reaches`).

**Control_proofs**, glines (`GlinesAssumption`), whatever queries fail: `GlineTypes`, `CopiesAgree` (`Agreement`), `NoReturn`
(`RemovedStaysAway`). `IInv` splits `Agreement` into its two halves (`Follows`, memory and table; `Known`, the modules and the server),
which different actions disturb, and adds `NoPlain`. One lemma per handler.

**Control_proofs**, operators (`OpersAssumption`, which `MCControl` assumes of its instance), for any users, clients and accounts:

* `OperSessionsAgree`: `SessionsAgree`. A handler of the model passes its tables from one step to the next, so the
  invariant `Good` is a predicate on tables, and there is a lemma for each thing done to them (a session begins, ends, an id is
  stored, a user is edited, is taken off the maps). `Accounts` is what makes single sign on lead to a user that exists: an entry of
  `accountsMap` leads to one who is listed or has another account by now; the only way to a deleted one is the fault.
* `OpersAreEntitled`: `Entitled`. `Shown` says that whoever is remembered by numeric and timestamp has shown who he is and has not logged out.

**ChannelAccess_proofs** (`ChannelAccessAssumption`), whatever queries fail: `AccessTypes`, `AccessIsBacked` (`Backed`),
`MemoryAgrees` (`Agreement`), and `AccessListsObey`, the refinement of `AccessRules`. `Backed` speaks of registered channels and
is not inductive: a registration whose DELETE fails puts the records of the last one in force again, so `IInv` has `BackedAll`. It also has
`FlagsAgree` (a suspension flag that differs from the table is the trace of a failed query) and `AdminsUnforced`. The refinement takes one lemma
for each way a record changes and maps every step to one of the rules or to a stutter.

**ChannelGuard_proofs** (`ChannelGuardAssumption`), for any users, levels, masks and settings:

* `LimitHasTimer`: `LimitSound`, which is about the module's own state and does not say that the network has no mode left. The property alone is not inductive: a timer of an earlier limit could run and end this one. `LInv` says that
  no timer but the limit's own is ever pending, which every way to start, renew, end or abandon a limit has to see to.
* `OpsAreKept`: the action property `OpsKept`. It needs no invariant, but every action to keep `OpsStay`: each is split by what the
  bot is before and after, as most of them may make the bot join, act and part again (`Acts`).
* `BansAreKept`: the action property `BansKept`, from the invariant `BInv` (the ban list is a sequence of bans, the operators are members).
  Which ban decides about a client depends on the whole list: when others are lifted or expire, the ban that decides still does or has
  itself gone (`WithoutEases`), and a ban that is added decides about whom no other did (`AppendDecides`). A removal, `Without`, is a recursive
  function of the model because the library's filter is a definition inside a definition, which the provers do not open. What it leaves
  is proved from the least number of bans for which it would leave something else (`Least`).


**Uplink_proofs** (`ConnectionsAssumption`, `UplinkAssumption`; `NotifierAssumption`, which `MCUplink` assumes of its instance):

* `PointersStayAlive`: `PointersLive`, for any number of `Connection` objects and handlers, any clock and time-out. What is inductive is
  `UInv`: a handler is told of an end only while its connection is being visited, which is then scheduled and
  not visited again in this `Poll()` (`Ends`); and the server owns one connection besides those it was told the end of, which is where its pointer
  leads (`Pointer`). `NoFault` is not claimed: it is false after a time-out (section 4).
* `ClientsOutliveJobs`: `ClientOutlivesJobs`, and `Counted`, for any number of clients, keys and messages. `NInv`: a client exists exactly
  while the logger holds it (`Held`); whoever a job is of is held or was dropped by a rehash, and the module goes only when
  its thread is done and the queue empty (`Jobs`). `Counted` is more than the run checks: every message logged waits, is in work or was sent once.

**Uplink_proofs**, timers, of an instance of `Timers` (`TimersAssumption`, which `Timers` assumes of itself, is a hypothesis of each
theorem): `TimersTypeOK`, `TimersIDsUnique`, `TimersSafeAfterDetach`, `ReloadsComeBack`. The invariant `TInv` joins the properties with `Stack` (a
handler is on the stack only inside `CheckTimers()`; nothing is pending after the shutdown). `ReloadNeverLosesClient` is not
inductive alone: the unload request could run last. `LoadBehindUnload` says that behind every
unload request is a strictly later load request of the module, and `IsTop` then makes the unload run
first. `FirstFreeIsFree` shows that the search for an identifier ends with a free one across the wrap; it rests on
the well-foundedness of the natural numbers.

**Chanfix_proofs** (`FixingAssumption`; `ScoresAssumption`, which `MCChanfix` assumes of its instance):

* `FixesEndClean`: `FixLeavesNothing`, for any clients, scores and intervals. It is not inductive: CHANFIX on a BLOCKED channel takes it
  off the queue and does not look for the bot. `Quiet` adds that the bot is never on a blocked channel, which BLOCK
  and every way onto the queue see to.
* `TablesFollow`: `TableFollows`, and `RestartsKeep`: `RestartKeeps`, for any number of operators, days, points and failures. The
  invariant `SInv` is about the thread's snapshot: what it writes is what memory has, unless the operator is dirty again (`Snap`), which is
  why a rotation makes dirty whoever stays; and an operator who is to be deleted, by the thread or later, and has come back, is dirty
  (`Gone`), so that he is written again after the delete. `Saved` is what a shutdown leaves until the next start.

The proofs made some modules say more than they did. `Network` no longer excludes that a server is announced behind one of its own
leaves, and its `msg_S` drops a server whose uplink is unknown (libircu/msg_S.cc:74); `AccessRules.May` asks of who
acts through a suspension what the code asks; a new identifier in `Glines` is that of the case the code distinguishes. `EventLists` erases the first node
of a module, as the loops do, and no longer every one. `OpsKept` and `BansKept` were true in the instance that was checked and false in
others, where a mask matches a second client or two clients share an account: by the message that makes `doInternalBanAndKick()` deop
everybody a client becomes operator and is banned or loses his level at once, and a ban set there kicks only those whose own mask it is
(cservice.cc:5826). Both now say which steps they except, and `BansKept`, whose cases bound more than they were meant to, covers joins too. `ChannelModes` asked once for all messages of a call
whether the bot may change modes; it now asks before each.

Only checked by TLC: `Mirror` with jupes, where it says less and what msg_S drops and `SquitServer()` leaves behind has no
invariant as simple; `Counted` and `Enforced` of `Limits`, whose
counts are folds over sets of clients. The library's induction theorems take an operator as a parameter, which the provers
here cannot give them, so each fold would need an induction of its own, as `Without` and the recursions of `ChannelModes` have. And every liveness property, which is out of the
prover's reach.

An attempt to find an invariant for `Counted` showed that it was false with three ISPs, while the instance had two: `overlooked` and the
exception in `Counted` are from there.

## 6. What is not modelled, and why

* *Formatting, parsing, logging, replies, help, configuration files, migrations, SQL text, sockets, TLS, dlopen, hashing*:
  data or I/O without a state of their own that the properties tell apart. A query is modelled by whether it succeeds
  and by the rows it leaves; a connection by its states; a library by whether it loads.
* *The uplink and the other servers* (ircu) are not in the repository. `P10`, `Channels` and `Connections` model them from
  the messages the handlers here expect; such definitions are marked external.
* *Network and P10*: accounts, hosts, user modes and searches; they are attributes of clients the tables only store.
* *P10*: whether a server comes or goes with S and SQ or, for a jupe, with JU (server.cc:796-800, 2586-2590): `OurStep` writes
  the first, which the network is taken to understand in the same way.
* *Timers*: RegisterTimer's data; a delay is bounded by `MaxDelay`, and a time that is past by `MaxLate`.
* *Channels*: reactions of modules to the modes a server sets, to the events of other services and to those msg_B posts for the modes
  of a burst when it is done; modes other than op, which are in *ChannelModes*. There: a join with modes that include a limit of 0, a
  change of the bot's own op that follows +l 0, `BanKick()`, `Invite()`, the text of topics, modes of a join
  while bursting, the messages OM, T, DE, CL; messages that cross.
* *ChannelGuard*: deops in a message that ops the bot; voices, NOTAKE, the floating limit, flood protection, +k for network services, the network's own ban
  list, global suspension, invitations, topics; an EVT_CREATE with our own timestamp, which ircu does not send.
* *ChannelAccess*: frozen accounts and SET SUSPEND, NOFORCE, `wipeUser`, flags.
* *Scores*: the accounts behind a score, notes, the migration of `daySamples`. *Fixing*: +k for network services, +R, the
  interval of REQUESTOP, F_ALERT, bans, `useBurstToFix`, messages of users that op several at once (chanfix.cc:706-726); the model starts when the module is running.
* *Limits*: both address families at once, forced counts of ISPs of different families, mails, the answers of LIST and INFO; a second
  question of iauth (each is counted and dropped at once). *Opers*: passwords, the rights to single commands, the level of a
  suspension, the servers of users, flood points and ignores.
* *Uplink and Connections*: the flush of a closing connection ends, though it clears O_NONBLOCK and `send()` may wait for a peer that does
  not read (ConnectionManager.cc:1159-1177); listening sockets, files, TLS, the pipe of the signal handler.
* *Components without a module*: see the notes in `PROJECT.json`.

## 7. Plan

Done: timers, network, channels, modes, events, uplink, glines, access, guard, scores, fixing, notifiers, limits
and operators. Next, in this order: the burst hold buffer; sessions of mod.cservice; ignores and exceptions of mod.ccontrol; the queues of mod.nickserv and mod.dronescan. Theorem worth proving next: `Counted`.
