# Custom Game Server: a TLA+ model

A formal model of the lobby, session and realtime logic of the server in
`src/` and `include/`, model-checked with TLC and, for every value of the
constants, proved with TLAPS.  Requests, timeouts, monitor threads and network
errors are modelled call by call; the write queue of a connection access by
access; the timeouts in seconds.  Texts, JSON and sockets are not modelled.

Paths below are relative to the repository root.

## The system

One process, started by `src/main.cpp`, with these threads:

| Thread | Runs | Touches |
| --- | --- | --- |
| HTTP | `Server::AcceptLoop`: one request at a time, read, routed, answered | sessions, lobbies, sends events |
| accept | `RealtimeServer::AcceptLoop` | adds connections |
| io threads | whatever calls `RealtimeServer::ioContext.run()` | connections, sessions, presence, heartbeat |
| presence monitor | `PresenceService::MonitorLoop` | presence, lobbies, sends events |
| heartbeat monitor | `HeartbeatService::MonitorLoop` | pong table, closes connections, sends Ping |

**No code in the repository calls `ioContext.run()`.**  The number of io
threads is therefore the constant `IoThreads` of `Lobbies`, `Sessions`, `Realtime` and what
is built on them (`WriteQueue` and `Timeouts` are about one connection that is served):

- `IoThreads = 0` is the program as committed.  Connections are accepted and
  registered, and nothing is ever read from them: nobody authenticates, presence
  stays empty and no timeout is raised.  The HTTP side works, alone.
- `IoThreads = 1` is the program the handlers, the strands and the README are
  written for: one thread running the io context.
- `IoThreads >= 2` is what the strands and mutexes suggest was meant to be
  possible.

Every property states for which of these it is checked or proved.

### Components

| Component | State | Operations that change it | What makes it correct |
| --- | --- | --- | --- |
| `Lobby` | host, maxPlayers, members | AddMember, RemoveMember, ClearMembers | capacity; the host leaves only with the lobby |
| `LobbyManager` | map of lobbies | CreateLobby, DestroyLobby | a lobby is destroyed, and announced, once |
| `LobbyRoutes` | none | Create, Join, Leave, Destroy, Kick | checks and changes agree although other threads run |
| `ServerEventDispatcher` | none | NotifyPlayerTimedOut changes lobbies; the others send | members hear of every join, removal and destruction |
| `SessionManager`, `Session` | two maps, expiry times | CreateSession, ValidateToken, DestroySession, DestroySessionByToken, cleanup | maps agree; sliding expiration; no revival |
| `SessionRoutes`, `AuthMiddleware` | credentials (constant) | Login, Logout, Authenticate | as above |
| `ConnectionManager` | connections by id, token, username | Add, Authenticate, Remove | the map by username leads to live, registered connections |
| `ClientConnection` | socket, queues, username | Start, DoRead, DoWrite, Close, Send | a loss is noticed and cleaned up |
| `RealtimeAuthService` | none | HandleMessage | nobody takes over an online player |
| `PresenceService` | record per username | MarkOnline, MarkOffline, monitor | online means reachable |
| `HeartbeatService` | last Pong per username | Register, Unregister, Touch, monitor | only online players are watched |
| `RealtimeServer` | none | AcceptLoop, disconnect handler | the order of the cleanup |
| `Router` | route table | RegisterRoute at start | every path reaches its one documented endpoint |
| `Server` | acceptor, all of the above | AcceptLoop | an exception ends one turn only; everybody gets a turn |
| `Message` | none | none | - |

Interaction is by direct calls (routes to managers to dispatcher to connection
manager), by callbacks (message handler, disconnect handler, timeout handler)
and by shared state.  Only `ConnectionManager`, `PresenceService` and
`HeartbeatService` have a mutex, held for one call.  `LobbyManager`, `Lobby`,
`SessionManager` and the fields of `ClientConnection` have none, although the
presence monitor and the io threads use them too.

Hard to test here, and hence what the properties are about: the host's request
racing with the host's timeout; checks that are stale when the change is made;
a disconnect handler that runs twice, once for the read and once for the
write; a heartbeat that acts on a list it took earlier; a clock that moves
between two steps of one validation; narrowing and unsigned comparison of
`maxPlayers`; a queue that one thread empties under the write of another;
monitors whose rounds fall badly; a change that no client is told of; an
exception in the middle of a request.  `PROJECT.json` lists each at its line.

### Grain

Except in `WriteQueue`, a step of a thread is one call on a shared object
(`AddMember`, `MarkOnline`, one `DestroySession` of the sweep, ...).  For the three services with a mutex
this is exact.  For the others it is an assumption: two unsynchronised calls
that overlap in time are a data race with undefined behaviour, which the models
do not explore.  Whatever fails at the grain of calls fails in the program too;
what holds there holds of the program once those objects are locked per call,
or where only one thread uses them, which is so for `IoThreads = 0`.

## Modules

### `Lobbies`, against `LobbyContract`

`Lobbies` models `Lobby`, `LobbyManager`, `LobbyRoutes` and the part of the
dispatcher that changes lobbies.  There are two threads, `http` and `monitor`.
A request enters with the lobby it fetched (`Enter`), and continues call by
call along the labels of `pc`:

    join    -> add -> notifyJoined                          JoinLobby
    leave   -> remove -> notifyRemoved                      LeaveLobby, member
    leave   -> copy -> clear -> erase -> notifyDestroyed    LeaveLobby, host
    (enter) -> copy -> clear -> erase -> notifyDestroyed    DestroyLobby
    kick    -> remove -> notifyRemoved                      KickPlayer
    copy    -> remove -> notifyRemoved                      timeout of a member
    copy    -> clear -> erase -> notifyDestroyed            timeout of a host

`CreateLobby` is one step, since nobody else can see the lobby before it is
registered.  The arithmetic is kept: `Narrow` is the conversion of the 64-bit
request value to `int`, `Capacity` the conversion of that `int` to `size_t` in
`members.size() >= maxPlayers`.  Who is connected is left out: announcing is
calling the dispatcher, which drops events for users without a connection.

Three history variables say who was told what, with the recipients the dispatcher
has at that call:

- `owed`: users who left, were kicked or lost the whole lobby, until they are sent
  `LeftLobby`, `KickedFromLobby` or `LobbyDestroyed`.
- `uninformed`: members, until they are sent the `LobbyUpdated` that follows a
  join or a removal.  It goes to `GetMembers()` at the time of the sending.
- `announced`: lobbies whose `LobbyDestroyed` was sent, to the copy of the members
  the sending thread had taken.

The three ways out of a lobby differ.  After a leave or a kick the user that went
is sent an event of its own; after a timeout `PlayerTimedOut` and `LobbyUpdated`
go to the members that are left, so that the user that was removed is told of it
by nobody, and nothing is owed to it.

`LobbyContract` is what a client is promised: lobbies open with their owner
inside, admit while there is room, let anybody but the owner depart, and close
in one step that leaves nobody behind.  Two mappings lead to it; in both a lobby
counts as closed from the moment its members are cleared.  `Contract` takes the
members as they are, and is kept while no timeout is raised.  `OpenContract`
takes `Roster`, the members of open lobbies only, and is kept whatever races
with whatever: with a timeout a user may still be added to a lobby that was
closed after the user fetched it, but never so that the lobby opens again.

Properties: `TypeOK`, `CapacityRespected`, `HostedOrGone`,
`DestroyedAnnouncedOnce`, `MembershipsAnnounced`, `MembersTold`,
`HostTimeoutDestroys` (liveness), `ContractKept` and `OpenContractKept`
(refinements), and two claims of the repository's README, `HostAutoJoined` and
`MaximumEnforced`.

### `Sessions`

`SessionManager` with its callers: the HTTP thread (caller 0) and `IoThreads`
io threads.  `ValidateToken` is taken apart where it reads the clock or a map:
the sweep collects what has expired, destroys it one by one, looks the token
up, asks `IsExpired` again, and extends.  The clock may tick between any two
steps.  A session stands for its id and its token, which are drawn together.
`began`, `lastUse`, `loggedOut` and `lapsed` (the sessions whose expiration the
clock ever passed) are history variables.

`SlidingExpiration` is the README's sentence for one caller at a time.
`ContinuousUse` is what remains of it when several validate at once: a session
extended each time before its hour was over is there, whoever sweeps meanwhile.

Properties: `TypeOK`, `MapsAgree`, `SlidingExpiration`, `ContinuousUse`,
`SweptClean` and the action property `NoRevival`.

### `Realtime`

`RealtimeServer`, `ClientConnection`, `ConnectionManager`,
`RealtimeAuthService`, `PresenceService`, `HeartbeatService`.  `reading` and
`writing` say what the one read and the write of each connection are doing;
`job` is the handler that runs on its strand, by its next call:

    message -> rearm                                      Pong, refusal, other
    message -> presence -> bind -> mark -> watch -> rearm Authenticate
    (error) -> unwatch -> offline -> remove               disconnect handler
    (error) -> remove                                     ... without a user

A handler is picked up (`Runnable`) when its strand is free and fewer than
`IoThreads` handlers run.  The monitors are `ScanPongs`, `FetchVictim`, `Expel`
(heartbeat) and `Expire`, `ReportTimeout` (presence), each in the pieces the
locks leave.  `ReportTimeout` is where `Lobbies!TimeOut` begins.  Time is
abstract: `Age` says that the timeout window has passed for a player, `Expire`
that the reconnect window has; both may happen at any time, which includes
everything the 20, 30 and 1 second constants allow (these are `Timeouts`).  A Send only matters as a
write that may fail; `Ping` and `SendToUsername` are the sends from other
threads.

`Presence` is what the realtime side promises the lobby side: a player comes
online only from being away, whoever waits for a reconnect may be dropped, and
whoever was dropped in a round is reported once before the next round begins.
It allows what the code does: a player who is back before the report is reported
all the same, and a loss that is noticed twice marks a reconnected player
offline.  `Realtime!PresenceKept` is the refinement.

Left out: the bytes in `readBuffer`, the content of the queue (`WriteQueue`), the
map by token (written together with the map by username, read by nobody).

`Ghost(c)` says that a connection is closed and registered with no error or
handler left that would remove it.  `GhostsOnlyExpelled` says how one arises:
only by an `Expel` that meets neither a read nor a write under way.

Properties: `TypeOK`, `OnlineReachable`, `WatchedOnline`, `BindingSound`, the
action properties `NoTakeover` and `GhostsOnlyExpelled`, `PresenceKept`
(refinement), the liveness property `LossNoticed`, and two claims of the
repository's README, `NoGhosts` and `AcceptedIsRead`.

### `WriteQueue`, against `Channel`

The write side of one `ClientConnection`.  A step is one access to the deque, to
`isActive` or to the socket, since `Close` runs on the heartbeat thread without
strand or lock:

    Send -> posted -> TakeSend -> push -> start -> write    Send, DoWrite
    writing: pending -> written | failed                    async_write
    (written) -> pop -> start                               its completion
    (open) -> shut -> clear                                 Close, two threads

`buffer` is the message whose memory the async_write reads, and `deque` becomes
`"corrupt"` when `pop_front` is called on an empty deque, which is undefined
behaviour.  The model shows that it does happen, with one io thread and without
the heartbeat: the completion of a good write waits on the strand behind a failed
read, whose `Close` empties the queue.  `DamageConfined` states what is left to
say: until the socket has been closed, nobody pops an empty deque and no two
threads use it at once.  `Channel` is the promise of `Send`: first in, first out,
none twice, none left out, until the connection breaks.

Properties: `TypeOK`, `BufferLive`, `DamageConfined`, `ChannelKept` (refinement)
and `Delivered` (liveness).

### `Timeouts`

The constants of `HeartbeatService` and the reconnect window of
`PresenceService`, for one player, in whole seconds.  The state is the age of
what the monitors compare (`sincePong`, `sincePing`, `since` in the present phase)
and how long each monitor has slept.  The player goes through

    online -> closed -> (leaving ->) away -> gone
    online -> ghost                          closed with no operation under way
    leaving, away, gone -> online            Bind, Connect, on a new connection

where `leaving` lies between the two runs of a disconnect handler.  `watched` is
whether the heartbeat has an entry for the player; presence has its record from
`Connect` to `gone`.  A round of the heartbeat comes in the pieces its lock leaves:

    asleep -> scanned -> found -> Close -> asleep
                      -> old   -> Close -> asleep      a connection it has lost
                      -> nobody -> UnregisterPlayer -> asleep

The player moves freely between them.  So a round that found the player silent may
close the connection on which it has come back, also between `Bind`, which lets the
name lead to it, and `Connect`; or take the player off the heartbeat just after it
registered, which leaves it unwatched for as long as it stays.  What
earlier connections of the player still do is `StrayTouch` (a Pong that carries
its name) and `StrayHandler` (a disconnect handler that marks it offline whatever
it is by then).

`Late` bounds how much longer than `MonitorTick` a round with its sleep may take,
`Handling` how long a closed connection waits for its disconnect handler if one is
to come; both are assumptions on the platform, not in the code, and
`HandlingAssumption` says that a handler is not as late as a reconnect window.  A
connection for which no handler comes is not assumed away: it is a `ghost`.

The history variables are `silent` (the client let a Ping wait beyond `Slack`),
`expelled`, `silence`, and `upset`, which names what the bounds except: "round",
the player came back while a round was under way that had found it silent;
"stray", the handler of an earlier connection has run since it came back.
The handlers are those of one io thread: none comes in the middle of another.

`Patient`, PingInterval + MonitorTick + Late + Slack <= TimeoutWindow, is what
the constants of the code must satisfy for clients that answer within `Slack`.
With `Late` 1 the code allows a `Slack` of 8 seconds; with 9 the run fails.

Properties: `TypeOK`, `ResponsiveKept`, `SilentNoticed`, `TimeoutBound`.

### `Router` and `Http`

`Router` has the table that `Server::Server` fills and `Router::HandleRequest`.
A path is a sequence of tokens; `SplitPath` drops empty pieces, `StripQuery` cuts
at the first `?`, and the first entry that `TryMatch`es is taken.  `Fits` is the
reference: some values for the parameters turn the pattern into the path.

`Http` is `Server::AcceptLoop` on `Sessions`:

    accept -> read -> route -> auth -> validate -> act -> write -> accept
    route -> act                    the handler needs no session
    route -> write                  404, 405
    auth, validate -> write         401
    read, act, write -> accept      an exception

`validate` runs the steps of `Sessions!ValidateToken` one at a time, the clock
ticking in between.  `ReadFails`, `BodyThrows` and `WriteFails` are the
exceptions; the catch block is inside the loop.  What handlers do to lobbies is
`Lobbies`; here they only need the session they act for.

Properties: `HttpTypeOK`, `ActsAuthenticated`, `RoutedRight`, `EveryoneServed`
(liveness), and `SlidingExpiration` of `Sessions`.

### `Server`

`Lobbies` and `Presence` composed by the timeout handler, with the broadcasts of
`ServerEventDispatcher`.  Every Notify ends with `LobbyListUpdated` to the
registered connections, which are those of the players online
(`Realtime!OnlineReachable`); a client fetches the lobbies when it receives one,
and when it is told that it is authenticated.  `outdated` is the set of players
whose client has not fetched since `Visible` changed.  The client is an
assumption, taken from the README of the repository.  A broadcast is one step.

Properties: `ServerTypeOK`, `ListFresh`, the liveness properties
`TimedOutLeaves` and `HostTimeoutDestroys`.

In every module an operator that no action uses and whose comment says what a
wrong version of the code would do (`DestroyBlindly`, `PurgeOnce`,
`CheckNothing`, ...) is a mutation: put in place of the definition after it, it
makes the property `PROJECT.json` names fail.  Each property has at least one.

### How they compose

- `Http` extends `Sessions` and `Router`: the same HTTP thread, taken from the
  socket to the answer.  `HttpImplementsSessions` is proved.
- `Server` extends `Lobbies` and instantiates `Presence`, which `Realtime`
  implements.  So the three-part system is `Lobbies` driven by anything that
  keeps the contract, and the realtime side is shown to keep it.
  `ServerImplementsLobbies` is proved.
- `Sessions` and `Lobbies` share the HTTP thread: a request first validates its
  token and then works on lobbies.  No lobby step reads session state and no
  session step reads lobbies, so `Lobbies` lets any user send any request, which
  includes what authentication lets through (`ActsAuthenticated`).
- `Realtime` uses `Sessions` in `Authenticate(c, u)`, where `u` is the user of a
  token that validates.
- `WriteQueue` refines the `writing` of one connection of `Realtime`, and
  `Timeouts` its `Age` and `Expire`, for one player.  These two are by
  correspondence of the actions, not by a checked refinement.

## Runs

| Run | Instance | Shows |
| --- | --- | --- |
| `lobbies_committed` | 3 users, 2 lobbies, maxima 2, 8 and -1, `IoThreads = 0` | the handlers implement `LobbyContract`; everybody is told |
| `lobbies_concurrent` | the same, `IoThreads = 1` | capacity and the host's seat survive every race of a request with a timeout; every erased lobby is announced by exactly one thread; members hear of joins and removals; open lobbies keep `LobbyContract` |
| `server` | 2 users of whom 1 plays, 2 lobbies, maximum 2, `IoThreads = 1` | clients online are never left with a stale list; a host's timeout ends with the lobby gone; who stays away loses a seat, also with seats in both lobbies |
| `sessions_concurrent` | 3 sessions, 1 user, an hour of 2 ticks, clock to 4, `IoThreads = 1` | both maps agree, the sweep is complete, no revival, no session in continuous use is dropped |
| `http` | 2 clients, 2 sessions, 1 user, an hour of 1 tick, clock to 2, 15 requests, `IoThreads = 0` | handlers act for accepted sessions only, routing is right, everybody gets a turn, sliding expiration |
| `realtime` | 2 players, 2 connections, `IoThreads = 1` | presence, heartbeat and registry agree in every step, the presence contract is kept, a lost connection leaves the registry, only an expulsion makes a ghost |
| `write_queue` | 2 messages, 4 sends | FIFO, valid memory and delivery under every interleaving of Close |
| `timeouts` | the constants 20, 30, 1 and 30, `Late` 1, `Slack` 8, `Handling` 2 | who answers is not expelled, silence is noticed and reported in bounds, but for players who connect in the middle of a round, earlier connections and ghosts |
| `host_autojoin` | as `lobbies_committed` | violated: a lobby without its host |
| `max_enforced` | as `lobbies_committed` | violated: more members than the maximum |
| `ghost_connection` | 1 player, 1 connection, `IoThreads = 1` | violated: a closed connection stays registered |
| `realtime_unread` | 1 player, 1 connection, `IoThreads = 0` | violated: an accepted connection is never read |

Why the bounds suffice for the questions asked.  Widths are scaled to 3 and 6
bits: 2 stays itself, 8 narrows to 0, -1 becomes the largest capacity; these are
the classes `Narrow` and `Capacity` distinguish.  Three users are a host, a
member and one more to meet a full lobby; two lobbies let one user be in both.
A clock that runs to 4 with an hour of 2 lets a session be extended and expire
all the same; with three sessions, two expire in one sweep while the other caller
uses the third.  In
`http` an hour of 1 and a clock to 2 still let a session expire and be extended;
the requests reach every kind of handler and of refusal, with doubled and
trailing slashes, a query, too few and too many segments, a value that is a
keyword elsewhere, and an unknown method; two clients make one wait for the
other.  Two connections of one player, or one each of two players, make the
reconnect and the takeover; four messages of two kinds make a queue of several
with a write under way, and tell a swap or a repetition apart.  `timeouts` has
the constants of the code.  In `server` the player that is online may be the
host, a member or none, in either lobby, while the other user acts; its fairness
is sound for one player only, see below.  The theorems remove the bounds for the
properties they cover.

Fairness.  `Server!FairServer`: no handler waits for anything, so a thread
that started one finishes it (as `Lobbies!FairSpec`), and the presence monitor
wakes every second; that its step is one of the whole loop suffices with one
player, while with several it would have to be one per player, since a round of
others does not report this one.  `Realtime!FairSpec`: a running handler finishes
(weak fairness); a handler queued on the io context is picked up although others
compete for the thread (strong fairness, since the io context is a queue and
`Runnable` may be disabled again and again); the heartbeat thread keeps ticking.
`WriteQueue!FairSpec`: what waits on the strand is run, a `Close` that was begun
goes on, a write that was started ends, well or not.  `Http!FairHttp`: the HTTP
thread goes on whenever it can; a client may stay silent for ever, and
`EveryoneServed` is conditional on that not happening while it is served.
Nothing else is assumed of clients or of the network; that a write that was
started ends is an assumption on the peer, which must read or be lost, and
`Delivered` rests on it.

Clocks.  `Sessions!Tick` only goes forward, while `Session` reads
`system_clock`, which an administrator may set back: a session then lasts longer,
and a caller may find a session good that its own sweep had found expired
(`NoRevival`, `SweptClean`).  The two monitors read `steady_clock`.

`WriteQueue!Send` is the check of `IsOpen` and the post in one step.  A close in
between makes no difference that lasts: the job asks `IsOpen` again before it
touches the queue.

## What fails

Found by the four violation runs and recorded under `findings`:

- A host with `maxPlayers` 0, or a multiple of 2^32, opens a lobby it is not in,
  and which nobody can join: `CreateLobby` ignores the result of `AddMember`.
- A negative `maxPlayers` is compared as unsigned: the lobby is never full.
  `ReasonableMaximaSuffice`, proved, says that these maxima are the only way this
  and the previous item come about.
- A connection closed by the heartbeat while its message handler runs is not
  read again, so nothing ever runs its disconnect handler.  It stays registered
  and its player online, and therefore unable to authenticate again.
  `GhostsOnlyExpelled`, checked and proved, says that nothing but such a close,
  with neither a read nor a write under way, leaves one behind.
- Nothing runs the io context.

Not runs, but met while modelling; each is stated by the hazard list:

- With an io thread, `MembersTold` fails: a join that fetched a lobby before the
  host's timeout cleared it seats its user in a lobby that is gone.  What
  remains is `OpenContractKept`.
- With an io thread, two threads may tear one lobby down.  One of them announces
  it (`DestroyedAnnouncedOnce`), but to the copy it took, which is empty if the
  other had cleared the members before; then nobody who was inside is sent
  `LobbyDestroyed`.  Everybody online is still told to fetch the list
  (`ListFresh`).
- A member that is timed out is sent neither `PlayerTimedOut` nor `LobbyUpdated`,
  even if it is online again when its timeout is handled: both go to the members
  left.
- A player who reconnects while a round of the heartbeat is under way that had
  found it silent may have its new connection closed, or be taken off the
  heartbeat and never be watched again (`Timeouts`, `upset = "round"`).
- With an io thread, `SlidingExpiration` fails: its sweep can destroy a session the
  HTTP thread is validating, also between the lookup and the use of the iterator
  in `ValidateToken`.  What remains is `ContinuousUse`: that session's hour had
  gone by before it was extended.
- With two io threads, `NoTakeover`, `OnlineReachable` and `WatchedOnline` fail:
  two connections pass the presence check before either marks the user online.
- A player lost by read and write errors, reconnected between the two runs of
  the disconnect handler, is marked offline and taken off the heartbeat by the
  second.
- `pop_front` is called on an emptied deque when a read error is handled before
  the completion of a write that went well (`WriteQueue`).
- A client that connects to the HTTP port and sends nothing stops the HTTP
  server for everybody: `EveryoneServed` fails without its condition.
- A player who is in several lobbies loses one seat by a timeout, whichever the
  hash order yields; the others stay taken.
- A presence timeout is reported after the player is back, and removes the
  player from a lobby while online.
- `NotifyPlayerConnected` and `NotifyPlayerReconnected` are never called, though
  the README lists the events.

## Proofs

All theorems are for arbitrary constants under the named assumptions of the
modules (`None` is no user, lobby or connection; widths are positive; durations
and thread counts are natural numbers).

`LobbiesProofs` holds for every `IoThreads`, that is, with and without the
monitor thread.

- `TypeCorrect`.  The type invariant carries that a thread inside a handler
  holds a created lobby, which makes it inductive.
- `SeatsCorrect`.  `Cardinality` says nothing of infinite sets, so the invariant
  is strengthened with `FiniteMembers`; lemma `MembersStep` reduces every step
  to losing members, gaining one through `AddMember` or being created, and
  `AddMemberBounded` does the counting.
- `HostCorrect`.  `HostedOrGone` is not inductive: a thread about to remove a
  member must not be about to remove the host.  `RemovalSparesHost` says so for
  the labels `kick` and `remove`; the two are preserved together.
- `AnnouncedOnceCorrect` and `MembershipsAnnouncedCorrect` strengthen their
  properties with what a thread between its change and its announcement knows:
  whatever is owed or not yet sent in a registered lobby is pending at a thread
  that holds the lobby (`OwedIsPending`, `UpdateIsPending`).
- `OpenContractCorrect`: initial states map to initial states, every step of
  either thread to a step of `LobbyContract` or a stutter.  It needs the types,
  finite members, capacity and the host's seat; there is one lemma for joins, one
  for creation and one for the calls that take away.
- `ReasonableMaximaSuffice`: `HostAutoJoined` and `MaximumEnforced`, which two
  runs refute, hold if every requested maximum is a positive `int` (and `int` is
  no wider than `size_t`).  `MaximumRequested` says that a lobby's maximum is one
  that was asked for.
- `HandlersEnd`: each call of a handler lowers `CallsLeft`, which is at most five,
  and the other thread does not move it.  `HostTimeoutEndsRight`: when the timeout
  of a host has been handled its lobby is gone.  Together they are the part of
  `HostTimeoutDestroys` that is not fairness.

Two theorems assume `IoThreads = 0`.

- `MembersToldCorrect`: `Undisturbed` and `OwedToRecipients` say, label by
  label, what the only thread knows: what is owed is exactly what it will
  announce.
- `ContractCorrect` follows from `OpenContractCorrect`, since then lobbies that
  are closed are empty (`ClosedEmpty`) and both mappings agree.

`SessionsProofs`: for any number of callers `TypeCorrect`, `MapsCorrect`,
`SweptCorrect` and `NoRevivalCorrect`.  They need `CallKnows`, what a call has
established since it began, which survives the other callers because
expirations only move forward (`HourAtMost`).  `ContinuousUseCorrect`, also for
any number, needs `LapsedFirst`: only time makes a session expire, and a sweep
destroys only what it found expired, so what a sweep is about to destroy has
lapsed even if another caller extended it since.  With the HTTP thread alone
`SlidingCorrect`; it needs `HourFromLastUse` (an hour runs from the last use, and
what left the maps without a logout had outlived it), `DoomedExpired` and
`FoundKept`, which are exactly what an io thread breaks.

`RealtimeProofs`: `TypeCorrect` and `BindingCorrect` for any number of io
threads.  The latter needs that open connections are registered, that a handler
taking a connection down has closed it first, and that a connection about to be
bound is not bound yet.  `GhostsCorrect`, also for any number, rests on `GhostInv`:
the heartbeat only fetches connections that were bound, closing ends their
operations, and nothing is read while a message is handled.  `LossEndsRight` is the
part of `LossNoticed` that is not fairness: a failed read waits for its handler,
which makes at most three calls and ends with the connection out of the registry
for good.  With at most one io thread and finitely many
connections `ReachableCorrect`, `WatchedCorrect`, `NoTakeoverCorrect` and
`ContractCorrect` (Realtime implements Presence): lemma `RunnableAlone` gives
that one handler runs at a time, and `HandlerKnows` what it has established by
each of its calls; the monitors run freely.

`WriteQueueProofs`: for any messages and number of sends.  `TypeCorrect`,
`BufferCorrect` and `DamageCorrect` rest on `ClosedFirst` (`Close` deactivates,
shuts and clears in this order) and `WriteKnows` (while the socket is open, a
write has its message in the queue).  `ChannelCorrect` needs `InOrder`: until the
socket is closed, what is written, the queue, the message being pushed and the
posted jobs are consecutive slices of what was accepted; lemmas on slices of
sequences carry it through the steps.  `NothingStranded` is the part of `Delivered`
that is not fairness: while the connection is open, a message that was accepted
and not written has its job posted or running, or a write under way.  It follows
from `InOrder` and `Attended` (whoever leaves a message in the queue has started
a write or is about to).

`TimeoutsProofs`: for all durations with `HandlingAssumption`.  `TimeInv` says what
the last round of each monitor has settled: nothing can have grown by more than the
monitor has slept since (`RoundKnows`, `OnlineKnows`, `CheckKnows`), how long the
player has been silent by phase (`ClosedKnows`, `SilenceKnows`), and that whoever is
online and not watched connected during a round that had found it silent
(`WatchKnows`).  `SilentCorrect` and `BoundCorrect` follow; `ResponsiveCorrect`
assumes `Patient` and adds `PongKnows`: while the client answers in time, the last
Pong is no older than the last Ping or the one before it.

`ServerProofs`: `ServerImplementsLobbies`, and with it `ServerLobbiesCorrect`,
which lifts four theorems of `LobbiesProofs`; `ServerKeepsContract`, which lifts
`OpenContractCorrect`; `ServerImplementsPresence`, so that the players of `Server`
behave as those of `Realtime` are proved to; `ServerTypeCorrect`; and
`ListFreshCorrect` from `FreshInv`: whoever is online and outdated will be told,
since some thread is between its change and its announcement (`WillNotify`).

`RouterProofs`: for every path and method, from the table of the code.  Facts
about `SplitPath`, a recursive function, need induction over the path; it is
done without an induction theorem, as the absence of a least counterexample
(`LeastNat`).  `TryMatchRight`: comparing piece by piece accepts exactly the
instances of the pattern, since no parameter occurs twice in one.
`HandledRight`: no two entries fit the same request (`NoClash`), so that the first
that matches is the only one.  `SlashesDoNotMatter` and `QueryDoesNotMatter`: what
is added to a path by doubled, leading and trailing slashes or from a `?` on
never changes the answer.

`HttpProofs`: for any clients and requests.  `HttpImplementsSessions`, and with
it `HttpSessionsCorrect`; `HttpTypeCorrect`, which needs that some entry that
matches comes first; `RoutedCorrect`, from `HandledRight` and that no step keeps
the endpoint of one request for another; and `ActsCorrect` from `Validating`: a
session that was logged out never comes back, a validation is of the token of
the request, and what it found stays in the map until it returns.

Only model-checked: the liveness properties (`HostTimeoutDestroys`,
`TimedOutLeaves`, `LossNoticed`, `Delivered`, `EveryoneServed`), since the prover
does not handle fairness and ENABLED.  Every other property of a passing run is
stated by a theorem.

## Not modelled

- `Message` and the building of event data: wording.
- `readBuffer`, and `NormalizeMessage`, which appends a line end: bytes only.
- Opening ports, start-up and the JSON library.  Nothing there has a state that
  a property could be about; that `main` never runs the io context is
  `IoThreads = 0`.
- `PresenceService::Remove` and `IsAwaitingReconnect`, `NotifyPlayerConnected`
  and `NotifyPlayerReconnected`: no code calls them.
- Data races inside one call on an object without a lock, `BroadcastToUsers` over
  a vector that another thread changes among them: undefined behaviour below the
  grain of the models.
- Crashes and restarts: nothing is persisted.

## Plan

The plan of the project (`Lobbies`, `Sessions`, `Realtime`, `WriteQueue`,
`Timeouts`, `Router` and `Http`, `Server`, and their proofs) is carried out.
What could follow:

1. The safety half of the remaining liveness properties, `EveryoneServed` (a turn
   of the HTTP loop has a bounded number of steps) and `TimedOutLeaves` (a round
   of the presence monitor ends with the seat of each player it reports freed).
2. `WriteQueue` and `Timeouts` as checked refinements of a connection of
   `Realtime`.
3. A lock in `SessionManager` and `LobbyManager`, and a counter of closes in
   `ClientConnection`, as proposed changes: the models would tell which of the
   failures above they remove.
