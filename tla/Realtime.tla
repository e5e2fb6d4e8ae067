------------------------------ MODULE Realtime ------------------------------
(***************************************************************************)
(* The realtime side: RealtimeServer accepts connections, io threads run   *)
(* the read, write and error handlers of each ClientConnection on its      *)
(* strand, RealtimeAuthService binds a connection to a user, and           *)
(* ConnectionManager, PresenceService and HeartbeatService keep that       *)
(* binding, the two services with a monitor thread each.  A step is one    *)
(* call on one of the three services, each of which locks for one call.    *)
(* Time is abstract: a monitor may find any deadline passed.  What an event *)
(* says is not modelled, only that a write is posted or under way.         *)
(***************************************************************************)
EXTENDS Naturals, FiniteSets

CONSTANTS
    Users,       \* usernames
    Conns,       \* the connections that can ever be accepted
    None,
    IoThreads    \* threads that run RealtimeServer::ioContext

ASSUME NoneAssumption == None \notin Users \union Conns
ASSUME IoThreadsAssumption == IoThreads \in Nat

VARIABLES
    open,         \* the connections with IsOpen()
    username,     \* ClientConnection::username, None while unauthenticated
    reading,      \* the read operation of each connection
    writing,      \* its write operation, or the posted Send before it
    job,          \* the handler that runs on its strand, by its next call
    claim,        \* the username that handler works with
    connections,  \* the keys of ConnectionManager::connections
    byUsername,   \* ConnectionManager::authenticatedConnectionsByUsername
    presence,     \* PresenceService::records
    lastPong,     \* HeartbeatService::lastPongByUsername
    timedOut,     \* HeartbeatService's TimedOutUsers still to be looked at
    victim,       \* the user it is looking at and the connection it fetched
    expired       \* PresenceService's TimedOutUsers still to be reported

conn     == <<open, username, reading, writing>>
handler  == <<job, claim>>
registry == <<connections, byUsername>>
monitors == <<timedOut, victim, expired>>
vars     == <<open, username, reading, writing, job, claim, connections,
              byUsername, presence, lastPong, timedOut, victim, expired>>

Jobs == {"idle", "message", "presence", "bind", "mark", "watch", "rearm",
         "unwatch", "offline", "remove"}

-----------------------------------------------------------------------------
(* ClientConnection                                                        *)

\* Send posts to the strand; a queue that is being written just grows.
Send(S) ==
    writing' = [c \in Conns |->
        IF c \in S \intersect open /\ writing[c] = "none" THEN "posted"
                                                          ELSE writing[c]]

\* The socket is cancelled: an operation under way ends with an error.  A
\* completion that is already queued keeps its result.
Cancelled(op, c) == [op EXCEPT ![c] = IF @ = "pending" THEN "failed" ELSE @]

\* An io thread picks up a handler queued on the strand of c.
Runnable(c) ==
    /\ job[c] = "idle"
    /\ Cardinality({d \in Conns : job[d] # "idle"}) < IoThreads

Goto(c, label) == job' = [job EXCEPT ![c] = label]

\* RealtimeServer::AcceptLoop: Start posts the first read to the strand.
Accept(c) ==
    /\ reading[c] = "unused"
    /\ open' = open \union {c}
    /\ connections' = connections \union {c}
    /\ reading' = [reading EXCEPT ![c] = "posted"]
    /\ UNCHANGED <<username, writing, handler, byUsername, presence, lastPong,
                   monitors>>

Start(c) ==
    /\ Runnable(c)
    /\ reading[c] = "posted"
    /\ reading' = [reading EXCEPT ![c] = "pending"]
    /\ UNCHANGED <<open, username, writing, handler, registry, presence,
                   lastPong, monitors>>

\* The network: a line arrives, or the peer is lost, which the read and the
\* write notice each for itself.
Network(c) ==
    /\ \/ /\ reading[c] = "pending"
          /\ \E result \in {"ready", "failed"} :
                 reading' = [reading EXCEPT ![c] = result]
          /\ UNCHANGED writing
       \/ /\ writing[c] = "pending"
          /\ \E result \in {"none", "failed"} :
                 writing' = [writing EXCEPT ![c] = result]
          /\ UNCHANGED reading
    /\ UNCHANGED <<open, username, handler, registry, presence, lastPong, monitors>>

\* The job posted by Send.
Write(c) ==
    /\ Runnable(c)
    /\ writing[c] = "posted"
    /\ writing' = [writing EXCEPT ![c] = IF c \in open THEN "pending" ELSE "none"]
    /\ UNCHANGED <<open, username, reading, handler, registry, presence,
                   lastPong, monitors>>

Receive(c) ==
    /\ Runnable(c)
    /\ reading[c] = "ready"
    /\ reading' = [reading EXCEPT ![c] = "none"]
    /\ Goto(c, "message")
    /\ UNCHANGED <<open, username, writing, claim, registry, presence,
                   lastPong, monitors>>

\* The end of the read handler: reads on only if nobody closed meanwhile.
Rearm(c) ==
    /\ job[c] = "rearm"
    /\ reading' = [reading EXCEPT ![c] = IF c \in open THEN "pending" ELSE "none"]
    /\ Goto(c, "idle")
    /\ claim' = [claim EXCEPT ![c] = None]
    /\ UNCHANGED <<open, username, writing, registry, presence, lastPong, monitors>>

-----------------------------------------------------------------------------
(* Messages: RealtimeAuthService and HeartbeatService::HandleMessage       *)

\* Authenticate, with a token ValidateToken accepts for u.
Authenticate(c, u) ==
    /\ job[c] = "message"
    /\ c \in open
    /\ username[c] = None
    /\ claim' = [claim EXCEPT ![c] = u]
    /\ Goto(c, "presence")
    /\ UNCHANGED <<conn, registry, presence, lastPong, monitors>>

\* Pong; the auth service has let it pass, on a closed connection too.
Pong(c) ==
    LET u == username[c] IN
    /\ job[c] = "message"
    /\ lastPong' = IF u # None /\ lastPong[u] # "none"
                     THEN [lastPong EXCEPT ![u] = "fresh"]
                     ELSE lastPong
    /\ Goto(c, "rearm")
    /\ UNCHANGED <<conn, claim, registry, presence, monitors>>

\* Any other line, answered with AuthenticationFailed or ignored.
Reject(c) ==
    /\ job[c] = "message"
    /\ \/ Send({c})
       \/ UNCHANGED writing
    /\ Goto(c, "rearm")
    /\ UNCHANGED <<open, username, reading, claim, registry, presence, lastPong,
                   monitors>>

\* Whether the user is online already is not asked.
CheckNothing(c) ==
    /\ job[c] = "presence"
    /\ Goto(c, "bind")
    /\ UNCHANGED <<conn, claim, registry, presence, lastPong, monitors>>

\* presenceService.IsOnline
CheckPresence(c) ==
    /\ job[c] = "presence"
    /\ IF presence[claim[c]] = "online"
         THEN Send({c}) /\ Goto(c, "rearm")
         ELSE UNCHANGED writing /\ Goto(c, "bind")
    /\ UNCHANGED <<open, username, reading, claim, registry, presence, lastPong,
                   monitors>>

\* connectionManager.AuthenticateConnection
Bind(c) ==
    /\ job[c] = "bind"
    /\ username' = [username EXCEPT ![c] = claim[c]]
    /\ byUsername' = [byUsername EXCEPT ![claim[c]] = c]
    /\ Goto(c, "mark")
    /\ UNCHANGED <<open, reading, writing, claim, connections, presence,
                   lastPong, monitors>>

\* presenceService.MarkOnline
MarkOnline(c) ==
    /\ job[c] = "mark"
    /\ presence' = [presence EXCEPT ![claim[c]] = "online"]
    /\ Goto(c, "watch")
    /\ UNCHANGED <<conn, claim, registry, lastPong, monitors>>

\* heartbeatService.RegisterPlayer, and the answer.
RegisterPlayer(c) ==
    /\ job[c] = "watch"
    /\ lastPong' = [lastPong EXCEPT ![claim[c]] = "fresh"]
    /\ Send({c})
    /\ Goto(c, "rearm")
    /\ UNCHANGED <<open, username, reading, claim, registry, presence, monitors>>

-----------------------------------------------------------------------------
(* Errors: Close, NotifyDisconnect and the disconnect handler              *)

\* Whether the connection has a username is not asked.
FailUnasked(c, own) ==
    /\ Runnable(c)
    /\ own[c] = "failed"
    /\ open' = open \ {c}
    /\ claim' = [claim EXCEPT ![c] = username[c]]
    /\ Goto(c, "unwatch")
    /\ UNCHANGED <<username, registry, presence, lastPong, monitors>>

\* A read and a write that fail each run the whole handler.  Closing cancels
\* the other operation, which then fails as well.
Fail(c, own) ==
    /\ Runnable(c)
    /\ own[c] = "failed"
    /\ open' = open \ {c}
    /\ claim' = [claim EXCEPT ![c] = username[c]]
    /\ Goto(c, IF username[c] = None THEN "remove" ELSE "unwatch")
    /\ UNCHANGED <<username, registry, presence, lastPong, monitors>>

\* The read handler closes, but tells nobody.
ReadFailedSilently(c) ==
    /\ Runnable(c)
    /\ reading[c] = "failed"
    /\ open' = open \ {c}
    /\ reading' = [reading EXCEPT ![c] = "none"]
    /\ writing' = IF c \in open THEN Cancelled(writing, c) ELSE writing
    /\ UNCHANGED <<username, handler, registry, presence, lastPong, monitors>>

ReadFailed(c) ==
    /\ Fail(c, reading)
    /\ reading' = [reading EXCEPT ![c] = "none"]
    /\ writing' = IF c \in open THEN Cancelled(writing, c) ELSE writing

WriteFailed(c) ==
    /\ Fail(c, writing)
    /\ writing' = [writing EXCEPT ![c] = "none"]
    /\ reading' = IF c \in open THEN Cancelled(reading, c) ELSE reading

\* The heartbeat goes on waiting for a Pong of the lost player.
StayWatched(c) ==
    /\ job[c] = "unwatch"
    /\ Goto(c, "offline")
    /\ UNCHANGED <<conn, claim, registry, presence, lastPong, monitors>>

\* heartbeatService.UnregisterPlayer
UnregisterPlayer(c) ==
    /\ job[c] = "unwatch"
    /\ lastPong' = [lastPong EXCEPT ![claim[c]] = "none"]
    /\ Goto(c, "offline")
    /\ UNCHANGED <<conn, claim, registry, presence, monitors>>

\* The lost player stays online.
StayOnline(c) ==
    /\ job[c] = "offline"
    /\ Goto(c, "remove")
    /\ UNCHANGED <<conn, claim, registry, presence, lastPong, monitors>>

\* presenceService.MarkOffline opens the reconnect window.
MarkOffline(c) ==
    /\ job[c] = "offline"
    /\ presence' = [presence EXCEPT ![claim[c]] = "awaiting"]
    /\ Goto(c, "remove")
    /\ UNCHANGED <<conn, claim, registry, lastPong, monitors>>

\* The entry by username is left behind.
RemoveByIdOnly(c) ==
    /\ job[c] = "remove"
    /\ connections' = connections \ {c}
    /\ Goto(c, "idle")
    /\ claim' = [claim EXCEPT ![c] = None]
    /\ UNCHANGED <<conn, byUsername, presence, lastPong, monitors>>

\* connectionManager.RemoveConnection: once per connection, whatever entry
\* its username has by then.
RemoveConnection(c) ==
    LET u == username[c] IN
    /\ job[c] = "remove"
    /\ connections' = connections \ {c}
    /\ byUsername' = IF c \in connections /\ u # None
                       THEN [byUsername EXCEPT ![u] = None]
                       ELSE byUsername
    /\ Goto(c, "idle")
    /\ claim' = [claim EXCEPT ![c] = None]
    /\ UNCHANGED <<conn, presence, lastPong, monitors>>

-----------------------------------------------------------------------------
(* HeartbeatService::MonitorLoop                                           *)

\* TimeoutWindow passes without a Pong.
Age(u) ==
    /\ lastPong[u] = "fresh"
    /\ lastPong' = [lastPong EXCEPT ![u] = "stale"]
    /\ UNCHANGED <<conn, handler, registry, presence, monitors>>

Ping ==
    /\ timedOut = {}
    /\ Send({byUsername[u] : u \in Users} \ {None})
    /\ UNCHANGED <<open, username, reading, handler, registry, presence,
                   lastPong, monitors>>

\* connectionManager.SendToUsername, with which ServerEventDispatcher sends
\* its events from the HTTP thread, an io thread or the presence monitor.
SendToUsername(u) ==
    /\ Send({byUsername[u]} \ {None})
    /\ UNCHANGED <<open, username, reading, handler, registry, presence,
                   lastPong, monitors>>

ScanPongs ==
    /\ timedOut = {}
    /\ timedOut' = {u \in Users : lastPong[u] = "stale"}
    /\ UNCHANGED <<conn, handler, registry, presence, lastPong, victim, expired>>

\* connectionManager.FetchConnectionByUsername, outside the lock of the scan.
FetchVictim(u) ==
    /\ victim = None
    /\ u \in timedOut
    /\ victim' = <<u, byUsername[u]>>
    /\ UNCHANGED <<conn, handler, registry, presence, lastPong, timedOut, expired>>

\* Close the connection that was fetched, or forget the user who has none.
Expel ==
    /\ victim # None
    /\ LET u == victim[1]
           c == victim[2]
       IN  IF c = None
             THEN /\ lastPong' = [lastPong EXCEPT ![u] = "none"]
                  /\ UNCHANGED conn
             ELSE /\ open' = open \ {c}
                  /\ IF c \in open
                       THEN /\ reading' = Cancelled(reading, c)
                            /\ writing' = Cancelled(writing, c)
                       ELSE UNCHANGED <<reading, writing>>
                  /\ UNCHANGED <<username, lastPong>>
    /\ timedOut' = timedOut \ {victim[1]}
    /\ victim' = None
    /\ UNCHANGED <<handler, registry, presence, expired>>

-----------------------------------------------------------------------------
(* PresenceService::MonitorLoop                                            *)

\* Does not look whether the player awaits a reconnect.
ExpireEagerly(S) ==
    /\ expired = {}
    /\ S # {}
    /\ presence' = [u \in Users |-> IF u \in S THEN "none" ELSE presence[u]]
    /\ expired' = S
    /\ UNCHANGED <<conn, handler, registry, lastPong, timedOut, victim>>

\* The records whose reconnect window has passed are dropped under the lock.
Expire(S) ==
    /\ expired = {}
    /\ S \subseteq {u \in Users : presence[u] = "awaiting"}
    /\ S # {}
    /\ presence' = [u \in Users |-> IF u \in S THEN "none" ELSE presence[u]]
    /\ expired' = S
    /\ UNCHANGED <<conn, handler, registry, lastPong, timedOut, victim>>

\* The timeout handler, without the lock: NotifyPlayerTimedOut, whose effect
\* on lobbies is Lobbies!TimeOut.
ReportTimeout(u) ==
    /\ u \in expired
    /\ expired' = expired \ {u}
    /\ UNCHANGED <<conn, handler, registry, presence, lastPong, timedOut, victim>>

-----------------------------------------------------------------------------
Init ==
    /\ open = {}
    /\ username = [c \in Conns |-> None]
    /\ reading = [c \in Conns |-> "unused"]
    /\ writing = [c \in Conns |-> "none"]
    /\ job = [c \in Conns |-> "idle"]
    /\ claim = [c \in Conns |-> None]
    /\ connections = {}
    /\ byUsername = [u \in Users |-> None]
    /\ presence = [u \in Users |-> "none"]
    /\ lastPong = [u \in Users |-> "none"]
    /\ timedOut = {}
    /\ victim = None
    /\ expired = {}

Interpret(c) ==
    \/ \E u \in Users : Authenticate(c, u)
    \/ Pong(c)
    \/ Reject(c)

\* What an io thread does for c, once the handler has been picked up ...
Handle(c) ==
    \/ Interpret(c)
    \/ CheckPresence(c)
    \/ Bind(c)
    \/ MarkOnline(c)
    \/ RegisterPlayer(c)
    \/ Rearm(c)
    \/ UnregisterPlayer(c)
    \/ MarkOffline(c)
    \/ RemoveConnection(c)

\* ... and the handlers it can pick up.
ReadHandler(c) == Start(c) \/ Receive(c) \/ ReadFailed(c)

WriteHandler(c) == Write(c) \/ WriteFailed(c)

HeartbeatTick ==
    \/ ScanPongs
    \/ \E u \in Users : FetchVictim(u)
    \/ Expel

PresenceMonitor ==
    \/ \E S \in SUBSET Users : Expire(S)
    \/ \E u \in Users : ReportTimeout(u)

Next ==
    \/ \E c \in Conns :
           Accept(c) \/ Network(c) \/ ReadHandler(c) \/ WriteHandler(c) \/ Handle(c)
    \/ \E u \in Users : Age(u) \/ SendToUsername(u)
    \/ Ping
    \/ HeartbeatTick
    \/ PresenceMonitor

Spec == Init /\ [][Next]_vars

\* An io thread finishes the handler it runs, and ioContext is a queue: a
\* handler that waits for a thread is picked up in its turn, however many
\* others come.  The heartbeat monitor keeps ticking.  Neither the network
\* nor a client is assumed to do anything.
FairSpec ==
    /\ Spec
    /\ \A c \in Conns : /\ WF_vars(Handle(c))
                        /\ SF_vars(ReadHandler(c))
                        /\ SF_vars(WriteHandler(c))
    /\ WF_vars(HeartbeatTick)

-----------------------------------------------------------------------------
(* What the lobby side may rely on: module Server is built on this contract. *)

Promised == INSTANCE Presence

\* Whatever handlers and monitors do, a player comes online only from being
\* away, and is reported in rounds of the presence monitor, each user of a
\* round once.
PresenceKept == Promised!Spec

-----------------------------------------------------------------------------
(* Properties                                                              *)

\* Every variable has its type, and a handler about to write to one of the
\* services has a user to write for.
TypeOK ==
    /\ open \subseteq Conns
    /\ username \in [Conns -> Users \union {None}]
    /\ reading \in [Conns -> {"unused", "posted", "pending", "ready", "failed", "none"}]
    /\ writing \in [Conns -> {"none", "posted", "pending", "failed"}]
    /\ job \in [Conns -> Jobs]
    /\ claim \in [Conns -> Users \union {None}]
    /\ connections \subseteq Conns
    /\ byUsername \in [Users -> Conns \union {None}]
    /\ presence \in [Users -> {"none", "online", "awaiting"}]
    /\ lastPong \in [Users -> {"none", "fresh", "stale"}]
    /\ timedOut \subseteq Users
    /\ victim \in {None} \union (Users \X (Conns \union {None}))
    /\ expired \subseteq Users
    /\ \A c \in Conns : job[c] \notin {"idle", "message", "rearm", "remove"} =>
           claim[c] \in Users

\* A user who is online can be reached: the registry has a connection for the
\* name, and that connection carries the name.
OnlineReachable ==
    \A u \in Users : presence[u] = "online" =>
        /\ byUsername[u] # None
        /\ username[byUsername[u]] = u

\* The heartbeat only watches users who are online, whatever the order in
\* which its monitor and the disconnect handlers work.
WatchedOnline ==
    \A u \in Users : lastPong[u] # "none" => presence[u] = "online"

\* An entry of the registry by name always leads to a connection that carries
\* the name and is itself registered.
BindingSound ==
    \A u \in Users : byUsername[u] # None =>
        /\ username[byUsername[u]] = u
        /\ byUsername[u] \in connections

\* A user is bound to a new connection only while not online: the name of a
\* player who is connected is never taken over.
NoTakeover ==
    [][\A u \in Users :
           byUsername'[u] \notin {byUsername[u], None} => presence[u] # "online"]_vars

\* A connection whose read failed leaves the registry: the disconnect handler
\* runs for it.
LossNoticed == \A c \in Conns : reading[c] = "failed" ~> c \notin connections

\* README, "This prevents stale or ghost connections": a connection that is
\* closed does not stay registered for ever.
NoGhosts == \A c \in Conns :
    (c \in connections /\ c \notin open) ~> c \notin connections

\* Closed and registered, and no handler that would remove it runs or waits.
Ghost(c) ==
    /\ c \in connections \ open
    /\ "failed" \notin {reading[c], writing[c]}
    /\ job[c] \notin {"unwatch", "offline", "remove"}

\* What NoGhosts fails by: only the heartbeat makes a ghost, by closing a
\* connection while it has neither a read nor a write under way; every other
\* closed connection is on its way out of the registry.  A ghost stays one.
GhostsOnlyExpelled ==
    [][\A c \in Conns :
           IF Ghost(c) THEN Ghost(c)'
           ELSE Ghost(c)' => /\ \E u \in Users : victim = <<u, c>>
                             /\ "pending" \notin {reading[c], writing[c]}]_vars

\* README, "Authenticate using SessionToken ... Connection registered ...
\* Player becomes available": the server reads from a connection it accepted.
AcceptedIsRead == \A c \in Conns : c \in open ~> reading[c] # "posted"
=============================================================================
