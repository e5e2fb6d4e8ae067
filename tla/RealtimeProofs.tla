--------------------------- MODULE RealtimeProofs ---------------------------
(***************************************************************************)
(* Theorems about Realtime.  What the registry by username says is sound   *)
(* for any number of io threads; what presence and heartbeat say agrees    *)
(* with it as long as at most one thread runs the handlers.                *)
(***************************************************************************)
EXTENDS Realtime, FiniteSetTheorems, TLAPS

(***************************************************************************)
(* Type correctness, for any number of io threads                          *)

\* Every reachable state is well typed, and no handler is about to write to
\* a service without a username.
THEOREM TypeCorrect == Spec => []TypeOK
<1>1. Init => TypeOK
  BY DEF Init, TypeOK, Jobs
<1>2. TypeOK /\ [Next]_vars => TypeOK'
  <2> SUFFICES ASSUME TypeOK, [Next]_vars PROVE TypeOK'
    OBVIOUS
  <2> USE DEF TypeOK, Jobs, Goto, conn, handler, registry, monitors
  <2>0. CASE UNCHANGED vars
    BY <2>0 DEF vars
  <2>1. ASSUME NEW c \in Conns,
               Accept(c) \/ Start(c) \/ Network(c) \/ Write(c) \/ Receive(c) \/ Rearm(c)
        PROVE  TypeOK'
    BY <2>1 DEF Accept, Start, Network, Write, Receive, Rearm
  <2>2. ASSUME NEW c \in Conns, NEW u \in Users, Authenticate(c, u) PROVE TypeOK'
    BY <2>2 DEF Authenticate
  <2>3. ASSUME NEW c \in Conns, Pong(c) \/ Reject(c) \/ CheckPresence(c)
        PROVE  TypeOK'
    BY <2>3 DEF Pong, Reject, CheckPresence, Send
  <2>4. ASSUME NEW c \in Conns, Bind(c) \/ MarkOnline(c) \/ RegisterPlayer(c)
        PROVE  TypeOK'
    BY <2>4 DEF Bind, MarkOnline, RegisterPlayer, Send
  <2>5. ASSUME NEW c \in Conns, ReadFailed(c) \/ WriteFailed(c) PROVE TypeOK'
    BY <2>5, NoneAssumption DEF ReadFailed, WriteFailed, Fail, Cancelled
  <2>6. ASSUME NEW c \in Conns, UnregisterPlayer(c) \/ MarkOffline(c) PROVE TypeOK'
    BY <2>6 DEF UnregisterPlayer, MarkOffline
  <2>7. ASSUME NEW c \in Conns, RemoveConnection(c) PROVE TypeOK'
    BY <2>7 DEF RemoveConnection
  <2>8. ASSUME NEW u \in Users, Age(u) \/ SendToUsername(u) PROVE TypeOK'
    BY <2>8 DEF Age, SendToUsername, Send
  <2>9. CASE Ping \/ ScanPongs
    BY <2>9 DEF Ping, ScanPongs, Send
  <2>10. ASSUME NEW u \in Users, FetchVictim(u) \/ ReportTimeout(u) PROVE TypeOK'
    BY <2>10 DEF FetchVictim, ReportTimeout
  <2>11. CASE Expel
    BY <2>11, NoneAssumption DEF Expel, Cancelled
  <2>12. ASSUME NEW S \in SUBSET Users, Expire(S) PROVE TypeOK'
    BY <2>12 DEF Expire
  <2> QED
    BY <2>0, <2>1, <2>2, <2>3, <2>4, <2>5, <2>6, <2>7, <2>8, <2>9, <2>10, <2>11,
       <2>12
       DEF Next, ReadHandler, WriteHandler, Handle, Interpret, HeartbeatTick,
           PresenceMonitor
<1> QED BY <1>1, <1>2, PTL DEF Spec

(***************************************************************************)
(* The registry by username, for any number of io threads                  *)

\* A connection that was not accepted has no handler, no write, no socket.
UnusedQuiet ==
    \A c \in Conns : reading[c] = "unused" =>
        job[c] = "idle" /\ writing[c] = "none" /\ c \notin open

\* A handler that takes a connection down has closed it.
ClosedFirst ==
    \A c \in Conns : job[c] \in {"unwatch", "offline", "remove"} => c \notin open

\* A connection about to be bound is registered, and not bound yet.
BoundOnce ==
    \A c \in Conns : job[c] \in {"presence", "bind"} =>
        c \in connections /\ username[c] = None

RegistryInv ==
    /\ open \subseteq connections
    /\ UnusedQuiet
    /\ ClosedFirst
    /\ BoundOnce
    /\ BindingSound

\* The strengthened registry invariant is inductive.
LEMMA RegistryStep ==
    ASSUME TypeOK, RegistryInv, [Next]_vars PROVE RegistryInv'
<1> USE DEF TypeOK, Jobs, Goto, conn, handler, registry, monitors, RegistryInv,
            UnusedQuiet, ClosedFirst, BoundOnce, BindingSound
<1>0. CASE UNCHANGED vars
  BY <1>0 DEF vars
<1>1. ASSUME NEW c \in Conns, Accept(c) PROVE RegistryInv'
  BY <1>1 DEF Accept
<1>2. ASSUME NEW c \in Conns, Start(c) \/ Network(c) \/ Write(c) PROVE RegistryInv'
  BY <1>2 DEF Start, Network, Write
<1>3. ASSUME NEW c \in Conns, Receive(c) \/ Rearm(c) PROVE RegistryInv'
  BY <1>3 DEF Receive, Rearm, Runnable
<1>4. ASSUME NEW c \in Conns, NEW u \in Users, Authenticate(c, u) PROVE RegistryInv'
  BY <1>4 DEF Authenticate
<1>5. ASSUME NEW c \in Conns, Pong(c) \/ Reject(c) \/ CheckPresence(c)
      PROVE  RegistryInv'
  BY <1>5 DEF Pong, Reject, CheckPresence, Send
<1>6. ASSUME NEW c \in Conns, Bind(c) PROVE RegistryInv'
  BY <1>6, NoneAssumption DEF Bind
<1>7. ASSUME NEW c \in Conns, MarkOnline(c) \/ RegisterPlayer(c) PROVE RegistryInv'
  BY <1>7 DEF MarkOnline, RegisterPlayer, Send
<1>8. ASSUME NEW c \in Conns, ReadFailed(c) \/ WriteFailed(c) PROVE RegistryInv'
  BY <1>8 DEF ReadFailed, WriteFailed, Fail, Cancelled, Runnable
<1>9. ASSUME NEW c \in Conns, UnregisterPlayer(c) \/ MarkOffline(c)
      PROVE  RegistryInv'
  BY <1>9 DEF UnregisterPlayer, MarkOffline
<1>10. ASSUME NEW c \in Conns, RemoveConnection(c) PROVE RegistryInv'
  BY <1>10, NoneAssumption DEF RemoveConnection
<1>11. ASSUME NEW u \in Users, Age(u) \/ SendToUsername(u) PROVE RegistryInv'
  BY <1>11 DEF Age, SendToUsername, Send
<1>12. CASE Ping \/ ScanPongs
  BY <1>12 DEF Ping, ScanPongs, Send
<1>13. ASSUME NEW u \in Users, FetchVictim(u) \/ ReportTimeout(u) PROVE RegistryInv'
  BY <1>13 DEF FetchVictim, ReportTimeout
<1>14. CASE Expel
  BY <1>14 DEF Expel, Cancelled
<1>15. ASSUME NEW S \in SUBSET Users, Expire(S) PROVE RegistryInv'
  BY <1>15 DEF Expire
<1> QED
  BY <1>0, <1>1, <1>2, <1>3, <1>4, <1>5, <1>6, <1>7, <1>8, <1>9, <1>10, <1>11,
     <1>12, <1>13, <1>14, <1>15
     DEF Next, ReadHandler, WriteHandler, Handle, Interpret, HeartbeatTick,
         PresenceMonitor

\* Every reachable state satisfies it.
LEMMA Registry == Spec => [](TypeOK /\ RegistryInv)
<1>1. Init => RegistryInv
  BY DEF Init, RegistryInv, UnusedQuiet, ClosedFirst, BoundOnce, BindingSound
<1> QED BY <1>1, RegistryStep, TypeCorrect, PTL DEF Spec

\* However many io threads run, an entry of the registry by username leads to
\* a registered connection that carries the username.
THEOREM BindingCorrect == Spec => []BindingSound
<1>1. RegistryInv => BindingSound
  BY DEF RegistryInv
<1> QED BY <1>1, Registry, PTL

(***************************************************************************)
(* Ghosts, for any number of io threads                                    *)

\* A connection whose first read is still to be started is open and unknown
\* to everybody, and one that was never accepted is not registered.
Unstarted ==
    \A c \in Conns :
        /\ reading[c] = "unused" => c \notin connections
        /\ reading[c] = "posted" =>
               c \in open /\ job[c] = "idle" /\ writing[c] = "none"
        /\ reading[c] \in {"unused", "posted"} => username[c] = None

\* The heartbeat only fetches connections that were bound to a user.
VictimBound ==
    victim # None /\ victim[2] # None => username[victim[2]] # None

\* Closing a connection ends its operations, and none is started afterwards.
ClosedCalm ==
    \A c \in Conns \ open : "pending" \notin {reading[c], writing[c]}

\* While a message is handled nothing is read from its connection.
HandlerReads ==
    \A c \in Conns :
        job[c] \in {"message", "presence", "bind", "mark", "watch", "rearm"} =>
            reading[c] = "none"

GhostInv == Unstarted /\ VictimBound /\ ClosedCalm /\ HandlerReads

\* No step of any thread disturbs them.
LEMMA GhostInvStep ==
    ASSUME TypeOK, RegistryInv, GhostInv, [Next]_vars PROVE GhostInv'
<1> USE NoneAssumption
    DEF TypeOK, Jobs, Goto, conn, handler, registry, monitors, GhostInv,
        Unstarted, VictimBound, ClosedCalm, HandlerReads
<1>0. CASE UNCHANGED vars
  BY <1>0 DEF vars
<1>1. ASSUME NEW c \in Conns, Accept(c) PROVE GhostInv'
  BY <1>1 DEF Accept, RegistryInv, UnusedQuiet
<1>2. ASSUME NEW c \in Conns, Start(c) \/ Network(c) \/ Write(c) PROVE GhostInv'
  BY <1>2 DEF Start, Network, Write, Runnable
<1>3. ASSUME NEW c \in Conns, Receive(c) \/ Rearm(c) PROVE GhostInv'
  BY <1>3 DEF Receive, Rearm, Runnable
<1>4. ASSUME NEW c \in Conns, NEW u \in Users, Authenticate(c, u) PROVE GhostInv'
  BY <1>4 DEF Authenticate
<1>5. ASSUME NEW c \in Conns, Pong(c) \/ Reject(c) \/ CheckPresence(c)
      PROVE  GhostInv'
  BY <1>5 DEF Pong, Reject, CheckPresence, Send
<1>6. ASSUME NEW c \in Conns, Bind(c) \/ MarkOnline(c) \/ RegisterPlayer(c)
      PROVE  GhostInv'
  BY <1>6 DEF Bind, MarkOnline, RegisterPlayer, Send
<1>7. ASSUME NEW c \in Conns, ReadFailed(c) \/ WriteFailed(c) PROVE GhostInv'
  BY <1>7 DEF ReadFailed, WriteFailed, Fail, Cancelled, Runnable
<1>8. ASSUME NEW c \in Conns,
             UnregisterPlayer(c) \/ MarkOffline(c) \/ RemoveConnection(c)
      PROVE  GhostInv'
  BY <1>8 DEF UnregisterPlayer, MarkOffline, RemoveConnection
<1>9. ASSUME NEW u \in Users, Age(u) \/ SendToUsername(u) PROVE GhostInv'
  BY <1>9 DEF Age, SendToUsername, Send, RegistryInv, BindingSound
<1>10. CASE Ping \/ ScanPongs
  BY <1>10 DEF Ping, ScanPongs, Send, RegistryInv, BindingSound
<1>11. ASSUME NEW u \in Users, FetchVictim(u) \/ ReportTimeout(u) PROVE GhostInv'
  BY <1>11 DEF FetchVictim, ReportTimeout, RegistryInv, BindingSound
<1>12. CASE Expel
  BY <1>12 DEF Expel, Cancelled
<1>13. ASSUME NEW S \in SUBSET Users, Expire(S) PROVE GhostInv'
  BY <1>13 DEF Expire
<1> QED
  BY <1>0, <1>1, <1>2, <1>3, <1>4, <1>5, <1>6, <1>7, <1>8, <1>9, <1>10, <1>11,
     <1>12, <1>13
     DEF Next, ReadHandler, WriteHandler, Handle, Interpret, HeartbeatTick,
         PresenceMonitor

\* What one step may do to the ghosts.
GhostStep(c) ==
    IF Ghost(c) THEN Ghost(c)'
    ELSE Ghost(c)' => /\ \E u \in Users : victim = <<u, c>>
                      /\ "pending" \notin {reading[c], writing[c]}

\* Every handler that closes a connection also takes it out of the registry;
\* the heartbeat leaves that to an operation that fails, if there is one.
LEMMA GhostsStep ==
    ASSUME TypeOK, RegistryInv, GhostInv, [Next]_vars, NEW g \in Conns
    PROVE  GhostStep(g)
<1> USE NoneAssumption
    DEF TypeOK, Jobs, Goto, conn, handler, registry, monitors, GhostInv,
        Unstarted, ClosedCalm, HandlerReads, Ghost, GhostStep
<1>0. CASE UNCHANGED vars
  BY <1>0 DEF vars
<1>1. ASSUME NEW c \in Conns, Accept(c) PROVE GhostStep(g)
  BY <1>1 DEF Accept
<1>2. ASSUME NEW c \in Conns, Start(c) \/ Network(c) \/ Write(c) PROVE GhostStep(g)
  BY <1>2 DEF Start, Network, Write, Runnable
<1>3. ASSUME NEW c \in Conns, Receive(c) \/ Rearm(c) PROVE GhostStep(g)
  BY <1>3 DEF Receive, Rearm, Runnable
<1>4. ASSUME NEW c \in Conns, NEW u \in Users, Authenticate(c, u) PROVE GhostStep(g)
  BY <1>4 DEF Authenticate
<1>5. ASSUME NEW c \in Conns, Pong(c) \/ Reject(c) \/ CheckPresence(c)
      PROVE  GhostStep(g)
  BY <1>5 DEF Pong, Reject, CheckPresence, Send
<1>6. ASSUME NEW c \in Conns, Bind(c) \/ MarkOnline(c) \/ RegisterPlayer(c)
      PROVE  GhostStep(g)
  BY <1>6 DEF Bind, MarkOnline, RegisterPlayer, Send
<1>7. ASSUME NEW c \in Conns, ReadFailed(c) \/ WriteFailed(c) PROVE GhostStep(g)
  BY <1>7 DEF ReadFailed, WriteFailed, Fail, Cancelled, Runnable
<1>8. ASSUME NEW c \in Conns,
             UnregisterPlayer(c) \/ MarkOffline(c) \/ RemoveConnection(c)
      PROVE  GhostStep(g)
  BY <1>8 DEF UnregisterPlayer, MarkOffline, RemoveConnection
<1>9. ASSUME NEW u \in Users, Age(u) \/ SendToUsername(u) PROVE GhostStep(g)
  BY <1>9 DEF Age, SendToUsername, Send
<1>10. CASE Ping \/ ScanPongs
  BY <1>10 DEF Ping, ScanPongs, Send
<1>11. ASSUME NEW u \in Users, FetchVictim(u) \/ ReportTimeout(u) PROVE GhostStep(g)
  BY <1>11 DEF FetchVictim, ReportTimeout
<1>12. CASE Expel
  BY <1>12 DEF Expel, Cancelled
<1>13. ASSUME NEW S \in SUBSET Users, Expire(S) PROVE GhostStep(g)
  BY <1>13 DEF Expire
<1> QED
  BY <1>0, <1>1, <1>2, <1>3, <1>4, <1>5, <1>6, <1>7, <1>8, <1>9, <1>10, <1>11,
     <1>12, <1>13
     DEF Next, ReadHandler, WriteHandler, Handle, Interpret, HeartbeatTick,
         PresenceMonitor

\* Every reachable state satisfies it.
LEMMA GhostInvCorrect == Spec => []GhostInv
<1>1. Init => GhostInv
  BY NoneAssumption
     DEF Init, GhostInv, Unstarted, VictimBound, ClosedCalm, HandlerReads
<1>2. TypeOK /\ RegistryInv /\ GhostInv /\ [Next]_vars => GhostInv'
  BY GhostInvStep
<1> QED BY <1>1, <1>2, Registry, PTL DEF Spec

\* However many io threads run, a connection that is closed leaves the registry
\* unless the heartbeat closed it while it had no operation under way, and then
\* it never does.
THEOREM GhostsCorrect == Spec => GhostsOnlyExpelled
<1>1. TypeOK /\ RegistryInv /\ GhostInv /\ [Next]_vars
        => [\A c \in Conns :
               IF Ghost(c) THEN Ghost(c)'
               ELSE Ghost(c)' => /\ \E u \in Users : victim = <<u, c>>
                                 /\ "pending" \notin {reading[c], writing[c]}]_vars
  BY GhostsStep DEF GhostStep
<1> QED BY <1>1, Registry, GhostInvCorrect, PTL DEF Spec, GhostsOnlyExpelled

-----------------------------------------------------------------------------
(* What becomes of a lost connection, for any number of io threads         *)

Disconnecting == {"unwatch", "offline", "remove"}

\* The calls a disconnect handler still makes.
CallsLeft(label) ==
    IF label = "unwatch" THEN 3 ELSE IF label = "offline" THEN 2 ELSE 1

\* What one step may do to a connection that was lost.
LossStep(c) ==
    /\ reading[c] = "failed" /\ reading'[c] # "failed" => job'[c] \in Disconnecting
    /\ job[c] \in Disconnecting /\ job'[c] # job[c] =>
           IF job'[c] \in Disconnecting THEN CallsLeft(job'[c]) < CallsLeft(job[c])
                                        ELSE c \notin connections'
    /\ reading[c] # "unused" /\ c \notin connections => c \notin connections'

\* Only the handlers of a connection change its job, and a handler is picked
\* up only when none runs.
LEMMA LossSteps ==
    ASSUME TypeOK, HandlerReads, [Next]_vars, NEW g \in Conns PROVE LossStep(g)
<1> USE DEF TypeOK, Jobs, Goto, conn, handler, registry, monitors, LossStep,
            Disconnecting, CallsLeft
<1>1. ASSUME NEW c \in Conns, Accept(c) PROVE LossStep(g)
  BY <1>1 DEF Accept
<1>2. ASSUME NEW c \in Conns, Start(c) \/ Network(c) \/ Write(c) PROVE LossStep(g)
  BY <1>2 DEF Start, Network, Write, Runnable
<1>3. ASSUME NEW c \in Conns, Receive(c) \/ Rearm(c) PROVE LossStep(g)
  BY <1>3 DEF Receive, Rearm, Runnable, HandlerReads
<1>4. ASSUME NEW c \in Conns, ReadFailed(c) \/ WriteFailed(c) PROVE LossStep(g)
  BY <1>4 DEF ReadFailed, WriteFailed, Fail, Cancelled, Runnable
<1>5. ASSUME NEW c \in Conns,
             UnregisterPlayer(c) \/ MarkOffline(c) \/ RemoveConnection(c)
      PROVE  LossStep(g)
  BY <1>5 DEF UnregisterPlayer, MarkOffline, RemoveConnection
<1>6. ASSUME NEW c \in Conns, Interpret(c) PROVE LossStep(g)
  BY <1>6 DEF Interpret, Authenticate, Pong, Reject, Send
<1>7. ASSUME NEW c \in Conns, CheckPresence(c) \/ Bind(c) \/ MarkOnline(c)
      PROVE  LossStep(g)
  BY <1>7 DEF CheckPresence, Bind, MarkOnline, Send
<1>8. ASSUME NEW c \in Conns, RegisterPlayer(c) PROVE LossStep(g)
  BY <1>8 DEF RegisterPlayer, Send
<1>9. ASSUME NEW u \in Users, Age(u) \/ SendToUsername(u) \/ FetchVictim(u)
                              \/ ReportTimeout(u)
      PROVE  LossStep(g)
  BY <1>9 DEF Age, SendToUsername, FetchVictim, ReportTimeout, Send
<1>10. CASE Ping \/ ScanPongs \/ UNCHANGED vars
  BY <1>10 DEF Ping, ScanPongs, Send, vars
<1>11. CASE Expel
  BY <1>11 DEF Expel, Cancelled
<1>12. ASSUME NEW S \in SUBSET Users, Expire(S) PROVE LossStep(g)
  BY <1>12 DEF Expire
<1> QED
  BY <1>1, <1>2, <1>3, <1>4, <1>5, <1>6, <1>7, <1>8, <1>9, <1>10, <1>11, <1>12
     DEF Next, ReadHandler, WriteHandler, Handle, HeartbeatTick, PresenceMonitor

\* What LossNoticed says of the end, for all constants: a read that failed waits
\* until a disconnect handler runs for it, every call of that handler brings it
\* nearer to its end, three calls at most, it ends with the connection out of
\* the registry, and no connection returns there.  Only that handlers are picked
\* up and run is left to fairness.
THEOREM LossEndsRight == Spec => [][\A c \in Conns : LossStep(c)]_vars
<1>1. TypeOK /\ GhostInv /\ [Next]_vars => [\A c \in Conns : LossStep(c)]_vars
  BY LossSteps DEF GhostInv
<1> QED BY <1>1, TypeCorrect, GhostInvCorrect, PTL DEF Spec

(***************************************************************************)
(* Presence, heartbeat and registry, with at most one io thread            *)

OneThread == IoThreads \in {0, 1} /\ IsFiniteSet(Conns)

\* At most one handler runs.
OneBusy ==
    \A c, d \in Conns : job[c] # "idle" /\ job[d] # "idle" => c = d

\* What the running handler relies on, step by step.
HandlerKnows ==
    \A c \in Conns :
        /\ job[c] = "bind" => presence[claim[c]] # "online"
        /\ job[c] = "mark" =>
               byUsername[claim[c]] = c /\ presence[claim[c]] # "online"
        /\ job[c] = "watch" => presence[claim[c]] = "online"
        /\ job[c] \in {"unwatch", "offline"} => username[c] = claim[c]
        /\ job[c] = "offline" => lastPong[claim[c]] = "none"
        /\ job[c] = "remove" /\ username[c] # None =>
               presence[username[c]] # "online"

PresenceInv == OneBusy /\ HandlerKnows /\ OnlineReachable /\ WatchedOnline

\* The only thread picks up a handler when no handler is running.
LEMMA RunnableAlone ==
    ASSUME OneThread, NEW c \in Conns, Runnable(c)
    PROVE  \A d \in Conns : job[d] = "idle"
<1> DEFINE Busy == {d \in Conns : job[d] # "idle"}
<1>1. IsFiniteSet(Busy)
  BY FS_Subset DEF OneThread
<1>2. Cardinality(Busy) \in Nat /\ Cardinality(Busy) < IoThreads
  BY <1>1, FS_CardinalityType DEF Runnable
<1>3. Cardinality(Busy) = 0
  BY <1>2 DEF OneThread
<1>4. Busy = {}
  BY <1>1, <1>3, FS_EmptySet
<1> QED BY <1>4

\* With one thread, presence and heartbeat follow the registry at every step.
LEMMA PresenceStep ==
    ASSUME OneThread, TypeOK, RegistryInv, PresenceInv, [Next]_vars
    PROVE  PresenceInv'
<1> USE DEF TypeOK, Jobs, Goto, conn, handler, registry, monitors, PresenceInv,
            OneBusy, HandlerKnows, OnlineReachable, WatchedOnline
<1>0. CASE UNCHANGED vars
  BY <1>0 DEF vars
<1>1. ASSUME NEW c \in Conns, Accept(c) \/ Start(c) \/ Network(c) \/ Write(c)
      PROVE  PresenceInv'
  BY <1>1 DEF Accept, Start, Network, Write
<1>2. ASSUME NEW c \in Conns, Receive(c) PROVE PresenceInv'
  BY <1>2, RunnableAlone DEF Receive
<1>3. ASSUME NEW c \in Conns, Rearm(c) PROVE PresenceInv'
  BY <1>3 DEF Rearm
<1>4. ASSUME NEW c \in Conns, NEW u \in Users, Authenticate(c, u) PROVE PresenceInv'
  BY <1>4 DEF Authenticate
<1>5. ASSUME NEW c \in Conns, Pong(c) \/ Reject(c) \/ CheckPresence(c)
      PROVE  PresenceInv'
  BY <1>5 DEF Pong, Reject, CheckPresence, Send
<1>6. ASSUME NEW c \in Conns, Bind(c) PROVE PresenceInv'
  BY <1>6, NoneAssumption DEF Bind, RegistryInv, BoundOnce, BindingSound
<1>7. ASSUME NEW c \in Conns, MarkOnline(c) PROVE PresenceInv'
  BY <1>7, NoneAssumption DEF MarkOnline, RegistryInv, BindingSound
<1>8. ASSUME NEW c \in Conns, RegisterPlayer(c) PROVE PresenceInv'
  BY <1>8 DEF RegisterPlayer, Send
<1>9. ASSUME NEW c \in Conns, ReadFailed(c) \/ WriteFailed(c) PROVE PresenceInv'
  BY <1>9, RunnableAlone DEF ReadFailed, WriteFailed, Fail, Cancelled
<1>10. ASSUME NEW c \in Conns, UnregisterPlayer(c) PROVE PresenceInv'
  BY <1>10 DEF UnregisterPlayer
<1>11. ASSUME NEW c \in Conns, MarkOffline(c) PROVE PresenceInv'
  BY <1>11 DEF MarkOffline
<1>12. ASSUME NEW c \in Conns, RemoveConnection(c) PROVE PresenceInv'
  BY <1>12, NoneAssumption DEF RemoveConnection
<1>13. ASSUME NEW u \in Users, Age(u) \/ SendToUsername(u) PROVE PresenceInv'
  BY <1>13 DEF Age, SendToUsername, Send
<1>14. CASE Ping \/ ScanPongs
  BY <1>14 DEF Ping, ScanPongs, Send
<1>15. ASSUME NEW u \in Users, FetchVictim(u) \/ ReportTimeout(u) PROVE PresenceInv'
  BY <1>15 DEF FetchVictim, ReportTimeout
<1>16. CASE Expel
  BY <1>16 DEF Expel, Cancelled
<1>17. ASSUME NEW S \in SUBSET Users, Expire(S) PROVE PresenceInv'
  BY <1>17 DEF Expire
<1> QED
  BY <1>0, <1>1, <1>2, <1>3, <1>4, <1>5, <1>6, <1>7, <1>8, <1>9, <1>10, <1>11,
     <1>12, <1>13, <1>14, <1>15, <1>16, <1>17
     DEF Next, ReadHandler, WriteHandler, Handle, Interpret, HeartbeatTick,
         PresenceMonitor

\* Every state one thread reaches satisfies the presence invariant.
LEMMA PresenceHeld ==
    ASSUME OneThread PROVE Spec => [](TypeOK /\ RegistryInv /\ PresenceInv)
<1>1. Init => PresenceInv
  BY DEF Init, PresenceInv, OneBusy, HandlerKnows, OnlineReachable, WatchedOnline
<1>2. TypeOK /\ RegistryInv /\ PresenceInv /\ [Next]_vars => PresenceInv'
  BY PresenceStep
<1> QED BY <1>1, <1>2, Registry, PTL DEF Spec

\* With one io thread, whoever is online can be reached by name.
THEOREM ReachableCorrect == ASSUME OneThread PROVE Spec => []OnlineReachable
<1>1. PresenceInv => OnlineReachable
  BY DEF PresenceInv
<1> QED BY <1>1, PresenceHeld, PTL

\* With one io thread, the heartbeat watches nobody who is not online.
THEOREM WatchedCorrect == ASSUME OneThread PROVE Spec => []WatchedOnline
<1>1. PresenceInv => WatchedOnline
  BY DEF PresenceInv
<1> QED BY <1>1, PresenceHeld, PTL

\* With one io thread, no step binds the name of a player who is online to
\* another connection.
THEOREM NoTakeoverCorrect == ASSUME OneThread PROVE Spec => NoTakeover
<1> DEFINE Keeps == \A u \in Users :
        byUsername'[u] \notin {byUsername[u], None} => presence[u] # "online"
<1>1. ASSUME TypeOK, PresenceInv, [Next]_vars PROVE [Keeps]_vars
  <2>1. ASSUME NEW c \in Conns, Bind(c) PROVE Keeps
    BY <2>1, <1>1 DEF Bind, TypeOK, PresenceInv, HandlerKnows
  <2>2. ASSUME NEW c \in Conns, RemoveConnection(c) PROVE Keeps
    BY <2>2, <1>1 DEF RemoveConnection, TypeOK
  <2>3. CASE UNCHANGED byUsername
    BY <2>3
  <2>4. \/ UNCHANGED byUsername
        \/ \E c \in Conns : Bind(c) \/ RemoveConnection(c)
    BY <1>1
       DEF Next, ReadHandler, WriteHandler, Handle, Interpret, HeartbeatTick,
           PresenceMonitor, Accept, Start, Network, Write, Receive, Rearm,
           Authenticate, Pong, Reject, CheckPresence, MarkOnline,
           RegisterPlayer, ReadFailed, WriteFailed, Fail, UnregisterPlayer,
           MarkOffline, Age, SendToUsername, Ping, ScanPongs, FetchVictim,
           ReportTimeout, Expel, Expire, registry, vars
  <2> QED BY <2>1, <2>2, <2>3, <2>4
<1> QED BY <1>1, PresenceHeld, PTL DEF Spec, NoTakeover

-----------------------------------------------------------------------------
(* The realtime side keeps the contract of module Presence                 *)

\* With one io thread, every step is a step of the contract or leaves
\* presence and reports alone.
THEOREM ContractCorrect == ASSUME OneThread PROVE Spec => PresenceKept
<1> DEFINE Contract == [Promised!Next]_<<presence, expired>>
<1>1. Init => Promised!Init
  BY DEF Init, Promised!Init
<1>2. ASSUME TypeOK, PresenceInv, [Next]_vars PROVE Contract
  <2>1. ASSUME NEW c \in Conns, MarkOnline(c) PROVE Contract
    <3>1. claim[c] \in Users
      BY <2>1, <1>2 DEF MarkOnline, TypeOK
    <3>2. presence[claim[c]] # "online"
      BY <2>1, <1>2 DEF MarkOnline, PresenceInv, HandlerKnows
    <3> QED
      BY <2>1, <3>1, <3>2 DEF MarkOnline, monitors, Promised!Connect, Promised!Next
  <2>2. ASSUME NEW c \in Conns, MarkOffline(c) PROVE Contract
    <3>1. claim[c] \in Users
      BY <2>2, <1>2 DEF MarkOffline, TypeOK
    <3> QED
      BY <2>2, <3>1 DEF MarkOffline, monitors, Promised!Disconnect, Promised!Next
  <2>3. ASSUME NEW S \in SUBSET Users, Expire(S) PROVE Contract
    BY <2>3 DEF Expire, Promised!Expire, Promised!Next
  <2>4. ASSUME NEW u \in Users, ReportTimeout(u) PROVE Contract
    BY <2>4 DEF ReportTimeout, Promised!Report, Promised!Next
  <2>5. CASE UNCHANGED <<presence, expired>>
    BY <2>5
  <2>6. \/ UNCHANGED <<presence, expired>>
        \/ \E c \in Conns : MarkOnline(c) \/ MarkOffline(c)
        \/ \E S \in SUBSET Users : Expire(S)
        \/ \E u \in Users : ReportTimeout(u)
    BY <1>2
       DEF Next, ReadHandler, WriteHandler, Handle, Interpret, HeartbeatTick,
           PresenceMonitor, Accept, Start, Network, Write, Receive, Rearm,
           Authenticate, Pong, Reject, CheckPresence, Bind, RegisterPlayer,
           ReadFailed, WriteFailed, Fail, UnregisterPlayer, RemoveConnection,
           Age, SendToUsername, Ping, ScanPongs, FetchVictim, Expel, monitors,
           vars
  <2> QED BY <2>1, <2>2, <2>3, <2>4, <2>5, <2>6
<1> QED
  BY <1>1, <1>2, PresenceHeld, PTL
     DEF Spec, PresenceKept, Promised!Spec, Promised!presenceVars
=============================================================================
