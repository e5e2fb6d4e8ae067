------------------------------ MODULE Timeouts ------------------------------
(***************************************************************************)
(* The durations of HeartbeatService and PresenceService, for one player.  *)
(* Realtime lets any deadline pass at any time; here time is counted, in   *)
(* whole seconds, as the age of what the two monitors compare with their   *)
(* constants.  The round of the heartbeat monitor comes in the pieces its  *)
(* lock leaves: the player may be lost and reconnect, on a connection of   *)
(* its own, between the scan, the fetch and the close.  Of the connections *)
(* the player had before, stray says whether one may still be heard of.    *)
(* One io thread runs the handlers, so none comes in the middle of another.*)
(***************************************************************************)
EXTENDS Integers

CONSTANTS
    PingInterval, TimeoutWindow, MonitorTick,  \* heartbeatService.hpp
    ReconnectWindow,  \* presenceService.hpp, the default of MarkOffline
    Late,             \* how much longer than MonitorTick a round of a
                      \* monitor, with its sleep, may take
    Slack,            \* how long a responsive client may take to answer
    Handling          \* how long a lost connection waits for the last run
                      \* of its disconnect handler, if one will come

ASSUME DurationsAssumption ==
    /\ {PingInterval, TimeoutWindow, MonitorTick, ReconnectWindow} \subseteq Nat \ {0}
    /\ {Late, Slack, Handling} \subseteq Nat

\* The second run of a disconnect handler does not find the first one's
\* reconnect window over.
ASSUME HandlingAssumption == Handling < ReconnectWindow

VARIABLES
    phase,       \* of the player, see Phases
    since,       \* how long it has been closed or leaving, or else away, or 0
    watched,     \* whether lastPongByUsername has the player
    sincePong,   \* Now - lastPongByUsername[player], or 0
    sincePing,   \* Now - LastPingSent
    unanswered,  \* the age of the oldest Ping not answered, or Nothing
    round,       \* of the heartbeat monitor, see Rounds
    sinceBeat,   \* how long ago the heartbeat monitor took Now
    sinceCheck,  \* how long ago the presence monitor did
    bound,       \* whether a connection has been bound to the name and is not
                 \* online yet, "shut" if it was closed meanwhile
    stray,       \* whether an earlier connection may still send a Pong or
                 \* run its disconnect handler
    silent,      \* history: the client has let a Ping wait beyond Slack
    expelled,    \* history: the heartbeat closed this connection
    silence,     \* history: time since the heartbeat heard of the client
    upset        \* history: "round", a round that had found the player silent
                 \* before it came back went on, or met the new connection;
                 \* "stray", the handler of an earlier connection has run
                 \* since it came back

client  == <<unanswered, silent>>
beat    == <<round, sinceBeat, sincePing>>
connections == <<bound, stray>>
history == <<expelled, silence, upset>>
vars    == <<phase, since, watched, sincePong, sincePing, unanswered, round,
             sinceBeat, sinceCheck, bound, stray, silent, expelled, silence, upset>>

\* "closed": lost or closed, the disconnect handler still to come; "leaving":
\* it has run for the read or the write, and will for the other; "away":
\* awaiting reconnect; "gone": no presence record; "ghost": closed with no
\* operation under way, so that no handler will come (Realtime!Ghost).
Phases == {"online", "closed", "leaving", "away", "gone", "ghost"}

\* "scanned": the player is among TimedOutUsers; then the fetch has "found"
\* its connection, or an "old" one, or "nobody".
Rounds == {"asleep", "scanned", "found", "old", "nobody"}

Nothing == -1
Nap == MonitorTick + Late    \* from a round of a monitor to its next

\* Ages that matter no more stop here.
Enough == TimeoutWindow + Nap + Late + Handling + ReconnectWindow + Nap

Aged(age) == IF age < Enough THEN age + 1 ELSE age

-----------------------------------------------------------------------------
\* The heartbeat monitor may sleep for ever.
SecondUnmonitored ==
    /\ sinceCheck < Nap
    /\ phase \notin {"closed", "leaving"}
    /\ sinceBeat' = sinceBeat + 1
    /\ sinceCheck' = sinceCheck + 1
    /\ sincePing' = sincePing + 1
    /\ UNCHANGED <<phase, since, watched, sincePong, client, round, connections,
                   history>>

\* A second passes, unless something is due now.
Second ==
    /\ sinceBeat < IF round = "asleep" THEN Nap ELSE Late
    /\ sinceCheck < Nap
    /\ phase \in {"closed", "leaving"} => since < Handling
    /\ unanswered # Nothing /\ silent = "no" => unanswered < Slack
    /\ sinceBeat' = sinceBeat + 1
    /\ sinceCheck' = sinceCheck + 1
    /\ sincePing' = sincePing + 1
    /\ since' = IF phase \in {"closed", "leaving", "away"} THEN since + 1 ELSE since
    /\ sincePong' = IF watched = "yes" THEN Aged(sincePong) ELSE sincePong
    /\ silence' = IF phase = "gone" THEN silence ELSE Aged(silence)
    /\ unanswered' = IF unanswered # Nothing /\ silent = "no" THEN unanswered + 1
                                                             ELSE unanswered
    /\ UNCHANGED <<phase, watched, round, connections, silent, expelled, upset>>

-----------------------------------------------------------------------------
(* The player and its connections                                          *)

\* AuthenticateConnection for a new connection of a player who is not online:
\* at first, within the reconnect window or after it, and also between the two
\* runs of the disconnect handler of the connection before.
Bind ==
    /\ phase \in {"leaving", "away", "gone"}
    /\ bound = "no"
    /\ bound' = "yes"
    /\ round' = IF round = "found" THEN "old" ELSE round
    /\ UNCHANGED <<phase, since, watched, sincePong, sincePing, sinceBeat, client,
                   sinceCheck, stray, history>>

\* MarkOnline and RegisterPlayer, whatever has become of the connection.
Connect ==
    /\ bound # "no"
    /\ bound' = "no"
    /\ phase' \in IF bound = "yes" THEN {"online"} ELSE {"closed", "ghost"}
    /\ expelled' = IF bound = "yes" THEN "no" ELSE "yes"
    /\ upset' = IF bound = "shut" \/ round \in {"scanned", "found", "nobody"}
                  THEN "round" ELSE "no"
    /\ stray' = IF phase = "leaving" THEN "yes" ELSE stray
    /\ since' = 0
    /\ watched' = "yes"
    /\ sincePong' = 0
    /\ silence' = 0
    /\ unanswered' = Nothing
    /\ silent' = "no"
    /\ UNCHANGED <<beat, sinceCheck>>

\* The Pong refreshes only a player whose window has run out.
TouchStale ==
    /\ phase \in {"online", "closed", "ghost"}
    /\ unanswered' = Nothing
    /\ IF watched = "yes"
         THEN /\ sincePong' = IF sincePong >= TimeoutWindow THEN 0 ELSE sincePong
              /\ silence' = 0
         ELSE UNCHANGED <<sincePong, silence>>
    /\ UNCHANGED <<phase, since, watched, beat, sinceCheck, connections, silent,
                   expelled, upset>>

\* A Pong of the client arrives: Touch, which needs an entry to refresh.  It
\* may have been read before the connection was closed.
Touch ==
    /\ phase \in {"online", "closed", "ghost"}
    /\ unanswered' = Nothing
    /\ IF watched = "yes" THEN sincePong' = 0 /\ silence' = 0
                          ELSE UNCHANGED <<sincePong, silence>>
    /\ UNCHANGED <<phase, since, watched, beat, sinceCheck, connections, silent,
                   expelled, upset>>

\* A Pong from an earlier connection carries the same username.
StrayTouch ==
    /\ stray = "yes"
    /\ watched = "yes"
    /\ sincePong' = 0
    /\ silence' = 0
    /\ UNCHANGED <<phase, since, watched, client, beat, sinceCheck, connections,
                   expelled, upset>>

\* The client, or the network to it, stops answering in time.
FallSilent ==
    /\ unanswered # Nothing
    /\ silent = "no"
    /\ silent' = "yes"
    /\ UNCHANGED <<phase, since, watched, sincePong, unanswered, beat, sinceCheck,
                   connections, history>>

\* The connection is lost in a way the read or the write notices.
Lose ==
    /\ phase = "online"
    /\ phase' = "closed"
    /\ since' = 0
    /\ UNCHANGED <<watched, sincePong, client, beat, sinceCheck, connections,
                   history>>

\* The disconnect handler, for one of two failed operations: the heartbeat
\* forgets the player, and the other run is yet to come.
UnregisterFirst ==
    /\ phase = "closed"
    /\ phase' = "leaving"
    /\ watched' = "no"
    /\ sincePong' = 0
    /\ UNCHANGED <<since, client, beat, sinceCheck, connections, history>>

\* The only or the second run of the disconnect handler: UnregisterPlayer and
\* MarkOffline, from which the reconnect window counts.
MarkOffline ==
    /\ phase \in {"closed", "leaving"}
    /\ bound = "no"
    /\ phase' = "away"
    /\ since' = 0
    /\ watched' = "no"
    /\ sincePong' = 0
    /\ unanswered' = Nothing
    /\ UNCHANGED <<beat, sinceCheck, connections, silent, history>>

\* The disconnect handler of an earlier connection does the same to the player
\* whatever its phase is by now.  The connection the player had until then is
\* an earlier one from here on, and not the last if it was alive.
StrayHandler ==
    /\ stray = "yes"
    /\ bound = "no"
    /\ phase' = "away"
    /\ since' = 0
    /\ watched' = "no"
    /\ sincePong' = 0
    /\ unanswered' = Nothing
    /\ silent' = "no"
    /\ expelled' = "no"
    /\ upset' = "stray"
    /\ stray' \in IF phase \in {"online", "closed", "leaving"} THEN {"yes"}
                                                              ELSE {"yes", "no"}
    /\ UNCHANGED <<silence, beat, sinceCheck, bound>>

-----------------------------------------------------------------------------
(* HeartbeatService::MonitorLoop                                           *)

\* A connection that has been sent a Ping in this round is left alone.
ScanPingsOnly ==
    LET ping == sincePing >= PingInterval IN
    /\ round = "asleep"
    /\ sinceBeat >= MonitorTick
    /\ sinceBeat' = 0
    /\ sincePing' = IF ping THEN 0 ELSE sincePing
    /\ unanswered' = IF ping /\ phase = "online" /\ unanswered = Nothing
                       THEN 0 ELSE unanswered
    /\ round' = IF watched = "yes" /\ sincePong >= TimeoutWindow /\ ~ ping
                  THEN "scanned" ELSE "asleep"
    /\ UNCHANGED <<phase, since, watched, sincePong, sinceCheck, connections,
                   silent, history>>

\* The monitor wakes, sends a Ping when one is due, and under the lock lists
\* whoever has not been heard of for TimeoutWindow.
Scan ==
    LET ping == sincePing >= PingInterval IN
    /\ round = "asleep"
    /\ sinceBeat >= MonitorTick
    /\ sinceBeat' = 0
    /\ sincePing' = IF ping THEN 0 ELSE sincePing
    /\ unanswered' = IF ping /\ phase = "online" /\ unanswered = Nothing
                       THEN 0 ELSE unanswered
    /\ round' = IF watched = "yes" /\ sincePong >= TimeoutWindow
                  THEN "scanned" ELSE "asleep"
    /\ UNCHANGED <<phase, since, watched, sincePong, sinceCheck, connections,
                   silent, history>>

\* FetchConnectionByUsername, without the lock: the player may have gone since,
\* leaving no connection or one that is on its way out, or have come back.
FetchConnection ==
    /\ round = "scanned"
    /\ round' \in IF bound # "no" \/ phase \in {"online", "closed", "ghost"}
                    THEN {"found"} ELSE {"old", "nobody"}
    /\ UNCHANGED <<phase, since, watched, sincePong, sincePing, sinceBeat, client,
                   sinceCheck, connections, history>>

\* Closing a connection that is closed, or not the player's any more, changes
\* nothing for the player.  Closed with no operation under way it is a ghost;
\* a connection that is closed while it is authenticated comes online so.
Close ==
    /\ round \in {"found", "old"}
    /\ round' = "asleep"
    /\ bound' = IF round = "found" /\ bound = "yes" THEN "shut" ELSE bound
    /\ IF round = "found" /\ phase = "online"
         THEN /\ phase' \in {"closed", "ghost"}
              /\ since' = 0
              /\ expelled' = "yes"
         ELSE UNCHANGED <<phase, since, expelled>>
    /\ UNCHANGED <<watched, sincePong, sincePing, sinceBeat, client, sinceCheck,
                   stray, silence, upset>>

\* No connection was found: the heartbeat forgets the player, who may be back.
UnregisterPlayer ==
    /\ round = "nobody"
    /\ round' = "asleep"
    /\ watched' = "no"
    /\ sincePong' = 0
    /\ UNCHANGED <<phase, since, sincePing, sinceBeat, client, sinceCheck, connections,
                   history>>

-----------------------------------------------------------------------------
(* PresenceService::MonitorLoop                                            *)

\* The deadline of the record is not looked at.
CheckEager ==
    /\ sinceCheck >= MonitorTick
    /\ sinceCheck' = 0
    /\ phase' = IF phase = "away" THEN "gone" ELSE phase
    /\ since' = IF phase = "away" THEN 0 ELSE since
    /\ UNCHANGED <<watched, sincePong, client, beat, connections, history>>

\* Drops a record whose window has passed, which is then reported.
Check ==
    /\ sinceCheck >= MonitorTick
    /\ sinceCheck' = 0
    /\ IF phase = "away" /\ since >= ReconnectWindow
         THEN phase' = "gone" /\ since' = 0
         ELSE UNCHANGED <<phase, since>>
    /\ UNCHANGED <<watched, sincePong, client, beat, connections, history>>

-----------------------------------------------------------------------------
Init ==
    /\ phase = "gone"
    /\ watched = "no"
    /\ round = "asleep"
    /\ bound = "no"
    /\ stray = "no"
    /\ upset = "no"
    /\ unanswered = Nothing
    /\ silent = "no"
    /\ expelled = "no"
    /\ since = 0
    /\ sincePong = 0
    /\ sincePing = 0
    /\ sinceBeat = 0
    /\ sinceCheck = 0
    /\ silence = 0

Heartbeat == Scan \/ FetchConnection \/ Close \/ UnregisterPlayer

Next ==
    \/ Second
    \/ Bind
    \/ Connect
    \/ Touch
    \/ StrayTouch
    \/ FallSilent
    \/ Lose
    \/ UnregisterFirst
    \/ MarkOffline
    \/ StrayHandler
    \/ Heartbeat
    \/ Check

Spec == Init /\ [][Next]_vars

-----------------------------------------------------------------------------
(* Properties                                                              *)

\* Every variable has its type, and no monitor takes longer than it may.
TypeOK ==
    /\ phase \in Phases
    /\ round \in Rounds
    /\ {since, sincePong, sincePing, silence} \subseteq Nat
    /\ unanswered \in Nat \union {Nothing}
    /\ sinceBeat \in 0..Nap
    /\ sinceCheck \in 0..Nap
    /\ {watched, stray, silent, expelled} \subseteq {"no", "yes"}
    /\ bound \in {"no", "yes", "shut"}
    /\ upset \in {"no", "round", "stray"}

\* What the durations must satisfy for the heartbeat to be fair to a client.
Patient == PingInterval + Nap + Slack <= TimeoutWindow

\* A client that answers every Ping within Slack is not expelled, however the
\* rounds of the monitor fall, unless it came back while a round was under way
\* that had found it silent before: that round may close the new connection,
\* also one that is still being authenticated.
ResponsiveKept == expelled = "yes" => silent = "yes" \/ upset = "round"

\* A watched player who is not heard of is closed, and its closed connection
\* handled, within the window, a nap, the round that finds it and the handling;
\* and whoever is online is watched, unless it connected while a round was
\* under way that had found it silent and nobody there.
SilentNoticed ==
    /\ phase \in {"online", "closed"} /\ watched = "yes" =>
           sincePong < TimeoutWindow + Nap + Late + Handling
    /\ phase = "online" /\ watched = "no" => upset = "round"

\* Unless a round or an earlier connection has upset it, from the last Pong to
\* the report of the timeout it takes at most both windows, the naps, a round
\* and the handling, but for a connection that became a ghost; and nobody is
\* given up before the reconnect window has passed.
TimeoutBound ==
    upset = "no" =>
        /\ phase # "ghost" => silence < Enough
        /\ phase = "gone" /\ silence > 0 => silence >= ReconnectWindow
=============================================================================
