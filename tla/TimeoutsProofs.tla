--------------------------- MODULE TimeoutsProofs ---------------------------
(***************************************************************************)
(* Theorems about Timeouts, for all durations.  The invariants bound each  *)
(* age by the age of the monitor that looks at it: since its last round    *)
(* nothing can have grown more than the monitor has slept; and they say    *)
(* what a round still knows of the player it had found silent.             *)
(***************************************************************************)
EXTENDS Timeouts, TLAPS

\* A round is over within Late of its scan.  The last scan has sent a Ping if
\* one was due.
RoundKnows ==
    /\ round # "asleep" => sinceBeat <= Late
    /\ sincePing < PingInterval + sinceBeat

\* Whoever is online and watched was not over the window at the last scan, or
\* is about to be closed, or came after that scan.
OnlineKnows ==
    phase = "online" /\ watched = "yes" =>
        sincePong < IF round \in {"scanned", "found"} THEN TimeoutWindow + Nap + sinceBeat
                                                      ELSE TimeoutWindow + sinceBeat

\* The handler of a closed connection comes within Handling.
ClosedKnows ==
    phase \in {"closed", "leaving"} =>
        /\ since <= Handling
        /\ watched = "yes" => sincePong < TimeoutWindow + Nap + Late + since

\* Who watches, phase by phase.
WatchKnows ==
    /\ phase \in {"leaving", "away", "gone"} => watched = "no"
    /\ phase \in {"online", "closed"} /\ watched = "no" => upset = "round"
    /\ round = "nobody" /\ phase \in {"online", "closed"} => upset = "round"
    /\ upset = "stray" => phase \in {"away", "gone"}
    /\ bound # "no" => phase \in {"leaving", "away", "gone"}

\* The last round of the presence monitor has dropped what was due.
CheckKnows == phase = "away" => since < ReconnectWindow + sinceCheck

\* How long an undisturbed player has been silent, phase by phase.
SilenceKnows ==
    upset = "no" =>
        /\ phase \in {"online", "closed"} => silence = sincePong
        /\ phase = "leaving" => silence < TimeoutWindow + Nap + Late + since
        /\ phase = "away" =>
               since <= silence /\ silence < TimeoutWindow + Nap + Late + Handling + since
        /\ phase = "gone" =>
               silence < Enough /\ (silence > 0 => silence >= ReconnectWindow)

TimeInv ==
    /\ TypeOK
    /\ RoundKnows
    /\ OnlineKnows
    /\ ClosedKnows
    /\ WatchKnows
    /\ CheckKnows
    /\ SilenceKnows

\* The bounds are inductive.
LEMMA TimeStep == ASSUME TimeInv, [Next]_vars PROVE TimeInv'
<1> USE DurationsAssumption, HandlingAssumption
    DEF TimeInv, TypeOK, RoundKnows, OnlineKnows, ClosedKnows, WatchKnows,
        CheckKnows, SilenceKnows, Phases, Rounds, Enough, Nap, Nothing, client,
        beat, connections, history
<1>1. CASE Second
  BY <1>1 DEF Second, Aged
<1>2. CASE Bind \/ Connect
  BY <1>2 DEF Bind, Connect
<1>3. CASE Touch
  BY <1>3 DEF Touch
<1>4. CASE StrayTouch
  BY <1>4 DEF StrayTouch
<1>5. CASE FallSilent
  BY <1>5 DEF FallSilent
<1>6. CASE Lose
  BY <1>6 DEF Lose
<1>7. CASE UnregisterFirst
  BY <1>7 DEF UnregisterFirst
<1>8. CASE MarkOffline
  BY <1>8 DEF MarkOffline
<1>9. CASE StrayHandler
  BY <1>9 DEF StrayHandler
<1>10. CASE Scan
  BY <1>10 DEF Scan
<1>11. CASE FetchConnection
  BY <1>11 DEF FetchConnection
<1>12. CASE Close
  BY <1>12 DEF Close
<1>13. CASE UnregisterPlayer
  BY <1>13 DEF UnregisterPlayer
<1>14. CASE Check
  BY <1>14 DEF Check
<1>15. CASE UNCHANGED vars
  BY <1>15 DEF vars
<1> QED
  BY <1>1, <1>2, <1>3, <1>4, <1>5, <1>6, <1>7, <1>8, <1>9, <1>10, <1>11, <1>12,
     <1>13, <1>14, <1>15 DEF Next, Heartbeat

\* Every reachable state satisfies them.
LEMMA Times == Spec => []TimeInv
<1>1. Init => TimeInv
  BY DurationsAssumption
     DEF Init, TimeInv, TypeOK, RoundKnows, OnlineKnows, ClosedKnows, WatchKnows,
         CheckKnows, SilenceKnows, Phases, Rounds, Enough, Nap, Nothing
<1> QED BY <1>1, TimeStep, PTL DEF Spec

\* The types hold in every reachable state.
THEOREM TypeCorrect == Spec => []TypeOK
<1>1. TimeInv => TypeOK
  BY DEF TimeInv
<1> QED BY <1>1, Times, PTL

\* For all durations, a player who is watched and not heard of is closed and
\* handled in bounded time, and whoever is online and not watched connected
\* while a round that had found it silent was under way.
THEOREM SilentCorrect == Spec => []SilentNoticed
<1>1. TimeInv => SilentNoticed
  BY DurationsAssumption
     DEF TimeInv, TypeOK, RoundKnows, OnlineKnows, ClosedKnows, WatchKnows,
         SilentNoticed, Nap
<1> QED BY <1>1, Times, PTL

\* For all durations, the end-to-end bound on a timeout.
THEOREM BoundCorrect == Spec => []TimeoutBound
<1>1. TimeInv => TimeoutBound
  BY DurationsAssumption
     DEF TimeInv, TypeOK, RoundKnows, OnlineKnows, ClosedKnows, WatchKnows,
         CheckKnows, SilenceKnows, TimeoutBound, Phases, Enough, Nap
<1> QED BY <1>1, Times, PTL

-----------------------------------------------------------------------------
(* A responsive client                                                     *)

\* While the client answers in time, the last Pong is not older than the last
\* Ping or, if that is still unanswered, than the Ping before it.
PongKnows ==
    phase = "online" /\ silent = "no" /\ watched = "yes" =>
        /\ unanswered = Nothing => sincePong <= sincePing
        /\ unanswered # Nothing =>
               /\ unanswered <= Slack
               /\ sincePong < PingInterval + Nap + unanswered

\* So a round that is about to close the connection has found a silent client,
\* or the client has connected since that round's scan.
Responsive ==
    /\ PongKnows
    /\ phase = "online" /\ round \in {"scanned", "found"} =>
           silent = "yes" \/ upset = "round"
    /\ ResponsiveKept

\* If the durations are patient, this is inductive.
LEMMA ResponsiveStep ==
    ASSUME Patient, TimeInv, Responsive, [Next]_vars PROVE Responsive'
<1> USE DurationsAssumption
    DEF TimeInv, TypeOK, RoundKnows, WatchKnows, Responsive, PongKnows,
        ResponsiveKept, Patient, Nap, Nothing, client, beat, connections, history
<1>1. CASE Second
  BY <1>1 DEF Second, Aged
<1>2. CASE Bind \/ Connect
  BY <1>2 DEF Bind, Connect
<1>3. CASE Touch \/ StrayTouch
  BY <1>3 DEF Touch, StrayTouch
<1>4. CASE FallSilent \/ Lose \/ UnregisterFirst \/ MarkOffline \/ StrayHandler
  BY <1>4 DEF FallSilent, Lose, UnregisterFirst, MarkOffline, StrayHandler
<1>5. CASE Scan
  BY <1>5 DEF Scan
<1>6. CASE FetchConnection \/ Close \/ UnregisterPlayer
  BY <1>6 DEF FetchConnection, Close, UnregisterPlayer
<1>7. CASE Check \/ UNCHANGED vars
  BY <1>7 DEF Check, vars
<1> QED BY <1>1, <1>2, <1>3, <1>4, <1>5, <1>6, <1>7 DEF Next, Heartbeat

\* For all patient durations, the heartbeat only closes the connection of a
\* client that answers in time when that connection is newer than the scan.
THEOREM ResponsiveCorrect == ASSUME Patient PROVE Spec => []ResponsiveKept
<1>1. Init => Responsive
  BY DEF Init, Responsive, PongKnows, ResponsiveKept
<1>2. TimeInv /\ Responsive /\ [Next]_vars => Responsive'
  BY ResponsiveStep
<1>3. Responsive => ResponsiveKept
  BY DEF Responsive
<1> QED BY <1>1, <1>2, <1>3, Times, PTL DEF Spec
=============================================================================
