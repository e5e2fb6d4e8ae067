--------------------------- MODULE SessionsProofs ---------------------------
(***************************************************************************)
(* Invariants of Sessions for every set of sessions, every duration and    *)
(* every run of the clock: first those that any number of callers keep,    *)
(* then those that need the HTTP thread to be alone.                       *)
(***************************************************************************)
EXTENDS Sessions, TLAPS

-----------------------------------------------------------------------------
(* Type correctness, for any number of callers                             *)

\* No step of any caller leaves the types.
LEMMA TypeStep ==
    ASSUME TypeOK, [Next]_vars
    PROVE  TypeOK'
<1> USE SessionsAssumption, ClockAssumption, CallersAssumption
<1> USE DEF TypeOK
<1>1. CASE Tick
  BY <1>1 DEF Tick, maps, calls, past
<1>2. ASSUME NEW s \in Sessions, NEW u \in Usernames, CreateSession(s, u)
      PROVE TypeOK'
  BY <1>2 DEF CreateSession, calls
<1>3. ASSUME NEW s \in Sessions, DestroySessionByToken(s) PROVE TypeOK'
  BY <1>3 DEF DestroySessionByToken, calls
<1>4. ASSUME NEW t \in Callers, Call(t) PROVE TypeOK'
  <2>1. ASSUME NEW s \in Sessions \union {None}, ValidateToken(t, s)
        PROVE TypeOK'
    BY <2>1 DEF ValidateToken, Goto, clock, maps, past, Labels
  <2>2. CASE Sweep(t)
    BY <2>2 DEF Sweep, Goto, clock, maps, past, Labels
  <2>3. ASSUME NEW s \in Sessions, Purge(t, s) PROVE TypeOK'
    BY <2>3 DEF Purge, clock, maps, past, Labels
  <2>4. CASE Purged(t)
    BY <2>4 DEF Purged, Goto, clock, maps, past, Labels
  <2>5. CASE Find(t)
    BY <2>5 DEF Find, Goto, clock, maps, past, Labels
  <2>6. CASE Check(t)
    BY <2>6 DEF Check, Goto, clock, maps, past, Labels
  <2>7. CASE Extend(t)
    BY <2>7 DEF Extend, Goto, clock, maps, Labels
  <2> QED BY <1>4, <2>1, <2>2, <2>3, <2>4, <2>5, <2>6, <2>7 DEF Call
<1>5. CASE UNCHANGED vars
  BY <1>5 DEF vars
<1> QED BY <1>1, <1>2, <1>3, <1>4, <1>5 DEF Next

\* Every reachable state is well typed, however many threads validate.
THEOREM TypeCorrect == Spec => []TypeOK
<1>1. Init => TypeOK
  BY SessionsAssumption, ClockAssumption, CallersAssumption
     DEF Init, TypeOK, Callers, Labels
<1> QED BY <1>1, TypeStep, PTL DEF Spec

-----------------------------------------------------------------------------
(* Any number of callers                                                   *)

\* No session is good for longer than an hour from now.
HourAtMost == \A s \in Sessions : username[s] # None => expiresAt[s] <= now + Duration

\* What each call in progress knows of the sessions since it began.
CallKnows ==
    \A t \in Callers :
        /\ pc[t] # "idle" => began[t] <= now
        /\ pc[t] = "purge" =>
               \A s \in (byId \union byToken) \ doomed[t] : expiresAt[s] >= began[t]
        /\ pc[t] = "extend" => expiresAt[sought[t]] >= began[t]

SharedInv == MapsAgree /\ HourAtMost /\ CallKnows /\ SweptClean

\* No step of any caller disturbs them: expirations only ever move forward.
LEMMA SharedStep ==
    ASSUME TypeOK, SharedInv, [Next]_vars
    PROVE  SharedInv'
<1> USE SessionsAssumption, ClockAssumption
    DEF TypeOK, SharedInv, MapsAgree, HourAtMost, CallKnows, SweptClean, IsExpired
<1>1. CASE Tick
  BY <1>1 DEF Tick, maps, calls, past
<1>2. ASSUME NEW s \in Sessions, NEW u \in Usernames, CreateSession(s, u)
      PROVE SharedInv'
  BY <1>2 DEF CreateSession, calls
<1>3. ASSUME NEW s \in Sessions, DestroySessionByToken(s) PROVE SharedInv'
  BY <1>3 DEF DestroySessionByToken, calls
<1>4. ASSUME NEW t \in Callers, NEW s \in Sessions \union {None}, ValidateToken(t, s)
      PROVE SharedInv'
  BY <1>4 DEF ValidateToken, Goto, clock, maps, past
<1>5. ASSUME NEW t \in Callers, Sweep(t) PROVE SharedInv'
  BY <1>5 DEF Sweep, Goto, clock, maps, past
<1>6. ASSUME NEW t \in Callers, NEW s \in Sessions, Purge(t, s) PROVE SharedInv'
  BY <1>6 DEF Purge, clock, maps, past
<1>7. ASSUME NEW t \in Callers, Purged(t) \/ Find(t) \/ Check(t) PROVE SharedInv'
  BY <1>7 DEF Purged, Find, Check, Goto, clock, maps, past
<1>8. ASSUME NEW t \in Callers, Extend(t) PROVE SharedInv'
  BY <1>8 DEF Extend, Goto, clock, maps
<1>9. CASE UNCHANGED vars
  BY <1>9 DEF vars
<1> QED
  BY <1>1, <1>2, <1>3, <1>4, <1>5, <1>6, <1>7, <1>8, <1>9 DEF Next, Call

\* Every reachable state satisfies them.
LEMMA Shared == Spec => [](TypeOK /\ SharedInv)
<1>1. Init => SharedInv
  BY SessionsAssumption DEF Init, SharedInv, MapsAgree, HourAtMost, CallKnows, SweptClean
<1>2. TypeOK /\ SharedInv /\ [Next]_vars => SharedInv'
  BY SharedStep
<1> QED BY <1>1, <1>2, TypeCorrect, PTL DEF Spec

\* The two maps always hold the same sessions, whoever changes them.
THEOREM MapsCorrect == Spec => []MapsAgree
<1>1. SharedInv => MapsAgree
  BY DEF SharedInv
<1> QED BY <1>1, Shared, PTL

\* When a call looks for its token, every session that had expired before the
\* call began is out of both maps, whatever the other callers did meanwhile.
THEOREM SweptCorrect == Spec => []SweptClean
<1>1. SharedInv => SweptClean
  BY DEF SharedInv
<1> QED BY <1>1, Shared, PTL

\* No request revives a session that had expired when it came in, however many
\* threads validate.
THEOREM NoRevivalCorrect == Spec => NoRevival
<1>1. TypeOK /\ SharedInv /\ [Next]_vars
        => [\A t \in Callers : Extend(t) => expiresAt[sought[t]] >= began[t]]_vars
  BY DEF SharedInv, CallKnows, Extend
<1> QED BY <1>1, Shared, PTL DEF Spec, NoRevival

-----------------------------------------------------------------------------
(* Sessions in continuous use, for any number of callers                   *)

\* Only time makes a session expire, and a sweep destroys only what it found
\* expired: an extension that comes later does not save such a session, but
\* then its hour had gone by.
LapsedFirst ==
    /\ \A s \in Sessions : username[s] # None /\ s \notin lapsed => expiresAt[s] >= now
    /\ \A t \in Callers : doomed[t] \subseteq lapsed

UseInv == ContinuousUse /\ LapsedFirst

\* No step of any caller disturbs them.
LEMMA UseStep ==
    ASSUME TypeOK, MapsAgree, UseInv, [Next]_vars
    PROVE  UseInv'
<1> USE SessionsAssumption, ClockAssumption
    DEF TypeOK, MapsAgree, UseInv, ContinuousUse, LapsedFirst, IsExpired
<1>1. CASE Tick
  BY <1>1 DEF Tick, maps, calls
<1>2. ASSUME NEW s \in Sessions, NEW u \in Usernames, CreateSession(s, u)
      PROVE UseInv'
  BY <1>2 DEF CreateSession, calls
<1>3. ASSUME NEW s \in Sessions, DestroySessionByToken(s) PROVE UseInv'
  BY <1>3 DEF DestroySessionByToken, calls
<1>4. ASSUME NEW t \in Callers, NEW s \in Sessions \union {None}, ValidateToken(t, s)
      PROVE UseInv'
  BY <1>4 DEF ValidateToken, Goto, clock, maps, past
<1>5. ASSUME NEW t \in Callers, Sweep(t) PROVE UseInv'
  BY <1>5 DEF Sweep, Goto, clock, maps, past
<1>6. ASSUME NEW t \in Callers, NEW s \in Sessions, Purge(t, s) PROVE UseInv'
  BY <1>6 DEF Purge, clock, maps, past
<1>7. ASSUME NEW t \in Callers, Purged(t) \/ Find(t) \/ Check(t) PROVE UseInv'
  BY <1>7 DEF Purged, Find, Check, Goto, clock, maps, past
<1>8. ASSUME NEW t \in Callers, Extend(t) PROVE UseInv'
  BY <1>8 DEF Extend, Goto, clock, maps
<1>9. CASE UNCHANGED vars
  BY <1>9 DEF vars
<1> QED
  BY <1>1, <1>2, <1>3, <1>4, <1>5, <1>6, <1>7, <1>8, <1>9 DEF Next, Call

\* A session that is extended before its hour is over validates until it is
\* logged out, for every duration and however many threads validate.
THEOREM ContinuousUseCorrect == Spec => []ContinuousUse
<1>1. Init => UseInv
  BY SessionsAssumption DEF Init, UseInv, ContinuousUse, LapsedFirst
<1>2. TypeOK /\ MapsAgree /\ UseInv /\ [Next]_vars => UseInv'
  BY UseStep
<1>3. UseInv => ContinuousUse
  BY DEF UseInv
<1> QED BY <1>1, <1>2, <1>3, TypeCorrect, MapsCorrect, PTL DEF Spec

-----------------------------------------------------------------------------
(* One caller: the HTTP thread                                             *)

\* The hour runs from the last use, and what left the maps without a logout
\* had outlived it.
HourFromLastUse ==
    \A s \in Sessions : username[s] # None =>
        /\ expiresAt[s] = lastUse[s] + Duration
        /\ s \notin byToken /\ s \notin loggedOut => IsExpired(s)

\* What the sweep is about to destroy is still expired.
DoomedExpired == pc[Http] = "purge" => \A s \in doomed[Http] : IsExpired(s)

\* With nobody else to erase it, what the call found is still there when the
\* call extends it.
FoundKept == pc[Http] \in {"check", "extend"} => sought[Http] \in byToken

AloneInv == HourFromLastUse /\ DoomedExpired /\ FoundKept

\* No step of the HTTP thread or of the clock disturbs them.
LEMMA AloneStep ==
    ASSUME IoThreads = 0, TypeOK, MapsAgree, AloneInv, [Next]_vars
    PROVE  AloneInv'
<1> USE SessionsAssumption, ClockAssumption
    DEF TypeOK, MapsAgree, AloneInv, HourFromLastUse, DoomedExpired,
        FoundKept, IsExpired, Http
<1>0. Callers = {0}
  BY DEF Callers
<1>1. CASE Tick
  BY <1>0, <1>1 DEF Tick, maps, calls, past
<1>2. ASSUME NEW s \in Sessions, NEW u \in Usernames, CreateSession(s, u)
      PROVE AloneInv'
  BY <1>0, <1>2 DEF CreateSession, calls
<1>3. ASSUME NEW s \in Sessions, DestroySessionByToken(s) PROVE AloneInv'
  BY <1>0, <1>3 DEF DestroySessionByToken, calls
<1>4. ASSUME NEW s \in Sessions \union {None}, ValidateToken(Http, s)
      PROVE AloneInv'
  BY <1>0, <1>4 DEF ValidateToken, Goto, clock, maps, past
<1>5. CASE Sweep(Http)
  BY <1>0, <1>5 DEF Sweep, Goto, clock, maps, past
<1>6. ASSUME NEW s \in Sessions, Purge(Http, s) PROVE AloneInv'
  BY <1>0, <1>6 DEF Purge, clock, maps, past
<1>7. CASE Purged(Http) \/ Find(Http) \/ Check(Http)
  BY <1>0, <1>7 DEF Purged, Find, Check, Goto, clock, maps, past
<1>8. CASE Extend(Http)
  BY <1>0, <1>8 DEF Extend, Goto, clock, maps
<1>9. CASE UNCHANGED vars
  BY <1>9 DEF vars
<1> QED
  BY <1>0, <1>1, <1>2, <1>3, <1>4, <1>5, <1>6, <1>7, <1>8, <1>9 DEF Next, Call

\* Every state the HTTP thread alone reaches satisfies them.
LEMMA Alone == ASSUME IoThreads = 0 PROVE Spec => [](TypeOK /\ AloneInv)
<1>1. Init => AloneInv
  BY SessionsAssumption, CallersAssumption
     DEF Init, AloneInv, HourFromLastUse, DoomedExpired, FoundKept, Http, Callers
<1>2. TypeOK /\ MapsAgree /\ AloneInv /\ [Next]_vars => AloneInv'
  BY AloneStep
<1> QED BY <1>1, <1>2, TypeCorrect, MapsCorrect, PTL DEF Spec

\* A session used within the hour validates, for every duration and however
\* the clock advances between the steps of a validation.
THEOREM SlidingCorrect == ASSUME IoThreads = 0 PROVE Spec => []SlidingExpiration
<1>1. TypeOK /\ AloneInv => SlidingExpiration
  BY ClockAssumption
     DEF TypeOK, AloneInv, HourFromLastUse, IsExpired, SlidingExpiration
<1> QED BY <1>1, Alone, PTL
=============================================================================
