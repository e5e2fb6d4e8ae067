-------------------------- MODULE WriteQueueProofs --------------------------
(***************************************************************************)
(* Theorems about WriteQueue, for every set of messages and any number of  *)
(* them: the memory under a write stays valid, damage is confined to a     *)
(* closed socket, and the connection implements Channel.                   *)
(***************************************************************************)
EXTENDS WriteQueue, SequenceTheorems, TLAPS

(***************************************************************************)
(* Slices: s holds what a holds from position k + 1 on                     *)

Slice(s, k, a) ==
    /\ k + Len(s) <= Len(a)
    /\ \A i \in 1..Len(s) : s[i] = a[k + i]

\* What Append does, as the proofs below use it.
LEMMA AppendFacts ==
    ASSUME NEW S, NEW s \in Seq(S), NEW m \in S
    PROVE  /\ Append(s, m) \in Seq(S)
           /\ Len(Append(s, m)) = Len(s) + 1
           /\ \A i \in 1..Len(s) : Append(s, m)[i] = s[i]
           /\ Append(s, m)[Len(s) + 1] = m
           /\ s # <<>> => Head(Append(s, m)) = Head(s)
<1>1. /\ Append(s, m) \in Seq(S)
      /\ Len(Append(s, m)) = Len(s) + 1
      /\ \A i \in 1..Len(s) : Append(s, m)[i] = s[i]
      /\ Append(s, m)[Len(s) + 1] = m
  OBVIOUS
<1>2. ASSUME s # <<>> PROVE Head(Append(s, m)) = Head(s)
  <2>1. Len(s) \in Nat \ {0}
    BY <1>2, EmptySeq
  <2>2. Append(s, m)[1] = s[1]
    BY <1>1, <2>1
  <2>3. Head(s) = s[1] /\ Head(Append(s, m)) = Append(s, m)[1]
    BY <1>1, <2>1
  <2> QED BY <2>2, <2>3
<1> QED BY <1>1, <1>2

\* A sequence that grows at its end keeps its slices.
LEMMA SliceKept ==
    ASSUME NEW S, NEW s \in Seq(S), NEW a \in Seq(S), NEW k \in Nat, NEW m \in S,
           Slice(s, k, a)
    PROVE  Slice(s, k, Append(a, m))
<1>1. Len(Append(a, m)) = Len(a) + 1
  OBVIOUS
<1>2. \A j \in 1..Len(a) : Append(a, m)[j] = a[j]
  OBVIOUS
<1> QED BY <1>1, <1>2 DEF Slice

\* A slice that reaches the end may grow with it.
LEMMA SliceGrows ==
    ASSUME NEW S, NEW s \in Seq(S), NEW a \in Seq(S), NEW k \in Nat, NEW m \in S,
           Slice(s, k, a), k + Len(s) = Len(a)
    PROVE  Slice(Append(s, m), k, Append(a, m))
<1>1. /\ Len(Append(s, m)) = Len(s) + 1
      /\ Len(Append(a, m)) = Len(a) + 1
  OBVIOUS
<1>2. /\ \A j \in 1..Len(a) : Append(a, m)[j] = a[j]
      /\ \A j \in 1..Len(s) : Append(s, m)[j] = s[j]
  OBVIOUS
<1>3. /\ Append(a, m)[Len(a) + 1] = m
      /\ Append(s, m)[Len(s) + 1] = m
  OBVIOUS
<1> QED BY <1>1, <1>2, <1>3 DEF Slice

\* The next element may be appended to a slice.
LEMMA SliceExtends ==
    ASSUME NEW S, NEW s \in Seq(S), NEW a \in Seq(S), NEW k \in Nat, NEW m \in S,
           Slice(s, k, a), k + Len(s) + 1 <= Len(a), m = a[k + Len(s) + 1]
    PROVE  Slice(Append(s, m), k, a)
<1>1. Len(Append(s, m)) = Len(s) + 1
  OBVIOUS
<1>2. \A j \in 1..Len(s) : Append(s, m)[j] = s[j]
  OBVIOUS
<1>3. Append(s, m)[Len(s) + 1] = m
  OBVIOUS
<1> QED BY <1>1, <1>2, <1>3 DEF Slice

\* What is left when the front is popped.
LEMMA TailFacts ==
    ASSUME NEW S, NEW s \in Seq(S), s # <<>>
    PROVE  /\ Tail(s) \in Seq(S)
           /\ Len(s) \in Nat \ {0}
           /\ Len(Tail(s)) = Len(s) - 1
           /\ \A i \in 1..Len(Tail(s)) : Tail(s)[i] = s[i + 1]
           /\ Head(s) = s[1]
           /\ Len(s) > 1 => Tail(s) # <<>>
<1>1. Len(s) \in Nat \ {0}
  BY EmptySeq
<1>2. /\ Tail(s) \in Seq(S)
      /\ Len(Tail(s)) = Len(s) - 1
      /\ \A i \in 1..Len(Tail(s)) : Tail(s)[i] = s[i + 1]
  BY HeadTailProperties
<1>3. ASSUME Len(s) > 1 PROVE Tail(s) # <<>>
  <2>1. Len(Tail(s)) # 0
    BY <1>1, <1>2, <1>3
  <2>2. Len(<<>>) = 0
    BY EmptySeq
  <2> QED BY <2>1, <2>2
<1>4. Head(s) = s[1]
  BY <1>1
<1> QED BY <1>1, <1>2, <1>3, <1>4

\* Without its head a slice begins one later.
LEMMA SliceTail ==
    ASSUME NEW S, NEW s \in Seq(S), NEW a \in Seq(S), NEW k \in Nat,
           Slice(s, k, a), s # <<>>
    PROVE  /\ Tail(s) \in Seq(S)
           /\ Len(Tail(s)) = Len(s) - 1
           /\ k + 1 <= Len(a)
           /\ Head(s) = a[k + 1]
           /\ Slice(Tail(s), k + 1, a)
BY TailFacts DEF Slice

(***************************************************************************)
(* Types and control                                                       *)

SeqsTyped ==
    /\ posted \in Seq(Messages)
    /\ queue \in Seq(Messages)
    /\ accepted \in Seq(Messages)
    /\ wire \in Seq(Messages)

PlainTyped ==
    /\ socket \in {"open", "inactive", "closed"}
    /\ writing \in {"none", "pending", "written", "failed"}
    /\ buffer \in Messages \union {None}
    /\ reading \in {"pending", "failed", "none"}
    /\ pc \in [Threads -> {"idle", "push", "start", "write", "shut", "clear"}]
    /\ sending \in Messages \union {None}
    /\ deque \in {"sound", "corrupt"}
    /\ pc["strand"] = "push" => sending \in Messages
    /\ pc["monitor"] \notin {"push", "start", "write"}

\* Close deactivates, shuts and clears, in this order.
ClosedFirst ==
    /\ \A t \in Threads : pc[t] \in {"shut", "clear"} => socket # "open"
    /\ \A t \in Threads : pc[t] = "clear" => socket = "closed"
    /\ deque = "corrupt" => socket = "closed"

\* While the socket is not closed, a write that has not been popped, or is
\* about to start, has a message in the queue.
WriteKnows ==
    /\ writing = "pending" => socket # "closed"
    /\ socket # "closed" /\ writing # "none" => queue # <<>>
    /\ socket # "closed" /\ pc["strand"] \in {"start", "write"} => queue # <<>>
    /\ socket # "closed" /\ pc["strand"] = "start" => writing = "none"

Control == PlainTyped /\ BufferLive /\ ClosedFirst /\ WriteKnows

\* The type of wire needs that the buffer of a write holds a message, and that
\* in turn that the queue is not emptied under it.
LEMMA SeqsStep == ASSUME SeqsTyped, Control, [Next]_vars PROVE SeqsTyped'
<1> USE DEF SeqsTyped, io, record
<1>1. posted # <<>> => Tail(posted) \in Seq(Messages)
  BY HeadTailProperties
<1>2. queue # <<>> => Tail(queue) \in Seq(Messages)
  BY HeadTailProperties
<1>3. writing = "pending" => buffer \in Messages
  BY HeadTailProperties DEF Control, BufferLive
<1>4. pc["strand"] = "push" => sending \in Messages
  BY DEF Control, PlainTyped
<1>5. ASSUME NEW m \in Messages, Send(m) PROVE SeqsTyped'
  <2>1. /\ Append(posted, m) \in Seq(Messages)
        /\ Append(accepted, m) \in Seq(Messages)
    BY AppendFacts
  <2> QED BY <1>5, <2>1 DEF Send
<1>6. CASE TakeSend \/ Written
  BY <1>6, <1>1, <1>2, EmptySeq DEF TakeSend, Written
<1>7. CASE Push
  <2>1. Append(queue, sending) \in Seq(Messages)
    BY <1>7, <1>4, AppendFacts DEF Push
  <2> QED BY <1>7, <2>1 DEF Push
<1>10. CASE WriteEnds
  <2>1. Append(wire, buffer) \in Seq(Messages)
    BY <1>10, <1>3, AppendFacts DEF WriteEnds
  <2> QED BY <1>10, <2>1 DEF WriteEnds
<1>8. ASSUME NEW t \in Threads, EndClose(t) PROVE SeqsTyped'
  BY <1>8, EmptySeq DEF EndClose, Shut, Clear
<1>9. CASE StartWrite \/ AsyncWrite \/ Failed \/ Expel \/ PeerLost \/ UNCHANGED vars
  BY <1>9 DEF StartWrite, AsyncWrite, Failed, Expel, PeerLost, vars
<1> QED BY <1>5, <1>6, <1>7, <1>8, <1>9, <1>10 DEF Next, Strand

\* The control part of the invariant is inductive.
LEMMA ControlStep == ASSUME SeqsTyped, Control, [Next]_vars PROVE Control'
<1> USE DEF Control, PlainTyped, BufferLive, ClosedFirst, WriteKnows, Goto, IsOpen,
            Threads, io, record
<1>1. ASSUME NEW m \in Messages, Send(m) PROVE Control'
  BY <1>1 DEF Send
<1>2. CASE TakeSend
  <2>1. posted # <<>> => Head(posted) \in Messages
    BY HeadTailProperties DEF SeqsTyped
  <2> QED BY <1>2, <2>1 DEF TakeSend
<1>3. CASE Push
  <2>1. sending \in Messages
    BY <1>3 DEF Push
  <2>2. /\ Append(queue, sending) # <<>>
        /\ queue # <<>> => Head(Append(queue, sending)) = Head(queue)
    <3>1. Len(queue) \in Nat /\ Len(Append(queue, sending)) = Len(queue) + 1
      BY <2>1, AppendFacts DEF SeqsTyped
    <3> QED BY <2>1, <3>1, AppendFacts DEF SeqsTyped
  <2> QED BY <1>3, <2>1, <2>2 DEF Push
<1>4. CASE StartWrite
  BY <1>4 DEF StartWrite
<1>5. CASE AsyncWrite
  <2>1. queue # <<>> => Head(queue) \in Messages
    BY HeadTailProperties DEF SeqsTyped
  <2> QED BY <1>5, <2>1 DEF AsyncWrite, Front
<1>6. CASE Written
  <2>1. Len(queue) > 1 => queue # <<>> /\ Tail(queue) # <<>>
    BY TailFacts DEF SeqsTyped
  <2> QED BY <1>6, <2>1 DEF Written
<1>7. CASE Failed
  BY <1>7 DEF Failed, CloseBy
<1>8. CASE Expel
  BY <1>8 DEF Expel, CloseBy
<1>9. ASSUME NEW t \in Threads, Shut(t) PROVE Control'
  BY <1>9 DEF Shut
<1>10. ASSUME NEW t \in Threads, Clear(t) PROVE Control'
  BY <1>10 DEF Clear
<1>11. CASE WriteEnds
  BY <1>11 DEF WriteEnds
<1>12. CASE PeerLost \/ UNCHANGED vars
  BY <1>12 DEF PeerLost, vars
<1> QED
  BY <1>1, <1>2, <1>3, <1>4, <1>5, <1>6, <1>7, <1>8, <1>9, <1>10, <1>11, <1>12
     DEF Next, Strand, EndClose

WriteInv == SeqsTyped /\ Control

\* Every reachable state satisfies both.
LEMMA Writes == Spec => []WriteInv
<1>1. Init => WriteInv
  BY EmptySeq
     DEF Init, WriteInv, SeqsTyped, Control, PlainTyped, BufferLive, ClosedFirst,
         WriteKnows, Threads
<1>2. WriteInv /\ [Next]_vars => WriteInv'
  BY SeqsStep, ControlStep DEF WriteInv
<1> QED BY <1>1, <1>2, PTL DEF Spec

\* The types hold in every reachable state: nothing but messages is written.
THEOREM TypeCorrect == Spec => []TypeOK
<1>1. WriteInv => TypeOK
  BY DEF WriteInv, SeqsTyped, Control, PlainTyped, TypeOK
<1> QED BY <1>1, Writes, PTL

\* However Close on the monitor interleaves with the strand, the buffer of a
\* write is the front of the queue, and no second write is started.
THEOREM BufferCorrect == Spec => []BufferLive
<1>1. WriteInv => BufferLive
  BY DEF WriteInv, Control
<1> QED BY <1>1, Writes, PTL

\* Two threads meet on the deque, or it is popped empty, only with the socket
\* closed.
THEOREM DamageCorrect == Spec => []DamageConfined
<1>1. WriteInv => DamageConfined
  BY DEF WriteInv, Control, PlainTyped, ClosedFirst, DamageConfined, Racing,
         Touches, Threads
<1> QED BY <1>1, Writes, PTL

(***************************************************************************)
(* First in, first out                                                     *)

\* The messages taken out of the queue so far: what is written and not yet
\* popped is still at its front.
Popped == IF writing = "written" THEN Len(wire) - 1 ELSE Len(wire)

\* The messages that have entered the queue, or are about to.
Entered == Popped + Len(queue) + IF pc["strand"] = "push" THEN 1 ELSE 0

\* Until the socket is closed, wire, queue, the message being pushed and the
\* posted jobs are consecutive slices of what was accepted.
InOrder ==
    /\ Slice(wire, 0, accepted)
    /\ socket # "closed" =>
           /\ Popped \in Nat
           /\ Slice(queue, Popped, accepted)
           /\ pc["strand"] = "push" =>
                  /\ Entered <= Len(accepted)
                  /\ sending = accepted[Entered]
           /\ socket = "open" =>
                  /\ Entered + Len(posted) = Len(accepted)
                  /\ Slice(posted, Entered, accepted)

\* The positions are natural numbers.
LEMMA Positions ==
    ASSUME WriteInv, InOrder, socket # "closed"
    PROVE  /\ Popped \in Nat
           /\ Entered \in Nat
           /\ pc["strand"] = "push" => Entered = Popped + Len(queue) + 1
           /\ pc["strand"] # "push" => Entered = Popped + Len(queue)
<1>1. Len(queue) \in Nat
  BY LenProperties DEF WriteInv, SeqsTyped
<1>2. Popped \in Nat
  BY DEF InOrder
<1> QED BY <1>1, <1>2 DEF Entered

\* Every step keeps the order.
LEMMA OrderStep == ASSUME WriteInv, InOrder, [Next]_vars PROVE InOrder'
<1> USE DEF WriteInv, SeqsTyped, Control, PlainTyped, WriteKnows, Threads
<1> DEFINE L == Len(accepted)
<1>0. /\ Len(wire) \in Nat /\ Len(queue) \in Nat /\ Len(posted) \in Nat /\ L \in Nat
  BY LenProperties
<1>1. ASSUME NEW m \in Messages, Send(m) PROVE InOrder'
  <2>1. /\ Popped' = Popped /\ Entered' = Entered
        /\ Popped \in Nat /\ Entered \in Nat
    <3>1. Popped' = Popped /\ Entered' = Entered
      BY <1>1 DEF Send, Popped, Entered, io
    <3>2. socket # "closed"
      BY <1>1 DEF Send, IsOpen
    <3> QED BY <3>1, <3>2, Positions
  <2>2. /\ Slice(wire, 0, accepted') /\ Slice(queue, Popped, accepted')
    BY <1>1, <2>1, SliceKept DEF Send, InOrder, IsOpen
  <2>3. /\ Slice(posted', Entered, accepted')
    BY <1>1, <2>1, SliceGrows DEF Send, InOrder, IsOpen
  <2>4. /\ Len(posted') = Len(posted) + 1 /\ Len(accepted') = Len(accepted) + 1
        /\ \A i \in 1..L : accepted'[i] = accepted[i]
    BY <1>1, AppendFacts DEF Send
  <2>5. pc["strand"] = "push" => Entered <= L /\ Entered \in 1..L
    BY <1>0, <1>1, <2>1 DEF InOrder, Send, IsOpen, Entered
  <2>6. pc["strand"] = "push" =>
            Entered' <= Len(accepted') /\ sending' = accepted'[Entered']
    <3> SUFFICES ASSUME pc["strand"] = "push"
                 PROVE  Entered' <= Len(accepted') /\ sending' = accepted'[Entered']
      OBVIOUS
    <3>1. sending = accepted[Entered] /\ sending' = sending
      BY <1>1 DEF Send, InOrder, IsOpen
    <3> QED BY <1>0, <2>1, <2>4, <2>5, <3>1
  <2>7. Entered' + Len(posted') = Len(accepted')
    <3>1. Entered + Len(posted) = Len(accepted)
      BY <1>1 DEF Send, InOrder, IsOpen
    <3>2. Len(posted') = Len(posted) + 1 /\ Len(accepted') = Len(accepted) + 1
      BY <2>4
    <3> HIDE DEF WriteInv, SeqsTyped, Control, PlainTyped, WriteKnows
    <3> QED BY <1>0, <2>1, <3>1, <3>2
  <2>8. UNCHANGED <<wire, queue, pc, socket>>
    BY <1>1 DEF Send
  <2> QED BY <2>1, <2>2, <2>3, <2>6, <2>7, <2>8 DEF InOrder
<1>2. CASE TakeSend
  <2>1. CASE socket = "open"
    <3>1. Popped' = Popped /\ Entered' = Entered + 1 /\ Entered \in Nat
      <4>1. Popped' = Popped
        BY <1>2 DEF TakeSend, Popped, io, record
      <4>2. pc["strand"] # "push" /\ pc'["strand"] = "push"
        BY <1>2, <2>1 DEF TakeSend, IsOpen, Goto
      <4>3. Entered' = Popped' + Len(queue) + 1
        BY <1>2, <4>2 DEF TakeSend, Entered
      <4> QED BY <1>0, <2>1, <4>1, <4>2, <4>3, Positions
    <3>2. /\ Len(posted') = Len(posted) - 1 /\ Entered + 1 <= L
          /\ Head(posted) = accepted[Entered + 1]
          /\ Slice(posted', Entered + 1, accepted)
      BY <1>2, <2>1, <3>1, SliceTail DEF TakeSend, InOrder
    <3> QED
      BY <1>0, <1>2, <2>1, <3>1, <3>2 DEF TakeSend, InOrder, IsOpen, io, record
  <2>2. CASE socket # "open"
    BY <1>2, <2>2 DEF TakeSend, InOrder, IsOpen, io, record, Popped, Entered
  <2> QED BY <2>1, <2>2
<1>3. CASE Push
  <2>1. /\ sending \in Messages
        /\ Append(queue, sending) \in Seq(Messages)
        /\ Len(Append(queue, sending)) = Len(queue) + 1
    BY <1>3, AppendFacts DEF Push
  <2>2. pc'["strand"] # "push"
    BY <1>3 DEF Push, Goto
  <2>3. CASE socket # "closed"
    <3>1. /\ Popped' = Popped /\ Entered' = Entered /\ Popped \in Nat
          /\ Entered = Popped + Len(queue) + 1 /\ Entered <= L
          /\ sending = accepted[Entered] /\ Slice(queue, Popped, accepted)
      <4>1. Popped' = Popped
        BY <1>3 DEF Push, Popped, io, record
      <4>2. pc["strand"] = "push"
        BY <1>3 DEF Push
      <4>3. Entered' = Popped' + Len(queue')
        BY <2>2, <2>3, <4>1, <1>0, <2>1, <1>3, Positions DEF Push, Entered
      <4> QED BY <1>0, <1>3, <2>1, <2>3, <4>1, <4>2, <4>3, Positions DEF Push, InOrder
    <3>2. Slice(queue', Popped, accepted)
      BY <1>3, <2>1, <3>1, SliceExtends DEF Push
    <3> QED BY <1>3, <2>2, <2>3, <3>1, <3>2 DEF Push, InOrder, io, record
  <2>4. CASE socket = "closed"
    BY <1>3, <2>4 DEF Push, InOrder, record
  <2> QED BY <2>3, <2>4
<1>4. CASE StartWrite
  <2>1. pc["strand"] # "push" /\ pc'["strand"] # "push"
    BY <1>4 DEF StartWrite, Goto
  <2>2. Popped' = Popped /\ Entered' = Entered
    BY <1>4, <2>1 DEF StartWrite, Popped, Entered, io, record
  <2> QED BY <1>4, <2>1, <2>2 DEF StartWrite, InOrder, io, record
<1>5. CASE AsyncWrite
  <2>1. pc["strand"] # "push" /\ pc'["strand"] # "push"
    BY <1>5 DEF AsyncWrite, Goto
  <2>2. writing = "none" /\ writing' # "written"
    BY <1>5 DEF AsyncWrite, BufferLive
  <2>3. Popped' = Popped /\ Entered' = Entered
    BY <1>5, <2>1, <2>2 DEF AsyncWrite, Popped, Entered, record
  <2> QED BY <1>5, <2>1, <2>3 DEF AsyncWrite, InOrder, record
<1>6. CASE Written
  <2>1. CASE socket # "closed"
    <3>1. queue # <<>> /\ pc["strand"] # "push" /\ pc'["strand"] # "push"
      BY <1>6, <2>1 DEF Written, Goto
    <3>2. Popped \in Nat /\ Slice(queue, Popped, accepted)
      BY <2>1 DEF InOrder
    <3>3. Len(queue') = Len(queue) - 1 /\ Slice(queue', Popped + 1, accepted)
      BY <1>6, <3>1, <3>2, SliceTail DEF Written
    <3>4. Popped' = Popped + 1 /\ Entered' = Entered
      BY <1>0, <1>6, <3>1, <3>3 DEF Written, Popped, Entered, record
    <3> QED
      BY <1>6, <2>1, <3>1, <3>2, <3>3, <3>4 DEF Written, InOrder, record
  <2>2. CASE socket = "closed"
    BY <1>6, <2>2 DEF Written, InOrder, record
  <2> QED BY <2>1, <2>2
<1>7. CASE Failed
  <2>1. writing # "written" => writing' # "written"
    BY <1>7 DEF Failed
  <2>2. writing = "written" => writing' = "written"
    BY <1>7 DEF Failed
  <2>3. pc["strand"] # "push" /\ pc'["strand"] # "push"
    BY <1>7 DEF Failed, CloseBy, Goto
  <2>4. Popped' = Popped /\ Entered' = Entered
    BY <1>7, <2>1, <2>2, <2>3 DEF Failed, Popped, Entered, record
  <2> QED BY <1>7, <2>3, <2>4 DEF Failed, CloseBy, InOrder, record
<1>8. CASE Expel
  <2>1. pc'["strand"] = pc["strand"]
    BY <1>8 DEF Expel, CloseBy, Goto
  <2>2. Popped' = Popped /\ Entered' = Entered
    BY <1>8, <2>1 DEF Expel, Popped, Entered, io, record
  <2> QED BY <1>8, <2>1, <2>2 DEF Expel, CloseBy, InOrder, io, record
<1>9. ASSUME NEW t \in Threads, EndClose(t) PROVE InOrder'
  <2>1. socket' = "closed" /\ UNCHANGED record
    BY <1>9 DEF EndClose, Shut, Clear, ClosedFirst
  <2> QED BY <2>1 DEF InOrder, record
<1>10. CASE WriteEnds
  <2>1. /\ socket # "closed" /\ queue # <<>> /\ buffer = Head(queue)
        /\ Popped = Len(wire) /\ Slice(queue, Len(wire), accepted)
    BY <1>10 DEF WriteEnds, BufferLive, InOrder, Popped
  <2>2. Head(queue) = accepted[Len(wire) + 1] /\ Len(wire) + 1 <= L
    BY <1>0, <2>1, SliceTail
  <2>3. Popped' = Popped /\ Entered' = Entered
    <3>1. CASE writing' = "written" /\ wire' = Append(wire, buffer)
      <4>1. Len(wire') = Len(wire) + 1
        BY <2>1, <3>1, HeadTailProperties, AppendFacts
      <4> QED BY <1>0, <1>10, <2>1, <3>1, <4>1 DEF WriteEnds, Popped, Entered
    <3>2. CASE writing' = "failed" /\ UNCHANGED wire
      BY <1>10, <2>1, <3>2 DEF WriteEnds, Popped, Entered
    <3> QED BY <1>10, <3>1, <3>2 DEF WriteEnds
  <2>4. Slice(wire', 0, accepted)
    <3>1. CASE wire' = Append(wire, buffer)
      <4>1. buffer \in Messages /\ buffer = accepted[0 + Len(wire) + 1]
        BY <1>0, <2>1, <2>2, HeadTailProperties
      <4> QED BY <1>0, <2>2, <3>1, <4>1, SliceExtends DEF InOrder
    <3> QED BY <1>10, <3>1 DEF WriteEnds, InOrder
  <2> QED BY <1>10, <2>3, <2>4 DEF WriteEnds, InOrder
<1>11. CASE PeerLost \/ UNCHANGED vars
  <2>1. Popped' = Popped /\ Entered' = Entered
    BY <1>11 DEF PeerLost, Popped, Entered, record, vars
  <2> QED BY <1>11, <2>1 DEF PeerLost, InOrder, record, vars
<1> QED
  BY <1>1, <1>2, <1>3, <1>4, <1>5, <1>6, <1>7, <1>8, <1>9, <1>10, <1>11
     DEF Next, Strand

\* Every reachable state is in order.
LEMMA Order == Spec => [](WriteInv /\ InOrder)
<1>1. Init => InOrder
  <2> SUFFICES ASSUME Init PROVE InOrder
    OBVIOUS
  <2>1. Len(<<>>) = 0
    BY EmptySeq
  <2>2. /\ wire = <<>> /\ queue = <<>> /\ posted = <<>> /\ accepted = <<>>
        /\ pc["strand"] = "idle" /\ writing = "none"
    BY DEF Init, Threads
  <2>3. Slice(<<>>, 0, <<>>)
    BY <2>1 DEF Slice
  <2>4. Popped = 0 /\ Entered = 0
    BY <2>1, <2>2 DEF Popped, Entered
  <2> QED BY <2>1, <2>2, <2>3, <2>4 DEF InOrder
<1>2. WriteInv /\ InOrder /\ [Next]_vars => InOrder'
  BY OrderStep
<1> QED BY <1>1, <1>2, Writes, PTL DEF Spec

\* ClientConnection implements Channel: every step offers a message, delivers
\* the next one, breaks the channel or is invisible to those who send.
THEOREM ChannelCorrect == Spec => ChannelKept
<1>1. Init => Promised!Init
  BY DEF Init, Promised!Init
<1>2. ASSUME WriteInv, InOrder, [Next]_vars
      PROVE  [Promised!Next]_(Promised!vars)
  <2> USE DEF Promised!vars
  <2>1. ASSUME NEW m \in Messages, Send(m) PROVE Promised!Next
    <3>1. Promised!Offer(m)
      BY <2>1 DEF Send, IsOpen, Promised!Offer
    <3> QED BY <3>1 DEF Promised!Next
  <2>2. CASE TakeSend \/ Push \/ StartWrite \/ AsyncWrite \/ Written \/ PeerLost
    BY <2>2
       DEF TakeSend, Push, StartWrite, AsyncWrite, Written, PeerLost, record
  <2>3. CASE Failed \/ Expel
    BY <2>3 DEF Failed, Expel, CloseBy, record
  <2>4. ASSUME NEW t \in Threads, Shut(t) PROVE [Promised!Next]_(Promised!vars)
    <3>1. CASE socket = "closed"
      BY <2>4, <3>1 DEF Shut, record
    <3>2. CASE socket # "closed"
      <4>1. Promised!Break
        BY <2>4, <3>2 DEF Shut, record, Promised!Break
      <4> QED BY <4>1 DEF Promised!Next
    <3> QED BY <3>1, <3>2
  <2>5. ASSUME NEW t \in Threads, Clear(t) PROVE UNCHANGED Promised!vars
    BY <2>5 DEF Clear, record
  <2>6. CASE WriteEnds
    <3>1. CASE writing' = "written" /\ wire' = Append(wire, buffer)
      <4>1. /\ socket # "closed" /\ queue # <<>> /\ buffer = Head(queue)
            /\ Slice(queue, Len(wire), accepted)
        BY <1>2, <2>6
           DEF WriteEnds, WriteInv, Control, WriteKnows, BufferLive, InOrder, Popped
      <4>2. Len(wire) \in Nat /\ Len(accepted) \in Nat
        BY <1>2, LenProperties DEF WriteInv, SeqsTyped
      <4>3. Head(queue) = accepted[Len(wire) + 1] /\ Len(wire) + 1 <= Len(accepted)
        BY <1>2, <4>1, <4>2, SliceTail DEF WriteInv, SeqsTyped
      <4>4. Promised!Deliver
        BY <2>6, <3>1, <4>1, <4>2, <4>3 DEF WriteEnds, Promised!Deliver
      <4> QED BY <4>4 DEF Promised!Next
    <3>2. CASE UNCHANGED wire
      BY <2>6, <3>2 DEF WriteEnds
    <3> QED BY <2>6, <3>1, <3>2 DEF WriteEnds
  <2>7. CASE UNCHANGED vars
    BY <2>7 DEF vars
  <2> QED
    BY <1>2, <2>1, <2>2, <2>3, <2>4, <2>5, <2>6, <2>7 DEF Next, Strand, EndClose
<1> QED BY <1>1, <1>2, Order, PTL DEF Spec, ChannelKept, Promised!Spec

-----------------------------------------------------------------------------
(* Nothing is stranded: the safety half of Delivered                       *)

\* As long as the connection is open, a queue that is not empty is being
\* written, or the strand is about to start.
Attended ==
    socket = "open" /\ queue # <<>> =>
        writing # "none" \/ pc["strand"] \in {"start", "write"}

\* No step leaves messages in the queue for the next Send to find.
LEMMA AttendedStep ==
    ASSUME WriteInv, Attended, [Next]_vars
    PROVE  Attended'
<1> USE DEF WriteInv, SeqsTyped, Control, PlainTyped, ClosedFirst, Attended, Goto,
            IsOpen, Threads, io, record
<1>1. ASSUME NEW m \in Messages, Send(m) PROVE Attended'
  BY <1>1 DEF Send
<1>2. CASE TakeSend \/ Push \/ StartWrite
  BY <1>2 DEF TakeSend, Push, StartWrite
<1>3. CASE AsyncWrite
  BY <1>3 DEF AsyncWrite
<1>4. CASE Written
  <2>1. CASE Len(queue) > 1
    BY <1>4, <2>1 DEF Written
  <2>2. CASE ~(Len(queue) > 1)
    <3>1. queue # <<>> => Tail(queue) = <<>>
      <4> SUFFICES ASSUME queue # <<>> PROVE Tail(queue) = <<>>
        OBVIOUS
      <4>1. /\ Tail(queue) \in Seq(Messages)
            /\ Len(queue) \in Nat \ {0}
            /\ Len(Tail(queue)) = Len(queue) - 1
        BY TailFacts
      <4>2. Len(Tail(queue)) = 0
        BY <2>2, <4>1
      <4> QED BY <4>1, <4>2, EmptySeq
    <3> QED BY <1>4, <3>1 DEF Written
  <2> QED BY <2>1, <2>2
<1>5. CASE Failed \/ Expel
  BY <1>5 DEF Failed, Expel, CloseBy
<1>6. ASSUME NEW t \in Threads, EndClose(t) PROVE Attended'
  BY <1>6 DEF EndClose, Shut, Clear
<1>7. CASE WriteEnds \/ PeerLost \/ UNCHANGED vars
  BY <1>7 DEF WriteEnds, PeerLost, vars
<1> QED BY <1>1, <1>2, <1>3, <1>4, <1>5, <1>6, <1>7 DEF Next, Strand

\* What Delivered says of the end, for any messages and number of sends: while
\* the connection is open, a message that was accepted and not written has
\* its job posted or running, or a write under way; only that these go on is
\* left to fairness.
THEOREM NothingStranded ==
    Spec => [](IsOpen /\ wire # accepted =>
                   \/ posted # <<>>
                   \/ pc["strand"] \in {"push", "start", "write"}
                   \/ writing # "none")
<1> DEFINE Busy == \/ posted # <<>>
                   \/ pc["strand"] \in {"push", "start", "write"}
                   \/ writing # "none"
<1>1. Init => Attended
  BY DEF Init, Attended
<1>2. WriteInv /\ Attended /\ [Next]_vars => Attended'
  BY AttendedStep
<1>3. WriteInv /\ InOrder /\ Attended => (IsOpen /\ wire # accepted => Busy)
  <2> SUFFICES ASSUME WriteInv, InOrder, Attended, IsOpen, ~Busy
               PROVE  wire = accepted
    OBVIOUS
  <2>1. queue = <<>> /\ posted = <<>>
    BY DEF Attended, IsOpen
  <2>2. Popped = Len(wire) /\ Entered = Popped + Len(queue)
        /\ Entered + Len(posted) = Len(accepted)
    <3>1. Entered + Len(posted) = Len(accepted)
      BY DEF InOrder, IsOpen
    <3>2. Popped = Len(wire)
      BY DEF Popped
    <3>3. Entered = Popped + Len(queue)
      BY Positions DEF IsOpen
    <3> QED BY <3>1, <3>2, <3>3
  <2>3. Len(wire) \in Nat /\ Len(accepted) = Len(wire)
    <3>1. Len(wire) \in Nat /\ Len(queue) = 0 /\ Len(posted) = 0
      BY <2>1, EmptySeq, LenProperties DEF WriteInv, SeqsTyped
    <3> QED BY <2>2, <3>1
  <2>4. \A i \in 1..Len(wire) : wire[i] = accepted[i]
    BY <2>3 DEF InOrder, Slice
  <2>5. wire \in Seq(Messages) /\ accepted \in Seq(Messages)
    BY DEF WriteInv, SeqsTyped
  <2> QED BY <2>3, <2>4, <2>5, SeqEqual
<1> QED BY <1>1, <1>2, <1>3, Writes, Order, PTL DEF Spec
=============================================================================
