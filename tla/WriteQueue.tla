---------------------------- MODULE WriteQueue ----------------------------
(***************************************************************************)
(* The write side of one ClientConnection.  Send posts a job to the strand *)
(* from any thread; the job appends to writeQueue and starts an async_write *)
(* of its front if none is under way; the completion pops it and goes on.  *)
(* Close runs on the strand after an error, and at any time on the thread  *)
(* of the heartbeat monitor, which no strand and no lock holds back.       *)
(* A step is one access to the deque, to isActive or to the socket.        *)
(***************************************************************************)
EXTENDS Naturals, Sequences

CONSTANTS
    Messages,
    None,
    MaxSends     \* bound on the messages accepted

ASSUME NoneAssumption == None \notin Messages
ASSUME MaxSendsAssumption == MaxSends \in Nat

VARIABLES
    socket,      \* "open"; "inactive" once isActive is false; "closed"
    posted,      \* the messages of Send jobs waiting on the strand
    queue,       \* writeQueue
    writing,     \* the async_write: its completion may wait on the strand
    buffer,      \* the message under an async_write reads from the deque
    reading,     \* the async_read_until
    pc,          \* where the strand and the monitor are
    sending,     \* the message of the Send job that runs
    deque,       \* "corrupt" once pop_front was called on an empty deque
    accepted,    \* history: the messages Send accepted
    wire         \* history: the messages written completely

io     == <<writing, buffer, reading>>
record == <<accepted, wire>>
vars   == <<socket, posted, queue, writing, buffer, reading, pc, sending,
            deque, accepted, wire>>

Threads == {"strand", "monitor"}

Goto(t, label) == pc' = [pc EXCEPT ![t] = label]

IsOpen == socket = "open"

\* writeQueue.front(); of an empty deque, memory that holds no message.
Front == IF queue = <<>> THEN None ELSE Head(queue)

-----------------------------------------------------------------------------
(* Send                                                                    *)

Send(m) ==
    /\ IsOpen
    /\ Len(accepted) < MaxSends
    /\ posted' = Append(posted, m)
    /\ accepted' = Append(accepted, m)
    /\ UNCHANGED <<socket, queue, io, pc, sending, deque, wire>>

\* The posted job, when its turn comes, asks again ...
TakeSend ==
    /\ pc["strand"] = "idle"
    /\ posted # <<>>
    /\ posted' = Tail(posted)
    /\ IF IsOpen THEN sending' = Head(posted) /\ Goto("strand", "push")
                 ELSE UNCHANGED <<sending, pc>>
    /\ UNCHANGED <<socket, queue, io, deque, record>>

\* Every job starts a write, whether or not one is under way.
PushAndStart ==
    /\ pc["strand"] = "push"
    /\ queue' = Append(queue, sending)
    /\ sending' = None
    /\ Goto("strand", "start")
    /\ UNCHANGED <<socket, posted, io, deque, record>>

\* The last in goes out first.
PushFront ==
    /\ pc["strand"] = "push"
    /\ queue' = <<sending>> \o queue
    /\ sending' = None
    /\ Goto("strand", IF queue = <<>> THEN "start" ELSE "idle")
    /\ UNCHANGED <<socket, posted, io, deque, record>>

\* ... and appends; whoever finds the queue empty starts the write.
Push ==
    /\ pc["strand"] = "push"
    /\ queue' = Append(queue, sending)
    /\ sending' = None
    /\ Goto("strand", IF queue = <<>> THEN "start" ELSE "idle")
    /\ UNCHANGED <<socket, posted, io, deque, record>>

-----------------------------------------------------------------------------
(* DoWrite                                                                 *)

StartWrite ==
    /\ pc["strand"] = "start"
    /\ Goto("strand", IF queue # <<>> /\ IsOpen THEN "write" ELSE "idle")
    /\ UNCHANGED <<socket, posted, queue, io, sending, deque, record>>

\* async_write of the front; on a socket closed since, it fails at once.
AsyncWrite ==
    /\ pc["strand"] = "write"
    /\ IF socket = "closed" THEN writing' = "failed" /\ buffer' = None
                            ELSE writing' = "pending" /\ buffer' = Front
    /\ Goto("strand", "idle")
    /\ UNCHANGED <<socket, posted, queue, reading, sending, deque, record>>

\* The next write is left to the next Send.
WrittenOnce ==
    /\ pc["strand"] = "idle"
    /\ writing = "written"
    /\ writing' = "none"
    /\ queue' = IF queue = <<>> THEN <<>> ELSE Tail(queue)
    /\ deque' = IF queue = <<>> THEN "corrupt" ELSE deque
    /\ UNCHANGED <<socket, posted, buffer, reading, pc, sending, record>>

\* The completion without an error: pop_front, whatever the queue holds by
\* now, and write on.
Written ==
    /\ pc["strand"] = "idle"
    /\ writing = "written"
    /\ writing' = "none"
    /\ queue' = IF queue = <<>> THEN <<>> ELSE Tail(queue)
    /\ deque' = IF queue = <<>> THEN "corrupt" ELSE deque
    /\ Goto("strand", IF Len(queue) > 1 /\ IsOpen THEN "start" ELSE "idle")
    /\ UNCHANGED <<socket, posted, buffer, reading, sending, record>>

-----------------------------------------------------------------------------
(* Close                                                                   *)

CloseBy(t) ==
    /\ socket' = IF socket = "open" THEN "inactive" ELSE socket
    /\ Goto(t, IF socket = "closed" THEN "idle" ELSE "shut")

\* The completion of a read or a write with an error.
Failed ==
    /\ pc["strand"] = "idle"
    /\ \/ writing = "failed" /\ writing' = "none" /\ UNCHANGED reading
       \/ reading = "failed" /\ reading' = "none" /\ UNCHANGED writing
    /\ CloseBy("strand")
    /\ UNCHANGED <<posted, queue, buffer, sending, deque, record>>

\* HeartbeatService closes the connection of a player it expels.
Expel ==
    /\ pc["monitor"] = "idle"
    /\ CloseBy("monitor")
    /\ UNCHANGED <<posted, queue, io, sending, deque, record>>

\* The queue is emptied while the socket is still open.
ClearFirst(t) ==
    /\ pc[t] = "shut"
    /\ queue' = <<>>
    /\ Goto(t, "clear")
    /\ UNCHANGED <<socket, posted, io, sending, deque, record>>

\* cancel, shutdown and close: an operation under way ends with an error; a
\* completion that waits on the strand keeps its result.
Shut(t) ==
    /\ pc[t] = "shut"
    /\ socket' = "closed"
    /\ writing' = IF writing = "pending" THEN "failed" ELSE writing
    /\ buffer' = None
    /\ reading' = IF reading = "pending" THEN "failed" ELSE reading
    /\ Goto(t, "clear")
    /\ UNCHANGED <<posted, queue, sending, deque, record>>

Clear(t) ==
    /\ pc[t] = "clear"
    /\ queue' = <<>>
    /\ Goto(t, "idle")
    /\ UNCHANGED <<socket, posted, io, sending, deque, record>>

-----------------------------------------------------------------------------
(* The network                                                             *)

WriteEnds ==
    /\ writing = "pending"
    /\ \/ writing' = "written" /\ wire' = Append(wire, buffer)
       \/ writing' = "failed" /\ UNCHANGED wire
    /\ buffer' = None
    /\ UNCHANGED <<socket, posted, queue, reading, pc, sending, deque,
                   accepted>>

PeerLost ==
    /\ reading = "pending"
    /\ reading' = "failed"
    /\ UNCHANGED <<socket, posted, queue, writing, buffer, pc, sending,
                   deque, record>>

-----------------------------------------------------------------------------
Init ==
    /\ socket = "open"
    /\ posted = <<>>
    /\ queue = <<>>
    /\ writing = "none"
    /\ buffer = None
    /\ reading = "pending"
    /\ pc = [t \in Threads |-> "idle"]
    /\ sending = None
    /\ deque = "sound"
    /\ accepted = <<>>
    /\ wire = <<>>

Strand ==
    \/ TakeSend
    \/ Push
    \/ StartWrite
    \/ AsyncWrite
    \/ Written
    \/ Failed

EndClose(t) == Shut(t) \/ Clear(t)

Next ==
    \/ \E m \in Messages : Send(m)
    \/ Strand
    \/ Expel
    \/ \E t \in Threads : EndClose(t)
    \/ WriteEnds
    \/ PeerLost

Spec == Init /\ [][Next]_vars

\* An io thread runs what waits on the strand, a Close that was begun goes
\* on, and a write that was started ends, well or not.
FairSpec ==
    /\ Spec
    /\ WF_vars(Strand)
    /\ \A t \in Threads : WF_vars(EndClose(t))
    /\ WF_vars(WriteEnds)

-----------------------------------------------------------------------------
(* Properties                                                              *)

\* Every variable has its type; a job about to push has a message.
TypeOK ==
    /\ socket \in {"open", "inactive", "closed"}
    /\ posted \in Seq(Messages)
    /\ queue \in Seq(Messages)
    /\ writing \in {"none", "pending", "written", "failed"}
    /\ buffer \in Messages \union {None}
    /\ reading \in {"pending", "failed", "none"}
    /\ pc \in [Threads -> {"idle", "push", "start", "write", "shut", "clear"}]
    /\ sending \in Messages \union {None}
    /\ deque \in {"sound", "corrupt"}
    /\ accepted \in Seq(Messages)
    /\ wire \in Seq(Messages)
    /\ pc["strand"] = "push" => sending \in Messages
    /\ pc["monitor"] \notin {"push", "start", "write"}

\* The memory an async_write reads from is the front of the queue as long as
\* it reads, although Close empties the queue from another thread, and no
\* second write is started meanwhile.
BufferLive ==
    /\ writing = "pending" => queue # <<>> /\ buffer = Head(queue)
    /\ pc["strand"] = "write" => writing = "none"

\* The deque is used by two threads at once, or popped when empty, only after
\* the socket has been closed: what is sent is never affected.
Touches(t) == pc[t] \in {"push", "start", "write", "clear"}

Racing == \A t \in Threads : Touches(t)

DamageConfined == deque = "corrupt" \/ Racing => socket = "closed"

\* ClientConnection implements the channel its callers expect: first in,
\* first out, until the socket is closed.
Promised == INSTANCE Channel WITH broken <- socket = "closed"

ChannelKept == Promised!Spec

\* Whatever Send accepted is written, unless the connection is closed: no
\* message waits in the queue for a write that nobody starts.
Delivered ==
    \A n \in 1..MaxSends :
        Len(accepted) >= n ~> Len(wire) >= n \/ socket = "closed"
=============================================================================
