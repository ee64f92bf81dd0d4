----------------------------- MODULE Connection -----------------------------
(***************************************************************************)
(* Class Connection of src/Chapter6/wrapper.{h,cpp}: one TCP socket, one   *)
(* strand, one watchdog timer, a queue of buffers to send and a queue of   *)
(* receives to perform.  The application calls Connect, Send, Recv and     *)
(* Disconnect from any thread; everything else runs as a handler on the    *)
(* connection's strand, in one of the threads that run the Hive.           *)
(*                                                                         *)
(* A handler runs to completion before the next handler of the same        *)
(* strand, and all it touches belongs to the strand, so a handler is one   *)
(* action.  Connect is the exception: it runs in the caller's thread, and  *)
(* its two calls (async_connect, StartTimer) are two actions.  Send, Recv  *)
(* and Disconnect may come at any time, before Connect or during it too.   *)
(*                                                                         *)
(* A pending asynchronous operation is a record [id, done, ec] kept in     *)
(* io[c] under the name of its completion handler.  When it completes it   *)
(* gets its error code; later some thread takes the completion and hands   *)
(* it to the strand (strand.wrap), after whatever was posted meanwhile.    *)
(***************************************************************************)
EXTENDS Naturals, Sequences, FiniteSets

CONSTANTS
  Conns,      \* the Connection objects
  MaxSends,   \* bound: calls of Send per connection; buffers are 1..MaxSends
  Parts,      \* pieces in which async_write hands one buffer to the socket
  Asks,       \* the total_bytes arguments of the successive calls of Recv
  RecvSize,   \* m_receive_buffer_size
  StreamLen,  \* bound: bytes the peer sends; they are numbered 1..StreamLen
  MaxOffs,    \* bound: calls of Disconnect per connection
  PeerEnds    \* ways in which a peer may end a connection: "fin", "rst"

ASSUME ConnectionAssumption ==
  /\ MaxSends \in Nat /\ StreamLen \in Nat /\ MaxOffs \in Nat
  /\ Parts \in Nat \ {0} /\ RecvSize \in Nat \ {0}
  /\ Asks \in Seq(Nat) /\ PeerEnds \subseteq {"fin", "rst"}

VARIABLES
  hive,          \* the Hive: m_shutdown and the state of its io_service
  strand,        \* handlers queued in m_io_strand, oldest first
  socket,        \* m_socket
  dial,          \* how far the application's call of Connect has come, or
                 \* "accepting" once it called Accept for this connection
  io,            \* outstanding asynchronous operations, by their handler
  pendingRecvs,  \* m_pending_recvs: indices into Asks
  pendingSends,  \* m_pending_sends: buffers
  recvBuffer,    \* m_recv_buffer: stream bytes, 0 where nothing was read yet
  error,         \* m_error_state
  peer,          \* the other end of the TCP connection
  seen,          \* what the virtual callbacks have been told so far
  asked          \* how often the application has called Send, Recv, Disconnect

netVars == <<peer>>
appVars == <<asked, dial>>
queueVars == <<pendingRecvs, pendingSends, recvBuffer>>
vars == <<hive, strand, socket, dial, io, pendingRecvs, pendingSends,
          recvBuffer, error, peer, seen, asked>>

(***************************************************************************)
(* Data.                                                                   *)
(***************************************************************************)
OwnOps == {"HandleConnect", "HandleSend", "HandleRecv", "DispatchTimer"}
Completions == OwnOps \union {"HandleAccept"}  \* an accept is the acceptor's operation
Posts == {"DispatchSend", "DispatchRecv", "HandleTimer", "FinishAccept"}
Status == {"pending", "ok", "error"}
Op == [id : Nat, done : Nat, ec : Status]
Job == [do : Completions \union Posts, op : [id : Nat, done : Nat, ec : Status \ {"pending"}]]
HiveState == {"running", "stopping", "stopped", "crashed"}
SocketState == {"closed", "open", "connecting", "connected"}
PeerState == [sent : Nat, taken : Nat, state : {"up", "fin", "rst"}, wire : Seq(Nat)]
Reports == [connect : Nat, accept : Nat, send : Seq(Nat), recv : Seq(Seq(Nat)), error : Nat]
Counts == [send : 0 .. MaxSends, recv : 0 .. Len(Asks), off : 0 .. MaxOffs]
DialState == {"idle", "dialling", "dialled", "failed", "accepting"}

NewOp(id, ec) == [id |-> id, done |-> 0, ec |-> ec]
NewJob(do, id, ec) == [do |-> do, op |-> NewOp(id, ec)]

\* cancel() and close(): operations that have not completed yet are aborted;
\* one that has completed keeps the code it completed with.
Cancel(ops) == {IF o.ec = "pending" THEN [o EXCEPT !.ec = "error"] ELSE o : o \in ops}

\* A thread is inside run(): handlers execute and operations are dispatched.
Served == hive \in {"running", "stopping"}
HasStopped == hive # "running"
Alive == hive # "crashed"

\* The status with which async_read and async_write start on the socket.
InitialStatus(c) == IF socket[c] \in {"connecting", "connected"} THEN "pending" ELSE "error"

\* Faulty variants of Fails, to test the properties against: the handler
\* does not look at m_error_state; it does not look at the Hive.
FailsForgetError(c, ec) == ec # "ok" \/ HasStopped
FailsForgetStop(c, ec) == ec # "ok" \/ error[c]

\* The guard every Handle* function begins with.
Fails(c, ec) == ec # "ok" \/ error[c] \/ HasStopped

(***************************************************************************)
(* Pieces of the handlers.                                                 *)
(***************************************************************************)
\* Faulty variants of ShouldStart: the test is missing; it is inverted.
ShouldStartAlways(queue) == TRUE
ShouldStartInverted(queue) == queue # <<>>

\* bool should_start_... = m_pending_....empty()
ShouldStart(queue) == queue = <<>>

\* Starts an async_write of buffer b with completion handler HandleSend.
StartWrite(c, b) ==
  io' = [io EXCEPT ![c]["HandleSend"] = @ \union {NewOp(b, InitialStatus(c))}]

\* StartSend on the queue as the caller left it.
StartSend(c, queue) ==
  \/ queue # <<>> /\ StartWrite(c, Head(queue))
  \/ queue = <<>> /\ UNCHANGED io

\* The size m_recv_buffer is given before a read for the r-th Recv.
ReadSize(r) == IF Asks[r] > 0 THEN Asks[r] ELSE RecvSize

StartRecv(c, r) ==
  /\ recvBuffer' = [recvBuffer EXCEPT ![c] = [i \in 1 .. ReadSize(r) |-> 0]]
  /\ io' = [io EXCEPT ![c]["HandleRecv"] = @ \union {NewOp(r, InitialStatus(c))}]

\* expires_from_now() aborts a wait that is still pending.
StartTimer(c) ==
  io' = [io EXCEPT ![c]["DispatchTimer"] = Cancel(@) \union {NewOp(0, "pending")}]

\* Faulty variants of StartError: the error state is not tested; the socket is
\* shut down but not closed.
StartErrorAgain(c) ==
  /\ error' = [error EXCEPT ![c] = TRUE]
  /\ socket' = [socket EXCEPT ![c] = "closed"]
  /\ io' = [io EXCEPT ![c] = [k \in Completions |-> IF k \in OwnOps THEN Cancel(@[k]) ELSE @[k]]]
  /\ seen' = [seen EXCEPT ![c].error = @ + 1]

StartErrorNoClose(c) ==
  \/ error[c] /\ UNCHANGED <<error, socket, io, seen>>
  \/ /\ ~error[c]
     /\ error' = [error EXCEPT ![c] = TRUE]
     /\ io' = [io EXCEPT ![c]["DispatchTimer"] = Cancel(@)]
     /\ seen' = [seen EXCEPT ![c].error = @ + 1]
     /\ UNCHANGED socket

\* shutdown, close and timer cancel, then OnError: the first time only.
StartError(c) ==
  \/ error[c] /\ UNCHANGED <<error, socket, io, seen>>
  \/ /\ ~error[c]
     /\ error' = [error EXCEPT ![c] = TRUE]
     /\ socket' = [socket EXCEPT ![c] = "closed"]
     /\ io' = [io EXCEPT ![c] = [k \in Completions |-> IF k \in OwnOps THEN Cancel(@[k]) ELSE @[k]]]
     /\ seen' = [seen EXCEPT ![c].error = @ + 1]

\* m_io_strand.post
Post(c, job) == strand' = [strand EXCEPT ![c] = Append(@, job)]

\* The strand runs its oldest handler, which is function f.
Runs(c, f) == Served /\ strand[c] # <<>> /\ Head(strand[c]).do = f
Pop(c) == strand' = [strand EXCEPT ![c] = Tail(@)]
Arg(c) == Head(strand[c]).op

(***************************************************************************)
(* Calls the application makes, from a callback or from another thread.    *)
(***************************************************************************)
\* async_connect has not been called: Connect neither, or resolve() threw.
NotDialled(c) == dial[c] \in {"idle", "failed"}

\* Bind opens the socket; whatever it throws afterwards is caught.
Bind(c) ==
  /\ Alive /\ NotDialled(c) /\ socket[c] = "closed"
  /\ socket' = [socket EXCEPT ![c] = "open"]
  /\ UNCHANGED <<hive, strand, dial, io, queueVars, error, peer, seen, asked>>

\* Connect resolves the name and calls async_connect, which opens the socket
\* if need be, though m_error_state may have been set before ...
Connect(c) ==
  /\ Alive /\ NotDialled(c)
  /\ dial' = [dial EXCEPT ![c] = "dialling"]
  /\ socket' = [socket EXCEPT ![c] = "connecting"]
  /\ io' = [io EXCEPT ![c]["HandleConnect"] = @ \union {NewOp(0, "pending")}]
  /\ UNCHANGED <<hive, strand, queueVars, error, peer, seen, asked>>

\* ... and then starts the timer, still in the caller's thread.
ConnectTimer(c) ==
  /\ Alive /\ dial[c] = "dialling"
  /\ dial' = [dial EXCEPT ![c] = "dialled"]
  /\ StartTimer(c)
  /\ UNCHANGED <<hive, strand, socket, queueVars, error, peer, seen, asked>>

\* resolve() throws; the exception is printed and nothing else happens.
ConnectThrows(c) ==
  /\ Alive /\ NotDialled(c)
  /\ dial' = [dial EXCEPT ![c] = "failed"]
  /\ UNCHANGED <<hive, strand, socket, io, queueVars, error, peer, seen, asked>>

Send(c) ==
  /\ Alive /\ asked[c].send < MaxSends
  /\ asked' = [asked EXCEPT ![c].send = @ + 1]
  /\ Post(c, NewJob("DispatchSend", asked[c].send + 1, "ok"))
  /\ UNCHANGED <<hive, socket, dial, io, queueVars, error, peer, seen>>

Recv(c) ==
  /\ Alive /\ asked[c].recv < Len(Asks)
  /\ asked' = [asked EXCEPT ![c].recv = @ + 1]
  /\ Post(c, NewJob("DispatchRecv", asked[c].recv + 1, "ok"))
  /\ UNCHANGED <<hive, socket, dial, io, queueVars, error, peer, seen>>

Disconnect(c) ==
  /\ Alive /\ asked[c].off < MaxOffs
  /\ asked' = [asked EXCEPT ![c].off = @ + 1]
  /\ Post(c, NewJob("HandleTimer", 0, "error"))
  /\ UNCHANGED <<hive, socket, dial, io, queueVars, error, peer, seen>>

(***************************************************************************)
(* Handlers on the strand.                                                 *)
(***************************************************************************)
DispatchSend(c) ==
  /\ Runs(c, "DispatchSend") /\ Pop(c)
  /\ LET queue == Append(pendingSends[c], Arg(c).id)
     IN /\ pendingSends' = [pendingSends EXCEPT ![c] = queue]
        /\ \/ ShouldStart(pendingSends[c]) /\ StartSend(c, queue)
           \/ ~ShouldStart(pendingSends[c]) /\ UNCHANGED io
  /\ UNCHANGED <<hive, socket, pendingRecvs, recvBuffer, error, seen, netVars, appVars>>

DispatchRecv(c) ==
  /\ Runs(c, "DispatchRecv") /\ Pop(c)
  /\ pendingRecvs' = [pendingRecvs EXCEPT ![c] = Append(@, Arg(c).id)]
  /\ \/ ShouldStart(pendingRecvs[c]) /\ StartRecv(c, Arg(c).id)
     \/ ~ShouldStart(pendingRecvs[c]) /\ UNCHANGED <<io, recvBuffer>>
  /\ UNCHANGED <<hive, socket, pendingSends, error, seen, netVars, appVars>>

\* The timer's handler only posts HandleTimer behind what is queued.
DispatchTimer(c) ==
  /\ Runs(c, "DispatchTimer")
  /\ strand' = [strand EXCEPT ![c] = Append(Tail(@), NewJob("HandleTimer", 0, Arg(c).ec))]
  /\ UNCHANGED <<hive, socket, io, queueVars, error, seen, netVars, appVars>>

\* Faulty variant of HandleTimer: the timer is not started again.
HandleTimerOnce(c) ==
  /\ Runs(c, "HandleTimer") /\ Pop(c)
  /\ \/ Fails(c, Arg(c).ec) /\ StartError(c)
     \/ ~Fails(c, Arg(c).ec) /\ UNCHANGED <<error, socket, io, seen>>
  /\ UNCHANGED <<hive, queueVars, netVars, appVars>>

HandleTimer(c) ==
  /\ Runs(c, "HandleTimer") /\ Pop(c)
  /\ \/ Fails(c, Arg(c).ec) /\ StartError(c)
     \/ ~Fails(c, Arg(c).ec) /\ StartTimer(c) /\ UNCHANGED <<error, socket, seen>>
  /\ UNCHANGED <<hive, queueVars, netVars, appVars>>

\* remote_endpoint() throws when the peer has reset the connection; nothing
\* catches it on the way out of Hive::Run, so the process terminates.
HandleConnect(c) ==
  /\ Runs(c, "HandleConnect") /\ Pop(c)
  /\ \/ /\ Fails(c, Arg(c).ec) \/ socket[c] = "closed"
        /\ StartError(c) /\ UNCHANGED hive
     \/ /\ ~Fails(c, Arg(c).ec) /\ socket[c] # "closed" /\ peer[c].state # "rst"
        /\ seen' = [seen EXCEPT ![c].connect = @ + 1]
        /\ UNCHANGED <<hive, error, socket, io>>
     \/ /\ ~Fails(c, Arg(c).ec) /\ socket[c] # "closed" /\ peer[c].state = "rst"
        /\ hive' = "crashed"
        /\ UNCHANGED <<error, socket, io, seen>>
  /\ UNCHANGED <<queueVars, netVars, appVars>>

\* m_pending_sends.erase(itr), itr being the node of buffer b.
Erase(queue, b) ==
  LET at == CHOOSE i \in 1 .. Len(queue) : queue[i] = b
  IN  [i \in 1 .. Len(queue) - 1 |-> IF i < at THEN queue[i] ELSE queue[i + 1]]

HandleSend(c) ==
  /\ Runs(c, "HandleSend") /\ Pop(c)
  /\ \/ /\ Fails(c, Arg(c).ec) /\ StartError(c) /\ UNCHANGED pendingSends
     \/ /\ ~Fails(c, Arg(c).ec)
        /\ LET queue == Erase(pendingSends[c], Arg(c).id)
           IN /\ pendingSends' = [pendingSends EXCEPT ![c] = queue]
              /\ StartSend(c, queue)
        /\ seen' = [seen EXCEPT ![c].send = Append(@, Arg(c).id)]
        /\ UNCHANGED <<error, socket>>
  /\ UNCHANGED <<hive, pendingRecvs, recvBuffer, netVars, appVars>>

HandleRecv(c) ==
  /\ Runs(c, "HandleRecv") /\ Pop(c)
  /\ \/ /\ Fails(c, Arg(c).ec) /\ StartError(c) /\ UNCHANGED <<pendingRecvs, recvBuffer>>
     \/ /\ ~Fails(c, Arg(c).ec)
        /\ LET data == SubSeq(recvBuffer[c], 1, Arg(c).done)
               queue == Tail(pendingRecvs[c])
           IN /\ seen' = [seen EXCEPT ![c].recv = Append(@, data)]
              /\ pendingRecvs' = [pendingRecvs EXCEPT ![c] = queue]
              /\ \/ queue # <<>> /\ StartRecv(c, Head(queue))
                 \/ /\ queue = <<>> /\ UNCHANGED io
                    /\ recvBuffer' = [recvBuffer EXCEPT ![c] = data]
        /\ UNCHANGED <<error, socket>>
  /\ UNCHANGED <<hive, pendingSends, netVars, appVars>>

(***************************************************************************)
(* The io_service and the network (external).                              *)
(***************************************************************************)
ioOnly == <<hive, strand, dial, pendingRecvs, pendingSends, error, seen, asked>>

\* Operation o of connection c under handler k becomes n.
Update(c, k, o, n) == io' = [io EXCEPT ![c][k] = (@ \ {o}) \union {n}]

\* A thread takes a completed operation and gives its handler to the strand.
Deliver(c, k) ==
  /\ Served
  /\ \E o \in io[c][k] :
       /\ o.ec # "pending"
       /\ io' = [io EXCEPT ![c][k] = @ \ {o}]
       /\ Post(c, [do |-> k, op |-> o])
  /\ UNCHANGED <<hive, socket, dial, queueVars, error, peer, seen, asked>>

ConnectDone(c) ==
  /\ Served
  /\ \E o \in io[c]["HandleConnect"], ec \in {"ok", "error"} :
       /\ o.ec = "pending"
       /\ Update(c, "HandleConnect", o, [o EXCEPT !.ec = ec])
       /\ socket' = [socket EXCEPT ![c] = IF ec = "ok" THEN "connected" ELSE "open"]
  /\ UNCHANGED <<ioOnly, recvBuffer, peer>>

\* async_write hands one more part of the buffer to the socket.
WriteSome(c) ==
  /\ Served /\ socket[c] = "connected" /\ peer[c].state # "rst"
  /\ \E o \in io[c]["HandleSend"] :
       /\ o.ec = "pending"
       /\ Update(c, "HandleSend", o,
                 [o EXCEPT !.done = @ + 1, !.ec = IF o.done + 1 = Parts THEN "ok" ELSE @])
       /\ peer' = [peer EXCEPT ![c].wire = Append(@, o.id)]
  /\ UNCHANGED <<ioOnly, socket, recvBuffer>>

\* The peer is gone, or the connection never came about.
WriteFails(c) ==
  /\ Served /\ (socket[c] = "open" \/ peer[c].state # "up")
  /\ \E o \in io[c]["HandleSend"] :
       o.ec = "pending" /\ Update(c, "HandleSend", o, [o EXCEPT !.ec = "error"])
  /\ UNCHANGED <<ioOnly, socket, recvBuffer, peer>>

\* async_read stores n more bytes; it completes when the buffer is full,
\* async_read_some at once.
ReadSome(c) ==
  /\ Served /\ socket[c] = "connected"
  /\ \E o \in io[c]["HandleRecv"] :
       \E n \in 1 .. (ReadSize(o.id) - o.done) :
       /\ o.ec = "pending" /\ n <= peer[c].sent - peer[c].taken
       /\ Update(c, "HandleRecv", o,
                 [o EXCEPT !.done = @ + n,
                           !.ec = IF o.done + n = ReadSize(o.id) \/ Asks[o.id] = 0 THEN "ok" ELSE @])
       /\ recvBuffer' = [recvBuffer EXCEPT ![c] =
            [i \in DOMAIN @ |-> IF i \in o.done + 1 .. o.done + n
                                  THEN peer[c].taken + i - o.done ELSE @[i]]]
       /\ peer' = [peer EXCEPT ![c].taken = @ + n]
  /\ UNCHANGED <<ioOnly, socket>>

ReadFails(c) ==
  /\ Served
  /\ \/ socket[c] = "open" \/ peer[c].state = "rst"
     \/ peer[c].state = "fin" /\ peer[c].sent = peer[c].taken
  /\ \E o \in io[c]["HandleRecv"] :
       o.ec = "pending" /\ Update(c, "HandleRecv", o, [o EXCEPT !.ec = "error"])
  /\ UNCHANGED <<ioOnly, socket, recvBuffer, peer>>

Expire(c) ==
  /\ Served
  /\ \E o \in io[c]["DispatchTimer"] :
       o.ec = "pending" /\ Update(c, "DispatchTimer", o, [o EXCEPT !.ec = "ok"])
  /\ UNCHANGED <<ioOnly, socket, recvBuffer, peer>>

PeerSends(c) ==
  /\ Alive /\ socket[c] = "connected" /\ peer[c].state = "up" /\ peer[c].sent < StreamLen
  /\ peer' = [peer EXCEPT ![c].sent = @ + 1]
  /\ UNCHANGED <<ioOnly, socket, io, recvBuffer>>

PeerCloses(c) ==
  /\ Alive /\ socket[c] = "connected" /\ peer[c].state = "up"
  /\ \E s \in PeerEnds : peer' = [peer EXCEPT ![c].state = s]
  /\ UNCHANGED <<ioOnly, socket, io, recvBuffer>>

(***************************************************************************)
(* Hive::Stop as the connections see it: the flag is raised, run() serves  *)
(* what is left, and the io_service stops once there is no work.           *)
(***************************************************************************)
NoWork == \A c \in Conns : strand[c] = <<>> /\ \A k \in Completions : io[c][k] = {}

HiveStop ==
  /\ hive = "running" /\ hive' = "stopping"
  /\ UNCHANGED <<strand, socket, dial, io, queueVars, error, peer, seen, asked>>

HiveStopped ==
  /\ hive = "stopping" /\ NoWork /\ hive' = "stopped"
  /\ UNCHANGED <<strand, socket, dial, io, queueVars, error, peer, seen, asked>>

(***************************************************************************)
(* The specification.                                                      *)
(***************************************************************************)
ConnectionInit ==
  /\ hive = "running"
  /\ strand = [c \in Conns |-> <<>>]
  /\ socket = [c \in Conns |-> "closed"]
  /\ dial = [c \in Conns |-> "idle"]
  /\ io = [c \in Conns |-> [k \in Completions |-> {}]]
  /\ pendingRecvs = [c \in Conns |-> <<>>]
  /\ pendingSends = [c \in Conns |-> <<>>]
  /\ recvBuffer = [c \in Conns |-> <<>>]
  /\ error = [c \in Conns |-> FALSE]
  /\ peer = [c \in Conns |-> [sent |-> 0, taken |-> 0, state |-> "up", wire |-> <<>>]]
  /\ seen = [c \in Conns |-> [connect |-> 0, accept |-> 0, send |-> <<>>, recv |-> <<>>, error |-> 0]]
  /\ asked = [c \in Conns |-> [send |-> 0, recv |-> 0, off |-> 0]]

Init == ConnectionInit

Dialling(c) == Bind(c) \/ Connect(c) \/ ConnectTimer(c) \/ ConnectThrows(c)
Calls(c) == Send(c) \/ Recv(c) \/ Disconnect(c)
Handler(c) ==
  \/ DispatchSend(c) \/ DispatchRecv(c) \/ DispatchTimer(c)
  \/ HandleConnect(c) \/ HandleSend(c) \/ HandleRecv(c) \/ HandleTimer(c)
Network(c) ==
  \/ ConnectDone(c) \/ WriteSome(c) \/ WriteFails(c) \/ ReadSome(c) \/ ReadFails(c)
  \/ Expire(c) \/ PeerSends(c) \/ PeerCloses(c)

Next ==
  \/ HiveStop \/ HiveStopped
  \/ \E c \in Conns :
       \/ Dialling(c) \/ Calls(c) \/ Handler(c) \/ Network(c)
       \/ \E k \in Completions : Deliver(c, k)

Spec == Init /\ [][Next]_vars

(***************************************************************************)
(* Fairness, for the liveness properties: threads keep serving the         *)
(* io_service, so queued handlers run, completed operations are delivered  *)
(* and time passes; a thread that entered Connect or Stop goes on.         *)
(***************************************************************************)
ServiceFairness ==
  /\ WF_vars(HiveStopped)
  /\ \A c \in Conns :
       /\ WF_vars(ConnectTimer(c)) /\ WF_vars(Expire(c)) /\ WF_vars(Handler(c))
       /\ \A k \in Completions : WF_vars(Deliver(c, k))

\* The network moves too: a connect is answered and the peer takes data.
NetworkFairness ==
  \A c \in Conns : WF_vars(ConnectDone(c)) /\ WF_vars(WriteSome(c) \/ WriteFails(c))

ServiceSpec == Spec /\ ServiceFairness
NetworkSpec == Spec /\ ServiceFairness /\ NetworkFairness

(***************************************************************************)
(* Properties.                                                             *)
(***************************************************************************)
Typed ==
  /\ hive \in HiveState
  /\ strand \in [Conns -> Seq(Job)]
  /\ socket \in [Conns -> SocketState]
  /\ dial \in [Conns -> DialState]
  /\ io \in [Conns -> [Completions -> SUBSET Op]]
  /\ pendingRecvs \in [Conns -> Seq(1 .. Len(Asks))]
  /\ pendingSends \in [Conns -> Seq(1 .. MaxSends)]
  /\ recvBuffer \in [Conns -> Seq(Nat)]
  /\ error \in [Conns -> BOOLEAN]
  /\ peer \in [Conns -> PeerState]
  /\ seen \in [Conns -> Reports]
  /\ asked \in [Conns -> Counts]

\* What an index into Asks or a buffer may be, wherever one is kept.
IdsIn(ops, jobs) ==
  /\ \A o \in ops : o.id \in 1 .. Len(Asks)
  /\ \A i \in DOMAIN jobs :
       /\ jobs[i].do = "DispatchSend" => jobs[i].op.id \in 1 .. MaxSends
       /\ jobs[i].do = "DispatchRecv" => jobs[i].op.id \in 1 .. Len(Asks)
IdsOK == \A c \in Conns : IdsIn(io[c]["HandleRecv"], strand[c])

\* The type invariant, OnError at most once included: errors reach StartError
\* from four handlers and from Disconnect (wrapper.cpp:317).
TypeOK == Typed /\ IdsOK /\ \A c \in Conns : seen[c].error \in 0 .. 1

\* Where handlers with name k wait in the queue of a strand.
Positions(jobs, k) == {i \in DOMAIN jobs : jobs[i].do = k}
Queued(c, k) == Positions(strand[c], k)

\* The operation whose handler is k serves the front of the given queue.
\* There is at most one, counting the one that completed and whose handler has
\* not run yet.
FrontOnly(ops, jobs, k, queue) ==
  /\ \A o, p \in ops : o = p
  /\ \A i, j \in Positions(jobs, k) : i = j
  /\ ops = {} \/ Positions(jobs, k) = {}
  /\ \A o \in ops : queue # <<>> /\ o.id = Head(queue)
  /\ \A i \in Positions(jobs, k) : queue # <<>> /\ jobs[i].op.id = Head(queue)

\* However posts and completions interleave, a connection never has two
\* async_writes outstanding, and when HandleSend runs its list iterator is
\* the front of m_pending_sends, never a node erased before (wrapper.cpp:281,
\* 351-352).
OneSend ==
  \A c \in Conns : FrontOnly(io[c]["HandleSend"], strand[c], "HandleSend", pendingSends[c])

\* Nor two reads that share m_recv_buffer, and HandleRecv never pops an empty
\* m_pending_recvs (wrapper.cpp:294-301, 366-368).
OneRecv ==
  \A c \in Conns : FrontOnly(io[c]["HandleRecv"], strand[c], "HandleRecv", pendingRecvs[c])

\* A buffer has the size of the read that fills it, and what HandleRecv will
\* be told fits in.
Fits(ops, jobs, buffer) ==
  /\ \A o \in ops : Len(buffer) = ReadSize(o.id) /\ o.done <= ReadSize(o.id)
  /\ \A i \in Positions(jobs, "HandleRecv") : jobs[i].op.done <= Len(buffer)

\* m_recv_buffer is not resized under a read: as long as one is outstanding it
\* has the size that read was started with, and HandleRecv never enlarges it
\* beyond what was read (wrapper.cpp:294, 300, 366).
BufferFits == \A c \in Conns : Fits(io[c]["HandleRecv"], strand[c], recvBuffer[c])

\* No request is stranded: while the connection has no error, a queue that is
\* not empty has an operation, or its handler, on the way (the start is
\* decided by should_start_* and by what HandleSend/HandleRecv do last).
NoStall ==
  \A c \in Conns : ~error[c] =>
    /\ pendingSends[c] # <<>> => io[c]["HandleSend"] # {} \/ Queued(c, "HandleSend") # {}
    /\ pendingRecvs[c] # <<>> => io[c]["HandleRecv"] # {} \/ Queued(c, "HandleRecv") # {}

\* A connection whose error came before async_connect (wrapper.cpp:424), which
\* opened the socket all the same: StartError will never close it again.
Zombie(c) == error[c] /\ socket[c] # "closed"

\* An error is final: from async_connect on, the first error closes the socket,
\* is reported once and leaves no operation that only the peer could complete,
\* and no later call, handler or completion opens the socket or starts such an
\* operation.  The exception is a connection that had failed before
\* async_connect was called.
ErrorIsFinal ==
  [][\A c \in Conns : error'[c] /\ ~NotDialled(c) /\ ~Zombie(c) =>
       /\ socket'[c] = "closed" /\ seen'[c].error = 1
       /\ \A k \in OwnOps \ {"DispatchTimer"} : \A o \in io'[c][k] : o.ec # "pending"]_vars

\* After OnError the application hears nothing more of the connection, though
\* completions that succeeded before may still be queued behind it.
SilentAfterError ==
  [][\A c \in Conns : seen[c].error > 0 => seen'[c] = seen[c]]_vars

\* The watchdog: whenever a healthy connection waits for the network, its
\* timer is pending or one of the timer's handlers is queued, so Stop will be
\* noticed (Connect itself is between its two calls at most once).
Watchdog ==
  \A c \in Conns :
    /\ ~error[c] /\ dial[c] # "dialling"
    /\ \E k \in OwnOps : \E o \in io[c][k] : o.ec = "pending"
    => \/ io[c]["DispatchTimer"] # {}
       \/ Queued(c, "DispatchTimer") \union Queued(c, "HandleTimer") # {}

\* At the moment Stop has drained the io_service, every connection that was
\* dialled has had its error reported: the application of none is left waiting
\* for a callback that will not come.
StopReportsAll ==
  [][hive' = "stopped" => \A c \in Conns : dial[c] = "dialled" => error[c]]_hive

\* Hive::Stop returns: whatever the connections were doing, their timers
\* notice m_shutdown and the work runs out ("All work is finished",
\* wrapper.h:52).
StopReturns == (hive = "stopping") ~> (hive \in {"stopped", "crashed"})

\* It does, but for connections that had failed before they were dialled: their
\* socket is open and StartError, their timers' only means, does nothing more.
StopReturnsOrZombie ==
  (hive = "stopping") ~> (hive \in {"stopped", "crashed"} \/ \E c \in Conns : Zombie(c))

\* Every buffer given to Send is settled: OnSend for it, or the connection's
\* error, or the end of the Hive.
SendSettles ==
  \A c \in Conns : \A n \in 1 .. MaxSends :
    (asked[c].send >= n) ~> (Len(seen[c].send) >= n \/ error[c] \/ ~Served)

\* "This function blocks until the networking system is stopped"
\* (wrapper.h:46-47): no exception ends Hive::Run early.
RunEndsOnlyByStop == hive # "crashed"

\* Refinement: each connection implements the abstract channel.
ChannelState(c) ==
  IF NotDialled(c) THEN (IF error[c] THEN "refused" ELSE "new")
  ELSE IF ~error[c] THEN "up"
  ELSE IF Zombie(c) THEN "mute" ELSE "down"

Promise(c) ==
  INSTANCE Channel WITH accepted <- asked[c].send, wire <- peer[c].wire,
    confirmed <- seen[c].send, invited <- asked[c].recv,
    reported <- seen[c].recv, state <- ChannelState(c)

ImplementsChannel ==
  /\ \A c \in Conns : Promise(c)!Init
  /\ [][\A c \in Conns : [Promise(c)!Next]_(Promise(c)!chan)]_vars
=============================================================================
