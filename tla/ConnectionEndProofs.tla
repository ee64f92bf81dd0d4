------------------------- MODULE ConnectionEndProofs -------------------------
(***************************************************************************)
(* More proofs about Connection: what an error ends, that no request is    *)
(* stranded before it, and that the watchdog sees to it that Stop ends     *)
(* every connection.  They rest on the typing and the front-of-the-queue   *)
(* invariant of ConnectionProofs.                                          *)
(***************************************************************************)
EXTENDS ConnectionProofs

(***************************************************************************)
(* The inductive invariant.                                                *)
(***************************************************************************)
\* An operation with handler k waits for the network; it, or its handler, is
\* on the way; the timer, or one of its two handlers, is.
Waits(c, k) == \E o \in io[c][k] : o.ec = "pending"
OnItsWay(c, k) == io[c][k] # {} \/ Queued(c, k) # {}
Watched(c) == OnItsWay(c, "DispatchTimer") \/ Queued(c, "HandleTimer") # {}

\* An error is told once, and nothing waits on a socket that is closed: a
\* completion could open it again.
Ended(c) ==
  /\ seen[c].error = IF error[c] THEN 1 ELSE 0
  /\ socket[c] = "closed" =>
       ~Waits(c, "HandleConnect") /\ ~Waits(c, "HandleSend") /\ ~Waits(c, "HandleRecv")

\* Before async_connect the socket carries nothing, so nothing can wait.
Begun(c) ==
  /\ dial[c] # "accepting"
  /\ NotDialled(c) =>
       /\ socket[c] \in {"closed", "open"} /\ io[c]["HandleConnect"] = {}
       /\ ~Waits(c, "HandleSend") /\ ~Waits(c, "HandleRecv")

\* A queue of requests is served until the error.
Supplied(c) ==
  /\ ~error[c] /\ pendingSends[c] # <<>> => OnItsWay(c, "HandleSend")
  /\ ~error[c] /\ pendingRecvs[c] # <<>> => OnItsWay(c, "HandleRecv")

\* From the end of Connect to the error the timer is never lost.
Guarded(c) == ~error[c] /\ dial[c] = "dialled" => Watched(c)

Steady(c) == Ended(c) /\ Begun(c) /\ Supplied(c) /\ Guarded(c)
EInv == IInv /\ \A c \in Conns : Steady(c)

(***************************************************************************)
(* What an action does to the connection it is about; nothing happens to   *)
(* another one.                                                            *)
(***************************************************************************)
SameQueues(c) ==
  pendingSends'[c] = pendingSends[c] /\ pendingRecvs'[c] = pendingRecvs[c] /\ recvBuffer'[c] = recvBuffer[c]
SameEnd(c) == error'[c] = error[c] /\ socket'[c] = socket[c] /\ seen'[c] = seen[c]
SameApp(c) == asked'[c] = asked[c] /\ dial'[c] = dial[c]
SameOps(c, k) == \A l \in Completions \ {k} : io'[c][l] = io[c][l]
Stays(c) ==
  /\ SameQueues(c) /\ SameEnd(c) /\ SameApp(c)
  /\ strand'[c] = strand[c] /\ io'[c] = io[c] /\ peer'[c] = peer[c]

Moves(c) ==
  Dialling(c) \/ Calls(c) \/ Handler(c) \/ Network(c) \/ \E k \in Completions : Deliver(c, k)

LEMMA StaysKept ==
  ASSUME NEW d \in Conns, Stays(d), Steady(d)
  PROVE  Steady(d)'
BY DEF Stays, Steady, SameQueues, SameEnd, SameApp, Ended, Begun, NotDialled, Supplied, Guarded, Watched,
   OnItsWay, Waits, Queued

LEMMA StartErrorElsewhere ==
  ASSUME IInv, NEW c \in Conns, StartError(c), NEW d \in Conns \ {c}
  PROVE  io'[d] = io[d] /\ SameEnd(d)
BY DEF StartError, SameEnd, IInv, Typed

LEMMA HandlersElsewhere ==
  ASSUME IInv, NEW c \in Conns, Handler(c), NEW d \in Conns \ {c}
  PROVE  Stays(d)
<1> USE DEF Stays, SameQueues, SameEnd, SameApp, queueVars, netVars, appVars, IInv, Typed, Pop
<1>1. CASE DispatchSend(c)
  BY <1>1 DEF DispatchSend, StartSend, StartWrite
<1>2. CASE DispatchRecv(c)
  BY <1>2 DEF DispatchRecv, StartRecv
<1>3. CASE DispatchTimer(c)
  BY <1>3 DEF DispatchTimer
<1>4. CASE HandleTimer(c)
  BY <1>4, StartErrorElsewhere DEF HandleTimer, StartTimer
<1>5. CASE HandleConnect(c)
  BY <1>5, StartErrorElsewhere DEF HandleConnect
<1>6. CASE HandleSend(c)
  BY <1>6, StartErrorElsewhere DEF HandleSend, StartSend, StartWrite
<1>7. CASE HandleRecv(c)
  BY <1>7, StartErrorElsewhere DEF HandleRecv, StartRecv
<1> QED BY <1>1, <1>2, <1>3, <1>4, <1>5, <1>6, <1>7 DEF Handler

LEMMA OthersStay ==
  ASSUME IInv, NEW c \in Conns, Moves(c), NEW d \in Conns \ {c}
  PROVE  Stays(d)
<1> USE DEF Stays, SameQueues, SameEnd, SameApp, queueVars, netVars, appVars, ioOnly, IInv, Typed
<1>1. CASE Dialling(c)
  BY <1>1 DEF Dialling, Bind, Connect, ConnectTimer, ConnectThrows, StartTimer
<1>2. CASE Calls(c)
  BY <1>2 DEF Calls, Send, Recv, Disconnect, Post
<1>3. CASE Network(c)
  <2>1. CASE ConnectDone(c) \/ Expire(c)
    BY <2>1 DEF ConnectDone, Expire, Update
  <2>2. CASE WriteSome(c) \/ WriteFails(c)
    BY <2>2 DEF WriteSome, WriteFails, Update
  <2>3. CASE ReadSome(c)
    BY <2>3 DEF ReadSome, Update
  <2>4. CASE ReadFails(c)
    BY <2>4 DEF ReadFails, Update
  <2>5. CASE PeerSends(c) \/ PeerCloses(c)
    BY <2>5 DEF PeerSends, PeerCloses
  <2> QED BY <1>3, <2>1, <2>2, <2>3, <2>4, <2>5 DEF Network
<1>4. ASSUME NEW k \in Completions, Deliver(c, k) PROVE Stays(d)
  BY <1>4 DEF Deliver, Post
<1> QED BY <1>1, <1>2, <1>3, <1>4, HandlersElsewhere DEF Moves

(***************************************************************************)
(* Which handlers are queued after the strand's queue has moved.           *)
(***************************************************************************)
LEMMA QueuedPop ==
  ASSUME IInv, NEW c \in Conns, strand[c] # <<>>, strand'[c] = Tail(strand[c]), NEW k
  PROVE  /\ Queued(c, k)' # {} => Queued(c, k) # {}
         /\ Queued(c, k) # {} => Queued(c, k)' # {} \/ Head(strand[c]).do = k
<1>1. strand[c] \in Seq(Job)
  BY StateOf
<1>2. /\ Positions(Tail(strand[c]), k) = {i \in 1 .. Len(strand[c]) - 1 : i + 1 \in Positions(strand[c], k)}
      /\ Head(strand[c]) = strand[c][1]
  BY <1>1, PositionsTail
<1>3. \A i \in Positions(strand[c], k) : i = 1 \/ (i - 1 \in 1 .. Len(strand[c]) - 1 /\ (i - 1) + 1 = i)
  BY <1>1 DEF Positions
<1>4. 1 \in Positions(strand[c], k) => Head(strand[c]).do = k
  BY <1>2 DEF Positions
<1> QED BY <1>2, <1>3, <1>4 DEF Queued

LEMMA QueuedPost ==
  ASSUME IInv, NEW c \in Conns, NEW j \in Job, strand'[c] = Append(strand[c], j), NEW k
  PROVE  Queued(c, k)' # {} <=> Queued(c, k) # {} \/ j.do = k
<1>1. strand[c] \in Seq(Job)
  BY StateOf
<1>2. /\ DOMAIN strand'[c] = DOMAIN strand[c] \union {Len(strand[c]) + 1}
      /\ strand'[c][Len(strand[c]) + 1] = j
      /\ \A i \in DOMAIN strand[c] : strand'[c][i] = strand[c][i]
  BY <1>1
<1> QED BY <1>2 DEF Queued, Positions

(***************************************************************************)
(* The error ends everything the other parts are about.                    *)
(***************************************************************************)
LEMMA CancelAll ==
  ASSUME NEW ops \in SUBSET Op
  PROVE  \A o \in Cancel(ops) : o.ec # "pending"
BY DEF Cancel, Op

LEMMA StartErrorEffect ==
  ASSUME IInv, NEW c \in Conns, StartError(c), ~error[c]
  PROVE  /\ error'[c] = TRUE /\ socket'[c] = "closed"
         /\ seen'[c] = [seen[c] EXCEPT !.error = @ + 1]
         /\ \A k \in OwnOps : io'[c][k] = Cancel(io[c][k])
BY DEF StartError, IInv, Typed, Completions

LEMMA ErrorKeeps ==
  ASSUME IInv, NEW c \in Conns, Steady(c), StartError(c), SameApp(c)
  PROVE  Steady(c)' /\ error'[c]
<1>1. CASE error[c]
  <2>1. error'[c] /\ SameEnd(c) /\ io'[c] = io[c] /\ dial'[c] = dial[c]
    BY <1>1 DEF StartError, SameEnd, SameApp
  <2>2. Ended(c)' /\ Begun(c)'
    BY <2>1 DEF Steady, Ended, Begun, NotDialled, SameEnd, Waits
  <2> QED BY <2>1, <2>2 DEF Steady, Supplied, Guarded
<1>2. CASE ~error[c]
  <2>1. /\ error'[c] = TRUE /\ socket'[c] = "closed"
        /\ seen'[c] = [seen[c] EXCEPT !.error = @ + 1]
        /\ \A k \in OwnOps : io'[c][k] = Cancel(io[c][k]) /\ io[c][k] \in SUBSET Op
    BY <1>2, StartErrorEffect, StateOf DEF Completions
  <2>2. \A k \in OwnOps : ~Waits(c, k)' /\ (io[c][k] = {} => io'[c][k] = {})
    BY <2>1, CancelAll, CancelKeeps DEF Waits
  <2>3. seen'[c].error = 1
    BY <1>2, <2>1 DEF Steady, Ended, IInv, Typed, Reports
  <2>4. Ended(c)'
    BY <2>1, <2>2, <2>3 DEF Ended, SameApp, OwnOps
  <2>5. Begun(c)'
    BY <2>1, <2>2 DEF Steady, Begun, NotDialled, SameApp, OwnOps
  <2> QED BY <2>1, <2>4, <2>5 DEF Steady, Supplied, Guarded
<1> QED BY <1>1, <1>2

(***************************************************************************)
(* Connecting.                                                             *)
(***************************************************************************)
LEMMA DiallingKeeps ==
  ASSUME IInv, NEW c \in Conns, Steady(c), Dialling(c)
  PROVE  Steady(c)'
<1>1. /\ io \in [Conns -> [Completions -> SUBSET Op]] /\ socket \in [Conns -> SocketState]
      /\ dial \in [Conns -> DialState] /\ OwnOps \subseteq Completions
  BY DEF IInv, Typed, Completions
<1>2. CASE Bind(c)
  <2>1. NotDialled(c) /\ socket'[c] = "open"
    BY <1>1, <1>2 DEF Bind
  <2>2. UNCHANGED <<strand, dial, io, queueVars, error, seen>>
    BY <1>2 DEF Bind
  <2> QED BY <2>1, <2>2
     DEF Steady, Ended, Begun, NotDialled, Supplied, Guarded, Waits, OnItsWay, Queued, queueVars
<1>3. CASE Connect(c)
  <2>1. /\ dial'[c] = "dialling" /\ socket'[c] = "connecting"
        /\ \A k \in Completions \ {"HandleConnect"} : io'[c][k] = io[c][k]
    BY <1>1, <1>3 DEF Connect
  <2>2. UNCHANGED <<strand, queueVars, error, seen>>
    BY <1>3 DEF Connect
  <2> QED BY <2>1, <2>2, Names
     DEF Steady, Ended, Begun, NotDialled, Supplied, Guarded, OnItsWay, Queued, queueVars
<1>4. CASE ConnectTimer(c)
  <2>1. /\ dial[c] = "dialling" /\ dial'[c] = "dialled"
        /\ NewOp(0, "pending") \in io'[c]["DispatchTimer"]
        /\ \A k \in Completions \ {"DispatchTimer"} : io'[c][k] = io[c][k]
    BY <1>1, <1>4, Names DEF ConnectTimer, StartTimer
  <2>2. UNCHANGED <<strand, socket, queueVars, error, seen>>
    BY <1>4 DEF ConnectTimer
  <2> QED BY <2>1, <2>2, Names
     DEF Steady, Ended, Begun, NotDialled, Supplied, Guarded, Watched, Waits, OnItsWay, Queued, queueVars
<1>5. CASE ConnectThrows(c)
  <2>1. NotDialled(c) /\ dial'[c] = "failed"
    BY <1>1, <1>5 DEF ConnectThrows
  <2>2. UNCHANGED <<strand, socket, io, queueVars, error, seen>>
    BY <1>5 DEF ConnectThrows
  <2> QED BY <2>1, <2>2, Names
     DEF Steady, Ended, Begun, NotDialled, Supplied, Guarded, Waits, OnItsWay, Queued, queueVars
<1> QED BY <1>2, <1>3, <1>4, <1>5 DEF Dialling

(***************************************************************************)
(* A handler is posted: by the application, by the io_service.             *)
(***************************************************************************)
\* What a post needs to keep everything steady: the operations that go away
\* leave their handler.
LEMMA PostKeeps ==
  ASSUME IInv, NEW c \in Conns, Steady(c), NEW j \in Job, strand'[c] = Append(strand[c], j),
         SameQueues(c), SameEnd(c), dial'[c] = dial[c],
         \A k \in Completions : io'[c][k] \subseteq io[c][k] /\ (io'[c][k] = io[c][k] \/ j.do = k)
  PROVE  Steady(c)'
<1>1. \A k : Queued(c, k)' # {} <=> Queued(c, k) # {} \/ j.do = k
  BY QueuedPost
<1>2. \A k \in Completions : (OnItsWay(c, k) => OnItsWay(c, k)') /\ (Waits(c, k)' => Waits(c, k))
  BY <1>1 DEF OnItsWay, Waits
<1>3. Watched(c) => Watched(c)'
  BY <1>1, <1>2, Names DEF Watched
<1>4. Ended(c)'
  BY <1>2, Names DEF Steady, Ended, SameEnd
<1>5. Begun(c)'
  BY <1>2, Names DEF Steady, Begun, NotDialled, SameEnd
<1>6. Supplied(c)'
  BY <1>2, Names DEF Steady, Supplied, SameEnd, SameQueues
<1> QED BY <1>3, <1>4, <1>5, <1>6 DEF Steady, Guarded, SameEnd

LEMMA CallsKeep ==
  ASSUME IInv, NEW c \in Conns, Steady(c), Calls(c)
  PROVE  Steady(c)'
<1>1. strand \in [Conns -> Seq(Job)] /\ asked[c] \in Counts
  BY DEF IInv, Typed
<1>2. PICK j \in Job : strand'[c] = Append(strand[c], j)
  <2>1. \A f \in Posts, n \in Nat : NewJob(f, n, "ok") \in Job /\ NewJob(f, n, "error") \in Job
    BY DEF NewJob, NewOp, Job, Status
  <2>2. asked[c].send + 1 \in Nat /\ asked[c].recv + 1 \in Nat
    BY <1>1, ConnectionAssumption DEF Counts
  <2> QED BY <1>1, <2>1, <2>2 DEF Calls, Send, Recv, Disconnect, Post, Posts
<1>3. SameQueues(c) /\ SameEnd(c) /\ dial'[c] = dial[c] /\ io'[c] = io[c]
  BY DEF Calls, Send, Recv, Disconnect, SameQueues, SameEnd, queueVars
<1> QED BY <1>2, <1>3, PostKeeps

LEMMA DeliverKeeps ==
  ASSUME IInv, NEW c \in Conns, Steady(c), NEW k \in Completions, Deliver(c, k)
  PROVE  Steady(c)'
<1>1. /\ io \in [Conns -> [Completions -> SUBSET Op]] /\ strand \in [Conns -> Seq(Job)]
      /\ io[c][k] \in SUBSET Op
  BY DEF IInv, Typed
<1>2. PICK o \in io[c][k] :
        o.ec # "pending" /\ io' = [io EXCEPT ![c][k] = @ \ {o}] /\ Post(c, [do |-> k, op |-> o])
  BY DEF Deliver
<1> DEFINE j == [do |-> k, op |-> o]
<1>3. j \in Job /\ j.do = k
  BY <1>1, <1>2 DEF Job, Op
<1>4. strand'[c] = Append(strand[c], j)
  BY <1>1, <1>2 DEF Post
<1>5. \A l \in Completions : io'[c][l] \subseteq io[c][l] /\ (io'[c][l] = io[c][l] \/ j.do = l)
  BY <1>1, <1>2
<1> HIDE DEF j
<1>6. SameQueues(c) /\ SameEnd(c) /\ dial'[c] = dial[c]
  BY DEF Deliver, SameQueues, SameEnd, queueVars
<1> QED BY <1>3, <1>4, <1>5, <1>6, PostKeeps

(***************************************************************************)
(* The network.                                                            *)
(***************************************************************************)
\* A waiting operation makes progress or completes; the socket changes only
\* under a connect that is still waiting.
LEMMA UpdateKeeps ==
  ASSUME IInv, NEW c \in Conns, Steady(c), NEW k \in OwnOps, NEW o \in io[c][k], o.ec = "pending",
         NEW n, Update(c, k, o, n), UNCHANGED ioOnly,
         socket'[c] = socket[c] \/ k = "HandleConnect", socket'[c] = "closed" => socket[c] = "closed"
  PROVE  Steady(c)'
<1>1. /\ io \in [Conns -> [Completions -> SUBSET Op]] /\ k \in Completions
      /\ OwnOps \subseteq Completions
  BY DEF IInv, Typed, Completions
<1>2. /\ io'[c][k] # {} /\ \A l \in Completions \ {k} : io'[c][l] = io[c][l]
  BY <1>1 DEF Update
<1>3. \A l \in Completions : (OnItsWay(c, l) => OnItsWay(c, l)') /\ (Waits(c, l)' => Waits(c, l))
  BY <1>1, <1>2 DEF OnItsWay, Waits, Queued, ioOnly
<1>4. k = "HandleConnect" => ~NotDialled(c)
  BY <1>1 DEF Steady, Begun
<1>5. Ended(c)'
  BY <1>3, <1>4, Names DEF Steady, Ended, ioOnly
<1>6. Begun(c)'
  BY <1>2, <1>3, <1>4, Names DEF Steady, Begun, NotDialled, ioOnly
<1>7. Supplied(c)' /\ Guarded(c)'
  BY <1>3, Names DEF Steady, Supplied, Guarded, Watched, Queued, ioOnly
<1> QED BY <1>5, <1>6, <1>7 DEF Steady

LEMMA NetworkKeeps ==
  ASSUME IInv, NEW c \in Conns, Steady(c), Network(c)
  PROVE  Steady(c)'
<1> USE DEF OwnOps
<1>1. CASE ConnectDone(c)
  <2>1. PICK o \in io[c]["HandleConnect"] : o.ec = "pending" /\ \E n : Update(c, "HandleConnect", o, n)
    BY <1>1 DEF ConnectDone
  <2>2. socket'[c] # "closed"
    BY <1>1 DEF ConnectDone, IInv, Typed
  <2> QED BY <1>1, <2>1, <2>2, UpdateKeeps DEF ConnectDone
<1>2. CASE WriteSome(c)
  <2>1. PICK o \in io[c]["HandleSend"] : o.ec = "pending" /\ \E n : Update(c, "HandleSend", o, n)
    BY <1>2 DEF WriteSome
  <2>2. UNCHANGED ioOnly /\ socket'[c] = socket[c]
    BY <1>2 DEF WriteSome
  <2> QED BY <2>1, <2>2, UpdateKeeps
<1>3. CASE WriteFails(c)
  <2>1. PICK o \in io[c]["HandleSend"] : o.ec = "pending" /\ \E n : Update(c, "HandleSend", o, n)
    BY <1>3 DEF WriteFails
  <2>2. UNCHANGED ioOnly /\ socket'[c] = socket[c]
    BY <1>3 DEF WriteFails
  <2> QED BY <2>1, <2>2, UpdateKeeps
<1>4. CASE ReadSome(c)
  <2>1. PICK o \in io[c]["HandleRecv"] : o.ec = "pending" /\ \E n : Update(c, "HandleRecv", o, n)
    BY <1>4 DEF ReadSome
  <2>2. UNCHANGED ioOnly /\ socket'[c] = socket[c]
    BY <1>4 DEF ReadSome
  <2> QED BY <2>1, <2>2, UpdateKeeps
<1>5. CASE ReadFails(c)
  <2>1. PICK o \in io[c]["HandleRecv"] : o.ec = "pending" /\ \E n : Update(c, "HandleRecv", o, n)
    BY <1>5 DEF ReadFails
  <2>2. UNCHANGED ioOnly /\ socket'[c] = socket[c]
    BY <1>5 DEF ReadFails
  <2> QED BY <2>1, <2>2, UpdateKeeps
<1>6. CASE Expire(c)
  <2>1. PICK o \in io[c]["DispatchTimer"] : o.ec = "pending" /\ \E n : Update(c, "DispatchTimer", o, n)
    BY <1>6 DEF Expire
  <2>2. UNCHANGED ioOnly /\ socket'[c] = socket[c]
    BY <1>6 DEF Expire
  <2> QED BY <2>1, <2>2, UpdateKeeps
<1>7. CASE PeerSends(c) \/ PeerCloses(c)
  <2>1. UNCHANGED <<ioOnly, socket, io>>
    BY <1>7 DEF PeerSends, PeerCloses
  <2> QED BY <2>1
     DEF Steady, Ended, Begun, NotDialled, Supplied, Guarded, Watched, OnItsWay, Waits, Queued, ioOnly
<1> QED BY <1>1, <1>2, <1>3, <1>4, <1>5, <1>6, <1>7 DEF Network

(***************************************************************************)
(* A handler runs and does not find an error.                              *)
(***************************************************************************)
\* What a handler has to respect: it lets an operation wait only on a socket
\* that can carry it, and leaves no queue and no dialled connection alone.
LEMMA ServeKeeps ==
  ASSUME IInv, NEW c \in Conns, Steady(c), strand[c] # <<>>,
         dial'[c] = dial[c], error'[c] = error[c], socket'[c] = socket[c],
         seen'[c].error = seen[c].error, io'[c]["HandleConnect"] = io[c]["HandleConnect"],
         \A k \in {"HandleSend", "HandleRecv"} :
            Waits(c, k)' => Waits(c, k) \/ socket[c] \in {"connecting", "connected"},
         ~error[c] /\ pendingSends'[c] # <<>> => OnItsWay(c, "HandleSend")',
         ~error[c] /\ pendingRecvs'[c] # <<>> => OnItsWay(c, "HandleRecv")',
         Watched(c) => Watched(c)'
  PROVE  Steady(c)'
<1>2. Waits(c, "HandleConnect")' => Waits(c, "HandleConnect")
  BY DEF Waits
<1>3. Ended(c)' /\ Begun(c)'
  BY <1>2 DEF Steady, Ended, Begun, NotDialled
<1> QED BY <1>3 DEF Steady, Supplied, Guarded

\* An operation is on its way unless the handler that runs is its own.
LEMMA PopOnItsWay ==
  ASSUME IInv, NEW c \in Conns, strand[c] # <<>>, Pop(c), NEW k, Head(strand[c]).do # k,
         io'[c][k] # {} \/ io[c][k] = {}
  PROVE  OnItsWay(c, k) => OnItsWay(c, k)'
BY PopStep, QueuedPop DEF OnItsWay

\* The timer stays unless its own second handler runs.
LEMMA PopWatched ==
  ASSUME IInv, NEW c \in Conns, strand[c] # <<>>, Pop(c),
         Head(strand[c]).do \notin {"DispatchTimer", "HandleTimer"},
         io'[c]["DispatchTimer"] = io[c]["DispatchTimer"]
  PROVE  Watched(c) => Watched(c)'
BY PopStep, QueuedPop, PopOnItsWay DEF Watched

\* A new operation waits only if the socket is connecting or connected.
LEMMA StartWaits ==
  ASSUME IInv, NEW c \in Conns, NEW k \in Completions, NEW id,
         io'[c][k] = io[c][k] \union {NewOp(id, InitialStatus(c))}
  PROVE  /\ Waits(c, k)' => Waits(c, k) \/ socket[c] \in {"connecting", "connected"}
         /\ io'[c][k] # {}
<1> DEFINE n == NewOp(id, InitialStatus(c))
<1>1. n.ec = "pending" => socket[c] \in {"connecting", "connected"}
  BY DEF NewOp, InitialStatus
<1>2. io'[c][k] = io[c][k] \union {n}
  OBVIOUS
<1> HIDE DEF n
<1> QED BY <1>1, <1>2 DEF Waits

\* What StartSend and StartRecv leave in io[c].
LEMMA StartSendEffect ==
  ASSUME IInv, NEW c \in Conns, NEW queue, StartSend(c, queue)
  PROVE  /\ Waits(c, "HandleSend")' => Waits(c, "HandleSend") \/ socket[c] \in {"connecting", "connected"}
         /\ queue # <<>> => io'[c]["HandleSend"] # {}
         /\ \A k \in Completions \ {"HandleSend"} : io'[c][k] = io[c][k]
<1>1. io \in [Conns -> [Completions -> SUBSET Op]]
  BY DEF IInv, Typed
<1>2. CASE queue = <<>>
  BY <1>1, <1>2 DEF StartSend, Waits
<1>3. CASE queue # <<>>
  <2>1. /\ io'[c]["HandleSend"] = io[c]["HandleSend"] \union {NewOp(Head(queue), InitialStatus(c))}
        /\ \A k \in Completions \ {"HandleSend"} : io'[c][k] = io[c][k]
    BY <1>1, <1>3, Names DEF StartSend, StartWrite
  <2> QED BY <2>1, StartWaits, Names
<1> QED BY <1>2, <1>3

LEMMA StartRecvEffect ==
  ASSUME IInv, NEW c \in Conns, NEW r, StartRecv(c, r)
  PROVE  /\ Waits(c, "HandleRecv")' => Waits(c, "HandleRecv") \/ socket[c] \in {"connecting", "connected"}
         /\ io'[c]["HandleRecv"] # {}
         /\ \A k \in Completions \ {"HandleRecv"} : io'[c][k] = io[c][k]
<1>1. io \in [Conns -> [Completions -> SUBSET Op]]
  BY DEF IInv, Typed
<1>2. /\ io'[c]["HandleRecv"] = io[c]["HandleRecv"] \union {NewOp(r, InitialStatus(c))}
      /\ \A k \in Completions \ {"HandleRecv"} : io'[c][k] = io[c][k]
  BY <1>1, Names DEF StartRecv
<1> QED BY <1>2, StartWaits, Names

LEMMA DispatchSendKeeps ==
  ASSUME IInv, NEW c \in Conns, Steady(c), DispatchSend(c)
  PROVE  Steady(c)'
<1> DEFINE queue == Append(pendingSends[c], Arg(c).id)
<1>1. /\ strand[c] # <<>> /\ Head(strand[c]).do = "DispatchSend" /\ Pop(c)
      /\ UNCHANGED <<dial, socket, error, seen, pendingRecvs>>
  BY DEF DispatchSend, Runs, appVars
<1>2. \/ pendingSends[c] # <<>> /\ UNCHANGED io
      \/ pendingSends[c] = <<>> /\ StartSend(c, queue)
  BY DEF DispatchSend, ShouldStart
<1>3. pendingSends[c] \in Seq(1 .. MaxSends) /\ queue # <<>>
  <2>1. pendingSends[c] \in Seq(1 .. MaxSends)
    BY StateOf
  <2>2. Len(queue) = Len(pendingSends[c]) + 1
    BY <2>1
  <2> QED BY <2>1, <2>2, AppendProperties, EmptySeq
<1> HIDE DEF queue
<1>4. /\ Waits(c, "HandleSend")' => Waits(c, "HandleSend") \/ socket[c] \in {"connecting", "connected"}
      /\ pendingSends[c] = <<>> => io'[c]["HandleSend"] # {}
      /\ pendingSends[c] # <<>> => io'[c]["HandleSend"] = io[c]["HandleSend"]
      /\ \A k \in Completions \ {"HandleSend"} : io'[c][k] = io[c][k]
  BY <1>2, <1>3, StartSendEffect DEF Waits
<1>5. ~error[c] => OnItsWay(c, "HandleSend")'
  BY <1>1, <1>4, PopOnItsWay DEF Steady, Supplied, OnItsWay
<1>6. ~error[c] /\ pendingRecvs'[c] # <<>> => OnItsWay(c, "HandleRecv")'
  BY <1>1, <1>4, PopOnItsWay, Names DEF Steady, Supplied
<1>7. Watched(c) => Watched(c)'
  BY <1>1, <1>4, PopWatched, Names
<1>8. Waits(c, "HandleRecv")' => Waits(c, "HandleRecv")
  BY <1>4, Names DEF Waits
<1>9. io'[c]["HandleConnect"] = io[c]["HandleConnect"]
  BY <1>4, Names
<1> QED BY <1>1, <1>4, <1>5, <1>6, <1>7, <1>8, <1>9, ServeKeeps

LEMMA DispatchRecvKeeps ==
  ASSUME IInv, NEW c \in Conns, Steady(c), DispatchRecv(c)
  PROVE  Steady(c)'
<1>1. /\ strand[c] # <<>> /\ Head(strand[c]).do = "DispatchRecv" /\ Pop(c)
      /\ UNCHANGED <<dial, socket, error, seen, pendingSends>>
  BY DEF DispatchRecv, Runs, appVars
<1>2. \/ pendingRecvs[c] # <<>> /\ UNCHANGED io
      \/ pendingRecvs[c] = <<>> /\ \E r : StartRecv(c, r)
  BY DEF DispatchRecv, ShouldStart
<1>3. /\ Waits(c, "HandleRecv")' => Waits(c, "HandleRecv") \/ socket[c] \in {"connecting", "connected"}
      /\ pendingRecvs[c] = <<>> => io'[c]["HandleRecv"] # {}
      /\ pendingRecvs[c] # <<>> => io'[c]["HandleRecv"] = io[c]["HandleRecv"]
      /\ \A k \in Completions \ {"HandleRecv"} : io'[c][k] = io[c][k]
  BY <1>2, StartRecvEffect DEF Waits
<1>4. ~error[c] => OnItsWay(c, "HandleRecv")'
  BY <1>1, <1>3, PopOnItsWay DEF Steady, Supplied, OnItsWay
<1>5. ~error[c] /\ pendingSends'[c] # <<>> => OnItsWay(c, "HandleSend")'
  BY <1>1, <1>3, PopOnItsWay, Names DEF Steady, Supplied
<1>6. Watched(c) => Watched(c)'
  BY <1>1, <1>3, PopWatched, Names
<1>7. Waits(c, "HandleSend")' => Waits(c, "HandleSend")
  BY <1>3, Names DEF Waits
<1>8. io'[c]["HandleConnect"] = io[c]["HandleConnect"]
  BY <1>3, Names
<1> QED BY <1>1, <1>3, <1>4, <1>5, <1>6, <1>7, <1>8, ServeKeeps

\* The wait is over, and the second handler takes the place of the first.
LEMMA DispatchTimerKeeps ==
  ASSUME IInv, NEW c \in Conns, Steady(c), DispatchTimer(c)
  PROVE  Steady(c)'
<1> DEFINE j == NewJob("HandleTimer", 0, Arg(c).ec)
           jobs == Tail(strand[c])
<1>1. /\ strand[c] # <<>> /\ Head(strand[c]).do = "DispatchTimer"
      /\ UNCHANGED <<dial, socket, error, seen, io, pendingSends, pendingRecvs>>
  BY DEF DispatchTimer, Runs, appVars, queueVars
<1>2. strand[c] \in Seq(Job) /\ jobs \in Seq(Job) /\ strand'[c] = Append(jobs, j)
  BY <1>1, StateOf DEF DispatchTimer, IInv, Typed
<1>3. \A k : Queued(c, k) # {} => Queued(c, k)' # {} \/ k = "DispatchTimer"
  <2> SUFFICES ASSUME NEW k, k # "DispatchTimer", NEW i \in DOMAIN strand[c], strand[c][i].do = k
               PROVE  Queued(c, k)' # {}
    BY DEF Queued, Positions
  <2>1. i # 1 /\ i \in 1 .. Len(strand[c])
    BY <1>1, <1>2
  <2>2. i - 1 \in 1 .. Len(jobs) /\ jobs[i - 1] = strand[c][i]
    BY <1>1, <1>2, <2>1
  <2> HIDE DEF jobs, j
  <2>3. i - 1 \in DOMAIN strand'[c] /\ strand'[c][i - 1].do = k
    BY <1>2, <2>2
  <2> QED BY <2>3 DEF Queued, Positions
<1>4. Queued(c, "HandleTimer")' # {}
  <2>1. j.do = "HandleTimer"
    BY DEF NewJob
  <2> HIDE DEF jobs, j
  <2>2. Len(jobs) + 1 \in DOMAIN strand'[c] /\ strand'[c][Len(jobs) + 1].do = "HandleTimer"
    BY <1>2, <2>1
  <2> QED BY <2>2 DEF Queued, Positions
<1>5. \A k \in {"HandleSend", "HandleRecv"} :
        (OnItsWay(c, k) => OnItsWay(c, k)') /\ (Waits(c, k)' => Waits(c, k))
  BY <1>1, <1>3 DEF OnItsWay, Waits
<1>6. Watched(c)'
  BY <1>4 DEF Watched
<1> QED BY <1>1, <1>5, <1>6, ServeKeeps DEF Steady, Supplied

LEMMA HandleTimerKeeps ==
  ASSUME IInv, NEW c \in Conns, Steady(c), HandleTimer(c)
  PROVE  Steady(c)'
<1>1. /\ strand[c] # <<>> /\ Head(strand[c]).do = "HandleTimer" /\ Pop(c)
      /\ UNCHANGED <<dial, asked, pendingSends, pendingRecvs>>
  BY DEF HandleTimer, Runs, appVars, queueVars
<1>2. CASE StartError(c)
  BY <1>1, <1>2, ErrorKeeps DEF SameApp, Steady, Begun
<1>3. CASE StartTimer(c) /\ UNCHANGED <<error, socket, seen>>
  <2>1. /\ NewOp(0, "pending") \in io'[c]["DispatchTimer"]
        /\ \A k \in Completions \ {"DispatchTimer"} : io'[c][k] = io[c][k]
    BY <1>3, Names DEF StartTimer, IInv, Typed
  <2>2. Watched(c)'
    BY <2>1 DEF Watched, OnItsWay
  <2>3. \A k \in {"HandleSend", "HandleRecv"} :
          (OnItsWay(c, k) => OnItsWay(c, k)') /\ (Waits(c, k)' => Waits(c, k))
    BY <1>1, <2>1, PopOnItsWay, Names DEF Waits
  <2> QED BY <1>1, <1>3, <2>1, <2>2, <2>3, ServeKeeps, Names DEF Steady, Supplied
<1> QED BY <1>2, <1>3 DEF HandleTimer

LEMMA HandleConnectKeeps ==
  ASSUME IInv, NEW c \in Conns, Steady(c), HandleConnect(c)
  PROVE  Steady(c)'
<1>1. /\ strand[c] # <<>> /\ Head(strand[c]).do = "HandleConnect" /\ Pop(c)
      /\ UNCHANGED <<dial, asked, pendingSends, pendingRecvs>>
  BY DEF HandleConnect, Runs, appVars, queueVars
<1>2. CASE StartError(c)
  BY <1>1, <1>2, ErrorKeeps DEF SameApp, Steady, Begun
<1>3. CASE /\ UNCHANGED <<error, socket, io>>
           /\ seen' = seen \/ seen' = [seen EXCEPT ![c].connect = @ + 1]
  <2>1. seen'[c].error = seen[c].error
    BY <1>3 DEF IInv, Typed, Reports
  <2>2. Watched(c) => Watched(c)'
    BY <1>1, <1>3, PopWatched
  <2>3. \A k \in {"HandleSend", "HandleRecv"} :
          (OnItsWay(c, k) => OnItsWay(c, k)') /\ (Waits(c, k)' => Waits(c, k))
    BY <1>1, <1>3, PopOnItsWay DEF Waits
  <2> QED BY <1>1, <1>3, <2>1, <2>2, <2>3, ServeKeeps DEF Steady, Supplied
<1> QED BY <1>2, <1>3 DEF HandleConnect

LEMMA HandleSendKeeps ==
  ASSUME IInv, NEW c \in Conns, Steady(c), HandleSend(c)
  PROVE  Steady(c)'
<1>1. /\ strand[c] # <<>> /\ Head(strand[c]).do = "HandleSend" /\ Pop(c)
      /\ UNCHANGED <<dial, asked, pendingRecvs>>
  BY DEF HandleSend, Runs, appVars
<1>2. CASE StartError(c)
  BY <1>1, <1>2, ErrorKeeps DEF SameApp, Steady, Begun
<1>3. CASE /\ UNCHANGED <<error, socket>> /\ seen' = [seen EXCEPT ![c].send = Append(@, Arg(c).id)]
           /\ \E queue : pendingSends' = [pendingSends EXCEPT ![c] = queue] /\ StartSend(c, queue)
  <2>1. seen'[c].error = seen[c].error
    BY <1>3 DEF IInv, Typed, Reports
  <2>2. PICK queue : pendingSends' = [pendingSends EXCEPT ![c] = queue] /\ StartSend(c, queue)
    BY <1>3
  <2>3. pendingSends'[c] = queue
    BY <2>2 DEF IInv, Typed
  <2>4. /\ Waits(c, "HandleSend")' => Waits(c, "HandleSend") \/ socket[c] \in {"connecting", "connected"}
        /\ pendingSends'[c] # <<>> => OnItsWay(c, "HandleSend")'
        /\ \A k \in Completions \ {"HandleSend"} : io'[c][k] = io[c][k]
    BY <2>2, <2>3, StartSendEffect DEF OnItsWay
  <2>5. Watched(c) => Watched(c)'
    BY <1>1, <2>4, PopWatched, Names
  <2>6. (OnItsWay(c, "HandleRecv") => OnItsWay(c, "HandleRecv")')
        /\ (Waits(c, "HandleRecv")' => Waits(c, "HandleRecv"))
    BY <1>1, <2>4, PopOnItsWay, Names DEF Waits
  <2> QED BY <1>1, <1>3, <2>1, <2>4, <2>5, <2>6, ServeKeeps, Names DEF Steady, Supplied
<1> QED BY <1>2, <1>3 DEF HandleSend

LEMMA HandleRecvKeeps ==
  ASSUME IInv, NEW c \in Conns, Steady(c), HandleRecv(c)
  PROVE  Steady(c)'
<1>1. /\ strand[c] # <<>> /\ Head(strand[c]).do = "HandleRecv" /\ Pop(c)
      /\ UNCHANGED <<dial, asked, pendingSends>>
  BY DEF HandleRecv, Runs, appVars
<1>2. CASE StartError(c)
  BY <1>1, <1>2, ErrorKeeps DEF SameApp, Steady, Begun
<1>3. CASE /\ UNCHANGED <<error, socket>>
           /\ \E data : seen' = [seen EXCEPT ![c].recv = Append(@, data)]
           /\ \E queue : /\ pendingRecvs' = [pendingRecvs EXCEPT ![c] = queue]
                         /\ \/ queue = <<>> /\ UNCHANGED io
                            \/ \E r : StartRecv(c, r)
  <2>1. seen'[c].error = seen[c].error
    BY <1>3 DEF IInv, Typed, Reports
  <2>2. PICK queue : /\ pendingRecvs' = [pendingRecvs EXCEPT ![c] = queue]
                     /\ \/ queue = <<>> /\ UNCHANGED io
                        \/ \E r : StartRecv(c, r)
    BY <1>3
  <2>3. pendingRecvs'[c] = queue
    BY <2>2 DEF IInv, Typed
  <2>4. /\ Waits(c, "HandleRecv")' => Waits(c, "HandleRecv") \/ socket[c] \in {"connecting", "connected"}
        /\ pendingRecvs'[c] # <<>> => OnItsWay(c, "HandleRecv")'
        /\ \A k \in Completions \ {"HandleRecv"} : io'[c][k] = io[c][k]
    BY <2>2, <2>3, StartRecvEffect DEF OnItsWay, Waits
  <2>5. Watched(c) => Watched(c)'
    BY <1>1, <2>4, PopWatched, Names
  <2>6. (OnItsWay(c, "HandleSend") => OnItsWay(c, "HandleSend")')
        /\ (Waits(c, "HandleSend")' => Waits(c, "HandleSend"))
    BY <1>1, <2>4, PopOnItsWay, Names DEF Waits
  <2> QED BY <1>1, <1>3, <2>1, <2>4, <2>5, <2>6, ServeKeeps, Names DEF Steady, Supplied
<1> QED BY <1>2, <1>3 DEF HandleRecv

LEMMA HandlersKeep ==
  ASSUME IInv, NEW c \in Conns, Steady(c), Handler(c)
  PROVE  Steady(c)'
BY DispatchSendKeeps, DispatchRecvKeeps, DispatchTimerKeeps, HandleConnectKeeps, HandleSendKeeps,
   HandleRecvKeeps, HandleTimerKeeps DEF Handler

(***************************************************************************)
(* The theorems.                                                           *)
(***************************************************************************)
LEMMA EInit == Init => EInv
<1> SUFFICES ASSUME Init, NEW c \in Conns
             PROVE  Steady(c)
  BY InitInv DEF EInv
<1>1. /\ strand[c] = <<>> /\ socket[c] = "closed" /\ dial[c] = "idle" /\ ~error[c] /\ seen[c].error = 0
      /\ pendingSends[c] = <<>> /\ pendingRecvs[c] = <<>> /\ \A k \in Completions : io[c][k] = {}
  BY DEF Init, ConnectionInit
<1> QED BY <1>1, Names DEF Steady, Ended, Begun, NotDialled, Supplied, Guarded, Waits

LEMMA ENext == EInv /\ [Next]_vars => EInv'
<1> SUFFICES ASSUME EInv, [Next]_vars
             PROVE  EInv'
  OBVIOUS
<1>1. IInv /\ IInv' /\ \A d \in Conns : Steady(d)
  BY NextInv DEF EInv
<1>2. CASE HiveStop \/ HiveStopped \/ UNCHANGED vars
  <2>1. \A d \in Conns : Stays(d)
    BY <1>2 DEF HiveStop, HiveStopped, vars, queueVars, Stays, SameQueues, SameEnd, SameApp
  <2> QED BY <1>1, <2>1, StaysKept DEF EInv
<1>3. ASSUME NEW c \in Conns, Moves(c)
      PROVE  EInv'
  <2>1. Steady(c)'
    BY <1>1, <1>3, DiallingKeeps, CallsKeep, HandlersKeep, NetworkKeeps, DeliverKeeps DEF Moves
  <2>2. \A d \in Conns \ {c} : Steady(d)'
    BY <1>1, <1>3, OthersStay, StaysKept
  <2> QED BY <1>1, <2>1, <2>2 DEF EInv
<1> QED BY <1>2, <1>3 DEF Next, Moves

LEMMA EInvariance == Spec => []EInv
BY EInit, ENext, PTL DEF Spec

\* Every part of the state keeps its type, the ids in flight name existing
\* requests, and OnError is called once at most, whatever the application, the
\* network and the Hive do.
THEOREM TypeCorrect == Spec => []TypeOK
<1>1. EInv => TypeOK
  BY InvImplies DEF EInv, Steady, Ended, TypeOK
<1> QED BY <1>1, EInvariance, PTL

\* No request is stranded: what DispatchSend, DispatchRecv, HandleSend and
\* HandleRecv decide from the queues they find always leaves an operation, or
\* its handler, on the way for a queue that is not empty.
THEOREM NothingStranded == Spec => []NoStall
<1>1. EInv => NoStall
  BY DEF EInv, Steady, Supplied, OnItsWay, NoStall
<1> QED BY <1>1, EInvariance, PTL

\* From async_connect on the first error closes the socket for good, unless
\* the connection had failed before: only Connect and the end of a connect that
\* waits open a socket, and nothing waits on a closed one.  OnError is called
\* once, and no later Send, Recv or completion leaves an operation that waits
\* for the peer.
THEOREM ErrorCloses == Spec => ErrorIsFinal
<1>1. ASSUME EInv, [Next]_vars, NEW c \in Conns, error'[c], ~NotDialled(c), ~Zombie(c)
      PROVE  /\ socket'[c] = "closed" /\ seen'[c].error = 1
             /\ \A k \in OwnOps \ {"DispatchTimer"} : \A o \in io'[c][k] : o.ec # "pending"
  <2>1. IInv /\ Steady(c) /\ Ended(c)'
    BY <1>1, ENext DEF EInv, Steady
  <2>2. socket'[c] = "closed"
    <3>1. CASE HiveStop \/ HiveStopped \/ UNCHANGED vars
      BY <1>1, <3>1 DEF HiveStop, HiveStopped, vars, Zombie
    <3>2. ASSUME NEW d \in Conns \ {c}, Moves(d)
          PROVE  socket'[c] = "closed"
      BY <1>1, <2>1, <3>2, OthersStay DEF Stays, SameEnd, Zombie
    <3>3. CASE Dialling(c) \/ Calls(c)
      BY <1>1, <3>3 DEF Dialling, Bind, Connect, ConnectTimer, ConnectThrows, Calls, Send, Recv,
         Disconnect, Zombie
    <3>4. CASE Network(c)
      <4>1. error[c] /\ socket[c] = "closed" /\ ~ConnectDone(c)
        BY <1>1, <2>1, <3>4 DEF Network, ConnectDone, WriteSome, WriteFails, ReadSome, ReadFails,
           Expire, PeerSends, PeerCloses, ioOnly, Zombie, Steady, Ended, Waits
      <4> QED BY <3>4, <4>1 DEF Network, WriteSome, WriteFails, ReadSome, ReadFails,
           Expire, PeerSends, PeerCloses
    <3>5. ASSUME NEW k \in Completions, Deliver(c, k)
          PROVE  socket'[c] = "closed"
      BY <1>1, <3>5 DEF Deliver, Zombie
    <3>6. CASE DispatchSend(c) \/ DispatchRecv(c) \/ DispatchTimer(c)
      BY <1>1, <3>6 DEF DispatchSend, DispatchRecv, DispatchTimer, Zombie
    <3>7. CASE HandleConnect(c) \/ HandleSend(c) \/ HandleRecv(c) \/ HandleTimer(c)
      <4>1. CASE StartError(c)
        BY <1>1, <2>1, <4>1, StartErrorEffect DEF StartError, Zombie
      <4>2. CASE UNCHANGED <<error, socket>>
        BY <1>1, <4>2 DEF Zombie
      <4> QED BY <3>7, <4>1, <4>2 DEF HandleConnect, HandleSend, HandleRecv, HandleTimer
    <3> QED BY <1>1, <3>1, <3>2, <3>3, <3>4, <3>5, <3>6, <3>7 DEF Next, Moves, Handler
  <2> QED BY <1>1, <2>1, <2>2 DEF Ended, Waits, OwnOps
<1>2. EInv /\ [Next]_vars =>
        [\A c \in Conns : error'[c] /\ ~NotDialled(c) /\ ~Zombie(c) =>
           /\ socket'[c] = "closed" /\ seen'[c].error = 1
           /\ \A k \in OwnOps \ {"DispatchTimer"} : \A o \in io'[c][k] : o.ec # "pending"]_vars
  BY <1>1
<1> QED BY <1>2, EInvariance, PTL DEF Spec, ErrorIsFinal

\* A healthy connection that waits for the network has its timer, or one of
\* the timer's two handlers, on the way, so it looks at m_shutdown again.
THEOREM TimerWatches == Spec => []Watchdog
<1>1. EInv => Watchdog
  <2> SUFFICES ASSUME EInv, NEW c \in Conns, ~error[c], dial[c] # "dialling",
                      NEW k \in OwnOps, Waits(c, k)
               PROVE  /\ Watched(c)
    BY DEF Watchdog, Waits, Watched, OnItsWay
  <2>1. Steady(c) /\ dial[c] \in DialState /\ k \in Completions
    BY DEF EInv, IInv, Typed, Completions
  <2>2. dial[c] # "accepting"
    BY <2>1 DEF Steady, Begun
  <2>3. NotDialled(c) => k = "DispatchTimer"
    BY <2>1 DEF Steady, Begun, Waits, OwnOps
  <2> QED BY <2>1, <2>2, <2>3 DEF Steady, Guarded, NotDialled, DialState, Watched, OnItsWay, Waits
<1> QED BY <1>1, EInvariance, PTL

\* After OnError the connection is silent: a completion that succeeded before
\* the error and is still queued behind it finds m_error_state set.
THEOREM SilenceAfterError == Spec => SilentAfterError
<1>1. ASSUME EInv, [Next]_vars, NEW c \in Conns, seen[c].error > 0
      PROVE  seen'[c] = seen[c]
  <2>1. error[c] /\ IInv
    BY <1>1 DEF EInv, Steady, Ended
  <2>2. CASE HiveStop \/ HiveStopped \/ UNCHANGED vars
    BY <2>2 DEF HiveStop, HiveStopped, vars
  <2>3. ASSUME NEW d \in Conns \ {c}, Moves(d)
        PROVE  seen'[c] = seen[c]
    BY <2>1, <2>3, OthersStay DEF Stays, SameEnd
  <2>4. CASE Dialling(c) \/ Calls(c)
    BY <2>4 DEF Dialling, Bind, Connect, ConnectTimer, ConnectThrows, Calls, Send, Recv, Disconnect
  <2>5. CASE Network(c)
    BY <2>5 DEF Network, ConnectDone, WriteSome, WriteFails, ReadSome, ReadFails, Expire, PeerSends,
       PeerCloses, ioOnly
  <2>6. ASSUME NEW k \in Completions, Deliver(c, k)
        PROVE  seen'[c] = seen[c]
    BY <2>6 DEF Deliver
  <2>7. CASE DispatchSend(c) \/ DispatchRecv(c) \/ DispatchTimer(c)
    BY <2>7 DEF DispatchSend, DispatchRecv, DispatchTimer
  <2>8. CASE HandleConnect(c) \/ HandleSend(c) \/ HandleRecv(c) \/ HandleTimer(c)
    <3>1. StartError(c)
      BY <2>1, <2>8 DEF HandleConnect, HandleSend, HandleRecv, HandleTimer, Fails
    <3> QED BY <2>1, <3>1 DEF StartError
  <2> QED BY <1>1, <2>2, <2>3, <2>4, <2>5, <2>6, <2>7, <2>8 DEF Next, Moves, Handler
<1>2. EInv /\ [Next]_vars => [\A c \in Conns : seen[c].error > 0 => seen'[c] = seen[c]]_vars
  BY <1>1
<1> QED BY <1>2, EInvariance, PTL DEF Spec, SilentAfterError

\* Hive::Stop abandons no connection: when the io_service has run out of work
\* every connection that was dialled has its error, which StartError reports.
THEOREM StopTellsAll == Spec => StopReportsAll
<1>1. ASSUME EInv, [Next]_vars, hive' # hive, hive' = "stopped", NEW c \in Conns, dial[c] = "dialled"
      PROVE  error[c]
  <2>1. HiveStopped
    <3>1. ~HiveStop /\ ~(UNCHANGED vars)
      BY <1>1 DEF HiveStop, vars
    <3>2. ASSUME NEW d \in Conns, Dialling(d) \/ Calls(d) \/ Network(d) \/ \E k \in Completions : Deliver(d, k)
          PROVE  hive' = hive
      BY <3>2 DEF Dialling, Bind, Connect, ConnectTimer, ConnectThrows, Calls, Send, Recv, Disconnect,
         Network, ConnectDone, WriteSome, WriteFails, ReadSome, ReadFails, Expire, PeerSends,
         PeerCloses, ioOnly, Deliver
    <3>3. ASSUME NEW d \in Conns, Handler(d)
          PROVE  hive' = hive \/ hive' = "crashed"
      BY <3>3 DEF Handler, DispatchSend, DispatchRecv, DispatchTimer, HandleConnect, HandleSend,
         HandleRecv, HandleTimer
    <3> QED BY <1>1, <3>1, <3>2, <3>3 DEF Next
  <2>2. strand[c] = <<>> /\ io[c]["DispatchTimer"] = {}
    BY <2>1, Names DEF HiveStopped, NoWork
  <2>3. ~Watched(c)
    BY <2>2 DEF Watched, OnItsWay, Queued, Positions
  <2> QED BY <1>1, <2>3 DEF EInv, Steady, Guarded
<1>2. EInv /\ [Next]_vars => [hive' = "stopped" => \A c \in Conns : dial[c] = "dialled" => error[c]]_hive
  BY <1>1
<1> QED BY <1>2, EInvariance, PTL DEF Spec, StopReportsAll
==============================================================================
