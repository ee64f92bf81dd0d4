-------------------------- MODULE ConnectionProofs --------------------------
(***************************************************************************)
(* Proofs about Connection, for any set of connections, any number of      *)
(* buffers, any requests to receive and any stream.                        *)
(***************************************************************************)
EXTENDS Connection, TLAPS, SequenceTheorems

(***************************************************************************)
(* The queue of a strand under the two things that are done to it.         *)
(***************************************************************************)
\* A handler posted under another name does not count among those named k.
LEMMA PositionsAppend ==
  ASSUME NEW jobs \in Seq(Job), NEW j \in Job, NEW k
  PROVE  /\ j.do # k => Positions(Append(jobs, j), k) = Positions(jobs, k)
         /\ j.do = k => Positions(Append(jobs, j), k) = Positions(jobs, k) \union {Len(jobs) + 1}
         /\ \A i \in DOMAIN jobs : Append(jobs, j)[i] = jobs[i]
         /\ Append(jobs, j)[Len(jobs) + 1] = j
BY DEF Positions

\* Taking the oldest handler moves the others forward by one.
LEMMA PositionsTail ==
  ASSUME NEW jobs \in Seq(Job), jobs # <<>>, NEW k
  PROVE  /\ Positions(Tail(jobs), k) = {i \in 1 .. Len(jobs) - 1 : i + 1 \in Positions(jobs, k)}
         /\ \A i \in DOMAIN Tail(jobs) : i + 1 \in DOMAIN jobs /\ Tail(jobs)[i] = jobs[i + 1]
         /\ Head(jobs) = jobs[1] /\ 1 \in DOMAIN jobs
         /\ Head(jobs).do = k => 1 \in Positions(jobs, k)
BY DEF Positions

(***************************************************************************)
(* What keeps an operation serving the front of its queue.                 *)
(***************************************************************************)
\* Another handler is posted.
LEMMA FrontPost ==
  ASSUME NEW jobs \in Seq(Job), NEW j \in Job, NEW k, j.do # k, NEW ops, NEW queue,
         FrontOnly(ops, jobs, k, queue)
  PROVE  FrontOnly(ops, Append(jobs, j), k, queue)
BY PositionsAppend DEF FrontOnly, Positions

\* Another handler runs.
LEMMA FrontPop ==
  ASSUME NEW jobs \in Seq(Job), jobs # <<>>, NEW k, NEW ops, NEW queue,
         FrontOnly(ops, jobs, k, queue)
  PROVE  FrontOnly(ops, Tail(jobs), k, queue)
<1>1. \A i \in Positions(Tail(jobs), k) :
        i + 1 \in Positions(jobs, k) /\ Tail(jobs)[i] = jobs[i + 1] /\ i \in Nat
  BY PositionsTail DEF Positions
<1>2. Positions(jobs, k) = {} => Positions(Tail(jobs), k) = {} BY <1>1
<1>3. \A i, j \in Positions(Tail(jobs), k) : i = j
  <2>. SUFFICES ASSUME NEW i \in Positions(Tail(jobs), k), NEW j \in Positions(Tail(jobs), k)
                PROVE  i = j
    OBVIOUS
  <2>1. i + 1 = j + 1 BY <1>1 DEF FrontOnly
  <2>. QED BY <2>1, <1>1
<1>. QED BY <1>1, <1>2, <1>3 DEF FrontOnly

\* The operation completes and its handler is queued.
LEMMA FrontDeliver ==
  ASSUME NEW jobs \in Seq(Job), NEW ops, NEW queue, NEW j \in Job, j.op \in ops,
         FrontOnly(ops, jobs, j.do, queue)
  PROVE  FrontOnly(ops \ {j.op}, Append(jobs, j), j.do, queue)
<1>1. Positions(jobs, j.do) = {} BY DEF FrontOnly
<1>2. /\ Positions(Append(jobs, j), j.do) = Positions(jobs, j.do) \union {Len(jobs) + 1}
      /\ Append(jobs, j)[Len(jobs) + 1] = j
  BY PositionsAppend
<1>3. ops \ {j.op} = {} BY DEF FrontOnly
<1>4. queue # <<>> /\ j.op.id = Head(queue) BY DEF FrontOnly
<1>. QED BY <1>1, <1>2, <1>3, <1>4 DEF FrontOnly

\* Its handler runs: nothing is outstanding, and it is about the front.
LEMMA FrontTake ==
  ASSUME NEW jobs \in Seq(Job), jobs # <<>>, NEW k, Head(jobs).do = k, NEW ops, NEW queue,
         FrontOnly(ops, jobs, k, queue)
  PROVE  ops = {} /\ Positions(Tail(jobs), k) = {} /\ queue # <<>>
<1>1. 1 \in Positions(jobs, k) /\ Head(jobs) = jobs[1] BY PositionsTail
<1>2. \A i \in Positions(jobs, k) : i = 1 BY <1>1 DEF FrontOnly
<1>3. Positions(Tail(jobs), k) = {} BY <1>2, PositionsTail
<1>. QED BY <1>1, <1>3 DEF FrontOnly

\* The queue grows.
LEMMA FrontQueue ==
  ASSUME NEW S, NEW queue \in Seq(S), NEW x \in S, NEW jobs, NEW k, NEW ops,
         FrontOnly(ops, jobs, k, queue)
  PROVE  FrontOnly(ops, jobs, k, Append(queue, x))
<1>1. Append(queue, x) # <<>> /\ (queue # <<>> => Head(Append(queue, x)) = Head(queue))
  BY AppendProperties, EmptySeq
<1>. QED BY <1>1 DEF FrontOnly

\* With an empty queue nothing is outstanding.
LEMMA FrontIdle ==
  ASSUME NEW jobs, NEW k, NEW ops, FrontOnly(ops, jobs, k, <<>>)
  PROVE  ops = {} /\ Positions(jobs, k) = {}
BY DEF FrontOnly

\* The operation makes progress, or is aborted.
LEMMA FrontUpdate ==
  ASSUME NEW jobs, NEW k, NEW ops, NEW queue, NEW o \in ops, NEW n, n.id = o.id,
         FrontOnly(ops, jobs, k, queue)
  PROVE  FrontOnly((ops \ {o}) \union {n}, jobs, k, queue)
BY DEF FrontOnly

LEMMA CancelKeeps ==
  ASSUME NEW ops \in SUBSET Op
  PROVE  /\ Cancel(ops) \in SUBSET Op
         /\ \A p \in Cancel(ops) : \E o \in ops : p.id = o.id /\ p.done = o.done
         /\ (\A o, p \in ops : o = p) => \A o, p \in Cancel(ops) : o = p
         /\ ops = {} => Cancel(ops) = {}
BY DEF Cancel, Op, Status

LEMMA FrontCancel ==
  ASSUME NEW ops \in SUBSET Op, NEW jobs, NEW k, NEW queue,
         FrontOnly(ops, jobs, k, queue)
  PROVE  FrontOnly(Cancel(ops), jobs, k, queue)
BY CancelKeeps DEF FrontOnly

\* Nothing is outstanding: that suits any queue, and one may be started.
LEMMA FrontStart ==
  ASSUME NEW jobs, NEW k, Positions(jobs, k) = {}, NEW queue
  PROVE  /\ FrontOnly({}, jobs, k, queue)
         /\ \A n : queue # <<>> /\ n.id = Head(queue) => FrontOnly({n}, jobs, k, queue)
BY DEF FrontOnly

(***************************************************************************)
(* The same for the ids and for the receive buffer.                        *)
(***************************************************************************)
LEMMA IdsPost ==
  ASSUME NEW ops, NEW jobs \in Seq(Job), NEW j \in Job, IdsIn(ops, jobs),
         j.do = "DispatchSend" => j.op.id \in 1 .. MaxSends,
         j.do = "DispatchRecv" => j.op.id \in 1 .. Len(Asks)
  PROVE  IdsIn(ops, Append(jobs, j))
BY DEF IdsIn

LEMMA IdsPop ==
  ASSUME NEW ops, NEW jobs \in Seq(Job), jobs # <<>>, IdsIn(ops, jobs)
  PROVE  IdsIn(ops, Tail(jobs))
BY PositionsTail DEF IdsIn

LEMMA FitsPost ==
  ASSUME NEW ops, NEW jobs \in Seq(Job), NEW j \in Job, NEW buffer, Fits(ops, jobs, buffer),
         j.do # "HandleRecv"
  PROVE  Fits(ops, Append(jobs, j), buffer)
BY PositionsAppend DEF Fits, Positions

LEMMA FitsPop ==
  ASSUME NEW ops, NEW jobs \in Seq(Job), jobs # <<>>, NEW buffer, Fits(ops, jobs, buffer)
  PROVE  Fits(ops, Tail(jobs), buffer)
<1>1. \A i \in Positions(Tail(jobs), "HandleRecv") :
        i + 1 \in Positions(jobs, "HandleRecv") /\ Tail(jobs)[i] = jobs[i + 1]
  BY PositionsTail DEF Positions
<1>. QED BY <1>1 DEF Fits

LEMMA FitsDeliver ==
  ASSUME NEW ops, NEW jobs \in Seq(Job), NEW j \in Job, NEW buffer, Fits(ops, jobs, buffer),
         j.do = "HandleRecv", j.op \in ops
  PROVE  Fits(ops \ {j.op}, Append(jobs, j), buffer)
BY PositionsAppend DEF Fits, Positions

LEMMA FitsCancel ==
  ASSUME NEW ops \in SUBSET Op, NEW jobs, NEW buffer, Fits(ops, jobs, buffer)
  PROVE  Fits(Cancel(ops), jobs, buffer)
BY CancelKeeps DEF Fits

LEMMA FitsStart ==
  ASSUME NEW jobs, Positions(jobs, "HandleRecv") = {}, NEW buffer
  PROVE  /\ Fits({}, jobs, buffer)
         /\ \A n \in Op : n.done = 0 /\ Len(buffer) = ReadSize(n.id) /\ ReadSize(n.id) \in Nat
              => Fits({n}, jobs, buffer)
BY DEF Fits, Op

LEMMA IdsCancel ==
  ASSUME NEW ops \in SUBSET Op, NEW jobs, IdsIn(ops, jobs)
  PROVE  IdsIn(Cancel(ops), jobs)
BY CancelKeeps DEF IdsIn

LEMMA ReadSizeNat ==
  ASSUME NEW r \in 1 .. Len(Asks)
  PROVE  ReadSize(r) \in Nat \ {0}
BY ConnectionAssumption DEF ReadSize

(***************************************************************************)
(* The inductive invariant.  What the three safety properties say of one   *)
(* connection depends on six of its parts only, so a step is shown to keep *)
(* them for the connection that moves and not to touch the others.         *)
(***************************************************************************)
Healthy(c) ==
  /\ FrontOnly(io[c]["HandleSend"], strand[c], "HandleSend", pendingSends[c])
  /\ FrontOnly(io[c]["HandleRecv"], strand[c], "HandleRecv", pendingRecvs[c])
  /\ Fits(io[c]["HandleRecv"], strand[c], recvBuffer[c])
  /\ IdsIn(io[c]["HandleRecv"], strand[c])

Untouched(c) ==
  /\ strand'[c] = strand[c]
  /\ io'[c]["HandleSend"] = io[c]["HandleSend"]
  /\ io'[c]["HandleRecv"] = io[c]["HandleRecv"]
  /\ pendingSends'[c] = pendingSends[c] /\ pendingRecvs'[c] = pendingRecvs[c]
  /\ recvBuffer'[c] = recvBuffer[c]

IInv == Typed /\ \A c \in Conns : Healthy(c)

LEMMA InvImplies == IInv => Typed /\ IdsOK /\ OneSend /\ OneRecv /\ BufferFits
BY DEF IInv, Healthy, IdsOK, OneSend, OneRecv, BufferFits

LEMMA Frame ==
  ASSUME NEW c \in Conns
  PROVE  Healthy(c) /\ Untouched(c) => Healthy(c)'
BY DEF Healthy, Untouched

LEMMA OneMoves ==
  ASSUME NEW c \in Conns
  PROVE  /\ \A d \in Conns : Healthy(d)
         /\ \A d \in Conns \ {c} : Untouched(d)
         /\ Healthy(c)'
         => \A d \in Conns : Healthy(d)'
BY Frame

(***************************************************************************)
(* Steps that do not touch those parts.                                    *)
(***************************************************************************)
LEMMA HiveSteps == IInv /\ (HiveStop \/ HiveStopped) => IInv'
<1>. SUFFICES ASSUME IInv, HiveStop \/ HiveStopped PROVE IInv' OBVIOUS
<1>1. Typed' BY DEF IInv, Typed, HiveStop, HiveStopped, HiveState, queueVars
<1>2. \A d \in Conns : Untouched(d) BY DEF Untouched, HiveStop, HiveStopped, queueVars
<1>. QED BY <1>1, <1>2, Frame DEF IInv

\* Types of the parts, and what replacing the operations of one handler does.
LEMMA StateOf ==
  ASSUME NEW c \in Conns
  PROVE  IInv =>
           /\ Healthy(c)
           /\ strand[c] \in Seq(Job)
           /\ pendingSends[c] \in Seq(1 .. MaxSends)
           /\ pendingRecvs[c] \in Seq(1 .. Len(Asks))
           /\ recvBuffer[c] \in Seq(Nat)
           /\ \A k \in Completions : io[c][k] \in SUBSET Op
BY DEF IInv, Typed

\* The operations with handler k are s from now on.
Replaces(c, k, s) == io' = [io EXCEPT ![c][k] = s]

LEMMA IoStep ==
  ASSUME NEW c \in Conns, NEW k \in Completions, NEW s \in SUBSET Op
  PROVE  IInv /\ Replaces(c, k, s) =>
           /\ io' \in [Conns -> [Completions -> SUBSET Op]]
           /\ io'[c][k] = s
           /\ \A l \in Completions \ {k} : io'[c][l] = io[c][l]
           /\ \A d \in Conns \ {c} : io'[d] = io[d]
<1>1. IInv => io \in [Conns -> [Completions -> SUBSET Op]] BY DEF IInv, Typed
<1>. QED BY <1>1 DEF Replaces

LEMMA StrandStep ==
  ASSUME NEW c \in Conns, NEW jobs \in Seq(Job)
  PROVE  IInv /\ strand' = [strand EXCEPT ![c] = jobs] =>
           /\ strand' \in [Conns -> Seq(Job)]
           /\ strand'[c] = jobs
           /\ \A d \in Conns \ {c} : strand'[d] = strand[d]
<1>1. IInv => strand \in [Conns -> Seq(Job)] BY DEF IInv, Typed
<1>. QED BY <1>1

LEMMA Names ==
  /\ "HandleConnect" \in Completions /\ "HandleSend" \in Completions
  /\ "HandleRecv" \in Completions /\ "DispatchTimer" \in Completions
BY DEF Completions, OwnOps

LEMMA NewOps ==
  ASSUME NEW id \in Nat
  PROVE  \A ec \in Status : NewOp(id, ec) \in Op
BY DEF NewOp, Op, Status

\* The records keep their types when a field moves.
LEMMA PeerFields ==
  ASSUME NEW p \in PeerState
  PROVE  /\ [p EXCEPT !.sent = @ + 1] \in PeerState
         /\ \A n \in Nat : [p EXCEPT !.taken = @ + n] \in PeerState
         /\ \A n \in Nat : [p EXCEPT !.wire = Append(@, n)] \in PeerState
<1>1. p.sent + 1 \in Nat BY DEF PeerState
<1>2. \A n \in Nat : p.taken + n \in Nat BY DEF PeerState
<1>3. \A n \in Nat : Append(p.wire, n) \in Seq(Nat) BY DEF PeerState
<1>. QED BY <1>1, <1>2, <1>3 DEF PeerState

LEMMA ReportFields ==
  ASSUME NEW r \in Reports
  PROVE  /\ [r EXCEPT !.connect = @ + 1] \in Reports
         /\ [r EXCEPT !.error = @ + 1] \in Reports
         /\ \A n \in Nat : [r EXCEPT !.send = Append(@, n)] \in Reports
         /\ \A x \in Seq(Nat) : [r EXCEPT !.recv = Append(@, x)] \in Reports
<1>1. r.connect + 1 \in Nat /\ r.error + 1 \in Nat BY DEF Reports
<1>2. \A n \in Nat : Append(r.send, n) \in Seq(Nat) BY DEF Reports
<1>3. \A x \in Seq(Nat) : Append(r.recv, x) \in Seq(Seq(Nat)) BY DEF Reports
<1>. QED BY <1>1, <1>2, <1>3 DEF Reports

LEMMA CountFields ==
  ASSUME NEW a \in Counts
  PROVE  /\ a.send < MaxSends => [a EXCEPT !.send = @ + 1] \in Counts
         /\ a.recv < Len(Asks) => [a EXCEPT !.recv = @ + 1] \in Counts
         /\ a.off < MaxOffs => [a EXCEPT !.off = @ + 1] \in Counts
<1>1. MaxSends \in Nat /\ Len(Asks) \in Nat /\ MaxOffs \in Nat BY ConnectionAssumption
<1>2. /\ a.send < MaxSends => a.send + 1 \in 0 .. MaxSends
      /\ a.recv < Len(Asks) => a.recv + 1 \in 0 .. Len(Asks)
      /\ a.off < MaxOffs => a.off + 1 \in 0 .. MaxOffs
  BY <1>1 DEF Counts
<1>. QED BY <1>2 DEF Counts

LEMMA InitInv == Init => IInv
<1>. SUFFICES ASSUME Init PROVE IInv OBVIOUS
<1>1. Typed
  BY ConnectionAssumption DEF Init, ConnectionInit, Typed, HiveState, SocketState, DialState,
     PeerState, Reports, Counts
<1>2. ASSUME NEW c \in Conns PROVE Healthy(c)
  <2>1. /\ strand[c] = <<>> /\ io[c]["HandleSend"] = {} /\ io[c]["HandleRecv"] = {}
        /\ pendingSends[c] = <<>> /\ pendingRecvs[c] = <<>>
    BY DEF Init, ConnectionInit, Completions, OwnOps
  <2>2. \A k : Positions(strand[c], k) = {} BY <2>1 DEF Positions
  <2>. QED BY <2>1, <2>2 DEF Healthy, FrontOnly, Fits, IdsIn
<1>. QED BY <1>1, <1>2 DEF IInv

\* Dialling.
LEMMA DiallingSteps ==
  ASSUME NEW c \in Conns
  PROVE  IInv /\ Dialling(c) => IInv'
<1>. SUFFICES ASSUME IInv, Dialling(c) PROVE IInv' OBVIOUS
<1>1. CASE Bind(c)
  <2>1. Typed' BY <1>1 DEF IInv, Typed, Bind, SocketState, queueVars
  <2>2. \A d \in Conns : Untouched(d) BY <1>1 DEF Untouched, Bind, queueVars
  <2>. QED BY <2>1, <2>2, Frame DEF IInv
<1>2. CASE Connect(c)
  <2> DEFINE ops == io[c]["HandleConnect"] \union {NewOp(0, "pending")}
  <2>1. ops \in SUBSET Op BY StateOf, Names, NewOps DEF Status
  <2>2. Replaces(c, "HandleConnect", ops) BY <1>2 DEF Connect, Replaces
  <2>. HIDE DEF ops
  <2>3. /\ io' \in [Conns -> [Completions -> SUBSET Op]]
        /\ \A l \in Completions \ {"HandleConnect"} : io'[c][l] = io[c][l]
        /\ \A d \in Conns \ {c} : io'[d] = io[d]
    BY <2>1, <2>2, IoStep, Names
  <2>4. Typed' BY <1>2, <2>3 DEF IInv, Typed, Connect, SocketState, DialState, queueVars
  <2>5. \A d \in Conns : Untouched(d) BY <1>2, <2>3, Names DEF Untouched, Connect, queueVars
  <2>. QED BY <2>4, <2>5, Frame DEF IInv
<1>3. CASE ConnectTimer(c)
  <2> DEFINE ops == Cancel(io[c]["DispatchTimer"]) \union {NewOp(0, "pending")}
  <2>1. ops \in SUBSET Op BY StateOf, Names, NewOps, CancelKeeps DEF Status
  <2>2. Replaces(c, "DispatchTimer", ops) BY <1>3 DEF Replaces, ConnectTimer, StartTimer
  <2>. HIDE DEF ops
  <2>3. /\ io' \in [Conns -> [Completions -> SUBSET Op]]
        /\ \A l \in Completions \ {"DispatchTimer"} : io'[c][l] = io[c][l]
        /\ \A d \in Conns \ {c} : io'[d] = io[d]
    BY <2>1, <2>2, IoStep, Names
  <2>4. Typed' BY <1>3, <2>3 DEF IInv, Typed, ConnectTimer, DialState, queueVars
  <2>5. \A d \in Conns : Untouched(d) BY <1>3, <2>3, Names DEF Untouched, ConnectTimer, queueVars
  <2>. QED BY <2>4, <2>5, Frame DEF IInv
<1>4. CASE ConnectThrows(c)
  <2>1. Typed' BY <1>4 DEF IInv, Typed, ConnectThrows, DialState, queueVars
  <2>2. \A d \in Conns : Untouched(d) BY <1>4 DEF Untouched, ConnectThrows, queueVars
  <2>. QED BY <2>1, <2>2, Frame DEF IInv
<1>. QED BY <1>1, <1>2, <1>3, <1>4 DEF Dialling

\* The connect completes, the timer expires, the peer acts.
LEMMA QuietSteps ==
  ASSUME NEW c \in Conns
  PROVE  IInv /\ (ConnectDone(c) \/ Expire(c) \/ PeerSends(c) \/ PeerCloses(c)) => IInv'
<1>. SUFFICES ASSUME IInv, ConnectDone(c) \/ Expire(c) \/ PeerSends(c) \/ PeerCloses(c)
              PROVE  IInv'
  OBVIOUS
<1>0. peer \in [Conns -> PeerState]
  BY DEF IInv, Typed
<1>1. ASSUME NEW k \in {"HandleConnect", "DispatchTimer"}, NEW o \in io[c][k], NEW ec \in Status,
             Update(c, k, o, [o EXCEPT !.ec = ec])
      PROVE  /\ io' \in [Conns -> [Completions -> SUBSET Op]]
             /\ \A l \in Completions \ {k} : io'[c][l] = io[c][l]
             /\ \A d \in Conns \ {c} : io'[d] = io[d]
  <2> DEFINE n == [o EXCEPT !.ec = ec]
  <2>1. k \in Completions BY Names
  <2>2. o \in Op BY <2>1, StateOf
  <2>3. n \in Op BY <2>2 DEF Op
  <2>4. (io[c][k] \ {o}) \union {n} \in SUBSET Op BY <2>1, <2>3, StateOf
  <2>5. Replaces(c, k, (io[c][k] \ {o}) \union {n}) BY <1>1 DEF Update, Replaces
  <2>. HIDE DEF n
  <2>. QED BY <2>1, <2>4, <2>5, IoStep
<1>2. CASE ConnectDone(c)
  <2>1. PICK o \in io[c]["HandleConnect"], ec \in {"ok", "error"} :
          /\ Update(c, "HandleConnect", o, [o EXCEPT !.ec = ec])
          /\ socket' = [socket EXCEPT ![c] = IF ec = "ok" THEN "connected" ELSE "open"]
    BY <1>2 DEF ConnectDone
  <2>2. /\ io' \in [Conns -> [Completions -> SUBSET Op]]
        /\ \A l \in Completions \ {"HandleConnect"} : io'[c][l] = io[c][l]
        /\ \A d \in Conns \ {c} : io'[d] = io[d]
    BY <1>1, <2>1 DEF Status
  <2>3. socket' \in [Conns -> SocketState] BY <2>1 DEF IInv, Typed, SocketState
  <2>4. Typed' BY <1>2, <2>2, <2>3 DEF IInv, Typed, ConnectDone, ioOnly
  <2>5. \A d \in Conns : Untouched(d) BY <1>2, <2>2, Names DEF Untouched, ConnectDone, ioOnly
  <2>. QED BY <2>4, <2>5, Frame DEF IInv
<1>3. CASE Expire(c)
  <2>1. PICK o \in io[c]["DispatchTimer"] : Update(c, "DispatchTimer", o, [o EXCEPT !.ec = "ok"])
    BY <1>3 DEF Expire
  <2>2. /\ io' \in [Conns -> [Completions -> SUBSET Op]]
        /\ \A l \in Completions \ {"DispatchTimer"} : io'[c][l] = io[c][l]
        /\ \A d \in Conns \ {c} : io'[d] = io[d]
    BY <1>1, <2>1 DEF Status
  <2>3. Typed' BY <1>3, <2>2 DEF IInv, Typed, Expire, ioOnly
  <2>4. \A d \in Conns : Untouched(d) BY <1>3, <2>2, Names DEF Untouched, Expire, ioOnly
  <2>. QED BY <2>3, <2>4, Frame DEF IInv
<1>4. CASE PeerSends(c)
  <2> DEFINE p == [peer[c] EXCEPT !.sent = @ + 1]
  <2>1. peer' = [peer EXCEPT ![c] = p] BY <1>4 DEF PeerSends
  <2>2. p \in PeerState BY <1>0, PeerFields
  <2>. HIDE DEF p
  <2>3. Typed' BY <1>0, <1>4, <2>1, <2>2 DEF IInv, Typed, PeerSends, ioOnly
  <2>4. \A d \in Conns : Untouched(d) BY <1>4 DEF Untouched, PeerSends, ioOnly
  <2>. QED BY <2>3, <2>4, Frame DEF IInv
<1>5. CASE PeerCloses(c)
  <2>1. PICK s \in PeerEnds : peer' = [peer EXCEPT ![c].state = s] BY <1>5 DEF PeerCloses
  <2>2. peer' \in [Conns -> PeerState]
    BY <1>0, <2>1, ConnectionAssumption DEF PeerState
  <2>3. Typed' BY <1>5, <2>2 DEF IInv, Typed, PeerCloses, ioOnly
  <2>4. \A d \in Conns : Untouched(d) BY <1>5 DEF Untouched, PeerCloses, ioOnly
  <2>. QED BY <2>3, <2>4, Frame DEF IInv
<1>. QED BY <1>2, <1>3, <1>4, <1>5

(***************************************************************************)
(* Calls from the application: a handler is posted.                        *)
(***************************************************************************)
LEMMA PostStep ==
  ASSUME NEW c \in Conns, NEW j \in Job,
         j.do \notin {"HandleSend", "HandleRecv"},
         j.do = "DispatchSend" => j.op.id \in 1 .. MaxSends,
         j.do = "DispatchRecv" => j.op.id \in 1 .. Len(Asks)
  PROVE  IInv /\ Post(c, j) /\ UNCHANGED <<io, queueVars>> =>
           /\ strand' \in [Conns -> Seq(Job)]
           /\ \A d \in Conns : Healthy(d)'
<1>. SUFFICES ASSUME IInv, Post(c, j), UNCHANGED <<io, queueVars>>
              PROVE  /\ strand' \in [Conns -> Seq(Job)]
                     /\ \A d \in Conns : Healthy(d)'
  OBVIOUS
<1>1. strand[c] \in Seq(Job) /\ Healthy(c) BY StateOf
<1>2. Append(strand[c], j) \in Seq(Job) BY <1>1
<1>3. strand' = [strand EXCEPT ![c] = Append(strand[c], j)] BY DEF Post
<1>4. /\ strand' \in [Conns -> Seq(Job)]
      /\ strand'[c] = Append(strand[c], j)
      /\ \A d \in Conns \ {c} : strand'[d] = strand[d]
  BY <1>2, <1>3, StrandStep
<1>5. Healthy(c)' BY <1>1, <1>4, FrontPost, FitsPost, IdsPost DEF Healthy, queueVars
<1>6. \A d \in Conns \ {c} : Untouched(d) BY <1>4 DEF Untouched, queueVars
<1>. QED BY <1>4, <1>5, <1>6, OneMoves DEF IInv

LEMMA CallSteps ==
  ASSUME NEW c \in Conns
  PROVE  IInv /\ Calls(c) => IInv'
<1>. SUFFICES ASSUME IInv, Calls(c) PROVE IInv' OBVIOUS
<1>0. asked \in [Conns -> Counts] /\ asked[c] \in Counts BY DEF IInv, Typed
<1>1. CASE Send(c)
  <2> DEFINE j == NewJob("DispatchSend", asked[c].send + 1, "ok")
             a == [asked[c] EXCEPT !.send = @ + 1]
  <2>1. asked[c].send + 1 \in 1 .. MaxSends
    BY <1>0, <1>1, ConnectionAssumption DEF Send, Counts
  <2>2. /\ j \in Job /\ j.do = "DispatchSend" /\ j.op.id \in 1 .. MaxSends
    BY <2>1 DEF NewJob, NewOp, Job, Posts, Status
  <2>3. a \in Counts BY <1>0, <1>1, CountFields DEF Send
  <2>4. asked' = [asked EXCEPT ![c] = a] /\ Post(c, j) BY <1>1 DEF Send
  <2>. HIDE DEF j, a
  <2>5. strand' \in [Conns -> Seq(Job)] /\ \A d \in Conns : Healthy(d)'
    BY <1>1, <2>2, <2>4, PostStep DEF Send
  <2>6. Typed' BY <1>0, <1>1, <2>3, <2>4, <2>5 DEF IInv, Typed, Send, queueVars
  <2>. QED BY <2>5, <2>6 DEF IInv
<1>2. CASE Recv(c)
  <2> DEFINE j == NewJob("DispatchRecv", asked[c].recv + 1, "ok")
             a == [asked[c] EXCEPT !.recv = @ + 1]
  <2>1. asked[c].recv + 1 \in 1 .. Len(Asks)
    BY <1>0, <1>2, ConnectionAssumption DEF Recv, Counts
  <2>2. /\ j \in Job /\ j.do = "DispatchRecv" /\ j.op.id \in 1 .. Len(Asks)
    BY <2>1 DEF NewJob, NewOp, Job, Posts, Status
  <2>3. a \in Counts BY <1>0, <1>2, CountFields DEF Recv
  <2>4. asked' = [asked EXCEPT ![c] = a] /\ Post(c, j) BY <1>2 DEF Recv
  <2>. HIDE DEF j, a
  <2>5. strand' \in [Conns -> Seq(Job)] /\ \A d \in Conns : Healthy(d)'
    BY <1>2, <2>2, <2>4, PostStep DEF Recv
  <2>6. Typed' BY <1>0, <1>2, <2>3, <2>4, <2>5 DEF IInv, Typed, Recv, queueVars
  <2>. QED BY <2>5, <2>6 DEF IInv
<1>3. CASE Disconnect(c)
  <2> DEFINE j == NewJob("HandleTimer", 0, "error")
             a == [asked[c] EXCEPT !.off = @ + 1]
  <2>2. j \in Job /\ j.do = "HandleTimer" BY DEF NewJob, NewOp, Job, Posts, Status
  <2>3. a \in Counts BY <1>0, <1>3, CountFields DEF Disconnect
  <2>4. asked' = [asked EXCEPT ![c] = a] /\ Post(c, j) BY <1>3 DEF Disconnect
  <2>. HIDE DEF j, a
  <2>5. strand' \in [Conns -> Seq(Job)] /\ \A d \in Conns : Healthy(d)'
    BY <1>3, <2>2, <2>4, PostStep DEF Disconnect
  <2>6. Typed' BY <1>0, <1>3, <2>3, <2>4, <2>5 DEF IInv, Typed, Disconnect, queueVars
  <2>. QED BY <2>5, <2>6 DEF IInv
<1>. QED BY <1>1, <1>2, <1>3 DEF Calls

(***************************************************************************)
(* Handlers that leave both queues alone.                                  *)
(***************************************************************************)
\* The operations of the two data handlers are as before, or aborted.
Kept(c) ==
  /\ io'[c]["HandleSend"] \in {io[c]["HandleSend"], Cancel(io[c]["HandleSend"])}
  /\ io'[c]["HandleRecv"] \in {io[c]["HandleRecv"], Cancel(io[c]["HandleRecv"])}
  /\ \A d \in Conns \ {c} : io'[d] = io[d]

LEMMA PopStep ==
  ASSUME NEW c \in Conns
  PROVE  IInv /\ strand[c] # <<>> /\ Pop(c) =>
           /\ strand' \in [Conns -> Seq(Job)]
           /\ strand'[c] = Tail(strand[c])
           /\ \A d \in Conns \ {c} : strand'[d] = strand[d]
           /\ Head(strand[c]) \in Job
<1>. SUFFICES ASSUME IInv, strand[c] # <<>>, Pop(c)
              PROVE  /\ strand' \in [Conns -> Seq(Job)]
                     /\ strand'[c] = Tail(strand[c])
                     /\ \A d \in Conns \ {c} : strand'[d] = strand[d]
                     /\ Head(strand[c]) \in Job
  OBVIOUS
<1>1. Tail(strand[c]) \in Seq(Job) /\ Head(strand[c]) \in Job BY StateOf
<1>. QED BY <1>1, StrandStep DEF Pop

LEMMA QuietPop ==
  ASSUME NEW c \in Conns
  PROVE  IInv /\ strand[c] # <<>> /\ Pop(c) /\ Kept(c) /\ UNCHANGED queueVars =>
           \A d \in Conns : Healthy(d)'
<1>. SUFFICES ASSUME IInv, strand[c] # <<>>, Pop(c), Kept(c), UNCHANGED queueVars
              PROVE  \A d \in Conns : Healthy(d)'
  OBVIOUS
<1> DEFINE jobs == Tail(strand[c])
<1>1. strand[c] \in Seq(Job) /\ Healthy(c) BY StateOf
<1>2. strand'[c] = jobs /\ \A d \in Conns \ {c} : strand'[d] = strand[d] BY PopStep
<1>3. io[c]["HandleSend"] \in SUBSET Op /\ io[c]["HandleRecv"] \in SUBSET Op BY StateOf, Names
<1>4. /\ FrontOnly(io[c]["HandleSend"], jobs, "HandleSend", pendingSends[c])
      /\ FrontOnly(io[c]["HandleRecv"], jobs, "HandleRecv", pendingRecvs[c])
      /\ Fits(io[c]["HandleRecv"], jobs, recvBuffer[c])
      /\ IdsIn(io[c]["HandleRecv"], jobs)
  BY <1>1, FrontPop, FitsPop, IdsPop DEF Healthy
<1>. HIDE DEF jobs
<1>5. /\ FrontOnly(Cancel(io[c]["HandleSend"]), jobs, "HandleSend", pendingSends[c])
      /\ FrontOnly(Cancel(io[c]["HandleRecv"]), jobs, "HandleRecv", pendingRecvs[c])
      /\ Fits(Cancel(io[c]["HandleRecv"]), jobs, recvBuffer[c])
      /\ IdsIn(Cancel(io[c]["HandleRecv"]), jobs)
  BY <1>3, <1>4, FrontCancel, FitsCancel, IdsCancel
<1>6. Healthy(c)' BY <1>2, <1>4, <1>5 DEF Healthy, Kept, queueVars
<1>7. \A d \in Conns \ {c} : Untouched(d) BY <1>2 DEF Untouched, Kept, queueVars
<1>. QED BY <1>6, <1>7, OneMoves DEF IInv

\* StartError cancels and reports; the queues stay as they are.
LEMMA StartErrorStep ==
  ASSUME NEW c \in Conns
  PROVE  IInv /\ StartError(c) =>
           /\ Kept(c)
           /\ io' \in [Conns -> [Completions -> SUBSET Op]]
           /\ error' \in [Conns -> BOOLEAN] /\ socket' \in [Conns -> SocketState]
           /\ seen' \in [Conns -> Reports]
<1>. SUFFICES ASSUME IInv, StartError(c)
              PROVE  /\ Kept(c)
                     /\ io' \in [Conns -> [Completions -> SUBSET Op]]
                     /\ error' \in [Conns -> BOOLEAN] /\ socket' \in [Conns -> SocketState]
                     /\ seen' \in [Conns -> Reports]
  OBVIOUS
<1>0. /\ io \in [Conns -> [Completions -> SUBSET Op]]
      /\ error \in [Conns -> BOOLEAN] /\ socket \in [Conns -> SocketState]
      /\ seen \in [Conns -> Reports]
  BY DEF IInv, Typed
<1>1. CASE error[c] BY <1>0, <1>1 DEF StartError, Kept
<1>2. CASE ~error[c]
  <2> DEFINE ops == [k \in Completions |-> IF k \in OwnOps THEN Cancel(io[c][k]) ELSE io[c][k]]
             r == [seen[c] EXCEPT !.error = @ + 1]
  <2>1. /\ error' = [error EXCEPT ![c] = TRUE] /\ socket' = [socket EXCEPT ![c] = "closed"]
        /\ io' = [io EXCEPT ![c] = ops] /\ seen' = [seen EXCEPT ![c] = r]
    BY <1>2 DEF StartError
  <2>2. r \in Reports BY <1>0, ReportFields
  <2>3. \A k \in Completions : io[c][k] \in SUBSET Op /\ Cancel(io[c][k]) \in SUBSET Op
    BY <1>0, CancelKeeps
  <2>4. ops \in [Completions -> SUBSET Op] BY <2>3
  <2>5. ops["HandleSend"] = Cancel(io[c]["HandleSend"]) /\ ops["HandleRecv"] = Cancel(io[c]["HandleRecv"])
    BY DEF Completions, OwnOps
  <2>. HIDE DEF ops, r
  <2>6. /\ io' \in [Conns -> [Completions -> SUBSET Op]] /\ io'[c] = ops
        /\ \A d \in Conns \ {c} : io'[d] = io[d]
    BY <1>0, <2>1, <2>4
  <2>7. seen' \in [Conns -> Reports] BY <1>0, <2>1, <2>2
  <2>8. error' \in [Conns -> BOOLEAN] BY <1>0, <2>1
  <2>9. socket' \in [Conns -> SocketState] BY <1>0, <2>1 DEF SocketState
  <2>. QED BY <2>5, <2>6, <2>7, <2>8, <2>9 DEF Kept
<1>. QED BY <1>1, <1>2

\* The timer's handlers and the connect's.
LEMMA DispatchTimerStep ==
  ASSUME NEW c \in Conns
  PROVE  IInv /\ DispatchTimer(c) => IInv'
<1>. SUFFICES ASSUME IInv, DispatchTimer(c) PROVE IInv' OBVIOUS
<1> DEFINE j == NewJob("HandleTimer", 0, Arg(c).ec)
           jobs == Append(Tail(strand[c]), j)
<1>1. strand[c] \in Seq(Job) /\ Healthy(c) /\ strand[c] # <<>>
  BY StateOf DEF DispatchTimer, Runs
<1>2. Head(strand[c]) \in Job /\ Tail(strand[c]) \in Seq(Job) BY <1>1
<1>3. j \in Job /\ j.do = "HandleTimer" BY <1>2 DEF NewJob, NewOp, Job, Posts, Arg
<1>4. strand' = [strand EXCEPT ![c] = jobs] BY DEF DispatchTimer
<1>5. Healthy(c) /\ UNCHANGED <<io, queueVars>> BY <1>1 DEF DispatchTimer, queueVars
<1>. HIDE DEF j
<1>6. jobs \in Seq(Job) BY <1>2, <1>3
<1>7. /\ FrontOnly(io[c]["HandleSend"], jobs, "HandleSend", pendingSends[c])
      /\ FrontOnly(io[c]["HandleRecv"], jobs, "HandleRecv", pendingRecvs[c])
      /\ Fits(io[c]["HandleRecv"], jobs, recvBuffer[c])
      /\ IdsIn(io[c]["HandleRecv"], jobs)
  BY <1>1, <1>2, <1>3, FrontPop, FitsPop, IdsPop, FrontPost, FitsPost, IdsPost DEF Healthy
<1>. HIDE DEF jobs
<1>8. /\ strand' \in [Conns -> Seq(Job)] /\ strand'[c] = jobs
      /\ \A d \in Conns \ {c} : strand'[d] = strand[d]
  BY <1>4, <1>6, StrandStep
<1>9. Healthy(c)' BY <1>5, <1>7, <1>8 DEF Healthy, queueVars
<1>10. \A d \in Conns \ {c} : Untouched(d) BY <1>5, <1>8 DEF Untouched, queueVars
<1>11. Typed' BY <1>8 DEF IInv, Typed, DispatchTimer, queueVars, netVars, appVars
<1>. QED BY <1>9, <1>10, <1>11, OneMoves DEF IInv

LEMMA HandleTimerStep ==
  ASSUME NEW c \in Conns
  PROVE  IInv /\ HandleTimer(c) => IInv'
<1>. SUFFICES ASSUME IInv, HandleTimer(c) PROVE IInv' OBVIOUS
<1>1. strand[c] # <<>> /\ Pop(c) /\ UNCHANGED queueVars BY DEF HandleTimer, Runs
<1>2. strand' \in [Conns -> Seq(Job)] BY <1>1, PopStep
<1>3. CASE StartError(c)
  <2>1. /\ Kept(c)
        /\ io' \in [Conns -> [Completions -> SUBSET Op]]
        /\ error' \in [Conns -> BOOLEAN] /\ socket' \in [Conns -> SocketState]
        /\ seen' \in [Conns -> Reports]
    BY <1>3, StartErrorStep
  <2>2. Typed' BY <1>2, <2>1 DEF IInv, Typed, HandleTimer, queueVars, netVars, appVars
  <2>. QED BY <1>1, <2>1, <2>2, QuietPop DEF IInv
<1>4. CASE StartTimer(c) /\ UNCHANGED <<error, socket, seen>>
  <2> DEFINE ops == Cancel(io[c]["DispatchTimer"]) \union {NewOp(0, "pending")}
  <2>1. ops \in SUBSET Op BY StateOf, Names, NewOps, CancelKeeps DEF Status
  <2>2. Replaces(c, "DispatchTimer", ops) BY <1>4 DEF StartTimer, Replaces
  <2>. HIDE DEF ops
  <2>3. /\ io' \in [Conns -> [Completions -> SUBSET Op]]
        /\ \A l \in Completions \ {"DispatchTimer"} : io'[c][l] = io[c][l]
        /\ \A d \in Conns \ {c} : io'[d] = io[d]
    BY <2>1, <2>2, IoStep, Names
  <2>4. Kept(c) BY <2>3, Names DEF Kept
  <2>5. Typed' BY <1>2, <1>4, <2>3 DEF IInv, Typed, HandleTimer, queueVars, netVars, appVars
  <2>. QED BY <1>1, <2>4, <2>5, QuietPop DEF IInv
<1>. QED BY <1>3, <1>4 DEF HandleTimer

LEMMA HandleConnectStep ==
  ASSUME NEW c \in Conns
  PROVE  IInv /\ HandleConnect(c) => IInv'
<1>. SUFFICES ASSUME IInv, HandleConnect(c) PROVE IInv' OBVIOUS
<1>1. strand[c] # <<>> /\ Pop(c) /\ UNCHANGED queueVars BY DEF HandleConnect, Runs
<1>2. strand' \in [Conns -> Seq(Job)] BY <1>1, PopStep
<1>3. CASE StartError(c) /\ UNCHANGED hive
  <2>1. /\ Kept(c)
        /\ io' \in [Conns -> [Completions -> SUBSET Op]]
        /\ error' \in [Conns -> BOOLEAN] /\ socket' \in [Conns -> SocketState]
        /\ seen' \in [Conns -> Reports]
    BY <1>3, StartErrorStep
  <2>2. Typed' BY <1>2, <1>3, <2>1 DEF IInv, Typed, HandleConnect, queueVars, netVars, appVars
  <2>. QED BY <1>1, <2>1, <2>2, QuietPop DEF IInv
<1>4. CASE /\ seen' = [seen EXCEPT ![c].connect = @ + 1]
           /\ UNCHANGED <<hive, error, socket, io>>
  <2> DEFINE r == [seen[c] EXCEPT !.connect = @ + 1]
  <2>1. seen[c] \in Reports /\ seen \in [Conns -> Reports] BY DEF IInv, Typed
  <2>2. r \in Reports BY <2>1, ReportFields
  <2>3. seen' = [seen EXCEPT ![c] = r] BY <1>4
  <2>. HIDE DEF r
  <2>4. Typed' BY <1>2, <1>4, <2>1, <2>2, <2>3 DEF IInv, Typed, HandleConnect, queueVars, netVars, appVars
  <2>5. Kept(c) BY <1>4 DEF Kept
  <2>. QED BY <1>1, <2>4, <2>5, QuietPop DEF IInv
<1>5. CASE hive' = "crashed" /\ UNCHANGED <<error, socket, io, seen>>
  <2>1. Typed' BY <1>2, <1>5 DEF IInv, Typed, HiveState, HandleConnect, queueVars, netVars, appVars
  <2>2. Kept(c) BY <1>5 DEF Kept
  <2>. QED BY <1>1, <2>1, <2>2, QuietPop DEF IInv
<1>. QED BY <1>3, <1>4, <1>5 DEF HandleConnect

(***************************************************************************)
(* The handlers that start an operation.                                   *)
(***************************************************************************)
\* async_write is started for the front of a queue that had nothing outstanding.
LEMMA StartSendStep ==
  ASSUME NEW c \in Conns, NEW queue \in Seq(1 .. MaxSends), NEW jobs,
         Positions(jobs, "HandleSend") = {}
  PROVE  IInv /\ io[c]["HandleSend"] = {} /\ StartSend(c, queue) =>
           /\ io' \in [Conns -> [Completions -> SUBSET Op]]
           /\ FrontOnly(io'[c]["HandleSend"], jobs, "HandleSend", queue)
           /\ io'[c]["HandleRecv"] = io[c]["HandleRecv"]
           /\ \A d \in Conns \ {c} : io'[d] = io[d]
<1>. SUFFICES ASSUME IInv, io[c]["HandleSend"] = {}, StartSend(c, queue)
              PROVE  /\ io' \in [Conns -> [Completions -> SUBSET Op]]
                     /\ FrontOnly(io'[c]["HandleSend"], jobs, "HandleSend", queue)
                     /\ io'[c]["HandleRecv"] = io[c]["HandleRecv"]
                     /\ \A d \in Conns \ {c} : io'[d] = io[d]
  OBVIOUS
<1>1. CASE queue = <<>>
  <2>1. UNCHANGED io BY <1>1 DEF StartSend
  <2>2. io' \in [Conns -> [Completions -> SUBSET Op]] BY <2>1 DEF IInv, Typed
  <2>3. FrontOnly(io'[c]["HandleSend"], jobs, "HandleSend", queue) BY <2>1, FrontStart
  <2>. QED BY <2>1, <2>2, <2>3
<1>2. CASE queue # <<>>
  <2> DEFINE n == NewOp(Head(queue), InitialStatus(c))
  <2>1. Head(queue) \in Nat BY <1>2, ConnectionAssumption
  <2>2. n \in Op /\ n.id = Head(queue) BY <2>1, NewOps DEF InitialStatus, Status, NewOp
  <2>3. Replaces(c, "HandleSend", {n})
    BY <1>2 DEF StartSend, StartWrite, Replaces
  <2>. HIDE DEF n
  <2>4. {n} \in SUBSET Op BY <2>2
  <2>5. FrontOnly({n}, jobs, "HandleSend", queue) BY <1>2, <2>2, FrontStart
  <2>. QED BY <2>3, <2>4, <2>5, IoStep, Names
<1>. QED BY <1>1, <1>2

\* async_read is started, its buffer having been given its size.
LEMMA StartRecvStep ==
  ASSUME NEW c \in Conns, NEW queue \in Seq(1 .. Len(Asks)), queue # <<>>, NEW jobs,
         Positions(jobs, "HandleRecv") = {}, IdsIn({}, jobs)
  PROVE  IInv /\ io[c]["HandleRecv"] = {} /\ StartRecv(c, Head(queue)) =>
           /\ io' \in [Conns -> [Completions -> SUBSET Op]]
           /\ recvBuffer' \in [Conns -> Seq(Nat)]
           /\ FrontOnly(io'[c]["HandleRecv"], jobs, "HandleRecv", queue)
           /\ Fits(io'[c]["HandleRecv"], jobs, recvBuffer'[c])
           /\ IdsIn(io'[c]["HandleRecv"], jobs)
           /\ io'[c]["HandleSend"] = io[c]["HandleSend"]
           /\ \A d \in Conns \ {c} : io'[d] = io[d] /\ recvBuffer'[d] = recvBuffer[d]
<1>. SUFFICES ASSUME IInv, io[c]["HandleRecv"] = {}, StartRecv(c, Head(queue))
              PROVE  /\ io' \in [Conns -> [Completions -> SUBSET Op]]
                     /\ recvBuffer' \in [Conns -> Seq(Nat)]
                     /\ FrontOnly(io'[c]["HandleRecv"], jobs, "HandleRecv", queue)
                     /\ Fits(io'[c]["HandleRecv"], jobs, recvBuffer'[c])
                     /\ IdsIn(io'[c]["HandleRecv"], jobs)
                     /\ io'[c]["HandleSend"] = io[c]["HandleSend"]
                     /\ \A d \in Conns \ {c} : io'[d] = io[d] /\ recvBuffer'[d] = recvBuffer[d]
  OBVIOUS
<1> DEFINE r == Head(queue)
           n == NewOp(r, InitialStatus(c))
           buffer == [i \in 1 .. ReadSize(r) |-> 0]
<1>1. r \in 1 .. Len(Asks) /\ r \in Nat BY ConnectionAssumption
<1>2. n \in Op /\ n.id = r /\ n.done = 0 BY <1>1, NewOps DEF InitialStatus, Status, NewOp
<1>3. ReadSize(r) \in Nat BY <1>1, ReadSizeNat
<1>4. Replaces(c, "HandleRecv", {n}) /\ recvBuffer' = [recvBuffer EXCEPT ![c] = buffer]
  BY DEF StartRecv, Replaces
<1>. HIDE DEF n
<1>5. {n} \in SUBSET Op BY <1>2
<1>6. FrontOnly({n}, jobs, "HandleRecv", queue) BY <1>2, FrontStart
<1>7. buffer \in Seq(Nat) /\ Len(buffer) = ReadSize(r) BY <1>3
<1>. HIDE DEF buffer
<1>8. Fits({n}, jobs, buffer) BY <1>2, <1>3, <1>7, FitsStart
<1>9. IdsIn({n}, jobs) BY <1>1, <1>2 DEF IdsIn
<1>10. /\ recvBuffer' \in [Conns -> Seq(Nat)] /\ recvBuffer'[c] = buffer
       /\ \A d \in Conns \ {c} : recvBuffer'[d] = recvBuffer[d]
  BY <1>4, <1>7 DEF IInv, Typed
<1>11. /\ io' \in [Conns -> [Completions -> SUBSET Op]]
       /\ io'[c]["HandleRecv"] = {n}
       /\ io'[c]["HandleSend"] = io[c]["HandleSend"]
       /\ \A d \in Conns \ {c} : io'[d] = io[d]
  BY <1>4, <1>5, IoStep, Names
<1>. QED BY <1>6, <1>8, <1>9, <1>10, <1>11

\* The front of the queue is found, and what remains is a queue.
LEMMA EraseType ==
  ASSUME NEW S, NEW queue \in Seq(S), queue # <<>>
  PROVE  Erase(queue, Head(queue)) \in Seq(S)
<1> DEFINE at == CHOOSE i \in 1 .. Len(queue) : queue[i] = Head(queue)
<1>1. Len(queue) \in Nat /\ Len(queue) >= 1 /\ queue[1] = Head(queue) OBVIOUS
<1>2. at \in 1 .. Len(queue) BY <1>1
<1>3. Erase(queue, Head(queue)) =
        [i \in 1 .. Len(queue) - 1 |-> IF i < at THEN queue[i] ELSE queue[i + 1]]
  BY DEF Erase
<1>. HIDE DEF at
<1>4. \A i \in 1 .. Len(queue) - 1 : (IF i < at THEN queue[i] ELSE queue[i + 1]) \in S
  BY <1>1, <1>2
<1>5. Len(queue) - 1 \in Nat BY <1>1
<1>. QED BY <1>3, <1>4, <1>5

LEMMA DispatchSendStep ==
  ASSUME NEW c \in Conns
  PROVE  IInv /\ DispatchSend(c) => IInv'
<1>. SUFFICES ASSUME IInv, DispatchSend(c) PROVE IInv' OBVIOUS
<1> DEFINE jobs == Tail(strand[c])
           queue == Append(pendingSends[c], Arg(c).id)
<1>1. /\ strand[c] \in Seq(Job) /\ Healthy(c) /\ strand[c] # <<>>
      /\ Head(strand[c]).do = "DispatchSend" /\ Pop(c)
      /\ pendingSends[c] \in Seq(1 .. MaxSends)
  BY StateOf DEF DispatchSend, Runs
<1>2. /\ strand' \in [Conns -> Seq(Job)] /\ strand'[c] = jobs
      /\ \A d \in Conns \ {c} : strand'[d] = strand[d]
  BY <1>1, PopStep
<1>3. Arg(c).id \in 1 .. MaxSends BY <1>1, PositionsTail DEF Arg, Healthy, IdsIn
<1>4. queue \in Seq(1 .. MaxSends) BY <1>1, <1>3
<1>5. /\ FrontOnly(io[c]["HandleSend"], jobs, "HandleSend", pendingSends[c])
      /\ FrontOnly(io[c]["HandleRecv"], jobs, "HandleRecv", pendingRecvs[c])
      /\ Fits(io[c]["HandleRecv"], jobs, recvBuffer[c])
      /\ IdsIn(io[c]["HandleRecv"], jobs)
  BY <1>1, FrontPop, FitsPop, IdsPop DEF Healthy
<1>6. pendingSends' = [pendingSends EXCEPT ![c] = queue] /\ UNCHANGED <<pendingRecvs, recvBuffer>>
  BY DEF DispatchSend
<1>7. FrontOnly(io[c]["HandleSend"], jobs, "HandleSend", queue)
  BY <1>1, <1>3, <1>5, FrontQueue
<1>. HIDE DEF jobs, queue
<1>8. /\ pendingSends' \in [Conns -> Seq(1 .. MaxSends)] /\ pendingSends'[c] = queue
      /\ \A d \in Conns \ {c} : pendingSends'[d] = pendingSends[d]
  BY <1>4, <1>6 DEF IInv, Typed
<1>9. /\ io' \in [Conns -> [Completions -> SUBSET Op]]
      /\ FrontOnly(io'[c]["HandleSend"], jobs, "HandleSend", queue)
      /\ io'[c]["HandleRecv"] = io[c]["HandleRecv"]
      /\ \A d \in Conns \ {c} : io'[d] = io[d]
  <2>1. CASE ShouldStart(pendingSends[c]) /\ StartSend(c, queue)
    <3>1. io[c]["HandleSend"] = {} /\ Positions(jobs, "HandleSend") = {}
      BY <1>5, <2>1, FrontIdle DEF ShouldStart
    <3>. QED BY <1>4, <2>1, <3>1, StartSendStep
  <2>2. CASE UNCHANGED io
    <3>1. io' \in [Conns -> [Completions -> SUBSET Op]] BY <2>2 DEF IInv, Typed
    <3>. QED BY <1>7, <2>2, <3>1
  <2>. QED BY <2>1, <2>2 DEF DispatchSend, queue
<1>10. Healthy(c)' BY <1>2, <1>5, <1>6, <1>8, <1>9 DEF Healthy
<1>11. \A d \in Conns \ {c} : Untouched(d) BY <1>2, <1>6, <1>8, <1>9 DEF Untouched
<1>12. Typed' BY <1>2, <1>6, <1>8, <1>9 DEF IInv, Typed, DispatchSend, netVars, appVars
<1>. QED BY <1>10, <1>11, <1>12, OneMoves DEF IInv

\* When HandleSend runs, no write is outstanding and it is about the front.
LEMMA SendTaken ==
  ASSUME NEW c \in Conns, strand[c] # <<>>, Head(strand[c]).do = "HandleSend"
  PROVE  IInv =>
           /\ io[c]["HandleSend"] = {} /\ Positions(Tail(strand[c]), "HandleSend") = {}
           /\ pendingSends[c] # <<>> /\ Head(strand[c]).op.id = Head(pendingSends[c])
<1>. SUFFICES ASSUME IInv
              PROVE  /\ io[c]["HandleSend"] = {}
                     /\ Positions(Tail(strand[c]), "HandleSend") = {}
                     /\ pendingSends[c] # <<>>
                     /\ Head(strand[c]).op.id = Head(pendingSends[c])
  OBVIOUS
<1>1. FrontOnly(io[c]["HandleSend"], strand[c], "HandleSend", pendingSends[c])
  BY StateOf DEF Healthy
<1>2. strand[c] \in Seq(Job) BY StateOf
<1>3. /\ io[c]["HandleSend"] = {} /\ Positions(Tail(strand[c]), "HandleSend") = {}
      /\ pendingSends[c] # <<>>
  BY <1>1, <1>2, FrontTake
<1>4. Head(strand[c]).op.id = Head(pendingSends[c])
  <2>1. 1 \in Positions(strand[c], "HandleSend") /\ Head(strand[c]) = strand[c][1]
    BY <1>2, PositionsTail
  <2>2. strand[c][1].op.id = Head(pendingSends[c]) BY <1>1, <2>1 DEF FrontOnly
  <2>. QED BY <2>1, <2>2
<1>. QED BY <1>3, <1>4

\* When HandleRecv runs, no read is outstanding and a receive is pending.
LEMMA RecvTaken ==
  ASSUME NEW c \in Conns, strand[c] # <<>>, Head(strand[c]).do = "HandleRecv"
  PROVE  IInv =>
           /\ io[c]["HandleRecv"] = {} /\ Positions(Tail(strand[c]), "HandleRecv") = {}
           /\ pendingRecvs[c] # <<>>
<1>. SUFFICES ASSUME IInv
              PROVE  /\ io[c]["HandleRecv"] = {}
                     /\ Positions(Tail(strand[c]), "HandleRecv") = {}
                     /\ pendingRecvs[c] # <<>>
  OBVIOUS
<1>1. FrontOnly(io[c]["HandleRecv"], strand[c], "HandleRecv", pendingRecvs[c])
  BY StateOf DEF Healthy
<1>2. strand[c] \in Seq(Job) BY StateOf
<1>. QED BY <1>1, <1>2, FrontTake

LEMMA HandleSendStep ==
  ASSUME NEW c \in Conns
  PROVE  IInv /\ HandleSend(c) => IInv'
<1>. SUFFICES ASSUME IInv, HandleSend(c) PROVE IInv' OBVIOUS
<1> DEFINE jobs == Tail(strand[c])
           queue == Erase(pendingSends[c], Arg(c).id)
<1>1. /\ strand[c] \in Seq(Job) /\ Healthy(c) /\ strand[c] # <<>>
      /\ Head(strand[c]).do = "HandleSend" /\ Pop(c)
      /\ pendingSends[c] \in Seq(1 .. MaxSends)
  BY StateOf DEF HandleSend, Runs
<1>2. /\ strand' \in [Conns -> Seq(Job)] /\ strand'[c] = jobs
      /\ \A d \in Conns \ {c} : strand'[d] = strand[d]
  BY <1>1, PopStep
<1>3. CASE StartError(c) /\ UNCHANGED pendingSends
  <2>1. /\ Kept(c)
        /\ io' \in [Conns -> [Completions -> SUBSET Op]]
        /\ error' \in [Conns -> BOOLEAN] /\ socket' \in [Conns -> SocketState]
        /\ seen' \in [Conns -> Reports]
    BY <1>3, StartErrorStep
  <2>2. UNCHANGED queueVars BY <1>3 DEF HandleSend, queueVars
  <2>3. Typed' BY <1>2, <1>3, <2>1, <2>2 DEF IInv, Typed, HandleSend, queueVars, netVars, appVars
  <2>. QED BY <1>1, <2>1, <2>2, <2>3, QuietPop DEF IInv
<1>4. CASE /\ pendingSends' = [pendingSends EXCEPT ![c] = queue]
           /\ StartSend(c, queue)
           /\ seen' = [seen EXCEPT ![c].send = Append(@, Arg(c).id)]
           /\ UNCHANGED <<error, socket>>
  <2> DEFINE r == [seen[c] EXCEPT !.send = Append(@, Arg(c).id)]
  <2>1. /\ io[c]["HandleSend"] = {} /\ Positions(jobs, "HandleSend") = {}
        /\ pendingSends[c] # <<>> /\ Arg(c).id = Head(pendingSends[c])
    BY <1>1, SendTaken DEF Arg
  <2>2. queue \in Seq(1 .. MaxSends) BY <1>1, <2>1, EraseType
  <2>3. Arg(c).id \in Nat BY <1>1, <2>1, ConnectionAssumption
  <2>4. seen[c] \in Reports /\ seen \in [Conns -> Reports] BY DEF IInv, Typed
  <2>5. r \in Reports BY <2>3, <2>4, ReportFields
  <2>6. seen' = [seen EXCEPT ![c] = r] BY <1>4
  <2>7. /\ FrontOnly(io[c]["HandleRecv"], jobs, "HandleRecv", pendingRecvs[c])
        /\ Fits(io[c]["HandleRecv"], jobs, recvBuffer[c])
        /\ IdsIn(io[c]["HandleRecv"], jobs)
    BY <1>1, FrontPop, FitsPop, IdsPop DEF Healthy
  <2>. HIDE DEF jobs, queue, r
  <2>8. seen' \in [Conns -> Reports] BY <2>4, <2>5, <2>6
  <2>9. /\ pendingSends' \in [Conns -> Seq(1 .. MaxSends)] /\ pendingSends'[c] = queue
        /\ \A d \in Conns \ {c} : pendingSends'[d] = pendingSends[d]
    BY <1>4, <2>2 DEF IInv, Typed
  <2>10. /\ io' \in [Conns -> [Completions -> SUBSET Op]]
         /\ FrontOnly(io'[c]["HandleSend"], jobs, "HandleSend", queue)
         /\ io'[c]["HandleRecv"] = io[c]["HandleRecv"]
         /\ \A d \in Conns \ {c} : io'[d] = io[d]
    BY <1>4, <2>1, <2>2, StartSendStep
  <2>11. UNCHANGED <<hive, pendingRecvs, recvBuffer, peer, asked, dial>>
    BY DEF HandleSend, netVars, appVars
  <2>12. Healthy(c)' BY <1>2, <2>7, <2>9, <2>10, <2>11 DEF Healthy
  <2>13. \A d \in Conns \ {c} : Untouched(d) BY <1>2, <2>9, <2>10, <2>11 DEF Untouched
  <2>14. Typed' BY <1>2, <1>4, <2>8, <2>9, <2>10, <2>11 DEF IInv, Typed
  <2>. QED BY <2>12, <2>13, <2>14, OneMoves DEF IInv
<1>. QED BY <1>3, <1>4 DEF HandleSend

LEMMA DispatchRecvStep ==
  ASSUME NEW c \in Conns
  PROVE  IInv /\ DispatchRecv(c) => IInv'
<1>. SUFFICES ASSUME IInv, DispatchRecv(c) PROVE IInv' OBVIOUS
<1> DEFINE jobs == Tail(strand[c])
           r == Arg(c).id
           queue == Append(pendingRecvs[c], r)
<1>1. /\ strand[c] \in Seq(Job) /\ Healthy(c) /\ strand[c] # <<>>
      /\ Head(strand[c]).do = "DispatchRecv" /\ Pop(c)
      /\ pendingRecvs[c] \in Seq(1 .. Len(Asks))
  BY StateOf DEF DispatchRecv, Runs
<1>2. /\ strand' \in [Conns -> Seq(Job)] /\ strand'[c] = jobs
      /\ \A d \in Conns \ {c} : strand'[d] = strand[d]
  BY <1>1, PopStep
<1>3. r \in 1 .. Len(Asks) BY <1>1, PositionsTail DEF Arg, Healthy, IdsIn
<1>4. queue \in Seq(1 .. Len(Asks)) /\ queue # <<>> BY <1>1, <1>3
<1>5. /\ FrontOnly(io[c]["HandleSend"], jobs, "HandleSend", pendingSends[c])
      /\ FrontOnly(io[c]["HandleRecv"], jobs, "HandleRecv", pendingRecvs[c])
      /\ Fits(io[c]["HandleRecv"], jobs, recvBuffer[c])
      /\ IdsIn(io[c]["HandleRecv"], jobs)
  BY <1>1, FrontPop, FitsPop, IdsPop DEF Healthy
<1>6. pendingRecvs' = [pendingRecvs EXCEPT ![c] = queue] /\ UNCHANGED pendingSends
  BY DEF DispatchRecv
<1>7. FrontOnly(io[c]["HandleRecv"], jobs, "HandleRecv", queue)
  BY <1>1, <1>3, <1>5, FrontQueue
<1>8. pendingRecvs[c] = <<>> => Head(queue) = r BY <1>3
<1>. HIDE DEF jobs, queue
<1>9. /\ pendingRecvs' \in [Conns -> Seq(1 .. Len(Asks))] /\ pendingRecvs'[c] = queue
      /\ \A d \in Conns \ {c} : pendingRecvs'[d] = pendingRecvs[d]
  BY <1>4, <1>6 DEF IInv, Typed
<1>10. /\ io' \in [Conns -> [Completions -> SUBSET Op]]
       /\ recvBuffer' \in [Conns -> Seq(Nat)]
       /\ FrontOnly(io'[c]["HandleRecv"], jobs, "HandleRecv", queue)
       /\ Fits(io'[c]["HandleRecv"], jobs, recvBuffer'[c])
       /\ IdsIn(io'[c]["HandleRecv"], jobs)
       /\ io'[c]["HandleSend"] = io[c]["HandleSend"]
       /\ \A d \in Conns \ {c} : io'[d] = io[d] /\ recvBuffer'[d] = recvBuffer[d]
  <2>1. CASE ShouldStart(pendingRecvs[c]) /\ StartRecv(c, r)
    <3>1. io[c]["HandleRecv"] = {} /\ Positions(jobs, "HandleRecv") = {}
      BY <1>5, <2>1, FrontIdle DEF ShouldStart
    <3>2. Head(queue) = r BY <1>8, <2>1 DEF ShouldStart
    <3>3. IdsIn({}, jobs) BY <1>5, <3>1
    <3>. HIDE DEF r
    <3>. QED BY <1>4, <2>1, <3>1, <3>2, <3>3, StartRecvStep
  <2>2. CASE UNCHANGED <<io, recvBuffer>>
    <3>1. io' \in [Conns -> [Completions -> SUBSET Op]] /\ recvBuffer' \in [Conns -> Seq(Nat)]
      BY <2>2 DEF IInv, Typed
    <3>. QED BY <1>5, <1>7, <2>2, <3>1
  <2>. QED BY <2>1, <2>2 DEF DispatchRecv
<1>11. Healthy(c)' BY <1>2, <1>5, <1>6, <1>9, <1>10 DEF Healthy
<1>12. \A d \in Conns \ {c} : Untouched(d) BY <1>2, <1>6, <1>9, <1>10 DEF Untouched
<1>13. Typed' BY <1>2, <1>6, <1>9, <1>10 DEF IInv, Typed, DispatchRecv, netVars, appVars
<1>. QED BY <1>11, <1>12, <1>13, OneMoves DEF IInv

LEMMA HandleRecvStep ==
  ASSUME NEW c \in Conns
  PROVE  IInv /\ HandleRecv(c) => IInv'
<1>. SUFFICES ASSUME IInv, HandleRecv(c) PROVE IInv' OBVIOUS
<1> DEFINE jobs == Tail(strand[c])
           data == SubSeq(recvBuffer[c], 1, Arg(c).done)
           queue == Tail(pendingRecvs[c])
<1>1. /\ strand[c] \in Seq(Job) /\ Healthy(c) /\ strand[c] # <<>>
      /\ Head(strand[c]).do = "HandleRecv" /\ Pop(c)
      /\ pendingRecvs[c] \in Seq(1 .. Len(Asks)) /\ recvBuffer[c] \in Seq(Nat)
  BY StateOf DEF HandleRecv, Runs
<1>2. /\ strand' \in [Conns -> Seq(Job)] /\ strand'[c] = jobs
      /\ \A d \in Conns \ {c} : strand'[d] = strand[d]
      /\ Head(strand[c]) \in Job
  BY <1>1, PopStep
<1>3. CASE StartError(c) /\ UNCHANGED <<pendingRecvs, recvBuffer>>
  <2>1. /\ Kept(c)
        /\ io' \in [Conns -> [Completions -> SUBSET Op]]
        /\ error' \in [Conns -> BOOLEAN] /\ socket' \in [Conns -> SocketState]
        /\ seen' \in [Conns -> Reports]
    BY <1>3, StartErrorStep
  <2>2. UNCHANGED queueVars BY <1>3 DEF HandleRecv, queueVars
  <2>3. Typed' BY <1>2, <1>3, <2>1, <2>2 DEF IInv, Typed, HandleRecv, queueVars, netVars, appVars
  <2>. QED BY <1>1, <2>1, <2>2, <2>3, QuietPop DEF IInv
<1>4. CASE /\ seen' = [seen EXCEPT ![c].recv = Append(@, data)]
           /\ pendingRecvs' = [pendingRecvs EXCEPT ![c] = queue]
           /\ \/ queue # <<>> /\ StartRecv(c, Head(queue))
              \/ /\ queue = <<>> /\ UNCHANGED io
                 /\ recvBuffer' = [recvBuffer EXCEPT ![c] = data]
           /\ UNCHANGED <<error, socket>>
  <2> DEFINE r == [seen[c] EXCEPT !.recv = Append(@, data)]
  <2>1. /\ io[c]["HandleRecv"] = {} /\ Positions(jobs, "HandleRecv") = {}
        /\ pendingRecvs[c] # <<>>
    BY <1>1, RecvTaken
  <2>2. queue \in Seq(1 .. Len(Asks))
    <3>1. \A s \in Seq(1 .. Len(Asks)) : s # <<>> => Tail(s) \in Seq(1 .. Len(Asks)) OBVIOUS
    <3>. QED BY <1>1, <2>1, <3>1
  <2>3. Arg(c).done \in Nat /\ Arg(c).done <= Len(recvBuffer[c])
    <3>1. 1 \in Positions(strand[c], "HandleRecv") /\ Head(strand[c]) = strand[c][1]
      BY <1>1, PositionsTail
    <3>2. Arg(c).done <= Len(recvBuffer[c]) BY <1>1, <3>1 DEF Healthy, Fits, Arg
    <3>. QED BY <1>2, <3>2 DEF Arg, Job
  <2>4. data \in Seq(Nat) BY <1>1, <2>3
  <2>5. seen[c] \in Reports /\ seen \in [Conns -> Reports] BY DEF IInv, Typed
  <2>. HIDE DEF data
  <2>6. r \in Reports BY <2>4, <2>5, ReportFields
  <2>7. seen' = [seen EXCEPT ![c] = r] BY <1>4
  <2>8. /\ FrontOnly(io[c]["HandleSend"], jobs, "HandleSend", pendingSends[c])
        /\ IdsIn({}, jobs)
    BY <1>1, <2>1, FrontPop, IdsPop DEF Healthy
  <2>. HIDE DEF jobs, queue, r
  <2>9. seen' \in [Conns -> Reports] BY <2>5, <2>6, <2>7
  <2>10. /\ pendingRecvs' \in [Conns -> Seq(1 .. Len(Asks))] /\ pendingRecvs'[c] = queue
         /\ \A d \in Conns \ {c} : pendingRecvs'[d] = pendingRecvs[d]
    BY <1>4, <2>2 DEF IInv, Typed
  <2>11. /\ io' \in [Conns -> [Completions -> SUBSET Op]]
         /\ recvBuffer' \in [Conns -> Seq(Nat)]
         /\ FrontOnly(io'[c]["HandleRecv"], jobs, "HandleRecv", queue)
         /\ Fits(io'[c]["HandleRecv"], jobs, recvBuffer'[c])
         /\ IdsIn(io'[c]["HandleRecv"], jobs)
         /\ io'[c]["HandleSend"] = io[c]["HandleSend"]
         /\ \A d \in Conns \ {c} : io'[d] = io[d] /\ recvBuffer'[d] = recvBuffer[d]
    <3>1. CASE queue # <<>> /\ StartRecv(c, Head(queue))
      BY <2>1, <2>2, <2>8, <3>1, StartRecvStep
    <3>2. CASE UNCHANGED io /\ recvBuffer' = [recvBuffer EXCEPT ![c] = data]
      <4>1. io' \in [Conns -> [Completions -> SUBSET Op]] BY <3>2 DEF IInv, Typed
      <4>2. /\ recvBuffer' \in [Conns -> Seq(Nat)]
            /\ \A d \in Conns \ {c} : recvBuffer'[d] = recvBuffer[d]
        BY <2>4, <3>2 DEF IInv, Typed
      <4>3. /\ FrontOnly({}, jobs, "HandleRecv", queue)
            /\ Fits({}, jobs, recvBuffer'[c])
        BY <2>1, FrontStart, FitsStart
      <4>. QED BY <2>1, <2>8, <3>2, <4>1, <4>2, <4>3
    <3>. QED BY <1>4, <3>1, <3>2
  <2>12. UNCHANGED <<hive, pendingSends, peer, asked, dial>>
    BY DEF HandleRecv, netVars, appVars
  <2>13. Healthy(c)' BY <1>2, <2>8, <2>10, <2>11, <2>12 DEF Healthy
  <2>14. \A d \in Conns \ {c} : Untouched(d) BY <1>2, <2>10, <2>11, <2>12 DEF Untouched
  <2>15. Typed' BY <1>2, <1>4, <2>9, <2>10, <2>11, <2>12 DEF IInv, Typed
  <2>. QED BY <2>13, <2>14, <2>15, OneMoves DEF IInv
<1>. QED BY <1>3, <1>4 DEF HandleRecv

(***************************************************************************)
(* The network: an outstanding operation moves or completes.               *)
(***************************************************************************)
LEMMA WriteStep ==
  ASSUME NEW c \in Conns, NEW o \in io[c]["HandleSend"], NEW n \in Op, n.id = o.id
  PROVE  IInv /\ Update(c, "HandleSend", o, n) /\ UNCHANGED <<strand, queueVars>> =>
           /\ io' \in [Conns -> [Completions -> SUBSET Op]]
           /\ \A d \in Conns : Healthy(d)'
<1>. SUFFICES ASSUME IInv, Update(c, "HandleSend", o, n), UNCHANGED <<strand, queueVars>>
              PROVE  /\ io' \in [Conns -> [Completions -> SUBSET Op]]
                     /\ \A d \in Conns : Healthy(d)'
  OBVIOUS
<1> DEFINE ops == (io[c]["HandleSend"] \ {o}) \union {n}
<1>1. Healthy(c) BY StateOf
<1>2. ops \in SUBSET Op BY StateOf, Names
<1>3. Replaces(c, "HandleSend", ops) BY DEF Update, Replaces
<1>4. FrontOnly(ops, strand[c], "HandleSend", pendingSends[c])
  BY <1>1, FrontUpdate DEF Healthy
<1>. HIDE DEF ops
<1>5. /\ io' \in [Conns -> [Completions -> SUBSET Op]]
      /\ io'[c]["HandleSend"] = ops /\ io'[c]["HandleRecv"] = io[c]["HandleRecv"]
      /\ \A d \in Conns \ {c} : io'[d] = io[d]
  BY <1>2, <1>3, IoStep, Names
<1>6. Healthy(c)' BY <1>1, <1>4, <1>5 DEF Healthy, queueVars
<1>7. \A d \in Conns \ {c} : Untouched(d) BY <1>5 DEF Untouched, queueVars
<1>. QED BY <1>5, <1>6, <1>7, OneMoves DEF IInv

LEMMA ReadStep ==
  ASSUME NEW c \in Conns, NEW o \in io[c]["HandleRecv"], NEW n \in Op, n.id = o.id,
         n.done <= ReadSize(n.id), NEW buffer \in Seq(Nat), Len(buffer) = Len(recvBuffer[c])
  PROVE  IInv /\ Update(c, "HandleRecv", o, n) /\ recvBuffer' = [recvBuffer EXCEPT ![c] = buffer]
              /\ UNCHANGED <<strand, pendingSends, pendingRecvs>> =>
           /\ io' \in [Conns -> [Completions -> SUBSET Op]]
           /\ recvBuffer' \in [Conns -> Seq(Nat)]
           /\ \A d \in Conns : Healthy(d)'
<1>. SUFFICES ASSUME IInv, Update(c, "HandleRecv", o, n),
                     recvBuffer' = [recvBuffer EXCEPT ![c] = buffer],
                     UNCHANGED <<strand, pendingSends, pendingRecvs>>
              PROVE  /\ io' \in [Conns -> [Completions -> SUBSET Op]]
                     /\ recvBuffer' \in [Conns -> Seq(Nat)]
                     /\ \A d \in Conns : Healthy(d)'
  OBVIOUS
<1> DEFINE ops == (io[c]["HandleRecv"] \ {o}) \union {n}
<1>1. Healthy(c) BY StateOf
<1>2. ops \in SUBSET Op BY StateOf, Names
<1>3. Replaces(c, "HandleRecv", ops) BY DEF Update, Replaces
<1>4. FrontOnly(ops, strand[c], "HandleRecv", pendingRecvs[c])
  BY <1>1, FrontUpdate DEF Healthy
<1>5. IdsIn(ops, strand[c]) BY <1>1 DEF Healthy, IdsIn
<1>6. Fits(ops, strand[c], buffer)
  <2>1. Fits(io[c]["HandleRecv"], strand[c], recvBuffer[c]) BY <1>1 DEF Healthy
  <2>2. Len(buffer) = ReadSize(n.id) BY <2>1 DEF Fits
  <2>. QED BY <2>1, <2>2 DEF Fits
<1>. HIDE DEF ops
<1>7. /\ io' \in [Conns -> [Completions -> SUBSET Op]]
      /\ io'[c]["HandleRecv"] = ops /\ io'[c]["HandleSend"] = io[c]["HandleSend"]
      /\ \A d \in Conns \ {c} : io'[d] = io[d]
  <2>1. "HandleRecv" \in Completions /\ "HandleSend" \in Completions \ {"HandleRecv"} BY Names
  <2>2. /\ io' \in [Conns -> [Completions -> SUBSET Op]]
        /\ io'[c]["HandleRecv"] = ops
        /\ \A l \in Completions \ {"HandleRecv"} : io'[c][l] = io[c][l]
        /\ \A d \in Conns \ {c} : io'[d] = io[d]
    BY <1>2, <1>3, <2>1, IoStep
  <2>. QED BY <2>1, <2>2
<1>8. /\ recvBuffer' \in [Conns -> Seq(Nat)] /\ recvBuffer'[c] = buffer
      /\ \A d \in Conns \ {c} : recvBuffer'[d] = recvBuffer[d]
  BY DEF IInv, Typed
<1>9. Healthy(c)' BY <1>1, <1>4, <1>5, <1>6, <1>7, <1>8 DEF Healthy
<1>10. \A d \in Conns \ {c} : Untouched(d) BY <1>7, <1>8 DEF Untouched
<1>. QED BY <1>7, <1>8, <1>9, <1>10, OneMoves DEF IInv

LEMMA WriteSteps ==
  ASSUME NEW c \in Conns
  PROVE  IInv /\ (WriteSome(c) \/ WriteFails(c)) => IInv'
<1>. SUFFICES ASSUME IInv, WriteSome(c) \/ WriteFails(c) PROVE IInv' OBVIOUS
<1>0. /\ peer[c] \in PeerState /\ peer \in [Conns -> PeerState]
      /\ \A o \in io[c]["HandleSend"] : o \in Op
  BY StateOf, Names DEF IInv, Typed
<1>1. CASE WriteSome(c)
  <2>1. PICK o \in io[c]["HandleSend"] :
          /\ Update(c, "HandleSend", o,
                    [o EXCEPT !.done = @ + 1, !.ec = IF o.done + 1 = Parts THEN "ok" ELSE @])
          /\ peer' = [peer EXCEPT ![c].wire = Append(@, o.id)]
    BY <1>1 DEF WriteSome
  <2> DEFINE n == [o EXCEPT !.done = @ + 1, !.ec = IF o.done + 1 = Parts THEN "ok" ELSE @]
             p == [peer[c] EXCEPT !.wire = Append(@, o.id)]
  <2>2. n \in Op /\ n.id = o.id
    <3>1. o \in Op /\ o.done + 1 \in Nat BY <1>0 DEF Op
    <3>2. (IF o.done + 1 = Parts THEN "ok" ELSE o.ec) \in Status BY <3>1 DEF Op, Status
    <3>. QED BY <3>1, <3>2 DEF Op
  <2>3. p \in PeerState
    <3>1. o.id \in Nat BY <1>0 DEF Op
    <3>. QED BY <1>0, <3>1, PeerFields
  <2>. HIDE DEF n
  <2>4. /\ io' \in [Conns -> [Completions -> SUBSET Op]] /\ \A d \in Conns : Healthy(d)'
    BY <1>1, <2>1, <2>2, WriteStep DEF WriteSome, ioOnly, queueVars, n
  <2>5. peer' = [peer EXCEPT ![c] = p] BY <2>1
  <2>. HIDE DEF p
  <2>6. Typed' BY <1>0, <1>1, <2>3, <2>4, <2>5 DEF IInv, Typed, WriteSome, ioOnly
  <2>. QED BY <2>4, <2>6 DEF IInv
<1>2. CASE WriteFails(c)
  <2>1. PICK o \in io[c]["HandleSend"] : Update(c, "HandleSend", o, [o EXCEPT !.ec = "error"])
    BY <1>2 DEF WriteFails
  <2> DEFINE n == [o EXCEPT !.ec = "error"]
  <2>2. n \in Op /\ n.id = o.id BY <1>0 DEF Op, Status
  <2>. HIDE DEF n
  <2>3. /\ io' \in [Conns -> [Completions -> SUBSET Op]] /\ \A d \in Conns : Healthy(d)'
    BY <1>2, <2>1, <2>2, WriteStep DEF WriteFails, ioOnly, queueVars, n
  <2>4. Typed' BY <1>2, <2>3 DEF IInv, Typed, WriteFails, ioOnly
  <2>. QED BY <2>3, <2>4 DEF IInv
<1>. QED BY <1>1, <1>2

LEMMA ReadSteps ==
  ASSUME NEW c \in Conns
  PROVE  IInv /\ (ReadSome(c) \/ ReadFails(c)) => IInv'
<1>. SUFFICES ASSUME IInv, ReadSome(c) \/ ReadFails(c) PROVE IInv' OBVIOUS
<1>0. /\ peer[c] \in PeerState /\ peer \in [Conns -> PeerState]
      /\ recvBuffer[c] \in Seq(Nat) /\ recvBuffer \in [Conns -> Seq(Nat)]
      /\ \A o \in io[c]["HandleRecv"] : o \in Op
  BY StateOf, Names DEF IInv, Typed
<1>1. \A o \in io[c]["HandleRecv"] : /\ o.done <= ReadSize(o.id) /\ ReadSize(o.id) \in Nat
                                     /\ o.done \in Nat
  <2>1. \A o \in io[c]["HandleRecv"] : o.id \in 1 .. Len(Asks) /\ o.done <= ReadSize(o.id)
    BY StateOf DEF Healthy, IdsIn, Fits
  <2>. QED BY <1>0, <2>1, ReadSizeNat DEF Op
<1>2. CASE ReadSome(c)
  <2>1. PICK o \in io[c]["HandleRecv"] : \E m \in 1 .. (ReadSize(o.id) - o.done) :
          /\ Update(c, "HandleRecv", o,
               [o EXCEPT !.done = @ + m,
                         !.ec = IF o.done + m = ReadSize(o.id) \/ Asks[o.id] = 0 THEN "ok" ELSE @])
          /\ recvBuffer' = [recvBuffer EXCEPT ![c] =
               [i \in DOMAIN @ |-> IF i \in o.done + 1 .. o.done + m
                                     THEN peer[c].taken + i - o.done ELSE @[i]]]
          /\ peer' = [peer EXCEPT ![c].taken = @ + m]
    BY <1>2 DEF ReadSome
  <2>2. PICK m \in 1 .. (ReadSize(o.id) - o.done) :
          /\ Update(c, "HandleRecv", o,
               [o EXCEPT !.done = @ + m,
                         !.ec = IF o.done + m = ReadSize(o.id) \/ Asks[o.id] = 0 THEN "ok" ELSE @])
          /\ recvBuffer' = [recvBuffer EXCEPT ![c] =
               [i \in DOMAIN @ |-> IF i \in o.done + 1 .. o.done + m
                                     THEN peer[c].taken + i - o.done ELSE @[i]]]
          /\ peer' = [peer EXCEPT ![c].taken = @ + m]
    BY <2>1
  <2> DEFINE n == [o EXCEPT !.done = @ + m,
                            !.ec = IF o.done + m = ReadSize(o.id) \/ Asks[o.id] = 0 THEN "ok" ELSE @]
             buffer == [i \in DOMAIN recvBuffer[c] |->
                          IF i \in o.done + 1 .. o.done + m
                            THEN peer[c].taken + i - o.done ELSE recvBuffer[c][i]]
             p == [peer[c] EXCEPT !.taken = @ + m]
  <2>3. m \in Nat /\ o.done + m \in Nat /\ o.done + m <= ReadSize(o.id) BY <1>1
  <2>4. n \in Op /\ n.id = o.id /\ n.done = o.done + m BY <1>0, <2>3 DEF Op, Status
  <2>5. buffer \in Seq(Nat) /\ Len(buffer) = Len(recvBuffer[c])
    <3>1. \A i \in DOMAIN recvBuffer[c] :
            (IF i \in o.done + 1 .. o.done + m
               THEN peer[c].taken + i - o.done ELSE recvBuffer[c][i]) \in Nat
      <4>1. peer[c].taken \in Nat /\ o.done \in Nat /\ m \in Nat BY <1>0, <1>1, <2>3 DEF PeerState
      <4>2. \A i \in o.done + 1 .. o.done + m : peer[c].taken + i - o.done \in Nat BY <4>1
      <4>3. \A i \in DOMAIN recvBuffer[c] : recvBuffer[c][i] \in Nat BY <1>0
      <4>. QED BY <4>2, <4>3
    <3>2. DOMAIN recvBuffer[c] = 1 .. Len(recvBuffer[c]) /\ Len(recvBuffer[c]) \in Nat BY <1>0
    <3>. QED BY <3>1, <3>2
  <2>6. p \in PeerState BY <1>0, <2>3, PeerFields
  <2>7. /\ Update(c, "HandleRecv", o, n) /\ recvBuffer' = [recvBuffer EXCEPT ![c] = buffer]
        /\ peer' = [peer EXCEPT ![c] = p]
    BY <2>2
  <2>. HIDE DEF n, buffer, p
  <2>8. UNCHANGED <<strand, pendingSends, pendingRecvs>> BY <1>2 DEF ReadSome, ioOnly
  <2>9. n.done <= ReadSize(n.id) BY <2>3, <2>4
  <2>10. /\ io' \in [Conns -> [Completions -> SUBSET Op]]
         /\ recvBuffer' \in [Conns -> Seq(Nat)]
         /\ \A d \in Conns : Healthy(d)'
    BY <2>4, <2>5, <2>7, <2>8, <2>9, ReadStep
  <2>11. peer' \in [Conns -> PeerState] BY <1>0, <2>6, <2>7
  <2>12. Typed' BY <1>2, <2>10, <2>11 DEF IInv, Typed, ReadSome, ioOnly
  <2>. QED BY <2>10, <2>12 DEF IInv
<1>3. CASE ReadFails(c)
  <2>1. PICK o \in io[c]["HandleRecv"] : Update(c, "HandleRecv", o, [o EXCEPT !.ec = "error"])
    BY <1>3 DEF ReadFails
  <2> DEFINE n == [o EXCEPT !.ec = "error"]
  <2>2. n \in Op /\ n.id = o.id /\ n.done = o.done BY <1>0 DEF Op, Status
  <2>3. Update(c, "HandleRecv", o, n) BY <2>1
  <2>. HIDE DEF n
  <2>4. n.done <= ReadSize(n.id) BY <1>1, <2>2
  <2>5. recvBuffer' = [recvBuffer EXCEPT ![c] = recvBuffer[c]]
    BY <1>0, <1>3 DEF ReadFails
  <2>6. UNCHANGED <<strand, pendingSends, pendingRecvs>> BY <1>3 DEF ReadFails, ioOnly
  <2>7. /\ io' \in [Conns -> [Completions -> SUBSET Op]] /\ \A d \in Conns : Healthy(d)'
    BY <1>0, <2>2, <2>3, <2>4, <2>5, <2>6, ReadStep
  <2>8. Typed' BY <1>3, <2>7 DEF IInv, Typed, ReadFails, ioOnly
  <2>. QED BY <2>7, <2>8 DEF IInv
<1>. QED BY <1>2, <1>3

\* A completion goes from the io_service to the strand.
LEMMA DeliverStep ==
  ASSUME NEW c \in Conns, NEW k \in Completions
  PROVE  IInv /\ Deliver(c, k) => IInv'
<1>. SUFFICES ASSUME IInv, Deliver(c, k) PROVE IInv' OBVIOUS
<1>1. PICK o \in io[c][k] :
        /\ o.ec # "pending"
        /\ io' = [io EXCEPT ![c][k] = @ \ {o}]
        /\ Post(c, [do |-> k, op |-> o])
  BY DEF Deliver
<1> DEFINE j == [do |-> k, op |-> o]
           jobs == Append(strand[c], j)
           ops == io[c][k] \ {o}
<1>2. /\ strand[c] \in Seq(Job) /\ Healthy(c) /\ ops \in SUBSET Op /\ o \in Op
  BY StateOf
<1>3. j \in Job /\ j.do = k /\ j.op = o BY <1>1, <1>2 DEF Op, Job
<1>. HIDE DEF j
<1>4. jobs \in Seq(Job) BY <1>2, <1>3
<1>5. Replaces(c, k, ops) /\ strand' = [strand EXCEPT ![c] = jobs]
  BY <1>1 DEF Replaces, Post, j
<1>6. UNCHANGED queueVars BY DEF Deliver
<1>7. k \notin {"DispatchSend", "DispatchRecv"} BY DEF Completions, OwnOps
<1>8. /\ k # "HandleSend" => FrontOnly(io[c]["HandleSend"], jobs, "HandleSend", pendingSends[c])
      /\ k = "HandleSend" => FrontOnly(ops, jobs, "HandleSend", pendingSends[c])
  <2>1. FrontOnly(io[c]["HandleSend"], strand[c], "HandleSend", pendingSends[c])
    BY <1>2 DEF Healthy
  <2>2. CASE k # "HandleSend" BY <1>2, <1>3, <2>1, <2>2, FrontPost
  <2>3. CASE k = "HandleSend" BY <1>2, <1>3, <2>1, <2>3, FrontDeliver
  <2>. QED BY <2>2, <2>3
<1>9. /\ k # "HandleRecv" => FrontOnly(io[c]["HandleRecv"], jobs, "HandleRecv", pendingRecvs[c])
      /\ k = "HandleRecv" => FrontOnly(ops, jobs, "HandleRecv", pendingRecvs[c])
  <2>1. FrontOnly(io[c]["HandleRecv"], strand[c], "HandleRecv", pendingRecvs[c])
    BY <1>2 DEF Healthy
  <2>2. CASE k # "HandleRecv" BY <1>2, <1>3, <2>1, <2>2, FrontPost
  <2>3. CASE k = "HandleRecv" BY <1>2, <1>3, <2>1, <2>3, FrontDeliver
  <2>. QED BY <2>2, <2>3
<1>10. /\ k # "HandleRecv" => Fits(io[c]["HandleRecv"], jobs, recvBuffer[c])
       /\ k = "HandleRecv" => Fits(ops, jobs, recvBuffer[c])
  BY <1>2, <1>3, FitsPost, FitsDeliver DEF Healthy
<1>11. /\ IdsIn(io[c]["HandleRecv"], jobs)
       /\ k = "HandleRecv" => IdsIn(ops, jobs)
  <2>1. IdsIn(io[c]["HandleRecv"], jobs) BY <1>2, <1>3, <1>7, IdsPost DEF Healthy
  <2>. QED BY <2>1 DEF IdsIn
<1>. HIDE DEF jobs, ops
<1>12. /\ io' \in [Conns -> [Completions -> SUBSET Op]] /\ io'[c][k] = ops
       /\ \A l \in Completions \ {k} : io'[c][l] = io[c][l]
       /\ \A d \in Conns \ {c} : io'[d] = io[d]
  BY <1>2, <1>5, IoStep
<1>13. /\ strand' \in [Conns -> Seq(Job)] /\ strand'[c] = jobs
       /\ \A d \in Conns \ {c} : strand'[d] = strand[d]
  BY <1>4, <1>5, StrandStep
<1>14. Healthy(c)'
  <2>1. FrontOnly(io'[c]["HandleSend"], jobs, "HandleSend", pendingSends[c])
    BY <1>8, <1>12, Names
  <2>2. FrontOnly(io'[c]["HandleRecv"], jobs, "HandleRecv", pendingRecvs[c])
    BY <1>9, <1>12, Names
  <2>3. Fits(io'[c]["HandleRecv"], jobs, recvBuffer[c]) BY <1>10, <1>12, Names
  <2>4. IdsIn(io'[c]["HandleRecv"], jobs) BY <1>11, <1>12, Names
  <2>. QED BY <1>6, <1>13, <2>1, <2>2, <2>3, <2>4 DEF Healthy, queueVars
<1>15. \A d \in Conns \ {c} : Untouched(d) BY <1>6, <1>12, <1>13 DEF Untouched, queueVars
<1>16. Typed' BY <1>12, <1>13 DEF IInv, Typed, Deliver, queueVars
<1>. QED BY <1>14, <1>15, <1>16, OneMoves DEF IInv

(***************************************************************************)
(* The theorems.                                                           *)
(***************************************************************************)
LEMMA NextInv == IInv /\ [Next]_vars => IInv'
<1>. SUFFICES ASSUME IInv, [Next]_vars PROVE IInv' OBVIOUS
<1>1. CASE HiveStop \/ HiveStopped BY <1>1, HiveSteps
<1>2. ASSUME NEW c \in Conns, Dialling(c) PROVE IInv' BY <1>2, DiallingSteps
<1>3. ASSUME NEW c \in Conns, Calls(c) PROVE IInv' BY <1>3, CallSteps
<1>4. ASSUME NEW c \in Conns, Handler(c) PROVE IInv'
  BY <1>4, DispatchSendStep, DispatchRecvStep, DispatchTimerStep, HandleConnectStep,
     HandleSendStep, HandleRecvStep, HandleTimerStep DEF Handler
<1>5. ASSUME NEW c \in Conns, Network(c) PROVE IInv'
  BY <1>5, QuietSteps, WriteSteps, ReadSteps DEF Network
<1>6. ASSUME NEW c \in Conns, NEW k \in Completions, Deliver(c, k) PROVE IInv'
  BY <1>6, DeliverStep
<1>7. CASE UNCHANGED vars
  <2>1. Typed' BY <1>7 DEF IInv, Typed, vars
  <2>2. \A d \in Conns : Untouched(d) BY <1>7 DEF Untouched, vars
  <2>. QED BY <2>1, <2>2, Frame DEF IInv
<1>. QED BY <1>1, <1>2, <1>3, <1>4, <1>5, <1>6, <1>7 DEF Next

LEMMA Invariance == Spec => []IInv
<1>. QED BY InitInv, NextInv, PTL DEF Spec

\* However sends and completions interleave, at most one async_write is
\* outstanding and HandleSend finds its buffer at the front of m_pending_sends.
THEOREM SendsAreSerial == Spec => []OneSend
<1>. QED BY Invariance, InvImplies, PTL

\* Reads never share m_recv_buffer and HandleRecv never pops an empty queue.
THEOREM ReceivesAreSerial == Spec => []OneRecv
<1>. QED BY Invariance, InvImplies, PTL

\* The receive buffer is never resized under a read that is writing to it.
THEOREM ReadsFit == Spec => []BufferFits
<1>. QED BY Invariance, InvImplies, PTL
=============================================================================
