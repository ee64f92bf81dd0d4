--------------------------- MODULE AcceptorProofs ---------------------------
(***************************************************************************)
(* Proofs about Acceptor and the connections it accepts, for any set of    *)
(* connections and any number of calls: its typing, the queue of accepts,  *)
(* that an accepted socket has its timer, that Stop leaves no connection   *)
(* unanswered, and what may end the acceptor.  A Connection keeps its own  *)
(* queues and buffers in order when it is accepted as it does when it      *)
(* dials.                                                                  *)
(***************************************************************************)
EXTENDS Acceptor, ConnectionEndProofs

(***************************************************************************)
(* The inductive invariant.                                                *)
(***************************************************************************)
\* The calls of Accept for connection c that the acceptor's strand has still
\* to dispatch; c has been handed to Accept and HandleAccept has not run.
Asking(jobs, c) == {i \in DOMAIN jobs : jobs[i].do = "DispatchAccept" /\ jobs[i].conn = c}
AskedFor(c) == Asking(aStrand, c)
Unmet(c) == AskedFor(c) # {} \/ OnItsWay(c, "HandleAccept")

\* The accept of a connection is in one place at a time: in the acceptor's
\* strand, with the io_service, in the connection's strand.
OnePlace(c) ==
  /\ FrontOnly(io[c]["HandleAccept"], strand[c], "HandleAccept", <<0>>)
  /\ \A i, j \in AskedFor(c) : i = j
  /\ AskedFor(c) # {} => ~OnItsWay(c, "HandleAccept")

\* A connection that is accepted never dials.
Passive(c) ==
  /\ dial[c] \in {"idle", "accepting"} /\ io[c]["HandleConnect"] = {}
  /\ dial[c] = "idle" => ~Unmet(c)

\* A client has connected and HandleAccept has not run.
Met(c) ==
  \/ \E o \in io[c]["HandleAccept"] : o.ec = "ok"
  \/ \E i \in Queued(c, "HandleAccept") : strand[c][i].op.ec = "ok"

\* Only a client opens the socket, and only an error closes it.
Opened(c) ==
  /\ dial[c] = "idle" \/ AskedFor(c) # {} => socket[c] = "closed"
  /\ Met(c) => socket[c] # "closed" \/ error[c]

\* A connection handed to Accept is waiting for it or has its timer, until the error.
Answered(c) == dial[c] = "accepting" /\ ~error[c] => Unmet(c) \/ Watched(c)

\* Until HandleAccept has run OnAccept has not been called, and nothing happens
\* to a connection that the application has not called Send, Recv or Disconnect on.
Used(c) == asked[c].send + asked[c].recv + asked[c].off > 0
Untried(c) ==
  /\ ~error[c] /\ \A k \in OwnOps : io[c][k] = {}
  /\ \A i \in DOMAIN strand[c] : strand[c][i].do = "HandleAccept"
Fresh(c) ==
  dial[c] = "idle" \/ Unmet(c) =>
    /\ seen[c].accept = 0 /\ Queued(c, "FinishAccept") = {}
    /\ Used(c) \/ Untried(c)

\* The acceptor's timer: until something ends the acceptor it is never aborted.
Calm == ~aError /\ aStops = 0 /\ hive = "running"
Ticking(jobs) == {i \in DOMAIN jobs : jobs[i].do = "HandleTimer"}
Timed(waits, jobs) ==
  /\ \A o, p \in waits : o = p
  /\ \A i, j \in Ticking(jobs) : i = j
  /\ waits = {} \/ Ticking(jobs) = {}
  /\ \A o \in waits : o.ec # "error"
  /\ \A i \in Ticking(jobs) : jobs[i].ec = "ok"
OneTimer == Calm => Timed(aWaits, aStrand)

\* What the acceptor's strand is to dispatch is a connection.
AcceptsKnown == \A i \in DOMAIN aStrand : aStrand[i].do = "DispatchAccept" => aStrand[i].conn \in Conns

\* OnError has been called once the acceptor has ended, and not before.
ErrorSeen == aSeen = IF aError THEN 1 ELSE 0

\* What holds of one connection, and of the acceptor.
Followed(c) == OnePlace(c) /\ Passive(c) /\ Opened(c) /\ Answered(c) /\ Fresh(c)
Own == AcceptorTypeOK /\ ErrorSeen /\ AcceptsKnown /\ OneTimer /\ AcceptQueue
AInv == IInv /\ Own /\ \A c \in Conns : Followed(c)

(***************************************************************************)
(* Connection's own invariant holds of accepted connections too.           *)
(***************************************************************************)
\* Operations of other handlers than HandleAccept are untouched.
OnlyAccepts == \A d \in Conns : \A k \in Completions \ {"HandleAccept"} : io'[d][k] = io[d][k]

LEMMA OnlyAcceptsUntouched ==
  ASSUME OnlyAccepts, UNCHANGED <<strand, queueVars>>
  PROVE  \A d \in Conns : Untouched(d)
BY Names DEF OnlyAccepts, Untouched, queueVars

\* The strand of c gets a queue in which the data handlers are as fit as before.
LEMMA StrandMoves ==
  ASSUME IInv, NEW c \in Conns, NEW jobs \in Seq(Job), strand' = [strand EXCEPT ![c] = jobs],
         FrontOnly(io[c]["HandleSend"], jobs, "HandleSend", pendingSends[c]),
         FrontOnly(io[c]["HandleRecv"], jobs, "HandleRecv", pendingRecvs[c]),
         Fits(io[c]["HandleRecv"], jobs, recvBuffer[c]), IdsIn(io[c]["HandleRecv"], jobs),
         \A d \in Conns : io'[d]["HandleSend"] = io[d]["HandleSend"] /\ io'[d]["HandleRecv"] = io[d]["HandleRecv"],
         UNCHANGED queueVars
  PROVE  strand' \in [Conns -> Seq(Job)] /\ \A d \in Conns : Healthy(d)'
<1>1. /\ strand' \in [Conns -> Seq(Job)] /\ strand'[c] = jobs
      /\ \A d \in Conns \ {c} : strand'[d] = strand[d]
  BY StrandStep
<1>2. Healthy(c)'
  BY <1>1 DEF Healthy, queueVars
<1>3. \A d \in Conns \ {c} : Untouched(d)
  BY <1>1 DEF Untouched, queueVars
<1> QED BY <1>1, <1>2, <1>3, OneMoves DEF IInv

\* A handler runs that has nothing to do with data.
LEMMA PopFit ==
  ASSUME IInv, NEW c \in Conns, strand[c] # <<>>
  PROVE  /\ Tail(strand[c]) \in Seq(Job) /\ Head(strand[c]) \in Job /\ strand[c] \in Seq(Job)
         /\ FrontOnly(io[c]["HandleSend"], Tail(strand[c]), "HandleSend", pendingSends[c])
         /\ FrontOnly(io[c]["HandleRecv"], Tail(strand[c]), "HandleRecv", pendingRecvs[c])
         /\ Fits(io[c]["HandleRecv"], Tail(strand[c]), recvBuffer[c])
         /\ IdsIn(io[c]["HandleRecv"], Tail(strand[c]))
<1>1. strand[c] \in Seq(Job) /\ Healthy(c)
  BY StateOf
<1> QED BY <1>1, FrontPop, FitsPop, IdsPop DEF Healthy

\* It is followed by another part of itself, which stays at the front.
LEMMA SwapFit ==
  ASSUME IInv, NEW c \in Conns, strand[c] # <<>>, NEW j \in Job, j.do \notin {"HandleSend", "HandleRecv", "DispatchSend", "DispatchRecv"}
  PROVE  LET jobs == <<j>> \o Tail(strand[c])
         IN  /\ jobs \in Seq(Job) /\ Head(jobs) = j /\ Tail(jobs) = Tail(strand[c]) /\ jobs # <<>>
             /\ FrontOnly(io[c]["HandleSend"], jobs, "HandleSend", pendingSends[c])
             /\ FrontOnly(io[c]["HandleRecv"], jobs, "HandleRecv", pendingRecvs[c])
             /\ Fits(io[c]["HandleRecv"], jobs, recvBuffer[c]) /\ IdsIn(io[c]["HandleRecv"], jobs)
<1> DEFINE old == strand[c]
           jobs == <<j>> \o Tail(old)
<1>1. old \in Seq(Job) /\ Tail(old) \in Seq(Job) /\ Healthy(c)
  BY StateOf
<1>2. jobs \in Seq(Job) /\ Len(jobs) = Len(old) /\ jobs[1] = j /\ \A i \in 2 .. Len(old) : jobs[i] = old[i]
  BY <1>1
<1>3. Head(jobs) = j /\ jobs # <<>>
  BY <1>1, <1>2
<1>4. Tail(jobs) = Tail(old)
  <2>1. Tail(jobs) \in Seq(Job) /\ Len(Tail(jobs)) = Len(Tail(old)) /\ Len(Tail(old)) = Len(old) - 1 /\ Len(old) \in Nat
    BY <1>1, <1>2, <1>3
  <2>2. \A i \in 1 .. Len(old) - 1 : Tail(jobs)[i] = jobs[i + 1] /\ Tail(old)[i] = old[i + 1]
    BY <1>1, <1>2, <1>3, HeadTailProperties
  <2>3. \A i \in 1 .. Len(old) - 1 : Tail(jobs)[i] = Tail(old)[i]
    BY <1>2, <2>1, <2>2
  <2> HIDE DEF jobs
  <2> QED BY <1>1, <2>1, <2>3, SeqEqual
<1> HIDE DEF jobs
<1>5. \A i \in DOMAIN jobs : i \in DOMAIN old /\ (i = 1 \/ jobs[i] = old[i]) /\ (i = 1 => jobs[i] = j)
  BY <1>1, <1>2
<1>6. \A k \in {"HandleSend", "HandleRecv"} : \A i \in Positions(jobs, k) : i \in Positions(old, k) /\ jobs[i] = old[i]
  BY <1>5 DEF Positions
<1>7. \A k \in {"HandleSend", "HandleRecv"} : \A ops, queue :
        FrontOnly(ops, old, k, queue) => FrontOnly(ops, jobs, k, queue)
  BY <1>6 DEF FrontOnly
<1>8. Fits(io[c]["HandleRecv"], jobs, recvBuffer[c])
  BY <1>1, <1>6 DEF Fits, Healthy
<1>9. IdsIn(io[c]["HandleRecv"], jobs)
  BY <1>1, <1>5 DEF IdsIn, Healthy
<1> QED BY <1>1, <1>2, <1>3, <1>4, <1>7, <1>8, <1>9 DEF Healthy, jobs

LEMMA AcceptorStartErrorIo ==
  ASSUME IInv, AcceptorStartError
  PROVE  /\ io' \in [Conns -> [Completions -> SUBSET Op]] /\ OnlyAccepts
         /\ io' = io \/ \A d \in Conns : io'[d]["HandleAccept"] = Cancel(io[d]["HandleAccept"])
<1>1. io \in [Conns -> [Completions -> SUBSET Op]] /\ "HandleAccept" \in Completions
  BY DEF IInv, Typed, Completions
<1>2. CASE UNCHANGED io
  BY <1>1, <1>2 DEF OnlyAccepts
<1>3. CASE AbortAccepts
  <2>1. ASSUME NEW d \in Conns
        PROVE  /\ io'[d] \in [Completions -> SUBSET Op]
               /\ io'[d]["HandleAccept"] = Cancel(io[d]["HandleAccept"])
               /\ \A k \in Completions \ {"HandleAccept"} : io'[d][k] = io[d][k]
    <3>1. io'[d] = [io[d] EXCEPT !["HandleAccept"] = Cancel(@)]
      BY <1>3 DEF AbortAccepts
    <3>2. io[d] \in [Completions -> SUBSET Op] /\ Cancel(io[d]["HandleAccept"]) \in SUBSET Op
      BY <1>1, CancelKeeps
    <3> QED BY <1>1, <3>1, <3>2
  <2>2. io' = [d \in Conns |-> io'[d]]
    BY <1>3 DEF AbortAccepts
  <2> QED BY <2>1, <2>2 DEF OnlyAccepts
<1> QED BY <1>2, <1>3 DEF AcceptorStartError

\* Steps that leave the connections' own state alone, but for dial and accepts.
LEMMA ApartSteps ==
  ASSUME IInv, UNCHANGED <<hive, strand, queueVars, error, peer, seen, asked>>, OnlyAccepts,
         io' \in [Conns -> [Completions -> SUBSET Op]], dial' \in [Conns -> DialState],
         socket' \in [Conns -> SocketState]
  PROVE  IInv'
<1>1. Typed'
  BY DEF IInv, Typed, queueVars
<1> QED BY <1>1, OnlyAcceptsUntouched, Frame DEF IInv

LEMMA AcceptorCalls ==
  ASSUME IInv, Listen \/ ListenThrows \/ AcceptorStop \/ AcceptorExpire \/ AcceptorDeliver \/ UNCHANGED vars
  PROVE  IInv' /\ UNCHANGED vars
<1>1. UNCHANGED vars
  BY DEF Listen, ListenThrows, AcceptorStop, AcceptorExpire, AcceptorDeliver, notListening, vars, queueVars
<1>2. IInv'
  BY <1>1, NextInv
<1> QED BY <1>1, <1>2

LEMMA AcceptFits ==
  ASSUME IInv, NEW c \in Conns, Accept(c)
  PROVE  IInv'
<1>1. UNCHANGED <<hive, strand, queueVars, error, peer, seen, asked, io, socket>>
  BY DEF Accept
<1>2. dial' \in [Conns -> DialState] /\ io' \in [Conns -> [Completions -> SUBSET Op]] /\ socket' \in [Conns -> SocketState]
  BY <1>1 DEF Accept, IInv, Typed, DialState
<1> QED BY <1>1, <1>2, ApartSteps DEF OnlyAccepts

\* The operations of one accept are replaced.
LEMMA AcceptIo ==
  ASSUME IInv, NEW c \in Conns, NEW ops \in SUBSET Op, io' = [io EXCEPT ![c]["HandleAccept"] = ops]
  PROVE  /\ io' \in [Conns -> [Completions -> SUBSET Op]] /\ OnlyAccepts
         /\ io'[c]["HandleAccept"] = ops /\ \A d \in Conns \ {c} : io'[d] = io[d]
<1>1. "HandleAccept" \in Completions
  BY DEF Completions
<1> QED BY <1>1, IoStep DEF Replaces, OnlyAccepts

LEMMA DispatchAcceptFits ==
  ASSUME IInv, DispatchAccept, Head(aStrand).conn \in Conns
  PROVE  IInv'
<1> DEFINE c == Head(aStrand).conn
<1>1. c \in Conns /\ UNCHANGED <<hive, strand, socket, queueVars, error, seen, peer, asked, dial>>
  BY DEF DispatchAccept, netVars, appVars
<1>2. PICK ec \in {"pending", "error"} :
        io' = [io EXCEPT ![c]["HandleAccept"] = io[c]["HandleAccept"] \union {NewOp(0, ec)}]
  BY <1>1 DEF DispatchAccept
<1> HIDE DEF c
<1>3. io[c]["HandleAccept"] \union {NewOp(0, ec)} \in SUBSET Op
  BY <1>1, StateOf, NewOps DEF Completions, Status
<1>4. io' \in [Conns -> [Completions -> SUBSET Op]] /\ OnlyAccepts
  BY <1>1, <1>2, <1>3, AcceptIo
<1> QED BY <1>1, <1>4, ApartSteps DEF IInv, Typed

LEMMA ClientConnectsFits ==
  ASSUME IInv, ClientConnects, accepts \in Seq(Conns)
  PROVE  IInv'
<1> DEFINE c == Head(accepts)
<1>1. c \in Conns /\ UNCHANGED <<hive, strand, dial, queueVars, error, peer, seen, asked>>
  BY DEF ClientConnects
<1>2. PICK ec \in {"ok", "error"} :
        /\ io' = [io EXCEPT ![c]["HandleAccept"] = {[o EXCEPT !.ec = ec] : o \in io[c]["HandleAccept"]}]
        /\ socket' = [socket EXCEPT ![c] = IF ec = "ok" THEN "connected" ELSE socket[c]]
  BY <1>1 DEF ClientConnects
<1> HIDE DEF c
<1>3. {[o EXCEPT !.ec = ec] : o \in io[c]["HandleAccept"]} \in SUBSET Op
  <2>1. io[c]["HandleAccept"] \in SUBSET Op
    BY <1>1, StateOf DEF Completions
  <2> QED BY <2>1 DEF Op, Status
<1>4. io' \in [Conns -> [Completions -> SUBSET Op]] /\ OnlyAccepts
  BY <1>1, <1>2, <1>3, AcceptIo
<1>5. socket' \in [Conns -> SocketState] /\ dial' \in [Conns -> DialState]
  BY <1>1, <1>2 DEF IInv, Typed, SocketState
<1> QED BY <1>1, <1>4, <1>5, ApartSteps

LEMMA AcceptorTimerFits ==
  ASSUME IInv, AcceptorHandleTimer
  PROVE  IInv'
<1>1. UNCHANGED <<hive, strand, socket, queueVars, error, seen, peer, asked, dial>>
  BY DEF AcceptorHandleTimer, netVars, appVars
<1>2. io' \in [Conns -> [Completions -> SUBSET Op]] /\ OnlyAccepts
  BY AcceptorStartErrorIo DEF AcceptorHandleTimer, OnlyAccepts, IInv, Typed
<1> QED BY <1>1, <1>2, ApartSteps DEF IInv, Typed

\* HandleAccept and the rest of it.
LEMMA HandleAcceptFailsFits ==
  ASSUME IInv, NEW c \in Conns, HandleAcceptFails(c)
  PROVE  IInv'
<1>1. /\ strand[c] # <<>> /\ Pop(c) /\ StartError(c)
      /\ UNCHANGED <<hive, queueVars, peer, asked, dial>>
  BY DEF HandleAcceptFails, Runs, netVars, appVars
<1>2. /\ Kept(c) /\ io' \in [Conns -> [Completions -> SUBSET Op]]
      /\ error' \in [Conns -> BOOLEAN] /\ socket' \in [Conns -> SocketState]
      /\ seen' \in [Conns -> Reports]
  BY <1>1, StartErrorStep
<1>3. strand' \in [Conns -> Seq(Job)] /\ \A d \in Conns : Healthy(d)'
  BY <1>1, <1>2, PopStep, QuietPop
<1> QED BY <1>1, <1>2, <1>3 DEF IInv, Typed, queueVars

LEMMA HandleAcceptClosedFits ==
  ASSUME IInv, NEW c \in Conns, HandleAcceptClosed(c)
  PROVE  IInv'
<1>1. /\ strand[c] # <<>> /\ strand' = [strand EXCEPT ![c] = Tail(strand[c])] /\ AcceptorStartError
      /\ UNCHANGED <<hive, socket, queueVars, error, seen, peer, asked, dial>>
  BY DEF HandleAcceptClosed, Runs, Pop, netVars, appVars
<1>2. io' \in [Conns -> [Completions -> SUBSET Op]] /\ OnlyAccepts
  BY <1>1, AcceptorStartErrorIo
<1>3. strand' \in [Conns -> Seq(Job)] /\ \A d \in Conns : Healthy(d)'
  BY <1>1, <1>2, PopFit, StrandMoves, Names DEF OnlyAccepts
<1> QED BY <1>1, <1>2, <1>3 DEF IInv, Typed, queueVars

LEMMA StartTimerIo ==
  ASSUME IInv, NEW c \in Conns, StartTimer(c)
  PROVE  /\ io' \in [Conns -> [Completions -> SUBSET Op]] /\ io'[c]["DispatchTimer"] # {}
         /\ \A d \in Conns : \A k \in Completions \ {"DispatchTimer"} : io'[d][k] = io[d][k]
         /\ \A d \in Conns \ {c} : io'[d] = io[d]
<1> DEFINE ops == Cancel(io[c]["DispatchTimer"]) \union {NewOp(0, "pending")}
<1>1. ops \in SUBSET Op /\ ops # {}
  BY CancelKeeps, StateOf, Names, NewOps DEF Status
<1>2. Replaces(c, "DispatchTimer", ops)
  BY DEF StartTimer, Replaces
<1> HIDE DEF ops
<1> QED BY <1>1, <1>2, IoStep, Names

\* What HandleAccept leaves in the strand when the connection is open.
LEMMA OpenJobs ==
  ASSUME IInv, NEW c \in Conns, HandleAcceptOpen(c)
  PROVE  /\ strand[c] # <<>> /\ Head(strand[c]).do = "HandleAccept"
         /\ \/ strand' = [strand EXCEPT ![c] = <<NewJob("FinishAccept", 0, "ok")>> \o Tail(strand[c])]
            \/ strand' = [strand EXCEPT ![c] = Append(Tail(strand[c]), NewJob("HandleTimer", 0, "error"))]
            \/ strand' = [strand EXCEPT ![c] = Tail(strand[c])]
         /\ NewJob("FinishAccept", 0, "ok") \in Job /\ NewJob("HandleTimer", 0, "error") \in Job
         /\ hive' \in {hive, "crashed"}
BY DEF HandleAcceptOpen, Runs, Pop, NewJob, NewOp, Job, Posts, Status

LEMMA HandleAcceptOpenFits ==
  ASSUME IInv, NEW c \in Conns, HandleAcceptOpen(c)
  PROVE  IInv'
<1> DEFINE swap == <<NewJob("FinishAccept", 0, "ok")>> \o Tail(strand[c])
           push == Append(Tail(strand[c]), NewJob("HandleTimer", 0, "error"))
           pop == Tail(strand[c])
<1>1. StartTimer(c) /\ UNCHANGED <<socket, queueVars, error, seen, peer, asked, dial>>
  BY DEF HandleAcceptOpen, netVars, appVars
<1>2. PICK jobs \in {swap, push, pop} : strand' = [strand EXCEPT ![c] = jobs]
  BY OpenJobs
<1>3. /\ jobs \in Seq(Job)
      /\ FrontOnly(io[c]["HandleSend"], jobs, "HandleSend", pendingSends[c])
      /\ FrontOnly(io[c]["HandleRecv"], jobs, "HandleRecv", pendingRecvs[c])
      /\ Fits(io[c]["HandleRecv"], jobs, recvBuffer[c]) /\ IdsIn(io[c]["HandleRecv"], jobs)
  <2>1. CASE jobs = swap
    <3>1. NewJob("FinishAccept", 0, "ok").do = "FinishAccept"
      BY DEF NewJob
    <3> QED BY <2>1, <3>1, SwapFit, OpenJobs
  <2>2. CASE jobs = push
    <3>1. NewJob("HandleTimer", 0, "error").do = "HandleTimer"
      BY DEF NewJob
    <3> DEFINE j == NewJob("HandleTimer", 0, "error")
    <3>2. j \in Job /\ pop \in Seq(Job) /\ j.do = "HandleTimer"
      BY <3>1, OpenJobs, PopFit
    <3> HIDE DEF j
    <3>3. Append(pop, j) \in Seq(Job)
      BY <3>2
    <3>4. /\ FrontOnly(io[c]["HandleSend"], Append(pop, j), "HandleSend", pendingSends[c])
          /\ FrontOnly(io[c]["HandleRecv"], Append(pop, j), "HandleRecv", pendingRecvs[c])
      BY <3>2, OpenJobs, PopFit, FrontPost
    <3>5. Fits(io[c]["HandleRecv"], Append(pop, j), recvBuffer[c]) /\ IdsIn(io[c]["HandleRecv"], Append(pop, j))
      BY <3>2, OpenJobs, PopFit, FitsPost, IdsPost
    <3> QED BY <2>2, <3>3, <3>4, <3>5 DEF j
  <2>3. CASE jobs = pop
    BY <2>3, PopFit, OpenJobs
  <2> QED BY <2>1, <2>2, <2>3
<1> HIDE DEF swap, push, pop
<1>4. /\ io' \in [Conns -> [Completions -> SUBSET Op]]
      /\ \A d \in Conns : io'[d]["HandleSend"] = io[d]["HandleSend"] /\ io'[d]["HandleRecv"] = io[d]["HandleRecv"]
  BY <1>1, StartTimerIo, Names
<1>5. strand' \in [Conns -> Seq(Job)] /\ \A d \in Conns : Healthy(d)'
  BY <1>1, <1>2, <1>3, <1>4, StrandMoves
<1>6. hive' \in HiveState
  BY OpenJobs DEF IInv, Typed, HiveState
<1> QED BY <1>1, <1>4, <1>5, <1>6 DEF IInv, Typed, queueVars

LEMMA FinishAcceptFits ==
  ASSUME IInv, NEW c \in Conns, FinishAccept(c)
  PROVE  IInv'
<1>1. /\ strand[c] # <<>> /\ strand' = [strand EXCEPT ![c] = Tail(strand[c])]
      /\ UNCHANGED <<socket, io, queueVars, error, peer, asked, dial>>
      /\ hive' \in {hive, "crashed"}
  BY DEF FinishAccept, Runs, Pop, netVars, appVars
<1>2. strand' \in [Conns -> Seq(Job)] /\ \A d \in Conns : Healthy(d)'
  BY <1>1, PopFit, StrandMoves
<1>3. seen' \in [Conns -> Reports]
  <2>1. seen[c].accept + 1 \in Nat /\ seen[c] \in Reports /\ seen \in [Conns -> Reports]
    BY DEF IInv, Typed, Reports
  <2>2. [seen[c] EXCEPT !.accept = @ + 1] \in Reports
    BY <2>1 DEF Reports
  <2>3. seen' = seen \/ seen' = [seen EXCEPT ![c] = [seen[c] EXCEPT !.accept = @ + 1]]
    BY DEF FinishAccept
  <2> QED BY <2>1, <2>2, <2>3
<1> QED BY <1>1, <1>2, <1>3 DEF IInv, Typed, queueVars, HiveState

LEMMA HandleAcceptFits ==
  ASSUME IInv, NEW c \in Conns, HandleAccept(c)
  PROVE  IInv'
BY HandleAcceptFailsFits, HandleAcceptClosedFits, HandleAcceptOpenFits, FinishAcceptFits DEF HandleAccept

LEMMA ConnectionSteps ==
  ASSUME IInv, NEW c \in Conns,
         Handler(c) \/ Calls(c) \/ Network(c) \/ \E k \in Completions : Deliver(c, k)
  PROVE  IInv' /\ \A d \in Conns \ {c} : Stays(d)
BY NextInv, OthersStay DEF Next, Moves

\* Every step of the composition keeps what the proofs about Connection rest on.
LEMMA FitsNext ==
  ASSUME IInv, AcceptorTypeOK, AcceptsKnown, [AcceptorNext]_allVars
  PROVE  IInv'
<1>1. CASE Stopping \/ Stopped
  BY <1>1, HiveSteps DEF Stopping, Stopped
<1>2. CASE Listen \/ ListenThrows \/ AcceptorStop \/ AcceptorExpire \/ AcceptorDeliver \/ UNCHANGED allVars
  BY <1>2, AcceptorCalls DEF allVars
<1>3. CASE AcceptorHandler
  <2>1. CASE DispatchAccept
    <3>1. 1 \in DOMAIN aStrand /\ aStrand[1].do = "DispatchAccept" /\ Head(aStrand) = aStrand[1]
      BY <2>1 DEF DispatchAccept, ARuns, AcceptorTypeOK
    <3> QED BY <2>1, <3>1, DispatchAcceptFits DEF AcceptsKnown
  <2> QED BY <1>3, <2>1, AcceptorTimerFits DEF AcceptorHandler
<1>4. CASE ClientConnects
  BY <1>4, ClientConnectsFits DEF AcceptorTypeOK
<1>5. ASSUME NEW c \in Conns,
             \/ Accept(c) \/ Call(c) \/ ConnectionHandler(c) \/ Traffic(c)
             \/ \E k \in Completions : Dispatch(c, k)
      PROVE  IInv'
  BY <1>5, AcceptFits, HandleAcceptFits, ConnectionSteps
     DEF Call, ConnectionHandler, Traffic, Dispatch
<1> QED BY <1>1, <1>2, <1>3, <1>4, <1>5 DEF AcceptorNext

(***************************************************************************)
(* What a step does to one connection.                                     *)
(***************************************************************************)
\* It is in the acceptor's strand as often as before.
SameAsked(d) ==
  /\ AskedFor(d)' = {} <=> AskedFor(d) = {}
  /\ (\A i, j \in AskedFor(d) : i = j) => \A i, j \in AskedFor(d)' : i = j

\* Nothing, or nothing but the abort of its pending accept.
LEMMA StaysFollowed ==
  ASSUME NEW d \in Conns, Stays(d), SameAsked(d), Followed(d)
  PROVE  Followed(d)'
<1>1. OnePlace(d)' /\ (Unmet(d)' <=> Unmet(d)) /\ (Watched(d)' <=> Watched(d)) /\ (Met(d)' <=> Met(d))
  BY DEF Stays, SameAsked, Followed, OnePlace, Unmet, Watched, OnItsWay, Queued, Met
<1>2. Passive(d)' /\ Opened(d)'
  BY <1>1 DEF Stays, SameEnd, SameApp, SameAsked, Followed, Passive, Opened
<1>3. Answered(d)' /\ Fresh(d)'
  BY <1>1 DEF Stays, SameEnd, SameApp, Followed, Answered, Fresh, Used, Untried, Queued
<1> QED BY <1>1, <1>2, <1>3 DEF Followed

LEMMA AbortFollowed ==
  ASSUME IInv, OnlyAccepts, NEW d \in Conns, io'[d]["HandleAccept"] = Cancel(io[d]["HandleAccept"]),
         strand'[d] = strand[d], SameEnd(d), SameApp(d), SameAsked(d), Followed(d)
  PROVE  Followed(d)'
<1>1. /\ io[d]["HandleAccept"] \in SUBSET Op /\ "HandleAccept" \in Completions
      /\ \A k \in Completions \ {"HandleAccept"} : io'[d][k] = io[d][k]
  BY StateOf DEF Completions, OnlyAccepts
<1>2. FrontOnly(io'[d]["HandleAccept"], strand'[d], "HandleAccept", <<0>>)
  BY <1>1, FrontCancel DEF Followed, OnePlace
<1>3. /\ io'[d]["HandleAccept"] = {} <=> io[d]["HandleAccept"] = {}
      /\ \A o \in io'[d]["HandleAccept"] : o.ec = "ok" => o \in io[d]["HandleAccept"]
  <2> DEFINE ops == io[d]["HandleAccept"]
  <2>1. Cancel(ops) = {} <=> ops = {}
    BY DEF Cancel
  <2>2. ASSUME NEW o \in Cancel(ops), o.ec = "ok"
        PROVE  o \in ops
    <3>1. PICK q \in ops : o = IF q.ec = "pending" THEN [q EXCEPT !.ec = "error"] ELSE q
      BY DEF Cancel
    <3>2. [q EXCEPT !.ec = "error"].ec = "error"
      BY <1>1 DEF Op
    <3> QED BY <2>2, <3>1, <3>2
  <2> QED BY <2>1, <2>2
<1>4. /\ OnItsWay(d, "HandleAccept")' <=> OnItsWay(d, "HandleAccept")
      /\ Watched(d)' <=> Watched(d)
      /\ Met(d)' => Met(d)
  BY <1>1, <1>3, Names DEF OnItsWay, Watched, Met, Queued
<1>5. OnePlace(d)' /\ (Unmet(d)' <=> Unmet(d))
  BY <1>2, <1>4 DEF SameAsked, Followed, OnePlace, Unmet
<1>6. Passive(d)'
  <2>1. io'[d]["HandleConnect"] = io[d]["HandleConnect"]
    BY <1>1, Names
  <2> QED BY <1>5, <2>1 DEF SameApp, Followed, Passive
<1>7. Opened(d)' /\ Answered(d)'
  BY <1>4, <1>5 DEF SameEnd, SameApp, SameAsked, Followed, Opened, Answered
<1>8. Fresh(d)'
  <2>1. (\A k \in OwnOps : io[d][k] = {}) => \A k \in OwnOps : io'[d][k] = {}
    BY <1>1 DEF OwnOps, Completions
  <2> QED BY <1>5, <2>1 DEF SameEnd, SameApp, Followed, Fresh, Used, Untried, Queued
<1> QED BY <1>5, <1>6, <1>7, <1>8 DEF Followed

\* The application's call posts a handler of another kind to its strand.
LEMMA PostFollowed ==
  ASSUME IInv, NEW c \in Conns, NEW j \in Job, strand'[c] = Append(strand[c], j),
         j.do \notin {"HandleAccept", "FinishAccept"}, io'[c] = io[c], SameEnd(c), dial'[c] = dial[c],
         Used(c)', AskedFor(c)' = AskedFor(c), Followed(c)
  PROVE  Followed(c)'
<1>1. strand[c] \in Seq(Job) /\ \A k : Queued(c, k)' # {} <=> Queued(c, k) # {} \/ j.do = k
  BY StateOf, QueuedPost
<1>2. FrontOnly(io'[c]["HandleAccept"], strand'[c], "HandleAccept", <<0>>)
  BY <1>1, FrontPost DEF Followed, OnePlace
<1>3. /\ Unmet(c)' <=> Unmet(c)
      /\ OnItsWay(c, "HandleAccept")' <=> OnItsWay(c, "HandleAccept")
      /\ Watched(c) => Watched(c)'
  BY <1>1 DEF Unmet, OnItsWay, Watched
<1>4. Met(c)' => Met(c)
  <2>1. \A i \in Queued(c, "HandleAccept")' : i \in Queued(c, "HandleAccept") /\ strand'[c][i] = strand[c][i]
    <3>1. /\ Positions(Append(strand[c], j), "HandleAccept") = Positions(strand[c], "HandleAccept")
          /\ \A i \in DOMAIN strand[c] : Append(strand[c], j)[i] = strand[c][i]
      BY <1>1, PositionsAppend
    <3> QED BY <3>1 DEF Queued, Positions
  <2> QED BY <2>1 DEF Met
<1>5. OnePlace(c)' /\ Opened(c)' /\ Answered(c)' /\ Passive(c)'
  BY <1>2, <1>3, <1>4 DEF SameEnd, Followed, OnePlace, Opened, Answered, Passive
<1>6. Fresh(c)'
  BY <1>1, <1>3 DEF SameEnd, Followed, Fresh
<1> QED BY <1>5, <1>6 DEF Followed

\* A completion goes to its strand.
LEMMA DeliverFollowed ==
  ASSUME IInv, NEW c \in Conns, NEW k \in Completions, Deliver(c, k),
         AskedFor(c)' = AskedFor(c), Followed(c)
  PROVE  Followed(c)'
<1>1. /\ io \in [Conns -> [Completions -> SUBSET Op]] /\ strand \in [Conns -> Seq(Job)]
      /\ io[c][k] \in SUBSET Op /\ strand[c] \in Seq(Job)
  BY DEF IInv, Typed
<1>2. PICK o \in io[c][k] :
        o.ec # "pending" /\ io' = [io EXCEPT ![c][k] = @ \ {o}] /\ Post(c, [do |-> k, op |-> o])
  BY DEF Deliver
<1> DEFINE j == [do |-> k, op |-> o]
<1>3. j \in Job /\ j.do = k /\ j.op = o
  BY <1>1, <1>2 DEF Job, Op
<1>4. strand'[c] = Append(strand[c], j)
  BY <1>1, <1>2 DEF Post
<1>5. io'[c][k] = io[c][k] \ {o} /\ \A l \in Completions \ {k} : io'[c][l] = io[c][l]
  BY <1>1, <1>2
<1> HIDE DEF j
<1>6. SameEnd(c) /\ dial'[c] = dial[c]
  BY DEF Deliver, SameEnd, queueVars
<1>7. "HandleAccept" \in Completions /\ OwnOps \subseteq Completions /\ "HandleAccept" \notin OwnOps
  BY DEF Completions, OwnOps
<1>8. \A l : Queued(c, l)' # {} <=> Queued(c, l) # {} \/ k = l
  BY <1>3, <1>4, QueuedPost
<1>9. \A l \in Completions : OnItsWay(c, l)' <=> OnItsWay(c, l)
  BY <1>2, <1>5, <1>8 DEF OnItsWay
<1>10. (Unmet(c)' <=> Unmet(c)) /\ (Watched(c) => Watched(c)')
  BY <1>7, <1>8, <1>9, Names DEF Unmet, Watched
<1>11. FrontOnly(io'[c]["HandleAccept"], strand'[c], "HandleAccept", <<0>>)
  <2>1. FrontOnly(io[c]["HandleAccept"], strand[c], "HandleAccept", <<0>>)
    BY DEF Followed, OnePlace
  <2>2. CASE k = "HandleAccept"
    <3>1. j.do = "HandleAccept" /\ j.op \in io[c]["HandleAccept"]
      BY <1>2, <1>3, <2>2
    <3>2. FrontOnly(io[c]["HandleAccept"], strand[c], j.do, <<0>>)
      BY <2>1, <3>1
    <3>3. FrontOnly(io[c]["HandleAccept"] \ {j.op}, Append(strand[c], j), j.do, <<0>>)
      BY <1>1, <1>3, <3>1, <3>2, FrontDeliver
    <3> QED BY <1>3, <1>4, <1>5, <2>2, <3>1, <3>3
  <2>3. CASE k # "HandleAccept"
    BY <1>1, <1>3, <1>4, <1>5, <1>7, <2>1, <2>3, FrontPost
  <2> QED BY <2>2, <2>3
<1>12. Met(c)' => Met(c)
  <2>1. \A i \in Queued(c, "HandleAccept")' :
          \/ i \in Queued(c, "HandleAccept") /\ strand'[c][i] = strand[c][i]
          \/ k = "HandleAccept" /\ strand'[c][i] = j
    <3>1. /\ k # "HandleAccept" => Positions(Append(strand[c], j), "HandleAccept") = Positions(strand[c], "HandleAccept")
          /\ k = "HandleAccept" => Positions(Append(strand[c], j), "HandleAccept") = Positions(strand[c], "HandleAccept") \union {Len(strand[c]) + 1}
          /\ \A i \in DOMAIN strand[c] : Append(strand[c], j)[i] = strand[c][i]
          /\ Append(strand[c], j)[Len(strand[c]) + 1] = j
      <4> DEFINE f == "HandleAccept"
      <4> HIDE DEF f
      <4>0. strand[c] \in Seq(Job) /\ j \in Job
        BY <1>1, <1>3
      <4>1. /\ j.do # f => Positions(Append(strand[c], j), f) = Positions(strand[c], f)
            /\ j.do = f => Positions(Append(strand[c], j), f) = Positions(strand[c], f) \union {Len(strand[c]) + 1}
            /\ \A i \in DOMAIN strand[c] : Append(strand[c], j)[i] = strand[c][i]
            /\ Append(strand[c], j)[Len(strand[c]) + 1] = j
        BY <4>0 DEF Positions
      <4> QED BY <1>3, <4>1 DEF f
    <3> QED BY <1>4, <3>1 DEF Queued, Positions
  <2>2. \A p \in io'[c]["HandleAccept"] : p \in io[c]["HandleAccept"]
    BY <1>5, <1>7
  <2>3. k = "HandleAccept" => j.op \in io[c]["HandleAccept"]
    BY <1>2, <1>3
  <2> QED BY <2>1, <2>2, <2>3 DEF Met
<1>14. OnePlace(c)' /\ Opened(c)' /\ Answered(c)'
  BY <1>6, <1>7, <1>9, <1>10, <1>11, <1>12 DEF SameEnd, Followed, OnePlace, Opened, Answered
<1>15. Passive(c)'
  BY <1>5, <1>6, <1>10, Names DEF Followed, Passive
<1>16. Fresh(c)'
  <2> SUFFICES ASSUME dial'[c] = "idle" \/ Unmet(c)'
               PROVE  /\ seen'[c].accept = 0 /\ Queued(c, "FinishAccept")' = {}
                      /\ Used(c)' \/ Untried(c)'
    BY DEF Fresh
  <2>1. seen[c].accept = 0 /\ Queued(c, "FinishAccept") = {} /\ (Used(c) \/ Untried(c))
    BY <1>6, <1>10 DEF Followed, Fresh
  <2>2. seen'[c].accept = 0 /\ Queued(c, "FinishAccept")' = {} /\ (Used(c) => Used(c)')
    BY <1>6, <1>8, <2>1 DEF SameEnd, Completions, OwnOps, Used, Deliver
  <2>3. CASE Untried(c)
    <3>1. k = "HandleAccept"
      BY <1>2, <2>3 DEF Completions, Untried
    <3>2. \A i \in DOMAIN strand'[c] : strand'[c][i].do = "HandleAccept"
      BY <1>1, <1>3, <1>4, <2>3, <3>1 DEF Untried
    <3> QED BY <1>5, <1>6, <1>7, <2>2, <2>3, <3>1, <3>2 DEF SameEnd, Untried
  <2> QED BY <2>1, <2>2, <2>3
<1> QED BY <1>14, <1>15, <1>16 DEF Followed

\* The network moves one of its own operations.
LEMMA UpdateFollowed ==
  ASSUME IInv, NEW c \in Conns, NEW k \in OwnOps, NEW o \in io[c][k], NEW n, Update(c, k, o, n),
         UNCHANGED <<ioOnly, socket>>, AskedFor(c)' = AskedFor(c), Followed(c)
  PROVE  Followed(c)'
<1>1. /\ io \in [Conns -> [Completions -> SUBSET Op]] /\ k \in Completions /\ k # "HandleAccept"
      /\ "HandleAccept" \in Completions /\ k # "HandleConnect"
  BY DEF IInv, Typed, Completions, OwnOps, Followed, Passive
<1>2. io'[c][k] # {} /\ \A l \in Completions \ {k} : io'[c][l] = io[c][l]
  BY <1>1 DEF Update
<1>3. OnePlace(c)' /\ (Unmet(c)' <=> Unmet(c)) /\ (Watched(c) => Watched(c)') /\ (Met(c)' <=> Met(c))
  BY <1>1, <1>2, Names DEF ioOnly, Followed, OnePlace, Unmet, Watched, OnItsWay, Queued, Met
<1>4. ~Untried(c)
  BY DEF Untried
<1>5. Passive(c)' /\ Opened(c)'
  BY <1>1, <1>2, <1>3, Names DEF ioOnly, Followed, Passive, Opened
<1>6. Answered(c)' /\ Fresh(c)'
  BY <1>3, <1>4 DEF ioOnly, Followed, Answered, Fresh, Used, Queued
<1> QED BY <1>3, <1>5, <1>6 DEF Followed

LEMMA NetworkFollowed ==
  ASSUME IInv, NEW c \in Conns, Network(c), AskedFor(c)' = AskedFor(c), Followed(c)
  PROVE  Followed(c)'
<1>1. ~ConnectDone(c)
  BY DEF ConnectDone, Followed, Passive
<1>2. CASE WriteSome(c) \/ WriteFails(c)
  <2>1. \E o \in io[c]["HandleSend"] : \E n : Update(c, "HandleSend", o, n)
    BY <1>2 DEF WriteSome, WriteFails
  <2>2. UNCHANGED <<ioOnly, socket>>
    BY <1>2 DEF WriteSome, WriteFails
  <2> QED BY <2>1, <2>2, UpdateFollowed DEF OwnOps
<1>3. CASE ReadSome(c) \/ ReadFails(c)
  <2>1. \E o \in io[c]["HandleRecv"] : \E n : Update(c, "HandleRecv", o, n)
    BY <1>3 DEF ReadSome, ReadFails
  <2>2. UNCHANGED <<ioOnly, socket>>
    BY <1>3 DEF ReadSome, ReadFails
  <2> QED BY <2>1, <2>2, UpdateFollowed DEF OwnOps
<1>4. CASE Expire(c)
  <2>1. \E o \in io[c]["DispatchTimer"] : \E n : Update(c, "DispatchTimer", o, n)
    BY <1>4 DEF Expire
  <2>2. UNCHANGED <<ioOnly, socket>>
    BY <1>4 DEF Expire
  <2> QED BY <2>1, <2>2, UpdateFollowed DEF OwnOps
<1>5. CASE PeerSends(c) \/ PeerCloses(c)
  <2>1. UNCHANGED <<ioOnly, socket, io>>
    BY <1>5 DEF PeerSends, PeerCloses
  <2>2. OnePlace(c)' /\ (Unmet(c)' <=> Unmet(c)) /\ (Watched(c)' <=> Watched(c)) /\ (Met(c)' <=> Met(c))
    BY <2>1 DEF ioOnly, Followed, OnePlace, Unmet, Watched, OnItsWay, Queued, Met
  <2>3. Passive(c)' /\ Opened(c)'
    BY <2>1, <2>2 DEF ioOnly, Followed, Passive, Opened
  <2>4. Answered(c)' /\ Fresh(c)'
    BY <2>1, <2>2 DEF ioOnly, Followed, Answered, Fresh, Used, Untried, Queued
  <2> QED BY <2>2, <2>3, <2>4 DEF Followed
<1> QED BY <1>1, <1>2, <1>3, <1>4, <1>5 DEF Network

\* The queue of a strand after a handler: the others move up, one may be posted.
MovesUp(jobs, new) ==
  \/ new = Tail(jobs)
  \/ \E j \in Job : j.do \notin {"HandleAccept", "FinishAccept"} /\ new = Append(Tail(jobs), j)

LEMMA MovedUp ==
  ASSUME NEW jobs \in Seq(Job), jobs # <<>>, NEW new, MovesUp(jobs, new), NEW k \in {"HandleAccept", "FinishAccept"}
  PROVE  /\ \A i \in Positions(new, k) :
              i \in Nat /\ i + 1 \in Positions(jobs, k) /\ new[i] = jobs[i + 1]
         /\ \A i \in Positions(jobs, k) : i = 1 \/ i - 1 \in Positions(new, k)
         /\ \A ops, queue : FrontOnly(ops, jobs, k, queue) => FrontOnly(ops, new, k, queue)
<1>1. /\ Tail(jobs) \in Seq(Job) /\ Len(Tail(jobs)) = Len(jobs) - 1 /\ Len(jobs) \in Nat \ {0}
      /\ \A i \in 1 .. Len(jobs) - 1 : Tail(jobs)[i] = jobs[i + 1]
  BY HeadTailProperties, EmptySeq
<1>2. \A ops, queue : FrontOnly(ops, jobs, k, queue) => FrontOnly(ops, Tail(jobs), k, queue)
  BY FrontPop
<1>3. CASE new = Tail(jobs)
  BY <1>1, <1>2, <1>3 DEF Positions
<1>4. ASSUME NEW j \in Job, j.do # k, new = Append(Tail(jobs), j)
      PROVE  /\ \A i \in Positions(new, k) :
                  i \in Nat /\ i + 1 \in Positions(jobs, k) /\ new[i] = jobs[i + 1]
             /\ \A i \in Positions(jobs, k) : i = 1 \/ i - 1 \in Positions(new, k)
             /\ \A ops, queue : FrontOnly(ops, jobs, k, queue) => FrontOnly(ops, new, k, queue)
  <2> DEFINE rest == Tail(jobs)
  <2>0. rest \in Seq(Job) /\ j \in Job
    BY <1>1, <1>4
  <2>2. \A ops, queue : FrontOnly(ops, rest, k, queue) => FrontOnly(ops, new, k, queue)
    BY <1>1, <1>4, FrontPost
  <2>3. \A i \in Positions(rest, k) :
          i \in Nat /\ i + 1 \in Positions(jobs, k) /\ rest[i] = jobs[i + 1] /\ i \in DOMAIN rest
    BY <1>1 DEF Positions
  <2>4. \A i \in Positions(jobs, k) : i = 1 \/ i - 1 \in Positions(rest, k)
    BY <1>1 DEF Positions
  <2>5. new = Append(rest, j)
    BY <1>4
  <2> HIDE DEF rest
  <2>6. /\ DOMAIN new = DOMAIN rest \union {Len(rest) + 1} /\ new[Len(rest) + 1] = j
        /\ \A i \in DOMAIN rest : new[i] = rest[i]
    BY <2>0, <2>5
  <2>7. Positions(new, k) = Positions(rest, k)
    <3> HIDE DEF Positions
    <3>1. Len(rest) + 1 \notin DOMAIN rest
      BY <2>0
    <3> QED BY <1>4, <2>6, <3>1 DEF Positions
  <2> QED BY <1>2, <2>2, <2>3, <2>4, <2>6, <2>7 DEF rest
<1> QED BY <1>3, <1>4 DEF MovesUp

\* A handler runs that is not HandleAccept, and finds an error or leaves the timer.
LEMMA ServeFollowed ==
  ASSUME IInv, NEW c \in Conns, Followed(c), strand[c] # <<>>, Head(strand[c]).do # "HandleAccept",
         MovesUp(strand[c], strand'[c]),
         io'[c]["HandleAccept"] = io[c]["HandleAccept"], io'[c]["HandleConnect"] = {},
         SameApp(c), seen'[c].accept = seen[c].accept \/ Head(strand[c]).do = "FinishAccept",
         AskedFor(c)' = AskedFor(c),
         \/ error'[c] /\ socket'[c] \in {socket[c], "closed"}
         \/ error'[c] = error[c] /\ socket'[c] = socket[c] /\ (Watched(c) => Watched(c)')
  PROVE  Followed(c)'
<1>1. strand[c] \in Seq(Job) /\ 1 \in DOMAIN strand[c] /\ Head(strand[c]) = strand[c][1]
  BY StateOf, PositionsTail
<1>2. /\ \A i \in Queued(c, "HandleAccept")' :
           i \in Nat /\ i + 1 \in Queued(c, "HandleAccept") /\ strand'[c][i] = strand[c][i + 1]
      /\ \A i \in Queued(c, "HandleAccept") : i = 1 \/ i - 1 \in Queued(c, "HandleAccept")'
      /\ FrontOnly(io[c]["HandleAccept"], strand[c], "HandleAccept", <<0>>)
           => FrontOnly(io[c]["HandleAccept"], strand'[c], "HandleAccept", <<0>>)
  BY <1>1, MovedUp DEF Queued
<1>3. 1 \notin Queued(c, "HandleAccept")
  BY <1>1 DEF Queued, Positions
<1>4. OnItsWay(c, "HandleAccept")' <=> OnItsWay(c, "HandleAccept")
  <2>1. Queued(c, "HandleAccept")' = {} <=> Queued(c, "HandleAccept") = {}
    BY <1>2, <1>3
  <2> QED BY <2>1 DEF OnItsWay
<1>5. (Unmet(c)' <=> Unmet(c)) /\ OnePlace(c)'
  BY <1>2, <1>4 DEF Unmet, Followed, OnePlace
<1>6. Met(c)' => Met(c)
  BY <1>2 DEF Met
<1>7. ~Untried(c)
  BY <1>1 DEF Untried
<1>8. Passive(c)' /\ Opened(c)' /\ Answered(c)'
  BY <1>5, <1>6 DEF SameApp, Followed, Passive, Opened, Answered
<1>9. Fresh(c)'
  <2> SUFFICES ASSUME dial[c] = "idle" \/ Unmet(c)
               PROVE  seen'[c].accept = 0 /\ Queued(c, "FinishAccept")' = {} /\ Used(c)'
    BY <1>5 DEF SameApp, Fresh
  <2>1. seen[c].accept = 0 /\ Queued(c, "FinishAccept") = {} /\ Used(c)
    BY <1>7 DEF Followed, Fresh
  <2>2. Head(strand[c]).do # "FinishAccept"
    BY <1>1, <2>1 DEF Queued, Positions
  <2>3. Queued(c, "FinishAccept")' = {}
    BY <1>1, <2>1, MovedUp DEF Queued
  <2> QED BY <2>1, <2>2, <2>3 DEF SameApp, Used
<1> QED BY <1>5, <1>8, <1>9 DEF Followed

LEMMA ErrorFollowed ==
  ASSUME IInv, NEW c \in Conns, StartError(c), Followed(c)
  PROVE  /\ io'[c]["HandleAccept"] = io[c]["HandleAccept"] /\ io'[c]["HandleConnect"] = {}
         /\ seen'[c].accept = seen[c].accept
         /\ error'[c] /\ socket'[c] \in {socket[c], "closed"}
<1>1. CASE error[c]
  BY <1>1 DEF StartError, Followed, Passive
<1>2. CASE ~error[c]
  <2>1. /\ error'[c] = TRUE /\ socket'[c] = "closed"
        /\ \A k \in OwnOps : io'[c][k] = Cancel(io[c][k])
    BY <1>2, StartErrorEffect DEF IInv, Typed
  <2>4. seen'[c].accept = seen[c].accept
    <3>1. seen' = [seen EXCEPT ![c].error = @ + 1] /\ seen \in [Conns -> Reports] /\ seen[c] \in Reports
      BY <1>2 DEF StartError, IInv, Typed
    <3> QED BY <3>1 DEF Reports
  <2>2. io'[c]["HandleConnect"] = {}
    BY <2>1, CancelKeeps DEF OwnOps, Followed, Passive
  <2>3. io'[c]["HandleAccept"] = io[c]["HandleAccept"]
    BY <1>2 DEF StartError, IInv, Typed, Completions, OwnOps
  <2> QED BY <2>1, <2>2, <2>3, <2>4
<1> QED BY <1>1, <1>2

\* The handlers of Connection.
LEMMA HandlerFollowed ==
  ASSUME IInv, NEW c \in Conns, Handler(c), AskedFor(c)' = AskedFor(c), Followed(c)
  PROVE  Followed(c)'
<1>1. strand[c] # <<>> /\ SameApp(c) /\ io[c]["HandleConnect"] = {} /\ Head(strand[c]).do # "HandleAccept"
  BY DEF SameApp, Followed, Passive, Handler, Runs, appVars, DispatchSend, DispatchRecv, DispatchTimer,
     HandleConnect, HandleSend, HandleRecv, HandleTimer
<1>2. /\ "HandleAccept" \in Completions /\ "HandleAccept" \notin OwnOps /\ "HandleConnect" \in Completions
      /\ "DispatchTimer" \in Completions
  BY DEF Completions, OwnOps
<1>3. Pop(c) => MovesUp(strand[c], strand'[c])
  BY <1>1, PopStep DEF MovesUp
<1>4. CASE StartError(c) /\ Pop(c)
  BY <1>1, <1>3, <1>4, ErrorFollowed, ServeFollowed
<1>5. ASSUME Pop(c), Head(strand[c]).do \notin {"DispatchTimer", "HandleTimer"}, UNCHANGED <<error, socket>>,
             seen'[c].accept = seen[c].accept,
             NEW k \in {"HandleSend", "HandleRecv"}, \A l \in Completions \ {k} : io'[c][l] = io[c][l]
      PROVE  Followed(c)'
  <2>1. Watched(c) => Watched(c)'
    BY <1>1, <1>2, <1>5, PopWatched
  <2> QED BY <1>1, <1>2, <1>3, <1>5, <2>1, ServeFollowed
<1>6. CASE DispatchSend(c)
  <2>1. Pop(c) /\ Head(strand[c]).do = "DispatchSend" /\ UNCHANGED <<error, socket, seen>>
    BY <1>6 DEF DispatchSend, Runs
  <2>2. UNCHANGED io \/ \E queue : StartSend(c, queue)
    BY <1>6 DEF DispatchSend
  <2>3. \A l \in Completions \ {"HandleSend"} : io'[c][l] = io[c][l]
    BY <2>2, StartSendEffect
  <2> QED BY <1>5, <2>1, <2>3
<1>7. CASE DispatchRecv(c)
  <2>1. Pop(c) /\ Head(strand[c]).do = "DispatchRecv" /\ UNCHANGED <<error, socket, seen>>
    BY <1>7 DEF DispatchRecv, Runs
  <2>2. UNCHANGED io \/ \E r : StartRecv(c, r)
    BY <1>7 DEF DispatchRecv
  <2>3. \A l \in Completions \ {"HandleRecv"} : io'[c][l] = io[c][l]
    BY <2>2, StartRecvEffect
  <2> QED BY <1>5, <2>1, <2>3
<1>8. CASE DispatchTimer(c)
  <2> DEFINE j == NewJob("HandleTimer", 0, Arg(c).ec)
  <2>1. /\ strand'[c] = Append(Tail(strand[c]), j) /\ UNCHANGED <<error, socket, io, seen>>
    BY <1>8 DEF DispatchTimer, IInv, Typed
  <2>2. j.do = "HandleTimer" /\ Tail(strand[c]) \in Seq(Job)
    BY <1>1, PopFit DEF NewJob
  <2>3. j \in Job
    BY <1>1, PopFit DEF NewJob, NewOp, Job, Posts, Arg
  <2> HIDE DEF j
  <2>4. MovesUp(strand[c], strand'[c])
    BY <2>1, <2>2, <2>3 DEF MovesUp
  <2>5. Watched(c)'
    <3>1. Len(Tail(strand[c])) + 1 \in DOMAIN strand'[c] /\ strand'[c][Len(Tail(strand[c])) + 1] = j
      <4> DEFINE rest == Tail(strand[c])
      <4>1. rest \in Seq(Job) /\ strand'[c] = Append(rest, j)
        BY <2>1, <2>2
      <4> HIDE DEF rest
      <4>2. Len(rest) + 1 \in DOMAIN strand'[c] /\ strand'[c][Len(rest) + 1] = j
        BY <2>3, <4>1
      <4> QED BY <4>2 DEF rest
    <3> QED BY <2>2, <3>1 DEF Watched, Queued, Positions
  <2> QED BY <1>1, <2>1, <2>4, <2>5, ServeFollowed
<1>9. CASE HandleTimer(c)
  <2>1. CASE StartTimer(c) /\ UNCHANGED <<error, socket, seen>> /\ Pop(c)
    <3>1. Watched(c)' /\ \A k \in Completions \ {"DispatchTimer"} : io'[c][k] = io[c][k]
      BY <2>1, StartTimerIo DEF Watched, OnItsWay
    <3> QED BY <1>1, <1>2, <1>3, <2>1, <3>1, ServeFollowed
  <2> QED BY <1>4, <1>9, <2>1 DEF HandleTimer
<1>10. CASE HandleConnect(c)
  <2>1. CASE UNCHANGED <<error, socket, io>> /\ seen'[c].accept = seen[c].accept /\ Pop(c)
    <3>1. Head(strand[c]).do = "HandleConnect"
      BY <1>10 DEF HandleConnect, Runs
    <3> QED BY <1>5, <2>1, <3>1
  <2>2. seen \in [Conns -> Reports] /\ seen[c] \in Reports
    BY DEF IInv, Typed
  <2>3. seen' = [seen EXCEPT ![c].connect = @ + 1] => seen'[c].accept = seen[c].accept
    BY <2>2 DEF Reports
  <2>4. Pop(c)
    BY <1>10 DEF HandleConnect
  <2>5. CASE UNCHANGED <<error, socket, io>> /\ seen' \in {seen, [seen EXCEPT ![c].connect = @ + 1]}
    BY <2>1, <2>3, <2>4, <2>5
  <2>6. \/ StartError(c)
        \/ UNCHANGED <<error, socket, io>> /\ seen' \in {seen, [seen EXCEPT ![c].connect = @ + 1]}
    BY <1>10 DEF HandleConnect
  <2> QED BY <1>4, <2>4, <2>5, <2>6
<1>11. CASE HandleSend(c)
  <2>1. ASSUME NEW queue, StartSend(c, queue), UNCHANGED <<error, socket>>, Pop(c),
               seen'[c].accept = seen[c].accept
        PROVE  Followed(c)'
    <3>1. Head(strand[c]).do = "HandleSend"
      BY <1>11 DEF HandleSend, Runs
    <3>2. \A l \in Completions \ {"HandleSend"} : io'[c][l] = io[c][l]
      BY <2>1, StartSendEffect
    <3> QED BY <1>5, <2>1, <3>1, <3>2
  <2>2. ~Fails(c, Arg(c).ec) => seen'[c].accept = seen[c].accept \/ StartError(c)
    BY <1>11 DEF HandleSend, IInv, Typed, Reports
  <2> QED BY <1>4, <1>11, <2>1, <2>2 DEF HandleSend
<1>12. CASE HandleRecv(c)
  <2>1. ASSUME UNCHANGED io \/ \E r : StartRecv(c, r), UNCHANGED <<error, socket>>, Pop(c),
               seen'[c].accept = seen[c].accept
        PROVE  Followed(c)'
    <3>1. Head(strand[c]).do = "HandleRecv"
      BY <1>12 DEF HandleRecv, Runs
    <3>2. \A l \in Completions \ {"HandleRecv"} : io'[c][l] = io[c][l]
      BY <2>1, StartRecvEffect
    <3> QED BY <1>5, <2>1, <3>1, <3>2
  <2>2. ~Fails(c, Arg(c).ec) => seen'[c].accept = seen[c].accept \/ StartError(c)
    BY <1>12 DEF HandleRecv, IInv, Typed, Reports
  <2> QED BY <1>4, <1>12, <2>1, <2>2 DEF HandleRecv
<1> QED BY <1>6, <1>7, <1>8, <1>9, <1>10, <1>11, <1>12 DEF Handler

LEMMA FinishFollowed ==
  ASSUME IInv, NEW c \in Conns, FinishAccept(c), AskedFor(c)' = AskedFor(c), Followed(c)
  PROVE  Followed(c)'
<1>1. /\ strand[c] # <<>> /\ Head(strand[c]).do = "FinishAccept" /\ Pop(c)
      /\ SameApp(c) /\ UNCHANGED <<socket, io, error>>
  BY DEF FinishAccept, Runs, appVars, SameApp
<1>2. MovesUp(strand[c], strand'[c]) /\ (Watched(c) => Watched(c)')
  BY <1>1, PopStep, PopWatched DEF MovesUp
<1> QED BY <1>1, <1>2, ServeFollowed DEF Followed, Passive

(***************************************************************************)
(* HandleAccept runs.                                                      *)
(***************************************************************************)
\* It was in the connection's strand, so it is nowhere else; what follows it
\* there are other handlers.
LEMMA AcceptTaken ==
  ASSUME IInv, NEW c \in Conns, Runs(c, "HandleAccept"), Followed(c)
  PROVE  /\ io[c]["HandleAccept"] = {} /\ AskedFor(c) = {} /\ dial[c] = "accepting"
         /\ Positions(Tail(strand[c]), "HandleAccept") = {}
         /\ strand[c] # <<>> /\ Tail(strand[c]) \in Seq(Job)
         /\ Arg(c).ec \in {"ok", "error"}
         /\ Arg(c).ec = "ok" => Met(c)
         /\ seen[c].accept = 0 /\ (error[c] => Used(c))
<1>1. strand[c] # <<>> /\ Head(strand[c]).do = "HandleAccept" /\ strand[c] \in Seq(Job)
  BY StateOf DEF Runs
<1>2. FrontOnly(io[c]["HandleAccept"], strand[c], "HandleAccept", <<0>>)
  BY DEF Followed, OnePlace
<1>3. io[c]["HandleAccept"] = {} /\ Positions(Tail(strand[c]), "HandleAccept") = {}
  BY <1>1, <1>2, FrontTake
<1>4. 1 \in Queued(c, "HandleAccept") /\ Head(strand[c]) = strand[c][1]
  BY <1>1, PositionsTail DEF Queued
<1>5. AskedFor(c) = {} /\ Unmet(c)
  BY <1>4 DEF Followed, OnePlace, OnItsWay, Unmet
<1>6. dial[c] = "accepting"
  BY <1>5 DEF Followed, Passive
<1>7. Arg(c).ec \in {"ok", "error"} /\ Tail(strand[c]) \in Seq(Job)
  BY <1>1, PopFit DEF Arg, Job, Status
<1>8. Arg(c).ec = "ok" => Met(c)
  BY <1>4 DEF Met, Arg
<1>9. seen[c].accept = 0 /\ (error[c] => Used(c))
  BY <1>5 DEF Followed, Fresh, Untried
<1> QED BY <1>1, <1>3, <1>5, <1>6, <1>7, <1>8, <1>9

\* After it the connection is met: it has its timer or its error.
LEMMA MetFollowed ==
  ASSUME IInv, NEW c \in Conns, Runs(c, "HandleAccept"), Followed(c),
         Positions(strand'[c], "HandleAccept") = {},
         io'[c]["HandleAccept"] = {}, io'[c]["HandleConnect"] = {},
         dial'[c] = dial[c], AskedFor(c)' = AskedFor(c), error'[c] \/ Watched(c)'
  PROVE  Followed(c)'
<1>1. AskedFor(c)' = {} /\ dial'[c] = "accepting" /\ Queued(c, "HandleAccept")' = {}
  BY AcceptTaken DEF Queued
<1>2. ~Unmet(c)' /\ ~Met(c)'
  BY <1>1 DEF Unmet, OnItsWay, Met
<1>3. OnePlace(c)'
  BY <1>1 DEF OnePlace, FrontOnly, Queued
<1>4. Passive(c)' /\ Opened(c)' /\ Answered(c)' /\ Fresh(c)'
  BY <1>1, <1>2 DEF Passive, Opened, Answered, Fresh
<1> QED BY <1>3, <1>4 DEF Followed

LEMMA FailsFollowed ==
  ASSUME IInv, NEW c \in Conns, HandleAcceptFails(c), AskedFor(c)' = AskedFor(c), Followed(c)
  PROVE  Followed(c)'
<1>1. Runs(c, "HandleAccept") /\ Pop(c) /\ StartError(c) /\ dial'[c] = dial[c]
  BY DEF HandleAcceptFails, appVars
<1>2. strand'[c] = Tail(strand[c])
  BY <1>1, PopStep, AcceptTaken
<1> QED BY <1>1, <1>2, AcceptTaken, ErrorFollowed, MetFollowed

LEMMA ClosedFollowed ==
  ASSUME IInv, NEW c \in Conns, HandleAcceptClosed(c), AskedFor(c)' = AskedFor(c), Followed(c)
  PROVE  Followed(c)'
<1>1. /\ Runs(c, "HandleAccept") /\ Pop(c) /\ AcceptorStartError /\ ~AcceptorFails(Arg(c).ec)
      /\ socket[c] = "closed" /\ UNCHANGED <<dial, error>>
  BY DEF HandleAcceptClosed, appVars
<1>2. strand'[c] = Tail(strand[c])
  BY <1>1, PopStep, AcceptTaken
<1>3. error[c]
  BY <1>1, AcceptTaken DEF AcceptorFails, Followed, Opened
<1>4. io'[c]["HandleAccept"] = {} /\ io'[c]["HandleConnect"] = {}
  <2>1. io'[c]["HandleConnect"] = io[c]["HandleConnect"] /\ "HandleAccept" \in Completions
    BY <1>1, AcceptorStartErrorIo, Names DEF OnlyAccepts, Completions
  <2>2. io[c]["HandleAccept"] = {} /\ Cancel({}) = {}
    BY <1>1, AcceptTaken DEF Cancel
  <2> QED BY <1>1, <2>1, <2>2, AcceptorStartErrorIo DEF Followed, Passive
<1> QED BY <1>1, <1>2, <1>3, <1>4, AcceptTaken, MetFollowed

LEMMA OpenFollowed ==
  ASSUME IInv, NEW c \in Conns, HandleAcceptOpen(c), AskedFor(c)' = AskedFor(c), Followed(c)
  PROVE  Followed(c)'
<1>1. Runs(c, "HandleAccept") /\ StartTimer(c) /\ dial'[c] = dial[c]
  BY DEF HandleAcceptOpen, appVars
<1>2. /\ Watched(c)' /\ io'[c]["HandleAccept"] = io[c]["HandleAccept"]
      /\ io'[c]["HandleConnect"] = io[c]["HandleConnect"]
  BY <1>1, StartTimerIo, Names DEF Watched, OnItsWay, Completions
<1> DEFINE rest == Tail(strand[c])
<1>3. rest \in Seq(Job) /\ Positions(rest, "HandleAccept") = {}
  BY <1>1, AcceptTaken
<1>4. PICK j \in Job : /\ j.do # "HandleAccept"
                       /\ strand'[c] \in {<<j>> \o rest, Append(rest, j), rest}
  <2>1. NewJob("FinishAccept", 0, "ok").do # "HandleAccept" /\ NewJob("HandleTimer", 0, "error").do # "HandleAccept"
    BY DEF NewJob
  <2> QED BY <2>1, OpenJobs DEF IInv, Typed
<1> HIDE DEF rest
<1>5. Positions(<<j>> \o rest, "HandleAccept") = {}
  <2>1. \A i \in DOMAIN (<<j>> \o rest) : (<<j>> \o rest)[i] = j \/ \E h \in DOMAIN rest : (<<j>> \o rest)[i] = rest[h]
    <3>1. /\ DOMAIN (<<j>> \o rest) = 1 .. Len(rest) + 1 /\ (<<j>> \o rest)[1] = j
          /\ \A i \in 2 .. Len(rest) + 1 : (<<j>> \o rest)[i] = rest[i - 1] /\ i - 1 \in DOMAIN rest
      BY <1>3
    <3>2. \A i \in 1 .. Len(rest) + 1 : i = 1 \/ i \in 2 .. Len(rest) + 1
      BY <1>3
    <3> QED BY <3>1, <3>2
  <2> QED BY <1>3, <1>4, <2>1 DEF Positions
<1>6. Positions(Append(rest, j), "HandleAccept") = {}
  BY <1>3, <1>4 DEF Positions
<1> QED BY <1>1, <1>2, <1>3, <1>4, <1>5, <1>6, AcceptTaken, MetFollowed DEF Followed, Passive

(***************************************************************************)
(* The acceptor's strand moves.                                            *)
(***************************************************************************)
LEMMA AskingPost ==
  ASSUME NEW jobs \in Seq(AJob), NEW j \in AJob, NEW d
  PROVE  /\ ~(j.do = "DispatchAccept" /\ j.conn = d) => Asking(Append(jobs, j), d) = Asking(jobs, d)
         /\ j.do = "DispatchAccept" /\ j.conn = d => Asking(Append(jobs, j), d) = Asking(jobs, d) \union {Len(jobs) + 1}
         /\ j.do # "HandleTimer" => Ticking(Append(jobs, j)) = Ticking(jobs)
         /\ j.do = "HandleTimer" => Ticking(Append(jobs, j)) = Ticking(jobs) \union {Len(jobs) + 1}
         /\ \A i \in DOMAIN jobs : Append(jobs, j)[i] = jobs[i]
         /\ Append(jobs, j)[Len(jobs) + 1] = j
BY DEF Asking, Ticking

LEMMA AskingPop ==
  ASSUME NEW jobs \in Seq(AJob), jobs # <<>>, NEW d
  PROVE  /\ Asking(Tail(jobs), d) = {i \in 1 .. Len(jobs) - 1 : i + 1 \in Asking(jobs, d)}
         /\ Ticking(Tail(jobs)) = {i \in 1 .. Len(jobs) - 1 : i + 1 \in Ticking(jobs)}
         /\ \A i \in DOMAIN Tail(jobs) : i + 1 \in DOMAIN jobs /\ Tail(jobs)[i] = jobs[i + 1]
         /\ Head(jobs) = jobs[1] /\ 1 \in DOMAIN jobs
BY DEF Asking, Ticking

\* The oldest handler is gone; it was not about connection d.
LEMMA AskingPopSame ==
  ASSUME aStrand \in Seq(AJob), aStrand # <<>>, aStrand' = Tail(aStrand), NEW d,
         Head(aStrand).do # "DispatchAccept" \/ Head(aStrand).conn # d
  PROVE  SameAsked(d)
<1>1. /\ AskedFor(d)' = {i \in 1 .. Len(aStrand) - 1 : i + 1 \in AskedFor(d)}
      /\ Head(aStrand) = aStrand[1]
  BY AskingPop DEF AskedFor
<1>2. 1 \notin AskedFor(d) /\ AskedFor(d) \subseteq 1 .. Len(aStrand)
  BY <1>1 DEF AskedFor, Asking
<1>3. \A i \in AskedFor(d) : i - 1 \in AskedFor(d)'
  <2>1. \A i \in AskedFor(d) : i \in 2 .. Len(aStrand)
    BY <1>2
  <2>2. \A i \in 2 .. Len(aStrand) : i - 1 \in 1 .. Len(aStrand) - 1 /\ (i - 1) + 1 = i
    OBVIOUS
  <2> QED BY <1>1, <2>1, <2>2
<1>4. (\A i, j \in AskedFor(d) : i = j) => \A i, j \in AskedFor(d)' : i = j
  <2> SUFFICES ASSUME \A i, j \in AskedFor(d) : i = j, NEW i \in AskedFor(d)', NEW j \in AskedFor(d)'
               PROVE  i = j
    OBVIOUS
  <2>1. i \in Nat /\ j \in Nat /\ i + 1 \in AskedFor(d) /\ j + 1 \in AskedFor(d)
    BY <1>1
  <2>2. i + 1 = j + 1
    BY <2>1
  <2> QED BY <2>1, <2>2
<1> QED BY <1>1, <1>3, <1>4 DEF SameAsked

LEMMA AskingPostSame ==
  ASSUME aStrand \in Seq(AJob), NEW j \in AJob, aStrand' = Append(aStrand, j), NEW d,
         j.do # "DispatchAccept" \/ j.conn # d
  PROVE  SameAsked(d)
BY AskingPost DEF AskedFor, SameAsked

LEMMA AcceptorJobs ==
  /\ \A ec \in {"ok", "error"} : TimerJob(ec) \in AJob /\ TimerJob(ec).do = "HandleTimer" /\ TimerJob(ec).ec = ec
  /\ \A c \in Conns : AcceptJob(c) \in AJob /\ AcceptJob(c).do = "DispatchAccept" /\ AcceptJob(c).conn = c
BY DEF TimerJob, AcceptJob, AJob

LEMMA AcceptFollowed ==
  ASSUME IInv, AcceptorTypeOK, NEW c \in Conns, Accept(c), NEW d \in Conns, Followed(d)
  PROVE  Followed(d)'
<1>1. /\ aStrand \in Seq(AJob) /\ aStrand' = Append(aStrand, AcceptJob(c))
      /\ UNCHANGED <<strand, socket, io, queueVars, error, peer, seen, asked>>
      /\ dial' = [dial EXCEPT ![c] = "accepting"] /\ dial[c] = "idle" /\ dial \in [Conns -> DialState]
  BY DEF Accept, APost, AcceptorTypeOK, IInv, Typed
<1>2. CASE d # c
  <2>1. Stays(d)
    BY <1>1, <1>2 DEF Stays, SameQueues, SameEnd, SameApp, queueVars
  <2>2. SameAsked(d)
    BY <1>1, <1>2, AcceptorJobs, AskingPostSame
  <2> QED BY <2>1, <2>2, StaysFollowed
<1>3. CASE d = c
  <2>1. AskedFor(c)' = AskedFor(c) \union {Len(aStrand) + 1}
    BY <1>1, AskingPost, AcceptorJobs DEF AskedFor
  <2>2. /\ AskedFor(c) = {} /\ ~OnItsWay(c, "HandleAccept") /\ socket[c] = "closed"
        /\ io[c]["HandleConnect"] = {} /\ Fresh(c)
    BY <1>1, <1>3 DEF Followed, Passive, Opened, Unmet
  <2>3. /\ strand'[c] = strand[c] /\ io'[c] = io[c] /\ SameEnd(c) /\ asked'[c] = asked[c]
        /\ dial'[c] = "accepting" /\ AskedFor(c)' = {Len(aStrand) + 1}
    BY <1>1, <2>1, <2>2 DEF SameEnd
  <2>4. ~OnItsWay(c, "HandleAccept")' /\ Unmet(c)' /\ ~Met(c)'
    BY <2>2, <2>3 DEF OnItsWay, Unmet, Met, Queued
  <2>5. OnePlace(c)'
    BY <2>3, <2>4 DEF OnePlace, OnItsWay, FrontOnly, Queued
  <2>7. Passive(c)' /\ Opened(c)' /\ Answered(c)'
    BY <2>2, <2>3, <2>4 DEF SameEnd, Passive, Opened, Answered
  <2>8. Fresh(c)'
    BY <1>1, <2>2, <2>3 DEF SameEnd, Fresh, Used, Untried, Queued
  <2> QED BY <1>3, <2>5, <2>7, <2>8 DEF Followed
<1> QED BY <1>2, <1>3

LEMMA DispatchAcceptFollowed ==
  ASSUME IInv, AcceptorTypeOK, DispatchAccept, Head(aStrand).conn \in Conns, NEW d \in Conns, Followed(d)
  PROVE  Followed(d)'
<1>0. PICK c \in Conns : c = Head(aStrand).conn
  OBVIOUS
<1>1. /\ aStrand \in Seq(AJob) /\ aStrand # <<>> /\ aStrand' = Tail(aStrand)
      /\ Head(aStrand).do = "DispatchAccept"
      /\ UNCHANGED <<strand, socket, dial, queueVars, error, peer, seen, asked>>
  BY DEF DispatchAccept, ARuns, APop, AcceptorTypeOK, netVars, appVars
<1>2. PICK ec \in {"pending", "error"} :
        io' = [io EXCEPT ![c]["HandleAccept"] = io[c]["HandleAccept"] \union {NewOp(0, ec)}]
  BY <1>0 DEF DispatchAccept
<1>3. /\ 1 \in AskedFor(c) /\ 1 \in DOMAIN aStrand
      /\ AskedFor(c)' = {i \in 1 .. Len(aStrand) - 1 : i + 1 \in AskedFor(c)}
  <2>1. Head(aStrand) = aStrand[1] /\ 1 \in DOMAIN aStrand
    BY <1>1
  <2>2. AskedFor(c)' = {i \in 1 .. Len(aStrand) - 1 : i + 1 \in AskedFor(c)}
    BY <1>1, AskingPop DEF AskedFor
  <2> QED BY <1>0, <1>1, <2>1, <2>2 DEF AskedFor, Asking
<1>4. d # c => SameAsked(d)
  BY <1>0, <1>1, AskingPopSame
<1>5. io[c]["HandleAccept"] \union {NewOp(0, ec)} \in SUBSET Op
  BY <1>1, StateOf, NewOps DEF Completions, Status
<1>6. /\ io'[c]["HandleAccept"] = io[c]["HandleAccept"] \union {NewOp(0, ec)}
      /\ OnlyAccepts /\ \A e \in Conns \ {c} : io'[e] = io[e]
  BY <1>1, <1>2, <1>5, AcceptIo
<1>7. CASE d # c
  <2>1. Stays(d)
    BY <1>1, <1>6, <1>7 DEF Stays, SameQueues, SameEnd, SameApp, queueVars
  <2> QED BY <1>4, <1>7, <2>1, StaysFollowed
<1>8. CASE d = c
  <2>1. io[c]["HandleAccept"] = {} /\ Queued(c, "HandleAccept") = {} /\ Unmet(c) /\ dial[c] = "accepting"
    BY <1>3, <1>8 DEF Followed, OnePlace, OnItsWay, Unmet, Passive
  <2>2. AskedFor(c)' = {}
    <3>1. \A i \in AskedFor(c) : i = 1
      BY <1>3, <1>8 DEF Followed, OnePlace
    <3>2. \A i \in 1 .. Len(aStrand) - 1 : i + 1 # 1
      OBVIOUS
    <3> QED BY <1>3, <3>1, <3>2
  <2>3. io'[c]["HandleAccept"] = {NewOp(0, ec)} /\ NewOp(0, ec).id = 0 /\ NewOp(0, ec).ec # "ok"
    BY <1>6, <2>1 DEF NewOp
  <2>4. Queued(c, "HandleAccept")' = {} /\ Positions(strand'[c], "HandleAccept") = {}
    BY <1>1, <2>1 DEF Queued
  <2>5. FrontOnly(io'[c]["HandleAccept"], strand'[c], "HandleAccept", <<0>>)
    BY <2>3, <2>4, FrontStart
  <2>6. OnePlace(c)' /\ Unmet(c)' /\ ~Met(c)'
    BY <2>2, <2>3, <2>4, <2>5 DEF OnePlace, Unmet, OnItsWay, Met
  <2>7. Passive(c)'
    <3>1. "HandleConnect" \in Completions \ {"HandleAccept"}
      BY DEF Completions, OwnOps
    <3>2. io'[c]["HandleConnect"] = {} /\ dial'[c] = "accepting"
      BY <1>1, <1>6, <1>8, <2>1, <3>1 DEF OnlyAccepts, Followed, Passive
    <3> QED BY <3>2 DEF Passive
  <2>8. Opened(c)' /\ Answered(c)'
    BY <1>1, <2>1, <2>2, <2>6 DEF Opened, Answered
  <2>9. Fresh(c)'
    <3>1. OwnOps \subseteq Completions \ {"HandleAccept"}
      BY DEF Completions, OwnOps
    <3>2. \A k \in OwnOps : io'[c][k] = io[c][k]
      BY <1>1, <1>6, <3>1 DEF OnlyAccepts
    <3>3. Fresh(c) /\ strand'[c] = strand[c] /\ error'[c] = error[c] /\ seen'[c] = seen[c] /\ asked'[c] = asked[c]
      BY <1>1, <1>8 DEF Followed
    <3> QED BY <2>1, <3>2, <3>3 DEF Fresh, Used, Untried, Queued
  <2> QED BY <1>8, <2>6, <2>7, <2>8, <2>9 DEF Followed
<1> QED BY <1>7, <1>8

LEMMA ClientFollowed ==
  ASSUME IInv, AcceptorTypeOK, AcceptQueue, ClientConnects, NEW d \in Conns, Followed(d)
  PROVE  Followed(d)'
<1>0. PICK c \in Conns : c = Head(accepts)
  BY DEF ClientConnects, AcceptorTypeOK
<1>1. /\ 1 \in DOMAIN accepts /\ accepts[1] = c
      /\ UNCHANGED <<strand, dial, queueVars, error, peer, seen, asked, aStrand>>
  BY <1>0 DEF ClientConnects, AcceptorTypeOK
<1>2. PICK ec \in {"ok", "error"} :
        /\ io' = [io EXCEPT ![c]["HandleAccept"] = {[o EXCEPT !.ec = ec] : o \in io[c]["HandleAccept"]}]
        /\ socket' = [socket EXCEPT ![c] = IF ec = "ok" THEN "connected" ELSE socket[c]]
  BY <1>0 DEF ClientConnects
<1>3. PICK o \in io[c]["HandleAccept"] : o.ec = "pending"
  BY <1>1 DEF AcceptQueue
<1>4. io[c]["HandleAccept"] \in SUBSET Op /\ {[p EXCEPT !.ec = ec] : p \in io[c]["HandleAccept"]} \in SUBSET Op
  <2>1. io[c]["HandleAccept"] \in SUBSET Op
    BY <1>1, StateOf DEF Completions
  <2> QED BY <2>1 DEF Op, Status
<1>5. /\ io'[c]["HandleAccept"] = {[p EXCEPT !.ec = ec] : p \in io[c]["HandleAccept"]}
      /\ OnlyAccepts /\ \A e \in Conns \ {c} : io'[e] = io[e]
  <2> DEFINE ops == {[p EXCEPT !.ec = ec] : p \in io[c]["HandleAccept"]}
  <2>1. ops \in SUBSET Op /\ io' = [io EXCEPT ![c]["HandleAccept"] = ops]
    BY <1>2, <1>4
  <2> HIDE DEF ops
  <2>2. io'[c]["HandleAccept"] = ops /\ OnlyAccepts /\ \A e \in Conns \ {c} : io'[e] = io[e]
    BY <2>1, AcceptIo
  <2> QED BY <2>2 DEF ops
<1>6. AskedFor(d)' = AskedFor(d) /\ socket \in [Conns -> SocketState]
  BY <1>1 DEF AskedFor, IInv, Typed
<1>7. CASE d # c
  <2>1. Stays(d)
    BY <1>1, <1>2, <1>5, <1>6, <1>7 DEF Stays, SameQueues, SameEnd, SameApp, queueVars
  <2> QED BY <1>6, <2>1, StaysFollowed DEF SameAsked
<1>8. CASE d = c
  <2>1. io[c]["HandleAccept"] = {o} /\ Queued(c, "HandleAccept") = {} /\ o.id = 0 /\ o \in Op
    BY <1>3, <1>4, <1>8 DEF Followed, OnePlace, FrontOnly, Queued
  <2>2. AskedFor(c) = {} /\ dial[c] = "accepting" /\ Unmet(c)
    BY <1>3, <1>8 DEF Followed, OnePlace, OnItsWay, Unmet, Passive, Completions
  <2>3. io'[c]["HandleAccept"] = {[o EXCEPT !.ec = ec]} /\ [o EXCEPT !.ec = ec].id = 0 /\ [o EXCEPT !.ec = ec].ec = ec
    BY <1>5, <2>1 DEF Op
  <2>4. Queued(c, "HandleAccept")' = {} /\ Positions(strand'[c], "HandleAccept") = {}
    BY <1>1, <2>1 DEF Queued
  <2>5. FrontOnly(io'[c]["HandleAccept"], strand'[c], "HandleAccept", <<0>>)
    <3>1. \A n : n.id = 0 => FrontOnly({n}, strand'[c], "HandleAccept", <<0>>)
      BY <2>4, FrontStart
    <3> QED BY <2>3, <3>1
  <2>6. OnePlace(c)' /\ Unmet(c)' /\ (Met(c)' => ec = "ok")
    BY <1>6, <1>8, <2>2, <2>3, <2>4, <2>5 DEF OnePlace, Unmet, OnItsWay, Met
  <2>7. Passive(c)'
    <3>1. "HandleConnect" \in Completions \ {"HandleAccept"}
      BY DEF Completions, OwnOps
    <3>2. io'[c]["HandleConnect"] = {} /\ dial'[c] = "accepting"
      BY <1>1, <1>5, <1>8, <2>2, <3>1 DEF OnlyAccepts, Followed, Passive
    <3> QED BY <3>2 DEF Passive
  <2>8. Opened(c)' /\ Answered(c)'
    <3>1. ec = "ok" => socket'[c] = "connected"
      BY <1>1, <1>2, <1>6
    <3> QED BY <1>1, <1>6, <1>8, <2>2, <2>6, <3>1 DEF Opened, Answered
  <2>9. Fresh(c)'
    <3>1. OwnOps \subseteq Completions \ {"HandleAccept"}
      BY DEF Completions, OwnOps
    <3>2. \A k \in OwnOps : io'[c][k] = io[c][k]
      BY <1>1, <1>5, <3>1 DEF OnlyAccepts
    <3>3. Fresh(c) /\ strand'[c] = strand[c] /\ error'[c] = error[c] /\ seen'[c] = seen[c] /\ asked'[c] = asked[c]
      BY <1>1, <1>8 DEF Followed
    <3> QED BY <2>2, <3>2, <3>3 DEF Fresh, Used, Untried, Queued
  <2> QED BY <1>8, <2>6, <2>7, <2>8, <2>9 DEF Followed
<1> QED BY <1>7, <1>8

\* Every step of the composition.
LEMMA SameFollowed ==
  ASSUME \A d \in Conns : Stays(d) /\ SameAsked(d) /\ Followed(d)
  PROVE  \A d \in Conns : Followed(d)'
BY StaysFollowed

LEMMA QuietFollowed ==
  ASSUME AInv, Stopping \/ Stopped \/ Listen \/ ListenThrows \/ AcceptorStop \/ AcceptorExpire
               \/ AcceptorDeliver \/ UNCHANGED allVars
  PROVE  \A d \in Conns : Followed(d)'
<1>1. \A d \in Conns : Stays(d)
  BY DEF Stopping, Stopped, HiveStop, HiveStopped, Listen, ListenThrows, AcceptorStop, AcceptorExpire,
     AcceptorDeliver, notListening, allVars, vars, queueVars, Stays, SameQueues, SameEnd, SameApp
<1>2. aStrand \in Seq(AJob) /\ aWaits \subseteq Op
  BY DEF AInv, Own, AcceptorTypeOK
<1>3. aStrand' = aStrand \/ \E ec \in {"ok", "error"} : aStrand' = Append(aStrand, TimerJob(ec))
  BY <1>2 DEF Stopping, Stopped, Listen, ListenThrows, AcceptorStop, AcceptorExpire, AcceptorDeliver,
     acceptorVars, allVars, APost, Op, Status
<1>4. \A d \in Conns : SameAsked(d)
  BY <1>2, <1>3, AcceptorJobs, AskingPostSame DEF SameAsked, AskedFor
<1> QED BY <1>1, <1>4, SameFollowed DEF AInv

LEMMA TimerFollowed ==
  ASSUME AInv, AcceptorHandleTimer
  PROVE  \A d \in Conns : Followed(d)'
<1>1. /\ aStrand # <<>> /\ aStrand' = Tail(aStrand) /\ Head(aStrand).do = "HandleTimer"
      /\ aStrand \in Seq(AJob) /\ UNCHANGED <<strand, socket, dial, queueVars, error, peer, seen, asked>>
  BY DEF AcceptorHandleTimer, ARuns, APop, AInv, Own, AcceptorTypeOK, netVars, appVars
<1>2. \A d \in Conns : SameAsked(d)
  BY <1>1, AskingPopSame
<1>3. CASE UNCHANGED io
  <2>1. \A d \in Conns : Stays(d)
    BY <1>1, <1>3 DEF Stays, SameQueues, SameEnd, SameApp, queueVars
  <2> QED BY <1>2, <2>1, SameFollowed DEF AInv
<1>4. CASE OnlyAccepts /\ \A d \in Conns : io'[d]["HandleAccept"] = Cancel(io[d]["HandleAccept"])
  BY <1>1, <1>2, <1>4, AbortFollowed DEF AInv, SameEnd, SameApp
<1>5. AcceptorStartError \/ UNCHANGED io
  BY DEF AcceptorHandleTimer
<1> QED BY <1>3, <1>4, <1>5, AcceptorStartErrorIo DEF AInv

\* A step that is about one connection.
LEMMA OneFollowed ==
  ASSUME AInv, NEW c \in Conns,
         Call(c) \/ ConnectionHandler(c) \/ Traffic(c) \/ \E k \in Completions : Dispatch(c, k)
  PROVE  \A d \in Conns : Followed(d)'
<1>1. IInv /\ \A d \in Conns : Followed(d)
  BY DEF AInv
<1>2. ASSUME UNCHANGED acceptorVars
      PROVE  \A d \in Conns : AskedFor(d)' = AskedFor(d) /\ SameAsked(d)
  BY <1>2 DEF acceptorVars, AskedFor, SameAsked
<1>3. ASSUME Handler(c) \/ Calls(c) \/ Network(c) \/ \E k \in Completions : Deliver(c, k),
             UNCHANGED acceptorVars, Followed(c)'
      PROVE  \A d \in Conns : Followed(d)'
  <2>1. \A d \in Conns \ {c} : Stays(d)
    BY <1>1, <1>3, ConnectionSteps
  <2> QED BY <1>1, <1>2, <1>3, <2>1, StaysFollowed
<1>4. CASE Call(c)
  <2>1. Calls(c) /\ UNCHANGED acceptorVars
    BY <1>4 DEF Call
  <2>2. PICK j \in Job : strand'[c] = Append(strand[c], j) /\ j.do \notin {"HandleAccept", "FinishAccept"}
    <3>1. \A f \in Posts, n \in Nat :
            /\ NewJob(f, n, "ok") \in Job /\ NewJob(f, n, "error") \in Job
            /\ NewJob(f, n, "ok").do = f /\ NewJob(f, n, "error").do = f
      BY DEF NewJob, NewOp, Job, Status
    <3>2. asked[c].send + 1 \in Nat /\ asked[c].recv + 1 \in Nat
      BY <1>1, ConnectionAssumption DEF Counts, IInv, Typed
    <3>3. strand \in [Conns -> Seq(Job)]
      BY <1>1 DEF IInv, Typed
    <3>4. \E f \in {"DispatchSend", "DispatchRecv", "HandleTimer"} : \E n \in Nat : \E ec \in {"ok", "error"} :
            strand'[c] = Append(strand[c], NewJob(f, n, ec))
      BY <2>1, <3>2, <3>3 DEF Calls, Send, Recv, Disconnect, Post
    <3>5. "DispatchSend" \in Posts /\ "DispatchRecv" \in Posts /\ "HandleTimer" \in Posts
      BY DEF Posts
    <3> QED BY <3>1, <3>4, <3>5
  <2>3. io'[c] = io[c] /\ SameEnd(c) /\ dial'[c] = dial[c]
    BY <2>1 DEF Calls, Send, Recv, Disconnect, SameEnd
  <2>5. Used(c)'
    <3>1. /\ asked \in [Conns -> Counts] /\ asked[c].send \in Nat /\ asked[c].recv \in Nat /\ asked[c].off \in Nat
          /\ asked[c] \in Counts
      BY <1>1, ConnectionAssumption DEF IInv, Typed, Counts
    <3>2. \/ asked' = [asked EXCEPT ![c].send = @ + 1]
          \/ asked' = [asked EXCEPT ![c].recv = @ + 1]
          \/ asked' = [asked EXCEPT ![c].off = @ + 1]
      BY <2>1 DEF Calls, Send, Recv, Disconnect
    <3>3. \/ asked'[c].send = asked[c].send + 1 /\ asked'[c].recv = asked[c].recv /\ asked'[c].off = asked[c].off
          \/ asked'[c].recv = asked[c].recv + 1 /\ asked'[c].send = asked[c].send /\ asked'[c].off = asked[c].off
          \/ asked'[c].off = asked[c].off + 1 /\ asked'[c].send = asked[c].send /\ asked'[c].recv = asked[c].recv
      BY <3>1, <3>2 DEF Counts
    <3> QED BY <3>1, <3>3 DEF Used
  <2>4. Followed(c)'
    BY <1>1, <1>2, <2>1, <2>2, <2>3, <2>5, PostFollowed
  <2> QED BY <1>3, <2>1, <2>4
<1>5. CASE Handler(c) /\ UNCHANGED acceptorVars
  <2>1. Followed(c)'
    BY <1>1, <1>2, <1>5, HandlerFollowed
  <2> QED BY <1>3, <1>5, <2>1
<1>6. CASE Traffic(c)
  <2>1. Network(c) /\ UNCHANGED acceptorVars
    BY <1>6 DEF Traffic
  <2>2. Followed(c)'
    BY <1>1, <1>2, <2>1, NetworkFollowed
  <2> QED BY <1>3, <2>1, <2>2
<1>7. ASSUME NEW k \in Completions, Dispatch(c, k)
      PROVE  \A d \in Conns : Followed(d)'
  <2>1. Deliver(c, k) /\ UNCHANGED acceptorVars
    BY <1>7 DEF Dispatch
  <2>2. Followed(c)'
    BY <1>1, <1>2, <2>1, DeliverFollowed
  <2> QED BY <1>3, <2>1, <2>2
<1>8. CASE HandleAcceptFails(c) \/ HandleAcceptOpen(c) \/ FinishAccept(c)
  <2>1. UNCHANGED acceptorVars
    BY <1>8 DEF HandleAcceptFails, HandleAcceptOpen, FinishAccept
  <2>2. Followed(c)'
    BY <1>1, <1>2, <1>8, <2>1, FailsFollowed, OpenFollowed, FinishFollowed
  <2>3. \A d \in Conns \ {c} : strand'[d] = strand[d]
    BY <1>1, <1>8 DEF HandleAcceptFails, HandleAcceptOpen, FinishAccept, Pop, IInv, Typed
  <2>4. \A d \in Conns \ {c} : io'[d] = io[d] /\ SameEnd(d)
    <3>1. CASE HandleAcceptFails(c)
      BY <1>1, <3>1, StartErrorElsewhere DEF HandleAcceptFails
    <3>2. CASE HandleAcceptOpen(c)
      BY <1>1, <3>2, StartTimerIo DEF HandleAcceptOpen, SameEnd
    <3>3. CASE FinishAccept(c)
      BY <1>1, <3>3 DEF FinishAccept, SameEnd, IInv, Typed
    <3> QED BY <1>8, <3>1, <3>2, <3>3
  <2>5. UNCHANGED <<queueVars, peer, asked, dial>>
    BY <1>8 DEF HandleAcceptFails, HandleAcceptOpen, FinishAccept, netVars, appVars
  <2>6. \A d \in Conns \ {c} : Stays(d)
    BY <2>3, <2>4, <2>5 DEF Stays, SameQueues, SameApp, queueVars
  <2> QED BY <1>1, <1>2, <2>1, <2>2, <2>6, StaysFollowed
<1>9. CASE HandleAcceptClosed(c)
  <2>1. /\ AcceptorStartError /\ \A d \in Conns \ {c} : strand'[d] = strand[d]
        /\ UNCHANGED <<aStrand, socket, queueVars, error, seen, peer, asked, dial>>
    BY <1>1, <1>9 DEF HandleAcceptClosed, Pop, IInv, Typed, netVars, appVars
  <2>2. \A d \in Conns : AskedFor(d)' = AskedFor(d) /\ SameAsked(d)
    BY <2>1 DEF AskedFor, SameAsked
  <2>3. Followed(c)'
    BY <1>1, <1>9, <2>2, ClosedFollowed
  <2>4. ASSUME NEW d \in Conns \ {c}
        PROVE  Followed(d)'
    <3>1. SameEnd(d) /\ SameApp(d) /\ SameQueues(d) /\ peer'[d] = peer[d]
      BY <2>1 DEF SameEnd, SameApp, SameQueues, queueVars
    <3>2. CASE UNCHANGED io
      BY <1>1, <2>1, <2>2, <3>1, <3>2, StaysFollowed DEF Stays
    <3>3. CASE OnlyAccepts /\ io'[d]["HandleAccept"] = Cancel(io[d]["HandleAccept"])
      BY <1>1, <2>1, <2>2, <3>1, <3>3, AbortFollowed
    <3> QED BY <1>1, <2>1, <3>2, <3>3, AcceptorStartErrorIo
  <2> QED BY <2>3, <2>4
<1> QED BY <1>4, <1>5, <1>6, <1>7, <1>8, <1>9 DEF ConnectionHandler, HandleAccept

LEMMA HeadKnown ==
  ASSUME AInv, DispatchAccept
  PROVE  Head(aStrand).conn \in Conns
<1>1. 1 \in DOMAIN aStrand /\ aStrand[1].do = "DispatchAccept" /\ Head(aStrand) = aStrand[1]
  BY DEF DispatchAccept, ARuns, AInv, Own, AcceptorTypeOK
<1> QED BY <1>1 DEF AInv, Own, AcceptsKnown

LEMMA FollowedNext ==
  ASSUME AInv, [AcceptorNext]_allVars
  PROVE  \A d \in Conns : Followed(d)'
<1>1. IInv /\ AcceptorTypeOK /\ AcceptQueue /\ \A d \in Conns : Followed(d)
  BY DEF AInv, Own
<1>2. CASE AcceptorHandler
  BY <1>1, <1>2, TimerFollowed, DispatchAcceptFollowed, HeadKnown DEF AcceptorHandler
<1>3. CASE ClientConnects
  BY <1>1, <1>3, ClientFollowed
<1>4. ASSUME NEW c \in Conns, Accept(c)
      PROVE  \A d \in Conns : Followed(d)'
  BY <1>1, <1>4, AcceptFollowed
<1> QED BY <1>2, <1>3, <1>4, QuietFollowed, OneFollowed DEF AcceptorNext

(***************************************************************************)
(* The acceptor's own state.                                               *)
(***************************************************************************)
LEMMA TickOps ==
  ASSUME NEW waits \in SUBSET Op
  PROVE  /\ Cancel(waits) \union {NewOp(0, "pending")} \in SUBSET Op
         /\ \A o \in waits : (waits \ {o}) \union {[o EXCEPT !.ec = "ok"]} \in SUBSET Op
BY CancelKeeps, NewOps DEF Op, Status

LEMMA StartErrorOwn ==
  ASSUME AcceptorTypeOK, ErrorSeen, AcceptorStartError, UNCHANGED aStops
  PROVE  /\ acceptor' \in AcceptorState /\ aWaits' \subseteq Op /\ accepts' \in Seq(Conns)
         /\ aError' \in BOOLEAN /\ aSeen' \in 0 .. 1 /\ ErrorSeen'
<1>1. Cancel(aWaits) \subseteq Op
  BY CancelKeeps DEF AcceptorTypeOK
<1>2. CASE UNCHANGED <<aError, acceptor, aWaits, accepts, aSeen>>
  BY <1>2 DEF AcceptorTypeOK, ErrorSeen
<1>3. CASE /\ ~aError /\ aError' = TRUE /\ acceptor' = IF acceptor = "listening" THEN "closed" ELSE acceptor
           /\ accepts' = <<>> /\ aWaits' = Cancel(aWaits) /\ aSeen' = aSeen + 1
  BY <1>1, <1>3 DEF AcceptorTypeOK, AcceptorState, ErrorSeen
<1> QED BY <1>2, <1>3 DEF AcceptorStartError

\* What the strand of the acceptor becomes.
LEMMA StrandOfAcceptor ==
  ASSUME AInv, [AcceptorNext]_allVars
  PROVE  \/ aStrand' = aStrand
         \/ aStrand # <<>> /\ aStrand' = Tail(aStrand)
         \/ \E ec \in {"ok", "error"} : aStrand' = Append(aStrand, TimerJob(ec))
         \/ \E c \in Conns : aStrand' = Append(aStrand, AcceptJob(c))
<1>0. aWaits \subseteq Op
  BY DEF AInv, Own, AcceptorTypeOK
<1>1. CASE AcceptorHandler
  BY <1>1 DEF AcceptorHandler, DispatchAccept, AcceptorHandleTimer, ARuns, APop
<1>2. CASE Stopping \/ Stopped \/ Listen \/ ListenThrows \/ ClientConnects \/ AcceptorExpire \/ UNCHANGED allVars
  BY <1>2 DEF Stopping, Stopped, Listen, ListenThrows, ClientConnects, AcceptorExpire, allVars, acceptorVars
<1>3. CASE AcceptorStop \/ AcceptorDeliver
  BY <1>0, <1>3 DEF AcceptorStop, AcceptorDeliver, APost, Op, Status
<1>4. ASSUME NEW c \in Conns,
             \/ Accept(c) \/ Call(c) \/ ConnectionHandler(c) \/ Traffic(c)
             \/ \E k \in Completions : Dispatch(c, k)
      PROVE  aStrand' = aStrand \/ aStrand' = Append(aStrand, AcceptJob(c))
  BY <1>4 DEF Accept, Call, ConnectionHandler, HandleAccept, HandleAcceptFails, HandleAcceptClosed,
     HandleAcceptOpen, FinishAccept, Traffic, Dispatch, APost, acceptorVars
<1> QED BY <1>1, <1>2, <1>3, <1>4 DEF AcceptorNext

LEMMA StrandTyped ==
  ASSUME AInv, [AcceptorNext]_allVars
  PROVE  aStrand' \in Seq(AJob) /\ AcceptsKnown'
<1>1. aStrand \in Seq(AJob) /\ AcceptsKnown
  BY DEF AInv, Own, AcceptorTypeOK
<1>2. CASE aStrand' = aStrand
  BY <1>1, <1>2 DEF AcceptsKnown
<1>3. CASE aStrand # <<>> /\ aStrand' = Tail(aStrand)
  BY <1>1, <1>3, AskingPop DEF AcceptsKnown
<1>4. ASSUME NEW j \in AJob, aStrand' = Append(aStrand, j), j.do = "DispatchAccept" => j.conn \in Conns
      PROVE  aStrand' \in Seq(AJob) /\ AcceptsKnown'
  <2>1. /\ aStrand' \in Seq(AJob) /\ DOMAIN aStrand' = DOMAIN aStrand \union {Len(aStrand) + 1}
        /\ aStrand'[Len(aStrand) + 1] = j /\ \A i \in DOMAIN aStrand : aStrand'[i] = aStrand[i]
    BY <1>1, <1>4
  <2> QED BY <1>1, <1>4, <2>1 DEF AcceptsKnown
<1> QED BY <1>2, <1>3, <1>4, StrandOfAcceptor, AcceptorJobs

LEMMA OwnTyped ==
  ASSUME AInv, [AcceptorNext]_allVars
  PROVE  AcceptorTypeOK' /\ ErrorSeen'
<1>1. AcceptorTypeOK /\ ErrorSeen /\ aStrand' \in Seq(AJob)
  BY StrandTyped DEF AInv, Own
<1>2. CASE Stopping \/ Stopped \/ UNCHANGED allVars
  BY <1>1, <1>2 DEF Stopping, Stopped, allVars, acceptorVars, AcceptorTypeOK, ErrorSeen
<1>3. CASE Listen \/ ListenThrows
  BY <1>1, <1>3, TickOps DEF Listen, ListenThrows, AcceptorStartTimer, AcceptorTypeOK, ErrorSeen, AcceptorState
<1>4. CASE AcceptorStop
  BY <1>1, <1>4, AcceptorAssumption DEF AcceptorStop, AcceptorTypeOK, ErrorSeen
<1>5. CASE AcceptorExpire
  BY <1>1, <1>5, TickOps DEF AcceptorExpire, AcceptorTypeOK, ErrorSeen
<1>6. CASE AcceptorDeliver
  BY <1>1, <1>6 DEF AcceptorDeliver, AcceptorTypeOK, ErrorSeen
<1>7. CASE ClientConnects
  BY <1>1, <1>7 DEF ClientConnects, AcceptorTypeOK, ErrorSeen
<1>8. CASE DispatchAccept
  <2>1. PICK c \in Conns : accepts' = accepts \/ accepts' = Append(accepts, c)
    BY <1>8, HeadKnown DEF DispatchAccept
  <2> QED BY <1>1, <1>8, <2>1 DEF DispatchAccept, AcceptorTypeOK, ErrorSeen
<1>9. CASE AcceptorHandleTimer
  <2>1. UNCHANGED aStops
    BY <1>9 DEF AcceptorHandleTimer
  <2>2. CASE AcceptorStartError
    BY <1>1, <2>1, <2>2, StartErrorOwn DEF AcceptorTypeOK, ErrorSeen
  <2>3. CASE AcceptorStartTimer /\ UNCHANGED <<aError, acceptor, accepts, aSeen>>
    BY <1>1, <2>1, <2>3, TickOps DEF AcceptorStartTimer, AcceptorTypeOK, ErrorSeen
  <2> QED BY <1>9, <2>2, <2>3 DEF AcceptorHandleTimer
<1>10. ASSUME NEW c \in Conns,
              \/ Accept(c) \/ Call(c) \/ ConnectionHandler(c) \/ Traffic(c)
              \/ \E k \in Completions : Dispatch(c, k)
       PROVE  AcceptorTypeOK' /\ ErrorSeen'
  <2>1. CASE HandleAcceptClosed(c)
    <3>1. AcceptorStartError /\ UNCHANGED aStops
      BY <2>1 DEF HandleAcceptClosed
    <3> QED BY <1>1, <3>1, StartErrorOwn DEF AcceptorTypeOK, ErrorSeen
  <2>2. CASE UNCHANGED <<acceptor, aWaits, accepts, aError, aSeen, aStops>>
    BY <1>1, <2>2 DEF AcceptorTypeOK, ErrorSeen
  <2> QED BY <1>10, <2>1, <2>2 DEF Accept, Call, ConnectionHandler, HandleAccept,
     HandleAcceptFails, HandleAcceptOpen, FinishAccept, Traffic, Dispatch, acceptorVars
<1> QED BY <1>2, <1>3, <1>4, <1>5, <1>6, <1>7, <1>8, <1>9, <1>10 DEF AcceptorNext, AcceptorHandler

\* Once stopped the Hive does not run again, and neither an error of the
\* acceptor nor a call of Stop is ever taken back.
LEMMA CalmBefore ==
  ASSUME AInv, [AcceptorNext]_allVars
  PROVE  /\ hive' = "running" => hive = "running"
         /\ aError => aError'
         /\ aStops' = 0 => aStops = 0
<1>1. AcceptorTypeOK
  BY DEF AInv, Own
<1>2. AcceptorStartError => aError'
  BY DEF AcceptorStartError
<1>3. CASE Stopping \/ Stopped \/ Listen \/ ListenThrows \/ ClientConnects \/ AcceptorExpire \/ AcceptorDeliver \/ UNCHANGED allVars
  BY <1>3 DEF Stopping, Stopped, HiveStop, HiveStopped, Listen, ListenThrows, ClientConnects,
     AcceptorExpire, AcceptorDeliver, notListening, allVars, vars, acceptorVars
<1>4. CASE AcceptorStop
  BY <1>1, <1>4 DEF AcceptorStop, notListening, AcceptorTypeOK
<1>5. CASE AcceptorHandler
  BY <1>2, <1>5 DEF AcceptorHandler, DispatchAccept, AcceptorHandleTimer
<1>6. ASSUME NEW c \in Conns,
             \/ Accept(c) \/ Call(c) \/ ConnectionHandler(c) \/ Traffic(c)
             \/ \E k \in Completions : Dispatch(c, k)
      PROVE  (hive' = "running" => hive = "running") /\ (aError => aError') /\ aStops' = aStops
  <2>1. CASE Accept(c)
    BY <2>1 DEF Accept
  <2>2. CASE Call(c)
    BY <2>2 DEF Call, Calls, Send, Recv, Disconnect, acceptorVars
  <2>3. CASE HandleAccept(c)
    BY <1>2, <2>3 DEF HandleAccept, HandleAcceptFails, HandleAcceptClosed, HandleAcceptOpen, FinishAccept, acceptorVars
  <2>4. CASE Handler(c) /\ UNCHANGED acceptorVars
    BY <2>4 DEF Handler, DispatchSend, DispatchRecv, DispatchTimer, HandleConnect, HandleSend, HandleRecv,
       HandleTimer, acceptorVars
  <2>5. CASE Traffic(c)
    BY <2>5 DEF Traffic, Network, ConnectDone, WriteSome, WriteFails, ReadSome, ReadFails, Expire,
       PeerSends, PeerCloses, ioOnly, acceptorVars
  <2>6. ASSUME NEW k \in Completions, Dispatch(c, k)
        PROVE  (hive' = "running" => hive = "running") /\ (aError => aError') /\ aStops' = aStops
    BY <2>6 DEF Dispatch, Deliver, acceptorVars
  <2> QED BY <1>6, <2>1, <2>2, <2>3, <2>4, <2>5, <2>6 DEF ConnectionHandler
<1> QED BY <1>3, <1>4, <1>5, <1>6 DEF AcceptorNext

\* What the acceptor's timer and its strand do to each other.
LEMMA TimedPost ==
  ASSUME NEW waits, NEW jobs \in Seq(AJob), NEW j \in AJob, j.do # "HandleTimer", Timed(waits, jobs)
  PROVE  Timed(waits, Append(jobs, j))
<1>1. Ticking(Append(jobs, j)) = Ticking(jobs) /\ \A i \in Ticking(jobs) : Append(jobs, j)[i] = jobs[i]
  BY AskingPost DEF Ticking
<1> QED BY <1>1 DEF Timed

LEMMA TimedPop ==
  ASSUME NEW waits, NEW jobs \in Seq(AJob), jobs # <<>>, Timed(waits, jobs)
  PROVE  /\ Timed(waits, Tail(jobs))
         /\ Head(jobs).do = "HandleTimer" => waits = {} /\ Ticking(Tail(jobs)) = {} /\ Head(jobs).ec = "ok"
<1>1. /\ Ticking(Tail(jobs)) = {i \in 1 .. Len(jobs) - 1 : i + 1 \in Ticking(jobs)}
      /\ \A i \in Ticking(Tail(jobs)) : Tail(jobs)[i] = jobs[i + 1]
      /\ Head(jobs) = jobs[1] /\ 1 \in DOMAIN jobs
  BY AskingPop DEF Ticking
<1>2. \A i, j \in Ticking(Tail(jobs)) : i = j
  <2> SUFFICES ASSUME NEW i \in Ticking(Tail(jobs)), NEW j \in Ticking(Tail(jobs))
               PROVE  i = j
    OBVIOUS
  <2>1. i \in Nat /\ j \in Nat /\ i + 1 \in Ticking(jobs) /\ j + 1 \in Ticking(jobs)
    BY <1>1
  <2>2. i + 1 = j + 1
    BY <2>1 DEF Timed
  <2> QED BY <2>1, <2>2
<1>3. Timed(waits, Tail(jobs))
  BY <1>1, <1>2 DEF Timed
<1>4. ASSUME Head(jobs).do = "HandleTimer"
      PROVE  waits = {} /\ Ticking(Tail(jobs)) = {} /\ Head(jobs).ec = "ok"
  <2>1. 1 \in Ticking(jobs)
    BY <1>1, <1>4 DEF Ticking
  <2>2. \A i \in Nat : i + 1 \in Ticking(jobs) => i + 1 = 1
    BY <2>1 DEF Timed
  <2>3. Ticking(Tail(jobs)) = {}
    BY <1>1, <2>2
  <2> QED BY <1>1, <2>1, <2>3 DEF Timed
<1> QED BY <1>3, <1>4

LEMMA TimedDeliver ==
  ASSUME NEW waits \in SUBSET Op, NEW jobs \in Seq(AJob), Timed(waits, jobs), NEW o \in waits, o.ec # "pending"
  PROVE  Timed(waits \ {o}, Append(jobs, TimerJob(o.ec)))
<1>1. o.ec = "ok" /\ waits \ {o} = {} /\ Ticking(jobs) = {}
  BY DEF Timed, Op, Status
<1> DEFINE j == TimerJob(o.ec)
<1>2. j \in AJob /\ j.do = "HandleTimer" /\ j.ec = "ok"
  BY <1>1, AcceptorJobs
<1> HIDE DEF j
<1>3. Ticking(Append(jobs, j)) = {Len(jobs) + 1} /\ Append(jobs, j)[Len(jobs) + 1] = j
  BY <1>1, <1>2, AskingPost
<1> QED BY <1>1, <1>2, <1>3 DEF Timed, j

LEMMA TimedNext ==
  ASSUME AInv, [AcceptorNext]_allVars
  PROVE  OneTimer'
<1> SUFFICES ASSUME Calm'
             PROVE  Timed(aWaits, aStrand)'
  BY DEF OneTimer
<1>1. /\ Calm /\ Timed(aWaits, aStrand) /\ ~aError' /\ aStops' = 0
      /\ aStrand \in Seq(AJob) /\ aWaits \in SUBSET Op /\ aStops \in Nat
  BY CalmBefore, AcceptorAssumption DEF Calm, AInv, Own, OneTimer, AcceptorTypeOK
<1>2. ~AcceptorStartError
  BY <1>1 DEF AcceptorStartError, Calm
<1>3. NewOp(0, "pending").ec = "pending"
  BY DEF NewOp
<1>4. CASE UNCHANGED <<aWaits, aStrand>>
  BY <1>1, <1>4 DEF Timed, Ticking
<1>5. CASE Listen
  <2>1. aStrand' = <<>> /\ aWaits' = {NewOp(0, "pending")}
    BY <1>5 DEF Listen, AcceptorStartTimer, Cancel
  <2>2. Ticking(aStrand') = {}
    BY <2>1 DEF Ticking
  <2> QED BY <1>3, <2>1, <2>2 DEF Timed
<1>6. CASE AcceptorStop
  BY <1>1, <1>6 DEF AcceptorStop, Calm
<1>7. CASE DispatchAccept
  BY <1>1, <1>7, TimedPop DEF DispatchAccept, ARuns, APop
<1>8. CASE AcceptorHandleTimer
  <2>1. AcceptorStartTimer /\ aStrand # <<>> /\ Head(aStrand).do = "HandleTimer" /\ aStrand' = Tail(aStrand)
    BY <1>2, <1>8 DEF AcceptorHandleTimer, ARuns, APop
  <2>2. aWaits = {} /\ Ticking(aStrand') = {}
    BY <1>1, <2>1, TimedPop
  <2>3. aWaits' = {NewOp(0, "pending")}
    BY <2>1, <2>2 DEF AcceptorStartTimer, Cancel
  <2> QED BY <1>3, <2>2, <2>3 DEF Timed
<1>9. CASE AcceptorExpire
  <2>1. PICK o \in aWaits : aWaits' = (aWaits \ {o}) \union {[o EXCEPT !.ec = "ok"]}
    BY <1>9 DEF AcceptorExpire
  <2>2. aStrand' = aStrand /\ [o EXCEPT !.ec = "ok"].ec = "ok"
    BY <1>1, <1>9, <2>1 DEF AcceptorExpire, Op
  <2> QED BY <1>1, <2>1, <2>2 DEF Timed, Ticking
<1>10. CASE AcceptorDeliver
  BY <1>1, <1>10, TimedDeliver DEF AcceptorDeliver, APost
<1>11. ASSUME NEW c \in Conns, Accept(c)
       PROVE  Timed(aWaits, aStrand)'
  BY <1>1, <1>11, AcceptorJobs, TimedPost DEF Accept, APost
<1>12. CASE Stopping \/ Stopped \/ ListenThrows \/ ClientConnects \/ UNCHANGED allVars
  BY <1>4, <1>12 DEF Stopping, Stopped, ListenThrows, ClientConnects, allVars, acceptorVars
<1>13. ASSUME NEW c \in Conns,
              \/ Call(c) \/ ConnectionHandler(c) \/ Traffic(c)
              \/ \E k \in Completions : Dispatch(c, k)
       PROVE  UNCHANGED <<aWaits, aStrand>>
  BY <1>2, <1>13 DEF Call, ConnectionHandler, HandleAccept, HandleAcceptFails, HandleAcceptClosed,
     HandleAcceptOpen, FinishAccept, Traffic, Dispatch, acceptorVars
<1> QED BY <1>4, <1>5, <1>6, <1>7, <1>8, <1>9, <1>10, <1>11, <1>12, <1>13 DEF AcceptorNext, AcceptorHandler

\* Who can end the acceptor: a timer's handler posted by Stop, one that finds
\* the Hive stopped, or a connection that was used before it was accepted.
LEMMA SurvivesNext ==
  ASSUME AInv, [AcceptorNext]_allVars, ~aError, aError', aStops = 0, hive = "running"
  PROVE  \E c \in Conns : FailedEarly(c)
<1>1. aStops = 0 /\ hive = "running" /\ ~aError /\ aError'
  OBVIOUS
<1>2. Timed(aWaits, aStrand) /\ aStrand \in Seq(AJob)
  BY <1>1 DEF AInv, Own, OneTimer, Calm, AcceptorTypeOK
<1>3. CASE AcceptorHandleTimer
  <2>1. /\ aStrand # <<>> /\ Head(aStrand).do = "HandleTimer"
        /\ AcceptorFails(Head(aStrand).ec) \/ aError' = aError
    BY <1>3 DEF AcceptorHandleTimer, ARuns
  <2>2. Head(aStrand).ec = "ok"
    BY <1>2, <2>1, TimedPop
  <2> QED BY <1>1, <2>1, <2>2 DEF AcceptorFails, HasStopped
<1>4. ASSUME NEW c \in Conns, HandleAcceptClosed(c)
      PROVE  FailedEarly(c)
  <2>1. Runs(c, "HandleAccept") /\ Followed(c) /\ IInv /\ socket[c] = "closed" /\ Arg(c).ec = "ok"
    BY <1>4 DEF HandleAcceptClosed, AcceptorFails, AInv
  <2>2. Met(c) /\ seen[c].accept = 0 /\ (error[c] => Used(c))
    BY <2>1, AcceptTaken
  <2>3. error[c]
    BY <2>1, <2>2 DEF Followed, Opened
  <2> QED BY <2>2, <2>3 DEF FailedEarly, Used
<1>5. CASE UNCHANGED aError
  BY <1>1, <1>5
<1>6. CASE Stopping \/ Stopped \/ Listen \/ ListenThrows \/ AcceptorStop \/ DispatchAccept \/ ClientConnects
           \/ AcceptorExpire \/ AcceptorDeliver \/ UNCHANGED allVars
  BY <1>5, <1>6 DEF Stopping, Stopped, Listen, ListenThrows, AcceptorStop, DispatchAccept, ClientConnects,
     AcceptorExpire, AcceptorDeliver, allVars, acceptorVars
<1>7. ASSUME NEW c \in Conns,
             \/ Accept(c) \/ Call(c) \/ ConnectionHandler(c) \/ Traffic(c)
             \/ \E k \in Completions : Dispatch(c, k)
      PROVE  FailedEarly(c)
  BY <1>4, <1>5, <1>7 DEF Accept, Call, ConnectionHandler, HandleAccept, HandleAcceptFails,
     HandleAcceptOpen, FinishAccept, Traffic, Dispatch, acceptorVars
<1> QED BY <1>3, <1>6, <1>7 DEF AcceptorNext, AcceptorHandler

\* The queue of accepts.
SameWaits == \A d \in Conns : Waits(d, "HandleAccept")' <=> Waits(d, "HandleAccept")

LEMMA QueueKept ==
  ASSUME AcceptQueue, accepts' = accepts, acceptor' = acceptor \/ accepts = <<>>, SameWaits
  PROVE  AcceptQueue'
BY DEF AcceptQueue, SameWaits, Waits

LEMMA QueueEnds ==
  ASSUME AInv, AcceptorStartError
  PROVE  AcceptQueue'
<1>1. AcceptQueue /\ IInv
  BY DEF AInv, Own
<1>2. CASE UNCHANGED <<acceptor, accepts, io>>
  BY <1>1, <1>2 DEF AcceptQueue
<1>3. CASE accepts' = <<>> /\ AbortAccepts
  <2>1. \A d \in Conns : io[d] \in [Completions -> SUBSET Op] /\ "HandleAccept" \in Completions
    BY <1>1 DEF IInv, Typed, Completions
  <2>2. \A d \in Conns : io'[d]["HandleAccept"] = Cancel(io[d]["HandleAccept"])
    BY <1>3, <2>1 DEF AbortAccepts
  <2>3. \A d \in Conns : ~Waits(d, "HandleAccept")'
    BY <2>1, <2>2, CancelAll DEF Waits
  <2> QED BY <1>3, <2>3 DEF AcceptQueue, Waits
<1> QED BY <1>2, <1>3 DEF AcceptorStartError

\* A handler of a connection does not touch its accept.
LEMMA HandlerWaits ==
  ASSUME IInv, NEW c \in Conns, Handler(c) \/ HandleAcceptFails(c) \/ HandleAcceptOpen(c) \/ FinishAccept(c)
  PROVE  io'[c]["HandleAccept"] = io[c]["HandleAccept"]
<1>1. /\ "HandleAccept" \in Completions \ {"HandleSend"} /\ "HandleAccept" \in Completions \ {"HandleRecv"}
      /\ "HandleAccept" \in Completions \ {"DispatchTimer"} /\ "HandleAccept" \notin OwnOps
  BY DEF Completions, OwnOps
<1>2. StartError(c) => io'[c]["HandleAccept"] = io[c]["HandleAccept"]
  BY <1>1 DEF StartError, IInv, Typed
<1>3. StartTimer(c) => io'[c]["HandleAccept"] = io[c]["HandleAccept"]
  BY <1>1, StartTimerIo
<1>4. \A queue : StartSend(c, queue) => io'[c]["HandleAccept"] = io[c]["HandleAccept"]
  BY <1>1, StartSendEffect
<1>5. \A r : StartRecv(c, r) => io'[c]["HandleAccept"] = io[c]["HandleAccept"]
  BY <1>1, StartRecvEffect
<1>6. CASE DispatchSend(c) \/ HandleSend(c)
  BY <1>2, <1>4, <1>6 DEF DispatchSend, HandleSend
<1>7. CASE DispatchRecv(c) \/ HandleRecv(c)
  BY <1>2, <1>5, <1>7 DEF DispatchRecv, HandleRecv
<1>8. CASE HandleTimer(c) \/ DispatchTimer(c) \/ HandleConnect(c)
  BY <1>2, <1>3, <1>8 DEF HandleTimer, DispatchTimer, HandleConnect
<1>9. CASE HandleAcceptFails(c) \/ HandleAcceptOpen(c) \/ FinishAccept(c)
  BY <1>2, <1>3, <1>9 DEF HandleAcceptFails, HandleAcceptOpen, FinishAccept
<1> QED BY <1>6, <1>7, <1>8, <1>9 DEF Handler

\* A new accept waits at the end of the queue.
LEMMA QueueGrows ==
  ASSUME AInv, DispatchAccept
  PROVE  AcceptQueue'
<1>1. AcceptQueue /\ IInv /\ AcceptorTypeOK /\ aStrand \in Seq(AJob) /\ aStrand # <<>>
  BY DEF AInv, Own, AcceptorTypeOK, DispatchAccept, ARuns
<1>2. PICK c \in Conns : c = Head(aStrand).conn
  BY HeadKnown
<1>3. PICK ec \in {"pending", "error"} :
        /\ io' = [io EXCEPT ![c]["HandleAccept"] = io[c]["HandleAccept"] \union {NewOp(0, ec)}]
        /\ accepts' = IF ec = "pending" THEN Append(accepts, c) ELSE accepts
        /\ ec = "pending" => acceptor = "listening"
  BY <1>2 DEF DispatchAccept
<1>4. io[c]["HandleAccept"] = {}
  <2>1. 1 \in AskedFor(c)
    <3>1. 1 \in DOMAIN aStrand /\ Head(aStrand) = aStrand[1] /\ Head(aStrand).do = "DispatchAccept"
      BY <1>1 DEF DispatchAccept, ARuns
    <3> QED BY <1>2, <3>1 DEF AskedFor, Asking
  <2> QED BY <2>1 DEF AInv, Followed, OnePlace, OnItsWay
<1>5. io[c]["HandleAccept"] \union {NewOp(0, ec)} \in SUBSET Op
  BY <1>1, StateOf, NewOps DEF Completions, Status
<1>6. /\ io'[c]["HandleAccept"] = {NewOp(0, ec)} /\ NewOp(0, ec).ec = ec
      /\ \A d \in Conns \ {c} : io'[d] = io[d]
  <2> DEFINE ops == io[c]["HandleAccept"] \union {NewOp(0, ec)}
  <2>1. ops \in SUBSET Op /\ io' = [io EXCEPT ![c]["HandleAccept"] = ops]
    BY <1>3, <1>5
  <2> HIDE DEF ops
  <2>2. io'[c]["HandleAccept"] = ops /\ \A d \in Conns \ {c} : io'[d] = io[d]
    BY <1>1, <2>1, AcceptIo
  <2> QED BY <1>4, <2>2 DEF ops, NewOp
<1>7. acceptor' = acceptor /\ accepts \in Seq(Conns) /\ \A i \in DOMAIN accepts : accepts[i] # c
  BY <1>1, <1>4 DEF DispatchAccept, AcceptQueue, AcceptorTypeOK
<1>8. CASE ec = "error"
  <2>1. ~Waits(c, "HandleAccept") /\ ~Waits(c, "HandleAccept")'
    BY <1>4, <1>6, <1>8 DEF Waits
  <2>2. SameWaits
    BY <1>6, <2>1 DEF SameWaits, Waits
  <2> QED BY <1>1, <1>3, <1>7, <1>8, <2>2, QueueKept
<1>9. CASE ec = "pending"
  <2>1. /\ DOMAIN accepts' = DOMAIN accepts \union {Len(accepts) + 1} /\ accepts'[Len(accepts) + 1] = c
        /\ \A i \in DOMAIN accepts : accepts'[i] = accepts[i]
    BY <1>3, <1>7, <1>9
  <2>2. Waits(c, "HandleAccept")' /\ \A d \in Conns \ {c} : Waits(d, "HandleAccept")' <=> Waits(d, "HandleAccept")
    BY <1>6, <1>9 DEF Waits
  <2>3. \A i, j \in DOMAIN accepts' : accepts'[i] = accepts'[j] => i = j
    BY <1>1, <1>7, <2>1 DEF AcceptQueue
  <2>4. ASSUME NEW d \in Conns
        PROVE  (\E i \in DOMAIN accepts' : accepts'[i] = d) <=> Waits(d, "HandleAccept")'
    BY <1>1, <2>1, <2>2 DEF AcceptQueue, Waits
  <2>5. acceptor' = "listening"
    BY <1>3, <1>7, <1>9
  <2> QED BY <2>3, <2>4, <2>5 DEF AcceptQueue, Waits
<1> QED BY <1>8, <1>9

\* The oldest one is served.
LEMMA QueueServed ==
  ASSUME AInv, ClientConnects
  PROVE  AcceptQueue'
<1>1. AcceptQueue /\ IInv /\ accepts \in Seq(Conns) /\ accepts # <<>> /\ accepts' = Tail(accepts) /\ acceptor' = acceptor
  BY DEF AInv, Own, AcceptorTypeOK, ClientConnects
<1>2. PICK c \in Conns : c = Head(accepts)
  BY <1>1
<1>3. PICK ec \in {"ok", "error"} :
        io' = [io EXCEPT ![c]["HandleAccept"] = {[o EXCEPT !.ec = ec] : o \in io[c]["HandleAccept"]}]
  BY <1>2 DEF ClientConnects
<1> DEFINE ops == {[o EXCEPT !.ec = ec] : o \in io[c]["HandleAccept"]}
<1>4. ops \in SUBSET Op /\ \A o \in ops : o.ec # "pending"
  <2>1. io[c]["HandleAccept"] \in SUBSET Op
    BY <1>1, StateOf DEF Completions
  <2> QED BY <2>1 DEF Op, Status
<1> HIDE DEF ops
<1>5. io'[c]["HandleAccept"] = ops /\ \A d \in Conns \ {c} : io'[d] = io[d]
  <2>1. io' = [io EXCEPT ![c]["HandleAccept"] = ops]
    BY <1>3 DEF ops
  <2> QED BY <1>1, <1>4, <2>1, AcceptIo
<1>6. /\ DOMAIN accepts = 1 .. Len(accepts) /\ Len(accepts) \in Nat /\ DOMAIN accepts' = 1 .. Len(accepts) - 1
      /\ \A i \in 1 .. Len(accepts) - 1 : accepts'[i] = accepts[i + 1]
      /\ accepts[1] = c /\ 1 \in DOMAIN accepts
  BY <1>1, <1>2
<1>7. /\ \A i \in DOMAIN accepts' : i \in Nat /\ i + 1 \in DOMAIN accepts /\ i + 1 # 1 /\ accepts'[i] = accepts[i + 1]
      /\ \A i \in DOMAIN accepts : i = 1 \/ (i \in Nat /\ i - 1 \in DOMAIN accepts' /\ accepts'[i - 1] = accepts[i])
  BY <1>6
<1>8. \A i, j \in DOMAIN accepts' : accepts'[i] = accepts'[j] => i = j
  <2> SUFFICES ASSUME NEW i \in DOMAIN accepts', NEW j \in DOMAIN accepts', accepts'[i] = accepts'[j]
               PROVE  i = j
    OBVIOUS
  <2>1. i + 1 = j + 1
    BY <1>1, <1>7 DEF AcceptQueue
  <2> QED BY <1>7, <2>1
<1>9. ~Waits(c, "HandleAccept")' /\ \A d \in Conns \ {c} : Waits(d, "HandleAccept")' <=> Waits(d, "HandleAccept")
  BY <1>4, <1>5 DEF Waits
<1>10. ASSUME NEW d \in Conns
       PROVE  (\E i \in DOMAIN accepts' : accepts'[i] = d) <=> Waits(d, "HandleAccept")'
  <2>1. CASE d = c
    <3>1. \A i \in DOMAIN accepts' : accepts'[i] # c
      BY <1>1, <1>6, <1>7 DEF AcceptQueue
    <3> QED BY <1>9, <2>1, <3>1
  <2>2. CASE d # c
    <3>1. (\E i \in DOMAIN accepts' : accepts'[i] = d) <=> (\E i \in DOMAIN accepts : accepts[i] = d)
      BY <1>6, <1>7, <2>2
    <3> QED BY <1>1, <1>9, <2>2, <3>1 DEF AcceptQueue, Waits
  <2> QED BY <2>1, <2>2
<1>11. acceptor' = "listening"
  BY <1>1 DEF AcceptQueue
<1> QED BY <1>8, <1>10, <1>11 DEF AcceptQueue, Waits

LEMMA QueueNext ==
  ASSUME AInv, [AcceptorNext]_allVars
  PROVE  AcceptQueue'
<1>1. AcceptQueue /\ IInv
  BY DEF AInv, Own
<1>2. ASSUME UNCHANGED <<accepts, acceptor>>, NEW c \in Conns,
             Waits(c, "HandleAccept")' <=> Waits(c, "HandleAccept"), \A d \in Conns \ {c} : io'[d] = io[d]
      PROVE  AcceptQueue'
  <2>1. SameWaits
    BY <1>2 DEF SameWaits, Waits
  <2> QED BY <1>1, <1>2, <2>1, QueueKept
<1>3. CASE UNCHANGED <<accepts, acceptor, io>>
  BY <1>1, <1>3 DEF AcceptQueue
<1>4. CASE Stopping \/ Stopped \/ AcceptorStop \/ AcceptorExpire \/ AcceptorDeliver \/ UNCHANGED allVars
  BY <1>3, <1>4 DEF Stopping, Stopped, HiveStop, HiveStopped, AcceptorStop, AcceptorExpire, AcceptorDeliver,
     notListening, allVars, vars, acceptorVars
<1>5. CASE Listen \/ ListenThrows
  <2>1. accepts = <<>> /\ UNCHANGED <<accepts, io>>
    BY <1>1, <1>5 DEF Listen, ListenThrows, notListening, AcceptQueue
  <2> QED BY <1>1, <2>1, QueueKept DEF SameWaits, Waits
<1>6. CASE AcceptorHandler
  BY <1>3, <1>6, QueueGrows, QueueEnds DEF AcceptorHandler, AcceptorHandleTimer
<1>7. ASSUME NEW c \in Conns,
             Accept(c) \/ Call(c)
      PROVE  AcceptQueue'
  BY <1>3, <1>7 DEF Accept, Call, Calls, Send, Recv, Disconnect, acceptorVars
<1>8. ASSUME NEW c \in Conns, ConnectionHandler(c)
      PROVE  AcceptQueue'
  <2>1. CASE HandleAcceptClosed(c)
    BY <2>1, QueueEnds DEF HandleAcceptClosed
  <2>2. CASE Handler(c) /\ UNCHANGED acceptorVars
    <3>1. io'[c]["HandleAccept"] = io[c]["HandleAccept"] /\ \A d \in Conns \ {c} : Stays(d)
      BY <1>1, <2>2, HandlerWaits, HandlersElsewhere
    <3> QED BY <1>2, <2>2, <3>1 DEF Stays, Waits, acceptorVars
  <2>3. CASE HandleAcceptFails(c) \/ HandleAcceptOpen(c) \/ FinishAccept(c)
    <3>1. io'[c]["HandleAccept"] = io[c]["HandleAccept"]
      BY <1>1, <2>3, HandlerWaits
    <3>2. \A d \in Conns \ {c} : io'[d] = io[d]
      BY <1>1, <2>3, StartErrorElsewhere, StartTimerIo DEF HandleAcceptFails, HandleAcceptOpen, FinishAccept
    <3>3. UNCHANGED <<accepts, acceptor>>
      BY <2>3 DEF HandleAcceptFails, HandleAcceptOpen, FinishAccept, acceptorVars
    <3> QED BY <1>2, <3>1, <3>2, <3>3 DEF Waits
  <2> QED BY <1>8, <2>1, <2>2, <2>3 DEF ConnectionHandler, HandleAccept
<1>9. ASSUME NEW c \in Conns, Traffic(c)
      PROVE  AcceptQueue'
  <2>1. \A d \in Conns \ {c} : Stays(d)
    BY <1>1, <1>9, ConnectionSteps DEF Traffic
  <2>2. io'[c]["HandleAccept"] = io[c]["HandleAccept"]
    <3>1. Network(c) /\ io \in [Conns -> [Completions -> SUBSET Op]]
          /\ OwnOps \subseteq Completions \ {"HandleAccept"} /\ "HandleAccept" \in Completions
      BY <1>1, <1>9 DEF Traffic, IInv, Typed, Completions, OwnOps
    <3>2. ASSUME NEW k \in OwnOps, NEW o, NEW n, Update(c, k, o, n)
          PROVE  io'[c]["HandleAccept"] = io[c]["HandleAccept"]
      BY <3>1, <3>2 DEF Update
    <3>3. CASE WriteSome(c) \/ WriteFails(c)
      BY <3>2, <3>3 DEF WriteSome, WriteFails, OwnOps
    <3>4. CASE ReadSome(c) \/ ReadFails(c)
      <4>1. \E o, n : Update(c, "HandleRecv", o, n)
        BY <3>4 DEF ReadSome, ReadFails
      <4> QED BY <3>2, <4>1 DEF OwnOps
    <3>5. CASE ConnectDone(c) \/ Expire(c)
      BY <3>2, <3>5 DEF ConnectDone, Expire, OwnOps
    <3>6. CASE PeerSends(c) \/ PeerCloses(c)
      BY <3>6 DEF PeerSends, PeerCloses
    <3> QED BY <3>1, <3>3, <3>4, <3>5, <3>6 DEF Network
  <2>3. UNCHANGED <<accepts, acceptor>>
    BY <1>9 DEF Traffic, acceptorVars
  <2> QED BY <1>2, <2>1, <2>2, <2>3 DEF Stays, Waits
<1>10. ASSUME NEW c \in Conns, NEW k \in Completions, Dispatch(c, k)
       PROVE  AcceptQueue'
  <2>1. Deliver(c, k) /\ UNCHANGED <<accepts, acceptor>>
    BY <1>10 DEF Dispatch, acceptorVars
  <2>2. \A d \in Conns \ {c} : Stays(d)
    BY <1>1, <2>1, ConnectionSteps
  <2>3. PICK o \in io[c][k] : o.ec # "pending" /\ io' = [io EXCEPT ![c][k] = @ \ {o}]
    BY <2>1 DEF Deliver
  <2>4. io'[c]["HandleAccept"] = io[c]["HandleAccept"] \/ io'[c]["HandleAccept"] = io[c]["HandleAccept"] \ {o}
    BY <1>1, <2>3 DEF IInv, Typed, Completions
  <2>5. Waits(c, "HandleAccept")' <=> Waits(c, "HandleAccept")
    BY <2>3, <2>4 DEF Waits
  <2> QED BY <1>2, <2>1, <2>2, <2>5 DEF Stays
<1> QED BY <1>4, <1>5, <1>6, <1>7, <1>8, <1>9, <1>10, QueueServed DEF AcceptorNext

(***************************************************************************)
(* The theorems.                                                           *)
(***************************************************************************)
LEMMA AInit == AcceptorInit => AInv
<1> SUFFICES ASSUME AcceptorInit
             PROVE  AInv
  OBVIOUS
<1>1. IInv
  BY InitInv DEF AcceptorInit, Init
<1>2. /\ aStrand = <<>> /\ aWaits = {} /\ accepts = <<>> /\ acceptor = "closed"
      /\ aError = FALSE /\ aSeen = 0 /\ aStops = 0
  BY DEF AcceptorInit
<1>3. AcceptorTypeOK /\ ErrorSeen /\ AcceptsKnown /\ OneTimer
  <2>1. AcceptorTypeOK
    <3>1. aStrand \in Seq(AJob) /\ accepts \in Seq(Conns)
      BY <1>2
    <3>2. aWaits \subseteq Op /\ acceptor \in AcceptorState /\ aError \in BOOLEAN
      BY <1>2 DEF AcceptorState
    <3>3. aSeen \in 0 .. 1 /\ aStops \in 0 .. MaxStops
      BY <1>2, AcceptorAssumption
    <3> QED BY <3>1, <3>2, <3>3 DEF AcceptorTypeOK
  <2>2. AcceptsKnown /\ Ticking(aStrand) = {}
    BY <1>2 DEF AcceptsKnown, Ticking
  <2> QED BY <1>2, <2>1, <2>2 DEF OneTimer, Timed, ErrorSeen
<1>4. \A c \in Conns : /\ strand[c] = <<>> /\ socket[c] = "closed" /\ dial[c] = "idle" /\ ~error[c]
                       /\ seen[c].accept = 0 /\ \A k \in Completions : io[c][k] = {}
  BY DEF AcceptorInit, ConnectionInit
<1>5. "HandleAccept" \in Completions /\ "HandleConnect" \in Completions /\ OwnOps \subseteq Completions
  BY DEF Completions, OwnOps
<1>6. AcceptQueue
  BY <1>2, <1>4, <1>5 DEF AcceptQueue
<1>7. ASSUME NEW c \in Conns
      PROVE  Followed(c)
  <2>1. AskedFor(c) = {} /\ \A k : Queued(c, k) = {}
    BY <1>2, <1>4 DEF AskedFor, Asking, Queued, Positions
  <2>2. ~Unmet(c) /\ ~Met(c) /\ OnePlace(c)
    BY <1>4, <1>5, <2>1 DEF Unmet, OnItsWay, Met, OnePlace, FrontOnly, Queued
  <2>3. Passive(c) /\ Opened(c) /\ Answered(c) /\ Fresh(c)
    BY <1>4, <1>5, <2>1, <2>2 DEF Passive, Opened, Answered, Fresh, Untried
  <2> QED BY <2>2, <2>3 DEF Followed
<1> QED BY <1>1, <1>3, <1>6, <1>7 DEF AInv, Own

LEMMA ANext == AInv /\ [AcceptorNext]_allVars => AInv'
<1> SUFFICES ASSUME AInv, [AcceptorNext]_allVars
             PROVE  AInv'
  OBVIOUS
<1>1. IInv'
  BY FitsNext DEF AInv, Own
<1>2. AcceptorTypeOK' /\ ErrorSeen' /\ AcceptsKnown' /\ OneTimer' /\ AcceptQueue'
  BY OwnTyped, StrandTyped, TimedNext, QueueNext
<1> QED BY <1>1, <1>2, FollowedNext DEF AInv, Own

LEMMA AInvariance == AcceptorSpec => []AInv
BY AInit, ANext, PTL DEF AcceptorSpec

\* The acceptor's own state keeps its type, and its OnError is called once at
\* most, whoever reports an error to it, on whichever strand (wrapper.cpp:128).
THEOREM AcceptorTypeCorrect == AcceptorSpec => []AcceptorTypeOK
<1>1. AInv => AcceptorTypeOK
  BY DEF AInv, Own
<1> QED BY <1>1, AInvariance, PTL

\* The queue of accepts and the connections agree, whatever DispatchAccept,
\* the clients and StartError do in between: a connection waits in it once,
\* exactly while its async_accept is pending, and only on a listening acceptor.
THEOREM AcceptsQueued == AcceptorSpec => []AcceptQueue
<1>1. AInv => AcceptQueue
  BY DEF AInv, Own
<1> QED BY <1>1, AInvariance, PTL

\* HandleAccept starts the timer of every connection whose socket a client
\* has opened, and until the error the timer's handlers start it again.
THEOREM AcceptedHaveTimer == AcceptorSpec => []AcceptedWatched
<1>1. AInv => AcceptedWatched
  <2> SUFFICES ASSUME AInv, NEW c \in Conns, socket[c] # "closed", ~error[c]
               PROVE  \/ \E k \in {"HandleAccept", "DispatchTimer"} : io[c][k] # {} \/ Queued(c, k) # {}
                      \/ Queued(c, "HandleTimer") # {}
    BY DEF AcceptedWatched
  <2>1. Followed(c)
    BY DEF AInv
  <2>2. dial[c] = "accepting" /\ AskedFor(c) = {}
    BY <2>1 DEF Followed, Opened, Passive
  <2> QED BY <2>1, <2>2 DEF Followed, Answered, Unmet, Watched, OnItsWay
<1> QED BY <1>1, AInvariance, PTL

\* Hive::Stop leaves no connection that was handed to Accept without an
\* answer: whether a client came or not, when run() is out of work HandleAccept
\* or the timer has found m_shutdown and StartError has called OnError.
THEOREM StopAnswers == AcceptorSpec => StopAnswersAll
<1>1. ASSUME AInv, [AcceptorNext]_allVars, hive' # hive, hive' = "stopped", NEW c \in Conns, dial[c] = "accepting"
      PROVE  error[c]
  <2>1. Stopped
    <3>1. CASE Stopping \/ Listen \/ ListenThrows \/ ClientConnects \/ AcceptorStop \/ AcceptorExpire \/ AcceptorDeliver
               \/ AcceptorHandler \/ UNCHANGED allVars
      BY <1>1, <3>1 DEF Stopping, HiveStop, Listen, ListenThrows, ClientConnects, AcceptorStop,
         AcceptorExpire, AcceptorDeliver, AcceptorHandler, DispatchAccept, AcceptorHandleTimer, notListening, allVars, vars
    <3>2. ASSUME NEW d \in Conns, Accept(d) \/ Call(d) \/ HandleAccept(d)
          PROVE  hive' = hive \/ hive' = "crashed"
      BY <3>2 DEF Accept, Call, Calls, Send, Recv, Disconnect, HandleAccept, HandleAcceptFails,
         HandleAcceptClosed, HandleAcceptOpen, FinishAccept
    <3>3. ASSUME NEW d \in Conns, Handler(d)
          PROVE  hive' = hive \/ hive' = "crashed"
      BY <3>3 DEF Handler, DispatchSend, DispatchRecv, DispatchTimer, HandleConnect, HandleSend,
         HandleRecv, HandleTimer
    <3>4. ASSUME NEW d \in Conns, Traffic(d) \/ \E k \in Completions : Dispatch(d, k)
          PROVE  hive' = hive
      BY <3>4 DEF Traffic, Network, ConnectDone, WriteSome, WriteFails, ReadSome, ReadFails, Expire,
         PeerSends, PeerCloses, ioOnly, Dispatch, Deliver
    <3> QED BY <1>1, <3>1, <3>2, <3>3, <3>4 DEF AcceptorNext, ConnectionHandler
  <2>2. /\ strand[c] = <<>> /\ aStrand = <<>> /\ io[c]["DispatchTimer"] = {} /\ io[c]["HandleAccept"] = {}
    BY <2>1, Names DEF Stopped, HiveStopped, NoWork, Completions
  <2>3. ~Watched(c) /\ ~Unmet(c)
    BY <2>2 DEF Watched, Unmet, OnItsWay, Queued, Positions, AskedFor, Asking
  <2> QED BY <1>1, <2>3 DEF AInv, Followed, Answered
<1>2. AInv /\ [AcceptorNext]_allVars =>
        [hive' = "stopped" => \A c \in Conns : dial[c] = "accepting" => error[c]]_hive
  BY <1>1
<1> QED BY <1>2, AInvariance, PTL DEF AcceptorSpec, StopAnswersAll

\* Nothing ends the acceptor but Acceptor::Stop, Hive::Stop and a connection
\* that the application used, and that failed, before OnAccept told of it: its
\* timer is never aborted otherwise, and HandleAccept finds the socket of a
\* client closed (wrapper.cpp:175-176) for no other connection.
THEOREM OnlyStopEndsAcceptor == AcceptorSpec => AcceptorSurvives
<1>1. ASSUME AInv, [AcceptorNext]_allVars
      PROVE  [~aError /\ aError' =>
                aStops > 0 \/ hive # "running" \/ \E c \in Conns : FailedEarly(c)]_allVars
  <2>1. aStops \in Nat
    BY <1>1, AcceptorAssumption DEF AInv, Own, AcceptorTypeOK
  <2> QED BY <1>1, <2>1, SurvivesNext
<1> QED BY <1>1, AInvariance, PTL DEF AcceptorSpec, AcceptorSurvives

\* A connection that is accepted keeps its promises as one that dials: one
\* write and one read at a time, each for the front of its queue, and a buffer
\* of the size of the read; what the acceptor does on the connection's strand
\* and to its socket does not interfere.
THEOREM AcceptedServeInOrder == AcceptorSpec => [](IdsOK /\ OneSend /\ OneRecv /\ BufferFits)
<1>1. AInv => IdsOK /\ OneSend /\ OneRecv /\ BufferFits
  BY InvImplies DEF AInv
<1> QED BY <1>1, AInvariance, PTL
==============================================================================
