------------------------------ MODULE Acceptor ------------------------------
(***************************************************************************)
(* Class Acceptor of src/Chapter6/wrapper.{h,cpp} with the Connections it  *)
(* accepts, the Hive they share and the clients that connect.              *)
(*                                                                         *)
(* The acceptor has a strand and a timer of its own.  HandleAccept is a    *)
(* member of Acceptor but runs on the strand of the connection, next to    *)
(* whatever the acceptor's strand does to m_acceptor meanwhile.  Send,     *)
(* Recv and Disconnect may be called on a connection at any time, before   *)
(* it is accepted or handed to Accept too.                                 *)
(***************************************************************************)
EXTENDS Connection

CONSTANT
  MaxStops    \* bound: calls of Acceptor::Stop

ASSUME AcceptorAssumption == MaxStops \in Nat

VARIABLES
  acceptor,   \* m_acceptor, and whether Listen was called and failed
  aStrand,    \* handlers queued in the acceptor's m_io_strand
  aWaits,     \* outstanding waits of the acceptor's m_timer
  accepts,    \* connections with a pending async_accept, oldest first
  aError,     \* the acceptor's m_error_state
  aSeen,      \* calls of Acceptor::OnError
  aStops      \* calls of Acceptor::Stop

acceptorVars == <<acceptor, aStrand, aWaits, accepts, aError, aSeen, aStops>>
allVars == <<vars, acceptorVars>>

AcceptorState == {"closed", "listening", "failed"}
AJob == [do : {"HandleTimer", "DispatchAccept"}, ec : {"ok", "error"}, conn : Conns \union {"none"}]
TimerJob(ec) == [do |-> "HandleTimer", ec |-> ec, conn |-> "none"]
AcceptJob(c) == [do |-> "DispatchAccept", ec |-> "ok", conn |-> c]

(***************************************************************************)
(* Pieces of the handlers.                                                 *)
(***************************************************************************)
AcceptorStartTimer == aWaits' = Cancel(aWaits) \union {NewOp(0, "pending")}

\* The test at the start of HandleTimer and of HandleAccept: note that the
\* latter looks at the acceptor's m_error_state, not at the connection's.
AcceptorFails(ec) == ec # "ok" \/ aError \/ HasStopped

\* Faulty variant of AbortAccepts: the acceptor is not closed.
KeepAccepts == UNCHANGED io

\* The accepts that are pending are aborted.
AbortAccepts ==
  io' = [c \in Conns |-> [io[c] EXCEPT !["HandleAccept"] = Cancel(@)]]

\* Faulty variant of AcceptorStartError: the error state is not tested.
AcceptorStartErrorAgain ==
  /\ aError' = TRUE
  /\ acceptor' = IF acceptor = "listening" THEN "closed" ELSE acceptor
  /\ accepts' = <<>> /\ AbortAccepts
  /\ aWaits' = Cancel(aWaits)
  /\ aSeen' = aSeen + 1

AcceptorStartError ==
  \/ aError /\ UNCHANGED <<aError, acceptor, aWaits, accepts, aSeen, io>>
  \/ /\ ~aError /\ aError' = TRUE
     /\ acceptor' = IF acceptor = "listening" THEN "closed" ELSE acceptor
     /\ accepts' = <<>> /\ AbortAccepts
     /\ aWaits' = Cancel(aWaits)
     /\ aSeen' = aSeen + 1

ARuns(f) == Served /\ aStrand # <<>> /\ Head(aStrand).do = f
APop == aStrand' = Tail(aStrand)
APost(job) == aStrand' = Append(aStrand, job)

(***************************************************************************)
(* Calls of the application.                                               *)
(***************************************************************************)
notListening == <<strand, socket, dial, io, queueVars, error, peer, seen, asked, hive>>

Listen ==
  /\ Alive /\ acceptor = "closed" /\ ~aError /\ aStrand = <<>> /\ aWaits = {}
  /\ acceptor' = "listening"
  /\ AcceptorStartTimer
  /\ UNCHANGED <<notListening, aStrand, accepts, aError, aSeen, aStops>>

\* The address cannot be resolved, bound or listened on.
ListenThrows ==
  /\ Alive /\ acceptor = "closed" /\ ~aError /\ aStrand = <<>> /\ aWaits = {}
  /\ acceptor' = "failed"
  /\ UNCHANGED <<notListening, aStrand, aWaits, accepts, aError, aSeen, aStops>>

\* The application called Listen: the calls below come after it.
Listened == acceptor # "closed" \/ aError

Accept(c) ==
  /\ Alive /\ Listened /\ dial[c] = "idle"
  /\ dial' = [dial EXCEPT ![c] = "accepting"]
  /\ APost(AcceptJob(c))
  /\ UNCHANGED <<hive, strand, socket, io, queueVars, error, peer, seen, asked>>
  /\ UNCHANGED <<acceptor, aWaits, accepts, aError, aSeen, aStops>>

AcceptorStop ==
  /\ Alive /\ Listened /\ aStops < MaxStops
  /\ aStops' = aStops + 1
  /\ APost(TimerJob("error"))
  /\ UNCHANGED <<notListening, acceptor, aWaits, accepts, aError, aSeen>>

\* The calls of Connection, whether it has been accepted yet or not.
Call(c) == Calls(c) /\ UNCHANGED acceptorVars

(***************************************************************************)
(* Handlers on the acceptor's strand.                                      *)
(***************************************************************************)
\* async_accept fails at once when the acceptor is not listening or the
\* connection's socket is open already.
DispatchAccept ==
  /\ ARuns("DispatchAccept") /\ APop
  /\ LET c == Head(aStrand).conn
         good == acceptor = "listening" /\ socket[c] = "closed"
     IN /\ io' = [io EXCEPT ![c]["HandleAccept"] =
                    @ \union {NewOp(0, IF good THEN "pending" ELSE "error")}]
        /\ accepts' = IF good THEN Append(accepts, c) ELSE accepts
  /\ UNCHANGED <<hive, strand, socket, queueVars, error, seen, netVars, appVars>>
  /\ UNCHANGED <<acceptor, aWaits, aError, aSeen, aStops>>

\* Faulty variant of AcceptorHandleTimer: the timer is not started again.
AcceptorHandleTimerOnce ==
  /\ ARuns("HandleTimer") /\ APop
  /\ LET ec == Head(aStrand).ec
     IN \/ AcceptorFails(ec) /\ AcceptorStartError
        \/ ~AcceptorFails(ec) /\ UNCHANGED <<aError, acceptor, accepts, aSeen, aWaits, io>>
  /\ UNCHANGED <<hive, strand, socket, queueVars, error, seen, netVars, appVars, aStops>>

AcceptorHandleTimer ==
  /\ ARuns("HandleTimer") /\ APop
  /\ LET ec == Head(aStrand).ec
     IN \/ AcceptorFails(ec) /\ AcceptorStartError
        \/ /\ ~AcceptorFails(ec) /\ AcceptorStartTimer
           /\ UNCHANGED <<aError, acceptor, accepts, aSeen, io>>
  /\ UNCHANGED <<hive, strand, socket, queueVars, error, seen, netVars, appVars, aStops>>

(***************************************************************************)
(* HandleAccept, on the strand of connection c.                            *)
(***************************************************************************)
\* Faulty variants of HandleAcceptFails: nobody is told of the failure; the
\* acceptor is closed instead of the connection.
HandleAcceptSilent(c) ==
  /\ Runs(c, "HandleAccept") /\ Pop(c)
  /\ AcceptorFails(Arg(c).ec)
  /\ UNCHANGED <<hive, socket, io, error, seen, queueVars, netVars, appVars, acceptorVars>>

HandleAcceptEndsAll(c) ==
  /\ Runs(c, "HandleAccept") /\ Pop(c)
  /\ AcceptorFails(Arg(c).ec) /\ AcceptorStartError
  /\ UNCHANGED <<hive, socket, error, seen, queueVars, netVars, appVars, aStrand, aStops>>

HandleAcceptFails(c) ==
  /\ Runs(c, "HandleAccept") /\ Pop(c)
  /\ AcceptorFails(Arg(c).ec) /\ StartError(c)
  /\ UNCHANGED <<hive, queueVars, netVars, appVars, acceptorVars>>

\* The connection was closed after it was accepted: the acceptor gives up.
HandleAcceptClosed(c) ==
  /\ Runs(c, "HandleAccept") /\ Pop(c)
  /\ ~AcceptorFails(Arg(c).ec) /\ socket[c] = "closed" /\ AcceptorStartError
  /\ UNCHANGED <<hive, socket, queueVars, error, seen, netVars, appVars, aStrand, aStops>>

\* The connection's timer is started and Acceptor::OnAccept is called.  When
\* it returns true the handler goes on to read m_acceptor (FinishAccept stands
\* for its rest, which still occupies the strand); when it returns false it
\* has called Disconnect.  remote_endpoint() throws after a reset.
HandleAcceptOpen(c) ==
  /\ Runs(c, "HandleAccept")
  /\ ~AcceptorFails(Arg(c).ec) /\ socket[c] # "closed"
  /\ StartTimer(c)
  /\ \/ /\ peer[c].state # "rst" /\ UNCHANGED hive
        /\ \/ strand' = [strand EXCEPT ![c] = <<NewJob("FinishAccept", 0, "ok")>> \o Tail(@)]
           \/ strand' = [strand EXCEPT ![c] = Append(Tail(@), NewJob("HandleTimer", 0, "error"))]
     \/ peer[c].state = "rst" /\ hive' = "crashed" /\ Pop(c)
  /\ UNCHANGED <<socket, queueVars, error, seen, netVars, appVars, acceptorVars>>

\* m_acceptor.local_endpoint() throws if the acceptor has been closed by now.
FinishAccept(c) ==
  /\ Runs(c, "FinishAccept") /\ Pop(c)
  /\ \/ /\ acceptor = "listening"
        /\ seen' = [seen EXCEPT ![c].accept = @ + 1]
        /\ UNCHANGED hive
     \/ acceptor # "listening" /\ hive' = "crashed" /\ UNCHANGED seen
  /\ UNCHANGED <<socket, io, queueVars, error, netVars, appVars, acceptorVars>>

HandleAccept(c) ==
  \/ HandleAcceptFails(c) \/ HandleAcceptClosed(c) \/ HandleAcceptOpen(c) \/ FinishAccept(c)

(***************************************************************************)
(* The io_service and the network (external).                              *)
(***************************************************************************)
\* The oldest pending async_accept gets the next client, or fails.
ClientConnects ==
  /\ Served /\ accepts # <<>>
  /\ accepts' = Tail(accepts)
  /\ LET c == Head(accepts)
     IN \E ec \in {"ok", "error"} :
          /\ io' = [io EXCEPT ![c]["HandleAccept"] = {[o EXCEPT !.ec = ec] : o \in @}]
          /\ socket' = [socket EXCEPT ![c] = IF ec = "ok" THEN "connected" ELSE @]
  /\ UNCHANGED <<hive, strand, dial, queueVars, error, peer, seen, asked>>
  /\ UNCHANGED <<acceptor, aStrand, aWaits, aError, aSeen, aStops>>

AcceptorExpire ==
  /\ Served
  /\ \E o \in aWaits :
       o.ec = "pending" /\ aWaits' = (aWaits \ {o}) \union {[o EXCEPT !.ec = "ok"]}
  /\ UNCHANGED <<notListening, acceptor, aStrand, accepts, aError, aSeen, aStops>>

AcceptorDeliver ==
  /\ Served
  /\ \E o \in aWaits : o.ec # "pending" /\ aWaits' = aWaits \ {o} /\ APost(TimerJob(o.ec))
  /\ UNCHANGED <<notListening, acceptor, accepts, aError, aSeen, aStops>>

(***************************************************************************)
(* The specification.                                                      *)
(***************************************************************************)
AcceptorInit ==
  /\ ConnectionInit
  /\ acceptor = "closed" /\ aStrand = <<>> /\ aWaits = {} /\ accepts = <<>>
  /\ aError = FALSE /\ aSeen = 0 /\ aStops = 0

Stopping == HiveStop /\ UNCHANGED acceptorVars
Stopped == HiveStopped /\ aStrand = <<>> /\ aWaits = {} /\ UNCHANGED acceptorVars

AcceptorHandler == DispatchAccept \/ AcceptorHandleTimer
ConnectionHandler(c) == HandleAccept(c) \/ (Handler(c) /\ UNCHANGED acceptorVars)
Traffic(c) == Network(c) /\ UNCHANGED acceptorVars
Dispatch(c, k) == Deliver(c, k) /\ UNCHANGED acceptorVars

AcceptorNext ==
  \/ Stopping \/ Stopped
  \/ Listen \/ ListenThrows \/ AcceptorStop
  \/ AcceptorHandler \/ ClientConnects \/ AcceptorExpire \/ AcceptorDeliver
  \/ \E c \in Conns :
       \/ Accept(c) \/ Call(c) \/ ConnectionHandler(c) \/ Traffic(c)
       \/ \E k \in Completions : Dispatch(c, k)

AcceptorSpec == AcceptorInit /\ [][AcceptorNext]_allVars

\* The Hive's threads keep serving the io_service and time passes; clients and
\* peers need not do anything.
AcceptorFairness ==
  /\ WF_allVars(Stopped) /\ WF_allVars(AcceptorHandler)
  /\ WF_allVars(AcceptorExpire) /\ WF_allVars(AcceptorDeliver)
  /\ \A c \in Conns :
       /\ WF_allVars(ConnectionHandler(c)) /\ WF_allVars(Expire(c) /\ UNCHANGED acceptorVars)
       /\ \A k \in Completions : WF_allVars(Dispatch(c, k))

FairAcceptorSpec == AcceptorSpec /\ AcceptorFairness

(***************************************************************************)
(* Properties.                                                             *)
(***************************************************************************)
\* The type invariant of the acceptor's own state, OnError at most once
\* included (wrapper.cpp:128).
AcceptorTypeOK ==
  /\ acceptor \in AcceptorState
  /\ aStrand \in Seq(AJob)
  /\ aWaits \subseteq Op
  /\ accepts \in Seq(Conns)
  /\ aError \in BOOLEAN /\ aSeen \in 0 .. 1 /\ aStops \in 0 .. MaxStops

\* The queue of accepts and the connections agree: a connection waits in it
\* exactly while its async_accept is pending, at most once, and only while the
\* acceptor listens.
AcceptQueue ==
  /\ \A i, j \in DOMAIN accepts : accepts[i] = accepts[j] => i = j
  /\ \A c \in Conns :
       (\E i \in DOMAIN accepts : accepts[i] = c)
         <=> \E o \in io[c]["HandleAccept"] : o.ec = "pending"
  /\ accepts # <<>> => acceptor = "listening"

\* An accepted socket is never left without a timer: every open connection
\* that has no error has one, or its HandleAccept is still to come.
AcceptedWatched ==
  \A c \in Conns : socket[c] # "closed" /\ ~error[c] =>
    \/ \E k \in {"HandleAccept", "DispatchTimer"} : io[c][k] # {} \/ Queued(c, k) # {}
    \/ Queued(c, "HandleTimer") # {}
    \/ hive = "crashed"

\* When Stop has drained the io_service, every connection handed to Accept,
\* whether it got a client or not, has been told of its end by OnError.
StopAnswersAll ==
  [][hive' = "stopped" => \A c \in Conns : dial[c] = "accepting" => error[c]]_hive

\* The application called Send, Recv or Disconnect on a connection that it has
\* not been told of by OnAccept, and that failed for it.
FailedEarly(c) ==
  /\ error[c] /\ seen[c].accept = 0
  /\ asked[c].send + asked[c].recv + asked[c].off > 0

\* What ends the acceptor is Acceptor::Stop, Hive::Stop, or a connection that
\* was closed for a call made before it was accepted (wrapper.cpp:175-176); a
\* failed accept, a client that goes away or an error after OnAccept does not.
AcceptorSurvives ==
  [][~aError /\ aError' =>
       aStops > 0 \/ hive # "running" \/ \E c \in Conns : FailedEarly(c)]_allVars
=============================================================================
