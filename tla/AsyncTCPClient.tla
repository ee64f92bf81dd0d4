--------------------------- MODULE AsyncTCPClient ---------------------------
(***************************************************************************)
(* Class AsyncTCPClient of                                                 *)
(* src/NetworkProgrammingCookbook/Chapter3/asyncClientTCP.cpp: requests    *)
(* that run in a pool of threads (connect, write, read, report) and can be *)
(* cancelled from any thread, with a mutex for the map of active sessions  *)
(* and a mutex in each session.                                            *)
(*                                                                         *)
(* A session has one outstanding operation or one handler at a time.  A    *)
(* handler is split where it takes a mutex, and where another thread can   *)
(* see what it has done so far.  A critical section in which nobody waits  *)
(* for another mutex is one action.                                        *)
(***************************************************************************)
EXTENDS Naturals, Sequences, FiniteSets

CONSTANTS
  Sessions,    \* the requests
  Ids,         \* values of request_id; two requests may share one
  Callers,     \* threads that call cancelRequest
  PoolSize,    \* num_of_threads
  MaxCancels,  \* bound: calls of cancelRequest per session that find it
  None         \* no thread, no session

ASSUME ClientAssumption ==
  /\ IsFiniteSet(Sessions) /\ None \notin Callers \union Sessions
  /\ PoolSize \in Nat \ {0} /\ MaxCancels \in Nat

VARIABLES
  id,             \* the request_id of each request
  stage,          \* the operation the session has reached
  op,             \* the outstanding operation, if there is one
  handler,        \* how far the running handler has come
  code,           \* m_ec
  cancelled,      \* m_was_cancelled
  active,         \* m_active_sessions: the session of each id, or None
  sessionsGuard,  \* the caller that holds m_active_sessions_guard, or None
  cancelGuard,    \* the handler of the session holds its m_cancel_guard
  target,         \* the session each caller of cancelRequest has found
  reported,       \* the error code each call of the callback was given
  cancels,        \* calls of cancelRequest that found the session
  closing         \* close() was called

vars == <<id, stage, op, handler, code, cancelled, active, sessionsGuard,
          cancelGuard, target, reported, cancels, closing>>

Stage == {"new", "registered", "connect", "write", "read", "done"}
\* async_write and async_read_until are composed of several operations on the
\* socket: "partial" is the time between the end of one, with data left to move,
\* and the start of the next, in which nothing is pending on the socket.
OpState == {"none", "pending", "partial", "ok", "failed", "aborted"}
HandlerState == {"none", "lock", "check", "complete", "report"}
Code == {"ok", "failed", "aborted"}

\* Threads of the pool that execute a handler.
Busy == {s \in Sessions : handler[s] # "none"}
\* cancelRequest can find the session.
Active(s) == active[id[s]] = s
InFlight(s) == op[s] # "none" \/ handler[s] # "none"

(***************************************************************************)
(* emulateLongComputationOp                                                *)
(***************************************************************************)
Register(s) ==
  /\ stage[s] = "new" /\ ~closing /\ sessionsGuard = None
  /\ stage' = [stage EXCEPT ![s] = "registered"]
  /\ active' = [active EXCEPT ![id[s]] = s]
  /\ UNCHANGED <<id, op, handler, code, cancelled, sessionsGuard, cancelGuard,
                 target, reported, cancels, closing>>

StartConnect(s) ==
  /\ stage[s] = "registered"
  /\ stage' = [stage EXCEPT ![s] = "connect"]
  /\ op' = [op EXCEPT ![s] = "pending"]
  /\ UNCHANGED <<id, handler, code, cancelled, active, sessionsGuard, cancelGuard,
                 target, reported, cancels, closing>>

(***************************************************************************)
(* The three completion handlers.                                          *)
(***************************************************************************)
\* The server answers, or the network fails (external).
Answer(s) ==
  /\ op[s] = "pending"
  /\ \E r \in {"ok", "failed"} : op' = [op EXCEPT ![s] = r]
  /\ UNCHANGED <<id, stage, handler, code, cancelled, active, sessionsGuard,
                 cancelGuard, target, reported, cancels, closing>>

\* async_write and async_read_until move part of the data (external).
Part(s) ==
  /\ op[s] = "pending" /\ stage[s] \in {"write", "read"}
  /\ op' = [op EXCEPT ![s] = "partial"]
  /\ UNCHANGED <<id, stage, handler, code, cancelled, active, sessionsGuard,
                 cancelGuard, target, reported, cancels, closing>>

\* A free thread goes on with the composed operation (external): it looks
\* neither at m_was_cancelled nor at any trace of a cancel() before.
Continue(s) ==
  /\ op[s] = "partial" /\ Cardinality(Busy) < PoolSize
  /\ op' = [op EXCEPT ![s] = "pending"]
  /\ UNCHANGED <<id, stage, handler, code, cancelled, active, sessionsGuard,
                 cancelGuard, target, reported, cancels, closing>>

\* Faulty variant of BeginHandler: an error in the write handler returns early
\* without completing the request.
BeginHandlerForgets(s) ==
  /\ op[s] \in Code /\ Cardinality(Busy) < PoolSize
  /\ op' = [op EXCEPT ![s] = "none"]
  /\ code' = [code EXCEPT ![s] = op[s]]
  /\ handler' = [handler EXCEPT ![s] =
       IF op[s] # "ok" THEN "none" ELSE IF stage[s] = "read" THEN "complete" ELSE "lock"]
  /\ UNCHANGED <<id, stage, cancelled, active, sessionsGuard, cancelGuard,
                 target, reported, cancels, closing>>

\* A free thread calls the handler: with an error, or at the end of the read,
\* it goes to onRequestComplete; else it asks for m_cancel_guard.
BeginHandler(s) ==
  /\ op[s] \in Code /\ Cardinality(Busy) < PoolSize
  /\ op' = [op EXCEPT ![s] = "none"]
  /\ code' = [code EXCEPT ![s] = op[s]]
  /\ handler' = [handler EXCEPT ![s] =
       IF op[s] # "ok" \/ stage[s] = "read" THEN "complete" ELSE "lock"]
  /\ UNCHANGED <<id, stage, cancelled, active, sessionsGuard, cancelGuard,
                 target, reported, cancels, closing>>

LockCancelGuard(s) ==
  /\ handler[s] = "lock" /\ ~cancelGuard[s]
  /\ cancelGuard' = [cancelGuard EXCEPT ![s] = TRUE]
  /\ handler' = [handler EXCEPT ![s] = "check"]
  /\ UNCHANGED <<id, stage, op, code, cancelled, active, sessionsGuard,
                 target, reported, cancels, closing>>

\* A cancelled session completes, m_cancel_guard still being held.
StopHere(s) ==
  /\ handler[s] = "check" /\ cancelled[s]
  /\ handler' = [handler EXCEPT ![s] = "complete"]
  /\ UNCHANGED <<id, stage, op, code, cancelled, active, sessionsGuard, cancelGuard,
                 target, reported, cancels, closing>>

\* Faulty variant of GoOn: the guard is not released.
GoOnKeepsGuard(s) ==
  /\ handler[s] = "check" /\ ~cancelled[s]
  /\ stage' = [stage EXCEPT ![s] = IF @ = "connect" THEN "write" ELSE "read"]
  /\ op' = [op EXCEPT ![s] = "pending"]
  /\ handler' = [handler EXCEPT ![s] = "none"]
  /\ UNCHANGED <<id, code, cancelled, active, sessionsGuard, cancelGuard,
                 target, reported, cancels, closing>>

\* Otherwise the next operation is started and the guard released.
GoOn(s) ==
  /\ handler[s] = "check" /\ ~cancelled[s]
  /\ stage' = [stage EXCEPT ![s] = IF @ = "connect" THEN "write" ELSE "read"]
  /\ op' = [op EXCEPT ![s] = "pending"]
  /\ handler' = [handler EXCEPT ![s] = "none"]
  /\ cancelGuard' = [cancelGuard EXCEPT ![s] = FALSE]
  /\ UNCHANGED <<id, code, cancelled, active, sessionsGuard,
                 target, reported, cancels, closing>>

(***************************************************************************)
(* onRequestComplete                                                       *)
(***************************************************************************)
Erase(s) ==
  /\ handler[s] = "complete" /\ sessionsGuard = None
  /\ active' = [active EXCEPT ![id[s]] = None]
  /\ handler' = [handler EXCEPT ![s] = "report"]
  /\ UNCHANGED <<id, stage, op, code, cancelled, sessionsGuard, cancelGuard,
                 target, reported, cancels, closing>>

\* Faulty variant of Report: the callback is given m_ec as it is.
ReportPlain(s) ==
  /\ handler[s] = "report"
  /\ reported' = [reported EXCEPT ![s] = Append(@, code[s])]
  /\ stage' = [stage EXCEPT ![s] = "done"]
  /\ handler' = [handler EXCEPT ![s] = "none"]
  /\ cancelGuard' = [cancelGuard EXCEPT ![s] = FALSE]
  /\ UNCHANGED <<id, op, code, cancelled, active, sessionsGuard, target, cancels, closing>>

Report(s) ==
  /\ handler[s] = "report"
  /\ reported' = [reported EXCEPT ![s] =
       Append(@, IF code[s] = "ok" /\ cancelled[s] THEN "aborted" ELSE code[s])]
  /\ stage' = [stage EXCEPT ![s] = "done"]
  /\ handler' = [handler EXCEPT ![s] = "none"]
  /\ cancelGuard' = [cancelGuard EXCEPT ![s] = FALSE]
  /\ UNCHANGED <<id, op, code, cancelled, active, sessionsGuard, target, cancels, closing>>

(***************************************************************************)
(* cancelRequest                                                           *)
(***************************************************************************)
\* A call that finds nothing changes nothing.
Find(k, s) ==
  /\ target[k] = None /\ sessionsGuard = None /\ Active(s)
  /\ cancels[s] < MaxCancels
  /\ cancels' = [cancels EXCEPT ![s] = @ + 1]
  /\ sessionsGuard' = k
  /\ target' = [target EXCEPT ![k] = s]
  /\ UNCHANGED <<id, stage, op, handler, code, cancelled, active, cancelGuard,
                 reported, closing>>

\* Faulty variant of Mark: the operation is not aborted.
MarkOnly(k) ==
  /\ sessionsGuard = k
  /\ ~cancelGuard[target[k]]
  /\ cancelled' = [cancelled EXCEPT ![target[k]] = TRUE]
  /\ sessionsGuard' = None
  /\ target' = [target EXCEPT ![k] = None]
  /\ UNCHANGED <<id, stage, op, handler, code, active, cancelGuard, reported, cancels, closing>>

\* With both mutexes held: the flag is set, and cancel() aborts the operation
\* that is pending on the socket, if one is.
Mark(k) ==
  /\ sessionsGuard = k
  /\ LET s == target[k]
     IN /\ ~cancelGuard[s]
        /\ cancelled' = [cancelled EXCEPT ![s] = TRUE]
        /\ op' = [op EXCEPT ![s] = IF @ = "pending" THEN "aborted" ELSE @]
  /\ sessionsGuard' = None
  /\ target' = [target EXCEPT ![k] = None]
  /\ UNCHANGED <<id, stage, handler, code, active, cancelGuard, reported, cancels, closing>>

(***************************************************************************)
(* close                                                                   *)
(***************************************************************************)
\* The application closes the client when it will make no more requests.
Close ==
  /\ ~closing /\ closing' = TRUE
  /\ \A s \in Sessions : stage[s] # "registered"
  /\ UNCHANGED <<id, stage, op, handler, code, cancelled, active, sessionsGuard,
                 cancelGuard, target, reported, cancels>>

\* The threads have left run() and join() returns.
Closed == closing /\ \A s \in Sessions : ~InFlight(s)

(***************************************************************************)
(* The specification.                                                      *)
(***************************************************************************)
Init ==
  /\ id \in [Sessions -> Ids]
  /\ stage = [s \in Sessions |-> "new"]
  /\ op = [s \in Sessions |-> "none"]
  /\ handler = [s \in Sessions |-> "none"]
  /\ code = [s \in Sessions |-> "ok"]
  /\ cancelled = [s \in Sessions |-> FALSE]
  /\ active = [i \in Ids |-> None]
  /\ sessionsGuard = None
  /\ cancelGuard = [s \in Sessions |-> FALSE]
  /\ target = [k \in Callers |-> None]
  /\ reported = [s \in Sessions |-> <<>>]
  /\ cancels = [s \in Sessions |-> 0]
  /\ closing = FALSE

HandlerStep(s) ==
  \/ Continue(s) \/ BeginHandler(s) \/ LockCancelGuard(s) \/ StopHere(s) \/ GoOn(s) \/ Erase(s) \/ Report(s)

Next ==
  \/ Close
  \/ \E s \in Sessions : Register(s) \/ StartConnect(s) \/ Answer(s) \/ Part(s) \/ HandlerStep(s)
  \/ \E k \in Callers : Mark(k) \/ \E s \in Sessions : Find(k, s)

Spec == Init /\ [][Next]_vars

\* The pool's threads run what can run, and a thread that is inside a call
\* goes on as soon as it can.
Fairness ==
  /\ \A s \in Sessions : WF_vars(HandlerStep(s)) /\ WF_vars(StartConnect(s))
  /\ \A k \in Callers : WF_vars(Mark(k))

\* The server or the operating system's timeouts end every operation: strong
\* fairness, for a composed operation has a finite number of parts.
NetworkFairness == \A s \in Sessions : SF_vars(Answer(s))

FairSpec == Spec /\ Fairness
NetworkSpec == Spec /\ Fairness /\ NetworkFairness

(***************************************************************************)
(* Properties.                                                             *)
(***************************************************************************)
\* The type invariant.
TypeOK ==
  /\ stage \in [Sessions -> Stage]
  /\ op \in [Sessions -> OpState]
  /\ handler \in [Sessions -> HandlerState]
  /\ code \in [Sessions -> Code]
  /\ cancelled \in [Sessions -> BOOLEAN]
  /\ id \in [Sessions -> Ids]
  /\ active \in [Ids -> Sessions \union {None}]
  /\ sessionsGuard \in Callers \union {None}
  /\ cancelGuard \in [Sessions -> BOOLEAN]
  /\ target \in [Callers -> Sessions \union {None}]
  /\ reported \in [Sessions -> Seq(Code)]
  /\ cancels \in [Sessions -> 0 .. MaxCancels]
  /\ closing \in BOOLEAN

\* A request that cancelRequest has cancelled is never reported as a success,
\* although onRequestComplete reads m_was_cancelled without a mutex
\* (lines 218-221): the flag cannot change once the session left the map.
CancelHonoured ==
  \A s \in Sessions : cancelled[s] => \A i \in DOMAIN reported[s] : reported[s][i] # "ok"

InProgress(s) == stage[s] \in {"registered", "connect", "write", "read"} /\ handler[s] # "report"
Alone(s) == \A r \in Sessions : id[r] = id[s] => r = s \/ stage[r] = "new"

\* The map holds requests in progress only, whoever erases whose entry: a
\* request that is being reported cannot be found.  One that is in progress can
\* be found and cancelled, unless another was made with the same id: the later
\* one takes the entry (line 115), and the first of the two to complete erases
\* it (line 212).  Every request is reported at most once all the same.
Cancellable ==
  \A s \in Sessions :
    /\ Active(s) => InProgress(s)
    /\ InProgress(s) /\ Alone(s) => Active(s)
    /\ stage[s] \in {"connect", "write", "read"} => InFlight(s)
    /\ Len(reported[s]) = IF stage[s] = "done" THEN 1 ELSE 0

\* A handler that found its request cancelled holds m_cancel_guard and waits
\* for the map's mutex; a second cancelRequest holds that and waits for
\* m_cancel_guard (lines 128-131 and 208 against 171-175).
Deadlock == \E s \in Sessions, k \in Callers :
  handler[s] = "complete" /\ cancelGuard[s] /\ sessionsGuard = k /\ target[k] = s

\* "Cancels the request" (line 169): it ends even if the server never answers, but
\* for that deadlock and for the two moments when cancel() finds nothing to abort:
\* between the entry in the map and async_connect (lines 115-119), and between two
\* parts of async_write or async_read_until (lines 135 and 152), which then goes on.
CancelTakesEffect ==
  \A s \in Sessions :
    [](stage[s] = "registered" \/ op[s] = "partial" => ~cancelled[s])
      => (cancelled[s] ~> (reported[s] # <<>> \/ Deadlock))

\* close() returns: "This allows the I/O thread to exits the event loop when
\* there are no more pending asynchronous operations" (lines 183-185).
CloseReturns == closing ~> Closed

\* If the network ends every operation, nothing but that deadlock keeps close()
\* from returning.
CloseReturnsOrDeadlock == NetworkFairness => (closing ~> (Closed \/ Deadlock))
=============================================================================
