-------------------------------- MODULE Hive --------------------------------
(***************************************************************************)
(* Class Hive of src/Chapter6/wrapper.{h,cpp}: an io_service, a work       *)
(* object that keeps it busy and the flag m_shutdown, shared by threads    *)
(* that call Run, Poll, Stop and Reset.                                    *)
(*                                                                         *)
(* Each thread has a stack of calls.  Stop and Reset are one action per    *)
(* statement, since other threads run between their statements.  What      *)
(* handlers do is abstract: they post handlers, start operations and may   *)
(* call Stop themselves.  Nothing keeps them from starting operations once *)
(* m_shutdown is set (Send, Recv, Connect and StartSend do not look at it).*)
(* Reset is called, as its comment asks, when Stop has returned and        *)
(* nothing runs.                                                           *)
(***************************************************************************)
EXTENDS Naturals, Sequences, FiniteSets

CONSTANTS
  Threads,
  MaxWork,   \* bound: handlers and operations outstanding at a time
  MaxResets, \* bound: calls of Reset
  MaxLate    \* bound: posts and operations made while m_shutdown is set

ASSUME HiveAssumption ==
  /\ IsFiniteSet(Threads)
  /\ MaxWork \in Nat /\ MaxResets \in Nat /\ MaxLate \in Nat

VARIABLES
  shutdown,  \* m_shutdown
  work,      \* m_work_ptr holds a work object
  stopped,   \* the io_service's own flag: run() returns
  ready,     \* handlers queued in the io_service
  pending,   \* asynchronous operations that have not completed
  stack,     \* the calls each thread is in, innermost first
  resets,    \* calls of Reset so far
  late       \* posts and operations made so far while m_shutdown was set

vars == <<shutdown, work, stopped, ready, pending, stack, resets, late>>

\* "work": about to execute m_work_ptr.reset(); "drain": in the run() of Stop;
\* "halt": about to call m_io_service.stop(); "revive", "rework": about to
\* execute the two statements of Reset.
StopFrames == {"work", "drain", "halt"}
ResetFrames == {"revive", "rework"}
Frame == {"run", "poll", "handler"} \union StopFrames \union ResetFrames

Frames(t) == {stack[t][i] : i \in DOMAIN stack[t]}
Top(t) == IF stack[t] = <<>> THEN "none" ELSE Head(stack[t])
Push(t, f) == stack' = [stack EXCEPT ![t] = <<f>> \o @]
Pop(t) == stack' = [stack EXCEPT ![t] = Tail(@)]
Become(t, f) == stack' = [stack EXCEPT ![t] = <<f>> \o Tail(@)]

Stopping == \E t \in Threads : Frames(t) \intersect StopFrames # {}
Running == \E t \in Threads : Frames(t) \intersect {"run", "poll"} # {}
Resetting == \E t \in Threads : Frames(t) \intersect ResetFrames # {}

\* io_service::run and stop count the work: the work object, what is queued
\* or pending, and the handlers that are executing.
Executing ==
  UNION {{<<t, i>> : i \in {j \in DOMAIN stack[t] : stack[t][j] = "handler"}} : t \in Threads}
Busy == ready + pending + Cardinality(Executing)
Outstanding == Busy + (IF work THEN 1 ELSE 0)

\* A thread may call the Hive: it is not in a call, or a handler makes the call.
Caller(t) == Top(t) = "none"
InHandler(t) == Top(t) = "handler"

(***************************************************************************)
(* Run and Poll.                                                           *)
(***************************************************************************)
\* run() and poll() return at once, and mark the service stopped, if there is
\* no work at all.
Run(t) ==
  /\ Caller(t) /\ ~Resetting
  /\ Push(t, "run")
  /\ stopped' = (stopped \/ Outstanding = 0)
  /\ UNCHANGED <<shutdown, work, ready, pending, resets, late>>

Poll(t) ==
  /\ Caller(t) /\ ~Resetting
  /\ Push(t, "poll")
  /\ stopped' = (stopped \/ Outstanding = 0)
  /\ UNCHANGED <<shutdown, work, ready, pending, resets, late>>

Leave(t) ==
  /\ \/ Top(t) = "run" /\ stopped
     \/ Top(t) = "poll" /\ (stopped \/ ready = 0)
  /\ Pop(t)
  /\ UNCHANGED <<shutdown, work, stopped, ready, pending, resets, late>>

(***************************************************************************)
(* Handlers, in any thread that is in run() or poll().                     *)
(***************************************************************************)
Serves(t) == Top(t) \in {"run", "poll", "drain"} /\ ~stopped

StartHandler(t) ==
  /\ Serves(t) /\ ready > 0
  /\ ready' = ready - 1
  /\ Push(t, "handler")
  /\ UNCHANGED <<shutdown, work, stopped, pending, resets, late>>

EndHandler(t) ==
  /\ InHandler(t) /\ Pop(t)
  /\ stopped' = (stopped \/ Outstanding = 1)
  /\ UNCHANGED <<shutdown, work, ready, pending, resets, late>>

\* A handler or another thread adds work, before Stop or after it.
Adds(t) ==
  /\ InHandler(t) \/ Caller(t)
  /\ Busy < MaxWork
  /\ \/ shutdown = 0 /\ UNCHANGED late
     \/ shutdown = 1 /\ late < MaxLate /\ late' = late + 1

Post(t) ==
  /\ Adds(t)
  /\ ready' = ready + 1
  /\ UNCHANGED <<shutdown, work, stopped, pending, stack, resets>>

StartOperation(t) ==
  /\ Adds(t)
  /\ pending' = pending + 1
  /\ UNCHANGED <<shutdown, work, stopped, ready, stack, resets>>

Complete ==
  /\ pending > 0 /\ \E t \in Threads : Serves(t)
  /\ pending' = pending - 1 /\ ready' = ready + 1
  /\ UNCHANGED <<shutdown, work, stopped, stack, resets, late>>

(***************************************************************************)
(* Stop.                                                                   *)
(***************************************************************************)
\* Faulty variant of Stop: it does not look at what m_shutdown was.
StopAgain(t) ==
  /\ Caller(t) \/ InHandler(t)
  /\ ~Resetting
  /\ shutdown' = 1
  /\ Push(t, "work")
  /\ UNCHANGED <<work, stopped, ready, pending, resets, late>>

\* A second call finds m_shutdown set and returns; it changes nothing.
Stop(t) ==
  /\ Caller(t) \/ InHandler(t)
  /\ ~Resetting
  /\ shutdown = 0 /\ shutdown' = 1
  /\ Push(t, "work")
  /\ UNCHANGED <<work, stopped, ready, pending, resets, late>>

\* Faulty variants of StopWork: the work object is kept; the service is
\* stopped without draining it.
StopWorkKept(t) ==
  /\ Top(t) = "work" /\ Become(t, "drain")
  /\ UNCHANGED <<shutdown, work, stopped, ready, pending, resets, late>>

StopWorkNoRun(t) ==
  /\ Top(t) = "work" /\ Become(t, "halt")
  /\ work' = FALSE
  /\ UNCHANGED <<shutdown, stopped, ready, pending, resets, late>>

StopWork(t) ==
  /\ Top(t) = "work" /\ Become(t, "drain")
  /\ work' = FALSE
  /\ stopped' = (stopped \/ Busy = 0)
  /\ UNCHANGED <<shutdown, ready, pending, resets, late>>

StopDrained(t) ==
  /\ Top(t) = "drain" /\ stopped /\ Become(t, "halt")
  /\ UNCHANGED <<shutdown, work, stopped, ready, pending, resets, late>>

StopService(t) ==
  /\ Top(t) = "halt" /\ Pop(t)
  /\ stopped' = TRUE
  /\ UNCHANGED <<shutdown, work, ready, pending, resets, late>>

(***************************************************************************)
(* Reset.                                                                  *)
(***************************************************************************)
Reset(t) ==
  /\ Caller(t) /\ ~Stopping /\ ~Running
  /\ resets < MaxResets /\ resets' = resets + 1
  /\ shutdown = 1 /\ shutdown' = 0
  /\ Push(t, "revive")
  /\ UNCHANGED <<work, stopped, ready, pending, late>>

ResetService(t) ==
  /\ Top(t) = "revive" /\ Become(t, "rework")
  /\ stopped' = FALSE
  /\ UNCHANGED <<shutdown, work, ready, pending, resets, late>>

\* Faulty variant of ResetWork: no new work object.
ResetWorkMissing(t) ==
  /\ Top(t) = "rework" /\ Pop(t)
  /\ UNCHANGED <<shutdown, work, stopped, ready, pending, resets, late>>

\* The new work object replaces the old one, if Stop has not released it yet.
ResetWork(t) ==
  /\ Top(t) = "rework" /\ Pop(t)
  /\ work' = TRUE
  /\ UNCHANGED <<shutdown, stopped, ready, pending, resets, late>>

(***************************************************************************)
(* The specification.                                                      *)
(***************************************************************************)
\* Faulty variant of Init: the constructor makes no work object.
InitNoWork ==
  /\ shutdown = 0 /\ work = FALSE /\ stopped = FALSE
  /\ ready = 0 /\ pending = 0 /\ resets = 0 /\ late = 0
  /\ stack = [t \in Threads |-> <<>>]

Init ==
  /\ shutdown = 0 /\ work = TRUE /\ stopped = FALSE
  /\ ready = 0 /\ pending = 0 /\ resets = 0 /\ late = 0
  /\ stack = [t \in Threads |-> <<>>]

Serve(t) == Leave(t) \/ StartHandler(t) \/ EndHandler(t)
Proceed(t) == StopWork(t) \/ StopDrained(t) \/ StopService(t) \/ ResetService(t) \/ ResetWork(t)

Next ==
  \/ Complete
  \/ \E t \in Threads :
       \/ Run(t) \/ Poll(t) \/ Stop(t) \/ Reset(t) \/ Post(t) \/ StartOperation(t)
       \/ Serve(t) \/ Proceed(t)

Spec == Init /\ [][Next]_vars

\* Threads are scheduled and handlers end.  Operations need not complete.
Fairness == \A t \in Threads : WF_vars(Serve(t)) /\ WF_vars(Proceed(t))
FairSpec == Spec /\ Fairness

\* The operations that are pending complete some time.  Connection.tla and
\* Acceptor.tla show which do not: those of a Zombie.
OperationsEnd == WF_vars(Complete)

(***************************************************************************)
(* Properties.                                                             *)
(***************************************************************************)
\* The type invariant.
TypeOK ==
  /\ shutdown \in 0 .. 1 /\ work \in BOOLEAN /\ stopped \in BOOLEAN
  /\ ready \in Nat /\ pending \in Nat
  /\ stack \in [Threads -> Seq(Frame)]
  /\ resets \in 0 .. MaxResets /\ late \in 0 .. MaxLate

\* "This function blocks until the networking system is stopped"
\* (wrapper.h:46-47): the io_service is stopped, and Run may return, only
\* after Stop was called; the work object sees to it.
RunBlocks == stopped => shutdown = 1 \/ Resetting

\* Between calls of Stop and Reset the flag, the work object and the state of
\* the io_service agree: the Hive is up or it is down, never half of each.
FlagAgrees ==
  ~Stopping /\ ~Resetting =>
    /\ shutdown = 0 => work /\ ~stopped
    /\ shutdown = 1 => ~work /\ stopped

\* However many threads, and handlers nested in their calls, call Stop at once,
\* one call gets past the test of m_shutdown (wrapper.cpp:84): m_work_ptr, which
\* is no atomic, has one writer, and no run() of Stop waits for another.
StopAlone ==
  \A t, u \in Threads : \A i \in DOMAIN stack[t], j \in DOMAIN stack[u] :
    stack[t][i] \in StopFrames /\ stack[u][j] \in StopFrames => t = u /\ i = j

\* "All work is finished" (wrapper.h:52): when the io_service stops, nothing is
\* queued and no operation is pending, what was posted or started after Stop
\* was called included; and as long as it is stopped no thread executes a
\* handler.  What other threads post to a stopped io_service waits for Reset.
StopFinishesWork ==
  [][/\ ~stopped /\ stopped' => ready' = 0 /\ pending' = 0
     /\ stopped' => Executing' = {}]_vars

\* Thread t is in a call of Stop that one of its handlers made.
StopInHandler(t) ==
  \E i, j \in DOMAIN stack[t] : i < j /\ stack[t][i] \in StopFrames /\ stack[t][j] = "handler"

\* Stop returns if the operations end: the Hive is down some time after.
StopReturns == OperationsEnd => ((shutdown = 1) ~> (shutdown = 0 \/ ~Stopping))

\* It does, and so does every Run it ends (the threads that main joins),
\* unless a handler made the call: the run() of Stop then waits for the very
\* handler it is called from (wrapper.cpp:87).
StopReturnsOutside ==
  OperationsEnd =>
    ((shutdown = 1) ~> (shutdown = 0 \/ ~Stopping \/ \E t \in Threads : StopInHandler(t)))

RunsReturn ==
  OperationsEnd =>
    \A t \in Threads :
      (shutdown = 1 /\ "run" \in Frames(t))
        ~> (shutdown = 0 \/ "run" \notin Frames(t) \/ \E u \in Threads : StopInHandler(u))
=============================================================================
