------------------------------ MODULE WorkerPool ------------------------------
(***************************************************************************)
(* The programs of src/Chapter4 and src/Chapter5, three of src/Chapter6    *)
(* and cancelOperation.cpp: a main thread creates worker threads that call *)
(* io_service::run, gives them handlers through post, dispatch, a strand,  *)
(* timers or one socket operation, and waits for them.                     *)
(*                                                                         *)
(* Each program is data: the statements of main, the statements of its     *)
(* handlers and what its workers do about an exception.  The actions are   *)
(* the statements, one step each, and the io_service underneath.  Printing *)
(* and sleeping are left out: the schedule is arbitrary.                   *)
(***************************************************************************)
EXTENDS Naturals, Sequences, FiniteSets

CONSTANTS
  MaxPool,  \* bound: worker threads of a program (5, 2 or 1 in the sources)
  MaxPosts  \* bound: rounds of a loop that posts, dispatches or polls (2 to 6 in the sources)

ASSUME WorkerPoolAssumption == MaxPool \in Nat \ {0} /\ MaxPosts \in Nat \ {0}

Threads == 0 .. MaxPool \* thread 0 is main
Workers == 1 .. MaxPool

(***************************************************************************)
(* Statements and programs.                                                *)
(***************************************************************************)
\* The call number n of a handler; wrapped by strand.wrap() or not.
Call(kind, n) == [kind |-> kind, n |-> n, wrapped |-> FALSE]
Wrap(h) == [h EXCEPT !.wrapped = TRUE]

Stmt(op, h) == [do |-> op, h |-> h]
Do(op) == <<Stmt(op, Call("none", 0))>>

AtMost(n, bound) == IF n < bound THEN n ELSE bound
CreateThreads(n) == [i \in 1 .. AtMost(n, MaxPool) |-> Stmt("create", Call("WorkerThread", i))]
Each(op, kind, n) == [i \in 1 .. AtMost(n, MaxPosts) |-> Stmt(op, Call(kind, i))]
PostWrapped(kind, n) == [i \in 1 .. AtMost(n, MaxPosts) |-> Stmt("post", Wrap(Call(kind, i)))]

\* main; the bodies of the handlers that contain more than output; has the
\* program a work object; what becomes of an exception in a worker: "plain",
\* nobody catches it; "catch", it ends the thread; "loop", run() is called again.
Program(main, body, work, mode) == [main |-> main, body |-> body, work |-> work, mode |-> mode]
NoBody == [none |-> <<>>]

\* Faulty variant of PostProgram: worker.reset() comes before the posts.
PostProgramEarlyReset == Program(
  CreateThreads(5) \o Do("dropWork") \o Each("post", "CalculateFactorial", 3) \o Do("join"),
  NoBody, TRUE, "plain")

PostProgram == Program(
  CreateThreads(5) \o Each("post", "CalculateFactorial", 3) \o Do("dropWork") \o Do("join"),
  NoBody, TRUE, "plain")

\* Running() dispatches and posts in turns.
DispatchProgram == Program(
  CreateThreads(1) \o <<Stmt("post", Call("Running", 0))>> \o Do("dropWork") \o Do("join"),
  [Running |-> [i \in 1 .. 2 * AtMost(5, MaxPosts) |->
                  IF i % 2 = 1 THEN Stmt("dispatch", Call("Dispatch", i)) ELSE Stmt("post", Call("Post", i))]],
  TRUE, "plain")

\* No handler at all: the threads wait for ENTER.
MultithreadsProgram == Program(
  CreateThreads(5) \o Do("enter") \o Do("stop") \o Do("join"), NoBody, TRUE, "plain")
MutexbindProgram == Program(
  CreateThreads(5) \o Do("enter") \o Do("stop") \o Do("join"), NoBody, TRUE, "plain")

\* main itself runs or polls an io_service without handlers.
PollProgram == Program(Each("poll", "none", 5), NoBody, FALSE, "plain")
PollworkProgram == Program(Each("poll", "none", 5), NoBody, TRUE, "plain")
RemoveworkProgram == Program(Do("dropWork") \o Do("run"), NoBody, TRUE, "plain")
BlockedProgram == Program(Do("run"), NoBody, TRUE, "plain")
UnblockedProgram == Program(Do("run"), NoBody, FALSE, "plain")

\* Faulty variants of StrandProgram: it posts to the io_service itself; it
\* keeps its work object.
StrandProgramBare == Program(
  CreateThreads(5) \o Each("post", "Print", 5) \o Do("dropWork") \o Do("join"), NoBody, TRUE, "plain")
StrandProgramKeepsWork == Program(
  CreateThreads(5) \o Each("strandPost", "Print", 5) \o Do("join"), NoBody, TRUE, "plain")

StrandProgram == Program(
  CreateThreads(5) \o Each("strandPost", "Print", 5) \o Do("dropWork") \o Do("join"),
  NoBody, TRUE, "plain")
NonstrandProgram == Program(
  CreateThreads(5) \o Each("post", "Print", 5) \o Do("dropWork") \o Do("join"), NoBody, TRUE, "plain")
StrandwrapProgram == Program(
  CreateThreads(5) \o PostWrapped("Print", 6) \o Do("dropWork") \o Do("join"), NoBody, TRUE, "plain")

\* Handlers that throw.
ExceptionProgram == Program(
  CreateThreads(2) \o Each("post", "ThrowAnException", 5) \o Do("join"),
  [ThrowAnException |-> Do("throw")], TRUE, "catch")

PostAgainAndThrow == [ThrowAnException |-> <<Stmt("post", Call("ThrowAnException", 1))>> \o Do("throw")]
Exception2Program == Program(
  CreateThreads(5) \o Each("post", "ThrowAnException", 1) \o Do("join"), PostAgainAndThrow, TRUE, "catch")
ErrorcodeProgram == Program(
  CreateThreads(5) \o Each("post", "ThrowAnException", 1) \o Do("join"), PostAgainAndThrow, TRUE, "plain")
Errorcode2Program == Program(
  CreateThreads(5) \o Each("post", "ThrowAnException", 1) \o Do("join"), PostAgainAndThrow, TRUE, "loop")

\* Timers.
Tick == Call("TimerHandler", 0)
TimerProgram == Program(
  CreateThreads(5) \o <<Stmt("wait", Tick)>> \o Do("enter") \o Do("stop") \o Do("join"),
  NoBody, TRUE, "loop")
Timer2Program == Program(
  CreateThreads(5) \o <<Stmt("wait", Tick)>> \o Do("enter") \o Do("stop") \o Do("join"),
  [TimerHandler |-> <<Stmt("wait", Tick)>>], TRUE, "loop")

\* Faulty variant of Timer3Program: the timer's handler is not wrapped.
Timer3ProgramUnwrapped == Program(
  CreateThreads(5) \o Each("strandPost", "Print", 5) \o <<Stmt("wait", Tick)>>
    \o Do("enter") \o Do("stop") \o Do("join"),
  [TimerHandler |-> <<Stmt("wait", Tick)>>], TRUE, "loop")

Timer3Program == Program(
  CreateThreads(5) \o Each("strandPost", "Print", 5) \o <<Stmt("wait", Wrap(Tick))>>
    \o Do("enter") \o Do("stop") \o Do("join"),
  [TimerHandler |-> <<Stmt("wait", Wrap(Tick))>>], TRUE, "loop")

\* One socket operation; resolve, bind or listen may throw before it starts,
\* which main catches.
ServerasyncProgram == Program(
  CreateThreads(2) \o <<Stmt("tryStart", Call("OnAccept", 0))>>
    \o Do("enter") \o Do("cancel") \o Do("stop") \o Do("join"), NoBody, TRUE, "loop")
ConnectasyncProgram == Program(
  CreateThreads(2) \o <<Stmt("tryStart", Call("OnConnect", 0))>>
    \o Do("enter") \o Do("cancel") \o Do("stop") \o Do("join"), NoBody, TRUE, "loop")
ConnectsyncProgram == Program(
  CreateThreads(2) \o Do("enter") \o Do("stop") \o Do("join"), NoBody, TRUE, "loop")

\* The operation starts before the thread that serves it, there is no work
\* object, and main cancels the operation and waits for the thread.
CancelOperationProgram == Program(
  <<Stmt("start", Call("OnConnect", 0))>> \o CreateThreads(1) \o Do("cancel") \o Do("join"),
  NoBody, FALSE, "plain")

Programs == [
  post |-> PostProgram, dispatch |-> DispatchProgram, multithreads |-> MultithreadsProgram,
  mutexbind |-> MutexbindProgram, poll |-> PollProgram, pollwork |-> PollworkProgram,
  removework |-> RemoveworkProgram, blocked |-> BlockedProgram, unblocked |-> UnblockedProgram,
  strand |-> StrandProgram, nonstrand |-> NonstrandProgram, strandwrap |-> StrandwrapProgram,
  exception |-> ExceptionProgram, exception2 |-> Exception2Program,
  errorcode |-> ErrorcodeProgram, errorcode2 |-> Errorcode2Program,
  timer |-> TimerProgram, timer2 |-> Timer2Program, timer3 |-> Timer3Program,
  serverasync |-> ServerasyncProgram, connectasync |-> ConnectasyncProgram,
  connectsync |-> ConnectsyncProgram, cancelOperation |-> CancelOperationProgram]

(***************************************************************************)
(* State.                                                                  *)
(***************************************************************************)
VARIABLES
  prog,     \* the program that runs
  code,     \* what each thread has still to execute, the handler it is in first
  queue,    \* handlers queued in the io_service
  strandQ,  \* handlers queued in the strand
  work,     \* the work object exists
  stopped,  \* the io_service's own flag: run() and poll() return
  pending,  \* timers and socket operations that have not completed
  aborted,  \* std::terminate was called
  begun     \* history: handlers in the order they first began

vars == <<prog, code, queue, strandQ, work, stopped, pending, aborted, begun>>
services == <<queue, strandQ, work, stopped, pending>>

P == Programs[prog]
At(t, op) == code[t] # <<>> /\ code[t][1].do = op
Arg(t) == code[t][1].h
Continue(t) == code' = [code EXCEPT ![t] = Tail(@)]

\* What the call h executes: a wrapped handler only passes the original on to
\* strand.dispatch.
Body(h) ==
  IF h.wrapped THEN <<Stmt("strandDispatch", [h EXCEPT !.wrapped = FALSE])>>
  ELSE IF h.kind \in DOMAIN P.body THEN P.body[h.kind] ELSE <<>>

Begin(h) ==
  begun' = IF h.wrapped \/ \E i \in DOMAIN begun : begun[i] = h THEN begun ELSE Append(begun, h)

\* The calls thread t is in: each ends in "return", or in "unlock" if the
\* strand made it.
Ends == {"return", "unlock"}
Inside(t, ends) == {code[t][i].h : i \in {j \in DOMAIN code[t] : code[t][j].do \in ends}}
Executing == {t \in Threads : Inside(t, Ends) # {}}
StrandBusy == \E t \in Threads : Inside(t, {"unlock"}) # {}

\* run() ends for good when nothing is left that could give it a handler.
OutOfWork == ~work /\ queue = <<>> /\ strandQ = <<>> /\ pending = {} /\ Executing = {}

(***************************************************************************)
(* The statements.                                                         *)
(***************************************************************************)
CreateThread(t) ==
  /\ At(t, "create")
  /\ code' = [code EXCEPT ![t] = Tail(@), ![Arg(t).n] = Do("run")]
  /\ UNCHANGED <<services, aborted, begun>>

Post(t) ==
  /\ At(t, "post") /\ Continue(t)
  /\ queue' = Append(queue, Arg(t))
  /\ UNCHANGED <<strandQ, work, stopped, pending, aborted, begun>>

StrandPost(t) ==
  /\ At(t, "strandPost") /\ Continue(t)
  /\ strandQ' = Append(strandQ, Arg(t))
  /\ UNCHANGED <<queue, work, stopped, pending, aborted, begun>>

\* dispatch, in a handler of the same io_service: the call is made at once.
Dispatch(t) ==
  /\ At(t, "dispatch")
  /\ code' = [code EXCEPT ![t] = Body(Arg(t)) \o <<Stmt("return", Arg(t))>> \o Tail(@)]
  /\ Begin(Arg(t))
  /\ UNCHANGED <<services, aborted>>

StrandDispatch(t) ==
  /\ At(t, "strandDispatch")
  /\ \/ /\ ~StrandBusy /\ strandQ = <<>>
        /\ code' = [code EXCEPT ![t] = Body(Arg(t)) \o <<Stmt("unlock", Arg(t))>> \o Tail(@)]
        /\ Begin(Arg(t))
        /\ UNCHANGED strandQ
     \/ /\ StrandBusy \/ strandQ # <<>>
        /\ Continue(t)
        /\ strandQ' = Append(strandQ, Arg(t))
        /\ UNCHANGED begun
  /\ UNCHANGED <<queue, work, stopped, pending, aborted>>

\* async_wait, async_accept, async_connect.
Start(t) ==
  /\ \/ At(t, "wait") /\ pending' = pending \union {[h |-> Arg(t), timed |-> TRUE]}
     \/ (At(t, "start") \/ At(t, "tryStart")) /\ pending' = pending \union {[h |-> Arg(t), timed |-> FALSE]}
     \/ At(t, "tryStart") /\ UNCHANGED pending
  /\ Continue(t)
  /\ UNCHANGED <<queue, strandQ, work, stopped, aborted, begun>>

\* cancel() and close(): the operation completes, with operation_aborted.  No
\* program starts more than one.
Cancel(t) ==
  /\ At(t, "cancel") /\ Continue(t)
  /\ \/ \E w \in pending : ~w.timed /\ pending' = pending \ {w} /\ queue' = Append(queue, w.h)
     \/ (\A w \in pending : w.timed) /\ UNCHANGED <<pending, queue>>
  /\ UNCHANGED <<strandQ, work, stopped, aborted, begun>>

DropWork(t) ==
  /\ At(t, "dropWork") /\ Continue(t)
  /\ work' = FALSE
  /\ UNCHANGED <<queue, strandQ, pending, aborted, begun>>
  /\ stopped' = (stopped \/ OutOfWork')

Stop(t) ==
  /\ At(t, "stop") /\ Continue(t)
  /\ stopped' = TRUE
  /\ UNCHANGED <<queue, strandQ, work, pending, aborted, begun>>

\* std::cin.get() returns.
Enter(t) == At(t, "enter") /\ Continue(t) /\ UNCHANGED <<services, aborted, begun>>

JoinAll(t) ==
  /\ At(t, "join") /\ Continue(t)
  /\ \A w \in Workers : code[w] = <<>>
  /\ UNCHANGED <<services, aborted, begun>>

\* Faulty variant of Throw: the loop around run() is missing.
ThrowEndsThread(t) ==
  /\ At(t, "throw")
  /\ \/ P.mode = "plain" /\ aborted' = TRUE /\ UNCHANGED code
     \/ P.mode # "plain" /\ code' = [code EXCEPT ![t] = <<>>] /\ UNCHANGED aborted
  /\ UNCHANGED <<queue, strandQ, work, pending, begun>>
  /\ stopped' = (stopped \/ OutOfWork')

\* The exception leaves run().
Throw(t) ==
  /\ At(t, "throw")
  /\ \/ P.mode = "plain" /\ aborted' = TRUE /\ UNCHANGED code
     \/ P.mode = "catch" /\ code' = [code EXCEPT ![t] = <<>>] /\ UNCHANGED aborted
     \/ P.mode = "loop" /\ code' = [code EXCEPT ![t] = Do("run")] /\ UNCHANGED aborted
  /\ UNCHANGED <<queue, strandQ, work, pending, begun>>
  /\ stopped' = (stopped \/ OutOfWork')

(***************************************************************************)
(* The io_service and its strand.                                          *)
(***************************************************************************)
Serves(t) == (At(t, "run") \/ At(t, "poll")) /\ ~stopped

\* A thread in run() calls the next handler of the queue.
CallNext(t) ==
  /\ Serves(t) /\ queue # <<>>
  /\ LET h == Head(queue)
     IN code' = [code EXCEPT ![t] = Body(h) \o <<Stmt("return", h)>> \o @] /\ Begin(h)
  /\ queue' = Tail(queue)
  /\ UNCHANGED <<strandQ, work, stopped, pending, aborted>>

\* A thread in run() calls the next handler of the strand, which is free.
CallStrand(t) ==
  /\ Serves(t) /\ strandQ # <<>> /\ ~StrandBusy
  /\ LET h == Head(strandQ)
     IN code' = [code EXCEPT ![t] = Body(h) \o <<Stmt("unlock", h)>> \o @] /\ Begin(h)
  /\ strandQ' = Tail(strandQ)
  /\ UNCHANGED <<queue, work, stopped, pending, aborted>>

\* A handler returns; the strand, if it made the call, is free again.
Return(t) ==
  /\ At(t, "return") \/ At(t, "unlock")
  /\ Continue(t)
  /\ UNCHANGED <<queue, strandQ, work, pending, aborted, begun>>
  /\ stopped' = (stopped \/ OutOfWork')

\* run() and poll() return.
Leave(t) ==
  /\ \/ At(t, "run") /\ (stopped \/ OutOfWork)
     \/ At(t, "poll") /\ (stopped \/ (queue = <<>> /\ strandQ = <<>>))
  /\ Continue(t)
  /\ stopped' = (stopped \/ OutOfWork)
  /\ UNCHANGED <<queue, strandQ, work, pending, aborted, begun>>

Complete(w) ==
  /\ ~stopped
  /\ pending' = pending \ {w} /\ queue' = Append(queue, w.h)
  /\ UNCHANGED <<code, strandQ, work, stopped, aborted, begun>>

Expire == \E w \in pending : w.timed /\ Complete(w)
PeerAnswers == \E w \in pending : ~w.timed /\ Complete(w)

(***************************************************************************)
(* The specification.                                                      *)
(***************************************************************************)
Init ==
  /\ prog \in DOMAIN Programs
  /\ code = [t \in Threads |-> IF t = 0 THEN P.main ELSE <<>>]
  /\ queue = <<>> /\ strandQ = <<>> /\ pending = {} /\ begun = <<>>
  /\ work = P.work /\ stopped = FALSE /\ aborted = FALSE

Step(t) ==
  /\ ~aborted /\ UNCHANGED prog
  /\ \/ CreateThread(t) \/ Post(t) \/ StrandPost(t) \/ Dispatch(t) \/ StrandDispatch(t)
     \/ Start(t) \/ Cancel(t) \/ DropWork(t) \/ Stop(t) \/ JoinAll(t) \/ Throw(t)
     \/ CallNext(t) \/ CallStrand(t) \/ Return(t) \/ Leave(t)

Timers == ~aborted /\ UNCHANGED prog /\ Expire
Outside == ~aborted /\ UNCHANGED prog /\ (PeerAnswers \/ \E t \in Threads : Enter(t))

Next == Timers \/ Outside \/ \E t \in Threads : Step(t)

Spec == Init /\ [][Next]_vars

\* Threads are scheduled and timers expire; nobody has to press ENTER, and a
\* peer need not answer.
FairSpec == Spec /\ WF_vars(Timers) /\ \A t \in Threads : WF_vars(Step(t))

(***************************************************************************)
(* Properties.                                                             *)
(***************************************************************************)
Statements ==
  {"create", "post", "strandPost", "dispatch", "strandDispatch", "wait", "start", "tryStart",
   "cancel", "dropWork", "stop", "enter", "join", "throw", "run", "poll"} \union Ends
Kinds == {"none", "WorkerThread", "CalculateFactorial", "Running", "Dispatch", "Post", "Print",
          "ThrowAnException", "TimerHandler", "OnAccept", "OnConnect"}
Handler == [kind : Kinds, n : Nat, wrapped : BOOLEAN]
Plain == [kind : Kinds, n : Nat, wrapped : {FALSE}]

\* The type invariant: the strand only ever holds what was wrapped, never the
\* wrapper.
TypeOK ==
  /\ prog \in DOMAIN Programs
  /\ queue \in Seq(Handler) /\ strandQ \in Seq(Plain) /\ begun \in Seq(Plain)
  /\ pending \subseteq [h : Handler, timed : BOOLEAN]
  /\ work \in BOOLEAN /\ stopped \in BOOLEAN /\ aborted \in BOOLEAN
  /\ code \in [Threads -> Seq([do : Statements, h : Handler])]

Printing == {t \in Threads : \E h \in Inside(t, Ends) : h.kind = "Print" /\ ~h.wrapped}

\* "We avoid lock() in the Print() function and it still runs properly due to
\* the io_service::strand" (strand.cpp:24): wherever a strand is used, whether
\* by post or by wrap, two threads never print at a time.
SerialPrints == prog \in {"strand", "strandwrap", "timer3"} => Cardinality(Printing) <= 1

\* Handlers begin in the order the comments promise: the strand's in the order
\* they were posted (strand.cpp:53) and a timer wrapped by the strand only
\* after what was posted before (timer3.cpp:40-43), though several threads take
\* them from the queue; and dispatched calls before everything Running posts
\* (dispatch.cpp:47-49), which has one worker.
OrderKept ==
  \A i, j \in DOMAIN begun : i < j =>
    LET a == begun[i] b == begun[j]
    IN /\ prog \in {"strand", "timer3"} /\ a.kind = "Print" /\ b.kind = "Print" => a.n < b.n
       /\ prog = "timer3" => ~(a.kind = "TimerHandler" /\ b.kind = "Print")
       /\ prog = "dispatch" => ~(a.kind = "Post" /\ b.kind = "Dispatch")

Finished == code[0] = <<>>

\* "The program will exit once all work has finished" (post.cpp:58; all six but
\* cancelOperation print it): when main has joined its threads, no handler is
\* queued and no operation is pending, although the threads decide on their own
\* when to leave run().  It does not hold of the programs that stop the service
\* or lose threads to exceptions, though exception.cpp and others print it too.
AllWorkDone ==
  Finished /\ prog \in {"post", "dispatch", "strand", "nonstrand", "strandwrap", "cancelOperation"} =>
    queue = <<>> /\ strandQ = <<>> /\ pending = {} /\ Executing = {}

Created ==
  {w \in Workers :
     /\ \E i \in DOMAIN P.main : P.main[i].do = "create" /\ P.main[i].h.n = w
     /\ ~ \E i \in DOMAIN code[0] : code[0][i].do = "create" /\ code[0][i].h.n = w}
Gone == {w \in Created : code[w] = <<>>}

\* Exceptions and the pool: where the thread calls run() again no thread is
\* lost before the service is stopped (errorcode2.cpp:15-16), and where it
\* does not, one handler runs for every thread lost, so main leaves handlers
\* behind (exception.cpp:63-65).
PoolSurvives ==
  /\ P.mode = "loop" /\ ~stopped => Gone = {}
  /\ prog = "exception" => Len(begun) = Cardinality(Gone \union Executing)

\* Every program comes to its end, or to the point where it waits for ENTER:
\* all but the one that blocks on purpose and the one that throws for ever.
Exits == prog \notin {"blocked", "errorcode2"} ~> (Finished \/ aborted \/ At(0, "enter"))
=============================================================================
