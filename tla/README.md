# BoostAsio: specifications

TLA+ modules, TLC configurations and TLAPS proofs for the programs of this
repository: a course on Boost.Asio (`src/Chapter1` to `src/Chapter6`), which ends
in a small networking library (`src/Chapter6/wrapper.h`, `wrapper.cpp`), the
programs of a second book (`src/NetworkProgrammingCookbook`) and a daytime server
(`src/TCP_Server`).  The library and the asynchronous client of the cookbook are
the parts with most state of their own: threads, handlers, timers, queues and
mutexes; each has a module that follows its code.  The other programs are small
and share two settings, a pool of threads that runs handlers and a connection
that carries bytes; there is one module for each setting, in which a program is a
piece of data.

## 1. Inventory

| component | state it keeps | operations | hard behaviour |
|---|---|---|---|
| **Hive** (`wrapper.cpp:24-101`) | `m_shutdown`, `m_work_ptr`, the `io_service` | `Run`, `Poll`, `Stop`, `Reset` | called from any thread and from handlers; `Stop` drains the service itself; statements of `Stop` and `Reset` interleave |
| **Connection** (`wrapper.cpp:246-503`) | socket, strand, timer, `m_pending_sends`, `m_pending_recvs`, `m_recv_buffer`, `m_error_state` | `Bind`, `Connect`, `Send`, `Recv`, `Disconnect`; handlers `Dispatch*`, `Handle*` | posts and completions interleave on the strand; the peer closes or resets; the timer polls `m_shutdown`; errors come from four handlers, and before the connection is dialled |
| **Acceptor** (`wrapper.cpp:104-243`) | `m_acceptor`, strand, timer, `m_error_state` | `Listen`, `Accept`, `Stop`; `DispatchAccept`, `HandleAccept`, `HandleTimer` | `HandleAccept` runs on the strand of the connection while the acceptor's own strand closes `m_acceptor` |
| **AsyncTCPClient** (`asyncClientTCP.cpp:72-237`) | `m_active_sessions` with its mutex, one session per request with `m_cancel_guard` and `m_was_cancelled`, worker threads | `emulateLongComputationOp`, `cancelRequest`, `close`; three handlers and `onRequestComplete` | a cancel races completions; two mutexes; `close` joins the pool |
| Echo programs, HTTP client (`Chapter6/echo*.cpp`, `clienthttpget.cpp`) | callbacks on the library | `OnAccept`, `OnRecv`, ... call `Send`, `Recv`, `Disconnect` | an echo protocol over partial receives; `Stop` while connections are open |
| ClientContext (`Chapter6/readwritesocket.cpp`) | a connection without strand, timer and error state | `Close`, `OnSend`, `Send`, `OnRecv`, `Recv`, `OnAccept` | one worker thread instead of a strand |
| Accept/connect examples (`serverasync`, `connectasync`, `connectsync`) | one socket or acceptor | one operation | a stop while it is pending |
| io_service examples (`Chapter4`) | an `io_service`, its threads, a work object | `post`, `dispatch`, `poll`, `run`, `stop`, `work.reset` | order of posted handlers in several threads, of dispatched and posted ones in one |
| Strand, exception and timer examples (`Chapter5`) | the same with strands, throwing handlers, a timer | `strand.post`, `wrap`, `async_wait` | `Print` has no lock; threads that end by exception; a timer that restarts itself and shares a strand |
| TCP_Server (`server.cpp`, `daytime_*.cpp`) | an acceptor and one session per client | accept loop, echo session | a failed accept ends the loop |
| Partial I/O (`NetworkProgrammingCookbook/Chapter2`) | a buffer and how much of it is transferred | `async_read_some`, `async_write_some` loops, `cancel` from a second thread | short transfers; two writes on one socket |
| Half-close (`ClientCloseAndShutdown`, `ServerCloseAndShutdown`) | two sockets | request, `shutdown`, answer, `shutdown` | each side reads to the end of the other's stream |
| Synchronous clients (`Chapter3/sync*.cpp`) | a socket | request, answer | an answer in pieces; a datagram is lost |

How they interact.  `Connection` and `Acceptor` hold a `shared_ptr` to the Hive:
they use its `io_service` and read `HasStopped()` in every handler.  The
application calls them from any thread; calls that touch shared state are posted
to the strand of their object.  `Acceptor::HandleAccept` is bound to the
connection's strand and calls `Connection::StartTimer`, `StartError` and
`OnAccept`.  Results come back through virtual callbacks (`OnConnect`, `OnAccept`,
`OnSend`, `OnRecv`, `OnTimer`, `OnError`), which run on the strand and may call
the API again.  `Hive::Stop` communicates with the rest by a flag only: timers
poll it, close their sockets, and so let the `io_service` run out of work.

What makes the components correct:

* Connection: one write and one read at a time; buffers are written, and
  confirmed, in order and whole; the bytes of the stream are reported in order,
  of the size asked for; no request is stranded; one error, reported once, final,
  and silence after it.
* Acceptor: a pending accept is always watched by the timer; no accepted connection
  takes the acceptor down; no accepted socket is left without a watchdog.
* Hive: one `Stop` at a time; `Run` blocks until `Stop`; the `io_service` stops only
  when all work is done, and then both return; every open connection was told.
* AsyncTCPClient: every request is reported once; a cancelled one never as a
  success; `close` returns.
* Thread pools: a strand serialises and keeps the order; `main` leaves when all
  work is done and no earlier, and does leave; exceptions cost threads only where
  the worker does not call `run()` again.
* Byte exchanges: however the network cuts the stream, messages and echoes come
  out whole and in order; only `eof` ends a message; nobody waits for ever.

`PROJECT.json` lists the hazards behind these, each with its line.

## 2. The modules

| module | models | notes |
|---|---|---|
| `Connection.tla` | class Connection | `Next` = application calls, handlers on the strand, the library and the network |
| `Channel.tla` | what a Connection promises | abstract: accepted buffers, pieces on the wire, confirmations, reports, failure |
| `ConnectionProofs.tla` | theorems about `Connection`: typing, queues, buffer | TLAPS |
| `ConnectionEndProofs.tla` | theorems about `Connection`: errors, the timer, `Stop`; EXTENDS `ConnectionProofs` | TLAPS |
| `ChannelProofs.tla` | `Connection` implements `Channel`; EXTENDS `ConnectionEndProofs` | TLAPS |
| `AcceptorProofs.tla` | theorems about `Acceptor` and the connections it accepts; EXTENDS `ConnectionEndProofs` | TLAPS |
| `HiveProofs.tla` | theorems about `Hive` | TLAPS |
| `AsyncTCPClientProofs.tla` | theorems about `AsyncTCPClient` | TLAPS |
| `WorkerPoolProofs.tla` | theorems about `WorkerPool` | TLAPS |
| `StreamsProofs.tla` | theorems about `Streams`, and lemmas about `FlattenSeq` and `Only` | TLAPS |
| `Acceptor.tla` | class Acceptor, EXTENDS `Connection` | composes the acceptor with its connections |
| `Hive.tla` | class Hive | one action per statement, a stack of calls per thread |
| `AsyncTCPClient.tla` | class AsyncTCPClient | one action per critical section |
| `WorkerPool.tla` | 23 programs of `Chapter4`, `Chapter5`, `Chapter6` and `cancelOperation.cpp` | one operator per program, one action per kind of statement |
| `Streams.tla` | 16 programs that exchange bytes over TCP | one operator per program, one action per kind of operation |
| `MC*.tla` | constants for TLC | |

### Connection

State: `strand` is the queue of handlers of `m_io_strand`; `io[c][h]` is the set
of outstanding asynchronous operations whose completion handler is `h`, as
records `[id, done, ec]`, where `id` is the buffer or the receive it was started
for, `done` how much was transferred and `ec` is `"pending"` until it completes;
`pendingSends`, `pendingRecvs`, `recvBuffer`, `error`, `socket` are the members of
that name; `peer` is the remote end (bytes it sent, bytes the socket took, pieces
it was sent, how it ended); `seen` is what the callbacks were told; `asked` counts
the calls of the application; `hive` is the Hive reduced to what a connection can
see of it: the flag, and whether a thread still serves the `io_service`.

A handler is one action: the strand runs one at a time and nothing else touches
its state.  `Connect` is two actions (`Connect`, `ConnectTimer`), since it runs in
the caller's thread beside the strand.  `Send`, `Recv` and `Disconnect` may be called at
any time, also before `Connect` and while `resolve()` blocks in it (422): their handlers
run on a socket that is closed, and an error they report is set before
`async_connect` (424) opens it.  `Zombie(c)` is a connection whose error came first and
whose socket is open all the same.  `strand.wrap` around a completion is
`Deliver`: a *completed* operation is not yet a handler that runs, it is queued
behind what was posted meanwhile.  This gap between completion, dispatch and
handler is where the interesting interleavings are.  `Cancel` is the rule of
`cancel()`, `close()` and `expires_from_now()`: what has completed keeps its
result, what is pending is aborted.  `HandleTimer` and `DispatchTimer` are both
kept: the timer's handler posts the one that acts, as the code does.

Data: a buffer is its number; it is written in `Parts` pieces (`WriteSome`), so
that interleaved writes are visible; the stream's bytes are numbered, so that a
gap or a duplicate is visible; `ReadSome` fills `m_recv_buffer` by any number of
bytes.  `remote_endpoint()` throws if the peer has reset the connection:
`HandleConnect` then sets `hive = "crashed"`.

### Channel

Seven actions: accept a buffer, write its next piece, confirm, invite a receive,
report bytes, dial, fail.  Order, wholeness and "nothing after failure" are its guards.
A channel that failed before it was dialled is `mute` afterwards: it may write what it
was given, as the code does then, but neither confirms nor reports anything.
`Promise(c) == INSTANCE Channel WITH ...` in `Connection` is the refinement
mapping, and `ImplementsChannel` says that every step of a connection maps to a
step of its channel or to none.

### Acceptor

Adds the acceptor's strand `aStrand`, timer `aWaits`, error state `aError`, and the
first-in first-out queue `accepts` of connections with a pending `async_accept`.
`HandleAccept` (`wrapper.cpp:160-178`) is split by its outcome (`HandleAcceptFails`,
`HandleAcceptClosed`, `HandleAcceptOpen`), and the last one again at the point
where it reads `m_acceptor` while the acceptor's strand may close it
(`FinishAccept`).  `AcceptorStartError` closes `m_acceptor`, which aborts every
pending accept.  The application may use a connection, and disconnect it, before it
is accepted or handed to `Accept`, as `echoserverasync.cpp:136-137` does.

### Hive

`stack[t]` holds the calls thread `t` is in: `run`, `poll`, a handler, or a
statement of `Stop` or `Reset`; a handler may itself be in `Stop`.  `ready` and
`pending` count queued handlers and operations, and `Outstanding` is the
`io_service`'s own count, at zero of which `run` returns and the service is
stopped.  `Reset` comes only when no thread is in `Run`, `Poll` or `Stop`, and these
wait until it is through: `io_service::reset` demands it of its callers.  Handlers and
other threads post and start operations at any time, after `Stop` was called and after
it returned too, since `Send`, `Recv`, `Connect` and `StartSend` do not look at
`m_shutdown`.

### AsyncTCPClient

`stage[s]` is the operation a session has reached, `op[s]` its state, `handler[s]`
how far its running handler has come, `cancelGuard[s]` and `sessionsGuard` the two
mutexes, `target[k]` the session that canceller `k` has found.  `active` maps a
`request_id` to its session; `id` is chosen at the start, so that requests may share
one.  Each critical section is an action, so a cancel can come between any two of
them.  `async_write` and `async_read_until` are series of operations on the socket:
`op[s] = "partial"` is the time between two of them, in which `cancel()` finds
nothing to abort and after which the series goes on (`Part`, `Continue`).  A call of
`cancelRequest` that finds no session changes nothing and is not an action.

### WorkerPool

`code[t]` is what thread `t` (0 is `main`) has still to execute: the statements of
the handler it is in, that handler's `return`, and below it the `run` it was called
from.  So a handler that calls another through `dispatch` is a prefix, and a
handler the strand called ends in `unlock` instead.  `queue` and `strandQ` hold
handlers, `pending` timers and socket operations, `work` says whether the work
object exists, `stopped` is the service's flag, and `begun` records the order in
which handlers began.  `prog` is chosen once: the module checks every program.

A program is `Program(main, body, work, mode)`: the statements of `main`, the
bodies of handlers that do more than print, whether there is a work object, and
what `WorkerThread` does about an exception: nothing (`std::terminate`), catch it
and end, or catch it and call `run()` again.  `strand.wrap` is modelled by what it
does: the wrapped handler, when called, passes the original to `strand.dispatch`
(`Body`), which calls it at once if the strand is free and empty, or queues it.
`dispatch` outside a strand always comes from a handler here, so it calls at once.

`AllWorkDone` is stated for the six programs that end when the work is done: the others
stop the service, lose threads to exceptions or wait for ENTER.  `OrderKept` covers
`strand.cpp` and `timer3.cpp`, with several threads, and `dispatch.cpp`, which has one.

Left out: output and the mutex around it, sleeping (schedules are arbitrary, so
the orders that sleeping makes likely are among them), and the factorial.

### Streams

End 1 connects, end 2 accepts; `pair` names their programs.  `todo[e]` is a set of
activities, each a sequence of composed operations with the bytes that are still to
be written or were read so far.  `out[e]` is everything end `e` wrote, `taken[e]` how
much of the other's stream it has read, `fin[e]` that its end of stream is
announced, `cut` that the connection was reset, `done[e]` the messages it has
completed.  `ReadSome` and `WriteSome` move any number of bytes: they are
`read_some` itself, or one step of `read`, `read_until` and `async_write`.

The kinds of operation: `full` (a buffer of `Want` bytes), `line` (up to the
delimiter), `eof` (until the stream ends), `dump` (a receive cycle), `echo` (read,
write, again), `echoRecv` with `echoSend` (the wrapper's echo: reading goes on while
echoes are queued), `write`, `shutdownSend`.  An error ends the activity
(`asyncReadFromSocket.cpp`: the callback returns) or the program's connection (an
exception in `main`, `StartError`, `Close`, a dropped session).

`Pairs` joins programs that are meant for each other, programs that can meet (the
half-close client and the echo servers), and four peers that are not in the
repository: senders with more or with less than the reader asks for, a collector,
a server that answers lines.  A socket that is closed with unread bytes, or
written to after it was closed, resets the connection, as TCP does.

Programs written with the wrapper are modelled on top of what `Connection` promises:
buffers are written whole and in order, bytes are reported once and in order
(`ImplementsChannel`), and an error closes the socket.  `getch()` of `echoserver.cpp`,
`echoclient.cpp` and `clienthttpget.cpp` is called without `initscr()` and returns at
once, so these programs poll every second; the statements behind `while (true)`
(`Stop` in line 134) are never reached.

Not in this module: further connections to the same server (sessions share
nothing), failures of the resolver, and a peer that dies in the middle of an
answer, which closes its stream in order and cannot be told from one that is done.

### Simplifications

* Buffer sizes are positive, as in the repository's own callers.
* Name resolution either succeeds or throws (`ConnectThrows`, `ListenThrows`).
* `OnTimer` keeps no state and is left out; other callbacks are recorded in `seen`.
* A callback may call the API as often as the bounds allow, at any time: this
  includes every program in `Chapter6` that uses the library.
* In `WorkerPool` and `Streams`, resolving a name, opening and binding succeed, or
  the program does not get as far as its operation (`tryStart`, `Refuse`).
* A second `async_connect` on one object, `Connect` on an accepted one or one handed
  to `Accept`, a second `Accept` of the same connection, and `Bind` after `Connect`
  are misuse and left out.  `Connect` after a `Connect` that threw in `resolve()` is
  not.
* `Connect` runs in the caller's thread; where it and a handler touch the socket or
  the timer at once (possible only if `Disconnect` is called before `Connect` has
  returned, or when the connect or the timer completes before `StartTimer` does),
  the two are taken in either order and not at the same time: what Boost.Asio's
  objects do under simultaneous use is undefined.
* Getters and setters of sizes and intervals keep no behaviour of their own.

## 3. The runs

| run | question | bounds |
|---|---|---|
| `ConnSend` | Are writes serial, whole, in order, never stranded, and settled? Does every dialled connection hear of `Stop`? | one connection, two buffers of two pieces, one `Disconnect` before, during or after `Connect`, peer closes or resets |
| `ConnRecv` | Does `m_recv_buffer` survive every interleaving? Is an error final, and silent afterwards? Does `Stop` drain, but for zombies? | `Recv(0)` then `Recv(2)`, a stream of 3 bytes, one `Disconnect` at any time |
| `ConnCrash` *(violation)* | Does `Run` end by `Stop` only? | one connection that sends and receives nothing; the peer closes or resets |
| `Accept` | Is the queue of accepts consistent, is everything watched and answered at `Stop`? What can end the acceptor? | two connections, one `Disconnect` each at any time, one `Acceptor::Stop`, resets |
| `AcceptStop` | Does `Stop` return, but for zombies? | one connection that sends, receives and is disconnected at any time, one `Acceptor::Stop` |
| `AcceptZombie` *(violation)* | Does `Stop` return when a connection is disconnected before it is accepted? | one receive, one `Disconnect`, a peer that stays |
| `Hive` | One `Stop` at a time; `Run` blocks; `Stop` finishes the work; both return | three threads, three handlers or operations at a time, two of them added after `Stop`, two resets |
| `HiveStopInHandler` *(violation)* | Does `Stop` return when a handler calls it? | two threads |
| `Client` | Reports once, cancels honoured, cancels effective but for two moments, `close` returns up to one deadlock | two requests with one id or two, two pool threads, two cancellers, two cancels per request; writes and reads of any number of parts |
| `ClientDeadlock` *(violation)* | Does `close` return? | one request, cancelled twice |
| `Pool` | Do strands serialise and keep the order, is all work done when `main` leaves, do threads survive, does every program end? | all 23 programs, three worker threads, loops of four rounds |
| `Streams` | Do messages and echoes stay intact, is an answer that ended with `eof` whole, does every pair end? | all 16 pairs, messages of three bytes, reads of four, four bytes in flight, a reset at any point |

Why the bounds suffice.  Connections share only the Hive's flag, so one shows what
can happen to each; what they share through an acceptor (its queue, its error state)
is checked with two.  Two sends are enough for a second request to find the first in
each of its stages, and two pieces for a write to be half done.  A `Recv(0)`
followed by a `Recv(2)` needs `m_recv_buffer` to be resized between reads in both
directions.  Three threads cover one in `Run`, one in `Stop` and one in a handler;
two posts or operations after `Stop` (`MaxLate`) let one come from a handler that
the drain runs and one from another thread.  Without that bound a handler could post
itself for ever, and nothing would drain.  `AcceptStop` checks liveness over an
acceptor and one connection with every kind of handler on its strand; two
connections are in `Accept`, whose properties need no fairness.  Two cancels per
request are what the lock-order deadlock takes. With three worker threads one can be
in the strand's handler, one about to enter the strand and one on its way out of
`run()`; four rounds leave handlers queued while all three are busy.  The loops of
the sources (up to six rounds, up to five threads) only repeat these.  A message of
three bytes can be cut in two places; reads of four bytes end in the middle of a
message and take several pieces; four bytes in flight (`Window`) let a writer run
ahead of its reader and also block on it. `CHECK_DEADLOCK FALSE` is used throughout,
since all these programs end: the Hive stops, the client closes, `main` returns.

Every property is paired with a mutant in `PROJECT.json`: a variant of one
definition with a plausible bug (the test in `should_start_*` dropped, the error
state not read, the timer not restarted, the socket not closed, the mutex not
released, `run()` left out of `Stop`...) under which TLC refutes the property.
The variants stand before the definition they replace.

### Fairness

* `ServiceFairness`, `AcceptorFairness`: the Hive's threads stay in `run()` (the
  programs call it in a loop or in a thread pool), so a queued handler runs, a
  completed operation is delivered, and time passes until a timer expires; a thread
  inside `Connect` or `Stop` goes on.  `HandleTimer` and others are fair as one
  action per strand, since the strand runs them in order. Nothing is assumed of
  peers, clients or the network: `Stop` must return without them.
* `NetworkFairness` (Connection): a connect is answered, and a peer takes data or
  goes away.  Used for `SendSettles` only, which cannot hold without it.
* `Hive!Fairness`: threads are scheduled and handlers end.  Nothing is assumed of
  operations.  That they end (`OperationsEnd`) is a premise of `StopReturns`,
  `StopReturnsOutside` and `RunsReturn`, stated in the formulas:
  `StopReturnsOrZombie`, of the modules Connection and Acceptor, says that the
  timers and `StartError` see to it after `Stop`, but for zombies, whose reads need
  not end.
* `AsyncTCPClient!Fairness`: pool threads and callers that are inside a call go on.
  `NetworkFairness`: the server or TCP's time-outs end every operation; strong
  fairness, since an operation that has been moved in part is not pending for a
  moment, and a composed operation has finitely many parts.  It is a premise of
  `CloseReturnsOrDeadlock` and assumed in `ClientDeadlock`; `CancelTakesEffect` does
  without it.

* `WorkerPool!FairSpec`: every thread is scheduled and timers expire.  Nobody has to
  press ENTER and no peer has to answer: `Exits` ends where `main` waits for them.
* `Streams!FairSpec`: each end's program and the bytes under way go on.  Establishing
  the connection, a reset, a refusal and ENTER are not assumed.

No fairness is assumed of application calls.

### What the violations say

* `ConnCrash`: `remote_endpoint()` is called in its throwing form
  (`wrapper.cpp:336`, also 170).  If the peer resets the connection after the
  connect has succeeded and before the handler runs, the exception leaves
  `io_service::run` and `Hive::Run`, although wrapper.h:46-47 says that `Run`
  "blocks until the networking system is stopped".
* `AcceptZombie`: `HandleAccept` asks for the acceptor's error state and not for the
  connection's.  A connection that was disconnected first gets an open socket that
  `StartError` will never close again; its pending read keeps `Stop` in `run()`.
* `HiveStopInHandler`: the `run()` inside `Stop` waits for the handler that called
  `Stop`.  Besides zombies (`AcceptZombie`, and its twin below) this is what blocks it:
  `StopReturnsOutside` shows that `Stop` returns otherwise if the operations end, and
  `StopReturnsOrZombie` that without a zombie they do.
* `ClientDeadlock`: lines 128/208 and 171/175 of `asyncClientTCP.cpp` take the two
  mutexes in opposite orders.  `CloseReturnsOrDeadlock` shows that nothing else
  keeps `close` from returning, once the network has answered.

Seen while modelling, without a run of their own:

* The twin of `AcceptZombie` on the connecting side.  `Connect` does not look at
  `m_error_state`.  If `Disconnect` was handled before `async_connect` (424), `StartError`
  has closed a socket that was not open yet and will not close it again; a `Recv`
  then pends as long as the peer is silent, and `Stop` waits for it.  The model has
  this behaviour: `StopReturns` is false of `Connection` too, which is why `ConnRecv`
  checks `StopReturnsOrZombie`, and `ErrorIsFinal` and `Channel` (`mute`) name the
  exception.  Such a connection may still write what it was given.
* `local_endpoint()` (172) throws out of `Run` if `Acceptor::Stop` has closed the acceptor
  on its own strand meanwhile (`FinishAccept`); `AcceptedWatched` exempts a crashed Hive.
* A connection that is closed between the completion of its accept and
  `HandleAccept` makes the acceptor close itself (175-176): `AcceptorSurvives` names
  it, `FailedEarly`, as the only connection that can.
* A `cancelRequest` between lines 115 and 119, or between two operations of
  `async_write` (135) or `async_read_until` (152), finds nothing to abort; if the server
  does not answer, the request never ends, although line 169 says "Cancels the
  request." `CancelTakesEffect` names these moments and shows that a cancel at any
  other ends the request, but for the deadlock above.
* `Listen` and `Connect` print an exception and do not call `OnError` (210-212,
  427-429, against wrapper.h:100-102).

`Hive::Stop` raises the flag before it drains, so a `Reset` by another thread in
between passes its own test (`wrapper.cpp:84`, 96); callers have to wait for `Stop`.
The echo servers close their socket when they read `eof`, with echoes still queued:
a client that shuts down its sending side may get less than it sent
(`echoserver.cpp:57-60` with `wrapper.cpp:362`), so `WholeAnswer` is not stated for
them. `asyncReadFromSocket.cpp` and `asyncWriteToSocket.cpp` start two composed
operations on one socket, whose pieces mix (`Intact` says what is left).
`exception.cpp` ends with handlers it never ran, which its comment (63-65) says too.
`multithreads.cpp:15` increments a variable in five threads without a lock; nothing
depends on its value but output.  `removework.cpp:38` prints "We will not see this
line in console window", but `run()` returns at once and the line is seen: `Exits`
includes that program.

## 4. The proofs

All are checked by TLAPS, none assumes anything of the application's behaviour
beyond the exclusions of section 2, and each holds for every value of the constants
that the module's named assumption admits: bounds are natural numbers, sizes are
positive, the sets of threads and of requests are finite.

| module | theorem | property | meaning |
|---|---|---|---|
| `ConnectionProofs` | `SendsAreSerial` | `OneSend` | one `async_write` at a time, for the front of `m_pending_sends`; the iterator bound into `HandleSend` is never stale |
| | `ReceivesAreSerial` | `OneRecv` | one read at a time, for the front of `m_pending_recvs`; `pop_front` never meets an empty list |
| | `ReadsFit` | `BufferFits` | `m_recv_buffer` keeps the size of the read that fills it |
| `ConnectionEndProofs` | `TypeCorrect` | `TypeOK` | type correctness, with the ranges of indices into `Asks` and `OnError` at most once |
| | `NothingStranded` | `NoStall` | a queue of requests is being served until the error |
| | `ErrorCloses` | `ErrorIsFinal` | from `async_connect` on: one report of the first error, a closed socket, nothing that waits on it; excepted is a connection that had failed before |
| | `TimerWatches` | `Watchdog` | a dialled connection without error has its timer, or a handler of it, on the way |
| | `SilenceAfterError` | `SilentAfterError` | action property: no report after `OnError` |
| | `StopTellsAll` | `StopReportsAll` | action property: `Stop` has drained only when every dialled connection was told |
| `ChannelProofs` | `ConnectionRefinesChannel` | `ImplementsChannel` | every step is a step of the abstract Channel, or a stutter, also of a connection that failed before it was dialled |
| `AcceptorProofs` | `AcceptorTypeCorrect` | `AcceptorTypeOK` | type correctness of the acceptor's own state, `OnError` at most once |
| | `AcceptsQueued` | `AcceptQueue` | the queue of accepts and the connections' pending `async_accept`s agree |
| | `AcceptedHaveTimer` | `AcceptedWatched` | an accepted connection without error has its timer, or a handler that starts it, on the way |
| | `StopAnswers` | `StopAnswersAll` | action property: `Stop` has drained only when every connection handed to `Accept` was told |
| | `OnlyStopEndsAcceptor` | `AcceptorSurvives` | only `Acceptor::Stop`, `Hive::Stop` and a connection that failed for a call made before `OnAccept` end the acceptor |
| | `AcceptedServeInOrder` | | `IdsOK`, `OneSend`, `OneRecv`, `BufferFits` for accepted connections |
| `HiveProofs` | `TypeCorrect` | | type correctness |
| | `FlagAgreement` | `FlagAgrees` | flag, work object and `io_service` agree between calls |
| | `RunBlocking` | `RunBlocks` | `Run` lasts until `Stop` |
| | `StopsAlone` | `StopAlone` | one call of `Stop` is past the test of the flag |
| | `WorkFinished` | `StopFinishesWork` | action property: when the `io_service` stops nothing is queued or pending, and nothing executes while it is stopped |
| `AsyncTCPClientProofs` | `TypeCorrect` | | type correctness |
| | `RequestsCancellable` | `Cancellable` | the map holds requests in progress only, and all whose id is theirs alone |
| | `CancelledNeverSucceeds` | `CancelHonoured` | a cancelled request is not reported as a success |
| `WorkerPoolProofs` | `TypeCorrect` | | each of the 23 programs keeps to its statements |
| | `StrandIsSerial` | `SerialPrints` | a strand makes one call at a time |
| | `WorkIsDone` | `AllWorkDone` | `join_all()` returns when nothing is left to do |
| | `OrderIsKept` | `OrderKept` | handlers begin in the order promised |
| | `ThreadsLost` | `PoolSurvives` | what exceptions cost |
| `StreamsProofs` | `StreamsTypeCorrect` | `TypeOK` | each of the 16 pairs keeps to its operations and buffers |
| | `BytesIntact` | `Intact` | messages and echoes arrive without a gap, a duplicate or a change of order |
| | `AnswersWhole` | `WholeAnswer` | an answer that ended with `eof` is all there was |

Each module has lemmas about the operators its actions are made of, one lemma per
action and part of the invariant, a lemma that combines them, and the theorems,
which close with PTL.

**Connection: typing and queues.**  None of the four properties is inductive
alone: `HandleSend` is typed only if its job carries a buffer number, which needs
the typing of queued jobs; `HandleRecv` restores `OneRecv` only if the read it ends
was the only one, and `BufferFits` needs `OneRecv` to know that the read that
resizes the buffer is not beside another.  The inductive invariant is `IInv ==
Typed /\ \A c : Healthy(c)`, where `Healthy(c)` collects what the four say about one
connection, as operators on that connection's operations, strand, queues and
buffer (`FrontOnly`, `IdsIn`, `Fits`).  A step moves one connection and leaves the
others as they are; its effect on the operators comes from lemmas about sequences
and sets: an append adds no position of another handler, taking the head shifts
positions by one, cancelling changes no `id`.

**Connection: errors, timer, Stop.**  `EInv` adds `Steady(c)` for each connection.
`Ended`: the error is counted once, and nothing waits on a socket that is closed; a
completion of such an operation could open it again after the error.  It holds only
with `Begun`: before `async_connect` no connect is outstanding and no send or
receive waits, whether the socket is closed or was opened by `Bind`.  `ErrorIsFinal`
follows step by step: only `Connect` and `ConnectDone` open a socket, the first is
excepted and the second needs a connect that waits. `Supplied` is `NoStall` with
operation and handler joined in `OnItsWay`, so that `Deliver` and `Expire` keep it.
`Guarded` says the same of the timer's chain (operation, `DispatchTimer`,
`HandleTimer`), from the second half of `Connect` on.  `StopReportsAll` follows,
since `HiveStopped` needs empty strands and no operations: then nothing is
`Watched`, so each dialled connection has its error.

**Connection implements Channel.**  `CInv` adds `Orderly(c)`: requests are numbered
in the order of the calls, so that those confirmed, those queued and those still
posted are `1 .. asked` without gaps (`Numbered`); what the peer received is `Parts`
pieces of each confirmed buffer and the part of the next that the outstanding write
has handed over (`Writes`); what was taken from the stream is what was reported and
what the outstanding read has put into the buffer (`Reads`, `Fills`). `Writes` is
kept after the error too, since a connection that failed before it was dialled goes
on writing; `Dry` says that nothing was written or taken before `async_connect`.
Each action then maps to the Channel's action of that name or leaves the mapped
variables unchanged.

**Acceptor.**  `AInv` joins three parts.  `IInv`, the invariant of Connection,
carries over: the acceptor's own steps touch nothing of a connection but its
`HandleAccept`, and HandleAccept starts a timer and no send or receive.
`Followed(c)` follows a connection through its acceptance: its accept is in one
place at a time, the acceptor's strand, the queue or the connection's strand
(`OnePlace`); it never dials (`Passive`); only a client opens its socket, only an
error closes it (`Opened`); until its error either HandleAccept is still to come or
the timer's chain goes on (`Answered`); and until HandleAccept has run `OnAccept`
has not been called, and nothing happens to a connection the application has not
`Used` (`Fresh`). `Own` is the acceptor's state: `AcceptQueue`, the typing,
`ErrorSeen` (`OnError` was called if and only if there is an error), and `OneTimer`,
which says that before a stop or an error the acceptor's timer exists exactly once
and is not aborted.  `Answered` gives `AcceptedWatched` and `StopAnswersAll`.
`AcceptorSurvives` takes `OneTimer` for the acceptor's own strand and `Opened` with
`Fresh` for HandleAccept: a client's socket is closed there only after an error, and
the error is that of a connection used before.  It needs no assumption.

**Hive.**  The stack of calls is the state that matters.  `Nested` (a handler
executes inside `run()`, `poll()` or the `run()` of `Stop`), `OneStop` (the flag
lets one thread into `Stop`, once) and `ResetAlone` say which calls can be on the
stacks together; `Progress` says what the statements of `Stop` and `Reset` have done
by the point each has reached; `Finished` says that nothing executes in a stopped
`io_service`.  `RunBlocks` and `FlagAgrees` follow from `Progress`, `StopAlone` is
`OneStop`.  `StopFinishesWork` is about steps: an `io_service` stops by itself only
when `Outstanding` has come to zero (`EndHandler`, `StopWork`, `Run`, `Poll`), and
`StopService`, which stops it in any case, finds it stopped already, by `Progress`
(`StopsForWant`).  With two threads in `Stop` none of these survives.

**AsyncTCPClient.**  `InStep` ties a session's operation and handler to its stage,
between the parts of an operation too; `Mapped` is the part of `Cancellable` about
the map; `Held` says that a caller that has found a session holds the map's mutex
and the session is still there. `CancelHonoured` rests on `Held`: it is why
`m_was_cancelled` cannot change after the session left the map, although nobody
locks to read it.

**WorkerPool.**  `Shape` says which statements and handlers each part of the state
may hold in each program, and that what is left of `main` is in the order of `Rank`;
without it a proof would face 23 programs at every step.  `StrandSerial` (at most
one thread has still to leave the strand) gives `SerialPrints`.  `Staffed` (threads
not created execute nothing, threads that were leave `run()` only after the service
stopped) and `Drained` (a joined pool stops only without work, and `main` gives it
none after) give `AllWorkDone`.  `Queued` orders what has begun, what is queued and
what `main` has still to post (`InLine`), and `Dispatching` says that nothing posted
begins while `Running` still dispatches: `OrderKept`.  `Throwing` counts the
threads: `PoolSurvives`.

**Streams.**  `StreamsInv` joins what is typed with one statement per kind of
program. `Typed` says which operations an activity may hold and what they may hold:
only the first has read anything, a read of fixed size has less than `Want`, nothing
is written after `shutdownSend`.  For an end that reads in turn, what it has
completed and what its read holds are together the bytes it took (`ReadsInv`); for
one that writes in turn, what it has written and what its activity has left are its
messages (`WritesInv`); an echo's stream and what it still holds are what it took
(`EchoesInv`).  With two reads on one socket, each holds its bytes in the order of
the stream (`SharedReads`, by `InOrder`), which needs the stream to hold no byte
twice; with two writes, the pieces of each message in the stream and what is left of
it are the message (`SharedWrites`).  `WholeAnswer` follows from `WholeInv`, a
completed read to `eof` is the peer's stream, and `SaidAll`, a program announces the
end only when all is written: it does so by shutting down its sending side, which no
write follows, with nothing left to do, or when it has met the other's end with
nothing unread (`SaysLast`).  A reset keeps both because it announces nothing and
completes no read to `eof`.  `SaidAll` is stated for the programs `WholeAnswer` is
about (`Trusted`); `echoServer` and `readwritesocket` are not among them.  Steps are
described once per end (`Local`), so that the other end's part of the invariant is
kept by one lemma.  What `FlattenSeq` and `Only` do to an appended piece is proved
by well-founded induction on sets of numbers (`WFMin`), which takes no operator as a
parameter.

TLC checked the strengthened invariants on the instances of the runs before they
were proved.

Model-checked only: liveness (`SendSettles`, `StopReturnsOrZombie`,
`StopReturnsOutside`, `RunsReturn`, `CancelTakesEffect`, `CloseReturnsOrDeadlock`,
`Exits`, `Finishes`), which is out of the prover's reach, as fairness and ENABLED
are.  Every invariant and every action property that a passing run checks is a
theorem.

## 5. Plan

Done: Hive, Connection with Channel, Acceptor, AsyncTCPClient, WorkerPool, Streams;
proofs of every safety property of all of them, and of the refinement.  The modules
are written to be proved about: no recursive operators, bounds as constants.

Next: lemmas that liveness rests on and that are safety (a measure that each step of
a closing connection decreases), and shorter proofs where parts of the invariants
can share a lemma.

## 6. Not modelled

* The UDP client (`syncClientUDP.cpp`): two calls in sequence; `receive_from` (39)
  waits for ever if a datagram is lost, and `shutdown` (41) of a socket that was never
  connected throws, so a second request is never sent.  There is nothing to interleave.
* Accept loops over several connections (`server.cpp`, `daytime_server.cpp`): one
  connection is modelled, with the failed accept that ends the daytime server.
* Text and language examples (`Chapter1`, `Chapter3`, `main.cpp`, the bind and thread
  examples of `Chapter4`), the API snippets of the cookbook's chapter 1 and its
  buffer examples, HTTP formatting: no state that steps or actors could disagree
  about.
