---------------------------- MODULE ChannelProofs ----------------------------
(***************************************************************************)
(* Proof that every Connection implements the Channel: buffers reach the   *)
(* peer whole and in the order of the calls of Send, OnSend confirms what  *)
(* was written, and OnRecv is told the stream in order, one report of the  *)
(* right size per call of Recv, all until the error and nothing after it.  *)
(***************************************************************************)
EXTENDS ConnectionEndProofs

(***************************************************************************)
(* The inductive invariant.                                                *)
(***************************************************************************)
\* Requests are numbered in the order of the calls: those the application was
\* told of, those in the queue and those still posted as f are 1..called.
Numbered(told, queue, jobs, f, called) ==
  /\ \A i \in DOMAIN queue : queue[i] = told + i
  /\ told + Len(queue) <= called
  /\ \A i, j \in Positions(jobs, f) : i < j => jobs[i].op.id < jobs[j].op.id
  /\ {jobs[i].op.id : i \in Positions(jobs, f)} = told + Len(queue) + 1 .. called

\* The operations whose handler k has not run: outstanding or delivered.
InFlight(ops, jobs, k) == ops \union {jobs[i].op : i \in Positions(jobs, k)}

\* What has been written: the buffers OnSend was called with and the part of
\* the next one that its async_write has handed over.  It holds after an error
\* too, for a connection that failed before async_connect still writes.
Writes(ops, queue, told, written) ==
  /\ \A o \in ops : /\ written = told * Parts + o.done
                    /\ o.ec = "pending" => o.done < Parts
                    /\ o.ec = "ok" => o.done = Parts
  /\ queue = <<>> => written = told * Parts

\* What has been read: the bytes OnRecv was given and those the read that is
\* outstanding has put at the beginning of the buffer.
Fills(o, upto, taken, buffer) ==
  /\ taken = upto + o.done
  /\ \A i \in 1 .. o.done : buffer[i] = upto + i
  /\ o.ec = "pending" => o.done < ReadSize(o.id) /\ (Asks[o.id] = 0 => o.done = 0)
  /\ o.ec = "ok" => o.done \in IF Asks[o.id] > 0 THEN {Asks[o.id]} ELSE 1 .. RecvSize
Reads(ops, upto, taken, buffer) ==
  /\ upto \in Nat
  /\ \A o \in ops : Fills(o, upto, taken, buffer)
  /\ ops = {} => taken = upto

LastByte(reports) ==
  IF reports = <<>> THEN 0 ELSE LET last == reports[Len(reports)] IN last[Len(last)]

SendsNumbered(c) ==
  Numbered(Len(seen[c].send), pendingSends[c], strand[c], "DispatchSend", asked[c].send)
RecvsNumbered(c) ==
  Numbered(Len(seen[c].recv), pendingRecvs[c], strand[c], "DispatchRecv", asked[c].recv)
Written(c) ==
  Writes(InFlight(io[c]["HandleSend"], strand[c], "HandleSend"), pendingSends[c],
         Len(seen[c].send), Len(peer[c].wire))
Received(c) ==
  Reads(InFlight(io[c]["HandleRecv"], strand[c], "HandleRecv"), LastByte(seen[c].recv),
        peer[c].taken, recvBuffer[c])

Orderly(c) ==
  /\ SendsNumbered(c) /\ RecvsNumbered(c) /\ Written(c)
  /\ ~error[c] => Received(c)

\* Before async_connect not a byte has passed.
Dry(c) == NotDialled(c) => Len(peer[c].wire) = 0 /\ peer[c].taken = 0

CInv == EInv /\ \A c \in Conns : Orderly(c) /\ Dry(c)

(***************************************************************************)
(* Numbers: what posting, dispatching and serving a request do to them.    *)
(***************************************************************************)
\* Something else is posted.
LEMMA NumberedPost ==
  ASSUME NEW told, NEW queue, NEW jobs \in Seq(Job), NEW j \in Job, NEW f, NEW called,
         j.do # f, Numbered(told, queue, jobs, f, called)
  PROVE  Numbered(told, queue, Append(jobs, j), f, called)
<1>1. Positions(Append(jobs, j), f) = Positions(jobs, f)
  BY PositionsAppend
<1>2. \A i \in Positions(jobs, f) : Append(jobs, j)[i] = jobs[i]
  BY DEF Positions
<1> QED BY <1>1, <1>2 DEF Numbered

\* The application makes its next call.
LEMMA NumberedCall ==
  ASSUME NEW told \in Nat, NEW queue \in Seq(Nat), NEW jobs \in Seq(Job), NEW j \in Job, NEW f,
         NEW called \in Nat, j.do = f, j.op.id = called + 1, Numbered(told, queue, jobs, f, called)
  PROVE  Numbered(told, queue, Append(jobs, j), f, called + 1)
<1> DEFINE more == Append(jobs, j)
           last == Len(jobs) + 1
<1>1. /\ Positions(more, f) = Positions(jobs, f) \union {last}
      /\ \A i \in Positions(jobs, f) : more[i] = jobs[i] /\ i \in 1 .. Len(jobs)
      /\ more[last] = j
  BY PositionsAppend DEF Positions
<1>2. Len(jobs) \in Nat /\ Len(queue) \in Nat
  OBVIOUS
<1> HIDE DEF more
<1>3. \A i \in Positions(jobs, f) : jobs[i].op.id \in told + Len(queue) + 1 .. called
  BY DEF Numbered
<1>4. \A i, k \in Positions(more, f) : i < k => more[i].op.id < more[k].op.id
  <2> SUFFICES ASSUME NEW i \in Positions(more, f), NEW k \in Positions(more, f), i < k
               PROVE  more[i].op.id < more[k].op.id
    OBVIOUS
  <2>1. i \in Positions(jobs, f) /\ more[i] = jobs[i]
    BY <1>1, <1>2
  <2>2. CASE k = last
    <3>1. more[i].op.id \in told + Len(queue) + 1 .. called
      BY <1>3, <2>1
    <3>2. more[k].op.id = called + 1
      BY <1>1, <2>2
    <3> QED BY <1>2, <3>1, <3>2
  <2>3. CASE k \in Positions(jobs, f)
    BY <1>1, <2>1, <2>3 DEF Numbered
  <2> QED BY <1>1, <2>2, <2>3
<1>5. {more[i].op.id : i \in Positions(more, f)} = told + Len(queue) + 1 .. called + 1
  <2>1. {more[i].op.id : i \in Positions(more, f)} =
          {jobs[i].op.id : i \in Positions(jobs, f)} \union {called + 1}
    BY <1>1
  <2>2. told + Len(queue) <= called
    BY DEF Numbered
  <2>3. told + Len(queue) + 1 .. called + 1 = (told + Len(queue) + 1 .. called) \union {called + 1}
    BY <1>2, <2>2
  <2> QED BY <2>1, <2>3 DEF Numbered
<1>6. told + Len(queue) <= called + 1
  BY <1>2 DEF Numbered
<1> QED BY <1>4, <1>5, <1>6 DEF Numbered, more

\* Another handler runs.
LEMMA NumberedPop ==
  ASSUME NEW told, NEW queue, NEW jobs \in Seq(Job), jobs # <<>>, NEW f, NEW called,
         Head(jobs).do # f, Numbered(told, queue, jobs, f, called)
  PROVE  Numbered(told, queue, Tail(jobs), f, called)
<1>1. \A i \in Positions(Tail(jobs), f) :
        i + 1 \in Positions(jobs, f) /\ Tail(jobs)[i] = jobs[i + 1] /\ i \in Nat
  BY PositionsTail DEF Positions
<1>2. \A i \in Positions(jobs, f) : \E k \in Positions(Tail(jobs), f) : Tail(jobs)[k] = jobs[i]
  <2> SUFFICES ASSUME NEW i \in Positions(jobs, f)
               PROVE  \E k \in Positions(Tail(jobs), f) : Tail(jobs)[k] = jobs[i]
    OBVIOUS
  <2>1. i \in 1 .. Len(jobs) /\ i # 1 /\ jobs[i].do = f
    BY DEF Positions
  <2>2. i - 1 \in 1 .. Len(Tail(jobs)) /\ Tail(jobs)[i - 1] = jobs[i]
    BY <2>1
  <2>3. i - 1 \in Positions(Tail(jobs), f)
    BY <2>1, <2>2 DEF Positions
  <2> QED BY <2>2, <2>3
<1>3. {Tail(jobs)[i].op.id : i \in Positions(Tail(jobs), f)} = {jobs[i].op.id : i \in Positions(jobs, f)}
  <2> DEFINE before == {jobs[i].op.id : i \in Positions(jobs, f)}
             after == {Tail(jobs)[i].op.id : i \in Positions(Tail(jobs), f)}
  <2>1. ASSUME NEW x \in after PROVE x \in before
    BY <1>1
  <2>2. ASSUME NEW x \in before PROVE x \in after
    <3>1. PICK i \in Positions(jobs, f) : x = jobs[i].op.id
      OBVIOUS
    <3>2. PICK k \in Positions(Tail(jobs), f) : Tail(jobs)[k] = jobs[i]
      BY <1>2
    <3> QED BY <3>1, <3>2
  <2> QED BY <2>1, <2>2
<1>4. \A i, k \in Positions(Tail(jobs), f) : i < k => Tail(jobs)[i].op.id < Tail(jobs)[k].op.id
  <2> SUFFICES ASSUME NEW i \in Positions(Tail(jobs), f), NEW k \in Positions(Tail(jobs), f), i < k
               PROVE  Tail(jobs)[i].op.id < Tail(jobs)[k].op.id
    OBVIOUS
  <2>1. i + 1 < k + 1
    BY <1>1
  <2> QED BY <1>1, <2>1 DEF Numbered
<1> QED BY <1>3, <1>4 DEF Numbered

\* The oldest request that was posted is dispatched: it is the next number.
LEMMA NumberedDispatch ==
  ASSUME NEW told \in Nat, NEW queue \in Seq(Nat), NEW jobs \in Seq(Job), jobs # <<>>, NEW f,
         NEW called \in Nat, Head(jobs).do = f, Numbered(told, queue, jobs, f, called)
  PROVE  Numbered(told, Append(queue, Head(jobs).op.id), Tail(jobs), f, called)
<1> DEFINE id == Head(jobs).op.id
           next == told + Len(queue) + 1
           more == Append(queue, id)
<1>1. /\ 1 \in Positions(jobs, f) /\ Head(jobs) = jobs[1] /\ Len(queue) \in Nat
      /\ Positions(jobs, f) \subseteq 1 .. Len(jobs)
  BY PositionsTail DEF Positions
<1>2. \A i \in Positions(jobs, f) : jobs[i].op.id \in next .. called /\ (i = 1 \/ id < jobs[i].op.id)
  <2>1. \A i \in Positions(jobs, f) : jobs[i].op.id \in next .. called
    BY DEF Numbered
  <2>2. ASSUME NEW i \in Positions(jobs, f), i # 1
        PROVE  id < jobs[i].op.id
    <3>1. 1 < i
      BY <1>1, <2>2
    <3> QED BY <1>1, <3>1 DEF Numbered
  <2> QED BY <2>1, <2>2
<1>3. id = next
  <2>1. id \in next .. called
    BY <1>1, <1>2
  <2>2. next \in {jobs[i].op.id : i \in Positions(jobs, f)}
    <3>1. next \in next .. called
      BY <1>1, <2>1
    <3> QED BY <3>1 DEF Numbered
  <2>3. PICK i \in Positions(jobs, f) : jobs[i].op.id = next
    BY <2>2
  <2> QED BY <1>1, <1>2, <2>1, <2>3
<1>4. /\ DOMAIN more = 1 .. Len(queue) + 1 /\ Len(more) = Len(queue) + 1
      /\ \A i \in 1 .. Len(queue) : more[i] = queue[i]
      /\ more[Len(queue) + 1] = id
  BY <1>1, <1>3
<1>5. \A i \in DOMAIN more : more[i] = told + i
  <2>1. \A i \in 1 .. Len(queue) : more[i] = told + i
    BY <1>4 DEF Numbered
  <2>2. more[Len(queue) + 1] = told + (Len(queue) + 1)
    BY <1>1, <1>3, <1>4
  <2>3. \A i \in DOMAIN more : i \in 1 .. Len(queue) \/ i = Len(queue) + 1
    BY <1>1, <1>4
  <2> HIDE DEF more
  <2> QED BY <2>1, <2>2, <2>3
<1>6. told + Len(more) <= called
  BY <1>1, <1>2, <1>3, <1>4
<1>7. \A i \in Positions(Tail(jobs), f) :
        i + 1 \in Positions(jobs, f) /\ Tail(jobs)[i] = jobs[i + 1] /\ i \in Nat \ {0}
  BY PositionsTail DEF Positions
<1>8. \A i, k \in Positions(Tail(jobs), f) : i < k => Tail(jobs)[i].op.id < Tail(jobs)[k].op.id
  <2> SUFFICES ASSUME NEW i \in Positions(Tail(jobs), f), NEW k \in Positions(Tail(jobs), f), i < k
               PROVE  Tail(jobs)[i].op.id < Tail(jobs)[k].op.id
    OBVIOUS
  <2>1. i + 1 < k + 1
    BY <1>7
  <2> QED BY <1>7, <2>1 DEF Numbered
<1>9. {Tail(jobs)[i].op.id : i \in Positions(Tail(jobs), f)} = told + Len(more) + 1 .. called
  <2> DEFINE after == {Tail(jobs)[i].op.id : i \in Positions(Tail(jobs), f)}
  <2>1. ASSUME NEW x \in after PROVE x \in told + Len(more) + 1 .. called
    <3>1. PICK i \in Positions(Tail(jobs), f) : x = jobs[i + 1].op.id
      BY <1>7, <2>1
    <3>2. i + 1 \in Positions(jobs, f) /\ i + 1 # 1
      BY <1>7
    <3>3. x \in next .. called /\ id < x
      BY <1>2, <3>1, <3>2
    <3> QED BY <1>1, <1>3, <1>4, <3>3
  <2>2. ASSUME NEW x \in told + Len(more) + 1 .. called PROVE x \in after
    <3>1. x \in next .. called /\ x # id
      BY <1>1, <1>3, <1>4
    <3>2. PICK i \in Positions(jobs, f) : jobs[i].op.id = x
      BY <3>1 DEF Numbered
    <3>3. i \in 1 .. Len(jobs) /\ i # 1 /\ jobs[i].do = f
      BY <1>1, <3>1, <3>2 DEF Positions
    <3>4. i - 1 \in 1 .. Len(Tail(jobs)) /\ Tail(jobs)[i - 1] = jobs[i]
      BY <3>3
    <3>5. i - 1 \in Positions(Tail(jobs), f)
      BY <3>3, <3>4 DEF Positions
    <3> QED BY <3>2, <3>4, <3>5
  <2> QED BY <2>1, <2>2
<1> QED BY <1>5, <1>6, <1>8, <1>9 DEF Numbered

\* The application is told of the front of the queue.
LEMMA NumberedServed ==
  ASSUME NEW told \in Nat, NEW queue \in Seq(Nat), queue # <<>>, NEW jobs, NEW f,
         NEW called \in Nat, Numbered(told, queue, jobs, f, called)
  PROVE  /\ Head(queue) = told + 1 /\ told + 1 <= called
         /\ Numbered(told + 1, Tail(queue), jobs, f, called)
<1>1. /\ Len(queue) \in Nat /\ Len(queue) >= 1 /\ Head(queue) = queue[1]
      /\ DOMAIN queue = 1 .. Len(queue) /\ Len(Tail(queue)) = Len(queue) - 1
      /\ DOMAIN Tail(queue) = 1 .. Len(queue) - 1
      /\ \A i \in DOMAIN Tail(queue) : Tail(queue)[i] = queue[i + 1]
  OBVIOUS
<1>2. \A i \in DOMAIN Tail(queue) : Tail(queue)[i] = told + 1 + i
  <2> TAKE i \in DOMAIN Tail(queue)
  <2>1. i + 1 \in DOMAIN queue /\ i \in Nat
    BY <1>1
  <2>2. queue[i + 1] = told + (i + 1)
    BY <2>1 DEF Numbered
  <2> QED BY <1>1, <2>1, <2>2
<1>3. queue[1] = told + 1 /\ told + Len(queue) <= called
  BY <1>1 DEF Numbered
<1>4. told + 1 + Len(Tail(queue)) = told + Len(queue)
  BY <1>1
<1> QED BY <1>1, <1>2, <1>3, <1>4 DEF Numbered

\* In a queue of numbers the node HandleSend erases is the first.
LEMMA EraseFront ==
  ASSUME NEW told \in Nat, NEW queue \in Seq(Nat), queue # <<>>, \A i \in DOMAIN queue : queue[i] = told + i
  PROVE  Erase(queue, Head(queue)) = Tail(queue)
<1> DEFINE at == CHOOSE i \in 1 .. Len(queue) : queue[i] = Head(queue)
<1>1. Len(queue) \in Nat /\ Len(queue) >= 1 /\ Head(queue) = queue[1] /\ DOMAIN queue = 1 .. Len(queue)
  OBVIOUS
<1>2. at \in 1 .. Len(queue) /\ queue[at] = Head(queue)
  BY <1>1
<1> HIDE DEF at
<1>3. at = 1
  <2>1. queue[at] = told + at /\ queue[1] = told + 1
    BY <1>1, <1>2
  <2> QED BY <1>1, <1>2, <2>1
<1>4. Erase(queue, Head(queue)) =
        [i \in 1 .. Len(queue) - 1 |-> IF i < at THEN queue[i] ELSE queue[i + 1]]
  BY DEF Erase, at
<1> DEFINE rest == Erase(queue, Head(queue))
<1>5. rest = [i \in 1 .. Len(queue) - 1 |-> IF i < 1 THEN queue[i] ELSE queue[i + 1]]
  BY <1>3, <1>4
<1>6. rest \in Seq(Nat)
  BY EraseType
<1> HIDE DEF rest
<1>7. Len(rest) = Len(queue) - 1 /\ \A i \in 1 .. Len(queue) - 1 : rest[i] = queue[i + 1]
  BY <1>1, <1>5
<1>8. /\ Tail(queue) \in Seq(Nat) /\ Len(Tail(queue)) = Len(queue) - 1
      /\ \A i \in 1 .. Len(queue) - 1 : Tail(queue)[i] = queue[i + 1]
  BY <1>1
<1>9. rest = Tail(queue)
  BY <1>6, <1>7, <1>8, SeqEqual
<1> QED BY <1>9 DEF rest

(***************************************************************************)
(* Operations in flight: delivery does not change them.                    *)
(***************************************************************************)
LEMMA InFlightPost ==
  ASSUME NEW ops, NEW jobs \in Seq(Job), NEW j \in Job, NEW k, j.do # k
  PROVE  InFlight(ops, Append(jobs, j), k) = InFlight(ops, jobs, k)
<1>1. Positions(Append(jobs, j), k) = Positions(jobs, k)
  BY PositionsAppend
<1>2. \A i \in Positions(jobs, k) : Append(jobs, j)[i] = jobs[i]
  BY DEF Positions
<1> QED BY <1>1, <1>2 DEF InFlight

LEMMA InFlightPop ==
  ASSUME NEW ops, NEW jobs \in Seq(Job), jobs # <<>>, NEW k, Head(jobs).do # k
  PROVE  InFlight(ops, Tail(jobs), k) = InFlight(ops, jobs, k)
<1>1. \A i \in Positions(Tail(jobs), k) : i + 1 \in Positions(jobs, k) /\ Tail(jobs)[i] = jobs[i + 1]
  BY PositionsTail DEF Positions
<1>2. ASSUME NEW i \in Positions(jobs, k)
      PROVE  \E l \in Positions(Tail(jobs), k) : Tail(jobs)[l] = jobs[i]
  <2>1. i \in 1 .. Len(jobs) /\ i # 1 /\ jobs[i].do = k
    BY DEF Positions
  <2>2. i - 1 \in 1 .. Len(Tail(jobs)) /\ Tail(jobs)[i - 1] = jobs[i]
    BY <2>1
  <2>3. i - 1 \in Positions(Tail(jobs), k)
    BY <2>1, <2>2 DEF Positions
  <2> QED BY <2>2, <2>3
<1> DEFINE before == {jobs[i].op : i \in Positions(jobs, k)}
           after == {Tail(jobs)[i].op : i \in Positions(Tail(jobs), k)}
<1>3. ASSUME NEW x \in after PROVE x \in before
  BY <1>1
<1>4. ASSUME NEW x \in before PROVE x \in after
  BY <1>2
<1>5. before = after
  BY <1>3, <1>4
<1> QED BY <1>5 DEF InFlight

LEMMA InFlightDeliver ==
  ASSUME NEW ops, NEW jobs \in Seq(Job), NEW j \in Job, j.op \in ops
  PROVE  InFlight(ops \ {j.op}, Append(jobs, j), j.do) = InFlight(ops, jobs, j.do)
<1>1. /\ Positions(Append(jobs, j), j.do) = Positions(jobs, j.do) \union {Len(jobs) + 1}
      /\ \A i \in Positions(jobs, j.do) : Append(jobs, j)[i] = jobs[i]
      /\ Append(jobs, j)[Len(jobs) + 1] = j
  BY PositionsAppend DEF Positions
<1>2. {Append(jobs, j)[i].op : i \in Positions(Append(jobs, j), j.do)} =
        {jobs[i].op : i \in Positions(jobs, j.do)} \union {j.op}
  BY <1>1
<1> QED BY <1>2 DEF InFlight

\* When the handler of an operation runs, that was the only one in flight.
LEMMA InFlightTake ==
  ASSUME NEW ops, NEW jobs \in Seq(Job), jobs # <<>>, NEW k, Head(jobs).do = k, NEW queue,
         FrontOnly(ops, jobs, k, queue)
  PROVE  /\ Head(jobs).op \in InFlight(ops, jobs, k)
         /\ ops = {} /\ Positions(Tail(jobs), k) = {}
         /\ queue # <<>> /\ Head(jobs).op.id = Head(queue)
<1>1. 1 \in Positions(jobs, k) /\ Head(jobs) = jobs[1]
  BY PositionsTail
<1>2. ops = {} /\ Positions(Tail(jobs), k) = {} /\ queue # <<>>
  BY FrontTake
<1> QED BY <1>1, <1>2 DEF InFlight, FrontOnly

(***************************************************************************)
(* Steps that carry no data.                                               *)
(***************************************************************************)
SameData(c) ==
  /\ SameQueues(c)
  /\ asked'[c].send = asked[c].send /\ asked'[c].recv = asked[c].recv
  /\ seen'[c].send = seen[c].send /\ seen'[c].recv = seen[c].recv
  /\ peer'[c].wire = peer[c].wire /\ peer'[c].taken = peer[c].taken
SameFlight(c) ==
  \A k \in {"HandleSend", "HandleRecv"} :
    InFlight(io[c][k], strand[c], k)' = InFlight(io[c][k], strand[c], k)
Step(c) == [Promise(c)!Next]_(Promise(c)!chan)

\* The strand posts something that is not a request, or runs a handler that
\* does not dispatch one; DispatchTimer does both.
StrandMoves(c) ==
  \/ strand'[c] = strand[c]
  \/ \E j \in Job : j.do \notin {"DispatchSend", "DispatchRecv"} /\ strand'[c] = Append(strand[c], j)
  \/ /\ strand[c] # <<>> /\ Head(strand[c]).do \notin {"DispatchSend", "DispatchRecv"}
     /\ \/ strand'[c] = Tail(strand[c])
        \/ \E j \in Job : /\ j.do \notin {"DispatchSend", "DispatchRecv"}
                          /\ strand'[c] = Append(Tail(strand[c]), j)

LEMMA NumbersKept ==
  ASSUME NEW jobs \in Seq(Job), NEW more, NEW told, NEW queue, NEW called,
         NEW f \in {"DispatchSend", "DispatchRecv"}, Numbered(told, queue, jobs, f, called),
         \/ more = jobs
         \/ \E j \in Job : j.do \notin {"DispatchSend", "DispatchRecv"} /\ more = Append(jobs, j)
         \/ /\ jobs # <<>> /\ Head(jobs).do \notin {"DispatchSend", "DispatchRecv"}
            /\ \/ more = Tail(jobs)
               \/ \E j \in Job : /\ j.do \notin {"DispatchSend", "DispatchRecv"}
                                 /\ more = Append(Tail(jobs), j)
  PROVE  Numbered(told, queue, more, f, called)
<1>1. ASSUME NEW s \in Seq(Job), NEW j \in Job, j.do \notin {"DispatchSend", "DispatchRecv"},
             Numbered(told, queue, s, f, called)
      PROVE  Numbered(told, queue, Append(s, j), f, called)
  <2>1. j.do # f
    BY <1>1
  <2> QED BY <1>1, <2>1, NumberedPost
<1>2. ASSUME jobs # <<>>, Head(jobs).do \notin {"DispatchSend", "DispatchRecv"}
      PROVE  Tail(jobs) \in Seq(Job) /\ Numbered(told, queue, Tail(jobs), f, called)
  <2>1. Head(jobs).do # f
    BY <1>2
  <2> QED BY <1>2, <2>1, NumberedPop
<1> QED BY <1>1, <1>2

LEMMA NumbersStay ==
  ASSUME IInv, NEW c \in Conns, Orderly(c), SameData(c), StrandMoves(c)
  PROVE  SendsNumbered(c)' /\ RecvsNumbered(c)'
<1>1. strand[c] \in Seq(Job)
  BY StateOf
<1>2. Numbered(Len(seen[c].send), pendingSends[c], strand'[c], "DispatchSend", asked[c].send)
  BY <1>1, NumbersKept DEF Orderly, SendsNumbered, StrandMoves
<1>3. Numbered(Len(seen[c].recv), pendingRecvs[c], strand'[c], "DispatchRecv", asked[c].recv)
  BY <1>1, NumbersKept DEF Orderly, RecvsNumbered, StrandMoves
<1> QED BY <1>2, <1>3 DEF SendsNumbered, RecvsNumbered, SameData, SameQueues

\* What the channel sees of such a step: nothing, or that it has failed.
LEMMA StateKept ==
  ASSUME NEW c \in Conns, dial'[c] = dial[c], error'[c] = error[c],
         socket'[c] = "closed" <=> socket[c] = "closed"
  PROVE  ChannelState(c)' = ChannelState(c)
BY DEF ChannelState, NotDialled, Zombie

LEMMA StutterStep ==
  ASSUME NEW c \in Conns, SameData(c), ChannelState(c)' = ChannelState(c)
  PROVE  Step(c)
BY DEF Step, Promise!chan, SameData

LEMMA FailStep ==
  ASSUME NEW c \in Conns, SameData(c), dial'[c] = dial[c], ~error[c], error'[c] = TRUE,
         socket'[c] = "closed"
  PROVE  Step(c)
<1>1. \/ ChannelState(c) = "new" /\ ChannelState(c)' = "refused"
      \/ ChannelState(c) = "up" /\ ChannelState(c)' = "down"
  BY DEF ChannelState, NotDialled, Zombie
<1> QED BY <1>1 DEF Step, Promise!Next, Promise!Fail, SameData

\* Nothing happens to the data.
LEMMA QuietData ==
  ASSUME IInv, NEW c \in Conns, Orderly(c), SameData(c), StrandMoves(c), SameFlight(c), error'[c] = error[c]
  PROVE  Orderly(c)'
<1>1. SendsNumbered(c)' /\ RecvsNumbered(c)'
  BY NumbersStay
<1>2. Written(c)' /\ (~error[c] => Received(c)')
  BY DEF Orderly, Written, Received, SameFlight, SameData, SameQueues
<1> QED BY <1>1, <1>2 DEF Orderly

LEMMA QuietOrder ==
  ASSUME IInv, NEW c \in Conns, Orderly(c), SameData(c), StrandMoves(c), SameFlight(c),
         dial'[c] = dial[c], error'[c] = error[c], socket'[c] = "closed" <=> socket[c] = "closed"
  PROVE  Orderly(c)' /\ Step(c)
BY QuietData, StateKept, StutterStep

\* Operations that fail or whose handlers run have written what they had.
LEMMA WritesFail ==
  ASSUME NEW ops, NEW less, NEW queue, NEW told, NEW written, Writes(ops, queue, told, written),
         \A p \in less : \E o \in ops : p.done = o.done /\ (p.ec = o.ec \/ p.ec = "error")
  PROVE  Writes(less, queue, told, written)
BY DEF Writes

\* When the strand moves like this, what is in flight stays in flight.
LEMMA FlightStays ==
  ASSUME IInv, NEW c \in Conns,
         io'[c]["HandleSend"] = io[c]["HandleSend"], io'[c]["HandleRecv"] = io[c]["HandleRecv"],
         \/ strand'[c] = strand[c]
         \/ \E j \in Job : j.do \notin {"HandleSend", "HandleRecv"} /\ strand'[c] = Append(strand[c], j)
         \/ /\ strand[c] # <<>> /\ Head(strand[c]).do \notin {"HandleSend", "HandleRecv"}
            /\ \/ strand'[c] = Tail(strand[c])
               \/ \E j \in Job : /\ j.do \notin {"HandleSend", "HandleRecv"}
                                 /\ strand'[c] = Append(Tail(strand[c]), j)
  PROVE  SameFlight(c)
<1> SUFFICES ASSUME NEW k \in {"HandleSend", "HandleRecv"}
             PROVE  InFlight(io[c][k], strand'[c], k) = InFlight(io[c][k], strand[c], k)
  BY DEF SameFlight
<1>1. strand[c] \in Seq(Job)
  BY StateOf
<1>2. ASSUME NEW s \in Seq(Job), NEW j \in Job, j.do \notin {"HandleSend", "HandleRecv"}
      PROVE  InFlight(io[c][k], Append(s, j), k) = InFlight(io[c][k], s, k)
  <2>1. j.do # k
    BY <1>2
  <2> QED BY <2>1, InFlightPost
<1>3. ASSUME strand[c] # <<>>, Head(strand[c]).do \notin {"HandleSend", "HandleRecv"}
      PROVE  /\ Tail(strand[c]) \in Seq(Job)
             /\ InFlight(io[c][k], Tail(strand[c]), k) = InFlight(io[c][k], strand[c], k)
  <2>1. Head(strand[c]).do # k
    BY <1>3
  <2> QED BY <1>1, <1>3, <2>1, InFlightPop
<1>4. CASE \E j \in Job : j.do \notin {"HandleSend", "HandleRecv"} /\ strand'[c] = Append(strand[c], j)
  BY <1>1, <1>2, <1>4
<1>5. CASE /\ strand[c] # <<>> /\ Head(strand[c]).do \notin {"HandleSend", "HandleRecv"}
           /\ \/ strand'[c] = Tail(strand[c])
              \/ \E j \in Job : /\ j.do \notin {"HandleSend", "HandleRecv"}
                                /\ strand'[c] = Append(Tail(strand[c]), j)
  <2>1. CASE strand'[c] = Tail(strand[c])
    BY <1>3, <1>5, <2>1
  <2>2. ASSUME NEW j \in Job, j.do \notin {"HandleSend", "HandleRecv"},
               strand'[c] = Append(Tail(strand[c]), j)
        PROVE  InFlight(io[c][k], strand'[c], k) = InFlight(io[c][k], strand[c], k)
    <3>1. InFlight(io[c][k], strand'[c], k) = InFlight(io[c][k], Tail(strand[c]), k)
      BY <1>2, <1>3, <1>5, <2>2
    <3> QED BY <1>3, <1>5, <3>1
  <2> QED BY <1>5, <2>1, <2>2
<1> QED BY <1>4, <1>5

\* Connect dials the channel, whether it has failed by then or not.
LEMMA DiallingOrder ==
  ASSUME EInv, NEW c \in Conns, Orderly(c), Dialling(c)
  PROVE  Orderly(c)' /\ Step(c)
<1>1. /\ IInv /\ io \in [Conns -> [Completions -> SUBSET Op]]
      /\ socket \in [Conns -> SocketState] /\ dial \in [Conns -> DialState]
      /\ UNCHANGED <<strand, queueVars, error, peer, seen, asked>>
  BY DEF EInv, IInv, Typed, Dialling, Bind, Connect, ConnectTimer, ConnectThrows
<1>2. io'[c]["HandleSend"] = io[c]["HandleSend"] /\ io'[c]["HandleRecv"] = io[c]["HandleRecv"]
  BY <1>1, Names DEF Dialling, Bind, Connect, ConnectTimer, ConnectThrows, StartTimer
<1>3. SameData(c) /\ StrandMoves(c)
  BY <1>1 DEF SameData, SameQueues, StrandMoves, queueVars
<1>4. Orderly(c)'
  BY <1>1, <1>2, <1>3, FlightStays, QuietData
<1>5. CASE Connect(c)
  <2>1. NotDialled(c) /\ dial'[c] = "dialling" /\ socket'[c] = "connecting" /\ error'[c] = error[c]
    BY <1>1, <1>5 DEF Connect
  <2>2. \/ ChannelState(c) = "new" /\ ChannelState(c)' = "up"
        \/ ChannelState(c) = "refused" /\ ChannelState(c)' = "mute"
    BY <2>1 DEF ChannelState, NotDialled, Zombie
  <2> QED BY <1>3, <1>4, <2>2 DEF Step, Promise!Next, Promise!Dial, SameData
<1>6. CASE Bind(c) \/ ConnectTimer(c) \/ ConnectThrows(c)
  <2>1. /\ error'[c] = error[c] /\ (NotDialled(c)' <=> NotDialled(c))
        /\ NotDialled(c) \/ socket'[c] = socket[c]
    BY <1>1, <1>6 DEF Bind, ConnectTimer, ConnectThrows, NotDialled
  <2>2. ChannelState(c)' = ChannelState(c)
    BY <2>1 DEF ChannelState, Zombie
  <2> QED BY <1>3, <1>4, <2>2, StutterStep
<1> QED BY <1>5, <1>6 DEF Dialling

\* A handler finds an error: it leaves the queues alone.
LEMMA ErrorHandlerOrder ==
  ASSUME EInv, NEW c \in Conns, Orderly(c), strand[c] # <<>>, Pop(c),
         Head(strand[c]).do \notin {"DispatchSend", "DispatchRecv"},
         StartError(c), UNCHANGED <<queueVars, peer, asked, dial>>
  PROVE  Orderly(c)' /\ Step(c)
<1>1. /\ IInv /\ seen \in [Conns -> Reports] /\ error \in [Conns -> BOOLEAN]
      /\ strand[c] \in Seq(Job) /\ io[c]["HandleSend"] \in SUBSET Op
  BY Names DEF EInv, IInv, Typed
<1>2. strand'[c] = Tail(strand[c]) /\ StrandMoves(c)
  BY <1>1, PopStep DEF StrandMoves
<1>3. /\ error'[c] = TRUE /\ seen'[c].send = seen[c].send /\ seen'[c].recv = seen[c].recv
      /\ IF error[c] THEN socket'[c] = socket[c] ELSE socket'[c] = "closed"
      /\ \/ io'[c]["HandleSend"] = io[c]["HandleSend"]
         \/ io'[c]["HandleSend"] = Cancel(io[c]["HandleSend"])
  <2>1. CASE error[c]
    BY <1>1, <2>1 DEF StartError
  <2>2. CASE ~error[c]
    <3>1. /\ error'[c] = TRUE /\ seen'[c] = [seen[c] EXCEPT !.error = @ + 1] /\ socket'[c] = "closed"
          /\ io'[c]["HandleSend"] = Cancel(io[c]["HandleSend"])
      BY <1>1, <2>2, StartErrorEffect DEF OwnOps
    <3> QED BY <1>1, <2>2, <3>1 DEF Reports
  <2> QED BY <2>1, <2>2
<1>4. SameData(c)
  BY <1>3 DEF SameData, SameQueues, queueVars
<1>5. Written(c)'
  <2> DEFINE ops == InFlight(io[c]["HandleSend"], strand[c], "HandleSend")
             less == InFlight(io'[c]["HandleSend"], strand'[c], "HandleSend")
  <2>1. \A p \in io'[c]["HandleSend"] : \E o \in ops : p.done = o.done /\ (p.ec = o.ec \/ p.ec = "error")
    <3>1. \A p \in Cancel(io[c]["HandleSend"]) :
            \E o \in io[c]["HandleSend"] : p.done = o.done /\ (p.ec = o.ec \/ p.ec = "error")
      BY <1>1 DEF Cancel, Op
    <3>2. io[c]["HandleSend"] \subseteq ops
      BY DEF InFlight
    <3> QED BY <1>3, <3>1, <3>2
  <2>2. \A i \in Positions(strand'[c], "HandleSend") : strand'[c][i].op \in ops
    BY <1>1, <1>2, PositionsTail DEF InFlight, Positions
  <2>3. \A p \in less : \E o \in ops : p.done = o.done /\ (p.ec = o.ec \/ p.ec = "error")
    <3> HIDE DEF ops
    <3> QED BY <2>1, <2>2 DEF InFlight
  <2> HIDE DEF ops, less
  <2>4. Writes(ops, pendingSends[c], Len(seen[c].send), Len(peer[c].wire))
    BY DEF Orderly, Written, ops
  <2>5. Writes(less, pendingSends[c], Len(seen[c].send), Len(peer[c].wire))
    BY <2>3, <2>4, WritesFail
  <2> QED BY <1>4, <2>5 DEF Written, SameData, SameQueues, less
<1>6. Orderly(c)'
  BY <1>1, <1>2, <1>3, <1>4, <1>5, NumbersStay DEF Orderly
<1>7. Step(c)
  BY <1>1, <1>3, <1>4, StateKept, StutterStep, FailStep
<1> QED BY <1>6, <1>7

\* HandleTimer, and HandleConnect.
LEMMA QuietHandlerOrder ==
  ASSUME EInv, NEW c \in Conns, Orderly(c), HandleTimer(c) \/ HandleConnect(c)
  PROVE  Orderly(c)' /\ Step(c)
<1>1. /\ IInv /\ io \in [Conns -> [Completions -> SUBSET Op]] /\ seen \in [Conns -> Reports]
      /\ strand[c] # <<>> /\ Head(strand[c]).do \in {"HandleTimer", "HandleConnect"} /\ Pop(c)
      /\ UNCHANGED <<queueVars, peer, asked, dial>>
  BY DEF EInv, IInv, Typed, HandleTimer, HandleConnect, Runs, netVars, appVars
<1>2. strand'[c] = Tail(strand[c])
  BY <1>1, PopStep
<1>3. StrandMoves(c)
  BY <1>1, <1>2 DEF StrandMoves
<1>4. CASE StartError(c)
  BY <1>1, <1>4, ErrorHandlerOrder
<1>5. CASE /\ UNCHANGED <<error, socket>>
           /\ \/ StartTimer(c) /\ UNCHANGED seen
              \/ UNCHANGED io /\ seen' = [seen EXCEPT ![c].connect = @ + 1]
              \/ UNCHANGED io /\ UNCHANGED seen
  <2>1. io'[c]["HandleSend"] = io[c]["HandleSend"] /\ io'[c]["HandleRecv"] = io[c]["HandleRecv"]
    BY <1>1, <1>5, Names DEF StartTimer
  <2>2. seen'[c].send = seen[c].send /\ seen'[c].recv = seen[c].recv
    BY <1>1, <1>5 DEF Reports
  <2>3. SameData(c)
    BY <1>1, <2>2 DEF SameData, SameQueues, queueVars
  <2>4. SameFlight(c)
    BY <1>1, <1>2, <2>1, FlightStays
  <2> QED BY <1>1, <1>3, <1>5, <2>3, <2>4, QuietOrder
<1> QED BY <1>4, <1>5 DEF HandleTimer, HandleConnect

LEMMA DispatchTimerOrder ==
  ASSUME EInv, NEW c \in Conns, Orderly(c), DispatchTimer(c)
  PROVE  Orderly(c)' /\ Step(c)
<1> DEFINE j == NewJob("HandleTimer", 0, Arg(c).ec)
<1>1. /\ IInv /\ strand \in [Conns -> Seq(Job)]
      /\ strand[c] # <<>> /\ Head(strand[c]).do = "DispatchTimer"
      /\ UNCHANGED <<io, queueVars, peer, asked, error, seen, dial, socket>>
  BY DEF EInv, IInv, Typed, DispatchTimer, Runs, netVars, appVars
<1>2. j \in Job /\ j.do = "HandleTimer"
  <2>1. Head(strand[c]) \in Job
    BY <1>1
  <2> QED BY <2>1 DEF NewJob, NewOp, Job, Posts, Arg
<1>3. strand'[c] = Append(Tail(strand[c]), j)
  BY <1>1 DEF DispatchTimer
<1> HIDE DEF j
<1>4. StrandMoves(c) /\ SameFlight(c)
  BY <1>1, <1>2, <1>3, FlightStays DEF StrandMoves
<1>5. SameData(c)
  BY <1>1 DEF SameData, SameQueues, queueVars
<1> QED BY <1>1, <1>4, <1>5, QuietOrder

\* What the network does to the operations that carry no data.
LEMMA QuietNetworkOrder ==
  ASSUME EInv, NEW c \in Conns, Orderly(c),
         ConnectDone(c) \/ Expire(c) \/ PeerSends(c) \/ PeerCloses(c)
  PROVE  Orderly(c)' /\ Step(c)
<1>1. /\ IInv /\ io \in [Conns -> [Completions -> SUBSET Op]] /\ peer \in [Conns -> PeerState]
      /\ UNCHANGED <<strand, pendingRecvs, pendingSends, error, seen, asked, recvBuffer>>
  BY DEF EInv, IInv, Typed, ConnectDone, Expire, PeerSends, PeerCloses, ioOnly
<1>2. io'[c]["HandleSend"] = io[c]["HandleSend"] /\ io'[c]["HandleRecv"] = io[c]["HandleRecv"]
  BY <1>1, Names DEF ConnectDone, Expire, PeerSends, PeerCloses, Update
<1>3. peer'[c].wire = peer[c].wire /\ peer'[c].taken = peer[c].taken
  BY <1>1 DEF ConnectDone, Expire, PeerSends, PeerCloses, PeerState
<1>4. SameData(c) /\ StrandMoves(c)
  BY <1>1, <1>3 DEF SameData, SameQueues, StrandMoves
<1>5. socket'[c] = "closed" <=> socket[c] = "closed"
  <2>1. CASE ConnectDone(c)
    BY <2>1 DEF ConnectDone, EInv, Steady, Ended, Waits, IInv, Typed
  <2>2. CASE Expire(c) \/ PeerSends(c) \/ PeerCloses(c)
    BY <2>2 DEF Expire, PeerSends, PeerCloses
  <2> QED BY <2>1, <2>2
<1>6. dial'[c] = dial[c] /\ error'[c] = error[c]
  BY DEF ConnectDone, Expire, PeerSends, PeerCloses, ioOnly
<1>7. SameFlight(c)
  BY <1>1, <1>2, FlightStays
<1> QED BY <1>1, <1>4, <1>5, <1>6, <1>7, QuietOrder

LEMMA DisconnectOrder ==
  ASSUME EInv, NEW c \in Conns, Orderly(c), Disconnect(c)
  PROVE  Orderly(c)' /\ Step(c)
<1> DEFINE j == NewJob("HandleTimer", 0, "error")
<1>1. /\ IInv /\ strand \in [Conns -> Seq(Job)] /\ asked \in [Conns -> Counts]
      /\ UNCHANGED <<io, queueVars, peer, error, seen, dial, socket>>
  BY DEF EInv, IInv, Typed, Disconnect
<1>2. j \in Job /\ j.do = "HandleTimer" /\ strand'[c] = Append(strand[c], j)
  BY <1>1 DEF NewJob, NewOp, Job, Posts, Status, Disconnect, Post
<1> HIDE DEF j
<1>3. asked'[c].send = asked[c].send /\ asked'[c].recv = asked[c].recv
  BY <1>1 DEF Disconnect, Counts
<1>4. StrandMoves(c) /\ SameFlight(c)
  BY <1>1, <1>2, FlightStays DEF StrandMoves
<1>5. SameData(c)
  BY <1>1, <1>3 DEF SameData, SameQueues, queueVars
<1> QED BY <1>1, <1>4, <1>5, QuietOrder

\* Delivery moves an operation from the io_service to the strand.
LEMMA DeliverOrder ==
  ASSUME EInv, NEW c \in Conns, Orderly(c), NEW k \in Completions, Deliver(c, k)
  PROVE  Orderly(c)' /\ Step(c)
<1>1. /\ IInv /\ io \in [Conns -> [Completions -> SUBSET Op]] /\ strand \in [Conns -> Seq(Job)]
      /\ io[c][k] \in SUBSET Op
      /\ UNCHANGED <<queueVars, error, peer, seen, asked, dial, socket>>
  BY DEF EInv, IInv, Typed, Deliver
<1>2. PICK o \in io[c][k] :
        o.ec # "pending" /\ io' = [io EXCEPT ![c][k] = @ \ {o}] /\ Post(c, [do |-> k, op |-> o])
  BY DEF Deliver
<1> DEFINE j == [do |-> k, op |-> o]
<1>3. j \in Job /\ j.do = k /\ j.op = o
  BY <1>1, <1>2 DEF Job, Op
<1>4. strand'[c] = Append(strand[c], j)
  BY <1>1, <1>2 DEF Post
<1>5. io'[c][k] = io[c][k] \ {o} /\ \A l \in Completions \ {k} : io'[c][l] = io[c][l]
  BY <1>1, <1>2
<1> HIDE DEF j
<1>6. j.do \notin {"DispatchSend", "DispatchRecv"}
  BY <1>3 DEF Completions, OwnOps
<1>7. SameFlight(c)
  <2> SUFFICES ASSUME NEW l \in {"HandleSend", "HandleRecv"}
               PROVE  InFlight(io'[c][l], strand'[c], l) = InFlight(io[c][l], strand[c], l)
    BY DEF SameFlight
  <2>1. CASE l = k
    <3>1. InFlight(io[c][k] \ {j.op}, Append(strand[c], j), j.do) = InFlight(io[c][k], strand[c], j.do)
      BY <1>1, <1>3, InFlightDeliver
    <3> QED BY <1>3, <1>4, <1>5, <2>1, <3>1
  <2>2. CASE l # k
    <3>1. io'[c][l] = io[c][l]
      BY <1>5, <2>2, Names
    <3>2. j.do # l
      BY <1>3, <2>2
    <3> QED BY <1>1, <1>3, <1>4, <3>1, <3>2, InFlightPost
  <2> QED BY <2>1, <2>2
<1>8. SameData(c) /\ StrandMoves(c)
  BY <1>1, <1>3, <1>4, <1>6 DEF SameData, SameQueues, StrandMoves, queueVars
<1> QED BY <1>1, <1>7, <1>8, QuietOrder

(***************************************************************************)
(* The application calls.                                                  *)
(***************************************************************************)
\* A new request: the other kind of request, and what is in flight, stay.
LEMMA SendOrder ==
  ASSUME EInv, NEW c \in Conns, Orderly(c), Send(c)
  PROVE  Orderly(c)' /\ Step(c)
<1> DEFINE j == NewJob("DispatchSend", asked[c].send + 1, "ok")
<1>1. /\ IInv /\ strand \in [Conns -> Seq(Job)] /\ asked \in [Conns -> Counts] /\ strand[c] \in Seq(Job)
      /\ seen[c] \in Reports /\ pendingSends[c] \in Seq(1 .. MaxSends)
      /\ UNCHANGED <<io, queueVars, peer, error, seen, dial, socket>>
  BY DEF EInv, IInv, Typed, Send
<1>2. asked[c].send \in Nat /\ Len(seen[c].send) \in Nat /\ pendingSends[c] \in Seq(Nat)
  <2>1. asked[c] \in Counts /\ MaxSends \in Nat
    BY <1>1, ConnectionAssumption
  <2>2. asked[c].send \in Nat
    BY <2>1 DEF Counts
  <2>3. Len(seen[c].send) \in Nat
    BY <1>1 DEF Reports
  <2>4. pendingSends[c] \in Seq(Nat)
    BY <1>1, <2>1
  <2> QED BY <2>2, <2>3, <2>4
<1>3. j \in Job /\ j.do = "DispatchSend" /\ j.op.id = asked[c].send + 1 /\ strand'[c] = Append(strand[c], j)
  BY <1>1, <1>2 DEF NewJob, NewOp, Job, Posts, Status, Send, Post
<1> HIDE DEF j
<1>4. asked'[c].send = asked[c].send + 1 /\ asked'[c].recv = asked[c].recv
  BY <1>1 DEF Send, Counts
<1>5. SendsNumbered(c)'
  <2>1. Numbered(Len(seen[c].send), pendingSends[c], Append(strand[c], j), "DispatchSend", asked[c].send + 1)
    BY <1>1, <1>2, <1>3, NumberedCall DEF Orderly, SendsNumbered
  <2> QED BY <1>1, <1>3, <1>4, <2>1 DEF SendsNumbered, queueVars
<1>6. RecvsNumbered(c)'
  <2>1. Numbered(Len(seen[c].recv), pendingRecvs[c], Append(strand[c], j), "DispatchRecv", asked[c].recv)
    BY <1>1, <1>3, NumberedPost DEF Orderly, RecvsNumbered
  <2> QED BY <1>1, <1>3, <1>4, <2>1 DEF RecvsNumbered, queueVars
<1>7. SameFlight(c)
  BY <1>1, <1>3, FlightStays
<1>8. Written(c)' /\ (~error[c] => Received(c)')
  BY <1>1, <1>7 DEF Orderly, Written, Received, SameFlight, queueVars
<1>9. Promise(c)!Accept
  BY <1>1, <1>4, StateKept DEF Promise!Accept
<1> QED BY <1>1, <1>5, <1>6, <1>8, <1>9 DEF Orderly, Step, Promise!Next

LEMMA RecvOrder ==
  ASSUME EInv, NEW c \in Conns, Orderly(c), Recv(c)
  PROVE  Orderly(c)' /\ Step(c)
<1> DEFINE j == NewJob("DispatchRecv", asked[c].recv + 1, "ok")
<1>1. /\ IInv /\ strand \in [Conns -> Seq(Job)] /\ asked \in [Conns -> Counts] /\ strand[c] \in Seq(Job)
      /\ seen[c] \in Reports /\ pendingRecvs[c] \in Seq(1 .. Len(Asks))
      /\ UNCHANGED <<io, queueVars, peer, error, seen, dial, socket>>
  BY DEF EInv, IInv, Typed, Recv
<1>2. asked[c].recv \in Nat /\ Len(seen[c].recv) \in Nat /\ pendingRecvs[c] \in Seq(Nat)
  <2>1. asked[c] \in Counts /\ Len(Asks) \in Nat
    BY <1>1, ConnectionAssumption
  <2>2. asked[c].recv \in Nat
    BY <2>1 DEF Counts
  <2>3. Len(seen[c].recv) \in Nat
    BY <1>1 DEF Reports
  <2>4. pendingRecvs[c] \in Seq(Nat)
    BY <1>1, <2>1
  <2> QED BY <2>2, <2>3, <2>4
<1>3. j \in Job /\ j.do = "DispatchRecv" /\ j.op.id = asked[c].recv + 1 /\ strand'[c] = Append(strand[c], j)
  BY <1>1, <1>2 DEF NewJob, NewOp, Job, Posts, Status, Recv, Post
<1> HIDE DEF j
<1>4. asked'[c].recv = asked[c].recv + 1 /\ asked'[c].send = asked[c].send
  BY <1>1 DEF Recv, Counts
<1>5. RecvsNumbered(c)'
  <2>1. Numbered(Len(seen[c].recv), pendingRecvs[c], Append(strand[c], j), "DispatchRecv", asked[c].recv + 1)
    BY <1>1, <1>2, <1>3, NumberedCall DEF Orderly, RecvsNumbered
  <2> QED BY <1>1, <1>3, <1>4, <2>1 DEF RecvsNumbered, queueVars
<1>6. SendsNumbered(c)'
  <2>1. Numbered(Len(seen[c].send), pendingSends[c], Append(strand[c], j), "DispatchSend", asked[c].send)
    BY <1>1, <1>3, NumberedPost DEF Orderly, SendsNumbered
  <2> QED BY <1>1, <1>3, <1>4, <2>1 DEF SendsNumbered, queueVars
<1>7. SameFlight(c)
  BY <1>1, <1>3, FlightStays
<1>8. Written(c)' /\ (~error[c] => Received(c)')
  BY <1>1, <1>7 DEF Orderly, Written, Received, SameFlight, queueVars
<1>9. Promise(c)!Invite
  BY <1>1, <1>4, StateKept DEF Promise!Invite
<1> QED BY <1>1, <1>5, <1>6, <1>8, <1>9 DEF Orderly, Step, Promise!Next

(***************************************************************************)
(* async_write: one more part of the buffer at the front.                  *)
(***************************************************************************)
\* The numbers, and the other direction, do not depend on a write.
LEMMA WriteApart ==
  ASSUME EInv, NEW c \in Conns, Orderly(c), UNCHANGED ioOnly, UNCHANGED recvBuffer,
         io'[c]["HandleRecv"] = io[c]["HandleRecv"], peer'[c].taken = peer[c].taken
  PROVE  /\ SendsNumbered(c)' /\ RecvsNumbered(c)'
         /\ ~error[c] => Received(c)'
BY DEF Orderly, SendsNumbered, RecvsNumbered, Received, ioOnly

\* The only operation in flight is the one that is outstanding.
LEMMA OnlyOutstanding ==
  ASSUME NEW ops, NEW jobs, NEW k, NEW queue, FrontOnly(ops, jobs, k, queue), ops # {}
  PROVE  /\ \A new : InFlight(new, jobs, k) = new
         /\ \A o \in ops : ops = {o} /\ queue # <<>> /\ o.id = Head(queue)
<1>1. Positions(jobs, k) = {}
  BY DEF FrontOnly
<1>2. \A new : InFlight(new, jobs, k) = new
  BY <1>1 DEF InFlight
<1> QED BY <1>2 DEF FrontOnly

LEMMA WholeBuffers ==
  ASSUME NEW told \in Nat, NEW parts \in Nat \ {0}, NEW done \in Nat, done < parts,
         NEW written, written = told * parts + done
  PROVE  written \div parts = told
OBVIOUS

LEMMA WriteFailsOrder ==
  ASSUME EInv, NEW c \in Conns, Orderly(c), WriteFails(c)
  PROVE  Orderly(c)' /\ Step(c)
<1>1. /\ IInv /\ io \in [Conns -> [Completions -> SUBSET Op]] /\ io[c]["HandleSend"] \in SUBSET Op
      /\ FrontOnly(io[c]["HandleSend"], strand[c], "HandleSend", pendingSends[c])
  BY StateOf, Names DEF EInv, IInv, Typed, Healthy
<1>2. PICK o \in io[c]["HandleSend"] : Update(c, "HandleSend", o, [o EXCEPT !.ec = "error"])
  BY DEF WriteFails
<1> DEFINE n == [o EXCEPT !.ec = "error"]
<1>3. n.done = o.done /\ n.ec = "error"
  BY <1>1 DEF Op
<1>4. /\ io'[c]["HandleSend"] = (io[c]["HandleSend"] \ {o}) \union {n}
      /\ io'[c]["HandleRecv"] = io[c]["HandleRecv"]
  BY <1>1, <1>2, Names DEF Update
<1> HIDE DEF n
<1>5. /\ InFlight(io[c]["HandleSend"], strand[c], "HandleSend") = {o}
      /\ InFlight(io'[c]["HandleSend"], strand'[c], "HandleSend") = {n}
  <2>1. strand'[c] = strand[c]
    BY DEF WriteFails, ioOnly
  <2>2. io[c]["HandleSend"] # {}
    BY <1>2
  <2>3. \A new : InFlight(new, strand[c], "HandleSend") = new
    BY <1>1, <2>2, OnlyOutstanding
  <2>4. io[c]["HandleSend"] = {o} /\ pendingSends[c] # <<>> /\ o.id = Head(pendingSends[c])
    BY <1>1, <1>2, <2>2, OnlyOutstanding
  <2> QED BY <1>4, <2>1, <2>3, <2>4
<1>6. UNCHANGED <<ioOnly, recvBuffer, peer, socket>>
  BY DEF WriteFails
<1>7. Written(c)'
  BY <1>3, <1>5, <1>6 DEF Orderly, Written, Writes, ioOnly
<1>8. /\ SendsNumbered(c)' /\ RecvsNumbered(c)'
      /\ ~error[c] => Received(c)'
  BY <1>4, <1>6, WriteApart
<1>9. Step(c)
  BY <1>6, StateKept DEF Step, Promise!chan, ioOnly
<1> QED BY <1>6, <1>7, <1>8, <1>9 DEF Orderly, ioOnly

\* A part of buffer n is written when n - 1 buffers have been confirmed.
LEMMA WriteSomeOrder ==
  ASSUME EInv, NEW c \in Conns, Orderly(c), WriteSome(c)
  PROVE  Orderly(c)' /\ Step(c)
<1> DEFINE told == Len(seen[c].send)
           wire == peer[c].wire
<1>1. /\ IInv /\ io \in [Conns -> [Completions -> SUBSET Op]] /\ io[c]["HandleSend"] \in SUBSET Op
      /\ FrontOnly(io[c]["HandleSend"], strand[c], "HandleSend", pendingSends[c])
      /\ pendingSends[c] \in Seq(1 .. MaxSends) /\ seen[c] \in Reports /\ asked[c] \in Counts
      /\ peer \in [Conns -> PeerState] /\ Steady(c) /\ error[c] \in BOOLEAN
  BY StateOf, Names DEF EInv, IInv, Typed, Healthy
<1>2. PICK o \in io[c]["HandleSend"] :
        /\ o.ec = "pending"
        /\ Update(c, "HandleSend", o,
                  [o EXCEPT !.done = @ + 1, !.ec = IF o.done + 1 = Parts THEN "ok" ELSE @])
        /\ peer' = [peer EXCEPT ![c].wire = Append(@, o.id)]
  BY DEF WriteSome
<1> DEFINE n == [o EXCEPT !.done = @ + 1, !.ec = IF o.done + 1 = Parts THEN "ok" ELSE @]
<1>3. /\ o.done \in Nat /\ n.done = o.done + 1
      /\ n.ec = IF o.done + 1 = Parts THEN "ok" ELSE "pending"
  BY <1>1, <1>2 DEF Op
<1>4. /\ io'[c]["HandleSend"] = (io[c]["HandleSend"] \ {o}) \union {n}
      /\ io'[c]["HandleRecv"] = io[c]["HandleRecv"]
  BY <1>1, <1>2, Names DEF Update
<1> HIDE DEF n
<1>5. /\ UNCHANGED ioOnly /\ UNCHANGED recvBuffer
      /\ peer'[c].wire = Append(wire, o.id) /\ peer'[c].taken = peer[c].taken
      /\ wire \in Seq(Nat)
  BY <1>1, <1>2 DEF WriteSome, PeerState
<1>6. /\ InFlight(io[c]["HandleSend"], strand[c], "HandleSend") = {o}
      /\ InFlight(io'[c]["HandleSend"], strand'[c], "HandleSend") = {n}
      /\ pendingSends[c] # <<>> /\ o.id = Head(pendingSends[c])
  <2>1. strand'[c] = strand[c]
    BY <1>5 DEF ioOnly
  <2>2. io[c]["HandleSend"] # {}
    BY <1>2
  <2>3. \A new : InFlight(new, strand[c], "HandleSend") = new
    BY <1>1, <2>2, OnlyOutstanding
  <2>4. io[c]["HandleSend"] = {o} /\ pendingSends[c] # <<>> /\ o.id = Head(pendingSends[c])
    BY <1>1, <1>2, <2>2, OnlyOutstanding
  <2> QED BY <1>4, <2>1, <2>3, <2>4
<1>7. ChannelState(c) \in {"up", "mute"} /\ ChannelState(c)' = ChannelState(c)
  <2>1. socket[c] = "connected" /\ socket'[c] = socket[c] /\ ~NotDialled(c)
    BY <1>1 DEF WriteSome, Steady, Begun
  <2> QED BY <1>5, <2>1, StateKept DEF ChannelState, Zombie, ioOnly
<1>8. /\ told \in Nat /\ Parts \in Nat \ {0} /\ Len(wire) = told * Parts + o.done /\ o.done < Parts
      /\ told * Parts \in Nat
  <2>1. told \in Nat /\ Parts \in Nat \ {0}
    BY <1>1, ConnectionAssumption DEF Reports
  <2>2. Len(wire) = told * Parts + o.done /\ o.done < Parts
    BY <1>2, <1>6 DEF Orderly, Written, Writes
  <2>3. told * Parts \in Nat
    BY <2>1
  <2> QED BY <2>1, <2>2, <2>3
<1>9. o.id = told + 1 /\ told + 1 <= asked[c].send
  <2>1. pendingSends[c] \in Seq(Nat) /\ asked[c].send \in Nat
    BY <1>1, ConnectionAssumption DEF Counts
  <2> QED BY <1>6, <1>8, <2>1, NumberedServed DEF Orderly, SendsNumbered
<1>10. Len(wire) \div Parts = told
  BY <1>3, <1>8, WholeBuffers
<1>11. Written(c)'
  <2>1. Len(peer'[c].wire) = told * Parts + n.done
    <3>1. Len(peer'[c].wire) = Len(wire) + 1
      <4>1. o.id \in Nat
        BY <1>1 DEF Op
      <4> QED BY <1>5, <4>1
    <3>2. \A whole, part \in Nat : (whole + part) + 1 = whole + (part + 1)
      OBVIOUS
    <3> QED BY <1>3, <1>8, <3>1, <3>2
  <2>2. (n.ec = "pending" => n.done < Parts) /\ (n.ec = "ok" => n.done = Parts)
    BY <1>3, <1>8
  <2> QED BY <1>5, <1>6, <2>1, <2>2 DEF Written, Writes, ioOnly
<1>12. Promise(c)!Write
  BY <1>5, <1>7, <1>9, <1>10 DEF Promise!Write, ioOnly
<1>13. /\ SendsNumbered(c)' /\ RecvsNumbered(c)'
       /\ ~error[c] => Received(c)'
  BY <1>4, <1>5, WriteApart
<1> QED BY <1>5, <1>11, <1>12, <1>13 DEF Orderly, Step, Promise!Next, ioOnly

(***************************************************************************)
(* async_read: bytes of the stream are put behind those read before.       *)
(***************************************************************************)
LEMMA ReadApart ==
  ASSUME EInv, NEW c \in Conns, Orderly(c), UNCHANGED ioOnly,
         io'[c]["HandleSend"] = io[c]["HandleSend"], peer'[c].wire = peer[c].wire, socket'[c] = socket[c]
  PROVE  SendsNumbered(c)' /\ RecvsNumbered(c)' /\ Written(c)' /\ Step(c)
BY StateKept DEF Orderly, SendsNumbered, RecvsNumbered, Written, ioOnly, Step, Promise!chan

LEMMA ReadFailsOrder ==
  ASSUME EInv, NEW c \in Conns, Orderly(c), ReadFails(c)
  PROVE  Orderly(c)' /\ Step(c)
<1>1. /\ IInv /\ io \in [Conns -> [Completions -> SUBSET Op]] /\ io[c]["HandleRecv"] \in SUBSET Op
      /\ FrontOnly(io[c]["HandleRecv"], strand[c], "HandleRecv", pendingRecvs[c])
  BY StateOf, Names DEF EInv, IInv, Typed, Healthy
<1>2. PICK o \in io[c]["HandleRecv"] : Update(c, "HandleRecv", o, [o EXCEPT !.ec = "error"])
  BY DEF ReadFails
<1> DEFINE n == [o EXCEPT !.ec = "error"]
<1>3. n.done = o.done /\ n.ec = "error"
  BY <1>1 DEF Op
<1>4. /\ io'[c]["HandleRecv"] = (io[c]["HandleRecv"] \ {o}) \union {n}
      /\ io'[c]["HandleSend"] = io[c]["HandleSend"]
  BY <1>1, <1>2, Names DEF Update
<1> HIDE DEF n
<1>5. /\ InFlight(io[c]["HandleRecv"], strand[c], "HandleRecv") = {o}
      /\ InFlight(io'[c]["HandleRecv"], strand'[c], "HandleRecv") = {n}
  <2>1. strand'[c] = strand[c]
    BY DEF ReadFails, ioOnly
  <2>2. io[c]["HandleRecv"] # {}
    BY <1>2
  <2>3. \A new : InFlight(new, strand[c], "HandleRecv") = new
    BY <1>1, <2>2, OnlyOutstanding
  <2>4. io[c]["HandleRecv"] = {o}
    BY <1>1, <1>2, <2>2, OnlyOutstanding
  <2> QED BY <1>4, <2>1, <2>3, <2>4
<1>6. UNCHANGED <<ioOnly, recvBuffer, peer, socket>>
  BY DEF ReadFails
<1>7. ~error[c] => Received(c)'
  BY <1>3, <1>5, <1>6 DEF Orderly, Received, Reads, Fills, ioOnly
<1>8. SendsNumbered(c)' /\ RecvsNumbered(c)' /\ Written(c)' /\ Step(c)
  BY <1>4, <1>6, ReadApart
<1> QED BY <1>6, <1>7, <1>8 DEF Orderly, ioOnly

LEMMA ReadSomeOrder ==
  ASSUME EInv, NEW c \in Conns, Orderly(c), ReadSome(c)
  PROVE  Orderly(c)' /\ Step(c)
<1> DEFINE upto == LastByte(seen[c].recv)
           taken == peer[c].taken
<1>1. /\ IInv /\ io \in [Conns -> [Completions -> SUBSET Op]] /\ io[c]["HandleRecv"] \in SUBSET Op
      /\ FrontOnly(io[c]["HandleRecv"], strand[c], "HandleRecv", pendingRecvs[c])
      /\ Fits(io[c]["HandleRecv"], strand[c], recvBuffer[c]) /\ IdsIn(io[c]["HandleRecv"], strand[c])
      /\ recvBuffer[c] \in Seq(Nat) /\ recvBuffer \in [Conns -> Seq(Nat)]
      /\ peer \in [Conns -> PeerState] /\ Steady(c) /\ error[c] \in BOOLEAN
  BY StateOf, Names DEF EInv, IInv, Typed, Healthy
<1>0. \A o \in io[c]["HandleRecv"] :
        o.done \in Nat /\ o.id \in 1 .. Len(Asks) /\ ReadSize(o.id) \in Nat
  BY <1>1, ReadSizeNat DEF Op, IdsIn
<1> DEFINE Takes(o, m) ==
          /\ o.ec = "pending" /\ m <= peer[c].sent - peer[c].taken
          /\ Update(c, "HandleRecv", o,
               [o EXCEPT !.done = @ + m,
                         !.ec = IF o.done + m = ReadSize(o.id) \/ Asks[o.id] = 0 THEN "ok" ELSE @])
          /\ recvBuffer' = [recvBuffer EXCEPT ![c] =
               [i \in DOMAIN @ |-> IF i \in o.done + 1 .. o.done + m
                                     THEN peer[c].taken + i - o.done ELSE @[i]]]
          /\ peer' = [peer EXCEPT ![c].taken = @ + m]
<1>2a. PICK o \in io[c]["HandleRecv"] : \E m \in 1 .. (ReadSize(o.id) - o.done) : Takes(o, m)
  BY DEF ReadSome
<1>2b. PICK m \in 1 .. (ReadSize(o.id) - o.done) : Takes(o, m)
  BY <1>2a
<1>2. /\ m \in Nat /\ m \in 1 .. (ReadSize(o.id) - o.done) /\ o.ec = "pending"
      /\ Takes(o, m)
  BY <1>0, <1>2b
<1> DEFINE n == [o EXCEPT !.done = @ + m,
                          !.ec = IF o.done + m = ReadSize(o.id) \/ Asks[o.id] = 0 THEN "ok" ELSE @]
<1>3. /\ o.done \in Nat /\ n.done = o.done + m /\ n.id = o.id
      /\ n.ec = IF o.done + m = ReadSize(o.id) \/ Asks[o.id] = 0 THEN "ok" ELSE "pending"
  BY <1>1, <1>2 DEF Op
<1>4. /\ io'[c]["HandleRecv"] = (io[c]["HandleRecv"] \ {o}) \union {n}
      /\ io'[c]["HandleSend"] = io[c]["HandleSend"]
  BY <1>1, <1>2, Names DEF Update
<1> HIDE DEF n
<1>5. /\ UNCHANGED ioOnly /\ UNCHANGED socket /\ taken \in Nat
      /\ peer'[c].wire = peer[c].wire /\ peer'[c].taken = taken + m
  BY <1>1, <1>2 DEF ReadSome, PeerState
<1>6. /\ InFlight(io[c]["HandleRecv"], strand[c], "HandleRecv") = {o}
      /\ InFlight(io'[c]["HandleRecv"], strand'[c], "HandleRecv") = {n}
  <2>1. strand'[c] = strand[c]
    BY <1>5 DEF ioOnly
  <2>2. io[c]["HandleRecv"] # {}
    BY <1>2
  <2>3. \A new : InFlight(new, strand[c], "HandleRecv") = new
    <3>1. FrontOnly(io[c]["HandleRecv"], strand[c], "HandleRecv", pendingRecvs[c])
      BY <1>1
    <3> QED BY <2>2, <3>1, OnlyOutstanding
  <2>4. io[c]["HandleRecv"] = {o}
    BY <1>1, <1>2, <2>2, OnlyOutstanding
  <2> QED BY <1>4, <2>1, <2>3, <2>4
<1>7. SendsNumbered(c)' /\ RecvsNumbered(c)' /\ Written(c)' /\ Step(c)
  BY <1>4, <1>5, ReadApart
<1> SUFFICES ASSUME ~error[c] PROVE Received(c)'
  BY <1>5, <1>7 DEF Orderly, ioOnly
<1>8. upto \in Nat /\ Fills(o, upto, taken, recvBuffer[c])
  BY <1>6 DEF Orderly, Received, Reads
<1>9. /\ Asks[o.id] \in Nat /\ RecvSize \in Nat /\ ReadSize(o.id) \in Nat
      /\ m \in Nat /\ m >= 1 /\ o.done + m <= ReadSize(o.id)
      /\ Len(recvBuffer[c]) = ReadSize(o.id)
  <2>1. o.id \in 1 .. Len(Asks) /\ Len(recvBuffer[c]) = ReadSize(o.id)
    BY <1>1 DEF IdsIn, Fits
  <2>2. Asks[o.id] \in Nat /\ RecvSize \in Nat /\ ReadSize(o.id) \in Nat
    BY <2>1, ReadSizeNat, ConnectionAssumption
  <2> QED BY <1>2, <1>3, <2>1, <2>2
<1>10. Fills(n, upto, taken + m, recvBuffer'[c])
  <2>1. taken + m = upto + n.done
    BY <1>3, <1>5, <1>8, <1>9 DEF Fills
  <2>2. \A i \in 1 .. n.done : recvBuffer'[c][i] = upto + i
    <3> TAKE i \in 1 .. n.done
    <3>1. i \in DOMAIN recvBuffer[c] /\ i \in Nat
      BY <1>1, <1>3, <1>9
    <3>2. recvBuffer'[c][i] = IF i \in o.done + 1 .. o.done + m
                                THEN taken + i - o.done ELSE recvBuffer[c][i]
      BY <1>1, <1>2, <3>1
    <3>3. CASE i \in o.done + 1 .. o.done + m
      <4>1. taken = upto + o.done
        BY <1>8 DEF Fills
      <4> QED BY <1>3, <1>8, <3>1, <3>2, <3>3, <4>1
    <3>4. CASE i \notin o.done + 1 .. o.done + m
      <4>1. i \in 1 .. o.done
        BY <1>3, <1>9, <3>1, <3>4
      <4> QED BY <1>8, <3>2, <3>4, <4>1 DEF Fills
    <3> QED BY <3>3, <3>4
  <2>3. n.ec = "pending" => n.done < ReadSize(n.id) /\ (Asks[n.id] = 0 => n.done = 0)
    BY <1>3, <1>9
  <2>4. n.ec = "ok" => n.done \in IF Asks[n.id] > 0 THEN {Asks[n.id]} ELSE 1 .. RecvSize
    <3>1. CASE Asks[o.id] > 0
      BY <1>3, <1>9, <3>1 DEF ReadSize
    <3>2. CASE Asks[o.id] = 0
      <4>1. o.done = 0
        BY <1>2, <1>8, <3>2 DEF Fills
      <4> QED BY <1>3, <1>9, <3>2, <4>1 DEF ReadSize
    <3> QED BY <1>9, <3>1, <3>2
  <2> QED BY <2>1, <2>2, <2>3, <2>4 DEF Fills
<1>11. Received(c)'
  BY <1>5, <1>6, <1>8, <1>10 DEF Received, Reads, ioOnly
<1> QED BY <1>11

(***************************************************************************)
(* Requests are dispatched.                                                *)
(***************************************************************************)
\* An operation that starts has handed over and read nothing yet.
LEMMA StartWrites ==
  ASSUME IInv, NEW c \in Conns, NEW queue, StartSend(c, queue), io[c]["HandleSend"] = {},
         NEW jobs, Positions(jobs, "HandleSend") = {}, NEW told \in Nat
  PROVE  Writes(InFlight(io'[c]["HandleSend"], jobs, "HandleSend"), queue, told, told * Parts)
<1>1. /\ io \in [Conns -> [Completions -> SUBSET Op]] /\ Parts \in Nat /\ Parts > 0 /\ told * Parts \in Nat
      /\ told * Parts + 0 = told * Parts
  BY ConnectionAssumption DEF IInv, Typed
<1>2. InFlight(io'[c]["HandleSend"], jobs, "HandleSend") = io'[c]["HandleSend"]
  BY DEF InFlight
<1>3. CASE queue = <<>>
  <2>1. io'[c]["HandleSend"] = {}
    BY <1>3 DEF StartSend
  <2> QED BY <1>2, <2>1 DEF Writes
<1>4. CASE queue # <<>>
  <2> DEFINE n == NewOp(Head(queue), InitialStatus(c))
  <2>1. io'[c]["HandleSend"] = {n}
    BY <1>1, <1>4, Names DEF StartSend, StartWrite
  <2>2. n.done = 0 /\ n.ec # "ok"
    BY DEF NewOp, InitialStatus
  <2> HIDE DEF n
  <2> QED BY <1>1, <1>2, <2>1, <2>2 DEF Writes
<1> QED BY <1>3, <1>4

LEMMA StartReads ==
  ASSUME IInv, NEW c \in Conns, NEW r \in 1 .. Len(Asks), StartRecv(c, r), io[c]["HandleRecv"] = {},
         NEW jobs, Positions(jobs, "HandleRecv") = {}, NEW upto \in Nat
  PROVE  Reads(InFlight(io'[c]["HandleRecv"], jobs, "HandleRecv"), upto, upto, recvBuffer'[c])
<1> DEFINE n == NewOp(r, InitialStatus(c))
<1>1. io \in [Conns -> [Completions -> SUBSET Op]]
  BY DEF IInv, Typed
<1>2. InFlight(io'[c]["HandleRecv"], jobs, "HandleRecv") = {n}
  <2>1. io'[c]["HandleRecv"] = {n}
    BY <1>1, Names DEF StartRecv
  <2> HIDE DEF n
  <2> QED BY <2>1 DEF InFlight
<1>3. n.id = r /\ n.done = 0 /\ n.ec # "ok"
  BY DEF NewOp, InitialStatus
<1> HIDE DEF n
<1>4. ReadSize(r) \in Nat /\ ReadSize(r) > 0
  BY ReadSizeNat
<1>5. Fills(n, upto, upto, recvBuffer'[c])
  BY <1>3, <1>4 DEF Fills
<1> QED BY <1>2, <1>5 DEF Reads

\* Another handler runs and the operations stay.
LEMMA FlightPops ==
  ASSUME IInv, NEW c \in Conns, NEW k \in {"HandleSend", "HandleRecv"}, strand[c] # <<>>, Pop(c),
         Head(strand[c]).do # k, io'[c][k] = io[c][k]
  PROVE  InFlight(io'[c][k], strand'[c], k) = InFlight(io[c][k], strand[c], k)
BY PopStep, StateOf, InFlightPop

LEMMA DispatchSendOrder ==
  ASSUME EInv, NEW c \in Conns, Orderly(c), DispatchSend(c)
  PROVE  Orderly(c)' /\ Step(c)
<1> DEFINE told == Len(seen[c].send)
           queue == Append(pendingSends[c], Arg(c).id)
<1>1. /\ IInv /\ strand[c] \in Seq(Job) /\ strand[c] # <<>> /\ Head(strand[c]).do = "DispatchSend" /\ Pop(c)
      /\ UNCHANGED <<pendingRecvs, recvBuffer, peer, asked, seen, error, dial, socket>>
      /\ pendingSends \in [Conns -> Seq(1 .. MaxSends)]
  BY DEF EInv, IInv, Typed, DispatchSend, Runs, netVars, appVars
<1>2. /\ strand'[c] = Tail(strand[c]) /\ pendingSends'[c] = queue
      /\ told \in Nat /\ asked[c].send \in Nat /\ pendingSends[c] \in Seq(Nat)
  <2>1. seen[c] \in Reports /\ asked[c] \in Counts /\ MaxSends \in Nat
    BY <1>1, ConnectionAssumption DEF IInv, Typed
  <2>2. told \in Nat /\ asked[c].send \in Nat
    BY <2>1 DEF Reports, Counts
  <2>3. pendingSends[c] \in Seq(Nat)
    BY <1>1, <2>1
  <2>4. strand'[c] = Tail(strand[c]) /\ pendingSends'[c] = queue
    BY <1>1, PopStep DEF DispatchSend
  <2> QED BY <2>2, <2>3, <2>4
<1>3. SendsNumbered(c)'
  <2>1. Numbered(told, queue, Tail(strand[c]), "DispatchSend", asked[c].send)
    BY <1>1, <1>2, NumberedDispatch DEF Orderly, SendsNumbered, Arg
  <2> QED BY <1>1, <1>2, <2>1 DEF SendsNumbered
<1>4. RecvsNumbered(c)'
  <2>1. Numbered(Len(seen[c].recv), pendingRecvs[c], Tail(strand[c]), "DispatchRecv", asked[c].recv)
    BY <1>1, NumberedPop DEF Orderly, RecvsNumbered
  <2> QED BY <1>1, <1>2, <2>1 DEF RecvsNumbered
<1> HIDE DEF queue
<1>5. \/ pendingSends[c] # <<>> /\ UNCHANGED io
      \/ pendingSends[c] = <<>> /\ StartSend(c, queue)
  BY DEF DispatchSend, ShouldStart, queue
<1>6. \A k \in Completions \ {"HandleSend"} : io'[c][k] = io[c][k]
  BY <1>1, <1>5, StartSendEffect
<1>7. ~error[c] => Received(c)'
  <2>1. InFlight(io'[c]["HandleRecv"], strand'[c], "HandleRecv") =
          InFlight(io[c]["HandleRecv"], strand[c], "HandleRecv")
    BY <1>1, <1>6, FlightPops, Names
  <2> QED BY <1>1, <2>1 DEF Orderly, Received
<1>8. Written(c)'
  <2>1. CASE pendingSends[c] # <<>> /\ UNCHANGED io
    <3>1. InFlight(io'[c]["HandleSend"], strand'[c], "HandleSend") =
            InFlight(io[c]["HandleSend"], strand[c], "HandleSend")
      BY <1>1, <2>1, FlightPops
    <3>2. queue # <<>>
      BY <1>2, AppendProperties, EmptySeq DEF queue
    <3> QED BY <1>1, <1>2, <3>1, <3>2 DEF Orderly, Written, Writes
  <2>2. CASE pendingSends[c] = <<>> /\ StartSend(c, queue)
    <3>1. FrontOnly(io[c]["HandleSend"], strand[c], "HandleSend", <<>>)
      BY <1>1, <2>2, StateOf DEF Healthy
    <3>2. /\ io[c]["HandleSend"] = {} /\ Positions(strand[c], "HandleSend") = {}
          /\ Positions(Tail(strand[c]), "HandleSend") = {}
      BY <1>1, <3>1, FrontIdle, FrontPop
    <3>3. Len(peer[c].wire) = told * Parts
      BY <2>2 DEF Orderly, Written, Writes, InFlight
    <3>4. Writes(InFlight(io'[c]["HandleSend"], Tail(strand[c]), "HandleSend"), queue, told, told * Parts)
      BY <1>1, <1>2, <2>2, <3>2, StartWrites
    <3> QED BY <1>1, <1>2, <3>3, <3>4 DEF Written
  <2> QED BY <1>5, <2>1, <2>2
<1>9. Step(c)
  BY <1>1, StateKept DEF Step, Promise!chan
<1> QED BY <1>1, <1>3, <1>4, <1>7, <1>8, <1>9 DEF Orderly

LEMMA DispatchRecvOrder ==
  ASSUME EInv, NEW c \in Conns, Orderly(c), DispatchRecv(c)
  PROVE  Orderly(c)' /\ Step(c)
<1> DEFINE told == Len(seen[c].recv)
           queue == Append(pendingRecvs[c], Arg(c).id)
           upto == LastByte(seen[c].recv)
<1>1. /\ IInv /\ strand[c] \in Seq(Job) /\ strand[c] # <<>> /\ Head(strand[c]).do = "DispatchRecv" /\ Pop(c)
      /\ UNCHANGED <<pendingSends, peer, asked, seen, error, dial, socket>>
      /\ pendingRecvs \in [Conns -> Seq(1 .. Len(Asks))]
  BY DEF EInv, IInv, Typed, DispatchRecv, Runs, netVars, appVars
<1>2. /\ strand'[c] = Tail(strand[c]) /\ pendingRecvs'[c] = queue
      /\ told \in Nat /\ asked[c].recv \in Nat /\ pendingRecvs[c] \in Seq(Nat)
  <2>1. seen[c] \in Reports /\ asked[c] \in Counts /\ Len(Asks) \in Nat
    BY <1>1, ConnectionAssumption DEF IInv, Typed
  <2>2. told \in Nat /\ asked[c].recv \in Nat
    BY <2>1 DEF Reports, Counts
  <2>3. pendingRecvs[c] \in Seq(Nat)
    BY <1>1, <2>1
  <2>4. strand'[c] = Tail(strand[c]) /\ pendingRecvs'[c] = queue
    BY <1>1, PopStep DEF DispatchRecv
  <2> QED BY <2>2, <2>3, <2>4
<1>3. RecvsNumbered(c)'
  <2>1. Numbered(told, queue, Tail(strand[c]), "DispatchRecv", asked[c].recv)
    BY <1>1, <1>2, NumberedDispatch DEF Orderly, RecvsNumbered, Arg
  <2> QED BY <1>1, <1>2, <2>1 DEF RecvsNumbered
<1>4. SendsNumbered(c)'
  <2>1. Numbered(Len(seen[c].send), pendingSends[c], Tail(strand[c]), "DispatchSend", asked[c].send)
    BY <1>1, NumberedPop DEF Orderly, SendsNumbered
  <2> QED BY <1>1, <1>2, <2>1 DEF SendsNumbered
<1>5. \/ pendingRecvs[c] # <<>> /\ UNCHANGED <<io, recvBuffer>>
      \/ pendingRecvs[c] = <<>> /\ StartRecv(c, Arg(c).id)
  BY DEF DispatchRecv, ShouldStart
<1>6. \A k \in Completions \ {"HandleRecv"} : io'[c][k] = io[c][k]
  BY <1>1, <1>5, StartRecvEffect
<1>7. Written(c)'
  <2>1. InFlight(io'[c]["HandleSend"], strand'[c], "HandleSend") =
          InFlight(io[c]["HandleSend"], strand[c], "HandleSend")
    BY <1>1, <1>6, FlightPops, Names
  <2> QED BY <1>1, <2>1 DEF Orderly, Written
<1>8. ~error[c] => Received(c)'
  <2>1. CASE pendingRecvs[c] # <<>> /\ UNCHANGED <<io, recvBuffer>>
    <3>1. InFlight(io'[c]["HandleRecv"], strand'[c], "HandleRecv") =
            InFlight(io[c]["HandleRecv"], strand[c], "HandleRecv")
      BY <1>1, <2>1, FlightPops
    <3> QED BY <1>1, <2>1, <3>1 DEF Orderly, Received
  <2>2. CASE pendingRecvs[c] = <<>> /\ StartRecv(c, Arg(c).id)
    <3>1. FrontOnly(io[c]["HandleRecv"], strand[c], "HandleRecv", <<>>)
      BY <1>1, <2>2, StateOf DEF Healthy
    <3>2. /\ io[c]["HandleRecv"] = {} /\ Positions(strand[c], "HandleRecv") = {}
          /\ Positions(Tail(strand[c]), "HandleRecv") = {}
      BY <1>1, <3>1, FrontIdle, FrontPop
    <3>3. ~error[c] => upto \in Nat /\ peer[c].taken = upto
      BY <3>2 DEF Orderly, Received, Reads, InFlight
    <3>4. Arg(c).id \in 1 .. Len(Asks)
      <4>1. IdsIn(io[c]["HandleRecv"], strand[c]) /\ 1 \in DOMAIN strand[c] /\ Head(strand[c]) = strand[c][1]
        BY <1>1, StateOf, PositionsTail DEF Healthy
      <4> QED BY <1>1, <4>1 DEF IdsIn, Arg
    <3>5. ~error[c] => Reads(InFlight(io'[c]["HandleRecv"], Tail(strand[c]), "HandleRecv"), upto, upto, recvBuffer'[c])
      BY <1>1, <2>2, <3>2, <3>3, <3>4, StartReads
    <3> QED BY <1>1, <1>2, <3>3, <3>5 DEF Received
  <2> QED BY <1>5, <2>1, <2>2
<1>9. Step(c)
  BY <1>1, StateKept DEF Step, Promise!chan
<1> QED BY <1>1, <1>3, <1>4, <1>7, <1>8, <1>9 DEF Orderly

(***************************************************************************)
(* Requests are confirmed.                                                 *)
(***************************************************************************)
\* OnSend is called for the buffer all of which has been written.
LEMMA HandleSendOrder ==
  ASSUME EInv, NEW c \in Conns, Orderly(c), Dry(c), HandleSend(c)
  PROVE  Orderly(c)' /\ Step(c)
<1> DEFINE told == Len(seen[c].send)
           job == Head(strand[c])
           queue == Tail(pendingSends[c])
<1>1. /\ IInv /\ strand[c] \in Seq(Job) /\ strand[c] # <<>> /\ job.do = "HandleSend" /\ Pop(c)
      /\ UNCHANGED <<pendingRecvs, recvBuffer, peer, asked, dial>>
      /\ pendingSends \in [Conns -> Seq(1 .. MaxSends)] /\ seen \in [Conns -> Reports]
  BY DEF EInv, IInv, Typed, HandleSend, Runs, netVars, appVars
<1>2. CASE StartError(c) /\ UNCHANGED pendingSends
  BY <1>1, <1>2, ErrorHandlerOrder DEF queueVars
<1>3. CASE /\ ~Fails(c, job.op.ec) /\ UNCHANGED <<error, socket>>
           /\ pendingSends' = [pendingSends EXCEPT ![c] = Erase(pendingSends[c], job.op.id)]
           /\ StartSend(c, Erase(pendingSends[c], job.op.id))
           /\ seen' = [seen EXCEPT ![c].send = Append(@, job.op.id)]
  <2>1. job.op.ec = "ok" /\ ~error[c]
    BY <1>3 DEF Fails
  <2>2. /\ strand'[c] = Tail(strand[c])
        /\ told \in Nat /\ asked[c].send \in Nat /\ pendingSends[c] \in Seq(Nat) /\ seen[c].send \in Seq(Nat)
    <3>1. seen[c] \in Reports /\ asked[c] \in Counts /\ MaxSends \in Nat
      BY <1>1, ConnectionAssumption DEF IInv, Typed
    <3>2. told \in Nat /\ asked[c].send \in Nat /\ seen[c].send \in Seq(Nat)
      BY <3>1 DEF Reports, Counts
    <3>3. pendingSends[c] \in Seq(Nat)
      BY <1>1, <3>1
    <3>4. strand'[c] = Tail(strand[c])
      BY <1>1, PopStep
    <3> QED BY <3>2, <3>3, <3>4
  <2>3. /\ job.op \in InFlight(io[c]["HandleSend"], strand[c], "HandleSend")
        /\ io[c]["HandleSend"] = {} /\ Positions(Tail(strand[c]), "HandleSend") = {}
        /\ pendingSends[c] # <<>> /\ job.op.id = Head(pendingSends[c])
    <3>1. FrontOnly(io[c]["HandleSend"], strand[c], "HandleSend", pendingSends[c])
      BY <1>1, StateOf DEF Healthy
    <3> QED BY <1>1, <3>1, InFlightTake
  <2>4. /\ job.op.id = told + 1 /\ told + 1 <= asked[c].send
        /\ Numbered(told + 1, queue, strand[c], "DispatchSend", asked[c].send)
        /\ Erase(pendingSends[c], job.op.id) = queue
    <3>1. Numbered(told, pendingSends[c], strand[c], "DispatchSend", asked[c].send)
      BY DEF Orderly, SendsNumbered
    <3>2. \A i \in DOMAIN pendingSends[c] : pendingSends[c][i] = told + i
      BY <3>1 DEF Numbered
    <3>3. Erase(pendingSends[c], Head(pendingSends[c])) = queue
      BY <2>2, <2>3, <3>2, EraseFront
    <3>4. /\ Head(pendingSends[c]) = told + 1 /\ told + 1 <= asked[c].send
          /\ Numbered(told + 1, queue, strand[c], "DispatchSend", asked[c].send)
      BY <2>2, <2>3, <3>1, NumberedServed
    <3> QED BY <2>3, <3>3, <3>4
  <2> HIDE DEF queue
  <2>5. /\ pendingSends'[c] = queue /\ seen'[c].send = Append(seen[c].send, told + 1)
        /\ seen'[c].recv = seen[c].recv /\ Len(seen'[c].send) = told + 1
    <3>1. pendingSends'[c] = queue
      BY <1>1, <1>3, <2>4
    <3>2. seen'[c].send = Append(seen[c].send, told + 1) /\ seen'[c].recv = seen[c].recv
      BY <1>1, <1>3, <2>4 DEF Reports
    <3>3. Len(seen'[c].send) = told + 1
      BY <2>2, <3>2
    <3> QED BY <3>1, <3>2, <3>3
  <2>6. SendsNumbered(c)'
    <3>1. Numbered(told + 1, queue, Tail(strand[c]), "DispatchSend", asked[c].send)
      BY <1>1, <2>4, NumberedPop
    <3> QED BY <1>1, <2>2, <2>5, <3>1 DEF SendsNumbered
  <2>7. RecvsNumbered(c)'
    <3>1. Numbered(Len(seen[c].recv), pendingRecvs[c], Tail(strand[c]), "DispatchRecv", asked[c].recv)
      BY <1>1, NumberedPop DEF Orderly, RecvsNumbered
    <3> QED BY <1>1, <2>2, <2>5, <3>1 DEF RecvsNumbered
  <2>8. StartSend(c, queue)
    BY <1>3, <2>4
  <2>9. Received(c)'
    <3>1. io'[c]["HandleRecv"] = io[c]["HandleRecv"]
      BY <1>1, <2>8, StartSendEffect, Names
    <3>2. InFlight(io'[c]["HandleRecv"], strand'[c], "HandleRecv") =
            InFlight(io[c]["HandleRecv"], strand[c], "HandleRecv")
      BY <1>1, <3>1, FlightPops
    <3> QED BY <1>1, <2>1, <2>5, <3>2 DEF Orderly, Received
  <2>10. Len(peer[c].wire) = (told + 1) * Parts
    <3>1. Len(peer[c].wire) = told * Parts + Parts
      BY <2>1, <2>3 DEF Orderly, Written, Writes
    <3>2. told * Parts + Parts = (told + 1) * Parts
      BY <2>2, ConnectionAssumption
    <3> QED BY <3>1, <3>2
  <2>11. Written(c)'
    <3> DEFINE next == told + 1
    <3>1. next \in Nat
      BY <2>2
    <3>2. Len(peer'[c].wire) = next * Parts /\ Len(seen'[c].send) = next
      BY <1>1, <2>5, <2>10
    <3> HIDE DEF next
    <3>3. Writes(InFlight(io'[c]["HandleSend"], Tail(strand[c]), "HandleSend"), queue, next, next * Parts)
      BY <1>1, <2>3, <2>8, <3>1, StartWrites
    <3> QED BY <2>2, <2>5, <3>2, <3>3 DEF Written
  <2>12. Promise(c)!Confirm
    <3>1. (told + 1) * Parts <= Len(peer[c].wire)
      <4>1. (told + 1) * Parts \in Nat
        BY <2>2, ConnectionAssumption
      <4> QED BY <2>10, <4>1
    <3>2. ~NotDialled(c)
      <4>1. (told + 1) * Parts > 0
        BY <2>2, ConnectionAssumption
      <4> QED BY <2>10, <4>1 DEF Dry
    <3>3. ChannelState(c) = "up" /\ ChannelState(c)' = ChannelState(c)
      BY <1>1, <1>3, <2>1, <3>2, StateKept DEF ChannelState
    <3> QED BY <1>1, <2>5, <3>1, <3>3 DEF Promise!Confirm
  <2> QED BY <2>6, <2>7, <2>9, <2>11, <2>12 DEF Orderly, Step, Promise!Next
<1> QED BY <1>2, <1>3 DEF HandleSend, Arg

\* A report is added.
LEMMA LastReport ==
  ASSUME NEW reports \in Seq(Seq(Nat)), NEW data \in Seq(Nat)
  PROVE  /\ Len(Append(reports, data)) = Len(reports) + 1
         /\ LastByte(Append(reports, data)) = data[Len(data)]
<1> DEFINE more == Append(reports, data)
<1>1. more # <<>> /\ Len(more) = Len(reports) + 1 /\ more[Len(reports) + 1] = data
  BY AppendProperties
<1> HIDE DEF more
<1>2. LastByte(more) = data[Len(data)]
  BY <1>1 DEF LastByte
<1> QED BY <1>1, <1>2 DEF more

\* OnRecv is given what the read has put into the buffer.
LEMMA HandleRecvOrder ==
  ASSUME EInv, NEW c \in Conns, Orderly(c), Dry(c), HandleRecv(c)
  PROVE  Orderly(c)' /\ Step(c)
<1> DEFINE told == Len(seen[c].recv)
           upto == LastByte(seen[c].recv)
           job == Head(strand[c])
           done == job.op.done
           data == SubSeq(recvBuffer[c], 1, done)
           queue == Tail(pendingRecvs[c])
<1>1. /\ IInv /\ strand[c] \in Seq(Job) /\ strand[c] # <<>> /\ job.do = "HandleRecv" /\ Pop(c)
      /\ UNCHANGED <<pendingSends, peer, asked, dial>>
      /\ pendingRecvs \in [Conns -> Seq(1 .. Len(Asks))] /\ seen \in [Conns -> Reports]
      /\ recvBuffer[c] \in Seq(Nat)
  BY DEF EInv, IInv, Typed, HandleRecv, Runs, netVars, appVars
<1>2. CASE StartError(c) /\ UNCHANGED <<pendingRecvs, recvBuffer>>
  BY <1>1, <1>2, ErrorHandlerOrder DEF queueVars
<1>3. CASE /\ ~Fails(c, job.op.ec) /\ UNCHANGED <<error, socket>>
           /\ seen' = [seen EXCEPT ![c].recv = Append(@, data)]
           /\ pendingRecvs' = [pendingRecvs EXCEPT ![c] = queue]
           /\ \/ queue # <<>> /\ StartRecv(c, Head(queue))
              \/ queue = <<>> /\ UNCHANGED io
  <2>1. job.op.ec = "ok" /\ ~error[c]
    BY <1>3 DEF Fails
  <2>2. /\ strand'[c] = Tail(strand[c])
        /\ told \in Nat /\ asked[c].recv \in Nat /\ pendingRecvs[c] \in Seq(Nat)
        /\ seen[c].recv \in Seq(Seq(Nat)) /\ pendingRecvs[c] \in Seq(1 .. Len(Asks))
    <3>1. seen[c] \in Reports /\ asked[c] \in Counts /\ Len(Asks) \in Nat
      BY <1>1, ConnectionAssumption DEF IInv, Typed
    <3>2. told \in Nat /\ asked[c].recv \in Nat /\ seen[c].recv \in Seq(Seq(Nat))
      BY <3>1 DEF Reports, Counts
    <3>3. pendingRecvs[c] \in Seq(Nat) /\ pendingRecvs[c] \in Seq(1 .. Len(Asks))
      BY <1>1, <3>1
    <3>4. strand'[c] = Tail(strand[c])
      BY <1>1, PopStep
    <3> QED BY <3>2, <3>3, <3>4
  <2>3. /\ job.op \in InFlight(io[c]["HandleRecv"], strand[c], "HandleRecv")
        /\ io[c]["HandleRecv"] = {} /\ Positions(Tail(strand[c]), "HandleRecv") = {}
        /\ pendingRecvs[c] # <<>> /\ job.op.id = Head(pendingRecvs[c])
    <3>1. FrontOnly(io[c]["HandleRecv"], strand[c], "HandleRecv", pendingRecvs[c])
      BY <1>1, StateOf DEF Healthy
    <3> QED BY <1>1, <3>1, InFlightTake
  <2>4. /\ job.op.id = told + 1 /\ told + 1 <= asked[c].recv
        /\ Numbered(told + 1, queue, strand[c], "DispatchRecv", asked[c].recv)
    <3>1. Numbered(told, pendingRecvs[c], strand[c], "DispatchRecv", asked[c].recv)
      BY DEF Orderly, RecvsNumbered
    <3> QED BY <2>2, <2>3, <3>1, NumberedServed
  <2>5. /\ upto \in Nat /\ peer[c].taken = upto + done
        /\ \A i \in 1 .. done : recvBuffer[c][i] = upto + i
        /\ done \in IF Asks[told + 1] > 0 THEN {Asks[told + 1]} ELSE 1 .. RecvSize
    BY <2>1, <2>3, <2>4 DEF Orderly, Received, Reads, Fills
  <2>6. done \in Nat /\ done >= 1 /\ done <= Len(recvBuffer[c])
    <3>1. done <= Len(recvBuffer[c])
      <4>1. /\ Fits(io[c]["HandleRecv"], strand[c], recvBuffer[c])
            /\ 1 \in Positions(strand[c], "HandleRecv") /\ Head(strand[c]) = strand[c][1]
        BY <1>1, StateOf, PositionsTail DEF Healthy
      <4> QED BY <4>1 DEF Fits
    <3>2. job \in Job
      BY <1>1
    <3>3. done \in Nat
      BY <3>2 DEF Job
    <3>4. told + 1 \in 1 .. Len(Asks)
      BY <2>2, <2>3, <2>4
    <3>5. Asks[told + 1] \in Nat
      BY <3>4, ConnectionAssumption
    <3>6. done >= 1
      <4>1. CASE Asks[told + 1] > 0
        BY <2>5, <3>5, <4>1
      <4>2. CASE ~(Asks[told + 1] > 0)
        BY <2>5, <4>2, ConnectionAssumption
      <4> QED BY <4>1, <4>2
    <3> QED BY <3>1, <3>3, <3>6
  <2>7. /\ data = [i \in 1 .. done |-> upto + i]
        /\ data \in Seq(Nat) /\ Len(data) = done /\ data[done] = upto + done
    <3>1. /\ data \in Seq(Nat) /\ Len(data) = done
          /\ \A i \in 1 .. done : data[i] = recvBuffer[c][i]
      <4>1. \A i \in 1 .. done : recvBuffer[c][i] \in Nat
        BY <1>1, <2>6
      <4> QED BY <2>6, <4>1, SubSeqProperties
    <3> HIDE DEF data
    <3>2. data = [i \in 1 .. done |-> upto + i]
      <4>1. DOMAIN data = 1 .. done /\ data = [i \in DOMAIN data |-> data[i]]
        BY <2>6, <3>1
      <4> QED BY <2>5, <3>1, <4>1
    <3>3. \A i \in 1 .. done : upto + i \in Nat
      BY <2>5, <2>6
    <3> QED BY <2>6, <3>2, <3>3
  <2> HIDE DEF queue, data
  <2>8. /\ seen'[c].recv = Append(seen[c].recv, data) /\ seen'[c].send = seen[c].send
        /\ pendingRecvs'[c] = queue
    BY <1>1, <1>3 DEF Reports
  <2>9. Len(seen'[c].recv) = told + 1 /\ LastByte(seen'[c].recv) = upto + done
    <3>1. Len(seen'[c].recv) = told + 1 /\ LastByte(seen'[c].recv) = data[Len(data)]
      BY <2>2, <2>7, <2>8, LastReport
    <3> QED BY <2>7, <3>1
  <2>10. RecvsNumbered(c)'
    <3>1. Numbered(told + 1, queue, Tail(strand[c]), "DispatchRecv", asked[c].recv)
      BY <1>1, <2>4, NumberedPop
    <3> QED BY <1>1, <2>2, <2>8, <2>9, <3>1 DEF RecvsNumbered
  <2>11. SendsNumbered(c)'
    <3>1. Numbered(Len(seen[c].send), pendingSends[c], Tail(strand[c]), "DispatchSend", asked[c].send)
      BY <1>1, NumberedPop DEF Orderly, SendsNumbered
    <3> QED BY <1>1, <2>2, <2>8, <3>1 DEF SendsNumbered
  <2>12. Written(c)'
    <3>1. io'[c]["HandleSend"] = io[c]["HandleSend"]
      BY <1>1, <1>3, StartRecvEffect, Names
    <3>2. InFlight(io'[c]["HandleSend"], strand'[c], "HandleSend") =
            InFlight(io[c]["HandleSend"], strand[c], "HandleSend")
      BY <1>1, <3>1, FlightPops
    <3> QED BY <1>1, <2>1, <2>8, <3>2 DEF Orderly, Written
  <2>13. Received(c)'
    <3> DEFINE next == upto + done
    <3>1. next \in Nat /\ peer'[c].taken = next /\ LastByte(seen'[c].recv) = next
      BY <1>1, <2>5, <2>6, <2>9
    <3> HIDE DEF next
    <3>2. CASE queue = <<>> /\ UNCHANGED io
      <4>1. InFlight(io'[c]["HandleRecv"], strand'[c], "HandleRecv") = {}
        BY <2>2, <2>3, <3>2 DEF InFlight
      <4> QED BY <3>1, <4>1 DEF Received, Reads
    <3>3. CASE queue # <<>> /\ StartRecv(c, Head(queue))
      <4>1. Head(queue) \in 1 .. Len(Asks)
        <5>1. queue \in Seq(1 .. Len(Asks))
          <6>1. pendingRecvs[c] \in Seq(1 .. Len(Asks)) /\ pendingRecvs[c] # <<>>
            BY <2>2, <2>3
          <6> QED BY <6>1, HeadTailProperties DEF queue
        <5> QED BY <3>3, <5>1
      <4>2. Reads(InFlight(io'[c]["HandleRecv"], Tail(strand[c]), "HandleRecv"), next, next, recvBuffer'[c])
        BY <1>1, <2>3, <3>1, <3>3, <4>1, StartReads
      <4> QED BY <2>2, <3>1, <4>2 DEF Received
    <3> QED BY <1>3, <3>2, <3>3
  <2>14. Promise(c)!Report
    <3>1. Promise(c)!Upto = upto
      BY DEF Promise!Upto, LastByte
    <3>2. done \in Promise(c)!Sizes(told + 1)
      BY <2>5 DEF Promise!Sizes
    <3>3. told < asked[c].recv
      BY <2>2, <2>4
    <3>4. ~NotDialled(c)
      <4>1. peer[c].taken > 0
        BY <2>5, <2>6
      <4> QED BY <4>1 DEF Dry
    <3>5. ChannelState(c) = "up" /\ ChannelState(c)' = ChannelState(c)
      BY <1>1, <1>3, <2>1, <3>4, StateKept DEF ChannelState
    <3> QED BY <1>1, <2>7, <2>8, <3>1, <3>2, <3>3, <3>5 DEF Promise!Report
  <2> QED BY <2>10, <2>11, <2>12, <2>13, <2>14 DEF Orderly, Step, Promise!Next
<1> QED BY <1>2, <1>3 DEF HandleRecv, Arg

(***************************************************************************)
(* The theorem.                                                            *)
(***************************************************************************)
\* Bytes pass a connected socket only, and a connection stays dialled.
LEMMA DryKept ==
  ASSUME EInv, NEW c \in Conns, Dry(c), Moves(c)
  PROVE  Dry(c)'
<1> SUFFICES ASSUME NotDialled(c)'
             PROVE  Len(peer'[c].wire) = 0 /\ peer'[c].taken = 0
  BY DEF Dry
<1>1. /\ dial \in [Conns -> DialState] /\ peer \in [Conns -> PeerState]
      /\ NotDialled(c) => socket[c] \in {"closed", "open"}
  BY DEF EInv, IInv, Typed, Steady, Begun
<1>2. CASE Dialling(c)
  <2>1. NotDialled(c) /\ UNCHANGED peer
    BY <1>1, <1>2 DEF Dialling, Bind, Connect, ConnectTimer, ConnectThrows, NotDialled
  <2> QED BY <2>1 DEF Dry
<1>3. CASE Calls(c)
  BY <1>3 DEF Calls, Send, Recv, Disconnect, Dry, NotDialled
<1>4. CASE Handler(c)
  BY <1>4 DEF Handler, DispatchSend, DispatchRecv, DispatchTimer, HandleConnect, HandleSend, HandleRecv,
     HandleTimer, netVars, appVars, Dry, NotDialled
<1>5. CASE Network(c)
  <2>1. NotDialled(c) /\ socket[c] # "connected"
    BY <1>1, <1>5 DEF Network, ConnectDone, WriteSome, WriteFails, ReadSome, ReadFails, Expire,
       PeerSends, PeerCloses, ioOnly, NotDialled
  <2>2. peer'[c].wire = peer[c].wire /\ peer'[c].taken = peer[c].taken
    BY <1>1, <1>5, <2>1 DEF Network, ConnectDone, WriteSome, WriteFails, ReadSome, ReadFails, Expire,
       PeerSends, PeerCloses, PeerState
  <2> QED BY <2>1, <2>2 DEF Dry
<1>6. ASSUME NEW k \in Completions, Deliver(c, k)
      PROVE  Len(peer'[c].wire) = 0 /\ peer'[c].taken = 0
  BY <1>6 DEF Deliver, Dry, NotDialled
<1> QED BY <1>2, <1>3, <1>4, <1>5, <1>6 DEF Moves

LEMMA CInit == Init => CInv /\ \A c \in Conns : Promise(c)!Init
<1> SUFFICES ASSUME Init, NEW c \in Conns
             PROVE  Orderly(c) /\ Dry(c) /\ Promise(c)!Init
  BY EInit DEF CInv
<1>1. /\ strand[c] = <<>> /\ pendingSends[c] = <<>> /\ pendingRecvs[c] = <<>>
      /\ io[c]["HandleSend"] = {} /\ io[c]["HandleRecv"] = {} /\ ~error[c]
      /\ seen[c].send = <<>> /\ seen[c].recv = <<>> /\ asked[c].send = 0 /\ asked[c].recv = 0
      /\ peer[c].wire = <<>> /\ peer[c].taken = 0
  BY Names DEF Init, ConnectionInit
<1>2. Promise(c)!Init
  BY DEF Init, ConnectionInit, Promise!Init, ChannelState, NotDialled
<1>3. \A k : Positions(<<>>, k) = {}
  BY DEF Positions
<1>4. \A f : Numbered(0, <<>>, <<>>, f, 0)
  <2>1. 0 + 0 + 1 .. 0 = {} /\ Len(<<>>) = 0
    OBVIOUS
  <2> QED BY <1>3, <2>1 DEF Numbered
<1>5. SendsNumbered(c) /\ RecvsNumbered(c)
  BY <1>1, <1>4 DEF SendsNumbered, RecvsNumbered
<1>6. \A k : InFlight({}, <<>>, k) = {}
  BY <1>3 DEF InFlight
<1>7. Written(c)
  BY <1>1, <1>6, ConnectionAssumption DEF Written, Writes
<1>8. Received(c)
  BY <1>1, <1>6 DEF Received, Reads, LastByte
<1>9. Dry(c)
  BY <1>1 DEF Dry
<1> QED BY <1>2, <1>5, <1>7, <1>8, <1>9 DEF Orderly

\* Every step keeps every connection orderly and is a step of its channel.
LEMMA CNext == CInv /\ [Next]_vars => CInv' /\ \A c \in Conns : Step(c)
<1> SUFFICES ASSUME CInv, [Next]_vars
             PROVE  CInv' /\ \A c \in Conns : Step(c)
  OBVIOUS
<1>1. EInv /\ EInv' /\ IInv /\ \A d \in Conns : Orderly(d) /\ Dry(d)
  BY ENext DEF CInv, EInv
<1>2. ASSUME NEW d \in Conns, Stays(d)
      PROVE  Orderly(d)' /\ Dry(d)' /\ Step(d)
  <2>1. /\ SameData(d) /\ StrandMoves(d) /\ SameFlight(d)
        /\ error'[d] = error[d] /\ dial'[d] = dial[d] /\ socket'[d] = socket[d]
    BY <1>2 DEF Stays, SameData, SameEnd, SameApp, StrandMoves, SameFlight
  <2>2. Dry(d)'
    BY <1>1, <2>1 DEF Dry, NotDialled, SameData
  <2> QED BY <1>1, <2>1, <2>2, QuietOrder
<1>3. CASE HiveStop \/ HiveStopped \/ UNCHANGED vars
  <2>1. \A d \in Conns : Stays(d)
    BY <1>3 DEF HiveStop, HiveStopped, vars, queueVars, Stays, SameQueues, SameEnd, SameApp
  <2> QED BY <1>1, <1>2, <2>1 DEF CInv
<1>4. ASSUME NEW c \in Conns, Moves(c)
      PROVE  CInv' /\ \A d \in Conns : Step(d)
  <2>1. Orderly(c)' /\ Step(c)
    <3>1. CASE Dialling(c)
      BY <1>1, <3>1, DiallingOrder
    <3>2. CASE Calls(c)
      BY <1>1, <3>2, SendOrder, RecvOrder, DisconnectOrder DEF Calls
    <3>3. CASE Handler(c)
      BY <1>1, <3>3, DispatchSendOrder, DispatchRecvOrder, DispatchTimerOrder, QuietHandlerOrder,
         HandleSendOrder, HandleRecvOrder DEF Handler
    <3>4. CASE Network(c)
      BY <1>1, <3>4, QuietNetworkOrder, WriteSomeOrder, WriteFailsOrder, ReadSomeOrder,
         ReadFailsOrder DEF Network
    <3>5. ASSUME NEW k \in Completions, Deliver(c, k)
          PROVE  Orderly(c)' /\ Step(c)
      BY <1>1, <3>5, DeliverOrder
    <3> QED BY <1>4, <3>1, <3>2, <3>3, <3>4, <3>5 DEF Moves
  <2>2. \A d \in Conns \ {c} : Orderly(d)' /\ Dry(d)' /\ Step(d)
    BY <1>1, <1>2, <1>4, OthersStay
  <2>3. Dry(c)'
    BY <1>1, <1>4, DryKept
  <2> QED BY <1>1, <2>1, <2>2, <2>3 DEF CInv
<1> QED BY <1>3, <1>4 DEF Next, Moves

\* Whatever the order in which calls, completions, timers and errors come
\* about, each Connection carries data as the abstract channel promises.
THEOREM ConnectionRefinesChannel == Spec => ImplementsChannel
<1>1. Init => CInv /\ \A c \in Conns : Promise(c)!Init
  BY CInit
<1>2. CInv /\ [Next]_vars => CInv' /\ \A c \in Conns : [Promise(c)!Next]_(Promise(c)!chan)
  BY CNext DEF Step
<1>3. CInv /\ [Next]_vars => [\A c \in Conns : [Promise(c)!Next]_(Promise(c)!chan)]_vars
  BY <1>2
<1> QED BY <1>1, <1>2, <1>3, PTL DEF Spec, ImplementsChannel
==============================================================================
