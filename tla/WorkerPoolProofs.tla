-------------------------- MODULE WorkerPoolProofs --------------------------
(***************************************************************************)
(* Proofs about WorkerPool, for any number of worker threads and any       *)
(* number of rounds of the loops: every program is typed, the strand lets  *)
(* one thread print at a time, handlers begin in the order the comments    *)
(* promise, main joins a pool that has nothing left to do, and exceptions  *)
(* cost the threads they should.                                           *)
(***************************************************************************)
EXTENDS WorkerPool, SequenceTheorems, FiniteSetTheorems, TLAPS

(***************************************************************************)
(* The programs, as far as the proofs tell them apart.                     *)
(***************************************************************************)
MainOps ==
  {"create", "post", "strandPost", "wait", "start", "tryStart", "cancel", "dropWork", "stop",
   "enter", "join", "run", "poll"}
BodyOps == {"post", "dispatch", "strandDispatch", "wait", "throw"} \union Ends

\* main runs the io_service itself and has no handlers; threads never print
\* outside the strand; main joins a pool that ends on its own.
Alone == {"poll", "pollwork", "removework", "blocked", "unblocked"}
Stranding == {"strand", "strandwrap", "timer3"}
Joined == {"post", "dispatch", "strand", "nonstrand", "strandwrap", "cancelOperation"}

\* The handlers that program p gives to the io_service, and to the strand.
Posted(p) ==
  {h \in Handler :
     /\ p # "strand" /\ p \notin Alone
     /\ p = "timer3" => h = Wrap(Tick)
     /\ p = "strandwrap" => h.wrapped
     /\ p = "exception" => h.kind = "ThrowAnException" /\ ~h.wrapped
     /\ p = "dispatch" => h.kind \in {"Running", "Post"} /\ ~h.wrapped}
Stranded(p) ==
  {h \in Plain :
     /\ p \notin {"dispatch", "exception"} /\ p \notin Alone
     /\ p = "strand" => h.kind = "Print"
     /\ p = "timer3" => h.kind = "Print" \/ h = Tick}

\* The statements of its main, and of its handlers.
MainStmts(p) ==
  {s \in [do : MainOps, h : Handler] :
     /\ s.do \in {"post", "wait", "start", "tryStart"} => s.h \in Posted(p)
     /\ s.do = "strandPost" => s.h \in Stranded(p)
     /\ s.do = "create" => s.h.n \in Workers
     /\ s.do = "dropWork" => s.h.n = 0
     /\ p \in Alone => s.do \in {"run", "poll", "dropWork"}
     /\ p \notin Alone => s.do \notin {"run", "poll"}
     /\ p \in Joined => s.do \notin {"stop", "enter", "wait", "tryStart"}
     /\ p \in Joined /\ p # "cancelOperation" => s.do # "start"
     /\ p = "cancelOperation" => s.do \in {"start", "create", "cancel", "join"}
     /\ p = "exception" => s.do \in {"create", "post", "join"}
     /\ p \in {"strand", "timer3"} => s.do # "start" /\ (s.do = "strandPost" => s.h.kind = "Print")
     /\ p = "dispatch" => (s.do = "post" => s.h.kind = "Running" /\ s.h.n = 0) /\ (s.do = "create" => s.h.n = 1)}
BodyStmts(p) ==
  {s \in [do : BodyOps, h : Handler] :
     /\ s.do \in {"post", "wait"} => s.h \in Posted(p)
     /\ s.do \in {"strandDispatch", "unlock"} => s.h \in Stranded(p)
     /\ s.do = "return" => s.h \in Posted(p) \/ p = "dispatch"
     /\ s.do = "dispatch" => p = "dispatch" /\ s.h.kind = "Dispatch" /\ ~s.h.wrapped
     /\ p \in Joined => s.do \notin {"wait", "throw"}
     /\ p \in {"strand", "timer3"} => (s.do = "strandDispatch" => s.h = Tick)
     /\ p = "dispatch" => (s.do = "post" => s.h.kind = "Post")}

\* A main goes through its kinds of statements in this order, and numbers the
\* statements of one kind.
Rank ==
  [start |-> 0, create |-> 1, post |-> 2, strandPost |-> 2, wait |-> 3, tryStart |-> 3, dropWork |-> 4,
   enter |-> 5, cancel |-> 6, stop |-> 7, run |-> 8, poll |-> 8, join |-> 9]
Earlier(a, b) == Rank[a.do] < Rank[b.do] \/ (a.do = b.do /\ a.h.n < b.h.n)
Sorted(s) == \A i, j \in DOMAIN s : i < j => Earlier(s[i], s[j])

\* A worker is in run(), at the bottom of its calls; what it executes, it does in a call.
WorkerCode(p, c) ==
  c # <<>> =>
    /\ c[Len(c)] = Stmt("run", Call("none", 0))
    /\ \A i \in 1 .. Len(c) - 1 : c[i] \in BodyStmts(p)
    /\ Len(c) > 1 => c[Len(c) - 1].do \in Ends

(***************************************************************************)
(* The parts of the inductive invariant: Shape, StrandSerial, Staffed,     *)
(* Drained, Queued, Dispatching and Throwing.                              *)
(***************************************************************************)
Anything == [do : Statements, h : Handler]

\* What each part of the state may hold in each program.
CodeShape ==
  /\ code \in [Threads -> Seq(Anything)]
  /\ code[0] \in Seq(MainStmts(prog)) /\ Sorted(code[0])
  /\ \A w \in Workers : WorkerCode(prog, code[w])
Shape ==
  /\ CodeShape
  /\ prog \in DOMAIN Programs
  /\ queue \in Seq(Posted(prog)) /\ strandQ \in Seq(Stranded(prog)) /\ begun \in Seq(Plain)
  /\ pending \subseteq [h : Posted(prog), timed : BOOLEAN]
  /\ work \in BOOLEAN /\ stopped \in BOOLEAN /\ aborted \in BOOLEAN

\* main has still to execute a statement op.
Ahead(op) == \E i \in DOMAIN code[0] : code[0][i].do = op

\* The strand makes one call at a time.
HoldsStrand(t) == Inside(t, {"unlock"}) # {}
StrandSerial == \A t, u \in Workers : HoldsStrand(t) /\ HoldsStrand(u) => t = u

\* A worker that has not been created executes nothing; one that has leaves
\* run() only when the io_service has stopped.
Staffed ==
  /\ \A i \in DOMAIN code[0] : \E j \in DOMAIN P.main : P.main[j] = code[0][i]
  /\ \A w \in Workers \ Created : code[w] = <<>>
  /\ P.mode # "catch" /\ ~stopped => \A w \in Created : code[w] # <<>>

\* A pool that is joined: it stops only without work, and then main gives it no more.
Feeding == {"post", "strandPost", "start", "dropWork"}
Drained ==
  prog \in Joined =>
    /\ code[0] # <<>> => code[0][Len(code[0])].do = "join"
    /\ \E i \in DOMAIN P.main : P.main[i].do = "create" /\ P.main[i].h.n = 1
    /\ prog # "cancelOperation" /\ ~work => \A op \in Feeding : ~Ahead(op)
    /\ prog = "cancelOperation" /\ Ahead("start") => ~stopped /\ \A w \in Workers : code[w] = <<>>
    /\ stopped => OutOfWork /\ \A op \in Feeding : ~Ahead(op)
    /\ code[0] = <<>> => stopped

\* Handler a may begin before handler b.
MayPrecede(a, b) ==
  /\ a.kind = b.kind /\ a.kind \in {"Print", "ThrowAnException"} => a.n < b.n
  /\ ~(a.kind = "TimerHandler" /\ b.kind = "Print")

\* Handlers that have begun, those in a queue q and those that main has still
\* to give to it with op, in this order.
InLine(b, q, c, op) ==
  /\ \A i, j \in DOMAIN b : i < j => MayPrecede(b[i], b[j])
  /\ \A i, j \in DOMAIN q : i < j => MayPrecede(q[i], q[j])
  /\ \A i \in DOMAIN b, j \in DOMAIN q : MayPrecede(b[i], q[j])
  /\ \A i \in DOMAIN b, j \in DOMAIN c : c[j].do = op => MayPrecede(b[i], c[j].h)
  /\ \A i \in DOMAIN q, j \in DOMAIN c : c[j].do = op => MayPrecede(q[i], c[j].h)

\* The programs that post to a strand: main starts the timer after all posts,
\* so nothing comes of it before them.
Ticks(w) == \E i \in DOMAIN code[w] : code[w][i].do \in {"post", "wait", "strandDispatch"}
Ticking == queue # <<>> \/ pending # {} \/ \E w \in Workers : Ticks(w)
Queued ==
  prog \in {"strand", "timer3"} =>
    /\ InLine(begun, strandQ, code[0], "strandPost")
    /\ Ticking => ~Ahead("strandPost")

\* Running() dispatches before anything it posted can begin.
PostBegan == \E i \in DOMAIN begun : begun[i].kind = "Post"
PostWaits == \E i \in DOMAIN queue : queue[i].kind = "Post"
OnlyPosts == \A i \in DOMAIN queue : queue[i].kind = "Post"
DispatchesFirst == \A i, j \in DOMAIN begun : i < j => ~(begun[i].kind = "Post" /\ begun[j].kind = "Dispatch")
Dispatching ==
  prog = "dispatch" =>
    /\ pending = {} /\ \A w \in Workers : w # 1 => code[w] = <<>>
    /\ DispatchesFirst
    /\ PostBegan \/ PostWaits \/ Len(code[1]) > 1 => OnlyPosts /\ ~Ahead("post")
    /\ PostBegan => \A i \in DOMAIN code[1] : code[1][i].do # "dispatch"
    /\ queue # <<>> => ~Ahead("post")
    /\ queue # <<>> /\ queue[1].kind = "Running" => Len(queue) = 1

\* Every handler costs one thread.
InThrow(c) == Len(c) = 3 /\ c[1].do = "throw" /\ c[2].do = "return" /\ c[3].do = "run"
Throwing ==
  prog = "exception" =>
    /\ work /\ ~stopped /\ pending = {}
    /\ \A w \in Workers : Len(code[w]) > 1 => InThrow(code[w])
    /\ InLine(begun, queue, code[0], "post")
    /\ Len(begun) = Cardinality(Gone \union Executing)

(***************************************************************************)
(* The programs keep to their statements.                                  *)
(***************************************************************************)
\* A part of a main: statements of program p whose ranks are in lo .. hi.
Part(p, s, lo, hi) ==
  s \in Seq(MainStmts(p)) /\ Sorted(s) /\ \A i \in DOMAIN s : Rank[s[i].do] \in lo .. hi

LEMMA RankNat == \A op \in MainOps : Rank[op] \in 0 .. 9
BY DEF MainOps, Rank

\* Two parts, the second of higher rank, make one.
LEMMA PartConcat ==
  ASSUME NEW p, NEW a, NEW b, NEW lo \in Nat, NEW mid \in Nat, NEW above \in Nat, NEW hi \in Nat,
         Part(p, a, lo, mid), Part(p, b, above, hi), lo <= mid, mid < above, above <= hi
  PROVE  Part(p, a \o b, lo, hi)
<1> DEFINE S == MainStmts(p)
<1>1. a \in Seq(S) /\ b \in Seq(S) BY DEF Part
<1>2. \A s \in S : Rank[s.do] \in Nat BY RankNat DEF MainStmts
<1> DEFINE R(s) == Rank[s.do]
<1> HIDE DEF S
<1>3. /\ a \o b \in Seq(S) /\ DOMAIN (a \o b) = 1 .. Len(a) + Len(b)
      /\ DOMAIN a = 1 .. Len(a) /\ DOMAIN b = 1 .. Len(b) /\ Len(a) \in Nat /\ Len(b) \in Nat
      /\ \A i \in 1 .. Len(a) + Len(b) : (a \o b)[i] = IF i <= Len(a) THEN a[i] ELSE b[i - Len(a)]
  BY <1>1, ConcatProperties, LenProperties
<1>4. /\ \A i \in DOMAIN a : R(a[i]) \in lo .. mid
      /\ \A i \in DOMAIN b : R(b[i]) \in above .. hi
  BY DEF Part
<1>5. \A i \in DOMAIN (a \o b) : R((a \o b)[i]) \in lo .. hi
  <2> HIDE DEF R
  <2> QED BY <1>3, <1>4
<1>6. ASSUME NEW i \in DOMAIN (a \o b), NEW j \in DOMAIN (a \o b), i < j
      PROVE  Earlier((a \o b)[i], (a \o b)[j])
  <2>1. CASE j <= Len(a)
    <3>1. i \in DOMAIN a /\ j \in DOMAIN a BY <1>3, <1>6, <2>1
    <3> QED BY <1>3, <1>6, <2>1, <3>1 DEF Part, Sorted
  <2>2. CASE i <= Len(a) /\ ~(j <= Len(a))
    <3>1. i \in DOMAIN a /\ j - Len(a) \in DOMAIN b BY <1>3, <1>6, <2>2
    <3>2. R(a[i]) < R(b[j - Len(a)])
      <4> HIDE DEF R
      <4> QED BY <1>4, <3>1
    <3> QED BY <1>3, <2>2, <3>2 DEF Earlier
  <2>3. CASE ~(i <= Len(a))
    <3>1. i - Len(a) \in DOMAIN b /\ j - Len(a) \in DOMAIN b /\ i - Len(a) < j - Len(a) /\ ~(j <= Len(a))
      BY <1>3, <1>6, <2>3
    <3> QED BY <1>3, <2>3, <3>1 DEF Part, Sorted
  <2> QED BY <2>1, <2>2, <2>3
<1> QED BY <1>3, <1>5, <1>6 DEF Part, Sorted, S

\* One statement is a part.
LEMMA PartOne ==
  ASSUME NEW p, NEW s \in MainStmts(p)
  PROVE  Part(p, <<s>>, Rank[s.do], Rank[s.do])
<1>1. Rank[s.do] \in 0 .. 9 BY RankNat DEF MainStmts
<1> QED BY <1>1 DEF Part, Sorted

\* So are the rounds of a loop.
LEMMA PartLoop ==
  ASSUME NEW p, NEW op \in MainOps, NEW n \in Nat, NEW s,
         s = [i \in 1 .. n |-> s[i]],
         \A i \in 1 .. n : s[i] \in MainStmts(p) /\ s[i].do = op /\ s[i].h.n = i
  PROVE  Part(p, s, Rank[op], Rank[op])
<1>1. Rank[op] \in 0 .. 9 BY RankNat
<1>2. s \in Seq(MainStmts(p)) /\ DOMAIN s = 1 .. n
  <2> DEFINE S == MainStmts(p)
  <2>1. \A i \in 1 .. n : s[i] \in S OBVIOUS
  <2> HIDE DEF S
  <2>2. s \in [1 .. n -> S] BY <2>1
  <2> QED BY <2>2, SeqDef DEF S
<1>3. Sorted(s) BY <1>2 DEF Sorted, Earlier
<1> QED BY <1>1, <1>2, <1>3 DEF Part

LEMMA LoopBound ==
  ASSUME NEW n \in Nat
  PROVE  /\ AtMost(n, MaxPosts) \in Nat /\ AtMost(n, MaxPool) \in Nat
         /\ \A i \in 1 .. AtMost(n, MaxPool) : i \in Workers
BY WorkerPoolAssumption DEF AtMost, Workers

LEMMA PartEach ==
  ASSUME NEW p, NEW op \in MainOps, NEW kind, NEW n \in Nat,
         \A i \in Nat : Stmt(op, Call(kind, i)) \in MainStmts(p)
  PROVE  Part(p, Each(op, kind, n), Rank[op], Rank[op])
<1>1. AtMost(n, MaxPosts) \in Nat BY LoopBound
<1> QED BY <1>1, PartLoop DEF Each, Stmt, Call

LEMMA PartCreate ==
  ASSUME NEW p, NEW n \in Nat, \A i \in Workers : i <= n => Stmt("create", Call("WorkerThread", i)) \in MainStmts(p)
  PROVE  Part(p, CreateThreads(n), 1, 1)
<1>1. AtMost(n, MaxPool) \in Nat /\ \A i \in 1 .. AtMost(n, MaxPool) : i \in Workers BY LoopBound
<1>2. \A i \in 1 .. AtMost(n, MaxPool) : i <= n BY WorkerPoolAssumption DEF AtMost
<1>3. Part(p, CreateThreads(n), Rank["create"], Rank["create"])
  BY <1>1, <1>2, PartLoop DEF CreateThreads, Stmt, Call, MainOps
<1> QED BY <1>3 DEF Rank

LEMMA PartDo ==
  ASSUME NEW p, NEW op \in MainOps, Stmt(op, Call("none", 0)) \in MainStmts(p)
  PROVE  Part(p, Do(op), Rank[op], Rank[op])
BY PartOne DEF Do, Stmt

\* The calls the programs make.
LEMMA Calls ==
  /\ \A kind \in Kinds, n \in Nat :
       Call(kind, n) \in Plain /\ Call(kind, n) \in Handler /\ Wrap(Call(kind, n)) \in Handler
  /\ \A n \in Workers : n \in Nat
<1>1. \A kind \in Kinds, n \in Nat :
        Call(kind, n) \in Plain /\ Call(kind, n) \in Handler /\ Wrap(Call(kind, n)) \in Handler
  BY DEF Plain, Handler, Call, Wrap
<1>2. \A n \in Workers : n \in Nat BY WorkerPoolAssumption DEF Workers
<1> QED BY <1>1, <1>2

\* The statements that any main may contain, but those that run the io_service.
LEMMA PlainMain ==
  ASSUME NEW p \in DOMAIN Programs, p \notin Alone
  PROVE  /\ \A i \in Workers : p # "dispatch" \/ i = 1 => Stmt("create", Call("WorkerThread", i)) \in MainStmts(p)
         /\ Stmt("join", Call("none", 0)) \in MainStmts(p)
         /\ p \notin {"cancelOperation", "exception"} => Stmt("dropWork", Call("none", 0)) \in MainStmts(p)
         /\ p \notin Joined /\ p # "exception" =>
              /\ Stmt("enter", Call("none", 0)) \in MainStmts(p)
              /\ Stmt("stop", Call("none", 0)) \in MainStmts(p)
         /\ p # "exception" => Stmt("cancel", Call("none", 0)) \in MainStmts(p)
BY Calls DEF MainStmts, MainOps, Stmt, Joined, Call, Kinds

LEMMA PartWiden ==
  ASSUME NEW p, NEW s, NEW lo \in Nat, NEW hi \in Nat, NEW m \in Nat, NEW n \in Nat,
         Part(p, s, lo, hi), m <= lo, hi <= n
  PROVE  Part(p, s, m, n)
<1>1. \A i \in DOMAIN s : Rank[s[i].do] \in m .. n
  <2>1. TAKE i \in DOMAIN s
  <2> DEFINE r == Rank[s[i].do]
  <2>2. r \in lo .. hi BY DEF Part
  <2> HIDE DEF r
  <2>3. r \in m .. n BY <2>2
  <2> QED BY <2>3 DEF r
<1> QED BY <1>1 DEF Part

\* Threads are created first, and then there may be a loop.
LEMMA Beginning ==
  ASSUME NEW p \in DOMAIN Programs, p \notin Alone, NEW n \in Nat, p = "dispatch" => n = 1
  PROVE  /\ Part(p, CreateThreads(n), 1, 1)
         /\ \A b, k : Part(p, b, k, k) /\ k \in {2, 3} => Part(p, CreateThreads(n) \o b, 1, 3)
<1>1. \A i \in Workers : i <= n => Stmt("create", Call("WorkerThread", i)) \in MainStmts(p)
  <2>1. ASSUME NEW i \in Workers, i <= n PROVE p # "dispatch" \/ i = 1
    BY <2>1, WorkerPoolAssumption DEF Workers
  <2> QED BY <2>1, PlainMain
<1>2. Part(p, CreateThreads(n), 1, 1) BY <1>1, PartCreate
<1>3. ASSUME NEW b, NEW k, Part(p, b, k, k), k \in {2, 3} PROVE Part(p, CreateThreads(n) \o b, 1, 3)
  BY <1>2, <1>3, PartConcat, PartWiden
<1> QED BY <1>2, <1>3

\* The ways a main ends.
LEMMA Ending ==
  ASSUME NEW p \in DOMAIN Programs, p \notin Alone, NEW x, Part(p, x, 1, 3)
  PROVE  /\ Part(p, x \o Do("join"), 0, 9)
         /\ p \notin {"cancelOperation", "exception"} => Part(p, x \o Do("dropWork") \o Do("join"), 0, 9)
         /\ p \notin Joined /\ p # "exception" =>
              /\ Part(p, x \o Do("enter") \o Do("stop") \o Do("join"), 0, 9)
              /\ Part(p, x \o Do("enter") \o Do("cancel") \o Do("stop") \o Do("join"), 0, 9)
<1> DEFINE D(op) == Stmt(op, Call("none", 0)) \in MainStmts(p)
<1>1. \A op \in MainOps : D(op) => Part(p, Do(op), Rank[op], Rank[op]) BY PartDo
<1>2. /\ D("dropWork") => Part(p, Do("dropWork"), 4, 4)
      /\ D("enter") => Part(p, Do("enter"), 5, 5)
      /\ D("cancel") => Part(p, Do("cancel"), 6, 6)
      /\ D("stop") => Part(p, Do("stop"), 7, 7)
      /\ D("join") => Part(p, Do("join"), 9, 9)
  <2> HIDE DEF D
  <2> QED BY <1>1 DEF MainOps, Rank
<1>3. /\ D("join")
      /\ p \notin {"cancelOperation", "exception"} => D("dropWork")
      /\ p \notin Joined /\ p # "exception" => D("enter") /\ D("stop")
      /\ p # "exception" => D("cancel")
  BY PlainMain
<1>4. Part(p, x, 0, 3) BY PartWiden
<1> HIDE DEF D
<1> DEFINE C(a, mid, op, r) == Part(p, a, 0, mid) /\ Part(p, Do(op), r, r) => Part(p, a \o Do(op), 0, r)
<1>5. \A a, op : \A mid, r \in Nat : mid < r => C(a, mid, op, r) BY PartConcat
<1> HIDE DEF C
<1>6. ASSUME p \notin {"cancelOperation", "exception"}
      PROVE  Part(p, x \o Do("dropWork") \o Do("join"), 0, 9)
  <2>1. Part(p, x \o Do("dropWork"), 0, 4) BY <1>2, <1>3, <1>4, <1>5, <1>6 DEF C
  <2> QED BY <1>2, <1>3, <1>5, <2>1 DEF C
<1>7. ASSUME p \notin Joined, p # "exception"
      PROVE  /\ Part(p, x \o Do("enter") \o Do("stop") \o Do("join"), 0, 9)
             /\ Part(p, x \o Do("enter") \o Do("cancel") \o Do("stop") \o Do("join"), 0, 9)
  <2>1. Part(p, x \o Do("enter"), 0, 5) BY <1>2, <1>3, <1>4, <1>5, <1>7 DEF C
  <2>2. Part(p, x \o Do("enter") \o Do("stop"), 0, 7) BY <1>2, <1>3, <1>5, <1>7, <2>1 DEF C
  <2>3. Part(p, x \o Do("enter") \o Do("cancel"), 0, 6) BY <1>2, <1>3, <1>5, <1>7, <2>1 DEF C
  <2>4. Part(p, x \o Do("enter") \o Do("cancel") \o Do("stop"), 0, 7) BY <1>2, <1>3, <1>5, <1>7, <2>3 DEF C
  <2> QED BY <1>2, <1>3, <1>5, <2>2, <2>4 DEF C
<1>8. Part(p, x \o Do("join"), 0, 9) BY <1>2, <1>3, <1>4, <1>5 DEF C
<1> QED BY <1>6, <1>7, <1>8

\* The handlers that the programs post.
LEMMA Posts ==
  /\ \A p \in DOMAIN Programs, kind \in Kinds, n \in Nat :
       p \notin Alone \union {"strand", "timer3", "strandwrap", "exception", "dispatch"} =>
         Call(kind, n) \in Posted(p)
  /\ \A n \in Nat : Call("ThrowAnException", n) \in Posted("exception")
  /\ \A n \in Nat : Call("Running", n) \in Posted("dispatch") /\ Call("Post", n) \in Posted("dispatch")
  /\ Wrap(Tick) \in Posted("timer3")
  /\ \A n \in Nat : Wrap(Call("Print", n)) \in Posted("strandwrap")
  /\ \A n \in Nat : Call("Print", n) \in Stranded("strand") /\ Call("Print", n) \in Stranded("timer3")
  /\ Tick \in Stranded("timer3")
<1>1. \A kind \in Kinds, n \in Nat :
        Call(kind, n) \in Plain /\ Call(kind, n) \in Handler /\ Wrap(Call(kind, n)) \in Handler
  BY Calls
<1>2. \A kind, n : Call(kind, n).kind = kind /\ ~Call(kind, n).wrapped /\ Wrap(Call(kind, n)).wrapped
  BY DEF Call, Wrap
<1>3. {"ThrowAnException", "Running", "Post", "Print", "TimerHandler"} \subseteq Kinds BY DEF Kinds
<1> QED BY <1>1, <1>2, <1>3 DEF Posted, Stranded, Alone, Tick

\* The main of every program keeps to its statements, in order.
LEMMA Mains == \A p \in DOMAIN Programs : Part(p, Programs[p].main, 0, 9)
<1> DEFINE M(p) == Programs[p].main
<1>1. Part("post", M("post"), 0, 9)
  <2>1. \A i \in Nat : Stmt("post", Call("CalculateFactorial", i)) \in MainStmts("post")
    BY Posts, Calls DEF MainStmts, MainOps, Stmt, Joined, Alone, Programs, Kinds
  <2>2. Part("post", Each("post", "CalculateFactorial", 3), 2, 2) BY <2>1, PartEach DEF MainOps, Rank
  <2> QED BY <2>2, Beginning, Ending DEF Programs, PostProgram, Program, Alone, Joined
<1>2. Part("nonstrand", M("nonstrand"), 0, 9)
  <2>1. \A i \in Nat : Stmt("post", Call("Print", i)) \in MainStmts("nonstrand")
    BY Posts, Calls DEF MainStmts, MainOps, Stmt, Joined, Alone, Programs, Kinds
  <2>2. Part("nonstrand", Each("post", "Print", 5), 2, 2) BY <2>1, PartEach DEF MainOps, Rank
  <2> QED BY <2>2, Beginning, Ending DEF Programs, NonstrandProgram, Program, Alone, Joined
<1>3. Part("strand", M("strand"), 0, 9)
  <2>1. \A i \in Nat : Stmt("strandPost", Call("Print", i)) \in MainStmts("strand")
    BY Posts, Calls DEF Call, MainStmts, MainOps, Stmt, Joined, Alone, Programs, Kinds
  <2>2. Part("strand", Each("strandPost", "Print", 5), 2, 2) BY <2>1, PartEach DEF MainOps, Rank
  <2> QED BY <2>2, Beginning, Ending DEF Programs, StrandProgram, Program, Alone, Joined
<1>4. Part("exception", M("exception"), 0, 9)
  <2>1. \A i \in Nat : Stmt("post", Call("ThrowAnException", i)) \in MainStmts("exception")
    BY Posts, Calls DEF MainStmts, MainOps, Stmt, Joined, Alone, Programs, Kinds
  <2>2. Part("exception", Each("post", "ThrowAnException", 5), 2, 2) BY <2>1, PartEach DEF MainOps, Rank
  <2> QED BY <2>2, Beginning, Ending DEF Programs, ExceptionProgram, Program, Alone, Joined
<1>5. Part("exception2", M("exception2"), 0, 9)
  <2>1. \A i \in Nat : Stmt("post", Call("ThrowAnException", i)) \in MainStmts("exception2")
    BY Posts, Calls DEF MainStmts, MainOps, Stmt, Joined, Alone, Programs, Kinds
  <2>2. Part("exception2", Each("post", "ThrowAnException", 1), 2, 2) BY <2>1, PartEach DEF MainOps, Rank
  <2> QED BY <2>2, Beginning, Ending DEF Programs, Exception2Program, Program, Alone, Joined
<1>6. Part("errorcode", M("errorcode"), 0, 9)
  <2>1. \A i \in Nat : Stmt("post", Call("ThrowAnException", i)) \in MainStmts("errorcode")
    BY Posts, Calls DEF MainStmts, MainOps, Stmt, Joined, Alone, Programs, Kinds
  <2>2. Part("errorcode", Each("post", "ThrowAnException", 1), 2, 2) BY <2>1, PartEach DEF MainOps, Rank
  <2> QED BY <2>2, Beginning, Ending DEF Programs, ErrorcodeProgram, Program, Alone, Joined
<1>7. Part("errorcode2", M("errorcode2"), 0, 9)
  <2>1. \A i \in Nat : Stmt("post", Call("ThrowAnException", i)) \in MainStmts("errorcode2")
    BY Posts, Calls DEF MainStmts, MainOps, Stmt, Joined, Alone, Programs, Kinds
  <2>2. Part("errorcode2", Each("post", "ThrowAnException", 1), 2, 2) BY <2>1, PartEach DEF MainOps, Rank
  <2> QED BY <2>2, Beginning, Ending DEF Programs, Errorcode2Program, Program, Alone, Joined
<1>8. Part("multithreads", M("multithreads"), 0, 9)
  <2>0. Part("multithreads", CreateThreads(5), 1, 1) BY Beginning DEF Programs, Alone
  <2>1. Part("multithreads", CreateThreads(5), 1, 3) BY <2>0, PartWiden
  <2> QED BY <2>1, Ending DEF Programs, MultithreadsProgram, Program, Alone, Joined
<1>9. Part("mutexbind", M("mutexbind"), 0, 9)
  <2>0. Part("mutexbind", CreateThreads(5), 1, 1) BY Beginning DEF Programs, Alone
  <2>1. Part("mutexbind", CreateThreads(5), 1, 3) BY <2>0, PartWiden
  <2> QED BY <2>1, Ending DEF Programs, MutexbindProgram, Program, Alone, Joined
<1>10. Part("connectsync", M("connectsync"), 0, 9)
  <2>0. Part("connectsync", CreateThreads(2), 1, 1) BY Beginning DEF Programs, Alone
  <2>1. Part("connectsync", CreateThreads(2), 1, 3) BY <2>0, PartWiden
  <2> QED BY <2>1, Ending DEF Programs, ConnectsyncProgram, Program, Alone, Joined
<1>11. Part("dispatch", M("dispatch"), 0, 9)
  <2>1. Stmt("post", Call("Running", 0)) \in MainStmts("dispatch")
    BY Posts, Calls DEF Call, MainStmts, MainOps, Stmt, Joined, Alone, Programs, Kinds, Tick
  <2>2. Part("dispatch", <<Stmt("post", Call("Running", 0))>>, 2, 2) BY <2>1, PartOne DEF Stmt, Rank
  <2> QED BY <2>2, Beginning, Ending DEF Programs, DispatchProgram, Program, Alone, Joined
<1>12. Part("timer", M("timer"), 0, 9)
  <2>1. Stmt("wait", Tick) \in MainStmts("timer")
    BY Posts, Calls DEF MainStmts, MainOps, Stmt, Joined, Alone, Programs, Kinds, Tick
  <2>2. Part("timer", <<Stmt("wait", Tick)>>, 3, 3) BY <2>1, PartOne DEF Stmt, Rank
  <2> QED BY <2>2, Beginning, Ending DEF Programs, TimerProgram, Program, Alone, Joined
<1>13. Part("timer2", M("timer2"), 0, 9)
  <2>1. Stmt("wait", Tick) \in MainStmts("timer2")
    BY Posts, Calls DEF MainStmts, MainOps, Stmt, Joined, Alone, Programs, Kinds, Tick
  <2>2. Part("timer2", <<Stmt("wait", Tick)>>, 3, 3) BY <2>1, PartOne DEF Stmt, Rank
  <2> QED BY <2>2, Beginning, Ending DEF Programs, Timer2Program, Program, Alone, Joined
<1>14. Part("serverasync", M("serverasync"), 0, 9)
  <2>1. Stmt("tryStart", Call("OnAccept", 0)) \in MainStmts("serverasync")
    BY Posts, Calls DEF MainStmts, MainOps, Stmt, Joined, Alone, Programs, Kinds, Tick
  <2>2. Part("serverasync", <<Stmt("tryStart", Call("OnAccept", 0))>>, 3, 3) BY <2>1, PartOne DEF Stmt, Rank
  <2> QED BY <2>2, Beginning, Ending DEF Programs, ServerasyncProgram, Program, Alone, Joined
<1>15. Part("connectasync", M("connectasync"), 0, 9)
  <2>1. Stmt("tryStart", Call("OnConnect", 0)) \in MainStmts("connectasync")
    BY Posts, Calls DEF MainStmts, MainOps, Stmt, Joined, Alone, Programs, Kinds, Tick
  <2>2. Part("connectasync", <<Stmt("tryStart", Call("OnConnect", 0))>>, 3, 3) BY <2>1, PartOne DEF Stmt, Rank
  <2> QED BY <2>2, Beginning, Ending DEF Programs, ConnectasyncProgram, Program, Alone, Joined
<1>16. Part("strandwrap", M("strandwrap"), 0, 9)
  <2>1. ASSUME NEW i \in Nat PROVE Stmt("post", Wrap(Call("Print", i))) \in MainStmts("strandwrap")
    BY Posts, Calls DEF MainStmts, MainOps, Stmt, Joined, Alone, Programs, Kinds
  <2>2. AtMost(6, MaxPosts) \in Nat BY LoopBound
  <2> DEFINE n == AtMost(6, MaxPosts)
             s == PostWrapped("Print", 6)
  <2>a. \A i \in 1 .. n : s[i] = Stmt("post", Wrap(Call("Print", i))) BY DEF PostWrapped
  <2>b. \A i : Stmt("post", Wrap(Call("Print", i))).do = "post" /\ Stmt("post", Wrap(Call("Print", i))).h.n = i
    BY DEF Stmt, Wrap, Call
  <2>3. \A i \in 1 .. n : s[i] \in MainStmts("strandwrap") /\ s[i].do = "post" /\ s[i].h.n = i
    <3> HIDE DEF s, n
    <3> QED BY <2>1, <2>2, <2>a, <2>b DEF n
  <2>4. s = [i \in 1 .. n |-> s[i]] BY DEF PostWrapped
  <2> HIDE DEF s, n
  <2>5. Part("strandwrap", s, Rank["post"], Rank["post"]) BY <2>2, <2>3, <2>4, PartLoop DEF MainOps, n
  <2>6. Part("strandwrap", PostWrapped("Print", 6), 2, 2) BY <2>5 DEF Rank, s
  <2> QED BY <2>6, Beginning, Ending DEF Programs, StrandwrapProgram, Program, Alone
<1>17. Part("timer3", M("timer3"), 0, 9)
  <2>1. \A i \in Nat : Stmt("strandPost", Call("Print", i)) \in MainStmts("timer3")
    BY Posts, Calls DEF Call, MainStmts, MainOps, Stmt, Joined, Alone, Programs, Kinds
  <2>2. Part("timer3", Each("strandPost", "Print", 5), 2, 2) BY <2>1, PartEach DEF MainOps, Rank
  <2>3. Stmt("wait", Wrap(Tick)) \in MainStmts("timer3")
    BY Posts, Calls DEF MainStmts, MainOps, Stmt, Joined, Alone, Programs, Kinds, Tick, Posted
  <2>4. Part("timer3", <<Stmt("wait", Wrap(Tick))>>, 3, 3) BY <2>3, PartOne DEF Stmt, Rank
  <2>5. Part("timer3", CreateThreads(5), 1, 1) BY Beginning DEF Programs, Alone
  <2>6. Part("timer3", CreateThreads(5) \o Each("strandPost", "Print", 5), 1, 2) BY <2>2, <2>5, PartConcat
  <2>7. Part("timer3", CreateThreads(5) \o Each("strandPost", "Print", 5) \o <<Stmt("wait", Wrap(Tick))>>, 1, 3)
    BY <2>4, <2>6, PartConcat
  <2> QED BY <2>7, Ending DEF Programs, Timer3Program, Program, Alone, Joined
<1>18. Part("cancelOperation", M("cancelOperation"), 0, 9)
  <2> DEFINE p == "cancelOperation"
  <2>1. p \in DOMAIN Programs /\ p \notin Alone /\ p # "dispatch" BY DEF Programs, Alone
  <2>2. Stmt("start", Call("OnConnect", 0)) \in MainStmts(p)
    BY Posts, Calls DEF MainStmts, MainOps, Stmt, Joined, Alone, Programs, Kinds
  <2>3. Part(p, <<Stmt("start", Call("OnConnect", 0))>>, 0, 0) BY <2>2, PartOne DEF Stmt, Rank
  <2>4. Part(p, CreateThreads(1), 1, 1) BY <2>1, Beginning
  <2>5. Part(p, Do("cancel"), 6, 6) /\ Part(p, Do("join"), 9, 9)
    BY <2>1, PlainMain, PartDo DEF MainOps, Rank
  <2>6. Part(p, <<Stmt("start", Call("OnConnect", 0))>> \o CreateThreads(1), 0, 1) BY <2>3, <2>4, PartConcat
  <2>7. Part(p, <<Stmt("start", Call("OnConnect", 0))>> \o CreateThreads(1) \o Do("cancel"), 0, 6)
    BY <2>5, <2>6, PartConcat
  <2>8. Part(p, <<Stmt("start", Call("OnConnect", 0))>> \o CreateThreads(1) \o Do("cancel") \o Do("join"), 0, 9)
    BY <2>5, <2>7, PartConcat
  <2> QED BY <2>8 DEF Programs, CancelOperationProgram, Program
<1>19. Part("poll", M("poll"), 0, 9)
  <2>1. \A i \in Nat : Stmt("poll", Call("none", i)) \in MainStmts("poll")
    BY Calls DEF MainStmts, MainOps, Stmt, Joined, Alone, Kinds
  <2>2. Part("poll", Each("poll", "none", 5), 0, 9) BY <2>1, PartEach, PartWiden DEF MainOps, Rank
  <2> QED BY <2>2 DEF Programs, PollProgram, Program
<1>20. Part("pollwork", M("pollwork"), 0, 9)
  <2>1. \A i \in Nat : Stmt("poll", Call("none", i)) \in MainStmts("pollwork")
    BY Calls DEF MainStmts, MainOps, Stmt, Joined, Alone, Kinds
  <2>2. Part("pollwork", Each("poll", "none", 5), 0, 9) BY <2>1, PartEach, PartWiden DEF MainOps, Rank
  <2> QED BY <2>2 DEF Programs, PollworkProgram, Program
<1>21. Part("removework", M("removework"), 0, 9)
  <2>1. \A op \in {"run", "dropWork"} : Stmt(op, Call("none", 0)) \in MainStmts("removework")
    BY Calls DEF Call, MainStmts, MainOps, Stmt, Joined, Alone, Kinds
  <2>2. Part("removework", Do("dropWork"), 4, 4) /\ Part("removework", Do("run"), 8, 8) BY <2>1, PartDo DEF MainOps, Rank
  <2>3. Part("removework", Do("dropWork") \o Do("run"), 4, 8) BY <2>2, PartConcat
  <2>4. Part("removework", Do("dropWork") \o Do("run"), 0, 9) BY <2>3, PartWiden
  <2> QED BY <2>4 DEF Programs, RemoveworkProgram, Program
<1>22. Part("blocked", M("blocked"), 0, 9)
  <2>1. Stmt("run", Call("none", 0)) \in MainStmts("blocked")
    BY Calls DEF MainStmts, MainOps, Stmt, Joined, Alone, Kinds
  <2>2. Part("blocked", Do("run"), 8, 8) BY <2>1, PartDo DEF MainOps, Rank
  <2> QED BY <2>2, PartWiden DEF Programs, BlockedProgram, Program
<1>23. Part("unblocked", M("unblocked"), 0, 9)
  <2>1. Stmt("run", Call("none", 0)) \in MainStmts("unblocked")
    BY Calls DEF MainStmts, MainOps, Stmt, Joined, Alone, Kinds
  <2>2. Part("unblocked", Do("run"), 8, 8) BY <2>1, PartDo DEF MainOps, Rank
  <2> QED BY <2>2, PartWiden DEF Programs, UnblockedProgram, Program
<1> HIDE DEF M
<1>q. \A p \in DOMAIN Programs : Part(p, M(p), 0, 9)
  BY <1>1, <1>2, <1>3, <1>4, <1>5, <1>6, <1>7, <1>8, <1>9, <1>10, <1>11, <1>12, <1>13, <1>14, <1>15, <1>16, <1>17, <1>18, <1>19, <1>20, <1>21, <1>22, <1>23 DEF Programs
<1> QED BY <1>q DEF M

\* Who has a body, and what it is.
LEMMA BodyTable ==
  /\ \A p \in DOMAIN Programs \ {"dispatch", "exception", "exception2", "errorcode", "errorcode2", "timer2", "timer3"} :
       Programs[p].body = NoBody
  /\ DOMAIN Programs["dispatch"].body = {"Running"}
  /\ Programs["dispatch"].body["Running"] =
       [i \in 1 .. 2 * AtMost(5, MaxPosts) |->
          IF i % 2 = 1 THEN Stmt("dispatch", Call("Dispatch", i)) ELSE Stmt("post", Call("Post", i))]
  /\ Programs["exception"].body = [ThrowAnException |-> Do("throw")]
  /\ \A p \in {"exception2", "errorcode", "errorcode2"} : Programs[p].body = PostAgainAndThrow
  /\ Programs["timer2"].body = [TimerHandler |-> <<Stmt("wait", Tick)>>]
  /\ Programs["timer3"].body = [TimerHandler |-> <<Stmt("wait", Wrap(Tick))>>]
<1>1. \A p \in DOMAIN Programs \ {"dispatch", "exception", "exception2", "errorcode", "errorcode2", "timer2", "timer3"} :
        Programs[p].body = NoBody
  BY DEF Programs, Program, PostProgram, MultithreadsProgram, MutexbindProgram, PollProgram, PollworkProgram,
    RemoveworkProgram, BlockedProgram, UnblockedProgram, StrandProgram, NonstrandProgram, StrandwrapProgram,
    TimerProgram, ServerasyncProgram, ConnectasyncProgram, ConnectsyncProgram, CancelOperationProgram
<1>2. /\ DOMAIN Programs["dispatch"].body = {"Running"}
      /\ Programs["dispatch"].body["Running"] =
           [i \in 1 .. 2 * AtMost(5, MaxPosts) |->
              IF i % 2 = 1 THEN Stmt("dispatch", Call("Dispatch", i)) ELSE Stmt("post", Call("Post", i))]
  BY DEF Programs, Program, DispatchProgram
<1>3. Programs["exception"].body = [ThrowAnException |-> Do("throw")]
  BY DEF Programs, Program, ExceptionProgram
<1>4. \A p \in {"exception2", "errorcode", "errorcode2"} : Programs[p].body = PostAgainAndThrow
  BY DEF Programs, Program, Exception2Program, ErrorcodeProgram, Errorcode2Program
<1>5. /\ Programs["timer2"].body = [TimerHandler |-> <<Stmt("wait", Tick)>>]
      /\ Programs["timer3"].body = [TimerHandler |-> <<Stmt("wait", Wrap(Tick))>>]
  BY DEF Programs, Program, Timer2Program, Timer3Program
<1> QED BY <1>1, <1>2, <1>3, <1>4, <1>5

\* The handlers that a thread of program p may call.
Callable(p) ==
  Posted(p) \union Stranded(p) \union {h \in Plain : p = "dispatch" /\ h.kind = "Dispatch"}

\* What a handler executes itself.
OwnStmts(p) == {s \in BodyStmts(p) : s.do \notin Ends}

LEMMA Bodies ==
  ASSUME prog \in DOMAIN Programs, NEW h \in Callable(prog)
  PROVE  Body(h) \in Seq(OwnStmts(prog))
<1> USE DEF P
<1>1. CASE h.wrapped
  <2> DEFINE u == [h EXCEPT !.wrapped = FALSE]
  <2>1. h \in Posted(prog) /\ h \in Handler BY <1>1 DEF Callable, Stranded, Plain, Posted
  <2>2. u \in Plain /\ u \in Handler /\ u.kind = h.kind BY <2>1 DEF Handler, Plain
  <2>3. ASSUME prog = "timer3" PROVE u = Tick
    <3>1. h = Wrap(Tick) BY <2>1, <2>3 DEF Posted
    <3>2. h = [kind |-> "TimerHandler", n |-> 0, wrapped |-> TRUE] BY <3>1 DEF Wrap, Tick, Call
    <3>3. u.kind = "TimerHandler" /\ u.n = 0 /\ u.wrapped = FALSE BY <2>1, <3>2 DEF Handler
    <3>4. Tick \in Handler /\ Tick.kind = "TimerHandler" /\ Tick.n = 0 /\ Tick.wrapped = FALSE
      BY Calls DEF Tick, Call, Kinds
    <3>5. \A a, b \in Handler : a.kind = b.kind /\ a.n = b.n /\ a.wrapped = b.wrapped => a = b BY DEF Handler
    <3> HIDE DEF u
    <3> QED BY <2>2, <3>3, <3>4, <3>5
  <2>4. prog \notin {"dispatch", "exception", "strand"} BY <1>1, <2>1 DEF Posted
  <2>5. u \in Stranded(prog) BY <1>1, <2>1, <2>2, <2>3, <2>4 DEF Posted, Stranded
  <2>6. Stmt("strandDispatch", u) \in OwnStmts(prog) BY <2>2, <2>3, <2>4, <2>5 DEF OwnStmts, BodyStmts, Ends, BodyOps, Stmt
  <2>7. Body(h) = <<Stmt("strandDispatch", u)>> BY <1>1 DEF Body
  <2> HIDE DEF u
  <2> QED BY <2>6, <2>7
<1>2. CASE ~h.wrapped
  <2>1. CASE h.kind \notin DOMAIN P.body BY <1>2, <2>1, EmptySeq DEF Body
  <2>2. CASE h.kind \in DOMAIN P.body /\ P.body = NoBody 
    <3>1. h.kind = "none" /\ P.body[h.kind] = <<>> BY <2>2 DEF NoBody
    <3>2. Body(h) = <<>> BY <1>2, <2>2, <3>1 DEF Body
    <3> QED BY <3>2, EmptySeq
  <2>3. CASE h.kind \in DOMAIN P.body /\ prog = "dispatch"
    <3> DEFINE n == 2 * AtMost(5, MaxPosts)
    <3>1. n \in Nat BY LoopBound
    <3>2. Body(h) = [i \in 1 .. n |->
               IF i % 2 = 1 THEN Stmt("dispatch", Call("Dispatch", i)) ELSE Stmt("post", Call("Post", i))]
      BY <1>2, <2>3, BodyTable DEF Body
    <3>3. \A i \in Nat : /\ Stmt("dispatch", Call("Dispatch", i)) \in OwnStmts(prog)
                         /\ Stmt("post", Call("Post", i)) \in OwnStmts(prog)
      BY <2>3, Calls, Posts DEF OwnStmts, BodyStmts, Ends, BodyOps, Stmt, Call, Kinds, Joined
    <3> DEFINE S == OwnStmts(prog)
    <3> HIDE DEF n, S
    <3>4. Body(h) \in [1 .. n -> S] BY <3>1, <3>2, <3>3 DEF S
    <3>5. Body(h) \in Seq(S) BY <3>1, <3>4, SeqDef
    <3> QED BY <3>5 DEF S
  <2>4. CASE h.kind \in DOMAIN P.body /\ prog = "exception"
    <3>1. Body(h) = Do("throw") BY <1>2, <2>4, BodyTable DEF Body
    <3>2. Stmt("throw", Call("none", 0)) \in OwnStmts(prog)
      BY <2>4, Calls DEF OwnStmts, BodyStmts, Ends, BodyOps, Stmt, Kinds, Joined
    <3> QED BY <3>1, <3>2 DEF Do
  <2>5. CASE h.kind \in DOMAIN P.body /\ prog \in {"exception2", "errorcode", "errorcode2"}
    <3>1. Body(h) = <<Stmt("post", Call("ThrowAnException", 1))>> \o Do("throw")
      BY <1>2, <2>5, BodyTable DEF Body, PostAgainAndThrow
    <3>2. /\ Stmt("throw", Call("none", 0)) \in OwnStmts(prog)
          /\ Stmt("post", Call("ThrowAnException", 1)) \in OwnStmts(prog)
      BY <2>5, Calls, Posts DEF OwnStmts, BodyStmts, Ends, BodyOps, Stmt, Kinds, Joined, Alone
    <3> DEFINE S == OwnStmts(prog)
    <3>3. <<Stmt("throw", Call("none", 0))>> \in Seq(S) /\ <<Stmt("post", Call("ThrowAnException", 1))>> \in Seq(S)
      BY <3>2
    <3> HIDE DEF S
    <3> QED BY <3>1, <3>3, ConcatProperties DEF Do, S
  <2>6. CASE h.kind \in DOMAIN P.body /\ prog \in {"timer2", "timer3"}
    <3> DEFINE w == IF prog = "timer2" THEN Tick ELSE Wrap(Tick)
    <3>1. Body(h) = <<Stmt("wait", w)>> BY <1>2, <2>6, BodyTable DEF Body
    <3>2. w \in Handler /\ w \in Posted(prog) BY <2>6, Calls, Posts DEF Kinds, Tick, Alone, Posted
    <3>3. Stmt("wait", w) \in OwnStmts(prog)
      <4> HIDE DEF w
      <4> QED BY <2>6, <3>2 DEF OwnStmts, BodyStmts, Ends, BodyOps, Stmt, Joined
    <3> HIDE DEF w
    <3> QED BY <3>1, <3>3
  <2> QED BY <2>1, <2>2, <2>3, <2>4, <2>5, <2>6, BodyTable
<1> QED BY <1>1, <1>2

(***************************************************************************)
(* Lemmas about what the threads execute.                                  *)
(***************************************************************************)
LEMMA StmtSets ==
  ASSUME NEW p
  PROVE  /\ MainStmts(p) \subseteq Anything /\ BodyStmts(p) \subseteq Anything
         /\ Stmt("run", Call("none", 0)) \in Anything
         /\ \A s \in MainStmts(p) : s.do \in MainOps
         /\ \A s \in BodyStmts(p) : s.do \in BodyOps
<1>1. Stmt("run", Call("none", 0)) \in Anything BY Calls DEF Anything, Statements, Stmt, Kinds
<1> QED BY <1>1 DEF MainStmts, BodyStmts, Anything, MainOps, BodyOps, Statements, Ends

LEMMA ThreadSets ==
  /\ Threads = {0} \union Workers /\ 0 \notin Workers /\ 0 \in Threads /\ 1 \in Workers
  /\ \A w \in Workers : w \in Nat
BY WorkerPoolAssumption DEF Threads, Workers

\* What is left of a main is still in order.
LEMMA SortedTail ==
  ASSUME NEW S, NEW s \in Seq(S), s # <<>>, Sorted(s)
  PROVE  Tail(s) \in Seq(S) /\ Sorted(Tail(s))
<1>1. /\ Tail(s) \in Seq(S) /\ DOMAIN Tail(s) = 1 .. Len(s) - 1 /\ DOMAIN s = 1 .. Len(s) /\ Len(s) \in Nat
      /\ \A i \in 1 .. Len(s) - 1 : Tail(s)[i] = s[i + 1]
  BY HeadTailProperties, LenProperties
<1>2. ASSUME NEW i \in DOMAIN Tail(s), NEW j \in DOMAIN Tail(s), i < j PROVE Earlier(Tail(s)[i], Tail(s)[j])
  <2>1. i + 1 \in DOMAIN s /\ j + 1 \in DOMAIN s /\ i + 1 < j + 1 BY <1>1, <1>2
  <2>2. Earlier(s[i + 1], s[j + 1]) BY <2>1 DEF Sorted
  <2> QED BY <1>1, <1>2, <2>2
<1> QED BY <1>1, <1>2 DEF Sorted

\* A worker goes on; only a thread that leaves run() comes to its end.
LEMMA WorkerTail ==
  ASSUME NEW p, NEW c \in Seq(Anything), c # <<>>, WorkerCode(p, c)
  PROVE  /\ Tail(c) \in Seq(Anything) /\ WorkerCode(p, Tail(c))
         /\ c[1].do = "run" <=> Len(c) = 1
         /\ c[1].do = "run" <=> Tail(c) = <<>>
         /\ c[1].do # "run" => c[1] \in BodyStmts(p)
<1>1. /\ Tail(c) \in Seq(Anything) /\ Len(Tail(c)) = Len(c) - 1 /\ Len(c) \in Nat /\ Len(c) > 0
      /\ \A i \in 1 .. Len(c) - 1 : Tail(c)[i] = c[i + 1]
  BY HeadTailProperties, LenProperties, EmptySeq
<1> DEFINE r == Stmt("run", Call("none", 0))
           B == BodyStmts(p)
<1>2. /\ c[Len(c)] = r /\ \A i \in 1 .. Len(c) - 1 : c[i] \in B
      /\ Len(c) > 1 => c[Len(c) - 1].do \in Ends
  BY DEF WorkerCode
<1>3. r.do = "run" /\ \A s \in B : s.do # "run" BY StmtSets DEF BodyOps, Ends, Stmt
<1> HIDE DEF r, B
<1>4. c[1].do = "run" <=> Len(c) = 1 BY <1>1, <1>2, <1>3
<1>5. Tail(c) = <<>> <=> Len(c) = 1 BY <1>1
<1>6. c[1].do # "run" => c[1] \in B BY <1>1, <1>2, <1>4
<1>7. ASSUME Tail(c) # <<>>
      PROVE  /\ Tail(c)[Len(Tail(c))] = r /\ \A i \in 1 .. Len(Tail(c)) - 1 : Tail(c)[i] \in B
             /\ Len(Tail(c)) > 1 => Tail(c)[Len(Tail(c)) - 1].do \in Ends
  <2> DEFINE n == Len(c)
  <2>1. n \in Nat /\ n > 1 /\ Len(Tail(c)) = n - 1 BY <1>1, <1>5, <1>7
  <2>2. Tail(c)[n - 1] = c[n - 1 + 1] /\ (n > 2 => Tail(c)[n - 1 - 1] = c[n - 1 - 1 + 1]) BY <1>1, <2>1
  <2>3. \A i \in 1 .. n - 1 - 1 : Tail(c)[i] = c[i + 1] /\ i + 1 \in 1 .. n - 1 BY <1>1, <2>1
  <2>4. c[n] = r /\ (\A i \in 1 .. n - 1 : c[i] \in B) /\ (n > 1 => c[n - 1].do \in Ends) BY <1>2
  <2> HIDE DEF n
  <2>5. n - 1 + 1 = n /\ n - 1 - 1 + 1 = n - 1 BY <2>1
  <2> QED BY <2>1, <2>2, <2>3, <2>4, <2>5
<1>8. WorkerCode(p, Tail(c)) BY <1>7 DEF WorkerCode, r, B
<1> QED BY <1>1, <1>4, <1>5, <1>6, <1>8 DEF B

\* A worker in run() calls a handler.
LEMMA WorkerPush ==
  ASSUME NEW p, NEW c \in Seq(Anything), c # <<>>, WorkerCode(p, c), NEW f \in Seq(BodyStmts(p)),
         f # <<>>, f[Len(f)].do \in Ends
  PROVE  /\ f \o c \in Seq(Anything) /\ WorkerCode(p, f \o c) /\ f \o c # <<>>
         /\ Len(f \o c) = Len(f) + Len(c)
         /\ \A i \in 1 .. Len(f) : (f \o c)[i] = f[i]
         /\ \A i \in 1 .. Len(c) : (f \o c)[Len(f) + i] = c[i]
<1> DEFINE r == Stmt("run", Call("none", 0))
           B == BodyStmts(p)
<1>1. f \in Seq(Anything) BY StmtSets, SeqMonotonic
<1>2. /\ f \o c \in Seq(Anything) /\ Len(f \o c) = Len(f) + Len(c)
      /\ \A i \in 1 .. Len(f) + Len(c) : (f \o c)[i] = IF i <= Len(f) THEN f[i] ELSE c[i - Len(f)]
      /\ Len(f) \in Nat /\ Len(c) \in Nat /\ Len(c) > 0
  BY <1>1, ConcatProperties, LenProperties, EmptySeq
<1>3. \A i \in 1 .. Len(f) : f[i] \in B BY ElementOfSeq
<1>4. /\ c[Len(c)] = r /\ \A i \in 1 .. Len(c) - 1 : c[i] \in B
      /\ Len(c) > 1 => c[Len(c) - 1].do \in Ends
  BY DEF WorkerCode
<1> HIDE DEF r, B
<1>5. (f \o c)[Len(f) + Len(c)] = r /\ \A i \in 1 .. Len(f) + Len(c) - 1 : (f \o c)[i] \in B
  BY <1>2, <1>3, <1>4
<1>e. (f \o c)[Len(f) + Len(c) - 1].do \in Ends
  <2> DEFINE n == Len(f)
             m == Len(c)
  <2>1. n > 0 BY <1>2, EmptySeq
  <2>2. CASE m = 1 BY <1>2, <2>1, <2>2
  <2>3. CASE m > 1
    <3>1. n + m - 1 \in 1 .. n + m /\ ~(n + m - 1 <= n) /\ n + m - 1 - n = m - 1 BY <1>2, <2>3
    <3>2. (f \o c)[n + m - 1] = c[n + m - 1 - n] BY <1>2, <3>1
    <3> QED BY <1>4, <2>3, <3>1, <3>2
  <2> QED BY <1>2, <2>2, <2>3
<1>6. WorkerCode(p, f \o c) BY <1>2, <1>5, <1>e DEF WorkerCode, r, B
<1>7. f \o c # <<>> BY <1>2
<1>8. /\ \A i \in 1 .. Len(f) : (f \o c)[i] = f[i]
      /\ \A i \in 1 .. Len(c) : (f \o c)[Len(f) + i] = c[i]
  BY <1>2
<1> QED BY <1>2, <1>6, <1>7, <1>8

LEMMA WorkerRun ==
  ASSUME NEW p
  PROVE  Do("run") \in Seq(Anything) /\ WorkerCode(p, Do("run")) /\ WorkerCode(p, <<>>) /\ Do("run") # <<>>
         /\ Len(Do("run")) = 1 /\ Do("run")[1].do = "run"
<1>1. Do("run") \in Seq(Anything) BY StmtSets DEF Do
<1> QED BY <1>1 DEF Do, WorkerCode, Stmt

\* Who executes which statement.
LEMMA Actor ==
  ASSUME Shape, NEW t \in Threads, code[t] # <<>>
  PROVE  /\ code[t] \in Seq(Anything) /\ code[t][1] \in Anything /\ Arg(t) \in Handler
         /\ Len(code[t]) \in Nat /\ Len(code[t]) > 0 /\ DOMAIN code[t] = 1 .. Len(code[t])
         /\ t = 0 => code[t][1] \in MainStmts(prog)
         /\ t \in Workers /\ code[t][1].do # "run" => code[t][1] \in BodyStmts(prog)
         /\ t \in Workers => \A op : At(t, op) => op \in BodyOps \union {"run"}
<1>1. code[t] \in Seq(Anything) BY DEF Shape, CodeShape
<1>2. Len(code[t]) \in Nat /\ Len(code[t]) > 0 /\ DOMAIN code[t] = 1 .. Len(code[t])
  BY <1>1, LenProperties, EmptySeq
<1>3. code[t][1] \in Anything BY <1>1, <1>2, ElementOfSeq
<1>4. Arg(t) \in Handler BY <1>3 DEF Arg, Anything
<1>5. ASSUME t = 0 PROVE code[t][1] \in MainStmts(prog)
  <2>1. code[0] \in Seq(MainStmts(prog)) BY DEF Shape, CodeShape
  <2> QED BY <1>2, <1>5, <2>1, ElementOfSeq
<1>6. ASSUME t \in Workers, code[t][1].do # "run" PROVE code[t][1] \in BodyStmts(prog)
  BY <1>1, <1>6, WorkerTail DEF Shape, CodeShape
<1>7. ASSUME t \in Workers, NEW op, At(t, op) PROVE op \in BodyOps \union {"run"}
  BY <1>6, <1>7, StmtSets DEF At
<1> QED BY <1>1, <1>2, <1>3, <1>4, <1>5, <1>6, <1>7

\* One thread's code changes.
LEMMA CodeUpdate ==
  ASSUME Shape, prog' = prog, NEW t \in Threads, NEW c, code' = [code EXCEPT ![t] = c],
         t = 0 => c \in Seq(MainStmts(prog)) /\ Sorted(c),
         t \in Workers => c \in Seq(Anything) /\ WorkerCode(prog, c)
  PROVE  CodeShape' /\ code'[t] = c /\ \A u \in Threads : u # t => code'[u] = code[u]
<1>1. code \in [Threads -> Seq(Anything)] BY DEF Shape, CodeShape
<1>2. c \in Seq(Anything) BY ThreadSets, StmtSets, SeqMonotonic
<1>3. code' \in [Threads -> Seq(Anything)] /\ code'[t] = c /\ \A u \in Threads : u # t => code'[u] = code[u]
  BY <1>1, <1>2
<1>4. code'[0] \in Seq(MainStmts(prog)) /\ Sorted(code'[0])
  BY <1>3, ThreadSets DEF Shape, CodeShape
<1>5. \A w \in Workers : WorkerCode(prog, code'[w]) BY <1>3, ThreadSets DEF Shape, CodeShape
<1> QED BY <1>3, <1>4, <1>5 DEF CodeShape

\* It goes on to the next statement.
LEMMA Continuing ==
  ASSUME Shape, prog' = prog, NEW t \in Threads, code[t] # <<>>, Continue(t)
  PROVE  /\ CodeShape' /\ code'[t] = Tail(code[t]) /\ \A u \in Threads : u # t => code'[u] = code[u]
         /\ Len(code'[t]) = Len(code[t]) - 1
         /\ \A i \in 1 .. Len(code[t]) - 1 : code'[t][i] = code[t][i + 1]
<1> DEFINE c == Tail(code[t])
<1>1. code' = [code EXCEPT ![t] = c] BY DEF Continue
<1>2. t = 0 => c \in Seq(MainStmts(prog)) /\ Sorted(c) BY SortedTail DEF Shape, CodeShape
<1>3. code[t] \in Seq(Anything) BY Actor
<1>4. t \in Workers => c \in Seq(Anything) /\ WorkerCode(prog, c) BY <1>3, WorkerTail DEF Shape, CodeShape
<1>5. Len(c) = Len(code[t]) - 1 /\ \A i \in 1 .. Len(code[t]) - 1 : c[i] = code[t][i + 1]
  BY <1>3, HeadTailProperties
<1> HIDE DEF c
<1>6. CodeShape' /\ code'[t] = c /\ \A u \in Threads : u # t => code'[u] = code[u]
  BY <1>1, <1>2, <1>4, CodeUpdate
<1> QED BY <1>5, <1>6 DEF c

\* A worker makes a call: the body of h, the end ret of the call, and what it had
\* to execute before.
Pushes(w, h, ret, c) ==
  /\ \A u \in Threads : u # w => code'[u] = code[u]
  /\ Body(h) \in Seq(OwnStmts(prog)) /\ Len(Body(h)) \in Nat
  /\ Len(code'[w]) = Len(Body(h)) + 1 + Len(c)
  /\ \A i \in 1 .. Len(Body(h)) : code'[w][i] = Body(h)[i]
  /\ code'[w][Len(Body(h)) + 1] = ret
  /\ \A i \in 1 .. Len(c) : code'[w][Len(Body(h)) + 1 + i] = c[i]

LEMMA Calling ==
  ASSUME Shape, prog' = prog, NEW w \in Workers, NEW c \in Seq(Anything), c # <<>>, WorkerCode(prog, c),
         NEW h \in Callable(prog), NEW ret \in BodyStmts(prog), ret.do \in Ends,
         code' = [code EXCEPT ![w] = Body(h) \o <<ret>> \o c]
  PROVE  CodeShape' /\ Pushes(w, h, ret, c)
<1> DEFINE B == BodyStmts(prog)
           b == Body(h)
           r == <<ret>>
           f == b \o r
           x == f \o c
<1>0. Body(h) \in Seq(OwnStmts(prog)) BY Bodies DEF Shape
<1>1. Body(h) \in Seq(B)
  <2>1. OwnStmts(prog) \subseteq B BY DEF OwnStmts
  <2> QED BY <1>0, <2>1, SeqMonotonic
<1>2. <<ret>> \in Seq(B) /\ Len(<<ret>>) = 1 /\ <<ret>>[1] = ret OBVIOUS
<1>3. /\ f \in Seq(B) /\ Len(f) = Len(b) + 1 /\ Len(b) \in Nat
      /\ \A i \in 1 .. Len(b) : f[i] = b[i]
      /\ f[Len(b) + 1] = ret
  <2>1. b \in Seq(B) /\ r \in Seq(B) /\ Len(r) = 1 /\ r[1] = ret BY <1>1, <1>2
  <2> HIDE DEF b, r, B
  <2>2. /\ f \in Seq(B) /\ Len(f) = Len(b) + Len(r) /\ Len(b) \in Nat
        /\ \A i \in 1 .. Len(b) + Len(r) : f[i] = IF i <= Len(b) THEN b[i] ELSE r[i - Len(b)]
    BY <2>1, ConcatProperties, LenProperties
  <2> HIDE DEF f
  <2>3. f[Len(b) + 1] = r[Len(b) + 1 - Len(b)] BY <2>1, <2>2
  <2>4. Len(b) + 1 - Len(b) = 1 BY <2>2
  <2> QED BY <2>1, <2>2, <2>3, <2>4
<1> HIDE DEF f, b, r
<1>4. /\ x \in Seq(Anything) /\ WorkerCode(prog, x)
      /\ Len(x) = Len(f) + Len(c)
      /\ \A i \in 1 .. Len(f) : x[i] = f[i]
      /\ \A i \in 1 .. Len(c) : x[Len(f) + i] = c[i]
  <2>1. f \in Seq(BodyStmts(prog)) /\ f # <<>> /\ f[Len(f)].do \in Ends BY <1>3
  <2> HIDE DEF B
  <2> QED BY <2>1, WorkerPush
<1>5. w \in Threads /\ w # 0 /\ code' = [code EXCEPT ![w] = x] BY ThreadSets DEF f, b, r
<1> HIDE DEF x, B
<1>6. CodeShape' /\ code'[w] = x /\ \A u \in Threads : u # w => code'[u] = code[u]
  BY <1>4, <1>5, CodeUpdate
<1>7. Len(c) \in Nat BY LenProperties
<1>8. /\ Len(x) = Len(b) + 1 + Len(c)
      /\ \A i \in 1 .. Len(b) : x[i] = b[i]
      /\ x[Len(b) + 1] = ret
      /\ \A i \in 1 .. Len(c) : x[Len(b) + 1 + i] = c[i]
  BY <1>3, <1>4, <1>7
<1> QED BY <1>0, <1>3, <1>6, <1>8 DEF b, Pushes

\* The thread that takes a handler is a worker, outside any call.
LEMMA Serving ==
  ASSUME Shape, NEW t \in Threads, Serves(t), queue # <<>> \/ strandQ # <<>>
  PROVE  t \in Workers /\ code[t] # <<>> /\ code[t] \in Seq(Anything) /\ WorkerCode(prog, code[t])
         /\ Len(code[t]) = 1 /\ code[t][1].do = "run"
<1>1. code[t] # <<>> BY DEF Serves, At
<1>2. ASSUME t = 0 PROVE FALSE
  <2>1. prog \in Alone BY <1>1, <1>2, Actor DEF Serves, At, MainStmts
  <2>2. Posted(prog) = {} /\ Stranded(prog) = {} BY <2>1 DEF Posted, Stranded
  <2>3. queue \in Seq({}) /\ strandQ \in Seq({}) BY <2>2 DEF Shape
  <2>4. queue = <<>> /\ strandQ = <<>>
    <3>1. ASSUME NEW q \in Seq({}), q # <<>> PROVE FALSE
      BY <3>1, HeadTailProperties
    <3> QED BY <2>3, <3>1
  <2> QED BY <2>4
<1>3. t \in Workers BY <1>2, ThreadSets
<1>4. code[t] \in Seq(Anything) /\ WorkerCode(prog, code[t]) BY <1>3 DEF Shape, CodeShape
<1>5. code[t][1].do = "run" BY <1>1, <1>3, Actor DEF Serves, At, BodyOps, Ends
<1> QED BY <1>1, <1>3, <1>4, <1>5, WorkerTail

LEMMA BeginPlain ==
  ASSUME Shape, NEW h \in Handler, Begin(h)
  PROVE  begun' \in Seq(Plain) /\ (begun' = begun \/ (begun' = Append(begun, h) /\ h \in Plain))
<1>1. begun \in Seq(Plain) BY DEF Shape
<1>2. CASE begun' = begun BY <1>1, <1>2
<1>3. CASE begun' # begun
  <2>1. begun' = Append(begun, h) /\ ~h.wrapped BY <1>3 DEF Begin
  <2>2. h \in Plain BY <2>1 DEF Plain, Handler
  <2> QED BY <1>1, <2>1, <2>2, AppendProperties
<1> QED BY <1>2, <1>3

LEMMA PostedHandlers ==
  ASSUME NEW p
  PROVE  Posted(p) \subseteq Handler /\ Stranded(p) \subseteq Plain /\ Plain \subseteq Handler
         /\ Callable(p) \subseteq Handler
BY DEF Posted, Stranded, Plain, Handler, Callable

(***************************************************************************)
(* Every action keeps the shape of the state, and what it does to the code *)
(* and the queues.                                                         *)
(***************************************************************************)
LEMMA CreateShape ==
  ASSUME Shape, prog' = prog, NEW t \in Threads, CreateThread(t)
  PROVE  /\ Shape' /\ t = 0 /\ code[0] # <<>> /\ code[0][1].do = "create" /\ Arg(0).n \in Workers
         /\ code'[0] = Tail(code[0]) /\ code'[Arg(0).n] = Do("run")
         /\ \A w \in Workers : w # Arg(0).n => code'[w] = code[w]
<1>1. code[t] # <<>> /\ code[t][1].do = "create" BY DEF CreateThread, At
<1>2. t = 0 BY <1>1, Actor, ThreadSets DEF At, BodyOps, Ends
<1>3. Arg(0).n \in Workers BY <1>1, <1>2, Actor DEF MainStmts, Arg
<1> DEFINE w == Arg(0).n
           r == Do("run")
<1>4. code' = [code EXCEPT ![0] = Tail(@), ![w] = r] BY <1>2 DEF CreateThread
<1>5. code \in [Threads -> Seq(Anything)] /\ w \in Threads /\ w # 0
  BY <1>3, ThreadSets DEF Shape, CodeShape
<1>6. r \in Seq(Anything) /\ WorkerCode(prog, r) BY WorkerRun
<1>7. Tail(code[0]) \in Seq(MainStmts(prog)) /\ Sorted(Tail(code[0]))
  BY <1>1, <1>2, SortedTail DEF Shape, CodeShape
<1>8. Tail(code[0]) \in Seq(Anything) BY <1>7, StmtSets, SeqMonotonic
<1> HIDE DEF w, r
<1>9. /\ code' \in [Threads -> Seq(Anything)] /\ code'[0] = Tail(code[0]) /\ code'[w] = r
      /\ \A u \in Workers : u # w => code'[u] = code[u]
  BY <1>4, <1>5, <1>6, <1>8, ThreadSets
<1>10. CodeShape' BY <1>3, <1>6, <1>7, <1>9 DEF Shape, CodeShape, w
<1>11. Shape' BY <1>10 DEF Shape, CreateThread, services
<1> QED BY <1>1, <1>2, <1>3, <1>9, <1>11 DEF w, r

\* Statements that only go on: the ones that leave the queues alone.
LEMMA PlainShape ==
  ASSUME Shape, prog' = prog, NEW t \in Threads, DropWork(t) \/ Stop(t) \/ Enter(t) \/ JoinAll(t) \/ Return(t) \/ Leave(t)
  PROVE  /\ Shape' /\ code[t] # <<>> /\ Continue(t) /\ UNCHANGED <<queue, strandQ, pending, begun>>
         /\ code[t][1].do # "create" /\ (code[t][1].do = "run" => stopped')
<1>1. code[t] # <<>> /\ Continue(t) BY DEF DropWork, Stop, Enter, JoinAll, Return, Leave, At
<1>2. CodeShape' BY <1>1, Continuing
<1>3. UNCHANGED <<queue, strandQ, pending, aborted, begun>>
  BY DEF DropWork, Stop, Enter, JoinAll, Return, Leave, services
<1>4. work' \in BOOLEAN BY DEF Shape, DropWork, Stop, Enter, JoinAll, Return, Leave, services
<1>5. stopped' \in BOOLEAN BY DEF Shape, DropWork, Stop, Enter, JoinAll, Return, Leave, services, OutOfWork
<1>6. code[t][1].do # "create" BY DEF DropWork, Stop, Enter, JoinAll, Return, Leave, At
<1>7. code[t][1].do = "run" => stopped' BY DEF DropWork, Stop, Enter, JoinAll, Return, Leave, At
<1> QED BY <1>1, <1>2, <1>3, <1>4, <1>5, <1>6, <1>7 DEF Shape

\* What a statement that posts carries.
LEMMA Carried ==
  ASSUME Shape, NEW t \in Threads, code[t] # <<>>
  PROVE  /\ code[t][1].do \in {"post", "wait", "start", "tryStart"} => Arg(t) \in Posted(prog)
         /\ code[t][1].do \in {"strandPost", "strandDispatch"} => Arg(t) \in Stranded(prog)
         /\ code[t][1].do \in {"strandDispatch", "dispatch", "throw", "return", "unlock"} =>
              t \in Workers /\ code[t][1] \in BodyStmts(prog) /\ Len(code[t]) > 1
         /\ code[t][1].do \in {"strandPost", "start", "tryStart", "cancel"} => t = 0 /\ code[0][1] \in MainStmts(prog)
<1>1. CASE t = 0
  <2>1. code[t][1] \in MainStmts(prog) /\ Arg(t) = code[t][1].h BY <1>1, Actor DEF Arg
  <2> QED BY <1>1, <2>1 DEF MainStmts, MainOps
<1>2. CASE t \in Workers
  <2>1. Arg(t) = code[t][1].h BY DEF Arg
  <2>2. CASE code[t][1].do = "run" BY <2>2
  <2>3. CASE code[t][1].do # "run"
    <3>1. code[t][1] \in BodyStmts(prog) BY <1>2, <2>3, Actor
    <3>2. code[t] \in Seq(Anything) /\ WorkerCode(prog, code[t]) /\ Len(code[t]) \in Nat /\ Len(code[t]) > 0
      BY <1>2, Actor DEF Shape, CodeShape
    <3>3. Len(code[t]) # 1 BY <2>3, <3>2, WorkerTail
    <3> DEFINE n == Len(code[t])
    <3>4. n > 1
      <4>1. n \in Nat /\ n > 0 /\ n # 1 BY <3>2, <3>3
      <4> HIDE DEF n
      <4> QED BY <4>1
    <3>5. code[t][1].do \notin {"strandPost", "start", "tryStart", "cancel"}
      BY <3>1, StmtSets DEF BodyOps, Ends
    <3>6. /\ code[t][1].do \in {"post", "wait"} => code[t][1].h \in Posted(prog)
          /\ code[t][1].do = "strandDispatch" => code[t][1].h \in Stranded(prog)
      BY <3>1 DEF BodyStmts
    <3> QED BY <1>2, <2>1, <3>1, <3>4, <3>5, <3>6
  <2> QED BY <2>2, <2>3
<1> QED BY <1>1, <1>2, ThreadSets

LEMMA PostShape ==
  ASSUME Shape, prog' = prog, NEW t \in Threads, Post(t)
  PROVE  Shape' /\ code[t] # <<>> /\ code[t][1].do = "post" /\ Continue(t) /\ Arg(t) \in Posted(prog)
<1>1. code[t] # <<>> /\ code[t][1].do = "post" /\ Continue(t) BY DEF Post, At
<1>2. CodeShape' /\ Arg(t) \in Posted(prog) BY <1>1, Continuing, Carried
<1>3. queue' \in Seq(Posted(prog)) BY <1>2, AppendProperties DEF Post, Shape
<1> QED BY <1>1, <1>2, <1>3 DEF Shape, Post

LEMMA StrandPostShape ==
  ASSUME Shape, prog' = prog, NEW t \in Threads, StrandPost(t)
  PROVE  /\ Shape' /\ t = 0 /\ code[0] # <<>> /\ code[0][1].do = "strandPost" /\ Continue(0)
         /\ Arg(0) \in Stranded(prog)
<1>1. code[t] # <<>> /\ code[t][1].do = "strandPost" /\ Continue(t) BY DEF StrandPost, At
<1>2. CodeShape' /\ Arg(t) \in Stranded(prog) /\ t = 0 BY <1>1, Continuing, Carried
<1>3. strandQ' \in Seq(Stranded(prog)) BY <1>2, AppendProperties DEF StrandPost, Shape
<1> QED BY <1>1, <1>2, <1>3 DEF Shape, StrandPost

LEMMA StartShape ==
  ASSUME Shape, prog' = prog, NEW t \in Threads, Start(t)
  PROVE  /\ Shape' /\ code[t] # <<>> /\ code[t][1].do \in {"wait", "start", "tryStart"} /\ Continue(t)
         /\ code[t][1].do # "wait" => t = 0
<1>1. code[t] # <<>> /\ code[t][1].do \in {"wait", "start", "tryStart"} /\ Continue(t) BY DEF Start, At
<1>2. CodeShape' /\ Arg(t) \in Posted(prog) /\ (code[t][1].do # "wait" => t = 0) BY <1>1, Continuing, Carried
<1> DEFINE H == Posted(prog)
           a == Arg(t)
<1>3. pending' \subseteq [h : H, timed : BOOLEAN]
  <2>1. pending \subseteq [h : H, timed : BOOLEAN] /\ a \in H BY <1>2 DEF Shape
  <2>2. pending' = pending \/ pending' = pending \union {[h |-> a, timed |-> TRUE]}
          \/ pending' = pending \union {[h |-> a, timed |-> FALSE]}
    BY DEF Start
  <2>3. [h |-> a, timed |-> TRUE] \in [h : H, timed : BOOLEAN] /\ [h |-> a, timed |-> FALSE] \in [h : H, timed : BOOLEAN]
    BY <2>1
  <2> QED BY <2>1, <2>2, <2>3, Zenon
<1> QED BY <1>1, <1>2, <1>3 DEF Shape, Start

LEMMA CancelShape ==
  ASSUME Shape, prog' = prog, NEW t \in Threads, Cancel(t)
  PROVE  Shape' /\ t = 0 /\ code[0] # <<>> /\ code[0][1].do = "cancel" /\ Continue(0)
<1>1. code[t] # <<>> /\ code[t][1].do = "cancel" /\ Continue(t) BY DEF Cancel, At
<1>2. CodeShape' /\ t = 0 BY <1>1, Continuing, Carried
<1>3. pending' \subseteq [h : Posted(prog), timed : BOOLEAN] BY DEF Cancel, Shape
<1>4. queue' \in Seq(Posted(prog))
  <2>1. \A w \in pending : w.h \in Posted(prog) BY DEF Shape
  <2>2. CASE \E w \in pending : queue' = Append(queue, w.h)
    BY <2>1, <2>2, AppendProperties DEF Shape
  <2>3. CASE queue' = queue BY <2>3 DEF Shape
  <2> QED BY <2>2, <2>3 DEF Cancel
<1> QED BY <1>1, <1>2, <1>3, <1>4 DEF Shape, Cancel

LEMMA CompleteShape ==
  ASSUME Shape, prog' = prog, Expire \/ PeerAnswers
  PROVE  Shape' /\ code' = code /\ pending # {}
<1>1. PICK w \in pending : Complete(w) BY DEF Expire, PeerAnswers
<1>2. w.h \in Posted(prog) BY DEF Shape
<1>3. queue' \in Seq(Posted(prog)) BY <1>1, <1>2, AppendProperties DEF Shape, Complete
<1>4. CodeShape' BY <1>1 DEF Shape, CodeShape, Complete
<1> QED BY <1>1, <1>3, <1>4 DEF Shape, Complete

LEMMA DispatchShape ==
  ASSUME Shape, prog' = prog, NEW t \in Threads, Dispatch(t)
  PROVE  /\ Shape' /\ t \in Workers /\ prog = "dispatch" /\ Arg(t).kind = "Dispatch" /\ Begin(Arg(t))
         /\ Arg(t) \in Handler /\ Arg(t) \in Callable(prog) /\ Pushes(t, Arg(t), Stmt("return", Arg(t)), Tail(code[t]))
         /\ code[t] \in Seq(Anything)
         /\ code[t] # <<>> /\ code[t][1].do = "dispatch" /\ Len(code[t]) > 1 /\ Len(code'[t]) > 1
         /\ \A u \in Threads : u # t => code'[u] = code[u]
         /\ UNCHANGED <<queue, strandQ, work, stopped, pending, aborted>>
<1>1. code[t] # <<>> /\ code[t][1].do = "dispatch" BY DEF Dispatch, At
<1>2. /\ t \in Workers /\ code[t][1] \in BodyStmts(prog) /\ Len(code[t]) > 1
      /\ code[t] \in Seq(Anything) /\ Len(code[t]) \in Nat /\ Arg(t) \in Handler
  BY <1>1, Carried, Actor
<1>3. prog = "dispatch" /\ Arg(t).kind = "Dispatch" /\ ~Arg(t).wrapped BY <1>1, <1>2 DEF BodyStmts, Arg
<1>4. Arg(t) \in Callable(prog) BY <1>2, <1>3 DEF Callable, Plain, Handler
<1> DEFINE c == Tail(code[t])
           ret == Stmt("return", Arg(t))
<1>5. c \in Seq(Anything) /\ WorkerCode(prog, c) /\ c # <<>>
  BY <1>1, <1>2, WorkerTail DEF Shape, CodeShape
<1>6. ret \in BodyStmts(prog) /\ ret.do \in Ends BY <1>2, <1>3 DEF BodyStmts, BodyOps, Stmt, Ends
<1>7. code' = [code EXCEPT ![t] = Body(Arg(t)) \o <<ret>> \o c] BY DEF Dispatch
<1>8. Begin(Arg(t)) /\ UNCHANGED <<queue, strandQ, work, stopped, pending, aborted>> BY DEF Dispatch, services
<1>9. begun' \in Seq(Plain) BY <1>2, <1>8, BeginPlain
<1> HIDE DEF c, ret
<1>10. /\ CodeShape' /\ \A u \in Threads : u # t => code'[u] = code[u]
       /\ Len(code'[t]) = Len(Body(Arg(t))) + 1 + Len(c) /\ Len(Body(Arg(t))) \in Nat
  BY <1>2, <1>4, <1>5, <1>6, <1>7, Calling DEF Pushes
<1>11. Len(c) \in Nat /\ Len(c) > 0 BY <1>5, EmptySeq, LenProperties
<1>12. Shape' BY <1>8, <1>9, <1>10 DEF Shape
<1>13. Pushes(t, Arg(t), ret, c) BY <1>2, <1>4, <1>5, <1>6, <1>7, Calling
<1>14. Pushes(t, Arg(t), Stmt("return", Arg(t)), Tail(code[t])) BY <1>13 DEF c, ret
<1>15. Len(code'[t]) > 1
  <2> DEFINE n == Len(Body(Arg(t)))
             m == Len(c)
  <2>1. Len(code'[t]) = n + 1 + m /\ n \in Nat /\ m \in Nat /\ m > 0 BY <1>10, <1>11
  <2> HIDE DEF n, m
  <2> QED BY <2>1
<1> QED BY <1>1, <1>2, <1>3, <1>4, <1>8, <1>10, <1>12, <1>14, <1>15

\* A worker calls a handler h of the queue or of the strand.
Called(t, h, end) ==
  /\ t \in Workers /\ h \in Callable(prog) /\ h \in Handler /\ Begin(h)
  /\ code[t] \in Seq(Anything) /\ Len(code[t]) = 1 /\ code[t][1].do = "run"
  /\ Pushes(t, h, Stmt(end, h), code[t])
  /\ Len(code'[t]) = Len(Body(h)) + 2 /\ code'[t][Len(Body(h)) + 2].do = "run"

LEMMA CallNextShape ==
  ASSUME Shape, prog' = prog, NEW t \in Threads, CallNext(t)
  PROVE  /\ Shape' /\ Called(t, Head(queue), "return") /\ queue # <<>> /\ queue' = Tail(queue)
         /\ UNCHANGED <<strandQ, work, stopped, pending, aborted>>
         /\ Head(queue) \in Posted(prog) /\ queue \in Seq(Posted(prog))
<1> DEFINE h == Head(queue)
           ret == Stmt("return", h)
           c == code[t]
<1>1. queue # <<>> /\ Serves(t) BY DEF CallNext
<1>2. t \in Workers /\ c # <<>> /\ c \in Seq(Anything) /\ WorkerCode(prog, c) /\ Len(c) = 1 /\ c[1].do = "run"
  BY <1>1, Serving
<1>3. h \in Posted(prog) /\ queue \in Seq(Posted(prog)) /\ queue' \in Seq(Posted(prog))
  BY <1>1, HeadTailProperties DEF Shape, CallNext
<1>4. h \in Handler /\ h \in Callable(prog) BY <1>3, PostedHandlers DEF Callable
<1>5. ret \in BodyStmts(prog) /\ ret.do \in Ends BY <1>3, <1>4 DEF BodyStmts, BodyOps, Stmt, Ends
<1>6. code' = [code EXCEPT ![t] = Body(h) \o <<ret>> \o c] /\ Begin(h) BY DEF CallNext
<1>7. begun' \in Seq(Plain) BY <1>4, <1>6, BeginPlain
<1>8. UNCHANGED <<strandQ, work, stopped, pending, aborted>> /\ queue' = Tail(queue) BY DEF CallNext
<1> HIDE DEF c, h, ret
<1>9. /\ CodeShape' /\ \A u \in Threads : u # t => code'[u] = code[u]
      /\ Len(code'[t]) = Len(Body(h)) + 1 + Len(c) /\ Len(Body(h)) \in Nat /\ Body(h) \in Seq(OwnStmts(prog))
      /\ \A i \in 1 .. Len(Body(h)) : code'[t][i] = Body(h)[i]
      /\ code'[t][Len(Body(h)) + 1] = ret
      /\ \A i \in 1 .. Len(c) : code'[t][Len(Body(h)) + 1 + i] = c[i]
  <2>1. CodeShape' /\ Pushes(t, h, ret, c) BY <1>2, <1>4, <1>5, <1>6, Calling
  <2> QED BY <2>1 DEF Pushes
<1>p. Pushes(t, h, ret, c) BY <1>2, <1>4, <1>5, <1>6, Calling
<1>10. Len(code'[t]) = Len(Body(h)) + 2 /\ code'[t][Len(Body(h)) + 2].do = "run"
  <2>1. code'[t][Len(Body(h)) + 1 + 1] = c[1] BY <1>2, <1>9
  <2> QED BY <1>2, <1>9, <2>1
<1>11. Called(t, h, "return")
  <2> USE DEF c, ret
  <2> HIDE DEF h
  <2> QED BY <1>2, <1>4, <1>6, <1>p, <1>10 DEF Called
<1>12. Shape' BY <1>3, <1>7, <1>8, <1>9 DEF Shape
<1> QED BY <1>1, <1>3, <1>8, <1>11, <1>12 DEF h

LEMMA CallStrandShape ==
  ASSUME Shape, prog' = prog, NEW t \in Threads, CallStrand(t)
  PROVE  /\ Shape' /\ Called(t, Head(strandQ), "unlock") /\ strandQ # <<>> /\ strandQ' = Tail(strandQ)
         /\ ~StrandBusy /\ UNCHANGED <<queue, work, stopped, pending, aborted>>
         /\ Head(strandQ) \in Stranded(prog) /\ strandQ \in Seq(Stranded(prog)) /\ prog # "dispatch"
<1> DEFINE h == Head(strandQ)
           ret == Stmt("unlock", h)
           c == code[t]
<1>1. strandQ # <<>> /\ Serves(t) /\ ~StrandBusy BY DEF CallStrand
<1>2. t \in Workers /\ c # <<>> /\ c \in Seq(Anything) /\ WorkerCode(prog, c) /\ Len(c) = 1 /\ c[1].do = "run"
  BY <1>1, Serving
<1>3. h \in Stranded(prog) /\ strandQ \in Seq(Stranded(prog)) /\ strandQ' \in Seq(Stranded(prog))
  BY <1>1, HeadTailProperties DEF Shape, CallStrand
<1>4. h \in Handler /\ h \in Callable(prog) BY <1>3, PostedHandlers DEF Callable
<1>q. prog # "dispatch" BY <1>3 DEF Stranded
<1>5. ret \in BodyStmts(prog) /\ ret.do \in Ends BY <1>3, <1>4, <1>q DEF BodyStmts, BodyOps, Stmt, Ends
<1>6. code' = [code EXCEPT ![t] = Body(h) \o <<ret>> \o c] /\ Begin(h) BY DEF CallStrand
<1>7. begun' \in Seq(Plain) BY <1>4, <1>6, BeginPlain
<1>8. UNCHANGED <<queue, work, stopped, pending, aborted>> /\ strandQ' = Tail(strandQ) BY DEF CallStrand
<1> HIDE DEF c, h, ret
<1>9. /\ CodeShape' /\ \A u \in Threads : u # t => code'[u] = code[u]
      /\ Len(code'[t]) = Len(Body(h)) + 1 + Len(c) /\ Len(Body(h)) \in Nat /\ Body(h) \in Seq(OwnStmts(prog))
      /\ \A i \in 1 .. Len(Body(h)) : code'[t][i] = Body(h)[i]
      /\ code'[t][Len(Body(h)) + 1] = ret
      /\ \A i \in 1 .. Len(c) : code'[t][Len(Body(h)) + 1 + i] = c[i]
  <2>1. CodeShape' /\ Pushes(t, h, ret, c) BY <1>2, <1>4, <1>5, <1>6, Calling
  <2> QED BY <2>1 DEF Pushes
<1>p. Pushes(t, h, ret, c) BY <1>2, <1>4, <1>5, <1>6, Calling
<1>10. Len(code'[t]) = Len(Body(h)) + 2 /\ code'[t][Len(Body(h)) + 2].do = "run"
  <2>1. code'[t][Len(Body(h)) + 1 + 1] = c[1] BY <1>2, <1>9
  <2> QED BY <1>2, <1>9, <2>1
<1>11. Called(t, h, "unlock")
  <2> USE DEF c, ret
  <2> HIDE DEF h
  <2> QED BY <1>2, <1>4, <1>6, <1>p, <1>10 DEF Called
<1>12. Shape' BY <1>3, <1>7, <1>8, <1>9 DEF Shape
<1> QED BY <1>1, <1>3, <1>q, <1>8, <1>11, <1>12 DEF h

\* A wrapper passes its handler to the strand: the call is made at once, or queued.
CalledByWrapper(t) ==
  /\ ~StrandBusy /\ strandQ = <<>> /\ strandQ' = strandQ /\ Begin(Arg(t))
  /\ Pushes(t, Arg(t), Stmt("unlock", Arg(t)), Tail(code[t]))
QueuedByWrapper(t) ==
  /\ StrandBusy \/ strandQ # <<>>
  /\ Continue(t) /\ strandQ' = Append(strandQ, Arg(t)) /\ begun' = begun

LEMMA StrandDispatchShape ==
  ASSUME Shape, prog' = prog, NEW t \in Threads, StrandDispatch(t)
  PROVE  /\ Shape' /\ t \in Workers /\ code[t] # <<>> /\ code[t][1].do = "strandDispatch"
         /\ Arg(t) \in Stranded(prog) /\ Arg(t) \in Callable(prog)
         /\ Len(code[t]) > 1 /\ Len(code[t]) \in Nat /\ code[t] \in Seq(Anything)
         /\ CalledByWrapper(t) \/ QueuedByWrapper(t)
         /\ UNCHANGED <<queue, work, stopped, pending, aborted>>
<1> DEFINE h == Arg(t)
           ret == Stmt("unlock", h)
           c == Tail(code[t])
<1>1. code[t] # <<>> /\ code[t][1].do = "strandDispatch" BY DEF StrandDispatch, At
<1>2. /\ t \in Workers /\ code[t] \in Seq(Anything) /\ WorkerCode(prog, code[t])
      /\ Len(code[t]) > 1 /\ Len(code[t]) \in Nat /\ h \in Stranded(prog)
  BY <1>1, Carried, Actor DEF Shape, CodeShape
<1>3. h \in Handler /\ h \in Callable(prog) BY <1>2, PostedHandlers DEF Callable
<1>4. UNCHANGED <<queue, work, stopped, pending, aborted>> BY DEF StrandDispatch
<1>5. c \in Seq(Anything) /\ WorkerCode(prog, c) /\ c # <<>> BY <1>1, <1>2, WorkerTail
<1>6. ret \in BodyStmts(prog) /\ ret.do \in Ends BY <1>2, <1>3 DEF BodyStmts, BodyOps, Stmt, Ends
<1>7. CASE ~StrandBusy /\ strandQ = <<>>
  <2>1. /\ code' = [code EXCEPT ![t] = Body(h) \o <<ret>> \o c]
        /\ Begin(h) /\ strandQ' = strandQ
    BY <1>7 DEF StrandDispatch
  <2>2. begun' \in Seq(Plain) BY <1>3, <2>1, BeginPlain
  <2> HIDE DEF c, h, ret
  <2>3. CodeShape' /\ Pushes(t, h, ret, c) BY <1>2, <1>3, <1>5, <1>6, <2>1, Calling
  <2>4. Shape' BY <1>4, <2>1, <2>2, <2>3 DEF Shape
  <2> QED BY <1>1, <1>2, <1>3, <1>4, <1>7, <2>1, <2>3, <2>4 DEF h, c, ret, CalledByWrapper
<1>8. CASE StrandBusy \/ strandQ # <<>>
  <2>1. Continue(t) /\ strandQ' = Append(strandQ, h) /\ begun' = begun BY <1>8 DEF StrandDispatch
  <2>2. CodeShape' BY <1>1, <2>1, Continuing
  <2>3. strandQ' \in Seq(Stranded(prog)) BY <1>2, <2>1, AppendProperties DEF Shape
  <2>4. Shape' BY <1>4, <2>1, <2>2, <2>3 DEF Shape
  <2> QED BY <1>1, <1>2, <1>3, <1>4, <1>8, <2>1, <2>4 DEF QueuedByWrapper
<1> QED BY <1>7, <1>8

\* An exception: the program ends, or the thread, or the call of run().
LEMMA ThrowShape ==
  ASSUME Shape, prog' = prog, NEW t \in Threads, Throw(t)
  PROVE  /\ Shape' /\ t \in Workers /\ code[t] # <<>> /\ code[t][1].do = "throw" /\ prog \notin Joined
         /\ \/ P.mode = "plain" /\ code' = code
            \/ P.mode = "catch" /\ code'[t] = <<>>
            \/ P.mode = "loop" /\ code'[t] = Do("run")
         /\ \A u \in Threads : u # t => code'[u] = code[u]
         /\ UNCHANGED <<queue, strandQ, work, pending, begun>> /\ stopped' = (stopped \/ OutOfWork')
<1>1. code[t] # <<>> /\ code[t][1].do = "throw" BY DEF Throw, At
<1>2. t \in Workers /\ prog \notin Joined BY <1>1, Carried DEF BodyStmts
<1>3. UNCHANGED <<queue, strandQ, work, pending, begun>> /\ stopped' = (stopped \/ OutOfWork') /\ aborted' \in BOOLEAN
  BY DEF Throw, Shape
<1>4. code \in [Threads -> Seq(Anything)] /\ t \in Threads BY DEF Shape, CodeShape
<1>5. CASE P.mode = "plain" /\ code' = code
  <2>1. CodeShape' BY <1>5 DEF Shape, CodeShape
  <2>2. Shape' BY <1>3, <2>1 DEF Shape, OutOfWork
  <2> QED BY <1>1, <1>2, <1>3, <1>5, <2>2
<1>6. ASSUME NEW c, c = <<>> \/ c = Do("run"), code' = [code EXCEPT ![t] = c]
      PROVE  Shape' /\ code'[t] = c /\ \A u \in Threads : u # t => code'[u] = code[u]
  <2>1. c \in Seq(Anything) /\ WorkerCode(prog, c) BY <1>6, WorkerRun, EmptySeq
  <2>2. CodeShape' /\ code'[t] = c /\ \A u \in Threads : u # t => code'[u] = code[u]
    BY <1>2, <1>6, <2>1, ThreadSets, CodeUpdate
  <2> QED BY <1>3, <2>2 DEF Shape, OutOfWork
<1>7. CASE P.mode = "catch" /\ code' = [code EXCEPT ![t] = <<>>]
  BY <1>1, <1>2, <1>3, <1>6, <1>7
<1>8. CASE P.mode = "loop" /\ code' = [code EXCEPT ![t] = Do("run")]
  BY <1>1, <1>2, <1>3, <1>6, <1>8
<1> QED BY <1>5, <1>7, <1>8 DEF Throw

\* The program that runs never changes, and the shape holds in every step.
LEMMA StepCases ==
  ASSUME [Next]_vars
  PROVE  /\ prog' = prog
         /\ \/ UNCHANGED vars
            \/ Expire \/ PeerAnswers
            \/ \E t \in Threads :
                 \/ CreateThread(t) \/ Post(t) \/ StrandPost(t) \/ Dispatch(t) \/ StrandDispatch(t)
                 \/ Start(t) \/ Cancel(t) \/ DropWork(t) \/ Stop(t) \/ JoinAll(t) \/ Throw(t)
                 \/ CallNext(t) \/ CallStrand(t) \/ Return(t) \/ Leave(t) \/ Enter(t)
BY DEF Next, Timers, Outside, Step, vars

\* The work objects, and what becomes of exceptions.
LEMMA Settings ==
  /\ \A p \in DOMAIN Programs : Programs[p].work \in BOOLEAN
  /\ \A p \in Joined : Programs[p].mode = "plain" /\ (p # "cancelOperation" => Programs[p].work)
  /\ Programs["exception"].mode = "catch" /\ Programs["exception"].work
<1>1. Programs["post"].work = TRUE /\ Programs["post"].mode = "plain"
  BY DEF Programs, Program, PostProgram
<1>2. Programs["dispatch"].work = TRUE /\ Programs["dispatch"].mode = "plain"
  BY DEF Programs, Program, DispatchProgram
<1>3. Programs["multithreads"].work = TRUE /\ Programs["multithreads"].mode = "plain"
  BY DEF Programs, Program, MultithreadsProgram
<1>4. Programs["mutexbind"].work = TRUE /\ Programs["mutexbind"].mode = "plain"
  BY DEF Programs, Program, MutexbindProgram
<1>5. Programs["poll"].work = FALSE /\ Programs["poll"].mode = "plain"
  BY DEF Programs, Program, PollProgram
<1>6. Programs["pollwork"].work = TRUE /\ Programs["pollwork"].mode = "plain"
  BY DEF Programs, Program, PollworkProgram
<1>7. Programs["removework"].work = TRUE /\ Programs["removework"].mode = "plain"
  BY DEF Programs, Program, RemoveworkProgram
<1>8. Programs["blocked"].work = TRUE /\ Programs["blocked"].mode = "plain"
  BY DEF Programs, Program, BlockedProgram
<1>9. Programs["unblocked"].work = FALSE /\ Programs["unblocked"].mode = "plain"
  BY DEF Programs, Program, UnblockedProgram
<1>10. Programs["strand"].work = TRUE /\ Programs["strand"].mode = "plain"
  BY DEF Programs, Program, StrandProgram
<1>11. Programs["nonstrand"].work = TRUE /\ Programs["nonstrand"].mode = "plain"
  BY DEF Programs, Program, NonstrandProgram
<1>12. Programs["strandwrap"].work = TRUE /\ Programs["strandwrap"].mode = "plain"
  BY DEF Programs, Program, StrandwrapProgram
<1>13. Programs["exception"].work = TRUE /\ Programs["exception"].mode = "catch"
  BY DEF Programs, Program, ExceptionProgram
<1>14. Programs["exception2"].work = TRUE /\ Programs["exception2"].mode = "catch"
  BY DEF Programs, Program, Exception2Program
<1>15. Programs["errorcode"].work = TRUE /\ Programs["errorcode"].mode = "plain"
  BY DEF Programs, Program, ErrorcodeProgram
<1>16. Programs["errorcode2"].work = TRUE /\ Programs["errorcode2"].mode = "loop"
  BY DEF Programs, Program, Errorcode2Program
<1>17. Programs["timer"].work = TRUE /\ Programs["timer"].mode = "loop"
  BY DEF Programs, Program, TimerProgram
<1>18. Programs["timer2"].work = TRUE /\ Programs["timer2"].mode = "loop"
  BY DEF Programs, Program, Timer2Program
<1>19. Programs["timer3"].work = TRUE /\ Programs["timer3"].mode = "loop"
  BY DEF Programs, Program, Timer3Program
<1>20. Programs["serverasync"].work = TRUE /\ Programs["serverasync"].mode = "loop"
  BY DEF Programs, Program, ServerasyncProgram
<1>21. Programs["connectasync"].work = TRUE /\ Programs["connectasync"].mode = "loop"
  BY DEF Programs, Program, ConnectasyncProgram
<1>22. Programs["connectsync"].work = TRUE /\ Programs["connectsync"].mode = "loop"
  BY DEF Programs, Program, ConnectsyncProgram
<1>23. Programs["cancelOperation"].work = FALSE /\ Programs["cancelOperation"].mode = "plain"
  BY DEF Programs, Program, CancelOperationProgram
<1>24. DOMAIN Programs = {"post", "dispatch", "multithreads", "mutexbind", "poll", "pollwork", "removework", "blocked", "unblocked", "strand", "nonstrand", "strandwrap", "exception", "exception2", "errorcode", "errorcode2", "timer", "timer2", "timer3", "serverasync", "connectasync", "connectsync", "cancelOperation"}
  BY DEF Programs
<1>25. \A p \in DOMAIN Programs : Programs[p].work = TRUE \/ Programs[p].work = FALSE
  BY <1>1, <1>2, <1>3, <1>4, <1>5, <1>6, <1>7, <1>8, <1>9, <1>10, <1>11, <1>12, <1>13, <1>14, <1>15, <1>16, <1>17, <1>18, <1>19, <1>20, <1>21, <1>22, <1>23, <1>24
<1> QED BY <1>1, <1>2, <1>10, <1>11, <1>12, <1>13, <1>23, <1>25 DEF Joined

LEMMA ShapeInit == Init => Shape
<1> SUFFICES ASSUME Init PROVE Shape OBVIOUS
<1>1. prog \in DOMAIN Programs BY DEF Init
<1>2. P.main \in Seq(MainStmts(prog)) /\ Sorted(P.main) BY <1>1, Mains DEF P, Part
<1>3. code = [t \in Threads |-> IF t = 0 THEN P.main ELSE <<>>] BY DEF Init
<1>4. P.main \in Seq(Anything) BY <1>2, StmtSets, SeqMonotonic
<1> DEFINE m == P.main
<1> HIDE DEF m
<1>5. code \in [Threads -> Seq(Anything)] /\ code[0] = m /\ \A w \in Workers : code[w] = <<>>
  BY <1>3, <1>4, ThreadSets, EmptySeq DEF m
<1>6. CodeShape BY <1>2, <1>5, WorkerRun DEF CodeShape, m
<1>7. P.work \in BOOLEAN BY <1>1, Settings DEF P
<1> QED BY <1>1, <1>6, <1>7, EmptySeq DEF Shape, Init

LEMMA ShapeNext == Shape /\ [Next]_vars => Shape'
<1> SUFFICES ASSUME Shape, [Next]_vars PROVE Shape' OBVIOUS
<1>1. CASE UNCHANGED vars BY <1>1 DEF vars, Shape, CodeShape
<1>2. CASE Expire \/ PeerAnswers BY <1>2, StepCases, CompleteShape
<1>3. ASSUME NEW t \in Threads,
             \/ CreateThread(t) \/ Post(t) \/ StrandPost(t) \/ Dispatch(t) \/ StrandDispatch(t)
             \/ Start(t) \/ Cancel(t) \/ DropWork(t) \/ Stop(t) \/ JoinAll(t) \/ Throw(t)
             \/ CallNext(t) \/ CallStrand(t) \/ Return(t) \/ Leave(t) \/ Enter(t)
      PROVE  Shape'
  BY <1>3, StepCases, CreateShape, PostShape, StrandPostShape, DispatchShape, StrandDispatchShape, StartShape,
    CancelShape, PlainShape, ThrowShape, CallNextShape, CallStrandShape
<1> QED BY <1>1, <1>2, <1>3, StepCases

LEMMA Shaped == Spec => []Shape
BY ShapeInit, ShapeNext, PTL DEF Spec

\* The types: the strand only ever holds what was wrapped, in every program.
THEOREM TypeCorrect == Spec => []TypeOK
<1>1. ASSUME Shape PROVE TypeOK
  <2>1. queue \in Seq(Handler) /\ strandQ \in Seq(Plain) BY <1>1, PostedHandlers, SeqMonotonic DEF Shape
  <2>2. pending \subseteq [h : Handler, timed : BOOLEAN] BY <1>1, PostedHandlers DEF Shape
  <2> QED BY <1>1, <2>1, <2>2 DEF Shape, CodeShape, TypeOK, Anything
<1> QED BY <1>1, Shaped, PTL

(***************************************************************************)
(* The strand makes one call at a time.                                    *)
(***************************************************************************)
LEMMA Insides ==
  ASSUME NEW t, NEW ends
  PROVE  /\ Inside(t, ends) # {} <=> \E i \in DOMAIN code[t] : code[t][i].do \in ends
         /\ \A h \in Inside(t, ends) : \E i \in DOMAIN code[t] : code[t][i].do \in ends /\ h = code[t][i].h
         /\ \A i \in DOMAIN code[t] : code[t][i].do \in ends => code[t][i].h \in Inside(t, ends)
BY DEF Inside

\* A thread is in no new call after a statement that only goes on.
LEMMA NoNewCall ==
  ASSUME Shape, prog' = prog, NEW t \in Threads, code[t] # <<>>, Continue(t), NEW ends
  PROVE  \A u \in Threads : Inside(u, ends)' \subseteq Inside(u, ends)
<1>1. /\ CodeShape' /\ \A u \in Threads : u # t => code'[u] = code[u]
      /\ Len(code'[t]) = Len(code[t]) - 1
      /\ \A i \in 1 .. Len(code[t]) - 1 : code'[t][i] = code[t][i + 1]
  BY Continuing
<1>2. code'[t] \in Seq(Anything) /\ DOMAIN code'[t] = 1 .. Len(code'[t])
  BY <1>1, LenProperties DEF CodeShape
<1>3. Len(code[t]) \in Nat /\ DOMAIN code[t] = 1 .. Len(code[t]) BY Actor
<1>4. ASSUME NEW i \in DOMAIN code'[t] PROVE i + 1 \in DOMAIN code[t] /\ code'[t][i] = code[t][i + 1]
  BY <1>1, <1>2, <1>3
<1>5. ASSUME NEW h \in Inside(t, ends)' PROVE h \in Inside(t, ends)
  <2>1. PICK i \in DOMAIN code'[t] : code'[t][i].do \in ends /\ h = code'[t][i].h BY <1>5 DEF Inside
  <2> QED BY <1>4, <2>1, Insides
<1>6. ASSUME NEW u \in Threads, u # t PROVE Inside(u, ends)' = Inside(u, ends)
  BY <1>1, <1>6 DEF Inside
<1> QED BY <1>5, <1>6

\* A call adds its own end only.
LEMMA NewCall ==
  ASSUME Shape, Shape', prog' = prog, NEW t \in Workers, NEW h, NEW end \in Ends, NEW c \in Seq(Anything),
         Pushes(t, h, Stmt(end, h), c), NEW ends \in SUBSET Ends
  PROVE  /\ \A u \in Threads : u # t => Inside(u, ends)' = Inside(u, ends)
         /\ \A x \in Inside(t, ends)' : \/ x = h /\ end \in ends
                                        \/ \E i \in DOMAIN c : c[i].do \in ends /\ x = c[i].h
         /\ end \in ends => h \in Inside(t, ends)'
<1>1. ASSUME NEW u \in Threads, u # t PROVE Inside(u, ends)' = Inside(u, ends)
  BY <1>1 DEF Pushes, Inside
<1> DEFINE n == Len(Body(h))
           B == Body(h)
<1>2. /\ B \in Seq(OwnStmts(prog)) /\ n \in Nat /\ Len(code'[t]) = n + 1 + Len(c)
      /\ \A i \in 1 .. n : code'[t][i] = B[i]
      /\ code'[t][n + 1] = Stmt(end, h)
      /\ \A i \in 1 .. Len(c) : code'[t][n + 1 + i] = c[i]
  BY DEF Pushes
<1>3. \A i \in 1 .. n : B[i].do \notin ends BY <1>2, ElementOfSeq DEF OwnStmts
<1>4. DOMAIN code'[t] = 1 .. Len(code'[t]) /\ DOMAIN c = 1 .. Len(c) /\ Len(c) \in Nat
  BY ThreadSets, LenProperties DEF Shape, CodeShape
<1>5. Stmt(end, h).do = end /\ Stmt(end, h).h = h BY DEF Stmt
<1> HIDE DEF n, B
<1> DEFINE m == Len(c)
<1>a. DOMAIN code'[t] = 1 .. n + 1 + m /\ n \in Nat /\ m \in Nat BY <1>2, <1>4
<1>b. /\ n + 1 \in 1 .. n + 1 + m
      /\ \A i \in 1 .. n + 1 + m : i \in 1 .. n \/ i = n + 1 \/ i - (n + 1) \in 1 .. m
  <2> HIDE DEF m
  <2> QED BY <1>a
<1>6. ASSUME NEW x \in Inside(t, ends)'
      PROVE  \/ x = h /\ end \in ends
             \/ \E i \in DOMAIN c : c[i].do \in ends /\ x = c[i].h
  <2>1. PICK i \in DOMAIN code'[t] : code'[t][i].do \in ends /\ x = code'[t][i].h BY <1>6 DEF Inside
  <2>2. i \in 1 .. n \/ i = n + 1 \/ i - (n + 1) \in 1 .. Len(c) BY <1>a, <1>b
  <2>3. CASE i \in 1 .. n BY <1>2, <1>3, <2>1, <2>3
  <2>4. CASE i = n + 1 BY <1>2, <1>5, <2>1, <2>4
  <2>5. CASE i - (n + 1) \in 1 .. Len(c)
    <3>1. i = n + 1 + (i - (n + 1)) BY <1>2, <1>4, <2>5
    <3>2. code'[t][i] = c[i - (n + 1)] BY <1>2, <2>5, <3>1
    <3> QED BY <1>4, <2>1, <2>5, <3>2
  <2> QED BY <2>2, <2>3, <2>4, <2>5
<1>7. ASSUME end \in ends PROVE h \in Inside(t, ends)'
  <2>1. n + 1 \in DOMAIN code'[t] BY <1>a, <1>b
  <2> QED BY <1>2, <1>5, <1>7, <2>1 DEF Inside
<1> QED BY <1>1, <1>6, <1>7

\* A thread goes on to its next statement; out of run() only if the io_service has stopped.
GoesOn(t) ==
  /\ code[t] # <<>> /\ Continue(t)
  /\ code[t][1].do # "create" /\ (code[t][1].do = "run" => stopped')

LEMMA Transitions ==
  ASSUME Shape, [Next]_vars
  PROVE  /\ Shape' /\ prog' = prog
         /\ \/ code' = code
            \/ \E t \in Threads : GoesOn(t)
            \/ \E t \in Threads : CreateThread(t)
            \/ \E t \in Threads : Throw(t)
            \/ \E t \in Threads : Dispatch(t)
            \/ \E t \in Threads : CallNext(t)
            \/ \E t \in Threads : CallStrand(t)
            \/ \E t \in Threads : StrandDispatch(t) /\ CalledByWrapper(t)
<1>0. Shape' /\ prog' = prog BY ShapeNext, StepCases
<1>1. CASE UNCHANGED vars BY <1>0, <1>1 DEF vars
<1>2. CASE Expire \/ PeerAnswers BY <1>0, <1>2, CompleteShape
<1>3. ASSUME NEW t \in Threads,
             \/ Post(t) \/ StrandPost(t) \/ Start(t) \/ Cancel(t) \/ DropWork(t) \/ Stop(t) \/ JoinAll(t)
             \/ Return(t) \/ Leave(t) \/ Enter(t)
      PROVE  GoesOn(t)
  BY <1>0, <1>3, PostShape, StrandPostShape, StartShape, CancelShape, PlainShape DEF GoesOn
<1>4. ASSUME NEW t \in Threads, StrandDispatch(t) PROVE CalledByWrapper(t) \/ GoesOn(t)
  BY <1>0, <1>4, StrandDispatchShape DEF GoesOn, QueuedByWrapper
<1> QED BY <1>0, <1>1, <1>2, <1>3, <1>4, StepCases

LEMMA SerialNext == Shape /\ StrandSerial /\ [Next]_vars => StrandSerial'
<1> SUFFICES ASSUME Shape, StrandSerial, [Next]_vars PROVE StrandSerial' OBVIOUS
<1> DEFINE H == {"unlock"}
<1>0. Shape' /\ prog' = prog /\ H \in SUBSET Ends BY Transitions DEF Ends
<1>1. ASSUME \A u \in Workers : Inside(u, H)' \subseteq Inside(u, H) PROVE StrandSerial'
  BY <1>1 DEF StrandSerial, HoldsStrand
<1>2. CASE code' = code
  <2>1. \A u \in Workers : Inside(u, H)' = Inside(u, H) BY <1>2 DEF Inside
  <2> QED BY <1>1, <2>1
<1>3. ASSUME NEW t \in Threads, GoesOn(t) PROVE StrandSerial'
  <2>1. \A u \in Threads : Inside(u, H)' \subseteq Inside(u, H) BY <1>0, <1>3, NoNewCall DEF GoesOn
  <2> QED BY <1>1, <2>1, ThreadSets
<1>4. ASSUME NEW u \in Workers, code'[u] = <<>> \/ code'[u] = Do("run") \/ code'[u] = code[u]
      PROVE  Inside(u, H)' \subseteq Inside(u, H)
  <2>1. CASE code'[u] = <<>> BY <2>1, Insides DEF Inside
  <2>2. CASE code'[u] = Do("run")
    <3>1. \A i \in DOMAIN Do("run") : Do("run")[i].do \notin H BY DEF Do, Stmt
    <3> QED BY <2>2, <3>1 DEF Inside
  <2>3. CASE code'[u] = code[u] BY <2>3 DEF Inside
  <2> QED BY <1>4, <2>1, <2>2, <2>3
<1>5. ASSUME NEW t \in Threads, CreateThread(t) PROVE StrandSerial'
  <2>1. \A u \in Workers : code'[u] = Do("run") \/ code'[u] = code[u] BY <1>0, <1>5, CreateShape
  <2> QED BY <1>1, <1>4, <2>1
<1>6. ASSUME NEW t \in Threads, Throw(t) PROVE StrandSerial'
  <2>1. \A u \in Workers : code'[u] = <<>> \/ code'[u] = Do("run") \/ code'[u] = code[u]
    BY <1>0, <1>6, ThrowShape, ThreadSets
  <2> QED BY <1>1, <1>4, <2>1
<1>7. ASSUME NEW t \in Workers, NEW h, NEW c \in Seq(Anything), NEW end \in Ends, Pushes(t, h, Stmt(end, h), c),
             \A i \in DOMAIN c : c[i].do \in H => \E j \in DOMAIN code[t] : code[t][j].do \in H,
             end \in H => ~StrandBusy
      PROVE  StrandSerial'
  <2>1. \A u \in Workers : u # t => Inside(u, H)' = Inside(u, H) BY <1>0, <1>7, NewCall, ThreadSets
  <2>2. CASE end \notin H
    <3>1. \A x \in Inside(t, H)' : \E i \in DOMAIN c : c[i].do \in H BY <1>0, <1>7, <2>2, NewCall
    <3>2. HoldsStrand(t)' => HoldsStrand(t)
      <4>1. ASSUME HoldsStrand(t)' PROVE HoldsStrand(t)
        <5>1. PICK x \in Inside(t, H)' : TRUE BY <4>1 DEF HoldsStrand
        <5>2. \E j \in DOMAIN code[t] : code[t][j].do \in H BY <1>7, <3>1, <5>1
        <5> QED BY <5>2, Insides DEF HoldsStrand
      <4> QED BY <4>1
    <3> QED BY <2>1, <3>2 DEF StrandSerial, HoldsStrand
  <2>3. CASE end \in H
    <3>1. \A u \in Workers : ~HoldsStrand(u) BY <1>7, <2>3, ThreadSets DEF StrandBusy, HoldsStrand
    <3> QED BY <2>1, <3>1 DEF StrandSerial, HoldsStrand
  <2> QED BY <2>2, <2>3
<1>8. ASSUME NEW t \in Threads, CallNext(t) PROVE StrandSerial'
  <2>1. Called(t, Head(queue), "return") BY <1>0, <1>8, CallNextShape
  <2> QED BY <1>7, <2>1 DEF Called, Ends
<1>9. ASSUME NEW t \in Threads, CallStrand(t) PROVE StrandSerial'
  <2>1. Called(t, Head(strandQ), "unlock") /\ ~StrandBusy BY <1>0, <1>9, CallStrandShape
  <2> QED BY <1>7, <2>1 DEF Called, Ends
<1>10. ASSUME NEW t \in Threads, code[t] \in Seq(Anything), code[t] # <<>>
       PROVE  \A i \in DOMAIN Tail(code[t]) : Tail(code[t])[i].do \in H => \E j \in DOMAIN code[t] : code[t][j].do \in H
  <2>1. TAKE i \in DOMAIN Tail(code[t])
  <2>2. i + 1 \in DOMAIN code[t] /\ Tail(code[t])[i] = code[t][i + 1]
    BY <1>10, HeadTailProperties, LenProperties
  <2> QED BY <2>2
<1>11. ASSUME NEW t \in Threads, Dispatch(t) PROVE StrandSerial'
  <2>1. /\ t \in Workers /\ Pushes(t, Arg(t), Stmt("return", Arg(t)), Tail(code[t]))
        /\ code[t] \in Seq(Anything) /\ code[t] # <<>>
    BY <1>0, <1>11, DispatchShape
  <2>2. Tail(code[t]) \in Seq(Anything) BY <2>1, HeadTailProperties
  <2> QED BY <1>7, <1>10, <2>1, <2>2 DEF Ends
<1>12. ASSUME NEW t \in Threads, StrandDispatch(t), CalledByWrapper(t) PROVE StrandSerial'
  <2>1. /\ t \in Workers /\ Pushes(t, Arg(t), Stmt("unlock", Arg(t)), Tail(code[t])) /\ ~StrandBusy
        /\ code[t] \in Seq(Anything) /\ code[t] # <<>>
    BY <1>0, <1>12, StrandDispatchShape DEF CalledByWrapper
  <2>2. Tail(code[t]) \in Seq(Anything) BY <2>1, HeadTailProperties
  <2> QED BY <1>7, <1>10, <2>1, <2>2 DEF Ends
<1> QED BY <1>2, <1>3, <1>5, <1>6, <1>8, <1>9, <1>11, <1>12, Transitions

\* Where a strand is used, only it calls what prints.
LEMMA PrintingHolds == Shape /\ prog \in Stranding => \A t \in Printing : t \in Workers /\ HoldsStrand(t)
<1> SUFFICES ASSUME Shape, prog \in Stranding, NEW t \in Printing PROVE t \in Workers /\ HoldsStrand(t) OBVIOUS
<1>1. PICK h \in Inside(t, Ends) : h.kind = "Print" /\ ~h.wrapped BY DEF Printing
<1>2. t \in Threads BY DEF Printing
<1>3. PICK i \in DOMAIN code[t] : code[t][i].do \in Ends /\ h = code[t][i].h BY <1>1, Insides
<1>4. t \in Workers
  <2>1. CASE t = 0
    <3>1. code[0] \in Seq(MainStmts(prog)) BY DEF Shape, CodeShape
    <3>2. code[0][i] \in MainStmts(prog) BY <1>3, <2>1, <3>1, LenProperties, ElementOfSeq
    <3> QED BY <1>3, <2>1, <3>2 DEF MainStmts, MainOps, Ends
  <2> QED BY <2>1, <1>2, ThreadSets
<1>5. code[t] \in Seq(Anything) /\ WorkerCode(prog, code[t]) BY <1>2, <1>4 DEF Shape, CodeShape
<1>6. code[t][i] \in BodyStmts(prog)
  <2>1. i \in 1 .. Len(code[t]) /\ Len(code[t]) \in Nat /\ code[t] # <<>> BY <1>3, <1>5, LenProperties, EmptySeq
  <2>2. i # Len(code[t])
    <3>1. code[t][Len(code[t])].do = "run" BY <1>5, <2>1 DEF WorkerCode, Stmt
    <3> QED BY <1>3, <3>1 DEF Ends
  <2>3. i \in 1 .. Len(code[t]) - 1 BY <2>1, <2>2
  <2> QED BY <1>5, <2>1, <2>3 DEF WorkerCode
<1>7. code[t][i].do = "unlock"
  <2>1. h \notin Posted(prog) BY <1>1 DEF Posted, Stranding, Wrap, Tick, Call
  <2> QED BY <1>3, <1>6, <2>1 DEF BodyStmts, Ends, Stranding
<1> QED BY <1>3, <1>4, <1>7, Insides DEF HoldsStrand

\* Two threads never print at a time where a strand is used.
THEOREM StrandIsSerial == Spec => []SerialPrints
<1>1. Shape /\ StrandSerial => SerialPrints
  <2> SUFFICES ASSUME Shape, StrandSerial, prog \in Stranding PROVE Cardinality(Printing) <= 1
    BY DEF SerialPrints, Stranding
  <2>1. \A t, u \in Printing : t = u BY PrintingHolds DEF StrandSerial
  <2>2. CASE Printing = {} BY <2>2, FS_EmptySet
  <2>3. CASE Printing # {}
    <3>1. PICK t \in Printing : TRUE BY <2>3
    <3>2. Printing = {t} BY <2>1, <3>1
    <3> QED BY <3>2, FS_Singleton
  <2> QED BY <2>2, <2>3
<1>2. Init => StrandSerial
  <2> SUFFICES ASSUME Init, NEW t \in Workers PROVE ~HoldsStrand(t) BY DEF StrandSerial
  <2>1. code[t] = <<>> BY ThreadSets DEF Init
  <2> QED BY <2>1, Insides DEF HoldsStrand
<1> QED BY <1>1, <1>2, SerialNext, Shaped, PTL DEF Spec

(***************************************************************************)
(* Workers are created once, and leave when the io_service has stopped.    *)
(***************************************************************************)
LEMMA StoppedStays == Shape /\ [Next]_vars => (stopped => stopped')
<1> SUFFICES ASSUME Shape, [Next]_vars, stopped PROVE stopped' OBVIOUS
<1>1. CASE UNCHANGED vars BY <1>1 DEF vars
<1>2. CASE Expire \/ PeerAnswers BY <1>2 DEF Expire, PeerAnswers, Complete
<1>3. ASSUME NEW t \in Threads,
             \/ CreateThread(t) \/ Post(t) \/ StrandPost(t) \/ Dispatch(t) \/ StrandDispatch(t)
             \/ Start(t) \/ Cancel(t) \/ DropWork(t) \/ Stop(t) \/ JoinAll(t) \/ Throw(t)
             \/ CallNext(t) \/ CallStrand(t) \/ Return(t) \/ Leave(t) \/ Enter(t)
      PROVE  stopped'
  BY <1>3 DEF CreateThread, Post, StrandPost, Dispatch, StrandDispatch, Start, Cancel, DropWork, Stop, JoinAll,
    Throw, CallNext, CallStrand, Return, Leave, Enter, services
<1> QED BY <1>1, <1>2, <1>3, StepCases

\* main has still to execute the statement number n of kind op.
AheadNumber(op, n) == \E i \in DOMAIN code[0] : code[0][i].do = op /\ code[0][i].h.n = n

\* What main has still to execute, after one more statement.
LEMMA MainTail ==
  ASSUME Shape, prog' = prog, code[0] # <<>>, code'[0] = Tail(code[0])
  PROVE  /\ DOMAIN code[0] = 1 .. Len(code[0]) /\ Len(code[0]) \in Nat /\ Len(code[0]) > 0
         /\ DOMAIN code'[0] = 1 .. Len(code[0]) - 1 /\ Len(code'[0]) = Len(code[0]) - 1
         /\ \A i \in DOMAIN code'[0] : i + 1 \in DOMAIN code[0] /\ code'[0][i] = code[0][i + 1]
         /\ \A i \in DOMAIN code[0] : i = 1 \/ (i - 1 \in DOMAIN code'[0] /\ code'[0][i - 1] = code[0][i])
         /\ \A op : Ahead(op)' => Ahead(op)
         /\ \A op : code[0][1].do # op /\ Ahead(op) => Ahead(op)'
         /\ \A op, n : ~(code[0][1].do = op /\ code[0][1].h.n = n) => (AheadNumber(op, n)' <=> AheadNumber(op, n))
<1> DEFINE c == code[0]
           d == Tail(c)
<1>0. c \in Seq(Anything) BY Actor, ThreadSets
<1>1. /\ d \in Seq(Anything) /\ Len(d) = Len(c) - 1
      /\ DOMAIN c = 1 .. Len(c) /\ DOMAIN d = 1 .. Len(d) /\ Len(c) \in Nat /\ Len(c) > 0
      /\ \A i \in 1 .. Len(d) : d[i] = c[i + 1]
  BY <1>0, HeadTailProperties, LenProperties, EmptySeq
<1> HIDE DEF c, d
<1>2. /\ DOMAIN d = 1 .. Len(c) - 1
      /\ \A i \in DOMAIN d : i + 1 \in DOMAIN c /\ d[i] = c[i + 1]
      /\ \A i \in DOMAIN c : i = 1 \/ (i - 1 \in DOMAIN d /\ d[i - 1] = c[i])
  BY <1>1
<1>3. /\ \A op : (\E i \in DOMAIN d : d[i].do = op) => \E i \in DOMAIN c : c[i].do = op
      /\ \A op : c[1].do # op /\ (\E i \in DOMAIN c : c[i].do = op) => \E i \in DOMAIN d : d[i].do = op
  BY <1>2
<1>4. ASSUME NEW op, NEW n, ~(c[1].do = op /\ c[1].h.n = n)
      PROVE  AheadNumber(op, n)' <=> AheadNumber(op, n)
  <2>1. ASSUME NEW i \in DOMAIN c, c[i].do = op /\ c[i].h.n = n PROVE \E j \in DOMAIN d : d[j].do = op /\ d[j].h.n = n
    BY <1>2, <1>4, <2>1
  <2>2. ASSUME NEW i \in DOMAIN d, d[i].do = op /\ d[i].h.n = n PROVE \E j \in DOMAIN c : c[j].do = op /\ c[j].h.n = n
    BY <1>2, <2>2
  <2>3. AheadNumber(op, n) <=> \E i \in DOMAIN c : c[i].do = op /\ c[i].h.n = n BY DEF AheadNumber, c
  <2>4. AheadNumber(op, n)' <=> \E i \in DOMAIN d : d[i].do = op /\ d[i].h.n = n
    <3>1. code'[0] = d BY DEF c, d
    <3> QED BY <3>1 DEF AheadNumber
  <2> QED BY <2>1, <2>2, <2>3, <2>4
<1>5. code[0] = c /\ code'[0] = d BY DEF c, d
<1>6. /\ \A op : Ahead(op)' => Ahead(op)
      /\ \A op : c[1].do # op /\ Ahead(op) => Ahead(op)'
  BY <1>3, <1>5 DEF Ahead
<1> QED BY <1>1, <1>2, <1>4, <1>5, <1>6

\* After the first statement main has none of a lower rank.
LEMMA LaterRank ==
  ASSUME Shape, prog' = prog, code[0] # <<>>, code'[0] = Tail(code[0]), NEW i \in DOMAIN code'[0]
  PROVE  Earlier(code[0][1], code'[0][i]) /\ code'[0][i] \in MainStmts(prog) /\ code[0][1] \in MainStmts(prog)
<1>1. /\ i + 1 \in DOMAIN code[0] /\ code'[0][i] = code[0][i + 1] /\ 1 \in DOMAIN code[0] /\ 1 < i + 1
      /\ DOMAIN code[0] = 1 .. Len(code[0])
  BY MainTail
<1>2. Earlier(code[0][1], code[0][i + 1]) BY <1>1 DEF Shape, CodeShape, Sorted
<1>3. code[0] \in Seq(MainStmts(prog)) BY DEF Shape, CodeShape
<1>4. code[0][1] \in MainStmts(prog) /\ code[0][i + 1] \in MainStmts(prog) BY <1>1, <1>3, ElementOfSeq
<1> QED BY <1>1, <1>2, <1>4

\* Who has been created changes with the statement that creates.
LEMMA CreatedStays ==
  ASSUME Shape, prog' = prog,
         \/ code'[0] = code[0]
         \/ code[0] # <<>> /\ code'[0] = Tail(code[0]) /\ code[0][1].do # "create"
  PROVE  Created' = Created
<1>0. P' = P BY DEF P
<1>1. CASE code'[0] = code[0] BY <1>0, <1>1 DEF Created
<1>2. CASE code[0] # <<>> /\ code'[0] = Tail(code[0]) /\ code[0][1].do # "create"
  <2>1. ASSUME NEW w
        PROVE  (\E i \in DOMAIN code[0] : code[0][i].do = "create" /\ code[0][i].h.n = w)
                 <=> \E i \in DOMAIN code'[0] : code'[0][i].do = "create" /\ code'[0][i].h.n = w
    <3>1. ~(code[0][1].do = "create" /\ code[0][1].h.n = w) BY <1>2
    <3>2. AheadNumber("create", w)' <=> AheadNumber("create", w) BY <1>2, <3>1, MainTail
    <3> QED BY <3>2 DEF AheadNumber
  <2> QED BY <1>0, <2>1 DEF Created
<1> QED BY <1>1, <1>2

LEMMA CreatedGrows ==
  ASSUME Shape, Staffed, prog' = prog, NEW t \in Threads, CreateThread(t)
  PROVE  /\ Arg(0).n \in Workers /\ Arg(0).n \in Created' /\ Arg(0).n \notin Created
         /\ \A w \in Workers : w # Arg(0).n => (w \in Created' <=> w \in Created)
<1> DEFINE n == Arg(0).n
<1>0. P' = P BY DEF P
<1>1. /\ code[0] # <<>> /\ code[0][1].do = "create" /\ code[0][1].h.n = n /\ n \in Workers
      /\ code'[0] = Tail(code[0])
  BY CreateShape DEF Arg
<1>2. /\ \A i \in DOMAIN code'[0] : i + 1 \in DOMAIN code[0] /\ code'[0][i] = code[0][i + 1]
      /\ 1 \in DOMAIN code[0]
  BY <1>1, MainTail
<1>3. ASSUME NEW i \in DOMAIN code'[0], code'[0][i].do = "create" PROVE code'[0][i].h.n # n
  <2>1. Earlier(code[0][1], code'[0][i]) BY <1>1, LaterRank
  <2>2. code[0][1].h.n < code'[0][i].h.n BY <1>1, <1>3, <2>1 DEF Earlier, Rank
  <2>3. code[0][1].h.n = n /\ n \in Nat BY <1>1, ThreadSets
  <2> QED BY <2>2, <2>3
<1>4. n \in Created'
  <2>1. PICK j \in DOMAIN P.main : P.main[j] = code[0][1] BY <1>2 DEF Staffed
  <2> QED BY <1>0, <1>1, <1>3, <2>1 DEF Created
<1>5. \A w \in Workers : w # n => (w \in Created' <=> w \in Created)
  <2>1. ASSUME NEW w \in Workers, w # n
        PROVE  (\E i \in DOMAIN code[0] : code[0][i].do = "create" /\ code[0][i].h.n = w)
                 <=> \E i \in DOMAIN code'[0] : code'[0][i].do = "create" /\ code'[0][i].h.n = w
    <3>1. ~(code[0][1].do = "create" /\ code[0][1].h.n = w) BY <1>1, <2>1
    <3>2. AheadNumber("create", w)' <=> AheadNumber("create", w) BY <1>1, <3>1, MainTail
    <3> QED BY <3>2 DEF AheadNumber
  <2> QED BY <1>0, <2>1 DEF Created
<1>6. n \notin Created BY <1>1, <1>2 DEF Created
<1> QED BY <1>1, <1>4, <1>5, <1>6

LEMMA StaffedNext == Shape /\ Staffed /\ [Next]_vars => Staffed'
<1> SUFFICES ASSUME Shape, Staffed, [Next]_vars PROVE Staffed' OBVIOUS
<1>0. Shape' /\ prog' = prog /\ P' = P /\ (stopped => stopped') BY Transitions, StoppedStays DEF P
\* Nobody is created: no code is begun, and none ends before the io_service stops.
<1>1. ASSUME \/ code'[0] = code[0]
             \/ code[0] # <<>> /\ code'[0] = Tail(code[0]) /\ code[0][1].do # "create",
             \A w \in Workers : code[w] = <<>> => code'[w] = <<>>,
             \A w \in Workers : code[w] # <<>> /\ code'[w] = <<>> => stopped' \/ P.mode = "catch"
      PROVE  Staffed'
  <2>1. /\ \A i \in DOMAIN code'[0] : \E j \in DOMAIN P.main : P.main[j] = code'[0][i]
        /\ Created' = Created
    <3>1. Created' = Created BY <1>0, <1>1, CreatedStays
    <3>2. CASE code'[0] = code[0] BY <1>0, <3>1, <3>2 DEF Staffed
    <3>3. CASE code[0] # <<>> /\ code'[0] = Tail(code[0]) /\ code[0][1].do # "create"
      <4>1. \A i \in DOMAIN code'[0] : \E j \in DOMAIN P.main : P.main[j] = code'[0][i]
        BY <1>0, <3>3, MainTail DEF Staffed
      <4> QED BY <1>0, <3>1, <4>1
    <3> QED BY <1>1, <3>2, <3>3
  <2>2. \A w \in Workers \ Created : code'[w] = <<>> BY <1>1 DEF Staffed
  <2>3. ASSUME P.mode # "catch", ~stopped', NEW w \in Created PROVE code'[w] # <<>>
    BY <1>0, <1>1, <2>3 DEF Staffed, Created
  <2> QED BY <1>0, <2>1, <2>2, <2>3 DEF Staffed
<1>2. CASE code' = code BY <1>1, <1>2
<1>3. ASSUME NEW t \in Threads, GoesOn(t) PROVE Staffed'
  <2>1. code'[t] = Tail(code[t]) /\ \A u \in Threads : u # t => code'[u] = code[u]
    BY <1>0, <1>3, Continuing DEF GoesOn
  <2>2. CASE t = 0 BY <1>1, <1>3, <2>1, <2>2, ThreadSets DEF GoesOn
  <2>3. CASE t \in Workers
    <3>1. code[t] \in Seq(Anything) /\ WorkerCode(prog, code[t]) BY <2>3, ThreadSets DEF Shape, CodeShape
    <3>2. Tail(code[t]) = <<>> => stopped' BY <1>3, <3>1, WorkerTail DEF GoesOn
    <3> QED BY <1>1, <1>3, <2>1, <2>3, <3>2, ThreadSets DEF GoesOn
  <2> QED BY <2>2, <2>3, ThreadSets
<1>4. ASSUME NEW t \in Workers, \A u \in Threads : u # t => code'[u] = code[u],
             code[t] # <<>>, code'[t] # <<>> \/ P.mode = "catch"
      PROVE  Staffed'
  BY <1>1, <1>4, ThreadSets
<1>5. ASSUME NEW t \in Threads, Throw(t) PROVE Staffed'
  BY <1>0, <1>2, <1>4, <1>5, ThrowShape, WorkerRun
<1>6. ASSUME NEW t \in Workers, NEW h, NEW ret, NEW c \in Seq(Anything), Pushes(t, h, ret, c), code[t] # <<>> PROVE Staffed'
  <2> DEFINE n == Len(Body(h))
             m == Len(c)
  <2>1. Len(code'[t]) = n + 1 + m /\ n \in Nat /\ m \in Nat BY <1>6, LenProperties DEF Pushes
  <2> HIDE DEF n, m
  <2>2. Len(code'[t]) # 0 BY <2>1
  <2>3. code'[t] # <<>> BY <2>2
  <2> QED BY <1>4, <1>6, <2>3 DEF Pushes
<1>7. ASSUME NEW t \in Threads, CallNext(t) PROVE Staffed'
  <2>1. Called(t, Head(queue), "return") BY <1>0, <1>7, CallNextShape
  <2> QED BY <1>6, <2>1, EmptySeq DEF Called
<1>8. ASSUME NEW t \in Threads, CallStrand(t) PROVE Staffed'
  <2>1. Called(t, Head(strandQ), "unlock") BY <1>0, <1>8, CallStrandShape
  <2> QED BY <1>6, <2>1, EmptySeq DEF Called
<1>9. ASSUME NEW t \in Threads, Dispatch(t) PROVE Staffed'
  <2>1. /\ t \in Workers /\ Pushes(t, Arg(t), Stmt("return", Arg(t)), Tail(code[t]))
        /\ code[t] \in Seq(Anything) /\ code[t] # <<>>
    BY <1>0, <1>9, DispatchShape
  <2> QED BY <1>6, <2>1, HeadTailProperties
<1>10. ASSUME NEW t \in Threads, StrandDispatch(t), CalledByWrapper(t) PROVE Staffed'
  <2>1. /\ t \in Workers /\ Pushes(t, Arg(t), Stmt("unlock", Arg(t)), Tail(code[t]))
        /\ code[t] \in Seq(Anything) /\ code[t] # <<>>
    BY <1>0, <1>10, StrandDispatchShape DEF CalledByWrapper
  <2> QED BY <1>6, <2>1, HeadTailProperties
<1>11. ASSUME NEW t \in Threads, CreateThread(t) PROVE Staffed'
  <2> DEFINE n == Arg(0).n
  <2>1. /\ code[0] # <<>> /\ code[0][1].do = "create" /\ code[0][1].h.n = n /\ n \in Workers
        /\ code'[0] = Tail(code[0]) /\ code'[n] = Do("run")
        /\ \A w \in Workers : w # n => code'[w] = code[w]
    BY <1>0, <1>11, CreateShape DEF Arg
  <2>2. /\ \A i \in DOMAIN code'[0] : i + 1 \in DOMAIN code[0] /\ code'[0][i] = code[0][i + 1]
        /\ \A i \in DOMAIN code[0] : i = 1 \/ (i - 1 \in DOMAIN code'[0] /\ code'[0][i - 1] = code[0][i])
        /\ 1 \in DOMAIN code[0]
    BY <1>0, <2>1, MainTail
  <2>3. \A i \in DOMAIN code'[0] : \E j \in DOMAIN P.main : P.main[j] = code'[0][i]
    BY <2>2 DEF Staffed
  <2>5. n \in Created' BY <1>0, <1>11, CreatedGrows
  <2>6. \A w \in Workers : w # n => (w \in Created' <=> w \in Created) BY <1>0, <1>11, CreatedGrows
  <2> HIDE DEF n
  <2>7. \A w \in Workers \ Created' : code'[w] = <<>> BY <2>1, <2>5, <2>6 DEF Staffed
  <2>8. ASSUME P.mode # "catch", ~stopped', NEW w \in Created' PROVE code'[w] # <<>>
    <3>1. w \in Workers BY DEF Created
    <3>2. CASE w = n BY <2>1, <3>2, WorkerRun
    <3>3. CASE w # n BY <1>0, <2>1, <2>6, <2>8, <3>1, <3>3 DEF Staffed
    <3> QED BY <3>2, <3>3
  <2> QED BY <1>0, <2>3, <2>7, <2>8 DEF Staffed
<1> QED BY <1>2, <1>3, <1>5, <1>7, <1>8, <1>9, <1>10, <1>11, Transitions

LEMMA StaffedInit == Init => Staffed
<1> SUFFICES ASSUME Init PROVE Staffed OBVIOUS
<1>1. code[0] = P.main /\ \A w \in Workers : code[w] = <<>> BY ThreadSets DEF Init
<1>2. Created = {} BY <1>1 DEF Created
<1> QED BY <1>1, <1>2 DEF Staffed

(***************************************************************************)
(* A pool that is joined has nothing left to do.                           *)
(***************************************************************************)
\* Without a call in progress every worker that exists is in run().
LEMMA Idle ==
  ASSUME Shape, Executing = {}, NEW w \in Workers, code[w] # <<>>
  PROVE  Len(code[w]) = 1 /\ code[w][1].do = "run"
<1>1. w \in Threads /\ Inside(w, Ends) = {} BY ThreadSets DEF Executing
<1>2. /\ code[w] \in Seq(Anything) /\ WorkerCode(prog, code[w]) /\ DOMAIN code[w] = 1 .. Len(code[w])
      /\ Len(code[w]) \in Nat /\ Len(code[w]) > 0
  BY <1>1, Actor DEF Shape, CodeShape
<1>3. \A i \in 1 .. Len(code[w]) : code[w][i].do \notin Ends BY <1>1, <1>2, Insides
<1> DEFINE n == Len(code[w])
<1>4. ~(n > 1) BY <1>2, <1>3 DEF WorkerCode
<1>5. n = 1
  <2>1. n \in Nat /\ n > 0 BY <1>2
  <2> HIDE DEF n
  <2> QED BY <1>4, <2>1
<1> QED BY <1>2, <1>5, WorkerTail

\* Then only main acts, or a worker leaves.
LEMMA IdleSteps ==
  ASSUME Shape, Executing = {}, NEW t \in Threads, code[t] # <<>>, code[t][1].do # "run"
  PROVE  t = 0
BY Idle, ThreadSets

LEMMA MainEnds ==
  ASSUME Shape, prog' = prog, code[0] # <<>>, code'[0] = Tail(code[0]),
         code[0][Len(code[0])].do = "join"
  PROVE  /\ code'[0] = <<>> => code[0][1].do = "join"
         /\ code'[0] # <<>> => code'[0][Len(code'[0])].do = "join"
<1>1. /\ DOMAIN code[0] = 1 .. Len(code[0]) /\ Len(code[0]) \in Nat /\ Len(code[0]) > 0
      /\ DOMAIN code'[0] = 1 .. Len(code[0]) - 1 /\ Len(code'[0]) = Len(code[0]) - 1
      /\ \A i \in DOMAIN code'[0] : i + 1 \in DOMAIN code[0] /\ code'[0][i] = code[0][i + 1]
  BY MainTail
<1> DEFINE n == Len(code[0])
           c == code[0]
           d == code'[0]
<1>2. /\ n \in Nat /\ n > 0 /\ Len(d) = n - 1 /\ d \in Seq(Anything)
      /\ \A i \in 1 .. n - 1 : d[i] = c[i + 1]
  <2>1. c \in Seq(Anything) BY ThreadSets, Actor
  <2>2. d \in Seq(Anything) BY <2>1, HeadTailProperties
  <2> QED BY <1>1, <2>2
<1>3. c[n].do = "join" OBVIOUS
<1>4. d # <<>> <=> Len(d) # 0 BY <1>2, EmptySeq
<1> HIDE DEF n, c, d
<1>5. CASE n = 1 BY <1>2, <1>3, <1>4, <1>5 DEF c, d
<1>6. CASE n # 1
  <2>1. n - 1 \in 1 .. n - 1 /\ n - 1 + 1 = n /\ n - 1 # 0 BY <1>2, <1>6
  <2>2. d # <<>> /\ d[Len(d)].do = "join" BY <1>2, <1>3, <1>4, <2>1
  <2> QED BY <2>2 DEF d
<1> QED BY <1>5, <1>6

LEMMA DrainedNext == Shape /\ Staffed /\ Drained /\ [Next]_vars => Drained'
<1> SUFFICES ASSUME Shape, Staffed, Drained, [Next]_vars, prog' \in Joined PROVE Drained'
  BY DEF Drained
<1>0. Shape' /\ prog' = prog /\ prog \in Joined /\ P' = P BY Transitions DEF P
<1>d. /\ code[0] # <<>> => code[0][Len(code[0])].do = "join"
      /\ \E i \in DOMAIN P.main : P.main[i].do = "create" /\ P.main[i].h.n = 1
      /\ prog # "cancelOperation" /\ ~work => \A op \in Feeding : ~Ahead(op)
      /\ prog = "cancelOperation" /\ Ahead("start") => ~stopped /\ \A w \in Workers : code[w] = <<>>
      /\ stopped => OutOfWork /\ \A op \in Feeding : ~Ahead(op)
      /\ code[0] = <<>> => stopped
  BY <1>0 DEF Drained
<1>1. CASE UNCHANGED vars
  <2>1. UNCHANGED <<code, queue, strandQ, work, stopped, pending>> BY <1>1 DEF vars
  <2>2. \A op : Ahead(op)' <=> Ahead(op) BY <2>1 DEF Ahead
  <2>3. OutOfWork' <=> OutOfWork BY <2>1 DEF OutOfWork, Executing, Inside
  <2> QED BY <1>0, <1>d, <2>1, <2>2, <2>3 DEF Drained
<1>2. CASE Expire \/ PeerAnswers
  <2>1. code' = code /\ work' = work /\ stopped' = stopped /\ ~stopped
    BY <1>2 DEF Expire, PeerAnswers, Complete
  <2> QED BY <1>0, <1>d, <2>1 DEF Drained, Ahead
\* A worker acts that is in a call: the io_service has not stopped.
<1>3. ASSUME NEW t \in Workers, code[t] # <<>>, code[t][1].do # "run", work' = work,
             \A u \in Threads : u # t => code'[u] = code[u], stopped' => OutOfWork'
      PROVE  Drained'
  <2>1. code'[0] = code[0] BY <1>3, ThreadSets
  <2>2. ~stopped
    <3>1. ASSUME stopped PROVE FALSE
      <4>1. Executing = {} BY <1>d, <3>1 DEF OutOfWork
      <4>2. t \in Threads /\ t # 0 BY ThreadSets
      <4> QED BY <1>3, <4>1, <4>2, IdleSteps
    <3> QED BY <3>1
  <2>3. prog = "cancelOperation" => ~Ahead("start") BY <1>3, <1>d
  <2>4. \A op : Ahead(op)' <=> Ahead(op) BY <2>1 DEF Ahead
  <2>5. ASSUME stopped' PROVE \A op \in Feeding : ~Ahead(op)
    <3>1. CASE prog # "cancelOperation"
      <4>1. ~work BY <1>3, <2>5 DEF OutOfWork
      <4> QED BY <1>d, <3>1, <4>1
    <3>2. CASE prog = "cancelOperation"
      <4>1. \A i \in DOMAIN code[0] : code[0][i].do \in {"start", "create", "cancel", "join"}
        <5>1. code[0] \in Seq(MainStmts(prog)) BY DEF Shape, CodeShape
        <5>2. \A i \in DOMAIN code[0] : code[0][i] \in MainStmts(prog) BY <5>1, ElementOfSeq, LenProperties
        <5> QED BY <3>2, <5>2 DEF MainStmts
      <4> QED BY <2>3, <3>2, <4>1 DEF Feeding, Ahead
    <3> QED BY <3>1, <3>2
  <2>6. code[0] # <<>> BY <1>d, <2>2
  <2> QED BY <1>0, <1>3, <1>d, <2>1, <2>3, <2>4, <2>5, <2>6 DEF Drained
\* main goes on with a statement that neither joins nor ends the work.
<1>4. ASSUME code[0] # <<>>, code'[0] = Tail(code[0]), code[0][1].do # "join", work' = work, stopped' = stopped,
             stopped => OutOfWork',
             prog = "cancelOperation" /\ Ahead("start")' => \A w \in Workers : code'[w] = <<>>
      PROVE  Drained'
  <2>1. \A op : Ahead(op)' => Ahead(op) BY <1>0, <1>4, MainTail
  <2>2. code'[0] # <<>> /\ code'[0][Len(code'[0])].do = "join" BY <1>0, <1>4, <1>d, MainEnds
  <2> QED BY <1>0, <1>4, <1>d, <2>1, <2>2 DEF Drained
<1>5. ASSUME NEW t \in Threads, code[t] # <<>>, Continue(t), UNCHANGED <<queue, strandQ, pending, work>>, OutOfWork
      PROVE  OutOfWork'
  <2>1. \A u \in Threads : Inside(u, Ends)' \subseteq Inside(u, Ends) BY <1>0, <1>5, NoNewCall
  <2> QED BY <1>5, <2>1 DEF OutOfWork, Executing
<1>6. ASSUME NEW t \in Threads, code[t] # <<>>, Continue(t)
      PROVE  /\ code'[t] = Tail(code[t]) /\ \A u \in Threads : u # t => code'[u] = code[u]
             /\ t = 0 => \A w \in Workers : code'[w] = code[w]
  BY <1>0, <1>6, Continuing, ThreadSets
<1>7. ASSUME NEW t \in Threads, CreateThread(t) PROVE Drained'
  <2>1. /\ t = 0 /\ code[0] # <<>> /\ code[0][1].do = "create" /\ Arg(0).n \in Workers
        /\ code'[0] = Tail(code[0]) /\ code'[Arg(0).n] = Do("run")
        /\ \A w \in Workers : w # Arg(0).n => code'[w] = code[w]
    BY <1>0, <1>7, CreateShape
  <2>2. UNCHANGED <<queue, strandQ, work, stopped, pending>> BY <1>7 DEF CreateThread, services
  <2>3. ASSUME stopped PROVE OutOfWork'
    <3>1. OutOfWork BY <1>d, <2>3
    <3>2. ASSUME NEW u \in Threads PROVE Inside(u, Ends)' = {}
      <4>1. Inside(u, Ends) = {} BY <3>1 DEF OutOfWork, Executing
      <4>2. CASE u = 0
        <5>1. ASSUME NEW i \in DOMAIN code'[0] PROVE code'[0][i].do \notin Ends
          BY <1>0, <2>1, LaterRank DEF MainStmts, MainOps, Ends
        <5> QED BY <4>2, <5>1 DEF Inside
      <4>3. CASE u \in Workers /\ u # Arg(0).n
        <5>1. code'[u] = code[u] BY <2>1, <4>3
        <5> QED BY <4>1, <5>1 DEF Inside
      <4>4. CASE u = Arg(0).n
        <5>1. code'[u] = Do("run") BY <2>1, <4>4
        <5> QED BY <5>1 DEF Inside, Do, Stmt, Ends
      <4> QED BY <4>2, <4>3, <4>4, ThreadSets
    <3> QED BY <2>2, <3>1, <3>2 DEF OutOfWork, Executing
  <2>4. ~Ahead("start")'
    <3>1. ASSUME NEW i \in DOMAIN code'[0] PROVE code'[0][i].do # "start"
      BY <1>0, <2>1, LaterRank DEF Earlier, Rank
    <3> QED BY <3>1 DEF Ahead
  <2> QED BY <1>4, <2>1, <2>2, <2>3, <2>4
<1>8. ASSUME NEW t \in Threads, Post(t) PROVE Drained'
  <2>1. /\ code[t] # <<>> /\ code[t][1].do = "post" /\ Continue(t)
        /\ UNCHANGED <<work, stopped, strandQ, pending>>
    BY <1>8 DEF Post, At
  <2>2. CASE t = 0
    <3>1. ~stopped
      <4>1. Ahead("post") BY <2>1, <2>2, ThreadSets, Actor DEF Ahead
      <4> QED BY <1>d, <4>1 DEF Feeding
    <3>2. prog # "cancelOperation" BY <2>1, <2>2, Actor DEF MainStmts
    <3> QED BY <1>4, <1>6, <2>1, <2>2, <3>1, <3>2
  <2>3. CASE t \in Workers
    <3>1. ~stopped'
      <4>1. Executing = {} => FALSE BY <2>1, <2>3, IdleSteps, ThreadSets
      <4> QED BY <1>d, <2>1, <4>1 DEF OutOfWork
    <3> QED BY <1>3, <1>6, <2>1, <2>3, <3>1
  <2> QED BY <2>2, <2>3, ThreadSets
<1>9. ASSUME NEW t \in Threads, StrandPost(t) PROVE Drained'
  <2>1. t = 0 /\ code[0] # <<>> /\ code[0][1].do = "strandPost" /\ Continue(0) BY <1>0, <1>9, StrandPostShape
  <2>2. UNCHANGED <<work, stopped>> BY <1>9 DEF StrandPost
  <2>3. ~stopped
    <3>1. Ahead("strandPost") BY <2>1, ThreadSets, Actor DEF Ahead
    <3> QED BY <1>d, <3>1 DEF Feeding
  <2>4. prog # "cancelOperation" BY <2>1, Actor, ThreadSets DEF MainStmts
  <2> QED BY <1>4, <1>6, <2>1, <2>2, <2>3, <2>4, ThreadSets
<1>10. ASSUME NEW t \in Workers, code[t] # <<>>, UNCHANGED <<work, stopped>>,
              \A u \in Threads : u # t => code'[u] = code[u], ~stopped
       PROVE  Drained'
  <2>1. code'[0] = code[0] BY <1>10, ThreadSets
  <2>2. prog = "cancelOperation" => ~Ahead("start") BY <1>10, <1>d
  <2>3. \A op : Ahead(op)' <=> Ahead(op) BY <2>1 DEF Ahead
  <2> QED BY <1>0, <1>10, <1>d, <2>1, <2>2, <2>3 DEF Drained
<1>11. ASSUME NEW t \in Workers, code[t] # <<>>, code[t][1].do # "run" PROVE ~stopped
  <2>1. Executing = {} => FALSE BY <1>11, IdleSteps, ThreadSets
  <2> QED BY <1>d, <2>1 DEF OutOfWork
<1>12. ASSUME NEW t \in Threads, Dispatch(t) PROVE Drained'
  BY <1>0, <1>10, <1>11, <1>12, DispatchShape
<1>13. ASSUME NEW t \in Threads, StrandDispatch(t) PROVE Drained'
  <2>1. t \in Workers /\ code[t] # <<>> /\ code[t][1].do = "strandDispatch" /\ UNCHANGED <<work, stopped>>
        /\ (CalledByWrapper(t) \/ QueuedByWrapper(t))
    BY <1>0, <1>13, StrandDispatchShape
  <2>2. \A u \in Threads : u # t => code'[u] = code[u]
    BY <1>6, <1>13, <2>1 DEF CalledByWrapper, QueuedByWrapper, Pushes
  <2> QED BY <1>10, <1>11, <2>1, <2>2
<1>14. ASSUME NEW t \in Threads, Start(t) PROVE Drained'
  <2>1. /\ code[t] # <<>> /\ code[t][1].do \in {"wait", "start", "tryStart"} /\ Continue(t)
        /\ code[t][1].do # "wait" => t = 0
    BY <1>0, <1>14, StartShape
  <2>2. t = 0 /\ code[0][1].do = "start" /\ prog = "cancelOperation"
    <3>1. CASE t \in Workers BY <1>0, <2>1, <3>1, Actor, ThreadSets DEF BodyStmts
    <3>2. CASE t = 0 BY <1>0, <2>1, <3>2, Actor DEF MainStmts
    <3> QED BY <3>1, <3>2, ThreadSets
  <2>3. ~stopped /\ \A w \in Workers : code[w] = <<>>
    <3>1. Ahead("start") BY <2>1, <2>2, ThreadSets, Actor DEF Ahead
    <3> QED BY <1>d, <2>2, <3>1
  <2>4. UNCHANGED <<work, stopped>> BY <1>14 DEF Start
  <2> QED BY <1>4, <1>6, <2>1, <2>2, <2>3, <2>4
<1>15. ASSUME NEW t \in Threads, Cancel(t) PROVE Drained'
  <2>1. t = 0 /\ code[0] # <<>> /\ code[0][1].do = "cancel" /\ Continue(0) BY <1>0, <1>15, CancelShape
  <2>2. UNCHANGED <<work, stopped, strandQ>> /\ (pending = {} => UNCHANGED <<queue, pending>>)
    BY <1>15 DEF Cancel
  <2>3. stopped => OutOfWork' BY <1>5, <1>d, <2>1, <2>2, ThreadSets DEF OutOfWork
  <2>4. prog = "cancelOperation" /\ Ahead("start")' => \A w \in Workers : code'[w] = <<>>
    BY <1>0, <1>6, <1>d, <2>1, MainTail, ThreadSets
  <2> QED BY <1>4, <1>6, <2>1, <2>2, <2>3, <2>4, ThreadSets
<1>16. ASSUME NEW t \in Threads, DropWork(t) PROVE Drained'
  <2>1. /\ code[t] # <<>> /\ code[t][1].do = "dropWork" /\ Continue(t) /\ work' = FALSE
        /\ UNCHANGED <<queue, strandQ, pending>> /\ stopped' = (stopped \/ OutOfWork')
    BY <1>16 DEF DropWork, At
  <2>2. t = 0 /\ prog # "cancelOperation"
    <3>1. t = 0 BY <2>1, ThreadSets, Actor DEF At, BodyOps, Ends
    <3> QED BY <2>1, <3>1, Actor DEF MainStmts
  <2>3. \A op \in Feeding : ~Ahead(op)'
    <3>1. ASSUME NEW i \in DOMAIN code'[0] PROVE code'[0][i].do \notin Feeding
      <4>1. Earlier(code[0][1], code'[0][i]) /\ code'[0][i] \in MainStmts(prog) /\ code[0][1] \in MainStmts(prog)
        BY <1>0, <1>6, <2>1, <2>2, LaterRank
      <4> QED BY <2>1, <2>2, <4>1 DEF Earlier, Rank, MainStmts, Feeding
    <3> QED BY <3>1 DEF Ahead
  <2>4. ~stopped
    <3>1. Ahead("dropWork") BY <2>1, <2>2, ThreadSets, Actor DEF Ahead
    <3> QED BY <1>d, <3>1 DEF Feeding
  <2>5. code'[0] # <<>> /\ code'[0][Len(code'[0])].do = "join"
    BY <1>0, <1>6, <1>d, <2>1, <2>2, MainEnds
  <2> QED BY <1>0, <1>d, <2>1, <2>2, <2>3, <2>4, <2>5 DEF Drained
<1>17. ASSUME NEW t \in Threads, Stop(t) \/ Enter(t) PROVE Drained'
  <2>1. code[t] # <<>> /\ code[t][1].do \in {"stop", "enter"} BY <1>17 DEF Stop, Enter, At
  <2>2. t = 0 BY <2>1, ThreadSets, Actor DEF At, BodyOps, Ends
  <2> QED BY <1>0, <2>1, <2>2, Actor DEF MainStmts
<1>18. ASSUME NEW t \in Threads, JoinAll(t) PROVE Drained'
  <2>1. /\ code[t] # <<>> /\ code[t][1].do = "join" /\ Continue(t)
        /\ \A w \in Workers : code[w] = <<>>
        /\ UNCHANGED <<queue, strandQ, pending, work, stopped>>
    BY <1>18 DEF JoinAll, At, services
  <2>2. t = 0 BY <2>1, ThreadSets
  <2>3. 1 \in Created
    <3>1. ASSUME NEW i \in DOMAIN code[0], code[0][i].do = "create" PROVE FALSE
      <4>1. i = 1 \/ (i - 1 \in DOMAIN code'[0] /\ code'[0][i - 1] = code[0][i])
        BY <1>0, <1>6, <2>1, <2>2, MainTail
      <4>2. i - 1 \in DOMAIN code'[0] /\ code'[0][i - 1].do = "create" BY <2>1, <2>2, <3>1, <4>1
      <4>3. Earlier(code[0][1], code'[0][i - 1]) BY <1>0, <1>6, <2>1, <2>2, <4>2, LaterRank
      <4> QED BY <2>1, <2>2, <4>2, <4>3 DEF Earlier, Rank
    <3> QED BY <1>d, <3>1, ThreadSets DEF Created
  <2>4. P.mode # "catch" BY <1>0, Settings DEF P
  <2>5. stopped BY <2>1, <2>3, <2>4 DEF Staffed, Created
  <2>6. OutOfWork' BY <1>5, <1>d, <2>1, <2>5
  <2>7. \A op : Ahead(op)' => Ahead(op) BY <1>0, <1>6, <2>1, <2>2, MainTail
  <2>8. code'[0] # <<>> => code'[0][Len(code'[0])].do = "join"
    BY <1>0, <1>6, <1>d, <2>1, <2>2, MainEnds
  <2> QED BY <1>0, <1>d, <2>1, <2>5, <2>6, <2>7, <2>8 DEF Drained
<1>19. ASSUME NEW t \in Threads, Throw(t) PROVE Drained'
  BY <1>0, <1>19, ThrowShape
<1>20. ASSUME NEW t \in Threads, CallNext(t) PROVE Drained'
  <2>1. Called(t, Head(queue), "return") /\ UNCHANGED <<work, stopped>> BY <1>0, <1>20, CallNextShape
  <2>2. ~stopped BY <1>20 DEF CallNext, Serves
  <2> QED BY <1>10, <2>1, <2>2, EmptySeq DEF Called, Pushes
<1>21. ASSUME NEW t \in Threads, CallStrand(t) PROVE Drained'
  <2>1. Called(t, Head(strandQ), "unlock") /\ UNCHANGED <<work, stopped>> BY <1>0, <1>21, CallStrandShape
  <2>2. ~stopped BY <1>21 DEF CallStrand, Serves
  <2> QED BY <1>10, <2>1, <2>2, EmptySeq DEF Called, Pushes
<1>22. ASSUME NEW t \in Threads, Return(t) PROVE Drained'
  <2>1. code[t] # <<>> /\ code[t][1].do \in {"return", "unlock"} /\ Continue(t) /\ work' = work
        /\ stopped' = (stopped \/ OutOfWork')
    BY <1>22 DEF Return, At
  <2>2. t \in Workers BY <2>1, Carried
  <2>3. ~stopped BY <1>11, <2>1, <2>2
  <2> QED BY <1>3, <1>6, <2>1, <2>2, <2>3
<1>23. ASSUME NEW t \in Threads, Leave(t) PROVE Drained'
  <2>1. /\ code[t] # <<>> /\ code[t][1].do \in {"run", "poll"} /\ Continue(t)
        /\ UNCHANGED <<queue, strandQ, pending, work>> /\ stopped' = (stopped \/ OutOfWork)
    BY <1>23 DEF Leave, At
  <2>2. t \in Workers
    <3>1. t # 0 BY <1>0, <2>1, Actor DEF MainStmts, Joined, Alone
    <3> QED BY <3>1, ThreadSets
  <2>3. OutOfWork => OutOfWork' BY <1>5, <2>1
  <2>4. code'[0] = code[0] BY <1>6, <2>1, <2>2, ThreadSets
  <2>5. \A op : Ahead(op)' <=> Ahead(op) BY <2>4 DEF Ahead
  <2>6. prog = "cancelOperation" => ~Ahead("start") BY <1>d, <2>1, <2>2
  <2>7. ASSUME OutOfWork PROVE \A op \in Feeding : ~Ahead(op)
    <3>1. CASE prog # "cancelOperation" BY <1>d, <2>7, <3>1 DEF OutOfWork
    <3>2. CASE prog = "cancelOperation"
      <4>1. code[0] \in Seq(MainStmts(prog)) BY DEF Shape, CodeShape
      <4>2. \A i \in DOMAIN code[0] : code[0][i] \in MainStmts(prog) BY <4>1, ElementOfSeq, LenProperties
      <4>3. \A i \in DOMAIN code[0] : code[0][i].do \in {"start", "create", "cancel", "join"}
        BY <3>2, <4>2 DEF MainStmts
      <4> QED BY <2>6, <3>2, <4>3 DEF Feeding, Ahead
    <3> QED BY <3>1, <3>2
  <2> QED BY <1>0, <1>d, <2>1, <2>3, <2>4, <2>5, <2>6, <2>7 DEF Drained
<1> QED BY <1>1, <1>2, <1>7, <1>8, <1>9, <1>12, <1>13, <1>14, <1>15, <1>16, <1>17, <1>18, <1>19, <1>20, <1>21,
      <1>22, <1>23, StepCases

\* The mains that join a pool create the thread number 1 and end in the join.
CreatesOne(s) == \E i \in DOMAIN s : s[i].do = "create" /\ s[i].h.n = 1
Joining(s) == s \in Seq(Anything) /\ CreatesOne(s) /\ s # <<>> /\ s[Len(s)].do = "join"

LEMMA Pieces ==
  /\ \A op \in MainOps, kind \in Kinds, n \in Nat : Each(op, kind, n) \in Seq(Anything)
  /\ \A n \in Nat : PostWrapped("Print", n) \in Seq(Anything)
  /\ \A op \in MainOps : Do(op) \in Seq(Anything)
  /\ \A n \in Nat \ {0} : CreateThreads(n) \in Seq(Anything) /\ CreatesOne(CreateThreads(n))
<1>0. \A op \in MainOps, h \in Handler : Stmt(op, h) \in Anything
  BY DEF Stmt, Anything, MainOps, Statements
<1>1. ASSUME NEW op \in MainOps, NEW kind \in Kinds, NEW n \in Nat PROVE Each(op, kind, n) \in Seq(Anything)
  <2> DEFINE m == AtMost(n, MaxPosts)
             A == Anything
  <2>1. m \in Nat /\ \A i \in Nat : Stmt(op, Call(kind, i)) \in A BY <1>0, LoopBound, Calls
  <2>2. Each(op, kind, n) = [i \in 1 .. m |-> Stmt(op, Call(kind, i))] BY DEF Each
  <2> HIDE DEF m, A
  <2>3. Each(op, kind, n) \in [1 .. m -> A] BY <2>1, <2>2
  <2>4. Each(op, kind, n) \in Seq(A) BY <2>1, <2>3, SeqDef
  <2> QED BY <2>4 DEF A
<1>2. ASSUME NEW n \in Nat PROVE PostWrapped("Print", n) \in Seq(Anything)
  <2> DEFINE m == AtMost(n, MaxPosts)
             A == Anything
  <2>1. m \in Nat /\ \A i \in Nat : Stmt("post", Wrap(Call("Print", i))) \in A
    BY <1>0, LoopBound, Calls DEF MainOps, Kinds
  <2>2. PostWrapped("Print", n) = [i \in 1 .. m |-> Stmt("post", Wrap(Call("Print", i)))] BY DEF PostWrapped
  <2> HIDE DEF m, A
  <2>3. PostWrapped("Print", n) \in [1 .. m -> A] BY <2>1, <2>2
  <2>4. PostWrapped("Print", n) \in Seq(A) BY <2>1, <2>3, SeqDef
  <2> QED BY <2>4 DEF A
<1>3. ASSUME NEW op \in MainOps PROVE Do(op) \in Seq(Anything)
  <2>1. Stmt(op, Call("none", 0)) \in Anything BY <1>0, Calls DEF Kinds
  <2> QED BY <2>1 DEF Do
<1>4. ASSUME NEW n \in Nat \ {0} PROVE CreateThreads(n) \in Seq(Anything) /\ CreatesOne(CreateThreads(n))
  <2> DEFINE m == AtMost(n, MaxPool)
             A == Anything
             c == CreateThreads(n)
  <2>1. m \in Nat /\ \A i \in Nat : Stmt("create", Call("WorkerThread", i)) \in A
    BY <1>0, LoopBound, Calls DEF MainOps, Kinds
  <2>2. c = [i \in 1 .. m |-> Stmt("create", Call("WorkerThread", i))] BY DEF CreateThreads
  <2>3. 1 \in 1 .. m BY WorkerPoolAssumption DEF AtMost
  <2>4. Stmt("create", Call("WorkerThread", 1)).do = "create" /\ Stmt("create", Call("WorkerThread", 1)).h.n = 1
    BY DEF Stmt, Call
  <2> HIDE DEF m, A, c
  <2>5. c \in [1 .. m -> A] BY <2>1, <2>2
  <2>6. c \in Seq(A) BY <2>1, <2>5, SeqDef
  <2>7. 1 \in DOMAIN c /\ c[1].do = "create" /\ c[1].h.n = 1 BY <2>2, <2>3, <2>4
  <2>8. CreatesOne(c) BY <2>7 DEF CreatesOne
  <2> QED BY <2>6, <2>8 DEF A, c
<1> QED BY <1>1, <1>2, <1>3, <1>4

LEMMA Joins ==
  /\ \A a, b \in Seq(Anything) : a \o b \in Seq(Anything) /\ (CreatesOne(a) \/ CreatesOne(b) => CreatesOne(a \o b))
  /\ \A a \in Seq(Anything) : CreatesOne(a) => Joining(a \o Do("join"))
<1>1. ASSUME NEW a \in Seq(Anything), NEW b \in Seq(Anything)
      PROVE  a \o b \in Seq(Anything) /\ (CreatesOne(a) \/ CreatesOne(b) => CreatesOne(a \o b))
  <2>1. /\ a \o b \in Seq(Anything) /\ DOMAIN (a \o b) = 1 .. Len(a) + Len(b)
        /\ DOMAIN a = 1 .. Len(a) /\ DOMAIN b = 1 .. Len(b) /\ Len(a) \in Nat /\ Len(b) \in Nat
        /\ \A i \in 1 .. Len(a) + Len(b) : (a \o b)[i] = IF i <= Len(a) THEN a[i] ELSE b[i - Len(a)]
    BY ConcatProperties, LenProperties
  <2>2. ASSUME CreatesOne(a) PROVE CreatesOne(a \o b)
    <3>1. PICK i \in DOMAIN a : a[i].do = "create" /\ a[i].h.n = 1 BY <2>2 DEF CreatesOne
    <3>2. i \in DOMAIN (a \o b) /\ (a \o b)[i] = a[i] BY <2>1
    <3> QED BY <3>1, <3>2 DEF CreatesOne
  <2>3. ASSUME CreatesOne(b) PROVE CreatesOne(a \o b)
    <3>1. PICK i \in DOMAIN b : b[i].do = "create" /\ b[i].h.n = 1 BY <2>3 DEF CreatesOne
    <3>2. i + Len(a) \in DOMAIN (a \o b) /\ (a \o b)[i + Len(a)] = b[i] BY <2>1
    <3> QED BY <3>1, <3>2 DEF CreatesOne
  <2> QED BY <2>1, <2>2, <2>3
<1>2. ASSUME NEW a \in Seq(Anything), CreatesOne(a) PROVE Joining(a \o Do("join"))
  <2> DEFINE j == Do("join")
             s == a \o j
  <2>1. j \in Seq(Anything) /\ Len(j) = 1 /\ j[1].do = "join" BY Pieces DEF Do, Stmt, MainOps
  <2>2. s \in Seq(Anything) /\ CreatesOne(s) BY <1>1, <1>2, <2>1
  <2> HIDE DEF j
  <2>3. Len(s) = Len(a) + 1 /\ Len(a) \in Nat /\ s[Len(a) + 1] = j[Len(a) + 1 - Len(a)]
    BY <2>1, ConcatProperties, LenProperties
  <2>4. s # <<>> /\ s[Len(s)].do = "join" BY <2>1, <2>2, <2>3
  <2> QED BY <2>2, <2>4 DEF Joining, j
<1> QED BY <1>1, <1>2

LEMMA JoinedMains == \A p \in Joined : Joining(Programs[p].main)
<1>0. /\ {"post", "dropWork", "strandPost", "start", "cancel"} \subseteq MainOps
      /\ {"CalculateFactorial", "Print"} \subseteq Kinds
      /\ CreateThreads(5) \in Seq(Anything) /\ CreatesOne(CreateThreads(5))
      /\ CreateThreads(1) \in Seq(Anything) /\ CreatesOne(CreateThreads(1))
      /\ Do("dropWork") \in Seq(Anything) /\ Do("cancel") \in Seq(Anything)
  <2>1. {"post", "dropWork", "strandPost", "start", "cancel"} \subseteq MainOps BY DEF MainOps
  <2>2. {"CalculateFactorial", "Print"} \subseteq Kinds BY DEF Kinds
  <2>3. 5 \in Nat \ {0} /\ 1 \in Nat \ {0} OBVIOUS
  <2> QED BY <2>1, <2>2, <2>3, Pieces
<1>1. ASSUME NEW a \in Seq(Anything), NEW b \in Seq(Anything), CreatesOne(a)
      PROVE  Joining(a \o b \o Do("dropWork") \o Do("join"))
  <2>1. a \o b \in Seq(Anything) /\ CreatesOne(a \o b) BY <1>1, Joins
  <2>2. a \o b \o Do("dropWork") \in Seq(Anything) /\ CreatesOne(a \o b \o Do("dropWork")) BY <1>0, <2>1, Joins
  <2> QED BY <2>2, Joins
<1>2. Joining(Programs["post"].main)
  <2>1. Each("post", "CalculateFactorial", 3) \in Seq(Anything) BY <1>0, Pieces
  <2> QED BY <1>0, <1>1, <2>1 DEF Programs, Program, PostProgram
<1>3. Joining(Programs["nonstrand"].main)
  <2>1. Each("post", "Print", 5) \in Seq(Anything) BY <1>0, Pieces
  <2> QED BY <1>0, <1>1, <2>1 DEF Programs, Program, NonstrandProgram
<1>4. Joining(Programs["strand"].main)
  <2>1. Each("strandPost", "Print", 5) \in Seq(Anything) BY <1>0, Pieces
  <2> QED BY <1>0, <1>1, <2>1 DEF Programs, Program, StrandProgram
<1>5. Joining(Programs["strandwrap"].main)
  <2>1. PostWrapped("Print", 6) \in Seq(Anything) BY Pieces
  <2> QED BY <1>0, <1>1, <2>1 DEF Programs, Program, StrandwrapProgram
<1>6. Joining(Programs["dispatch"].main)
  <2>1. Stmt("post", Call("Running", 0)) \in Anything BY Calls DEF Anything, Stmt, Statements, Kinds
  <2>2. <<Stmt("post", Call("Running", 0))>> \in Seq(Anything) BY <2>1
  <2> QED BY <1>0, <1>1, <2>2 DEF Programs, Program, DispatchProgram
<1>7. Joining(Programs["cancelOperation"].main)
  <2> DEFINE s == <<Stmt("start", Call("OnConnect", 0))>>
             c == CreateThreads(1)
  <2>1. Stmt("start", Call("OnConnect", 0)) \in Anything BY Calls DEF Anything, Stmt, Statements, Kinds
  <2>2. s \in Seq(Anything) BY <2>1
  <2>3. c \in Seq(Anything) /\ CreatesOne(c) BY <1>0
  <2>4. Programs["cancelOperation"].main = s \o c \o Do("cancel") \o Do("join")
    BY DEF Programs, Program, CancelOperationProgram
  <2> HIDE DEF s, c
  <2>5. s \o c \in Seq(Anything) /\ CreatesOne(s \o c) BY <2>2, <2>3, Joins
  <2>6. s \o c \o Do("cancel") \in Seq(Anything) /\ CreatesOne(s \o c \o Do("cancel")) BY <1>0, <2>5, Joins
  <2> QED BY <2>4, <2>6, Joins
<1> QED BY <1>2, <1>3, <1>4, <1>5, <1>6, <1>7 DEF Joined

LEMMA DrainedInit == Init => Drained
<1> SUFFICES ASSUME Init, prog \in Joined PROVE Drained BY DEF Drained
<1>1. Joining(P.main) BY JoinedMains DEF P
<1>2. /\ code[0] = P.main /\ (\A w \in Workers : code[w] = <<>>) /\ ~stopped /\ work = P.work
  BY ThreadSets DEF Init
<1>3. prog # "cancelOperation" => work BY <1>2, Settings DEF P
<1> QED BY <1>1, <1>2, <1>3 DEF Drained, Joining, CreatesOne

\* When main has joined its threads no handler is queued, none runs, and no
\* operation is pending.
THEOREM WorkIsDone == Spec => []AllWorkDone
<1>1. Drained => AllWorkDone BY DEF Drained, AllWorkDone, Joined, Finished, OutOfWork
<1>2. Init => Staffed /\ Drained BY StaffedInit, DrainedInit
<1>3. Shape /\ Staffed /\ Drained /\ [Next]_vars => (Staffed /\ Drained)' BY StaffedNext, DrainedNext
<1> QED BY <1>1, <1>2, <1>3, Shaped, PTL DEF Spec

(***************************************************************************)
(* Handlers begin in the order in which they were posted.                  *)
(***************************************************************************)
LEMMA Appended ==
  ASSUME NEW S, NEW s \in Seq(S), NEW x \in S
  PROVE  /\ Append(s, x) \in Seq(S) /\ Len(Append(s, x)) = Len(s) + 1 /\ Len(s) \in Nat
         /\ DOMAIN s = 1 .. Len(s) /\ DOMAIN Append(s, x) = 1 .. Len(s) + 1
         /\ \A i \in DOMAIN s : i \in DOMAIN Append(s, x) /\ Append(s, x)[i] = s[i]
         /\ Append(s, x)[Len(s) + 1] = x
         /\ \A i \in DOMAIN Append(s, x) : i \in DOMAIN s \/ i = Len(s) + 1
<1>1. /\ Append(s, x) \in Seq(S) /\ Len(Append(s, x)) = Len(s) + 1 /\ Len(s) \in Nat
      /\ DOMAIN s = 1 .. Len(s)
      /\ \A i \in 1 .. Len(s) : Append(s, x)[i] = s[i]
      /\ Append(s, x)[Len(s) + 1] = x
  BY AppendProperties, LenProperties
<1>2. DOMAIN Append(s, x) = 1 .. Len(s) + 1 BY <1>1, LenProperties
<1> QED BY <1>1, <1>2

LEMMA Tailed ==
  ASSUME NEW S, NEW s \in Seq(S), s # <<>>
  PROVE  /\ Tail(s) \in Seq(S) /\ Len(Tail(s)) = Len(s) - 1 /\ Len(s) \in Nat /\ Len(s) > 0
         /\ 1 \in DOMAIN s /\ Head(s) = s[1] /\ DOMAIN s = 1 .. Len(s) /\ DOMAIN Tail(s) = 1 .. Len(s) - 1
         /\ \A i \in DOMAIN Tail(s) : i \in Nat /\ i > 0 /\ i + 1 \in DOMAIN s /\ Tail(s)[i] = s[i + 1] /\ 1 < i + 1
<1>1. /\ Tail(s) \in Seq(S) /\ Len(Tail(s)) = Len(s) - 1 /\ Len(s) \in Nat /\ Len(s) > 0
      /\ DOMAIN s = 1 .. Len(s) /\ \A i \in 1 .. Len(s) - 1 : Tail(s)[i] = s[i + 1]
  BY HeadTailProperties, LenProperties, EmptySeq
<1>2. DOMAIN Tail(s) = 1 .. Len(s) - 1 BY <1>1, LenProperties
<1>3. Head(s) = s[1] BY HeadTailProperties
<1> QED BY <1>1, <1>2, <1>3

\* main goes on with another statement.
LEMMA InLineTail ==
  ASSUME NEW b \in Seq(Handler), NEW q \in Seq(Handler), NEW c \in Seq(Anything), c # <<>>, NEW op, InLine(b, q, c, op)
  PROVE  InLine(b, q, Tail(c), op)
BY Tailed DEF InLine

\* It gives the next handler to the queue.
LEMMA InLineGive ==
  ASSUME NEW b \in Seq(Handler), NEW q \in Seq(Handler), NEW c \in Seq(Anything), c # <<>>, Sorted(c),
         NEW op \in MainOps, InLine(b, q, c, op), c[1].do = op, c[1].h \in Handler, c[1].h.kind # "TimerHandler"
  PROVE  InLine(b, Append(q, c[1].h), Tail(c), op)
<1> DEFINE r == Append(q, c[1].h)
           d == Tail(c)
<1>1. /\ DOMAIN q = 1 .. Len(q) /\ Len(q) \in Nat /\ DOMAIN r = 1 .. Len(q) + 1
      /\ \A i \in DOMAIN q : r[i] = q[i]
      /\ r[Len(q) + 1] = c[1].h
      /\ \A i \in DOMAIN r : i \in DOMAIN q \/ i = Len(q) + 1
  BY Appended
<1>2. 1 \in DOMAIN c /\ \A i \in DOMAIN d : i + 1 \in DOMAIN c /\ d[i] = c[i + 1] /\ 1 < i + 1
  BY Tailed
<1> HIDE DEF r, d
<1>3. ASSUME NEW j \in DOMAIN d, d[j].do = op PROVE MayPrecede(c[1].h, d[j].h)
  <2>1. Earlier(c[1], c[j + 1]) BY <1>2 DEF Sorted
  <2>2. Rank[c[1].do] < Rank[c[j + 1].do] => FALSE
    <3>1. c[1].do = c[j + 1].do BY <1>2, <1>3
    <3>2. Rank[op] \in 0 .. 9 BY RankNat
    <3> DEFINE k == Rank[op]
    <3> HIDE DEF k
    <3>3. ~(k < k) BY <3>2 DEF k
    <3> QED BY <1>2, <1>3, <3>1, <3>3 DEF k
  <2>3. c[1].h.n < c[j + 1].h.n BY <2>1, <2>2 DEF Earlier
  <2> QED BY <1>2, <2>3 DEF MayPrecede
<1>4. \A i \in DOMAIN q : MayPrecede(q[i], c[1].h) BY <1>2 DEF InLine
<1>5. \A i \in DOMAIN b : MayPrecede(b[i], c[1].h) BY <1>2 DEF InLine
<1>6. \A i, j \in DOMAIN r : i < j => MayPrecede(r[i], r[j])
  <2>1. ASSUME NEW i \in DOMAIN r, NEW j \in DOMAIN r, i < j PROVE i \in DOMAIN q /\ (j \in DOMAIN q \/ j = Len(q) + 1)
    BY <1>1, <2>1
  <2> QED BY <1>1, <1>4, <2>1 DEF InLine
<1>7. \A i \in DOMAIN b, j \in DOMAIN r : MayPrecede(b[i], r[j]) BY <1>1, <1>5 DEF InLine
<1>8. \A i \in DOMAIN r, j \in DOMAIN d : d[j].do = op => MayPrecede(r[i], d[j].h) BY <1>1, <1>2, <1>3 DEF InLine
<1>9. \A i \in DOMAIN b, j \in DOMAIN d : d[j].do = op => MayPrecede(b[i], d[j].h) BY <1>2 DEF InLine
<1>10. \A i, j \in DOMAIN b : i < j => MayPrecede(b[i], b[j]) BY DEF InLine
<1>11. InLine(b, r, d, op) BY <1>6, <1>7, <1>8, <1>9, <1>10 DEF InLine
<1> QED BY <1>11 DEF r, d

\* A handler joins the end of a sequence that may precede it.
LEMMA InOrder ==
  ASSUME NEW s \in Seq(Handler), NEW x \in Handler,
         \A i, j \in DOMAIN s : i < j => MayPrecede(s[i], s[j]), \A i \in DOMAIN s : MayPrecede(s[i], x)
  PROVE  \A i, j \in DOMAIN Append(s, x) : i < j => MayPrecede(Append(s, x)[i], Append(s, x)[j])
<1> DEFINE r == Append(s, x)
<1>1. /\ DOMAIN s = 1 .. Len(s) /\ Len(s) \in Nat /\ DOMAIN r = 1 .. Len(s) + 1
      /\ \A i \in DOMAIN s : r[i] = s[i]
      /\ r[Len(s) + 1] = x
  BY Appended
<1> HIDE DEF r
<1>2. ASSUME NEW i \in DOMAIN r, NEW j \in DOMAIN r, i < j PROVE i \in DOMAIN s /\ (j \in DOMAIN s \/ j = Len(s) + 1)
  BY <1>1, <1>2
<1>3. \A i, j \in DOMAIN r : i < j => MayPrecede(r[i], r[j]) BY <1>1, <1>2
<1> QED BY <1>3 DEF r

\* The first of the queue begins.
LEMMA InLineBegin ==
  ASSUME NEW b \in Seq(Handler), NEW q \in Seq(Handler), NEW c \in Seq(Anything), q # <<>>, NEW op, InLine(b, q, c, op)
  PROVE  InLine(Append(b, Head(q)), Tail(q), c, op) /\ InLine(b, Tail(q), c, op)
<1> DEFINE x == Head(q)
           r == Append(b, x)
           d == Tail(q)
<1>1. /\ 1 \in DOMAIN q /\ x = q[1] /\ x \in Handler
      /\ \A i \in DOMAIN d : i \in Nat /\ i + 1 \in DOMAIN q /\ d[i] = q[i + 1] /\ 1 < i + 1
  BY Tailed, HeadTailProperties
<1>2. \A i \in DOMAIN b : MayPrecede(b[i], x) BY <1>1 DEF InLine
<1>3. /\ \A i \in DOMAIN b : r[i] = b[i]
      /\ r[Len(b) + 1] = x
      /\ \A i \in DOMAIN r : i \in DOMAIN b \/ i = Len(b) + 1
  BY <1>1, Appended
<1>4. \A i, j \in DOMAIN r : i < j => MayPrecede(r[i], r[j]) BY <1>1, <1>2, InOrder DEF InLine
<1> HIDE DEF x, r, d
<1>5. \A i, j \in DOMAIN d : i < j => MayPrecede(d[i], d[j])
  <2>1. ASSUME NEW i \in DOMAIN d, NEW j \in DOMAIN d, i < j PROVE i + 1 < j + 1 BY <1>1, <2>1
  <2> QED BY <1>1, <2>1 DEF InLine
<1>6. \A j \in DOMAIN d : MayPrecede(x, d[j]) BY <1>1 DEF InLine
<1>7. \A i \in DOMAIN r, j \in DOMAIN d : MayPrecede(r[i], d[j]) BY <1>1, <1>3, <1>6 DEF InLine
<1>8. \A i \in DOMAIN r, j \in DOMAIN c : c[j].do = op => MayPrecede(r[i], c[j].h) BY <1>1, <1>3 DEF InLine
<1>9. \A i \in DOMAIN d, j \in DOMAIN c : c[j].do = op => MayPrecede(d[i], c[j].h) BY <1>1 DEF InLine
<1>10. InLine(r, d, c, op) BY <1>4, <1>5, <1>7, <1>8, <1>9 DEF InLine
<1>11. InLine(b, d, c, op) BY <1>1, <1>5, <1>9 DEF InLine
<1> QED BY <1>10, <1>11 DEF x, r, d

\* A timer's handler joins the queue, or begins at once, when main has no more to post.
LEMMA InLineTick ==
  ASSUME NEW b \in Seq(Handler), NEW q \in Seq(Handler), NEW c \in Seq(Anything), NEW op, InLine(b, q, c, op),
         \A i \in DOMAIN c : c[i].do # op
  PROVE  /\ InLine(b, Append(q, Tick), c, op)
         /\ q = <<>> => InLine(Append(b, Tick), q, c, op)
<1>1. Tick \in Handler /\ \A x : MayPrecede(x, Tick) BY Calls DEF MayPrecede, Tick, Call, Kinds
<1> DEFINE r == Append(q, Tick)
           s == Append(b, Tick)
<1>2. /\ \A i \in DOMAIN q : r[i] = q[i]
      /\ r[Len(q) + 1] = Tick
      /\ \A i \in DOMAIN r : i \in DOMAIN q \/ i = Len(q) + 1
  BY <1>1, Appended
<1>3. \A i, j \in DOMAIN r : i < j => MayPrecede(r[i], r[j]) BY <1>1, InOrder DEF InLine
<1>4. \A i, j \in DOMAIN s : i < j => MayPrecede(s[i], s[j]) BY <1>1, InOrder DEF InLine
<1>5. q = <<>> => DOMAIN q = {} BY EmptySeq, LenProperties
<1> HIDE DEF r, s
<1>6. InLine(b, r, c, op) BY <1>1, <1>2, <1>3 DEF InLine
<1>7. q = <<>> => InLine(s, q, c, op) BY <1>4, <1>5 DEF InLine
<1> QED BY <1>6, <1>7 DEF r, s

\* After a call with an empty body a worker has no more of these statements than before.
LEMMA CallTicks ==
  ASSUME Shape, Shape', NEW t \in Workers, NEW h, NEW end \in Ends, NEW c \in Seq(Anything),
         Pushes(t, h, Stmt(end, h), c), Body(h) = <<>>,
         \A i \in DOMAIN c : \E j \in DOMAIN code[t] : c[i] = code[t][j]
  PROVE  \A w \in Workers : Ticks(w)' => Ticks(w)
<1> DEFINE m == Len(c)
<1>1. /\ \A u \in Threads : u # t => code'[u] = code[u]
      /\ Len(code'[t]) = 1 + m /\ code'[t][1] = Stmt(end, h) /\ \A i \in 1 .. m : code'[t][1 + i] = c[i]
      /\ m \in Nat /\ DOMAIN c = 1 .. m
  BY EmptySeq, LenProperties DEF Pushes
<1>2. code'[t] \in Seq(Anything) BY ThreadSets DEF Shape, CodeShape
<1>3. DOMAIN code'[t] = 1 .. 1 + m BY <1>1, <1>2, LenProperties
<1> HIDE DEF m
<1>4. ASSUME NEW i \in DOMAIN code'[t], code'[t][i].do \in {"post", "wait", "strandDispatch"} PROVE Ticks(t)
  <2>1. i # 1 BY <1>1, <1>4 DEF Stmt, Ends
  <2>2. i - 1 \in 1 .. m /\ i = 1 + (i - 1) BY <1>1, <1>3, <2>1
  <2>3. code'[t][i] = c[i - 1] BY <1>1, <2>2
  <2>4. \E j \in DOMAIN code[t] : code'[t][i] = code[t][j] BY <1>1, <2>2, <2>3
  <2> QED BY <1>4, <2>4 DEF Ticks
<1>5. Ticks(t)' => Ticks(t) BY <1>4 DEF Ticks
<1>6. ASSUME NEW w \in Workers, w # t PROVE Ticks(w)' => Ticks(w)
  <2>1. code'[w] = code[w] BY <1>1, <1>6, ThreadSets
  <2> QED BY <2>1 DEF Ticks
<1> QED BY <1>5, <1>6

LEMMA NoBodies ==
  ASSUME NEW h, ~h.wrapped
  PROVE  /\ prog = "strand" /\ h.kind # "none" => Body(h) = <<>>
         /\ prog = "timer3" /\ h.kind # "TimerHandler" => Body(h) = <<>>
         /\ prog = "dispatch" /\ h.kind # "Running" => Body(h) = <<>>
         /\ prog = "exception" /\ h.kind = "ThrowAnException" => Body(h) = Do("throw")
<1>1. ASSUME prog = "strand", h.kind # "none" PROVE Body(h) = <<>>
  <2>1. P.body = NoBody BY <1>1, BodyTable DEF P, Programs
  <2> QED BY <1>1, <2>1 DEF Body, NoBody
<1>2. ASSUME prog = "timer3", h.kind # "TimerHandler" PROVE Body(h) = <<>>
  <2>1. P.body = [TimerHandler |-> <<Stmt("wait", Wrap(Tick))>>] BY <1>2, BodyTable DEF P
  <2>2. DOMAIN P.body = {"TimerHandler"} BY <2>1
  <2> QED BY <1>2, <2>2 DEF Body
<1>3. ASSUME prog = "dispatch", h.kind # "Running" PROVE Body(h) = <<>>
  <2>1. DOMAIN P.body = {"Running"} BY <1>3, BodyTable DEF P
  <2> QED BY <1>3, <2>1 DEF Body
<1>4. ASSUME prog = "exception", h.kind = "ThrowAnException" PROVE Body(h) = Do("throw")
  <2>1. P.body = [ThrowAnException |-> Do("throw")] BY <1>4, BodyTable DEF P
  <2>2. h.kind \in DOMAIN P.body /\ P.body[h.kind] = Do("throw") BY <1>4, <2>1
  <2> QED BY <2>2 DEF Body
<1> QED BY <1>1, <1>2, <1>3, <1>4

\* main executes a statement after which it posts no more to the strand.
LEMMA LaterPosts ==
  ASSUME Shape, prog' = prog, code[0] # <<>>, code'[0] = Tail(code[0])
  PROVE  /\ code[0][1].do \in {"post", "wait", "tryStart"} => ~Ahead("strandPost")'
         /\ prog = "dispatch" /\ code[0][1].do = "post" => ~Ahead("post")'
         /\ \A op : Ahead(op)' => Ahead(op)
<1>1. ASSUME code[0][1].do \in {"post", "wait", "tryStart"}, NEW i \in DOMAIN code'[0] PROVE code'[0][i].do # "strandPost"
  BY <1>1, LaterRank DEF Earlier, Rank
<1>2. ASSUME prog = "dispatch", code[0][1].do = "post", NEW i \in DOMAIN code'[0] PROVE code'[0][i].do # "post"
  <2>1. Earlier(code[0][1], code'[0][i]) /\ code'[0][i] \in MainStmts(prog) /\ code[0][1] \in MainStmts(prog)
    BY <1>2, LaterRank
  <2>2. code'[0][i].do = "post" => code[0][1].h.n = 0 /\ code'[0][i].h.n = 0 BY <1>2, <2>1 DEF MainStmts
  <2> QED BY <1>2, <2>1, <2>2 DEF Earlier, Rank
<1>3. \A op : Ahead(op)' => Ahead(op) BY MainTail
<1> QED BY <1>1, <1>2, <1>3 DEF Ahead

LEMMA QueuedNext == Shape /\ Queued /\ [Next]_vars => Queued'
<1> SUFFICES ASSUME Shape, Queued, [Next]_vars, prog' \in {"strand", "timer3"} PROVE Queued'
  BY DEF Queued
<1>0. Shape' /\ prog' = prog /\ prog \in {"strand", "timer3"} BY Transitions
<1>t. begun \in Seq(Handler) /\ strandQ \in Seq(Handler) /\ code[0] \in Seq(Anything)
  <2>1. begun \in Seq(Handler) /\ strandQ \in Seq(Handler) BY PostedHandlers, SeqMonotonic DEF Shape
  <2> QED BY <2>1, ThreadSets DEF Shape, CodeShape
<1>d. InLine(begun, strandQ, code[0], "strandPost") /\ (Ticking => ~Ahead("strandPost"))
  BY <1>0 DEF Queued
<1> DEFINE MainGoes == code'[0] = code[0] \/ (code[0] # <<>> /\ code'[0] = Tail(code[0]))
           Line == InLine(begun, strandQ, code[0], "strandPost")
<1>a. ASSUME Line', Ticking' => ~Ahead("strandPost")' PROVE Queued'
  BY <1>a DEF Queued
<1>b. ASSUME MainGoes, begun' = begun, strandQ' = strandQ PROVE Line'
  <2>1. CASE code'[0] = code[0] BY <1>b, <1>d, <2>1
  <2>2. CASE code[0] # <<>> /\ code'[0] = Tail(code[0]) BY <1>b, <1>d, <1>t, <2>2, InLineTail
  <2> QED BY <1>b, <2>1, <2>2
<1>c. ASSUME MainGoes, ~Ahead("strandPost") PROVE ~Ahead("strandPost")'
  <2>1. CASE code'[0] = code[0] BY <1>c, <2>1 DEF Ahead
  <2>2. CASE code[0] # <<>> /\ code'[0] = Tail(code[0]) BY <1>0, <1>c, <2>2, MainTail
  <2> QED BY <1>c, <2>1, <2>2
<1>e. ASSUME NEW t \in Threads, code[t] # <<>>, Continue(t)
      PROVE  /\ MainGoes /\ \A w \in Workers : Ticks(w)' => Ticks(w)
             /\ t = 0 => code'[0] = Tail(code[0])
             /\ t \in Workers => code'[0] = code[0]
  <2>1. /\ CodeShape' /\ code'[t] = Tail(code[t]) /\ \A u \in Threads : u # t => code'[u] = code[u]
    BY <1>0, <1>e, Continuing
  <2>2. code[t] \in Seq(Anything) BY <1>e, Actor
  <2>3. \A i \in DOMAIN code'[t] : i + 1 \in DOMAIN code[t] /\ code'[t][i] = code[t][i + 1]
    BY <1>e, <2>1, <2>2, Tailed
  <2>4. ASSUME NEW w \in Workers PROVE Ticks(w)' => Ticks(w)
    <3>1. CASE w = t BY <2>3, <3>1 DEF Ticks
    <3>2. CASE w # t
      <4>1. code'[w] = code[w] BY <2>1, <3>2, ThreadSets
      <4> QED BY <4>1 DEF Ticks
    <3> QED BY <3>1, <3>2
  <2> QED BY <1>e, <2>1, <2>4, ThreadSets
<1>f. ASSUME \A w \in Workers : Ticks(w)' => Ticks(w), queue' = queue, pending' = pending PROVE Ticking' => Ticking
  BY <1>f DEF Ticking
<1>g. ASSUME NEW w \in Workers, code'[w] = <<>> \/ code'[w] = Do("run") \/ code'[w] = code[w] PROVE Ticks(w)' => Ticks(w)
  <2>1. CASE code'[w] = <<>> BY <2>1, EmptySeq DEF Ticks
  <2>2. CASE code'[w] = Do("run")
    <3>1. \A i \in DOMAIN Do("run") : Do("run")[i].do = "run" BY DEF Do, Stmt
    <3> QED BY <2>2, <3>1 DEF Ticks
  <2>3. CASE code'[w] = code[w] BY <2>3 DEF Ticks
  <2> QED BY <1>g, <2>1, <2>2, <2>3
<1>1. CASE UNCHANGED vars
  <2>1. UNCHANGED <<code, queue, strandQ, pending, begun>> BY <1>1 DEF vars
  <2>2. \A w \in Workers : Ticks(w)' => Ticks(w) BY <2>1 DEF Ticks
  <2> QED BY <1>a, <1>b, <1>c, <1>d, <1>f, <2>1, <2>2
<1>2. CASE Expire \/ PeerAnswers
  <2>1. pending # {} /\ UNCHANGED <<code, strandQ, begun>>
    BY <1>2 DEF Expire, PeerAnswers, Complete
  <2>2. Ticking BY <2>1 DEF Ticking
  <2> QED BY <1>a, <1>b, <1>c, <1>d, <2>1, <2>2
<1>3. ASSUME NEW t \in Threads, CreateThread(t) PROVE Queued'
  <2>1. /\ code[0] # <<>> /\ code'[0] = Tail(code[0])
        /\ \A w \in Workers : code'[w] = Do("run") \/ code'[w] = code[w]
    BY <1>0, <1>3, CreateShape
  <2>2. UNCHANGED <<queue, strandQ, pending, begun>> BY <1>3 DEF CreateThread, services
  <2>3. \A w \in Workers : Ticks(w)' => Ticks(w) BY <1>g, <2>1
  <2> QED BY <1>a, <1>b, <1>c, <1>d, <1>f, <2>1, <2>2, <2>3
<1>4. ASSUME NEW t \in Threads, DropWork(t) \/ Stop(t) \/ Enter(t) \/ JoinAll(t) \/ Return(t) \/ Leave(t) PROVE Queued'
  <2>1. code[t] # <<>> /\ Continue(t) /\ UNCHANGED <<queue, strandQ, pending, begun>> BY <1>0, <1>4, PlainShape
  <2> QED BY <1>a, <1>b, <1>c, <1>d, <1>e, <1>f, <2>1
<1>5. ASSUME NEW t \in Threads, Post(t) \/ Start(t) PROVE Queued'
  <2>1. /\ code[t] # <<>> /\ Continue(t) /\ code[t][1].do \in {"post", "wait", "start", "tryStart"}
        /\ code[t][1].do \notin {"post", "wait"} => t = 0
    BY <1>0, <1>5, PostShape, StartShape
  <2>2. UNCHANGED <<strandQ, begun>> BY <1>5 DEF Post, Start
  <2>3. ~Ahead("strandPost")'
    <3>1. CASE t = 0
      <4>1. code[0][1].do # "start" BY <1>0, <2>1, <3>1, Actor DEF MainStmts
      <4> QED BY <1>0, <1>e, <2>1, <3>1, <4>1, LaterPosts
    <3>2. CASE t \in Workers
      <4>1. 1 \in DOMAIN code[t] BY <2>1, Actor
      <4>2. Ticks(t) BY <2>1, <3>2, <4>1, ThreadSets DEF Ticks
      <4>3. Ticking BY <3>2, <4>2 DEF Ticking
      <4> QED BY <1>c, <1>d, <1>e, <2>1, <4>3
    <3> QED BY <3>1, <3>2, ThreadSets
  <2> QED BY <1>a, <1>b, <1>e, <2>1, <2>2, <2>3
<1>6. ASSUME NEW t \in Threads, StrandPost(t) PROVE Queued'
  <2>1. /\ t = 0 /\ code[0] # <<>> /\ code[0][1].do = "strandPost" /\ Continue(0) /\ Arg(0) = code[0][1].h
        /\ Arg(0) \in Handler
    BY <1>0, <1>6, StrandPostShape, Actor, ThreadSets DEF Arg
  <2>2. code[0][1].h.kind = "Print" BY <1>0, <2>1, Actor, ThreadSets DEF MainStmts
  <2>3. strandQ' = Append(strandQ, code[0][1].h) /\ begun' = begun /\ UNCHANGED <<queue, pending>>
    BY <1>6, <2>1 DEF StrandPost
  <2>4. code'[0] = Tail(code[0]) BY <1>e, <2>1, ThreadSets
  <2>5. Sorted(code[0]) BY DEF Shape, CodeShape
  <2>6. InLine(begun, Append(strandQ, code[0][1].h), Tail(code[0]), "strandPost")
    BY <1>d, <1>t, <2>1, <2>2, <2>5, InLineGive DEF MainOps
  <2>7. Line' BY <2>3, <2>4, <2>6
  <2>8. \A w \in Workers : Ticks(w)' => Ticks(w) BY <1>e, <2>1, ThreadSets
  <2> QED BY <1>a, <1>c, <1>d, <1>f, <2>1, <2>3, <2>4, <2>7, <2>8
<1>7. ASSUME NEW t \in Threads, Cancel(t) PROVE Queued'
  <2>1. t = 0 /\ code[0] # <<>> /\ Continue(0) BY <1>0, <1>7, CancelShape
  <2>2. UNCHANGED <<strandQ, begun>> /\ (pending = {} => UNCHANGED <<queue, pending>>) BY <1>7 DEF Cancel
  <2>3. Ticking' => Ticking
    <3>1. CASE pending = {} BY <1>e, <1>f, <2>1, <2>2, <3>1, ThreadSets
    <3>2. CASE pending # {} BY <3>2 DEF Ticking
    <3> QED BY <3>1, <3>2
  <2> QED BY <1>a, <1>b, <1>c, <1>d, <1>e, <2>1, <2>2, <2>3, ThreadSets
<1>8. ASSUME NEW t \in Threads, Throw(t) PROVE Queued'
  <2>1. /\ t \in Workers /\ UNCHANGED <<queue, strandQ, pending, begun>>
        /\ \A w \in Workers : code'[w] = <<>> \/ code'[w] = Do("run") \/ code'[w] = code[w]
        /\ code'[0] = code[0]
    BY <1>0, <1>8, ThrowShape, ThreadSets
  <2> QED BY <1>a, <1>b, <1>c, <1>d, <1>f, <1>g, <2>1
<1>9. ASSUME NEW t \in Threads, Dispatch(t) PROVE Queued'
  BY <1>0, <1>9, DispatchShape
<1>10. ASSUME NEW t \in Threads, CallNext(t) PROVE Queued'
  <2>1. /\ t \in Workers /\ Begin(Head(queue)) /\ queue # <<>> /\ strandQ' = strandQ
        /\ Head(queue) \in Posted(prog) /\ Pushes(t, Head(queue), Stmt("return", Head(queue)), code[t])
    BY <1>0, <1>10, CallNextShape DEF Called
  <2>2. code'[0] = code[0] BY <2>1, ThreadSets DEF Pushes
  <2>3. Head(queue).wrapped
    <3>1. prog = "timer3" BY <1>0, <2>1 DEF Posted
    <3>2. Head(queue) = Wrap(Tick) BY <2>1, <3>1 DEF Posted
    <3> QED BY <3>2 DEF Wrap, Tick, Call
  <2>4. begun' = begun BY <2>1, <2>3 DEF Begin
  <2>5. Ticking BY <2>1 DEF Ticking
  <2> QED BY <1>a, <1>b, <1>c, <1>d, <2>1, <2>2, <2>4, <2>5
<1>11. ASSUME NEW t \in Threads, CallStrand(t) PROVE Queued'
  <2> DEFINE h == Head(strandQ)
  <2>1. /\ t \in Workers /\ Begin(h) /\ strandQ # <<>> /\ strandQ' = Tail(strandQ) /\ h \in Stranded(prog) /\ h \in Handler
        /\ Pushes(t, h, Stmt("unlock", h), code[t]) /\ UNCHANGED <<queue, pending>> /\ code[t] \in Seq(Anything)
    BY <1>0, <1>11, CallStrandShape DEF Called
  <2>2. code'[0] = code[0] BY <2>1, ThreadSets DEF Pushes
  <2>3. begun' = begun \/ begun' = Append(begun, h) BY <2>1, BeginPlain
  <2>4. Line' BY <1>d, <1>t, <2>1, <2>2, <2>3, InLineBegin
  <2>5. CASE h.kind = "Print"
    <3>1. ~h.wrapped BY <2>1 DEF Stranded, Plain
    <3>2. Body(h) = <<>> BY <1>0, <2>5, <3>1, NoBodies
    <3> HIDE DEF h
    <3>3. \A w \in Workers : Ticks(w)' => Ticks(w) BY <1>0, <2>1, <3>2, CallTicks DEF Ends
    <3> QED BY <1>a, <1>c, <1>d, <1>f, <2>1, <2>2, <2>4, <3>3
  <2>6. CASE h.kind # "Print"
    <3>1. h.kind = "TimerHandler" BY <1>0, <2>1, <2>6 DEF Stranded, Tick, Call
    <3>2. 1 \in DOMAIN strandQ /\ strandQ[1] = h BY <1>t, <2>1, Tailed
    <3>3. ASSUME NEW i \in DOMAIN code[0], code[0][i].do = "strandPost" PROVE FALSE
      <4>1. code[0] \in Seq(MainStmts(prog)) BY DEF Shape, CodeShape
      <4>2. code[0][i] \in MainStmts(prog) BY <4>1, ElementOfSeq, LenProperties
      <4>3. code[0][i].h.kind = "Print" BY <1>0, <3>3, <4>2 DEF MainStmts
      <4>4. MayPrecede(h, code[0][i].h) BY <1>d, <3>2, <3>3 DEF InLine
      <4> QED BY <3>1, <4>3, <4>4 DEF MayPrecede
    <3>4. ~Ahead("strandPost") BY <3>3 DEF Ahead
    <3> QED BY <1>a, <1>c, <2>2, <2>4, <3>4
  <2> QED BY <2>5, <2>6
<1>12. ASSUME NEW t \in Threads, StrandDispatch(t) PROVE Queued'
  <2>1. /\ t \in Workers /\ code[t] # <<>> /\ code[t][1].do = "strandDispatch" /\ Arg(t) = code[t][1].h
        /\ UNCHANGED <<queue, pending>> /\ (CalledByWrapper(t) \/ QueuedByWrapper(t))
    BY <1>0, <1>12, StrandDispatchShape DEF Arg
  <2>2. Arg(t) = Tick BY <1>0, <2>1, Actor, ThreadSets DEF BodyStmts
  <2>3. ~Ahead("strandPost")
    <3>1. 1 \in DOMAIN code[t] BY <2>1, Actor
    <3>2. Ticks(t) BY <2>1, <3>1 DEF Ticks
    <3> QED BY <1>d, <2>1, <3>2 DEF Ticking
  <2>4. \A i \in DOMAIN code[0] : code[0][i].do # "strandPost" BY <2>3 DEF Ahead
  <2>5. /\ InLine(begun, Append(strandQ, Tick), code[0], "strandPost")
        /\ strandQ = <<>> => InLine(Append(begun, Tick), strandQ, code[0], "strandPost")
    BY <1>d, <1>t, <2>4, InLineTick
  <2>6. code'[0] = code[0] BY <1>e, <2>1, ThreadSets DEF CalledByWrapper, QueuedByWrapper, Pushes
  <2>7. CASE CalledByWrapper(t)
    <3>1. begun' = begun \/ begun' = Append(begun, Tick) BY <2>2, <2>7, Calls, BeginPlain DEF CalledByWrapper, Tick, Kinds
    <3>2. strandQ = <<>> /\ strandQ' = strandQ BY <2>7 DEF CalledByWrapper
    <3>3. Line' BY <1>d, <2>5, <2>6, <3>1, <3>2
    <3> QED BY <1>a, <1>c, <2>3, <2>6, <3>3
  <2>8. CASE QueuedByWrapper(t)
    <3>1. begun' = begun /\ strandQ' = Append(strandQ, Tick) BY <2>2, <2>8 DEF QueuedByWrapper
    <3>2. Line' BY <2>5, <2>6, <3>1
    <3> QED BY <1>a, <1>c, <2>3, <2>6, <3>2
  <2> QED BY <2>1, <2>7, <2>8
<1> QED BY <1>1, <1>2, <1>3, <1>4, <1>5, <1>6, <1>7, <1>8, <1>9, <1>10, <1>11, <1>12, StepCases

(***************************************************************************)
(* Running() dispatches before anything that it posts can begin.           *)
(***************************************************************************)
\* A worker has still to execute a dispatch.
Dispatches(w) == \E i \in DOMAIN code[w] : code[w][i].do = "dispatch"

LEMMA DispatchingNext == Shape /\ Staffed /\ Dispatching /\ [Next]_vars => Dispatching'
<1> SUFFICES ASSUME Shape, Staffed, Dispatching, [Next]_vars, prog' = "dispatch" PROVE Dispatching'
  BY DEF Dispatching
<1>0. Shape' /\ prog' = prog /\ prog = "dispatch" /\ prog \in Joined BY Transitions DEF Joined
<1>t. begun \in Seq(Handler) /\ queue \in Seq(Posted(prog)) /\ queue \in Seq(Handler)
  BY PostedHandlers, SeqMonotonic DEF Shape
<1> DEFINE Called1 == Len(code[1]) > 1
           Fed == queue # <<>>
           One == Fed /\ queue[1].kind = "Running" => Len(queue) = 1
<1>d. /\ pending = {} /\ \A w \in Workers : w # 1 => code[w] = <<>>
      /\ DispatchesFirst
      /\ PostBegan \/ PostWaits \/ Called1 => OnlyPosts /\ ~Ahead("post")
      /\ PostBegan => ~Dispatches(1)
      /\ Fed => ~Ahead("post")
      /\ One
  BY <1>0 DEF Dispatching, Dispatches
<1>a. ASSUME pending' = {}, \A w \in Workers : w # 1 => code'[w] = <<>>, DispatchesFirst',
             PostBegan' \/ PostWaits' \/ Called1' => OnlyPosts' /\ ~Ahead("post")',
             PostBegan' => ~Dispatches(1)', Fed' => ~Ahead("post")', One'
      PROVE  Dispatching'
  BY <1>a DEF Dispatching, Dispatches
<1>q. ASSUME queue' = queue
      PROVE  /\ PostWaits' <=> PostWaits
             /\ OnlyPosts' <=> OnlyPosts
             /\ Fed' <=> Fed
             /\ One' <=> One
  BY <1>q DEF PostWaits, OnlyPosts
<1>b. ASSUME begun' = begun PROVE (PostBegan' <=> PostBegan) /\ DispatchesFirst'
  BY <1>b, <1>d DEF PostBegan, DispatchesFirst
\* A statement that gives the io_service no handler and makes no call.
<1>c. ASSUME pending' = {}, queue' = queue, begun' = begun, \A op : Ahead(op)' => Ahead(op),
             \A w \in Workers : w # 1 => code'[w] = <<>>,
             Called1' => Called1, Dispatches(1)' => Dispatches(1)
      PROVE  Dispatching'
  <2> HIDE DEF Called1, Fed, One
  <2> QED BY <1>a, <1>b, <1>c, <1>d, <1>q
<1>e. ASSUME NEW t \in Threads, code[t] # <<>>, Continue(t)
      PROVE  /\ \A op : Ahead(op)' => Ahead(op)
             /\ \A w \in Workers : w # 1 => code'[w] = <<>>
             /\ Called1' => Called1
             /\ Dispatches(1)' => Dispatches(1)
             /\ t = 0 => code'[0] = Tail(code[0])
             /\ t = 0 \/ t = 1
  <2>1. /\ CodeShape' /\ code'[t] = Tail(code[t]) /\ \A u \in Threads : u # t => code'[u] = code[u]
        /\ Len(code'[t]) = Len(code[t]) - 1
    BY <1>0, <1>e, Continuing
  <2>2. t = 0 \/ t = 1 BY <1>d, <1>e, ThreadSets
  <2>3. code[t] \in Seq(Anything) /\ Len(code[t]) \in Nat BY <1>e, Actor
  <2>4. CASE t = 0
    <3>1. code'[1] = code[1] /\ \A w \in Workers : code'[w] = code[w] BY <2>1, <2>4, ThreadSets
    <3>2. \A op : Ahead(op)' => Ahead(op) BY <1>0, <1>e, <2>1, <2>4, LaterPosts
    <3> QED BY <1>d, <2>1, <2>4, <3>1, <3>2 DEF Dispatches
  <2>5. CASE t = 1
    <3>1. code'[0] = code[0] /\ \A w \in Workers : w # 1 => code'[w] = code[w] BY <2>1, <2>5, ThreadSets
    <3>2. \A op : Ahead(op)' => Ahead(op) BY <3>1 DEF Ahead
    <3>3. \A i \in DOMAIN code'[t] : i + 1 \in DOMAIN code[t] /\ code'[t][i] = code[t][i + 1]
      BY <1>e, <2>1, <2>3, Tailed
    <3>4. Dispatches(1)' => Dispatches(1) BY <2>5, <3>3 DEF Dispatches
    <3>5. Called1' => Called1
      <4> DEFINE n == Len(code[1])
      <4>1. Len(code'[1]) = n - 1 /\ n \in Nat BY <2>1, <2>3, <2>5
      <4> HIDE DEF n
      <4>2. Len(code'[1]) > 1 => n > 1 BY <4>1
      <4> QED BY <4>2 DEF n
    <3> QED BY <1>d, <2>5, <3>1, <3>2, <3>4, <3>5
  <2> QED BY <2>2, <2>4, <2>5
<1>1. CASE UNCHANGED vars
  <2>1. UNCHANGED <<code, queue, pending, begun>> BY <1>1 DEF vars
  <2>2. \A op : Ahead(op)' => Ahead(op) BY <2>1 DEF Ahead
  <2>3. Dispatches(1)' => Dispatches(1) BY <2>1 DEF Dispatches
  <2> QED BY <1>c, <1>d, <2>1, <2>2, <2>3
<1>2. CASE Expire \/ PeerAnswers BY <1>2, <1>d DEF Expire, PeerAnswers
<1>3. ASSUME NEW t \in Threads, CreateThread(t) PROVE Dispatching'
  <2>1. /\ code[0] # <<>> /\ code[0][1].do = "create" /\ code'[0] = Tail(code[0]) /\ Arg(0).n \in Workers
        /\ code'[Arg(0).n] = Do("run")
        /\ \A w \in Workers : w # Arg(0).n => code'[w] = code[w]
    BY <1>0, <1>3, CreateShape
  <2>2. UNCHANGED <<queue, pending, begun>> BY <1>3 DEF CreateThread, services
  <2>3. Arg(0).n = 1 BY <1>0, <2>1, Actor, ThreadSets DEF MainStmts, Arg
  <2>4. \A op : Ahead(op)' => Ahead(op) BY <1>0, <2>1, MainTail
  <2>5. ~Called1' /\ ~Dispatches(1)'
    <3>1. code'[1] = Do("run") BY <2>1, <2>3
    <3> QED BY <3>1 DEF Do, Stmt, Dispatches
  <2> QED BY <1>c, <1>d, <2>1, <2>2, <2>3, <2>4, <2>5
<1>4. ASSUME NEW t \in Threads,
             DropWork(t) \/ Stop(t) \/ Enter(t) \/ JoinAll(t) \/ Return(t) \/ Leave(t) \/ Cancel(t) \/ StrandPost(t)
      PROVE  Dispatching'
  <2>1. code[t] # <<>> /\ Continue(t) /\ UNCHANGED <<queue, pending, begun>>
    <3>1. CASE Cancel(t) BY <1>d, <3>1 DEF Cancel, At
    <3>2. CASE StrandPost(t) BY <3>2 DEF StrandPost, At
    <3> QED BY <1>0, <1>4, <3>1, <3>2, PlainShape
  <2> QED BY <1>c, <1>d, <1>e, <2>1
<1>5. ASSUME NEW t \in Threads, Start(t) \/ Throw(t) \/ StrandDispatch(t) \/ CallStrand(t) PROVE FALSE
  <2>1. CASE Start(t)
    <3>1. code[t] # <<>> /\ code[t][1].do \in {"wait", "start", "tryStart"} /\ (code[t][1].do # "wait" => t = 0)
      BY <1>0, <2>1, StartShape
    <3>2. CASE t = 0
      <4>1. code[0][1] \in MainStmts(prog) BY <3>1, <3>2, Actor
      <4>2. prog \in Joined /\ prog # "cancelOperation" BY <1>0
      <4>3. code[0][1].do \notin {"wait", "tryStart"} BY <4>1, <4>2 DEF MainStmts
      <4>4. code[0][1].do # "start" BY <4>1, <4>2 DEF MainStmts
      <4> QED BY <3>1, <3>2, <4>3, <4>4
    <3>3. CASE t \in Workers
      <4>1. code[t][1] \in BodyStmts(prog) BY <3>1, <3>3, Actor
      <4> QED BY <1>0, <3>1, <3>3, <4>1, ThreadSets DEF BodyStmts
    <3> QED BY <3>2, <3>3, ThreadSets
  <2>2. CASE Throw(t) BY <1>0, <2>2, ThrowShape
  <2>3. CASE StrandDispatch(t)
    <3>1. Arg(t) \in Stranded(prog) BY <1>0, <2>3, StrandDispatchShape
    <3> QED BY <1>0, <3>1 DEF Stranded
  <2>4. CASE CallStrand(t) BY <1>0, <2>4, CallStrandShape
  <2> QED BY <1>5, <2>1, <2>2, <2>3, <2>4
<1>6. ASSUME NEW t \in Threads, Post(t) PROVE Dispatching'
  <2>1. /\ code[t] # <<>> /\ code[t][1].do = "post" /\ Continue(t) /\ Arg(t) \in Handler /\ Arg(t) = code[t][1].h
        /\ queue' = Append(queue, Arg(t)) /\ UNCHANGED <<pending, begun>>
    <3>1. code[t] # <<>> /\ code[t][1].do = "post" /\ Continue(t) BY <1>0, <1>6, PostShape
    <3> QED BY <1>6, <3>1, Actor DEF Post, Arg
  <2>2. /\ Len(queue) \in Nat /\ Len(queue') = Len(queue) + 1 /\ DOMAIN queue' = 1 .. Len(queue) + 1
        /\ DOMAIN queue = 1 .. Len(queue)
        /\ \A i \in DOMAIN queue : queue'[i] = queue[i]
        /\ queue'[Len(queue) + 1] = Arg(t)
        /\ \A i \in DOMAIN queue' : i \in DOMAIN queue \/ i = Len(queue) + 1
    BY <1>t, <2>1, Appended
  <2>3. CASE t = 0
    <3>1. Arg(t).kind = "Running" BY <1>0, <2>1, <2>3, Actor DEF MainStmts
    <3>2. Ahead("post") /\ ~Ahead("post")'
      <4>1. 1 \in DOMAIN code[0] BY <2>1, <2>3, Actor
      <4>2. Ahead("post") BY <2>1, <2>3, <4>1 DEF Ahead
      <4>3. ~Ahead("post")' BY <1>0, <1>e, <2>1, <2>3, LaterPosts
      <4> QED BY <4>2, <4>3
    <3>3. queue = <<>> /\ ~PostBegan /\ ~Called1 BY <1>d, <3>2
    <3>4. Len(queue') = 1 /\ queue'[1] = Arg(t) /\ DOMAIN queue' = {1}
      <4>1. Len(queue) = 0 BY <3>3
      <4> QED BY <2>2, <4>1
    <3>5. ~PostWaits' BY <3>1, <3>4 DEF PostWaits
    <3>6. ~Called1' /\ ~PostBegan' BY <1>b, <1>e, <2>1, <3>3
    <3> QED BY <1>a, <1>b, <1>d, <1>e, <2>1, <3>2, <3>4, <3>5, <3>6
  <2>4. CASE t = 1
    <3>1. t \in Workers BY <2>4, ThreadSets
    <3>2. Arg(t).kind = "Post" BY <1>0, <2>1, <3>1, Actor DEF BodyStmts
    <3>3. Called1
      <4>1. code[t] \in Seq(Anything) /\ WorkerCode(prog, code[t]) BY <3>1, ThreadSets DEF Shape, CodeShape
      <4>2. Len(code[t]) # 1 /\ Len(code[t]) \in Nat /\ Len(code[t]) > 0 BY <2>1, <4>1, WorkerTail, Actor
      <4> DEFINE n == Len(code[t])
      <4>3. n \in Nat /\ n > 0 /\ n # 1 BY <4>2
      <4> HIDE DEF n
      <4>4. n > 1 BY <4>3
      <4> QED BY <2>4, <4>4 DEF n
    <3>4. OnlyPosts /\ ~Ahead("post") BY <1>d, <3>3
    <3>5. OnlyPosts' BY <2>2, <3>2, <3>4 DEF OnlyPosts
    <3>6. One'
      <4>1. 1 \in DOMAIN queue' BY <2>2
      <4>2. queue'[1].kind = "Post" BY <3>5, <4>1 DEF OnlyPosts
      <4> QED BY <4>2
    <3>7. ~Ahead("post")' /\ (PostBegan' => ~Dispatches(1)') BY <1>b, <1>d, <1>e, <2>1, <3>4
    <3> QED BY <1>a, <1>b, <1>d, <1>e, <2>1, <3>5, <3>6, <3>7
  <2> QED BY <1>e, <2>1, <2>3, <2>4
\* A call: the handler joins those that have begun.
<1>7. ASSUME NEW h \in Handler, begun' = begun \/ begun' = Append(begun, h)
      PROVE  /\ h.kind = "Dispatch" /\ ~PostBegan => DispatchesFirst'
             /\ h.kind # "Dispatch" => DispatchesFirst'
             /\ PostBegan' => PostBegan \/ h.kind = "Post"
  <2>1. CASE begun' = begun BY <1>b, <2>1
  <2>2. CASE begun' = Append(begun, h)
    <3>1. /\ DOMAIN begun = 1 .. Len(begun) /\ Len(begun) \in Nat /\ DOMAIN begun' = 1 .. Len(begun) + 1
          /\ \A i \in DOMAIN begun : begun'[i] = begun[i]
          /\ begun'[Len(begun) + 1] = h
          /\ \A i \in DOMAIN begun' : i \in DOMAIN begun \/ i = Len(begun) + 1
      BY <1>t, <2>2, Appended
    <3>2. PostBegan' => PostBegan \/ h.kind = "Post" BY <3>1 DEF PostBegan
    <3>3. ASSUME NEW i \in DOMAIN begun', NEW j \in DOMAIN begun', i < j
          PROVE  i \in DOMAIN begun /\ (j \in DOMAIN begun \/ j = Len(begun) + 1)
      BY <3>1, <3>3
    <3>4. h.kind # "Dispatch" => DispatchesFirst' BY <1>d, <3>1, <3>3 DEF DispatchesFirst
    <3>5. h.kind = "Dispatch" /\ ~PostBegan => DispatchesFirst'
      <4>1. ASSUME ~PostBegan, NEW i \in DOMAIN begun', NEW j \in DOMAIN begun', i < j PROVE begun'[i].kind # "Post"
        BY <3>1, <3>3, <4>1 DEF PostBegan
      <4> QED BY <4>1 DEF DispatchesFirst
    <3> QED BY <3>2, <3>4, <3>5
  <2> QED BY <1>7, <2>1, <2>2
<1>8. ASSUME NEW t \in Threads, Dispatch(t) PROVE Dispatching'
  <2>1. /\ t \in Workers /\ Arg(t).kind = "Dispatch" /\ Begin(Arg(t)) /\ Arg(t) \in Handler
        /\ code[t] # <<>> /\ code[t][1].do = "dispatch" /\ Len(code[t]) > 1
        /\ \A u \in Threads : u # t => code'[u] = code[u]
        /\ UNCHANGED <<queue, pending>>
    BY <1>0, <1>8, DispatchShape
  <2>2. t = 1 BY <1>d, <2>1
  <2>3. ~PostBegan
    <3>1. 1 \in DOMAIN code[t] BY <2>1, Actor
    <3>2. Dispatches(1) BY <2>1, <2>2, <3>1 DEF Dispatches
    <3> QED BY <1>d, <3>2
  <2>4. begun' = begun \/ begun' = Append(begun, Arg(t)) BY <2>1, BeginPlain
  <2>5. DispatchesFirst' /\ ~PostBegan' BY <1>7, <2>1, <2>3, <2>4
  <2>6. code'[0] = code[0] /\ \A w \in Workers : w # 1 => code'[w] = code[w] BY <2>1, <2>2, ThreadSets
  <2>7. ~Ahead("post") /\ OnlyPosts BY <1>d, <2>1, <2>2
  <2>8. ~Ahead("post")' BY <2>6, <2>7 DEF Ahead
  <2>9. OnlyPosts' /\ One' BY <1>d, <1>q, <2>1, <2>7
  <2> QED BY <1>a, <1>d, <2>1, <2>5, <2>6, <2>8, <2>9
<1>9. ASSUME NEW t \in Threads, CallNext(t) PROVE Dispatching'
  <2> DEFINE h == Head(queue)
  <2>1. /\ t \in Workers /\ Begin(h) /\ queue # <<>> /\ queue' = Tail(queue) /\ h \in Posted(prog) /\ h \in Handler
        /\ Pushes(t, h, Stmt("return", h), code[t]) /\ pending' = pending /\ code[t] \in Seq(Anything)
        /\ Len(code[t]) = 1 /\ code[t][1].do = "run"
    BY <1>0, <1>9, CallNextShape DEF Called
  <2>2. t = 1 BY <1>d, <2>1, EmptySeq
  <2>3. code'[0] = code[0] /\ \A w \in Workers : w # 1 => code'[w] = code[w] BY <2>1, <2>2, ThreadSets DEF Pushes
  <2>4. ~Ahead("post")'
    <3>1. ~Ahead("post") BY <1>d, <2>1
    <3> QED BY <2>3, <3>1 DEF Ahead
  <2>5. begun' = begun \/ begun' = Append(begun, h) BY <2>1, BeginPlain
  <2>6. /\ 1 \in DOMAIN queue /\ h = queue[1] /\ Len(queue') = Len(queue) - 1 /\ Len(queue) \in Nat
        /\ \A i \in DOMAIN queue' : i + 1 \in DOMAIN queue /\ queue'[i] = queue[i + 1]
    BY <1>t, <2>1, Tailed
  <2>7. h.kind \in {"Running", "Post"} /\ ~h.wrapped BY <1>0, <2>1 DEF Posted
  <2>8. DispatchesFirst' /\ (PostBegan' => PostBegan \/ h.kind = "Post") BY <1>7, <2>1, <2>5, <2>7
  <2>9. CASE h.kind = "Running"
    <3>1. ~PostBegan BY <1>d, <2>6, <2>9 DEF OnlyPosts
    <3>2. Len(queue) = 1 BY <1>d, <2>1, <2>6, <2>9
    <3>3. queue' = <<>>
      <4>1. queue' \in Seq(Handler) BY <1>t, <2>1, Tailed
      <4>2. Len(queue') = 0 BY <2>6, <3>2
      <4> QED BY <4>1, <4>2, EmptySeq
    <3>4. OnlyPosts' BY <3>3, EmptySeq DEF OnlyPosts
    <3>5. ~PostBegan' BY <2>8, <2>9, <3>1
    <3> QED BY <1>a, <1>d, <2>1, <2>3, <2>4, <2>8, <3>3, <3>4, <3>5
  <2>10. CASE h.kind = "Post"
    <3>1. OnlyPosts BY <1>d, <2>6, <2>10 DEF PostWaits
    <3>2. OnlyPosts' BY <2>6, <3>1 DEF OnlyPosts
    <3>3. One'
      <4>1. ASSUME Fed' PROVE queue'[1].kind = "Post"
        <5>1. queue' \in Seq(Handler) BY <1>t, <2>1, Tailed
        <5>2. 1 \in DOMAIN queue' BY <4>1, <5>1, Tailed
        <5> QED BY <3>2, <5>2 DEF OnlyPosts
      <4> QED BY <4>1
    <3>4. Body(h) = <<>> BY <1>0, <2>7, <2>10, NoBodies
    <3>5. ~Dispatches(1)'
      <4>1. /\ Len(code'[1]) = 2 /\ code'[1][1] = Stmt("return", h) /\ code'[1][2] = code[1][1]
        <5> HIDE DEF h
        <5>1. Len(Body(h)) = 0 BY <3>4
        <5>2. /\ Len(code'[t]) = Len(Body(h)) + 1 + Len(code[t])
              /\ code'[t][Len(Body(h)) + 1] = Stmt("return", h)
              /\ \A i \in 1 .. Len(code[t]) : code'[t][Len(Body(h)) + 1 + i] = code[t][i]
          BY <2>1 DEF Pushes
        <5>3. Len(code'[t]) = 2 /\ code'[t][1] = Stmt("return", h) BY <2>1, <5>1, <5>2
        <5>4. code'[t][2] = code[t][1]
          <6>1. 1 \in 1 .. Len(code[t]) /\ Len(Body(h)) + 1 + 1 = 2 BY <2>1, <5>1
          <6> QED BY <5>2, <6>1
        <5> QED BY <2>2, <5>3, <5>4
      <4>2. DOMAIN code'[1] = 1 .. 2
        <5>1. code'[1] \in Seq(Anything) BY <1>0, ThreadSets DEF Shape, CodeShape
        <5> QED BY <4>1, <5>1, LenProperties
      <4>3. \A i \in 1 .. 2 : i = 1 \/ i = 2 OBVIOUS
      <4> QED BY <2>1, <2>2, <4>1, <4>2, <4>3 DEF Dispatches, Stmt
    <3> QED BY <1>a, <1>d, <2>1, <2>3, <2>4, <2>8, <3>2, <3>3, <3>5
  <2> QED BY <2>7, <2>9, <2>10
<1> QED BY <1>1, <1>2, <1>3, <1>4, <1>5, <1>6, <1>8, <1>9, StepCases

\* Handlers begin in the order that the comments promise.
THEOREM OrderIsKept == Spec => []OrderKept
<1>1. Queued /\ Dispatching => OrderKept
  <2> SUFFICES ASSUME Queued, Dispatching, NEW i \in DOMAIN begun, NEW j \in DOMAIN begun, i < j
               PROVE  LET a == begun[i] b == begun[j]
                      IN /\ prog \in {"strand", "timer3"} /\ a.kind = "Print" /\ b.kind = "Print" => a.n < b.n
                         /\ prog = "timer3" => ~(a.kind = "TimerHandler" /\ b.kind = "Print")
                         /\ prog = "dispatch" => ~(a.kind = "Post" /\ b.kind = "Dispatch")
    BY DEF OrderKept
  <2>1. prog \in {"strand", "timer3"} => MayPrecede(begun[i], begun[j]) BY DEF Queued, InLine
  <2>2. prog = "dispatch" => ~(begun[i].kind = "Post" /\ begun[j].kind = "Dispatch")
    BY DEF Dispatching, DispatchesFirst
  <2> QED BY <2>1, <2>2 DEF MayPrecede
<1>2. Init => Queued /\ Dispatching
  <2> SUFFICES ASSUME Init PROVE Queued /\ Dispatching OBVIOUS
  <2>1. /\ begun = <<>> /\ queue = <<>> /\ strandQ = <<>> /\ pending = {}
        /\ \A w \in Workers : code[w] = <<>> /\ w \in Threads
    BY ThreadSets DEF Init
  <2>2. ~Ticking BY <2>1 DEF Ticking, Ticks
  <2>3. InLine(begun, strandQ, code[0], "strandPost") BY <2>1 DEF InLine
  <2>4. ~PostBegan /\ ~PostWaits /\ DispatchesFirst BY <2>1 DEF PostBegan, PostWaits, DispatchesFirst
  <2>5. ~(Len(code[1]) > 1) BY <2>1, ThreadSets
  <2> QED BY <2>1, <2>2, <2>3, <2>4, <2>5 DEF Queued, Dispatching
<1>3. Init => Staffed BY StaffedInit
<1>4. Shape /\ Staffed /\ Queued /\ Dispatching /\ [Next]_vars => (Staffed /\ Queued /\ Dispatching)'
  BY StaffedNext, QueuedNext, DispatchingNext
<1> QED BY <1>1, <1>2, <1>3, <1>4, Shaped, PTL DEF Spec

(***************************************************************************)
(* Exceptions cost the threads they should.                                *)
(***************************************************************************)
LEMMA MainOutside == Shape => Inside(0, Ends) = {}
<1> SUFFICES ASSUME Shape, NEW i \in DOMAIN code[0] PROVE code[0][i].do \notin Ends BY DEF Inside
<1>1. code[0] \in Seq(MainStmts(prog)) BY DEF Shape, CodeShape
<1>2. code[0][i] \in MainStmts(prog) BY <1>1, ElementOfSeq, LenProperties
<1> QED BY <1>2 DEF MainStmts, MainOps, Ends

Lost == Gone \union Executing

LEMMA LostFinite == IsFiniteSet(Lost) /\ Cardinality(Lost) \in Nat
<1>1. IsFiniteSet(Threads) BY WorkerPoolAssumption, FS_Interval DEF Threads
<1>2. Lost \subseteq Threads BY ThreadSets DEF Lost, Gone, Created, Executing
<1> QED BY <1>1, <1>2, FS_Subset, FS_CardinalityType

LEMMA ThrowingNext == Shape /\ Staffed /\ Throwing /\ [Next]_vars => Throwing'
<1> SUFFICES ASSUME Shape, Staffed, Throwing, [Next]_vars, prog' = "exception" PROVE Throwing'
  BY DEF Throwing
<1>0. Shape' /\ prog' = prog /\ prog = "exception" BY Transitions
<1>t. /\ begun \in Seq(Handler) /\ queue \in Seq(Handler) /\ code[0] \in Seq(Anything)
      /\ Inside(0, Ends) = {} /\ Inside(0, Ends)' = {}
  <2>1. begun \in Seq(Handler) /\ queue \in Seq(Handler) BY PostedHandlers, SeqMonotonic DEF Shape
  <2>2. Inside(0, Ends)' = {}
    <3>1. code'[0] \in Seq(MainStmts(prog)) BY <1>0 DEF Shape, CodeShape
    <3>2. \A i \in DOMAIN code'[0] : code'[0][i] \in MainStmts(prog) BY <3>1, ElementOfSeq, LenProperties
    <3>3. \A i \in DOMAIN code'[0] : code'[0][i].do \notin Ends BY <3>2 DEF MainStmts, MainOps, Ends
    <3> QED BY <3>3 DEF Inside
  <2> QED BY <2>1, <2>2, MainOutside, ThreadSets DEF Shape, CodeShape
<1>d. /\ work /\ ~stopped /\ pending = {}
      /\ \A w \in Workers : Len(code[w]) > 1 => InThrow(code[w])
      /\ InLine(begun, queue, code[0], "post")
      /\ Len(begun) = Cardinality(Lost)
  BY <1>0 DEF Throwing, Lost
<1>a. ASSUME work', ~stopped', pending' = {}, \A w \in Workers : Len(code'[w]) > 1 => InThrow(code'[w]),
             InLine(begun, queue, code[0], "post")', Len(begun') = Cardinality(Lost')
      PROVE  Throwing'
  BY <1>a DEF Throwing, Lost
<1>m. code[0] # <<>> => code[0][1].do \in {"create", "post", "join"}
  BY <1>0, Actor, ThreadSets DEF MainStmts
<1>w. ASSUME NEW w \in Workers, code[w] # <<>> PROVE code[w][1].do \in {"run", "throw"}
  <2>1. code[w] \in Seq(Anything) /\ WorkerCode(prog, code[w]) /\ Len(code[w]) \in Nat /\ Len(code[w]) > 0
    BY <1>w, Actor, ThreadSets DEF Shape, CodeShape
  <2>2. CASE Len(code[w]) = 1 BY <2>1, <2>2, <1>w, WorkerTail
  <2>3. CASE Len(code[w]) # 1
    <3> DEFINE n == Len(code[w])
    <3>1. n \in Nat /\ n > 0 /\ n # 1 BY <2>1, <2>3
    <3> HIDE DEF n
    <3>2. n > 1 BY <3>1
    <3> QED BY <1>d, <3>2 DEF InThrow, n
  <2> QED BY <2>2, <2>3
<1>s. ASSUME NEW t \in Threads, code[t] # <<>>
      PROVE  code[t][1].do \in {"create", "post", "join", "run", "throw"} /\ (t \in Workers => code[t][1].do \in {"run", "throw"})
  BY <1>m, <1>s, <1>w, ThreadSets
\* Only main acts, and creates nobody.
<1>b. ASSUME code[0] # <<>>, code'[0] = Tail(code[0]), code[0][1].do # "create", \A w \in Workers : code'[w] = code[w],
             UNCHANGED <<work, stopped, pending, begun>>, InLine(begun, queue, code[0], "post")'
      PROVE  Throwing'
  <2>1. Created' = Created BY <1>0, <1>b, CreatedStays
  <2>2. Gone' = Gone BY <1>b, <2>1 DEF Gone, Created
  <2>3. \A u \in Threads : Inside(u, Ends)' = Inside(u, Ends)
    <3>1. \A w \in Workers : Inside(w, Ends)' = Inside(w, Ends) BY <1>b DEF Inside
    <3> QED BY <1>t, <3>1, ThreadSets
  <2>4. Executing' = Executing BY <2>3 DEF Executing
  <2>5. Lost' = Lost BY <2>2, <2>4 DEF Lost
  <2> QED BY <1>a, <1>b, <1>d, <2>5
<1>1. CASE UNCHANGED vars
  <2>1. UNCHANGED <<prog, code, queue, work, stopped, pending, begun>> BY <1>1 DEF vars
  <2>2. Lost' = Lost BY <2>1 DEF Lost, Gone, Created, Executing, Inside, P
  <2> QED BY <1>a, <1>d, <2>1, <2>2
<1>2. CASE Expire \/ PeerAnswers BY <1>2, <1>d DEF Expire, PeerAnswers
<1>3. ASSUME NEW t \in Threads, CreateThread(t) PROVE Throwing'
  <2> DEFINE n == Arg(0).n
  <2>1. /\ code[0] # <<>> /\ code'[0] = Tail(code[0]) /\ n \in Workers /\ code'[n] = Do("run")
        /\ \A w \in Workers : w # n => code'[w] = code[w]
    BY <1>0, <1>3, CreateShape
  <2>2. n \in Created' /\ n \notin Created /\ \A w \in Workers : w # n => (w \in Created' <=> w \in Created)
    BY <1>0, <1>3, CreatedGrows
  <2>3. UNCHANGED <<queue, work, stopped, pending, begun>> BY <1>3 DEF CreateThread, services
  <2>4. InLine(begun, queue, code[0], "post")' BY <1>d, <1>t, <2>1, <2>3, InLineTail
  <2>5. code[n] = <<>> BY <2>1, <2>2 DEF Staffed
  <2> HIDE DEF n
  <2>6. Gone' = Gone
    <3>1. n \notin Gone /\ n \notin Gone' BY <2>1, <2>2, WorkerRun DEF Gone
    <3>2. \A w \in Workers : w # n => (w \in Gone' <=> w \in Gone) BY <2>1, <2>2 DEF Gone
    <3>3. Gone \subseteq Workers /\ Gone' \subseteq Workers BY DEF Gone, Created
    <3> QED BY <3>1, <3>2, <3>3
  <2>7. \A u \in Threads : Inside(u, Ends)' = Inside(u, Ends)
    <3>1. TAKE u \in Threads
    <3>2. CASE u = n
      <4>1. Inside(u, Ends) = {} BY <2>5, <3>2, EmptySeq DEF Inside
      <4>2. \A i \in DOMAIN Do("run") : Do("run")[i].do \notin Ends BY DEF Do, Stmt, Ends
      <4>3. Inside(u, Ends)' = {} BY <2>1, <3>2, <4>2 DEF Inside
      <4> QED BY <4>1, <4>3
    <3>3. CASE u = 0 BY <1>t, <3>3
    <3>4. CASE u \in Workers /\ u # n
      <4>1. code'[u] = code[u] BY <2>1, <3>4
      <4> QED BY <4>1 DEF Inside
    <3> QED BY <3>2, <3>3, <3>4, ThreadSets
  <2>8. Executing' = Executing BY <2>7 DEF Executing
  <2>9. Lost' = Lost BY <2>6, <2>8 DEF Lost
  <2>10. \A w \in Workers : Len(code'[w]) > 1 => InThrow(code'[w])
    <3>1. ~(Len(Do("run")) > 1) BY DEF Do
    <3> QED BY <1>d, <2>1, <3>1
  <2> QED BY <1>a, <1>d, <2>3, <2>4, <2>9, <2>10
<1>4. ASSUME NEW t \in Threads, Post(t) PROVE Throwing'
  <2>1. /\ t = 0 /\ code[0] # <<>> /\ code[0][1].do = "post" /\ Continue(0) /\ code[0][1].h \in Posted(prog)
        /\ queue' = Append(queue, code[0][1].h) /\ UNCHANGED <<work, stopped, pending, begun>>
    <3>1. code[t] # <<>> /\ code[t][1].do = "post" /\ Continue(t) /\ Arg(t) \in Posted(prog) BY <1>0, <1>4, PostShape
    <3>2. t = 0 BY <1>s, <3>1, ThreadSets
    <3> QED BY <1>4, <3>1, <3>2 DEF Post, Arg
  <2>2. code'[0] = Tail(code[0]) /\ \A w \in Workers : code'[w] = code[w] BY <1>0, <2>1, Continuing, ThreadSets
  <2>3. code[0][1].h \in Handler /\ code[0][1].h.kind = "ThrowAnException" BY <1>0, <2>1 DEF Posted
  <2>4. Sorted(code[0]) BY DEF Shape, CodeShape
  <2>5. InLine(begun, Append(queue, code[0][1].h), Tail(code[0]), "post")
    BY <1>d, <1>t, <2>1, <2>3, <2>4, InLineGive DEF MainOps
  <2> QED BY <1>b, <2>1, <2>2, <2>5
<1>5. ASSUME NEW t \in Threads, JoinAll(t) PROVE Throwing'
  <2>1. /\ code[t] # <<>> /\ code[t][1].do = "join" /\ Continue(t) /\ UNCHANGED <<queue, work, stopped, pending, begun>>
    BY <1>5 DEF JoinAll, At, services
  <2>2. t = 0 BY <1>s, <2>1, ThreadSets
  <2>3. code'[0] = Tail(code[0]) /\ \A w \in Workers : code'[w] = code[w] BY <1>0, <2>1, <2>2, Continuing, ThreadSets
  <2>4. InLine(begun, queue, code[0], "post")' BY <1>d, <1>t, <2>1, <2>2, <2>3, InLineTail
  <2> QED BY <1>b, <2>1, <2>2, <2>3, <2>4
<1>6. ASSUME NEW t \in Threads,
             \/ StrandPost(t) \/ Dispatch(t) \/ StrandDispatch(t) \/ Start(t) \/ Cancel(t) \/ DropWork(t) \/ Stop(t)
             \/ Enter(t) \/ Return(t) \/ Leave(t) \/ CallStrand(t)
      PROVE  FALSE
  <2>1. ~CallStrand(t)
    <3>1. CallStrand(t) => Head(strandQ) \in Stranded(prog) BY <1>0, CallStrandShape
    <3> QED BY <1>0, <3>1 DEF Stranded
  <2>2. ~Leave(t)
    <3>1. ASSUME Leave(t) PROVE FALSE
      <4>1. code[t] # <<>> /\ code[t][1].do = "run" BY <1>s, <3>1 DEF Leave, At
      <4> QED BY <1>d, <3>1, <4>1 DEF Leave, At, OutOfWork
    <3> QED BY <3>1
  <2>3. ASSUME NEW op \in {"strandPost", "dispatch", "strandDispatch", "wait", "start", "tryStart", "cancel", "dropWork", "stop",
                           "enter", "return", "unlock"}
        PROVE  ~At(t, op)
    BY <1>s DEF At
  <2> QED BY <1>6, <2>1, <2>2, <2>3 DEF StrandPost, Dispatch, StrandDispatch, Start, Cancel, DropWork, Stop, Enter, Return
<1>7. ASSUME NEW t \in Threads, Throw(t) PROVE Throwing'
  <2>1. /\ t \in Workers /\ code[t] # <<>> /\ code[t][1].do = "throw" /\ code'[t] = <<>>
        /\ \A u \in Threads : u # t => code'[u] = code[u]
        /\ UNCHANGED <<queue, work, pending, begun>> /\ stopped' = (stopped \/ OutOfWork')
    <3>1. P.mode = "catch" BY <1>0, Settings DEF P
    <3> QED BY <1>0, <1>7, <3>1, ThrowShape
  <2>2. ~stopped' BY <1>d, <2>1 DEF OutOfWork
  <2>3. code'[0] = code[0] /\ \A w \in Workers : w # t => code'[w] = code[w] BY <2>1, ThreadSets
  <2>4. Created' = Created BY <1>0, <2>3, CreatedStays
  <2>5. t \in Gone' BY <2>1, <2>4 DEF Gone, Staffed
  <2>6. t \in Executing
    <3>1. code[t] \in Seq(Anything) /\ Len(code[t]) > 1 BY <1>0, <2>1, Actor, Carried
    <3>2. InThrow(code[t]) BY <1>d, <2>1, <3>1
    <3>3. 2 \in DOMAIN code[t] /\ code[t][2].do \in Ends
      <4>1. DOMAIN code[t] = 1 .. 3 BY <3>1, <3>2, LenProperties DEF InThrow
      <4> QED BY <3>2, <4>1 DEF InThrow, Ends
    <3> QED BY <3>3, Insides DEF Executing
  <2>7. t \notin Executing'
    <3>1. Inside(t, Ends)' = {} BY <2>1, EmptySeq DEF Inside
    <3> QED BY <3>1 DEF Executing
  <2>8. \A u \in Threads : u # t => ((u \in Executing' <=> u \in Executing) /\ (u \in Gone' <=> u \in Gone))
    <3>1. ASSUME NEW u \in Threads, u # t PROVE Inside(u, Ends)' = Inside(u, Ends) BY <2>1, <3>1 DEF Inside
    <3> QED BY <2>1, <2>4, <3>1 DEF Executing, Gone
  <2>9. Lost' = Lost
    <3>1. Lost \subseteq Threads /\ Lost' \subseteq Threads BY ThreadSets DEF Lost, Gone, Created, Executing
    <3>2. t \in Lost /\ t \in Lost' BY <2>5, <2>6 DEF Lost
    <3>3. \A u \in Threads : u # t => (u \in Lost' <=> u \in Lost) BY <2>8 DEF Lost
    <3> QED BY <3>1, <3>2, <3>3
  <2>10. \A w \in Workers : Len(code'[w]) > 1 => InThrow(code'[w]) BY <1>d, <2>1, <2>3, EmptySeq
  <2> QED BY <1>a, <1>d, <2>1, <2>2, <2>3, <2>9, <2>10
<1>8. ASSUME NEW t \in Threads, CallNext(t) PROVE Throwing'
  <2> DEFINE h == Head(queue)
  <2>1. /\ t \in Workers /\ Begin(h) /\ queue # <<>> /\ queue' = Tail(queue) /\ h \in Posted(prog) /\ h \in Handler
        /\ Pushes(t, h, Stmt("return", h), code[t]) /\ UNCHANGED <<work, stopped, pending>> /\ code[t] \in Seq(Anything)
        /\ Len(code[t]) = 1 /\ code[t][1].do = "run"
    BY <1>0, <1>8, CallNextShape DEF Called
  <2>2. h.kind = "ThrowAnException" /\ ~h.wrapped BY <1>0, <2>1 DEF Posted
  <2>3. 1 \in DOMAIN queue /\ h = queue[1] BY <1>t, <2>1, Tailed
  <2>4. \A i \in DOMAIN begun : begun[i] # h
    <3>1. ASSUME NEW i \in DOMAIN begun, begun[i] = h PROVE FALSE
      <4>1. MayPrecede(h, h) BY <1>d, <2>3, <3>1 DEF InLine
      <4>2. h.n < h.n BY <2>2, <4>1 DEF MayPrecede
      <4>3. h.n \in Nat BY <2>1 DEF Handler
      <4> QED BY <4>2, <4>3
    <3> QED BY <3>1
  <2>5. begun' = Append(begun, h) BY <2>1, <2>2, <2>4 DEF Begin
  <2>6. code'[0] = code[0] /\ \A w \in Workers : w # t => code'[w] = code[w] BY <2>1, ThreadSets DEF Pushes
  <2>7. InLine(begun, queue, code[0], "post")' BY <1>d, <1>t, <2>1, <2>5, <2>6, InLineBegin
  <2>8. Body(h) = Do("throw") BY <1>0, <2>2, NoBodies
  <2>9. InThrow(code'[t])
    <3> HIDE DEF h
    <3>1. Len(Body(h)) = 1 /\ Body(h)[1].do = "throw" BY <2>8 DEF Do, Stmt
    <3>2. /\ Len(code'[t]) = 1 + 1 + Len(code[t]) /\ code'[t][1] = Body(h)[1]
          /\ code'[t][1 + 1] = Stmt("return", h)
          /\ \A i \in 1 .. Len(code[t]) : code'[t][1 + 1 + i] = code[t][i]
      BY <2>1, <3>1 DEF Pushes
    <3>3. code'[t][3] = code[t][1] BY <2>1, <3>2
    <3> QED BY <2>1, <3>1, <3>2, <3>3 DEF InThrow, Stmt
  <2>10. Created' = Created BY <1>0, <2>6, CreatedStays
  <2>11. t \notin Lost
    <3>1. code[t] # <<>> BY <2>1, EmptySeq
    <3>2. Inside(t, Ends) = {}
      <4>1. DOMAIN code[t] = {1} BY <2>1, LenProperties
      <4> QED BY <2>1, <4>1 DEF Inside, Ends
    <3> QED BY <3>1, <3>2 DEF Lost, Gone, Executing
  <2>12. t \in Executing'
    <3>1. code'[t] \in Seq(Anything) BY <1>0, <2>1, ThreadSets DEF Shape, CodeShape
    <3>2. DOMAIN code'[t] = 1 .. 3 BY <2>9, <3>1, LenProperties DEF InThrow
    <3>3. 2 \in DOMAIN code'[t] /\ code'[t][2].do \in Ends BY <2>9, <3>2 DEF InThrow, Ends
    <3>4. code'[t][2].h \in Inside(t, Ends)' BY <3>3 DEF Inside
    <3> QED BY <3>4 DEF Executing
  <2>13. \A u \in Threads : u # t => ((u \in Executing' <=> u \in Executing) /\ (u \in Gone' <=> u \in Gone))
    <3>1. ASSUME NEW u \in Threads, u # t PROVE code'[u] = code[u] BY <2>1, <3>1 DEF Pushes
    <3>2. ASSUME NEW u \in Threads, u # t PROVE Inside(u, Ends)' = Inside(u, Ends) BY <3>1, <3>2 DEF Inside
    <3> QED BY <2>10, <3>1, <3>2 DEF Executing, Gone
  <2>14. Lost' = Lost \union {t}
    <3>1. Lost \subseteq Threads /\ Lost' \subseteq Threads BY ThreadSets DEF Lost, Gone, Created, Executing
    <3>2. t \in Lost' BY <2>12 DEF Lost
    <3>3. \A u \in Threads : u # t => (u \in Lost' <=> u \in Lost) BY <2>13 DEF Lost
    <3> QED BY <3>1, <3>2, <3>3
  <2>15. Cardinality(Lost') = Cardinality(Lost) + 1 BY <2>11, <2>14, LostFinite, FS_AddElement
  <2>16. Len(begun') = Len(begun) + 1 BY <1>t, <2>1, <2>5, AppendProperties
  <2>17. \A w \in Workers : Len(code'[w]) > 1 => InThrow(code'[w]) BY <1>d, <2>6, <2>9
  <2> QED BY <1>a, <1>d, <2>1, <2>7, <2>15, <2>16, <2>17
<1> QED BY <1>1, <1>2, <1>3, <1>4, <1>5, <1>6, <1>7, <1>8, StepCases

\* Where the thread calls run() again no thread is lost before the io_service
\* is stopped; where it does not, every handler costs one.
THEOREM ThreadsLost == Spec => []PoolSurvives
<1>1. Staffed /\ Throwing => PoolSurvives BY DEF Staffed, Throwing, PoolSurvives, Gone
<1>2. Init => Throwing
  <2> SUFFICES ASSUME Init, prog = "exception" PROVE Throwing BY DEF Throwing
  <2>1. /\ begun = <<>> /\ queue = <<>> /\ pending = {} /\ ~stopped /\ work
        /\ code[0] = P.main /\ \A w \in Workers : code[w] = <<>>
    BY ThreadSets, Settings DEF Init, P
  <2>2. Gone = {} BY <2>1 DEF Gone, Created
  <2>3. Executing = {}
    <3>1. Inside(0, Ends) = {} BY ShapeInit, MainOutside
    <3>2. \A w \in Workers : Inside(w, Ends) = {} BY <2>1, EmptySeq DEF Inside
    <3> QED BY <3>1, <3>2, ThreadSets DEF Executing
  <2>4. Len(begun) = 0 /\ Cardinality({}) = 0 BY <2>1, FS_EmptySet
  <2>5. Len(begun) = Cardinality(Gone \union Executing) BY <2>2, <2>3, <2>4
  <2>6. InLine(begun, queue, code[0], "post") BY <2>1 DEF InLine
  <2> QED BY <2>1, <2>5, <2>6 DEF Throwing
<1>3. Init => Staffed BY StaffedInit
<1>4. Shape /\ Staffed /\ Throwing /\ [Next]_vars => (Staffed /\ Throwing)' BY StaffedNext, ThrowingNext
<1> QED BY <1>1, <1>2, <1>3, <1>4, Shaped, PTL DEF Spec
==============================================================================
