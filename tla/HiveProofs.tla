----------------------------- MODULE HiveProofs -----------------------------
(***************************************************************************)
(* Proofs about Hive, for any number of threads and any depth of calls:    *)
(* its typing, and what Stop, Reset and the handlers that call them leave  *)
(* of the work object, the io_service and the flag m_shutdown.             *)
(***************************************************************************)
EXTENDS Hive, FiniteSetTheorems, TLAPS

(***************************************************************************)
(* The inductive invariant.                                                *)
(***************************************************************************)
\* Thread t is in a call of kind f.
In(t, f) == \E i \in DOMAIN stack[t] : stack[t][i] = f
Anywhere(f) == \E t \in Threads : In(t, f)

\* Handlers execute inside run(), poll() or the run() of Stop.
Nested ==
  \A t \in Threads : \A i \in DOMAIN stack[t] :
    stack[t][i] = "handler" =>
      i + 1 \in DOMAIN stack[t] /\ stack[t][i + 1] \in {"run", "poll", "drain"}

\* The flag lets one thread into Stop, at one depth of its calls.
OneStop ==
  \A t, u \in Threads : \A i \in DOMAIN stack[t], j \in DOMAIN stack[u] :
    stack[t][i] \in StopFrames /\ stack[u][j] \in StopFrames => t = u /\ i = j

\* Reset runs alone.
ResetAlone ==
  \A t, u \in Threads :
    In(t, "revive") \/ In(t, "rework") => Len(stack[t]) = 1 /\ (u # t => stack[u] = <<>>)

\* The flag tells a call of Stop from a call of Reset, and what their statements
\* have done so far.
Progress ==
  /\ Stopping => shutdown = 1
  /\ Resetting => shutdown = 0
  /\ Anywhere("work") => work /\ ~stopped
  /\ Anywhere("drain") => ~work
  /\ Anywhere("halt") => ~work /\ stopped
  /\ Anywhere("revive") => ~work /\ stopped
  /\ Anywhere("rework") => ~work /\ ~stopped

\* No handler executes in a stopped io_service: it stops after the last one.
Finished == stopped => ~Anywhere("handler")

Calls == TypeOK /\ Nested /\ OneStop /\ ResetAlone
State == Progress /\ FlagAgrees /\ Finished
IInv == Calls /\ State

(***************************************************************************)
(* Lemmas about the calls a thread is in.                                  *)
(***************************************************************************)
\* The handlers that execute, as positions in the stacks.
LEMMA Handling ==
  /\ \A e \in Executing :
       \E t \in Threads : \E i \in DOMAIN stack[t] : e = <<t, i>> /\ stack[t][i] = "handler"
  /\ \A t \in Threads : \A i \in DOMAIN stack[t] :
       stack[t][i] = "handler" => <<t, i>> \in Executing
<1> DEFINE H(t) == {<<t, i>> : i \in {j \in DOMAIN stack[t] : stack[t][j] = "handler"}}
<1>1. ASSUME NEW e \in Executing
      PROVE  \E t \in Threads : \E i \in DOMAIN stack[t] : e = <<t, i>> /\ stack[t][i] = "handler"
  <2>1. PICK t \in Threads : e \in H(t)
    BY <1>1 DEF Executing
  <2> QED BY <2>1
<1>2. ASSUME NEW t \in Threads, NEW i \in DOMAIN stack[t], stack[t][i] = "handler"
      PROVE  <<t, i>> \in Executing
  <2>1. <<t, i>> \in H(t)
    BY <1>2
  <2> QED BY <2>1 DEF Executing
<1> QED BY <1>1, <1>2

LEMMA Kinds ==
  TypeOK =>
    /\ Stopping <=> Anywhere("work") \/ Anywhere("drain") \/ Anywhere("halt")
    /\ Resetting <=> Anywhere("revive") \/ Anywhere("rework")
    /\ Running <=> Anywhere("run") \/ Anywhere("poll")
    /\ Executing = {} <=> ~Anywhere("handler")
<1> SUFFICES ASSUME TypeOK
             PROVE  /\ Stopping <=> Anywhere("work") \/ Anywhere("drain") \/ Anywhere("halt")
                    /\ Resetting <=> Anywhere("revive") \/ Anywhere("rework")
                    /\ Running <=> Anywhere("run") \/ Anywhere("poll")
                    /\ Executing = {} <=> ~Anywhere("handler")
  OBVIOUS
<1>1. Stopping <=> Anywhere("work") \/ Anywhere("drain") \/ Anywhere("halt")
  BY DEF Stopping, Anywhere, In, Frames, StopFrames
<1>2. Resetting <=> Anywhere("revive") \/ Anywhere("rework")
  BY DEF Resetting, Anywhere, In, Frames, ResetFrames
<1>3. Running <=> Anywhere("run") \/ Anywhere("poll")
  BY DEF Running, Anywhere, In, Frames
<1>4. Executing = {} <=> ~Anywhere("handler")
  <2>1. ASSUME Executing # {} PROVE Anywhere("handler")
    BY <2>1, Handling DEF Anywhere, In
  <2>2. ASSUME Anywhere("handler") PROVE Executing # {}
    BY <2>2, Handling DEF Anywhere, In
  <2> QED BY <2>1, <2>2
<1> QED BY <1>1, <1>2, <1>3, <1>4

LEMMA KindsNext ==
  TypeOK' =>
    /\ Stopping' <=> (Anywhere("work") \/ Anywhere("drain") \/ Anywhere("halt"))'
    /\ Resetting' <=> (Anywhere("revive") \/ Anywhere("rework"))'
    /\ (Executing = {})' <=> ~Anywhere("handler")'
  BY Kinds, PTL

\* The innermost call of a thread.
LEMMA TopIs ==
  ASSUME TypeOK, NEW t \in Threads, NEW f, Top(t) = f, f # "none"
  PROVE  /\ stack[t] # <<>> /\ 1 \in DOMAIN stack[t] /\ stack[t][1] = f
         /\ In(t, f) /\ Anywhere(f)
<1>1. stack[t] \in Seq(Frame) /\ stack[t] # <<>> /\ Head(stack[t]) = f
  BY DEF TypeOK, Top
<1>2. 1 \in DOMAIN stack[t] /\ stack[t][1] = f
  BY <1>1
<1> QED BY <1>1, <1>2 DEF In, Anywhere

LEMMA Idle ==
  ASSUME TypeOK, NEW t \in Threads, Top(t) = "none"
  PROVE  stack[t] = <<>>
<1>1. CASE stack[t] # <<>>
  <2>1. stack[t] \in Seq(Frame) /\ Head(stack[t]) \in Frame
    BY <1>1 DEF TypeOK
  <2> QED BY <2>1, <1>1 DEF Top, Frame, StopFrames, ResetFrames
<1> QED BY <1>1

\* The positions of the calls after one is entered, left or replaced.
LEMMA Pushed ==
  ASSUME TypeOK, NEW t \in Threads, NEW f \in Frame, Push(t, f)
  PROVE  /\ stack' \in [Threads -> Seq(Frame)]
         /\ \A u \in Threads \ {t} : stack'[u] = stack[u]
         /\ Len(stack'[t]) = Len(stack[t]) + 1 /\ stack'[t][1] = f
         /\ \A i \in DOMAIN stack[t] : i + 1 \in DOMAIN stack'[t] /\ stack'[t][i + 1] = stack[t][i]
         /\ \A i \in DOMAIN stack'[t] :
              i = 1 \/ (i - 1 \in DOMAIN stack[t] /\ stack'[t][i] = stack[t][i - 1])
<1> DEFINE s == stack[t]
<1> DEFINE p == <<f>> \o s
<1>1. s \in Seq(Frame)
  BY DEF TypeOK
<1>2. /\ p \in Seq(Frame) /\ Len(p) = Len(s) + 1 /\ p[1] = f
      /\ \A i \in DOMAIN s : i + 1 \in DOMAIN p /\ p[i + 1] = s[i]
      /\ \A i \in DOMAIN p : i = 1 \/ (i - 1 \in DOMAIN s /\ p[i] = s[i - 1])
  BY <1>1
<1>3. stack' = [stack EXCEPT ![t] = p] /\ stack \in [Threads -> Seq(Frame)]
  BY DEF Push, TypeOK
<1> QED BY <1>2, <1>3

LEMMA Popped ==
  ASSUME TypeOK, NEW t \in Threads, stack[t] # <<>>, Pop(t)
  PROVE  /\ stack' \in [Threads -> Seq(Frame)]
         /\ \A u \in Threads \ {t} : stack'[u] = stack[u]
         /\ Len(stack'[t]) = Len(stack[t]) - 1
         /\ \A i \in DOMAIN stack'[t] : i + 1 \in DOMAIN stack[t] /\ stack'[t][i] = stack[t][i + 1]
         /\ \A i \in DOMAIN stack[t] :
              i = 1 \/ (i - 1 \in DOMAIN stack'[t] /\ stack'[t][i - 1] = stack[t][i])
<1> DEFINE s == stack[t]
<1> DEFINE p == Tail(s)
<1>1. s \in Seq(Frame) /\ s # <<>>
  BY DEF TypeOK
<1>2. /\ p \in Seq(Frame) /\ Len(p) = Len(s) - 1
      /\ \A i \in DOMAIN p : i + 1 \in DOMAIN s /\ p[i] = s[i + 1]
      /\ \A i \in DOMAIN s : i = 1 \/ (i - 1 \in DOMAIN p /\ p[i - 1] = s[i])
  BY <1>1
<1>3. stack' = [stack EXCEPT ![t] = p] /\ stack \in [Threads -> Seq(Frame)]
  BY DEF Pop, TypeOK
<1> QED BY <1>2, <1>3

LEMMA Replaced ==
  ASSUME TypeOK, NEW t \in Threads, NEW f \in Frame, stack[t] # <<>>, Become(t, f)
  PROVE  /\ stack' \in [Threads -> Seq(Frame)]
         /\ \A u \in Threads \ {t} : stack'[u] = stack[u]
         /\ Len(stack'[t]) = Len(stack[t]) /\ DOMAIN stack'[t] = DOMAIN stack[t]
         /\ stack'[t][1] = f
         /\ \A i \in DOMAIN stack[t] : i = 1 \/ stack'[t][i] = stack[t][i]
<1> DEFINE s == stack[t]
<1> DEFINE p == <<f>> \o Tail(s)
<1>1. s \in Seq(Frame) /\ s # <<>>
  BY DEF TypeOK
<1>2. Tail(s) \in Seq(Frame) /\ Len(Tail(s)) = Len(s) - 1 /\ \A i \in 1 .. Len(s) - 1 : Tail(s)[i] = s[i + 1]
  BY <1>1
<1>3. /\ p \in Seq(Frame) /\ Len(p) = Len(s) /\ p[1] = f /\ DOMAIN p = DOMAIN s
      /\ \A i \in DOMAIN s : i = 1 \/ p[i] = s[i]
  BY <1>1, <1>2
<1>4. stack' = [stack EXCEPT ![t] = p] /\ stack \in [Threads -> Seq(Frame)]
  BY DEF Become, TypeOK
<1> QED BY <1>3, <1>4

\* What that does to the calls a thread is in.
LEMMA PushedIn ==
  ASSUME TypeOK, NEW t \in Threads, NEW f \in Frame, Push(t, f), NEW u \in Threads, NEW g
  PROVE  In(u, g)' <=> In(u, g) \/ (u = t /\ g = f)
<1>1. CASE u # t
  BY <1>1, Pushed DEF In
<1>2. CASE u = t
  <2>1. ASSUME In(t, g) PROVE In(t, g)'
    <3>1. PICK i \in DOMAIN stack[t] : stack[t][i] = g
      BY <2>1 DEF In
    <3>2. i + 1 \in DOMAIN stack'[t] /\ stack'[t][i + 1] = g
      BY <3>1, Pushed
    <3> QED BY <3>2 DEF In
  <2>2. ASSUME g = f PROVE In(t, g)'
    <3>1. 1 \in DOMAIN stack'[t] /\ stack'[t][1] = g
      <4>1. stack'[t] \in Seq(Frame) /\ stack[t] \in Seq(Frame) /\ Len(stack'[t]) = Len(stack[t]) + 1
        BY Pushed DEF TypeOK
      <4> QED BY <4>1, <2>2, Pushed
    <3> QED BY <3>1 DEF In
  <2>3. ASSUME In(t, g)', g # f PROVE In(t, g)
    <3>1. PICK i \in DOMAIN stack'[t] : stack'[t][i] = g
      BY <2>3 DEF In
    <3>2. i - 1 \in DOMAIN stack[t] /\ stack[t][i - 1] = g
      BY <3>1, <2>3, Pushed
    <3> QED BY <3>2 DEF In
  <2> QED BY <1>2, <2>1, <2>2, <2>3
<1> QED BY <1>1, <1>2

LEMMA PoppedIn ==
  ASSUME TypeOK, NEW t \in Threads, stack[t] # <<>>, Pop(t), NEW u \in Threads, NEW g
  PROVE  /\ In(u, g)' => In(u, g)
         /\ In(u, g) => In(u, g)' \/ (u = t /\ g = stack[t][1])
<1>1. CASE u # t
  BY <1>1, Popped DEF In
<1>2. CASE u = t
  <2>1. ASSUME In(t, g)' PROVE In(t, g)
    <3>1. PICK i \in DOMAIN stack'[t] : stack'[t][i] = g
      BY <2>1 DEF In
    <3>2. i + 1 \in DOMAIN stack[t] /\ stack[t][i + 1] = g
      BY <3>1, Popped
    <3> QED BY <3>2 DEF In
  <2>2. ASSUME In(t, g), g # stack[t][1] PROVE In(t, g)'
    <3>1. PICK i \in DOMAIN stack[t] : stack[t][i] = g
      BY <2>2 DEF In
    <3>2. i - 1 \in DOMAIN stack'[t] /\ stack'[t][i - 1] = g
      BY <3>1, <2>2, Popped
    <3> QED BY <3>2 DEF In
  <2> QED BY <1>2, <2>1, <2>2
<1> QED BY <1>1, <1>2

LEMMA ReplacedIn ==
  ASSUME TypeOK, NEW t \in Threads, NEW f \in Frame, stack[t] # <<>>, Become(t, f),
         NEW u \in Threads, NEW g
  PROVE  /\ In(u, g)' => In(u, g) \/ (u = t /\ g = f)
         /\ In(u, g) => In(u, g)' \/ (u = t /\ g = stack[t][1])
  BY Replaced DEF In

(***************************************************************************)
(* The calls of all threads keep their order.                              *)
(***************************************************************************)
\* Entering a call: a handler only inside run() or poll(), one call of Stop, and
\* nothing while Reset runs.
LEMMA PushKeepsCalls ==
  ASSUME Calls, NEW t \in Threads, NEW f \in Frame, Push(t, f), TypeOK',
         f \notin ResetFrames, ~Resetting,
         f = "handler" => Top(t) \in {"run", "poll", "drain"},
         f \in StopFrames => ~Stopping
  PROVE  Calls'
<1> USE DEF Calls
<1>1. Nested'
  <2> SUFFICES ASSUME NEW u \in Threads, NEW i \in DOMAIN stack'[u], stack'[u][i] = "handler"
               PROVE  i + 1 \in DOMAIN stack'[u] /\ stack'[u][i + 1] \in {"run", "poll", "drain"}
    BY DEF Nested
  <2>1. CASE u # t
    BY <2>1, Pushed DEF Nested
  <2>2. CASE u = t /\ i = 1
    <3>1. Top(t) \in {"run", "poll", "drain"}
      BY <2>2, Pushed
    <3>2. 1 \in DOMAIN stack[t] /\ stack[t][1] \in {"run", "poll", "drain"}
      BY <3>1, TopIs
    <3> QED BY <3>2, <2>2, Pushed
  <2>3. CASE u = t /\ i # 1
    <3>1. i - 1 \in DOMAIN stack[t] /\ stack[t][i - 1] = "handler"
      BY <2>3, Pushed
    <3>2. (i - 1) + 1 \in DOMAIN stack[t] /\ stack[t][(i - 1) + 1] \in {"run", "poll", "drain"}
      BY <3>1 DEF Nested
    <3>3. ((i - 1) + 1) + 1 = i + 1
      BY <3>1 DEF TypeOK
    <3> QED BY <3>2, <3>3, <2>3, Pushed
  <2> QED BY <2>1, <2>2, <2>3
<1>2. OneStop'
  <2> SUFFICES ASSUME NEW u \in Threads, NEW v \in Threads,
                      NEW i \in DOMAIN stack'[u], NEW j \in DOMAIN stack'[v],
                      stack'[u][i] \in StopFrames, stack'[v][j] \in StopFrames
               PROVE  u = v /\ i = j
    BY DEF OneStop
  <2>1. CASE f \in StopFrames
    <3>1. ASSUME NEW w \in Threads, NEW k \in DOMAIN stack'[w], stack'[w][k] \in StopFrames
          PROVE  w = t /\ k = 1
      <4>1. ASSUME NEW x \in Threads, NEW l \in DOMAIN stack[x] PROVE stack[x][l] \notin StopFrames
        BY <2>1 DEF Stopping, Frames
      <4> QED BY <3>1, <4>1, Pushed
    <3> QED BY <3>1
  <2>2. CASE f \notin StopFrames
    <3> DEFINE b(w, k) == IF w = t THEN k - 1 ELSE k
    <3>1. ASSUME NEW w \in Threads, NEW k \in DOMAIN stack'[w], stack'[w][k] \in StopFrames
          PROVE  b(w, k) \in DOMAIN stack[w] /\ stack[w][b(w, k)] \in StopFrames /\ k \in Nat
      <4>1. stack'[w] \in Seq(Frame)
        BY DEF TypeOK
      <4> QED BY <4>1, <3>1, <2>2, Pushed
    <3>2. u = v /\ b(u, i) = b(v, j) /\ i \in Nat /\ j \in Nat
      BY <3>1 DEF OneStop
    <3> QED BY <3>2
  <2> QED BY <2>1, <2>2
<1>3. ResetAlone'
  <2>1. ASSUME NEW u \in Threads PROVE ~In(u, "revive")' /\ ~In(u, "rework")'
    <3>1. ~In(u, "revive") /\ ~In(u, "rework")
      BY Kinds DEF Anywhere
    <3> QED BY <3>1, PushedIn DEF ResetFrames
  <2> QED BY <2>1 DEF ResetAlone
<1> QED BY <1>1, <1>2, <1>3

LEMMA PopKeepsCalls ==
  ASSUME Calls, NEW t \in Threads, stack[t] # <<>>, Pop(t), TypeOK'
  PROVE  Calls'
<1> USE DEF Calls
<1>1. Nested'
  <2> SUFFICES ASSUME NEW u \in Threads, NEW i \in DOMAIN stack'[u], stack'[u][i] = "handler"
               PROVE  i + 1 \in DOMAIN stack'[u] /\ stack'[u][i + 1] \in {"run", "poll", "drain"}
    BY DEF Nested
  <2>1. CASE u # t
    BY <2>1, Popped DEF Nested
  <2>2. CASE u = t
    <3>1. i + 1 \in DOMAIN stack[t] /\ stack[t][i + 1] = "handler"
      BY <2>2, Popped
    <3>2. (i + 1) + 1 \in DOMAIN stack[t] /\ stack[t][(i + 1) + 1] \in {"run", "poll", "drain"}
      BY <3>1 DEF Nested
    <3>3. i \in Nat /\ i # 0
      BY DEF TypeOK
    <3>4. ((i + 1) + 1) - 1 = i + 1 /\ (i + 1) + 1 # 1
      BY <3>3
    <3> QED BY <3>2, <3>4, <2>2, Popped
  <2> QED BY <2>1, <2>2
<1>2. OneStop'
  <2> DEFINE b(w, k) == IF w = t THEN k + 1 ELSE k
  <2>1. ASSUME NEW w \in Threads, NEW k \in DOMAIN stack'[w]
        PROVE  b(w, k) \in DOMAIN stack[w] /\ stack[w][b(w, k)] = stack'[w][k] /\ k \in Nat
    <3>1. stack'[w] \in Seq(Frame)
      BY DEF TypeOK
    <3> QED BY <3>1, Popped
  <2>2. ASSUME NEW u \in Threads, NEW v \in Threads,
               NEW i \in DOMAIN stack'[u], NEW j \in DOMAIN stack'[v],
               stack'[u][i] \in StopFrames, stack'[v][j] \in StopFrames
        PROVE  u = v /\ i = j
    <3>1. u = v /\ b(u, i) = b(v, j) /\ i \in Nat /\ j \in Nat
      BY <2>1, <2>2 DEF OneStop
    <3> QED BY <3>1
  <2> QED BY <2>2 DEF OneStop
<1>3. ResetAlone'
  <2> SUFFICES ASSUME NEW u \in Threads, NEW v \in Threads, In(u, "revive")' \/ In(u, "rework")'
               PROVE  Len(stack'[u]) = 1 /\ (v # u => stack'[v] = <<>>)
    BY DEF ResetAlone
  <2>1. Len(stack[u]) = 1 /\ \A w \in Threads : w # u => stack[w] = <<>>
    BY PoppedIn DEF ResetAlone
  <2>2. u = t
    BY <2>1
  <2>3. DOMAIN stack'[t] = {}
    BY <2>1, <2>2, Popped DEF TypeOK
  <2> QED BY <2>2, <2>3 DEF In
<1> QED BY <1>1, <1>2, <1>3

\* The next statement of Stop or of Reset.
LEMMA BecomeKeepsCalls ==
  ASSUME Calls, NEW t \in Threads, NEW f \in Frame, Become(t, f), TypeOK', Top(t) # "none",
         \/ f \in StopFrames /\ Top(t) \in StopFrames
         \/ f \in ResetFrames /\ Top(t) \in ResetFrames
  PROVE  Calls'
<1> USE DEF Calls
<1>1. stack[t] # <<>> /\ stack[t][1] = Top(t) /\ In(t, Top(t)) /\ 1 \in DOMAIN stack[t]
  BY TopIs
<1>2. Nested'
  <2> SUFFICES ASSUME NEW u \in Threads, NEW i \in DOMAIN stack'[u], stack'[u][i] = "handler"
               PROVE  i + 1 \in DOMAIN stack'[u] /\ stack'[u][i + 1] \in {"run", "poll", "drain"}
    BY DEF Nested
  <2>1. CASE u # t
    BY <1>1, <2>1, Replaced DEF Nested
  <2>2. CASE u = t
    <3>1. i # 1
      BY <1>1, <2>2, Replaced DEF StopFrames, ResetFrames
    <3>2. i + 1 \in DOMAIN stack[t] /\ stack[t][i + 1] \in {"run", "poll", "drain"}
      BY <1>1, <2>2, <3>1, Replaced DEF Nested
    <3>3. i \in Nat /\ i # 0
      BY DEF TypeOK
    <3> QED BY <1>1, <2>2, <3>2, <3>3, Replaced
  <2> QED BY <2>1, <2>2
<1>3. OneStop'
  <2>1. ASSUME NEW w \in Threads, NEW k \in DOMAIN stack'[w], stack'[w][k] \in StopFrames
        PROVE  k \in DOMAIN stack[w] /\ stack[w][k] \in StopFrames
    BY <1>1, <2>1, Replaced DEF StopFrames, ResetFrames
  <2> QED BY <2>1 DEF OneStop
<1>4. ResetAlone'
  <2> SUFFICES ASSUME NEW u \in Threads, NEW v \in Threads, In(u, "revive")' \/ In(u, "rework")'
               PROVE  Len(stack'[u]) = 1 /\ (v # u => stack'[v] = <<>>)
    BY DEF ResetAlone
  <2>1. In(u, "revive") \/ In(u, "rework")
    BY <1>1, ReplacedIn DEF StopFrames, ResetFrames
  <2>2. Len(stack[u]) = 1 /\ \A w \in Threads : w # u => stack[w] = <<>>
    BY <2>1 DEF ResetAlone
  <2>3. u = t
    BY <1>1, <2>2
  <2> QED BY <1>1, <2>2, <2>3, Replaced
<1> QED BY <1>2, <1>3, <1>4

(***************************************************************************)
(* The count of work of the io_service.                                    *)
(***************************************************************************)
LEMMA ExecutingFinite ==
  ASSUME TypeOK PROVE IsFiniteSet(Executing)
<1> DEFINE P(t) == {j \in DOMAIN stack[t] : stack[t][j] = "handler"}
<1> DEFINE H(t) == {<<t, i>> : i \in P(t)}
<1>1. ASSUME NEW t \in Threads PROVE IsFiniteSet(H(t))
  <2>1. stack[t] \in Seq(Frame)
    BY DEF TypeOK
  <2>2. P(t) \in SUBSET (1 .. Len(stack[t])) /\ Len(stack[t]) \in Int
    BY <2>1
  <2>3. IsFiniteSet(1 .. Len(stack[t]))
    BY <2>2, FS_Interval
  <2>4. IsFiniteSet(P(t))
    <3> HIDE DEF P
    <3> QED BY <2>2, <2>3, FS_Subset
  <2> DEFINE g == [i \in P(t) |-> <<t, i>>]
  <2>5. g \in Surjection(P(t), H(t))
    BY DEF Surjection
  <2> QED BY <2>4, <2>5, FS_Surjection
<1>2. IsFiniteSet({H(t) : t \in Threads})
  <2> DEFINE g == [t \in Threads |-> H(t)]
  <2>1. g \in Surjection(Threads, {H(t) : t \in Threads})
    BY DEF Surjection
  <2> QED BY <2>1, FS_Surjection, HiveAssumption
<1>3. IsFiniteSet(UNION {H(t) : t \in Threads})
  BY <1>1, <1>2, FS_UNION
<1> QED BY <1>3 DEF Executing

LEMMA Counted ==
  ASSUME TypeOK
  PROVE  /\ Busy \in Nat
         /\ Busy = 0 => ready = 0 /\ pending = 0 /\ ~Anywhere("handler")
         /\ Outstanding = 0 => ~work /\ ready = 0 /\ pending = 0 /\ ~Anywhere("handler")
<1>1. Cardinality(Executing) \in Nat /\ (Cardinality(Executing) = 0 <=> Executing = {})
  BY ExecutingFinite, FS_CardinalityType, FS_EmptySet
<1>2. ready \in Nat /\ pending \in Nat /\ work \in BOOLEAN
  BY DEF TypeOK
<1>3. Busy \in Nat /\ (Busy = 0 => ready = 0 /\ pending = 0 /\ ~Anywhere("handler"))
  BY <1>1, <1>2, Kinds DEF Busy
<1>4. Outstanding = 0 => ~work /\ Busy = 0
  BY <1>2, <1>3 DEF Outstanding
<1> QED BY <1>3, <1>4

\* The last handler: no other one executes when the count is one.
LEMMA LastHandler ==
  ASSUME TypeOK, NEW t \in Threads, Top(t) = "handler", Outstanding = 1, Pop(t)
  PROVE  ~work /\ ready = 0 /\ pending = 0 /\ ~Anywhere("handler")'
<1>1. 1 \in DOMAIN stack[t] /\ stack[t][1] = "handler" /\ <<t, 1>> \in Executing /\ stack[t] # <<>>
  BY TopIs, Handling
<1>2. Cardinality(Executing) \in Nat /\ Cardinality(Executing) # 0
  BY <1>1, ExecutingFinite, FS_CardinalityType, FS_EmptySet
<1>3. ready \in Nat /\ pending \in Nat /\ work \in BOOLEAN
  BY DEF TypeOK
<1>4. ~work /\ ready = 0 /\ pending = 0 /\ Cardinality(Executing) = 1
  BY <1>2, <1>3 DEF Outstanding, Busy
<1>5. Executing = {<<t, 1>>}
  BY <1>1, <1>4, ExecutingFinite, FS_Singleton
<1>6. ASSUME NEW u \in Threads, In(u, "handler")' PROVE FALSE
  <2>1. PICK i \in DOMAIN stack'[u] : stack'[u][i] = "handler"
    BY <1>6 DEF In
  <2>2. CASE u # t
    <3>1. i \in DOMAIN stack[u] /\ stack[u][i] = "handler"
      BY <1>1, <2>1, <2>2, Popped
    <3> QED BY <3>1, <2>2, <1>5, Handling
  <2>3. CASE u = t
    <3>1. i + 1 \in DOMAIN stack[t] /\ stack[t][i + 1] = "handler"
      BY <1>1, <2>1, <2>3, Popped
    <3>2. <<t, i + 1>> = <<t, 1>>
      BY <3>1, <1>5, Handling
    <3>3. stack'[t] \in Seq(Frame)
      BY <1>1, Popped
    <3> QED BY <3>2, <3>3, <2>1, <2>3
  <2> QED BY <2>2, <2>3
<1> QED BY <1>4, <1>6 DEF Anywhere

(***************************************************************************)
(* Which calls there are after a step.                                     *)
(***************************************************************************)
LEMMA PushedAnywhere ==
  ASSUME TypeOK, NEW t \in Threads, NEW f \in Frame, Push(t, f), NEW g
  PROVE  Anywhere(g)' <=> Anywhere(g) \/ g = f
  BY PushedIn DEF Anywhere

LEMMA PoppedAnywhere ==
  ASSUME TypeOK, NEW t \in Threads, stack[t] # <<>>, Pop(t), NEW g
  PROVE  /\ Anywhere(g)' => Anywhere(g)
         /\ Anywhere(g) => Anywhere(g)' \/ g = stack[t][1]
  BY PoppedIn DEF Anywhere

LEMMA ReplacedAnywhere ==
  ASSUME TypeOK, NEW t \in Threads, NEW f \in Frame, stack[t] # <<>>, Become(t, f), NEW g
  PROVE  /\ Anywhere(g)' => Anywhere(g) \/ g = f
         /\ Anywhere(g) => Anywhere(g)' \/ g = stack[t][1]
  BY ReplacedIn DEF Anywhere

\* While Reset runs, no thread is in another call.
LEMMA NotResetting ==
  ASSUME Calls, NEW t \in Threads, NEW g, In(t, g), g \notin ResetFrames
  PROVE  ~Resetting
<1>1. ASSUME NEW u \in Threads, In(u, "revive") \/ In(u, "rework") PROVE FALSE
  <2>1. Len(stack[u]) = 1 /\ (t # u => stack[t] = <<>>) /\ stack[u] \in Seq(Frame)
    BY <1>1 DEF Calls, ResetAlone, TypeOK
  <2>2. t = u
    BY <2>1 DEF In
  <2> QED BY <1>1, <2>1, <2>2 DEF In, ResetFrames
<1> QED BY <1>1, Kinds DEF Anywhere, Calls

\* The one call of Stop ends, or goes on with its next statement.
LEMMA StopLeft ==
  ASSUME Calls, NEW t \in Threads, Top(t) \in StopFrames, Pop(t)
  PROVE  \A g \in StopFrames : ~Anywhere(g)'
<1> USE DEF Calls
<1>1. stack[t] # <<>> /\ 1 \in DOMAIN stack[t] /\ stack[t][1] \in StopFrames
  BY TopIs DEF StopFrames
<1> SUFFICES ASSUME NEW u \in Threads, NEW i \in DOMAIN stack'[u], stack'[u][i] \in StopFrames
             PROVE  FALSE
  BY DEF Anywhere, In
<1>2. CASE u # t
  BY <1>1, <1>2, Popped DEF OneStop
<1>3. CASE u = t
  <2>1. i + 1 \in DOMAIN stack[t] /\ stack[t][i + 1] \in StopFrames
    BY <1>1, <1>3, Popped
  <2>2. i + 1 = 1
    BY <2>1, <1>1 DEF OneStop
  <2>3. stack'[t] \in Seq(Frame)
    BY <1>1, Popped
  <2> QED BY <1>3, <2>2, <2>3
<1> QED BY <1>2, <1>3

LEMMA StopGoesOn ==
  ASSUME Calls, NEW t \in Threads, NEW f \in StopFrames, Top(t) \in StopFrames, Become(t, f)
  PROVE  /\ Anywhere(f)'
         /\ \A g \in StopFrames : Anywhere(g)' => g = f
         /\ \A g \in StopFrames : Anywhere(g) => g = Top(t)
<1> USE DEF Calls
<1>1. stack[t] # <<>> /\ 1 \in DOMAIN stack[t] /\ stack[t][1] = Top(t) /\ f \in Frame
  BY TopIs DEF StopFrames, Frame
<1>2. Anywhere(f)'
  BY <1>1, Replaced DEF Anywhere, In
<1>3. ASSUME NEW u \in Threads, NEW i \in DOMAIN stack'[u], stack'[u][i] \in StopFrames
      PROVE  stack'[u][i] = f
  BY <1>1, <1>3, Replaced DEF OneStop
<1>4. ASSUME NEW u \in Threads, NEW i \in DOMAIN stack[u], stack[u][i] \in StopFrames
      PROVE  stack[u][i] = Top(t)
  BY <1>1, <1>4 DEF OneStop
<1> QED BY <1>2, <1>3, <1>4 DEF Anywhere, In

\* The one call of Reset, with nothing else.
LEMMA ResetGoesOn ==
  ASSUME Calls, NEW t \in Threads, NEW f \in ResetFrames, Top(t) \in ResetFrames, Become(t, f)
  PROVE  \A g : Anywhere(g)' <=> g = f
<1> USE DEF Calls
<1>1. /\ stack[t] # <<>> /\ 1 \in DOMAIN stack[t] /\ In(t, Top(t)) /\ f \in Frame
      /\ stack[t] \in Seq(Frame) /\ stack[t][1] = Top(t)
  BY TopIs DEF ResetFrames, Frame, TypeOK
<1>2. Len(stack[t]) = 1 /\ \A u \in Threads : u # t => stack[u] = <<>>
  BY <1>1 DEF ResetAlone, ResetFrames
<1>3. Anywhere(f)'
  BY <1>1, Replaced DEF Anywhere, In
<1>4. ASSUME NEW u \in Threads, NEW i \in DOMAIN stack'[u] PROVE stack'[u][i] = f
  BY <1>1, <1>2, Replaced
<1> QED BY <1>3, <1>4 DEF Anywhere, In

LEMMA ResetLeft ==
  ASSUME Calls, NEW t \in Threads, Top(t) \in ResetFrames, Pop(t)
  PROVE  \A g : ~Anywhere(g)'
<1> USE DEF Calls
<1>1. /\ stack[t] # <<>> /\ 1 \in DOMAIN stack[t] /\ In(t, Top(t))
      /\ stack[t] \in Seq(Frame)
  BY TopIs DEF ResetFrames, TypeOK
<1>2. Len(stack[t]) = 1 /\ \A u \in Threads : u # t => stack[u] = <<>>
  BY <1>1 DEF ResetAlone, ResetFrames
<1>3. ASSUME NEW u \in Threads PROVE DOMAIN stack'[u] = {}
  <2>1. CASE u # t
    BY <1>1, <1>2, <2>1, Popped
  <2>2. CASE u = t
    <3>1. stack'[t] \in Seq(Frame) /\ Len(stack'[t]) = 0
      BY <1>1, <1>2, Popped
    <3> QED BY <3>1, <2>2
  <2> QED BY <2>1, <2>2
<1> QED BY <1>3 DEF Anywhere, In

(***************************************************************************)
(* Each action preserves the invariant.                                    *)
(***************************************************************************)
\* run() and poll() stop an io_service that has no work: only one whose work
\* object Stop has released.
LEMMA EnterStep ==
  ASSUME IInv, NEW t \in Threads, Run(t) \/ Poll(t)
  PROVE  IInv'
<1> USE DEF IInv, Calls
<1>1. PICK f \in {"run", "poll"} : Push(t, f)
  BY DEF Run, Poll
<1>2. /\ stopped' = (stopped \/ Outstanding = 0) /\ ~Resetting
      /\ UNCHANGED <<shutdown, work, ready, pending, resets, late>>
  BY DEF Run, Poll
<1>3. f \in Frame /\ f \notin ResetFrames /\ f \notin StopFrames /\ f # "handler"
  BY DEF Frame, ResetFrames, StopFrames
<1>4. TypeOK'
  <2>1. stack' \in [Threads -> Seq(Frame)]
    BY <1>1, <1>3, Pushed
  <2> QED BY <2>1, <1>2 DEF TypeOK
<1>5. Calls'
  BY <1>1, <1>2, <1>3, <1>4, PushKeepsCalls
<1>6. ASSUME NEW g, g \notin {"run", "poll"} PROVE Anywhere(g)' <=> Anywhere(g)
  BY <1>1, <1>3, <1>6, PushedAnywhere
<1>7. /\ ~Resetting' /\ (Stopping' <=> Stopping)
      /\ ~Anywhere("revive")' /\ ~Anywhere("rework")'
  BY <1>2, <1>4, <1>6, Kinds, KindsNext
<1>8. Outstanding = 0 => ~work /\ pending = 0 /\ ~Anywhere("handler")
  BY Counted
<1>9. Progress'
  BY <1>2, <1>6, <1>7, <1>8 DEF State, Progress
<1>10. FlagAgrees'
  BY <1>2, <1>7, <1>8 DEF State, FlagAgrees
<1>11. Finished'
  BY <1>2, <1>6, <1>8 DEF State, Finished
<1> QED BY <1>5, <1>9, <1>10, <1>11 DEF State

LEMMA LeaveStep ==
  ASSUME IInv, NEW t \in Threads, Leave(t)
  PROVE  IInv'
<1> USE DEF IInv, Calls
<1>1. Pop(t) /\ UNCHANGED <<shutdown, work, stopped, ready, pending, resets, late>>
  BY DEF Leave
<1>2. stack[t] # <<>> /\ In(t, Top(t)) /\ stack[t][1] = Top(t) /\ Top(t) \in {"run", "poll"}
  BY TopIs DEF Leave
<1>3. ~Resetting
  BY <1>2, NotResetting DEF ResetFrames
<1>4. TypeOK'
  <2>1. stack' \in [Threads -> Seq(Frame)]
    BY <1>1, <1>2, Popped
  <2> QED BY <2>1, <1>1 DEF TypeOK
<1>5. Calls'
  BY <1>1, <1>2, <1>4, PopKeepsCalls
<1>6. ASSUME NEW g, g \notin {"run", "poll"} PROVE Anywhere(g)' <=> Anywhere(g)
  BY <1>1, <1>2, <1>6, PoppedAnywhere
<1>7. ~Resetting' /\ (Stopping' <=> Stopping)
  BY <1>3, <1>4, <1>6, Kinds, KindsNext
<1>8. Progress'
  BY <1>1, <1>6, <1>7 DEF State, Progress
<1>9. FlagAgrees'
  BY <1>1, <1>3, <1>7 DEF State, FlagAgrees
<1>10. Finished'
  BY <1>1, <1>6 DEF State, Finished
<1> QED BY <1>5, <1>8, <1>9, <1>10 DEF State

\* A handler starts only while the io_service has not stopped.
LEMMA StartHandlerStep ==
  ASSUME IInv, NEW t \in Threads, StartHandler(t)
  PROVE  IInv'
<1> USE DEF IInv, Calls
<1>1. /\ Push(t, "handler") /\ ~stopped
      /\ UNCHANGED <<shutdown, work, stopped, pending, resets, late>>
  BY DEF StartHandler, Serves
<1>2. In(t, Top(t)) /\ Top(t) \in {"run", "poll", "drain"}
  BY TopIs DEF StartHandler, Serves
<1>3. ~Resetting
  BY <1>2, NotResetting DEF ResetFrames
<1>4. "handler" \in Frame /\ "handler" \notin ResetFrames /\ "handler" \notin StopFrames
  BY DEF Frame, ResetFrames, StopFrames
<1>5. TypeOK'
  <2>1. stack' \in [Threads -> Seq(Frame)]
    BY <1>1, <1>4, Pushed
  <2>2. ready' \in Nat
    BY DEF TypeOK, StartHandler
  <2> QED BY <2>1, <2>2, <1>1 DEF TypeOK
<1>6. Calls'
  BY <1>1, <1>2, <1>3, <1>4, <1>5, PushKeepsCalls
<1>7. ASSUME NEW g, g # "handler" PROVE Anywhere(g)' <=> Anywhere(g)
  BY <1>1, <1>4, <1>7, PushedAnywhere
<1>8. ~Resetting' /\ (Stopping' <=> Stopping)
  BY <1>3, <1>5, <1>7, Kinds, KindsNext
<1>9. Progress'
  BY <1>1, <1>7, <1>8 DEF State, Progress
<1>10. FlagAgrees'
  BY <1>1, <1>3, <1>8 DEF State, FlagAgrees
<1>11. Finished'
  BY <1>1 DEF Finished
<1> QED BY <1>6, <1>9, <1>10, <1>11 DEF State

\* The end of a handler stops the io_service if it was the last work there was.
LEMMA EndHandlerStep ==
  ASSUME IInv, NEW t \in Threads, EndHandler(t)
  PROVE  IInv'
<1> USE DEF IInv, Calls
<1>1. /\ Pop(t) /\ stopped' = (stopped \/ Outstanding = 1)
      /\ UNCHANGED <<shutdown, work, ready, pending, resets, late>>
  BY DEF EndHandler
<1>2. /\ stack[t] # <<>> /\ In(t, "handler") /\ stack[t][1] = "handler"
      /\ Top(t) = "handler" /\ Anywhere("handler")
  BY TopIs DEF EndHandler, InHandler
<1>3. ~Resetting
  BY <1>2, NotResetting DEF ResetFrames
<1>4. TypeOK'
  <2>1. stack' \in [Threads -> Seq(Frame)]
    BY <1>1, <1>2, Popped
  <2> QED BY <2>1, <1>1 DEF TypeOK
<1>5. Calls'
  BY <1>1, <1>2, <1>4, PopKeepsCalls
<1>6. ASSUME NEW g, g # "handler" PROVE Anywhere(g)' <=> Anywhere(g)
  BY <1>1, <1>2, <1>6, PoppedAnywhere
<1>7. /\ ~Resetting' /\ (Stopping' <=> Stopping)
      /\ ~Anywhere("revive")' /\ ~Anywhere("rework")'
  BY <1>3, <1>4, <1>6, Kinds, KindsNext
<1>8. Outstanding = 1 => ~work /\ pending = 0 /\ ~Anywhere("handler")'
  BY <1>1, <1>2, LastHandler
<1>9. Progress'
  BY <1>1, <1>6, <1>7, <1>8 DEF State, Progress
<1>10. FlagAgrees'
  BY <1>1, <1>3, <1>7, <1>8 DEF State, FlagAgrees
<1>11. Finished'
  BY <1>1, <1>2, <1>8 DEF State, Finished
<1> QED BY <1>5, <1>9, <1>10, <1>11 DEF State

\* New work, and operations that complete, touch neither the calls nor the flags.
LEMMA WorkSteps ==
  ASSUME IInv, Complete \/ \E t \in Threads : Post(t) \/ StartOperation(t)
  PROVE  IInv'
<1> USE DEF IInv, Calls
<1>1. UNCHANGED <<shutdown, work, stopped, stack, resets>>
  BY DEF Complete, Post, StartOperation
<1>2. ready' \in Nat /\ pending' \in Nat /\ late' \in 0 .. MaxLate
  BY HiveAssumption DEF Complete, Post, StartOperation, Adds, TypeOK
<1>4. TypeOK'
  BY <1>1, <1>2 DEF TypeOK
<1>5. Calls'
  BY <1>1, <1>4 DEF Nested, OneStop, ResetAlone, In
<1>6. \A g : Anywhere(g)' <=> Anywhere(g)
  BY <1>1 DEF Anywhere, In
<1>7. (Resetting' <=> Resetting) /\ (Stopping' <=> Stopping)
  BY <1>1 DEF Resetting, Stopping, Frames
<1>8. Progress' /\ FlagAgrees'
  BY <1>1, <1>6, <1>7 DEF State, Progress, FlagAgrees
<1>9. Finished'
  BY <1>1, <1>6 DEF State, Finished
<1> QED BY <1>5, <1>8, <1>9 DEF State

\* The call of Stop that raises the flag finds the Hive up: FlagAgrees.
LEMMA StopStep ==
  ASSUME IInv, NEW t \in Threads, Stop(t)
  PROVE  IInv'
<1> USE DEF IInv, Calls
<1>1. /\ Push(t, "work") /\ ~Resetting /\ shutdown = 0 /\ shutdown' = 1
      /\ UNCHANGED <<work, stopped, ready, pending, resets, late>>
  BY DEF Stop
<1>2. ~Stopping /\ work /\ ~stopped
  BY <1>1 DEF State, Progress, FlagAgrees
<1>3. "work" \in Frame /\ "work" \notin ResetFrames
  BY DEF Frame, ResetFrames, StopFrames
<1>4. TypeOK'
  <2>1. stack' \in [Threads -> Seq(Frame)]
    BY <1>1, <1>3, Pushed
  <2> QED BY <2>1, <1>1 DEF TypeOK
<1>5. Calls'
  BY <1>1, <1>2, <1>3, <1>4, PushKeepsCalls
<1>6. /\ Anywhere("work")' /\ ~Anywhere("drain")' /\ ~Anywhere("halt")'
      /\ ~Anywhere("revive")' /\ ~Anywhere("rework")'
  BY <1>1, <1>2, <1>3, PushedAnywhere, Kinds
<1>7. ~Resetting' /\ Stopping'
  BY <1>4, <1>6, KindsNext
<1>8. Progress'
  BY <1>1, <1>2, <1>6, <1>7 DEF Progress
<1>9. FlagAgrees' /\ Finished'
  BY <1>1, <1>2, <1>7 DEF FlagAgrees, Finished
<1> QED BY <1>5, <1>8, <1>9 DEF State

\* Without the work object the io_service stops as soon as nothing is left.
LEMMA StopWorkStep ==
  ASSUME IInv, NEW t \in Threads, StopWork(t)
  PROVE  IInv'
<1> USE DEF IInv, Calls
<1>1. /\ Top(t) = "work" /\ Become(t, "drain") /\ ~work' /\ stopped' = (stopped \/ Busy = 0)
      /\ UNCHANGED <<shutdown, ready, pending, resets, late>>
  BY DEF StopWork
<1>2. In(t, "work") /\ Anywhere("work") /\ stack[t] # <<>> /\ stack[t][1] = "work"
  BY <1>1, TopIs
<1>3. "drain" \in Frame /\ "drain" \in StopFrames /\ "work" \in StopFrames /\ "halt" \in StopFrames
      /\ "work" \notin ResetFrames
  BY DEF Frame, ResetFrames, StopFrames
<1>4. ~Resetting /\ ~stopped /\ shutdown = 1
  <2>1. ~Resetting /\ Stopping
    BY <1>2, <1>3, NotResetting, Kinds
  <2> QED BY <2>1, <1>2 DEF State, Progress
<1>5. TypeOK'
  <2>1. stack' \in [Threads -> Seq(Frame)]
    BY <1>1, <1>2, <1>3, Replaced
  <2>2. work' \in BOOLEAN /\ stopped' \in BOOLEAN
    BY DEF StopWork, TypeOK
  <2> QED BY <2>1, <2>2, <1>1 DEF TypeOK
<1>6. Calls'
  <2>1. Top(t) # "none" /\ Top(t) \in StopFrames /\ Become(t, "drain")
    BY <1>1, <1>3
  <2> QED BY <2>1, <1>3, <1>5, BecomeKeepsCalls
<1>7. Anywhere("drain")' /\ ~Anywhere("work")' /\ ~Anywhere("halt")'
  BY <1>1, <1>3, StopGoesOn
<1>8. ~Anywhere("revive")' /\ ~Anywhere("rework")'
  BY <1>1, <1>2, <1>3, <1>4, ReplacedAnywhere, Kinds
<1>9. ~Resetting' /\ Stopping'
  BY <1>5, <1>7, <1>8, KindsNext
<1>10. Progress'
  BY <1>1, <1>4, <1>7, <1>8, <1>9 DEF Progress
<1>11. FlagAgrees'
  BY <1>9 DEF FlagAgrees
<1>12. Finished'
  <2>1. Anywhere("handler")' => Anywhere("handler")
    BY <1>1, <1>2, <1>3, ReplacedAnywhere
  <2> QED BY <2>1, <1>1, <1>4, Counted DEF Finished
<1> QED BY <1>6, <1>10, <1>11, <1>12 DEF State

\* run() has returned inside Stop: the io_service is stopped.
LEMMA StopDrainedStep ==
  ASSUME IInv, NEW t \in Threads, StopDrained(t)
  PROVE  IInv'
<1> USE DEF IInv, Calls
<1>1. /\ Top(t) = "drain" /\ stopped /\ Become(t, "halt")
      /\ UNCHANGED <<shutdown, work, stopped, ready, pending, resets, late>>
  BY DEF StopDrained
<1>2. In(t, "drain") /\ Anywhere("drain") /\ stack[t] # <<>> /\ stack[t][1] = "drain"
  BY <1>1, TopIs
<1>3. "halt" \in Frame /\ "drain" \in StopFrames /\ "work" \in StopFrames /\ "halt" \in StopFrames
      /\ "drain" \notin ResetFrames
  BY DEF Frame, ResetFrames, StopFrames
<1>4. ~Resetting /\ ~work /\ shutdown = 1
  <2>1. ~Resetting /\ Stopping
    BY <1>2, <1>3, NotResetting, Kinds
  <2> QED BY <2>1, <1>2 DEF State, Progress
<1>5. TypeOK'
  <2>1. stack' \in [Threads -> Seq(Frame)]
    BY <1>1, <1>2, <1>3, Replaced
  <2> QED BY <2>1, <1>1 DEF TypeOK
<1>6. Calls'
  <2>1. Top(t) # "none" /\ Top(t) \in StopFrames /\ Become(t, "halt")
    BY <1>1, <1>3
  <2> QED BY <2>1, <1>3, <1>5, BecomeKeepsCalls
<1>7. Anywhere("halt")' /\ ~Anywhere("work")' /\ ~Anywhere("drain")'
  BY <1>1, <1>3, StopGoesOn
<1>8. ~Anywhere("revive")' /\ ~Anywhere("rework")'
  BY <1>1, <1>2, <1>3, <1>4, ReplacedAnywhere, Kinds
<1>9. ~Resetting' /\ Stopping'
  BY <1>5, <1>7, <1>8, KindsNext
<1>10. Progress'
  BY <1>1, <1>4, <1>7, <1>8, <1>9 DEF Progress
<1>11. FlagAgrees'
  BY <1>9 DEF FlagAgrees
<1>12. Finished'
  <2>1. Anywhere("handler")' => Anywhere("handler")
    BY <1>1, <1>2, <1>3, ReplacedAnywhere
  <2> QED BY <2>1, <1>1, <1>4 DEF State, Finished
<1> QED BY <1>6, <1>10, <1>11, <1>12 DEF State

\* io_service::stop() finds the io_service stopped, and Stop returns.
LEMMA StopServiceStep ==
  ASSUME IInv, NEW t \in Threads, StopService(t)
  PROVE  IInv'
<1> USE DEF IInv, Calls
<1>1. /\ Top(t) = "halt" /\ Pop(t) /\ stopped'
      /\ UNCHANGED <<shutdown, work, ready, pending, resets, late>>
  BY DEF StopService
<1>2. In(t, "halt") /\ Anywhere("halt") /\ stack[t] # <<>> /\ stack[t][1] = "halt"
  BY <1>1, TopIs
<1>3. "drain" \in StopFrames /\ "work" \in StopFrames /\ "halt" \in StopFrames
      /\ "halt" \notin ResetFrames
  BY DEF ResetFrames, StopFrames
<1>4. ~Resetting /\ ~work /\ stopped /\ shutdown = 1
  <2>1. ~Resetting /\ Stopping
    BY <1>2, <1>3, NotResetting, Kinds
  <2> QED BY <2>1, <1>2 DEF State, Progress
<1>5. TypeOK'
  <2>1. stack' \in [Threads -> Seq(Frame)]
    BY <1>1, <1>2, Popped
  <2>2. stopped' \in BOOLEAN
    BY DEF StopService
  <2> QED BY <2>1, <2>2, <1>1 DEF TypeOK
<1>6. Calls'
  BY <1>1, <1>2, <1>5, PopKeepsCalls
<1>7. ~Anywhere("halt")' /\ ~Anywhere("work")' /\ ~Anywhere("drain")'
  BY <1>1, <1>3, StopLeft
<1>8. ~Anywhere("revive")' /\ ~Anywhere("rework")'
  BY <1>1, <1>2, <1>4, PoppedAnywhere, Kinds
<1>9. ~Resetting' /\ ~Stopping'
  BY <1>5, <1>7, <1>8, KindsNext
<1>10. Progress'
  BY <1>1, <1>4, <1>7, <1>8, <1>9 DEF Progress
<1>11. FlagAgrees'
  BY <1>1, <1>4 DEF FlagAgrees
<1>12. Finished'
  <2>1. Anywhere("handler")' => Anywhere("handler")
    BY <1>1, <1>2, PoppedAnywhere
  <2> QED BY <2>1, <1>1, <1>4 DEF State, Finished
<1> QED BY <1>6, <1>10, <1>11, <1>12 DEF State

\* Reset begins when nothing runs; it finds the Hive down: FlagAgrees.
LEMMA ResetStep ==
  ASSUME IInv, NEW t \in Threads, Reset(t)
  PROVE  IInv'
<1> USE DEF IInv, Calls
<1>1. /\ Top(t) = "none" /\ Push(t, "revive") /\ ~Stopping /\ ~Running
      /\ shutdown = 1 /\ shutdown' = 0 /\ resets' \in 0 .. MaxResets
      /\ UNCHANGED <<work, stopped, ready, pending, late>>
  BY HiveAssumption DEF Reset, Caller, TypeOK
<1>2. ~Resetting /\ ~work /\ stopped
  BY <1>1 DEF State, Progress, FlagAgrees
<1>3. "revive" \in Frame
  BY DEF Frame, ResetFrames
\* Every call is inside run(), poll() or Stop, so there is none.
<1>4. ASSUME NEW u \in Threads PROVE stack[u] = <<>>
  <2>1. /\ ~In(u, "run") /\ ~In(u, "poll") /\ ~In(u, "work") /\ ~In(u, "drain")
        /\ ~In(u, "halt") /\ ~In(u, "revive") /\ ~In(u, "rework")
    BY <1>1, <1>2, Kinds DEF Anywhere
  <2>2. \A i \in DOMAIN stack[u] : stack[u][i] = "handler"
    <3>1. stack[u] \in Seq(Frame)
      BY DEF TypeOK
    <3>2. \A i \in DOMAIN stack[u] : stack[u][i] \in Frame
      BY <3>1
    <3> QED BY <2>1, <3>2 DEF In, Frame, StopFrames, ResetFrames
  <2>3. ASSUME NEW i \in DOMAIN stack[u] PROVE FALSE
    <3>1. i + 1 \in DOMAIN stack[u] /\ stack[u][i + 1] \in {"run", "poll", "drain"}
      BY <2>2 DEF Nested
    <3>2. stack[u][i + 1] = "handler"
      BY <3>1, <2>2
    <3> QED BY <3>1, <3>2
  <2>4. stack[u] \in Seq(Frame)
    BY DEF TypeOK
  <2>5. Len(stack[u]) = 0
    <3>1. Len(stack[u]) \in Nat /\ DOMAIN stack[u] = 1 .. Len(stack[u])
      BY <2>4
    <3>2. 1 \notin 1 .. Len(stack[u])
      BY <2>3, <3>1
    <3> QED BY <3>1, <3>2
  <2> QED BY <2>4, <2>5
<1>5. TypeOK'
  <2>1. stack' \in [Threads -> Seq(Frame)]
    BY <1>1, <1>3, Pushed
  <2> QED BY <2>1, <1>1 DEF TypeOK
<1>6. ASSUME NEW u \in Threads, NEW i \in DOMAIN stack'[u]
      PROVE  u = t /\ i = 1 /\ stack'[u][i] = "revive"
  <2>1. DOMAIN stack[u] = {} /\ DOMAIN stack[t] = {}
    BY <1>4
  <2> QED BY <1>1, <1>3, <2>1, Pushed
<1>7. Len(stack'[t]) = 1 /\ \A u \in Threads : u # t => stack'[u] = <<>>
  <2>1. stack[t] = <<>> /\ Len(stack[t]) = 0 /\ \A u \in Threads : u # t => stack[u] = <<>>
    BY <1>4
  <2>2. Len(stack'[t]) = Len(stack[t]) + 1 /\ \A u \in Threads \ {t} : stack'[u] = stack[u]
    BY <1>1, <1>3, Pushed
  <2> QED BY <2>1, <2>2
<1>8. Calls'
  <2>1. Nested'
    BY <1>6 DEF Nested
  <2>2. OneStop'
    BY <1>6 DEF OneStop
  <2>3. ResetAlone'
    BY <1>6, <1>7 DEF ResetAlone, In
  <2> QED BY <1>5, <2>1, <2>2, <2>3
<1>9. \A g : Anywhere(g)' <=> g = "revive"
  <2>1. \A g : ~Anywhere(g)
    BY <1>4 DEF Anywhere, In
  <2> QED BY <1>1, <1>3, <2>1, PushedAnywhere
<1>10. Resetting' /\ ~Stopping'
  BY <1>5, <1>9, KindsNext
<1>11. Progress'
  BY <1>1, <1>2, <1>9, <1>10 DEF Progress
<1>12. FlagAgrees' /\ Finished'
  BY <1>1, <1>9, <1>10 DEF FlagAgrees, Finished
<1> QED BY <1>8, <1>11, <1>12 DEF State

LEMMA ResetServiceStep ==
  ASSUME IInv, NEW t \in Threads, ResetService(t)
  PROVE  IInv'
<1> USE DEF IInv, Calls
<1>1. /\ Top(t) = "revive" /\ Become(t, "rework") /\ ~stopped'
      /\ UNCHANGED <<shutdown, work, ready, pending, resets, late>>
  BY DEF ResetService
<1>2. Anywhere("revive") /\ stack[t] # <<>>
  BY <1>1, TopIs
<1>3. "rework" \in Frame /\ "rework" \in ResetFrames /\ "revive" \in ResetFrames
  BY DEF Frame, ResetFrames
<1>4. ~work /\ shutdown = 0
  <2>1. Resetting
    BY <1>2, Kinds
  <2> QED BY <2>1, <1>2 DEF State, Progress
<1>5. TypeOK'
  <2>1. stack' \in [Threads -> Seq(Frame)]
    BY <1>1, <1>2, <1>3, Replaced
  <2>2. stopped' \in BOOLEAN
    BY DEF ResetService
  <2> QED BY <2>1, <2>2, <1>1 DEF TypeOK
<1>6. Calls'
  BY <1>1, <1>3, <1>5, BecomeKeepsCalls
<1>7. \A g : Anywhere(g)' <=> g = "rework"
  BY <1>1, <1>3, ResetGoesOn
<1>8. Resetting' /\ ~Stopping'
  BY <1>5, <1>7, KindsNext
<1>9. Progress'
  BY <1>1, <1>4, <1>7, <1>8 DEF Progress
<1>10. FlagAgrees' /\ Finished'
  BY <1>1, <1>8 DEF FlagAgrees, Finished
<1> QED BY <1>6, <1>9, <1>10 DEF State

\* Reset returns with the Hive up again.
LEMMA ResetWorkStep ==
  ASSUME IInv, NEW t \in Threads, ResetWork(t)
  PROVE  IInv'
<1> USE DEF IInv, Calls
<1>1. /\ Top(t) = "rework" /\ Pop(t) /\ work'
      /\ UNCHANGED <<shutdown, stopped, ready, pending, resets, late>>
  BY DEF ResetWork
<1>2. Anywhere("rework") /\ stack[t] # <<>>
  BY <1>1, TopIs
<1>3. "rework" \in ResetFrames
  BY DEF ResetFrames
<1>4. ~stopped /\ shutdown = 0
  <2>1. Resetting
    BY <1>2, Kinds
  <2> QED BY <2>1, <1>2 DEF State, Progress
<1>5. TypeOK'
  <2>1. stack' \in [Threads -> Seq(Frame)]
    BY <1>1, <1>2, Popped
  <2>2. work' \in BOOLEAN
    BY DEF ResetWork
  <2> QED BY <2>1, <2>2, <1>1 DEF TypeOK
<1>6. Calls'
  BY <1>1, <1>2, <1>5, PopKeepsCalls
<1>7. \A g : ~Anywhere(g)'
  BY <1>1, <1>3, ResetLeft
<1>8. ~Resetting' /\ ~Stopping'
  BY <1>5, <1>7, KindsNext
<1>9. Progress'
  BY <1>7, <1>8 DEF Progress
<1>10. FlagAgrees' /\ Finished'
  BY <1>1, <1>4 DEF FlagAgrees, Finished
<1> QED BY <1>6, <1>9, <1>10 DEF State

LEMMA InitInv == Init => IInv
<1> SUFFICES ASSUME Init PROVE IInv
  OBVIOUS
<1>1. TypeOK
  <2>1. stack \in [Threads -> Seq(Frame)]
    BY DEF Init
  <2>2. shutdown \in 0 .. 1 /\ ready \in Nat /\ pending \in Nat
        /\ resets \in 0 .. MaxResets /\ late \in 0 .. MaxLate
    BY HiveAssumption DEF Init
  <2>3. work \in BOOLEAN /\ stopped \in BOOLEAN
    BY DEF Init
  <2> QED BY <2>1, <2>2, <2>3 DEF TypeOK
<1>2. \A t \in Threads : DOMAIN stack[t] = {}
  <2>1. \A t \in Threads : stack[t] = <<>>
    BY DEF Init
  <2> QED BY <2>1
<1>3. \A g : ~Anywhere(g)
  BY <1>2 DEF Anywhere, In
<1>4. ~Stopping /\ ~Resetting
  BY <1>1, <1>3, Kinds
<1>5. Calls
  BY <1>1, <1>2 DEF Calls, Nested, OneStop, ResetAlone, In
<1>6. State
  BY <1>3, <1>4 DEF Init, State, Progress, FlagAgrees, Finished
<1> QED BY <1>5, <1>6 DEF IInv

LEMMA NextInv == IInv /\ [Next]_vars => IInv'
<1> SUFFICES ASSUME IInv, [Next]_vars PROVE IInv'
  OBVIOUS
<1>1. CASE UNCHANGED vars
  BY <1>1 DEF vars, IInv, Calls, State, TypeOK, Nested, OneStop, ResetAlone, Progress, FlagAgrees,
     Finished, Anywhere, In, Stopping, Resetting, Frames
<1>2. CASE Complete
  BY <1>2, WorkSteps
<1>3. ASSUME NEW t \in Threads, Run(t) \/ Poll(t) PROVE IInv'
  BY <1>3, EnterStep
<1>4. ASSUME NEW t \in Threads, Stop(t) \/ Reset(t) PROVE IInv'
  BY <1>4, StopStep, ResetStep
<1>5. ASSUME NEW t \in Threads, Post(t) \/ StartOperation(t) PROVE IInv'
  BY <1>5, WorkSteps
<1>6. ASSUME NEW t \in Threads, Serve(t) PROVE IInv'
  BY <1>6, LeaveStep, StartHandlerStep, EndHandlerStep DEF Serve
<1>7. ASSUME NEW t \in Threads, Proceed(t) PROVE IInv'
  BY <1>7, StopWorkStep, StopDrainedStep, StopServiceStep, ResetServiceStep, ResetWorkStep
     DEF Proceed
<1> QED BY <1>1, <1>2, <1>3, <1>4, <1>5, <1>6, <1>7 DEF Next

LEMMA Invariance == Spec => []IInv
  BY InitInv, NextInv, PTL DEF Spec

(***************************************************************************)
(* The theorems.                                                           *)
(***************************************************************************)
\* The counters of the Hive and the threads' stacks of calls keep their types.
THEOREM TypeCorrect == Spec => []TypeOK
<1>1. IInv => TypeOK
  BY DEF IInv, Calls
<1> QED BY <1>1, Invariance, PTL

\* Between the calls of Stop and Reset the flag, the work object and the
\* io_service are all up or all down, with any number of threads that call
\* Run, Poll, Stop and Reset, and handlers that call Stop.
THEOREM FlagAgreement == Spec => []FlagAgrees
<1>1. IInv => FlagAgrees
  BY DEF IInv, State
<1> QED BY <1>1, Invariance, PTL

\* "This function blocks until the networking system is stopped": the work
\* object keeps the io_service from stopping before Stop is called.
THEOREM RunBlocking == Spec => []RunBlocks
<1>1. IInv => RunBlocks
  <2> SUFFICES ASSUME IInv, stopped, ~Resetting, shutdown # 1 PROVE FALSE
    BY DEF RunBlocks
  <2>1. shutdown = 0
    BY DEF IInv, Calls, TypeOK
  <2>2. ~Stopping
    BY <2>1 DEF IInv, State, Progress
  <2> QED BY <2>1, <2>2 DEF IInv, State, FlagAgrees
<1> QED BY <1>1, Invariance, PTL

\* However many threads and handlers call Stop, one call at one depth is in it.
THEOREM StopsAlone == Spec => []StopAlone
<1>1. IInv => StopAlone
  BY DEF IInv, Calls, OneStop, StopAlone
<1> QED BY <1>1, Invariance, PTL

\* The io_service stops in run() or poll(), at the end of a handler, or when
\* Stop releases the work object: for want of work, each time.  Stop itself
\* calls io_service::stop() on one that has stopped.
LEMMA StopsForWant ==
  ASSUME IInv, [Next]_vars, ~stopped, stopped'
  PROVE  ready' = 0 /\ pending' = 0
<1>1. TypeOK /\ Progress
  BY DEF IInv, Calls, State
<1>2. ASSUME NEW t \in Threads, Run(t) \/ Poll(t)
      PROVE  ready' = 0 /\ pending' = 0
  BY <1>1, <1>2, Counted DEF Run, Poll
<1>3. ASSUME NEW t \in Threads, EndHandler(t)
      PROVE  ready' = 0 /\ pending' = 0
  BY <1>1, <1>3, LastHandler DEF EndHandler, InHandler
<1>4. ASSUME NEW t \in Threads, StopWork(t)
      PROVE  ready' = 0 /\ pending' = 0
  BY <1>1, <1>4, Counted DEF StopWork
<1>5. ASSUME NEW t \in Threads, StopService(t)
      PROVE  FALSE
  BY <1>1, <1>5, TopIs DEF StopService, Progress
<1>6. CASE Complete \/ UNCHANGED vars
  BY <1>6 DEF Complete, vars
<1>7. ASSUME NEW t \in Threads, Stop(t) \/ Reset(t) \/ Post(t) \/ StartOperation(t)
      PROVE  FALSE
  BY <1>7 DEF Stop, Reset, Post, StartOperation
<1>8. ASSUME NEW t \in Threads, Leave(t) \/ StartHandler(t) \/ StopDrained(t) \/ ResetService(t) \/ ResetWork(t)
      PROVE  FALSE
  BY <1>8 DEF Leave, StartHandler, StopDrained, ResetService, ResetWork
<1> QED BY <1>2, <1>3, <1>4, <1>5, <1>6, <1>7, <1>8 DEF Next, Serve, Proceed

\* "All work is finished": when the io_service stops nothing is queued and no
\* operation is pending, late posts and operations included, and no handler
\* executes until Reset has revived it.
THEOREM WorkFinished == Spec => StopFinishesWork
<1>1. ASSUME IInv, [Next]_vars, IInv'
      PROVE  [/\ ~stopped /\ stopped' => ready' = 0 /\ pending' = 0
              /\ stopped' => Executing' = {}]_vars
  <2>1. stopped' => Executing' = {}
    BY <1>1, KindsNext DEF IInv, Calls, State, Finished
  <2> QED BY <1>1, <2>1, StopsForWant
<1> QED BY <1>1, Invariance, PTL DEF Spec, StopFinishesWork
=============================================================================
