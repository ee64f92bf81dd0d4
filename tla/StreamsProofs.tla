---------------------------- MODULE StreamsProofs ----------------------------

(***************************************************************************)
(* Theorems about Streams: typing, the bytes of every message and echo,    *)
(* and answers that end with eof, for every size of messages and reads and *)
(* every way the network cuts the streams.                                 *)
(***************************************************************************)
EXTENDS Streams, SequenceTheorems, WellFoundedInduction, TLAPS

(***************************************************************************)
(* The inductive invariant.                                                *)
(***************************************************************************)
OpRecord == [do : Kinds, data : Seq(Byte)]
Ops == Seq(OpRecord)
MessageKinds == {"full", "line", "eof", "dump"}
EchoKinds == {"echo", "echoSend"}

\* What the operation in front has read, or has still to write; what an
\* activity has still to write.
Holds(ops, kinds) == IF ops # <<>> /\ ops[1].do \in kinds THEN ops[1].data ELSE <<>>
WriteData(ops) == FlattenSeq([i \in DOMAIN ops |-> IF ops[i].do = "write" THEN ops[i].data ELSE <<>>])

\* The kinds of operations of a program's activity.
KindsOf(name, a) == {Programs[name].activities[a][i].do : i \in DOMAIN Programs[name].activities[a]}

\* What every activity keeps: its kinds; only writes hold data before their
\* turn; a read of a fixed size fits; one read up to eof; shutdown is the last write.
Uses(ops, kinds) == \A i \in DOMAIN ops : ops[i].do \in kinds
Waiting(ops) == \A i \in DOMAIN ops : i > 1 /\ ops[i].do # "write" => ops[i].data = <<>>
Fitting(ops) == \A i \in DOMAIN ops : ops[i].do = "full" => Len(ops[i].data) < Want
Once(ops, kind) == \A i, j \in DOMAIN ops : ops[i].do = kind /\ ops[j].do = kind => i = j
SendsFirst(ops) == \A i, j \in DOMAIN ops : i < j /\ ops[i].do = "shutdownSend" => ops[j].do # "write"
Formed(ops) == Waiting(ops) /\ Fitting(ops) /\ Once(ops, "eof") /\ SendsFirst(ops)

Typed ==
  /\ pair \in Pairs /\ cut \in BOOLEAN /\ fin \in [Ends -> BOOLEAN]
  /\ socket \in [Ends -> {"new", "open", "half", "closed"}]
  /\ out \in [Ends -> Seq(Byte)] /\ done \in [Ends -> Seq(Seq(Byte))]
  /\ taken \in [Ends -> Nat] /\ \A e \in Ends : taken[e] <= Len(out[Other(e)])
  /\ todo \in [Ends -> Seq(Ops)]
  /\ \A e \in Ends :
       /\ Len(todo[e]) = Len(P(e).activities)
       /\ \A a \in Activities(e) : Formed(todo[e][a]) /\ Uses(todo[e][a], KindsOf(pair[e], a))

\* A closed end has nothing to do.
Closed(e) == socket[e] = "closed" => \A a \in Activities(e) : todo[e][a] = <<>>

\* The activities that read, write and echo, in programs that have one of them.
Reader(e) == IF pair[e] = "readwritesocket" THEN 2 ELSE 1
Writer(e) == IF pair[e] \in {"echoClient", "echoClientAsync", "httpGet"} THEN 2 ELSE 1
Echoer(e) == IF pair[e] = "echoSession" THEN 1 ELSE 2

ReadsInv(e) ==
  ~Echoes(e) /\ pair[e] # "asyncReadFromSocket" /\ socket[e] # "closed" =>
    FlattenSeq(done[e]) \o Holds(todo[e][Reader(e)], MessageKinds) = Read(e)

WritesInv(e) ==
  ~Echoes(e) /\ pair[e] # "asyncWriteToSocket" =>
    /\ IsPrefix(out[e], Writes(e))
    /\ socket[e] # "closed" => out[e] \o WriteData(todo[e][Writer(e)]) = Writes(e)

EchoesInv(e) ==
  Echoes(e) =>
    /\ IsPrefix(out[e], Read(e))
    /\ socket[e] # "closed" =>
         /\ out[e] \o Holds(todo[e][Echoer(e)], EchoKinds) = Read(e)
         /\ \E i \in DOMAIN todo[e][Echoer(e)] : todo[e][Echoer(e)][i].do \in EchoKinds

InOrder(data, stream) == data = Only(stream, Range(data))
SharedReads(e) ==
  pair[e] = "asyncReadFromSocket" =>
    /\ \A i \in DOMAIN done[e] : InOrder(done[e][i], Read(e))
    /\ \A a \in 1 .. 2 : InOrder(Holds(todo[e][a], MessageKinds), Read(e))
    /\ socket[e] # "closed" /\ ~cut /\ ~fin[Other(e)] =>
         taken[e] = Len(FlattenSeq(done[e])) + Len(Holds(todo[e][1], MessageKinds))
                    + Len(Holds(todo[e][2], MessageKinds))

Bytes(m) == Range(Message(m))
SharedWrites(e) ==
  pair[e] = "asyncWriteToSocket" =>
    /\ \A m \in 1 .. 2 :
         /\ IsPrefix(Only(out[e], Bytes(m)), Message(m))
         /\ Once(todo[e][m], "write")
         /\ \A i \in DOMAIN todo[e][m] : todo[e][m][i].do = "write" =>
              Only(out[e], Bytes(m)) \o todo[e][m][i].data = Message(m)
    /\ socket[e] # "closed" /\ ~cut =>
         Len(out[e]) + Len(WriteData(todo[e][1])) + Len(WriteData(todo[e][2])) = Len(Writes(e))

\* An end whose peers read up to eof announces the end of its stream when it
\* has said everything.
Trusted(e) ==
  pair[e] \in {"clientClose", "serverClose", "daytimeServer", "writeToSocket", "asyncWriteToSocket", "echoSession"}
SaidAll(e) ==
  Trusted(e) =>
    /\ Len(out[e]) <= Len(Promised(e))
    /\ fin[e] => Len(out[e]) = Len(Promised(e))

ReadsToEof(e) == pair[e] \in {"clientClose", "serverClose", "daytimeClient", "collector"}
WholeInv(e) ==
  ReadsToEof(e) =>
    /\ \A i \in DOMAIN todo[e][1] : todo[e][1][i].do = "eof" => done[e] = <<>>
    /\ done[e] # <<>> /\ Trusted(Other(e)) => Len(done[e][1]) = Len(Promised(Other(e)))

StreamsInv ==
  /\ Typed
  /\ \A e \in Ends :
       /\ Closed(e) /\ ReadsInv(e) /\ WritesInv(e) /\ EchoesInv(e)
       /\ SharedReads(e) /\ SharedWrites(e) /\ SaidAll(e) /\ WholeInv(e)

(***************************************************************************)
(* Sequences.                                                              *)
(***************************************************************************)
\* Induction on the natural numbers, over a set.
LEMMA Induction ==
  ASSUME NEW T, 0 \in T, \A n \in Nat : n \in T => n + 1 \in T
  PROVE  Nat \subseteq T
<1> DEFINE Bad == Nat \ T
<1>1. ASSUME NEW n \in Nat, n \in Bad
      PROVE  \E m \in Bad : \A k \in Bad : ~ (k < m)
  <2>1. \E x \in Bad : \A y \in Bad : ~ (<<y, x>> \in OpToRel(<, Nat))
    <3>1. IsWellFoundedOn(OpToRel(<, Nat), Nat) /\ Bad \subseteq Nat /\ Bad # {}
      BY <1>1, NatLessThanWellFounded, Zenon
    <3> HIDE DEF Bad
    <3> QED BY <3>1, WFMin, Zenon
  <2> QED BY <2>1 DEF OpToRel
<1>2. ASSUME NEW m \in Bad, \A k \in Bad : ~ (k < m)
      PROVE  FALSE
  <2>1. m # 0 /\ m \in Nat /\ m - 1 \in Nat /\ m - 1 < m
    BY <1>2
  <2>2. m - 1 \in T
    BY <1>2, <2>1
  <2>3. (m - 1) + 1 \in T /\ (m - 1) + 1 = m
    BY <2>1, <2>2
  <2> QED BY <1>2, <2>3
<1> QED BY <1>1, <1>2

\* A sequence cut in two.
LEMMA Cut ==
  ASSUME NEW S, NEW s \in Seq(S), NEW k \in 0 .. Len(s)
  PROVE  /\ SubSeq(s, 1, k) \in Seq(S) /\ Len(SubSeq(s, 1, k)) = k
         /\ SubSeq(s, k + 1, Len(s)) \in Seq(S) /\ Len(SubSeq(s, k + 1, Len(s))) = Len(s) - k
         /\ SubSeq(s, 1, k) \o SubSeq(s, k + 1, Len(s)) = s
<1>1. Len(s) \in Nat /\ \A i \in 1 .. Len(s) : s[i] \in S
  BY LenProperties, ElementOfSeq
<1>2. SubSeq(s, 1, k) \in Seq(S) /\ Len(SubSeq(s, 1, k)) = k
  BY <1>1, SubSeqProperties
<1>3. SubSeq(s, k + 1, Len(s)) \in Seq(S) /\ Len(SubSeq(s, k + 1, Len(s))) = Len(s) - k
  <2>1. k + 1 \in Int /\ Len(s) \in Int /\ \A i \in k + 1 .. Len(s) : s[i] \in S
    BY <1>1
  <2> QED BY <1>1, <2>1, SubSeqProperties
<1>4. SubSeq(s, 1, k) \o SubSeq(s, k + 1, Len(s)) = SubSeq(s, 1, Len(s))
  <2>1. 1 \in 1 .. Len(s) + 1 /\ k \in 1 - 1 .. Len(s) /\ Len(s) \in k .. Len(s)
    BY <1>1
  <2> QED BY <2>1, ConcatAdjacentSubSeq
<1>5. SubSeq(s, 1, Len(s)) = s
  BY SubSeqFull
<1> QED BY <1>2, <1>3, <1>4, <1>5

\* A concatenation is known by its elements.
LEMMA ConcatByPlace ==
  ASSUME NEW S, NEW p \in Seq(S), NEW q \in Seq(S), NEW r \in Seq(S), Len(r) = Len(p) + Len(q),
         \A i \in 1 .. Len(p) : r[i] = p[i], \A i \in 1 .. Len(q) : r[Len(p) + i] = q[i]
  PROVE  r = p \o q
<1>1. /\ Len(p) \in Nat /\ Len(q) \in Nat /\ p \o q \in Seq(S) /\ Len(p \o q) = Len(p) + Len(q)
      /\ \A i \in 1 .. Len(p) + Len(q) : (p \o q)[i] = IF i <= Len(p) THEN p[i] ELSE q[i - Len(p)]
  BY ConcatProperties, LenProperties
<1>2. ASSUME NEW i \in 1 .. Len(r)
      PROVE  r[i] = (p \o q)[i]
  <2>1. CASE i <= Len(p)
    BY <1>1, <2>1
  <2>2. CASE ~ (i <= Len(p))
    <3>1. i - Len(p) \in 1 .. Len(q) /\ Len(p) + (i - Len(p)) = i
      BY <1>1, <2>2
    <3>2. r[Len(p) + (i - Len(p))] = q[i - Len(p)]
      BY <3>1
    <3> QED BY <1>1, <2>2, <3>1, <3>2
  <2> QED BY <2>1, <2>2
<1> QED BY <1>1, <1>2, SeqEqual

\* Reading the next k bytes of a stream.
LEMMA CutMore ==
  ASSUME NEW S, NEW s \in Seq(S), NEW n \in 0 .. Len(s), NEW k \in 0 .. Len(s) - n
  PROVE  SubSeq(s, 1, n + k) = SubSeq(s, 1, n) \o SubSeq(SubSeq(s, n + 1, Len(s)), 1, k)
<1>1. Len(s) \in Nat /\ n + k \in 0 .. Len(s)
  BY LenProperties
<1>2. SubSeq(s, 1, n) \o SubSeq(s, n + 1, n + k) = SubSeq(s, 1, n + k)
  BY <1>1, ConcatAdjacentSubSeq
<1>3. SubSeq(SubSeq(s, n + 1, Len(s)), 1, k) = SubSeq(s, n + 1, n + k)
  <2>1. CASE k = 0
    <3>1. SubSeq(SubSeq(s, n + 1, Len(s)), 1, k) = <<>> /\ SubSeq(s, n + 1, n + k) = <<>>
      BY <1>1, <2>1, SubSeqEmpty
    <3> QED BY <3>1
  <2>2. CASE k > 0
    <3>1. n + 1 \in 1 .. Len(s) /\ Len(s) \in 1 .. Len(s) /\ 1 \in 1 .. Len(s) - (n + 1) + 1
          /\ k \in 1 .. Len(s) - (n + 1) + 1
      BY <1>1, <2>2
    <3>2. SubSeq(SubSeq(s, n + 1, Len(s)), 1, k) = SubSeq(s, (n + 1) + 1 - 1, (n + 1) + k - 1)
      BY <3>1, SubSeqOfSubSeq
    <3>3. (n + 1) + 1 - 1 = n + 1 /\ (n + 1) + k - 1 = n + k
      BY <1>1
    <3> QED BY <3>2, <3>3
  <2> QED BY <1>1, <2>1, <2>2
<1> QED BY <1>2, <1>3

\* What has been read stays when the stream grows.
LEMMA CutGrown ==
  ASSUME NEW S, NEW s \in Seq(S), NEW t \in Seq(S), NEW n \in 0 .. Len(s)
  PROVE  SubSeq(s \o t, 1, n) = SubSeq(s, 1, n)
<1>1. Len(s) \in Nat
  BY LenProperties
<1>2. CASE n = 0
  BY <1>2, SubSeqEmpty
<1>3. CASE n > 0
  BY <1>1, <1>3, SubSeqOfConcat1
<1> QED BY <1>1, <1>2, <1>3

LEMMA PrefixConcat ==
  ASSUME NEW S, NEW s \in Seq(S), NEW t \in Seq(S)
  PROVE  IsPrefix(s, s \o t)
<1>1. Len(s) \in Nat /\ Len(t) \in Nat /\ Len(s \o t) = Len(s) + Len(t)
  BY ConcatProperties, LenProperties
<1>2. SubSeq(s \o t, 1, Len(s)) = SubSeq(s, 1, Len(s))
  BY <1>1, CutGrown
<1> QED BY <1>1, <1>2 DEF IsPrefix

LEMMA PrefixRest ==
  ASSUME NEW S, NEW s \in Seq(S), NEW t \in Seq(S), IsPrefix(s, t)
  PROVE  \E u \in Seq(S) : t = s \o u
<1>1. Len(s) \in 0 .. Len(t) /\ SubSeq(s, 1, Len(s)) = SubSeq(t, 1, Len(s))
  BY LenProperties DEF IsPrefix
<1>2. SubSeq(s, 1, Len(s)) = s
  BY SubSeqFull
<1>3. SubSeq(t, Len(s) + 1, Len(t)) \in Seq(S) /\ SubSeq(t, 1, Len(s)) \o SubSeq(t, Len(s) + 1, Len(t)) = t
  BY <1>1, Cut
<1> QED BY <1>1, <1>2, <1>3

\* Sequences of bytes put together.
LEMMA Joined ==
  ASSUME NEW s \in Seq(Byte), NEW t \in Seq(Byte), NEW u \in Seq(Byte)
  PROVE  /\ s \o t \in Seq(Byte) /\ (s \o t) \o u = s \o (t \o u)
         /\ Len(s \o t) = Len(s) + Len(t) /\ Len(s) \in Nat /\ Len(t) \in Nat
BY ConcatAssociative, ConcatProperties, LenProperties

(***************************************************************************)
(* FlattenSeq.                                                             *)
(***************************************************************************)
\* The recursive function inside FlattenSeq, up to n: it exists and is unique.
Flattens(s, n, f) == f = [i \in 1 .. n |-> IF i = 1 THEN s[i] ELSE f[i - 1] \o s[i]]

LEMMA FlattensUnique ==
  ASSUME NEW s, NEW n \in Nat, NEW f, NEW g, Flattens(s, n, f), Flattens(s, n, g)
  PROVE  f = g
<1> DEFINE T == {m \in Nat : m \in 1 .. n => f[m] = g[m]}
<1>1. 0 \in T
  OBVIOUS
<1>2. ASSUME NEW m \in Nat, m \in T
      PROVE  m + 1 \in T
  <2> SUFFICES ASSUME m + 1 \in 1 .. n
               PROVE  f[m + 1] = g[m + 1]
    OBVIOUS
  <2>1. /\ f[m + 1] = IF m + 1 = 1 THEN s[m + 1] ELSE f[(m + 1) - 1] \o s[m + 1]
        /\ g[m + 1] = IF m + 1 = 1 THEN s[m + 1] ELSE g[(m + 1) - 1] \o s[m + 1]
    BY DEF Flattens
  <2>2. m + 1 # 1 => m \in 1 .. n /\ (m + 1) - 1 = m
    OBVIOUS
  <2> QED BY <1>2, <2>1, <2>2
<1> HIDE DEF T
<1>3. Nat \subseteq T
  BY <1>1, <1>2, Induction
<1>4. \A m \in 1 .. n : f[m] = g[m]
  BY <1>3 DEF T
<1>5. DOMAIN f = 1 .. n /\ DOMAIN g = 1 .. n
  BY DEF Flattens
<1>6. f = [m \in 1 .. n |-> f[m]] /\ g = [m \in 1 .. n |-> g[m]]
  BY <1>5 DEF Flattens
<1> QED BY <1>4, <1>6

LEMMA FlattensStep ==
  ASSUME NEW s, NEW n \in Nat, NEW f, Flattens(s, n, f)
  PROVE  Flattens(s, n + 1, [i \in 1 .. n + 1 |-> IF i = n + 1 THEN IF n = 0 THEN s[1] ELSE f[n] \o s[n + 1] ELSE f[i]])
<1> DEFINE g == [i \in 1 .. n + 1 |-> IF i = n + 1 THEN IF n = 0 THEN s[1] ELSE f[n] \o s[n + 1] ELSE f[i]]
<1>1. ASSUME NEW i \in 1 .. n + 1
      PROVE  g[i] = IF i = 1 THEN s[i] ELSE g[i - 1] \o s[i]
  <2>1. CASE i = n + 1
    <3>1. CASE n = 0
      BY <2>1, <3>1
    <3>2. CASE n # 0
      <4>1. i - 1 = n /\ n \in 1 .. n + 1 /\ n # n + 1 /\ i # 1
        BY <2>1, <3>2
      <4>3. g[i] = f[n] \o s[n + 1]
        BY <2>1, <3>2
      <4>2. g[i - 1] = f[n]
        BY <4>1
      <4> QED BY <2>1, <4>1, <4>2, <4>3
    <3> QED BY <3>1, <3>2
  <2>2. CASE i # n + 1
    <3>1. i \in 1 .. n /\ g[i] = f[i]
      BY <2>2
    <3>2. f[i] = IF i = 1 THEN s[i] ELSE f[i - 1] \o s[i]
      BY <3>1 DEF Flattens
    <3>3. i # 1 => i - 1 \in 1 .. n + 1 /\ i - 1 # n + 1 /\ g[i - 1] = f[i - 1]
      BY <2>2
    <3> QED BY <3>1, <3>2, <3>3
  <2> QED BY <2>1, <2>2
<1>2. g = [i \in 1 .. n + 1 |-> g[i]]
  OBVIOUS
<1> HIDE DEF g
<1>3. g = [i \in 1 .. n + 1 |-> IF i = 1 THEN s[i] ELSE g[i - 1] \o s[i]]
  BY <1>1, <1>2
<1> QED BY <1>3 DEF Flattens, g

LEMMA FlattensExists ==
  ASSUME NEW s
  PROVE  \A n \in Nat : \E f : Flattens(s, n, f)
<1> DEFINE T == {n \in Nat : \E f : Flattens(s, n, f)}
<1>1. 0 \in T
  <2>1. Flattens(s, 0, [i \in 1 .. 0 |-> 0])
    BY DEF Flattens
  <2> QED BY <2>1
<1>2. ASSUME NEW n \in Nat, n \in T
      PROVE  n + 1 \in T
  <2>1. PICK f : Flattens(s, n, f)
    BY <1>2
  <2> DEFINE g == [i \in 1 .. n + 1 |-> IF i = n + 1 THEN IF n = 0 THEN s[1] ELSE f[n] \o s[n + 1] ELSE f[i]]
  <2>2. Flattens(s, n + 1, g)
    BY <2>1, FlattensStep
  <2> HIDE DEF g
  <2> QED BY <2>2
<1> HIDE DEF T
<1>3. Nat \subseteq T
  BY <1>1, <1>2, Induction
<1> QED BY <1>3 DEF T

LEMMA FlattenValue ==
  ASSUME NEW s, Len(s) \in Nat \ {0}, NEW f, Flattens(s, Len(s), f)
  PROVE  FlattenSeq(s) = f[Len(s)]
<1> DEFINE g == CHOOSE h : h = [i \in 1 .. Len(s) |-> IF i = 1 THEN s[i] ELSE h[i - 1] \o s[i]]
<1>1. Flattens(s, Len(s), g)
  BY DEF Flattens
<1> HIDE DEF g
<1>2. g = f
  BY <1>1, FlattensUnique
<1>3. FlattenSeq(s) = g[Len(s)]
  BY DEF FlattenSeq, g
<1> QED BY <1>2, <1>3

LEMMA FlattenEmpty == FlattenSeq(<<>>) = <<>>
BY DEF FlattenSeq

LEMMA FlattenOne ==
  ASSUME NEW S, NEW x \in Seq(S)
  PROVE  FlattenSeq(<<x>>) = x
<1>1. Len(<<x>>) = 1 /\ <<x>>[1] = x
  OBVIOUS
<1>2. Flattens(<<x>>, 1, [i \in 1 .. 1 |-> x])
  <2>1. [i \in 1 .. 1 |-> x] = [i \in 1 .. 1 |-> IF i = 1 THEN <<x>>[i] ELSE [k \in 1 .. 1 |-> x][i - 1] \o <<x>>[i]]
    BY <1>1
  <2> QED BY <2>1 DEF Flattens
<1> DEFINE u == <<x>>  f == [i \in 1 .. 1 |-> x]
<1>3. Len(u) \in Nat \ {0} /\ Len(u) = 1 /\ Flattens(u, Len(u), f) /\ f[1] = x
  BY <1>1, <1>2
<1> HIDE DEF u, f
<1>4. FlattenSeq(u) = x
  BY <1>3, FlattenValue
<1> QED BY <1>4 DEF u

LEMMA FlattenAppend ==
  ASSUME NEW S, NEW s \in Seq(Seq(S)), NEW x \in Seq(S)
  PROVE  FlattenSeq(Append(s, x)) = FlattenSeq(s) \o x
<1> DEFINE n == Len(s)  u == Append(s, x)
<1>1. n \in Nat /\ Len(u) = n + 1 /\ u[n + 1] = x /\ \A i \in 1 .. n : u[i] = s[i]
  BY AppendProperties, LenProperties
<1>2. CASE s = <<>>
  <2>1. Append(s, x) = <<x>>
    BY <1>2
  <2>2. FlattenSeq(s) \o x = x
    BY <1>2, FlattenEmpty, ConcatEmptySeq
  <2> QED BY <2>1, <2>2, FlattenOne
<1>3. CASE s # <<>>
  <2>1. n # 0
    BY <1>3, EmptySeq
  <2>2. PICK f : Flattens(s, n, f)
    BY <1>1, FlattensExists
  <2> DEFINE g == [i \in 1 .. n + 1 |-> IF i = n + 1 THEN IF n = 0 THEN u[1] ELSE f[n] \o u[n + 1] ELSE f[i]]
  <2>3. Flattens(u, n, f)
    <3>1. [i \in 1 .. n |-> IF i = 1 THEN s[i] ELSE f[i - 1] \o s[i]] = [i \in 1 .. n |-> IF i = 1 THEN u[i] ELSE f[i - 1] \o u[i]]
      BY <1>1
    <3> QED BY <2>2, <3>1 DEF Flattens
  <2>4. Flattens(u, n + 1, g)
    BY <1>1, <2>3, FlattensStep
  <2>5. FlattenSeq(s) = f[n]
    BY <1>1, <2>1, <2>2, FlattenValue
  <2>6. FlattenSeq(u) = g[n + 1]
    <3> HIDE DEF g, u
    <3> QED BY <1>1, <2>4, FlattenValue
  <2>7. g[n + 1] = f[n] \o x
    BY <1>1, <2>1
  <2> QED BY <2>5, <2>6, <2>7
<1> QED BY <1>2, <1>3

\* A sequence that is not empty is an Append.
LEMMA LastAppended ==
  ASSUME NEW S, NEW s \in Seq(S), NEW n \in Nat, Len(s) = n + 1
  PROVE  \E t \in Seq(S), x \in S : s = Append(t, x) /\ Len(t) = n /\ s[n + 1] = x /\ \A i \in 1 .. n : t[i] = s[i]
<1>1. s # <<>>
  BY EmptySeq
<1>2. PICK t \in Seq(S), x \in S : s = Append(t, x)
  BY <1>1, SequenceEmptyOrAppend
<1> QED BY <1>2, AppendProperties, LenProperties

LEMMA FlattenType ==
  ASSUME NEW S
  PROVE  \A s \in Seq(Seq(S)) : FlattenSeq(s) \in Seq(S)
<1> DEFINE T == {n \in Nat : \A s \in Seq(Seq(S)) : Len(s) = n => FlattenSeq(s) \in Seq(S)}
<1>1. 0 \in T
  <2>1. \A s \in Seq(Seq(S)) : Len(s) = 0 => s = <<>>
    BY EmptySeq
  <2> QED BY <2>1, FlattenEmpty, EmptySeq
<1>2. ASSUME NEW n \in Nat, n \in T
      PROVE  n + 1 \in T
  <2> SUFFICES ASSUME NEW s \in Seq(Seq(S)), Len(s) = n + 1
               PROVE  FlattenSeq(s) \in Seq(S)
    OBVIOUS
  <2>1. PICK t \in Seq(Seq(S)), x \in Seq(S) : s = Append(t, x) /\ Len(t) = n /\ s[n + 1] = x /\ \A i \in 1 .. n : t[i] = s[i]
    BY LastAppended
  <2>2. FlattenSeq(t) \in Seq(S)
    BY <1>2, <2>1
  <2> HIDE DEF T
  <2>3. FlattenSeq(s) = FlattenSeq(t) \o x
    BY <2>1, FlattenAppend
  <2>4. FlattenSeq(t) \o x \in Seq(S)
    BY <2>1, <2>2, ConcatProperties
  <2> QED BY <2>3, <2>4
<1> HIDE DEF T
<1>3. Nat \subseteq T
  BY <1>1, <1>2, Induction
<1>4. \A s \in Seq(Seq(S)) : Len(s) \in Nat
  BY LenProperties
<1> QED BY <1>3, <1>4 DEF T

LEMMA FlattenConcat ==
  ASSUME NEW S, NEW s \in Seq(Seq(S))
  PROVE  \A t \in Seq(Seq(S)) : FlattenSeq(s \o t) = FlattenSeq(s) \o FlattenSeq(t)
<1> DEFINE T == {n \in Nat : \A t \in Seq(Seq(S)) : Len(t) = n => FlattenSeq(s \o t) = FlattenSeq(s) \o FlattenSeq(t)}
<1>1. 0 \in T
  <2>1. \A t \in Seq(Seq(S)) : Len(t) = 0 => t = <<>>
    BY EmptySeq
  <2>2. s \o <<>> = s /\ FlattenSeq(s) \o <<>> = FlattenSeq(s)
    BY FlattenType, ConcatEmptySeq
  <2> QED BY <2>1, <2>2, FlattenEmpty
<1>2. ASSUME NEW n \in Nat, n \in T
      PROVE  n + 1 \in T
  <2> SUFFICES ASSUME NEW t \in Seq(Seq(S)), Len(t) = n + 1
               PROVE  FlattenSeq(s \o t) = FlattenSeq(s) \o FlattenSeq(t)
    OBVIOUS
  <2>1. PICK r \in Seq(Seq(S)), x \in Seq(S) : t = Append(r, x) /\ Len(r) = n /\ t[n + 1] = x /\ \A i \in 1 .. n : r[i] = t[i]
    BY LastAppended
  <2>2. FlattenSeq(s \o r) = FlattenSeq(s) \o FlattenSeq(r)
    BY <1>2, <2>1
  <2> HIDE DEF T
  <2>3. s \o t = Append(s \o r, x)
    <3>1. <<x>> \in Seq(Seq(S)) /\ t = r \o <<x>>
      BY <2>1, AppendIsConcat
    <3>2. s \o r \in Seq(Seq(S))
      BY <2>1, ConcatProperties
    <3>3. (s \o r) \o <<x>> = s \o (r \o <<x>>)
      BY <3>1, ConcatAssociative, SMTT(30)
    <3> QED BY <3>1, <3>2, <3>3, AppendIsConcat
  <2>4. FlattenSeq(s \o t) = FlattenSeq(s \o r) \o x
    BY <2>1, <2>3, ConcatProperties, FlattenAppend
  <2>5. FlattenSeq(t) = FlattenSeq(r) \o x
    BY <2>1, FlattenAppend
  <2>6. FlattenSeq(s) \in Seq(S) /\ FlattenSeq(r) \in Seq(S)
    BY <2>1, FlattenType
  <2>7. (FlattenSeq(s) \o FlattenSeq(r)) \o x = FlattenSeq(s) \o (FlattenSeq(r) \o x)
    <3>1. PICK p \in Seq(S), q \in Seq(S) : p = FlattenSeq(s) /\ q = FlattenSeq(r)
      BY <2>6
    <3>2. (p \o q) \o x = p \o (q \o x)
      <4>1. p \in Seq(S) /\ q \in Seq(S) /\ x \in Seq(S)
        BY <2>1
      <4> QED BY <4>1, ConcatAssociative, SMTT(30)
    <3> QED BY <3>1, <3>2
  <2> QED BY <2>2, <2>4, <2>5, <2>7
<1> HIDE DEF T
<1>3. Nat \subseteq T
  BY <1>1, <1>2, Induction
<1>4. \A t \in Seq(Seq(S)) : Len(t) \in Nat
  BY LenProperties
<1> QED BY <1>3, <1>4 DEF T

LEMMA FlattenNothing ==
  ASSUME NEW S
  PROVE  \A s \in Seq(Seq(S)) : (\A i \in DOMAIN s : s[i] = <<>>) => FlattenSeq(s) = <<>>
<1> DEFINE T == {n \in Nat : \A s \in Seq(Seq(S)) : Len(s) = n /\ (\A i \in 1 .. n : s[i] = <<>>) => FlattenSeq(s) = <<>>}
<1>1. 0 \in T
  <2>1. \A s \in Seq(Seq(S)) : Len(s) = 0 => s = <<>>
    BY EmptySeq
  <2> QED BY <2>1, FlattenEmpty
<1>2. ASSUME NEW n \in Nat, n \in T
      PROVE  n + 1 \in T
  <2> SUFFICES ASSUME NEW s \in Seq(Seq(S)), Len(s) = n + 1, \A i \in 1 .. n + 1 : s[i] = <<>>
               PROVE  FlattenSeq(s) = <<>>
    OBVIOUS
  <2>1. PICK t \in Seq(Seq(S)), x \in Seq(S) : s = Append(t, x) /\ Len(t) = n /\ s[n + 1] = x /\ \A i \in 1 .. n : t[i] = s[i]
    BY LastAppended
  <2>2. FlattenSeq(t) = <<>>
    BY <1>2, <2>1
  <2> HIDE DEF T
  <2>3. x = <<>>
    <3>1. s[n + 1] = x /\ n + 1 \in 1 .. n + 1
      BY <2>1
    <3> QED BY <3>1
  <2>4. FlattenSeq(s) = FlattenSeq(t) \o x
    BY <2>1, FlattenAppend
  <2> QED BY <2>2, <2>3, <2>4
<1> HIDE DEF T
<1>3. Nat \subseteq T
  BY <1>1, <1>2, Induction
<1>4. \A s \in Seq(Seq(S)) : Len(s) \in Nat /\ DOMAIN s = 1 .. Len(s)
  BY LenProperties
<1> QED BY <1>3, <1>4 DEF T

LEMMA FlattenTwo ==
  ASSUME NEW S, NEW x \in Seq(S), NEW y \in Seq(S)
  PROVE  FlattenSeq(<<x, y>>) = x \o y
<1>1. <<x>> \in Seq(Seq(S)) /\ <<x, y>> = Append(<<x>>, y)
  OBVIOUS
<1> QED BY <1>1, FlattenAppend, FlattenOne

(***************************************************************************)
(* The bytes of a stream that are in a set.                                *)
(***************************************************************************)
Picked(data, bytes) == [i \in DOMAIN data |-> IF data[i] \in bytes THEN <<data[i]>> ELSE <<>>]

LEMMA PickedType ==
  ASSUME NEW S, NEW s \in Seq(S), NEW B
  PROVE  Picked(s, B) \in Seq(Seq(S)) /\ Len(Picked(s, B)) = Len(s) /\ Only(s, B) = FlattenSeq(Picked(s, B))
<1>1. DOMAIN s = 1 .. Len(s) /\ Len(s) \in Nat /\ \A i \in 1 .. Len(s) : s[i] \in S
  BY LenProperties, ElementOfSeq
<1>2. \A i \in 1 .. Len(s) : Picked(s, B)[i] \in Seq(S)
  BY <1>1 DEF Picked
<1>3. Picked(s, B) \in Seq(Seq(S)) /\ Len(Picked(s, B)) = Len(s)
  BY <1>1, <1>2 DEF Picked
<1>4. Only(s, B) = FlattenSeq(Picked(s, B))
  BY DEF Only, Picked
<1> QED BY <1>3, <1>4

LEMMA OnlyType ==
  ASSUME NEW S, NEW s \in Seq(S), NEW B
  PROVE  Only(s, B) \in Seq(S)
BY PickedType, FlattenType

LEMMA OnlyConcat ==
  ASSUME NEW S, NEW s \in Seq(S), NEW t \in Seq(S), NEW B
  PROVE  Only(s \o t, B) = Only(s, B) \o Only(t, B)
<1>1. /\ Picked(s, B) \in Seq(Seq(S)) /\ Len(Picked(s, B)) = Len(s) /\ Only(s, B) = FlattenSeq(Picked(s, B))
      /\ Picked(t, B) \in Seq(Seq(S)) /\ Len(Picked(t, B)) = Len(t) /\ Only(t, B) = FlattenSeq(Picked(t, B))
  BY PickedType
<1>2. s \o t \in Seq(S)
  BY ConcatProperties
<1>3. Picked(s \o t, B) \in Seq(Seq(S)) /\ Len(Picked(s \o t, B)) = Len(s \o t) /\ Only(s \o t, B) = FlattenSeq(Picked(s \o t, B))
  BY <1>2, PickedType
<1>4. Picked(s \o t, B) = Picked(s, B) \o Picked(t, B)
  <2> DEFINE Q == Seq(S)  p == Picked(s, B)  q == Picked(t, B)  r == Picked(s \o t, B)
  <2>1. Len(s) \in Nat /\ Len(t) \in Nat /\ DOMAIN s = 1 .. Len(s) /\ DOMAIN t = 1 .. Len(t) /\ DOMAIN (s \o t) = 1 .. Len(s) + Len(t)
    BY <1>2, ConcatProperties, LenProperties
  <2>2. \A i \in 1 .. Len(s) + Len(t) : (s \o t)[i] = IF i <= Len(s) THEN s[i] ELSE t[i - Len(s)]
    BY ConcatProperties
  <2>3. \A i \in 1 .. Len(p) : r[i] = p[i]
    BY <1>1, <2>1, <2>2 DEF Picked
  <2>4. \A i \in 1 .. Len(q) : r[Len(p) + i] = q[i]
    <3> SUFFICES ASSUME NEW i \in 1 .. Len(t)
                 PROVE  r[Len(s) + i] = q[i]
      BY <1>1
    <3>1. Len(s) + i \in 1 .. Len(s) + Len(t) /\ ~ (Len(s) + i <= Len(s)) /\ (Len(s) + i) - Len(s) = i
      BY <2>1
    <3> QED BY <2>1, <2>2, <3>1 DEF Picked
  <2>5. p \in Seq(Q) /\ q \in Seq(Q) /\ r \in Seq(Q) /\ Len(r) = Len(p) + Len(q)
    BY <1>1, <1>3, ConcatProperties
  <2> HIDE DEF p, q, r, Q
  <2>6. r = p \o q
    BY <2>3, <2>4, <2>5, ConcatByPlace
  <2> QED BY <2>6 DEF p, q, r
<1>5. FlattenSeq(Picked(s, B) \o Picked(t, B)) = FlattenSeq(Picked(s, B)) \o FlattenSeq(Picked(t, B))
  BY <1>1, FlattenConcat
<1> QED BY <1>1, <1>3, <1>4, <1>5

LEMMA OnlyNone ==
  ASSUME NEW S, NEW s \in Seq(S), NEW B, \A i \in 1 .. Len(s) : s[i] \notin B
  PROVE  Only(s, B) = <<>>
<1>1. Picked(s, B) \in Seq(Seq(S)) /\ Len(Picked(s, B)) = Len(s) /\ Only(s, B) = FlattenSeq(Picked(s, B))
  BY PickedType
<1>2. \A i \in DOMAIN Picked(s, B) : Picked(s, B)[i] = <<>>
  <2>1. DOMAIN s = 1 .. Len(s)
    BY LenProperties
  <2> QED BY <2>1 DEF Picked
<1> QED BY <1>1, <1>2, FlattenNothing

LEMMA OnlyAll ==
  ASSUME NEW S, NEW B
  PROVE  \A s \in Seq(S) : (\A i \in 1 .. Len(s) : s[i] \in B) => Only(s, B) = s
<1> DEFINE T == {n \in Nat : \A s \in Seq(S) : Len(s) = n /\ (\A i \in 1 .. n : s[i] \in B) => Only(s, B) = s}
<1>1. 0 \in T
  <2>1. \A s \in Seq(S) : Len(s) = 0 => s = <<>>
    BY EmptySeq
  <2>2. <<>> \in Seq(S)
    BY EmptySeq
  <2>3. Only(<<>>, B) = <<>>
    <3>1. Len(<<>>) = 0
      OBVIOUS
    <3>2. \A i \in 1 .. Len(<<>>) : <<>>[i] \notin B
      BY <3>1
    <3> QED BY <2>2, <3>2, OnlyNone
  <2> QED BY <2>1, <2>3
<1>2. ASSUME NEW n \in Nat, n \in T
      PROVE  n + 1 \in T
  <2> SUFFICES ASSUME NEW s \in Seq(S), Len(s) = n + 1, \A i \in 1 .. n + 1 : s[i] \in B
               PROVE  Only(s, B) = s
    OBVIOUS
  <2>1. PICK t \in Seq(S), x \in S : s = Append(t, x) /\ Len(t) = n /\ s[n + 1] = x /\ \A i \in 1 .. n : t[i] = s[i]
    BY LastAppended
  <2>2. Only(t, B) = t
    BY <1>2, <2>1
  <2> HIDE DEF T
  <2>3. x \in B
    <3>1. s[n + 1] = x /\ n + 1 \in 1 .. n + 1
      BY <2>1
    <3> QED BY <3>1
  <2>4. <<x>> \in Seq(S) /\ s = t \o <<x>>
    BY <2>1, AppendIsConcat
  <2>5. Only(<<x>>, B) = <<x>>
    <3>1. Picked(<<x>>, B) = << <<x>> >>
      <4>1. DOMAIN <<x>> = 1 .. 1 /\ <<x>>[1] = x
        OBVIOUS
      <4>2. Picked(<<x>>, B) = [i \in 1 .. 1 |-> <<x>>]
        BY <2>3, <4>1 DEF Picked
      <4> QED BY <4>2
    <3>2. Only(<<x>>, B) = FlattenSeq(<< <<x>> >>)
      BY <2>4, <3>1, PickedType
    <3>3. FlattenSeq(<< <<x>> >>) = <<x>>
      BY <2>4, FlattenOne
    <3> QED BY <3>2, <3>3
  <2>6. Only(t \o <<x>>, B) = Only(t, B) \o Only(<<x>>, B)
    <3> DEFINE y == <<x>>
    <3>1. t \in Seq(S) /\ y \in Seq(S)
      BY <2>1, <2>4
    <3> HIDE DEF y
    <3>2. Only(t \o y, B) = Only(t, B) \o Only(y, B)
      BY <3>1, OnlyConcat
    <3> QED BY <3>2 DEF y
  <2> QED BY <2>1, <2>2, <2>4, <2>5, <2>6
<1> HIDE DEF T
<1>3. Nat \subseteq T
  BY <1>1, <1>2, Induction
<1>4. \A s \in Seq(S) : Len(s) \in Nat
  BY LenProperties
<1> QED BY <1>3, <1>4 DEF T

(***************************************************************************)
(* What a sequence of operations has still to write.                       *)
(***************************************************************************)
Written(ops) == [i \in DOMAIN ops |-> IF ops[i].do = "write" THEN ops[i].data ELSE <<>>]

LEMMA WrittenType ==
  ASSUME NEW ops \in Ops
  PROVE  Written(ops) \in Seq(Seq(Byte)) /\ Len(Written(ops)) = Len(ops) /\ WriteData(ops) = FlattenSeq(Written(ops))
<1>1. DOMAIN ops = 1 .. Len(ops) /\ Len(ops) \in Nat /\ \A i \in 1 .. Len(ops) : ops[i] \in OpRecord
  BY LenProperties, ElementOfSeq DEF Ops
<1>2. \A i \in 1 .. Len(ops) : Written(ops)[i] \in Seq(Byte)
  BY <1>1 DEF Written, OpRecord
<1>3. Written(ops) \in Seq(Seq(Byte)) /\ Len(Written(ops)) = Len(ops)
  BY <1>1, <1>2 DEF Written
<1>4. WriteData(ops) = FlattenSeq(Written(ops))
  BY DEF WriteData, Written
<1> QED BY <1>3, <1>4

LEMMA WriteType ==
  ASSUME NEW ops \in Ops
  PROVE  WriteData(ops) \in Seq(Byte)
BY WrittenType, FlattenType

LEMMA WriteConcat ==
  ASSUME NEW s \in Ops, NEW t \in Ops
  PROVE  WriteData(s \o t) = WriteData(s) \o WriteData(t)
<1>1. /\ Written(s) \in Seq(Seq(Byte)) /\ Len(Written(s)) = Len(s) /\ WriteData(s) = FlattenSeq(Written(s))
      /\ Written(t) \in Seq(Seq(Byte)) /\ Len(Written(t)) = Len(t) /\ WriteData(t) = FlattenSeq(Written(t))
  BY WrittenType
<1>2. s \o t \in Ops
  BY ConcatProperties DEF Ops
<1>3. Written(s \o t) \in Seq(Seq(Byte)) /\ Len(Written(s \o t)) = Len(s \o t) /\ WriteData(s \o t) = FlattenSeq(Written(s \o t))
  BY <1>2, WrittenType
<1>4. Written(s \o t) = Written(s) \o Written(t)
  <2> DEFINE Q == Seq(Byte)  p == Written(s)  q == Written(t)  r == Written(s \o t)
  <2>1. Len(s) \in Nat /\ Len(t) \in Nat /\ DOMAIN s = 1 .. Len(s) /\ DOMAIN t = 1 .. Len(t) /\ DOMAIN (s \o t) = 1 .. Len(s) + Len(t)
    BY <1>2, ConcatProperties, LenProperties DEF Ops
  <2>2. \A i \in 1 .. Len(s) + Len(t) : (s \o t)[i] = IF i <= Len(s) THEN s[i] ELSE t[i - Len(s)]
    BY ConcatProperties DEF Ops
  <2>3. \A i \in 1 .. Len(p) : r[i] = p[i]
    BY <1>1, <2>1, <2>2 DEF Written
  <2>4. \A i \in 1 .. Len(q) : r[Len(p) + i] = q[i]
    <3> SUFFICES ASSUME NEW i \in 1 .. Len(t)
                 PROVE  r[Len(s) + i] = q[i]
      BY <1>1
    <3>1. Len(s) + i \in 1 .. Len(s) + Len(t) /\ ~ (Len(s) + i <= Len(s)) /\ (Len(s) + i) - Len(s) = i
      BY <2>1
    <3> QED BY <2>1, <2>2, <3>1 DEF Written
  <2>5. p \in Seq(Q) /\ q \in Seq(Q) /\ r \in Seq(Q) /\ Len(r) = Len(p) + Len(q)
    <3>1. Len(s \o t) = Len(s) + Len(t)
      BY ConcatProperties DEF Ops
    <3> QED BY <1>1, <1>3, <3>1
  <2> HIDE DEF p, q, r, Q
  <2>6. r = p \o q
    BY <2>3, <2>4, <2>5, ConcatByPlace
  <2> QED BY <2>6 DEF p, q, r
<1>5. FlattenSeq(Written(s) \o Written(t)) = FlattenSeq(Written(s)) \o FlattenSeq(Written(t))
  BY <1>1, FlattenConcat
<1> QED BY <1>1, <1>3, <1>4, <1>5

LEMMA WriteNothing ==
  ASSUME NEW ops \in Ops, \A i \in DOMAIN ops : ops[i].do # "write"
  PROVE  WriteData(ops) = <<>>
<1>1. Written(ops) \in Seq(Seq(Byte)) /\ WriteData(ops) = FlattenSeq(Written(ops))
  BY WrittenType
<1>2. \A i \in DOMAIN Written(ops) : Written(ops)[i] = <<>>
  BY DEF Written
<1> QED BY <1>1, <1>2, FlattenNothing

LEMMA WriteOne ==
  ASSUME NEW o \in OpRecord
  PROVE  <<o>> \in Ops /\ WriteData(<<o>>) = IF o.do = "write" THEN o.data ELSE <<>>
<1>1. <<o>> \in Ops /\ DOMAIN <<o>> = 1 .. 1 /\ <<o>>[1] = o
  BY DEF Ops
<1> DEFINE d == IF o.do = "write" THEN o.data ELSE <<>>
<1>2. d \in Seq(Byte)
  BY DEF OpRecord
<1>3. Written(<<o>>) = <<d>>
  <2>1. Written(<<o>>) = [i \in 1 .. 1 |-> d]
    BY <1>1 DEF Written
  <2> QED BY <2>1
<1>4. WriteData(<<o>>) = FlattenSeq(<<d>>)
  BY <1>1, <1>3, WrittenType
<1> HIDE DEF d
<1>5. FlattenSeq(<<d>>) = d
  BY <1>2, FlattenOne
<1> QED BY <1>1, <1>4, <1>5 DEF d

LEMMA WriteFront ==
  ASSUME NEW ops \in Ops, ops # <<>>
  PROVE  WriteData(ops) = (IF ops[1].do = "write" THEN ops[1].data ELSE <<>>) \o WriteData(Tail(ops))
<1>1. ops[1] \in OpRecord /\ Tail(ops) \in Ops /\ <<ops[1]>> \in Ops
  BY DEF Ops
<1>2. ops = <<ops[1]>> \o Tail(ops)
  BY <1>1 DEF Ops
<1> DEFINE u == <<ops[1]>>
<1>3. WriteData(u) = IF ops[1].do = "write" THEN ops[1].data ELSE <<>>
  BY <1>1, WriteOne
<1>4. u \in Ops /\ ops = u \o Tail(ops)
  BY <1>1, <1>2
<1> HIDE DEF u
<1>5. WriteData(ops) = WriteData(u) \o WriteData(Tail(ops))
  BY <1>1, <1>4, WriteConcat
<1> QED BY <1>3, <1>5

(***************************************************************************)
(* The programs.                                                           *)
(***************************************************************************)
Names == DOMAIN Programs

LEMMA NamesOf ==
  Names = {"readFromSocket", "writeToSocket", "asyncReadFromSocket", "asyncWriteToSocket",
           "clientClose", "serverClose", "syncClient", "daytimeClient",
           "daytimeServer", "echoSession", "readwritesocket", "echoServer",
           "echoServerAsync", "echoClient", "echoClientAsync", "httpGet",
           "longSender", "shortSender", "collector", "lineServer"}
BY DEF Names, Programs

LEMMA ActivitiesOf ==
  /\ Programs["readFromSocket"].activities = << <<Op("connect"), Op("full"), Op("full"), Op("line")>> >>
  /\ Programs["writeToSocket"].activities = << <<Op("connect"), Write(1), Write(2)>> >>
  /\ Programs["asyncReadFromSocket"].activities = << <<Op("connect"), Op("full")>>, <<Op("full")>> >>
  /\ Programs["asyncWriteToSocket"].activities = << <<Op("connect"), Write(1)>>, <<Write(2)>> >>
  /\ Programs["clientClose"].activities = << <<Op("connect"), Write(1), Op("shutdownSend"), Op("eof")>> >>
  /\ Programs["serverClose"].activities = << <<Op("accept"), Op("eof"), Write(1), Op("shutdownSend")>> >>
  /\ Programs["syncClient"].activities = << <<Op("connect"), Write(1), Op("line")>> >>
  /\ Programs["daytimeClient"].activities = << <<Op("connect"), Op("eof")>> >>
  /\ Programs["daytimeServer"].activities = << <<Op("accept"), Write(1)>> >>
  /\ Programs["echoSession"].activities = << <<Op("accept"), Op("echo")>> >>
  /\ Programs["readwritesocket"].activities = << <<Op("accept"), Write(1)>>, <<Op("dump")>> >>
  /\ Programs["echoServer"].activities = << <<Op("accept"), Op("echoRecv")>>, <<Op("echoSend")>> >>
  /\ Programs["echoServerAsync"].activities = << <<Op("accept"), Op("echoRecv")>>, <<Op("echoSend")>> >>
  /\ Programs["echoClient"].activities = << <<Op("connect"), Op("dump")>>, <<Write(1)>> >>
  /\ Programs["echoClientAsync"].activities = << <<Op("connect"), Op("dump")>>, <<Write(1)>> >>
  /\ Programs["httpGet"].activities = << <<Op("connect"), Op("dump")>>, <<Write(1)>> >>
  /\ Programs["longSender"].activities = << <<Op("accept"), Write(1), Write(2), Write(3), Write(4)>> >>
  /\ Programs["shortSender"].activities = << <<Op("accept"), Write(1)>> >>
  /\ Programs["collector"].activities = << <<Op("accept"), Op("eof")>> >>
  /\ Programs["lineServer"].activities = << <<Op("accept"), Op("line"), Write(1)>> >>
<1>1. Programs["readFromSocket"].activities = << <<Op("connect"), Op("full"), Op("full"), Op("line")>> >>
  BY DEF Programs, Program, ReadFromSocket
<1>2. Programs["writeToSocket"].activities = << <<Op("connect"), Write(1), Write(2)>> >>
  BY DEF Programs, Program, WriteToSocket
<1>3. Programs["asyncReadFromSocket"].activities = << <<Op("connect"), Op("full")>>, <<Op("full")>> >>
  BY DEF Programs, Program, AsyncReadFromSocket
<1>4. Programs["asyncWriteToSocket"].activities = << <<Op("connect"), Write(1)>>, <<Write(2)>> >>
  BY DEF Programs, Program, AsyncWriteToSocket
<1>5. Programs["clientClose"].activities = << <<Op("connect"), Write(1), Op("shutdownSend"), Op("eof")>> >>
  BY DEF Programs, Program, ClientCloseAndShutdown
<1>6. Programs["serverClose"].activities = << <<Op("accept"), Op("eof"), Write(1), Op("shutdownSend")>> >>
  BY DEF Programs, Program, ServerCloseAndShutdown
<1>7. Programs["syncClient"].activities = << <<Op("connect"), Write(1), Op("line")>> >>
  BY DEF Programs, Program, SyncTCPClient
<1>8. Programs["daytimeClient"].activities = << <<Op("connect"), Op("eof")>> >>
  BY DEF Programs, Program, DaytimeClient
<1>9. Programs["daytimeServer"].activities = << <<Op("accept"), Write(1)>> >>
  BY DEF Programs, Program, DaytimeServer
<1>10. Programs["echoSession"].activities = << <<Op("accept"), Op("echo")>> >>
  BY DEF Programs, Program, EchoSession
<1>11. Programs["readwritesocket"].activities = << <<Op("accept"), Write(1)>>, <<Op("dump")>> >>
  BY DEF Programs, Program, ReadWriteSocket, SendBuffer, RecvCycle
<1>12. Programs["echoServer"].activities = << <<Op("accept"), Op("echoRecv")>>, <<Op("echoSend")>> >>
  BY DEF Programs, Program, EchoServer
<1>13. Programs["echoServerAsync"].activities = << <<Op("accept"), Op("echoRecv")>>, <<Op("echoSend")>> >>
  BY DEF Programs, Program, EchoServerAsync, EchoServer
<1>14. Programs["echoClient"].activities = << <<Op("connect"), Op("dump")>>, <<Write(1)>> >>
  BY DEF Programs, Program, EchoClient
<1>15. Programs["echoClientAsync"].activities = << <<Op("connect"), Op("dump")>>, <<Write(1)>> >>
  BY DEF Programs, Program, EchoClientAsync, EchoClient
<1>16. Programs["httpGet"].activities = << <<Op("connect"), Op("dump")>>, <<Write(1)>> >>
  BY DEF Programs, Program, ClientHttpGet, EchoClient
<1>17. Programs["longSender"].activities = << <<Op("accept"), Write(1), Write(2), Write(3), Write(4)>> >>
  BY DEF Programs, Program, LongSender
<1>18. Programs["shortSender"].activities = << <<Op("accept"), Write(1)>> >>
  BY DEF Programs, Program, ShortSender
<1>19. Programs["collector"].activities = << <<Op("accept"), Op("eof")>> >>
  BY DEF Programs, Program, Collector
<1>20. Programs["lineServer"].activities = << <<Op("accept"), Op("line"), Write(1)>> >>
  BY DEF Programs, Program, LineServer
<1> QED BY <1>1, <1>2, <1>3, <1>4, <1>5, <1>6, <1>7, <1>8, <1>9, <1>10, <1>11, <1>12, <1>13, <1>14, <1>15, <1>16, <1>17, <1>18, <1>19, <1>20

\* An activity that has not begun: reads hold nothing yet.
Unbegun(ops) ==
  /\ ops \in Ops
  /\ \A i \in DOMAIN ops : ops[i].do # "write" => ops[i].data = <<>>
  /\ Once(ops, "eof") /\ SendsFirst(ops)

LEMMA MessageType ==
  ASSUME NEW m \in Nat
  PROVE  Message(m) \in Seq(Byte) /\ Len(Message(m)) = Size /\ \A i \in 1 .. Size : Message(m)[i] = <<m, i>>
BY StreamsAssumption DEF Message, Byte

LEMMA OpTypes ==
  /\ \A kind \in Kinds : Op(kind) \in OpRecord /\ Op(kind).do = kind /\ Op(kind).data = <<>>
  /\ \A m \in Nat : Write(m) \in OpRecord /\ Write(m).do = "write" /\ Write(m).data = Message(m)
BY MessageType DEF Op, Write, OpRecord, Kinds, Writing

LEMMA BeginOf ==
  /\ Unbegun(<<Op("connect"), Op("full"), Op("full"), Op("line")>>)
  /\ Unbegun(<<Op("connect"), Write(1), Write(2)>>)
  /\ Unbegun(<<Op("connect"), Op("full")>>)
  /\ Unbegun(<<Op("full")>>)
  /\ Unbegun(<<Op("connect"), Write(1)>>)
  /\ Unbegun(<<Write(2)>>)
  /\ Unbegun(<<Op("connect"), Write(1), Op("shutdownSend"), Op("eof")>>)
  /\ Unbegun(<<Op("accept"), Op("eof"), Write(1), Op("shutdownSend")>>)
  /\ Unbegun(<<Op("connect"), Write(1), Op("line")>>)
  /\ Unbegun(<<Op("connect"), Op("eof")>>)
  /\ Unbegun(<<Op("accept"), Write(1)>>)
  /\ Unbegun(<<Op("accept"), Op("echo")>>)
  /\ Unbegun(<<Op("dump")>>)
  /\ Unbegun(<<Op("accept"), Op("echoRecv")>>)
  /\ Unbegun(<<Op("echoSend")>>)
  /\ Unbegun(<<Op("connect"), Op("dump")>>)
  /\ Unbegun(<<Write(1)>>)
  /\ Unbegun(<<Op("accept"), Write(1), Write(2), Write(3), Write(4)>>)
  /\ Unbegun(<<Op("accept"), Op("eof")>>)
  /\ Unbegun(<<Op("accept"), Op("line"), Write(1)>>)
<1> USE OpTypes
<1>0. {"connect", "accept", "full", "line", "eof", "dump", "echo", "echoRecv", "echoSend", "shutdownSend"} \subseteq Kinds
  BY DEF Kinds, Reading, Writing
<1>1. Unbegun(<<Op("connect"), Op("full"), Op("full"), Op("line")>>)
  BY <1>0 DEF Unbegun, Ops, Once, SendsFirst
<1>2. Unbegun(<<Op("connect"), Write(1), Write(2)>>)
  BY <1>0 DEF Unbegun, Ops, Once, SendsFirst
<1>3. Unbegun(<<Op("connect"), Op("full")>>)
  BY <1>0 DEF Unbegun, Ops, Once, SendsFirst
<1>4. Unbegun(<<Op("full")>>)
  BY <1>0 DEF Unbegun, Ops, Once, SendsFirst
<1>5. Unbegun(<<Op("connect"), Write(1)>>)
  BY <1>0 DEF Unbegun, Ops, Once, SendsFirst
<1>6. Unbegun(<<Write(2)>>)
  BY <1>0 DEF Unbegun, Ops, Once, SendsFirst
<1>7. Unbegun(<<Op("connect"), Write(1), Op("shutdownSend"), Op("eof")>>)
  BY <1>0 DEF Unbegun, Ops, Once, SendsFirst
<1>8. Unbegun(<<Op("accept"), Op("eof"), Write(1), Op("shutdownSend")>>)
  BY <1>0 DEF Unbegun, Ops, Once, SendsFirst
<1>9. Unbegun(<<Op("connect"), Write(1), Op("line")>>)
  BY <1>0 DEF Unbegun, Ops, Once, SendsFirst
<1>10. Unbegun(<<Op("connect"), Op("eof")>>)
  BY <1>0 DEF Unbegun, Ops, Once, SendsFirst
<1>11. Unbegun(<<Op("accept"), Write(1)>>)
  BY <1>0 DEF Unbegun, Ops, Once, SendsFirst
<1>12. Unbegun(<<Op("accept"), Op("echo")>>)
  BY <1>0 DEF Unbegun, Ops, Once, SendsFirst
<1>13. Unbegun(<<Op("dump")>>)
  BY <1>0 DEF Unbegun, Ops, Once, SendsFirst
<1>14. Unbegun(<<Op("accept"), Op("echoRecv")>>)
  BY <1>0 DEF Unbegun, Ops, Once, SendsFirst
<1>15. Unbegun(<<Op("echoSend")>>)
  BY <1>0 DEF Unbegun, Ops, Once, SendsFirst
<1>16. Unbegun(<<Op("connect"), Op("dump")>>)
  BY <1>0 DEF Unbegun, Ops, Once, SendsFirst
<1>17. Unbegun(<<Write(1)>>)
  BY <1>0 DEF Unbegun, Ops, Once, SendsFirst
<1>18. Unbegun(<<Op("accept"), Write(1), Write(2), Write(3), Write(4)>>)
  BY <1>0 DEF Unbegun, Ops, Once, SendsFirst
<1>19. Unbegun(<<Op("accept"), Op("eof")>>)
  BY <1>0 DEF Unbegun, Ops, Once, SendsFirst
<1>20. Unbegun(<<Op("accept"), Op("line"), Write(1)>>)
  BY <1>0 DEF Unbegun, Ops, Once, SendsFirst
<1> QED BY <1>1, <1>2, <1>3, <1>4, <1>5, <1>6, <1>7, <1>8, <1>9, <1>10, <1>11, <1>12, <1>13, <1>14, <1>15, <1>16, <1>17, <1>18, <1>19, <1>20

LEMMA UsesOf ==
  /\ Uses(<<Op("connect"), Op("full"), Op("full"), Op("line")>>, {"connect", "full", "line"})
  /\ Uses(<<Op("connect"), Write(1), Write(2)>>, {"connect", "write"})
  /\ Uses(<<Op("connect"), Op("full")>>, {"connect", "full"})
  /\ Uses(<<Op("full")>>, {"full"})
  /\ Uses(<<Op("connect"), Write(1)>>, {"connect", "write"})
  /\ Uses(<<Write(2)>>, {"write"})
  /\ Uses(<<Op("connect"), Write(1), Op("shutdownSend"), Op("eof")>>, {"connect", "write", "shutdownSend", "eof"})
  /\ Uses(<<Op("accept"), Op("eof"), Write(1), Op("shutdownSend")>>, {"accept", "eof", "write", "shutdownSend"})
  /\ Uses(<<Op("connect"), Write(1), Op("line")>>, {"connect", "write", "line"})
  /\ Uses(<<Op("connect"), Op("eof")>>, {"connect", "eof"})
  /\ Uses(<<Op("accept"), Write(1)>>, {"accept", "write"})
  /\ Uses(<<Op("accept"), Op("echo")>>, {"accept", "echo"})
  /\ Uses(<<Op("dump")>>, {"dump"})
  /\ Uses(<<Op("accept"), Op("echoRecv")>>, {"accept", "echoRecv"})
  /\ Uses(<<Op("echoSend")>>, {"echoSend"})
  /\ Uses(<<Op("connect"), Op("dump")>>, {"connect", "dump"})
  /\ Uses(<<Write(1)>>, {"write"})
  /\ Uses(<<Op("accept"), Write(1), Write(2), Write(3), Write(4)>>, {"accept", "write"})
  /\ Uses(<<Op("accept"), Op("eof")>>, {"accept", "eof"})
  /\ Uses(<<Op("accept"), Op("line"), Write(1)>>, {"accept", "line", "write"})
<1>0. {"connect", "accept", "full", "line", "eof", "dump", "echo", "echoRecv", "echoSend", "shutdownSend"} \subseteq Kinds
  BY DEF Kinds, Reading, Writing
<1> QED BY <1>0, OpTypes DEF Uses

LEMMA KindsUsed ==
  ASSUME NEW name, NEW a, NEW kinds, Uses(Programs[name].activities[a], kinds)
  PROVE  KindsOf(name, a) \subseteq kinds
BY DEF KindsOf, Uses

LEMMA KindsTable ==
  /\ KindsOf("readFromSocket", 1) \subseteq {"connect", "full", "line"}
  /\ KindsOf("writeToSocket", 1) \subseteq {"connect", "write"}
  /\ KindsOf("asyncReadFromSocket", 1) \subseteq {"connect", "full"}
  /\ KindsOf("asyncReadFromSocket", 2) \subseteq {"full"}
  /\ KindsOf("asyncWriteToSocket", 1) \subseteq {"connect", "write"}
  /\ KindsOf("asyncWriteToSocket", 2) \subseteq {"write"}
  /\ KindsOf("clientClose", 1) \subseteq {"connect", "write", "shutdownSend", "eof"}
  /\ KindsOf("serverClose", 1) \subseteq {"accept", "eof", "write", "shutdownSend"}
  /\ KindsOf("syncClient", 1) \subseteq {"connect", "write", "line"}
  /\ KindsOf("daytimeClient", 1) \subseteq {"connect", "eof"}
  /\ KindsOf("daytimeServer", 1) \subseteq {"accept", "write"}
  /\ KindsOf("echoSession", 1) \subseteq {"accept", "echo"}
  /\ KindsOf("readwritesocket", 1) \subseteq {"accept", "write"}
  /\ KindsOf("readwritesocket", 2) \subseteq {"dump"}
  /\ KindsOf("echoServer", 1) \subseteq {"accept", "echoRecv"}
  /\ KindsOf("echoServer", 2) \subseteq {"echoSend"}
  /\ KindsOf("echoServerAsync", 1) \subseteq {"accept", "echoRecv"}
  /\ KindsOf("echoServerAsync", 2) \subseteq {"echoSend"}
  /\ KindsOf("echoClient", 1) \subseteq {"connect", "dump"}
  /\ KindsOf("echoClient", 2) \subseteq {"write"}
  /\ KindsOf("echoClientAsync", 1) \subseteq {"connect", "dump"}
  /\ KindsOf("echoClientAsync", 2) \subseteq {"write"}
  /\ KindsOf("httpGet", 1) \subseteq {"connect", "dump"}
  /\ KindsOf("httpGet", 2) \subseteq {"write"}
  /\ KindsOf("longSender", 1) \subseteq {"accept", "write"}
  /\ KindsOf("shortSender", 1) \subseteq {"accept", "write"}
  /\ KindsOf("collector", 1) \subseteq {"accept", "eof"}
  /\ KindsOf("lineServer", 1) \subseteq {"accept", "line", "write"}
<1>1. KindsOf("readFromSocket", 1) \subseteq {"connect", "full", "line"}
  <2>1. Programs["readFromSocket"].activities[1] = <<Op("connect"), Op("full"), Op("full"), Op("line")>>
    BY ActivitiesOf
  <2>2. Uses(Programs["readFromSocket"].activities[1], {"connect", "full", "line"})
    BY <2>1, UsesOf, Zenon
  <2> QED BY <2>2, KindsUsed, Zenon
<1>2. KindsOf("writeToSocket", 1) \subseteq {"connect", "write"}
  <2>1. Programs["writeToSocket"].activities[1] = <<Op("connect"), Write(1), Write(2)>>
    BY ActivitiesOf
  <2>2. Uses(Programs["writeToSocket"].activities[1], {"connect", "write"})
    BY <2>1, UsesOf, Zenon
  <2> QED BY <2>2, KindsUsed, Zenon
<1>3. KindsOf("asyncReadFromSocket", 1) \subseteq {"connect", "full"}
  <2>1. Programs["asyncReadFromSocket"].activities[1] = <<Op("connect"), Op("full")>>
    BY ActivitiesOf
  <2>2. Uses(Programs["asyncReadFromSocket"].activities[1], {"connect", "full"})
    BY <2>1, UsesOf, Zenon
  <2> QED BY <2>2, KindsUsed, Zenon
<1>4. KindsOf("asyncReadFromSocket", 2) \subseteq {"full"}
  <2>1. Programs["asyncReadFromSocket"].activities[2] = <<Op("full")>>
    BY ActivitiesOf
  <2>2. Uses(Programs["asyncReadFromSocket"].activities[2], {"full"})
    BY <2>1, UsesOf, Zenon
  <2> QED BY <2>2, KindsUsed, Zenon
<1>5. KindsOf("asyncWriteToSocket", 1) \subseteq {"connect", "write"}
  <2>1. Programs["asyncWriteToSocket"].activities[1] = <<Op("connect"), Write(1)>>
    BY ActivitiesOf
  <2>2. Uses(Programs["asyncWriteToSocket"].activities[1], {"connect", "write"})
    BY <2>1, UsesOf, Zenon
  <2> QED BY <2>2, KindsUsed, Zenon
<1>6. KindsOf("asyncWriteToSocket", 2) \subseteq {"write"}
  <2>1. Programs["asyncWriteToSocket"].activities[2] = <<Write(2)>>
    BY ActivitiesOf
  <2>2. Uses(Programs["asyncWriteToSocket"].activities[2], {"write"})
    BY <2>1, UsesOf, Zenon
  <2> QED BY <2>2, KindsUsed, Zenon
<1>7. KindsOf("clientClose", 1) \subseteq {"connect", "write", "shutdownSend", "eof"}
  <2>1. Programs["clientClose"].activities[1] = <<Op("connect"), Write(1), Op("shutdownSend"), Op("eof")>>
    BY ActivitiesOf
  <2>2. Uses(Programs["clientClose"].activities[1], {"connect", "write", "shutdownSend", "eof"})
    BY <2>1, UsesOf, Zenon
  <2> QED BY <2>2, KindsUsed, Zenon
<1>8. KindsOf("serverClose", 1) \subseteq {"accept", "eof", "write", "shutdownSend"}
  <2>1. Programs["serverClose"].activities[1] = <<Op("accept"), Op("eof"), Write(1), Op("shutdownSend")>>
    BY ActivitiesOf
  <2>2. Uses(Programs["serverClose"].activities[1], {"accept", "eof", "write", "shutdownSend"})
    BY <2>1, UsesOf, Zenon
  <2> QED BY <2>2, KindsUsed, Zenon
<1>9. KindsOf("syncClient", 1) \subseteq {"connect", "write", "line"}
  <2>1. Programs["syncClient"].activities[1] = <<Op("connect"), Write(1), Op("line")>>
    BY ActivitiesOf
  <2>2. Uses(Programs["syncClient"].activities[1], {"connect", "write", "line"})
    BY <2>1, UsesOf, Zenon
  <2> QED BY <2>2, KindsUsed, Zenon
<1>10. KindsOf("daytimeClient", 1) \subseteq {"connect", "eof"}
  <2>1. Programs["daytimeClient"].activities[1] = <<Op("connect"), Op("eof")>>
    BY ActivitiesOf
  <2>2. Uses(Programs["daytimeClient"].activities[1], {"connect", "eof"})
    BY <2>1, UsesOf, Zenon
  <2> QED BY <2>2, KindsUsed, Zenon
<1>11. KindsOf("daytimeServer", 1) \subseteq {"accept", "write"}
  <2>1. Programs["daytimeServer"].activities[1] = <<Op("accept"), Write(1)>>
    BY ActivitiesOf
  <2>2. Uses(Programs["daytimeServer"].activities[1], {"accept", "write"})
    BY <2>1, UsesOf, Zenon
  <2> QED BY <2>2, KindsUsed, Zenon
<1>12. KindsOf("echoSession", 1) \subseteq {"accept", "echo"}
  <2>1. Programs["echoSession"].activities[1] = <<Op("accept"), Op("echo")>>
    BY ActivitiesOf
  <2>2. Uses(Programs["echoSession"].activities[1], {"accept", "echo"})
    BY <2>1, UsesOf, Zenon
  <2> QED BY <2>2, KindsUsed, Zenon
<1>13. KindsOf("readwritesocket", 1) \subseteq {"accept", "write"}
  <2>1. Programs["readwritesocket"].activities[1] = <<Op("accept"), Write(1)>>
    BY ActivitiesOf
  <2>2. Uses(Programs["readwritesocket"].activities[1], {"accept", "write"})
    BY <2>1, UsesOf, Zenon
  <2> QED BY <2>2, KindsUsed, Zenon
<1>14. KindsOf("readwritesocket", 2) \subseteq {"dump"}
  <2>1. Programs["readwritesocket"].activities[2] = <<Op("dump")>>
    BY ActivitiesOf
  <2>2. Uses(Programs["readwritesocket"].activities[2], {"dump"})
    BY <2>1, UsesOf, Zenon
  <2> QED BY <2>2, KindsUsed, Zenon
<1>15. KindsOf("echoServer", 1) \subseteq {"accept", "echoRecv"}
  <2>1. Programs["echoServer"].activities[1] = <<Op("accept"), Op("echoRecv")>>
    BY ActivitiesOf
  <2>2. Uses(Programs["echoServer"].activities[1], {"accept", "echoRecv"})
    BY <2>1, UsesOf, Zenon
  <2> QED BY <2>2, KindsUsed, Zenon
<1>16. KindsOf("echoServer", 2) \subseteq {"echoSend"}
  <2>1. Programs["echoServer"].activities[2] = <<Op("echoSend")>>
    BY ActivitiesOf
  <2>2. Uses(Programs["echoServer"].activities[2], {"echoSend"})
    BY <2>1, UsesOf, Zenon
  <2> QED BY <2>2, KindsUsed, Zenon
<1>17. KindsOf("echoServerAsync", 1) \subseteq {"accept", "echoRecv"}
  <2>1. Programs["echoServerAsync"].activities[1] = <<Op("accept"), Op("echoRecv")>>
    BY ActivitiesOf
  <2>2. Uses(Programs["echoServerAsync"].activities[1], {"accept", "echoRecv"})
    BY <2>1, UsesOf, Zenon
  <2> QED BY <2>2, KindsUsed, Zenon
<1>18. KindsOf("echoServerAsync", 2) \subseteq {"echoSend"}
  <2>1. Programs["echoServerAsync"].activities[2] = <<Op("echoSend")>>
    BY ActivitiesOf
  <2>2. Uses(Programs["echoServerAsync"].activities[2], {"echoSend"})
    BY <2>1, UsesOf, Zenon
  <2> QED BY <2>2, KindsUsed, Zenon
<1>19. KindsOf("echoClient", 1) \subseteq {"connect", "dump"}
  <2>1. Programs["echoClient"].activities[1] = <<Op("connect"), Op("dump")>>
    BY ActivitiesOf
  <2>2. Uses(Programs["echoClient"].activities[1], {"connect", "dump"})
    BY <2>1, UsesOf, Zenon
  <2> QED BY <2>2, KindsUsed, Zenon
<1>20. KindsOf("echoClient", 2) \subseteq {"write"}
  <2>1. Programs["echoClient"].activities[2] = <<Write(1)>>
    BY ActivitiesOf
  <2>2. Uses(Programs["echoClient"].activities[2], {"write"})
    BY <2>1, UsesOf, Zenon
  <2> QED BY <2>2, KindsUsed, Zenon
<1>21. KindsOf("echoClientAsync", 1) \subseteq {"connect", "dump"}
  <2>1. Programs["echoClientAsync"].activities[1] = <<Op("connect"), Op("dump")>>
    BY ActivitiesOf
  <2>2. Uses(Programs["echoClientAsync"].activities[1], {"connect", "dump"})
    BY <2>1, UsesOf, Zenon
  <2> QED BY <2>2, KindsUsed, Zenon
<1>22. KindsOf("echoClientAsync", 2) \subseteq {"write"}
  <2>1. Programs["echoClientAsync"].activities[2] = <<Write(1)>>
    BY ActivitiesOf
  <2>2. Uses(Programs["echoClientAsync"].activities[2], {"write"})
    BY <2>1, UsesOf, Zenon
  <2> QED BY <2>2, KindsUsed, Zenon
<1>23. KindsOf("httpGet", 1) \subseteq {"connect", "dump"}
  <2>1. Programs["httpGet"].activities[1] = <<Op("connect"), Op("dump")>>
    BY ActivitiesOf
  <2>2. Uses(Programs["httpGet"].activities[1], {"connect", "dump"})
    BY <2>1, UsesOf, Zenon
  <2> QED BY <2>2, KindsUsed, Zenon
<1>24. KindsOf("httpGet", 2) \subseteq {"write"}
  <2>1. Programs["httpGet"].activities[2] = <<Write(1)>>
    BY ActivitiesOf
  <2>2. Uses(Programs["httpGet"].activities[2], {"write"})
    BY <2>1, UsesOf, Zenon
  <2> QED BY <2>2, KindsUsed, Zenon
<1>25. KindsOf("longSender", 1) \subseteq {"accept", "write"}
  <2>1. Programs["longSender"].activities[1] = <<Op("accept"), Write(1), Write(2), Write(3), Write(4)>>
    BY ActivitiesOf
  <2>2. Uses(Programs["longSender"].activities[1], {"accept", "write"})
    BY <2>1, UsesOf, Zenon
  <2> QED BY <2>2, KindsUsed, Zenon
<1>26. KindsOf("shortSender", 1) \subseteq {"accept", "write"}
  <2>1. Programs["shortSender"].activities[1] = <<Op("accept"), Write(1)>>
    BY ActivitiesOf
  <2>2. Uses(Programs["shortSender"].activities[1], {"accept", "write"})
    BY <2>1, UsesOf, Zenon
  <2> QED BY <2>2, KindsUsed, Zenon
<1>27. KindsOf("collector", 1) \subseteq {"accept", "eof"}
  <2>1. Programs["collector"].activities[1] = <<Op("accept"), Op("eof")>>
    BY ActivitiesOf
  <2>2. Uses(Programs["collector"].activities[1], {"accept", "eof"})
    BY <2>1, UsesOf, Zenon
  <2> QED BY <2>2, KindsUsed, Zenon
<1>28. KindsOf("lineServer", 1) \subseteq {"accept", "line", "write"}
  <2>1. Programs["lineServer"].activities[1] = <<Op("accept"), Op("line"), Write(1)>>
    BY ActivitiesOf
  <2>2. Uses(Programs["lineServer"].activities[1], {"accept", "line", "write"})
    BY <2>1, UsesOf, Zenon
  <2> QED BY <2>2, KindsUsed, Zenon
<1> QED BY <1>1, <1>2, <1>3, <1>4, <1>5, <1>6, <1>7, <1>8, <1>9, <1>10, <1>11, <1>12, <1>13, <1>14, <1>15, <1>16, <1>17, <1>18, <1>19, <1>20, <1>21, <1>22, <1>23, <1>24, <1>25, <1>26, <1>27, <1>28

LEMMA Sizes ==
  ASSUME NEW name \in Names
  PROVE  /\ Programs[name].activities \in Seq(Ops)
         /\ Len(Programs[name].activities) \in 1 .. 2
         /\ \A a \in DOMAIN Programs[name].activities : Unbegun(Programs[name].activities[a])
<1> DEFINE Good(acts) == acts \in Seq(Ops) /\ Len(acts) \in 1 .. 2 /\ \A a \in DOMAIN acts : Unbegun(acts[a])
<1>1. \A x : Unbegun(x) => Good(<<x>>)
  BY DEF Unbegun
<1>2. \A x, y : Unbegun(x) /\ Unbegun(y) => Good(<<x, y>>)
  BY DEF Unbegun
<1> HIDE DEF Good
<1>3. Good(Programs["readFromSocket"].activities)
  BY <1>1, <1>2, ActivitiesOf, BeginOf
<1>4. Good(Programs["writeToSocket"].activities)
  BY <1>1, <1>2, ActivitiesOf, BeginOf
<1>5. Good(Programs["asyncReadFromSocket"].activities)
  BY <1>1, <1>2, ActivitiesOf, BeginOf
<1>6. Good(Programs["asyncWriteToSocket"].activities)
  BY <1>1, <1>2, ActivitiesOf, BeginOf
<1>7. Good(Programs["clientClose"].activities)
  BY <1>1, <1>2, ActivitiesOf, BeginOf
<1>8. Good(Programs["serverClose"].activities)
  BY <1>1, <1>2, ActivitiesOf, BeginOf
<1>9. Good(Programs["syncClient"].activities)
  BY <1>1, <1>2, ActivitiesOf, BeginOf
<1>10. Good(Programs["daytimeClient"].activities)
  BY <1>1, <1>2, ActivitiesOf, BeginOf
<1>11. Good(Programs["daytimeServer"].activities)
  BY <1>1, <1>2, ActivitiesOf, BeginOf
<1>12. Good(Programs["echoSession"].activities)
  BY <1>1, <1>2, ActivitiesOf, BeginOf
<1>13. Good(Programs["readwritesocket"].activities)
  BY <1>1, <1>2, ActivitiesOf, BeginOf
<1>14. Good(Programs["echoServer"].activities)
  BY <1>1, <1>2, ActivitiesOf, BeginOf
<1>15. Good(Programs["echoServerAsync"].activities)
  BY <1>1, <1>2, ActivitiesOf, BeginOf
<1>16. Good(Programs["echoClient"].activities)
  BY <1>1, <1>2, ActivitiesOf, BeginOf
<1>17. Good(Programs["echoClientAsync"].activities)
  BY <1>1, <1>2, ActivitiesOf, BeginOf
<1>18. Good(Programs["httpGet"].activities)
  BY <1>1, <1>2, ActivitiesOf, BeginOf
<1>19. Good(Programs["longSender"].activities)
  BY <1>1, <1>2, ActivitiesOf, BeginOf
<1>20. Good(Programs["shortSender"].activities)
  BY <1>1, <1>2, ActivitiesOf, BeginOf
<1>21. Good(Programs["collector"].activities)
  BY <1>1, <1>2, ActivitiesOf, BeginOf
<1>22. Good(Programs["lineServer"].activities)
  BY <1>1, <1>2, ActivitiesOf, BeginOf
<1>30. Good(Programs[name].activities)
  BY NamesOf, <1>3, <1>4, <1>5, <1>6, <1>7, <1>8, <1>9, <1>10, <1>11, <1>12, <1>13, <1>14, <1>15, <1>16, <1>17, <1>18, <1>19, <1>20, <1>21, <1>22
<1> QED BY <1>30 DEF Good

LEMMA OnErrorOf ==
  ASSUME NEW name \in Names
  PROVE  Programs[name].onError = IF name \in {"asyncReadFromSocket", "asyncWriteToSocket"} THEN "activity" ELSE "end"
<1> USE DEF Programs, Program
<1>1. /\ ReadFromSocket.onError = "end" /\ WriteToSocket.onError = "end"
      /\ ClientCloseAndShutdown.onError = "end" /\ ServerCloseAndShutdown.onError = "end"
      /\ SyncTCPClient.onError = "end" /\ DaytimeClient.onError = "end" /\ DaytimeServer.onError = "end"
      /\ EchoSession.onError = "end" /\ ReadWriteSocket.onError = "end" /\ EchoServer.onError = "end"
      /\ EchoClient.onError = "end" /\ LongSender.onError = "end" /\ ShortSender.onError = "end"
      /\ Collector.onError = "end" /\ LineServer.onError = "end"
      /\ AsyncReadFromSocket.onError = "activity" /\ AsyncWriteToSocket.onError = "activity"
  BY DEF ReadFromSocket, WriteToSocket, ClientCloseAndShutdown, ServerCloseAndShutdown, SyncTCPClient, DaytimeClient,
     DaytimeServer, EchoSession, ReadWriteSocket, EchoServer, EchoClient, LongSender, ShortSender, Collector,
     LineServer, AsyncReadFromSocket, AsyncWriteToSocket
<1>2. EchoServerAsync = EchoServer /\ EchoClientAsync = EchoClient /\ ClientHttpGet = EchoClient
  BY DEF EchoServerAsync, EchoClientAsync, ClientHttpGet
<1> QED BY NamesOf, <1>1, <1>2

LEMMA PairNames ==
  ASSUME NEW p \in Pairs
  PROVE  p[1] \in Names /\ p[2] \in Names
BY NamesOf DEF Pairs

(***************************************************************************)
(* The activities of a program: what each may do.                          *)
(***************************************************************************)
EchoNames == {"echoSession", "echoServer", "echoServerAsync"}
ReaderOf(name) == IF name = "readwritesocket" THEN 2 ELSE 1
WriterOf(name) == IF name \in {"echoClient", "echoClientAsync", "httpGet"} THEN 2 ELSE 1

LEMMA OneReader ==
  ASSUME NEW name \in Names \ EchoNames, name # "asyncReadFromSocket",
         NEW a \in DOMAIN Programs[name].activities, a # ReaderOf(name)
  PROVE  KindsOf(name, a) \cap MessageKinds = {}
BY KindsTable, ActivitiesOf, NamesOf DEF MessageKinds, ReaderOf, EchoNames

LEMMA OneWriter ==
  ASSUME NEW name \in Names \ EchoNames, name # "asyncWriteToSocket",
         NEW a \in DOMAIN Programs[name].activities, a # WriterOf(name)
  PROVE  "write" \notin KindsOf(name, a)
BY KindsTable, ActivitiesOf, NamesOf DEF WriterOf, EchoNames

LEMMA NoEcho ==
  ASSUME NEW name \in Names \ EchoNames, NEW a \in DOMAIN Programs[name].activities
  PROVE  KindsOf(name, a) \cap {"echo", "echoRecv", "echoSend"} = {}
<1>1. a \in {1, 2} /\ (a = 2 => Len(Programs[name].activities) = 2)
  BY Sizes
<1>2. a = 2 => name \in {"asyncReadFromSocket", "asyncWriteToSocket", "readwritesocket", "echoClient", "echoClientAsync", "httpGet"}
  BY <1>1, ActivitiesOf, NamesOf DEF EchoNames
<1>3. CASE a = 1
  BY <1>3, KindsTable, NamesOf DEF EchoNames
<1>4. CASE a = 2
  BY <1>2, <1>4, KindsTable
<1> QED BY <1>1, <1>3, <1>4

LEMMA EchoOnly ==
  /\ Len(Programs["echoSession"].activities) = 1 /\ KindsOf("echoSession", 1) \subseteq {"accept", "echo"}
  /\ \A name \in {"echoServer", "echoServerAsync"} :
       /\ Len(Programs[name].activities) = 2
       /\ KindsOf(name, 1) \subseteq {"accept", "echoRecv"} /\ KindsOf(name, 2) \subseteq {"echoSend"}
<1>1. (\A x : Len(<<x>>) = 1) /\ \A x, y : Len(<<x, y>>) = 2
  OBVIOUS
<1>2. Len(Programs["echoSession"].activities) = 1
  BY <1>1, ActivitiesOf, Zenon
<1>3. Len(Programs["echoServer"].activities) = 2 /\ Len(Programs["echoServerAsync"].activities) = 2
  BY <1>1, ActivitiesOf, Zenon
<1> QED BY <1>2, <1>3, KindsTable

LEMMA EofOnly ==
  ASSUME NEW name \in {"clientClose", "serverClose", "daytimeClient", "daytimeServer", "collector", "writeToSocket", "asyncWriteToSocket"},
         NEW a \in DOMAIN Programs[name].activities
  PROVE  KindsOf(name, a) \subseteq {"connect", "accept", "write", "shutdownSend", "eof"}
BY KindsTable, ActivitiesOf

LEMMA OneActivity ==
  ASSUME NEW name \in {"clientClose", "serverClose", "daytimeClient", "collector"}
  PROVE  Len(Programs[name].activities) = 1
<1>1. \A x : Len(<<x>>) = 1
  OBVIOUS
<1>2. \E x : Programs[name].activities = <<x>>
  BY ActivitiesOf
<1> QED BY <1>1, <1>2

(***************************************************************************)
(* What a step does at one end.                                            *)
(***************************************************************************)
With(ops, data) == [ops EXCEPT ![1].data = data]
Chunk(e, k) == SubSeq(Available(e), 1, k)

Quiet(e) == out'[e] = out[e] /\ taken'[e] = taken[e] /\ done'[e] = done[e]
Stays(e) == Quiet(e) /\ todo'[e] = todo[e]
Skips(e, a) ==
  /\ todo[e][a] # <<>> /\ todo[e][a][1].do \in {"connect", "accept", "shutdownSend"}
  /\ todo'[e] = [todo[e] EXCEPT ![a] = Tail(@)] /\ Quiet(e)
Clears(e) == todo'[e] = [b \in Activities(e) |-> <<>>] /\ socket'[e] = "closed" /\ Quiet(e)
Drops(e, a) ==
  /\ P(e).onError = "activity" /\ (cut \/ (fin[Other(e)] /\ IsAt(e, a, Reading)))
  /\ todo'[e] = [todo[e] EXCEPT ![a] = <<>>] /\ Quiet(e)

Puts(e, a, k) ==
  /\ Connected(e) /\ ~cut /\ todo[e][a] # <<>> /\ todo[e][a][1].do \in Writing
  /\ out'[e] = out[e] \o SubSeq(Data(e, a), 1, k) /\ taken'[e] = taken[e] /\ done'[e] = done[e]
PutsLast(e, a) ==
  Puts(e, a, Len(Data(e, a))) /\ todo[e][a][1].do = "write" /\ todo'[e] = [todo[e] EXCEPT ![a] = Tail(@)]
PutsSome(e, a, k) ==
  Puts(e, a, k) /\ todo'[e] = [todo[e] EXCEPT ![a] = With(@, SubSeq(Data(e, a), k + 1, Len(Data(e, a))))]

Takes(e, a, k) ==
  /\ Connected(e) /\ todo[e][a] # <<>>
  /\ taken'[e] = taken[e] + k /\ out'[e] = out[e]
TakesLast(e, a, k) ==
  /\ Takes(e, a, k) /\ todo[e][a][1].do \in {"full", "line"}
  /\ todo'[e] = [todo[e] EXCEPT ![a] = Tail(@)] /\ done'[e] = Append(done[e], Data(e, a) \o Chunk(e, k))
TakesSome(e, a, k) ==
  /\ Takes(e, a, k) /\ todo[e][a][1].do \in {"full", "line", "eof", "dump", "echo"}
  /\ todo[e][a][1].do = "full" => Len(Data(e, a)) + k < Want
  /\ todo[e][a][1].do = "echo" => Data(e, a) = <<>>
  /\ todo'[e] = [todo[e] EXCEPT ![a] = With(@, Data(e, a) \o Chunk(e, k))] /\ done'[e] = done[e]
TakesEcho(e, a, k) ==
  /\ Takes(e, a, k) /\ todo[e][a][1].do = "echoRecv"
  /\ todo'[e] = [todo[e] EXCEPT ![2] = With(@, @[1].data \o Chunk(e, k))] /\ done'[e] = done[e]
MeetsEof(e, a) ==
  /\ Connected(e) /\ todo[e][a] # <<>> /\ todo[e][a][1].do = "eof" /\ Unread(e) = 0 /\ fin[Other(e)]
  /\ todo'[e] = [todo[e] EXCEPT ![a] = Tail(@)] /\ done'[e] = Append(done[e], Data(e, a))
  /\ out'[e] = out[e] /\ taken'[e] = taken[e]

Local(e) ==
  \/ Stays(e) \/ Clears(e)
  \/ \E a \in Activities(e) :
       \/ Skips(e, a) \/ Drops(e, a) \/ PutsLast(e, a) \/ MeetsEof(e, a)
       \/ \E k \in 1 .. Len(Data(e, a)) : PutsSome(e, a, k)
       \/ \E k \in 1 .. Unread(e) : TakesLast(e, a, k) \/ TakesSome(e, a, k) \/ TakesEcho(e, a, k)

\* How the socket changes: it is not opened again, and nothing is left to do
\* when it is closed.
SocketStep(e) ==
  \/ socket'[e] = socket[e]
  \/ socket'[e] = "closed" /\ \A a \in DOMAIN todo'[e] : todo'[e][a] = <<>>
  \/ socket'[e] \in {"open", "half"} /\ \E a \in Activities(e) : todo[e][a] # <<>>

LEMMA EndsOf == \A e \in Ends : Other(e) \in Ends /\ Other(e) # e /\ Other(Other(e)) = e /\ (\A f \in Ends : f = e \/ f = Other(e))
BY DEF Ends, Other

LEMMA ActivitiesAre ==
  ASSUME Typed, NEW e \in Ends
  PROVE  /\ pair[e] \in Names /\ Activities(e) = 1 .. Len(todo[e]) /\ Len(todo[e]) \in 1 .. 2
         /\ 1 \in Activities(e) /\ Activities(e) \subseteq {1, 2} /\ DOMAIN P(e).activities = Activities(e)
         /\ \A a \in Activities(e) : todo[e][a] \in Ops
<1>1. pair[e] \in Names
  BY PairNames DEF Typed, Ends
<1>2. P(e).activities \in Seq(Ops) /\ Len(P(e).activities) \in 1 .. 2
  BY <1>1, Sizes DEF P
<1>3. todo[e] \in Seq(Ops) /\ Len(todo[e]) = Len(P(e).activities)
  BY DEF Typed
<1> QED BY <1>1, <1>2, <1>3 DEF Activities

LEMMA DataType ==
  ASSUME Typed, NEW e \in Ends, NEW a \in Activities(e), todo[e][a] # <<>>
  PROVE  Data(e, a) \in Seq(Byte) /\ todo[e][a][1] \in OpRecord /\ Len(Data(e, a)) \in Nat
<1>1. todo[e][a] \in Ops
  BY ActivitiesAre
<1>2. todo[e][a][1] \in OpRecord
  BY <1>1 DEF Ops
<1> QED BY <1>2, LenProperties DEF Data, OpRecord

\* The other end stays as it is.
Alone(f) == Stays(Other(f)) /\ socket'[Other(f)] = socket[Other(f)]

LEMMA ErrorLocal ==
  ASSUME Typed, NEW f \in Ends, NEW a \in Activities(f), Error(f, a), UNCHANGED <<pair, out, taken, done>>,
         cut \/ (fin[Other(f)] /\ IsAt(f, a, Reading))
  PROVE  (Clears(f) \/ Drops(f, a)) /\ SocketStep(f) /\ Alone(f)
<1>1. Other(f) \in Ends /\ Other(f) # f /\ todo \in [Ends -> Seq(Ops)] /\ DOMAIN socket = Ends
  BY EndsOf DEF Typed
<1>2. CASE P(f).onError = "activity" /\ todo' = [todo EXCEPT ![f][a] = <<>>] /\ UNCHANGED <<socket, fin, cut>>
  BY <1>1, <1>2 DEF Drops, Quiet, SocketStep, Alone, Stays
<1>3. CASE todo' = [todo EXCEPT ![f] = [b \in Activities(f) |-> <<>>]] /\ Close(f)
  <2>1. todo'[f] = [b \in Activities(f) |-> <<>>] /\ socket'[f] = "closed"
    BY <1>1, <1>3 DEF Close
  <2>2. Alone(f)
    BY <1>1, <1>3 DEF Close, Alone, Stays, Quiet
  <2> QED BY <2>1, <2>2 DEF Clears, Quiet, SocketStep
<1> QED BY <1>2, <1>3 DEF Error

LEMMA EndLocal ==
  ASSUME Typed, NEW f \in Ends, Refuse(f) \/ Destroy(f) \/ Disconnect(f)
  PROVE  (Clears(f) \/ Stays(f)) /\ SocketStep(f) /\ Alone(f)
<1>1. Other(f) \in Ends /\ Other(f) # f /\ todo \in [Ends -> Seq(Ops)] /\ DOMAIN socket = Ends
  BY EndsOf DEF Typed
<1>2. CASE Refuse(f)
  BY <1>1, <1>2 DEF Refuse, Clears, Quiet, SocketStep, Alone, Stays
<1>3. CASE Destroy(f)
  BY <1>1, <1>3 DEF Destroy, Close, Clears, Quiet, SocketStep, Alone, Stays, Activities
<1>4. CASE Disconnect(f)
  BY <1>1, <1>4 DEF Disconnect, Close, Clears, Quiet, SocketStep, Alone, Stays
<1> QED BY <1>2, <1>3, <1>4

LEMMA EstablishLocal ==
  ASSUME Typed, Establish, NEW e \in Ends
  PROVE  Skips(e, 1) /\ SocketStep(e)
<1>1. 1 \in Activities(e) /\ todo[e][1] # <<>> /\ todo[e][1][1].do \in {"connect", "accept"}
  BY ActivitiesAre DEF Establish, At, Ends
<1>2. todo'[e] = [todo[e] EXCEPT ![1] = Tail(@)] /\ socket'[e] = "open" /\ Quiet(e)
  BY DEF Establish, Quiet
<1> QED BY <1>1, <1>2 DEF Skips, SocketStep

LEMMA ShutdownLocal ==
  ASSUME Typed, NEW f \in Ends, NEW a \in Activities(f), ShutdownSend(f, a)
  PROVE  Skips(f, a) /\ SocketStep(f) /\ Alone(f)
<1>1. Other(f) \in Ends /\ Other(f) # f /\ todo \in [Ends -> Seq(Ops)] /\ DOMAIN socket = Ends
  BY EndsOf DEF Typed
<1>2. todo[f][a] # <<>> /\ todo[f][a][1].do = "shutdownSend" /\ Quiet(f)
  BY DEF ShutdownSend, At, Quiet
<1>3. todo'[f] = [todo[f] EXCEPT ![a] = Tail(@)] /\ socket'[f] = "half" /\ Alone(f)
  BY <1>1 DEF ShutdownSend, Complete, Alone, Stays, Quiet
<1> QED BY <1>2, <1>3 DEF Skips, SocketStep

LEMMA WriteLocal ==
  ASSUME Typed, NEW f \in Ends, NEW a \in Activities(f), WriteSome(f, a)
  PROVE  /\ PutsLast(f, a) \/ \E k \in 1 .. Len(Data(f, a)) : PutsSome(f, a, k)
         /\ SocketStep(f) /\ Alone(f)
<1>1. Other(f) \in Ends /\ Other(f) # f /\ todo \in [Ends -> Seq(Ops)] /\ DOMAIN out = Ends
  BY EndsOf DEF Typed
<1>2. PICK k \in 1 .. Len(Data(f, a)) :
        /\ out' = [out EXCEPT ![f] = @ \o SubSeq(Data(f, a), 1, k)]
        /\ IF k = Len(Data(f, a)) /\ At(f, a, "write") THEN Complete(f, a)
           ELSE Keep(f, a, SubSeq(Data(f, a), k + 1, Len(Data(f, a))))
  BY DEF WriteSome
<1>3. SocketStep(f) /\ Alone(f)
  BY <1>1, <1>2 DEF WriteSome, SocketStep, Alone, Stays, Quiet, Complete, Keep
<1>4. Puts(f, a, k)
  BY <1>1, <1>2 DEF Puts, WriteSome, IsAt
<1>5. CASE k = Len(Data(f, a)) /\ At(f, a, "write")
  <2>1. todo'[f] = [todo[f] EXCEPT ![a] = Tail(@)]
    BY <1>1, <1>2, <1>5 DEF Complete
  <2> QED BY <1>3, <1>4, <1>5, <2>1 DEF PutsLast, At
<1>6. CASE ~ (k = Len(Data(f, a)) /\ At(f, a, "write"))
  <2>1. todo'[f] = [todo[f] EXCEPT ![a] = With(@, SubSeq(Data(f, a), k + 1, Len(Data(f, a))))]
    BY <1>1, <1>2, <1>6 DEF Keep, With
  <2> QED BY <1>3, <1>4, <2>1 DEF PutsSome
<1> QED BY <1>5, <1>6

LEMMA ReadLocal ==
  ASSUME Typed, NEW f \in Ends, NEW a \in Activities(f), ReadSome(f, a)
  PROVE  /\ \E k \in 1 .. Unread(f) : TakesLast(f, a, k) \/ TakesSome(f, a, k) \/ TakesEcho(f, a, k)
         /\ SocketStep(f) /\ Alone(f)
<1>1. Other(f) \in Ends /\ Other(f) # f /\ todo \in [Ends -> Seq(Ops)] /\ DOMAIN taken = Ends /\ DOMAIN done = Ends
  BY EndsOf DEF Typed
<1> DEFINE chunk(k) == SubSeq(Available(f), 1, k)  data(k) == Data(f, a) \o chunk(k)
<1>2. PICK k \in 1 .. Unread(f) :
          /\ taken' = [taken EXCEPT ![f] = @ + k]
          /\ \/ /\ At(f, a, "full") /\ k <= Missing(f, a)
                /\ IF k = Missing(f, a) THEN Finish(f, a, data(k)) ELSE Keep(f, a, data(k)) /\ UNCHANGED done
             \/ /\ At(f, a, "line")
                /\ IF EndsLine(chunk(k)) THEN Finish(f, a, data(k)) ELSE Keep(f, a, data(k)) /\ UNCHANGED done
             \/ IsAt(f, a, {"eof", "dump", "echo"}) /\ Keep(f, a, data(k)) /\ UNCHANGED done
             \/ /\ At(f, a, "echoRecv") /\ UNCHANGED done
                /\ todo' = [todo EXCEPT ![f][2][1].data = @ \o chunk(k)]
  BY DEF ReadSome
<1> HIDE DEF chunk, data
<1>3. SocketStep(f) /\ Alone(f)
  BY <1>1, <1>2 DEF ReadSome, SocketStep, Alone, Stays, Quiet, Complete, Keep, Finish
<1>4. Takes(f, a, k)
  BY <1>1, <1>2 DEF Takes, ReadSome, IsAt
<1>5. data(k) = Data(f, a) \o Chunk(f, k) /\ chunk(k) = Chunk(f, k)
  BY DEF data, chunk, Chunk
<1>6. ASSUME Finish(f, a, data(k)), At(f, a, "full") \/ At(f, a, "line")
      PROVE  TakesLast(f, a, k)
  <2>1. todo'[f] = [todo[f] EXCEPT ![a] = Tail(@)] /\ done'[f] = Append(done[f], data(k))
    BY <1>1, <1>6 DEF Complete, Finish
  <2> QED BY <1>4, <1>5, <1>6, <2>1 DEF TakesLast, At
<1>7. ASSUME Keep(f, a, data(k)), UNCHANGED done, IsAt(f, a, {"full", "line", "eof", "dump", "echo"}),
             At(f, a, "full") => Len(Data(f, a)) + k < Want
      PROVE  TakesSome(f, a, k)
  <2>1. todo'[f] = [todo[f] EXCEPT ![a] = With(@, data(k))]
    BY <1>1, <1>7 DEF Keep, With
  <2>2. At(f, a, "echo") => Data(f, a) = <<>>
    BY DEF ReadSome
  <2> QED BY <1>4, <1>5, <1>7, <2>1, <2>2 DEF TakesSome, At, IsAt
<1>8. CASE At(f, a, "full") /\ k <= Missing(f, a) /\ k # Missing(f, a) /\ Keep(f, a, data(k)) /\ UNCHANGED done
  <2>1. Len(Data(f, a)) + k < Want
    <3>1. Len(Data(f, a)) \in Nat
      BY <1>8, DataType DEF At
    <3> QED BY <1>8, <3>1, StreamsAssumption DEF Missing
  <2> QED BY <1>3, <1>7, <1>8, <2>1 DEF At, IsAt
<1>9. CASE At(f, a, "line") /\ Keep(f, a, data(k)) /\ UNCHANGED done
  BY <1>3, <1>7, <1>9 DEF At, IsAt
<1>10. CASE IsAt(f, a, {"eof", "dump", "echo"}) /\ Keep(f, a, data(k)) /\ UNCHANGED done
  BY <1>3, <1>7, <1>10 DEF At, IsAt
<1>11. CASE At(f, a, "echoRecv") /\ UNCHANGED done /\ todo' = [todo EXCEPT ![f][2][1].data = @ \o chunk(k)]
  <2>1. todo'[f] = [todo[f] EXCEPT ![2] = With(@, @[1].data \o chunk(k))]
    BY <1>1, <1>11 DEF With
  <2> QED BY <1>3, <1>4, <1>5, <1>11, <2>1 DEF TakesEcho, At
<1> QED BY <1>2, <1>3, <1>6, <1>8, <1>9, <1>10, <1>11

LEMMA EofLocal ==
  ASSUME Typed, NEW f \in Ends, NEW a \in Activities(f), ReadEof(f, a)
  PROVE  (MeetsEof(f, a) \/ Clears(f) \/ Drops(f, a)) /\ SocketStep(f) /\ Alone(f)
<1>1. Other(f) \in Ends /\ Other(f) # f /\ todo \in [Ends -> Seq(Ops)] /\ DOMAIN done = Ends
  BY EndsOf DEF Typed
<1>2. CASE At(f, a, "eof") /\ Finish(f, a, Data(f, a)) /\ UNCHANGED <<socket, fin, cut>>
  <2>1. todo'[f] = [todo[f] EXCEPT ![a] = Tail(@)] /\ done'[f] = Append(done[f], Data(f, a))
    BY <1>1, <1>2 DEF Complete, Finish
  <2>2. SocketStep(f) /\ Alone(f)
    BY <1>1, <1>2 DEF ReadEof, SocketStep, Alone, Stays, Quiet, Complete, Finish
  <2> QED BY <1>2, <2>1, <2>2 DEF MeetsEof, ReadEof, At
<1>3. CASE Error(f, a) /\ UNCHANGED done
  BY <1>3, ErrorLocal DEF ReadEof
<1> QED BY <1>2, <1>3 DEF ReadEof

LEMMA FailsLocal ==
  ASSUME Typed, NEW f \in Ends, NEW a \in Activities(f), Fails(f, a)
  PROVE  (Clears(f) \/ Drops(f, a)) /\ SocketStep(f) /\ Alone(f)
BY ErrorLocal DEF Fails

LEMMA LocalNext ==
  ASSUME Typed, [Next]_vars
  PROVE  \A e \in Ends : Local(e) /\ SocketStep(e)
<1> USE DEF Local
<1>1. ASSUME NEW f \in Ends, Local(f), SocketStep(f), Alone(f)
      PROVE  \A e \in Ends : Local(e) /\ SocketStep(e)
  BY <1>1, EndsOf DEF Alone, SocketStep
<1>2. CASE Establish
  BY <1>2, EstablishLocal, ActivitiesAre
<1>3. CASE Reset \/ UNCHANGED vars
  BY <1>3 DEF Reset, vars, Stays, Quiet, SocketStep
<1>4. ASSUME NEW f \in Ends, Refuse(f) \/ Destroy(f) \/ Disconnect(f)
      PROVE  \A e \in Ends : Local(e) /\ SocketStep(e)
  BY <1>1, <1>4, EndLocal
<1>5. ASSUME NEW f \in Ends, NEW a \in Activities(f),
             WriteSome(f, a) \/ ShutdownSend(f, a) \/ ReadSome(f, a) \/ ReadEof(f, a) \/ Fails(f, a)
      PROVE  \A e \in Ends : Local(e) /\ SocketStep(e)
  <2>1. CASE WriteSome(f, a)
    BY <1>1, <2>1, WriteLocal
  <2>2. CASE ShutdownSend(f, a)
    BY <1>1, <2>2, ShutdownLocal
  <2>3. CASE ReadSome(f, a)
    BY <1>1, <2>3, ReadLocal
  <2>4. CASE ReadEof(f, a)
    BY <1>1, <2>4, EofLocal
  <2>5. CASE Fails(f, a)
    BY <1>1, <2>5, FailsLocal
  <2> QED BY <1>5, <2>1, <2>2, <2>3, <2>4, <2>5
<1> QED BY <1>2, <1>3, <1>4, <1>5 DEF Next, Progress

(***************************************************************************)
(* The activities stay well formed.                                        *)
(***************************************************************************)
LEMMA EmptyFormed == \A kinds : <<>> \in Ops /\ Formed(<<>>) /\ Uses(<<>>, kinds)
BY DEF Ops, Formed, Waiting, Fitting, Once, SendsFirst, Uses

LEMMA TailFormed ==
  ASSUME NEW ops \in Ops, ops # <<>>, Formed(ops), NEW kinds, Uses(ops, kinds)
  PROVE  /\ Tail(ops) \in Ops /\ Formed(Tail(ops)) /\ Uses(Tail(ops), kinds)
         /\ Tail(ops) # <<>> => Tail(ops)[1].do = "write" \/ Tail(ops)[1].data = <<>>
<1>1. /\ Len(ops) \in Nat /\ DOMAIN ops = 1 .. Len(ops)
      /\ Tail(ops) \in Ops /\ Len(Tail(ops)) = Len(ops) - 1
      /\ \A i \in 1 .. Len(Tail(ops)) : Tail(ops)[i] = ops[i + 1]
  BY HeadTailProperties, LenProperties DEF Ops
<1>2. DOMAIN Tail(ops) = 1 .. Len(ops) - 1
  BY <1>1, LenProperties DEF Ops
<1> DEFINE t == Tail(ops)
<1>3. \A i \in DOMAIN t : i \in Nat /\ i >= 1 /\ i + 1 \in DOMAIN ops /\ t[i] = ops[i + 1]
  BY <1>1, <1>2
<1>4. t # <<>> => 1 \in DOMAIN t
  BY <1>1, <1>2, EmptySeq DEF Ops
<1>5. t \in Ops
  BY <1>1
<1> HIDE DEF t
<1>6. Uses(t, kinds)
  BY <1>3 DEF Uses
<1>7. Waiting(t) /\ Fitting(t) /\ (t # <<>> => t[1].do = "write" \/ t[1].data = <<>>)
  BY <1>3, <1>4 DEF Formed, Waiting, Fitting
<1>8. Once(t, "eof") /\ SendsFirst(t)
  BY <1>3 DEF Formed, Once, SendsFirst
<1> QED BY <1>5, <1>6, <1>7, <1>8 DEF Formed, t

LEMMA WithShape ==
  ASSUME NEW ops \in Ops, ops # <<>>, NEW data \in Seq(Byte)
  PROVE  /\ With(ops, data) \in Ops /\ With(ops, data) # <<>> /\ DOMAIN With(ops, data) = DOMAIN ops /\ 1 \in DOMAIN ops
         /\ With(ops, data)[1].do = ops[1].do /\ With(ops, data)[1].data = data
         /\ \A i \in DOMAIN ops : With(ops, data)[i].do = ops[i].do /\ (i # 1 => With(ops, data)[i] = ops[i])
         /\ Tail(With(ops, data)) = Tail(ops)
<1>1. Len(ops) \in Nat /\ DOMAIN ops = 1 .. Len(ops) /\ Len(ops) # 0 /\ 1 \in DOMAIN ops
  BY EmptySeq, LenProperties DEF Ops
<1> DEFINE r == [ops[1] EXCEPT !.data = data]  w == [ops EXCEPT ![1] = r]
<1>2. ops[1] \in OpRecord /\ r \in OpRecord /\ r.do = ops[1].do /\ r.data = data
  <2>1. ops[1] \in OpRecord
    BY <1>1, ElementOfSeq DEF Ops
  <2> QED BY <2>1 DEF OpRecord
<1>3. With(ops, data) = w
  BY DEF With
<1> HIDE DEF r
<1>4. w \in Ops /\ Len(w) = Len(ops) /\ \A i \in 1 .. Len(ops) : w[i] = IF i = 1 THEN r ELSE ops[i]
  BY <1>1, <1>2, ExceptSeq DEF Ops
<1> HIDE DEF w
<1>5. DOMAIN w = 1 .. Len(ops) /\ w # <<>>
  BY <1>1, <1>4, LenProperties, EmptySeq DEF Ops
<1>6. Tail(w) = Tail(ops)
  <2>1. /\ Tail(w) \in Ops /\ Len(Tail(w)) = Len(w) - 1 /\ \A i \in 1 .. Len(Tail(w)) : Tail(w)[i] = w[i + 1]
        /\ Tail(ops) \in Ops /\ Len(Tail(ops)) = Len(ops) - 1 /\ \A i \in 1 .. Len(Tail(ops)) : Tail(ops)[i] = ops[i + 1]
    BY <1>4, <1>5, HeadTailProperties DEF Ops
  <2>2. \A i \in 1 .. Len(Tail(w)) : Tail(w)[i] = Tail(ops)[i]
    BY <1>1, <1>4, <2>1
  <2> QED BY <1>4, <2>1, <2>2, SeqEqual DEF Ops
<1> QED BY <1>1, <1>2, <1>3, <1>4, <1>5, <1>6

LEMMA WithFormed ==
  ASSUME NEW ops \in Ops, ops # <<>>, Formed(ops), NEW kinds, Uses(ops, kinds), NEW data \in Seq(Byte),
         ops[1].do = "full" => Len(data) < Want
  PROVE  With(ops, data) \in Ops /\ Formed(With(ops, data)) /\ Uses(With(ops, data), kinds)
<1> DEFINE w == With(ops, data)
<1>1. /\ w \in Ops /\ DOMAIN w = DOMAIN ops /\ 1 \in DOMAIN ops /\ w[1].data = data
      /\ \A i \in DOMAIN ops : w[i].do = ops[i].do /\ (i # 1 => w[i] = ops[i])
  BY WithShape
<1> HIDE DEF w
<1>2. Uses(w, kinds)
  BY <1>1 DEF Uses
<1>3. Waiting(w)
  BY <1>1 DEF Waiting, Formed
<1>4. Fitting(w)
  BY <1>1 DEF Fitting, Formed
<1>5. Once(w, "eof") /\ SendsFirst(w)
  BY <1>1 DEF Once, SendsFirst, Formed
<1> QED BY <1>1, <1>2, <1>3, <1>4, <1>5 DEF Formed, w

\* What has arrived and is read next.
LEMMA ChunkType ==
  ASSUME Typed, NEW e \in Ends, NEW k \in 1 .. Unread(e)
  PROVE  /\ Chunk(e, k) \in Seq(Byte) /\ Len(Chunk(e, k)) = k
         /\ Read(e) \in Seq(Byte) /\ Len(Read(e)) = taken[e] /\ taken[e] + k \in 0 .. Len(out[Other(e)])
         /\ SubSeq(out[Other(e)], 1, taken[e] + k) = Read(e) \o Chunk(e, k)
<1> DEFINE s == out[Other(e)]  n == taken[e]
<1>1. s \in Seq(Byte) /\ Len(s) \in Nat /\ n \in 0 .. Len(s) /\ k \in 1 .. Len(s) - n
  BY EndsOf, LenProperties DEF Typed, Unread
<1>2. Read(e) = SubSeq(s, 1, n) /\ Chunk(e, k) = SubSeq(SubSeq(s, n + 1, Len(s)), 1, k)
  BY DEF Read, Chunk, Available
<1> HIDE DEF s, n
<1>3. SubSeq(s, 1, n) \in Seq(Byte) /\ Len(SubSeq(s, 1, n)) = n
      /\ SubSeq(s, n + 1, Len(s)) \in Seq(Byte) /\ Len(SubSeq(s, n + 1, Len(s))) = Len(s) - n
  BY <1>1, Cut
<1> DEFINE r == SubSeq(s, n + 1, Len(s))
<1>4. r \in Seq(Byte) /\ k \in 0 .. Len(r)
  BY <1>1, <1>3
<1> HIDE DEF r
<1>5. SubSeq(r, 1, k) \in Seq(Byte) /\ Len(SubSeq(r, 1, k)) = k
  BY <1>4, Cut
<1>6. SubSeq(s, 1, n + k) = SubSeq(s, 1, n) \o SubSeq(SubSeq(s, n + 1, Len(s)), 1, k)
  BY <1>1, CutMore
<1>7. n + k \in 0 .. Len(s)
  BY <1>1
<1> QED BY <1>2, <1>3, <1>5, <1>6, <1>7 DEF r, s, n

LEMMA ReadType ==
  ASSUME Typed, NEW e \in Ends
  PROVE  Read(e) \in Seq(Byte) /\ Len(Read(e)) = taken[e]
<1>1. out[Other(e)] \in Seq(Byte) /\ taken[e] \in 0 .. Len(out[Other(e)])
  BY EndsOf, LenProperties DEF Typed
<1> QED BY <1>1, Cut DEF Read

\* A write hands over the first bytes of its data and keeps the rest.
LEMMA PutType ==
  ASSUME Typed, NEW e \in Ends, NEW a \in Activities(e), todo[e][a] # <<>>, NEW k \in 0 .. Len(Data(e, a))
  PROVE  /\ SubSeq(Data(e, a), 1, k) \in Seq(Byte) /\ Len(SubSeq(Data(e, a), 1, k)) = k
         /\ SubSeq(Data(e, a), k + 1, Len(Data(e, a))) \in Seq(Byte)
         /\ Len(SubSeq(Data(e, a), k + 1, Len(Data(e, a)))) = Len(Data(e, a)) - k
         /\ SubSeq(Data(e, a), 1, k) \o SubSeq(Data(e, a), k + 1, Len(Data(e, a))) = Data(e, a)
BY DataType, Cut

\* The operation in front is one of its activity's kinds.
LEMMA FrontKind ==
  ASSUME Typed, NEW e \in Ends, NEW a \in Activities(e), todo[e][a] # <<>>
  PROVE  1 \in DOMAIN todo[e][a] /\ todo[e][a][1].do \in KindsOf(pair[e], a)
<1>1. 1 \in DOMAIN todo[e][a]
  BY ActivitiesAre, EmptySeq, LenProperties DEF Ops
<1> QED BY <1>1 DEF Typed, Uses

LEMMA EchoRecvAt ==
  ASSUME Typed, NEW e \in Ends, NEW a \in Activities(e), todo[e][a] # <<>>, todo[e][a][1].do = "echoRecv"
  PROVE  pair[e] \in {"echoServer", "echoServerAsync"} /\ a = 1
<1>1. "echoRecv" \in KindsOf(pair[e], a)
  BY FrontKind
<1>2. pair[e] \in Names /\ a \in {1, 2} /\ a \in DOMAIN P(e).activities /\ (a = 2 => Len(P(e).activities) = 2)
  BY ActivitiesAre DEF Typed
<1>3. pair[e] \in EchoNames
  BY <1>1, <1>2, NoEcho DEF P
<1> QED BY <1>1, <1>2, <1>3, EchoOnly DEF EchoNames, P

\* While an echo server is connected the queue of sends is there.
LEMMA EchoSendAt ==
  ASSUME Typed, NEW e \in Ends, EchoesInv(e), pair[e] \in {"echoServer", "echoServerAsync"}, socket[e] # "closed"
  PROVE  2 \in Activities(e) /\ todo[e][2] # <<>> /\ todo[e][2][1].do = "echoSend"
<1>1. 2 \in Activities(e)
  BY ActivitiesAre, EchoOnly DEF Typed, P
<1>2. todo[e][2] # <<>>
  <2>1. \E i \in DOMAIN todo[e][Echoer(e)] : TRUE
    BY DEF EchoesInv, Echoes
  <2>2. Echoer(e) = 2
    BY DEF Echoer
  <2>3. DOMAIN <<>> = {}
    OBVIOUS
  <2> QED BY <2>1, <2>2, <2>3
<1>3. todo[e][2][1].do \in KindsOf(pair[e], 2)
  BY <1>1, <1>2, FrontKind
<1> QED BY <1>1, <1>2, <1>3, EchoOnly

WellFormed(e, ops, a) == ops \in Ops /\ Formed(ops) /\ Uses(ops, KindsOf(pair[e], a))

TodoTyped(e) ==
  /\ todo'[e] \in Seq(Ops) /\ Len(todo'[e]) = Len(todo[e])
  /\ \A a \in DOMAIN todo'[e] : Formed(todo'[e][a]) /\ Uses(todo'[e][a], KindsOf(pair[e], a))

LEMMA WellFormedNow ==
  ASSUME Typed, NEW e \in Ends, NEW a \in Activities(e)
  PROVE  /\ WellFormed(e, todo[e][a], a) /\ WellFormed(e, <<>>, a)
         /\ todo[e][a] # <<>> => WellFormed(e, Tail(todo[e][a]), a)
BY ActivitiesAre, EmptyFormed, TailFormed DEF Typed, WellFormed

LEMMA TodoNext ==
  ASSUME StreamsInv, NEW e \in Ends, Local(e)
  PROVE  TodoTyped(e)
<1>1. Typed
  BY DEF StreamsInv
<1>2. ASSUME NEW a \in Activities(e), NEW ops, WellFormed(e, ops, a), todo'[e] = [todo[e] EXCEPT ![a] = ops]
      PROVE  TodoTyped(e)
  <2>1. PICK new : new = todo'[e]
    OBVIOUS
  <2>2. new = [todo[e] EXCEPT ![a] = ops]
    BY <1>2, <2>1
  <2>3. /\ new \in Seq(Ops) /\ Len(new) = Len(todo[e])
        /\ \A b \in DOMAIN new : Formed(new[b]) /\ Uses(new[b], KindsOf(pair[e], b))
    <3>1. todo[e] \in Seq(Ops) /\ Activities(e) = 1 .. Len(todo[e]) /\ ops \in Ops
      BY <1>1, <1>2, ActivitiesAre DEF Typed, WellFormed
    <3>2. /\ new \in Seq(Ops) /\ Len(new) = Len(todo[e])
          /\ \A b \in 1 .. Len(todo[e]) : new[b] = IF b = a THEN ops ELSE todo[e][b]
      BY <2>2, <3>1, ExceptSeq
    <3>3. DOMAIN new = 1 .. Len(todo[e])
      BY <3>2, LenProperties
    <3>4. \A b \in Activities(e) : Formed(todo[e][b]) /\ Uses(todo[e][b], KindsOf(pair[e], b))
      BY <1>1 DEF Typed
    <3> QED BY <1>2, <3>1, <3>2, <3>3, <3>4 DEF WellFormed
  <2> QED BY <2>1, <2>3 DEF TodoTyped
<1>3. CASE Stays(e)
  BY <1>1, <1>3 DEF Stays, TodoTyped, Typed, Activities
<1>4. CASE Clears(e)
  <2>1. Activities(e) = 1 .. Len(todo[e]) /\ Len(todo[e]) \in Nat
    BY <1>1, ActivitiesAre
  <2>2. todo'[e] = [b \in 1 .. Len(todo[e]) |-> <<>>]
    BY <1>4, <2>1 DEF Clears
  <2> QED BY <2>1, <2>2, EmptyFormed DEF TodoTyped
<1>5. ASSUME NEW a \in Activities(e), Skips(e, a) \/ Drops(e, a) \/ PutsLast(e, a) \/ MeetsEof(e, a)
             \/ \E k \in 1 .. Unread(e) : TakesLast(e, a, k)
      PROVE  TodoTyped(e)
  <2>1. \/ todo[e][a] # <<>> /\ todo'[e] = [todo[e] EXCEPT ![a] = Tail(todo[e][a])]
        \/ todo'[e] = [todo[e] EXCEPT ![a] = <<>>]
    BY <1>5 DEF Skips, Drops, PutsLast, Puts, MeetsEof, TakesLast, Takes
  <2> QED BY <1>1, <1>2, <2>1, WellFormedNow
<1>6. ASSUME NEW a \in Activities(e), NEW k \in 1 .. Len(Data(e, a)), PutsSome(e, a, k)
      PROVE  TodoTyped(e)
  <2> DEFINE d == SubSeq(Data(e, a), k + 1, Len(Data(e, a)))
  <2>1. todo[e][a] # <<>> /\ todo[e][a][1].do # "full" /\ todo'[e] = [todo[e] EXCEPT ![a] = With(todo[e][a], d)]
    BY <1>6 DEF PutsSome, Puts, Writing
  <2>2. d \in Seq(Byte)
    <3>1. k \in 0 .. Len(Data(e, a))
      BY <1>1, <2>1, DataType
    <3> QED BY <1>1, <2>1, <3>1, PutType
  <2> HIDE DEF d
  <2>3. WellFormed(e, With(todo[e][a], d), a)
    BY <1>1, <2>1, <2>2, WithFormed, WellFormedNow DEF WellFormed
  <2> QED BY <1>2, <2>1, <2>3
<1>7. ASSUME NEW a \in Activities(e), NEW k \in 1 .. Unread(e), TakesSome(e, a, k)
      PROVE  TodoTyped(e)
  <2> DEFINE d == Data(e, a) \o Chunk(e, k)
  <2>1. todo[e][a] # <<>> /\ todo'[e] = [todo[e] EXCEPT ![a] = With(todo[e][a], d)]
        /\ (todo[e][a][1].do = "full" => Len(Data(e, a)) + k < Want)
    BY <1>7 DEF TakesSome, Takes
  <2>2. d \in Seq(Byte) /\ Len(d) = Len(Data(e, a)) + k
    <3>1. Data(e, a) \in Seq(Byte)
      BY <1>1, <2>1, DataType
    <3>2. Chunk(e, k) \in Seq(Byte) /\ Len(Chunk(e, k)) = k
      BY <1>1, ChunkType
    <3> QED BY <3>1, <3>2, ConcatProperties
  <2> HIDE DEF d
  <2>3. WellFormed(e, With(todo[e][a], d), a)
    BY <1>1, <2>1, <2>2, WithFormed, WellFormedNow DEF WellFormed
  <2> QED BY <1>2, <2>1, <2>3
<1>8. ASSUME NEW a \in Activities(e), NEW k \in 1 .. Unread(e), TakesEcho(e, a, k)
      PROVE  TodoTyped(e)
  <2>1. todo[e][a] # <<>> /\ todo[e][a][1].do = "echoRecv" /\ socket[e] # "closed"
    BY <1>8 DEF TakesEcho, Takes, Connected
  <2>2. 2 \in Activities(e) /\ todo[e][2] # <<>> /\ todo[e][2][1].do = "echoSend"
    <3>1. pair[e] \in {"echoServer", "echoServerAsync"}
      BY <1>1, <2>1, EchoRecvAt
    <3> QED BY <1>1, <2>1, <3>1, EchoSendAt DEF StreamsInv
  <2> DEFINE d == Data(e, 2) \o Chunk(e, k)
  <2>3. todo'[e] = [todo[e] EXCEPT ![2] = With(todo[e][2], d)]
    BY <1>8 DEF TakesEcho, Data
  <2>4. d \in Seq(Byte)
    BY <1>1, <2>2, DataType, ChunkType, ConcatProperties
  <2> HIDE DEF d
  <2>5. WellFormed(e, With(todo[e][2], d), 2)
    BY <1>1, <2>2, <2>4, WithFormed, WellFormedNow DEF WellFormed
  <2> QED BY <1>2, <2>2, <2>3, <2>5
<1> QED BY <1>3, <1>4, <1>5, <1>6, <1>7, <1>8 DEF Local

(***************************************************************************)
(* Every step keeps the types.                                             *)
(***************************************************************************)
\* A stream only grows, and only its own end writes it.
Grown(e) == \E t \in Seq(Byte) : out'[e] = out[e] \o t

LEMMA GrownNext ==
  ASSUME Typed, NEW e \in Ends, Local(e)
  PROVE  Grown(e)
<1>1. out[e] \in Seq(Byte) /\ <<>> \in Seq(Byte) /\ out[e] \o <<>> = out[e]
  <2>1. out[e] \in Seq(Byte)
    BY DEF Typed
  <2> QED BY <2>1, ConcatEmptySeq
<1>2. out'[e] = out[e] => Grown(e)
  BY <1>1 DEF Grown
<1>3. ASSUME NEW a \in Activities(e), NEW k, k \in 0 .. Len(Data(e, a)), Puts(e, a, k)
      PROVE  Grown(e)
  <2>1. SubSeq(Data(e, a), 1, k) \in Seq(Byte)
    BY <1>3, PutType DEF Puts
  <2> QED BY <1>3, <2>1 DEF Puts, Grown
<1>4. ASSUME NEW a \in Activities(e), PutsLast(e, a)
      PROVE  Grown(e)
  <2>1. Len(Data(e, a)) \in 0 .. Len(Data(e, a))
    BY <1>4, DataType DEF PutsLast, Puts
  <2> QED BY <1>3, <1>4, <2>1 DEF PutsLast
<1>5. ASSUME NEW a \in Activities(e), NEW k \in 1 .. Len(Data(e, a)), PutsSome(e, a, k)
      PROVE  Grown(e)
  <2>1. k \in 0 .. Len(Data(e, a))
    BY <1>5, DataType DEF PutsSome, Puts
  <2> QED BY <1>3, <1>5, <2>1 DEF PutsSome
<1>6. CASE Stays(e) \/ Clears(e)
  BY <1>2, <1>6 DEF Stays, Clears, Quiet
<1>7. ASSUME NEW a \in Activities(e), Skips(e, a) \/ Drops(e, a) \/ MeetsEof(e, a)
      PROVE  Grown(e)
  BY <1>2, <1>7 DEF Skips, Drops, MeetsEof, Quiet
<1>8. ASSUME NEW a \in Activities(e), NEW k \in 1 .. Unread(e), TakesLast(e, a, k) \/ TakesSome(e, a, k) \/ TakesEcho(e, a, k)
      PROVE  Grown(e)
  BY <1>2, <1>8 DEF TakesLast, TakesSome, TakesEcho, Takes
<1> QED BY <1>4, <1>5, <1>6, <1>7, <1>8 DEF Local

\* What is read stays read, and grows by what is taken.
LEMMA ReadStays ==
  ASSUME Typed, NEW e \in Ends, Grown(Other(e)), taken'[e] = taken[e]
  PROVE  Read(e)' = Read(e)
<1>1. PICK t \in Seq(Byte) : out'[Other(e)] = out[Other(e)] \o t
  BY DEF Grown
<1>2. out[Other(e)] \in Seq(Byte) /\ taken[e] \in 0 .. Len(out[Other(e)])
  BY EndsOf, LenProperties DEF Typed
<1>3. SubSeq(out[Other(e)] \o t, 1, taken[e]) = SubSeq(out[Other(e)], 1, taken[e])
  BY <1>2, CutGrown
<1> QED BY <1>1, <1>3 DEF Read

LEMMA ReadGrows ==
  ASSUME Typed, NEW e \in Ends, Grown(Other(e)), NEW k \in 1 .. Unread(e), taken'[e] = taken[e] + k
  PROVE  Read(e)' = Read(e) \o Chunk(e, k)
<1>1. PICK t \in Seq(Byte) : out'[Other(e)] = out[Other(e)] \o t
  BY DEF Grown
<1>2. out[Other(e)] \in Seq(Byte)
  BY EndsOf DEF Typed
<1>3. /\ taken[e] + k \in 0 .. Len(out[Other(e)])
      /\ SubSeq(out[Other(e)], 1, taken[e] + k) = Read(e) \o Chunk(e, k)
  BY ChunkType
<1>4. SubSeq(out[Other(e)] \o t, 1, taken[e] + k) = SubSeq(out[Other(e)], 1, taken[e] + k)
  BY <1>2, <1>3, CutGrown
<1>5. Read(e)' = SubSeq(out'[Other(e)], 1, taken'[e])
  BY DEF Read
<1> QED BY <1>1, <1>3, <1>4, <1>5

\* The variables keep their shapes.
Shaped ==
  /\ pair' = pair /\ cut' \in BOOLEAN /\ (cut => cut')
  /\ fin' \in [Ends -> BOOLEAN] /\ (\A e \in Ends : fin[e] => fin'[e])
  /\ socket' \in [Ends -> {"new", "open", "half", "closed"}]
  /\ DOMAIN out' = Ends /\ out' = [e \in Ends |-> out'[e]]
  /\ DOMAIN taken' = Ends /\ taken' = [e \in Ends |-> taken'[e]]
  /\ DOMAIN done' = Ends /\ done' = [e \in Ends |-> done'[e]]
  /\ DOMAIN todo' = Ends /\ todo' = [e \in Ends |-> todo'[e]]

LEMMA CloseShape ==
  ASSUME Typed, NEW e \in Ends, Close(e)
  PROVE  /\ cut' \in BOOLEAN /\ (cut => cut')
         /\ fin' \in [Ends -> BOOLEAN] /\ (\A f \in Ends : fin[f] => fin'[f])
         /\ socket' \in [Ends -> {"new", "open", "half", "closed"}]
<1>1. cut \in BOOLEAN /\ cut' = (cut \/ (Connected(e) /\ Unread(e) > 0))
  BY DEF Typed, Close
<1>2. cut' \in BOOLEAN /\ (cut => cut')
  BY <1>1, Zenon
<1>3. PICK b \in BOOLEAN : fin' = [fin EXCEPT ![e] = fin[e] \/ b]
  BY DEF Typed, Close
<1>4. fin' \in [Ends -> BOOLEAN] /\ (\A f \in Ends : fin[f] => fin'[f])
  BY <1>3 DEF Typed
<1>5. socket' \in [Ends -> {"new", "open", "half", "closed"}]
  BY DEF Typed, Close
<1> QED BY <1>2, <1>4, <1>5

LEMMA ErrorShape ==
  ASSUME Typed, NEW e \in Ends, NEW a \in Activities(e), Error(e, a), UNCHANGED <<pair, out, taken, done>>
  PROVE  Shaped
<1>1. DOMAIN todo' = Ends /\ todo' = [f \in Ends |-> todo'[f]]
  BY DEF Typed, Error
<1>2. CASE UNCHANGED <<socket, fin, cut>>
  BY <1>1, <1>2 DEF Typed, Shaped
<1>3. CASE Close(e)
  BY <1>1, <1>3, CloseShape DEF Typed, Shaped
<1> QED BY <1>2, <1>3 DEF Error

LEMMA ShapedNext ==
  ASSUME Typed, [Next]_vars
  PROVE  Shaped
<1>1. CASE Establish \/ Reset \/ UNCHANGED vars
  BY <1>1 DEF Typed, Shaped, Establish, Reset, vars
<1>2. ASSUME NEW e \in Ends, Refuse(e)
      PROVE  Shaped
  BY <1>2 DEF Typed, Shaped, Refuse
<1>3. ASSUME NEW e \in Ends, Destroy(e) \/ Disconnect(e)
      PROVE  Shaped
  <2>1. DOMAIN todo' = Ends /\ todo' = [f \in Ends |-> todo'[f]] /\ UNCHANGED <<pair, out, taken, done>>
    BY <1>3 DEF Typed, Destroy, Disconnect
  <2>2. Close(e)
    BY <1>3 DEF Destroy, Disconnect
  <2> QED BY <2>1, <2>2, CloseShape DEF Typed, Shaped
<1>4. ASSUME NEW e \in Ends, NEW a \in Activities(e), WriteSome(e, a)
      PROVE  Shaped
  <2>1. /\ pair' = pair /\ socket' = socket /\ taken' = taken /\ fin' = fin /\ done' = done
        /\ ~cut /\ cut' = (socket[Other(e)] = "closed")
    BY <1>4 DEF WriteSome
  <2>2. DOMAIN out' = Ends /\ out' = [f \in Ends |-> out'[f]] /\ DOMAIN todo' = Ends /\ todo' = [f \in Ends |-> todo'[f]]
    BY <1>4 DEF WriteSome, Complete, Keep, Typed
  <2>3. cut' \in BOOLEAN
    BY <2>1
  <2> QED BY <2>1, <2>2, <2>3 DEF Shaped, Typed
<1>5. ASSUME NEW e \in Ends, NEW a \in Activities(e), ShutdownSend(e, a)
      PROVE  Shaped
  BY <1>5 DEF Typed, Shaped, ShutdownSend, Complete
<1>6. ASSUME NEW e \in Ends, NEW a \in Activities(e), ReadSome(e, a)
      PROVE  Shaped
  <2>1. UNCHANGED <<pair, socket, out, fin, cut>>
    BY <1>6 DEF ReadSome
  <2>2. /\ DOMAIN taken' = Ends /\ taken' = [f \in Ends |-> taken'[f]]
        /\ DOMAIN done' = Ends /\ done' = [f \in Ends |-> done'[f]]
        /\ DOMAIN todo' = Ends /\ todo' = [f \in Ends |-> todo'[f]]
    BY <1>6 DEF ReadSome, Finish, Complete, Keep, Typed
  <2> QED BY <2>1, <2>2 DEF Shaped, Typed
<1>7. ASSUME NEW e \in Ends, NEW a \in Activities(e), ReadEof(e, a)
      PROVE  Shaped
  <2>1. CASE Finish(e, a, Data(e, a)) /\ UNCHANGED <<socket, fin, cut>>
    BY <1>7, <2>1 DEF Typed, Shaped, ReadEof, Finish, Complete
  <2>2. CASE Error(e, a) /\ UNCHANGED done
    BY <1>7, <2>2, ErrorShape DEF ReadEof
  <2> QED BY <1>7, <2>1, <2>2 DEF ReadEof
<1>8. ASSUME NEW e \in Ends, NEW a \in Activities(e), Fails(e, a)
      PROVE  Shaped
  BY <1>8, ErrorShape DEF Fails
<1> QED BY <1>1, <1>2, <1>3, <1>4, <1>5, <1>6, <1>7, <1>8 DEF Next, Progress

\* The counts and the streams.
LEMMA StreamsNext ==
  ASSUME Typed, NEW e \in Ends, Local(e), Grown(e), Grown(Other(e))
  PROVE  /\ out'[e] \in Seq(Byte) /\ done'[e] \in Seq(Seq(Byte))
         /\ taken'[e] \in Nat /\ taken'[e] <= Len(out'[Other(e)])
<1>1. out[e] \in Seq(Byte) /\ out[Other(e)] \in Seq(Byte) /\ done[e] \in Seq(Seq(Byte)) /\ taken[e] \in Nat /\ taken[e] <= Len(out[Other(e)])
  BY EndsOf DEF Typed
<1>2. out'[e] \in Seq(Byte)
  BY <1>1, ConcatProperties DEF Grown
<1>3. Len(out'[Other(e)]) \in Nat /\ Len(out'[Other(e)]) >= Len(out[Other(e)]) /\ Len(out[Other(e)]) \in Nat
  <2>1. PICK t \in Seq(Byte) : out'[Other(e)] = out[Other(e)] \o t
    BY DEF Grown
  <2> QED BY <1>1, <2>1, ConcatProperties, LenProperties
<1>4. taken'[e] = taken[e] \/ \E k \in 1 .. Unread(e) : taken'[e] = taken[e] + k
  BY DEF Local, Stays, Clears, Quiet, Skips, Drops, PutsLast, PutsSome, Puts, MeetsEof, TakesLast, TakesSome, TakesEcho, Takes
<1>5. taken'[e] \in Nat /\ taken'[e] <= Len(out'[Other(e)])
  BY <1>1, <1>3, <1>4 DEF Unread
<1>6. done'[e] = done[e] \/ \E x \in Seq(Byte) : done'[e] = Append(done[e], x)
  <2>1. ASSUME NEW a \in Activities(e), NEW k \in 1 .. Unread(e), TakesLast(e, a, k)
        PROVE  \E x \in Seq(Byte) : done'[e] = Append(done[e], x)
    <3>1. Data(e, a) \in Seq(Byte) /\ Chunk(e, k) \in Seq(Byte)
      BY <2>1, DataType, ChunkType DEF TakesLast, Takes
    <3>2. Data(e, a) \o Chunk(e, k) \in Seq(Byte)
      BY <3>1, ConcatProperties
    <3> QED BY <2>1, <3>2 DEF TakesLast
  <2>2. ASSUME NEW a \in Activities(e), MeetsEof(e, a)
        PROVE  \E x \in Seq(Byte) : done'[e] = Append(done[e], x)
    <3>1. Data(e, a) \in Seq(Byte)
      BY <2>2, DataType DEF MeetsEof
    <3> QED BY <2>2, <3>1 DEF MeetsEof
  <2> QED BY <2>1, <2>2 DEF Local, Stays, Clears, Quiet, Skips, Drops, PutsLast, PutsSome, Puts, TakesSome, TakesEcho
<1>7. done'[e] \in Seq(Seq(Byte))
  <2> DEFINE Q == Seq(Byte)
  <2>1. done[e] \in Seq(Q) /\ (done'[e] = done[e] \/ \E x \in Q : done'[e] = Append(done[e], x))
    BY <1>1, <1>6
  <2> HIDE DEF Q
  <2>2. done'[e] \in Seq(Q)
    BY <2>1, AppendProperties
  <2> QED BY <2>2 DEF Q
<1> QED BY <1>2, <1>5, <1>7

LEMMA TypedNext ==
  ASSUME StreamsInv, [Next]_vars
  PROVE  Typed'
<1>1. Typed /\ Shaped
  BY ShapedNext DEF StreamsInv
<1>2. \A e \in Ends : Local(e) /\ Grown(e) /\ Grown(Other(e))
  BY <1>1, LocalNext, GrownNext, EndsOf
<1>3. \A e \in Ends : TodoTyped(e)
  BY <1>2, TodoNext
<1>4. \A e \in Ends : /\ out'[e] \in Seq(Byte) /\ done'[e] \in Seq(Seq(Byte))
                      /\ taken'[e] \in Nat /\ taken'[e] <= Len(out'[Other(e)])
  BY <1>1, <1>2, StreamsNext
<1>5. out' \in [Ends -> Seq(Byte)] /\ done' \in [Ends -> Seq(Seq(Byte))] /\ taken' \in [Ends -> Nat]
      /\ \A e \in Ends : taken'[e] <= Len(out'[Other(e)])
  BY <1>1, <1>4 DEF Shaped
<1>6. todo' \in [Ends -> Seq(Ops)]
  BY <1>1, <1>3 DEF Shaped, TodoTyped
<1>7. \A e \in Ends : Len(todo'[e]) = Len(P(e).activities)
  BY <1>1, <1>3 DEF TodoTyped, Typed
<1>8. \A e \in Ends : P(e)' = P(e)
  BY <1>1 DEF Shaped, P
<1>9. \A e \in Ends : \A a \in Activities(e)' : Formed(todo'[e][a]) /\ Uses(todo'[e][a], KindsOf(pair'[e], a))
  BY <1>1, <1>3 DEF TodoTyped, Activities, Shaped
<1>10. pair' \in Pairs /\ cut' \in BOOLEAN /\ fin' \in [Ends -> BOOLEAN] /\ socket' \in [Ends -> {"new", "open", "half", "closed"}]
  BY <1>1 DEF Shaped, Typed
<1> QED BY <1>5, <1>6, <1>7, <1>8, <1>9, <1>10 DEF Typed, Formed, Waiting, Fitting, Once, SendsFirst, Uses

LEMMA ClosedNext ==
  ASSUME Typed, NEW e \in Ends, Closed(e), Local(e), SocketStep(e)
  PROVE  Closed(e)' /\ (socket'[e] # "closed" => socket[e] # "closed")
<1>1. CASE socket'[e] # socket[e]
  BY <1>1 DEF SocketStep, Closed, Activities
<1>2. CASE socket'[e] = socket[e] /\ socket[e] = "closed"
  <2>1. \A a \in Activities(e) : todo[e][a] = <<>>
    BY <1>2 DEF Closed
  <2>2. Stays(e) \/ Clears(e) \/ \E a \in Activities(e) : Drops(e, a)
    BY <1>2, <2>1 DEF Local, Skips, PutsLast, PutsSome, Puts, MeetsEof, TakesLast, TakesSome, TakesEcho, Takes
  <2>3. \A a \in DOMAIN todo'[e] : todo'[e][a] = <<>>
    BY <2>1, <2>2 DEF Stays, Clears, Drops, Activities
  <2> QED BY <1>2, <2>3 DEF Closed, Activities
<1> QED BY <1>1, <1>2 DEF Closed

(***************************************************************************)
(* Reads one at a time.                                                    *)
(***************************************************************************)
\* One activity changes.
Sets(e, a, ops) == todo'[e] = [todo[e] EXCEPT ![a] = ops]

LEMMA Changed ==
  ASSUME Typed, NEW e \in Ends, NEW a \in Activities(e), NEW ops, Sets(e, a, ops)
  PROVE  todo'[e][a] = ops /\ DOMAIN todo'[e] = Activities(e) /\ \A b \in Activities(e) : b # a => todo'[e][b] = todo[e][b]
BY DEF Typed, Activities, Sets

\* What an operation in front holds.
LEMMA HoldsType ==
  ASSUME NEW ops \in Ops, NEW kinds
  PROVE  Holds(ops, kinds) \in Seq(Byte)
<1>1. ops # <<>> => ops[1] \in OpRecord
  BY DEF Ops
<1>2. <<>> \in Seq(Byte)
  OBVIOUS
<1> QED BY <1>1, <1>2 DEF Holds, OpRecord

LEMMA HoldsTail ==
  ASSUME NEW ops \in Ops, ops # <<>>, Formed(ops), NEW kinds, "write" \notin kinds
  PROVE  Holds(Tail(ops), kinds) = <<>>
<1> DEFINE all == {ops[i].do : i \in DOMAIN ops}
<1>1. Uses(ops, all)
  BY DEF Uses
<1> HIDE DEF all
<1>2. Tail(ops) # <<>> => Tail(ops)[1].do = "write" \/ Tail(ops)[1].data = <<>>
  BY <1>1, TailFormed
<1> QED BY <1>2 DEF Holds

LEMMA HoldsWith ==
  ASSUME NEW ops \in Ops, ops # <<>>, NEW data \in Seq(Byte), NEW kinds
  PROVE  Holds(With(ops, data), kinds) = IF ops[1].do \in kinds THEN data ELSE <<>>
BY WithShape DEF Holds

\* An activity with none of the kinds holds nothing.
LEMMA HoldsNone ==
  ASSUME Typed, NEW e \in Ends, NEW a \in Activities(e), NEW kinds, KindsOf(pair[e], a) \cap kinds = {}
  PROVE  Holds(todo[e][a], kinds) = <<>>
BY FrontKind DEF Holds

LEMMA PairStep ==
  ASSUME Typed, Shaped, NEW e \in Ends
  PROVE  /\ pair'[e] = pair[e] /\ (Echoes(e)' <=> Echoes(e)) /\ Writes(e)' = Writes(e) /\ P(e)' = P(e)
         /\ Reader(e)' = Reader(e) /\ Writer(e)' = Writer(e) /\ Echoer(e)' = Echoer(e)
         /\ Promised(e)' = Promised(e)
<1>1. pair' = pair
  BY DEF Shaped
<1> QED BY <1>1 DEF Echoes, Writes, P, Reader, Writer, Echoer, Promised

LEMMA EchoesNames ==
  ASSUME Typed, NEW e \in Ends
  PROVE  /\ Echoes(e) <=> pair[e] \in EchoNames
         /\ ~Echoes(e) => pair[e] \in Names \ EchoNames
         /\ Reader(e) = ReaderOf(pair[e]) /\ Writer(e) = WriterOf(pair[e])
BY ActivitiesAre DEF Echoes, EchoNames, Reader, Writer, ReaderOf, WriterOf

LEMMA ActivityErrors ==
  ASSUME Typed, NEW e \in Ends, P(e).onError = "activity"
  PROVE  pair[e] \in {"asyncReadFromSocket", "asyncWriteToSocket"}
BY ActivitiesAre, OnErrorOf DEF P

\* The reader and the writer are activities of their program.
LEMMA ReaderThere ==
  ASSUME Typed, NEW e \in Ends
  PROVE  Reader(e) \in Activities(e) /\ Writer(e) \in Activities(e)
<1>1. pair[e] \in {"readwritesocket", "echoClient", "echoClientAsync", "httpGet"} => Len(P(e).activities) = 2
  <2>1. \A x, y : Len(<<x, y>>) = 2
    OBVIOUS
  <2>2. /\ Len(Programs["readwritesocket"].activities) = 2 /\ Len(Programs["echoClient"].activities) = 2
        /\ Len(Programs["echoClientAsync"].activities) = 2 /\ Len(Programs["httpGet"].activities) = 2
    BY <2>1, ActivitiesOf, Zenon
  <2> QED BY <2>2 DEF P
<1>2. 1 \in Activities(e) /\ Activities(e) = 1 .. Len(P(e).activities)
  BY ActivitiesAre DEF Typed
<1> QED BY <1>1, <1>2 DEF Reader, Writer

\* What the reader holds when an activity without reads goes on.
LEMMA ReadsNext ==
  ASSUME Typed, Shaped, NEW e \in Ends, Local(e), Grown(Other(e)), ReadsInv(e),
         socket'[e] # "closed" => socket[e] # "closed"
  PROVE  ReadsInv(e)'
<1> SUFFICES ASSUME ~Echoes(e), pair[e] # "asyncReadFromSocket", socket'[e] # "closed"
             PROVE  FlattenSeq(done'[e]) \o Holds(todo'[e][Reader(e)], MessageKinds) = Read(e)'
  BY PairStep DEF ReadsInv
<1>1. FlattenSeq(done[e]) \o Holds(todo[e][Reader(e)], MessageKinds) = Read(e)
  BY DEF ReadsInv
<1>2. Reader(e) \in Activities(e) /\ todo[e][Reader(e)] \in Ops /\ Formed(todo[e][Reader(e)]) /\ done[e] \in Seq(Seq(Byte))
  BY ReaderThere, ActivitiesAre DEF Typed
<1>3. /\ pair[e] \in Names \ EchoNames /\ Reader(e) = ReaderOf(pair[e])
      /\ \A a \in Activities(e) : /\ KindsOf(pair[e], a) \cap {"echo", "echoRecv", "echoSend"} = {}
                                  /\ a # Reader(e) => KindsOf(pair[e], a) \cap MessageKinds = {}
  BY EchoesNames, ActivitiesAre, NoEcho, OneReader DEF P
<1>4. ASSUME NEW a \in Activities(e), todo[e][a] # <<>>
      PROVE  /\ todo[e][a] \in Ops /\ Formed(todo[e][a]) /\ todo[e][a][1].do \notin {"echo", "echoRecv", "echoSend"}
             /\ todo[e][a][1].do \in MessageKinds => a = Reader(e)
             /\ Holds(Tail(todo[e][a]), MessageKinds) = <<>>
  <2>1. todo[e][a] \in Ops /\ Formed(todo[e][a])
    BY ActivitiesAre DEF Typed
  <2>2. Holds(Tail(todo[e][a]), MessageKinds) = <<>>
    BY <1>4, <2>1, HoldsTail DEF MessageKinds
  <2> QED BY <1>3, <1>4, <2>1, <2>2, FrontKind
<1>5. ASSUME done'[e] = done[e], taken'[e] = taken[e],
             Holds(todo'[e][Reader(e)], MessageKinds) = Holds(todo[e][Reader(e)], MessageKinds)
      PROVE  FlattenSeq(done'[e]) \o Holds(todo'[e][Reader(e)], MessageKinds) = Read(e)'
  BY <1>1, <1>5, ReadStays
<1>6. CASE Stays(e)
  BY <1>5, <1>6 DEF Stays, Quiet
<1>7. ASSUME NEW a \in Activities(e), Skips(e, a)
      PROVE  Holds(todo'[e][Reader(e)], MessageKinds) = Holds(todo[e][Reader(e)], MessageKinds)
  <2>1. todo[e][a] # <<>> /\ todo[e][a][1].do \notin MessageKinds /\ Sets(e, a, Tail(todo[e][a]))
    BY <1>7 DEF Skips, MessageKinds, Sets
  <2>2. todo'[e][a] = Tail(todo[e][a]) /\ (Reader(e) # a => todo'[e][Reader(e)] = todo[e][Reader(e)])
    BY <1>2, <2>1, Changed
  <2> QED BY <1>4, <2>1, <2>2 DEF Holds
<1>8. ASSUME NEW a \in Activities(e), Drops(e, a)
      PROVE  Holds(todo'[e][Reader(e)], MessageKinds) = Holds(todo[e][Reader(e)], MessageKinds)
  <2>1. pair[e] = "asyncWriteToSocket" /\ Sets(e, a, <<>>)
    BY <1>8, ActivityErrors DEF Drops, Sets
  <2>2. KindsOf(pair[e], Reader(e)) \cap MessageKinds = {}
    BY <1>3, <2>1, KindsTable DEF Reader, MessageKinds
  <2>3. todo'[e][a] = <<>> /\ (Reader(e) # a => todo'[e][Reader(e)] = todo[e][Reader(e)])
    BY <1>2, <2>1, Changed
  <2>4. Holds(todo[e][Reader(e)], MessageKinds) = <<>> /\ Holds(<<>>, MessageKinds) = <<>>
    BY <1>2, <2>2, HoldsNone DEF Holds
  <2> QED BY <2>3, <2>4
<1>9. ASSUME NEW a \in Activities(e), PutsLast(e, a)
      PROVE  Holds(todo'[e][Reader(e)], MessageKinds) = Holds(todo[e][Reader(e)], MessageKinds)
  <2>1. todo[e][a] # <<>> /\ todo[e][a][1].do \notin MessageKinds /\ Sets(e, a, Tail(todo[e][a]))
    BY <1>9 DEF PutsLast, Puts, MessageKinds, Sets
  <2>2. todo'[e][a] = Tail(todo[e][a]) /\ (Reader(e) # a => todo'[e][Reader(e)] = todo[e][Reader(e)])
    BY <1>2, <2>1, Changed
  <2> QED BY <1>4, <2>1, <2>2 DEF Holds
<1>10. ASSUME NEW a \in Activities(e), NEW k \in 1 .. Len(Data(e, a)), PutsSome(e, a, k)
       PROVE  Holds(todo'[e][Reader(e)], MessageKinds) = Holds(todo[e][Reader(e)], MessageKinds)
  <2> DEFINE d == SubSeq(Data(e, a), k + 1, Len(Data(e, a)))
  <2>1. todo[e][a] # <<>> /\ todo[e][a][1].do \notin MessageKinds /\ Sets(e, a, With(todo[e][a], d))
    BY <1>10 DEF PutsSome, Puts, MessageKinds, Writing, Sets
  <2>2. k \in 0 .. Len(Data(e, a))
    BY <2>1, DataType
  <2>3. d \in Seq(Byte)
    BY <2>1, <2>2, PutType
  <2> HIDE DEF d
  <2>4. todo'[e][a] = With(todo[e][a], d) /\ (Reader(e) # a => todo'[e][Reader(e)] = todo[e][Reader(e)])
    BY <1>2, <2>1, Changed
  <2>5. Holds(With(todo[e][a], d), MessageKinds) = <<>>
    BY <1>4, <2>1, <2>3, HoldsWith
  <2> QED BY <2>1, <2>4, <2>5 DEF Holds
<1>11. ASSUME NEW a \in Activities(e), NEW k \in 1 .. Unread(e), TakesLast(e, a, k)
       PROVE  FlattenSeq(done'[e]) \o Holds(todo'[e][Reader(e)], MessageKinds) = Read(e)'
  <2>1. /\ todo[e][a] # <<>> /\ todo[e][a][1].do \in MessageKinds /\ Sets(e, a, Tail(todo[e][a]))
        /\ done'[e] = Append(done[e], Data(e, a) \o Chunk(e, k)) /\ taken'[e] = taken[e] + k
    BY <1>11 DEF TakesLast, Takes, MessageKinds, Sets
  <2>2. a = Reader(e)
    BY <1>4, <2>1
  <2>3. todo'[e][a] = Tail(todo[e][a]) /\ Holds(todo'[e][a], MessageKinds) = <<>>
    BY <1>4, <2>1, Changed
  <2>4. Data(e, a) \in Seq(Byte) /\ Chunk(e, k) \in Seq(Byte) /\ Holds(todo[e][a], MessageKinds) = Data(e, a)
    BY <2>1, DataType, ChunkType DEF Holds, Data
  <2>5. Read(e)' = Read(e) \o Chunk(e, k)
    BY <2>1, ReadGrows
  <2> DEFINE d == Data(e, a)  c == Chunk(e, k)  f == FlattenSeq(done[e])
  <2>6. f \in Seq(Byte) /\ d \in Seq(Byte) /\ c \in Seq(Byte) /\ FlattenSeq(done'[e]) = f \o (d \o c)
    <3>1. d \o c \in Seq(Byte) /\ f \in Seq(Byte)
      BY <1>2, <2>4, ConcatProperties, FlattenType
    <3>2. FlattenSeq(Append(done[e], d \o c)) = f \o (d \o c)
      BY <1>2, <3>1, FlattenAppend
    <3>3. done'[e] = Append(done[e], d \o c)
      BY <2>1
    <3> QED BY <2>4, <3>1, <3>2, <3>3
  <2>7. f \o d = Read(e)
    BY <1>1, <2>2, <2>4
  <2> HIDE DEF d, c, f
  <2>8. f \o (d \o c) = (f \o d) \o c /\ f \o (d \o c) \in Seq(Byte)
    <3>1. f \in Seq(Byte) /\ d \in Seq(Byte) /\ c \in Seq(Byte)
      BY <2>6
    <3>2. d \o c \in Seq(Byte)
      BY <3>1, Joined
    <3>3. f \o (d \o c) = (f \o d) \o c
      BY <3>1, Joined
    <3>4. f \o (d \o c) \in Seq(Byte)
      BY <3>1, <3>2, Joined
    <3> QED BY <3>3, <3>4
  <2>9. FlattenSeq(done'[e]) = Read(e)' /\ FlattenSeq(done'[e]) \in Seq(Byte)
    BY <2>5, <2>6, <2>7, <2>8 DEF c
  <2> QED BY <2>2, <2>3, <2>9, ConcatEmptySeq
<1>12. ASSUME NEW a \in Activities(e), NEW k \in 1 .. Unread(e), TakesSome(e, a, k)
       PROVE  FlattenSeq(done'[e]) \o Holds(todo'[e][Reader(e)], MessageKinds) = Read(e)'
  <2> DEFINE d == Data(e, a)  c == Chunk(e, k)  f == FlattenSeq(done[e])
  <2>1. /\ todo[e][a] # <<>> /\ todo[e][a][1].do \in MessageKinds \cup {"echo"}
        /\ Sets(e, a, With(todo[e][a], d \o c))
        /\ done'[e] = done[e] /\ taken'[e] = taken[e] + k
    BY <1>12 DEF TakesSome, Takes, MessageKinds, Sets
  <2>2. a = Reader(e) /\ todo[e][a][1].do \in MessageKinds
    BY <1>4, <2>1
  <2>3. todo'[e][a] = With(todo[e][a], d \o c)
    BY <2>1, Changed
  <2>4. d \in Seq(Byte) /\ c \in Seq(Byte) /\ f \in Seq(Byte) /\ Holds(todo[e][a], MessageKinds) = d
    BY <1>2, <2>1, <2>2, DataType, ChunkType, FlattenType DEF Holds, Data
  <2>5. Read(e)' = Read(e) \o c
    BY <2>1, ReadGrows
  <2>6. f \o d = Read(e)
    BY <1>1, <2>2, <2>4
  <2>7. FlattenSeq(done'[e]) = f
    BY <2>1
  <2> HIDE DEF d, c, f
  <2>8. f \o (d \o c) = (f \o d) \o c /\ d \o c \in Seq(Byte)
    <3>1. f \in Seq(Byte) /\ d \in Seq(Byte) /\ c \in Seq(Byte)
      BY <2>4
    <3>2. d \o c \in Seq(Byte)
      BY <3>1, Joined
    <3>3. f \o (d \o c) = (f \o d) \o c
      BY <3>1, Joined
    <3> QED BY <3>2, <3>3
  <2>9. Holds(With(todo[e][a], d \o c), MessageKinds) = d \o c
    BY <1>4, <2>1, <2>2, <2>8, HoldsWith
  <2> QED BY <2>2, <2>3, <2>5, <2>6, <2>7, <2>8, <2>9
<1>13. ASSUME NEW a \in Activities(e), MeetsEof(e, a)
       PROVE  FlattenSeq(done'[e]) \o Holds(todo'[e][Reader(e)], MessageKinds) = Read(e)'
  <2>1. /\ todo[e][a] # <<>> /\ todo[e][a][1].do \in MessageKinds /\ Sets(e, a, Tail(todo[e][a]))
        /\ done'[e] = Append(done[e], Data(e, a)) /\ taken'[e] = taken[e]
    BY <1>13 DEF MeetsEof, MessageKinds, Sets
  <2>2. a = Reader(e)
    BY <1>4, <2>1
  <2>3. todo'[e][a] = Tail(todo[e][a]) /\ Holds(todo'[e][a], MessageKinds) = <<>>
    BY <1>4, <2>1, Changed
  <2>4. Data(e, a) \in Seq(Byte) /\ Holds(todo[e][a], MessageKinds) = Data(e, a)
    BY <2>1, DataType DEF Holds, Data
  <2>5. Read(e)' = Read(e)
    BY <2>1, ReadStays
  <2>6. FlattenSeq(done'[e]) = Read(e)'
    <3>1. FlattenSeq(Append(done[e], Data(e, a))) = FlattenSeq(done[e]) \o Data(e, a)
      BY <1>2, <2>4, FlattenAppend
    <3>2. done'[e] = Append(done[e], Data(e, a)) /\ FlattenSeq(done[e]) \o Data(e, a) = Read(e)
      BY <1>1, <2>1, <2>2, <2>4
    <3> QED BY <2>5, <3>1, <3>2
  <2>7. Read(e) \in Seq(Byte)
    BY ReadType
  <2> QED BY <2>2, <2>3, <2>5, <2>6, <2>7, ConcatEmptySeq
<1>14. ASSUME NEW a \in Activities(e), NEW k \in 1 .. Unread(e), TakesEcho(e, a, k)
       PROVE  FALSE
  BY <1>4, <1>14 DEF TakesEcho, Takes
<1>15. ~Clears(e)
  BY DEF Clears
<1>16. ASSUME NEW a \in Activities(e), Skips(e, a) \/ Drops(e, a)
       PROVE  done'[e] = done[e] /\ taken'[e] = taken[e]
  BY <1>16 DEF Skips, Drops, Quiet
<1>17. ASSUME NEW a \in Activities(e), NEW k, PutsLast(e, a) \/ PutsSome(e, a, k)
       PROVE  done'[e] = done[e] /\ taken'[e] = taken[e]
  BY <1>17 DEF PutsLast, PutsSome, Puts
<1> QED BY <1>5, <1>6, <1>7, <1>8, <1>9, <1>10, <1>11, <1>12, <1>13, <1>14, <1>15, <1>16, <1>17 DEF Local

(***************************************************************************)
(* Writes one at a time.                                                   *)
(***************************************************************************)
LEMMA WriteWith ==
  ASSUME NEW ops \in Ops, ops # <<>>, NEW data \in Seq(Byte)
  PROVE  WriteData(With(ops, data)) = (IF ops[1].do = "write" THEN data ELSE <<>>) \o WriteData(Tail(ops))
<1> DEFINE w == With(ops, data)
<1>1. w \in Ops /\ w # <<>> /\ w[1].do = ops[1].do /\ w[1].data = data /\ Tail(w) = Tail(ops)
  BY WithShape
<1> HIDE DEF w
<1>2. WriteData(w) = (IF w[1].do = "write" THEN w[1].data ELSE <<>>) \o WriteData(Tail(w))
  BY <1>1, WriteFront
<1>3. WriteData(w) = (IF ops[1].do = "write" THEN data ELSE <<>>) \o WriteData(Tail(ops))
  BY <1>1, <1>2
<1> QED BY <1>3 DEF w

\* An operation in front that is no write has nothing to write.
LEMMA WriteSkips ==
  ASSUME NEW ops \in Ops, ops # <<>>, ops[1].do # "write"
  PROVE  /\ WriteData(Tail(ops)) = WriteData(ops)
         /\ \A data \in Seq(Byte) : WriteData(With(ops, data)) = WriteData(ops)
<1>1. Tail(ops) \in Ops
  BY DEF Ops
<1>2. <<>> \o WriteData(Tail(ops)) = WriteData(Tail(ops))
  BY <1>1, WriteType, ConcatEmptySeq
<1>3. WriteData(ops) = WriteData(Tail(ops))
  BY <1>2, WriteFront
<1>4. \A data \in Seq(Byte) : WriteData(With(ops, data)) = WriteData(Tail(ops))
  BY <1>2, WriteWith
<1> QED BY <1>3, <1>4

LEMMA WriteNone ==
  ASSUME Typed, NEW e \in Ends, NEW a \in Activities(e), "write" \notin KindsOf(pair[e], a)
  PROVE  WriteData(todo[e][a]) = <<>>
<1>1. todo[e][a] \in Ops /\ \A i \in DOMAIN todo[e][a] : todo[e][a][i].do # "write"
  BY ActivitiesAre DEF Typed, Uses
<1> QED BY <1>1, WriteNothing

\* Operations that write nothing leave the rest to be written as it is.
LEMMA WriteQuiet ==
  ASSUME Typed, NEW e \in Ends, Local(e), NEW b \in Activities(e),
         socket'[e] # "closed", pair[e] \in Names \ EchoNames,
         ~ (PutsLast(e, b) \/ \E k \in 1 .. Len(Data(e, b)) : PutsSome(e, b, k)), ~Drops(e, b)
  PROVE  WriteData(todo'[e][b]) = WriteData(todo[e][b])
<1>1. ASSUME NEW a \in Activities(e), todo[e][a] # <<>>
      PROVE  todo[e][a] \in Ops /\ todo[e][a][1].do \notin {"echo", "echoRecv", "echoSend"}
  <2>1. KindsOf(pair[e], a) \cap {"echo", "echoRecv", "echoSend"} = {}
    BY ActivitiesAre, NoEcho DEF P
  <2> QED BY <1>1, <2>1, ActivitiesAre, FrontKind
<1>2. ASSUME NEW a \in Activities(e), NEW ops, Sets(e, a, ops), a = b => WriteData(ops) = WriteData(todo[e][a])
      PROVE  WriteData(todo'[e][b]) = WriteData(todo[e][b])
  <2>1. todo'[e][a] = ops /\ (b # a => todo'[e][b] = todo[e][b])
    BY <1>2, Changed
  <2> QED BY <1>2, <2>1
<1>3. CASE Stays(e)
  BY <1>3 DEF Stays
<1>4. ASSUME NEW a \in Activities(e), Skips(e, a) \/ MeetsEof(e, a) \/ \E k \in 1 .. Unread(e) : TakesLast(e, a, k)
      PROVE  WriteData(todo'[e][b]) = WriteData(todo[e][b])
  <2>1. todo[e][a] # <<>> /\ todo[e][a][1].do # "write" /\ Sets(e, a, Tail(todo[e][a]))
    BY <1>4 DEF Skips, MeetsEof, TakesLast, Takes, Sets
  <2>2. WriteData(Tail(todo[e][a])) = WriteData(todo[e][a])
    BY <1>1, <2>1, WriteSkips
  <2> QED BY <1>2, <2>1, <2>2
<1>5. ASSUME NEW a \in Activities(e), Drops(e, a)
      PROVE  WriteData(todo'[e][b]) = WriteData(todo[e][b])
  <2>1. Sets(e, a, <<>>) /\ a # b
    BY <1>5 DEF Drops, Sets
  <2> QED BY <1>2, <2>1
<1>6. ASSUME NEW a \in Activities(e), PutsLast(e, a)
      PROVE  WriteData(todo'[e][b]) = WriteData(todo[e][b])
  <2>1. Sets(e, a, Tail(todo[e][a]))
    BY <1>6 DEF PutsLast, Sets
  <2>2. a # b
    BY <1>6
  <2> QED BY <1>2, <2>1, <2>2
<1>7. ASSUME NEW a \in Activities(e), NEW k \in 1 .. Len(Data(e, a)), PutsSome(e, a, k)
      PROVE  WriteData(todo'[e][b]) = WriteData(todo[e][b])
  <2> DEFINE d == SubSeq(Data(e, a), k + 1, Len(Data(e, a)))
  <2>1. Sets(e, a, With(todo[e][a], d))
    BY <1>7 DEF PutsSome, Sets
  <2> HIDE DEF d
  <2>2. a # b
    BY <1>7
  <2> QED BY <1>2, <2>1, <2>2
<1>8. ASSUME NEW a \in Activities(e), NEW k \in 1 .. Unread(e), TakesSome(e, a, k)
      PROVE  WriteData(todo'[e][b]) = WriteData(todo[e][b])
  <2> DEFINE d == Data(e, a) \o Chunk(e, k)
  <2>1. todo[e][a] # <<>> /\ todo[e][a][1].do # "write" /\ Sets(e, a, With(todo[e][a], d))
    BY <1>8 DEF TakesSome, Takes, Sets
  <2>2. Data(e, a) \in Seq(Byte) /\ Chunk(e, k) \in Seq(Byte)
    BY <2>1, DataType, ChunkType
  <2>3. d \in Seq(Byte)
    BY <2>2, ConcatProperties
  <2> HIDE DEF d
  <2>4. WriteData(With(todo[e][a], d)) = WriteData(todo[e][a])
    BY <1>1, <2>1, <2>3, WriteSkips
  <2> QED BY <1>2, <2>1, <2>4
<1>9. ASSUME NEW a \in Activities(e), NEW k \in 1 .. Unread(e), TakesEcho(e, a, k)
      PROVE  FALSE
  BY <1>1, <1>9 DEF TakesEcho, Takes
<1>10. ~Clears(e)
  BY DEF Clears
<1> QED BY <1>3, <1>4, <1>5, <1>6, <1>7, <1>8, <1>9, <1>10 DEF Local

\* A write in front hands over its first bytes.
LEMMA WritePut ==
  ASSUME Typed, NEW e \in Ends, NEW a \in Activities(e), todo[e][a] # <<>>, todo[e][a][1].do = "write",
         PutsLast(e, a) \/ \E k \in 1 .. Len(Data(e, a)) : PutsSome(e, a, k)
  PROVE  \E t \in Seq(Byte) : out'[e] = out[e] \o t /\ WriteData(todo[e][a]) = t \o WriteData(todo'[e][a])
<1> DEFINE r == WriteData(Tail(todo[e][a]))  d == Data(e, a)
<1>1. d \in Seq(Byte) /\ Len(d) \in Nat /\ todo[e][a] \in Ops /\ Tail(todo[e][a]) \in Ops
  BY ActivitiesAre, DataType DEF Ops
<1>2. r \in Seq(Byte) /\ WriteData(todo[e][a]) = d \o r
  BY <1>1, WriteType, WriteFront DEF Data
<1>3. CASE PutsLast(e, a)
  <2>1. Sets(e, a, Tail(todo[e][a])) /\ out'[e] = out[e] \o SubSeq(d, 1, Len(d))
    BY <1>3 DEF PutsLast, Puts, Sets
  <2>2. todo'[e][a] = Tail(todo[e][a]) /\ SubSeq(d, 1, Len(d)) = d
    BY <1>1, <2>1, Changed, SubSeqFull
  <2> QED BY <1>1, <1>2, <2>1, <2>2
<1>4. ASSUME NEW k \in 1 .. Len(d), PutsSome(e, a, k)
      PROVE  \E t \in Seq(Byte) : out'[e] = out[e] \o t /\ WriteData(todo[e][a]) = t \o WriteData(todo'[e][a])
  <2> DEFINE s == SubSeq(d, 1, k)  u == SubSeq(d, k + 1, Len(d))
  <2>1. Sets(e, a, With(todo[e][a], u)) /\ out'[e] = out[e] \o s
    BY <1>4 DEF PutsSome, Puts, Sets
  <2>2. s \in Seq(Byte) /\ u \in Seq(Byte) /\ s \o u = d
    BY <1>1, Cut
  <2> HIDE DEF s, u
  <2>3. WriteData(todo'[e][a]) = u \o r
    <3>1. WriteData(With(todo[e][a], u)) = u \o r
      BY <1>1, <2>2, WriteWith
    <3>2. todo'[e][a] = With(todo[e][a], u)
      BY <2>1, Changed
    <3> QED BY <3>1, <3>2, Zenon
  <2> HIDE DEF r, d
  <2>4. (s \o u) \o r = s \o (u \o r)
    <3>1. s \in Seq(Byte) /\ u \in Seq(Byte) /\ r \in Seq(Byte)
      BY <1>2, <2>2
    <3> QED BY <3>1, Joined
  <2> QED BY <1>2, <2>1, <2>2, <2>3, <2>4
<1> QED BY <1>3, <1>4

LEMMA TodoAfter ==
  ASSUME Typed, NEW e \in Ends, NEW a \in Activities(e), TodoTyped(e)
  PROVE  /\ DOMAIN todo'[e] = Activities(e) /\ todo'[e][a] \in Ops
         /\ Formed(todo'[e][a]) /\ Uses(todo'[e][a], KindsOf(pair[e], a))
<1>1. Activities(e) = 1 .. Len(todo[e]) /\ todo'[e] \in Seq(Ops) /\ Len(todo'[e]) = Len(todo[e])
  BY ActivitiesAre DEF TodoTyped
<1>2. DOMAIN todo'[e] = 1 .. Len(todo[e]) /\ todo'[e][a] \in Ops
  BY <1>1, LenProperties, ElementOfSeq
<1> QED BY <1>1, <1>2 DEF TodoTyped

LEMMA WritesNext ==
  ASSUME Typed, Shaped, NEW e \in Ends, Local(e), WritesInv(e), TodoTyped(e),
         socket'[e] # "closed" => socket[e] # "closed"
  PROVE  WritesInv(e)'
<1> SUFFICES ASSUME ~Echoes(e), pair[e] # "asyncWriteToSocket"
             PROVE  /\ IsPrefix(out'[e], Writes(e))
                    /\ socket'[e] # "closed" => out'[e] \o WriteData(todo'[e][Writer(e)]) = Writes(e)
  BY PairStep DEF WritesInv
<1> DEFINE w == Writer(e)
<1>1. IsPrefix(out[e], Writes(e)) /\ (socket[e] # "closed" => out[e] \o WriteData(todo[e][w]) = Writes(e))
  BY DEF WritesInv
<1>2. /\ w \in Activities(e) /\ todo[e][w] \in Ops /\ todo'[e][w] \in Ops
      /\ out[e] \in Seq(Byte) /\ pair[e] \in Names \ EchoNames
  <2>1. w \in Activities(e)
    BY ReaderThere
  <2> QED BY <2>1, TodoAfter, ActivitiesAre, EchoesNames DEF Typed
<1>3. ASSUME NEW a \in Activities(e), a # w
      PROVE  "write" \notin KindsOf(pair[e], a)
  BY <1>2, <1>3, EchoesNames, ActivitiesAre, OneWriter DEF P
<1>4. ASSUME NEW a \in Activities(e), todo[e][a] # <<>>, todo[e][a][1].do \in Writing
      PROVE  a = w /\ todo[e][a][1].do = "write"
  <2>1. KindsOf(pair[e], a) \cap {"echo", "echoRecv", "echoSend"} = {}
    BY <1>2, ActivitiesAre, NoEcho DEF P
  <2> QED BY <1>3, <1>4, <2>1, FrontKind DEF Writing
<1>5. CASE PutsLast(e, w) \/ \E k \in 1 .. Len(Data(e, w)) : PutsSome(e, w, k)
  <2>1. todo[e][w] # <<>> /\ todo[e][w][1].do \in Writing /\ socket[e] # "closed"
    BY <1>5 DEF PutsLast, PutsSome, Puts, Connected
  <2>2. PICK t \in Seq(Byte) : out'[e] = out[e] \o t /\ WriteData(todo[e][w]) = t \o WriteData(todo'[e][w])
    BY <1>2, <1>4, <1>5, <2>1, WritePut
  <2> DEFINE r == WriteData(todo'[e][w])  o == out[e]
  <2>3. r \in Seq(Byte) /\ o \in Seq(Byte)
    BY <1>2, WriteType
  <2> HIDE DEF r, o
  <2>4. (o \o t) \o r = o \o (t \o r) /\ o \o t \in Seq(Byte)
    BY <2>3, Joined
  <2>5. out'[e] \o r = Writes(e) /\ out'[e] \in Seq(Byte)
    BY <1>1, <2>1, <2>2, <2>4 DEF r, o
  <2>6. IsPrefix(out'[e], Writes(e))
    <3>1. PICK x : x = out'[e]
      OBVIOUS
    <3>2. IsPrefix(x, x \o r)
      BY <2>3, <2>5, <3>1, PrefixConcat
    <3> QED BY <2>5, <3>1, <3>2
  <2> QED BY <2>5, <2>6 DEF r
<1>6. CASE ~ (PutsLast(e, w) \/ \E k \in 1 .. Len(Data(e, w)) : PutsSome(e, w, k))
  <2>1. out'[e] = out[e]
    <3>1. ASSUME NEW a \in Activities(e), NEW k, Puts(e, a, k)
          PROVE  a = w
      BY <1>4, <3>1 DEF Puts
    <3>2. \A a \in Activities(e) : ~PutsLast(e, a) /\ \A k \in 1 .. Len(Data(e, a)) : ~PutsSome(e, a, k)
      BY <1>6, <3>1 DEF PutsLast, PutsSome
    <3> QED BY <3>2 DEF Local, Stays, Clears, Quiet, Skips, Drops, MeetsEof, TakesLast, TakesSome, TakesEcho, Takes
  <2>2. ASSUME socket'[e] # "closed"
        PROVE  WriteData(todo'[e][w]) = WriteData(todo[e][w])
    <3>1. CASE Drops(e, w)
      <4>1. pair[e] = "asyncReadFromSocket" /\ w = 1 /\ Sets(e, w, <<>>)
        BY <3>1, ActivityErrors DEF Drops, Sets, Writer
      <4>2. "write" \notin KindsOf(pair[e], w)
        BY <4>1, KindsTable
      <4>3. WriteData(todo[e][w]) = <<>> /\ todo'[e][w] = <<>>
        BY <1>2, <4>1, <4>2, WriteNone, Changed
      <4>4. WriteData(<<>>) = <<>>
        BY EmptyFormed, WriteNothing
      <4> QED BY <4>3, <4>4
    <3>2. CASE ~Drops(e, w)
      <4> HIDE DEF w
      <4> QED BY <1>2, <1>6, <2>2, <3>2, WriteQuiet
    <3> QED BY <3>1, <3>2
  <2> QED BY <1>1, <2>1, <2>2
<1> QED BY <1>5, <1>6

(***************************************************************************)
(* Echoes.                                                                 *)
(***************************************************************************)
EchoThere(ops) == \E i \in DOMAIN ops : ops[i].do \in EchoKinds

LEMMA EchoStays ==
  ASSUME NEW ops \in Ops, ops # <<>>, EchoThere(ops)
  PROVE  /\ ops[1].do \notin EchoKinds => EchoThere(Tail(ops))
         /\ \A data \in Seq(Byte) : EchoThere(With(ops, data))
<1>1. PICK i \in DOMAIN ops : ops[i].do \in EchoKinds
  BY DEF EchoThere
<1>2. ASSUME ops[1].do \notin EchoKinds
      PROVE  EchoThere(Tail(ops))
  <2>1. /\ DOMAIN ops = 1 .. Len(ops) /\ Len(ops) \in Nat /\ Tail(ops) \in Ops /\ Len(Tail(ops)) = Len(ops) - 1
        /\ \A j \in 1 .. Len(Tail(ops)) : Tail(ops)[j] = ops[j + 1]
    BY HeadTailProperties, LenProperties DEF Ops
  <2>2. DOMAIN Tail(ops) = 1 .. Len(ops) - 1
    BY <2>1, LenProperties DEF Ops
  <2>3. i # 1
    BY <1>1, <1>2
  <2>4. i - 1 \in 1 .. Len(ops) - 1 /\ (i - 1) + 1 = i
    BY <1>1, <2>1, <2>3
  <2>5. Tail(ops)[i - 1] = ops[i]
    BY <2>1, <2>4
  <2> QED BY <1>1, <2>2, <2>4, <2>5 DEF EchoThere
<1>3. ASSUME NEW data \in Seq(Byte)
      PROVE  EchoThere(With(ops, data))
  BY <1>1, WithShape DEF EchoThere
<1> QED BY <1>2, <1>3

LEMMA EchoFront ==
  ASSUME Typed, NEW e \in Ends, Echoes(e), NEW a \in Activities(e), todo[e][a] # <<>>
  PROVE  /\ todo[e][a][1].do \in {"accept", "echo", "echoRecv", "echoSend"}
         /\ todo[e][a][1].do \in EchoKinds => a = Echoer(e)
         /\ todo[e][a][1].do = "echoRecv" => Echoer(e) = 2 /\ a = 1
<1>1. todo[e][a][1].do \in KindsOf(pair[e], a)
  BY FrontKind
<1>2. CASE pair[e] = "echoSession"
  <2>1. a = 1
    BY <1>2, ActivitiesAre, EchoOnly DEF Typed, P
  <2> QED BY <1>1, <1>2, <2>1, EchoOnly DEF Echoer
<1>3. CASE pair[e] \in {"echoServer", "echoServerAsync"}
  <2>1. a \in {1, 2}
    BY ActivitiesAre
  <2> QED BY <1>1, <1>3, <2>1, EchoOnly DEF Echoer, EchoKinds
<1> QED BY <1>2, <1>3 DEF Echoes

LEMMA EchoerThere ==
  ASSUME Typed, NEW e \in Ends, Echoes(e)
  PROVE  Echoer(e) \in Activities(e)
<1>1. pair[e] # "echoSession" => Len(P(e).activities) = 2
  BY EchoOnly DEF Echoes, P
<1>2. 1 \in Activities(e) /\ Activities(e) = 1 .. Len(P(e).activities)
  BY ActivitiesAre DEF Typed
<1> QED BY <1>1, <1>2 DEF Echoer

LEMMA EchoesNext ==
  ASSUME Typed, Shaped, NEW e \in Ends, Local(e), Grown(Other(e)), EchoesInv(e), TodoTyped(e),
         socket'[e] # "closed" => socket[e] # "closed"
  PROVE  EchoesInv(e)'
<1> DEFINE x == Echoer(e)  ops == todo[e][x]  new == todo'[e][x]
           Goal == /\ IsPrefix(out'[e], Read(e)')
                   /\ socket'[e] # "closed" => out'[e] \o Holds(new, EchoKinds) = Read(e)' /\ EchoThere(new)
<1> SUFFICES ASSUME Echoes(e)
             PROVE  Goal
  BY PairStep DEF EchoesInv, EchoThere
<1>1. IsPrefix(out[e], Read(e)) /\ (socket[e] # "closed" => out[e] \o Holds(ops, EchoKinds) = Read(e) /\ EchoThere(ops))
  BY DEF EchoesInv, EchoThere
<1>2. x \in Activities(e) /\ ops \in Ops /\ new \in Ops /\ Formed(ops)
  <2>1. x \in Activities(e)
    BY EchoerThere
  <2> QED BY <2>1, TodoAfter, ActivitiesAre DEF Typed
<1>3. out[e] \in Seq(Byte) /\ Read(e) \in Seq(Byte) /\ Holds(ops, EchoKinds) \in Seq(Byte) /\ Holds(new, EchoKinds) \in Seq(Byte)
  BY <1>2, ReadType, HoldsType DEF Typed
<1> HIDE DEF x
<1>4. ASSUME out'[e] = out[e], taken'[e] = taken[e], socket'[e] = "closed" \/ new = ops
      PROVE  Goal
  BY <1>1, <1>4, ReadStays
<1>5. CASE Stays(e)
  BY <1>4, <1>5 DEF Stays, Quiet
<1>6. CASE Clears(e)
  BY <1>4, <1>6 DEF Clears, Quiet
<1>7. ASSUME NEW a \in Activities(e), Skips(e, a)
      PROVE  Goal
  <2>1. /\ todo[e][a] # <<>> /\ todo[e][a][1].do \notin EchoKinds /\ Sets(e, a, Tail(todo[e][a]))
        /\ out'[e] = out[e] /\ taken'[e] = taken[e]
    BY <1>7 DEF Skips, Quiet, EchoKinds, Sets
  <2>2. CASE a # x
    BY <1>2, <1>4, <2>1, <2>2, Changed
  <2>3. CASE a = x
    <3>1. new = Tail(ops) /\ ops # <<>> /\ ops[1].do \notin EchoKinds
      BY <2>1, <2>3, Changed
    <3>2. Holds(Tail(ops), EchoKinds) = <<>>
      BY <1>2, <3>1, HoldsTail DEF EchoKinds
    <3>3. Holds(ops, EchoKinds) = <<>>
      BY <3>1 DEF Holds
    <3>4. EchoThere(ops) => EchoThere(Tail(ops))
      BY <1>2, <3>1, EchoStays
    <3>5. Read(e)' = Read(e)
      BY <2>1, ReadStays
    <3> QED BY <1>1, <2>1, <3>1, <3>2, <3>3, <3>4, <3>5
  <2> QED BY <2>2, <2>3
<1>8. ASSUME NEW a \in Activities(e), Drops(e, a)
      PROVE  FALSE
  BY <1>8, ActivityErrors DEF Drops, Echoes
<1>9. ASSUME NEW a \in Activities(e), PutsLast(e, a) \/ MeetsEof(e, a) \/ \E k \in 1 .. Unread(e) : TakesLast(e, a, k)
      PROVE  FALSE
  BY <1>9, EchoFront DEF PutsLast, Puts, MeetsEof, TakesLast, Takes
<1>10. ASSUME out'[e] \o Holds(new, EchoKinds) = Read(e)', EchoThere(new), out'[e] \in Seq(Byte)
       PROVE  Goal
  <2>1. PICK y : y = out'[e]
    OBVIOUS
  <2>2. IsPrefix(y, y \o Holds(new, EchoKinds))
    BY <1>3, <1>10, <2>1, PrefixConcat
  <2> QED BY <1>10, <2>1, <2>2
<1>11. ASSUME NEW a \in Activities(e), NEW k \in 1 .. Len(Data(e, a)), PutsSome(e, a, k)
       PROVE  Goal
  <2> DEFINE s == SubSeq(Data(e, a), 1, k)  u == SubSeq(Data(e, a), k + 1, Len(Data(e, a)))  o == out[e]
  <2>1. /\ todo[e][a] # <<>> /\ todo[e][a][1].do \in Writing /\ Sets(e, a, With(todo[e][a], u)) /\ socket[e] # "closed"
        /\ out'[e] = o \o s /\ taken'[e] = taken[e]
    BY <1>11 DEF PutsSome, Puts, Sets, Connected
  <2>2. a = x /\ ops # <<>> /\ ops[1].do \in EchoKinds
    BY <2>1, EchoFront DEF x, Writing, EchoKinds
  <2>3. k \in 0 .. Len(Data(e, a))
    BY <2>1, DataType
  <2>4. s \in Seq(Byte) /\ u \in Seq(Byte) /\ s \o u = Data(e, a)
    BY <2>1, <2>3, PutType
  <2>5. Holds(ops, EchoKinds) = Data(e, a)
    BY <2>2 DEF Holds, Data
  <2>6. o \in Seq(Byte)
    BY <1>3
  <2> HIDE DEF s, u, o
  <2>7. new = With(ops, u)
    BY <2>1, <2>2, Changed
  <2>8. Holds(With(ops, u), EchoKinds) = u /\ EchoThere(With(ops, u))
    BY <1>1, <1>2, <2>1, <2>2, <2>4, HoldsWith, EchoStays
  <2>9. (o \o s) \o u = o \o (s \o u) /\ o \o s \in Seq(Byte)
    <3>1. o \in Seq(Byte) /\ s \in Seq(Byte) /\ u \in Seq(Byte)
      BY <2>4, <2>6
    <3>2. o \o s \in Seq(Byte)
      BY <3>1, Joined
    <3>3. (o \o s) \o u = o \o (s \o u)
      BY <3>1, Joined
    <3> QED BY <3>2, <3>3
  <2>10. o \o Data(e, a) = Read(e)
    BY <1>1, <2>1, <2>5 DEF o
  <2>11. Read(e)' = Read(e)
    BY <2>1, ReadStays
  <2>12. out'[e] \o Holds(new, EchoKinds) = Read(e)'
    BY <2>1, <2>4, <2>7, <2>8, <2>9, <2>10, <2>11
  <2> QED BY <1>10, <2>1, <2>7, <2>8, <2>9, <2>12
<1>12. ASSUME NEW k \in 1 .. Unread(e), ops # <<>>, ops[1].do \in EchoKinds, socket[e] # "closed",
              Sets(e, x, With(ops, ops[1].data \o Chunk(e, k))), out'[e] = out[e], taken'[e] = taken[e] + k
       PROVE  Goal
  <2> DEFINE d == ops[1].data  c == Chunk(e, k)  o == out[e]
  <2>1. d \in Seq(Byte) /\ c \in Seq(Byte) /\ o \in Seq(Byte) /\ Holds(ops, EchoKinds) = d
    <3>1. Data(e, x) \in Seq(Byte) /\ Chunk(e, k) \in Seq(Byte)
      BY <1>2, <1>12, DataType, ChunkType
    <3> QED BY <1>3, <1>12, <3>1 DEF Holds, Data
  <2>2. Read(e)' = Read(e) \o c
    BY <1>12, ReadGrows
  <2>3. o \o d = Read(e) /\ EchoThere(ops)
    BY <1>1, <1>12, <2>1
  <2>4. new = With(ops, d \o c)
    BY <1>2, <1>12, Changed
  <2>5. out'[e] = o
    BY <1>12
  <2> HIDE DEF d, c, o
  <2>6. (o \o d) \o c = o \o (d \o c) /\ d \o c \in Seq(Byte)
    BY <2>1, Joined
  <2>7. Holds(With(ops, d \o c), EchoKinds) = d \o c /\ EchoThere(With(ops, d \o c))
    BY <1>2, <1>12, <2>3, <2>6, HoldsWith, EchoStays
  <2> QED BY <1>10, <2>1, <2>2, <2>3, <2>4, <2>5, <2>6, <2>7
<1>13. ASSUME NEW a \in Activities(e), NEW k \in 1 .. Unread(e), TakesSome(e, a, k)
       PROVE  Goal
  <2>1. todo[e][a] # <<>> /\ socket[e] # "closed" /\ out'[e] = out[e] /\ taken'[e] = taken[e] + k
        /\ Sets(e, a, With(todo[e][a], Data(e, a) \o Chunk(e, k)))
        /\ todo[e][a][1].do \in {"full", "line", "eof", "dump", "echo"}
    BY <1>13 DEF TakesSome, Takes, Sets, Connected
  <2>2. a = x /\ todo[e][a][1].do \in EchoKinds
    BY <2>1, EchoFront DEF x, EchoKinds
  <2> QED BY <1>12, <2>1, <2>2 DEF Data
<1>14. ASSUME NEW a \in Activities(e), NEW k \in 1 .. Unread(e), TakesEcho(e, a, k)
       PROVE  Goal
  <2>1. todo[e][a] # <<>> /\ socket[e] # "closed" /\ out'[e] = out[e] /\ taken'[e] = taken[e] + k
        /\ Sets(e, 2, With(todo[e][2], todo[e][2][1].data \o Chunk(e, k)))
        /\ todo[e][a][1].do = "echoRecv"
    BY <1>14 DEF TakesEcho, Takes, Sets, Connected
  <2>2. x = 2 /\ pair[e] \in {"echoServer", "echoServerAsync"}
    BY <2>1, EchoFront, EchoRecvAt DEF x
  <2>3. todo[e][2] # <<>> /\ todo[e][2][1].do = "echoSend"
    BY <2>1, <2>2, EchoSendAt
  <2> QED BY <1>12, <2>1, <2>2, <2>3 DEF EchoKinds
<1> HIDE DEF Goal, ops, new
<1> QED BY <1>5, <1>6, <1>7, <1>8, <1>9, <1>11, <1>13, <1>14 DEF Local

(***************************************************************************)
(* What the programs write.                                                *)
(***************************************************************************)
\* No byte twice.
Distinct(s) == \A i, j \in DOMAIN s : s[i] = s[j] => i = j
From(s, m) == \A i \in DOMAIN s : s[i][1] >= m

LEMMA DistinctMore ==
  ASSUME NEW t \in Seq(Byte), Distinct(t), NEW m \in Nat, From(t, m + 1)
  PROVE  Distinct(Message(m) \o t) /\ From(Message(m) \o t, m)
<1> DEFINE r == Message(m) \o t
<1>1. Message(m) \in Seq(Byte) /\ Len(Message(m)) = Size /\ (\A i \in 1 .. Size : Message(m)[i] = <<m, i>>) /\ Size \in Nat
  BY MessageType, StreamsAssumption
<1>2. /\ r \in Seq(Byte) /\ Len(r) = Size + Len(t) /\ Len(t) \in Nat
      /\ \A i \in 1 .. Size + Len(t) : r[i] = IF i <= Size THEN Message(m)[i] ELSE t[i - Size]
  BY <1>1, ConcatProperties, LenProperties
<1>3. DOMAIN r = 1 .. Size + Len(t) /\ DOMAIN t = 1 .. Len(t)
  BY <1>2, LenProperties
<1>4. \A i \in DOMAIN r : /\ i <= Size => i \in 1 .. Size /\ r[i] = <<m, i>>
                          /\ i > Size => i - Size \in DOMAIN t /\ r[i] = t[i - Size]
  BY <1>1, <1>2, <1>3
<1> HIDE DEF r
<1>5. \A i \in DOMAIN t : t[i] \in Byte /\ t[i][1] \in Nat /\ t[i][1] >= m + 1
  BY <1>3, ElementOfSeq DEF From, Byte
<1>6. \A i \in DOMAIN r : i \in Nat /\ r[i][1] \in Nat /\ (i <= Size => r[i][1] = m /\ r[i][2] = i) /\ (i > Size => r[i][1] > m)
  BY <1>1, <1>3, <1>4, <1>5
<1>7. From(r, m)
  BY <1>1, <1>3, <1>6 DEF From
<1>8. ASSUME NEW i \in DOMAIN r, NEW j \in DOMAIN r, r[i] = r[j]
      PROVE  i = j
  <2>1. i \in Nat /\ j \in Nat /\ r[i][1] = r[j][1] /\ r[i][2] = r[j][2]
    BY <1>6, <1>8
  <2>2. CASE i <= Size
    BY <1>1, <1>6, <2>1, <2>2
  <2>3. CASE i > Size
    <3>1. j > Size
      BY <1>1, <1>6, <2>1, <2>3
    <3>2. i - Size \in DOMAIN t /\ j - Size \in DOMAIN t /\ t[i - Size] = t[j - Size]
      BY <1>4, <1>8, <2>3, <3>1
    <3>3. i - Size = j - Size
      BY <3>2 DEF Distinct
    <3> QED BY <1>1, <2>1, <3>3
  <2> QED BY <1>1, <2>1, <2>2, <2>3
<1>9. Distinct(r)
  BY <1>8 DEF Distinct
<1> QED BY <1>7, <1>9 DEF r

LEMMA WriteCons ==
  ASSUME NEW o \in OpRecord, NEW rest \in Ops, NEW ops, ops = <<o>> \o rest
  PROVE  ops \in Ops /\ WriteData(ops) = (IF o.do = "write" THEN o.data ELSE <<>>) \o WriteData(rest)
<1>1. <<o>> \in Ops /\ WriteData(<<o>>) = IF o.do = "write" THEN o.data ELSE <<>>
  BY WriteOne
<1>2. ops \in Ops
  BY <1>1, ConcatProperties DEF Ops
<1>3. WriteData(<<o>> \o rest) = WriteData(<<o>>) \o WriteData(rest)
  BY <1>1, WriteConcat
<1> QED BY <1>1, <1>2, <1>3

\* The rest of a sequence of writes.
Said(ops, m) == ops \in Ops /\ Distinct(WriteData(ops)) /\ From(WriteData(ops), m)

LEMMA SaidNothing == \A m : Said(<<>>, m)
<1>1. <<>> \in Ops /\ WriteData(<<>>) = <<>>
  BY EmptyFormed, WriteNothing
<1>2. \A m : Distinct(<<>>) /\ From(<<>>, m)
  BY DEF Distinct, From
<1> QED BY <1>1, <1>2 DEF Said

LEMMA SaidMore ==
  ASSUME NEW m \in Nat, NEW rest, Said(rest, m + 1), NEW ops, ops = <<Write(m)>> \o rest
  PROVE  Said(ops, m)
<1>1. Write(m) \in OpRecord /\ Write(m).do = "write" /\ Write(m).data = Message(m) /\ rest \in Ops
  BY OpTypes DEF Said
<1>2. ops \in Ops /\ WriteData(ops) = Message(m) \o WriteData(rest)
  BY <1>1, WriteCons
<1>3. WriteData(rest) \in Seq(Byte) /\ Distinct(WriteData(rest)) /\ From(WriteData(rest), m + 1)
  BY <1>1, WriteType DEF Said
<1>4. Distinct(Message(m) \o WriteData(rest)) /\ From(Message(m) \o WriteData(rest), m)
  BY <1>3, DistinctMore
<1> QED BY <1>2, <1>4 DEF Said

LEMMA SaidFirst ==
  ASSUME NEW m \in Nat, NEW rest, Said(rest, m), NEW ops, ops = <<Op("accept")>> \o rest
  PROVE  Said(ops, m)
<1>1. Op("accept") \in OpRecord /\ Op("accept").do = "accept" /\ rest \in Ops
  BY OpTypes DEF Said, Kinds
<1>2. ops \in Ops /\ WriteData(ops) = <<>> \o WriteData(rest)
  BY <1>1, WriteCons
<1>3. <<>> \o WriteData(rest) = WriteData(rest)
  BY <1>1, WriteType, ConcatEmptySeq
<1> QED BY <1>2, <1>3 DEF Said

LEMMA SendersSay ==
  /\ Said(<<Op("accept"), Write(1), Write(2), Write(3), Write(4)>>, 1)
  /\ Said(<<Op("accept"), Write(1)>>, 1)
<1>1. Said(<<Write(4)>>, 4)
  <2>1. 4 + 1 = 5 /\ <<Write(4)>> = <<Write(4)>> \o <<>>
    OBVIOUS
  <2> QED BY <2>1, SaidNothing, SaidMore
<1>2. Said(<<Write(3), Write(4)>>, 3)
  <2>1. 3 + 1 = 4 /\ <<Write(3), Write(4)>> = <<Write(3)>> \o <<Write(4)>>
    OBVIOUS
  <2> QED BY <1>1, <2>1, SaidMore
<1>3. Said(<<Write(2), Write(3), Write(4)>>, 2)
  <2>1. 2 + 1 = 3 /\ <<Write(2), Write(3), Write(4)>> = <<Write(2)>> \o <<Write(3), Write(4)>>
    OBVIOUS
  <2> QED BY <1>2, <2>1, SaidMore
<1>4. Said(<<Write(1), Write(2), Write(3), Write(4)>>, 1)
  <2>1. 1 + 1 = 2 /\ <<Write(1), Write(2), Write(3), Write(4)>> = <<Write(1)>> \o <<Write(2), Write(3), Write(4)>>
    OBVIOUS
  <2> QED BY <1>3, <2>1, SaidMore
<1>5. Said(<<Op("accept"), Write(1), Write(2), Write(3), Write(4)>>, 1)
  <2>1. <<Op("accept"), Write(1), Write(2), Write(3), Write(4)>> = <<Op("accept")>> \o <<Write(1), Write(2), Write(3), Write(4)>>
    OBVIOUS
  <2> QED BY <1>4, <2>1, SaidFirst
<1>6. Said(<<>>, 2)
  BY SaidNothing
<1>7. Said(<<Write(1)>>, 1)
  <2>1. 1 + 1 = 2 /\ <<Write(1)>> = <<Write(1)>> \o <<>>
    OBVIOUS
  <2> QED BY <1>6, <2>1, SaidMore
<1>8. Said(<<Op("accept"), Write(1)>>, 1)
  <2>1. <<Op("accept"), Write(1)>> = <<Op("accept")>> \o <<Write(1)>>
    OBVIOUS
  <2> QED BY <1>7, <2>1, SaidFirst
<1> QED BY <1>5, <1>8

LEMMA WritesOf == \A e : Writes(e) = WriteData(FlattenSeq(P(e).activities))
BY DEF Writes, WriteData

\* The senders of asyncReadFromSocket send no byte twice.
LEMMA SenderDistinct ==
  ASSUME Typed, NEW e \in Ends, pair[e] = "asyncReadFromSocket", WritesInv(Other(e))
  PROVE  Distinct(out[Other(e)])
<1> DEFINE f == Other(e)
<1>1. f \in Ends /\ pair[f] \in {"longSender", "shortSender"}
  BY EndsOf DEF Typed, Pairs, Ends, Other
<1>2. IsPrefix(out[f], Writes(f))
  BY <1>1 DEF WritesInv, Echoes
<1>3. \E ops \in Ops : P(f).activities = <<ops>> /\ Said(ops, 1)
  BY <1>1, ActivitiesOf, SendersSay DEF P, Said
<1>4. Distinct(Writes(f)) /\ Writes(f) \in Seq(Byte)
  <2>1. PICK ops \in Ops : P(f).activities = <<ops>> /\ Said(ops, 1)
    BY <1>3
  <2>2. FlattenSeq(<<ops>>) = ops
    BY <2>1, FlattenOne DEF Ops
  <2> QED BY <2>1, <2>2, WritesOf, WriteType DEF Said
<1> HIDE DEF f
<1>5. PICK w : w = Writes(f)
  OBVIOUS
<1>6. out[f] \in Seq(Byte)
  BY <1>1 DEF Typed
<1>7. PICK o : o = out[f]
  OBVIOUS
<1>8. Len(o) \in Nat /\ Len(w) \in Nat /\ Len(o) <= Len(w) /\ o = SubSeq(w, 1, Len(o)) /\ DOMAIN o = 1 .. Len(o) /\ DOMAIN w = 1 .. Len(w)
  <2>1. o \in Seq(Byte) /\ w \in Seq(Byte) /\ IsPrefix(o, w)
    BY <1>2, <1>4, <1>5, <1>6, <1>7
  <2>2. PICK u \in Seq(Byte) : w = o \o u
    BY <2>1, PrefixRest
  <2>3. Len(o) \in 0 .. Len(o) /\ SubSeq(o \o u, 1, Len(o)) = SubSeq(o, 1, Len(o)) /\ SubSeq(o, 1, Len(o)) = o
    BY <2>1, CutGrown, SubSeqFull, LenProperties
  <2>4. Len(w) = Len(o) + Len(u) /\ Len(u) \in Nat /\ Len(o) \in Nat
    BY <2>1, <2>2, ConcatProperties, LenProperties
  <2> QED BY <2>1, <2>2, <2>3, <2>4, LenProperties
<1>9. \A i \in 1 .. Len(o) : o[i] = w[i]
  <2>1. o \in Seq(Byte) /\ w \in Seq(Byte) /\ IsPrefix(o, w)
    BY <1>2, <1>4, <1>5, <1>6, <1>7
  <2>2. PICK u \in Seq(Byte) : w = o \o u
    BY <2>1, PrefixRest
  <2> QED BY <1>8, <2>1, <2>2, ConcatProperties
<1>10. Distinct(o)
  BY <1>4, <1>5, <1>8, <1>9 DEF Distinct
<1> QED BY <1>7, <1>10 DEF f

(***************************************************************************)
(* Two reads at a time.                                                    *)
(***************************************************************************)
LEMMA RangeIs ==
  ASSUME NEW S, NEW s \in Seq(S)
  PROVE  s \in Seq(Range(s)) /\ (\A x : x \in Range(s) <=> \E i \in 1 .. Len(s) : s[i] = x)
<1>1. DOMAIN s = 1 .. Len(s) /\ Len(s) \in Nat /\ s = [i \in 1 .. Len(s) |-> s[i]]
  BY LenProperties, SeqDef
<1>2. \A x : x \in Range(s) <=> \E i \in 1 .. Len(s) : s[i] = x
  BY <1>1 DEF Range
<1>3. \A i \in 1 .. Len(s) : s[i] \in Range(s)
  BY <1>2
<1> QED BY <1>1, <1>2, <1>3

\* Only takes bytes of the sequence, and depends on nothing else.
LEMMA OnlyFrom ==
  ASSUME NEW S, NEW s \in Seq(S), NEW B
  PROVE  \A i \in 1 .. Len(Only(s, B)) : \E j \in 1 .. Len(s) : Only(s, B)[i] = s[j]
<1>1. s \in Seq(Range(s))
  BY RangeIs
<1>2. PICK R : R = Range(s)
  OBVIOUS
<1>3. Only(s, B) \in Seq(R)
  BY <1>1, <1>2, OnlyType
<1>4. \A i \in 1 .. Len(Only(s, B)) : Only(s, B)[i] \in R
  BY <1>3, ElementOfSeq
<1> QED BY <1>2, <1>4, RangeIs

LEMMA OnlySame ==
  ASSUME NEW S, NEW s \in Seq(S), NEW B, NEW C, \A i \in 1 .. Len(s) : s[i] \in B <=> s[i] \in C
  PROVE  Only(s, B) = Only(s, C)
<1>1. DOMAIN s = 1 .. Len(s)
  BY LenProperties
<1>2. Picked(s, B) = Picked(s, C)
  BY <1>1 DEF Picked
<1>3. Only(s, B) = FlattenSeq(Picked(s, B)) /\ Only(s, C) = FlattenSeq(Picked(s, C))
  BY PickedType
<1> QED BY <1>2, <1>3

\* New bytes disturb no message read so far, and stay in order.
LEMMA OrderKept ==
  ASSUME NEW s \in Seq(Byte), NEW c \in Seq(Byte), NEW d \in Seq(Byte), InOrder(d, s),
         \A i \in 1 .. Len(s), j \in 1 .. Len(c) : s[i] # c[j]
  PROVE  InOrder(d, s \o c) /\ InOrder(d \o c, s \o c)
<1>1. Only(s, Range(d)) = d
  BY DEF InOrder
<1>2. \A i \in 1 .. Len(d) : \E j \in 1 .. Len(s) : d[i] = s[j]
  BY <1>1, OnlyFrom
<1> DEFINE e == d \o c
<1>3. /\ e \in Seq(Byte) /\ Len(e) = Len(d) + Len(c) /\ Len(d) \in Nat /\ Len(c) \in Nat
      /\ \A i \in 1 .. Len(d) + Len(c) : e[i] = IF i <= Len(d) THEN d[i] ELSE c[i - Len(d)]
  BY ConcatProperties, LenProperties
<1> HIDE DEF e
<1>4. \A x : x \in Range(d) <=> \E i \in 1 .. Len(d) : d[i] = x
  BY RangeIs
<1>5. \A x : x \in Range(e) <=> \E i \in 1 .. Len(e) : e[i] = x
  <2>1. e \in Seq(Byte)
    BY <1>3
  <2> QED BY <2>1, RangeIs
<1>6. \A x : x \in Range(e) <=> (\E i \in 1 .. Len(d) : d[i] = x) \/ (\E i \in 1 .. Len(c) : c[i] = x)
  <2>1. ASSUME NEW i \in 1 .. Len(d)
        PROVE  d[i] \in Range(e)
    <3>1. i \in 1 .. Len(e) /\ e[i] = d[i]
      BY <1>3
    <3> QED BY <1>5, <3>1
  <2>2. ASSUME NEW i \in 1 .. Len(c)
        PROVE  c[i] \in Range(e)
    <3>1. Len(d) + i \in 1 .. Len(d) + Len(c) /\ ~ (Len(d) + i <= Len(d)) /\ Len(d) + i - Len(d) = i
      BY <1>3
    <3>2. Len(d) + i \in 1 .. Len(e) /\ e[Len(d) + i] = c[i]
      BY <1>3, <3>1
    <3> QED BY <1>5, <3>2
  <2>3. ASSUME NEW i \in 1 .. Len(e)
        PROVE  (\E j \in 1 .. Len(d) : d[j] = e[i]) \/ (\E j \in 1 .. Len(c) : c[j] = e[i])
    <3>1. CASE i <= Len(d)
      <4>1. i \in 1 .. Len(d) /\ e[i] = d[i]
        BY <1>3, <3>1
      <4> QED BY <4>1
    <3>2. CASE ~ (i <= Len(d))
      <4>1. i - Len(d) \in 1 .. Len(c) /\ e[i] = c[i - Len(d)]
        BY <1>3, <3>2
      <4> QED BY <4>1
    <3> QED BY <3>1, <3>2
  <2> QED BY <1>5, <2>1, <2>2, <2>3
<1>7. Only(c, Range(d)) = <<>>
  <2>1. ASSUME NEW j \in 1 .. Len(c), c[j] \in Range(d)
        PROVE  FALSE
    <3>1. PICK i \in 1 .. Len(d) : d[i] = c[j]
      BY <1>4, <2>1
    <3>2. PICK m \in 1 .. Len(s) : d[i] = s[m]
      BY <1>2
    <3>3. s[m] # c[j]
      OBVIOUS
    <3> QED BY <3>1, <3>2, <3>3
  <2> QED BY <2>1, OnlyNone
<1>8. Only(s \o c, Range(d)) = d
  <2>1. Only(s \o c, Range(d)) = Only(s, Range(d)) \o Only(c, Range(d))
    BY OnlyConcat
  <2> QED BY <1>1, <1>7, <2>1, ConcatEmptySeq
<1>9. Only(s, Range(e)) = Only(s, Range(d))
  <2>1. \A i \in 1 .. Len(s) : s[i] \in Range(e) <=> s[i] \in Range(d)
    BY <1>4, <1>6
  <2> QED BY <2>1, OnlySame
<1>10. Only(c, Range(e)) = c
  <2>1. \A i \in 1 .. Len(c) : c[i] \in Range(e)
    BY <1>6
  <2> QED BY <2>1, OnlyAll
<1>11. Only(s \o c, Range(e)) = e
  <2>1. Only(s \o c, Range(e)) = Only(s, Range(e)) \o Only(c, Range(e))
    BY OnlyConcat
  <2> QED BY <1>1, <1>9, <1>10, <2>1 DEF e
<1> QED BY <1>8, <1>11 DEF InOrder, e

LEMMA OrderEmpty ==
  ASSUME NEW s \in Seq(Byte)
  PROVE  InOrder(<<>>, s)
<1>1. Range(<<>>) = {}
  BY DEF Range
<1> QED BY <1>1, OnlyNone DEF InOrder

\* What arrives was not read before, when no byte is sent twice.
LEMMA ChunkFresh ==
  ASSUME Typed, NEW e \in Ends, Distinct(out[Other(e)]), NEW k \in 1 .. Unread(e)
  PROVE  \A i \in 1 .. Len(Read(e)), j \in 1 .. Len(Chunk(e, k)) : Read(e)[i] # Chunk(e, k)[j]
<1> DEFINE s == out[Other(e)]  n == taken[e]  p == Read(e)  q == Chunk(e, k)
<1>1. s \in Seq(Byte) /\ n \in Nat
  BY EndsOf DEF Typed
<1>2. p \in Seq(Byte) /\ q \in Seq(Byte) /\ Len(p) = n /\ Len(q) = k /\ n + k \in 0 .. Len(s) /\ SubSeq(s, 1, n + k) = p \o q
  BY ChunkType
<1>3. Distinct(s)
  OBVIOUS
<1> HIDE DEF s, n, p, q
<1>4. Len(s) \in Nat /\ DOMAIN s = 1 .. Len(s)
  BY <1>1, LenProperties
<1>5. \A i \in 1 .. n + k : SubSeq(s, 1, n + k)[i] = s[i]
  <2>1. \A i \in 1 .. n + k : s[i] \in Byte
    BY <1>1, <1>2, <1>4, ElementOfSeq
  <2>2. \A i \in 1 .. n + k : SubSeq(s, 1, n + k)[i] = s[1 + i - 1]
    BY <1>1, <1>2, <1>4, <2>1, SubSeqProperties
  <2> QED BY <1>1, <2>2
<1>6. \A i \in 1 .. n + k : (p \o q)[i] = IF i <= n THEN p[i] ELSE q[i - n]
  BY <1>2, ConcatProperties
<1>7. ASSUME NEW i \in 1 .. Len(p), NEW j \in 1 .. Len(q), p[i] = q[j]
      PROVE  FALSE
  <2>1. i \in 1 .. n + k /\ n + j \in 1 .. n + k /\ i <= n /\ ~ (n + j <= n) /\ n + j - n = j /\ i # n + j
    BY <1>1, <1>2
  <2>2. s[i] = p[i] /\ s[n + j] = q[j]
    <3>1. (p \o q)[i] = p[i] /\ (p \o q)[n + j] = q[j]
      <4>1. PICK z : z = p \o q
        OBVIOUS
      <4>2. \A m \in 1 .. n + k : z[m] = IF m <= n THEN p[m] ELSE q[m - n]
        BY <1>6, <4>1
      <4>3. z[i] = p[i]
        BY <2>1, <4>2
      <4>4. z[n + j] = q[j]
        <5>1. PICK m \in 1 .. n + k : m = n + j
          BY <2>1
        <5>2. z[m] = q[m - n] /\ m - n = j
          BY <1>1, <2>1, <4>2, <5>1
        <5> QED BY <5>1, <5>2
      <4> QED BY <4>1, <4>3, <4>4
    <3>2. (p \o q)[i] = s[i] /\ (p \o q)[n + j] = s[n + j]
      BY <1>2, <1>5, <2>1
    <3> QED BY <3>1, <3>2
  <2>3. i \in DOMAIN s /\ n + j \in DOMAIN s
    BY <1>2, <1>4, <2>1
  <2> QED BY <1>3, <1>7, <2>1, <2>2, <2>3 DEF Distinct
<1> QED BY <1>7 DEF p, q

LEMMA AsyncReader ==
  ASSUME Typed, NEW e \in Ends, pair[e] = "asyncReadFromSocket"
  PROVE  /\ Activities(e) = 1 .. 2
         /\ \A a \in Activities(e) : todo[e][a] # <<>> => todo[e][a][1].do \in {"connect", "full"}
<1>1. Activities(e) = 1 .. Len(P(e).activities)
  BY ActivitiesAre DEF Typed
<1>2. Activities(e) = 1 .. 2
  BY <1>1, ActivitiesOf DEF P
<1>3. \A a \in 1 .. 2 : KindsOf(pair[e], a) \subseteq {"connect", "full"}
  BY KindsTable
<1> QED BY <1>2, <1>3, FrontKind

\* The messages read, finished or not, after a read took bytes.
LEMMA SharedTakes ==
  ASSUME Typed, NEW e \in Ends, pair[e] = "asyncReadFromSocket", SharedReads(e), Grown(Other(e)),
         Distinct(out[Other(e)]), NEW a \in Activities(e), NEW k \in 1 .. Unread(e),
         TakesLast(e, a, k) \/ TakesSome(e, a, k)
  PROVE  /\ Read(e)' = Read(e) \o Chunk(e, k) /\ taken'[e] = taken[e] + k /\ Len(Chunk(e, k)) = k
         /\ Chunk(e, k) \in Seq(Byte) /\ Data(e, a) \in Seq(Byte) /\ Holds(todo[e][a], MessageKinds) = Data(e, a)
         /\ \A b \in Activities(e) : b # a => todo'[e][b] = todo[e][b]
         /\ InOrder(Data(e, a) \o Chunk(e, k), Read(e)')
         /\ \A b \in Activities(e) : InOrder(Holds(todo[e][b], MessageKinds), Read(e)')
         /\ \A i \in DOMAIN done[e] : InOrder(done[e][i], Read(e)')
<1> DEFINE c == Chunk(e, k)  d == Data(e, a)  r == Read(e)
<1>1. todo[e][a] # <<>> /\ todo[e][a][1].do \in MessageKinds /\ taken'[e] = taken[e] + k
      /\ \E ops : Sets(e, a, ops)
  <2>1. todo[e][a] # <<>> /\ taken'[e] = taken[e] + k /\ \E ops : Sets(e, a, ops)
    BY DEF TakesLast, TakesSome, Takes, Sets
  <2>2. todo[e][a][1].do \in {"full", "line", "eof", "dump", "echo"}
    BY DEF TakesLast, TakesSome
  <2> QED BY <2>1, <2>2, AsyncReader DEF MessageKinds
<1>2. d \in Seq(Byte) /\ c \in Seq(Byte) /\ Len(c) = k /\ r \in Seq(Byte)
  BY <1>1, DataType, ChunkType
<1>3. Holds(todo[e][a], MessageKinds) = d
  BY <1>1 DEF Holds, Data
<1>4. Read(e)' = r \o c
  BY <1>1, ReadGrows
<1>5. \A i \in 1 .. Len(r), j \in 1 .. Len(c) : r[i] # c[j]
  BY ChunkFresh
<1>6. /\ \A b \in Activities(e) : InOrder(Holds(todo[e][b], MessageKinds), r) /\ Holds(todo[e][b], MessageKinds) \in Seq(Byte)
      /\ \A i \in DOMAIN done[e] : InOrder(done[e][i], r) /\ done[e][i] \in Seq(Byte)
  <2>1. done[e] \in Seq(Seq(Byte))
    BY DEF Typed
  <2>2. \A i \in DOMAIN done[e] : done[e][i] \in Seq(Byte)
    <3> DEFINE Q == Seq(Byte)
    <3>1. done[e] \in Seq(Q)
      BY <2>1
    <3> HIDE DEF Q
    <3>2. \A i \in DOMAIN done[e] : done[e][i] \in Q
      BY <3>1
    <3> QED BY <3>2 DEF Q
  <2>3. \A b \in Activities(e) : Holds(todo[e][b], MessageKinds) \in Seq(Byte)
    BY HoldsType, ActivitiesAre
  <2> QED BY <2>2, <2>3, AsyncReader DEF SharedReads
<1>7. InOrder(d, r)
  BY <1>3, <1>6
<1> HIDE DEF c, d, r
<1>8. \A x \in Seq(Byte) : InOrder(x, r) => InOrder(x, r \o c) /\ InOrder(x \o c, r \o c)
  BY <1>2, <1>5, OrderKept
<1>9. \A b \in Activities(e) : b # a => todo'[e][b] = todo[e][b]
  BY <1>1, Changed
<1> QED BY <1>1, <1>2, <1>3, <1>4, <1>6, <1>7, <1>8, <1>9 DEF c, d, r

\* The count of the bytes read.
InDone(e) == Len(FlattenSeq(done[e]))
InFront(e, a) == Len(Holds(todo[e][a], MessageKinds))

LEMMA CountTypes ==
  ASSUME Typed, NEW e \in Ends
  PROVE  InDone(e) \in Nat /\ \A a \in Activities(e) : InFront(e, a) \in Nat
<1>1. done[e] \in Seq(Seq(Byte)) /\ \A a \in Activities(e) : Holds(todo[e][a], MessageKinds) \in Seq(Byte)
  BY HoldsType, ActivitiesAre DEF Typed
<1> QED BY <1>1, FlattenType, LenProperties DEF InDone, InFront

LEMMA SharedReadsNext ==
  ASSUME Typed, Shaped, NEW e \in Ends, Local(e), Grown(Other(e)), SharedReads(e), WritesInv(Other(e)),
         socket'[e] # "closed" => socket[e] # "closed"
  PROVE  SharedReads(e)'
<1> DEFINE InOrderNow == /\ \A i \in DOMAIN done'[e] : InOrder(done'[e][i], Read(e)')
                         /\ \A a \in 1 .. 2 : InOrder(Holds(todo'[e][a], MessageKinds), Read(e)')
           Counted == socket'[e] # "closed" /\ ~cut' /\ ~fin'[Other(e)] =>
                        taken'[e] = InDone(e)' + InFront(e, 1)' + InFront(e, 2)'
<1> SUFFICES ASSUME pair[e] = "asyncReadFromSocket"
             PROVE  InOrderNow /\ Counted
  BY PairStep DEF SharedReads, InOrder, InDone, InFront
<1>1. /\ \A i \in DOMAIN done[e] : InOrder(done[e][i], Read(e))
      /\ \A a \in 1 .. 2 : InOrder(Holds(todo[e][a], MessageKinds), Read(e))
  BY DEF SharedReads
<1>2. socket'[e] # "closed" /\ ~cut' /\ ~fin'[Other(e)] => taken[e] = InDone(e) + InFront(e, 1) + InFront(e, 2)
  BY EndsOf DEF SharedReads, Shaped, InDone, InFront
<1>3. Activities(e) = 1 .. 2 /\ \A a \in Activities(e) : todo[e][a] # <<>> => todo[e][a][1].do \in {"connect", "full"}
  BY AsyncReader
<1>4. Distinct(out[Other(e)])
  BY SenderDistinct
<1>5. Read(e)' \in Seq(Byte) \/ ~ (taken'[e] = taken[e])
  BY ReadStays, ReadType
<1>6. ASSUME done'[e] = done[e], taken'[e] = taken[e], todo'[e] = todo[e]
      PROVE  InOrderNow /\ Counted
  <2>1. Read(e)' = Read(e)
    BY <1>6, ReadStays
  <2> QED BY <1>1, <1>2, <1>6, <2>1 DEF InDone, InFront
<1>7. ASSUME done'[e] = done[e], taken'[e] = taken[e], NEW a \in Activities(e), todo'[e][a] = <<>> \/ Holds(todo'[e][a], MessageKinds) = <<>>,
             Holds(todo[e][a], MessageKinds) = <<>> \/ cut' \/ fin'[Other(e)],
             \A b \in Activities(e) : b # a => todo'[e][b] = todo[e][b]
      PROVE  InOrderNow /\ Counted
  <2>1. Read(e)' = Read(e) /\ Read(e) \in Seq(Byte)
    BY <1>7, ReadStays, ReadType
  <2>2. Holds(todo'[e][a], MessageKinds) = <<>>
    BY <1>7 DEF Holds
  <2>3. \A b \in 1 .. 2 : InOrder(Holds(todo'[e][b], MessageKinds), Read(e)')
    BY <1>1, <1>3, <1>7, <2>1, <2>2, OrderEmpty
  <2>4. InOrderNow
    BY <1>1, <1>7, <2>1, <2>3
  <2>5. ASSUME Holds(todo[e][a], MessageKinds) = <<>>
        PROVE  InFront(e, 1)' = InFront(e, 1) /\ InFront(e, 2)' = InFront(e, 2)
    BY <1>3, <1>7, <2>2, <2>5 DEF InFront
  <2>6. InDone(e)' = InDone(e)
    BY <1>7 DEF InDone
  <2>7. Counted
    BY <1>2, <1>7, <2>5, <2>6
  <2> QED BY <2>4, <2>7
<1>8. CASE Stays(e)
  BY <1>6, <1>8 DEF Stays, Quiet
<1>9. CASE Clears(e)
  <2>1. done'[e] = done[e] /\ taken'[e] = taken[e] /\ socket'[e] = "closed" /\ \A a \in Activities(e) : todo'[e][a] = <<>>
    BY <1>9 DEF Clears, Quiet
  <2>2. Read(e)' = Read(e) /\ Read(e) \in Seq(Byte)
    BY <2>1, ReadStays, ReadType
  <2>3. Holds(<<>>, MessageKinds) = <<>>
    BY DEF Holds
  <2> QED BY <1>1, <1>3, <2>1, <2>2, <2>3, OrderEmpty
<1>10. ASSUME NEW a \in Activities(e), Skips(e, a)
       PROVE  InOrderNow /\ Counted
  <2>1. /\ todo[e][a] # <<>> /\ todo[e][a][1].do \notin MessageKinds /\ Sets(e, a, Tail(todo[e][a]))
        /\ done'[e] = done[e] /\ taken'[e] = taken[e]
    BY <1>10 DEF Skips, Quiet, MessageKinds, Sets
  <2>2. todo'[e][a] = Tail(todo[e][a]) /\ \A b \in Activities(e) : b # a => todo'[e][b] = todo[e][b]
    BY <2>1, Changed
  <2>3. todo[e][a] \in Ops /\ Formed(todo[e][a])
    BY ActivitiesAre DEF Typed
  <2>4. Holds(Tail(todo[e][a]), MessageKinds) = <<>> /\ Holds(todo[e][a], MessageKinds) = <<>>
    BY <2>1, <2>3, HoldsTail DEF Holds, MessageKinds
  <2> HIDE DEF InOrderNow, Counted
  <2> QED BY <1>7, <2>1, <2>2, <2>4
<1>11. ASSUME NEW a \in Activities(e), Drops(e, a)
       PROVE  InOrderNow /\ Counted
  <2>1. Sets(e, a, <<>>) /\ done'[e] = done[e] /\ taken'[e] = taken[e] /\ (cut \/ fin[Other(e)])
    BY <1>11 DEF Drops, Quiet, Sets
  <2>2. todo'[e][a] = <<>> /\ \A b \in Activities(e) : b # a => todo'[e][b] = todo[e][b]
    BY <2>1, Changed
  <2>3. cut' \/ fin'[Other(e)]
    BY <2>1, EndsOf DEF Shaped
  <2> HIDE DEF InOrderNow, Counted
  <2> QED BY <1>7, <2>1, <2>2, <2>3
<1>12. ASSUME NEW a \in Activities(e), PutsLast(e, a) \/ MeetsEof(e, a) \/ (\E k \in 1 .. Len(Data(e, a)) : PutsSome(e, a, k))
              \/ \E k \in 1 .. Unread(e) : TakesEcho(e, a, k)
       PROVE  FALSE
  BY <1>3, <1>12 DEF PutsLast, PutsSome, Puts, MeetsEof, TakesEcho, Takes, Writing
<1>13. ASSUME NEW a \in Activities(e), NEW k \in 1 .. Unread(e), TakesLast(e, a, k) \/ TakesSome(e, a, k)
       PROVE  InOrderNow /\ Counted
  <2> DEFINE d == Data(e, a)  c == Chunk(e, k)
  <2>1. /\ Read(e)' = Read(e) \o c /\ taken'[e] = taken[e] + k /\ Len(c) = k
        /\ c \in Seq(Byte) /\ d \in Seq(Byte) /\ Holds(todo[e][a], MessageKinds) = d
        /\ \A b \in Activities(e) : b # a => todo'[e][b] = todo[e][b]
        /\ InOrder(d \o c, Read(e)')
        /\ \A b \in Activities(e) : InOrder(Holds(todo[e][b], MessageKinds), Read(e)')
        /\ \A i \in DOMAIN done[e] : InOrder(done[e][i], Read(e)')
    BY <1>4, <1>13, SharedTakes
  <2>2. todo[e][a] \in Ops /\ Formed(todo[e][a]) /\ done[e] \in Seq(Seq(Byte)) /\ Read(e)' \in Seq(Byte) /\ todo[e][a] # <<>>
    <3>1. Read(e) \in Seq(Byte)
      BY ReadType
    <3>2. Read(e)' \in Seq(Byte)
      BY <2>1, <3>1, ConcatProperties
    <3> QED BY <1>13, <3>2, ActivitiesAre DEF Typed, TakesLast, TakesSome, Takes
  <2>3. d \o c \in Seq(Byte) /\ Len(d \o c) = Len(d) + k /\ Len(d) \in Nat /\ k \in Nat
    <3>1. d \in Seq(Byte) /\ c \in Seq(Byte) /\ Len(c) = k
      BY <2>1
    <3> QED BY <3>1, ConcatProperties, LenProperties
  <2>4. InDone(e) \in Nat /\ InFront(e, 1) \in Nat /\ InFront(e, 2) \in Nat /\ InFront(e, a) = Len(d)
    BY <1>3, <2>1, CountTypes DEF InFront
  <2>5. \A b \in Activities(e) : b # a => InFront(e, b)' = InFront(e, b)
    BY <2>1 DEF InFront
  <2>8. ASSUME NEW m \in Nat, NEW n \in Nat, InFront(e, a)' = m, InDone(e)' = n, m + n = InFront(e, a) + InDone(e) + k
        PROVE  Counted
    <3> SUFFICES ASSUME socket'[e] # "closed", ~cut', ~fin'[Other(e)]
                 PROVE  taken'[e] = InDone(e)' + InFront(e, 1)' + InFront(e, 2)'
      OBVIOUS
    <3>1. taken'[e] = InDone(e) + InFront(e, 1) + InFront(e, 2) + k
      BY <1>2, <2>1
    <3>2. CASE a = 1
      <4>1. InFront(e, 1)' = m /\ InFront(e, 2)' = InFront(e, 2)
        BY <1>3, <2>5, <2>8, <3>2
      <4>2. m + n = InFront(e, 1) + InDone(e) + k
        BY <2>8, <3>2
      <4> QED BY <2>3, <2>4, <2>8, <3>1, <4>1, <4>2
    <3>3. CASE a = 2
      <4>1. InFront(e, 2)' = m /\ InFront(e, 1)' = InFront(e, 1)
        BY <1>3, <2>5, <2>8, <3>3
      <4>2. m + n = InFront(e, 2) + InDone(e) + k
        BY <2>8, <3>3
      <4>3. InDone(e)' + InFront(e, 1)' + InFront(e, 2)' = n + InFront(e, 1) + m
        BY <2>8, <4>1
      <4>4. n + InFront(e, 1) + m = InDone(e) + InFront(e, 1) + InFront(e, 2) + k
        <5>1. PICK x \in Nat, y \in Nat, z \in Nat : x = InFront(e, 1) /\ y = InFront(e, 2) /\ z = InDone(e)
          BY <2>4
        <5>2. m + n = y + z + k /\ k \in Nat
          BY <2>3, <4>2, <5>1
        <5>3. n + x + m = z + x + y + k
          BY <5>2
        <5> QED BY <5>1, <5>3
      <4> QED BY <3>1, <4>3, <4>4
    <3> QED BY <1>3, <3>2, <3>3
  <2>6. CASE TakesSome(e, a, k)
    <3>1. Sets(e, a, With(todo[e][a], d \o c)) /\ done'[e] = done[e] /\ todo[e][a][1].do \in MessageKinds
      BY <1>3, <2>2, <2>6 DEF TakesSome, Sets, MessageKinds
    <3>2. todo'[e][a] = With(todo[e][a], d \o c)
      BY <3>1, Changed
    <3>3. Holds(todo'[e][a], MessageKinds) = d \o c
      BY <2>2, <2>3, <3>1, <3>2, HoldsWith
    <3>4. InOrderNow
      BY <1>3, <2>1, <3>1, <3>3
    <3>5. InFront(e, a)' = Len(d) + k /\ InDone(e)' = InDone(e)
      BY <2>3, <3>1, <3>3 DEF InFront, InDone
    <3>6. Counted
      <4>1. PICK m \in Nat, n \in Nat : m = Len(d) + k /\ n = InDone(e)
        BY <2>3, <2>4
      <4>2. InFront(e, a)' = m /\ InDone(e)' = n /\ m + n = InFront(e, a) + InDone(e) + k
        BY <2>3, <2>4, <3>5, <4>1
      <4> HIDE DEF Counted
      <4> QED BY <2>8, <4>2
    <3> QED BY <3>4, <3>6
  <2>7. CASE TakesLast(e, a, k)
    <3>1. Sets(e, a, Tail(todo[e][a])) /\ done'[e] = Append(done[e], d \o c)
      BY <2>7 DEF TakesLast, Sets
    <3>2. todo'[e][a] = Tail(todo[e][a])
      BY <3>1, Changed
    <3>3. Holds(todo'[e][a], MessageKinds) = <<>>
      BY <2>2, <3>2, HoldsTail DEF MessageKinds
    <3>4. \A b \in 1 .. 2 : InOrder(Holds(todo'[e][b], MessageKinds), Read(e)')
      BY <1>3, <2>1, <2>2, <3>3, OrderEmpty
    <3>5. \A i \in DOMAIN done'[e] : InOrder(done'[e][i], Read(e)')
      <4> DEFINE x == d \o c  Q == Seq(Byte)  s == done[e]
      <4>1. s \in Seq(Q) /\ x \in Q
        BY <2>2, <2>3
      <4> HIDE DEF x, Q, s
      <4>2. Len(Append(s, x)) = Len(s) + 1 /\ Len(s) \in Nat /\ Append(s, x) \in Seq(Q)
            /\ \A i \in 1 .. Len(s) + 1 : Append(s, x)[i] = IF i <= Len(s) THEN s[i] ELSE x
        BY <4>1, AppendProperties, LenProperties
      <4>3. DOMAIN Append(s, x) = 1 .. Len(s) + 1 /\ DOMAIN s = 1 .. Len(s)
        BY <4>1, <4>2, LenProperties
      <4>4. \A i \in DOMAIN Append(s, x) : Append(s, x)[i] = x \/ (i \in DOMAIN s /\ Append(s, x)[i] = s[i])
        BY <4>2, <4>3
      <4>5. done'[e] = Append(s, x)
        BY <3>1 DEF s, x
      <4>6. InOrder(x, Read(e)') /\ \A i \in DOMAIN s : InOrder(s[i], Read(e)')
        BY <2>1 DEF s, x
      <4> QED BY <4>4, <4>5, <4>6
    <3>6. InFront(e, a)' = 0 /\ InDone(e)' = InDone(e) + (Len(d) + k)
      <4>1. FlattenSeq(Append(done[e], d \o c)) = FlattenSeq(done[e]) \o (d \o c) /\ FlattenSeq(done[e]) \in Seq(Byte)
        BY <2>2, <2>3, FlattenAppend, FlattenType
      <4>2. Len(FlattenSeq(done[e]) \o (d \o c)) = Len(FlattenSeq(done[e])) + Len(d \o c)
        BY <2>3, <4>1, ConcatProperties
      <4>3. InDone(e)' = InDone(e) + (Len(d) + k)
        BY <2>3, <3>1, <4>1, <4>2 DEF InDone
      <4> QED BY <3>3, <4>3 DEF InFront
    <3>7. Counted
      <4>1. PICK n \in Nat : n = InDone(e) + (Len(d) + k)
        BY <2>3, <2>4
      <4>2. 0 + n = InFront(e, a) + InDone(e) + k
        BY <2>3, <2>4, <4>1
      <4>3. InFront(e, a)' = 0 /\ InDone(e)' = n
        BY <3>6, <4>1
      <4> HIDE DEF Counted
      <4> QED BY <2>8, <4>2, <4>3
    <3> QED BY <3>4, <3>5, <3>7
  <2> QED BY <1>13, <2>6, <2>7
<1> HIDE DEF InOrderNow, Counted
<1> QED BY <1>8, <1>9, <1>10, <1>11, <1>12, <1>13 DEF Local

(***************************************************************************)
(* Two writes at a time.                                                   *)
(***************************************************************************)
LEMMA BytesOf == \A m \in Nat : \A x : x \in Bytes(m) <=> \E i \in 1 .. Size : x = <<m, i>>
<1> SUFFICES ASSUME NEW m \in Nat, NEW x
             PROVE  x \in Bytes(m) <=> \E i \in 1 .. Size : x = <<m, i>>
  OBVIOUS
<1>1. Message(m) \in Seq(Byte) /\ Len(Message(m)) = Size /\ \A i \in 1 .. Size : Message(m)[i] = <<m, i>>
  BY MessageType
<1>2. x \in Range(Message(m)) <=> \E i \in 1 .. Len(Message(m)) : Message(m)[i] = x
  BY <1>1, RangeIs
<1> QED BY <1>1, <1>2 DEF Bytes

LEMMA BytesApart == \A m, n \in Nat : \A x : x \in Bytes(m) /\ x \in Bytes(n) => m = n
BY BytesOf

\* A piece of message m goes into the stream.
Rest(o, data, m) == Only(o, Bytes(m)) \o data = Message(m)
Same(o, t, n) == Only(t, Bytes(n)) = Only(o, Bytes(n))

LEMMA PieceWritten ==
  ASSUME NEW o \in Seq(Byte), NEW s \in Seq(Byte), NEW u \in Seq(Byte), NEW m \in Nat,
         Rest(o, s \o u, m)
  PROVE  Rest(o \o s, u, m) /\ \A n \in Nat \ {m} : Same(o, o \o s, n)
<1> DEFINE p == Only(o, Bytes(m))
<1>1. p \in Seq(Byte)
  BY OnlyType
<1> HIDE DEF p
<1>2. (p \o s) \o u = p \o (s \o u) /\ p \o s \in Seq(Byte)
  BY <1>1, Joined
<1>3. Message(m) = (p \o s) \o u
  BY <1>2 DEF p, Rest
<1> DEFINE z == p \o s
<1>4. /\ Len(p) \in Nat /\ Len(s) \in Nat /\ Len(z) = Len(p) + Len(s)
      /\ \A i \in 1 .. Len(p) + Len(s) : z[i] = IF i <= Len(p) THEN p[i] ELSE s[i - Len(p)]
  BY <1>1, ConcatProperties, LenProperties
<1>5. z \in Seq(Byte) /\ Message(m) = z \o u
  BY <1>2, <1>3
<1> HIDE DEF z
<1>6. /\ Len(u) \in Nat /\ Len(Message(m)) = Len(z) + Len(u)
      /\ \A i \in 1 .. Len(z) : Message(m)[i] = z[i]
  BY <1>5, ConcatProperties, LenProperties
<1>7. ASSUME NEW i \in 1 .. Len(s)
      PROVE  s[i] \in Bytes(m)
  <2>1. Len(p) + i \in 1 .. Len(p) + Len(s) /\ ~ (Len(p) + i <= Len(p)) /\ Len(p) + i - Len(p) = i
    BY <1>4
  <2>2. PICK j \in 1 .. Len(p) + Len(s) : j = Len(p) + i
    BY <2>1
  <2>3. z[j] = s[i]
    BY <1>4, <2>1, <2>2
  <2>4. j \in 1 .. Len(z) /\ j \in 1 .. Len(Message(m))
    BY <1>4, <1>6
  <2>5. Message(m)[j] = s[i]
    BY <1>6, <2>3, <2>4
  <2>6. Message(m) \in Seq(Byte)
    BY MessageType
  <2> QED BY <2>4, <2>5, <2>6, RangeIs DEF Bytes
<1>8. Only(s, Bytes(m)) = s
  BY <1>7, OnlyAll
<1>9. Only(o \o s, Bytes(m)) = p \o s
  <2>1. Only(o \o s, Bytes(m)) = Only(o, Bytes(m)) \o Only(s, Bytes(m))
    BY OnlyConcat
  <2> QED BY <1>8, <2>1 DEF p
<1>10. ASSUME NEW n \in Nat \ {m}
       PROVE  Only(o \o s, Bytes(n)) = Only(o, Bytes(n))
  <2>1. \A i \in 1 .. Len(s) : s[i] \notin Bytes(n)
    BY <1>7, BytesApart
  <2>2. Only(s, Bytes(n)) = <<>>
    BY <2>1, OnlyNone
  <2> DEFINE B == Bytes(n)
  <2> HIDE DEF B
  <2>4. Only(o \o s, B) = Only(o, B) \o Only(s, B)
    BY OnlyConcat
  <2>5. Only(o, B) \in Seq(Byte)
    BY OnlyType
  <2>3. Only(o \o s, Bytes(n)) = Only(o, Bytes(n)) \o Only(s, Bytes(n)) /\ Only(o, Bytes(n)) \in Seq(Byte)
    BY <2>4, <2>5, Zenon DEF B
  <2> QED BY <2>2, <2>3, ConcatEmptySeq
<1> QED BY <1>3, <1>9, <1>10 DEF Rest, Same

LEMMA OnceStays ==
  ASSUME NEW ops \in Ops, ops # <<>>, NEW kind, Once(ops, kind)
  PROVE  /\ Once(Tail(ops), kind) /\ \A data \in Seq(Byte) : Once(With(ops, data), kind)
         /\ ops[1].do = kind => \A i \in DOMAIN Tail(ops) : Tail(ops)[i].do # kind
         /\ \A i \in DOMAIN Tail(ops) : i + 1 \in DOMAIN ops /\ Tail(ops)[i] = ops[i + 1]
<1>1. /\ DOMAIN ops = 1 .. Len(ops) /\ Len(ops) \in Nat /\ Tail(ops) \in Ops /\ Len(Tail(ops)) = Len(ops) - 1
      /\ \A j \in 1 .. Len(Tail(ops)) : Tail(ops)[j] = ops[j + 1]
  BY HeadTailProperties, LenProperties DEF Ops
<1>2. DOMAIN Tail(ops) = 1 .. Len(ops) - 1
  BY <1>1, LenProperties DEF Ops
<1>3. \A i \in DOMAIN Tail(ops) : i \in Nat /\ i >= 1 /\ i + 1 \in DOMAIN ops /\ Tail(ops)[i] = ops[i + 1]
  BY <1>1, <1>2
<1>4. Once(Tail(ops), kind)
  BY <1>3 DEF Once
<1>5. ASSUME NEW data \in Seq(Byte)
      PROVE  Once(With(ops, data), kind)
  BY WithShape DEF Once
<1>6. ASSUME ops[1].do = kind, NEW i \in DOMAIN Tail(ops)
      PROVE  Tail(ops)[i].do # kind
  <2>1. i \in Nat /\ i >= 1 /\ i + 1 \in DOMAIN ops /\ Tail(ops)[i] = ops[i + 1] /\ 1 \in DOMAIN ops /\ i + 1 # 1
    BY <1>1, <1>3
  <2> QED BY <1>6, <2>1 DEF Once
<1> QED BY <1>3, <1>4, <1>5, <1>6

LEMMA AsyncWriter ==
  ASSUME Typed, NEW e \in Ends, pair[e] = "asyncWriteToSocket"
  PROVE  /\ Activities(e) = 1 .. 2
         /\ \A a \in Activities(e) : todo[e][a] # <<>> => todo[e][a][1].do \in {"connect", "write"}
<1>1. Activities(e) = 1 .. Len(P(e).activities)
  BY ActivitiesAre DEF Typed
<1>2. Activities(e) = 1 .. 2
  BY <1>1, ActivitiesOf DEF P
<1>3. \A a \in 1 .. 2 : KindsOf(pair[e], a) \subseteq {"connect", "write"}
  BY KindsTable
<1> QED BY <1>2, <1>3, FrontKind

\* What holds of message m, its activity and the stream.
PieceInv(ops, o, m) ==
  /\ IsPrefix(Only(o, Bytes(m)), Message(m))
  /\ Once(ops, "write")
  /\ \A i \in DOMAIN ops : ops[i].do = "write" => Only(o, Bytes(m)) \o ops[i].data = Message(m)

LEMMA PieceStays ==
  ASSUME NEW ops \in Ops, NEW o, NEW m, PieceInv(ops, o, m)
  PROVE  PieceInv(<<>>, o, m) /\ (ops # <<>> => PieceInv(Tail(ops), o, m))
<1>1. PieceInv(<<>>, o, m)
  BY DEF PieceInv, Once
<1>2. ASSUME ops # <<>>
      PROVE  PieceInv(Tail(ops), o, m)
  BY <1>2, OnceStays DEF PieceInv
<1> QED BY <1>1, <1>2

LEMMA PiecePut ==
  ASSUME NEW ops \in Ops, ops # <<>>, ops[1].do = "write", NEW o \in Seq(Byte), NEW m \in Nat, PieceInv(ops, o, m),
         NEW s \in Seq(Byte), NEW u \in Seq(Byte), s \o u = ops[1].data
  PROVE  /\ PieceInv(Tail(ops), o \o s, m) /\ PieceInv(With(ops, u), o \o s, m)
         /\ \A n \in Nat \ {m} : \A rest : PieceInv(rest, o, n) => PieceInv(rest, o \o s, n)
<1>1. /\ Only(o \o s, Bytes(m)) \o u = Message(m)
      /\ \A n \in Nat \ {m} : Only(o \o s, Bytes(n)) = Only(o, Bytes(n))
  <2>1. 1 \in DOMAIN ops
    BY EmptySeq, LenProperties DEF Ops
  <2>2. Rest(o, s \o u, m)
    BY <2>1 DEF PieceInv, Rest
  <2>3. Rest(o \o s, u, m) /\ \A n \in Nat \ {m} : Same(o, o \o s, n)
    BY <2>2, PieceWritten
  <2> QED BY <2>3 DEF Rest, Same
<1>2. IsPrefix(Only(o \o s, Bytes(m)), Message(m))
  <2>1. o \o s \in Seq(Byte)
    BY ConcatProperties
  <2>2. Only(o \o s, Bytes(m)) \in Seq(Byte)
    BY <2>1, OnlyType
  <2> QED BY <1>1, <2>2, PrefixConcat
<1>3. Once(ops, "write")
  BY DEF PieceInv
<1>4. PieceInv(Tail(ops), o \o s, m)
  BY <1>2, <1>3, OnceStays DEF PieceInv
<1>5. PieceInv(With(ops, u), o \o s, m)
  <2>1. Once(With(ops, u), "write")
    BY <1>3, OnceStays
  <2>2. /\ DOMAIN With(ops, u) = DOMAIN ops /\ 1 \in DOMAIN ops /\ With(ops, u)[1].data = u
        /\ \A i \in DOMAIN ops : With(ops, u)[i].do = ops[i].do
    BY WithShape
  <2>3. \A i \in DOMAIN With(ops, u) : With(ops, u)[i].do = "write" => i = 1
    BY <1>3, <2>2 DEF Once
  <2> QED BY <1>1, <1>2, <2>1, <2>2, <2>3 DEF PieceInv
<1>6. ASSUME NEW n \in Nat \ {m}, NEW rest, PieceInv(rest, o, n)
      PROVE  PieceInv(rest, o \o s, n)
  BY <1>1, <1>6 DEF PieceInv
<1> QED BY <1>4, <1>5, <1>6

LEMMA SharedWritesIs ==
  ASSUME NEW e, pair[e] = "asyncWriteToSocket"
  PROVE  SharedWrites(e) <=>
           /\ \A m \in 1 .. 2 : PieceInv(todo[e][m], out[e], m)
           /\ socket[e] # "closed" /\ ~cut =>
                Len(out[e]) + Len(WriteData(todo[e][1])) + Len(WriteData(todo[e][2])) = Len(Writes(e))
BY DEF SharedWrites, PieceInv

LEMMA SharedWritesNext ==
  ASSUME Typed, Shaped, NEW e \in Ends, Local(e), SharedWrites(e), TodoTyped(e), Grown(e),
         socket'[e] # "closed" => socket[e] # "closed"
  PROVE  SharedWrites(e)'
<1> DEFINE Pieces == \A m \in 1 .. 2 : PieceInv(todo'[e][m], out'[e], m)
           Counted == socket'[e] # "closed" /\ ~cut' =>
             Len(out'[e]) + Len(WriteData(todo'[e][1])) + Len(WriteData(todo'[e][2])) = Len(Writes(e))
<1> SUFFICES ASSUME pair[e] = "asyncWriteToSocket"
             PROVE  Pieces /\ Counted
  BY PairStep DEF SharedWrites, PieceInv, WriteData, Once, Bytes, Only
<1>1. /\ \A m \in 1 .. 2 : PieceInv(todo[e][m], out[e], m)
      /\ socket'[e] # "closed" /\ ~cut' =>
           Len(out[e]) + Len(WriteData(todo[e][1])) + Len(WriteData(todo[e][2])) = Len(Writes(e))
  BY SharedWritesIs DEF Shaped
<1>2. Activities(e) = 1 .. 2 /\ \A a \in Activities(e) : todo[e][a] # <<>> => todo[e][a][1].do \in {"connect", "write"}
  BY AsyncWriter
<1>3. /\ out[e] \in Seq(Byte) /\ Len(out[e]) \in Nat
      /\ \A a \in 1 .. 2 : /\ todo[e][a] \in Ops /\ todo'[e][a] \in Ops
                           /\ Len(WriteData(todo[e][a])) \in Nat /\ Len(WriteData(todo'[e][a])) \in Nat
  <2>1. out[e] \in Seq(Byte)
    BY DEF Typed
  <2>2. \A a \in 1 .. 2 : todo[e][a] \in Ops /\ todo'[e][a] \in Ops
    BY <1>2, ActivitiesAre, TodoAfter
  <2> QED BY <2>1, <2>2, WriteType, LenProperties
<1>4. CASE Stays(e)
  BY <1>1, <1>4 DEF Stays, Quiet
<1>5. CASE Clears(e)
  <2>1. out'[e] = out[e] /\ socket'[e] = "closed" /\ \A a \in 1 .. 2 : todo'[e][a] = <<>>
    BY <1>2, <1>5 DEF Clears, Quiet
  <2> QED BY <1>1, <1>3, <2>1, PieceStays
<1>6. ASSUME NEW a \in Activities(e), Skips(e, a)
      PROVE  Pieces /\ Counted
  <2>1. todo[e][a] # <<>> /\ todo[e][a][1].do # "write" /\ Sets(e, a, Tail(todo[e][a])) /\ out'[e] = out[e]
    BY <1>6 DEF Skips, Quiet, Sets
  <2>2. todo'[e][a] = Tail(todo[e][a]) /\ \A b \in Activities(e) : b # a => todo'[e][b] = todo[e][b]
    BY <2>1, Changed
  <2>3. WriteData(Tail(todo[e][a])) = WriteData(todo[e][a])
    BY <1>2, <1>3, <2>1, WriteSkips
  <2>4. \A b \in 1 .. 2 : WriteData(todo'[e][b]) = WriteData(todo[e][b])
    BY <1>2, <2>2, <2>3
  <2>5. Pieces
    BY <1>1, <1>2, <1>3, <2>1, <2>2, PieceStays
  <2>6. Counted
    <3>1. WriteData(todo'[e][1]) = WriteData(todo[e][1]) /\ WriteData(todo'[e][2]) = WriteData(todo[e][2])
      BY <2>4
    <3>2. socket'[e] # "closed" /\ ~cut' =>
            Len(out[e]) + Len(WriteData(todo[e][1])) + Len(WriteData(todo[e][2])) = Len(Writes(e))
      BY <1>1
    <3> QED BY <2>1, <3>1, <3>2
  <2> QED BY <2>5, <2>6
<1>7. ASSUME NEW a \in Activities(e), Drops(e, a)
      PROVE  Pieces /\ Counted
  <2>1. Sets(e, a, <<>>) /\ out'[e] = out[e] /\ cut
    BY <1>2, <1>7 DEF Drops, Quiet, Sets, IsAt, Reading
  <2>2. todo'[e][a] = <<>> /\ \A b \in Activities(e) : b # a => todo'[e][b] = todo[e][b]
    BY <2>1, Changed
  <2>3. Pieces
    BY <1>1, <1>2, <1>3, <2>1, <2>2, PieceStays
  <2>4. cut'
    BY <2>1 DEF Shaped
  <2> QED BY <2>3, <2>4
<1>8. ASSUME NEW a \in Activities(e), MeetsEof(e, a) \/ \E k \in 1 .. Unread(e) : TakesLast(e, a, k) \/ TakesSome(e, a, k) \/ TakesEcho(e, a, k)
      PROVE  FALSE
  BY <1>2, <1>8 DEF MeetsEof, TakesLast, TakesSome, TakesEcho, Takes
<1>9. ASSUME NEW a \in Activities(e), PutsLast(e, a) \/ \E k \in 1 .. Len(Data(e, a)) : PutsSome(e, a, k)
      PROVE  Pieces /\ Counted
  <2>1. todo[e][a] # <<>> /\ todo[e][a][1].do = "write" /\ socket[e] # "closed" /\ ~cut
    BY <1>2, <1>9 DEF PutsLast, PutsSome, Puts, Connected, Writing
  <2>2. \E s \in Seq(Byte), u \in Seq(Byte) :
          /\ s \o u = Data(e, a) /\ out'[e] = out[e] \o s
          /\ \/ Sets(e, a, Tail(todo[e][a]))
             \/ Sets(e, a, With(todo[e][a], u))
    <3>1. Data(e, a) \in Seq(Byte) /\ Len(Data(e, a)) \in Nat
      BY <2>1, DataType
    <3>2. ASSUME NEW k \in 0 .. Len(Data(e, a)), Puts(e, a, k)
          PROVE  LET s == SubSeq(Data(e, a), 1, k)  u == SubSeq(Data(e, a), k + 1, Len(Data(e, a)))
                 IN s \in Seq(Byte) /\ u \in Seq(Byte) /\ s \o u = Data(e, a) /\ out'[e] = out[e] \o s
      BY <2>1, <3>2, PutType DEF Puts
    <3>3. CASE PutsLast(e, a)
      <4>1. Puts(e, a, Len(Data(e, a))) /\ Sets(e, a, Tail(todo[e][a])) /\ Len(Data(e, a)) \in 0 .. Len(Data(e, a))
        BY <3>1, <3>3 DEF PutsLast, Sets
      <4> QED BY <3>2, <4>1
    <3>4. ASSUME NEW k \in 1 .. Len(Data(e, a)), PutsSome(e, a, k)
          PROVE  \E s \in Seq(Byte), u \in Seq(Byte) :
                   s \o u = Data(e, a) /\ out'[e] = out[e] \o s /\ Sets(e, a, With(todo[e][a], u))
      <4>1. Puts(e, a, k) /\ Sets(e, a, With(todo[e][a], SubSeq(Data(e, a), k + 1, Len(Data(e, a))))) /\ k \in 0 .. Len(Data(e, a))
        BY <3>1, <3>4 DEF PutsSome, Sets
      <4> QED BY <3>2, <4>1
    <3> QED BY <1>9, <3>3, <3>4
  <2>3. PICK s \in Seq(Byte), u \in Seq(Byte) :
          /\ s \o u = Data(e, a) /\ out'[e] = out[e] \o s
          /\ \/ Sets(e, a, Tail(todo[e][a]))
             \/ Sets(e, a, With(todo[e][a], u))
    BY <2>2
  <2>4. /\ todo'[e][a] \in {Tail(todo[e][a]), With(todo[e][a], u)}
        /\ \A b \in Activities(e) : b # a => todo'[e][b] = todo[e][b]
    <3>1. CASE Sets(e, a, Tail(todo[e][a]))
      BY <3>1, Changed
    <3>2. CASE Sets(e, a, With(todo[e][a], u))
      BY <3>2, Changed
    <3> QED BY <2>3, <3>1, <3>2
  <2>5. Pieces
    <3>1. /\ PieceInv(Tail(todo[e][a]), out[e] \o s, a) /\ PieceInv(With(todo[e][a], u), out[e] \o s, a)
          /\ \A n \in Nat \ {a} : \A rest : PieceInv(rest, out[e], n) => PieceInv(rest, out[e] \o s, n)
      <4>1. a \in Nat /\ PieceInv(todo[e][a], out[e], a) /\ s \o u = todo[e][a][1].data /\ todo[e][a] \in Ops
        BY <1>1, <1>2, <1>3, <2>3 DEF Data
      <4>2. out[e] \in Seq(Byte) /\ s \in Seq(Byte) /\ u \in Seq(Byte) /\ todo[e][a] # <<>> /\ todo[e][a][1].do = "write"
        BY <1>3, <2>1
      <4> QED BY <4>1, <4>2, PiecePut
    <3>2. ASSUME NEW m \in 1 .. 2
          PROVE  PieceInv(todo'[e][m], out'[e], m)
      <4>1. CASE m = a
        BY <2>3, <2>4, <3>1, <4>1
      <4>2. CASE m # a
        <5>1. m \in Nat \ {a} /\ todo'[e][m] = todo[e][m] /\ PieceInv(todo[e][m], out[e], m)
          BY <1>1, <1>2, <2>4, <4>2
        <5> QED BY <2>3, <3>1, <5>1
      <4> QED BY <4>1, <4>2
    <3> QED BY <3>2
  <2>6. PICK t \in Seq(Byte) : out'[e] = out[e] \o t /\ WriteData(todo[e][a]) = t \o WriteData(todo'[e][a])
    BY <1>9, <2>1, WritePut
  <2>7. Len(out'[e]) = Len(out[e]) + Len(t) /\ Len(t) \in Nat
    BY <1>3, <2>6, ConcatProperties, LenProperties
  <2>8. Len(WriteData(todo[e][a])) = Len(t) + Len(WriteData(todo'[e][a]))
    BY <1>2, <1>3, <2>6, WriteType, ConcatProperties
  <2>9. Counted
    <3>0. Len(WriteData(todo[e][1])) \in Nat /\ Len(WriteData(todo[e][2])) \in Nat /\ Len(out[e]) \in Nat /\ Len(t) \in Nat
          /\ Len(WriteData(todo'[e][1])) \in Nat /\ Len(WriteData(todo'[e][2])) \in Nat
      BY <1>3, <2>7
    <3>1. PICK x \in Nat, y \in Nat, x1 \in Nat, y1 \in Nat, z \in Nat, k \in Nat :
            /\ x = Len(WriteData(todo[e][1])) /\ y = Len(WriteData(todo[e][2])) /\ z = Len(out[e]) /\ k = Len(t)
            /\ x1 = Len(WriteData(todo'[e][1])) /\ y1 = Len(WriteData(todo'[e][2]))
      BY <3>0
    <3>2. (x = k + x1 /\ y1 = y) \/ (y = k + y1 /\ x1 = x)
      BY <1>2, <2>4, <2>8, <3>1
    <3>3. Len(out'[e]) = z + k
      BY <2>7, <3>1
    <3>4. (z + k) + x1 + y1 = z + x + y
      BY <3>2
    <3> QED BY <1>1, <3>1, <3>3, <3>4
  <2> QED BY <2>5, <2>9
<1> HIDE DEF Pieces, Counted
<1> QED BY <1>4, <1>5, <1>6, <1>7, <1>8, <1>9 DEF Local

(***************************************************************************)
(* The end of a stream.                                                    *)
(***************************************************************************)
\* A program announces the end of its stream.
SaysLast(e) ==
  /\ Connected(e) /\ ~cut /\ out'[e] = out[e]
  /\ \/ \E a \in Activities(e) : At(e, a, "shutdownSend")
     \/ \A a \in Activities(e) : todo[e][a] = <<>>
     \/ /\ Unread(e) = 0 /\ fin[Other(e)]
        /\ \E a \in Activities(e) :
             IsAt(e, a, Reading) /\ ~At(e, a, "eof") /\ (At(e, a, "echo") => Data(e, a) = <<>>)

\* Closing the socket announces the end only of a connection nobody reset.
LEMMA CloseFin ==
  ASSUME Typed, NEW e \in Ends, NEW f \in Ends, Close(f)
  PROVE  fin'[e] = fin[e] \/ (e = f /\ Connected(e) /\ ~cut)
<1>1. fin' = [fin EXCEPT ![f] = fin[f] \/ (Connected(f) /\ Unread(f) = 0 /\ ~cut)] /\ fin \in [Ends -> BOOLEAN]
  BY DEF Close, Typed
<1>2. CASE e # f
  BY <1>1, <1>2
<1>3. CASE Connected(f) /\ ~cut
  BY <1>1, <1>3
<1>4. CASE ~ (Connected(f) /\ ~cut) /\ e = f
  <2>1. fin'[f] = (fin[f] \/ (Connected(f) /\ Unread(f) = 0 /\ ~cut))
    BY <1>1
  <2>2. fin'[f] = (fin[f] \/ FALSE) /\ fin[f] \in BOOLEAN
    BY <1>1, <1>4, <2>1
  <2> QED BY <1>4, <2>2
<1> QED BY <1>2, <1>3, <1>4

LEMMA FinNext ==
  ASSUME Typed, [Next]_vars, NEW e \in Ends, pair[e] \notin {"echoServerAsync", "echoClientAsync", "readwritesocket"}
  PROVE  fin'[e] = fin[e] \/ SaysLast(e)
<1>1. CASE Establish \/ Reset \/ UNCHANGED vars
  BY <1>1 DEF Establish, Reset, vars
<1>2. ASSUME NEW f \in Ends, Refuse(f)
      PROVE  fin'[e] = fin[e]
  BY <1>2 DEF Refuse
<1>3. ASSUME NEW f \in Ends, Disconnect(f)
      PROVE  fin'[e] = fin[e] \/ SaysLast(e)
  <2>1. e # f /\ Close(f)
    BY <1>3 DEF Disconnect
  <2> QED BY <2>1, CloseFin
<1>4. ASSUME NEW f \in Ends, Destroy(f)
      PROVE  fin'[e] = fin[e] \/ SaysLast(e)
  <2>1. Close(f) /\ out' = out /\ \A a \in Activities(f) : todo[f][a] = <<>>
    BY <1>4 DEF Destroy
  <2> QED BY <2>1, CloseFin DEF SaysLast
<1>5. ASSUME NEW f \in Ends, NEW a \in Activities(f), WriteSome(f, a) \/ ReadSome(f, a)
      PROVE  fin'[e] = fin[e]
  BY <1>5 DEF WriteSome, ReadSome
<1>6. ASSUME NEW f \in Ends, NEW a \in Activities(f), ShutdownSend(f, a)
      PROVE  fin'[e] = fin[e] \/ SaysLast(e)
  <2>1. At(f, a, "shutdownSend") /\ Connected(f) /\ ~cut /\ out' = out /\ (e # f => fin'[e] = fin[e])
    BY <1>6 DEF ShutdownSend, Typed
  <2> QED BY <2>1 DEF SaysLast
<1>7. ASSUME NEW f \in Ends, NEW a \in Activities(f), ReadEof(f, a)
      PROVE  fin'[e] = fin[e] \/ SaysLast(e)
  <2>1. /\ Unread(f) = 0 /\ fin[Other(f)] /\ IsAt(f, a, Reading) /\ (At(f, a, "echo") => Data(f, a) = <<>>) /\ out' = out
        /\ fin' = fin \/ (~At(f, a, "eof") /\ Close(f))
    BY <1>7 DEF ReadEof, Error
  <2>2. CASE Close(f) /\ ~At(f, a, "eof")
    <3>1. fin'[e] = fin[e] \/ (e = f /\ Connected(e) /\ ~cut)
      BY <2>2, CloseFin
    <3> QED BY <2>1, <2>2, <3>1 DEF SaysLast
  <2> QED BY <2>1, <2>2
<1>8. ASSUME NEW f \in Ends, NEW a \in Activities(f), Fails(f, a)
      PROVE  fin'[e] = fin[e]
  <2>1. cut /\ (fin' = fin \/ Close(f))
    BY <1>8 DEF Fails, Error
  <2> QED BY <2>1, CloseFin
<1> QED BY <1>1, <1>2, <1>3, <1>4, <1>5, <1>6, <1>7, <1>8 DEF Next, Progress

\* One of the programs whose peer waits for eof, and how it writes.
LEMMA TrustedNames ==
  ASSUME Typed, NEW e \in Ends, Trusted(e)
  PROVE  /\ pair[e] \notin {"echoServerAsync", "echoClientAsync", "readwritesocket"}
         /\ Echoes(e) => pair[e] = "echoSession" /\ pair[Other(e)] = "clientClose" /\ Promised(e) = Writes(Other(e))
         /\ ~Echoes(e) => Promised(e) = Writes(e)
         /\ ~Echoes(e) => pair[e] \in {"clientClose", "serverClose", "daytimeServer", "writeToSocket", "asyncWriteToSocket"}
<1>1. pair[e] = "echoSession" => pair[Other(e)] = "clientClose"
  BY DEF Typed, Pairs, Ends, Other
<1> QED BY <1>1 DEF Trusted, Echoes, Promised

\* Nobody says more than it promised.
LEMMA SpeaksNoMore ==
  ASSUME Typed, Shaped, NEW e \in Ends, Local(e), Grown(e), TodoTyped(e), Trusted(e), ~Echoes(e), WritesInv(e)',
         SharedWrites(e), SaidAll(e)
  PROVE  Len(out'[e]) <= Len(Promised(e))
<1>1. Promised(e) = Writes(e) /\ out[e] \in Seq(Byte) /\ out'[e] \in Seq(Byte)
  <2>1. PICK t \in Seq(Byte) : out'[e] = out[e] \o t
    BY DEF Grown
  <2>2. out[e] \in Seq(Byte)
    BY DEF Typed
  <2> QED BY <2>1, <2>2, TrustedNames, ConcatProperties
<1>2. CASE pair[e] # "asyncWriteToSocket"
  <2>1. IsPrefix(out'[e], Writes(e))
    BY <1>2, PairStep DEF WritesInv
  <2>2. Len(out'[e]) <= Len(Writes(e))
    BY <2>1 DEF IsPrefix
  <2> QED BY <1>1, <2>2
<1>3. CASE pair[e] = "asyncWriteToSocket"
  <2>1. Activities(e) = 1 .. 2 /\ \A a \in Activities(e) : todo[e][a] # <<>> => todo[e][a][1].do \in {"connect", "write"}
    BY <1>3, AsyncWriter
  <2>2. CASE out'[e] = out[e]
    BY <2>2 DEF SaidAll
  <2>3. ASSUME NEW a \in Activities(e), PutsLast(e, a) \/ \E k \in 1 .. Len(Data(e, a)) : PutsSome(e, a, k)
        PROVE  Len(out'[e]) <= Len(Promised(e))
    <3>1. todo[e][a] # <<>> /\ todo[e][a][1].do = "write" /\ socket[e] # "closed" /\ ~cut
      BY <2>1, <2>3 DEF PutsLast, PutsSome, Puts, Connected, Writing
    <3>2. PICK t \in Seq(Byte) : out'[e] = out[e] \o t /\ WriteData(todo[e][a]) = t \o WriteData(todo'[e][a])
      BY <2>3, <3>1, WritePut
    <3>3. \A b \in Activities(e) : WriteData(todo[e][b]) \in Seq(Byte) /\ Len(WriteData(todo[e][b])) \in Nat
      BY ActivitiesAre, WriteType, LenProperties
    <3>4. WriteData(todo'[e][a]) \in Seq(Byte)
      BY TodoAfter, WriteType
    <3>5. Len(out[e]) + Len(WriteData(todo[e][1])) + Len(WriteData(todo[e][2])) = Len(Writes(e))
      BY <1>3, <3>1 DEF SharedWrites
    <3>6. Len(out'[e]) = Len(out[e]) + Len(t) /\ Len(out[e]) \in Nat /\ Len(t) \in Nat
      BY <1>1, <3>2, ConcatProperties, LenProperties
    <3>7. Len(t) <= Len(WriteData(todo[e][a]))
      BY <3>2, <3>4, ConcatProperties, LenProperties
    <3>8. Len(WriteData(todo[e][1])) \in Nat /\ Len(WriteData(todo[e][2])) \in Nat
          /\ (Len(t) <= Len(WriteData(todo[e][1])) \/ Len(t) <= Len(WriteData(todo[e][2])))
      BY <2>1, <3>3, <3>7
    <3>9. PICK x \in Nat, y \in Nat, z \in Nat, k \in Nat :
            x = Len(WriteData(todo[e][1])) /\ y = Len(WriteData(todo[e][2])) /\ z = Len(out[e]) /\ k = Len(t)
      BY <3>6, <3>8
    <3>11. k <= x \/ k <= y
      BY <3>8, <3>9, Zenon
    <3>10. z + k <= z + x + y
      BY <3>11
    <3> QED BY <1>1, <3>5, <3>6, <3>9, <3>10
  <2>4. CASE \A a \in Activities(e) : ~ (PutsLast(e, a) \/ \E k \in 1 .. Len(Data(e, a)) : PutsSome(e, a, k))
    <3>1. out'[e] = out[e]
      BY <2>4 DEF Local, Stays, Clears, Quiet, Skips, Drops, MeetsEof, TakesLast, TakesSome, TakesEcho, Takes
    <3> QED BY <2>2, <3>1
  <2> QED BY <2>3, <2>4
<1> QED BY <1>2, <1>3

\* Nothing is left to write behind a shutdown, or in a finished activity.
LEMMA AllSaid ==
  ASSUME NEW ops \in Ops, Formed(ops), ops = <<>> \/ ops[1].do = "shutdownSend"
  PROVE  WriteData(ops) = <<>>
<1>1. DOMAIN ops = 1 .. Len(ops) /\ Len(ops) \in Nat /\ (ops = <<>> => Len(ops) = 0)
  BY LenProperties DEF Ops
<1>2. ASSUME NEW i \in DOMAIN ops
      PROVE  ops[i].do # "write"
  <2>1. i \in 1 .. Len(ops) /\ ops # <<>> /\ 1 \in DOMAIN ops /\ ops[1].do = "shutdownSend"
    BY <1>1
  <2>2. CASE i = 1
    BY <2>1, <2>2
  <2>3. CASE i # 1
    <3>1. 1 < i
      BY <1>1, <2>1, <2>3
    <3> QED BY <1>2, <2>1, <3>1 DEF Formed, SendsFirst
  <2> QED BY <2>2, <2>3
<1> QED BY <1>2, WriteNothing

\* An end that announces the end of its stream has said everything.
LEMMA SaysLastSaid ==
  ASSUME Typed, NEW e \in Ends, Trusted(e), SaysLast(e), WritesInv(e), SharedWrites(e), EchoesInv(e), SaidAll(Other(e))
  PROVE  Len(out[e]) = Len(Promised(e))
<1>1. /\ Connected(e) /\ ~cut /\ socket[e] # "closed" /\ out[e] \in Seq(Byte)
      /\ \A a \in Activities(e) : todo[e][a] \in Ops /\ Formed(todo[e][a])
  BY ActivitiesAre DEF SaysLast, Connected, Typed
<1>2. CASE Echoes(e)
  <2>1. /\ pair[e] = "echoSession" /\ pair[Other(e)] = "clientClose" /\ Promised(e) = Writes(Other(e)) /\ Echoer(e) = 1
        /\ Other(e) \in Ends
    BY <1>2, TrustedNames, EndsOf DEF Echoer
  <2>2. out[e] \o Holds(todo[e][1], EchoKinds) = Read(e) /\ \E i \in DOMAIN todo[e][1] : todo[e][1][i].do \in EchoKinds
    BY <1>1, <1>2, <2>1 DEF EchoesInv
  <2>3. 1 \in Activities(e) /\ Activities(e) = {1}
    <3>1. Len(todo[e]) = 1
      BY <2>1, EchoOnly DEF Typed, P
    <3> QED BY <3>1, ActivitiesAre
  <2>4. todo[e][1] # <<>>
    BY <2>2
  <2>5. todo[e][1][1].do \in {"accept", "echo"}
    BY <2>1, <2>3, <2>4, FrontKind, EchoOnly
  <2>6. Unread(e) = 0 /\ fin[Other(e)] /\ At(e, 1, "echo") /\ Data(e, 1) = <<>>
    BY <2>3, <2>4, <2>5 DEF SaysLast, At, IsAt, Reading
  <2>7. Holds(todo[e][1], EchoKinds) = <<>>
    BY <2>6 DEF Holds, At, Data, EchoKinds
  <2>8. out[e] = Read(e) /\ Len(Read(e)) = taken[e]
    BY <1>1, <2>2, <2>7, ReadType, ConcatEmptySeq
  <2>9. taken[e] = Len(out[Other(e)])
    <3>1. out[Other(e)] \in Seq(Byte) /\ taken[e] \in Nat
      BY <2>1 DEF Typed
    <3>2. Len(out[Other(e)]) \in Nat /\ Len(out[Other(e)]) - taken[e] = 0
      BY <2>6, <3>1, LenProperties DEF Unread
    <3> QED BY <3>1, <3>2
  <2>10. Len(out[Other(e)]) = Len(Writes(Other(e)))
    BY <2>1, <2>6 DEF SaidAll, Trusted, Promised, Echoes
  <2> QED BY <2>1, <2>8, <2>9, <2>10
<1>3. CASE ~Echoes(e)
  <2>1. Promised(e) = Writes(e)
        /\ pair[e] \in {"clientClose", "serverClose", "daytimeServer", "writeToSocket", "asyncWriteToSocket"}
    BY <1>3, TrustedNames
  <2>2. \A a \in Activities(e) : KindsOf(pair[e], a) \subseteq {"connect", "accept", "write", "shutdownSend", "eof"}
    BY <2>1, ActivitiesAre, EofOnly DEF P
  <2>3. ~ \E a \in Activities(e) : IsAt(e, a, Reading) /\ ~At(e, a, "eof")
    BY <2>2, FrontKind DEF IsAt, At, Reading
  <2>4. \E a \in Activities(e) : /\ At(e, a, "shutdownSend")
                                 /\ pair[e] \in {"clientClose", "serverClose"} /\ a = 1
        \/ \A b \in Activities(e) : todo[e][b] = <<>>
    <3>1. ASSUME NEW a \in Activities(e), At(e, a, "shutdownSend")
          PROVE  pair[e] \in {"clientClose", "serverClose"} /\ a = 1
      <4>1. "shutdownSend" \in KindsOf(pair[e], a) /\ a \in {1, 2}
        BY <3>1, FrontKind, ActivitiesAre DEF At
      <4>2. pair[e] \in {"clientClose", "serverClose"}
        <5>1. pair[e] # "asyncWriteToSocket"
          BY <3>1, AsyncWriter DEF At
        <5>2. pair[e] \in {"daytimeServer", "writeToSocket"} => Len(P(e).activities) = 1
          <6>1. \A x : Len(<<x>>) = 1
            OBVIOUS
          <6>2. CASE pair[e] = "daytimeServer"
            BY <6>1, <6>2, ActivitiesOf, Zenon DEF P
          <6>3. CASE pair[e] = "writeToSocket"
            BY <6>1, <6>3, ActivitiesOf, Zenon DEF P
          <6> QED BY <6>2, <6>3
        <5>3. pair[e] \in {"daytimeServer", "writeToSocket"} => a = 1
          BY <4>1, <5>2, ActivitiesAre DEF Typed
        <5> QED BY <2>1, <4>1, <5>1, <5>3, KindsTable
      <4>3. Len(P(e).activities) = 1
        BY <4>2, OneActivity DEF P
      <4> QED BY <4>2, <4>3, ActivitiesAre DEF Typed
    <3> QED BY <2>3, <3>1, ActivitiesAre DEF SaysLast
  <2>5. \A a \in Activities(e) : todo[e][a] = <<>> \/ At(e, a, "shutdownSend") => WriteData(todo[e][a]) = <<>>
    BY <1>1, AllSaid DEF At
  <2>6. CASE pair[e] # "asyncWriteToSocket"
    <3>1. Writer(e) = 1 /\ 1 \in Activities(e)
      BY <2>1, ActivitiesAre DEF Writer
    <3>2. WriteData(todo[e][1]) = <<>>
      BY <2>4, <2>5, <3>1
    <3>3. out[e] \o WriteData(todo[e][1]) = Writes(e)
      BY <1>1, <1>3, <2>6, <3>1 DEF WritesInv
    <3> QED BY <1>1, <2>1, <3>2, <3>3, ConcatEmptySeq
  <2>7. CASE pair[e] = "asyncWriteToSocket"
    <3>1. Activities(e) = 1 .. 2
      BY <2>7, AsyncWriter
    <3>2. WriteData(todo[e][1]) = <<>> /\ WriteData(todo[e][2]) = <<>>
      BY <2>4, <2>5, <2>7, <3>1
    <3>3. Len(out[e]) + Len(WriteData(todo[e][1])) + Len(WriteData(todo[e][2])) = Len(Writes(e))
      BY <1>1, <2>7 DEF SharedWrites
    <3>4. Len(WriteData(todo[e][1])) = 0 /\ Len(WriteData(todo[e][2])) = 0 /\ Len(out[e]) \in Nat
      BY <1>1, <3>2, LenProperties
    <3> QED BY <2>1, <3>3, <3>4
  <2> QED BY <2>6, <2>7
<1> QED BY <1>2, <1>3

LEMMA SaidAllNext ==
  ASSUME Typed, Shaped, Typed', [Next]_vars, NEW e \in Ends, \A x \in Ends : Local(x) /\ Grown(x) /\ TodoTyped(x),
         \A x \in Ends : WritesInv(x) /\ WritesInv(x)' /\ SharedWrites(x) /\ EchoesInv(x) /\ SaidAll(x),
         EchoesInv(e)'
  PROVE  SaidAll(e)'
<1>1. Other(e) \in Ends
  BY EndsOf
<1> SUFFICES ASSUME Trusted(e)
             PROVE  Len(out'[e]) <= Len(Promised(e)) /\ (fin'[e] => Len(out'[e]) = Len(Promised(e)))
  BY PairStep DEF SaidAll, Trusted
<1>2. ASSUME NEW x \in Ends, Trusted(x), ~Echoes(x)
      PROVE  Len(out'[x]) <= Len(Promised(x))
  BY <1>2, SpeaksNoMore
<1>3. Len(out'[e]) <= Len(Promised(e))
  <2>1. CASE ~Echoes(e)
    BY <1>2, <2>1
  <2>2. CASE Echoes(e)
    <3>1. pair[Other(e)] = "clientClose" /\ Promised(e) = Writes(Other(e))
      BY <2>2, TrustedNames
    <3>2. Trusted(Other(e)) /\ ~Echoes(Other(e)) /\ Promised(Other(e)) = Writes(Other(e))
      BY <3>1 DEF Trusted, Echoes, Promised
    <3>3. Len(out'[Other(e)]) <= Len(Writes(Other(e)))
      BY <1>1, <1>2, <3>2
    <3>4. IsPrefix(out'[e], Read(e)')
      BY <2>2, PairStep DEF EchoesInv
    <3>5. taken'[e] <= Len(out'[Other(e)])
      BY DEF Typed
    <3>6. Len(Read(e)') = taken'[e]
      <4>1. out'[Other(e)] \in Seq(Byte) /\ taken'[e] \in Nat
        BY <1>1 DEF Typed
      <4>2. taken'[e] \in 0 .. Len(out'[Other(e)])
        BY <3>5, <4>1, LenProperties
      <4> QED BY <4>1, <4>2, Cut DEF Read
    <3>7. Len(out'[e]) <= Len(Read(e)')
      BY <3>4 DEF IsPrefix
    <3>8. Len(out'[e]) \in Nat /\ taken'[e] \in Nat /\ Len(out'[Other(e)]) \in Nat /\ Len(Writes(Other(e))) \in Nat
      <4>1. out'[e] \in Seq(Byte) /\ taken'[e] \in Nat /\ out'[Other(e)] \in Seq(Byte)
        BY <1>1 DEF Typed
      <4>2. Writes(Other(e)) \in Seq(Byte)
        <5>1. P(Other(e)).activities \in Seq(Ops)
          BY <1>1, ActivitiesAre, Sizes DEF P
        <5> QED BY <5>1, WritesOf, WriteType, FlattenType DEF Ops
      <4> QED BY <4>1, <4>2, LenProperties
    <3> QED BY <3>1, <3>3, <3>5, <3>6, <3>7, <3>8
  <2> QED BY <2>1, <2>2
<1>4. fin[e] => Len(out'[e]) = Len(Promised(e))
  <2>1. PICK t \in Seq(Byte) : out'[e] = out[e] \o t
    BY DEF Grown
  <2>2. Len(out'[e]) = Len(out[e]) + Len(t) /\ Len(out[e]) \in Nat /\ Len(t) \in Nat
    BY <2>1, ConcatProperties, LenProperties DEF Typed
  <2>3. fin[e] => Len(out[e]) = Len(Promised(e))
    BY DEF SaidAll
  <2> QED BY <1>3, <2>2, <2>3
<1>5. SaysLast(e) => Len(out'[e]) = Len(Promised(e))
  <2>1. SaysLast(e) => out'[e] = out[e]
    BY DEF SaysLast
  <2> QED BY <1>1, <2>1, SaysLastSaid
<1>6. fin'[e] = fin[e] \/ SaysLast(e)
  BY TrustedNames, FinNext
<1> QED BY <1>3, <1>4, <1>5, <1>6

\* A read up to eof ends with everything the other end had to say.
LEMMA WholeNext ==
  ASSUME Typed, Shaped, NEW e \in Ends, Local(e), WholeInv(e), ReadsInv(e), SaidAll(Other(e)), TodoTyped(e)
  PROVE  WholeInv(e)'
<1> DEFINE Goal == /\ \A i \in DOMAIN todo'[e][1] : todo'[e][1][i].do = "eof" => done'[e] = <<>>
                   /\ done'[e] # <<>> /\ Trusted(Other(e)) => Len(done'[e][1]) = Len(Promised(Other(e)))
<1>1. Other(e) \in Ends
  BY EndsOf
<1> SUFFICES ASSUME ReadsToEof(e)
             PROVE  Goal
  BY <1>1, PairStep DEF WholeInv, ReadsToEof, Trusted
<1>2. /\ \A i \in DOMAIN todo[e][1] : todo[e][1][i].do = "eof" => done[e] = <<>>
      /\ done[e] # <<>> /\ Trusted(Other(e)) => Len(done[e][1]) = Len(Promised(Other(e)))
  BY DEF WholeInv
<1>3. /\ Activities(e) = {1} /\ todo[e][1] \in Ops /\ Formed(todo[e][1])
      /\ KindsOf(pair[e], 1) \subseteq {"connect", "accept", "write", "shutdownSend", "eof"}
  <2>1. Len(todo[e]) = 1
    BY OneActivity DEF Typed, P, ReadsToEof
  <2>2. Activities(e) = {1} /\ todo[e][1] \in Ops /\ Formed(todo[e][1]) /\ 1 \in DOMAIN P(e).activities
    BY <2>1, ActivitiesAre DEF Typed
  <2> QED BY <2>2, EofOnly DEF P, ReadsToEof
<1> DEFINE ops == todo[e][1]
<1>4. ASSUME done'[e] = done[e], \A i \in DOMAIN todo'[e][1] : \E j \in DOMAIN ops : ops[j].do = todo'[e][1][i].do
      PROVE  Goal
  BY <1>2, <1>4
<1>5. CASE Stays(e)
  BY <1>4, <1>5 DEF Stays, Quiet
<1>6. CASE Clears(e)
  <2>1. todo'[e][1] = <<>> /\ done'[e] = done[e]
    BY <1>3, <1>6 DEF Clears, Quiet
  <2> QED BY <1>4, <2>1
<1>7. ASSUME NEW a \in Activities(e), Skips(e, a) \/ PutsLast(e, a)
      PROVE  Goal
  <2>1. a = 1 /\ ops # <<>> /\ Sets(e, 1, Tail(ops)) /\ done'[e] = done[e]
    BY <1>3, <1>7 DEF Skips, Quiet, PutsLast, Puts, Sets
  <2>2. todo'[e][1] = Tail(ops)
    BY <1>3, <2>1, Changed
  <2>3. \A i \in DOMAIN Tail(ops) : i + 1 \in DOMAIN ops /\ Tail(ops)[i] = ops[i + 1]
    BY <1>3, <2>1, OnceStays DEF Formed
  <2> HIDE DEF ops
  <2> QED BY <1>4, <2>1, <2>2, <2>3
<1>8. ASSUME NEW a \in Activities(e), Drops(e, a)
      PROVE  FALSE
  BY <1>8, ActivityErrors DEF Drops, ReadsToEof
<1>9. ASSUME NEW a \in Activities(e), NEW d \in Seq(Byte), todo[e][a] # <<>>, done'[e] = done[e], Sets(e, a, With(todo[e][a], d))
      PROVE  Goal
  <2>1. a = 1 /\ todo'[e][1] = With(ops, d)
    BY <1>3, <1>9, Changed
  <2>2. DOMAIN With(ops, d) = DOMAIN ops /\ \A i \in DOMAIN ops : With(ops, d)[i].do = ops[i].do
    BY <1>3, <1>9, <2>1, WithShape
  <2> HIDE DEF ops
  <2> QED BY <1>4, <1>9, <2>1, <2>2
<1>10. ASSUME NEW a \in Activities(e), NEW k \in 1 .. Len(Data(e, a)), PutsSome(e, a, k)
       PROVE  Goal
  <2> DEFINE d == SubSeq(Data(e, a), k + 1, Len(Data(e, a)))
  <2>1. todo[e][a] # <<>> /\ Sets(e, a, With(todo[e][a], d)) /\ done'[e] = done[e]
    BY <1>10 DEF PutsSome, Puts, Sets
  <2>2. k \in 0 .. Len(Data(e, a))
    BY <2>1, DataType
  <2>3. d \in Seq(Byte)
    BY <2>1, <2>2, PutType
  <2> QED BY <1>9, <2>1, <2>3
<1>11. ASSUME NEW a \in Activities(e), NEW k \in 1 .. Unread(e), TakesSome(e, a, k)
       PROVE  Goal
  <2> DEFINE d == Data(e, a) \o Chunk(e, k)
  <2>1. todo[e][a] # <<>> /\ Sets(e, a, With(todo[e][a], d)) /\ done'[e] = done[e]
    BY <1>11 DEF TakesSome, Takes, Sets
  <2>2. d \in Seq(Byte)
    BY <2>1, DataType, ChunkType, ConcatProperties
  <2> QED BY <1>9, <2>1, <2>2
<1>12. ASSUME NEW a \in Activities(e), NEW k \in 1 .. Unread(e), TakesLast(e, a, k) \/ TakesEcho(e, a, k)
       PROVE  FALSE
  <2>1. todo[e][a] # <<>> /\ todo[e][a][1].do \in {"full", "line", "echoRecv"} /\ a = 1
    BY <1>3, <1>12 DEF TakesLast, TakesEcho, Takes
  <2> QED BY <1>3, <2>1, FrontKind
<1>13. ASSUME NEW a \in Activities(e), MeetsEof(e, a)
       PROVE  Goal
  <2>1. /\ a = 1 /\ ops # <<>> /\ ops[1].do = "eof" /\ Sets(e, 1, Tail(ops)) /\ done'[e] = Append(done[e], Data(e, 1))
        /\ Unread(e) = 0 /\ fin[Other(e)] /\ socket[e] # "closed"
    BY <1>3, <1>13 DEF MeetsEof, Sets, Connected
  <2>2. todo'[e][1] = Tail(ops)
    BY <1>3, <2>1, Changed
  <2>3. \A i \in DOMAIN Tail(ops) : Tail(ops)[i].do # "eof"
    BY <1>3, <2>1, OnceStays DEF Formed
  <2>4. 1 \in DOMAIN ops
    BY <1>3, <2>1, FrontKind
  <2>5. done[e] = <<>>
    BY <1>2, <2>1, <2>4
  <2>6. Data(e, 1) \in Seq(Byte)
    BY <1>3, <2>1, DataType
  <2>7. done'[e][1] = Data(e, 1) /\ done'[e] # <<>>
    BY <2>1, <2>5, <2>6
  <2>8. Data(e, 1) = Read(e)
    <3>1. FlattenSeq(<<>>) \o Holds(todo[e][1], MessageKinds) = Read(e)
      BY <2>1, <2>5 DEF ReadsInv, Reader, ReadsToEof, Echoes
    <3>2. Holds(todo[e][1], MessageKinds) = Data(e, 1)
      BY <2>1 DEF Holds, Data, MessageKinds
    <3> QED BY <2>6, <3>1, <3>2, FlattenEmpty, ConcatEmptySeq
  <2>9. Len(Read(e)) = Len(out[Other(e)])
    <3>1. out[Other(e)] \in Seq(Byte) /\ taken[e] \in Nat
      BY <1>1 DEF Typed
    <3>2. Len(out[Other(e)]) \in Nat /\ Len(out[Other(e)]) - taken[e] = 0
      BY <2>1, <3>1, LenProperties DEF Unread
    <3> QED BY <3>1, <3>2, ReadType
  <2>10. Trusted(Other(e)) => Len(out[Other(e)]) = Len(Promised(Other(e)))
    BY <2>1 DEF SaidAll
  <2> QED BY <2>2, <2>3, <2>7, <2>8, <2>9, <2>10
<1> HIDE DEF Goal, ops
<1> QED BY <1>5, <1>6, <1>7, <1>8, <1>10, <1>11, <1>12, <1>13 DEF Local

(***************************************************************************)
(* The invariant holds: every step keeps it.                               *)
(***************************************************************************)
LEMMA StreamsInvNext ==
  ASSUME StreamsInv, [Next]_vars
  PROVE  StreamsInv'
<1>1. Typed /\ Shaped /\ Typed'
  BY ShapedNext, TypedNext DEF StreamsInv
<1>2. \A e \in Ends : Local(e) /\ SocketStep(e) /\ Grown(e) /\ TodoTyped(e) /\ Grown(Other(e)) /\ Other(e) \in Ends
  BY <1>1, LocalNext, GrownNext, EndsOf, TodoNext
<1>3. \A e \in Ends : /\ Closed(e) /\ ReadsInv(e) /\ WritesInv(e) /\ EchoesInv(e)
                      /\ SharedReads(e) /\ SharedWrites(e) /\ SaidAll(e) /\ WholeInv(e)
  BY DEF StreamsInv
<1>4. \A e \in Ends : Closed(e)' /\ (socket'[e] # "closed" => socket[e] # "closed")
  BY <1>1, <1>2, <1>3, ClosedNext
<1>5. \A e \in Ends : WritesInv(e)'
  BY <1>1, <1>2, <1>3, <1>4, WritesNext
<1>6. \A e \in Ends : EchoesInv(e)'
  BY <1>1, <1>2, <1>3, <1>4, EchoesNext
<1>7. \A e \in Ends : ReadsInv(e)'
  BY <1>1, <1>2, <1>3, <1>4, ReadsNext
<1>8. \A e \in Ends : SharedReads(e)'
  BY <1>1, <1>2, <1>3, <1>4, SharedReadsNext
<1>9. \A e \in Ends : SharedWrites(e)'
  BY <1>1, <1>2, <1>3, <1>4, SharedWritesNext
<1>10. \A e \in Ends : SaidAll(e)'
  BY <1>1, <1>2, <1>3, <1>5, <1>6, SaidAllNext
<1>11. \A e \in Ends : WholeInv(e)'
  BY <1>1, <1>2, <1>3, WholeNext
<1> QED BY <1>1, <1>4, <1>5, <1>6, <1>7, <1>8, <1>9, <1>10, <1>11 DEF StreamsInv

(***************************************************************************)
(* The invariant holds at the start.                                       *)
(***************************************************************************)
LEMMA NothingHeld ==
  ASSUME NEW ops, Unbegun(ops), NEW kinds, "write" \notin kinds
  PROVE  Holds(ops, kinds) = <<>>
BY LenProperties DEF Holds, Unbegun, Ops

LEMMA Empty == /\ <<>> \in Seq(Byte) /\ Len(<<>>) = 0 /\ FlattenSeq(<<>>) = <<>> /\ \A B : Only(<<>>, B) = <<>>
               /\ \A t \in Seq(Byte) : IsPrefix(<<>>, t) /\ <<>> \o t = t
<1>1. <<>> \in Seq(Byte) /\ Len(<<>>) = 0 /\ \A t \in Seq(Byte) : <<>> \o t = t
  BY ConcatEmptySeq
<1>2. ASSUME NEW B
      PROVE  Only(<<>>, B) = <<>>
  <2>1. PICK s \in Seq(Byte) : s = <<>> /\ Len(s) = 0
    BY <1>1
  <2>2. \A i \in 1 .. Len(s) : s[i] \notin B
    BY <2>1
  <2>3. Only(s, B) = <<>>
    BY <2>2, OnlyNone
  <2> QED BY <2>1, <2>3
<1>3. \A t \in Seq(Byte) : IsPrefix(<<>>, <<>> \o t)
  BY <1>1, PrefixConcat
<1> QED BY <1>1, <1>2, <1>3, FlattenEmpty

LEMMA InitTyped ==
  ASSUME Init
  PROVE  /\ Typed /\ \A e \in Ends : \A a \in Activities(e) : Unbegun(todo[e][a])
         /\ \A e \in Ends : todo[e] = P(e).activities /\ Read(e) = <<>>
<1>1. \A e \in Ends : pair[e] \in Names /\ Other(e) \in Ends
  BY PairNames, EndsOf DEF Init, Ends
<1>2. \A e \in Ends : P(e).activities \in Seq(Ops) /\ \A a \in DOMAIN P(e).activities : Unbegun(P(e).activities[a])
  BY <1>1, Sizes DEF P
<1>3. \A e \in Ends : todo[e] = P(e).activities
  BY DEF Init
<1>4. \A ops : Unbegun(ops) => Formed(ops)
  BY StreamsAssumption, Empty DEF Unbegun, Formed, Waiting, Fitting
<1>5. \A e \in Ends : \A a \in DOMAIN P(e).activities : Uses(P(e).activities[a], KindsOf(pair[e], a))
  BY DEF Uses, KindsOf, P
<1>6. todo \in [Ends -> Seq(Ops)] /\ \A e \in Ends : \A a \in Activities(e) : Unbegun(todo[e][a])
  BY <1>2, <1>3 DEF Init, Activities
<1>7. /\ out \in [Ends -> Seq(Byte)] /\ done \in [Ends -> Seq(Seq(Byte))] /\ taken \in [Ends -> Nat]
      /\ \A e \in Ends : out[e] = <<>> /\ taken[e] = 0 /\ taken[e] <= Len(out[Other(e)]) /\ Read(e) = <<>>
  <2>1. \A e \in Ends : out[Other(e)] = <<>> /\ out[e] = <<>> /\ taken[e] = 0
    BY <1>1 DEF Init
  <2>2. \A e \in Ends : Read(e) = <<>>
    BY <2>1, Empty, SubSeqEmpty DEF Read
  <2> QED BY <2>1, <2>2, Empty DEF Init
<1>8. pair \in Pairs /\ cut \in BOOLEAN /\ fin \in [Ends -> BOOLEAN] /\ socket \in [Ends -> {"new", "open", "half", "closed"}]
  BY DEF Init
<1> QED BY <1>3, <1>4, <1>5, <1>6, <1>7, <1>8 DEF Typed, Activities

LEMMA WritesStart ==
  ASSUME Init, NEW e \in Ends
  PROVE  /\ Writes(e) \in Seq(Byte)
         /\ Len(todo[e]) = 1 => Writes(e) = WriteData(todo[e][1])
         /\ Len(todo[e]) = 2 => /\ Writes(e) = WriteData(todo[e][1]) \o WriteData(todo[e][2])
                                /\ WriteData(todo[e][1]) \in Seq(Byte) /\ WriteData(todo[e][2]) \in Seq(Byte)
<1>1. Typed /\ todo[e] = P(e).activities /\ todo[e] \in Seq(Ops)
  BY InitTyped DEF Typed
<1>2. Writes(e) = WriteData(FlattenSeq(todo[e])) /\ FlattenSeq(todo[e]) \in Ops
  BY <1>1, WritesOf, FlattenType DEF Ops
<1>3. ASSUME Len(todo[e]) = 1
      PROVE  Writes(e) = WriteData(todo[e][1])
  <2>1. todo[e] = <<todo[e][1]>> /\ todo[e][1] \in Seq(OpRecord)
    BY <1>1, <1>3 DEF Ops
  <2>2. FlattenSeq(<<todo[e][1]>>) = todo[e][1]
    BY <2>1, FlattenOne
  <2> QED BY <1>2, <2>1, <2>2
<1>4. ASSUME Len(todo[e]) = 2
      PROVE  /\ Writes(e) = WriteData(todo[e][1]) \o WriteData(todo[e][2])
             /\ WriteData(todo[e][1]) \in Seq(Byte) /\ WriteData(todo[e][2]) \in Seq(Byte)
  <2>1. todo[e] = <<todo[e][1], todo[e][2]>> /\ todo[e][1] \in Ops /\ todo[e][2] \in Ops
    BY <1>1, <1>4
  <2>2. FlattenSeq(<<todo[e][1], todo[e][2]>>) = todo[e][1] \o todo[e][2]
    BY <2>1, FlattenTwo DEF Ops
  <2>3. WriteData(todo[e][1] \o todo[e][2]) = WriteData(todo[e][1]) \o WriteData(todo[e][2])
    BY <2>1, WriteConcat
  <2> QED BY <1>2, <2>1, <2>2, <2>3, WriteType
<1> QED BY <1>2, <1>3, <1>4, WriteType

LEMMA InitReads ==
  ASSUME Init, NEW e \in Ends
  PROVE  ReadsInv(e) /\ SharedReads(e)
<1>1. /\ Typed /\ done[e] = <<>> /\ Read(e) = <<>> /\ taken[e] = 0
      /\ \A a \in Activities(e) : Holds(todo[e][a], MessageKinds) = <<>>
  BY InitTyped, NothingHeld DEF Init, MessageKinds
<1>2. ReadsInv(e)
  <2>1. Holds(todo[e][Reader(e)], MessageKinds) = <<>>
    BY <1>1, ReaderThere
  <2> QED BY <1>1, <2>1, Empty DEF ReadsInv
<1>3. SharedReads(e)
  <2> SUFFICES ASSUME pair[e] = "asyncReadFromSocket"
               PROVE  SharedReads(e)
    BY DEF SharedReads
  <2>1. Activities(e) = 1 .. 2
    BY <1>1, AsyncReader
  <2>2. InOrder(<<>>, <<>>)
    BY Empty, OrderEmpty
  <2>3. \A a \in 1 .. 2 : Holds(todo[e][a], MessageKinds) = <<>>
    BY <1>1, <2>1
  <2> QED BY <1>1, <2>2, <2>3, Empty DEF SharedReads
<1> QED BY <1>2, <1>3

LEMMA InitWrites ==
  ASSUME Init, NEW e \in Ends
  PROVE  WritesInv(e)
<1> SUFFICES ASSUME ~Echoes(e), pair[e] # "asyncWriteToSocket"
             PROVE  WriteData(todo[e][Writer(e)]) = Writes(e)
  BY WritesStart, Empty DEF WritesInv, Init
<1>1. /\ Typed /\ pair[e] \in Names \ EchoNames /\ Writer(e) = WriterOf(pair[e]) /\ Writer(e) \in Activities(e)
      /\ Activities(e) = 1 .. Len(todo[e]) /\ Len(todo[e]) \in 1 .. 2 /\ DOMAIN P(e).activities = Activities(e)
  BY InitTyped, EchoesNames, ReaderThere, ActivitiesAre
<1>2. \A a \in Activities(e) : a # Writer(e) => WriteData(todo[e][a]) = <<>>
  <2> SUFFICES ASSUME NEW a \in Activities(e), a # Writer(e)
               PROVE  WriteData(todo[e][a]) = <<>>
    OBVIOUS
  <2>1. "write" \notin KindsOf(pair[e], a)
    BY <1>1, OneWriter DEF P
  <2> QED BY <1>1, <2>1, WriteNone
<1>3. CASE Len(todo[e]) = 1
  BY <1>1, <1>3, WritesStart
<1>4. CASE Len(todo[e]) = 2
  <2> DEFINE x == WriteData(todo[e][1])  y == WriteData(todo[e][2])
  <2>1. Writes(e) = x \o y /\ x \in Seq(Byte) /\ y \in Seq(Byte)
    BY <1>4, WritesStart
  <2>2. (Writer(e) = 1 /\ y = <<>>) \/ (Writer(e) = 2 /\ x = <<>>)
    BY <1>1, <1>2, <1>4
  <2>3. Writes(e) = IF Writer(e) = 1 THEN x ELSE y
    <3> HIDE DEF x, y
    <3>1. x \o <<>> = x /\ <<>> \o y = y
      BY <2>1, ConcatEmptySeq
    <3>2. CASE Writer(e) = 1 /\ y = <<>>
      BY <2>1, <3>1, <3>2
    <3>3. CASE Writer(e) = 2 /\ x = <<>>
      BY <2>1, <3>1, <3>3
    <3> QED BY <2>2, <3>2, <3>3
  <2> QED BY <2>2, <2>3
<1> QED BY <1>1, <1>3, <1>4

LEMMA InitEchoes ==
  ASSUME Init, NEW e \in Ends
  PROVE  EchoesInv(e)
<1> SUFFICES ASSUME Echoes(e)
             PROVE  EchoesInv(e)
  BY DEF EchoesInv
<1>1. Typed /\ Echoer(e) \in Activities(e) /\ Unbegun(todo[e][Echoer(e)]) /\ todo[e] = P(e).activities /\ Read(e) = <<>>
  BY InitTyped, EchoerThere
<1>2. Holds(todo[e][Echoer(e)], EchoKinds) = <<>> /\ out[e] = <<>>
  BY <1>1, NothingHeld DEF EchoKinds, Init
<1>3. Op("echo").do = "echo" /\ Op("echoSend").do = "echoSend"
  BY DEF Op
<1>4. todo[e][Echoer(e)] = <<Op("accept"), Op("echo")>> \/ todo[e][Echoer(e)] = <<Op("echoSend")>>
  <2>1. CASE pair[e] = "echoSession"
    BY <1>1, <2>1, ActivitiesOf DEF P, Echoer
  <2>2. CASE pair[e] = "echoServer"
    BY <1>1, <2>2, ActivitiesOf DEF P, Echoer
  <2>3. CASE pair[e] = "echoServerAsync"
    BY <1>1, <2>3, ActivitiesOf DEF P, Echoer
  <2> QED BY <2>1, <2>2, <2>3 DEF Echoes
<1>5. EchoThere(todo[e][Echoer(e)])
  <2>1. \A x, y : y.do \in EchoKinds => EchoThere(<<x, y>>) /\ EchoThere(<<y>>)
    BY DEF EchoThere
  <2>2. Op("echo").do \in EchoKinds /\ Op("echoSend").do \in EchoKinds
    BY <1>3 DEF EchoKinds
  <2>3. EchoThere(<<Op("accept"), Op("echo")>>) /\ EchoThere(<<Op("echoSend")>>)
    BY <2>1, <2>2, Zenon
  <2> QED BY <1>4, <2>3, Zenon
<1> QED BY <1>1, <1>2, <1>5, Empty DEF EchoesInv, EchoThere

LEMMA InitSharedWrites ==
  ASSUME Init, NEW e \in Ends
  PROVE  SharedWrites(e)
<1> SUFFICES ASSUME pair[e] = "asyncWriteToSocket"
             PROVE  SharedWrites(e)
  BY DEF SharedWrites
<1>1. Typed /\ todo[e] = P(e).activities /\ out[e] = <<>> /\ Activities(e) = 1 .. 2
  BY InitTyped, AsyncWriter DEF Init
<1>2. todo[e][1] = <<Op("connect"), Write(1)>> /\ todo[e][2] = <<Write(2)>>
  BY <1>1, ActivitiesOf DEF P
<1>3. \A m \in 1 .. 2 : /\ Once(todo[e][m], "write")
                        /\ \A i \in DOMAIN todo[e][m] : todo[e][m][i].do = "write" => todo[e][m][i].data = Message(m)
  <2>1. Op("connect").do = "connect" /\ \A m : Write(m).do = "write" /\ Write(m).data = Message(m)
    BY DEF Op, Write
  <2> DEFINE Whole(ops, data) == /\ Once(ops, "write")
                                 /\ \A i \in DOMAIN ops : ops[i].do = "write" => ops[i].data = data
  <2>2. \A x, y, d : x.do # "write" /\ y.data = d => Whole(<<x, y>>, d) /\ Whole(<<y>>, d)
    BY DEF Once
  <2>3. Op("connect").do # "write"
    BY <2>1
  <2> HIDE DEF Whole
  <2>4. Whole(<<Op("connect"), Write(1)>>, Message(1)) /\ Whole(<<Write(2)>>, Message(2))
    BY <2>1, <2>2, <2>3, Zenon
  <2>5. Whole(todo[e][1], Message(1)) /\ Whole(todo[e][2], Message(2))
    BY <1>2, <2>4, Zenon
  <2>6. \A m \in 1 .. 2 : Whole(todo[e][m], Message(m))
    <3>1. \A m \in 1 .. 2 : m = 1 \/ m = 2
      OBVIOUS
    <3> QED BY <2>5, <3>1, Zenon
  <2> QED BY <2>6 DEF Whole
<1>4. ASSUME NEW m \in 1 .. 2
      PROVE  PieceInv(todo[e][m], out[e], m)
  <2>1. Message(m) \in Seq(Byte)
    BY MessageType
  <2>2. IsPrefix(<<>>, Message(m)) /\ <<>> \o Message(m) = Message(m) /\ Only(out[e], Bytes(m)) = <<>>
    BY <1>1, <2>1, Empty
  <2> QED BY <1>3, <2>2 DEF PieceInv
<1>5. Len(out[e]) + Len(WriteData(todo[e][1])) + Len(WriteData(todo[e][2])) = Len(Writes(e))
  <2>1. Len(todo[e]) = 2
    BY <1>1, ActivitiesAre
  <2>2. /\ Writes(e) = WriteData(todo[e][1]) \o WriteData(todo[e][2])
        /\ WriteData(todo[e][1]) \in Seq(Byte) /\ WriteData(todo[e][2]) \in Seq(Byte)
    BY <2>1, WritesStart
  <2>3. Len(Writes(e)) = Len(WriteData(todo[e][1])) + Len(WriteData(todo[e][2])) /\ Len(WriteData(todo[e][1])) \in Nat
        /\ Len(WriteData(todo[e][2])) \in Nat
    BY <2>2, ConcatProperties, LenProperties
  <2> QED BY <1>1, <2>3, Empty
<1> QED BY <1>4, <1>5, SharedWritesIs

LEMMA InitInv ==
  ASSUME Init
  PROVE  StreamsInv
<1>1. Typed
  BY InitTyped
<1>2. ASSUME NEW e \in Ends
      PROVE  Closed(e) /\ SaidAll(e) /\ WholeInv(e)
  <2>1. socket[e] = "new" /\ out[e] = <<>> /\ fin[e] = FALSE /\ done[e] = <<>> /\ Other(e) \in Ends
    BY <1>2, EndsOf DEF Init
  <2>2. Promised(e) \in Seq(Byte)
    BY <2>1, WritesStart DEF Promised
  <2>3. Len(out[e]) <= Len(Promised(e))
    BY <2>1, <2>2, Empty, LenProperties
  <2> QED BY <2>1, <2>3 DEF Closed, SaidAll, WholeInv
<1> QED BY <1>1, <1>2, InitReads, InitWrites, InitEchoes, InitSharedWrites DEF StreamsInv

\* The inductive invariant holds in every state of every pair of programs,
\* for every size of messages, reads and window.
THEOREM StreamsInvariant == Spec => []StreamsInv
<1>1. Init => StreamsInv
  BY InitInv
<1>2. StreamsInv /\ [Next]_vars => StreamsInv'
  BY StreamsInvNext
<1> QED BY <1>1, <1>2, PTL DEF Spec

(***************************************************************************)
(* What the invariant says.                                                *)
(***************************************************************************)
LEMMA TypedIsTypeOK ==
  ASSUME Typed
  PROVE  TypeOK
<1>1. ASSUME NEW e \in Ends, NEW a \in Activities(e)
      PROVE  /\ todo[e][a] \in Seq([do : Kinds, data : Seq(Byte)])
             /\ At(e, a, "full") => Len(Data(e, a)) < Want
  <2>1. todo[e][a] \in Ops /\ Fitting(todo[e][a])
    BY ActivitiesAre DEF Typed, Formed
  <2>2. todo[e][a] # <<>> => 1 \in DOMAIN todo[e][a]
    BY FrontKind
  <2> QED BY <2>1, <2>2 DEF Ops, OpRecord, Fitting, At, Data
<1>2. ASSUME NEW e \in Ends
      PROVE  out[e] \in Seq(Byte) /\ done[e] \in Seq(Seq(Byte)) /\ taken[e] \in 0 .. Len(out[Other(e)])
  <2>1. out[e] \in Seq(Byte) /\ done[e] \in Seq(Seq(Byte)) /\ taken[e] \in Nat /\ out[Other(e)] \in Seq(Byte)
        /\ taken[e] <= Len(out[Other(e)])
    BY EndsOf DEF Typed
  <2> QED BY <2>1, LenProperties
<1> QED BY <1>1, <1>2 DEF Typed, TypeOK

\* What the activities hold, together.
Held(e, kinds) == [a \in Activities(e) |-> IF IsAt(e, a, kinds) THEN Data(e, a) ELSE <<>>]

LEMMA HeldIs ==
  ASSUME Typed, NEW e \in Ends, NEW kinds
  PROVE  /\ Held(e, kinds) \in Seq(Seq(Byte))
         /\ \A a \in Activities(e) : Held(e, kinds)[a] = Holds(todo[e][a], kinds)
         /\ Activities(e) = {1} => FlattenSeq(Held(e, kinds)) = Holds(todo[e][1], kinds)
         /\ Activities(e) = 1 .. 2 => FlattenSeq(Held(e, kinds)) = Holds(todo[e][1], kinds) \o Holds(todo[e][2], kinds)
<1> DEFINE h == Held(e, kinds)
<1>1. Activities(e) = 1 .. Len(todo[e]) /\ Len(todo[e]) \in 1 .. 2 /\ \A a \in Activities(e) : todo[e][a] \in Ops
  BY ActivitiesAre
<1>2. \A a \in Activities(e) : h[a] = Holds(todo[e][a], kinds) /\ Holds(todo[e][a], kinds) \in Seq(Byte)
  BY <1>1, HoldsType DEF Held, Holds, IsAt, Data
<1>3. h = [a \in 1 .. Len(todo[e]) |-> h[a]]
  BY <1>1 DEF Held
<1> HIDE DEF h
<1>4. h \in Seq(Seq(Byte)) /\ Len(h) = Len(todo[e])
  BY <1>1, <1>2, <1>3
<1>5. ASSUME Activities(e) = {1}
      PROVE  FlattenSeq(h) = Holds(todo[e][1], kinds)
  <2>0. Len(todo[e]) = 2 => 2 \in Activities(e)
    BY <1>1
  <2>1. Len(h) = 1
    BY <1>1, <1>4, <1>5, <2>0
  <2>2. h = <<h[1]>> /\ h[1] \in Seq(Byte) /\ h[1] = Holds(todo[e][1], kinds)
    BY <1>2, <1>4, <1>5, <2>1
  <2>3. FlattenSeq(<<h[1]>>) = h[1]
    BY <2>2, FlattenOne
  <2> QED BY <2>2, <2>3
<1>6. ASSUME Activities(e) = 1 .. 2
      PROVE  FlattenSeq(h) = Holds(todo[e][1], kinds) \o Holds(todo[e][2], kinds)
  <2>0. 2 \in Activities(e) => Len(todo[e]) >= 2
    BY <1>1
  <2>1. Len(h) = 2
    <3>1. 2 \in Activities(e)
      BY <1>6
    <3>2. Len(todo[e]) >= 2 /\ Len(todo[e]) \in 1 .. 2
      BY <1>1, <2>0, <3>1
    <3>3. \A n \in 1 .. 2 : n >= 2 => n = 2
      OBVIOUS
    <3>4. Len(todo[e]) = 2
      BY <3>2, <3>3, Zenon
    <3> QED BY <1>4, <3>4, Zenon
  <2>2. h = <<h[1], h[2]>> /\ h[1] \in Seq(Byte) /\ h[2] \in Seq(Byte)
    BY <1>2, <1>4, <1>6, <2>1
  <2>3. h[1] = Holds(todo[e][1], kinds) /\ h[2] = Holds(todo[e][2], kinds)
    BY <1>2, <1>6
  <2>4. FlattenSeq(<<h[1], h[2]>>) = h[1] \o h[2]
    BY <2>2, FlattenTwo
  <2> QED BY <2>2, <2>3, <2>4
<1> QED BY <1>2, <1>4, <1>5, <1>6 DEF h

\* One activity holds everything.
LEMMA OneHolds ==
  ASSUME Typed, NEW e \in Ends, NEW kinds, NEW r \in Activities(e),
         \A a \in Activities(e) : a # r => Holds(todo[e][a], kinds) = <<>>
  PROVE  FlattenSeq(Held(e, kinds)) = Holds(todo[e][r], kinds)
<1>1. /\ Activities(e) = {1} \/ Activities(e) = 1 .. 2
      /\ \A a \in Activities(e) : todo[e][a] \in Ops /\ Holds(todo[e][a], kinds) \in Seq(Byte)
  BY ActivitiesAre, HoldsType
<1>2. CASE Activities(e) = {1}
  BY <1>2, HeldIs
<1>3. CASE Activities(e) = 1 .. 2
  <2> DEFINE x == Holds(todo[e][1], kinds)  y == Holds(todo[e][2], kinds)
  <2>1. FlattenSeq(Held(e, kinds)) = x \o y
    BY <1>3, HeldIs
  <2>2. x \in Seq(Byte) /\ y \in Seq(Byte) /\ ((r = 1 /\ y = <<>>) \/ (r = 2 /\ x = <<>>))
    BY <1>1, <1>3
  <2>3. x \o y = IF r = 1 THEN x ELSE y
    <3> HIDE DEF x, y
    <3> QED BY <2>2, ConcatEmptySeq
  <2> QED BY <2>1, <2>2, <2>3
<1> QED BY <1>1, <1>2, <1>3

LEMMA MessagesAre ==
  ASSUME Typed, NEW e \in Ends
  PROVE  /\ Messages(e) = done[e] \o Held(e, MessageKinds) /\ done[e] \in Seq(Seq(Byte))
         /\ FlattenSeq(Messages(e)) = FlattenSeq(done[e]) \o FlattenSeq(Held(e, MessageKinds))
<1>1. Messages(e) = done[e] \o Held(e, MessageKinds)
  BY DEF Messages, Held, MessageKinds
<1>2. done[e] \in Seq(Seq(Byte)) /\ Held(e, MessageKinds) \in Seq(Seq(Byte))
  BY HeldIs DEF Typed
<1> QED BY <1>1, <1>2, FlattenConcat

LEMMA ReadsIntact ==
  ASSUME Typed, NEW e \in Ends, ReadsInv(e)
  PROVE  ReadsInTurn(e)
<1> SUFFICES ASSUME ~Echoes(e), pair[e] # "asyncReadFromSocket", Connected(e)
             PROVE  FlattenSeq(Messages(e)) = Read(e)
  BY DEF ReadsInTurn
<1>1. FlattenSeq(done[e]) \o Holds(todo[e][Reader(e)], MessageKinds) = Read(e)
  BY DEF ReadsInv, Connected
<1>2. Reader(e) \in Activities(e) /\ Reader(e) = ReaderOf(pair[e]) /\ pair[e] \in Names \ EchoNames
  BY ReaderThere, EchoesNames
<1>3. ASSUME NEW a \in Activities(e), a # Reader(e)
      PROVE  Holds(todo[e][a], MessageKinds) = <<>>
  <2>1. KindsOf(pair[e], a) \cap MessageKinds = {}
    BY <1>2, <1>3, ActivitiesAre, OneReader DEF P
  <2> QED BY <2>1, HoldsNone
<1>4. FlattenSeq(Held(e, MessageKinds)) = Holds(todo[e][Reader(e)], MessageKinds)
  BY <1>2, <1>3, OneHolds
<1> QED BY <1>1, <1>4, MessagesAre

LEMMA ReadsSharedIntact ==
  ASSUME Typed, NEW e \in Ends, SharedReads(e)
  PROVE  ReadsShared(e)
<1> SUFFICES ASSUME pair[e] = "asyncReadFromSocket"
             PROVE  /\ \A i \in DOMAIN Messages(e) : InOrder(Messages(e)[i], Read(e))
                    /\ Connected(e) /\ ~cut /\ ~fin[Other(e)] => Len(FlattenSeq(Messages(e))) = taken[e]
  BY DEF ReadsShared, InOrder
<1> DEFINE h == Held(e, MessageKinds)  d == done[e]
<1>1. Activities(e) = 1 .. 2
  BY AsyncReader
<1>2. /\ Messages(e) = d \o h /\ d \in Seq(Seq(Byte)) /\ h \in Seq(Seq(Byte))
      /\ FlattenSeq(Messages(e)) = FlattenSeq(d) \o FlattenSeq(h)
      /\ FlattenSeq(h) = Holds(todo[e][1], MessageKinds) \o Holds(todo[e][2], MessageKinds)
      /\ \A a \in 1 .. 2 : h[a] = Holds(todo[e][a], MessageKinds)
  BY <1>1, MessagesAre, HeldIs
<1>3. DOMAIN h = 1 .. 2
  BY <1>1 DEF Held
<1>4. (\A i \in DOMAIN d : InOrder(d[i], Read(e))) /\ \A a \in 1 .. 2 : InOrder(h[a], Read(e))
  BY <1>2 DEF SharedReads
<1>5. ASSUME NEW i \in DOMAIN Messages(e)
      PROVE  InOrder(Messages(e)[i], Read(e))
  <2> HIDE DEF h, d
  <2>1. /\ DOMAIN d = 1 .. Len(d) /\ DOMAIN (d \o h) = 1 .. Len(d) + Len(h) /\ Len(d) \in Nat /\ Len(h) = 2
        /\ \A j \in 1 .. Len(d) + Len(h) : (d \o h)[j] = IF j <= Len(d) THEN d[j] ELSE h[j - Len(d)]
    BY <1>2, <1>3, ConcatProperties, LenProperties
  <2>2. i \in 1 .. Len(d) + 2 /\ Messages(e)[i] = IF i <= Len(d) THEN d[i] ELSE h[i - Len(d)]
    BY <1>2, <2>1
  <2>3. i <= Len(d) => i \in DOMAIN d
    BY <2>1, <2>2
  <2>4. ~ (i <= Len(d)) => i - Len(d) \in 1 .. 2
    BY <2>1, <2>2
  <2> QED BY <1>4, <2>2, <2>3, <2>4
<1>6. ASSUME Connected(e), ~cut, ~fin[Other(e)]
      PROVE  Len(FlattenSeq(Messages(e))) = taken[e]
  <2>1. taken[e] = Len(FlattenSeq(d)) + Len(Holds(todo[e][1], MessageKinds)) + Len(Holds(todo[e][2], MessageKinds))
    BY <1>6 DEF SharedReads, Connected
  <2> DEFINE x == Holds(todo[e][1], MessageKinds)  y == Holds(todo[e][2], MessageKinds)  f == FlattenSeq(d)
  <2>2. x \in Seq(Byte) /\ y \in Seq(Byte) /\ f \in Seq(Byte)
    BY <1>1, <1>2, ActivitiesAre, HoldsType, FlattenType
  <2>3. FlattenSeq(Messages(e)) = f \o (x \o y)
    BY <1>2
  <2> HIDE DEF x, y, f
  <2>4. x \o y \in Seq(Byte) /\ Len(x \o y) = Len(x) + Len(y) /\ Len(x) \in Nat /\ Len(y) \in Nat /\ Len(f) \in Nat
    BY <2>2, ConcatProperties, LenProperties
  <2>5. Len(f \o (x \o y)) = Len(f) + Len(x \o y)
    BY <2>2, <2>4, ConcatProperties
  <2>6. taken[e] = Len(f) + Len(x) + Len(y)
    BY <2>1 DEF x, y, f
  <2> QED BY <2>3, <2>4, <2>5, <2>6
<1> QED BY <1>5, <1>6

LEMMA WritesIntact ==
  ASSUME NEW e, WritesInv(e), SharedWrites(e)
  PROVE  WritesInTurn(e) /\ WritesShared(e)
BY DEF WritesInv, SharedWrites, WritesInTurn, WritesShared, Bytes

LEMMA EchoesIntact ==
  ASSUME Typed, NEW e \in Ends, EchoesInv(e)
  PROVE  EchoesInTurn(e)
<1> SUFFICES ASSUME Echoes(e), Connected(e)
             PROVE  out[e] \o Pending(e) = Read(e)
  BY DEF EchoesInTurn, EchoesInv
<1>1. out[e] \o Holds(todo[e][Echoer(e)], EchoKinds) = Read(e) /\ Echoer(e) \in Activities(e)
  BY EchoerThere DEF EchoesInv, Connected
<1>2. ASSUME NEW a \in Activities(e), a # Echoer(e)
      PROVE  Holds(todo[e][a], EchoKinds) = <<>>
  BY <1>2, EchoFront DEF Holds
<1>3. Pending(e) = FlattenSeq(Held(e, EchoKinds))
  BY DEF Pending, Held, EchoKinds
<1>4. FlattenSeq(Held(e, EchoKinds)) = Holds(todo[e][Echoer(e)], EchoKinds)
  BY <1>1, <1>2, OneHolds
<1> QED BY <1>1, <1>3, <1>4

LEMMA InvIntact == StreamsInv => Intact
<1> SUFFICES ASSUME StreamsInv, NEW e \in Ends
             PROVE  ReadsInTurn(e) /\ ReadsShared(e) /\ WritesInTurn(e) /\ WritesShared(e) /\ EchoesInTurn(e)
  BY DEF Intact
<1>1. Typed /\ ReadsInv(e) /\ SharedReads(e) /\ WritesInv(e) /\ SharedWrites(e) /\ EchoesInv(e)
  BY DEF StreamsInv
<1> QED BY <1>1, ReadsIntact, ReadsSharedIntact, WritesIntact, EchoesIntact

LEMMA InvWhole == StreamsInv => WholeAnswer
<1> SUFFICES ASSUME StreamsInv, NEW e \in Ends,
                    pair[e] \in {"clientClose", "serverClose", "daytimeClient", "collector"},
                    done[e] # <<>>, pair[Other(e)] \notin {"echoServer", "readwritesocket"}
             PROVE  Len(done[e][1]) = Len(Promised(Other(e)))
  BY DEF WholeAnswer
<1>1. Typed /\ WholeInv(e)
  BY DEF StreamsInv
<1>2. Trusted(Other(e))
  BY <1>1 DEF Typed, Pairs, Ends, Other, Trusted
<1> QED BY <1>1, <1>2 DEF WholeInv, ReadsToEof

\* Every variable keeps its type, for every size of a message and of a read:
\* no end reads more than the other has written, and a read of a fixed size
\* never runs over its buffer (readFromSocket.cpp, asyncReadFromSocket.cpp).
THEOREM StreamsTypeCorrect == Spec => []TypeOK
<1>1. StreamsInv => TypeOK
  BY TypedIsTypeOK DEF StreamsInv
<1> QED BY <1>1, StreamsInvariant, PTL

\* However the network cuts the streams, and wherever it resets them, no byte
\* of a message or of an echo is lost, repeated or out of its order.
THEOREM BytesIntact == Spec => []Intact
BY InvIntact, StreamsInvariant, PTL

\* A read that ended with eof holds everything the other program had to say
\* (ClientCloseAndShutdown.cpp:60-61), at whatever point a reset comes.
THEOREM AnswersWhole == Spec => []WholeAnswer
BY InvWhole, StreamsInvariant, PTL
=============================================================================
