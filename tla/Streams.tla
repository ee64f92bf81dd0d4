------------------------------- MODULE Streams -------------------------------
(***************************************************************************)
(* The programs that exchange bytes over one TCP connection: TCP_Server,   *)
(* the partial reads and writes, the half-close handshake and the          *)
(* synchronous client of NetworkProgrammingCookbook, readwritesocket.cpp,  *)
(* and the echo and http programs written with the wrapper of Chapter6.    *)
(*                                                                         *)
(* End 1 connects, end 2 accepts; each runs one program, a set of          *)
(* activities that go on at the same time.  An activity is a sequence of   *)
(* composed reads and writes, each done in as many pieces as the network   *)
(* likes.  Inside the wrapper, Send and Recv are taken at their word:      *)
(* module Connection shows that they keep it.                              *)
(***************************************************************************)
EXTENDS Naturals, Sequences, FiniteSets, SequencesExt

CONSTANTS
  Size,   \* bytes of a message (3 to 28 in the sources); the last ends the line
  Want,   \* MESSAGE_SIZE of the programs that read: no multiple of Size
  Window  \* bound: bytes of one direction that the network holds

ASSUME StreamsAssumption ==
  Size \in Nat \ {0} /\ Want \in Nat \ {0} /\ Window \in Nat \ {0}

Ends == {1, 2}
Other(e) == 3 - e

\* Byte i of message m of some end.
Message(m) == [i \in 1 .. Size |-> <<m, i>>]
EndsLine(data) == \E i \in DOMAIN data : data[i][2] = Size

(***************************************************************************)
(* Programs.  An operation holds the bytes it has still to write, or has   *)
(* read so far.                                                            *)
(***************************************************************************)
Op(kind) == [do |-> kind, data |-> <<>>]
Write(m) == [do |-> "write", data |-> Message(m)]

\* An error ends one activity only, or the program's whole connection: it
\* throws, closes the socket or drops the session.
Program(activities, onError) == [activities |-> activities, onError |-> onError]

\* read_some in a loop, read, read_until.
ReadFromSocket == Program(<< <<Op("connect"), Op("full"), Op("full"), Op("line")>> >>, "end")
WriteToSocket == Program(<< <<Op("connect"), Write(1), Write(2)>> >>, "end")

\* A loop of async_read_some (async_write_some) and an async_read
\* (async_write), started one after the other on the same socket.
AsyncReadFromSocket ==
  Program(<< <<Op("connect"), Op("full")>>, <<Op("full")>> >>, "activity")
AsyncWriteToSocket ==
  Program(<< <<Op("connect"), Write(1)>>, <<Write(2)>> >>, "activity")

\* Faulty variant of ClientCloseAndShutdown: it does not shut down the socket.
ClientNoShutdown ==
  Program(<< <<Op("connect"), Write(1), Op("eof")>> >>, "end")

ClientCloseAndShutdown ==
  Program(<< <<Op("connect"), Write(1), Op("shutdownSend"), Op("eof")>> >>, "end")
ServerCloseAndShutdown ==
  Program(<< <<Op("accept"), Op("eof"), Write(1), Op("shutdownSend")>> >>, "end")

SyncTCPClient == Program(<< <<Op("connect"), Write(1), Op("line")>> >>, "end")

DaytimeClient == Program(<< <<Op("connect"), Op("eof")>> >>, "end")
DaytimeServer == Program(<< <<Op("accept"), Write(1)>> >>, "end")

\* session: read_some, write what was read, again.
EchoSession == Program(<< <<Op("accept"), Op("echo")>> >>, "end")

\* ClientContext: the queue of sends, with the one buffer OnAccept puts there,
\* and the Recv cycle.
SendBuffer == Write(1)
RecvCycle == Op("dump")
ReadWriteSocket == Program(<< <<Op("accept"), SendBuffer>>, <<RecvCycle>> >>, "end")

\* MyConnection of the servers: every OnRecv appends to the queue of sends.
EchoServer == Program(<< <<Op("accept"), Op("echoRecv")>>, <<Op("echoSend")>> >>, "end")
EchoServerAsync == EchoServer

\* MyConnection of the clients: the Recv cycle and one request.
EchoClient == Program(<< <<Op("connect"), Op("dump")>>, <<Write(1)>> >>, "end")
EchoClientAsync == EchoClient
ClientHttpGet == EchoClient

\* Peers that are not in the repository: one that sends, long enough or not,
\* one that reads everything, one that answers a line with a line.
LongSender == Program(<< <<Op("accept"), Write(1), Write(2), Write(3), Write(4)>> >>, "end")
ShortSender == Program(<< <<Op("accept"), Write(1)>> >>, "end")
Collector == Program(<< <<Op("accept"), Op("eof")>> >>, "end")
LineServer == Program(<< <<Op("accept"), Op("line"), Write(1)>> >>, "end")

Programs == [
  readFromSocket |-> ReadFromSocket, writeToSocket |-> WriteToSocket,
  asyncReadFromSocket |-> AsyncReadFromSocket, asyncWriteToSocket |-> AsyncWriteToSocket,
  clientClose |-> ClientCloseAndShutdown, serverClose |-> ServerCloseAndShutdown,
  syncClient |-> SyncTCPClient, daytimeClient |-> DaytimeClient, daytimeServer |-> DaytimeServer,
  echoSession |-> EchoSession, readwritesocket |-> ReadWriteSocket,
  echoServer |-> EchoServer, echoServerAsync |-> EchoServerAsync,
  echoClient |-> EchoClient, echoClientAsync |-> EchoClientAsync, httpGet |-> ClientHttpGet,
  longSender |-> LongSender, shortSender |-> ShortSender,
  collector |-> Collector, lineServer |-> LineServer]

\* Who talks to whom.
Pairs == {
  <<"readFromSocket", "longSender">>, <<"readFromSocket", "shortSender">>,
  <<"asyncReadFromSocket", "longSender">>, <<"asyncReadFromSocket", "shortSender">>,
  <<"writeToSocket", "collector">>, <<"asyncWriteToSocket", "collector">>,
  <<"clientClose", "serverClose">>, <<"daytimeClient", "daytimeServer">>,
  <<"syncClient", "lineServer">>, <<"httpGet", "lineServer">>,
  <<"clientClose", "echoSession">>, <<"clientClose", "echoServer">>,
  <<"clientClose", "readwritesocket">>, <<"writeToSocket", "readwritesocket">>,
  <<"echoClient", "echoServer">>, <<"echoClientAsync", "echoServerAsync">>}

(***************************************************************************)
(* State.                                                                  *)
(***************************************************************************)
VARIABLES
  pair,    \* the programs of the two ends
  todo,    \* todo[e][a]: what activity a of end e has still to do
  socket,  \* "new", "open", "half" (the sending side is shut down) or "closed"
  out,     \* out[e]: every byte end e has written
  taken,   \* taken[e]: how many bytes of the other end's stream e has read
  fin,     \* fin[e]: the end of out[e] is announced to the other end
  cut,     \* the connection has been reset
  done     \* done[e]: the data of the reads that e completed

vars == <<pair, todo, socket, out, taken, fin, cut, done>>

P(e) == Programs[pair[e]]
Activities(e) == DOMAIN todo[e]
At(e, a, kind) == todo[e][a] # <<>> /\ todo[e][a][1].do = kind
Data(e, a) == todo[e][a][1].data
Connected(e) == socket[e] \in {"open", "half"}

Reading == {"full", "line", "eof", "dump", "echo", "echoRecv"}
Writing == {"write", "echo", "echoSend"}
IsAt(e, a, kinds) == todo[e][a] # <<>> /\ todo[e][a][1].do \in kinds

\* Activity a goes on to its next operation, or keeps its operation with other data.
Complete(e, a) == todo' = [todo EXCEPT ![e][a] = Tail(@)]
Keep(e, a, data) == todo' = [todo EXCEPT ![e][a][1].data = data]

Unread(e) == Len(out[Other(e)]) - taken[e]
Available(e) == SubSeq(out[Other(e)], taken[e] + 1, Len(out[Other(e)]))

\* The socket is closed: orderly, unless bytes are unread; then the peer is reset.
Close(e) ==
  /\ socket' = [socket EXCEPT ![e] = "closed"]
  /\ fin' = [fin EXCEPT ![e] = @ \/ (Connected(e) /\ Unread(e) = 0 /\ ~cut)]
  /\ cut' = (cut \/ (Connected(e) /\ Unread(e) > 0))

\* What a program does about an error in activity a.
Error(e, a) ==
  \/ /\ P(e).onError = "activity"
     /\ todo' = [todo EXCEPT ![e][a] = <<>>]
     /\ UNCHANGED <<socket, fin, cut>>
  \/ /\ P(e).onError = "end"
     /\ todo' = [todo EXCEPT ![e] = [b \in Activities(e) |-> <<>>]]
     /\ Close(e)

(***************************************************************************)
(* The connection.                                                         *)
(***************************************************************************)
Establish ==
  /\ At(1, 1, "connect") /\ At(2, 1, "accept")
  /\ todo' = [e \in Ends |-> [todo[e] EXCEPT ![1] = Tail(@)]]
  /\ socket' = [e \in Ends |-> "open"]
  /\ UNCHANGED <<pair, out, taken, fin, cut, done>>

\* connect or accept fails.  server.cpp just accepts again.
Refuse(e) ==
  /\ IsAt(e, 1, {"connect", "accept"}) /\ pair[e] # "echoSession"
  /\ todo' = [todo EXCEPT ![e] = [b \in Activities(e) |-> <<>>]]
  /\ socket' = [socket EXCEPT ![e] = "closed"]
  /\ UNCHANGED <<pair, out, taken, fin, cut, done>>

\* The network or the other host resets the connection.
Reset ==
  /\ \E e \in Ends : Connected(e)
  /\ ~cut /\ cut' = TRUE
  /\ UNCHANGED <<pair, todo, socket, out, taken, fin, done>>

(***************************************************************************)
(* Writing.                                                                *)
(***************************************************************************)
\* Faulty variant of WriteSome: the rest is not advanced by what was written.
WriteSomeAgain(e, a) ==
  /\ Connected(e) /\ ~cut /\ IsAt(e, a, Writing) /\ Data(e, a) # <<>>
  /\ \E k \in 1 .. Len(Data(e, a)) :
       /\ Len(out[e]) + k <= taken[Other(e)] + Window \/ socket[Other(e)] = "closed"
       /\ out' = [out EXCEPT ![e] = @ \o SubSeq(Data(e, a), 1, k)]
       /\ IF k = Len(Data(e, a)) /\ At(e, a, "write") THEN Complete(e, a)
          ELSE Keep(e, a, SubSeq(Data(e, a), 1, Len(Data(e, a)) - k))
  /\ cut' = (socket[Other(e)] = "closed")
  /\ UNCHANGED <<pair, socket, taken, fin, done>>

\* The network takes some of the bytes of a write; those for a closed socket
\* are answered by a reset.
WriteSome(e, a) ==
  /\ Connected(e) /\ ~cut /\ IsAt(e, a, Writing) /\ Data(e, a) # <<>>
  /\ \E k \in 1 .. Len(Data(e, a)) :
       /\ Len(out[e]) + k <= taken[Other(e)] + Window \/ socket[Other(e)] = "closed"
       /\ out' = [out EXCEPT ![e] = @ \o SubSeq(Data(e, a), 1, k)]
       /\ IF k = Len(Data(e, a)) /\ At(e, a, "write") THEN Complete(e, a)
          ELSE Keep(e, a, SubSeq(Data(e, a), k + 1, Len(Data(e, a))))
  /\ cut' = (socket[Other(e)] = "closed")
  /\ UNCHANGED <<pair, socket, taken, fin, done>>

ShutdownSend(e, a) ==
  /\ At(e, a, "shutdownSend") /\ Connected(e) /\ ~cut
  /\ Complete(e, a)
  /\ socket' = [socket EXCEPT ![e] = "half"]
  /\ fin' = [fin EXCEPT ![e] = TRUE]
  /\ UNCHANGED <<pair, out, taken, cut, done>>

(***************************************************************************)
(* Reading.                                                                *)
(***************************************************************************)
Finish(e, a, data) == Complete(e, a) /\ done' = [done EXCEPT ![e] = Append(@, data)]

\* Faulty variant of Missing: it does not count what was read before.
MissingAll(e, a) == Want

\* The bytes a read of Want bytes still asks for.
Missing(e, a) == Want - Len(Data(e, a))

\* Some of the bytes that have arrived: read_some, async_read_some, or one of
\* the calls a composed read makes.
ReadSome(e, a) ==
  /\ Connected(e) /\ IsAt(e, a, Reading) /\ Unread(e) > 0
  /\ At(e, a, "echo") => Data(e, a) = <<>>
  /\ \E k \in 1 .. Unread(e) :
       LET chunk == SubSeq(Available(e), 1, k)
           data == Data(e, a) \o chunk
       IN /\ taken' = [taken EXCEPT ![e] = @ + k]
          /\ \/ /\ At(e, a, "full") /\ k <= Missing(e, a)
                /\ IF k = Missing(e, a) THEN Finish(e, a, data) ELSE Keep(e, a, data) /\ UNCHANGED done
             \/ /\ At(e, a, "line")
                /\ IF EndsLine(chunk) THEN Finish(e, a, data) ELSE Keep(e, a, data) /\ UNCHANGED done
             \/ IsAt(e, a, {"eof", "dump", "echo"}) /\ Keep(e, a, data) /\ UNCHANGED done
             \/ /\ At(e, a, "echoRecv") /\ UNCHANGED done
                /\ todo' = [todo EXCEPT ![e][2][1].data = @ \o chunk]
  /\ UNCHANGED <<pair, socket, out, fin, cut>>

\* The end of the stream completes a read up to eof; it is an error to others.
ReadEof(e, a) ==
  /\ Connected(e) /\ IsAt(e, a, Reading) /\ Unread(e) = 0 /\ fin[Other(e)]
  /\ At(e, a, "echo") => Data(e, a) = <<>>
  /\ \/ At(e, a, "eof") /\ Finish(e, a, Data(e, a)) /\ UNCHANGED <<socket, fin, cut>>
     \/ ~At(e, a, "eof") /\ Error(e, a) /\ UNCHANGED done
  /\ UNCHANGED <<pair, out, taken>>

\* Faulty variant of Fails: any error ends the message that is read up to eof.
FailsAsEof(e, a) ==
  /\ Connected(e) /\ cut /\ todo[e][a] # <<>>
  /\ IF At(e, a, "eof") THEN Finish(e, a, Data(e, a)) /\ UNCHANGED <<socket, fin, cut>>
     ELSE Error(e, a) /\ UNCHANGED done
  /\ UNCHANGED <<pair, out, taken>>

\* After a reset every operation fails.
Fails(e, a) ==
  /\ Connected(e) /\ cut /\ todo[e][a] # <<>>
  /\ Error(e, a)
  /\ UNCHANGED <<pair, out, taken, done>>

(***************************************************************************)
(* The ends.                                                               *)
(***************************************************************************)
\* main returns, or the session is dropped: the destructor closes the socket.
Destroy(e) ==
  /\ Connected(e) /\ \A a \in Activities(e) : todo[e][a] = <<>>
  /\ Close(e)
  /\ UNCHANGED <<pair, todo, out, taken, done>>

\* ENTER is pressed: Disconnect, or the end of main.
Disconnect(e) ==
  /\ pair[e] \in {"echoServerAsync", "echoClientAsync", "readwritesocket"} /\ Connected(e)
  /\ todo' = [todo EXCEPT ![e] = [b \in Activities(e) |-> <<>>]]
  /\ Close(e)
  /\ UNCHANGED <<pair, out, taken, done>>

Init ==
  /\ pair \in Pairs
  /\ todo = [e \in Ends |-> P(e).activities]
  /\ socket = [e \in Ends |-> "new"]
  /\ out = [e \in Ends |-> <<>>] /\ taken = [e \in Ends |-> 0]
  /\ fin = [e \in Ends |-> FALSE] /\ cut = FALSE
  /\ done = [e \in Ends |-> <<>>]

Progress(e) ==
  \/ Destroy(e)
  \/ \E a \in Activities(e) :
       WriteSome(e, a) \/ ShutdownSend(e, a) \/ ReadSome(e, a) \/ ReadEof(e, a) \/ Fails(e, a)

Next ==
  \/ Establish \/ Reset
  \/ \E e \in Ends : Refuse(e) \/ Progress(e) \/ Disconnect(e)

Spec == Init /\ [][Next]_vars

\* Programs and network go on; nobody need connect or press ENTER.
FairSpec == Spec /\ \A e \in Ends : WF_vars(Progress(e))

(***************************************************************************)
(* Properties.                                                             *)
(***************************************************************************)
Byte == Nat \X (1 .. Size)
Kinds == Reading \union Writing \union {"connect", "accept", "shutdownSend"}

\* The type invariant; a read of a fixed size fits into its buffer.
TypeOK ==
  /\ pair \in Pairs /\ cut \in BOOLEAN /\ fin \in [Ends -> BOOLEAN]
  /\ socket \in [Ends -> {"new", "open", "half", "closed"}]
  /\ \A e \in Ends :
       /\ out[e] \in Seq(Byte) /\ done[e] \in Seq(Seq(Byte))
       /\ taken[e] \in 0 .. Len(out[Other(e)])
       /\ \A a \in Activities(e) :
            /\ todo[e][a] \in Seq([do : Kinds, data : Seq(Byte)])
            /\ At(e, a, "full") => Len(Data(e, a)) < Want

Read(e) == SubSeq(out[Other(e)], 1, taken[e])

\* The messages end e has read, whole or in part.
Messages(e) == done[e] \o [a \in Activities(e) |-> IF IsAt(e, a, {"full", "line", "eof", "dump"}) THEN Data(e, a) ELSE <<>>]

\* What an echo has read and not written yet.
Pending(e) ==
  FlattenSeq([a \in Activities(e) |-> IF IsAt(e, a, {"echo", "echoSend"}) THEN Data(e, a) ELSE <<>>])

Writes(e) ==
  LET ops == FlattenSeq(P(e).activities)
  IN FlattenSeq([i \in DOMAIN ops |-> IF ops[i].do = "write" THEN ops[i].data ELSE <<>>])

\* The bytes of data that are in a set, in their order.
Only(data, bytes) ==
  FlattenSeq([i \in DOMAIN data |-> IF data[i] \in bytes THEN <<data[i]>> ELSE <<>>])

Echoes(e) == pair[e] \in {"echoSession", "echoServer", "echoServerAsync"}

\* One read at a time: the reads together are the other end's stream.
ReadsInTurn(e) ==
  ~Echoes(e) /\ pair[e] # "asyncReadFromSocket" /\ Connected(e) => FlattenSeq(Messages(e)) = Read(e)

\* Two reads at a time: each keeps the order, and together they miss no byte.
ReadsShared(e) ==
  pair[e] = "asyncReadFromSocket" =>
    /\ \A i \in DOMAIN Messages(e) :
         Messages(e)[i] = Only(Read(e), Range(Messages(e)[i]))
    /\ Connected(e) /\ ~cut /\ ~fin[Other(e)] => Len(FlattenSeq(Messages(e))) = taken[e]

WritesInTurn(e) == ~Echoes(e) /\ pair[e] # "asyncWriteToSocket" => IsPrefix(out[e], Writes(e))

WritesShared(e) ==
  pair[e] = "asyncWriteToSocket" =>
    \A m \in 1 .. 2 : IsPrefix(Only(out[e], Range(Message(m))), Message(m))

EchoesInTurn(e) ==
  Echoes(e) =>
    /\ IsPrefix(out[e], Read(e))
    /\ Connected(e) => out[e] \o Pending(e) = Read(e)

\* However the network cuts the stream into pieces: what is read is the
\* other end's stream, every byte once and in order, and so is what is
\* echoed.  A program with one read and one write at a time keeps its messages
\* whole.  The two that start a loop of async_read_some (async_write_some) and
\* an async_read (async_write) on one socket (asyncReadFromSocket.cpp:146-148,
\* asyncWriteToSocket.cpp:137-139) only keep the order inside each message.
Intact ==
  \A e \in Ends :
    ReadsInTurn(e) /\ ReadsShared(e) /\ WritesInTurn(e) /\ WritesShared(e) /\ EchoesInTurn(e)

Promised(e) == IF Echoes(e) THEN Writes(Other(e)) ELSE Writes(e)

\* "When the asio::read() function returns with this error code, the client
\* knows that it has read the whole response message"
\* (ClientCloseAndShutdown.cpp:60-61): a read that ended with eof holds
\* everything the other program had to say, resets at any point included.
\* Programs that close their socket when they read eof, with a write still to
\* do, do not keep this for a client that shuts down its side.
WholeAnswer ==
  \A e \in Ends :
    /\ pair[e] \in {"clientClose", "serverClose", "daytimeClient", "collector"}
    /\ done[e] # <<>> /\ pair[Other(e)] \notin {"echoServer", "readwritesocket"}
    => Len(done[e][1]) = Len(Promised(Other(e)))

\* Nobody waits for the other for ever: once connected both programs end; two
\* that keep their connection see the request come back, or are closed.
Finishes ==
  socket = [e \in Ends |-> "open"] ~>
    \/ \A e \in Ends : socket[e] = "closed"
    \/ pair[1] \in {"echoClient", "echoClientAsync"} /\ taken[1] = Size
=============================================================================
