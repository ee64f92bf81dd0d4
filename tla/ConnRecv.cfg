\* Two receives, some bytes and then exactly two; no sends;
\* nothing is assumed of the network.
SPECIFICATION ServiceSpec
CONSTANTS
  c1 = c1
  Conns = {c1}
  MaxSends = 0
  Parts = 2
  Asks <- AsksMixed
  RecvSize = 2
  StreamLen = 3
  MaxOffs = 1
  PeerEnds = {"fin", "rst"}
INVARIANTS OneRecv BufferFits NoStall
PROPERTIES ErrorIsFinal StopReturnsOrZombie SilentAfterError ImplementsChannel
CHECK_DEADLOCK FALSE
