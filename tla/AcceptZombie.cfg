\* A connection disconnected before it is accepted, as in echoserverasync.cpp.
SPECIFICATION FairAcceptorSpec
CONSTANTS
  c1 = c1
  c2 = c2
  Conns = {c1}
  MaxSends = 0
  Parts = 1
  Asks <- AsksSome
  RecvSize = 1
  StreamLen = 1
  MaxOffs = 1
  PeerEnds = {}
  MaxStops = 0
PROPERTIES StopReturns
CHECK_DEADLOCK FALSE
