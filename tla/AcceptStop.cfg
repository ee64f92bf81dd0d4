\* One connection, used before or after it is accepted: what Stop and the acceptor do.
SPECIFICATION FairAcceptorSpec
CONSTANTS
  c1 = c1
  c2 = c2
  Conns = {c1}
  MaxSends = 1
  Parts = 1
  Asks <- AsksSome
  RecvSize = 1
  StreamLen = 0
  MaxOffs = 1
  PeerEnds = {"fin"}
  MaxStops = 1
PROPERTIES StopReturnsOrZombie
CHECK_DEADLOCK FALSE
