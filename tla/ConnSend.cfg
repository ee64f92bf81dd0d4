\* Two buffers of two parts each, no receives; the network moves.
SPECIFICATION NetworkSpec
CONSTANTS
  c1 = c1
  Conns = {c1}
  MaxSends = 2
  Parts = 2
  Asks <- AsksNone
  RecvSize = 2
  StreamLen = 0
  MaxOffs = 1
  PeerEnds = {"fin", "rst"}
INVARIANTS TypeOK OneSend Watchdog
PROPERTIES StopReportsAll SendSettles ImplementsChannel
CHECK_DEADLOCK FALSE
