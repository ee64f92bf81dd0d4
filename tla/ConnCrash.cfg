\* The peer may reset the connection before HandleConnect runs.
SPECIFICATION Spec
CONSTANTS
  c1 = c1
  Conns = {c1}
  MaxSends = 0
  Parts = 1
  Asks <- AsksNone
  RecvSize = 1
  StreamLen = 0
  MaxOffs = 0
  PeerEnds = {"fin", "rst"}
INVARIANTS RunEndsOnlyByStop
CHECK_DEADLOCK FALSE
