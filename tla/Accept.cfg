\* Two connections accepted by one acceptor, and everything that can end them.
SPECIFICATION AcceptorSpec
CONSTANTS
  c1 = c1
  c2 = c2
  Conns = {c1, c2}
  MaxSends = 0
  Parts = 1
  Asks <- AsksNone
  RecvSize = 1
  StreamLen = 0
  MaxOffs = 1
  PeerEnds = {"rst"}
  MaxStops = 1
SYMMETRY Symmetry
INVARIANTS AcceptorTypeOK AcceptQueue AcceptedWatched
PROPERTIES StopAnswersAll AcceptorSurvives
CHECK_DEADLOCK FALSE
