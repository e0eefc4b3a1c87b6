SPECIFICATION Spec
CONSTANTS
  NumAxes = 2
  Servos = {0, 1}
  axis <- MCAxisPair
  Positions = {zero, turn}
  Neutral = zero
  Off = off
  Unscaled = unscaled
  Tracked = tracked
  Hosts = {h1, h2}
  Loopback = lo
  NoHost = nohost
  InitialPeer = h1
  InitialHost = lo
  MaxTimeout = 1
  RecvFails = FALSE
  SendFails = FALSE
INVARIANTS
  TypeOK
  AtMostOneStray
  NeutralAfterStopAll
PROPERTIES
  ImplementsDriveLease
  StreamFollowsViewer
