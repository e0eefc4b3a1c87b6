SPECIFICATION Spec
CONSTANTS
  NumAxes = 1
  Servos = {0}
  axis <- MCAxisSingle
  Positions = {zero, turn}
  Neutral = zero
  Off = off
  Unscaled = unscaled
  Tracked = tracked
  Hosts = {h1}
  Loopback = lo
  NoHost = nohost
  InitialPeer = h1
  InitialHost = lo
  MaxTimeout = 1
  RecvFails = FALSE
  SendFails = FALSE
INVARIANT VideoFlagHonest
