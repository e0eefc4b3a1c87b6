SPECIFICATION FairSpec
CONSTANTS
  NumAxes = 1
  Servos = {0}
  axis <- MCAxisSingle
  Positions = {zero}
  Neutral = zero
  Off = off
  Unscaled = unscaled
  Tracked = tracked
  Hosts = {h1}
  Loopback = lo
  NoHost = nohost
  InitialPeer = h1
  InitialHost = lo
  MaxTimeout = 1
  RecvFails = TRUE
  SendFails = TRUE
PROPERTIES
  LeaseExpires
  AlarmNeutralises
