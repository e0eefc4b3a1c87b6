SPECIFICATION Spec
CONSTANTS
  MIDDLE = 2
  STEP = 1
  KeySets = {{1, 5, 7}, {1, 9}}
  Followed = {"throttle"}
  InFlight = 2
  MaxTimeout = 1
INVARIANTS
  TypeOK
  VehicleFollowsKeys
  ButtonsHarmless
PROPERTIES
  BoostEnds
  LoopEnds
