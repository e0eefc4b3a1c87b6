SPECIFICATION Spec
CONSTANT Sticks = {0, 127, 255}
INVARIANTS
  TypeOK
  CentredSticksStop
  FailSafeStopsTracks
  AheadWithinPeriod
