SPECIFICATION Spec
CONSTANTS
  Values = {0, 1, 126, 127, 128, 255}
  Rates <- MCRates
  ButtonKeys = {512}
  axis <- MCAxis
  zero <- MCDefaultZero
  min = 700
  max = 2200
INVARIANTS
  ExecutesWhatWasMeant
