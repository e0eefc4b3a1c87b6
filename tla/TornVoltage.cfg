SPECIFICATION TelemetrySpec
CONSTANTS
  MaxReads = 1
  Levels = {0, 799, 800}
INVARIANT VoltageIsOneSeen
