SPECIFICATION Spec
CONSTANTS
  Drivers <- MCDrivers
  Cells <- MCCells
  Silences <- MCSilences
INVARIANTS
  TypeOK
  RangeTranslated
  LinkDecodes
  FreqShown
  LinkIsStatistics
