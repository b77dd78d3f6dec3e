CONSTANTS
  Resolution = 4
  MaxCycles = 6

SPECIFICATION Spec

INVARIANT TypeOK

PROPERTY ReportsWholeRounds
