CONSTANTS
  Resolution = 4
  MaxCycles = 3

SPECIFICATION Spec

INVARIANT OnlyPercentages
