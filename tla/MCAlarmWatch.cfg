CONSTANTS
  Axes <- MCAxes
  Registers <- MCRegisters
  AlarmStates = {0, 7}

SPECIFICATION Spec

INVARIANTS DetectionIsMovement AlarmWithinRound

PROPERTY AlarmIsFresh
