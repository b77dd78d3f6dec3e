\* CTR12V_TIME = 100000 us is the unit, RELAY_TIME = 120000000 us = 1200 units
CONSTANTS
  CtrTime   = 1
  RelayTime = 1200

SPECIFICATION Spec

INVARIANTS
  TypeOK
  NoInterruptInsideActivate
  RelayOnlyWithSupply
  FlagHasTimer

PROPERTIES
  ImplementsRelayCycle
  CycleEnds
