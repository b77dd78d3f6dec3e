CONSTANT MaxEvents = 4

SPECIFICATION Spec

INVARIANTS
  TypeOK
  NoStrandedEvent
  NoSleepOnSignal

PROPERTY EveryEventHandled
