CONSTANTS
  Events = {a, b}
  NoEvent = NoEvent
  QueueSize = 3
  Levels = 2

SPECIFICATION Spec

INVARIANT ClaimsApart

PROPERTY ImplementsQueue
