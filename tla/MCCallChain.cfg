CONSTANTS
  Callbacks = {c1, c2, c3, c4}
  None = None
  MaxChanges = 4

SPECIFICATION ChainSpec

INVARIANTS CurrentIsAttached EachOnce

PROPERTY TraversalEnds
