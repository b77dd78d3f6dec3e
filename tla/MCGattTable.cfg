CONSTANTS
  Notified = {alarm}
  Indicated = {state}
  Plain = {}
  Values = {v0, v1}
  MaxTx = 1
  MaxEvents = 2
  None = None

SPECIFICATION Spec

INVARIANTS
  WritesLand
  NothingLostSilently

PROPERTY AskingIsAnswered
