CONSTANTS
  m1 = m1
  m2 = m2
  m0 = m0
  good = good
  bad = bad
  zero = zero
  n1 = n1
  n0 = n0
  Macs = {m1, m2}
  DefaultMac = m0
  Passwords = {good, bad}
  CorrectPass = good
  DefaultPass = zero
  Nonces = {n1}
  DefaultNonce = n0
  DisconnectionTime = 1
  AuthenticationTime = 1
  MaxQueue = 2

SPECIFICATION Spec

INVARIANTS
  TypeOK
  AuthenticationIsOfThisSession
  ForcedActivationIsOver
  ClosedBeforeAdvertising

PROPERTIES
  RelayStartsActivated
  TurnedOffByOwner
  CorrectPassAuthenticates
