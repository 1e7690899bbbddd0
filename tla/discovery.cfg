SPECIFICATION Spec
CONSTANTS
  A = A
  B = B
  C = C
  eA = eA
  eC = eC
  eLocal = eLocal
  Node = {A, B, C}
  Relays = {B}
  Link <- Line
  LinkLocal <- NearLocal
  Endpoint = {eA, eC, eLocal}
  LocalOnly = {eLocal}
  Handlers <- SomeHandlers
  TimeSources = {}
  RelayName = RELAY
  None = None
  TTL = 2
  Fast = 1
  Slow = 2
  MaxFlight = 0
  MaxEvents = 1
PROPERTIES  Converges
