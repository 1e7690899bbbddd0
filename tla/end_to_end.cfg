\* The application may have nothing more to send.
SPECIFICATION FairSpec
CONSTANTS
  p1 = p1
  p2 = p2
  Packets = {p1, p2}
  Holders = {1, 2}
  Handlers = {a, b}
  Setups <- Both
  None = None
  MaxTracked = 1
  MaxCache = 2
  MaxRoutes = 2
  MaxRetries = 3
INVARIANTS   NotWithheld
PROPERTIES Settles Confirmed
CHECK_DEADLOCK FALSE
