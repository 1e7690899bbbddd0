SPECIFICATION Spec
CONSTANTS
  Workers = {w1}
  Packets <- AllPackets
  Own <- Mixed
  LocalEps = {}
  LinkLocal = {"l"}
  Knowledge <- Partial
  SideOpts <- Open
  Arrivals <- Inbound
  Types = {"plain"}
  Pairs <- FromOne
  Weights = {2}
  Samples = {8}
  None = None
  Setups <- Setup
  FirstSides = 3
  MaxSides = 4
  MaxCalls = 3
  MaxQueue = 2
INVARIANTS SentToIntended FallsBack AcksRetrace WeightedShare
CHECK_DEADLOCK FALSE
