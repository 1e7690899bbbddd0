\* Ordered stream whose end-to-end layer replays packets, with a medium that
\* loses, budget evictions and failing handlers and callbacks.
SPECIFICATION Spec
CONSTANTS
  Packets = {p1, p2}
  NoPkt = NoPkt
  NoEntry = NoEntry
  Threads = {t1}
  RxThreads = {r1}
  Ordered = TRUE
  SeqMax = 4
  MaxPending = 2
  MaxRetries = 0
  MaxRecent = 2
  MaxAlloc = 3
  MaxLoss = 1
  RttBounded = FALSE
  Env = {"lose", "txfail", "evict", "e2e", "handler", "dispatch", "saturated"}
SYMMETRY PacketSymmetry
CHECK_DEADLOCK FALSE
INVARIANTS DeliveredInOrder NoDuplicateDelivery
