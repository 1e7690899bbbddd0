\* Ordered stream, one thread on each side, a medium that loses, duplicates and
\* reorders; nothing else goes wrong.
SPECIFICATION Spec
CONSTANTS
  Packets = {p1, p2, p3}
  NoPkt = NoPkt
  NoEntry = NoEntry
  Threads = {t1}
  RxThreads = {r1}
  Ordered = TRUE
  SeqMax = 4
  MaxPending = 2
  MaxRetries = 1
  MaxRecent = 3
  MaxAlloc = 3
  MaxLoss = 1
  RttBounded = FALSE
  Env = {"lose", "dup"}
SYMMETRY PacketSymmetry
CHECK_DEADLOCK FALSE
INVARIANTS TypeOK Recoverable ReplayScheduled PartialAckHeld AckedIsDispatched
PROPERTIES ForgetsOnlyTaken ImplementsStream
