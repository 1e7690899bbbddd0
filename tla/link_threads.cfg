\* Unordered stream: two transmitting threads share the gate and the history;
\* callbacks fail and the queue is cleared.
SPECIFICATION Spec
CONSTANTS
  Packets = {p1, p2, p3}
  NoPkt = NoPkt
  NoEntry = NoEntry
  Threads = {t1, t2}
  RxThreads = {r1}
  Ordered = FALSE
  SeqMax = 4
  MaxPending = 1
  MaxRetries = 1
  MaxRecent = 3
  MaxAlloc = 3
  MaxLoss = 0
  RttBounded = FALSE
  Env = {"txfail", "clear"}
SYMMETRY ThreadSymmetry
CHECK_DEADLOCK FALSE
INVARIANTS GateExclusive HistoryBounded HistoryMatchesOrder
