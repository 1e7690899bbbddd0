\* Both ends are polled, retransmission waits out the round trip, and fewer
\* messages are lost than a frame has attempts.
SPECIFICATION FairSpec
CONSTANTS
  Packets = {p1, p2, p3}
  NoPkt = NoPkt
  NoEntry = NoEntry
  Threads = {t1}
  RxThreads = {r1}
  Ordered = TRUE
  SeqMax = 4
  MaxPending = 2
  MaxRetries = 1
  MaxRecent = 3
  MaxAlloc = 3
  MaxLoss = 1
  RttBounded = TRUE
  Env = {"lose", "corrupt"}
CHECK_DEADLOCK FALSE
PROPERTIES EveryPacketDelivered HistoryDrains
