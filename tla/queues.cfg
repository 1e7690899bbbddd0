\* Two threads, callbacks and an interrupt on one node's storage, at its budget.
CONSTANTS
  Kinds <- BothKinds
  Threads = {t1, t2}
  Items <- OneItem
  Control <- SmallControl
  Report <- LargeReport
  Budget = 7
  RecentBytes = 1
  TxExtra = 1
  MaxElems = 2
  MaxBuffered = 1
  Streams = {1}
  Seqs = {2}
  RouteSides = {s1}
  RouteCosts = {3}
  FanOuts = {2}
  Calls <- ProcessCalls
  CallbackCalls <- Receive
  MaxPushes = 2
  Nobody = Nobody
SPECIFICATION FairSpec
INVARIANTS WithinBudget RefusesOnlyTooLarge
 
