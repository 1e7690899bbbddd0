\* Every sequence of calls on a queue filled by push_back_prioritized (RX, TX and
\* replay queues) or by push_back (recent ids).
SPECIFICATION Spec
CONSTANTS
  Items <- SmallItems
  MaxBytes = 5
  MaxElems = 4
  StartCap = 1
  GrowNum = 3
  GrowDen = 2
  Slack = 1
INVARIANTS Accounted PrioritySorted
PROPERTIES EvictsLowerOnly FifoWithinPriority RejectsOnlyWhenOutranked EvictsMinimum
