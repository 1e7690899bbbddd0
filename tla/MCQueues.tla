------------------------------ MODULE MCQueues ------------------------------
(* Instances of Queues for TLC. *)
EXTENDS Queues

BothKinds == {"router", "relay"}
Receive == {"rx"}

\* A call with a timeout may go on after every item, so that of "tx" and "rx"
\* also behaves like the one without.
ProcessCalls ==
  {[call |-> "tx", timed |-> TRUE], [call |-> "rx", timed |-> TRUE],
   [call |-> "all", timed |-> TRUE], [call |-> "all", timed |-> FALSE]}

\* A control packet; an item for two sides that leaves room for one control
\* packet beside it, or for none once a Router adds TxExtra; and a report that
\* does not fit beside the recent-id cache.
SmallControl == [cost |-> 1, prio |-> 3, sides |-> 1]
OneItem == {[cost |-> 5, prio |-> 1, sides |-> 2]}
LargeReport == [cost |-> 7, prio |-> 2, sides |-> 1]
=============================================================================
