------------------------------ MODULE ByteCost ------------------------------
(***************************************************************************)
(* The trait ByteCost (src/src/queue.rs) as the bounded storage uses it:   *)
(* what a queue, the reorder buffer or the learned routes weigh together.  *)
(***************************************************************************)
EXTENDS Integers, Sequences

\* Entries are records with a field cost (byte_cost).
Bytes(q) ==
  LET sum[i \in 0..Len(q)] == IF i = 0 THEN 0 ELSE sum[i - 1] + q[i].cost
  IN  sum[Len(q)]
=============================================================================
