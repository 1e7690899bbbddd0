----------------------------- MODULE MCTimeSync -----------------------------
(***************************************************************************)
(* Small instances of TimeSync for TLC.                                    *)
(***************************************************************************)
EXTENDS TimeSync

CONSTANTS n1, n2

\* Sender ids sort n1 before n2; the local source names come between them.
IdOrder ==
  [x \in Names |-> CASE x = n1 -> 0 [] x = "local_full" -> 1 [] x = "local_date" -> 2
                     [] x = "local_tod" -> 3 [] x = "user" -> 4 [] x = n2 -> 5]

Cfg(role, priority, promotion) ==
  [role |-> role, priority |-> priority, promotion |-> promotion]

Start(cfg, local) == [cfg |-> cfg, local |-> local]
Date == [date |-> 1, tod |-> None]

\* Two producers of equal priority; an opportunistic node and a consumer that may
\* be promoted, both knowing the date; a producer and
\* a router built without time sync.
Pairs ==
  {[n \in {n1, n2} |-> Start(Cfg("source", 1, TRUE), None)],
   [n \in {n1, n2} |-> Start(IF n = n1 THEN Cfg("auto", 2, FALSE) ELSE Cfg("consumer", 1, TRUE),
                          Date)],
   [n \in {n1, n2} |-> Start(IF n = n2 THEN None ELSE Cfg("source", 0, FALSE), None)]}

\* A complete time and a time of day.
SomeTimes == {[date |-> 1, tod |-> 0], [date |-> None, tod |-> 1]}

\* A receiver that reports the time for a while.
Gps == {[priority |-> 0, time |-> [date |-> 1, tod |-> 1], ttl |-> TRUE]}

Reconfigured == {None, Cfg("source", 0, FALSE)}
=============================================================================
