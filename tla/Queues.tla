------------------------------- MODULE Queues -------------------------------
(***************************************************************************)
(* The storage of one node, a Router or a Relay, and the loops that drain  *)
(* it: the queues, the reorder buffer and the learned routes that share    *)
(* MAX_QUEUE_BUDGET (make_shared_queue_room), the interrupt-safe receive   *)
(* queue beside them, and process_tx_queue, process_rx_queue,              *)
(* process_all_queues and the immediate calls, made by several threads and *)
(* by side callbacks, which hold the re-entry gate while they run.         *)
(*                                                                         *)
(* An item stands for what the queues see of it: its byte cost, its        *)
(* priority and the number of sides it goes to.  What a received item      *)
(* means is a choice among what dispatch may do to the storage.            *)
(*                                                                         *)
(* A definition directly above another one, with the same parameters, and  *)
(* used nowhere is a faulty form of it that a property below detects.      *)
(***************************************************************************)
EXTENDS ByteCost, FiniteSets, SequencesExt, FiniteSetsExt

CONSTANTS
  Kinds,         \* the node is one of these: "router", "relay"
  Threads,       \* application threads calling the node
  Items,         \* what callers hand in: [cost, prio, sides]
  Control,       \* an acknowledgement or request of the reliable link
  Report,        \* a TelemetryError packet
  Budget,        \* MAX_QUEUE_BUDGET
  RecentBytes,   \* RECENT_RX_QUEUE_BYTES, reserved by the recent-id cache
  TxExtra,       \* what TxQueued adds to the cost of a Router's item
  MaxElems,      \* element cap of a queue (BoundedDeque)
  MaxBuffered,   \* RELIABLE_MAX_PENDING, per stream
  Streams, Seqs, \* reliable streams and the sequence numbers that arrive early
  RouteSides, RouteCosts, \* sides that announce, sizes a learned route may have
  FanOuts,       \* numbers of sides a received item is forwarded to
  Calls,         \* the process_* calls made: [call, timed], call in {"tx", "rx", "all"}
  CallbackCalls, \* the process_* calls that a Router's callbacks make
  MaxPushes,     \* bound: items handed in
  Nobody         \* no thread

ASSUME QueueBounds ==
  /\ Budget \in Nat /\ RecentBytes \in 0..Budget /\ TxExtra \in Nat
  /\ MaxElems \in Nat \ {0} /\ MaxBuffered \in Nat \ {0} /\ MaxPushes \in Nat
  /\ Items \cup {Control, Report} \subseteq [cost : Nat \ {0}, prio : Nat, sides : Nat \ {0}]
  /\ \A c \in RouteCosts \cup FanOuts : c \in Nat \ {0}
  /\ Calls \subseteq [call : {"tx", "rx", "all"}, timed : BOOLEAN]
  /\ Nobody \notin Threads

VARIABLES
  kind,     \* Router or Relay
  store,    \* received_queue, transmit_queue, replay_queue, the buffered packets
            \* in the order of their keys, discovery_routes by last_seen_ms
  isr,      \* isr_rx_queue
  isr_busy, \* the thread holding its try-lock, or Nobody
  gate,     \* side_tx_gate: the thread whose side callback runs, or Nobody
  stack,    \* per thread, the calls it is in; a callback may add one
  pushes,   \* items handed in
  refused   \* history: the costs make_shared_queue_room refused

vars == <<kind, store, isr, isr_busy, gate, stack, pushes, refused>>

-----------------------------------------------------------------------------
(***************************************************************************)
(* The shared budget.                                                      *)
(***************************************************************************)

\* In the order of largest_shared_queue; recent_rx reports no bytes there.
Areas == <<"rx", "tx", "replay", "buffered", "routes">>
AreaNames == {"rx", "tx", "replay", "buffered", "routes"}

\* shared_queue_bytes_used: the recent-id cache counts with its full reserve.
Used(s) ==
  RecentBytes + Bytes(s.rx) + Bytes(s.tx) + Bytes(s.replay) + Bytes(s.buffered) + Bytes(s.routes)

\* The areas that max_by_key chooses from, and its tie-break: the reorder
\* buffer yields to the others, of which the last in the list wins.
EvictableQueues(s) == {i \in 1..Len(Areas) : Areas[i] # "routes" /\ s[Areas[i]] # <<>>}
Evictable(s) == {i \in 1..Len(Areas) : s[Areas[i]] # <<>>}
Rank(i) == IF Areas[i] = "buffered" THEN 0 ELSE i
Outweighs(s, i, j) ==
  \/ Bytes(s[Areas[i]]) > Bytes(s[Areas[j]])
  \/ Bytes(s[Areas[i]]) = Bytes(s[Areas[j]]) /\ Rank(i) >= Rank(j)
LargestSharedQueue(s) ==
  Areas[CHOOSE i \in Evictable(s) : \A j \in Evictable(s) : Outweighs(s, i, j)]

\* pop_shared_queue_item: the front of a queue, the buffered packet with the
\* lowest key and sequence number, the oldest route; nothing when there is none.
Popped(s, a) == IF s[a] = <<>> THEN s ELSE [s EXCEPT ![a] = Tail(@)]

\* One turn of the loop of make_shared_queue_room.
Evict(s, a) == Popped(s, IF Evictable(s) = {} THEN a ELSE LargestSharedQueue(s))

Empty(s) == Evictable(s) = {}

\* make_shared_queue_room: the loop ends when the cost fits or nothing is left.
\* It makes at most as many turns as there are entries.
Entries(s) == Len(s.rx) + Len(s.tx) + Len(s.replay) + Len(s.buffered) + Len(s.routes)
RoomForNone(s, cost, a) ==
  LET after[n \in Nat] ==
        IF n = 0 THEN s
        ELSE LET r == after[n - 1] IN IF Used(r) > Budget THEN Evict(r, a) ELSE r
  IN  IF cost > Budget THEN s ELSE after[Entries(s)]
MakeSharedQueueRoom(s, cost, a) ==
  LET after[n \in Nat] ==
        IF n = 0 THEN s
        ELSE LET r == after[n - 1] IN IF Used(r) + cost > Budget THEN Evict(r, a) ELSE r
  IN  IF cost > Budget THEN s ELSE after[Entries(s)]

\* ... and it returns an error when the cost is over the budget, or when it
\* does not fit in what the loop has left.
TooLarge(r, cost) == cost > Budget \/ (Empty(r) /\ Used(r) + cost > Budget)

\* fit_discovery_budget
FitDiscoveryBudget(s) ==
  LET after[n \in Nat] ==
        IF n = 0 THEN s
        ELSE LET r == after[n - 1] IN IF Used(r) > Budget THEN Popped(r, "routes") ELSE r
  IN  after[Len(s.routes)]

-----------------------------------------------------------------------------
(***************************************************************************)
(* Pushes: the storage afterwards and what the call returns.               *)
(***************************************************************************)

Result(s, why) == [store |-> s, why |-> why]

\* push_back_prioritized: what it keeps, and "priority queue saturated" when
\* that would cost an item of higher priority its place.
Fitting(q, v) ==
  Max({n \in 0..Len(q) :
         n < MaxElems /\ (n = 0 \/ Bytes(SubSeq(q, 1, n)) + v.cost <= Budget)})
Outranking(q, v) == Cardinality({i \in 1..Len(q) : q[i].prio > v.prio})
Saturated(q, v) == Outranking(q, v) > Fitting(q, v)
Prioritized(q, v) ==
  LET kept == SubSeq(q, 1, Max({Fitting(q, v), Outranking(q, v)}))
      before == Cardinality({i \in 1..Len(kept) : kept[i].prio >= v.prio})
  IN  IF Saturated(q, v) THEN kept ELSE InsertAt(kept, before + 1, v)

\* push_received, push_transmit, push_replay (push_rx and push_tx of a Relay).
PushTo(s, a, v) ==
  LET r == MakeSharedQueueRoom(s, v.cost, a)
  IN  IF TooLarge(r, v.cost) THEN Result(r, "too large")
      ELSE Result([r EXCEPT ![a] = Prioritized(@, v)],
                  IF Saturated(r[a], v) THEN "saturated" ELSE "ok")

\* n pushes of the same item under one lock; the first error ends them.
PushAll(s, a, v, n) ==
  LET after[i \in Nat] ==
        IF i = 0 THEN Result(s, "ok")
        ELSE LET r == after[i - 1] IN IF r.why = "ok" THEN PushTo(r.store, a, v) ELSE r
  IN  after[n]

\* buffer_reliable_rx
Precedes(e, o) == e.stream < o.stream \/ (e.stream = o.stream /\ e.seq < o.seq)
BufferReliableRx(s, e) ==
  LET r == MakeSharedQueueRoom(s, e.cost, "buffered")
      same == {i \in 1..Len(r.buffered) : r.buffered[i].stream = e.stream}
      kept == IF Cardinality(same) >= MaxBuffered THEN RemoveAt(r.buffered, Min(same))
              ELSE r.buffered
      before == Cardinality({i \in 1..Len(kept) : Precedes(kept[i], e)})
  IN  IF \E i \in 1..Len(s.buffered) : s.buffered[i].stream = e.stream /\ s.buffered[i].seq = e.seq
      THEN Result(s, "ok")
      ELSE IF TooLarge(r, e.cost) THEN Result(r, "too large")
      ELSE Result([r EXCEPT !.buffered = InsertAt(kept, before + 1, e)], "ok")

\* learn_discovery_packet: the side's route, now the most recently seen.
LearnRoute(s, side, cost) ==
  LET old == {i \in 1..Len(s.routes) : s.routes[i].side = side}  \* at most one
      kept == IF old = {} THEN s.routes ELSE RemoveAt(s.routes, CHOOSE i \in old : TRUE)
  IN  FitDiscoveryBudget([s EXCEPT !.routes = Append(kept, [side |-> side, cost |-> cost])])

\* TxQueued's byte_cost is that of the item and two bytes; a Relay adds none.
Transmitted(v) ==
  IF kind = "router" THEN [v EXCEPT !.cost = @ + TxExtra, !.sides = 1]
  ELSE [v EXCEPT !.sides = 1]
Requeued(v) == [v EXCEPT !.sides = 1]

\* Where replays wait: the Relay has a queue of its own for them.
ReplayArea == IF kind = "router" THEN "tx" ELSE "replay"

-----------------------------------------------------------------------------
(***************************************************************************)
(* A thread and the call on top of its stack: where in its loop it is, the *)
(* item in hand, the queue it came from, the packets released behind it,   *)
(* and did_any.                                                            *)
(***************************************************************************)

None == [cost |-> 0, prio |-> 0, sides |-> 0]
Frame(call, timed, at, v) ==
  [call |-> call, timed |-> timed, at |-> at, from |-> at, item |-> v, run |-> <<>>, did |-> FALSE]

Top(t) == Last(stack[t])
At(t, places) == stack[t] # <<>> /\ Top(t).at \in places
OnTop(t, f) == stack' = [stack EXCEPT ![t] = Append(Front(@), f)]
Goes(t, at) == OnTop(t, [Top(t) EXCEPT !.at = at])

\* The call returns: to its caller, to the callback that made it, or to the
\* dispatch whose handler failed.
Returned(s) ==
  IF s = <<>> THEN s
  ELSE Append(Front(s), [Last(s) EXCEPT !.at = IF @ = "calling" THEN "called" ELSE @])
Returns(t) == stack' = [stack EXCEPT ![t] = Returned(Front(@))]

\* Where the loop goes when a stage is over: "none" when it found no item or
\* had no success with it, "skipped" when the item needed no send, else "done".
\* A call with a timeout may end after an item.
Maybe(places, timed) == places \cup (IF timed THEN {"return"} ELSE {})

RouterNext(f, outcome) ==
  LET worked == outcome # "none"
  IN  CASE f.call \in {"send", "receive", "report"} -> {"return"}
        [] f.call \in {"tx", "rx"} ->
             IF worked THEN Maybe({f.call}, f.timed) ELSE {"return"}
        [] f.call = "all" /\ ~f.timed ->
             IF f.from = "tx" THEN {"rx"} ELSE IF f.did \/ worked THEN {"tx"} ELSE {"return"}
        [] f.call = "all" /\ f.timed ->
             IF f.from = "tx" THEN (IF worked THEN {"tx", "rx"} ELSE {"rx"})
             ELSE (IF worked THEN {"rx", "return"} ELSE {"return"})

RelayNext(f, outcome) ==
  CASE f.call = "rx" -> IF outcome = "none" THEN {"return"} ELSE Maybe({"rx"}, f.timed)
    [] f.call = "tx" /\ f.from = "replay" ->
         IF outcome = "done" THEN Maybe({"replay"}, f.timed) ELSE {"tx"}
    [] f.call = "tx" /\ f.from = "tx" ->
         IF outcome = "none" THEN {"return"}
         ELSE Maybe({"replay"}, f.timed /\ outcome = "done")
    [] f.call = "all" /\ f.from = "rx" -> Maybe({"replay"}, f.timed)
    [] f.call = "all" /\ f.from = "replay" -> {"tx"}
    [] f.call = "all" /\ f.from = "tx" ->
         Maybe(IF f.did \/ outcome = "done" THEN {"rx"} ELSE {"return"}, f.timed)

\* did_any is reset at the head of the loop of process_all_queues.
LoopHead == IF kind = "router" THEN "tx" ELSE "rx"

DidAny(outcome) == outcome = "done" \/ (kind = "router" /\ outcome = "skipped")

Proceeds(t, outcome) ==
  LET f == Top(t)
  IN  \E at \in (IF kind = "router" THEN RouterNext(f, outcome) ELSE RelayNext(f, outcome)) :
        \/ at = "return" /\ Returns(t)
        \/ /\ at # "return"
           /\ OnTop(t, [f EXCEPT !.at = at, !.from = at, !.item = None,
                                 !.did = f.call = "all" /\ at # LoopHead
                                         /\ (@ \/ DidAny(outcome))])

\* The packets released with a received item are dispatched before anything else.
After(t, outcome) ==
  LET f == Top(t)
  IN  IF f.run = <<>> THEN Proceeds(t, outcome)
      ELSE OnTop(t, [f EXCEPT !.at = "dispatch", !.item = Head(f.run), !.run = Tail(f.run)])

\* The record of refusals.
Refusing(cost, why) == refused' = IF why = "too large" THEN refused \cup {cost} ELSE refused

-----------------------------------------------------------------------------
(***************************************************************************)
(* Handing items in, from any context.                                     *)
(***************************************************************************)

HandIn(v, a) ==
  /\ pushes < MaxPushes /\ pushes' = pushes + 1
  /\ LET r == PushTo(store, a, v)
     IN  store' = r.store /\ Refusing(v.cost, r.why)
  /\ UNCHANGED <<kind, isr, isr_busy, gate, stack>>

\* rx_queue, rx_queue_from_side and the serialized forms; a Relay's rx_*_from_side.
RxQueue(v) == HandIn([v EXCEPT !.sides = 1], "rx")

\* tx_queue, tx_serialized_queue, log_queue; what poll_timesync and
\* poll_discovery queue.
TxQueue(v) ==
  HandIn(IF kind = "router" THEN [v EXCEPT !.cost = @ + TxExtra] ELSE Requeued(v), "tx")

\* rx_queue_isr and its variants; "rx queue busy" changes nothing.
RxQueueIsr(v) ==
  /\ kind = "router" /\ pushes < MaxPushes /\ isr_busy = Nobody /\ v.cost <= Budget
  /\ isr' = Prioritized(isr, [v EXCEPT !.sides = 1])
  /\ pushes' = pushes + 1
  /\ UNCHANGED <<kind, store, isr_busy, gate, stack, refused>>

\* A route ages out (prune_discovery_routes).
LoseRoute(i) ==
  /\ store' = [store EXCEPT !.routes = RemoveAt(@, i)]
  /\ UNCHANGED <<kind, isr, isr_busy, gate, stack, pushes, refused>>

-----------------------------------------------------------------------------
(***************************************************************************)
(* Calls.                                                                  *)
(***************************************************************************)

Idle(t) == stack[t] = <<>>

\* A Relay's process_tx_queue and process_all_queues are no-ops while a side
\* callback runs; a Router's are not.
GateCheck(call) == kind = "relay" /\ call \in {"tx", "all"} => gate = Nobody

First(call) ==
  CASE call = "rx" -> "rx"
    [] call = "tx" -> IF kind = "router" THEN "tx" ELSE "replay"
    [] call = "all" -> LoopHead

\* process_*_queue(_with_timeout), from the application or from a callback.
\* periodic polls first, which is TxQueue, and then is process_all_queues.
Process(t, call, timed) ==
  /\ \/ Idle(t)
     \/ At(t, {"calling"}) /\ (kind = "router" => call \in CallbackCalls)
  /\ GateCheck(call)
  /\ stack' = [stack EXCEPT ![t] = Append(@, Frame(call, timed, First(call), None))]
  /\ UNCHANGED <<kind, store, isr, isr_busy, gate, pushes, refused>>

\* tx, tx_serialized, log, log_ts; rx, rx_serialized and their _from_side
\* forms.  While a callback runs they queue: TxQueue and RxQueue.
Immediately(t, call, v) ==
  /\ kind = "router" /\ Idle(t) /\ gate = Nobody
  /\ pushes < MaxPushes /\ pushes' = pushes + 1
  /\ LET at == IF call = "send" THEN "send" ELSE "handle"
         w == IF call = "send" THEN [v EXCEPT !.cost = @ + TxExtra] ELSE v
     IN  stack' = [stack EXCEPT ![t] = <<Frame(call, FALSE, at, w)>>]
  /\ UNCHANGED <<kind, store, isr, isr_busy, gate, refused>>

\* clear_queues, clear_rx_queue, clear_tx_queue: a Relay's clear_queues leaves
\* the replays, a Router goes on to its interrupt-safe queue.
Cleared(which) ==
  CASE which = "rx" -> {"rx"}
    [] which = "tx" -> {"tx", "replay"}
    [] which = "all" -> {"rx", "tx"}

Clear(t, which) ==
  /\ Idle(t)
  /\ store' = [a \in DOMAIN store |-> IF a \in Cleared(which) THEN <<>> ELSE store[a]]
  /\ stack' = IF kind = "router" /\ which # "tx"
              THEN [stack EXCEPT ![t] = <<Frame("clear", FALSE, "clear isr", None)>>] ELSE stack
  /\ UNCHANGED <<kind, isr, isr_busy, gate, pushes, refused>>

\* IsrRxQueue::clear, whose "rx queue busy" the callers ignore.
ClearIsr(t) ==
  /\ At(t, {"clear isr"})
  /\ isr' = IF isr_busy = Nobody THEN <<>> ELSE isr
  /\ Returns(t)
  /\ UNCHANGED <<kind, store, isr_busy, gate, pushes, refused>>

-----------------------------------------------------------------------------
(***************************************************************************)
(* The receive stage.                                                      *)
(***************************************************************************)

\* IsrRxQueue::pop_front under its try-lock, which an interrupt may find held.
LockIsr(t) ==
  /\ kind = "router" /\ At(t, {"rx"}) /\ isr_busy = Nobody
  /\ isr_busy' = t /\ Goes(t, "isr")
  /\ UNCHANGED <<kind, store, isr, gate, pushes, refused>>

PopIsr(t) ==
  /\ At(t, {"isr"})
  /\ isr_busy' = Nobody
  /\ IF isr = <<>> THEN Goes(t, "queued") /\ UNCHANGED isr
     ELSE isr' = Tail(isr) /\ OnTop(t, [Top(t) EXCEPT !.at = "handle", !.item = Head(isr)])
  /\ UNCHANGED <<kind, store, gate, pushes, refused>>

\* The other receive queue, also when the try-lock was busy.
PopReceived(t) ==
  /\ \/ At(t, {"queued"})
     \/ At(t, {"rx"}) /\ (kind = "relay" \/ isr_busy # Nobody)
  /\ IF store.rx = <<>> THEN After(t, "none")
     ELSE OnTop(t, [Top(t) EXCEPT !.at = "handle", !.item = Head(store.rx)])
  /\ store' = Popped(store, "rx")
  /\ UNCHANGED <<kind, isr, isr_busy, gate, pushes, refused>>

\* process_rx_queue_item, or rx_item of an immediate call.  A call that meets
\* an error ends, and loses what was released with the item ...
HandleFails(t) ==
  /\ At(t, {"handle", "dispatch"})
  /\ Returns(t)
  /\ UNCHANGED <<kind, store, isr, isr_busy, gate, pushes, refused>>

\* What the item makes the node store; an error ends the call.
Stores(t, cost, r) ==
  /\ store' = r.store /\ Refusing(cost, r.why)
  /\ IF r.why = "ok" THEN After(t, "done") ELSE Returns(t)
  /\ UNCHANGED <<kind, isr, isr_busy, gate, pushes>>

\* ... it is old and is only acknowledged ...
HandleOld(t) ==
  /\ At(t, {"handle"})
  /\ Stores(t, Control.cost, PushTo(store, "tx", Control))

\* ... it is early on its stream: buffered, partially acknowledged and the
\* missing packet requested ...
HandleEarly(t, stream, seq) ==
  /\ At(t, {"handle"})
  /\ LET v == Top(t).item
         r == BufferReliableRx(store, [stream |-> stream, seq |-> seq,
                                       cost |-> v.cost, prio |-> v.prio])
     IN  Stores(t, IF r.why = "ok" THEN Control.cost ELSE v.cost,
                IF r.why = "ok" THEN PushAll(r.store, "tx", Control, 2) ELSE r)

\* ... it is the expected one: it takes the run buffered behind it along and is
\* acknowledged before it is dispatched ...
HandleExpected(t, stream, k) ==
  LET b == store.buffered
      first == Cardinality({i \in 1..Len(b) : b[i].stream < stream})
      run == SubSeq(b, first + 1, first + k)
      r == PushTo([store EXCEPT !.buffered = SubSeq(b, 1, first) \o SubSeq(b, first + k + 1, Len(b))],
                  "tx", Control)
  IN  /\ At(t, {"handle"})
      /\ first + k <= Len(b) /\ \A i \in 1..k : run[i].stream = stream
      /\ store' = r.store /\ Refusing(Control.cost, r.why)
      /\ IF r.why # "ok" THEN Returns(t)
         ELSE OnTop(t, [Top(t) EXCEPT !.at = "dispatch", !.run =
                [i \in 1..k |-> [cost |-> run[i].cost, prio |-> run[i].prio, sides |-> 1]]])
      /\ UNCHANGED <<kind, isr, isr_busy, gate, pushes>>

\* ... a handler fails, which a Router reports at once before it goes on ...
HandlerFails(t) ==
  /\ kind = "router" /\ At(t, {"handle", "dispatch"})
  /\ stack' = [stack EXCEPT ![t] = Append(Append(Front(@), [Last(@) EXCEPT !.at = "reported"]),
                                          Frame("report", FALSE, "send", Report))]
  /\ UNCHANGED <<kind, store, isr, isr_busy, gate, pushes, refused>>

Dispatching == {"handle", "dispatch", "reported"}

\* ... it is a duplicate, or dispatched to local handlers only ...
DispatchLocally(t) ==
  /\ At(t, Dispatching)
  /\ After(t, "done")
  /\ UNCHANGED <<kind, store, isr, isr_busy, gate, pushes, refused>>

\* ... it is forwarded to n sides (enqueue_to_sides, dispatch_relay_rx_item) ...
DispatchForwards(t, n) ==
  /\ At(t, Dispatching) /\ Top(t).call # "receive"
  /\ LET v == Transmitted(Top(t).item)
     IN  Stores(t, v.cost, PushAll(store, "tx", v, n))

\* ... an immediate call sends it itself (relay_send) ...
DispatchSends(t, n) ==
  /\ At(t, Dispatching) /\ Top(t).call = "receive"
  /\ OnTop(t, [Top(t) EXCEPT !.at = "send",
                             !.item = [Transmitted(@) EXCEPT !.sides = n]])
  /\ UNCHANGED <<kind, store, isr, isr_busy, gate, pushes, refused>>

\* ... or it announces what a side reaches.
DispatchLearns(t, side, cost) ==
  /\ At(t, Dispatching)
  /\ Stores(t, 0, Result(LearnRoute(store, side, cost), "ok"))

-----------------------------------------------------------------------------
(***************************************************************************)
(* The send stages.                                                        *)
(***************************************************************************)

\* process_reliable_timeouts and process_end_to_end_reliable_timeouts, at the
\* head of the loops that send: a replay is due.
Timeout(t, v) ==
  /\ ~Idle(t) /\ Top(t).call \in {"tx", "all"} /\ Top(t).at = First(Top(t).call)
  /\ pushes < MaxPushes /\ pushes' = pushes + 1
  /\ LET w == IF kind = "router" THEN Transmitted(v) ELSE Requeued(v)
         r == PushTo(store, ReplayArea, w)
     IN  /\ store' = r.store /\ Refusing(w.cost, r.why)
         /\ IF r.why = "ok" THEN UNCHANGED stack ELSE Returns(t)
  /\ UNCHANGED <<kind, isr, isr_busy, gate>>

\* process_replay_queue_item and pop_ready_tx_item take an item; one that is
\* already acknowledged, or whose side is gone, goes nowhere.
Take(t, a) ==
  /\ At(t, {a}) /\ a \in {"replay", "tx"}
  /\ \/ store[a] # <<>> /\ OnTop(t, [Top(t) EXCEPT !.at = "send", !.item = Head(store[a])])
     \/ (store[a] = <<>> \/ kind = "relay") /\ After(t, "none")
  /\ store' = Popped(store, a)
  /\ UNCHANGED <<kind, isr, isr_busy, gate, pushes, refused>>

\* tx_item_impl, send_tx_item: a duplicate, no route, or a route forbidden.
Skip(t) ==
  /\ At(t, {"send"}) /\ Top(t).from # "replay"
  /\ After(t, "skipped")
  /\ UNCHANGED <<kind, store, isr, isr_busy, gate, pushes, refused>>

\* A failure ends the call; a Router may first report it (handle_callback_error),
\* and fail again when it does.
Fails(t) ==
  \/ Returns(t)
  \/ /\ kind = "router"
     /\ OnTop(t, [Top(t) EXCEPT !.call = "report", !.at = "send", !.item = Report, !.run = <<>>])

\* dispatch_local_for_item: a local handler of the packet fails.
LocalFails(t) ==
  /\ kind = "router" /\ At(t, {"send"})
  /\ Fails(t)
  /\ UNCHANGED <<kind, store, isr, isr_busy, gate, pushes, refused>>

\* try_enter_side_tx succeeds and the side's callback starts.
Enter(t) ==
  /\ At(t, {"send"}) /\ gate = Nobody
  /\ gate' = t /\ Goes(t, "calling")
  /\ UNCHANGED <<kind, store, isr, isr_busy, pushes, refused>>

\* "side tx busy" in a Router: the sides not yet served are queued again.
RouterBusy(t) ==
  /\ At(t, {"send"}) /\ gate # Nobody /\ kind = "router"
  /\ Goes(t, "requeue")
  /\ UNCHANGED <<kind, store, isr, isr_busy, gate, pushes, refused>>

Requeue(t) ==
  /\ At(t, {"requeue"})
  /\ LET v == Requeued(Top(t).item)
         r == PushTo(store, "tx", v)
     IN  /\ store' = r.store /\ Refusing(v.cost, r.why)
         /\ IF r.why # "ok" THEN Returns(t)
            ELSE IF Top(t).item.sides > 1
                 THEN OnTop(t, [Top(t) EXCEPT !.item.sides = @ - 1])
            ELSE After(t, "done")
  /\ UNCHANGED <<kind, isr, isr_busy, gate, pushes>>

\* ... in a Relay: a replay goes back and counts as not done, process_tx_queue
\* puts the item back and ends, process_all_queues ends without it.
RelayBusy(t) ==
  /\ At(t, {"send"}) /\ gate # Nobody /\ kind = "relay"
  /\ LET f == Top(t)
         r == IF f.from = "tx" /\ f.call = "all" THEN Result(store, "ok")
              ELSE PushTo(store, f.from, f.item)
     IN  /\ store' = r.store /\ Refusing(f.item.cost, r.why)
         /\ IF f.from = "replay" /\ r.why = "ok" THEN After(t, "none") ELSE Returns(t)
  /\ UNCHANGED <<kind, isr, isr_busy, gate, pushes>>

\* ReentryGuard's drop: the gate is free when the callback has returned,
\* whatever it returned.
LeftOnSuccess(ok) == IF ok THEN Nobody ELSE gate
Left(ok) == Nobody

\* The callback returns: its error loses the item.
Leave(t, ok) ==
  /\ At(t, {"calling", "called"})
  /\ gate' = Left(ok)
  /\ IF ~ok THEN Fails(t)
     ELSE IF Top(t).item.sides > 1
          THEN OnTop(t, [Top(t) EXCEPT !.at = "send", !.item.sides = @ - 1])
     ELSE After(t, "done")
  /\ UNCHANGED <<kind, store, isr, isr_busy, pushes, refused>>

-----------------------------------------------------------------------------
Init ==
  /\ kind \in Kinds
  /\ store = [a \in AreaNames |-> <<>>]
  /\ isr = <<>> /\ isr_busy = Nobody /\ gate = Nobody
  /\ stack = [t \in Threads |-> <<>>]
  /\ pushes = 0 /\ refused = {}

\* What a thread does inside a call.
Step(t) ==
  \/ LockIsr(t) \/ PopIsr(t) \/ PopReceived(t) \/ ClearIsr(t)
  \/ HandleFails(t) \/ HandleOld(t) \/ HandlerFails(t) \/ DispatchLocally(t)
  \/ \E i \in Streams, n \in Seqs : HandleEarly(t, i, n)
  \/ \E i \in Streams, k \in 0..MaxBuffered : HandleExpected(t, i, k)
  \/ \E n \in FanOuts : DispatchForwards(t, n) \/ DispatchSends(t, n)
  \/ \E s \in RouteSides, c \in RouteCosts : DispatchLearns(t, s, c)
  \/ \E v \in Items : Timeout(t, v)
  \/ \E a \in {"replay", "tx"} : Take(t, a)
  \/ Skip(t) \/ LocalFails(t) \/ Enter(t) \/ RouterBusy(t) \/ Requeue(t) \/ RelayBusy(t)
  \/ \E ok \in BOOLEAN : Leave(t, ok)

Next ==
  \/ \E v \in Items : RxQueue(v) \/ TxQueue(v) \/ RxQueueIsr(v)
  \/ \E i \in 1..Len(store.routes) : LoseRoute(i)
  \/ \E t \in Threads :
       \/ Step(t)
       \/ \E c \in Calls : Process(t, c.call, c.timed)
       \/ \E call \in {"send", "receive"}, v \in Items : Immediately(t, call, v)
       \/ \E which \in {"rx", "tx", "all"} : Clear(t, which)

\* A thread in a call keeps running, and a side callback returns: weak fairness
\* of Step(t), which is enabled whenever the thread is in a call.  And a side
\* callback does not fail for ever: the report of a failure goes to the same
\* callback, so handle_callback_error calls itself until one succeeds or the
\* clock has not moved, which makes the report a duplicate.
Moves(t) == stack'[t] # stack[t]
Reporting(t) == \E i \in 1..Len(stack[t]) : stack[t][i].call = "report"
Fairness ==
  \A t \in Threads : ([]<>Idle(t) \/ []<><<Moves(t)>>_stack) /\ []<>~Reporting(t)

Spec == Init /\ [][Next]_vars
FairSpec == Spec /\ Fairness

-----------------------------------------------------------------------------
(***************************************************************************)
(* Properties.                                                             *)
(***************************************************************************)

\* The areas that share MAX_QUEUE_BUDGET never take more than it between them,
\* whichever of them grows: "so the total stays under MAX_QUEUE_BUDGET".
WithinBudget == Used(store) <= Budget

\* An item is refused for its size only when it does not fit beside the
\* recent-id cache alone: whatever else is stored gives way to it
\* (make_shared_queue_room's second error).
RefusesOnlyTooLarge == \A c \in refused : c + RecentBytes > Budget

\* Every call returns, whatever the other threads, the callbacks and the
\* interrupt do: no drain loop feeds itself for ever (process_*_queues with
\* timeout 0, the requeues after "side tx busy").
DrainReturns == \A t \in Threads : stack[t] # <<>> ~> stack[t] = <<>>
=============================================================================
