------------------------------- MODULE Routes -------------------------------
(***************************************************************************)
(* Route selection: to which sides a router (src/src/router.rs) or a relay *)
(* (src/src/relay.rs) hands a packet, and what becomes of a packet that is *)
(* planned or queued while the application changes sides and routes.       *)
(*                                                                         *)
(* One node, of either kind.  Its methods take the state mutex several     *)
(* times: once per plan, once to push on the transmit queue, once to check *)
(* a queued item again, and not at all while a side's transmit callback    *)
(* runs.  Each such section is a step of the worker that executes it, so   *)
(* the calls that change sides and routes fall between any two of them.    *)
(*                                                                         *)
(* What discovery knows of a side is the record the planner reads: the     *)
(* endpoints and time sources reachable through it, the destinations that  *)
(* hold them, and whether it has expired.  Discovery.tla models how it is  *)
(* learned.  The reliable framing of a side is in ReliableLink.tla.        *)
(***************************************************************************)
EXTENDS Integers, Sequences, FiniteSets, SequencesExt, FiniteSetsExt, Functions

CONSTANTS
  Workers,     \* application threads that send, receive and drain queues
  Packets,     \* packets: [ty, eps, id, source, bytes]
  LocalEps,    \* endpoints this node has a handler for
  LinkLocal,   \* endpoints for which is_link_local_only holds
  Knowledge,   \* what discovery may know of a side: [eps, sources, holders, fresh]
  Own,         \* packets the application of a router submits
  Arrivals,    \* pairs of a side and a packet that may be received from it
  Pairs,       \* pairs of source and side the application configures routes for
  Types,       \* types the application configures typed routes for
  SideOpts,    \* options a side may be added with: [ingress, egress, link_local]
  Weights,     \* route weights and priorities the application may set
  Samples,     \* bandwidths a transmit callback may be measured at
  None,        \* no packet, no time source
  Setups,      \* nodes before they are used: [kind, modes, weights, prios], kind "router" or "relay"
  FirstSides,  \* sides registered before the node is used
  MaxSides,    \* bound: add_side_* calls, those of FirstSides included
  MaxCalls,    \* bound: packets and changes of sides, routes and discovery knowledge
  MaxQueue     \* bound: items waiting in the transmit queue

Local   == 0                  \* src == None: traffic of the node itself
SideIds == 1..MaxSides

ASSUME SetupAssumption ==
  /\ MaxSides \in Nat /\ FirstSides \in 1..MaxSides
  /\ SideOpts \subseteq [ingress : BOOLEAN, egress : BOOLEAN, link_local : BOOLEAN]
  /\ \A c \in Setups : /\ c.kind \in {"router", "relay"}
                       /\ \A k \in DOMAIN c.weights : c.weights[k] \in Nat
                       /\ \A k \in DOMAIN c.prios : c.prios[k] \in Nat
ASSUME RoutesAssumption ==
  /\ Weights \subseteq Nat /\ Samples \subseteq Nat
  /\ Own \subseteq Packets /\ Arrivals \subseteq SideIds \X Packets
  /\ Pairs \subseteq ({Local} \cup SideIds) \X SideIds
  /\ \A p \in Packets : p.ty \in {"plain", "reliable", "discovery", "timesync", "ack"}

VARIABLES
  kind,     \* router or relay
  sides,    \* sides: the registered sides, in order; a removed one is not live
  overrides,\* route_overrides: <<src, dst>> -> BOOLEAN
  typed,    \* typed_route_overrides: <<src, ty, dst>> -> BOOLEAN
  weights,  \* route_weights: <<src, dst>> -> weight
  prios,    \* route_priorities: <<src, dst>> -> priority
  modes,    \* source_route_modes: src -> "weighted" or "failover"
  cursors,  \* route_selection_cursors: src -> Nat
  stats,    \* adaptive_route_stats: side -> estimated_bandwidth_bps
  reach,    \* discovery_routes: side -> what is known of it
  returns,  \* reliable_return_routes: packet id -> side
  acked,    \* end_to_end_acked_destinations (relay): pairs of packet id and holder
  rxq,      \* received_queue and, for items with isr, the ISR queue
  txq,      \* transmit_queue: ToSide items
  work,     \* what each worker is doing
  calls,    \* packets and changes so far
  came,     \* history: pairs of packet id and side it was received from
  turns     \* history: weighted choices of a source since its candidates changed

policy == <<overrides, typed, weights, prios, modes>>
vars == <<kind, sides, overrides, typed, weights, prios, modes, cursors, stats, reach,
          returns, acked, rxq, txq, work, calls, came, turns>>

-----------------------------------------------------------------------------
(* Which sides a packet may leave by.                                      *)

Live(s) == s \in DOMAIN sides /\ sides[s].live

\* Partial functions: the entry for k, or d if there is none; f without K.
Lookup(f, k, d) == IF k \in DOMAIN f THEN f[k] ELSE d
With(f, k, v)   == [x \in DOMAIN f \cup {k} |-> IF x = k THEN v ELSE f[x]]
Without(f, K)   == Restrict(f, DOMAIN f \ K)

\* A set of side ids, or of positions in a queue, in order; the items at these.
Ascending(S) ==
  CHOOSE q \in [1..Cardinality(S) -> S] : \A i, j \in DOMAIN q : i < j => q[i] < q[j]
Retained(q, at) == [i \in 1..Cardinality(at) |-> q[Ascending(at)[i]]]

\* ensure_side_ingress_enabled
Admits(src) == Live(src) /\ sides[src].ingress

\* Any typed rule of a source and type makes an allowlist of all of them.
TypedAllows(src, ty, dst) ==
  (\E r \in DOMAIN typed : r[1] = src /\ r[2] = ty) => Lookup(typed, <<src, ty, dst>>, FALSE)

RouterAllows(src, ty, dst) ==
  /\ Live(dst) /\ sides[dst].egress
  /\ src # Local => Admits(src)
  /\ Lookup(overrides, <<src, dst>>, src # dst)
  /\ TypedAllows(src, ty, dst)

RelayAllows(src, ty, dst) ==
  /\ Live(dst) /\ sides[dst].egress
  /\ src # Local => Admits(src) /\ src # dst
  /\ Lookup(overrides, <<src, dst>>, TRUE)
  /\ TypedAllows(src, ty, dst)

Allowed(src, ty, dst) ==
  IF kind = "relay" THEN RelayAllows(src, ty, dst) ELSE RouterAllows(src, ty, dst)

RouterEligible(src, ty, local) ==
  {s \in DOMAIN sides : (local => sides[s].link_local) /\ RouterAllows(src, ty, s)}

RelayEligible(src, ty, local) ==
  {s \in DOMAIN sides : (local => sides[s].link_local) /\ RelayAllows(src, ty, s)}

-----------------------------------------------------------------------------
(* apply_route_selection_locked: a choice is the sides it takes, whether   *)
(* it moved the cursor of the source, and how it was made.                 *)

Choice(to, moved, how) == [to |-> to, moved |-> moved, how |-> how]

WeightOf(src, s) == Lookup(weights, <<src, s>>, 1)
PrioOf(src, s)   == Lookup(prios, <<src, s>>, 0)

\* What the sides up to each one weigh together, and all of them.
Shares(w) ==
  LET sum[n \in 0..MaxSides] == IF n = 0 THEN 0 ELSE sum[n - 1] + Lookup(w, n, 0)
  IN sum
Total(w) == Shares(w)[MaxSides]

\* The side on whose share of the total weight the number falls, sides in order.
AtShare(w, n) == CHOOSE s \in DOMAIN w : Shares(w)[s - 1] <= n /\ n < Shares(w)[s]

\* One packet of every total takes each side as often as its weight says.
ByWeight(src, w, how) ==
  IF Total(w) = 0 THEN Choice({}, FALSE, how)
  ELSE Choice({AtShare(w, Lookup(cursors, src, 0) % Total(w))}, TRUE, how)

Failover(src, S) ==
  Choice({CHOOSE s \in S : \A t \in S : \/ PrioOf(src, s) < PrioOf(src, t)
                                        \/ PrioOf(src, s) = PrioOf(src, t) /\ s <= t},
         FALSE, "failover")

\* AdaptiveRouteStats::weight
AdaptiveWeight(s) == Max({1, Lookup(stats, s, 0)})

\* Sides that were never measured come first, in turn.
Adaptive(src, S) ==
  LET unmeasured == S \ DOMAIN stats
      pick == Lookup(cursors, src, 0) % Cardinality(unmeasured)
  IN IF unmeasured # {} THEN Choice({Ascending(unmeasured)[pick + 1]}, TRUE, "adaptive")
     ELSE ByWeight(src, [s \in S |-> AdaptiveWeight(s)], "adaptive")

RouterSelect(src, S, discovered) ==
  IF Cardinality(S) <= 1 THEN Choice(S, FALSE, "single")
  ELSE IF src \notin DOMAIN modes
       THEN IF discovered THEN Adaptive(src, S) ELSE Choice(S, FALSE, "fanout")
  ELSE IF modes[src] = "weighted" THEN ByWeight(src, [s \in S |-> WeightOf(src, s)], "weighted")
  ELSE IF modes[src] = "failover" THEN Failover(src, S)
  ELSE Choice(S, FALSE, "fanout")

\* The relay's copies.
RelayAdaptive(src, S) == Adaptive(src, S)

RelaySelect(src, S, discovered) ==
  IF discovered /\ src \notin DOMAIN modes /\ Cardinality(S) > 1
  THEN RelayAdaptive(src, S)
  ELSE RouterSelect(src, S, FALSE)

-----------------------------------------------------------------------------
(* remote_side_plan.                                                       *)

\* endpoints_are_link_local_only, has_nonlocal_endpoint
LinkLocalOnly(p) == p.eps # {} /\ p.eps \subseteq LinkLocal
HasNonlocal(p)   == \E e \in p.eps : e \notin LocalEps \cup LinkLocal

\* Sides that discovery may send p to, the time source of p aside.
Known(p, src) ==
  {s \in DOMAIN reach : /\ s # src /\ reach[s].fresh
                        /\ LinkLocalOnly(p) => Live(s) /\ sides[s].link_local
                        /\ Allowed(src, p.ty, s)}

\* preferred_timesync_route_source is part of the packet here.
Exact(p, src)   == {s \in Known(p, src) : p.source # None /\ p.source \in reach[s].sources}
Generic(p, src) == {s \in Known(p, src) : p.eps \cap reach[s].eps # {}}

\* Without a return route the acknowledgement is flooded.
ReturnOrFlood(p, src) ==
  Choice(IF p.id \in DOMAIN returns THEN {returns[p.id]} ELSE RouterEligible(src, p.ty, FALSE),
         FALSE, "return")

\* An end-to-end acknowledgement goes back the way its packet came.
ReturnChoice(p, src) ==
  Choice({s \in SideIds : p.id \in DOMAIN returns /\ returns[p.id] = s /\ Allowed(src, p.ty, s)},
         FALSE, "return")

\* The planner knows nothing of a side that has expired and gives up.
PlanNoFallback(p, src) ==
  LET exact == Exact(p, src)
      generic == Generic(p, src)
      discovered == p.ty # "reliable"
  IN CASE p.ty = "ack" -> ReturnChoice(p, src)
       [] p.ty # "ack" /\ exact # {} -> RouterSelect(src, exact, discovered)
       [] p.ty # "ack" /\ exact = {} /\ generic # {} -> RouterSelect(src, generic, discovered)
       [] OTHER -> IF DOMAIN reach = {} THEN RouterSelect(src, RouterEligible(src, p.ty, LinkLocalOnly(p)), FALSE)
                   ELSE Choice({}, FALSE, "none")

RouterPlan(p, src) ==
  LET exact == Exact(p, src)
      generic == Generic(p, src)
      flood(local) == RouterSelect(src, RouterEligible(src, p.ty, local), FALSE)
      discovered == p.ty # "reliable"
  IN IF p.ty = "discovery" THEN flood(FALSE)
     ELSE IF p.ty = "ack" THEN ReturnChoice(p, src)
     ELSE IF exact # {} THEN RouterSelect(src, exact, discovered)
     ELSE IF generic # {} THEN RouterSelect(src, generic, discovered)
     ELSE IF LinkLocalOnly(p) THEN flood(TRUE)
     ELSE IF HasNonlocal(p) \/ p.ty = "timesync" THEN flood(FALSE)
     ELSE Choice({}, FALSE, "none")

\* filter_end_to_end_satisfied_sides_locked: a side is left out when it leads to
\* destinations and all those that hold an endpoint of p have acknowledged p.
Unsatisfied(p, S) ==
  {s \in S : \/ p.ty # "reliable" \/ ~\E a \in acked : a[1] = p.id
             \/ s \notin DOMAIN reach \/ reach[s].holders = {}
             \/ \E h \in reach[s].holders : h[2] \cap p.eps # {} /\ <<p.id, h[1]>> \notin acked}

RelayPlan(p, src) ==
  LET exact == Exact(p, src)
      generic == Generic(p, src)
      flood(local) == RelaySelect(src, RelayEligible(src, p.ty, local), FALSE)
      discovered == p.ty # "reliable"
  IN IF p.ty = "discovery" THEN flood(FALSE)
     ELSE IF p.ty = "ack" THEN ReturnChoice(p, src)
     ELSE IF exact # {} THEN RelaySelect(src, Unsatisfied(p, exact), discovered)
     ELSE IF generic # {} THEN RelaySelect(src, Unsatisfied(p, generic), discovered)
     ELSE flood(LinkLocalOnly(p))

-----------------------------------------------------------------------------
(* Workers.  A job is a side to hand the packet to; named keeps, for the   *)
(* history, which registration the planner meant.                          *)

Idle == [pc |-> "idle", p |-> None, src |-> Local, jobs |-> <<>>, how |-> "none", side |-> 0]

\* A side that is registered; its name is the number of its registration.
Side(name, o) ==
  [name |-> name, live |-> TRUE, ingress |-> o.ingress, egress |-> o.egress, link_local |-> o.link_local]

Job(s) == [dst |-> s, named |-> sides[s].name]

Jobs(S) == [i \in 1..Cardinality(S) |-> Job(Ascending(S)[i])]

Init ==
  /\ \E o \in [1..FirstSides -> SideOpts] : sides = [s \in 1..FirstSides |-> Side(s, o[s])]
  /\ \E c \in Setups : kind = c.kind /\ modes = c.modes /\ weights = c.weights /\ prios = c.prios
  /\ overrides = <<>> /\ typed = <<>>
  /\ cursors = <<>> /\ stats = <<>> /\ reach = <<>> /\ returns = <<>> /\ acked = {}
  /\ rxq = <<>> /\ txq = <<>>
  /\ work = [w \in Workers |-> Idle]
  /\ calls = 0 /\ came = {} /\ turns = <<>>

-----------------------------------------------------------------------------
(* Sending and receiving.                                                  *)

plumbing == <<kind, sides, policy, reach>>

Go(w, pc, p, src, jobs, how) ==
  work' = [work EXCEPT ![w] = [pc |-> pc, p |-> p, src |-> src, jobs |-> jobs, how |-> how, side |-> 0]]

Rest(w) == work' = [work EXCEPT ![w] = Idle]

\* The cursor is entered and never moved on.
EntersCursor(src, c) ==
  cursors' = IF c.moved THEN With(cursors, src, Lookup(cursors, src, 0)) ELSE cursors

\* A plan moves the cursor of its source when it had to choose by it.
MovesCursor(src, c) ==
  cursors' = IF c.moved THEN With(cursors, src, Lookup(cursors, src, 0) + 1) ELSE cursors

\* History of the weighted choices that are carried out.
Tells(src, S, c) ==
  LET now == [s \in S |-> WeightOf(src, s)]
      goes_on == /\ src \in DOMAIN turns /\ turns[src].among = now
                 /\ Len(turns[src].took) < Total(now)
  IN turns' = IF c.how # "weighted" THEN turns
              ELSE With(turns, src, [among |-> now,
                     took |-> IF goes_on THEN Append(turns[src].took, c.to) ELSE <<c.to>>])

\* The candidates the choice was made from, for the history.  On a router no
\* destination is noted and Unsatisfied leaves out nothing.
Candidates(p, src) ==
  IF p.ty # "discovery" /\ Exact(p, src) # {} THEN Unsatisfied(p, Exact(p, src))
  ELSE IF p.ty # "discovery" /\ Generic(p, src) # {} THEN Unsatisfied(p, Generic(p, src))
  ELSE IF kind = "relay" THEN RelayEligible(src, p.ty, LinkLocalOnly(p) /\ p.ty # "discovery")
  ELSE RouterEligible(src, p.ty, LinkLocalOnly(p) /\ p.ty # "discovery")

\* Router::tx: should_route_remote makes a plan of its own and drops it.
Submit(w, p) ==
  /\ kind = "router" /\ work[w].pc = "idle" /\ calls < MaxCalls
  /\ calls' = calls + 1
  /\ LET c == RouterPlan(p, Local)
     IN /\ MovesCursor(Local, c)
        /\ IF c.to = {} THEN Rest(w) ELSE Go(w, "asked", p, Local, <<>>, "broadcast")
  /\ UNCHANGED <<plumbing, stats, returns, acked, rxq, txq, came, turns>>

\* rx_*_queue_from_side and rx_*_queue_from_side_isr of a router, rx_*_from_side of a relay.
QueueRx(src, p, isr) ==
  /\ Admits(src) /\ calls < MaxCalls /\ Len(rxq) < MaxQueue
  /\ isr => kind = "router"
  /\ calls' = calls + 1
  /\ rxq' = Append(rxq, [src |-> src, p |-> p, isr |-> isr])
  /\ UNCHANGED <<plumbing, cursors, stats, returns, acked, txq, work, came, turns>>

\* rx_item and the relay's process_rx_queue_item: a side that is gone or closed is refused.
TakeRx(w) ==
  /\ work[w].pc = "idle" /\ rxq # <<>>
  /\ rxq' = Tail(rxq)
  /\ LET i == Head(rxq)
     IN IF Admits(i.src) THEN Go(w, "admitted", i.p, i.src, <<>>, "queue") ELSE Rest(w)
  /\ UNCHANGED <<plumbing, cursors, stats, returns, acked, txq, calls, came, turns>>

\* Router::rx_*_from_side outside a callback.
TakeNow(w, src, p) ==
  /\ kind = "router" /\ work[w].pc = "idle" /\ calls < MaxCalls /\ Admits(src)
  /\ calls' = calls + 1
  /\ Go(w, "admitted", p, src, <<>>, "relay")
  /\ UNCHANGED <<plumbing, cursors, stats, returns, acked, rxq, txq, came, turns>>

\* note_reliable_return_route; a relay also notes who acknowledged end to end.
Note(w) ==
  LET p == work[w].p
      src == work[w].src
  IN /\ work[w].pc = "admitted"
     /\ returns' = IF p.ty = "reliable" THEN With(returns, p.id, src) ELSE returns
     /\ acked' = IF kind = "relay" /\ p.ty = "ack" THEN acked \cup {<<p.id, p.source>>} ELSE acked
     /\ came' = IF p.ty = "reliable" THEN came \cup {<<p.id, src>>} ELSE came
     /\ work' = [work EXCEPT ![w].pc = "noted"]
     /\ UNCHANGED <<plumbing, cursors, stats, rxq, txq, calls, turns>>

\* Router::dispatch_rx_data up to should_route_remote.  An end-to-end
\* acknowledgement that arrives as bytes is not passed on.
Ask(w) ==
  LET p == work[w].p
      src == work[w].src
      c == RouterPlan(p, src)
  IN /\ kind = "router" /\ work[w].pc = "noted"
     /\ IF p.ty = "ack" /\ p.bytes
        THEN Rest(w) /\ UNCHANGED cursors
        ELSE /\ MovesCursor(src, c)
             /\ IF c.to = {} THEN Rest(w) ELSE work' = [work EXCEPT ![w].pc = "asked"]
     /\ UNCHANGED <<plumbing, stats, returns, acked, rxq, txq, calls, came, turns>>

\* The plan that is carried out: tx_item_impl, relay_send, enqueue_to_sides.
RouterPlans(w) ==
  LET p == work[w].p
      src == work[w].src
      c == RouterPlan(p, src)
  IN /\ kind = "router" /\ work[w].pc = "asked"
     /\ MovesCursor(src, c) /\ Tells(src, Candidates(p, src), c)
     /\ Go(w, "planned", p, src, Jobs(c.to), work[w].how)
     /\ UNCHANGED <<plumbing, stats, returns, acked, rxq, txq, calls, came>>

\* Relay::dispatch_relay_rx_item plans once.
RelayPlans(w) ==
  LET p == work[w].p
      src == work[w].src
      c == RelayPlan(p, src)
  IN /\ kind = "relay" /\ work[w].pc = "noted"
     /\ MovesCursor(src, c) /\ Tells(src, Candidates(p, src), c)
     /\ Go(w, "planned", p, src, Jobs(c.to), "queue")
     /\ UNCHANGED <<plumbing, stats, returns, acked, rxq, txq, calls, came>>

\* The state mutex is taken again and every planned side is pushed.
Enqueue(w) ==
  /\ work[w].pc = "planned" /\ work[w].how = "queue"
  /\ Len(txq) + Len(work[w].jobs) <= MaxQueue
  /\ txq' = txq \o [i \in DOMAIN work[w].jobs |->
                      [src |-> work[w].src, p |-> work[w].p, job |-> work[w].jobs[i]]]
  /\ Rest(w)
  /\ UNCHANGED <<plumbing, cursors, stats, returns, acked, rxq, calls, came, turns>>

\* One turn of process_tx_queue: the next item by priority, which is any here.
\* A relay looks the side up as it pops and loses an item whose side is gone.
Drain(w) ==
  \E i \in DOMAIN txq :
    /\ work[w].pc = "idle"
    /\ txq' = RemoveAt(txq, i)
    /\ IF kind = "relay" /\ ~Live(txq[i].job.dst) THEN Rest(w)
       ELSE Go(w, "planned", txq[i].p, txq[i].src, <<txq[i].job>>, "drain")
    /\ UNCHANGED <<plumbing, cursors, stats, returns, acked, rxq, calls, came, turns>>

\* A ToSide item is checked against the routes as they are now; the sides of a
\* broadcast are not.
Check(w) ==
  LET j == Head(work[w].jobs)
  IN /\ work[w].pc = "planned" /\ work[w].how # "queue" /\ work[w].jobs # <<>>
     /\ IF work[w].how = "broadcast" \/ Allowed(work[w].src, work[w].p.ty, j.dst)
        THEN work' = [work EXCEPT ![w].pc = "checked"]
        ELSE work' = [work EXCEPT ![w].jobs = Tail(@)]
     /\ UNCHANGED <<plumbing, cursors, stats, returns, acked, rxq, txq, calls, came, turns>>

Finish(w) ==
  /\ work[w].pc = "planned" /\ work[w].how # "queue" /\ work[w].jobs = <<>>
  /\ Rest(w)
  /\ UNCHANGED <<plumbing, cursors, stats, returns, acked, rxq, txq, calls, came, turns>>

\* The re-entry gate: one transmit callback at a time.  Workers that are not
\* modelled may hold it too, so CallBusy is always possible.
Busy == \E v \in Workers : work[v].pc = "calling"

\* send_reliable_to_side looks the side up again: an error ends the whole call.
\* A relay holds the callback it found when it popped the item.
Call(w) ==
  LET j == Head(work[w].jobs)
  IN /\ work[w].pc = "checked" /\ ~Busy
     /\ IF kind = "router" /\ ~Live(j.dst) THEN Rest(w)
        ELSE work' = [work EXCEPT ![w].pc = "calling",
                                  ![w].side = IF kind = "relay" THEN j.named ELSE sides[j.dst].name]
     /\ UNCHANGED <<plumbing, cursors, stats, returns, acked, rxq, txq, calls, came, turns>>

\* "side tx busy": a router puts this side and the rest of a broadcast on the
\* queue.  A relay puts the item back, but process_all_queues loses it.
CallBusy(w) ==
  LET jobs == IF work[w].how = "broadcast" THEN work[w].jobs ELSE <<Head(work[w].jobs)>>
      items == [i \in DOMAIN jobs |-> [src |-> work[w].src, p |-> work[w].p, job |-> jobs[i]]]
  IN /\ work[w].pc = "checked" /\ Len(txq) + Len(jobs) <= MaxQueue
     /\ \/ txq' = txq \o items
        \/ kind = "relay" /\ txq' = txq
     /\ IF work[w].how = "relay" /\ kind = "router"
        THEN work' = [work EXCEPT ![w].jobs = Tail(@), ![w].pc = "planned"]
        ELSE Rest(w)
     /\ UNCHANGED <<plumbing, cursors, stats, returns, acked, rxq, calls, came, turns>>

\* AdaptiveRouteStats::observe
Observed(old, sample) ==
  IF old = 0 THEN sample
  ELSE IF sample >= old THEN (3 * old + 5 * sample) \div 8
  ELSE (7 * old + sample) \div 8

\* The callback returns.  A success is measured; a failure ends the call.
Return(w, sample) ==
  LET s == Head(work[w].jobs).dst
  IN /\ work[w].pc = "calling"
     /\ \/ /\ stats' = With(stats, s, Observed(Lookup(stats, s, 0), sample))
           /\ work' = [work EXCEPT ![w].jobs = Tail(@), ![w].pc = "planned", ![w].side = 0]
        \/ /\ Rest(w)
           /\ UNCHANGED stats
     /\ UNCHANGED <<plumbing, cursors, returns, acked, rxq, txq, calls, came, turns>>

-----------------------------------------------------------------------------
(* The application changes sides and routes.  Each call ends by making the *)
(* next announcement due at once, which is the cadence of Discovery.tla.   *)

traffic == <<kind, returns, acked, rxq, txq, work, came>>

Change == calls < MaxCalls /\ calls' = calls + 1

\* Both ends of a configured route must be registered.
Registered(src, dst) == Live(dst) /\ (src # Local => Live(src))

\* A cursor that is removed restarts the turns of its source.
ResetCursor(src) == cursors' = Without(cursors, {src}) /\ turns' = Without(turns, {src})

NewSide(o) == Side(Len(sides) + 1, o)

\* The slot of a removed side is used again.
AddSideReusing(o) ==
  LET gone == {s \in DOMAIN sides : ~sides[s].live}
  IN /\ Change /\ Len(sides) < MaxSides
     /\ sides' = IF gone = {} THEN Append(sides, NewSide(o))
                 ELSE [sides EXCEPT ![CHOOSE s \in gone : TRUE] = [NewSide(o) EXCEPT !.name = @ + 1]]
     /\ UNCHANGED <<traffic, policy, cursors, stats, reach, turns>>

\* add_side_serialized_with_options, add_side_packet_with_options
AddSide(o) ==
  /\ Change /\ Len(sides) < MaxSides
  /\ sides' = Append(sides, NewSide(o))
  /\ UNCHANGED <<traffic, policy, cursors, stats, reach, turns>>

\* Every table forgets the side.
Forgets(s) ==
  LET mentions(f) == {k \in DOMAIN f : k[1] = s \/ k[Len(k)] = s}
  IN /\ overrides' = Without(overrides, mentions(overrides))
     /\ typed' = Without(typed, mentions(typed))
     /\ weights' = Without(weights, mentions(weights))
     /\ prios' = Without(prios, mentions(prios))
     /\ modes' = Without(modes, {s})
     /\ ResetCursor(s)
     /\ stats' = Without(stats, {s})
     /\ returns' = Without(returns, {k \in DOMAIN returns : returns[k] = s})
     /\ reach' = Without(reach, {s})

\* Router::remove_side.  The ISR queue has a lock of its own: when it is taken the
\* call fails, the items of the side that wait there stay, and all else is done.
RemoveSide(s) ==
  /\ kind = "router" /\ Live(s) /\ Change
  /\ sides' = [sides EXCEPT ![s].live = FALSE]
  /\ Forgets(s)
  /\ txq' = Retained(txq, {i \in DOMAIN txq : txq[i].job.dst # s})
  /\ \E isr_busy \in BOOLEAN :
       rxq' = Retained(rxq, {i \in DOMAIN rxq : rxq[i].src # s \/ (rxq[i].isr /\ isr_busy)})
  /\ UNCHANGED <<kind, acked, work, came>>

RelayRemoveSide(s) ==
  /\ kind = "relay" /\ Live(s) /\ Change
  /\ sides' = [sides EXCEPT ![s].live = FALSE]
  /\ Forgets(s)
  /\ txq' = Retained(txq, {i \in DOMAIN txq : txq[i].job.dst # s /\ txq[i].src # s})
  /\ rxq' = Retained(rxq, {i \in DOMAIN rxq : rxq[i].src # s})
  /\ UNCHANGED <<kind, acked, work, came>>

SetIngress(s, on) ==
  /\ Live(s) /\ Change
  /\ sides' = [sides EXCEPT ![s].ingress = on]
  /\ UNCHANGED <<traffic, policy, cursors, stats, reach, turns>>

\* Closing a side drops what is queued for it.
SetEgress(s, on) ==
  /\ Live(s) /\ Change
  /\ sides' = [sides EXCEPT ![s].egress = on]
  /\ txq' = IF on THEN txq ELSE Retained(txq, {i \in DOMAIN txq : txq[i].job.dst # s})
  /\ UNCHANGED <<kind, returns, acked, rxq, work, came, policy, cursors, stats, reach, turns>>

\* Fanout, the default, is stored as no mode at all.
SetSourceRouteMode(src, mode) ==
  /\ (src # Local => Live(src)) /\ Change
  /\ modes' = IF mode = "fanout" THEN Without(modes, {src}) ELSE With(modes, src, mode)
  /\ ResetCursor(src)
  /\ UNCHANGED <<traffic, sides, overrides, typed, weights, prios, stats, reach>>

SetRouteWeight(src, dst, n) ==
  /\ Registered(src, dst) /\ Change
  /\ weights' = With(weights, <<src, dst>>, n)
  /\ ResetCursor(src)
  /\ UNCHANGED <<traffic, sides, overrides, typed, prios, modes, stats, reach>>

ClearRouteWeight(src, dst) ==
  /\ Registered(src, dst) /\ Change
  /\ weights' = Without(weights, {<<src, dst>>})
  /\ ResetCursor(src)
  /\ UNCHANGED <<traffic, sides, overrides, typed, prios, modes, stats, reach>>

SetRoutePriority(src, dst, n) ==
  /\ Registered(src, dst) /\ Change
  /\ prios' = With(prios, <<src, dst>>, n)
  /\ UNCHANGED <<traffic, sides, overrides, typed, weights, modes, cursors, stats, reach, turns>>

ClearRoutePriority(src, dst) ==
  /\ Registered(src, dst) /\ Change
  /\ prios' = Without(prios, {<<src, dst>>})
  /\ UNCHANGED <<traffic, sides, overrides, typed, weights, modes, cursors, stats, reach, turns>>

SetRoute(src, dst, on) ==
  /\ Registered(src, dst) /\ Change
  /\ overrides' = With(overrides, <<src, dst>>, on)
  /\ UNCHANGED <<traffic, sides, typed, weights, prios, modes, cursors, stats, reach, turns>>

ClearRoute(src, dst) ==
  /\ Registered(src, dst) /\ Change
  /\ overrides' = Without(overrides, {<<src, dst>>})
  /\ UNCHANGED <<traffic, sides, typed, weights, prios, modes, cursors, stats, reach, turns>>

SetTypedRoute(src, ty, dst, on) ==
  /\ Registered(src, dst) /\ Change
  /\ typed' = With(typed, <<src, ty, dst>>, on)
  /\ UNCHANGED <<traffic, sides, overrides, weights, prios, modes, cursors, stats, reach, turns>>

ClearTypedRoute(src, ty, dst) ==
  /\ Registered(src, dst) /\ Change
  /\ typed' = Without(typed, {<<src, ty, dst>>})
  /\ UNCHANGED <<traffic, sides, overrides, weights, prios, modes, cursors, stats, reach, turns>>

\* The relay's copies of these calls.
RelayAddSide(o)                  == kind = "relay" /\ AddSide(o)
RelaySetIngress(s, on)           == kind = "relay" /\ SetIngress(s, on)
RelaySetEgress(s, on)            == kind = "relay" /\ SetEgress(s, on)
RelaySetSourceRouteMode(src, m)  == kind = "relay" /\ SetSourceRouteMode(src, m)
RelaySetRouteWeight(src, dst, n) == kind = "relay" /\ SetRouteWeight(src, dst, n)
RelayClearRouteWeight(src, dst)  == kind = "relay" /\ ClearRouteWeight(src, dst)
RelaySetRoutePriority(src, dst, n) == kind = "relay" /\ SetRoutePriority(src, dst, n)
RelayClearRoutePriority(src, dst)  == kind = "relay" /\ ClearRoutePriority(src, dst)
RelaySetRoute(src, dst, on)      == kind = "relay" /\ SetRoute(src, dst, on)
RelayClearRoute(src, dst)        == kind = "relay" /\ ClearRoute(src, dst)
RelaySetTypedRoute(src, ty, dst, on)  == kind = "relay" /\ SetTypedRoute(src, ty, dst, on)
RelayClearTypedRoute(src, ty, dst)    == kind = "relay" /\ ClearTypedRoute(src, ty, dst)

-----------------------------------------------------------------------------
(* Discovery, as far as the planner sees it.  A receiving thread that lost *)
(* a race with remove_side may still store what it learned of that side.   *)

Learn(s, k) ==
  /\ s \in DOMAIN sides /\ s \notin DOMAIN reach /\ Change
  /\ reach' = With(reach, s, k)
  /\ UNCHANGED <<traffic, sides, policy, cursors, stats, turns>>

Expire(s) ==
  /\ s \in DOMAIN reach /\ reach[s].fresh
  /\ reach' = [reach EXCEPT ![s].fresh = FALSE]
  /\ UNCHANGED <<traffic, sides, policy, cursors, stats, turns, calls>>

-----------------------------------------------------------------------------
RouterChanges ==
  \/ \E o \in SideOpts : AddSide(o)
  \/ \E s \in SideIds : RemoveSide(s)
  \/ \E s \in SideIds, on \in BOOLEAN : SetIngress(s, on) \/ SetEgress(s, on)
  \/ \E src \in {r[1] : r \in Pairs}, m \in {"fanout", "weighted", "failover"} : SetSourceRouteMode(src, m)
  \/ \E r \in Pairs : LET src == r[1] dst == r[2] IN
       \/ ClearRouteWeight(src, dst) \/ ClearRoutePriority(src, dst) \/ ClearRoute(src, dst)
       \/ \E n \in Weights : SetRouteWeight(src, dst, n) \/ SetRoutePriority(src, dst, n)
       \/ \E on \in BOOLEAN : SetRoute(src, dst, on)
       \/ \E ty \in Types : \/ ClearTypedRoute(src, ty, dst)
                            \/ \E on \in BOOLEAN : SetTypedRoute(src, ty, dst, on)

RelayChanges ==
  \/ \E o \in SideOpts : RelayAddSide(o)
  \/ \E s \in SideIds : RelayRemoveSide(s)
  \/ \E s \in SideIds, on \in BOOLEAN : RelaySetIngress(s, on) \/ RelaySetEgress(s, on)
  \/ \E src \in {r[1] : r \in Pairs}, m \in {"fanout", "weighted", "failover"} : RelaySetSourceRouteMode(src, m)
  \/ \E r \in Pairs : LET src == r[1] dst == r[2] IN
       \/ RelayClearRouteWeight(src, dst) \/ RelayClearRoutePriority(src, dst)
       \/ RelayClearRoute(src, dst)
       \/ \E n \in Weights : RelaySetRouteWeight(src, dst, n) \/ RelaySetRoutePriority(src, dst, n)
       \/ \E on \in BOOLEAN : RelaySetRoute(src, dst, on)
       \/ \E ty \in Types : \/ RelayClearTypedRoute(src, ty, dst)
                            \/ \E on \in BOOLEAN : RelaySetTypedRoute(src, ty, dst, on)

Traffic ==
  \/ \E a \in Arrivals, isr \in BOOLEAN : QueueRx(a[1], a[2], isr)
  \/ \E w \in Workers :
       \/ (\E p \in Own : Submit(w, p)) \/ (\E a \in Arrivals : TakeNow(w, a[1], a[2]))
       \/ TakeRx(w) \/ Note(w) \/ Ask(w) \/ RouterPlans(w) \/ RelayPlans(w)
       \/ Enqueue(w) \/ Drain(w) \/ Check(w) \/ Finish(w) \/ Call(w) \/ CallBusy(w)
       \/ \E n \in Samples : Return(w, n)

Next ==
  \/ kind = "router" /\ RouterChanges
  \/ RelayChanges
  \/ \E s \in SideIds : Expire(s) \/ \E k \in Knowledge : Learn(s, k)
  \/ Traffic

Spec == Init /\ [][Next]_vars

-----------------------------------------------------------------------------
(* Properties.                                                             *)

\* A packet planned or queued for a side is never handed to another one, however
\* sides are removed and added between the plan, the queue and the callback.
\* remove_side: "Removed side IDs are tombstoned rather than renumbered so cached
\* IDs for the remaining sides stay valid."
SentToIntended ==
  \A w \in Workers : work[w].pc = "calling" => work[w].side = Head(work[w].jobs).named

\* Whatever was configured, learned, removed or has expired, a packet for an
\* endpoint elsewhere has somewhere to go as long as some side may carry it: plans
\* fall back to forwarding.  Only weights that are all zero stop it, or a relay
\* that has seen every destination acknowledge the packet.
PlanOf(p, src) == IF kind = "relay" THEN RelayPlan(p, src) ELSE RouterPlan(p, src)

FallsBack ==
  \A p \in {q \in Packets : q.ty \in {"plain", "reliable"}},
     src \in {Local} \cup {s \in SideIds : Live(s)} :
    LET open == {s \in DOMAIN sides : Allowed(src, p.ty, s)}
    IN ( /\ HasNonlocal(p) /\ open # {}
         /\ src \in DOMAIN modes /\ modes[src] = "weighted" => \A s \in open : WeightOf(src, s) > 0
         /\ ~\E a \in acked : a[1] = p.id ) => PlanOf(p, src).to # {}

\* An end-to-end acknowledgement leaves only by a side its packet was received from,
\* although routes change and sides go between the packet and its acknowledgement.
AcksRetrace ==
  \A w \in Workers : work[w].pc = "calling" /\ work[w].p.ty = "ack" =>
    <<work[w].p.id, Head(work[w].jobs).dst>> \in came

\* In every round of as many packets as the weights add up to, each side of a
\* weighted source is taken as often as its weight.
RoundsFair ==
  \A src \in DOMAIN turns :
    LET t == turns[src]
    IN Len(t.took) = Total(t.among) =>
         \A s \in DOMAIN t.among : Cardinality({i \in DOMAIN t.took : t.took[i] = {s}}) = t.among[s]

\* A relay shares the packets of a weighted source as configured.
WeightedShare == kind = "relay" => RoundsFair
====
