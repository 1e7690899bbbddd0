------------------------------ MODULE EndToEnd ------------------------------
(***************************************************************************)
(* End-to-end reliability: the source router keeps a reliable packet until *)
(* every holder it has discovered has answered, across the relay or router *)
(* between them (the end_to_end methods of src/src/router.rs and           *)
(* src/src/relay.rs).                                                      *)
(*                                                                         *)
(* The source reaches the holders over one side each ("direct") or through *)
(* a hub, which has a side toward the source and one toward each holder.   *)
(* All links carry serialized frames of an unordered reliable type; a link *)
(* with the transmit queue before it is a bag of messages that may be lost *)
(* or repeated, which is what the hop layer (ReliableLink) leaves over.    *)
(* Each method holds the state mutex while it reads and writes, and one    *)
(* thread runs each node, so a handler is one step.                        *)
(***************************************************************************)
EXTENDS Integers, Sequences, FiniteSets, SequencesExt

CONSTANTS
  Packets,    \* packets the source originates, all for one endpoint
  Holders,    \* routers with a handler for it, numbers: the order of the sides
  Handlers,   \* local handlers each holder has registered for it
  Setups,     \* the networks considered, see SetupAssumption
  None,       \* absence of a value
  MaxTracked, \* RELIABLE_MAX_END_TO_END_PENDING
  MaxCache,   \* RELIABLE_MAX_END_TO_END_ACK_CACHE
  MaxRoutes,  \* RELIABLE_MAX_RETURN_ROUTES
  MaxRetries  \* RELIABLE_MAX_RETRIES

Source == 0
Hub    == -1
Hops   == {"source", "to_source", "to_holder", "holder"}

ASSUME SetupAssumption ==
  /\ Holders \subseteq Nat \ {0} /\ IsFiniteSet(Holders)
  /\ \A s \in Setups :
       /\ s.hub \in {"direct", "relay", "router"}
       /\ s.known \subseteq Holders      \* holders the discovery tables start with
       /\ s.shared \subseteq Hops        \* sides with more than one fresh announcer
       /\ s.needsBytes \subseteq Holders \* holders with serialized handlers only
       /\ s.packets \subseteq Packets    \* packets the application submits
       /\ s.faults \in Nat              \* bound: losses, repetitions, failing callbacks,
                                        \* evictions and changes of topology
ASSUME LimitAssumption ==
  /\ MaxTracked \in Nat \ {0} /\ MaxCache \in Nat \ {0} /\ MaxRoutes \in Nat \ {0}
  /\ MaxRetries \in Nat

\* EndToEndReliableSent
Entry == [pending : SUBSET Holders, tracked : BOOLEAN, retries : Nat, queued : BOOLEAN]

ASSUME NoneAssumption == None \notin Entry

VARIABLES
  setup,    \* the network, chosen once
  net,      \* messages on their way
  events,   \* faults and changes of topology so far
  \* ---- source ----
  known,    \* known[Source], known[Hub]: holders with a fresh topology board
  sent,     \* end_to_end_reliable_tx: packet -> EndToEndReliableSent or None
  order,    \* end_to_end_reliable_tx_order
  replays,  \* packets with an EndToEndReplay in the transmit queue
  sends,    \* hop sequence numbers taken so far
  \* ---- hub ----
  seen,     \* recent_rx of the hub
  back,     \* reliable_return_route_order of the hub: packets with a return route
  acked,    \* end_to_end_acked_destinations: packet -> holders
  cache,    \* end_to_end_acked_destination_order
  \* ---- holders ----
  recent,   \* recent_rx of the holders: pairs of holder and packet
  \* ---- history, read by properties only ----
  wanted,   \* holders a packet was registered for
  lapsed,   \* pairs <<p, d>>: d was taken off because discovery lost it
  withheld, \* pairs <<p, d>>: the relay forwarded p and left d out
  evicted,  \* packets whose queued replay was lost
  outcome,  \* how a packet's entry ended, and whom it was waiting for
  reached,  \* pairs <<d, p>>: d has given p to its handlers
  took,     \* triples <<d, p, h>>: handler h of d has accepted p
  failed,   \* pairs <<d, p>>: a handler of d has refused p
  twice     \* pairs <<d, p>>: a handler of d has accepted p more than once

sourceVars  == <<known, sent, order, replays, sends>>
hubVars     == <<seen, back, acked, cache>>
historyVars == <<wanted, lapsed, withheld, evicted, outcome>>
holderVars  == <<recent, reached, took, failed, twice>>
vars == <<setup, net, events, sourceVars, hubVars, holderVars, historyVars>>

Live == [how |-> "none", left |-> {}]

Init ==
  /\ setup \in Setups
  /\ net = {} /\ events = 0
  /\ known = [n \in {Source, Hub} |-> setup.known]
  /\ sent = [p \in Packets |-> None] /\ order = <<>> /\ replays = {} /\ sends = 0
  /\ seen = {} /\ back = <<>> /\ acked = [p \in Packets |-> {}] /\ cache = <<>>
  /\ recent = {} /\ reached = {} /\ took = {} /\ failed = {} /\ twice = {}
  /\ wanted = [p \in Packets |-> {}] /\ lapsed = {} /\ withheld = {} /\ evicted = {}
  /\ outcome = [p \in Packets |-> Live]

-----------------------------------------------------------------------------
(* Messages and sides.                                                     *)

Data(to, p, seq) == [kind |-> "data", to |-> to, p |-> p, seq |-> seq, from |-> 0]
Ack(to, p, d)    == [kind |-> "ack", to |-> to, p |-> p, seq |-> 0, from |-> d]

Direct   == setup.hub = "direct"
Shared(hop) == hop \in setup.shared

\* The sides a packet for these holders leaves by, in the order they are served.
SidesOf(ds) == IF Direct THEN SetToSortSeq(ds, <) ELSE IF ds = {} THEN <<>> ELSE <<Hub>>

\* remote_side_plan of the source: the holders it knows, everyone if it knows none.
Plan(k) == IF k = {} THEN Holders ELSE k

Spend == events < setup.faults /\ events' = events + 1

\* The message is consumed; the network may have repeated it.
Consume(m, out) ==
  \/ net' = (net \ {m}) \cup out /\ UNCHANGED events
  \/ net' = net \cup out /\ Spend

\* The tables with a bounded order list: p becomes the youngest of the entries
\* in the table, and the oldest make room for it.
Remember(q, table, p, cap) ==
  LET rest == SelectSeq(q, LAMBDA x : x \in table /\ x # p)
      over == IF Len(rest) < cap THEN 0 ELSE Len(rest) + 1 - cap
  IN [gone |-> {x \in table : \E i \in 1..over : rest[i] = x},
      order |-> Append(SubSeq(rest, over + 1, Len(rest)), p)]

-----------------------------------------------------------------------------
(* The source: registration, replays, timeouts and acknowledgements.       *)

\* expected_end_to_end_destinations_locked
Expected(k) == k

NewEntry(ds) == [pending |-> ds, tracked |-> ds # {}, retries |-> 0, queued |-> FALSE]

\* remember_end_to_end_reliable_tx_locked
RememberTx(p) == Remember(order, {q \in Packets : sent[q] # None}, p, MaxTracked)

Ends(ps, how) ==
  [p \in Packets |->
     IF p \notin ps THEN outcome[p]
     ELSE [how |-> how, left |-> IF how \in {"acked", "lapsed"} THEN {} ELSE sent[p].pending]]

\* register_end_to_end_reliable_tx
Register(p) ==
  LET ds == Expected(known[Source])
      gone == RememberTx(p).gone
  IN /\ sent' = [q \in Packets |-> IF q = p THEN NewEntry(ds)
                                   ELSE IF q \in gone THEN None ELSE sent[q]]
     /\ order' = RememberTx(p).order
     /\ wanted' = [wanted EXCEPT ![p] = ds]
     /\ outcome' = Ends(gone, "displaced")

\* send_reliable_to_side for each side in turn: a sequence number is taken
\* unless the side is shared, and a failing callback ends the loop.
Transmit(p, sides) ==
  LET seq == IF Shared("source") THEN 0 ELSE sends + 1
      upto(n) == {Data(sides[i], p, seq) : i \in 1..n}
  IN /\ sends' = IF Shared("source") \/ Len(sides) = 0 THEN sends ELSE sends + 1
     /\ \/ net' = net \cup upto(Len(sides)) /\ UNCHANGED events
        \/ \E n \in 0..Len(sides) - 1 : net' = net \cup upto(n) /\ Spend

\* Router::tx, the Broadcast arm of tx_item_impl: the packet is registered and
\* then sent; an error of the callback leaves it registered.
Submit(p) ==
  /\ p \in setup.packets /\ sent[p] = None /\ outcome[p] = Live
  /\ Register(p)
  /\ Transmit(p, SidesOf(Plan(known[Source])))
  /\ UNCHANGED <<setup, known, replays, hubVars, holderVars, lapsed, withheld, evicted>>

\* Every entry waits only for holders that are still known.
Narrowed(k) ==
  [p \in Packets |-> IF sent[p] = None \/ ~sent[p].tracked THEN sent[p]
                     ELSE [sent[p] EXCEPT !.pending = @ \cap Expected(k)]]

\* reconcile_end_to_end_reliable_destinations_locked
Satisfied(k) ==
  {p \in Packets : sent[p] # None /\ sent[p].tracked /\ Narrowed(k)[p].pending = {}}

Lapses(k) ==
  UNION {{p} \X (sent[p].pending \ Expected(k)) : p \in {q \in Packets : sent[q] # None}}

Reconcile(k) ==
  /\ sent' = [p \in Packets |-> IF p \in Satisfied(k) THEN None ELSE Narrowed(k)[p]]
  /\ lapsed' = lapsed \cup Lapses(k)
  /\ outcome' = Ends(Satisfied(k), "lapsed")

\* Discovery at the source gains or loses holders.  learn_discovery_packet,
\* poll_discovery and announce_discovery reconcile the entries; export_topology
\* prunes the routes and does not.
Topology(k) ==
  /\ k # known[Source] /\ Spend
  /\ known' = [known EXCEPT ![Source] = k]
  /\ \/ Reconcile(k)
     \/ k \subseteq known[Source] /\ UNCHANGED <<sent, lapsed, outcome>>
  /\ UNCHANGED <<setup, net, order, replays, sends, hubVars, holderVars, wanted, withheld, evicted>>

\* RELIABLE_RETRANSMIT_MS is longer than a round trip: an entry is due only
\* when nothing of its packet is on its way.
Due(p) == sent[p] # None /\ ~sent[p].queued /\ ~\E m \in net : m.p = p

Exhausted(p) == sent[p].retries >= MaxRetries

Retried(e) == [[e EXCEPT !.retries = @ + 1] EXCEPT !.queued = TRUE]

\* process_end_to_end_reliable_timeouts: the entries are reconciled, then those
\* that are due, any number of them, are repeated or given up.
Timeouts ==
  \E due \in SUBSET {p \in Packets \ Satisfied(known[Source]) : Due(p)} :
    LET over == {p \in due : Exhausted(p)}
        k == known[Source]
    IN /\ due # {} \/ Satisfied(k) # {}
       /\ sent' = [p \in Packets |->
                    IF p \in over \cup Satisfied(k) THEN None
                    ELSE IF p \in due THEN Retried(Narrowed(k)[p])
                    ELSE Narrowed(k)[p]]
       /\ replays' = replays \cup (due \ over)
       /\ lapsed' = lapsed \cup Lapses(k)
       /\ outcome' = [p \in Packets |-> IF p \in over THEN Ends(over, "gave up")[p]
                                        ELSE Ends(Satisfied(k), "lapsed")[p]]
       /\ UNCHANGED <<setup, net, events, known, order, sends, hubVars, holderVars, wanted, withheld, evicted>>

\* The queued replay is lost: make_shared_queue_room evicts it or the
\* application calls clear_tx_queue.
EvictReplay(p) ==
  /\ p \in replays /\ Spend
  /\ replays' = replays \ {p}
  /\ evicted' = evicted \cup {p}
  /\ UNCHANGED <<setup, net, known, sent, order, sends, hubVars, holderVars, wanted,
                 lapsed, withheld, outcome>>

\* end_to_end_retransmit_sides, and the plan when the holders are not tracked.
ReplaySides(p) == SidesOf(IF sent[p].pending = {} THEN Plan(known[Source]) ELSE sent[p].pending)

\* The replay leaves `queued' as it was.
RequeuedEntry(p) == sent[p]

ReplayedEntry(p) == [sent[p] EXCEPT !.queued = FALSE]

\* The EndToEndReplay arm of tx_item_impl.
Replay(p) ==
  /\ p \in replays
  /\ replays' = replays \ {p}
  /\ IF sent[p] = None THEN UNCHANGED <<sent, net, events, sends, outcome>>
     ELSE IF sent[p].tracked /\ sent[p].pending = {}
       THEN /\ sent' = [sent EXCEPT ![p] = None]
            /\ outcome' = Ends({p}, "lapsed")
            /\ UNCHANGED <<net, events, sends>>
       ELSE /\ sent' = [sent EXCEPT ![p] = ReplayedEntry(p)]
            /\ Transmit(p, ReplaySides(p))
            /\ UNCHANGED outcome
  /\ UNCHANGED <<setup, known, order, hubVars, holderVars, wanted, lapsed, withheld, evicted>>

\* One acknowledgement stands for all holders.
AnyAckCompletes(p, d) == [sent[p] EXCEPT !.pending = {}]

\* handle_internal_reliable_packet: what is left of the entry after d's answer.
AfterAck(p, d) == [sent[p] EXCEPT !.pending = @ \ {d}]

SourceAck(m) ==
  /\ m \in net /\ m.kind = "ack" /\ m.to = Source
  /\ net' = net \ {m}
  /\ LET rest == IF sent[m.p] = None THEN None ELSE AfterAck(m.p, m.from)
     IN IF rest = None THEN UNCHANGED <<sent, outcome>>
        ELSE IF rest.pending = {}
          THEN sent' = [sent EXCEPT ![m.p] = None] /\ outcome' = Ends({m.p}, "acked")
          ELSE sent' = [sent EXCEPT ![m.p] = rest] /\ UNCHANGED outcome
  /\ UNCHANGED <<setup, events, known, order, replays, sends, hubVars, holderVars, wanted, lapsed, withheld, evicted>>

-----------------------------------------------------------------------------
(* The hub.                                                                *)

\* What recent_rx remembers of a frame: a relay adds the hop sequence number to
\* the packet id, a router does not.
RelayKeyPlain(m) == <<m.p, 0>>

RelayKey(m)  == <<m.p, m.seq>>
RouterKey(m) == <<m.p, 0>>

\* filter_end_to_end_satisfied_sides_locked, where a side leads to one holder.
Unacked(p, ds) == {d \in ds : d \notin acked[p]}

\* remote_side_plan of the relay and of the router for a packet from the source.
RelayPlan(p) == IF known[Hub] = {} THEN Holders ELSE Unacked(p, known[Hub])
RouterPlan(p) == Plan(known[Hub])

Copies(p, ds) == {Data(d, p, 0) : d \in ds}

\* note_reliable_return_route
NoteReturn(p) == back' = Remember(back, ToSet(back), p, MaxRoutes).order

\* should_forward_duplicate_reliable_item
ForwardsDuplicate(p) == RelayPlan(p) # {} /\ Shared("to_holder")

\* process_rx_queue_item of a relay for a frame from the source.
RelayData(m) ==
  /\ setup.hub = "relay" /\ m \in net /\ m.kind = "data" /\ m.to = Hub
  /\ NoteReturn(m.p)
  /\ seen' = seen \cup {RelayKey(m)}
  /\ Consume(m, IF RelayKey(m) \notin seen \/ ForwardsDuplicate(m.p)
                THEN Copies(m.p, RelayPlan(m.p)) ELSE {})
  /\ withheld' = withheld \cup ({m.p} \X (Holders \ RelayPlan(m.p)))
  /\ UNCHANGED <<setup, sourceVars, acked, cache, holderVars, wanted, lapsed, evicted, outcome>>

\* rx_item of a router that forwards: a duplicate goes no further, and this
\* router has no handler that would make it answer.
RouterData(m) ==
  /\ setup.hub = "router" /\ m \in net /\ m.kind = "data" /\ m.to = Hub
  /\ NoteReturn(m.p)
  /\ seen' = seen \cup {RouterKey(m)}
  /\ Consume(m, IF RouterKey(m) \notin seen THEN Copies(m.p, RouterPlan(m.p)) ELSE {})
  /\ UNCHANGED <<setup, sourceVars, acked, cache, holderVars, historyVars>>

\* The relay takes the packet itself for confirmed.
NoteAckedAll(p, d) == Holders

\* note_end_to_end_acked_destination_locked: the holders noted for p.
NoteAcked(p, d) ==
  IF Cardinality(acked[p]) < MaxTracked THEN acked[p] \cup {d} ELSE acked[p]

\* remote_side_plan for an acknowledgement, and adjust_reliable_for_side, which
\* drops it on a side that is not hop-reliable.
Returned(p, d) == IF p \in ToSet(back) /\ ~Shared("to_source") THEN {Ack(Source, p, d)} ELSE {}

\* dispatch_relay_rx_item: the holder is noted and the answer goes back.
RelayAck(m) ==
  /\ setup.hub = "relay" /\ m \in net /\ m.kind = "ack" /\ m.to = Hub
  /\ LET r == Remember(cache, {p \in Packets : acked[p] # {}}, m.p, MaxCache)
     IN /\ cache' = r.order
        /\ acked' = [p \in Packets |-> IF p = m.p THEN NoteAcked(p, m.from)
                                       ELSE IF p \in r.gone THEN {} ELSE acked[p]]
  /\ net' = (net \ {m}) \cup Returned(m.p, m.from)
  /\ UNCHANGED <<setup, events, sourceVars, seen, back, holderVars, historyVars>>

\* dispatch_rx_data of a router: a serialized acknowledgement that is not for an
\* entry of its own is not passed on.
RouterAck(m) ==
  /\ setup.hub = "router" /\ m \in net /\ m.kind = "ack" /\ m.to = Hub
  /\ net' = net \ {m}
  /\ UNCHANGED <<setup, events, sourceVars, hubVars, holderVars, historyVars>>

\* Discovery at the hub changes; a relay forgets the answers of holders that
\* are gone (reconcile_end_to_end_acked_destinations_locked).
HubTopology(k) ==
  /\ ~Direct /\ k # known[Hub] /\ Spend
  /\ known' = [known EXCEPT ![Hub] = k]
  /\ acked' = IF setup.hub = "relay" THEN [p \in Packets |-> acked[p] \cap k] ELSE acked
  /\ UNCHANGED <<setup, net, sent, order, replays, sends, seen, back, cache, holderVars, historyVars>>

-----------------------------------------------------------------------------
(* The holders.                                                            *)

\* queue_end_to_end_reliable_ack, and the send of the queued acknowledgement.
Answer(p, d) ==
  IF Shared("holder") THEN {} ELSE {Ack(IF Direct THEN Source ELSE Hub, p, d)}

\* is_duplicate_pkt
Repeated(p, d) == <<d, p>> \in recent

\* No id stays in the duplicate filter.
ForgetsHandled(d, p, good) == recent \ {<<d, p>>}

\* with_retries: the id is taken out again when a handler fails.
AfterHandlers(d, p, good) ==
  IF good = Handlers THEN recent \cup {<<d, p>>} ELSE recent \ {<<d, p>>}

\* rx_item, dispatch_rx_data: a duplicate is answered again, a new packet goes
\* to every handler and is answered whatever they return, unless all of them
\* take bytes and the packet was never decoded.
HolderData(m) ==
  /\ m \in net /\ m.kind = "data" /\ m.to \in Holders
  /\ LET d == m.to
         p == m.p
     IN IF Repeated(p, d)
          THEN Consume(m, Answer(p, d)) /\ UNCHANGED holderVars
          ELSE \E good \in SUBSET Handlers :
                 /\ reached' = reached \cup {<<d, p>>}
                 /\ recent' = AfterHandlers(d, p, good)
                 /\ took' = took \cup {<<d, p, h>> : h \in good}
                 /\ twice' = IF \E h \in good : <<d, p, h>> \in took
                             THEN twice \cup {<<d, p>>} ELSE twice
                 /\ failed' = IF good = Handlers THEN failed ELSE failed \cup {<<d, p>>}
                 /\ LET out == IF d \in setup.needsBytes THEN {} ELSE Answer(p, d)
                    IN IF good = Handlers THEN Consume(m, out)
                       ELSE net' = (net \ {m}) \cup out /\ Spend
  /\ UNCHANGED <<setup, sourceVars, hubVars, historyVars>>

Lose(m) ==
  /\ m \in net /\ Spend
  /\ net' = net \ {m}
  /\ UNCHANGED <<setup, sourceVars, hubVars, holderVars, historyVars>>

-----------------------------------------------------------------------------

\* What the loops of the applications take and finish.
Progress ==
  \/ Timeouts
  \/ \E p \in Packets : Replay(p)
  \/ \E m \in net : \/ SourceAck(m) \/ RelayData(m) \/ RouterData(m)
                    \/ RelayAck(m) \/ RouterAck(m) \/ HolderData(m)

Next ==
  \/ Progress
  \/ \E p \in Packets : Submit(p) \/ EvictReplay(p)
  \/ \E k \in SUBSET Holders : Topology(k) \/ HubTopology(k)
  \/ \E m \in net : Lose(m)

Spec == Init /\ [][Next]_vars

\* Every node is polled; each of the loops' steps uses up a message, a replay or
\* a retry, so fairness of one is fairness of all.
FairSpec == Spec /\ WF_vars(Progress)

-----------------------------------------------------------------------------
(* Properties.                                                             *)

\* The source stops waiting for a holder only when that holder has given the
\* packet to its handlers or discovery has lost it: answers of other holders,
\* replays, repeated and late messages never count for it.
NoFalseCompletion ==
  \A p \in Packets :
    LET due == IF sent[p] # None THEN sent[p].pending ELSE outcome[p].left
    IN \A d \in wanted[p] \ due :
         (sent[p] # None \/ outcome[p].how # "none") => <<d, p>> \in reached \/ <<p, d>> \in lapsed

\* A handler accepts a packet once, although the source, the relay and the
\* network repeat it.  Only when another handler of the same node fails, and the
\* id leaves the duplicate filter, is it called again.
AcceptedOnce == twice \subseteq failed

\* A holder that the relay knows and that has not seen the packet is not left
\* out when the relay forwards it.
NotWithheld == \A p \in Packets : \A d \in acked[p] : <<d, p>> \in reached

\* An entry leaves the table, answered, lapsed or given up, unless its replay
\* was evicted from the transmit queue: `queued' then stays set.
Settles == \A p \in Packets : (sent[p] # None) ~> (sent[p] = None \/ p \in evicted)

\* The answers cannot come back through shared sides or a router; a relay that
\* has noted an answer the source has missed lets no replay through, and one
\* that knows other holders only does not look for the rest.
Unanswerable(p) ==
  \/ setup.hub = "router" \/ setup.shared # {}
  \/ \E d \in Holders : <<p, d>> \in withheld /\ (d \in outcome[p].left \/ wanted[p] = {})

\* While fewer events strike than a packet has attempts, a packet is confirmed
\* by every holder that stays known, through direct links or a relay.
Confirmed ==
  \A p \in Packets :
    (sent[p] # None) ~> (outcome[p].how \in {"acked", "lapsed", "displaced"}
                           \/ p \in evicted \/ Unanswerable(p))
=============================================================================
