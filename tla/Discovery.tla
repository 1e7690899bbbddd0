----------------------------- MODULE Discovery -----------------------------
(***************************************************************************)
(* Discovery: how routers and relays learn which endpoints are reachable   *)
(* through which side (src/src/discovery.rs, the discovery methods of      *)
(* src/src/router.rs and their copies in src/src/relay.rs).                *)
(*                                                                         *)
(* A node has one side per neighbour.  The links form a tree, so a packet  *)
(* meets a node once and the duplicate filter, modelled elsewhere, has     *)
(* nothing to do here.  A channel stands for a transmit queue and the link *)
(* behind it: it keeps the order and may lose packets.                     *)
(*                                                                         *)
(* Time is discrete.  A stored last_seen_ms is kept as an age and a        *)
(* next_announce_ms as the time left, so states repeat and the run needs   *)
(* no bound on time.  Every application runs its loop once per tick: it    *)
(* takes what has arrived and polls discovery.  Each method holds the      *)
(* state mutex for all it reads and writes, so each is one step.           *)
(***************************************************************************)
EXTENDS Integers, Sequences, FiniteSets

CONSTANTS
  Node,         \* routers and relays
  Relays,       \* the relays among them
  Link,         \* pairs of neighbours, symmetric and without cycles
  LinkLocal,    \* pairs <<n, m>>: n's side toward m has link_local_enabled
  Endpoint,     \* data endpoints other than the discovery endpoint
  LocalOnly,    \* those for which is_link_local_only holds
  Handlers,     \* endpoints each node announces as its own
  TimeSources,  \* routers that serve time (should_serve)
  RelayName,    \* the sender id "RELAY" all relays use
  None,         \* absence of a value
  TTL,          \* DISCOVERY_ROUTE_TTL_MS
  Fast, Slow,   \* DISCOVERY_FAST_INTERVAL_MS, DISCOVERY_SLOW_INTERVAL_MS
  MaxFlight,    \* bound: packets on a link when a node announces
  MaxEvents     \* bound: crashes, lost packets, calls of the application

Routers == Node \ Relays

ASSUME NetworkAssumption ==
  /\ Relays \subseteq Node /\ TimeSources \subseteq Routers
  /\ Link \subseteq Node \X Node /\ LinkLocal \subseteq Link
  /\ \A l \in Link : l[1] # l[2] /\ <<l[2], l[1]>> \in Link
  /\ LocalOnly \subseteq Endpoint
  /\ Handlers \in [Node -> SUBSET Endpoint]
  /\ \A n \in Relays : Handlers[n] = {}
  /\ RelayName \notin Node
ASSUME CadenceAssumption ==
  Fast \in Nat \ {0} /\ Slow \in Nat /\ TTL \in Nat /\ Fast <= Slow /\ Slow <= TTL

Id(n)    == IF n \in Relays THEN RelayName ELSE n
Ids      == {Id(n) : n \in Node}
Sides(n) == {m \in Node : <<n, m>> \in Link}

VARIABLES
  up,        \* nodes that have power
  routes,    \* discovery_routes: node, side, announcer -> sender state or None
  interval,  \* DiscoveryCadenceState.current_interval_ms
  wait,      \* time left until next_announce_ms
  channel,   \* channel[n][m]: packets on their way from n to m
  polled,    \* nodes whose loop has run since the last tick
  events,    \* crashes, lost packets and calls of the application so far
  calm       \* no node has lost power and no packet was lost

vars == <<up, routes, interval, wait, channel, polled, events, calm>>

-----------------------------------------------------------------------------
(* Topology boards (TopologyBoardNode): sets with one board per sender id. *)

Board(i, eps, srcs, conns) == [id |-> i, eps |-> eps, srcs |-> srcs, conns |-> conns]

\* sender_topology_board_mut: the board of sender i, empty if there is none.
BoardOf(bs, i) ==
  IF \E b \in bs : b.id = i THEN CHOOSE b \in bs : b.id = i ELSE Board(i, {}, {}, {})

WithBoard(bs, b) == {c \in bs : c.id # b.id} \cup {b}

\* summarize_topology_boards
Endpoints(bs) == UNION {b.eps : b \in bs}
Sources(bs)   == UNION {b.srcs : b \in bs}

\* merge_topology_boards of the lists in parts, and normalize_topology_boards:
\* boards of one id are united and no board is connected to itself.
Merged(parts) ==
  LET all == UNION parts
      of(i) == {b \in all : b.id = i}
  IN {Board(i, Endpoints(of(i)), Sources(of(i)), (UNION {b.conns : b \in of(i)}) \ {i}) :
        i \in {b.id : b \in all}}

\* The filter keeps what it should drop.
FilteredWrongly(eps, link_local) == IF link_local THEN eps ELSE eps \cap LocalOnly

Filtered(eps, link_local) == IF link_local THEN eps ELSE eps \ LocalOnly

FilteredBoards(bs, link_local) == {[b EXCEPT !.eps = Filtered(@, link_local)] : b \in bs}

-----------------------------------------------------------------------------
(* What a node knows and advertises.                                       *)

\* Pairs of side and announcer that have not expired.
Fresh(r) == {p \in (DOMAIN r) \X Ids : r[p[1]][p[2]] # None /\ r[p[1]][p[2]].age <= TTL}

\* route.reachable and route.reachable_timesync_sources, kept by recompute_discovery_side_state.
Reachable(n, m) ==
  UNION {Endpoints(routes[n][m][a].boards) : a \in {b \in Ids : routes[n][m][b] # None}}

ReachableSources(n, m) ==
  UNION {Sources(routes[n][m][a].boards) : a \in {b \in Ids : routes[n][m][b] # None}}

\* local_discovery_topology_board of a router and of a relay.
RouterBoard(n, r, link_local) ==
  Board(n, Filtered(Handlers[n], link_local), {n} \cap TimeSources, {p[2] : p \in Fresh(r)})

RelayBoard(r) == Board(RelayName, {}, {}, {p[2] : p \in Fresh(r)})

\* What a fresh announcer contributes: its boards, its own one connected to us.
Contribution(n, bs, a, link_local) ==
  FilteredBoards(
    IF bs = {} THEN {Board(a, {}, {}, {Id(n)})}
    ELSE {IF b.id = a THEN [b EXCEPT !.conns = @ \cup {Id(n)}] ELSE b : b \in bs},
    link_local)

\* advertised_discovery_topology_for_link_locked: nothing is left out for the
\* side it goes to, what was learned from that side included.
RouterAdvertised(n, r, link_local) ==
  Merged({{RouterBoard(n, r, link_local)}}
           \cup {Contribution(n, r[p[1]][p[2]].boards, p[2], link_local) : p \in Fresh(r)})

RelayAdvertised(n, r, link_local) ==
  Merged({{RelayBoard(r)}}
           \cup {Contribution(n, r[p[1]][p[2]].boards, p[2], link_local) : p \in Fresh(r)})

\* A route expires when its age reaches the limit, not when it passes it.
PrunedEarly(r) ==
  [m \in DOMAIN r |-> [a \in Ids |-> IF r[m][a] # None /\ r[m][a].age < TTL
                                     THEN r[m][a] ELSE None]]

\* prune_discovery_routes_locked
Pruned(r) ==
  IF \A m \in DOMAIN r, a \in Ids : r[m][a] # None => r[m][a].age <= TTL THEN r
  ELSE [m \in DOMAIN r |-> [a \in Ids |-> IF r[m][a] # None /\ r[m][a].age <= TTL
                                          THEN r[m][a] ELSE None]]

-----------------------------------------------------------------------------
(* Packets.                                                                *)

Packet(kind, n, body) == [kind |-> kind, sender |-> Id(n), body |-> body]

\* The packets of one announcement toward a side, those with content: the
\* endpoints of the view for that side, the time sources and the view itself.
Burst(n, view, srcs) ==
  SelectSeq(<<Packet("announce", n, Endpoints(view)), Packet("sources", n, srcs),
              Packet("topology", n, view)>>,
            LAMBDA p : p.body # {})

RouterBurst(n, r, m) ==
  Burst(n, RouterAdvertised(n, r, <<n, m>> \in LinkLocal),
        Sources(RouterAdvertised(n, r, TRUE)))

RelayBurst(n, r, m) ==
  Burst(n, RelayAdvertised(n, r, <<n, m>> \in LinkLocal),
        Sources(RelayAdvertised(n, r, TRUE)))

\* What becomes of an announcer's boards: an announce or a list of time
\* sources overwrites the announcer's own board, a topology overwrites all.
Learned(bs, p, link_local) ==
  LET own == BoardOf(bs, p.sender)
  IN CASE p.kind = "announce" ->
            WithBoard(bs, [own EXCEPT !.eps = Filtered(p.body, link_local)])
       [] p.kind = "sources"  -> WithBoard(bs, [own EXCEPT !.srcs = p.body])
       [] p.kind = "topology" -> FilteredBoards(p.body, link_local)

\* Whether that is a topology change: the field it overwrites differs.
Changes(bs, p, link_local) ==
  LET own == BoardOf(bs, p.sender)
      new == Learned(bs, p, link_local)
  IN CASE p.kind = "announce" -> own.eps # BoardOf(new, p.sender).eps
       [] p.kind = "sources"  -> own.srcs # p.body
       [] p.kind = "topology" -> bs # new

BoardsOf(n, m, a) == IF routes[n][m][a] = None THEN {} ELSE routes[n][m][a].boards

\* The table after learning p from side m: learn_discovery_packet and
\* learn_discovery_item agree up to what they do afterwards.
WithLearned(n, m, p) ==
  [routes[n] EXCEPT ![m][p.sender] =
     [boards |-> Learned(BoardsOf(n, m, p.sender), p, <<n, m>> \in LinkLocal), age |-> 0]]

-----------------------------------------------------------------------------
(* Steps of one node.                                                      *)

\* DiscoveryCadenceState.on_topology_change and on_announce_sent.
CadenceReset(n) ==
  /\ interval' = [interval EXCEPT ![n] = Fast]
  /\ wait' = [wait EXCEPT ![n] = 0]

CadenceAdvance(n, current) ==
  /\ wait' = [wait EXCEPT ![n] = current]
  /\ interval' = [interval EXCEPT ![n] = IF 2 * current < Slow THEN 2 * current ELSE Slow]

CadenceKept == UNCHANGED <<interval, wait>>

\* The links are not congested.
Flowing == \A l \in Link : Len(channel[l[1]][l[2]]) <= MaxFlight

\* Appends out[m] to the channel toward each neighbour m that has power.
Sending(c, n, out) ==
  [c EXCEPT ![n] = [m \in Node |-> IF m \in Sides(n) \cap up THEN @[m] \o out[m] ELSE @[m]]]

\* queue_discovery_announce, with the table r already pruned.
RouterAnnounces(n, r, current) ==
  /\ CadenceAdvance(n, current)
  /\ channel' = Sending(channel, n, [m \in Sides(n) |-> RouterBurst(n, r, m)])

RelayAnnounces(n, r, current) ==
  /\ CadenceAdvance(n, current)
  /\ channel' = Sending(channel, n, [m \in Sides(n) |-> RelayBurst(n, r, m)])

Announces(n, r, current) ==
  IF n \in Relays THEN RelayAnnounces(n, r, current) ELSE RouterAnnounces(n, r, current)

\* poll_discovery_announce: what pruning removes resets the cadence, and an
\* announcement goes out when one is due.
Polls(n) ==
  LET r == Pruned(routes[n])
      changed == r # routes[n]
      due == changed \/ wait[n] = 0
  IN /\ n \in up \ polled /\ Flowing
     /\ Sides(n) # {}
     /\ polled' = polled \cup {n}
     /\ routes' = [routes EXCEPT ![n] = r]
     /\ IF due THEN Announces(n, r, IF changed THEN Fast ELSE interval[n])
               ELSE CadenceKept /\ UNCHANGED channel
     /\ UNCHANGED <<up, events, calm>>

RouterPoll(n) == n \in Routers /\ Polls(n)
RelayPoll(n)  == n \in Relays /\ Polls(n)

\* announce_discovery: an announcement that does not wait to be due.
AnnounceDiscovery(n) ==
  LET r == Pruned(routes[n])
      current == IF r # routes[n] THEN Fast ELSE interval[n]
  IN /\ n \in up /\ Sides(n) # {} /\ events < MaxEvents /\ Flowing
     /\ events' = events + 1
     /\ routes' = [routes EXCEPT ![n] = r]
     /\ Announces(n, r, current)
     /\ UNCHANGED <<up, polled, calm>>

\* export_topology prunes as well.
ExportTopology(n) ==
  LET r == Pruned(routes[n])
  IN /\ n \in up /\ events < MaxEvents
     /\ events' = events + 1
     /\ routes' = [routes EXCEPT ![n] = r]
     /\ IF r # routes[n] THEN CadenceReset(n) ELSE CadenceKept
     /\ UNCHANGED <<up, channel, polled, calm>>

\* Takes p from side m and floods it to the other sides.
Forwarding(n, m, p) ==
  Sending([channel EXCEPT ![m][n] = Tail(@)], n,
          [k \in Sides(n) |-> IF k = m THEN <<>> ELSE <<p>>])

\* dispatch_rx_data with a discovery packet: a router ignores its own.
RouterReceive(n, m) ==
  LET p == Head(channel[m][n]) IN
  /\ n \in Routers \cap up /\ m \in Sides(n) /\ channel[m][n] # <<>>
  /\ channel' = Forwarding(n, m, p)
  /\ IF p.sender = Id(n) THEN UNCHANGED routes /\ CadenceKept
     ELSE /\ routes' = [routes EXCEPT ![n] = WithLearned(n, m, p)]
          /\ IF Changes(BoardsOf(n, m, p.sender), p, <<n, m>> \in LinkLocal)
               THEN CadenceReset(n) ELSE CadenceKept
  /\ UNCHANGED <<up, polled, events, calm>>

\* dispatch_relay_rx_item: a relay learns from any sender and prunes at once.
RelayReceive(n, m) ==
  LET p == Head(channel[m][n]) IN
  /\ n \in Relays \cap up /\ m \in Sides(n) /\ channel[m][n] # <<>>
  /\ channel' = Forwarding(n, m, p)
  /\ routes' = [routes EXCEPT ![n] = Pruned(WithLearned(n, m, p))]
  /\ IF Changes(BoardsOf(n, m, p.sender), p, <<n, m>> \in LinkLocal)
       THEN CadenceReset(n) ELSE CadenceKept
  /\ UNCHANGED <<up, polled, events, calm>>

-----------------------------------------------------------------------------
(* The environment.                                                        *)

NoRoutes(n) == [m \in Sides(n) |-> [a \in Ids |-> None]]

Silent(c, n) == [k \in Node |-> [m \in Node |-> IF n \in {k, m} THEN <<>> ELSE c[k][m]]]

\* A node loses power, and with it its queues and tables.
Crash(n) ==
  /\ n \in up /\ events < MaxEvents
  /\ up' = up \ {n}
  /\ events' = events + 1 /\ calm' = FALSE
  /\ routes' = [routes EXCEPT ![n] = NoRoutes(n)]
  /\ channel' = Silent(channel, n)
  /\ interval' = [interval EXCEPT ![n] = Fast] /\ wait' = [wait EXCEPT ![n] = 0]
  /\ UNCHANGED polled

\* It starts again as a new instance with the same sides.
Restart(n) ==
  /\ n \notin up
  /\ up' = up \cup {n}
  /\ UNCHANGED <<routes, interval, wait, channel, polled, events, calm>>

Lose(n, m) ==
  /\ channel[n][m] # <<>> /\ events < MaxEvents
  /\ events' = events + 1 /\ calm' = FALSE
  /\ channel' = [channel EXCEPT ![n][m] = Tail(@)]
  /\ UNCHANGED <<up, routes, interval, wait, polled>>

Older(e) == IF e = None \/ e.age > TTL THEN e ELSE [e EXCEPT !.age = @ + 1]

\* Time passes when every loop has run and the links are empty.
Tick ==
  /\ up \subseteq polled
  /\ \A l \in Link : channel[l[1]][l[2]] = <<>>
  /\ polled' = {}
  /\ wait' = [n \in Node |-> IF n \in up /\ wait[n] > 0 THEN wait[n] - 1 ELSE wait[n]]
  /\ routes' = [n \in Node |-> [m \in Sides(n) |-> [a \in Ids |-> Older(routes[n][m][a])]]]
  /\ UNCHANGED <<up, interval, channel, events, calm>>

Init ==
  /\ up = Node
  /\ routes = [n \in Node |-> NoRoutes(n)]
  /\ interval = [n \in Node |-> Fast]
  /\ wait = [n \in Node |-> 0]
  /\ channel = [n \in Node |-> [m \in Node |-> <<>>]]
  /\ polled = {} /\ events = 0 /\ calm = TRUE

Next ==
  \/ Tick
  \/ \E n \in Node : RouterPoll(n) \/ RelayPoll(n) \/ AnnounceDiscovery(n)
                     \/ ExportTopology(n) \/ Crash(n) \/ Restart(n)
  \/ \E n, m \in Node : RouterReceive(n, m) \/ RelayReceive(n, m) \/ Lose(n, m)

\* The loops run, the links deliver what they do not lose and time passes.
\* Between two ticks only finitely many of these steps are possible, so it is
\* enough that some of them is taken.
Progress ==
  \/ Tick
  \/ \E n \in Node : RouterPoll(n) \/ RelayPoll(n)
  \/ \E n, m \in Node : RouterReceive(n, m) \/ RelayReceive(n, m)

Spec == Init /\ [][Next]_vars /\ WF_vars(Progress)

-----------------------------------------------------------------------------
(* Properties.                                                             *)

\* The nodes behind n's side toward m.
Behind[l \in Link] ==
  {l[2]} \cup UNION {Behind[<<l[2], k>>] : k \in Sides(l[2]) \ {l[1]}}

AllUp == up = Node

\* Endpoints every side is allowed to carry.
Public(n) == Handlers[n] \ LocalOnly

\* Soft state that the announcements keep alive: as long as no node loses
\* power and no packet is lost, an endpoint that is reachable through a side
\* stays reachable through it, whatever the order in which announcements,
\* topologies and forwarded packets of several nodes overwrite each other and
\* however far the cadence has backed off.
KeepsLive ==
  [][calm' =>
       \A l \in Link : Reachable(l[1], l[2]) \subseteq Reachable(l[1], l[2])']_vars

\* Once all nodes stay up, every node ends up knowing, on the right side, the
\* endpoints of every other node, after crashes, restarts and lost packets.
Converges ==
  <>[]AllUp => <>[](\A l \in Link : \A k \in Behind[l] :
                   /\ Public(k) \subseteq Reachable(l[1], l[2])
                   /\ {k} \cap TimeSources \subseteq ReachableSources(l[1], l[2]))
=============================================================================
