------------------------------ MODULE TimeSync ------------------------------
(***************************************************************************)
(* Time synchronisation between routers: TimeSyncTracker, NetworkClock and *)
(* SlewedNetworkClock of src/src/timesync.rs, and TimeSyncRuntime of       *)
(* src/src/router.rs that drives them.                                     *)
(*                                                                         *)
(* A node is one router.  Every operation below holds the time sync mutex  *)
(* for its reads and writes, so it is one step; poll_timesync and the      *)
(* request handler take the mutex again to stamp the packets they queue,   *)
(* and the state after that (another refresh) is part of the step.         *)
(*                                                                         *)
(* Packets travel through `net', which delays, reorders and loses them.    *)
(* Which sides carry them is the business of module Routes.  The nodes'    *)
(* monotonic clocks are one clock `now'.  Calendar fields are abstracted   *)
(* to a date and a time of day whose sum is the Unix time.                 *)
(***************************************************************************)
EXTENDS SlewedClock, FiniteSets

CONSTANTS
  Node,           \* routers
  Rank,           \* order of sender ids and of local source names
  None,           \* absence of a value
  Setups,         \* how the nodes may start: functions from Node to records
                  \* [cfg, local], a TimeSyncConfig and a local time, or None
  Timeout,        \* source_timeout_ms
  AnnounceEvery,  \* announce_interval_ms
  RequestEvery,   \* request_interval_ms
  NewConfigs,     \* configs (or None) set_timesync_config may install later
  Partials,       \* times the application supplies: records [date, tod]
  UserSources,    \* what it may register by name: records [priority, time, ttl]
  Day,            \* length of a day
  Operated,       \* bound: the nodes whose application changes something later
  MaxNow,         \* bound: how long time runs
  MaxSets,        \* bound: calls of the application that change a source or the config
  MaxNet,         \* bound: packets on their way
  MaxAdjust       \* bound: size of a pending clock correction

LocalNames == {"local_full", "local_date", "local_tod"}
Names      == Node \cup LocalNames \cup {"user"}

\* TimeSyncConfig, and a PartialNetworkTime that may lack its date or its time.
Config  == [role : {"source", "consumer", "auto"}, priority : Nat, promotion : BOOLEAN]
Partial == [date : Int \cup {None}, tod : Int \cup {None}]

\* What a node keeps per source: an announcement, a sample of its time, a
\* named source of the assembled clock, the request that is outstanding.
Source  == [priority : Nat, at : Nat]
Remote  == [priority : Nat, at : Nat, sample : Int]
Named   == [priority : Nat, updated : Nat, anchor : Nat, ttl : BOOLEAN, time : Partial]
Request == [seq : Nat, t1 : Nat, source : Node]

Packet ==
  [ty : {"announce"}, from : Node, to : Node, time : Int, priority : Nat]
    \cup [ty : {"request"}, from : Node, to : Node, seq : Nat, t1 : Nat, epoch : Nat]
    \cup [ty : {"response"}, from : Node, to : Node, seq : Nat, t3 : Int, at : Nat, epoch : Nat]

ASSUME RankAssumption ==
  /\ Rank \in [Names -> Nat]
  /\ \A a, b \in Names : Rank[a] = Rank[b] => a = b
ASSUME NoneAssumption ==
  None \notin Node \cup Int \cup Config \cup Partial \cup Source \cup Remote \cup Named \cup Request
ASSUME SettingsAssumption ==
  /\ \A u \in Setups, n \in Node :
       u[n].cfg \in Config \cup {None} /\ u[n].local \in Partial \cup {None}
  /\ NewConfigs \subseteq Config \cup {None} /\ Partials \subseteq Partial
  /\ \A u \in UserSources : u.priority \in Nat /\ u.time \in Partial /\ u.ttl \in BOOLEAN
  /\ Operated \subseteq Node
ASSUME TimesAssumption ==
  Timeout \in Nat /\ AnnounceEvery \in Nat /\ RequestEvery \in Nat /\ Day \in Nat \ {0}

VARIABLES
  node,   \* the TimeSyncRuntime of each node
  net,    \* packets on their way, one per receiver
  now,    \* monotonic time
  sets    \* how often the application changed something

vars == <<node, net, now, sets>>

-----------------------------------------------------------------------------
(* Partial times and the assembled clock (NetworkClock).                   *)

FromUnix(t)   == [date |-> (t \div Day) * Day, tod |-> t % Day]
Complete(p)   == p.date # None /\ p.tod # None
UnixOf(p)     == p.date + p.tod

\* best_source: lowest priority value, then name, among the names in S.
BestSource(clock, S) ==
  CHOOSE a \in S : \A b \in S :
    \/ clock[a].priority < clock[b].priority
    \/ clock[a].priority = clock[b].priority /\ Rank[a] <= Rank[b]

\* current_time: the best complete source, otherwise a date and a time of day
\* from the best source of each, advanced from the anchor of the time of day.
CurrentTime(clock, t) ==
  LET full  == {a \in Names : clock[a] # None /\ Complete(clock[a].time)}
      dates == {a \in Names : clock[a] # None /\ clock[a].time.date # None}
      tods  == {a \in Names : clock[a] # None /\ clock[a].time.tod # None}
      since(a) == t - clock[a].anchor
  IN CASE full # {}  -> LET a == BestSource(clock, full)
                        IN UnixOf(clock[a].time) + since(a)
       [] full = {} /\ dates # {} /\ tods # {} ->
            LET a == BestSource(clock, tods)
            IN clock[BestSource(clock, dates)].time.date + clock[a].time.tod + since(a)
       [] OTHER      -> None

\* update_source followed by the steering that a complete time brings.
WithSource(s, name, priority, time, ttl, t) ==
  [s EXCEPT !.clock[name] = [priority |-> priority, updated |-> t, anchor |-> t,
                             ttl |-> ttl, time |-> time]]

SteeredBy(s, time, t) ==
  IF Complete(time) THEN [s EXCEPT !.disc = Steer(@, t, UnixOf(time))] ELSE s

Without(s, names) ==
  [s EXCEPT !.clock = [a \in Names |-> IF a \in names THEN None ELSE @[a]]]

-----------------------------------------------------------------------------
(* Election (TimeSyncTracker).                                             *)

Active(s, m, t)  == s.sources[m] # None /\ t - s.sources[m].at <= Timeout
ActiveSet(s, t)  == {m \in Node : Active(s, m, t)}

\* best_active_source
BestActive(s, t) ==
  IF ActiveSet(s, t) = {} THEN None
  ELSE CHOOSE m \in ActiveSet(s, t) : \A k \in ActiveSet(s, t) :
         \/ s.sources[m].priority < s.sources[k].priority
         \/ s.sources[m].priority = s.sources[k].priority /\ Rank[m] <= Rank[k]

\* timesync_has_usable_time_locked
Usable(s, t) == s.disc.initialized \/ CurrentTime(s.clock, t) # None

\* local_candidate_priority: whether the node may lead, m being the best
\* active source.
Candidate(s, m, usable) ==
  \/ s.cfg.role = "source"
  \/ /\ s.cfg.role = "auto" \/ (s.cfg.role = "consumer" /\ s.cfg.promotion)
     /\ usable
     /\ m = None

\* A tie broken in favour of the local node, whatever the ids.
BeatsOnTie(n, s, m) == s.cfg.priority <= s.sources[m].priority

\* The local node wins against remote m.
Beats(n, s, m) ==
  \/ s.cfg.priority < s.sources[m].priority
  \/ s.cfg.priority = s.sources[m].priority /\ Rank[n] < Rank[m]

\* leader: the node itself, a remote node, or None.
Elected(n, s, m, usable) ==
  CASE s.cfg = None -> None
    [] s.cfg # None /\ ~Candidate(s, m, usable) -> m
    [] OTHER -> IF m = None \/ Beats(n, s, m) THEN n ELSE m
Leader(n, s, t, usable) == Elected(n, s, BestActive(s, t), usable)

\* ... with the node's usable time as it is.
LeaderNow(n, s, t) == Leader(n, s, t, Usable(s, t))

\* local_announce_priority: a leader with a rival of its own priority
\* announces itself one better.
AnnouncePriority(s, t) ==
  IF \E m \in ActiveSet(s, t) : s.sources[m].priority = s.cfg.priority
    THEN Max({s.cfg.priority - 1, 0})
    ELSE s.cfg.priority

-----------------------------------------------------------------------------
(* TimeSyncRuntime.                                                        *)

NewRuntime(cfg, static) ==
  [static        |-> static,     \* RouterConfig carries a time sync config
   cfg           |-> cfg,
   sources       |-> [m \in Node |-> None],
   clock         |-> [a \in Names |-> None],
   disc          |-> Unset,
   remote        |-> [m \in Node |-> None],
   next_seq      |-> 1,
   next_announce |-> 0,
   next_request  |-> 0,
   pending       |-> None,
   epoch         |-> 0]          \* history: configurations so far

\* prune_expired and the retain on remote_sources that every handler starts with.
Pruned(s, t) ==
  LET ttl == IF s.cfg = None THEN 0 ELSE Timeout IN
  [s EXCEPT
     !.clock  = [a \in Names |-> IF @[a] # None /\ @[a].ttl /\ t - @[a].updated > Timeout
                                   THEN None ELSE @[a]],
     !.remote = [m \in Node |-> IF @[m] # None /\ t - @[m].at > ttl THEN None ELSE @[m]]]

\* TimeSyncTracker::refresh: sources silent for too long.
Dropped(s, t) ==
  IF s.cfg = None THEN s
  ELSE [s EXCEPT !.sources = [m \in Node |-> IF Active(s, m, t) THEN @[m] ELSE None]]

\* reconcile_pending_timesync_request_locked
Reconciled(s, leader, n, t) ==
  IF s.pending # None /\ (leader = n \/ leader # s.pending.source)
    THEN [s EXCEPT !.pending = None, !.next_request = t]
    ELSE s

\* Steering towards the last sample of a remote leader.
Follows(s, leader, n, t) ==
  IF leader \in Node \ {n} /\ s.remote[leader] # None
    THEN [s EXCEPT !.disc = Steer(@, t, s.remote[leader].sample)]
    ELSE s

\* refresh_timesync_state: prune, drop stale sources, reconcile the pending
\* request, follow the leader.
Settled(n, s, leader, t) == Follows(Reconciled(s, leader, n, t), leader, n, t)
Elects(n, s, t) == Settled(n, s, LeaderNow(n, s, t), t)
Refreshed(n, s, t) == Elects(n, Dropped(Pruned(s, t), t), t)

\* packet_timestamp_ms, evaluated after the refresh of network_time().
Timestamp(s, t) ==
  CASE s.disc.initialized -> ReadUnix(s.disc, t)
    [] ~s.disc.initialized /\ CurrentTime(s.clock, t) # None -> CurrentTime(s.clock, t)
    [] OTHER -> t

\* A node's state and what it has queued for its peers.
Queued(s, packets) == [state |-> s, sent |-> packets]

\* The announce of poll_timesync, whose stamp has refreshed the state once more.
Announces(n, s, priority, t) ==
  Queued(s, {[ty |-> "announce", from |-> n, to |-> m, time |-> Timestamp(s, t),
              priority |-> priority] : m \in Node \ {n}})

\* Its request (queue_internal_timesync_request).
Requests(n, s, leader, t) ==
  Queued(Refreshed(n, [s EXCEPT !.next_seq = @ + 1, !.next_request = t + RequestEvery,
                                !.pending = [seq |-> s.next_seq, t1 |-> t, source |-> leader]], t),
         {[ty |-> "request", from |-> n, to |-> m, seq |-> s.next_seq, t1 |-> t,
           epoch |-> s.epoch] : m \in Node \ {n}})

\* poll_timesync: the new state and the packets it queues.  A leader announces
\* itself, a follower sends one request at a time.
Sends(n, s, leader, t) ==
  CASE leader = n /\ t >= s.next_announce ->
         Announces(n, Refreshed(n, [s EXCEPT !.next_announce = t + AnnounceEvery], t),
                   AnnouncePriority(s, t), t)
    [] leader \in Node \ {n} /\ t >= s.next_request /\ s.pending = None ->
         Requests(n, s, leader, t)
    [] OTHER -> Queued(s, {})
SendsDue(n, s, t) == Sends(n, s, LeaderNow(n, s, t), t)
Polled(n, s, t) ==
  IF s.cfg = None THEN Queued(Pruned(s, t), {}) ELSE SendsDue(n, Refreshed(n, s, t), t)

-----------------------------------------------------------------------------
\* set_local_network_time: a complete time replaces the fragments, a fragment
\* replaces the complete time.
WithLocal(s, p, t) ==
  LET priority == IF s.cfg = None THEN 0 ELSE s.cfg.priority
      whole == Without(SteeredBy(WithSource(s, "local_full", priority, p, FALSE, t), p, t),
                       {"local_date", "local_tod"})
      bare == Without(s, {"local_full"})
      dated == IF p.date = None THEN bare
               ELSE WithSource(bare, "local_date", priority, [p EXCEPT !.tod = None], FALSE, t)
      timed == IF p.tod = None THEN dated
               ELSE WithSource(dated, "local_tod", priority, [p EXCEPT !.date = None], FALSE, t)
  IN IF Complete(p) THEN whole ELSE timed

Init ==
  /\ \E u \in Setups : node = [n \in Node |->
       LET s == NewRuntime(u[n].cfg, u[n].cfg # None)
       IN IF u[n].local = None THEN s ELSE WithLocal(s, u[n].local, 0)]
  /\ net = {}
  /\ now = 0
  /\ sets = 0

Tick ==
  /\ now < MaxNow
  /\ now' = now + 1
  /\ UNCHANGED <<node, net, sets>>

Becomes(n, polled, taken) ==
  /\ node' = [node EXCEPT ![n] = polled.state]
  /\ net' = (net \ taken) \cup polled.sent
  /\ UNCHANGED <<now, sets>>

Poll(n) == Becomes(n, Polled(n, node[n], now), {})

\* network_time(): reading the clock refreshes it.
ReadTime(n) ==
  /\ node' = [node EXCEPT ![n] = Refreshed(n, @, now)]
  /\ UNCHANGED <<net, now, sets>>

\* handle_announce: the source is known until it has been silent for too long.
HandleAnnounce(s, p, t) ==
  [s EXCEPT !.sources[p.from] = [priority |-> p.priority, at |-> t]]

\* A sample of the network time, good for as long as a source is.
Sampled(s, source, priority, sample, t) ==
  WithSource([s EXCEPT !.remote[source] = [priority |-> priority, at |-> t, sample |-> sample]],
             source, priority, FromUnix(sample), TRUE, t)

\* The announce branch of handle_internal_timesync_packet, then poll_timesync.
Heeded(n, s, p, t) ==
  LET sampled == Sampled(s, p.from, p.priority, p.time, t)
  IN  IF LeaderNow(n, s, t) = p.from
        THEN [sampled EXCEPT !.disc = Steer(@, t, p.time)] ELSE sampled

ReceiveAnnounce(n, p) ==
  /\ p \in net /\ p.ty = "announce" /\ p.to = n
  /\ node[n].static /\ node[n].cfg # None
  /\ Becomes(n, Polled(n, Heeded(n, HandleAnnounce(Pruned(node[n], now), p, now), p, now), now),
             {p})

\* The request branch: only the leader answers, with its network time for both
\* t2 and t3.  `at' and `epoch' are history, for SampleError.
Answered(n, s, p, t) ==
  IF LeaderNow(n, s, t) # n THEN Queued(s, {})
  ELSE Queued(Refreshed(n, s, t),
              {[ty |-> "response", from |-> n, to |-> p.from, seq |-> p.seq,
                t3 |-> Timestamp(s, t), at |-> t, epoch |-> p.epoch]})

ReceiveRequest(n, p) ==
  /\ p \in net /\ p.ty = "request" /\ p.to = n
  /\ node[n].static /\ node[n].cfg # None
  /\ Becomes(n, Answered(n, Pruned(node[n], now), p, now), {p})

\* A response that is matched by its sender alone.
MatchesAnySeq(s, p) == s.pending # None /\ s.pending.source = p.from

\* Only the response to the outstanding request is used.
Matches(s, p) ==
  /\ s.pending # None
  /\ s.pending.seq = p.seq
  /\ s.pending.source = p.from

\* compute_network_time_sample with t2 = t3.
Estimate(t1, t3, t4) == t3 + (t4 - t1) \div 2

\* The response branch: the sample counts with the priority of the best source.
SamplePriority(s, best, source) ==
  CASE best # None -> s.sources[best].priority
    [] best = None /\ s.remote[source] # None -> s.remote[source].priority
    [] OTHER -> s.cfg.priority
Synchronised(s, source, est, t) ==
  [Sampled(s, source, SamplePriority(s, BestActive(s, t), source), est, t) EXCEPT
     !.disc = Steer(@, t, est), !.pending = None]
Accepts(s, p, t) ==
  IF Matches(s, p) THEN Synchronised(s, p.from, Estimate(s.pending.t1, p.t3, t), t) ELSE s

ReceiveResponse(n, p) ==
  /\ p \in net /\ p.ty = "response" /\ p.to = n
  /\ node[n].static /\ node[n].cfg # None
  /\ Becomes(n, Queued(Accepts(Pruned(node[n], now), p, now), {}), {p})

\* A packet is lost, or reaches a router that does not handle it: one built
\* without a time sync config forwards it, one whose config was cleared drops it
\* after pruning.
Discard(p) ==
  /\ p \in net
  /\ net' = net \ {p}
  /\ node' = [node EXCEPT ![p.to] = IF @.static /\ @.cfg = None THEN Pruned(@, now) ELSE @]
  /\ UNCHANGED <<now, sets>>

-----------------------------------------------------------------------------
(* What the application may set.                                           *)

SetLocal(n, p) ==
  /\ sets < MaxSets
  /\ node' = [node EXCEPT ![n] = WithLocal(@, p, now)]
  /\ sets' = sets + 1
  /\ UNCHANGED <<net, now>>

\* update_network_time_source
UpdateSource(n, u) ==
  /\ sets < MaxSets
  /\ node' = [node EXCEPT ![n] =
                SteeredBy(WithSource(@, "user", u.priority, u.time, u.ttl, now), u.time, now)]
  /\ sets' = sets + 1
  /\ UNCHANGED <<net, now>>

\* clear_local_network_time and clear_network_time_source
ClearSources(n) ==
  \E names \in {LocalNames, {"user"}} :
    /\ sets < MaxSets
    /\ node' = [node EXCEPT ![n] = Without(@, names)]
    /\ sets' = sets + 1
    /\ UNCHANGED <<net, now>>

\* set_timesync_config: everything but the application's own source starts
\* afresh.  The config the router was built with stays what it was.
SetConfig(n) ==
  \E c \in NewConfigs :
    LET s == node[n]
        fresh == NewRuntime(c, s.static) IN
    /\ sets < MaxSets
    /\ node' = [node EXCEPT ![n] =
         [fresh EXCEPT !.epoch = s.epoch + 1, !.clock =
            [a \in Names |-> IF a \in LocalNames \/ (a \in Node /\ s.remote[a] # None)
                               THEN None ELSE s.clock[a]]]]
    /\ sets' = sets + 1
    /\ UNCHANGED <<net, now>>

Step ==
  \/ Tick
  \/ \E n \in Node : Poll(n) \/ ReadTime(n)
  \/ \E n \in Operated : ClearSources(n) \/ SetConfig(n)
  \/ \E n \in Node, p \in net :
       ReceiveAnnounce(n, p) \/ ReceiveRequest(n, p) \/ ReceiveResponse(n, p)
  \/ \E p \in net : Discard(p)
  \/ \E n \in Operated, p \in Partials : SetLocal(n, p)
  \/ \E n \in Operated, u \in UserSources : UpdateSource(n, u)

Next ==
  /\ Step
  /\ Cardinality(net') <= MaxNet
  /\ \A n \in Node : node'[n].disc.pending \in -MaxAdjust..MaxAdjust

Spec == Init /\ [][Next]_vars

-----------------------------------------------------------------------------
(* Properties.                                                             *)

\* "the network clock keeps running monotonically during producer loss or
\* producer change; a new leader does not step the clock backward or forward":
\* whatever packets arrive and whatever the application sets, a disciplined
\* clock never goes back and never runs at twice the monotonic rate.
Continuous ==
  [][\A n \in Node :
       LET old == node[n].disc  new == node'[n].disc IN
       old.initialized /\ new.initialized
         => /\ ReadUnix(new, now') >= ReadUnix(old, now)
            /\ ReadUnix(new, now') - ReadUnix(old, now) <= 2 * (now' - now)]_vars

\* m holds an active announcement that n made under its present config.
Heard(m, n) ==
  /\ Active(node[m], n, now)
  /\ node[n].cfg # None
  /\ node[m].sources[n].priority \in {node[n].cfg.priority, Max({node[n].cfg.priority - 1, 0})}

\* Two nodes that have each heard the other do not both believe they lead:
\* Source nodes of any priorities, with and without the announced boost, Auto
\* nodes and promoted consumers.
NoSplitBrain ==
  \A m, n \in Node :
    m # n /\ Heard(m, n) /\ Heard(n, m)
      => ~(LeaderNow(m, node[m], now) = m /\ LeaderNow(n, node[n], now) = n)

\* An accepted sample is within half a round trip of the time the leader has
\* now, even when answers are late and requests were abandoned in between.
\* Only for answers to requests of the present configuration: a new one starts
\* numbering at 1 again, so an answer from before it may be taken.
SampleError ==
  [][\A n \in Node, p \in net :
       LET sample == node'[n].remote[p.from].sample
           truth == p.t3 + (now - p.at)
           trip == now - node[n].pending.t1
       IN (p.ty = "response" /\ p.to = n /\ p \notin net' /\ p.epoch = node[n].epoch
             /\ node[n].pending # None /\ node'[n].pending = None)
          => /\ 2 * (truth - sample) <= trip + 1
             /\ 2 * (sample - truth) <= trip + 1]_vars
=============================================================================
