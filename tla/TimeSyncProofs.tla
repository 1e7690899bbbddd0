--------------------------- MODULE TimeSyncProofs ---------------------------
(***************************************************************************)
(* Time synchronisation for every set of routers, every configuration,     *)
(* slew rate and timeout, and with a network that delays, reorders and     *)
(* loses packets: the disciplined clock is never stepped, two routers that *)
(* hear each other do not both lead, and a sample is within half a round   *)
(* trip of the time it samples.                                            *)
(***************************************************************************)
EXTENDS TimeSync, SequenceLemmas

(***************************************************************************)
(* The slewed clock.                                                       *)
(***************************************************************************)

\* The smaller and the larger of two numbers.
LEMMA MinMaxOfTwo ==
  ASSUME NEW a \in Int, NEW b \in Int
  PROVE  /\ Min({a, b}) = IF a <= b THEN a ELSE b
         /\ Max({a, b}) = IF a >= b THEN a ELSE b
  <1>1. ASSUME NEW x \in {a, b}, \A y \in {a, b} : x <= y
        PROVE  Min({a, b}) = x
    <2>1. Min({a, b}) \in {a, b} /\ \A y \in {a, b} : Min({a, b}) <= y
      BY <1>1 DEF Min
    <2> QED
      BY <1>1, <2>1
  <1>2. ASSUME NEW x \in {a, b}, \A y \in {a, b} : x >= y
        PROVE  Max({a, b}) = x
    <2>1. Max({a, b}) \in {a, b} /\ \A y \in {a, b} : Max({a, b}) >= y
      BY <1>2 DEF Max
    <2> QED
      BY <1>2, <2>1
  <1> QED
    BY <1>1, <1>2

\* A quotient whose dividend grows by less than the divisor grows by one at most.
LEMMA QuotientGrows ==
  ASSUME NEW x \in Nat, NEW k \in Nat, NEW d \in Nat \ {0}, k < d
  PROVE  /\ x \div d \in Nat
         /\ x \div d <= (x + k) \div d
         /\ (x + k) \div d <= x \div d + 1
  OBVIOUS

\* What is worked off after d units of time.
Slewed(d) == (d * SlewNum) \div SlewDen

\* It starts at zero and grows by at most one per unit.
LEMMA SlewRate ==
  ASSUME NEW d \in Nat
  PROVE  /\ Slewed(0) = 0 /\ Slewed(d) \in Nat
         /\ Slewed(d) <= Slewed(d + 1) /\ Slewed(d + 1) <= Slewed(d) + 1
  <1>1. SlewNum \in Nat /\ SlewDen \in Nat \ {0} /\ SlewNum < SlewDen
    BY SlewAssumption
  <1>2. Slewed(0) = 0
    BY <1>1 DEF Slewed
  <1> DEFINE x == d * SlewNum
  <1>3. x \in Nat /\ (d + 1) * SlewNum = x + SlewNum
    BY <1>1
  <1> HIDE DEF x
  <1>4. /\ x \div SlewDen \in Nat
        /\ x \div SlewDen <= (x + SlewNum) \div SlewDen
        /\ (x + SlewNum) \div SlewDen <= x \div SlewDen + 1
    BY <1>1, <1>3, QuotientGrows
  <1> QED
    BY <1>2, <1>3, <1>4 DEF Slewed, x

\* The correction applied at time t, and the reading of the clock.
LEMMA ReadFacts ==
  ASSUME NEW c \in Clocks, NEW t \in Nat, c.mono <= t
  PROVE  /\ c.mono \in Nat /\ c.unix \in Int /\ c.pending \in Int /\ t - c.mono \in Nat
         /\ Applied(c, t) = IF c.pending >= 0
              THEN (IF c.pending <= Slewed(t - c.mono) THEN c.pending ELSE Slewed(t - c.mono))
              ELSE (IF -c.pending <= Slewed(t - c.mono) THEN c.pending ELSE -Slewed(t - c.mono))
         /\ Applied(c, t) \in Int /\ ReadUnix(c, t) \in Int
         /\ c.mono = t => ReadUnix(c, t) = c.unix
  <1>1. c.mono \in Nat /\ c.unix \in Int /\ c.pending \in Int
    BY DEF Clocks
  <1>2. t - c.mono \in Nat
    BY <1>1
  <1> DEFINE m == Slewed(t - c.mono)
  <1>3. m \in Nat
    BY <1>2, SlewRate
  <1>4. m = ((t - c.mono) * SlewNum) \div SlewDen
    BY DEF Slewed
  <1> HIDE DEF m
  <1>5. CASE c.pending >= 0
    <2>1. Applied(c, t) = Min({c.pending, m})
      BY <1>4, <1>5 DEF Applied
    <2>2. Min({c.pending, m}) = IF c.pending <= m THEN c.pending ELSE m
      BY <1>1, <1>3, MinMaxOfTwo
    <2> QED
      BY <1>1, <1>2, <1>3, <1>5, <2>1, <2>2, SlewRate DEF ReadUnix, m
  <1>6. CASE ~(c.pending >= 0)
    <2>1. Applied(c, t) = -Min({-c.pending, m})
      BY <1>4, <1>6 DEF Applied
    <2>2. -c.pending \in Int
      BY <1>1
    <2>3. Min({-c.pending, m}) = IF -c.pending <= m THEN -c.pending ELSE m
      BY <1>3, <2>2, MinMaxOfTwo
    <2> QED
      BY <1>1, <1>2, <1>3, <1>6, <2>1, <2>3, SlewRate DEF ReadUnix, m
  <1> QED
    BY <1>5, <1>6

\* read_unix_ns runs on between two steers, at less than twice the monotonic rate.
LEMMA ReadRuns ==
  ASSUME NEW c \in Clocks, NEW t \in Nat, c.mono <= t
  PROVE  ReadUnix(c, t) <= ReadUnix(c, t + 1) /\ ReadUnix(c, t + 1) <= ReadUnix(c, t) + 2
  <1> DEFINE d == t - c.mono
  <1>0. /\ d \in Nat /\ c.mono \in Nat /\ c.pending \in Int /\ c.unix \in Int
        /\ t + 1 - c.mono = d + 1 /\ c.mono <= t + 1 /\ t + 1 \in Nat
    BY ReadFacts
  <1>1. /\ Slewed(d) \in Nat /\ Slewed(d + 1) \in Nat
        /\ Slewed(d) <= Slewed(d + 1) /\ Slewed(d + 1) <= Slewed(d) + 1
    BY <1>0, SlewRate
  <1>2. Applied(c, t) = IF c.pending >= 0
              THEN (IF c.pending <= Slewed(d) THEN c.pending ELSE Slewed(d))
              ELSE (IF -c.pending <= Slewed(d) THEN c.pending ELSE -Slewed(d))
    BY ReadFacts
  <1>3. Applied(c, t + 1) = IF c.pending >= 0
              THEN (IF c.pending <= Slewed(d + 1) THEN c.pending ELSE Slewed(d + 1))
              ELSE (IF -c.pending <= Slewed(d + 1) THEN c.pending ELSE -Slewed(d + 1))
    BY <1>0, ReadFacts
  <1>4. /\ ReadUnix(c, t) = c.unix + d + Applied(c, t)
        /\ ReadUnix(c, t + 1) = c.unix + (d + 1) + Applied(c, t + 1)
    BY <1>0 DEF ReadUnix
  <1> HIDE DEF d
  <1>5. Applied(c, t) - 1 <= Applied(c, t + 1) /\ Applied(c, t + 1) <= Applied(c, t) + 1
    BY <1>0, <1>1, <1>2, <1>3
  <1>6. Applied(c, t) \in Int /\ Applied(c, t + 1) \in Int
    BY <1>0, <1>1, <1>2, <1>3
  <1> QED
    BY <1>0, <1>4, <1>5, <1>6

\* d is the clock c after any number of steers at time t: it reads the same.
Slews(c, d, t) ==
  /\ d \in Clocks /\ d.mono <= t
  /\ c.initialized => d.initialized /\ ReadUnix(d, t) = ReadUnix(c, t)

\* steer_unix_ms keeps the reading of a clock that has been set.
LEMMA SteerSlews ==
  ASSUME NEW c \in Clocks, NEW t \in Nat, c.mono <= t, NEW target \in Int
  PROVE  Slews(c, Steer(c, t, target), t)
  <1> DEFINE d == Steer(c, t, target)
  <1>0. /\ c.initialized \in BOOLEAN /\ c.mono \in Nat /\ c.unix \in Int /\ c.pending \in Int
        /\ Applied(c, t) \in Int /\ ReadUnix(c, t) \in Int
    BY ReadFacts DEF Clocks
  <1>1. CASE ~c.initialized
    <2>1. d = [initialized |-> TRUE, mono |-> t, unix |-> target, pending |-> 0]
      BY <1>1 DEF Steer
    <2>2. d \in Clocks /\ d.mono = t
      BY <2>1 DEF Clocks
    <2> HIDE DEF d
    <2>3. Slews(c, d, t)
      BY <1>1, <2>2 DEF Slews
    <2> QED
      BY <2>3 DEF d
  <1>2. CASE c.initialized
    <2>1. d = [initialized |-> TRUE, mono |-> t, unix |-> ReadUnix(c, t),
               pending |-> (c.pending - Applied(c, t)) + (target - ReadUnix(c, t))]
      BY <1>2 DEF Steer
    <2>2. (c.pending - Applied(c, t)) + (target - ReadUnix(c, t)) \in Int
      BY <1>0
    <2>3. d \in Clocks /\ d.mono = t /\ d.initialized /\ d.unix = ReadUnix(c, t)
      BY <1>0, <2>1, <2>2 DEF Clocks
    <2> HIDE DEF d
    <2>4. d.mono <= t
      BY <2>3
    <2>5. ReadUnix(d, t) = d.unix
      BY <2>3, <2>4, ReadFacts
    <2>6. Slews(c, d, t)
      BY <2>3, <2>4, <2>5 DEF Slews
    <2> QED
      BY <2>6 DEF d
  <1> QED
    BY <1>0, <1>1, <1>2

(***************************************************************************)
(* The runtime of a router.                                                *)
(***************************************************************************)

Runtime ==
  [static : BOOLEAN, cfg : Config \cup {None},
   sources : [Node -> Source \cup {None}], clock : [Names -> Named \cup {None}],
   disc : Clocks, remote : [Node -> Remote \cup {None}],
   next_seq : Nat, next_announce : Nat, next_request : Nat,
   pending : Request \cup {None}, epoch : Nat]

\* A runtime at time t, whose clock was not steered in the future.
Present(s, t) == s \in Runtime /\ s.disc.mono <= t

\* What any operation at time t but a new configuration may do to the runtime of
\* router n: its clock is slewed, an outstanding request is kept, given up or
\* replaced by one with a new number, and n is no source of itself.
Moves(n, s, r, t) ==
  /\ r \in Runtime
  /\ Slews(s.disc, r.disc, t)
  /\ r.epoch = s.epoch /\ s.next_seq <= r.next_seq
  /\ s.sources[n] = None => r.sources[n] = None
  /\ r.pending # None /\ r.pending # s.pending
       => r.pending.t1 = t /\ s.next_seq <= r.pending.seq /\ r.pending.seq < r.next_seq

\* The fields of a runtime.
LEMMA RuntimeFields ==
  ASSUME NEW s \in Runtime
  PROVE  /\ s.static \in BOOLEAN /\ s.cfg \in Config \cup {None}
         /\ s.sources \in [Node -> Source \cup {None}] /\ s.clock \in [Names -> Named \cup {None}]
         /\ s.disc \in Clocks /\ s.remote \in [Node -> Remote \cup {None}]
         /\ s.next_seq \in Nat /\ s.next_announce \in Nat /\ s.next_request \in Nat
         /\ s.pending \in Request \cup {None} /\ s.epoch \in Nat
  BY DEF Runtime

\* Doing nothing is such an operation.
LEMMA MovesReflexive ==
  ASSUME NEW n \in Node, NEW t \in Nat, NEW s, Present(s, t)
  PROVE  Moves(n, s, s, t)
  BY RuntimeFields DEF Present, Moves, Slews

\* Two such operations in a row are one.
LEMMA MovesTransitive ==
  ASSUME NEW n \in Node, NEW t \in Nat, NEW s, NEW q, NEW r, Present(s, t), Moves(n, s, q, t),
         Moves(n, q, r, t)
  PROVE  Moves(n, s, r, t)
  <1>1. Slews(s.disc, r.disc, t)
    BY DEF Moves, Slews
  <1>2. s \in Runtime /\ q \in Runtime /\ r \in Runtime
    BY DEF Moves, Present
  <1>3. s.next_seq \in Nat /\ q.next_seq \in Nat /\ r.next_seq \in Nat
    BY <1>2, RuntimeFields
  <1>4. ASSUME r.pending # None
        PROVE r.pending.seq \in Nat
    BY <1>2, <1>4, RuntimeFields DEF Request
  <1> QED
    BY <1>1, <1>2, <1>3, <1>4 DEF Moves

\* A runtime that moved is still one of the present.
LEMMA MovesPresent ==
  ASSUME NEW n \in Node, NEW t \in Nat, NEW s, NEW r, Moves(n, s, r, t)
  PROVE  Present(r, t)
  BY DEF Moves, Slews, Present

\* Changing tables and due times only.
LEMMA TableMoves ==
  ASSUME NEW n \in Node, NEW t \in Nat, NEW s, Present(s, t), NEW r \in Runtime,
         r.disc = s.disc, s.sources[n] = None => r.sources[n] = None, r.epoch = s.epoch,
         r.next_seq = s.next_seq,
         r.pending = s.pending \/ r.pending = None
  PROVE  Moves(n, s, r, t)
  BY RuntimeFields DEF Present, Moves, Slews

\* Steering towards a target.
LEMMA SteerMoves ==
  ASSUME NEW n \in Node, NEW t \in Nat, NEW s, Present(s, t), NEW target \in Int
  PROVE  Moves(n, s, [s EXCEPT !.disc = Steer(@, t, target)], t)
  <1> DEFINE d == Steer(s.disc, t, target)
             r == [s EXCEPT !.disc = d]
  <1>1. Slews(s.disc, d, t)
    BY SteerSlews, RuntimeFields DEF Present
  <1>2. d \in Clocks
    BY <1>1 DEF Slews
  <1> HIDE DEF d
  <1>3. /\ r \in Runtime /\ r.disc = d /\ r.epoch = s.epoch /\ r.next_seq = s.next_seq
        /\ r.pending = s.pending /\ r.sources = s.sources
    BY <1>2 DEF Present, Runtime
  <1> HIDE DEF r
  <1>4. Moves(n, s, r, t)
    BY <1>1, <1>3, RuntimeFields DEF Moves, Present
  <1> QED
    BY <1>4 DEF r, d

\* prune_expired and the retain on remote_sources.
LEMMA PrunedMoves ==
  ASSUME NEW n \in Node, NEW t \in Nat, NEW s, Present(s, t)
  PROVE  /\ Moves(n, s, Pruned(s, t), t)
         /\ Pruned(s, t).pending = s.pending /\ Pruned(s, t).cfg = s.cfg
         /\ Pruned(s, t).epoch = s.epoch /\ Pruned(s, t).next_seq = s.next_seq
  <1> DEFINE ttl == IF s.cfg = None THEN 0 ELSE Timeout
             c == [a \in Names |-> IF s.clock[a] # None /\ s.clock[a].ttl
                                        /\ t - s.clock[a].updated > Timeout
                                   THEN None ELSE s.clock[a]]
             m == [k \in Node |-> IF s.remote[k] # None /\ t - s.remote[k].at > ttl
                                   THEN None ELSE s.remote[k]]
             r == [s EXCEPT !.clock = c, !.remote = m]
  <1>1. c \in [Names -> Named \cup {None}] /\ m \in [Node -> Remote \cup {None}]
    BY RuntimeFields DEF Present
  <1>2. Pruned(s, t) = r
    BY DEF Pruned
  <1> HIDE DEF c, m
  <1>3. /\ r \in Runtime /\ r.disc = s.disc /\ r.sources = s.sources
        /\ r.epoch = s.epoch /\ r.next_seq = s.next_seq
        /\ r.pending = s.pending /\ r.cfg = s.cfg
    BY <1>1 DEF Present, Runtime
  <1> HIDE DEF r
  <1> QED
    BY <1>2, <1>3, TableMoves

\* Sources silent for too long.
LEMMA DroppedMoves ==
  ASSUME NEW n \in Node, NEW t \in Nat, NEW s, Present(s, t)
  PROVE  Moves(n, s, Dropped(s, t), t)
  <1>1. CASE s.cfg = None
    BY <1>1, MovesReflexive DEF Dropped
  <1>2. CASE s.cfg # None
    <2> DEFINE c == [m \in Node |-> IF Active(s, m, t) THEN s.sources[m] ELSE None]
               r == [s EXCEPT !.sources = c]
    <2>1. c \in [Node -> Source \cup {None}] /\ (s.sources[n] = None => c[n] = None)
      BY RuntimeFields DEF Present
    <2>2. Dropped(s, t) = r
      BY <1>2 DEF Dropped
    <2> HIDE DEF c
    <2>3. /\ r \in Runtime /\ r.disc = s.disc /\ r.sources = c
          /\ r.epoch = s.epoch /\ r.next_seq = s.next_seq
          /\ r.pending = s.pending
      BY <2>1 DEF Present, Runtime
    <2> HIDE DEF r
    <2> QED
      BY <2>1, <2>2, <2>3, TableMoves
  <1> QED
    BY <1>1, <1>2

\* reconcile_pending_timesync_request_locked gives up a request at most.
LEMMA ReconciledMoves ==
  ASSUME NEW t \in Nat, NEW s, Present(s, t), NEW leader, NEW n \in Node
  PROVE  Moves(n, s, Reconciled(s, leader, n, t), t)
  <1> DEFINE r == [s EXCEPT !.pending = None, !.next_request = t]
  <1>1. /\ r \in Runtime /\ r.disc = s.disc /\ r.sources = s.sources
        /\ r.epoch = s.epoch /\ r.next_seq = s.next_seq
        /\ r.pending = None
    BY DEF Present, Runtime
  <1> HIDE DEF r
  <1>2. Moves(n, s, r, t)
    BY <1>1, TableMoves
  <1>3. Reconciled(s, leader, n, t) \in {r, s}
    BY DEF Reconciled, r
  <1> QED
    BY <1>2, <1>3, MovesReflexive

\* Following the leader steers.
LEMMA FollowsMoves ==
  ASSUME NEW t \in Nat, NEW s, Present(s, t), NEW leader, NEW n \in Node
  PROVE  Moves(n, s, Follows(s, leader, n, t), t)
  <1>1. CASE leader \in Node \ {n} /\ s.remote[leader] # None
    <2>1. s.remote[leader].sample \in Int
      BY <1>1, RuntimeFields DEF Present, Remote
    <2> QED
      BY <1>1, <2>1, SteerMoves DEF Follows
  <1>2. CASE ~(leader \in Node \ {n} /\ s.remote[leader] # None)
    BY <1>2, MovesReflexive DEF Follows
  <1> QED
    BY <1>1, <1>2

\* refresh_timesync_state.
LEMMA RefreshedMoves ==
  ASSUME NEW t \in Nat, NEW s, Present(s, t), NEW n \in Node
  PROVE  Moves(n, s, Refreshed(n, s, t), t)
  <1> DEFINE p == Pruned(s, t)
             d == Dropped(p, t)
             leader == LeaderNow(n, d, t)
             q == Reconciled(d, leader, n, t)
             f == Follows(q, leader, n, t)
  <1>1. Refreshed(n, s, t) = f
    BY DEF Refreshed, Elects, Settled
  <1>2. Moves(n, s, p, t) /\ Present(p, t)
    BY PrunedMoves, MovesPresent
  <1> HIDE DEF p
  <1>3. Moves(n, p, d, t) /\ Present(d, t)
    BY <1>2, DroppedMoves, MovesPresent
  <1> HIDE DEF d, leader
  <1>4. Moves(n, d, q, t) /\ Present(q, t)
    BY <1>3, ReconciledMoves, MovesPresent
  <1> HIDE DEF q
  <1>5. Moves(n, q, f, t)
    BY <1>4, FollowsMoves
  <1> HIDE DEF f
  <1>6. Moves(n, s, d, t)
    BY <1>2, <1>3, MovesTransitive
  <1>7. Moves(n, s, q, t)
    BY <1>4, <1>6, MovesTransitive
  <1> QED
    BY <1>1, <1>5, <1>7, MovesTransitive

\* Of the members of a set, one has the least f and among those the least g.
LEMMA LexicalLeast ==
  ASSUME NEW S, S # {}, NEW f \in [S -> Nat], NEW g \in [S -> Nat]
  PROVE  \E a \in S : \A b \in S : f[a] < f[b] \/ (f[a] = f[b] /\ g[a] <= g[b])
  <1> DEFINE F == {f[a] : a \in S}
  <1>1. F # {} /\ F \subseteq Nat
    OBVIOUS
  <1>2. PICK x \in F : \A y \in F : x <= y
    BY <1>1, LeastNat
  <1> DEFINE T == {a \in S : f[a] = x}
             G == {g[a] : a \in T}
  <1>3. G # {} /\ G \subseteq Nat
    BY <1>2
  <1>4. PICK z \in G : \A y \in G : z <= y
    BY <1>3, LeastNat
  <1>5. PICK a \in T : g[a] = z
    BY <1>4
  <1>6. ASSUME NEW b \in S
        PROVE  f[a] < f[b] \/ (f[a] = f[b] /\ g[a] <= g[b])
    <2>1. x <= f[b] /\ f[a] = x /\ x \in Nat /\ f[b] \in Nat
      BY <1>1, <1>2, <1>5
    <2>2. CASE f[b] = x
      <3>1. g[b] \in G
        BY <2>2
      <3> QED
        BY <1>4, <1>5, <2>1, <2>2, <3>1
    <2> QED
      BY <2>1, <2>2
  <1> QED
    BY <1>5, <1>6

\* best_source is one of the sources it chooses from.
LEMMA BestSourceExists ==
  ASSUME NEW clock \in [Names -> Named \cup {None}],
         NEW S \in SUBSET {a \in Names : clock[a] # None}, S # {}
  PROVE  BestSource(clock, S) \in S
  <1> DEFINE f == [a \in S |-> clock[a].priority]
             g == [a \in S |-> Rank[a]]
  <1>1. f \in [S -> Nat] /\ g \in [S -> Nat]
    BY RankAssumption DEF Named
  <1>2. \A a \in S : f[a] = clock[a].priority /\ g[a] = Rank[a]
    OBVIOUS
  <1> HIDE DEF f, g
  <1>3. \E a \in S : \A b \in S : f[a] < f[b] \/ (f[a] = f[b] /\ g[a] <= g[b])
    BY <1>1, LexicalLeast
  <1>4. \E a \in S : \A b \in S :
          \/ clock[a].priority < clock[b].priority
          \/ clock[a].priority = clock[b].priority /\ Rank[a] <= Rank[b]
    BY <1>2, <1>3
  <1> QED
    BY <1>4 DEF BestSource

\* best_active_source is an active source that no active source beats.
LEMMA BestActiveFacts ==
  ASSUME NEW t \in Nat, NEW s \in Runtime
  PROVE  /\ ActiveSet(s, t) = {} => BestActive(s, t) = None
         /\ ActiveSet(s, t) # {} =>
              /\ BestActive(s, t) \in ActiveSet(s, t)
              /\ \A k \in ActiveSet(s, t) :
                   LET m == BestActive(s, t) IN
                   \/ s.sources[m].priority < s.sources[k].priority
                   \/ s.sources[m].priority = s.sources[k].priority /\ Rank[m] <= Rank[k]
  <1>1. ASSUME ActiveSet(s, t) = {}
        PROVE  BestActive(s, t) = None
    BY <1>1 DEF BestActive
  <1> DEFINE S == ActiveSet(s, t)
             f == [a \in S |-> s.sources[a].priority]
             g == [a \in S |-> Rank[a]]
  <1>2. \A m \in S : m \in Node /\ s.sources[m] # None /\ s.sources[m] \in Source
    BY RuntimeFields DEF ActiveSet, Active
  <1>3. f \in [S -> Nat] /\ g \in [S -> Nat]
    BY <1>2, RankAssumption DEF Source, Names
  <1>4. \A a \in S : f[a] = s.sources[a].priority /\ g[a] = Rank[a]
    OBVIOUS
  <1> HIDE DEF f, g, S
  <1>5. ASSUME S # {}
        PROVE  \E a \in S : \A b \in S : f[a] < f[b] \/ (f[a] = f[b] /\ g[a] <= g[b])
    BY <1>3, <1>5, LexicalLeast
  <1>6. ASSUME S # {}
        PROVE  \E a \in S : \A b \in S :
                 \/ s.sources[a].priority < s.sources[b].priority
                 \/ s.sources[a].priority = s.sources[b].priority /\ Rank[a] <= Rank[b]
    BY <1>4, <1>5, <1>6
  <1>7. ASSUME S # {}
        PROVE  /\ BestActive(s, t) \in S
               /\ \A k \in S :
                   \/ s.sources[BestActive(s, t)].priority < s.sources[k].priority
                   \/ s.sources[BestActive(s, t)].priority = s.sources[k].priority
                        /\ Rank[BestActive(s, t)] <= Rank[k]
    BY <1>6, <1>7 DEF BestActive, S
  <1> QED
    BY <1>1, <1>7 DEF S

\* current_time of the assembled clock is a time, if there is one.
LEMMA CurrentTimeType ==
  ASSUME NEW t \in Nat, NEW clock \in [Names -> Named \cup {None}]
  PROVE  CurrentTime(clock, t) \in Int \cup {None}
  <1> DEFINE full  == {a \in Names : clock[a] # None /\ Complete(clock[a].time)}
             dates == {a \in Names : clock[a] # None /\ clock[a].time.date # None}
             tods  == {a \in Names : clock[a] # None /\ clock[a].time.tod # None}
             x == BestSource(clock, full)
             d == BestSource(clock, dates)
             y == BestSource(clock, tods)
  <1>1. \A a \in Names : clock[a] # None =>
          /\ clock[a].anchor \in Nat
          /\ clock[a].time.date \in Int \cup {None} /\ clock[a].time.tod \in Int \cup {None}
    BY DEF Named, Partial
  <1>2. CASE full # {}
    <2>1. x \in full
      BY <1>2, BestSourceExists
    <2>2. CurrentTime(clock, t) = UnixOf(clock[x].time) + (t - clock[x].anchor)
      BY <1>2 DEF CurrentTime
    <2> HIDE DEF x
    <2>3. clock[x].anchor \in Nat /\ clock[x].time.date \in Int /\ clock[x].time.tod \in Int
      BY <1>1, <2>1 DEF Complete
    <2> QED
      BY <2>2, <2>3 DEF UnixOf
  <1>3. CASE full = {} /\ dates # {} /\ tods # {}
    <2>1. d \in dates /\ y \in tods
      BY <1>3, BestSourceExists
    <2>2. CurrentTime(clock, t) = clock[d].time.date + clock[y].time.tod + (t - clock[y].anchor)
      BY <1>3 DEF CurrentTime
    <2> HIDE DEF d, y
    <2>3. clock[y].anchor \in Nat /\ clock[d].time.date \in Int /\ clock[y].time.tod \in Int
      BY <1>1, <2>1
    <2> QED
      BY <2>2, <2>3
  <1>4. CASE full = {} /\ ~(dates # {} /\ tods # {})
    BY <1>4 DEF CurrentTime
  <1> QED
    BY <1>2, <1>3, <1>4

\* packet_timestamp_ms is a time.
LEMMA TimestampType ==
  ASSUME NEW t \in Nat, NEW s, Present(s, t)
  PROVE  Timestamp(s, t) \in Int
  <1>1. s.disc \in Clocks /\ s.disc.mono <= t /\ s.clock \in [Names -> Named \cup {None}]
    BY RuntimeFields DEF Present
  <1>2. CurrentTime(s.clock, t) \in Int \cup {None} /\ ReadUnix(s.disc, t) \in Int
    BY <1>1, CurrentTimeType, ReadFacts
  <1> QED
    BY <1>2 DEF Timestamp

\* A router that believes it leads has a configuration.
LEMMA LeaderConfigured ==
  ASSUME NEW t, NEW s \in Runtime, NEW n \in Node, LeaderNow(n, s, t) = n
  PROVE  s.cfg \in Config
  <1>1. s.cfg # None
    BY NoneAssumption DEF LeaderNow, Leader, Elected
  <1> QED
    BY <1>1, RuntimeFields

\* The priority in an announce is the configured one or one better.
LEMMA AnnouncePriorityType ==
  ASSUME NEW t \in Nat, NEW s \in Runtime, s.cfg \in Config
  PROVE  AnnouncePriority(s, t) \in Nat
  <1>1. s.cfg.priority \in Nat
    BY DEF Config
  <1> DEFINE x == s.cfg.priority - 1
  <1>2. x \in Int /\ 0 \in Int
    BY <1>1
  <1>3. AnnouncePriority(s, t) \in {s.cfg.priority, Max({x, 0})}
    BY DEF AnnouncePriority
  <1> HIDE DEF x
  <1>4. Max({x, 0}) = IF x >= 0 THEN x ELSE 0
    BY <1>2, MinMaxOfTwo
  <1> QED
    BY <1>1, <1>2, <1>3, <1>4

\* What a poll at time t does: the runtime moves, and the requests it queues
\* carry new numbers.
Issues(n, s, q, t) ==
  /\ Moves(n, s, q.state, t)
  /\ q.sent \subseteq Packet
  /\ \A p \in q.sent :
       /\ p.ty \in {"announce", "request"} /\ p.from = n /\ p.to # n
       /\ p.ty = "request" => /\ p.epoch = s.epoch /\ p.t1 = t
                              /\ s.next_seq <= p.seq /\ p.seq < q.state.next_seq

\* A runtime that moved and then issues.
LEMMA MovesIssues ==
  ASSUME NEW t \in Nat, NEW s, NEW r, NEW n \in Node, NEW q, Present(s, t), Moves(n, s, r, t),
         Issues(n, r, q, t)
  PROVE  Issues(n, s, q, t)
  <1>1. Moves(n, s, q.state, t)
    BY MovesTransitive DEF Issues
  <1>2. s.next_seq \in Nat /\ r.next_seq \in Nat /\ r.epoch = s.epoch /\ s.next_seq <= r.next_seq
    BY RuntimeFields DEF Moves, Present
  <1>3. ASSUME NEW p \in q.sent, p.ty = "request"
        PROVE  s.next_seq <= p.seq
    <2>1. p.seq \in Nat
      BY <1>3 DEF Issues, Packet
    <2> QED
      BY <1>2, <1>3, <2>1 DEF Issues
  <1> QED
    BY <1>1, <1>2, <1>3 DEF Issues

\* The announce of poll_timesync.
LEMMA AnnouncesIssues ==
  ASSUME NEW t \in Nat, NEW s, Present(s, t), NEW n \in Node, NEW priority \in Nat
  PROVE  Issues(n, s, Announces(n, s, priority, t), t)
  <1> DEFINE time == Timestamp(s, t)
             sent == {[ty |-> "announce", from |-> n, to |-> m, time |-> time,
                       priority |-> priority] : m \in Node \ {n}}
  <1>1. time \in Int
    BY TimestampType
  <1>2. Announces(n, s, priority, t) = [state |-> s, sent |-> sent]
    BY DEF Announces, Queued
  <1> HIDE DEF time
  <1>3. \A p \in sent : p \in Packet /\ p.ty = "announce" /\ p.from = n /\ p.to # n
    BY <1>1 DEF Packet
  <1> HIDE DEF sent
  <1> QED
    BY <1>2, <1>3, MovesReflexive DEF Issues

\* Its request, with the next number.
LEMMA RequestsIssues ==
  ASSUME NEW t \in Nat, NEW s, Present(s, t), NEW n \in Node, NEW leader \in Node
  PROVE  Issues(n, s, Requests(n, s, leader, t), t)
  <1> DEFINE q == [seq |-> s.next_seq, t1 |-> t, source |-> leader]
             r == [s EXCEPT !.next_seq = @ + 1, !.next_request = t + RequestEvery, !.pending = q]
             f == Refreshed(n, r, t)
             sent == {[ty |-> "request", from |-> n, to |-> m, seq |-> s.next_seq, t1 |-> t,
                       epoch |-> s.epoch] : m \in Node \ {n}}
  <1>1. Requests(n, s, leader, t) = [state |-> f, sent |-> sent]
    BY DEF Requests, Queued
  <1>2. s.next_seq \in Nat /\ s.epoch \in Nat
    BY RuntimeFields DEF Present
  <1>3. q \in Request /\ q.seq = s.next_seq /\ q.t1 = t
    BY <1>2 DEF Request
  <1> HIDE DEF q
  <1>4. s.next_seq + 1 \in Nat /\ t + RequestEvery \in Nat
    BY <1>2, TimesAssumption
  <1>5. /\ r \in Runtime /\ r.disc = s.disc /\ r.sources = s.sources
        /\ r.epoch = s.epoch /\ r.next_seq = s.next_seq + 1
        /\ r.pending = q
    BY <1>3, <1>4 DEF Present, Runtime
  <1> HIDE DEF r
  <1>6. Slews(s.disc, r.disc, t)
    BY <1>5, RuntimeFields DEF Present, Slews
  <1>7. Moves(n, s, r, t)
    BY <1>2, <1>3, <1>5, <1>6 DEF Moves
  <1>8. Moves(n, r, f, t)
    BY <1>7, MovesPresent, RefreshedMoves
  <1> HIDE DEF f
  <1>9. Moves(n, s, f, t)
    BY <1>7, <1>8, MovesTransitive
  <1>10. s.next_seq < f.next_seq
    <2>1. f.next_seq \in Nat /\ r.next_seq <= f.next_seq
      BY <1>8, RuntimeFields DEF Moves
    <2> QED
      BY <1>2, <1>5, <2>1
  <1>11. \A p \in sent : /\ p \in Packet /\ p.ty = "request" /\ p.from = n /\ p.to # n
                         /\ p.epoch = s.epoch /\ p.t1 = t /\ p.seq = s.next_seq
    BY <1>2 DEF Packet
  <1> HIDE DEF sent
  <1> QED
    BY <1>1, <1>2, <1>9, <1>10, <1>11 DEF Issues

\* poll_timesync.
LEMMA PolledIssues ==
  ASSUME NEW t \in Nat, NEW s, Present(s, t), NEW n \in Node
  PROVE  Issues(n, s, Polled(n, s, t), t)
  <1>1. ASSUME NEW r, Moves(n, s, r, t)
        PROVE  Issues(n, s, Queued(r, {}), t)
    BY <1>1 DEF Issues, Queued
  <1>2. CASE s.cfg = None
    BY <1>1, <1>2, PrunedMoves DEF Polled
  <1>3. CASE s.cfg # None
    <2> DEFINE r == Refreshed(n, s, t)
               leader == LeaderNow(n, r, t)
    <2>1. Moves(n, s, r, t)
      BY RefreshedMoves
    <2>2. Polled(n, s, t) = Sends(n, r, leader, t)
      BY <1>3 DEF Polled, SendsDue
    <2> HIDE DEF r
    <2>3. Present(r, t) /\ r \in Runtime
      BY <2>1, MovesPresent DEF Present
    <2>4. leader = n => r.cfg \in Config
      BY <2>3, LeaderConfigured
    <2> HIDE DEF leader
    <2>5. CASE leader = n /\ t >= r.next_announce
      <3> DEFINE a == [r EXCEPT !.next_announce = t + AnnounceEvery]
                 f == Refreshed(n, a, t)
                 priority == AnnouncePriority(r, t)
      <3>1. Polled(n, s, t) = Announces(n, f, priority, t)
        BY <2>2, <2>5 DEF Sends
      <3>2. priority \in Nat
        BY <2>3, <2>4, <2>5, AnnouncePriorityType
      <3>3. t + AnnounceEvery \in Nat
        BY TimesAssumption
      <3>4. /\ a \in Runtime /\ a.disc = r.disc /\ a.sources = r.sources
            /\ a.epoch = r.epoch /\ a.next_seq = r.next_seq
            /\ a.pending = r.pending
        BY <2>3, <3>3 DEF Runtime
      <3> HIDE DEF a, priority
      <3>5. Moves(n, r, a, t)
        BY <2>3, <3>4, TableMoves
      <3>6. Moves(n, a, f, t)
        BY <3>5, MovesPresent, RefreshedMoves
      <3> HIDE DEF f
      <3>7. Moves(n, s, f, t)
        BY <2>1, <2>3, <3>5, <3>6, MovesTransitive
      <3>8. Issues(n, f, Announces(n, f, priority, t), t)
        BY <3>2, <3>7, MovesPresent, AnnouncesIssues
      <3> QED
        BY <3>1, <3>7, <3>8, MovesIssues
    <2>6. CASE leader \in Node \ {n} /\ t >= r.next_request /\ r.pending = None
      <3>1. Polled(n, s, t) = Requests(n, r, leader, t)
        BY <2>2, <2>6 DEF Sends
      <3> QED
        BY <2>1, <2>3, <2>6, <3>1, RequestsIssues, MovesIssues
    <2>7. CASE /\ ~(leader = n /\ t >= r.next_announce)
               /\ ~(leader \in Node \ {n} /\ t >= r.next_request /\ r.pending = None)
      <3>1. Polled(n, s, t) = Queued(r, {})
        BY <2>2, <2>7 DEF Sends
      <3> QED
        BY <1>1, <2>1, <3>1
    <2> QED
      BY <2>5, <2>6, <2>7
  <1> QED
    BY <1>2, <1>3

\* update_source registers a time under a name.
LEMMA WithSourceMoves ==
  ASSUME NEW n \in Node, NEW t \in Nat, NEW s, Present(s, t), NEW name \in Names,
         NEW priority \in Nat,
         NEW time \in Partial, NEW ttl \in BOOLEAN
  PROVE  Moves(n, s, WithSource(s, name, priority, time, ttl, t), t)
  <1> DEFINE e == [priority |-> priority, updated |-> t, anchor |-> t, ttl |-> ttl, time |-> time]
             c == [s.clock EXCEPT ![name] = e]
             r == [s EXCEPT !.clock = c]
  <1>1. WithSource(s, name, priority, time, ttl, t) = r
    BY RuntimeFields DEF WithSource, Present, Runtime
  <1>2. e \in Named
    BY DEF Named
  <1> HIDE DEF e
  <1>3. c \in [Names -> Named \cup {None}]
    BY <1>2, RuntimeFields DEF Present
  <1> HIDE DEF c
  <1>4. /\ r \in Runtime /\ r.disc = s.disc /\ r.sources = s.sources
        /\ r.epoch = s.epoch /\ r.next_seq = s.next_seq
        /\ r.pending = s.pending
    BY <1>3 DEF Present, Runtime
  <1> HIDE DEF r
  <1> QED
    BY <1>1, <1>4, TableMoves

\* Steering towards a complete time that the application sets.
LEMMA SteeredByMoves ==
  ASSUME NEW n \in Node, NEW t \in Nat, NEW s, Present(s, t), NEW time \in Partial
  PROVE  Moves(n, s, SteeredBy(s, time, t), t)
  <1>1. CASE Complete(time)
    <2>1. UnixOf(time) \in Int
      BY <1>1 DEF Complete, UnixOf, Partial
    <2> QED
      BY <1>1, <2>1, SteerMoves DEF SteeredBy
  <1>2. CASE ~Complete(time)
    BY <1>2, MovesReflexive DEF SteeredBy
  <1> QED
    BY <1>1, <1>2

\* Removing sources.
LEMMA WithoutMoves ==
  ASSUME NEW n \in Node, NEW t \in Nat, NEW s, Present(s, t), NEW names
  PROVE  Moves(n, s, Without(s, names), t)
  <1> DEFINE c == [a \in Names |-> IF a \in names THEN None ELSE s.clock[a]]
             r == [s EXCEPT !.clock = c]
  <1>1. Without(s, names) = r
    BY DEF Without
  <1>2. c \in [Names -> Named \cup {None}]
    BY RuntimeFields DEF Present
  <1> HIDE DEF c
  <1>3. /\ r \in Runtime /\ r.disc = s.disc /\ r.sources = s.sources
        /\ r.epoch = s.epoch /\ r.next_seq = s.next_seq
        /\ r.pending = s.pending
    BY <1>2 DEF Present, Runtime
  <1> HIDE DEF r
  <1> QED
    BY <1>1, <1>3, TableMoves

\* set_local_network_time.
LEMMA WithLocalMoves ==
  ASSUME NEW n \in Node, NEW t \in Nat, NEW s, Present(s, t), NEW p \in Partial
  PROVE  Moves(n, s, WithLocal(s, p, t), t)
  <1> DEFINE priority == IF s.cfg = None THEN 0 ELSE s.cfg.priority
             full == WithSource(s, "local_full", priority, p, FALSE, t)
             steered == SteeredBy(full, p, t)
             whole == Without(steered, {"local_date", "local_tod"})
             bare == Without(s, {"local_full"})
             dated == IF p.date = None THEN bare
               ELSE WithSource(bare, "local_date", priority, [p EXCEPT !.tod = None], FALSE, t)
             timed == IF p.tod = None THEN dated
               ELSE WithSource(dated, "local_tod", priority, [p EXCEPT !.date = None], FALSE, t)
  <1>1. WithLocal(s, p, t) \in {whole, timed}
    BY DEF WithLocal
  <1>2. priority \in Nat
    BY RuntimeFields DEF Present, Config
  <1>3. /\ "local_full" \in Names /\ "local_date" \in Names /\ "local_tod" \in Names
        /\ [p EXCEPT !.tod = None] \in Partial /\ [p EXCEPT !.date = None] \in Partial
    BY DEF Names, LocalNames, Partial
  <1> HIDE DEF priority
  <1>4. Moves(n, s, full, t)
    BY <1>2, <1>3, WithSourceMoves
  <1> HIDE DEF full
  <1>5. Moves(n, full, steered, t)
    BY <1>4, MovesPresent, SteeredByMoves
  <1> HIDE DEF steered
  <1>6. Moves(n, steered, whole, t)
    BY <1>5, MovesPresent, WithoutMoves
  <1>7. Moves(n, s, bare, t)
    BY WithoutMoves
  <1> HIDE DEF whole, bare
  <1>8. Moves(n, bare, dated, t)
    BY <1>2, <1>3, <1>7, MovesPresent, MovesReflexive, WithSourceMoves
  <1> HIDE DEF dated
  <1>9. Moves(n, dated, timed, t)
    BY <1>2, <1>3, <1>8, MovesPresent, MovesReflexive, WithSourceMoves
  <1> HIDE DEF timed
  <1>10. Moves(n, s, whole, t)
    <2>1. Moves(n, s, steered, t)
      BY <1>4, <1>5, MovesTransitive
    <2> QED
      BY <1>6, <2>1, MovesTransitive
  <1>11. Moves(n, s, timed, t)
    <2>1. Moves(n, s, dated, t)
      BY <1>7, <1>8, MovesTransitive
    <2> QED
      BY <1>9, <2>1, MovesTransitive
  <1> QED
    BY <1>1, <1>10, <1>11

\* A sample, whether from an announce or a response.
LEMMA SampledMoves ==
  ASSUME NEW n \in Node, NEW t \in Nat, NEW s, Present(s, t), NEW source \in Node,
         NEW priority \in Nat,
         NEW sample \in Int
  PROVE  /\ Moves(n, s, Sampled(s, source, priority, sample, t), t)
         /\ Sampled(s, source, priority, sample, t).remote[source].sample = sample
  <1> DEFINE e == [priority |-> priority, at |-> t, sample |-> sample]
             c == [s.remote EXCEPT ![source] = e]
             r == [s EXCEPT !.remote = c]
             w == WithSource(r, source, priority, FromUnix(sample), TRUE, t)
  <1>1. Sampled(s, source, priority, sample, t) = w
    BY RuntimeFields DEF Sampled, Present, Runtime
  <1>2. e \in Remote /\ e.sample = sample
    BY DEF Remote
  <1> HIDE DEF e
  <1>3. c \in [Node -> Remote \cup {None}] /\ c[source].sample = sample
    BY <1>2, RuntimeFields DEF Present
  <1> HIDE DEF c
  <1>4. /\ r \in Runtime /\ r.disc = s.disc /\ r.sources = s.sources
        /\ r.epoch = s.epoch /\ r.next_seq = s.next_seq
        /\ r.pending = s.pending /\ r.remote = c
    BY <1>3 DEF Present, Runtime
  <1> HIDE DEF r
  <1>5. Moves(n, s, r, t)
    BY <1>4, TableMoves
  <1>6. FromUnix(sample) \in Partial
    <2>1. (sample \div Day) \in Int /\ sample % Day \in Int /\ Day \in Int
      BY TimesAssumption
    <2>2. (sample \div Day) * Day \in Int
      BY <2>1
    <2> QED
      BY <2>1, <2>2 DEF FromUnix, Partial
  <1>7. Moves(n, r, w, t)
    BY <1>5, <1>6, MovesPresent, WithSourceMoves DEF Names
  <1>8. w.remote = c
    BY <1>4 DEF WithSource, Runtime
  <1> HIDE DEF w
  <1> QED
    BY <1>1, <1>3, <1>5, <1>7, <1>8, MovesTransitive

\* handle_announce.
LEMMA HandleAnnounceMoves ==
  ASSUME NEW n \in Node, NEW t \in Nat, NEW s, Present(s, t), NEW p \in Packet, p.ty = "announce",
         p.from # n
  PROVE  Moves(n, s, HandleAnnounce(s, p, t), t)
  <1> DEFINE e == [priority |-> p.priority, at |-> t]
             c == [s.sources EXCEPT ![p.from] = e]
             r == [s EXCEPT !.sources = c]
  <1>1. HandleAnnounce(s, p, t) = r
    BY RuntimeFields DEF HandleAnnounce, Present, Runtime
  <1>2. p.from \in Node /\ p.priority \in Nat
    BY DEF Packet
  <1>3. e \in Source
    BY <1>2 DEF Source
  <1> HIDE DEF e
  <1>4. c \in [Node -> Source \cup {None}] /\ c[n] = s.sources[n]
    BY <1>2, <1>3, RuntimeFields DEF Present
  <1> HIDE DEF c
  <1>5. /\ r \in Runtime /\ r.disc = s.disc /\ r.sources = c
        /\ r.epoch = s.epoch /\ r.next_seq = s.next_seq
        /\ r.pending = s.pending
    BY <1>4 DEF Present, Runtime
  <1> HIDE DEF r
  <1> QED
    BY <1>1, <1>4, <1>5, TableMoves

\* The announce branch.
LEMMA HeededMoves ==
  ASSUME NEW t \in Nat, NEW s, Present(s, t), NEW n \in Node, NEW p \in Packet, p.ty = "announce"
  PROVE  Moves(n, s, Heeded(n, s, p, t), t)
  <1> DEFINE a == Sampled(s, p.from, p.priority, p.time, t)
             b == [a EXCEPT !.disc = Steer(@, t, p.time)]
  <1>1. p.from \in Node /\ p.priority \in Nat /\ p.time \in Int
    BY DEF Packet
  <1>2. Heeded(n, s, p, t) \in {a, b}
    BY DEF Heeded
  <1>3. Moves(n, s, a, t)
    BY <1>1, SampledMoves
  <1> HIDE DEF a
  <1>4. Moves(n, a, b, t)
    BY <1>1, <1>3, MovesPresent, SteerMoves
  <1> HIDE DEF b
  <1> QED
    BY <1>2, <1>3, <1>4, MovesTransitive

\* The request branch: an answer carries the number of its request.
LEMMA AnsweredFacts ==
  ASSUME NEW t \in Nat, NEW s, Present(s, t), NEW n \in Node, NEW p \in Packet, p.ty = "request"
  PROVE  /\ Moves(n, s, Answered(n, s, p, t).state, t)
         /\ \A q \in Answered(n, s, p, t).sent :
              /\ q \in Packet /\ q.ty = "response" /\ q.from = n /\ q.to = p.from
              /\ q.seq = p.seq /\ q.at = t /\ q.epoch = p.epoch
  <1>1. CASE LeaderNow(n, s, t) # n
    <2>1. Answered(n, s, p, t) = Queued(s, {})
      BY <1>1 DEF Answered
    <2> QED
      BY <2>1, MovesReflexive DEF Queued
  <1>2. CASE LeaderNow(n, s, t) = n
    <2> DEFINE f == Refreshed(n, s, t)
               time == Timestamp(s, t)
               q == [ty |-> "response", from |-> n, to |-> p.from, seq |-> p.seq,
                     t3 |-> time, at |-> t, epoch |-> p.epoch]
    <2>1. Answered(n, s, p, t) = Queued(f, {q})
      BY <1>2 DEF Answered
    <2>2. Moves(n, s, f, t)
      BY RefreshedMoves
    <2>3. time \in Int
      BY TimestampType
    <2> HIDE DEF f, time
    <2>4. p.from \in Node /\ p.seq \in Nat /\ p.epoch \in Nat
      BY DEF Packet
    <2>5. /\ q \in Packet /\ q.ty = "response" /\ q.from = n /\ q.to = p.from
          /\ q.seq = p.seq /\ q.at = t /\ q.epoch = p.epoch
      BY <2>3, <2>4 DEF Packet
    <2> HIDE DEF q
    <2> QED
      BY <2>1, <2>2, <2>5 DEF Queued
  <1> QED
    BY <1>1, <1>2

\* The response branch: the sample is the estimate, and the request is done.
LEMMA AcceptsFacts ==
  ASSUME NEW n \in Node, NEW t \in Nat, NEW s, Present(s, t), s.cfg # None,
         NEW p \in Packet, p.ty = "response"
  PROVE  /\ Moves(n, s, Accepts(s, p, t), t)
         /\ ~Matches(s, p) => Accepts(s, p, t) = s
         /\ Matches(s, p) =>
              /\ s.pending \in Request
              /\ Accepts(s, p, t).remote[p.from].sample = Estimate(s.pending.t1, p.t3, t)
  <1>1. CASE ~Matches(s, p)
    BY <1>1, MovesReflexive DEF Accepts
  <1>2. CASE Matches(s, p)
    <2> DEFINE est == Estimate(s.pending.t1, p.t3, t)
               best == BestActive(s, t)
               priority == SamplePriority(s, best, p.from)
               a == Sampled(s, p.from, priority, est, t)
               b == [a EXCEPT !.disc = Steer(@, t, est)]
               r == [a EXCEPT !.disc = Steer(@, t, est), !.pending = None]
    <2>0. s \in Runtime /\ s.cfg \in Config
      BY RuntimeFields DEF Present
    <2>1. s.pending \in Request
      BY <1>2, <2>0, RuntimeFields DEF Matches
    <2>2. p.from \in Node /\ p.t3 \in Int
      BY DEF Packet
    <2>3. est \in Int
      <3>1. s.pending.t1 \in Nat
        BY <2>1 DEF Request
      <3> QED
        BY <2>2, <3>1 DEF Estimate
    <2>4. Accepts(s, p, t) = r
      BY <1>2 DEF Accepts, Synchronised
    <2>5. best # None => s.sources[best] \in Source
      BY <2>0, BestActiveFacts, RuntimeFields DEF ActiveSet, Active
    <2> HIDE DEF best, est
    <2>6. s.cfg.priority \in Nat
      BY <2>0 DEF Config
    <2>7. s.remote[p.from] # None => s.remote[p.from].priority \in Nat
      BY <2>0, <2>2, RuntimeFields DEF Remote
    <2>8. priority \in Nat
      BY <2>5, <2>6, <2>7 DEF SamplePriority, Source
    <2> HIDE DEF priority
    <2>9. Moves(n, s, a, t) /\ a.remote[p.from].sample = est
      BY <2>2, <2>3, <2>8, SampledMoves
    <2> HIDE DEF a
    <2>10. Present(a, t)
      BY <2>9, MovesPresent
    <2>11. Moves(n, a, b, t)
      BY <2>3, <2>10, SteerMoves
    <2>12. Moves(n, s, b, t)
      BY <2>9, <2>11, MovesTransitive
    <2>13. b \in Runtime /\ b.remote = a.remote
      BY <2>10, <2>11 DEF Moves, Present, Runtime
    <2>14. r = [b EXCEPT !.pending = None]
      BY <2>10 DEF Present, Runtime
    <2> HIDE DEF b, r
    <2>15. /\ r \in Runtime /\ r.disc = b.disc /\ r.sources = b.sources
           /\ r.epoch = b.epoch /\ r.next_seq = b.next_seq
           /\ r.pending = None /\ r.remote = b.remote
      BY <2>13, <2>14 DEF Runtime
    <2>16. Moves(n, b, r, t)
      BY <2>12, <2>15, MovesPresent, TableMoves
    <2>17. Moves(n, s, r, t)
      BY <2>12, <2>16, MovesTransitive
    <2> QED
      BY <1>2, <2>1, <2>4, <2>9, <2>13, <2>15, <2>17 DEF est
  <1> QED
    BY <1>1, <1>2

-----------------------------------------------------------------------------
(***************************************************************************)
(* The invariant.                                                          *)
(***************************************************************************)

\* Types; clocks were not steered in the future, and no router hears itself.
TypeInv ==
  /\ now \in Nat /\ node \in [Node -> Runtime] /\ net \subseteq Packet
  /\ \A n \in Node : node[n].disc.mono <= now
  /\ \A p \in net : p.from # p.to
  /\ \A n \in Node : node[n].sources[n] = None

\* The outstanding request of a runtime has an old number.
Numbered(s, t) ==
  s.pending # None => s.pending.seq < s.next_seq /\ s.pending.t1 <= t

\* A request that is on its way and has the number of the outstanding one of
\* its sender s is that one.
Asks(p, s, t) ==
  /\ p.t1 <= t /\ p.epoch <= s.epoch
  /\ p.epoch = s.epoch =>
       /\ p.seq < s.next_seq
       /\ s.pending # None /\ s.pending.seq = p.seq => s.pending.t1 = p.t1

\* A response with the number of the outstanding request of its receiver s was
\* made after that request.
Answers(p, s, t) ==
  /\ p.at <= t /\ p.epoch <= s.epoch
  /\ p.epoch = s.epoch =>
       /\ p.seq < s.next_seq
       /\ s.pending # None /\ s.pending.seq = p.seq => s.pending.t1 <= p.at

\* A runtime that moves keeps an old number for its outstanding request.
LEMMA NumberedMoves ==
  ASSUME NEW n \in Node, NEW t \in Nat, NEW s, NEW r, Present(s, t), Numbered(s, t), Moves(n,
         s, r, t)
  PROVE  Numbered(r, t)
  <1>1. s.next_seq \in Nat /\ r.next_seq \in Nat /\ s.next_seq <= r.next_seq
    BY RuntimeFields DEF Present, Moves
  <1>2. ASSUME r.pending # None
        PROVE  r.pending.seq \in Nat /\ r.pending.t1 \in Nat
    BY <1>2, RuntimeFields DEF Moves, Request
  <1> QED
    BY <1>1, <1>2 DEF Numbered, Moves

\* Requests on their way still fit their sender after it moved.
LEMMA AsksMoves ==
  ASSUME NEW n \in Node, NEW t \in Nat, NEW s, NEW r, Present(s, t), Moves(n, s, r, t),
         NEW p \in Packet, p.ty = "request", Asks(p, s, t)
  PROVE  Asks(p, r, t)
  <1>1. /\ s.next_seq \in Nat /\ r.next_seq \in Nat /\ s.next_seq <= r.next_seq
        /\ r.epoch = s.epoch
    BY RuntimeFields DEF Present, Moves
  <1>2. p.seq \in Nat
    BY DEF Packet
  <1> QED
    BY <1>1, <1>2 DEF Asks, Moves

\* Responses on their way still fit their receiver after it moved.
LEMMA AnswersMoves ==
  ASSUME NEW n \in Node, NEW t \in Nat, NEW s, NEW r, Present(s, t), Moves(n, s, r, t),
         NEW p \in Packet, p.ty = "response", Answers(p, s, t)
  PROVE  Answers(p, r, t)
  <1>1. /\ s.next_seq \in Nat /\ r.next_seq \in Nat /\ s.next_seq <= r.next_seq
        /\ r.epoch = s.epoch
    BY RuntimeFields DEF Present, Moves
  <1>2. p.seq \in Nat
    BY DEF Packet
  <1> QED
    BY <1>1, <1>2 DEF Answers, Moves

\* A new runtime.
LEMMA NewRuntimeType ==
  ASSUME NEW cfg \in Config \cup {None}, NEW static \in BOOLEAN
  PROVE  /\ NewRuntime(cfg, static) \in Runtime
         /\ \A m \in Node : NewRuntime(cfg, static).sources[m] = None
         /\ NewRuntime(cfg, static).disc = Unset /\ NewRuntime(cfg, static).pending = None
  <1>1. Unset \in Clocks
    BY DEF Unset, Clocks
  <1> QED
    BY <1>1 DEF NewRuntime, Runtime

\* ... and one after set_timesync_config.
LEMMA SetConfigType ==
  ASSUME TypeInv, NEW n \in Node, SetConfig(n)
  PROVE  LET r == node'[n] IN
         /\ r \in Runtime /\ node' = [node EXCEPT ![n] = r]
         /\ \A m \in Node : r.sources[m] = None
         /\ r.disc = Unset /\ r.pending = None /\ r.epoch = node[n].epoch + 1
  <1>1. PICK c \in NewConfigs : node' = [node EXCEPT ![n] =
          [NewRuntime(c, node[n].static) EXCEPT !.epoch = node[n].epoch + 1, !.clock =
            [a \in Names |-> IF a \in LocalNames \/ (a \in Node /\ node[n].remote[a] # None)
                               THEN None ELSE node[n].clock[a]]]]
    BY DEF SetConfig
  <1> DEFINE s == node[n]
             k == [a \in Names |-> IF a \in LocalNames \/ (a \in Node /\ s.remote[a] # None)
                               THEN None ELSE s.clock[a]]
             f == NewRuntime(c, s.static)
             r == [f EXCEPT !.epoch = s.epoch + 1, !.clock = k]
  <1>2. s \in Runtime /\ c \in Config \cup {None}
    BY SettingsAssumption DEF TypeInv
  <1>3. node' = [node EXCEPT ![n] = r] /\ node'[n] = r
    BY <1>1 DEF TypeInv
  <1> HIDE DEF s
  <1>4. /\ f \in Runtime /\ f.disc = Unset /\ f.pending = None
        /\ \A m \in Node : f.sources[m] = None
    BY <1>2, RuntimeFields, NewRuntimeType
  <1>5. k \in [Names -> Named \cup {None}] /\ s.epoch + 1 \in Nat
    BY <1>2, RuntimeFields
  <1> HIDE DEF f, k
  <1>6. /\ r \in Runtime /\ r.disc = Unset /\ r.pending = None /\ r.epoch = s.epoch + 1
        /\ \A m \in Node : r.sources[m] = None
    BY <1>4, <1>5 DEF Runtime
  <1> QED
    BY <1>3, <1>6 DEF s

\* The initial runtimes.
LEMMA InitType ==
  ASSUME Init
  PROVE  TypeInv /\ \A n \in Node : Numbered(node[n], now)
  <1>1. PICK u \in Setups : node = [n \in Node |->
          LET s == NewRuntime(u[n].cfg, u[n].cfg # None)
          IN IF u[n].local = None THEN s ELSE WithLocal(s, u[n].local, 0)]
    BY DEF Init
  <1>2. ASSUME NEW n \in Node
        PROVE  node[n] \in Runtime /\ node[n].disc.mono <= 0 /\ Numbered(node[n], 0)
               /\ node[n].sources[n] = None
    <2> DEFINE s == NewRuntime(u[n].cfg, u[n].cfg # None)
    <2>1. node[n] = IF u[n].local = None THEN s ELSE WithLocal(s, u[n].local, 0)
      BY <1>1
    <2>2. u[n].cfg \in Config \cup {None} /\ u[n].local \in Partial \cup {None}
      BY SettingsAssumption
    <2>3. (u[n].cfg # None) \in BOOLEAN
      OBVIOUS
    <2>4. s \in Runtime /\ s.disc = Unset /\ s.pending = None /\ s.sources[n] = None
      BY <2>2, <2>3, NewRuntimeType
    <2> HIDE DEF s
    <2>5. Present(s, 0)
      BY <2>4 DEF Present, Unset
    <2>6. Moves(n, s, node[n], 0)
      BY <2>1, <2>2, <2>5, WithLocalMoves, MovesReflexive
    <2>7. Present(node[n], 0)
      BY <2>6, MovesPresent
    <2>8. Numbered(node[n], 0)
      <3>1. Numbered(s, 0)
        BY <2>4 DEF Numbered
      <3> QED
        BY <2>5, <2>6, <3>1, NumberedMoves
    <2>9. node[n].sources[n] = None
      BY <2>4, <2>6 DEF Moves
    <2> QED
      BY <2>7, <2>8, <2>9 DEF Present
  <1> QED
    BY <1>1, <1>2 DEF Init, TypeInv

\* A step of router n at time `now': its runtime moves, a new request on the
\* network is its own, and a new response answers a request.
Changes(n) ==
  /\ now' = now
  /\ node' = [node EXCEPT ![n] = node'[n]]
  /\ Moves(n, node[n], node'[n], now)
  /\ \A p \in net' \ net :
       /\ p \in Packet /\ p.from # p.to
       /\ p.ty = "request" => /\ p.from = n /\ p.epoch = node[n].epoch /\ p.t1 = now
                              /\ node[n].next_seq <= p.seq /\ p.seq < node'[n].next_seq
       /\ p.ty = "response" => \E q \in net : /\ q.ty = "request" /\ p.to = q.from
                                              /\ p.seq = q.seq /\ p.at = now /\ p.epoch = q.epoch

\* Becoming what a poll of a moved runtime yields.
LEMMA IssuesChanges ==
  ASSUME TypeInv, NEW n \in Node, NEW q, NEW taken, Becomes(n, q, taken),
         Issues(n, node[n], q, now)
  PROVE  Changes(n)
  <1>1. node' = [node EXCEPT ![n] = q.state] /\ node'[n] = q.state /\ now' = now
    BY DEF TypeInv, Becomes
  <1>2. \A p \in net' \ net : p \in q.sent
    BY DEF Becomes
  <1> QED
    BY <1>1, <1>2 DEF Issues, Changes

\* Changing a runtime and sending nothing.
LEMMA QuietChanges ==
  ASSUME TypeInv, NEW n \in Node, NEW r, node' = [node EXCEPT ![n] = r], Moves(n, node[n], r, now),
         now' = now, net' \subseteq net
  PROVE  Changes(n)
  <1>1. node'[n] = r
    BY DEF TypeInv
  <1> QED
    BY <1>1 DEF Changes

\* Every step lets time pass, changes one runtime or gives it a new configuration.
LEMMA StepKinds ==
  ASSUME TypeInv, Next
  PROVE  \/ Tick
         \/ \E n \in Node : Changes(n)
         \/ \E n \in Node : SetConfig(n)
  <1>0. now \in Nat /\ \A n \in Node : Present(node[n], now)
    BY DEF TypeInv, Present
  <1>1. Step /\ Operated \subseteq Node
    BY SettingsAssumption DEF Next
  <1>2. ASSUME NEW n \in Node, Poll(n)
        PROVE  Changes(n)
    BY <1>0, <1>2, PolledIssues, IssuesChanges DEF Poll
  <1>3. ASSUME NEW n \in Node, ReadTime(n)
        PROVE  Changes(n)
    <2>1. Moves(n, node[n], Refreshed(n, node[n], now), now)
      BY <1>0, RefreshedMoves
    <2>2. /\ node' = [node EXCEPT ![n] = Refreshed(n, node[n], now)]
          /\ now' = now /\ net' \subseteq net
      BY <1>3 DEF ReadTime
    <2> QED
      BY <2>1, <2>2, QuietChanges
  <1>4. ASSUME NEW n \in Node, ClearSources(n)
        PROVE  Changes(n)
    <2>1. PICK names \in {LocalNames, {"user"}} :
            /\ node' = [node EXCEPT ![n] = Without(node[n], names)]
            /\ now' = now /\ net' \subseteq net
      BY <1>4 DEF ClearSources
    <2>2. Moves(n, node[n], Without(node[n], names), now)
      BY <1>0, WithoutMoves
    <2> QED
      BY <2>1, <2>2, QuietChanges
  <1>5. ASSUME NEW n \in Node, NEW p \in net, ReceiveAnnounce(n, p)
        PROVE  Changes(n)
    <2> DEFINE a == Pruned(node[n], now)
               b == HandleAnnounce(a, p, now)
               c == Heeded(n, b, p, now)
               q == Polled(n, c, now)
    <2>1. p \in Packet /\ p.ty = "announce" /\ p.from # n /\ Becomes(n, q, {p})
      BY <1>5 DEF ReceiveAnnounce, TypeInv
    <2>2. Moves(n, node[n], a, now) /\ Present(a, now)
      BY <1>0, PrunedMoves, MovesPresent
    <2> HIDE DEF a
    <2>3. Moves(n, a, b, now) /\ Present(b, now)
      BY <1>0, <2>1, <2>2, HandleAnnounceMoves, MovesPresent
    <2> HIDE DEF b
    <2>4. Moves(n, b, c, now) /\ Present(c, now)
      BY <1>0, <2>1, <2>3, HeededMoves, MovesPresent
    <2> HIDE DEF c
    <2>5. Issues(n, c, q, now)
      BY <1>0, <2>4, PolledIssues
    <2> HIDE DEF q
    <2>6. Moves(n, node[n], b, now)
      BY <1>0, <2>2, <2>3, MovesTransitive
    <2>7. Moves(n, node[n], c, now)
      BY <1>0, <2>4, <2>6, MovesTransitive
    <2>8. Issues(n, node[n], q, now)
      BY <1>0, <2>5, <2>7, MovesIssues
    <2> QED
      BY <2>1, <2>8, IssuesChanges
  <1>6. ASSUME NEW n \in Node, NEW p \in net, ReceiveRequest(n, p)
        PROVE  Changes(n)
    <2> DEFINE a == Pruned(node[n], now)
               q == Answered(n, a, p, now)
    <2>1. p \in Packet /\ p.ty = "request" /\ p.from # n /\ Becomes(n, q, {p})
      BY <1>6 DEF ReceiveRequest, TypeInv
    <2>2. Moves(n, node[n], a, now) /\ Present(a, now)
      BY <1>0, PrunedMoves, MovesPresent
    <2> HIDE DEF a
    <2>3. /\ Moves(n, a, q.state, now)
          /\ \A r \in q.sent : /\ r \in Packet /\ r.ty = "response" /\ r.from = n /\ r.to = p.from
                               /\ r.seq = p.seq /\ r.at = now /\ r.epoch = p.epoch
      BY <1>0, <2>1, <2>2, AnsweredFacts
    <2> HIDE DEF q
    <2>4. Moves(n, node[n], q.state, now)
      BY <1>0, <2>2, <2>3, MovesTransitive
    <2>5. node' = [node EXCEPT ![n] = q.state] /\ node'[n] = q.state /\ now' = now
      BY <2>1 DEF TypeInv, Becomes
    <2>6. \A r \in net' \ net : r \in q.sent
      BY <2>1 DEF Becomes
    <2> QED
      BY <2>1, <2>3, <2>4, <2>5, <2>6 DEF Changes
  <1>7. ASSUME NEW n \in Node, NEW p \in net, ReceiveResponse(n, p)
        PROVE  Changes(n)
    <2> DEFINE a == Pruned(node[n], now)
               b == Accepts(a, p, now)
    <2>1. /\ p \in Packet /\ p.ty = "response" /\ node[n].cfg # None
          /\ Becomes(n, Queued(b, {}), {p})
      BY <1>7 DEF ReceiveResponse, TypeInv
    <2>2. Moves(n, node[n], a, now) /\ Present(a, now) /\ a.cfg # None
      BY <1>0, <2>1, PrunedMoves, MovesPresent
    <2> HIDE DEF a
    <2>3. Moves(n, a, b, now)
      BY <1>0, <2>1, <2>2, AcceptsFacts
    <2> HIDE DEF b
    <2>4. Moves(n, node[n], b, now)
      BY <1>0, <2>2, <2>3, MovesTransitive
    <2>5. node' = [node EXCEPT ![n] = b] /\ now' = now /\ net' \subseteq net
      BY <2>1 DEF Becomes, Queued
    <2> QED
      BY <2>4, <2>5, QuietChanges
  <1>8. ASSUME NEW p \in net, Discard(p)
        PROVE  \E n \in Node : Changes(n)
    <2> DEFINE s == node[p.to]
               r == IF s.static /\ s.cfg = None THEN Pruned(s, now) ELSE s
    <2>1. p.to \in Node
      BY DEF TypeInv, Packet
    <2>2. node' = [node EXCEPT ![p.to] = r] /\ now' = now /\ net' \subseteq net
      BY <1>8 DEF Discard
    <2>3. Moves(p.to, s, r, now)
      BY <1>0, <2>1, PrunedMoves, MovesReflexive
    <2> HIDE DEF r
    <2> QED
      BY <2>1, <2>2, <2>3, QuietChanges
  <1>9. ASSUME NEW n \in Node, NEW p \in Partials, SetLocal(n, p)
        PROVE  Changes(n)
    <2>1. p \in Partial
      BY SettingsAssumption
    <2>2. Moves(n, node[n], WithLocal(node[n], p, now), now)
      BY <1>0, <2>1, WithLocalMoves
    <2>3. /\ node' = [node EXCEPT ![n] = WithLocal(node[n], p, now)]
          /\ now' = now /\ net' \subseteq net
      BY <1>9 DEF SetLocal
    <2> QED
      BY <2>2, <2>3, QuietChanges
  <1>10. ASSUME NEW n \in Node, NEW u \in UserSources, UpdateSource(n, u)
         PROVE  Changes(n)
    <2> DEFINE a == WithSource(node[n], "user", u.priority, u.time, u.ttl, now)
               b == SteeredBy(a, u.time, now)
    <2>1. u.priority \in Nat /\ u.time \in Partial /\ u.ttl \in BOOLEAN /\ "user" \in Names
      BY SettingsAssumption DEF Names
    <2>2. Moves(n, node[n], a, now) /\ Present(a, now)
      BY <1>0, <2>1, WithSourceMoves, MovesPresent
    <2>3. node' = [node EXCEPT ![n] = b] /\ now' = now /\ net' \subseteq net
      BY <1>10 DEF UpdateSource
    <2> HIDE DEF a
    <2>4. Moves(n, a, b, now)
      BY <1>0, <2>1, <2>2, SteeredByMoves
    <2> HIDE DEF b
    <2>5. Moves(n, node[n], b, now)
      BY <1>0, <2>2, <2>4, MovesTransitive
    <2> QED
      BY <2>3, <2>5, QuietChanges
  <1> QED
    BY <1>1, <1>2, <1>3, <1>4, <1>5, <1>6, <1>7, <1>8, <1>9, <1>10 DEF Step

\* The inductive invariant: requests and responses on their way against the
\* numbers of the runtimes they were sent by or for.
TimeInv ==
  /\ TypeInv
  /\ \A n \in Node : Numbered(node[n], now)
  /\ \A p \in net : p.ty = "request" => Asks(p, node[p.from], now)
  /\ \A p \in net : p.ty = "response" => Answers(p, node[p.to], now)

\* Time passing keeps it.
LEMMA TimeInvTick ==
  ASSUME TimeInv, Tick
  PROVE  TimeInv'
  <1>1. now \in Nat /\ now' = now + 1 /\ node' = node /\ net' = net
    BY DEF TimeInv, TypeInv, Tick
  <1>2. TypeInv'
    <2>1. ASSUME NEW n \in Node
          PROVE  node[n].disc.mono <= now + 1
      <3>1. node[n].disc.mono \in Nat /\ node[n].disc.mono <= now
        BY RuntimeFields DEF TimeInv, TypeInv, Clocks
      <3> QED
        BY <1>1, <3>1
    <2> QED
      BY <1>1, <2>1 DEF TimeInv, TypeInv
  <1>3. ASSUME NEW n \in Node
        PROVE  Numbered(node[n], now + 1)
    <2>1. node[n].pending # None => node[n].pending.t1 \in Nat
      BY RuntimeFields DEF TimeInv, TypeInv, Request
    <2> QED
      BY <1>1, <2>1 DEF TimeInv, Numbered
  <1>4. ASSUME NEW p \in net, p.ty = "request"
        PROVE  Asks(p, node[p.from], now + 1)
    <2>1. p.t1 \in Nat
      BY <1>4 DEF TimeInv, TypeInv, Packet
    <2> QED
      BY <1>1, <1>4, <2>1 DEF TimeInv, Asks
  <1>5. ASSUME NEW p \in net, p.ty = "response"
        PROVE  Answers(p, node[p.to], now + 1)
    <2>1. p.at \in Nat
      BY <1>5 DEF TimeInv, TypeInv, Packet
    <2> QED
      BY <1>1, <1>5, <2>1 DEF TimeInv, Answers
  <1> QED
    BY <1>1, <1>2, <1>3, <1>4, <1>5 DEF TimeInv

\* A step of one router keeps it.
LEMMA TimeInvChanges ==
  ASSUME TimeInv, NEW n \in Node, Changes(n)
  PROVE  TimeInv'
  <1>0. /\ now \in Nat /\ now' = now /\ node \in [Node -> Runtime] /\ net \subseteq Packet
        /\ node' = [node EXCEPT ![n] = node'[n]]
    BY DEF TimeInv, TypeInv, Changes
  <1>1. \A m \in Node : Present(node[m], now)
    BY DEF TimeInv, TypeInv, Present
  <1>2. ASSUME NEW m \in Node
        PROVE  Moves(m, node[m], node'[m], now)
    BY <1>0, <1>1, MovesReflexive DEF Changes
  <1>3. \A m \in Node : Present(node'[m], now)
    BY <1>0, <1>2, MovesPresent
  <1>4. TypeInv'
    <2>1. node' \in [Node -> Runtime]
      BY <1>0, <1>3 DEF Present
    <2>2. \A p \in net' : p \in Packet /\ p.from # p.to
      BY DEF TimeInv, TypeInv, Changes
    <2>3. \A m \in Node : node'[m].sources[m] = None
      BY <1>2 DEF TimeInv, TypeInv, Moves
    <2> QED
      BY <1>0, <1>3, <2>1, <2>2, <2>3 DEF TypeInv, Present
  <1>5. \A m \in Node : Numbered(node'[m], now)
    BY <1>0, <1>1, <1>2, NumberedMoves DEF TimeInv
  <1>6. ASSUME NEW p \in net, p.ty = "request"
        PROVE  Asks(p, node'[p.from], now)
    <2>1. p \in Packet /\ p.from \in Node
      BY <1>0, <1>6 DEF Packet
    <2>2. Asks(p, node[p.from], now)
      BY <1>6 DEF TimeInv
    <2> QED
      BY <1>0, <1>1, <1>2, <1>6, <2>1, <2>2, AsksMoves
  <1>7. ASSUME NEW p \in net, p.ty = "response"
        PROVE  Answers(p, node'[p.to], now)
    <2>1. p \in Packet /\ p.to \in Node
      BY <1>0, <1>7 DEF Packet
    <2>2. Answers(p, node[p.to], now)
      BY <1>7 DEF TimeInv
    <2> QED
      BY <1>0, <1>1, <1>2, <1>7, <2>1, <2>2, AnswersMoves
  <1>8. ASSUME NEW p \in net' \ net, p.ty = "request"
        PROVE  Asks(p, node'[p.from], now)
    <2> DEFINE s == node[n]
               r == node'[n]
    <2>1. /\ p \in Packet /\ p.from = n /\ p.epoch = s.epoch /\ p.t1 = now
          /\ s.next_seq <= p.seq /\ p.seq < r.next_seq
      BY <1>8 DEF Changes
    <2>2. Moves(n, s, r, now) /\ Numbered(s, now) /\ s \in Runtime /\ r \in Runtime
      BY <1>0, <1>2, <1>4 DEF TimeInv, TypeInv
    <2> HIDE DEF s, r
    <2>3. /\ p.seq \in Nat /\ s.next_seq \in Nat /\ r.epoch = s.epoch /\ s.epoch \in Nat
      BY <1>8, <2>1, <2>2, RuntimeFields DEF Packet, Moves
    <2>4. ASSUME r.pending # None, r.pending.seq = p.seq
          PROVE  r.pending.t1 = now
      <3>1. r.pending # s.pending
        BY <2>1, <2>2, <2>3, <2>4 DEF Numbered
      <3> QED
        BY <2>2, <2>4, <3>1 DEF Moves
    <2>5. Asks(p, r, now)
      BY <1>0, <2>1, <2>3, <2>4 DEF Asks
    <2> QED
      BY <2>1, <2>5 DEF r
  <1>9. ASSUME NEW p \in net' \ net, p.ty = "response"
        PROVE  Answers(p, node'[p.to], now)
    <2>1. PICK q \in net : /\ q.ty = "request" /\ p.to = q.from
                           /\ p.seq = q.seq /\ p.at = now /\ p.epoch = q.epoch
      BY <1>9 DEF Changes
    <2>2. Asks(q, node'[q.from], now)
      BY <1>6, <2>1
    <2>3. q.t1 \in Nat
      BY <1>0, <2>1 DEF Packet
    <2> QED
      BY <1>0, <2>1, <2>2, <2>3 DEF Asks, Answers
  <1>10. \A p \in net' : p.ty = "request" => Asks(p, node'[p.from], now)
    BY <1>6, <1>8
  <1>11. \A p \in net' : p.ty = "response" => Answers(p, node'[p.to], now)
    BY <1>7, <1>9
  <1> QED
    BY <1>0, <1>4, <1>5, <1>10, <1>11 DEF TimeInv

\* A new configuration numbers from one again, in a new epoch.
LEMMA TimeInvSetConfig ==
  ASSUME TimeInv, NEW n \in Node, SetConfig(n)
  PROVE  TimeInv'
  <1> DEFINE r == node'[n]
  <1>0. /\ now \in Nat /\ now' = now /\ node \in [Node -> Runtime] /\ net' = net
        /\ net \subseteq Packet
    BY DEF TimeInv, TypeInv, SetConfig
  <1>1. /\ r \in Runtime /\ node' = [node EXCEPT ![n] = r] /\ \A m \in Node : r.sources[m] = None
        /\ r.disc = Unset /\ r.pending = None /\ r.epoch = node[n].epoch + 1
    BY SetConfigType DEF TimeInv
  <1> HIDE DEF r
  <1>2. \A m \in Node : node'[m] = IF m = n THEN r ELSE node[m]
    BY <1>0, <1>1
  <1>3. node[n].epoch \in Nat /\ r.disc.mono = 0
    BY <1>0, <1>1, RuntimeFields DEF Unset
  <1>4. TypeInv'
    <2>1. node' \in [Node -> Runtime]
      BY <1>0, <1>1
    <2>2. \A m \in Node : node'[m].disc.mono <= now /\ node'[m].sources[m] = None
      BY <1>0, <1>1, <1>2, <1>3 DEF TimeInv, TypeInv
    <2> QED
      BY <1>0, <2>1, <2>2 DEF TimeInv, TypeInv
  <1>5. \A m \in Node : Numbered(node'[m], now)
    BY <1>1, <1>2 DEF TimeInv, Numbered
  <1>6. ASSUME NEW p \in net, p.ty = "request"
        PROVE  Asks(p, node'[p.from], now)
    <2>1. p.from \in Node /\ p.epoch \in Nat
      BY <1>0, <1>6 DEF Packet
    <2>2. Asks(p, node[p.from], now)
      BY <1>6 DEF TimeInv
    <2> QED
      BY <1>1, <1>2, <1>3, <2>1, <2>2 DEF Asks
  <1>7. ASSUME NEW p \in net, p.ty = "response"
        PROVE  Answers(p, node'[p.to], now)
    <2>1. p.to \in Node /\ p.epoch \in Nat
      BY <1>0, <1>7 DEF Packet
    <2>2. Answers(p, node[p.to], now)
      BY <1>7 DEF TimeInv
    <2> QED
      BY <1>1, <1>2, <1>3, <2>1, <2>2 DEF Answers
  <1> QED
    BY <1>0, <1>4, <1>5, <1>6, <1>7 DEF TimeInv

\* The invariant holds in every reachable state.
THEOREM TimeSyncInvariant == Spec => []TimeInv
  <1>1. Init => TimeInv
    <2> SUFFICES ASSUME Init PROVE TimeInv
      OBVIOUS
    <2>1. net = {}
      BY DEF Init
    <2> QED
      BY <2>1, InitType DEF TimeInv
  <1>2. TimeInv /\ [Next]_vars => TimeInv'
    <2> SUFFICES ASSUME TimeInv, [Next]_vars PROVE TimeInv'
      OBVIOUS
    <2>1. CASE Next
      <3>1. TypeInv
        BY DEF TimeInv
      <3> QED
        BY <2>1, <3>1, StepKinds, TimeInvTick, TimeInvChanges, TimeInvSetConfig
    <2>2. CASE UNCHANGED vars
      BY <2>2 DEF vars, TimeInv, TypeInv
    <2> QED
      BY <2>1, <2>2
  <1> QED
    BY <1>1, <1>2, PTL DEF Spec

-----------------------------------------------------------------------------
(***************************************************************************)
(* The theorems.                                                           *)
(***************************************************************************)

\* The disciplined clock of every router, whatever the other routers, the network
\* and the application do: steer_unix_ms never steps it, between two steers
\* read_unix_ns never goes back and stays below twice the monotonic rate.
THEOREM NeverStepped == Spec => Continuous
  <1> DEFINE Smooth ==
        \A n \in Node :
          LET old == node[n].disc  new == node'[n].disc IN
          old.initialized /\ new.initialized
            => /\ ReadUnix(new, now') >= ReadUnix(old, now)
               /\ ReadUnix(new, now') - ReadUnix(old, now) <= 2 * (now' - now)
  <1>1. ASSUME TimeInv, Next
        PROVE  Smooth
    <2>0. /\ now \in Nat /\ TypeInv
          /\ \A n \in Node : node[n] \in Runtime /\ Present(node[n], now)
      BY <1>1 DEF TimeInv, TypeInv, Present
    <2>1. \A n \in Node : /\ node[n].disc \in Clocks /\ node[n].disc.mono <= now
                          /\ ReadUnix(node[n].disc, now) \in Int
      BY <2>0, RuntimeFields, ReadFacts DEF Present
    <2>2. CASE Tick
      <3>1. now' = now + 1 /\ node' = node
        BY <2>2 DEF Tick
      <3>2. ASSUME NEW n \in Node
            PROVE  LET old == node[n].disc IN
                   /\ ReadUnix(old, now + 1) >= ReadUnix(old, now)
                   /\ ReadUnix(old, now + 1) - ReadUnix(old, now) <= 2 * ((now + 1) - now)
        <4> DEFINE old == node[n].disc
        <4>1. old \in Clocks /\ old.mono <= now /\ old.mono \in Nat
          BY <2>1 DEF Clocks
        <4> HIDE DEF old
        <4>2. ReadUnix(old, now) <= ReadUnix(old, now + 1)
                /\ ReadUnix(old, now + 1) <= ReadUnix(old, now) + 2
          BY <2>0, <4>1, ReadRuns
        <4>3. old.mono <= now + 1 /\ now + 1 \in Nat
          BY <2>0, <4>1
        <4>4. ReadUnix(old, now) \in Int /\ ReadUnix(old, now + 1) \in Int
          BY <2>0, <4>1, <4>3, ReadFacts
        <4>5. ReadUnix(old, now + 1) >= ReadUnix(old, now)
                /\ ReadUnix(old, now + 1) - ReadUnix(old, now) <= 2 * ((now + 1) - now)
          BY <2>0, <4>2, <4>4
        <4> QED
          BY <4>5 DEF old
      <3> QED
        BY <3>1, <3>2
    <2>3. ASSUME now' = now,
                 \A n \in Node : LET old == node[n].disc  new == node'[n].disc IN
                   old.initialized /\ new.initialized => ReadUnix(new, now) = ReadUnix(old, now)
          PROVE  Smooth
      <3>1. ASSUME NEW x \in Int
            PROVE  x >= x /\ x - x <= 2 * (now - now)
        BY <2>0
      <3> QED
        BY <2>1, <2>3, <3>1
    <2>4. ASSUME NEW n \in Node, Changes(n)
          PROVE  Smooth
      <3>1. now' = now /\ node' = [node EXCEPT ![n] = node'[n]] /\ Moves(n, node[n], node'[n], now)
        BY <2>4 DEF Changes
      <3>2. \A m \in Node : m # n => node'[m] = node[m]
        BY <2>0, <3>1 DEF TypeInv
      <3>3. node[n].disc.initialized => ReadUnix(node'[n].disc, now) = ReadUnix(node[n].disc, now)
        BY <3>1 DEF Moves, Slews
      <3> HIDE DEF Smooth
      <3> QED
        BY <2>3, <3>1, <3>2, <3>3
    <2>5. ASSUME NEW n \in Node, SetConfig(n)
          PROVE  Smooth
      <3>1. now' = now
        BY <2>5 DEF SetConfig
      <3>2. node' = [node EXCEPT ![n] = node'[n]] /\ node'[n].disc = Unset
        BY <2>0, <2>5, SetConfigType
      <3>3. \A m \in Node : m # n => node'[m] = node[m]
        BY <2>0, <3>2 DEF TypeInv
      <3>4. ~node'[n].disc.initialized
        BY <3>2 DEF Unset
      <3> HIDE DEF Smooth
      <3> QED
        BY <2>3, <3>1, <3>3, <3>4
    <2> HIDE DEF Smooth
    <2> QED
      BY <1>1, <2>0, <2>2, <2>4, <2>5, StepKinds
  <1>2. TimeInv /\ [Next]_vars => [Smooth]_vars
    BY <1>1
  <1> QED
    BY <1>2, TimeSyncInvariant, PTL DEF Spec, Continuous

\* A router that leads is better than any router it has heard under that one's
\* configuration, by priority and then by sender id.
LEMMA LeaderBeats ==
  ASSUME TypeInv, NEW n \in Node, NEW m \in Node, m # n, Heard(n, m),
         LeaderNow(n, node[n], now) = n
  PROVE  /\ node[n].cfg.priority \in Nat /\ node[m].cfg.priority \in Nat
         /\ \/ node[n].cfg.priority < node[m].cfg.priority
            \/ node[n].cfg.priority = node[m].cfg.priority /\ Rank[n] < Rank[m]
  <1> DEFINE s == node[n]
             c == node[m].cfg.priority
             best == BestActive(s, now)
             usable == Usable(s, now)
  <1>0. now \in Nat /\ s \in Runtime /\ s.sources[n] = None
    BY DEF TypeInv
  <1>1. s.cfg \in Config /\ s.cfg # None
    BY <1>0, LeaderConfigured, NoneAssumption
  <1>2. node[m].cfg \in Config
    BY RuntimeFields DEF TypeInv, Heard
  <1>3. s.cfg.priority \in Nat /\ c \in Nat
    BY <1>1, <1>2 DEF Config
  <1>4. m \in ActiveSet(s, now) /\ s.sources[m].priority \in {c, Max({c - 1, 0})}
    BY DEF Heard, ActiveSet
  <1>5. Elected(n, s, best, usable) = n
    BY DEF LeaderNow, Leader
  <1> HIDE DEF c, s, usable
  <1>6. /\ best \in ActiveSet(s, now)
        /\ \/ s.sources[best].priority < s.sources[m].priority
           \/ s.sources[best].priority = s.sources[m].priority /\ Rank[best] <= Rank[m]
    BY <1>0, <1>4, BestActiveFacts
  <1> HIDE DEF best
  <1>7. best \in Node /\ s.sources[best] # None
    BY <1>6 DEF ActiveSet, Active
  <1>8. best # n /\ best # None
    BY <1>0, <1>7, NoneAssumption
  <1>9. Beats(n, s, best)
    BY <1>1, <1>5, <1>8 DEF Elected
  <1>10. s.sources[best].priority \in Nat /\ s.sources[m].priority \in Nat
    BY <1>0, <1>4, <1>7, RuntimeFields DEF Source, ActiveSet, Active
  <1>11. Rank[n] \in Nat /\ Rank[m] \in Nat /\ Rank[best] \in Nat
    BY <1>7, RankAssumption DEF Names
  <1>12. s.sources[m].priority <= c
    <2> DEFINE x == c - 1
    <2>1. x \in Int /\ 0 \in Int /\ x < c /\ 0 <= c
      BY <1>3
    <2>2. s.sources[m].priority \in {c, Max({x, 0})}
      BY <1>4
    <2> HIDE DEF x
    <2>3. Max({x, 0}) = IF x >= 0 THEN x ELSE 0
      BY <2>1, MinMaxOfTwo
    <2> QED
      BY <1>3, <2>1, <2>2, <2>3
  <1>13. \/ s.cfg.priority < s.sources[best].priority
         \/ s.cfg.priority = s.sources[best].priority /\ Rank[n] < Rank[best]
    BY <1>9 DEF Beats
  <1>14. \/ s.cfg.priority < c
         \/ s.cfg.priority = c /\ Rank[n] < Rank[m]
    BY <1>3, <1>6, <1>10, <1>11, <1>12, <1>13
  <1> QED
    BY <1>3, <1>14 DEF s, c

\* leader: two routers that have heard each other never both lead, for every
\* number of routers, all roles and priorities, boosted announces or not.
THEOREM OneLeader == Spec => []NoSplitBrain
  <1>1. TimeInv => NoSplitBrain
    <2> SUFFICES ASSUME TimeInv, NEW m \in Node, NEW n \in Node, m # n, Heard(m, n), Heard(n, m),
                        LeaderNow(m, node[m], now) = m, LeaderNow(n, node[n], now) = n
                 PROVE  FALSE
      BY DEF NoSplitBrain
    <2>1. TypeInv
      BY DEF TimeInv
    <2>2. /\ node[n].cfg.priority \in Nat /\ node[m].cfg.priority \in Nat
          /\ \/ node[n].cfg.priority < node[m].cfg.priority
             \/ node[n].cfg.priority = node[m].cfg.priority /\ Rank[n] < Rank[m]
      BY <2>1, LeaderBeats
    <2>3. \/ node[m].cfg.priority < node[n].cfg.priority
          \/ node[m].cfg.priority = node[n].cfg.priority /\ Rank[m] < Rank[n]
      BY <2>1, LeaderBeats
    <2>4. Rank[n] \in Nat /\ Rank[m] \in Nat
      BY RankAssumption DEF Names
    <2> QED
      BY <2>2, <2>3, <2>4
  <1> QED
    BY <1>1, TimeSyncInvariant, PTL

\* Halving a round trip is at most half of it off, wherever in it the answer was.
LEMMA HalfTrip ==
  ASSUME NEW t1 \in Nat, NEW at \in Nat, NEW t4 \in Nat, t1 <= at, at <= t4, NEW t3 \in Int
  PROVE  /\ 2 * ((t3 + (t4 - at)) - Estimate(t1, t3, t4)) <= (t4 - t1) + 1
         /\ 2 * (Estimate(t1, t3, t4) - (t3 + (t4 - at))) <= (t4 - t1) + 1
  <1> DEFINE h == (t4 - t1) \div 2
  <1>1. h \in Int /\ 2 * h <= t4 - t1 /\ t4 - t1 <= 2 * h + 1
    OBVIOUS
  <1>2. Estimate(t1, t3, t4) = t3 + h
    BY DEF Estimate
  <1> HIDE DEF h
  <1> QED
    BY <1>1, <1>2

\* compute_network_time_sample: a response that is taken, however late, answers
\* the request that is outstanding, so its sample is within half the round trip
\* of the time the leader has when it arrives.
THEOREM SampleWithinTrip == Spec => SampleError
  <1> DEFINE Near ==
        \A n \in Node, p \in net :
          LET sample == node'[n].remote[p.from].sample
              truth == p.t3 + (now - p.at)
              trip == now - node[n].pending.t1
          IN (p.ty = "response" /\ p.to = n /\ p \notin net' /\ p.epoch = node[n].epoch
                /\ node[n].pending # None /\ node'[n].pending = None)
             => /\ 2 * (truth - sample) <= trip + 1
                /\ 2 * (sample - truth) <= trip + 1
  <1>1. ASSUME TimeInv, Next
        PROVE  Near
    <2> SUFFICES ASSUME NEW n \in Node, NEW p \in net, p.ty = "response", p.to = n, p \notin net',
                        p.epoch = node[n].epoch, node[n].pending # None, node'[n].pending = None
                 PROVE  LET sample == node'[n].remote[p.from].sample
                            truth == p.t3 + (now - p.at)
                            trip == now - node[n].pending.t1
                        IN /\ 2 * (truth - sample) <= trip + 1
                           /\ 2 * (sample - truth) <= trip + 1
      OBVIOUS
    <2> DEFINE s == node[n]
               a == Pruned(s, now)
               r == Accepts(a, p, now)
    <2>0. /\ now \in Nat /\ node \in [Node -> Runtime] /\ Present(s, now)
          /\ p \in Packet /\ s \in Runtime
      BY <1>1 DEF TimeInv, TypeInv, Present
    <2>1. /\ Moves(n, s, a, now) /\ Present(a, now)
          /\ a.pending = s.pending /\ a.cfg = s.cfg
      BY <2>0, PrunedMoves, MovesPresent
    <2>2. ~Discard(p)
      <3>1. SUFFICES ASSUME Discard(p) PROVE FALSE
        OBVIOUS
      <3>2. node'[n] \in {a, s}
        BY <2>0, <3>1 DEF Discard
      <3> QED
        BY <2>1, <3>2
    <2>3. ReceiveResponse(n, p)
      <3> HIDE DEF s, a, r
      <3>1. \A m \in Node, q \in net : ReceiveAnnounce(m, q) \/ ReceiveRequest(m, q) => p \in net'
        BY DEF ReceiveAnnounce, ReceiveRequest, Becomes
      <3>2. \A m \in Node, q \in net : ReceiveResponse(m, q) => q = p /\ m = n
        BY DEF ReceiveResponse, Becomes
      <3>3. \A q \in net : Discard(q) => q = p
        BY DEF Discard
      <3>4. \A m \in Node : ~Poll(m) /\ ~ReadTime(m) /\ ~ClearSources(m) /\ ~SetConfig(m)
        BY DEF Poll, Becomes, ReadTime, ClearSources, SetConfig
      <3>5. ~Tick
        BY DEF Tick
      <3>6. \A m \in Node : \A q : ~SetLocal(m, q) /\ ~UpdateSource(m, q)
        BY DEF SetLocal, UpdateSource
      <3>7. Step /\ Operated \subseteq Node
        BY <1>1, SettingsAssumption DEF Next
      <3> QED
        BY <2>2, <3>1, <3>2, <3>3, <3>4, <3>5, <3>6, <3>7 DEF Step
    <2>4. node'[n] = r /\ a.cfg # None
      BY <2>0, <2>1, <2>3 DEF ReceiveResponse, Becomes, Queued
    <2> HIDE DEF a
    <2>5. /\ ~Matches(a, p) => r = a
          /\ Matches(a, p) => /\ a.pending \in Request
                              /\ r.remote[p.from].sample = Estimate(a.pending.t1, p.t3, now)
      BY <2>0, <2>1, <2>4, AcceptsFacts
    <2> HIDE DEF r
    <2>6. Matches(a, p)
      BY <2>1, <2>4, <2>5
    <2>7. /\ s.pending \in Request /\ s.pending.seq = p.seq
          /\ node'[n].remote[p.from].sample = Estimate(s.pending.t1, p.t3, now)
      BY <2>1, <2>4, <2>5, <2>6 DEF Matches
    <2>8. Answers(p, s, now)
      BY <1>1 DEF TimeInv
    <2>9. s.pending.t1 <= p.at /\ p.at <= now
      BY <2>7, <2>8 DEF Answers
    <2>10. s.pending.t1 \in Nat
      BY <2>7 DEF Request
    <2>11. p.at \in Nat /\ p.t3 \in Int
      BY <2>0 DEF Packet
    <2> QED
      BY <2>0, <2>7, <2>9, <2>10, <2>11, HalfTrip
  <1>2. TimeInv /\ [Next]_vars => [Near]_vars
    BY <1>1
  <1> QED
    BY <1>2, TimeSyncInvariant, PTL DEF Spec, SampleError

=============================================================================
