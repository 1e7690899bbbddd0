---------------------------- MODULE RoutesProofs ----------------------------
(***************************************************************************)
(* Theorems about Routes, for every set of packets, sides, workers and     *)
(* routes, and for any number of calls and changes.                        *)
(***************************************************************************)
EXTENDS Routes, SequenceLemmas, FiniteSetTheorems

(***************************************************************************)
(* Sides in order.                                                         *)
(***************************************************************************)

\* q lists S in order.
Lists(q, S) ==
  /\ q \in [1..Cardinality(S) -> S]
  /\ \A i, j \in 1..Cardinality(S) : i < j => q[i] < q[j]

\* Sets of ids and of positions are finite.
LEMMA UptoFinite ==
  ASSUME NEW n \in Nat, NEW S \in SUBSET (1..n)
  PROVE  IsFiniteSet(S) /\ Cardinality(S) \in Nat
  <1>1. IsFiniteSet(1..n)
    BY FS_Interval
  <1> QED
    BY <1>1, FS_Subset, FS_CardinalityType

\* Every set of ids can be listed: append the largest one to the list of the others.
LEMMA ListExists ==
  ASSUME NEW n \in Nat, NEW S \in SUBSET (1..n)
  PROVE  \E q : Lists(q, S)
  <1> DEFINE Good == {m \in Nat : \A T \in SUBSET (1..m) : \E q : Lists(q, T)}
  <1>1. 0 \in Good
    <2> SUFFICES ASSUME NEW T \in SUBSET (1..0) PROVE \E q : Lists(q, T)
      OBVIOUS
    <2>1. T = {} /\ Cardinality({}) = 0
      BY FS_EmptySet
    <2>2. Lists([i \in 1..0 |-> i], T)
      BY <2>1 DEF Lists
    <2> QED
      BY <2>2
  <1>2. ASSUME NEW m \in Nat, m \in Good
        PROVE  m + 1 \in Good
    <2> SUFFICES ASSUME NEW T \in SUBSET (1..m + 1) PROVE \E q : Lists(q, T)
      OBVIOUS
    <2>1. CASE m + 1 \notin T
      BY <1>2, <2>1
    <2>2. CASE m + 1 \in T
      <3> DEFINE R == T \ {m + 1}
                 c == Cardinality(R)
      <3>1. R \in SUBSET (1..m) /\ T = R \cup {m + 1} /\ m + 1 \notin R
        BY <2>2
      <3>2. PICK q : Lists(q, R)
        BY <1>2, <3>1
      <3>3. IsFiniteSet(R) /\ c \in Nat
        BY <3>1, UptoFinite
      <3>4. Cardinality(T) = c + 1
        <4> HIDE DEF R
        <4> QED
          BY <3>1, <3>3, FS_AddElement
      <3> DEFINE r == [i \in 1..c + 1 |-> IF i = c + 1 THEN m + 1 ELSE q[i]]
      <3>5. \A i \in 1..c : q[i] \in R /\ q[i] < m + 1
        <4>1. q \in [1..c -> R]
          BY <3>2 DEF Lists
        <4>2. \A x \in R : x < m + 1
          BY <3>1
        <4> HIDE DEF R, c
        <4> QED
          BY <4>1, <4>2
      <3>6. r \in [1..c + 1 -> T]
        <4> HIDE DEF R, c
        <4> QED
          BY <3>1, <3>3, <3>5
      <3>7. ASSUME NEW i \in 1..c + 1, NEW j \in 1..c + 1, i < j
            PROVE  r[i] < r[j]
        <4>1. \A a, b \in 1..c : a < b => q[a] < q[b]
          BY <3>2 DEF Lists
        <4> HIDE DEF R, c
        <4> QED
          BY <3>3, <3>5, <3>7, <4>1
      <3> HIDE DEF r, c
      <3>8. Lists(r, T)
        BY <3>4, <3>6, <3>7 DEF Lists
      <3> QED
        BY <3>8
    <2> QED
      BY <2>1, <2>2
  <1>3. n \in Good
    <2> HIDE DEF Good
    <2> QED
      BY <1>1, <1>2, NatInd
  <1> QED
    BY <1>3

\* Ascending lists a set of ids or positions.
LEMMA AscendingLists ==
  ASSUME NEW n \in Nat, NEW S \in SUBSET (1..n)
  PROVE  /\ Ascending(S) \in [1..Cardinality(S) -> S]
         /\ \A i \in 1..Cardinality(S) : Ascending(S)[i] \in S
  <1>1. PICK q : Lists(q, S)
    BY ListExists
  <1>2. /\ q \in [1..Cardinality(S) -> S]
        /\ \A i, j \in DOMAIN q : i < j => q[i] < q[j]
    BY <1>1 DEF Lists
  <1>3. Ascending(S) \in [1..Cardinality(S) -> S]
    BY <1>2 DEF Ascending
  <1> QED
    BY <1>3

\* What is retained of a queue was in it.
LEMMA RetainedItems ==
  ASSUME NEW T, NEW q \in Seq(T), NEW at \in SUBSET (DOMAIN q)
  PROVE  /\ Retained(q, at) \in Seq(T)
         /\ \A i \in 1..Len(Retained(q, at)) : \E j \in 1..Len(q) : Retained(q, at)[i] = q[j]
  <1>1. Len(q) \in Nat /\ DOMAIN q = 1..Len(q)
    BY LenProperties
  <1>2. Cardinality(at) \in Nat /\ \A i \in 1..Cardinality(at) : Ascending(at)[i] \in at
    BY <1>1, UptoFinite, AscendingLists
  <1>3. \A i \in 1..Cardinality(at) : Ascending(at)[i] \in 1..Len(q)
    BY <1>1, <1>2
  <1> DEFINE r == Retained(q, at)
  <1>4. r = [i \in 1..Cardinality(at) |-> q[Ascending(at)[i]]]
    BY DEF Retained
  <1>5. \A i \in 1..Cardinality(at) : q[Ascending(at)[i]] \in T
    BY <1>3, ElementOfSeq
  <1>6. r \in Seq(T) /\ Len(r) = Cardinality(at)
    BY <1>2, <1>4, <1>5, IsASeq
  <1>7. ASSUME NEW i \in 1..Len(r)
        PROVE  \E j \in 1..Len(q) : r[i] = q[j]
    <2>1. r[i] = q[Ascending(at)[i]]
      BY <1>4, <1>6
    <2> QED
      BY <2>1, <1>3, <1>6
  <1> QED
    BY <1>6, <1>7

(***************************************************************************)
(* Shares.                                                                 *)
(***************************************************************************)

\* Weights of some sides.
Weighing(w) == DOMAIN w \subseteq SideIds /\ \A s \in DOMAIN w : w[s] \in Nat

LEMMA LookupWeight ==
  ASSUME NEW w, Weighing(w), NEW s
  PROVE  Lookup(w, s, 0) \in Nat /\ (Lookup(w, s, 0) # 0 => s \in DOMAIN w)
  BY DEF Weighing, Lookup

\* The sides as a queue whose entries cost their weights.
Costs(w) == [n \in 1..MaxSides |-> [cost |-> Lookup(w, n, 0)]]

LEMMA CostsWeighed ==
  ASSUME NEW w, Weighing(w)
  PROVE  /\ Weighed(Costs(w)) /\ Len(Costs(w)) = MaxSides
         /\ \A n \in 1..MaxSides : Costs(w)[n].cost = Lookup(w, n, 0)
  <1>1. MaxSides \in Nat
    BY SetupAssumption
  <1>2. Len(Costs(w)) = MaxSides
    BY <1>1 DEF Costs
  <1>3. \A n \in 1..MaxSides : Costs(w)[n].cost = Lookup(w, n, 0)
    BY DEF Costs
  <1> QED
    BY <1>1, <1>2, <1>3, LookupWeight DEF Weighed

\* Shares is what its recursive definition says.
LEMMA SharesSums ==
  ASSUME NEW w, Weighing(w)
  PROVE  Sums(Costs(w), Shares(w))
  <1> DEFINE q == Costs(w)
             E(u) == [n \in 0..MaxSides |-> IF n = 0 THEN 0 ELSE u[n - 1] + Lookup(w, n, 0)]
             sum == CHOOSE u : u = E(u)
  <1>0. MaxSides \in Nat /\ Len(q) = MaxSides /\ \A n \in 1..MaxSides : q[n].cost = Lookup(w, n, 0)
    BY CostsWeighed, SetupAssumption
  <1>1. PICK f : Sums(q, f)
    BY CostsWeighed, SumsExist
  <1>2. /\ f \in [0..MaxSides -> Nat] /\ f[0] = 0
        /\ \A n \in 1..MaxSides : f[n] = f[n - 1] + Lookup(w, n, 0)
    <2> HIDE DEF q
    <2> QED
      BY <1>0, <1>1 DEF Sums
  <1>3. f = E(f)
    BY <1>0, <1>2
  <1>4. sum = E(sum)
    <2> HIDE DEF E
    <2> QED
      BY <1>3
  <1>5. Shares(w) = sum
    BY DEF Shares
  <1> HIDE DEF sum
  <1>6. \A n \in 0..MaxSides : sum[n] = f[n]
    <2> DEFINE Same == {n \in Nat : n <= MaxSides => sum[n] = f[n]}
    <2>1. 0 \in Same
      BY <1>0, <1>2, <1>4
    <2>2. ASSUME NEW n \in Nat, n \in Same
          PROVE  n + 1 \in Same
      <3> SUFFICES ASSUME n + 1 <= MaxSides PROVE sum[n + 1] = f[n + 1]
        OBVIOUS
      <3>1. n + 1 \in 1..MaxSides /\ (n + 1) - 1 = n /\ n + 1 \in 0..MaxSides /\ n + 1 # 0
        BY <1>0
      <3>2. sum[n] = f[n]
        BY <1>0, <2>2
      <3>3. sum[n + 1] = sum[n] + Lookup(w, n + 1, 0)
        BY <1>4, <3>1
      <3> QED
        BY <1>2, <3>1, <3>2, <3>3
    <2>3. Nat \subseteq Same
      <3> HIDE DEF Same
      <3> QED
        BY <2>1, <2>2, NatInd
    <2> QED
      BY <1>0, <2>3
  <1>7. sum = f
    <2>1. DOMAIN sum = 0..MaxSides /\ sum = [n \in 0..MaxSides |-> sum[n]]
      BY <1>4
    <2> QED
      BY <1>2, <1>6, <2>1
  <1> QED
    BY <1>1, <1>5, <1>7

\* The shares of the sides follow each other from 0 to the total.
LEMMA ShareFacts ==
  ASSUME NEW w, Weighing(w)
  PROVE  /\ Shares(w) \in [0..MaxSides -> Nat] /\ Shares(w)[0] = 0 /\ Total(w) \in Nat
         /\ \A s \in SideIds : Shares(w)[s] = Shares(w)[s - 1] + Lookup(w, s, 0)
         /\ \A a \in 0..MaxSides : \A b \in a..MaxSides : Shares(w)[a] <= Shares(w)[b]
  <1> DEFINE q == Costs(w)
  <1>1. /\ MaxSides \in Nat /\ Weighed(q) /\ Len(q) = MaxSides
        /\ \A n \in 1..MaxSides : q[n].cost = Lookup(w, n, 0)
    BY CostsWeighed, SetupAssumption
  <1>2. Sums(q, Shares(w))
    BY SharesSums
  <1> HIDE DEF q
  <1>3. /\ Shares(w) \in [0..MaxSides -> Nat] /\ Shares(w)[0] = 0
        /\ \A s \in SideIds : Shares(w)[s] = Shares(w)[s - 1] + Lookup(w, s, 0)
    BY <1>1, <1>2 DEF Sums, SideIds
  <1>4. \A a \in 0..MaxSides : \A b \in a..MaxSides : Shares(w)[a] <= Shares(w)[b]
    BY <1>1, <1>2, SumsGrow
  <1>5. Total(w) \in Nat
    BY <1>1, <1>3 DEF Total
  <1> QED
    BY <1>3, <1>4, <1>5

\* The share of side s.
InShare(w, s, n) == Shares(w)[s - 1] <= n /\ n < Shares(w)[s]

\* Every number below the total falls on the share of one side, which AtShare finds.
LEMMA AtShareFacts ==
  ASSUME NEW w, Weighing(w), NEW n \in Nat, n < Total(w)
  PROVE  /\ AtShare(w, n) \in DOMAIN w
         /\ \A s \in DOMAIN w : AtShare(w, n) = s <=> InShare(w, s, n)
  <1>1. /\ MaxSides \in Nat /\ Shares(w) \in [0..MaxSides -> Nat] /\ Shares(w)[0] = 0
        /\ \A s \in SideIds : Shares(w)[s] = Shares(w)[s - 1] + Lookup(w, s, 0)
        /\ \A a \in 0..MaxSides : \A b \in a..MaxSides : Shares(w)[a] <= Shares(w)[b]
    BY ShareFacts, SetupAssumption
  <1> DEFINE T == {m \in 0..MaxSides : n < Shares(w)[m]}
  <1>2. PICK m \in T : \A k \in T : m <= k
    <2>1. MaxSides \in T
      BY <1>1 DEF Total
    <2>2. T \subseteq Nat
      BY <1>1
    <2> HIDE DEF T
    <2> QED
      BY <2>1, <2>2, LeastNat
  <1>3. m \in 1..MaxSides /\ n < Shares(w)[m] /\ Shares(w)[m - 1] <= n
    <2>1. m # 0
      BY <1>1, <1>2
    <2>2. m - 1 \in 0..MaxSides /\ m - 1 \notin T
      BY <1>1, <1>2, <2>1
    <2>3. Shares(w)[m - 1] \in Nat
      BY <1>1, <2>2
    <2> QED
      BY <1>1, <1>2, <2>1, <2>2, <2>3
  <1>4. m \in DOMAIN w
    <2>1. Shares(w)[m] = Shares(w)[m - 1] + Lookup(w, m, 0)
      BY <1>1, <1>3 DEF SideIds
    <2>2. Shares(w)[m - 1] \in Nat
      BY <1>1, <1>3
    <2> QED
      BY <1>3, <2>1, <2>2, LookupWeight
  <1>5. AtShare(w, n) \in DOMAIN w /\ InShare(w, AtShare(w, n), n)
    BY <1>3, <1>4 DEF AtShare, InShare
  <1>6. ASSUME NEW s \in DOMAIN w, NEW t \in DOMAIN w, InShare(w, s, n), InShare(w, t, n), s < t
        PROVE  FALSE
    <2>1. s \in 1..MaxSides /\ t \in 1..MaxSides
      BY DEF Weighing, SideIds
    <2>2. s \in 0..MaxSides /\ t - 1 \in s..MaxSides
      BY <1>1, <1>6, <2>1
    <2>3. Shares(w)[s] <= Shares(w)[t - 1]
      BY <1>1, <2>2
    <2>4. Shares(w)[s] \in Nat /\ Shares(w)[t - 1] \in Nat
      BY <1>1, <2>1, <2>2
    <2> QED
      BY <1>6, <2>3, <2>4 DEF InShare
  <1>7. DOMAIN w \subseteq Nat
    BY <1>1 DEF Weighing, SideIds
  <1> QED
    BY <1>5, <1>6, <1>7

(***************************************************************************)
(* Rounds.                                                                 *)
(***************************************************************************)

\* Quotient and remainder.
LEMMA Division ==
  ASSUME NEW a \in Nat, NEW t \in Nat \ {0}
  PROVE  \E q \in Nat, r \in 0..t - 1 : a % t = r /\ a = t * q + r
  <1>1. a % t \in 0..t - 1
    OBVIOUS
  <1>2. a \div t \in Nat
    OBVIOUS
  <1>3. PICK q \in Nat : q = a \div t
    BY <1>2
  <1>4. PICK r \in 0..t - 1 : r = a % t
    BY <1>1
  <1>5. a = t * q + r
    BY <1>3, <1>4
  <1> QED
    BY <1>4, <1>5

\* Products with larger factors are larger.
LEMMA Products ==
  ASSUME NEW t \in Nat, NEW a \in Nat, NEW b \in Nat, a <= b
  PROVE  t * a <= t * b /\ t * a \in Nat /\ t * b \in Nat
  <1> DEFINE d == b - a
  <1>1. d \in Nat /\ b = a + d
    OBVIOUS
  <1> HIDE DEF d
  <1>2. t * d \in Nat /\ t * a \in Nat
    BY <1>1
  <1>3. t * b = t * a + t * d
    BY <1>1
  <1> QED
    BY <1>2, <1>3

\* The remainder of the next number.
LEMMA NextRemainder ==
  ASSUME NEW a \in Nat, NEW t \in Nat \ {0}
  PROVE  (a + 1) % t = IF (a % t) + 1 = t THEN 0 ELSE (a % t) + 1
  <1>1. PICK q \in Nat, r \in 0..t - 1 : a % t = r /\ a = t * q + r
    BY Division
  <1>2. PICK q1 \in Nat, r1 \in 0..t - 1 : (a + 1) % t = r1 /\ a + 1 = t * q1 + r1
    <2>1. a + 1 \in Nat
      OBVIOUS
    <2> QED
      BY <2>1, Division
  <1>3. t * q + r + 1 = t * q1 + r1
    BY <1>1, <1>2
  <1>4. q1 = q \/ q1 = q + 1
    <2>1. CASE q1 < q
      <3>1. q1 + 1 <= q
        BY <1>1, <1>2, <2>1
      <3>2. t * q1 + t <= t * q
        <4>1. t * (q1 + 1) <= t * q
          BY <1>1, <1>2, <3>1, Products
        <4>2. t * (q1 + 1) = t * q1 + t
          BY <1>2
        <4> QED
          BY <4>1, <4>2
      <3> QED
        BY <1>1, <1>2, <1>3, <3>2
    <2>2. CASE q1 > q + 1
      <3>1. q + 2 <= q1
        BY <1>1, <1>2, <2>2
      <3>2. t * q + 2 * t <= t * q1
        <4>1. t * (q + 2) <= t * q1
          BY <1>1, <1>2, <3>1, Products
        <4>2. t * (q + 2) = t * q + 2 * t
          BY <1>1
        <4> QED
          BY <4>1, <4>2
      <3> QED
        BY <1>1, <1>2, <1>3, <3>2
    <2> QED
      BY <1>1, <1>2, <2>1, <2>2
  <1>5. CASE q1 = q
    <2>1. r1 = r + 1
      BY <1>1, <1>2, <1>3, <1>5
    <2> QED
      BY <1>1, <1>2, <2>1
  <1>6. CASE q1 = q + 1
    <2>1. t * q1 = t * q + t
      BY <1>1, <1>6
    <2>2. r1 = r + 1 - t
      BY <1>1, <1>2, <1>3, <2>1
    <2> QED
      BY <1>1, <1>2, <2>2
  <1> QED
    BY <1>4, <1>5, <1>6

\* The remainder k numbers further on, where r is the remainder at the start.
Turned(r, k, t) == IF r + k < t THEN r + k ELSE r + k - t

LEMMA Remainders ==
  ASSUME NEW base \in Nat, NEW t \in Nat \ {0}, NEW k \in 0..t - 1
  PROVE  /\ base % t \in 0..t - 1
         /\ (base + k) % t = Turned(base % t, k, t)
  <1>0. PICK r \in 0..t - 1 : base % t = r
    BY Division
  <1> DEFINE Good == {n \in Nat : n < t => (base + n) % t = Turned(r, n, t)}
  <1>1. 0 \in Good
    <2>1. base + 0 = base /\ Turned(r, 0, t) = r
      BY DEF Turned
    <2> QED
      BY <1>0, <2>1
  <1>2. ASSUME NEW n \in Nat, n \in Good
        PROVE  n + 1 \in Good
    <2> SUFFICES ASSUME n + 1 < t PROVE (base + (n + 1)) % t = Turned(r, n + 1, t)
      OBVIOUS
    <2>1. (base + n) % t = Turned(r, n, t)
      BY <1>2
    <2>2. base + n \in Nat /\ base + (n + 1) = (base + n) + 1
      OBVIOUS
    <2>3. ((base + n) + 1) % t = IF Turned(r, n, t) + 1 = t THEN 0 ELSE Turned(r, n, t) + 1
      <3> DEFINE a == base + n
      <3>1. a \in Nat /\ a % t = Turned(r, n, t)
        BY <2>1, <2>2
      <3> HIDE DEF a
      <3>2. (a + 1) % t = IF (a % t) + 1 = t THEN 0 ELSE (a % t) + 1
        BY <3>1, NextRemainder
      <3> QED
        BY <3>1, <3>2 DEF a
    <2>4. (IF Turned(r, n, t) + 1 = t THEN 0 ELSE Turned(r, n, t) + 1) = Turned(r, n + 1, t)
      BY DEF Turned
    <2> QED
      BY <2>2, <2>3, <2>4
  <1>3. Nat \subseteq Good
    <2> HIDE DEF Good
    <2> QED
      BY <1>1, <1>2, NatInd
  <1> QED
    BY <1>0, <1>3

\* In a round of as many turns as the weights add up to, a side gets as many as
\* its weight: its share is an interval of that length, which a round covers once.
LEMMA RoundCount ==
  ASSUME NEW w, Weighing(w), Total(w) # 0, NEW base \in Nat, NEW s \in DOMAIN w
  PROVE  Cardinality({i \in 1..Total(w) : AtShare(w, (base + i - 1) % Total(w)) = s}) = w[s]
  <1> DEFINE t == Total(w)
             r == base % t
             lo == Shares(w)[s - 1]
             hi == Shares(w)[s]
             I == {i \in 1..t : AtShare(w, (base + i - 1) % t) = s}
             f == [n \in lo..hi - 1 |-> IF n >= r THEN n - r + 1 ELSE n - r + 1 + t]
  <1>1. /\ t \in Nat \ {0} /\ lo \in Nat /\ hi \in Nat /\ hi <= t /\ hi = lo + w[s] /\ w[s] \in Nat
    <2>1. /\ MaxSides \in Nat /\ Shares(w) \in [0..MaxSides -> Nat] /\ Total(w) \in Nat
          /\ \A x \in SideIds : Shares(w)[x] = Shares(w)[x - 1] + Lookup(w, x, 0)
          /\ \A a \in 0..MaxSides : \A b \in a..MaxSides : Shares(w)[a] <= Shares(w)[b]
      BY ShareFacts, SetupAssumption
    <2>2. s \in 1..MaxSides /\ w[s] \in Nat /\ Lookup(w, s, 0) = w[s]
      BY DEF Weighing, SideIds, Lookup
    <2>3. s \in 0..MaxSides /\ s - 1 \in 0..MaxSides /\ MaxSides \in s..MaxSides
      BY <2>1, <2>2
    <2> QED
      BY <2>1, <2>2, <2>3 DEF Total, SideIds
  <1>2. r \in 0..t - 1 /\ \A k \in 0..t - 1 : (base + k) % t = Turned(r, k, t)
    <2> HIDE DEF t
    <2>1. 0 \in 0..t - 1
      BY <1>1
    <2> QED
      BY <1>1, <2>1, Remainders
  <1>3. ASSUME NEW i \in 1..t
        PROVE  i \in I <=> lo <= Turned(r, i - 1, t) /\ Turned(r, i - 1, t) < hi
    <2> DEFINE n == Turned(r, i - 1, t)
    <2>1. n \in Nat /\ n < t
      BY <1>1, <1>2 DEF Turned
    <2>2. i - 1 \in 0..t - 1 /\ base + i - 1 = base + (i - 1)
      BY <1>1
    <2>3. (base + i - 1) % t = n
      BY <1>2, <2>2
    <2>4. AtShare(w, n) = s <=> InShare(w, s, n)
      <3> HIDE DEF n
      <3> QED
        BY <2>1, AtShareFacts
    <2> QED
      BY <2>3, <2>4 DEF InShare
  <1> HIDE DEF t, r, lo, hi, I
  <1>4. I \subseteq 1..t
    BY DEF I
  <1>5. ASSUME NEW n \in lo..hi - 1
        PROVE  f[n] \in 1..t /\ Turned(r, f[n] - 1, t) = n
    <2>1. n \in 0..t - 1
      BY <1>1
    <2>2. CASE n >= r
      BY <1>1, <1>2, <2>1, <2>2 DEF Turned
    <2>3. CASE ~(n >= r)
      BY <1>1, <1>2, <2>1, <2>3 DEF Turned
    <2> QED
      BY <2>2, <2>3
  <1>6. f \in [lo..hi - 1 -> I]
    <2> SUFFICES ASSUME NEW n \in lo..hi - 1 PROVE f[n] \in I
      OBVIOUS
    <2>1. lo <= n /\ n < hi
      BY <1>1
    <2> HIDE DEF f
    <2> QED
      BY <1>3, <1>5, <2>1
  <1>7. IsInjective(f)
    <2> SUFFICES ASSUME NEW a \in lo..hi - 1, NEW b \in lo..hi - 1, f[a] = f[b]
                 PROVE  a = b
      BY <1>6 DEF IsInjective
    <2> HIDE DEF f
    <2> QED
      BY <1>5
  <1>8. ASSUME NEW i \in I PROVE \E n \in lo..hi - 1 : f[n] = i
    <2> DEFINE n == Turned(r, i - 1, t)
    <2>1. i \in 1..t /\ lo <= n /\ n < hi
      BY <1>3, <1>4
    <2>2. n \in lo..hi - 1
      BY <1>1, <1>2, <2>1 DEF Turned
    <2>3. f[n] = IF n >= r THEN n - r + 1 ELSE n - r + 1 + t
      BY <2>2
    <2>4. f[n] = i
      BY <1>1, <1>2, <2>1, <2>3 DEF Turned
    <2> QED
      BY <2>2, <2>4
  <1>9. ExistsBijection(lo..hi - 1, I)
    <2> HIDE DEF f
    <2>1. f \in Bijection(lo..hi - 1, I)
      BY <1>6, <1>7, <1>8 DEF Bijection, Injection, Surjection
    <2> QED
      BY <2>1 DEF ExistsBijection
  <1>10. IsFiniteSet(lo..hi - 1) /\ Cardinality(lo..hi - 1) = w[s]
    <2>1. lo \in Int /\ hi - 1 \in Int
      BY <1>1
    <2>2. /\ IsFiniteSet(lo..hi - 1)
          /\ Cardinality(lo..hi - 1) = IF lo > hi - 1 THEN 0 ELSE (hi - 1) - lo + 1
      BY <2>1, FS_Interval
    <2> QED
      BY <1>1, <2>2
  <1>11. Cardinality(I) = w[s]
    BY <1>9, <1>10, FS_Bijection
  <1> QED
    BY <1>11 DEF I, t

(***************************************************************************)
(* The invariant.                                                          *)
(***************************************************************************)

Sources == {Local} \cup SideIds

SideRecord ==
  [name : SideIds, live : BOOLEAN, ingress : BOOLEAN, egress : BOOLEAN, link_local : BOOLEAN]

\* A side is registered once: its slot is the number of its registration.
SidesInv ==
  /\ sides \in Seq(SideRecord) /\ Len(sides) <= MaxSides
  /\ \A s \in 1..Len(sides) : sides[s].name = s

Numeric(f) == \A k \in DOMAIN f : f[k] \in Nat

TablesInv ==
  /\ kind \in {"router", "relay"}
  /\ Numeric(weights) /\ Numeric(prios) /\ Numeric(cursors) /\ Numeric(stats)

\* Jobs whose side is the registration the planner meant.
Meant == {j \in [dst : SideIds, named : SideIds] : j.named = j.dst}

\* Jobs for p; an acknowledgement has only jobs for sides its packet came from.
Traced(p, via) == {j \in Meant : p.ty = "ack" => <<p.id, j.dst>> \in via}

TxItems(via) == {i \in [src : Sources, p : Packets, job : Meant] : i.job \in Traced(i.p, via)}
RxItems == [src : SideIds, p : Packets, isr : BOOLEAN]
Task ==
  [pc : {"idle", "admitted", "noted", "asked", "planned", "checked", "calling"},
   p : Packets \cup {None}, src : Sources, jobs : Seq(Meant),
   how : {"none", "broadcast", "relay", "queue", "drain"}, side : 0..MaxSides]

QueuesInv == txq \in Seq(TxItems(came)) /\ rxq \in Seq(RxItems)

\* A worker at or in a callback has a job, and the callback is that of its side.
Sound(t, via) ==
  /\ t \in Task
  /\ t.jobs \in Seq(Traced(t.p, via))
  /\ t.pc # "idle" => t.p \in Packets
  /\ t.pc \in {"admitted", "noted"} => t.src \in SideIds
  /\ t.pc \in {"checked", "calling"} => t.jobs # <<>>
  /\ t.pc = "calling" => t.side = Head(t.jobs).named

Working(f, via) == f \in [Workers -> Task] /\ \A w \in Workers : Sound(f[w], via)
WorkInv == Working(work, came)

\* A return route leads to a side that a packet of that id came from.
ReturnsInv == \A id \in DOMAIN returns : <<id, returns[id]>> \in came

\* The recorded turns of a weighted source end at its cursor, and each took the
\* side on whose share the cursor stood.
Follows(t, cursor) ==
  /\ Weighing(t.among) /\ t.took \in Seq(SUBSET SideIds) /\ Len(t.took) >= 1
  /\ Total(t.among) # 0 =>
       \E base \in Nat :
         /\ cursor = base + Len(t.took)
         /\ \A i \in 1..Len(t.took) :
              t.took[i] = {AtShare(t.among, (base + i - 1) % Total(t.among))}

TurnsFollow(f, m, c) == \A src \in DOMAIN f : src \in DOMAIN m /\ Follows(f[src], Lookup(c, src, 0))
TurnsInv == kind = "relay" => TurnsFollow(turns, modes, cursors)

RoutesInv == SidesInv /\ TablesInv /\ QueuesInv /\ WorkInv /\ ReturnsInv /\ TurnsInv

-----------------------------------------------------------------------------
(* Choices.                                                                *)

LEMMA SideFacts ==
  ASSUME SidesInv
  PROVE  /\ Len(sides) \in Nat /\ DOMAIN sides = 1..Len(sides) /\ DOMAIN sides \subseteq SideIds
         /\ MaxSides \in Nat /\ SideIds \subseteq Nat /\ 0 \notin SideIds
         /\ \A s \in DOMAIN sides : sides[s] \in SideRecord /\ sides[s].name = s
  <1>1. MaxSides \in Nat
    BY SetupAssumption
  <1>2. Len(sides) \in Nat /\ DOMAIN sides = 1..Len(sides)
    BY LenProperties DEF SidesInv
  <1>3. \A s \in 1..Len(sides) : sides[s] \in SideRecord
    BY ElementOfSeq DEF SidesInv
  <1> QED
    BY <1>1, <1>2, <1>3 DEF SidesInv, SideIds

LEMMA LookupNumber ==
  ASSUME NEW f, Numeric(f), NEW k, NEW d \in Nat
  PROVE  Lookup(f, k, d) \in Nat
  BY DEF Numeric, Lookup

LEMMA WeightsWeigh ==
  ASSUME SidesInv, TablesInv, NEW src, NEW S \in SUBSET (DOMAIN sides)
  PROVE  Weighing([s \in S |-> WeightOf(src, s)])
  <1>1. \A s : WeightOf(src, s) \in Nat
    BY LookupNumber DEF TablesInv, WeightOf
  <1> QED
    BY <1>1, SideFacts DEF Weighing

LEMMA AdaptiveWeigh ==
  ASSUME SidesInv, TablesInv, NEW S \in SUBSET (DOMAIN sides)
  PROVE  /\ Weighing([s \in S |-> AdaptiveWeight(s)])
         /\ \A s \in S : AdaptiveWeight(s) > 0
  <1>1. ASSUME NEW s PROVE AdaptiveWeight(s) \in Nat /\ AdaptiveWeight(s) > 0
    <2> DEFINE x == Lookup(stats, s, 0)
    <2>1. x \in Nat
      BY LookupNumber DEF TablesInv
    <2> HIDE DEF x
    <2> DEFINE m == IF x > 1 THEN x ELSE 1
    <2>2. m \in {1, x} /\ \A y \in {1, x} : m >= y
      BY <2>1
    <2>3. Max({1, x}) \in {1, x} /\ \A y \in {1, x} : Max({1, x}) >= y
      <3> HIDE DEF m
      <3> QED
        BY <2>2 DEF Max
    <2> QED
      BY <2>1, <2>3 DEF AdaptiveWeight, x
  <1> QED
    BY <1>1, SideFacts DEF Weighing

\* A weight that is not zero counts.
LEMMA TotalPositive ==
  ASSUME NEW w, Weighing(w), NEW s \in DOMAIN w, w[s] > 0
  PROVE  Total(w) # 0
  <1>1. /\ MaxSides \in Nat /\ Shares(w) \in [0..MaxSides -> Nat]
        /\ \A x \in SideIds : Shares(w)[x] = Shares(w)[x - 1] + Lookup(w, x, 0)
        /\ \A a \in 0..MaxSides : \A b \in a..MaxSides : Shares(w)[a] <= Shares(w)[b]
    BY ShareFacts, SetupAssumption
  <1>2. s \in 1..MaxSides /\ w[s] \in Nat /\ Lookup(w, s, 0) = w[s]
    BY DEF Weighing, SideIds, Lookup
  <1>3. s \in 0..MaxSides /\ s - 1 \in 0..MaxSides /\ MaxSides \in s..MaxSides
    BY <1>1, <1>2
  <1>4. Shares(w)[s - 1] \in Nat /\ Shares(w)[s] = Shares(w)[s - 1] + w[s] /\ Shares(w)[s] <= Total(w)
    BY <1>1, <1>2, <1>3 DEF Total, SideIds
  <1> QED
    BY <1>2, <1>4

\* A choice by weight takes one of the sides.
LEMMA ByWeightTakes ==
  ASSUME TablesInv, NEW src, NEW w, Weighing(w), NEW how
  PROVE  /\ ByWeight(src, w, how).to \subseteq DOMAIN w
         /\ Total(w) # 0 => ByWeight(src, w, how).to # {}
  <1>1. CASE Total(w) = 0
    BY <1>1 DEF ByWeight, Choice
  <1>2. CASE Total(w) # 0
    <2> DEFINE n == Lookup(cursors, src, 0) % Total(w)
    <2>1. Lookup(cursors, src, 0) \in Nat
      BY LookupNumber DEF TablesInv
    <2>2. Total(w) \in Nat \ {0}
      BY <1>2, ShareFacts
    <2>3. n \in Nat /\ n < Total(w)
      <3>1. n \in 0..Total(w) - 1
        BY <2>1, <2>2, Division
      <3> QED
        BY <2>2, <3>1
    <2> HIDE DEF n
    <2>4. AtShare(w, n) \in DOMAIN w
      BY <2>3, AtShareFacts
    <2> QED
      BY <1>2, <2>4 DEF ByWeight, Choice, n
  <1> QED
    BY <1>1, <1>2

\* A failover takes the side of least priority, of those the one with the least id.
LEMMA FailoverTakes ==
  ASSUME SidesInv, TablesInv, NEW src, NEW S \in SUBSET (DOMAIN sides), S # {}
  PROVE  Failover(src, S).to \subseteq S /\ Failover(src, S).to # {}
  <1>1. \A s : PrioOf(src, s) \in Nat
    BY LookupNumber DEF TablesInv, PrioOf
  <1>2. S \subseteq Nat
    BY SideFacts
  <1> DEFINE P == {PrioOf(src, s) : s \in S}
  <1>3. PICK p \in P : \A x \in P : p <= x
    <2>1. P \subseteq Nat /\ P # {}
      BY <1>1
    <2> HIDE DEF P
    <2> QED
      BY <2>1, LeastNat
  <1> DEFINE Q == {s \in S : PrioOf(src, s) = p}
  <1>4. PICK q \in Q : \A x \in Q : q <= x
    <2>1. Q \subseteq Nat /\ Q # {}
      BY <1>2, <1>3
    <2> HIDE DEF Q
    <2> QED
      BY <2>1, LeastNat
  <1>5. ASSUME NEW t \in S
        PROVE  \/ PrioOf(src, q) < PrioOf(src, t)
               \/ PrioOf(src, q) = PrioOf(src, t) /\ q <= t
    <2>1. p <= PrioOf(src, t) /\ PrioOf(src, q) = p
      BY <1>3, <1>4
    <2>2. PrioOf(src, t) = p => q <= t
      BY <1>4
    <2> QED
      BY <1>1, <2>1, <2>2
  <1>6. q \in S
    BY <1>4
  <1> QED
    BY <1>5, <1>6 DEF Failover, Choice

\* The adaptive choice takes a side that was never measured, or one by bandwidth.
LEMMA AdaptiveTakes ==
  ASSUME SidesInv, TablesInv, NEW src, NEW S \in SUBSET (DOMAIN sides), S # {}
  PROVE  /\ Adaptive(src, S).to \subseteq S /\ Adaptive(src, S).to # {}
         /\ Adaptive(src, S).how = "adaptive"
  <1> DEFINE U == S \ DOMAIN stats
  <1>1. CASE U # {}
    <2> DEFINE k == Lookup(cursors, src, 0) % Cardinality(U)
    <2>1. MaxSides \in Nat /\ U \in SUBSET (1..MaxSides)
      BY SideFacts DEF SideIds
    <2>2. IsFiniteSet(U) /\ Cardinality(U) \in Nat
      <3> HIDE DEF U
      <3> QED
        BY <2>1, UptoFinite
    <2>3. Cardinality(U) \in Nat \ {0}
      <3> HIDE DEF U
      <3> QED
        BY <1>1, <2>2, FS_EmptySet
    <2>4. Lookup(cursors, src, 0) \in Nat
      BY LookupNumber DEF TablesInv
    <2>5. k \in 0..Cardinality(U) - 1
      <3> HIDE DEF U
      <3> QED
        BY <2>3, <2>4, Division
    <2> HIDE DEF k
    <2>6. k + 1 \in 1..Cardinality(U)
      BY <2>3, <2>5
    <2>7. Ascending(U)[k + 1] \in U
      <3> HIDE DEF U
      <3> QED
        BY <2>1, <2>6, AscendingLists
    <2>8. Adaptive(src, S) = Choice({Ascending(U)[k + 1]}, TRUE, "adaptive")
      BY <1>1 DEF Adaptive, k
    <2> QED
      BY <2>7, <2>8 DEF Choice
  <1>2. CASE U = {}
    <2> DEFINE w == [s \in S |-> AdaptiveWeight(s)]
    <2>1. Adaptive(src, S) = ByWeight(src, w, "adaptive")
      BY <1>2 DEF Adaptive
    <2>2. PICK s \in S : AdaptiveWeight(s) > 0
      BY AdaptiveWeigh
    <2>3. Weighing(w) /\ s \in DOMAIN w /\ w[s] > 0 /\ DOMAIN w = S
      BY <2>2, AdaptiveWeigh
    <2> HIDE DEF w
    <2>4. Total(w) # 0
      BY <2>3, TotalPositive
    <2>5. ByWeight(src, w, "adaptive").how = "adaptive"
      BY DEF ByWeight, Choice
    <2> QED
      BY <2>1, <2>3, <2>4, <2>5, ByWeightTakes
  <1> QED
    BY <1>1, <1>2

\* What a choice among S guarantees.
Chosen(c, src, S) ==
  LET w == [s \in S |-> WeightOf(src, s)]
  IN /\ c.to \subseteq S
     /\ S # {} /\ (src \in DOMAIN modes /\ modes[src] = "weighted" => Total(w) # 0) => c.to # {}
     /\ c.how # "weighted" /\ c.moved => src \notin DOMAIN modes
     /\ c.how = "weighted" => src \in DOMAIN modes /\ c = ByWeight(src, w, "weighted")

LEMMA SelectChooses ==
  ASSUME SidesInv, TablesInv, NEW src, NEW S \in SUBSET (DOMAIN sides), NEW d \in BOOLEAN
  PROVE  Chosen(RouterSelect(src, S, d), src, S)
  <1> DEFINE c == RouterSelect(src, S, d)
             w == [s \in S |-> WeightOf(src, s)]
  <1>0. MaxSides \in Nat /\ S \in SUBSET (1..MaxSides)
    BY SideFacts DEF SideIds
  <1>1. CASE Cardinality(S) <= 1
    <2>1. c = Choice(S, FALSE, "single")
      BY <1>1 DEF RouterSelect
    <2> QED
      BY <2>1 DEF Choice, Chosen
  <1>2. CASE ~(Cardinality(S) <= 1) /\ src \notin DOMAIN modes
    <2>0. S # {}
      BY <1>0, <1>2, FS_EmptySet
    <2>1. CASE d
      <3>1. c = Adaptive(src, S)
        BY <1>2, <2>1 DEF RouterSelect
      <3> QED
        BY <1>2, <2>0, <3>1, AdaptiveTakes DEF Chosen
    <2>2. CASE ~d
      <3>1. c = Choice(S, FALSE, "fanout")
        BY <1>2, <2>2 DEF RouterSelect
      <3> QED
        BY <3>1 DEF Choice, Chosen
    <2> QED
      BY <2>1, <2>2
  <1>3. CASE ~(Cardinality(S) <= 1) /\ src \in DOMAIN modes /\ modes[src] = "weighted"
    <2>1. c = ByWeight(src, w, "weighted")
      BY <1>3 DEF RouterSelect
    <2>2. Weighing(w) /\ DOMAIN w = S
      BY WeightsWeigh
    <2>3. c.how = "weighted"
      BY <2>1 DEF ByWeight, Choice
    <2>4. c.to \subseteq S /\ (Total(w) # 0 => c.to # {})
      <3> HIDE DEF w, c
      <3> QED
        BY <2>1, <2>2, ByWeightTakes
    <2> QED
      BY <1>3, <2>1, <2>3, <2>4 DEF Chosen
  <1>4. CASE ~(Cardinality(S) <= 1) /\ src \in DOMAIN modes /\ modes[src] = "failover"
    <2>0. S # {}
      BY <1>0, <1>4, FS_EmptySet
    <2>1. c = Failover(src, S)
      BY <1>4 DEF RouterSelect
    <2>2. c.how = "failover" /\ c.moved = FALSE
      BY <2>1 DEF Failover, Choice
    <2> QED
      BY <2>0, <2>1, <2>2, FailoverTakes DEF Chosen
  <1>5. CASE /\ ~(Cardinality(S) <= 1) /\ src \in DOMAIN modes
             /\ modes[src] # "weighted" /\ modes[src] # "failover"
    <2>1. c = Choice(S, FALSE, "fanout")
      BY <1>5 DEF RouterSelect
    <2> QED
      BY <2>1 DEF Choice, Chosen
  <1> QED
    BY <1>1, <1>2, <1>3, <1>4, <1>5

\* The relay's copy of the selection.
LEMMA RelaySelectChooses ==
  ASSUME SidesInv, TablesInv, NEW src, NEW S \in SUBSET (DOMAIN sides), NEW d \in BOOLEAN
  PROVE  Chosen(RelaySelect(src, S, d), src, S)
  <1>0. Cardinality(S) \in Nat
    <2>1. MaxSides \in Nat /\ S \in SUBSET (1..MaxSides)
      BY SideFacts DEF SideIds
    <2> QED
      BY <2>1, UptoFinite
  <1>1. CASE d /\ src \notin DOMAIN modes /\ Cardinality(S) > 1
    <2>0. ~(Cardinality(S) <= 1)
      BY <1>0, <1>1
    <2>1. RelaySelect(src, S, d) = Adaptive(src, S)
      BY <1>1 DEF RelaySelect, RelayAdaptive
    <2>2. RouterSelect(src, S, TRUE) = Adaptive(src, S)
      BY <1>1, <2>0 DEF RouterSelect
    <2> QED
      BY <2>1, <2>2, SelectChooses
  <1>2. CASE ~(d /\ src \notin DOMAIN modes /\ Cardinality(S) > 1)
    <2>1. RelaySelect(src, S, d) = RouterSelect(src, S, FALSE)
      BY <1>2 DEF RelaySelect
    <2> QED
      BY <2>1, SelectChooses
  <1> QED
    BY <1>1, <1>2

-----------------------------------------------------------------------------
(* Plans.                                                                  *)

\* A packet may only leave by a side that is registered, and the candidates of
\* a plan are sides it may leave by.
LEMMA CandidateFacts ==
  ASSUME SidesInv, NEW p, NEW src
  PROVE  /\ \A s : Allowed(src, p.ty, s) => s \in DOMAIN sides
         /\ Exact(p, src) \in SUBSET {s \in DOMAIN sides : Allowed(src, p.ty, s)}
         /\ Generic(p, src) \in SUBSET {s \in DOMAIN sides : Allowed(src, p.ty, s)}
         /\ \A l \in BOOLEAN : /\ RouterEligible(src, p.ty, l) \in SUBSET (DOMAIN sides)
                               /\ RelayEligible(src, p.ty, l) \in SUBSET (DOMAIN sides)
         /\ \A S \in SUBSET (DOMAIN sides) : Unsatisfied(p, S) \in SUBSET (DOMAIN sides)
  <1>1. \A s : Allowed(src, p.ty, s) => s \in DOMAIN sides
    BY DEF Allowed, RelayAllows, RouterAllows, Live
  <1>2. \A s \in Known(p, src) : s \in DOMAIN sides /\ Allowed(src, p.ty, s)
    BY <1>1 DEF Known
  <1> QED
    BY <1>1, <1>2 DEF Exact, Generic, RouterEligible, RelayEligible, Unsatisfied

\* Where a plan sends a packet, and what it does with the cursor.
Planned(c, p, src) ==
  /\ c.to \subseteq DOMAIN sides
  /\ p.ty = "ack" => \A s \in c.to : p.id \in DOMAIN returns /\ returns[p.id] = s
  /\ c.how # "weighted" /\ c.moved => src \notin DOMAIN modes
  /\ c.how = "weighted" => src \in DOMAIN modes

LEMMA ReturnPlanned ==
  ASSUME SidesInv, NEW p, NEW src
  PROVE  /\ Planned(ReturnChoice(p, src), p, src)
         /\ ReturnChoice(p, src).how = "return"
  BY CandidateFacts DEF ReturnChoice, Choice, Planned

LEMMA RouterPlanned ==
  ASSUME SidesInv, TablesInv, NEW p, NEW src
  PROVE  Planned(RouterPlan(p, src), p, src)
  <1> DEFINE c == RouterPlan(p, src)
  <1> SUFFICES Planned(c, p, src)
    OBVIOUS
  <1>0. ASSUME NEW S \in SUBSET (DOMAIN sides), NEW b \in BOOLEAN,
               c = RouterSelect(src, S, b), p.ty # "ack"
        PROVE  Planned(c, p, src)
    <2>1. Chosen(c, src, S)
      BY <1>0, SelectChooses
    <2> HIDE DEF c
    <2> QED
      BY <1>0, <2>1 DEF Chosen, Planned
  <1>1. CASE p.ty = "discovery"
    <2>1. c = RouterSelect(src, RouterEligible(src, p.ty, FALSE), FALSE)
      BY <1>1 DEF RouterPlan
    <2> QED
      BY <1>0, <1>1, <2>1, CandidateFacts
  <1>2. CASE p.ty = "ack"
    <2>1. c = ReturnChoice(p, src)
      BY <1>2 DEF RouterPlan
    <2> QED
      BY <2>1, ReturnPlanned
  <1>3. CASE p.ty \notin {"discovery", "ack"} /\ Exact(p, src) # {}
    <2>1. c = RouterSelect(src, Exact(p, src), p.ty # "reliable")
      BY <1>3 DEF RouterPlan
    <2> QED
      BY <1>0, <1>3, <2>1, CandidateFacts
  <1>4. CASE p.ty \notin {"discovery", "ack"} /\ Exact(p, src) = {} /\ Generic(p, src) # {}
    <2>1. c = RouterSelect(src, Generic(p, src), p.ty # "reliable")
      BY <1>4 DEF RouterPlan
    <2> QED
      BY <1>0, <1>4, <2>1, CandidateFacts
  <1>5. CASE p.ty \notin {"discovery", "ack"} /\ Exact(p, src) = {} /\ Generic(p, src) = {}
    <2>1. \/ c = RouterSelect(src, RouterEligible(src, p.ty, TRUE), FALSE)
          \/ c = RouterSelect(src, RouterEligible(src, p.ty, FALSE), FALSE)
          \/ c = Choice({}, FALSE, "none")
      BY <1>5 DEF RouterPlan
    <2>2. ASSUME c = Choice({}, FALSE, "none") PROVE Planned(c, p, src)
      <3> HIDE DEF c
      <3> QED
        BY <1>5, <2>2 DEF Choice, Planned
    <2>3. /\ RouterEligible(src, p.ty, TRUE) \in SUBSET (DOMAIN sides)
          /\ RouterEligible(src, p.ty, FALSE) \in SUBSET (DOMAIN sides)
      BY CandidateFacts
    <2> HIDE DEF c
    <2> QED
      BY <1>0, <1>5, <2>1, <2>2, <2>3
  <1> QED
    BY <1>1, <1>2, <1>3, <1>4, <1>5

\* A relay's weighted choice is made among the candidates of its history.
RelayPlanFacts(c, p, src, C) ==
  /\ Planned(c, p, src) /\ C \in SUBSET (DOMAIN sides)
  /\ c.how = "weighted" => c = ByWeight(src, [s \in C |-> WeightOf(src, s)], "weighted")

LEMMA RelayPlanned ==
  ASSUME SidesInv, TablesInv, kind = "relay", NEW p, NEW src
  PROVE  RelayPlanFacts(RelayPlan(p, src), p, src, Candidates(p, src))
  <1> DEFINE c == RelayPlan(p, src)
             C == Candidates(p, src)
             d == p.ty # "reliable"
  <1> SUFFICES RelayPlanFacts(c, p, src, C)
    OBVIOUS
  <1>0. ASSUME NEW b \in BOOLEAN, C \in SUBSET (DOMAIN sides),
               c = RelaySelect(src, C, b), p.ty # "ack"
        PROVE  RelayPlanFacts(c, p, src, C)
    <2>1. Chosen(c, src, C)
      BY <1>0, RelaySelectChooses
    <2> HIDE DEF c, C
    <2> QED
      BY <1>0, <2>1 DEF Chosen, Planned, RelayPlanFacts
  <1>1. CASE p.ty = "discovery"
    <2>1. c = RelaySelect(src, RelayEligible(src, p.ty, FALSE), FALSE)
      BY <1>1 DEF RelayPlan
    <2>2. (LinkLocalOnly(p) /\ p.ty # "discovery") = FALSE
      BY <1>1
    <2>3. C = RelayEligible(src, p.ty, FALSE)
      BY <1>1, <2>2 DEF Candidates
    <2>4. C \in SUBSET (DOMAIN sides)
      BY <2>3, CandidateFacts
    <2> HIDE DEF c, C
    <2> QED
      BY <1>0, <1>1, <2>1, <2>3, <2>4
  <1>2. CASE p.ty = "ack"
    <2>1. c = ReturnChoice(p, src)
      BY <1>2 DEF RelayPlan
    <2>2. C \in SUBSET (DOMAIN sides)
      <3>1. (LinkLocalOnly(p) /\ p.ty # "discovery") \in BOOLEAN
        BY DEF LinkLocalOnly
      <3>2. RelayEligible(src, p.ty, LinkLocalOnly(p) /\ p.ty # "discovery") \in SUBSET (DOMAIN sides)
        BY <3>1, CandidateFacts
      <3>3. /\ Unsatisfied(p, Exact(p, src)) \in SUBSET (DOMAIN sides)
            /\ Unsatisfied(p, Generic(p, src)) \in SUBSET (DOMAIN sides)
        BY CandidateFacts
      <3> QED
        BY <3>2, <3>3 DEF Candidates
    <2> HIDE DEF c, C
    <2> QED
      BY <2>1, <2>2, ReturnPlanned DEF RelayPlanFacts
  <1>3. CASE p.ty \notin {"discovery", "ack"} /\ Exact(p, src) # {}
    <2>1. c = RelaySelect(src, Unsatisfied(p, Exact(p, src)), d)
      BY <1>3 DEF RelayPlan
    <2>2. C = Unsatisfied(p, Exact(p, src))
      BY <1>3 DEF Candidates
    <2>3. C \in SUBSET (DOMAIN sides)
      BY <2>2, CandidateFacts
    <2>4. d \in BOOLEAN
      OBVIOUS
    <2>5. p.ty # "ack" /\ c = RelaySelect(src, C, d)
      BY <1>3, <2>1, <2>2
    <2> HIDE DEF c, C, d
    <2> QED
      BY <1>0, <2>3, <2>4, <2>5
  <1>4. CASE p.ty \notin {"discovery", "ack"} /\ Exact(p, src) = {} /\ Generic(p, src) # {}
    <2>1. c = RelaySelect(src, Unsatisfied(p, Generic(p, src)), d)
      BY <1>4 DEF RelayPlan
    <2>2. C = Unsatisfied(p, Generic(p, src))
      BY <1>4 DEF Candidates
    <2>3. C \in SUBSET (DOMAIN sides)
      BY <2>2, CandidateFacts
    <2>4. d \in BOOLEAN
      OBVIOUS
    <2>5. p.ty # "ack" /\ c = RelaySelect(src, C, d)
      BY <1>4, <2>1, <2>2
    <2> HIDE DEF c, C, d
    <2> QED
      BY <1>0, <2>3, <2>4, <2>5
  <1>5. CASE p.ty \notin {"discovery", "ack"} /\ Exact(p, src) = {} /\ Generic(p, src) = {}
    <2>0. LinkLocalOnly(p) \in BOOLEAN
      BY DEF LinkLocalOnly
    <2>1. c = RelaySelect(src, RelayEligible(src, p.ty, LinkLocalOnly(p)), FALSE)
      BY <1>5 DEF RelayPlan
    <2>2. (LinkLocalOnly(p) /\ p.ty # "discovery") = LinkLocalOnly(p)
      BY <1>5, <2>0
    <2>3. C = RelayEligible(src, p.ty, LinkLocalOnly(p))
      BY <1>5, <2>2 DEF Candidates
    <2>4. C \in SUBSET (DOMAIN sides)
      <3>1. RelayEligible(src, p.ty, LinkLocalOnly(p)) \in SUBSET (DOMAIN sides)
        BY <2>0, CandidateFacts
      <3> HIDE DEF C
      <3> QED
        BY <2>3, <3>1
    <2>5. p.ty # "ack" /\ c = RelaySelect(src, C, FALSE)
      BY <1>5, <2>1, <2>3
    <2> HIDE DEF c, C
    <2> QED
      BY <1>0, <2>4, <2>5
  <1> QED
    BY <1>1, <1>2, <1>3, <1>4, <1>5

\* A choice among sides that are all open takes one of them, unless the source is
\* weighted and a side weighs nothing.
LEMMA OpenChosen ==
  ASSUME SidesInv, TablesInv, NEW src, NEW S \in SUBSET (DOMAIN sides), S # {}, NEW c,
         Chosen(c, src, S),
         src \in DOMAIN modes /\ modes[src] = "weighted" => \A s \in S : WeightOf(src, s) > 0
  PROVE  c.to # {}
  <1> DEFINE w == [s \in S |-> WeightOf(src, s)]
  <1>1. CASE src \in DOMAIN modes /\ modes[src] = "weighted"
    <2>1. PICK s \in S : WeightOf(src, s) > 0
      BY <1>1
    <2>2. Weighing(w) /\ s \in DOMAIN w /\ w[s] > 0
      BY <2>1, WeightsWeigh
    <2>3. Total(w) # 0
      <3> HIDE DEF w
      <3> QED
        BY <2>2, TotalPositive
    <2> QED
      BY <2>3 DEF Chosen
  <1>2. CASE ~(src \in DOMAIN modes /\ modes[src] = "weighted")
    BY <1>2 DEF Chosen
  <1> QED
    BY <1>1, <1>2

\* With nothing acknowledged every candidate of a relay is still unsatisfied.
LEMMA NothingAcknowledged ==
  ASSUME NEW p, ~\E a \in acked : a[1] = p.id, NEW S
  PROVE  Unsatisfied(p, S) = S
  BY DEF Unsatisfied

\* The sides a packet may leave by when it is flooded.
LEMMA FloodsOpen ==
  ASSUME SidesInv, TablesInv, NEW p, NEW src
  PROVE  LET open == {s \in DOMAIN sides : Allowed(src, p.ty, s)}
         IN /\ kind = "relay" => RelayEligible(src, p.ty, FALSE) = open
            /\ kind = "router" => RouterEligible(src, p.ty, FALSE) = open
  BY DEF Allowed, RelayEligible, RouterEligible, TablesInv

LEMMA PlansFallBack ==
  ASSUME SidesInv, TablesInv, NEW p \in Packets, p.ty \in {"plain", "reliable"}, NEW src,
         HasNonlocal(p), NEW open, open = {s \in DOMAIN sides : Allowed(src, p.ty, s)}, open # {},
         src \in DOMAIN modes /\ modes[src] = "weighted" => \A s \in open : WeightOf(src, s) > 0,
         ~\E a \in acked : a[1] = p.id
  PROVE  PlanOf(p, src).to # {}
  <1> DEFINE c == PlanOf(p, src)
             d == p.ty # "reliable"
  <1> SUFFICES c.to # {}
    OBVIOUS
  <1>1. ~LinkLocalOnly(p)
    BY DEF LinkLocalOnly, HasNonlocal
  <1>2. p.ty # "discovery" /\ p.ty # "ack" /\ d \in BOOLEAN
    OBVIOUS
  <1>3. Exact(p, src) \subseteq open /\ Generic(p, src) \subseteq open /\ open \subseteq DOMAIN sides
    BY CandidateFacts
  <1>4. \E S \in SUBSET open : S # {} /\ Chosen(c, src, S)
    <2>1. CASE kind = "relay"
      <3>0. c = RelayPlan(p, src)
        BY <2>1 DEF PlanOf
      <3>1. CASE Exact(p, src) # {}
        <4>1. c = RelaySelect(src, Exact(p, src), d)
          BY <1>2, <3>0, <3>1, NothingAcknowledged DEF RelayPlan
        <4> HIDE DEF c, d
        <4> QED
          BY <1>2, <1>3, <3>1, <4>1, RelaySelectChooses
      <3>2. CASE Exact(p, src) = {} /\ Generic(p, src) # {}
        <4>1. c = RelaySelect(src, Generic(p, src), d)
          BY <1>2, <3>0, <3>2, NothingAcknowledged DEF RelayPlan
        <4> HIDE DEF c, d
        <4> QED
          BY <1>2, <1>3, <3>2, <4>1, RelaySelectChooses
      <3>3. CASE Exact(p, src) = {} /\ Generic(p, src) = {}
        <4>1. c = RelaySelect(src, RelayEligible(src, p.ty, LinkLocalOnly(p)), FALSE)
          BY <1>2, <3>0, <3>3 DEF RelayPlan
        <4>2. LinkLocalOnly(p) = FALSE
          BY <1>1 DEF LinkLocalOnly
        <4>3. c = RelaySelect(src, open, FALSE)
          BY <2>1, <4>1, <4>2, FloodsOpen
        <4> HIDE DEF c
        <4> QED
          BY <1>3, <4>3, RelaySelectChooses
      <3> QED
        BY <3>1, <3>2, <3>3
    <2>2. CASE kind = "router"
      <3>0. c = RouterPlan(p, src)
        BY <2>2 DEF PlanOf
      <3>1. CASE Exact(p, src) # {}
        <4>1. c = RouterSelect(src, Exact(p, src), d)
          BY <1>2, <3>0, <3>1 DEF RouterPlan
        <4> HIDE DEF c, d
        <4> QED
          BY <1>2, <1>3, <3>1, <4>1, SelectChooses
      <3>2. CASE Exact(p, src) = {} /\ Generic(p, src) # {}
        <4>1. c = RouterSelect(src, Generic(p, src), d)
          BY <1>2, <3>0, <3>2 DEF RouterPlan
        <4> HIDE DEF c, d
        <4> QED
          BY <1>2, <1>3, <3>2, <4>1, SelectChooses
      <3>3. CASE Exact(p, src) = {} /\ Generic(p, src) = {}
        <4>1. c = RouterSelect(src, RouterEligible(src, p.ty, FALSE), FALSE)
          BY <1>1, <1>2, <3>0, <3>3 DEF RouterPlan
        <4>2. c = RouterSelect(src, open, FALSE)
          BY <2>2, <4>1, FloodsOpen
        <4> HIDE DEF c
        <4> QED
          BY <1>3, <4>2, SelectChooses
      <3> QED
        BY <3>1, <3>2, <3>3
    <2> QED
      BY <2>1, <2>2 DEF TablesInv
  <1> HIDE DEF c
  <1>5. PICK S \in SUBSET open : S # {} /\ Chosen(c, src, S)
    BY <1>4
  <1> QED
    BY <1>3, <1>5, OpenChosen

-----------------------------------------------------------------------------
(* What the operations on tables, queues and tasks keep.                   *)

LEMMA WithNumeric ==
  ASSUME NEW f, Numeric(f), NEW k, NEW v \in Nat
  PROVE  Numeric(With(f, k, v))
  BY DEF Numeric, With

LEMMA WithoutNumeric ==
  ASSUME NEW f, Numeric(f), NEW K
  PROVE  Numeric(Without(f, K))
  BY DEF Numeric, Without, Restrict

LEMMA WithLookup ==
  ASSUME NEW f, NEW k, NEW v, NEW d
  PROVE  /\ DOMAIN With(f, k, v) = DOMAIN f \cup {k}
         /\ Lookup(With(f, k, v), k, d) = v
         /\ \A x : x # k => Lookup(With(f, k, v), x, d) = Lookup(f, x, d)
         /\ With(f, k, v)[k] = v
         /\ \A x \in DOMAIN f : x # k => With(f, k, v)[x] = f[x]
  BY DEF With, Lookup

LEMMA WithoutLookup ==
  ASSUME NEW f, NEW K, NEW d
  PROVE  /\ DOMAIN Without(f, K) = DOMAIN f \ K
         /\ \A x : x \notin K => Lookup(Without(f, K), x, d) = Lookup(f, x, d)
         /\ \A x \in DOMAIN f \ K : Without(f, K)[x] = f[x]
  BY DEF Without, Restrict, Lookup

LEMMA SeqGrows ==
  ASSUME NEW S, NEW T, S \subseteq T, NEW q \in Seq(S)
  PROVE  q \in Seq(T)
  <1>1. Len(q) \in Nat /\ \A i \in 1..Len(q) : q[i] \in T
    BY ElementOfSeq, LenProperties
  <1>2. q = [i \in 1..Len(q) |-> q[i]]
    BY LenProperties
  <1> QED
    BY <1>1, <1>2, IsASeq

\* More arrivals leave traced jobs traced.
LEMMA TracedGrows ==
  ASSUME NEW via, NEW more, via \subseteq more
  PROVE  /\ \A p : Traced(p, via) \subseteq Traced(p, more)
         /\ TxItems(via) \subseteq TxItems(more)
  BY DEF Traced, TxItems

LEMMA SoundGrows ==
  ASSUME NEW via, NEW more, via \subseteq more, NEW t, Sound(t, via)
  PROVE  Sound(t, more)
  <1>1. t.jobs \in Seq(Traced(t.p, via)) /\ Traced(t.p, via) \subseteq Traced(t.p, more)
    BY TracedGrows DEF Sound
  <1>2. t.jobs \in Seq(Traced(t.p, more))
    BY <1>1, SeqGrows
  <1> QED
    BY <1>2 DEF Sound

LEMMA WorkingGrows ==
  ASSUME NEW via, NEW more, via \subseteq more, NEW f, Working(f, via)
  PROVE  Working(f, more)
  BY SoundGrows DEF Working

LEMMA TaskChange ==
  ASSUME NEW f, NEW via, Working(f, via), NEW w \in Workers, NEW t, Sound(t, via)
  PROVE  Working([f EXCEPT ![w] = t], via)
  BY DEF Working, Sound

\* What a worker that is not idle works on.
LEMMA TaskFacts ==
  ASSUME WorkInv, NEW w \in Workers
  PROVE  /\ work \in [Workers -> Task] /\ work[w] \in Task /\ Sound(work[w], came)
         /\ work[w].jobs \in Seq(Meant)
         /\ work[w].jobs # <<>> =>
              /\ Head(work[w].jobs) \in Traced(work[w].p, came)
              /\ Head(work[w].jobs) \in Meant
              /\ Tail(work[w].jobs) \in Seq(Traced(work[w].p, came))
              /\ Tail(work[w].jobs) \in Seq(Meant)
              /\ Len(work[w].jobs) \in Nat \ {0}
  <1>1. Sound(work[w], came) /\ work \in [Workers -> Task] /\ work[w] \in Task
    BY DEF WorkInv, Working
  <1>2. work[w].jobs \in Seq(Traced(work[w].p, came))
    BY <1>1 DEF Sound
  <1>3. Traced(work[w].p, came) \subseteq Meant
    BY DEF Traced
  <1>4. work[w].jobs \in Seq(Meant)
    BY <1>2, <1>3, SeqGrows
  <1>5. ASSUME work[w].jobs # <<>>
        PROVE  /\ Head(work[w].jobs) \in Traced(work[w].p, came)
               /\ Tail(work[w].jobs) \in Seq(Traced(work[w].p, came))
               /\ Tail(work[w].jobs) \in Seq(Meant)
               /\ Len(work[w].jobs) \in Nat \ {0}
    <2> DEFINE q == work[w].jobs
               T == Traced(work[w].p, came)
    <2>1. Head(q) \in T /\ Tail(q) \in Seq(T)
      <3>1. q \in Seq(T) /\ q # <<>>
        BY <1>2, <1>5
      <3> HIDE DEF q, T
      <3> QED
        BY <3>1, PopProperties
    <2>2. Tail(q) \in Seq(Meant)
      <3>1. T \subseteq Meant
        BY <1>3
      <3> HIDE DEF q, T
      <3> QED
        BY <2>1, <3>1, SeqGrows
    <2>3. Len(q) \in Nat \ {0}
      BY <1>4, <1>5, EmptySeq
    <2> QED
      BY <2>1, <2>2, <2>3
  <1> QED
    BY <1>1, <1>3, <1>4, <1>5

\* A worker that starts anew: a task with the given jobs and no callback.
Started(pc, p, src, jobs, how) ==
  [pc |-> pc, p |-> p, src |-> src, jobs |-> jobs, how |-> how, side |-> 0]

LEMMA StartedSound ==
  ASSUME NEW via, NEW pc \in {"admitted", "asked", "planned"}, NEW p \in Packets, NEW src \in Sources,
         NEW jobs \in Seq(Traced(p, via)), NEW how \in {"none", "broadcast", "relay", "queue", "drain"},
         pc = "admitted" => src \in SideIds
  PROVE  Sound(Started(pc, p, src, jobs, how), via)
  <1>1. jobs \in Seq(Meant)
    <2>1. Traced(p, via) \subseteq Meant
      BY DEF Traced
    <2> QED
      BY <2>1, SeqGrows
  <1>2. 0 \in 0..MaxSides
    BY SetupAssumption
  <1> QED
    BY <1>1, <1>2 DEF Started, Sound, Task

LEMMA IdleSound ==
  ASSUME NEW via
  PROVE  Sound(Idle, via)
  <1>1. 0 \in 0..MaxSides /\ <<>> \in Seq(Meant) /\ <<>> \in Seq(Traced(None, via))
    BY SetupAssumption, EmptySeq
  <1> QED
    BY <1>1 DEF Idle, Sound, Task, Sources

LEMMA Begins ==
  ASSUME WorkInv, NEW w \in Workers,
         NEW pc \in {"admitted", "asked", "planned"}, NEW p \in Packets, NEW src \in Sources,
         NEW jobs \in Seq(Traced(p, came)), NEW how \in {"none", "broadcast", "relay", "queue", "drain"},
         pc = "admitted" => src \in SideIds,
         Go(w, pc, p, src, jobs, how), came' = came
  PROVE  WorkInv'
  <1>1. work' = [work EXCEPT ![w] = Started(pc, p, src, jobs, how)]
    BY DEF Go, Started
  <1>2. Sound(Started(pc, p, src, jobs, how), came)
    BY StartedSound
  <1> QED
    BY <1>1, <1>2, TaskChange DEF WorkInv

LEMMA Rests ==
  ASSUME WorkInv, NEW w \in Workers, Rest(w), came' = came
  PROVE  WorkInv'
  BY IdleSound, TaskChange DEF WorkInv, Rest

LEMMA WorkKept ==
  ASSUME WorkInv, work' = work, came' = came
  PROVE  WorkInv'
  BY DEF WorkInv

\* Jobs to sides that are registered are meant for them.
LEMMA JobsTraced ==
  ASSUME SidesInv, NEW p, NEW S \in SUBSET (DOMAIN sides),
         p.ty = "ack" => \A s \in S : <<p.id, s>> \in came
  PROVE  Jobs(S) \in Seq(Traced(p, came))
  <1>1. MaxSides \in Nat /\ S \in SUBSET (1..MaxSides)
    BY SideFacts DEF SideIds
  <1>2. Cardinality(S) \in Nat /\ \A i \in 1..Cardinality(S) : Ascending(S)[i] \in S
    BY <1>1, UptoFinite, AscendingLists
  <1>3. ASSUME NEW s \in S PROVE Job(s) \in Traced(p, came)
    BY SideFacts DEF Job, Traced, Meant
  <1>4. \A i \in 1..Cardinality(S) : Job(Ascending(S)[i]) \in Traced(p, came)
    BY <1>2, <1>3
  <1>5. Jobs(S) = [i \in 1..Cardinality(S) |-> Job(Ascending(S)[i])]
    BY DEF Jobs
  <1> QED
    BY <1>2, <1>4, <1>5, IsASeq

-----------------------------------------------------------------------------
(* Steps of the traffic keep the invariant.                                *)

\* What sending and receiving leave alone.  Only a router's plans, and the plan of
\* a relay that is carried out, touch cursors.
LEMMA TrafficKeeps ==
  ASSUME RoutesInv, UNCHANGED plumbing, Numeric(cursors'), Numeric(stats'),
         kind = "router" \/ UNCHANGED <<cursors, turns>>
  PROVE  SidesInv' /\ TablesInv' /\ TurnsInv'
  <1>1. UNCHANGED <<kind, sides, weights, prios, modes>>
    BY DEF plumbing, policy
  <1>2. SidesInv'
    BY <1>1 DEF RoutesInv, SidesInv
  <1>3. TablesInv'
    BY <1>1 DEF RoutesInv, TablesInv
  <1>4. TurnsInv'
    BY <1>1 DEF RoutesInv, TurnsInv
  <1> QED
    BY <1>2, <1>3, <1>4

LEMMA RestKept ==
  ASSUME RoutesInv, UNCHANGED <<plumbing, cursors, stats, returns, came, turns>>
  PROVE  SidesInv' /\ TablesInv' /\ TurnsInv' /\ ReturnsInv'
  <1>1. Numeric(cursors') /\ Numeric(stats')
    BY DEF RoutesInv, TablesInv
  <1> QED
    BY <1>1, TrafficKeeps DEF RoutesInv, ReturnsInv

LEMMA CursorMoved ==
  ASSUME RoutesInv, NEW src, NEW c, MovesCursor(src, c)
  PROVE  Numeric(cursors') /\ (UNCHANGED stats => Numeric(stats'))
  <1>1. Numeric(cursors) /\ Numeric(stats)
    BY DEF RoutesInv, TablesInv
  <1>2. Lookup(cursors, src, 0) + 1 \in Nat
    BY <1>1, LookupNumber
  <1> QED
    BY <1>1, <1>2, WithNumeric DEF MovesCursor

LEMMA QueuesKept ==
  ASSUME RoutesInv, UNCHANGED <<txq, rxq, came>>
  PROVE  QueuesInv'
  BY DEF RoutesInv, QueuesInv

LEMMA SubmitKeeps ==
  ASSUME RoutesInv, NEW w \in Workers, NEW p \in Packets, Submit(w, p)
  PROVE  RoutesInv'
  <1> DEFINE c == RouterPlan(p, Local)
  <1>1. /\ kind = "router" /\ MovesCursor(Local, c)
        /\ UNCHANGED <<plumbing, stats, returns, rxq, txq, came>>
        /\ Rest(w) \/ Go(w, "asked", p, Local, <<>>, "broadcast")
    BY DEF Submit
  <1>2. SidesInv' /\ TablesInv' /\ TurnsInv'
    BY <1>1, CursorMoved, TrafficKeeps
  <1>3. WorkInv'
    <2>1. <<>> \in Seq(Traced(p, came)) /\ Local \in Sources
      BY EmptySeq DEF Sources
    <2> QED
      BY <1>1, <2>1, Begins, Rests DEF RoutesInv
  <1> QED
    BY <1>1, <1>2, <1>3, QueuesKept DEF RoutesInv, ReturnsInv

LEMMA QueueRxKeeps ==
  ASSUME RoutesInv, NEW src \in SideIds, NEW p \in Packets, NEW isr \in BOOLEAN, QueueRx(src, p, isr)
  PROVE  RoutesInv'
  <1> DEFINE i == [src |-> src, p |-> p, isr |-> isr]
  <1>1. rxq' = Append(rxq, i) /\ UNCHANGED <<plumbing, cursors, stats, returns, txq, work, came, turns>>
    BY DEF QueueRx
  <1>2. QueuesInv'
    <2>1. i \in RxItems /\ rxq \in Seq(RxItems)
      BY DEF RxItems, RoutesInv, QueuesInv
    <2>2. Append(rxq, i) \in Seq(RxItems)
      <3> HIDE DEF i
      <3> QED
        BY <2>1, AppendProperties
    <2> QED
      BY <1>1, <2>2 DEF RoutesInv, QueuesInv
  <1> QED
    BY <1>1, <1>2, RestKept, WorkKept DEF RoutesInv

LEMMA TakeRxKeeps ==
  ASSUME RoutesInv, NEW w \in Workers, TakeRx(w)
  PROVE  RoutesInv'
  <1> DEFINE i == Head(rxq)
  <1>1. /\ rxq # <<>> /\ rxq' = Tail(rxq)
        /\ UNCHANGED <<plumbing, cursors, stats, returns, txq, came, turns>>
        /\ Rest(w) \/ Go(w, "admitted", i.p, i.src, <<>>, "queue")
    BY DEF TakeRx
  <1>2. i \in RxItems /\ Tail(rxq) \in Seq(RxItems)
    BY <1>1, PopProperties DEF RoutesInv, QueuesInv
  <1>3. QueuesInv'
    BY <1>1, <1>2 DEF RoutesInv, QueuesInv
  <1>4. WorkInv'
    <2>1. i.p \in Packets /\ i.src \in SideIds /\ i.src \in Sources /\ <<>> \in Seq(Traced(i.p, came))
      BY <1>2, EmptySeq DEF RxItems, Sources
    <2> HIDE DEF i
    <2> QED
      BY <1>1, <2>1, Begins, Rests DEF RoutesInv
  <1> QED
    BY <1>1, <1>3, <1>4, RestKept DEF RoutesInv

LEMMA TakeNowKeeps ==
  ASSUME RoutesInv, NEW w \in Workers, NEW src \in SideIds, NEW p \in Packets, TakeNow(w, src, p)
  PROVE  RoutesInv'
  <1>1. /\ UNCHANGED <<plumbing, cursors, stats, returns, rxq, txq, came, turns>>
        /\ Go(w, "admitted", p, src, <<>>, "relay")
    BY DEF TakeNow
  <1>2. WorkInv'
    <2>1. src \in Sources /\ <<>> \in Seq(Traced(p, came))
      BY EmptySeq DEF Sources
    <2> QED
      BY <1>1, <2>1, Begins DEF RoutesInv
  <1> QED
    BY <1>1, <1>2, RestKept, QueuesKept DEF RoutesInv

\* The return route of a packet is the side it just came from.
LEMMA NoteKeeps ==
  ASSUME RoutesInv, NEW w \in Workers, Note(w)
  PROVE  RoutesInv'
  <1> DEFINE p == work[w].p
             src == work[w].src
  <1>1. /\ work[w].pc = "admitted"
        /\ returns' = IF p.ty = "reliable" THEN With(returns, p.id, src) ELSE returns
        /\ came' = IF p.ty = "reliable" THEN came \cup {<<p.id, src>>} ELSE came
        /\ work' = [work EXCEPT ![w].pc = "noted"]
        /\ UNCHANGED <<plumbing, cursors, stats, rxq, txq, turns>>
    BY DEF Note
  <1>2. came \subseteq came'
    BY <1>1
  <1>3. SidesInv' /\ TablesInv' /\ TurnsInv'
    BY <1>1, TrafficKeeps DEF RoutesInv, TablesInv
  <1>4. QueuesInv'
    <2>1. TxItems(came) \subseteq TxItems(came') /\ txq \in Seq(TxItems(came)) /\ rxq \in Seq(RxItems)
      BY <1>2, TracedGrows DEF RoutesInv, QueuesInv
    <2>2. txq \in Seq(TxItems(came'))
      BY <2>1, SeqGrows
    <2> QED
      BY <1>1, <2>1, <2>2 DEF QueuesInv
  <1>5. WorkInv'
    <2>1. Working(work, came') /\ work[w] \in Task /\ Sound(work[w], came')
      BY <1>2, WorkingGrows, TaskFacts, SoundGrows DEF RoutesInv, WorkInv
    <2> DEFINE t == [work[w] EXCEPT !.pc = "noted"]
    <2>2. Sound(t, came')
      BY <1>1, <2>1 DEF Sound, Task
    <2>3. work' = [work EXCEPT ![w] = t]
      BY <1>1
    <2> HIDE DEF t
    <2> QED
      BY <2>1, <2>2, <2>3, TaskChange DEF WorkInv
  <1>6. ReturnsInv'
    BY <1>1, <1>2 DEF RoutesInv, ReturnsInv, With
  <1> QED
    BY <1>3, <1>4, <1>5, <1>6 DEF RoutesInv

\* Plans lead to jobs that are traced.
LEMMA PlannedJobs ==
  ASSUME RoutesInv, NEW p, NEW src, NEW c, Planned(c, p, src)
  PROVE  Jobs(c.to) \in Seq(Traced(p, came))
  <1>1. c.to \in SUBSET (DOMAIN sides) /\ (p.ty = "ack" => \A s \in c.to : <<p.id, s>> \in came)
    BY DEF Planned, RoutesInv, ReturnsInv
  <1> QED
    BY <1>1, JobsTraced DEF RoutesInv

\* The packet a worker is working on, and where it came from.
LEMMA WorksOn ==
  ASSUME RoutesInv, NEW w \in Workers, work[w].pc # "idle"
  PROVE  /\ work[w].p \in Packets /\ work[w].src \in Sources
         /\ work[w].how \in {"none", "broadcast", "relay", "queue", "drain"}
         /\ work[w].pc = "noted" => work[w].src \in SideIds
  BY TaskFacts DEF RoutesInv, Sound, Task

LEMMA AskKeeps ==
  ASSUME RoutesInv, NEW w \in Workers, Ask(w)
  PROVE  RoutesInv'
  <1> DEFINE c == RouterPlan(work[w].p, work[w].src)
  <1>1. /\ kind = "router" /\ work[w].pc = "noted"
        /\ cursors' = cursors \/ MovesCursor(work[w].src, c)
        /\ UNCHANGED <<plumbing, stats, returns, rxq, txq, came>>
        /\ Rest(w) \/ work' = [work EXCEPT ![w].pc = "asked"]
    BY DEF Ask
  <1>2. Numeric(cursors') /\ Numeric(stats')
    <2> HIDE DEF c
    <2> QED
      BY <1>1, CursorMoved DEF RoutesInv, TablesInv
  <1>3. SidesInv' /\ TablesInv' /\ TurnsInv'
    BY <1>1, <1>2, TrafficKeeps
  <1>4. WorkInv'
    <2>1. CASE Rest(w)
      BY <1>1, <2>1, Rests DEF RoutesInv
    <2>2. CASE work' = [work EXCEPT ![w].pc = "asked"]
      <3> DEFINE t == [work[w] EXCEPT !.pc = "asked"]
      <3>1. Sound(work[w], came) /\ work[w] \in Task
        BY TaskFacts DEF RoutesInv
      <3>2. Sound(t, came)
        BY <1>1, <3>1 DEF Sound, Task
      <3>3. work' = [work EXCEPT ![w] = t]
        BY <2>2
      <3> HIDE DEF t
      <3> QED
        BY <1>1, <3>2, <3>3, TaskChange DEF WorkInv, RoutesInv
    <2> QED
      BY <1>1, <2>1, <2>2
  <1> QED
    BY <1>1, <1>3, <1>4, QueuesKept DEF RoutesInv, ReturnsInv

LEMMA RouterPlansKeeps ==
  ASSUME RoutesInv, NEW w \in Workers, RouterPlans(w)
  PROVE  RoutesInv'
  <1> DEFINE p == work[w].p
             src == work[w].src
             c == RouterPlan(p, src)
  <1>1. /\ kind = "router" /\ work[w].pc = "asked" /\ MovesCursor(src, c)
        /\ UNCHANGED <<plumbing, stats, returns, rxq, txq, came>>
        /\ Go(w, "planned", p, src, Jobs(c.to), work[w].how)
    BY DEF RouterPlans
  <1>2. SidesInv' /\ TablesInv' /\ TurnsInv'
    <2> HIDE DEF c
    <2> QED
      BY <1>1, CursorMoved, TrafficKeeps
  <1>3. WorkInv'
    <2>1. /\ p \in Packets /\ src \in Sources
          /\ work[w].how \in {"none", "broadcast", "relay", "queue", "drain"}
      BY <1>1, WorksOn
    <2>2. Planned(c, p, src)
      BY RouterPlanned DEF RoutesInv
    <2>3. Jobs(c.to) \in Seq(Traced(p, came))
      <3> HIDE DEF c, p, src
      <3> QED
        BY <2>2, PlannedJobs
    <2>4. came' = came /\ WorkInv
      BY <1>1 DEF RoutesInv
    <2>5. PICK jobs \in Seq(Traced(p, came)) : jobs = Jobs(c.to)
      BY <2>3
    <2>6. PICK how \in {"none", "broadcast", "relay", "queue", "drain"} : how = work[w].how
      BY <2>1
    <2>7. Go(w, "planned", p, src, jobs, how)
      BY <1>1, <2>5, <2>6
    <2> HIDE DEF c, p, src
    <2> QED
      BY <2>1, <2>4, <2>7, Begins
  <1> QED
    BY <1>1, <1>2, <1>3, QueuesKept DEF RoutesInv, ReturnsInv

\* A weighted choice goes on with the turns of its source or begins them anew.
LEMMA TurnTaken ==
  ASSUME RoutesInv, kind = "relay", NEW src, NEW C \in SUBSET (DOMAIN sides), NEW c,
         c.how = "weighted", c.to \subseteq DOMAIN sides,
         c = ByWeight(src, [s \in C |-> WeightOf(src, s)], "weighted"),
         MovesCursor(src, c), Tells(src, C, c)
  PROVE  /\ DOMAIN turns' = DOMAIN turns \cup {src}
         /\ \A x \in DOMAIN turns : x # src => turns'[x] = turns[x]
         /\ Follows(turns'[src], Lookup(cursors', src, 0))
  <1> DEFINE now == [s \in C |-> WeightOf(src, s)]
             T == Total(now)
             L == Lookup(cursors, src, 0)
             goes_on == src \in DOMAIN turns /\ turns[src].among = now /\ Len(turns[src].took) < T
             took == IF goes_on THEN Append(turns[src].took, c.to) ELSE <<c.to>>
  <1>1. turns' = With(turns, src, [among |-> now, took |-> took])
    BY DEF Tells
  <1>2. /\ DOMAIN turns' = DOMAIN turns \cup {src}
        /\ \A x \in DOMAIN turns : x # src => turns'[x] = turns[x]
        /\ turns'[src] = [among |-> now, took |-> took]
    <2> HIDE DEF now, took
    <2> QED
      BY <1>1 DEF With
  <1>3. Weighing(now) /\ c.to \in SUBSET SideIds /\ L \in Nat
    <2>1. Weighing(now)
      BY WeightsWeigh DEF RoutesInv
    <2>2. L \in Nat
      BY LookupNumber DEF RoutesInv, TablesInv
    <2>3. c.to \in SUBSET SideIds
      BY SideFacts DEF RoutesInv
    <2> QED
      BY <2>1, <2>2, <2>3
  <1>4. T \in Nat
    <2> HIDE DEF now
    <2> QED
      BY <1>3, ShareFacts
  <1>5. goes_on => Follows(turns[src], L)
    BY DEF RoutesInv, TurnsInv, TurnsFollow
  <1>6. T # 0 => c.to = {AtShare(now, L % T)} /\ Lookup(cursors', src, 0) = L + 1
    <2> SUFFICES ASSUME T # 0 PROVE c.to = {AtShare(now, L % T)} /\ Lookup(cursors', src, 0) = L + 1
      OBVIOUS
    <2>1. c = Choice({AtShare(now, L % T)}, TRUE, "weighted")
      BY DEF ByWeight
    <2>2. c.moved /\ c.to = {AtShare(now, L % T)}
      <3> HIDE DEF now, T, L
      <3> QED
        BY <2>1 DEF Choice
    <2>3. cursors' = With(cursors, src, L + 1)
      BY <2>2 DEF MovesCursor
    <2>4. Lookup(cursors', src, 0) = L + 1
      <3> HIDE DEF now, T, L
      <3> QED
        BY <2>3 DEF With, Lookup
    <2> QED
      BY <2>2, <2>4
  <1>7. Follows([among |-> now, took |-> took], Lookup(cursors', src, 0))
    <2>1. CASE goes_on
      <3> DEFINE q == turns[src].took
      <3>1. q \in Seq(SUBSET SideIds) /\ Len(q) >= 1 /\ took = Append(q, c.to)
        BY <1>5, <2>1 DEF Follows
      <3>2. T # 0 => \E base \in Nat :
                       /\ L = base + Len(q)
                       /\ \A i \in 1..Len(q) : q[i] = {AtShare(now, (base + i - 1) % T)}
        BY <1>5, <2>1 DEF Follows
      <3> HIDE DEF q, took, goes_on, L, T, now
      <3>3. /\ took \in Seq(SUBSET SideIds) /\ Len(took) = Len(q) + 1 /\ Len(q) \in Nat
            /\ \A i \in 1..Len(q) : took[i] = q[i]
            /\ took[Len(q) + 1] = c.to
        BY <1>3, <3>1, AppendProperties, LenProperties
      <3>4. ASSUME T # 0
            PROVE  \E base \in Nat :
                     /\ Lookup(cursors', src, 0) = base + Len(took)
                     /\ \A i \in 1..Len(took) : took[i] = {AtShare(now, (base + i - 1) % T)}
        <4>1. PICK base \in Nat : /\ L = base + Len(q)
                                  /\ \A i \in 1..Len(q) : q[i] = {AtShare(now, (base + i - 1) % T)}
          BY <3>2, <3>4
        <4>2. Lookup(cursors', src, 0) = base + Len(took)
          BY <1>6, <3>3, <3>4, <4>1
        <4>3. base + (Len(q) + 1) - 1 = L
          BY <3>3, <4>1
        <4>4. ASSUME NEW i \in 1..Len(took)
              PROVE  took[i] = {AtShare(now, (base + i - 1) % T)}
          <5>1. CASE i = Len(q) + 1
            BY <1>6, <3>3, <3>4, <4>3, <5>1
          <5>2. CASE i \in 1..Len(q)
            BY <3>3, <4>1, <5>2
          <5> QED
            BY <3>3, <5>1, <5>2
        <4> QED
          BY <4>2, <4>4
      <3>5. Len(took) >= 1
        BY <3>3
      <3> QED
        BY <1>3, <3>3, <3>4, <3>5 DEF Follows, T
    <2>2. CASE ~goes_on
      <3>1. took = <<c.to>>
        BY <2>2
      <3> HIDE DEF took, goes_on, L, T, now
      <3>2. took \in Seq(SUBSET SideIds) /\ Len(took) = 1 /\ took[1] = c.to
        BY <1>3, <3>1
      <3>3. ASSUME T # 0
            PROVE  \E base \in Nat :
                     /\ Lookup(cursors', src, 0) = base + Len(took)
                     /\ \A i \in 1..Len(took) : took[i] = {AtShare(now, (base + i - 1) % T)}
        <4>1. L + 1 - 1 = L
          BY <1>3
        <4>2. took[1] = {AtShare(now, (L + 1 - 1) % T)}
          BY <1>6, <3>2, <3>3, <4>1
        <4>3. Lookup(cursors', src, 0) = L + Len(took)
          BY <1>6, <3>2, <3>3
        <4>4. \A i \in 1..Len(took) : took[i] = {AtShare(now, (L + i - 1) % T)}
          BY <3>2, <4>2
        <4> QED
          BY <1>3, <4>3, <4>4
      <3>4. Len(took) >= 1
        BY <3>2
      <3> QED
        BY <1>3, <3>2, <3>3, <3>4 DEF Follows, T
    <2> QED
      BY <2>1, <2>2
  <1> QED
    BY <1>2, <1>7

LEMMA RelayPlansKeeps ==
  ASSUME RoutesInv, NEW w \in Workers, RelayPlans(w)
  PROVE  RoutesInv'
  <1> DEFINE p == work[w].p
             src == work[w].src
             c == RelayPlan(p, src)
             C == Candidates(p, src)
  <1>1. /\ kind = "relay" /\ work[w].pc = "noted" /\ MovesCursor(src, c) /\ Tells(src, C, c)
        /\ UNCHANGED <<plumbing, stats, returns, rxq, txq, came>>
        /\ Go(w, "planned", p, src, Jobs(c.to), "queue")
    BY DEF RelayPlans
  <1>2. RelayPlanFacts(c, p, src, C)
    BY <1>1, RelayPlanned DEF RoutesInv
  <1>3. p \in Packets /\ src \in Sources
    BY <1>1, WorksOn
  <1> HIDE DEF c, C, p, src
  <1>4. /\ Planned(c, p, src) /\ C \in SUBSET (DOMAIN sides) /\ c.to \subseteq DOMAIN sides
        /\ c.how = "weighted" => /\ src \in DOMAIN modes
                                 /\ c = ByWeight(src, [s \in C |-> WeightOf(src, s)], "weighted")
        /\ c.how # "weighted" /\ c.moved => src \notin DOMAIN modes
    BY <1>2 DEF RelayPlanFacts, Planned
  <1>5. /\ UNCHANGED <<kind, sides, weights, prios, modes>>
        /\ Numeric(cursors') /\ Numeric(stats')
    BY <1>1, CursorMoved DEF plumbing, policy
  <1>6. SidesInv' /\ TablesInv'
    BY <1>5 DEF RoutesInv, SidesInv, TablesInv
  <1>7. \A x : x # src => Lookup(cursors', x, 0) = Lookup(cursors, x, 0)
    BY <1>1 DEF MovesCursor, With, Lookup
  <1>8. TurnsInv'
    <2>1. \A x \in DOMAIN turns : x \in DOMAIN modes /\ Follows(turns[x], Lookup(cursors, x, 0))
      BY <1>1 DEF RoutesInv, TurnsInv, TurnsFollow
    <2>2. CASE c.how = "weighted"
      <3>1. /\ DOMAIN turns' = DOMAIN turns \cup {src}
            /\ \A x \in DOMAIN turns : x # src => turns'[x] = turns[x]
            /\ Follows(turns'[src], Lookup(cursors', src, 0))
        BY <1>1, <1>4, <2>2, TurnTaken
      <3> QED
        BY <1>4, <1>5, <1>7, <2>1, <2>2, <3>1 DEF TurnsInv, TurnsFollow
    <2>3. CASE c.how # "weighted"
      <3>1. turns' = turns
        BY <1>1, <2>3 DEF Tells
      <3>2. CASE c.moved
        BY <1>4, <1>5, <1>7, <2>1, <2>3, <3>1, <3>2 DEF TurnsInv, TurnsFollow
      <3>3. CASE ~c.moved
        BY <1>1, <1>5, <2>1, <3>1, <3>3 DEF TurnsInv, TurnsFollow, MovesCursor
      <3> QED
        BY <3>2, <3>3
    <2> QED
      BY <2>2, <2>3
  <1>9. WorkInv'
    <2>1. Jobs(c.to) \in Seq(Traced(p, came))
      BY <1>4, PlannedJobs
    <2>2. came' = came /\ WorkInv
      BY <1>1 DEF RoutesInv
    <2>3. PICK jobs \in Seq(Traced(p, came)) : jobs = Jobs(c.to)
      BY <2>1
    <2>4. Go(w, "planned", p, src, jobs, "queue")
      BY <1>1, <2>3
    <2> QED
      BY <1>3, <2>2, <2>4, Begins
  <1> QED
    BY <1>1, <1>6, <1>8, <1>9, QueuesKept DEF RoutesInv, ReturnsInv

\* Jobs become items of the transmit queue.
LEMMA ItemsQueued ==
  ASSUME NEW via, NEW q \in Seq(TxItems(via)), NEW p \in Packets, NEW src \in Sources,
         NEW jobs \in Seq(Traced(p, via))
  PROVE  q \o [i \in DOMAIN jobs |-> [src |-> src, p |-> p, job |-> jobs[i]]] \in Seq(TxItems(via))
  <1> DEFINE item(i) == [src |-> src, p |-> p, job |-> jobs[i]]
             items == [i \in 1..Len(jobs) |-> item(i)]
  <1>1. Len(jobs) \in Nat /\ DOMAIN jobs = 1..Len(jobs) /\ \A i \in 1..Len(jobs) : jobs[i] \in Traced(p, via)
    BY LenProperties, ElementOfSeq
  <1>2. \A i \in 1..Len(jobs) : item(i) \in TxItems(via)
    BY <1>1 DEF TxItems, Traced
  <1>3. items \in Seq(TxItems(via))
    <2> HIDE DEF item
    <2> QED
      BY <1>1, <1>2, IsASeq
  <1>4. q \o items \in Seq(TxItems(via))
    <2> HIDE DEF items
    <2> QED
      BY <1>3, ConcatProperties
  <1> QED
    BY <1>1, <1>4

LEMMA EnqueueKeeps ==
  ASSUME RoutesInv, NEW w \in Workers, Enqueue(w)
  PROVE  RoutesInv'
  <1> DEFINE t == work[w]
             items == [i \in DOMAIN t.jobs |-> [src |-> t.src, p |-> t.p, job |-> t.jobs[i]]]
  <1>1. /\ t.pc = "planned" /\ txq' = txq \o items /\ Rest(w)
        /\ UNCHANGED <<plumbing, cursors, stats, returns, rxq, came, turns>>
    BY DEF Enqueue
  <1>2. t.p \in Packets /\ t.src \in Sources /\ t.jobs \in Seq(Traced(t.p, came))
    BY <1>1, WorksOn, TaskFacts DEF RoutesInv, Sound
  <1>3. txq \o items \in Seq(TxItems(came))
    <2>1. txq \in Seq(TxItems(came))
      BY DEF RoutesInv, QueuesInv
    <2>2. PICK p \in Packets, src \in Sources, jobs \in Seq(Traced(t.p, came)) :
             p = t.p /\ src = t.src /\ jobs = t.jobs
      BY <1>2
    <2>3. txq \o [i \in DOMAIN jobs |-> [src |-> src, p |-> p, job |-> jobs[i]]] \in Seq(TxItems(came))
      BY <2>1, <2>2, ItemsQueued
    <2> QED
      BY <2>2, <2>3
  <1>4. QueuesInv'
    <2> HIDE DEF items
    <2> QED
      BY <1>1, <1>3 DEF RoutesInv, QueuesInv
  <1> QED
    BY <1>1, <1>4, RestKept, Rests DEF RoutesInv

LEMMA DrainKeeps ==
  ASSUME RoutesInv, NEW w \in Workers, Drain(w)
  PROVE  RoutesInv'
  <1>1. PICK i \in DOMAIN txq :
          /\ txq' = RemoveAt(txq, i)
          /\ Rest(w) \/ Go(w, "planned", txq[i].p, txq[i].src, <<txq[i].job>>, "drain")
          /\ UNCHANGED <<plumbing, cursors, stats, returns, rxq, came, turns>>
    BY DEF Drain
  <1>2. txq \in Seq(TxItems(came)) /\ i \in 1..Len(txq)
    BY LenProperties DEF RoutesInv, QueuesInv
  <1>3. txq[i] \in TxItems(came) /\ RemoveAt(txq, i) \in Seq(TxItems(came))
    BY <1>2, ElementOfSeq, RemoveAtProperties
  <1>4. QueuesInv'
    BY <1>1, <1>3 DEF RoutesInv, QueuesInv
  <1>5. WorkInv'
    <2>1. /\ txq[i].p \in Packets /\ txq[i].src \in Sources
          /\ txq[i].job \in Traced(txq[i].p, came)
      BY <1>3 DEF TxItems
    <2>2. <<txq[i].job>> \in Seq(Traced(txq[i].p, came))
      BY <2>1
    <2> DEFINE jobs == <<txq[i].job>>
    <2>3. jobs \in Seq(Traced(txq[i].p, came)) /\ (Rest(w) \/ Go(w, "planned", txq[i].p, txq[i].src, jobs, "drain"))
      BY <1>1, <2>2
    <2> HIDE DEF jobs
    <2> QED
      BY <1>1, <2>1, <2>3, Begins, Rests DEF RoutesInv
  <1> QED
    BY <1>1, <1>4, <1>5, RestKept DEF RoutesInv

LEMMA TaskChanged ==
  ASSUME RoutesInv, NEW w \in Workers, NEW t, Sound(t, came),
         work' = [work EXCEPT ![w] = t], came' = came
  PROVE  WorkInv'
  BY TaskChange DEF RoutesInv, WorkInv

\* A job that is done or passed over.
LEMMA NextJob ==
  ASSUME RoutesInv, NEW w \in Workers, work[w].pc # "idle", work[w].jobs # <<>>
  PROVE  Sound([work[w] EXCEPT !.jobs = Tail(@), !.pc = "planned", !.side = 0], came)
  <1>1. /\ work[w] \in Task /\ Sound(work[w], came) /\ Tail(work[w].jobs) \in Seq(Meant)
        /\ Tail(work[w].jobs) \in Seq(Traced(work[w].p, came)) /\ 0 \in 0..MaxSides
    BY TaskFacts, SetupAssumption DEF RoutesInv
  <1> QED
    BY <1>1 DEF Sound, Task

LEMMA CheckKeeps ==
  ASSUME RoutesInv, NEW w \in Workers, Check(w)
  PROVE  RoutesInv'
  <1> DEFINE x == work[w]
             t == [x EXCEPT !.pc = "checked"]
             u == [x EXCEPT !.jobs = Tail(@)]
  <1>1. /\ x.pc = "planned" /\ x.jobs # <<>>
        /\ work' = [work EXCEPT ![w] = t] \/ work' = [work EXCEPT ![w] = u]
        /\ UNCHANGED <<plumbing, cursors, stats, returns, rxq, txq, came, turns>>
    BY DEF Check
  <1>2. /\ x \in Task /\ Sound(x, came) /\ Tail(x.jobs) \in Seq(Meant)
        /\ Tail(x.jobs) \in Seq(Traced(x.p, came))
    BY <1>1, TaskFacts DEF RoutesInv
  <1>3. Sound(t, came) /\ Sound(u, came)
    <2> HIDE DEF x
    <2> QED
      BY <1>1, <1>2 DEF Sound, Task
  <1> HIDE DEF t, u
  <1> QED
    BY <1>1, <1>3, TaskChanged, RestKept, QueuesKept DEF RoutesInv

LEMMA FinishKeeps ==
  ASSUME RoutesInv, NEW w \in Workers, Finish(w)
  PROVE  RoutesInv'
  <1>1. Rest(w) /\ UNCHANGED <<plumbing, cursors, stats, returns, rxq, txq, came, turns>>
    BY DEF Finish
  <1> QED
    BY <1>1, Rests, RestKept, QueuesKept DEF RoutesInv

\* A callback is entered for the side its job is meant for: the slot of a side
\* that is gone is never another side's.
LEMMA CallKeeps ==
  ASSUME RoutesInv, NEW w \in Workers, Call(w)
  PROVE  RoutesInv'
  <1> DEFINE x == work[w]
             j == Head(x.jobs)
             n == IF kind = "relay" THEN j.named ELSE sides[j.dst].name
             t == [x EXCEPT !.pc = "calling", !.side = n]
  <1>1. /\ x.pc = "checked"
        /\ UNCHANGED <<plumbing, cursors, stats, returns, rxq, txq, came, turns>>
        /\ \/ Rest(w)
           \/ work' = [work EXCEPT ![w] = t] /\ ~(kind = "router" /\ ~Live(j.dst))
    BY DEF Call
  <1>2. /\ x \in Task /\ Sound(x, came) /\ x.jobs # <<>> /\ j \in Meant /\ x.pc = "checked"
    BY <1>1, TaskFacts DEF RoutesInv, Sound
  <1>3. ASSUME ~(kind = "router" /\ ~Live(j.dst))
        PROVE  Sound(t, came)
    <2>1. n = j.named
      <3>1. CASE kind = "relay"
        BY <3>1
      <3>2. CASE kind = "router"
        <4>1. j.dst \in DOMAIN sides
          BY <1>3, <3>2 DEF Live
        <4>2. sides[j.dst].name = j.dst /\ j.named = j.dst
          BY <1>2, <4>1, SideFacts DEF Meant, RoutesInv
        <4> QED
          BY <3>2, <4>2
      <3> QED
        BY <3>1, <3>2 DEF RoutesInv, TablesInv
    <2>2. n \in 0..MaxSides
      BY <1>2, <2>1, SetupAssumption DEF Meant, SideIds
    <2> HIDE DEF x, n
    <2> QED
      BY <1>2, <2>1, <2>2 DEF Sound, Task
  <1> HIDE DEF t
  <1>4. WorkInv'
    BY <1>1, <1>3, TaskChanged, Rests DEF RoutesInv
  <1> QED
    BY <1>1, <1>4, RestKept, QueuesKept DEF RoutesInv

LEMMA CallBusyKeeps ==
  ASSUME RoutesInv, NEW w \in Workers, CallBusy(w)
  PROVE  RoutesInv'
  <1> DEFINE x == work[w]
             jobs == IF x.how = "broadcast" THEN x.jobs ELSE <<Head(x.jobs)>>
             items == [i \in DOMAIN jobs |-> [src |-> x.src, p |-> x.p, job |-> jobs[i]]]
             t == [x EXCEPT !.jobs = Tail(@), !.pc = "planned"]
  <1>1. /\ x.pc = "checked"
        /\ UNCHANGED <<plumbing, cursors, stats, returns, rxq, came, turns>>
        /\ txq' = txq \o items \/ txq' = txq
        /\ Rest(w) \/ work' = [work EXCEPT ![w] = t]
    BY DEF CallBusy
  <1>2. /\ x \in Task /\ Sound(x, came) /\ x.jobs # <<>>
        /\ Head(x.jobs) \in Traced(x.p, came)
        /\ Tail(x.jobs) \in Seq(Meant) /\ Tail(x.jobs) \in Seq(Traced(x.p, came))
        /\ x.p \in Packets /\ x.src \in Sources /\ x.jobs \in Seq(Traced(x.p, came))
    BY <1>1, TaskFacts, WorksOn DEF RoutesInv, Sound
  <1>3. Sound(t, came)
    <2> HIDE DEF x
    <2> QED
      BY <1>1, <1>2 DEF Sound, Task
  <1>4. jobs \in Seq(Traced(x.p, came))
    <2> DEFINE T == Traced(x.p, came)
               h == Head(x.jobs)
    <2>1. h \in T /\ x.jobs \in Seq(T)
      BY <1>2
    <2>2. <<h>> \in Seq(T)
      <3> HIDE DEF h, T
      <3> QED
        BY <2>1
    <2> QED
      BY <2>1, <2>2
  <1>5. QueuesInv'
    <2>1. txq \in Seq(TxItems(came)) /\ rxq' = rxq /\ came' = came /\ rxq \in Seq(RxItems)
      BY <1>1 DEF RoutesInv, QueuesInv
    <2>2. txq \o items \in Seq(TxItems(came))
      <3>1. PICK p \in Packets, src \in Sources, q \in Seq(Traced(x.p, came)) :
              p = x.p /\ src = x.src /\ q = jobs
        <4> HIDE DEF x, jobs
        <4> QED
          BY <1>2, <1>4
      <3>2. txq \o [i \in DOMAIN q |-> [src |-> src, p |-> p, job |-> q[i]]] \in Seq(TxItems(came))
        <4> HIDE DEF x, jobs
        <4> QED
          BY <2>1, <3>1, ItemsQueued
      <3> QED
        <4> HIDE DEF x, jobs
        <4> QED
          BY <3>1, <3>2
    <2> HIDE DEF items
    <2> QED
      BY <1>1, <2>1, <2>2 DEF QueuesInv
  <1>6. WorkInv'
    <2> HIDE DEF t
    <2> QED
      BY <1>1, <1>3, TaskChanged, Rests DEF RoutesInv
  <1> QED
    BY <1>1, <1>5, <1>6, RestKept DEF RoutesInv

LEMMA ReturnKeeps ==
  ASSUME RoutesInv, NEW w \in Workers, NEW sample \in Nat, Return(w, sample)
  PROVE  RoutesInv'
  <1> DEFINE x == work[w]
             s == Head(x.jobs).dst
             old == Lookup(stats, s, 0)
             t == [x EXCEPT !.jobs = Tail(@), !.pc = "planned", !.side = 0]
  <1>1. /\ x.pc = "calling"
        /\ stats' = stats \/ stats' = With(stats, s, Observed(old, sample))
        /\ Rest(w) \/ work' = [work EXCEPT ![w] = t]
        /\ UNCHANGED <<plumbing, cursors, returns, rxq, txq, came, turns>>
    BY DEF Return
  <1>2. Sound(t, came)
    BY <1>1, TaskFacts, NextJob DEF RoutesInv, Sound
  <1>3. Numeric(stats') /\ Numeric(cursors')
    <2>1. Numeric(stats) /\ Numeric(cursors)
      BY DEF RoutesInv, TablesInv
    <2>2. old \in Nat
      BY <2>1, LookupNumber
    <2>3. Observed(old, sample) \in Nat
      <3> HIDE DEF old
      <3> QED
        BY <2>2 DEF Observed
    <2> HIDE DEF old, s
    <2> QED
      BY <1>1, <2>1, <2>3, WithNumeric
  <1>4. WorkInv'
    <2> HIDE DEF t
    <2> QED
      BY <1>1, <1>2, TaskChanged, Rests DEF RoutesInv
  <1> QED
    BY <1>1, <1>3, <1>4, TrafficKeeps, QueuesKept DEF RoutesInv, ReturnsInv

-----------------------------------------------------------------------------
(* Changes of sides, routes and discovery knowledge keep the invariant.    *)

\* Without the turns of a source the cursors of the others still follow theirs.
LEMMA TurnsReset ==
  ASSUME RoutesInv, NEW src, ResetCursor(src), kind' = kind,
         \A x \in DOMAIN modes : x # src => x \in DOMAIN modes'
  PROVE  TurnsInv' /\ Numeric(cursors')
  <1>1. Numeric(cursors')
    BY WithoutNumeric DEF ResetCursor, RoutesInv, TablesInv
  <1>2. ASSUME kind = "relay", NEW x \in DOMAIN turns'
        PROVE  x \in DOMAIN modes' /\ Follows(turns'[x], Lookup(cursors', x, 0))
    <2>1. x \in DOMAIN turns /\ x # src /\ turns'[x] = turns[x]
      BY <1>2 DEF ResetCursor, Without, Restrict
    <2>2. Lookup(cursors', x, 0) = Lookup(cursors, x, 0)
      BY <2>1 DEF ResetCursor, Without, Restrict, Lookup
    <2> QED
      BY <1>2, <2>1, <2>2 DEF RoutesInv, TurnsInv, TurnsFollow
  <1> QED
    BY <1>1, <1>2 DEF TurnsInv, TurnsFollow

LEMMA PolicyChange ==
  ASSUME RoutesInv, UNCHANGED <<kind, sides, stats, returns, txq, rxq, work, came>>,
         Numeric(weights'), Numeric(prios'), NEW src,
         \/ UNCHANGED <<modes, cursors, turns>>
         \/ ResetCursor(src) /\ \A x \in DOMAIN modes : x # src => x \in DOMAIN modes'
  PROVE  RoutesInv'
  <1>1. SidesInv' /\ ReturnsInv'
    BY DEF RoutesInv, SidesInv, ReturnsInv
  <1>2. TurnsInv' /\ Numeric(cursors')
    <2>1. CASE UNCHANGED <<modes, cursors, turns>>
      BY <2>1 DEF RoutesInv, TurnsInv, TablesInv
    <2>2. CASE ResetCursor(src) /\ \A x \in DOMAIN modes : x # src => x \in DOMAIN modes'
      BY <2>2, TurnsReset
    <2> QED
      BY <2>1, <2>2
  <1>3. TablesInv'
    BY <1>2 DEF RoutesInv, TablesInv
  <1> QED
    BY <1>1, <1>2, <1>3, QueuesKept, WorkKept DEF RoutesInv

LEMMA SetSourceRouteModeKeeps ==
  ASSUME RoutesInv, NEW src, NEW mode, SetSourceRouteMode(src, mode)
  PROVE  RoutesInv'
  <1>1. /\ UNCHANGED <<kind, sides, weights, prios, stats, returns, txq, rxq, work, came>>
        /\ ResetCursor(src)
        /\ modes' = Without(modes, {src}) \/ modes' = With(modes, src, mode)
    BY DEF SetSourceRouteMode, traffic
  <1>2. \A x \in DOMAIN modes : x # src => x \in DOMAIN modes'
    BY <1>1 DEF Without, Restrict, With
  <1>3. Numeric(weights') /\ Numeric(prios')
    BY <1>1 DEF RoutesInv, TablesInv
  <1> QED
    BY <1>1, <1>2, <1>3, PolicyChange

LEMMA SetRouteWeightKeeps ==
  ASSUME RoutesInv, NEW src, NEW dst, NEW n \in Nat,
         SetRouteWeight(src, dst, n) \/ ClearRouteWeight(src, dst)
  PROVE  RoutesInv'
  <1>1. /\ UNCHANGED <<kind, sides, prios, modes, stats, returns, txq, rxq, work, came>>
        /\ ResetCursor(src)
        /\ \/ weights' = With(weights, <<src, dst>>, n)
           \/ weights' = Without(weights, {<<src, dst>>})
    BY DEF SetRouteWeight, ClearRouteWeight, traffic
  <1>2. Numeric(weights') /\ Numeric(prios')
    BY <1>1, WithNumeric, WithoutNumeric DEF RoutesInv, TablesInv
  <1> QED
    BY <1>1, <1>2, PolicyChange

LEMMA SetRoutePriorityKeeps ==
  ASSUME RoutesInv, NEW src, NEW dst, NEW n \in Nat,
         SetRoutePriority(src, dst, n) \/ ClearRoutePriority(src, dst)
  PROVE  RoutesInv'
  <1>1. /\ UNCHANGED <<kind, sides, weights, modes, cursors, turns, stats, returns, txq, rxq, work, came>>
        /\ \/ prios' = With(prios, <<src, dst>>, n)
           \/ prios' = Without(prios, {<<src, dst>>})
    BY DEF SetRoutePriority, ClearRoutePriority, traffic
  <1>2. Numeric(weights') /\ Numeric(prios')
    BY <1>1, WithNumeric, WithoutNumeric DEF RoutesInv, TablesInv
  <1> QED
    BY <1>1, <1>2, PolicyChange

LEMMA SetRouteKeeps ==
  ASSUME RoutesInv, NEW src, NEW dst, NEW ty, NEW on,
         \/ SetRoute(src, dst, on) \/ ClearRoute(src, dst)
         \/ SetTypedRoute(src, ty, dst, on) \/ ClearTypedRoute(src, ty, dst)
  PROVE  RoutesInv'
  <1>1. UNCHANGED <<kind, sides, weights, prios, modes, cursors, turns, stats, returns, txq, rxq, work, came>>
    BY DEF SetRoute, ClearRoute, SetTypedRoute, ClearTypedRoute, traffic
  <1>2. Numeric(weights') /\ Numeric(prios')
    BY <1>1 DEF RoutesInv, TablesInv
  <1> QED
    BY <1>1, <1>2, PolicyChange

\* A side keeps its slot and its name as its options change.
LEMMA SideEdited ==
  ASSUME SidesInv, NEW s \in DOMAIN sides, NEW r \in SideRecord, r.name = s,
         sides' = [sides EXCEPT ![s] = r]
  PROVE  SidesInv'
  <1>1. s \in 1..Len(sides) /\ sides \in Seq(SideRecord)
    BY SideFacts DEF SidesInv
  <1>2. /\ sides' \in Seq(SideRecord) /\ Len(sides') = Len(sides)
        /\ \A i \in 1..Len(sides) : sides'[i] = IF i = s THEN r ELSE sides[i]
    BY <1>1, ExceptSeq
  <1> QED
    BY <1>2 DEF SidesInv

\* A new side gets a slot of its own, the next one.
LEMMA SideAppended ==
  ASSUME SidesInv, NEW o \in SideOpts, Len(sides) < MaxSides, sides' = Append(sides, NewSide(o))
  PROVE  SidesInv'
  <1>1. /\ o \in [ingress : BOOLEAN, egress : BOOLEAN, link_local : BOOLEAN]
        /\ MaxSides \in Nat /\ Len(sides) \in Nat /\ sides \in Seq(SideRecord)
    BY SetupAssumption, SideFacts DEF SidesInv
  <1>2. NewSide(o) \in SideRecord /\ NewSide(o).name = Len(sides) + 1
    BY <1>1 DEF NewSide, Side, SideRecord, SideIds
  <1>3. /\ sides' \in Seq(SideRecord) /\ Len(sides') = Len(sides) + 1
        /\ \A i \in 1..Len(sides) : sides'[i] = sides[i]
        /\ sides'[Len(sides) + 1] = NewSide(o)
    BY <1>1, <1>2, AppendProperties
  <1> QED
    BY <1>1, <1>2, <1>3 DEF SidesInv

LEMMA SidesChange ==
  ASSUME RoutesInv, SidesInv', QueuesInv',
         UNCHANGED <<kind, weights, prios, modes, cursors, stats, turns, returns, work, came>>
  PROVE  RoutesInv'
  <1>1. TablesInv' /\ ReturnsInv' /\ TurnsInv'
    BY DEF RoutesInv, TablesInv, ReturnsInv, TurnsInv
  <1> QED
    BY <1>1, WorkKept DEF RoutesInv

LEMMA AddSideKeeps ==
  ASSUME RoutesInv, NEW o \in SideOpts, AddSide(o)
  PROVE  RoutesInv'
  <1>1. /\ Len(sides) < MaxSides /\ sides' = Append(sides, NewSide(o))
        /\ UNCHANGED <<kind, weights, prios, modes, cursors, stats, turns, returns, txq, rxq, work, came>>
    BY DEF AddSide, traffic, policy
  <1>2. SidesInv'
    BY <1>1, SideAppended DEF RoutesInv
  <1> QED
    BY <1>1, <1>2, SidesChange, QueuesKept

LEMMA SetIngressKeeps ==
  ASSUME RoutesInv, NEW s, NEW on \in BOOLEAN, SetIngress(s, on)
  PROVE  RoutesInv'
  <1> DEFINE r == [sides[s] EXCEPT !.ingress = on]
  <1>1. /\ s \in DOMAIN sides /\ sides' = [sides EXCEPT ![s] = r]
        /\ UNCHANGED <<kind, weights, prios, modes, cursors, stats, turns, returns, txq, rxq, work, came>>
    BY DEF SetIngress, Live, traffic, policy
  <1>2. r \in SideRecord /\ r.name = s
    <2>1. sides[s] \in SideRecord /\ sides[s].name = s
      BY <1>1, SideFacts DEF RoutesInv
    <2> QED
      BY <1>1, <2>1 DEF SideRecord
  <1>3. SidesInv'
    <2> HIDE DEF r
    <2> QED
      BY <1>1, <1>2, SideEdited DEF RoutesInv
  <1> QED
    BY <1>1, <1>3, SidesChange, QueuesKept

LEMMA TxRetained ==
  ASSUME RoutesInv, NEW at \in SUBSET (DOMAIN txq), txq' = Retained(txq, at),
         rxq' \in Seq(RxItems), came' = came
  PROVE  QueuesInv'
  BY RetainedItems DEF RoutesInv, QueuesInv

LEMMA SetEgressKeeps ==
  ASSUME RoutesInv, NEW s, NEW on \in BOOLEAN, SetEgress(s, on)
  PROVE  RoutesInv'
  <1> DEFINE r == [sides[s] EXCEPT !.egress = on]
             at == {i \in DOMAIN txq : txq[i].job.dst # s}
  <1>1. /\ s \in DOMAIN sides /\ sides' = [sides EXCEPT ![s] = r]
        /\ txq' = txq \/ txq' = Retained(txq, at)
        /\ UNCHANGED <<kind, weights, prios, modes, cursors, stats, turns, returns, rxq, work, came>>
    BY DEF SetEgress, Live, policy
  <1>2. r \in SideRecord /\ r.name = s
    <2>1. sides[s] \in SideRecord /\ sides[s].name = s
      BY <1>1, SideFacts DEF RoutesInv
    <2> QED
      BY <1>1, <2>1 DEF SideRecord
  <1>3. SidesInv'
    <2> HIDE DEF r
    <2> QED
      BY <1>1, <1>2, SideEdited DEF RoutesInv
  <1>4. QueuesInv'
    <2>1. at \in SUBSET (DOMAIN txq) /\ rxq' \in Seq(RxItems)
      BY <1>1 DEF RoutesInv, QueuesInv
    <2> HIDE DEF at
    <2> QED
      BY <1>1, <2>1, TxRetained, QueuesKept
  <1> QED
    BY <1>1, <1>3, <1>4, SidesChange

\* Every table forgets a side that is removed, and its slot stays its own.
LEMMA RemovalKeeps ==
  ASSUME RoutesInv, NEW s, Live(s), sides' = [sides EXCEPT ![s].live = FALSE], Forgets(s),
         UNCHANGED <<kind, work, came>>, QueuesInv'
  PROVE  RoutesInv'
  <1> DEFINE r == [sides[s] EXCEPT !.live = FALSE]
  <1>1. s \in DOMAIN sides /\ sides' = [sides EXCEPT ![s] = r]
    BY DEF Live
  <1>2. r \in SideRecord /\ r.name = s
    <2>1. sides[s] \in SideRecord /\ sides[s].name = s
      BY <1>1, SideFacts DEF RoutesInv
    <2> QED
      BY <1>1, <2>1 DEF SideRecord
  <1>3. SidesInv'
    <2> HIDE DEF r
    <2> QED
      BY <1>1, <1>2, SideEdited DEF RoutesInv
  <1>4. /\ \E K : weights' = Without(weights, K)
        /\ \E K : prios' = Without(prios, K)
        /\ \E K : returns' = Without(returns, K)
        /\ stats' = Without(stats, {s}) /\ modes' = Without(modes, {s}) /\ ResetCursor(s)
    BY DEF Forgets
  <1>5. Numeric(weights') /\ Numeric(prios') /\ Numeric(stats')
    BY <1>4, WithoutNumeric DEF RoutesInv, TablesInv
  <1>6. ReturnsInv'
    BY <1>4 DEF RoutesInv, ReturnsInv, Without, Restrict
  <1>7. TurnsInv' /\ Numeric(cursors')
    <2>1. \A x \in DOMAIN modes : x # s => x \in DOMAIN modes'
      BY <1>4 DEF Without, Restrict
    <2> QED
      BY <1>4, <2>1, TurnsReset
  <1>8. TablesInv'
    BY <1>5, <1>7 DEF RoutesInv, TablesInv
  <1> QED
    BY <1>3, <1>6, <1>7, <1>8, WorkKept DEF RoutesInv

LEMMA RemoveSideKeeps ==
  ASSUME RoutesInv, NEW s, RemoveSide(s) \/ RelayRemoveSide(s)
  PROVE  RoutesInv'
  <1>1. /\ Live(s) /\ sides' = [sides EXCEPT ![s].live = FALSE] /\ Forgets(s)
        /\ UNCHANGED <<kind, work, came>>
        /\ \E at \in SUBSET (DOMAIN txq) : txq' = Retained(txq, at)
        /\ \E at \in SUBSET (DOMAIN rxq) : rxq' = Retained(rxq, at)
    <2>1. CASE RemoveSide(s)
      <3>1. \E isr_busy \in BOOLEAN :
              rxq' = Retained(rxq, {i \in DOMAIN rxq : rxq[i].src # s \/ (rxq[i].isr /\ isr_busy)})
        BY <2>1 DEF RemoveSide
      <3>2. \E at \in SUBSET (DOMAIN rxq) : rxq' = Retained(rxq, at)
        BY <3>1
      <3> QED
        BY <2>1, <3>2 DEF RemoveSide
    <2>2. CASE RelayRemoveSide(s)
      BY <2>2 DEF RelayRemoveSide
    <2> QED
      BY <2>1, <2>2
  <1>2. PICK at \in SUBSET (DOMAIN txq) : txq' = Retained(txq, at)
    BY <1>1
  <1>3. rxq' \in Seq(RxItems)
    BY <1>1, RetainedItems DEF RoutesInv, QueuesInv
  <1>4. QueuesInv'
    BY <1>1, <1>2, <1>3, TxRetained
  <1> QED
    BY <1>1, <1>4, RemovalKeeps

LEMMA DiscoveryKeeps ==
  ASSUME RoutesInv, NEW s, (\E k \in Knowledge : Learn(s, k)) \/ Expire(s)
  PROVE  RoutesInv'
  <1>1. UNCHANGED <<kind, sides, weights, prios, modes, cursors, turns, stats, returns, txq, rxq, work, came>>
    BY DEF Learn, Expire, traffic, policy
  <1>2. SidesInv'
    BY <1>1 DEF RoutesInv, SidesInv
  <1> QED
    BY <1>1, <1>2, SidesChange, QueuesKept

-----------------------------------------------------------------------------
(* The theorems.                                                           *)

LEMMA InitRoutes ==
  ASSUME Init
  PROVE  RoutesInv
  <1>1. PICK o \in [1..FirstSides -> SideOpts] : sides = [s \in 1..FirstSides |-> Side(s, o[s])]
    BY DEF Init
  <1>2. MaxSides \in Nat /\ FirstSides \in 1..MaxSides
    BY SetupAssumption
  <1>3. SidesInv
    <2>1. ASSUME NEW s \in 1..FirstSides
          PROVE  Side(s, o[s]) \in SideRecord /\ Side(s, o[s]).name = s
      <3>1. o[s] \in [ingress : BOOLEAN, egress : BOOLEAN, link_local : BOOLEAN] /\ s \in SideIds
        BY <1>2, SetupAssumption DEF SideIds
      <3> QED
        BY <3>1 DEF Side, SideRecord
    <2> DEFINE e(s) == Side(s, o[s])
    <2>2. \A s \in 1..FirstSides : e(s) \in SideRecord /\ e(s).name = s
      BY <2>1
    <2>3. sides = [s \in 1..FirstSides |-> e(s)] /\ FirstSides \in Nat
      BY <1>1, <1>2
    <2> HIDE DEF e
    <2>4. sides \in Seq(SideRecord) /\ Len(sides) = FirstSides
      BY <2>2, <2>3, IsASeq
    <2> QED
      BY <1>2, <2>2, <2>3, <2>4 DEF SidesInv
  <1>4. TablesInv
    <2>1. PICK c \in Setups : kind = c.kind /\ weights = c.weights /\ prios = c.prios
      BY DEF Init
    <2>2. kind \in {"router", "relay"} /\ Numeric(weights) /\ Numeric(prios)
      BY <2>1, SetupAssumption DEF Numeric
    <2>3. Numeric(cursors) /\ Numeric(stats)
      BY DEF Init, Numeric
    <2> QED
      BY <2>2, <2>3 DEF TablesInv
  <1>5. QueuesInv
    BY EmptySeq DEF Init, QueuesInv
  <1>6. WorkInv
    <2>1. Sound(Idle, came)
      BY IdleSound
    <2> QED
      BY <2>1 DEF Init, WorkInv, Working, Sound
  <1>7. ReturnsInv /\ TurnsInv
    BY DEF Init, ReturnsInv, TurnsInv, TurnsFollow
  <1> QED
    BY <1>3, <1>4, <1>5, <1>6, <1>7 DEF RoutesInv

LEMMA TrafficStep ==
  ASSUME RoutesInv, Traffic
  PROVE  RoutesInv'
  <1>1. \A a \in Arrivals : a[1] \in SideIds /\ a[2] \in Packets
    BY RoutesAssumption
  <1>2. ASSUME NEW a \in Arrivals, NEW isr \in BOOLEAN, QueueRx(a[1], a[2], isr)
        PROVE  RoutesInv'
    BY <1>1, <1>2, QueueRxKeeps
  <1>3. ASSUME NEW w \in Workers, NEW p \in Own, Submit(w, p)
        PROVE  RoutesInv'
    BY <1>3, SubmitKeeps, RoutesAssumption
  <1>4. ASSUME NEW w \in Workers, NEW a \in Arrivals, TakeNow(w, a[1], a[2])
        PROVE  RoutesInv'
    BY <1>1, <1>4, TakeNowKeeps
  <1>5. ASSUME NEW w \in Workers, NEW n \in Samples, Return(w, n)
        PROVE  RoutesInv'
    BY <1>5, ReturnKeeps, RoutesAssumption
  <1>6. ASSUME NEW w \in Workers,
               \/ TakeRx(w) \/ Note(w) \/ Ask(w) \/ RouterPlans(w) \/ RelayPlans(w)
               \/ Enqueue(w) \/ Drain(w) \/ Check(w) \/ Finish(w) \/ Call(w) \/ CallBusy(w)
        PROVE  RoutesInv'
    BY <1>6, TakeRxKeeps, NoteKeeps, AskKeeps, RouterPlansKeeps, RelayPlansKeeps,
       EnqueueKeeps, DrainKeeps, CheckKeeps, FinishKeeps, CallKeeps, CallBusyKeeps
  <1> QED
    BY <1>2, <1>3, <1>4, <1>5, <1>6 DEF Traffic

LEMMA RouterChangesStep ==
  ASSUME RoutesInv, RouterChanges
  PROVE  RoutesInv'
  <1>1. ASSUME NEW o \in SideOpts, AddSide(o) PROVE RoutesInv'
    BY <1>1, AddSideKeeps
  <1>2. ASSUME NEW s \in SideIds, RemoveSide(s) PROVE RoutesInv'
    BY <1>2, RemoveSideKeeps
  <1>3. ASSUME NEW s \in SideIds, NEW on \in BOOLEAN, SetIngress(s, on) \/ SetEgress(s, on)
        PROVE  RoutesInv'
    BY <1>3, SetIngressKeeps, SetEgressKeeps
  <1>4. ASSUME NEW src, NEW m, SetSourceRouteMode(src, m) PROVE RoutesInv'
    BY <1>4, SetSourceRouteModeKeeps
  <1>5. ASSUME NEW src, NEW dst,
               \/ ClearRouteWeight(src, dst) \/ ClearRoutePriority(src, dst) \/ ClearRoute(src, dst)
               \/ \E n \in Weights : SetRouteWeight(src, dst, n) \/ SetRoutePriority(src, dst, n)
               \/ \E on \in BOOLEAN : SetRoute(src, dst, on)
               \/ \E ty \in Types : \/ ClearTypedRoute(src, ty, dst)
                                    \/ \E on \in BOOLEAN : SetTypedRoute(src, ty, dst, on)
        PROVE  RoutesInv'
    <2>1. ASSUME NEW n \in Weights, SetRouteWeight(src, dst, n) \/ SetRoutePriority(src, dst, n)
          PROVE  RoutesInv'
      BY <2>1, SetRouteWeightKeeps, SetRoutePriorityKeeps, RoutesAssumption
    <2>2. ASSUME ClearRouteWeight(src, dst) \/ ClearRoutePriority(src, dst) PROVE RoutesInv'
      <3>1. 0 \in Nat
        OBVIOUS
      <3> QED
        BY <2>2, <3>1, SetRouteWeightKeeps, SetRoutePriorityKeeps
    <2>3. ASSUME NEW on, NEW ty,
                 \/ SetRoute(src, dst, on) \/ ClearRoute(src, dst)
                 \/ SetTypedRoute(src, ty, dst, on) \/ ClearTypedRoute(src, ty, dst)
          PROVE  RoutesInv'
      BY <2>3, SetRouteKeeps
    <2> QED
      BY <1>5, <2>1, <2>2, <2>3
  <1> QED
    BY <1>1, <1>2, <1>3, <1>4, <1>5 DEF RouterChanges

\* The relay's calls are the same.
LEMMA RelayChangesStep ==
  ASSUME RoutesInv, RelayChanges
  PROVE  RoutesInv'
  <1>1. ASSUME NEW s \in SideIds, RelayRemoveSide(s) PROVE RoutesInv'
    BY <1>1, RemoveSideKeeps
  <1>2. ASSUME ~\E s \in SideIds : RelayRemoveSide(s) PROVE RouterChanges
    BY <1>2 DEF RelayChanges, RouterChanges, RelayAddSide, RelaySetIngress, RelaySetEgress,
         RelaySetSourceRouteMode, RelaySetRouteWeight, RelayClearRouteWeight, RelaySetRoutePriority,
         RelayClearRoutePriority, RelaySetRoute, RelayClearRoute, RelaySetTypedRoute, RelayClearTypedRoute
  <1> QED
    BY <1>1, <1>2, RouterChangesStep

LEMMA NextRoutes ==
  ASSUME RoutesInv, [Next]_vars
  PROVE  RoutesInv'
  <1>1. CASE UNCHANGED vars
    <2>1. /\ UNCHANGED <<kind, weights, prios, modes, cursors, stats, turns, returns, work, came, sides>>
          /\ UNCHANGED <<txq, rxq>>
      BY <1>1 DEF vars, policy
    <2>2. SidesInv' /\ QueuesInv'
      BY <2>1, QueuesKept DEF RoutesInv, SidesInv
    <2> QED
      BY <2>1, <2>2, SidesChange
  <1>2. CASE Next
    BY <1>2, RouterChangesStep, RelayChangesStep, TrafficStep, DiscoveryKeeps DEF Next
  <1> QED
    BY <1>1, <1>2

\* The inductive invariant of a router or relay, for every setup, number of workers
\* and sequence of calls: what plans, queues and workers hold about sides agrees
\* with the registrations, with where packets came from and with the cursors.
THEOREM RoutesInvariant == Spec => []RoutesInv
  <1>1. Init => RoutesInv
    BY InitRoutes
  <1>2. RoutesInv /\ [Next]_vars => RoutesInv'
    BY NextRoutes
  <1> QED
    BY <1>1, <1>2, PTL DEF Spec

\* A packet planned or queued for a side is handed to the callback of that very
\* registration, for any number of sides that are added and removed in between:
\* remove_side leaves a tombstone and no slot is given out twice.
THEOREM SentToIntendedAlways == Spec => []SentToIntended
  <1>1. RoutesInv => SentToIntended
    BY DEF RoutesInv, WorkInv, Working, Sound, SentToIntended
  <1> QED
    BY <1>1, RoutesInvariant, PTL

\* A packet for an endpoint elsewhere always has somewhere to go when a side may
\* carry it: the fallback of remote_side_plan is never empty without cause.
THEOREM FallsBackAlways == Spec => []FallsBack
  <1>1. RoutesInv => FallsBack
    <2> SUFFICES ASSUME RoutesInv, NEW p \in {q \in Packets : q.ty \in {"plain", "reliable"}},
                        NEW src, NEW open, open = {s \in DOMAIN sides : Allowed(src, p.ty, s)},
                        HasNonlocal(p), open # {},
                        src \in DOMAIN modes /\ modes[src] = "weighted" =>
                          \A s \in open : WeightOf(src, s) > 0,
                        ~\E a \in acked : a[1] = p.id
                 PROVE  PlanOf(p, src).to # {}
      BY DEF FallsBack
    <2> QED
      BY PlansFallBack DEF RoutesInv
  <1> QED
    BY <1>1, RoutesInvariant, PTL

\* An end-to-end acknowledgement only leaves by a side that a packet with its id
\* was received from, whatever is queued, removed or forgotten in between.
THEOREM AcksRetraceAlways == Spec => []AcksRetrace
  <1>1. RoutesInv => AcksRetrace
    <2> SUFFICES ASSUME RoutesInv, NEW w \in Workers,
                        work[w].pc = "calling", work[w].p.ty = "ack"
                 PROVE  <<work[w].p.id, Head(work[w].jobs).dst>> \in came
      BY DEF AcksRetrace
    <2>1. work[w].jobs # <<>>
      BY TaskFacts DEF RoutesInv, Sound
    <2>2. Head(work[w].jobs) \in Traced(work[w].p, came)
      BY <2>1, TaskFacts DEF RoutesInv
    <2> QED
      BY <2>2 DEF Traced
  <1> QED
    BY <1>1, RoutesInvariant, PTL

\* Every round of a relay's weighted source gives each side as many packets as its
\* weight, for any weights: the cursor moves by one per choice that is carried out
\* and is dropped whenever the weights, the mode or the sides of the source change.
THEOREM WeightedShareAlways == Spec => []WeightedShare
  <1>1. RoutesInv => WeightedShare
    <2> SUFFICES ASSUME RoutesInv, kind = "relay", NEW src \in DOMAIN turns,
                        Len(turns[src].took) = Total(turns[src].among),
                        NEW s \in DOMAIN turns[src].among
                 PROVE  Cardinality({i \in DOMAIN turns[src].took : turns[src].took[i] = {s}})
                          = turns[src].among[s]
      BY DEF WeightedShare, RoundsFair
    <2> DEFINE w == turns[src].among
               q == turns[src].took
               T == Total(w)
    <2>1. Follows(turns[src], Lookup(cursors, src, 0))
      BY DEF RoutesInv, TurnsInv, TurnsFollow
    <2>2. Weighing(w) /\ q \in Seq(SUBSET SideIds) /\ Len(q) >= 1 /\ Len(q) = T
      BY <2>1 DEF Follows
    <2>3. T # 0
      <3> HIDE DEF T
      <3> QED
        BY <2>2
    <2>4. PICK base \in Nat : \A i \in 1..Len(q) : q[i] = {AtShare(w, (base + i - 1) % T)}
      BY <2>1, <2>3 DEF Follows
    <2>5. DOMAIN q = 1..T
      BY <2>2, LenProperties
    <2>6. {i \in DOMAIN q : q[i] = {s}} = {i \in 1..T : AtShare(w, (base + i - 1) % T) = s}
      <3> HIDE DEF q, T, w
      <3> QED
        BY <2>2, <2>4, <2>5
    <2>7. Cardinality({i \in 1..Total(w) : AtShare(w, (base + i - 1) % Total(w)) = s}) = w[s]
      <3>1. s \in DOMAIN w /\ Weighing(w) /\ Total(w) # 0
        BY <2>2, <2>3
      <3> HIDE DEF w
      <3> QED
        BY <3>1, RoundCount
    <2> QED
      BY <2>6, <2>7
  <1> QED
    BY <1>1, RoutesInvariant, PTL
=============================================================================
