--------------------------- MODULE SequenceLemmas ---------------------------
(***************************************************************************)
(* What the sequence operators that model VecDeque's insert, remove,       *)
(* pop_front and drain return, item by item, and what they do to the byte  *)
(* cost of a queue.  The facts about sums rest on induction over the       *)
(* natural numbers, which follows from their being well-founded.           *)
(***************************************************************************)
EXTENDS ByteCost, SequencesExt, SequenceTheorems, WellFoundedInduction, TLAPS

\* InsertAt keeps the items of a sequence and adds the new one.
LEMMA InsertAtProperties ==
  ASSUME NEW S, NEW q \in Seq(S), NEW at \in 1..Len(q) + 1, NEW x \in S
  PROVE  /\ InsertAt(q, at, x) \in Seq(S)
         /\ Len(InsertAt(q, at, x)) = Len(q) + 1
         /\ \A i \in 1..Len(q) + 1 :
              InsertAt(q, at, x)[i] =
                IF i < at THEN q[i] ELSE IF i = at THEN x ELSE q[i - 1]
  <1> DEFINE a == SubSeq(q, 1, at - 1)
             b == SubSeq(q, at, Len(q))
  <1>0. Len(q) \in Nat
    BY LenProperties
  <1>1. a \in Seq(S) /\ Len(a) = at - 1 /\ \A i \in 1..at - 1 : a[i] = q[i]
    <2>1. \A i \in 1..at - 1 : q[i] \in S
      BY <1>0, ElementOfSeq
    <2> QED
      BY <1>0, <2>1, SubSeqProperties, Z3
  <1>2. /\ b \in Seq(S) /\ Len(b) = Len(q) - at + 1
        /\ \A i \in 1..Len(q) - at + 1 : b[i] = q[at + i - 1]
    <2>1. \A i \in at..Len(q) : q[i] \in S
      BY <1>0, ElementOfSeq
    <2> QED
      BY <1>0, <2>1, SubSeqProperties, Z3
  <1>3. <<x>> \in Seq(S) /\ Len(<<x>>) = 1 /\ <<x>>[1] = x
    OBVIOUS
  <1> DEFINE ax == a \o <<x>>
  <1>4. /\ ax \in Seq(S) /\ Len(ax) = at
        /\ \A i \in 1..at : ax[i] = IF i < at THEN q[i] ELSE x
    <2> HIDE DEF a
    <2>1. /\ ax \in Seq(S) /\ Len(ax) = Len(a) + 1
          /\ \A i \in 1..Len(a) + 1 : ax[i] = IF i <= Len(a) THEN a[i] ELSE <<x>>[i - Len(a)]
      BY <1>1, <1>3, ConcatProperties
    <2>2. Len(a) = at - 1 /\ at \in Int
      BY <1>0, <1>1
    <2>3. Len(ax) = at
      BY <2>1, <2>2
    <2>4. ASSUME NEW i \in 1..at PROVE ax[i] = IF i < at THEN q[i] ELSE x
      <3> HIDE DEF ax
      <3>1. CASE i < at
        BY <3>1, <1>1, <2>1, <2>2
      <3>2. CASE i = at
        <4>1. i - Len(a) = 1 /\ i \in 1..Len(a) + 1 /\ ~(i <= Len(a))
          BY <3>2, <2>2
        <4>2. ax[i] = <<x>>[i - Len(a)]
          BY <2>1, <4>1
        <4> QED
          BY <3>2, <4>1, <4>2
      <3> QED
        BY <3>1, <3>2, <2>2
    <2> QED
      BY <2>1, <2>3, <2>4
  <1>5. InsertAt(q, at, x) = ax \o b
    BY DEF InsertAt
  <1> HIDE DEF ax, b
  <1>6. /\ ax \o b \in Seq(S) /\ Len(ax \o b) = Len(ax) + Len(b)
        /\ \A i \in 1..Len(ax) + Len(b) :
             (ax \o b)[i] = IF i <= Len(ax) THEN ax[i] ELSE b[i - Len(ax)]
    BY <1>2, <1>4, ConcatProperties
  <1> QED
    BY <1>0, <1>2, <1>4, <1>5, <1>6

\* InsertAt as a function.
LEMMA InsertAtFunction ==
  ASSUME NEW S, NEW q \in Seq(S), NEW at \in 1..Len(q) + 1, NEW x \in S
  PROVE  InsertAt(q, at, x) =
           [i \in 1..Len(q) + 1 |-> IF i < at THEN q[i] ELSE IF i = at THEN x ELSE q[i - 1]]
  <1> DEFINE n == InsertAt(q, at, x)
  <1>1. /\ n \in Seq(S) /\ Len(n) = Len(q) + 1
        /\ \A i \in 1..Len(q) + 1 :
             n[i] = IF i < at THEN q[i] ELSE IF i = at THEN x ELSE q[i - 1]
    BY InsertAtProperties
  <1> HIDE DEF n
  <1>2. n = [i \in 1..Len(n) |-> n[i]]
    BY <1>1
  <1> QED
    BY <1>1, <1>2 DEF n

\* RemoveAt drops one item and shifts the ones behind it.
LEMMA RemoveAtProperties ==
  ASSUME NEW S, NEW q \in Seq(S), NEW k \in 1..Len(q)
  PROVE  /\ RemoveAt(q, k) \in Seq(S)
         /\ Len(RemoveAt(q, k)) = Len(q) - 1
         /\ \A i \in 1..Len(q) - 1 :
              RemoveAt(q, k)[i] = IF i < k THEN q[i] ELSE q[i + 1]
  <1> DEFINE a == SubSeq(q, 1, k - 1)
             b == SubSeq(q, k + 1, Len(q))
  <1>0. Len(q) \in Nat /\ \A i \in 1..Len(q) : q[i] \in S
    BY LenProperties, ElementOfSeq
  <1>1. a \in Seq(S) /\ Len(a) = k - 1 /\ \A i \in 1..k - 1 : a[i] = q[i]
    <2>1. \A i \in 1..k - 1 : q[i] \in S
      BY <1>0
    <2> QED
      BY <1>0, <2>1, SubSeqProperties, Z3
  <1>2. /\ b \in Seq(S) /\ Len(b) = Len(q) - k
        /\ \A i \in 1..Len(q) - k : b[i] = q[k + i]
    <2>1. \A i \in k + 1..Len(q) : q[i] \in S
      BY <1>0
    <2>2. /\ b \in Seq(S) /\ Len(b) = Len(q) - (k + 1) + 1
          /\ \A i \in 1..Len(q) - (k + 1) + 1 : b[i] = q[(k + 1) + i - 1]
      BY <1>0, <2>1, SubSeqProperties, Z3
    <2> QED
      BY <1>0, <2>2
  <1>3. RemoveAt(q, k) = a \o b
    BY DEF RemoveAt
  <1> HIDE DEF a, b
  <1>4. /\ a \o b \in Seq(S) /\ Len(a \o b) = Len(a) + Len(b)
        /\ \A i \in 1..Len(a) + Len(b) :
             (a \o b)[i] = IF i <= Len(a) THEN a[i] ELSE b[i - Len(a)]
    BY <1>1, <1>2, ConcatProperties
  <1>5. Len(a) + Len(b) = Len(q) - 1
    BY <1>0, <1>1, <1>2
  <1>6. ASSUME NEW i \in 1..Len(q) - 1
        PROVE  (a \o b)[i] = IF i < k THEN q[i] ELSE q[i + 1]
    <2>1. CASE i < k
      <3>1. i \in 1..k - 1 /\ i <= Len(a)
        BY <1>0, <1>1, <2>1
      <3> QED
        BY <1>1, <1>4, <1>5, <2>1, <3>1
    <2>2. CASE ~(i < k)
      <3>1. i - Len(a) \in 1..Len(q) - k /\ ~(i <= Len(a)) /\ k + (i - Len(a)) = i + 1
        BY <1>0, <1>1, <2>2
      <3>2. (a \o b)[i] = b[i - Len(a)]
        BY <1>4, <1>5, <3>1
      <3>3. b[i - Len(a)] = q[k + (i - Len(a))]
        BY <1>2, <3>1
      <3> QED
        BY <2>2, <3>1, <3>2, <3>3
    <2> QED
      BY <2>1, <2>2
  <1> QED
    BY <1>3, <1>4, <1>5, <1>6

\* Head and Tail of a nonempty sequence.
LEMMA PopProperties ==
  ASSUME NEW S, NEW q \in Seq(S), q # <<>>
  PROVE  /\ Head(q) \in S /\ Tail(q) \in Seq(S)
         /\ \A i \in 1..Len(Tail(q)) : \E j \in 1..Len(q) : Tail(q)[i] = q[j]
         /\ \E j \in 1..Len(q) : Head(q) = q[j]
  <1>1. Len(q) \in Nat \ {0}
    BY EmptySeq
  <1>2. /\ Head(q) \in S /\ Tail(q) \in Seq(S) /\ Len(Tail(q)) = Len(q) - 1
        /\ \A i \in 1..Len(Tail(q)) : Tail(q)[i] = q[i + 1]
    BY HeadTailProperties
  <1>3. Head(q) = q[1]
    OBVIOUS
  <1>4. ASSUME NEW i \in 1..Len(Tail(q))
        PROVE  \E j \in 1..Len(q) : Tail(q)[i] = q[j]
    <2>1. i + 1 \in 1..Len(q)
      BY <1>1, <1>2
    <2> QED
      BY <1>2, <2>1
  <1> QED
    BY <1>1, <1>2, <1>3, <1>4

-----------------------------------------------------------------------------
(***************************************************************************)
(* Byte costs.                                                             *)
(***************************************************************************)

\* A set of naturals that is not empty has a least element.
LEMMA LeastNat ==
  ASSUME NEW T, T \subseteq Nat, T # {}
  PROVE  \E x \in T : \A y \in T : x <= y
  <1> DEFINE R == {r \in Nat \X Nat : r[1] < r[2]}
  <1>1. IsWellFoundedOn(OpToRel(<, Nat), Nat)
    BY NatLessThanWellFounded
  <1>2. OpToRel(<, Nat) = R
    BY DEF OpToRel
  <1>3. IsWellFoundedOn(R, Nat)
    BY <1>1, <1>2
  <1>4. PICK x \in T : \A y \in T : ~(<<y, x>> \in R)
    <2> HIDE DEF R
    <2> QED
      BY <1>3, WFMin
  <1>5. \A y \in T : ~(y < x)
    BY <1>4
  <1> QED
    BY <1>4, <1>5

\* Induction, with a set in place of a predicate.
LEMMA NatInd ==
  ASSUME NEW S, 0 \in S, \A n \in Nat : n \in S => n + 1 \in S
  PROVE  Nat \subseteq S
  <1> DEFINE T == Nat \ S
  <1>1. SUFFICES ASSUME T # {} PROVE FALSE
    OBVIOUS
  <1>2. PICK x \in T : \A y \in T : x <= y
    BY <1>1, LeastNat
  <1> QED
    <2>1. x # 0 /\ x \in Nat
      BY <1>2
    <2>2. x - 1 \in Nat /\ x - 1 \notin T
      BY <1>2, <2>1
    <2> QED
      BY <2>1, <2>2

\* f[n] is the state after n turns, of which turn n is g[n].
Iterates(f, S, s, g) == f \in [Nat -> S] /\ f[0] = s /\ \A n \in Nat : f[n + 1] = g[n][f[n]]

\* A loop with a counter can be carried on for ever: its states are a function
\* of the number of turns.
LEMMA Iteration ==
  ASSUME NEW S, NEW s \in S, NEW g \in [Nat -> [S -> S]]
  PROVE  \E f : Iterates(f, S, s, g)
  <1> DEFINE Upto(n, h) == h \in [0..n -> S] /\ h[0] = s /\ \A i \in 0..n - 1 : h[i + 1] = g[i][h[i]]
             Good == {n \in Nat : /\ \E h : Upto(n, h)
                                  /\ \A h, k : Upto(n, h) /\ Upto(n, k) => h[n] = k[n]}
  <1>1. 0 \in Good
    <2>1. Upto(0, [i \in 0..0 |-> s])
      OBVIOUS
    <2> QED
      BY <2>1
  <1>2. ASSUME NEW n \in Nat, n \in Good
        PROVE  n + 1 \in Good
    <2>1. PICK h : Upto(n, h)
      BY <1>2
    <2> DEFINE e == [i \in 0..n + 1 |-> IF i = n + 1 THEN g[n][h[n]] ELSE h[i]]
    <2>2. Upto(n + 1, e)
      <3>1. h[n] \in S /\ g[n][h[n]] \in S
        BY <2>1
      <3>2. e \in [0..n + 1 -> S]
        BY <2>1, <3>1
      <3>3. e[0] = s
        BY <2>1
      <3>4. \A i \in 0..n : e[i + 1] = g[i][e[i]]
        BY <2>1
      <3>5. (n + 1) - 1 = n
        OBVIOUS
      <3> HIDE DEF e
      <3> QED
        BY <3>2, <3>3, <3>4, <3>5
    <2>3. ASSUME NEW u, NEW v, Upto(n + 1, u), Upto(n + 1, v)
          PROVE  u[n + 1] = v[n + 1]
      <3>1. Upto(n, [i \in 0..n |-> u[i]]) /\ Upto(n, [i \in 0..n |-> v[i]])
        BY <2>3
      <3>2. u[n] = v[n]
        <4> HIDE DEF Upto
        <4>1. [i \in 0..n |-> u[i]][n] = [i \in 0..n |-> v[i]][n]
          BY <1>2, <3>1
        <4> QED
          BY <4>1
      <3> QED
        BY <2>3, <3>2
    <2> HIDE DEF Upto
    <2> QED
      BY <2>2, <2>3
  <1>3. \A n \in Nat : n \in Good
    <2> HIDE DEF Good
    <2> QED
      BY <1>1, <1>2, NatInd
  <1> DEFINE H(n) == CHOOSE h : Upto(n, h)
             f == [n \in Nat |-> H(n)[n]]
  <1>4. \A n \in Nat : Upto(n, H(n))
    <2> HIDE DEF Upto
    <2> QED
      BY <1>3
  <1>5. f \in [Nat -> S] /\ f[0] = s
    <2>1. ASSUME NEW n \in Nat PROVE H(n)[n] \in S
      <3>1. Upto(n, H(n))
        BY <1>4
      <3> HIDE DEF H
      <3> QED
        BY <3>1
    <2>2. H(0)[0] = s
      <3>1. Upto(0, H(0))
        BY <1>4
      <3> HIDE DEF H
      <3> QED
        BY <3>1
    <2> HIDE DEF H
    <2> QED
      BY <2>1, <2>2
  <1>6. ASSUME NEW n \in Nat PROVE f[n + 1] = g[n][f[n]]
    <2>1. Upto(n, H(n)) /\ Upto(n + 1, H(n + 1))
      <3>1. n + 1 \in Nat
        OBVIOUS
      <3> HIDE DEF Upto, H
      <3> QED
        BY <1>4, <3>1
    <2> DEFINE r == [i \in 0..n |-> H(n + 1)[i]]
    <2>2. Upto(n, r)
      <3> HIDE DEF H
      <3> QED
        BY <2>1
    <2>3. H(n)[n] = r[n]
      <3> HIDE DEF Upto, H, r
      <3> QED
        BY <1>3, <2>1, <2>2
    <2>4. H(n + 1)[n + 1] = g[n][H(n + 1)[n]]
      <3> HIDE DEF H
      <3> QED
        BY <2>1
    <2> HIDE DEF H
    <2> QED
      BY <2>3, <2>4
  <1> HIDE DEF f
  <1> QED
    BY <1>5, <1>6 DEF Iterates

\* Every entry has a cost.
Weighed(q) == Len(q) \in Nat /\ \A i \in 1..Len(q) : q[i].cost \in Nat

\* f[i] is what the first i entries cost.
Sums(q, f) ==
  /\ f \in [0..Len(q) -> Nat] /\ f[0] = 0
  /\ \A i \in 1..Len(q) : f[i] = f[i - 1] + q[i].cost

\* The partial sums of a queue exist ...
LEMMA SumsExist ==
  ASSUME NEW q, Weighed(q)
  PROVE  \E f : Sums(q, f)
  <1> DEFINE c(n) == IF n + 1 <= Len(q) THEN q[n + 1].cost ELSE 0
             g == [n \in Nat |-> [x \in Nat |-> x + c(n)]]
  <1>1. \A n \in Nat : c(n) \in Nat
    BY DEF Weighed
  <1>2. g \in [Nat -> [Nat -> Nat]]
    <2> HIDE DEF c
    <2> QED
      BY <1>1
  <1>3. PICK f : Iterates(f, Nat, 0, g)
    <2>1. 0 \in Nat
      OBVIOUS
    <2> HIDE DEF g
    <2> QED
      BY <1>2, <2>1, Iteration
  <1> DEFINE h == [i \in 0..Len(q) |-> f[i]]
  <1>4. h \in [0..Len(q) -> Nat] /\ h[0] = 0
    BY <1>3 DEF Weighed, Iterates
  <1>5. ASSUME NEW i \in 1..Len(q)
        PROVE  h[i] = h[i - 1] + q[i].cost
    <2>1. i - 1 \in Nat /\ (i - 1) + 1 = i /\ i - 1 \in 0..Len(q) /\ i <= Len(q) /\ i \in 0..Len(q)
      BY DEF Weighed
    <2>2. f[i] = g[i - 1][f[i - 1]]
      <3> HIDE DEF g
      <3> QED
        BY <1>3, <2>1 DEF Iterates
    <2>3. g[i - 1][f[i - 1]] = f[i - 1] + q[i].cost
      BY <2>1, <1>3 DEF Iterates
    <2> QED
      BY <2>1, <2>2, <2>3
  <1> HIDE DEF h
  <1> QED
    BY <1>4, <1>5 DEF Sums

\* ... and the last of them is what Bytes computes.
LEMMA BytesSums ==
  ASSUME NEW q, Weighed(q), NEW f, Sums(q, f)
  PROVE  Bytes(q) = f[Len(q)] /\ Bytes(q) \in Nat
  <1> DEFINE E(u) == [i \in 0..Len(q) |-> IF i = 0 THEN 0 ELSE u[i - 1] + q[i].cost]
             sum == CHOOSE u : u = E(u)
  <1>1. Bytes(q) = sum[Len(q)]
    BY DEF Bytes
  <1>2. f = E(f)
    BY DEF Sums, Weighed
  <1>3. sum = E(sum)
    <2> HIDE DEF E
    <2> QED
      BY <1>2
  <1> HIDE DEF sum
  <1>4. \A i \in 0..Len(q) : sum[i] = f[i]
    <2> DEFINE Same == {i \in Nat : i <= Len(q) => f[i] = sum[i]}
    <2>1. 0 \in Same
      BY <1>3 DEF Sums, Weighed
    <2>2. ASSUME NEW n \in Nat, n \in Same
          PROVE  n + 1 \in Same
      <3> SUFFICES ASSUME n + 1 <= Len(q) PROVE f[n + 1] = sum[n + 1]
        OBVIOUS
      <3>1. n + 1 \in 1..Len(q) /\ (n + 1) - 1 = n /\ n + 1 \in 0..Len(q) /\ n + 1 # 0
        BY DEF Weighed
      <3>2. f[n] = sum[n]
        BY <2>2 DEF Weighed
      <3>3. sum[n + 1] = sum[n] + q[n + 1].cost
        BY <1>3, <3>1
      <3> QED
        BY <3>1, <3>2, <3>3 DEF Sums
    <2>3. \A n \in Nat : n \in Same
      <3> HIDE DEF Same
      <3> QED
        BY <2>1, <2>2, NatInd
    <2> QED
      BY <2>3
  <1> QED
    BY <1>1, <1>4 DEF Sums, Weighed
\* Arithmetic of the differences between partial sums.
LEMMA Differences ==
  /\ \A x, y \in Nat : x <= y => y - x \in Nat
  /\ \A x, y, z, c \in Nat : (z + c) - (x - y) = (z - (x - y)) + c
  /\ \A x, y, c \in Nat : (x + c) - (x - y) = y + c
  /\ \A x, y \in Nat : x - (x - y) = y
  OBVIOUS

\* An empty queue costs nothing.
LEMMA EmptyBytes ==
  ASSUME NEW q, Len(q) = 0
  PROVE  Weighed(q) /\ Bytes(q) = 0
  <1>1. Weighed(q) /\ Sums(q, [i \in 0..0 |-> 0])
    BY DEF Weighed, Sums
  <1> QED
    BY <1>1, BytesSums

\* A longer prefix costs no less.
LEMMA SumsGrow ==
  ASSUME NEW q, Weighed(q), NEW f, Sums(q, f), NEW a \in 0..Len(q)
  PROVE  \A b \in a..Len(q) : f[a] <= f[b]
  <1> DEFINE More == {n \in Nat : a + n <= Len(q) => f[a] <= f[a + n]}
  <1>1. 0 \in More
    BY DEF Sums, Weighed
  <1>2. ASSUME NEW n \in Nat, n \in More
        PROVE  n + 1 \in More
    <2> SUFFICES ASSUME a + (n + 1) <= Len(q) PROVE f[a] <= f[a + (n + 1)]
      OBVIOUS
    <2>1. /\ a + (n + 1) \in 1..Len(q) /\ (a + (n + 1)) - 1 = a + n
          /\ a + n \in 0..Len(q) /\ a \in 0..Len(q)
      BY DEF Weighed
    <2>2. f[a] <= f[a + n]
      BY <1>2, <2>1 DEF Weighed
    <2>3. f[a + (n + 1)] = f[a + n] + q[a + (n + 1)].cost
      BY <2>1 DEF Sums
    <2>4. f[a] \in Nat /\ f[a + n] \in Nat /\ q[a + (n + 1)].cost \in Nat
      BY <2>1 DEF Sums, Weighed
    <2> QED
      BY <2>2, <2>3, <2>4
  <1>3. \A n \in Nat : n \in More
    <2> HIDE DEF More
    <2> QED
      BY <1>1, <1>2, NatInd
  <1>4. ASSUME NEW b \in a..Len(q) PROVE f[a] <= f[b]
    <2>1. b - a \in Nat /\ a + (b - a) = b /\ b <= Len(q)
      BY DEF Weighed
    <2> QED
      BY <1>3, <2>1
  <1> QED
    BY <1>4

\* A consecutive part costs the difference of two partial sums.
LEMMA PartBytes ==
  ASSUME NEW q, Weighed(q), NEW f, Sums(q, f),
         NEW a \in 0..Len(q), NEW b \in a..Len(q),
         NEW r, Len(r) = b - a, \A i \in 1..b - a : r[i] = q[a + i]
  PROVE  Weighed(r) /\ Bytes(r) = f[b] - f[a]
  <1> DEFINE h == [i \in 0..b - a |-> f[a + i] - f[a]]
  <1>1. b - a \in Nat /\ Len(q) \in Nat /\ a \in Nat
    BY DEF Weighed
  <1>2. Weighed(r)
    BY <1>1 DEF Weighed
  <1>3. \A i \in 0..b - a : a + i \in a..Len(q) /\ a + i \in 0..Len(q)
    BY <1>1
  <1>4. h \in [0..b - a -> Nat]
    <2>1. \A i \in 0..b - a : f[a + i] \in Nat /\ f[a] \in Nat /\ f[a] <= f[a + i]
      BY <1>3, SumsGrow DEF Sums
    <2>2. \A i \in 0..b - a : f[a + i] - f[a] \in Nat
      BY <2>1, Differences
    <2> QED
      BY <2>2
  <1>5. ASSUME NEW i \in 1..b - a
        PROVE  h[i] = h[i - 1] + r[i].cost
    <2>1. /\ a + i \in 1..Len(q) /\ (a + i) - 1 = a + (i - 1) /\ i \in 0..b - a /\ i - 1 \in 0..b - a
          /\ a + (i - 1) \in 0..Len(q) /\ a \in 0..Len(q)
      BY <1>1
    <2>2. f[a + i] = f[a + (i - 1)] + q[a + i].cost
      BY <2>1 DEF Sums
    <2>3. f[a + (i - 1)] \in Nat /\ f[a] \in Nat /\ q[a + i].cost \in Nat
      BY <2>1 DEF Sums, Weighed
    <2>4. h[i] = f[a + i] - f[a] /\ h[i - 1] = f[a + (i - 1)] - f[a] /\ r[i] = q[a + i]
      BY <2>1
    <2> DEFINE z == f[a + (i - 1)]
               x == f[a]
               u == r[i].cost
    <2>5. h[i] = (z + u) - x /\ h[i - 1] = z - x /\ z \in Nat /\ x \in Nat /\ u \in Nat
      BY <2>2, <2>3, <2>4
    <2> HIDE DEF h, x, z, u
    <2>6. h[i] = h[i - 1] + u
      BY <2>5
    <2> QED
      BY <2>6 DEF u
  <1>6. h[0] = 0 /\ h[b - a] = f[b] - f[a]
    BY <1>1, <1>3 DEF Sums
  <1> HIDE DEF h
  <1>7. Sums(r, h)
    BY <1>4, <1>5, <1>6 DEF Sums
  <1> QED
    BY <1>2, <1>6, <1>7, BytesSums

\* r is q without the k entries behind the first a.
Cut(q, a, k, r) ==
  /\ Len(r) = Len(q) - k
  /\ \A i \in 1..Len(q) - k : r[i] = IF i <= a THEN q[i] ELSE q[i + k]

\* Removing the k entries behind the first a takes off what they cost.
LEMMA CutBytes ==
  ASSUME NEW q, Weighed(q), NEW a \in Nat, NEW k \in Nat, a + k <= Len(q),
         NEW r, Cut(q, a, k, r)
  PROVE  /\ Weighed(r) /\ Bytes(r) <= Bytes(q)
         /\ \A f : Sums(q, f) => Bytes(r) = Bytes(q) - (f[a + k] - f[a])
  <1> USE DEF Cut
  <1>1. Len(q) \in Nat /\ Len(q) - k \in Nat /\ a \in 0..Len(q) /\ a + k \in 0..Len(q)
        /\ a + k \in a..Len(q)
    BY DEF Weighed
  <1>2. Weighed(r)
    <2>1. ASSUME NEW i \in 1..Len(r) PROVE r[i].cost \in Nat
      <3>1. i \in 1..Len(q) - k /\ i \in 1..Len(q) /\ i + k \in 1..Len(q)
        BY <1>1
      <3> QED
        BY <3>1 DEF Weighed
    <2> QED
      BY <1>1, <2>1 DEF Weighed
  <1>3. ASSUME NEW f, Sums(q, f)
        PROVE  Bytes(r) = Bytes(q) - (f[a + k] - f[a]) /\ Bytes(r) <= Bytes(q)
    <2> DEFINE h == [i \in 0..Len(q) - k |-> IF i <= a THEN f[i] ELSE f[i + k] - (f[a + k] - f[a])]
    <2>1. f[a] <= f[a + k] /\ f[a] \in Nat /\ f[a + k] \in Nat
      BY <1>1, <1>3, SumsGrow DEF Sums
    <2>2. h \in [0..Len(q) - k -> Nat]
      <3>1. ASSUME NEW i \in 0..Len(q) - k
            PROVE  h[i] \in Nat
        <4>0. i \in 0..Len(q)
          BY <1>1
        <4>1. i \in 0..Len(q) /\ f[i] \in Nat
          BY <1>3, <4>0 DEF Sums
        <4>2. CASE i > a
          <5>1. i + k \in 0..Len(q) /\ i + k \in a + k..Len(q)
            BY <1>1, <4>2
          <5>2. f[i + k] \in Nat /\ f[a + k] <= f[i + k]
            BY <1>1, <1>3, <5>1, SumsGrow DEF Sums
          <5> QED
            BY <2>1, <4>2, <5>2
        <4> QED
          BY <4>1, <4>2
      <3> QED
        BY <3>1
    <2>3. ASSUME NEW i \in 1..Len(q) - k
          PROVE  h[i] = h[i - 1] + r[i].cost
      <3>1. i \in 1..Len(q) /\ i + k \in 1..Len(q) /\ (i + k) - 1 = (i - 1) + k
            /\ i \in 0..Len(q) - k /\ i - 1 \in 0..Len(q) - k
        BY <1>1
      <3>2. /\ f[i] = f[i - 1] + q[i].cost /\ f[i + k] = f[(i - 1) + k] + q[i + k].cost
            /\ f[i - 1] \in Nat /\ f[(i - 1) + k] \in Nat
            /\ q[i].cost \in Nat /\ q[i + k].cost \in Nat
        <4>1. i - 1 \in 0..Len(q) /\ (i - 1) + k \in 0..Len(q)
          BY <1>1, <3>1
        <4> QED
          BY <1>3, <3>1, <4>1 DEF Sums, Weighed
      <3>3. r[i] = IF i <= a THEN q[i] ELSE q[i + k]
        OBVIOUS
      <3>4. CASE i <= a
        <4>1. i - 1 <= a
          BY <3>4
        <4>2. h[i] = f[i] /\ h[i - 1] = f[i - 1]
          BY <3>1, <3>4, <4>1
        <4> HIDE DEF h
        <4> QED
          BY <3>2, <3>3, <3>4, <4>2
      <3>5. CASE i = a + 1
        <4>1. i - 1 = a /\ ~(i <= a) /\ i - 1 <= a
          BY <3>5
        <4>2. h[i - 1] = f[a] /\ h[i] = f[i + k] - (f[a + k] - f[a])
          BY <3>1, <4>1
        <4>3. (i - 1) + k = a + k
          BY <4>1
        <4>4. f[i + k] = f[a + k] + r[i].cost /\ r[i].cost \in Nat
          BY <3>2, <3>3, <4>1, <4>3
        <4> HIDE DEF h
        <4> QED
          BY <2>1, <4>2, <4>4, Differences
      <3>6. CASE i > a + 1
        <4>1. ~(i - 1 <= a) /\ ~(i <= a)
          BY <3>6
        <4>2. /\ h[i] = f[i + k] - (f[a + k] - f[a])
              /\ h[i - 1] = f[(i - 1) + k] - (f[a + k] - f[a])
          BY <3>1, <4>1
        <4>3. f[i + k] = f[(i - 1) + k] + r[i].cost /\ r[i].cost \in Nat /\ f[(i - 1) + k] \in Nat
          BY <3>2, <3>3, <4>1
        <4> HIDE DEF h
        <4> QED
          <5> DEFINE z == f[(i - 1) + k]
                     x == f[a + k]
                     y == f[a]
                     u == r[i].cost
          <5>1. h[i] = (z + u) - (x - y) /\ h[i - 1] = z - (x - y)
            BY <4>2, <4>3
          <5>2. x \in Nat /\ y \in Nat /\ z \in Nat /\ u \in Nat
            BY <2>1, <4>3
          <5> HIDE DEF x, y, z, u
          <5>3. h[i] = h[i - 1] + u
            BY <5>1, <5>2
          <5> QED
            BY <5>3 DEF u
      <3> QED
        BY <3>4, <3>5, <3>6
    <2>4. h[0] = 0 /\ h[Len(q) - k] = f[Len(q)] - (f[a + k] - f[a])
      <3>1. 0 \in 0..Len(q) - k /\ Len(q) - k \in 0..Len(q) - k /\ (Len(q) - k) + k = Len(q)
            /\ 0 <= a /\ f[Len(q)] \in Nat
        <4>1. Len(q) \in 0..Len(q)
          BY <1>1
        <4>2. f[Len(q)] \in Nat
          BY <1>3, <4>1 DEF Sums
        <4> QED
          BY <1>1, <4>2
      <3>2. h[0] = 0
        BY <1>3, <3>1 DEF Sums
      <3>3. CASE Len(q) - k > a
        <4>1. ~(Len(q) - k <= a)
          BY <1>1, <3>3
        <4>2. h[Len(q) - k] = f[(Len(q) - k) + k] - (f[a + k] - f[a])
          BY <3>1, <4>1
        <4> QED
          BY <3>1, <3>2, <4>2
      <3>4. CASE Len(q) - k = a
        <4>1. h[Len(q) - k] = f[a]
          BY <3>1, <3>4
        <4> HIDE DEF h
        <4>2. a + k = Len(q)
          BY <3>1, <3>4
        <4>3. f[a] = f[a + k] - (f[a + k] - f[a])
          BY <2>1, Differences
        <4>4. f[a + k] = f[Len(q)]
          BY <4>2
        <4> QED
          BY <3>2, <4>1, <4>3, <4>4, Zenon
      <3> QED
        BY <1>1, <3>3, <3>4
    <2> HIDE DEF h
    <2>5. Sums(r, h)
      BY <2>2, <2>3, <2>4 DEF Sums
    <2>6. Bytes(r) = h[Len(r)] /\ Bytes(q) = f[Len(q)] /\ Bytes(q) \in Nat
      BY <1>2, <1>3, <2>5, BytesSums
    <2> QED
      BY <2>1, <2>4, <2>6
  <1> QED
    BY <1>2, <1>3, SumsExist

\* Inserting an entry adds what it costs.
LEMMA InsertBytes ==
  ASSUME NEW q, Weighed(q), NEW at \in 1..Len(q) + 1, NEW v, v.cost \in Nat,
         NEW r, Len(r) = Len(q) + 1,
         \A i \in 1..Len(q) + 1 :
           r[i] = IF i < at THEN q[i] ELSE IF i = at THEN v ELSE q[i - 1]
  PROVE  Weighed(r) /\ Bytes(r) = Bytes(q) + v.cost
  <1>1. Len(q) \in Nat
    BY DEF Weighed
  <1>2. PICK f : Sums(q, f)
    BY SumsExist
  <1>3. Weighed(r)
    <2>1. ASSUME NEW i \in 1..Len(r) PROVE r[i].cost \in Nat
      <3>1. i \in 1..Len(q) + 1 /\ (i < at => i \in 1..Len(q)) /\ (i > at => i - 1 \in 1..Len(q))
        BY <1>1
      <3> QED
        BY <3>1 DEF Weighed
    <2> QED
      BY <1>1, <2>1 DEF Weighed
  <1> DEFINE h == [i \in 0..Len(q) + 1 |-> IF i < at THEN f[i] ELSE f[i - 1] + v.cost]
  <1>4. \A i \in 0..Len(q) + 1 : /\ (i < at => i \in 0..Len(q) /\ f[i] \in Nat)
                                 /\ (i >= at => i - 1 \in 0..Len(q) /\ f[i - 1] \in Nat)
    <2>1. \A i \in 0..Len(q) + 1 : (i < at => i \in 0..Len(q)) /\ (i >= at => i - 1 \in 0..Len(q))
      BY <1>1
    <2> QED
      BY <1>2, <2>1 DEF Sums
  <1>5. h \in [0..Len(q) + 1 -> Nat]
    BY <1>1, <1>4
  <1>6. ASSUME NEW i \in 1..Len(q) + 1
        PROVE  h[i] = h[i - 1] + r[i].cost
    <2>1. i \in 0..Len(q) + 1 /\ i - 1 \in 0..Len(q) + 1
      BY <1>1
    <2>2. CASE i < at
      <3>1. i \in 1..Len(q) /\ i - 1 < at
        BY <1>1, <2>2
      <3>2. f[i] = f[i - 1] + q[i].cost
        BY <1>2, <3>1 DEF Sums
      <3> QED
        BY <2>1, <2>2, <3>1, <3>2
    <2>3. CASE i = at
      <3>1. i - 1 < at /\ ~(i < at)
        BY <2>3
      <3> QED
        BY <2>1, <2>3, <3>1
    <2>4. CASE i > at
      <3>1. i - 1 \in 1..Len(q) /\ ~(i - 1 < at) /\ ~(i < at) /\ i # at
        BY <1>1, <2>4
      <3>2. f[i - 1] = f[(i - 1) - 1] + q[i - 1].cost
        BY <1>2, <3>1 DEF Sums
      <3>3. f[(i - 1) - 1] \in Nat /\ q[i - 1].cost \in Nat
        <4>1. (i - 1) - 1 \in 0..Len(q)
          BY <1>1, <3>1
        <4> QED
          BY <1>2, <3>1, <4>1 DEF Sums, Weighed
      <3>4. h[i] = f[i - 1] + v.cost /\ h[i - 1] = f[(i - 1) - 1] + v.cost /\ r[i] = q[i - 1]
        BY <2>1, <3>1
      <3> HIDE DEF h
      <3> QED
        BY <3>2, <3>3, <3>4
    <2> QED
      BY <2>2, <2>3, <2>4
  <1>7. h[0] = 0 /\ h[Len(q) + 1] = f[Len(q)] + v.cost
    <2>1. ~(Len(q) + 1 < at) /\ (Len(q) + 1) - 1 = Len(q) /\ 0 < at
      BY <1>1
    <2> QED
      BY <1>1, <1>2, <2>1 DEF Sums
  <1> HIDE DEF h
  <1>8. Sums(r, h)
    BY <1>5, <1>6, <1>7 DEF Sums
  <1> QED
    BY <1>2, <1>3, <1>7, <1>8, BytesSums
=============================================================================
