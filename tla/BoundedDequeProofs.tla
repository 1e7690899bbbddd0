------------------------- MODULE BoundedDequeProofs -------------------------
(***************************************************************************)
(* Priority order, the element cap, the protection of items of higher      *)
(* priority and the byte account, for every set of items, budget, cap and  *)
(* growth of a BoundedDeque.                                               *)
(***************************************************************************)
EXTENDS BoundedDeque, SequenceLemmas

\* The queue and its capacity have their types.
WellFormed(d) == d.q \in Seq(Items) /\ d.cap \in Int

Sorted(s) == \A i, j \in 1..Len(s) : i < j => s[i].prio >= s[j].prio

\* The inductive invariant: the cap is part of it because ensure_room_for_one
\* evicts from the front, the highest priority, when the ring cannot grow.
QueueInv ==
  /\ WellFormed(dq) /\ Len(dq.q) <= MaxElems
  /\ prioritized => Sorted(dq.q)

\* The cap alone.
WithinCap == Len(dq.q) <= MaxElems

\* A consecutive part of a queue, item by item.
LEMMA PartProperties ==
  ASSUME NEW s \in Seq(Items), NEW a \in 0..Len(s), NEW b \in 0..Len(s), a <= b
  PROVE  /\ SubSeq(s, a + 1, b) \in Seq(Items) /\ Len(SubSeq(s, a + 1, b)) = b - a
         /\ \A i \in 1..b - a : SubSeq(s, a + 1, b)[i] = s[a + i]
  <1>1. Len(s) \in Nat /\ \A i \in 1..Len(s) : s[i] \in Items
    BY LenProperties, ElementOfSeq
  <1>2. \A i \in a + 1..b : s[i] \in Items
    BY <1>1
  <1>3. /\ SubSeq(s, a + 1, b) \in Seq(Items)
        /\ Len(SubSeq(s, a + 1, b)) = IF a + 1 <= b THEN b - (a + 1) + 1 ELSE 0
        /\ \A i \in 1..b - (a + 1) + 1 : SubSeq(s, a + 1, b)[i] = s[(a + 1) + i - 1]
    BY <1>1, <1>2, SubSeqProperties, Z3
  <1> QED
    BY <1>1, <1>3

\* pop_front k times.
LEMMA DropFrontFacts ==
  ASSUME NEW d, WellFormed(d), NEW k \in 0..Len(d.q)
  PROVE  /\ WellFormed(DropFront(d, k)) /\ Len(DropFront(d, k).q) = Len(d.q) - k
         /\ \A i \in 1..Len(d.q) - k : DropFront(d, k).q[i] = d.q[k + i]
  <1>1. Len(d.q) \in Nat /\ d.q \in Seq(Items)
    BY LenProperties DEF WellFormed
  <1>2. /\ SubSeq(d.q, k + 1, Len(d.q)) \in Seq(Items)
        /\ Len(SubSeq(d.q, k + 1, Len(d.q))) = Len(d.q) - k
        /\ \A i \in 1..Len(d.q) - k : SubSeq(d.q, k + 1, Len(d.q))[i] = d.q[k + i]
    BY <1>1, PartProperties
  <1> QED
    BY <1>2 DEF WellFormed, DropFront, Deque

\* pop_back k times.
LEMMA DropBackFacts ==
  ASSUME NEW d, WellFormed(d), NEW k \in 0..Len(d.q)
  PROVE  /\ WellFormed(DropBack(d, k)) /\ Len(DropBack(d, k).q) = Len(d.q) - k
         /\ \A i \in 1..Len(d.q) - k : DropBack(d, k).q[i] = d.q[i]
  <1>1. Len(d.q) \in Nat /\ d.q \in Seq(Items)
    BY LenProperties DEF WellFormed
  <1>2. /\ SubSeq(d.q, 0 + 1, Len(d.q) - k) \in Seq(Items)
        /\ Len(SubSeq(d.q, 0 + 1, Len(d.q) - k)) = Len(d.q) - k - 0
        /\ \A i \in 1..Len(d.q) - k - 0 : SubSeq(d.q, 0 + 1, Len(d.q) - k)[i] = d.q[0 + i]
    BY <1>1, PartProperties
  <1>4. 0 + 1 = 1 /\ Len(d.q) - k - 0 = Len(d.q) - k /\ \A i \in 1..Len(d.q) - k : 0 + i = i
    BY <1>1
  <1> QED
    BY <1>2, <1>4 DEF WellFormed, DropBack, Deque

\* Below the cap ensure_room_for_one grows the ring or leaves it; it never evicts.
LEMMA RoomsKeepsItems ==
  ASSUME NEW d, WellFormed(d), Len(d.q) < MaxElems, NEW r \in Rooms(d)
  PROVE  WellFormed(r) /\ r.q = d.q
  <1>1. Len(d.q) \in Nat /\ MaxElems \in Nat
    BY LenProperties, DequeBounds DEF WellFormed
  <1>2. CASE Len(d.q) < d.cap
    BY <1>2 DEF Rooms
  <1>3. CASE ~(Len(d.q) < d.cap)
    <2>1. ~(Full(d) \/ d.cap >= MaxElems)
      BY <1>1, <1>3 DEF Full, WellFormed
    <2>2. PICK c \in Grown(d.cap)..Grown(d.cap) + Slack : r = Deque(d.q, d.cur_bytes, c)
      BY <1>3, <2>1 DEF Rooms
    <2>3. c \in Int
      OBVIOUS
    <2> QED
      BY <2>2, <2>3 DEF WellFormed, Deque
  <1> QED
    BY <1>2, <1>3

\* Inserting into a queue, item by item.
LEMMA ItemsAfterInsert ==
  ASSUME NEW s \in Seq(Items), NEW v \in Items, NEW at \in 1..Len(s) + 1
  PROVE  /\ Len(InsertAt(s, at, v)) = Len(s) + 1
         /\ \A i \in 1..Len(s) + 1 :
              InsertAt(s, at, v)[i] =
                IF i < at THEN s[i] ELSE IF i = at THEN v ELSE s[i - 1]
  <1>1. InsertAt(s, at, v) =
          [i \in 1..Len(s) + 1 |-> IF i < at THEN s[i] ELSE IF i = at THEN v ELSE s[i - 1]]
    BY InsertAtFunction
  <1>2. Len(InsertAt(s, at, v)) = Len(s) + 1
    BY InsertAtProperties
  <1> QED
    BY <1>1, <1>2

\* The place push_back_prioritized inserts at keeps the queue sorted and every
\* item of higher priority where it was.
LEMMA InsertSorted ==
  ASSUME NEW s \in Seq(Items), Sorted(s), NEW v \in Items,
         NEW at \in 1..Len(s) + 1, BeforeLower(s, v, at)
  PROVE  /\ Sorted(InsertAt(s, at, v))
         /\ \A i \in 1..Len(s) : s[i].prio > v.prio => InsertAt(s, at, v)[i] = s[i]
  <1> DEFINE n == InsertAt(s, at, v)
  <1>1. Len(s) \in Nat /\ v.prio \in Nat /\ \A i \in 1..Len(s) : s[i].prio \in Nat
    BY LenProperties, ElementOfSeq, ItemsCosted
  <1>2. /\ Len(n) = Len(s) + 1
        /\ \A i \in 1..Len(s) + 1 :
             n[i] = IF i < at THEN s[i] ELSE IF i = at THEN v ELSE s[i - 1]
    BY ItemsAfterInsert
  <1> HIDE DEF n
  <1>3. \A i \in 1..Len(s) : i < at => s[i].prio >= v.prio
    BY <1>1 DEF BeforeLower
  <1>4. ASSUME NEW i \in 1..Len(s), i >= at PROVE s[i].prio < v.prio
    <2>1. at \in 1..Len(s) /\ s[at].prio < v.prio
      BY <1>1, <1>4 DEF BeforeLower
    <2>2. s[at].prio >= s[i].prio
      BY <1>1, <1>4, <2>1 DEF Sorted
    <2> QED
      BY <1>1, <2>1, <2>2
  <1>5. ASSUME NEW i \in 1..Len(n), NEW j \in 1..Len(n), i < j
        PROVE  n[i].prio >= n[j].prio
    <2>0. i \in 1..Len(s) + 1 /\ j \in 1..Len(s) + 1 /\ i \in Int /\ j \in Int /\ at \in Int
      BY <1>1, <1>2
    <2>1. CASE j < at
      <3>1. n[i] = s[i] /\ n[j] = s[j] /\ i \in 1..Len(s) /\ j \in 1..Len(s)
        BY <1>1, <1>2, <1>5, <2>0, <2>1
      <3> QED
        BY <1>5, <3>1 DEF Sorted
    <2>2. CASE j = at
      <3>1. n[i] = s[i] /\ n[j] = v /\ i \in 1..Len(s) /\ i < at
        BY <1>1, <1>2, <1>5, <2>0, <2>2
      <3> QED
        BY <1>3, <3>1
    <2>3. CASE j > at
      <3>1. n[j] = s[j - 1] /\ j - 1 \in 1..Len(s) /\ j - 1 >= at
        BY <1>1, <1>2, <1>5, <2>0, <2>3
      <3>2. CASE i < at
        <4>1. n[i] = s[i] /\ i \in 1..Len(s) /\ i < j - 1
          BY <1>1, <1>2, <2>0, <2>3, <3>1, <3>2
        <4> QED
          BY <3>1, <4>1 DEF Sorted
      <3>3. CASE i = at
        <4>1. n[i] = v
          BY <1>2, <2>0, <3>3
        <4> QED
          BY <1>1, <1>4, <3>1, <4>1
      <3>4. CASE i > at
        <4>1. n[i] = s[i - 1] /\ i - 1 \in 1..Len(s) /\ i - 1 < j - 1
          BY <1>1, <1>2, <1>5, <2>0, <3>1, <3>4
        <4> QED
          BY <3>1, <4>1 DEF Sorted
      <3> QED
        BY <2>0, <3>2, <3>3, <3>4
    <2> QED
      BY <2>0, <2>1, <2>2, <2>3
  <1>6. ASSUME NEW i \in 1..Len(s), s[i].prio > v.prio PROVE n[i] = s[i]
    <2>1. i < at
      BY <1>1, <1>4, <1>6
    <2> QED
      BY <1>1, <1>2, <2>1
  <1> QED
    BY <1>5, <1>6 DEF Sorted, n

\* The tail of push_back_prioritized, on what its eviction has left.
LEMMA InsertFacts ==
  ASSUME NEW d, WellFormed(d), Len(d.q) < MaxElems, Sorted(d.q),
         NEW v \in Items, Insert(d, v)
  PROVE  /\ WellFormed(dq') /\ Len(dq.q') = Len(d.q) + 1 /\ Sorted(dq.q')
         /\ \A i \in 1..Len(d.q) : d.q[i].prio > v.prio => dq.q'[i] = d.q[i]
  <1>0. PICK r \in Rooms(d) : \E at \in 1..Len(r.q) + 1 :
          /\ BeforeLower(r.q, v, at)
          /\ dq' = Deque(InsertAt(r.q, at, v), r.cur_bytes + v.cost, r.cap)
    BY DEF Insert
  <1>1. PICK at \in 1..Len(r.q) + 1 :
          /\ BeforeLower(r.q, v, at)
          /\ dq' = Deque(InsertAt(r.q, at, v), r.cur_bytes + v.cost, r.cap)
    BY <1>0
  <1>2. WellFormed(r) /\ r.q = d.q /\ d.q \in Seq(Items)
    BY RoomsKeepsItems DEF WellFormed
  <1>3. at \in 1..Len(d.q) + 1 /\ BeforeLower(d.q, v, at) /\ dq.q' = InsertAt(d.q, at, v)
        /\ dq.cap' = r.cap
    BY <1>1, <1>2 DEF Deque
  <1>4. InsertAt(d.q, at, v) \in Seq(Items)
    BY <1>2, <1>3, InsertAtProperties
  <1>5. Len(InsertAt(d.q, at, v)) = Len(d.q) + 1
    BY <1>2, <1>3, InsertAtProperties
  <1>6. /\ Sorted(InsertAt(d.q, at, v))
        /\ \A i \in 1..Len(d.q) : d.q[i].prio > v.prio => InsertAt(d.q, at, v)[i] = d.q[i]
    BY <1>2, <1>3, InsertSorted
  <1> QED
    BY <1>2, <1>3, <1>4, <1>5, <1>6 DEF WellFormed

\* Dropping from either end keeps a queue sorted.
LEMMA DropSorted ==
  ASSUME NEW d, WellFormed(d), Sorted(d.q), NEW k \in 0..Len(d.q)
  PROVE  Sorted(DropFront(d, k).q) /\ Sorted(DropBack(d, k).q)
  <1>0. Len(d.q) \in Nat
    BY LenProperties DEF WellFormed
  <1>1. Sorted(DropFront(d, k).q)
    <2> DEFINE e == DropFront(d, k).q
    <2>1. Len(e) = Len(d.q) - k /\ \A i \in 1..Len(d.q) - k : e[i] = d.q[k + i]
      BY DropFrontFacts
    <2> HIDE DEF e
    <2>2. ASSUME NEW i \in 1..Len(e), NEW j \in 1..Len(e), i < j
          PROVE  e[i].prio >= e[j].prio
      <3>1. k + i \in 1..Len(d.q) /\ k + j \in 1..Len(d.q) /\ k + i < k + j
        BY <1>0, <2>1, <2>2
      <3>2. e[i] = d.q[k + i] /\ e[j] = d.q[k + j]
        BY <2>1
      <3> QED
        BY <3>1, <3>2 DEF Sorted
    <2> QED
      BY <2>2 DEF Sorted, e
  <1>2. Sorted(DropBack(d, k).q)
    <2> DEFINE e == DropBack(d, k).q
    <2>1. Len(e) = Len(d.q) - k /\ \A i \in 1..Len(d.q) - k : e[i] = d.q[i]
      BY DropBackFacts
    <2> HIDE DEF e
    <2>2. ASSUME NEW i \in 1..Len(e), NEW j \in 1..Len(e), i < j
          PROVE  e[i].prio >= e[j].prio
      <3>0. Len(e) = Len(d.q) - k /\ i \in 1..Len(d.q) - k /\ j \in 1..Len(d.q) - k
        BY <2>1
      <3>1. /\ i \in 1..Len(d.q) /\ j \in 1..Len(d.q)
            /\ e[i] = d.q[i] /\ e[j] = d.q[j]
        <4>1. i \in 1..Len(d.q) /\ j \in 1..Len(d.q)
          BY <1>0, <3>0
        <4>2. e[i] = d.q[i] /\ e[j] = d.q[j]
          BY <2>1, <3>0
        <4> QED
          BY <4>1, <4>2
      <3> QED
        BY <2>2, <3>1 DEF Sorted
    <2> QED
      BY <2>2 DEF Sorted, e
  <1> QED
    BY <1>1, <1>2

\* push_back_prioritized keeps the invariant and every item of higher priority.
LEMMA PrioritizedPush ==
  ASSUME QueueInv, NEW v \in Items, PushBackPrioritized(v), UNCHANGED prioritized
  PROVE  QueueInv' /\ HigherSurvive(v)
  <1>0. /\ WellFormed(dq) /\ Sorted(dq.q) /\ Len(dq.q) \in Nat /\ Len(dq.q) <= MaxElems
        /\ MaxElems \in Nat \ {0} /\ v.prio \in Nat
        /\ \A i \in 1..Len(dq.q) : dq.q[i].prio \in Nat
    BY LenProperties, ElementOfSeq, ItemsCosted, DequeBounds
       DEF QueueInv, WellFormed, PushBackPrioritized
  <1>1. CASE dq' = dq
    BY <1>0, <1>1 DEF QueueInv, HigherSurvive
  <1>2. ASSUME NEW k \in 0..Len(dq.q), EvictsBack(dq, v, k),
               \/ Rejected(DropBack(dq, k), "saturated")
               \/ ~Full(DropBack(dq, k)) /\ Insert(DropBack(dq, k), v)
               \/ /\ Full(DropBack(dq, k)) /\ ~Yields(DropBack(dq, k), v)
                  /\ Insert(DropBack(DropBack(dq, k), 1), v)
        PROVE  QueueInv' /\ HigherSurvive(v)
    <2> DEFINE e == DropBack(dq, k)
    <2>1. /\ WellFormed(e) /\ Len(e.q) = Len(dq.q) - k /\ Sorted(e.q)
          /\ \A i \in 1..Len(dq.q) - k : e.q[i] = dq.q[i]
      BY <1>0, DropBackFacts, DropSorted
    <2>2. \A i \in 1..Len(dq.q) : dq.q[i].prio > v.prio => i <= Len(e.q)
      <3> SUFFICES ASSUME NEW i \in 1..Len(dq.q), ~(i <= Len(e.q))
                   PROVE  ~(dq.q[i].prio > v.prio)
        OBVIOUS
      <3> DEFINE j == Len(dq.q) - i
      <3>1. j \in 0..k - 1 /\ j \in 0..Len(dq.q) /\ Len(dq.q) - j = i
        BY <1>0, <2>1
      <3>2. ~Yields(DropBack(dq, j), v)
        BY <1>2, <3>1 DEF EvictsBack
      <3> HIDE DEF j
      <3>3. /\ Len(DropBack(dq, j).q) = i /\ DropBack(dq, j).q[i] = dq.q[i]
        <4>1. /\ Len(DropBack(dq, j).q) = Len(dq.q) - j
              /\ \A x \in 1..Len(dq.q) - j : DropBack(dq, j).q[x] = dq.q[x]
          BY <1>0, <3>1, DropBackFacts
        <4> QED
          BY <1>0, <3>1, <4>1
      <3> QED
        BY <3>2, <3>3 DEF Yields, Last
    <2>3. CASE Rejected(e, "saturated")
      <3>1. dq' = e
        BY <2>3 DEF Rejected
      <3> QED
        BY <1>0, <2>1, <2>2, <3>1 DEF QueueInv, HigherSurvive
    <2>4. CASE ~Full(e) /\ Insert(e, v)
      <3>1. Len(e.q) < MaxElems
        BY <1>0, <2>1, <2>4 DEF Full
      <3>2. /\ WellFormed(dq') /\ Len(dq.q') = Len(e.q) + 1 /\ Sorted(dq.q')
            /\ \A i \in 1..Len(e.q) : e.q[i].prio > v.prio => dq.q'[i] = e.q[i]
        BY <2>1, <2>4, <3>1, InsertFacts
      <3>3. ASSUME NEW i \in 1..Len(dq.q), dq.q[i].prio > v.prio
            PROVE  i <= Len(dq.q') /\ dq.q'[i] = dq.q[i]
        <4>1. i \in 1..Len(e.q) /\ e.q[i] = dq.q[i]
          BY <1>0, <2>1, <2>2, <3>3
        <4> QED
          BY <1>0, <2>1, <3>2, <3>3, <4>1
      <3> QED
        BY <1>0, <2>1, <3>1, <3>2, <3>3 DEF QueueInv, HigherSurvive
    <2>5. CASE Full(e) /\ ~Yields(e, v) /\ Insert(DropBack(e, 1), v)
      <3> DEFINE f == DropBack(e, 1)
      <3>1. 1 \in 0..Len(e.q) /\ Len(e.q) = MaxElems
        BY <1>0, <2>1, <2>5 DEF Full
      <3>2. /\ WellFormed(f) /\ Len(f.q) = Len(e.q) - 1 /\ Sorted(f.q)
            /\ \A i \in 1..Len(e.q) - 1 : f.q[i] = e.q[i]
        BY <2>1, <3>1, DropBackFacts, DropSorted
      <3>3. Insert(f, v) /\ Len(f.q) < MaxElems
        BY <1>0, <2>5, <3>1, <3>2
      <3> HIDE DEF f
      <3>4. /\ WellFormed(dq') /\ Len(dq.q') = Len(f.q) + 1 /\ Sorted(dq.q')
            /\ \A i \in 1..Len(f.q) : f.q[i].prio > v.prio => dq.q'[i] = f.q[i]
        BY <3>2, <3>3, InsertFacts
      <3>5. ~(e.q[Len(e.q)].prio > v.prio)
        BY <2>5 DEF Yields, Last
      <3>6. ASSUME NEW i \in 1..Len(dq.q), dq.q[i].prio > v.prio
            PROVE  i <= Len(dq.q') /\ dq.q'[i] = dq.q[i]
        <4>1. i \in 1..Len(e.q) /\ e.q[i] = dq.q[i]
          BY <1>0, <2>1, <2>2, <3>6
        <4>2. i # Len(e.q)
          BY <3>5, <3>6, <4>1
        <4>3. i \in 1..Len(f.q) /\ f.q[i] = dq.q[i]
          BY <3>1, <3>2, <4>1, <4>2, <1>0
        <4> QED
          BY <1>0, <3>1, <3>2, <3>4, <3>6, <4>3
      <3> QED
        BY <1>0, <3>1, <3>2, <3>4, <3>6 DEF QueueInv, HigherSurvive
    <2> QED
      BY <1>2, <2>3, <2>4, <2>5
  <1>3. CASE v.cost > MaxBytes /\ Rejected(dq, "too large")
    BY <1>1, <1>3 DEF Rejected
  <1> QED
    BY <1>2, <1>3 DEF PushBackPrioritized

\* push_back: eviction from the front leaves room below the cap.
LEMMA FifoPush ==
  ASSUME QueueInv, NEW v \in Items, PushBack(v), UNCHANGED prioritized
  PROVE  QueueInv'
  <1>0. /\ WellFormed(dq) /\ Len(dq.q) \in Nat /\ Len(dq.q) <= MaxElems
        /\ MaxElems \in Nat \ {0} /\ ~prioritized
    BY LenProperties, DequeBounds DEF QueueInv, WellFormed, PushBack
  <1>1. CASE Rejected(dq, "too large")
    BY <1>1 DEF Rejected, QueueInv
  <1>2. ASSUME NEW k \in 0..Len(dq.q),
               NEW e, e = (IF Full(DropFront(dq, k)) THEN DropFront(DropFront(dq, k), 1)
                                                     ELSE DropFront(dq, k)),
               NEW r \in Rooms(e),
               dq' = Deque(Append(r.q, v), r.cur_bytes + v.cost, r.cap)
        PROVE  QueueInv'
    <2>1. WellFormed(DropFront(dq, k)) /\ Len(DropFront(dq, k).q) = Len(dq.q) - k
      BY <1>0, DropFrontFacts
    <2>2. WellFormed(e) /\ Len(e.q) < MaxElems
      <3>1. CASE Full(DropFront(dq, k))
        <4>1. 1 \in 0..Len(DropFront(dq, k).q)
          BY <1>0, <2>1, <3>1 DEF Full
        <4>2. /\ WellFormed(DropFront(DropFront(dq, k), 1))
              /\ Len(DropFront(DropFront(dq, k), 1).q) = Len(DropFront(dq, k).q) - 1
          BY <2>1, <4>1, DropFrontFacts
        <4> QED
          BY <1>0, <1>2, <2>1, <3>1, <4>2
      <3>2. CASE ~Full(DropFront(dq, k))
        BY <1>0, <1>2, <2>1, <3>2 DEF Full
      <3> QED
        BY <3>1, <3>2
    <2>3. WellFormed(r) /\ r.q = e.q
      BY <2>2, RoomsKeepsItems
    <2>4. Append(r.q, v) \in Seq(Items) /\ Len(Append(r.q, v)) = Len(r.q) + 1
      BY <2>3, AppendProperties DEF WellFormed
    <2>5. Len(e.q) \in Nat
      BY <2>2, LenProperties DEF WellFormed
    <2> QED
      BY <1>0, <1>2, <2>2, <2>3, <2>4, <2>5 DEF QueueInv, WellFormed, Deque
  <1> QED
    BY <1>1, <1>2 DEF PushBack

\* remove_pos: the items behind the removed one move up.
LEMMA RemoveKeeps ==
  ASSUME QueueInv, NEW k \in 1..Len(dq.q), RemovePos(k), UNCHANGED prioritized
  PROVE  QueueInv'
  <1>0. dq.q \in Seq(Items) /\ dq.cap \in Int /\ Len(dq.q) \in Nat /\ MaxElems \in Nat
    BY LenProperties, DequeBounds DEF QueueInv, WellFormed
  <1>1. dq.q' = RemoveAt(dq.q, k) /\ dq.cap' = dq.cap
    BY DEF RemovePos, Deque
  <1>2. /\ dq.q' \in Seq(Items) /\ Len(dq.q') = Len(dq.q) - 1
        /\ \A i \in 1..Len(dq.q) - 1 : dq.q'[i] = IF i < k THEN dq.q[i] ELSE dq.q[i + 1]
    <2>1. RemoveAt(dq.q, k) \in Seq(Items)
      BY <1>0, RemoveAtProperties
    <2>2. Len(RemoveAt(dq.q, k)) = Len(dq.q) - 1
      BY <1>0, RemoveAtProperties
    <2>3. ASSUME NEW i \in 1..Len(dq.q) - 1
          PROVE  RemoveAt(dq.q, k)[i] = IF i < k THEN dq.q[i] ELSE dq.q[i + 1]
      BY <1>0, RemoveAtProperties
    <2> QED
      BY <1>1, <2>1, <2>2, <2>3
  <1>3. ASSUME Sorted(dq.q) PROVE Sorted(dq.q')
    <2> SUFFICES ASSUME NEW i \in 1..Len(dq.q'), NEW j \in 1..Len(dq.q'), i < j
                 PROVE  dq.q'[i].prio >= dq.q'[j].prio
      BY DEF Sorted
    <2> DEFINE a == IF i < k THEN i ELSE i + 1
               b == IF j < k THEN j ELSE j + 1
    <2>1. a \in 1..Len(dq.q) /\ b \in 1..Len(dq.q) /\ a < b
      BY <1>0, <1>2
    <2>2. dq.q'[i] = dq.q[a] /\ dq.q'[j] = dq.q[b]
      BY <1>0, <1>2
    <2> HIDE DEF a, b
    <2> QED
      BY <1>3, <2>1, <2>2 DEF Sorted
  <1> QED
    BY <1>0, <1>1, <1>2, <1>3 DEF QueueInv, WellFormed

\* retain: the kept items keep their order.
LEMMA RetainKeeps ==
  ASSUME QueueInv, NEW keep, Retain(keep), UNCHANGED prioritized
  PROVE  QueueInv'
  <1>0. /\ dq.q \in Seq(Items) /\ dq.cap \in Int /\ Len(dq.q) \in Nat /\ MaxElems \in Nat
        /\ Len(dq.q) <= MaxElems /\ \A i \in 1..Len(dq.q) : dq.q[i] \in Items
    BY LenProperties, ElementOfSeq, DequeBounds DEF QueueInv, WellFormed
  <1>1. PICK n \in 0..Len(dq.q) : \E at \in [1..n -> 1..Len(dq.q)] :
          /\ \A i, j \in 1..n : i < j => at[i] < at[j]
          /\ dq' = Deque([i \in 1..n |-> dq.q[at[i]]],
                         Monus(dq.cur_bytes, Removed(keep)), dq.cap)
    BY Zenon DEF Retain
  <1>a. PICK at \in [1..n -> 1..Len(dq.q)] :
          /\ \A i, j \in 1..n : i < j => at[i] < at[j]
          /\ dq' = Deque([i \in 1..n |-> dq.q[at[i]]],
                         Monus(dq.cur_bytes, Removed(keep)), dq.cap)
    BY <1>1, Zenon
  <1>2. /\ \A i, j \in 1..n : i < j => at[i] < at[j]
        /\ dq.q' = [i \in 1..n |-> dq.q[at[i]]]
        /\ dq.cap' = dq.cap
    BY <1>a DEF Deque
  <1>3. dq.q' \in Seq(Items) /\ Len(dq.q') = n
    <2>1. dq.q' \in [1..n -> Items] /\ n \in Nat
      BY <1>0, <1>2
    <2> QED
      BY <2>1
  <1>4. ASSUME Sorted(dq.q) PROVE Sorted(dq.q')
    <2> SUFFICES ASSUME NEW i \in 1..Len(dq.q'), NEW j \in 1..Len(dq.q'), i < j
                 PROVE  dq.q'[i].prio >= dq.q'[j].prio
      BY DEF Sorted
    <2>1. /\ at[i] \in 1..Len(dq.q) /\ at[j] \in 1..Len(dq.q) /\ at[i] < at[j]
          /\ dq.q'[i] = dq.q[at[i]] /\ dq.q'[j] = dq.q[at[j]]
      BY <1>2, <1>3
    <2> QED
      BY <1>4, <2>1 DEF Sorted
  <1> QED
    BY <1>0, <1>2, <1>3, <1>4 DEF QueueInv, WellFormed

\* Every call keeps the invariant.
LEMMA QueueStep == QueueInv /\ [Next]_vars => QueueInv'
  <1> SUFFICES ASSUME QueueInv, [Next]_vars PROVE QueueInv'
    OBVIOUS
  <1>0. /\ WellFormed(dq) /\ Len(dq.q) \in Nat /\ Len(dq.q) <= MaxElems /\ MaxElems \in Nat
    BY LenProperties, DequeBounds DEF QueueInv, WellFormed
  <1>p. UNCHANGED prioritized
    BY DEF Next, vars
  <1>1. CASE PopFront \/ PopBack
    <2>1. 1 \in 0..Len(dq.q)
      BY <1>0, <1>1, EmptySeq DEF PopFront, PopBack, WellFormed
    <2>2. dq' = DropFront(dq, 1) \/ dq' = DropBack(dq, 1)
      BY <1>1 DEF PopFront, PopBack
    <2>3. WellFormed(dq') /\ Len(dq.q') = Len(dq.q) - 1
      BY <1>0, <2>1, <2>2, DropFrontFacts, DropBackFacts
    <2>4. Sorted(dq.q) => Sorted(dq.q')
      BY <1>0, <2>1, <2>2, DropSorted
    <2> QED
      BY <1>0, <1>p, <2>3, <2>4 DEF QueueInv
  <1>2. CASE Clear
    <2>1. dq.q' = <<>> /\ dq.cap' = dq.cap
      BY <1>2 DEF Clear, Deque
    <2> QED
      BY <1>0, <1>p, <2>1 DEF QueueInv, WellFormed, Sorted
  <1>3. CASE \E v \in Items : PushBack(v) \/ PushBackPrioritized(v)
    BY <1>3, <1>p, FifoPush, PrioritizedPush
  <1>4. CASE \E i \in 1..Len(dq.q) : RemovePos(i)
    BY <1>4, <1>p, RemoveKeeps
  <1>5. CASE \E v \in Items : RemoveValue(v)
    BY <1>5, <1>p, RemoveKeeps DEF RemoveValue
  <1>6. CASE \E keep \in SUBSET Range(dq.q) : Retain(keep)
    BY <1>6, <1>p, RetainKeeps
  <1>7. CASE UNCHANGED vars
    BY <1>7 DEF QueueInv, vars
  <1> QED
    BY <1>1, <1>2, <1>3, <1>4, <1>5, <1>6, <1>7 DEF Next, Call

\* A new queue is empty.
LEMMA QueueInit == Init => QueueInv
  <1> SUFFICES ASSUME Init PROVE QueueInv
    OBVIOUS
  <1>1. dq.q = <<>> /\ dq.cap \in Int
    BY DEF Init, Deque
  <1> QED
    BY <1>1, DequeBounds DEF QueueInv, WellFormed, Sorted

\* Whatever calls are made, a prioritized queue stays in priority order
\* (push_back_prioritized inserts, nothing reorders).
THEOREM StaysSorted == Spec => []PrioritySorted
  <1>1. QueueInv => PrioritySorted
    BY DEF QueueInv, PrioritySorted, Sorted
  <1> QED
    BY <1>1, QueueInit, QueueStep, PTL DEF Spec

\* Whatever calls are made, the queue never holds more than max_elems items.
THEOREM HardCap == Spec => []WithinCap
  <1>1. QueueInv => WithinCap
    BY DEF QueueInv, WithinCap
  <1> QED
    BY <1>1, QueueInit, QueueStep, PTL DEF Spec

\* push_back_prioritized never costs an item of higher priority its place, for
\* any budget: neither its own loop nor ensure_room_for_one reaches the front.
THEOREM HigherPrioritySafe == Spec => EvictsLowerOnly
  <1>1. QueueInv /\ [Next]_vars =>
          [\A v \in Items : PushBackPrioritized(v) => HigherSurvive(v)]_vars
    BY PrioritizedPush DEF Next, vars
  <1> QED
    BY <1>1, QueueInit, QueueStep, PTL DEF Spec, EvictsLowerOnly

-----------------------------------------------------------------------------
(***************************************************************************)
(* The byte account.                                                       *)
(***************************************************************************)

\* cur_bytes is what the queue weighs, within the budget and the ring.
Paid(d) ==
  /\ WellFormed(d) /\ d.cur_bytes = Bytes(d.q) /\ d.cur_bytes <= MaxBytes
  /\ Len(d.q) <= d.cap /\ d.cap <= MaxElems + Slack

\* The invariant of the account; the cap of QueueInv is what keeps the eviction
\* of ensure_room_for_one, and so a ring that cannot grow, out of reach.
LedgerInv == QueueInv /\ Paid(dq)

\* Every queue of items has a weight.
LEMMA ItemsWeighed ==
  ASSUME NEW s \in Seq(Items)
  PROVE  Weighed(s) /\ Bytes(s) \in Nat /\ \E f : Sums(s, f) /\ Bytes(s) = f[Len(s)]
  <1>1. Weighed(s)
    BY LenProperties, ElementOfSeq, ItemsCosted DEF Weighed
  <1>2. PICK f : Sums(s, f)
    BY <1>1, SumsExist
  <1> QED
    BY <1>1, <1>2, BytesSums

\* The two parts of a queue weigh what it weighs.
LEMMA SplitBytes ==
  ASSUME NEW s \in Seq(Items), NEW k \in 0..Len(s)
  PROVE  /\ Bytes(SubSeq(s, 1, k)) \in Nat /\ Bytes(SubSeq(s, k + 1, Len(s))) \in Nat
         /\ Bytes(s) = Bytes(SubSeq(s, 1, k)) + Bytes(SubSeq(s, k + 1, Len(s)))
  <1> DEFINE a == SubSeq(s, 1, k)
             b == SubSeq(s, k + 1, Len(s))
  <1>1. Len(s) \in Nat /\ 0 \in 0..Len(s) /\ Len(s) \in k..Len(s) /\ k \in 0..Len(s) /\ k \in Nat
    BY LenProperties
  <1>2. a \in Seq(Items) /\ Len(a) = k /\ \A i \in 1..k : a[i] = s[i]
    <2>1. /\ SubSeq(s, 0 + 1, k) \in Seq(Items) /\ Len(SubSeq(s, 0 + 1, k)) = k - 0
          /\ \A i \in 1..k - 0 : SubSeq(s, 0 + 1, k)[i] = s[0 + i]
      BY <1>1, PartProperties
    <2>2. 0 + 1 = 1 /\ k - 0 = k /\ \A i \in 1..k : 0 + i = i
      BY <1>1
    <2> QED
      BY <2>1, <2>2
  <1>3. /\ b \in Seq(Items) /\ Len(b) = Len(s) - k
        /\ \A i \in 1..Len(s) - k : b[i] = s[k + i]
    BY <1>1, PartProperties
  <1>4. Bytes(a) \in Nat /\ Bytes(b) \in Nat
    BY <1>2, <1>3, ItemsWeighed
  <1> HIDE DEF a, b
  <1>5. PICK f : Sums(s, f) /\ Bytes(s) = f[Len(s)]
    BY ItemsWeighed
  <1>6. Weighed(s)
    BY ItemsWeighed
  <1>7. Bytes(a) = f[k] - f[0]
    <2> DEFINE zero == 0
    <2>1. /\ zero \in 0..Len(s) /\ k \in zero..Len(s) /\ Len(a) = k - zero
          /\ \A i \in 1..k - zero : a[i] = s[zero + i]
      BY <1>1, <1>2
    <2> HIDE DEF zero
    <2>2. Bytes(a) = f[k] - f[zero]
      BY <1>5, <1>6, <2>1, PartBytes
    <2> QED
      BY <2>2 DEF zero
  <1>8. Bytes(b) = f[Len(s)] - f[k]
    <2> DEFINE n == Len(s)
    <2>1. /\ n \in k..Len(s) /\ Len(b) = n - k
          /\ \A i \in 1..n - k : b[i] = s[k + i]
      BY <1>1, <1>3
    <2> HIDE DEF n
    <2>2. Bytes(b) = f[n] - f[k]
      BY <1>1, <1>5, <1>6, <2>1, PartBytes
    <2> QED
      BY <2>2 DEF n
  <1>9. f[0] = 0 /\ f[k] \in Nat /\ f[Len(s)] \in Nat
    BY <1>1, <1>5 DEF Sums
  <1>10. Bytes(s) = Bytes(a) + Bytes(b)
    BY <1>5, <1>7, <1>8, <1>9
  <1> QED
    BY <1>4, <1>10 DEF a, b

\* pop_front and pop_back subtract exactly what they take.
LEMMA DropPaid ==
  ASSUME NEW d, Paid(d), NEW k \in 0..Len(d.q)
  PROVE  /\ Paid(DropFront(d, k)) /\ DropFront(d, k).cur_bytes <= d.cur_bytes
         /\ Paid(DropBack(d, k)) /\ DropBack(d, k).cur_bytes <= d.cur_bytes
  <1> DEFINE s == d.q
             n == Len(s)
             m == n - k
  <1>1. /\ s \in Seq(Items) /\ n \in Nat /\ d.cap \in Int /\ MaxBytes \in Nat
        /\ d.cur_bytes = Bytes(s) /\ Bytes(s) \in Nat /\ Bytes(s) <= MaxBytes
        /\ n <= d.cap /\ d.cap <= MaxElems + Slack /\ m \in 0..n /\ n - m = k
    BY LenProperties, ItemsWeighed, DequeBounds DEF Paid, WellFormed
  <1>2. /\ WellFormed(DropFront(d, k)) /\ Len(DropFront(d, k).q) = m
        /\ WellFormed(DropBack(d, k)) /\ Len(DropBack(d, k).q) = m
    BY DropFrontFacts, DropBackFacts DEF Paid
  <1>3. /\ DropFront(d, k).q = SubSeq(s, k + 1, n)
        /\ DropFront(d, k).cur_bytes = Monus(d.cur_bytes, Bytes(SubSeq(s, 1, k)))
        /\ DropFront(d, k).cap = d.cap
        /\ DropBack(d, k).q = SubSeq(s, 1, m)
        /\ DropBack(d, k).cur_bytes = Monus(d.cur_bytes, Bytes(SubSeq(s, m + 1, n)))
        /\ DropBack(d, k).cap = d.cap
    BY DEF DropFront, DropBack, Deque
  <1>4. /\ Bytes(SubSeq(s, 1, k)) \in Nat /\ Bytes(SubSeq(s, k + 1, n)) \in Nat
        /\ Bytes(s) = Bytes(SubSeq(s, 1, k)) + Bytes(SubSeq(s, k + 1, n))
    BY <1>1, SplitBytes
  <1>5. /\ Bytes(SubSeq(s, 1, m)) \in Nat /\ Bytes(SubSeq(s, m + 1, n)) \in Nat
        /\ Bytes(s) = Bytes(SubSeq(s, 1, m)) + Bytes(SubSeq(s, m + 1, n))
    <2> HIDE DEF m
    <2> QED
      BY <1>1, SplitBytes
  <1>6. m <= d.cap
    BY <1>1
  <1> HIDE DEF n, m
  <1>7. /\ DropFront(d, k).cur_bytes = Bytes(DropFront(d, k).q)
        /\ Bytes(DropFront(d, k).q) <= Bytes(s)
    BY <1>1, <1>3, <1>4 DEF Monus
  <1>8. /\ DropBack(d, k).cur_bytes = Bytes(DropBack(d, k).q)
        /\ Bytes(DropBack(d, k).q) <= Bytes(s)
    BY <1>1, <1>3, <1>5 DEF Monus
  <1>9. Bytes(DropFront(d, k).q) \in Nat /\ Bytes(DropBack(d, k).q) \in Nat
    BY <1>3, <1>4, <1>5
  <1>10. Paid(DropFront(d, k)) /\ DropFront(d, k).cur_bytes <= d.cur_bytes
    BY <1>1, <1>2, <1>3, <1>6, <1>7, <1>9 DEF Paid
  <1>11. Paid(DropBack(d, k)) /\ DropBack(d, k).cur_bytes <= d.cur_bytes
    BY <1>1, <1>2, <1>3, <1>6, <1>8, <1>9 DEF Paid
  <1> QED
    BY <1>10, <1>11

\* Below the cap ensure_room_for_one leaves room for one item in the ring.
LEMMA RoomsPaid ==
  ASSUME NEW d, Paid(d), Len(d.q) < MaxElems, NEW r \in Rooms(d)
  PROVE  /\ r.q = d.q /\ r.cur_bytes = d.cur_bytes /\ r.cap \in Int
         /\ Len(d.q) + 1 <= r.cap /\ r.cap <= MaxElems + Slack
  <1>1. Len(d.q) \in Nat /\ MaxElems \in Nat /\ Slack \in Nat /\ d.cap \in Int
        /\ Len(d.q) <= d.cap /\ d.cap <= MaxElems + Slack
    BY LenProperties, DequeBounds DEF Paid, WellFormed
  <1>2. CASE Len(d.q) < d.cap
    BY <1>1, <1>2 DEF Rooms
  <1>3. CASE ~(Len(d.q) < d.cap)
    <2>1. ~(Full(d) \/ d.cap >= MaxElems) /\ Len(d.q) = d.cap /\ d.cap < MaxElems
      BY <1>1, <1>3 DEF Full
    <2> DEFINE g == Grown(d.cap)
    <2>2. g \in Int /\ g >= d.cap + 1 /\ g <= MaxElems
      <3> DEFINE scaled == (d.cap * GrowNum + GrowDen - 1) \div GrowDen
                 more == IF scaled > d.cap + 1 THEN scaled ELSE d.cap + 1
      <3>1. scaled \in Int
        BY <1>1, DequeBounds
      <3>2. g = IF more < MaxElems THEN more ELSE MaxElems
        BY DEF Grown
      <3> HIDE DEF scaled
      <3> QED
        BY <1>1, <2>1, <3>1, <3>2
    <2>3. PICK c \in g..g + Slack : r = Deque(d.q, d.cur_bytes, c)
      BY <1>3, <2>1 DEF Rooms
    <2> HIDE DEF g
    <2>4. r.q = d.q /\ r.cur_bytes = d.cur_bytes /\ r.cap = c
      BY <2>3 DEF Deque
    <2>5. c \in Int /\ c >= d.cap + 1 /\ c <= MaxElems + Slack
      BY <1>1, <2>2
    <2> QED
      BY <2>1, <2>4, <2>5
  <1> QED
    BY <1>2, <1>3

\* The item pays for its place.
LEMMA Charged ==
  ASSUME NEW d, Paid(d), Len(d.q) < MaxElems, NEW v \in Items, v.cost <= MaxBytes, ~Overflows(d, v),
         NEW r \in Rooms(d), NEW w \in Seq(Items), Len(w) = Len(r.q) + 1,
         Bytes(w) = Bytes(r.q) + v.cost
  PROVE  Paid(Deque(w, r.cur_bytes + v.cost, r.cap))
  <1> DEFINE e == Deque(w, r.cur_bytes + v.cost, r.cap)
  <1>1. e.q = w /\ e.cur_bytes = r.cur_bytes + v.cost /\ e.cap = r.cap
    BY DEF Deque
  <1>2. /\ r.q = d.q /\ r.cur_bytes = d.cur_bytes /\ r.cap \in Int
        /\ Len(d.q) + 1 <= r.cap /\ r.cap <= MaxElems + Slack
    BY RoomsPaid
  <1>3. /\ d.cur_bytes = Bytes(d.q) /\ Bytes(d.q) \in Nat /\ d.cur_bytes <= MaxBytes
        /\ v.cost \in Nat /\ MaxBytes \in Nat
    BY ItemsWeighed, ItemsCosted, DequeBounds DEF Paid, WellFormed
  <1>4. r.cur_bytes + v.cost <= MaxBytes
    <2>1. CASE d.q = <<>>
      <3>1. Bytes(d.q) = 0
        BY <2>1, EmptyBytes
      <3> QED
        BY <1>2, <1>3, <3>1
    <2>2. CASE d.q # <<>>
      BY <1>2, <1>3, <2>2 DEF Overflows
    <2> QED
      BY <2>1, <2>2
  <1>5. e.cur_bytes = Bytes(e.q) /\ Len(e.q) <= e.cap
    BY <1>1, <1>2, <1>3
  <1> HIDE DEF e
  <1>6. Paid(e)
    BY <1>1, <1>2, <1>4, <1>5 DEF Paid, WellFormed
  <1> QED
    BY <1>6 DEF e

\* What an insertion adds.
LEMMA InsertedBytes ==
  ASSUME NEW s \in Seq(Items), NEW v \in Items, NEW at \in 1..Len(s) + 1
  PROVE  InsertAt(s, at, v) \in Seq(Items) /\ Bytes(InsertAt(s, at, v)) = Bytes(s) + v.cost
  <1> DEFINE r == InsertAt(s, at, v)
  <1>1. r \in Seq(Items)
    BY InsertAtProperties
  <1>2. Len(r) = Len(s) + 1
    BY InsertAtProperties
  <1>3. ASSUME NEW i \in 1..Len(s) + 1
        PROVE  r[i] = IF i < at THEN s[i] ELSE IF i = at THEN v ELSE s[i - 1]
    BY InsertAtProperties
  <1>4. Weighed(s) /\ v.cost \in Nat
    BY ItemsWeighed, ItemsCosted
  <1> HIDE DEF r
  <1>5. Bytes(r) = Bytes(s) + v.cost
    BY <1>2, <1>3, <1>4, InsertBytes
  <1> QED
    BY <1>1, <1>5 DEF r

\* push_back adds at the end.
LEMMA AppendedBytes ==
  ASSUME NEW s \in Seq(Items), NEW v \in Items
  PROVE  /\ Append(s, v) \in Seq(Items) /\ Len(Append(s, v)) = Len(s) + 1
         /\ Bytes(Append(s, v)) = Bytes(s) + v.cost
  <1> DEFINE r == Append(s, v)
             at == Len(s) + 1
  <1>1. r \in Seq(Items) /\ Len(r) = Len(s) + 1 /\ (\A i \in 1..Len(s) : r[i] = s[i]) /\ r[at] = v
    BY AppendProperties
  <1>2. Len(s) \in Nat /\ at \in 1..Len(s) + 1
    BY LenProperties
  <1>3. \A i \in 1..Len(s) + 1 : (i \in 1..Len(s) /\ i < at) \/ (i = at /\ ~(i < at))
    BY <1>2
  <1> HIDE DEF r, at
  <1>4. \A i \in 1..Len(s) + 1 : r[i] = IF i < at THEN s[i] ELSE IF i = at THEN v ELSE s[i - 1]
    BY <1>1, <1>3
  <1>5. Weighed(s) /\ v.cost \in Nat
    BY ItemsWeighed, ItemsCosted
  <1>6. Bytes(r) = Bytes(s) + v.cost
    BY <1>1, <1>2, <1>4, <1>5, InsertBytes
  <1> QED
    BY <1>1, <1>6 DEF r

\* r holds the items of q that are in keep, in their order, which `at' lists; z is
\* q with nothing charged for them.
Picks(q, keep, n, at, r) ==
  /\ \A i, j \in 1..n : i < j => at[i] < at[j]
  /\ {at[i] : i \in 1..n} = {i \in 1..Len(q) : q[i] \in keep}
  /\ Len(r) = n /\ \A i \in 1..n : r[i] = q[at[i]]
Uncharged(q, keep, z) ==
  /\ Len(z) = Len(q)
  /\ \A i \in 1..Len(q) : z[i] = IF q[i] \in keep THEN [cost |-> 0] ELSE q[i]

\* The places up to the next one, and the places after it.
LEMMA OneMore ==
  /\ \A c \in Nat : \A j \in 1..c + 1 : j \in 1..c \/ j = c + 1
  /\ \A c, n \in Nat : \A j \in (c + 1) + 1..n : j \in 1..n /\ c + 1 < j
  OBVIOUS

\* What remains of a queue when the items outside a set leave it.
LEMMA FilterBytes ==
  ASSUME NEW q, Weighed(q), NEW keep, NEW n \in Nat, NEW at \in [1..n -> 1..Len(q)],
         NEW r, Picks(q, keep, n, at, r), NEW z, Uncharged(q, keep, z)
  PROVE  Bytes(r) \in Nat /\ Bytes(z) \in Nat /\ Bytes(q) = Bytes(r) + Bytes(z)
  <1> USE DEF Picks, Uncharged
  <1>1. Len(q) \in Nat /\ \A i \in 1..Len(q) : q[i].cost \in Nat
    BY DEF Weighed
  <1>2. Weighed(r)
    BY <1>1 DEF Weighed
  <1>3. Weighed(z)
    BY <1>1 DEF Weighed
  <1>4. PICK f : Sums(q, f)
    BY SumsExist
  <1>5. PICK h : Sums(r, h)
    BY <1>2, SumsExist
  <1>6. PICK g : Sums(z, g)
    BY <1>3, SumsExist
  <1>7. Bytes(q) = f[Len(q)] /\ Bytes(r) = h[n] /\ Bytes(z) = g[Len(q)]
        /\ Bytes(r) \in Nat /\ Bytes(z) \in Nat
    BY <1>2, <1>3, <1>4, <1>5, <1>6, BytesSums
  <1> DEFINE Splits(m, c) == /\ \A i \in 1..c : at[i] <= m
                             /\ \A i \in c + 1..n : at[i] > m
                             /\ f[m] = h[c] + g[m]
             Good == {m \in Nat : m <= Len(q) => \E c \in 0..n : Splits(m, c)}
  <1>8. 0 \in Good
    <2>1. f[0] = 0 /\ h[0] = 0 /\ g[0] = 0
      BY <1>4, <1>5, <1>6 DEF Sums
    <2>2. \A i \in 1..n : at[i] > 0
      BY <1>1
    <2>3. Splits(0, 0)
      BY <2>1, <2>2
    <2> QED
      BY <2>3
  <1>9. ASSUME NEW m \in Nat, m \in Good
        PROVE  m + 1 \in Good
    <2>01. \A i, j \in 1..n : i < j => at[i] < at[j]
      OBVIOUS
    <2>02. {at[i] : i \in 1..n} = {i \in 1..Len(q) : q[i] \in keep}
      OBVIOUS
    <2>03. Len(r) = n /\ \A i \in 1..n : r[i] = q[at[i]]
      OBVIOUS
    <2>04. Len(z) = Len(q) /\ \A i \in 1..Len(q) : z[i] = IF q[i] \in keep THEN [cost |-> 0] ELSE q[i]
      OBVIOUS
    <2> HIDE DEF Splits, Picks, Uncharged
    <2>1. SUFFICES ASSUME m + 1 <= Len(q)
                   PROVE  \E c \in 0..n : Splits(m + 1, c)
      OBVIOUS
    <2> USE DEF Splits
    <2>2. PICK c \in 0..n : Splits(m, c)
      BY <1>1, <1>9, <2>1
    <2>3. m \in 0..Len(q) /\ m + 1 \in 1..Len(q) /\ (m + 1) - 1 = m
      BY <1>1, <2>1
    <2>4. /\ f[m + 1] = f[m] + q[m + 1].cost /\ g[m + 1] = g[m] + z[m + 1].cost
          /\ f[m] \in Nat /\ g[m] \in Nat /\ h[c] \in Nat /\ q[m + 1].cost \in Nat
      BY <1>1, <1>4, <1>5, <1>6, <2>3, <2>03, <2>04 DEF Sums
    <2>5. CASE q[m + 1] \in keep
      <3>1. PICK i \in 1..n : at[i] = m + 1
        BY <2>3, <2>5, <2>02
      <3>2. i = c + 1
        <4>1. i > c
          BY <2>2, <3>1
        <4>2. CASE i > c + 1
          <5>1. c + 1 \in 1..n /\ c + 1 \in c + 1..n
            BY <4>2
          <5>2. at[c + 1] < at[i] /\ at[c + 1] > m /\ at[c + 1] \in 1..Len(q)
            BY <2>2, <4>2, <5>1, <2>01
          <5> QED
            BY <1>1, <3>1, <5>2
        <4> QED
          BY <4>1, <4>2
      <3>3. c + 1 \in 0..n /\ c + 1 \in 1..n /\ (c + 1) - 1 = c /\ at[c + 1] = m + 1
        BY <3>1, <3>2
      <3>4. h[c + 1] = h[c] + q[m + 1].cost
        <4>1. h[c + 1] = h[(c + 1) - 1] + r[c + 1].cost
          BY <1>5, <3>3, <2>03 DEF Sums
        <4> QED
          BY <3>3, <4>1, <2>03
      <3>5. z[m + 1].cost = 0
        BY <2>3, <2>5, <2>04
      <3>6. f[m + 1] = h[c + 1] + g[m + 1]
        <4>1. f[m] = h[c] + g[m]
          BY <2>2
        <4>2. g[m + 1] = g[m]
          BY <2>4, <3>5
        <4> DEFINE x == h[c]
                   y == g[m]
                   u == q[m + 1].cost
        <4>3. /\ f[m + 1] = (x + y) + u /\ h[c + 1] = x + u /\ g[m + 1] = y
              /\ x \in Nat /\ y \in Nat /\ u \in Nat
          BY <2>4, <3>4, <4>1, <4>2
        <4> HIDE DEF x, y, u
        <4> QED
          BY <4>3
      <3>7. \A j \in 1..c + 1 : at[j] <= m + 1
        <4>1. \A j \in 1..c + 1 : j \in 1..c \/ j = c + 1
          BY OneMore
        <4>2. \A j \in 1..c : at[j] <= m /\ at[j] \in 1..Len(q)
          BY <2>2
        <4> QED
          <5> TAKE j \in 1..c + 1
          <5>1. CASE j \in 1..c
            BY <1>1, <4>2, <5>1
          <5>2. CASE j = c + 1
            BY <3>3, <5>2
          <5> QED
            BY <4>1, <5>1, <5>2
      <3>8. \A j \in (c + 1) + 1..n : at[j] > m + 1
        <4>1. \A j \in (c + 1) + 1..n : j \in 1..n /\ c + 1 < j
          BY OneMore
        <4> QED
          BY <3>3, <4>1, <2>01
      <3>9. Splits(m + 1, c + 1)
        BY <3>6, <3>7, <3>8
      <3> QED
        BY <3>3, <3>9
    <2>6. CASE q[m + 1] \notin keep
      <3>1. \A i \in 1..n : at[i] # m + 1
        BY <2>3, <2>6, <2>02
      <3>2. z[m + 1].cost = q[m + 1].cost
        BY <2>3, <2>6, <2>04
      <3>3. f[m + 1] = h[c] + g[m + 1]
        BY <2>2, <2>4, <3>2
      <3>4. \A i \in 1..c : at[i] <= m + 1
        <4>1. \A i \in 1..c : at[i] <= m /\ at[i] \in 1..Len(q)
          BY <2>2
        <4> QED
          BY <1>1, <4>1
      <3>5. \A i \in c + 1..n : at[i] > m + 1
        <4>1. \A i \in c + 1..n : i \in 1..n /\ at[i] > m /\ at[i] \in 1..Len(q)
          BY <2>2
        <4> QED
          BY <1>1, <3>1, <4>1
      <3>6. Splits(m + 1, c)
        BY <3>3, <3>4, <3>5
      <3> QED
        BY <3>6
    <2> QED
      BY <2>5, <2>6
  <1>10. Len(q) \in Good
    <2> HIDE DEF Good
    <2> QED
      BY <1>1, <1>8, <1>9, NatInd
  <1>11. PICK c \in 0..n : Splits(Len(q), c)
    <2> HIDE DEF Splits, Picks, Uncharged
    <2> QED
      BY <1>1, <1>10
  <1>12. c = n
    <2>1. CASE c # n
      <3>1. c + 1 \in c + 1..n /\ c + 1 \in 1..n
        BY <2>1
      <3>2. at[c + 1] > Len(q) /\ at[c + 1] \in 1..Len(q)
        BY <1>11, <3>1
      <3> QED
        BY <1>1, <3>2
    <2> QED
      BY <2>1
  <1> QED
    BY <1>7, <1>11, <1>12

\* push_back keeps the account.
LEMMA FifoPaid ==
  ASSUME LedgerInv, NEW v \in Items, PushBack(v)
  PROVE  Paid(dq')
  <1>0. /\ Paid(dq) /\ Len(dq.q) \in Nat /\ Len(dq.q) <= MaxElems /\ MaxElems \in Nat \ {0}
        /\ v.cost \in Nat /\ MaxBytes \in Nat
    BY LenProperties, DequeBounds, ItemsCosted DEF LedgerInv, QueueInv, WellFormed
  <1>1. CASE Rejected(dq, "too large")
    BY <1>0, <1>1 DEF Rejected
  <1>2. ASSUME v.cost <= MaxBytes, NEW k \in 0..Len(dq.q), EvictsFront(dq, v, k),
               NEW e, e = (IF Full(DropFront(dq, k)) THEN DropFront(DropFront(dq, k), 1)
                                                     ELSE DropFront(dq, k)),
               NEW r \in Rooms(e),
               dq' = Deque(Append(r.q, v), r.cur_bytes + v.cost, r.cap)
        PROVE  Paid(dq')
    <2> DEFINE d == DropFront(dq, k)
    <2>1. Paid(d) /\ Len(d.q) = Len(dq.q) - k /\ ~Overflows(d, v)
      BY <1>0, <1>2, DropPaid, DropFrontFacts DEF EvictsFront, Paid
    <2>2. e = IF Full(d) THEN DropFront(d, 1) ELSE d
      BY <1>2
    <2> HIDE DEF d
    <2>3. Len(d.q) \in Nat /\ d.cur_bytes \in Nat
      BY <1>0, <2>1, ItemsWeighed DEF Paid, WellFormed
    <2>4. Paid(e) /\ Len(e.q) < MaxElems /\ ~Overflows(e, v)
      <3>1. CASE Full(d)
        <4>1. 1 \in 0..Len(d.q)
          BY <1>0, <2>3, <3>1 DEF Full
        <4>2. /\ Paid(DropFront(d, 1)) /\ DropFront(d, 1).cur_bytes <= d.cur_bytes
              /\ Len(DropFront(d, 1).q) = Len(d.q) - 1
          BY <2>1, <4>1, DropPaid, DropFrontFacts DEF Paid
        <4>3. e = DropFront(d, 1)
          BY <2>2, <3>1
        <4>4. d.q # <<>>
          BY <4>1
        <4>5. e.cur_bytes \in Nat
          BY <4>2, <4>3, ItemsWeighed DEF Paid, WellFormed
        <4>6. ~Overflows(e, v)
          BY <1>0, <2>1, <2>3, <4>2, <4>3, <4>4, <4>5 DEF Overflows
        <4> QED
          BY <1>0, <2>1, <2>3, <4>2, <4>3, <4>6
      <3>2. CASE ~Full(d)
        BY <1>0, <2>1, <2>2, <2>3, <3>2 DEF Full
      <3> QED
        BY <3>1, <3>2
    <2>5. r.q = e.q /\ e.q \in Seq(Items)
      BY <2>4, RoomsPaid DEF Paid, WellFormed
    <2> DEFINE w == Append(r.q, v)
    <2>6. w \in Seq(Items) /\ Len(w) = Len(r.q) + 1 /\ Bytes(w) = Bytes(r.q) + v.cost
      BY <2>5, AppendedBytes
    <2>7. dq' = Deque(w, r.cur_bytes + v.cost, r.cap)
      BY <1>2
    <2> HIDE DEF w
    <2>8. Paid(Deque(w, r.cur_bytes + v.cost, r.cap))
      BY <1>2, <2>4, <2>6, Charged
    <2> QED
      BY <2>7, <2>8
  <1> QED
    BY <1>1, <1>2 DEF PushBack

\* The insertion of push_back_prioritized keeps the account.
LEMMA InsertPaid ==
  ASSUME NEW d, Paid(d), Len(d.q) < MaxElems, NEW v \in Items, v.cost <= MaxBytes,
         ~Overflows(d, v), Insert(d, v)
  PROVE  Paid(dq')
  <1>1. PICK r \in Rooms(d) : \E at \in 1..Len(r.q) + 1 :
          dq' = Deque(InsertAt(r.q, at, v), r.cur_bytes + v.cost, r.cap)
    BY DEF Insert
  <1>2. PICK at \in 1..Len(r.q) + 1 : dq' = Deque(InsertAt(r.q, at, v), r.cur_bytes + v.cost, r.cap)
    BY <1>1
  <1>3. r.q \in Seq(Items)
    BY RoomsPaid DEF Paid, WellFormed
  <1> DEFINE w == InsertAt(r.q, at, v)
  <1>4. w \in Seq(Items) /\ Bytes(w) = Bytes(r.q) + v.cost
    BY <1>3, InsertedBytes
  <1>5. Len(w) = Len(r.q) + 1
    BY <1>3, InsertAtProperties
  <1>6. dq' = Deque(w, r.cur_bytes + v.cost, r.cap)
    BY <1>2
  <1> HIDE DEF w
  <1>7. Paid(Deque(w, r.cur_bytes + v.cost, r.cap))
    BY <1>4, <1>5, Charged
  <1> QED
    BY <1>6, <1>7

\* push_back_prioritized keeps the account, also when it rejects.
LEMMA PrioritizedPaid ==
  ASSUME LedgerInv, NEW v \in Items, PushBackPrioritized(v)
  PROVE  Paid(dq')
  <1>0. /\ Paid(dq) /\ Len(dq.q) \in Nat /\ Len(dq.q) <= MaxElems /\ MaxElems \in Nat \ {0}
        /\ v.cost \in Nat /\ MaxBytes \in Nat
    BY LenProperties, DequeBounds, ItemsCosted DEF LedgerInv, QueueInv, WellFormed
  <1>1. CASE Rejected(dq, "too large")
    BY <1>0, <1>1 DEF Rejected
  <1>2. ASSUME v.cost <= MaxBytes, NEW k \in 0..Len(dq.q), NEW e, e = DropBack(dq, k),
               \/ Rejected(e, "saturated")
               \/ ~Overflows(e, v) /\ ~Full(e) /\ Insert(e, v)
               \/ ~Overflows(e, v) /\ Full(e) /\ Insert(DropBack(e, 1), v)
        PROVE  Paid(dq')
    <2>1. Paid(e) /\ Len(e.q) = Len(dq.q) - k
      BY <1>0, <1>2, DropPaid, DropBackFacts DEF Paid
    <2>2. Len(e.q) \in Nat /\ e.cur_bytes \in Nat /\ Len(e.q) <= MaxElems
      BY <1>0, <2>1, ItemsWeighed DEF Paid, WellFormed
    <2>3. CASE Rejected(e, "saturated")
      BY <2>1, <2>3 DEF Rejected
    <2>4. CASE ~Overflows(e, v) /\ ~Full(e) /\ Insert(e, v)
      <3>1. Len(e.q) < MaxElems
        BY <1>0, <2>2, <2>4 DEF Full
      <3> QED
        BY <1>2, <2>1, <2>4, <3>1, InsertPaid
    <2>5. CASE ~Overflows(e, v) /\ Full(e) /\ Insert(DropBack(e, 1), v)
      <3> DEFINE d == DropBack(e, 1)
      <3>1. 1 \in 0..Len(e.q) /\ e.q # <<>>
        BY <1>0, <2>2, <2>5 DEF Full
      <3>2. Paid(d) /\ d.cur_bytes <= e.cur_bytes /\ Len(d.q) = Len(e.q) - 1 /\ Insert(d, v)
        BY <2>1, <2>5, <3>1, DropPaid, DropBackFacts DEF Paid
      <3> HIDE DEF d
      <3>3. d.cur_bytes \in Nat /\ Len(d.q) < MaxElems
        BY <1>0, <2>2, <3>2, ItemsWeighed DEF Paid, WellFormed
      <3>4. ~Overflows(d, v)
        BY <1>0, <2>2, <2>5, <3>1, <3>2, <3>3 DEF Overflows
      <3> QED
        BY <1>2, <3>2, <3>3, <3>4, InsertPaid
    <2> QED
      BY <1>2, <2>3, <2>4, <2>5
  <1> QED
    BY <1>1, <1>2 DEF PushBackPrioritized

\* remove_pos gives back what the item cost.
LEMMA RemovePaid ==
  ASSUME LedgerInv, NEW k \in 1..Len(dq.q), RemovePos(k)
  PROVE  Paid(dq')
  <1> DEFINE s == dq.q
             r == RemoveAt(s, k)
             a == k - 1
  <1>1. /\ s \in Seq(Items) /\ dq.cap \in Int /\ dq.cur_bytes = Bytes(s) /\ Bytes(s) \in Nat
        /\ Bytes(s) <= MaxBytes /\ Len(s) <= dq.cap /\ dq.cap <= MaxElems + Slack
        /\ Weighed(s) /\ Len(s) \in Nat /\ MaxBytes \in Nat
    BY ItemsWeighed, LenProperties, DequeBounds DEF LedgerInv, Paid, WellFormed
  <1>2. dq.q' = r /\ dq.cap' = dq.cap /\ dq.cur_bytes' = Monus(dq.cur_bytes, s[k].cost)
    BY DEF RemovePos, Deque
  <1> HIDE DEF s
  <1>3. k \in 1..Len(s)
    BY DEF s
  <1>4. r \in Seq(Items)
    BY <1>1, <1>3, RemoveAtProperties
  <1>5. Len(r) = Len(s) - 1
    BY <1>1, <1>3, RemoveAtProperties
  <1>6. \A i \in 1..Len(s) - 1 : r[i] = IF i < k THEN s[i] ELSE s[i + 1]
    BY <1>1, <1>3, RemoveAtProperties
  <1> HIDE DEF r
  <1>7. a \in Nat /\ a + 1 <= Len(s) /\ k = a + 1 /\ k - 1 = a
        /\ \A i \in 1..Len(s) - 1 : i < k <=> i <= a
    BY <1>1, <1>3
  <1> HIDE DEF a
  <1>8. Cut(s, a, 1, r)
    BY <1>5, <1>6, <1>7 DEF Cut
  <1>9. PICK f : Sums(s, f)
    BY <1>1, SumsExist
  <1>10. Bytes(r) = Bytes(s) - (f[a + 1] - f[a])
    BY <1>1, <1>7, <1>8, <1>9, CutBytes
  <1>11. f[a + 1] = f[a] + s[k].cost /\ f[a] \in Nat
    <2>1. a \in 0..Len(s)
      BY <1>1, <1>7
    <2> QED
      BY <1>3, <1>7, <1>9, <2>1 DEF Sums
  <1>12. s[k].cost \in Nat /\ Bytes(r) \in Nat
    BY <1>1, <1>3, <1>4, ItemsWeighed DEF Weighed
  <1>13. Bytes(r) = Bytes(s) - s[k].cost
    BY <1>1, <1>10, <1>11, <1>12
  <1>14. dq.cur_bytes' = Bytes(r) /\ Bytes(r) <= MaxBytes
    BY <1>1, <1>2, <1>12, <1>13 DEF Monus
  <1>15. Len(r) <= dq.cap
    BY <1>1, <1>5
  <1> QED
    BY <1>1, <1>2, <1>4, <1>14, <1>15 DEF Paid, WellFormed

\* retain gives back what the items it drops cost.
LEMMA RetainPaid ==
  ASSUME LedgerInv, NEW keep, Retain(keep)
  PROVE  Paid(dq')
  <1> DEFINE s == dq.q
             z == [i \in 1..Len(s) |-> IF s[i] \in keep THEN [cost |-> 0] ELSE s[i]]
  <1>0. /\ s \in Seq(Items) /\ dq.cap \in Int /\ dq.cur_bytes = Bytes(s) /\ Bytes(s) \in Nat
        /\ Bytes(s) <= MaxBytes /\ Len(s) <= dq.cap /\ dq.cap <= MaxElems + Slack
        /\ Weighed(s) /\ Len(s) \in Nat /\ MaxBytes \in Nat
    BY ItemsWeighed, LenProperties, DequeBounds DEF LedgerInv, Paid, WellFormed
  <1>1. PICK n \in 0..Len(s) : \E at \in [1..n -> 1..Len(s)] :
          /\ \A i, j \in 1..n : i < j => at[i] < at[j]
          /\ {at[i] : i \in 1..n} = {i \in 1..Len(s) : s[i] \in keep}
          /\ dq' = Deque([i \in 1..n |-> s[at[i]]], Monus(dq.cur_bytes, Removed(keep)), dq.cap)
    BY Zenon DEF Retain
  <1>2. PICK at \in [1..n -> 1..Len(s)] :
          /\ \A i, j \in 1..n : i < j => at[i] < at[j]
          /\ {at[i] : i \in 1..n} = {i \in 1..Len(s) : s[i] \in keep}
          /\ dq' = Deque([i \in 1..n |-> s[at[i]]], Monus(dq.cur_bytes, Removed(keep)), dq.cap)
    BY <1>1, Zenon
  <1> DEFINE r == [i \in 1..n |-> s[at[i]]]
  <1>3. dq.q' = r /\ dq.cap' = dq.cap /\ dq.cur_bytes' = Monus(dq.cur_bytes, Bytes(z))
    BY <1>2 DEF Deque, Removed
  <1> HIDE DEF s
  <1>4. r \in Seq(Items) /\ Len(r) = n /\ (\A i \in 1..n : r[i] = s[at[i]]) /\ n \in Nat
    <2>1. \A i \in 1..Len(s) : s[i] \in Items
      BY <1>0, ElementOfSeq
    <2>2. r \in [1..n -> Items] /\ n \in Nat
      BY <1>0, <2>1
    <2> QED
      BY <2>2
  <1>5. /\ Len(z) = Len(s)
        /\ \A i \in 1..Len(s) : z[i] = IF s[i] \in keep THEN [cost |-> 0] ELSE s[i]
    BY <1>0
  <1> HIDE DEF r, z
  <1>6. Bytes(r) \in Nat /\ Bytes(z) \in Nat /\ Bytes(s) = Bytes(r) + Bytes(z)
    <2>1. Picks(s, keep, n, at, r)
      BY <1>2, <1>4 DEF Picks
    <2>2. Uncharged(s, keep, z)
      BY <1>5 DEF Uncharged
    <2> QED
      BY <1>0, <1>4, <2>1, <2>2, FilterBytes
  <1>7. dq.cur_bytes' = Bytes(r) /\ Bytes(r) <= MaxBytes
    BY <1>0, <1>3, <1>6 DEF Monus
  <1>8. Len(r) <= dq.cap
    BY <1>0, <1>4
  <1> QED
    BY <1>0, <1>3, <1>4, <1>7, <1>8 DEF Paid, WellFormed

\* Every call keeps the account.
LEMMA LedgerStep == LedgerInv /\ [Next]_vars => LedgerInv'
  <1> SUFFICES ASSUME LedgerInv, [Next]_vars PROVE LedgerInv'
    OBVIOUS
  <1>0. Paid(dq) /\ QueueInv' /\ dq.q \in Seq(Items)
    BY QueueStep DEF LedgerInv, Paid, WellFormed
  <1>1. CASE PopFront \/ PopBack
    <2>1. 1 \in 0..Len(dq.q)
      BY <1>0, <1>1, EmptySeq, LenProperties DEF PopFront, PopBack
    <2>2. dq' = DropFront(dq, 1) \/ dq' = DropBack(dq, 1)
      BY <1>1 DEF PopFront, PopBack
    <2> QED
      BY <1>0, <2>1, <2>2, DropPaid DEF LedgerInv
  <1>2. CASE Clear
    <2>1. dq.q' = <<>> /\ dq.cap' = dq.cap /\ dq.cur_bytes' = 0
      BY <1>2 DEF Clear, Deque
    <2>2. /\ Bytes(<<>>) = 0 /\ MaxBytes \in Nat /\ <<>> \in Seq(Items) /\ Len(<<>>) = 0
          /\ Len(dq.q) \in Nat /\ dq.cap \in Int /\ Len(dq.q) <= dq.cap
      BY <1>0, EmptyBytes, DequeBounds, EmptySeq, LenProperties DEF Paid, WellFormed
    <2>3. Paid(dq')
      BY <1>0, <2>1, <2>2 DEF Paid, WellFormed
    <2> QED
      BY <1>0, <2>3 DEF LedgerInv
  <1>3. CASE \E v \in Items : PushBack(v) \/ PushBackPrioritized(v)
    BY <1>0, <1>3, FifoPaid, PrioritizedPaid DEF LedgerInv
  <1>4. CASE \E i \in 1..Len(dq.q) : RemovePos(i)
    BY <1>0, <1>4, RemovePaid DEF LedgerInv
  <1>5. CASE \E v \in Items : RemoveValue(v)
    BY <1>0, <1>5, RemovePaid DEF LedgerInv, RemoveValue
  <1>6. CASE \E keep \in SUBSET Range(dq.q) : Retain(keep)
    BY <1>0, <1>6, RetainPaid DEF LedgerInv
  <1>7. CASE UNCHANGED vars
    BY <1>0, <1>7 DEF LedgerInv, Paid, WellFormed, vars
  <1> QED
    BY <1>1, <1>2, <1>3, <1>4, <1>5, <1>6, <1>7 DEF Next, Call

\* A new queue costs nothing.
LEMMA LedgerInit == Init => LedgerInv
  <1> SUFFICES ASSUME Init PROVE LedgerInv
    OBVIOUS
  <1>1. PICK c \in StartCap..StartCap + Slack : dq = Deque(<<>>, 0, c)
    BY DEF Init
  <1>2. dq.q = <<>> /\ dq.cur_bytes = 0 /\ dq.cap = c
    BY <1>1 DEF Deque
  <1>3. c \in Int /\ 0 <= c /\ c <= MaxElems + Slack /\ MaxBytes \in Nat
    BY DequeBounds
  <1>4. Bytes(<<>>) = 0 /\ <<>> \in Seq(Items) /\ Len(<<>>) = 0
    BY EmptyBytes, EmptySeq
  <1>5. Paid(dq)
    BY <1>2, <1>3, <1>4 DEF Paid, WellFormed
  <1> QED
    BY <1>5, QueueInit DEF LedgerInv

\* Whatever calls are made, cur_bytes is exactly what the queue holds, and the byte
\* budget, the element cap and the ring are never exceeded: no path of push, pop,
\* remove, retain or clear charges or refunds a byte too many.
THEOREM AccountExact == Spec => []Accounted
  <1>1. LedgerInv => Accounted
    BY DEF LedgerInv, QueueInv, Paid, WellFormed, Accounted
  <1> QED
    BY <1>1, LedgerInit, LedgerStep, PTL DEF Spec

-----------------------------------------------------------------------------
(***************************************************************************)
(* What a push evicts and what it yields to.                               *)
(***************************************************************************)

\* The result of an insertion is one item longer.
LEMMA InsertLength ==
  ASSUME NEW d, Paid(d), Len(d.q) < MaxElems, NEW v \in Items, Insert(d, v)
  PROVE  Len(dq.q') = Len(d.q) + 1
  <1>1. PICK r \in Rooms(d) : \E at \in 1..Len(r.q) + 1 :
          dq' = Deque(InsertAt(r.q, at, v), r.cur_bytes + v.cost, r.cap)
    BY DEF Insert
  <1>2. PICK at \in 1..Len(r.q) + 1 : dq' = Deque(InsertAt(r.q, at, v), r.cur_bytes + v.cost, r.cap)
    BY <1>1
  <1>3. r.q = d.q /\ r.q \in Seq(Items)
    BY RoomsPaid DEF Paid, WellFormed
  <1>4. dq.q' = InsertAt(r.q, at, v)
    BY <1>2 DEF Deque
  <1> QED
    BY <1>3, <1>4, InsertAtProperties

\* push_back: the item before the first survivor could not have stayed.
LEMMA FifoMinimum ==
  ASSUME LedgerInv, NEW v \in Items, PushBack(v), result' = "ok", Kept < Len(dq.q)
  PROVE  LET w == SubSeq(dq.q, Len(dq.q) - Kept, Len(dq.q))
         IN  Bytes(w) + v.cost > MaxBytes \/ Len(w) + 1 > MaxElems
  <1> DEFINE n == Len(dq.q)
             w == SubSeq(dq.q, n - Kept, n)
  <1>0. /\ Paid(dq) /\ n \in Nat /\ n <= MaxElems /\ MaxElems \in Nat \ {0}
        /\ v.cost \in Nat /\ MaxBytes \in Nat
    BY LenProperties, DequeBounds, ItemsCosted DEF LedgerInv, QueueInv, WellFormed
  <1>1. PICK k \in 0..n :
          /\ EvictsFront(dq, v, k)
          /\ \E r \in Rooms(IF Full(DropFront(dq, k)) THEN DropFront(DropFront(dq, k), 1)
                                                      ELSE DropFront(dq, k)) :
               dq' = Deque(Append(r.q, v), r.cur_bytes + v.cost, r.cap)
    BY DEF PushBack, Rejected
  <1> DEFINE d == DropFront(dq, k)
             e == IF Full(d) THEN DropFront(d, 1) ELSE d
  <1>2. PICK r \in Rooms(e) : dq' = Deque(Append(r.q, v), r.cur_bytes + v.cost, r.cap)
    BY <1>1
  <1>3. Paid(d) /\ Len(d.q) = n - k /\ d.q = SubSeq(dq.q, k + 1, n)
    BY <1>0, DropPaid, DropFrontFacts DEF Paid, DropFront, Deque
  <1>4. Full(d) => 1 \in 0..Len(d.q)
    BY <1>0, <1>3 DEF Full
  <1>5. Full(d) => Paid(DropFront(d, 1)) /\ Len(DropFront(d, 1).q) = Len(d.q) - 1
    BY <1>3, <1>4, DropPaid, DropFrontFacts DEF Paid
  <1>6. Paid(e) /\ Len(e.q) = (IF Full(d) THEN n - k - 1 ELSE n - k) /\ Len(e.q) < MaxElems
    BY <1>0, <1>3, <1>5 DEF Full
  <1> HIDE DEF e
  <1>7. r.q = e.q /\ r.q \in Seq(Items)
    BY <1>6, RoomsPaid DEF Paid, WellFormed
  <1>8. dq.q' = Append(r.q, v)
    BY <1>2 DEF Deque
  <1>9. Len(dq.q') = Len(e.q) + 1
    BY <1>7, <1>8, AppendedBytes
  <1>10. Kept = Len(e.q)
    BY <1>0, <1>6, <1>9 DEF Kept
  <1>11. CASE Full(d)
    <2>0. Kept = n - k - 1
      BY <1>6, <1>10, <1>11
    <2>1. n - Kept = k + 1
      <3> HIDE DEF n
      <3> QED
        BY <1>0, <2>0
    <2>2. w = d.q
      BY <1>3, <2>1
    <2> HIDE DEF w, d
    <2>3. Len(w) \in Nat /\ Len(w) >= MaxElems
      BY <1>3, <1>11, <2>2, LenProperties DEF Full, Paid, WellFormed
    <2>4. Len(w) + 1 > MaxElems
      BY <1>0, <2>3
    <2> QED
      BY <2>4 DEF w
  <1>12. CASE ~Full(d)
    <2>1. n - Kept = k /\ k > 0
      BY <1>0, <1>6, <1>10, <1>12
    <2> DEFINE j == k - 1
    <2>2. j \in 0..k - 1 /\ j \in 0..n /\ j + 1 = k
      BY <1>0, <2>1
    <2> HIDE DEF j
    <2>3. Overflows(DropFront(dq, j), v)
      BY <1>1, <2>2 DEF EvictsFront
    <2>4. Paid(DropFront(dq, j)) /\ DropFront(dq, j).q = w
      BY <1>0, <2>1, <2>2, DropPaid DEF DropFront, Deque
    <2>5. Bytes(w) + v.cost > MaxBytes
      BY <2>3, <2>4 DEF Overflows, Paid
    <2> QED
      BY <2>5
  <1> QED
    BY <1>11, <1>12

\* push_back_prioritized: the item after the last survivor could not have stayed.
LEMMA PrioritizedMinimum ==
  ASSUME LedgerInv, NEW v \in Items, PushBackPrioritized(v), result' = "ok", Kept < Len(dq.q)
  PROVE  LET w == SubSeq(dq.q, 1, Kept + 1)
         IN  Bytes(w) + v.cost > MaxBytes \/ Len(w) + 1 > MaxElems
  <1> DEFINE n == Len(dq.q)
             w == SubSeq(dq.q, 1, Kept + 1)
  <1>0. /\ Paid(dq) /\ n \in Nat /\ n <= MaxElems /\ MaxElems \in Nat \ {0}
        /\ v.cost \in Nat /\ MaxBytes \in Nat
    BY LenProperties, DequeBounds, ItemsCosted DEF LedgerInv, QueueInv, WellFormed
  <1>1. PICK k \in 0..n :
          /\ EvictsBack(dq, v, k)
          /\ \/ ~Full(DropBack(dq, k)) /\ Insert(DropBack(dq, k), v)
             \/ Full(DropBack(dq, k)) /\ Insert(DropBack(DropBack(dq, k), 1), v)
    BY DEF PushBackPrioritized, Rejected
  <1> DEFINE d == DropBack(dq, k)
             e == DropBack(d, 1)
  <1>2. Paid(d) /\ Len(d.q) = n - k /\ d.q = SubSeq(dq.q, 1, n - k)
    BY <1>0, DropPaid, DropBackFacts DEF Paid, DropBack, Deque
  <1>3. CASE Full(d) /\ Insert(e, v)
    <2>1. 1 \in 0..Len(d.q)
      BY <1>0, <1>2, <1>3 DEF Full
    <2>2. Paid(e) /\ Len(e.q) = Len(d.q) - 1
      BY <1>2, <2>1, DropPaid, DropBackFacts DEF Paid
    <2> HIDE DEF e, d
    <2>3. Len(e.q) < MaxElems
      BY <1>0, <1>2, <2>2
    <2>4. Len(dq.q') = Len(e.q) + 1
      BY <1>3, <2>2, <2>3, InsertLength
    <2>5. Kept + 1 = n - k
      BY <1>0, <1>2, <2>2, <2>4 DEF Kept
    <2>6. w = d.q
      BY <1>2, <2>5
    <2> HIDE DEF w
    <2>7. Len(w) \in Nat /\ Len(w) >= MaxElems
      BY <1>2, <1>3, <2>6, LenProperties DEF Full, Paid, WellFormed
    <2>8. Len(w) + 1 > MaxElems
      BY <1>0, <2>7
    <2> QED
      BY <2>8 DEF w
  <1>4. CASE ~Full(d) /\ Insert(d, v)
    <2> HIDE DEF d
    <2>1. Len(d.q) < MaxElems
      BY <1>0, <1>2, <1>4 DEF Full
    <2>2. Len(dq.q') = Len(d.q) + 1
      BY <1>2, <1>4, <2>1, InsertLength
    <2>3. Kept = n - k /\ k > 0
      BY <1>0, <1>2, <2>2 DEF Kept
    <2> DEFINE j == k - 1
    <2>4. j \in 0..k - 1 /\ j \in 0..n /\ Kept + 1 = n - j
      BY <1>0, <2>3
    <2> HIDE DEF j
    <2>5. Overflows(DropBack(dq, j), v)
      BY <1>1, <2>4 DEF EvictsBack
    <2>6. Paid(DropBack(dq, j)) /\ DropBack(dq, j).q = w
      BY <1>0, <2>4, DropPaid DEF DropBack, Deque
    <2>7. Bytes(w) + v.cost > MaxBytes
      BY <2>5, <2>6 DEF Overflows, Paid
    <2> QED
      BY <2>7
  <1> QED
    BY <1>1, <1>3, <1>4

\* Neither push evicts one item more than it needs.
THEOREM FewestEvicted == Spec => EvictsMinimum
  <1> DEFINE Minimum ==
        \A v \in Items : /\ PushBack(v) \/ PushBackPrioritized(v)
                         /\ result' = "ok" /\ Kept < Len(dq.q)
          => LET one_more == IF prioritized THEN SubSeq(dq.q, 1, Kept + 1)
                                            ELSE SubSeq(dq.q, Len(dq.q) - Kept, Len(dq.q))
             IN  Bytes(one_more) + v.cost > MaxBytes \/ Len(one_more) + 1 > MaxElems
  <1>1. ASSUME LedgerInv, NEW v \in Items, PushBack(v) \/ PushBackPrioritized(v),
               result' = "ok", Kept < Len(dq.q)
        PROVE  LET one_more == IF prioritized THEN SubSeq(dq.q, 1, Kept + 1)
                                              ELSE SubSeq(dq.q, Len(dq.q) - Kept, Len(dq.q))
               IN  Bytes(one_more) + v.cost > MaxBytes \/ Len(one_more) + 1 > MaxElems
    <2>1. CASE PushBack(v)
      <3>1. ~prioritized
        BY <2>1 DEF PushBack
      <3> QED
        BY <1>1, <2>1, <3>1, FifoMinimum
    <2>2. CASE PushBackPrioritized(v)
      <3>1. prioritized
        BY <2>2 DEF PushBackPrioritized
      <3> QED
        BY <1>1, <2>2, <3>1, PrioritizedMinimum
    <2> QED
      BY <1>1, <2>1, <2>2
  <1>2. LedgerInv /\ [Next]_vars => [Minimum]_vars
    BY <1>1
  <1> QED
    BY <1>2, LedgerInit, LedgerStep, PTL DEF Spec, EvictsMinimum

\* push_back_prioritized answers "saturated" only when the items it must not evict,
\* those of higher priority, leave no room.
THEOREM YieldsToHigherOnly == Spec => RejectsOnlyWhenOutranked
  <1> DEFINE Outranked ==
        \A v \in Items : PushBackPrioritized(v) /\ result' = "saturated" =>
          \E n \in Outranking(v) :
            Bytes(SubSeq(dq.q, 1, n)) + v.cost > MaxBytes \/ n >= MaxElems
  <1>1. ASSUME LedgerInv, NEW v \in Items, PushBackPrioritized(v), result' = "saturated"
        PROVE  \E n \in Outranking(v) :
                 Bytes(SubSeq(dq.q, 1, n)) + v.cost > MaxBytes \/ n >= MaxElems
    <2>0. /\ Paid(dq) /\ WellFormed(dq) /\ Sorted(dq.q) /\ Len(dq.q) \in Nat
          /\ MaxElems \in Nat \ {0} /\ v.prio \in Nat
          /\ \A i \in 1..Len(dq.q) : dq.q[i].prio \in Nat
      BY <1>1, LenProperties, ElementOfSeq, ItemsCosted, DequeBounds
         DEF LedgerInv, QueueInv, WellFormed, PushBackPrioritized
    <2>1. PICK k \in 0..Len(dq.q) :
            /\ EvictsBack(dq, v, k)
            /\ \/ Overflows(DropBack(dq, k), v)
               \/ Full(DropBack(dq, k)) /\ Yields(DropBack(dq, k), v)
      BY <1>1 DEF PushBackPrioritized, Rejected, Insert
    <2> DEFINE e == DropBack(dq, k)
               m == Len(dq.q) - k
    <2>2. Yields(e, v)
      BY <2>1 DEF EvictsBack
    <2>3. /\ Paid(e) /\ Len(e.q) = m /\ e.q = SubSeq(dq.q, 1, m) /\ m \in 0..Len(dq.q)
          /\ \A i \in 1..m : e.q[i] = dq.q[i]
      <3>1. Paid(e)
        BY <2>0, DropPaid
      <3>2. Len(e.q) = m /\ \A i \in 1..m : e.q[i] = dq.q[i]
        BY <2>0, DropBackFacts
      <3>3. e.q = SubSeq(dq.q, 1, m)
        BY DEF DropBack, Deque
      <3>4. m \in 0..Len(dq.q)
        BY <2>0
      <3> QED
        BY <3>1, <3>2, <3>3, <3>4
    <2>11. Overflows(e, v) \/ Full(e)
      BY <2>1
    <2> HIDE DEF m, e
    <2>4. e.q # <<>>
      <3>1. CASE Overflows(e, v)
        BY <3>1 DEF Overflows
      <3>2. CASE Full(e)
        <4>1. Len(e.q) # 0
          BY <2>0, <2>3, <3>2 DEF Full
        <4> QED
          BY <4>1, EmptySeq
      <3> QED
        BY <2>11, <3>1, <3>2
    <2>5. m > 0
      BY <2>0, <2>3, <2>4, EmptySeq DEF Paid, WellFormed
    <2>6. dq.q[m].prio > v.prio
      BY <2>2, <2>3, <2>5 DEF Yields, Last
    <2>7. ASSUME NEW i \in 1..m
          PROVE  dq.q[i].prio > v.prio
      <3>1. i \in 1..Len(dq.q) /\ m \in 1..Len(dq.q)
        BY <2>0, <2>3, <2>5
      <3>2. ASSUME i # m
            PROVE  dq.q[i].prio >= dq.q[m].prio
        <4>1. i < m
          BY <2>3, <3>2
        <4> QED
          BY <2>0, <3>1, <4>1 DEF Sorted
      <3> QED
        BY <2>0, <2>6, <3>1, <3>2
    <2>8. m \in Outranking(v)
      BY <2>3, <2>7 DEF Outranking
    <2>9. Bytes(SubSeq(dq.q, 1, m)) + v.cost > MaxBytes \/ m >= MaxElems
      BY <2>3, <2>11 DEF Overflows, Full, Paid
    <2> QED
      BY <2>8, <2>9
  <1>2. LedgerInv /\ [Next]_vars => [Outranked]_vars
    BY <1>1
  <1> QED
    BY <1>2, LedgerInit, LedgerStep, PTL DEF Spec, RejectsOnlyWhenOutranked

-----------------------------------------------------------------------------
(***************************************************************************)
(* The place of an accepted item.                                          *)
(***************************************************************************)

\* Insertion into what is left of the queue, all of it from the front.
LEMMA InsertJoins ==
  ASSUME QueueInv, NEW d, WellFormed(d), Len(d.q) < MaxElems, Sorted(d.q),
         Len(d.q) <= Len(dq.q), \A i \in 1..Len(d.q) : d.q[i] = dq.q[i],
         NEW v \in Items, Insert(d, v)
  PROVE  \E k \in 1..Len(dq.q') : Joins(dq.q, dq.q', v, k)
  <1>0. PICK r \in Rooms(d) : \E at \in 1..Len(r.q) + 1 :
          /\ BeforeLower(r.q, v, at)
          /\ dq' = Deque(InsertAt(r.q, at, v), r.cur_bytes + v.cost, r.cap)
    BY DEF Insert
  <1>1. PICK at \in 1..Len(r.q) + 1 :
          /\ BeforeLower(r.q, v, at)
          /\ dq' = Deque(InsertAt(r.q, at, v), r.cur_bytes + v.cost, r.cap)
    BY <1>0
  <1>2. r.q = d.q /\ d.q \in Seq(Items)
    BY RoomsKeepsItems DEF WellFormed
  <1> DEFINE s == d.q
             new == dq.q'
             n == Len(s)
  <1>3. at \in 1..n + 1 /\ BeforeLower(s, v, at) /\ new = InsertAt(s, at, v)
    BY <1>1, <1>2 DEF Deque
  <1>4. /\ Len(new) = n + 1
        /\ \A i \in 1..n + 1 : new[i] = IF i < at THEN s[i] ELSE IF i = at THEN v ELSE s[i - 1]
    <2>1. s \in Seq(Items) /\ at \in 1..Len(s) + 1
      BY <1>2, <1>3
    <2> HIDE DEF s, new
    <2>2. /\ Len(InsertAt(s, at, v)) = Len(s) + 1
          /\ \A i \in 1..Len(s) + 1 :
               InsertAt(s, at, v)[i] =
                 IF i < at THEN s[i] ELSE IF i = at THEN v ELSE s[i - 1]
      BY <2>1, ItemsAfterInsert
    <2> QED
      BY <1>3, <2>2
  <1>5. /\ n \in Nat /\ Len(dq.q) \in Nat /\ n <= Len(dq.q) /\ Sorted(s) /\ v.prio \in Nat
        /\ \A i \in 1..n : s[i] = dq.q[i] /\ s[i].prio \in Nat
    BY <1>2, LenProperties, ElementOfSeq, ItemsCosted DEF QueueInv, WellFormed
  <1> HIDE DEF s, new, n
  <1>6. ASSUME NEW i \in 1..at - 1
        PROVE  new[i] = dq.q[i] /\ dq.q[i].prio >= v.prio
    <2>1. i \in 1..n /\ i < at /\ i \in 1..n + 1
      BY <1>3, <1>5
    <2> QED
      BY <1>3, <1>4, <1>5, <2>1 DEF BeforeLower
  <1>7. ASSUME NEW i \in at + 1..Len(new)
        PROVE  new[i] = dq.q[i - 1] /\ dq.q[i - 1].prio < v.prio
    <2>1. i \in 1..n + 1 /\ ~(i < at) /\ i # at /\ i - 1 \in 1..n /\ at <= i - 1 /\ at \in 1..n
      BY <1>3, <1>4, <1>5
    <2>2. new[i] = s[i - 1] /\ s[at].prio < v.prio
      <3>1. new[i] = s[i - 1]
        BY <1>4, <2>1
      <3>2. s[at].prio < v.prio
        BY <1>3, <2>1 DEF BeforeLower, n
      <3> QED
        BY <3>1, <3>2
    <2>3. s[i - 1].prio <= s[at].prio
      <3>1. CASE at = i - 1
        BY <1>5, <2>1, <3>1
      <3>2. CASE at < i - 1
        BY <1>5, <2>1, <3>2 DEF Sorted, n
      <3> QED
        BY <1>3, <2>1, <3>1, <3>2
    <2>4. dq.q[i - 1] = s[i - 1] /\ s[i - 1].prio \in Nat /\ s[at].prio \in Nat
      BY <1>5, <2>1
    <2> QED
      BY <1>5, <2>2, <2>3, <2>4
  <1>8. new[at] = v /\ Len(new) <= Len(dq.q) + 1 /\ at \in 1..Len(new)
    BY <1>3, <1>4, <1>5
  <1>9. Joins(dq.q, new, v, at)
    BY <1>6, <1>7, <1>8 DEF Joins
  <1> QED
    BY <1>8, <1>9 DEF new

LEMMA AcceptedJoins ==
  ASSUME QueueInv, NEW v \in Items, PushBackPrioritized(v), result' = "ok"
  PROVE  \E k \in 1..Len(dq.q') : Joins(dq.q, dq.q', v, k)
  <1>0. /\ WellFormed(dq) /\ Sorted(dq.q) /\ Len(dq.q) \in Nat /\ Len(dq.q) <= MaxElems
        /\ MaxElems \in Nat \ {0}
    BY LenProperties, DequeBounds DEF QueueInv, WellFormed, PushBackPrioritized
  <1>1. PICK k \in 0..Len(dq.q) :
          \/ ~Full(DropBack(dq, k)) /\ Insert(DropBack(dq, k), v)
          \/ Full(DropBack(dq, k)) /\ Insert(DropBack(DropBack(dq, k), 1), v)
    BY DEF PushBackPrioritized, Rejected
  <1> DEFINE d == DropBack(dq, k)
             e == DropBack(d, 1)
  <1>2. /\ WellFormed(d) /\ Len(d.q) = Len(dq.q) - k /\ Sorted(d.q)
        /\ \A i \in 1..Len(dq.q) - k : d.q[i] = dq.q[i]
    BY <1>0, DropBackFacts, DropSorted
  <1>3. CASE ~Full(d) /\ Insert(d, v)
    <2> HIDE DEF d
    <2>1. Len(d.q) < MaxElems /\ Len(d.q) <= Len(dq.q) /\ \A i \in 1..Len(d.q) : d.q[i] = dq.q[i]
      BY <1>0, <1>2, <1>3 DEF Full
    <2> QED
      BY <1>2, <1>3, <2>1, InsertJoins
  <1>4. CASE Full(d) /\ Insert(e, v)
    <2>1. 1 \in 0..Len(d.q)
      BY <1>0, <1>2, <1>4 DEF Full
    <2> HIDE DEF d
    <2>2. /\ WellFormed(e) /\ Len(e.q) = Len(d.q) - 1 /\ Sorted(e.q)
          /\ \A i \in 1..Len(d.q) - 1 : e.q[i] = d.q[i]
      BY <1>2, <2>1, DropBackFacts, DropSorted
    <2> HIDE DEF e
    <2>3. Len(e.q) < MaxElems /\ Len(e.q) <= Len(dq.q) /\ Len(e.q) = Len(dq.q) - k - 1
      BY <1>0, <1>2, <2>2
    <2>4. ASSUME NEW i \in 1..Len(e.q)
          PROVE  e.q[i] = dq.q[i]
      <3>1. i \in 1..Len(d.q) - 1 /\ i \in 1..Len(dq.q) - k
        BY <1>0, <1>2, <2>3
      <3> QED
        BY <1>2, <2>2, <3>1
    <2> QED
      BY <1>4, <2>2, <2>3, <2>4, InsertJoins
  <1> QED
    BY <1>1, <1>3, <1>4

\* push_back_prioritized never lets an item overtake one of its own priority, for
\* any budget and cap: items of one priority leave in the order they were pushed.
THEOREM EqualsInOrder == Spec => FifoWithinPriority
  <1>1. QueueInv /\ [Next]_vars =>
          [\A v \in Items : PushBackPrioritized(v) /\ result' = "ok" =>
             \E k \in 1..Len(dq.q') : Joins(dq.q, dq.q', v, k)]_vars
    BY AcceptedJoins
  <1> QED
    BY <1>1, QueueInit, QueueStep, PTL DEF Spec, FifoWithinPriority
=============================================================================
