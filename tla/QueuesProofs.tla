---------------------------- MODULE QueuesProofs ----------------------------
(***************************************************************************)
(* The shared byte budget of a node, for any number of threads, any items, *)
(* any budget and any interleaving of calls, callbacks and the interrupt.  *)
(***************************************************************************)
EXTENDS Queues, SequenceLemmas, FiniteSetTheorems

\* What the queues hold, what the reorder buffer holds, a learned route.
Item  == [cost : Nat, prio : Nat, sides : Nat]
Early == [stream : Streams, seq : Seqs, cost : Nat, prio : Nat]
Route == [side : RouteSides, cost : Nat]

EntryOf(a) == IF a = "buffered" THEN Early ELSE IF a = "routes" THEN Route ELSE Item

Storage == {s \in [AreaNames -> Seq(Item \cup Early \cup Route)] :
              \A a \in AreaNames : s[a] \in Seq(EntryOf(a))}

\* Every entry has a cost.
LEMMA EntriesWeighed ==
  ASSUME NEW a \in AreaNames, NEW q \in Seq(EntryOf(a))
  PROVE  Weighed(q) /\ Bytes(q) \in Nat /\ q \in Seq(Item \cup Early \cup Route)
  <1>1. Len(q) \in Nat /\ \A i \in 1..Len(q) : q[i] \in EntryOf(a)
    BY LenProperties, ElementOfSeq
  <1>2. \A x \in EntryOf(a) : x.cost \in Nat /\ x \in Item \cup Early \cup Route
    BY DEF EntryOf, Item, Early, Route
  <1>3. Weighed(q)
    BY <1>1, <1>2 DEF Weighed
  <1>4. q \in Seq(Item \cup Early \cup Route)
    <2>1. q = [i \in 1..Len(q) |-> q[i]]
      BY LenProperties
    <2>2. \A i \in 1..Len(q) : q[i] \in Item \cup Early \cup Route
      BY <1>1, <1>2
    <2> QED
      BY <1>1, <2>1, <2>2, IsASeq
  <1> QED
    BY <1>3, <1>4, SumsExist, BytesSums

\* The bytes in use change by what one area changes.
LEMMA UsedAfter ==
  ASSUME NEW s, NEW r, NEW a \in AreaNames, \A b \in AreaNames \ {a} : r[b] = s[b],
         \A b \in AreaNames : Bytes(s[b]) \in Nat /\ Bytes(r[b]) \in Nat
  PROVE  Used(r) = Used(s) - Bytes(s[a]) + Bytes(r[a]) /\ Used(s) \in Nat
  <1>1. /\ Bytes(s.rx) \in Nat /\ Bytes(s.tx) \in Nat /\ Bytes(s.replay) \in Nat
        /\ Bytes(s.buffered) \in Nat /\ Bytes(s.routes) \in Nat /\ RecentBytes \in Nat
    BY QueueBounds DEF AreaNames
  <1>2. /\ Bytes(r.rx) \in Nat /\ Bytes(r.tx) \in Nat /\ Bytes(r.replay) \in Nat
        /\ Bytes(r.buffered) \in Nat /\ Bytes(r.routes) \in Nat
    BY DEF AreaNames
  <1>3. CASE a = "rx"
    <2>1. r.tx = s.tx /\ r.replay = s.replay /\ r.buffered = s.buffered /\ r.routes = s.routes
      BY <1>3 DEF AreaNames
    <2>2. Used(r) = Used(s) - Bytes(s.rx) + Bytes(r.rx) /\ Used(s) \in Nat
      BY <1>1, <1>2, <2>1 DEF Used
    <2> QED
      BY <1>3, <2>2
  <1>4. CASE a = "tx"
    <2>1. r.rx = s.rx /\ r.replay = s.replay /\ r.buffered = s.buffered /\ r.routes = s.routes
      BY <1>4 DEF AreaNames
    <2>2. Used(r) = Used(s) - Bytes(s.tx) + Bytes(r.tx) /\ Used(s) \in Nat
      BY <1>1, <1>2, <2>1 DEF Used
    <2> QED
      BY <1>4, <2>2
  <1>5. CASE a = "replay"
    <2>1. r.rx = s.rx /\ r.tx = s.tx /\ r.buffered = s.buffered /\ r.routes = s.routes
      BY <1>5 DEF AreaNames
    <2>2. Used(r) = Used(s) - Bytes(s.replay) + Bytes(r.replay) /\ Used(s) \in Nat
      BY <1>1, <1>2, <2>1 DEF Used
    <2> QED
      BY <1>5, <2>2
  <1>6. CASE a = "buffered"
    <2>1. r.rx = s.rx /\ r.tx = s.tx /\ r.replay = s.replay /\ r.routes = s.routes
      BY <1>6 DEF AreaNames
    <2>2. Used(r) = Used(s) - Bytes(s.buffered) + Bytes(r.buffered) /\ Used(s) \in Nat
      BY <1>1, <1>2, <2>1 DEF Used
    <2> QED
      BY <1>6, <2>2
  <1>7. CASE a = "routes"
    <2>1. r.rx = s.rx /\ r.tx = s.tx /\ r.replay = s.replay /\ r.buffered = s.buffered
      BY <1>7 DEF AreaNames
    <2>2. Used(r) = Used(s) - Bytes(s.routes) + Bytes(r.routes) /\ Used(s) \in Nat
      BY <1>1, <1>2, <2>1 DEF Used
    <2> QED
      BY <1>7, <2>2
  <1> QED
    BY <1>3, <1>4, <1>5, <1>6, <1>7 DEF AreaNames

\* A name for Len in sums.
Size(q) == Len(q)

\* So does the number of entries.
LEMMA EntriesAfter ==
  ASSUME NEW s, NEW r, NEW a \in AreaNames, \A b \in AreaNames \ {a} : r[b] = s[b],
         \A b \in AreaNames : Len(s[b]) \in Nat /\ Len(r[b]) \in Nat
  PROVE  Entries(r) = Entries(s) - Len(s[a]) + Len(r[a]) /\ Entries(s) \in Nat
  <1>1. /\ Size(s.rx) \in Nat /\ Size(s.tx) \in Nat /\ Size(s.replay) \in Nat
        /\ Size(s.buffered) \in Nat /\ Size(s.routes) \in Nat
    BY DEF AreaNames, Size
  <1>2. /\ Entries(s) = Size(s.rx) + Size(s.tx) + Size(s.replay) + Size(s.buffered) + Size(s.routes)
        /\ Entries(r) = Size(r.rx) + Size(r.tx) + Size(r.replay) + Size(r.buffered) + Size(r.routes)
    BY DEF Entries, Size
  <1>3. /\ Size(r.rx) \in Nat /\ Size(r.tx) \in Nat /\ Size(r.replay) \in Nat
        /\ Size(r.buffered) \in Nat /\ Size(r.routes) \in Nat
    BY DEF AreaNames, Size
  <1>4. CASE a = "rx"
    <2>1. r.tx = s.tx /\ r.replay = s.replay /\ r.buffered = s.buffered /\ r.routes = s.routes
      BY <1>4 DEF AreaNames
    <2>2. Entries(r) = Entries(s) - Size(s.rx) + Size(r.rx) /\ Entries(s) \in Nat
      BY <1>1, <1>2, <1>3, <2>1    <2> QED
      BY <1>4, <2>2 DEF Size
  <1>5. CASE a = "tx"
    <2>1. r.rx = s.rx /\ r.replay = s.replay /\ r.buffered = s.buffered /\ r.routes = s.routes
      BY <1>5 DEF AreaNames
    <2>2. Entries(r) = Entries(s) - Size(s.tx) + Size(r.tx) /\ Entries(s) \in Nat
      BY <1>1, <1>2, <1>3, <2>1    <2> QED
      BY <1>5, <2>2 DEF Size
  <1>6. CASE a = "replay"
    <2>1. r.rx = s.rx /\ r.tx = s.tx /\ r.buffered = s.buffered /\ r.routes = s.routes
      BY <1>6 DEF AreaNames
    <2>2. Entries(r) = Entries(s) - Size(s.replay) + Size(r.replay) /\ Entries(s) \in Nat
      BY <1>1, <1>2, <1>3, <2>1    <2> QED
      BY <1>6, <2>2 DEF Size
  <1>7. CASE a = "buffered"
    <2>1. r.rx = s.rx /\ r.tx = s.tx /\ r.replay = s.replay /\ r.routes = s.routes
      BY <1>7 DEF AreaNames
    <2>2. Entries(r) = Entries(s) - Size(s.buffered) + Size(r.buffered) /\ Entries(s) \in Nat
      BY <1>1, <1>2, <1>3, <2>1    <2> QED
      BY <1>7, <2>2 DEF Size
  <1>8. CASE a = "routes"
    <2>1. r.rx = s.rx /\ r.tx = s.tx /\ r.replay = s.replay /\ r.buffered = s.buffered
      BY <1>8 DEF AreaNames
    <2>2. Entries(r) = Entries(s) - Size(s.routes) + Size(r.routes) /\ Entries(s) \in Nat
      BY <1>1, <1>2, <1>3, <2>1    <2> QED
      BY <1>8, <2>2 DEF Size
  <1> QED
    BY <1>4, <1>5, <1>6, <1>7, <1>8 DEF AreaNames

\* Replacing one area.
LEMMA WithArea ==
  ASSUME NEW s \in Storage, NEW a \in AreaNames, NEW q \in Seq(EntryOf(a))
  PROVE  /\ [s EXCEPT ![a] = q] \in Storage
         /\ Used([s EXCEPT ![a] = q]) = Used(s) - Bytes(s[a]) + Bytes(q)
         /\ Entries([s EXCEPT ![a] = q]) = Entries(s) - Len(s[a]) + Len(q)
         /\ \A b \in AreaNames : [s EXCEPT ![a] = q][b] = IF b = a THEN q ELSE s[b]
         /\ Used(s) \in Nat /\ Bytes(s[a]) \in Nat /\ Bytes(q) \in Nat
         /\ Entries(s) \in Nat /\ Len(s[a]) \in Nat /\ Len(q) \in Nat
  <1> DEFINE r == [s EXCEPT ![a] = q]
  <1>1. \A b \in AreaNames : r[b] = IF b = a THEN q ELSE s[b]
    BY DEF Storage
  <1>2. r \in Storage
    <2>1. r \in [AreaNames -> Seq(Item \cup Early \cup Route)]
      BY EntriesWeighed DEF Storage
    <2> QED
      BY <1>1, <2>1 DEF Storage
  <1>3. \A b \in AreaNames : /\ Bytes(s[b]) \in Nat /\ Bytes(r[b]) \in Nat
                             /\ Len(s[b]) \in Nat /\ Len(r[b]) \in Nat
    BY <1>2, EntriesWeighed DEF Storage, Weighed
  <1>4. r[a] = q /\ \A b \in AreaNames \ {a} : r[b] = s[b]
    BY <1>1
  <1> HIDE DEF r
  <1>5. /\ Used(r) = Used(s) - Bytes(s[a]) + Bytes(r[a]) /\ Used(s) \in Nat
        /\ Entries(r) = Entries(s) - Len(s[a]) + Len(r[a]) /\ Entries(s) \in Nat
    BY <1>3, <1>4, UsedAfter, EntriesAfter
  <1> QED
    BY <1>1, <1>2, <1>3, <1>4, <1>5 DEF r

\* pop_front of an area.
LEMMA PoppedFacts ==
  ASSUME NEW s \in Storage, NEW a
  PROVE  /\ Popped(s, a) \in Storage /\ Used(Popped(s, a)) <= Used(s)
         /\ \A b \in AreaNames : b # a => Popped(s, a)[b] = s[b]
         /\ a \in AreaNames /\ s[a] # <<>> => /\ Entries(Popped(s, a)) = Entries(s) - 1
                                              /\ Len(Popped(s, a)[a]) = Len(s[a]) - 1
  <1>0. Used(s) \in Nat
    BY WithArea, EmptySeq DEF AreaNames, Storage
  <1>1. CASE a \in AreaNames /\ s[a] # <<>>
    <2> DEFINE q == s[a]
               t == Tail(q)
    <2>1. q \in Seq(EntryOf(a))
      BY <1>1 DEF Storage
    <2>2. /\ t \in Seq(EntryOf(a)) /\ Len(t) = Len(q) - 1
          /\ \A i \in 1..Len(q) - 1 : t[i] = q[i + 1]
      BY <1>1, <2>1, HeadTailProperties
    <2>3. Popped(s, a) = [s EXCEPT ![a] = t]
      BY <1>1 DEF Popped
    <2>4. Weighed(q) /\ Len(q) \in Nat \ {0} /\ Bytes(q) \in Nat
      BY <1>1, <2>1, EntriesWeighed, EmptySeq, LenProperties
    <2> HIDE DEF t
    <2>5. Bytes(t) <= Bytes(q)
      <3>1. \A i \in 1..Len(q) - 1 : t[i] = IF i <= 0 THEN q[i] ELSE q[i + 1]
        BY <2>2
      <3>2. 0 + 1 <= Len(q)
        BY <2>4
      <3> HIDE DEF q
      <3>3. Cut(q, 0, 1, t)
        BY <2>2, <3>1 DEF Cut
      <3> QED
        BY <2>4, <3>2, <3>3, CutBytes
    <2>6. /\ Popped(s, a) \in Storage
          /\ Used(Popped(s, a)) = Used(s) - Bytes(q) + Bytes(t)
          /\ Entries(Popped(s, a)) = Entries(s) - Len(q) + Len(t)
          /\ \A b \in AreaNames : Popped(s, a)[b] = IF b = a THEN t ELSE s[b]
          /\ Bytes(t) \in Nat /\ Entries(s) \in Nat
      <3> HIDE DEF q
      <3>1. t \in Seq(EntryOf(a)) /\ a \in AreaNames
        BY <1>1, <2>2
      <3>2. /\ [s EXCEPT ![a] = t] \in Storage
            /\ Used([s EXCEPT ![a] = t]) = Used(s) - Bytes(s[a]) + Bytes(t)
            /\ Entries([s EXCEPT ![a] = t]) = Entries(s) - Len(s[a]) + Len(t)
            /\ \A b \in AreaNames : [s EXCEPT ![a] = t][b] = IF b = a THEN t ELSE s[b]
            /\ Bytes(t) \in Nat /\ Entries(s) \in Nat
        BY SMTT(20), <3>1, WithArea
      <3> QED
        BY <2>3, <3>2 DEF q
    <2>7. Used(Popped(s, a)) <= Used(s)
      BY <1>0, <2>4, <2>5, <2>6
    <2>8. Entries(Popped(s, a)) = Entries(s) - 1
      <3> HIDE DEF q
      <3> QED
        BY <2>2, <2>4, <2>6
    <2> QED
      BY <1>1, <2>2, <2>6, <2>7, <2>8
  <1>2. CASE ~(a \in AreaNames /\ s[a] # <<>>)
    <2>1. Popped(s, a) = s
      BY <1>2 DEF Popped, Storage
    <2> QED
      BY <1>0, <1>2, <2>1
  <1> QED
    BY <1>1, <1>2

\* The list of areas.
LEMMA AreaList ==
  /\ Len(Areas) = 5
  /\ \A i \in 1..5 : Areas[i] \in AreaNames
  /\ \A b \in AreaNames : \E i \in 1..5 : Areas[i] = b
  <1>1. /\ Len(Areas) = 5 /\ Areas[1] = "rx" /\ Areas[2] = "tx" /\ Areas[3] = "replay"
        /\ Areas[4] = "buffered" /\ Areas[5] = "routes"
    BY DEF Areas
  <1>2. \A i \in 1..5 : i = 1 \/ i = 2 \/ i = 3 \/ i = 4 \/ i = 5
    OBVIOUS
  <1> QED
    BY <1>1, <1>2 DEF AreaNames

\* Storage without entries is empty.
LEMMA EmptyFacts ==
  ASSUME NEW s \in Storage
  PROVE  /\ Empty(s) <=> \A a \in AreaNames : s[a] = <<>>
         /\ Empty(s) => Used(s) = RecentBytes
         /\ Entries(s) = 0 => Empty(s)
         /\ Entries(s) \in Nat /\ Used(s) \in Nat
  <1>1. Empty(s) <=> \A a \in AreaNames : s[a] = <<>>
    BY AreaList DEF Empty, Evictable
  <1>2. Empty(s) => Used(s) = RecentBytes
    <2> SUFFICES ASSUME Empty(s) PROVE Used(s) = RecentBytes
      OBVIOUS
    <2>1. /\ s.rx = <<>> /\ s.tx = <<>> /\ s.replay = <<>>
          /\ s.buffered = <<>> /\ s.routes = <<>>
      BY <1>1 DEF AreaNames
    <2>2. Bytes(<<>>) = 0
      BY EmptyBytes
    <2>3. Used(s) = RecentBytes + 0 + 0 + 0 + 0 + 0
      BY <2>1, <2>2 DEF Used
    <2> QED
      BY <2>3, QueueBounds
  <1>3. Entries(s) = 0 => Empty(s)
    <2> SUFFICES ASSUME Entries(s) = 0 PROVE Empty(s)
      OBVIOUS
    <2>1. \A a \in AreaNames : s[a] \in Seq(EntryOf(a)) /\ Size(s[a]) \in Nat
      BY LenProperties DEF Storage, Size
    <2>2. 0 = Size(s.rx) + Size(s.tx) + Size(s.replay) + Size(s.buffered) + Size(s.routes)
      BY DEF Entries, Size
    <2>3. /\ Size(s.rx) \in Nat /\ Size(s.tx) \in Nat /\ Size(s.replay) \in Nat
          /\ Size(s.buffered) \in Nat /\ Size(s.routes) \in Nat
      BY <2>1 DEF AreaNames
    <2>4. /\ Size(s.rx) = 0 /\ Size(s.tx) = 0 /\ Size(s.replay) = 0
          /\ Size(s.buffered) = 0 /\ Size(s.routes) = 0
      BY <2>2, <2>3
    <2>5. \A a \in AreaNames : Len(s[a]) = 0
      BY <2>4 DEF AreaNames, Size
    <2>6. \A a \in AreaNames : s[a] = <<>>
      BY <2>1, <2>5, EmptySeq
    <2> QED
      BY <1>1, <2>6
  <1>4. Entries(s) \in Nat /\ Used(s) \in Nat
    BY WithArea DEF AreaNames, Storage
  <1> QED
    BY <1>1, <1>2, <1>3, <1>4

\* largest_shared_queue finds an area with entries when there is one.
LEMMA LargestFacts ==
  ASSUME NEW s \in Storage, ~Empty(s)
  PROVE  LargestSharedQueue(s) \in AreaNames /\ s[LargestSharedQueue(s)] # <<>>
  <1> DEFINE E == Evictable(s)
             B(i) == Bytes(s[Areas[i]])
             Has(n) == E \cap 1..n # {} =>
                         \E i \in E \cap 1..n : \A j \in E \cap 1..n : Outweighs(s, i, j)
  <1>1. E \subseteq 1..5 /\ E # {}
    BY AreaList DEF Evictable, Empty
  <1>2. \A i \in 1..5 : B(i) \in Nat /\ Rank(i) \in Nat
    <2>1. \A i \in 1..5 : Rank(i) \in Nat
      BY DEF Rank
    <2>2. \A a \in AreaNames : s[a] \in Seq(EntryOf(a))
      BY DEF Storage
    <2>3. \A a \in AreaNames : Bytes(s[a]) \in Nat
      BY <2>2, EntriesWeighed
    <2> QED
      BY <2>1, <2>3, AreaList
  <1>3. \A i, j \in 1..5 : Outweighs(s, i, j) <=> \/ B(i) > B(j)
                                                  \/ B(i) = B(j) /\ Rank(i) >= Rank(j)
    BY DEF Outweighs
  <1> HIDE DEF B
  <1>4. \A i, j \in 1..5 : Outweighs(s, i, j) \/ Outweighs(s, j, i)
    BY <1>2, <1>3
  <1>5. \A i, j, k \in 1..5 : Outweighs(s, i, j) /\ Outweighs(s, j, k) => Outweighs(s, i, k)
    BY <1>2, <1>3
  <1> HIDE DEF E
  <1>6. ASSUME NEW n \in 0..4, Has(n)
        PROVE  Has(n + 1)
    <2>1. CASE n + 1 \notin E
      <3>1. E \cap 1..n + 1 = E \cap 1..n
        BY <2>1
      <3> QED
        BY <1>6, <3>1
    <2>2. CASE n + 1 \in E
      <3>1. \A j \in E \cap 1..n + 1 : j \in 1..5 /\ (j = n + 1 \/ j \in E \cap 1..n)
        BY <1>1
      <3>2. n + 1 \in E \cap 1..n + 1 /\ n + 1 \in 1..5 /\ E \cap 1..n \subseteq E \cap 1..n + 1
        BY <2>2
      <3>3. CASE E \cap 1..n = {}
        BY <1>4, <3>1, <3>2, <3>3
      <3>4. CASE E \cap 1..n # {}
        <4>1. PICK i \in E \cap 1..n : \A j \in E \cap 1..n : Outweighs(s, i, j)
          BY <1>6, <3>4
        <4>2. i \in 1..5 /\ i \in E \cap 1..n + 1
          BY <3>1, <3>2
        <4>3. CASE Outweighs(s, i, n + 1)
          BY <3>1, <4>1, <4>2, <4>3
        <4>4. CASE Outweighs(s, n + 1, i)
          BY <1>4, <1>5, <3>1, <3>2, <4>1, <4>2, <4>4
        <4> QED
          BY <1>4, <3>2, <4>2, <4>3, <4>4
      <3> QED
        BY <3>3, <3>4
    <2> QED
      BY <2>1, <2>2
  <1>7. Has(0)
    OBVIOUS
  <1> HIDE DEF Has
  <1>8. Has(1) /\ Has(2) /\ Has(3) /\ Has(4) /\ Has(5)
    <2>1. 0 + 1 = 1 /\ 1 + 1 = 2 /\ 2 + 1 = 3 /\ 3 + 1 = 4 /\ 4 + 1 = 5
      OBVIOUS
    <2>2. Has(1)
      BY <1>6, <1>7, <2>1
    <2>3. Has(2)
      BY <1>6, <2>1, <2>2
    <2>4. Has(3)
      BY <1>6, <2>1, <2>3
    <2>5. Has(4)
      BY <1>6, <2>1, <2>4
    <2>6. Has(5)
      BY <1>6, <2>1, <2>5
    <2> QED
      BY <2>2, <2>3, <2>4, <2>5, <2>6
  <1>9. \E i \in E : \A j \in E : Outweighs(s, i, j)
    BY <1>1, <1>8 DEF Has
  <1>10. \E i \in E : LargestSharedQueue(s) = Areas[i]
    BY <1>9 DEF LargestSharedQueue, E
  <1> QED
    BY <1>1, <1>10, AreaList DEF E, Evictable

\* One turn of make_shared_queue_room takes an entry away if there is one.
LEMMA EvictFacts ==
  ASSUME NEW s \in Storage, NEW a
  PROVE  /\ Evict(s, a) \in Storage /\ Used(Evict(s, a)) <= Used(s)
         /\ ~Empty(s) => Entries(Evict(s, a)) = Entries(s) - 1
         /\ Empty(s) => Evict(s, a) = s
  <1>1. CASE Empty(s)
    <2>1. Evict(s, a) = s
      BY <1>1, EmptyFacts DEF Evict, Popped, Storage, Empty
    <2> QED
      BY <1>1, <2>1, EmptyFacts
  <1>2. CASE ~Empty(s)
    <2> DEFINE b == LargestSharedQueue(s)
    <2>1. Evict(s, a) = Popped(s, b) /\ b \in AreaNames /\ s[b] # <<>>
      BY <1>2, LargestFacts DEF Evict, Empty
    <2> HIDE DEF b
    <2> QED
      BY <1>2, <2>1, PoppedFacts
  <1> QED
    BY <1>1, <1>2

\* make_shared_queue_room: the loop only removes, and it ends with room for the
\* cost or with nothing left.
LEMMA RoomFacts ==
  ASSUME NEW s \in Storage, NEW cost \in Nat, NEW a
  PROVE  /\ MakeSharedQueueRoom(s, cost, a) \in Storage
         /\ Used(MakeSharedQueueRoom(s, cost, a)) <= Used(s)
         /\ cost > Budget => MakeSharedQueueRoom(s, cost, a) = s
         /\ cost <= Budget => \/ Used(MakeSharedQueueRoom(s, cost, a)) + cost <= Budget
                              \/ Empty(MakeSharedQueueRoom(s, cost, a))
  <1> DEFINE Turn(r) == IF Used(r) + cost > Budget THEN Evict(r, a) ELSE r
             E(u) == [n \in Nat |-> IF n = 0 THEN s ELSE Turn(u[n - 1])]
             after == CHOOSE u : u = E(u)
             g == [n \in Nat |-> [r \in Storage |-> Turn(r)]]
  <1>0. Budget \in Nat
    BY QueueBounds
  <1>1. \A r \in Storage : Turn(r) \in Storage
    BY EvictFacts
  <1>2. MakeSharedQueueRoom(s, cost, a) = IF cost > Budget THEN s ELSE after[Entries(s)]
    BY DEF MakeSharedQueueRoom
  <1> HIDE DEF Turn
  <1>3. after = E(after)
    <2>1. g \in [Nat -> [Storage -> Storage]]
      BY <1>1
    <2>2. PICK f : Iterates(f, Storage, s, g)
      <3> HIDE DEF g
      <3> QED
        BY <2>1, Iteration
    <2>3. f = E(f)
      <3>1. ASSUME NEW n \in Nat \ {0}
            PROVE  f[n] = Turn(f[n - 1])
        <4>1. n - 1 \in Nat /\ (n - 1) + 1 = n
          OBVIOUS
        <4>2. f[n] = g[n - 1][f[n - 1]] /\ f[n - 1] \in Storage
          <5> HIDE DEF g
          <5> QED
            BY <2>2, <4>1 DEF Iterates
        <4> QED
          BY <4>1, <4>2
      <3>2. f = [n \in Nat |-> f[n]] /\ f[0] = s
        BY <2>2 DEF Iterates
      <3> QED
        BY <3>1, <3>2
    <2> HIDE DEF E
    <2> QED
      BY <2>3
  <1> HIDE DEF after
  <1>4. after[0] = s /\ \A n \in Nat : after[n + 1] = Turn(after[n])
    <2>1. \A n \in Nat : n + 1 \in Nat /\ n + 1 # 0 /\ (n + 1) - 1 = n
      OBVIOUS
    <2> QED
      BY <1>3, <2>1
  <1> DEFINE Done == {n \in Nat : /\ after[n] \in Storage /\ Used(after[n]) <= Used(s)
                                  /\ \/ Used(after[n]) + cost <= Budget
                                     \/ Empty(after[n])
                                     \/ Entries(after[n]) = Entries(s) - n}
  <1>5. 0 \in Done
    <2>1. Entries(s) - 0 = Entries(s) /\ Used(s) <= Used(s)
      BY EmptyFacts
    <2> QED
      BY <1>4, <2>1
  <1>6. ASSUME NEW n \in Nat, n \in Done
        PROVE  n + 1 \in Done
    <2> DEFINE r == after[n]
    <2>1. after[n + 1] = IF Used(r) + cost > Budget THEN Evict(r, a) ELSE r
      BY <1>4 DEF Turn
    <2>2. /\ r \in Storage /\ Used(r) <= Used(s) /\ Used(r) \in Nat /\ Used(s) \in Nat
          /\ Entries(r) \in Nat /\ Entries(s) \in Nat
          /\ \/ Used(r) + cost <= Budget \/ Empty(r) \/ Entries(r) = Entries(s) - n
      BY <1>6, EmptyFacts
    <2> HIDE DEF r
    <2>3. CASE Used(r) + cost <= Budget
      <3>1. after[n + 1] = r
        BY <1>0, <2>1, <2>2, <2>3
      <3> QED
        BY <2>2, <2>3, <3>1
    <2>4. CASE ~(Used(r) + cost <= Budget)
      <3>1. after[n + 1] = Evict(r, a)
        BY <1>0, <2>1, <2>2, <2>4
      <3>2. after[n + 1] \in Storage /\ Used(after[n + 1]) <= Used(s)
        BY <2>2, <3>1, EvictFacts, EmptyFacts
      <3>3. CASE Empty(r)
        BY <2>2, <3>1, <3>2, <3>3, EvictFacts
      <3>4. CASE ~Empty(r)
        <4>1. Entries(after[n + 1]) = Entries(r) - 1 /\ Entries(r) = Entries(s) - n
          BY <2>2, <2>4, <3>1, <3>4, EvictFacts
        <4>2. Entries(after[n + 1]) = Entries(s) - (n + 1)
          BY <2>2, <4>1
        <4> QED
          BY <3>2, <4>2
      <3> QED
        BY <3>3, <3>4
    <2> QED
      BY <2>3, <2>4
  <1>7. \A n \in Nat : n \in Done
    <2> HIDE DEF Done
    <2> QED
      BY <1>5, <1>6, NatInd
  <1> DEFINE last == after[Entries(s)]
  <1>8. /\ last \in Storage /\ Used(last) <= Used(s)
        /\ Used(last) + cost <= Budget \/ Empty(last)
    <2>1. Entries(s) \in Nat /\ Entries(s) \in Done
      BY <1>7, EmptyFacts
    <2>2. last \in Storage /\ Used(last) <= Used(s)
      BY <2>1
    <2>3. Entries(last) = Entries(s) - Entries(s) => Entries(last) = 0
      BY <2>1
    <2> QED
      BY <2>1, <2>2, <2>3, EmptyFacts
  <1> HIDE DEF last
  <1> QED
    BY <1>0, <1>2, <1>8, EmptyFacts DEF last

\* fit_discovery_budget: routes go until the rest fits; nothing else is touched.
LEMMA FitFacts ==
  ASSUME NEW s \in Storage, Used([s EXCEPT !["routes"] = <<>>]) <= Budget
  PROVE  FitDiscoveryBudget(s) \in Storage /\ Used(FitDiscoveryBudget(s)) <= Budget
  <1> DEFINE Turn(r) == IF Used(r) > Budget THEN Popped(r, "routes") ELSE r
             E(u) == [n \in Nat |-> IF n = 0 THEN s ELSE Turn(u[n - 1])]
             after == CHOOSE u : u = E(u)
             g == [n \in Nat |-> [r \in Storage |-> Turn(r)]]
  <1>0. Budget \in Nat
    BY QueueBounds
  <1>1. \A r \in Storage : Turn(r) \in Storage
    BY PoppedFacts
  <1>2. FitDiscoveryBudget(s) = after[Len(s.routes)]
    BY DEF FitDiscoveryBudget
  <1> HIDE DEF Turn
  <1>3. after = E(after)
    <2>1. g \in [Nat -> [Storage -> Storage]]
      BY <1>1
    <2>2. PICK f : Iterates(f, Storage, s, g)
      <3> HIDE DEF g
      <3> QED
        BY <2>1, Iteration
    <2>3. f = E(f)
      <3>1. ASSUME NEW n \in Nat \ {0}
            PROVE  f[n] = Turn(f[n - 1])
        <4>1. n - 1 \in Nat /\ (n - 1) + 1 = n
          OBVIOUS
        <4>2. f[n] = g[n - 1][f[n - 1]] /\ f[n - 1] \in Storage
          <5> HIDE DEF g
          <5> QED
            BY <2>2, <4>1 DEF Iterates
        <4> QED
          BY <4>1, <4>2
      <3>2. f = [n \in Nat |-> f[n]] /\ f[0] = s
        BY <2>2 DEF Iterates
      <3> QED
        BY <3>1, <3>2
    <2> HIDE DEF E
    <2> QED
      BY <2>3
  <1> HIDE DEF after
  <1>4. after[0] = s /\ \A n \in Nat : after[n + 1] = Turn(after[n])
    <2>1. \A n \in Nat : n + 1 \in Nat /\ n + 1 # 0 /\ (n + 1) - 1 = n
      OBVIOUS
    <2> QED
      BY <1>3, <2>1
  <1> DEFINE Same(r) == \A b \in AreaNames \ {"routes"} : r[b] = s[b]
             Done == {n \in Nat : /\ after[n] \in Storage /\ Same(after[n])
                                  /\ \/ Used(after[n]) <= Budget
                                     \/ Len(after[n].routes) = Len(s.routes) - n}
  <1>5. 0 \in Done
    <2>1. Len(s.routes) - 0 = Len(s.routes)
      BY LenProperties DEF Storage, AreaNames
    <2> QED
      BY <1>4, <2>1
  <1>6. \A r \in Storage : Len(r.routes) \in Nat /\ Used(r) \in Nat /\ "routes" \in AreaNames
    BY LenProperties, EmptyFacts DEF Storage, AreaNames
  <1>7. \A r \in Storage : r.routes = <<>> /\ Same(r) => Used(r) <= Budget
    <2> SUFFICES ASSUME NEW r \in Storage, r.routes = <<>>, Same(r)
                 PROVE  Used(r) <= Budget
      OBVIOUS
    <2>1. r = [s EXCEPT !["routes"] = <<>>]
      BY DEF Storage, AreaNames
    <2> QED
      BY <2>1
  <1>8. ASSUME NEW n \in Nat, n \in Done
        PROVE  n + 1 \in Done
    <2> DEFINE r == after[n]
    <2>1. after[n + 1] = IF Used(r) > Budget THEN Popped(r, "routes") ELSE r
      BY <1>4 DEF Turn
    <2>2. /\ r \in Storage /\ Same(r)
          /\ Used(r) <= Budget \/ Len(r.routes) = Len(s.routes) - n
      BY <1>8
    <2> HIDE DEF r
    <2>3. CASE Used(r) <= Budget
      <3>1. after[n + 1] = r
        BY <1>0, <1>6, <2>1, <2>2, <2>3
      <3> QED
        BY <2>2, <2>3, <3>1
    <2>4. CASE ~(Used(r) <= Budget)
      <3>1. after[n + 1] = Popped(r, "routes") /\ r.routes # <<>>
        BY <1>0, <1>6, <1>7, <2>1, <2>2, <2>4
      <3>2. after[n + 1] \in Storage /\ Same(after[n + 1])
        BY <2>2, <3>1, PoppedFacts
      <3>3. Len(after[n + 1].routes) = Len(r.routes) - 1
        BY <1>6, <2>2, <3>1, PoppedFacts
      <3>4. Len(after[n + 1].routes) = Len(s.routes) - (n + 1)
        <4> DEFINE x == Len(r.routes)
                   y == Len(s.routes)
        <4>1. x \in Nat /\ y \in Nat /\ x = y - n /\ Len(after[n + 1].routes) = x - 1
          BY <1>6, <2>2, <2>4, <3>3
        <4> HIDE DEF x, y
        <4>2. Len(after[n + 1].routes) = y - (n + 1)
          BY <4>1
        <4> QED
          BY <4>2 DEF y
      <3> HIDE DEF Same
      <3> QED
        BY <3>2, <3>4
    <2> QED
      BY <2>3, <2>4
  <1>9. \A n \in Nat : n \in Done
    <2> HIDE DEF Done
    <2> QED
      BY <1>5, <1>8, NatInd
  <1> DEFINE last == after[Len(s.routes)]
  <1>10. last \in Storage /\ Used(last) <= Budget
    <2>1. Len(s.routes) \in Nat /\ Len(s.routes) \in Done
      BY <1>6, <1>9
    <2>2. last \in Storage /\ Same(last)
      BY <2>1
    <2>3. Used(last) <= Budget \/ Len(last.routes) = 0
      BY <2>1
    <2>4. Len(last.routes) = 0 => last.routes = <<>>
      BY <1>6, <2>2, EmptySeq DEF Storage
    <2> QED
      BY <1>7, <2>2, <2>3, <2>4
  <1> QED
    BY <1>2, <1>10

\* Max of a bounded set of naturals.
LEMMA MaxBounded ==
  ASSUME NEW N \in Nat, NEW T, T \subseteq 0..N, T # {}
  PROVE  Max(T) \in T
  <1> DEFINE D == {d \in Nat : N - d \in T}
  <1>1. \A x \in T : N - x \in Nat /\ N - (N - x) = x /\ x \in 0..N
    OBVIOUS
  <1>2. D \subseteq Nat /\ D # {}
    BY <1>1
  <1>3. PICK d \in D : \A e \in D : d <= e
    <2> HIDE DEF D
    <2> QED
      BY <1>2, LeastNat
  <1>4. N - d \in T /\ \A y \in T : N - d >= y
    <2>1. ASSUME NEW y \in T PROVE N - d >= y
      <3>1. N - y \in D
        BY <1>1
      <3>2. d <= N - y
        BY <1>3, <3>1
      <3> QED
        BY <1>1, <1>3, <3>2
    <2> QED
      BY <1>3, <2>1
  <1> QED
    BY <1>4 DEF Max

\* Min of a set of naturals.
LEMMA MinOfNat ==
  ASSUME NEW T, T \subseteq Nat, T # {}
  PROVE  Min(T) \in T
  BY LeastNat DEF Min

\* The number of positions of a queue that have some property.
LEMMA CountBounded ==
  ASSUME NEW N \in Nat, NEW T, T \subseteq 1..N
  PROVE  IsFiniteSet(T) /\ Cardinality(T) \in 0..N
  <1>1. IsFiniteSet(1..N) /\ Cardinality(1..N) = N
    BY FS_Interval
  <1>2. IsFiniteSet(T) /\ Cardinality(T) <= Cardinality(1..N)
    BY <1>1, FS_Subset
  <1>3. Cardinality(T) \in Nat
    BY <1>2, FS_CardinalityType
  <1> QED
    BY <1>1, <1>2, <1>3

\* A prefix of a queue.
LEMMA PrefixFacts ==
  ASSUME NEW S, NEW q \in Seq(S), Weighed(q), NEW m \in 0..Len(q)
  PROVE  /\ SubSeq(q, 1, m) \in Seq(S) /\ Len(SubSeq(q, 1, m)) = m
         /\ Weighed(SubSeq(q, 1, m)) /\ Bytes(SubSeq(q, 1, m)) <= Bytes(q)
  <1>1. Len(q) \in Nat /\ \A i \in 1..Len(q) : q[i] \in S
    BY LenProperties, ElementOfSeq
  <1> DEFINE k == SubSeq(q, 1, m)
  <1>2. k \in Seq(S) /\ Len(k) = m /\ \A i \in 1..m : k[i] = q[i]
    BY <1>1, SubSeqProperties, Z3
  <1> HIDE DEF k
  <1> DEFINE d == Len(q) - m
  <1>3. d \in Nat /\ m + d <= Len(q) /\ Len(q) - d = m /\ m \in Nat
    BY <1>1
  <1> HIDE DEF d
  <1>4. \A i \in 1..Len(q) - d : k[i] = IF i <= m THEN q[i] ELSE q[i + d]
    BY <1>2, <1>3
  <1>5. Len(k) = Len(q) - d
    BY <1>2, <1>3
  <1>6. Weighed(k) /\ Bytes(k) <= Bytes(q)
    <2>1. Cut(q, m, d, k)
      BY <1>4, <1>5 DEF Cut
    <2> QED
      BY <1>3, <2>1, CutBytes
  <1> QED
    BY <1>2, <1>6 DEF k

\* Inserting an entry into a queue.
LEMMA InsertFacts ==
  ASSUME NEW S, NEW q \in Seq(S), Weighed(q), NEW at \in 1..Len(q) + 1,
         NEW v \in S, v.cost \in Nat
  PROVE  InsertAt(q, at, v) \in Seq(S) /\ Bytes(InsertAt(q, at, v)) = Bytes(q) + v.cost
  <1> DEFINE r == InsertAt(q, at, v)
  <1>1. r \in Seq(S)
    BY InsertAtProperties
  <1>2. Len(r) = Len(q) + 1
    BY InsertAtProperties
  <1>3. ASSUME NEW i \in 1..Len(q) + 1
        PROVE  r[i] = IF i < at THEN q[i] ELSE IF i = at THEN v ELSE q[i - 1]
    BY InsertAtProperties
  <1> HIDE DEF r
  <1>4. Bytes(r) = Bytes(q) + v.cost
    BY <1>2, <1>3, InsertBytes
  <1> QED
    BY <1>1, <1>4 DEF r

\* A queue without one of its entries.
LEMMA ShorterBytes ==
  ASSUME NEW q, Weighed(q), NEW k \in 1..Len(q), NEW r, Len(r) = Len(q) - 1,
         \A i \in 1..Len(q) - 1 : r[i] = IF i < k THEN q[i] ELSE q[i + 1]
  PROVE  Bytes(r) <= Bytes(q) /\ Weighed(r)
  <1> DEFINE a == k - 1
  <1>1. a \in Nat /\ a + 1 <= Len(q)
    BY DEF Weighed
  <1>2. \A i \in 1..Len(q) - 1 : i < k <=> i <= a
    BY DEF Weighed
  <1> HIDE DEF a
  <1>3. Cut(q, a, 1, r)
    BY <1>2 DEF Cut
  <1> QED
    BY <1>1, <1>3, CutBytes

\* Removing an entry from a queue.
LEMMA RemoveFacts ==
  ASSUME NEW S, NEW q \in Seq(S), Weighed(q), NEW k \in 1..Len(q)
  PROVE  RemoveAt(q, k) \in Seq(S) /\ Bytes(RemoveAt(q, k)) <= Bytes(q) /\ Weighed(RemoveAt(q, k))
  <1> DEFINE r == RemoveAt(q, k)
  <1>1. r \in Seq(S)
    BY RemoveAtProperties
  <1>2. Len(r) = Len(q) - 1
    BY RemoveAtProperties
  <1>3. ASSUME NEW i \in 1..Len(q) - 1
        PROVE  r[i] = IF i < k THEN q[i] ELSE q[i + 1]
    BY RemoveAtProperties
  <1> HIDE DEF r
  <1>4. Bytes(r) <= Bytes(q) /\ Weighed(r)
    BY <1>2, <1>3, ShorterBytes
  <1> QED
    BY <1>1, <1>4 DEF r

\* A position of a queue with one entry more.
LEMMA LastOrBefore ==
  ASSUME NEW n \in Nat, NEW i \in 1..n + 1
  PROVE  (i \in 1..n /\ i < n + 1) \/ (i = n + 1 /\ ~(i < n + 1))
  OBVIOUS

\* A queue with one entry more at its end.
LEMMA LongerBytes ==
  ASSUME NEW q, Weighed(q), NEW v, v.cost \in Nat, NEW r, Len(r) = Len(q) + 1,
         \A i \in 1..Len(q) : r[i] = q[i], r[Len(q) + 1] = v
  PROVE  Bytes(r) = Bytes(q) + v.cost
  <1> DEFINE at == Len(q) + 1
  <1>1. Len(q) \in Nat /\ at \in 1..Len(q) + 1
    BY DEF Weighed
  <1>2. \A i \in 1..Len(q) + 1 : (i \in 1..Len(q) /\ i < at) \/ (i = at /\ ~(i < at))
    BY <1>1, LastOrBefore
  <1>3. r[at] = v
    OBVIOUS
  <1> HIDE DEF at
  <1>4. \A i \in 1..Len(q) + 1 : r[i] = IF i < at THEN q[i] ELSE IF i = at THEN v ELSE q[i - 1]
    BY <1>2, <1>3
  <1> QED
    BY <1>1, <1>4, InsertBytes

\* Appending an entry to a queue.
LEMMA AppendFacts ==
  ASSUME NEW S, NEW q \in Seq(S), Weighed(q), NEW v \in S, v.cost \in Nat
  PROVE  Append(q, v) \in Seq(S) /\ Bytes(Append(q, v)) = Bytes(q) + v.cost
  <1> DEFINE r == Append(q, v)
  <1>1. r \in Seq(S) /\ Len(r) = Len(q) + 1 /\ (\A i \in 1..Len(q) : r[i] = q[i])
        /\ r[Len(q) + 1] = v
    BY AppendProperties
  <1> HIDE DEF r
  <1>2. Bytes(r) = Bytes(q) + v.cost
    BY <1>1, LongerBytes
  <1> QED
    BY <1>1, <1>2 DEF r

\* push_back_prioritized adds at most the cost of the item.
LEMMA PrioritizedFacts ==
  ASSUME NEW q \in Seq(Item), NEW v \in Item
  PROVE  /\ Prioritized(q, v) \in Seq(Item)
         /\ Bytes(Prioritized(q, v)) <= Bytes(q) + v.cost
  <1> DEFINE fits == {n \in 0..Len(q) :
                        n < MaxElems /\ (n = 0 \/ Bytes(SubSeq(q, 1, n)) + v.cost <= Budget)}
             m == Max({Fitting(q, v), Outranking(q, v)})
             kept == SubSeq(q, 1, m)
             before == Cardinality({i \in 1..Len(kept) : kept[i].prio >= v.prio})
  <1>1. Len(q) \in Nat /\ Weighed(q) /\ Bytes(q) \in Nat
    <2>1. "tx" \in AreaNames /\ EntryOf("tx") = Item
      BY DEF AreaNames, EntryOf
    <2> QED
      BY <2>1, EntriesWeighed, LenProperties
  <1>2. Fitting(q, v) \in 0..Len(q)
    <2>1. fits \subseteq 0..Len(q) /\ 0 \in fits
      BY <1>1, QueueBounds
    <2>2. Max(fits) \in fits
      <3> HIDE DEF fits
      <3> QED
        BY <1>1, <2>1, MaxBounded
    <2> QED
      BY <2>2 DEF Fitting
  <1>3. Outranking(q, v) \in 0..Len(q)
    BY <1>1, CountBounded DEF Outranking
  <1>4. m \in 0..Len(q)
    <2> DEFINE two == {Fitting(q, v), Outranking(q, v)}
    <2>1. two \subseteq 0..Len(q) /\ two # {}
      BY <1>2, <1>3
    <2> HIDE DEF two
    <2>2. Max(two) \in two
      BY <1>1, <2>1, MaxBounded
    <2> QED
      BY <2>1, <2>2 DEF two
  <1>5. Prioritized(q, v) = IF Saturated(q, v) THEN kept ELSE InsertAt(kept, before + 1, v)
    BY DEF Prioritized
  <1> HIDE DEF m
  <1>6. kept \in Seq(Item) /\ Weighed(kept) /\ Bytes(kept) <= Bytes(q) /\ Len(kept) = m
    BY <1>1, <1>4, PrefixFacts
  <1> HIDE DEF kept
  <1> DEFINE at == before + 1
  <1>7. at \in 1..Len(kept) + 1 /\ Len(kept) \in Nat
    <2>1. Len(kept) \in Nat
      BY <1>1, <1>4, <1>6
    <2>2. before \in 0..Len(kept)
      BY <2>1, CountBounded
    <2> HIDE DEF before
    <2> QED
      BY <2>1, <2>2
  <1> HIDE DEF at
  <1> DEFINE r == InsertAt(kept, at, v)
  <1>8. v.cost \in Nat /\ Bytes(kept) \in Nat
    BY <1>6, SumsExist, BytesSums DEF Item
  <1>9. r \in Seq(Item) /\ Bytes(r) = Bytes(kept) + v.cost
    BY <1>6, <1>7, <1>8, InsertFacts
  <1> HIDE DEF r
  <1>10. CASE Saturated(q, v)
    BY <1>1, <1>5, <1>6, <1>8, <1>10
  <1>11. CASE ~Saturated(q, v)
    <2>1. Prioritized(q, v) = r
      BY <1>5, <1>11 DEF r, at
    <2> QED
      BY <1>1, <1>6, <1>8, <1>9, <2>1
  <1> QED
    BY <1>10, <1>11

\* What a push may answer for an item of the given cost.
Outcome == [store : Storage, why : {"ok", "saturated", "too large"}]
Sound(r, cost) ==
  /\ r \in Outcome /\ Used(r.store) <= Budget
  /\ r.why = "too large" => cost + RecentBytes > Budget

\* What make_shared_queue_room leaves is within the budget, also with the cost
\* unless it is refused, and then the cost does not fit beside the recent-id cache.
LEMMA RoomOutcome ==
  ASSUME NEW s \in Storage, Used(s) <= Budget, NEW cost \in Nat, NEW a, NEW r,
         r = MakeSharedQueueRoom(s, cost, a)
  PROVE  /\ r \in Storage /\ Used(r) <= Budget /\ Used(r) \in Nat
         /\ TooLarge(r, cost) => cost + RecentBytes > Budget
         /\ ~TooLarge(r, cost) => Used(r) + cost <= Budget
  <1>1. /\ r \in Storage /\ Used(r) <= Used(s)
        /\ cost <= Budget => Used(r) + cost <= Budget \/ Empty(r)
    BY RoomFacts
  <1>2. Used(r) \in Nat /\ Used(s) \in Nat /\ (Empty(r) => Used(r) = RecentBytes)
    BY <1>1, EmptyFacts
  <1>3. Budget \in Nat /\ RecentBytes \in Nat
    BY QueueBounds
  <1> QED
    BY <1>1, <1>2, <1>3 DEF TooLarge

\* An answer and the storage it leaves.
LEMMA Answer ==
  ASSUME NEW s \in Storage, Used(s) <= Budget, NEW cost,
         NEW why \in {"ok", "saturated", "too large"},
         why = "too large" => cost + RecentBytes > Budget
  PROVE  Sound(Result(s, why), cost)
  <1>1. Result(s, why) \in Outcome /\ Result(s, why).store = s /\ Result(s, why).why = why
    BY DEF Result, Outcome
  <1> HIDE DEF Result
  <1> QED
    BY <1>1 DEF Sound

\* push_received, push_transmit, push_replay: within the budget, whatever they
\* were given, and refused for its size only when it is too large.
LEMMA PushFacts ==
  ASSUME NEW s \in Storage, Used(s) <= Budget, NEW a \in {"rx", "tx", "replay"}, NEW v \in Item
  PROVE  Sound(PushTo(s, a, v), v.cost)
  <1> DEFINE r == MakeSharedQueueRoom(s, v.cost, a)
             q == Prioritized(r[a], v)
             w == [r EXCEPT ![a] = q]
             why == IF Saturated(r[a], v) THEN "saturated" ELSE "ok"
  <1>1. v.cost \in Nat
    BY DEF Item
  <1>2. /\ r \in Storage /\ Used(r) <= Budget /\ Used(r) \in Nat
        /\ TooLarge(r, v.cost) => v.cost + RecentBytes > Budget
        /\ ~TooLarge(r, v.cost) => Used(r) + v.cost <= Budget
    BY <1>1, RoomOutcome
  <1>3. PushTo(s, a, v) = IF TooLarge(r, v.cost) THEN Result(r, "too large")
                          ELSE Result(w, why)
    BY DEF PushTo
  <1>4. why \in {"ok", "saturated"}
    OBVIOUS
  <1> HIDE DEF r, why
  <1>5. a \in AreaNames /\ EntryOf(a) = Item
    BY DEF AreaNames, EntryOf
  <1>6. r[a] \in Seq(Item)
    BY <1>2, <1>5 DEF Storage
  <1>7. q \in Seq(Item) /\ Bytes(q) <= Bytes(r[a]) + v.cost
    BY <1>6, PrioritizedFacts
  <1> HIDE DEF q
  <1>8. /\ w \in Storage /\ Used(w) = Used(r) - Bytes(r[a]) + Bytes(q)
        /\ Bytes(r[a]) \in Nat /\ Bytes(q) \in Nat
    BY <1>2, <1>5, <1>7, WithArea
  <1> HIDE DEF w
  <1>9. CASE TooLarge(r, v.cost)
    BY <1>2, <1>3, <1>9, Answer
  <1>10. CASE ~TooLarge(r, v.cost)
    <2>1. Used(w) <= Budget
      BY <1>1, <1>2, <1>7, <1>8, <1>10, QueueBounds
    <2> QED
      BY <1>3, <1>4, <1>8, <1>10, <2>1, Answer
  <1> QED
    BY <1>9, <1>10

\* n pushes of the same item, up to the first error.
LEMMA PushAllFacts ==
  ASSUME NEW s \in Storage, Used(s) <= Budget, NEW a \in {"rx", "tx", "replay"}, NEW v \in Item,
         NEW n \in Nat
  PROVE  Sound(PushAll(s, a, v, n), v.cost)
  <1> DEFINE S == {r \in Outcome : Sound(r, v.cost)}
             Turn(r) == IF r.why = "ok" THEN PushTo(r.store, a, v) ELSE r
             E(u) == [i \in Nat |-> IF i = 0 THEN Result(s, "ok") ELSE Turn(u[i - 1])]
             after == CHOOSE u : u = E(u)
             g == [i \in Nat |-> [r \in S |-> Turn(r)]]
  <1>1. \A r \in S : Turn(r) \in S
    BY PushFacts DEF Sound, Outcome
  <1>2. Result(s, "ok") \in S
    BY DEF Sound, Outcome, Result
  <1>3. PushAll(s, a, v, n) = after[n]
    BY DEF PushAll
  <1> HIDE DEF Turn, S
  <1>4. \E f : Iterates(f, S, Result(s, "ok"), g)
    <2>1. g \in [Nat -> [S -> S]]
      BY <1>1
    <2> HIDE DEF g
    <2> QED
      BY <1>2, <2>1, Iteration
  <1>5. PICK f : Iterates(f, S, Result(s, "ok"), g)
    BY <1>4
  <1>6. f = E(f)
    <2>1. ASSUME NEW i \in Nat \ {0}
          PROVE  f[i] = Turn(f[i - 1])
      <3>1. i - 1 \in Nat /\ (i - 1) + 1 = i
        OBVIOUS
      <3>2. f[i] = g[i - 1][f[i - 1]] /\ f[i - 1] \in S
        <4> HIDE DEF g
        <4> QED
          BY <1>5, <3>1 DEF Iterates
      <3> QED
        BY <3>1, <3>2
    <2>2. f = [i \in Nat |-> f[i]] /\ f[0] = Result(s, "ok")
      BY <1>5 DEF Iterates
    <2> QED
      BY <2>1, <2>2
  <1>7. after = E(after)
    <2> HIDE DEF E
    <2> QED
      BY <1>6
  <1> HIDE DEF after
  <1>8. 0 \in {i \in Nat : after[i] \in S}
    BY <1>2, <1>7
  <1>9. ASSUME NEW i \in Nat, i \in {j \in Nat : after[j] \in S}
        PROVE  i + 1 \in {j \in Nat : after[j] \in S}
    <2>1. i + 1 \in Nat /\ i + 1 # 0 /\ (i + 1) - 1 = i
      OBVIOUS
    <2>2. after[i + 1] = Turn(after[i])
      BY <1>7, <2>1
    <2> QED
      BY <1>1, <1>9, <2>1, <2>2
  <1>10. n \in {j \in Nat : after[j] \in S}
    <2> DEFINE Done == {j \in Nat : after[j] \in S}
    <2>1. 0 \in Done /\ \A i \in Nat : i \in Done => i + 1 \in Done
      BY <1>8, <1>9
    <2> HIDE DEF Done
    <2>2. n \in Done
      BY <2>1, NatInd
    <2> QED
      BY <2>2 DEF Done
  <1> QED
    BY <1>3, <1>10 DEF S

\* buffer_reliable_rx: the early packet pays for its place as a push does.
LEMMA BufferFacts ==
  ASSUME NEW s \in Storage, Used(s) <= Budget, NEW e \in Early
  PROVE  Sound(BufferReliableRx(s, e), e.cost)
  <1> DEFINE r == MakeSharedQueueRoom(s, e.cost, "buffered")
             b == r.buffered
             same == {i \in 1..Len(b) : b[i].stream = e.stream}
             kept == IF Cardinality(same) >= MaxBuffered THEN RemoveAt(b, Min(same)) ELSE b
             before == Cardinality({i \in 1..Len(kept) : Precedes(kept[i], e)})
             known == \E i \in 1..Len(s.buffered) :
                        s.buffered[i].stream = e.stream /\ s.buffered[i].seq = e.seq
  <1>1. e.cost \in Nat /\ "buffered" \in AreaNames /\ EntryOf("buffered") = Early
    BY DEF Early, AreaNames, EntryOf
  <1>2. /\ r \in Storage /\ Used(r) <= Budget /\ Used(r) \in Nat
        /\ TooLarge(r, e.cost) => e.cost + RecentBytes > Budget
        /\ ~TooLarge(r, e.cost) => Used(r) + e.cost <= Budget
    BY <1>1, RoomOutcome
  <1>3. BufferReliableRx(s, e) =
          IF known THEN Result(s, "ok")
          ELSE IF TooLarge(r, e.cost) THEN Result(r, "too large")
          ELSE Result([r EXCEPT !["buffered"] = InsertAt(kept, before + 1, e)], "ok")
    BY DEF BufferReliableRx
  <1> HIDE DEF r, known
  <1>4. b \in Seq(Early) /\ Weighed(b) /\ Bytes(b) \in Nat /\ Len(b) \in Nat
    BY <1>1, <1>2, EntriesWeighed, LenProperties DEF Storage
  <1> HIDE DEF b
  <1>5. kept \in Seq(Early) /\ Bytes(kept) <= Bytes(b) /\ Weighed(kept)
    <2>1. CASE Cardinality(same) >= MaxBuffered
      <3>1. same \subseteq 1..Len(b)
        OBVIOUS
      <3> HIDE DEF same
      <3>2. same # {}
        <4> SUFFICES ASSUME same = {} PROVE FALSE
          OBVIOUS
        <4>1. Cardinality(same) = 0
          BY FS_EmptySet
        <4> QED
          BY <2>1, <4>1, QueueBounds
      <3>3. Min(same) \in 1..Len(b)
        <4>1. same \subseteq Nat
          BY <1>4, <3>1
        <4>2. Min(same) \in same
          BY <3>2, <4>1, MinOfNat
        <4> QED
          BY <3>1, <4>2
      <3> DEFINE k == Min(same)
      <3> HIDE DEF k
      <3>4. k \in 1..Len(b)
        BY <3>3 DEF k
      <3>5. RemoveAt(b, k) \in Seq(Early) /\ Bytes(RemoveAt(b, k)) <= Bytes(b)
            /\ Weighed(RemoveAt(b, k))
        BY <1>4, <3>4, RemoveFacts
      <3>6. kept = RemoveAt(b, k)
        BY <2>1 DEF k
      <3> QED
        BY <3>5, <3>6
    <2>2. CASE ~(Cardinality(same) >= MaxBuffered)
      BY <1>4, <2>2
    <2> QED
      BY <2>1, <2>2
  <1> HIDE DEF kept
  <1> DEFINE at == before + 1
  <1>6. at \in 1..Len(kept) + 1
    <2>1. Len(kept) \in Nat
      BY <1>5 DEF Weighed
    <2>2. before \in 0..Len(kept)
      BY <2>1, CountBounded
    <2> HIDE DEF before
    <2> QED
      BY <2>1, <2>2
  <1> HIDE DEF at
  <1> DEFINE q == InsertAt(kept, at, e)
             w == [r EXCEPT !["buffered"] = q]
  <1>7. Bytes(kept) \in Nat
    BY <1>5, SumsExist, BytesSums
  <1>8. q \in Seq(Early) /\ Bytes(q) = Bytes(kept) + e.cost
    BY <1>1, <1>5, <1>6, InsertFacts
  <1>9. known \/ TooLarge(r, e.cost) \/ BufferReliableRx(s, e) = Result(w, "ok")
    BY <1>3 DEF at
  <1> HIDE DEF q
  <1>10. w \in Storage /\ Used(w) = Used(r) - Bytes(r["buffered"]) + Bytes(q) /\ Bytes(q) \in Nat
    BY <1>1, <1>2, <1>8, WithArea
  <1>11. r["buffered"] = b
    BY <1>2 DEF b, Storage
  <1> HIDE DEF w
  <1>12. CASE known
    BY <1>3, <1>12, Answer
  <1>13. CASE ~known /\ TooLarge(r, e.cost)
    BY <1>2, <1>3, <1>13, Answer
  <1>14. CASE ~known /\ ~TooLarge(r, e.cost)
    <2>1. Used(w) <= Budget
      <3>1. Used(r) + e.cost <= Budget
        BY <1>2, <1>14
      <3>2. Used(w) = Used(r) - Bytes(b) + (Bytes(kept) + e.cost)
        BY <1>8, <1>10, <1>11
      <3> QED
        BY <1>1, <1>2, <1>4, <1>5, <1>7, <3>1, <3>2, QueueBounds
    <2> QED
      BY <1>9, <1>10, <1>14, <2>1, Answer
  <1> QED
    BY <1>12, <1>13, <1>14

\* learn_discovery_packet: the routes give way until the rest fits.
LEMMA LearnFacts ==
  ASSUME NEW s \in Storage, Used(s) <= Budget, NEW side \in RouteSides, NEW cost \in Nat
  PROVE  LearnRoute(s, side, cost) \in Storage /\ Used(LearnRoute(s, side, cost)) <= Budget
  <1> DEFINE b == s.routes
             old == {i \in 1..Len(b) : b[i].side = side}
             k == CHOOSE i \in old : TRUE
             kept == IF old = {} THEN b ELSE RemoveAt(b, k)
             v == [side |-> side, cost |-> cost]
             q == Append(kept, v)
             w == [s EXCEPT !["routes"] = q]
  <1>1. LearnRoute(s, side, cost) = FitDiscoveryBudget(w)
    BY DEF LearnRoute
  <1>2. "routes" \in AreaNames /\ EntryOf("routes") = Route /\ v \in Route /\ v.cost \in Nat
    BY DEF AreaNames, EntryOf, Route
  <1>3. b \in Seq(Route) /\ Weighed(b) /\ b = s["routes"]
    BY <1>2, EntriesWeighed DEF Storage
  <1> HIDE DEF b, v
  <1>4. kept \in Seq(Route) /\ Weighed(kept)
    <2>1. CASE old = {}
      BY <1>3, <2>1
    <2>2. CASE old # {}
      <3>1. k \in 1..Len(b)
        BY <2>2
      <3> HIDE DEF k
      <3>2. RemoveAt(b, k) \in Seq(Route) /\ Weighed(RemoveAt(b, k))
        BY <1>3, <3>1, RemoveFacts
      <3> QED
        BY <2>2, <3>2
    <2> QED
      BY <2>1, <2>2
  <1> HIDE DEF kept
  <1>5. q \in Seq(Route)
    BY <1>2, <1>4, AppendFacts
  <1> HIDE DEF q
  <1>6. /\ w \in Storage /\ Used(w) = Used(s) - Bytes(s["routes"]) + Bytes(q)
        /\ Used(s) \in Nat /\ Bytes(s["routes"]) \in Nat /\ Bytes(q) \in Nat /\ w["routes"] = q
    BY SMTT(20), <1>2, <1>5, WithArea
  <1> HIDE DEF w
  <1> DEFINE none == <<>>
  <1>7. none \in Seq(EntryOf("routes")) /\ Bytes(none) = 0
    BY EmptySeq, EmptyBytes
  <1> HIDE DEF none
  <1>8. Used([w EXCEPT !["routes"] = none]) = Used(w) - Bytes(w["routes"]) + Bytes(none)
    <2>1. "routes" \in AreaNames /\ w \in Storage /\ none \in Seq(EntryOf("routes"))
      BY <1>2, <1>6, <1>7
    <2> QED
      BY <2>1, WithArea
  <1>9. Used([w EXCEPT !["routes"] = none]) <= Budget
    BY <1>6, <1>7, <1>8, QueueBounds
  <1>10. Used([w EXCEPT !["routes"] = <<>>]) <= Budget
    BY <1>9 DEF none
  <1> QED
    BY <1>1, <1>6, <1>10, FitFacts

\* The run that an expected packet releases leaves the reorder buffer.
LEMMA ReleaseFacts ==
  ASSUME NEW s \in Storage, Used(s) <= Budget, NEW first \in Nat, NEW k \in Nat,
         first + k <= Len(s.buffered), NEW r,
         r = [s EXCEPT !["buffered"] = SubSeq(s.buffered, 1, first)
                                       \o SubSeq(s.buffered, first + k + 1, Len(s.buffered))]
  PROVE  /\ r \in Storage /\ Used(r) <= Budget
         /\ \A i \in 1..k : SubSeq(s.buffered, first + 1, first + k)[i] \in Early
  <1> DEFINE b == s.buffered
             n == Len(b)
             front == SubSeq(b, 1, first)
             back == SubSeq(b, first + k + 1, n)
             q == front \o back
  <1>1. "buffered" \in AreaNames /\ EntryOf("buffered") = Early
    BY DEF AreaNames, EntryOf
  <1>2. b \in Seq(Early) /\ Weighed(b) /\ b = s["buffered"] /\ n \in Nat
    BY <1>1, EntriesWeighed DEF Storage, Weighed
  <1>3. first + k <= n /\ r = [s EXCEPT !["buffered"] = q]
    OBVIOUS
  <1> HIDE DEF b
  <1>4. /\ front \in Seq(Early) /\ Len(front) = first
        /\ \A i \in 1..first : front[i] = b[i]
    BY <1>2, <1>3, SubSeqProperties
  <1>5. /\ back \in Seq(Early) /\ Len(back) = n - (first + k)
        /\ \A i \in 1..n - (first + k) : back[i] = b[first + k + i]
    BY <1>2, <1>3, SubSeqProperties
  <1> HIDE DEF front, back, n
  <1>6. q \in Seq(Early) /\ Len(q) = n - k
        /\ \A i \in 1..n - k : q[i] = IF i <= first THEN b[i] ELSE b[i + k]
    <2>1. /\ q \in Seq(Early) /\ Len(q) = Len(front) + Len(back)
          /\ \A i \in 1..Len(front) + Len(back) :
               q[i] = IF i <= Len(front) THEN front[i] ELSE back[i - Len(front)]
      <3>1. front \in Seq(Early) /\ back \in Seq(Early)
        BY <1>4, <1>5
      <3> QED
        BY <3>1, ConcatProperties, Zenon
    <2> HIDE DEF q
    <2>2. n \in Nat /\ first \in Nat /\ k \in Nat /\ Len(front) + Len(back) = n - k
      BY <1>2, <1>3, <1>4, <1>5
    <2>3. ASSUME NEW i \in 1..n - k
          PROVE  q[i] = IF i <= first THEN b[i] ELSE b[i + k]
      <3>1. q[i] = IF i <= first THEN front[i] ELSE back[i - first]
        BY <1>4, <2>1, <2>2
      <3>2. i <= first => i \in 1..first
        BY <2>2
      <3>3. ~(i <= first) => /\ i - first \in 1..n - (first + k)
                             /\ first + k + (i - first) = i + k
        BY <1>3, <2>2
      <3> QED
        BY <1>4, <1>5, <3>1, <3>2, <3>3
    <2> QED
      BY <2>1, <2>2, <2>3
  <1> HIDE DEF q
  <1>7. Bytes(q) <= Bytes(b)
    <2>1. Cut(b, first, k, q)
      BY <1>6 DEF Cut, n
    <2> QED
      BY <1>2, <1>3, <2>1, CutBytes DEF n
  <1>8. /\ r \in Storage /\ Used(r) = Used(s) - Bytes(b) + Bytes(q)
        /\ Used(s) \in Nat /\ Bytes(b) \in Nat /\ Bytes(q) \in Nat
    <2> DEFINE x == [s EXCEPT !["buffered"] = q]
    <2>1. "buffered" \in AreaNames /\ q \in Seq(EntryOf("buffered"))
      BY <1>1, <1>6
    <2>2. /\ x \in Storage /\ Used(x) = Used(s) - Bytes(s["buffered"]) + Bytes(q)
          /\ Used(s) \in Nat /\ Bytes(s["buffered"]) \in Nat /\ Bytes(q) \in Nat
      BY <2>1, WithArea
    <2>3. x = r
      BY <1>3
    <2> HIDE DEF x
    <2> QED
      BY <1>2, <2>2, <2>3
  <1>9. Used(r) <= Budget
    BY <1>7, <1>8, QueueBounds
  <1>10. \A i \in 1..k : SubSeq(b, first + 1, first + k)[i] \in Early
    <2>1. first + 1 \in Int /\ first + k \in Int
      OBVIOUS
    <2>2. \A i \in 1..n : b[i] \in Early
      BY <1>2, ElementOfSeq DEF n
    <2>3. \A i \in first + 1..first + k : b[i] \in Early
      BY <1>2, <1>3, <2>2
    <2>4. \A i \in 1..(first + k) - (first + 1) + 1 :
            SubSeq(b, first + 1, first + k)[i] = b[first + 1 + i - 1]
      BY <2>1, <2>3, SubSeqProperties
    <2>5. \A i \in 1..k : /\ i \in 1..(first + k) - (first + 1) + 1
                           /\ first + 1 + i - 1 \in first + 1..first + k
      OBVIOUS
    <2> QED
      BY <2>3, <2>4, <2>5
  <1> QED
    BY <1>8, <1>9, <1>10 DEF b

-----------------------------------------------------------------------------
(***************************************************************************)
(* The calls a thread is in.                                               *)
(***************************************************************************)

CallNames == {"tx", "rx", "all", "send", "receive", "report", "clear"}
Places == {"rx", "tx", "replay", "isr", "queued", "handle", "dispatch", "reported", "send",
           "requeue", "calling", "called", "clear isr"}

\* The stages of a Relay's loops, to one of which a refused item goes back.
Stage(f) ==
  \/ f.call = "rx" /\ f.from = "rx"
  \/ f.call = "tx" /\ f.from \in {"tx", "replay"}
  \/ f.call = "all" /\ f.from \in {"tx", "rx", "replay"}

Shape == [call : CallNames, timed : BOOLEAN, at : Places, from : Places, item : Item,
          run : Seq(Item), did : BOOLEAN]
Frames == {f \in Shape : /\ f.call = "clear" => f.at = "clear isr"
                         /\ kind # "router" => Stage(f)}
Stacks == [Threads -> Seq(Frames)]

\* The constant items.
LEMMA GivenItems ==
  /\ Items \subseteq Item /\ Control \in Item /\ Report \in Item /\ None \in Item
  /\ \A v \in Item, n \in Nat : [v EXCEPT !.sides = n] \in Item /\ [v EXCEPT !.sides = n].cost = v.cost
  /\ \A v \in Item : [v EXCEPT !.cost = @ + TxExtra] \in Item
  /\ \A v \in Item : Transmitted(v) \in Item /\ Requeued(v) \in Item
  <1>1. Items \subseteq Item /\ Control \in Item /\ Report \in Item /\ TxExtra \in Nat
    BY QueueBounds DEF Item
  <1>2. None \in Item
    BY DEF None, Item
  <1>3. \A v \in Item, n \in Nat : [v EXCEPT !.sides = n] \in Item /\ [v EXCEPT !.sides = n].cost = v.cost
    BY DEF Item
  <1>4. \A v \in Item : [v EXCEPT !.cost = @ + TxExtra] \in Item
    BY <1>1 DEF Item
  <1>5. \A v \in Item : Transmitted(v) \in Item /\ Requeued(v) \in Item
    <2> SUFFICES ASSUME NEW v \in Item
                 PROVE  Transmitted(v) \in Item /\ Requeued(v) \in Item
      OBVIOUS
    <2>1. [v EXCEPT !.sides = 1] \in Item
      BY <1>3
    <2>2. v.cost + TxExtra \in Nat
      BY <1>1 DEF Item
    <2>3. [v EXCEPT !.cost = v.cost + TxExtra, !.sides = 1] \in Item
      BY <2>2 DEF Item
    <2>4. [v EXCEPT !.cost = @ + TxExtra, !.sides = 1] = [v EXCEPT !.cost = v.cost + TxExtra, !.sides = 1]
      OBVIOUS
    <2> QED
      BY <2>1, <2>3, <2>4 DEF Transmitted, Requeued
  <1> QED
    BY <1>1, <1>2, <1>3, <1>4, <1>5

\* The call on top, and the others.
LEMMA TopFacts ==
  ASSUME NEW s \in Seq(Frames), s # <<>>
  PROVE  Last(s) \in Frames /\ Front(s) \in Seq(Frames)
  <1>1. Len(s) \in Nat \ {0} /\ \A i \in 1..Len(s) : s[i] \in Frames
    BY LenProperties, ElementOfSeq, EmptySeq
  <1>2. Last(s) \in Frames
    BY <1>1 DEF Last
  <1>3. 1 \in Int /\ Len(s) - 1 \in Int /\ \A i \in 1..Len(s) - 1 : s[i] \in Frames
    BY <1>1
  <1>4. SubSeq(s, 1, Len(s) - 1) \in Seq(Frames)
    <2> DEFINE n == Len(s) - 1
    <2> HIDE DEF n
    <2>1. n \in Int /\ \A i \in 1..n : s[i] \in Frames
      BY <1>3 DEF n
    <2>2. SubSeq(s, 1, n) \in Seq(Frames)
      BY <2>1, SubSeqProperties
    <2> QED
      BY <2>2 DEF n
  <1> QED
    BY <1>2, <1>4 DEF Front

\* The call on top changes.
LEMMA OnTopFacts ==
  ASSUME stack \in Stacks, NEW t \in Threads, stack[t] # <<>>, NEW f \in Frames, OnTop(t, f)
  PROVE  stack' \in Stacks
  <1>1. stack[t] \in Seq(Frames)
    BY DEF Stacks
  <1>2. Append(Front(stack[t]), f) \in Seq(Frames)
    BY <1>1, TopFacts, AppendProperties
  <1> DEFINE w == Append(Front(stack[t]), f)
  <1>3. stack' = [stack EXCEPT ![t] = w]
    BY DEF OnTop
  <1> HIDE DEF w
  <1> QED
    BY <1>2, <1>3 DEF Stacks, w

\* Changing where a call is.
LEMMA Moved ==
  ASSUME NEW f \in Frames, NEW at \in Places, f.call # "clear"
  PROVE  [f EXCEPT !.at = at] \in Frames
  <1>1. [f EXCEPT !.at = at] \in Shape
    BY DEF Frames, Shape
  <1>2. [f EXCEPT !.at = at].call = f.call /\ [f EXCEPT !.at = at].from = f.from
    BY DEF Frames, Shape
  <1> QED
    BY <1>1, <1>2 DEF Frames, Stage

\* The call on top returns.
LEMMA ReturnFacts ==
  ASSUME stack \in Stacks, NEW t \in Threads, stack[t] # <<>>, Returns(t)
  PROVE  stack' \in Stacks
  <1>1. stack[t] \in Seq(Frames)
    BY DEF Stacks
  <1> DEFINE s == Front(stack[t])
             at == IF Last(s).at = "calling" THEN "called" ELSE Last(s).at
  <1>2. s \in Seq(Frames)
    BY <1>1, TopFacts
  <1>3. stack' = [stack EXCEPT ![t] = Returned(s)]
    BY DEF Returns
  <1> HIDE DEF s
  <1>4. Returned(s) \in Seq(Frames)
    <2>1. CASE s = <<>>
      BY <1>2, <2>1 DEF Returned
    <2>2. CASE s # <<>>
      <3>1. Last(s) \in Frames /\ Front(s) \in Seq(Frames)
        BY <1>2, <2>2, TopFacts
      <3> DEFINE f == Last(s)
                 g == [f EXCEPT !.at = at]
      <3>2. Returned(s) = Append(Front(s), g)
        BY <2>2 DEF Returned
      <3>3. g \in Frames
        <4> HIDE DEF f
        <4>1. f \in Frames
          BY <3>1 DEF f
        <4>2. CASE f.at = "calling"
          <5>1. f.call # "clear" /\ at = "called" /\ at \in Places
            BY <4>1, <4>2 DEF Frames, Places, f
          <5> HIDE DEF at
          <5> QED
            BY <4>1, <5>1, Moved
        <4>3. CASE f.at # "calling"
          <5>1. at = f.at
            BY <4>3 DEF f
          <5> HIDE DEF at
          <5>2. g = f
            BY <4>1, <5>1 DEF Frames, Shape
          <5> QED
            BY <4>1, <5>2
        <4> QED
          BY <4>2, <4>3
      <3> HIDE DEF g
      <3> QED
        BY <3>1, <3>2, <3>3, AppendProperties
    <2> QED
      BY <2>1, <2>2
  <1> QED
    BY <1>3, <1>4 DEF Stacks

\* Where a Router's loop goes next.
LEMMA RouterStages ==
  ASSUME NEW f \in Frames, f.call # "clear", NEW outcome
  PROVE  RouterNext(f, outcome) \subseteq {"tx", "rx", "return"}
  <1>1. f.call \in {"tx", "rx", "all", "send", "receive", "report"} /\ f.timed \in BOOLEAN
    BY DEF Frames, Shape, CallNames
  <1>2. CASE f.call \in {"send", "receive", "report"}
    BY <1>2 DEF RouterNext
  <1>3. CASE f.call \in {"tx", "rx"}
    <2>1. RouterNext(f, outcome) = IF outcome # "none" THEN Maybe({f.call}, f.timed) ELSE {"return"}
      BY <1>3 DEF RouterNext
    <2> QED
      BY <1>3, <2>1 DEF Maybe
  <1>4. CASE f.call = "all" /\ ~f.timed
    <2>1. RouterNext(f, outcome) = IF f.from = "tx" THEN {"rx"}
                                   ELSE IF f.did \/ outcome # "none" THEN {"tx"} ELSE {"return"}
      BY <1>4 DEF RouterNext
    <2> QED
      BY <2>1
  <1>5. CASE f.call = "all" /\ f.timed
    <2>1. RouterNext(f, outcome) = IF f.from = "tx"
                                   THEN (IF outcome # "none" THEN {"tx", "rx"} ELSE {"rx"})
                                   ELSE (IF outcome # "none" THEN {"rx", "return"} ELSE {"return"})
      BY <1>5 DEF RouterNext
    <2> QED
      BY <2>1
  <1> QED
    BY <1>1, <1>2, <1>3, <1>4, <1>5

\* Where a Relay's loop goes next: to a stage of the same call.
LEMMA RelayStages ==
  ASSUME NEW f, Stage(f), NEW outcome, NEW at \in RelayNext(f, outcome), at # "return"
  PROVE  /\ at \in {"tx", "rx", "replay"}
         /\ f.call = "rx" => at = "rx"
         /\ f.call = "tx" => at \in {"tx", "replay"}
         /\ f.call \in {"rx", "tx", "all"}
  <1>1. CASE f.call = "rx" /\ f.from = "rx"
    <2>1. RelayNext(f, outcome) = IF outcome = "none" THEN {"return"} ELSE Maybe({"rx"}, f.timed)
      BY <1>1 DEF RelayNext
    <2> QED
      BY <1>1, <2>1 DEF Maybe
  <1>2. CASE f.call = "tx" /\ f.from = "replay"
    <2>1. RelayNext(f, outcome) = IF outcome = "done" THEN Maybe({"replay"}, f.timed) ELSE {"tx"}
      BY <1>2 DEF RelayNext
    <2> QED
      BY <1>2, <2>1 DEF Maybe
  <1>3. CASE f.call = "tx" /\ f.from = "tx"
    <2>1. RelayNext(f, outcome) = IF outcome = "none" THEN {"return"}
                                  ELSE Maybe({"replay"}, f.timed /\ outcome = "done")
      BY <1>3 DEF RelayNext
    <2> QED
      BY <1>3, <2>1 DEF Maybe
  <1>4. CASE f.call = "all" /\ f.from = "rx"
    <2>1. RelayNext(f, outcome) = Maybe({"replay"}, f.timed)
      BY <1>4 DEF RelayNext
    <2> QED
      BY <1>4, <2>1 DEF Maybe
  <1>5. CASE f.call = "all" /\ f.from = "replay"
    <2>1. RelayNext(f, outcome) = {"tx"}
      BY <1>5 DEF RelayNext
    <2> QED
      BY <1>5, <2>1
  <1>6. CASE f.call = "all" /\ f.from = "tx"
    <2>1. RelayNext(f, outcome) =
            Maybe(IF f.did \/ outcome = "done" THEN {"rx"} ELSE {"return"}, f.timed)
      BY <1>6 DEF RelayNext
    <2> QED
      BY <1>6, <2>1 DEF Maybe
  <1> QED
    BY <1>1, <1>2, <1>3, <1>4, <1>5, <1>6 DEF Stage

\* A stage is over.
LEMMA ProceedFacts ==
  ASSUME stack \in Stacks, NEW t \in Threads, stack[t] # <<>>, Top(t).call # "clear",
         NEW outcome, Proceeds(t, outcome)
  PROVE  stack' \in Stacks
  <1> DEFINE f == Top(t)
  <1>1. f \in Frames
    BY TopFacts DEF Stacks, Top
  <1>2. PICK at \in IF kind = "router" THEN RouterNext(f, outcome) ELSE RelayNext(f, outcome) :
          \/ at = "return" /\ Returns(t)
          \/ /\ at # "return"
             /\ OnTop(t, [f EXCEPT !.at = at, !.from = at, !.item = None,
                                   !.did = f.call = "all" /\ at # LoopHead
                                           /\ (@ \/ DidAny(outcome))])
    BY DEF Proceeds
  <1>3. CASE at = "return"
    BY <1>2, <1>3, ReturnFacts
  <1>4. CASE at # "return"
    <2> DEFINE did == f.call = "all" /\ at # LoopHead /\ (f.did \/ DidAny(outcome))
               g == [f EXCEPT !.at = at, !.from = at, !.item = None, !.did = did]
    <2>1. OnTop(t, g)
      BY <1>2, <1>4
    <2>2. f.call # "clear"
      OBVIOUS
    <2> HIDE DEF f
    <2>3. at \in {"tx", "rx", "replay"}
      BY <1>1, <1>2, <1>4, <2>2, RouterStages, RelayStages DEF Frames
    <2>4. did \in BOOLEAN
      OBVIOUS
    <2> HIDE DEF did
    <2>5. g \in Shape
      <3>1. at \in Places /\ None \in Item
        BY <2>3, GivenItems DEF Places
      <3> QED
        BY <1>1, <2>4, <3>1 DEF Frames, Shape
    <2>6. g.call = f.call /\ g.from = at
      BY <1>1 DEF Frames, Shape
    <2> HIDE DEF g
    <2>7. kind # "router" => Stage(g)
      <3> SUFFICES ASSUME kind # "router" PROVE Stage(g)
        OBVIOUS
      <3>1. Stage(f) /\ at \in RelayNext(f, outcome)
        BY <1>1, <1>2 DEF Frames
      <3>2. /\ f.call = "rx" => at = "rx"
            /\ f.call = "tx" => at \in {"tx", "replay"}
            /\ f.call \in {"rx", "tx", "all"}
        BY <1>4, <3>1, RelayStages
      <3> QED
        BY <2>3, <2>6, <3>2 DEF Stage
    <2>8. g \in Frames
      BY <2>2, <2>5, <2>6, <2>7 DEF Frames
    <2> QED
      BY <2>1, <2>8, OnTopFacts
  <1> QED
    BY <1>3, <1>4

\* After an item, the next of the packets released with it, or the next stage.
LEMMA AfterFacts ==
  ASSUME stack \in Stacks, NEW t \in Threads, stack[t] # <<>>, Top(t).call # "clear",
         NEW outcome, After(t, outcome)
  PROVE  stack' \in Stacks
  <1> DEFINE f == Top(t)
             g == [f EXCEPT !.at = "dispatch", !.item = Head(f.run), !.run = Tail(f.run)]
  <1>1. f \in Frames
    BY TopFacts DEF Stacks, Top
  <1>2. CASE f.run = <<>>
    BY <1>2, ProceedFacts DEF After
  <1>3. CASE f.run # <<>>
    <2>1. OnTop(t, g) /\ f.call # "clear"
      BY <1>3 DEF After
    <2> HIDE DEF f
    <2> DEFINE r == f.run
               h == Head(r)
               l == Tail(r)
    <2>2. r \in Seq(Item)
      BY <1>1 DEF Frames, Shape
    <2>3. h \in Item /\ l \in Seq(Item)
      BY <1>3, <2>2, HeadTailProperties
    <2> HIDE DEF h, l
    <2>4. g = [f EXCEPT !.at = "dispatch", !.item = h, !.run = l]
      BY DEF h, l
    <2> HIDE DEF g, r
    <2>5. g \in Shape /\ g.call = f.call /\ g.from = f.from
      <3>1. "dispatch" \in Places
        BY DEF Places
      <3> QED
        BY <1>1, <2>3, <2>4, <3>1 DEF Frames, Shape
    <2>6. g \in Frames
      BY <1>1, <2>1, <2>5 DEF Frames, Stage
    <2> QED
      BY <2>1, <2>6, OnTopFacts
  <1> QED
    BY <1>2, <1>3

\* A thread inside a call that is not clearing.
LEMMA AtFacts ==
  ASSUME stack \in Stacks, NEW t \in Threads, NEW places, At(t, places), "clear isr" \notin places
  PROVE  stack[t] # <<>> /\ Top(t) \in Frames /\ Top(t).call # "clear" /\ Top(t).item \in Item
  <1>1. stack[t] # <<>> /\ Top(t).at \in places
    BY DEF At
  <1>2. Top(t) \in Frames
    BY <1>1, TopFacts DEF Stacks, Top
  <1> DEFINE f == Top(t)
  <1> HIDE DEF f
  <1>3. f \in Frames /\ f.at \in places
    BY <1>1, <1>2 DEF f
  <1>4. f.call # "clear" /\ f.item \in Item
    BY <1>3 DEF Frames, Shape
  <1> QED
    BY <1>1, <1>2, <1>4 DEF f

\* Changing where a call is and the item in hand.
LEMMA Handed ==
  ASSUME NEW f \in Frames, NEW at \in Places, NEW v \in Item, f.call # "clear"
  PROVE  [f EXCEPT !.at = at, !.item = v] \in Frames
  <1> DEFINE g == [f EXCEPT !.at = at, !.item = v]
  <1>1. g \in Shape /\ g.call = f.call /\ g.from = f.from
    BY DEF Frames, Shape
  <1> HIDE DEF g
  <1>2. g \in Frames
    BY <1>1 DEF Frames, Stage
  <1> QED
    BY <1>2 DEF g

\* Changing the item in hand.
LEMMA Counted ==
  ASSUME NEW f \in Frames, NEW v \in Item, f.call # "clear"
  PROVE  [f EXCEPT !.item = v] \in Frames
  <1> DEFINE g == [f EXCEPT !.item = v]
  <1>1. g \in Shape /\ g.call = f.call /\ g.from = f.from
    BY DEF Frames, Shape
  <1> HIDE DEF g
  <1>2. g \in Frames
    BY <1>1 DEF Frames, Stage
  <1> QED
    BY <1>2 DEF g

\* One side of the item in hand is served.
LEMMA ServedFacts ==
  ASSUME NEW f \in Frames, f.call # "clear", f.item.sides > 1
  PROVE  /\ [f EXCEPT !.item.sides = @ - 1] \in Frames
         /\ [f EXCEPT !.at = "send", !.item.sides = @ - 1] \in Frames
  <1> DEFINE n == f.item.sides - 1
             v == [f.item EXCEPT !.sides = n]
  <1>1. f.item \in Item /\ f.item.sides \in Nat
    BY DEF Frames, Shape, Item
  <1>2. n \in Nat
    BY <1>1
  <1> HIDE DEF n
  <1>3. v \in Item
    BY <1>1, <1>2, GivenItems
  <1>4. "send" \in Places
    BY DEF Places
  <1>5. [f EXCEPT !.item.sides = @ - 1] = [f EXCEPT !.item = v]
    BY DEF n
  <1>6. [f EXCEPT !.at = "send", !.item.sides = @ - 1] = [f EXCEPT !.at = "send", !.item = v]
    BY DEF n, Frames, Shape
  <1> HIDE DEF v
  <1> QED
    BY <1>3, <1>4, <1>5, <1>6, Handed, Counted

\* A new call.
LEMMA FrameFacts ==
  ASSUME NEW call \in CallNames, NEW timed \in BOOLEAN, NEW at \in Places, NEW v \in Item,
         call = "clear" => at = "clear isr",
         kind = "router" \/ (call = "rx" /\ at = "rx") \/ (call = "tx" /\ at = "replay")
           \/ (call = "all" /\ at = "rx")
  PROVE  Frame(call, timed, at, v) \in Frames
  <1> DEFINE g == Frame(call, timed, at, v)
  <1>1. g \in Shape
    BY EmptySeq DEF Frame, Shape
  <1>2. g.call = call /\ g.at = at /\ g.from = at
    BY DEF Frame
  <1> HIDE DEF g
  <1>3. g \in Frames
    BY <1>1, <1>2 DEF Frames, Stage
  <1> QED
    BY <1>3 DEF g
-----------------------------------------------------------------------------
(***************************************************************************)
(* The invariant and its steps.                                            *)
(***************************************************************************)

QueuesInv ==
  /\ store \in Storage /\ WithinBudget /\ RefusesOnlyTooLarge
  /\ isr \in Seq(Item) /\ stack \in Stacks

\* What a step that keeps part of the state keeps of the invariant.
LEMMA StacksKept ==
  ASSUME UNCHANGED kind
  PROVE  Stacks' = Stacks
  BY DEF Stacks, Frames

\* A push and the record of its refusal.
LEMMA StoredFacts ==
  ASSUME QueuesInv, NEW r, NEW cost, Sound(r, cost), store' = r.store, Refusing(cost, r.why)
  PROVE  store' \in Storage /\ WithinBudget' /\ RefusesOnlyTooLarge'
  <1>1. store' \in Storage /\ WithinBudget'
    BY DEF Sound, Outcome, WithinBudget
  <1>2. \A c \in refused' : c + RecentBytes > Budget
    BY DEF QueuesInv, RefusesOnlyTooLarge, Refusing, Sound
  <1> QED
    BY <1>1, <1>2 DEF RefusesOnlyTooLarge

\* A step that changes neither the storage nor the refusals.
LEMMA StorageKept ==
  ASSUME QueuesInv, UNCHANGED <<store, refused>>
  PROVE  store' \in Storage /\ WithinBudget' /\ RefusesOnlyTooLarge'
  BY DEF QueuesInv, WithinBudget, RefusesOnlyTooLarge, Used

\* A step that takes the front of an area away.
LEMMA TakenFacts ==
  ASSUME QueuesInv, NEW a, store' = Popped(store, a), UNCHANGED refused
  PROVE  store' \in Storage /\ WithinBudget' /\ RefusesOnlyTooLarge'
  <1>1. store' \in Storage /\ Used(store') <= Used(store) /\ Used(store) <= Budget
    BY PoppedFacts DEF QueuesInv, WithinBudget
  <1>2. Used(store') \in Nat /\ Used(store) \in Nat /\ Budget \in Nat
    BY <1>1, EmptyFacts, QueueBounds DEF QueuesInv
  <1> QED
    BY <1>1, <1>2 DEF QueuesInv, WithinBudget, RefusesOnlyTooLarge

\* rx_queue, tx_queue and their like.
LEMMA HandInFacts ==
  ASSUME QueuesInv, NEW v \in Item, NEW a \in {"rx", "tx"}, HandIn(v, a)
  PROVE  QueuesInv'
  <1>1. Sound(PushTo(store, a, v), v.cost)
    BY PushFacts DEF QueuesInv, WithinBudget
  <1>2. store' = PushTo(store, a, v).store /\ Refusing(v.cost, PushTo(store, a, v).why)
    BY DEF HandIn
  <1>3. store' \in Storage /\ WithinBudget' /\ RefusesOnlyTooLarge'
    BY <1>1, <1>2, StoredFacts
  <1>4. stack' \in Stacks' /\ isr' \in Seq(Item)
    BY StacksKept DEF HandIn, QueuesInv
  <1> QED
    BY <1>3, <1>4 DEF QueuesInv

\* What a received item makes the node store.
LEMMA StoresFacts ==
  ASSUME QueuesInv, NEW t \in Threads, stack[t] # <<>>, Top(t).call # "clear",
         NEW r, NEW cost, Sound(r, cost), Stores(t, cost, r)
  PROVE  QueuesInv'
  <1>1. store' \in Storage /\ WithinBudget' /\ RefusesOnlyTooLarge'
    BY StoredFacts DEF Stores
  <1>2. stack' \in Stacks
    BY AfterFacts, ReturnFacts DEF Stores, QueuesInv
  <1>3. UNCHANGED <<kind, isr>>
    BY DEF Stores
  <1> QED
    BY <1>1, <1>2, <1>3, StacksKept DEF QueuesInv

\* A step of the stack alone.
LEMMA StackOnly ==
  ASSUME QueuesInv, stack' \in Stacks, UNCHANGED <<kind, store, isr, refused>>
  PROVE  QueuesInv'
  BY StorageKept, StacksKept DEF QueuesInv

\* The calls from the application and from callbacks.
LEMMA CallFacts ==
  ASSUME QueuesInv, NEW t \in Threads
  PROVE  /\ \A c \in Calls : Process(t, c.call, c.timed) => QueuesInv'
         /\ \A call \in {"send", "receive"}, v \in Items : Immediately(t, call, v) => QueuesInv'
         /\ \A which \in {"rx", "tx", "all"} : Clear(t, which) => QueuesInv'
         /\ ClearIsr(t) => QueuesInv'
  <1>0. stack \in Stacks /\ stack[t] \in Seq(Frames)
    BY DEF QueuesInv, Stacks
  <1>1. ASSUME NEW c \in Calls, Process(t, c.call, c.timed)
        PROVE  QueuesInv'
    <2> DEFINE g == Frame(c.call, c.timed, First(c.call), None)
    <2>1. c.call \in {"tx", "rx", "all"} /\ c.timed \in BOOLEAN
      BY QueueBounds
    <2>2. /\ c.call \in CallNames /\ c.call # "clear" /\ First(c.call) \in Places
          /\ \/ kind = "router" \/ (c.call = "rx" /\ First(c.call) = "rx")
             \/ (c.call = "tx" /\ First(c.call) = "replay")
             \/ (c.call = "all" /\ First(c.call) = "rx")
      BY <2>1 DEF CallNames, Places, First, LoopHead
    <2>3. g \in Frames
      BY <2>1, <2>2, FrameFacts, GivenItems
    <2>4. stack' = [stack EXCEPT ![t] = Append(stack[t], g)]
      BY <1>1 DEF Process
    <2> HIDE DEF g
    <2>5. Append(stack[t], g) \in Seq(Frames)
      BY <1>0, <2>3, AppendProperties
    <2>6. stack' \in Stacks
      BY <1>0, <2>4, <2>5 DEF Stacks
    <2> QED
      BY <1>1, <2>6, StackOnly DEF Process
  <1>2. ASSUME NEW call \in {"send", "receive"}, NEW v \in Items, Immediately(t, call, v)
        PROVE  QueuesInv'
    <2> DEFINE at == IF call = "send" THEN "send" ELSE "handle"
               w == IF call = "send" THEN [v EXCEPT !.cost = @ + TxExtra] ELSE v
               g == Frame(call, FALSE, at, w)
    <2>1. call \in CallNames /\ call # "clear" /\ at \in Places
      BY DEF CallNames, Places
    <2>2. w \in Item
      BY GivenItems
    <2>3. kind = "router" /\ stack' = [stack EXCEPT ![t] = <<g>>]
      BY <1>2 DEF Immediately
    <2> HIDE DEF at, w
    <2>4. g \in Frames
      BY <2>1, <2>2, <2>3, FrameFacts
    <2> HIDE DEF g
    <2>5. stack' \in Stacks
      BY <1>0, <2>3, <2>4 DEF Stacks
    <2> QED
      BY <1>2, <2>5, StackOnly DEF Immediately
  <1>3. ASSUME NEW which \in {"rx", "tx", "all"}, Clear(t, which)
        PROVE  QueuesInv'
    <2> DEFINE r == [a \in AreaNames |-> IF a \in Cleared(which) THEN <<>> ELSE store[a]]
               g == Frame("clear", FALSE, "clear isr", None)
    <2>1. store' = r
      BY <1>3 DEF Clear, QueuesInv, Storage
    <2>2. \A a \in AreaNames : store[a] \in Seq(EntryOf(a)) /\ Bytes(store[a]) \in Nat
      BY EntriesWeighed DEF QueuesInv, Storage
    <2>3. \A a \in AreaNames : r[a] \in Seq(EntryOf(a)) /\ (r[a] = <<>> \/ r[a] = store[a])
      BY <2>2, EmptySeq
    <2>4. r \in [AreaNames -> Seq(Item \cup Early \cup Route)]
      <3>1. \A a \in AreaNames : r[a] \in Seq(Item \cup Early \cup Route)
        BY <2>3, EntriesWeighed
      <3>2. r = [a \in AreaNames |-> r[a]]
        OBVIOUS
      <3> HIDE DEF r
      <3> QED
        BY <3>1, <3>2
    <2> HIDE DEF r
    <2>5. r \in Storage
      BY <2>3, <2>4 DEF Storage
    <2>6. \A a \in AreaNames : Bytes(r[a]) \in Nat /\ Bytes(r[a]) <= Bytes(store[a])
      BY <2>2, <2>3, EmptyBytes
    <2>7. Used(r) <= Used(store)
      <3>1. /\ Bytes(r.rx) \in Nat /\ Bytes(r.tx) \in Nat /\ Bytes(r.replay) \in Nat
            /\ Bytes(r.buffered) \in Nat /\ Bytes(r.routes) \in Nat
            /\ Bytes(store.rx) \in Nat /\ Bytes(store.tx) \in Nat /\ Bytes(store.replay) \in Nat
            /\ Bytes(store.buffered) \in Nat /\ Bytes(store.routes) \in Nat
            /\ RecentBytes \in Nat
        BY <2>2, <2>6, QueueBounds DEF AreaNames
      <3>2. /\ Bytes(r.rx) <= Bytes(store.rx) /\ Bytes(r.tx) <= Bytes(store.tx)
            /\ Bytes(r.replay) <= Bytes(store.replay) /\ Bytes(r.buffered) <= Bytes(store.buffered)
            /\ Bytes(r.routes) <= Bytes(store.routes)
        BY <2>6 DEF AreaNames
      <3> QED
        BY <3>1, <3>2 DEF Used
    <2>8. Used(r) \in Nat /\ Used(store) \in Nat /\ Budget \in Nat
      BY <2>5, EmptyFacts, QueueBounds DEF QueuesInv
    <2>9. store' \in Storage /\ WithinBudget' /\ RefusesOnlyTooLarge'
      <3>1. Used(store') <= Budget
        BY <2>1, <2>7, <2>8 DEF QueuesInv, WithinBudget
      <3> QED
        BY <1>3, <2>1, <2>5, <3>1 DEF Clear, QueuesInv, WithinBudget, RefusesOnlyTooLarge
    <2>10. stack' \in Stacks
      <3>1. CASE kind = "router" /\ which # "tx"
        <4>1. stack' = [stack EXCEPT ![t] = <<g>>]
          BY <1>3, <3>1 DEF Clear
        <4>2. g \in Frames
          <5>1. "clear" \in CallNames /\ "clear isr" \in Places
            BY DEF CallNames, Places
          <5> QED
            BY <3>1, <5>1, FrameFacts, GivenItems
        <4> HIDE DEF g
        <4> QED
          BY <1>0, <4>1, <4>2 DEF Stacks
      <3>2. CASE ~(kind = "router" /\ which # "tx")
        BY <1>0, <1>3, <3>2 DEF Clear
      <3> QED
        BY <3>1, <3>2
    <2> QED
      BY <1>3, <2>9, <2>10, StacksKept DEF Clear, QueuesInv
  <1>4. ASSUME ClearIsr(t)
        PROVE  QueuesInv'
    <2>1. stack' \in Stacks
      BY <1>0, <1>4, ReturnFacts DEF ClearIsr, At
    <2>2. isr' \in Seq(Item)
      BY <1>4, EmptySeq DEF ClearIsr, QueuesInv
    <2>3. UNCHANGED <<kind, store, refused>>
      BY <1>4 DEF ClearIsr
    <2> QED
      BY <2>1, <2>2, <2>3, StorageKept, StacksKept DEF QueuesInv
  <1> QED
    BY <1>1, <1>2, <1>3, <1>4

\* The receive stage.
LEMMA ReceiveFacts ==
  ASSUME QueuesInv, NEW t \in Threads
  PROVE  /\ LockIsr(t) => QueuesInv'
         /\ PopIsr(t) => QueuesInv'
         /\ PopReceived(t) => QueuesInv'
         /\ HandleFails(t) => QueuesInv'
         /\ HandleOld(t) => QueuesInv'
         /\ HandlerFails(t) => QueuesInv'
         /\ DispatchLocally(t) => QueuesInv'
  <1>0. stack \in Stacks /\ stack[t] \in Seq(Frames) /\ store \in Storage /\ Used(store) <= Budget
    BY DEF QueuesInv, Stacks, WithinBudget
  <1> DEFINE f == Top(t)
  <1>1. ASSUME LockIsr(t) PROVE QueuesInv'
    <2>1. stack[t] # <<>> /\ f \in Frames /\ f.call # "clear"
      BY <1>0, <1>1, AtFacts DEF LockIsr
    <2>2. OnTop(t, [f EXCEPT !.at = "isr"]) /\ "isr" \in Places
      BY <1>1 DEF LockIsr, Goes, Places
    <2>3. [f EXCEPT !.at = "isr"] \in Frames
      <3> HIDE DEF f
      <3> QED
        BY <2>1, <2>2, Moved
    <2>4. stack' \in Stacks
      BY <1>0, <2>1, <2>2, <2>3, OnTopFacts
    <2> QED
      BY <1>1, <2>4, StackOnly DEF LockIsr
  <1>2. ASSUME PopIsr(t) PROVE QueuesInv'
    <2>1. stack[t] # <<>> /\ f \in Frames /\ f.call # "clear"
      BY <1>0, <1>2, AtFacts DEF PopIsr
    <2>2. UNCHANGED <<kind, store, refused>>
      BY <1>2 DEF PopIsr
    <2>3. CASE isr = <<>>
      <3>1. OnTop(t, [f EXCEPT !.at = "queued"]) /\ "queued" \in Places /\ isr' = isr
        BY <1>2, <2>3 DEF PopIsr, Goes, Places
      <3>2. [f EXCEPT !.at = "queued"] \in Frames
        <4> HIDE DEF f
        <4> QED
          BY <2>1, <3>1, Moved
      <3>3. stack' \in Stacks
        BY <1>0, <2>1, <3>1, <3>2, OnTopFacts
      <3> QED
        BY <2>2, <3>1, <3>3, StorageKept, StacksKept DEF QueuesInv
    <2>4. CASE isr # <<>>
      <3> DEFINE v == Head(isr)
      <3>1. OnTop(t, [f EXCEPT !.at = "handle", !.item = v]) /\ "handle" \in Places
            /\ isr' = Tail(isr)
        BY <1>2, <2>4 DEF PopIsr, Places
      <3>2. v \in Item /\ Tail(isr) \in Seq(Item)
        BY <2>4, HeadTailProperties DEF QueuesInv
      <3> HIDE DEF v
      <3>3. [f EXCEPT !.at = "handle", !.item = v] \in Frames
        <4> HIDE DEF f
        <4> QED
          BY <2>1, <3>1, <3>2, Handed
      <3>4. stack' \in Stacks
        BY <1>0, <2>1, <3>1, <3>3, OnTopFacts
      <3> QED
        BY <2>2, <3>1, <3>2, <3>4, StorageKept, StacksKept DEF QueuesInv
    <2> QED
      BY <2>3, <2>4
  <1>3. ASSUME PopReceived(t) PROVE QueuesInv'
    <2>1. stack[t] # <<>> /\ f \in Frames /\ f.call # "clear"
      <3>1. At(t, {"queued", "rx"})
        BY <1>3 DEF PopReceived, At
      <3> QED
        BY <1>0, <3>1, AtFacts
    <2>2. UNCHANGED <<kind, isr, refused>> /\ store' = Popped(store, "rx")
      BY <1>3 DEF PopReceived
    <2>3. stack' \in Stacks
      <3>1. CASE store.rx = <<>>
        <4>1. After(t, "none")
          BY <1>3, <3>1 DEF PopReceived
        <4> QED
          BY <1>0, <2>1, <4>1, AfterFacts
      <3>2. CASE store.rx # <<>>
        <4> DEFINE q == store.rx
                   v == Head(q)
        <4>1. OnTop(t, [f EXCEPT !.at = "handle", !.item = v]) /\ "handle" \in Places
          BY <1>3, <3>2 DEF PopReceived, Places
        <4>2. q \in Seq(Item)
          BY <1>0 DEF Storage, AreaNames, EntryOf
        <4>3. v \in Item
          BY <3>2, <4>2, HeadTailProperties
        <4> HIDE DEF v
        <4>4. [f EXCEPT !.at = "handle", !.item = v] \in Frames
          <5> HIDE DEF f
          <5> QED
            BY <2>1, <4>1, <4>3, Handed
        <4> QED
          BY <1>0, <2>1, <4>1, <4>4, OnTopFacts
      <3> QED
        BY <3>1, <3>2
    <2> QED
      BY <2>2, <2>3, TakenFacts, StacksKept DEF QueuesInv
  <1>4. ASSUME HandleFails(t) PROVE QueuesInv'
    <2>1. stack' \in Stacks
      BY <1>0, <1>4, ReturnFacts DEF HandleFails, At
    <2> QED
      BY <1>4, <2>1, StackOnly DEF HandleFails
  <1>5. ASSUME HandleOld(t) PROVE QueuesInv'
    <2>1. stack[t] # <<>> /\ f.call # "clear"
      BY <1>0, <1>5, AtFacts DEF HandleOld
    <2>2. Sound(PushTo(store, "tx", Control), Control.cost)
      BY <1>0, PushFacts, GivenItems
    <2> QED
      BY <1>5, <2>1, <2>2, StoresFacts DEF HandleOld
  <1>6. ASSUME HandlerFails(t) PROVE QueuesInv'
    <2>1. stack[t] # <<>> /\ f \in Frames /\ f.call # "clear"
      BY <1>0, <1>6, AtFacts DEF HandlerFails
    <2> DEFINE l == Front(stack[t])
               g == [f EXCEPT !.at = "reported"]
               h == Frame("report", FALSE, "send", Report)
    <2>2. stack' = [stack EXCEPT ![t] = Append(Append(l, g), h)] /\ kind = "router"
      BY <1>6 DEF HandlerFails, Top
    <2>3. l \in Seq(Frames)
      BY <1>0, <2>1, TopFacts
    <2>4. "reported" \in Places /\ "report" \in CallNames /\ "send" \in Places
      BY DEF Places, CallNames
    <2>5. g \in Frames
      <3> HIDE DEF f
      <3> QED
        BY <2>1, <2>4, Moved
    <2>6. h \in Frames
      BY <2>2, <2>4, FrameFacts, GivenItems
    <2> HIDE DEF l, g, h
    <2>7. Append(Append(l, g), h) \in Seq(Frames)
      BY <2>3, <2>5, <2>6, AppendProperties
    <2>8. stack' \in Stacks
      BY <1>0, <2>2, <2>7 DEF Stacks
    <2> QED
      BY <1>6, <2>8, StackOnly DEF HandlerFails
  <1>7. ASSUME DispatchLocally(t) PROVE QueuesInv'
    <2>1. stack[t] # <<>> /\ f.call # "clear"
      BY <1>0, <1>7, AtFacts DEF DispatchLocally, Dispatching
    <2>2. stack' \in Stacks
      BY <1>0, <1>7, <2>1, AfterFacts DEF DispatchLocally
    <2> QED
      BY <1>7, <2>2, StackOnly DEF DispatchLocally
  <1> QED
    BY <1>1, <1>2, <1>3, <1>4, <1>5, <1>6, <1>7

\* The received items that make the node store something.
LEMMA DispatchFacts ==
  ASSUME QueuesInv, NEW t \in Threads
  PROVE  /\ \A i \in Streams, n \in Seqs : HandleEarly(t, i, n) => QueuesInv'
         /\ \A i \in Streams, k \in 0..MaxBuffered : HandleExpected(t, i, k) => QueuesInv'
         /\ \A n \in FanOuts : /\ DispatchForwards(t, n) => QueuesInv'
                               /\ DispatchSends(t, n) => QueuesInv'
         /\ \A s \in RouteSides, c \in RouteCosts : DispatchLearns(t, s, c) => QueuesInv'
  <1>0. stack \in Stacks /\ stack[t] \in Seq(Frames) /\ store \in Storage /\ Used(store) <= Budget
    BY DEF QueuesInv, Stacks, WithinBudget
  <1> DEFINE f == Top(t)
  <1>1. ASSUME NEW i \in Streams, NEW n \in Seqs, HandleEarly(t, i, n)
        PROVE  QueuesInv'
    <2> DEFINE v == f.item
               e == [stream |-> i, seq |-> n, cost |-> v.cost, prio |-> v.prio]
               r == BufferReliableRx(store, e)
               p == PushAll(r.store, "tx", Control, 2)
    <2>1. stack[t] # <<>> /\ f.call # "clear" /\ v \in Item
      BY <1>0, <1>1, AtFacts DEF HandleEarly
    <2>2. Stores(t, IF r.why = "ok" THEN Control.cost ELSE v.cost, IF r.why = "ok" THEN p ELSE r)
      BY <1>1 DEF HandleEarly
    <2> HIDE DEF v
    <2>3. e \in Early /\ e.cost = v.cost
      BY <2>1 DEF Early, Item
    <2> HIDE DEF e
    <2>4. Sound(r, v.cost)
      BY <1>0, <2>3, BufferFacts
    <2> HIDE DEF r
    <2>5. CASE r.why = "ok"
      <3>1. r.store \in Storage /\ Used(r.store) <= Budget
        BY <2>4 DEF Sound, Outcome
      <3>2. Sound(p, Control.cost)
        BY <3>1, PushAllFacts, GivenItems
      <3>3. Stores(t, Control.cost, p)
        BY <2>2, <2>5
      <3> HIDE DEF p
      <3> QED
        BY <2>1, <3>2, <3>3, StoresFacts
    <2>6. CASE r.why # "ok"
      <3>1. Stores(t, v.cost, r)
        BY <2>2, <2>6
      <3> QED
        BY <2>1, <2>4, <3>1, StoresFacts
    <2> QED
      BY <2>5, <2>6
  <1>2. ASSUME NEW i \in Streams, NEW k \in 0..MaxBuffered, HandleExpected(t, i, k)
        PROVE  QueuesInv'
    <2> DEFINE b == store.buffered
               first == Cardinality({j \in 1..Len(b) : b[j].stream < i})
               run == SubSeq(b, first + 1, first + k)
               s == [store EXCEPT !["buffered"] = SubSeq(b, 1, first) \o SubSeq(b, first + k + 1, Len(b))]
               r == PushTo(s, "tx", Control)
               w == [j \in 1..k |-> [cost |-> run[j].cost, prio |-> run[j].prio, sides |-> 1]]
               g == [f EXCEPT !.at = "dispatch", !.run = w]
    <2>1. stack[t] # <<>> /\ f \in Frames /\ f.call # "clear"
      BY <1>0, <1>2, AtFacts DEF HandleExpected
    <2>2. /\ first + k <= Len(b) /\ store' = r.store /\ Refusing(Control.cost, r.why)
          /\ IF r.why # "ok" THEN Returns(t) ELSE OnTop(t, g)
          /\ UNCHANGED <<kind, isr>>
      BY <1>2 DEF HandleExpected
    <2>3. first \in Nat /\ k \in Nat
      <3>1. Len(b) \in Nat
        BY <1>0, LenProperties DEF Storage, AreaNames
      <3>2. first \in 0..Len(b)
        BY <3>1, CountBounded
      <3> HIDE DEF first
      <3> QED
        BY <3>1, <3>2, QueueBounds
    <2> HIDE DEF first
    <2>4. s \in Storage /\ Used(s) <= Budget /\ \A j \in 1..k : run[j] \in Early
      BY <1>0, <2>2, <2>3, ReleaseFacts
    <2> HIDE DEF s
    <2>5. Sound(r, Control.cost)
      BY <2>4, PushFacts, GivenItems
    <2> HIDE DEF r
    <2>6. store' \in Storage /\ WithinBudget' /\ RefusesOnlyTooLarge'
      BY <2>2, <2>5, StoredFacts
    <2> HIDE DEF run
    <2>7. w \in Seq(Item)
      <3>1. \A j \in 1..k : [cost |-> run[j].cost, prio |-> run[j].prio, sides |-> 1] \in Item
        BY <2>4 DEF Early, Item
      <3> QED
        BY <2>3, <3>1, IsASeq
    <2> HIDE DEF w
    <2>8. g \in Frames
      <3> HIDE DEF f
      <3>1. "dispatch" \in Places
        BY DEF Places
      <3>2. g \in Shape /\ g.call = f.call /\ g.from = f.from
        BY <2>1, <2>7, <3>1 DEF Frames, Shape
      <3> HIDE DEF g
      <3> QED
        BY <2>1, <3>2 DEF Frames, Stage
    <2> HIDE DEF g
    <2>9. stack' \in Stacks
      BY <1>0, <2>1, <2>2, <2>8, ReturnFacts, OnTopFacts
    <2> QED
      BY <2>2, <2>6, <2>9, StacksKept DEF QueuesInv
  <1>3. ASSUME NEW n \in FanOuts, DispatchForwards(t, n)
        PROVE  QueuesInv'
    <2> DEFINE v == Transmitted(f.item)
    <2>1. stack[t] # <<>> /\ f.call # "clear" /\ f.item \in Item
      BY <1>0, <1>3, AtFacts DEF DispatchForwards, Dispatching
    <2>2. v \in Item /\ n \in Nat
      BY <2>1, GivenItems, QueueBounds
    <2>3. Stores(t, v.cost, PushAll(store, "tx", v, n))
      BY <1>3 DEF DispatchForwards
    <2> HIDE DEF v
    <2>4. Sound(PushAll(store, "tx", v, n), v.cost)
      BY <1>0, <2>2, PushAllFacts
    <2> QED
      BY <2>1, <2>3, <2>4, StoresFacts
  <1>4. ASSUME NEW n \in FanOuts, DispatchSends(t, n)
        PROVE  QueuesInv'
    <2> DEFINE v == [Transmitted(f.item) EXCEPT !.sides = n]
    <2>1. stack[t] # <<>> /\ f \in Frames /\ f.call # "clear" /\ f.item \in Item
      BY <1>0, <1>4, AtFacts DEF DispatchSends, Dispatching
    <2>2. v \in Item
      <3>1. Transmitted(f.item) \in Item /\ n \in Nat
        BY <2>1, GivenItems, QueueBounds
      <3> QED
        BY <3>1, GivenItems
    <2>3. OnTop(t, [f EXCEPT !.at = "send", !.item = v]) /\ "send" \in Places
      BY <1>4 DEF DispatchSends, Places
    <2> HIDE DEF v
    <2>4. [f EXCEPT !.at = "send", !.item = v] \in Frames
      <3> HIDE DEF f
      <3> QED
        BY <2>1, <2>2, <2>3, Handed
    <2>5. stack' \in Stacks
      BY <1>0, <2>1, <2>3, <2>4, OnTopFacts
    <2> QED
      BY <1>4, <2>5, StackOnly DEF DispatchSends
  <1>5. ASSUME NEW s \in RouteSides, NEW c \in RouteCosts, DispatchLearns(t, s, c)
        PROVE  QueuesInv'
    <2> DEFINE r == LearnRoute(store, s, c)
    <2>1. stack[t] # <<>> /\ f.call # "clear"
      BY <1>0, <1>5, AtFacts DEF DispatchLearns, Dispatching
    <2>2. r \in Storage /\ Used(r) <= Budget
      BY <1>0, LearnFacts, QueueBounds
    <2>3. Stores(t, 0, Result(r, "ok"))
      BY <1>5 DEF DispatchLearns
    <2> HIDE DEF r
    <2>4. Sound(Result(r, "ok"), 0)
      BY <2>2, Answer
    <2> QED
      BY <2>1, <2>3, <2>4, StoresFacts
  <1> QED
    BY <1>1, <1>2, <1>3, <1>4, <1>5

\* The send stages.
LEMMA SendFacts ==
  ASSUME QueuesInv, NEW t \in Threads
  PROVE  /\ \A v \in Items : Timeout(t, v) => QueuesInv'
         /\ \A a \in {"replay", "tx"} : Take(t, a) => QueuesInv'
         /\ Skip(t) => QueuesInv'
         /\ LocalFails(t) => QueuesInv'
         /\ Enter(t) => QueuesInv'
         /\ RouterBusy(t) => QueuesInv'
         /\ Requeue(t) => QueuesInv'
         /\ RelayBusy(t) => QueuesInv'
         /\ \A ok \in BOOLEAN : Leave(t, ok) => QueuesInv'
  <1>0. stack \in Stacks /\ stack[t] \in Seq(Frames) /\ store \in Storage /\ Used(store) <= Budget
    BY DEF QueuesInv, Stacks, WithinBudget
  <1> DEFINE f == Top(t)
  <1>1. ASSUME NEW v \in Items, Timeout(t, v)
        PROVE  QueuesInv'
    <2> DEFINE w == IF kind = "router" THEN Transmitted(v) ELSE Requeued(v)
               a == ReplayArea
               r == PushTo(store, a, w)
    <2>1. w \in Item /\ a \in {"rx", "tx", "replay"}
      BY GivenItems DEF ReplayArea
    <2>2. /\ stack[t] # <<>> /\ store' = r.store /\ Refusing(w.cost, r.why)
          /\ IF r.why = "ok" THEN UNCHANGED stack ELSE Returns(t)
          /\ UNCHANGED <<kind, isr>>
      BY <1>1 DEF Timeout, Idle
    <2> HIDE DEF w, a
    <2>3. Sound(r, w.cost)
      BY <1>0, <2>1, PushFacts
    <2> HIDE DEF r
    <2>4. store' \in Storage /\ WithinBudget' /\ RefusesOnlyTooLarge'
      BY <2>2, <2>3, StoredFacts
    <2>5. stack' \in Stacks
      BY <1>0, <2>2, ReturnFacts
    <2> QED
      BY <2>2, <2>4, <2>5, StacksKept DEF QueuesInv
  <1>2. ASSUME NEW a \in {"replay", "tx"}, Take(t, a)
        PROVE  QueuesInv'
    <2>1. stack[t] # <<>> /\ f \in Frames /\ f.call # "clear"
      <3>1. At(t, {a}) /\ "clear isr" \notin {a}
        BY <1>2 DEF Take
      <3> QED
        BY <1>0, <3>1, AtFacts
    <2>2. UNCHANGED <<kind, isr, refused>> /\ store' = Popped(store, a)
      BY <1>2 DEF Take
    <2>3. stack' \in Stacks
      <3>1. CASE After(t, "none")
        BY <1>0, <2>1, <3>1, AfterFacts
      <3>2. CASE store[a] # <<>> /\ OnTop(t, [f EXCEPT !.at = "send", !.item = Head(store[a])])
        <4> DEFINE q == store[a]
                   v == Head(q)
        <4>1. q \in Seq(Item) /\ "send" \in Places
          BY <1>0 DEF Storage, AreaNames, EntryOf, Places
        <4>2. v \in Item
          BY <3>2, <4>1, HeadTailProperties
        <4> HIDE DEF v
        <4>3. [f EXCEPT !.at = "send", !.item = v] \in Frames
          <5> HIDE DEF f
          <5> QED
            BY <2>1, <4>1, <4>2, Handed
        <4>4. OnTop(t, [f EXCEPT !.at = "send", !.item = v])
          BY <3>2 DEF v
        <4> QED
          BY <1>0, <2>1, <4>3, <4>4, OnTopFacts
      <3> QED
        BY <1>2, <3>1, <3>2 DEF Take
    <2> QED
      BY <2>2, <2>3, TakenFacts, StacksKept DEF QueuesInv
  <1>3. ASSUME Skip(t) PROVE QueuesInv'
    <2>1. stack[t] # <<>> /\ f.call # "clear"
      BY <1>0, <1>3, AtFacts DEF Skip
    <2>2. stack' \in Stacks
      BY <1>0, <1>3, <2>1, AfterFacts DEF Skip
    <2> QED
      BY <1>3, <2>2, StackOnly DEF Skip
  <1>4. ASSUME Fails(t), stack[t] # <<>>, f \in Frames, f.call # "clear"
        PROVE  stack' \in Stacks
    <2> DEFINE g == [f EXCEPT !.call = "report", !.at = "send", !.item = Report, !.run = <<>>]
    <2>1. CASE Returns(t)
      BY <1>0, <1>4, <2>1, ReturnFacts
    <2>2. CASE kind = "router" /\ OnTop(t, g)
      <3>1. g \in Frames
        <4> HIDE DEF f
        <4>1. "report" \in CallNames /\ "send" \in Places /\ Report \in Item /\ <<>> \in Seq(Item)
          BY GivenItems, EmptySeq DEF CallNames, Places
        <4>2. g \in Shape /\ g.call = "report"
          BY <1>4, <4>1 DEF Frames, Shape
        <4> HIDE DEF g
        <4> QED
          BY <2>2, <4>2 DEF Frames
      <3> HIDE DEF g
      <3> QED
        BY <1>0, <1>4, <2>2, <3>1, OnTopFacts
    <2> QED
      BY <1>4, <2>1, <2>2 DEF Fails
  <1>5. ASSUME LocalFails(t) PROVE QueuesInv'
    <2>1. stack[t] # <<>> /\ f \in Frames /\ f.call # "clear"
      BY <1>0, <1>5, AtFacts DEF LocalFails
    <2>2. stack' \in Stacks
      BY <1>4, <1>5, <2>1 DEF LocalFails
    <2> QED
      BY <1>5, <2>2, StackOnly DEF LocalFails
  <1>6. ASSUME Enter(t) PROVE QueuesInv'
    <2>1. stack[t] # <<>> /\ f \in Frames /\ f.call # "clear"
      BY <1>0, <1>6, AtFacts DEF Enter
    <2>2. OnTop(t, [f EXCEPT !.at = "calling"]) /\ "calling" \in Places
      BY <1>6 DEF Enter, Goes, Places
    <2>3. [f EXCEPT !.at = "calling"] \in Frames
      <3> HIDE DEF f
      <3> QED
        BY <2>1, <2>2, Moved
    <2>4. stack' \in Stacks
      BY <1>0, <2>1, <2>2, <2>3, OnTopFacts
    <2> QED
      BY <1>6, <2>4, StackOnly DEF Enter
  <1>7. ASSUME RouterBusy(t) PROVE QueuesInv'
    <2>1. stack[t] # <<>> /\ f \in Frames /\ f.call # "clear"
      BY <1>0, <1>7, AtFacts DEF RouterBusy
    <2>2. OnTop(t, [f EXCEPT !.at = "requeue"]) /\ "requeue" \in Places
      BY <1>7 DEF RouterBusy, Goes, Places
    <2>3. [f EXCEPT !.at = "requeue"] \in Frames
      <3> HIDE DEF f
      <3> QED
        BY <2>1, <2>2, Moved
    <2>4. stack' \in Stacks
      BY <1>0, <2>1, <2>2, <2>3, OnTopFacts
    <2> QED
      BY <1>7, <2>4, StackOnly DEF RouterBusy
  <1>8. ASSUME Requeue(t) PROVE QueuesInv'
    <2> DEFINE v == Requeued(f.item)
               r == PushTo(store, "tx", v)
               g == [f EXCEPT !.item.sides = @ - 1]
    <2>1. stack[t] # <<>> /\ f \in Frames /\ f.call # "clear" /\ f.item \in Item
      BY <1>0, <1>8, AtFacts DEF Requeue
    <2>2. /\ store' = r.store /\ Refusing(v.cost, r.why)
          /\ IF r.why # "ok" THEN Returns(t)
             ELSE IF f.item.sides > 1 THEN OnTop(t, g) ELSE After(t, "done")
          /\ UNCHANGED <<kind, isr>>
      BY <1>8 DEF Requeue
    <2>3. v \in Item
      BY <2>1, GivenItems
    <2> HIDE DEF v
    <2>4. Sound(r, v.cost)
      BY <1>0, <2>3, PushFacts
    <2> HIDE DEF r
    <2>5. store' \in Storage /\ WithinBudget' /\ RefusesOnlyTooLarge'
      BY <2>2, <2>4, StoredFacts
    <2>6. f.item.sides > 1 => g \in Frames
      <3> HIDE DEF f
      <3> QED
        BY <2>1, ServedFacts
    <2> HIDE DEF g
    <2>7. stack' \in Stacks
      BY <1>0, <2>1, <2>2, <2>6, ReturnFacts, OnTopFacts, AfterFacts
    <2> QED
      BY <2>2, <2>5, <2>7, StacksKept DEF QueuesInv
  <1>9. ASSUME RelayBusy(t) PROVE QueuesInv'
    <2> DEFINE r == IF f.from = "tx" /\ f.call = "all" THEN Result(store, "ok")
                    ELSE PushTo(store, f.from, f.item)
    <2>1. stack[t] # <<>> /\ f \in Frames /\ f.call # "clear" /\ f.item \in Item
      BY <1>0, <1>9, AtFacts DEF RelayBusy
    <2>2. /\ store' = r.store /\ Refusing(f.item.cost, r.why) /\ kind = "relay"
          /\ IF f.from = "replay" /\ r.why = "ok" THEN After(t, "none") ELSE Returns(t)
          /\ UNCHANGED <<kind, isr>>
      BY <1>9 DEF RelayBusy
    <2>3. Sound(r, f.item.cost)
      <3> DEFINE v == f.item
                 from == f.from
      <3> HIDE DEF f
      <3>1. v \in Item /\ from \in {"rx", "tx", "replay"}
        BY <2>1, <2>2 DEF Frames, Stage
      <3> HIDE DEF v, from
      <3>2. Sound(PushTo(store, from, v), v.cost) /\ Sound(Result(store, "ok"), v.cost)
        BY <1>0, <3>1, PushFacts, Answer
      <3> QED
        BY <3>2 DEF v, from
    <2> HIDE DEF r
    <2>4. store' \in Storage /\ WithinBudget' /\ RefusesOnlyTooLarge'
      BY <2>2, <2>3, StoredFacts
    <2>5. stack' \in Stacks
      BY <1>0, <2>1, <2>2, ReturnFacts, AfterFacts
    <2> QED
      BY <2>2, <2>4, <2>5, StacksKept DEF QueuesInv
  <1>10. ASSUME NEW ok \in BOOLEAN, Leave(t, ok)
         PROVE  QueuesInv'
    <2> DEFINE g == [f EXCEPT !.at = "send", !.item.sides = @ - 1]
    <2>1. stack[t] # <<>> /\ f \in Frames /\ f.call # "clear"
      BY <1>0, <1>10, AtFacts DEF Leave
    <2>2. \/ Fails(t)
          \/ f.item.sides > 1 /\ OnTop(t, g)
          \/ After(t, "done")
      BY <1>10 DEF Leave
    <2>3. f.item.sides > 1 => g \in Frames
      <3> HIDE DEF f
      <3> QED
        BY <2>1, ServedFacts
    <2> HIDE DEF g
    <2>4. stack' \in Stacks
      BY <1>0, <1>4, <2>1, <2>2, <2>3, OnTopFacts, AfterFacts
    <2> QED
      BY <1>10, <2>4, StackOnly DEF Leave
  <1> QED
    BY <1>1, <1>2, <1>3, <1>5, <1>6, <1>7, <1>8, <1>9, <1>10

\* The interrupt and the routes that age out.
LEMMA OutsideFacts ==
  ASSUME QueuesInv
  PROVE  /\ \A v \in Items : /\ RxQueue(v) => QueuesInv'
                             /\ TxQueue(v) => QueuesInv'
                             /\ RxQueueIsr(v) => QueuesInv'
         /\ \A i \in 1..Len(store.routes) : LoseRoute(i) => QueuesInv'
  <1>1. ASSUME NEW v \in Items PROVE RxQueue(v) => QueuesInv'
    BY HandInFacts, GivenItems DEF RxQueue
  <1>2. ASSUME NEW v \in Items PROVE TxQueue(v) => QueuesInv'
    <2> DEFINE w == IF kind = "router" THEN [v EXCEPT !.cost = @ + TxExtra] ELSE Requeued(v)
    <2>1. w \in Item /\ (TxQueue(v) => HandIn(w, "tx"))
      BY GivenItems DEF TxQueue
    <2> HIDE DEF w
    <2> QED
      BY <2>1, HandInFacts
  <1>3. ASSUME NEW v \in Items, RxQueueIsr(v) PROVE QueuesInv'
    <2> DEFINE w == [v EXCEPT !.sides = 1]
    <2>1. w \in Item
      BY GivenItems
    <2>2. isr' = Prioritized(isr, w) /\ UNCHANGED <<kind, store, stack, refused>>
      BY <1>3 DEF RxQueueIsr
    <2> HIDE DEF w
    <2>3. isr' \in Seq(Item)
      BY <2>1, <2>2, PrioritizedFacts DEF QueuesInv
    <2> QED
      BY <2>2, <2>3, StorageKept, StacksKept DEF QueuesInv
  <1>4. ASSUME NEW i \in 1..Len(store.routes), LoseRoute(i) PROVE QueuesInv'
    <2> DEFINE b == store["routes"]
               q == RemoveAt(b, i)
               r == [store EXCEPT !["routes"] = q]
    <2>1. store' = r /\ UNCHANGED <<kind, isr, stack, refused>>
      BY <1>4 DEF LoseRoute
    <2>2. "routes" \in AreaNames /\ store \in Storage /\ b = store.routes
      BY DEF AreaNames, QueuesInv
    <2>3. b \in Seq(EntryOf("routes")) /\ Weighed(b) /\ i \in 1..Len(b)
      BY <2>2, EntriesWeighed DEF Storage
    <2>4. q \in Seq(EntryOf("routes")) /\ Bytes(q) <= Bytes(b)
      BY <2>3, RemoveFacts
    <2> HIDE DEF q
    <2>5. /\ r \in Storage /\ Used(r) = Used(store) - Bytes(b) + Bytes(q)
          /\ Used(store) \in Nat /\ Bytes(b) \in Nat /\ Bytes(q) \in Nat
      BY <2>2, <2>4, WithArea
    <2> HIDE DEF r, b
    <2>6. Used(r) <= Budget
      BY <2>4, <2>5, QueueBounds DEF QueuesInv, WithinBudget
    <2> QED
      BY <2>1, <2>5, <2>6, StacksKept DEF QueuesInv, WithinBudget, RefusesOnlyTooLarge
  <1> QED
    BY <1>1, <1>2, <1>3, <1>4

\* Every step keeps the invariant.
LEMMA QueuesStep ==
  ASSUME QueuesInv, [Next]_vars
  PROVE  QueuesInv'
  <1>1. CASE UNCHANGED vars
    BY <1>1, StackOnly DEF vars, QueuesInv
  <1>2. ASSUME NEW t \in Threads, Step(t)
        PROVE  QueuesInv'
    BY <1>2, ReceiveFacts, DispatchFacts, SendFacts, CallFacts DEF Step
  <1>3. CASE Next
    BY <1>2, <1>3, OutsideFacts, CallFacts DEF Next
  <1> QED
    BY <1>1, <1>3

\* The invariant at the start: nothing is stored.
LEMMA QueuesInit ==
  ASSUME Init
  PROVE  QueuesInv
  <1> DEFINE s == [a \in AreaNames |-> <<>>]
  <1>1. store = s /\ isr = <<>> /\ stack = [t \in Threads |-> <<>>] /\ refused = {}
    BY DEF Init
  <1>2. s \in Storage /\ \A a \in AreaNames : s[a] = <<>>
    BY EmptySeq DEF Storage
  <1> HIDE DEF s
  <1>3. Used(s) = RecentBytes
    BY <1>2, EmptyFacts
  <1>4. WithinBudget
    BY <1>1, <1>3, QueueBounds DEF WithinBudget
  <1> QED
    BY <1>1, <1>2, <1>4, EmptySeq DEF QueuesInv, Stacks, RefusesOnlyTooLarge

\* The invariant of the node's storage and of the calls that use it.
THEOREM QueuesInvariant == Spec => []QueuesInv
  <1>1. Init => QueuesInv
    BY QueuesInit
  <1>2. QueuesInv /\ [Next]_vars => QueuesInv'
    BY QueuesStep
  <1> QED
    BY <1>1, <1>2, PTL DEF Spec

\* MAX_QUEUE_BUDGET: whatever threads, callbacks and the interrupt push, forward,
\* buffer and learn, in any order, the areas that share the budget never take more
\* than it between them (make_shared_queue_room, fit_discovery_budget).
THEOREM BudgetHolds == Spec => []WithinBudget
  <1>1. QueuesInv => WithinBudget
    BY DEF QueuesInv
  <1> QED
    BY <1>1, QueuesInvariant, PTL

\* make_shared_queue_room refuses an item for its size only when it would not fit
\* beside the recent-id cache alone: its loop never stops with something left to evict.
THEOREM RefusalJustified == Spec => []RefusesOnlyTooLarge
  <1>1. QueuesInv => RefusesOnlyTooLarge
    BY DEF QueuesInv
  <1> QED
    BY <1>1, QueuesInvariant, PTL
=============================================================================
