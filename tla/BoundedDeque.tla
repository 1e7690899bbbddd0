---------------------------- MODULE BoundedDeque ----------------------------
(***************************************************************************)
(* BoundedDeque<T> (src/src/queue.rs), the queue behind the RX, TX, replay *)
(* and recent-id queues of Router and Relay: a ring with a byte budget and *)
(* an element cap that evicts to make room.  recent_rx is used with        *)
(* push_back, every other queue with push_back_prioritized.                *)
(*                                                                         *)
(* A definition directly above another one, with the same parameters, and  *)
(* used nowhere is a faulty form of it that a property below detects.      *)
(***************************************************************************)
EXTENDS ByteCost, SequencesExt

CONSTANTS
  Items,        \* records with fields cost (byte_cost) and prio (priority_of)
  MaxBytes,     \* max_bytes
  MaxElems,     \* max_elems: max_bytes over the size of an item
  StartCap,     \* the capacity `new' asks for
  GrowNum, GrowDen, \* growth of the capacity, float_to_ratio of QUEUE_GROW_STEP
  Slack         \* bound: elements the allocator may grant beyond the request

ASSUME ItemsCosted == \A v \in Items : v.cost \in Nat /\ v.prio \in Nat
ASSUME DequeBounds ==
  /\ MaxBytes \in Nat \ {0} /\ MaxElems \in Nat \ {0} /\ Slack \in Nat
  /\ StartCap \in 1..MaxElems
  /\ GrowDen \in Nat \ {0} /\ GrowNum \in Nat /\ GrowNum > GrowDen

VARIABLES
  dq,          \* the struct: q, cur_bytes and the capacity of q
  result,      \* what the last call returned
  prioritized  \* the owner uses push_back_prioritized (otherwise push_back)

vars == <<dq, result, prioritized>>

Deque(q, cur_bytes, cap) == [q |-> q, cur_bytes |-> cur_bytes, cap |-> cap]

\* usize::saturating_sub
Monus(a, b) == IF a >= b THEN a - b ELSE 0

Init ==
  /\ \E c \in StartCap..StartCap + Slack : dq = Deque(<<>>, 0, c)
  /\ result = "ok" /\ prioritized \in BOOLEAN

-----------------------------------------------------------------------------
(***************************************************************************)
(* What the loops and helpers do to the struct.                            *)
(***************************************************************************)

\* k calls of pop_front, k calls of pop_back; none is made on an empty queue.
DropFrontUncounted(d, k) == Deque(SubSeq(d.q, k + 1, Len(d.q)), d.cur_bytes, d.cap)
DropFront(d, k) ==
  Deque(SubSeq(d.q, k + 1, Len(d.q)),
        Monus(d.cur_bytes, Bytes(SubSeq(d.q, 1, k))), d.cap)

DropBack(d, k) ==
  Deque(SubSeq(d.q, 1, Len(d.q) - k),
        Monus(d.cur_bytes, Bytes(SubSeq(d.q, Len(d.q) - k + 1, Len(d.q)))), d.cap)

Overflows(d, v) == d.q # <<>> /\ d.cur_bytes + v.cost > MaxBytes
FullOneEarly(d) == Len(d.q) >= MaxElems - 1
Full(d) == Len(d.q) >= MaxElems

\* The new item yields to the last one, which has a higher priority.
YieldsNever(d, v) == FALSE
YieldsToEqual(d, v) == Last(d.q).prio >= v.prio
Yields(d, v) == Last(d.q).prio > v.prio

\* prepare_push_fifo's loop pops the front k times, until the item fits.
EvictsFront(d, v, k) ==
  /\ ~Overflows(DropFront(d, k), v)
  /\ \A j \in 0..k - 1 : Overflows(DropFront(d, j), v)

\* push_back_prioritized's loop pops the back k times, until the item fits or yields.
EvictsBack(d, v, k) ==
  /\ Overflows(DropBack(d, k), v) => Yields(DropBack(d, k), v)
  /\ \A j \in 0..k - 1 : Overflows(DropBack(d, j), v) /\ ~Yields(DropBack(d, j), v)

\* ensure_room_for_one: grow, or evict from the front when growth is used up.
Grown(cap) ==
  LET scaled == (cap * GrowNum + GrowDen - 1) \div GrowDen
      more == IF scaled > cap + 1 THEN scaled ELSE cap + 1
  IN  IF more < MaxElems THEN more ELSE MaxElems

Rooms(d) ==
  IF Len(d.q) < d.cap THEN {d}
  ELSE IF Full(d) \/ d.cap >= MaxElems THEN {DropFront(d, 1)}
  ELSE {Deque(d.q, d.cur_bytes, c) : c \in Grown(d.cap)..Grown(d.cap) + Slack}

\* position() of the first item of lower priority; the end when there is none.
AtTheEnd(s, v, at) == at = Len(s) + 1
BeforeEqual(s, v, at) ==
  /\ \A i \in 1..at - 1 : s[i].prio > v.prio
  /\ at <= Len(s) => s[at].prio <= v.prio
BeforeLower(s, v, at) ==
  /\ \A i \in 1..at - 1 : s[i].prio >= v.prio
  /\ at <= Len(s) => s[at].prio < v.prio

-----------------------------------------------------------------------------
(***************************************************************************)
(* The calls.                                                              *)
(***************************************************************************)

\* The call returns an error; `d' is what its loop has left.
Rejected(d, why) == dq' = d /\ result' = why

PushBack(v) ==
  /\ ~prioritized
  /\ \/ v.cost > MaxBytes /\ Rejected(dq, "too large")
     \/ /\ v.cost <= MaxBytes
        /\ \E k \in 0..Len(dq.q) :
             LET e == DropFront(dq, k)
             IN  /\ EvictsFront(dq, v, k)
                 /\ \E r \in Rooms(IF Full(e) THEN DropFront(e, 1) ELSE e) :
                      dq' = Deque(Append(r.q, v), r.cur_bytes + v.cost, r.cap)
        /\ result' = "ok"

\* The end of push_back_prioritized, once enough has been evicted.
Insert(d, v) ==
  /\ \E r \in Rooms(d) : \E at \in 1..Len(r.q) + 1 :
       /\ BeforeLower(r.q, v, at)
       /\ dq' = Deque(InsertAt(r.q, at, v), r.cur_bytes + v.cost, r.cap)
  /\ result' = "ok"

PushBackPrioritized(v) ==
  /\ prioritized
  /\ \/ v.cost > MaxBytes /\ Rejected(dq, "too large")
     \/ /\ v.cost <= MaxBytes
        /\ \E k \in 0..Len(dq.q) :
             LET e == DropBack(dq, k)
             IN  /\ EvictsBack(dq, v, k)
                 /\ \/ (Overflows(e, v) \/ (Full(e) /\ Yields(e, v))) /\ Rejected(e, "saturated")
                    \/ ~Overflows(e, v) /\ ~Full(e) /\ Insert(e, v)
                    \/ ~Overflows(e, v) /\ Full(e) /\ ~Yields(e, v) /\ Insert(DropBack(e, 1), v)

PopFront ==
  /\ dq.q # <<>>
  /\ dq' = DropFront(dq, 1) /\ result' = "ok"

PopBack ==
  /\ dq.q # <<>>
  /\ dq' = DropBack(dq, 1) /\ result' = "ok"

\* remove_pos, and remove_value with the first position of an equal item.
RemovePos(i) ==
  /\ dq' = Deque(RemoveAt(dq.q, i), Monus(dq.cur_bytes, dq.q[i].cost), dq.cap)
  /\ result' = "ok"

RemoveValue(v) ==
  \E i \in 1..Len(dq.q) :
    /\ dq.q[i] = v /\ \A j \in 1..i - 1 : dq.q[j] # v
    /\ RemovePos(i)

Removed(keep) ==
  Bytes([i \in 1..Len(dq.q) |-> IF dq.q[i] \in keep THEN [cost |-> 0] ELSE dq.q[i]])

\* The predicate holds of the items in `keep'; `at' lists where those are.
Retain(keep) ==
  \E n \in 0..Len(dq.q) : \E at \in [1..n -> 1..Len(dq.q)] :
    /\ \A i, j \in 1..n : i < j => at[i] < at[j]
    /\ {at[i] : i \in 1..n} = {i \in 1..Len(dq.q) : dq.q[i] \in keep}
    /\ dq' = Deque([i \in 1..n |-> dq.q[at[i]]],
                   Monus(dq.cur_bytes, Removed(keep)), dq.cap)
    /\ result' = "ok"

Clear == dq' = Deque(<<>>, 0, dq.cap) /\ result' = "ok"

Call ==
  \/ \E v \in Items : PushBack(v) \/ PushBackPrioritized(v) \/ RemoveValue(v)
  \/ PopFront \/ PopBack \/ Clear
  \/ \E i \in 1..Len(dq.q) : RemovePos(i)
  \/ \E keep \in SUBSET Range(dq.q) : Retain(keep)

Next == Call /\ UNCHANGED prioritized

Spec == Init /\ [][Next]_vars

-----------------------------------------------------------------------------
(***************************************************************************)
(* Properties.                                                             *)
(***************************************************************************)

\* The byte account is exact on every path, and the byte budget, the element
\* cap and the allocated ring are never exceeded (cur_bytes, max_elems).
Accounted ==
  /\ dq.q \in Seq(Items)
  /\ dq.cur_bytes = Bytes(dq.q) /\ dq.cur_bytes <= MaxBytes
  /\ Len(dq.q) <= MaxElems /\ Len(dq.q) <= dq.cap
  /\ dq.cap <= MaxElems + Slack

\* A queue filled by push_back_prioritized is in descending priority order, so
\* its front is what must leave first and its back what may be evicted.
PrioritySorted ==
  prioritized => \A i, j \in 1..Len(dq.q) : i < j => dq.q[i].prio >= dq.q[j].prio

\* No push, accepted or rejected, costs an item of higher priority its place.
HigherSurvive(v) ==
  \A i \in 1..Len(dq.q) : dq.q[i].prio > v.prio => i <= Len(dq.q') /\ dq.q'[i] = dq.q[i]
EvictsLowerOnly == [][\A v \in Items : PushBackPrioritized(v) => HigherSurvive(v)]_vars

\* Items of equal priority stay in the order of their pushes: an accepted item
\* joins the queue behind every item of its priority or a higher one that is left,
\* in the places they had, and ahead of every item of a lower one.
Joins(old, new, v, k) ==
  /\ new[k] = v /\ Len(new) <= Len(old) + 1
  /\ \A i \in 1..k - 1 : new[i] = old[i] /\ old[i].prio >= v.prio
  /\ \A i \in k + 1..Len(new) : new[i] = old[i - 1] /\ old[i - 1].prio < v.prio
FifoWithinPriority ==
  [][\A v \in Items : PushBackPrioritized(v) /\ result' = "ok" =>
       \E k \in 1..Len(dq.q') : Joins(dq.q, dq.q', v, k)]_vars

\* "priority queue saturated" is returned only when the first n items, all of
\* higher priority, alone leave no room for the new one.
Outranking(v) == {n \in 0..Len(dq.q) : \A i \in 1..n : dq.q[i].prio > v.prio}
RejectsOnlyWhenOutranked ==
  [][\A v \in Items : PushBackPrioritized(v) /\ result' = "saturated" =>
       \E n \in Outranking(v) :
         Bytes(SubSeq(dq.q, 1, n)) + v.cost > MaxBytes \/ n >= MaxElems]_vars

\* An accepted push evicts no more than it needs: had one item fewer been
\* evicted, the queue would exceed its byte budget or its element cap.
Kept == Len(dq.q') - 1
EvictsMinimum ==
  [][\A v \in Items : /\ PushBack(v) \/ PushBackPrioritized(v)
                      /\ result' = "ok" /\ Kept < Len(dq.q)
       => LET one_more == IF prioritized THEN SubSeq(dq.q, 1, Kept + 1)
                                         ELSE SubSeq(dq.q, Len(dq.q) - Kept, Len(dq.q))
          IN  Bytes(one_more) + v.cost > MaxBytes \/ Len(one_more) + 1 > MaxElems]_vars
=============================================================================
