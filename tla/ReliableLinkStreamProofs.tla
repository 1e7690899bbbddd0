---------------------- MODULE ReliableLinkStreamProofs ----------------------
(***************************************************************************)
(* What the receiving side of ReliableLink delivers, for every number of   *)
(* packets, every bound and every fault of the medium and of the           *)
(* callbacks: the refinement of OrderedStream and safe acknowledgement     *)
(* while sequence numbers do not wrap, and single delivery, with the       *)
(* recent-id cache alone also across the wrap.                             *)
(***************************************************************************)
EXTENDS ReliableLinkProofs

(***************************************************************************)
(* The ordered stream as a FIFO.                                           *)
(***************************************************************************)

\* No packet is handed over twice, no handler or dispatch fails and no
\* acknowledgement is refused.
PlainStream == Env \cap {"e2e", "handler", "dispatch", "saturated"} = {}

\* What a thread holds: a packet that has not been on the wire, or one that has.
Unsent    == {"alloc", "send"}
Resending == {"check", "resend", "resent", "rerecord", "requeue"}
Carrying  == {"record"} \cup Resending

\* Packet p waits to be sent for the first time, in the queue or with a thread.
QueueWaits(p)  == \E i \in 1..Len(txq) : txq[i].kind # "replay" /\ txq[i].pkt = p
ThreadWaits(p) == \E t \in Threads : pc[t] \in Unsent /\ job[t].pkt = p
Waits(p) == QueueWaits(p) \/ ThreadWaits(p)

\* Where a frame can be between the callback of the sender and the handlers.
InSent(f)  == \E s \in SeqNums : sent[s] # NoEntry /\ f = FrameOf(s, sent[s].pkt)
InQueue(f) == \E i \in 1..Len(txq) :
                txq[i].kind = "replay" /\ f = FrameOf(txq[i].seq, txq[i].pkt)
InJob(f)   == \E t \in Threads : pc[t] \in Carrying /\ f = FrameOf(job[t].seq, job[t].pkt)
Held(f)    == \E s \in SeqNums : buffered[s] # NoPkt /\ f = FrameOf(s, buffered[s])
Passed(f)  == \/ \E r \in RxThreads : \E i \in 1..Len(release[r]) : f = release[r][i]
              \/ \E i \in 1..Len(delivered) : f = delivered[i]
AtLarge(f) == f \in data \/ InSent(f) \/ InQueue(f) \/ InJob(f) \/ Held(f) \/ Passed(f)

\* A packet waits in one place only.
QueuedOnce ==
  \A i, j \in 1..Len(txq) :
    (txq[i].kind # "replay" /\ txq[j].kind # "replay" /\ txq[i].pkt = txq[j].pkt) => i = j
HeldOnce ==
  \A t, u \in Threads : (pc[t] \in Unsent /\ pc[u] \in Unsent /\ job[t].pkt = job[u].pkt) => t = u
WaitsOnce == QueuedOnce /\ HeldOnce /\ \A p \in Packets : ~(QueueWaits(p) /\ ThreadWaits(p))

\* A thread sends the packet its number was taken for, and replays replays.
JobsInv ==
  \A t \in Threads :
    /\ pc[t] = "send" => job[t].seq <= Len(log) /\ log[job[t].seq] = job[t].pkt
    /\ pc[t] \in Resending => job[t].kind = "replay"

\* Every frame carries the packet its number was taken for, a packet is carried
\* under one number, and none that still waits is carried.
FrameInv ==
  /\ \A f \in Frame : AtLarge(f) =>
       f.seq <= Len(log) /\ log[f.seq] = f.pkt /\ f.pkt \in accepted /\ ~Waits(f.pkt)
  /\ \A f, g \in Frame : AtLarge(f) /\ AtLarge(g) /\ f.pkt = g.pkt => f = g
  /\ \A p \in Packets : Waits(p) => p \in accepted

\* What was dispatched and what is released are the numbers 1, 2, ... up to
\* expected_seq, and only dispatched packets are remembered.
ChainInv ==
  /\ \A i \in 1..Len(delivered) : delivered[i].seq = i
  /\ \A r \in RxThreads :
       /\ expected_seq = Len(delivered) + Len(release[r]) + 1
       /\ \A i \in 1..Len(release[r]) : release[r][i].seq = Len(delivered) + i
  /\ RxThreads = {} => expected_seq = 1
  /\ \A j \in 1..Len(recent_rx) : \E i \in 1..Len(delivered) : recent_rx[j] = delivered[i].pkt

\* A step after which fewer packets wait and fewer frames are under way.
LEMMA FrameKept ==
  ASSUME FrameInv, log' = log, accepted \subseteq accepted',
         \A f \in Frame : AtLarge(f)' => AtLarge(f),
         \A p \in Packets : Waits(p)' => Waits(p)
  PROVE  FrameInv'
  <1>1. \A f \in Frame : f.pkt \in Packets
    BY DEF Frame
  <1>2. ASSUME NEW f \in Frame, AtLarge(f)'
        PROVE  f.seq <= Len(log) /\ log[f.seq] = f.pkt /\ f.pkt \in accepted' /\ ~Waits(f.pkt)'
    BY <1>1, <1>2 DEF FrameInv
  <1>3. \A f, g \in Frame : AtLarge(f)' /\ AtLarge(g)' /\ f.pkt = g.pkt => f = g
    BY DEF FrameInv
  <1>4. \A p \in Packets : Waits(p)' => p \in accepted'
    BY DEF FrameInv
  <1> HIDE DEF AtLarge, Waits
  <1> QED
    BY <1>2, <1>3, <1>4 DEF FrameInv

\* What a push adds to the waiting packets and to the queued frames.
LEMMA PushFrames ==
  ASSUME txq \in Seq(Item), NEW item \in Item, Push(item)
  PROVE  /\ \A f : InQueue(f)' => \/ InQueue(f)
                                  \/ item.kind = "replay" /\ f = FrameOf(item.seq, item.pkt)
         /\ \A p : QueueWaits(p)' => QueueWaits(p) \/ (item.kind # "replay" /\ p = item.pkt)
  BY PushProperties DEF InQueue, QueueWaits

\* A push of a packet that is not in the queue keeps it free of repetitions.
LEMMA PushOnce ==
  ASSUME txq \in Seq(Item), NEW item \in Item, Push(item), QueuedOnce,
         item.kind = "replay" \/ ~QueueWaits(item.pkt)
  PROVE  QueuedOnce'
  <1>1. PICK at \in 1..Len(txq) + 1 : txq' = InsertAt(txq, at, item)
    BY DEF Push
  <1>2. Len(txq) \in Nat
    BY LenProperties
  <1>3. Len(txq') = Len(txq) + 1
    BY <1>1, InsertAtProperties
  <1>4. ASSUME NEW i \in 1..Len(txq) + 1
        PROVE  txq'[i] = IF i < at THEN txq[i] ELSE IF i = at THEN item ELSE txq[i - 1]
    <2>1. InsertAt(txq, at, item)[i] =
            IF i < at THEN txq[i] ELSE IF i = at THEN item ELSE txq[i - 1]
      BY InsertAtProperties
    <2> QED
      BY <1>1, <2>1
  <1> DEFINE from(i) == IF i < at THEN i ELSE i - 1
  <1>5. \A i \in 1..Len(txq') : i = at \/ (from(i) \in 1..Len(txq) /\ txq'[i] = txq[from(i)])
    BY <1>2, <1>3, <1>4
  <1>6. \A i, j \in 1..Len(txq') : i # at /\ j # at /\ from(i) = from(j) => i = j
    BY <1>2, <1>3
  <1>7. \A i \in 1..Len(txq') : i = at => txq'[i] = item
    BY <1>2, <1>3, <1>4
  <1> HIDE DEF from
  <1>8. SUFFICES ASSUME NEW i \in 1..Len(txq'), NEW j \in 1..Len(txq'),
                        txq'[i].kind # "replay", txq'[j].kind # "replay", txq'[i].pkt = txq'[j].pkt
                 PROVE  i = j
    BY DEF QueuedOnce
  <1>9. CASE i # at /\ j # at
    BY <1>5, <1>6, <1>8, <1>9 DEF QueuedOnce
  <1>10. CASE i = at \/ j = at
    BY <1>5, <1>7, <1>8, <1>10 DEF QueueWaits
  <1> QED
    BY <1>9, <1>10

\* Taking the front away adds nothing; when it was not a replay its packet no
\* longer waits in the queue.
LEMMA PopFrames ==
  ASSUME txq \in Seq(Item), txq # <<>>, txq' = Tail(txq)
  PROVE  /\ \A f : InQueue(f)' => InQueue(f)
         /\ \A p : QueueWaits(p)' => QueueWaits(p)
         /\ QueuedOnce => QueuedOnce'
         /\ QueuedOnce /\ Head(txq).kind # "replay" => \A p : p = Head(txq).pkt => ~QueueWaits(p)'
         /\ Head(txq).kind = "replay" => InQueue(FrameOf(Head(txq).seq, Head(txq).pkt))
         /\ Head(txq).kind # "replay" => QueueWaits(Head(txq).pkt)
  <1>1. /\ Len(txq) \in Nat /\ 1 \in 1..Len(txq) /\ Head(txq) = txq[1] /\ Len(txq') = Len(txq) - 1
        /\ \A i \in 1..Len(txq') : txq'[i] = txq[i + 1] /\ i + 1 \in 1..Len(txq)
    BY HeadTailProperties, EmptySeq, LenProperties
  <1>2. \A i, j \in 1..Len(txq') : i + 1 = j + 1 => i = j
    BY <1>1
  <1>3. \A i \in 1..Len(txq') : i + 1 # 1
    BY <1>1
  <1>4. \A f : InQueue(f)' => InQueue(f)
    BY <1>1 DEF InQueue
  <1>5. \A p : QueueWaits(p)' => QueueWaits(p)
    BY <1>1 DEF QueueWaits
  <1>6. QueuedOnce => QueuedOnce'
    BY <1>1, <1>2 DEF QueuedOnce
  <1>7. QueuedOnce /\ Head(txq).kind # "replay" => \A p : p = Head(txq).pkt => ~QueueWaits(p)'
    BY <1>1, <1>3 DEF QueuedOnce, QueueWaits
  <1>8. Head(txq).kind = "replay" => InQueue(FrameOf(Head(txq).seq, Head(txq).pkt))
    BY <1>1 DEF InQueue
  <1>9. Head(txq).kind # "replay" => QueueWaits(Head(txq).pkt)
    BY <1>1 DEF QueueWaits
  <1> QED
    BY <1>4, <1>5, <1>6, <1>7, <1>8, <1>9

\* What a thread that goes on takes with it.
LEMMA GotoFrames ==
  ASSUME ThreadTypeOK, NEW t \in Threads, NEW step, NEW item, Goto(t, step, item)
  PROVE  /\ \A f : InJob(f)' => \/ InJob(f)
                                \/ step \in Carrying /\ f = FrameOf(item.seq, item.pkt)
         /\ \A p : ThreadWaits(p)' => ThreadWaits(p) \/ (step \in Unsent /\ p = item.pkt)
         /\ HeldOnce /\ (step \in Unsent => \/ pc[t] \in Unsent /\ item.pkt = job[t].pkt
                                            \/ ~ThreadWaits(item.pkt))
              => HeldOnce'
         /\ HeldOnce /\ pc[t] \in Unsent /\ step \notin Unsent
              => \A p : p = job[t].pkt => ~ThreadWaits(p)'
         /\ \A u \in Threads : pc'[u] = IF u = t THEN step ELSE pc[u]
         /\ \A u \in Threads : job'[u] = IF u = t THEN item ELSE job[u]
  <1>1. /\ pc \in [Threads -> Steps] /\ job \in [Threads -> Item \cup {NoJob}]
        /\ pc' = [pc EXCEPT ![t] = step] /\ job' = [job EXCEPT ![t] = item]
    BY DEF ThreadTypeOK, Goto
  <1>2. /\ \A u \in Threads : pc'[u] = IF u = t THEN step ELSE pc[u]
        /\ \A u \in Threads : job'[u] = IF u = t THEN item ELSE job[u]
    BY <1>1
  <1>3. \A f : InJob(f)' => InJob(f) \/ (step \in Carrying /\ f = FrameOf(item.seq, item.pkt))
    BY <1>2 DEF InJob
  <1>4. \A p : ThreadWaits(p)' => ThreadWaits(p) \/ (step \in Unsent /\ p = item.pkt)
    BY <1>2 DEF ThreadWaits
  <1>5. HeldOnce /\ (step \in Unsent => \/ pc[t] \in Unsent /\ item.pkt = job[t].pkt
                                        \/ ~ThreadWaits(item.pkt))
           => HeldOnce'
    BY <1>2 DEF HeldOnce, ThreadWaits
  <1>6. HeldOnce /\ pc[t] \in Unsent /\ step \notin Unsent
              => \A p : p = job[t].pkt => ~ThreadWaits(p)'
    BY <1>2 DEF HeldOnce, ThreadWaits
  <1> QED
    BY <1>2, <1>3, <1>4, <1>5, <1>6

\* The invariant of the frames under way.
FlightInv == WaitsOnce /\ JobsInv /\ FrameInv

\* A step that leaves the sending threads and their queue alone.
LEMMA FlightElsewhere ==
  ASSUME FlightInv, UNCHANGED <<pc, job, txq, log, accepted>>,
         \A f \in Frame : AtLarge(f)' => AtLarge(f)
  PROVE  FlightInv'
  <1>1. WaitsOnce' /\ JobsInv' /\ \A p \in Packets : Waits(p)' => Waits(p)
    BY DEF FlightInv, WaitsOnce, QueuedOnce, HeldOnce, JobsInv, Waits, QueueWaits, ThreadWaits
  <1>2. FrameInv'
    <2>1. FrameInv /\ accepted \subseteq accepted'
      BY DEF FlightInv
    <2> HIDE DEF FrameInv, AtLarge, Waits
    <2> QED
      BY <1>1, <2>1, FrameKept
  <1> QED
    BY <1>1, <1>2 DEF FlightInv

\* A thread goes on with what JobsInv asks of the next step.
LEMMA JobsGoto ==
  ASSUME ThreadTypeOK, JobsInv, log' = log, NEW t \in Threads, NEW step, NEW item,
         Goto(t, step, item),
         step = "send" => item.seq <= Len(log) /\ log[item.seq] = item.pkt,
         step \in Resending => item.kind = "replay"
  PROVE  JobsInv'
  <1>1. /\ \A u \in Threads : pc'[u] = IF u = t THEN step ELSE pc[u]
        /\ \A u \in Threads : job'[u] = IF u = t THEN item ELSE job[u]
    BY GotoFrames
  <1> QED
    BY <1>1 DEF JobsInv

\* A thread that finishes keeps it.
LEMMA JobsFinish ==
  ASSUME ThreadTypeOK, JobsInv, log' = log, NEW t \in Threads, Finish(t)
  PROVE  JobsInv'
  <1>1. Goto(t, "idle", NoJob) /\ "idle" \notin Resending
    BY DEF Finish, Resending
  <1> HIDE DEF NoJob
  <1> QED
    BY <1>1, JobsGoto

\* A step of thread t after which it holds no packet that waits.
LEMMA FlightGoto ==
  ASSUME ThreadTypeOK, FlightInv, log' = log, accepted' = accepted,
         NEW t \in Threads, NEW step, NEW item, Goto(t, step, item),
         step \notin Unsent, step \in Resending => item.kind = "replay",
         QueuedOnce', \A p \in Packets : QueueWaits(p)' => QueueWaits(p),
         \A f \in Frame : AtLarge(f)' => AtLarge(f)
  PROVE  FlightInv'
  <1>1. HeldOnce' /\ \A p : ThreadWaits(p)' => ThreadWaits(p)
    BY GotoFrames DEF FlightInv, WaitsOnce
  <1>2. step # "send"
    BY DEF Unsent
  <1>3. JobsInv'
    BY <1>2, JobsGoto DEF FlightInv
  <1>4. \A p \in Packets : Waits(p)' => Waits(p)
    BY <1>1 DEF Waits
  <1>5. WaitsOnce'
    BY <1>1 DEF FlightInv, WaitsOnce
  <1>6. FrameInv'
    <2>1. FrameInv /\ accepted \subseteq accepted'
      BY DEF FlightInv
    <2> HIDE DEF FrameInv, AtLarge, Waits
    <2> QED
      BY <1>4, <2>1, FrameKept
  <1> QED
    BY <1>3, <1>5, <1>6 DEF FlightInv

\* The same when the thread finishes.
LEMMA FlightFinish ==
  ASSUME ThreadTypeOK, FlightInv, log' = log, accepted' = accepted,
         NEW t \in Threads, Finish(t),
         QueuedOnce', \A p \in Packets : QueueWaits(p)' => QueueWaits(p),
         \A f \in Frame : AtLarge(f)' => AtLarge(f)
  PROVE  FlightInv'
  <1>1. Goto(t, "idle", NoJob) /\ "idle" \notin Unsent /\ "idle" \notin Resending
    BY DEF Finish, Unsent, Resending
  <1> HIDE DEF NoJob, FlightInv, AtLarge, QueueWaits, QueuedOnce
  <1> QED
    BY <1>1, FlightGoto

\* The application hands over a new packet.
LEMMA FlightAccept ==
  ASSUME TypeOK, FlightInv, NEW p \in Packets, p \notin accepted,
         accepted' = accepted \cup {p}, log' = log, WaitsOnce', JobsInv',
         \A q \in Packets : Waits(q)' => Waits(q) \/ q = p,
         \A f \in Frame : AtLarge(f)' => AtLarge(f)
  PROVE  FlightInv'
  <1>1. \A f \in Frame : f.pkt \in Packets
    BY DEF Frame
  <1>2. ASSUME NEW f \in Frame, AtLarge(f)'
        PROVE  f.seq <= Len(log) /\ log[f.seq] = f.pkt /\ f.pkt \in accepted' /\ ~Waits(f.pkt)'
    BY <1>1, <1>2 DEF FlightInv, FrameInv
  <1>3. \A f, g \in Frame : AtLarge(f)' /\ AtLarge(g)' /\ f.pkt = g.pkt => f = g
    BY DEF FlightInv, FrameInv
  <1>4. \A q \in Packets : Waits(q)' => q \in accepted'
    BY DEF FlightInv, FrameInv
  <1> HIDE DEF AtLarge, Waits
  <1> QED
    BY <1>2, <1>3, <1>4 DEF FlightInv, FrameInv

\* tx_queue and tx.
LEMMA FlightApplication ==
  ASSUME PlainStream, TypeOK, FlightInv, Application
  PROVE  FlightInv'
  <1>0. ThreadTypeOK /\ txq \in Seq(Item)
    BY DEF TypeOK, ThreadTypeOK
  <1>1. \A p \in Packets : /\ DataItem(p) \in Item /\ DataItem(p).kind # "replay"
                           /\ DataItem(p).pkt = p
    BY ItemFacts DEF DataItem
  <1>2. \A p \in Packets : p \notin accepted => ~Waits(p)
    BY DEF FlightInv, FrameInv
  <1>3. ASSUME NEW p \in Packets, p \notin accepted, accepted' = accepted \cup {p},
               Push(DataItem(p)), UNCHANGED <<pc, job, log, data, sent, buffered, release, delivered>>
        PROVE  FlightInv'
    <2>1. /\ \A f : InQueue(f)' => InQueue(f)
          /\ \A q : QueueWaits(q)' => QueueWaits(q) \/ q = p
      BY <1>0, <1>1, <1>3, PushFrames
    <2>2. QueuedOnce'
      BY <1>0, <1>1, <1>2, <1>3, PushOnce DEF FlightInv, WaitsOnce, Waits
    <2>3. HeldOnce' /\ JobsInv' /\ \A q : ThreadWaits(q)' <=> ThreadWaits(q)
      BY <1>3 DEF FlightInv, WaitsOnce, HeldOnce, JobsInv, ThreadWaits
    <2>4. \A q \in Packets : Waits(q)' => Waits(q) \/ q = p
      BY <2>1, <2>3 DEF Waits
    <2>5. WaitsOnce'
      BY <1>2, <1>3, <2>1, <2>2, <2>3 DEF WaitsOnce, FlightInv, Waits
    <2>6. \A f \in Frame : AtLarge(f)' => AtLarge(f)
      BY <1>3, <2>1 DEF AtLarge, InSent, InJob, Held, Passed
    <2> HIDE DEF AtLarge, Waits, WaitsOnce, JobsInv, FlightInv
    <2> QED
      BY <1>3, <2>3, <2>4, <2>5, <2>6, FlightAccept
  <1>4. ASSUME NEW p \in Packets, TxQueue(p)
        PROVE  FlightInv'
    BY <1>3, <1>4 DEF TxQueue, historyVars, threadVars, mediumVars, rxVars
  <1>5. ASSUME NEW p \in Packets
        PROVE  ~EndToEndReplay(p)
    BY DEF EndToEndReplay, PlainStream
  <1>6. ASSUME NEW t \in Threads, NEW p \in Packets, TxNow(t, p)
        PROVE  FlightInv'
    <2>0. /\ p \notin accepted /\ accepted' = accepted \cup {p} /\ pc[t] = "idle"
          /\ UNCHANGED <<log, data, sent, buffered, release, delivered>>
      BY <1>6 DEF TxNow, historyVars, mediumVars, rxVars
    <2>1. CASE side_tx_gate
      BY <1>3, <1>6, <2>0, <2>1 DEF TxNow, threadVars
    <2>2. CASE ~side_tx_gate
      <3>1. Goto(t, "alloc", DataItem(p)) /\ UNCHANGED txq
        BY <1>6, <2>2 DEF TxNow
      <3>2. "alloc" \in Unsent /\ "alloc" \notin Carrying /\ "alloc" \notin Resending
        BY DEF Unsent, Carrying, Resending
      <3>3. /\ \A f : InJob(f)' => InJob(f)
            /\ \A q : ThreadWaits(q)' => ThreadWaits(q) \/ q = p
            /\ HeldOnce'
        <4>1. HeldOnce /\ ~ThreadWaits(DataItem(p).pkt)
          BY <1>1, <1>2, <2>0 DEF FlightInv, WaitsOnce, Waits
        <4> QED
          BY <1>0, <1>1, <3>1, <3>2, <4>1, GotoFrames
      <3>4. JobsInv'
        BY <1>0, <2>0, <3>1, <3>2, JobsGoto DEF FlightInv
      <3>5. QueuedOnce' /\ \A q : QueueWaits(q)' <=> QueueWaits(q)
        BY <3>1 DEF FlightInv, WaitsOnce, QueuedOnce, QueueWaits
      <3>6. WaitsOnce'
        BY <1>2, <2>0, <3>3, <3>5 DEF WaitsOnce, FlightInv, Waits
      <3>7. \A q \in Packets : Waits(q)' => Waits(q) \/ q = p
        BY <3>3, <3>5 DEF Waits
      <3>8. \A f \in Frame : AtLarge(f)' => AtLarge(f)
        BY <2>0, <3>1, <3>3 DEF AtLarge, InSent, InQueue, Held, Passed
      <3> HIDE DEF AtLarge, Waits, WaitsOnce, JobsInv, FlightInv
      <3> QED
        BY <2>0, <3>4, <3>6, <3>7, <3>8, FlightAccept
    <2> QED
      BY <2>1, <2>2
  <1> QED
    BY <1>4, <1>5, <1>6 DEF Application

\* process_tx_queue: what waited in the queue now waits with the thread, and a
\* queued replay is carried by it.
LEMMA FlightPop ==
  ASSUME TypeOK, FlightInv, NEW t \in Threads, PopTx(t)
  PROVE  FlightInv'
  <1> DEFINE item == Head(txq)
  <1>0. /\ ThreadTypeOK /\ txq \in Seq(Item) /\ txq # <<>> /\ txq' = Tail(txq)
        /\ item \in Item /\ item.pkt \in Packets /\ pc[t] = "idle"
        /\ log' = log /\ accepted' = accepted
        /\ UNCHANGED <<data, sent, buffered, release, delivered>>
        /\ Goto(t, IF item.kind = "replay" THEN "check" ELSE "alloc", item)
    BY HeadTailProperties, ItemFacts DEF TypeOK, ThreadTypeOK, PopTx, historyVars, mediumVars,
       rxVars, appVars
  <1>1. QueuedOnce /\ HeldOnce /\ \A p \in Packets : ~(QueueWaits(p) /\ ThreadWaits(p))
    BY DEF FlightInv, WaitsOnce
  <1>2. /\ \A f : InQueue(f)' => InQueue(f)
        /\ \A p : QueueWaits(p)' => QueueWaits(p)
        /\ QueuedOnce'
        /\ item.kind # "replay" => \A p : p = item.pkt => ~QueueWaits(p)'
        /\ item.kind = "replay" => InQueue(FrameOf(item.seq, item.pkt))
        /\ item.kind # "replay" => QueueWaits(item.pkt)
    BY <1>0, <1>1, PopFrames
  <1> HIDE DEF item
  <1>3. CASE item.kind = "replay"
    <2>1. Goto(t, "check", item) /\ "check" \notin Unsent
      BY <1>0, <1>3 DEF Unsent
    <2>2. \A f : InJob(f)' => InJob(f) \/ f = FrameOf(item.seq, item.pkt)
      BY <1>0, <2>1, GotoFrames
    <2>3. \A f \in Frame : AtLarge(f)' => AtLarge(f)
      BY <1>0, <1>2, <1>3, <2>2 DEF AtLarge, InSent, Held, Passed
    <2> HIDE DEF FlightInv, AtLarge, QueuedOnce, QueueWaits
    <2> QED
      BY <1>0, <1>2, <1>3, <2>1, <2>3, FlightGoto
  <1>4. CASE item.kind # "replay"
    <2>1. /\ Goto(t, "alloc", item)
          /\ "alloc" \in Unsent /\ "alloc" \notin Carrying /\ "alloc" \notin Resending
      BY <1>0, <1>4 DEF Unsent, Carrying, Resending
    <2>2. ~ThreadWaits(item.pkt)
      BY <1>0, <1>1, <1>2, <1>4
    <2>3. /\ \A f : InJob(f)' => InJob(f)
          /\ \A p : ThreadWaits(p)' => ThreadWaits(p) \/ p = item.pkt
          /\ HeldOnce'
      BY <1>0, <1>1, <2>1, <2>2, GotoFrames
    <2>4. JobsInv'
      BY <1>0, <2>1, JobsGoto DEF FlightInv
    <2>5. \A p \in Packets : Waits(p)' => Waits(p)
      BY <1>2, <1>4, <2>3 DEF Waits
    <2>6. WaitsOnce'
      BY <1>1, <1>2, <1>4, <2>3 DEF WaitsOnce
    <2>7. \A f \in Frame : AtLarge(f)' => AtLarge(f)
      BY <1>0, <1>2, <2>3 DEF AtLarge, InSent, Held, Passed
    <2>8. FrameInv /\ accepted \subseteq accepted'
      BY <1>0 DEF FlightInv
    <2>9. FrameInv'
      <3> HIDE DEF FrameInv, AtLarge, Waits
      <3> QED
        BY <1>0, <2>5, <2>7, <2>8, FrameKept
    <2> QED
      BY <2>4, <2>6, <2>9 DEF FlightInv
  <1> QED
    BY <1>3, <1>4

\* send_reliable_to_side takes the next number for the packet, or gives it up.
LEMMA FlightAlloc ==
  ASSUME NoWrap, TypeOK, SeqInv, FlightInv, NEW t \in Threads, AllocSeq(t)
  PROVE  FlightInv'
  <1>0. /\ ThreadTypeOK /\ txq' = txq /\ accepted' = accepted /\ pc[t] = "alloc"
        /\ UNCHANGED <<data, sent, buffered, release, delivered>>
    BY DEF TypeOK, AllocSeq, historyVars, mediumVars, rxVars
  <1>1. /\ \A f : InQueue(f)' <=> InQueue(f)
        /\ \A p : QueueWaits(p)' <=> QueueWaits(p)
        /\ QueuedOnce'
    BY <1>0 DEF InQueue, QueueWaits, QueuedOnce, FlightInv, WaitsOnce
  <1>2. CASE HistoryFull
    <2>1. Finish(t) /\ log' = log
      BY <1>2 DEF AllocSeq
    <2>2. \A f : InJob(f)' => InJob(f)
      <3>1. Goto(t, "idle", NoJob) /\ "idle" \notin Carrying
        BY <2>1 DEF Finish, Carrying, Resending
      <3> HIDE DEF NoJob
      <3> QED
        BY <1>0, <3>1, GotoFrames
    <2>3. \A f \in Frame : AtLarge(f)' => AtLarge(f)
      BY <1>0, <1>1, <2>2 DEF AtLarge, InSent, Held, Passed
    <2> HIDE DEF FlightInv, AtLarge, QueuedOnce, QueueWaits
    <2> QED
      BY <1>0, <1>1, <2>1, <2>3, FlightFinish
  <1>3. CASE ~HistoryFull
    <2> DEFINE item == [job[t] EXCEPT !.seq = next_seq]
    <2>1. /\ log' = Append(log, job[t].pkt) /\ Goto(t, "send", item)
          /\ "send" \in Unsent /\ "send" \notin Carrying /\ pc[t] \in Unsent
          /\ "send" \notin Resending
      BY <1>0, <1>3 DEF AllocSeq, Unsent, Carrying, Resending
    <2>2. /\ item.seq = next_seq /\ item.pkt = job[t].pkt /\ job[t].pkt \in Packets
      BY <1>0, ItemFacts DEF TypeOK, HistoryTypeOK, ThreadTypeOK
    <2>3. /\ Len(log) \in Nat /\ Len(log') = Len(log) + 1 /\ next_seq = Len(log')
          /\ log'[Len(log')] = job[t].pkt
          /\ \A i \in 1..Len(log) : log'[i] = log[i]
      BY <2>1, <2>2, AppendProperties, LenProperties DEF TypeOK, AppTypeOK, SeqInv
    <2> HIDE DEF item
    <2>4. /\ \A f : InJob(f)' => InJob(f)
          /\ \A p : ThreadWaits(p)' => ThreadWaits(p) \/ p = job[t].pkt
          /\ HeldOnce'
          /\ \A u \in Threads : pc'[u] = IF u = t THEN "send" ELSE pc[u]
          /\ \A u \in Threads : job'[u] = IF u = t THEN item ELSE job[u]
      BY <1>0, <2>1, <2>2, GotoFrames DEF FlightInv, WaitsOnce
    <2>5. ThreadWaits(job[t].pkt)
      BY <2>1 DEF ThreadWaits
    <2>6. \A p \in Packets : Waits(p)' => Waits(p)
      BY <1>1, <2>4, <2>5 DEF Waits
    <2>7. WaitsOnce'
      BY <1>1, <2>4, <2>5 DEF WaitsOnce, FlightInv
    <2>8. JobsInv'
      <3>1. \A u \in Threads : pc[u] = "send" => job[u].seq \in 1..Len(log)
        BY <2>3 DEF FlightInv, JobsInv, TypeOK, ThreadTypeOK, SeqNums
      <3>2. ASSUME NEW u \in Threads, pc'[u] = "send"
            PROVE  job'[u].seq <= Len(log') /\ log'[job'[u].seq] = job'[u].pkt
        BY <2>2, <2>3, <2>4, <3>1, <3>2 DEF FlightInv, JobsInv
      <3>3. ASSUME NEW u \in Threads, pc'[u] \in Resending
            PROVE  job'[u].kind = "replay"
        BY <2>1, <2>4, <3>3 DEF FlightInv, JobsInv
      <3> QED
        BY <3>2, <3>3 DEF JobsInv
    <2>9. \A f \in Frame : AtLarge(f)' => AtLarge(f)
      BY <1>0, <1>1, <2>4 DEF AtLarge, InSent, Held, Passed
    <2>10. FrameInv'
      <3>1. \A f \in Frame : f.pkt \in Packets /\ f.seq \in Nat /\ 1 <= f.seq
        BY DEF Frame, SeqNums
      <3>2. ASSUME NEW f \in Frame, AtLarge(f)'
            PROVE  /\ f.seq <= Len(log') /\ log'[f.seq] = f.pkt
                   /\ f.pkt \in accepted' /\ ~Waits(f.pkt)'
        <4>1. f.seq <= Len(log) /\ log[f.seq] = f.pkt /\ f.pkt \in accepted /\ ~Waits(f.pkt)
          BY <2>9, <3>2 DEF FlightInv, FrameInv
        <4>2. f.seq <= Len(log') /\ log'[f.seq] = f.pkt
          BY <2>3, <3>1, <4>1
        <4> QED
          BY <1>0, <2>6, <3>1, <4>1, <4>2
      <3>3. \A f, g \in Frame : AtLarge(f)' /\ AtLarge(g)' /\ f.pkt = g.pkt => f = g
        BY <2>9 DEF FlightInv, FrameInv
      <3>4. \A p \in Packets : Waits(p)' => p \in accepted'
        BY <1>0, <2>6 DEF FlightInv, FrameInv
      <3> HIDE DEF AtLarge, Waits
      <3> QED
        BY <3>2, <3>3, <3>4 DEF FrameInv
    <2> QED
      BY <2>7, <2>8, <2>10 DEF FlightInv
  <1> QED
    BY <1>2, <1>3

\* "side tx busy": the packet goes back to the queue.
LEMMA FlightSendBusy ==
  ASSUME TypeOK, FlightInv, NEW t \in Threads, SendBusy(t)
  PROVE  FlightInv'
  <1> DEFINE p0 == job[t].pkt
             item == DataItem(p0)
  <1>0. /\ ThreadTypeOK /\ txq \in Seq(Item) /\ p0 \in Packets /\ item \in Item
        /\ item.kind # "replay" /\ item.pkt = p0 /\ Push(item) /\ pc[t] \in Unsent
        /\ Goto(t, "idle", NoJob) /\ "idle" \notin Unsent /\ "idle" \notin Carrying
        /\ log' = log /\ accepted' = accepted
        /\ UNCHANGED <<data, sent, buffered, release, delivered>>
    BY ItemFacts DEF TypeOK, ThreadTypeOK, SendBusy, Finish, DataItem, Unsent, Carrying,
       Resending, historyVars, mediumVars, rxVars, appVars
  <1>1. QueuedOnce /\ HeldOnce /\ \A p \in Packets : ~(QueueWaits(p) /\ ThreadWaits(p))
    BY DEF FlightInv, WaitsOnce
  <1>2. ThreadWaits(p0) /\ ~QueueWaits(p0)
    BY <1>0, <1>1 DEF ThreadWaits
  <1> HIDE DEF p0, item, NoJob
  <1>3. /\ \A f : InQueue(f)' => InQueue(f)
        /\ \A p : QueueWaits(p)' => QueueWaits(p) \/ p = p0
        /\ QueuedOnce'
    BY <1>0, <1>1, <1>2, PushFrames, PushOnce
  <1>4. /\ \A f : InJob(f)' => InJob(f)
        /\ \A p : ThreadWaits(p)' => ThreadWaits(p)
        /\ HeldOnce'
        /\ \A p : p = p0 => ~ThreadWaits(p)'
    BY <1>0, <1>1, GotoFrames DEF p0
  <1>5. JobsInv'
    BY <1>0, JobsFinish DEF FlightInv, Finish
  <1>6. \A p \in Packets : Waits(p)' => Waits(p)
    BY <1>2, <1>3, <1>4 DEF Waits
  <1>7. WaitsOnce'
    BY <1>1, <1>3, <1>4 DEF WaitsOnce
  <1>8. \A f \in Frame : AtLarge(f)' => AtLarge(f)
    BY <1>0, <1>3, <1>4 DEF AtLarge, InSent, Held, Passed
  <1>9. FrameInv'
    <2>1. FrameInv /\ accepted \subseteq accepted'
      BY <1>0 DEF FlightInv
    <2> HIDE DEF FrameInv, AtLarge, Waits
    <2> QED
      BY <1>0, <1>6, <1>8, <2>1, FrameKept
  <1> QED
    BY <1>5, <1>7, <1>9 DEF FlightInv

\* The TX callback is given the frame: from now on the packet is under way and
\* waits nowhere.
LEMMA FlightSendFrame ==
  ASSUME TypeOK, FlightInv, NEW t \in Threads, SendFrame(t)
  PROVE  FlightInv'
  <1> DEFINE p0 == job[t].pkt
             f0 == FrameOf(job[t].seq, job[t].pkt)
  <1>0. /\ ThreadTypeOK /\ p0 \in Packets /\ pc[t] = "send" /\ pc[t] \in Unsent
        /\ Goto(t, "record", job[t]) /\ "record" \notin Unsent /\ "record" \notin Resending
        /\ log' = log /\ accepted' = accepted /\ txq' = txq /\ data' = data \cup {f0}
        /\ UNCHANGED <<sent, buffered, release, delivered>>
    BY ItemFacts DEF TypeOK, ThreadTypeOK, SendFrame, Unsent, Resending, historyVars,
       rxVars, appVars
  <1>1. QueuedOnce /\ HeldOnce /\ \A p \in Packets : ~(QueueWaits(p) /\ ThreadWaits(p))
    BY DEF FlightInv, WaitsOnce
  <1>2. ThreadWaits(p0) /\ ~QueueWaits(p0)
    BY <1>0, <1>1 DEF ThreadWaits
  <1>3. f0.seq <= Len(log) /\ log[f0.seq] = p0 /\ f0.pkt = p0
    BY <1>0 DEF FrameOf, FlightInv, JobsInv
  <1> HIDE DEF p0, f0
  <1>4. /\ \A f : InQueue(f)' <=> InQueue(f)
        /\ \A p : QueueWaits(p)' <=> QueueWaits(p)
        /\ QueuedOnce'
    BY <1>0, <1>1 DEF InQueue, QueueWaits, QueuedOnce
  <1>5. /\ \A f : InJob(f)' => InJob(f) \/ f = f0
        /\ \A p : ThreadWaits(p)' => ThreadWaits(p)
        /\ HeldOnce'
        /\ \A p : p = p0 => ~ThreadWaits(p)'
    BY <1>0, <1>1, GotoFrames DEF p0, f0
  <1>6. JobsInv'
    BY <1>0, JobsGoto DEF FlightInv
  <1>7. /\ \A p \in Packets : Waits(p)' => Waits(p)
        /\ \A p : p = p0 => ~Waits(p)'
    BY <1>2, <1>4, <1>5 DEF Waits
  <1>8. WaitsOnce'
    BY <1>1, <1>4, <1>5 DEF WaitsOnce
  <1>9. \A f \in Frame : AtLarge(f)' => AtLarge(f) \/ f = f0
    BY <1>0, <1>4, <1>5 DEF AtLarge, InSent, Held, Passed
  <1>10. /\ Waits(p0) /\ p0 \in accepted
         /\ \A f \in Frame : AtLarge(f) => f.pkt # p0
    BY <1>0, <1>2 DEF Waits, FlightInv, FrameInv
  <1>11. FrameInv'
    <2>1. \A f \in Frame : f.pkt \in Packets
      BY DEF Frame
    <2>2. ASSUME NEW f \in Frame, AtLarge(f)'
          PROVE  f.seq <= Len(log) /\ log[f.seq] = f.pkt /\ f.pkt \in accepted /\ ~Waits(f.pkt)'
      <3>1. CASE AtLarge(f)
        BY <1>7, <2>1, <3>1 DEF FlightInv, FrameInv
      <3>2. CASE f = f0
        BY <1>3, <1>7, <1>10, <3>2
      <3> QED
        BY <1>9, <2>2, <3>1, <3>2
    <2>3. \A f, g \in Frame : AtLarge(f)' /\ AtLarge(g)' /\ f.pkt = g.pkt => f = g
      BY <1>3, <1>9, <1>10 DEF FlightInv, FrameInv
    <2>4. \A p \in Packets : Waits(p)' => p \in accepted
      BY <1>7 DEF FlightInv, FrameInv
    <2> HIDE DEF AtLarge, Waits
    <2> QED
      BY <1>0, <2>2, <2>3, <2>4 DEF FrameInv
  <1> QED
    BY <1>6, <1>8, <1>11 DEF FlightInv

\* A thread finishes, and no other queue item or frame appears.
LEMMA FlightDone ==
  ASSUME ThreadTypeOK, FlightInv, NEW t \in Threads, Finish(t),
         UNCHANGED <<log, accepted, txq, buffered, release, delivered>>, data' \subseteq data,
         \A f \in Frame : InSent(f)' => AtLarge(f)
  PROVE  FlightInv'
  <1>1. /\ \A f : InQueue(f)' <=> InQueue(f)
        /\ \A p : QueueWaits(p)' <=> QueueWaits(p)
        /\ QueuedOnce'
    BY DEF InQueue, QueueWaits, QueuedOnce, FlightInv, WaitsOnce
  <1>2. \A f : InJob(f)' => InJob(f)
    <2>1. Goto(t, "idle", NoJob) /\ "idle" \notin Carrying
      BY DEF Finish, Carrying, Resending
    <2> HIDE DEF NoJob
    <2> QED
      BY <2>1, GotoFrames
  <1>3. \A f \in Frame : AtLarge(f)' => AtLarge(f)
    BY <1>1, <1>2 DEF AtLarge, Held, Passed
  <1> HIDE DEF FlightInv, AtLarge, QueuedOnce, QueueWaits
  <1> QED
    BY <1>1, <1>3, FlightFinish

\* The callback failed, or the frame it sent is recorded.
LEMMA FlightRecord ==
  ASSUME TypeOK, FlightInv, NEW t \in Threads, SendFails(t) \/ RecordSent(t)
  PROVE  FlightInv'
  <1>0. /\ ThreadTypeOK /\ pc[t] = "record" /\ pc[t] \in Carrying /\ Finish(t)
        /\ UNCHANGED <<log, accepted, txq, buffered, release, delivered>> /\ data' \subseteq data
        /\ job[t].seq \in SeqNums /\ job[t].pkt \in Packets
        /\ sent \in [SeqNums -> Entry \cup {NoEntry}]
    BY ItemFacts DEF TypeOK, ThreadTypeOK, HistoryTypeOK, SendFails, RecordSent, Carrying,
       historyVars, mediumVars, rxVars, appVars
  <1>1. \A f \in Frame : InSent(f)' => AtLarge(f)
    <2>1. CASE SendFails(t)
      BY <2>1 DEF SendFails, historyVars, InSent, AtLarge
    <2>2. CASE RecordSent(t)
      <3>1. sent' = [sent EXCEPT ![job[t].seq] = NewEntry(job[t].pkt)]
        BY <2>2 DEF RecordSent
      <3>2. NewEntry(job[t].pkt).pkt = job[t].pkt
        BY DEF NewEntry
      <3>3. InJob(FrameOf(job[t].seq, job[t].pkt))
        BY <1>0 DEF InJob
      <3> SUFFICES ASSUME NEW f \in Frame, InSent(f)'
                   PROVE  AtLarge(f)
        OBVIOUS
      <3>4. PICK s \in SeqNums : sent'[s] # NoEntry /\ f = FrameOf(s, sent'[s].pkt)
        BY DEF InSent
      <3>5. CASE s = job[t].seq
        <4>1. f = FrameOf(job[t].seq, job[t].pkt)
          BY <1>0, <3>1, <3>2, <3>4, <3>5
        <4> QED
          BY <3>3, <4>1 DEF AtLarge
      <3>6. CASE s # job[t].seq
        BY <1>0, <3>1, <3>4, <3>6 DEF InSent, AtLarge
      <3> QED
        BY <3>5, <3>6
    <2> QED
      BY <2>1, <2>2
  <1> HIDE DEF FlightInv, AtLarge, InSent
  <1> QED
    BY <1>0, <1>1, FlightDone

\* A thread goes on with the replay it carries.
LEMMA FlightCarry ==
  ASSUME TypeOK, FlightInv, NEW t \in Threads, pc[t] \in Resending,
         NEW step \in Resending, Goto(t, step, job[t]),
         UNCHANGED <<log, accepted, txq, sent, buffered, release, delivered>>,
         data' \subseteq data \cup {FrameOf(job[t].seq, job[t].pkt)}
  PROVE  FlightInv'
  <1>0. ThreadTypeOK /\ step \notin Unsent /\ job[t].kind = "replay"
    BY DEF TypeOK, Resending, Unsent, FlightInv, JobsInv
  <1>1. /\ \A f : InQueue(f)' <=> InQueue(f)
        /\ \A p : QueueWaits(p)' <=> QueueWaits(p)
        /\ QueuedOnce'
    BY DEF InQueue, QueueWaits, QueuedOnce, FlightInv, WaitsOnce
  <1>2. InJob(FrameOf(job[t].seq, job[t].pkt))
    BY DEF InJob, Carrying
  <1>3. \A f : InJob(f)' => InJob(f)
    BY <1>0, <1>2, GotoFrames
  <1>4. \A f \in Frame : AtLarge(f)' => AtLarge(f)
    BY <1>1, <1>2, <1>3 DEF AtLarge, InSent, Held, Passed
  <1> HIDE DEF FlightInv, AtLarge, QueuedOnce, QueueWaits
  <1> QED
    BY <1>0, <1>1, <1>4, FlightGoto

\* The replay is found in the history or not, is sent, fails or returns.
LEMMA FlightResend ==
  ASSUME TypeOK, FlightInv, NEW t \in Threads,
         CheckReplay(t) \/ ResendFrame(t) \/ ResendFails(t) \/ ResendReturns(t)
  PROVE  FlightInv'
  <1>0. /\ ThreadTypeOK /\ {"resend", "resent", "rerecord"} \subseteq Resending
        /\ pc[t] \in Resending
        /\ UNCHANGED <<log, accepted, txq, sent, buffered, release, delivered>>
        /\ data' \subseteq data \cup {FrameOf(job[t].seq, job[t].pkt)}
    BY DEF TypeOK, Resending, CheckReplay, ResendFrame, ResendFails, ResendReturns,
       historyVars, mediumVars, rxVars, appVars
  <1>1. ASSUME Finish(t), data' \subseteq data
        PROVE  FlightInv'
    <2>1. \A f \in Frame : InSent(f)' => AtLarge(f)
      BY <1>0 DEF InSent, AtLarge
    <2> HIDE DEF FlightInv, AtLarge, InSent
    <2> QED
      BY <1>0, <1>1, <2>1, FlightDone
  <1>2. ASSUME \E step \in Resending : Goto(t, step, job[t])
        PROVE  FlightInv'
    BY <1>0, <1>2, FlightCarry
  <1>3. CASE CheckReplay(t)
    BY <1>0, <1>1, <1>2, <1>3 DEF CheckReplay, mediumVars
  <1>4. CASE ResendFrame(t)
    BY <1>0, <1>2, <1>4 DEF ResendFrame
  <1>5. CASE ResendFails(t)
    BY <1>1, <1>5 DEF ResendFails
  <1>6. CASE ResendReturns(t)
    BY <1>0, <1>2, <1>6 DEF ResendReturns
  <1> QED
    BY <1>3, <1>4, <1>5, <1>6

\* Changing the flags of an entry changes no frame of the history.
LEMMA SameFrames ==
  ASSUME sent \in [SeqNums -> Entry \cup {NoEntry}], NEW s \in SeqNums, sent[s] # NoEntry,
         NEW e, e.pkt = sent[s].pkt, sent' = [sent EXCEPT ![s] = e]
  PROVE  \A f : InSent(f)' => InSent(f)
  <1> SUFFICES ASSUME NEW f, InSent(f)' PROVE InSent(f)
    OBVIOUS
  <1>1. PICK x \in SeqNums : sent'[x] # NoEntry /\ f = FrameOf(x, sent'[x].pkt)
    BY DEF InSent
  <1>2. sent'[x].pkt = sent[x].pkt /\ sent[x] # NoEntry
    <2>1. CASE x = s
      BY <2>1
    <2>2. CASE x # s
      BY <1>1, <2>2
    <2> QED
      BY <2>1, <2>2
  <1> QED
    BY <1>1, <1>2 DEF InSent

\* The replay has been sent: its `queued' flag is reset.
LEMMA FlightRerecord ==
  ASSUME TypeOK, FlightInv, NEW t \in Threads, RerecordSent(t)
  PROVE  FlightInv'
  <1>0. /\ ThreadTypeOK /\ Finish(t) /\ data' \subseteq data
        /\ sent \in [SeqNums -> Entry \cup {NoEntry}]
        /\ UNCHANGED <<log, accepted, txq, buffered, release, delivered>>
    BY DEF TypeOK, HistoryTypeOK, RerecordSent, mediumVars, rxVars, appVars
  <1>1. \A f : InSent(f)' => InSent(f)
    <2>1. CASE job[t].seq \in InHistory
      <3> DEFINE s == job[t].seq
                 e == [sent[s] EXCEPT !.queued = FALSE]
      <3>1. s \in SeqNums /\ sent[s] \in Entry /\ sent[s] # NoEntry
        BY <1>0, <2>1 DEF InHistory
      <3>2. sent' = [sent EXCEPT ![s] = e]
        BY <1>0, <2>1, <3>1 DEF RerecordSent
      <3>3. e.pkt = sent[s].pkt
        BY <3>1 DEF Entry
      <3> HIDE DEF e, s, InSent
      <3> QED
        BY <1>0, <3>1, <3>2, <3>3, SameFrames
    <2>2. CASE job[t].seq \notin InHistory
      BY <2>2 DEF RerecordSent, InSent
    <2> QED
      BY <2>1, <2>2
  <1>2. \A f \in Frame : InSent(f)' => AtLarge(f)
    BY <1>1 DEF AtLarge
  <1> HIDE DEF FlightInv, AtLarge, InSent
  <1> QED
    BY <1>0, <1>2, FlightDone

\* queue_reliable_retransmit queues a frame of the history.
LEMMA QueueRetransmitFrames ==
  ASSUME TypeOK, NEW s, QueueRetransmit(s), QueuedOnce
  PROVE  /\ QueuedOnce'
         /\ \A f : InSent(f)' => InSent(f)
         /\ \A f : InQueue(f)' => InQueue(f) \/ InSent(f)
         /\ \A p : QueueWaits(p)' => QueueWaits(p)
  <1>0. sent \in [SeqNums -> Entry \cup {NoEntry}] /\ txq \in Seq(Item)
    BY DEF TypeOK, HistoryTypeOK, ThreadTypeOK
  <1>1. CASE s \in InHistory /\ ~sent[s].queued
    <2> DEFINE e == [sent[s] EXCEPT !.queued = TRUE, !.partial_acked = FALSE]
               item == ReplayItem(s, sent[s].pkt)
    <2>1. s \in SeqNums /\ sent[s] \in Entry /\ sent[s] # NoEntry
      BY <1>0, <1>1 DEF InHistory
    <2>2. sent' = [sent EXCEPT ![s] = e] /\ Push(item)
      BY <1>0, <1>1, <2>1 DEF QueueRetransmit
    <2>3. e.pkt = sent[s].pkt
      BY <2>1 DEF Entry
    <2>4. item \in Item /\ item.kind = "replay" /\ item.seq = s /\ item.pkt = sent[s].pkt
      BY <2>1, EntryFacts, ItemFacts DEF ReplayItem
    <2>5. InSent(FrameOf(item.seq, item.pkt))
      BY <2>1, <2>4 DEF InSent
    <2> HIDE DEF e, item
    <2>6. \A f : InSent(f)' => InSent(f)
      BY <1>0, <2>1, <2>2, <2>3, SameFrames
    <2>7. QueuedOnce'
      BY <1>0, <2>2, <2>4, PushOnce
    <2> QED
      BY <1>0, <2>2, <2>4, <2>5, <2>6, <2>7, PushFrames
  <1>2. CASE ~(s \in InHistory /\ ~sent[s].queued)
    BY <1>2 DEF QueueRetransmit, QueuedOnce, InSent, InQueue, QueueWaits
  <1> QED
    BY <1>1, <1>2

\* The scan queues the replay it decided on.
LEMMA FlightRequeue ==
  ASSUME TypeOK, FlightInv, NEW t \in Threads, Requeue(t)
  PROVE  FlightInv'
  <1>0. /\ ThreadTypeOK /\ Finish(t) /\ data' = data /\ QueueRetransmit(job[t].seq)
        /\ log' = log /\ accepted' = accepted
        /\ UNCHANGED <<buffered, release, delivered>>
    BY DEF TypeOK, Requeue, mediumVars, rxVars, appVars
  <1>1. /\ QueuedOnce'
        /\ \A f : InSent(f)' => InSent(f)
        /\ \A f : InQueue(f)' => InQueue(f) \/ InSent(f)
        /\ \A p : QueueWaits(p)' => QueueWaits(p)
    BY <1>0, QueueRetransmitFrames DEF FlightInv, WaitsOnce
  <1>2. \A f : InJob(f)' => InJob(f)
    <2>1. Goto(t, "idle", NoJob) /\ "idle" \notin Carrying
      BY <1>0 DEF Finish, Carrying, Resending
    <2> HIDE DEF NoJob
    <2> QED
      BY <1>0, <2>1, GotoFrames
  <1>3. \A f \in Frame : AtLarge(f)' => AtLarge(f)
    BY <1>0, <1>1, <1>2 DEF AtLarge, Held, Passed
  <1> HIDE DEF FlightInv, AtLarge, QueuedOnce, QueueWaits
  <1> QED
    BY <1>0, <1>1, <1>3, FlightFinish

\* "side tx busy": the replay goes back to the queue.
LEMMA FlightResendBusy ==
  ASSUME TypeOK, FlightInv, NEW t \in Threads, ResendBusy(t)
  PROVE  FlightInv'
  <1> DEFINE item == job[t]
  <1>0. /\ ThreadTypeOK /\ txq \in Seq(Item) /\ item \in Item /\ Push(item)
        /\ item.kind = "replay" /\ pc[t] \in Carrying
        /\ Finish(t) /\ data' = data /\ log' = log /\ accepted' = accepted
        /\ UNCHANGED <<sent, buffered, release, delivered>>
    BY DEF TypeOK, ThreadTypeOK, ResendBusy, Carrying, Resending, FlightInv, JobsInv,
       historyVars, mediumVars, rxVars, appVars
  <1>1. InJob(FrameOf(item.seq, item.pkt))
    BY <1>0 DEF InJob
  <1>2. \A f : InJob(f)' => InJob(f)
    <2>1. Goto(t, "idle", NoJob) /\ "idle" \notin Carrying
      BY <1>0 DEF Finish, Carrying, Resending
    <2> HIDE DEF NoJob
    <2> QED
      BY <1>0, <2>1, GotoFrames
  <1> HIDE DEF item
  <1>3. QueuedOnce'
    BY <1>0, PushOnce DEF FlightInv, WaitsOnce
  <1>4. /\ \A f : InQueue(f)' => InQueue(f) \/ f = FrameOf(item.seq, item.pkt)
        /\ \A p : QueueWaits(p)' => QueueWaits(p)
    BY <1>0, PushFrames
  <1>5. \A f \in Frame : AtLarge(f)' => AtLarge(f)
    BY <1>0, <1>1, <1>2, <1>4 DEF AtLarge, InSent, Held, Passed
  <1> HIDE DEF FlightInv, AtLarge, QueuedOnce, QueueWaits
  <1> QED
    BY <1>0, <1>3, <1>4, <1>5, FlightFinish

\* A thread of the sending router takes a step.
LEMMA FlightThreadStep ==
  ASSUME NoWrap, TypeOK, SeqInv, FlightInv, NEW t \in Threads, ThreadStep(t)
  PROVE  FlightInv'
  <1> HIDE DEF FlightInv
  <1> QED
    BY FlightPop, FlightAlloc, FlightSendBusy, FlightSendFrame, FlightRecord, FlightResend,
       FlightResendBusy, FlightRerecord, FlightRequeue DEF ThreadStep

\* The scan for expired frames: a frame of the history is carried by the thread.
LEMMA FlightTimeout ==
  ASSUME TypeOK, FlightInv, NEW t \in Threads, NEW s \in SeqNums, Timeout(t, s)
  PROVE  FlightInv'
  <1>0. /\ ThreadTypeOK /\ sent \in [SeqNums -> Entry \cup {NoEntry}]
        /\ sent[s] \in Entry /\ sent[s] # NoEntry
        /\ UNCHANGED <<txq, log, accepted, data, buffered, release, delivered>>
    BY DEF TypeOK, HistoryTypeOK, Timeout, Expired, InHistory, mediumVars, rxVars, appVars
  <1>1. CASE Exhausted(s)
    <2>1. sent' = [sent EXCEPT ![s] = NoEntry] /\ UNCHANGED <<pc, job>>
      BY <1>1 DEF Timeout, threadVars
    <2>2. \A x \in SeqNums : sent'[x] # NoEntry => sent'[x] = sent[x]
      BY <1>0, <2>1
    <2>3. \A f : InSent(f)' => InSent(f)
      BY <2>2 DEF InSent
    <2>4. \A f \in Frame : AtLarge(f)' => AtLarge(f)
      BY <1>0, <2>1, <2>3 DEF AtLarge, InQueue, InJob, Held, Passed
    <2> HIDE DEF FlightInv, AtLarge
    <2> QED
      BY <1>0, <2>1, <2>4, FlightElsewhere
  <1>2. CASE ~Exhausted(s)
    <2> DEFINE e == [sent[s] EXCEPT !.retries = @ + 1]
               item == ReplayItem(s, sent[s].pkt)
    <2>1. sent' = [sent EXCEPT ![s] = e] /\ Goto(t, "requeue", item)
      BY <1>0, <1>2 DEF Timeout
    <2>2. e.pkt = sent[s].pkt
      BY <1>0 DEF Entry
    <2>3. item.kind = "replay" /\ item.seq = s /\ item.pkt = sent[s].pkt
      BY DEF ReplayItem
    <2>4. InSent(FrameOf(item.seq, item.pkt))
      BY <1>0, <2>3 DEF InSent
    <2>5. "requeue" \notin Unsent
      BY DEF Unsent
    <2> HIDE DEF e, item
    <2>6. \A f : InSent(f)' => InSent(f)
      BY <1>0, <2>1, <2>2, SameFrames
    <2>7. \A f : InJob(f)' => InJob(f) \/ f = FrameOf(item.seq, item.pkt)
      BY <1>0, <2>1, GotoFrames
    <2>8. /\ QueuedOnce' /\ \A p : QueueWaits(p)' <=> QueueWaits(p)
          /\ \A f : InQueue(f)' <=> InQueue(f)
      BY <1>0 DEF QueuedOnce, QueueWaits, InQueue, FlightInv, WaitsOnce
    <2>9. \A f \in Frame : AtLarge(f)' => AtLarge(f)
      BY <1>0, <2>4, <2>6, <2>7, <2>8 DEF AtLarge, Held, Passed
    <2> HIDE DEF FlightInv, AtLarge, QueuedOnce, QueueWaits
    <2> QED
      BY <1>0, <2>1, <2>3, <2>5, <2>8, <2>9, FlightGoto
  <1> QED
    BY <1>1, <1>2

\* A step that touches only the queue, and there adds at most frames of the history.
LEMMA FlightQueue ==
  ASSUME FlightInv, UNCHANGED <<pc, job, log, accepted, data, buffered, release, delivered>>,
         QueuedOnce', \A p : QueueWaits(p)' => QueueWaits(p),
         \A f : InSent(f)' => InSent(f), \A f : InQueue(f)' => InQueue(f) \/ InSent(f)
  PROVE  FlightInv'
  <1>1. HeldOnce' /\ JobsInv' /\ \A p : ThreadWaits(p)' <=> ThreadWaits(p)
    BY DEF FlightInv, WaitsOnce, HeldOnce, JobsInv, ThreadWaits
  <1>2. WaitsOnce' /\ \A p \in Packets : Waits(p)' => Waits(p)
    BY <1>1 DEF FlightInv, WaitsOnce, Waits
  <1>3. \A f \in Frame : AtLarge(f)' => AtLarge(f)
    BY DEF AtLarge, InJob, Held, Passed
  <1>4. FrameInv'
    <2>1. FrameInv /\ accepted \subseteq accepted'
      BY DEF FlightInv
    <2> HIDE DEF FrameInv, AtLarge, Waits
    <2> QED
      BY <1>2, <1>3, <2>1, FrameKept
  <1> QED
    BY <1>1, <1>2, <1>4 DEF FlightInv

\* The sending router handles a control packet.
LEMMA FlightReceiveCtrl ==
  ASSUME TypeOK, FlightInv, Ordered, NEW m \in ctrl, NEW keep \in BOOLEAN, ReceiveCtrl(m, keep)
  PROVE  FlightInv'
  <1>0. /\ sent \in [SeqNums -> Entry \cup {NoEntry}]
        /\ UNCHANGED <<pc, job, log, accepted, data, buffered, release, delivered>>
    BY DEF TypeOK, HistoryTypeOK, ReceiveCtrl, threadVars, rxVars, appVars
  <1>1. ASSUME UNCHANGED txq, \A f : InSent(f)' => InSent(f)
        PROVE  FlightInv'
    <2>1. /\ QueuedOnce' /\ \A p : QueueWaits(p)' <=> QueueWaits(p)
          /\ \A f : InQueue(f)' <=> InQueue(f)
      BY <1>1 DEF QueuedOnce, QueueWaits, InQueue, FlightInv, WaitsOnce
    <2> HIDE DEF FlightInv, QueuedOnce, QueueWaits, InQueue, InSent
    <2> QED
      BY <1>0, <1>1, <2>1, FlightQueue
  <1>2. CASE m.kind = "ack" /\ HandleAck(m.seq) /\ UNCHANGED txq
    <2>1. PICK n \in 0..Len(sent_order) :
            sent' = [s \in SeqNums |->
                       IF \E i \in 1..n : sent_order[i] = s THEN NoEntry ELSE sent[s]]
      BY <1>2 DEF HandleAck
    <2>2. \A x \in SeqNums : sent'[x] # NoEntry => sent'[x] = sent[x]
      BY <2>1
    <2>3. \A f : InSent(f)' => InSent(f)
      BY <2>2 DEF InSent
    <2> QED
      BY <1>1, <1>2, <2>3
  <1>3. CASE HandlePartialAck(m.seq) /\ UNCHANGED <<sent_order, txq>>
    <2>1. CASE m.seq \in InHistory
      <3> DEFINE e == [sent[m.seq] EXCEPT !.partial_acked = TRUE]
      <3>1. m.seq \in SeqNums /\ sent[m.seq] \in Entry /\ sent[m.seq] # NoEntry
        BY <1>0, <2>1 DEF InHistory
      <3>2. sent' = [sent EXCEPT ![m.seq] = e]
        BY <1>0, <1>3, <2>1, <3>1 DEF HandlePartialAck
      <3>3. e.pkt = sent[m.seq].pkt
        BY <3>1 DEF Entry
      <3> HIDE DEF e
      <3>4. \A f : InSent(f)' => InSent(f)
        BY <1>0, <3>1, <3>2, <3>3, SameFrames
      <3> QED
        BY <1>1, <1>3, <3>4
    <2>2. CASE m.seq \notin InHistory
      <3>1. \A f : InSent(f)' => InSent(f)
        BY <1>3, <2>2 DEF HandlePartialAck, InSent
      <3> QED
        BY <1>1, <1>3, <3>1
    <2> QED
      BY <2>1, <2>2
  <1>4. CASE QueueRetransmit(m.seq)
    <2>1. /\ QueuedOnce'
          /\ \A f : InSent(f)' => InSent(f)
          /\ \A f : InQueue(f)' => InQueue(f) \/ InSent(f)
          /\ \A p : QueueWaits(p)' => QueueWaits(p)
      BY <1>4, QueueRetransmitFrames DEF FlightInv, WaitsOnce
    <2> HIDE DEF FlightInv, QueuedOnce, QueueWaits, InQueue, InSent
    <2> QED
      BY <1>0, <2>1, FlightQueue
  <1> QED
    BY <1>2, <1>3, <1>4 DEF ReceiveCtrl

\* A released frame is the one that arrived or one from the buffer.
LEMMA RunFrames ==
  ASSUME NEW f, NEW n \in Nat, IsRun(f.seq, n), NEW i \in 1..Len(Run(f, n)),
         Len(Run(f, n)) = n + 1
  PROVE  Run(f, n)[i] = f \/ Held(Run(f, n)[i])
  <1>1. CASE i = 1
    BY <1>1 DEF Run
  <1>2. CASE i # 1
    <2>1. i - 1 \in 1..n /\ i \in 1..n + 1
      BY <1>2
    <2>2. RunAt(f.seq, i - 1) \in InBuffer
      BY <2>1 DEF IsRun
    <2>3. Run(f, n)[i] = FrameOf(RunAt(f.seq, i - 1), buffered[RunAt(f.seq, i - 1)])
      BY <1>2, <2>1 DEF Run
    <2> QED
      BY <2>2, <2>3 DEF Held, InBuffer
  <1> QED
    BY <1>1, <1>2

\* The receiving router takes a frame: it is dropped, buffered or released.
LEMMA FlightReceiveFrame ==
  ASSUME TypeOK, FlightInv, Ordered, NEW r \in RxThreads, NEW f \in data, NEW keep \in BOOLEAN,
         ReceiveFrame(r, f, keep)
  PROVE  FlightInv'
  <1>0. /\ f \in Frame /\ f.seq \in SeqNums /\ f = FrameOf(f.seq, f.pkt)
        /\ buffered \in [SeqNums -> Packets \cup {NoPkt}]
        /\ release \in [RxThreads -> Seq(Frame)] /\ data' \subseteq data
        /\ UNCHANGED <<pc, job, txq, log, accepted, sent, delivered>>
    BY DEF TypeOK, MediumTypeOK, RxTypeOK, Frame, FrameOf, ReceiveFrame, ReceiveOld, ReceiveAhead,
       ReceiveNext, ReceiveUnordered, TakeFrame, historyVars, threadVars, appVars
  <1>1. SUFFICES \A g \in Frame : Held(g)' \/ Passed(g)' => AtLarge(g)
    <2>1. \A g \in Frame : AtLarge(g)' => AtLarge(g)
      BY <1>0, <1>1 DEF AtLarge, InSent, InQueue, InJob
    <2> HIDE DEF FlightInv, AtLarge
    <2> QED
      BY <1>0, <2>1, FlightElsewhere
  <1>2. CASE ReceiveOld(r, f, keep)
    BY <1>2 DEF ReceiveOld, rxVars, AtLarge, Held, Passed
  <1>3. CASE ReceiveAhead(r, f, keep)
    <2>1. buffered' = BufferWith(f.seq, f.pkt) /\ release' = release
      BY <1>3 DEF ReceiveAhead
    <2>2. \A x \in SeqNums : buffered'[x] # NoPkt =>
            buffered'[x] = buffered[x] \/ (x = f.seq /\ buffered'[x] = f.pkt)
      BY <1>0, <2>1 DEF BufferWith
    <2>3. \A g : Held(g)' => Held(g) \/ g = f
      BY <1>0, <2>2 DEF Held
    <2> QED
      BY <1>0, <2>1, <2>3 DEF AtLarge, Passed
  <1>4. CASE ReceiveNext(r, f, keep)
    <2>1. PICK n \in 0..SeqMax :
            /\ IsRun(f.seq, n)
            /\ buffered' = [x \in SeqNums |->
                 IF \E i \in 1..n : RunAt(f.seq, i) = x THEN NoPkt ELSE buffered[x]]
            /\ release' = [release EXCEPT ![r] = Run(f, n)] \/ release' = release
      BY <1>4 DEF ReceiveNext, Release, AckRefused
    <2>2. \A x \in SeqNums : buffered'[x] # NoPkt => buffered'[x] = buffered[x]
      BY <2>1
    <2>3. \A g : Held(g)' => Held(g)
      BY <2>2 DEF Held
    <2>4. n \in Nat /\ Len(Run(f, n)) = n + 1
      BY <1>0, <2>1, BoundsAreNat, RunType DEF TypeOK
    <2>5. \A i \in 1..Len(Run(f, n)) : Run(f, n)[i] = f \/ Held(Run(f, n)[i])
      BY <2>1, <2>4, RunFrames
    <2>6. \A q \in RxThreads : release'[q] = Run(f, n) \/ release'[q] = release[q]
      BY <1>0, <2>1
    <2>7. \A g : Passed(g)' => Passed(g) \/ g = f \/ Held(g)
      BY <1>0, <2>5, <2>6 DEF Passed
    <2> QED
      BY <2>3, <2>7 DEF AtLarge
  <1> QED
    BY <1>2, <1>3, <1>4 DEF ReceiveFrame, ReceiveUnordered

\* Dispatching hands over released frames and drops some, and adds none.
LEMMA FlightDispatch ==
  ASSUME TypeOK, FlightInv, NEW r \in RxThreads, DispatchStep(r)
  PROVE  FlightInv'
  <1> DEFINE rel == release[r]
             h == Head(release[r])
  <1>0. /\ rel \in Seq(Frame) /\ rel # <<>> /\ release \in [RxThreads -> Seq(Frame)]
        /\ delivered \in Seq(Frame)
        /\ UNCHANGED <<pc, job, txq, log, accepted, sent, data, buffered>>
    BY DEF TypeOK, RxTypeOK, AppTypeOK, DispatchStep, Dispatch, DispatchDuplicate,
       historyVars, threadVars, mediumVars, appVars
  <1>1. /\ h = rel[1] /\ h \in Frame /\ 1 \in 1..Len(rel)
        /\ \A i \in 1..Len(Tail(rel)) : i + 1 \in 1..Len(rel) /\ Tail(rel)[i] = rel[i + 1]
    BY <1>0, HeadTailProperties, EmptySeq, LenProperties
  <1>2. PICK rest \in {Tail(rel), <<>>} :
          /\ release' = [release EXCEPT ![r] = rest]
          /\ delivered' = delivered \/ delivered' = Append(delivered, h)
    BY DEF DispatchStep, Dispatch, Dispatched, HandlerFails, DispatchFails,
       DispatchDuplicate, RestAfterDuplicate
  <1>3. \A i \in 1..Len(rest) : \E j \in 1..Len(rel) : rest[i] = rel[j]
    BY <1>1, <1>2
  <1>4. \A i \in 1..Len(delivered') :
          \/ i \in 1..Len(delivered) /\ delivered'[i] = delivered[i]
          \/ delivered'[i] = h
    BY <1>0, <1>1, <1>2, AppendProperties, LenProperties
  <1>5. \A q \in RxThreads : (release'[q] = rest /\ q = r) \/ release'[q] = release[q]
    BY <1>0, <1>2
  <1>6. \A f : Passed(f)' => Passed(f)
    <2> SUFFICES ASSUME NEW f, Passed(f)' PROVE Passed(f)
      OBVIOUS
    <2>1. CASE \E q \in RxThreads : \E i \in 1..Len(release'[q]) : f = release'[q][i]
      BY <1>3, <1>5, <2>1 DEF Passed
    <2>2. CASE \E i \in 1..Len(delivered') : f = delivered'[i]
      BY <1>1, <1>4, <2>2 DEF Passed
    <2> QED
      BY <2>1, <2>2 DEF Passed
  <1>7. \A f \in Frame : AtLarge(f)' => AtLarge(f)
    BY <1>0, <1>6 DEF AtLarge, InSent, InQueue, InJob, Held
  <1> HIDE DEF FlightInv, AtLarge
  <1> QED
    BY <1>0, <1>7, FlightElsewhere

\* The medium and the other users of the routers only take frames away.
LEMMA FlightEnvironment ==
  ASSUME TypeOK, FlightInv, Environment
  PROVE  FlightInv'
  <1>0. /\ txq \in Seq(Item) /\ buffered \in [SeqNums -> Packets \cup {NoPkt}]
        /\ UNCHANGED <<pc, job, log, accepted, sent, release, delivered>> /\ data' \subseteq data
    BY DEF TypeOK, ThreadTypeOK, RxTypeOK, Environment, LoseFrame, ReceiveCorrupt, LoseCtrl,
       ClearTx, EvictTransmit, EvictBuffered, historyVars, threadVars, mediumVars, rxVars, appVars
  <1>1. CASE txq' = txq
    <2>1. \A x \in SeqNums : buffered'[x] # NoPkt => buffered'[x] = buffered[x]
      BY <1>0 DEF Environment, LoseFrame, ReceiveCorrupt, LoseCtrl, ClearTx, EvictTransmit,
         EvictBuffered, rxVars
    <2>2. \A f : Held(f)' => Held(f)
      BY <2>1 DEF Held
    <2>3. \A f \in Frame : AtLarge(f)' => AtLarge(f)
      BY <1>0, <1>1, <2>2 DEF AtLarge, InSent, InQueue, InJob, Passed
    <2> HIDE DEF FlightInv, AtLarge
    <2> QED
      BY <1>0, <1>1, <2>3, FlightElsewhere
  <1>2. CASE ClearTx \/ EvictTransmit
    <2>1. UNCHANGED <<data, buffered>>
      BY <1>2 DEF ClearTx, EvictTransmit, mediumVars, rxVars
    <2>2. /\ QueuedOnce'
          /\ \A p : QueueWaits(p)' => QueueWaits(p)
          /\ \A f : InQueue(f)' => InQueue(f)
      <3>1. CASE ClearTx
        BY <3>1 DEF ClearTx, QueuedOnce, QueueWaits, InQueue
      <3>2. CASE EvictTransmit
        BY <1>0, <3>2, PopFrames DEF EvictTransmit, FlightInv, WaitsOnce
      <3> QED
        BY <1>2, <3>1, <3>2
    <2>3. \A f : InSent(f)' => InSent(f)
      BY <1>0 DEF InSent
    <2> HIDE DEF FlightInv, QueuedOnce, QueueWaits, InQueue, InSent
    <2> QED
      BY <1>0, <2>1, <2>2, <2>3, FlightQueue
  <1>3. txq' = txq \/ ClearTx \/ EvictTransmit
    BY DEF Environment, LoseFrame, ReceiveCorrupt, LoseCtrl, EvictBuffered
  <1> QED
    BY <1>1, <1>2, <1>3

\* Nothing waits and nothing is under way at first.
LEMMA FlightInit == Init => FlightInv
  <1> SUFFICES ASSUME Init PROVE FlightInv
    OBVIOUS
  <1>1. /\ \A p : ~QueueWaits(p)
        /\ \A f : ~InQueue(f)
        /\ QueuedOnce
    BY DEF Init, QueueWaits, InQueue, QueuedOnce
  <1>2. /\ \A p : ~ThreadWaits(p)
        /\ \A f : ~InJob(f)
        /\ HeldOnce /\ JobsInv
    BY DEF Init, ThreadWaits, InJob, HeldOnce, JobsInv, Unsent, Carrying, Resending
  <1>3. \A f : ~InSent(f) /\ ~Held(f) /\ ~Passed(f) /\ f \notin data
    BY DEF Init, InSent, Held, Passed
  <1>4. \A f : ~AtLarge(f)
    BY <1>1, <1>2, <1>3 DEF AtLarge
  <1>5. \A p : ~Waits(p)
    BY <1>1, <1>2 DEF Waits
  <1> QED
    BY <1>1, <1>2, <1>4, <1>5 DEF FlightInv, WaitsOnce, FrameInv

\* FlightInv is inductive together with TypeOK and SeqInv.
LEMMA FlightStep ==
  ASSUME NoWrap, Ordered, PlainStream
  PROVE  TypeOK /\ SeqInv /\ FlightInv /\ [Next]_vars => FlightInv'
  <1> SUFFICES ASSUME TypeOK, SeqInv, FlightInv, [Next]_vars PROVE FlightInv'
    OBVIOUS
  <1>1. CASE UNCHANGED vars
    <2>1. /\ UNCHANGED <<pc, job, txq, log, accepted>>
          /\ \A f \in Frame : AtLarge(f)' => AtLarge(f)
      BY <1>1 DEF vars, historyVars, threadVars, mediumVars, rxVars, appVars,
         AtLarge, InSent, InQueue, InJob, Held, Passed
    <2> HIDE DEF FlightInv, AtLarge
    <2> QED
      BY <2>1, FlightElsewhere
  <1>2. CASE Next
    <2> HIDE DEF FlightInv
    <2> QED
      BY <1>2, FlightApplication, FlightThreadStep, FlightTimeout, FlightReceiveCtrl,
         FlightReceiveFrame, FlightDispatch, FlightEnvironment DEF Next
  <1> QED
    BY <1>1, <1>2

\* Nothing has been dispatched, released or remembered at first.
LEMMA ChainInit == Init => ChainInv
  BY DEF Init, ChainInv

\* The expected frame and the run behind it continue the chain.
LEMMA ChainReceiveNext ==
  ASSUME NoWrap, SingleRx, PlainStream, TypeOK, SeqInv, ChainInv, NEW r \in RxThreads,
         NEW f \in data, NEW keep \in BOOLEAN, ReceiveNext(r, f, keep)
  PROVE  ChainInv'
  <1>1. PICK n \in 0..SeqMax :
          /\ IsRun(f.seq, n)
          /\ expected_seq' = NextExpected(f.seq, n)
          /\ release' = [release EXCEPT ![r] = Run(f, n)]
    BY DEF ReceiveNext, Release, AckRefused, PlainStream
  <1>2. /\ f.seq = expected_seq /\ f.seq \in Nat /\ n \in Nat
        /\ delivered' = delivered /\ recent_rx' = recent_rx
        /\ release[r] = <<>> /\ release \in [RxThreads -> Seq(Frame)] /\ Len(delivered) \in Nat
    <2>1. delivered \in Seq(Frame) /\ release \in [RxThreads -> Seq(Frame)] /\ f \in Frame
      BY DEF TypeOK, MediumTypeOK, RxTypeOK, AppTypeOK
    <2>2. f.seq \in Nat /\ n \in Nat /\ Len(delivered) \in Nat
      BY <1>1, <2>1, BoundsAreNat, LenProperties DEF Frame, SeqNums
    <2> QED
      BY <2>1, <2>2 DEF ReceiveNext, IsNext, TakeFrame
  <1>3. NextExpected(f.seq, n) = f.seq + n + 1
    BY <1>1, <1>2, RunNoWrap
  <1>4. /\ Len(Run(f, n)) = n + 1
        /\ \A i \in 1..n + 1 : Run(f, n)[i].seq = f.seq + i - 1
    BY <1>1, <1>2, RunAscends
  <1>5. \A q \in RxThreads : release'[q] = Run(f, n)
    BY <1>1, <1>2 DEF SingleRx
  <1>6. expected_seq = Len(delivered) + 1
    <2>1. Len(release[r]) = 0
      BY <1>2
    <2> QED
      BY <1>2, <2>1 DEF ChainInv
  <1>7. expected_seq' = Len(delivered) + (n + 1) + 1
    BY <1>1, <1>2, <1>3, <1>6
  <1>8. ASSUME NEW i \in 1..n + 1
        PROVE  Run(f, n)[i].seq = Len(delivered) + i
    <2>1. Run(f, n)[i].seq = f.seq + i - 1 /\ i \in Nat
      BY <1>2, <1>4
    <2> QED
      BY <1>2, <1>6, <2>1
  <1> QED
    BY <1>2, <1>4, <1>5, <1>7, <1>8 DEF ChainInv

\* A released frame is never taken for a duplicate: the remembered packets are
\* the dispatched ones, and none of them is carried under a second number.
LEMMA NeverMistaken ==
  ASSUME TypeOK, FlightInv, ChainInv, NEW r \in RxThreads, release[r] # <<>>
  PROVE  ~IsDuplicate(Head(release[r]).pkt)
  <1> DEFINE h == Head(release[r])
  <1>0. /\ release[r] \in Seq(Frame) /\ delivered \in Seq(Frame) /\ Len(delivered) \in Nat
        /\ recent_rx \in Seq(Packets)
    BY LenProperties DEF TypeOK, RxTypeOK, AppTypeOK
  <1>1. h = release[r][1] /\ h \in Frame /\ 1 \in 1..Len(release[r])
    BY <1>0, HeadTailProperties, EmptySeq, LenProperties
  <1>2. h.seq = Len(delivered) + 1
    BY <1>1 DEF ChainInv
  <1>3. AtLarge(h)
    BY <1>1 DEF AtLarge, Passed
  <1> HIDE DEF h
  <1>4. SUFFICES ASSUME IsDuplicate(h.pkt) PROVE FALSE
    BY DEF h
  <1>5. PICK j \in 1..Len(recent_rx) : recent_rx[j] = h.pkt
    <2>1. h.pkt \in Range(recent_rx)
      BY <1>4 DEF IsDuplicate
    <2>2. DOMAIN recent_rx = 1..Len(recent_rx)
      BY <1>0, LenProperties
    <2> QED
      BY <2>1, <2>2 DEF Range
  <1>6. PICK i \in 1..Len(delivered) : recent_rx[j] = delivered[i].pkt
    BY <1>5 DEF ChainInv
  <1>7. delivered[i] \in Frame /\ AtLarge(delivered[i]) /\ delivered[i].seq = i
    BY <1>0, <1>6, ElementOfSeq DEF AtLarge, Passed, ChainInv
  <1>8. delivered[i] = h
    BY <1>1, <1>3, <1>5, <1>6, <1>7 DEF FlightInv, FrameInv
  <1> QED
    BY <1>0, <1>2, <1>7, <1>8

\* The dispatch loop moves the first released frame to the end of the chain.
LEMMA ChainDispatch ==
  ASSUME SingleRx, PlainStream, TypeOK, FlightInv, ChainInv, NEW r \in RxThreads, DispatchStep(r)
  PROVE  /\ ChainInv'
         /\ release[r] # <<>> /\ delivered' = Append(delivered, Head(release[r]))
  <1> DEFINE rel == release[r]
             h == Head(release[r])
  <1>0. /\ rel \in Seq(Frame) /\ rel # <<>> /\ release \in [RxThreads -> Seq(Frame)]
        /\ delivered \in Seq(Frame) /\ Len(delivered) \in Nat /\ recent_rx \in Seq(Packets)
        /\ expected_seq' = expected_seq
    BY LenProperties DEF TypeOK, RxTypeOK, AppTypeOK, DispatchStep, Dispatch, DispatchDuplicate
  <1>1. ~IsDuplicate(h.pkt)
    BY <1>0, NeverMistaken
  <1>2. /\ recent_rx' = Append(RoomForOne, h.pkt)
        /\ delivered' = Append(delivered, h)
        /\ release' = [release EXCEPT ![r] = Tail(rel)]
    BY <1>0, <1>1 DEF DispatchStep, DispatchDuplicate, Dispatch, Dispatched, HandlerFails,
       DispatchFails, PlainStream, Remember
  <1>3. /\ h = rel[1] /\ h \in Frame /\ h.pkt \in Packets /\ 1 \in 1..Len(rel) /\ Len(rel) \in Nat
        /\ Len(Tail(rel)) = Len(rel) - 1
        /\ \A i \in 1..Len(Tail(rel)) : i + 1 \in 1..Len(rel) /\ Tail(rel)[i] = rel[i + 1]
    <2>1. /\ h = rel[1] /\ h \in Frame /\ 1 \in 1..Len(rel) /\ Len(rel) \in Nat
          /\ Len(Tail(rel)) = Len(rel) - 1
          /\ \A i \in 1..Len(Tail(rel)) : i + 1 \in 1..Len(rel) /\ Tail(rel)[i] = rel[i + 1]
      BY <1>0, HeadTailProperties, EmptySeq, LenProperties
    <2>2. h.pkt \in Packets
      BY <2>1 DEF Frame
    <2> QED
      BY <2>1, <2>2
  <1>4. /\ Len(delivered') = Len(delivered) + 1
        /\ \A i \in 1..Len(delivered) : delivered'[i] = delivered[i]
        /\ delivered'[Len(delivered) + 1] = h
    BY <1>0, <1>2, <1>3, AppendProperties
  <1>5. \A q \in RxThreads : release'[q] = Tail(rel)
    BY <1>0, <1>2 DEF SingleRx
  <1>6. /\ expected_seq = Len(delivered) + Len(rel) + 1
        /\ \A i \in 1..Len(rel) : rel[i].seq = Len(delivered) + i
        /\ \A i \in 1..Len(delivered) : delivered[i].seq = i
    BY DEF ChainInv
  <1> HIDE DEF rel, h
  <1>7. ASSUME NEW i \in 1..Len(delivered')
        PROVE  delivered'[i].seq = i
    <2>1. CASE i = Len(delivered) + 1
      BY <1>3, <1>4, <1>6, <2>1
    <2>2. CASE i \in 1..Len(delivered)
      BY <1>4, <1>6, <2>2
    <2> QED
      BY <1>0, <1>4, <2>1, <2>2
  <1>8. /\ expected_seq = Len(delivered') + Len(Tail(rel)) + 1
        /\ \A i \in 1..Len(Tail(rel)) : Tail(rel)[i].seq = Len(delivered') + i
    <2>1. expected_seq = Len(delivered') + Len(Tail(rel)) + 1
      BY <1>0, <1>3, <1>4, <1>6
    <2>2. ASSUME NEW i \in 1..Len(Tail(rel))
          PROVE  Tail(rel)[i].seq = Len(delivered') + i
      <3>1. i + 1 \in 1..Len(rel) /\ Tail(rel)[i] = rel[i + 1] /\ i \in Nat
        BY <1>3
      <3>2. rel[i + 1].seq = Len(delivered) + (i + 1)
        BY <1>6, <3>1
      <3> QED
        BY <1>0, <1>4, <3>1, <3>2
    <2> QED
      BY <2>1, <2>2
  <1>9. \A j \in 1..Len(recent_rx') :
          \/ recent_rx'[j] = h.pkt
          \/ \E k \in 1..Len(recent_rx) : recent_rx'[j] = recent_rx[k]
    <2>1. RoomForOne \in Seq(Packets)
      BY <1>0, BoundsAreNat, HeadTailProperties, LenProperties DEF RoomForOne
    <2>2. \A j \in 1..Len(RoomForOne) : \E k \in 1..Len(recent_rx) : RoomForOne[j] = recent_rx[k]
      <3>1. CASE Len(recent_rx) >= MaxRecent
        <4>1. recent_rx # <<>>
          BY <1>0, <3>1, BoundsAreNat
        <4>2. \A i \in 1..Len(Tail(recent_rx)) :
                i + 1 \in 1..Len(recent_rx) /\ Tail(recent_rx)[i] = recent_rx[i + 1]
          BY <1>0, <4>1, HeadTailProperties, LenProperties
        <4> QED
          BY <3>1, <4>2 DEF RoomForOne
      <3>2. CASE ~(Len(recent_rx) >= MaxRecent)
        BY <3>2 DEF RoomForOne
      <3> QED
        BY <3>1, <3>2
    <2> QED
      BY <1>2, <1>3, <2>1, <2>2, AppendProperties, LenProperties
  <1>10. \A j \in 1..Len(recent_rx') :
           \E i \in 1..Len(delivered') : recent_rx'[j] = delivered'[i].pkt
    <2> SUFFICES ASSUME NEW j \in 1..Len(recent_rx')
                 PROVE  \E i \in 1..Len(delivered') : recent_rx'[j] = delivered'[i].pkt
      OBVIOUS
    <2>1. CASE recent_rx'[j] = h.pkt
      <3>1. Len(delivered) + 1 \in 1..Len(delivered')
        BY <1>0, <1>4
      <3> QED
        BY <1>4, <2>1, <3>1
    <2>2. ASSUME NEW k \in 1..Len(recent_rx), recent_rx'[j] = recent_rx[k]
          PROVE  \E i \in 1..Len(delivered') : recent_rx'[j] = delivered'[i].pkt
      <3>1. PICK i \in 1..Len(delivered) : recent_rx[k] = delivered[i].pkt
        BY DEF ChainInv
      <3>2. i \in 1..Len(delivered')
        BY <1>0, <1>4
      <3> QED
        BY <1>4, <2>2, <3>1, <3>2
    <2> QED
      BY <1>9, <2>1, <2>2
  <1>11. RxThreads # {}
    OBVIOUS
  <1>12. ChainInv'
    BY <1>0, <1>5, <1>7, <1>8, <1>10, <1>11 DEF ChainInv
  <1> QED
    BY <1>0, <1>2, <1>12 DEF rel, h

\* Only the dispatch loop remembers packets.
LEMMA RememberedUntouched ==
  ASSUME [Next]_vars, \A r \in RxThreads : ~DispatchStep(r)
  PROVE  recent_rx' = recent_rx /\ delivered' = delivered
  <1>1. CASE UNCHANGED vars
    BY <1>1 DEF vars
  <1>2. CASE Application
    BY <1>2 DEF Application, TxQueue, EndToEndReplay, TxNow
  <1>3. ASSUME NEW t \in Threads, ThreadStep(t) \/ \E s \in SeqNums : Timeout(t, s)
        PROVE  recent_rx' = recent_rx /\ delivered' = delivered
    BY <1>3 DEF ThreadStep, PopTx, AllocSeq, SendBusy, SendFrame, SendFails, RecordSent,
       CheckReplay, ResendBusy, ResendFrame, ResendFails, ResendReturns, RerecordSent,
       Requeue, Timeout
  <1>4. ASSUME NEW m \in ctrl, NEW keep \in BOOLEAN, ReceiveCtrl(m, keep)
        PROVE  recent_rx' = recent_rx /\ delivered' = delivered
    BY <1>4 DEF ReceiveCtrl
  <1>5. ASSUME NEW r \in RxThreads, NEW f \in data, NEW keep \in BOOLEAN,
               ReceiveFrame(r, f, keep)
        PROVE  recent_rx' = recent_rx /\ delivered' = delivered
    BY <1>5 DEF ReceiveFrame, ReceiveOld, ReceiveAhead, ReceiveNext, ReceiveUnordered
  <1>6. CASE Environment
    BY <1>6 DEF Environment, LoseFrame, ReceiveCorrupt, LoseCtrl, ClearTx, EvictTransmit,
       EvictBuffered
  <1> QED
    BY <1>1, <1>2, <1>3, <1>4, <1>5, <1>6 DEF Next

\* ChainInv is inductive together with TypeOK, SeqInv and FlightInv.
LEMMA ChainStep ==
  ASSUME NoWrap, Ordered, SingleRx, PlainStream
  PROVE  TypeOK /\ SeqInv /\ FlightInv /\ ChainInv /\ [Next]_vars => ChainInv'
  <1> SUFFICES ASSUME TypeOK, SeqInv, FlightInv, ChainInv, [Next]_vars PROVE ChainInv'
    OBVIOUS
  <1>1. CASE \E r \in RxThreads, f \in data, keep \in BOOLEAN : ReceiveNext(r, f, keep)
    BY <1>1, ChainReceiveNext
  <1>2. CASE \E r \in RxThreads : DispatchStep(r)
    BY <1>2, ChainDispatch
  <1>3. CASE UNCHANGED <<expected_seq, release, delivered>> /\ recent_rx' = recent_rx
    BY <1>3 DEF ChainInv
  <1> QED
    BY <1>1, <1>2, <1>3, OrderUntouched, RememberedUntouched

\* The packets the handlers have seen, in order.
Output == [i \in DOMAIN delivered |-> delivered[i].pkt]

\* Output is the sequence of the dispatched packets.
LEMMA OutputSeq ==
  ASSUME NEW d \in Seq(Frame)
  PROVE  /\ [i \in DOMAIN d |-> d[i].pkt] \in Seq(Packets)
         /\ Len([i \in DOMAIN d |-> d[i].pkt]) = Len(d)
         /\ \A i \in 1..Len(d) : [j \in DOMAIN d |-> d[j].pkt][i] = d[i].pkt
  <1> DEFINE out == [i \in DOMAIN d |-> d[i].pkt]
  <1>1. DOMAIN d = 1..Len(d) /\ Len(d) \in Nat /\ \A i \in 1..Len(d) : d[i] \in Frame
    BY LenProperties, ElementOfSeq
  <1>2. \A i \in 1..Len(d) : d[i].pkt \in Packets
    BY <1>1 DEF Frame
  <1>3. out \in [1..Len(d) -> Packets]
    BY <1>1, <1>2
  <1>4. out \in Seq(Packets)
    BY <1>1, <1>3, SeqDef
  <1>5. Len(out) = Len(d)
    BY <1>1, <1>3, <1>4, LenProperties
  <1> QED
    BY <1>1, <1>4, <1>5

\* Dispatching one more frame appends its packet to the output.
LEMMA OutputAppend ==
  ASSUME delivered \in Seq(Frame), NEW h \in Frame, delivered' = Append(delivered, h)
  PROVE  Output' = Append(Output, h.pkt)
  <1>1. /\ delivered' \in Seq(Frame) /\ Len(delivered') = Len(delivered) + 1
        /\ \A i \in 1..Len(delivered) : delivered'[i] = delivered[i]
        /\ delivered'[Len(delivered) + 1] = h
        /\ Len(delivered) \in Nat
    BY AppendProperties, LenProperties
  <1>2. h.pkt \in Packets
    BY DEF Frame
  <1>3. /\ Output \in Seq(Packets) /\ Len(Output) = Len(delivered)
        /\ \A i \in 1..Len(delivered) : Output[i] = delivered[i].pkt
    BY OutputSeq DEF Output
  <1>4. /\ Output' \in Seq(Packets) /\ Len(Output') = Len(delivered')
        /\ \A i \in 1..Len(delivered') : Output'[i] = delivered'[i].pkt
    BY <1>1, OutputSeq DEF Output
  <1> DEFINE new == Append(Output, h.pkt)
  <1>5. /\ new \in Seq(Packets) /\ Len(new) = Len(delivered) + 1
        /\ \A i \in 1..Len(delivered) : new[i] = Output[i]
        /\ new[Len(delivered) + 1] = h.pkt
    <2> HIDE DEF Output
    <2> QED
      BY <1>2, <1>3, AppendProperties
  <1> HIDE DEF new, Output
  <1>6. ASSUME NEW i \in 1..Len(delivered) + 1
        PROVE  Output'[i] = new[i]
    <2>1. CASE i = Len(delivered) + 1
      BY <1>1, <1>4, <1>5, <2>1
    <2>2. CASE i \in 1..Len(delivered)
      BY <1>1, <1>3, <1>4, <1>5, <2>2
    <2> QED
      BY <1>1, <2>1, <2>2
  <1>7. Output' = new
    BY <1>1, <1>4, <1>5, <1>6, SeqEqual
  <1> QED
    BY <1>7 DEF new

\* The inductive invariant of the refinement.
StreamInv == TypeOK /\ SeqInv /\ FlightInv /\ ChainInv

\* It holds of two fresh routers and is kept by every step.
LEMMA StreamInvariant ==
  ASSUME NoWrap, Ordered, SingleRx, PlainStream
  PROVE  Spec => []StreamInv
  <1>1. Init => StreamInv
    BY TypeInit, SeqInit, FlightInit, ChainInit DEF StreamInv
  <1>2. StreamInv /\ [Next]_vars => StreamInv'
    BY TypeStep, SeqStep, FlightStep, ChainStep DEF StreamInv
  <1> QED
    BY <1>1, <1>2, PTL DEF Spec

\* A dispatched or released frame carries the packet its number was taken for.
LEMMA PassedFrames ==
  ASSUME StreamInv
  PROVE  /\ \A i \in 1..Len(delivered) :
              i <= Len(log) /\ delivered[i].pkt = log[i] /\ delivered[i] \in Frame
         /\ \A r \in RxThreads : \A i \in 1..Len(release[r]) :
              /\ Len(delivered) + i <= Len(log) /\ release[r][i] \in Frame
              /\ release[r][i].pkt = log[Len(delivered) + i]
  <1>0. TypeOK /\ FlightInv /\ ChainInv
    BY DEF StreamInv
  <1>1. \A f \in Frame : Passed(f) => f.seq <= Len(log) /\ log[f.seq] = f.pkt
    BY <1>0 DEF FlightInv, FrameInv, AtLarge
  <1>2. ASSUME NEW i \in 1..Len(delivered)
        PROVE  i <= Len(log) /\ delivered[i].pkt = log[i] /\ delivered[i] \in Frame
    <2>1. delivered[i] \in Frame /\ Passed(delivered[i]) /\ delivered[i].seq = i
      BY <1>0, ElementOfSeq DEF TypeOK, AppTypeOK, Passed, ChainInv
    <2> QED
      BY <1>1, <2>1
  <1>3. ASSUME NEW r \in RxThreads, NEW i \in 1..Len(release[r])
        PROVE  /\ Len(delivered) + i <= Len(log) /\ release[r][i] \in Frame
               /\ release[r][i].pkt = log[Len(delivered) + i]
    <2>1. /\ release[r][i] \in Frame /\ Passed(release[r][i])
          /\ release[r][i].seq = Len(delivered) + i
      BY <1>0, ElementOfSeq DEF TypeOK, RxTypeOK, Passed, ChainInv
    <2> QED
      BY <1>1, <2>1
  <1> QED
    BY <1>2, <1>3

\* Every step of the routers is a step of the abstract stream or none.
LEMMA StreamStep ==
  ASSUME NoWrap, Ordered, SingleRx, PlainStream, StreamInv, [Next]_vars
  PROVE  [Stream!Next]_<<log, Output>>
  <1>0. TypeOK /\ SeqInv /\ FlightInv /\ ChainInv
    BY DEF StreamInv
  <1>1. ASSUME NEW r \in RxThreads, DispatchStep(r)
        PROVE  Stream!Deliver
    <2> DEFINE h == Head(release[r])
    <2>1. release[r] # <<>> /\ delivered' = Append(delivered, h)
      BY <1>0, <1>1, ChainDispatch
    <2>2. release[r] \in Seq(Frame) /\ delivered \in Seq(Frame)
      BY <1>0 DEF TypeOK, RxTypeOK, AppTypeOK
    <2>3. h = release[r][1] /\ h \in Frame /\ 1 \in 1..Len(release[r])
      BY <2>1, <2>2, HeadTailProperties, EmptySeq, LenProperties
    <2>4. Len(delivered) + 1 <= Len(log) /\ h.pkt = log[Len(delivered) + 1]
      BY <2>3, PassedFrames
    <2>5. Output' = Append(Output, h.pkt) /\ Len(Output) = Len(delivered)
      BY <2>1, <2>2, <2>3, OutputAppend, OutputSeq DEF Output
    <2>6. log' = log
      BY <1>1 DEF DispatchStep, Dispatch, DispatchDuplicate
    <2>7. Len(delivered) \in Nat /\ Len(log) \in Nat
      BY <1>0, <2>2, LenProperties DEF TypeOK, AppTypeOK
    <2>8. Len(Output) < Len(log) /\ Output' = Append(Output, log[Len(Output) + 1]) /\ log' = log
      BY <2>4, <2>5, <2>6, <2>7
    <2> QED
      BY <2>8 DEF Stream!Deliver, Output
  <1>2. ASSUME NEW t \in Threads, AllocSeq(t), ~HistoryFull
        PROVE  \E p \in Packets : Stream!Submit(p)
    <2>1. log' = Append(log, job[t].pkt) /\ delivered' = delivered
      BY <1>2 DEF AllocSeq
    <2>2. job[t].pkt \in Packets
      BY <1>0, <1>2, ItemFacts DEF AllocSeq, TypeOK, ThreadTypeOK
    <2> QED
      BY <2>1, <2>2 DEF Stream!Submit
  <1>3. ASSUME \A r \in RxThreads : ~DispatchStep(r),
               \A t \in Threads : ~(AllocSeq(t) /\ ~HistoryFull)
        PROVE  log' = log /\ delivered' = delivered
    <2>1. delivered' = delivered
      BY <1>3, RememberedUntouched
    <2>2. ASSUME NEW t \in Threads, ThreadStep(t) \/ \E s \in SeqNums : Timeout(t, s)
          PROVE  log' = log
      BY <1>3, <2>2 DEF ThreadStep, PopTx, AllocSeq, SendBusy, SendFrame, SendFails, RecordSent,
         CheckReplay, ResendBusy, ResendFrame, ResendFails, ResendReturns, RerecordSent,
         Requeue, Timeout
    <2>3. UNCHANGED vars \/ Application \/ Environment => log' = log
      BY DEF vars, Application, TxQueue, EndToEndReplay, TxNow, Environment, LoseFrame,
         ReceiveCorrupt, LoseCtrl, ClearTx, EvictTransmit, EvictBuffered
    <2>4. ASSUME NEW m \in ctrl, NEW keep \in BOOLEAN, ReceiveCtrl(m, keep)
          PROVE  log' = log
      BY <2>4 DEF ReceiveCtrl
    <2>5. ASSUME NEW r \in RxThreads, NEW f \in data, NEW keep \in BOOLEAN,
                 ReceiveFrame(r, f, keep)
          PROVE  log' = log
      BY <2>5 DEF ReceiveFrame, ReceiveOld, ReceiveAhead, ReceiveNext, ReceiveUnordered
    <2> QED
      BY <1>3, <2>1, <2>2, <2>3, <2>4, <2>5 DEF Next
  <1>4. log' = log /\ delivered' = delivered => UNCHANGED <<log, Output>>
    BY DEF Output
  <1>5. Stream!Deliver \/ (\E p \in Packets : Stream!Submit(p)) => Stream!Next
    BY DEF Stream!Next
  <1> QED
    BY <1>1, <1>2, <1>3, <1>4, <1>5

\* Two fresh routers are a fresh stream.
LEMMA StreamInit == Init => Stream!Init
  <1> SUFFICES ASSUME Init PROVE Stream!Init
    OBVIOUS
  <1>1. delivered = <<>> /\ log = <<>> /\ delivered \in Seq(Frame)
    BY TypeInit DEF Init, TypeOK, AppTypeOK
  <1>2. Output \in Seq(Packets) /\ Len(Output) = 0
    <2>1. Len(delivered) = 0
      BY <1>1
    <2> QED
      BY <1>1, <2>1, OutputSeq DEF Output
  <1>3. Output = <<>>
    <2> HIDE DEF Output
    <2> QED
      BY <1>2, EmptySeq
  <1> QED
    BY <1>1, <1>3 DEF Stream!Init, Output

\* An ordered stream of the routers implements a FIFO queue: the handlers of the
\* receiving router see the packets in the order send_reliable_to_side numbered
\* them, none skipped, none twice, none exchanged for another, whatever the
\* medium loses, duplicates, reorders or damages, the TX callbacks refuse and
\* the queue budget evicts.  Assumed: no wrap of the sequence numbers, one
\* receiving thread, and no refused ack, failing handler, failing dispatch or
\* second submission of a packet (PlainStream).
THEOREM RefinesStream ==
  ASSUME NoWrap, Ordered, SingleRx, PlainStream
  PROVE  Spec => ImplementsStream
  <1>1. Spec => []StreamInv
    BY StreamInvariant
  <1>2. StreamInv /\ [Next]_vars
          => [Stream!Next]_<<log, [i \in DOMAIN delivered |-> delivered[i].pkt]>>
    BY StreamStep DEF Output
  <1> QED
    BY <1>1, <1>2, StreamInit, PTL DEF Spec, ImplementsStream, Stream!Spec

\* In that setting no acknowledgement lies: a number rx_item has passed (and so
\* acknowledged) was dispatched to the handlers or is in a released run.
THEOREM AckedDispatched ==
  ASSUME NoWrap, Ordered, SingleRx, PlainStream
  PROVE  Spec => []AckedIsDispatched
  <1>1. Spec => []StreamInv
    BY StreamInvariant
  <1>2. StreamInv => AckedIsDispatched
    <2> SUFFICES ASSUME StreamInv, NEW s \in 1..Len(log), s < expected_seq
                 PROVE  log[s] \in DispatchedPkts \cup PendingPkts
      BY DEF AckedIsDispatched
    <2>0. /\ Len(log) \in Nat /\ Len(delivered) \in Nat /\ s \in Nat /\ 1 <= s
          /\ release \in [RxThreads -> Seq(Frame)]
      BY LenProperties DEF StreamInv, TypeOK, AppTypeOK, RxTypeOK
    <2>1. RxThreads # {}
      BY <2>0 DEF StreamInv, ChainInv
    <2>2. PICK r \in RxThreads : expected_seq = Len(delivered) + Len(release[r]) + 1
      BY <2>1 DEF StreamInv, ChainInv
    <2>3. CASE s \in 1..Len(delivered)
      BY <2>3, PassedFrames DEF DispatchedPkts
    <2>4. CASE s \notin 1..Len(delivered)
      <3> DEFINE i == s - Len(delivered)
      <3>1. Len(release[r]) \in Nat
        BY <2>0, LenProperties
      <3>2. i \in 1..Len(release[r]) /\ Len(delivered) + i = s
        BY <2>0, <2>2, <2>4, <3>1
      <3>3. release[r][i].pkt = log[s]
        BY <3>2, PassedFrames
      <3> HIDE DEF i
      <3> QED
        BY <3>2, <3>3 DEF PendingPkts
    <2> QED
      BY <2>3, <2>4
  <1> QED
    BY <1>1, <1>2, PTL

(***************************************************************************)
(* No packet twice.                                                        *)
(***************************************************************************)

\* push_recent_rx has room for the id of every packet.
AllRemembered == IsFiniteSet(Packets) /\ Cardinality(Packets) <= MaxRecent

\* The remembered ids are distinct and include those of the packets dispatched;
\* these are dispatched once.
MemoryInv ==
  /\ \A i, j \in 1..Len(recent_rx) : recent_rx[i] = recent_rx[j] => i = j
  /\ \A i \in 1..Len(delivered) : \E j \in 1..Len(recent_rx) : recent_rx[j] = delivered[i].pkt
  /\ \A i, j \in 1..Len(delivered) : delivered[i].pkt = delivered[j].pkt => i = j

\* While a packet is not remembered, no id has to make room for it.
LEMMA RoomLeft ==
  ASSUME AllRemembered, TypeOK, MemoryInv, NEW p \in Packets, ~IsDuplicate(p)
  PROVE  RoomForOne = recent_rx /\ \A j \in 1..Len(recent_rx) : recent_rx[j] # p
  <1>0. /\ recent_rx \in Seq(Packets) /\ Len(recent_rx) \in Nat
        /\ DOMAIN recent_rx = 1..Len(recent_rx)
    BY LenProperties DEF TypeOK, RxTypeOK
  <1>1. \A j \in 1..Len(recent_rx) : recent_rx[j] # p
    BY <1>0 DEF IsDuplicate, Range
  <1>2. recent_rx \in Injection(1..Len(recent_rx), Packets \ {p})
    <2>1. \A j \in 1..Len(recent_rx) : recent_rx[j] \in Packets \ {p}
      BY <1>0, <1>1, ElementOfSeq
    <2>2. recent_rx \in [1..Len(recent_rx) -> Packets \ {p}]
      BY <1>0, <2>1
    <2> QED
      BY <1>0, <2>2 DEF Injection, IsInjective, MemoryInv
  <1>3. /\ IsFiniteSet(Packets \ {p})
        /\ Cardinality(Packets \ {p}) = Cardinality(Packets) - 1
    BY FS_RemoveElement DEF AllRemembered
  <1>4. Cardinality(1..Len(recent_rx)) <= Cardinality(Packets \ {p})
    BY <1>2, <1>3, FS_Injection
  <1>5. Cardinality(1..Len(recent_rx)) = Len(recent_rx)
    BY <1>0, FS_Interval
  <1>6. Cardinality(Packets) \in Nat
    BY FS_CardinalityType DEF AllRemembered
  <1>7. Len(recent_rx) < MaxRecent
    BY <1>0, <1>3, <1>4, <1>5, <1>6, BoundsAreNat DEF AllRemembered
  <1>8. ~(Len(recent_rx) >= MaxRecent)
    BY <1>0, <1>7, BoundsAreNat
  <1> QED
    BY <1>1, <1>8 DEF RoomForOne

\* The dispatch loop looks an id up and records it in one critical section.
LEMMA MemoryDispatch ==
  ASSUME AllRemembered, TypeOK, MemoryInv, NEW r \in RxThreads, DispatchStep(r)
  PROVE  MemoryInv'
  <1> DEFINE p == Head(release[r]).pkt
  <1>0. /\ release[r] \in Seq(Frame) /\ release[r] # <<>> /\ delivered \in Seq(Frame)
        /\ recent_rx \in Seq(Packets)
    BY DEF TypeOK, RxTypeOK, AppTypeOK, DispatchStep, Dispatch, DispatchDuplicate
  <1>1. Head(release[r]) \in Frame
    BY <1>0, HeadTailProperties
  <1>2. p \in Packets
    BY <1>1 DEF Frame
  <1>3. CASE DispatchDuplicate(r)
    BY <1>3 DEF DispatchDuplicate, MemoryInv
  <1>4. CASE Dispatch(r)
    <2>1. RoomForOne = recent_rx /\ \A j \in 1..Len(recent_rx) : recent_rx[j] # p
      BY <1>2, <1>4, RoomLeft DEF Dispatch
    <2>2. CASE HandlerFails(r)
      BY <2>1, <2>2 DEF HandlerFails, MemoryInv
    <2>3. CASE Dispatched(r) \/ DispatchFails(r)
      <3>1. recent_rx' = Append(recent_rx, p)
        BY <2>1, <2>3 DEF Dispatched, DispatchFails, Remember
      <3> HIDE DEF p
      <3>2. /\ Len(recent_rx) \in Nat /\ Len(recent_rx') = Len(recent_rx) + 1
            /\ \A j \in 1..Len(recent_rx) : recent_rx'[j] = recent_rx[j]
            /\ recent_rx'[Len(recent_rx) + 1] = p
        BY <1>0, <1>2, <3>1, AppendProperties, LenProperties
      <3>3. \A i, j \in 1..Len(recent_rx') : recent_rx'[i] = recent_rx'[j] => i = j
        <4> SUFFICES ASSUME NEW i \in 1..Len(recent_rx'), NEW j \in 1..Len(recent_rx'),
                            recent_rx'[i] = recent_rx'[j]
                     PROVE  i = j
          OBVIOUS
        <4>1. /\ i = Len(recent_rx) + 1 \/ i \in 1..Len(recent_rx)
              /\ j = Len(recent_rx) + 1 \/ j \in 1..Len(recent_rx)
          BY <3>2
        <4> QED
          BY <2>1, <3>2, <4>1 DEF MemoryInv
      <3>4. \A i \in 1..Len(delivered) : \E j \in 1..Len(recent_rx') : recent_rx'[j] = delivered[i].pkt
        <4> SUFFICES ASSUME NEW i \in 1..Len(delivered)
                     PROVE  \E j \in 1..Len(recent_rx') : recent_rx'[j] = delivered[i].pkt
          OBVIOUS
        <4>1. PICK j \in 1..Len(recent_rx) : recent_rx[j] = delivered[i].pkt
          BY DEF MemoryInv
        <4>2. j \in 1..Len(recent_rx')
          BY <3>2
        <4> QED
          BY <3>2, <4>1, <4>2
      <3>5. CASE DispatchFails(r)
        BY <3>3, <3>4, <3>5 DEF DispatchFails, MemoryInv
      <3>6. CASE Dispatched(r)
        <4> DEFINE h == Head(release[r])
        <4>1. delivered' = Append(delivered, h) /\ h.pkt = p
          BY <3>6 DEF Dispatched, p
        <4>2. /\ Len(delivered) \in Nat /\ Len(delivered') = Len(delivered) + 1
              /\ \A i \in 1..Len(delivered) : delivered'[i] = delivered[i]
              /\ delivered'[Len(delivered) + 1] = h
          BY <1>0, <1>1, <4>1, AppendProperties, LenProperties
        <4> HIDE DEF h
        <4>3. \A i \in 1..Len(delivered) : delivered[i].pkt # p
          BY <2>1 DEF MemoryInv
        <4>4. \A i \in 1..Len(delivered') : i = Len(delivered) + 1 \/ i \in 1..Len(delivered)
          BY <4>2
        <4>5. \A i, j \in 1..Len(delivered') : delivered'[i].pkt = delivered'[j].pkt => i = j
          BY <4>1, <4>2, <4>3, <4>4 DEF MemoryInv
        <4>6. Len(recent_rx) + 1 \in 1..Len(recent_rx')
          BY <3>2
        <4>7. \A i \in 1..Len(delivered') :
                \E j \in 1..Len(recent_rx') : recent_rx'[j] = delivered'[i].pkt
          BY <3>2, <3>4, <4>1, <4>2, <4>4, <4>6
        <4> QED
          BY <3>3, <4>5, <4>7 DEF MemoryInv
      <3> QED
        BY <2>3, <3>5, <3>6
    <2> QED
      BY <1>4, <2>2, <2>3 DEF Dispatch
  <1> QED
    BY <1>3, <1>4 DEF DispatchStep

\* is_duplicate_pkt keeps a packet from being dispatched twice, however many
\* threads run the receiving router, across wraps of the sequence numbers, with
\* duplicated frames, end-to-end replays under new numbers and failing handlers,
\* as long as the memory of ids is not exceeded.
THEOREM NoDuplicates ==
  ASSUME AllRemembered
  PROVE  Spec => []NoDuplicateDelivery
  <1>1. Init => TypeOK /\ MemoryInv
    BY TypeInit DEF Init, MemoryInv
  <1>2. TypeOK /\ MemoryInv /\ [Next]_vars => MemoryInv'
    <2> SUFFICES ASSUME TypeOK, MemoryInv, [Next]_vars PROVE MemoryInv'
      OBVIOUS
    <2>1. CASE \E r \in RxThreads : DispatchStep(r)
      BY <2>1, MemoryDispatch
    <2>2. CASE \A r \in RxThreads : ~DispatchStep(r)
      BY <2>2, RememberedUntouched DEF MemoryInv
    <2> QED
      BY <2>1, <2>2
  <1>3. TypeOK /\ MemoryInv => NoDuplicateDelivery
    <2> SUFFICES ASSUME TypeOK, MemoryInv PROVE NoDuplicateDelivery
      OBVIOUS
    <2>1. DOMAIN delivered = 1..Len(delivered)
      BY LenProperties DEF TypeOK, AppTypeOK
    <2> QED
      BY <2>1 DEF NoDuplicateDelivery, IsInjective, MemoryInv
  <1> QED
    BY <1>1, <1>2, <1>3, TypeStep, PTL DEF Spec

\* The ordered stream dispatches no packet twice even when the memory of ids is
\* shorter than the stream: the sequence numbers alone see to it.
THEOREM NoDuplicatesInOrder ==
  ASSUME NoWrap, Ordered, SingleRx, PlainStream
  PROVE  Spec => []NoDuplicateDelivery
  <1>1. Spec => []StreamInv
    BY StreamInvariant
  <1>2. StreamInv => NoDuplicateDelivery
    <2> SUFFICES ASSUME StreamInv PROVE NoDuplicateDelivery
      OBVIOUS
    <2>0. DOMAIN delivered = 1..Len(delivered)
      BY LenProperties DEF StreamInv, TypeOK, AppTypeOK
    <2>1. SUFFICES ASSUME NEW i \in 1..Len(delivered), NEW j \in 1..Len(delivered),
                          delivered[i].pkt = delivered[j].pkt
                   PROVE  i = j
      BY <2>0 DEF NoDuplicateDelivery, IsInjective
    <2>2. /\ delivered[i] \in Frame /\ AtLarge(delivered[i]) /\ delivered[i].seq = i
          /\ delivered[j] \in Frame /\ AtLarge(delivered[j]) /\ delivered[j].seq = j
      BY ElementOfSeq DEF StreamInv, TypeOK, AppTypeOK, ChainInv, AtLarge, Passed
    <2>3. delivered[i] = delivered[j]
      BY <2>1, <2>2 DEF StreamInv, FlightInv, FrameInv
    <2> QED
      BY <2>2, <2>3
  <1> QED
    BY <1>1, <1>2, PTL

=============================================================================
