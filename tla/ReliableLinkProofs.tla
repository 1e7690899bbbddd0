------------------------- MODULE ReliableLinkProofs -------------------------
(***************************************************************************)
(* Theorems about ReliableLink, for every value of its constants: types,   *)
(* sequence numbers and order on the receiving side, the gate and the      *)
(* history of the sending side, replays and partial acknowledgements.  The *)
(* FIFO refinement is in ReliableLinkStreamProofs.                         *)
(***************************************************************************)
EXTENDS ReliableLink, SequenceLemmas, FiniteSetTheorems

(***************************************************************************)
(* Sequence helpers.                                                       *)
(***************************************************************************)

\* What push_back_prioritized leaves in the queue.
LEMMA PushProperties ==
  ASSUME txq \in Seq(Item), NEW item \in Item, Push(item)
  PROVE  /\ txq' \in Seq(Item)
         /\ \A i \in 1..Len(txq') :
              txq'[i] = item \/ \E j \in 1..Len(txq) : txq'[i] = txq[j]
  <1>1. PICK at \in 1..Len(txq) + 1 : txq' = InsertAt(txq, at, item)
    BY DEF Push
  <1>2. Len(txq) \in Nat
    BY LenProperties
  <1>3. /\ txq' \in Seq(Item) /\ Len(txq') = Len(txq) + 1
        /\ \A i \in 1..Len(txq) + 1 :
             txq'[i] = IF i < at THEN txq[i] ELSE IF i = at THEN item ELSE txq[i - 1]
    <2>1. InsertAt(txq, at, item) \in Seq(Item)
      BY InsertAtProperties
    <2>2. Len(InsertAt(txq, at, item)) = Len(txq) + 1
      BY InsertAtProperties
    <2>3. ASSUME NEW i \in 1..Len(txq) + 1
          PROVE  InsertAt(txq, at, item)[i] =
                   IF i < at THEN txq[i] ELSE IF i = at THEN item ELSE txq[i - 1]
      BY InsertAtProperties
    <2> QED
      BY <1>1, <2>1, <2>2, <2>3
  <1>4. ASSUME NEW i \in 1..Len(txq')
        PROVE  txq'[i] = item \/ \E j \in 1..Len(txq) : txq'[i] = txq[j]
    <2>1. CASE i < at
      <3>1. i \in 1..Len(txq) /\ txq'[i] = txq[i]
        BY <2>1, <1>2, <1>3
      <3> QED
        BY <3>1
    <2>2. CASE i = at
      BY <2>2, <1>2, <1>3
    <2>3. CASE i > at
      <3>1. i - 1 \in 1..Len(txq) /\ txq'[i] = txq[i - 1]
        BY <2>3, <1>2, <1>3
      <3> QED
        BY <3>1
    <2> QED
      BY <2>1, <2>2, <2>3, <1>2, <1>3
  <1> QED
    BY <1>3, <1>4

\* sent_order without one of its numbers.
LEMMA OrderWithoutType ==
  ASSUME sent_order \in Seq(SeqNums), NEW s
  PROVE  OrderWithout(s) \in Seq(SeqNums)
  <1>0. Len(sent_order) \in Nat /\ DOMAIN sent_order = 1..Len(sent_order)
    BY LenProperties
  <1>1. CASE s \notin Range(sent_order)
    BY <1>1 DEF OrderWithout
  <1>2. CASE s \in Range(sent_order)
    <2> DEFINE k == CHOOSE i \in DOMAIN sent_order : sent_order[i] = s
    <2>1. k \in 1..Len(sent_order)
      BY <1>0, <1>2 DEF Range
    <2>2. OrderWithout(s) = RemoveAt(sent_order, k)
      BY <1>2 DEF OrderWithout
    <2> HIDE DEF k
    <2>3. \A i \in 1..Len(sent_order) : sent_order[i] \in SeqNums
      BY ElementOfSeq
    <2>4. SubSeq(sent_order, 1, k - 1) \in Seq(SeqNums)
      BY <1>0, <2>1, <2>3, SubSeqProperties
    <2>5. SubSeq(sent_order, k + 1, Len(sent_order)) \in Seq(SeqNums)
      BY <1>0, <2>1, <2>3, SubSeqProperties
    <2> QED
      BY <2>2, <2>4, <2>5, ConcatProperties DEF RemoveAt
  <1> QED
    BY <1>1, <1>2

\* A thread moves on to a step with an item that step can work on.
LEMMA GotoType ==
  ASSUME ThreadTypeOK, NEW t \in Threads, NEW step \in Steps,
         NEW item \in Item \cup {NoJob},
         step # "idle" => item \in Item,
         step \notin {"idle", "alloc"} => item.seq \in SeqNums,
         Goto(t, step, item)
  PROVE  /\ pc' \in [Threads -> Steps] /\ job' \in [Threads -> Item \cup {NoJob}]
         /\ \A u \in Threads :
              /\ pc'[u] # "idle" => job'[u] \in Item
              /\ pc'[u] \notin {"idle", "alloc"} => job'[u].seq \in SeqNums
  <1>1. /\ pc \in [Threads -> Steps] /\ job \in [Threads -> Item \cup {NoJob}]
        /\ pc' = [pc EXCEPT ![t] = step] /\ job' = [job EXCEPT ![t] = item]
    BY DEF ThreadTypeOK, Goto
  <1>2. ASSUME NEW u \in Threads
        PROVE  /\ pc'[u] # "idle" => job'[u] \in Item
               /\ pc'[u] \notin {"idle", "alloc"} => job'[u].seq \in SeqNums
    <2>1. CASE u = t
      <3>1. pc'[u] = step /\ job'[u] = item
        BY <1>1, <2>1
      <3> QED
        BY <3>1
    <2>2. CASE u # t
      <3>1. pc'[u] = pc[u] /\ job'[u] = job[u]
        BY <1>1, <2>2
      <3> QED
        BY <3>1 DEF ThreadTypeOK
    <2> QED
      BY <2>1, <2>2
  <1> QED
    BY <1>1, <1>2

\* A thread that finishes its work satisfies the thread invariant.
LEMMA FinishType ==
  ASSUME ThreadTypeOK, NEW t \in Threads, Finish(t)
  PROVE  /\ pc' \in [Threads -> Steps] /\ job' \in [Threads -> Item \cup {NoJob}]
         /\ \A u \in Threads :
              /\ pc'[u] # "idle" => job'[u] \in Item
              /\ pc'[u] \notin {"idle", "alloc"} => job'[u].seq \in SeqNums
  <1>1. "idle" \in Steps /\ NoJob \in Item \cup {NoJob} /\ Goto(t, "idle", NoJob)
    BY DEF Steps, Finish
  <1> HIDE DEF Item, NoJob, Steps
  <1> QED
    BY <1>1, GotoType

\* The items the sender queues and the frames it sends are well formed.
LEMMA ItemFacts ==
  /\ \A p \in Packets : DataItem(p) \in Item /\ E2eItem(p) \in Item
  /\ \A s \in SeqNums, p \in Packets :
       ReplayItem(s, p) \in Item /\ ReplayItem(s, p).seq = s /\ FrameOf(s, p) \in Frame
  /\ \A item \in Item : item.pkt \in Packets
  /\ \A item \in Item : item.kind = "replay" => item.seq \in SeqNums
  /\ \A item \in Item, s \in SeqNums :
       [item EXCEPT !.seq = s] \in Item /\ [item EXCEPT !.seq = s].seq = s
  BY BoundsAreNat
     DEF Item, DataItem, E2eItem, ReplayItem, FrameOf, Frame, SeqNums

\* A history entry keeps its shape under the updates of the sender.
LEMMA EntryFacts ==
  /\ \A p \in Packets : NewEntry(p) \in Entry
  /\ \A e \in Entry : e.pkt \in Packets
  /\ \A e \in Entry : [e EXCEPT !.queued = FALSE] \in Entry
  /\ \A e \in Entry : [e EXCEPT !.partial_acked = TRUE] \in Entry
  /\ \A e \in Entry : [e EXCEPT !.queued = TRUE, !.partial_acked = FALSE] \in Entry
  /\ \A e \in Entry : ~(e.retries >= MaxRetries) => [e EXCEPT !.retries = @ + 1] \in Entry
  <1>1. \A p \in Packets : NewEntry(p) \in Entry
    BY BoundsAreNat DEF Entry, NewEntry
  <1>2. \A e \in Entry : e.pkt \in Packets
    BY DEF Entry
  <1>3. \A e \in Entry : [e EXCEPT !.queued = FALSE] \in Entry
    BY DEF Entry
  <1>4. \A e \in Entry : [e EXCEPT !.partial_acked = TRUE] \in Entry
    BY DEF Entry
  <1>5. \A e \in Entry : [e EXCEPT !.queued = TRUE, !.partial_acked = FALSE] \in Entry
    BY DEF Entry
  <1>6. \A e \in Entry : ~(e.retries >= MaxRetries) => [e EXCEPT !.retries = @ + 1] \in Entry
    BY BoundsAreNat DEF Entry
  <1> QED
    BY <1>1, <1>2, <1>3, <1>4, <1>5, <1>6

(***************************************************************************)
(* Type correctness.                                                       *)
(***************************************************************************)

\* Two fresh routers are well typed.
LEMMA TypeInit == Init => TypeOK
  <1> SUFFICES ASSUME Init PROVE TypeOK
    OBVIOUS
  <1>1. HistoryTypeOK
    BY BoundsAreNat DEF Init, HistoryTypeOK, SeqNums
  <1>2. ThreadTypeOK
    <2>0. side_tx_gate \in BOOLEAN
      BY Zenon DEF Init
    <2>1. "idle" \in Steps /\ txq \in Seq(Item)
      BY DEF Init, Steps
    <2>2. /\ pc \in [Threads -> Steps] /\ job \in [Threads -> Item \cup {NoJob}]
          /\ \A t \in Threads : pc[t] = "idle"
      BY <2>1 DEF Init
    <2> QED
      BY <2>0, <2>1, <2>2 DEF ThreadTypeOK
  <1>3. MediumTypeOK
    BY DEF Init, MediumTypeOK
  <1>4. RxTypeOK
    BY BoundsAreNat DEF Init, RxTypeOK
  <1>5. AppTypeOK
    BY DEF Init, AppTypeOK
  <1> QED
    BY <1>1, <1>2, <1>3, <1>4, <1>5 DEF TypeOK

\* The application hands over a packet, or the end-to-end layer a replay.
LEMMA TypeApplication ==
  ASSUME TypeOK, Application
  PROVE  TypeOK'
  <1> USE DEF TypeOK
  <1>1. ASSUME NEW p \in Packets, TxQueue(p)
        PROVE  TypeOK'
    <2>1. txq' \in Seq(Item)
      BY <1>1, PushProperties, ItemFacts DEF TxQueue, ThreadTypeOK
    <2> QED
      BY <1>1, <2>1 DEF TxQueue, historyVars, threadVars, mediumVars, rxVars,
         HistoryTypeOK, ThreadTypeOK, MediumTypeOK, RxTypeOK, AppTypeOK
  <1>2. ASSUME NEW p \in Packets, EndToEndReplay(p)
        PROVE  TypeOK'
    <2>1. txq' \in Seq(Item)
      BY <1>2, PushProperties, ItemFacts DEF EndToEndReplay, ThreadTypeOK
    <2> QED
      BY <1>2, <2>1 DEF EndToEndReplay, historyVars, threadVars, mediumVars, rxVars, appVars,
         HistoryTypeOK, ThreadTypeOK, MediumTypeOK, RxTypeOK, AppTypeOK
  <1>3. ASSUME NEW t \in Threads, NEW p \in Packets, TxNow(t, p)
        PROVE  TypeOK'
    <2>1. CASE side_tx_gate
      <3>1. txq' \in Seq(Item)
        BY <1>3, <2>1, PushProperties, ItemFacts DEF TxNow, ThreadTypeOK
      <3> QED
        BY <1>3, <2>1, <3>1 DEF TxNow, historyVars, threadVars, mediumVars, rxVars,
           HistoryTypeOK, ThreadTypeOK, MediumTypeOK, RxTypeOK, AppTypeOK
    <2>2. CASE ~side_tx_gate
      <3>1. Goto(t, "alloc", DataItem(p)) /\ DataItem(p) \in Item /\ "alloc" \in Steps
        BY <1>3, <2>2, ItemFacts DEF TxNow, Steps
      <3>2. ThreadTypeOK'
        BY <1>3, <2>2, <3>1, GotoType DEF TxNow, ThreadTypeOK
      <3> QED
        BY <1>3, <3>2, <2>2 DEF TxNow, historyVars, mediumVars, rxVars,
           HistoryTypeOK, MediumTypeOK, RxTypeOK, AppTypeOK
    <2> QED
      BY <2>1, <2>2
  <1> QED
    BY <1>1, <1>2, <1>3 DEF Application

\* queue_reliable_retransmit keeps the history and the queue well formed.
LEMMA QueueRetransmitType ==
  ASSUME TypeOK, NEW s, QueueRetransmit(s)
  PROVE  sent' \in [SeqNums -> Entry \cup {NoEntry}] /\ txq' \in Seq(Item)
  <1>0. sent \in [SeqNums -> Entry \cup {NoEntry}] /\ txq \in Seq(Item)
    BY DEF TypeOK, HistoryTypeOK, ThreadTypeOK
  <1>1. CASE s \in InHistory /\ ~sent[s].queued
    <2>1. /\ sent' = [sent EXCEPT ![s].queued = TRUE, ![s].partial_acked = FALSE]
          /\ Push(ReplayItem(s, sent[s].pkt))
      BY <1>1 DEF QueueRetransmit
    <2>2. s \in SeqNums /\ sent[s] \in Entry
      BY <1>0, <1>1 DEF InHistory
    <2>3. ReplayItem(s, sent[s].pkt) \in Item
      BY <2>2, ItemFacts, EntryFacts
    <2>4. txq' \in Seq(Item)
      BY <1>0, <2>1, <2>3, PushProperties
    <2>5. sent' = [sent EXCEPT ![s] = [sent[s] EXCEPT !.queued = TRUE, !.partial_acked = FALSE]]
      BY <1>0, <2>1, <2>2
    <2> QED
      BY <1>0, <2>2, <2>4, <2>5, EntryFacts
  <1>2. CASE ~(s \in InHistory /\ ~sent[s].queued)
    BY <1>0, <1>2 DEF QueueRetransmit
  <1> QED
    BY <1>1, <1>2

\* A thread of the sending router takes a step.
LEMMA TypeThreadStep ==
  ASSUME TypeOK, NEW t \in Threads, ThreadStep(t)
  PROVE  TypeOK'
  <1> USE DEF TypeOK
  <1>0. /\ \A u \in Threads : pc[u] # "idle" => job[u] \in Item /\ job[u].pkt \in Packets
        /\ \A u \in Threads : pc[u] \notin {"idle", "alloc"} => job[u].seq \in SeqNums
    BY ItemFacts DEF ThreadTypeOK
  <1>1. CASE PopTx(t)
    <2>1. Head(txq) \in Item /\ Tail(txq) \in Seq(Item)
      BY <1>1, PopProperties DEF PopTx, ThreadTypeOK
    <2> DEFINE step == IF Head(txq).kind = "replay" THEN "check" ELSE "alloc"
    <2>2. /\ step \in Steps /\ step # "idle"
          /\ step \notin {"idle", "alloc"} => Head(txq).seq \in SeqNums
          /\ Goto(t, step, Head(txq))
      BY <1>1, <2>1, ItemFacts DEF PopTx, Steps
    <2> HIDE DEF step
    <2>3. ThreadTypeOK'
      BY <1>1, <2>1, <2>2, GotoType DEF PopTx, ThreadTypeOK
    <2> QED
      BY <1>1, <2>3 DEF PopTx, historyVars, mediumVars, rxVars, appVars,
         HistoryTypeOK, MediumTypeOK, RxTypeOK, AppTypeOK
  <1>2. CASE AllocSeq(t)
    <2>0. job[t] \in Item /\ job[t].pkt \in Packets
      BY <1>0, <1>2 DEF AllocSeq
    <2>1. CASE HistoryFull
      <3>1. Finish(t)
        BY <1>2, <2>1 DEF AllocSeq
      <3>2. ThreadTypeOK'
        BY <1>2, <3>1, FinishType DEF AllocSeq, ThreadTypeOK
      <3> QED
        BY <1>2, <2>0, <2>1, <3>2 DEF AllocSeq, historyVars, mediumVars, rxVars,
           HistoryTypeOK, MediumTypeOK, RxTypeOK, AppTypeOK
    <2>2. CASE ~HistoryFull
      <3> DEFINE item == [job[t] EXCEPT !.seq = next_seq]
      <3>1. item \in Item /\ item.seq \in SeqNums /\ "send" \in Steps
        BY <2>0, ItemFacts DEF HistoryTypeOK, Steps
      <3>2. Goto(t, "send", item)
        BY <1>2, <2>2 DEF AllocSeq
      <3> HIDE DEF item
      <3>3. ThreadTypeOK'
        BY <1>2, <3>1, <3>2, GotoType DEF AllocSeq, ThreadTypeOK
      <3>4. next_seq' \in SeqNums
        BY <1>2, <2>2, BoundsAreNat DEF AllocSeq, NextSeq, HistoryTypeOK, SeqNums
      <3>5. log' \in Seq(Packets)
        BY <1>2, <2>0, <2>2, AppendProperties DEF AllocSeq, AppTypeOK
      <3> QED
        BY <1>2, <2>2, <3>3, <3>4, <3>5 DEF AllocSeq, historyVars, mediumVars, rxVars,
           HistoryTypeOK, MediumTypeOK, RxTypeOK, AppTypeOK
    <2> QED
      BY <2>1, <2>2
  <1>3. CASE SendBusy(t)
    <2>1. txq' \in Seq(Item)
      BY <1>0, <1>3, PushProperties, ItemFacts DEF SendBusy, ThreadTypeOK
    <2>8. ThreadTypeOK'
      BY <1>3, <2>1, FinishType DEF SendBusy, ThreadTypeOK
    <2> QED
      BY <1>0, <1>3, <2>8 DEF SendBusy, historyVars, mediumVars, rxVars, appVars,
         HistoryTypeOK, MediumTypeOK, RxTypeOK, AppTypeOK
  <1>4. CASE SendFrame(t)
    <2>1. Goto(t, "record", job[t]) /\ job[t] \in Item /\ job[t].seq \in SeqNums
      BY <1>0, <1>4 DEF SendFrame
    <2>2. "record" \in Steps
      BY DEF Steps
    <2>3. FrameOf(job[t].seq, job[t].pkt) \in Frame
      BY <1>0, <1>4, ItemFacts DEF SendFrame
    <2>8. ThreadTypeOK'
      BY <1>4, <2>1, <2>2, GotoType DEF SendFrame, ThreadTypeOK
    <2> QED
      BY <1>0, <1>4, <2>8, <2>3 DEF SendFrame, historyVars, mediumVars, rxVars, appVars,
         HistoryTypeOK, MediumTypeOK, RxTypeOK, AppTypeOK
  <1>5. CASE SendFails(t)
    <2>8. ThreadTypeOK'
      BY <1>5, FinishType DEF SendFails, ThreadTypeOK
    <2> QED
      BY <1>0, <1>5, <2>8 DEF SendFails, historyVars, mediumVars, rxVars, appVars,
         HistoryTypeOK, MediumTypeOK, RxTypeOK, AppTypeOK
  <1>6. CASE RecordSent(t)
    <2>1. job[t].seq \in SeqNums /\ NewEntry(job[t].pkt) \in Entry
      BY <1>0, <1>6, EntryFacts DEF RecordSent
    <2>2. HistoryTypeOK'
      BY <1>6, <2>1, AppendProperties DEF RecordSent, HistoryTypeOK
    <2>3. ThreadTypeOK'
      BY <1>6, FinishType DEF RecordSent, ThreadTypeOK
    <2> QED
      BY <1>6, <2>2, <2>3 DEF RecordSent, mediumVars, rxVars, appVars,
         MediumTypeOK, RxTypeOK, AppTypeOK
  <1>7. CASE CheckReplay(t)
    <2>1. job[t] \in Item /\ job[t].seq \in SeqNums /\ "resend" \in Steps
      BY <1>0, <1>7 DEF CheckReplay, Steps
    <2>2. ThreadTypeOK'
      <3>1. CASE job[t].seq \in InHistory
        BY <1>7, <2>1, <3>1, GotoType DEF CheckReplay, ThreadTypeOK
      <3>2. CASE job[t].seq \notin InHistory
        BY <1>7, <3>2, FinishType DEF CheckReplay, ThreadTypeOK
      <3> QED
        BY <3>1, <3>2
    <2> QED
      BY <1>7, <2>2 DEF CheckReplay, historyVars, mediumVars, rxVars, appVars,
         HistoryTypeOK, MediumTypeOK, RxTypeOK, AppTypeOK
  <1>8. CASE ResendBusy(t)
    <2>1. txq' \in Seq(Item)
      BY <1>0, <1>8, PushProperties DEF ResendBusy, ThreadTypeOK
    <2>8. ThreadTypeOK'
      BY <1>8, <2>1, FinishType DEF ResendBusy, ThreadTypeOK
    <2> QED
      BY <1>0, <1>8, <2>8 DEF ResendBusy, historyVars, mediumVars, rxVars, appVars,
         HistoryTypeOK, MediumTypeOK, RxTypeOK, AppTypeOK
  <1>9. CASE ResendFrame(t)
    <2>1. Goto(t, "resent", job[t]) /\ job[t] \in Item /\ job[t].seq \in SeqNums
      BY <1>0, <1>9 DEF ResendFrame
    <2>2. "resent" \in Steps
      BY DEF Steps
    <2>3. FrameOf(job[t].seq, job[t].pkt) \in Frame
      BY <1>0, <1>9, ItemFacts DEF ResendFrame
    <2>8. ThreadTypeOK'
      BY <1>9, <2>1, <2>2, GotoType DEF ResendFrame, ThreadTypeOK
    <2> QED
      BY <1>0, <1>9, <2>8, <2>3 DEF ResendFrame, historyVars, mediumVars, rxVars, appVars,
         HistoryTypeOK, MediumTypeOK, RxTypeOK, AppTypeOK
  <1>10. CASE ResendFails(t)
    <2>8. ThreadTypeOK'
      BY <1>10, FinishType DEF ResendFails, ThreadTypeOK
    <2> QED
      BY <1>0, <1>10, <2>8 DEF ResendFails, historyVars, mediumVars, rxVars, appVars,
         HistoryTypeOK, MediumTypeOK, RxTypeOK, AppTypeOK
  <1>11. CASE ResendReturns(t)
    <2>1. Goto(t, "rerecord", job[t]) /\ job[t] \in Item /\ job[t].seq \in SeqNums
      BY <1>0, <1>11 DEF ResendReturns
    <2>2. "rerecord" \in Steps
      BY DEF Steps
    <2>8. ThreadTypeOK'
      BY <1>11, <2>1, <2>2, GotoType DEF ResendReturns, ThreadTypeOK
    <2> QED
      BY <1>0, <1>11, <2>8 DEF ResendReturns, historyVars, mediumVars, rxVars, appVars,
         HistoryTypeOK, MediumTypeOK, RxTypeOK, AppTypeOK
  <1>12. CASE RerecordSent(t)
    <2>1. sent' \in [SeqNums -> Entry \cup {NoEntry}]
      <3>1. CASE job[t].seq \in InHistory
        <4>1. sent[job[t].seq] \in Entry /\ job[t].seq \in SeqNums
          BY <3>1 DEF InHistory, HistoryTypeOK
        <4>2. sent' = [sent EXCEPT ![job[t].seq] = [sent[job[t].seq] EXCEPT !.queued = FALSE]]
          BY <1>12, <3>1, <4>1 DEF RerecordSent, HistoryTypeOK
        <4> QED
          BY <4>1, <4>2, EntryFacts DEF HistoryTypeOK
      <3>2. CASE job[t].seq \notin InHistory
        BY <1>12, <3>2 DEF RerecordSent, HistoryTypeOK
      <3> QED
        BY <3>1, <3>2
    <2>8. ThreadTypeOK'
      BY <1>12, FinishType DEF RerecordSent, ThreadTypeOK
    <2> QED
      BY <1>0, <1>12, <2>8, <2>1 DEF RerecordSent, historyVars, mediumVars, rxVars, appVars,
         HistoryTypeOK, MediumTypeOK, RxTypeOK, AppTypeOK
  <1>13. CASE Requeue(t)
    <2>1. sent' \in [SeqNums -> Entry \cup {NoEntry}] /\ txq' \in Seq(Item)
      BY <1>13, QueueRetransmitType DEF Requeue
    <2>8. ThreadTypeOK'
      BY <1>13, <2>1, FinishType DEF Requeue, ThreadTypeOK
    <2> QED
      BY <1>0, <1>13, <2>8, <2>1 DEF Requeue, historyVars, mediumVars, rxVars, appVars,
         HistoryTypeOK, MediumTypeOK, RxTypeOK, AppTypeOK
  <1> QED
    BY <1>1, <1>2, <1>3, <1>4, <1>5, <1>6, <1>7, <1>8, <1>9, <1>10, <1>11, <1>12, <1>13
       DEF ThreadStep

\* The scan for expired frames.
LEMMA TypeTimeout ==
  ASSUME TypeOK, NEW t \in Threads, NEW s \in SeqNums, Timeout(t, s)
  PROVE  TypeOK'
  <1> USE DEF TypeOK
  <1>0. sent[s] \in Entry
    BY DEF Timeout, Expired, InHistory, HistoryTypeOK
  <1>1. CASE Exhausted(s)
    <2>1. sent_order' \in Seq(SeqNums)
      BY <1>1, OrderWithoutType DEF Timeout, HistoryTypeOK
    <2>2. HistoryTypeOK'
      BY <1>1, <2>1 DEF Timeout, HistoryTypeOK
    <2>3. ThreadTypeOK'
      BY <1>1 DEF Timeout, threadVars, ThreadTypeOK
    <2>4. AppTypeOK'
      BY <1>0, <1>1, EntryFacts DEF Timeout, AppTypeOK
    <2> QED
      BY <2>2, <2>3, <2>4 DEF Timeout, mediumVars, rxVars, MediumTypeOK, RxTypeOK
  <1>2. CASE ~Exhausted(s)
    <2> DEFINE item == ReplayItem(s, sent[s].pkt)
    <2>1. item \in Item /\ item.seq \in SeqNums /\ "requeue" \in Steps
      BY <1>0, ItemFacts, EntryFacts DEF Steps
    <2>2. Goto(t, "requeue", item)
      BY <1>2 DEF Timeout
    <2> HIDE DEF item
    <2>3. ThreadTypeOK'
      BY <2>1, <2>2, GotoType DEF Timeout, ThreadTypeOK
    <2>4. HistoryTypeOK'
      <3>1. sent' = [sent EXCEPT ![s] = [sent[s] EXCEPT !.retries = @ + 1]]
        BY <1>2 DEF Timeout, HistoryTypeOK
      <3>2. [sent[s] EXCEPT !.retries = @ + 1] \in Entry
        BY <1>0, <1>2, EntryFacts DEF Exhausted
      <3> QED
        BY <1>2, <3>1, <3>2 DEF Timeout, HistoryTypeOK
    <2> QED
      BY <1>2, <2>3, <2>4 DEF Timeout, mediumVars, rxVars,
         MediumTypeOK, RxTypeOK, AppTypeOK
  <1> QED
    BY <1>1, <1>2

\* handle_reliable_ack keeps the history well formed.
LEMMA HandleAckType ==
  ASSUME HistoryTypeOK, NEW ack, HandleAck(ack)
  PROVE  /\ sent' \in [SeqNums -> Entry \cup {NoEntry}]
         /\ sent_order' \in Seq(SeqNums)
  <1> USE DEF HistoryTypeOK
  <1>1. CASE Ordered
    <2>1. PICK n \in 0..Len(sent_order) :
            /\ sent_order' = SubSeq(sent_order, n + 1, Len(sent_order))
            /\ sent' = [s \in SeqNums |->
                          IF \E i \in 1..n : sent_order[i] = s THEN NoEntry ELSE sent[s]]
      BY <1>1 DEF HandleAck
    <2>2. Len(sent_order) \in Nat
      BY LenProperties
    <2>3. \A i \in n + 1..Len(sent_order) : sent_order[i] \in SeqNums
      BY <2>1, <2>2, ElementOfSeq
    <2>4. SubSeq(sent_order, n + 1, Len(sent_order)) \in Seq(SeqNums)
      BY <2>1, <2>2, <2>3, SubSeqProperties
    <2> QED
      BY <2>1, <2>4
  <1>2. CASE ~Ordered
    <2>1. OrderWithout(ack) \in Seq(SeqNums)
      BY OrderWithoutType
    <2> QED
      BY <1>2, <2>1 DEF HandleAck
  <1> QED
    BY <1>1, <1>2

\* The sending router handles a control packet.
LEMMA TypeReceiveCtrl ==
  ASSUME TypeOK, NEW m \in ctrl, NEW keep \in BOOLEAN, ReceiveCtrl(m, keep)
  PROVE  TypeOK'
  <1> USE DEF TypeOK
  <1>1. ctrl' \subseteq Ctrl
    BY DEF ReceiveCtrl, MediumTypeOK
  <1>2. HistoryTypeOK' /\ txq' \in Seq(Item)
    <2>1. CASE m.kind = "ack" /\ HandleAck(m.seq) /\ UNCHANGED txq
      BY <2>1, HandleAckType DEF ReceiveCtrl, HistoryTypeOK, ThreadTypeOK
    <2>2. CASE HandlePartialAck(m.seq) /\ UNCHANGED <<sent_order, txq>>
      <3>1. CASE m.seq \in InHistory
        <4>1. sent[m.seq] \in Entry /\ m.seq \in SeqNums
          BY <3>1 DEF InHistory, HistoryTypeOK
        <4>2. sent' = [sent EXCEPT ![m.seq] = [sent[m.seq] EXCEPT !.partial_acked = TRUE]]
          BY <2>2, <3>1, <4>1 DEF HandlePartialAck, HistoryTypeOK
        <4> QED
          BY <2>2, <4>1, <4>2, EntryFacts DEF ReceiveCtrl, HistoryTypeOK, ThreadTypeOK
      <3>2. CASE m.seq \notin InHistory
        BY <2>2, <3>2 DEF HandlePartialAck, ReceiveCtrl, HistoryTypeOK, ThreadTypeOK
      <3> QED
        BY <3>1, <3>2
    <2>3. CASE QueueRetransmit(m.seq) /\ UNCHANGED sent_order
      BY <2>3, QueueRetransmitType DEF ReceiveCtrl, HistoryTypeOK, ThreadTypeOK
    <2> QED
      BY <2>1, <2>2, <2>3 DEF ReceiveCtrl
  <1> QED
    BY <1>1, <1>2 DEF ReceiveCtrl, threadVars, rxVars, appVars,
       ThreadTypeOK, MediumTypeOK, RxTypeOK, AppTypeOK

\* The run released with frame f is a sequence of frames.
LEMMA RunType ==
  ASSUME RxTypeOK, NEW f \in Frame, NEW n \in 0..SeqMax, IsRun(f.seq, n)
  PROVE  /\ Run(f, n) \in Seq(Frame) /\ Len(Run(f, n)) = n + 1
         /\ NextExpected(f.seq, n) \in 0..SeqMax
         /\ LastOfRun(f.seq, n) \in 0..SeqMax
  <1>1. f.seq \in 1..SeqMax /\ SeqMax \in Nat /\ n \in Nat
    BY BoundsAreNat DEF Frame, SeqNums
  <1>2. ASSUME NEW i \in 1..n + 1
        PROVE  (IF i = 1 THEN f
                ELSE FrameOf(RunAt(f.seq, i - 1), buffered[RunAt(f.seq, i - 1)])) \in Frame
    <2>1. CASE i = 1
      BY <2>1
    <2>2. CASE i # 1
      <3>1. i - 1 \in 1..n /\ n # 0
        BY <1>1, <2>2
      <3>2. RunAt(f.seq, i - 1) \in InBuffer
        BY <3>1 DEF IsRun
      <3>3. RunAt(f.seq, i - 1) \in SeqNums /\ buffered[RunAt(f.seq, i - 1)] \in Packets
        BY <3>2 DEF InBuffer, RxTypeOK
      <3> QED
        BY <2>2, <3>3 DEF FrameOf, Frame
    <2> QED
      BY <2>1, <2>2
  <1>3. Run(f, n) \in [1..n + 1 -> Frame]
    BY <1>2 DEF Run
  <1>4. n + 1 \in Nat
    BY <1>1
  <1>5. Run(f, n) \in Seq(Frame)
    BY <1>3, <1>4, SeqDef
  <1>6. Len(Run(f, n)) = n + 1
    BY <1>1, <1>4, <1>5, LenProperties DEF Run
  <1>7. NextExpected(f.seq, n) \in 0..SeqMax
    BY <1>1 DEF NextExpected, RunAt
  <1>8. LastOfRun(f.seq, n) \in 0..SeqMax
    BY <1>1 DEF LastOfRun, RunAt
  <1> QED
    BY <1>5, <1>6, <1>7, <1>8

\* The receiving router takes a frame.
LEMMA TypeReceiveFrame ==
  ASSUME TypeOK, NEW r \in RxThreads, NEW f \in data, NEW keep \in BOOLEAN,
         ReceiveFrame(r, f, keep)
  PROVE  TypeOK'
  <1> USE DEF TypeOK
  <1>0. f \in Frame /\ f.seq \in SeqNums /\ f.pkt \in Packets /\ expected_seq \in 0..SeqMax
    BY DEF MediumTypeOK, RxTypeOK, Frame
  <1>1. CASE ReceiveOld(r, f, keep)
    <2>1. Msg("ack", expected_seq - 1) \in Ctrl
      BY <1>0, <1>1, BoundsAreNat DEF ReceiveOld, Msg, Ctrl, SeqNums
    <2>2. MediumTypeOK'
      BY <1>1, <2>1 DEF ReceiveOld, TakeFrame, MediumTypeOK
    <2> QED
      BY <1>1, <2>2 DEF ReceiveOld, historyVars, threadVars, rxVars, appVars,
         HistoryTypeOK, ThreadTypeOK, RxTypeOK, AppTypeOK
  <1>2. CASE ReceiveAhead(r, f, keep)
    <2>1. Msg("partial", f.seq) \in Ctrl /\ Msg("request", expected_seq) \in Ctrl
      BY <1>0, BoundsAreNat DEF Msg, Ctrl, SeqNums
    <2>2. MediumTypeOK'
      BY <1>2, <2>1 DEF ReceiveAhead, TakeFrame, MediumTypeOK
    <2>3. BufferWith(f.seq, f.pkt) \in [SeqNums -> Packets \cup {NoPkt}]
      BY <1>0 DEF BufferWith, RxTypeOK
    <2>4. RxTypeOK'
      BY <1>2, <2>3 DEF ReceiveAhead, RxTypeOK
    <2> QED
      BY <1>2, <2>2, <2>4 DEF ReceiveAhead, historyVars, threadVars, appVars,
         HistoryTypeOK, ThreadTypeOK, AppTypeOK
  <1>3. CASE ReceiveNext(r, f, keep)
    <2>1. PICK n \in 0..SeqMax :
            /\ IsRun(f.seq, n)
            /\ expected_seq' = NextExpected(f.seq, n)
            /\ buffered' = [x \in SeqNums |->
                 IF \E i \in 1..n : RunAt(f.seq, i) = x THEN NoPkt ELSE buffered[x]]
            /\ Release(r, f, n) \/ AckRefused
      BY <1>3 DEF ReceiveNext
    <2>2. /\ Run(f, n) \in Seq(Frame)
          /\ NextExpected(f.seq, n) \in 0..SeqMax
          /\ LastOfRun(f.seq, n) \in 0..SeqMax
      BY <1>0, <2>1, RunType
    <2>3. Msg("ack", LastOfRun(f.seq, n)) \in Ctrl
      BY <2>2 DEF Msg, Ctrl
    <2>4. MediumTypeOK'
      <3>1. ctrl' \subseteq ctrl \cup {Msg("ack", LastOfRun(f.seq, n))}
        BY <2>1 DEF Release, AckRefused
      <3> QED
        BY <1>3, <2>3, <3>1 DEF ReceiveNext, TakeFrame, MediumTypeOK
    <2>5. buffered' \in [SeqNums -> Packets \cup {NoPkt}]
      BY <2>1 DEF RxTypeOK
    <2>6. release' \in [RxThreads -> Seq(Frame)]
      BY <2>1, <2>2 DEF Release, AckRefused, RxTypeOK
    <2>7. arrival' \in [RxThreads -> BOOLEAN]
      BY <2>1 DEF Release, AckRefused, RxTypeOK
    <2>8. RxTypeOK'
      BY <1>3, <2>1, <2>2, <2>5, <2>6, <2>7 DEF ReceiveNext, RxTypeOK
    <2> QED
      BY <1>3, <2>4, <2>8 DEF ReceiveNext, historyVars, threadVars, appVars,
         HistoryTypeOK, ThreadTypeOK, AppTypeOK
  <1>4. CASE ReceiveUnordered(r, f, keep)
    <2>1. Msg("ack", f.seq) \in Ctrl
      BY <1>0, BoundsAreNat DEF Msg, Ctrl, SeqNums
    <2>2. MediumTypeOK'
      BY <1>4, <2>1 DEF ReceiveUnordered, TakeFrame, MediumTypeOK
    <2>3. release' \in [RxThreads -> Seq(Frame)]
      BY <1>0, <1>4 DEF ReceiveUnordered, RxTypeOK
    <2>4. arrival' \in [RxThreads -> BOOLEAN]
      BY <1>4 DEF ReceiveUnordered, RxTypeOK
    <2>5. RxTypeOK'
      BY <1>4, <2>3, <2>4 DEF ReceiveUnordered, RxTypeOK
    <2> QED
      BY <1>4, <2>2, <2>5 DEF ReceiveUnordered, historyVars, threadVars, appVars,
         HistoryTypeOK, ThreadTypeOK, AppTypeOK
  <1> QED
    BY <1>1, <1>2, <1>3, <1>4 DEF ReceiveFrame

\* The receiving router dispatches, or suppresses, the next released frame.
LEMMA TypeDispatch ==
  ASSUME TypeOK, NEW r \in RxThreads, DispatchStep(r)
  PROVE  TypeOK'
  <1> USE DEF TypeOK
  <1>0. /\ release[r] \in Seq(Frame) /\ release[r] # <<>>
        /\ Head(release[r]) \in Frame /\ Tail(release[r]) \in Seq(Frame)
    <2>1. release[r] \in Seq(Frame) /\ release[r] # <<>>
      BY DEF DispatchStep, Dispatch, DispatchDuplicate, RxTypeOK
    <2> QED
      BY <2>1, PopProperties
  <1>1. arrival' \in [RxThreads -> BOOLEAN]
    BY DEF DispatchStep, Dispatch, DispatchDuplicate, RxTypeOK
  <1>2. CASE DispatchDuplicate(r)
    <2>1. RestAfterDuplicate(r) \in Seq(Frame)
      BY <1>0 DEF RestAfterDuplicate
    <2>2. release' \in [RxThreads -> Seq(Frame)]
      BY <1>2, <2>1 DEF DispatchDuplicate, RxTypeOK
    <2> QED
      BY <1>1, <1>2, <2>2 DEF DispatchDuplicate, historyVars, threadVars, mediumVars, appVars,
         HistoryTypeOK, ThreadTypeOK, MediumTypeOK, RxTypeOK, AppTypeOK
  <1>3. CASE Dispatch(r)
    <2>1. Head(release[r]).pkt \in Packets
      BY <1>0 DEF Frame
    <2>2. recent_rx' \in Seq(Packets)
      <3>1. RoomForOne \in Seq(Packets)
        <4>1. CASE Len(recent_rx) >= MaxRecent
          <5>1. recent_rx \in Seq(Packets) /\ recent_rx # <<>>
            BY <4>1, BoundsAreNat DEF RxTypeOK
          <5> QED
            BY <4>1, <5>1, PopProperties DEF RoomForOne
        <4>2. CASE ~(Len(recent_rx) >= MaxRecent)
          BY <4>2 DEF RoomForOne, RxTypeOK
        <4> QED
          BY <4>1, <4>2
      <3>2. Remember(Head(release[r]).pkt) \in Seq(Packets)
        BY <2>1, <3>1, AppendProperties DEF Remember
      <3> QED
        BY <1>3, <3>1, <3>2 DEF Dispatch, Dispatched, HandlerFails, DispatchFails
    <2>3. release' \in [RxThreads -> Seq(Frame)]
      <3>1. \E rest \in {Tail(release[r]), <<>>} : release' = [release EXCEPT ![r] = rest]
        BY <1>3 DEF Dispatch, Dispatched, HandlerFails, DispatchFails
      <3>2. Tail(release[r]) \in Seq(Frame) /\ <<>> \in Seq(Frame)
        BY <1>0
      <3> QED
        BY <3>1, <3>2 DEF RxTypeOK
    <2>4. delivered' \in Seq(Frame)
      <3>1. Append(delivered, Head(release[r])) \in Seq(Frame)
        BY <1>0, AppendProperties DEF AppTypeOK
      <3>2. delivered' \in {delivered, Append(delivered, Head(release[r]))}
        BY <1>3 DEF Dispatch, Dispatched, HandlerFails, DispatchFails
      <3> QED
        BY <3>1, <3>2 DEF AppTypeOK
    <2> QED
      BY <1>1, <1>3, <2>2, <2>3, <2>4 DEF Dispatch, historyVars, threadVars, mediumVars,
         appVars, HistoryTypeOK, ThreadTypeOK, MediumTypeOK, RxTypeOK, AppTypeOK
  <1> QED
    BY <1>2, <1>3 DEF DispatchStep

\* The medium and the other users of the routers.
LEMMA TypeEnvironment ==
  ASSUME TypeOK, Environment
  PROVE  TypeOK'
  <1> USE DEF TypeOK
  <1>1. ASSUME NEW f \in data, LoseFrame(f)
        PROVE  TypeOK'
    BY <1>1 DEF LoseFrame, historyVars, threadVars, rxVars, appVars,
       HistoryTypeOK, ThreadTypeOK, MediumTypeOK, RxTypeOK, AppTypeOK
  <1>2. ASSUME NEW f \in data, NEW x \in 0..SeqMax, ReceiveCorrupt(f, x)
        PROVE  TypeOK'
    <2>1. Msg("request", IF Ordered /\ expected_seq < x THEN expected_seq ELSE x) \in Ctrl
      BY DEF Msg, Ctrl, RxTypeOK
    <2> QED
      BY <1>2, <2>1 DEF ReceiveCorrupt, historyVars, threadVars, rxVars, appVars,
         HistoryTypeOK, ThreadTypeOK, MediumTypeOK, RxTypeOK, AppTypeOK
  <1>3. ASSUME NEW m \in ctrl, LoseCtrl(m)
        PROVE  TypeOK'
    BY <1>3 DEF LoseCtrl, historyVars, threadVars, rxVars, appVars,
       HistoryTypeOK, ThreadTypeOK, MediumTypeOK, RxTypeOK, AppTypeOK
  <1>4. CASE ClearTx
    BY <1>4 DEF ClearTx, historyVars, threadVars, mediumVars, rxVars, appVars,
       HistoryTypeOK, ThreadTypeOK, MediumTypeOK, RxTypeOK, AppTypeOK
  <1>5. CASE EvictTransmit
    <2>1. txq' \in Seq(Item)
      BY <1>5, PopProperties DEF EvictTransmit, ThreadTypeOK
    <2> QED
      BY <1>5, <2>1 DEF EvictTransmit, historyVars, threadVars, rxVars, appVars,
         HistoryTypeOK, ThreadTypeOK, MediumTypeOK, RxTypeOK, AppTypeOK
  <1>6. CASE EvictBuffered
    BY <1>6 DEF EvictBuffered, historyVars, threadVars, appVars,
       HistoryTypeOK, ThreadTypeOK, MediumTypeOK, RxTypeOK, AppTypeOK
  <1> QED
    BY <1>1, <1>2, <1>3, <1>4, <1>5, <1>6 DEF Environment

\* TypeOK is inductive.
LEMMA TypeStep == TypeOK /\ [Next]_vars => TypeOK'
  <1> SUFFICES ASSUME TypeOK, [Next]_vars PROVE TypeOK'
    OBVIOUS
  <1>1. CASE UNCHANGED vars
    BY <1>1 DEF vars, historyVars, threadVars, mediumVars, rxVars, appVars, TypeOK,
       HistoryTypeOK, ThreadTypeOK, MediumTypeOK, RxTypeOK, AppTypeOK
  <1>2. CASE Next
    BY <1>2, TypeApplication, TypeThreadStep, TypeTimeout, TypeReceiveCtrl,
       TypeReceiveFrame, TypeDispatch, TypeEnvironment DEF Next
  <1> QED
    BY <1>1, <1>2

\* Every reachable state of the link, whatever the medium, the callbacks, the
\* number of threads and the wrap of sequence numbers do, is well typed.
THEOREM TypeCorrect == Spec => []TypeOK
  BY TypeInit, TypeStep, PTL DEF Spec

(***************************************************************************)
(* Sequence numbers.                                                       *)
(***************************************************************************)

\* Fewer sequence numbers are taken than u32 has.
NoWrap == MaxAlloc < SeqMax

\* The invariant holds of two fresh routers.
LEMMA SeqInit == Init => SeqInv
  BY BoundsAreNat DEF Init, SeqInv, InHistory, InBuffer, SeqNums

\* Moving a thread on keeps the bound on the numbers threads work with.
LEMMA GotoSeq ==
  ASSUME ThreadTypeOK, NEW t \in Threads, NEW step, NEW item, NEW b,
         \A u \in Threads : pc[u] \notin {"idle", "alloc"} => job[u].seq <= b,
         step \notin {"idle", "alloc"} => item.seq <= b,
         Goto(t, step, item)
  PROVE  \A u \in Threads : pc'[u] \notin {"idle", "alloc"} => job'[u].seq <= b
  <1> SUFFICES ASSUME NEW u \in Threads, pc'[u] \notin {"idle", "alloc"}
               PROVE  job'[u].seq <= b
    OBVIOUS
  <1>1. /\ pc \in [Threads -> Steps] /\ job \in [Threads -> Item \cup {NoJob}]
        /\ pc' = [pc EXCEPT ![t] = step] /\ job' = [job EXCEPT ![t] = item]
    BY DEF ThreadTypeOK, Goto
  <1>2. CASE u = t
    <2>1. pc'[u] = step /\ job'[u] = item
      BY <1>1, <1>2
    <2> QED
      BY <2>1
  <1>3. CASE u # t
    <2>1. pc'[u] = pc[u] /\ job'[u] = job[u]
      BY <1>1, <1>3
    <2> QED
      BY <2>1
  <1> QED
    BY <1>2, <1>3

\* A thread that finishes works with no number.
LEMMA FinishSeq ==
  ASSUME ThreadTypeOK, NEW t \in Threads, NEW b,
         \A u \in Threads : pc[u] \notin {"idle", "alloc"} => job[u].seq <= b,
         Finish(t)
  PROVE  \A u \in Threads : pc'[u] \notin {"idle", "alloc"} => job'[u].seq <= b
  <1>1. Goto(t, "idle", NoJob) /\ "idle" \in {"idle", "alloc"}
    BY DEF Finish
  <1> HIDE DEF NoJob
  <1> QED
    BY <1>1, GotoSeq

\* Queueing an item keeps the bound on the numbers of queued replays.
LEMMA PushSeq ==
  ASSUME txq \in Seq(Item), NEW item \in Item, Push(item), NEW b,
         \A i \in 1..Len(txq) : txq[i].kind = "replay" => txq[i].seq <= b,
         item.kind = "replay" => item.seq <= b
  PROVE  \A i \in 1..Len(txq') : txq'[i].kind = "replay" => txq'[i].seq <= b
  BY PushProperties

\* So does taking the front item away.
LEMMA PopSeq ==
  ASSUME txq \in Seq(Item), txq # <<>>, NEW b,
         \A i \in 1..Len(txq) : txq[i].kind = "replay" => txq[i].seq <= b
  PROVE  /\ \A i \in 1..Len(Tail(txq)) : Tail(txq)[i].kind = "replay" => Tail(txq)[i].seq <= b
         /\ Head(txq).kind = "replay" => Head(txq).seq <= b
  BY PopProperties

\* The application hands over a packet, or the end-to-end layer a replay.
LEMMA SeqApplication ==
  ASSUME TypeOK, SeqInv, Application
  PROVE  SeqInv'
  <1>0. ThreadTypeOK /\ txq \in Seq(Item)
    BY DEF TypeOK, ThreadTypeOK
  <1>k. \A p \in Packets : DataItem(p).kind # "replay" /\ E2eItem(p).kind # "replay"
    BY DEF DataItem, E2eItem
  <1>1. ASSUME NEW p \in Packets, TxQueue(p)
        PROVE  SeqInv'
    <2>1. \A i \in 1..Len(txq') : txq'[i].kind = "replay" => txq'[i].seq <= Len(log)
      BY <1>0, <1>k, <1>1, PushSeq, ItemFacts DEF TxQueue, SeqInv
    <2> QED
      BY <1>1, <2>1 DEF TxQueue, historyVars, threadVars, mediumVars, rxVars,
         SeqInv, InHistory, InBuffer
  <1>2. ASSUME NEW p \in Packets, EndToEndReplay(p)
        PROVE  SeqInv'
    <2>1. \A i \in 1..Len(txq') : txq'[i].kind = "replay" => txq'[i].seq <= Len(log)
      BY <1>0, <1>k, <1>2, PushSeq, ItemFacts DEF EndToEndReplay, SeqInv
    <2> QED
      BY <1>2, <2>1 DEF EndToEndReplay, historyVars, threadVars, mediumVars, rxVars,
         SeqInv, InHistory, InBuffer
  <1>3. ASSUME NEW t \in Threads, NEW p \in Packets, TxNow(t, p)
        PROVE  SeqInv'
    <2>1. CASE side_tx_gate
      <3>1. \A i \in 1..Len(txq') : txq'[i].kind = "replay" => txq'[i].seq <= Len(log)
        BY <1>0, <1>k, <1>3, <2>1, PushSeq, ItemFacts DEF TxNow, SeqInv
      <3> QED
        BY <1>3, <2>1, <3>1 DEF TxNow, historyVars, threadVars, mediumVars, rxVars,
           SeqInv, InHistory, InBuffer
    <2>2. CASE ~side_tx_gate
      <3>1. Goto(t, "alloc", DataItem(p)) /\ "alloc" \in {"idle", "alloc"}
        BY <1>3, <2>2 DEF TxNow
      <3>2. \A u \in Threads : pc'[u] \notin {"idle", "alloc"} => job'[u].seq <= Len(log)
        BY <1>0, <3>1, GotoSeq DEF SeqInv
      <3> QED
        BY <1>3, <2>2, <3>2 DEF TxNow, historyVars, mediumVars, rxVars,
           SeqInv, InHistory, InBuffer
    <2> QED
      BY <2>1, <2>2
  <1> QED
    BY <1>1, <1>2, <1>3 DEF Application

\* queue_reliable_retransmit queues a number of the history and forgets none.
LEMMA QueueRetransmitSeq ==
  ASSUME TypeOK, SeqInv, NEW s, QueueRetransmit(s)
  PROVE  /\ \A i \in 1..Len(txq') : txq'[i].kind = "replay" => txq'[i].seq <= Len(log)
         /\ \A x \in SeqNums : sent'[x] # NoEntry <=> sent[x] # NoEntry
  <1>0. sent \in [SeqNums -> Entry \cup {NoEntry}] /\ txq \in Seq(Item)
    BY DEF TypeOK, HistoryTypeOK, ThreadTypeOK
  <1>1. CASE s \in InHistory /\ ~sent[s].queued
    <2>1. /\ sent' = [sent EXCEPT ![s].queued = TRUE, ![s].partial_acked = FALSE]
          /\ Push(ReplayItem(s, sent[s].pkt))
      BY <1>1 DEF QueueRetransmit
    <2>2. s \in SeqNums /\ sent[s] \in Entry /\ s <= Len(log)
      BY <1>0, <1>1 DEF InHistory, SeqInv
    <2>3. ReplayItem(s, sent[s].pkt) \in Item /\ ReplayItem(s, sent[s].pkt).seq = s
      BY <2>2, ItemFacts, EntryFacts
    <2>4. \A i \in 1..Len(txq') : txq'[i].kind = "replay" => txq'[i].seq <= Len(log)
      BY <1>0, <2>1, <2>2, <2>3, PushSeq DEF SeqInv
    <2> DEFINE e == [sent[s] EXCEPT !.queued = TRUE, !.partial_acked = FALSE]
    <2>5. sent' = [sent EXCEPT ![s] = e]
      BY <1>0, <2>1, <2>2
    <2>6. e \in Entry
      BY <2>2, EntryFacts
    <2> HIDE DEF e
    <2> QED
      BY <1>0, <2>2, <2>4, <2>5, <2>6, ModelValuesDistinct
  <1>2. CASE ~(s \in InHistory /\ ~sent[s].queued)
    BY <1>0, <1>2 DEF QueueRetransmit, SeqInv
  <1> QED
    BY <1>1, <1>2

\* A thread of the sending router takes a step.
LEMMA SeqThreadStep ==
  ASSUME NoWrap, TypeOK, SeqInv, NEW t \in Threads, ThreadStep(t)
  PROVE  SeqInv'
  <1>0. /\ ThreadTypeOK /\ txq \in Seq(Item) /\ Len(log) \in Nat
        /\ sent \in [SeqNums -> Entry \cup {NoEntry}]
        /\ \A u \in Threads : pc[u] # "idle" => job[u] \in Item /\ job[u].pkt \in Packets
        /\ \A u \in Threads : pc[u] \notin {"idle", "alloc"}
             => job[u].seq \in SeqNums /\ job[u].seq <= Len(log)
    BY ItemFacts, LenProperties DEF TypeOK, ThreadTypeOK, AppTypeOK, HistoryTypeOK, SeqInv
  <1>1. CASE PopTx(t)
    <2>1. Goto(t, IF Head(txq).kind = "replay" THEN "check" ELSE "alloc", Head(txq))
      BY <1>1 DEF PopTx
    <2>2. /\ Head(txq).kind = "replay" => Head(txq).seq <= Len(log)
          /\ \A i \in 1..Len(txq') : txq'[i].kind = "replay" => txq'[i].seq <= Len(log)
      BY <1>0, <1>1, PopSeq DEF PopTx, SeqInv
    <2>3. \A u \in Threads : pc'[u] \notin {"idle", "alloc"} => job'[u].seq <= Len(log)
      BY <1>0, <2>1, <2>2, GotoSeq DEF SeqInv
    <2> QED
      BY <1>1, <2>2, <2>3 DEF PopTx, historyVars, mediumVars, rxVars, appVars,
         SeqInv, InHistory, InBuffer
  <1>2. CASE AllocSeq(t)
    <2>1. CASE HistoryFull
      <3>1. \A u \in Threads : pc'[u] \notin {"idle", "alloc"} => job'[u].seq <= Len(log)
        BY <1>0, <1>2, <2>1, FinishSeq DEF AllocSeq, SeqInv
      <3> QED
        BY <1>2, <2>1, <3>1 DEF AllocSeq, historyVars, mediumVars, rxVars, appVars,
         SeqInv, InHistory, InBuffer
    <2>2. CASE ~HistoryFull
      <3> DEFINE b == Len(log) + 1
      <3>1. /\ next_seq = b /\ next_seq' = b + 1 /\ Len(log') = b /\ b <= MaxAlloc
        <4>1. Len(log) < MaxAlloc /\ next_seq' = NextSeq(next_seq)
              /\ log' = Append(log, job[t].pkt)
          BY <1>2, <2>2 DEF AllocSeq
        <4>2. Len(log') = Len(log) + 1
          BY <1>0, <1>2, <4>1, AppendProperties DEF AllocSeq, TypeOK, AppTypeOK
        <4>3. next_seq = b /\ b # SeqMax
          BY <1>0, <4>1, BoundsAreNat DEF SeqInv, NoWrap
        <4> QED
          BY <1>0, <4>1, <4>2, <4>3, BoundsAreNat DEF NextSeq
      <3>2. job[t] \in Item /\ [job[t] EXCEPT !.seq = next_seq].seq <= b
        <4>1. job[t] \in Item /\ next_seq \in SeqNums
          BY <1>0, <1>2 DEF AllocSeq, TypeOK, HistoryTypeOK
        <4>2. [job[t] EXCEPT !.seq = next_seq].seq = next_seq
          BY <4>1, ItemFacts
        <4> QED
          BY <1>0, <3>1, <4>1, <4>2
      <3>3. Goto(t, "send", [job[t] EXCEPT !.seq = next_seq])
        BY <1>2, <2>2 DEF AllocSeq
      <3>4. \A u \in Threads : pc[u] \notin {"idle", "alloc"} => job[u].seq <= b
        BY <1>0 DEF SeqNums
      <3>5. \A u \in Threads : pc'[u] \notin {"idle", "alloc"} => job'[u].seq <= b
        <4> HIDE DEF b
        <4> QED
          BY <1>0, <3>2, <3>3, <3>4, GotoSeq
      <3>6. /\ \A f \in data : f.seq \in Int
            /\ \A i \in 1..Len(txq) : txq[i].kind = "replay" => txq[i].seq \in Int
            /\ \A s \in SeqNums : s \in Int
        BY ItemFacts DEF TypeOK, MediumTypeOK, Frame, SeqNums, ThreadTypeOK
      <3> HIDE DEF b
      <3>7. b = Len(log) + 1
        BY DEF b
      <3> QED
        BY <1>0, <1>2, <2>2, <3>1, <3>5, <3>6, <3>7 DEF AllocSeq, historyVars, mediumVars, rxVars, appVars,
         SeqInv, InHistory, InBuffer
    <2> QED
      BY <2>1, <2>2
  <1>3. CASE SendBusy(t)
    <2>1. \A i \in 1..Len(txq') : txq'[i].kind = "replay" => txq'[i].seq <= Len(log)
      <3>1. DataItem(job[t].pkt) \in Item /\ DataItem(job[t].pkt).kind # "replay"
        BY <1>0, <1>3, ItemFacts DEF SendBusy, DataItem
      <3> QED
        BY <1>0, <1>3, <3>1, PushSeq DEF SendBusy, SeqInv
    <2>8. \A u \in Threads : pc'[u] \notin {"idle", "alloc"} => job'[u].seq <= Len(log)
      BY <1>0, <1>3, FinishSeq DEF SendBusy, SeqInv
    <2> QED
      BY <1>3, <2>8, <2>1 DEF SendBusy, historyVars, mediumVars, rxVars, appVars,
         SeqInv, InHistory, InBuffer
  <1>4. CASE SendFrame(t)
    <2>1. FrameOf(job[t].seq, job[t].pkt).seq <= Len(log)
      BY <1>0, <1>4 DEF SendFrame, FrameOf
    <2>8. \A u \in Threads : pc'[u] \notin {"idle", "alloc"} => job'[u].seq <= Len(log)
      BY <1>0, <1>4, GotoSeq DEF SendFrame, SeqInv
    <2> QED
      BY <1>4, <2>8, <2>1 DEF SendFrame, historyVars, mediumVars, rxVars, appVars,
         SeqInv, InHistory, InBuffer
  <1>5. CASE SendFails(t)
    <2>8. \A u \in Threads : pc'[u] \notin {"idle", "alloc"} => job'[u].seq <= Len(log)
      BY <1>0, <1>5, FinishSeq DEF SendFails, SeqInv
    <2> QED
      BY <1>5, <2>8 DEF SendFails, historyVars, mediumVars, rxVars, appVars,
         SeqInv, InHistory, InBuffer
  <1>6. CASE RecordSent(t)
    <2>1. \A s \in SeqNums : sent'[s] # NoEntry => s <= Len(log)
      BY <1>0, <1>6 DEF RecordSent, SeqInv, InHistory
    <2>8. \A u \in Threads : pc'[u] \notin {"idle", "alloc"} => job'[u].seq <= Len(log)
      BY <1>0, <1>6, FinishSeq DEF RecordSent, SeqInv
    <2> QED
      BY <1>6, <2>1, <2>8 DEF RecordSent, historyVars, mediumVars, rxVars, appVars,
         SeqInv, InHistory, InBuffer
  <1>7. CASE CheckReplay(t)
    <2>8. \A u \in Threads : pc'[u] \notin {"idle", "alloc"} => job'[u].seq <= Len(log)
      <3>1. CASE job[t].seq \in InHistory
        BY <1>0, <1>7, <3>1, GotoSeq DEF CheckReplay, SeqInv
      <3>2. CASE job[t].seq \notin InHistory
        BY <1>0, <1>7, <3>2, FinishSeq DEF CheckReplay, SeqInv
      <3> QED
        BY <3>1, <3>2
    <2> QED
      BY <1>7, <2>8 DEF CheckReplay, historyVars, mediumVars, rxVars, appVars,
         SeqInv, InHistory, InBuffer
  <1>8. CASE ResendBusy(t)
    <2>1. \A i \in 1..Len(txq') : txq'[i].kind = "replay" => txq'[i].seq <= Len(log)
      BY <1>0, <1>8, PushSeq DEF ResendBusy, SeqInv
    <2>8. \A u \in Threads : pc'[u] \notin {"idle", "alloc"} => job'[u].seq <= Len(log)
      BY <1>0, <1>8, FinishSeq DEF ResendBusy, SeqInv
    <2> QED
      BY <1>8, <2>8, <2>1 DEF ResendBusy, historyVars, mediumVars, rxVars, appVars,
         SeqInv, InHistory, InBuffer
  <1>9. CASE ResendFrame(t)
    <2>1. FrameOf(job[t].seq, job[t].pkt).seq <= Len(log)
      BY <1>0, <1>9 DEF ResendFrame, FrameOf
    <2>8. \A u \in Threads : pc'[u] \notin {"idle", "alloc"} => job'[u].seq <= Len(log)
      BY <1>0, <1>9, GotoSeq DEF ResendFrame, SeqInv
    <2> QED
      BY <1>9, <2>8, <2>1 DEF ResendFrame, historyVars, mediumVars, rxVars, appVars,
         SeqInv, InHistory, InBuffer
  <1>10. CASE ResendFails(t)
    <2>8. \A u \in Threads : pc'[u] \notin {"idle", "alloc"} => job'[u].seq <= Len(log)
      BY <1>0, <1>10, FinishSeq DEF ResendFails, SeqInv
    <2> QED
      BY <1>10, <2>8 DEF ResendFails, historyVars, mediumVars, rxVars, appVars,
         SeqInv, InHistory, InBuffer
  <1>11. CASE ResendReturns(t)
    <2>8. \A u \in Threads : pc'[u] \notin {"idle", "alloc"} => job'[u].seq <= Len(log)
      BY <1>0, <1>11, GotoSeq DEF ResendReturns, SeqInv
    <2> QED
      BY <1>11, <2>8 DEF ResendReturns, historyVars, mediumVars, rxVars, appVars,
         SeqInv, InHistory, InBuffer
  <1>12. CASE RerecordSent(t)
    <2>1. \A s \in SeqNums : sent'[s] # NoEntry => sent[s] # NoEntry
      BY <1>0, <1>12 DEF RerecordSent, InHistory
    <2>8. \A u \in Threads : pc'[u] \notin {"idle", "alloc"} => job'[u].seq <= Len(log)
      BY <1>0, <1>12, FinishSeq DEF RerecordSent, SeqInv
    <2> QED
      BY <1>12, <2>8, <2>1 DEF RerecordSent, historyVars, mediumVars, rxVars, appVars,
         SeqInv, InHistory, InBuffer
  <1>13. CASE Requeue(t)
    <2>1. /\ \A i \in 1..Len(txq') : txq'[i].kind = "replay" => txq'[i].seq <= Len(log)
          /\ \A x \in SeqNums : sent'[x] # NoEntry <=> sent[x] # NoEntry
      BY <1>13, QueueRetransmitSeq DEF Requeue
    <2>8. \A u \in Threads : pc'[u] \notin {"idle", "alloc"} => job'[u].seq <= Len(log)
      BY <1>0, <1>13, FinishSeq DEF Requeue, SeqInv
    <2> QED
      BY <1>13, <2>8, <2>1 DEF Requeue, historyVars, mediumVars, rxVars, appVars,
         SeqInv, InHistory, InBuffer
  <1> QED
    BY <1>1, <1>2, <1>3, <1>4, <1>5, <1>6, <1>7, <1>8, <1>9, <1>10, <1>11, <1>12, <1>13
       DEF ThreadStep

\* The scan for expired frames.
LEMMA SeqTimeout ==
  ASSUME TypeOK, SeqInv, NEW t \in Threads, NEW s \in SeqNums, Timeout(t, s)
  PROVE  SeqInv'
  <1>0. /\ sent \in [SeqNums -> Entry \cup {NoEntry}] /\ sent[s] \in Entry
        /\ s <= Len(log) /\ ThreadTypeOK
    BY DEF TypeOK, HistoryTypeOK, Timeout, Expired, InHistory, SeqInv
  <1>1. \A x \in SeqNums : sent'[x] # NoEntry => sent[x] # NoEntry
    <2>1. sent[s] # NoEntry
      BY <1>0, ModelValuesDistinct
    <2>2. \A x \in SeqNums : x # s => sent'[x] = sent[x]
      <3>1. CASE Exhausted(s)
        BY <1>0, <3>1 DEF Timeout
      <3>2. CASE ~Exhausted(s)
        BY <1>0, <3>2 DEF Timeout
      <3> QED
        BY <3>1, <3>2
    <2> QED
      BY <2>1, <2>2
  <1>2. \A u \in Threads : pc'[u] \notin {"idle", "alloc"} => job'[u].seq <= Len(log)
    <2>1. CASE Exhausted(s)
      BY <2>1 DEF Timeout, threadVars, SeqInv
    <2>2. CASE ~Exhausted(s)
      <3>1. Goto(t, "requeue", ReplayItem(s, sent[s].pkt))
        BY <2>2 DEF Timeout
      <3>2. ReplayItem(s, sent[s].pkt).seq = s
        BY <1>0, ItemFacts, EntryFacts
      <3> QED
        BY <1>0, <3>1, <3>2, GotoSeq DEF SeqInv
    <2> QED
      BY <2>1, <2>2
  <1> QED
    BY <1>1, <1>2 DEF Timeout, historyVars, mediumVars, rxVars, appVars,
         SeqInv, InHistory, InBuffer

\* handle_reliable_ack forgets, and what it forgets is at most the ack.
LEMMA HandleAckForgets ==
  ASSUME HistoryTypeOK, Ordered, NEW ack, HandleAck(ack)
  PROVE  /\ \A x \in SeqNums : sent'[x] # NoEntry => sent[x] # NoEntry
         /\ \A x \in SeqNums : sent[x] # NoEntry /\ sent'[x] = NoEntry => x <= ack
  <1>1. PICK n \in 0..Len(sent_order) :
          /\ \A i \in 1..n : AckCovers(sent_order[i], ack)
          /\ sent' = [s \in SeqNums |->
                        IF \E i \in 1..n : sent_order[i] = s THEN NoEntry ELSE sent[s]]
    BY DEF HandleAck
  <1> QED
    BY <1>1 DEF AckCovers

\* The sending router handles a control packet.
LEMMA SeqReceiveCtrl ==
  ASSUME TypeOK, SeqInv, Ordered, NEW m \in ctrl, NEW keep \in BOOLEAN, ReceiveCtrl(m, keep)
  PROVE  SeqInv'
  <1>0. sent \in [SeqNums -> Entry \cup {NoEntry}] /\ HistoryTypeOK
    BY DEF TypeOK, HistoryTypeOK
  <1>1. /\ \A x \in SeqNums : sent'[x] # NoEntry => sent[x] # NoEntry
        /\ \A i \in 1..Len(txq') : txq'[i].kind = "replay" => txq'[i].seq <= Len(log)
    <2>1. CASE m.kind = "ack" /\ HandleAck(m.seq) /\ UNCHANGED txq
      BY <1>0, <2>1, HandleAckForgets DEF SeqInv
    <2>2. CASE HandlePartialAck(m.seq) /\ UNCHANGED <<sent_order, txq>>
      BY <1>0, <2>2 DEF HandlePartialAck, InHistory, SeqInv
    <2>3. CASE QueueRetransmit(m.seq)
      BY <2>3, QueueRetransmitSeq
    <2> QED
      BY <2>1, <2>2, <2>3 DEF ReceiveCtrl
  <1>2. ctrl' \subseteq ctrl
    BY DEF ReceiveCtrl
  <1> QED
    BY <1>1, <1>2 DEF ReceiveCtrl, threadVars, historyVars, mediumVars, rxVars, appVars,
         SeqInv, InHistory, InBuffer

\* Without a wrap the release loop walks up one number at a time and stops
\* before the first number that is not buffered.
LEMMA RunNoWrap ==
  ASSUME NoWrap, TypeOK, SeqInv, NEW f \in data, f.seq = expected_seq,
         NEW n \in 0..SeqMax, IsRun(f.seq, n)
  PROVE  /\ \A i \in 1..n + 1 : RunAt(f.seq, i) = f.seq + i
         /\ NextExpected(f.seq, n) = f.seq + n + 1
         /\ LastOfRun(f.seq, n) = f.seq + n
         /\ f.seq + n + 1 \notin InBuffer
  <1>0. /\ f.seq \in 1..SeqMax /\ n \in Nat /\ SeqMax \in Nat /\ MaxAlloc \in Nat
        /\ f.seq <= Len(log) /\ Len(log) \in Nat /\ Len(log) <= MaxAlloc /\ MaxAlloc < SeqMax
    BY BoundsAreNat, LenProperties
       DEF TypeOK, MediumTypeOK, AppTypeOK, Frame, SeqNums, SeqInv, NoWrap
  <1>1. f.seq # SeqMax
    BY <1>0
  <1>2. /\ \A i \in 1..n : RunAt(f.seq, i) \in InBuffer
        /\ RunAt(f.seq, n + 1) \notin InBuffer
    BY <1>1 DEF IsRun
  <1>3. f.seq + n < SeqMax
    <2> SUFFICES ASSUME f.seq + n >= SeqMax PROVE FALSE
      BY <1>0
    <2>1. SeqMax - f.seq \in 1..n
      BY <1>0, <1>1
    <2>2. RunAt(f.seq, SeqMax - f.seq) = SeqMax
      BY <1>0, <2>1 DEF RunAt
    <2>3. SeqMax \in InBuffer
      BY <1>2, <2>1, <2>2
    <2> QED
      BY <1>0, <2>3 DEF SeqInv
  <1>4. \A i \in 1..n + 1 : RunAt(f.seq, i) = f.seq + i
    BY <1>0, <1>3 DEF RunAt
  <1>5. n + 1 \in 1..n + 1
    BY <1>0
  <1>6. RunAt(f.seq, n + 1) = f.seq + (n + 1)
    BY <1>4, <1>5
  <1>7. NextExpected(f.seq, n) = f.seq + n + 1
    BY <1>0, <1>1, <1>6 DEF NextExpected
  <1>8. LastOfRun(f.seq, n) = f.seq + n
    BY <1>0, <1>4 DEF LastOfRun
  <1> QED
    BY <1>0, <1>2, <1>4, <1>6, <1>7, <1>8

\* The receiving router takes a frame of an ordered stream.
LEMMA SeqReceiveFrame ==
  ASSUME NoWrap, TypeOK, SeqInv, Ordered, NEW r \in RxThreads, NEW f \in data,
         NEW keep \in BOOLEAN, ReceiveFrame(r, f, keep)
  PROVE  SeqInv'
  <1>0. /\ f.seq \in SeqNums /\ f.seq \in Int /\ f.pkt \in Packets /\ expected_seq \in Nat
        /\ f.seq <= Len(log) /\ data' \subseteq data
        /\ buffered \in [SeqNums -> Packets \cup {NoPkt}]
        /\ Len(log) \in Nat /\ \A s \in SeqNums : s \in Nat
    BY LenProperties DEF TypeOK, MediumTypeOK, RxTypeOK, AppTypeOK, Frame, SeqNums, SeqInv,
       ReceiveFrame, ReceiveOld, ReceiveAhead, ReceiveNext, ReceiveUnordered, TakeFrame
  <1>1. CASE ReceiveOld(r, f, keep)
    <2>1. ctrl' = ctrl \cup {Msg("ack", expected_seq - 1)}
      BY <1>1 DEF ReceiveOld
    <2>2. \A m \in ctrl' : m.kind = "ack" => m.seq < expected_seq
      BY <1>0, <2>1 DEF Msg, SeqInv
    <2> QED
      BY <1>0, <1>1, <2>2 DEF ReceiveOld, threadVars, historyVars, mediumVars, rxVars, appVars,
         SeqInv, InHistory, InBuffer
  <1>2. CASE ReceiveAhead(r, f, keep)
    <2>1. ctrl' = ctrl \cup {Msg("partial", f.seq), Msg("request", expected_seq)}
      BY <1>2 DEF ReceiveAhead
    <2>2. \A m \in ctrl' : m.kind = "ack" => m.seq < expected_seq
      BY <2>1 DEF Msg, SeqInv
    <2>3. buffered' = BufferWith(f.seq, f.pkt) /\ f.seq > expected_seq
      BY <1>2 DEF ReceiveAhead
    <2>4. \A s \in SeqNums : buffered'[s] # NoPkt => expected_seq < s /\ s <= Len(log)
      BY <1>0, <2>3 DEF BufferWith, InBuffer, SeqInv
    <2> QED
      BY <1>0, <1>2, <2>2, <2>4 DEF ReceiveAhead, threadVars, historyVars, mediumVars, rxVars, appVars,
         SeqInv, InHistory, InBuffer
  <1>3. CASE ReceiveNext(r, f, keep)
    <2>1. PICK n \in 0..SeqMax :
            /\ IsRun(f.seq, n)
            /\ expected_seq' = NextExpected(f.seq, n)
            /\ ctrl' \subseteq ctrl \cup {Msg("ack", LastOfRun(f.seq, n))}
            /\ buffered' = [x \in SeqNums |->
                 IF \E i \in 1..n : RunAt(f.seq, i) = x THEN NoPkt ELSE buffered[x]]
      BY <1>3 DEF ReceiveNext, Release, AckRefused
    <2>2. f.seq = expected_seq /\ n \in Nat
      BY <1>3, <2>1, BoundsAreNat DEF ReceiveNext, IsNext
    <2>3. /\ \A i \in 1..n + 1 : RunAt(f.seq, i) = f.seq + i
          /\ NextExpected(f.seq, n) = f.seq + n + 1
          /\ LastOfRun(f.seq, n) = f.seq + n
          /\ f.seq + n + 1 \notin InBuffer
      BY <2>1, <2>2, RunNoWrap
    <2>4. expected_seq' = f.seq + n + 1
      BY <2>1, <2>3
    <2>5. \A m \in ctrl' : m.kind = "ack" => m.seq < expected_seq'
      <3>1. Msg("ack", f.seq + n).seq = f.seq + n
        BY DEF Msg
      <3>2. \A m \in ctrl : m.kind = "ack" => m.seq < f.seq /\ m.seq \in Int
        BY <1>0, <2>2 DEF SeqInv, TypeOK, MediumTypeOK, Ctrl
      <3> QED
        BY <1>0, <2>1, <2>2, <2>3, <2>4, <3>1, <3>2
    <2>6. ASSUME NEW s \in SeqNums, buffered'[s] # NoPkt
          PROVE  expected_seq' < s /\ s <= Len(log)
      <3>1. buffered[s] # NoPkt /\ ~ \E i \in 1..n : RunAt(f.seq, i) = s
        BY <2>1, <2>6
      <3>2. s \in InBuffer /\ f.seq < s /\ s <= Len(log) /\ s # f.seq + n + 1
        BY <2>2, <2>3, <3>1 DEF InBuffer, SeqInv
      <3>3. ~(s <= f.seq + n)
        <4> SUFFICES ASSUME s <= f.seq + n PROVE FALSE
          OBVIOUS
        <4>1. s - f.seq \in 1..n /\ s - f.seq \in 1..n + 1
          BY <1>0, <2>2, <3>2
        <4>2. RunAt(f.seq, s - f.seq) = f.seq + (s - f.seq)
          BY <2>3, <4>1
        <4>3. RunAt(f.seq, s - f.seq) = s
          BY <1>0, <4>2
        <4> QED
          BY <3>1, <4>1, <4>3
      <3> QED
        BY <1>0, <2>2, <2>4, <3>2, <3>3
    <2>7. 1 <= expected_seq'
      BY <1>0, <2>2, <2>4 DEF SeqNums
    <2> QED
      BY <1>0, <1>3, <2>5, <2>6, <2>7 DEF ReceiveNext, historyVars, threadVars,
         SeqInv, InHistory, InBuffer
  <1> QED
    BY <1>1, <1>2, <1>3 DEF ReceiveFrame, ReceiveUnordered

\* Dispatching touches neither the numbers nor the medium.
LEMMA SeqDispatch ==
  ASSUME SeqInv, NEW r \in RxThreads, DispatchStep(r)
  PROVE  SeqInv'
  BY DEF DispatchStep, Dispatch, DispatchDuplicate, historyVars, threadVars, mediumVars,
     SeqInv, InHistory, InBuffer

\* The medium and the other users of the routers.
LEMMA SeqEnvironment ==
  ASSUME TypeOK, SeqInv, Environment
  PROVE  SeqInv'
  <1>1. ASSUME NEW f \in data, LoseFrame(f)
        PROVE  SeqInv'
    BY <1>1 DEF LoseFrame, historyVars, threadVars, rxVars, SeqInv, InHistory, InBuffer
  <1>2. ASSUME NEW f \in data, NEW x \in 0..SeqMax, ReceiveCorrupt(f, x)
        PROVE  SeqInv'
    <2>1. \A m \in ctrl' : m.kind = "ack" => m \in ctrl
      BY <1>2 DEF ReceiveCorrupt, Msg
    <2> QED
      BY <1>2, <2>1 DEF ReceiveCorrupt, historyVars, threadVars, rxVars,
         SeqInv, InHistory, InBuffer
  <1>3. ASSUME NEW m \in ctrl, LoseCtrl(m)
        PROVE  SeqInv'
    BY <1>3 DEF LoseCtrl, historyVars, threadVars, rxVars, SeqInv, InHistory, InBuffer
  <1>4. CASE ClearTx
    BY <1>4 DEF ClearTx, historyVars, threadVars, mediumVars, rxVars,
       SeqInv, InHistory, InBuffer
  <1>5. CASE EvictTransmit
    <2>1. \A i \in 1..Len(txq') : txq'[i].kind = "replay" => txq'[i].seq <= Len(log)
      BY <1>5, PopSeq DEF EvictTransmit, TypeOK, ThreadTypeOK, SeqInv
    <2> QED
      BY <1>5, <2>1 DEF EvictTransmit, historyVars, threadVars, rxVars,
         SeqInv, InHistory, InBuffer
  <1>6. CASE EvictBuffered
    <2>1. \A s \in SeqNums : buffered'[s] # NoPkt => buffered[s] # NoPkt
      BY <1>6 DEF EvictBuffered, TypeOK, RxTypeOK
    <2> QED
      BY <1>6, <2>1 DEF EvictBuffered, historyVars, threadVars, SeqInv, InHistory, InBuffer
  <1> QED
    BY <1>1, <1>2, <1>3, <1>4, <1>5, <1>6 DEF Environment

\* SeqInv is inductive for an ordered stream.
LEMMA SeqStep ==
  ASSUME NoWrap, Ordered
  PROVE  TypeOK /\ SeqInv /\ [Next]_vars => SeqInv'
  <1> SUFFICES ASSUME TypeOK, SeqInv, [Next]_vars PROVE SeqInv'
    OBVIOUS
  <1>1. CASE UNCHANGED vars
    BY <1>1 DEF vars, historyVars, threadVars, mediumVars, rxVars,
       SeqInv, InHistory, InBuffer
  <1>2. CASE Next
    BY <1>2, SeqApplication, SeqThreadStep, SeqTimeout, SeqReceiveCtrl, SeqReceiveFrame,
       SeqDispatch, SeqEnvironment DEF Next
  <1> QED
    BY <1>1, <1>2

(***************************************************************************)
(* In-order dispatch.                                                      *)
(***************************************************************************)

\* One thread runs the receiving router.
SingleRx == \A a, b \in RxThreads : a = b

\* Nothing is dispatched or released at first.
LEMMA OrderInit == Init => OrderInv
  BY DEF Init, OrderInv, DeliveredInOrder

\* Only taking the expected frame and dispatching touch the released frames.
LEMMA OrderUntouched ==
  ASSUME [Next]_vars,
         \A r \in RxThreads, f \in data, keep \in BOOLEAN : ~ReceiveNext(r, f, keep),
         \A r \in RxThreads : ~DispatchStep(r),
         Ordered
  PROVE  UNCHANGED <<expected_seq, release, delivered>>
  <1>1. CASE UNCHANGED vars
    BY <1>1 DEF vars, rxVars
  <1>2. CASE Application
    BY <1>2 DEF Application, TxQueue, EndToEndReplay, TxNow, rxVars
  <1>3. ASSUME NEW t \in Threads, ThreadStep(t) \/ \E s \in SeqNums : Timeout(t, s)
        PROVE  UNCHANGED <<expected_seq, release, delivered>>
    BY <1>3 DEF ThreadStep, PopTx, AllocSeq, SendBusy, SendFrame, SendFails, RecordSent,
       CheckReplay, ResendBusy, ResendFrame, ResendFails, ResendReturns, RerecordSent,
       Requeue, Timeout, rxVars
  <1>4. ASSUME NEW m \in ctrl, NEW keep \in BOOLEAN, ReceiveCtrl(m, keep)
        PROVE  UNCHANGED <<expected_seq, release, delivered>>
    BY <1>4 DEF ReceiveCtrl, rxVars
  <1>5. ASSUME NEW r \in RxThreads, NEW f \in data, NEW keep \in BOOLEAN,
               ReceiveFrame(r, f, keep)
        PROVE  UNCHANGED <<expected_seq, release, delivered>>
    BY <1>5 DEF ReceiveFrame, ReceiveOld, ReceiveAhead, ReceiveUnordered, rxVars
  <1>6. CASE Environment
    BY <1>6 DEF Environment, LoseFrame, ReceiveCorrupt, LoseCtrl, ClearTx, EvictTransmit,
       EvictBuffered, rxVars
  <1> QED
    BY <1>1, <1>2, <1>3, <1>4, <1>5, <1>6 DEF Next

\* The released run goes up one number at a time from the frame that arrived.
LEMMA RunAscends ==
  ASSUME NoWrap, TypeOK, SeqInv, NEW f \in data, f.seq = expected_seq,
         NEW n \in 0..SeqMax, IsRun(f.seq, n)
  PROVE  /\ Len(Run(f, n)) = n + 1
         /\ \A i \in 1..n + 1 : Run(f, n)[i].seq = f.seq + i - 1
  <1>0. f \in Frame /\ f.seq \in Nat /\ n \in Nat
    BY BoundsAreNat DEF TypeOK, MediumTypeOK, Frame, SeqNums
  <1>1. Len(Run(f, n)) = n + 1
    BY <1>0, RunType DEF TypeOK
  <1>2. \A i \in 1..n + 1 : RunAt(f.seq, i) = f.seq + i
    BY RunNoWrap
  <1>3. ASSUME NEW i \in 1..n + 1
        PROVE  Run(f, n)[i].seq = f.seq + i - 1
    <2>1. CASE i = 1
      <3>1. Run(f, n)[i] = f
        BY <2>1 DEF Run
      <3> QED
        BY <1>0, <2>1, <3>1
    <2>2. CASE i # 1
      <3>1. i - 1 \in 1..n + 1 /\ i \in Nat
        BY <1>0, <2>2
      <3>2. Run(f, n)[i].seq = RunAt(f.seq, i - 1)
        BY <2>2 DEF Run, FrameOf
      <3>3. RunAt(f.seq, i - 1) = f.seq + (i - 1)
        BY <1>2, <3>1
      <3> QED
        BY <1>0, <3>1, <3>2, <3>3
    <2> QED
      BY <2>1, <2>2
  <1> QED
    BY <1>1, <1>3

\* The expected frame and the run behind it are released above everything
\* dispatched before and below the new expected_seq.
LEMMA OrderReceiveNext ==
  ASSUME NoWrap, SingleRx, TypeOK, SeqInv, OrderInv, NEW r \in RxThreads, NEW f \in data,
         NEW keep \in BOOLEAN, ReceiveNext(r, f, keep)
  PROVE  OrderInv'
  <1>1. PICK n \in 0..SeqMax :
          /\ IsRun(f.seq, n)
          /\ expected_seq' = NextExpected(f.seq, n)
          /\ release' = [release EXCEPT ![r] = Run(f, n)] \/ release' = release
    BY DEF ReceiveNext, Release, AckRefused
  <1>2. f.seq = expected_seq /\ f.seq \in Nat /\ n \in Nat /\ delivered' = delivered
    BY <1>1, BoundsAreNat DEF ReceiveNext, IsNext, TypeOK, MediumTypeOK, Frame, SeqNums
  <1>3. NextExpected(f.seq, n) = f.seq + n + 1
    BY <1>1, <1>2, RunNoWrap
  <1>4. /\ Len(Run(f, n)) = n + 1
        /\ \A i \in 1..n + 1 : Run(f, n)[i].seq = f.seq + i - 1
    BY <1>1, <1>2, RunAscends
  <1>5. \A q \in RxThreads : release'[q] = Run(f, n) \/ release'[q] = <<>>
    BY <1>1 DEF ReceiveNext, TakeFrame, SingleRx, TypeOK, RxTypeOK
  <1>6. \A i \in 1..Len(delivered) : delivered[i].seq < f.seq /\ delivered[i].seq \in Int
    <2>1. \A i \in 1..Len(delivered) : delivered[i] \in Frame
      BY ElementOfSeq DEF TypeOK, AppTypeOK
    <2>2. \A i \in 1..Len(delivered) : delivered[i].seq \in Int
      BY <2>1 DEF Frame, SeqNums
    <2> QED
      BY <1>2, <2>2 DEF OrderInv
  <1>7. \A i \in 1..Len(delivered') : delivered'[i].seq < expected_seq'
    BY <1>1, <1>2, <1>3, <1>6
  <1>8. ASSUME NEW q \in RxThreads, NEW i \in 1..Len(release'[q])
        PROVE  /\ release'[q][i].seq < expected_seq'
               /\ \A j \in 1..Len(delivered') : delivered'[j].seq < release'[q][i].seq
               /\ \A j \in 1..Len(release'[q]) : i < j => release'[q][i].seq < release'[q][j].seq
    <2>1. release'[q] = Run(f, n) /\ i \in 1..n + 1 /\ Len(release'[q]) = n + 1
      BY <1>4, <1>5, <1>8
    <2>2. release'[q][i].seq = f.seq + i - 1 /\ i \in Nat
      BY <1>2, <1>4, <2>1
    <2>3. release'[q][i].seq < expected_seq'
      BY <1>1, <1>2, <1>3, <2>1, <2>2
    <2>4. \A j \in 1..Len(delivered') : delivered'[j].seq < release'[q][i].seq
      BY <1>2, <1>6, <2>1, <2>2
    <2>5. \A j \in 1..Len(release'[q]) : i < j => release'[q][i].seq < release'[q][j].seq
      BY <1>2, <1>4, <2>1, <2>2
    <2> QED
      BY <2>3, <2>4, <2>5
  <1> QED
    BY <1>2, <1>7, <1>8 DEF OrderInv, DeliveredInOrder

\* Dispatching moves the first released frame behind all that was dispatched.
LEMMA OrderDispatch ==
  ASSUME SingleRx, TypeOK, OrderInv, NEW r \in RxThreads, DispatchStep(r)
  PROVE  OrderInv'
  <1> DEFINE rel == release[r]
             h   == Head(release[r])
  <1>0. /\ rel \in Seq(Frame) /\ rel # <<>> /\ expected_seq' = expected_seq
        /\ delivered \in Seq(Frame) /\ release \in [RxThreads -> Seq(Frame)]
    BY DEF DispatchStep, Dispatch, DispatchDuplicate, TypeOK, RxTypeOK, AppTypeOK
  <1>1. /\ h = rel[1] /\ h \in Frame /\ 1 \in 1..Len(rel) /\ Len(rel) \in Nat
        /\ Tail(rel) \in Seq(Frame)
        /\ Len(Tail(rel)) = Len(rel) - 1
        /\ \A i \in 1..Len(Tail(rel)) : i + 1 \in 1..Len(rel) /\ Tail(rel)[i] = rel[i + 1]
    BY <1>0, HeadTailProperties, EmptySeq, LenProperties
  <1>2. /\ \A i \in 1..Len(rel) :
             /\ rel[i].seq < expected_seq
             /\ \A j \in 1..Len(delivered) : delivered[j].seq < rel[i].seq
             /\ \A j \in 1..Len(rel) : i < j => rel[i].seq < rel[j].seq
        /\ \A i \in 1..Len(delivered) : delivered[i].seq < expected_seq
        /\ \A i, j \in 1..Len(delivered) : i < j => delivered[i].seq < delivered[j].seq
    BY DEF OrderInv, DeliveredInOrder
  <1>3. \E rest \in {Tail(rel), <<>>} :
          /\ release' = [release EXCEPT ![r] = rest]
          /\ \/ delivered' = delivered
             \/ delivered' = Append(delivered, h)
    BY DEF DispatchStep, Dispatch, Dispatched, HandlerFails, DispatchFails,
       DispatchDuplicate, RestAfterDuplicate
  <1>4. PICK rest \in {Tail(rel), <<>>} :
          /\ release' = [release EXCEPT ![r] = rest]
          /\ \/ delivered' = delivered
             \/ delivered' = Append(delivered, h)
    BY <1>3
  <1>5. \A q \in RxThreads : release'[q] = rest
    BY <1>0, <1>4 DEF SingleRx
  <1>6. /\ Len(rest) \in Nat
        /\ \A i \in 1..Len(rest) : i + 1 \in 1..Len(rel) /\ rest[i] = rel[i + 1] /\ i \in Nat
    BY <1>1, <1>4
  <1> HIDE DEF rel, h
  <1>7. ASSUME NEW i \in 1..Len(rest)
        PROVE  /\ rest[i].seq < expected_seq
               /\ h.seq < rest[i].seq
               /\ \A j \in 1..Len(delivered) : delivered[j].seq < rest[i].seq
               /\ \A j \in 1..Len(rest) : i < j => rest[i].seq < rest[j].seq
    <2>1. i + 1 \in 1..Len(rel) /\ rest[i] = rel[i + 1] /\ i \in Nat /\ i >= 1
      BY <1>6
    <2>2. h.seq < rest[i].seq
      BY <1>1, <1>2, <2>1
    <2>3. \A j \in 1..Len(rest) : i < j => rest[i].seq < rest[j].seq
      <3> SUFFICES ASSUME NEW j \in 1..Len(rest), i < j PROVE rest[i].seq < rest[j].seq
        OBVIOUS
      <3>1. j + 1 \in 1..Len(rel) /\ rest[j] = rel[j + 1] /\ j \in Nat /\ i + 1 < j + 1
        BY <1>6, <2>1
      <3>2. rel[i + 1].seq < rel[j + 1].seq
        BY <1>2, <2>1, <3>1
      <3> QED
        BY <2>1, <3>1, <3>2
    <2> QED
      BY <1>2, <2>1, <2>2, <2>3
  <1>8. /\ h.seq < expected_seq
        /\ \A j \in 1..Len(delivered) : delivered[j].seq < h.seq
    BY <1>1, <1>2
  <1>9. CASE delivered' = delivered
    BY <1>0, <1>2, <1>5, <1>7, <1>9 DEF OrderInv, DeliveredInOrder
  <1>10. CASE delivered' = Append(delivered, h)
    <2>1. /\ Len(delivered') = Len(delivered) + 1 /\ Len(delivered) \in Nat
          /\ \A i \in 1..Len(delivered) : delivered'[i] = delivered[i]
          /\ delivered'[Len(delivered) + 1] = h
      BY <1>0, <1>1, <1>10, AppendProperties, LenProperties
    <2>2. DeliveredInOrder'
      <3> SUFFICES ASSUME NEW i \in 1..Len(delivered'), NEW j \in 1..Len(delivered'), i < j
                   PROVE  delivered'[i].seq < delivered'[j].seq
        BY DEF DeliveredInOrder
      <3>1. i \in 1..Len(delivered)
        BY <2>1
      <3>2. CASE j = Len(delivered) + 1
        BY <1>8, <2>1, <3>1, <3>2
      <3>3. CASE j \in 1..Len(delivered)
        BY <1>2, <2>1, <3>1, <3>3
      <3> QED
        BY <2>1, <3>2, <3>3
    <2>3. \A i \in 1..Len(delivered') : delivered'[i].seq < expected_seq
      BY <1>2, <1>8, <2>1
    <2>4. \A i \in 1..Len(rest) : \A j \in 1..Len(delivered') : delivered'[j].seq < rest[i].seq
      BY <1>7, <2>1
    <2> QED
      BY <1>0, <1>5, <1>7, <2>2, <2>3, <2>4 DEF OrderInv
  <1> QED
    BY <1>4, <1>9, <1>10

\* OrderInv is inductive together with TypeOK and SeqInv.
LEMMA OrderStep ==
  ASSUME NoWrap, Ordered, SingleRx
  PROVE  TypeOK /\ SeqInv /\ OrderInv /\ [Next]_vars => OrderInv'
  <1> SUFFICES ASSUME TypeOK, SeqInv, OrderInv, [Next]_vars PROVE OrderInv'
    OBVIOUS
  <1>1. CASE \E r \in RxThreads, f \in data, keep \in BOOLEAN : ReceiveNext(r, f, keep)
    BY <1>1, OrderReceiveNext
  <1>2. CASE \E r \in RxThreads : DispatchStep(r)
    BY <1>2, OrderDispatch
  <1>3. CASE UNCHANGED <<expected_seq, release, delivered>>
    BY <1>3 DEF OrderInv, DeliveredInOrder
  <1> QED
    BY <1>1, <1>2, <1>3, OrderUntouched

\* rx_item and the dispatch loop hand the frames of an ordered stream to the
\* handlers in strictly increasing sequence order, for any number of packets,
\* senders' threads, faults, evictions and retries, while one thread runs the
\* receiving router and sequence numbers do not wrap.
THEOREM InOrder ==
  ASSUME NoWrap, Ordered, SingleRx
  PROVE  Spec => []DeliveredInOrder
  <1>1. Init => TypeOK /\ SeqInv /\ OrderInv
    BY TypeInit, SeqInit, OrderInit
  <1>2. TypeOK /\ SeqInv /\ OrderInv /\ [Next]_vars => (TypeOK /\ SeqInv /\ OrderInv)'
    BY TypeStep, SeqStep, OrderStep
  <1>3. OrderInv => DeliveredInOrder
    BY DEF OrderInv
  <1> QED
    BY <1>1, <1>2, <1>3, PTL DEF Spec

(***************************************************************************)
(* Safe forgetting.                                                        *)
(***************************************************************************)

\* What ForgetsOnlyTaken says of one step of an ordered stream.
ForgetStep ==
  \A s \in SeqNums : (sent[s] # NoEntry /\ sent'[s] = NoEntry)
    => Taken(s) \/ sent[s].retries = MaxRetries

\* Sending, recording and replaying never take a frame out of the history.
LEMMA ThreadStepKeeps ==
  ASSUME TypeOK, SeqInv, NEW t \in Threads, ThreadStep(t)
  PROVE  \A s \in SeqNums : sent[s] # NoEntry => sent'[s] # NoEntry
  <1>0. /\ sent \in [SeqNums -> Entry \cup {NoEntry}]
        /\ \A u \in Threads : pc[u] # "idle" => job[u] \in Item /\ job[u].pkt \in Packets
        /\ \A u \in Threads : pc[u] \notin {"idle", "alloc"} => job[u].seq \in SeqNums
    BY ItemFacts DEF TypeOK, ThreadTypeOK, HistoryTypeOK
  <1>1. CASE RecordSent(t)
    <2>1. NewEntry(job[t].pkt) # NoEntry
      BY <1>0, <1>1, EntryFacts, ModelValuesDistinct DEF RecordSent
    <2>2. sent' = [sent EXCEPT ![job[t].seq] = NewEntry(job[t].pkt)] /\ job[t].seq \in SeqNums
      BY <1>0, <1>1 DEF RecordSent
    <2> QED
      BY <1>0, <2>1, <2>2
  <1>2. CASE RerecordSent(t)
    <2>1. CASE job[t].seq \in InHistory
      <3> DEFINE s == job[t].seq
                 e == [sent[s] EXCEPT !.queued = FALSE]
      <3>1. s \in SeqNums /\ sent[s] \in Entry
        BY <1>0, <2>1 DEF InHistory
      <3>2. sent' = [sent EXCEPT ![s] = e]
        BY <1>0, <1>2, <2>1, <3>1 DEF RerecordSent
      <3>3. e # NoEntry
        BY <3>1, EntryFacts, ModelValuesDistinct
      <3> HIDE DEF e
      <3> QED
        BY <1>0, <3>1, <3>2, <3>3
    <2>2. CASE job[t].seq \notin InHistory
      BY <1>2, <2>2 DEF RerecordSent
    <2> QED
      BY <2>1, <2>2
  <1>3. CASE Requeue(t)
    BY <1>3, QueueRetransmitSeq DEF Requeue
  <1>4. CASE PopTx(t) \/ AllocSeq(t) \/ SendBusy(t) \/ SendFrame(t) \/ SendFails(t)
    BY <1>4 DEF PopTx, AllocSeq, SendBusy, SendFrame, SendFails, historyVars
  <1>5. CASE \/ CheckReplay(t) \/ ResendBusy(t) \/ ResendFrame(t) \/ ResendFails(t)
             \/ ResendReturns(t)
    BY <1>5 DEF CheckReplay, ResendBusy, ResendFrame, ResendFails, ResendReturns, historyVars
  <1> QED
    BY <1>1, <1>2, <1>3, <1>4, <1>5 DEF ThreadStep

\* The scan takes a frame out of the history when its retries are used up.
LEMMA TimeoutForgets ==
  ASSUME TypeOK, NEW t \in Threads, NEW s \in SeqNums, Timeout(t, s)
  PROVE  ForgetStep
  <1>0. sent \in [SeqNums -> Entry \cup {NoEntry}] /\ sent[s] \in Entry
    BY DEF TypeOK, HistoryTypeOK, Timeout, Expired, InHistory
  <1>1. CASE Exhausted(s)
    <2>1. sent' = [sent EXCEPT ![s] = NoEntry]
      BY <1>1 DEF Timeout
    <2>2. sent[s].retries = MaxRetries
      BY <1>0, <1>1, BoundsAreNat DEF Exhausted, Entry
    <2> QED
      BY <1>0, <2>1, <2>2 DEF ForgetStep
  <1>2. CASE ~Exhausted(s)
    <2> DEFINE e == [sent[s] EXCEPT !.retries = @ + 1]
    <2>1. sent' = [sent EXCEPT ![s] = e]
      BY <1>0, <1>2 DEF Timeout
    <2>2. e # NoEntry
      BY <1>0, <1>2, EntryFacts, ModelValuesDistinct DEF Exhausted
    <2> HIDE DEF e
    <2> QED
      BY <1>0, <2>1, <2>2 DEF ForgetStep
  <1> QED
    BY <1>1, <1>2

\* An acknowledgement takes out only what the receiver has passed.
LEMMA CtrlForgets ==
  ASSUME TypeOK, SeqInv, Ordered, NEW m \in ctrl, NEW keep \in BOOLEAN, ReceiveCtrl(m, keep)
  PROVE  ForgetStep
  <1>0. sent \in [SeqNums -> Entry \cup {NoEntry}] /\ HistoryTypeOK
    BY DEF TypeOK, HistoryTypeOK
  <1>1. CASE m.kind = "ack" /\ HandleAck(m.seq)
    <2>1. \A x \in SeqNums : sent[x] # NoEntry /\ sent'[x] = NoEntry => x <= m.seq
      BY <1>0, <1>1, HandleAckForgets
    <2>2. m.seq < expected_seq /\ m.seq \in Int /\ expected_seq \in Int
      BY <1>1 DEF SeqInv, TypeOK, MediumTypeOK, RxTypeOK, Ctrl
    <2>3. \A x \in SeqNums : x \in Int
      BY DEF SeqNums
    <2> QED
      BY <2>1, <2>2, <2>3 DEF ForgetStep, Taken
  <1>2. CASE HandlePartialAck(m.seq)
    <2>1. CASE m.seq \in InHistory
      <3> DEFINE e == [sent[m.seq] EXCEPT !.partial_acked = TRUE]
      <3>1. m.seq \in SeqNums /\ sent[m.seq] \in Entry
        BY <1>0, <2>1 DEF InHistory
      <3>2. sent' = [sent EXCEPT ![m.seq] = e]
        BY <1>0, <1>2, <2>1, <3>1 DEF HandlePartialAck
      <3>3. e # NoEntry
        BY <3>1, EntryFacts, ModelValuesDistinct
      <3> HIDE DEF e
      <3> QED
        BY <1>0, <3>1, <3>2, <3>3 DEF ForgetStep
    <2>2. CASE m.seq \notin InHistory
      BY <1>2, <2>2 DEF HandlePartialAck, ForgetStep
    <2> QED
      BY <2>1, <2>2
  <1>3. CASE QueueRetransmit(m.seq)
    BY <1>3, QueueRetransmitSeq DEF ForgetStep
  <1> QED
    BY <1>1, <1>2, <1>3 DEF ReceiveCtrl

\* No other step touches the history.
LEMMA ForgetAlways ==
  ASSUME TypeOK, SeqInv, Ordered, [Next]_vars
  PROVE  ForgetStep
  <1>1. CASE sent' = sent
    BY <1>1 DEF ForgetStep
  <1>2. ASSUME NEW t \in Threads, ThreadStep(t)
        PROVE  ForgetStep
    BY <1>2, ThreadStepKeeps DEF ForgetStep
  <1>3. UNCHANGED vars \/ Application \/ Environment => sent' = sent
    BY DEF vars, historyVars, Application, TxQueue, EndToEndReplay, TxNow, Environment,
       LoseFrame, ReceiveCorrupt, LoseCtrl, ClearTx, EvictTransmit, EvictBuffered
  <1>4. ASSUME NEW r \in RxThreads,
               DispatchStep(r) \/ \E f \in data, keep \in BOOLEAN : ReceiveFrame(r, f, keep)
        PROVE  sent' = sent
    BY <1>4 DEF historyVars, DispatchStep, Dispatch, DispatchDuplicate, ReceiveFrame,
       ReceiveOld, ReceiveAhead, ReceiveNext, ReceiveUnordered
  <1> QED
    BY <1>1, <1>2, <1>3, <1>4, TimeoutForgets, CtrlForgets DEF Next

\* handle_reliable_ack and process_reliable_timeouts never drop from the history
\* an ordered frame the receiver still waits for, unless its retries are used up:
\* a stale, reordered or duplicated control packet cannot make it so.
THEOREM SafeForget ==
  ASSUME NoWrap, Ordered
  PROVE  Spec => ForgetsOnlyTaken
  <1>1. Init => TypeOK /\ SeqInv
    BY TypeInit, SeqInit
  <1>2. TypeOK /\ SeqInv /\ [Next]_vars => (TypeOK /\ SeqInv)'
    BY TypeStep, SeqStep
  <1>3. TypeOK /\ SeqInv /\ [Next]_vars => [ForgetStep]_vars
    BY ForgetAlways
  <1>4. Spec => [][ForgetStep]_vars
    BY <1>1, <1>2, <1>3, PTL DEF Spec
  <1> QED
    BY <1>4 DEF ForgetsOnlyTaken, ForgetStep


(***************************************************************************)
(* The gate.                                                               *)
(***************************************************************************)

\* A TX callback runs on the thread.
Calling == {"record", "resent"}

\* A step that begins and ends no TX callback.
Passes(t, step) ==
  /\ pc' = [pc EXCEPT ![t] = step] /\ side_tx_gate' = side_tx_gate
  /\ pc[t] \notin Calling /\ step \notin Calling

\* ReentryGate::try_enter succeeds and the callback begins.
Enters(t, step) ==
  /\ pc' = [pc EXCEPT ![t] = step] /\ ~side_tx_gate /\ side_tx_gate' = TRUE
  /\ pc[t] \notin Calling /\ step \in Calling

\* The callback has returned and the guard is dropped.
Leaves(t, step) ==
  /\ pc' = [pc EXCEPT ![t] = step] /\ side_tx_gate' = FALSE
  /\ pc[t] \in Calling /\ step \notin Calling

\* What the steps of the sending threads do to the gate.
LEMMA GateMoves ==
  ASSUME NEW t \in Threads, ThreadStep(t) \/ \E s \in SeqNums : Timeout(t, s)
  PROVE  \/ UNCHANGED <<pc, side_tx_gate>>
         \/ \E step \in Steps : Passes(t, step) \/ Enters(t, step) \/ Leaves(t, step)
  <1> USE DEF Passes, Enters, Leaves, Calling, Steps, Goto, Finish, threadVars
  <1>1. ASSUME NEW s \in SeqNums, Timeout(t, s)
        PROVE  UNCHANGED <<pc, side_tx_gate>> \/ Passes(t, "requeue")
    <2>1. CASE Exhausted(s)
      BY <1>1, <2>1 DEF Timeout
    <2>2. CASE ~Exhausted(s)
      BY <1>1, <2>2 DEF Timeout
    <2> QED
      BY <2>1, <2>2
  <1>2. CASE PopTx(t)
    <2>1. Passes(t, "check") \/ Passes(t, "alloc")
      BY <1>2 DEF PopTx
    <2> QED
      BY <2>1
  <1>3. CASE AllocSeq(t)
    <2>1. Passes(t, "idle") \/ Passes(t, "send")
      BY <1>3 DEF AllocSeq
    <2> QED
      BY <2>1
  <1>4. CASE SendBusy(t) \/ ResendBusy(t)
    <2>1. Passes(t, "idle")
      BY <1>4 DEF SendBusy, ResendBusy
    <2> QED
      BY <2>1
  <1>5. CASE SendFrame(t) \/ ResendFrame(t)
    <2>1. Enters(t, "record") \/ Enters(t, "resent")
      BY <1>5 DEF SendFrame, ResendFrame, GateFree
    <2> QED
      BY <2>1
  <1>6. CASE SendFails(t) \/ RecordSent(t) \/ ResendFails(t) \/ ResendReturns(t)
    <2>1. Leaves(t, "idle") \/ Leaves(t, "rerecord")
      BY <1>6 DEF SendFails, RecordSent, ResendFails, ResendReturns
    <2> QED
      BY <2>1
  <1>7. CASE CheckReplay(t)
    <2>1. Passes(t, "resend") \/ Passes(t, "idle")
      BY <1>7 DEF CheckReplay
    <2> QED
      BY <2>1
  <1>8. CASE RerecordSent(t) \/ Requeue(t)
    <2>1. Passes(t, "idle")
      BY <1>8 DEF RerecordSent, Requeue
    <2> QED
      BY <2>1
  <1>9. \A s \in SeqNums : Timeout(t, s) => \/ UNCHANGED <<pc, side_tx_gate>>
                                            \/ \E step \in Steps : Passes(t, step)
    BY <1>1
  <1> QED
    BY <1>2, <1>3, <1>4, <1>5, <1>6, <1>7, <1>8, <1>9 DEF ThreadStep

\* Nobody else moves a thread of the sending router inside a callback: tx called
\* by the application starts a thread only.
LEMMA GateOthers ==
  ASSUME [Next]_vars,
         \A t \in Threads : ~ThreadStep(t) /\ \A s \in SeqNums : ~Timeout(t, s)
  PROVE  \/ UNCHANGED <<pc, side_tx_gate>>
         \/ \E t \in Threads : Passes(t, "alloc")
  <1>1. CASE UNCHANGED vars
    BY <1>1 DEF vars, threadVars
  <1>2. ASSUME NEW p \in Packets, TxQueue(p) \/ EndToEndReplay(p)
        PROVE  UNCHANGED <<pc, side_tx_gate>>
    BY <1>2 DEF TxQueue, EndToEndReplay, threadVars
  <1>3. ASSUME NEW t \in Threads, NEW p \in Packets, TxNow(t, p)
        PROVE  UNCHANGED <<pc, side_tx_gate>> \/ Passes(t, "alloc")
    <2>1. CASE side_tx_gate
      BY <1>3, <2>1 DEF TxNow, threadVars
    <2>2. CASE ~side_tx_gate
      BY <1>3, <2>2 DEF TxNow, Goto, Passes, Calling
    <2> QED
      BY <2>1, <2>2
  <1>4. ASSUME NEW m \in ctrl, NEW keep \in BOOLEAN, ReceiveCtrl(m, keep)
        PROVE  UNCHANGED <<pc, side_tx_gate>>
    BY <1>4 DEF ReceiveCtrl, threadVars
  <1>5. ASSUME NEW r \in RxThreads,
               DispatchStep(r) \/ \E f \in data, keep \in BOOLEAN : ReceiveFrame(r, f, keep)
        PROVE  UNCHANGED <<pc, side_tx_gate>>
    BY <1>5 DEF threadVars, DispatchStep, Dispatch, DispatchDuplicate, ReceiveFrame,
       ReceiveOld, ReceiveAhead, ReceiveNext, ReceiveUnordered
  <1>6. CASE Environment
    BY <1>6 DEF Environment, LoseFrame, ReceiveCorrupt, LoseCtrl, ClearTx, EvictTransmit,
       EvictBuffered, threadVars
  <1> QED
    BY <1>1, <1>2, <1>3, <1>4, <1>5, <1>6 DEF Next, Application

\* Each of these moves keeps the gate closed exactly while one callback runs.
LEMMA GateKept ==
  ASSUME pc \in [Threads -> Steps], GateExclusive, NEW t \in Threads, NEW step,
         Passes(t, step) \/ Enters(t, step) \/ Leaves(t, step)
  PROVE  GateExclusive'
  <1>0. GateExclusive <=> /\ side_tx_gate <=> \E u \in Threads : pc[u] \in Calling
                          /\ \A u, v \in Threads : (pc[u] \in Calling /\ pc[v] \in Calling) => u = v
    BY DEF GateExclusive, Calling
  <1>1. GateExclusive' <=> /\ side_tx_gate' <=> \E u \in Threads : pc'[u] \in Calling
                           /\ \A u, v \in Threads : (pc'[u] \in Calling /\ pc'[v] \in Calling) => u = v
    BY DEF GateExclusive, Calling
  <1>2. /\ pc' = [pc EXCEPT ![t] = step] /\ pc'[t] = step
        /\ \A u \in Threads : u # t => pc'[u] = pc[u]
    BY DEF Passes, Enters, Leaves
  <1>3. CASE Passes(t, step)
    BY <1>0, <1>1, <1>2, <1>3 DEF Passes
  <1>4. CASE Enters(t, step)
    BY <1>0, <1>1, <1>2, <1>4 DEF Enters
  <1>5. CASE Leaves(t, step)
    BY <1>0, <1>1, <1>2, <1>5 DEF Leaves
  <1> QED
    BY <1>3, <1>4, <1>5

\* ReentryGate lets one TX callback run at a time, whatever threads send, replay
\* and fail, and every path out of a callback releases it.
THEOREM GateHolds == Spec => []GateExclusive
  <1>1. Init => GateExclusive
    BY DEF Init, GateExclusive
  <1>2. TypeOK /\ GateExclusive /\ [Next]_vars => GateExclusive'
    <2> SUFFICES ASSUME TypeOK, GateExclusive, [Next]_vars PROVE GateExclusive'
      OBVIOUS
    <2>0. pc \in [Threads -> Steps]
      BY DEF TypeOK, ThreadTypeOK
    <2>1. CASE UNCHANGED <<pc, side_tx_gate>>
      BY <2>1 DEF GateExclusive
    <2>2. CASE \E t \in Threads : ThreadStep(t) \/ \E s \in SeqNums : Timeout(t, s)
      BY <2>0, <2>1, <2>2, GateMoves, GateKept
    <2>3. CASE \A t \in Threads : ~ThreadStep(t) /\ \A s \in SeqNums : ~Timeout(t, s)
      BY <2>0, <2>1, <2>3, GateOthers, GateKept
    <2> QED
      BY <2>2, <2>3
  <1> QED
    BY <1>1, <1>2, TypeCorrect, PTL DEF Spec

(***************************************************************************)
(* The history and its order.                                              *)
(***************************************************************************)

\* q lists the members of H, each once.
Listed(q, H) ==
  /\ \A i \in 1..Len(q) : q[i] \in H
  /\ \A s \in H : \E i \in 1..Len(q) : q[i] = s
  /\ \A i, j \in 1..Len(q) : q[i] = q[j] => i = j

\* HistoryMatchesOrder in these terms.
LEMMA MatchesIsListed ==
  ASSUME sent_order \in Seq(SeqNums)
  PROVE  HistoryMatchesOrder <=> Listed(sent_order, InHistory)
  <1>1. DOMAIN sent_order = 1..Len(sent_order)
    BY LenProperties
  <1>2. Range(sent_order) = {sent_order[i] : i \in 1..Len(sent_order)}
    BY <1>1 DEF Range
  <1>3. IsInjective(sent_order)
          <=> \A i, j \in 1..Len(sent_order) : sent_order[i] = sent_order[j] => i = j
    BY <1>1 DEF IsInjective
  <1>4. Range(sent_order) = InHistory
          <=> /\ \A i \in 1..Len(sent_order) : sent_order[i] \in InHistory
              /\ \A s \in InHistory : \E i \in 1..Len(sent_order) : sent_order[i] = s
    BY <1>2
  <1> QED
    BY <1>3, <1>4 DEF HistoryMatchesOrder, Listed

\* sent_order.push_back of a new number.
LEMMA ListedAppend ==
  ASSUME NEW S, NEW q \in Seq(S), NEW H, Listed(q, H), NEW s \in S, s \notin H
  PROVE  Listed(Append(q, s), H \cup {s})
  <1> DEFINE n == Len(q)
             a == Append(q, s)
  <1>1. /\ n \in Nat /\ Len(a) = n + 1 /\ a[n + 1] = s
        /\ \A i \in 1..n : a[i] = q[i]
    BY AppendProperties, LenProperties
  <1>2. /\ \A i \in 1..n : q[i] \in H
        /\ \A x \in H : \E i \in 1..n : q[i] = x
        /\ \A i, j \in 1..n : q[i] = q[j] => i = j
    BY DEF Listed
  <1> HIDE DEF n, a
  <1>3. \A i \in 1..n + 1 : i \in 1..n \/ i = n + 1
    BY <1>1
  <1>4. \A i \in 1..n + 1 : a[i] \in H \cup {s}
    BY <1>1, <1>2, <1>3
  <1>5. \A x \in H \cup {s} : \E i \in 1..n + 1 : a[i] = x
    <2>1. ASSUME NEW x \in H PROVE \E i \in 1..n + 1 : a[i] = x
      <3>1. PICK i \in 1..n : q[i] = x
        BY <1>2
      <3>2. i \in 1..n + 1 /\ a[i] = x
        BY <1>1, <3>1
      <3> QED
        BY <3>2
    <2>2. n + 1 \in 1..n + 1
      BY <1>1
    <2> QED
      BY <1>1, <2>1, <2>2
  <1>6. ASSUME NEW i \in 1..n + 1, NEW j \in 1..n + 1, a[i] = a[j] PROVE i = j
    BY <1>1, <1>2, <1>3, <1>6
  <1> QED
    BY <1>1, <1>4, <1>5, <1>6 DEF Listed, a

\* One number is taken out of the list.
LEMMA ListedRemove ==
  ASSUME NEW S, NEW q \in Seq(S), NEW H, Listed(q, H), NEW k \in 1..Len(q)
  PROVE  Listed(RemoveAt(q, k), H \ {q[k]})
  <1> DEFINE n == Len(q)
             a == RemoveAt(q, k)
  <1>1. n \in Nat /\ Len(a) = n - 1
        /\ \A i \in 1..n - 1 : a[i] = IF i < k THEN q[i] ELSE q[i + 1]
    <2>1. Len(a) = n - 1
      BY RemoveAtProperties
    <2>2. ASSUME NEW i \in 1..n - 1 PROVE a[i] = IF i < k THEN q[i] ELSE q[i + 1]
      BY RemoveAtProperties
    <2> QED
      BY <2>1, <2>2, LenProperties
  <1>2. /\ \A i \in 1..n : q[i] \in H
        /\ \A x \in H : \E i \in 1..n : q[i] = x
        /\ \A i, j \in 1..n : q[i] = q[j] => i = j
    BY DEF Listed
  <1>3. k \in 1..n
    OBVIOUS
  <1> HIDE DEF n, a
  <1> DEFINE at(i) == IF i < k THEN i ELSE i + 1
  <1>4. \A i \in 1..n - 1 : a[i] = q[at(i)] /\ at(i) \in 1..n /\ at(i) # k
    BY <1>1, <1>3
  <1>5. \A i, j \in 1..n - 1 : at(i) = at(j) => i = j
    BY <1>1, <1>3
  <1>6. \A i \in 1..n : i # k => \E j \in 1..n - 1 : at(j) = i
    <2> TAKE i \in 1..n
    <2> HAVE i # k
    <2>1. CASE i < k
      <3>1. i \in 1..n - 1 /\ at(i) = i
        BY <1>1, <1>3, <2>1
      <3> QED
        BY <3>1
    <2>2. CASE i > k
      <3>1. i - 1 \in 1..n - 1 /\ at(i - 1) = i
        BY <1>1, <1>3, <2>2
      <3> QED
        BY <3>1
    <2> QED
      BY <1>1, <1>3, <2>1, <2>2
  <1> HIDE DEF at
  <1>7. \A i \in 1..n - 1 : a[i] \in H \ {q[k]}
    BY <1>2, <1>3, <1>4
  <1>8. \A x \in H \ {q[k]} : \E i \in 1..n - 1 : a[i] = x
    BY <1>2, <1>3, <1>4, <1>6
  <1>9. \A i, j \in 1..n - 1 : a[i] = a[j] => i = j
    BY <1>2, <1>4, <1>5
  <1> QED
    BY <1>1, <1>7, <1>8, <1>9 DEF Listed, a

\* The front of the list is taken off.
LEMMA ListedDrop ==
  ASSUME NEW S, NEW q \in Seq(S), NEW H, Listed(q, H), NEW k \in 0..Len(q)
  PROVE  Listed(SubSeq(q, k + 1, Len(q)), {x \in H : ~ \E i \in 1..k : q[i] = x})
  <1> DEFINE n == Len(q)
             a == SubSeq(q, k + 1, Len(q))
             G == {x \in H : ~ \E i \in 1..k : q[i] = x}
  <1>0. n \in Nat /\ \A i \in 1..n : q[i] \in S
    BY LenProperties, ElementOfSeq
  <1>1. Len(a) = n - k /\ \A i \in 1..n - k : a[i] = q[k + i]
    <2>1. \A i \in k + 1..n : q[i] \in S
      BY <1>0
    <2>2. Len(a) = IF k + 1 <= n THEN n - (k + 1) + 1 ELSE 0
      BY <1>0, <2>1, SubSeqProperties
    <2>3. ASSUME NEW i \in 1..n - k PROVE a[i] = q[k + i]
      <3>1. i \in 1..n - (k + 1) + 1 /\ k + 1 <= n
        BY <1>0
      <3>2. a[i] = q[(k + 1) + i - 1]
        BY <1>0, <2>1, <3>1, SubSeqProperties
      <3>3. (k + 1) + i - 1 = k + i
        BY <1>0
      <3> QED
        BY <3>2, <3>3
    <2> QED
      BY <1>0, <2>2, <2>3
  <1>2. /\ \A i \in 1..n : q[i] \in H
        /\ \A x \in H : \E i \in 1..n : q[i] = x
        /\ \A i, j \in 1..n : q[i] = q[j] => i = j
    BY DEF Listed
  <1>3. k \in 0..n
    OBVIOUS
  <1> HIDE DEF n, a
  <1>4. \A i \in 1..n - k : a[i] = q[k + i] /\ k + i \in 1..n /\ k + i \notin 1..k
    BY <1>0, <1>1, <1>3
  <1>5. \A i \in 1..k : i \in 1..n
    BY <1>0, <1>3
  <1>6. \A i \in 1..n - k : a[i] \in G
    BY <1>2, <1>4, <1>5
  <1>7. ASSUME NEW x \in G PROVE \E i \in 1..n - k : a[i] = x
    <2>1. PICK i \in 1..n : q[i] = x
      BY <1>2
    <2>2. i \notin 1..k
      BY <2>1
    <2>3. i - k \in 1..n - k /\ k + (i - k) = i
      BY <1>0, <1>3, <2>2
    <2> QED
      BY <1>4, <2>1, <2>3
  <1>8. ASSUME NEW i \in 1..n - k, NEW j \in 1..n - k, a[i] = a[j] PROVE i = j
    <2>1. k + i = k + j
      BY <1>2, <1>4, <1>8
    <2> QED
      BY <1>0, <1>3, <2>1
  <1> QED
    BY <1>1, <1>6, <1>7, <1>8 DEF Listed, a

\* A thread has taken a number and has not recorded its frame.
Sending == {"send", "record"}

\* The inductive invariant of the history: numbers below next_seq are never
\* handed out again, so the number a thread is sending is neither recorded nor
\* sent by another thread, and every entry holds the packet its number was
\* taken for.
HistoryInv ==
  /\ next_seq = Len(log) + 1 /\ Len(log) <= MaxAlloc
  /\ \A s \in InHistory : s <= Len(log) /\ sent[s].pkt = log[s]
  /\ \A t \in Threads : pc[t] \in Sending =>
       /\ job[t].seq <= Len(log) /\ job[t].seq \notin InHistory
       /\ job[t].pkt = log[job[t].seq]
  /\ \A t, u \in Threads : (pc[t] \in Sending /\ pc[u] \in Sending /\ job[t].seq = job[u].seq) => t = u
  /\ Listed(sent_order, InHistory)

\* No thread starts to send, and those that send keep their number.
NoNewSender ==
  \A u \in Threads : pc'[u] \in Sending => pc[u] \in Sending /\ job'[u] = job[u]

\* The step keeps the numbers of the history and their packets.
HistoryKept ==
  /\ UNCHANGED <<next_seq, log, sent_order>>
  /\ \A s \in SeqNums : /\ sent'[s] # NoEntry <=> sent[s] # NoEntry
                        /\ sent[s] # NoEntry => sent'[s].pkt = sent[s].pkt

\* The step takes the numbers of F out of the history.
HistoryLoses(F) ==
  /\ UNCHANGED <<next_seq, log>>
  /\ \A s \in SeqNums : sent'[s] = IF s \in F THEN NoEntry ELSE sent[s]
  /\ Listed(sent_order', InHistory \ F)

\* A thread that goes on to a step other than sending.
LEMMA GotoNoSender ==
  ASSUME ThreadTypeOK, NEW t \in Threads, NEW step, NEW item, Goto(t, step, item),
         step \notin Sending
  PROVE  NoNewSender
  <1>1. /\ pc \in [Threads -> Steps] /\ job \in [Threads -> Item \cup {NoJob}]
        /\ pc' = [pc EXCEPT ![t] = step] /\ job' = [job EXCEPT ![t] = item]
    BY DEF ThreadTypeOK, Goto
  <1>2. \A u \in Threads : pc'[u] = IF u = t THEN step ELSE pc[u]
    BY <1>1
  <1>3. \A u \in Threads : u # t => job'[u] = job[u]
    BY <1>1
  <1> QED
    BY <1>2, <1>3 DEF NoNewSender

\* A thread that has finished sends nothing.
LEMMA FinishNoSender ==
  ASSUME ThreadTypeOK, NEW t \in Threads, Finish(t)
  PROVE  NoNewSender
  <1>1. Goto(t, "idle", NoJob) /\ "idle" \notin Sending
    BY DEF Finish, Sending
  <1> HIDE DEF NoJob
  <1> QED
    BY <1>1, GotoNoSender

\* A step that keeps the history, or only takes numbers out of it, keeps the
\* invariant.
LEMMA HistoryInvKept ==
  ASSUME HistoryInv, HistoryKept, NoNewSender
  PROVE  HistoryInv'
  <1>1. InHistory' = InHistory
    BY DEF HistoryKept, InHistory
  <1>2. \A s \in InHistory : sent'[s].pkt = sent[s].pkt
    BY DEF HistoryKept, InHistory
  <1> QED
    BY <1>1, <1>2 DEF HistoryInv, HistoryKept, NoNewSender

\* Dropping entries, as an ack or the end of their retries does, keeps the invariant.
LEMMA HistoryInvLoses ==
  ASSUME HistoryInv, NEW F, HistoryLoses(F), NoNewSender
  PROVE  HistoryInv'
  <1>1. InHistory' = InHistory \ F
    BY DEF HistoryLoses, InHistory
  <1>2. \A s \in InHistory' : s \in InHistory /\ sent'[s] = sent[s]
    BY <1>1 DEF HistoryLoses, InHistory
  <1> QED
    BY <1>1, <1>2 DEF HistoryInv, HistoryLoses, NoNewSender

\* queue_reliable_retransmit and a partial ack mark an entry.
LEMMA QueueRetransmitKeeps ==
  ASSUME TypeOK, NEW s, QueueRetransmit(s)
  PROVE  \A x \in SeqNums : /\ sent'[x] # NoEntry <=> sent[x] # NoEntry
                            /\ sent[x] # NoEntry => sent'[x].pkt = sent[x].pkt
  <1>0. sent \in [SeqNums -> Entry \cup {NoEntry}]
    BY DEF TypeOK, HistoryTypeOK
  <1>1. CASE s \in InHistory /\ ~sent[s].queued
    <2> DEFINE e == [sent[s] EXCEPT !.queued = TRUE, !.partial_acked = FALSE]
    <2>1. s \in SeqNums /\ sent[s] \in Entry
      BY <1>0, <1>1 DEF InHistory
    <2>2. sent' = [sent EXCEPT ![s] = e]
      BY <1>0, <1>1, <2>1 DEF QueueRetransmit
    <2>3. e \in Entry /\ e.pkt = sent[s].pkt
      BY <2>1, EntryFacts DEF Entry
    <2> HIDE DEF e
    <2> QED
      BY <1>0, <2>1, <2>2, <2>3, ModelValuesDistinct
  <1>2. CASE ~(s \in InHistory /\ ~sent[s].queued)
    BY <1>2 DEF QueueRetransmit
  <1> QED
    BY <1>1, <1>2

\* A partial ack marks an entry and leaves its packet.
LEMMA PartialAckKeeps ==
  ASSUME TypeOK, NEW s, HandlePartialAck(s)
  PROVE  \A x \in SeqNums : /\ sent'[x] # NoEntry <=> sent[x] # NoEntry
                            /\ sent[x] # NoEntry => sent'[x].pkt = sent[x].pkt
  <1>0. sent \in [SeqNums -> Entry \cup {NoEntry}]
    BY DEF TypeOK, HistoryTypeOK
  <1>1. CASE s \in InHistory
    <2> DEFINE e == [sent[s] EXCEPT !.partial_acked = TRUE]
    <2>1. s \in SeqNums /\ sent[s] \in Entry
      BY <1>0, <1>1 DEF InHistory
    <2>2. sent' = [sent EXCEPT ![s] = e]
      BY <1>0, <1>1, <2>1 DEF HandlePartialAck
    <2>3. e \in Entry /\ e.pkt = sent[s].pkt
      BY <2>1, EntryFacts DEF Entry
    <2> HIDE DEF e
    <2> QED
      BY <1>0, <2>1, <2>2, <2>3, ModelValuesDistinct
  <1>2. CASE s \notin InHistory
    BY <1>2 DEF HandlePartialAck
  <1> QED
    BY <1>1, <1>2

\* sent_order.retain drops the number that leaves `sent'.
LEMMA OrderWithoutLists ==
  ASSUME HistoryTypeOK, Listed(sent_order, InHistory), NEW s
  PROVE  Listed(OrderWithout(s), InHistory \ {s})
  <1>0. sent_order \in Seq(SeqNums) /\ DOMAIN sent_order = 1..Len(sent_order)
    BY LenProperties DEF HistoryTypeOK
  <1>1. CASE s \in Range(sent_order)
    <2> DEFINE k == CHOOSE i \in DOMAIN sent_order : sent_order[i] = s
    <2>1. k \in 1..Len(sent_order) /\ sent_order[k] = s
      BY <1>0, <1>1 DEF Range
    <2>2. OrderWithout(s) = RemoveAt(sent_order, k)
      BY <1>1 DEF OrderWithout
    <2> HIDE DEF k
    <2>3. Listed(RemoveAt(sent_order, k), InHistory \ {sent_order[k]})
      BY <1>0, <2>1, ListedRemove
    <2> QED
      BY <2>1, <2>2, <2>3
  <1>2. CASE s \notin Range(sent_order)
    <2>1. s \notin InHistory
      BY <1>0, <1>2 DEF Listed, Range
    <2>2. InHistory \ {s} = InHistory
      BY <2>1
    <2> QED
      BY <1>2, <2>2 DEF OrderWithout
  <1> QED
    BY <1>1, <1>2

\* handle_reliable_ack keeps the two structures in step.
LEMMA HandleAckLoses ==
  ASSUME HistoryTypeOK, Listed(sent_order, InHistory), NEW ack, HandleAck(ack),
         UNCHANGED <<next_seq, log>>
  PROVE  \E F : HistoryLoses(F)
  <1>0. sent_order \in Seq(SeqNums)
    BY DEF HistoryTypeOK
  <1>1. CASE Ordered
    <2>1. PICK n \in 0..Len(sent_order) :
            /\ sent_order' = SubSeq(sent_order, n + 1, Len(sent_order))
            /\ sent' = [s \in SeqNums |->
                          IF \E i \in 1..n : sent_order[i] = s THEN NoEntry ELSE sent[s]]
      BY <1>1 DEF HandleAck
    <2> DEFINE F == {s \in SeqNums : \E i \in 1..n : sent_order[i] = s}
    <2>2. Listed(sent_order', {x \in InHistory : ~ \E i \in 1..n : sent_order[i] = x})
      BY <1>0, <2>1, ListedDrop
    <2>3. {x \in InHistory : ~ \E i \in 1..n : sent_order[i] = x} = InHistory \ F
      BY DEF InHistory
    <2>4. \A s \in SeqNums : sent'[s] = IF s \in F THEN NoEntry ELSE sent[s]
      BY <2>1
    <2>5. Listed(sent_order', InHistory \ F)
      BY <2>2, <2>3
    <2> HIDE DEF F
    <2> QED
      BY <2>4, <2>5 DEF HistoryLoses
  <1>2. CASE ~Ordered
    <2>1. /\ sent_order' = OrderWithout(ack)
          /\ \A s \in SeqNums : sent'[s] = IF s \in {ack} THEN NoEntry ELSE sent[s]
      BY <1>2 DEF HandleAck
    <2>2. Listed(sent_order', InHistory \ {ack})
      BY <2>1, OrderWithoutLists
    <2>3. HistoryLoses({ack})
      BY <2>1, <2>2 DEF HistoryLoses
    <2> QED
      BY <2>3
  <1> QED
    BY <1>1, <1>2

\* A number is taken from next_seq.
LEMMA HistoryAlloc ==
  ASSUME NoWrap, TypeOK, HistoryInv, NEW t \in Threads, AllocSeq(t)
  PROVE  HistoryInv'
  <1>0. /\ ThreadTypeOK /\ Len(log) \in Nat /\ log \in Seq(Packets)
        /\ pc \in [Threads -> Steps] /\ job \in [Threads -> Item \cup {NoJob}]
        /\ job[t] \in Item /\ job[t].pkt \in Packets /\ next_seq \in SeqNums
    BY LenProperties, ItemFacts
       DEF TypeOK, ThreadTypeOK, AppTypeOK, HistoryTypeOK, AllocSeq
  <1>1. CASE HistoryFull
    <2>1. HistoryKept /\ Finish(t)
      BY <1>1 DEF AllocSeq, HistoryKept, historyVars
    <2> QED
      BY <1>0, <2>1, FinishNoSender, HistoryInvKept
  <1>2. CASE ~HistoryFull
    <2> DEFINE b == Len(log) + 1
               item == [job[t] EXCEPT !.seq = next_seq]
    <2>1. /\ Len(log) < MaxAlloc /\ next_seq' = NextSeq(next_seq)
          /\ log' = Append(log, job[t].pkt)
          /\ pc' = [pc EXCEPT ![t] = "send"] /\ job' = [job EXCEPT ![t] = item]
          /\ UNCHANGED <<sent, sent_order>>
      BY <1>2 DEF AllocSeq, historyVars, Goto
    <2>2. /\ Len(log') = b /\ log'[b] = job[t].pkt /\ \A i \in 1..Len(log) : log'[i] = log[i]
      BY <1>0, <2>1, AppendProperties
    <2>3. next_seq = b /\ next_seq' = b + 1 /\ b <= MaxAlloc
      BY <1>0, <2>1, BoundsAreNat DEF HistoryInv, NextSeq, NoWrap
    <2>4. item.seq = b /\ item.pkt = job[t].pkt
      BY <1>0, <2>3 DEF Item
    <2>5. /\ pc'[t] = "send" /\ job'[t] = item
          /\ \A u \in Threads : u # t => pc'[u] = pc[u] /\ job'[u] = job[u]
      BY <1>0, <2>1
    <2>6. InHistory' = InHistory /\ \A s \in InHistory : s \in 1..Len(log)
      BY <1>0, <2>1 DEF InHistory, HistoryInv, SeqNums
    <2>7. \A u \in Threads : pc[u] \in Sending =>
            job[u].seq \in 1..Len(log) /\ job[u].pkt = log[job[u].seq] /\ job[u].seq \notin InHistory
      <3>1. \A u \in Threads : pc[u] \in Sending => job[u].seq \in SeqNums
        BY <1>0 DEF ThreadTypeOK, Sending
      <3> QED
        BY <1>0, <3>1 DEF HistoryInv, SeqNums
    <2>8. b \in Nat /\ b \notin 1..Len(log) /\ \A i \in 1..Len(log) : i <= b
      BY <1>0
    <2> HIDE DEF b, item
    <2>9. \A s \in InHistory' : s <= Len(log') /\ sent'[s].pkt = log'[s]
      BY <2>1, <2>2, <2>6, <2>8 DEF HistoryInv
    <2>10. \A u \in Threads : pc'[u] \in Sending =>
             /\ job'[u].seq <= Len(log') /\ job'[u].seq \notin InHistory'
             /\ job'[u].pkt = log'[job'[u].seq]
      BY <2>2, <2>4, <2>5, <2>6, <2>7, <2>8
    <2>11. \A u, v \in Threads :
             (pc'[u] \in Sending /\ pc'[v] \in Sending /\ job'[u].seq = job'[v].seq) => u = v
      BY <2>4, <2>5, <2>7, <2>8 DEF HistoryInv
    <2>12. Listed(sent_order', InHistory')
      BY <2>1, <2>6 DEF HistoryInv
    <2>13. next_seq' = Len(log') + 1 /\ Len(log') <= MaxAlloc
      BY <2>2, <2>3
    <2> QED
      BY <2>9, <2>10, <2>11, <2>12, <2>13 DEF HistoryInv
  <1> QED
    BY <1>1, <1>2

\* The frame is recorded under its number.
LEMMA HistoryRecord ==
  ASSUME TypeOK, HistoryInv, NEW t \in Threads, RecordSent(t)
  PROVE  HistoryInv'
  <1> DEFINE s == job[t].seq
             e == NewEntry(job[t].pkt)
  <1>0. /\ ThreadTypeOK /\ pc[t] \in Sending /\ s \in SeqNums /\ job[t].pkt \in Packets
        /\ sent \in [SeqNums -> Entry \cup {NoEntry}] /\ sent_order \in Seq(SeqNums)
    BY ItemFacts DEF TypeOK, ThreadTypeOK, HistoryTypeOK, RecordSent, Sending
  <1>1. e # NoEntry /\ e.pkt = job[t].pkt
    BY <1>0, EntryFacts, ModelValuesDistinct DEF NewEntry
  <1>2. /\ sent_order' = Append(sent_order, s) /\ sent' = [sent EXCEPT ![s] = e]
        /\ UNCHANGED <<next_seq, log>>
    BY DEF RecordSent
  <1>3. /\ pc' = [pc EXCEPT ![t] = "idle"] /\ job' = [job EXCEPT ![t] = NoJob]
    BY DEF RecordSent, Finish, Goto
  <1>4. /\ pc'[t] \notin Sending
        /\ \A u \in Threads : u # t => pc'[u] = pc[u] /\ job'[u] = job[u]
    BY <1>0, <1>3 DEF ThreadTypeOK, Sending
  <1>5. s <= Len(log) /\ s \notin InHistory /\ job[t].pkt = log[s]
    BY <1>0 DEF HistoryInv
  <1>6. \A u \in Threads : u # t /\ pc[u] \in Sending => job[u].seq # s
    BY <1>0 DEF HistoryInv
  <1> HIDE DEF s, e
  <1>7. InHistory' = InHistory \cup {s} /\ \A x \in InHistory : sent'[x] = sent[x]
    BY <1>0, <1>1, <1>2, <1>5 DEF InHistory
  <1>8. Listed(sent_order', InHistory')
    BY <1>0, <1>2, <1>5, <1>7, ListedAppend DEF HistoryInv
  <1>9. \A x \in InHistory' : x <= Len(log') /\ sent'[x].pkt = log'[x]
    BY <1>0, <1>1, <1>2, <1>5, <1>7 DEF HistoryInv
  <1>10. \A u \in Threads : pc'[u] \in Sending =>
           /\ job'[u].seq <= Len(log') /\ job'[u].seq \notin InHistory'
           /\ job'[u].pkt = log'[job'[u].seq]
    BY <1>2, <1>4, <1>6, <1>7 DEF HistoryInv
  <1>11. \A u, v \in Threads :
           (pc'[u] \in Sending /\ pc'[v] \in Sending /\ job'[u].seq = job'[v].seq) => u = v
    BY <1>4 DEF HistoryInv
  <1> QED
    BY <1>2, <1>8, <1>9, <1>10, <1>11 DEF HistoryInv

\* The other steps of a thread of the sending router.
LEMMA HistoryThreadKeeps ==
  ASSUME TypeOK, NEW t \in Threads, ThreadStep(t), ~AllocSeq(t), ~RecordSent(t)
  PROVE  HistoryKept /\ NoNewSender
  <1>0. /\ ThreadTypeOK /\ sent \in [SeqNums -> Entry \cup {NoEntry}]
        /\ pc \in [Threads -> Steps] /\ job \in [Threads -> Item \cup {NoJob}]
    BY DEF TypeOK, ThreadTypeOK, HistoryTypeOK
  <1>1. CASE PopTx(t)
    <2>1. HistoryKept
      BY <1>1 DEF PopTx, HistoryKept, historyVars
    <2>2. Goto(t, IF Head(txq).kind = "replay" THEN "check" ELSE "alloc", Head(txq))
      BY <1>1 DEF PopTx
    <2>3. (IF Head(txq).kind = "replay" THEN "check" ELSE "alloc") \notin Sending
      BY DEF Sending
    <2> QED
      BY <1>0, <2>1, <2>2, <2>3, GotoNoSender
  <1>2. CASE SendFrame(t)
    <2>1. HistoryKept
      BY <1>2 DEF SendFrame, HistoryKept, historyVars
    <2>2. NoNewSender
      BY <1>0, <1>2 DEF SendFrame, Goto, NoNewSender, Sending
    <2> QED
      BY <2>1, <2>2
  <1>3. CASE SendBusy(t) \/ SendFails(t) \/ ResendBusy(t) \/ ResendFails(t)
    <2>1. HistoryKept /\ Finish(t)
      BY <1>3 DEF SendBusy, SendFails, ResendBusy, ResendFails, HistoryKept, historyVars
    <2> QED
      BY <1>0, <2>1, FinishNoSender
  <1>4. CASE CheckReplay(t) \/ ResendFrame(t) \/ ResendReturns(t)
    <2>1. HistoryKept
      BY <1>4 DEF CheckReplay, ResendFrame, ResendReturns, HistoryKept, historyVars
    <2>2. \/ Goto(t, "resend", job[t]) \/ Goto(t, "resent", job[t])
          \/ Goto(t, "rerecord", job[t]) \/ Finish(t)
      BY <1>4 DEF CheckReplay, ResendFrame, ResendReturns
    <2>3. {"resend", "resent", "rerecord"} \cap Sending = {}
      BY DEF Sending
    <2>4. NoNewSender
      BY <1>0, <2>2, <2>3, FinishNoSender, GotoNoSender
    <2> QED
      BY <2>1, <2>4
  <1>5. CASE RerecordSent(t)
    <2>1. HistoryKept
      <3>1. CASE job[t].seq \in InHistory
        <4> DEFINE s == job[t].seq
                   e == [sent[s] EXCEPT !.queued = FALSE]
        <4>1. s \in SeqNums /\ sent[s] \in Entry
          BY <1>0, <3>1 DEF InHistory
        <4>2. sent' = [sent EXCEPT ![s] = e]
          BY <1>0, <1>5, <3>1, <4>1 DEF RerecordSent
        <4>3. e # NoEntry /\ e.pkt = sent[s].pkt /\ sent[s] # NoEntry
          <5>1. e.pkt = sent[s].pkt
            BY <4>1 DEF Entry
          <5>2. e \in Entry
            BY <4>1, EntryFacts
          <5> QED
            BY <4>1, <5>1, <5>2, ModelValuesDistinct
        <4>4. UNCHANGED <<next_seq, log, sent_order>>
          BY <1>5 DEF RerecordSent
        <4> HIDE DEF e, s
        <4> QED
          BY <1>0, <4>1, <4>2, <4>3, <4>4 DEF HistoryKept
      <3>2. CASE job[t].seq \notin InHistory
        BY <1>5, <3>2 DEF RerecordSent, HistoryKept
      <3> QED
        BY <3>1, <3>2
    <2> QED
      BY <1>0, <1>5, <2>1, FinishNoSender DEF RerecordSent
  <1>6. CASE Requeue(t)
    <2>1. HistoryKept
      BY <1>6, QueueRetransmitKeeps DEF Requeue, HistoryKept
    <2> QED
      BY <1>0, <1>6, <2>1, FinishNoSender DEF Requeue
  <1> QED
    BY <1>1, <1>2, <1>3, <1>4, <1>5, <1>6 DEF ThreadStep

\* A thread of the sending router takes a step.
LEMMA HistoryThreadStep ==
  ASSUME NoWrap, TypeOK, HistoryInv, NEW t \in Threads, ThreadStep(t)
  PROVE  HistoryInv'
  BY HistoryThreadKeeps, HistoryInvKept, HistoryAlloc, HistoryRecord

\* The scan for expired frames.
LEMMA HistoryTimeout ==
  ASSUME TypeOK, HistoryInv, NEW t \in Threads, NEW s \in SeqNums, Timeout(t, s)
  PROVE  HistoryInv'
  <1>0. /\ ThreadTypeOK /\ HistoryTypeOK /\ sent \in [SeqNums -> Entry \cup {NoEntry}]
        /\ sent[s] \in Entry
    BY DEF TypeOK, HistoryTypeOK, Timeout, Expired, InHistory
  <1>1. CASE Exhausted(s)
    <2>1. /\ sent' = [sent EXCEPT ![s] = NoEntry] /\ sent_order' = OrderWithout(s)
          /\ UNCHANGED <<next_seq, log, pc, job>>
      BY <1>1 DEF Timeout, threadVars
    <2>2. Listed(sent_order', InHistory \ {s})
      BY <1>0, <2>1, OrderWithoutLists DEF HistoryInv
    <2>3. HistoryLoses({s})
      BY <1>0, <2>1, <2>2 DEF HistoryLoses
    <2>4. NoNewSender
      BY <2>1 DEF NoNewSender
    <2> QED
      BY <2>3, <2>4, HistoryInvLoses
  <1>2. CASE ~Exhausted(s)
    <2> DEFINE e == [sent[s] EXCEPT !.retries = @ + 1]
    <2>1. /\ sent' = [sent EXCEPT ![s] = e] /\ UNCHANGED <<next_seq, log, sent_order>>
          /\ Goto(t, "requeue", ReplayItem(s, sent[s].pkt))
      BY <1>0, <1>2 DEF Timeout
    <2>2. e # NoEntry /\ e.pkt = sent[s].pkt /\ sent[s] # NoEntry
      <3>1. e.pkt = sent[s].pkt
        BY <1>0 DEF Entry
      <3>2. e \in Entry
        BY <1>0, <1>2, EntryFacts DEF Exhausted
      <3> QED
        BY <1>0, <3>1, <3>2, ModelValuesDistinct
    <2> HIDE DEF e
    <2>3. HistoryKept
      BY <1>0, <2>1, <2>2 DEF HistoryKept
    <2>4. "requeue" \notin Sending
      BY DEF Sending
    <2> QED
      BY <1>0, <2>1, <2>3, <2>4, GotoNoSender, HistoryInvKept
  <1> QED
    BY <1>1, <1>2

\* The sending router handles a control packet.
LEMMA HistoryReceiveCtrl ==
  ASSUME TypeOK, HistoryInv, NEW m \in ctrl, NEW keep \in BOOLEAN, ReceiveCtrl(m, keep)
  PROVE  HistoryInv'
  <1>0. HistoryTypeOK /\ NoNewSender /\ UNCHANGED <<next_seq, log>>
    BY DEF TypeOK, ReceiveCtrl, threadVars, NoNewSender
  <1>1. CASE HandleAck(m.seq)
    BY <1>0, <1>1, HandleAckLoses, HistoryInvLoses DEF HistoryInv
  <1>2. CASE HandlePartialAck(m.seq) /\ UNCHANGED sent_order
    <2>1. HistoryKept
      BY <1>0, <1>2, PartialAckKeeps DEF HistoryKept
    <2> QED
      BY <1>0, <2>1, HistoryInvKept
  <1>3. CASE QueueRetransmit(m.seq) /\ UNCHANGED sent_order
    <2>1. HistoryKept
      BY <1>0, <1>3, QueueRetransmitKeeps DEF HistoryKept
    <2> QED
      BY <1>0, <2>1, HistoryInvKept
  <1> QED
    BY <1>1, <1>2, <1>3 DEF ReceiveCtrl

\* The other steps leave the history alone and start no sender.
LEMMA HistoryOthers ==
  ASSUME TypeOK, [Next]_vars,
         \A t \in Threads : ~ThreadStep(t) /\ \A s \in SeqNums : ~Timeout(t, s),
         \A m \in ctrl, keep \in BOOLEAN : ~ReceiveCtrl(m, keep)
  PROVE  HistoryKept /\ UNCHANGED sent /\ NoNewSender
  <1>0. ThreadTypeOK
    BY DEF TypeOK
  <1> USE DEF HistoryKept, NoNewSender
  <1>1. CASE UNCHANGED vars
    BY <1>1 DEF vars, threadVars, historyVars
  <1>2. ASSUME NEW p \in Packets, TxQueue(p) \/ EndToEndReplay(p)
        PROVE  HistoryKept /\ UNCHANGED sent /\ NoNewSender
    BY <1>2 DEF TxQueue, EndToEndReplay, threadVars, historyVars
  <1>3. ASSUME NEW t \in Threads, NEW p \in Packets, TxNow(t, p)
        PROVE  HistoryKept /\ UNCHANGED sent /\ NoNewSender
    <2>1. CASE side_tx_gate
      BY <1>3, <2>1 DEF TxNow, threadVars, historyVars
    <2>2. CASE ~side_tx_gate
      <3>1. Goto(t, "alloc", DataItem(p)) /\ "alloc" \notin Sending
        BY <1>3, <2>2 DEF TxNow, Sending
      <3>2. HistoryKept /\ UNCHANGED sent
        BY <1>3 DEF TxNow, historyVars
      <3> HIDE DEF NoNewSender
      <3> QED
        BY <1>0, <3>1, <3>2, GotoNoSender
    <2> QED
      BY <2>1, <2>2
  <1>4. ASSUME NEW r \in RxThreads,
               DispatchStep(r) \/ \E f \in data, keep \in BOOLEAN : ReceiveFrame(r, f, keep)
        PROVE  HistoryKept /\ UNCHANGED sent /\ NoNewSender
    BY <1>4 DEF threadVars, historyVars, DispatchStep, Dispatch, DispatchDuplicate, ReceiveFrame,
       ReceiveOld, ReceiveAhead, ReceiveNext, ReceiveUnordered
  <1>5. CASE Environment
    BY <1>5 DEF Environment, LoseFrame, ReceiveCorrupt, LoseCtrl, ClearTx, EvictTransmit,
       EvictBuffered, threadVars, historyVars
  <1> QED
    BY <1>1, <1>2, <1>3, <1>4, <1>5 DEF Next, Application

\* HistoryInv is inductive.
LEMMA HistoryInvStep ==
  ASSUME NoWrap
  PROVE  TypeOK /\ HistoryInv /\ [Next]_vars => HistoryInv'
  <1> SUFFICES ASSUME TypeOK, HistoryInv, [Next]_vars PROVE HistoryInv'
    OBVIOUS
  <1>1. CASE \E t \in Threads : ThreadStep(t) \/ \E s \in SeqNums : Timeout(t, s)
    BY <1>1, HistoryThreadStep, HistoryTimeout
  <1>2. CASE \E m \in ctrl, keep \in BOOLEAN : ReceiveCtrl(m, keep)
    BY <1>2, HistoryReceiveCtrl
  <1> QED
    BY <1>1, <1>2, HistoryOthers, HistoryInvKept

\* Two fresh routers.
LEMMA HistoryInvInit == Init => HistoryInv
  <1> SUFFICES ASSUME Init PROVE HistoryInv
    OBVIOUS
  <1>1. InHistory = {} /\ Len(log) = 0 /\ Len(sent_order) = 0
    BY DEF Init, InHistory
  <1>2. \A t \in Threads : pc[t] \notin Sending
    BY DEF Init, Sending
  <1> QED
    BY <1>1, <1>2, BoundsAreNat DEF Init, HistoryInv, Listed

\* sent and sent_order stay in step: the scan for expired frames, cumulative and
\* single acks, insertion after the callback and failed callbacks of several
\* threads leave no number in one that is missing in the other, and none twice.
THEOREM HistoryConsistent ==
  ASSUME NoWrap
  PROVE  Spec => []HistoryMatchesOrder
  <1>1. TypeOK /\ HistoryInv => HistoryMatchesOrder
    BY MatchesIsListed DEF TypeOK, HistoryTypeOK, HistoryInv
  <1>2. Init => TypeOK /\ HistoryInv
    BY TypeInit, HistoryInvInit
  <1>3. TypeOK /\ HistoryInv /\ [Next]_vars => (TypeOK /\ HistoryInv)'
    BY TypeStep, HistoryInvStep
  <1> QED
    BY <1>1, <1>2, <1>3, PTL DEF Spec

(***************************************************************************)
(* The bound of the history.                                               *)
(***************************************************************************)

Senders == {t \in Threads : pc[t] \in Sending}

\* The inductive invariant: every thread that is sending holds a place that it
\* was promised when the history was not full.
RoomInv == Cardinality(InHistory) + Cardinality(Senders) < MaxPending + Cardinality(Threads)

\* Only taking a number makes a sender, and only recording enlarges the history.
LEMMA HistoryShrinks ==
  ASSUME TypeOK, [Next]_vars,
         \A t \in Threads : ~AllocSeq(t) /\ ~RecordSent(t)
  PROVE  InHistory' \subseteq InHistory /\ Senders' \subseteq Senders
  <1>0. sent \in [SeqNums -> Entry \cup {NoEntry}] /\ ThreadTypeOK
    BY DEF TypeOK, HistoryTypeOK
  <1>1. NoNewSender => Senders' \subseteq Senders
    BY DEF NoNewSender, Senders
  <1>2. HistoryKept => InHistory' \subseteq InHistory
    BY DEF HistoryKept, InHistory
  <1>3. CASE \E t \in Threads : ThreadStep(t)
    BY <1>1, <1>2, <1>3, HistoryThreadKeeps
  <1>4. ASSUME NEW t \in Threads, NEW s \in SeqNums, Timeout(t, s)
        PROVE  InHistory' \subseteq InHistory /\ Senders' \subseteq Senders
    <2>1. sent[s] # NoEntry
      BY <1>4 DEF Timeout, Expired, InHistory
    <2>2. CASE Exhausted(s)
      <3>1. sent' = [sent EXCEPT ![s] = NoEntry] /\ NoNewSender
        BY <1>4, <2>2 DEF Timeout, threadVars, NoNewSender
      <3> QED
        BY <1>0, <1>1, <3>1 DEF InHistory
    <2>3. CASE ~Exhausted(s)
      <3>1. Goto(t, "requeue", ReplayItem(s, sent[s].pkt)) /\ "requeue" \notin Sending
        BY <1>4, <2>3 DEF Timeout, Sending
      <3>2. NoNewSender
        BY <1>0, <3>1, GotoNoSender
      <3>3. \A x \in SeqNums : x # s => sent'[x] = sent[x]
        BY <1>0, <1>4, <2>3 DEF Timeout
      <3> QED
        BY <1>1, <2>1, <3>2, <3>3 DEF InHistory
    <2> QED
      BY <2>2, <2>3
  <1>5. ASSUME NEW m \in ctrl, NEW keep \in BOOLEAN, ReceiveCtrl(m, keep)
        PROVE  InHistory' \subseteq InHistory /\ Senders' \subseteq Senders
    <2>1. Senders' \subseteq Senders
      BY <1>5 DEF ReceiveCtrl, threadVars, Senders
    <2>2. CASE HandleAck(m.seq)
      <3>1. \A x \in SeqNums : sent'[x] # NoEntry => sent[x] # NoEntry
        BY <2>2 DEF HandleAck
      <3> QED
        BY <2>1, <3>1 DEF InHistory
    <2>3. CASE HandlePartialAck(m.seq)
      BY <2>1, <2>3, PartialAckKeeps DEF InHistory
    <2>4. CASE QueueRetransmit(m.seq)
      BY <2>1, <2>4, QueueRetransmitKeeps DEF InHistory
    <2> QED
      BY <1>5, <2>2, <2>3, <2>4 DEF ReceiveCtrl
  <1> QED
    BY <1>1, <1>2, <1>3, <1>4, <1>5, HistoryOthers

\* RoomInv is inductive.
LEMMA RoomStep ==
  ASSUME IsFiniteSet(Threads)
  PROVE  TypeOK /\ RoomInv /\ [Next]_vars => RoomInv'
  <1> SUFFICES ASSUME TypeOK, RoomInv, [Next]_vars PROVE RoomInv'
    OBVIOUS
  <1>0. /\ sent \in [SeqNums -> Entry \cup {NoEntry}] /\ ThreadTypeOK
        /\ pc \in [Threads -> Steps] /\ pc' \in [Threads -> Steps]
        /\ sent' \in [SeqNums -> Entry \cup {NoEntry}]
    BY TypeStep DEF TypeOK, HistoryTypeOK, ThreadTypeOK
  <1>1. IsFiniteSet(SeqNums)
    BY BoundsAreNat, FS_Interval DEF SeqNums
  <1>2. /\ InHistory \subseteq SeqNums /\ InHistory' \subseteq SeqNums
        /\ Senders \subseteq Threads /\ Senders' \subseteq Threads
    BY DEF InHistory, Senders
  <1>3. /\ IsFiniteSet(InHistory) /\ IsFiniteSet(InHistory')
        /\ IsFiniteSet(Senders) /\ IsFiniteSet(Senders')
    BY <1>1, <1>2, FS_Subset
  <1>4. /\ Cardinality(InHistory) \in Nat /\ Cardinality(InHistory') \in Nat
        /\ Cardinality(Senders) \in Nat /\ Cardinality(Senders') \in Nat
        /\ Cardinality(Threads) \in Nat /\ MaxPending \in Nat
    BY <1>3, FS_CardinalityType, BoundsAreNat
  <1>5. CASE InHistory' \subseteq InHistory /\ Senders' \subseteq Senders
    <2>1. /\ Cardinality(InHistory') <= Cardinality(InHistory)
          /\ Cardinality(Senders') <= Cardinality(Senders)
      BY <1>3, <1>5, FS_Subset
    <2> QED
      BY <1>4, <2>1 DEF RoomInv
  <1>6. ASSUME NEW t \in Threads, AllocSeq(t)
        PROVE  RoomInv'
    <2>1. InHistory' = InHistory
      BY <1>6 DEF AllocSeq, historyVars, InHistory
    <2>2. CASE HistoryFull
      <3>1. Finish(t)
        BY <1>6, <2>2 DEF AllocSeq
      <3>2. Senders' \subseteq Senders
        BY <1>0, <3>1, FinishNoSender DEF NoNewSender, Senders
      <3> QED
        BY <1>5, <2>1, <3>2
    <2>3. CASE ~HistoryFull
      <3>1. Cardinality(InHistory) < MaxPending
        BY <1>4, <2>3 DEF HistoryFull
      <3>2. Cardinality(Senders') <= Cardinality(Threads)
        BY <1>2, FS_Subset
      <3> QED
        BY <1>4, <2>1, <3>1, <3>2 DEF RoomInv
    <2> QED
      BY <2>2, <2>3
  <1>7. ASSUME NEW t \in Threads, RecordSent(t)
        PROVE  RoomInv'
    <2>1. t \in Senders /\ pc' = [pc EXCEPT ![t] = "idle"]
      BY <1>7 DEF RecordSent, Finish, Goto, Senders, Sending
    <2>2. Senders' = Senders \ {t}
      BY <1>0, <2>1 DEF Senders, Sending
    <2>3. Cardinality(Senders') = Cardinality(Senders) - 1
      BY <1>3, <2>1, <2>2, FS_RemoveElement
    <2>4. InHistory' \subseteq InHistory \cup {job[t].seq}
      BY <1>0, <1>7 DEF RecordSent, InHistory
    <2>5. /\ IsFiniteSet(InHistory \cup {job[t].seq})
          /\ Cardinality(InHistory \cup {job[t].seq}) \in {Cardinality(InHistory), Cardinality(InHistory) + 1}
      BY <1>3, FS_AddElement
    <2>6. Cardinality(InHistory') <= Cardinality(InHistory \cup {job[t].seq})
      BY <2>4, <2>5, FS_Subset
    <2> QED
      BY <1>4, <2>3, <2>5, <2>6 DEF RoomInv
  <1> QED
    BY <1>5, <1>6, <1>7, HistoryShrinks

\* The history bound is tested under the lock, before the callback, and the frame
\* is inserted after it: with several threads in send_reliable_to_side the history
\* exceeds RELIABLE_MAX_PENDING, but by less than the number of threads.
THEOREM HistoryBound ==
  ASSUME IsFiniteSet(Threads)
  PROVE  Spec => []HistoryBounded
  <1>1. Init => RoomInv
    <2> SUFFICES ASSUME Init PROVE RoomInv
      OBVIOUS
    <2>1. InHistory = {} /\ Senders = {}
      BY DEF Init, InHistory, Senders, Sending
    <2> QED
      BY <2>1, FS_EmptySet, FS_CardinalityType, BoundsAreNat DEF RoomInv
  <1>2. TypeOK /\ RoomInv => HistoryBounded
    <2> SUFFICES ASSUME RoomInv PROVE HistoryBounded
      OBVIOUS
    <2>1. IsFiniteSet(InHistory) /\ IsFiniteSet(Senders)
      <3>1. IsFiniteSet(SeqNums)
        BY BoundsAreNat, FS_Interval DEF SeqNums
      <3>2. InHistory \subseteq SeqNums /\ Senders \subseteq Threads
        BY DEF InHistory, Senders
      <3> QED
        BY <3>1, <3>2, FS_Subset
    <2>2. Cardinality(InHistory) \in Nat /\ Cardinality(Senders) \in Nat
          /\ Cardinality(Threads) \in Nat
      BY <2>1, FS_CardinalityType
    <2> QED
      BY <2>2, BoundsAreNat DEF RoomInv, HistoryBounded
  <1> QED
    BY <1>1, <1>2, TypeCorrect, RoomStep, PTL DEF Spec

(***************************************************************************)
(* Nothing the receiver waits for is out of reach.                         *)
(***************************************************************************)

\* One thread runs the sending router.
SingleTx == \A a, b \in Threads : a = b

\* Number s needs no further attention, or the sender still has it.  The buffer
\* of the receiver does not count: what it holds may be evicted.
Reachable(s) ==
  \/ s < expected_seq \/ s \in InHistory \/ log[s] \in abandoned
  \/ \E t \in Threads : pc[t] \in Sending /\ job[t].seq = s

ReachInv == \A s \in 1..Len(log) : Reachable(s)

\* expected_seq never goes back while numbers do not wrap.
LEMMA ExpectedGrows ==
  ASSUME NoWrap, Ordered, TypeOK, SeqInv, [Next]_vars
  PROVE  expected_seq <= expected_seq'
  <1>0. expected_seq \in Nat
    BY BoundsAreNat DEF TypeOK, RxTypeOK
  <1>1. ASSUME NEW r \in RxThreads, NEW f \in data, NEW keep \in BOOLEAN, ReceiveNext(r, f, keep)
        PROVE  expected_seq <= expected_seq'
    <2>1. PICK n \in 0..SeqMax : IsRun(f.seq, n) /\ expected_seq' = NextExpected(f.seq, n)
      BY <1>1 DEF ReceiveNext
    <2>2. f.seq = expected_seq
      BY <1>1 DEF ReceiveNext, IsNext
    <2>3. expected_seq' = f.seq + n + 1
      BY <2>1, <2>2, RunNoWrap
    <2> QED
      BY <1>0, <2>2, <2>3, BoundsAreNat
  <1>2. ASSUME NEW r \in RxThreads, DispatchStep(r)
        PROVE  expected_seq <= expected_seq'
    BY <1>0, <1>2 DEF DispatchStep, Dispatch, DispatchDuplicate
  <1> QED
    BY <1>0, <1>1, <1>2, OrderUntouched

\* What is given up stays given up.
LEMMA AbandonedGrows ==
  ASSUME [Next]_vars
  PROVE  abandoned \subseteq abandoned'
  <1>1. CASE UNCHANGED vars
    BY <1>1 DEF vars, appVars
  <1>2. CASE Application
    BY <1>2 DEF Application, TxQueue, EndToEndReplay, TxNow, appVars
  <1>3. ASSUME NEW t \in Threads, ThreadStep(t)
        PROVE  abandoned \subseteq abandoned'
    BY <1>3 DEF ThreadStep, PopTx, AllocSeq, SendBusy, SendFrame, SendFails, RecordSent,
       CheckReplay, ResendBusy, ResendFrame, ResendFails, ResendReturns, RerecordSent,
       Requeue, appVars
  <1>4. ASSUME NEW t \in Threads, NEW s \in SeqNums, Timeout(t, s)
        PROVE  abandoned \subseteq abandoned'
    BY <1>4 DEF Timeout
  <1>5. ASSUME NEW m \in ctrl, NEW keep \in BOOLEAN, ReceiveCtrl(m, keep)
        PROVE  abandoned \subseteq abandoned'
    BY <1>5 DEF ReceiveCtrl, appVars
  <1>6. ASSUME NEW r \in RxThreads,
               DispatchStep(r) \/ \E f \in data, keep \in BOOLEAN : ReceiveFrame(r, f, keep)
        PROVE  abandoned \subseteq abandoned'
    BY <1>6 DEF appVars, DispatchStep, Dispatch, DispatchDuplicate, ReceiveFrame,
       ReceiveOld, ReceiveAhead, ReceiveNext, ReceiveUnordered
  <1>7. CASE Environment
    BY <1>7 DEF Environment, LoseFrame, ReceiveCorrupt, LoseCtrl, ClearTx, EvictTransmit,
       EvictBuffered, appVars
  <1> QED
    BY <1>1, <1>2, <1>3, <1>4, <1>5, <1>6, <1>7 DEF Next

\* The steps of the one sending thread.
LEMMA ReachThreadStep ==
  ASSUME NoWrap, Ordered, SingleTx, TypeOK, SeqInv, HistoryInv, GateExclusive, ReachInv,
         NEW t \in Threads, ThreadStep(t), [Next]_vars
  PROVE  ReachInv'
  <1>0. /\ sent \in [SeqNums -> Entry \cup {NoEntry}] /\ Len(log) \in Nat /\ log \in Seq(Packets)
        /\ pc \in [Threads -> Steps] /\ job \in [Threads -> Item \cup {NoJob}]
        /\ expected_seq \in Nat /\ expected_seq' \in Nat
        /\ \A u \in Threads : u = t
    BY TypeStep, LenProperties, BoundsAreNat
       DEF TypeOK, HistoryTypeOK, ThreadTypeOK, AppTypeOK, RxTypeOK, SingleTx
  <1>1. expected_seq <= expected_seq' /\ abandoned \subseteq abandoned'
    BY ExpectedGrows, AbandonedGrows
  <1>2. CASE AllocSeq(t)
    <2>1. pc[t] \notin Sending /\ InHistory' = InHistory
      BY <1>2 DEF AllocSeq, Sending, historyVars, InHistory
    <2>2. CASE HistoryFull
      <3>1. log' = log
        BY <1>2, <2>2 DEF AllocSeq
      <3> QED
        BY <1>0, <1>1, <2>1, <3>1 DEF ReachInv, Reachable
    <2>3. CASE ~HistoryFull
      <3> DEFINE item == [job[t] EXCEPT !.seq = next_seq]
      <3>1. /\ log' = Append(log, job[t].pkt) /\ pc' = [pc EXCEPT ![t] = "send"]
            /\ job' = [job EXCEPT ![t] = item]
        BY <1>2, <2>3 DEF AllocSeq, Goto
      <3>2. job[t] \in Item /\ job[t].pkt \in Packets /\ item.seq = Len(log) + 1
        <4>1. job[t] \in Item
          BY <1>2 DEF AllocSeq, TypeOK, ThreadTypeOK
        <4> QED
          BY <4>1, ItemFacts DEF HistoryInv, TypeOK, HistoryTypeOK
      <3>3. Len(log') = Len(log) + 1 /\ \A i \in 1..Len(log) : log'[i] = log[i]
        BY <1>0, <3>1, <3>2, AppendProperties
      <3> HIDE DEF item
      <3>4. pc'[t] \in Sending /\ job'[t].seq = Len(log) + 1
        BY <1>0, <3>1, <3>2 DEF Sending
      <3>5. ASSUME NEW s \in 1..Len(log) PROVE Reachable(s)'
        <4>1. Reachable(s)
          BY DEF ReachInv
        <4> QED
          BY <1>0, <1>1, <2>1, <3>3, <4>1 DEF Reachable
      <3>6. ASSUME NEW s \in 1..Len(log'), s = Len(log) + 1 PROVE Reachable(s)'
        BY <3>4, <3>6 DEF Reachable
      <3>7. \A s \in 1..Len(log') : s \in 1..Len(log) \/ s = Len(log) + 1
        BY <1>0, <3>3
      <3> QED
        BY <3>5, <3>6, <3>7 DEF ReachInv
    <2> QED
      BY <2>2, <2>3
  <1>3. CASE RecordSent(t)
    <2> DEFINE e == NewEntry(job[t].pkt)
    <2>1. job[t].seq \in SeqNums /\ job[t].pkt \in Packets
      BY <1>3, ItemFacts DEF RecordSent, TypeOK, ThreadTypeOK
    <2>2. e # NoEntry
      BY <2>1, EntryFacts, ModelValuesDistinct
    <2>3. sent' = [sent EXCEPT ![job[t].seq] = e] /\ log' = log
      BY <1>3 DEF RecordSent
    <2> HIDE DEF e
    <2>4. InHistory \subseteq InHistory' /\ job[t].seq \in InHistory'
      BY <1>0, <2>1, <2>2, <2>3 DEF InHistory
    <2> QED
      BY <1>0, <1>1, <2>3, <2>4 DEF ReachInv, Reachable
  <1>4. CASE SendBusy(t)
    <2>1. side_tx_gate /\ pc[t] = "send"
      BY <1>4 DEF SendBusy, GateFree
    <2>2. FALSE
      BY <1>0, <2>1 DEF GateExclusive
    <2> QED
      BY <2>2
  <1>5. CASE SendFails(t)
    <2>1. InHistory' = InHistory /\ log' = log /\ job[t].pkt \in abandoned' /\ pc[t] \in Sending
      BY <1>5 DEF SendFails, historyVars, InHistory, Sending
    <2>2. job[t].pkt = log[job[t].seq]
      BY <2>1 DEF HistoryInv
    <2> QED
      BY <1>0, <1>1, <2>1, <2>2 DEF ReachInv, Reachable
  <1>6. CASE SendFrame(t)
    <2>1. /\ InHistory' = InHistory /\ log' = log
          /\ pc' = [pc EXCEPT ![t] = "record"] /\ job' = [job EXCEPT ![t] = job[t]]
      BY <1>6 DEF SendFrame, historyVars, InHistory, Goto
    <2>2. pc'[t] \in Sending /\ job'[t] = job[t]
      BY <1>0, <2>1 DEF Sending
    <2> QED
      BY <1>0, <1>1, <2>1, <2>2 DEF ReachInv, Reachable
  <1>7. CASE pc[t] \notin Sending /\ ~AllocSeq(t)
    <2>1. ~RecordSent(t)
      BY <1>7 DEF RecordSent, Sending
    <2>2. HistoryKept
      BY <1>7, <2>1, HistoryThreadKeeps
    <2>3. InHistory' = InHistory /\ log' = log
      BY <2>2 DEF HistoryKept, InHistory
    <2> QED
      BY <1>0, <1>1, <1>7, <2>3 DEF ReachInv, Reachable
  <1>8. pc[t] \in Sending => \/ AllocSeq(t) \/ RecordSent(t) \/ SendBusy(t) \/ SendFails(t)
                             \/ SendFrame(t)
    BY DEF Sending, ThreadStep, PopTx, CheckReplay, ResendBusy, ResendFrame, ResendFails,
       ResendReturns, RerecordSent, Requeue
  <1> QED
    BY <1>2, <1>3, <1>4, <1>5, <1>6, <1>7, <1>8

\* The scan and the control packets forget only what was given up or has arrived.
LEMMA ReachForgets ==
  ASSUME Ordered, TypeOK, SeqInv, HistoryInv, ReachInv,
         \/ \E t \in Threads, s \in SeqNums : SingleTx /\ Timeout(t, s)
         \/ \E m \in ctrl, keep \in BOOLEAN : ReceiveCtrl(m, keep)
  PROVE  ReachInv'
  <1>0. /\ sent \in [SeqNums -> Entry \cup {NoEntry}] /\ HistoryTypeOK
        /\ \A x \in SeqNums : x \in Int
    BY DEF TypeOK, HistoryTypeOK, SeqNums
  <1>1. ASSUME NEW t \in Threads, NEW s \in SeqNums, SingleTx, Timeout(t, s)
        PROVE  ReachInv'
    <2>1. /\ pc[t] \notin Sending /\ \A u \in Threads : u = t
          /\ UNCHANGED <<log, expected_seq>> /\ sent[s].pkt = log[s]
          /\ abandoned \subseteq abandoned'
      BY <1>1 DEF Timeout, Expired, Sending, SingleTx, rxVars, HistoryInv
    <2>2. \A x \in SeqNums : x # s => sent'[x] = sent[x]
      BY <1>0, <1>1 DEF Timeout
    <2>3. log[s] \in abandoned' \/ sent'[s] # NoEntry
      <3>1. CASE Exhausted(s)
        BY <1>1, <2>1, <3>1 DEF Timeout
      <3>2. CASE ~Exhausted(s)
        <4> DEFINE e == [sent[s] EXCEPT !.retries = @ + 1]
        <4>1. sent[s] \in Entry
          BY <1>0, <1>1 DEF Timeout, Expired, InHistory
        <4>2. sent' = [sent EXCEPT ![s] = e]
          BY <1>0, <1>1, <3>2 DEF Timeout
        <4>3. e # NoEntry
          BY <3>2, <4>1, EntryFacts, ModelValuesDistinct DEF Exhausted
        <4> HIDE DEF e
        <4> QED
          BY <1>0, <4>2, <4>3
      <3> QED
        BY <3>1, <3>2
    <2>4. \A x \in InHistory : x \in InHistory' \/ log[x] \in abandoned'
      BY <2>2, <2>3 DEF InHistory
    <2> QED
      BY <2>1, <2>4 DEF ReachInv, Reachable
  <1>2. ASSUME NEW m \in ctrl, NEW keep \in BOOLEAN, ReceiveCtrl(m, keep)
        PROVE  ReachInv'
    <2>1. UNCHANGED <<log, expected_seq, abandoned, pc, job>>
      BY <1>2 DEF ReceiveCtrl, rxVars, appVars, threadVars
    <2>2. \A x \in InHistory : x \in InHistory' \/ x < expected_seq
      <3>1. CASE m.kind = "ack" /\ HandleAck(m.seq)
        <4>1. \A x \in SeqNums : sent[x] # NoEntry /\ sent'[x] = NoEntry => x <= m.seq
          BY <1>0, <3>1, HandleAckForgets
        <4>2. m.seq < expected_seq /\ m.seq \in Int /\ expected_seq \in Int
          BY <3>1 DEF SeqInv, TypeOK, MediumTypeOK, RxTypeOK, Ctrl
        <4> QED
          BY <1>0, <4>1, <4>2 DEF InHistory
      <3>2. CASE HandlePartialAck(m.seq)
        BY <3>2, PartialAckKeeps DEF InHistory
      <3>3. CASE QueueRetransmit(m.seq)
        BY <3>3, QueueRetransmitKeeps DEF InHistory
      <3> QED
        BY <1>2, <3>1, <3>2, <3>3 DEF ReceiveCtrl
    <2> QED
      BY <2>1, <2>2 DEF ReachInv, Reachable
  <1> QED
    BY <1>1, <1>2

\* ReachInv is inductive together with the invariants before.
LEMMA ReachStep ==
  ASSUME NoWrap, Ordered, SingleTx
  PROVE  TypeOK /\ SeqInv /\ HistoryInv /\ GateExclusive /\ ReachInv /\ [Next]_vars => ReachInv'
  <1> SUFFICES ASSUME TypeOK, SeqInv, HistoryInv, GateExclusive, ReachInv, [Next]_vars
               PROVE  ReachInv'
    OBVIOUS
  <1>1. CASE \E t \in Threads : ThreadStep(t)
    BY <1>1, ReachThreadStep
  <1>2. CASE \/ \E t \in Threads, s \in SeqNums : Timeout(t, s)
             \/ \E m \in ctrl, keep \in BOOLEAN : ReceiveCtrl(m, keep)
    BY <1>2, ReachForgets
  <1>3. CASE /\ \A t \in Threads : ~ThreadStep(t) /\ \A s \in SeqNums : ~Timeout(t, s)
             /\ \A m \in ctrl, keep \in BOOLEAN : ~ReceiveCtrl(m, keep)
    <2>1. UNCHANGED <<sent, log>>
      BY <1>3, HistoryOthers DEF HistoryKept
    <2>2. \A u \in Threads : pc[u] \in Sending => pc'[u] = pc[u] /\ job'[u] = job[u]
      <3>0. pc \in [Threads -> Steps] /\ job \in [Threads -> Item \cup {NoJob}]
        BY DEF TypeOK, ThreadTypeOK
      <3>1. CASE UNCHANGED <<pc, job>>
        BY <3>1
      <3>2. ASSUME NEW t \in Threads, NEW p \in Packets, TxNow(t, p)
            PROVE  \A u \in Threads : pc[u] \in Sending => pc'[u] = pc[u] /\ job'[u] = job[u]
        <4>1. pc[t] \notin Sending
          BY <3>2 DEF TxNow, Sending
        <4>2. CASE side_tx_gate
          BY <3>2, <4>2 DEF TxNow, threadVars
        <4>3. CASE ~side_tx_gate
          BY <3>0, <3>2, <4>1, <4>3 DEF TxNow, Goto
        <4> QED
          BY <4>2, <4>3
      <3>3. CASE UNCHANGED vars \/ \E p \in Packets : TxQueue(p) \/ EndToEndReplay(p)
        BY <3>1, <3>3 DEF vars, TxQueue, EndToEndReplay, threadVars
      <3>4. ASSUME NEW r \in RxThreads,
                   DispatchStep(r) \/ \E f \in data, keep \in BOOLEAN : ReceiveFrame(r, f, keep)
            PROVE  UNCHANGED <<pc, job>>
        BY <3>4 DEF threadVars, DispatchStep, Dispatch, DispatchDuplicate, ReceiveFrame,
           ReceiveOld, ReceiveAhead, ReceiveNext, ReceiveUnordered
      <3>5. Environment => UNCHANGED <<pc, job>>
        BY DEF Environment, LoseFrame, ReceiveCorrupt, LoseCtrl, ClearTx, EvictTransmit,
           EvictBuffered, threadVars
      <3> QED
        BY <1>3, <3>1, <3>2, <3>3, <3>4, <3>5 DEF Next, Application
    <2>3. expected_seq <= expected_seq' /\ abandoned \subseteq abandoned'
      BY ExpectedGrows, AbandonedGrows
    <2>4. expected_seq \in Nat /\ expected_seq' \in Nat
      BY TypeStep, BoundsAreNat DEF TypeOK, RxTypeOK
    <2>5. Len(log) \in Nat /\ InHistory' = InHistory
      BY <2>1, LenProperties DEF TypeOK, AppTypeOK, InHistory
    <2>6. ASSUME NEW s \in 1..Len(log) PROVE Reachable(s)'
      <3>1. Reachable(s)
        BY DEF ReachInv
      <3> QED
        BY <2>1, <2>2, <2>3, <2>4, <2>5, <3>1 DEF Reachable
    <2> QED
      BY <2>1, <2>6 DEF ReachInv
  <1> QED
    BY <1>1, <1>2, <1>3

\* While numbers do not wrap and one thread sends, no loss, duplicate, corrupted
\* frame, eviction or failing callback makes an ordered stream wait for a number
\* nobody can send again: the sender has it in its history, is sending it, or has
\* reported its packet as given up.
THEOREM AlwaysRecoverable ==
  ASSUME NoWrap, Ordered, SingleTx
  PROVE  Spec => []Recoverable
  <1> DEFINE Inv == TypeOK /\ SeqInv /\ HistoryInv /\ ReachInv
  <1>1. Init => Inv
    <2>1. Init => ReachInv
      BY DEF Init, ReachInv
    <2> QED
      BY <2>1, TypeInit, SeqInit, HistoryInvInit
  <1>2. Inv /\ GateExclusive /\ [Next]_vars => Inv'
    BY TypeStep, SeqStep, HistoryInvStep, ReachStep
  <1>3. Inv => Recoverable
    BY DEF ReachInv, Reachable, Recoverable, Sending
  <1> QED
    BY <1>1, <1>2, <1>3, GateHolds, PTL DEF Spec

(***************************************************************************)
(* The `queued' flag.                                                      *)
(***************************************************************************)

\* No callback fails and nothing is taken from the transmit queue but by a thread.
QueueUndisturbed == Env \cap {"txfail", "clear", "evict"} = {}

\* A thread works on a replay.
Replaying == {"check", "resend", "resent", "rerecord"}

\* A replay of number s is queued or being sent.
Scheduled(s) ==
  \/ \E i \in 1..Len(txq) : txq[i].kind = "replay" /\ txq[i].seq = s
  \/ \E t \in Threads : pc[t] \in Replaying /\ job[t].seq = s

\* The frame of number s is marked.
Marked(s) == sent[s] # NoEntry /\ sent[s].queued

ReplayInv ==
  /\ \A s \in SeqNums : Marked(s) => Scheduled(s)
  /\ \A t \in Threads : pc[t] \in Replaying => job[t].kind = "replay"

\* A queued item stays when another is pushed, and the other is queued.
LEMMA PushKeeps ==
  ASSUME txq \in Seq(Item), NEW item \in Item, Push(item)
  PROVE  /\ \A i \in 1..Len(txq) : \E j \in 1..Len(txq') : txq'[j] = txq[i]
         /\ \E j \in 1..Len(txq') : txq'[j] = item
  <1>1. PICK at \in 1..Len(txq) + 1 : txq' = InsertAt(txq, at, item)
    BY DEF Push
  <1>2. Len(txq) \in Nat
    BY LenProperties
  <1>3. Len(txq') = Len(txq) + 1
    BY <1>1, InsertAtProperties
  <1>4. ASSUME NEW i \in 1..Len(txq) + 1
        PROVE  txq'[i] = IF i < at THEN txq[i] ELSE IF i = at THEN item ELSE txq[i - 1]
    <2>1. InsertAt(txq, at, item)[i] =
            IF i < at THEN txq[i] ELSE IF i = at THEN item ELSE txq[i - 1]
      BY InsertAtProperties
    <2> QED
      BY <1>1, <2>1
  <1>5. ASSUME NEW i \in 1..Len(txq)
        PROVE  \E j \in 1..Len(txq') : txq'[j] = txq[i]
    <2>1. CASE i < at
      BY <1>2, <1>3, <1>4, <2>1
    <2>2. CASE i >= at
      <3>1. i + 1 \in 1..Len(txq) + 1 /\ ~(i + 1 < at) /\ i + 1 # at /\ (i + 1) - 1 = i
        BY <1>2, <2>2
      <3>2. txq'[i + 1] = txq[(i + 1) - 1]
        BY <1>4, <3>1
      <3> QED
        BY <1>3, <3>1, <3>2
    <2> QED
      BY <1>2, <2>1, <2>2
  <1>6. at \in 1..Len(txq') /\ txq'[at] = item
    BY <1>2, <1>3, <1>4
  <1> QED
    BY <1>5, <1>6

\* Taking the front leaves every other item.
LEMMA PopKeeps ==
  ASSUME txq \in Seq(Item), txq # <<>>
  PROVE  \A i \in 1..Len(txq) : txq[i] = Head(txq) \/ \E j \in 1..Len(Tail(txq)) : Tail(txq)[j] = txq[i]
  <1>1. /\ Len(txq) \in Nat \ {0} /\ Head(txq) = txq[1] /\ Len(Tail(txq)) = Len(txq) - 1
        /\ \A i \in 1..Len(Tail(txq)) : Tail(txq)[i] = txq[i + 1]
    BY HeadTailProperties, EmptySeq, LenProperties
  <1>2. ASSUME NEW i \in 1..Len(txq), i # 1
        PROVE  \E j \in 1..Len(Tail(txq)) : Tail(txq)[j] = txq[i]
    <2>1. i - 1 \in 1..Len(Tail(txq)) /\ (i - 1) + 1 = i
      BY <1>1, <1>2
    <2> QED
      BY <1>1, <2>1
  <1> QED
    BY <1>1, <1>2

\* The invariant after a step, from what the step does to one number.
LEMMA ReplayKept ==
  ASSUME ReplayInv,
         \A s \in SeqNums : Marked(s)' => Marked(s) \/ Scheduled(s)',
         \A s \in SeqNums : Scheduled(s) => Scheduled(s)' \/ ~Marked(s)',
         \A t \in Threads : pc'[t] \in Replaying => job'[t].kind = "replay"
  PROVE  ReplayInv'
  BY DEF ReplayInv

\* A step that leaves the marks alone, only adds to the queue and moves a thread
\* that works on no replay.
LEMMA ReplayElsewhere ==
  ASSUME TypeOK, ReplayInv, UNCHANGED sent,
         \A i \in 1..Len(txq) : \E j \in 1..Len(txq') : txq'[j] = txq[i],
         NEW t \in Threads, NEW step, NEW item, Goto(t, step, item),
         pc[t] \notin Replaying, step \notin Replaying
  PROVE  ReplayInv'
  <1>1. /\ pc \in [Threads -> Steps] /\ job \in [Threads -> Item \cup {NoJob}]
        /\ pc' = [pc EXCEPT ![t] = step] /\ job' = [job EXCEPT ![t] = item]
    BY DEF TypeOK, ThreadTypeOK, Goto
  <1>2. /\ \A u \in Threads : u # t => pc'[u] = pc[u] /\ job'[u] = job[u]
        /\ pc'[t] = step
    BY <1>1
  <1>3. \A s : Scheduled(s) => Scheduled(s)'
    BY <1>2 DEF Scheduled
  <1>4. \A s : Marked(s)' <=> Marked(s)
    BY DEF Marked
  <1>5. \A u \in Threads : pc'[u] \in Replaying => job'[u].kind = "replay"
    BY <1>2 DEF ReplayInv
  <1> QED
    BY <1>3, <1>4, <1>5, ReplayKept

\* A thread that works on a replay goes on with it.
LEMMA ReplayGoesOn ==
  ASSUME TypeOK, ReplayInv, UNCHANGED <<sent, txq>>,
         NEW t \in Threads, NEW step, Goto(t, step, job[t]),
         pc[t] \in Replaying, step \in Replaying
  PROVE  ReplayInv'
  <1>1. /\ pc \in [Threads -> Steps] /\ job \in [Threads -> Item \cup {NoJob}]
        /\ pc' = [pc EXCEPT ![t] = step] /\ job' = [job EXCEPT ![t] = job[t]]
    BY DEF TypeOK, ThreadTypeOK, Goto
  <1>2. /\ \A u \in Threads : u # t => pc'[u] = pc[u]
        /\ \A u \in Threads : job'[u] = job[u]
        /\ pc'[t] = step
    BY <1>1
  <1>3. \A s : Scheduled(s) => Scheduled(s)'
    BY <1>2 DEF Scheduled
  <1>4. \A s : Marked(s)' <=> Marked(s)
    BY DEF Marked
  <1>5. \A u \in Threads : pc'[u] \in Replaying => job'[u].kind = "replay"
    BY <1>2 DEF ReplayInv
  <1> QED
    BY <1>3, <1>4, <1>5, ReplayKept

\* A thread finishes with number s: whatever else was scheduled still is.
LEMMA ReplayFinish ==
  ASSUME TypeOK, NEW t \in Threads, Finish(t),
         \A i \in 1..Len(txq) : \E j \in 1..Len(txq') : txq'[j] = txq[i]
  PROVE  /\ \A s \in SeqNums : Scheduled(s) => Scheduled(s)' \/ (pc[t] \in Replaying /\ job[t].seq = s)
         /\ \A u \in Threads : pc'[u] \in Replaying => pc[u] \in Replaying /\ job'[u] = job[u]
  <1>1. /\ pc \in [Threads -> Steps] /\ job \in [Threads -> Item \cup {NoJob}]
        /\ pc' = [pc EXCEPT ![t] = "idle"] /\ job' = [job EXCEPT ![t] = NoJob]
    BY DEF TypeOK, ThreadTypeOK, Finish, Goto
  <1>2. /\ \A u \in Threads : u # t => pc'[u] = pc[u] /\ job'[u] = job[u]
        /\ pc'[t] \notin Replaying
    BY <1>1 DEF Replaying
  <1> QED
    BY <1>2 DEF Scheduled

\* queue_reliable_retransmit marks a frame and queues its replay.
LEMMA ReplayRetransmit ==
  ASSUME TypeOK, NEW x, QueueRetransmit(x)
  PROVE  /\ \A i \in 1..Len(txq) : \E j \in 1..Len(txq') : txq'[j] = txq[i]
         /\ \A s \in SeqNums : Marked(s)' => \/ Marked(s)
                                             \/ \E i \in 1..Len(txq') :
                                                  txq'[i].kind = "replay" /\ txq'[i].seq = s
  <1>0. sent \in [SeqNums -> Entry \cup {NoEntry}] /\ txq \in Seq(Item)
    BY DEF TypeOK, HistoryTypeOK, ThreadTypeOK
  <1>1. CASE x \in InHistory /\ ~sent[x].queued
    <2> DEFINE e == [sent[x] EXCEPT !.queued = TRUE, !.partial_acked = FALSE]
               item == ReplayItem(x, sent[x].pkt)
    <2>1. x \in SeqNums /\ sent[x] \in Entry
      BY <1>0, <1>1 DEF InHistory
    <2>2. sent' = [sent EXCEPT ![x] = e] /\ Push(item)
      BY <1>0, <1>1, <2>1 DEF QueueRetransmit
    <2>3. item \in Item /\ item.kind = "replay" /\ item.seq = x
      BY <2>1, ItemFacts, EntryFacts DEF ReplayItem
    <2> HIDE DEF e, item
    <2>4. \A s \in SeqNums : s # x => (Marked(s)' <=> Marked(s))
      BY <1>0, <2>1, <2>2 DEF Marked
    <2> QED
      BY <1>0, <2>2, <2>3, <2>4, PushKeeps
  <1>2. CASE ~(x \in InHistory /\ ~sent[x].queued)
    BY <1>2 DEF QueueRetransmit, Marked
  <1> QED
    BY <1>1, <1>2

\* The steps of a sending thread.
LEMMA ReplayThreadStep ==
  ASSUME QueueUndisturbed, TypeOK, ReplayInv, NEW t \in Threads, ThreadStep(t)
  PROVE  ReplayInv'
  <1>0. /\ sent \in [SeqNums -> Entry \cup {NoEntry}] /\ txq \in Seq(Item)
        /\ pc \in [Threads -> Steps] /\ job \in [Threads -> Item \cup {NoJob}]
        /\ \A u \in Threads : pc[u] # "idle" => job[u] \in Item /\ job[u].pkt \in Packets
        /\ \A u \in Threads : pc[u] \notin {"idle", "alloc"} => job[u].seq \in SeqNums
    BY ItemFacts DEF TypeOK, ThreadTypeOK, HistoryTypeOK
  <1>k. {"idle", "alloc", "send", "record", "requeue"} \cap Replaying = {}
    BY DEF Replaying
  <1>1. CASE PopTx(t)
    <2>1. /\ txq # <<>> /\ txq' = Tail(txq) /\ UNCHANGED sent /\ pc[t] \notin Replaying
          /\ pc' = [pc EXCEPT ![t] = IF Head(txq).kind = "replay" THEN "check" ELSE "alloc"]
          /\ job' = [job EXCEPT ![t] = Head(txq)]
      BY <1>1 DEF PopTx, historyVars, Goto, Replaying
    <2>2. /\ \A u \in Threads : u # t => pc'[u] = pc[u] /\ job'[u] = job[u]
          /\ job'[t] = Head(txq)
          /\ pc'[t] = IF Head(txq).kind = "replay" THEN "check" ELSE "alloc"
      BY <1>0, <2>1
    <2>3. \A i \in 1..Len(txq) : \/ txq[i] = Head(txq)
                                 \/ \E j \in 1..Len(txq') : txq'[j] = txq[i]
      BY <1>0, <2>1, PopKeeps
    <2>4. \A s : Scheduled(s) => Scheduled(s)'
      <3> SUFFICES ASSUME NEW s, Scheduled(s) PROVE Scheduled(s)'
        OBVIOUS
      <3>1. CASE \E i \in 1..Len(txq) : txq[i].kind = "replay" /\ txq[i].seq = s
        <4>1. PICK i \in 1..Len(txq) : txq[i].kind = "replay" /\ txq[i].seq = s
          BY <3>1
        <4>2. CASE txq[i] = Head(txq)
          BY <2>2, <4>1, <4>2 DEF Scheduled, Replaying
        <4>3. CASE \E j \in 1..Len(txq') : txq'[j] = txq[i]
          BY <4>1, <4>3 DEF Scheduled
        <4> QED
          BY <2>3, <4>2, <4>3
      <3>2. CASE \E u \in Threads : pc[u] \in Replaying /\ job[u].seq = s
        BY <2>1, <2>2, <3>2 DEF Scheduled
      <3> QED
        BY <3>1, <3>2 DEF Scheduled
    <2>5. \A u \in Threads : pc'[u] \in Replaying => job'[u].kind = "replay"
      BY <2>2 DEF ReplayInv, Replaying
    <2>6. \A s : Marked(s)' <=> Marked(s)
      BY <2>1 DEF Marked
    <2> QED
      BY <2>4, <2>5, <2>6, ReplayKept
  <1>2. CASE AllocSeq(t)
    <2>1. \/ Goto(t, "idle", NoJob) \/ Goto(t, "send", [job[t] EXCEPT !.seq = next_seq])
      BY <1>2 DEF AllocSeq, Finish
    <2>2. pc[t] = "alloc" /\ UNCHANGED <<sent, txq>>
      BY <1>2 DEF AllocSeq, historyVars
    <2>3. \A i \in 1..Len(txq) : \E j \in 1..Len(txq') : txq'[j] = txq[i]
      BY <2>2
    <2> HIDE DEF NoJob
    <2> QED
      BY <1>k, <2>1, <2>2, <2>3, ReplayElsewhere
  <1>3. CASE SendBusy(t)
    <2>1. /\ Goto(t, "idle", NoJob) /\ pc[t] = "send" /\ UNCHANGED sent
          /\ Push(DataItem(job[t].pkt))
      BY <1>3 DEF SendBusy, Finish, historyVars
    <2>2. \A i \in 1..Len(txq) : \E j \in 1..Len(txq') : txq'[j] = txq[i]
      BY <1>0, <2>1, ItemFacts, PushKeeps
    <2> HIDE DEF NoJob
    <2> QED
      BY <1>k, <2>1, <2>2, ReplayElsewhere
  <1>4. CASE SendFrame(t)
    <2>1. /\ Goto(t, "record", job[t]) /\ pc[t] = "send" /\ UNCHANGED <<sent, txq>>
      BY <1>4 DEF SendFrame, historyVars
    <2>2. \A i \in 1..Len(txq) : \E j \in 1..Len(txq') : txq'[j] = txq[i]
      BY <2>1
    <2> QED
      BY <1>k, <2>1, <2>2, ReplayElsewhere
  <1>5. ~SendFails(t) /\ ~ResendFails(t)
    BY DEF QueueUndisturbed, SendFails, ResendFails
  <1>6. CASE RecordSent(t)
    <2> DEFINE e == NewEntry(job[t].pkt)
    <2>1. /\ Finish(t) /\ pc[t] \notin Replaying /\ UNCHANGED txq
          /\ sent' = [sent EXCEPT ![job[t].seq] = e]
      BY <1>6 DEF RecordSent, Replaying
    <2>2. \A i \in 1..Len(txq) : \E j \in 1..Len(txq') : txq'[j] = txq[i]
      BY <2>1
    <2>3. ~e.queued /\ job[t].seq \in SeqNums
      BY <1>0, <1>6 DEF NewEntry, RecordSent
    <2> HIDE DEF e
    <2>4. \A s \in SeqNums : Marked(s)' => Marked(s)
      BY <1>0, <2>1, <2>3 DEF Marked
    <2>5. /\ \A s \in SeqNums : Scheduled(s) => Scheduled(s)'
          /\ \A u \in Threads : pc'[u] \in Replaying => pc[u] \in Replaying /\ job'[u] = job[u]
      BY <2>1, <2>2, ReplayFinish
    <2>6. \A u \in Threads : pc'[u] \in Replaying => job'[u].kind = "replay"
      BY <2>5 DEF ReplayInv
    <2> QED
      BY <2>4, <2>5, <2>6, ReplayKept
  <1>7. CASE CheckReplay(t)
    <2>1. pc[t] \in Replaying /\ UNCHANGED <<sent, txq>>
      BY <1>7 DEF CheckReplay, historyVars, Replaying
    <2>2. CASE job[t].seq \in InHistory
      <3>1. Goto(t, "resend", job[t]) /\ "resend" \in Replaying
        BY <1>7, <2>2 DEF CheckReplay, Replaying
      <3> QED
        BY <2>1, <3>1, ReplayGoesOn
    <2>3. CASE job[t].seq \notin InHistory
      <3>1. Finish(t)
        BY <1>7, <2>3 DEF CheckReplay
      <3>2. \A i \in 1..Len(txq) : \E j \in 1..Len(txq') : txq'[j] = txq[i]
        BY <2>1
      <3>3. \A s \in SeqNums : Marked(s)' <=> Marked(s)
        BY <2>1 DEF Marked
      <3>4. \A s \in SeqNums : job[t].seq = s => ~Marked(s)
        BY <2>3 DEF Marked, InHistory
      <3>5. \A s \in SeqNums : Scheduled(s) => Scheduled(s)' \/ ~Marked(s)'
        BY <3>1, <3>2, <3>3, <3>4, ReplayFinish
      <3>6. \A u \in Threads : pc'[u] \in Replaying => job'[u].kind = "replay"
        BY <3>1, <3>2, ReplayFinish DEF ReplayInv
      <3> QED
        BY <3>3, <3>5, <3>6, ReplayKept
    <2> QED
      BY <2>2, <2>3
  <1>8. CASE ResendBusy(t)
    <2>1. Finish(t) /\ pc[t] \in Replaying /\ UNCHANGED sent /\ Push(job[t]) /\ job[t] \in Item
      BY <1>0, <1>8 DEF ResendBusy, historyVars, Replaying
    <2>2. /\ \A i \in 1..Len(txq) : \E j \in 1..Len(txq') : txq'[j] = txq[i]
          /\ \E j \in 1..Len(txq') : txq'[j] = job[t]
      BY <1>0, <2>1, PushKeeps
    <2>3. job[t].kind = "replay"
      BY <2>1 DEF ReplayInv
    <2>4. \A s \in SeqNums : Scheduled(s) => Scheduled(s)'
      <3>1. \A s \in SeqNums : job[t].seq = s => Scheduled(s)'
        BY <2>2, <2>3 DEF Scheduled
      <3> QED
        BY <2>1, <2>2, <3>1, ReplayFinish
    <2>5. \A u \in Threads : pc'[u] \in Replaying => job'[u].kind = "replay"
      BY <2>1, <2>2, ReplayFinish DEF ReplayInv
    <2>6. \A s : Marked(s)' <=> Marked(s)
      BY <2>1 DEF Marked
    <2> QED
      BY <2>4, <2>5, <2>6, ReplayKept
  <1>9. CASE ResendFrame(t) \/ ResendReturns(t)
    <2>1. pc[t] \in Replaying /\ UNCHANGED <<sent, txq>>
      BY <1>9 DEF ResendFrame, ResendReturns, historyVars, Replaying
    <2>2. Goto(t, "resent", job[t]) \/ Goto(t, "rerecord", job[t])
      BY <1>9 DEF ResendFrame, ResendReturns
    <2>3. {"resent", "rerecord"} \subseteq Replaying
      BY DEF Replaying
    <2> QED
      BY <2>1, <2>2, <2>3, ReplayGoesOn
  <1>10. CASE RerecordSent(t)
    <2>1. Finish(t) /\ UNCHANGED txq /\ job[t].seq \in SeqNums
      BY <1>0, <1>10 DEF RerecordSent
    <2>2. \A i \in 1..Len(txq) : \E j \in 1..Len(txq') : txq'[j] = txq[i]
      BY <2>1
    <2>3. \A s \in SeqNums : Marked(s)' => Marked(s) /\ s # job[t].seq
      <3>1. CASE job[t].seq \in InHistory
        <4> DEFINE x == job[t].seq
                   e == [sent[x] EXCEPT !.queued = FALSE]
        <4>1. sent[x] \in Entry /\ sent' = [sent EXCEPT ![x] = e]
          BY <1>0, <1>10, <2>1, <3>1 DEF RerecordSent, InHistory
        <4>2. ~e.queued
          BY <4>1 DEF Entry
        <4> HIDE DEF e
        <4> QED
          BY <1>0, <2>1, <4>1, <4>2 DEF Marked
      <3>2. CASE job[t].seq \notin InHistory
        BY <1>10, <2>1, <3>2 DEF RerecordSent, Marked, InHistory
      <3> QED
        BY <3>1, <3>2
    <2>4. \A s \in SeqNums : Scheduled(s) => Scheduled(s)' \/ ~Marked(s)'
      BY <2>1, <2>2, <2>3, ReplayFinish
    <2>5. \A u \in Threads : pc'[u] \in Replaying => job'[u].kind = "replay"
      BY <2>1, <2>2, ReplayFinish DEF ReplayInv
    <2> QED
      BY <2>3, <2>4, <2>5, ReplayKept
  <1>11. CASE Requeue(t)
    <2>1. Finish(t) /\ QueueRetransmit(job[t].seq) /\ pc[t] \notin Replaying
      BY <1>11 DEF Requeue, Replaying
    <2>2. /\ \A i \in 1..Len(txq) : \E j \in 1..Len(txq') : txq'[j] = txq[i]
          /\ \A s \in SeqNums : Marked(s)' => Marked(s) \/ Scheduled(s)'
      BY <2>1, ReplayRetransmit DEF Scheduled
    <2>3. /\ \A s \in SeqNums : Scheduled(s) => Scheduled(s)'
          /\ \A u \in Threads : pc'[u] \in Replaying => job'[u].kind = "replay"
      BY <2>1, <2>2, ReplayFinish DEF ReplayInv
    <2> QED
      BY <2>2, <2>3, ReplayKept
  <1> QED
    BY <1>1, <1>2, <1>3, <1>4, <1>5, <1>6, <1>7, <1>8, <1>9, <1>10, <1>11 DEF ThreadStep

\* The steps of everybody else.
LEMMA ReplayOthers ==
  ASSUME QueueUndisturbed, TypeOK, ReplayInv, [Next]_vars, \A t \in Threads : ~ThreadStep(t)
  PROVE  ReplayInv'
  <1>0. /\ sent \in [SeqNums -> Entry \cup {NoEntry}] /\ txq \in Seq(Item)
        /\ pc \in [Threads -> Steps] /\ job \in [Threads -> Item \cup {NoJob}]
    BY DEF TypeOK, ThreadTypeOK, HistoryTypeOK
  <1>1. ASSUME UNCHANGED <<pc, job>>,
               \A i \in 1..Len(txq) : \E j \in 1..Len(txq') : txq'[j] = txq[i],
               \A s \in SeqNums : Marked(s)' => Marked(s) \/ Scheduled(s)'
        PROVE  ReplayInv'
    <2>1. \A s \in SeqNums : Scheduled(s) => Scheduled(s)'
      BY <1>1 DEF Scheduled
    <2>2. \A u \in Threads : pc'[u] \in Replaying => job'[u].kind = "replay"
      BY <1>1 DEF ReplayInv
    <2> QED
      BY <1>1, <2>1, <2>2, ReplayKept
  <1>2. CASE UNCHANGED <<pc, job, txq, sent>>
    BY <1>2 DEF ReplayInv, Marked, Scheduled
  <1>3. ASSUME NEW p \in Packets, TxQueue(p) \/ EndToEndReplay(p)
        PROVE  ReplayInv'
    <2>1. /\ UNCHANGED <<pc, job, sent>> /\ (Push(DataItem(p)) \/ Push(E2eItem(p)))
      BY <1>3 DEF TxQueue, EndToEndReplay, threadVars, historyVars
    <2>2. \A i \in 1..Len(txq) : \E j \in 1..Len(txq') : txq'[j] = txq[i]
      BY <1>0, <2>1, ItemFacts, PushKeeps
    <2>3. \A s : Marked(s)' <=> Marked(s)
      BY <2>1 DEF Marked
    <2> QED
      BY <1>1, <2>1, <2>2, <2>3
  <1>4. ASSUME NEW t \in Threads, NEW p \in Packets, TxNow(t, p)
        PROVE  ReplayInv'
    <2>0. UNCHANGED sent /\ pc[t] = "idle"
      BY <1>4 DEF TxNow, historyVars
    <2>1. CASE side_tx_gate
      <3>1. /\ UNCHANGED <<pc, job>> /\ Push(DataItem(p))
        BY <1>4, <2>1 DEF TxNow, threadVars
      <3>2. \A i \in 1..Len(txq) : \E j \in 1..Len(txq') : txq'[j] = txq[i]
        BY <1>0, <3>1, ItemFacts, PushKeeps
      <3>3. \A s : Marked(s)' <=> Marked(s)
        BY <2>0 DEF Marked
      <3> QED
        BY <1>1, <3>1, <3>2, <3>3
    <2>2. CASE ~side_tx_gate
      <3>1. Goto(t, "alloc", DataItem(p)) /\ UNCHANGED txq
        BY <1>4, <2>2 DEF TxNow
      <3>2. \A i \in 1..Len(txq) : \E j \in 1..Len(txq') : txq'[j] = txq[i]
        BY <3>1
      <3>3. "alloc" \notin Replaying /\ "idle" \notin Replaying
        BY DEF Replaying
      <3> QED
        BY <2>0, <3>1, <3>2, <3>3, ReplayElsewhere
    <2> QED
      BY <2>1, <2>2
  <1>5. ASSUME NEW t \in Threads, NEW s \in SeqNums, Timeout(t, s)
        PROVE  ReplayInv'
    <2>0. UNCHANGED txq /\ pc[t] = "idle" /\ sent[s] \in Entry
      BY <1>0, <1>5 DEF Timeout, Expired, InHistory
    <2>1. \A i \in 1..Len(txq) : \E j \in 1..Len(txq') : txq'[j] = txq[i]
      BY <2>0
    <2>2. CASE Exhausted(s)
      <3>1. UNCHANGED <<pc, job>> /\ sent' = [sent EXCEPT ![s] = NoEntry]
        BY <1>5, <2>2 DEF Timeout, threadVars
      <3>2. \A x \in SeqNums : Marked(x)' => Marked(x)
        BY <1>0, <3>1 DEF Marked
      <3> QED
        BY <1>1, <2>1, <3>1, <3>2
    <2>3. CASE ~Exhausted(s)
      <3> DEFINE e == [sent[s] EXCEPT !.retries = @ + 1]
                 item == ReplayItem(s, sent[s].pkt)
      <3>1. sent' = [sent EXCEPT ![s] = e] /\ Goto(t, "requeue", item)
        BY <1>0, <1>5, <2>3 DEF Timeout
      <3>2. e.queued = sent[s].queued /\ sent[s] # NoEntry
        <4>1. e.queued = sent[s].queued
          BY <2>0 DEF Entry
        <4> QED
          BY <2>0, <4>1, ModelValuesDistinct
      <3>3. /\ pc' = [pc EXCEPT ![t] = "requeue"] /\ job' = [job EXCEPT ![t] = item]
        BY <3>1 DEF Goto
      <3> HIDE DEF e, item
      <3>4. \A x \in SeqNums : Marked(x)' => Marked(x)
        BY <1>0, <3>1, <3>2 DEF Marked
      <3>5. /\ \A u \in Threads : u # t => pc'[u] = pc[u] /\ job'[u] = job[u]
            /\ pc'[t] \notin Replaying /\ pc[t] \notin Replaying
        BY <1>0, <2>0, <3>3 DEF Replaying
      <3>6. \A x : Scheduled(x) => Scheduled(x)'
        BY <2>0, <3>5 DEF Scheduled
      <3>7. \A u \in Threads : pc'[u] \in Replaying => job'[u].kind = "replay"
        BY <3>5 DEF ReplayInv
      <3> QED
        BY <3>4, <3>6, <3>7, ReplayKept
    <2> QED
      BY <2>2, <2>3
  <1>6. ASSUME NEW m \in ctrl, NEW keep \in BOOLEAN, ReceiveCtrl(m, keep)
        PROVE  ReplayInv'
    <2>0. UNCHANGED <<pc, job>>
      BY <1>6 DEF ReceiveCtrl, threadVars
    <2>1. CASE HandleAck(m.seq) /\ UNCHANGED txq
      <3>1. \A x \in SeqNums : sent'[x] = NoEntry \/ sent'[x] = sent[x]
        BY <2>1 DEF HandleAck
      <3>2. \A x \in SeqNums : Marked(x)' => Marked(x)
        BY <3>1 DEF Marked
      <3>3. \A i \in 1..Len(txq) : \E j \in 1..Len(txq') : txq'[j] = txq[i]
        BY <2>1
      <3> QED
        BY <1>1, <2>0, <3>2, <3>3
    <2>2. CASE HandlePartialAck(m.seq) /\ UNCHANGED txq
      <3>1. \A x \in SeqNums : Marked(x)' => Marked(x)
        <4>1. CASE m.seq \in InHistory
          <5> DEFINE e == [sent[m.seq] EXCEPT !.partial_acked = TRUE]
          <5>1. m.seq \in SeqNums /\ sent[m.seq] \in Entry /\ sent[m.seq] # NoEntry
            BY <1>0, <4>1 DEF InHistory
          <5>2. sent' = [sent EXCEPT ![m.seq] = e]
            BY <1>0, <2>2, <4>1, <5>1 DEF HandlePartialAck
          <5>3. e.queued = sent[m.seq].queued
            BY <5>1 DEF Entry
          <5> HIDE DEF e
          <5> QED
            BY <1>0, <5>1, <5>2, <5>3 DEF Marked
        <4>2. CASE m.seq \notin InHistory
          BY <2>2, <4>2 DEF HandlePartialAck, Marked
        <4> QED
          BY <4>1, <4>2
      <3>2. \A i \in 1..Len(txq) : \E j \in 1..Len(txq') : txq'[j] = txq[i]
        BY <2>2
      <3> QED
        BY <1>1, <2>0, <3>1, <3>2
    <2>3. CASE QueueRetransmit(m.seq)
      <3>1. /\ \A i \in 1..Len(txq) : \E j \in 1..Len(txq') : txq'[j] = txq[i]
            /\ \A s \in SeqNums : Marked(s)' => Marked(s) \/ Scheduled(s)'
        BY <2>3, ReplayRetransmit DEF Scheduled
      <3> QED
        BY <1>1, <2>0, <3>1
    <2> QED
      BY <1>6, <2>1, <2>2, <2>3 DEF ReceiveCtrl
  <1>7. ASSUME NEW r \in RxThreads,
               DispatchStep(r) \/ \E f \in data, keep \in BOOLEAN : ReceiveFrame(r, f, keep)
        PROVE  UNCHANGED <<pc, job, txq, sent>>
    BY <1>7 DEF threadVars, historyVars, DispatchStep, Dispatch, DispatchDuplicate, ReceiveFrame,
       ReceiveOld, ReceiveAhead, ReceiveNext, ReceiveUnordered
  <1>8. UNCHANGED vars \/ Environment => UNCHANGED <<pc, job, txq, sent>>
    BY DEF vars, QueueUndisturbed, Environment, LoseFrame, ReceiveCorrupt, LoseCtrl, ClearTx,
       EvictTransmit, EvictBuffered, threadVars, historyVars
  <1> QED
    BY <1>2, <1>3, <1>4, <1>5, <1>6, <1>7, <1>8 DEF Next, Application

\* As long as callbacks succeed and the queue is not cleared or evicted from, the
\* `queued' flag, which makes timeouts and packet requests pass over a frame, never
\* outlives the replay it stands for, with any number of threads and any medium.
THEOREM FlagImpliesReplay ==
  ASSUME QueueUndisturbed
  PROVE  Spec => []ReplayScheduled
  <1>1. Init => ReplayInv
    BY DEF Init, ReplayInv, Marked, Replaying
  <1>2. TypeOK /\ ReplayInv /\ [Next]_vars => ReplayInv'
    BY ReplayThreadStep, ReplayOthers
  <1>3. ReplayInv => ReplayScheduled
    BY DEF ReplayInv, ReplayScheduled, Marked, Scheduled, Replaying, InHistory
  <1> QED
    BY <1>1, <1>2, <1>3, TypeCorrect, PTL DEF Spec

(***************************************************************************)
(* Partial acknowledgements.                                               *)
(***************************************************************************)

\* The shared budget takes nothing from the receive buffer.
BufferUndisturbed == "evict" \notin Env

\* The inductive invariant: what was or will be exempted from timeouts has arrived.
HeldInv ==
  NoneGivenUp =>
    /\ \A s \in InHistory : sent[s].partial_acked => Received(s)
    /\ \A m \in ctrl : m.kind = "partial" => Received(m.seq)

\* One thread, or none, is at most one.
LEMMA OneThread ==
  ASSUME SingleTx
  PROVE  IsFiniteSet(Threads) /\ Cardinality(Threads) \in {0, 1}
  <1>1. CASE Threads = {}
    BY <1>1, FS_EmptySet
  <1>2. CASE Threads # {}
    <2>1. PICK t \in Threads : TRUE
      BY <1>2
    <2>2. Threads = {t}
      BY <2>1 DEF SingleTx
    <2> QED
      BY <2>2, FS_Singleton
  <1> QED
    BY <1>1, <1>2

\* Numbers are taken at the end of the log, and what is given up stays given up.
LEMMA GivenUpStays ==
  ASSUME TypeOK, [Next]_vars, NoneGivenUp'
  PROVE  NoneGivenUp
  <1>0. log \in Seq(Packets) /\ Len(log) \in Nat /\ abandoned \subseteq abandoned'
    BY AbandonedGrows, LenProperties DEF TypeOK, AppTypeOK
  <1>1. CASE UNCHANGED log
    BY <1>0, <1>1 DEF NoneGivenUp
  <1>2. ASSUME NEW t \in Threads, AllocSeq(t), log' # log
        PROVE  NoneGivenUp
    <2>1. log' = Append(log, job[t].pkt) /\ job[t].pkt \in Packets
      BY <1>2, ItemFacts DEF AllocSeq, TypeOK, ThreadTypeOK
    <2>2. Len(log') = Len(log) + 1 /\ \A i \in 1..Len(log) : log'[i] = log[i]
      BY <1>0, <2>1, AppendProperties
    <2>3. \A i \in 1..Len(log) : i \in 1..Len(log')
      BY <1>0, <2>2
    <2> QED
      BY <1>0, <2>2, <2>3 DEF NoneGivenUp
  <1>3. ASSUME NEW t \in Threads, ThreadStep(t), ~AllocSeq(t)
        PROVE  UNCHANGED log
    BY <1>3 DEF ThreadStep, PopTx, SendBusy, SendFrame, SendFails, RecordSent,
       CheckReplay, ResendBusy, ResendFrame, ResendFails, ResendReturns, RerecordSent,
       Requeue, historyVars
  <1>4. ASSUME NEW t \in Threads, NEW s \in SeqNums, Timeout(t, s)
        PROVE  UNCHANGED log
    BY <1>4 DEF Timeout
  <1>5. ASSUME NEW m \in ctrl, NEW keep \in BOOLEAN, ReceiveCtrl(m, keep)
        PROVE  UNCHANGED log
    BY <1>5 DEF ReceiveCtrl
  <1>6. CASE /\ \A t \in Threads : ~ThreadStep(t) /\ \A s \in SeqNums : ~Timeout(t, s)
             /\ \A m \in ctrl, keep \in BOOLEAN : ~ReceiveCtrl(m, keep)
    BY <1>1, <1>6, HistoryOthers DEF HistoryKept
  <1> QED
    BY <1>1, <1>2, <1>3, <1>4, <1>5, <1>6

\* While nothing is given up, every frame in the receive buffer has a place of the
\* sender's history, and so has the missing frame before them: a frame that is not
\* buffered yet finds room.
LEMMA RoomInBuffer ==
  ASSUME SingleTx, TypeOK, SeqInv, ReachInv, RoomInv, NoneGivenUp,
         NEW s \in SeqNums, expected_seq < s, s <= Len(log), s \notin InBuffer
  PROVE  Cardinality(InBuffer) < MaxPending
  <1>0. /\ Len(log) \in Nat /\ expected_seq \in Nat /\ 1 <= expected_seq /\ s \in Nat
        /\ MaxPending \in Nat
    BY LenProperties, BoundsAreNat DEF TypeOK, AppTypeOK, RxTypeOK, SeqInv, SeqNums
  <1>1. IsFiniteSet(SeqNums) /\ InBuffer \subseteq SeqNums /\ InHistory \subseteq SeqNums
    BY BoundsAreNat, FS_Interval DEF SeqNums, InBuffer, InHistory
  <1>2. /\ IsFiniteSet(InBuffer) /\ Cardinality(InBuffer) \in Nat
        /\ IsFiniteSet(InHistory) /\ Cardinality(InHistory) \in Nat
    BY <1>1, FS_Subset, FS_CardinalityType
  <1> DEFINE out == (InBuffer \cup {s}) \cup {expected_seq}
             kept == {job[t].seq : t \in Senders}
  <1>3. IsFiniteSet(out) /\ Cardinality(out) = Cardinality(InBuffer) + 2
    <2>1. /\ IsFiniteSet(InBuffer \cup {s})
          /\ Cardinality(InBuffer \cup {s}) = Cardinality(InBuffer) + 1
      BY <1>2, FS_AddElement
    <2>2. expected_seq \notin InBuffer \cup {s}
      BY <1>0 DEF SeqInv
    <2>3. IsFiniteSet(out) /\ Cardinality(out) = Cardinality(InBuffer \cup {s}) + 1
      BY <2>1, <2>2, FS_AddElement
    <2> HIDE DEF out
    <2>4. Cardinality(out) = Cardinality(InBuffer) + 2
      BY <1>2, <2>1, <2>3
    <2> QED
      BY <2>3, <2>4
  <1>4. out \subseteq InHistory \cup kept
    <2> SUFFICES ASSUME NEW x \in out PROVE x \in InHistory \cup kept
      OBVIOUS
    <2>1. x \in 1..Len(log) /\ ~(x < expected_seq)
      <3>1. CASE x \in InBuffer
        BY <1>0, <1>1, <3>1 DEF SeqInv, SeqNums
      <3>2. CASE x = s \/ x = expected_seq
        BY <1>0, <3>2
      <3> QED
        BY <3>1, <3>2
    <2>2. Reachable(x) /\ log[x] \notin abandoned
      BY <2>1 DEF ReachInv, NoneGivenUp
    <2> QED
      BY <2>1, <2>2 DEF Reachable, Senders
  <1>5. IsFiniteSet(kept) /\ Cardinality(kept) <= Cardinality(Senders) /\ Cardinality(kept) \in Nat
    <2>1. CASE Senders = {}
      BY <2>1, FS_EmptySet
    <2>2. CASE Senders # {}
      <3>1. PICK t \in Senders : TRUE
        BY <2>2
      <3>2. Senders = {t}
        BY <3>1 DEF Senders, SingleTx
      <3>3. PICK x : kept = {x}
        BY <3>2
      <3> HIDE DEF kept
      <3>4. IsFiniteSet(kept) /\ Cardinality(kept) = 1
        BY <3>3, FS_Singleton
      <3>5. Cardinality(Senders) = 1
        BY <3>2, FS_Singleton
      <3> QED
        BY <3>4, <3>5
    <2> QED
      BY <2>1, <2>2
  <1> HIDE DEF out, kept
  <1>6. /\ IsFiniteSet(InHistory \cup kept)
        /\ Cardinality(InHistory \cup kept) <= Cardinality(InHistory) + Cardinality(kept)
    <2>1. /\ IsFiniteSet(InHistory \cup kept)
          /\ Cardinality(InHistory \cup kept) =
               Cardinality(InHistory) + Cardinality(kept) - Cardinality(InHistory \cap kept)
      BY <1>2, <1>5, FS_Union
    <2>2. Cardinality(InHistory \cap kept) \in Nat
      <3>1. InHistory \cap kept \subseteq InHistory
        OBVIOUS
      <3> QED
        BY <1>2, <3>1, FS_Subset, FS_CardinalityType
    <2> QED
      BY <1>2, <1>5, <2>1, <2>2
  <1>7. Cardinality(out) <= Cardinality(InHistory \cup kept)
    BY <1>4, <1>6, FS_Subset
  <1>8. Cardinality(Senders) \in Nat /\ Cardinality(Threads) \in {0, 1}
    <2>1. IsFiniteSet(Threads) /\ Cardinality(Threads) \in {0, 1} /\ Senders \subseteq Threads
      BY OneThread DEF Senders
    <2> QED
      BY <2>1, FS_Subset, FS_CardinalityType
  <1>9. Cardinality(InHistory \cup kept) \in Nat
    BY <1>6, FS_CardinalityType
  <1> QED
    BY <1>0, <1>2, <1>3, <1>5, <1>6, <1>7, <1>8, <1>9 DEF RoomInv

\* Without evictions the receiver keeps what it has until it passes it.
LEMMA ReceivedStays ==
  ASSUME NoWrap, Ordered, SingleTx, BufferUndisturbed,
         TypeOK, SeqInv, ReachInv, RoomInv, NoneGivenUp, [Next]_vars
  PROVE  \A s \in Nat : Received(s) => Received(s)'
  <1>0. /\ buffered \in [SeqNums -> Packets \cup {NoPkt}] /\ NoPkt \notin Packets
        /\ Len(log) \in Nat /\ expected_seq \in Nat /\ 1 <= expected_seq
    BY LenProperties, BoundsAreNat, ModelValuesDistinct
       DEF TypeOK, AppTypeOK, RxTypeOK, SeqInv, SeqNums
  <1>1. CASE UNCHANGED <<expected_seq, buffered>>
    BY <1>1 DEF Received, InBuffer
  <1>2. ASSUME NEW r \in RxThreads, NEW f \in data, NEW keep \in BOOLEAN, ReceiveAhead(r, f, keep)
        PROVE  \A s \in Nat : Received(s) => Received(s)'
    <2>1. /\ f.seq \in SeqNums /\ f.pkt \in Packets /\ f.seq <= Len(log)
          /\ expected_seq < f.seq /\ expected_seq' = expected_seq
          /\ buffered' = BufferWith(f.seq, f.pkt)
      <3>1. f.seq \in SeqNums /\ f.pkt \in Packets /\ f.seq <= Len(log)
        BY DEF TypeOK, MediumTypeOK, Frame, SeqInv
      <3> QED
        BY <1>0, <1>2, <3>1 DEF ReceiveAhead, SeqNums
    <2>2. CASE f.seq \in InBuffer
      BY <1>1, <2>1, <2>2 DEF BufferWith
    <2>3. CASE f.seq \notin InBuffer
      <3>1. Cardinality(InBuffer) < MaxPending
        BY <2>1, <2>3, RoomInBuffer
      <3>2. /\ IsFiniteSet(SeqNums) /\ InBuffer \subseteq SeqNums
        BY BoundsAreNat, FS_Interval DEF SeqNums, InBuffer
      <3>3. ~(Cardinality(InBuffer) >= MaxPending)
        BY <3>1, <3>2, FS_Subset, FS_CardinalityType, BoundsAreNat
      <3>4. \A x \in SeqNums : buffered'[x] = IF x = f.seq THEN f.pkt ELSE buffered[x]
        BY <2>1, <2>3, <3>3 DEF BufferWith
      <3>5. InBuffer \subseteq InBuffer'
        BY <1>0, <2>1, <3>4 DEF InBuffer
      <3> QED
        BY <2>1, <3>5 DEF Received
    <2> QED
      BY <2>2, <2>3
  <1>3. ASSUME NEW r \in RxThreads, NEW f \in data, NEW keep \in BOOLEAN, ReceiveNext(r, f, keep)
        PROVE  \A s \in Nat : Received(s) => Received(s)'
    <2>1. PICK n \in 0..SeqMax :
            /\ IsRun(f.seq, n)
            /\ expected_seq' = NextExpected(f.seq, n)
            /\ buffered' = [x \in SeqNums |->
                 IF \E i \in 1..n : RunAt(f.seq, i) = x THEN NoPkt ELSE buffered[x]]
      BY <1>3 DEF ReceiveNext
    <2>2. f.seq = expected_seq /\ n \in Nat
      BY <1>3, BoundsAreNat DEF ReceiveNext, IsNext
    <2>3. /\ \A i \in 1..n + 1 : RunAt(f.seq, i) = f.seq + i
          /\ expected_seq' = f.seq + n + 1
      BY <2>1, <2>2, RunNoWrap
    <2>4. ASSUME NEW s \in InBuffer PROVE Received(s)'
      <3>1. s \in SeqNums /\ buffered[s] # NoPkt /\ s \in Nat
        BY DEF InBuffer, SeqNums
      <3>2. CASE \E i \in 1..n : RunAt(f.seq, i) = s
        <4>1. PICK i \in 1..n : RunAt(f.seq, i) = s
          BY <3>2
        <4>2. i \in 1..n + 1 /\ s = f.seq + i
          BY <2>2, <2>3, <4>1
        <4>3. s < expected_seq'
          BY <1>0, <2>2, <2>3, <4>1, <4>2
        <4> QED
          BY <4>3 DEF Received
      <3>3. CASE ~ \E i \in 1..n : RunAt(f.seq, i) = s
        BY <2>1, <3>1, <3>3 DEF Received, InBuffer
      <3> QED
        BY <3>2, <3>3
    <2>5. ASSUME NEW s \in Nat, s < expected_seq PROVE s < expected_seq'
      BY <1>0, <2>2, <2>3, <2>5
    <2> QED
      BY <2>4, <2>5 DEF Received
  <1>4. ASSUME NEW r \in RxThreads, NEW f \in data, NEW keep \in BOOLEAN,
               ReceiveFrame(r, f, keep), ~ReceiveAhead(r, f, keep), ~ReceiveNext(r, f, keep)
        PROVE  UNCHANGED <<expected_seq, buffered>>
    BY <1>4 DEF ReceiveFrame, ReceiveOld, ReceiveUnordered, rxVars
  <1>5. UNCHANGED vars \/ Application => UNCHANGED <<expected_seq, buffered>>
    BY DEF vars, Application, TxQueue, EndToEndReplay, TxNow, rxVars
  <1>6. ASSUME NEW t \in Threads, ThreadStep(t) \/ \E s \in SeqNums : Timeout(t, s)
        PROVE  UNCHANGED <<expected_seq, buffered>>
    BY <1>6 DEF ThreadStep, PopTx, AllocSeq, SendBusy, SendFrame, SendFails, RecordSent,
       CheckReplay, ResendBusy, ResendFrame, ResendFails, ResendReturns, RerecordSent,
       Requeue, Timeout, rxVars
  <1>7. ASSUME NEW m \in ctrl, NEW keep \in BOOLEAN, ReceiveCtrl(m, keep)
        PROVE  UNCHANGED <<expected_seq, buffered>>
    BY <1>7 DEF ReceiveCtrl, rxVars
  <1>8. ASSUME NEW r \in RxThreads, DispatchStep(r)
        PROVE  UNCHANGED <<expected_seq, buffered>>
    BY <1>8 DEF DispatchStep, Dispatch, DispatchDuplicate
  <1>9. Environment => UNCHANGED <<expected_seq, buffered>>
    BY DEF BufferUndisturbed, Environment, LoseFrame, ReceiveCorrupt, LoseCtrl, ClearTx,
       EvictTransmit, EvictBuffered, rxVars
  <1> QED
    BY <1>1, <1>2, <1>3, <1>4, <1>5, <1>6, <1>7, <1>8, <1>9 DEF Next

\* What exempts a frame from timeouts is a partial ack for it.
LEMMA ExemptedByAck ==
  ASSUME TypeOK, [Next]_vars
  PROVE  \A s \in SeqNums : (sent'[s] # NoEntry /\ sent'[s].partial_acked) =>
           \/ sent[s] # NoEntry /\ sent[s].partial_acked
           \/ \E m \in ctrl : m.kind = "partial" /\ m.seq = s
  <1> DEFINE Exempt(s) == sent[s] # NoEntry /\ sent[s].partial_acked
             Asked(s) == \E m \in ctrl : m.kind = "partial" /\ m.seq = s
  <1>0. sent \in [SeqNums -> Entry \cup {NoEntry}] /\ NoEntry \notin Entry
    BY ModelValuesDistinct DEF TypeOK, HistoryTypeOK
  <1>1. ASSUME NEW x \in SeqNums, NEW e, sent' = [sent EXCEPT ![x] = e],
               (e # NoEntry /\ e.partial_acked) => Exempt(x) \/ Asked(x)
        PROVE  \A s \in SeqNums : Exempt(s)' => Exempt(s) \/ Asked(s)
    BY <1>0, <1>1
  <1>2. CASE UNCHANGED sent
    BY <1>2
  <1>3. ASSUME NEW x \in SeqNums, QueueRetransmit(x)
        PROVE  \A s \in SeqNums : Exempt(s)' => Exempt(s) \/ Asked(s)
    <2>1. CASE x \in InHistory /\ ~sent[x].queued
      <3> DEFINE e == [sent[x] EXCEPT !.queued = TRUE, !.partial_acked = FALSE]
      <3>1. sent' = [sent EXCEPT ![x] = e]
        BY <1>0, <2>1, <1>3 DEF QueueRetransmit
      <3>2. ~e.partial_acked
        BY <1>0, <2>1 DEF InHistory, Entry
      <3> HIDE DEF e, Exempt, Asked
      <3> QED
        BY <1>1, <3>1, <3>2
    <2>2. CASE ~(x \in InHistory /\ ~sent[x].queued)
      BY <1>2, <1>3, <2>2 DEF QueueRetransmit
    <2> QED
      BY <2>1, <2>2
  <1>4. ASSUME NEW t \in Threads, RecordSent(t)
        PROVE  \A s \in SeqNums : Exempt(s)' => Exempt(s) \/ Asked(s)
    <2> DEFINE e == NewEntry(job[t].pkt)
    <2>1. job[t].seq \in SeqNums
      BY <1>4, ItemFacts DEF RecordSent, TypeOK, ThreadTypeOK
    <2>2. sent' = [sent EXCEPT ![job[t].seq] = e] /\ ~e.partial_acked
      BY <1>4 DEF RecordSent, NewEntry
    <2> HIDE DEF e, Exempt, Asked
    <2> QED
      BY <1>1, <2>1, <2>2
  <1>5. ASSUME NEW t \in Threads, RerecordSent(t)
        PROVE  \A s \in SeqNums : Exempt(s)' => Exempt(s) \/ Asked(s)
    <2>1. CASE job[t].seq \in InHistory
      <3> DEFINE e == [sent[job[t].seq] EXCEPT !.queued = FALSE]
      <3>1. sent' = [sent EXCEPT ![job[t].seq] = e] /\ job[t].seq \in SeqNums
        BY <1>5, <2>1 DEF RerecordSent, InHistory
      <3>2. e.partial_acked = sent[job[t].seq].partial_acked /\ sent[job[t].seq] # NoEntry
        BY <1>0, <2>1 DEF InHistory, Entry
      <3> HIDE DEF e
      <3> QED
        BY <1>1, <3>1, <3>2
    <2>2. CASE job[t].seq \notin InHistory
      BY <1>2, <1>5, <2>2 DEF RerecordSent
    <2> QED
      BY <2>1, <2>2
  <1>6. ASSUME NEW t \in Threads, ThreadStep(t), ~RecordSent(t), ~RerecordSent(t)
        PROVE  \A s \in SeqNums : Exempt(s)' => Exempt(s) \/ Asked(s)
    <2>1. CASE Requeue(t)
      <3>1. job[t].seq \in SeqNums /\ QueueRetransmit(job[t].seq)
        BY <2>1 DEF Requeue, TypeOK, ThreadTypeOK
      <3> HIDE DEF Exempt, Asked
      <3> QED
        BY <1>3, <3>1
    <2>2. CASE ~Requeue(t)
      <3>1. UNCHANGED sent
        BY <1>6, <2>2 DEF ThreadStep, PopTx, AllocSeq, SendBusy, SendFrame, SendFails,
           CheckReplay, ResendBusy, ResendFrame, ResendFails, ResendReturns, historyVars
      <3> QED
        BY <1>2, <3>1
    <2> QED
      BY <2>1, <2>2
  <1>7. ASSUME NEW t \in Threads, NEW x \in SeqNums, Timeout(t, x)
        PROVE  \A s \in SeqNums : Exempt(s)' => Exempt(s) \/ Asked(s)
    <2>1. CASE Exhausted(x)
      <3>1. sent' = [sent EXCEPT ![x] = NoEntry]
        BY <1>7, <2>1 DEF Timeout
      <3> QED
        BY <1>0, <3>1
    <2>2. CASE ~Exhausted(x)
      <3> DEFINE e == [sent[x] EXCEPT !.retries = @ + 1]
      <3>1. sent' = [sent EXCEPT ![x] = e] /\ sent[x] \in Entry
        BY <1>0, <1>7, <2>2 DEF Timeout, Expired, InHistory
      <3>2. e.partial_acked = sent[x].partial_acked /\ sent[x] # NoEntry
        BY <1>0, <3>1 DEF Entry
      <3> HIDE DEF e
      <3> QED
        BY <1>1, <3>1, <3>2
    <2> QED
      BY <2>1, <2>2
  <1>8. ASSUME NEW m \in ctrl, NEW keep \in BOOLEAN, ReceiveCtrl(m, keep)
        PROVE  \A s \in SeqNums : Exempt(s)' => Exempt(s) \/ Asked(s)
    <2>1. CASE HandleAck(m.seq)
      <3>1. \A s \in SeqNums : sent'[s] = NoEntry \/ sent'[s] = sent[s]
        BY <2>1 DEF HandleAck
      <3> QED
        BY <3>1
    <2>2. CASE m.kind = "partial" /\ HandlePartialAck(m.seq)
      <3>1. CASE m.seq \in InHistory
        <4> DEFINE e == [sent[m.seq] EXCEPT !.partial_acked = TRUE]
        <4>1. sent' = [sent EXCEPT ![m.seq] = e] /\ m.seq \in SeqNums
          BY <2>2, <3>1 DEF HandlePartialAck, InHistory
        <4>2. Asked(m.seq)
          BY <2>2
        <4> HIDE DEF e, Exempt, Asked
        <4> QED
          BY <1>1, <4>1, <4>2
      <3>2. CASE m.seq \notin InHistory
        BY <1>2, <2>2, <3>2 DEF HandlePartialAck
      <3> QED
        BY <3>1, <3>2
    <2>3. CASE QueueRetransmit(m.seq)
      <3>1. CASE m.seq \in SeqNums
        <4> HIDE DEF Exempt, Asked
        <4> QED
          BY <1>3, <2>3, <3>1
      <3>2. CASE m.seq \notin SeqNums
        BY <1>2, <2>3, <3>2 DEF QueueRetransmit, InHistory
      <3> QED
        BY <3>1, <3>2
    <2> QED
      BY <1>8, <2>1, <2>2, <2>3 DEF ReceiveCtrl
  <1>9. ASSUME \A t \in Threads : ~ThreadStep(t) /\ \A s \in SeqNums : ~Timeout(t, s),
               \A m \in ctrl, keep \in BOOLEAN : ~ReceiveCtrl(m, keep)
        PROVE  \A s \in SeqNums : Exempt(s)' => Exempt(s) \/ Asked(s)
    <2>1. UNCHANGED sent
      BY <1>9, HistoryOthers
    <2> QED
      BY <1>2, <2>1
  <1>10. \A s \in SeqNums : Exempt(s)' => Exempt(s) \/ Asked(s)
    <2> HIDE DEF Exempt, Asked
    <2> QED
      BY <1>4, <1>5, <1>6, <1>7, <1>8, <1>9
  <1> QED
    BY <1>10

\* A partial ack is sent for a frame the receiver has just put into its buffer.
LEMMA PartialIsReceived ==
  ASSUME TypeOK, Ordered, [Next]_vars
  PROVE  \A m \in ctrl' : m.kind = "partial" => m \in ctrl \/ Received(m.seq)'
  <1>1. CASE ctrl' \subseteq ctrl
    BY <1>1
  <1>2. ASSUME NEW r \in RxThreads, NEW f \in data, NEW keep \in BOOLEAN, ReceiveFrame(r, f, keep)
        PROVE  \A m \in ctrl' : m.kind = "partial" => m \in ctrl \/ Received(m.seq)'
    <2>1. CASE ReceiveOld(r, f, keep)
      BY <2>1 DEF ReceiveOld, Msg
    <2>2. CASE ReceiveAhead(r, f, keep)
      <3>1. ctrl' = ctrl \cup {Msg("partial", f.seq), Msg("request", expected_seq)}
        BY <2>2 DEF ReceiveAhead
      <3>2. f.seq \in SeqNums /\ f.pkt \in Packets /\ buffered' = BufferWith(f.seq, f.pkt)
        BY <2>2 DEF ReceiveAhead, TypeOK, MediumTypeOK, Frame
      <3>3. f.seq \in InBuffer'
        BY <3>2, ModelValuesDistinct DEF BufferWith, InBuffer
      <3> QED
        BY <3>1, <3>3 DEF Msg, Received
    <2>3. CASE ReceiveNext(r, f, keep)
      BY <2>3 DEF ReceiveNext, Release, AckRefused, Msg
    <2> QED
      BY <1>2, <2>1, <2>2, <2>3 DEF ReceiveFrame, ReceiveUnordered
  <1>3. CASE UNCHANGED vars \/ Application
    BY <1>3 DEF vars, Application, TxQueue, EndToEndReplay, TxNow, mediumVars
  <1>4. ASSUME NEW t \in Threads, ThreadStep(t)
        PROVE  ctrl' = ctrl
    BY <1>4 DEF ThreadStep, PopTx, AllocSeq, SendBusy, SendFrame, SendFails, RecordSent,
       CheckReplay, ResendBusy, ResendFrame, ResendFails, ResendReturns, RerecordSent,
       Requeue, mediumVars
  <1>5. ASSUME NEW t \in Threads, NEW s \in SeqNums, Timeout(t, s)
        PROVE  ctrl' = ctrl
    BY <1>5 DEF Timeout, mediumVars
  <1>6. ASSUME NEW m \in ctrl, NEW keep \in BOOLEAN, ReceiveCtrl(m, keep)
        PROVE  ctrl' \subseteq ctrl
    BY <1>6 DEF ReceiveCtrl
  <1>7. ASSUME NEW r \in RxThreads, DispatchStep(r)
        PROVE  ctrl' = ctrl
    BY <1>7 DEF DispatchStep, Dispatch, DispatchDuplicate, mediumVars
  <1>8. CASE Environment
    <2>1. ASSUME NEW f \in data, NEW x \in 0..SeqMax, ReceiveCorrupt(f, x)
          PROVE  \A m \in ctrl' : m.kind = "partial" => m \in ctrl
      BY <2>1 DEF ReceiveCorrupt, Msg
    <2>2. ASSUME NEW m \in ctrl, LoseCtrl(m)
          PROVE  ctrl' \subseteq ctrl
      BY <2>2 DEF LoseCtrl
    <2>3. ASSUME \/ \E f \in data : LoseFrame(f)
                 \/ ClearTx \/ EvictTransmit \/ EvictBuffered
          PROVE  ctrl' \subseteq ctrl
      BY <2>3 DEF LoseFrame, ClearTx, EvictTransmit, EvictBuffered, mediumVars
    <2>4. ctrl' \subseteq ctrl \/ \E f \in data, x \in 0..SeqMax : ReceiveCorrupt(f, x)
      BY <1>8, <2>2, <2>3 DEF Environment
    <2>5. \A m \in ctrl' : m.kind = "partial" => m \in ctrl
      BY <2>1, <2>4
    <2> QED
      BY <2>5
  <1> QED
    BY <1>1, <1>2, <1>3, <1>4, <1>5, <1>6, <1>7, <1>8 DEF Next

\* HeldInv is inductive together with the invariants before.
LEMMA HeldStep ==
  ASSUME NoWrap, Ordered, SingleTx, BufferUndisturbed
  PROVE  TypeOK /\ SeqInv /\ ReachInv /\ RoomInv /\ HeldInv /\ [Next]_vars => HeldInv'
  <1> SUFFICES ASSUME TypeOK, SeqInv, ReachInv, RoomInv, HeldInv, [Next]_vars, NoneGivenUp'
               PROVE  /\ \A s \in InHistory' : sent'[s].partial_acked => Received(s)'
                      /\ \A m \in ctrl' : m.kind = "partial" => Received(m.seq)'
    BY DEF HeldInv
  <1>1. NoneGivenUp
    BY GivenUpStays
  <1>2. \A s \in Nat : Received(s) => Received(s)'
    BY <1>1, ReceivedStays
  <1>3. /\ \A s \in SeqNums : s \in Nat
        /\ \A m \in ctrl : m.seq \in Nat
    BY BoundsAreNat DEF TypeOK, MediumTypeOK, Ctrl, SeqNums
  <1>4. ASSUME NEW s \in SeqNums, sent'[s] # NoEntry, sent'[s].partial_acked
        PROVE  Received(s)'
    <2>1. Received(s)
      BY <1>1, <1>4, ExemptedByAck DEF HeldInv, InHistory
    <2> QED
      BY <1>2, <1>3, <2>1
  <1>5. ASSUME NEW m \in ctrl', m.kind = "partial"
        PROVE  Received(m.seq)'
    <2>1. CASE m \in ctrl
      <3>1. Received(m.seq) /\ m.seq \in Nat
        BY <1>1, <1>3, <1>5, <2>1 DEF HeldInv
      <3> QED
        BY <1>2, <3>1
    <2>2. CASE m \notin ctrl
      BY <1>5, <2>2, PartialIsReceived
    <2> QED
      BY <2>1, <2>2
  <1> QED
    BY <1>4, <1>5 DEF InHistory

\* handle_reliable_partial_ack exempts a frame from timeouts on the receiver's word.
\* While numbers do not wrap, one thread sends and the shared budget leaves the
\* buffer alone, the receiver keeps that word, whatever the medium and the callbacks
\* do and however small the buffer: as long as no frame is given up, its
\* RELIABLE_MAX_PENDING places hold everything the sender's history can have under way.
THEOREM ExemptIsHeld ==
  ASSUME NoWrap, Ordered, SingleTx, BufferUndisturbed
  PROVE  Spec => []PartialAckHeld
  <1> DEFINE Inv == TypeOK /\ SeqInv /\ HistoryInv /\ ReachInv /\ RoomInv /\ HeldInv
  <1>1. Init => Inv
    <2>1. Init => ReachInv
      BY DEF Init, ReachInv
    <2>2. Init => RoomInv
      <3> SUFFICES ASSUME Init PROVE RoomInv
        OBVIOUS
      <3>1. InHistory = {} /\ Senders = {}
        BY DEF Init, InHistory, Senders, Sending
      <3>2. Cardinality(InHistory) = 0 /\ Cardinality(Senders) = 0
        BY <3>1, FS_EmptySet
      <3>3. Cardinality(Threads) \in {0, 1}
        BY OneThread
      <3> QED
        BY <3>2, <3>3, BoundsAreNat DEF RoomInv
    <2>3. Init => HeldInv
      BY DEF Init, HeldInv, InHistory
    <2> QED
      BY <2>1, <2>2, <2>3, TypeInit, SeqInit, HistoryInvInit
  <1>2. Inv /\ GateExclusive /\ [Next]_vars => Inv'
    <2>1. IsFiniteSet(Threads)
      BY OneThread
    <2> QED
      BY <2>1, TypeStep, SeqStep, HistoryInvStep, ReachStep, RoomStep, HeldStep
  <1>3. Inv => PartialAckHeld
    BY DEF HeldInv, PartialAckHeld
  <1> QED
    BY <1>1, <1>2, <1>3, GateHolds, PTL DEF Spec

=============================================================================
