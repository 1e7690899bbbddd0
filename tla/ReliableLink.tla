---------------------------- MODULE ReliableLink ----------------------------
(***************************************************************************)
(* One reliable stream of a Router: the frames of one data type sent over  *)
(* one side (src/src/router.rs, the state kept per (side, type) key in     *)
(* reliable_tx and reliable_rx).  The sending router gives each packet a   *)
(* sequence number, keeps it in a history until it is acknowledged and     *)
(* replays it on timeout or on request.  The receiving router releases     *)
(* frames in sequence order, buffers those that arrive after a gap,        *)
(* partially acknowledges them and requests the missing one.               *)
(*                                                                         *)
(* Router methods run on any thread.  State is behind one mutex, but       *)
(* send_reliable_to_side unlocks between taking a sequence number, calling *)
(* the side's TX callback and recording the frame, so these are separate   *)
(* steps of a thread.  The receiver likewise unlocks between advancing     *)
(* expected_seq and dispatching the released frames.                       *)
(*                                                                         *)
(* The medium may lose, duplicate, reorder and corrupt.  The transmit      *)
(* queue of the receiving router, which holds only control packets, is     *)
(* part of `ctrl': waiting in it is delay, being evicted from it is loss.  *)
(*                                                                         *)
(* A definition directly above another one, with the same parameters, and  *)
(* used nowhere (HistoryFullOffByOne, GateIgnored, ...) is a faulty form   *)
(* of it, the mistake that a property below detects.                       *)
(***************************************************************************)
EXTENDS Integers, Sequences, FiniteSets, SequencesExt

CONSTANTS
  Packets,      \* packets the application may submit
  NoPkt,        \* marks a sequence number that is not buffered
  NoEntry,      \* marks a sequence number that is not in the history
  Threads,      \* threads that run the sending router
  RxThreads,    \* threads that run the receiving router
  Ordered,      \* reliable_mode(ty) is Ordered (otherwise Unordered)
  SeqMax,       \* largest sequence number: u32::MAX in the code
  MaxPending,   \* RELIABLE_MAX_PENDING
  MaxRetries,   \* RELIABLE_MAX_RETRIES
  MaxRecent,    \* MAX_RECENT_RX_IDS
  MaxAlloc,     \* bound: sequence numbers handed out
  MaxLoss,      \* bound: messages lost, damaged or evicted
  RttBounded,   \* RELIABLE_RETRANSMIT_MS exceeds the round trip
  Env           \* what the environment may do, a subset of EnvKinds

\* lose, dup, corrupt: the medium.  txfail: a TX callback returns an error.
\* clear: clear_tx_queue or clear_queues drops queued items.
\* evict: other traffic fills the shared queue budget.  e2e: the end-to-end
\* layer sends the packet again.  handler: a local handler fails on every retry.
\* dispatch: dispatch_rx_data returns an error.  saturated: an ack does not fit
\* in a transmit queue full of items of higher priority.
EnvKinds == {"lose", "dup", "corrupt", "txfail", "clear", "evict", "e2e", "handler",
             "dispatch", "saturated"}

SeqNums == 1..SeqMax
Frame   == [seq : SeqNums, pkt : Packets]
Ctrl    == [kind : {"ack", "partial", "request"}, seq : 0..SeqMax]
Item    == [kind : {"data", "e2e"}, seq : 0..SeqMax, pkt : Packets]
             \cup [kind : {"replay"}, seq : SeqNums, pkt : Packets]
NoJob   == [kind |-> "none", seq |-> 0]
Entry   == [pkt : Packets, retries : 0..MaxRetries, queued : BOOLEAN,
            partial_acked : BOOLEAN]
Steps   == {"idle", "alloc", "send", "record", "check", "resend", "resent",
            "rerecord", "requeue"}

ASSUME ModelValuesDistinct == NoPkt \notin Packets /\ NoEntry \notin Entry
ASSUME BoundsAreNat ==
  /\ SeqMax \in Nat \ {0} /\ MaxPending \in Nat \ {0} /\ MaxRecent \in Nat \ {0}
  /\ MaxRetries \in Nat /\ MaxAlloc \in Nat /\ MaxLoss \in Nat
ASSUME FlagsAreBoolean == Ordered \in BOOLEAN /\ RttBounded \in BOOLEAN
ASSUME EnvKnown == Env \subseteq EnvKinds

VARIABLES
  \* ---- sending router ----
  next_seq,     \* ReliableTxState.next_seq
  sent,         \* ReliableTxState.sent: seq -> entry or NoEntry
  sent_order,   \* ReliableTxState.sent_order
  txq,          \* RouterInner.transmit_queue, the items of this stream
  pc, job,      \* per thread: where it is, and the queue item it works on
  side_tx_gate, \* ReentryGate.busy
  \* ---- medium ----
  data, ctrl,   \* frames toward the receiver, control packets toward the sender
  losses,       \* messages lost, damaged or evicted so far
  \* ---- receiving router ----
  expected_seq, \* ReliableRxState.expected_seq
  buffered,     \* ReliableRxState.buffered: seq -> packet or NoPkt
  release,      \* per RX thread: frames to dispatch, arrival first
  arrival,      \* per RX thread: Head(release) is the frame that arrived
  recent_rx,    \* RouterInner.recent_rx: ids of the packets last dispatched
  \* ---- history, read by properties only ----
  accepted,     \* packets the application handed over
  abandoned,    \* packets refused with an error or dropped after MaxRetries
  log,          \* log[i]: the packet the i-th sequence number was taken for
  delivered     \* frames dispatched to handlers, in order

historyVars == <<sent, sent_order>>
threadVars  == <<pc, job>>
mediumVars  == <<data, ctrl, losses>>
rxVars      == <<expected_seq, buffered, release, arrival>>
appVars     == <<accepted, abandoned>>
vars == <<next_seq, historyVars, txq, threadVars, side_tx_gate, mediumVars,
          rxVars, recent_rx, appVars, log, delivered>>

FrameOf(s, p) == [seq |-> s, pkt |-> p]
DataItem(p)   == [kind |-> "data", seq |-> 0, pkt |-> p]
E2eItem(p)    == [kind |-> "e2e", seq |-> 0, pkt |-> p]
ReplayItem(s, p) == [kind |-> "replay", seq |-> s, pkt |-> p]
Msg(k, s)     == [kind |-> k, seq |-> s]
NewEntry(p)   == [pkt |-> p, retries |-> 0, queued |-> FALSE, partial_acked |-> FALSE]

InHistory == {s \in SeqNums : sent[s] # NoEntry}
InBuffer  == {s \in SeqNums : buffered[s] # NoPkt}
Keeps     == IF "dup" \in Env THEN BOOLEAN ELSE {FALSE}

Init ==
  /\ next_seq = 1
  /\ sent = [s \in SeqNums |-> NoEntry]
  /\ sent_order = <<>> /\ txq = <<>>
  /\ pc = [t \in Threads |-> "idle"]
  /\ job = [t \in Threads |-> NoJob]
  /\ side_tx_gate = FALSE
  /\ data = {} /\ ctrl = {} /\ losses = 0
  /\ expected_seq = 1
  /\ buffered = [s \in SeqNums |-> NoPkt]
  /\ release = [r \in RxThreads |-> <<>>]
  /\ arrival = [r \in RxThreads |-> FALSE]
  /\ recent_rx = <<>>
  /\ accepted = {} /\ abandoned = {} /\ log = <<>> /\ delivered = <<>>

-----------------------------------------------------------------------------
(***************************************************************************)
(* The transmit queue of the sending router.                               *)
(***************************************************************************)

\* message_priority and router_item_priority_bumped, only their order.
Priority(item) == CASE item.kind = "e2e" -> 2
                    [] item.kind = "replay" -> 1
                    [] OTHER -> 0

\* push_transmit, push_back_prioritized: before the first item of lower priority.
Push(item) ==
  \E at \in 1..Len(txq) + 1 :
    /\ \A i \in 1..at - 1 : Priority(txq[i]) >= Priority(item)
    /\ at <= Len(txq) => Priority(txq[at]) < Priority(item)
    /\ txq' = InsertAt(txq, at, item)

Goto(t, step, item) ==
  /\ pc' = [pc EXCEPT ![t] = step]
  /\ job' = [job EXCEPT ![t] = item]

Finish(t) == Goto(t, "idle", NoJob)

\* Router::tx_queue: the packet waits in the transmit queue.
TxQueue(p) ==
  /\ p \notin accepted
  /\ accepted' = accepted \cup {p}
  /\ Push(DataItem(p))
  /\ UNCHANGED <<next_seq, historyVars, threadVars, side_tx_gate, mediumVars,
                 rxVars, recent_rx, abandoned, log, delivered>>

\* Router::tx: sent by the calling thread, or queued while a TX callback runs.
TxNow(t, p) ==
  /\ p \notin accepted /\ pc[t] = "idle"
  /\ accepted' = accepted \cup {p}
  /\ IF side_tx_gate
       THEN Push(DataItem(p)) /\ UNCHANGED threadVars
       ELSE Goto(t, "alloc", DataItem(p)) /\ UNCHANGED txq
  /\ UNCHANGED <<next_seq, historyVars, side_tx_gate, mediumVars,
                 rxVars, recent_rx, abandoned, log, delivered>>

\* queue_end_to_end_reliable_retransmit of a packet that send_reliable_to_side
\* was called for: at most one replay of a packet is queued.
EndToEndReplay(p) ==
  /\ "e2e" \in Env /\ Len(log) < MaxAlloc
  /\ p \in Range(log) \cup abandoned /\ E2eItem(p) \notin Range(txq)
  /\ Push(E2eItem(p))
  /\ UNCHANGED <<next_seq, historyVars, threadVars, side_tx_gate, mediumVars,
                 rxVars, recent_rx, appVars, log, delivered>>

\* process_tx_queue, process_all_queues: take the front of the queue.
PopTx(t) ==
  /\ pc[t] = "idle" /\ txq # <<>>
  /\ txq' = Tail(txq)
  /\ Goto(t, IF Head(txq).kind = "replay" THEN "check" ELSE "alloc", Head(txq))
  /\ UNCHANGED <<next_seq, historyVars, side_tx_gate, mediumVars,
                 rxVars, recent_rx, appVars, log, delivered>>

-----------------------------------------------------------------------------
(***************************************************************************)
(* send_reliable_to_side: three critical sections of one thread.           *)
(***************************************************************************)

HistoryFullOffByOne == Cardinality(InHistory) > MaxPending
HistoryFull == Cardinality(InHistory) >= MaxPending

NextSeq(s) == IF s = SeqMax THEN 1 ELSE s + 1

\* Take a sequence number, or fail with "router reliable history full".
AllocSeq(t) ==
  /\ pc[t] = "alloc"
  /\ IF HistoryFull
       THEN /\ abandoned' = abandoned \cup {job[t].pkt}
            /\ Finish(t)
            /\ UNCHANGED <<next_seq, log>>
       ELSE /\ Len(log) < MaxAlloc
            /\ next_seq' = NextSeq(next_seq)
            /\ log' = Append(log, job[t].pkt)
            /\ Goto(t, "send", [job[t] EXCEPT !.seq = next_seq])
            /\ UNCHANGED abandoned
  /\ UNCHANGED <<historyVars, txq, side_tx_gate, mediumVars, rxVars, recent_rx,
                 accepted, delivered>>

\* ReentryGate::try_enter succeeds.
GateIgnored == TRUE
GateFree == ~side_tx_gate

\* The gate is held by another TX callback: "side tx busy", queue the packet again.
SendBusy(t) ==
  /\ pc[t] = "send" /\ ~GateFree
  /\ Push(DataItem(job[t].pkt))
  /\ Finish(t)
  /\ UNCHANGED <<next_seq, historyVars, side_tx_gate, mediumVars, rxVars, recent_rx,
                 appVars, log, delivered>>

\* The gate is entered and the TX callback is given the frame.
SendFrame(t) ==
  /\ pc[t] = "send" /\ GateFree
  /\ side_tx_gate' = TRUE
  /\ data' = data \cup {FrameOf(job[t].seq, job[t].pkt)}
  /\ Goto(t, "record", job[t])
  /\ UNCHANGED <<next_seq, historyVars, txq, ctrl, losses, rxVars, recent_rx,
                 appVars, log, delivered>>

\* Every attempt of the callback failed; the frame may have left all the same.
SendFails(t) ==
  /\ "txfail" \in Env
  /\ pc[t] = "record"
  /\ data' \in {data, data \ {FrameOf(job[t].seq, job[t].pkt)}}
  /\ abandoned' = abandoned \cup {job[t].pkt}
  /\ side_tx_gate' = FALSE
  /\ Finish(t)
  /\ UNCHANGED <<next_seq, historyVars, txq, ctrl, losses, rxVars, recent_rx,
                 accepted, log, delivered>>

\* Record the frame; the gate is released when the function returns.
RecordSent(t) ==
  /\ pc[t] = "record"
  /\ sent_order' = Append(sent_order, job[t].seq)
  /\ sent' = [sent EXCEPT ![job[t].seq] = NewEntry(job[t].pkt)]
  /\ side_tx_gate' = FALSE
  /\ Finish(t)
  /\ UNCHANGED <<next_seq, txq, mediumVars, rxVars, recent_rx, appVars, log, delivered>>

-----------------------------------------------------------------------------
(***************************************************************************)
(* Replays: the ReliableReplay arm of tx_item_impl and                     *)
(* send_reliable_raw_to_side.                                              *)
(***************************************************************************)

\* The replay is dropped when its frame has left the history.
CheckReplay(t) ==
  /\ pc[t] = "check"
  /\ IF job[t].seq \in InHistory THEN Goto(t, "resend", job[t]) ELSE Finish(t)
  /\ UNCHANGED <<next_seq, historyVars, txq, side_tx_gate, mediumVars, rxVars,
                 recent_rx, appVars, log, delivered>>

ResendBusy(t) ==
  /\ pc[t] = "resend" /\ ~GateFree
  /\ Push(job[t])
  /\ Finish(t)
  /\ UNCHANGED <<next_seq, historyVars, side_tx_gate, mediumVars, rxVars, recent_rx,
                 appVars, log, delivered>>

ResendFrame(t) ==
  /\ pc[t] = "resend" /\ GateFree
  /\ side_tx_gate' = TRUE
  /\ data' = data \cup {FrameOf(job[t].seq, job[t].pkt)}
  /\ Goto(t, "resent", job[t])
  /\ UNCHANGED <<next_seq, historyVars, txq, ctrl, losses, rxVars, recent_rx,
                 appVars, log, delivered>>

\* "reliable retransmit failed" is returned before `queued' is reset.
ResendFails(t) ==
  /\ "txfail" \in Env
  /\ pc[t] = "resent"
  /\ data' \in {data, data \ {FrameOf(job[t].seq, job[t].pkt)}}
  /\ side_tx_gate' = FALSE
  /\ Finish(t)
  /\ UNCHANGED <<next_seq, historyVars, txq, ctrl, losses, rxVars, recent_rx,
                 appVars, log, delivered>>

\* send_reliable_raw_to_side returns and releases the gate.
ResendReturns(t) ==
  /\ pc[t] = "resent"
  /\ side_tx_gate' = FALSE
  /\ Goto(t, "rerecord", job[t])
  /\ UNCHANGED <<next_seq, historyVars, txq, mediumVars, rxVars, recent_rx,
                 appVars, log, delivered>>

RerecordForgetsReset(t) ==
  /\ pc[t] = "rerecord"
  /\ Finish(t)
  /\ UNCHANGED <<next_seq, historyVars, txq, side_tx_gate, mediumVars, rxVars,
                 recent_rx, appVars, log, delivered>>

\* The replay is on the wire: it may be requested or time out again.
RerecordSent(t) ==
  /\ pc[t] = "rerecord"
  /\ sent' = IF job[t].seq \in InHistory
               THEN [sent EXCEPT ![job[t].seq].queued = FALSE]
               ELSE sent
  /\ Finish(t)
  /\ UNCHANGED <<next_seq, sent_order, txq, side_tx_gate, mediumVars, rxVars,
                 recent_rx, appVars, log, delivered>>

-----------------------------------------------------------------------------
(***************************************************************************)
(* process_reliable_timeouts and the control packets of the receiver.      *)
(***************************************************************************)

\* The age test.  With RttBounded no answer to the last send is still on its way.
MayExpire(s) ==
  RttBounded => /\ FrameOf(s, sent[s].pkt) \notin data
                /\ ctrl = {}
                /\ \A r \in RxThreads : release[r] = <<>>

Expired(s) ==
  /\ s \in InHistory
  /\ ~sent[s].queued /\ ~sent[s].partial_acked
  /\ MayExpire(s)

ExhaustedLate(s) == sent[s].retries > MaxRetries
ExhaustedEarly(s) == sent[s].retries + 1 >= MaxRetries
Exhausted(s) == sent[s].retries >= MaxRetries

\* sent_order.retain(|seq| *seq != s); no number is listed twice, see
\* HistoryMatchesOrder.
KeepOrder(s) == sent_order
OrderWithout(s) ==
  IF s \in Range(sent_order)
    THEN RemoveAt(sent_order, CHOOSE i \in DOMAIN sent_order : sent_order[i] = s)
    ELSE sent_order

\* One frame of the scan; the frames of a scan do not depend on each other.
Timeout(t, s) ==
  /\ pc[t] = "idle"
  /\ Expired(s)
  /\ IF Exhausted(s)
       THEN /\ sent' = [sent EXCEPT ![s] = NoEntry]
            /\ sent_order' = OrderWithout(s)
            /\ abandoned' = abandoned \cup {sent[s].pkt}
            /\ UNCHANGED threadVars
       ELSE /\ sent' = [sent EXCEPT ![s].retries = @ + 1]
            /\ Goto(t, "requeue", ReplayItem(s, sent[s].pkt))
            /\ UNCHANGED <<sent_order, abandoned>>
  /\ UNCHANGED <<next_seq, txq, side_tx_gate, mediumVars, rxVars, recent_rx, accepted,
                 log, delivered>>

\* queue_reliable_retransmit
FlagWithoutQueueing(s) ==
  /\ sent' = IF s \in InHistory
               THEN [sent EXCEPT ![s].queued = TRUE, ![s].partial_acked = FALSE]
               ELSE sent
  /\ UNCHANGED txq

QueueRetransmit(s) ==
  IF s \in InHistory /\ ~sent[s].queued
    THEN /\ sent' = [sent EXCEPT ![s].queued = TRUE, ![s].partial_acked = FALSE]
         /\ Push(ReplayItem(s, sent[s].pkt))
    ELSE UNCHANGED <<sent, txq>>

\* The scan has released the lock: queue the replay it decided on.
Requeue(t) ==
  /\ pc[t] = "requeue"
  /\ QueueRetransmit(job[t].seq)
  /\ Finish(t)
  /\ UNCHANGED <<next_seq, sent_order, side_tx_gate, mediumVars, rxVars, recent_rx,
                 appVars, log, delivered>>

AckCoversNext(s, ack) == s <= ack + 1
AckCovers(s, ack) == s <= ack

\* handle_reliable_ack: ordered streams forget the front of sent_order up to ack.
HandleAck(ack) ==
  IF Ordered
    THEN \E n \in 0..Len(sent_order) :
           /\ \A i \in 1..n : AckCovers(sent_order[i], ack)
           /\ n < Len(sent_order) => ~AckCovers(sent_order[n + 1], ack)
           /\ sent_order' = SubSeq(sent_order, n + 1, Len(sent_order))
           /\ sent' = [s \in SeqNums |->
                         IF \E i \in 1..n : sent_order[i] = s THEN NoEntry ELSE sent[s]]
    ELSE /\ sent_order' = OrderWithout(ack)
         /\ sent' = [s \in SeqNums |-> IF s = ack THEN NoEntry ELSE sent[s]]

ExemptUpTo(s) ==
  sent' = [x \in SeqNums |->
             IF x \in InHistory /\ x <= s THEN [sent[x] EXCEPT !.partial_acked = TRUE]
             ELSE sent[x]]

HandlePartialAck(s) ==
  sent' = IF s \in InHistory THEN [sent EXCEPT ![s].partial_acked = TRUE] ELSE sent

\* handle_internal_reliable_packet, on a thread that is not busy sending.
\* keep: the medium delivers a duplicate later.
ReceiveCtrl(m, keep) ==
  /\ \E t \in Threads : pc[t] = "idle"
  /\ m \in ctrl /\ keep \in Keeps
  /\ ctrl' = IF keep THEN ctrl ELSE ctrl \ {m}
  /\ \/ m.kind = "ack" /\ HandleAck(m.seq) /\ UNCHANGED txq
     \/ m.kind = "partial" /\ HandlePartialAck(m.seq) /\ UNCHANGED <<sent_order, txq>>
     \/ m.kind = "request" /\ QueueRetransmit(m.seq) /\ UNCHANGED sent_order
  /\ UNCHANGED <<next_seq, threadVars, side_tx_gate, data, losses, rxVars, recent_rx,
                 appVars, log, delivered>>

-----------------------------------------------------------------------------
(***************************************************************************)
(* The receiving router: rx_item.                                          *)
(***************************************************************************)

\* buffer_reliable_rx: a full buffer drops its lowest sequence number first.
BufferWith(s, p) ==
  IF s \in InBuffer THEN buffered
  ELSE [x \in SeqNums |->
          IF x = s THEN p
          ELSE IF /\ Cardinality(InBuffer) >= MaxPending
                  /\ \A y \in InBuffer : x <= y
            THEN NoPkt
            ELSE buffered[x]]

\* The i-th sequence number after s in the release loop, which skips 0.
RunAt(s, i) == IF s + i <= SeqMax THEN s + i ELSE s + i - SeqMax

\* n frames directly after s are buffered.  The first successor is a plain
\* wrapping_add(1), so after SeqMax it is 0, which nothing is buffered under.
IsRun(s, n) ==
  IF s = SeqMax THEN n = 0
  ELSE /\ \A i \in 1..n : RunAt(s, i) \in InBuffer
       /\ RunAt(s, n + 1) \notin InBuffer

ExpectedBeforeRun(s, n) == RunAt(s, 1)
NextExpected(s, n) == IF s = SeqMax THEN 0 ELSE RunAt(s, n + 1)

AckOfNext(s, n) == RunAt(s, n + 1)
LastOfRun(s, n) == IF n = 0 THEN s ELSE RunAt(s, n)

\* The frame that arrived, then the n buffered ones behind it.
RunArrivalLast(f, n) ==
  [i \in 1..n + 1 |->
     IF i > n THEN f ELSE FrameOf(RunAt(f.seq, i), buffered[RunAt(f.seq, i)])]
RunForgotten(f, n) == <<f>>
Run(f, n) ==
  [i \in 1..n + 1 |->
     IF i = 1 THEN f ELSE FrameOf(RunAt(f.seq, i - 1), buffered[RunAt(f.seq, i - 1)])]

NextOrLater(s) == s >= expected_seq
IsNext(s) == s = expected_seq

TakeFrame(r, f, keep) ==
  /\ release[r] = <<>> /\ f \in data /\ keep \in Keeps
  /\ data' = IF keep THEN data ELSE data \ {f}

\* Ordered, already passed: acknowledge again.
ReceiveOld(r, f, keep) ==
  /\ Ordered /\ f.seq < expected_seq
  /\ TakeFrame(r, f, keep)
  /\ ctrl' = ctrl \cup {Msg("ack", expected_seq - 1)}
  /\ UNCHANGED <<next_seq, historyVars, txq, threadVars, side_tx_gate, losses, rxVars,
                 recent_rx, appVars, log, delivered>>

\* Ordered, after a gap: buffer it and ask for the first missing frame.
ReceiveAhead(r, f, keep) ==
  /\ Ordered /\ f.seq > expected_seq
  /\ TakeFrame(r, f, keep)
  /\ buffered' = BufferWith(f.seq, f.pkt)
  /\ ctrl' = ctrl \cup {Msg("partial", f.seq), Msg("request", expected_seq)}
  /\ UNCHANGED <<next_seq, historyVars, txq, threadVars, side_tx_gate, losses,
                 expected_seq, release, arrival, recent_rx, appVars, log, delivered>>

\* The ack is queued and the thread goes on to dispatch.
Release(r, f, n) ==
  /\ ctrl' = ctrl \cup {Msg("ack", LastOfRun(f.seq, n))}
  /\ release' = [release EXCEPT ![r] = Run(f, n)]
  /\ arrival' = [arrival EXCEPT ![r] = TRUE]

\* queue_reliable_ack fails and rx_item returns its error: the run is dropped.
AckRefused == "saturated" \in Env /\ UNCHANGED <<ctrl, release, arrival>>

\* Ordered, the expected frame: release it with the buffered run behind it.
ReceiveNext(r, f, keep) ==
  /\ Ordered /\ IsNext(f.seq)
  /\ TakeFrame(r, f, keep)
  /\ \E n \in 0..SeqMax :
       /\ IsRun(f.seq, n)
       /\ expected_seq' = NextExpected(f.seq, n)
       /\ buffered' = [x \in SeqNums |->
            IF \E i \in 1..n : RunAt(f.seq, i) = x THEN NoPkt ELSE buffered[x]]
       /\ Release(r, f, n) \/ AckRefused
  /\ UNCHANGED <<next_seq, historyVars, txq, threadVars, side_tx_gate, losses, recent_rx,
                 appVars, log, delivered>>

\* Unordered: acknowledge and dispatch.
ReceiveUnordered(r, f, keep) ==
  /\ ~Ordered
  /\ TakeFrame(r, f, keep)
  /\ ctrl' = ctrl \cup {Msg("ack", f.seq)}
  /\ release' = [release EXCEPT ![r] = <<f>>]
  /\ arrival' = [arrival EXCEPT ![r] = TRUE]
  /\ UNCHANGED <<next_seq, historyVars, txq, threadVars, side_tx_gate, losses,
                 expected_seq, buffered, recent_rx, appVars, log, delivered>>

\* A damaged frame whose header still reads as sequence number x.
ReceiveCorrupt(f, x) ==
  /\ "corrupt" \in Env /\ losses < MaxLoss
  /\ f \in data
  /\ data' = data \ {f} /\ losses' = losses + 1
  /\ ctrl' = ctrl \cup {Msg("request", IF Ordered /\ expected_seq < x
                                         THEN expected_seq ELSE x)}
  /\ UNCHANGED <<next_seq, historyVars, txq, threadVars, side_tx_gate, rxVars, recent_rx,
                 appVars, log, delivered>>

-----------------------------------------------------------------------------
(***************************************************************************)
(* The rest of rx_item: duplicate suppression and dispatch, one released   *)
(* frame at a time and without the lock.                                   *)
(***************************************************************************)

\* push_recent_rx: the oldest id makes room.
RoomForOneLess ==
  IF Len(recent_rx) >= MaxRecent - 1 THEN Tail(recent_rx) ELSE recent_rx
RoomForOne == IF Len(recent_rx) >= MaxRecent THEN Tail(recent_rx) ELSE recent_rx

Remember(p) == Append(RoomForOne, p)

NeverDuplicate(p) == FALSE
IsDuplicate(p) == p \in Range(recent_rx)

\* What is left to dispatch after a duplicate: the early return of the frame
\* that arrived leaves the released run behind it undispatched.
RestAfterDuplicate(r) == IF arrival[r] THEN <<>> ELSE Tail(release[r])

DispatchDuplicate(r) ==
  /\ release[r] # <<>> /\ IsDuplicate(Head(release[r]).pkt)
  /\ release' = [release EXCEPT ![r] = RestAfterDuplicate(r)]
  /\ arrival' = [arrival EXCEPT ![r] = FALSE]
  /\ UNCHANGED <<next_seq, historyVars, txq, threadVars, side_tx_gate, mediumVars,
                 expected_seq, buffered, recent_rx, appVars, log, delivered>>

\* is_duplicate_pkt records the id, then dispatch_rx_data runs the handlers.
Dispatched(r) ==
  /\ recent_rx' = Remember(Head(release[r]).pkt)
  /\ delivered' = Append(delivered, Head(release[r]))
  /\ release' = [release EXCEPT ![r] = Tail(@)]

\* with_retries gives up and removes the id again; the loop goes on.
HandlerFails(r) ==
  /\ "handler" \in Env
  /\ recent_rx' = RoomForOne
  /\ release' = [release EXCEPT ![r] = Tail(@)]
  /\ UNCHANGED delivered

\* An error of dispatch_rx_data ends the loop over the released run.
DispatchFails(r) ==
  /\ "dispatch" \in Env
  /\ recent_rx' = Remember(Head(release[r]).pkt)
  /\ release' = [release EXCEPT ![r] = <<>>]
  /\ UNCHANGED delivered

Dispatch(r) ==
  /\ release[r] # <<>> /\ ~IsDuplicate(Head(release[r]).pkt)
  /\ Dispatched(r) \/ HandlerFails(r) \/ DispatchFails(r)
  /\ arrival' = [arrival EXCEPT ![r] = FALSE]
  /\ UNCHANGED <<next_seq, historyVars, txq, threadVars, side_tx_gate, mediumVars,
                 expected_seq, buffered, appVars, log>>

-----------------------------------------------------------------------------
(***************************************************************************)
(* The medium, and the other users of the two routers.                     *)
(***************************************************************************)

LoseFrame(f) ==
  /\ "lose" \in Env /\ losses < MaxLoss
  /\ f \in data
  /\ data' = data \ {f} /\ losses' = losses + 1
  /\ UNCHANGED <<next_seq, historyVars, txq, threadVars, side_tx_gate, ctrl, rxVars,
                 recent_rx, appVars, log, delivered>>

LoseCtrl(m) ==
  /\ "lose" \in Env /\ losses < MaxLoss
  /\ m \in ctrl
  /\ ctrl' = ctrl \ {m} /\ losses' = losses + 1
  /\ UNCHANGED <<next_seq, historyVars, txq, threadVars, side_tx_gate, data, rxVars,
                 recent_rx, appVars, log, delivered>>

\* clear_tx_queue, clear_queues.
ClearTx ==
  /\ "clear" \in Env /\ txq # <<>>
  /\ txq' = <<>>
  /\ UNCHANGED <<next_seq, historyVars, threadVars, side_tx_gate, mediumVars, rxVars,
                 recent_rx, appVars, log, delivered>>

\* make_shared_queue_room, the transmit queue being the largest: pop its front.
EvictTransmit ==
  /\ "evict" \in Env /\ losses < MaxLoss /\ txq # <<>>
  /\ txq' = Tail(txq) /\ losses' = losses + 1
  /\ UNCHANGED <<next_seq, historyVars, threadVars, side_tx_gate, data, ctrl, rxVars,
                 recent_rx, appVars, log, delivered>>

\* make_shared_queue_room, the RX buffer being the largest: pop_reliable_rx_buffered.
EvictBuffered ==
  /\ "evict" \in Env /\ losses < MaxLoss /\ InBuffer # {}
  /\ losses' = losses + 1
  /\ buffered' = [x \in SeqNums |->
                    IF \A y \in InBuffer : x <= y THEN NoPkt ELSE buffered[x]]
  /\ UNCHANGED <<next_seq, historyVars, txq, threadVars, side_tx_gate, data, ctrl,
                 expected_seq, release, arrival, recent_rx, appVars, log, delivered>>

-----------------------------------------------------------------------------

Application ==
  \/ \E p \in Packets : TxQueue(p) \/ EndToEndReplay(p)
  \/ \E t \in Threads, p \in Packets : TxNow(t, p)

\* A thread goes on with what it has begun, or takes the next queue item.
ThreadStep(t) ==
  \/ PopTx(t) \/ AllocSeq(t)
  \/ SendBusy(t) \/ SendFrame(t) \/ SendFails(t) \/ RecordSent(t)
  \/ CheckReplay(t)
  \/ ResendBusy(t) \/ ResendFrame(t) \/ ResendFails(t) \/ ResendReturns(t)
  \/ RerecordSent(t) \/ Requeue(t)

ReceiveFrame(r, f, keep) ==
  \/ ReceiveOld(r, f, keep) \/ ReceiveAhead(r, f, keep) \/ ReceiveNext(r, f, keep)
  \/ ReceiveUnordered(r, f, keep)

DispatchStep(r) == DispatchDuplicate(r) \/ Dispatch(r)

Environment ==
  \/ \E f \in data : LoseFrame(f) \/ \E x \in 0..SeqMax : ReceiveCorrupt(f, x)
  \/ \E m \in ctrl : LoseCtrl(m)
  \/ ClearTx \/ EvictTransmit \/ EvictBuffered

Next ==
  \/ Application
  \/ \E t \in Threads : ThreadStep(t) \/ \E s \in SeqNums : Timeout(t, s)
  \/ \E m \in ctrl, keep \in BOOLEAN : ReceiveCtrl(m, keep)
  \/ \E r \in RxThreads : \/ DispatchStep(r)
                          \/ \E f \in data, keep \in BOOLEAN : ReceiveFrame(r, f, keep)
  \/ Environment

Spec == Init /\ [][Next]_vars

\* Both routers are polled forever (process_all_queues from the main loop, RX
\* callbacks), the clock advances, and the medium delivers what it does not lose.
Fairness ==
  /\ \A t \in Threads : WF_vars(ThreadStep(t))
  /\ \A s \in SeqNums : WF_vars(\E t \in Threads : Timeout(t, s))
  /\ \A m \in Ctrl : WF_vars(ReceiveCtrl(m, FALSE))
  /\ \A f \in Frame : WF_vars(\E r \in RxThreads : ReceiveFrame(r, f, FALSE))
  /\ \A r \in RxThreads : WF_vars(DispatchStep(r))

FairSpec == Spec /\ Fairness

-----------------------------------------------------------------------------
(***************************************************************************)
(* Properties.                                                             *)
(***************************************************************************)

HistoryTypeOK ==
  /\ next_seq \in SeqNums
  /\ sent \in [SeqNums -> Entry \cup {NoEntry}]
  /\ sent_order \in Seq(SeqNums)

ThreadTypeOK ==
  /\ txq \in Seq(Item)
  /\ pc \in [Threads -> Steps] /\ job \in [Threads -> Item \cup {NoJob}]
  /\ \A t \in Threads :
       /\ pc[t] # "idle" => job[t] \in Item
       /\ pc[t] \notin {"idle", "alloc"} => job[t].seq \in SeqNums
  /\ side_tx_gate \in BOOLEAN

MediumTypeOK ==
  data \subseteq Frame /\ ctrl \subseteq Ctrl /\ losses \in Nat

RxTypeOK ==
  /\ expected_seq \in 0..SeqMax
  /\ buffered \in [SeqNums -> Packets \cup {NoPkt}]
  /\ release \in [RxThreads -> Seq(Frame)] /\ arrival \in [RxThreads -> BOOLEAN]
  /\ recent_rx \in Seq(Packets)

AppTypeOK ==
  /\ accepted \subseteq Packets /\ abandoned \subseteq Packets
  /\ log \in Seq(Packets) /\ delivered \in Seq(Frame)

\* Every variable holds a value of the kind the code's types allow.
TypeOK ==
  /\ HistoryTypeOK /\ ThreadTypeOK /\ MediumTypeOK /\ RxTypeOK /\ AppTypeOK

DispatchedPkts == {delivered[i].pkt : i \in 1..Len(delivered)}
PendingPkts == UNION {{release[r][i].pkt : i \in 1..Len(release[r])} : r \in RxThreads}

\* While sequence numbers do not wrap and one thread processes RX, the frames of
\* an ordered stream are dispatched in the order rx_item's expected_seq imposes,
\* whatever the medium, the callbacks and the queue budget do.
DeliveredInOrder ==
  \A i, j \in 1..Len(delivered) : i < j => delivered[i].seq < delivered[j].seq

\* The inductive invariant behind DeliveredInOrder and ForgetsOnlyTaken.
\* SeqInv: no frame is ahead of the allocated numbers, the buffer is ahead of
\* expected_seq, and every acknowledgement is behind it.
SeqInv ==
  /\ next_seq = Len(log) + 1 /\ Len(log) <= MaxAlloc
  /\ \A f \in data : f.seq <= Len(log)
  /\ \A s \in InHistory : s <= Len(log)
  /\ \A i \in 1..Len(txq) : txq[i].kind = "replay" => txq[i].seq <= Len(log)
  /\ \A t \in Threads : pc[t] \notin {"idle", "alloc"} => job[t].seq <= Len(log)
  /\ \A s \in InBuffer : expected_seq < s /\ s <= Len(log)
  /\ 1 <= expected_seq
  /\ \A m \in ctrl : m.kind = "ack" => m.seq < expected_seq

\* OrderInv: what was dispatched is behind what is released, and both are
\* behind expected_seq.
OrderInv ==
  /\ DeliveredInOrder
  /\ \A i \in 1..Len(delivered) : delivered[i].seq < expected_seq
  /\ \A r \in RxThreads : \A i \in 1..Len(release[r]) :
       /\ release[r][i].seq < expected_seq
       /\ \A j \in 1..Len(delivered) : delivered[j].seq < release[r][i].seq
       /\ \A j \in 1..Len(release[r]) : i < j => release[r][i].seq < release[r][j].seq

\* Without end-to-end replays the ordered stream is a FIFO of the packets that
\* send_reliable_to_side gave sequence numbers: no skip, no duplicate, no swap.
Stream == INSTANCE OrderedStream
            WITH input <- log, output <- [i \in DOMAIN delivered |-> delivered[i].pkt]
ImplementsStream == Stream!Spec

\* The receiving router has taken responsibility for sequence number s.
Taken(s) ==
  IF Ordered THEN s < expected_seq
  ELSE sent[s].pkt \in DispatchedPkts \cup PendingPkts

\* handle_reliable_ack and process_reliable_timeouts remove a frame from the
\* history only when the receiver has taken it or its retries are used up.
ForgetsOnlyTaken ==
  [][\A s \in SeqNums : (sent[s] # NoEntry /\ sent'[s] = NoEntry)
       => Taken(s) \/ sent[s].retries = MaxRetries]_vars

\* A sequence number the receiver still waits for can be sent again: it is in
\* the history or buffered, or a thread is sending it, or it was given up.
Recoverable ==
  \A s \in 1..Len(log) :
    \/ s < expected_seq \/ s \in InHistory \cup InBuffer
    \/ log[s] \in abandoned
    \/ \E t \in Threads : pc[t] \in {"send", "record"} /\ job[t].seq = s

\* The `queued' flag, which suppresses timeouts and makes packet requests no-ops,
\* is set only while a replay of that frame is in the queue or being sent.
ReplayScheduled ==
  \A s \in InHistory : sent[s].queued =>
    \/ \E i \in 1..Len(txq) : txq[i].kind = "replay" /\ txq[i].seq = s
    \/ \E t \in Threads : /\ pc[t] \in {"check", "resend", "resent", "rerecord"}
                          /\ job[t].seq = s

\* No packet that was given a sequence number has been refused or dropped.
NoneGivenUp == \A i \in 1..Len(log) : log[i] \notin abandoned

\* The receiving router has passed sequence number s or holds its frame.
Received(s) == s < expected_seq \/ s \in InBuffer

\* A frame exempted from timeouts by a partial ack is held by the receiver, as
\* long as the sender has given up none.  After that the buffer may hold frames
\* the history has no place for, and overflow.
PartialAckHeld ==
  NoneGivenUp => \A s \in InHistory : sent[s].partial_acked => Received(s)

\* sent_order lists exactly the sequence numbers in `sent', each once.
HistoryMatchesOrder ==
  Range(sent_order) = InHistory /\ IsInjective(sent_order)

\* At most one TX callback runs at a time, and the gate is closed exactly then.
GateExclusive ==
  /\ side_tx_gate <=> \E t \in Threads : pc[t] \in {"record", "resent"}
  /\ \A t, u \in Threads : {pc[t], pc[u]} \subseteq {"record", "resent"} => t = u

\* The history bound is tested before the callback and the insertion follows it,
\* so each further transmitting thread may overshoot RELIABLE_MAX_PENDING by one.
HistoryBounded == Cardinality(InHistory) < MaxPending + Cardinality(Threads)

\* A frame that was acknowledged as delivered (expected_seq has passed it) has
\* been dispatched or is about to be.
AckedIsDispatched ==
  \A s \in 1..Len(log) : s < expected_seq => log[s] \in DispatchedPkts \cup PendingPkts

\* No packet is dispatched to the handlers twice while its id is remembered.
NoDuplicateDelivery == IsInjective([i \in DOMAIN delivered |-> delivered[i].pkt])

\* Every packet handed to the router reaches the receiver's handlers, or the
\* sender gave it up (and, for a full history, told the caller so).
EveryPacketDelivered ==
  \A p \in Packets : p \in accepted ~> p \in DispatchedPkts \cup abandoned

\* The history always empties again, so the stream does not stay full.
HistoryDrains == []<>(InHistory = {})
=============================================================================
