--------------------------- MODULE EndToEndProofs ---------------------------
(***************************************************************************)
(* What the source, the relay and the holders may conclude from an         *)
(* end-to-end acknowledgement, for any number of packets and holders, any  *)
(* network of Setups and any limits.                                       *)
(***************************************************************************)
EXTENDS EndToEnd, TLAPS

\* The tables have the shape the actions expect.
Shape ==
  /\ setup \in Setups
  /\ known \in [{Source, Hub} -> SUBSET Holders]
  /\ sent \in [Packets -> Entry \cup {None}]
  /\ wanted \in [Packets -> SUBSET Holders]
  /\ \A m \in net : m.p \in Packets

\* An acknowledgement on its way, or repeated by the duplicate filter, speaks
\* for a holder that has given the packet to its handlers.
Answered ==
  /\ recent \subseteq reached
  /\ \A m \in net : m.kind = "ack" => <<m.from, m.p>> \in reached

\* What a handler has accepted is in the duplicate filter, unless another
\* handler of the node failed and with_retries took the id out.
Filtered == \A d, p, h : <<d, p, h>> \in took => <<d, p>> \in recent \cup failed

\* The inductive invariant.
EndToEndInv ==
  Shape /\ Answered /\ Filtered /\ NoFalseCompletion /\ NotWithheld /\ AcceptedOnce

-----------------------------------------------------------------------------

\* A bounded table only gives up entries it holds.
LEMMA GoneFromTable ==
  ASSUME NEW q, NEW table, NEW p, NEW cap
  PROVE  Remember(q, table, p, cap).gone \subseteq table
  BY DEF Remember

\* The messages of a transmission are data frames of the packet.
LEMMA TransmitFrames ==
  ASSUME NEW p \in Packets, NEW sides, Transmit(p, sides)
  PROVE  net \subseteq net' /\ \A m \in net' \ net : m.kind = "data" /\ m.p = p
  BY DEF Transmit, Data

\* A consumed message leaves behind what it causes and nothing else.
LEMMA ConsumeFrames ==
  ASSUME NEW m, NEW out, Consume(m, out)
  PROVE  net' \subseteq net \cup out
  BY DEF Consume

\* A step that leaves the source, the holders and the notes of the relay alone,
\* and adds only data frames, preserves the invariant.
LEMMA FramesOnly ==
  ASSUME EndToEndInv,
         \A m \in net' \ net : m.p \in Packets /\ m.kind # "ack",
         UNCHANGED <<setup, known, sent, acked, recent, reached, took, failed, twice,
                     wanted, lapsed, outcome>>
  PROVE  EndToEndInv'
  BY DEF EndToEndInv, Shape, Answered, Filtered, NoFalseCompletion, NotWithheld, AcceptedOnce

\* A step of the source that stops waiting for a holder of p only if that
\* holder has the packet or has lapsed.
LEMMA SourceOnly ==
  ASSUME EndToEndInv, NoFalseCompletion',
         \A m \in net' \ net : m.p \in Packets /\ m.kind # "ack",
         known' \in [{Source, Hub} -> SUBSET Holders],
         sent' \in [Packets -> Entry \cup {None}],
         wanted' \in [Packets -> SUBSET Holders],
         UNCHANGED <<setup, acked, recent, reached, took, failed, twice>>
  PROVE  EndToEndInv'
  BY DEF EndToEndInv, Shape, Answered, Filtered, NotWithheld, AcceptedOnce

\* Router::tx registers the packet with the holders it expects, and the entry it
\* may displace keeps the list of those that were still waited for.
LEMMA SubmitInv ==
  ASSUME EndToEndInv, NEW p \in Packets, Submit(p)
  PROVE  EndToEndInv'
  <1> DEFINE ds == known[Source]
             gone == RememberTx(p).gone
  <1>1. /\ sent[p] = None /\ outcome[p] = Live
        /\ sent' = [q \in Packets |-> IF q = p THEN NewEntry(ds)
                                      ELSE IF q \in gone THEN None ELSE sent[q]]
        /\ wanted' = [wanted EXCEPT ![p] = ds] /\ outcome' = Ends(gone, "displaced")
    BY DEF Submit, Register, Expected
  <1>2. gone \subseteq {q \in Packets : sent[q] # None}
    BY GoneFromTable DEF RememberTx
  <1>3. ds \in SUBSET Holders /\ NewEntry(ds) \in Entry
    BY DEF EndToEndInv, Shape, NewEntry, Entry
  <1>4. /\ known' = known /\ UNCHANGED <<setup, acked, recent, reached, took, failed, twice, lapsed>>
        /\ \A m \in net' \ net : m.p \in Packets /\ m.kind # "ack"
    BY TransmitFrames DEF Submit, hubVars, holderVars
  <1>5. /\ sent' \in [Packets -> Entry \cup {None}] /\ wanted' \in [Packets -> SUBSET Holders]
        /\ known' \in [{Source, Hub} -> SUBSET Holders]
    BY <1>1, <1>3, <1>4 DEF EndToEndInv, Shape
  <1>6. NoFalseCompletion'
    <2> SUFFICES ASSUME NEW q \in Packets,
                        sent'[q] # None \/ outcome'[q].how # "none",
                        NEW d \in wanted'[q] \ (IF sent'[q] # None THEN sent'[q].pending
                                                ELSE outcome'[q].left)
                 PROVE  <<d, q>> \in reached' \/ <<q, d>> \in lapsed'
      BY DEF NoFalseCompletion
    <2>1. CASE q = p
      <3>1. sent'[q] = NewEntry(ds) /\ wanted'[q] = ds /\ sent'[q] # None
        BY <1>1, <1>3, <2>1, NoneAssumption DEF EndToEndInv, Shape
      <3>2. sent'[q].pending = ds
        BY <3>1 DEF NewEntry
      <3> QED
        BY <3>1, <3>2
    <2>2. CASE q # p /\ q \in gone
      <3>1. sent'[q] = None /\ outcome'[q].left = sent[q].pending /\ sent[q] # None
        BY <1>1, <1>2, <2>2 DEF Ends
      <3>2. wanted'[q] = wanted[q]
        BY <1>1, <2>2 DEF EndToEndInv, Shape
      <3> QED
        BY <1>4, <3>1, <3>2 DEF EndToEndInv, NoFalseCompletion
    <2>3. CASE q # p /\ q \notin gone
      <3>1. sent'[q] = sent[q] /\ outcome'[q] = outcome[q]
        BY <1>1, <2>3 DEF Ends
      <3>2. wanted'[q] = wanted[q]
        BY <1>1, <2>3 DEF EndToEndInv, Shape
      <3> QED
        BY <1>4, <3>1, <3>2 DEF EndToEndInv, NoFalseCompletion
    <2> QED
      BY <2>1, <2>2, <2>3
  <1> QED
    BY <1>4, <1>5, <1>6, SourceOnly

\* What reconciliation leaves of an entry, and whom it takes off.
LEMMA NarrowedFacts ==
  ASSUME Shape, NEW k, NEW p \in Packets
  PROVE  /\ Narrowed(k)[p] \in Entry \cup {None}
         /\ sent[p] = None <=> Narrowed(k)[p] = None
         /\ sent[p] # None =>
              \A d \in sent[p].pending \ Narrowed(k)[p].pending : <<p, d>> \in Lapses(k)
         /\ p \in Satisfied(k) =>
              sent[p] # None /\ \A d \in sent[p].pending : <<p, d>> \in Lapses(k)
  <1>1. CASE sent[p] = None
    BY <1>1 DEF Narrowed, Satisfied
  <1>2. CASE sent[p] # None
    <2>1. sent[p] \in Entry
      BY <1>2 DEF Shape
    <2>2. \A d \in sent[p].pending \ k : <<p, d>> \in Lapses(k)
      BY <1>2 DEF Lapses, Expected
    <2>3. CASE ~sent[p].tracked
      BY <2>1, <2>2, <2>3 DEF Narrowed, Satisfied
    <2>4. CASE sent[p].tracked
      <3>1. Narrowed(k)[p] = [sent[p] EXCEPT !.pending = @ \cap k]
        BY <1>2, <2>4 DEF Narrowed, Expected
      <3>2. Narrowed(k)[p] \in Entry /\ Narrowed(k)[p].pending = sent[p].pending \cap k
        BY <2>1, <3>1 DEF Entry
      <3> HIDE DEF Narrowed
      <3> QED
        BY <1>2, <2>2, <3>2, NoneAssumption DEF Satisfied
    <2> QED
      BY <2>3, <2>4
  <1> QED
    BY <1>1, <1>2

\* A change of topology takes holders off only as lapsed.
LEMMA TopologyInv ==
  ASSUME EndToEndInv, NEW k \in SUBSET Holders, Topology(k)
  PROVE  EndToEndInv'
  <1>1. /\ known' = [known EXCEPT ![Source] = k]
        /\ UNCHANGED <<setup, net, acked, recent, reached, took, failed, twice, wanted>>
    BY DEF Topology, hubVars, holderVars
  <1>2. known' \in [{Source, Hub} -> SUBSET Holders] /\ wanted' \in [Packets -> SUBSET Holders]
    BY <1>1 DEF EndToEndInv, Shape
  <1>3. CASE Reconcile(k)
    <2>1. /\ sent' = [p \in Packets |-> IF p \in Satisfied(k) THEN None ELSE Narrowed(k)[p]]
          /\ lapsed' = lapsed \cup Lapses(k) /\ outcome' = Ends(Satisfied(k), "lapsed")
      BY <1>3 DEF Reconcile
    <2>2. sent' \in [Packets -> Entry \cup {None}]
      BY <2>1, NarrowedFacts DEF EndToEndInv
    <2>3. NoFalseCompletion'
      <3> SUFFICES ASSUME NEW q \in Packets,
                          sent'[q] # None \/ outcome'[q].how # "none",
                          NEW d \in wanted'[q] \ (IF sent'[q] # None THEN sent'[q].pending
                                                  ELSE outcome'[q].left)
                   PROVE  <<d, q>> \in reached' \/ <<q, d>> \in lapsed'
        BY DEF NoFalseCompletion
      <3>1. CASE q \in Satisfied(k)
        <4>1. sent[q] # None /\ \A e \in sent[q].pending : <<q, e>> \in lapsed'
          BY <2>1, <3>1, NarrowedFacts DEF EndToEndInv
        <4> QED
          BY <1>1, <2>1, <4>1 DEF EndToEndInv, NoFalseCompletion
      <3>2. CASE q \notin Satisfied(k)
        <4>1. /\ sent'[q] = Narrowed(k)[q] /\ outcome'[q] = outcome[q]
              /\ sent[q] = None <=> sent'[q] = None
              /\ sent[q] # None =>
                   \A e \in sent[q].pending \ sent'[q].pending : <<q, e>> \in lapsed'
          BY <2>1, <3>2, NarrowedFacts DEF EndToEndInv, Ends
        <4> QED
          BY <1>1, <2>1, <4>1 DEF EndToEndInv, NoFalseCompletion
      <3> QED
        BY <3>1, <3>2
    <2> QED
      BY <1>1, <1>2, <2>2, <2>3, SourceOnly
  <1>4. CASE UNCHANGED <<sent, lapsed, outcome>>
    <2>1. NoFalseCompletion' /\ sent' \in [Packets -> Entry \cup {None}]
      BY <1>1, <1>4 DEF EndToEndInv, NoFalseCompletion, Shape
    <2> QED
      BY <1>1, <1>2, <2>1, SourceOnly
  <1> QED
    BY <1>3, <1>4 DEF Topology

\* A pass over the timeouts reconciles, gives up or repeats; what it gives up
\* keeps the list of holders it was waiting for.
LEMMA TimeoutsInv ==
  ASSUME EndToEndInv, Timeouts
  PROVE  EndToEndInv'
  <1> DEFINE k == known[Source]
  <1>1. PICK due \in SUBSET {p \in Packets \ Satisfied(k) : Due(p)} :
          LET over == {p \in due : Exhausted(p)}
          IN /\ sent' = [p \in Packets |->
                    IF p \in over \cup Satisfied(k) THEN None
                    ELSE IF p \in due THEN Retried(Narrowed(k)[p])
                    ELSE Narrowed(k)[p]]
             /\ lapsed' = lapsed \cup Lapses(k)
             /\ outcome' = [p \in Packets |-> IF p \in over THEN Ends(over, "gave up")[p]
                                              ELSE Ends(Satisfied(k), "lapsed")[p]]
    BY DEF Timeouts
  <1> DEFINE over == {p \in due : Exhausted(p)}
  <1>2. UNCHANGED <<setup, net, known, acked, recent, reached, took, failed, twice, wanted>>
    BY DEF Timeouts, hubVars, holderVars
  <1>3. \A p \in due : p \in Packets /\ p \notin Satisfied(k) /\ sent[p] # None
    BY DEF Due
  <1>4. ASSUME NEW p \in Packets, p \in due
        PROVE  /\ Retried(Narrowed(k)[p]) \in Entry
               /\ Retried(Narrowed(k)[p]).pending = Narrowed(k)[p].pending
    <2>1. Narrowed(k)[p] \in Entry
      BY <1>3, <1>4, NarrowedFacts DEF EndToEndInv
    <2>2. ASSUME NEW e \in Entry
          PROVE  /\ Retried(e) \in Entry
                 /\ Retried(e).pending = e.pending
      <3>1. [e EXCEPT !.retries = @ + 1] \in Entry
        BY DEF Entry
      <3>2. \A f \in Entry : [f EXCEPT !.queued = TRUE] \in Entry
        BY DEF Entry
      <3>3. Retried(e).pending = e.pending
        BY DEF Entry, Retried
      <3> QED
        BY <3>1, <3>2, <3>3 DEF Retried
    <2> QED
      BY <2>1, <2>2
  <1>5. sent' \in [Packets -> Entry \cup {None}]
    <2> SUFFICES ASSUME NEW p \in Packets
                 PROVE  sent'[p] \in Entry \cup {None}
      BY <1>1
    <2>1. Narrowed(k)[p] \in Entry \cup {None}
      BY NarrowedFacts DEF EndToEndInv
    <2> QED
      BY <1>1, <1>4, <2>1
  <1>6. NoFalseCompletion'
    <2> SUFFICES ASSUME NEW q \in Packets,
                        sent'[q] # None \/ outcome'[q].how # "none",
                        NEW d \in wanted'[q] \ (IF sent'[q] # None THEN sent'[q].pending
                                                ELSE outcome'[q].left)
                 PROVE  <<d, q>> \in reached' \/ <<q, d>> \in lapsed'
      BY DEF NoFalseCompletion
    <2>1. CASE q \in Satisfied(k)
      <3>1. sent[q] # None /\ \A e \in sent[q].pending : <<q, e>> \in lapsed'
        BY <1>1, <2>1, NarrowedFacts DEF EndToEndInv
      <3> QED
        BY <1>1, <1>2, <3>1 DEF EndToEndInv, NoFalseCompletion
    <2>2. CASE q \in over
      <3>1. sent'[q] = None /\ outcome'[q].left = sent[q].pending /\ sent[q] # None
        BY <1>1, <1>3, <2>2 DEF Ends
      <3> QED
        BY <1>1, <1>2, <3>1 DEF EndToEndInv, NoFalseCompletion
    <2>3. CASE q \notin over /\ q \notin Satisfied(k)
      <3>1. outcome'[q] = outcome[q]
        BY <1>1, <2>3 DEF Ends
      <3>2. /\ sent[q] = None <=> sent'[q] = None
            /\ sent[q] # None =>
                 \A e \in sent[q].pending \ sent'[q].pending : <<q, e>> \in lapsed'
        <4>1. /\ sent[q] = None <=> Narrowed(k)[q] = None
              /\ sent[q] # None =>
                   \A e \in sent[q].pending \ Narrowed(k)[q].pending : <<q, e>> \in lapsed'
          BY <1>1, NarrowedFacts DEF EndToEndInv
        <4>2. CASE q \in due
          <5> DEFINE new == Retried(Narrowed(k)[q])
          <5>1. sent'[q] = new
            BY <1>1, <2>3, <4>2
          <5>2. new \in Entry /\ new.pending = Narrowed(k)[q].pending
            BY <1>4, <4>2
          <5> HIDE DEF new
          <5> QED
            BY <1>3, <4>1, <4>2, <5>1, <5>2, NoneAssumption
        <4>3. CASE q \notin due
          <5>1. sent'[q] = Narrowed(k)[q]
            BY <1>1, <2>3, <4>3
          <5> QED
            BY <4>1, <5>1
        <4> QED
          BY <4>2, <4>3
      <3> QED
        BY <1>1, <1>2, <3>1, <3>2 DEF EndToEndInv, NoFalseCompletion
    <2> QED
      BY <2>1, <2>2, <2>3
  <1>7. known' \in [{Source, Hub} -> SUBSET Holders] /\ wanted' \in [Packets -> SUBSET Holders]
    BY <1>2 DEF EndToEndInv, Shape
  <1> QED
    BY <1>2, <1>5, <1>6, <1>7, SourceOnly

\* The EndToEndReplay arm drops an entry nobody is waited for, or sends again
\* and leaves the holders it waits for as they are.
LEMMA ReplayInv ==
  ASSUME EndToEndInv, NEW p \in Packets, Replay(p)
  PROVE  EndToEndInv'
  <1>1. UNCHANGED <<setup, known, acked, recent, reached, took, failed, twice, wanted, lapsed>>
    BY DEF Replay, hubVars, holderVars
  <1>2. known' \in [{Source, Hub} -> SUBSET Holders] /\ wanted' \in [Packets -> SUBSET Holders]
    BY <1>1 DEF EndToEndInv, Shape
  <1>3. CASE sent[p] = None
    BY <1>1, <1>3, FramesOnly DEF Replay
  <1>4. CASE sent[p] # None /\ sent[p].tracked /\ sent[p].pending = {}
    <2>1. /\ sent' = [sent EXCEPT ![p] = None] /\ outcome' = Ends({p}, "lapsed") /\ net' = net
      BY <1>4 DEF Replay
    <2>2. sent' \in [Packets -> Entry \cup {None}]
      BY <2>1 DEF EndToEndInv, Shape
    <2>3. NoFalseCompletion'
      <3> SUFFICES ASSUME NEW q \in Packets,
                          sent'[q] # None \/ outcome'[q].how # "none",
                          NEW d \in wanted'[q] \ (IF sent'[q] # None THEN sent'[q].pending
                                                  ELSE outcome'[q].left)
                   PROVE  <<d, q>> \in reached' \/ <<q, d>> \in lapsed'
        BY DEF NoFalseCompletion
      <3>1. CASE q = p
        BY <1>1, <1>4, <2>1, <3>1 DEF EndToEndInv, NoFalseCompletion
      <3>2. CASE q # p
        <4>1. sent'[q] = sent[q] /\ outcome'[q] = outcome[q]
          BY <2>1, <3>2 DEF EndToEndInv, Shape, Ends
        <4> QED
          BY <1>1, <4>1 DEF EndToEndInv, NoFalseCompletion
      <3> QED
        BY <3>1, <3>2
    <2> QED
      BY <1>1, <1>2, <2>1, <2>2, <2>3, SourceOnly
  <1>5. CASE sent[p] # None /\ ~(sent[p].tracked /\ sent[p].pending = {})
    <2>1. /\ sent' = [sent EXCEPT ![p] = ReplayedEntry(p)] /\ outcome' = outcome
          /\ Transmit(p, ReplaySides(p))
      BY <1>5 DEF Replay
    <2>2. ReplayedEntry(p) \in Entry /\ ReplayedEntry(p).pending = sent[p].pending
      <3>1. sent[p] \in Entry
        BY <1>5 DEF EndToEndInv, Shape
      <3> QED
        BY <3>1 DEF ReplayedEntry, Entry
    <2>3. \A m \in net' \ net : m.p \in Packets /\ m.kind # "ack"
      BY <2>1, TransmitFrames
    <2>4. sent' \in [Packets -> Entry \cup {None}] /\ \A q \in Packets :
             /\ sent'[q] = None <=> sent[q] = None
             /\ sent[q] # None => sent'[q].pending = sent[q].pending
      BY <1>5, <2>1, <2>2, NoneAssumption DEF EndToEndInv, Shape
    <2>5. NoFalseCompletion'
      BY <1>1, <2>1, <2>4 DEF EndToEndInv, NoFalseCompletion
    <2> QED
      BY <1>1, <1>2, <2>3, <2>4, <2>5, SourceOnly
  <1> QED
    BY <1>3, <1>4, <1>5

\* handle_internal_reliable_packet takes off the holder that answered, which
\* has the packet, and no other.
LEMMA SourceAckInv ==
  ASSUME EndToEndInv, NEW m \in net, SourceAck(m)
  PROVE  EndToEndInv'
  <1>1. /\ UNCHANGED <<setup, known, acked, recent, reached, took, failed, twice, wanted, lapsed>>
        /\ net' = net \ {m} /\ m.kind = "ack"
    BY DEF SourceAck, hubVars, holderVars
  <1>2. known' \in [{Source, Hub} -> SUBSET Holders] /\ wanted' \in [Packets -> SUBSET Holders]
    BY <1>1 DEF EndToEndInv, Shape
  <1>3. m.p \in Packets /\ <<m.from, m.p>> \in reached
    BY <1>1 DEF EndToEndInv, Shape, Answered
  <1>4. CASE sent[m.p] = None
    BY <1>1, <1>4, FramesOnly DEF SourceAck
  <1>5. CASE sent[m.p] # None
    <2> DEFINE rest == AfterAck(m.p, m.from)
    <2>1. rest \in Entry /\ rest.pending = sent[m.p].pending \ {m.from}
      <3>1. sent[m.p] \in Entry
        BY <1>3, <1>5 DEF EndToEndInv, Shape
      <3> QED
        BY <3>1 DEF AfterAck, Entry
    <2>2. \/ /\ rest.pending = {} /\ sent' = [sent EXCEPT ![m.p] = None]
             /\ outcome' = Ends({m.p}, "acked")
          \/ /\ sent' = [sent EXCEPT ![m.p] = rest] /\ outcome' = outcome
      BY <1>5, <2>1, NoneAssumption DEF SourceAck
    <2> HIDE DEF rest
    <2>3. sent' \in [Packets -> Entry \cup {None}]
      BY <1>3, <2>1, <2>2 DEF EndToEndInv, Shape
    <2>4. NoFalseCompletion'
      <3> SUFFICES ASSUME NEW q \in Packets,
                          sent'[q] # None \/ outcome'[q].how # "none",
                          NEW d \in wanted'[q] \ (IF sent'[q] # None THEN sent'[q].pending
                                                  ELSE outcome'[q].left)
                   PROVE  <<d, q>> \in reached' \/ <<q, d>> \in lapsed'
        BY DEF NoFalseCompletion
      <3>1. CASE q = m.p
        <4>1. d \notin rest.pending
          <5>1. CASE sent' = [sent EXCEPT ![m.p] = rest]
            BY <1>3, <2>1, <3>1, <5>1, NoneAssumption DEF EndToEndInv, Shape
          <5>2. CASE rest.pending = {}
            BY <5>2
          <5> QED
            BY <2>2, <5>1, <5>2
        <4>2. d = m.from \/ d \in wanted[q] \ sent[q].pending
          BY <1>1, <2>1, <3>1, <4>1
        <4> QED
          BY <1>1, <1>3, <1>5, <3>1, <4>2 DEF EndToEndInv, NoFalseCompletion
      <3>2. CASE q # m.p
        <4>1. sent'[q] = sent[q] /\ outcome'[q] = outcome[q]
          BY <2>2, <3>2 DEF EndToEndInv, Shape, Ends
        <4> QED
          BY <1>1, <4>1 DEF EndToEndInv, NoFalseCompletion
      <3> QED
        BY <3>1, <3>2
    <2> QED
      BY <1>1, <1>2, <2>3, <2>4, SourceOnly
  <1> QED
    BY <1>4, <1>5

\* The hub forwards data frames and keeps its notes.
LEMMA HubDataInv ==
  ASSUME EndToEndInv, NEW m \in net, RelayData(m) \/ RouterData(m)
  PROVE  EndToEndInv'
  <1>1. UNCHANGED <<setup, known, sent, acked, recent, reached, took, failed, twice,
                    wanted, lapsed, outcome>>
    BY DEF RelayData, RouterData, sourceVars, holderVars, historyVars
  <1>2. \E ds : Consume(m, Copies(m.p, ds)) \/ Consume(m, {})
    BY DEF RelayData, RouterData
  <1>3. \A x \in net' \ net : x.p = m.p /\ x.kind = "data"
    BY <1>2, ConsumeFrames DEF Copies, Data
  <1> QED
    BY <1>1, <1>3, FramesOnly DEF EndToEndInv, Shape

\* A relay notes the holder an acknowledgement speaks for, which has the packet,
\* and returns the acknowledgement in its name.
LEMMA RelayAckInv ==
  ASSUME EndToEndInv, NEW m \in net, RelayAck(m)
  PROVE  EndToEndInv'
  <1>1. /\ UNCHANGED <<setup, known, sent, recent, reached, took, failed, twice, wanted,
                       lapsed, outcome>>
        /\ m.kind = "ack" /\ net' = (net \ {m}) \cup Returned(m.p, m.from)
        /\ \A p \in Packets : acked'[p] \subseteq
             acked[p] \cup (IF p = m.p THEN {m.from} ELSE {})
    BY DEF RelayAck, sourceVars, holderVars, historyVars, NoteAcked
  <1>2. m.p \in Packets /\ <<m.from, m.p>> \in reached
    BY <1>1 DEF EndToEndInv, Shape, Answered
  <1>3. \A x \in net' \ net : x.p = m.p /\ x.from = m.from
    BY <1>1 DEF Returned, Ack
  <1>4. Shape' /\ Answered'
    BY <1>1, <1>2, <1>3 DEF EndToEndInv, Shape, Answered
  <1>5. NotWithheld'
    BY <1>1, <1>2 DEF EndToEndInv, NotWithheld
  <1>6. Filtered' /\ NoFalseCompletion' /\ AcceptedOnce'
    BY <1>1 DEF EndToEndInv, Filtered, NoFalseCompletion, AcceptedOnce
  <1> QED
    BY <1>4, <1>5, <1>6 DEF EndToEndInv

\* Discovery at the hub only takes notes away.
LEMMA HubTopologyInv ==
  ASSUME EndToEndInv, NEW k \in SUBSET Holders, HubTopology(k)
  PROVE  EndToEndInv'
  <1>1. /\ UNCHANGED <<setup, net, sent, recent, reached, took, failed, twice, wanted,
                       lapsed, outcome>>
        /\ known' = [known EXCEPT ![Hub] = k]
        /\ \A p \in Packets : acked'[p] \subseteq acked[p]
    BY DEF HubTopology, holderVars, historyVars
  <1>2. Shape'
    BY <1>1 DEF EndToEndInv, Shape
  <1>3. NotWithheld'
    BY <1>1 DEF EndToEndInv, NotWithheld
  <1> QED
    BY <1>1, <1>2, <1>3 DEF EndToEndInv, Answered, Filtered, NoFalseCompletion, AcceptedOnce

\* A holder answers, and counts as answered, only for what its handlers got;
\* its handlers get again only what one of them refused.
LEMMA HolderDataInv ==
  ASSUME EndToEndInv, NEW m \in net, HolderData(m)
  PROVE  EndToEndInv'
  <1> DEFINE d == m.to
             p == m.p
  <1>1. UNCHANGED <<setup, known, sent, acked, wanted, lapsed, outcome>>
    BY DEF HolderData, sourceVars, hubVars, historyVars
  <1>2. p \in Packets
    BY DEF EndToEndInv, Shape
  <1>3. \A x \in Answer(p, d) : x.p = p /\ x.from = d
    BY DEF Answer, Ack
  <1>4. CASE Repeated(p, d)
    <2>1. UNCHANGED <<recent, reached, took, failed, twice>> /\ Consume(m, Answer(p, d))
      BY <1>4 DEF HolderData, holderVars
    <2>2. \A x \in net' \ net : x.p = p /\ x.from = d
      BY <1>3, <2>1, ConsumeFrames
    <2>3. <<d, p>> \in reached
      BY <1>4 DEF Repeated, EndToEndInv, Answered
    <2>4. Shape' /\ Answered'
      BY <1>1, <1>2, <2>1, <2>2, <2>3 DEF EndToEndInv, Shape, Answered
    <2> QED
      BY <1>1, <2>1, <2>4 DEF EndToEndInv, Filtered, NoFalseCompletion, NotWithheld, AcceptedOnce
  <1>5. CASE ~Repeated(p, d)
    <2>1. PICK good \in SUBSET Handlers :
            /\ reached' = reached \cup {<<d, p>>}
            /\ recent' = AfterHandlers(d, p, good)
            /\ took' = took \cup {<<d, p, h>> : h \in good}
            /\ twice' = IF \E h \in good : <<d, p, h>> \in took
                        THEN twice \cup {<<d, p>>} ELSE twice
            /\ failed' = IF good = Handlers THEN failed ELSE failed \cup {<<d, p>>}
            /\ LET out == IF d \in setup.needsBytes THEN {} ELSE Answer(p, d)
               IN IF good = Handlers THEN Consume(m, out)
                  ELSE net' = (net \ {m}) \cup out /\ Spend
      BY <1>5 DEF HolderData
    <2>2. \A x \in net' \ net : x.p = p /\ x.from = d
      BY <1>3, <2>1, ConsumeFrames
    <2>3. recent' \subseteq reached' /\ reached \subseteq reached'
      BY <2>1 DEF AfterHandlers, EndToEndInv, Answered
    <2>4. Shape' /\ Answered'
      BY <1>1, <1>2, <2>1, <2>2, <2>3 DEF EndToEndInv, Shape, Answered
    <2>5. Filtered'
      <3> SUFFICES ASSUME NEW e, NEW q, NEW h, <<e, q, h>> \in took'
                   PROVE  <<e, q>> \in recent' \cup failed'
        BY DEF Filtered
      <3>1. CASE e = d /\ q = p
        BY <2>1, <3>1 DEF AfterHandlers
      <3>2. CASE ~(e = d /\ q = p)
        <4>1. <<e, q, h>> \in took
          BY <2>1, <3>2
        <4>2. <<e, q>> \in recent \cup failed /\ <<e, q>> # <<d, p>>
          BY <3>2, <4>1 DEF EndToEndInv, Filtered
        <4> QED
          BY <2>1, <4>2 DEF AfterHandlers
      <3> QED
        BY <3>1, <3>2
    <2>6. AcceptedOnce'
      <3>1. ASSUME NEW h \in good, <<d, p, h>> \in took
            PROVE  <<d, p>> \in failed
        BY <1>5, <3>1 DEF Repeated, EndToEndInv, Filtered
      <3> QED
        BY <2>1, <3>1 DEF EndToEndInv, AcceptedOnce
    <2> QED
      BY <1>1, <2>3, <2>4, <2>5, <2>6 DEF EndToEndInv, NoFalseCompletion, NotWithheld
  <1> QED
    BY <1>4, <1>5

\* Losing a replay or a message, and an acknowledgement a router swallows, take
\* nothing from what the source believes.
LEMMA LossInv ==
  ASSUME EndToEndInv,
         \/ \E p \in Packets : EvictReplay(p)
         \/ \E m \in net : Lose(m) \/ RouterAck(m)
         \/ UNCHANGED vars
  PROVE  EndToEndInv'
  <1>1. /\ UNCHANGED <<setup, known, sent, acked, recent, reached, took, failed, twice,
                       wanted, lapsed, outcome>>
        /\ net' \subseteq net
    BY DEF EvictReplay, Lose, RouterAck, vars, sourceVars, hubVars, holderVars, historyVars
  <1> QED
    BY <1>1, FramesOnly

\* The inductive invariant holds initially, and every step preserves it.
LEMMA Inductive ==
  /\ Init => EndToEndInv
  /\ EndToEndInv /\ [Next]_vars => EndToEndInv'
  <1>1. Init => EndToEndInv
    BY SetupAssumption, NoneAssumption
       DEF Init, EndToEndInv, Shape, Answered, Filtered, NoFalseCompletion, NotWithheld,
           AcceptedOnce, Live, Source, Hub
  <1>2. ASSUME EndToEndInv, [Next]_vars
        PROVE  EndToEndInv'
    <2>1. CASE \E p \in Packets : Submit(p)
      BY <1>2, <2>1, SubmitInv
    <2>2. CASE \E p \in Packets : Replay(p)
      BY <1>2, <2>2, ReplayInv
    <2>3. CASE Timeouts
      BY <1>2, <2>3, TimeoutsInv
    <2>4. CASE \E k \in SUBSET Holders : Topology(k) \/ HubTopology(k)
      BY <1>2, <2>4, TopologyInv, HubTopologyInv
    <2>5. CASE \E m \in net : SourceAck(m)
      BY <1>2, <2>5, SourceAckInv
    <2>6. CASE \E m \in net : RelayData(m) \/ RouterData(m)
      BY <1>2, <2>6, HubDataInv
    <2>7. CASE \E m \in net : RelayAck(m)
      BY <1>2, <2>7, RelayAckInv
    <2>8. CASE \E m \in net : HolderData(m)
      BY <1>2, <2>8, HolderDataInv
    <2>9. CASE \/ \E p \in Packets : EvictReplay(p)
               \/ \E m \in net : Lose(m) \/ RouterAck(m)
               \/ UNCHANGED vars
      BY <1>2, <2>9, LossInv
    <2> QED
      BY <1>2, <2>1, <2>2, <2>3, <2>4, <2>5, <2>6, <2>7, <2>8, <2>9 DEF Next, Progress
  <1> QED
    BY <1>1, <1>2

-----------------------------------------------------------------------------

\* handle_internal_reliable_packet, the timeouts and the reconciliation of the
\* source: a holder a packet was registered for is no longer waited for only
\* when it has given the packet to its handlers or discovery has lost it.
THEOREM TrueCompletion == Spec => []NoFalseCompletion
  <1>1. EndToEndInv => NoFalseCompletion
    BY DEF EndToEndInv
  <1> QED
    BY <1>1, Inductive, PTL DEF Spec

\* filter_end_to_end_satisfied_sides_locked of the relay: a holder it leaves out
\* of a forwarded packet, because it noted an answer, has had that packet.
THEOREM RelayWithholdsNone == Spec => []NotWithheld
  <1>1. EndToEndInv => NotWithheld
    BY DEF EndToEndInv
  <1> QED
    BY <1>1, Inductive, PTL DEF Spec

\* is_duplicate_pkt and with_retries of the holders: a handler accepts a packet a
\* second time only when a handler of the same router has refused it.
THEOREM HandledOnce == Spec => []AcceptedOnce
  <1>1. EndToEndInv => AcceptedOnce
    BY DEF EndToEndInv
  <1> QED
    BY <1>1, Inductive, PTL DEF Spec
=============================================================================
