-------------------------------- MODULE Wire --------------------------------
(***************************************************************************)
(* The wire format of serialize.rs and the journey of one frame.  A board  *)
(* serialises a packet; routers and relays on the way verify the checksum, *)
(* give the frame a new reliable header in place and send it on; the last  *)
(* board turns the bytes back into a packet.  On every leg the medium may  *)
(* change one byte or cut the frame short.                                 *)
(*                                                                         *)
(* A byte is a number below 2 * Group, where Group (128 in the code) is    *)
(* the weight of a varint's continuation bit.  A u32 takes Word bytes (4), *)
(* a u64 takes 2 * Word.  The endpoint bitmap is one byte.  zstd is a      *)
(* run-length code and CRC32 a polynomial residue with one wide byte: both *)
(* are external.  The hash of a packet id is the sequence of bytes it is   *)
(* fed, that is, a hash without collisions.                                *)
(***************************************************************************)
EXTENDS Integers, Sequences, FiniteSets, SequencesExt, FiniteSetsExt

CONSTANTS
    Packets,      \* packets an application may send
    Schema,       \* DataType |-> [reliable, size], size = -1 when dynamic
    NumEndpoints, \* MAX_VALUE_DATA_ENDPOINT + 1
    Group,        \* 128: a varint carries this many values per byte
    MaxVarint,    \* 10: bytes of the longest varint
    Word,         \* 4: bytes of a u32
    Threshold,    \* PAYLOAD_COMPRESS_THRESHOLD
    Usizes,       \* widths of usize, in bytes, on the boards of the network
    Seqs,         \* sequence numbers a hop may assign
    MaxHops       \* bound: routers and relays between the two ends

VARIABLES
    sent,    \* the packet serialised by the source, or its acknowledgement
    frame,   \* the bytes on the medium
    hdr,     \* the reliable header they were last given
    harmed,  \* the medium has changed the frame somewhere on its way
    hops,    \* nodes passed
    ids,     \* packet ids computed on the way
    stage,   \* "idle", "medium", "accepted", "rejected"
    got      \* what the destination decoded

vars == <<sent, frame, hdr, harmed, hops, ids, stage, got>>

None == [none |-> TRUE]
Byte == 0..(2 * Group - 1)
Types == DOMAIN Schema

AckOnly == 1       \* RELIABLE_FLAG_ACK_ONLY
Unordered == 2     \* RELIABLE_FLAG_UNORDERED
Unsequenced == 4   \* RELIABLE_FLAG_UNSEQUENCED, 0x80

Bit(n, b) == (n \div 2^b) % 2

-----------------------------------------------------------------------------
(* Numbers *)

\* write_uleb128: low groups first, all but the last with the continuation bit
Uleb(v) ==
    LET groups == {k \in 1..MaxVarint : k = 1 \/ v >= Group^(k - 1)}
        n == Max(groups)
    IN [k \in 1..n |->
            ((v \div Group^(k - 1)) % Group) + (IF k < n THEN Group ELSE 0)]

\* uleb128_size: the length by comparison alone
UlebSize(v) ==
    LET n[k \in 0..MaxVarint] ==
            IF k = MaxVarint \/ v \div Group^k < Group THEN 1 ELSE 1 + n[k + 1]
    IN n[0]

\* read_uleb128 at position i: the lengths it can end with, none when the
\* bytes run out or the varint is too long
UlebEnds(d, i) ==
    {k \in 1..MaxVarint : /\ i + k - 1 <= Len(d)
                          /\ d[i + k - 1] < Group
                          /\ \A j \in 0..(k - 2) : d[i + j] >= Group}

UlebValue(d, i, n) ==
    FoldLeft(LAMBDA acc, k : acc + (d[i + k - 1] % Group) * Group^(k - 1),
             0, [k \in 1..n |-> k])

\* to_le_bytes of an integer of n bytes, and from_le_bytes
LittleEndian(v, n) == [k \in 1..n |-> (v \div (2 * Group)^(k - 1)) % (2 * Group)]

FromLittleEndian(b) ==
    FoldLeft(LAMBDA acc, k : acc + b[k] * (2 * Group)^(k - 1),
             0, [k \in 1..Len(b) |-> k])

-----------------------------------------------------------------------------
(* Checksum, compression and endpoint bitmap *)

Prime == 32749

\* crc32_bytes
Crc(d) == FoldLeft(LAMBDA h, b : (h * 263 + b + 1) % Prime, 1, d)

\* append_crc32
WithCrc(d) == Append(d, Crc(d))

\* split_crc32: the last CRC32_BYTES are the checksum
Body(buf) == Front(buf)

\* verify_crc32
CrcOk(buf) == Len(buf) >= 1 /\ Last(buf) = Crc(Body(buf))

\* zstd: a run of equal bytes becomes the byte and its count
Packed(s) == <<Head(s), Len(s)>>
IsRun(s) == s # <<>> /\ \A i \in 1..Len(s) : s[i] = Head(s)

\* compress_if_beneficial: only from the threshold on and when it saves a byte
Compresses(s) ==
    Len(s) >= Threshold /\ IsRun(s) /\ Len(Packed(s)) + 1 < Len(s)

OnWire(s) == IF Compresses(s) THEN Packed(s) ELSE s

\* decompress: the output must have the announced length
Unpacks(c, n) == Len(c) = 2 /\ c[2] = n
Unpacked(c, n) == [i \in 1..n |-> c[1]]

\* build_endpoint_bitmap, bitmap_popcount and expand_endpoint_bitmap
Bitmap(eps) == FoldSet(LAMBDA e, acc : acc + 2^e, 0, Range(eps))
Members(bm) == {e \in 0..NumEndpoints : 2^e <= bm /\ Bit(bm, e) = 1}
Ascending(S) == SetToSortSeq(S, <)

-----------------------------------------------------------------------------
(* Packets *)

\* Packet::new: some endpoint, and the size a static type prescribes
Valid(p) ==
    /\ p.eps # <<>>
    /\ Schema[p.ty].size \in {-1, Len(p.payload)}

\* Packet::packet_id on a board whose usize has w bytes
PacketId(p, w) ==
    <<p.sender, p.ty, p.eps, LittleEndian(p.ts, 2 * Word),
      LittleEndian(Len(p.payload), w), p.payload>>

IsReliable(ty) == Schema[ty].reliable

\* write_reliable_header
HeaderBytes(h) ==
    <<h.flags>> \o LittleEndian(h.seq, Word) \o LittleEndian(h.ack, Word)

HeaderSize == 1 + 2 * Word

Header(flags, seq, ack) == [flags |-> flags, seq |-> seq, ack |-> ack]

-----------------------------------------------------------------------------
(* Serialization *)

\* The part in front of the reliable header
Prelude(p, payloadPacked) ==
    LET wire == OnWire(p.sender)
        packed == Compresses(p.sender)
    IN <<(IF payloadPacked THEN 1 ELSE 0) + (IF packed THEN 2 ELSE 0),
         Cardinality(Range(p.eps))>>
       \o Uleb(p.ty) \o Uleb(Len(p.payload)) \o Uleb(p.ts)
       \o Uleb(Len(p.sender))
       \o (IF packed THEN Uleb(Len(wire)) ELSE <<>>)
       \o <<Bitmap(p.eps)>> \o wire

\* serialize_packet_inner; h is None for a type that is not reliable
SerializeInner(p, h) ==
    WithCrc(Prelude(p, Compresses(p.payload))
            \o (IF h = None THEN <<>> ELSE HeaderBytes(h))
            \o OnWire(p.payload))

\* serialize_packet: an unsequenced header keeps the layout of the type
PlainHeader(ty) == IF IsReliable(ty) THEN Header(Unsequenced, 0, 0) ELSE None

\* serialize_reliable_ack: a header without endpoints and without payload
AckEnvelope(p) == [p EXCEPT !.eps = <<>>, !.payload = <<>>]
SerializeAck(p, ack) == SerializeInner(AckEnvelope(p), Header(AckOnly, 0, ack))

\* header_size_bytes and packet_wire_size: the size without the bytes
HeaderSizeBytes(p) ==
    2 + UlebSize(p.ty) + UlebSize(Len(p.payload)) + UlebSize(p.ts)
      + UlebSize(Len(p.sender))
      + (IF Compresses(p.sender) THEN UlebSize(Len(OnWire(p.sender))) ELSE 0)

PacketWireSize(p) ==
    HeaderSizeBytes(p) + 1 + Len(OnWire(p.sender))
      + (IF IsReliable(p.ty) THEN HeaderSize ELSE 0)
      + Len(OnWire(p.payload)) + 1

-----------------------------------------------------------------------------
(* Reading a frame *)

\* The end of each varint of the prelude: type, size, timestamp, sender
\* length and, behind a compressed sender, its length on the wire; 0 when the
\* reader has failed
VarintEnd(d) ==
    LET e[k \in 0..5] ==
            IF k = 0 THEN 2
            ELSE IF e[k - 1] = 0 \/ UlebEnds(d, e[k - 1] + 1) = {} THEN 0
                 ELSE e[k - 1] + Max(UlebEnds(d, e[k - 1] + 1))
    IN e

\* Where the parts of a body are; the fields every reader starts with
Layout(d) ==
    LET e == VarintEnd(d)
        v(k) == UlebValue(d, e[k - 1] + 1, e[k] - e[k - 1])
        packed == Bit(d[1], 1) = 1
        n == IF packed THEN 5 ELSE 4
    IN IF Len(d) < 2 \/ e[n] = 0 THEN None
       ELSE [ty |-> v(1), dsz |-> v(2), ts |-> v(3), slen |-> v(4),
             wirelen |-> v(n), packed |-> packed, bitmap |-> e[n] + 1,
             rest |-> e[n] + 2 + v(n)]

\* is_reliable_type_from_raw and DataType::try_from_u32
KnownType(l) == l.ty \in Types

\* decode_sender_name
SenderWire(d, l) == SubSeq(d, l.bitmap + 1, l.rest - 1)
SenderOk(d, l) == ~l.packed \/ Unpacks(SenderWire(d, l), l.slen)
Sender(d, l) ==
    IF l.packed THEN Unpacked(SenderWire(d, l), l.slen) ELSE SenderWire(d, l)

\* The checks the envelope readers share, from the length to the type
EnvelopeOk(d, l) ==
    /\ l # None
    /\ l.rest - 1 <= Len(d)
    /\ \A e \in Members(d[l.bitmap]) : e < NumEndpoints
    /\ Cardinality(Members(d[l.bitmap])) = d[2]
    /\ SenderOk(d, l)
    /\ KnownType(l)

\* peek_envelope, without its checksum test
Envelope(d, l) ==
    [ty |-> l.ty, eps |-> Ascending(Members(d[l.bitmap])),
     sender |-> Sender(d, l), ts |-> l.ts]

\* read_reliable_header at offset `at'
HeaderAt(d, at) ==
    Header(d[at], FromLittleEndian(SubSeq(d, at + 1, at + Word)),
           FromLittleEndian(SubSeq(d, at + Word + 1, at + 2 * Word)))

\* peek_frame_info_inner: None, or the envelope with the reliable header
FrameInfo(d) ==
    LET l == Layout(d)
    IN IF ~EnvelopeOk(d, l) \/ (IsReliable(l.ty) /\ Len(d) < l.rest - 1 + HeaderSize)
       THEN None
       ELSE [envelope |-> Envelope(d, l),
             reliable |-> IF IsReliable(l.ty) THEN HeaderAt(d, l.rest) ELSE None]

\* peek_frame_info_unchecked, for the retransmission request of a damaged frame
PeekFrameInfoUnchecked(buf) ==
    IF Len(buf) >= 1 THEN FrameInfo(Body(buf)) ELSE None

\* peek_frame_info: the checksum first
PeekFrameInfo(buf) == IF CrcOk(buf) THEN FrameInfo(Body(buf)) ELSE None

\* TelemetryFrameInfo::ack_only
IsAckOnly(info) == info.reliable # None /\ Bit(info.reliable.flags, 0) = 1

\* The payload bytes behind the reliable header: all the rest when compressed
PayloadAt(d, l) ==
    LET at == l.rest + (IF IsReliable(l.ty) THEN HeaderSize ELSE 0)
    IN IF Bit(d[1], 0) = 1 THEN SubSeq(d, at, Len(d))
       ELSE SubSeq(d, at, at + l.dsz - 1)

PayloadOk(d, l) ==
    LET at == l.rest + (IF IsReliable(l.ty) THEN HeaderSize ELSE 0)
    IN IF Bit(d[1], 0) = 1
       THEN at <= Len(d) /\ Unpacks(PayloadAt(d, l), l.dsz)
       ELSE at + l.dsz - 1 <= Len(d)

Payload(d, l) ==
    IF Bit(d[1], 0) = 1 THEN Unpacked(PayloadAt(d, l), l.dsz) ELSE PayloadAt(d, l)

\* deserialize_packet: the packet, or None
DeserializePacket(buf) ==
    LET d == Body(buf)
        l == Layout(d)
        p == [ty |-> l.ty, eps |-> Ascending(Members(d[l.bitmap])),
              sender |-> Sender(d, l), ts |-> l.ts, payload |-> Payload(d, l)]
    IN IF /\ CrcOk(buf)
          /\ EnvelopeOk(d, l)
          /\ PayloadOk(d, l)
          /\ IsReliable(l.ty) => Bit(d[l.rest], 0) = 0
          /\ Valid(p)
       THEN p ELSE None

\* The id of the payload as it is on the wire
PacketIdOfWireBytes(buf) ==
    LET d == Body(buf)
        l == Layout(d)
    IN IF PeekFrameInfo(buf) = None \/ ~PayloadOk(d, l) THEN {}
       ELSE {<<Sender(d, l), l.ty, Ascending(Members(d[l.bitmap])),
               LittleEndian(l.ts, 2 * Word), LittleEndian(l.dsz, 2 * Word),
               PayloadAt(d, l)>>}

\* packet_id_from_wire: the endpoint count and the UTF-8 of the sender are not
\* looked at, and the size is hashed as a u64
PacketIdFromWire(buf) ==
    LET d == Body(buf)
        l == Layout(d)
    IN IF /\ CrcOk(buf)
          /\ l # None
          /\ l.rest - 1 <= Len(d)
          /\ KnownType(l)
          /\ SenderOk(d, l)
          /\ IsReliable(l.ty) =>
                l.rest - 1 + HeaderSize <= Len(d) /\ Bit(d[l.rest], 0) = 0
          /\ PayloadOk(d, l)
          /\ \A e \in Members(d[l.bitmap]) : e < NumEndpoints
       THEN {<<Sender(d, l), l.ty, Ascending(Members(d[l.bitmap])),
               LittleEndian(l.ts, 2 * Word), LittleEndian(l.dsz, 2 * Word),
               Payload(d, l)>>}
       ELSE {}

\* reliable_header_offset: no checksum, no bitmap, no decompression; 0 when
\* the type has no reliable header
HeaderOffset(buf) ==
    LET l == Layout(Body(buf))
    IN IF l # None /\ KnownType(l) /\ IsReliable(l.ty) THEN l.rest ELSE 0

RewriteKeepsCrc(buf, h) ==
    LET at == HeaderOffset(buf)
        new == HeaderBytes(h)
    IN IF at = 0 THEN buf
       ELSE [i \in 1..Len(buf) |-> IF i \in at..(at + HeaderSize - 1)
                                   THEN new[i - at + 1] ELSE buf[i]]

\* rewrite_reliable_header: in place, with a new checksum; a frame without a
\* reliable header stays as it is
RewriteReliableHeader(buf, h) ==
    LET at == HeaderOffset(buf)
        new == HeaderBytes(h)
    IN IF at = 0 THEN buf
       ELSE WithCrc([i \in 1..(Len(buf) - 1) |->
                        IF i \in at..(at + HeaderSize - 1)
                        THEN new[i - at + 1] ELSE buf[i]])

-----------------------------------------------------------------------------
(* The journey *)

Init ==
    /\ sent = None /\ frame = <<>> /\ hdr = None /\ harmed = FALSE
    /\ hops = 0 /\ ids = {} /\ stage = "idle" /\ got = None

Written(bytes, h) == frame' = bytes /\ hdr' = h /\ UNCHANGED harmed

\* The application's packet goes out on a side: serialize_packet where the
\* side or the type is not reliable, serialize_packet_with_reliable otherwise
Send(p, h, w) ==
    /\ stage = "idle"
    /\ Valid(p)
    /\ Written(SerializeInner(p, h), h)
    /\ sent' = p /\ stage' = "medium" /\ ids' = {PacketId(p, w)}
    /\ UNCHANGED <<hops, got>>

\* An acknowledgement-only control frame
SendAck(p, ack) ==
    /\ stage = "idle"
    /\ IsReliable(p.ty)
    /\ Written(SerializeAck(p, ack), Header(AckOnly, 0, ack))
    /\ sent' = AckEnvelope(p) /\ stage' = "medium"
    /\ UNCHANGED <<hops, ids, got>>

\* The medium changes a byte, or the tail of the frame is lost
Damage(i, b) ==
    /\ stage = "medium" /\ ~harmed
    /\ i <= Len(frame) /\ frame[i] # b
    /\ frame' = [frame EXCEPT ![i] = b]
    /\ harmed' = TRUE
    /\ UNCHANGED <<sent, hdr, hops, ids, stage, got>>

Truncate(n) ==
    /\ stage = "medium" /\ ~harmed
    /\ n < Len(frame)
    /\ frame' = SubSeq(frame, 1, n)
    /\ harmed' = TRUE
    /\ UNCHANGED <<sent, hdr, hops, ids, stage, got>>

Reject == stage' = "rejected" /\ UNCHANGED <<sent, frame, hdr, harmed, ids, got>>

\* The reliable header a forwarding node gives a frame: a new sequence number
\* on a reliable side; on another side sequenced frames become unsequenced
\* (adjust_reliable_for_side) and keep their number
NewHeaders(info) ==
    IF info.reliable = None THEN {None}
    ELSE {Header(f, s, 0) : f \in {0, Unordered}, s \in Seqs}
         \cup {IF Bit(info.reliable.flags, 2) = 1 THEN info.reliable
               ELSE Header(Unsequenced, info.reliable.seq, 0)}

\* A router or relay forwards the bytes: it looks at them, computes the id for
\* the duplicate filter and rewrites the header.  Control frames end here.
Forward ==
    /\ stage = "medium" /\ hops < MaxHops
    /\ hops' = hops + 1
    /\ LET info == PeekFrameInfo(frame)
       IN IF info = None \/ IsAckOnly(info) THEN Reject
          ELSE \E h \in NewHeaders(info) :
                /\ Written(RewriteReliableHeader(frame, h), h)
                /\ ids' = ids \cup PacketIdFromWire(frame)
                /\ UNCHANGED <<sent, stage, got>>

\* The frame reaches a node through a side that passes packets: it is
\* decoded, and serialised again with a header of the next side
Reserialize(w) ==
    /\ stage = "medium" /\ hops < MaxHops
    /\ hops' = hops + 1
    /\ LET p == DeserializePacket(frame)
       IN IF p = None THEN Reject
          ELSE \E h \in {PlainHeader(p.ty)} \cup
                        (IF IsReliable(p.ty) THEN {Header(0, s, 0) : s \in Seqs}
                                             ELSE {}) :
                /\ Written(SerializeInner(p, h), h)
                /\ ids' = ids \cup {PacketId(p, w)}
                /\ UNCHANGED <<sent, stage, got>>

\* The destination: envelope, header, packet and id of what arrived
Receive(w) ==
    /\ stage = "medium"
    /\ hops' = hops
    /\ LET info == PeekFrameInfo(frame)
           p == DeserializePacket(frame)
       IN IF info = None \/ (p = None /\ ~IsAckOnly(info)) THEN Reject
          ELSE /\ got' = [info |-> info, packet |-> p]
               /\ stage' = "accepted"
               /\ ids' = ids \cup PacketIdFromWire(frame)
                             \cup (IF p = None THEN {} ELSE {PacketId(p, w)})
               /\ UNCHANGED <<sent, frame, hdr, harmed>>

Next ==
    \/ \E p \in Packets, w \in Usizes :
        \E h \in {PlainHeader(p.ty)} \cup
                 (IF IsReliable(p.ty) THEN {Header(0, s, 0) : s \in Seqs} ELSE {}) :
            Send(p, h, w)
    \/ \E p \in Packets, a \in Seqs : SendAck(p, a)
    \/ \E i \in 1..Len(frame), b \in Byte : Damage(i, b)
    \/ \E n \in 0..(Len(frame) - 1) : Truncate(n)
    \/ Forward
    \/ \E w \in Usizes : Reserialize(w) \/ Receive(w)

Spec == Init /\ [][Next]_vars

-----------------------------------------------------------------------------
(* Properties *)

\* The sent packet as the bitmap carries it
Normal(p) == [p EXCEPT !.eps = Ascending(Range(p.eps))]

\* What a destination accepts is what the source sent, whatever the medium did
\* to the frame and however many nodes gave it a new header and a new
\* checksum: a checksum is only renewed for bytes that passed the old one.  A
\* control frame yields a header and never a packet.  (deserialize_packet,
\* peek_frame_info, rewrite_reliable_header)
AcceptedIsSent ==
    stage = "accepted" =>
        LET p == Normal(sent)
        IN /\ got.info.reliable = hdr
           /\ got.info.envelope =
                [ty |-> p.ty, eps |-> p.eps, sender |-> p.sender, ts |-> p.ts]
           /\ got.packet = IF IsAckOnly(got.info) THEN None ELSE p

\* A frame that the medium left alone is never refused, and has the size
\* packet_wire_size promised: no combination of compressed sender, compressed
\* payload, varint lengths, reliable header and rewriting makes a reader look
\* in the wrong place.  (serialize_packet_inner against every reader)
IntactIsReadable ==
    (stage = "medium" /\ ~harmed) =>
        LET info == PeekFrameInfo(frame)
        IN /\ info # None /\ info.reliable = hdr
           /\ ~IsAckOnly(info) =>
                /\ DeserializePacket(frame) = Normal(sent)
                /\ Len(frame) = PacketWireSize(sent)

\* All the nodes a packet passes compute the same id, from the packet or from
\* the bytes: duplicate filters, return routes and end-to-end
\* acknowledgements compare these ids across boards.  (Packet::packet_id,
\* packet_id_from_wire)
IdsAgree == Cardinality(ids) <= 1
=============================================================================
