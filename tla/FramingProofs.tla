----------------------------- MODULE FramingProofs -----------------------------
(***************************************************************************)
(* However the stream is cut into pieces, the packets pushed are those the *)
(* peer wrote, no buffer is overrun and none grows without bound: for every*)
(* header size, packet limit, set of lengths and length of the stream.     *)
(***************************************************************************)
EXTENDS Framing, SequenceTheorems, TLAPS

MessageType == [size : Nat, data_len : Nat, data : Seq(Byte)]
Capacity == MaxPacket + (MaxPacket \div MaxBuffer + 1) * MaxBuffer

\* What \div promises, and that it grows with its argument.
LEMMA DivBounds ==
  ASSUME NEW m \in Nat \ {0}, NEW a \in Nat
  PROVE  /\ a \div m \in Nat
         /\ (a \div m) * m \in Nat
         /\ (a \div m) * m <= a /\ a < (a \div m) * m + m
         /\ (a \div m + 1) * m = (a \div m) * m + m
  OBVIOUS

\* A longer packet is given no smaller a buffer.
LEMMA DivMonotone ==
  ASSUME NEW m \in Nat \ {0}, NEW a \in Nat, NEW b \in Nat, a <= b
  PROVE  (a \div m + 1) * m <= (b \div m + 1) * m
<1> DEFINE p == a \div m
           q == b \div m
<1>1. /\ p \in Nat /\ q \in Nat /\ p * m <= a /\ b < q * m + m
  BY DivBounds
<1> HIDE DEF p, q
<1>2. p <= q
  <2> SUFFICES ASSUME p >= q + 1
               PROVE  FALSE
    BY <1>1
  <2>1. p * m >= (q + 1) * m
    BY <1>1
  <2>2. (q + 1) * m = q * m + m
    BY <1>1
  <2> QED
    BY <1>1, <2>1, <2>2
<1>3. (p + 1) * m <= (q + 1) * m
  BY <1>1, <1>2
<1> QED
  BY <1>3 DEF p, q

\* Reset never leaves a buffer smaller than asked for, and never one above the bound.
LEMMA GrownBounds ==
  ASSUME NEW s \in Nat, NEW w \in Nat
  PROVE  /\ Grown(s, w) \in Nat /\ w <= Grown(s, w)
         /\ s <= Capacity /\ w <= MaxPacket => Grown(s, w) <= Capacity
         /\ w <= s => Grown(s, w) = s
<1> USE MessageAssumption, FramingAssumption
<1> DEFINE q == w \div MaxBuffer
           x == (q + 1) * MaxBuffer
           y == (MaxPacket \div MaxBuffer + 1) * MaxBuffer
<1>1. /\ x \in Nat /\ w < x /\ y \in Nat
      /\ w <= MaxPacket => x <= y
  <2>1. /\ q \in Nat /\ q * MaxBuffer \in Nat /\ w < q * MaxBuffer + MaxBuffer /\ x = q * MaxBuffer + MaxBuffer
    BY DivBounds
  <2>2. y = (MaxPacket \div MaxBuffer) * MaxBuffer + MaxBuffer /\ (MaxPacket \div MaxBuffer) * MaxBuffer \in Nat
    BY DivBounds
  <2>3. w <= MaxPacket => x <= y
    BY DivMonotone
  <2> HIDE DEF q, x, y
  <2> QED
    BY <2>1, <2>2, <2>3
<1>2. Grown(s, w) = IF w > s THEN s + x ELSE s
  BY DEF Grown
<1>3. Capacity = MaxPacket + y
  BY DEF Capacity
<1> HIDE DEF x, y
<1> QED
  BY <1>1, <1>2, <1>3
-----------------------------------------------------------------------------
(* Buffers. *)

\* Types, and the sizes of all the buffers there are; a buffer that is being filled has room.
SizeInv ==
  /\ header \in MessageType /\ header.data_len = Hdr /\ Hdr <= header.size /\ Len(header.data) <= Hdr
  /\ msg_recv # NoMessage =>
       /\ msg_recv \in MessageType
       /\ msg_recv.data_len <= msg_recv.size /\ Len(msg_recv.data) <= msg_recv.data_len
       /\ msg_recv.size <= Capacity
  /\ waiting \in Seq(MessageType) /\ \A i \in 1..Len(waiting) : waiting[i].size <= Capacity
  /\ recycle \in Seq(Nat) /\ \A i \in 1..Len(recycle) : recycle[i] <= Capacity
  /\ lens \in Seq(Lengths) /\ cursor \in Byte /\ cursor[1] = Len(lens)
  /\ pushed \in Seq(Seq(Byte))
  /\ disconnect \in BOOLEAN /\ pc \in {"idle", "header", "begin", "body"}
  /\ pc = "body" => msg_recv # NoMessage
  /\ size \in Nat /\ received \in Nat

\* A message is never mistaken for no message.
LEMMA MessageIsThere ==
  ASSUME NEW m \in MessageType
  PROVE  m # NoMessage
<1>1. DOMAIN m = {"size", "data_len", "data"}
  BY DEF MessageType
<1>2. DOMAIN NoMessage = {"none"}
  BY DEF NoMessage
<1> QED
  BY <1>1, <1>2

\* What one byte of Fill does to a message that has room.
LEMMA FilledMessage ==
  ASSUME NEW m \in MessageType, NEW b \in Byte, Len(m.data) <= m.data_len, ~Full(m)
  PROVE  LET n == Filled(m, b) IN
         /\ n \in MessageType /\ n.size = m.size /\ n.data_len = m.data_len
         /\ n.data = Append(m.data, b) /\ Len(n.data) = Len(m.data) + 1
         /\ Len(n.data) <= n.data_len
<1> DEFINE n == Filled(m, b)
<1>1. n = [m EXCEPT !.data = Append(m.data, b)] /\ m.data \in Seq(Byte) /\ Len(m.data) # m.data_len
  BY DEF Filled, MessageType, Full
<1>2. /\ n.size = m.size /\ n.data_len = m.data_len /\ n.data = Append(m.data, b)
      /\ n \in MessageType
  <2> DEFINE d == Append(m.data, b)
  <2>1. d \in Seq(Byte)
    BY <1>1
  <2> HIDE DEF d
  <2>2. n = [m EXCEPT !.data = d]
    BY <1>1 DEF d
  <2> HIDE DEF n
  <2> QED
    BY <2>1, <2>2 DEF MessageType, d
<1>3. Len(n.data) = Len(m.data) + 1 /\ Len(m.data) \in Nat /\ m.data_len \in Nat
  BY <1>1, <1>2 DEF MessageType
<1> HIDE DEF n
<1>4. Len(n.data) <= n.data_len
  BY <1>1, <1>2, <1>3
<1> QED
  BY <1>2, <1>3, <1>4 DEF n

\* Taking a byte moves the cursor on in the packet, or to the next one, whose length the peer
\* has just chosen.
LEMMA AdvanceResult ==
  ASSUME SizeInv, Advance, size > 0
  PROVE  /\ lens' \in Seq(Lengths) /\ cursor' \in Byte /\ cursor'[1] = Len(lens') /\ size' \in Nat
         /\ Len(lens) \in Nat /\ Len(lens) >= 1 /\ Len(lens') >= Len(lens)
         /\ \A i \in 1..Len(lens) : lens'[i] = lens[i]
         /\ IF cursor[2] < Hdr + lens[cursor[1]]
              THEN cursor' = <<cursor[1], cursor[2] + 1>>
              ELSE cursor' = <<cursor[1] + 1, 1>>
<1>1. /\ lens \in Seq(Lengths) /\ Len(lens) \in Nat /\ cursor \in Byte /\ cursor[1] = Len(lens)
      /\ cursor[1] \in Nat \ {0} /\ cursor[2] \in Nat \ {0} /\ size' \in Nat
  BY DEF SizeInv, Advance, Byte
<1>2. CASE cursor[2] < Hdr + lens[cursor[1]]
  <2>1. cursor' = <<cursor[1], cursor[2] + 1>> /\ lens' = lens
    BY <1>2 DEF Advance
  <2> QED
    BY <1>1, <1>2, <2>1 DEF Byte
<1>3. CASE ~(cursor[2] < Hdr + lens[cursor[1]])
  <2>1. PICK n \in Lengths : cursor' = <<cursor[1] + 1, 1>> /\ lens' = Append(lens, n)
    BY <1>3 DEF Advance
  <2>2. /\ lens' \in Seq(Lengths) /\ Len(lens') = Len(lens) + 1
        /\ \A i \in 1..Len(lens) : lens'[i] = lens[i]
    BY <1>1, <2>1
  <2> QED
    BY <1>1, <1>3, <2>1, <2>2 DEF Byte
<1> QED
  BY <1>2, <1>3

\* Every action keeps the sizes.
LEMMA SizeStep == SizeInv /\ [Next]_vars => SizeInv'
<1> SUFFICES ASSUME SizeInv, [Next]_vars
             PROVE  SizeInv'
  OBVIOUS
<1> USE FramingAssumption, MessageAssumption
<1>1. ASSUME UNCHANGED <<header, msg_recv, waiting, recycle, lens, cursor, pushed>>,
             disconnect' \in BOOLEAN, pc' \in {"idle", "header", "begin", "body"},
             pc' = "body" => msg_recv # NoMessage,
             size' \in Nat, received' \in Nat
      PROVE  SizeInv'
  BY <1>1 DEF SizeInv
<1>2. CASE Recv \/ HeaderDone \/ Resume \/ BodyPending \/ UNCHANGED vars
  BY <1>1, <1>2 DEF Recv, HeaderDone, Resume, BodyPending, SizeInv, queues, peer, session, vars
<1>3. CASE FillHeader
  <2>1. /\ header' = Filled(header, cursor) /\ ~Full(header) /\ Advance /\ size > 0
        /\ UNCHANGED <<msg_recv, disconnect, pc, waiting, recycle, received, pushed>>
    BY <1>3 DEF FillHeader, CanFill, SizeInv, queues
  <2>2. /\ header' \in MessageType /\ header'.size = header.size /\ header'.data_len = Hdr
        /\ Len(header'.data) <= Hdr
    BY <2>1, FilledMessage DEF SizeInv
  <2>3. lens' \in Seq(Lengths) /\ cursor' \in Byte /\ cursor'[1] = Len(lens') /\ size' \in Nat
    BY <2>1, AdvanceResult
  <2> QED
    BY <2>1, <2>2, <2>3 DEF SizeInv
<1>4. CASE FillBody
  <2>1. /\ msg_recv' = Filled(msg_recv, cursor) /\ ~Full(msg_recv) /\ Advance /\ size > 0
        /\ UNCHANGED <<header, disconnect, pc, waiting, recycle, received, pushed>>
    BY <1>4 DEF FillBody, CanFill, SizeInv, queues
  <2>2. msg_recv # NoMessage
    BY <1>4 DEF FillBody, SizeInv
  <2>3. /\ msg_recv' \in MessageType /\ msg_recv'.size = msg_recv.size
        /\ msg_recv'.data_len = msg_recv.data_len
        /\ Len(msg_recv'.data) <= msg_recv'.data_len
    BY <2>1, <2>2, FilledMessage DEF SizeInv
  <2>4. lens' \in Seq(Lengths) /\ cursor' \in Byte /\ cursor'[1] = Len(lens') /\ size' \in Nat
    BY <2>1, AdvanceResult
  <2>5. msg_recv' # NoMessage
    BY <2>3, MessageIsThere
  <2> QED
    BY <2>1, <2>2, <2>3, <2>4, <2>5 DEF SizeInv
<1>5. CASE Begin
  <2>1. CASE Accepts(HeaderValue)
    <3> DEFINE s == IF recycle = <<>> THEN MaxBuffer ELSE Head(recycle)
               v == HeaderValue
    <3>1. /\ msg_recv' = [size |-> Grown(s, v), data_len |-> v, data |-> <<>>]
          /\ recycle' = IF recycle = <<>> THEN recycle ELSE Tail(recycle)
          /\ pc' = "body"
          /\ UNCHANGED <<disconnect, size, header, waiting, lens, cursor, received, pushed>>
      <4> DEFINE m == [NewMessage EXCEPT !.size = IF recycle = <<>> THEN @ ELSE Head(recycle)]
      <4>1. m.size = s
        BY DEF NewMessage
      <4>2. msg_recv' = Reset(m, v)
        BY <1>5, <2>1 DEF Begin
      <4> HIDE DEF m
      <4> QED
        BY <1>5, <2>1, <4>1, <4>2 DEF Begin, Reset, peer
    <3>2. v \in Nat /\ v <= MaxPacket
      BY <2>1 DEF Accepts, Valid
    <3>3. s \in Nat /\ s <= Capacity
      <4>1. CASE recycle = <<>>
        <5>1. MaxBuffer <= Capacity
          <6>1. (MaxPacket \div MaxBuffer) * MaxBuffer \in Nat
                /\ (MaxPacket \div MaxBuffer + 1) * MaxBuffer = (MaxPacket \div MaxBuffer) * MaxBuffer + MaxBuffer
            BY DivBounds
          <6> QED
            BY <6>1 DEF Capacity
        <5> QED
          BY <4>1, <5>1
      <4>2. CASE recycle # <<>>
        <5>1. Head(recycle) = recycle[1] /\ 1 \in 1..Len(recycle) /\ recycle[1] \in Nat
          BY <4>2 DEF SizeInv
        <5> QED
          BY <4>2, <5>1 DEF SizeInv
      <4> QED
        BY <4>1, <4>2
    <3> HIDE DEF s, v
    <3>4. Grown(s, v) \in Nat /\ v <= Grown(s, v) /\ Grown(s, v) <= Capacity
      BY <3>2, <3>3, GrownBounds
    <3>5. /\ msg_recv' \in MessageType /\ msg_recv'.data_len = v /\ msg_recv'.size = Grown(s, v)
          /\ msg_recv'.data = <<>> /\ Len(msg_recv'.data) = 0
      BY <3>1, <3>2, <3>4 DEF MessageType
    <3>6. recycle' \in Seq(Nat) /\ \A i \in 1..Len(recycle') : recycle'[i] <= Capacity
      <4>1. CASE recycle = <<>>
        BY <3>1, <4>1 DEF SizeInv
      <4>2. CASE recycle # <<>>
        <5>1. /\ recycle' \in Seq(Nat) /\ Len(recycle') = Len(recycle) - 1 /\ Len(recycle) \in Nat
              /\ \A i \in 1..Len(recycle') : recycle'[i] = recycle[i + 1]
          BY <3>1, <4>2, HeadTailProperties DEF SizeInv
        <5>2. \A i \in 1..Len(recycle') : i + 1 \in 1..Len(recycle)
          BY <5>1
        <5> QED
          BY <5>1, <5>2 DEF SizeInv
      <4> QED
        BY <4>1, <4>2
    <3>7. msg_recv' # NoMessage
      BY <3>5, MessageIsThere
    <3> QED
      BY <3>1, <3>2, <3>4, <3>5, <3>6, <3>7 DEF SizeInv
  <2>2. CASE ~Accepts(HeaderValue)
    BY <1>1, <1>5, <2>2 DEF Begin, peer, SizeInv
  <2> QED
    BY <2>1, <2>2
<1>6. CASE Push
  <2>1. /\ msg_recv \in MessageType /\ msg_recv.size <= Capacity /\ msg_recv' = NoMessage
        /\ waiting' = Append(waiting, msg_recv) /\ pushed' = Append(pushed, msg_recv.data)
        /\ header' = Reset(header, Hdr) /\ pc' \in {"idle", "header"}
        /\ UNCHANGED <<disconnect, size, recycle, lens, cursor, received>>
    BY <1>6 DEF Push, SizeInv, peer
  <2>2. header' = [size |-> header.size, data_len |-> Hdr, data |-> <<>>]
    <3>1. Grown(header.size, Hdr) = header.size
      BY GrownBounds DEF SizeInv, MessageType
    <3> QED
      BY <2>1, <3>1 DEF Reset
  <2>3. header' \in MessageType /\ header'.data_len = Hdr /\ header'.size = header.size /\ Len(header'.data) = 0
    BY <2>2 DEF SizeInv, MessageType
  <2>4. waiting' \in Seq(MessageType) /\ \A i \in 1..Len(waiting') : waiting'[i].size <= Capacity
    <3>1. waiting \in Seq(MessageType) /\ \A i \in 1..Len(waiting) : waiting[i].size <= Capacity
      BY DEF SizeInv
    <3>2. /\ waiting' \in Seq(MessageType)
          /\ \A i \in 1..Len(waiting') : \/ i \in 1..Len(waiting) /\ waiting'[i] = waiting[i]
                                        \/ waiting'[i] = msg_recv
      BY <2>1, <3>1
    <3> QED
      BY <2>1, <3>1, <3>2
  <2>5. pushed' \in Seq(Seq(Byte))
    <3>1. msg_recv.data \in Seq(Byte)
      BY <2>1 DEF MessageType
    <3> QED
      BY <2>1, <3>1 DEF SizeInv
  <2>6. /\ header'.data_len = Hdr /\ Hdr <= header'.size /\ Len(header'.data) <= Hdr
        /\ header' \in MessageType
    BY <2>3 DEF SizeInv
  <2>7. /\ msg_recv' = NoMessage /\ disconnect' \in BOOLEAN
        /\ pc' \in {"idle", "header", "begin", "body"} /\ pc' # "body"
    BY <2>1 DEF SizeInv
  <2>8. UNCHANGED <<size, recycle, lens, cursor, received>>
    BY <2>1
  <2> QED
    BY <2>4, <2>5, <2>6, <2>7, <2>8 DEF SizeInv
<1>7. CASE Dispatch
  <2>1. /\ waiting # <<>> /\ recycle' = Append(recycle, Head(waiting).size) /\ waiting' = Tail(waiting)
        /\ UNCHANGED <<session, peer, pushed>>
    BY <1>7 DEF Dispatch
  <2>2. /\ waiting' \in Seq(MessageType) /\ Len(waiting') = Len(waiting) - 1 /\ Len(waiting) \in Nat
        /\ \A i \in 1..Len(waiting') : waiting'[i] = waiting[i + 1]
    BY <2>1, HeadTailProperties DEF SizeInv
  <2>3. \A i \in 1..Len(waiting') : waiting'[i].size <= Capacity
    <3>1. \A i \in 1..Len(waiting') : i + 1 \in 1..Len(waiting)
      BY <2>2
    <3> QED
      BY <2>2, <3>1 DEF SizeInv
  <2>4. Head(waiting).size \in Nat /\ Head(waiting).size <= Capacity
    <3>1. Head(waiting) = waiting[1] /\ 1 \in 1..Len(waiting) /\ waiting[1] \in MessageType
      BY <2>1 DEF SizeInv
    <3> QED
      BY <3>1 DEF SizeInv, MessageType
  <2>5. recycle' \in Seq(Nat) /\ \A i \in 1..Len(recycle') : recycle'[i] <= Capacity
    <3> DEFINE z == Head(waiting).size
    <3>1. z \in Nat /\ z <= Capacity /\ recycle' = Append(recycle, z)
      BY <2>1, <2>4
    <3> HIDE DEF z
    <3> QED
      BY <3>1 DEF SizeInv
  <2> QED
    BY <2>1, <2>2, <2>3, <2>5 DEF SizeInv, session, peer
<1> QED
  BY <1>2, <1>3, <1>4, <1>5, <1>6, <1>7 DEF Next, OnRecv
-----------------------------------------------------------------------------
(* The stream. *)

\* The packet _on_recv works on, and how many of its bytes it has.
Packet == Len(pushed) + 1
Got == Len(header.data) + (IF msg_recv = NoMessage THEN 0 ELSE Len(msg_recv.data))

\* The cursor stands after the bytes that the header and the message hold, and these are the
\* bytes of one packet: what lies before it has been pushed.
Position ==
  /\ Packet <= Len(lens)
  /\ cursor = IF Got < Hdr + lens[Packet] THEN <<Packet, Got + 1>> ELSE <<Packet + 1, 1>>
  /\ \A i \in 1..Len(header.data) : header.data[i] = <<Packet, i>>
  /\ msg_recv # NoMessage =>
       /\ Len(header.data) = Hdr /\ Valid(lens[Packet]) /\ msg_recv.data_len = lens[Packet]
       /\ \A i \in 1..Len(msg_recv.data) : msg_recv.data[i] = <<Packet, Hdr + i>>

PushedInv == \A i \in 1..Len(pushed) : Valid(lens[i]) /\ pushed[i] = BodyOf(i)

\* Where _on_recv may stop: in a header, in a body, or at a length that is not valid.
StopsAt ==
  /\ pc = "begin" => Len(header.data) = Hdr
  /\ pc = "idle" /\ msg_recv = NoMessage =>
       Len(header.data) < Hdr \/ (disconnect /\ ~Valid(lens[Packet]))
  /\ pc # "body" /\ msg_recv # NoMessage => Len(msg_recv.data) < lens[Packet]

StreamInv == Position /\ PushedInv /\ StopsAt

\* The numbers involved.
LEMMA Numbers ==
  ASSUME SizeInv, Position
  PROVE  /\ Packet \in Nat \ {0} /\ Packet \in 1..Len(lens) /\ Len(lens) \in Nat
         /\ lens[Packet] \in Nat /\ \A i \in 1..Len(lens) : lens[i] \in Nat
         /\ Len(header.data) \in 0..Hdr /\ Hdr \in Nat \ {0}
         /\ msg_recv # NoMessage => Len(msg_recv.data) \in 0..lens[Packet]
<1> USE FramingAssumption
<1>1. Len(pushed) \in Nat /\ Len(lens) \in Nat /\ lens \in Seq(Lengths)
  BY DEF SizeInv
<1>2. Packet \in Nat \ {0} /\ Packet \in 1..Len(lens)
  BY <1>1 DEF Packet, Position
<1>3. \A i \in 1..Len(lens) : lens[i] \in Nat
  BY <1>1, ElementOfSeq
<1>4. Len(header.data) \in 0..Hdr
  BY DEF SizeInv, MessageType
<1>5. msg_recv # NoMessage => Len(msg_recv.data) \in 0..lens[Packet]
  BY DEF SizeInv, MessageType, Position
<1> QED
  BY <1>1, <1>2, <1>3, <1>4, <1>5

\* The length in a full header is the one the peer wrote there.
LEMMA HeaderIsRead ==
  ASSUME SizeInv, Position, Len(header.data) = Hdr
  PROVE  HeaderValue = lens[Packet]
<1>1. header.data = HeaderOf(Packet)
  <2>1. /\ header.data \in Seq(Byte) /\ Hdr \in Nat
        /\ \A i \in 1..Hdr : header.data[i] = <<Packet, i>>
    BY FramingAssumption DEF SizeInv, MessageType, Position
  <2>2. header.data = [i \in 1..Hdr |-> header.data[i]]
    BY <2>1
  <2> QED
    BY <2>1, <2>2 DEF HeaderOf
<1>2. Packet \in 1..Len(lens) /\ header.data[1] = <<Packet, 1>>
  BY FramingAssumption, Numbers DEF Position
<1> QED
  BY <1>1, <1>2 DEF HeaderValue

\* Taking a byte keeps the cursor in step.
LEMMA PositionAfterByte ==
  ASSUME SizeInv, Position, Advance, size > 0, pushed' = pushed, Got' = Got + 1, Got < Hdr + lens[Packet]
  PROVE  /\ Packet' = Packet /\ Packet' <= Len(lens') /\ cursor = <<Packet, Got + 1>>
         /\ \A i \in 1..Len(lens) : lens'[i] = lens[i]
         /\ cursor' = IF Got' < Hdr + lens'[Packet'] THEN <<Packet', Got' + 1>> ELSE <<Packet' + 1, 1>>
         /\ PushedInv => PushedInv'
<1>1. /\ Packet \in Nat \ {0} /\ Packet \in 1..Len(lens) /\ lens[Packet] \in Nat /\ Hdr \in Nat
      /\ Got \in Nat /\ Len(lens) \in Nat
  <2>1. Len(header.data) \in Nat /\ (msg_recv # NoMessage => Len(msg_recv.data) \in Nat)
    BY Numbers
  <2>2. CASE msg_recv = NoMessage
    <3>1. Got = Len(header.data) + 0
      BY <2>2 DEF Got
    <3> QED
      BY <2>1, <3>1, Numbers
  <2>3. CASE msg_recv # NoMessage
    <3>1. Got = Len(header.data) + Len(msg_recv.data)
      BY <2>3 DEF Got
    <3>2. Len(header.data) \in Nat /\ Len(msg_recv.data) \in Nat
      BY <2>1, <2>3
    <3> DEFINE h == Len(header.data)
               m == Len(msg_recv.data)
    <3>3. ASSUME NEW a \in Nat, NEW b \in Nat
          PROVE  a + b \in Nat
      OBVIOUS
    <3>4. Got \in Nat
      <4> HIDE DEF h, m
      <4>1. h + m \in Nat
        BY <3>2, <3>3 DEF h, m
      <4> QED
        BY <3>1, <4>1, Zenon DEF h, m
    <3> QED
      BY <3>4, Numbers
  <2> QED
    BY <2>2, <2>3
<1>2. cursor = <<Packet, Got + 1>> /\ cursor[1] = Packet /\ cursor[2] = Got + 1
  BY DEF Position
<1>3. /\ Len(lens') >= Len(lens) /\ Len(lens') \in Nat
      /\ \A i \in 1..Len(lens) : lens'[i] = lens[i]
      /\ IF Got + 1 < Hdr + lens[Packet] THEN cursor' = <<Packet, Got + 2>> ELSE cursor' = <<Packet + 1, 1>>
  <2>1. /\ lens' \in Seq(Lengths) /\ Len(lens') >= Len(lens)
        /\ \A i \in 1..Len(lens) : lens'[i] = lens[i]
        /\ IF cursor[2] < Hdr + lens[cursor[1]]
             THEN cursor' = <<cursor[1], cursor[2] + 1>>
             ELSE cursor' = <<cursor[1] + 1, 1>>
    BY AdvanceResult
  <2>2. Len(lens') \in Nat /\ (Got + 1) + 1 = Got + 2
    BY <1>1, <2>1
  <2> QED
    BY <1>2, <2>1, <2>2
<1>4. Packet' = Packet /\ lens'[Packet] = lens[Packet]
  BY <1>1, <1>3 DEF Packet
<1>5. cursor' = IF Got' < Hdr + lens'[Packet'] THEN <<Packet', Got' + 1>> ELSE <<Packet' + 1, 1>>
  BY <1>1, <1>3, <1>4
<1>6. PushedInv => PushedInv'
  <2>1. \A i \in 1..Len(pushed) : i \in 1..Len(lens)
    BY <1>1 DEF Packet
  <2> QED
    BY <1>3, <2>1 DEF PushedInv, BodyOf
<1> QED
  BY <1>1, <1>2, <1>3, <1>4, <1>5, <1>6

\* Every action keeps the bytes in step.
LEMMA StreamStep == SizeInv /\ SizeInv' /\ StreamInv /\ [Next]_vars => StreamInv'
<1> SUFFICES ASSUME SizeInv, SizeInv', StreamInv, [Next]_vars
             PROVE  StreamInv'
  OBVIOUS
<1> USE FramingAssumption DEF StreamInv
<1>0. /\ Packet \in Nat \ {0} /\ Packet \in 1..Len(lens) /\ lens[Packet] \in Nat
      /\ Len(header.data) \in 0..Hdr /\ Hdr \in Nat \ {0}
      /\ msg_recv # NoMessage => Len(msg_recv.data) \in 0..lens[Packet]
  BY Numbers
<1>1. ASSUME UNCHANGED <<header, msg_recv, pushed, lens, cursor>>, StopsAt'
      PROVE  StreamInv'
  BY <1>1 DEF Position, PushedInv, Packet, Got, BodyOf
<1>2. CASE Dispatch \/ UNCHANGED vars
  BY <1>1, <1>2 DEF Dispatch, session, peer, vars, StopsAt, Packet
<1>3. CASE Recv \/ HeaderDone \/ Resume \/ BodyPending
  <2>1. UNCHANGED <<header, msg_recv, pushed, lens, cursor>>
    BY <1>3 DEF Recv, HeaderDone, Resume, BodyPending, peer
  <2>2. Packet' = Packet /\ lens' = lens
    BY <2>1 DEF Packet
  <2>3. header.data_len = Hdr /\ (msg_recv # NoMessage => msg_recv.data_len = lens[Packet])
    BY DEF SizeInv, Position
  <2>4. CASE Recv
    BY <2>1, <2>2, <2>4, <1>1 DEF Recv, StopsAt
  <2>5. CASE HeaderDone
    BY <2>1, <2>2, <2>3, <2>5, <1>0, <1>1 DEF HeaderDone, Full, StopsAt
  <2>6. CASE Resume
    BY <2>1, <2>2, <2>6, <1>1 DEF Resume, StopsAt
  <2>7. CASE BodyPending
    BY <2>1, <2>2, <2>3, <2>7, <1>0, <1>1 DEF BodyPending, Full, StopsAt, SizeInv
  <2> QED
    BY <1>3, <2>4, <2>5, <2>6, <2>7
<1>4. CASE FillHeader
  <2>1. /\ header' = Filled(header, cursor) /\ ~Full(header) /\ Advance /\ size > 0
        /\ pc = "header" /\ UNCHANGED <<msg_recv, disconnect, pc, pushed>>
    BY <1>4 DEF FillHeader, CanFill, SizeInv
  <2>2. /\ header \in MessageType /\ header.data_len = Hdr /\ Len(header.data) < Hdr /\ cursor \in Byte
        /\ msg_recv = NoMessage /\ Len(header.data) <= header.data_len
    BY <2>1, <1>0 DEF SizeInv, Full, Position
  <2>3. /\ header'.data = Append(header.data, cursor) /\ Len(header'.data) = Len(header.data) + 1
        /\ header.data \in Seq(Byte)
    BY <2>1, <2>2, FilledMessage DEF MessageType
  <2>4. Got = Len(header.data) /\ Got' = Got + 1 /\ Got < Hdr + lens[Packet]
    BY <1>0, <2>1, <2>2, <2>3 DEF Got
  <2>5. /\ Packet' = Packet /\ Packet' <= Len(lens') /\ cursor = <<Packet, Got + 1>>
        /\ cursor' = IF Got' < Hdr + lens'[Packet'] THEN <<Packet', Got' + 1>> ELSE <<Packet' + 1, 1>>
        /\ PushedInv'
    BY <2>1, <2>4, PositionAfterByte
  <2>6. \A i \in 1..Len(header'.data) : header'.data[i] = <<Packet', i>>
    <3>1. \A i \in 1..Len(header.data) : header'.data[i] = header.data[i]
      BY <2>2, <2>3
    <3>2. header'.data[Len(header.data) + 1] = cursor
      BY <2>2, <2>3
    <3>3. \A i \in 1..Len(header'.data) : i \in 1..Len(header.data) \/ i = Len(header.data) + 1
      BY <1>0, <2>3
    <3> QED
      BY <2>4, <2>5, <3>1, <3>2, <3>3 DEF Position
  <2>7. Position' /\ StopsAt'
    BY <2>1, <2>2, <2>5, <2>6 DEF Position, StopsAt
  <2> QED
    BY <2>5, <2>7
<1>5. CASE FillBody
  <2>1. /\ msg_recv' = Filled(msg_recv, cursor) /\ ~Full(msg_recv) /\ Advance /\ size > 0
        /\ pc = "body" /\ msg_recv # NoMessage /\ UNCHANGED <<header, disconnect, pc, pushed>>
    BY <1>5 DEF FillBody, CanFill, SizeInv
  <2>2. /\ msg_recv \in MessageType /\ msg_recv.data_len = lens[Packet] /\ Len(msg_recv.data) < lens[Packet]
        /\ cursor \in Byte /\ Len(header.data) = Hdr /\ Valid(lens[Packet])
        /\ Len(msg_recv.data) <= msg_recv.data_len
    <3>1. /\ msg_recv \in MessageType /\ cursor \in Byte
          /\ Len(msg_recv.data) <= msg_recv.data_len
      BY <2>1 DEF SizeInv
    <3>2. /\ msg_recv.data_len = lens[Packet] /\ Len(header.data) = Hdr /\ Valid(lens[Packet])
      BY <2>1 DEF Position
    <3>3. msg_recv.data_len # Len(msg_recv.data)
      BY <2>1 DEF Full
    <3>4. Len(msg_recv.data) \in Nat
      BY <1>0, <2>1
    <3> QED
      BY <1>0, <3>1, <3>2, <3>3, <3>4
  <2>3. /\ msg_recv'.data = Append(msg_recv.data, cursor) /\ Len(msg_recv'.data) = Len(msg_recv.data) + 1
        /\ msg_recv.data \in Seq(Byte) /\ msg_recv'.data_len = msg_recv.data_len
        /\ msg_recv' # NoMessage
    BY <2>1, <2>2, FilledMessage, MessageIsThere DEF MessageType
  <2>4. Got = Hdr + Len(msg_recv.data) /\ Got' = Got + 1 /\ Got < Hdr + lens[Packet]
    BY <1>0, <2>1, <2>2, <2>3 DEF Got
  <2>5. /\ Packet' = Packet /\ Packet' <= Len(lens') /\ cursor = <<Packet, Got + 1>>
        /\ \A i \in 1..Len(lens) : lens'[i] = lens[i]
        /\ cursor' = IF Got' < Hdr + lens'[Packet'] THEN <<Packet', Got' + 1>> ELSE <<Packet' + 1, 1>>
        /\ PushedInv'
    BY <2>1, <2>4, PositionAfterByte
  <2>6. \A i \in 1..Len(msg_recv'.data) : msg_recv'.data[i] = <<Packet', Hdr + i>>
    <3>1. \A i \in 1..Len(msg_recv.data) : msg_recv'.data[i] = msg_recv.data[i]
      BY <2>2, <2>3
    <3>2. msg_recv'.data[Len(msg_recv.data) + 1] = cursor
      BY <2>2, <2>3
    <3>3. \A i \in 1..Len(msg_recv'.data) : i \in 1..Len(msg_recv.data) \/ i = Len(msg_recv.data) + 1
      BY <1>0, <2>1, <2>3
    <3>4. cursor = <<Packet, Hdr + (Len(msg_recv.data) + 1)>>
      BY <1>0, <2>1, <2>4, <2>5
    <3> QED
      BY <2>1, <2>5, <3>1, <3>2, <3>3, <3>4 DEF Position
  <2>7. Position'
    BY <1>0, <2>1, <2>2, <2>3, <2>5, <2>6 DEF Position
  <2>8. StopsAt'
    BY <2>1 DEF StopsAt
  <2> QED
    BY <2>5, <2>7, <2>8
<1>6. CASE Begin
  <2>1. /\ msg_recv = NoMessage /\ Len(header.data) = Hdr /\ UNCHANGED <<header, lens, cursor, pushed>>
    BY <1>6 DEF Begin, peer, StopsAt
  <2>2. HeaderValue = lens[Packet] /\ Packet' = Packet
    BY <2>1, HeaderIsRead DEF Packet
  <2>3. PushedInv'
    BY <2>1 DEF PushedInv, BodyOf
  <2>4. CASE Valid(lens[Packet])
    <3>1. /\ msg_recv'.data = <<>> /\ Len(msg_recv'.data) = 0 /\ msg_recv'.data_len = lens[Packet]
          /\ pc' = "body" /\ msg_recv' # NoMessage
      BY <1>6, <2>2, <2>4 DEF Begin, Accepts, Reset, SizeInv
    <3>2. Got' = Got
      BY <1>0, <2>1, <3>1 DEF Got
    <3> QED
      BY <2>1, <2>2, <2>3, <2>4, <3>1, <3>2 DEF Position, StopsAt
  <2>5. CASE ~Valid(lens[Packet])
    <3>1. disconnect' = TRUE /\ pc' = "idle" /\ msg_recv' = msg_recv
      BY <1>6, <2>2, <2>5 DEF Begin, Accepts
    <3> QED
      BY <1>1, <2>1, <2>2, <2>5, <3>1 DEF StopsAt
  <2> QED
    BY <2>4, <2>5
<1>7. CASE Push
  <2>1. /\ msg_recv # NoMessage /\ Full(msg_recv) /\ msg_recv' = NoMessage
        /\ pushed' = Append(pushed, msg_recv.data) /\ header' = Reset(header, Hdr)
        /\ pc' \in {"idle", "header"} /\ UNCHANGED <<lens, cursor>>
    BY <1>7 DEF Push, SizeInv, peer
  <2>2. /\ Len(msg_recv.data) = lens[Packet] /\ msg_recv.data \in Seq(Byte) /\ Valid(lens[Packet])
        /\ Len(header.data) = Hdr
    BY <2>1 DEF Position, Full, SizeInv, MessageType
  <2>3. Got = Hdr + lens[Packet] /\ cursor = <<Packet + 1, 1>> /\ cursor[1] = Packet + 1
    BY <1>0, <2>1, <2>2 DEF Got, Position
  <2>4. Packet' = Packet + 1 /\ Packet + 1 <= Len(lens) /\ Len(pushed') = Packet
    BY <2>1, <2>2, <2>3 DEF Packet, SizeInv
  <2>5. header'.data = <<>> /\ Len(header'.data) = 0
    BY <2>1 DEF Reset
  <2>6. Got' = 0
    BY <2>1, <2>5 DEF Got
  <2>7. Position'
    <3>1. lens[Packet + 1] \in Nat
      <4>1. Packet + 1 \in 1..Len(lens)
        BY <1>0, <2>4 DEF SizeInv
      <4> QED
        BY <4>1, Numbers
    <3> QED
      BY <1>0, <2>1, <2>3, <2>4, <2>5, <2>6, <3>1 DEF Position
  <2>8. msg_recv.data = BodyOf(Packet)
    <3>1. msg_recv.data = [i \in 1..lens[Packet] |-> msg_recv.data[i]]
      BY <2>2
    <3>2. \A i \in 1..lens[Packet] : msg_recv.data[i] = <<Packet, Hdr + i>>
      BY <2>1, <2>2 DEF Position
    <3> QED
      BY <3>1, <3>2 DEF BodyOf
  <2>9. PushedInv'
    <3>1. \A i \in 1..Len(pushed') : (i \in 1..Len(pushed) /\ pushed'[i] = pushed[i]) \/ i = Packet
      BY <2>1, <2>2 DEF Packet, SizeInv
    <3>2. pushed'[Packet] = msg_recv.data
      BY <2>1, <2>2 DEF Packet, SizeInv
    <3>3. \A i \in Nat : BodyOf(i)' = BodyOf(i)
      BY <2>1 DEF BodyOf
    <3>4. \A i \in 1..Len(pushed') : i \in Nat
      OBVIOUS
    <3> QED
      BY <2>1, <2>2, <2>8, <3>1, <3>2, <3>3, <3>4 DEF PushedInv
  <2>10. StopsAt'
    BY <1>0, <2>1, <2>5 DEF StopsAt
  <2> QED
    BY <2>7, <2>9, <2>10
<1> QED
  BY <1>2, <1>3, <1>4, <1>5, <1>6, <1>7 DEF Next, OnRecv
-----------------------------------------------------------------------------
(* The theorems. *)

FramingInv == SizeInv /\ StreamInv

\* The inductive invariant: the sizes of the buffers, and the cursor in step with what they hold.
THEOREM FramingInvariant == Spec => []FramingInv
<1>1. Init => FramingInv
  <2> SUFFICES ASSUME Init
               PROVE  FramingInv
    OBVIOUS
  <2> USE FramingAssumption DEF Init
  <2>1. PICK n \in Lengths : lens = <<n>>
    OBVIOUS
  <2>2. /\ lens \in Seq(Lengths) /\ Len(lens) = 1 /\ lens[1] \in Nat
        /\ cursor \in Byte /\ cursor[1] = 1
    BY <2>1 DEF Byte
  <2>3. header \in MessageType /\ header.data_len = Hdr /\ header.size = Hdr /\ Len(header.data) = 0
    BY DEF MessageType
  <2>4. SizeInv
    <3>1. waiting \in Seq(MessageType) /\ recycle \in Seq(Nat) /\ pushed \in Seq(Seq(Byte))
      OBVIOUS
    <3>2. Len(waiting) = 0 /\ Len(recycle) = 0
      OBVIOUS
    <3>3. /\ \A i \in 1..Len(waiting) : waiting[i].size <= Capacity
          /\ \A i \in 1..Len(recycle) : recycle[i] <= Capacity
      BY <3>2
    <3>4. Hdr <= header.size /\ Len(header.data) <= Hdr
      BY <2>3
    <3>5. /\ msg_recv = NoMessage /\ pc = "idle" /\ disconnect = FALSE /\ size = 0 /\ received = 0
      OBVIOUS
    <3> HIDE DEF Init
    <3> QED
      BY <2>2, <2>3, <3>1, <3>3, <3>4, <3>5 DEF SizeInv
  <2>5. Packet = 1 /\ Got = 0 /\ 0 < Hdr + lens[1]
    BY <2>2, <2>3 DEF Packet, Got
  <2>6. Position /\ StopsAt
    BY <2>2, <2>3, <2>5 DEF Position, StopsAt
  <2>7. PushedInv
    BY DEF PushedInv
  <2> QED
    BY <2>4, <2>6, <2>7 DEF FramingInv, StreamInv
<1>2. FramingInv /\ [Next]_vars => FramingInv'
  BY SizeStep, StreamStep DEF FramingInv
<1> QED
  BY <1>1, <1>2, PTL DEF Spec

\* Type correctness.
THEOREM FramingTyping == Spec => []TypeOK
<1>1. FramingInv => TypeOK
  <2>1. \A m \in MessageType : IsMessage(m)
    BY DEF IsMessage, MessageType
  <2>2. ASSUME SizeInv
        PROVE  \A i \in 1..Len(waiting) : waiting[i] \in MessageType
    BY <2>2, ElementOfSeq DEF SizeInv
  <2> QED
    BY <2>1, <2>2 DEF FramingInv, SizeInv, TypeOK
<1> QED
  BY <1>1, FramingInvariant, PTL

\* What _on_recv pushes are the bodies of the peer's packets, in order and whole, wherever recv
\* has cut the stream.
THEOREM PushedPackets == Spec => []PushedArePackets
<1>1. FramingInv => PushedArePackets
  BY DEF FramingInv, StreamInv, PushedInv, PushedArePackets
<1> QED
  BY <1>1, FramingInvariant, PTL

\* Between two pieces every complete packet has been pushed, up to the first whose length is not
\* valid; that one asks for Disconnect and nothing after it is pushed.
THEOREM PushedComplete == Spec => []PushedAreComplete
<1>1. FramingInv => PushedAreComplete
  <2> SUFFICES ASSUME FramingInv, pc = "idle"
               PROVE  IF AllValid(cursor[1] - 1)
                        THEN Len(pushed) = cursor[1] - 1
                        ELSE /\ AllValid(Len(pushed)) /\ ~Valid(lens[Len(pushed) + 1])
                             /\ disconnect
    BY DEF PushedAreComplete
  <2> USE DEF FramingInv, StreamInv
  <2>1. /\ Packet \in Nat \ {0} /\ lens[Packet] \in Nat /\ Hdr \in Nat \ {0}
        /\ Len(header.data) \in 0..Hdr /\ Len(pushed) = Packet - 1
        /\ msg_recv # NoMessage => Len(msg_recv.data) \in 0..lens[Packet]
    BY Numbers DEF Packet, SizeInv
  <2>2. AllValid(Packet - 1)
    BY <2>1 DEF AllValid, PushedInv
  <2>3. CASE Got < Hdr + lens[Packet]
    <3>1. cursor[1] = Packet
      BY <2>3 DEF Position
    <3> QED
      BY <2>1, <2>2, <3>1
  <2>4. CASE ~(Got < Hdr + lens[Packet])
    <3>1. cursor[1] = Packet + 1
      BY <2>4 DEF Position
    <3>2. msg_recv = NoMessage
      <4> SUFFICES ASSUME msg_recv # NoMessage
                   PROVE  FALSE
        OBVIOUS
      <4>1. Got = Hdr + Len(msg_recv.data) /\ Len(msg_recv.data) < lens[Packet]
        BY DEF StopsAt, Got, Position
      <4> QED
        BY <2>1, <2>4, <4>1
    <3>3. disconnect /\ ~Valid(lens[Packet])
      BY <2>1, <2>4, <3>2 DEF StopsAt, Got
    <3>4. ~AllValid(cursor[1] - 1)
      BY <2>1, <3>1, <3>3 DEF AllValid
    <3> QED
      BY <2>1, <2>2, <3>3, <3>4 DEF Packet
  <2> QED
    BY <2>3, <2>4
<1> QED
  BY <1>1, FramingInvariant, PTL

\* Fill never writes past the end of a buffer.
THEOREM FillInBounds == Spec => []InBounds
<1>1. FramingInv => InBounds
  BY DEF FramingInv, SizeInv, InBounds
<1> QED
  BY <1>1, FramingInvariant, PTL

\* The buffers of recycled messages stop growing.
THEOREM CapacityIsBounded == Spec => []CapacityBounded
<1>1. FramingInv => CapacityBounded
  BY DEF FramingInv, SizeInv, CapacityBounded, Capacity
<1> QED
  BY <1>1, FramingInvariant, PTL
=============================================================================
