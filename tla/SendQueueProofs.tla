---------------------------- MODULE SendQueueProofs ----------------------------
(***************************************************************************)
(* The bytes that _send queues reach send() once and in order, a Message   *)
(* has one holder, and shutdown waits for all of them: for every size of a *)
(* Message, every length of data and however send() splits them.           *)
(***************************************************************************)
EXTENDS SendQueue, ListLemmas, TLAPS

MessageType == [size : Nat, data_len : Nat, data : Seq(Nat)]

\* Types, and that Send's two calls of _send run one after the other on a session that lives.
SendTypes ==
  /\ heap \in Seq(MessageType)
  /\ recycle \in Seq(Address) /\ que_send \in Seq(Address)
  /\ msg_send \in Address \cup {NULL} /\ send_len \in Nat
  /\ data \in Seq(Nat) /\ body \in Seq(Nat) /\ size \in Nat /\ size <= Len(data)
  /\ accepted \in Seq(Nat) /\ queued \in Seq(Nat) /\ wire \in Seq(Nat)
  /\ wr_ready \in BOOLEAN /\ disconnect \in BOOLEAN /\ send_over \in BOOLEAN /\ alive \in BOOLEAN
  /\ status \in {"RUNNING", "ERROR"} /\ pc \in {"idle", "head", "data", "loop"}
  /\ pc \in {"idle", "loop"} => size = 0
  /\ pc # "head" => body = <<>>
  /\ pc # "idle" => alive

\* A Message is free, queued or being sent.
HolderInv ==
  /\ Distinct(recycle) /\ Distinct(que_send)
  /\ ToSet(recycle) \cap ToSet(que_send) = {}
  /\ msg_send \notin ToSet(recycle) \cup ToSet(que_send)

\* How many bytes the Messages before the i-th in the queue hold: all of them are full.
Before(i) == (i - 1) * MaxBuffer

\* How many bytes were queued before those in the queue.
Start == IF msg_send = NULL THEN Len(wire) ELSE (Len(wire) - send_len) + Len(Data)

\* The i-th Message in the queue belongs to this session, holds something and, unless it is the
\* last one, is full; and what it holds was queued after what the Messages before it hold.
InPlace(i) ==
  LET m == heap[que_send[i]] IN
    /\ m.data_len = MaxBuffer /\ Len(m.data) \in 1..MaxBuffer
    /\ i < Len(que_send) => Len(m.data) = MaxBuffer
    /\ \A k \in 1..Len(m.data) : m.data[k] = queued[Start + Before(i) + k]

\* The Message being sent holds bytes that are not out yet, the last send_len of those that are
\* out, and they are those queued at their place.
SendingInv ==
  /\ send_len < Len(Data) /\ send_len <= Len(wire)
  /\ \A k \in 1..Len(Data) : Data[k] = queued[(Len(wire) - send_len) + k]

\* What lies inside the session is what was queued after what is on the wire.
PlaceInv ==
  alive =>
    /\ msg_send # NULL => SendingInv
    /\ \A i \in 1..Len(que_send) : InPlace(i)
    /\ Len(queued) = IF que_send = <<>> THEN Start
                     ELSE Start + Before(Len(que_send)) + Len(heap[Last(que_send)].data)

\* What is on the wire is what was queued first.
WireInv == Len(wire) <= Len(queued) /\ \A k \in 1..Len(wire) : wire[k] = queued[k]

\* What was accepted and is not queued is what Send still has to copy.
CountInv == Len(accepted) = Len(queued) + size + Len(body)

SendInv == SendTypes /\ HolderInv /\ PlaceInv /\ WireInv /\ CountInv

\* The Messages before the first hold nothing, and one more holds MaxBuffer more.
LEMMA BeforeNext ==
  /\ Before(1) = 0
  /\ \A i \in Nat \ {0} : Before(i) \in Nat /\ Before(i + 1) = Before(i) + MaxBuffer
<1>1. ASSUME NEW i \in Nat \ {0}
      PROVE  Before(i) \in Nat /\ Before(i + 1) = Before(i) + MaxBuffer
  <2>1. (i - 1) * MaxBuffer \in Nat /\ (i + 1 - 1) * MaxBuffer = (i - 1) * MaxBuffer + MaxBuffer
    BY MessageAssumption
  <2> QED
    BY <2>1 DEF Before
<1> QED
  BY <1>1, MessageAssumption DEF Before

\* Reset empties a Message of whatever size.
LEMMA ResetMessage ==
  ASSUME NEW m \in MessageType
  PROVE  /\ Reset(m, MaxBuffer) \in MessageType
         /\ Reset(m, MaxBuffer).data_len = MaxBuffer /\ Reset(m, MaxBuffer).data = <<>>
<1>1. Grown(m.size, MaxBuffer) \in Nat
  <2>1. MaxBuffer \div MaxBuffer \in Nat
    BY MessageAssumption
  <2>2. (MaxBuffer \div MaxBuffer + 1) * MaxBuffer \in Nat
    BY <2>1, MessageAssumption
  <2> QED
    BY <2>2 DEF Grown, MessageType
<1> QED
  BY <1>1, MessageAssumption DEF Reset, MessageType

\* A queue that needs no further Message has one, and its last one has room.
LEMMA LastOfQueue ==
  ASSUME SendTypes, que_send # <<>>
  PROVE  /\ Len(que_send) \in Nat \ {0} /\ Last(que_send) = que_send[Len(que_send)]
         /\ Last(que_send) \in ToSet(que_send) /\ Last(que_send) \in Address
         /\ heap[Last(que_send)] \in MessageType
<1>1. que_send \in Seq(Address) /\ heap \in Seq(MessageType)
  BY DEF SendTypes
<1>2. Len(que_send) \in Nat \ {0} /\ que_send[Len(que_send)] \in Address
  BY <1>1
<1>3. que_send[Len(que_send)] \in ToSet(que_send)
  BY <1>1, <1>2, LenProperties DEF ToSet
<1> QED
  BY <1>1, <1>2, <1>3 DEF Last, Address

\* The Message that a round of _send writes into has room, and if it is not the last one queued
\* it is empty and nobody else's.
LEMMA WriterIsOurs ==
  ASSUME SendTypes, HolderInv, PlaceInv, alive
  PROVE  /\ Writer \in MessageType /\ Writer.data_len = MaxBuffer /\ Len(Writer.data) \in 0..(MaxBuffer - 1)
         /\ Target \in 1..(Len(heap) + 1)
         /\ ~NeedsMessage => que_send # <<>> /\ Target = Last(que_send) /\ Writer = heap[Target]
         /\ NeedsMessage => Writer.data = <<>> /\ Target \notin ToSet(que_send) /\ Target # msg_send
<1>0. /\ heap \in Seq(MessageType) /\ Len(heap) \in Nat /\ Address = 1..Len(heap)
      /\ recycle \in Seq(Address) /\ que_send \in Seq(Address) /\ msg_send \in Address \cup {NULL}
      /\ MaxBuffer \in Nat \ {0}
  BY MessageAssumption DEF SendTypes, Address
<1>1. CASE ~NeedsMessage
  <2>1. que_send # <<>> /\ ~Full(heap[Last(que_send)]) /\ Target = Last(que_send) /\ Writer = heap[Target]
    BY <1>1 DEF NeedsMessage, Target, Writer
  <2>2. Len(que_send) \in 1..Len(que_send) /\ Target = que_send[Len(que_send)] /\ Target \in Address
        /\ heap[Target] \in MessageType
    BY <2>1, LastOfQueue
  <2>3. heap[Target].data_len = MaxBuffer /\ Len(heap[Target].data) \in 1..MaxBuffer
    BY <2>2 DEF PlaceInv, InPlace
  <2>4. Len(heap[Target].data) # MaxBuffer
    BY <2>1, <2>3 DEF Full
  <2> QED
    BY <1>0, <1>1, <2>1, <2>2, <2>3, <2>4
<1>2. CASE NeedsMessage
  <2>1. NewMessage \in MessageType
    BY <1>0 DEF NewMessage, MessageType
  <2>2. PICK m \in MessageType : Writer = Reset(m, MaxBuffer)
    <3>1. Writer = Reset(IF Target \in Address THEN heap[Target] ELSE NewMessage, MaxBuffer)
      BY <1>2 DEF Writer
    <3>2. Target \in Address => heap[Target] \in MessageType
      BY <1>0
    <3> QED
      BY <2>1, <3>1, <3>2
  <2>3. Writer \in MessageType /\ Writer.data_len = MaxBuffer /\ Writer.data = <<>>
    BY <2>2, ResetMessage
  <2>4. Len(Writer.data) = 0
    BY <2>3
  <2>5. CASE recycle # <<>>
    <3>1. Target = Head(recycle)
      BY <1>2, <2>5 DEF Target
    <3>2. Target \in ToSet(recycle) /\ Target \in Address
      BY <1>0, <2>5, <3>1, TailDistinct DEF HolderInv
    <3> QED
      BY <1>0, <1>2, <2>3, <2>4, <3>2 DEF HolderInv
  <2>6. CASE recycle = <<>>
    <3>1. Target = Len(heap) + 1
      BY <1>2, <2>6 DEF Target
    <3>2. \A a \in ToSet(que_send) : a \in 1..Len(heap)
      BY <1>0, LenProperties DEF ToSet
    <3>3. Target \notin ToSet(que_send) /\ Target # msg_send
      BY <1>0, <3>1, <3>2 DEF NULL
    <3> QED
      BY <1>0, <1>2, <2>3, <2>4, <3>1, <3>3
  <2> QED
    BY <2>5, <2>6
<1> QED
  BY <1>1, <1>2

\* A round copies at least one byte, no more than fit and no more than there are.
LEMMA PieceFits ==
  ASSUME SendTypes, HolderInv, PlaceInv, alive, size > 0
  PROVE  /\ Piece \in Seq(Nat) /\ Len(Piece) \in Nat \ {0} /\ Len(Piece) <= size
         /\ Len(Writer.data) + Len(Piece) <= MaxBuffer
<1> DEFINE room == Writer.data_len - Len(Writer.data)
           n == IF room < size THEN room ELSE size
<1>1. /\ room = MaxBuffer - Len(Writer.data) /\ Len(Writer.data) \in 0..(MaxBuffer - 1)
      /\ MaxBuffer \in Nat \ {0}
  BY WriterIsOurs, MessageAssumption
<1>2. data \in Seq(Nat) /\ size \in Nat /\ size <= Len(data) /\ Len(data) \in Nat
  BY DEF SendTypes
<1>3. room \in Nat \ {0} /\ Len(Writer.data) + room = MaxBuffer /\ Len(Writer.data) \in Nat
  BY <1>1
<1>4. Piece = SubSeq(data, 1, n)
  BY DEF Piece
<1> HIDE DEF room
<1>5. n \in Nat \ {0} /\ n <= size /\ n <= room /\ n <= Len(data)
  BY <1>2, <1>3
<1> HIDE DEF n
<1>6. Piece \in Seq(Nat) /\ Len(Piece) = n
  <2>1. /\ \A i \in 1..n : data[i] \in Nat
        /\ 1 <= n /\ n - 1 + 1 = n /\ n \in Int
    BY <1>2, <1>5, ElementOfSeq
  <2> QED
    BY <1>4, <2>1, SubSeqProperties
<1> QED
  BY <1>3, <1>5, <1>6

\* Bytes added to a Message leave it one.
LEMMA PourMessage ==
  ASSUME NEW w \in MessageType, NEW p \in Seq(Nat)
  PROVE  LET m == [w EXCEPT !.data = @ \o p] IN
           m \in MessageType /\ m.data_len = w.data_len /\ m.data = w.data \o p
<1>1. w.data \in Seq(Nat) /\ w.size \in Nat /\ w.data_len \in Nat
  BY DEF MessageType
<1>2. w.data \o p \in Seq(Nat)
  BY <1>1, ConcatProperties
<1> DEFINE m == [w EXCEPT !.data = @ \o p]
<1>3. DOMAIN w = {"size", "data_len", "data"}
  BY DEF MessageType
<1>4. /\ m.data = w.data \o p /\ m.size = w.size /\ m.data_len = w.data_len
  BY <1>3
<1>5. m \in MessageType
  BY <1>2 DEF MessageType
<1> QED
  BY <1>4, <1>5

\* What a round leaves of the Messages.
LEMMA RoundWrites ==
  ASSUME SendTypes, HolderInv, PlaceInv, CopyRound
  PROVE  /\ heap' \in Seq(MessageType) /\ Len(heap') \in Nat /\ Len(heap') >= Len(heap)
         /\ Target \in 1..Len(heap')
         /\ \A a \in Address : a # Target => heap'[a] = heap[a]
         /\ heap'[Target].data_len = MaxBuffer /\ heap'[Target].data = Writer.data \o Piece
<1>0. alive /\ size > 0 /\ heap \in Seq(MessageType) /\ Len(heap) \in Nat
  <2>1. pc \in {"head", "data"} /\ size > 0
    BY DEF CopyRound
  <2> QED
    BY <2>1 DEF SendTypes
<1> DEFINE m == [Writer EXCEPT !.data = @ \o Piece]
<1>1. Writer \in MessageType /\ Writer.data_len = MaxBuffer /\ Target \in 1..(Len(heap) + 1)
  BY <1>0, WriterIsOurs
<1>2. Piece \in Seq(Nat)
  BY <1>0, PieceFits
<1>3. m \in MessageType /\ m.data_len = MaxBuffer /\ m.data = Writer.data \o Piece
  BY <1>1, <1>2, PourMessage
<1>4. heap' = IF Target \in Address THEN [heap EXCEPT ![Target] = m] ELSE Append(heap, m)
  BY DEF CopyRound
<1> HIDE DEF m
<1>5. CASE Target \in Address
  <2>1. heap' = [heap EXCEPT ![Target] = m] /\ Target \in 1..Len(heap)
    BY <1>4, <1>5 DEF Address
  <2>2. heap' \in Seq(MessageType) /\ Len(heap') = Len(heap) /\ heap'[Target] = m
        /\ \A a \in 1..Len(heap) : a # Target => heap'[a] = heap[a]
    BY <1>0, <1>3, <2>1, ExceptSeq
  <2> QED
    BY <1>0, <1>3, <2>1, <2>2 DEF Address
<1>6. CASE Target \notin Address
  <2>1. heap' = Append(heap, m) /\ Target = Len(heap) + 1
    BY <1>0, <1>1, <1>4, <1>6 DEF Address
  <2>2. heap' \in Seq(MessageType) /\ Len(heap') = Len(heap) + 1 /\ heap'[Len(heap) + 1] = m
        /\ \A a \in 1..Len(heap) : heap'[a] = heap[a]
    BY <1>0, <1>3, <2>1
  <2> QED
    BY <1>0, <1>3, <2>1, <2>2 DEF Address
<1> QED
  BY <1>5, <1>6

\* What is left of the Message that is being sent, and what of it goes out.
LEMMA RestOfMessage ==
  ASSUME SendTypes, SendingInv, msg_send # NULL
  PROVE  /\ Data \in Seq(Nat) /\ Rest \in Seq(Nat) /\ Len(Rest) \in Nat \ {0}
         /\ Len(Data) \in Nat /\ Len(Rest) = Len(Data) - send_len
         /\ \A k \in 1..Len(Rest) : Rest[k] = Data[send_len + k]
<1>1. msg_send \in 1..Len(heap) /\ heap \in Seq(MessageType) /\ send_len \in Nat
  BY DEF SendTypes, Address
<1>2. Data \in Seq(Nat)
  <2>1. heap[msg_send] \in MessageType
    BY <1>1
  <2> QED
    BY <2>1 DEF Data, MessageType
<1> DEFINE n == Len(Data)
           l == send_len + 1
<1>3. n \in Nat /\ l \in Nat /\ 1 <= l /\ l <= n /\ l = send_len + 1
  BY <1>1, <1>2 DEF SendingInv
<1>4. \A k \in l..n : Data[k] \in Nat
  BY <1>2, <1>3, ElementOfSeq
<1>5. Rest = SubSeq(Data, l, n)
  BY DEF Rest
<1> HIDE DEF n, l
<1>6. /\ Rest \in Seq(Nat) /\ Len(Rest) = n - l + 1
      /\ \A k \in 1..(n - l + 1) : Rest[k] = Data[l + k - 1]
  BY <1>3, <1>4, <1>5, SubSeqProperties
<1>7. n - l + 1 = n - send_len /\ n - send_len \in Nat \ {0} /\ \A k \in Nat : l + k - 1 = send_len + k
  BY <1>1, <1>3
<1>8. Len(Rest) = n - send_len /\ Len(Rest) \in Nat \ {0}
  BY <1>6, <1>7
<1>9. ASSUME NEW k \in 1..Len(Rest)
      PROVE  Rest[k] = Data[send_len + k]
  <2>1. k \in 1..(n - l + 1) /\ k \in Nat
    BY <1>6, <1>8
  <2>2. Rest[k] = Data[l + k - 1]
    BY <1>6, <2>1
  <2> QED
    BY <1>7, <2>1, <2>2
<1> QED
  BY <1>2, <1>3, <1>6, <1>8, <1>9 DEF n

\* A sequence of addresses stays one when a Message is made.
LEMMA MoreAddresses ==
  ASSUME NEW m \in Nat, NEW n \in Nat, m <= n, NEW s \in Seq(1..m)
  PROVE  s \in Seq(1..n)
<1>1. \A i \in 1..Len(s) : s[i] \in 1..n
  BY ElementOfSeq
<1> QED
  BY <1>1

\* Types are kept.
LEMMA TypesStep == SendTypes /\ HolderInv /\ PlaceInv /\ [Next]_vars => SendTypes'
<1> SUFFICES ASSUME SendTypes, HolderInv, PlaceInv, [Next]_vars
             PROVE  SendTypes'
  OBVIOUS
<1> USE DEF NULL
<1>0. /\ heap \in Seq(MessageType) /\ Len(heap) \in Nat /\ Address = 1..Len(heap)
      /\ recycle \in Seq(Address) /\ que_send \in Seq(Address)
  BY DEF SendTypes, Address
<1>1. CASE Send
  <2>1. PICK n \in DataLens : /\ data' = [i \in 1..Hdr |-> Len(accepted) + i]
                              /\ body' = [i \in 1..n |-> Len(accepted) + Hdr + i]
                              /\ accepted' = accepted \o data' \o body'
    BY <1>1 DEF Send
  <2>2. n \in Nat /\ Hdr \in Nat /\ Len(accepted) \in Nat /\ accepted \in Seq(Nat)
    BY SendQueueAssumption DEF SendTypes
  <2>3. data' \in Seq(Nat) /\ Len(data') = Hdr /\ body' \in Seq(Nat)
    BY <2>1, <2>2
  <2>4. accepted' \in Seq(Nat)
    BY <2>1, <2>2, <2>3, ConcatProperties
  <2>5. /\ size' = Hdr /\ pc' = "head" /\ alive
        /\ UNCHANGED <<pool, sending, wr_ready, status, disconnect, send_over, alive, queued, wire>>
    BY <1>1 DEF Send
  <2> QED
    BY <2>2, <2>3, <2>4, <2>5 DEF SendTypes, Address, pool, sending
<1>2. CASE CopyRound
  <2>1. /\ heap' \in Seq(MessageType) /\ Len(heap') \in Nat /\ Len(heap') >= Len(heap)
        /\ Target \in 1..Len(heap') /\ Address' = 1..Len(heap')
    BY <1>2, RoundWrites DEF Address
  <2>2. que_send \in Seq(Address') /\ recycle \in Seq(Address') /\ msg_send \in Address' \cup {NULL}
    <3>1. que_send \in Seq(1..Len(heap')) /\ recycle \in Seq(1..Len(heap'))
      BY <1>0, <2>1, MoreAddresses
    <3>2. msg_send \in 1..Len(heap') \/ msg_send = NULL
      BY <1>0, <2>1 DEF SendTypes
    <3> QED
      BY <2>1, <3>1, <3>2
  <2>3. que_send' \in Seq(Address') /\ recycle' \in Seq(Address')
    <3>1. recycle # <<>> => Tail(recycle) \in Seq(Address')
      BY <2>2
    <3>2. Target \in Address' /\ Append(que_send, Target) \in Seq(Address')
      BY <2>1, <2>2
    <3>3. CASE NeedsMessage
      <4>1. que_send' = Append(que_send, Target) /\ recycle' = IF recycle = <<>> THEN <<>> ELSE Tail(recycle)
        BY <1>2, <3>3 DEF CopyRound
      <4>2. <<>> \in Seq(Address')
        OBVIOUS
      <4> QED
        BY <3>1, <3>2, <4>1, <4>2
    <3>4. CASE ~NeedsMessage
      BY <1>2, <2>2, <3>4 DEF CopyRound
    <3> QED
      BY <3>3, <3>4
  <2>4. pc \in {"head", "data"} /\ size > 0 /\ alive
    <3>1. pc \in {"head", "data"} /\ size > 0
      BY <1>2 DEF CopyRound
    <3> QED
      BY <3>1 DEF SendTypes
  <2>5. /\ size' = size - Len(Piece) /\ queued' = queued \o Piece
        /\ UNCHANGED <<msg_send, send_len, data, body, flags, accepted, wire>>
    BY <1>2 DEF CopyRound
  <2>6. Piece \in Seq(Nat) /\ Len(Piece) \in Nat \ {0} /\ Len(Piece) <= size
    BY <2>4, PieceFits
  <2>7. size' \in Nat /\ size' <= Len(data) /\ queued' \in Seq(Nat)
    <3>1. size \in Nat /\ size <= Len(data) /\ Len(data) \in Nat /\ queued \in Seq(Nat)
      BY DEF SendTypes
    <3> QED
      BY <2>5, <2>6, <3>1, ConcatProperties
  <2> QED
    BY <2>1, <2>2, <2>3, <2>4, <2>5, <2>7 DEF SendTypes, flags
<1>3. CASE CopyDone
  <2>1. /\ pc \in {"head", "data"} /\ size = 0 /\ pc' = IF pc = "head" THEN "data" ELSE "idle"
        /\ data' = body /\ size' = Len(body) /\ body' = <<>>
        /\ UNCHANGED <<pool, sending, wr_ready, status, disconnect, send_over, alive, history>>
    BY <1>3 DEF CopyDone
  <2>2. pc = "data" => size' = 0
    BY <2>1 DEF SendTypes
  <2>3. data' \in Seq(Nat) /\ size' \in Nat /\ size' <= Len(data') /\ body' \in Seq(Nat)
    BY <2>1 DEF SendTypes
  <2> QED
    BY <2>1, <2>2, <2>3 DEF SendTypes, Address, pool, sending, history
<1>4. CASE Disconnect \/ Writable \/ PostSendIdle \/ PostSend
  BY <1>4 DEF Disconnect, Writable, PostSendIdle, PostSend, SendTypes, Address, pool, sending, copying,
              history
<1>5. CASE NextMessage
  <2>1. CASE NothingToTake
    BY <1>5, <2>1 DEF NextMessage, SendTypes, Address, pool, sending, copying, history
  <2>2. CASE ~NothingToTake
    <3>1. Head(que_send) \in Address /\ Tail(que_send) \in Seq(Address)
      BY <1>0, <2>2 DEF NothingToTake
    <3> QED
      BY <1>5, <2>2, <3>1 DEF NextMessage, TakeFront, SendTypes, Address, pool, copying, history
  <2> QED
    BY <2>1, <2>2
<1>6. ASSUME msg_send # NULL, alive, NEW w \in Seq(Nat), wire' = wire \o w
      PROVE  wire' \in Seq(Nat)
  BY <1>6, ConcatProperties DEF SendTypes
<1>7. CASE SendFull
  <2>1. msg_send # NULL /\ alive
    BY <1>7 DEF SendFull, SendTypes
  <2>2. SendingInv
    BY <2>1 DEF PlaceInv
  <2>3. wire' \in Seq(Nat)
    BY <1>6, <1>7, <2>1, <2>2, RestOfMessage DEF SendFull
  <2>4. msg_send \in Address /\ recycle' = Append(recycle, msg_send) /\ recycle' \in Seq(Address)
    BY <1>0, <1>7, <2>1 DEF SendFull, Free, SendTypes
  <2>5. /\ send_len' = 0 /\ msg_send' = NULL
        /\ UNCHANGED <<heap, que_send, copying, flags, accepted, queued>>
    BY <1>7 DEF SendFull, Free
  <2> QED
    BY <2>3, <2>4, <2>5 DEF SendTypes, Address, copying, flags
<1>8. CASE SendPart
  <2>1. msg_send # NULL /\ alive
    BY <1>8 DEF SendPart, SendTypes
  <2>2. SendingInv
    BY <2>1 DEF PlaceInv
  <2>3. Rest \in Seq(Nat) /\ Len(Rest) \in Nat
    BY <2>1, <2>2, RestOfMessage
  <2>4. PICK n \in 1..(Len(Rest) - 1) : wire' = wire \o SubSeq(Rest, 1, n) /\ send_len' = send_len + n
    BY <1>8 DEF SendPart, RememberPart
  <2>5. SubSeq(Rest, 1, n) \in Seq(Nat)
    <3>1. n \in Int /\ 1..n \subseteq 1..Len(Rest)
      BY <2>3, <2>4
    <3>2. \A k \in 1..n : Rest[k] \in Nat
      BY <2>3, <3>1, ElementOfSeq
    <3> QED
      BY <3>1, <3>2, SubSeqProperties
  <2>6. wire' \in Seq(Nat) /\ send_len' \in Nat
    BY <1>6, <2>1, <2>3, <2>4, <2>5 DEF SendTypes
  <2>7. /\ pc = "loop" /\ pc' = "idle"
        /\ UNCHANGED <<pool, que_send, msg_send, copying, wr_ready, status, disconnect, send_over,
                       alive, accepted, queued>>
    BY <1>8 DEF SendPart
  <2> QED
    BY <2>6, <2>7 DEF SendTypes, Address, pool, copying
<1>9. CASE SendWouldBlock \/ SendFails
  BY <1>9 DEF SendWouldBlock, SendFails, SendTypes, Address, pool, sending, copying, history
<1>10. CASE Destroy
  <2>1. recycle' \in Seq(Address) /\ msg_send' \in Address \cup {NULL}
    <3>1. CASE msg_send = NULL
      BY <1>0, <1>10, <3>1 DEF Destroy, GiveBack
    <3>2. CASE msg_send # NULL
      <4>1. msg_send \in Address
        BY <3>2 DEF SendTypes
      <4>2. recycle' = Append(recycle, msg_send) /\ msg_send' = NULL
        BY <1>10, <3>2 DEF Destroy, GiveBack
      <4> QED
        BY <1>0, <4>1, <4>2
    <3> QED
      BY <3>1, <3>2
  <2>2. /\ pc = "idle" /\ alive' = FALSE
        /\ UNCHANGED <<heap, que_send, send_len, copying, wr_ready, status, disconnect, send_over, pc,
                       history>>
    BY <1>10 DEF Destroy
  <2> QED
    BY <2>1, <2>2 DEF SendTypes, Address, copying, history
<1>11. CASE UNCHANGED vars
  BY <1>11 DEF SendTypes, Address, vars, pool, sending, copying, flags, history
<1> QED
  BY <1>1, <1>2, <1>3, <1>4, <1>5, <1>7, <1>8, <1>9, <1>10, <1>11 DEF Next

\* A Message changes hands, and has one holder again.
LEMMA HolderStep == SendTypes /\ HolderInv /\ PlaceInv /\ [Next]_vars => HolderInv'
<1> SUFFICES ASSUME SendTypes, HolderInv, PlaceInv, [Next]_vars
             PROVE  HolderInv'
  OBVIOUS
<1>0. /\ recycle \in Seq(Nat) /\ que_send \in Seq(Nat) /\ msg_send \in Nat /\ NULL \notin ToSet(recycle)
      /\ NULL \notin ToSet(que_send)
  <2>1. /\ \A i \in 1..Len(recycle) : recycle[i] \in Nat \ {0}
        /\ \A i \in 1..Len(que_send) : que_send[i] \in Nat \ {0}
        /\ msg_send \in Nat
    <3>1. recycle \in Seq(1..Len(heap)) /\ que_send \in Seq(1..Len(heap)) /\ Len(heap) \in Nat
      BY DEF SendTypes, Address
    <3>2. msg_send \in 1..Len(heap) \/ msg_send = 0
      BY DEF SendTypes, Address, NULL
    <3> QED
      BY <3>1, <3>2, ElementOfSeq
  <2>2. recycle \in Seq(Nat) /\ que_send \in Seq(Nat)
    <3>1. recycle \in Seq(Address) /\ que_send \in Seq(Address)
      BY DEF SendTypes
    <3>2. Len(recycle) \in Nat /\ Len(que_send) \in Nat
      BY <3>1
    <3>3. /\ recycle = [i \in 1..Len(recycle) |-> recycle[i]]
          /\ que_send = [i \in 1..Len(que_send) |-> que_send[i]]
      BY <3>1
    <3>4. recycle \in [1..Len(recycle) -> Nat] /\ que_send \in [1..Len(que_send) -> Nat]
      BY <2>1, <3>3
    <3> QED
      BY <3>2, <3>4
  <2> QED
    BY <2>1, <2>2, LenProperties DEF ToSet, NULL
<1>1. CASE CopyRound
  <2>1. alive /\ msg_send' = msg_send
    BY <1>1 DEF CopyRound, SendTypes
  <2>2. CASE ~NeedsMessage
    BY <1>1, <2>1, <2>2 DEF CopyRound, HolderInv
  <2>3. CASE NeedsMessage
    <3>1. Target \notin ToSet(que_send) /\ Target # msg_send /\ Target \in Nat
      <4>1. Len(heap) \in Nat
        BY DEF SendTypes
      <4> QED
        BY <2>1, <2>3, <4>1, WriterIsOurs
    <3>2. que_send' = Append(que_send, Target) /\ recycle' = IF recycle = <<>> THEN <<>> ELSE Tail(recycle)
      BY <1>1, <2>3 DEF CopyRound
    <3>3. Distinct(que_send') /\ ToSet(que_send') = ToSet(que_send) \cup {Target}
      BY <1>0, <3>1, <3>2, AppendDistinct, AppendSet DEF HolderInv
    <3>4. Distinct(recycle') /\ ToSet(recycle') \subseteq ToSet(recycle) /\ Target \notin ToSet(recycle')
      <4>1. CASE recycle # <<>>
        <5>1. Target = Head(recycle) /\ recycle' = Tail(recycle)
          BY <2>3, <3>2, <4>1 DEF Target
        <5>2. Distinct(Tail(recycle)) /\ ToSet(Tail(recycle)) = ToSet(recycle) \ {Head(recycle)}
          BY <1>0, <4>1, TailDistinct DEF HolderInv
        <5> QED
          BY <5>1, <5>2
      <4>2. CASE recycle = <<>>
        <5>1. recycle' = recycle /\ ToSet(recycle) = {}
          BY <3>2, <4>2 DEF ToSet
        <5> QED
          BY <5>1 DEF HolderInv
      <4> QED
        BY <4>1, <4>2
    <3> QED
      BY <2>1, <3>1, <3>3, <3>4 DEF HolderInv
  <2> QED
    BY <2>2, <2>3
<1>2. CASE NextMessage
  <2>1. CASE NothingToTake
    BY <1>2, <2>1 DEF NextMessage, HolderInv, pool, sending
  <2>2. CASE ~NothingToTake
    <3>1. msg_send' = Head(que_send) /\ que_send' = Tail(que_send) /\ recycle' = recycle
      BY <1>2, <2>2 DEF NextMessage, TakeFront, pool
    <3>2. /\ Head(que_send) \in ToSet(que_send) /\ Distinct(Tail(que_send))
          /\ ToSet(Tail(que_send)) = ToSet(que_send) \ {Head(que_send)}
      BY <1>0, <2>2, TailDistinct DEF NothingToTake, HolderInv
    <3> QED
      BY <3>1, <3>2 DEF HolderInv
  <2> QED
    BY <2>1, <2>2
<1>3. ASSUME recycle' = Append(recycle, msg_send), msg_send # NULL, msg_send' = NULL,
             que_send' = que_send
      PROVE  HolderInv'
  <2>1. Distinct(recycle') /\ ToSet(recycle') = ToSet(recycle) \cup {msg_send}
    BY <1>0, <1>3, AppendDistinct, AppendSet DEF HolderInv
  <2> QED
    BY <1>0, <1>3, <2>1 DEF HolderInv
<1>4. CASE SendFull
  BY <1>3, <1>4 DEF SendFull, Free
<1>5. CASE Destroy
  <2>1. CASE msg_send = NULL
    BY <1>5, <2>1 DEF Destroy, GiveBack, HolderInv
  <2>2. CASE msg_send # NULL
    BY <1>3, <1>5, <2>2 DEF Destroy, GiveBack
  <2> QED
    BY <2>1, <2>2
<1>6. CASE Send \/ CopyDone \/ Disconnect \/ Writable \/ PostSendIdle \/ PostSend \/ SendPart
           \/ SendWouldBlock \/ SendFails \/ UNCHANGED vars
  BY <1>6 DEF Send, CopyDone, Disconnect, Writable, PostSendIdle, PostSend, SendPart, SendWouldBlock,
              SendFails, HolderInv, vars, pool, sending
<1> QED
  BY <1>1, <1>2, <1>4, <1>5, <1>6 DEF Next

\* Every Message before another one in the queue leaves room for MaxBuffer bytes.
LEMMA BeforeLater ==
  ASSUME NEW i \in Nat \ {0}, NEW j \in Nat, i < j
  PROVE  Before(i) \in Nat /\ Before(j) \in Nat /\ Before(i) + MaxBuffer <= Before(j)
<1> DEFINE d == j - 1 - i
<1>1. d \in Nat /\ MaxBuffer \in Nat /\ i - 1 \in Nat /\ j - 1 = (i - 1) + 1 + d
  BY MessageAssumption
<1> HIDE DEF d
<1>2. d * MaxBuffer \in Nat /\ (i - 1) * MaxBuffer \in Nat
  BY <1>1
<1>3. ((i - 1) + 1 + d) * MaxBuffer = (i - 1) * MaxBuffer + MaxBuffer + d * MaxBuffer
  BY <1>1
<1>4. (j - 1) * MaxBuffer = (i - 1) * MaxBuffer + MaxBuffer + d * MaxBuffer
  BY <1>1, <1>3
<1> QED
  BY <1>1, <1>2, <1>4 DEF Before

\* Where the bytes inside the session begin.
LEMMA StartType ==
  ASSUME SendTypes, PlaceInv, alive
  PROVE  Start \in Nat /\ Start >= Len(wire) - send_len
<1>1. Len(wire) \in Nat /\ send_len \in Nat
  BY DEF SendTypes
<1>2. CASE msg_send = NULL
  BY <1>1, <1>2 DEF Start
<1>3. CASE msg_send # NULL
  <2>1. SendingInv
    BY <1>3 DEF PlaceInv
  <2>2. Len(Data) \in Nat
    BY <1>3, <2>1, RestOfMessage
  <2>3. Start = (Len(wire) - send_len) + Len(Data) /\ send_len <= Len(wire)
    BY <1>3, <2>1 DEF Start, SendingInv
  <2> QED
    BY <1>1, <2>2, <2>3
<1> QED
  BY <1>2, <1>3

\* What a round adds to the queue begins where what was queued ends, and every Message before the
\* one it writes into is full.
LEMMA RoundContinues ==
  ASSUME SendTypes, HolderInv, PlaceInv, CopyRound
  PROVE  /\ que_send' \in Seq(Nat) /\ Len(que_send') \in Nat \ {0}
         /\ que_send'[Len(que_send')] = Target /\ Last(que_send') = Target
         /\ Len(queued) = Start + Before(Len(que_send')) + Len(Writer.data)
         /\ \A k \in 1..Len(Writer.data) :
              Writer.data[k] = queued[Start + Before(Len(que_send')) + k]
         /\ \A i \in 1..(Len(que_send') - 1) :
              /\ i \in 1..Len(que_send) /\ que_send'[i] = que_send[i] /\ que_send[i] # Target
              /\ que_send[i] \in Address /\ Len(heap[que_send[i]].data) = MaxBuffer
         /\ msg_send # Target
<1>0. /\ alive /\ que_send \in Seq(Address) /\ Len(que_send) \in Nat /\ Len(heap) \in Nat
      /\ Address = 1..Len(heap)
  <2>1. pc \in {"head", "data"}
    BY DEF CopyRound
  <2>2. alive /\ que_send \in Seq(Address) /\ heap \in Seq(MessageType)
    BY <2>1 DEF SendTypes
  <2> QED
    BY <2>2, LenProperties DEF Address
<1>1. /\ \A i \in 1..Len(que_send) : InPlace(i)
      /\ Len(queued) = IF que_send = <<>> THEN Start
                       ELSE Start + Before(Len(que_send)) + Len(heap[Last(que_send)].data)
  BY <1>0 DEF PlaceInv
<1>2. que_send \in Seq(Nat)
  <2>1. \A i \in 1..Len(que_send) : que_send[i] \in Nat
    BY <1>0
  <2> QED
    BY <1>0, <2>1
<1>3. \A i \in 1..Len(que_send) : que_send[i] \in Address /\ que_send[i] \in ToSet(que_send)
  BY <1>0, LenProperties DEF ToSet
<1>4. CASE ~NeedsMessage
  <2>1. que_send' = que_send /\ que_send # <<>> /\ Target = Last(que_send) /\ Writer = heap[Target]
    BY <1>0, <1>4, WriterIsOurs DEF CopyRound
  <2>2. /\ Len(que_send) \in Nat \ {0} /\ Last(que_send) = que_send[Len(que_send)]
        /\ Last(que_send) \in ToSet(que_send)
    BY <2>1, LastOfQueue
  <2>3. InPlace(Len(que_send))
    BY <1>1, <2>2
  <2>4. ASSUME NEW i \in 1..(Len(que_send) - 1)
        PROVE  /\ i \in 1..Len(que_send) /\ que_send[i] # Target /\ que_send[i] \in Address
               /\ Len(heap[que_send[i]].data) = MaxBuffer
    <3>1. i \in 1..Len(que_send) /\ i < Len(que_send) /\ Len(que_send) \in 1..Len(que_send)
          /\ i # Len(que_send)
      BY <2>2
    <3>2. InPlace(i)
      BY <1>1, <3>1
    <3>3. que_send[i] # que_send[Len(que_send)]
      BY <3>1 DEF HolderInv, Distinct
    <3> QED
      BY <1>3, <2>1, <2>2, <3>1, <3>2, <3>3 DEF InPlace
  <2>5. \A k \in 1..Len(Writer.data) : Writer.data[k] = queued[Start + Before(Len(que_send)) + k]
    BY <2>1, <2>2, <2>3 DEF InPlace
  <2>6. msg_send # Target
    BY <2>1, <2>2 DEF HolderInv
  <2> QED
    BY <1>1, <1>2, <2>1, <2>2, <2>4, <2>5, <2>6
<1>5. CASE NeedsMessage
  <2>1. Writer.data = <<>> /\ Target \notin ToSet(que_send) /\ Target # msg_send /\ Target \in Nat
    BY <1>0, <1>5, WriterIsOurs
  <2>2. que_send' = Append(que_send, Target)
    BY <1>5 DEF CopyRound
  <2>3. /\ que_send' \in Seq(Nat) /\ Len(que_send') = Len(que_send) + 1
        /\ que_send'[Len(que_send) + 1] = Target
        /\ \A i \in 1..Len(que_send) : que_send'[i] = que_send[i]
    BY <1>2, <2>1, <2>2
  <2>4. /\ \A i \in 1..Len(que_send) : Len(heap[que_send[i]].data) = MaxBuffer
        /\ Len(queued) = Start + Before(Len(que_send) + 1)
    <3>1. CASE que_send = <<>>
      <4>1. Len(que_send) = 0 /\ Start \in Nat
        BY <1>0, <3>1, StartType
      <4>2. Len(que_send) + 1 = 1 /\ 1..Len(que_send) = {}
        BY <4>1
      <4> QED
        BY <1>1, <3>1, <4>1, <4>2, BeforeNext
    <3>2. CASE que_send # <<>>
      <4>1. Len(que_send) \in Nat \ {0} /\ Last(que_send) = que_send[Len(que_send)]
        BY <3>2, LastOfQueue
      <4>2. InPlace(Len(que_send)) /\ Full(heap[Last(que_send)])
        BY <1>1, <1>5, <3>2, <4>1 DEF NeedsMessage
      <4>3. Len(heap[Last(que_send)].data) = MaxBuffer
        BY <4>1, <4>2 DEF InPlace, Full
      <4>4. \A i \in 1..Len(que_send) : i # Len(que_send) => Len(heap[que_send[i]].data) = MaxBuffer
        <5>1. \A i \in 1..Len(que_send) : i # Len(que_send) => i < Len(que_send)
          BY <1>0
        <5> QED
          BY <1>1, <5>1 DEF InPlace
      <4>5. Len(queued) = Start + Before(Len(que_send)) + MaxBuffer /\ Start \in Nat
        BY <1>0, <1>1, <3>2, <4>3, StartType
      <4>6. Before(Len(que_send)) \in Nat /\ Before(Len(que_send) + 1) = Before(Len(que_send)) + MaxBuffer
        BY <4>1, BeforeNext
      <4>7. Start + Before(Len(que_send)) + MaxBuffer = Start + (Before(Len(que_send)) + MaxBuffer)
        BY <4>5, <4>6, MessageAssumption
      <4> QED
        BY <4>1, <4>3, <4>4, <4>5, <4>6, <4>7
    <3> QED
      BY <3>1, <3>2
  <2>5. Len(Writer.data) = 0 /\ Len(queued) \in Nat
    BY <2>1 DEF SendTypes
  <2>6. Last(que_send') = Target /\ Len(que_send') \in Nat \ {0} /\ Len(que_send') - 1 = Len(que_send)
    BY <1>0, <2>3 DEF Last
  <2>7. Len(queued) = Start + Before(Len(que_send')) + Len(Writer.data)
    BY <2>3, <2>4, <2>5
  <2>8. 1..Len(Writer.data) = {}
    BY <2>5
  <2>9. \A i \in 1..Len(que_send) : que_send[i] # Target
    BY <1>3, <2>1
  <2> QED
    BY <1>3, <2>1, <2>3, <2>4, <2>6, <2>7, <2>8, <2>9
<1> QED
  BY <1>4, <1>5

\* A round puts its bytes at their place, and moves no others.
LEMMA PlaceRound ==
  ASSUME SendTypes, HolderInv, PlaceInv, CopyRound
  PROVE  PlaceInv'
<1> DEFINE l == Len(que_send')
           e == Len(Writer.data)
           p == Len(Piece)
<1>0. /\ alive /\ size > 0 /\ msg_send' = msg_send /\ send_len' = send_len /\ wire' = wire
      /\ queued' = queued \o Piece
  <2>1. pc \in {"head", "data"}
    BY DEF CopyRound
  <2> QED
    BY <2>1 DEF CopyRound, SendTypes
<1>1. /\ que_send' \in Seq(Nat) /\ l \in Nat \ {0}
      /\ que_send'[l] = Target /\ Last(que_send') = Target
      /\ Len(queued) = Start + Before(l) + e
      /\ \A k \in 1..e : Writer.data[k] = queued[Start + Before(l) + k]
      /\ \A i \in 1..(l - 1) :
           /\ i \in 1..Len(que_send) /\ que_send'[i] = que_send[i] /\ que_send[i] # Target
           /\ que_send[i] \in Address /\ Len(heap[que_send[i]].data) = MaxBuffer
      /\ msg_send # Target
  BY RoundContinues
<1>2. /\ Piece \in Seq(Nat) /\ p \in Nat \ {0} /\ e + p <= MaxBuffer
  BY <1>0, PieceFits
<1>3. e \in Nat /\ Writer.data \in Seq(Nat) /\ MaxBuffer \in Nat \ {0}
  BY <1>0, WriterIsOurs, MessageAssumption DEF MessageType
<1>4. /\ \A a \in Address : a # Target => heap'[a] = heap[a]
      /\ heap'[Target].data_len = MaxBuffer /\ heap'[Target].data = Writer.data \o Piece
  BY RoundWrites
<1>5. /\ Len(heap'[Target].data) = e + p
      /\ \A k \in 1..(e + p) : heap'[Target].data[k] = IF k <= e THEN Writer.data[k] ELSE Piece[k - e]
  BY <1>2, <1>3, <1>4, ConcatProperties
<1>6. /\ Len(queued) \in Nat /\ Len(queued') = Len(queued) + p
      /\ \A x \in 1..(Len(queued) + p) :
           queued'[x] = IF x <= Len(queued) THEN queued[x] ELSE Piece[x - Len(queued)]
  <2>1. queued \in Seq(Nat)
    BY DEF SendTypes
  <2> QED
    BY <1>0, <1>2, <2>1, ConcatProperties
<1>7. Start \in Nat /\ Before(l) \in Nat
  BY <1>0, <1>1, StartType, BeforeNext
<1> HIDE DEF l, e, p
<1>sizes. /\ Len(queued) = Start + Before(l) + e /\ {Start, Before(l), e, p} \subseteq Nat /\ p > 0
      /\ Len(queued) \in Nat
  BY <1>1, <1>2, <1>3, <1>6, <1>7
<1>8. msg_send # NULL => Data' = Data /\ SendingInv
  <2>1. ASSUME msg_send # NULL
        PROVE  heap'[msg_send] = heap[msg_send]
    <3>1. msg_send \in Address
      BY <2>1 DEF SendTypes
    <3> QED
      BY <1>1, <1>4, <3>1
  <2> QED
    BY <1>0, <2>1 DEF Data, PlaceInv
<1>9. Start' = Start
  BY <1>0, <1>8 DEF Start
<1>10. ASSUME msg_send # NULL
       PROVE  SendingInv'
  <2>1. SendingInv /\ Data' = Data /\ Start = (Len(wire) - send_len) + Len(Data)
    BY <1>8, <1>10 DEF Start
  <2>2. Len(Data) \in Nat /\ Len(wire) \in Nat /\ send_len \in Nat /\ send_len <= Len(wire)
    <3>1. wire \in Seq(Nat) /\ send_len \in Nat
      BY DEF SendTypes
    <3>2. Len(Data) \in Nat
      BY <1>10, <2>1, RestOfMessage
    <3> QED
      BY <2>1, <3>1, <3>2 DEF SendingInv
  <2>3. Start <= Len(queued)
    BY <1>1, <1>3, <1>7
  <2>4. ASSUME NEW k \in 1..Len(Data)
        PROVE  Data[k] = queued'[(Len(wire) - send_len) + k]
    <3>1. Data[k] = queued[(Len(wire) - send_len) + k]
      BY <2>1 DEF SendingInv
    <3>2. (Len(wire) - send_len) + k \in 1..(Len(queued) + p) /\ (Len(wire) - send_len) + k <= Len(queued)
      BY <1>2, <1>6, <1>7, <2>1, <2>2, <2>3
    <3> QED
      BY <1>6, <3>1, <3>2
  <2> QED
    BY <1>0, <2>1, <2>4 DEF SendingInv
<1>11. ASSUME NEW i \in 1..l
       PROVE  LET m == heap'[que_send'[i]] IN
                /\ m.data_len = MaxBuffer /\ Len(m.data) \in 1..MaxBuffer
                /\ i < l => Len(m.data) = MaxBuffer
                /\ \A k \in 1..Len(m.data) : m.data[k] = queued'[Start + Before(i) + k]
  <2>1. CASE i = l
    <3>1. Len(heap'[Target].data) \in 1..MaxBuffer
      BY <1>2, <1>3, <1>5
    <3>2. ASSUME NEW k \in 1..(e + p)
          PROVE  heap'[Target].data[k] = queued'[Start + Before(l) + k]
      <4> DEFINE x == Start + Before(l) + k
      <4>1. x \in 1..(Len(queued) + p) /\ k \in Nat
        BY <1>sizes
      <4>2. CASE k <= e
        <5>1. k \in 1..e /\ x <= Len(queued)
          BY <1>sizes, <4>2
        <5>2. queued'[x] = queued[x]
          BY <1>6, <4>1, <5>1
        <5>3. Writer.data[k] = queued[x]
          BY <1>1, <5>1
        <5> QED
          BY <1>5, <4>2, <5>2, <5>3
      <4>3. CASE ~(k <= e)
        <5>1. ~(x <= Len(queued)) /\ x - Len(queued) = k - e
          BY <1>sizes, <4>3
        <5>2. queued'[x] = Piece[x - Len(queued)]
          BY <1>6, <4>1, <5>1
        <5> QED
          BY <1>5, <4>3, <5>1, <5>2
      <4> QED
        BY <4>2, <4>3
    <3>3. que_send'[i] = Target /\ ~(i < l)
      BY <1>1, <2>1
    <3>4. \A k \in 1..Len(heap'[Target].data) :
            heap'[Target].data[k] = queued'[Start + Before(i) + k]
      BY <1>5, <2>1, <3>2
    <3> QED
      BY <1>4, <3>1, <3>3, <3>4
  <2>2. CASE i # l
    <3>1. i \in 1..(l - 1) /\ i < l /\ i \in Nat \ {0}
      BY <1>1, <2>2
    <3>2. /\ que_send'[i] = que_send[i] /\ que_send[i] # Target /\ que_send[i] \in Address
          /\ Len(heap[que_send[i]].data) = MaxBuffer /\ InPlace(i)
      BY <1>0, <1>1, <3>1 DEF PlaceInv
    <3>3. heap'[que_send'[i]] = heap[que_send[i]]
      BY <1>4, <3>2
    <3>4. Before(i) \in Nat /\ Before(i) + MaxBuffer <= Before(l)
      BY <1>1, <3>1, BeforeLater
    <3>5. ASSUME NEW k \in 1..MaxBuffer
          PROVE  heap[que_send[i]].data[k] = queued'[Start + Before(i) + k]
      <4> DEFINE x == Start + Before(i) + k
      <4>1. x \in 1..(Len(queued) + p) /\ x <= Len(queued)
        <5>1. k \in 1..MaxBuffer /\ MaxBuffer \in Nat /\ Start + Before(i) + MaxBuffer <= Len(queued)
          BY <1>3, <1>sizes, <3>4
        <5>2. Start \in Nat /\ Before(i) \in Nat /\ k \in Nat /\ k > 0 /\ k <= MaxBuffer
              /\ Len(queued) \in Nat /\ p \in Nat
          BY <1>sizes, <3>4, <5>1
        <5>3. x \in Nat /\ x > 0 /\ x <= Len(queued)
          BY <5>1, <5>2
        <5> QED
          BY <5>2, <5>3
      <4>2. heap[que_send[i]].data[k] = queued[x]
        BY <3>2 DEF InPlace
      <4> HIDE DEF x
      <4>3. queued'[x] = queued[x]
        BY <1>6, <4>1
      <4> QED
        BY <4>2, <4>3 DEF x
    <3> QED
      BY <1>3, <3>2, <3>3, <3>5 DEF InPlace
  <2> QED
    BY <2>1, <2>2
<1>12. \A i \in 1..Len(que_send') : InPlace(i)'
  BY <1>9, <1>11 DEF l, InPlace, Before
<1>13. Len(queued') = Start' + Before(l) + Len(heap'[Last(que_send')].data) /\ que_send' # <<>>
  <2>1. Len(queued') = Start + Before(l) + (e + p)
    BY <1>1, <1>2, <1>3, <1>6, <1>7
  <2>2. que_send' # <<>>
    BY <1>1 DEF l
  <2> QED
    BY <1>1, <1>5, <1>9, <2>1, <2>2
<1> QED
  BY <1>0, <1>10, <1>12, <1>13 DEF PlaceInv, l, Before

\* What the queue holds was queued.
LEMMA StartWithin ==
  ASSUME SendTypes, PlaceInv, alive
  PROVE  Start \in Nat /\ Start <= Len(queued) /\ (NothingQueued => Len(wire) = Len(queued))
<1>1. Start \in Nat /\ Len(queued) \in Nat
  BY StartType DEF SendTypes
<1>2. CASE que_send = <<>>
  BY <1>1, <1>2 DEF PlaceInv, Start, NothingQueued
<1>3. CASE que_send # <<>>
  <2>1. Len(que_send) \in Nat \ {0} /\ heap[Last(que_send)] \in MessageType
    BY <1>3, LastOfQueue
  <2>2. Before(Len(que_send)) \in Nat /\ Len(heap[Last(que_send)].data) \in Nat
    <3>1. heap[Last(que_send)].data \in Seq(Nat)
      BY <2>1 DEF MessageType
    <3>2. Len(heap[Last(que_send)].data) \in Nat
      BY <3>1, LenProperties
    <3>3. Before(Len(que_send)) \in Nat
      BY <2>1, BeforeNext
    <3> QED
      BY <3>2, <3>3
  <2>3. Len(queued) = Start + Before(Len(que_send)) + Len(heap[Last(que_send)].data)
    BY <1>3 DEF PlaceInv
  <2> QED
    BY <1>1, <1>3, <2>2, <2>3 DEF NothingQueued
<1> QED
  BY <1>2, <1>3

\* Whatever part of the Message goes out continues what is on the wire.
LEMMA SentContinues ==
  ASSUME SendTypes, PlaceInv, WireInv, alive, msg_send # NULL,
         NEW part \in Seq(Nat), Len(part) \in 1..Len(Rest),
         \A k \in 1..Len(part) : part[k] = Rest[k]
  PROVE  LET w == wire \o part IN
           /\ Len(w) = Len(wire) + Len(part) /\ Len(w) <= Len(queued)
           /\ \A k \in 1..Len(w) : w[k] = queued[k]
<1> DEFINE w == wire \o part
<1>1. SendingInv
  BY DEF PlaceInv
<1>2. /\ Len(Rest) \in Nat /\ Len(Data) \in Nat /\ Len(Rest) = Len(Data) - send_len
      /\ \A k \in 1..Len(Rest) : Rest[k] = Data[send_len + k]
  BY <1>1, RestOfMessage
<1>3. wire \in Seq(Nat) /\ Len(wire) \in Nat /\ send_len \in Nat /\ send_len <= Len(wire)
  BY <1>1 DEF SendTypes, SendingInv
<1>4. /\ Len(w) = Len(wire) + Len(part) /\ Len(part) \in Nat
      /\ \A k \in 1..(Len(wire) + Len(part)) : w[k] = IF k <= Len(wire) THEN wire[k] ELSE part[k - Len(wire)]
  BY <1>3, ConcatProperties
<1> HIDE DEF w
<1>5. (Len(wire) - send_len) + Len(Data) <= Len(queued) /\ Len(queued) \in Nat
  BY StartWithin DEF Start, SendTypes
<1>6. ASSUME NEW k \in 1..Len(w)
      PROVE  w[k] = queued[k]
  <2>1. CASE k <= Len(wire)
    <3>1. k \in 1..(Len(wire) + Len(part)) /\ k \in 1..Len(wire)
      BY <1>3, <1>4, <2>1
    <3>2. w[k] = wire[k]
      BY <1>4, <2>1, <3>1
    <3>3. wire[k] = queued[k]
      BY <3>1 DEF WireInv
    <3> QED
      BY <3>2, <3>3
  <2>2. CASE ~(k <= Len(wire))
    <3> DEFINE j == k - Len(wire)
    <3>1. j \in 1..Len(part) /\ j \in 1..Len(Rest) /\ j \in Nat
      BY <1>2, <1>3, <1>4, <2>2
    <3>2. send_len + j \in 1..Len(Data) /\ (Len(wire) - send_len) + (send_len + j) = k
      BY <1>2, <1>3, <1>4, <3>1
    <3>3. w[k] = part[j]
      BY <1>4, <2>2
    <3> HIDE DEF j
    <3>4. w[k] = Data[send_len + j]
      BY <1>2, <3>1, <3>3
    <3>5. Data[send_len + j] = queued[(Len(wire) - send_len) + (send_len + j)]
      BY <1>1, <3>2 DEF SendingInv
    <3> QED
      BY <3>2, <3>4, <3>5
  <2> QED
    BY <2>1, <2>2
<1>7. Len(w) <= Len(queued)
  BY <1>2, <1>3, <1>4, <1>5
<1> QED
  BY <1>4, <1>6, <1>7 DEF w

\* What send() takes of a Message.
LEMMA SentPart ==
  ASSUME SendTypes, PlaceInv, alive, msg_send # NULL, SendFull \/ SendPart
  PROVE  \E part \in Seq(Nat) :
           /\ wire' = wire \o part
           /\ Len(part) \in 1..Len(Rest) /\ \A k \in 1..Len(part) : part[k] = Rest[k]
           /\ SendFull => Len(part) = Len(Rest) /\ msg_send' = NULL
           /\ SendPart => Len(part) < Len(Rest) /\ send_len' = send_len + Len(part) /\ msg_send' = msg_send
<1>1. Rest \in Seq(Nat) /\ Len(Rest) \in Nat \ {0}
  BY RestOfMessage DEF PlaceInv
<1>2. ASSUME SendFull
      PROVE  wire' = wire \o Rest /\ msg_send' = NULL
  BY <1>2 DEF SendFull, Free
<1>3. ~(SendFull /\ SendPart)
  <2>1. SendFull => pc' = "loop"
    BY DEF SendFull, flags
  <2>2. SendPart => pc' = "idle"
    BY DEF SendPart
  <2> QED
    BY <2>1, <2>2
<1>4. CASE SendFull
  <2>1. Len(Rest) \in 1..Len(Rest)
    BY <1>1
  <2> QED
    BY <1>1, <1>2, <1>3, <1>4, <2>1
<1>5. CASE SendPart
  <2>1. PICK n \in 1..(Len(Rest) - 1) : wire' = wire \o SubSeq(Rest, 1, n) /\ send_len' = send_len + n
    BY <1>5 DEF SendPart, RememberPart
  <2> DEFINE part == SubSeq(Rest, 1, n)
  <2>2. part \in Seq(Nat) /\ Len(part) = n /\ \A k \in 1..n : part[k] = Rest[k]
    <3>1. /\ \A k \in 1..n : Rest[k] \in Nat
          /\ n \in Nat /\ 1 <= n /\ n - 1 + 1 = n /\ \A k \in Nat : 1 + k - 1 = k
      BY <1>1, ElementOfSeq
    <3> QED
      BY <3>1, SubSeqProperties
  <2>3. n < Len(Rest) /\ n \in 1..Len(Rest)
    BY <1>1
  <2>4. msg_send' = msg_send
    BY <1>5 DEF SendPart
  <2> HIDE DEF part
  <2> QED
    BY <1>3, <1>5, <2>1, <2>2, <2>3, <2>4 DEF part
<1> QED
  BY <1>4, <1>5

\* The front Message leaves the queue at the place where it goes out, and the others move up.
LEMMA PlaceNext ==
  ASSUME SendTypes, HolderInv, PlaceInv, NextMessage, ~NothingToTake
  PROVE  PlaceInv'
<1> DEFINE l == Len(que_send)
           d == heap[que_send[1]].data
<1>0. /\ alive /\ msg_send = NULL /\ wire' = wire /\ queued' = queued /\ heap' = heap
      /\ msg_send' = Head(que_send) /\ que_send' = Tail(que_send) /\ send_len' = 0
      /\ que_send # <<>>
  <2>1. pc = "loop" /\ que_send # <<>>
    BY DEF NextMessage, NothingToTake
  <2> QED
    BY <2>1 DEF NextMessage, TakeFront, SendTypes, pool, history
<1>1. /\ que_send \in Seq(Address) /\ Len(wire) \in Nat /\ NULL \notin Address
      /\ heap \in Seq(MessageType)
  <2>1. wire \in Seq(Nat)
    BY DEF SendTypes
  <2> QED
    BY <2>1 DEF SendTypes, Address, NULL
<1>2. /\ Tail(que_send) \in Seq(Address) /\ l \in Nat \ {0} /\ Len(Tail(que_send)) = l - 1
      /\ \A i \in 1..(l - 1) : Tail(que_send)[i] = que_send[i + 1]
  BY <1>0, <1>1, TailDistinct DEF HolderInv
<1>3. msg_send' = que_send[1] /\ msg_send' # NULL /\ Data' = d
  <2>1. 1 \in 1..l /\ que_send[1] = Head(que_send)
    BY <1>1, <1>2
  <2>2. que_send[1] \in Address
    BY <1>1, <2>1
  <2> QED
    BY <1>0, <1>1, <2>1, <2>2 DEF Data
<1>4. Start = Len(wire)
  BY <1>0 DEF Start
<1>5. /\ \A i \in 1..l : InPlace(i)
      /\ Len(queued) = Len(wire) + Before(l) + Len(heap[Last(que_send)].data)
  BY <1>0, <1>4 DEF PlaceInv
<1>6. /\ Len(d) \in 1..MaxBuffer /\ (1 < l => Len(d) = MaxBuffer)
      /\ \A k \in 1..Len(d) : d[k] = queued[Len(wire) + k]
  <2>1. 1 \in 1..l
    BY <1>2
  <2>2. InPlace(1)
    BY <1>5, <2>1
  <2>3. Len(d) \in 1..MaxBuffer /\ (1 < l => Len(d) = MaxBuffer)
        /\ \A k \in 1..Len(d) : d[k] = queued[Len(wire) + Before(1) + k]
    BY <1>4, <2>2 DEF InPlace
  <2>4. Before(1) = 0 /\ Len(wire) + 0 = Len(wire)
    BY <1>1, BeforeNext
  <2> QED
    BY <2>3, <2>4
<1>7. Start' = Len(wire) + Len(d)
  BY <1>0, <1>1, <1>3, <1>6 DEF Start
<1>8. SendingInv'
  <2>1. send_len' < Len(d) /\ send_len' <= Len(wire) /\ Len(wire) - send_len' = Len(wire)
    BY <1>0, <1>1, <1>6, MessageAssumption
  <2> QED
    BY <1>0, <1>3, <1>6, <2>1 DEF SendingInv
<1>9. CASE l = 1
  <2>1. que_send' = <<>> /\ 1..Len(que_send') = {}
    BY <1>0, <1>2, <1>9
  <2>2. Last(que_send) = que_send[1] /\ Before(l) = 0
    BY <1>9, BeforeNext DEF Last
  <2>3. Len(queued') = Start'
    BY <1>0, <1>1, <1>5, <1>6, <1>7, <2>2
  <2> QED
    BY <1>8, <2>1, <2>3 DEF PlaceInv
<1>10. CASE l # 1
  <2>1. Len(d) = MaxBuffer /\ MaxBuffer \in Nat /\ 1 < l
    BY <1>2, <1>6, <1>10, MessageAssumption
  <2>2. ASSUME NEW i \in 1..(l - 1)
        PROVE  LET m == heap[que_send[i + 1]] IN
                 /\ m.data_len = MaxBuffer /\ Len(m.data) \in 1..MaxBuffer
                 /\ i < l - 1 => Len(m.data) = MaxBuffer
                 /\ \A k \in 1..Len(m.data) : m.data[k] = queued[Start' + Before(i) + k]
    <3>1. i + 1 \in 1..l /\ i \in Nat \ {0} /\ (i < l - 1 => i + 1 < l)
      BY <1>2
    <3>2. InPlace(i + 1)
      BY <1>5, <3>1
    <3>3. Before(i) \in Nat /\ Before(i + 1) = Before(i) + MaxBuffer
      BY <3>1, BeforeNext
    <3>4. \A k \in Nat : Start + Before(i + 1) + k = Start' + Before(i) + k
      BY <1>1, <1>4, <1>7, <2>1, <3>3
    <3> QED
      BY <2>1, <3>1, <3>2, <3>4 DEF InPlace
  <2>3. que_send' = Tail(que_send) /\ Len(que_send') = l - 1 /\ que_send' # <<>>
        /\ l - 1 \in Nat \ {0}
    <3>1. que_send' = Tail(que_send) /\ Len(que_send') = l - 1
      BY <1>0, <1>2
    <3>2. l - 1 \in Nat \ {0}
      <4>1. l \in Nat /\ 1 < l
        BY <1>2, <2>1
      <4> HIDE DEF l
      <4> QED
        BY <4>1
    <3>3. que_send' # <<>>
      <4>1. Len(que_send') # 0
        BY <3>1, <3>2
      <4> QED
        BY <4>1
    <3> QED
      BY <3>1, <3>2, <3>3
  <2>4. \A i \in 1..Len(que_send') : que_send'[i] = que_send[i + 1]
    BY <1>2, <2>3
  <2>5. ASSUME NEW i \in 1..Len(que_send')
        PROVE  InPlace(i)'
    <3>1. i \in 1..(l - 1) /\ que_send'[i] = que_send[i + 1] /\ Len(que_send') = l - 1
      BY <2>3, <2>4
    <3>2. heap'[que_send'[i]] = heap[que_send[i + 1]]
      BY <1>0, <3>1
    <3> QED
      BY <1>0, <2>2, <3>1, <3>2 DEF InPlace, Before
  <2>6. Last(que_send') = Last(que_send)
    <3>1. l - 1 \in 1..(l - 1) /\ (l - 1) + 1 = l
      BY <2>3
    <3> QED
      BY <1>2, <2>3, <2>4, <3>1 DEF Last
  <2>7. Len(queued') = Start' + Before(l - 1) + Len(heap'[Last(que_send')].data)
    <3>1. Before(l - 1) \in Nat /\ Before(l) = Before(l - 1) + MaxBuffer
      <4>1. (l - 1) + 1 = l
        BY <1>2
      <4> QED
        BY <2>3, <4>1, BeforeNext
    <3>2. Len(wire) + Before(l) = Start' + Before(l - 1)
      BY <1>1, <1>7, <2>1, <3>1
    <3> QED
      BY <1>0, <1>5, <2>6, <3>2
  <2> QED
    BY <1>8, <2>3, <2>5, <2>7 DEF PlaceInv, Before
<1> QED
  BY <1>9, <1>10

\* What send() takes leaves the rest where it is.
LEMMA PlaceSent ==
  ASSUME SendTypes, PlaceInv, WireInv, SendFull \/ SendPart
  PROVE  PlaceInv'
<1>0. /\ alive /\ msg_send # NULL /\ heap' = heap /\ que_send' = que_send /\ queued' = queued
      /\ alive' = alive
  BY DEF SendFull, SendPart, SendTypes, pool, flags
<1>1. SendingInv /\ send_len \in Nat /\ Len(wire) \in Nat /\ wire \in Seq(Nat)
  BY <1>0 DEF PlaceInv, SendTypes
<1>2. Len(Data) \in Nat /\ Len(Rest) = Len(Data) - send_len /\ send_len < Len(Data) /\ send_len <= Len(wire)
  BY <1>0, <1>1, RestOfMessage DEF SendingInv
<1>3. PICK part \in Seq(Nat) :
           /\ wire' = wire \o part
           /\ Len(part) \in 1..Len(Rest) /\ \A k \in 1..Len(part) : part[k] = Rest[k]
           /\ SendFull => Len(part) = Len(Rest) /\ msg_send' = NULL
           /\ SendPart => Len(part) < Len(Rest) /\ send_len' = send_len + Len(part) /\ msg_send' = msg_send
  BY <1>0, SentPart
<1>4. Len(wire') = Len(wire) + Len(part) /\ Len(part) \in Nat
  BY <1>1, <1>3, ConcatProperties
<1>5. Start = (Len(wire) - send_len) + Len(Data)
  BY <1>0 DEF Start
<1>6. Start' = Start /\ (msg_send' # NULL => SendingInv')
  <2>1. CASE SendFull
    <3>1. Start' = Len(wire') /\ msg_send' = NULL
      BY <1>3, <2>1 DEF Start
    <3>2. Len(part) = Len(Data) - send_len
      BY <1>2, <1>3, <2>1
    <3>3. Len(wire') = (Len(wire) - send_len) + Len(Data)
      <4>1. /\ Len(wire) \in Nat /\ send_len \in Nat /\ Len(Data) \in Nat
            /\ Len(wire') = Len(wire) + (Len(Data) - send_len)
        BY <1>1, <1>2, <1>4, <3>2
      <4> QED
        BY <4>1
    <3> QED
      BY <1>5, <3>1, <3>3
  <2>2. CASE SendPart
    <3>1. Data' = Data /\ msg_send' = msg_send
      BY <1>0, <1>3, <2>2 DEF Data
    <3>2. Len(wire') - send_len' = Len(wire) - send_len /\ send_len' < Len(Data) /\ send_len' <= Len(wire')
      BY <1>1, <1>2, <1>3, <1>4, <2>2
    <3>3. SendingInv'
      BY <1>0, <1>1, <3>1, <3>2 DEF SendingInv
    <3>4. Start' = (Len(wire') - send_len') + Len(Data)
      BY <1>0, <3>1 DEF Start
    <3> QED
      BY <1>5, <3>2, <3>3, <3>4
  <2> QED
    BY <2>1, <2>2
<1>7. \A i \in 1..Len(que_send') : InPlace(i)'
  BY <1>0, <1>6 DEF PlaceInv, InPlace, Before
<1> QED
  BY <1>0, <1>6, <1>7 DEF PlaceInv, Before

\* Every byte inside the session stays where it belongs.
LEMMA PlaceStep == SendTypes /\ HolderInv /\ PlaceInv /\ WireInv /\ [Next]_vars => PlaceInv'
<1> SUFFICES ASSUME SendTypes, HolderInv, PlaceInv, WireInv, [Next]_vars
             PROVE  PlaceInv'
  OBVIOUS
<1>1. ASSUME UNCHANGED <<heap, que_send, msg_send, send_len, alive, queued, wire>>
      PROVE  PlaceInv'
  <2>1. Data' = Data /\ Start' = Start
    BY <1>1 DEF Data, Start
  <2> QED
    BY <1>1, <2>1 DEF PlaceInv, SendingInv, InPlace, Before
<1>2. CASE Send \/ CopyDone \/ Disconnect \/ Writable \/ PostSendIdle \/ PostSend
           \/ SendWouldBlock \/ SendFails \/ UNCHANGED vars
  BY <1>1, <1>2 DEF Send, CopyDone, Disconnect, Writable, PostSendIdle, PostSend, SendWouldBlock,
              SendFails, vars, pool, sending, flags, history
<1>3. CASE NextMessage
  <2>1. CASE NothingToTake
    BY <1>1, <1>3, <2>1 DEF NextMessage, pool, sending, history
  <2> QED
    BY <1>3, <2>1, PlaceNext
<1>4. CASE Destroy
  BY <1>4 DEF Destroy, PlaceInv
<1> QED
  BY <1>2, <1>3, <1>4, PlaceRound, PlaceSent DEF Next

\* What is on the wire stays the beginning of what was queued.
LEMMA WireStep == SendTypes /\ HolderInv /\ PlaceInv /\ WireInv /\ [Next]_vars => WireInv'
<1> SUFFICES ASSUME SendTypes, HolderInv, PlaceInv, WireInv, [Next]_vars
             PROVE  WireInv'
  OBVIOUS
<1>1. CASE CopyRound
  <2>1. alive /\ size > 0 /\ wire' = wire /\ queued' = queued \o Piece
    <3>1. pc \in {"head", "data"}
      BY <1>1 DEF CopyRound
    <3> QED
      BY <1>1, <3>1 DEF CopyRound, SendTypes
  <2>2. Piece \in Seq(Nat) /\ queued \in Seq(Nat) /\ Len(wire) \in Nat
    BY <2>1, PieceFits DEF SendTypes
  <2>3. /\ Len(queued') = Len(queued) + Len(Piece) /\ Len(queued) \in Nat /\ Len(Piece) \in Nat
        /\ \A k \in 1..(Len(queued) + Len(Piece)) : k <= Len(queued) => queued'[k] = queued[k]
    BY <2>1, <2>2, ConcatProperties
  <2>4. \A k \in 1..Len(wire) : k \in 1..(Len(queued) + Len(Piece)) /\ k <= Len(queued)
    BY <2>2, <2>3 DEF WireInv
  <2> QED
    BY <2>1, <2>2, <2>3, <2>4 DEF WireInv
<1>2. CASE SendFull \/ SendPart
  <2>1. alive /\ msg_send # NULL /\ queued' = queued
    BY <1>2 DEF SendFull, SendPart, SendTypes
  <2>2. PICK part \in Seq(Nat) : /\ wire' = wire \o part /\ Len(part) \in 1..Len(Rest)
                                 /\ \A k \in 1..Len(part) : part[k] = Rest[k]
    BY <1>2, <2>1, SentPart
  <2> QED
    BY <2>1, <2>2, SentContinues DEF WireInv
<1>3. CASE Send \/ CopyDone \/ Disconnect \/ Writable \/ PostSendIdle \/ PostSend \/ NextMessage
           \/ SendWouldBlock \/ SendFails \/ Destroy \/ UNCHANGED vars
  BY <1>3 DEF Send, CopyDone, Disconnect, Writable, PostSendIdle, PostSend, NextMessage,
              SendWouldBlock, SendFails, Destroy, WireInv, vars, history
<1> QED
  BY <1>1, <1>2, <1>3 DEF Next

\* No byte is accepted that Send does not copy, and none is copied twice.
LEMMA CountStep ==
  SendTypes /\ HolderInv /\ PlaceInv /\ CountInv /\ [Next]_vars => CountInv'
<1> SUFFICES ASSUME SendTypes, HolderInv, PlaceInv, CountInv, [Next]_vars
             PROVE  CountInv'
  OBVIOUS
<1>0. /\ accepted \in Seq(Nat) /\ queued \in Seq(Nat) /\ body \in Seq(Nat) /\ size \in Nat
      /\ Len(accepted) \in Nat /\ Len(queued) \in Nat /\ Len(body) \in Nat
      /\ Len(accepted) = Len(queued) + size + Len(body)
  BY DEF SendTypes, CountInv
<1>1. CASE Send
  <2>1. PICK n \in DataLens : /\ data' = [i \in 1..Hdr |-> Len(accepted) + i]
                              /\ body' = [i \in 1..n |-> Len(accepted) + Hdr + i]
                              /\ accepted' = accepted \o data' \o body'
    BY <1>1 DEF Send
  <2>2. n \in Nat /\ Hdr \in Nat
    BY SendQueueAssumption
  <2>3. data' \in Seq(Nat) /\ Len(data') = Hdr /\ body' \in Seq(Nat) /\ Len(body') = n
    BY <1>0, <2>1, <2>2
  <2> DEFINE head == accepted \o data'
  <2>4. head \in Seq(Nat) /\ Len(head) = Len(accepted) + Hdr
    BY <1>0, <2>3, ConcatProperties
  <2>5. Len(accepted') = Len(accepted) + Hdr + n
    <3>1. accepted' = head \o body'
      BY <2>1
    <3> HIDE DEF head
    <3>2. Len(head \o body') = Len(head) + Len(body')
      BY <2>3, <2>4, ConcatProperties
    <3> QED
      BY <2>3, <2>4, <3>1, <3>2
  <2>6. size' = Hdr /\ queued' = queued /\ size = 0 /\ Len(body) = 0
    <3>1. pc = "idle" /\ size' = Hdr /\ queued' = queued
      BY <1>1 DEF Send
    <3>2. size = 0 /\ body = <<>>
      BY <3>1 DEF SendTypes
    <3> QED
      BY <3>1, <3>2
  <2> QED
    BY <1>0, <2>2, <2>3, <2>5, <2>6 DEF CountInv
<1>2. CASE CopyRound
  <2>1. alive /\ size > 0 /\ size' = size - Len(Piece) /\ queued' = queued \o Piece
        /\ accepted' = accepted /\ body' = body
    <3>1. pc \in {"head", "data"}
      BY <1>2 DEF CopyRound
    <3> QED
      BY <1>2, <3>1 DEF CopyRound, SendTypes
  <2>2. Piece \in Seq(Nat) /\ Len(Piece) \in Nat /\ Len(Piece) <= size
    BY <2>1, PieceFits
  <2>3. Len(queued') = Len(queued) + Len(Piece)
    BY <1>0, <2>1, <2>2, ConcatProperties
  <2>4. Len(queued') + size' = Len(queued) + size
    BY <1>0, <2>1, <2>2, <2>3
  <2> QED
    BY <1>0, <2>1, <2>4 DEF CountInv
<1>3. CASE CopyDone
  <2>1. size = 0 /\ size' = Len(body) /\ Len(body') = 0 /\ queued' = queued /\ accepted' = accepted
    BY <1>3 DEF CopyDone, history
  <2> QED
    BY <1>0, <2>1 DEF CountInv
<1>4. CASE SendFull \/ SendPart
  BY <1>4 DEF SendFull, SendPart, CountInv, copying
<1>5. CASE Disconnect \/ Writable \/ PostSendIdle \/ PostSend \/ NextMessage
           \/ SendWouldBlock \/ SendFails \/ Destroy \/ UNCHANGED vars
  BY <1>5 DEF Disconnect, Writable, PostSendIdle, PostSend, NextMessage, SendWouldBlock, SendFails,
              Destroy, CountInv, vars, copying, history
<1> QED
  BY <1>1, <1>2, <1>3, <1>4, <1>5 DEF Next

\* The whole invariant holds at the start.
LEMMA InvariantInit == Init => SendInv
<1> SUFFICES ASSUME Init
             PROVE  SendInv
  OBVIOUS
<1>1. SendTypes
  <2>1. /\ heap \in Seq(MessageType) /\ recycle \in Seq(Address) /\ que_send \in Seq(Address)
        /\ data \in Seq(Nat) /\ body \in Seq(Nat) /\ size = 0 /\ size <= Len(data)
        /\ accepted \in Seq(Nat) /\ queued \in Seq(Nat) /\ wire \in Seq(Nat)
    BY DEF Init
  <2>2. /\ msg_send = NULL /\ send_len = 0 /\ wr_ready = TRUE /\ disconnect = FALSE
        /\ send_over = FALSE /\ alive = TRUE /\ status = "RUNNING" /\ pc = "idle" /\ body = <<>>
    BY DEF Init
  <2> QED
    BY <2>1, <2>2 DEF SendTypes
<1>2. HolderInv
  BY DEF Init, HolderInv, Distinct, ToSet
<1>3. PlaceInv
  BY DEF Init, PlaceInv, Start
<1>4. WireInv /\ CountInv
  BY DEF Init, WireInv, CountInv
<1> QED
  BY <1>1, <1>2, <1>3, <1>4 DEF SendInv

\* Every step keeps the whole invariant.
LEMMA InvariantStep == SendInv /\ [Next]_vars => SendInv'
  BY TypesStep, HolderStep, PlaceStep, WireStep, CountStep DEF SendInv

\* The invariant holds in every behaviour: this is what the theorems below follow from.
THEOREM SendInvariant == Spec => []SendInv
  BY InvariantInit, InvariantStep, PTL DEF Spec
-----------------------------------------------------------------------------
(* What the runs check, for every value of the constants. *)

\* A Message, the queue, the pool and _msg_send keep their types.
THEOREM SendTyping == Spec => []TypeOK
<1>1. SendInv => TypeOK
  <2> SUFFICES ASSUME SendTypes
               PROVE  TypeOK
    BY DEF SendInv
  <2>1. ASSUME NEW a \in Address
        PROVE  IsMessage(heap[a])
    <3>1. heap[a] \in MessageType
      BY DEF SendTypes, Address
    <3> QED
      BY <3>1 DEF MessageType, IsMessage
  <2> QED
    BY <2>1 DEF SendTypes, TypeOK
<1> QED
  BY <1>1, SendInvariant, PTL

\* A Message is free, queued or being sent, never two of these: no Send overwrites bytes on their
\* way out.
THEOREM HoldersOnce == Spec => []OneHolder
<1>1. SendInv => OneHolder
  <2> SUFFICES ASSUME SendTypes, HolderInv
               PROVE  OneHolder
    BY DEF SendInv
  <2> DEFINE T == Address \cup {NULL}
             sent == IF msg_send = NULL THEN <<>> ELSE <<msg_send>>
             both == recycle \o que_send
  <2>1. recycle \in Seq(T) /\ que_send \in Seq(T) /\ msg_send \in T
    <3>1. recycle \in Seq(Address) /\ que_send \in Seq(Address) /\ msg_send \in T
      BY DEF SendTypes
    <3> QED
      BY <3>1, ElementOfSeq
  <2>2. both \in Seq(T) /\ Distinct(both) /\ ToSet(both) = ToSet(recycle) \cup ToSet(que_send)
    BY <2>1, ConcatDistinct, ConcatSet DEF HolderInv
  <2>3. sent \in Seq(T) /\ Distinct(sent)
    <3>1. CASE msg_send = NULL
      <4>1. sent = <<>>
        BY <3>1
      <4> HIDE DEF sent
      <4> QED
        BY <4>1 DEF Distinct
    <3>2. CASE msg_send # NULL
      <4>1. sent = <<msg_send>>
        BY <3>2
      <4> HIDE DEF sent, T
      <4>2. Len(sent) = 1 /\ sent \in Seq(T)
        BY <2>1, <4>1
      <4> QED
        BY <4>2 DEF Distinct
    <3> QED
      BY <3>1, <3>2
  <2>4. ToSet(both) \cap ToSet(sent) = {}
    <3>1. ToSet(sent) \subseteq {msg_send}
      BY <2>1 DEF ToSet
    <3> QED
      BY <2>2, <3>1 DEF HolderInv
  <2> HIDE DEF T, sent, both
  <2>5. both \o sent \in Seq(T) /\ Distinct(both \o sent)
    BY <2>2, <2>3, <2>4, ConcatDistinct, ConcatProperties
  <2>6. Holders = both \o sent
    BY DEF Holders, both, sent
  <2>7. DOMAIN Holders = 1..Len(Holders)
    BY <2>5, <2>6, LenProperties
  <2> QED
    BY <2>5, <2>6, <2>7 DEF OneHolder, IsInjective, Distinct
<1> QED
  BY <1>1, SendInvariant, PTL

\* A sequence that agrees with a longer one wherever it has a place is a prefix of it.
LEMMA PrefixByPlaces ==
  ASSUME NEW s \in Seq(Nat), NEW t \in Seq(Nat), Len(s) <= Len(t),
         \A k \in 1..Len(s) : s[k] = t[k]
  PROVE  IsPrefix(s, t)
<1> DEFINE n == Len(s)
           u == SubSeq(t, 1, n)
<1>1. n \in Nat /\ \A k \in 1..n : t[k] \in Nat /\ 1 + k - 1 = k
  BY ElementOfSeq
<1>2. u \in Seq(Nat) /\ Len(u) = (IF 1 <= n THEN n - 1 + 1 ELSE 0) /\ \A k \in 1..(n - 1 + 1) : u[k] = t[1 + k - 1]
  BY <1>1, SubSeqProperties
<1> HIDE DEF u
<1>3. Len(u) = n /\ \A k \in 1..n : u[k] = s[k]
  <2>1. n - 1 + 1 = n /\ (IF 1 <= n THEN n - 1 + 1 ELSE 0) = n
    BY <1>1
  <2> QED
    BY <1>1, <1>2, <2>1
<1>4. u = s
  BY <1>2, <1>3, SeqEqual
<1> QED
  BY <1>4, SubSeqFull DEF IsPrefix, u

\* A sequence is a prefix of itself with more at its end, and another one if that is not empty.
LEMMA PrefixOfConcat ==
  ASSUME NEW s \in Seq(Nat), NEW t \in Seq(Nat), Len(t) # 0
  PROVE  IsStrictPrefix(s, s \o t)
<1> DEFINE c == s \o t
<1>1. c \in Seq(Nat) /\ Len(c) = Len(s) + Len(t) /\ \A k \in 1..Len(s) : c[k] = s[k]
  BY ConcatProperties
<1> HIDE DEF c
<1>2. Len(s) <= Len(c) /\ Len(s) # Len(c)
  BY <1>1
<1>3. IsPrefix(s, c) /\ s # c
  BY <1>1, <1>2, PrefixByPlaces
<1> QED
  BY <1>3 DEF IsStrictPrefix, c

\* Sending is a stream: what send() takes is, at any moment, a prefix of what _send queued,
\* however it splits the Messages.
THEOREM SendsAStream == Spec => ImplementsByteStream
<1>1. Init => Stream!Init
  BY DEF Init, Stream!Init
<1>2. SendInv /\ SendInv' /\ [Next]_vars => [Stream!Accept \/ Stream!Transmit]_<<queued, wire>>
  <2> SUFFICES ASSUME SendInv, SendInv', [Next]_vars
               PROVE  Stream!Accept \/ Stream!Transmit \/ UNCHANGED <<queued, wire>>
    OBVIOUS
  <2>0. SendTypes /\ HolderInv /\ PlaceInv /\ queued \in Seq(Nat) /\ wire \in Seq(Nat)
    BY DEF SendInv, SendTypes
  <2>1. CASE CopyRound
    <3>1. alive /\ size > 0 /\ wire' = wire /\ queued' = queued \o Piece
      <4>1. pc \in {"head", "data"}
        BY <2>1 DEF CopyRound
      <4> QED
        BY <2>0, <2>1, <4>1 DEF CopyRound, SendTypes
    <3>2. Piece \in Seq(Nat) /\ Len(Piece) # 0
      BY <2>0, <3>1, PieceFits
    <3>3. IsStrictPrefix(queued, queued')
      BY <2>0, <3>1, <3>2, PrefixOfConcat
    <3> QED
      BY <3>1, <3>3 DEF Stream!Accept, Stream!IsStrictPrefix, Stream!IsPrefix, IsStrictPrefix, IsPrefix
  <2>2. CASE SendFull \/ SendPart
    <3>1. alive /\ msg_send # NULL /\ queued' = queued
      BY <2>0, <2>2 DEF SendFull, SendPart, SendTypes
    <3>2. PICK part \in Seq(Nat) : wire' = wire \o part /\ Len(part) \in 1..Len(Rest)
      BY <2>0, <2>2, <3>1, SentPart
    <3>3. IsStrictPrefix(wire, wire')
      <4>1. Len(part) # 0
        BY <3>2
      <4> QED
        BY <2>0, <3>2, <4>1, PrefixOfConcat
    <3>4. IsPrefix(wire', queued)
      <4>1. /\ wire' \in Seq(Nat) /\ Len(wire') <= Len(queued)
            /\ \A k \in 1..Len(wire') : wire'[k] = queued[k]
        BY <3>1 DEF SendInv, SendTypes, WireInv
      <4> QED
        BY <2>0, <4>1, PrefixByPlaces
    <3> QED
      BY <3>1, <3>3, <3>4 DEF Stream!Transmit, Stream!IsStrictPrefix, Stream!IsPrefix, IsStrictPrefix,
                              IsPrefix
  <2>3. CASE Send \/ CopyDone \/ Disconnect \/ Writable \/ PostSendIdle \/ PostSend \/ NextMessage
             \/ SendWouldBlock \/ SendFails \/ Destroy \/ UNCHANGED vars
    BY <2>3 DEF Send, CopyDone, Disconnect, Writable, PostSendIdle, PostSend, NextMessage,
                SendWouldBlock, SendFails, Destroy, vars, history
  <2> QED
    BY <2>1, <2>2, <2>3 DEF Next
<1> QED
  BY <1>1, <1>2, SendInvariant, PTL DEF Spec, ImplementsByteStream, Stream!Spec

\* An orderly shutdown follows the last byte: everything _send copied has been sent, none of it is
\* left in a Message or in the queue, and no Send is half done.
THEOREM ShutdownFlushes == Spec => OrderlyShutdownFlushes
<1>1. SendInv /\ [Next]_vars =>
        (send_over' /\ ~send_over => wire = queued /\ Len(wire) = Len(accepted))
  <2> SUFFICES ASSUME SendInv, [Next]_vars, send_over', ~send_over
               PROVE  wire = queued /\ Len(wire) = Len(accepted)
    OBVIOUS
  <2>1. PostSendIdle
    BY DEF Next, Send, CopyRound, CopyDone, Disconnect, Writable, PostSend, NextMessage, SendFull,
           SendPart, SendWouldBlock, SendFails, Destroy, vars, flags
  <2>2. alive /\ NothingQueued /\ size = 0 /\ Len(body) = 0
    <3>1. pc = "idle" /\ alive /\ NothingQueued
      BY <2>1 DEF PostSendIdle
    <3>2. size = 0 /\ body = <<>>
      BY <3>1 DEF SendInv, SendTypes
    <3> QED
      BY <3>1, <3>2
  <2>3. wire \in Seq(Nat) /\ queued \in Seq(Nat) /\ Len(wire) \in Nat
    BY DEF SendInv, SendTypes
  <2>4. Len(queued) = Len(wire)
    BY <2>2, <2>3 DEF SendInv, PlaceInv, NothingQueued, Start
  <2>5. \A k \in 1..Len(wire) : wire[k] = queued[k]
    BY DEF SendInv, WireInv
  <2>6. wire = queued
    BY <2>3, <2>4, <2>5
  <2> QED
    BY <2>2, <2>3, <2>6 DEF SendInv, CountInv
<1> QED
  BY <1>1, SendInvariant, PTL DEF Spec, OrderlyShutdownFlushes

\* A sequence is its parts, one after the other.
LEMMA ThreeParts ==
  ASSUME NEW t \in Seq(Nat), NEW a \in Seq(Nat), NEW b \in Seq(Nat), NEW c \in Seq(Nat),
         Len(t) = Len(a) + Len(b) + Len(c),
         \A k \in 1..Len(a) : t[k] = a[k],
         \A k \in 1..Len(b) : t[Len(a) + k] = b[k],
         \A k \in 1..Len(c) : t[(Len(a) + Len(b)) + k] = c[k]
  PROVE  t = a \o (b \o c)
<1> DEFINE d == b \o c
<1>0. Len(a) \in Nat /\ Len(b) \in Nat /\ Len(c) \in Nat
  OBVIOUS
<1>1. /\ d \in Seq(Nat) /\ Len(d) = Len(b) + Len(c)
      /\ \A k \in 1..(Len(b) + Len(c)) : d[k] = IF k <= Len(b) THEN b[k] ELSE c[k - Len(b)]
  BY ConcatProperties
<1> HIDE DEF d
<1> DEFINE w == a \o d
<1>2. /\ w \in Seq(Nat) /\ Len(w) = Len(a) + Len(d)
      /\ \A k \in 1..(Len(a) + Len(d)) : w[k] = IF k <= Len(a) THEN a[k] ELSE d[k - Len(a)]
  <2>1. a \in Seq(Nat) /\ d \in Seq(Nat)
    BY <1>1
  <2> QED
    BY <2>1, ConcatProperties
<1> HIDE DEF w
<1> DEFINE x == Len(a)
           y == Len(b)
           z == Len(c)
<1>3. Len(w) = Len(t) /\ Len(t) = x + y + z /\ Len(d) = y + z
  BY <1>0, <1>1, <1>2
<1> HIDE DEF x, y, z
<1>4. ASSUME NEW k \in 1..(x + y + z)
      PROVE  t[k] = w[k]
  <2>0. x \in Nat /\ y \in Nat /\ z \in Nat /\ k \in Nat
    BY <1>0 DEF x, y, z
  <2>1. w[k] = IF k <= x THEN a[k] ELSE d[k - x]
    <3>1. k \in 1..(x + (y + z))
      BY <2>0
    <3> QED
      BY <1>2, <1>3, <3>1 DEF x
  <2>2. CASE k <= x
    <3>1. k \in 1..x
      BY <2>0, <2>2
    <3> QED
      BY <2>1, <2>2, <3>1 DEF x
  <2>3. CASE x < k /\ k <= x + y
    <3>1. k - x \in 1..y /\ x + (k - x) = k /\ k - x \in 1..(y + z) /\ ~(k <= x) /\ k - x <= y
      BY <2>0, <2>3
    <3>2. d[k - x] = b[k - x]
      BY <1>1, <3>1 DEF y, z
    <3>3. t[x + (k - x)] = b[k - x]
      BY <3>1 DEF x, y
    <3> QED
      BY <2>1, <3>1, <3>2, <3>3
  <2>4. CASE x + y < k
    <3>1. /\ (k - x) - y \in 1..z /\ (x + y) + ((k - x) - y) = k
          /\ k - x \in 1..(y + z) /\ ~(k <= x) /\ ~(k - x <= y)
      BY <2>0, <2>4
    <3>2. d[k - x] = c[(k - x) - y]
      BY <1>1, <3>1 DEF y, z
    <3>3. t[(x + y) + ((k - x) - y)] = c[(k - x) - y]
      BY <3>1 DEF x, y, z
    <3> QED
      BY <2>1, <3>1, <3>2, <3>3
  <2> QED
    BY <2>0, <2>2, <2>3, <2>4
<1>5. t = w
  BY <1>2, <1>3, <1>4, SeqEqual
<1> QED
  BY <1>5 DEF w, d

\* Parts that are full but the last, each at its place in a sequence, make it up.
LEMMA FullParts ==
  ASSUME NEW N \in Nat, NEW ss \in Seq(Seq(Nat)), Len(ss) = N, NEW q \in Seq(Nat),
         \A i \in 1..N : i < N => Len(ss[i]) = MaxBuffer,
         Len(q) = IF N = 0 THEN 0 ELSE Before(N) + Len(ss[N]),
         \A i \in 1..N : \A k \in 1..Len(ss[i]) :
            Before(i) + k \in 1..Len(q) => ss[i][k] = q[Before(i) + k]
  PROVE  FlattenSeq(ss) = q
<1>0. Len(q) \in Nat
  OBVIOUS
<1>1. ASSUME NEW i \in 1..N
      PROVE  ss[i] \in Seq(Nat) /\ Len(ss[i]) \in Nat /\ Before(i) \in Nat
             /\ Before(i + 1) = Before(i) + MaxBuffer
  <2>1. ss[i] \in Seq(Nat)
    OBVIOUS
  <2>2. Len(ss[i]) \in Nat
    BY <2>1
  <2>3. i \in Nat \ {0}
    OBVIOUS
  <2>4. Before(i) \in Nat /\ Before(i + 1) = Before(i) + MaxBuffer
    BY <2>3, BeforeNext
  <2> QED
    BY <2>1, <2>2, <2>4
<1> DEFINE P == [i \in 0..N |-> IF i = N THEN Len(q) ELSE Before(i + 1)]
<1>2. P \in [0..N -> Nat]
  <2>1. ASSUME NEW i \in 0..N, i # N
        PROVE  Before(i + 1) \in Nat
    <3>1. i + 1 \in 1..N
      BY <2>1
    <3> QED
      BY <1>1, <3>1
  <2> QED
    BY <1>0, <2>1
<1>3. P[N] = Len(q) /\ \A i \in 0..N : i # N => P[i] = Before(i + 1)
  OBVIOUS
<1> HIDE DEF P
<1>4. P[0] = 0
  <2>1. CASE N = 0
    BY <1>3, <2>1
  <2>2. CASE N # 0
    <3>1. 0 \in 0..N /\ 0 + 1 = 1
      OBVIOUS
    <3> QED
      BY <1>3, <2>2, <3>1, BeforeNext
  <2> QED
    BY <2>1, <2>2
<1>5. ASSUME NEW i \in 1..N
      PROVE  P[i - 1] = Before(i) /\ P[i] = P[i - 1] + Len(ss[i]) /\ P[i] <= Len(q)
  <2>1. P[i - 1] = Before(i)
    <3>1. i - 1 \in 0..N /\ i - 1 # N /\ (i - 1) + 1 = i
      OBVIOUS
    <3> QED
      BY <1>3, <3>1
  <2>2. CASE i = N
    BY <1>0, <1>3, <2>1, <2>2
  <2>3. CASE i # N
    <3>1. i < N /\ i \in 0..N /\ N \in 1..N /\ i + 1 \in Nat \ {0}
      BY <2>3
    <3>2. P[i] = Before(i + 1) /\ P[i] = P[i - 1] + Len(ss[i])
      <4>1. P[i] = Before(i + 1)
        BY <1>3, <2>3, <3>1
      <4>2. Before(i + 1) = Before(i) + MaxBuffer /\ Len(ss[i]) = MaxBuffer
        BY <1>1, <3>1
      <4> QED
        BY <2>1, <4>1, <4>2
    <3>3. Before(i) + MaxBuffer <= Before(N)
      BY <3>1, BeforeLater
    <3>4. Len(q) = Before(N) + Len(ss[N]) /\ Before(N) \in Nat /\ Len(ss[N]) \in Nat
      BY <1>1, <3>1
    <3>5. Before(i + 1) = Before(i) + MaxBuffer
      BY <1>1
    <3>6. Before(N) <= Len(q)
      BY <3>4
    <3>7. P[i] <= Before(N)
      BY <3>2, <3>3, <3>5
    <3>8. P[i] \in Nat
      BY <1>2, <3>1
    <3>9. P[i] <= Len(q)
      BY <1>0, <3>4, <3>6, <3>7, <3>8
    <3> QED
      BY <2>1, <3>2, <3>9
  <2> QED
    BY <2>1, <2>2, <2>3
<1>6. ASSUME NEW i \in 1..N, NEW k \in 1..Len(ss[i])
      PROVE  ss[i][k] = q[P[i - 1] + k]
  <2>1. Before(i) + k \in 1..Len(q)
    <3> DEFINE b == Before(i)
               l == Len(ss[i])
    <3>1. b \in Nat /\ l \in Nat /\ b + l <= Len(q)
      BY <1>1, <1>5
    <3>2. k \in 1..l
      OBVIOUS
    <3> HIDE DEF b, l
    <3>3. b + k \in 1..Len(q)
      BY <1>0, <3>1, <3>2
    <3> QED
      BY <3>3 DEF b
  <2>2. P[i - 1] = Before(i)
    BY <1>5
  <2> QED
    BY <2>1, <2>2
<1>7. /\ P \in [0..Len(ss) -> Nat] /\ Len(q) = P[Len(ss)]
      /\ \A i \in 1..Len(ss) : P[i] = P[i - 1] + Len(ss[i])
      /\ \A i \in 1..Len(ss) : \A k \in 1..Len(ss[i]) : ss[i][k] = q[P[i - 1] + k]
  BY <1>2, <1>3, <1>5, <1>6
<1> DEFINE n == Len(ss)
<1>8. /\ P \in [0..n -> Nat] /\ P[0] = 0 /\ Len(q) = P[n]
      /\ \A i \in 1..n : P[i] = P[i - 1] + Len(ss[i])
      /\ \A i \in 1..n : \A k \in 1..Len(ss[i]) : ss[i][k] = q[P[i - 1] + k]
  BY <1>4, <1>7
<1> QED
  BY <1>8, FlattenByPlaces, ZenonT(30)

\* The Messages in the queue, one after the other, hold the bytes queued last.
LEMMA QueueHoldsTheEnd ==
  ASSUME SendTypes, PlaceInv, alive
  PROVE  LET q == SubSeq(queued, Start + 1, Len(queued)) IN
           /\ q \in Seq(Nat) /\ Len(q) = Len(queued) - Start
           /\ \A k \in 1..Len(q) : q[k] = queued[Start + k]
           /\ FlattenSeq([i \in DOMAIN que_send |-> heap[que_send[i]].data]) = q
<1> DEFINE q == SubSeq(queued, Start + 1, Len(queued))
           ss == [i \in DOMAIN que_send |-> heap[que_send[i]].data]
           N == Len(que_send)
<1>1. /\ Start \in Nat /\ Start <= Len(queued) /\ queued \in Seq(Nat) /\ Len(queued) \in Nat
      /\ que_send \in Seq(Address) /\ N \in Nat /\ DOMAIN que_send = 1..N
      /\ heap \in Seq(MessageType) /\ Address = 1..Len(heap)
  <2>1. queued \in Seq(Nat) /\ que_send \in Seq(Address) /\ heap \in Seq(MessageType)
    BY DEF SendTypes
  <2>2. Start \in Nat /\ Start <= Len(queued)
    BY StartWithin
  <2>3. Len(queued) \in Nat /\ N \in Nat /\ DOMAIN que_send = 1..N
    BY <2>1
  <2> QED
    BY <2>1, <2>2, <2>3 DEF Address
<1>2. /\ q \in Seq(Nat) /\ Len(q) = Len(queued) - Start
      /\ \A k \in 1..Len(q) : q[k] = queued[Start + k]
  <2> DEFINE m == Start + 1
             n == Len(queued)
  <2>1. m \in Int /\ n \in Int /\ 1 <= m /\ \A k \in m..n : queued[k] \in Nat
    BY <1>1, ElementOfSeq
  <2>2. q = SubSeq(queued, m, n)
    OBVIOUS
  <2>3. m = Start + 1 /\ n = Len(queued)
    OBVIOUS
  <2> HIDE DEF m, n, q
  <2>4. /\ q \in Seq(Nat) /\ Len(q) = IF m <= n THEN n - m + 1 ELSE 0
        /\ \A k \in 1..(n - m + 1) : q[k] = queued[m + k - 1]
    BY <2>1, <2>2, SubSeqProperties
  <2>5. n - m + 1 = n - Start /\ \A k \in Nat : m + k - 1 = Start + k
    BY <1>1, <2>3
  <2>6. Len(q) = n - Start /\ \A k \in 1..(n - Start) : k \in Nat
    BY <1>1, <2>3, <2>4
  <2>7. ASSUME NEW k \in 1..(n - Start)
        PROVE  q[k] = queued[Start + k]
    <3>1. k \in 1..(n - m + 1) /\ m + k - 1 = Start + k
      BY <2>5, <2>6
    <3>2. q[k] = queued[m + k - 1]
      BY <2>4, <3>1
    <3> QED
      BY <3>1, <3>2
  <2> QED
    BY <2>3, <2>4, <2>6, <2>7
<1>3. \A i \in 1..N : que_send[i] \in Address /\ heap[que_send[i]].data \in Seq(Nat)
  <2>1. \A i \in 1..N : que_send[i] \in Address
    BY <1>1
  <2>2. \A a \in Address : heap[a] \in MessageType
    BY <1>1
  <2>3. \A m \in MessageType : m.data \in Seq(Nat)
    BY DEF MessageType
  <2> HIDE DEF N
  <2> QED
    BY <2>1, <2>2, <2>3
<1>4. ss \in Seq(Seq(Nat)) /\ Len(ss) = N /\ \A i \in 1..N : ss[i] = heap[que_send[i]].data
  BY <1>1, <1>3
<1>5. ASSUME NEW i \in 1..N
      PROVE  /\ Len(ss[i]) \in Nat /\ Before(i) \in Nat
             /\ i < N => Len(ss[i]) = MaxBuffer
             /\ \A k \in 1..Len(ss[i]) : ss[i][k] = queued[Start + Before(i) + k]
  <2>1. InPlace(i)
    BY DEF PlaceInv
  <2>2. Len(ss[i]) \in Nat
    BY <1>3, <1>4
  <2>3. i \in Nat \ {0}
    BY <1>1
  <2> QED
    BY <1>4, <2>1, <2>2, <2>3, BeforeNext DEF InPlace
<1>6. Len(q) = IF N = 0 THEN 0 ELSE Before(N) + Len(ss[N])
  <2>1. CASE N = 0
    <3>1. que_send = <<>>
      BY <1>1, <2>1
    <3> QED
      BY <1>1, <1>2, <2>1, <3>1 DEF PlaceInv
  <2>2. CASE N # 0
    <3>1. que_send # <<>> /\ N \in 1..N
      BY <1>1, <2>2
    <3>2. Last(que_send) = que_send[N]
      BY <3>1 DEF Last
    <3>3. Len(queued) = Start + Before(N) + Len(ss[N])
      BY <1>4, <3>1, <3>2 DEF PlaceInv
    <3>4. Before(N) \in Nat /\ Len(ss[N]) \in Nat
      BY <1>5, <3>1
    <3> HIDE DEF q, ss, N
    <3> QED
      BY <1>1, <1>2, <2>2, <3>3, <3>4
  <2> QED
    BY <2>1, <2>2
<1>7. FlattenSeq(ss) = q
  <2> HIDE DEF q, ss, N
  <2>1. ASSUME NEW i \in 1..N, NEW k \in 1..Len(ss[i]), Before(i) + k \in 1..Len(q)
        PROVE  ss[i][k] = q[Before(i) + k]
    <3>1. Start + (Before(i) + k) = Start + Before(i) + k
      BY <1>1, <1>5
    <3> QED
      BY <1>2, <1>5, <2>1, <3>1
  <2> QED
    BY <1>1, <1>2, <1>4, <1>5, <1>6, <2>1, FullParts
<1> QED
  BY <1>2, <1>7

\* Nothing queued is lost: while the session lives, what is on the wire, then what is left of the
\* Message being sent, then the Messages in the queue, are the bytes that _send queued.
THEOREM QueuedIsKept == Spec => []NothingLost
<1>1. SendInv => NothingLost
  <2> SUFFICES ASSUME SendInv, alive
               PROVE  queued = wire \o Pending
    BY DEF NothingLost
  <2> DEFINE r == IF msg_send = NULL THEN <<>> ELSE Rest
             q == SubSeq(queued, Start + 1, Len(queued))
  <2>0. SendTypes /\ PlaceInv /\ WireInv
    BY DEF SendInv
  <2>1. /\ queued \in Seq(Nat) /\ Len(queued) \in Nat /\ wire \in Seq(Nat) /\ Len(wire) \in Nat
        /\ Start \in Nat /\ Start <= Len(queued)
    <3>1. queued \in Seq(Nat) /\ wire \in Seq(Nat)
      BY <2>0 DEF SendTypes
    <3>2. Start \in Nat /\ Start <= Len(queued)
      BY <2>0, StartWithin
    <3>3. Len(queued) \in Nat /\ Len(wire) \in Nat
      BY <3>1
    <3> QED
      BY <3>1, <3>2, <3>3
  <2>2. /\ r \in Seq(Nat) /\ Len(r) \in Nat /\ Start = Len(wire) + Len(r)
        /\ \A k \in 1..Len(r) : queued[Len(wire) + k] = r[k]
    <3>1. CASE msg_send = NULL
      BY <2>1, <3>1 DEF Start
    <3>2. CASE msg_send # NULL
      <4>1. SendingInv /\ send_len \in Nat
        BY <2>0, <3>2 DEF PlaceInv, SendTypes
      <4>2. /\ r = Rest /\ Rest \in Seq(Nat) /\ Len(Rest) \in Nat /\ Len(Data) \in Nat
            /\ Len(Rest) = Len(Data) - send_len
            /\ \A k \in 1..Len(Rest) : Rest[k] = Data[send_len + k]
        BY <2>0, <3>2, <4>1, RestOfMessage
      <4>3. Start = Len(wire) + Len(r)
        <5>1. Start = (Len(wire) - send_len) + Len(Data) /\ Len(r) = Len(Rest)
          BY <3>2, <4>2 DEF Start
        <5> QED
          BY <2>1, <4>1, <4>2, <5>1
      <4>4. ASSUME NEW k \in 1..Len(Rest)
            PROVE  queued[Len(wire) + k] = Rest[k]
        <5>1. send_len + k \in 1..Len(Data) /\ (Len(wire) - send_len) + (send_len + k) = Len(wire) + k
          BY <2>1, <4>1, <4>2
        <5>2. Data[send_len + k] = queued[(Len(wire) - send_len) + (send_len + k)]
          BY <4>1, <5>1 DEF SendingInv
        <5> QED
          BY <4>2, <5>1, <5>2
      <4> QED
        BY <4>2, <4>3, <4>4
    <3> QED
      BY <3>1, <3>2
  <2>3. /\ q \in Seq(Nat) /\ Len(q) = Len(queued) - Start
        /\ \A k \in 1..Len(q) : q[k] = queued[Start + k]
        /\ Pending = r \o q
    BY <2>0, QueueHoldsTheEnd DEF Pending
  <2> HIDE DEF r, q
  <2>4. Len(queued) = Len(wire) + Len(r) + Len(q)
    BY <2>1, <2>2, <2>3
  <2>5. \A k \in 1..Len(wire) : queued[k] = wire[k]
    BY <2>0 DEF WireInv
  <2>6. \A k \in 1..Len(q) : queued[(Len(wire) + Len(r)) + k] = q[k]
    BY <2>2, <2>3
  <2>7. queued = wire \o (r \o q)
    <3>1. queued \in Seq(Nat) /\ wire \in Seq(Nat) /\ r \in Seq(Nat) /\ q \in Seq(Nat)
      BY <2>1, <2>2, <2>3
    <3>2. \A k \in 1..Len(r) : queued[Len(wire) + k] = r[k]
      BY <2>2
    <3> QED
      BY <2>4, <2>5, <2>6, <3>1, <3>2, ThreeParts, ZenonT(30)
  <2> QED
    BY <2>3, <2>7
<1> QED
  BY <1>1, SendInvariant, PTL
===============================================================================
