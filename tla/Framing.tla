------------------------------- MODULE Framing -------------------------------
(***************************************************************************)
(* How Session::_on_recv cuts a byte stream into packets (session.cpp      *)
(* 45-85), with the Messages it fills and the pool they come from.         *)
(*                                                                         *)
(* The peer writes packet after packet, each a header of Hdr bytes that    *)
(* holds the length of the body and then the body.  A byte of the stream   *)
(* is <<p, o>>: the o-th byte of packet p, so a byte lost, repeated or     *)
(* taken for another shows.  recv hands the stream over in pieces of any   *)
(* size up to MaxBuffer, which _on_recv goes through byte by byte (Fill    *)
(* copies ranges; nothing runs between two bytes).  The dispatcher pops    *)
(* the pushed messages and gives them back to the pool, so that a message  *)
(* is filled again with the remains of an earlier packet in it.            *)
(***************************************************************************)
EXTENDS Message

CONSTANTS
  Hdr,         (* sizeof(uint32)                                         *)
  MinPacket,   (* 2, the opcode                                          *)
  MaxPacket,   (* MAX_PACKET_SIZE                                        *)
  Lengths,     (* the body lengths the peer announces, valid or not      *)
  MaxBytes     (* bound: bytes the peer sends                            *)

ASSUME FramingAssumption ==
  /\ Hdr \in Nat \ {0}
  /\ MinPacket \in Nat \ {0}
  /\ MaxPacket \in Nat
  /\ Lengths \subseteq Nat /\ Lengths # {}
  /\ MaxBytes \in Nat

NoMessage == [none |-> TRUE]

VARIABLES
  header,      (* _msg_header                                            *)
  msg_recv,    (* _msg_recv, or NoMessage                                *)
  disconnect,  (* _disconnect                                            *)
  pc,          (* where _on_recv is                                      *)
  size,        (* its parameter size: bytes of the piece not looked at   *)
  waiting,     (* the dispatcher's queue: messages pushed                *)
  recycle,     (* the pool: capacities of the free messages              *)
  (* the peer, and what has become of its bytes *)
  lens,        (* body lengths of the packets begun                      *)
  cursor,      (* the next byte of the stream                            *)
  received,    (* bytes handed to _on_recv                               *)
  pushed       (* history: contents of all messages pushed               *)

session == <<header, msg_recv, disconnect, pc, size>>
queues  == <<waiting, recycle>>
peer    == <<lens, cursor, received>>
vars    == <<session, queues, peer, pushed>>

Byte == (Nat \ {0}) \X (Nat \ {0})
IsMessage(m) ==
  /\ DOMAIN m = {"size", "data_len", "data"}
  /\ m.size \in Nat /\ m.data_len \in Nat
  /\ m.data \in Seq(Byte)

TypeOK ==
  /\ IsMessage(header)
  /\ msg_recv = NoMessage \/ IsMessage(msg_recv)
  /\ disconnect \in BOOLEAN
  /\ pc \in {"idle", "header", "begin", "body"}
  /\ size \in Nat
  /\ \A i \in 1..Len(waiting) : IsMessage(waiting[i])
  /\ recycle \in Seq(Nat)
  /\ lens \in Seq(Lengths)
  /\ cursor \in Byte
  /\ received \in Nat
  /\ pushed \in Seq(Seq(Byte))

Valid(n) == n \in MinPacket..MaxPacket

HeaderOf(p) == [i \in 1..Hdr |-> <<p, i>>]
BodyOf(p)   == [i \in 1..lens[p] |-> <<p, Hdr + i>>]

\* The uint32 read from the header.  Bytes that are not one packet's header would read as
\* some length; a valid one keeps such a reading going.
HeaderValue ==
  IF \E p \in 1..Len(lens) : header.data = HeaderOf(p)
    THEN lens[header.data[1][1]]
    ELSE MinPacket

\* Take the byte under the cursor.  The peer decides a packet's length when it begins it.
Advance ==
  /\ size' = size - 1
  /\ IF cursor[2] < Hdr + lens[cursor[1]]
       THEN cursor' = <<cursor[1], cursor[2] + 1>> /\ UNCHANGED lens
       ELSE /\ cursor' = <<cursor[1] + 1, 1>>
            /\ \E n \in Lengths : lens' = Append(lens, n)

\* recv returns n bytes and _on_recv starts on them.
Recv ==
  /\ pc = "idle"
  /\ \E n \in 1..MaxBuffer :
       /\ received + n <= MaxBytes
       /\ size' = n
       /\ received' = received + n
  /\ pc' = "header"
  /\ UNCHANGED <<header, msg_recv, disconnect, queues, lens, cursor, pushed>>

\* Fill copies as long as the piece has bytes and the message has room.
CanFillPastInput(m) == ~Full(m)
CanFill(m) == size > 0 /\ ~Full(m)

FillHeader ==
  /\ pc = "header"
  /\ CanFill(header)
  /\ header' = Filled(header, cursor)
  /\ Advance
  /\ UNCHANGED <<msg_recv, disconnect, pc, queues, received, pushed>>

HeaderDone ==
  /\ pc = "header"
  /\ size = 0 \/ Full(header)
  /\ pc' = IF Full(header) THEN "begin" ELSE "idle"
  /\ UNCHANGED <<header, msg_recv, disconnect, size, queues, peer, pushed>>

\* A full header begins a packet.  An invalid length asks for Disconnect and drops the
\* rest of the piece; the header stays full, so every later piece ends here too.
AcceptsTooLong(n) == n >= MinPacket
Accepts(n) == Valid(n)

Begin ==
  /\ pc = "begin"
  /\ msg_recv = NoMessage
  /\ IF Accepts(HeaderValue)
       THEN /\ LET m == [NewMessage EXCEPT !.size = IF recycle = <<>> THEN @ ELSE Head(recycle)]
               IN  msg_recv' = Reset(m, HeaderValue)
            /\ recycle' = IF recycle = <<>> THEN recycle ELSE Tail(recycle)
            /\ pc' = "body"
            /\ UNCHANGED <<disconnect, size>>
       ELSE /\ disconnect' = TRUE
            /\ size' = 0
            /\ pc' = "idle"
            /\ UNCHANGED <<msg_recv, recycle>>
  /\ UNCHANGED <<header, waiting, peer, pushed>>

Resume ==
  /\ pc = "begin"
  /\ msg_recv # NoMessage
  /\ pc' = "body"
  /\ UNCHANGED <<header, msg_recv, disconnect, size, queues, peer, pushed>>

FillBody ==
  /\ pc = "body"
  /\ CanFill(msg_recv)
  /\ msg_recv' = Filled(msg_recv, cursor)
  /\ Advance
  /\ UNCHANGED <<header, disconnect, pc, queues, received, pushed>>

\* The piece ends inside the body.
BodyPending ==
  /\ pc = "body"
  /\ size = 0 /\ ~Full(msg_recv)
  /\ pc' = "idle"
  /\ UNCHANGED <<header, msg_recv, disconnect, size, queues, peer, pushed>>

\* The packet is complete: push it, start on the next header.
Push ==
  /\ pc = "body"
  /\ Full(msg_recv)
  /\ waiting' = Append(waiting, msg_recv)
  /\ pushed' = Append(pushed, msg_recv.data)
  /\ msg_recv' = NoMessage
  /\ header' = Reset(header, Hdr)
  /\ pc' = IF size = 0 THEN "idle" ELSE "header"
  /\ UNCHANGED <<disconnect, size, recycle, peer>>

OnRecv == FillHeader \/ HeaderDone \/ Begin \/ Resume \/ FillBody \/ BodyPending \/ Push

\* The drain loop pops a message and frees it into the pool.
Dispatch ==
  /\ pc = "idle"
  /\ waiting # <<>>
  /\ recycle' = Append(recycle, Head(waiting).size)
  /\ waiting' = Tail(waiting)
  /\ UNCHANGED <<session, peer, pushed>>

\* _msg_header(sizeof(uint32)) is built with that capacity and Reset by Attach.
Init ==
  /\ header = [size |-> Hdr, data_len |-> Hdr, data |-> <<>>]
  /\ msg_recv = NoMessage
  /\ disconnect = FALSE
  /\ pc = "idle" /\ size = 0
  /\ waiting = <<>> /\ recycle = <<>>
  /\ \E n \in Lengths : lens = <<n>>
  /\ cursor = <<1, 1>>
  /\ received = 0
  /\ pushed = <<>>

Next == Recv \/ OnRecv \/ Dispatch

Spec == Init /\ [][Next]_vars
-----------------------------------------------------------------------------
(* Properties. *)

\* Packets 1..n carry valid lengths.
AllValid(n) == \A p \in 1..n : Valid(lens[p])

\* However the stream is cut into pieces, what is pushed are the bodies of the peer's
\* packets, in order and whole.
PushedArePackets == \A i \in 1..Len(pushed) : pushed[i] = BodyOf(i)

\* Between two pieces every complete packet has been pushed, up to the first one with an
\* invalid length; that one ends the session and nothing after it is pushed.
PushedAreComplete ==
  pc = "idle" =>
    IF AllValid(cursor[1] - 1)
      THEN Len(pushed) = cursor[1] - 1
      ELSE /\ AllValid(Len(pushed)) /\ ~Valid(lens[Len(pushed) + 1])
           /\ disconnect

\* Fill never writes past the end of a buffer, whatever the pool handed out.
InBounds ==
  /\ header.data_len <= header.size /\ Len(header.data) <= header.data_len
  /\ msg_recv # NoMessage =>
       msg_recv.data_len <= msg_recv.size /\ Len(msg_recv.data) <= msg_recv.data_len

\* A message that is recycled again and again does not grow without bound: a peer can make
\* the server hold no more than this for one packet.
CapacityBounded ==
  LET most == MaxPacket + (MaxPacket \div MaxBuffer + 1) * MaxBuffer IN
    /\ \A i \in 1..Len(recycle) : recycle[i] <= most
    /\ msg_recv # NoMessage => msg_recv.size <= most
=============================================================================
