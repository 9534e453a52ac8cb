------------------------------ MODULE SendQueue ------------------------------
(***************************************************************************)
(* The sending half of a session: Session::Send and _send (session.cpp     *)
(* 15-42), _post_send (session_linux.cpp 167-240) and the pool of outgoing *)
(* Messages, INSTANCE_2(MessageQueue).                                     *)
(*                                                                         *)
(* Send copies a length head and the data into the last queued Message     *)
(* while that has room, and takes further Messages from the pool: one      *)
(* round of _send's loop is a step.  Update takes the Message at the front *)
(* out of the queue and offers what is left of it to send(), which may     *)
(* take it all, a part, or nothing.  The bytes handed to Send are numbered *)
(* 1, 2, 3 ...; what _send copies of them is `queued`, which is not always *)
(* the same (see CopyRound).                                               *)
(*                                                                         *)
(* A Message is a record in `heap` under its address; the queue, the pool  *)
(* and _msg_send hold addresses, as the pointers of the code do.           *)
(***************************************************************************)
EXTENDS Message, SequencesExt

CONSTANTS
  Hdr,         (* sizeof(uint32)                                *)
  DataLens,    (* the lengths of data the application sends     *)
  MaxBytes     (* bound: bytes handed to Send, heads included   *)

ASSUME SendQueueAssumption ==
  /\ Hdr \in Nat \ {0}
  /\ DataLens \subseteq Nat
  /\ MaxBytes \in Nat

NULL == 0

VARIABLES
  heap,        (* the Messages there are: address - 1 is the order of creation *)
  recycle,     (* _msg_recycle of the pool                                     *)
  que_send,    (* _que_send                                                    *)
  msg_send,    (* _msg_send                                                    *)
  send_len,    (* _send_len                                                    *)
  wr_ready,    (* _wr_ready                                                    *)
  status,      (* _status: RUNNING or ERROR                                    *)
  disconnect,  (* _disconnect                                                  *)
  send_over,   (* _send_over                                                   *)
  data,        (* the argument of the _send that runs                          *)
  size,        (* how much of it is not copied yet                             *)
  body,        (* the argument of Send, until _send is called with it          *)
  pc,          (* idle, in one of Send's calls of _send, or in _post_send      *)
  alive,       (* the session has not been destroyed                           *)
  (* history *)
  accepted,    (* the bytes handed to Send, with their heads                   *)
  queued,      (* the bytes _send copied into Messages                         *)
  wire         (* the bytes send() has taken                                   *)

pool    == <<heap, recycle>>
sending == <<que_send, msg_send, send_len>>
copying == <<data, size, body>>
flags   == <<wr_ready, status, disconnect, send_over, pc, alive>>
history == <<accepted, queued, wire>>
vars    == <<pool, sending, copying, flags, history>>

Address == 1..Len(heap)

IsMessage(m) ==
  /\ DOMAIN m = {"size", "data_len", "data"}
  /\ m.size \in Nat /\ m.data_len \in Nat
  /\ m.data \in Seq(Nat)

TypeOK ==
  /\ \A a \in Address : IsMessage(heap[a])
  /\ recycle \in Seq(Address)
  /\ que_send \in Seq(Address)
  /\ msg_send \in Address \cup {NULL}
  /\ {send_len, size} \subseteq Nat
  /\ {wr_ready, disconnect, send_over, alive} \subseteq BOOLEAN
  /\ status \in {"RUNNING", "ERROR"}
  /\ pc \in {"idle", "head", "data", "loop"}
  /\ {data, body, accepted, queued, wire} \subseteq Seq(Nat)
-----------------------------------------------------------------------------
(* Sending. *)

\* Send, called by the logic thread on an Active session.
Send ==
  /\ pc = "idle" /\ alive
  /\ status = "RUNNING"
  /\ \E n \in DataLens :
       /\ Len(accepted) + Hdr + n <= MaxBytes
       /\ data' = [i \in 1..Hdr |-> Len(accepted) + i]
       /\ body' = [i \in 1..n |-> Len(accepted) + Hdr + i]
       /\ accepted' = accepted \o data' \o body'
  /\ size' = Hdr
  /\ pc' = "head"
  /\ UNCHANGED <<pool, sending, wr_ready, status, disconnect, send_over, alive, queued, wire>>

NeedsMessage == que_send = <<>> \/ Full(heap[Last(que_send)])

\* The Message that _send writes into: the last one queued, one from the pool, or a new one.
Target ==
  IF ~NeedsMessage THEN Last(que_send)
  ELSE IF recycle # <<>> THEN Head(recycle) ELSE Len(heap) + 1
Writer ==
  IF ~NeedsMessage THEN heap[Target]
  ELSE Reset(IF Target \in Address THEN heap[Target] ELSE NewMessage, MaxBuffer)

\* What one Fill copies: it starts at `data` in every round, which _send never moves on, so the
\* part that does not fit the last Message begins with the first byte again.
Piece == SubSeq(data, 1, IF Writer.data_len - Len(Writer.data) < size
                           THEN Writer.data_len - Len(Writer.data) ELSE size)

\* A round of _send's loop.
CopyRound ==
  /\ pc \in {"head", "data"}
  /\ size > 0
  /\ LET m == [Writer EXCEPT !.data = @ \o Piece]
     IN  heap' = IF Target \in Address THEN [heap EXCEPT ![Target] = m] ELSE Append(heap, m)
  /\ IF NeedsMessage
       THEN /\ que_send' = Append(que_send, Target)
            /\ recycle' = IF recycle = <<>> THEN <<>> ELSE Tail(recycle)
       ELSE UNCHANGED <<que_send, recycle>>
  /\ size' = size - Len(Piece)
  /\ queued' = queued \o Piece
  /\ UNCHANGED <<msg_send, send_len, data, body, flags, accepted, wire>>

\* _send returns, from the head to the data and from the data to Send's caller.
CopyDone ==
  /\ pc \in {"head", "data"}
  /\ size = 0
  /\ pc' = IF pc = "head" THEN "data" ELSE "idle"
  /\ data' = body /\ size' = Len(body) /\ body' = <<>>
  /\ UNCHANGED <<pool, sending, wr_ready, status, disconnect, send_over, alive, history>>

Disconnect ==
  /\ pc = "idle" /\ alive
  /\ ~disconnect
  /\ disconnect' = TRUE
  /\ UNCHANGED <<pool, sending, copying, wr_ready, status, send_over, pc, alive, history>>

\* EPOLLOUT reached Update.
Writable ==
  /\ pc = "idle" /\ alive
  /\ ~wr_ready
  /\ wr_ready' = TRUE
  /\ UNCHANGED <<pool, sending, copying, status, disconnect, send_over, pc, alive, history>>
-----------------------------------------------------------------------------
(* _post_send. *)

NothingQueuedButFront == msg_send = NULL
NothingQueued == msg_send = NULL /\ que_send = <<>>

\* Entered with nothing to send: shut the connection down if Disconnect asked for it.
PostSendIdle ==
  /\ pc = "idle" /\ alive
  /\ NothingQueued
  /\ disconnect /\ ~send_over
  /\ send_over' = TRUE
  /\ UNCHANGED <<pool, sending, copying, wr_ready, status, disconnect, pc, alive, history>>

PostSend ==
  /\ pc = "idle" /\ alive
  /\ ~NothingQueued
  /\ ~send_over /\ status = "RUNNING" /\ wr_ready
  /\ pc' = "loop"
  /\ UNCHANGED <<pool, sending, copying, wr_ready, status, disconnect, send_over, alive, history>>

\* Take the front Message out of the queue.
TakeFront ==
  /\ msg_send' = Head(que_send)
  /\ que_send' = Tail(que_send)
  /\ send_len' = 0

\* _post_send returns at an empty queue, and at a Message that holds nothing.
NothingToTake == que_send = <<>> \/ heap[Head(que_send)].data = <<>>

NextMessage ==
  /\ pc = "loop"
  /\ msg_send = NULL
  /\ IF NothingToTake
       THEN pc' = "idle" /\ UNCHANGED sending
       ELSE pc' = "loop" /\ TakeFront
  /\ UNCHANGED <<pool, copying, wr_ready, status, disconnect, send_over, alive, history>>

Data == heap[msg_send].data

Rest == SubSeq(Data, send_len + 1, Len(Data))

\* The Message is out: back to the pool with it.
FreeKeepingPointer ==
  /\ recycle' = Append(recycle, msg_send)
  /\ send_len' = 0
  /\ UNCHANGED msg_send
Free ==
  /\ recycle' = Append(recycle, msg_send)
  /\ send_len' = 0
  /\ msg_send' = NULL

SendFull ==
  /\ pc = "loop"
  /\ msg_send # NULL
  /\ wire' = wire \o Rest
  /\ Free
  /\ UNCHANGED <<heap, que_send, copying, flags, accepted, queued>>

\* send took n bytes only: remember how far it got, try again in the next Update.
RememberPartAlone(n) == send_len' = n
RememberPart(n) == send_len' = send_len + n

SendPart ==
  /\ pc = "loop"
  /\ msg_send # NULL
  /\ \E n \in 1..(Len(Rest) - 1) :
       /\ wire' = wire \o SubSeq(Rest, 1, n)
       /\ RememberPart(n)
  /\ pc' = "idle"
  /\ UNCHANGED <<pool, que_send, msg_send, copying, wr_ready, status, disconnect, send_over, alive,
                 accepted, queued>>

SendWouldBlock ==
  /\ pc = "loop"
  /\ msg_send # NULL
  /\ wr_ready' = FALSE
  /\ pc' = "idle"
  /\ UNCHANGED <<pool, sending, copying, status, disconnect, send_over, alive, history>>

SendFails ==
  /\ pc = "loop"
  /\ msg_send # NULL
  /\ status' = "ERROR"
  /\ pc' = "idle"
  /\ UNCHANGED <<pool, sending, copying, wr_ready, disconnect, send_over, alive, history>>

GiveBackUnchecked == recycle' = Append(recycle, msg_send) /\ msg_send' = NULL
GiveBack ==
  IF msg_send = NULL
    THEN UNCHANGED <<recycle, msg_send>>
    ELSE recycle' = Append(recycle, msg_send) /\ msg_send' = NULL

\* The destructor gives _msg_send back; what is still in _que_send is not given back.
Destroy ==
  /\ pc = "idle" /\ alive
  /\ status = "ERROR" \/ send_over
  /\ alive' = FALSE
  /\ GiveBack
  /\ UNCHANGED <<heap, que_send, send_len, copying, wr_ready, status, disconnect, send_over, pc,
                 history>>

Init ==
  /\ heap = <<>> /\ recycle = <<>>
  /\ que_send = <<>> /\ msg_send = NULL /\ send_len = 0
  /\ wr_ready = TRUE /\ status = "RUNNING"
  /\ disconnect = FALSE /\ send_over = FALSE
  /\ data = <<>> /\ size = 0 /\ body = <<>>
  /\ pc = "idle" /\ alive = TRUE
  /\ accepted = <<>> /\ queued = <<>> /\ wire = <<>>

Next ==
  \/ Send \/ CopyRound \/ CopyDone
  \/ Disconnect \/ Writable
  \/ PostSendIdle \/ PostSend \/ NextMessage
  \/ SendFull \/ SendPart \/ SendWouldBlock \/ SendFails
  \/ Destroy

Spec == Init /\ [][Next]_vars
-----------------------------------------------------------------------------
(* Properties. *)

\* The peer sees a prefix of what _send queued, in order, however send() splits it.
Stream == INSTANCE ByteStream WITH input <- queued, output <- wire
ImplementsByteStream == Stream!Spec

\* Nothing queued disappears inside the session: it is on the wire, in the Message being
\* sent or in the queue, in this order.
Pending ==
  (IF msg_send = NULL THEN <<>> ELSE Rest)
    \o FlattenSeq([i \in DOMAIN que_send |-> heap[que_send[i]].data])
NothingLost == alive => queued = wire \o Pending

\* A Message is in one place only: free in the pool, queued, or being sent.  Were it in
\* two, Send would overwrite bytes on their way out.
Holders == recycle \o que_send \o (IF msg_send = NULL THEN <<>> ELSE <<msg_send>>)
OneHolder == IsInjective(Holders)

\* shutdown is called with nothing left in the session: what _send copied is on the wire, byte
\* for byte, and it is as many bytes as the application handed to Send before.
OrderlyShutdownFlushes ==
  [][send_over' /\ ~send_over => wire = queued /\ Len(wire) = Len(accepted)]_vars

\* A client compares the echo with the packet it sent (test/session.js:71-80).
EchoIsWhatWasSent == IsPrefix(wire, accepted)
=============================================================================
