------------------------------ MODULE SessionWin ------------------------------
(***************************************************************************)
(* One connection of the Windows build: Net::Session (session_win32.cpp),  *)
(* its two PerIoData (netbase.cpp) and the threads of the completion port  *)
(* (poller.cpp).                                                           *)
(*                                                                         *)
(* The session asks the kernel for one receive and one send at a time.  A  *)
(* poller thread writes the outcome into the PerIoData of the session, and *)
(* its _status last; the logic thread looks at _status only, without a     *)
(* lock.  Update is cut where it looks at an operation.                    *)
(***************************************************************************)
EXTENDS Naturals

CONSTANTS
  MaxSend    (* bound: calls of Send                                *)

ASSUME SessionWinAssumption == MaxSend \in Nat

VARIABLES
  w_status,                          (* _status; "DELETED" at last             *)
  io,                                (* _io_recv and _io_send                  *)
  w_disconnect, w_send_over, w_recv_over,
  w_queue,                           (* messages in _que_send                  *)
  w_pc,                              (* where Update is                        *)
  writer,                            (* operations a poller thread writes      *)
  w_sent,                            (* calls of Send so far                   *)
  w_fin                              (* the peer has closed its direction      *)

win == <<w_status, io, w_disconnect, w_send_over, w_recv_over, w_queue, w_pc, writer,
         w_sent, w_fin>>

Ops == {"recv", "send"}
Flags == <<w_disconnect, w_send_over, w_recv_over>>
Outside == <<w_sent, w_fin>>

\* PerIoData as constructed, and after Reset().
Idle == [status |-> "IDLE", succ |-> FALSE, bytes |-> 0]
Asked == [status |-> "PENDING", succ |-> FALSE, bytes |-> 0]

\* WSARecv or WSASend: it is under way, or it fails at once, which ends the session's running.
Post(op, ios) ==
  \/ io' = [ios EXCEPT ![op] = Asked] /\ UNCHANGED w_status
  \/ io' = [ios EXCEPT ![op] = [Asked EXCEPT !.status = "ERROR"]] /\ w_status' = "ERROR"

SessionWinInit ==
  /\ w_status = "NONE" /\ io = [op \in Ops |-> Idle]
  /\ w_disconnect = FALSE /\ w_send_over = FALSE /\ w_recv_over = FALSE
  /\ w_queue = 0 /\ w_pc = "attach" /\ writer = {} /\ w_sent = 0 /\ w_fin = FALSE

\* Attach; when the port refuses the socket it returns with the session as it was, and for good.
AttachWin ==
  /\ w_pc = "attach"
  /\ w_pc' = "out"
  /\ \/ UNCHANGED <<w_status, io>>
     \/ io' = [io EXCEPT !["recv"] = Asked] /\ w_status' = "RUNNING"
     \/ io' = [io EXCEPT !["recv"] = [Asked EXCEPT !.status = "ERROR"]] /\ w_status' = "ERROR"
  /\ UNCHANGED <<Flags, w_queue, writer, Outside>>

\* Update begins: _dispose_recv.
Completed(op) == io[op].status = "COMPLETED"
Freed(op) == [io EXCEPT ![op].status = "IDLE"]

DisposeRecv ==
  /\ w_pc = "out" /\ w_status # "DELETED"
  /\ w_pc' = "send"
  /\ \/ /\ w_status # "RUNNING" \/ w_recv_over \/ ~Completed("recv")
        /\ UNCHANGED <<w_status, io, Flags>>
     \/ /\ w_status = "RUNNING" /\ ~w_recv_over /\ Completed("recv")
        /\ \/ /\ io["recv"].succ /\ io["recv"].bytes > 0
              /\ Post("recv", Freed("recv"))
              /\ w_disconnect' \in {w_disconnect, TRUE}   (* _on_recv: an invalid length *)
              /\ UNCHANGED <<w_send_over, w_recv_over>>
           \/ /\ io["recv"].succ /\ io["recv"].bytes = 0
              /\ w_recv_over' = TRUE /\ w_disconnect' = TRUE
              /\ io' = Freed("recv")
              /\ UNCHANGED <<w_status, w_send_over>>
           \/ /\ ~io["recv"].succ
              /\ w_status' = "ERROR"
              /\ io' = Freed("recv")
              /\ UNCHANGED <<Flags>>
  /\ UNCHANGED <<w_queue, writer, Outside>>

\* _dispose_send, and _post_send when no send is under way.
DisposeSend ==
  /\ w_pc = "send"
  /\ w_pc' = "switch"
  /\ \/ /\ w_status # "RUNNING" \/ w_send_over \/ io["send"].status \notin {"IDLE", "COMPLETED"}
        /\ UNCHANGED <<w_status, io, w_send_over, w_queue>>
     \/ /\ w_status = "RUNNING" /\ ~w_send_over
        /\ \/ /\ io["send"].status = "IDLE" /\ w_queue = 0
              /\ w_send_over' = w_disconnect
              /\ UNCHANGED <<w_status, io, w_queue>>
           \/ /\ io["send"].status = "IDLE" /\ w_queue > 0
              /\ w_queue' = w_queue - 1
              /\ Post("send", io)
              /\ UNCHANGED w_send_over
           \/ /\ Completed("send")
              /\ io' = Freed("send")
              /\ w_status' = IF io["send"].succ THEN w_status ELSE "ERROR"
              /\ UNCHANGED <<w_send_over, w_queue>>
  /\ UNCHANGED <<w_disconnect, w_recv_over, writer, Outside>>

\* The switch at the end of Update.
RestsAfterError(ios) == ios["recv"].status # "PENDING"
Rests(ios) == ios["recv"].status # "PENDING" /\ ios["send"].status # "PENDING"

SwitchStatus ==
  /\ w_pc = "switch"
  /\ w_pc' = "out"
  /\ w_status' = CASE w_status = "RUNNING" /\ w_recv_over /\ w_send_over -> "PRECLOSED"
                   [] w_status = "ERROR" /\ Rests(io) -> "PRECLOSED"
                   [] w_status = "PRECLOSED" -> "CLOSED"
                   [] OTHER -> w_status
  /\ UNCHANGED <<io, Flags, w_queue, writer, Outside>>

\* The application: Send while the session runs, Disconnect, and delete once it is Disposable.
SendWin ==
  /\ w_pc = "out" /\ w_status = "RUNNING" /\ w_sent < MaxSend
  /\ w_sent' = w_sent + 1 /\ w_queue' = w_queue + 1
  /\ UNCHANGED <<w_status, io, Flags, w_pc, writer, w_fin>>

DisconnectWin ==
  /\ w_pc = "out" /\ w_status = "RUNNING"
  /\ w_disconnect' = TRUE
  /\ UNCHANGED <<w_status, io, w_send_over, w_recv_over, w_queue, w_pc, writer, Outside>>

DeleteWin ==
  /\ w_pc = "out" /\ w_status = "CLOSED"
  /\ w_status' = "DELETED"
  /\ UNCHANGED <<io, Flags, w_queue, w_pc, writer, Outside>>

\* A poller thread has the completion of op: it writes the outcome, and then the status.
Outcomes(op) ==
  [status : {"PENDING"}, succ : BOOLEAN, bytes : IF op = "recv" /\ ~w_fin THEN {1} ELSE {0}]

PollerWrites(op) ==
  /\ op \notin writer
  /\ io[op].status = "PENDING"
  /\ \E o \in Outcomes(op) : io' = [io EXCEPT ![op] = o]
  /\ writer' = writer \cup {op}
  /\ UNCHANGED <<w_status, Flags, w_queue, w_pc, Outside>>

PollerMarks(op) ==
  /\ op \in writer
  /\ io' = [io EXCEPT ![op].status = "COMPLETED"]
  /\ writer' = writer \ {op}
  /\ UNCHANGED <<w_status, Flags, w_queue, w_pc, Outside>>

PeerCloses ==
  /\ ~w_fin
  /\ w_fin' = TRUE
  /\ UNCHANGED <<w_status, io, Flags, w_queue, w_pc, writer, w_sent>>

SessionWinNext ==
  \/ AttachWin \/ DisposeRecv \/ DisposeSend \/ SwitchStatus
  \/ SendWin \/ DisconnectWin \/ DeleteWin
  \/ \E op \in Ops : PollerWrites(op) \/ PollerMarks(op)
  \/ PeerCloses

SessionWinSpec == SessionWinInit /\ [][SessionWinNext]_win
-----------------------------------------------------------------------------
(* Properties. *)

\* A poller thread never writes into a session that was deleted, nor the kernel into its buffer:
\* whatever way the session ended, both of its operations are over before it may be deleted.
NoWriteAfterDelete ==
  w_status \in {"CLOSED", "DELETED"} => writer = {} /\ \A op \in Ops : io[op].status # "PENDING"
=============================================================================
