------------------------------- MODULE Listener -------------------------------
(***************************************************************************)
(* Net::Listener on Linux: the accept loop, which Init runs on the logic   *)
(* thread and then the callback on the poller thread, beside Close (main or*)
(* logic thread) and Update (logic thread).  The status has no lock: the   *)
(* accept loop may set it to ERROR at any time.                            *)
(*                                                                         *)
(* The accept loop is cut between its test of the status, accept4, and     *)
(* what it does with the result.  Its read of a deleted listener finds the *)
(* status that was left there, its write to one is lost.  The module is    *)
(* composed with its callers in Shutdown.                                  *)
(***************************************************************************)
EXTENDS Naturals, FiniteSets

CONSTANT
  Clients      (* connections that clients may open *)

VARIABLES
  l_status,   (* _status; NULL before Begin, DELETED after End               *)
  l_fd,       (* _listener is an open descriptor                             *)
  l_armed,    (* it is registered in epoll and has not reported              *)
  backlog,    (* connections waiting to be accepted                          *)
  acc,        (* where the accept loop stands                                *)
  acc_sock    (* the connections it has accepted and not yet handed over     *)

listener == <<l_status, l_fd, l_armed, backlog, acc, acc_sock>>

ListenerTypeOK ==
  /\ l_status \in {"NULL", "RUNNING", "ERROR", "CLOSING", "PRECLOSED", "CLOSED", "DELETED"}
  /\ {l_fd, l_armed} \subseteq BOOLEAN
  /\ backlog \subseteq Clients /\ acc_sock \subseteq Clients
  /\ acc \in {"idle", "check", "accept4", "accepted", "fail"}

ListenerInit ==
  /\ l_status = "NULL" /\ l_fd = FALSE /\ l_armed = FALSE
  /\ backlog = {} /\ acc = "idle" /\ acc_sock = {}
-----------------------------------------------------------------------------
(* The logic thread. *)

\* Init: socket, bind and listen, any of which may fail; _post_accept is entered.
Listen ==
  /\ l_status = "NULL"
  /\ \/ l_status' = "RUNNING" /\ l_fd' = TRUE /\ acc' = "check"
     \/ l_status' = "CLOSED" /\ UNCHANGED <<l_fd, acc>>
  /\ UNCHANGED <<l_armed, backlog, acc_sock>>

\* Update moves a listener that is not RUNNING one step, and closes it in PRECLOSED.
ListenerStepNoError(s) ==
  CASE s = "CLOSING" -> "PRECLOSED" [] s = "PRECLOSED" -> "CLOSED" [] OTHER -> s
ListenerStep(s) ==
  CASE s \in {"ERROR", "CLOSING"} -> "PRECLOSED" [] s = "PRECLOSED" -> "CLOSED" [] OTHER -> s

UnregisterOnly == l_armed' = FALSE /\ UNCHANGED l_fd
UnregisterAndClose == l_armed' = FALSE /\ l_fd' = FALSE

ListenerUpdate ==
  /\ l_status' = ListenerStep(l_status)
  /\ IF l_status = "PRECLOSED" THEN UnregisterAndClose ELSE UNCHANGED <<l_fd, l_armed>>
  /\ UNCHANGED <<backlog, acc, acc_sock>>

ListenerDelete ==
  /\ l_status = "CLOSED"
  /\ l_status' = "DELETED"
  /\ UNCHANGED <<l_fd, l_armed, backlog, acc, acc_sock>>
-----------------------------------------------------------------------------
(* Close, whose test and whose two assignments may be apart. *)

CloseListenerSocket ==
  /\ UnregisterAndClose
  /\ UNCHANGED <<l_status, backlog, acc, acc_sock>>

SetClosing ==
  /\ l_status' = "CLOSING"
  /\ UNCHANGED <<l_fd, l_armed, backlog, acc, acc_sock>>

CloseListener ==
  IF l_status = "RUNNING"
  THEN l_status' = "CLOSING" /\ UnregisterAndClose /\ UNCHANGED <<backlog, acc, acc_sock>>
  ELSE UNCHANGED listener
-----------------------------------------------------------------------------
(* __listener_cb__ on the poller thread, and _post_accept. *)

\* The report for the listening socket, and the callback's EPOLLERR or EPOLLIN.
ListenerEvent ==
  /\ acc = "idle" /\ l_armed
  /\ \/ backlog # {} /\ acc' = "check"
     \/ acc' = "fail"
  /\ l_armed' = FALSE
  /\ UNCHANGED <<l_status, l_fd, backlog, acc_sock>>

CheckStatus ==
  /\ acc = "check"
  /\ acc' = IF l_status = "RUNNING" THEN "accept4" ELSE "idle"
  /\ UNCHANGED <<l_status, l_fd, l_armed, backlog, acc_sock>>

Accept4 ==
  /\ acc = "accept4" /\ l_fd
  /\ \E c \in backlog :
       /\ backlog' = backlog \ {c}
       /\ \/ acc' = "accepted" /\ acc_sock' = {c}
          \/ acc' = "check" /\ UNCHANGED acc_sock    \* ECONNABORTED
  /\ UNCHANGED <<l_status, l_fd, l_armed>>

Accept4WouldBlock ==
  /\ acc = "accept4" /\ l_fd
  /\ backlog = {}
  /\ l_armed' = TRUE
  /\ acc' = "idle"
  /\ UNCHANGED <<l_status, l_fd, backlog, acc_sock>>

\* No descriptors left, or the descriptor has been closed (EBADF).
Accept4Fails ==
  /\ acc = "accept4"
  /\ acc' = "fail"
  /\ UNCHANGED <<l_status, l_fd, l_armed, backlog, acc_sock>>

\* _on_accept_error.
AcceptError ==
  /\ acc = "fail"
  /\ l_status' = IF l_status = "DELETED" THEN l_status ELSE "ERROR"
  /\ acc' = "idle"
  /\ UNCHANGED <<l_fd, l_armed, backlog, acc_sock>>

\* on_accept returns; the loop goes round.
HandedOver ==
  /\ acc = "accepted"
  /\ acc' = "check" /\ acc_sock' = {}
  /\ UNCHANGED <<l_status, l_fd, l_armed, backlog>>

AcceptLoop ==
  ListenerEvent \/ CheckStatus \/ Accept4 \/ Accept4WouldBlock \/ Accept4Fails \/ AcceptError
=============================================================================
