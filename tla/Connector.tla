------------------------------ MODULE Connector ------------------------------
(***************************************************************************)
(* Net::Connector on Linux, with the part of CNetMgr that owns it: the     *)
(* console's test connection, what OnConnected does with it, and Abort.    *)
(*                                                                         *)
(* OnConnected deletes the connector from within the connector's own       *)
(* callback and leaves m_connector set.  The freed memory is FREED here:   *)
(* _post_connect has left CLOSED and no events in it, so an Update or an   *)
(* Abort of it does nothing.  ConnTest overwrites m_connector: the old     *)
(* connector is lost.  So is the CServerSocket that OnConnected makes: it  *)
(* keeps the descriptor, and is in no list.  The module is composed in     *)
(* Shutdown.                                                               *)
(***************************************************************************)
EXTENDS Naturals

CONSTANT
  MaxTests     (* bound: `cc` commands *)

VARIABLES
  c_status,   (* of *m_connector; NULL: there is none; FREED: it was deleted  *)
  c_fd,       (* its _socket is an open descriptor, and its own               *)
  c_out,      (* EPOLLOUT is in its _events, which start uninitialised        *)
  c_net,      (* the kernel's connection                                      *)
  servers,    (* CServerSocket sessions, each with an open descriptor         *)
  tests       (* `cc` commands run                                            *)

connector == <<c_status, c_fd, c_out, c_net, servers, tests>>

ConnectorTypeOK ==
  /\ c_status \in {"NULL", "CONNECTING", "ERROR", "CLOSED", "FREED"}
  /\ {c_fd, c_out} \subseteq BOOLEAN
  /\ c_net \in {"none", "connecting", "established", "refused"}
  /\ tests \in 0..MaxTests /\ servers \in 0..tests

ConnectorInit ==
  /\ c_status = "NULL" /\ c_net = "none" /\ servers = 0 /\ tests = 0
  /\ c_fd = FALSE /\ c_out = FALSE
-----------------------------------------------------------------------------
(* The logic thread. *)

\* on_connect, OnConnected: a session takes the socket and the key, the connector goes.  Nothing
\* updates, disconnects or deletes the session.
Connected ==
  /\ c_status' = "FREED" /\ c_net' = "none"
  /\ c_fd' = FALSE /\ c_out' = FALSE
  /\ servers' = servers + 1

\* ConnTest and Connect, with the results socket and connect may have.
ConnTest ==
  /\ tests < MaxTests
  /\ tests' = tests + 1
  /\ \/ /\ c_status' = "CONNECTING" /\ c_net' = "connecting"      \* EINPROGRESS
        /\ c_fd' = TRUE /\ c_out' \in BOOLEAN /\ UNCHANGED servers
     \/ /\ c_status' = "ERROR" /\ c_net' = "none"
        /\ c_fd' = TRUE /\ c_out' = FALSE /\ UNCHANGED servers
     \/ /\ c_status' = "CLOSED" /\ c_net' = "none"
        /\ c_fd' = FALSE /\ c_out' = FALSE /\ UNCHANGED servers
     \/ Connected

\* Update: an EPOLLOUT makes _post_connect call connect once more, which succeeds when the
\* connection stands and fails otherwise: it was refused, it is still being set up (an _events
\* that was never written said EPOLLOUT) or Abort has closed the socket.  ERROR becomes CLOSED
\* in the switch of the same Update.
Settle ==
  /\ c_status' = IF c_status = "ERROR" \/ (c_out /\ c_status = "CONNECTING")
                 THEN "CLOSED" ELSE c_status
  /\ c_out' = FALSE
  /\ c_net' = IF c_status' = "CLOSED" THEN "none" ELSE c_net
  /\ UNCHANGED <<c_fd, servers>>

ConnectorUpdate ==
  /\ IF c_out /\ c_status = "CONNECTING" /\ c_fd /\ c_net = "established"
     THEN Connected
     ELSE Settle
  /\ UNCHANGED tests

\* Abort closes the socket of a connection that is being set up, and only that.
AbortSocket ==
  IF c_status = "CONNECTING"
  THEN c_fd' = FALSE /\ UNCHANGED <<c_status, c_out, c_net, servers, tests>>
  ELSE UNCHANGED connector

ConnectorDisposable == c_status \in {"CLOSED", "FREED"}

ConnectorDelete ==
  /\ c_status' = "NULL" /\ c_fd' = FALSE
  /\ UNCHANGED <<c_out, c_net, servers, tests>>
-----------------------------------------------------------------------------
(* The kernel, and the poller thread with __connector_cb__.  The registration reports once;
   what is said of a connector that no longer waits has no effect on it. *)

NetAnswers ==
  /\ c_status = "CONNECTING" /\ c_net = "connecting"
  /\ c_net' \in {"established", "refused"}
  /\ UNCHANGED <<c_status, c_fd, c_out, servers, tests>>

ConnectorEvent ==
  /\ c_status = "CONNECTING" /\ c_fd
  /\ c_net \in {"established", "refused"}
  /\ c_out' = TRUE
  /\ UNCHANGED <<c_status, c_fd, c_net, servers, tests>>
=============================================================================
