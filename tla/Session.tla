------------------------------- MODULE Session -------------------------------
(***************************************************************************)
(* One accepted connection of the Linux build: Net::Session                *)
(* (session_linux.cpp, session.cpp), the poller thread that reports its    *)
(* readiness (poller.cpp) and the kernel's socket and epoll set.           *)
(*                                                                         *)
(* Two threads touch the session.  The logic thread calls Update once per  *)
(* frame; Update holds _mutex from try_lock to unlock, and is cut here at  *)
(* its system calls, since the peer and the kernel move between them.  The *)
(* poller thread takes an event from epoll_wait, runs __session_cb__ under *)
(* the same mutex and then writes key->status outside it.                  *)
(*                                                                         *)
(* Data are abstracted to counts: received bytes in units of which Chunk   *)
(* make one receive buffer (MAX_BUFFER_SIZE), and outgoing messages of     *)
(* MsgUnits units each.  Framing and SendQueue model the data themselves.  *)
(***************************************************************************)
EXTENDS Naturals

CONSTANTS
  MaxData,    (* bound: units the peer sends                             *)
  MaxOut,     (* bound: messages the application hands to Send           *)
  Chunk,      (* units that fill the receive buffer                      *)
  MsgUnits    (* units of an outgoing message                            *)

ASSUME SessionAssumption ==
  /\ MaxData \in Nat
  /\ MaxOut \in Nat
  /\ Chunk \in Nat \ {0}
  /\ MsgUnits \in Nat \ {0}

VARIABLES
  (* the Session object *)
  status,       (* _status                                               *)
  events,       (* _events, the bits as a set                            *)
  in_epoll,     (* _in_epoll                                             *)
  rd_ready,     (* _rd_ready                                             *)
  wr_ready,     (* _wr_ready                                             *)
  disconnect,   (* _disconnect                                           *)
  send_over,    (* _send_over                                            *)
  recv_over,    (* _recv_over                                            *)
  out,          (* messages in _que_send, and _msg_send if there is one  *)
  send_len,     (* _send_len                                             *)
  budget,       (* calls of Send the application still makes             *)
  stale,        (* 60 s have passed since _last_active_t                 *)
  deleted,      (* the object has been destroyed                         *)
  (* the two threads *)
  pc,           (* where the logic thread is in Update                   *)
  should_close, (* Update's local                                        *)
  poll,         (* where the poller thread is with this key              *)
  evt,          (* the mask epoll_wait gave it                           *)
  key_status,   (* _key->status                                          *)
  (* the kernel *)
  rbuf,         (* received units not read yet                           *)
  writable,     (* the send buffer has room                              *)
  fin,          (* the peer has closed its direction                     *)
  rst,          (* the connection was reset, or keepalive gave it up     *)
  so_error,     (* the socket's pending error                            *)
  shut,         (* shutdown(SHUT_RDWR) was called                        *)
  fd_open,      (* the descriptor is open                                *)
  armed,        (* the one-shot registration has not fired               *)
  ready,        (* it is on epoll's ready list                           *)
  (* history *)
  delivered,    (* units handed to _on_recv                              *)
  timed_out,    (* the activity check has fired                          *)
  closing       (* Updates that have left the session PRECLOSED          *)

object  == <<status, events, in_epoll, rd_ready, wr_ready, disconnect, send_over,
             recv_over, out, send_len, budget, stale, deleted>>
threads == <<pc, should_close, poll, evt, key_status>>
kernel  == <<rbuf, writable, fin, rst, so_error, shut, fd_open, armed, ready>>
history == <<delivered, timed_out, closing>>
vars    == <<object, threads, kernel, history>>

Statuses == {"RUNNING", "ERROR", "PRECLOSED", "CLOSED"}
EventBits == {"IN", "OUT", "RDHUP", "HUP", "ERR"}

ObjectFlagsOK ==
  /\ in_epoll \in BOOLEAN /\ rd_ready \in BOOLEAN /\ wr_ready \in BOOLEAN
  /\ disconnect \in BOOLEAN /\ send_over \in BOOLEAN /\ recv_over \in BOOLEAN
  /\ stale \in BOOLEAN /\ deleted \in BOOLEAN /\ should_close \in BOOLEAN

KernelFlagsOK ==
  /\ writable \in BOOLEAN /\ fin \in BOOLEAN /\ rst \in BOOLEAN
  /\ so_error \in BOOLEAN /\ shut \in BOOLEAN /\ fd_open \in BOOLEAN
  /\ armed \in BOOLEAN /\ ready \in BOOLEAN /\ timed_out \in BOOLEAN

CountsOK ==
  /\ out \in Nat
  /\ send_len \in 0..(MsgUnits - 1)
  /\ budget \in 0..MaxOut
  /\ rbuf \in Nat
  /\ delivered \in Nat
  /\ closing \in Nat

StatesOK ==
  /\ status \in Statuses
  /\ events \in SUBSET EventBits
  /\ evt \in SUBSET EventBits
  /\ pc \in {"idle", "recv", "send", "finish"}
  /\ poll \in {"wait", "got", "mark"}
  /\ key_status \in {"PENDING", "COMPLETED"}

TypeOK == ObjectFlagsOK /\ KernelFlagsOK /\ CountsOK /\ StatesOK
-----------------------------------------------------------------------------
(* The kernel, as far as src/ can observe it. *)

\* What poll reports of the socket now.
Mask ==
  (IF rbuf > 0 \/ fin \/ rst \/ shut THEN {"IN"} ELSE {})
    \cup (IF writable \/ rst \/ shut THEN {"OUT"} ELSE {})
    \cup (IF fin \/ rst \/ shut THEN {"RDHUP"} ELSE {})
    \cup (IF rst \/ shut THEN {"HUP"} ELSE {})
    \cup (IF so_error THEN {"ERR"} ELSE {})

\* What Update asks for; EPOLLERR and EPOLLHUP are reported unasked.
InterestWithoutOut == {"IN", "RDHUP"}
Interest == {"IN", "OUT", "RDHUP"}

Report == Mask \cap (Interest \cup {"HUP", "ERR"})

\* A change of the socket puts an armed registration on the ready list.
Wake == ready' = (ready \/ armed)

PeerSends ==
  /\ fd_open /\ ~fin /\ ~rst /\ ~shut
  /\ delivered + rbuf < MaxData
  /\ rbuf' = rbuf + 1
  /\ Wake
  /\ UNCHANGED <<object, threads, history, writable, fin, rst, so_error, shut, fd_open, armed>>

PeerDrains ==
  /\ fd_open /\ ~rst
  /\ ~writable
  /\ writable' = TRUE
  /\ Wake
  /\ UNCHANGED <<object, threads, history, rbuf, fin, rst, so_error, shut, fd_open, armed>>

PeerCloses ==
  /\ fd_open /\ ~fin /\ ~rst
  /\ fin' = TRUE
  /\ Wake
  /\ UNCHANGED <<object, threads, history, rbuf, writable, rst, so_error, shut, fd_open, armed>>

PeerResets ==
  /\ fd_open /\ ~rst
  /\ rst' = TRUE
  /\ so_error' = TRUE
  /\ Wake
  /\ UNCHANGED <<object, threads, history, rbuf, writable, fin, shut, fd_open, armed>>

Environment == PeerSends \/ PeerDrains \/ PeerCloses \/ PeerResets
-----------------------------------------------------------------------------
(* The poller thread. *)

\* epoll_wait: a ready registration is reported with the current mask and disarmed
\* (EPOLLONESHOT), or dropped from the list when there is nothing to report.
Harvest ==
  /\ poll = "wait"
  /\ ready
  /\ ready' = FALSE
  /\ IF Report = {}
       THEN UNCHANGED <<poll, evt, armed>>
       ELSE poll' = "got" /\ evt' = Report /\ armed' = FALSE
  /\ UNCHANGED <<object, history, pc, should_close, key_status, rbuf, writable, fin, rst,
                 so_error, shut, fd_open>>

\* __session_cb__: the mask replaces _events, and the registration is known to be spent.
RecordKeepingInEpoll(e) == events' = e /\ UNCHANGED in_epoll
Record(e) == events' = e /\ in_epoll' = FALSE

\* key->func(key->obj, evt.events).  _mutex is free unless an Update is under way.
\* On a destroyed session the call writes freed memory that the model does not reuse.
SessionCb ==
  /\ poll = "got"
  /\ pc = "idle"
  /\ poll' = "mark"
  /\ evt' = {}
  /\ IF deleted
       THEN UNCHANGED <<events, in_epoll>>
       ELSE Record(evt)
  /\ UNCHANGED <<kernel, history, pc, should_close, key_status, status, rd_ready, wr_ready,
                 disconnect, send_over, recv_over, out, send_len, budget, stale, deleted>>

\* key->status = IO_STATUS_COMPLETED, after the callback and outside the mutex.
MarkKey ==
  /\ poll = "mark"
  /\ poll' = "wait"
  /\ key_status' = IF deleted THEN key_status ELSE "COMPLETED"
  /\ UNCHANGED <<object, kernel, history, pc, should_close, evt>>

Poller == Harvest \/ SessionCb \/ MarkKey
-----------------------------------------------------------------------------
(* The logic thread. *)

\* The bits that make Update close the session.
ClosingBitsWithoutRdhup == {"ERR", "HUP"}
ClosingBits == {"ERR", "HUP", "RDHUP"}

\* Update up to _post_recv: take the event bits.  CNetMgr deletes a session as soon as an
\* Update has left it CLOSED, so it never updates a CLOSED one.
UpdateBegin ==
  /\ pc = "idle" /\ ~deleted
  /\ status # "CLOSED"
  /\ pc' = "recv"
  /\ should_close' = (events \cap ClosingBits # {})
  /\ rd_ready' = (rd_ready \/ events \cap {"IN", "HUP"} # {})
  /\ wr_ready' = (wr_ready \/ "OUT" \in events)
  /\ so_error' = (so_error /\ "ERR" \notin events)
  /\ events' = {}
  /\ UNCHANGED <<history, status, in_epoll, disconnect, send_over, recv_over, out, send_len,
                 budget, stale, deleted, poll, evt, key_status, rbuf, writable, fin, rst, shut,
                 fd_open, armed, ready>>

MayRecv == ~recv_over /\ status = "RUNNING" /\ rd_ready

RecvSkipped ==
  /\ pc = "recv" /\ ~MayRecv
  /\ pc' = "send"
  /\ UNCHANGED <<object, kernel, history, should_close, poll, evt, key_status>>

\* After n units: a full buffer may have left more in the kernel, a short one has not.
AfterRecvOnce(n) == "send"
AfterRecv(n) == IF n = Chunk THEN "recv" ELSE "send"

\* How much one recv takes.
ReceivedWholeBuffer == Chunk
Received == IF rbuf < Chunk THEN rbuf ELSE Chunk

\* recv returned data.  A full buffer means another round; _on_recv may complete a
\* packet (which refreshes _last_active_t) or meet an invalid length (Disconnect).
RecvData ==
  /\ pc = "recv" /\ MayRecv
  /\ rbuf > 0
  /\ rbuf' = rbuf - Received
  /\ delivered' = delivered + Received
  /\ pc' = AfterRecv(Received)
  /\ stale' \in {stale, FALSE}
  /\ disconnect' \in {disconnect, TRUE}
  /\ UNCHANGED <<status, events, in_epoll, rd_ready, wr_ready, send_over, recv_over, out,
                 send_len, budget, deleted, should_close, poll, evt, key_status, writable, fin,
                 rst, so_error, shut, fd_open, armed, ready, timed_out, closing>>

RecvWouldBlock ==
  /\ pc = "recv" /\ MayRecv
  /\ rbuf = 0 /\ ~fin /\ ~rst /\ ~shut
  /\ pc' = "send"
  /\ rd_ready' = FALSE
  /\ UNCHANGED <<kernel, history, should_close, poll, evt, key_status, status, events, in_epoll,
                 wr_ready, disconnect, send_over, recv_over, out, send_len, budget, stale,
                 deleted>>

RecvFails ==
  /\ pc = "recv" /\ MayRecv
  /\ rbuf = 0 /\ so_error
  /\ pc' = "send"
  /\ status' = "ERROR"
  /\ so_error' = FALSE
  /\ UNCHANGED <<history, should_close, poll, evt, key_status, events, in_epoll, rd_ready,
                 wr_ready, disconnect, send_over, recv_over, out, send_len, budget, stale,
                 deleted, rbuf, writable, fin, rst, shut, fd_open, armed, ready>>

RecvEof ==
  /\ pc = "recv" /\ MayRecv
  /\ rbuf = 0 /\ ~so_error /\ (fin \/ rst \/ shut)
  /\ pc' = "send"
  /\ recv_over' = TRUE
  /\ disconnect' = TRUE
  /\ UNCHANGED <<kernel, history, should_close, poll, evt, key_status, status, events, in_epoll,
                 rd_ready, wr_ready, send_over, out, send_len, budget, stale, deleted>>

PostRecv == RecvSkipped \/ RecvData \/ RecvWouldBlock \/ RecvFails \/ RecvEof

\* _post_send with nothing queued: a pending Disconnect shuts the connection down.
SendIdle ==
  /\ pc = "send" /\ out = 0
  /\ pc' = "finish"
  /\ IF disconnect /\ ~send_over
       THEN send_over' = TRUE /\ shut' = TRUE /\ Wake
       ELSE UNCHANGED <<send_over, shut, ready>>
  /\ UNCHANGED <<history, should_close, poll, evt, key_status, status, events, in_epoll, rd_ready,
                 wr_ready, disconnect, recv_over, out, send_len, budget, stale, deleted, rbuf,
                 writable, fin, rst, so_error, fd_open, armed>>

MaySend == ~send_over /\ status = "RUNNING" /\ wr_ready

SendSkipped ==
  /\ pc = "send" /\ out > 0 /\ ~MaySend
  /\ pc' = "finish"
  /\ UNCHANGED <<object, kernel, history, should_close, poll, evt, key_status>>

\* send took all that was left of the message: free it and go on with the next one.
\* The room in the send buffer afterwards is the kernel's choice.
SendFull ==
  /\ pc = "send" /\ out > 0 /\ MaySend
  /\ writable /\ ~rst
  /\ out' = out - 1
  /\ send_len' = 0
  /\ pc' = IF out = 1 THEN "finish" ELSE "send"
  /\ writable' \in BOOLEAN
  /\ UNCHANGED <<history, should_close, poll, evt, key_status, status, events, in_epoll, rd_ready,
                 wr_ready, disconnect, send_over, recv_over, budget, stale, deleted, rbuf, fin,
                 rst, so_error, shut, fd_open, armed, ready>>

\* send took a part of it: leave Update's loop, _wr_ready stays set.
SendPart ==
  /\ pc = "send" /\ out > 0 /\ MaySend
  /\ writable /\ ~rst
  /\ \E n \in 1..(MsgUnits - 1) :
       /\ send_len + n < MsgUnits
       /\ send_len' = send_len + n
  /\ pc' = "finish"
  /\ writable' \in BOOLEAN
  /\ UNCHANGED <<history, should_close, poll, evt, key_status, status, events, in_epoll, rd_ready,
                 wr_ready, disconnect, send_over, recv_over, out, budget, stale, deleted, rbuf,
                 fin, rst, so_error, shut, fd_open, armed, ready>>

SendWouldBlock ==
  /\ pc = "send" /\ out > 0 /\ MaySend
  /\ ~writable /\ ~rst
  /\ pc' = "finish"
  /\ wr_ready' = FALSE
  /\ UNCHANGED <<kernel, history, should_close, poll, evt, key_status, status, events, in_epoll,
                 rd_ready, disconnect, send_over, recv_over, out, send_len, budget, stale,
                 deleted>>

SendFails ==
  /\ pc = "send" /\ out > 0 /\ MaySend
  /\ rst
  /\ pc' = "finish"
  /\ status' = "ERROR"
  /\ so_error' = FALSE
  /\ UNCHANGED <<history, should_close, poll, evt, key_status, events, in_epoll, rd_ready,
                 wr_ready, disconnect, send_over, recv_over, out, send_len, budget, stale,
                 deleted, rbuf, writable, fin, rst, shut, fd_open, armed, ready>>

PostSend == SendIdle \/ SendSkipped \/ SendFull \/ SendPart \/ SendWouldBlock \/ SendFails

StatusAfterHasty(s) ==
  CASE s = "RUNNING"   -> IF send_over /\ recv_over THEN "PRECLOSED" ELSE "RUNNING"
    [] s = "ERROR"     -> "CLOSED"
    [] s = "PRECLOSED" -> "CLOSED"
    [] OTHER           -> s

\* The switch of Update: the status it leaves, from the status it finds.
StatusAfter(s) ==
  CASE s = "RUNNING"   -> IF send_over /\ recv_over THEN "PRECLOSED" ELSE "RUNNING"
    [] s = "ERROR"     -> "PRECLOSED"
    [] s = "PRECLOSED" -> "CLOSED"
    [] OTHER           -> s

\* g_net_close_socket(_socket): epoll forgets a descriptor that is closed, so the
\* UnregisterHandler(-1) that follows it has nothing left to do.
CloseSocket ==
  /\ fd_open' = FALSE
  /\ armed' = FALSE
  /\ ready' = FALSE

\* Update registers a running session that is not registered.
ArmsAlways(s) == s = "RUNNING"
ArmsWhileOpen(s) == ~in_epoll /\ s # "CLOSED"
Arms(s) == ~in_epoll /\ s = "RUNNING"

\* RegisterHandler: arm the one-shot registration; epoll_ctl looks at the socket at once.
RegisterHandler ==
  /\ armed' = TRUE
  /\ ready' = (Report # {})
  /\ key_status' = "PENDING"
  /\ in_epoll' = TRUE

\* Update from its switch to unlock.
UpdateEnd ==
  /\ pc = "finish"
  /\ pc' = "idle"
  /\ LET found == IF should_close THEN "ERROR" ELSE status IN
       /\ status' = StatusAfter(found)
       /\ IF found = "PRECLOSED"
            THEN CloseSocket
            ELSE UNCHANGED fd_open
       /\ IF found = "RUNNING" /\ stale
            THEN disconnect' = TRUE /\ timed_out' = TRUE /\ stale' = FALSE
            ELSE UNCHANGED <<disconnect, timed_out, stale>>
       /\ IF Arms(status')
            THEN RegisterHandler
            ELSE /\ UNCHANGED <<in_epoll, key_status>>
                 /\ found # "PRECLOSED" => UNCHANGED <<armed, ready>>
  /\ closing' = IF status' = "PRECLOSED" THEN closing + 1 ELSE closing
  /\ should_close' = FALSE
  /\ UNCHANGED <<events, rd_ready, wr_ready, send_over, recv_over, out, send_len, budget, deleted,
                 poll, evt, rbuf, writable, fin, rst, so_error, shut, delivered>>

Update == UpdateBegin \/ PostRecv \/ PostSend \/ UpdateEnd

\* CNetMgr::Update deletes a Disposable session.
Destroy ==
  /\ pc = "idle" /\ ~deleted
  /\ status = "CLOSED"
  /\ deleted' = TRUE
  /\ UNCHANGED <<threads, kernel, history, status, events, in_epoll, rd_ready, wr_ready,
                 disconnect, send_over, recv_over, out, send_len, budget, stale>>

\* Send, called by the logic thread between two Updates.
Send ==
  /\ pc = "idle" /\ ~deleted
  /\ status = "RUNNING"
  /\ budget > 0
  /\ budget' = budget - 1
  /\ out' = out + 1
  /\ UNCHANGED <<threads, kernel, history, status, events, in_epoll, rd_ready, wr_ready,
                 disconnect, send_over, recv_over, send_len, stale, deleted>>

\* Disconnect, called by CNetMgr::End on an Active session.
Disconnect ==
  /\ pc = "idle" /\ ~deleted
  /\ status = "RUNNING"
  /\ disconnect' = TRUE
  /\ UNCHANGED <<threads, kernel, history, status, events, in_epoll, rd_ready, wr_ready,
                 send_over, recv_over, out, send_len, budget, stale, deleted>>

\* get_current_time() - _last_active_t passes 60.
Idle60 ==
  /\ ~deleted /\ ~stale
  /\ stale' = TRUE
  /\ UNCHANGED <<threads, kernel, history, status, events, in_epoll, rd_ready, wr_ready,
                 disconnect, send_over, recv_over, out, send_len, budget, deleted>>

\* The session as the constructor and Attach leave it, listed by OnAccepted.
Init ==
  /\ status = "RUNNING" /\ events = {}
  /\ in_epoll = FALSE /\ rd_ready = TRUE /\ wr_ready = TRUE
  /\ disconnect = FALSE /\ send_over = FALSE /\ recv_over = FALSE
  /\ out = 0 /\ send_len = 0 /\ budget = MaxOut
  /\ stale = FALSE /\ deleted = FALSE
  /\ pc = "idle" /\ should_close = FALSE
  /\ poll = "wait" /\ evt = {} /\ key_status = "COMPLETED"
  /\ rbuf = 0 /\ writable = TRUE
  /\ fin = FALSE /\ rst = FALSE /\ so_error = FALSE /\ shut = FALSE
  /\ fd_open = TRUE /\ armed = FALSE /\ ready = FALSE
  /\ delivered = 0 /\ timed_out = FALSE /\ closing = 0

Next == Environment \/ Poller \/ Update \/ Destroy \/ Send \/ Disconnect \/ Idle60

Spec == Init /\ [][Next]_vars

\* The frame loop keeps calling Update and deletes what is disposable.  The poller
\* thread keeps running; _mutex is free most of the time (the logic thread sleeps
\* outside it in every frame), so a callback waiting for it gets it in the end.
Fairness ==
  /\ WF_vars(Update)
  /\ WF_vars(Destroy)
  /\ WF_vars(Harvest)
  /\ SF_vars(SessionCb)
  /\ WF_vars(MarkKey)

FairSpec == Spec /\ Fairness

\* Where a property says so: the peer reads what it is sent.
PeerReads == WF_vars(PeerDrains)
-----------------------------------------------------------------------------
(* Properties. *)

\* A mask the poller recorded is never overwritten before Update has taken it: the
\* callback assigns _events instead of or-ing into it, and that is sound only because
\* Update arms the next registration after it consumed the previous event.
NoEventOverwritten == [][events # {} /\ events' # {} => events' = events]_vars

\* What the kernel knows and Update does not: input while _rd_ready is off, room while
\* _wr_ready is off, or the end of the connection.
News ==
  \/ rbuf > 0 /\ ~rd_ready
  \/ writable /\ ~wr_ready
  \/ fin \/ rst \/ shut

\* News is on its way, or the next Update asks for it.
Announced == ready \/ poll = "got" \/ events # {} \/ ~in_epoll

\* No wake-up is lost: an edge-triggered one-shot registration reports a change once, so a
\* running session must never rest on a registration that has already had its say.
NoLostWakeup == status = "RUNNING" => (News => Announced)

\* The third Update after a session has left RUNNING finds it CLOSED at the latest.  Update
\* sends a PRECLOSED session that got a closing event through ERROR to PRECLOSED again, and
\* the socket reports HUP for ever: only one such event can still arrive, since the
\* registration is one-shot and is renewed in RUNNING alone.
ClosesPromptly == closing <= 2

\* Unless the connection was reset, everything the peer sent is handed over before the
\* session closes, although EPOLLRDHUP alone makes Update close it.
AllReadBeforeClose == status \in {"PRECLOSED", "CLOSED"} /\ ~rst => rbuf = 0

\* The session keeps the promise GameFrame relies on.
Life == INSTANCE Lifecycle WITH
  phase <- IF deleted THEN "DELETED" ELSE IF status = "ERROR" THEN "RUNNING" ELSE status,
  busy <- pc # "idle"
ImplementsLifecycle == Life!Spec

\* A session whose peer has gone is closed and destroyed, whatever is still queued.
PeerGoneDestroys == (fin \/ rst) ~> deleted

\* Input does not stay in the kernel.
InputIsRead == rbuf > 0 ~> (rbuf = 0 \/ deleted)

\* What was sent leaves the queue, given a peer that reads.
OutputIsSent == PeerReads => (out > 0 ~> (out = 0 \/ deleted))

\* Disconnect ends the session, given a peer that reads.
DisconnectDestroys == PeerReads => (disconnect ~> deleted)

\* "Disconnected for Response Timeout" (session_linux.cpp:136), without that assumption.
TimeoutDestroys == timed_out ~> deleted

\* IO_STATUS_COMPLETED is "CALLBACK completed" (netbase.h:33): no callback is due then.
CompletedMeansCallbackDone ==
  key_status = "COMPLETED" => ~armed /\ poll # "got"
=============================================================================
