------------------------------- MODULE Shutdown -------------------------------
(***************************************************************************)
(* The end of the process: the main thread with the quit command, the      *)
(* logic thread with CNetMgr::Begin, Update and End, the poller thread, the*)
(* listener and the test connector they share, and the clients.            *)
(*                                                                         *)
(* A session is what Lifecycle promises, with what moves it: Disconnect,   *)
(* the shutdown its next Update then calls, the peer's end, and the hang-up*)
(* that the poller reports after either.  Sessions with output queued for a*)
(* peer that does not read are Session's subject; here nothing is queued.  *)
(* m_lstServers is empty: OnConnected never adds to it.                    *)
(***************************************************************************)
EXTENDS Naturals, Sequences, SequencesExt, FiniteSets, Listener, Connector

CONSTANT
  MaxConns     (* bound: connections made, by the clients and by `cc` together *)

ASSUME ShutdownAssumption ==
  /\ IsFiniteSet(Clients)
  /\ {MaxTests, MaxConns} \subseteq Nat

VARIABLES
  (* the threads *)
  main,       (* where the main thread stands                           *)
  pc,         (* where the logic thread stands                          *)
  m_bRunning, (* of the ServerFrame                                     *)
  thread,     (* the poller thread: start, loop, stopped                *)
  _running,   (* of the Poller                                          *)
  epoll_fd,   (* its epoll descriptor is open                           *)
  (* sessions *)
  m_lstClients,
  phase,      (* of each client's session                               *)
  disc,       (* _disconnect                                            *)
  hung,       (* the peer has closed, or shutdown(SHUT_RDWR) was called *)
  seen,       (* the hang-up: not reported, in _events, or taken        *)
  it,         (* Update's iterator, as an index                         *)
  (* history *)
  came,       (* clients that have connected                            *)
  late,       (* those listed after End has told the others to leave    *)
  missed      (* those listed after End has returned                    *)

threads  == <<main, pc, m_bRunning, thread, _running, epoll_fd>>
sessions == <<m_lstClients, phase, disc, hung, seen, it>>
history  == <<came, late, missed>>
vars     == <<listener, connector, threads, sessions, history>>

TypeOK ==
  /\ ListenerTypeOK /\ ConnectorTypeOK
  /\ main \in {"run", "close", "closing", "abort", "stop", "join", "release", "exited"}
  /\ pc \in {"begin", "init", "frame", "connector", "clients", "end", "end_listener",
             "end_abort", "end_connector", "disconnect", "servers", "end_clients", "done",
             "aborted"}
  /\ thread \in {"start", "loop", "stopped"}
  /\ {m_bRunning, _running, epoll_fd} \subseteq BOOLEAN
  /\ m_lstClients \in Seq(Clients)
  /\ phase \in [Clients -> {"NONE", "RUNNING", "PRECLOSED", "CLOSED", "DELETED"}]
  /\ {disc, hung} \subseteq [Clients -> BOOLEAN]
  /\ seen \in [Clients -> {"no", "event", "taken"}]
  /\ it \in 1..(Len(m_lstClients) + 1)
  /\ {came, late, missed} \subseteq SUBSET Clients
-----------------------------------------------------------------------------
(* The clients. *)

MoreConns == Cardinality(came) + tests < MaxConns

\* Bound: a client connects once.
PeerConnects(c) ==
  /\ l_fd /\ MoreConns
  /\ c \notin came /\ came' = came \cup {c}
  /\ backlog' = backlog \cup {c}
  /\ UNCHANGED <<l_status, l_fd, l_armed, acc, acc_sock, connector, threads, sessions>>
  /\ UNCHANGED <<late, missed>>

PeerCloses(c) ==
  /\ phase[c] = "RUNNING" /\ ~hung[c]
  /\ hung' = [hung EXCEPT ![c] = TRUE]
  /\ UNCHANGED <<listener, connector, threads, m_lstClients, phase, disc, seen, it, history>>

-----------------------------------------------------------------------------
(* The poller thread. *)

PollerStarts ==
  /\ thread = "start"
  /\ thread' = "loop"
  /\ _running' = TRUE
  /\ UNCHANGED <<main, pc, m_bRunning, epoll_fd, listener, connector, sessions, history>>

\* It is in no callback; the accept loop of Init is the logic thread's.
PollerIsFree == acc = "idle" \/ pc = "init"

\* The loop's test, or epoll_wait with a descriptor that has been closed.
PollerMayStopOnFlag == ~_running
PollerMayStop == ~_running \/ ~epoll_fd

PollerStops ==
  /\ thread = "loop" /\ PollerIsFree
  /\ PollerMayStop
  /\ thread' = "stopped"
  /\ UNCHANGED <<main, pc, m_bRunning, _running, epoll_fd, listener, connector, sessions, history>>

Polling == thread = "loop" /\ epoll_fd

\* EPOLLHUP or EPOLLRDHUP, for the peer's end or for the shutdown of this side.  A session that
\* has taken it is not registered again.
Deliver(c) ==
  /\ Polling /\ PollerIsFree
  /\ phase[c] \in {"RUNNING", "PRECLOSED"}
  /\ hung[c] /\ seen[c] = "no"
  /\ seen' = [seen EXCEPT ![c] = "event"]
  /\ UNCHANGED <<listener, connector, threads, m_lstClients, phase, disc, hung, it, history>>

PollerAccepts ==
  /\ thread = "loop" /\ (acc = "idle" => epoll_fd) /\ pc # "init"
  /\ AcceptLoop
  /\ UNCHANGED <<connector, threads, sessions, history>>

\* OnAccepted: the session is attached, and listed once _mutex_clients is free.
MutexIsFree == pc \notin {"clients", "end_clients"}

OnAccepted ==
  /\ MutexIsFree
  /\ HandedOver
  /\ \E c \in acc_sock :
       /\ phase' = [phase EXCEPT ![c] = "RUNNING"]
       /\ m_lstClients' = Append(m_lstClients, c)
       /\ late' = IF pc = "servers" THEN late \cup {c} ELSE late
       /\ missed' = IF pc = "done" THEN missed \cup {c} ELSE missed
  /\ UNCHANGED <<connector, threads, disc, hung, seen, it, came>>

PollerConnects ==
  /\ Polling /\ PollerIsFree
  /\ ConnectorEvent
  /\ UNCHANGED <<listener, threads, sessions, history>>

PollerThread ==
  \/ PollerStarts \/ PollerStops \/ PollerAccepts \/ PollerConnects
  \/ pc # "init" /\ OnAccepted
  \/ \E c \in Clients : Deliver(c)
-----------------------------------------------------------------------------
(* The main thread: the quit command on the console, then the end of main(). *)

Keep == <<pc, thread, sessions, history>>

\* OnQuit, CNetMgr::OnQuit, Listener::Close: the test of the status.
Quit ==
  /\ main = "run"
  /\ main' = IF l_status = "RUNNING" THEN "close" ELSE "abort"
  /\ UNCHANGED <<m_bRunning, _running, epoll_fd, listener, connector, Keep>>

QuitClosesSocket ==
  /\ main = "close"
  /\ CloseListenerSocket
  /\ main' = "closing"
  /\ UNCHANGED <<m_bRunning, _running, epoll_fd, connector, Keep>>

QuitSetsClosing ==
  /\ main = "closing"
  /\ SetClosing
  /\ main' = "abort"
  /\ UNCHANGED <<m_bRunning, _running, epoll_fd, connector, Keep>>

QuitAborts ==
  /\ main = "abort"
  /\ AbortSocket
  /\ main' = "stop"
  /\ UNCHANGED <<m_bRunning, _running, epoll_fd, listener, Keep>>

\* ServerFrame::Stop: the flag, and the join of the logic thread.
Stop ==
  /\ main = "stop"
  /\ m_bRunning' = FALSE
  /\ main' = "join"
  /\ UNCHANGED <<_running, epoll_fd, listener, connector, Keep>>

\* Poller::Release.
LogicIsOverUnjoined == TRUE
LogicIsOver == pc = "done"

Release ==
  /\ main = "join"
  /\ LogicIsOver
  /\ _running' = FALSE /\ epoll_fd' = FALSE
  /\ main' = "release"
  /\ UNCHANGED <<m_bRunning, listener, connector, Keep>>

Exit ==
  /\ main = "release"
  /\ thread = "stopped"
  /\ main' = "exited"
  /\ UNCHANGED <<m_bRunning, _running, epoll_fd, listener, connector, Keep>>

MainThread ==
  QuitClosesSocket \/ QuitSetsClosing \/ QuitAborts \/ Stop \/ Release \/ Exit
-----------------------------------------------------------------------------
(* A session's Update: Lifecycle with its causes. *)

\* A hang-up in _events makes the status ERROR and then PRECLOSED, in PRECLOSED too; without it
\* the session may read the end by itself, and in PRECLOSED it is closed.
NextPhase(c) ==
  CASE phase[c] = "RUNNING" ->
         IF seen[c] = "event" THEN {"PRECLOSED"}
         ELSE {"RUNNING"} \cup {p \in {"PRECLOSED"} : hung[c]}
    [] phase[c] = "PRECLOSED" -> {IF seen[c] = "event" THEN "PRECLOSED" ELSE "CLOSED"}
    [] OTHER -> {phase[c]}

\* The 60 seconds without input may be over whenever the session is RUNNING in the switch; of a
\* connection that has ended it makes no difference.
TimesOut(c) == phase[c] = "RUNNING" /\ ~hung[c]

UpdateSession(c) ==
  /\ hung' = [hung EXCEPT ![c] = @ \/ disc[c]]
  /\ \/ UNCHANGED disc
     \/ TimesOut(c) /\ disc' = [disc EXCEPT ![c] = TRUE]
  /\ seen' = [seen EXCEPT ![c] = IF @ = "event" THEN "taken" ELSE @]
  /\ phase' \in {[phase EXCEPT ![c] = p] : p \in NextPhase(c)}

DeleteSession(c) ==
  /\ phase' = [phase EXCEPT ![c] = "DELETED"]
  /\ disc' = [disc EXCEPT ![c] = FALSE] /\ hung' = [hung EXCEPT ![c] = FALSE]
  /\ seen' = [seen EXCEPT ![c] = "no"]
-----------------------------------------------------------------------------
(* The logic thread: the frame. *)

Goto(label) == pc' = label /\ UNCHANGED <<main, m_bRunning, thread, _running, epoll_fd>>

\* on_start: CNetMgr::Begin, with the accept loop that Init runs before it returns.
Begin ==
  /\ pc = "begin"
  /\ Listen
  /\ Goto(IF acc' = "idle" THEN "frame" ELSE "init")
  /\ UNCHANGED <<connector, sessions, history>>

InitAccepts ==
  /\ pc = "init"
  /\ \/ /\ AcceptLoop
        /\ IF acc' = "idle" THEN Goto("frame") ELSE UNCHANGED threads
        /\ UNCHANGED <<connector, sessions, history>>
     \/ OnAccepted

\* The loop's test; the console's commands, of which `cc` connects; the listener.
FrameBegin ==
  /\ pc = "frame" /\ m_bRunning
  /\ (MoreConns /\ ConnTest) \/ UNCHANGED connector
  /\ ListenerUpdate
  /\ Goto("connector")
  /\ UNCHANGED <<sessions, history>>

UpdateConnector ==
  /\ pc = "connector"
  /\ IF c_status \in {"NULL", "FREED"} THEN UNCHANGED connector ELSE ConnectorUpdate
  /\ Goto("clients") /\ it' = 1
  /\ UNCHANGED <<listener, m_lstClients, phase, disc, hung, seen, history>>

Client == m_lstClients[it]

UpdateClient ==
  /\ pc = "clients" /\ it <= Len(m_lstClients)
  /\ phase[Client] # "CLOSED"
  /\ UpdateSession(Client)
  /\ it' = IF phase'[Client] = "CLOSED" THEN it ELSE it + 1
  /\ UNCHANGED <<listener, connector, threads, m_lstClients, history>>

RemoveClient ==
  /\ pc = "clients" /\ it <= Len(m_lstClients)
  /\ phase[Client] = "CLOSED"
  /\ DeleteSession(Client)
  /\ m_lstClients' = RemoveAt(m_lstClients, it)
  /\ UNCHANGED <<listener, connector, threads, it, history>>

FrameEnd ==
  /\ pc = "clients" /\ it > Len(m_lstClients)
  /\ Goto("frame") /\ it' = 1
  /\ UNCHANGED <<listener, connector, m_lstClients, phase, disc, hung, seen, history>>
-----------------------------------------------------------------------------
(* The logic thread: CNetMgr::End. *)

EndBegins ==
  /\ pc = "frame" /\ ~m_bRunning
  /\ CloseListener
  /\ Goto("end_listener")
  /\ UNCHANGED <<connector, sessions, history>>

EndListener ==
  /\ pc = "end_listener"
  /\ \/ l_status # "CLOSED" /\ ListenerUpdate /\ UNCHANGED threads
     \/ ListenerDelete /\ Goto("end_abort")
  /\ UNCHANGED <<connector, sessions, history>>

EndAborts ==
  /\ pc = "end_abort"
  /\ AbortSocket
  /\ Goto(IF c_status = "NULL" THEN "disconnect" ELSE "end_connector")
  /\ UNCHANGED <<listener, sessions, history>>

\* The wait for Disposable; deleting what OnConnected has deleted is undefined, and either
\* stops the process or is not noticed.
EndConnector ==
  /\ pc = "end_connector"
  /\ \/ ~ConnectorDisposable /\ ConnectorUpdate /\ UNCHANGED threads
     \/ ConnectorDisposable /\ ConnectorDelete /\ Goto("disconnect")
     \/ c_status = "FREED" /\ UNCHANGED connector /\ Goto("aborted")
  /\ UNCHANGED <<listener, sessions, history>>

\* The first time _mutex_clients is taken: every Active session is told to leave.
Told == {c \in ToSet(m_lstClients) : phase[c] = "RUNNING"}

EndDisconnects ==
  /\ pc = "disconnect"
  /\ disc' = [c \in Clients |-> disc[c] \/ c \in Told]
  /\ Goto("servers")
  /\ UNCHANGED <<listener, connector, m_lstClients, phase, hung, seen, it, history>>

\* The second time: it is held until every session is disposed of, one after the other.
EndLocks ==
  /\ pc = "servers"
  /\ Goto("end_clients")
  /\ UNCHANGED <<listener, connector, sessions, history>>

EndClient ==
  /\ pc = "end_clients" /\ m_lstClients # <<>>
  /\ LET c == Head(m_lstClients)
     IN  IF phase[c] = "CLOSED"
         THEN DeleteSession(c) /\ m_lstClients' = Tail(m_lstClients)
         ELSE UpdateSession(c) /\ UNCHANGED m_lstClients
  /\ UNCHANGED <<listener, connector, threads, it, history>>

EndReturns ==
  /\ pc = "end_clients" /\ m_lstClients = <<>>
  /\ Goto("done")
  /\ UNCHANGED <<listener, connector, sessions, history>>

LogicThread ==
  \/ Begin \/ InitAccepts \/ FrameBegin \/ UpdateConnector
  \/ UpdateClient \/ RemoveClient \/ FrameEnd
  \/ EndBegins \/ EndListener \/ EndAborts \/ EndConnector
  \/ EndDisconnects \/ EndLocks \/ EndClient \/ EndReturns
-----------------------------------------------------------------------------
Environment ==
  \/ NetAnswers /\ UNCHANGED <<listener, threads, sessions, history>>
  \/ \E c \in Clients : PeerConnects(c) \/ PeerCloses(c)

Init ==
  /\ ListenerInit /\ ConnectorInit
  /\ main = "run" /\ pc = "begin" /\ m_bRunning = TRUE
  /\ thread = "start" /\ _running = FALSE /\ epoll_fd = TRUE
  /\ m_lstClients = <<>> /\ it = 1
  /\ came = {} /\ late = {} /\ missed = {}
  /\ phase = [c \in Clients |-> "NONE"]
  /\ disc = [c \in Clients |-> FALSE]
  /\ hung = disc
  /\ seen = [c \in Clients |-> "no"]

Next ==
  /\ pc # "aborted"
  /\ Quit \/ MainThread \/ LogicThread \/ PollerThread \/ Environment

Spec == Init /\ [][Next]_vars

\* The three threads run, and connect is answered (TCP gives up in the end).  Nobody has to type
\* quit, to connect or to close.
Running(thr) == pc # "aborted" /\ thr
FairSpec ==
  /\ Spec
  /\ WF_vars(Running(MainThread)) /\ WF_vars(Running(LogicThread)) /\ WF_vars(Running(PollerThread))
  /\ WF_vars(Running(NetAnswers /\ UNCHANGED <<listener, threads, sessions, history>>))
-----------------------------------------------------------------------------
(* Properties. *)

\* When main() returns, the session of every client has been closed and deleted, those that were
\* being accepted while the others were told to leave included; only one listed when End had
\* returned is left.  (The sessions of OnConnected are in no list and are always left.)
OrderlyExit ==
  main = "exited" => \A c \in Clients \ missed : phase[c] \in {"NONE", "DELETED"}

\* Whatever the accept loop writes into the status while Close and Update write it too, a
\* listener is deleted with its descriptor closed and no registration left in epoll.
DeletedIsUnwatched == l_status = "DELETED" => ~l_fd /\ ~l_armed

\* End's wait for the listener ends, against an accept loop that may fail at any point of it.
ListenerCloses == pc = "end_listener" ~> pc # "end_listener"

\* quit ends the process when no client is being accepted while the sessions are told to
\* leave, and no test connection is being set up when it is aborted.
Obstructed ==
  \/ late # {}
  \/ acc = "accepted" /\ pc \in {"servers", "end_clients"}
  \/ c_status = "CONNECTING" /\ ~c_fd
Ended == main = "exited" \/ pc = "aborted"
QuietQuitEnds == []~Obstructed => (main = "stop" ~> Ended)

\* "quit this program." (commandInput.cpp:10)
QuitEnds == main = "stop" ~> Ended
=============================================================================
