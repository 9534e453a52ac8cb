---------------------------- MODULE ShutdownProofs ----------------------------
(***************************************************************************)
(* What the end of the process leaves behind, for every set of clients and *)
(* number of test connections: no session of a client but those that were  *)
(* listed when CNetMgr::End had returned, and no listener in epoll.        *)
(***************************************************************************)
EXTENDS Shutdown, ListLemmas, TLAPS

(* The listener.                                                           *)

\* An open registration has an open descriptor, which a listener that has not begun, or that
\* is over, has not.
WatchInv ==
  /\ l_armed => l_fd
  /\ l_status \in {"NULL", "CLOSED", "DELETED"} => ~l_fd

\* The accept loop, on whichever thread, arms only what is open; Listen alone opens it, and only
\* at the beginning.
LEMMA WatchStep == WatchInv /\ [Next]_vars => WatchInv'
<1> SUFFICES ASSUME WatchInv, [Next]_vars
             PROVE  WatchInv'
  OBVIOUS
<1> USE DEF WatchInv
<1>1. CASE UNCHANGED listener
  BY <1>1 DEF listener
<1>2. CASE Listen
  BY <1>2 DEF Listen
<1>3. CASE ListenerUpdate
  BY <1>3 DEF ListenerUpdate, ListenerStep, UnregisterAndClose
<1>4. CASE ListenerDelete
  BY <1>4 DEF ListenerDelete
<1>5. CASE CloseListenerSocket \/ SetClosing \/ CloseListener
  BY <1>5, <1>1 DEF CloseListenerSocket, SetClosing, CloseListener, UnregisterAndClose
<1>6. CASE AcceptLoop
  BY <1>6 DEF AcceptLoop, ListenerEvent, CheckStatus, Accept4, Accept4WouldBlock, Accept4Fails,
              AcceptError
<1>7. CASE HandedOver
  BY <1>7 DEF HandedOver
<1>8. CASE UNCHANGED <<l_status, l_fd, l_armed>>
  BY <1>8
<1>9. CASE Quit \/ MainThread
  BY <1>9, <1>1, <1>5 DEF Quit, MainThread, QuitClosesSocket, QuitSetsClosing, QuitAborts, Stop,
                          Release, Exit
<1>10. CASE LogicThread
  BY <1>10, <1>1, <1>2, <1>3, <1>4, <1>5, <1>6, <1>7
     DEF LogicThread, Begin, InitAccepts, OnAccepted, FrameBegin, UpdateConnector, UpdateClient, RemoveClient, FrameEnd,
         EndBegins, EndListener, EndAborts, EndConnector, EndDisconnects, EndLocks, EndClient,
         EndReturns
<1>11. CASE PollerThread
  BY <1>11, <1>1, <1>6, <1>7
     DEF PollerThread, PollerStarts, PollerStops, PollerAccepts, OnAccepted, PollerConnects,
         Deliver
<1>12. CASE Environment
  BY <1>12, <1>1, <1>8 DEF Environment, PeerConnects, PeerCloses
<1>13. CASE UNCHANGED vars
  BY <1>13, <1>1 DEF vars
<1> QED
  BY <1>9, <1>10, <1>11, <1>12, <1>13 DEF Next

\* DeletedIsUnwatched holds in every state: the accept loop may write the status at any time,
\* and the listener is never deleted with its descriptor open or registered.
THEOREM ShutdownDeletedIsUnwatched == Spec => []DeletedIsUnwatched
<1>1. Init => WatchInv
  BY DEF Init, ListenerInit, WatchInv
<1>2. WatchInv => DeletedIsUnwatched
  BY DEF WatchInv, DeletedIsUnwatched
<1> QED
  BY <1>1, <1>2, WatchStep, PTL DEF Spec
-----------------------------------------------------------------------------
(* The sessions.                                                           *)

Phases == {"NONE", "RUNNING", "PRECLOSED", "CLOSED", "DELETED"}

\* Every client's session there is is in the list, and what is in it when the logic thread is over
\* was listed after that.
ListInv ==
  /\ m_lstClients \in Seq(Clients)
  /\ phase \in [Clients -> Phases]
  /\ it \in Nat \ {0}
  /\ acc_sock \subseteq Clients /\ backlog \subseteq Clients
  /\ \A c \in Clients : phase[c] \notin {"NONE", "DELETED"} => c \in ToSet(m_lstClients)
  /\ pc = "done" => ToSet(m_lstClients) \subseteq missed
  /\ main \in {"release", "exited"} => pc = "done"

\* Update moves one session, and neither brings one into being nor deletes one.
LEMMA UpdateKeepsPhases ==
  ASSUME phase \in [Clients -> Phases], NEW c \in Clients, UpdateSession(c)
  PROVE  /\ phase' \in [Clients -> Phases]
         /\ \A d \in Clients : phase[d] \in {"NONE", "DELETED"} => phase'[d] = phase[d]
<1>1. NextPhase(c) \subseteq Phases
  BY DEF NextPhase, Phases
<1>2. PICK p \in NextPhase(c) : phase' = [phase EXCEPT ![c] = p]
  BY DEF UpdateSession
<1>3. phase[c] \in {"NONE", "DELETED"} => NextPhase(c) = {phase[c]}
  BY DEF NextPhase
<1> QED
  BY <1>1, <1>2, <1>3

\* Deleting a session and erasing its place in the list.
LEMMA DeleteKeepsListed ==
  ASSUME ListInv, NEW i \in 1..Len(m_lstClients), DeleteSession(m_lstClients[i]),
         m_lstClients' = RemoveAt(m_lstClients, i)
  PROVE  /\ m_lstClients' \in Seq(Clients)
         /\ phase' \in [Clients -> Phases]
         /\ \A c \in Clients : phase'[c] \notin {"NONE", "DELETED"} => c \in ToSet(m_lstClients)'
<1> DEFINE c == m_lstClients[i]
<1>1. c \in Clients /\ m_lstClients \in Seq(Clients)
  BY DEF ListInv
<1>2. /\ m_lstClients' \in Seq(Clients)
      /\ ToSet(m_lstClients) \ {c} \subseteq ToSet(m_lstClients')
  BY <1>1, RemoveAtPlaces, RemoveAtSet
<1>3. phase' = [phase EXCEPT ![c] = "DELETED"]
  BY DEF DeleteSession
<1> HIDE DEF c
<1>4. phase' \in [Clients -> Phases] /\ \A d \in Clients \ {c} : phase'[d] = phase[d]
  BY <1>1, <1>3 DEF ListInv, Phases
<1>5. phase'[c] = "DELETED"
  BY <1>1, <1>3 DEF ListInv
<1> QED
  BY <1>2, <1>4, <1>5 DEF ListInv

\* The accept loop takes its connections from the backlog.
LEMMA AcceptKeepsSockets ==
  ASSUME ListInv, AcceptLoop
  PROVE  acc_sock' \subseteq Clients /\ backlog' \subseteq Clients
BY DEF ListInv, AcceptLoop, ListenerEvent, CheckStatus, Accept4, Accept4WouldBlock, Accept4Fails,
       AcceptError

\* An accepted session is listed, whichever thread accepts it.
LEMMA AcceptedIsListed ==
  ASSUME ListInv, OnAccepted
  PROVE  ListInv'
<1>1. UNCHANGED <<main, pc, it, backlog>> /\ acc_sock' = {}
  BY DEF OnAccepted, HandedOver, threads
<1>2. PICK c \in acc_sock :
        /\ phase' = [phase EXCEPT ![c] = "RUNNING"]
        /\ m_lstClients' = Append(m_lstClients, c)
        /\ missed' = IF pc = "done" THEN missed \cup {c} ELSE missed
  BY DEF OnAccepted
<1>3. c \in Clients /\ m_lstClients \in Seq(Clients)
  BY DEF ListInv
<1>4. m_lstClients' \in Seq(Clients) /\ ToSet(m_lstClients') = ToSet(m_lstClients) \cup {c}
  BY <1>2, <1>3, AppendSet
<1> QED
  BY <1>1, <1>2, <1>3, <1>4 DEF ListInv, Phases

\* Every action of every thread keeps the invariant.
LEMMA ListStep == ListInv /\ [Next]_vars => ListInv'
<1> SUFFICES ASSUME ListInv, [Next]_vars
             PROVE  ListInv'
  OBVIOUS
<1> DEFINE Kept == UNCHANGED <<m_lstClients, phase>>
           Socks == acc_sock' \subseteq Clients /\ backlog' \subseteq Clients
<1>1. ASSUME Kept, Socks, UNCHANGED missed, it' \in Nat \ {0}, pc' = pc \/ pc' # "done",
             main' \in {"release", "exited"} => pc' = "done"
      PROVE  ListInv'
  BY <1>1 DEF ListInv
<1>2. CASE UNCHANGED vars
  BY <1>1, <1>2 DEF ListInv, vars, listener, threads, sessions, history
<1>3. CASE Quit \/ MainThread
  <2>1. Kept /\ UNCHANGED <<acc_sock, backlog, missed, pc, it>>
    BY <1>3 DEF Quit, MainThread, QuitClosesSocket, QuitSetsClosing, QuitAborts, Stop, Release,
                Exit, CloseListenerSocket, SetClosing, listener, sessions, history, Keep
  <2>2. main' \in {"release", "exited"} => pc = "done"
    BY <1>3 DEF ListInv, Quit, MainThread, QuitClosesSocket, QuitSetsClosing, QuitAborts, Stop,
                Release, Exit, LogicIsOver
  <2> QED
    BY <1>1, <2>1, <2>2 DEF ListInv
<1>4. CASE Environment
  <2>1. Kept /\ Socks /\ UNCHANGED <<missed, main, pc, it>>
    BY <1>4 DEF ListInv, Environment, PeerConnects, PeerCloses, listener, threads, sessions, history
  <2> QED
    BY <1>1, <2>1 DEF ListInv
<1>5. CASE PollerThread
  <2>1. CASE PollerStarts \/ PollerStops \/ PollerConnects \/ \E c \in Clients : Deliver(c)
    <3>1. Kept /\ UNCHANGED <<acc_sock, backlog, missed, main, pc, it>>
      BY <2>1 DEF PollerStarts, PollerStops, PollerConnects, Deliver, listener, threads, sessions,
                  history
    <3> QED
      BY <1>1, <3>1 DEF ListInv
  <2>2. CASE PollerAccepts
    <3>1. Kept /\ UNCHANGED <<missed, main, pc, it>> /\ AcceptLoop
      BY <2>2 DEF PollerAccepts, threads, sessions, history
    <3> QED
      BY <1>1, <3>1, AcceptKeepsSockets DEF ListInv
  <2>3. CASE OnAccepted
    BY <2>3, AcceptedIsListed
  <2> QED
    BY <1>5, <2>1, <2>2, <2>3 DEF PollerThread
<1>6. CASE InitAccepts
  <2>1. CASE OnAccepted
    BY <2>1, AcceptedIsListed
  <2>2. CASE ~OnAccepted
    <3>1. /\ AcceptLoop /\ Kept /\ UNCHANGED <<missed, main, it>>
          /\ pc = "init" /\ pc' \in {"init", "frame"}
      BY <1>6, <2>2 DEF InitAccepts, Goto, threads, sessions, history
    <3> QED
      BY <1>1, <3>1, AcceptKeepsSockets DEF ListInv
  <2> QED
    BY <2>1, <2>2
<1>7. CASE LogicThread /\ ~InitAccepts
  <2>0. UNCHANGED <<main, missed>> /\ pc # "done"
    BY <1>7 DEF LogicThread, Begin, FrameBegin, UpdateConnector, UpdateClient, RemoveClient,
                FrameEnd, EndBegins, EndListener, EndAborts, EndConnector, EndDisconnects,
                EndLocks, EndClient, EndReturns, Goto, threads, history
  <2>1. CASE \/ Begin \/ FrameBegin \/ UpdateConnector \/ FrameEnd \/ EndBegins \/ EndListener
             \/ EndAborts \/ EndConnector \/ EndDisconnects \/ EndLocks
    <3>1. Kept /\ UNCHANGED <<acc_sock, backlog>> /\ it' \in {it, 1}
      BY <2>1 DEF Begin, FrameBegin, UpdateConnector, FrameEnd, EndBegins, EndListener, EndAborts,
                  EndConnector, EndDisconnects, EndLocks, listener, sessions, Listen,
                  ListenerUpdate, ListenerDelete, CloseListener
    <3>2. pc' # "done"
      BY <2>0, <2>1 DEF Begin, FrameBegin, UpdateConnector, FrameEnd, EndBegins, EndListener,
                  EndAborts, EndConnector, EndDisconnects, EndLocks, Goto, threads
    <3> QED
      BY <1>1, <2>0, <3>1, <3>2 DEF ListInv
  <2>2. CASE UpdateClient
    <3>1. /\ pc = "clients" /\ it <= Len(m_lstClients) /\ UpdateSession(Client)
          /\ it' \in {it, it + 1}
          /\ UNCHANGED <<m_lstClients, pc, acc_sock, backlog>>
      BY <2>2 DEF UpdateClient, threads, listener
    <3>2. it \in 1..Len(m_lstClients) /\ Client \in Clients
      BY <3>1 DEF ListInv, Client
    <3> QED
      BY <2>0, <3>1, <3>2, UpdateKeepsPhases DEF ListInv
  <2>3. CASE RemoveClient
    <3>1. /\ pc = "clients" /\ it <= Len(m_lstClients) /\ DeleteSession(m_lstClients[it])
          /\ m_lstClients' = RemoveAt(m_lstClients, it)
          /\ UNCHANGED <<it, pc, acc_sock, backlog>>
      BY <2>3 DEF RemoveClient, Client, threads, listener
    <3>2. it \in 1..Len(m_lstClients)
      BY <3>1 DEF ListInv
    <3> QED
      BY <2>0, <3>1, <3>2, DeleteKeepsListed DEF ListInv
  <2>4. CASE EndClient
    <3>1. /\ pc = "end_clients" /\ m_lstClients # <<>>
          /\ UNCHANGED <<it, pc, acc_sock, backlog>>
      BY <2>4 DEF EndClient, threads, listener
    <3>2. 1 \in 1..Len(m_lstClients) /\ Head(m_lstClients) = m_lstClients[1]
          /\ m_lstClients[1] \in Clients
      BY <3>1 DEF ListInv
    <3>3. CASE UpdateSession(m_lstClients[1]) /\ UNCHANGED m_lstClients
      BY <2>0, <3>1, <3>2, <3>3, UpdateKeepsPhases DEF ListInv
    <3>4. CASE DeleteSession(m_lstClients[1]) /\ m_lstClients' = Tail(m_lstClients)
      <4>1. Tail(m_lstClients) = RemoveAt(m_lstClients, 1)
        BY <3>1, TailIsRemoveAt DEF ListInv
      <4> QED
        BY <2>0, <3>1, <3>2, <3>4, <4>1, DeleteKeepsListed DEF ListInv
    <3> QED
      BY <2>4, <3>2, <3>3, <3>4 DEF EndClient
  <2>5. CASE EndReturns
    <3>1. m_lstClients = <<>> /\ Kept /\ pc' = "done" /\ UNCHANGED <<it, acc_sock, backlog>>
      BY <2>5 DEF EndReturns, Goto, listener, sessions
    <3>2. ToSet(m_lstClients') = {}
      BY <3>1 DEF ToSet
    <3> QED
      BY <2>0, <3>1, <3>2 DEF ListInv
  <2> QED
    BY <1>7, <2>1, <2>2, <2>3, <2>4, <2>5 DEF LogicThread
<1> QED
  BY <1>2, <1>3, <1>4, <1>5, <1>6, <1>7 DEF Next

\* OrderlyExit holds in every state: a client's session is listed as long as it exists, and End
\* empties the list before the main thread may go on.
THEOREM ShutdownOrderlyExit == Spec => []OrderlyExit
<1>1. Init => ListInv
  BY DEF Init, ListenerInit, ListInv, Phases, ToSet
<1>2. ListInv => OrderlyExit
  BY DEF ListInv, OrderlyExit
<1> QED
  BY <1>1, <1>2, ListStep, PTL DEF Spec
=============================================================================
