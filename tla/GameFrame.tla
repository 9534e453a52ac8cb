------------------------------ MODULE GameFrame ------------------------------
(***************************************************************************)
(* The logic thread's frame loop (ServerFrame::_run, CGameServerFrame) with*)
(* the client sessions it owns (CNetMgr) and the queue of received         *)
(* Messages (MessageQueue), beside the poller thread that accepts clients. *)
(*                                                                         *)
(* A frame first updates every listed session, each of which may push      *)
(* complete packets, and then drains the queue; the drain loop is cut off  *)
(* when the frame has used up its 40 ms.  A packet is answered through     *)
(* msg->_ptr, the address of the session it came from, which is never      *)
(* checked.  A Session is an address in Slots here, and the memory of a    *)
(* deleted one is given to a later connection.                             *)
(*                                                                         *)
(* What one Update may do to a session is Lifecycle, which Session         *)
(* implements; RespectsLifecycle shows that this module asks no more of    *)
(* it.  Messages are addresses in `heap`, as in SendQueue.                 *)
(***************************************************************************)
EXTENDS Naturals, Sequences, SequencesExt, FiniteSets

CONSTANTS
  Slots,       (* addresses a Session can have        *)
  MaxConns,    (* bound: connections accepted         *)
  MaxPackets   (* bound: packets of one connection    *)

ASSUME GameFrameAssumption ==
  /\ IsFiniteSet(Slots) /\ Slots # {}
  /\ MaxConns \in Nat /\ MaxPackets \in Nat

NULL == 0

VARIABLES
  (* sessions *)
  phase,      (* of the Session at each address; DELETED: the memory is free  *)
  busy,       (* its Update is in progress                                    *)
  conn,       (* the number of the connection it serves                       *)
  msg_recv,   (* its _msg_recv                                                *)
  (* CNetMgr *)
  clients,    (* m_lstClients                                                 *)
  accepting,  (* the session OnAccepted has attached but not listed, or NULL  *)
  it,         (* Update's iterator, as an index                               *)
  (* MessageQueue *)
  heap,       (* Messages: the session, its connection and the packet's number *)
  recycle,    (* _msg_recycle                                                 *)
  waiting,    (* _msg_waiting                                                 *)
  freed,      (* Messages deleted by a session's destructor                   *)
  (* the frame loop *)
  pc,         (* clients, drain or end of the frame                           *)
  working,    (* _run's local msg                                             *)
  (* history *)
  conns,      (* connections accepted so far                                  *)
  begun,      (* packets begun by each connection                             *)
  delivered,  (* packets pushed by each connection                            *)
  handled,    (* packets of each connection given to on_msg                   *)
  left        (* Messages a cut off drain loop has left in the queue          *)

sessions == <<phase, busy, conn, msg_recv>>
netmgr   == <<clients, accepting, it>>
queue    == <<heap, recycle, waiting, freed>>
frame    == <<pc, working>>
history  == <<conns, begun, delivered, handled, left>>
vars     == <<sessions, netmgr, queue, frame, history>>

Conns == 1..MaxConns
Address == 1..Len(heap)

TypeOK ==
  /\ phase \in [Slots -> {"RUNNING", "PRECLOSED", "CLOSED", "DELETED"}]
  /\ busy \in [Slots -> BOOLEAN]
  /\ conn \in [Slots -> 0..MaxConns]
  /\ msg_recv \in [Slots -> Address \cup {NULL}]
  /\ clients \in Seq(Slots) /\ IsInjective(clients)
  /\ accepting \in Slots \cup {NULL}
  /\ it \in 1..(Len(clients) + 1)
  /\ \A a \in Address : heap[a] \in [ptr : Slots, conn : Conns, no : Nat]
  /\ recycle \in Seq(Address) /\ waiting \in Seq(Address)
  /\ freed \subseteq Address /\ left \subseteq Address
  /\ pc \in {"clients", "drain", "end"}
  /\ working \in Address \cup {NULL}
  /\ conns \in 0..MaxConns
  /\ {begun, delivered, handled} \subseteq [Conns -> 0..MaxPackets]
-----------------------------------------------------------------------------
(* The poller thread: CNetMgr::OnAccepted. *)

\* new CClientSocket and Attach, in memory that is free.
Accept(s) ==
  /\ accepting = NULL
  /\ phase[s] = "DELETED"
  /\ conns < MaxConns
  /\ conns' = conns + 1
  /\ phase' = [phase EXCEPT ![s] = "RUNNING"]
  /\ conn' = [conn EXCEPT ![s] = conns + 1]
  /\ accepting' = s
  /\ UNCHANGED <<busy, msg_recv, clients, it, queue, frame, begun, delivered, handled, left>>

\* The push to m_lstClients, when CNetMgr::Update does not hold _mutex_clients.
List ==
  /\ accepting # NULL
  /\ pc # "clients"
  /\ clients' = Append(clients, accepting)
  /\ accepting' = NULL
  /\ UNCHANGED <<sessions, it, queue, frame, history>>
-----------------------------------------------------------------------------
(* CNetMgr::Update, under _mutex_clients. *)

Current == clients[it]

UpdateBegin ==
  /\ pc = "clients" /\ it <= Len(clients)
  /\ ~busy[Current] /\ phase[Current] # "CLOSED"
  /\ busy' = [busy EXCEPT ![Current] = TRUE]
  /\ UNCHANGED <<phase, conn, msg_recv, netmgr, queue, frame, history>>

Receiving == pc = "clients" /\ it <= Len(clients) /\ busy[Current] /\ phase[Current] = "RUNNING"

\* _on_recv has a header: ApplyMessage.
BeginPacket ==
  /\ Receiving
  /\ msg_recv[Current] = NULL
  /\ begun[conn[Current]] < MaxPackets
  /\ begun' = [begun EXCEPT ![conn[Current]] = @ + 1]
  /\ LET s == Current
         m == [ptr |-> s, conn |-> conn[s], no |-> begun[conn[s]] + 1]
         a == IF recycle = <<>> THEN Len(heap) + 1 ELSE Head(recycle)
     IN  /\ heap' = IF recycle = <<>> THEN Append(heap, m) ELSE [heap EXCEPT ![a] = m]
         /\ recycle' = IF recycle = <<>> THEN <<>> ELSE Tail(recycle)
         /\ msg_recv' = [msg_recv EXCEPT ![s] = a]
  /\ UNCHANGED <<phase, busy, conn, netmgr, waiting, freed, frame, conns, delivered, handled, left>>

\* _on_recv has the whole packet: PushMessage, and _msg_recv is NULL again.
PushFront(s) ==
  /\ waiting' = <<msg_recv[s]>> \o waiting
  /\ msg_recv' = [msg_recv EXCEPT ![s] = NULL]
PushKeepingPointer(s) ==
  /\ waiting' = Append(waiting, msg_recv[s])
  /\ UNCHANGED msg_recv
Push(s) ==
  /\ waiting' = Append(waiting, msg_recv[s])
  /\ msg_recv' = [msg_recv EXCEPT ![s] = NULL]

CompletePacket ==
  /\ Receiving
  /\ msg_recv[Current] # NULL
  /\ Push(Current)
  /\ delivered' = [delivered EXCEPT ![conn[Current]] = @ + 1]
  /\ UNCHANGED <<phase, busy, conn, netmgr, heap, recycle, freed, frame, conns, begun, handled, left>>

\* The end of Session::Update: the status moves at most one step.
NextPhasesHasty(p) ==
  CASE p = "RUNNING" -> {"RUNNING", "PRECLOSED", "CLOSED"}
    [] p = "PRECLOSED" -> {"PRECLOSED", "CLOSED"}
    [] OTHER -> {p}
NextPhases(p) ==
  CASE p = "RUNNING" -> {"RUNNING", "PRECLOSED"}
    [] p = "PRECLOSED" -> {"PRECLOSED", "CLOSED"}
    [] OTHER -> {p}

UpdateEnd ==
  /\ pc = "clients" /\ it <= Len(clients)
  /\ busy[Current]
  /\ busy' = [busy EXCEPT ![Current] = FALSE]
  /\ \E p \in NextPhases(phase[Current]) :
       /\ phase' = [phase EXCEPT ![Current] = p]
       /\ it' = IF p = "CLOSED" THEN it ELSE it + 1
  /\ UNCHANGED <<conn, msg_recv, clients, accepting, queue, frame, history>>

\* A Disposable session is deleted, with the Message it was filling, and erased.
DestroyMessage(a) == freed' = IF a = NULL THEN freed ELSE freed \cup {a}

KeepListed == UNCHANGED clients
Unlist == clients' = RemoveAt(clients, it)

Dispose ==
  /\ pc = "clients" /\ it <= Len(clients)
  /\ ~busy[Current] /\ phase[Current] = "CLOSED"
  /\ phase' = [phase EXCEPT ![Current] = "DELETED"]
  /\ conn' = [conn EXCEPT ![Current] = 0]
  /\ DestroyMessage(msg_recv[Current])
  /\ msg_recv' = [msg_recv EXCEPT ![Current] = NULL]
  /\ Unlist
  /\ UNCHANGED <<busy, accepting, it, heap, recycle, waiting, frame, history>>

ClientsDone ==
  /\ pc = "clients" /\ it > Len(clients)
  /\ pc' = "drain"
  /\ UNCHANGED <<sessions, netmgr, queue, working, history>>
-----------------------------------------------------------------------------
(* The drain loop. *)

Pop ==
  /\ pc = "drain"
  /\ working = NULL
  /\ waiting # <<>>
  /\ working' = Head(waiting)
  /\ waiting' = Tail(waiting)
  /\ UNCHANGED <<sessions, netmgr, heap, recycle, freed, pc, history>>

DrainDoneOnTimeout ==
  /\ pc = "drain"
  /\ working = NULL
  /\ pc' = "end"
  /\ UNCHANGED <<sessions, netmgr, queue, working, history>>
DrainDone ==
  /\ pc = "drain"
  /\ working = NULL
  /\ waiting = <<>>
  /\ pc' = "end"
  /\ UNCHANGED <<sessions, netmgr, queue, working, history>>

\* on_msg and FreeMessage; the loop is cut off when the frame has taken too long.  The
\* reply goes to the Session at heap[working].ptr, whatever that memory holds by now.
Handle ==
  /\ pc = "drain"
  /\ working # NULL
  /\ handled' = [handled EXCEPT ![heap[working].conn] = @ + 1]
  /\ recycle' = Append(recycle, working)
  /\ working' = NULL
  /\ \/ pc' = "drain" /\ left' = left \ {working}
     \/ pc' = "end" /\ left' = ToSet(waiting)
  /\ UNCHANGED <<sessions, netmgr, heap, waiting, freed, conns, begun, delivered>>

\* The frame ends; the next one begins with the clients.
FrameEnd ==
  /\ pc = "end"
  /\ pc' = "clients"
  /\ it' = 1
  /\ UNCHANGED <<sessions, clients, accepting, queue, working, history>>

Frame ==
  \/ UpdateBegin \/ BeginPacket \/ CompletePacket \/ UpdateEnd \/ Dispose \/ ClientsDone
  \/ Pop \/ DrainDone \/ Handle \/ FrameEnd

Init ==
  /\ phase = [s \in Slots |-> "DELETED"]
  /\ busy = [s \in Slots |-> FALSE]
  /\ conn = [s \in Slots |-> 0]
  /\ msg_recv = [s \in Slots |-> NULL]
  /\ clients = <<>> /\ accepting = NULL /\ it = 1
  /\ heap = <<>> /\ recycle = <<>> /\ waiting = <<>> /\ freed = {}
  /\ pc = "end" /\ working = NULL
  /\ conns = 0 /\ left = {}
  /\ begun = [c \in Conns |-> 0]
  /\ delivered = begun /\ handled = begun

Next == List \/ Frame \/ \E s \in Slots : Accept(s)

Spec == Init /\ [][Next]_vars

\* The logic thread keeps running; nothing is asked of the poller or of the clients.
FairSpec == Spec /\ WF_vars(Frame)
-----------------------------------------------------------------------------
(* Properties. *)

Undispatched == ToSet(waiting) \cup ({working} \ {NULL})

\* msg->_ptr is only ever used while the session it names still serves the connection the
\* packet came from, unless a drain loop was cut off while the packet was in the queue: a
\* session takes two Updates from its last packet to its deletion, and a drain loop that
\* empties the queue lies between them.
OwnerIsAlive ==
  \A a \in Undispatched \ left :
    /\ phase[heap[a].ptr] # "DELETED"
    /\ conn[heap[a].ptr] = heap[a].conn

\* Every Message is in exactly one place: the pool, the queue, one session's _msg_recv, the
\* hands of the drain loop, or deleted with the session that was filling it.
OnePlace ==
  LET filling == {msg_recv[s] : s \in Slots} \ {NULL}
      places  == <<ToSet(recycle), ToSet(waiting), {working} \ {NULL}, filling, freed>>
  IN  /\ IsInjective(recycle) /\ IsInjective(waiting)
      /\ \A s, t \in Slots : msg_recv[s] = msg_recv[t] => s = t \/ msg_recv[s] = NULL
      /\ \A i, j \in DOMAIN places : i # j => places[i] \cap places[j] = {}
      /\ UNION ToSet(places) = Address

\* The packets of a connection are dispatched in the order they came in, none twice and none
\* left out, through all the recycling of Messages and addresses.
InOrder ==
  working # NULL => heap[working].no = handled[heap[working].conn] + 1

\* This module puts every session through the life that Session goes through.
SlotOf(c) == CHOOSE s \in Slots : conn[s] = c
Life(c) == INSTANCE Lifecycle WITH
  phase <- IF c > conns THEN "RUNNING"
           ELSE IF \E s \in Slots : conn[s] = c THEN phase[SlotOf(c)] ELSE "DELETED",
  busy <- \E s \in Slots : conn[s] = c /\ busy[s],
  delivered <- delivered[c]
RespectsLifecycle ==
  /\ \A c \in Conns : Life(c)!Init
  /\ [][\A c \in Conns : [Life(c)!Next]_(Life(c)!vars)]_vars

\* A packet that was received is dispatched in the end, even when every frame is late.
PacketsAreHandled ==
  \A c \in Conns : \A n \in 1..MaxPackets : delivered[c] >= n ~> handled[c] >= n
=============================================================================
