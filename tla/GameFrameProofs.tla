---------------------------- MODULE GameFrameProofs ----------------------------
(***************************************************************************)
(* Messages and their owners: for every number of addresses, connections   *)
(* and packets, a Message is in one place, the packets of a connection are *)
(* dispatched in order, and the session a waiting packet points at is still*)
(* the one it came from.                                                   *)
(***************************************************************************)
EXTENDS GameFrame, ListLemmas, TLAPS

MessageRecord == [ptr : Slots, conn : Conns, no : Nat]

FrameTypes ==
  /\ phase \in [Slots -> {"RUNNING", "PRECLOSED", "CLOSED", "DELETED"}]
  /\ busy \in [Slots -> BOOLEAN]
  /\ conn \in [Slots -> 0..MaxConns]
  /\ msg_recv \in [Slots -> Address \cup {NULL}]
  /\ accepting \in Slots \cup {NULL}
  /\ heap \in Seq(MessageRecord)
  /\ recycle \in Seq(Address) /\ waiting \in Seq(Address)
  /\ freed \subseteq Address /\ left \subseteq Address
  /\ pc \in {"clients", "drain", "end"}
  /\ working \in Address \cup {NULL}
  /\ conns \in 0..MaxConns
  /\ begun \in [Conns -> 0..MaxPackets]
  /\ delivered \in [Conns -> Nat] /\ handled \in [Conns -> Nat]

\* The sessions that are listed, or are about to be, exist; none is listed twice.
ListInv ==
  /\ clients \in Seq(Slots) /\ Distinct(clients)
  /\ it \in 1..(Len(clients) + 1)
  /\ \A s \in ToSet(clients) : phase[s] # "DELETED"
  /\ accepting # NULL => phase[accepting] # "DELETED" /\ accepting \notin ToSet(clients)

\* A session serves one connection as long as it exists, and no two serve the same.
ConnInv ==
  /\ \A s \in Slots : conn[s] \in 0..conns /\ (phase[s] = "DELETED" <=> conn[s] = 0)
  /\ \A s, t \in Slots : conn[s] = conn[t] => s = t \/ conn[s] = 0

\* The session Update works on is an address, and one that runs serves a connection.
LEMMA CurrentSlot ==
  ASSUME ListInv, it <= Len(clients)
  PROVE  it \in 1..Len(clients) /\ Current \in Slots /\ Current \in ToSet(clients)
<1>1. it \in 1..Len(clients)
  BY DEF ListInv
<1> QED
  BY <1>1, ElementOfSeq, LenProperties DEF ListInv, Current, ToSet

\* OnAccepted and Dispose keep the list and the connections apart.
LEMMA ListStep ==
  ASSUME GameFrameAssumption, FrameTypes, ListInv, ConnInv, [Next]_vars
  PROVE  ListInv' /\ ConnInv'
<1>1. ASSUME UNCHANGED <<phase, conn, clients, accepting, conns>>, it' = it \/ it' = 1
      PROVE  ListInv' /\ ConnInv'
  BY <1>1 DEF ListInv, ConnInv
<1>2. CASE BeginPacket \/ CompletePacket \/ ClientsDone \/ Pop \/ DrainDone \/ Handle \/ FrameEnd
           \/ UpdateBegin \/ UNCHANGED vars
  BY <1>1, <1>2 DEF BeginPacket, CompletePacket, ClientsDone, Pop, DrainDone, Handle, FrameEnd,
                    UpdateBegin, Push, netmgr, sessions, history, vars
<1>3. ASSUME NEW s \in Slots, Accept(s)
      PROVE  ListInv' /\ ConnInv'
  <2>1. /\ phase[s] = "DELETED" /\ accepting' = s /\ UNCHANGED <<clients, it>>
        /\ phase' = [phase EXCEPT ![s] = "RUNNING"]
        /\ conn' = [conn EXCEPT ![s] = conns + 1] /\ conns' = conns + 1
    BY <1>3 DEF Accept
  <2>2. s \notin ToSet(clients) /\ \A t \in Slots : conn[t] \in 0..conns
    BY <2>1 DEF ListInv, ConnInv
  <2>3. ListInv'
    BY <2>1, <2>2 DEF FrameTypes, ListInv
  <2>4. conns \in Nat
    BY GameFrameAssumption DEF FrameTypes
  <2> QED
    BY <2>1, <2>2, <2>3, <2>4 DEF FrameTypes, ConnInv
<1>4. CASE List
  <2>1. /\ accepting \in Slots /\ clients' = Append(clients, accepting) /\ accepting' = NULL
        /\ accepting \notin ToSet(clients) /\ phase[accepting] # "DELETED"
        /\ UNCHANGED <<phase, conn, it, conns>>
    BY <1>4 DEF List, sessions, history, FrameTypes, ListInv
  <2>2. /\ clients' \in Seq(Slots) /\ Distinct(clients')
        /\ ToSet(clients') = ToSet(clients) \cup {accepting}
    BY <2>1, AppendSet, AppendDistinct DEF ListInv
  <2>3. it' \in 1..(Len(clients') + 1)
    BY <2>1 DEF ListInv
  <2> QED
    BY <2>1, <2>2, <2>3 DEF ListInv, ConnInv
<1>5. CASE UpdateEnd
  <2>1. /\ it \in 1..Len(clients) /\ Current \in Slots /\ Current \in ToSet(clients)
        /\ it' \in {it, it + 1}
        /\ UNCHANGED <<conn, clients, accepting, conns>>
    BY <1>5, CurrentSlot DEF UpdateEnd, history
  <2>2. PICK p \in {"RUNNING", "PRECLOSED", "CLOSED"} \cup {phase[Current]} :
          phase' = [phase EXCEPT ![Current] = p]
    BY <1>5 DEF UpdateEnd, NextPhases
  <2>3. it' \in 1..(Len(clients) + 1)
    BY <2>1 DEF ListInv
  <2>4. phase[Current] # "DELETED" /\ p # "DELETED"
    BY <2>1, <2>2 DEF ListInv
  <2>5. \A s \in Slots : phase'[s] = "DELETED" <=> phase[s] = "DELETED"
    BY <2>1, <2>2, <2>4 DEF FrameTypes
  <2>6. \A s \in ToSet(clients) : s \in Slots
    BY ElementOfSeq, LenProperties DEF ListInv, ToSet
  <2> QED
    BY <2>1, <2>3, <2>5, <2>6 DEF ListInv, ConnInv, FrameTypes
<1>6. CASE Dispose
  <2>1. /\ it \in 1..Len(clients) /\ Current \in Slots /\ clients[it] = Current
        /\ clients' = RemoveAt(clients, it)
        /\ phase' = [phase EXCEPT ![Current] = "DELETED"]
        /\ conn' = [conn EXCEPT ![Current] = 0]
        /\ UNCHANGED <<accepting, it, conns>>
    BY <1>6, CurrentSlot DEF Dispose, Unlist, history, Current
  <2>2. Current \in ToSet(clients)
    BY <1>6, CurrentSlot DEF Dispose
  <2>3. /\ clients' \in Seq(Slots) /\ Len(clients') = Len(clients) - 1 /\ Distinct(clients')
        /\ ToSet(clients') \subseteq ToSet(clients) /\ Current \notin ToSet(clients')
    BY <2>1, RemoveAtPlaces, RemoveAtSet, RemoveAtDistinct DEF ListInv
  <2>4. it' \in 1..(Len(clients') + 1)
    BY <2>1, <2>3
  <2>5. \A s \in ToSet(clients') : s \in Slots /\ s # Current
    BY <2>3, ElementOfSeq, LenProperties DEF ToSet
  <2>6. ListInv'
    BY <2>1, <2>2, <2>3, <2>4, <2>5 DEF ListInv, FrameTypes
  <2> QED
    BY <2>1, <2>6 DEF ConnInv, FrameTypes
<1> QED
  BY <1>2, <1>3, <1>4, <1>5, <1>6 DEF Next, Frame
-----------------------------------------------------------------------------
(* Where a Message is. *)

Filling == {msg_recv[s] : s \in Slots} \ {NULL}
InHand == {working} \ {NULL}

\* OnePlace, place by place.
PlacesInv ==
  /\ Distinct(recycle) /\ Distinct(waiting)
  /\ \A s, t \in Slots : msg_recv[s] = msg_recv[t] => s = t \/ msg_recv[s] = NULL
  /\ ToSet(recycle) \cap (ToSet(waiting) \cup InHand \cup Filling \cup freed) = {}
  /\ ToSet(waiting) \cap (InHand \cup Filling \cup freed) = {}
  /\ InHand \cap (Filling \cup freed) = {}
  /\ Filling \cap freed = {}
  /\ ToSet(recycle) \cup ToSet(waiting) \cup InHand \cup Filling \cup freed = Address

\* A header gets the Message at the front of the pool, or a new one: in either case one that is in
\* no other place, and no other Message changes.
BeginsAt(a) ==
  /\ a \in Address' /\ a # NULL
  /\ a \notin ToSet(waiting) \cup InHand \cup Filling \cup freed
  /\ Address' = Address \cup {a}
  /\ heap' \in Seq(MessageRecord)
  /\ heap'[a] = [ptr |-> Current, conn |-> conn[Current], no |-> begun[conn[Current]] + 1]
  /\ \A b \in Address : b # a => heap'[b] = heap[b]
  /\ recycle' \in Seq(Address') /\ Distinct(recycle') /\ ToSet(recycle') = ToSet(recycle) \ {a}
  /\ msg_recv' = [msg_recv EXCEPT ![Current] = a]

\* The session that receives has a connection.
LEMMA CurrentServes ==
  ASSUME FrameTypes, ListInv, ConnInv, Receiving
  PROVE  Current \in Slots /\ conn[Current] \in Conns /\ conn[Current] \in 1..conns
<1>1. Current \in Slots /\ phase[Current] = "RUNNING"
  BY CurrentSlot DEF Receiving
<1> QED
  BY <1>1 DEF ConnInv, FrameTypes, Conns

\* There is such a Message, whether the pool is empty or not.
LEMMA BeginPacketResult ==
  ASSUME GameFrameAssumption, FrameTypes, ListInv, ConnInv, PlacesInv, BeginPacket
  PROVE  \E a : BeginsAt(a)
<1> DEFINE m == [ptr |-> Current, conn |-> conn[Current], no |-> begun[conn[Current]] + 1]
<1>1. Current \in Slots /\ conn[Current] \in Conns
  BY CurrentServes DEF BeginPacket
<1>2. m \in MessageRecord
  <2>1. begun[conn[Current]] + 1 \in Nat
    BY <1>1, GameFrameAssumption DEF FrameTypes
  <2> QED
    BY <1>1, <2>1 DEF MessageRecord
<1>3. Len(heap) \in Nat /\ heap \in Seq(MessageRecord) /\ recycle \in Seq(Address)
  BY DEF FrameTypes
<1>4. CASE recycle = <<>>
  <2> DEFINE a == Len(heap) + 1
  <2>1. heap' = Append(heap, m) /\ recycle' = <<>> /\ msg_recv' = [msg_recv EXCEPT ![Current] = a]
    BY <1>4 DEF BeginPacket
  <2> HIDE DEF m
  <2>2. /\ heap' \in Seq(MessageRecord) /\ Len(heap') = a /\ heap'[a] = m
        /\ \A b \in 1..Len(heap) : heap'[b] = heap[b]
    BY <1>2, <1>3, <2>1
  <2>3. Address' = Address \cup {a} /\ a \notin Address /\ a # NULL
    BY <1>3, <2>2 DEF Address, NULL
  <2>4. recycle' \in Seq(Address') /\ Distinct(recycle') /\ ToSet(recycle') = ToSet(recycle) \ {a}
    BY <1>4, <2>1 DEF Distinct, ToSet
  <2>5. a \notin ToSet(waiting) \cup InHand \cup Filling \cup freed
    BY <2>3 DEF PlacesInv
  <2>6. BeginsAt(a)
    BY <2>1, <2>2, <2>3, <2>4, <2>5 DEF BeginsAt, Address, m
  <2> QED
    BY <2>6
<1>5. CASE recycle # <<>>
  <2> DEFINE a == Head(recycle)
  <2>1. /\ heap' = [heap EXCEPT ![a] = m] /\ recycle' = Tail(recycle)
        /\ msg_recv' = [msg_recv EXCEPT ![Current] = a]
    BY <1>5 DEF BeginPacket
  <2>2. /\ Tail(recycle) \in Seq(Address) /\ Distinct(Tail(recycle)) /\ a \in ToSet(recycle)
        /\ ToSet(Tail(recycle)) = ToSet(recycle) \ {a}
    BY <1>3, <1>5, TailDistinct DEF PlacesInv
  <2> HIDE DEF a, m
  <2>3. /\ a \in Address /\ a # NULL
        /\ a \notin ToSet(waiting) \cup InHand \cup Filling \cup freed
    BY <2>2 DEF PlacesInv, Address, NULL
  <2>4. /\ heap' \in Seq(MessageRecord) /\ Len(heap') = Len(heap) /\ heap'[a] = m
        /\ \A b \in Address : b # a => heap'[b] = heap[b]
    BY <1>2, <1>3, <2>1, <2>3 DEF Address
  <2>5. Address' = Address
    BY <2>4 DEF Address
  <2>6. BeginsAt(a)
    BY <2>1, <2>2, <2>3, <2>4, <2>5 DEF BeginsAt, m
  <2> QED
    BY <2>6
<1> QED
  BY <1>4, <1>5

\* Each action moves a Message from one place to another.
LEMMA PlacesStep ==
  ASSUME GameFrameAssumption, FrameTypes, ListInv, ConnInv, PlacesInv, [Next]_vars
  PROVE  FrameTypes' /\ PlacesInv'
<1> USE DEF NULL
<1>0. NULL \notin Address
  BY DEF Address
<1>1. ASSUME UNCHANGED <<msg_recv, queue, working, begun, delivered, handled, left>>,
             phase' \in [Slots -> {"RUNNING", "PRECLOSED", "CLOSED", "DELETED"}],
             busy' \in [Slots -> BOOLEAN],
             conn' \in [Slots -> 0..MaxConns], conns' \in 0..MaxConns,
             accepting' \in Slots \cup {NULL}, pc' \in {"clients", "drain", "end"}
      PROVE  FrameTypes' /\ PlacesInv'
  <2>1. /\ UNCHANGED <<msg_recv, heap, recycle, waiting, freed, working, begun, delivered, handled, left>>
        /\ Address' = Address /\ Filling' = Filling /\ InHand' = InHand
    BY <1>1 DEF queue, Address, Filling, InHand
  <2>2. FrameTypes'
    BY <1>1, <2>1 DEF FrameTypes
  <2>3. PlacesInv'
    BY <2>1 DEF PlacesInv
  <2> QED
    BY <2>2, <2>3
<1>2. CASE UpdateBegin \/ ClientsDone \/ DrainDone \/ FrameEnd \/ List \/ UNCHANGED vars
  BY <1>1, <1>2 DEF UpdateBegin, ClientsDone, DrainDone, FrameEnd, List, FrameTypes,
                    netmgr, sessions, history, frame, vars
<1>3. ASSUME NEW s \in Slots, Accept(s)
      PROVE  FrameTypes' /\ PlacesInv'
  <2>1. conns + 1 \in 0..MaxConns
    BY <1>3, GameFrameAssumption DEF Accept, FrameTypes
  <2> QED
    BY <1>1, <1>3, <2>1 DEF Accept, FrameTypes, frame
<1>4. CASE UpdateEnd
  <2>1. phase' \in [Slots -> {"RUNNING", "PRECLOSED", "CLOSED", "DELETED"}]
    BY <1>4 DEF UpdateEnd, NextPhases, FrameTypes
  <2> QED
    BY <1>1, <1>4, <2>1 DEF UpdateEnd, FrameTypes, frame, history
<1>5. CASE BeginPacket
  <2>1. PICK a : BeginsAt(a)
    BY <1>5, BeginPacketResult
  <2>2. /\ Current \in Slots /\ conn[Current] \in Conns /\ msg_recv[Current] = NULL
        /\ begun' = [begun EXCEPT ![conn[Current]] = @ + 1] /\ begun[conn[Current]] < MaxPackets
        /\ UNCHANGED <<phase, busy, conn, netmgr, waiting, freed, frame, conns, delivered, handled, left>>
    BY <1>5, CurrentServes DEF BeginPacket
  <2>3. begun' \in [Conns -> 0..MaxPackets]
    <3> DEFINE d == conn[Current]
    <3>1. /\ begun \in [Conns -> 0..MaxPackets] /\ begun' = [begun EXCEPT ![d] = @ + 1]
          /\ d \in Conns /\ begun[d] < MaxPackets
      BY <2>2 DEF FrameTypes
    <3> HIDE DEF d
    <3>2. begun[d] + 1 \in 0..MaxPackets
      BY <3>1, GameFrameAssumption
    <3> QED
      BY <3>1, <3>2
  <2>4. waiting' \in Seq(Address')
    BY <2>1, <2>2, SeqMonotonic DEF BeginsAt, FrameTypes
  <2>5. FrameTypes'
    BY <2>1, <2>2, <2>3, <2>4 DEF FrameTypes, BeginsAt, netmgr, frame
  <2>6. Filling' = Filling \cup {a}
    <3>1. /\ msg_recv'[Current] = a /\ a # NULL
          /\ \A s \in Slots : s # Current => msg_recv'[s] = msg_recv[s]
      BY <2>1, <2>2 DEF BeginsAt, FrameTypes
    <3> QED
      BY <2>2, <3>1 DEF Filling
  <2>7. InHand' = InHand
    BY <2>2 DEF InHand, frame
  <2>8. \A s, t \in Slots : msg_recv'[s] = msg_recv'[t] => s = t \/ msg_recv'[s] = NULL
    <3>1. \A s \in Slots : s # Current => msg_recv'[s] = msg_recv[s] /\ msg_recv[s] # a
      <4>1. a # NULL /\ a \notin Filling
        BY <2>1 DEF BeginsAt
      <4>2. \A s \in Slots : s # Current => msg_recv'[s] = msg_recv[s]
        BY <2>1 DEF BeginsAt, FrameTypes
      <4> QED
        BY <4>1, <4>2 DEF Filling
    <3>2. msg_recv'[Current] = a
      BY <2>1, <2>2 DEF BeginsAt, FrameTypes
    <3> QED
      BY <3>1, <3>2 DEF PlacesInv
  <2>9. PlacesInv'
    BY <2>1, <2>2, <2>6, <2>7, <2>8 DEF PlacesInv, BeginsAt
  <2> QED
    BY <2>5, <2>9
<1>6. CASE CompletePacket
  <2> DEFINE a == msg_recv[Current]
  <2>1. /\ Current \in Slots /\ conn[Current] \in Conns /\ a \in Address /\ a \in Filling
        /\ waiting' = Append(waiting, a) /\ msg_recv' = [msg_recv EXCEPT ![Current] = NULL]
        /\ delivered' = [delivered EXCEPT ![conn[Current]] = @ + 1]
        /\ UNCHANGED <<phase, busy, conn, netmgr, heap, recycle, freed, frame, conns, begun, handled, left>>
    BY <1>6, CurrentServes DEF CompletePacket, Push, FrameTypes, Filling
  <2> HIDE DEF a
  <2>2. /\ waiting' \in Seq(Address) /\ ToSet(waiting') = ToSet(waiting) \cup {a}
        /\ Distinct(waiting')
    <3>1. a \notin ToSet(waiting)
      BY <2>1 DEF PlacesInv
    <3> QED
      BY <2>1, <3>1, AppendSet, AppendDistinct DEF FrameTypes, PlacesInv
  <2>3. delivered' \in [Conns -> Nat]
    BY <2>1 DEF FrameTypes
  <2>4. FrameTypes'
    BY <2>1, <2>2, <2>3 DEF FrameTypes, Address, netmgr, frame
  <2>5. Filling' = Filling \ {a} /\ InHand' = InHand /\ Address' = Address
    <3>1. \A s \in Slots : s # Current => msg_recv'[s] = msg_recv[s] /\ (msg_recv[s] # a \/ msg_recv[s] = NULL)
      BY <2>1 DEF FrameTypes, PlacesInv, a
    <3>2. msg_recv'[Current] = NULL /\ msg_recv[Current] = a
      BY <2>1 DEF FrameTypes, a
    <3>3. Filling' = Filling \ {a}
      BY <2>1, <3>1, <3>2 DEF Filling
    <3> QED
      BY <2>1, <3>3 DEF InHand, frame, Address
  <2>6. \A s, t \in Slots : msg_recv'[s] = msg_recv'[t] => s = t \/ msg_recv'[s] = NULL
    BY <2>1 DEF FrameTypes, PlacesInv
  <2>7. PlacesInv'
    BY <2>1, <2>2, <2>5, <2>6 DEF PlacesInv
  <2> QED
    BY <2>4, <2>7
<1>7. CASE Dispose
  <2> DEFINE a == msg_recv[Current]
  <2>1. /\ Current \in Slots /\ a \in Address \cup {NULL}
        /\ freed' = (freed \cup {a}) \ {NULL}
        /\ msg_recv' = [msg_recv EXCEPT ![Current] = NULL]
        /\ phase' = [phase EXCEPT ![Current] = "DELETED"] /\ conn' = [conn EXCEPT ![Current] = 0]
        /\ UNCHANGED <<busy, accepting, heap, recycle, waiting, frame, history>>
    BY <1>0, <1>7, CurrentSlot DEF Dispose, DestroyMessage, FrameTypes
  <2>2. a # NULL => a \in Filling
    BY <2>1 DEF Filling
  <2>3. FrameTypes'
    <3>1. /\ phase' \in [Slots -> {"RUNNING", "PRECLOSED", "CLOSED", "DELETED"}]
          /\ msg_recv' \in [Slots -> Address \cup {NULL}]
          /\ conn' \in [Slots -> 0..MaxConns]
      BY <2>1, GameFrameAssumption DEF FrameTypes
    <3>2. freed' \subseteq Address
      BY <2>1 DEF FrameTypes
    <3> QED
      BY <2>1, <3>1, <3>2 DEF FrameTypes, Address, frame, history
  <2>4. Filling' = Filling \ {a} /\ InHand' = InHand /\ Address' = Address
    BY <2>1, <1>0 DEF Filling, FrameTypes, PlacesInv, InHand, frame, Address
  <2>5. \A s, t \in Slots : msg_recv'[s] = msg_recv'[t] => s = t \/ msg_recv'[s] = NULL
    BY <2>1 DEF FrameTypes, PlacesInv
  <2> HIDE DEF a
  <2>6. PlacesInv'
    BY <2>1, <2>2, <2>4, <2>5, <1>0 DEF PlacesInv
  <2> QED
    BY <2>3, <2>6
<1>8. CASE Pop
  <2> DEFINE a == Head(waiting)
  <2>1. /\ working = NULL /\ working' = a /\ waiting' = Tail(waiting) /\ waiting # <<>>
        /\ UNCHANGED <<sessions, netmgr, heap, recycle, freed, pc, history>>
    BY <1>8 DEF Pop
  <2>2. /\ waiting' \in Seq(Address) /\ Distinct(waiting') /\ a \in ToSet(waiting)
        /\ ToSet(waiting') = ToSet(waiting) \ {a}
    BY <2>1, TailDistinct DEF FrameTypes, PlacesInv
  <2> HIDE DEF a
  <2>3. a \in Address
    BY <2>2 DEF PlacesInv
  <2>4. FrameTypes'
    BY <2>1, <2>2, <2>3 DEF FrameTypes, Address, sessions, netmgr, history
  <2>5. InHand' = {a} /\ InHand = {} /\ Filling' = Filling /\ Address' = Address
    BY <2>1, <2>3, <1>0 DEF Filling, InHand, sessions, Address
  <2>6. PlacesInv'
    BY <2>1, <2>2, <2>5 DEF PlacesInv, sessions
  <2> QED
    BY <2>4, <2>6
<1>9. CASE Handle
  <2>1. /\ working \in Address /\ working' = NULL /\ recycle' = Append(recycle, working)
        /\ handled' = [handled EXCEPT ![heap[working].conn] = @ + 1]
        /\ left' \in {left \ {working}, ToSet(waiting)} /\ pc' \in {"drain", "end"}
        /\ UNCHANGED <<sessions, netmgr, heap, waiting, freed, conns, begun, delivered>>
    BY <1>9 DEF Handle, FrameTypes
  <2>2. InHand = {working} /\ InHand' = {} /\ Filling' = Filling /\ Address' = Address
    BY <2>1, <1>0 DEF Filling, InHand, sessions, Address
  <2>3. /\ recycle' \in Seq(Address) /\ ToSet(recycle') = ToSet(recycle) \cup {working}
        /\ Distinct(recycle')
    <3>1. working \notin ToSet(recycle)
      BY <2>2 DEF PlacesInv
    <3> QED
      BY <2>1, <3>1, AppendSet, AppendDistinct DEF FrameTypes, PlacesInv
  <2>4. heap[working].conn \in Conns
    <3>1. heap[working] \in MessageRecord
      BY <2>1, ElementOfSeq DEF FrameTypes, Address
    <3> QED
      BY <3>1 DEF MessageRecord
  <2>5. handled' \in [Conns -> Nat]
    <3> DEFINE d == heap[working].conn
    <3>1. handled \in [Conns -> Nat] /\ handled' = [handled EXCEPT ![d] = @ + 1]
      BY <2>1 DEF FrameTypes
    <3>2. d \in Conns
      BY <2>4
    <3> HIDE DEF d
    <3> QED
      BY <3>1, <3>2
  <2>6. left' \subseteq Address
    BY <2>1 DEF FrameTypes, PlacesInv
  <2>7. FrameTypes'
    BY <2>1, <2>2, <2>3, <2>5, <2>6 DEF FrameTypes, sessions, netmgr
  <2>8. PlacesInv'
    BY <2>1, <2>2, <2>3 DEF PlacesInv, sessions
  <2> QED
    BY <2>7, <2>8
<1> QED
  BY <1>2, <1>3, <1>4, <1>5, <1>6, <1>7, <1>8, <1>9 DEF Next, Frame
-----------------------------------------------------------------------------
(* The packets of a connection. *)

\* A session's Message holds its newest packet, the one begun and not yet delivered, and the
\* counts of a connection that nobody serves yet are zero.
CountInv ==
  /\ \A c \in Conns : delivered[c] <= begun[c] /\ handled[c] <= delivered[c] /\ (c > conns => begun[c] = 0)
  /\ \A s \in Slots : conn[s] # 0 /\ msg_recv[s] = NULL => begun[conn[s]] = delivered[conn[s]]
  /\ \A s \in Slots : msg_recv[s] # NULL =>
       /\ conn[s] # 0
       /\ begun[conn[s]] = delivered[conn[s]] + 1
       /\ heap[msg_recv[s]] = [ptr |-> s, conn |-> conn[s], no |-> begun[conn[s]]]

\* What waits for the drain loop is what was delivered and not handled, in order.
OrderInv ==
  /\ \A i, j \in 1..Len(waiting) :
       i < j /\ heap[waiting[i]].conn = heap[waiting[j]].conn
         => heap[waiting[i]].no < heap[waiting[j]].no
  /\ working # NULL => \A a \in ToSet(waiting) :
       heap[a].conn = heap[working].conn => heap[working].no < heap[a].no
  /\ \A a \in Undispatched :
       heap[a].no \in (handled[heap[a].conn] + 1)..delivered[heap[a].conn]
  /\ \A c \in Conns : \A n \in (handled[c] + 1)..delivered[c] :
       \E a \in Undispatched : heap[a].conn = c /\ heap[a].no = n

\* An action that leaves the queue and its Messages alone leaves the order alone.
LEMMA OrderKept ==
  ASSUME FrameTypes, OrderInv, UNCHANGED <<waiting, working, delivered, handled>>,
         \A a \in Undispatched : heap'[a] = heap[a]
  PROVE  OrderInv'
<1>1. \A i \in 1..Len(waiting) : waiting[i] \in Undispatched
  BY LenProperties DEF Undispatched, ToSet, FrameTypes
<1>2. working # NULL => working \in Undispatched
  BY DEF Undispatched
<1>3. ToSet(waiting) \subseteq Undispatched /\ UNCHANGED Undispatched
  BY DEF Undispatched
<1> QED
  BY <1>1, <1>2, <1>3 DEF OrderInv

\* The counts and the order are kept by every action.
LEMMA OrderStep ==
  ASSUME GameFrameAssumption, FrameTypes, ListInv, ConnInv, PlacesInv, CountInv, OrderInv, [Next]_vars
  PROVE  CountInv' /\ OrderInv'
<1> USE DEF NULL
<1>0. NULL \notin Address
  BY DEF Address
<1>1. ASSUME UNCHANGED <<heap, waiting, working, msg_recv, conn, conns, begun, delivered, handled>>
      PROVE  CountInv' /\ OrderInv'
  BY <1>1, OrderKept DEF CountInv
<1>2. CASE UpdateBegin \/ UpdateEnd \/ ClientsDone \/ DrainDone \/ FrameEnd \/ List \/ UNCHANGED vars
  BY <1>1, <1>2 DEF UpdateBegin, UpdateEnd, ClientsDone, DrainDone, FrameEnd, List,
                    netmgr, sessions, history, queue, frame, vars
<1>3. ASSUME NEW s \in Slots, Accept(s)
      PROVE  CountInv' /\ OrderInv'
  <2>1. /\ conn' = [conn EXCEPT ![s] = conns + 1] /\ conns' = conns + 1
        /\ conns + 1 \in Conns /\ phase[s] = "DELETED"
        /\ UNCHANGED <<heap, waiting, working, msg_recv, begun, delivered, handled>>
    BY <1>3, GameFrameAssumption DEF Accept, Conns, FrameTypes, queue, frame
  <2>2. conn[s] = 0 /\ msg_recv[s] = NULL
    BY <2>1 DEF ConnInv, CountInv
  <2>3. begun[conns + 1] = 0 /\ delivered[conns + 1] = 0
    <3>1. /\ conns + 1 > conns
          /\ begun[conns + 1] \in Nat /\ delivered[conns + 1] \in Nat
      BY <2>1, GameFrameAssumption DEF FrameTypes
    <3>2. delivered[conns + 1] <= begun[conns + 1] /\ begun[conns + 1] = 0
      BY <2>1, <3>1 DEF CountInv
    <3> QED
      BY <3>1, <3>2
  <2>4. CountInv'
    <3>1. \A t \in Slots : msg_recv[t] # NULL => t # s
      BY <2>2
    <3>2. conn'[s] = conns + 1 /\ \A t \in Slots : t # s => conn'[t] = conn[t]
      BY <2>1 DEF FrameTypes
    <3>3. \A c \in Conns : c > conns' => c > conns
      BY <2>1, GameFrameAssumption DEF FrameTypes, Conns
    <3>4. \A t \in Slots : conn'[t] # 0 /\ msg_recv[t] = NULL => begun[conn'[t]] = delivered[conn'[t]]
      BY <2>3, <3>2 DEF CountInv
    <3>5. \A t \in Slots : msg_recv[t] # NULL => conn'[t] = conn[t]
      BY <3>1, <3>2
    <3> QED
      BY <2>1, <3>3, <3>4, <3>5 DEF CountInv
  <2> QED
    BY <2>1, <2>4, OrderKept
<1>4. CASE Dispose
  <2>1. /\ Current \in Slots /\ conn' = [conn EXCEPT ![Current] = 0]
        /\ msg_recv' = [msg_recv EXCEPT ![Current] = NULL]
        /\ UNCHANGED <<heap, waiting, working, conns, begun, delivered, handled>>
    BY <1>4, CurrentSlot DEF Dispose, history, frame
  <2>2. CountInv'
    BY <2>1 DEF CountInv, FrameTypes
  <2> QED
    BY <2>1, <2>2, OrderKept
<1>5. CASE BeginPacket
  <2>1. PICK a : BeginsAt(a)
    BY <1>5, BeginPacketResult
  <2>2. /\ Current \in Slots /\ conn[Current] \in Conns /\ conn[Current] \in 1..conns
        /\ msg_recv[Current] = NULL
        /\ begun' = [begun EXCEPT ![conn[Current]] = @ + 1]
        /\ UNCHANGED <<conn, waiting, working, conns, delivered, handled>>
    BY <1>5, CurrentServes DEF BeginPacket, frame
  <2>3. \A b \in Undispatched : heap'[b] = heap[b]
    <3>1. ToSet(waiting) \subseteq Address /\ InHand \subseteq Address
      BY DEF PlacesInv
    <3> QED
      BY <2>1, <3>1 DEF BeginsAt, Undispatched, InHand
  <2>4. OrderInv'
    BY <2>2, <2>3, OrderKept
  <2>5. begun[conn[Current]] = delivered[conn[Current]] /\ begun[conn[Current]] \in Nat
    BY <2>2, GameFrameAssumption DEF CountInv, Conns, FrameTypes
  <2>6. ASSUME NEW c \in Conns
        PROVE  delivered'[c] <= begun'[c] /\ handled'[c] <= delivered'[c] /\ (c > conns' => begun'[c] = 0)
    <3>1. delivered[c] \in Nat /\ begun[c] \in Nat /\ conns \in Nat /\ c \in Nat
      BY GameFrameAssumption DEF FrameTypes, Conns
    <3>2. begun'[c] = IF c = conn[Current] THEN begun[c] + 1 ELSE begun[c]
      BY <2>2 DEF FrameTypes
    <3> QED
      BY <2>2, <3>1, <3>2 DEF CountInv
  <2>7. ASSUME NEW s \in Slots, s # Current
        PROVE  /\ conn'[s] = conn[s] /\ msg_recv'[s] = msg_recv[s]
               /\ msg_recv[s] # NULL => heap'[msg_recv[s]] = heap[msg_recv[s]]
               /\ conn[s] # 0 => begun'[conn[s]] = begun[conn[s]]
    <3>1. conn[s] # 0 => conn[s] # conn[Current] /\ conn[s] \in Conns
      BY <2>2, <2>7 DEF ConnInv, Conns, FrameTypes
    <3>2. msg_recv[s] # NULL => msg_recv[s] \in Address /\ msg_recv[s] # a
      BY <2>1 DEF BeginsAt, Filling, FrameTypes
    <3> QED
      BY <2>1, <2>2, <2>7, <3>1, <3>2 DEF BeginsAt, FrameTypes
  <2>8. /\ msg_recv'[Current] = a /\ a # NULL /\ begun'[conn[Current]] = begun[conn[Current]] + 1
        /\ heap'[a] = [ptr |-> Current, conn |-> conn[Current], no |-> begun[conn[Current]] + 1]
    BY <2>1, <2>2 DEF BeginsAt, FrameTypes
  <2>9. CountInv'
    BY <2>2, <2>5, <2>6, <2>7, <2>8 DEF CountInv, Conns
  <2> QED
    BY <2>4, <2>9
<1>6. CASE CompletePacket
  <2> DEFINE a == msg_recv[Current]
             d == conn[Current]
             w == Append(waiting, a)
  <2>1. /\ Current \in Slots /\ d \in Conns /\ d \in 1..conns /\ a \in Address /\ a # NULL
        /\ waiting' = w /\ msg_recv' = [msg_recv EXCEPT ![Current] = NULL]
        /\ delivered' = [delivered EXCEPT ![d] = @ + 1]
        /\ UNCHANGED <<heap, working, conn, conns, begun, handled>>
    BY <1>6, CurrentServes DEF CompletePacket, Push, FrameTypes, frame
  <2>2. /\ begun[d] = delivered[d] + 1 /\ heap[a].conn = d /\ heap[a].no = delivered[d] + 1
    <3>1. /\ begun[d] = delivered[d] + 1
          /\ heap[a] = [ptr |-> Current, conn |-> d, no |-> begun[d]]
      BY <2>1 DEF CountInv
    <3> QED
      BY <3>1
  <2>3. /\ begun \in [Conns -> Nat] /\ delivered \in [Conns -> Nat] /\ handled \in [Conns -> Nat]
        /\ delivered'[d] = delivered[d] + 1 /\ handled[d] <= delivered[d]
        /\ \A c \in Conns : c # d => delivered'[c] = delivered[c]
    BY <2>1, GameFrameAssumption DEF FrameTypes, CountInv
  <2>4. CountInv'
    <3>1. ASSUME NEW s \in Slots, s # Current
          PROVE  /\ conn[s] # 0 => conn[s] # d /\ conn[s] \in Conns
                 /\ msg_recv'[s] = msg_recv[s]
      BY <2>1, <3>1 DEF ConnInv, Conns, FrameTypes
    <3>2. msg_recv'[Current] = NULL
      BY <2>1 DEF FrameTypes
    <3>3. \A s \in Slots : conn[s] # 0 /\ msg_recv'[s] = NULL => begun[conn[s]] = delivered'[conn[s]]
      BY <2>2, <2>3, <3>1, <3>2 DEF CountInv
    <3>4. \A s \in Slots : msg_recv'[s] # NULL => s # Current
      BY <3>2
    <3>5. \A s \in Slots : msg_recv'[s] # NULL =>
            /\ conn[s] # 0
            /\ begun[conn[s]] = delivered'[conn[s]] + 1
            /\ heap[msg_recv'[s]] = [ptr |-> s, conn |-> conn[s], no |-> begun[conn[s]]]
      BY <2>3, <3>1, <3>4 DEF CountInv
    <3>6. ASSUME NEW c \in Conns
          PROVE  delivered'[c] <= begun[c] /\ handled[c] <= delivered'[c]
                 /\ (c > conns => begun[c] = 0)
      <4>1. begun[c] \in Nat /\ delivered[c] \in Nat /\ handled[c] \in Nat
            /\ delivered[c] <= begun[c] /\ handled[c] <= delivered[c] /\ (c > conns => begun[c] = 0)
        BY <2>3 DEF CountInv
      <4>2. CASE c = d
        BY <2>2, <2>3, <4>1, <4>2
      <4>3. CASE c # d
        BY <2>3, <4>1, <4>3
      <4> QED
        BY <4>2, <4>3
    <3> QED
      BY <2>1, <3>3, <3>5, <3>6 DEF CountInv
  <2> HIDE DEF a, d
  <2>5. /\ waiting \in Seq(Address) /\ w \in Seq(Address) /\ Len(w) = Len(waiting) + 1
        /\ Len(waiting) \in Nat
        /\ ToSet(w) = ToSet(waiting) \cup {a}
        /\ w[Len(waiting) + 1] = a
        /\ \A i \in 1..Len(waiting) : w[i] = waiting[i] /\ waiting[i] \in ToSet(waiting)
    <3>1. waiting \in Seq(Address) /\ Len(waiting) \in Nat
      BY DEF FrameTypes
    <3>2. \A i \in 1..Len(waiting) : waiting[i] \in ToSet(waiting)
      BY <3>1, LenProperties DEF ToSet
    <3> QED
      BY <2>1, <3>1, <3>2, AppendSet, AppendProperties
  <2> HIDE DEF w
  <2>6. Undispatched' = Undispatched \cup {a}
    BY <2>1, <2>5 DEF Undispatched
  <2>7. \A b \in Undispatched : heap[b].conn = d => heap[b].no < heap[a].no
    <3> SUFFICES ASSUME NEW b \in Undispatched, heap[b].conn = d
                 PROVE  heap[b].no < heap[a].no
      OBVIOUS
    <3>1. heap[b].no \in (handled[d] + 1)..delivered[d]
      BY DEF OrderInv
    <3> QED
      BY <2>1, <2>2, <2>3, <3>1
  <2>8. \A i, j \in 1..Len(w) : i < j /\ heap[w[i]].conn = heap[w[j]].conn => heap[w[i]].no < heap[w[j]].no
    <3> SUFFICES ASSUME NEW i \in 1..Len(w), NEW j \in 1..Len(w), i < j,
                        heap[w[i]].conn = heap[w[j]].conn
                 PROVE  heap[w[i]].no < heap[w[j]].no
      OBVIOUS
    <3>1. i \in 1..Len(waiting) /\ w[i] = waiting[i] /\ w[i] \in Undispatched
      BY <2>5 DEF Undispatched
    <3>2. CASE j \in 1..Len(waiting)
      BY <2>5, <3>1, <3>2 DEF OrderInv
    <3>3. CASE j = Len(waiting) + 1
      BY <2>2, <2>5, <2>7, <3>1, <3>3
    <3> QED
      BY <2>5, <3>2, <3>3
  <2>9. working # NULL => \A b \in ToSet(w) : heap[b].conn = heap[working].conn => heap[working].no < heap[b].no
    <3>1. working # NULL => working \in Undispatched
      BY DEF Undispatched
    <3> QED
      BY <2>2, <2>5, <2>7, <3>1 DEF OrderInv
  <2>10. ASSUME NEW b \in Undispatched \cup {a}
         PROVE  heap[b].no \in (handled[heap[b].conn] + 1)..delivered'[heap[b].conn]
    <3>1. CASE b = a
      BY <2>1, <2>2, <2>3, <3>1
    <3>2. CASE b \in Undispatched
      <4>1. heap[b].no \in (handled[heap[b].conn] + 1)..delivered[heap[b].conn]
        BY <3>2 DEF OrderInv
      <4>2. heap[b].conn \in Conns
        <5>1. b \in Address
          BY <3>2 DEF Undispatched, PlacesInv, InHand
        <5>2. heap[b] \in MessageRecord
          BY <5>1, ElementOfSeq DEF FrameTypes, Address
        <5> QED
          BY <5>2 DEF MessageRecord
      <4>3. CASE heap[b].conn = d
        BY <2>1, <2>3, <4>1, <4>3
      <4>4. CASE heap[b].conn # d
        BY <2>3, <4>1, <4>2, <4>4
      <4> QED
        BY <4>3, <4>4
    <3> QED
      BY <2>10, <3>1, <3>2
  <2>11. ASSUME NEW c \in Conns, NEW n \in (handled[c] + 1)..delivered'[c]
         PROVE  \E b \in Undispatched \cup {a} : heap[b].conn = c /\ heap[b].no = n
    <3>1. CASE c = d /\ n = delivered[d] + 1
      BY <2>2, <3>1
    <3>2. CASE ~(c = d /\ n = delivered[d] + 1)
      <4>1. n \in (handled[c] + 1)..delivered[c]
        BY <2>1, <2>3, <2>11, <3>2
      <4> QED
        BY <4>1 DEF OrderInv
    <3> QED
      BY <3>1, <3>2
  <2>12. OrderInv'
    BY <2>1, <2>6, <2>8, <2>9, <2>10, <2>11 DEF OrderInv
  <2> QED
    BY <2>4, <2>12
<1>7. CASE Pop
  <2> DEFINE a == Head(waiting)
  <2>1. /\ working = NULL /\ working' = a /\ waiting' = Tail(waiting) /\ waiting # <<>>
        /\ UNCHANGED <<heap, msg_recv, conn, conns, begun, delivered, handled>>
    BY <1>7 DEF Pop, sessions, history
  <2>2. CountInv'
    BY <2>1 DEF CountInv
  <2>3. /\ a \in ToSet(waiting) /\ ToSet(waiting') = ToSet(waiting) \ {a}
        /\ waiting' \in Seq(Address) /\ Len(waiting') = Len(waiting) - 1 /\ Len(waiting) \in Nat
        /\ \A i \in 1..(Len(waiting) - 1) : waiting'[i] = waiting[i + 1]
        /\ a = waiting[1]
    BY <2>1, TailDistinct DEF FrameTypes, PlacesInv
  <2> HIDE DEF a
  <2>4. a # NULL
    BY <1>0, <2>3 DEF PlacesInv
  <2>5. Undispatched' = Undispatched
    BY <2>1, <2>3, <2>4 DEF Undispatched
  <2>6. \A i, j \in 1..Len(waiting') : i < j /\ heap[waiting'[i]].conn = heap[waiting'[j]].conn
          => heap[waiting'[i]].no < heap[waiting'[j]].no
    <3> SUFFICES ASSUME NEW i \in 1..Len(waiting'), NEW j \in 1..Len(waiting'), i < j,
                        heap[waiting'[i]].conn = heap[waiting'[j]].conn
                 PROVE  heap[waiting'[i]].no < heap[waiting'[j]].no
      OBVIOUS
    <3>1. /\ i + 1 \in 1..Len(waiting) /\ j + 1 \in 1..Len(waiting) /\ i + 1 < j + 1
          /\ waiting'[i] = waiting[i + 1] /\ waiting'[j] = waiting[j + 1]
      BY <2>3
    <3> QED
      BY <3>1 DEF OrderInv
  <2>7. \A b \in ToSet(waiting') : heap[b].conn = heap[a].conn => heap[a].no < heap[b].no
    <3> SUFFICES ASSUME NEW b \in ToSet(waiting'), heap[b].conn = heap[a].conn
                 PROVE  heap[a].no < heap[b].no
      OBVIOUS
    <3>1. PICK i \in 1..Len(waiting') : b = waiting'[i]
      BY <2>3, LenProperties DEF ToSet
    <3>2. 1 \in 1..Len(waiting) /\ i + 1 \in 1..Len(waiting) /\ 1 < i + 1 /\ b = waiting[i + 1]
      BY <2>3, <3>1
    <3> QED
      BY <2>3, <3>2 DEF OrderInv
  <2>8. OrderInv'
    BY <2>1, <2>5, <2>6, <2>7 DEF OrderInv
  <2> QED
    BY <2>2, <2>8
<1>8. CASE Handle
  <2> DEFINE d == heap[working].conn
  <2>1. /\ working # NULL /\ working \in Address /\ working' = NULL
        /\ handled' = [handled EXCEPT ![d] = @ + 1]
        /\ UNCHANGED <<heap, waiting, msg_recv, conn, conns, begun, delivered>>
    BY <1>8 DEF Handle, FrameTypes, sessions
  <2>2. d \in Conns
    <3>1. heap[working] \in MessageRecord
      BY <2>1, ElementOfSeq DEF FrameTypes, Address
    <3> QED
      BY <3>1 DEF MessageRecord
  <2> HIDE DEF d
  <2>3. /\ delivered \in [Conns -> Nat] /\ handled \in [Conns -> Nat]
        /\ handled'[d] = handled[d] + 1 /\ \A c \in Conns : c # d => handled'[c] = handled[c]
    BY <2>1, <2>2 DEF FrameTypes
  <2>4. working \in Undispatched /\ Undispatched' = ToSet(waiting) /\ Undispatched = ToSet(waiting) \cup {working}
    BY <2>1 DEF Undispatched
  <2>5. heap[working].no = handled[d] + 1 /\ handled[d] + 1 <= delivered[d]
    <3>1. heap[working].no \in (handled[d] + 1)..delivered[d]
      BY <2>4 DEF OrderInv, d
    <3>2. handled[d] \in Nat /\ delivered[d] \in Nat
      BY <2>2, <2>3
    <3>3. handled[d] + 1 \in (handled[d] + 1)..delivered[d]
      BY <3>1, <3>2
    <3>4. PICK b \in Undispatched : heap[b].conn = d /\ heap[b].no = handled[d] + 1
      BY <2>2, <3>3 DEF OrderInv
    <3>5. CASE b = working
      BY <3>3, <3>2, <3>4, <3>5
    <3>6. CASE b \in ToSet(waiting)
      <4>1. heap[working].no < heap[b].no
        BY <2>1, <3>4, <3>6 DEF OrderInv, d
      <4> QED
        BY <3>1, <3>2, <3>4, <4>1
    <3> QED
      BY <2>4, <3>5, <3>6
  <2>6. CountInv'
    <3>1. \A c \in Conns : handled'[c] <= delivered[c]
      BY <2>2, <2>3, <2>5 DEF CountInv
    <3> QED
      BY <2>1, <3>1 DEF CountInv
  <2>7. ASSUME NEW b \in ToSet(waiting)
        PROVE  heap[b].no \in (handled'[heap[b].conn] + 1)..delivered[heap[b].conn]
    <3>1. b \in Undispatched /\ heap[b].no \in (handled[heap[b].conn] + 1)..delivered[heap[b].conn]
      BY <2>4, <2>7 DEF OrderInv
    <3>2. heap[b].conn \in Conns
      <4>1. heap[b] \in MessageRecord
        BY <2>7, ElementOfSeq DEF FrameTypes, Address, PlacesInv
      <4> QED
        BY <4>1 DEF MessageRecord
    <3>3. CASE heap[b].conn = d
      <4>1. heap[working].no < heap[b].no
        BY <2>1, <2>7, <3>3 DEF OrderInv, d
      <4> QED
        BY <2>2, <2>3, <2>5, <3>1, <3>3, <4>1
    <3>4. CASE heap[b].conn # d
      BY <2>3, <3>1, <3>2, <3>4
    <3> QED
      BY <3>3, <3>4
  <2>8. ASSUME NEW c \in Conns, NEW n \in (handled'[c] + 1)..delivered[c]
        PROVE  \E b \in ToSet(waiting) : heap[b].conn = c /\ heap[b].no = n
    <3>1. n \in (handled[c] + 1)..delivered[c] /\ ~(c = d /\ n = handled[d] + 1)
      BY <2>2, <2>3, <2>8
    <3>2. PICK b \in Undispatched : heap[b].conn = c /\ heap[b].no = n
      BY <3>1 DEF OrderInv
    <3>3. b # working
      BY <2>5, <3>1, <3>2 DEF d
    <3> QED
      BY <2>4, <3>2, <3>3
  <2>9. OrderInv'
    BY <2>1, <2>4, <2>7, <2>8 DEF OrderInv
  <2> QED
    BY <2>6, <2>9
<1> QED
  BY <1>2, <1>3, <1>4, <1>5, <1>6, <1>7, <1>8 DEF Next, Frame
-----------------------------------------------------------------------------
(* The owners of what waits. *)

\* A packet that no cut off drain loop has left behind came in during this frame.  So its session
\* runs, or has left RUNNING in this frame, and then Update's iterator is past it.
OwnerInv ==
  /\ pc # "drain" => working = NULL
  /\ pc = "end" => ToSet(waiting) \subseteq left
  /\ \A a \in Undispatched \ left :
       /\ conn[heap[a].ptr] = heap[a].conn
       /\ phase[heap[a].ptr] \in {"RUNNING", "PRECLOSED"}
       /\ phase[heap[a].ptr] = "PRECLOSED" /\ pc = "clients"
            => \E k \in 1..(it - 1) : clients[k] = heap[a].ptr

\* The owner of what waits is an address.
LEMMA OwnerSlot ==
  ASSUME FrameTypes, PlacesInv, NEW a \in Undispatched
  PROVE  a \in Address /\ heap[a].ptr \in Slots
<1>1. a \in Address
  BY DEF Undispatched, PlacesInv, InHand
<1>2. heap[a] \in MessageRecord
  BY <1>1, ElementOfSeq DEF FrameTypes, Address
<1> QED
  BY <1>1, <1>2 DEF MessageRecord

\* The owners stay while what they sent waits.
LEMMA OwnerStep ==
  ASSUME GameFrameAssumption, FrameTypes, ListInv, ConnInv, PlacesInv, CountInv, OwnerInv, [Next]_vars
  PROVE  OwnerInv'
<1> USE DEF NULL
<1>0. NULL \notin Address
  BY DEF Address
<1>1. ASSUME UNCHANGED <<phase, conn, clients, it, heap, waiting, working, left>>,
             pc' = pc \/ pc' = "drain" \/ (pc' = "end" /\ working = NULL /\ waiting = <<>>)
      PROVE  OwnerInv'
  <2>1. Undispatched' = Undispatched
    BY <1>1 DEF Undispatched
  <2>2. waiting = <<>> => ToSet(waiting) = {}
    BY DEF ToSet
  <2> QED
    BY <1>1, <2>1, <2>2 DEF OwnerInv
<1>2. CASE UpdateBegin \/ ClientsDone \/ DrainDone \/ UNCHANGED vars
  BY <1>1, <1>2 DEF UpdateBegin, ClientsDone, DrainDone,
                    netmgr, sessions, history, queue, frame, vars
<1>3. ASSUME NEW s \in Slots, Accept(s)
      PROVE  OwnerInv'
  <2>1. /\ phase[s] = "DELETED" /\ phase' = [phase EXCEPT ![s] = "RUNNING"]
        /\ conn' = [conn EXCEPT ![s] = conns + 1]
        /\ UNCHANGED <<clients, it, heap, waiting, working, left, pc>>
    BY <1>3 DEF Accept, queue, frame
  <2>2. \A a \in Undispatched \ left :
          /\ heap[a].ptr # s
          /\ phase'[heap[a].ptr] = phase[heap[a].ptr] /\ conn'[heap[a].ptr] = conn[heap[a].ptr]
    BY <2>1, OwnerSlot DEF OwnerInv, FrameTypes
  <2>3. Undispatched' = Undispatched
    BY <2>1 DEF Undispatched
  <2> QED
    BY <2>1, <2>2, <2>3 DEF OwnerInv
<1>4. CASE List
  <2>1. /\ pc # "clients" /\ UNCHANGED <<phase, conn, it, heap, waiting, working, left, pc>>
    BY <1>4 DEF List, sessions, history, queue, frame
  <2>2. Undispatched' = Undispatched
    BY <2>1 DEF Undispatched
  <2> QED
    BY <2>1, <2>2 DEF OwnerInv
<1>5. CASE BeginPacket
  <2>1. PICK a : BeginsAt(a)
    BY <1>5, BeginPacketResult
  <2>2. UNCHANGED <<phase, conn, clients, it, waiting, working, left, pc>>
    BY <1>5 DEF BeginPacket, netmgr, frame
  <2>3. Undispatched' = Undispatched /\ \A b \in Undispatched : heap'[b] = heap[b]
    BY <2>1, <2>2, OwnerSlot DEF BeginsAt, Undispatched, InHand
  <2> QED
    BY <2>2, <2>3 DEF OwnerInv
<1>6. CASE CompletePacket
  <2> DEFINE a == msg_recv[Current]
  <2>1. /\ Current \in Slots /\ phase[Current] = "RUNNING" /\ a \in Address /\ a # NULL
        /\ waiting' = Append(waiting, a) /\ pc = "clients"
        /\ UNCHANGED <<phase, conn, clients, it, heap, working, left, pc>>
    BY <1>6, CurrentServes DEF CompletePacket, Receiving, Push, FrameTypes, netmgr, frame
  <2>2. heap[a].ptr = Current /\ heap[a].conn = conn[Current]
    <3>1. heap[a] = [ptr |-> Current, conn |-> conn[Current], no |-> begun[conn[Current]]]
      BY <2>1 DEF CountInv
    <3> QED
      BY <3>1
  <2> HIDE DEF a
  <2>3. ToSet(waiting') = ToSet(waiting) \cup {a}
    BY <2>1, AppendSet DEF FrameTypes
  <2>4. Undispatched' = Undispatched \cup {a}
    BY <2>1, <2>3 DEF Undispatched
  <2> QED
    BY <2>1, <2>2, <2>4 DEF OwnerInv
<1>7. CASE UpdateEnd
  <2>1. /\ Current \in Slots /\ it \in 1..Len(clients) /\ pc = "clients" /\ clients[it] = Current
        /\ UNCHANGED <<conn, clients, heap, waiting, working, left, pc>>
    BY <1>7, CurrentSlot DEF UpdateEnd, Current, queue, frame, history
  <2>2. PICK p \in NextPhases(phase[Current]) :
          /\ phase' = [phase EXCEPT ![Current] = p]
          /\ it' = IF p = "CLOSED" THEN it ELSE it + 1
    BY <1>7 DEF UpdateEnd
  <2>3. ASSUME NEW b \in Undispatched \ left
        PROVE  /\ phase'[heap[b].ptr] \in {"RUNNING", "PRECLOSED"}
               /\ phase'[heap[b].ptr] = "PRECLOSED" => \E k \in 1..(it' - 1) : clients[k] = heap[b].ptr
    <3> DEFINE s == heap[b].ptr
    <3>1. /\ s \in Slots /\ phase[s] \in {"RUNNING", "PRECLOSED"}
          /\ phase[s] = "PRECLOSED" => \E k \in 1..(it - 1) : clients[k] = s
      BY <2>1, <2>3, OwnerSlot DEF OwnerInv
    <3> HIDE DEF s
    <3>2. CASE s = Current
      <4>1. phase[s] = "RUNNING"
        <5>1. \A k \in 1..(it - 1) : k \in 1..Len(clients) /\ k # it
          BY <2>1 DEF ListInv
        <5> QED
          BY <2>1, <3>1, <3>2, <5>1 DEF ListInv, Distinct
      <4>2. p \in {"RUNNING", "PRECLOSED"} /\ phase'[s] = p /\ it' = it + 1
        BY <2>1, <2>2, <3>2, <4>1 DEF NextPhases, FrameTypes
      <4>3. it \in 1..(it' - 1) /\ clients[it] = s
        BY <2>1, <3>2, <4>2
      <4> QED
        BY <4>2, <4>3 DEF s
    <3>3. CASE s # Current
      <4>1. phase'[s] = phase[s] /\ 1..(it - 1) \subseteq 1..(it' - 1)
        BY <2>1, <2>2, <3>1, <3>3 DEF FrameTypes
      <4> QED
        BY <3>1, <4>1 DEF s
    <3> QED
      BY <3>2, <3>3
  <2>4. Undispatched' = Undispatched
    BY <2>1 DEF Undispatched
  <2> QED
    BY <2>1, <2>3, <2>4 DEF OwnerInv
<1>8. CASE Dispose
  <2>1. /\ Current \in Slots /\ it \in 1..Len(clients) /\ phase[Current] = "CLOSED"
        /\ clients' = RemoveAt(clients, it)
        /\ phase' = [phase EXCEPT ![Current] = "DELETED"] /\ conn' = [conn EXCEPT ![Current] = 0]
        /\ UNCHANGED <<it, heap, waiting, working, left, pc>>
    BY <1>8, CurrentSlot DEF Dispose, Unlist, frame, history
  <2>2. \A k \in 1..(it - 1) : clients'[k] = clients[k]
    <3>1. clients \in Seq(Slots)
      BY DEF ListInv
    <3>2. /\ Len(clients) \in Nat
          /\ \A k \in 1..(Len(clients) - 1) : clients'[k] = IF k < it THEN clients[k] ELSE clients[k + 1]
      BY <2>1, <3>1, RemoveAtPlaces
    <3> QED
      BY <2>1, <3>2
  <2>3. \A a \in Undispatched \ left :
          /\ heap[a].ptr # Current
          /\ phase'[heap[a].ptr] = phase[heap[a].ptr] /\ conn'[heap[a].ptr] = conn[heap[a].ptr]
    BY <2>1, OwnerSlot DEF OwnerInv, FrameTypes
  <2>4. Undispatched' = Undispatched
    BY <2>1 DEF Undispatched
  <2> QED
    BY <2>1, <2>2, <2>3, <2>4 DEF OwnerInv
<1>9. CASE Pop
  <2>1. /\ pc = "drain" /\ working = NULL /\ working' = Head(waiting) /\ waiting' = Tail(waiting)
        /\ waiting # <<>>
        /\ UNCHANGED <<phase, conn, clients, it, heap, left, pc>>
    BY <1>9 DEF Pop, sessions, netmgr, history
  <2>2. Undispatched' \subseteq Undispatched
    <3>1. Head(waiting) \in ToSet(waiting) /\ ToSet(waiting') = ToSet(waiting) \ {Head(waiting)}
      BY <2>1, TailDistinct DEF FrameTypes, PlacesInv
    <3> QED
      BY <2>1, <3>1 DEF Undispatched
  <2> QED
    BY <2>1, <2>2 DEF OwnerInv
<1>10. CASE Handle
  <2>1. /\ pc = "drain" /\ working' = NULL
        /\ \/ pc' = "drain" /\ left' = left \ {working}
           \/ pc' = "end" /\ left' = ToSet(waiting)
        /\ UNCHANGED <<phase, conn, clients, it, heap, waiting>>
    BY <1>10 DEF Handle, sessions, netmgr
  <2>2. Undispatched' = ToSet(waiting) /\ working \notin ToSet(waiting)
    BY <2>1, <1>10 DEF Handle, Undispatched, PlacesInv, InHand
  <2>3. Undispatched' \ left' \subseteq Undispatched \ left
    BY <2>1, <2>2 DEF Undispatched
  <2> QED
    BY <2>1, <2>3 DEF OwnerInv
<1>11. CASE FrameEnd
  <2>1. /\ pc = "end" /\ pc' = "clients" /\ UNCHANGED <<phase, conn, heap, waiting, working, left>>
    BY <1>11 DEF FrameEnd, sessions, queue, history
  <2>2. Undispatched' \ left' = {}
    BY <2>1 DEF Undispatched, OwnerInv
  <2> QED
    BY <2>1, <2>2 DEF OwnerInv
<1> QED
  BY <1>2, <1>3, <1>4, <1>5, <1>6, <1>7, <1>8, <1>9, <1>10, <1>11 DEF Next, Frame
-----------------------------------------------------------------------------
(* The theorems. *)

GameFrameInv == FrameTypes /\ ListInv /\ ConnInv /\ PlacesInv /\ CountInv /\ OrderInv /\ OwnerInv

\* The inductive invariant of the frame loop: where the Messages are, what the counts of each
\* connection say of them, and who their owners are.
THEOREM GameFrameInvariant == Spec => []GameFrameInv
<1>1. Init => GameFrameInv
  <2> SUFFICES ASSUME Init
               PROVE  GameFrameInv
    OBVIOUS
  <2> USE GameFrameAssumption DEF Init, NULL
  <2>1. ToSet(<<>>) = {} /\ Distinct(<<>>) /\ \A S : <<>> \in Seq(S)
    BY DEF ToSet, Distinct
  <2>2. FrameTypes /\ ListInv /\ ConnInv
    BY <2>1 DEF FrameTypes, ListInv, ConnInv, Conns
  <2>3. Address = {} /\ Filling = {} /\ InHand = {} /\ Undispatched = {}
    BY <2>1 DEF Address, Filling, InHand, Undispatched
  <2>4. PlacesInv
    BY <2>1, <2>3 DEF PlacesInv
  <2>5. CountInv
    BY DEF CountInv
  <2>6. OrderInv
    BY <2>3 DEF OrderInv
  <2>7. OwnerInv
    BY <2>1, <2>3 DEF OwnerInv
  <2> QED
    BY <2>2, <2>4, <2>5, <2>6, <2>7 DEF GameFrameInv
<1>2. GameFrameInv /\ [Next]_vars => GameFrameInv'
  BY ListStep, PlacesStep, OrderStep, OwnerStep, GameFrameAssumption DEF GameFrameInv
<1> QED
  BY <1>1, <1>2, PTL DEF Spec

\* Type correctness.
THEOREM GameFrameTyping == Spec => []TypeOK
<1>1. GameFrameInv => TypeOK
  <2> SUFFICES ASSUME GameFrameInv
               PROVE  TypeOK
    OBVIOUS
  <2> USE DEF GameFrameInv
  <2>1. IsInjective(clients)
    <3>1. DOMAIN clients = 1..Len(clients)
      BY LenProperties DEF ListInv
    <3> QED
      BY <3>1 DEF ListInv, Distinct, IsInjective
  <2>2. \A a \in Address : heap[a] \in MessageRecord
    BY ElementOfSeq DEF FrameTypes, Address
  <2>3. delivered \in [Conns -> 0..MaxPackets] /\ handled \in [Conns -> 0..MaxPackets]
    <3>1. \A c \in Conns : /\ begun[c] \in 0..MaxPackets /\ delivered[c] \in Nat /\ handled[c] \in Nat
                           /\ handled[c] <= delivered[c] /\ delivered[c] <= begun[c]
      BY DEF FrameTypes, CountInv
    <3>2. \A c \in Conns : delivered[c] \in 0..MaxPackets /\ handled[c] \in 0..MaxPackets
      BY <3>1, GameFrameAssumption
    <3> QED
      BY <3>2 DEF FrameTypes
  <2> QED
    BY <2>1, <2>2, <2>3 DEF TypeOK, FrameTypes, ListInv, MessageRecord
<1> QED
  BY <1>1, GameFrameInvariant, PTL

\* Every Message is in exactly one place, through all the recycling.
THEOREM MessagesInOnePlace == Spec => []OnePlace
<1>1. GameFrameInv => OnePlace
  <2> SUFFICES ASSUME GameFrameInv
               PROVE  OnePlace
    OBVIOUS
  <2> DEFINE places == <<ToSet(recycle), ToSet(waiting), InHand, Filling, freed>>
  <2>1. IsInjective(recycle) /\ IsInjective(waiting)
    <3>1. DOMAIN recycle = 1..Len(recycle) /\ DOMAIN waiting = 1..Len(waiting)
      BY LenProperties DEF GameFrameInv, FrameTypes
    <3> QED
      BY <3>1 DEF GameFrameInv, PlacesInv, Distinct, IsInjective
  <2>2. /\ DOMAIN places = 1..5
        /\ places[1] = ToSet(recycle) /\ places[2] = ToSet(waiting) /\ places[3] = InHand
        /\ places[4] = Filling /\ places[5] = freed
    OBVIOUS
  <2> HIDE DEF places
  <2>3. \A i \in 1..5 : i \in {1, 2, 3, 4, 5}
    OBVIOUS
  <2>4. \A i, j \in DOMAIN places : i # j => places[i] \cap places[j] = {}
    BY <2>2, <2>3 DEF GameFrameInv, PlacesInv
  <2>5. UNION ToSet(places) = Address
    <3>1. ToSet(places) = {ToSet(recycle), ToSet(waiting), InHand, Filling, freed}
      BY <2>2, <2>3 DEF ToSet
    <3> QED
      BY <3>1 DEF GameFrameInv, PlacesInv
  <2> QED
    BY <2>1, <2>4, <2>5 DEF OnePlace, places, InHand, Filling, GameFrameInv, PlacesInv
<1> QED
  BY <1>1, GameFrameInvariant, PTL

\* The packets of a connection are dispatched in the order in which they came in.
THEOREM PacketsInOrder == Spec => []InOrder
<1>1. GameFrameInv => InOrder
  <2> SUFFICES ASSUME GameFrameInv, working # NULL
               PROVE  heap[working].no = handled[heap[working].conn] + 1
    BY DEF InOrder
  <2> DEFINE d == heap[working].conn
  <2>1. working \in Undispatched /\ working \in Address
    BY DEF Undispatched, GameFrameInv, FrameTypes
  <2>2. d \in Conns
    <3>1. heap[working] \in MessageRecord
      BY <2>1, ElementOfSeq DEF GameFrameInv, FrameTypes, Address
    <3> QED
      BY <3>1 DEF MessageRecord
  <2> HIDE DEF d
  <2>3. heap[working].no \in (handled[d] + 1)..delivered[d] /\ handled[d] \in Nat /\ delivered[d] \in Nat
    BY <2>1, <2>2 DEF GameFrameInv, OrderInv, FrameTypes, d
  <2>4. handled[d] + 1 \in (handled[d] + 1)..delivered[d]
    BY <2>3
  <2>5. PICK b \in Undispatched : heap[b].conn = d /\ heap[b].no = handled[d] + 1
    BY <2>2, <2>4 DEF GameFrameInv, OrderInv
  <2>6. ASSUME b # working
        PROVE  FALSE
    <3>1. heap[working].no < heap[b].no
      BY <2>5, <2>6 DEF GameFrameInv, OrderInv, Undispatched, d
    <3> QED
      BY <2>3, <2>5, <3>1
  <2> QED
    BY <2>5, <2>6 DEF d
<1> QED
  BY <1>1, GameFrameInvariant, PTL

\* msg->_ptr names the session the packet came from, which exists and still serves that connection,
\* for every packet that no cut off drain loop has left in the queue.
THEOREM OwnersAreAlive == Spec => []OwnerIsAlive
<1>1. GameFrameInv => OwnerIsAlive
  BY DEF GameFrameInv, OwnerInv, OwnerIsAlive
<1> QED
  BY <1>1, GameFrameInvariant, PTL
-----------------------------------------------------------------------------
(* What is asked of a session. *)

\* Only a session that exists is being updated.
BusyInv == \A s \in Slots : busy[s] => conn[s] # 0

\* Every action keeps it.
LEMMA BusyStep ==
  ASSUME FrameTypes, ListInv, ConnInv, BusyInv, GameFrameAssumption, [Next]_vars
  PROVE  BusyInv'
<1>1. CASE UNCHANGED <<busy, conn>>
  BY <1>1 DEF BusyInv
<1>2. CASE BeginPacket \/ CompletePacket \/ ClientsDone \/ Pop \/ DrainDone \/ Handle \/ FrameEnd
           \/ List \/ UNCHANGED vars
  BY <1>1, <1>2 DEF BeginPacket, CompletePacket, ClientsDone, Pop, DrainDone, Handle, FrameEnd,
                    List, sessions, vars
<1>3. ASSUME NEW s \in Slots, Accept(s)
      PROVE  BusyInv'
  BY <1>3, GameFrameAssumption DEF Accept, BusyInv, FrameTypes
<1>4. CASE UpdateBegin \/ UpdateEnd \/ Dispose
  <2>1. Current \in Slots /\ Current \in ToSet(clients)
    BY <1>4, CurrentSlot DEF UpdateBegin, UpdateEnd, Dispose
  <2>2. conn[Current] # 0
    BY <2>1 DEF ListInv, ConnInv
  <2> QED
    BY <1>4, <2>1, <2>2 DEF UpdateBegin, UpdateEnd, Dispose, BusyInv, FrameTypes
<1> QED
  BY <1>2, <1>3, <1>4 DEF Next, Frame

\* The session of a connection is the one that serves it.
LEMMA SlotOfConn ==
  ASSUME ConnInv, NEW s \in Slots, conn[s] # 0
  PROVE  SlotOf(conn[s]) = s
BY DEF SlotOf, ConnInv

\* Life(c)'s state, in terms of the session that serves c, the only one if there is one.
LifePhase(c) ==
  IF c > conns THEN "RUNNING" ELSE IF \E s \in Slots : conn[s] = c THEN phase[SlotOf(c)] ELSE "DELETED"
LifeBusy(c) == \E s \in Slots : conn[s] = c /\ busy[s]

\* For a connection that is served, it is that session's.
LEMMA LifeOfServed ==
  ASSUME GameFrameAssumption, FrameTypes, ConnInv, NEW s \in Slots, conn[s] # 0
  PROVE  LifePhase(conn[s]) = phase[s] /\ LifeBusy(conn[s]) = busy[s]
<1>1. ~(conn[s] > conns) /\ SlotOf(conn[s]) = s
  BY SlotOfConn, GameFrameAssumption DEF ConnInv, FrameTypes
<1>2. LifePhase(conn[s]) = phase[s]
  BY <1>1 DEF LifePhase
<1>3. \A t \in Slots : conn[t] = conn[s] => t = s
  BY DEF ConnInv
<1> QED
  BY <1>2, <1>3 DEF LifeBusy, FrameTypes

\* A step that leaves the session of a connection alone, or leaves it without one, leaves its life
\* alone.
LEMMA LifeKept ==
  ASSUME GameFrameAssumption, FrameTypes, FrameTypes', ConnInv, ConnInv', NEW c \in Conns,
         c > conns <=> c > conns',
         \A s \in Slots : conn[s] = c \/ conn'[s] = c =>
           conn'[s] = conn[s] /\ phase'[s] = phase[s] /\ busy'[s] = busy[s]
  PROVE  LifePhase(c)' = LifePhase(c) /\ LifeBusy(c)' = LifeBusy(c)
<1>1. c # 0
  BY DEF Conns
<1>2. LifeBusy(c)' = LifeBusy(c)
  BY DEF LifeBusy
<1>3. CASE \E s \in Slots : conn[s] = c
  <2>1. PICK s \in Slots : conn[s] = c
    BY <1>3
  <2>2. conn'[s] = c /\ phase'[s] = phase[s]
    BY <2>1
  <2>3. SlotOf(c) = s /\ SlotOf(c)' = s
    BY <1>1, <2>1, <2>2 DEF SlotOf, ConnInv
  <2> QED
    BY <1>2, <2>1, <2>2, <2>3 DEF LifePhase
<1>4. CASE ~\E s \in Slots : conn[s] = c
  BY <1>2, <1>4 DEF LifePhase
<1> QED
  BY <1>3, <1>4

\* What Lifecycle lets a step do to a session's phase, busy flag and deliveries.
LifeStep(c) ==
  LET p == LifePhase(c)  b == LifeBusy(c)
  IN  \/ ~b /\ p # "DELETED" /\ b' /\ p' = p /\ delivered'[c] = delivered[c]
      \/ b /\ p = "RUNNING" /\ b' /\ p' = p /\ delivered'[c] \in Nat /\ delivered'[c] > delivered[c]
      \/ b /\ ~b' /\ (p' = p \/ <<p, p'>> \in {<<"RUNNING", "PRECLOSED">>, <<"PRECLOSED", "CLOSED">>})
           /\ delivered'[c] = delivered[c]
      \/ ~b /\ p = "CLOSED" /\ ~b' /\ p' = "DELETED" /\ delivered'[c] = delivered[c]
      \/ p' = p /\ b' = b /\ delivered'[c] = delivered[c]

\* Every action takes every session through a step of its life or leaves it alone.
LEMMA LifeSteps ==
  ASSUME GameFrameAssumption, GameFrameInv, GameFrameInv', BusyInv, BusyInv', [Next]_vars, NEW c \in Conns
  PROVE  LifeStep(c)
<1> USE DEF GameFrameInv
<1>0. c # 0 /\ c \in Nat /\ delivered[c] \in Nat
  BY DEF Conns, FrameTypes
<1>1. ASSUME UNCHANGED <<phase, busy, conn, conns, delivered>>
      PROVE  LifeStep(c)
  <2>1. LifePhase(c)' = LifePhase(c) /\ LifeBusy(c)' = LifeBusy(c)
    BY <1>1, LifeKept
  <2> QED
    BY <1>1, <2>1 DEF LifeStep
<1>2. CASE BeginPacket \/ ClientsDone \/ Pop \/ DrainDone \/ Handle \/ FrameEnd \/ List \/ UNCHANGED vars
  BY <1>1, <1>2 DEF BeginPacket, ClientsDone, Pop, DrainDone, Handle, FrameEnd, List,
                    sessions, history, vars
<1>3. ASSUME NEW s \in Slots, Accept(s)
      PROVE  LifeStep(c)
  <2>1. /\ phase[s] = "DELETED" /\ phase' = [phase EXCEPT ![s] = "RUNNING"]
        /\ conn' = [conn EXCEPT ![s] = conns + 1] /\ conns' = conns + 1 /\ conns \in Nat
        /\ UNCHANGED <<busy, delivered>>
    BY <1>3, GameFrameAssumption DEF Accept, FrameTypes
  <2>2. conn[s] = 0 /\ busy[s] = FALSE /\ conn'[s] = conns + 1 /\ phase'[s] = "RUNNING"
    BY <2>1 DEF ConnInv, BusyInv, FrameTypes
  <2>3. \A t \in Slots : t # s => conn'[t] = conn[t] /\ phase'[t] = phase[t]
    BY <2>1 DEF FrameTypes
  <2>4. CASE c = conns + 1
    <3>1. LifePhase(c) = "RUNNING"
      BY <2>1, <2>4 DEF LifePhase
    <3>2. LifeBusy(c) = FALSE
      BY <2>1, <2>4 DEF LifeBusy, ConnInv
    <3>3. LifePhase(c)' = "RUNNING" /\ LifeBusy(c)' = FALSE
      <4>1. ~(c > conns') /\ conn'[s] = c /\ conn'[s] # 0
        BY <1>0, <2>1, <2>2, <2>4
      <4>2. \A t \in Slots : conn'[t] = c => t = s
        BY <4>1 DEF ConnInv
      <4>3. SlotOf(c)' = s
        BY <4>1, <4>2 DEF SlotOf
      <4> QED
        BY <2>1, <2>2, <4>1, <4>2, <4>3 DEF LifePhase, LifeBusy
    <3> QED
      BY <2>1, <3>1, <3>2, <3>3 DEF LifeStep
  <2>5. CASE c # conns + 1
    <3>1. \A t \in Slots : conn[t] = c \/ conn'[t] = c => t # s
      BY <1>0, <2>2, <2>5
    <3>2. LifePhase(c)' = LifePhase(c) /\ LifeBusy(c)' = LifeBusy(c)
      <4>1. c > conns <=> c > conns'
        BY <1>0, <2>1, <2>5
      <4> QED
        BY <2>1, <2>3, <3>1, <4>1, LifeKept
    <3> QED
      BY <2>1, <3>2 DEF LifeStep
  <2> QED
    BY <2>4, <2>5
<1>4. ASSUME UpdateBegin \/ UpdateEnd \/ CompletePacket \/ Dispose
      PROVE  LifeStep(c)
  <2> DEFINE s == Current
  <2>1. /\ s \in Slots /\ phase[s] # "DELETED" /\ conn[s] # 0
        /\ conns' = conns /\ conns \in Nat /\ conn[s] \in Conns
    <3>1. s \in Slots /\ s \in ToSet(clients)
      BY <1>4, CurrentSlot DEF UpdateBegin, UpdateEnd, CompletePacket, Receiving, Dispose
    <3>2. phase[s] # "DELETED" /\ conn[s] # 0
      BY <3>1 DEF ListInv, ConnInv
    <3>3. conns' = conns
      BY <1>4 DEF UpdateBegin, UpdateEnd, CompletePacket, Dispose, history
    <3> QED
      BY <3>1, <3>2, <3>3 DEF FrameTypes, Conns
  <2>2. /\ \A t \in Slots : t # s => conn'[t] = conn[t] /\ phase'[t] = phase[t] /\ busy'[t] = busy[t]
        /\ c # conn[s] => delivered'[c] = delivered[c]
    BY <1>4, <2>1 DEF UpdateBegin, UpdateEnd, CompletePacket, Dispose, history, FrameTypes
  <2>3. CASE c # conn[s]
    <3>1. conn'[s] \in {conn[s], 0}
      BY <1>4, <2>1 DEF UpdateBegin, UpdateEnd, CompletePacket, Dispose, FrameTypes
    <3>2. \A t \in Slots : conn[t] = c \/ conn'[t] = c => t # s
      BY <1>0, <2>3, <3>1
    <3>3. LifePhase(c)' = LifePhase(c) /\ LifeBusy(c)' = LifeBusy(c)
      BY <2>1, <2>2, <3>2, LifeKept
    <3> QED
      BY <2>2, <2>3, <3>3 DEF LifeStep
  <2>4. CASE c = conn[s]
    <3>1. LifePhase(c) = phase[s] /\ LifeBusy(c) = busy[s]
      BY <2>1, <2>4, LifeOfServed
    <3>2. ASSUME conn'[s] = conn[s]
          PROVE  LifePhase(c)' = phase'[s] /\ LifeBusy(c)' = busy'[s]
      <4>1. ~(c > conns') /\ SlotOf(c)' = s /\ \A t \in Slots : conn'[t] = c => t = s
        BY <1>0, <2>1, <2>4, <3>2 DEF SlotOf, ConnInv
      <4> QED
        BY <2>1, <2>4, <3>2, <4>1 DEF LifePhase, LifeBusy, FrameTypes
    <3> HIDE DEF s
    <3>3. CASE UpdateBegin
      <4>1. conn'[s] = conn[s] /\ phase'[s] = phase[s] /\ busy'[s] = TRUE /\ busy[s] = FALSE
            /\ delivered' = delivered
        BY <3>3, <2>1 DEF UpdateBegin, FrameTypes, history, s
      <4> QED
        BY <2>1, <3>1, <3>2, <4>1 DEF LifeStep
    <3>4. CASE UpdateEnd
      <4>1. /\ conn'[s] = conn[s] /\ busy'[s] = FALSE /\ busy[s] = TRUE /\ delivered' = delivered
            /\ phase'[s] \in NextPhases(phase[s])
        BY <3>4, <2>1 DEF UpdateEnd, FrameTypes, history, s
      <4>2. \/ phase'[s] = phase[s]
            \/ phase[s] = "RUNNING" /\ phase'[s] = "PRECLOSED"
            \/ phase[s] = "PRECLOSED" /\ phase'[s] = "CLOSED"
        <5>1. phase[s] \in {"RUNNING", "PRECLOSED", "CLOSED", "DELETED"}
          BY <2>1 DEF FrameTypes
        <5>2. CASE phase[s] = "RUNNING"
          <6>1. NextPhases(phase[s]) = {"RUNNING", "PRECLOSED"}
            BY <5>2 DEF NextPhases
          <6> QED
            BY <4>1, <5>2, <6>1
        <5>3. CASE phase[s] = "PRECLOSED"
          <6>1. NextPhases(phase[s]) = {"PRECLOSED", "CLOSED"}
            BY <5>3 DEF NextPhases
          <6> QED
            BY <4>1, <5>3, <6>1
        <5>4. CASE phase[s] \in {"CLOSED", "DELETED"}
          <6>1. NextPhases(phase[s]) = {phase[s]}
            BY <5>4 DEF NextPhases
          <6> QED
            BY <4>1, <5>4, <6>1
        <5> QED
          BY <5>1, <5>2, <5>3, <5>4
      <4> QED
        BY <3>1, <3>2, <4>1, <4>2 DEF LifeStep
    <3>5. CASE CompletePacket
      <4>1. /\ conn'[s] = conn[s] /\ busy'[s] = TRUE /\ busy[s] = TRUE
            /\ phase'[s] = phase[s] /\ phase[s] = "RUNNING"
        BY <3>5, <2>1 DEF CompletePacket, Receiving, FrameTypes, s
      <4>2. delivered'[c] = delivered[c] + 1
        BY <3>5, <2>4 DEF CompletePacket, FrameTypes, s
      <4> QED
        BY <1>0, <3>1, <3>2, <4>1, <4>2 DEF LifeStep
    <3>6. CASE Dispose
      <4>1. /\ conn'[s] = 0 /\ busy[s] = FALSE /\ phase[s] = "CLOSED" /\ delivered' = delivered
        BY <3>6, <2>1 DEF Dispose, FrameTypes, history, s
      <4>2. \A t \in Slots : conn'[t] # c
        BY <1>0, <2>1, <2>2, <2>4, <4>1 DEF ConnInv
      <4>3. LifePhase(c)' = "DELETED" /\ LifeBusy(c)' = FALSE
        <5>1. ~(c > conns')
          BY <2>1, <2>4 DEF ConnInv
        <5> QED
          BY <4>2, <5>1 DEF LifePhase, LifeBusy
      <4> QED
        BY <3>1, <4>1, <4>3 DEF LifeStep
    <3> QED
      BY <1>4, <3>3, <3>4, <3>5, <3>6
  <2> QED
    BY <2>3, <2>4
<1> QED
  BY <1>2, <1>3, <1>4 DEF Next, Frame

\* GameFrame puts every session through the life that Session goes through: no Update of a session
\* that is gone, no packet but in an Update, no deletion before CLOSED.
THEOREM SessionsRespectLifecycle == Spec => RespectsLifecycle
<1>1. Init => \A c \in Conns : Life(c)!Init
  BY GameFrameAssumption DEF Init, Conns, Life!Init
<1>2. Init => BusyInv
  BY DEF Init, BusyInv
<1>3. GameFrameInv /\ BusyInv /\ [Next]_vars => BusyInv'
  BY BusyStep, GameFrameAssumption DEF GameFrameInv
<1>4. GameFrameInv /\ GameFrameInv' /\ BusyInv /\ BusyInv' /\ [Next]_vars
        => [\A c \in Conns : [Life(c)!Next]_(Life(c)!vars)]_vars
  <2> SUFFICES ASSUME GameFrameInv, GameFrameInv', BusyInv, BusyInv', [Next]_vars, NEW c \in Conns
               PROVE  Life(c)!Next \/ UNCHANGED <<LifePhase(c), LifeBusy(c), delivered[c]>>
    BY DEF Life!vars, LifePhase, LifeBusy
  <2>1. LifeStep(c)
    BY LifeSteps, GameFrameAssumption
  <2> QED
    BY <2>1 DEF LifeStep, LifePhase, LifeBusy, Life!Next, Life!Begin, Life!Deliver, Life!End,
                Life!Delete, Life!Follows
<1> QED
  BY <1>1, <1>2, <1>3, <1>4, GameFrameInvariant, PTL DEF Spec, RespectsLifecycle
=============================================================================
