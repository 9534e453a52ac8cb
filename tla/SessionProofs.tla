---------------------------- MODULE SessionProofs ----------------------------
(***************************************************************************)
(* Proofs about Session, for every MaxData, MaxOut, Chunk and MsgUnits.    *)
(***************************************************************************)
EXTENDS Session, TLAPS

(* Type correctness, in four parts so that no obligation mixes the Booleans *)
(* with the counts.                                                         *)

\* The flags of the Session object, and Update's local, stay Booleans.
LEMMA ObjectFlagsStep == ObjectFlagsOK /\ [Next]_vars => ObjectFlagsOK'
<1> SUFFICES ASSUME ObjectFlagsOK, [Next]_vars
             PROVE  ObjectFlagsOK'
  OBVIOUS
<1> USE DEF ObjectFlagsOK, object, threads, kernel, history
<1>1. CASE Environment
  BY <1>1 DEF PeerSends, PeerDrains, PeerCloses, PeerResets, Environment, Wake
<1>2. CASE Harvest
  BY <1>2 DEF Harvest, Report, Mask, Interest
<1>3. CASE SessionCb
  BY <1>3 DEF SessionCb, Record
<1>4. CASE MarkKey
  BY <1>4 DEF MarkKey
<1>5. CASE UpdateBegin
  BY <1>5 DEF UpdateBegin
<1>6. CASE RecvData
  BY <1>6 DEF RecvData, Received, AfterRecv
<1>7. CASE RecvSkipped \/ RecvWouldBlock \/ RecvFails \/ RecvEof
  <2>1. CASE RecvSkipped
    BY <2>1 DEF RecvSkipped
  <2>2. CASE RecvWouldBlock
    BY <2>2 DEF RecvWouldBlock
  <2>3. CASE RecvFails
    BY <2>3 DEF RecvFails
  <2>4. CASE RecvEof
    BY <2>4 DEF RecvEof
  <2> QED
    BY <1>7, <2>1, <2>2, <2>3, <2>4
<1>8. CASE SendFull \/ SendPart
  BY <1>8 DEF SendFull, SendPart
<1>9. CASE SendIdle \/ SendSkipped \/ SendWouldBlock \/ SendFails
  <2>1. CASE SendIdle
    BY <2>1 DEF SendIdle
  <2>2. CASE SendSkipped
    BY <2>2 DEF SendSkipped
  <2>3. CASE SendWouldBlock
    BY <2>3 DEF SendWouldBlock
  <2>4. CASE SendFails
    BY <2>4 DEF SendFails
  <2> QED
    BY <1>9, <2>1, <2>2, <2>3, <2>4
<1>10. CASE UpdateEnd
  BY <1>10 DEF UpdateEnd, StatusAfter, CloseSocket, RegisterHandler, Arms
<1>11. CASE Destroy \/ Send \/ Disconnect \/ Idle60
  <2>1. CASE Destroy
    BY <2>1 DEF Destroy
  <2>2. CASE Send
    BY <2>2 DEF Send
  <2>3. CASE Disconnect \/ Idle60
    BY <2>3 DEF Disconnect, Idle60
  <2> QED
    BY <1>11, <2>1, <2>2, <2>3
<1>12. CASE UNCHANGED vars
  BY <1>12 DEF vars
<1> QED
  BY <1>1, <1>2, <1>3, <1>4, <1>5, <1>6, <1>7, <1>8, <1>9, <1>10, <1>11, <1>12
     DEF Next, Poller, Update, PostRecv, PostSend

\* So do those of the kernel's socket.
LEMMA KernelFlagsStep == KernelFlagsOK /\ [Next]_vars => KernelFlagsOK'
<1> SUFFICES ASSUME KernelFlagsOK, [Next]_vars
             PROVE  KernelFlagsOK'
  OBVIOUS
<1> USE DEF KernelFlagsOK, object, threads, kernel, history
<1>1. CASE Environment
  BY <1>1 DEF PeerSends, PeerDrains, PeerCloses, PeerResets, Environment, Wake
<1>2. CASE Harvest
  BY <1>2 DEF Harvest, Report, Mask, Interest
<1>3. CASE SessionCb
  BY <1>3 DEF SessionCb, Record
<1>4. CASE MarkKey
  BY <1>4 DEF MarkKey
<1>5. CASE UpdateBegin
  BY <1>5 DEF UpdateBegin
<1>6. CASE RecvData
  BY <1>6 DEF RecvData, Received, AfterRecv
<1>7. CASE RecvSkipped \/ RecvWouldBlock \/ RecvFails \/ RecvEof
  <2>1. CASE RecvSkipped \/ RecvWouldBlock
    BY <2>1 DEF RecvSkipped, RecvWouldBlock
  <2>2. CASE RecvFails
    BY <2>2 DEF RecvFails
  <2>3. CASE RecvEof
    BY <2>3 DEF RecvEof
  <2> QED
    BY <1>7, <2>1, <2>2, <2>3
<1>8. CASE SendFull \/ SendPart
  BY <1>8 DEF SendFull, SendPart
<1>9. CASE SendIdle \/ SendSkipped \/ SendWouldBlock \/ SendFails
  <2>1. CASE SendIdle
    BY <2>1 DEF SendIdle, Wake
  <2>2. CASE SendSkipped \/ SendWouldBlock
    BY <2>2 DEF SendSkipped, SendWouldBlock
  <2>3. CASE SendFails
    BY <2>3 DEF SendFails
  <2> QED
    BY <1>9, <2>1, <2>2, <2>3
<1>10. CASE UpdateEnd
  BY <1>10 DEF UpdateEnd, StatusAfter, CloseSocket, RegisterHandler, Arms
<1>11. CASE Destroy \/ Send \/ Disconnect \/ Idle60
  BY <1>11 DEF Destroy, Send, Disconnect, Idle60
<1>12. CASE UNCHANGED vars
  BY <1>12 DEF vars
<1> QED
  BY <1>1, <1>2, <1>3, <1>4, <1>5, <1>6, <1>7, <1>8, <1>9, <1>10, <1>11, <1>12
     DEF Next, Poller, Update, PostRecv, PostSend

\* The enumerations and the event masks keep their ranges.
LEMMA StatesStep == StatesOK /\ [Next]_vars => StatesOK'
<1> SUFFICES ASSUME StatesOK, [Next]_vars
             PROVE  StatesOK'
  OBVIOUS
<1> USE DEF StatesOK, Statuses, EventBits, object, threads, kernel, history
<1>1. CASE Environment
  BY <1>1 DEF PeerSends, PeerDrains, PeerCloses, PeerResets, Environment, Wake
<1>2. CASE Harvest
  BY <1>2 DEF Harvest, Report, Mask, Interest
<1>3. CASE SessionCb
  BY <1>3 DEF SessionCb, Record
<1>4. CASE MarkKey
  BY <1>4 DEF MarkKey
<1>5. CASE UpdateBegin
  BY <1>5 DEF UpdateBegin
<1>6. CASE RecvData
  BY <1>6 DEF RecvData, Received, AfterRecv
<1>7. CASE RecvSkipped \/ RecvWouldBlock \/ RecvFails \/ RecvEof
  BY <1>7 DEF RecvSkipped, RecvWouldBlock, RecvFails, RecvEof
<1>8. CASE SendFull \/ SendPart
  BY <1>8 DEF SendFull, SendPart
<1>9. CASE SendIdle \/ SendSkipped \/ SendWouldBlock \/ SendFails
  BY <1>9 DEF SendIdle, SendSkipped, SendWouldBlock, SendFails, Wake
<1>10. CASE UpdateEnd
  BY <1>10 DEF UpdateEnd, StatusAfter, CloseSocket, RegisterHandler, Arms
<1>11. CASE Destroy \/ Send \/ Disconnect \/ Idle60
  BY <1>11 DEF Destroy, Send, Disconnect, Idle60
<1>12. CASE UNCHANGED vars
  BY <1>12 DEF vars
<1> QED
  BY <1>1, <1>2, <1>3, <1>4, <1>5, <1>6, <1>7, <1>8, <1>9, <1>10, <1>11, <1>12
     DEF Next, Poller, Update, PostRecv, PostSend

\* The counts stay natural numbers: no read or send takes more than there is.
LEMMA CountsStep == StatesOK /\ CountsOK /\ [Next]_vars => CountsOK'
<1> SUFFICES ASSUME StatesOK, CountsOK, [Next]_vars
             PROVE  CountsOK'
  OBVIOUS
<1> USE SessionAssumption DEF StatesOK, CountsOK, Statuses, object, threads, kernel, history
<1>1. CASE Environment
  BY <1>1 DEF PeerSends, PeerDrains, PeerCloses, PeerResets, Environment, Wake
<1>2. CASE Harvest
  BY <1>2 DEF Harvest, Report, Mask, Interest
<1>3. CASE SessionCb
  BY <1>3 DEF SessionCb, Record
<1>4. CASE MarkKey
  BY <1>4 DEF MarkKey
<1>5. CASE UpdateBegin
  BY <1>5 DEF UpdateBegin
<1>6. CASE RecvData
  BY <1>6 DEF RecvData, Received, AfterRecv
<1>7. CASE RecvSkipped \/ RecvWouldBlock \/ RecvFails \/ RecvEof
  BY <1>7 DEF RecvSkipped, RecvWouldBlock, RecvFails, RecvEof
<1>8. CASE SendFull \/ SendPart
  BY <1>8 DEF SendFull, SendPart
<1>9. CASE SendIdle \/ SendSkipped \/ SendWouldBlock \/ SendFails
  BY <1>9 DEF SendIdle, SendSkipped, SendWouldBlock, SendFails, Wake
<1>10. CASE UpdateEnd
  BY <1>10 DEF UpdateEnd, StatusAfter, CloseSocket, RegisterHandler, Arms
<1>11. CASE Destroy \/ Send \/ Disconnect \/ Idle60
  BY <1>11 DEF Destroy, Send, Disconnect, Idle60
<1>12. CASE UNCHANGED vars
  BY <1>12 DEF vars
<1> QED
  BY <1>1, <1>2, <1>3, <1>4, <1>5, <1>6, <1>7, <1>8, <1>9, <1>10, <1>11, <1>12
     DEF Next, Poller, Update, PostRecv, PostSend

\* The initial state is well typed.
LEMMA InitTypes == Init => TypeOK
<1> SUFFICES ASSUME Init PROVE TypeOK
  OBVIOUS
<1>1. ObjectFlagsOK
  BY DEF Init, ObjectFlagsOK
<1>2. KernelFlagsOK
  BY DEF Init, KernelFlagsOK
<1>3. CountsOK
  BY SessionAssumption DEF Init, CountsOK
<1>4. StatesOK
  BY DEF Init, StatesOK, Statuses, EventBits
<1> QED
  BY <1>1, <1>2, <1>3, <1>4 DEF TypeOK

\* Every step keeps the types.
LEMMA NextTypes == TypeOK /\ [Next]_vars => TypeOK'
  BY ObjectFlagsStep, KernelFlagsStep, CountsStep, StatesStep DEF TypeOK

\* Type correctness of the Session object, the two threads and the kernel's socket.
THEOREM Typing == Spec => []TypeOK
  BY InitTypes, NextTypes, PTL DEF Spec

-----------------------------------------------------------------------------
(* Closing. *)

\* epoll forgets a descriptor that is closed, so UnregisterHandler(-1) has nothing to do.
ClosedIsUnwatched == status = "CLOSED" => ~fd_open /\ ~armed /\ ~ready

\* A session is CLOSED at the end of an Update, and deleted after that.
ClosingInv ==
  /\ status = "CLOSED" => pc = "idle"
  /\ deleted => status = "CLOSED"
  /\ ClosedIsUnwatched

\* Every step keeps it: nothing arms the registration of a closed descriptor.
LEMMA ClosingStep == StatesOK /\ ClosingInv /\ [Next]_vars => ClosingInv'
<1> SUFFICES ASSUME StatesOK, ClosingInv, [Next]_vars
             PROVE  ClosingInv'
  OBVIOUS
<1> USE DEF ClosingInv, ClosedIsUnwatched, StatesOK, Statuses, object, threads, kernel, history
<1>1. CASE Environment
  BY <1>1 DEF Environment, PeerSends, PeerDrains, PeerCloses, PeerResets, Wake
<1>2. CASE Harvest
  BY <1>2 DEF Harvest, Report, Mask, Interest
<1>3. CASE SessionCb
  BY <1>3 DEF SessionCb, Record
<1>4. CASE MarkKey
  BY <1>4 DEF MarkKey
<1>5. CASE UpdateBegin
  BY <1>5 DEF UpdateBegin
<1>6. CASE RecvData
  BY <1>6 DEF RecvData, Received, AfterRecv, MayRecv
<1>7. CASE RecvSkipped \/ RecvWouldBlock \/ RecvFails \/ RecvEof
  BY <1>7 DEF RecvSkipped, RecvWouldBlock, RecvFails, RecvEof, MayRecv
<1>8. CASE SendFull \/ SendPart
  BY <1>8 DEF SendFull, SendPart, MaySend
<1>9. CASE SendIdle
  BY <1>9 DEF SendIdle, Wake
<1>10. CASE SendSkipped \/ SendWouldBlock \/ SendFails
  BY <1>10 DEF SendSkipped, SendWouldBlock, SendFails, MaySend
<1>11. CASE UpdateEnd
  BY <1>11 DEF UpdateEnd, StatusAfter, CloseSocket, RegisterHandler, Arms, Report, Mask, Interest
<1>12. CASE Destroy \/ Send \/ Disconnect \/ Idle60
  BY <1>12 DEF Destroy, Send, Disconnect, Idle60
<1>13. CASE UNCHANGED vars
  BY <1>13 DEF vars
<1> QED
  BY <1>1, <1>2, <1>3, <1>4, <1>5, <1>6, <1>7, <1>8, <1>9, <1>10, <1>11, <1>12, <1>13
     DEF Next, Poller, Update, PostRecv, PostSend

-----------------------------------------------------------------------------
(* Wake-ups. *)

\* What Update knows of its registration: _in_epoll is set from RegisterHandler until the
\* callback has recorded the event, an event is recorded only while it is clear and
\* no Update runs, and an armed registration that is not ready has nothing to say.
RegistrationInv ==
  /\ armed => in_epoll
  /\ poll = "got" => in_epoll
  /\ armed => poll # "got"
  /\ ready => armed
  /\ in_epoll /\ status = "RUNNING" => armed \/ poll = "got"
  /\ events # {} => ~in_epoll /\ pc = "idle"
  /\ armed /\ ~ready /\ status = "RUNNING" => ~News

\* Every step keeps it, whichever thread or peer takes it.
LEMMA RegistrationStep == ClosingInv /\ RegistrationInv /\ [Next]_vars => RegistrationInv'
<1> SUFFICES ASSUME ClosingInv, RegistrationInv, [Next]_vars
             PROVE  RegistrationInv'
  OBVIOUS
<1> USE DEF ClosingInv, RegistrationInv, News, object, threads, kernel, history
<1>1. CASE Environment
  <2>1. CASE PeerSends
    BY <2>1 DEF PeerSends, Wake
  <2>2. CASE PeerDrains
    BY <2>2 DEF PeerDrains, Wake
  <2>3. CASE PeerCloses
    BY <2>3 DEF PeerCloses, Wake
  <2>4. CASE PeerResets
    BY <2>4 DEF PeerResets, Wake
  <2> QED
    BY <1>1, <2>1, <2>2, <2>3, <2>4 DEF Environment
<1>2. CASE Harvest
  BY <1>2 DEF Harvest, Report, Mask, Interest
<1>3. CASE SessionCb
  BY <1>3 DEF SessionCb, Record
<1>4. CASE MarkKey
  BY <1>4 DEF MarkKey
<1>5. CASE UpdateBegin
  BY <1>5 DEF UpdateBegin
<1>6. CASE RecvData
  BY <1>6 DEF RecvData, Received, AfterRecv, MayRecv
<1>7. CASE RecvSkipped \/ RecvWouldBlock \/ RecvFails \/ RecvEof
  BY <1>7 DEF RecvSkipped, RecvWouldBlock, RecvFails, RecvEof, MayRecv
<1>8. CASE SendFull \/ SendPart
  BY <1>8 DEF SendFull, SendPart, MaySend
<1>9. CASE SendIdle
  BY <1>9 DEF SendIdle, Wake
<1>10. CASE SendSkipped \/ SendWouldBlock \/ SendFails
  BY <1>10 DEF SendSkipped, SendWouldBlock, SendFails, MaySend
<1>11. CASE UpdateEnd
  BY <1>11 DEF UpdateEnd, StatusAfter, CloseSocket, RegisterHandler, Arms, Report, Mask, Interest
<1>12. CASE Destroy \/ Send \/ Disconnect \/ Idle60
  BY <1>12 DEF Destroy, Send, Disconnect, Idle60
<1>13. CASE UNCHANGED vars
  BY <1>13 DEF vars
<1> QED
  BY <1>1, <1>2, <1>3, <1>4, <1>5, <1>6, <1>7, <1>8, <1>9, <1>10, <1>11, <1>12, <1>13
     DEF Next, Poller, Update, PostRecv, PostSend
-----------------------------------------------------------------------------
(* Closing in time. *)

\* A closing event is taken only while the registration is spent, and a session that is not
\* RUNNING does not renew it: the Update that takes the event is the last that can.
PromptInv ==
  /\ closing \in 0..2
  /\ status \in {"RUNNING", "ERROR"} => closing = 0
  /\ should_close => ~in_epoll
  /\ closing = 2 => ~in_epoll /\ events = {} /\ ~should_close

\* Every step keeps it.
LEMMA PromptStep == StatesOK /\ ClosingInv /\ RegistrationInv /\ PromptInv /\ [Next]_vars => PromptInv'
<1> SUFFICES ASSUME StatesOK, ClosingInv, RegistrationInv, PromptInv, [Next]_vars
             PROVE  PromptInv'
  OBVIOUS
<1> USE DEF StatesOK, Statuses, ClosingInv, RegistrationInv, PromptInv, object, threads, kernel, history
<1>1. CASE Environment
  BY <1>1 DEF Environment, PeerSends, PeerDrains, PeerCloses, PeerResets
<1>2. CASE Harvest
  BY <1>2 DEF Harvest
<1>3. CASE SessionCb
  BY <1>3 DEF SessionCb, Record
<1>4. CASE MarkKey
  BY <1>4 DEF MarkKey
<1>5. CASE UpdateBegin
  BY <1>5 DEF UpdateBegin
<1>6. CASE RecvData
  BY <1>6 DEF RecvData
<1>7. CASE RecvSkipped \/ RecvWouldBlock \/ RecvFails \/ RecvEof
  BY <1>7 DEF RecvSkipped, RecvWouldBlock, RecvFails, RecvEof, MayRecv
<1>8. CASE SendFull \/ SendPart
  BY <1>8 DEF SendFull, SendPart, MaySend
<1>9. CASE SendIdle
  BY <1>9 DEF SendIdle
<1>10. CASE SendSkipped \/ SendWouldBlock \/ SendFails
  BY <1>10 DEF SendSkipped, SendWouldBlock, SendFails, MaySend
<1>11. CASE UpdateEnd
  BY <1>11 DEF UpdateEnd, StatusAfter, CloseSocket, RegisterHandler, Arms
<1>12. CASE Destroy \/ Send \/ Disconnect \/ Idle60
  BY <1>12 DEF Destroy, Send, Disconnect, Idle60
<1>13. CASE UNCHANGED vars
  BY <1>13 DEF vars
<1> QED
  BY <1>1, <1>2, <1>3, <1>4, <1>5, <1>6, <1>7, <1>8, <1>9, <1>10, <1>11, <1>12, <1>13
     DEF Next, Poller, Update, PostRecv, PostSend
-----------------------------------------------------------------------------
(* Reading. *)

\* A mask that makes Update close a session says that the connection has ended and that
\* there is something to read, unless the connection was reset.
Truthful(bits) ==
  bits \cap ClosingBits # {} /\ ~rst => (fin \/ shut) /\ "IN" \in bits

\* Without a reset, Update decides to close, or meets the end of the stream, only after the
\* peer (or the session itself) has closed the connection, so that nothing can follow; and
\* what had come before that is read on the way to the switch, or was read before.
ReadingInv ==
  /\ so_error => rst
  /\ status = "ERROR" => rst
  /\ Truthful(events)
  /\ Truthful(evt)
  /\ recv_over /\ ~rst => rbuf = 0 /\ (fin \/ shut)
  /\ should_close /\ ~rst =>
       /\ fin \/ shut
       /\ pc = "recv" => rd_ready \/ rbuf = 0
       /\ pc # "recv" => rbuf = 0
  /\ status \in {"PRECLOSED", "CLOSED"} /\ ~rst => rbuf = 0 /\ (fin \/ shut)
  /\ pc = "idle" => ~should_close

\* Every step keeps it.
LEMMA ReadingStep == CountsOK /\ StatesOK /\ ClosingInv /\ ReadingInv /\ [Next]_vars => ReadingInv'
<1> SUFFICES ASSUME CountsOK, StatesOK, ClosingInv, ReadingInv, [Next]_vars
             PROVE  ReadingInv'
  OBVIOUS
<1> USE SessionAssumption DEF CountsOK, StatesOK, Statuses, ClosingInv, ReadingInv, Truthful, object, threads, kernel, history
<1>1. CASE Environment
  BY <1>1 DEF Environment, PeerSends, PeerDrains, PeerCloses, PeerResets
<1>2. CASE Harvest
  BY <1>2 DEF Harvest, Report, Mask, Interest, ClosingBits
<1>3. CASE SessionCb
  BY <1>3 DEF SessionCb, Record
<1>4. CASE MarkKey
  BY <1>4 DEF MarkKey
<1>5. CASE UpdateBegin
  BY <1>5 DEF UpdateBegin, ClosingBits
<1>6. CASE RecvData
  BY <1>6 DEF RecvData, Received, AfterRecv, MayRecv
<1>7. CASE RecvSkipped \/ RecvWouldBlock \/ RecvFails \/ RecvEof
  BY <1>7 DEF RecvSkipped, RecvWouldBlock, RecvFails, RecvEof, MayRecv
<1>8. CASE SendFull \/ SendPart
  BY <1>8 DEF SendFull, SendPart, MaySend
<1>9. CASE SendIdle
  BY <1>9 DEF SendIdle, Wake
<1>10. CASE SendSkipped \/ SendWouldBlock \/ SendFails
  BY <1>10 DEF SendSkipped, SendWouldBlock, SendFails, MaySend
<1>11. CASE UpdateEnd
  BY <1>11 DEF UpdateEnd, StatusAfter, CloseSocket, RegisterHandler, Arms, Report, Mask, Interest
<1>12. CASE Destroy \/ Send \/ Disconnect \/ Idle60
  BY <1>12 DEF Destroy, Send, Disconnect, Idle60
<1>13. CASE UNCHANGED vars
  BY <1>13 DEF vars
<1> QED
  BY <1>1, <1>2, <1>3, <1>4, <1>5, <1>6, <1>7, <1>8, <1>9, <1>10, <1>11, <1>12, <1>13
     DEF Next, Poller, Update, PostRecv, PostSend
-----------------------------------------------------------------------------
(* The theorems. *)

IInv == TypeOK /\ ClosingInv /\ RegistrationInv /\ PromptInv /\ ReadingInv

\* Together the invariants are inductive.
THEOREM Inductive == Spec => []IInv
<1>1. Init => IInv
  <2> SUFFICES ASSUME Init PROVE IInv
    OBVIOUS
  <2>1. ClosingInv
    BY DEF Init, ClosingInv, ClosedIsUnwatched
  <2>2. RegistrationInv
    BY DEF Init, RegistrationInv
  <2>3. ReadingInv
    BY DEF Init, ReadingInv, Truthful
  <2>4. PromptInv
    BY DEF Init, PromptInv
  <2> QED
    BY <2>1, <2>2, <2>3, <2>4, InitTypes DEF IInv
<1>2. IInv /\ [Next]_vars => IInv'
  BY NextTypes, ClosingStep, RegistrationStep, PromptStep, ReadingStep DEF IInv, TypeOK
<1> QED
  BY <1>1, <1>2, PTL DEF Spec

\* No wake-up is lost between epoll's one-shot registration, the callback and Update.
THEOREM WakeUps == Spec => []NoLostWakeup
<1>1. IInv => NoLostWakeup
  BY DEF IInv, RegistrationInv, NoLostWakeup, Announced
<1> QED
  BY <1>1, Inductive, PTL

\* The callback never overwrites a mask that Update has not taken.
THEOREM Events == Spec => NoEventOverwritten
<1>1. IInv /\ [Next]_vars => [events # {} /\ events' # {} => events' = events]_vars
  <2> SUFFICES ASSUME IInv, [Next]_vars, events # {}, events' # {}
               PROVE  events' = events
    OBVIOUS
  <2> USE DEF object, threads, kernel, history
  <2>1. CASE SessionCb
    BY <2>1 DEF SessionCb, Record, IInv, RegistrationInv
  <2>2. CASE UpdateBegin
    BY <2>2 DEF UpdateBegin
  <2>3. CASE Environment \/ Harvest \/ MarkKey
    BY <2>3 DEF Environment, PeerSends, PeerDrains, PeerCloses, PeerResets, Harvest, MarkKey
  <2>4. CASE PostRecv
    BY <2>4 DEF PostRecv, RecvSkipped, RecvData, RecvWouldBlock, RecvFails, RecvEof
  <2>5. CASE PostSend
    BY <2>5 DEF PostSend, SendIdle, SendSkipped, SendFull, SendPart, SendWouldBlock, SendFails
  <2>6. CASE UpdateEnd
    BY <2>6 DEF UpdateEnd
  <2>7. CASE Destroy \/ Send \/ Disconnect \/ Idle60 \/ UNCHANGED vars
    BY <2>7 DEF Destroy, Send, Disconnect, Idle60, vars
  <2> QED
    BY <2>1, <2>2, <2>3, <2>4, <2>5, <2>6, <2>7 DEF Next, Poller, Update
<1> QED
  BY <1>1, Inductive, PTL DEF Spec, NoEventOverwritten

\* A session that has left RUNNING is CLOSED by its third Update at the latest: an event that
\* comes late costs one Update more, and there is at most one.
THEOREM Closing == Spec => []ClosesPromptly
<1>1. IInv => ClosesPromptly
  BY DEF IInv, PromptInv, ClosesPromptly
<1> QED
  BY <1>1, Inductive, PTL

\* Closing on EPOLLRDHUP loses nothing the peer had sent before it closed.
THEOREM ReadBeforeClose == Spec => []AllReadBeforeClose
<1>1. IInv => AllReadBeforeClose
  BY DEF IInv, ReadingInv, AllReadBeforeClose
<1> QED
  BY <1>1, Inductive, PTL

\* The session leads the life the frame loop relies on: it delivers only while it runs, moves
\* one phase per Update, and is deleted between two Updates once it is CLOSED.
THEOREM Implements == Spec => ImplementsLifecycle
<1>1. Init => Life!Init
  BY DEF Init, Life!Init
<1>2. IInv /\ [Next]_vars => [Life!Next]_(Life!vars)
  <2> SUFFICES ASSUME IInv, [Next]_vars
               PROVE  Life!Next \/ UNCHANGED Life!vars
    OBVIOUS
  <2> USE DEF object, threads, kernel, history, Life!Next, Life!vars
  <2>1. CASE UpdateBegin
    <3>1. pc = "idle" /\ pc' = "recv" /\ ~deleted
      BY <2>1 DEF UpdateBegin
    <3>2. status \in Statuses /\ UNCHANGED <<status, deleted, delivered>>
      BY <2>1 DEF UpdateBegin, IInv, TypeOK, StatesOK
    <3> QED
      BY <3>1, <3>2 DEF Life!Begin, Statuses
  <2>2. CASE RecvData
    <3>1. status = "RUNNING" /\ ~deleted /\ pc # "idle" /\ pc' # "idle"
      BY <2>2 DEF RecvData, MayRecv, AfterRecv, IInv, ClosingInv
    <3>2. delivered' \in Nat /\ delivered' > delivered
      BY <2>2, SessionAssumption DEF RecvData, Received, IInv, TypeOK, CountsOK
    <3>3. UNCHANGED <<status, deleted>>
      BY <2>2 DEF RecvData
    <3> QED
      BY <3>1, <3>2, <3>3 DEF Life!Deliver
  <2>3. CASE UpdateEnd
    BY <2>3 DEF UpdateEnd, StatusAfter, IInv, TypeOK, StatesOK, Statuses, ClosingInv, Life!End, Life!Follows
  <2>4. CASE Destroy
    BY <2>4 DEF Destroy, Life!Delete
  <2>5. CASE Environment \/ Poller
    BY <2>5 DEF Environment, PeerSends, PeerDrains, PeerCloses, PeerResets,
                Poller, Harvest, SessionCb, MarkKey
  <2>6. CASE RecvSkipped \/ RecvWouldBlock \/ RecvFails \/ RecvEof
    BY <2>6 DEF RecvSkipped, RecvWouldBlock, RecvFails, RecvEof, MayRecv
  <2>7. CASE PostSend
    BY <2>7 DEF PostSend, SendIdle, SendSkipped, SendFull, SendPart, SendWouldBlock, SendFails, MaySend
  <2>8. CASE Send \/ Disconnect \/ Idle60 \/ UNCHANGED vars
    BY <2>8 DEF Send, Disconnect, Idle60, vars
  <2> QED
    BY <2>1, <2>2, <2>3, <2>4, <2>5, <2>6, <2>7, <2>8 DEF Next, Update, PostRecv
<1> QED
  BY <1>1, <1>2, Inductive, PTL DEF Spec, ImplementsLifecycle, Life!Spec
=============================================================================
