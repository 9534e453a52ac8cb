----------------------------- MODULE ServicesProofs -----------------------------
(***************************************************************************)
(* RingQueue is a bounded queue, for every size of the ring and whatever   *)
(* is put into it.  A Windows session is only closed when the kernel and   *)
(* the completion port's threads are done with both of its operations, for *)
(* any number of messages sent.  FrameEvent runs each callback once and in *)
(* order, for any number of them.  Every task is in one place and deleted  *)
(* in the end, and the database connection is used by one worker at a time *)
(* and not taken away from one that holds it, for every number of workers  *)
(* and tasks.  A Lua table that is serialized is the one that is read      *)
(* back, for every table of values that have a type on the wire.           *)
(***************************************************************************)
EXTENDS RingQueue, SessionWin, FrameEvent, Tasks, LuaTable, ListLemmas, TLAPS

(* RingQueue. *)

\* A ring with an element has as many as lie between its indices, and never more than slots.
LEMMA CountBounds == RingTypeOK => count \in 0..QMAX /\ (count = 0 <=> empty)
BY RingAssumption DEF RingTypeOK, count, empty

\* The ring is full exactly when every slot is in use.
LEMMA FullIsCapacity == RingTypeOK => (full <=> count = QMAX)
BY RingAssumption DEF RingTypeOK, count, empty, full, ptr_inc

\* Contents is a sequence of count elements.
LEMMA ContentsIsSeq == RingTypeOK =>
  /\ Contents \in Seq(Elements \cup {Nil})
  /\ Len(Contents) = count
  /\ \A i \in 1..count : Contents[i] = slot[At(i)]
<1> SUFFICES ASSUME RingTypeOK
             PROVE  /\ Contents \in Seq(Elements \cup {Nil})
                    /\ Len(Contents) = count
                    /\ \A i \in 1..count : Contents[i] = slot[At(i)]
  OBVIOUS
<1>1. count \in Nat
  BY CountBounds
<1>2. ASSUME NEW i \in 1..count
      PROVE  At(i) \in 1..QMAX
  <2>1. ~empty
    BY <1>2 DEF count
  <2>2. _head \in 1..QMAX /\ _tail \in 1..QMAX /\ QMAX \in Nat
    BY <2>1, RingAssumption DEF RingTypeOK, empty
  <2> QED
    BY <1>2, <2>1, <2>2 DEF count, At
<1>3. Contents \in [1..count -> Elements \cup {Nil}]
  BY <1>1, <1>2 DEF Contents, RingTypeOK
<1> QED
  BY <1>1, <1>3 DEF Contents

\* A push that is not refused writes the slot after the last, and no other.
LEMMA PushWrites ==
  ASSUME RingTypeOK, NEW e \in Elements, push(e), ~full
  PROVE  /\ _tail' \in 1..QMAX
         /\ slot' = [slot EXCEPT ![_tail'] = e]
         /\ \/ empty /\ _head' = 1 /\ _tail' = 1
            \/ ~empty /\ _head' = _head /\ _tail' = ptr_inc(_tail) /\ _tail' # _head
<1>1. CASE empty
  <2>1. _head' = 1 /\ _tail' = 1 /\ slot' = [slot EXCEPT ![_tail'] = e]
    BY <1>1 DEF push
  <2>2. 1 \in 1..QMAX
    BY RingAssumption
  <2> QED
    BY <1>1, <2>1, <2>2
<1>2. CASE ~empty
  <2>1. _tail' = ptr_inc(_tail) /\ _head' = _head /\ slot' = [slot EXCEPT ![_tail'] = e]
    BY <1>2 DEF push
  <2>2. ptr_inc(_tail) \in 1..QMAX /\ ptr_inc(_tail) # _head
    BY <1>2, RingAssumption DEF RingTypeOK, empty, full, ptr_inc
  <2> QED
    BY <1>2, <2>1, <2>2
<1> QED
  BY <1>1, <1>2

-----------------------------------------------------------------------------
(* Type correctness. *)

\* Every operation keeps the indices in the ring, or both at -1.
LEMMA RingTypingStep == RingTypeOK /\ [RingNext]_ring => RingTypeOK'
<1> SUFFICES ASSUME RingTypeOK, [RingNext]_ring
             PROVE  RingTypeOK'
  OBVIOUS
<1> USE RingAssumption DEF RingTypeOK, empty, ptr_inc
<1>1. CASE pop
  BY <1>1 DEF pop
<1>2. ASSUME NEW e \in Elements, push(e)
      PROVE  RingTypeOK'
  <2>1. CASE full
    BY <1>2, <2>1 DEF push, full
  <2>2. CASE ~full
    <3>1. slot' \in [1..QMAX -> Elements \cup {Nil}]
      BY <1>2, <2>2, PushWrites DEF full
    <3>2. _head' \in 1..QMAX /\ _tail' \in 1..QMAX
      BY <1>2, <2>2, PushWrites DEF full
    <3> QED
      BY <3>1, <3>2
  <2> QED
    BY <2>1, <2>2
<1>3. CASE head \/ size \/ UNCHANGED ring
  BY <1>3 DEF head, size, ring
<1> QED
  BY <1>1, <1>2, <1>3 DEF RingNext

\* RingTypeOK holds in every state.
THEOREM RingTyping == RingSpec => []RingTypeOK
<1>1. RingInit => RingTypeOK
  BY RingAssumption DEF RingInit, RingTypeOK
<1> QED
  BY <1>1, RingTypingStep, PTL DEF RingSpec
-----------------------------------------------------------------------------
(* The refinement, one lemma for each operation that changes the queue. *)

\* push on a ring that is not full appends to the contents.
LEMMA PushAppends ==
  ASSUME RingTypeOK, NEW e \in Elements, push(e), ~full
  PROVE  Contents' = Append(Contents, e)
<1>1. count' = count + 1 /\ count \in 0..(QMAX - 1)
  <2>1. CASE empty
    BY <2>1, PushWrites, RingAssumption DEF empty, count
  <2>2. CASE ~empty
    <3>1. /\ _head \in 1..QMAX /\ _tail \in 1..QMAX /\ QMAX \in Nat
          /\ _head' = _head /\ _tail' = ptr_inc(_tail) /\ _tail' # _head
      BY <2>2, PushWrites, RingAssumption DEF RingTypeOK, empty
    <3>2. CASE _tail + 1 > QMAX
      BY <3>1, <3>2 DEF empty, count, ptr_inc
    <3>3. CASE ~(_tail + 1 > QMAX)
      BY <3>1, <3>3 DEF empty, count, ptr_inc
    <3> QED
      BY <3>2, <3>3
  <2> QED
    BY <2>1, <2>2
<1>2. ASSUME NEW i, i = count + 1
      PROVE  At(i)' = _tail'
  <2>1. CASE empty
    BY <2>1, <1>2, PushWrites, RingAssumption DEF empty, count, At
  <2>2. CASE ~empty
    <3>1. /\ _head \in 1..QMAX /\ _tail \in 1..QMAX /\ QMAX \in Nat
          /\ _head' = _head /\ _tail' = ptr_inc(_tail) /\ _tail' # _head
      BY <2>2, PushWrites, RingAssumption DEF RingTypeOK, empty
    <3>2. CASE _tail + 1 > QMAX
      BY <1>2, <2>2, <3>1, <3>2 DEF count, ptr_inc, At
    <3>3. CASE ~(_tail + 1 > QMAX)
      BY <1>2, <2>2, <3>1, <3>3 DEF count, ptr_inc, At
    <3> QED
      BY <3>2, <3>3
  <2> QED
    BY <2>1, <2>2
<1>3. ASSUME NEW i \in 1..count
      PROVE  At(i)' = At(i) /\ At(i) # _tail' /\ At(i) \in 1..QMAX
  <2>1. ~empty
    BY <1>3 DEF count
  <2>2. /\ _head \in 1..QMAX /\ _tail \in 1..QMAX /\ QMAX \in Nat
        /\ _head' = _head /\ _tail' = ptr_inc(_tail) /\ _tail' # _head
    BY <2>1, PushWrites, RingAssumption DEF RingTypeOK, empty
  <2>3. At(i)' = At(i)
    BY <2>2 DEF At
  <2>4. At(i) # _tail' /\ At(i) \in 1..QMAX
    <3>1. CASE _tail < _head
      BY <1>3, <2>2, <3>1 DEF empty, count, ptr_inc, At
    <3>2. CASE ~(_tail < _head)
      BY <1>3, <2>2, <3>2 DEF empty, count, ptr_inc, At
    <3> QED
      BY <3>1, <3>2
  <2> QED
    BY <2>3, <2>4
<1>4. slot'[_tail'] = e /\ \A j \in 1..QMAX : j # _tail' => slot'[j] = slot[j]
  BY PushWrites DEF RingTypeOK
<1>5. Contents' = [i \in 1..(count + 1) |-> slot'[At(i)']]
  BY <1>1 DEF Contents
<1>6. ASSUME NEW i \in 1..(count + 1)
      PROVE  slot'[At(i)'] = IF i = count + 1 THEN e ELSE slot[At(i)]
  <2>1. CASE i = count + 1
    <3>1. At(i)' = _tail'
      BY <2>1, <1>2
    <3> QED
      BY <2>1, <3>1, <1>4
  <2>2. CASE i # count + 1
    <3>1. i \in 1..count
      BY <2>2, <1>1
    <3> QED
      BY <2>2, <3>1, <1>3, <1>4
  <2> QED
    BY <2>1, <2>2
<1>7. Append(Contents, e) = [i \in 1..(count + 1) |-> IF i = count + 1 THEN e ELSE slot[At(i)]]
  BY <1>1, ContentsIsSeq DEF Contents
<1> QED
  BY <1>5, <1>6, <1>7

\* pop takes the first element of the contents away.
LEMMA PopTakesFirst ==
  ASSUME RingTypeOK, pop
  PROVE  Contents' = IF Contents = <<>> THEN Contents ELSE Tail(Contents)
<1>1. CASE empty
  <2>1. count = 0 /\ count' = 0
    BY <1>1 DEF pop, empty, count
  <2>2. Contents = <<>> /\ Contents' = <<>>
    BY <2>1 DEF Contents
  <2> QED
    BY <2>2
<1>2. CASE ~empty
  <2>1. count \in 1..QMAX /\ count' = count - 1
    <3>1. _head \in 1..QMAX /\ _tail \in 1..QMAX /\ QMAX \in Nat \ {0} /\ ~empty
      BY <1>2, RingAssumption DEF RingTypeOK, empty
    <3>2. CASE _head = _tail
      <4>1. _head' = -1
        BY <3>2 DEF pop
      <4> QED
        BY <3>1, <3>2, <4>1 DEF empty, count
    <3>3. CASE _head # _tail
      <4>1. _head' = ptr_inc(_head) /\ _tail' = _tail
        BY <3>1, <3>3 DEF pop
      <4>2. CASE _head + 1 > QMAX
        BY <3>1, <3>3, <4>1, <4>2 DEF empty, count, ptr_inc
      <4>3. CASE ~(_head + 1 > QMAX)
        BY <3>1, <3>3, <4>1, <4>3 DEF empty, count, ptr_inc
      <4> QED
        BY <4>2, <4>3
    <3> QED
      BY <3>2, <3>3
  <2>2. \A i \in 1..(count - 1) : At(i)' = At(i + 1)
    BY <1>2, RingAssumption DEF RingTypeOK, pop, empty, ptr_inc, count, At
  <2>3. Contents' = [i \in 1..(count - 1) |-> slot[At(i + 1)]]
    BY <2>1, <2>2 DEF Contents, pop
  <2>4. Contents # <<>> /\ Tail(Contents) = [i \in 1..(count - 1) |-> slot[At(i + 1)]]
    BY <2>1, ContentsIsSeq DEF Contents
  <2> QED
    BY <2>3, <2>4
<1> QED
  BY <1>1, <1>2

\* The first slot is the first of the contents.
LEMMA FirstOfContents == RingTypeOK /\ ~empty => Contents # <<>> /\ Head(Contents) = slot[_head]
<1> SUFFICES ASSUME RingTypeOK, ~empty
             PROVE  Contents # <<>> /\ Head(Contents) = slot[_head]
  OBVIOUS
<1>1. count \in 1..QMAX /\ At(1) = _head
  BY CountBounds, RingAssumption DEF RingTypeOK, empty, count, At
<1> QED
  BY <1>1, ContentsIsSeq

\* Nothing but slot and the indices is in the contents.
LEMMA ContentsKept == UNCHANGED <<_head, _tail, slot>> => Contents' = Contents
BY DEF Contents, count, empty, At

\* Every step of the ring is a step of the queue or leaves it alone.
LEMMA RefinesStep == RingTypeOK /\ [RingNext]_ring => [Queue!Next]_<<Contents, answer>>
<1> SUFFICES ASSUME RingTypeOK, [RingNext]_ring
             PROVE  [Queue!Next]_<<Contents, answer>>
  OBVIOUS
<1>0. Len(Contents) = count /\ (Contents = <<>> <=> empty)
  BY ContentsIsSeq, CountBounds
<1>1. CASE pop
  BY <1>1, PopTakesFirst DEF pop, Queue!Next, Queue!Pop
<1>2. ASSUME NEW e \in Elements, push(e)
      PROVE  Queue!Push(e)
  <2>1. CASE full
    BY <1>0, <1>2, <2>1, FullIsCapacity, ContentsKept DEF push, Queue!Push
  <2>2. CASE ~full
    BY <1>0, <1>2, <2>2, FullIsCapacity, PushAppends DEF push, Queue!Push
  <2> QED
    BY <2>1, <2>2
<1>3. CASE head
  BY <1>0, <1>3, FirstOfContents, ContentsKept DEF head, Queue!Next, Queue!Front
<1>4. CASE size
  BY <1>0, <1>4, ContentsKept DEF size, Queue!Next, Queue!Size
<1>5. CASE UNCHANGED ring
  BY <1>5, ContentsKept DEF ring
<1> QED
  BY <1>1, <1>2, <1>3, <1>4, <1>5 DEF RingNext, Queue!Next

\* RingQueue implements BoundedQueue: to every sequence of calls it gives the answers of a queue
\* of QMAX elements.
THEOREM RingImplementsQueue == RingSpec => ImplementsQueue
<1>1. RingInit => Queue!Init
  BY DEF RingInit, Queue!Init, Contents, count, empty
<1> QED
  BY <1>1, RefinesStep, RingTyping, PTL DEF RingSpec, ImplementsQueue, Queue!Spec, Queue!qvars

-----------------------------------------------------------------------------
(* SessionWin. *)

IoStatus == {"IDLE", "PENDING", "COMPLETED", "ERROR"}

PerIoData(ios) ==
  /\ DOMAIN ios = Ops
  /\ \A op \in Ops : DOMAIN ios[op] = {"status", "succ", "bytes"} /\ ios[op].status \in IoStatus

\* Both operations have the fields of a PerIoData, and Update is at one of its four places.
WinTypeOK ==
  /\ PerIoData(io)
  /\ w_status \in {"NONE", "RUNNING", "ERROR", "PRECLOSED", "CLOSED", "DELETED"}
  /\ w_pc \in {"attach", "out", "send", "switch"}
  /\ writer \subseteq Ops

\* A poller thread is only ever at an operation that is under way.
WriterHasPending == \A op \in writer : io[op].status = "PENDING"

\* A direction that is over has no operation under way, and gets none again: before Attach
\* nothing is over, and Update posts only in the directions that are not.
OverIsOver ==
  /\ w_pc = "attach" => /\ w_status = "NONE" /\ ~w_recv_over /\ ~w_send_over
                        /\ \A op \in Ops : io[op].status = "IDLE"
  /\ w_recv_over => io["recv"].status # "PENDING"
  /\ w_send_over => io["send"].status # "PENDING"

\* Past PRECLOSED no operation is under way.
ClosedRests ==
  w_status \in {"PRECLOSED", "CLOSED", "DELETED"} => \A op \in Ops : io[op].status # "PENDING"

WinInv == WinTypeOK /\ WriterHasPending /\ OverIsOver /\ ClosedRests

\* A Post either starts the operation or fails it; the other one is as it was.
LEMMA PostResult ==
  ASSUME NEW op \in Ops, NEW ios, PerIoData(ios), Post(op, ios)
  PROVE  /\ PerIoData(io)'
         /\ \A o \in Ops \ {op} : io'[o] = ios[o]
         /\ io'[op].status \in {"PENDING", "ERROR"}
         /\ w_status' \in {w_status, "ERROR"}
BY DEF Post, Asked, IoStatus, PerIoData

\* Every action keeps the invariant.
LEMMA WinStep == WinInv /\ [SessionWinNext]_win => WinInv'
<1> SUFFICES ASSUME WinInv, [SessionWinNext]_win
             PROVE  WinInv'
  OBVIOUS
<1> USE DEF WinInv, WinTypeOK, WriterHasPending, OverIsOver, ClosedRests, Ops, IoStatus, PerIoData,
            Flags, Outside
<1>1. CASE AttachWin
  <2>1. UNCHANGED <<w_recv_over, w_send_over, writer>> /\ w_pc' = "out" /\ writer = {}
        /\ ~w_recv_over /\ ~w_send_over
    BY <1>1 DEF AttachWin
  <2>2. CASE UNCHANGED <<w_status, io>>
    BY <2>1, <2>2
  <2>3. ASSUME NEW i \in {Asked, [Asked EXCEPT !.status = "ERROR"]},
               io' = [io EXCEPT !["recv"] = i], w_status' \in {"RUNNING", "ERROR"}
        PROVE  WinInv'
    BY <2>1, <2>3 DEF Asked
  <2> QED
    BY <1>1, <2>2, <2>3 DEF AttachWin
<1>2. CASE DisposeRecv
  <2>1. CASE UNCHANGED <<w_status, io, Flags>>
    BY <1>2, <2>1 DEF DisposeRecv
  <2>2. ASSUME w_status = "RUNNING", ~w_recv_over, Completed("recv"), Post("recv", Freed("recv")),
               UNCHANGED <<w_send_over, w_recv_over>>
        PROVE  WinInv'
    <3>1. PerIoData(Freed("recv"))
          /\ Freed("recv")["send"] = io["send"]
      BY DEF Freed
    <3>2. "recv" \notin writer
      BY <2>2 DEF Completed
    <3>3. /\ PerIoData(io)' /\ io'["send"] = io["send"]
          /\ w_status' \in {"RUNNING", "ERROR"}
      BY <2>2, <3>1, PostResult
    <3>4. w_pc' = "send" /\ UNCHANGED <<writer, w_send_over>> /\ ~w_recv_over'
      BY <1>2, <2>2 DEF DisposeRecv
    <3> QED
      BY <2>2, <3>2, <3>3, <3>4
  <2>3. CASE /\ w_status = "RUNNING" /\ Completed("recv")
             /\ io' = Freed("recv") /\ w_status' \in {w_status, "ERROR"}
    <3>1. PerIoData(io)' /\ io'["send"] = io["send"] /\ io'["recv"].status = "IDLE"
      BY <2>3 DEF Freed
    <3>2. w_pc' = "send" /\ UNCHANGED <<writer, w_send_over>>
      BY <1>2, <2>3 DEF DisposeRecv, Completed
    <3> QED
      BY <2>3, <3>1, <3>2 DEF Completed
  <2> QED
    BY <1>2, <2>1, <2>2, <2>3 DEF DisposeRecv
<1>3. CASE DisposeSend
  <2>1. CASE UNCHANGED <<w_status, io, w_send_over>>
    BY <1>3, <2>1 DEF DisposeSend
  <2>2. CASE w_status = "RUNNING" /\ io["send"].status = "IDLE" /\ UNCHANGED <<w_status, io>>
    BY <1>3, <2>2 DEF DisposeSend
  <2>3. CASE w_status = "RUNNING" /\ io["send"].status = "IDLE" /\ ~w_send_over /\ Post("send", io)
             /\ UNCHANGED w_send_over
    BY <1>3, <2>3, PostResult DEF DisposeSend
  <2>4. CASE /\ w_status = "RUNNING" /\ Completed("send") /\ UNCHANGED w_send_over
             /\ io' = Freed("send") /\ w_status' \in {w_status, "ERROR"}
    BY <1>3, <2>4 DEF DisposeSend, Freed, Completed
  <2> QED
    BY <1>3, <2>1, <2>2, <2>3, <2>4 DEF DisposeSend
<1>4. CASE SwitchStatus
  BY <1>4 DEF SwitchStatus, Rests
<1>5. CASE SendWin \/ DisconnectWin \/ DeleteWin \/ PeerCloses
  <2>1. UNCHANGED <<io, w_pc, writer, w_recv_over, w_send_over>>
    BY <1>5 DEF SendWin, DisconnectWin, DeleteWin, PeerCloses
  <2>2. w_status' = w_status \/ (w_status = "CLOSED" /\ w_status' = "DELETED")
    BY <1>5 DEF SendWin, DisconnectWin, DeleteWin, PeerCloses
  <2> QED
    BY <2>1, <2>2
<1>6. ASSUME NEW op \in Ops, PollerWrites(op)
      PROVE  WinInv'
  <2>1. /\ io[op].status = "PENDING" /\ writer' = writer \cup {op}
        /\ UNCHANGED <<w_status, w_pc, w_recv_over, w_send_over>>
    BY <1>6 DEF PollerWrites
  <2>2. PICK o \in Outcomes(op) : io' = [io EXCEPT ![op] = o]
    BY <1>6 DEF PollerWrites
  <2>3. o.status = "PENDING" /\ DOMAIN o = {"status", "succ", "bytes"}
    BY DEF Outcomes
  <2> QED
    BY <2>1, <2>2, <2>3
<1>7. ASSUME NEW op \in Ops, PollerMarks(op)
      PROVE  WinInv'
  BY <1>7 DEF PollerMarks
<1>8. CASE UNCHANGED win
  BY <1>8 DEF win
<1> QED
  BY <1>1, <1>2, <1>3, <1>4, <1>5, <1>6, <1>7, <1>8 DEF SessionWinNext

\* The invariant holds in every state of a Windows session.
THEOREM WinInvariant == SessionWinSpec => []WinInv
<1>1. SessionWinInit => WinInv
  BY DEF SessionWinInit, WinInv, WinTypeOK, WriterHasPending, OverIsOver, ClosedRests, Ops, Idle,
         IoStatus, PerIoData
<1> QED
  BY <1>1, WinStep, PTL DEF SessionWinSpec

\* Nothing is written into a session that may be deleted or is, in whatever way it ended.
THEOREM WinNoWriteAfterDelete == SessionWinSpec => []NoWriteAfterDelete
<1>1. WinInv => NoWriteAfterDelete
  BY DEF WinInv, WinTypeOK, WriterHasPending, ClosedRests, NoWriteAfterDelete
<1> QED
  BY <1>1, WinInvariant, PTL

-----------------------------------------------------------------------------
(* FrameEvent. *)

\* A list q holds the last of the e callbacks emitted to it, in order; r have run, and d of those
\* are still in the list, which is cleared only when it has been walked.
InStep(q, r, e, d) ==
  /\ d <= Len(q) /\ Len(r) + Len(q) = e + d
  /\ \A i \in 1..Len(r) : r[i] = i
  /\ \A i \in 1..Len(q) : q[i] = e - Len(q) + i

\* Emitting appends the next number.
LEMMA InStepEmit ==
  ASSUME NEW q \in Seq(Nat), NEW r \in Seq(Nat), NEW e \in Nat, NEW d \in Nat, InStep(q, r, e, d)
  PROVE  InStep(Append(q, e + 1), r, e + 1, d)
<1> DEFINE a == Append(q, e + 1)
           n == Len(r)
           m == Len(q)
<1>1. n \in Nat /\ m \in Nat /\ n + m = e + d /\ d <= m
  BY DEF InStep
<1>2. \A i \in 1..m : q[i] = e - m + i
  BY DEF InStep
<1>3. \A i \in 1..n : r[i] = i
  BY DEF InStep
<1>4. Len(a) = m + 1 /\ a[m + 1] = e + 1 /\ \A i \in 1..m : a[i] = q[i]
  OBVIOUS
<1> HIDE DEF a, n, m
<1>5. ASSUME NEW i \in 1..(m + 1)
      PROVE  a[i] = (e + 1) - (m + 1) + i
  <2>1. CASE i = m + 1
    <3>1. (e + 1) - (m + 1) + i = e + 1
      BY <1>1, <2>1
    <3> QED
      BY <1>4, <2>1, <3>1
  <2>2. CASE i # m + 1
    <3>1. i \in 1..m /\ (e + 1) - (m + 1) + i = e - m + i
      BY <1>1, <2>2
    <3> QED
      BY <1>2, <1>4, <3>1
  <2> QED
    BY <2>1, <2>2
<1>6. d <= m + 1 /\ n + (m + 1) = (e + 1) + d
  BY <1>1
<1> QED
  BY <1>3, <1>4, <1>5, <1>6 DEF InStep, a, n

\* The callback that the loop comes to has the number after those that have run.
LEMMA InStepRun ==
  ASSUME NEW q \in Seq(Nat), NEW r \in Seq(Nat), NEW e \in Nat, NEW d \in Nat, InStep(q, r, e, d),
         d < Len(q)
  PROVE  InStep(q, Append(r, q[d + 1]), e, d + 1)
<1> DEFINE a == Append(r, q[d + 1])
           n == Len(r)
           m == Len(q)
<1>1. n \in Nat /\ m \in Nat /\ n + m = e + d /\ d + 1 \in 1..m /\ d + 1 <= m
  BY DEF InStep
<1>2. \A i \in 1..m : q[i] = e - m + i
  BY DEF InStep
<1>3. \A i \in 1..n : r[i] = i
  BY DEF InStep
<1>4. q[d + 1] \in Nat
  BY <1>1
<1>5. a \in Seq(Nat) /\ Len(a) = n + 1 /\ a[n + 1] = q[d + 1] /\ \A i \in 1..n : a[i] = r[i]
  BY <1>4
<1> HIDE DEF a, n, m
<1>6. e - m + (d + 1) = n + 1
  BY <1>1
<1>7. q[d + 1] = n + 1
  BY <1>1, <1>2, <1>6
<1>8. ASSUME NEW i \in 1..(n + 1)
      PROVE  a[i] = i
  <2>1. CASE i = n + 1
    BY <1>5, <1>7, <2>1
  <2>2. CASE i # n + 1
    <3>1. i \in 1..n
      BY <1>1, <2>2
    <3> QED
      BY <1>3, <1>5, <3>1
  <2> QED
    BY <2>1, <2>2
<1>9. Len(a) + m = e + (d + 1)
  BY <1>1, <1>5
<1> QED
  BY <1>1, <1>2, <1>5, <1>8, <1>9 DEF InStep, a, m

\* When the walk is over every callback emitted has run.
LEMMA InStepClear ==
  ASSUME NEW q \in Seq(Nat), NEW r \in Seq(Nat), NEW e \in Nat, NEW d \in Nat, InStep(q, r, e, d), ~(d < Len(q))
  PROVE  InStep(<<>>, r, e, 0)
<1>1. /\ d <= Len(q) /\ Len(r) \in Nat /\ Len(q) \in Nat
      /\ Len(r) + Len(q) = e + d
      /\ \A i \in 1..Len(r) : r[i] = i
  BY DEF InStep
<1>2. Len(r) = e
  BY <1>1
<1>3. Len(<<>>) = 0
  OBVIOUS
<1> QED
  BY <1>1, <1>2, <1>3 DEF InStep

\* w is q without its first d elements.
RestOf(w, q, d) == Len(w) = Len(q) - d /\ \A i \in 1..(Len(q) - d) : w[i] = q[i + d]

\* What has run and what the walk has before it are 1, 2, 3 and so on.
LEMMA InStepAll ==
  ASSUME NEW q \in Seq(Nat), NEW r \in Seq(Nat), NEW e \in Nat, NEW d \in Nat, InStep(q, r, e, d),
         NEW w \in Seq(Nat), RestOf(w, q, d)
  PROVE  r \o w = [i \in 1..e |-> i]
<1> DEFINE a == r \o w
           n == Len(r)
           m == Len(q)
<1>1. n \in Nat /\ m \in Nat /\ n + m = e + d /\ d <= m
  BY DEF InStep
<1>2. \A i \in 1..m : q[i] = e - m + i
  BY DEF InStep
<1>3. \A i \in 1..n : r[i] = i
  BY DEF InStep
<1>4. \A i \in 1..(m - d) : w[i] = q[i + d]
  BY DEF RestOf
<1>5. /\ a \in Seq(Nat) /\ Len(a) = n + Len(w)
      /\ \A i \in 1..(n + Len(w)) : a[i] = IF i <= n THEN r[i] ELSE w[i - n]
  BY ConcatProperties
<1>6. Len(w) = m - d
  BY DEF RestOf
<1> HIDE DEF a, n, m
<1>7. n + Len(w) = e
  BY <1>1, <1>6
<1>8. /\ a \in Seq(Nat) /\ Len(a) = e
      /\ \A i \in 1..e : a[i] = IF i <= n THEN r[i] ELSE w[i - n]
  BY ONLY <1>5, <1>7
<1>9. ASSUME NEW i \in 1..e
      PROVE  a[i] = i
  <2>1. CASE i <= n
    <3>1. i \in 1..n /\ a[i] = r[i]
      BY <1>1, <1>8, <2>1
    <3> QED
      BY <1>3, <3>1
  <2>2. CASE ~(i <= n)
    <3>1. a[i] = w[i - n]
      BY <1>8, <2>2
    <3>2. i - n \in 1..(m - d) /\ i - n + d \in 1..m /\ e - m + (i - n + d) = i
      BY <1>1, <2>2
    <3>3. w[i - n] = q[i - n + d]
      BY <1>4, <3>2
    <3>4. q[i - n + d] = e - m + (i - n + d)
      BY <1>2, <3>2
    <3> QED
      BY <3>1, <3>2, <3>3, <3>4
  <2> QED
    BY <2>1, <2>2
<1>10. a \in [1..e -> Nat]
  BY <1>8, LenProperties
<1> QED
  BY <1>9, <1>10 DEF a

\* How many callbacks of the list that is walked have run; they stay in it until the clear().
Walked(l) == IF frame_pc = l THEN cb_at ELSE 0

\* Every list and what has run of it are in step.
EventInv ==
  /\ FrameEventTypeOK
  /\ \A l \in Lists : InStep(lst_cb[l], cb_ran[l], emitted[l], Walked(l))

\* Emitting, entering a list, running its next callback and clearing it keep the lists in step.
LEMMA EventStep == EventInv /\ [FrameEventNext]_events => EventInv'
<1> SUFFICES ASSUME EventInv, [FrameEventNext]_events
             PROVE  EventInv'
  OBVIOUS
<1> USE FrameEventAssumption DEF EventInv
<1>0. /\ cb_at \in Nat
      /\ \A l \in Lists : /\ lst_cb[l] \in Seq(Nat) /\ cb_ran[l] \in Seq(Nat) /\ emitted[l] \in Nat
                          /\ Walked(l) \in Nat
  BY DEF FrameEventTypeOK, Walked
<1>1. ASSUME NEW l \in Lists, Emit(l)
      PROVE  EventInv'
  <2>1. /\ lst_cb'[l] = Append(lst_cb[l], emitted[l] + 1) /\ emitted'[l] = emitted[l] + 1
        /\ \A m \in Lists : m # l => lst_cb'[m] = lst_cb[m] /\ emitted'[m] = emitted[m]
        /\ cb_ran' = cb_ran /\ \A m \in Lists : Walked(m)' = Walked(m)
    BY <1>1 DEF Emit, FrameEventTypeOK, Walked
  <2>2. FrameEventTypeOK'
    BY <1>1 DEF Emit, FrameEventTypeOK
  <2>3. InStep(lst_cb'[l], cb_ran'[l], emitted'[l], Walked(l)')
    BY <1>0, <2>1, InStepEmit
  <2> QED
    BY <2>1, <2>2, <2>3
<1>2. ASSUME NEW l \in Lists, EnterUpdate(l)
      PROVE  EventInv'
  <2>1. \A m \in Lists : Walked(m)' = 0 /\ Walked(m) = 0
    BY <1>2 DEF EnterUpdate, Walked, Lists
  <2>2. FrameEventTypeOK'
    BY <1>2 DEF EnterUpdate, FrameEventTypeOK, Lists
  <2>3. UNCHANGED <<lst_cb, emitted, cb_ran>>
    BY <1>2 DEF EnterUpdate
  <2> QED
    BY <2>1, <2>2, <2>3
<1>3. ASSUME NEW l \in Lists, RunNext(l)
      PROVE  EventInv'
  <2>1. /\ lst_cb' = lst_cb /\ emitted' = emitted
        /\ \A m \in Lists : m # l => cb_ran'[m] = cb_ran[m] /\ Walked(m)' = Walked(m)
        /\ Walked(l) = cb_at /\ Walked(l)' = cb_at + 1 /\ cb_at < Len(lst_cb[l])
        /\ cb_ran'[l] = Append(cb_ran[l], lst_cb[l][cb_at + 1])
    BY <1>3 DEF RunNext, MoreToRun, FrameEventTypeOK, Walked
  <2>2. InStep(lst_cb'[l], cb_ran'[l], emitted'[l], Walked(l)')
    BY <1>0, <2>1, InStepRun
  <2>3. FrameEventTypeOK'
    <3>1. lst_cb[l][cb_at + 1] \in Nat /\ cb_ran'[l] \in Seq(Nat)
      BY <1>0, <2>1
    <3> QED
      BY <1>3, <2>1, <3>1 DEF RunNext, FrameEventTypeOK
  <2> QED
    BY <2>1, <2>2, <2>3
<1>4. ASSUME NEW l \in Lists, ClearList(l)
      PROVE  EventInv'
  <2>1. /\ cb_ran' = cb_ran /\ emitted' = emitted
        /\ lst_cb'[l] = <<>> /\ \A m \in Lists : m # l => lst_cb'[m] = lst_cb[m]
        /\ \A m \in Lists : Walked(m)' = 0 /\ (m # l => Walked(m) = 0)
        /\ Walked(l) = cb_at /\ ~(cb_at < Len(lst_cb[l]))
    BY <1>4 DEF ClearList, MoreToRun, FrameEventTypeOK, Walked, Lists
  <2>2. FrameEventTypeOK'
    BY <1>4 DEF ClearList, FrameEventTypeOK, Lists
  <2>3. InStep(lst_cb'[l], cb_ran'[l], emitted'[l], Walked(l)')
    BY <1>0, <2>1, InStepClear
  <2> QED
    BY <2>1, <2>2, <2>3
<1>5. CASE UNCHANGED events
  BY <1>5 DEF events, FrameEventTypeOK, Walked
<1> QED
  BY <1>1, <1>2, <1>3, <1>4, <1>5 DEF FrameEventNext

\* Lists that are in step have run, and have waiting, each callback once and in order.
LEMMA EventsInStep == EventInv => EachEventOnce
<1> SUFFICES ASSUME EventInv, NEW l \in Lists
             PROVE  cb_ran[l] \o Waiting(l) = [n \in 1..emitted[l] |-> n]
  BY DEF EachEventOnce
<1> DEFINE q == lst_cb[l]
           d == Walked(l)
<1>1. /\ q \in Seq(Nat) /\ Len(q) \in Nat /\ d \in Nat
      /\ cb_ran[l] \in Seq(Nat) /\ emitted[l] \in Nat
  BY FrameEventAssumption DEF EventInv, FrameEventTypeOK, Walked
<1>4. InStep(q, cb_ran[l], emitted[l], d) /\ d <= Len(q)
  BY DEF EventInv, InStep
<1>2. Waiting(l) = IF d = 0 THEN q ELSE SubSeq(q, d + 1, Len(q))
  <2>1. CASE frame_pc = l /\ d = 0
    <3>1. SubSeq(q, 1, Len(q)) = q
      BY <1>1
    <3> QED
      BY <2>1, <3>1 DEF Waiting, Walked
  <2>2. CASE ~(frame_pc = l /\ d = 0)
    BY <2>2 DEF Waiting, Walked
  <2> QED
    BY <2>1, <2>2
<1> HIDE DEF q, d
<1>3. Waiting(l) \in Seq(Nat) /\ RestOf(Waiting(l), q, d)
  <2>1. CASE d = 0
    BY <1>1, <1>2, <2>1 DEF RestOf
  <2>2. CASE d # 0
    <3> DEFINE w == SubSeq(q, d + 1, Len(q))
    <3>1. d + 1 \in 1..(Len(q) + 1)
      BY <1>1, <1>4
    <3>2. /\ w \in Seq(Nat)
          /\ Len(w) = IF d + 1 <= Len(q) THEN Len(q) - (d + 1) + 1 ELSE 0
          /\ \A i \in 1..(Len(q) - (d + 1) + 1) : w[i] = q[(d + 1) + i - 1]
      BY <1>1, <3>1, SubSeqProperties
    <3> HIDE DEF w
    <3>3. Len(w) = Len(q) - d /\ Len(q) - (d + 1) + 1 = Len(q) - d
      BY <1>1, <1>4, <3>2
    <3>4. ASSUME NEW i \in 1..(Len(q) - d)
          PROVE  w[i] = q[i + d]
      <4>1. i \in Nat /\ (d + 1) + i - 1 = i + d
        BY <1>1
      <4>2. w[i] = q[(d + 1) + i - 1]
        BY <3>2, <3>3
      <4> QED
        BY <4>1, <4>2
    <3>5. RestOf(w, q, d)
      BY <3>3, <3>4 DEF RestOf
    <3> QED
      BY <1>2, <2>2, <3>2, <3>5 DEF w
  <2> QED
    BY <2>1, <2>2
<1> QED
  <2> DEFINE w == Waiting(l)
             r == cb_ran[l]
             e == emitted[l]
  <2>1. /\ q \in Seq(Nat) /\ r \in Seq(Nat) /\ e \in Nat /\ d \in Nat /\ w \in Seq(Nat)
        /\ InStep(q, r, e, d) /\ RestOf(w, q, d)
    BY <1>1, <1>3, <1>4
  <2> HIDE DEF w, r, e
  <2>2. r \o w = [i \in 1..e |-> i]
    BY <2>1, InStepAll
  <2> QED
    BY <2>2 DEF w, r, e

\* FrameEvent runs every callback once, in the order it was given them, however many are emitted
\* and by whom, those that a callback emits to the list being walked included.
THEOREM EventsOnce == FrameEventSpec => []EachEventOnce
<1>1. FrameEventInit => EventInv
  BY FrameEventAssumption DEF FrameEventInit, EventInv, FrameEventTypeOK, InStep, Walked, Lists
<1> QED
  BY <1>1, EventStep, EventsInStep, PTL DEF FrameEventSpec
-----------------------------------------------------------------------------
(* The workers, their tasks and the connection. *)

WorkerTypeOK ==
  /\ worker \in [Workers -> {"test", "take", "find", "occupy", "use", "finish", "stopped"}]
  /\ db \in {"open", "closing", "tested", "closed"}

\* Whoever uses the connection is the only one, and _free says whether someone does.
OneUser ==
  /\ \A v, w \in Using : v = w
  /\ _free <=> Using = {}

\* Since ~Database has read _free, only those that came after use the connection.
OnlyIntruders == db \in {"tested", "closed"} => Using \subseteq intruders

HolderInv == WorkerTypeOK /\ OneUser /\ OnlyIntruders

\* A worker that moves between labels other than "use" leaves the users as they are.
LEMMA UsingKept ==
  ASSUME WorkerTypeOK, NEW w \in Workers, NEW l, l # "use", worker[w] # "use", WorkerGoes(w, l)
  PROVE  Using' = Using
BY DEF WorkerTypeOK, WorkerGoes, Using

\* Every action of every thread keeps the invariant.
LEMMA HolderStep == HolderInv /\ [TasksNext]_tasks => HolderInv'
<1> SUFFICES ASSUME HolderInv, [TasksNext]_tasks
             PROVE  HolderInv'
  OBVIOUS
<1> USE DEF HolderInv, OneUser, OnlyIntruders, database
<1>1. ASSUME UNCHANGED <<worker, db, _free, intruders>>
      PROVE  HolderInv'
  BY <1>1 DEF WorkerTypeOK, Using
<1>2. CASE PushTask \/ TasksUpdate \/ CloseClear \/ StopWorkers \/ DestroyTasks \/ UNCHANGED tasks
  BY <1>1, <1>2 DEF PushTask, TasksUpdate, CloseClear, StopWorkers, DestroyTasks, tasks
<1>3. CASE CloseBegin
  BY <1>3 DEF CloseBegin, WorkerTypeOK, Using
<1>4. CASE CloseTest \/ CloseHandler
  BY <1>4 DEF CloseTest, CloseHandler, ReadsFree, WorkerTypeOK, Using
<1>5. ASSUME NEW w \in Workers, Worker(w)
      PROVE  HolderInv'
  <2> USE DEF WorkerKeeps
  <2>1. ASSUME NEW l \in {"test", "take", "find", "occupy", "finish", "stopped"},
               worker[w] # "use", WorkerGoes(w, l), UNCHANGED <<db, _free, intruders>>
        PROVE  HolderInv'
    <3>1. Using' = Using
      BY <1>5, <2>1, UsingKept
    <3>2. WorkerTypeOK'
      BY <2>1 DEF WorkerTypeOK, WorkerGoes
    <3> QED
      BY <2>1, <3>1, <3>2
  <2>2. CASE TestRunning(w) \/ Take(w) \/ Sleep(w) \/ FindConnection(w) \/ Finish(w)
    BY <2>1, <2>2 DEF TestRunning, Take, Sleep, FindConnection, Finish
  <2>3. CASE OccupyConnection(w)
    <3>1. CASE _free
      <4>1. Using' = {w} /\ WorkerTypeOK'
        BY <2>3, <3>1 DEF OccupyConnection, WorkerGoes, WorkerTypeOK, Using
      <4> QED
        BY <2>3, <3>1, <4>1 DEF OccupyConnection
    <3>2. CASE ~_free
      <4>1. Using' = Using /\ WorkerTypeOK'
        BY <2>3, <3>2, UsingKept DEF OccupyConnection, WorkerGoes, WorkerTypeOK
      <4> QED
        BY <2>3, <3>2, <4>1 DEF OccupyConnection
    <3> QED
      BY <3>1, <3>2
  <2>4. CASE ReleaseConnection(w)
    <3>1. Using = {w}
      BY <2>4 DEF ReleaseConnection, Using
    <3>2. Using' = {} /\ WorkerTypeOK'
      BY <2>4, <3>1 DEF ReleaseConnection, WorkerGoes, WorkerTypeOK, Using
    <3> QED
      BY <2>4, <3>1, <3>2 DEF ReleaseConnection
  <2> QED
    BY <1>5, <2>2, <2>3, <2>4 DEF Worker
<1> QED
  BY <1>2, <1>3, <1>4, <1>5 DEF TasksNext

\* The invariant holds in every state.
THEOREM HolderInvariant == TasksSpec => []HolderInv
<1>1. TasksInit => HolderInv
  BY DEF TasksInit, HolderInv, WorkerTypeOK, OneUser, OnlyIntruders, Using
<1> QED
  BY <1>1, HolderStep, PTL DEF TasksSpec

\* At most one worker uses the connection, before, while and after it is closed, and the handler is
\* released under no worker that had the connection before ~Database read _free.
THEOREM TasksHoldersAreWaitedFor == TasksSpec => []HoldersAreWaitedFor
<1>1. HolderInv => HoldersAreWaitedFor
  BY DEF HolderInv, OneUser, OnlyIntruders, HoldersAreWaitedFor
<1> QED
  BY <1>1, HolderInvariant, PTL
-----------------------------------------------------------------------------
(* The tasks. *)

Held == {ptask[w] : w \in Workers} \ {NoTask}
Holding(w) == worker[w] \in {"find", "occupy", "use", "finish"}

TaskTypes ==
  /\ pushed \in Nat
  /\ _lst_task \in Seq(Task) /\ _lst_over \in Seq(Task)
  /\ ptask \in [Workers -> Task \cup {NoTask}]
  /\ worker \in [Workers -> {"test", "take", "find", "occupy", "use", "finish", "stopped"}]

\* EachTaskOnce, place by place, with the labels at which a worker has a task, and with what is
\* left when the process is over.
TaskPlaces ==
  /\ Distinct(_lst_task) /\ Distinct(_lst_over)
  /\ \A v, w \in Workers : ptask[v] = ptask[w] => v = w \/ ptask[v] = NoTask
  /\ \A w \in Workers : Holding(w) <=> ptask[w] # NoTask
  /\ ToSet(_lst_task) \cap (Held \cup ToSet(_lst_over) \cup deleted_tasks) = {}
  /\ Held \cap (ToSet(_lst_over) \cup deleted_tasks) = {}
  /\ ToSet(_lst_over) \cap deleted_tasks = {}
  /\ ToSet(_lst_task) \cup Held \cup ToSet(_lst_over) \cup deleted_tasks = Task
  /\ stop = "over" => _lst_task = <<>> /\ _lst_over = <<>> /\ \A w \in Workers : worker[w] = "stopped"

TaskInv == TaskTypes /\ TaskPlaces

\* A worker that moves between two labels, with a task at both or at neither, changes nothing here.
LEMMA WorkerMoves ==
  ASSUME TaskInv, NEW w \in Workers, stop' = stop, stop # "over",
         NEW l \in {"test", "take", "find", "occupy", "use", "finish", "stopped"}, WorkerGoes(w, l),
         Holding(w) <=> l \in {"find", "occupy", "use", "finish"},
         UNCHANGED <<pushed, _lst_task, _lst_over, deleted_tasks, ptask>>
  PROVE  TaskInv'
<1>1. \A v \in Workers : worker'[v] = IF v = w THEN l ELSE worker[v]
  BY DEF TaskInv, TaskTypes, WorkerGoes
<1>2. \A v \in Workers : Holding(v)' <=> Holding(v)
  BY <1>1 DEF Holding
<1>3. Held' = Held /\ Task' = Task
  BY DEF Held, Task
<1>4. TaskTypes'
  BY <1>3 DEF TaskInv, TaskTypes, WorkerGoes
<1> QED
  BY <1>2, <1>3, <1>4 DEF TaskInv, TaskPlaces

\* Each action moves a task from one place to the next.
LEMMA TaskStep == TaskInv /\ [TasksNext]_tasks => TaskInv'
<1> SUFFICES ASSUME TaskInv, [TasksNext]_tasks
             PROVE  TaskInv'
  OBVIOUS
<1> USE DEF NoTask
<1>0. NoTask \notin Task
  BY DEF Task
<1>1. ASSUME UNCHANGED <<pushed, _lst_task, _lst_over, deleted_tasks, worker, ptask>>,
             stop' = stop \/ (stop # "over" /\ stop' # "over")
      PROVE  TaskInv'
  <2>1. Task' = Task /\ Held' = Held /\ \A w \in Workers : Holding(w)' <=> Holding(w)
    BY <1>1 DEF Task, Held, Holding
  <2> QED
    BY <1>1, <2>1 DEF TaskInv, TaskTypes, TaskPlaces
<1>2. CASE CloseBegin \/ CloseTest \/ CloseHandler \/ CloseClear \/ StopWorkers \/ UNCHANGED tasks
  BY <1>1, <1>2 DEF CloseBegin, CloseTest, CloseHandler, CloseClear, StopWorkers, tasks
<1>3. CASE PushTask
  <2> DEFINE n == pushed + 1
  <2>1. /\ stop' = stop /\ pushed' = n /\ n \in Nat /\ n # NoTask /\ _lst_task' = Append(_lst_task, n)
        /\ UNCHANGED <<_lst_over, deleted_tasks, worker, ptask>>
    BY <1>3 DEF PushTask, TaskInv, TaskTypes
  <2>2. Task' = Task \cup {n} /\ n \notin Task
    BY <2>1 DEF Task, TaskInv, TaskTypes
  <2>3. _lst_task \in Seq(Task') /\ _lst_over \in Seq(Task') /\ n \in Task'
    BY <2>2, SeqMonotonic DEF TaskInv, TaskTypes
  <2> HIDE DEF n
  <2>4. n \notin ToSet(_lst_task)
    BY <2>2 DEF TaskInv, TaskPlaces
  <2>5. /\ _lst_task' \in Seq(Task') /\ ToSet(_lst_task') = ToSet(_lst_task) \cup {n}
        /\ Distinct(_lst_task')
    <3>1. Distinct(_lst_task)
      BY DEF TaskInv, TaskPlaces
    <3> QED
      BY ONLY <2>1, <2>3, <2>4, <3>1, AppendSet, AppendDistinct
  <2>6. TaskTypes'
    BY <2>1, <2>2, <2>3, <2>5 DEF TaskInv, TaskTypes
  <2>7. Held' = Held /\ \A w \in Workers : Holding(w)' <=> Holding(w)
    BY <2>1 DEF Held, Holding
  <2>8. stop # "over"
    BY <1>3 DEF PushTask
  <2>9. TaskPlaces'
    BY <2>1, <2>2, <2>5, <2>7, <2>8 DEF TaskInv, TaskPlaces
  <2> QED
    BY <2>6, <2>9 DEF TaskInv
<1>4. ASSUME TasksUpdate \/ DestroyTasks
      PROVE  TaskInv'
  <2>1. ToSet(<<>>) = {} /\ Distinct(<<>>) /\ <<>> \in Seq(Task)
    BY DEF ToSet, Distinct
  <2>2. /\ UNCHANGED <<pushed, worker, ptask>> /\ Task' = Task /\ Held' = Held
        /\ \A w \in Workers : Holding(w)' <=> Holding(w)
    BY <1>4 DEF TasksUpdate, DestroyTasks, Task, Held, Holding
  <2>3. CASE TasksUpdate
    <3>1. /\ stop' = stop /\ stop # "over" /\ _lst_over' = <<>> /\ _lst_task' = _lst_task
          /\ deleted_tasks' = deleted_tasks \cup ToSet(_lst_over)
      BY <2>3 DEF TasksUpdate
    <3> QED
      BY <2>1, <2>2, <3>1 DEF TaskInv, TaskTypes, TaskPlaces
  <2>4. CASE DestroyTasks
    <3>1. /\ \A w \in Workers : worker[w] = "stopped"
          /\ _lst_over' = <<>> /\ _lst_task' = <<>>
          /\ deleted_tasks' = deleted_tasks \cup ToSet(_lst_task) \cup ToSet(_lst_over)
      BY <2>4 DEF DestroyTasks
    <3> QED
      BY <2>1, <2>2, <3>1 DEF TaskInv, TaskTypes, TaskPlaces
  <2> QED
    BY <1>4, <2>3, <2>4
<1>5. ASSUME NEW w \in Workers, Worker(w)
      PROVE  TaskInv'
  <2> USE DEF WorkerKeeps
  <2>0. stop' = stop /\ stop # "over" /\ pushed' = pushed /\ Task' = Task
    <3>1. stop' = stop /\ pushed' = pushed /\ worker[w] # "stopped"
      BY <1>5 DEF Worker, TestRunning, Take, Sleep, FindConnection, OccupyConnection,
                  ReleaseConnection, Finish
    <3> QED
      BY <3>1 DEF TaskInv, TaskPlaces, Task
  <2>1. CASE TestRunning(w) \/ Sleep(w) \/ FindConnection(w) \/ OccupyConnection(w) \/ ReleaseConnection(w)
    <3>1. PICK l \in {"test", "take", "find", "occupy", "use", "finish", "stopped"} :
            /\ WorkerGoes(w, l) /\ (Holding(w) <=> l \in {"find", "occupy", "use", "finish"})
            /\ UNCHANGED <<_lst_task, _lst_over, deleted_tasks, ptask>>
      BY <2>1 DEF TestRunning, Sleep, FindConnection, OccupyConnection, ReleaseConnection, Holding
    <3> QED
      BY <2>0, <3>1, WorkerMoves
  <2>2. CASE Take(w)
    <3> DEFINE n == Head(_lst_task)
    <3>1. /\ worker[w] = "take" /\ worker' = [worker EXCEPT ![w] = "find"]
          /\ ptask' = [ptask EXCEPT ![w] = n] /\ _lst_task' = Tail(_lst_task) /\ _lst_task # <<>>
          /\ UNCHANGED <<_lst_over, deleted_tasks>>
      BY <2>2 DEF Take, PopFront, WorkerGoes
    <3>2. /\ _lst_task' \in Seq(Task) /\ Distinct(_lst_task') /\ n \in ToSet(_lst_task)
          /\ ToSet(_lst_task') = ToSet(_lst_task) \ {n}
      BY <3>1, TailDistinct DEF TaskInv, TaskTypes, TaskPlaces
    <3> HIDE DEF n
    <3>3. n \in Task /\ n # NoTask /\ n \notin Held
      BY <1>0, <3>2 DEF TaskInv, TaskPlaces
    <3>4. /\ ptask[w] = NoTask /\ ptask'[w] = n /\ worker'[w] = "find"
          /\ \A v \in Workers : v # w => ptask'[v] = ptask[v] /\ worker'[v] = worker[v]
      BY <3>1 DEF TaskInv, TaskTypes, TaskPlaces, Holding
    <3>5. TaskTypes'
      BY <2>0, <3>1, <3>2, <3>3 DEF TaskInv, TaskTypes
    <3>6. Held' = Held \cup {n}
      BY <3>3, <3>4 DEF Held
    <3>7. \A u, v \in Workers : ptask'[u] = ptask'[v] => u = v \/ ptask'[u] = NoTask
      BY <3>3, <3>4 DEF TaskInv, TaskPlaces, Held
    <3>8. \A v \in Workers : Holding(v)' <=> ptask'[v] # NoTask
      BY <3>3, <3>4 DEF TaskInv, TaskPlaces, Holding
    <3>9. TaskPlaces'
      BY <2>0, <3>1, <3>2, <3>6, <3>7, <3>8 DEF TaskInv, TaskPlaces
    <3> QED
      BY <3>5, <3>9 DEF TaskInv
  <2>3. CASE Finish(w)
    <3> DEFINE n == ptask[w]
    <3>1. /\ worker[w] = "finish" /\ worker' = [worker EXCEPT ![w] = "test"]
          /\ ptask' = [ptask EXCEPT ![w] = NoTask] /\ _lst_task' = _lst_task
          /\ \/ _lst_over' = Append(_lst_over, n) /\ deleted_tasks' = deleted_tasks
             \/ _lst_over' = _lst_over /\ deleted_tasks' = deleted_tasks \cup {n}
      BY <2>3 DEF Finish, WorkerGoes
    <3>2. n \in Held /\ n \in Task /\ n \notin ToSet(_lst_over)
      BY <3>1 DEF TaskInv, TaskTypes, TaskPlaces, Holding, Held
    <3>3. /\ ptask'[w] = NoTask /\ worker'[w] = "test"
          /\ \A v \in Workers : v # w => ptask'[v] = ptask[v] /\ worker'[v] = worker[v]
          /\ \A v \in Workers : v # w => ptask[v] # n
      BY <3>1, <3>2 DEF TaskInv, TaskTypes, TaskPlaces, Held
    <3>4. Held' = Held \ {n}
      BY <3>3 DEF Held
    <3>5. \A u, v \in Workers : ptask'[u] = ptask'[v] => u = v \/ ptask'[u] = NoTask
      BY <3>3 DEF TaskInv, TaskPlaces
    <3>6. \A v \in Workers : Holding(v)' <=> ptask'[v] # NoTask
      BY <3>3 DEF TaskInv, TaskPlaces, Holding
    <3>7. /\ Append(_lst_over, n) \in Seq(Task) /\ Distinct(Append(_lst_over, n))
          /\ ToSet(Append(_lst_over, n)) = ToSet(_lst_over) \cup {n}
      <4>1. _lst_over \in Seq(Task) /\ Distinct(_lst_over)
        BY DEF TaskInv, TaskTypes, TaskPlaces
      <4> QED
        BY <3>2, <4>1, AppendSet, AppendDistinct
    <3>8. ptask' \in [Workers -> Task \cup {NoTask}]
      BY <3>1 DEF TaskInv, TaskTypes
    <3> HIDE DEF n
    <3>9. TaskTypes'
      BY <2>0, <3>1, <3>7, <3>8 DEF TaskInv, TaskTypes
    <3>10. CASE _lst_over' = Append(_lst_over, n) /\ deleted_tasks' = deleted_tasks
      BY <2>0, <3>1, <3>2, <3>4, <3>5, <3>6, <3>7, <3>9, <3>10 DEF TaskInv, TaskPlaces
    <3>11. CASE _lst_over' = _lst_over /\ deleted_tasks' = deleted_tasks \cup {n}
      BY <2>0, <3>1, <3>2, <3>4, <3>5, <3>6, <3>9, <3>11 DEF TaskInv, TaskPlaces
    <3> QED
      BY <3>1, <3>10, <3>11
  <2> QED
    BY <1>5, <2>1, <2>2, <2>3 DEF Worker
<1> QED
  BY <1>2, <1>3, <1>4, <1>5 DEF TasksNext

\* Every task that was pushed is in the list, in one worker's hands, in the list of finished tasks
\* or deleted; and all are deleted when the process is over.
THEOREM TasksOnce == TasksSpec => []EachTaskOnce
<1>1. TasksInit => TaskInv
  <2> SUFFICES ASSUME TasksInit
               PROVE  TaskInv
    OBVIOUS
  <2> USE DEF TasksInit, NoTask
  <2>1. ToSet(<<>>) = {} /\ Distinct(<<>>) /\ \A S : <<>> \in Seq(S)
    BY DEF ToSet, Distinct
  <2>2. Task = {} /\ Held = {} /\ \A w \in Workers : ~Holding(w)
    BY DEF Task, Held, Holding
  <2>3. TaskTypes
    BY <2>1 DEF TaskTypes
  <2>4. TaskPlaces
    BY <2>1, <2>2 DEF TaskPlaces
  <2> QED
    BY <2>3, <2>4 DEF TaskInv
<1>2. TaskInv => EachTaskOnce
  <2> SUFFICES ASSUME TaskInv
               PROVE  EachTaskOnce
    OBVIOUS
  <2> DEFINE places == <<ToSet(_lst_task), Held, ToSet(_lst_over), deleted_tasks>>
  <2>1. IsInjective(_lst_task) /\ IsInjective(_lst_over)
    <3>1. DOMAIN _lst_task = 1..Len(_lst_task) /\ DOMAIN _lst_over = 1..Len(_lst_over)
      BY LenProperties DEF TaskInv, TaskTypes
    <3> QED
      BY <3>1 DEF TaskInv, TaskPlaces, Distinct, IsInjective
  <2>2. /\ DOMAIN places = 1..4
        /\ places[1] = ToSet(_lst_task) /\ places[2] = Held /\ places[3] = ToSet(_lst_over)
        /\ places[4] = deleted_tasks
    OBVIOUS
  <2> HIDE DEF places
  <2>3. \A i \in 1..4 : i \in {1, 2, 3, 4}
    OBVIOUS
  <2>4. \A i, j \in DOMAIN places : i # j => places[i] \cap places[j] = {}
    BY <2>2, <2>3 DEF TaskInv, TaskPlaces
  <2>5. UNION ToSet(places) = Task
    <3>1. ToSet(places) = {ToSet(_lst_task), Held, ToSet(_lst_over), deleted_tasks}
      BY <2>2, <2>3 DEF ToSet
    <3> QED
      BY <3>1 DEF TaskInv, TaskPlaces
  <2>6. stop = "over" => deleted_tasks = Task
    <3> SUFFICES ASSUME stop = "over"
                 PROVE  deleted_tasks = Task
      OBVIOUS
    <3>1. ToSet(_lst_task) = {} /\ ToSet(_lst_over) = {}
      BY DEF TaskInv, TaskPlaces, ToSet
    <3>2. Held = {}
      BY DEF TaskInv, TaskPlaces, Held, Holding
    <3> QED
      BY <3>1, <3>2 DEF TaskInv, TaskPlaces
  <2> QED
    BY <2>1, <2>4, <2>5, <2>6 DEF EachTaskOnce, places, Held, TaskInv, TaskPlaces
<1> QED
  BY <1>1, <1>2, TaskStep, PTL DEF TasksSpec
-----------------------------------------------------------------------------
(* LuaTable. *)

\* Portable at each level, from the one below it.
LEMMA PortableLevels ==
  /\ Portable[0] = PortableScalars \cup {<<"table", {}>>}
  /\ \A k \in 1..MAX_DEPTH : Portable[k] = PortableScalars \cup PortableTables(Portable[k - 1])
<1> DEFINE step(g, k) == PortableScalars
                           \cup IF k = 0 THEN {<<"table", {}>>} ELSE PortableTables(g[k - 1])
           T == {n \in Nat : \E g : g = [k \in 0..n |-> step(g, k)]}
<1>1. 0 \in T
  <2> DEFINE g == [k \in 0..0 |-> PortableScalars \cup {<<"table", {}>>}]
  <2>1. \A k \in 0..0 : step(g, k) = PortableScalars \cup {<<"table", {}>>}
    OBVIOUS
  <2>2. g = [k \in 0..0 |-> step(g, k)]
    BY <2>1
  <2> QED
    BY <2>2
<1>2. ASSUME NEW n \in Nat, n \in T
      PROVE  n + 1 \in T
  <2>1. PICK g : g = [k \in 0..n |-> step(g, k)]
    BY <1>2
  <2> DEFINE h == [k \in 0..(n + 1) |-> IF k = n + 1 THEN step(g, k) ELSE g[k]]
  <2>2. ASSUME NEW k \in 0..(n + 1)
        PROVE  h[k] = step(h, k)
    <3>1. k # 0 => k - 1 \in 0..n /\ h[k - 1] = g[k - 1]
      OBVIOUS
    <3>2. step(h, k) = step(g, k)
      BY <3>1
    <3>3. h[k] = step(g, k)
      <4>1. k # n + 1 => k \in 0..n
        OBVIOUS
      <4>2. \A j \in 0..n : g[j] = step(g, j)
        BY <2>1
      <4> HIDE DEF step
      <4> QED
        BY <4>1, <4>2
    <3> QED
      BY <3>2, <3>3
  <2>3. h = [k \in 0..(n + 1) |-> step(h, k)]
    <3> HIDE DEF step
    <3> QED
      BY <2>2
  <2> HIDE DEF h, step
  <2>4. \E m : m = [k \in 0..(n + 1) |-> step(m, k)]
    BY <2>3
  <2>5. n + 1 \in Nat
    OBVIOUS
  <2> QED
    BY <2>4, <2>5
<1>3. MAX_DEPTH \in T
  <2> HIDE DEF T
  <2> QED
    BY <1>1, <1>2, SetInduction, CodecAssumption
<1>4. \E g : g = [k \in 0..MAX_DEPTH |-> step(g, k)]
  <2> HIDE DEF step
  <2> QED
    BY <1>3
<1>5. Portable = [k \in 0..MAX_DEPTH |-> step(Portable, k)]
  BY <1>4 DEF Portable
<1>6. \A k \in 0..MAX_DEPTH : Portable[k] = step(Portable, k)
  <2> HIDE DEF step
  <2> QED
    BY <1>5
<1>7. 0 \in 0..MAX_DEPTH /\ \A k \in 1..MAX_DEPTH : k \in 0..MAX_DEPTH /\ k # 0
  BY CodecAssumption
<1> QED
  BY <1>6, <1>7

\* What a number is modulo m when it is less than m away from 0.
LEMMA ModWithin ==
  ASSUME NEW m \in Nat \ {0}, NEW n \in Int, -m <= n, n < m
  PROVE  n % m = IF n >= 0 THEN n ELSE n + m
<1> DEFINE p == n \div m
           s == n % m
<1>1. p \in Int /\ s \in 0..(m - 1) /\ p * m \in Int /\ n = p * m + s
  OBVIOUS
<1> HIDE DEF p, s
<1>2. p >= 1 => p * m >= m
  BY <1>1
<1>3. p <= -2 => p * m <= -2 * m
  BY <1>1
<1>4. p \in {-1, 0}
  BY <1>1, <1>2, <1>3
<1>5. p = 0 => p * m = 0
  BY <1>1
<1>6. p = -1 => p * m = -m
  BY <1>1
<1> QED
  BY <1>1, <1>4, <1>5, <1>6 DEF s

\* An integer that is written whole is read back.
LEMMA IntegerArrives ==
  ASSUME NEW n \in PortableInts
  PROVE  /\ NumberType(n) \in LVT.i8..LVT.u64
         /\ Cut(n, NumberType(n)) \in Nat
         /\ Uncut(Cut(n, NumberType(n)), NumberType(n)) = n
<1> DEFINE t == NumberType(n)
           h == Half(t)
<1>1. n \in Int /\ -H64 <= n /\ n < H64 /\ ~(-H32 <= n /\ n < -H16)
  BY DEF PortableInts
<1>2. /\ H8 \in Nat \ {0} /\ H16 \in Nat \ {0} /\ H32 \in Nat \ {0} /\ H64 \in Nat \ {0}
      /\ H8 <= H16 /\ H16 <= H32 /\ H32 <= H64
  BY CodecAssumption
<1>3. /\ LVT.i8 = 1 /\ LVT.i16 = 2 /\ LVT.i32 = 3 /\ LVT.i64 = 4
      /\ LVT.u8 = 5 /\ LVT.u16 = 6 /\ LVT.u32 = 7 /\ LVT.u64 = 8
  BY DEF LVT
<1>4. \/ n >= 0 /\ t = 5 /\ n < 2 * H8
      \/ n >= 0 /\ t = 6 /\ n < 2 * H16
      \/ n >= 0 /\ t = 7 /\ n < 2 * H32
      \/ n >= 0 /\ t = 8 /\ n < 2 * H64
      \/ n < 0 /\ t = 1 /\ n >= -H8
      \/ n < 0 /\ t = 2 /\ n >= -H16
      \/ n < 0 /\ t = 4 /\ n >= -H64
  <2>1. CASE n >= 0
    <3>1. t = IF n <= 2 * H8 - 1 THEN 5 ELSE IF n < 2 * H16 - 1 THEN 6
              ELSE IF n < 2 * H32 - 1 THEN 7 ELSE 8
      BY <1>3, <2>1 DEF NumberType
    <3> HIDE DEF t
    <3> QED
      BY <1>1, <1>2, <2>1, <3>1
  <2>2. CASE n < 0
    <3>1. t = IF n >= -H8 THEN 1 ELSE IF n >= -H16 THEN 2 ELSE IF n >= -H32 THEN 7 ELSE 4
      BY <1>1, <1>3, <2>2 DEF NumberType
    <3> HIDE DEF t
    <3> QED
      BY <1>1, <1>2, <2>2, <3>1
  <2> QED
    BY <1>1, <2>1, <2>2
<1>5. /\ Half(5) = H8 /\ Half(6) = H16 /\ Half(7) = H32 /\ Half(8) = H64
      /\ Half(1) = H8 /\ Half(2) = H16 /\ Half(4) = H64
  BY DEF Half
<1> HIDE DEF t
<1>6. /\ t \in 1..8 /\ h \in Nat \ {0}
      /\ n >= 0 => n < 2 * h /\ t > 4
      /\ n < 0 => n >= -h /\ t <= 4
  <2> DEFINE e(x, y) == t = x /\ h = y
  <2>1. \/ n >= 0 /\ e(5, H8) /\ n < 2 * H8
        \/ n >= 0 /\ e(6, H16) /\ n < 2 * H16
        \/ n >= 0 /\ e(7, H32) /\ n < 2 * H32
        \/ n >= 0 /\ e(8, H64) /\ n < 2 * H64
        \/ n < 0 /\ e(1, H8) /\ n >= -H8
        \/ n < 0 /\ e(2, H16) /\ n >= -H16
        \/ n < 0 /\ e(4, H64) /\ n >= -H64
    BY <1>4, <1>5
  <2> HIDE DEF h
  <2> QED
    BY <1>1, <1>2, <2>1
<1> HIDE DEF h
<1>7. Cut(n, t) = IF n >= 0 THEN n ELSE n + 2 * h
  <2>1. 2 * h \in Nat \ {0} /\ -(2 * h) <= n /\ n < 2 * h
    BY <1>1, <1>6
  <2> QED
    BY <1>1, <2>1, ModWithin DEF Cut, h
<1>8. Cut(n, t) \in Nat /\ Uncut(Cut(n, t), t) = n
  BY <1>1, <1>3, <1>6, <1>7 DEF Uncut, IsSigned, h
<1> QED
  BY <1>3, <1>6, <1>8 DEF t

\* What is not a table arrives, and its type is one of those that may be written.
LEMMA ScalarArrives ==
  ASSUME NEW v \in PortableScalars, NEW type \in TypesOf(v)
  PROVE  /\ type[1] \in LVT.i8..LVT.bool /\ ~IsTable(v)
         /\ Datum(v, type[1]) \in Nat \cup CodecData
         /\ Scalar(type[1], Datum(v, type[1])) = v
         /\ v \in PortableKeys => type[1] \in LVT.i8..LVT.str
<1>1. /\ LVT.i8 = 1 /\ LVT.u64 = 8 /\ LVT.str = 9 /\ LVT.flt = 10 /\ LVT.bool = 11
      /\ LVT["str"] = 9 /\ LVT["flt"] = 10 /\ LVT["bool"] = 11
  BY DEF LVT
<1>2. CASE v \in {"num"} \X PortableInts
  <2>1. v[1] = "num" /\ v[2] \in PortableInts /\ v = <<"num", v[2]>>
    BY <1>2
  <2>2. type[1] = NumberType(v[2])
    <3>1. TypesOf(v) = {<<NumberType(v[2]), 0>>}
      BY <2>1 DEF TypesOf, IsTable
    <3> QED
      BY <3>1
  <2>3. type[1] \in 1..8 /\ Datum(v, type[1]) = Cut(v[2], type[1])
        /\ Cut(v[2], type[1]) \in Nat /\ Uncut(Cut(v[2], type[1]), type[1]) = v[2]
    BY <1>1, <2>1, <2>2, IntegerArrives DEF Datum
  <2>4. Scalar(type[1], Datum(v, type[1])) = <<"num", v[2]>>
    <3>1. IsInteger(type[1]) /\ type[1] # 9 /\ type[1] # 10 /\ type[1] # 11
      BY <1>1, <2>3 DEF IsInteger
    <3> QED
      BY <1>1, <2>3, <3>1 DEF Scalar
  <2> QED
    BY <1>1, <2>1, <2>3, <2>4 DEF IsTable
<1>3. ASSUME NEW s \in {"str", "flt", "bool"}, v \in {s} \X CodecData
      PROVE  /\ type[1] = LVT[s] /\ v[1] = s /\ v = <<s, v[2]>>
             /\ Datum(v, type[1]) = v[2] /\ v[2] \in CodecData
             /\ Scalar(type[1], v[2]) = <<s, v[2]>>
  <2>1. v[1] = s /\ v[2] \in CodecData /\ v = <<s, v[2]>> /\ s # "num" /\ ~IsTable(v)
    BY <1>3 DEF IsTable
  <2>2. type[1] = LVT[s] /\ Datum(v, type[1]) = v[2]
    <3>1. TypesOf(v) = {<<LVT[v[1]], 0>>}
      BY <2>1 DEF TypesOf
    <3> QED
      BY <2>1, <3>1 DEF Datum
  <2>3. Scalar(LVT[s], v[2]) = <<s, v[2]>>
    BY <1>1 DEF Scalar, IsInteger
  <2> QED
    BY <2>1, <2>2, <2>3
<1>4. CASE v \in {"str", "flt", "bool"} \X CodecData
  <2>1. v[1] \in {"str", "flt", "bool"} /\ v \in {v[1]} \X CodecData
    BY <1>4
  <2>2. /\ type[1] = LVT[v[1]] /\ v = <<v[1], v[2]>> /\ Datum(v, type[1]) = v[2] /\ v[2] \in CodecData
        /\ Scalar(type[1], v[2]) = v
    BY <1>3, <2>1
  <2>3. ~IsTable(v) /\ (v \in PortableKeys => v[1] = "str")
    BY <2>1 DEF PortableKeys, IsTable
  <2> QED
    BY <1>1, <2>1, <2>2, <2>3
<1> QED
  BY <1>2, <1>4 DEF PortableScalars

\* A value that is a key is one that arrives.
LEMMA KeysAreScalars == PortableKeys \subseteq PortableScalars
BY DEF PortableKeys, PortableScalars
-----------------------------------------------------------------------------
\* The keys of an array are its indices.
IsArray(v) == \E n \in Nat : KeysOf(v) = {<<"num", i>> : i \in 1..n}

\* What is known of a table that may stand at a level, and of what is in it.
LEMMA TableAtLevel ==
  ASSUME NEW k \in 0..MAX_DEPTH, NEW v \in Portable[k], IsTable(v)
  PROVE  /\ v = <<"table", Pairs(v)>> /\ PortableShape(v)
         /\ \A p \in Pairs(v) : /\ k # 0 /\ p = <<p[1], p[2]>>
                                /\ p[1] \in PortableKeys /\ p[2] \in Portable[k - 1]
<1>1. v \notin PortableScalars
  BY DEF PortableScalars, IsTable
<1>2. CASE k = 0
  <2>1. v = <<"table", {}>> /\ Pairs(v) = {}
    BY <1>1, <1>2, PortableLevels DEF Pairs
  <2>2. PortableShape(v)
    <3>1. KeysOf(v) = {}
      BY <2>1 DEF KeysOf
    <3> QED
      BY <2>1, <3>1 DEF PortableShape
  <2> QED
    BY <2>1, <2>2
<1>3. CASE k # 0
  <2>1. k \in 1..MAX_DEPTH
    BY <1>3
  <2>2. v \in PortableTables(Portable[k - 1])
    BY <1>1, <2>1, PortableLevels
  <2>3. v \in {"table"} \X SUBSET (PortableKeys \X Portable[k - 1]) /\ PortableShape(v)
    BY <2>2 DEF PortableTables
  <2>4. v = <<"table", Pairs(v)>> /\ Pairs(v) \subseteq PortableKeys \X Portable[k - 1]
    BY <2>3 DEF Pairs
  <2> QED
    BY <1>3, <2>3, <2>4
<1> QED
  BY <1>2, <1>3

\* What is not a table may stand at every level.
LEMMA ScalarAtLevel ==
  ASSUME NEW k \in 0..MAX_DEPTH, NEW v \in Portable[k], ~IsTable(v)
  PROVE  v \in PortableScalars
<1>1. \A w : w[1] = "table" => IsTable(w)
  BY DEF IsTable
<1>2. CASE k = 0
  <2>1. v \in PortableScalars \cup {<<"table", {}>>}
    BY <1>2, PortableLevels
  <2> QED
    BY <1>1, <2>1
<1>3. CASE k # 0
  <2>1. k \in 1..MAX_DEPTH
    BY <1>3
  <2>2. v \in PortableScalars \cup PortableTables(Portable[k - 1])
    BY <2>1, PortableLevels
  <2>3. v \notin PortableTables(Portable[k - 1])
    BY <1>1 DEF PortableTables
  <2> QED
    BY <2>2, <2>3
<1> QED
  BY <1>2, <1>3

\* A portable table is written as an array or a hash, as an array only when it is one, and then
\* to its end.
LEMMA TableArrives ==
  ASSUME NEW v, v[1] = "table", PortableShape(v), KeysOf(v) \subseteq PortableKeys,
         NEW type \in TypesOf(v)
  PROVE  /\ type[1] \in {LVT.Arr, LVT.Hash}
         /\ type[1] = LVT.Arr =>
              /\ type[2] \in Nat /\ KeysOf(v) = {<<"num", i>> : i \in 1..type[2]}
<1>0. LVT.Arr = 12 /\ LVT.Hash = 13
  BY DEF LVT
<1>1. PICK n \in Borders(v) : \E t \in TableTypes(v, n) : type = <<t, n>>
  <2>1. TypesOf(v) = UNION {{<<t, n>> : t \in TableTypes(v, n)} : n \in Borders(v)}
    BY DEF IsTable, TypesOf
  <2> QED
    BY <2>1
<1> DEFINE t == type[1]
<1>2. /\ n \in Int /\ n >= 0
      /\ n = 0 \/ <<"num", n>> \in KeysOf(v)
      /\ <<"num", n + 1>> \notin KeysOf(v)
  <2>1. \A k \in KeysOf(v) : k[1] = "num" => k[2] \in Int /\ k = <<"num", k[2]>>
    BY DEF PortableKeys, PortableInts
  <2>2. \A i \in Indices(v) : i \in Int /\ <<"num", i>> \in KeysOf(v)
    <3> SUFFICES ASSUME NEW i \in Indices(v)
                 PROVE  i \in Int /\ <<"num", i>> \in KeysOf(v)
      OBVIOUS
    <3>1. PICK k \in KeysOf(v) : k[1] = "num" /\ i = k[2]
      BY DEF Indices
    <3> QED
      BY <2>1, <3>1
  <2>3. \A i \in Int : <<"num", i>> \in KeysOf(v) => i \in Indices(v)
    <3>1. ASSUME NEW i \in Int, <<"num", i>> \in KeysOf(v)
          PROVE  i \in Indices(v)
      <4>1. <<"num", i>>[1] = "num" /\ <<"num", i>>[2] = i
        OBVIOUS
      <4> QED
        BY <3>1, <4>1 DEF Indices
    <3> QED
      BY <3>1
  <2>4. n \in Indices(v) \cup {0} /\ n >= 0 /\ n + 1 \notin Indices(v)
    BY DEF Borders
  <2>5. n \in Int /\ n + 1 \in Int
    <3>1. n \in Indices(v) => n \in Int
      BY <2>2
    <3>2. n \in Indices(v) \/ n = 0
      BY <2>4
    <3>3. n \in Int
      BY <3>1, <3>2
    <3> QED
      BY <3>3
  <2> QED
    BY <2>2, <2>3, <2>4, <2>5
<1>3. type[2] = n /\ t \in TableTypes(v, n) /\ t \in {LVT.Arr, LVT.Hash}
      /\ TableTypes(v, n) = IF n = 0 THEN IF Pairs(v) = {} THEN {LVT.Arr} ELSE {LVT.Hash}
                            ELSE IF Cardinality(Pairs(v)) = 1 THEN {LVT.Arr} ELSE {LVT.Arr, LVT.Hash}
  BY <1>1 DEF TableTypes
<1> HIDE DEF t
<1>4. ASSUME t = LVT.Arr
      PROVE  KeysOf(v) = {<<"num", i>> : i \in 1..n}
  <2>1. CASE n = 0
    <3>1. Pairs(v) = {}
      BY <1>0, <1>3, <1>4, <2>1
    <3> QED
      BY <2>1, <3>1 DEF KeysOf
  <2>2. CASE n # 0
    <3>1. <<"num", n>> \in KeysOf(v) /\ <<"num", n>>[1] = "num" /\ <<"num", n>>[2] = n /\ n > 0
      BY <1>2, <2>2
    <3>2. PICK m \in 0..Cardinality(Pairs(v)) : KeysOf(v) = {<<"num", i>> : i \in 1..m}
      BY <3>1 DEF PortableShape
    <3>3. m \in Int /\ n \in 1..m
      BY <3>1, <3>2
    <3>4. n + 1 \notin 1..m
      BY <1>2, <3>2
    <3>5. n = m
      BY <3>3, <3>4
    <3> QED
      BY <3>2, <3>5
  <2> QED
    BY <2>1, <2>2
<1> QED
  BY <1>2, <1>3, <1>4 DEF t
-----------------------------------------------------------------------------
(* A table that is being written and the part of it that was read. *)

Values == UNION {Portable[k] : k \in 0..MAX_DEPTH}
TableBytes == {LVT.Arr, LVT.Hash}
WriterFrame == [of : Values, type : TableBytes, todo : SUBSET (PortableKeys \X Values)]
ReaderFrame == [type : TableBytes, pairs : SUBSET (PortableKeys \X Values), idx : Nat \ {0},
                key : PortableKeys \cup {Nothing}]

\* The entries of an array from an index on.
From(v, i) == {p \in Pairs(v) : p[1][2] >= i}

\* The writer's table at a depth, and that the reader knows its form.
Fits(f, r, d) ==
  /\ f \in WriterFrame /\ r \in ReaderFrame /\ r.type = f.type
  /\ d \in 1..MAX_DEPTH /\ f.of \in Portable[MAX_DEPTH - d] /\ IsTable(f.of)
  /\ f.todo \subseteq Pairs(f.of)
  /\ f.type = LVT.Arr => IsArray(f.of)

\* In an array a pair has the index that the reader will give it.
Numbered(f, r, p) == f.type = LVT.Arr => p[1] = <<"num", r.idx>>

\* The reader has the pairs that were written.
Innermost(f, r) ==
  /\ r.pairs = Pairs(f.of) \ f.todo
  /\ f.type = LVT.Arr => f.todo = From(f.of, r.idx)

\* The reader has the pairs that were written but for one, whose value v is being read.
Around(f, r, v) ==
  /\ <<r.key, v>> \in Pairs(f.of) \ f.todo
  /\ r.pairs = (Pairs(f.of) \ f.todo) \ {<<r.key, v>>}
  /\ f.type = LVT.Arr => r.key = <<"num", r.idx>> /\ f.todo = From(f.of, r.idx + 1)

\* The pair that is written next has a key and a value of the types that may be, and in an array
\* it is the one with the index that the reader will give it.
LEMMA NextPair ==
  ASSUME NEW f, NEW r, NEW d, Fits(f, r, d), Innermost(f, r), NEW p \in Ahead(f),
         NEW ktype \in TypesOf(p[1]), NEW type \in TypesOf(p[2])
  PROVE  /\ p \in f.todo /\ p \in Pairs(f.of) /\ p = <<p[1], p[2]>> /\ d < MAX_DEPTH
         /\ p[1] \in PortableKeys /\ p[2] \in Portable[MAX_DEPTH - (d + 1)]
         /\ ktype[1] \in LVT.i8..LVT.str /\ type[1] \in LVT.i8..LVT.Hash
         /\ IsTable(p[2]) <=> type[1] \in TableBytes
         /\ ~LeftOut(f, ktype, type)
         /\ Numbered(f, r, p)
<1>0. /\ LVT.i8 = 1 /\ LVT.str = 9 /\ LVT.bool = 11 /\ LVT.Arr = 12 /\ LVT.Hash = 13
      /\ MAX_DEPTH \in Nat \ {0} /\ d \in 1..MAX_DEPTH
  BY CodecAssumption DEF LVT, Fits
<1> DEFINE v == f.of
           k == MAX_DEPTH - d
<1>1. k \in 0..MAX_DEPTH /\ v \in Portable[k] /\ IsTable(v)
  BY <1>0 DEF Fits
<1>2. p \in f.todo /\ p \in Pairs(v)
  BY DEF Ahead, Fits
<1> HIDE DEF k
<1>3. /\ k # 0 /\ p = <<p[1], p[2]>> /\ p[1] \in PortableKeys /\ p[2] \in Portable[k - 1]
  BY <1>1, <1>2, TableAtLevel
<1>4. d < MAX_DEPTH /\ k - 1 = MAX_DEPTH - (d + 1) /\ k - 1 \in 0..MAX_DEPTH
  BY <1>0, <1>1, <1>3 DEF k
<1>5. ktype[1] \in LVT.i8..LVT.str
  BY <1>3, KeysAreScalars, ScalarArrives
<1>6. type[1] \in LVT.i8..LVT.Hash /\ (IsTable(p[2]) <=> type[1] \in TableBytes)
  <2>1. CASE IsTable(p[2])
    <3>1. p[2][1] = "table" /\ PortableShape(p[2]) /\ KeysOf(p[2]) \subseteq PortableKeys
      <4> DEFINE w == p[2]
      <4>1. /\ w = <<"table", Pairs(w)>> /\ PortableShape(w)
            /\ \A q \in Pairs(w) : q[1] \in PortableKeys
        BY <1>3, <1>4, <2>1, TableAtLevel
      <4> HIDE DEF w
      <4>2. w[1] = "table"
        BY <4>1
      <4>3. KeysOf(w) \subseteq PortableKeys
        BY <4>1 DEF KeysOf
      <4> QED
        BY <4>1, <4>2, <4>3 DEF w
    <3>2. type[1] \in {LVT.Arr, LVT.Hash}
      BY <2>1, <3>1, TableArrives
    <3> QED
      BY <1>0, <2>1, <3>2 DEF TableBytes
  <2>2. CASE ~IsTable(p[2])
    <3>1. p[2] \in PortableScalars
      BY <1>3, <1>4, <2>2, ScalarAtLevel
    <3>2. type[1] \in LVT.i8..LVT.bool
      BY <3>1, ScalarArrives
    <3> QED
      BY <1>0, <2>2, <3>2 DEF TableBytes
  <2> QED
    BY <2>1, <2>2
<1>7. ~LeftOut(f, ktype, type)
  BY <1>5, <1>6 DEF LeftOut, IsValueType, IsKeyType
<1>8. ASSUME f.type = LVT.Arr
      PROVE  p[1] = <<"num", r.idx>>
  <2>1. PICK n \in Nat : KeysOf(v) = {<<"num", i>> : i \in 1..n}
    BY <1>8 DEF Fits, IsArray
  <2>2. \A q \in Pairs(v) : q[1] \in KeysOf(v)
    BY DEF KeysOf
  <2>3. \A q \in Pairs(v) : \E i \in 1..n : q[1] = <<"num", i>> /\ q[1][2] = i
    BY <2>1, <2>2
  <2>4. f.todo = From(v, r.idx) /\ r.idx \in Nat \ {0} /\ f.todo \subseteq Pairs(v)
    BY <1>8 DEF Fits, Innermost, ReaderFrame
  <2>5. PICK i \in 1..n : p[1] = <<"num", i>> /\ p[1][2] = i
    BY <1>2, <2>3
  <2>6. i >= r.idx
    BY <1>2, <2>4, <2>5 DEF From
  <2>7. ASSUME i > r.idx
        PROVE  FALSE
    <3>1. r.idx \in 1..n
      BY <2>4, <2>5, <2>7
    <3>2. PICK q \in Pairs(v) : q[1] = <<"num", r.idx>>
      <4>1. <<"num", r.idx>> \in KeysOf(v)
        BY <2>1, <3>1
      <4> QED
        BY <4>1 DEF KeysOf
    <3>3. q \in f.todo /\ q[1][2] = r.idx
      BY <2>4, <3>2 DEF From
    <3>4. p[1][2] <= q[1][2]
      BY <1>8, <3>3 DEF Ahead
    <3> QED
      BY <2>4, <2>5, <2>7, <3>3, <3>4
  <2> QED
    BY <2>4, <2>5, <2>6, <2>7
<1> QED
  BY <1>2, <1>3, <1>4, <1>5, <1>6, <1>7, <1>8 DEF Numbered

\* A pair that the reader gets stands beside the others: none of them has its key.
LEMMA PutAdds ==
  ASSUME NEW f, NEW r, NEW d, Fits(f, r, d), NEW p \in Pairs(f.of), NEW R, r.pairs = R,
         R \subseteq Pairs(f.of), p \notin R
  PROVE  /\ Put(r, p[1], p[2]) \in ReaderFrame
         /\ Put(r, p[1], p[2]).pairs = R \cup {p}
         /\ Put(r, p[1], p[2]).idx = r.idx + 1 /\ Put(r, p[1], p[2]).type = r.type
<1>1. MAX_DEPTH \in Nat \ {0} /\ d \in 1..MAX_DEPTH /\ MAX_DEPTH - d \in 0..MAX_DEPTH
  BY CodecAssumption DEF Fits
<1>2. /\ p = <<p[1], p[2]>> /\ p[1] \in PortableKeys /\ PortableShape(f.of)
      /\ p[2] \in Portable[(MAX_DEPTH - d) - 1] /\ MAX_DEPTH - d # 0
  BY <1>1, TableAtLevel DEF Fits
<1>3. p[2] \in Values
  <2>1. (MAX_DEPTH - d) - 1 \in 0..MAX_DEPTH
    BY <1>1, <1>2
  <2> QED
    BY <1>2, <2>1 DEF Values
<1>4. r \in ReaderFrame
  BY DEF Fits
<1>5. {q \in R : q[1] # p[1]} = R
  BY <1>2 DEF PortableShape
<1> QED
  <2>1. Put(r, p[1], p[2]) = [r EXCEPT !.pairs = R \cup {p}, !.idx = r.idx + 1]
    BY <1>2, <1>4, <1>5 DEF Put, ReaderFrame
  <2>2. R \cup {p} \in SUBSET (PortableKeys \X Values)
    BY <1>2, <1>3, <1>4 DEF ReaderFrame
  <2> DEFINE X == R \cup {p}
             n == r.idx + 1
  <2>3. X \in SUBSET (PortableKeys \X Values) /\ n \in Nat \ {0}
    BY <1>4, <2>2 DEF ReaderFrame
  <2> HIDE DEF X, n
  <2>4. /\ [r EXCEPT !.pairs = X, !.idx = n] \in ReaderFrame
        /\ [r EXCEPT !.pairs = X, !.idx = n].pairs = X
        /\ [r EXCEPT !.pairs = X, !.idx = n].idx = n
        /\ [r EXCEPT !.pairs = X, !.idx = n].type = r.type
    BY <1>4, <2>3 DEF ReaderFrame
  <2> QED
    BY <2>1, <2>4 DEF X, n

\* In an array, without the pair of the index to come there are those from the next index on.
LEMMA PassedIndex ==
  ASSUME NEW f, NEW r, NEW d, Fits(f, r, d), Innermost(f, r), f.type = LVT.Arr,
         NEW p \in Pairs(f.of), p[1] = <<"num", r.idx>>
  PROVE  f.todo \ {p} = From(f.of, r.idx + 1)
<1>1. MAX_DEPTH \in Nat \ {0} /\ d \in 1..MAX_DEPTH /\ MAX_DEPTH - d \in 0..MAX_DEPTH
  BY CodecAssumption DEF Fits
<1>2. PortableShape(f.of)
  BY <1>1, TableAtLevel DEF Fits
<1>3. r.idx \in Nat \ {0} /\ f.todo = From(f.of, r.idx)
  BY DEF Fits, ReaderFrame, Innermost
<1>4. PICK n \in Nat : KeysOf(f.of) = {<<"num", i>> : i \in 1..n}
  BY DEF Fits, IsArray
<1>5. \A q \in Pairs(f.of) : \E i \in 1..n : q[1] = <<"num", i>> /\ q[1][2] = i
  BY <1>4 DEF KeysOf
<1>6. \A q \in Pairs(f.of) : q # p => q[1] # p[1]
  BY <1>2 DEF PortableShape
<1>7. \A q \in Pairs(f.of) : q[1][2] \in Int /\ (q # p => q[1][2] # r.idx)
  BY <1>5, <1>6
<1>8. p[1][2] = r.idx
  OBVIOUS
<1> QED
  BY <1>3, <1>7, <1>8 DEF From

\* A scalar was written and read.
LEMMA PairRead ==
  ASSUME NEW f, NEW r, NEW d, Fits(f, r, d), Innermost(f, r), NEW p \in Ahead(f),
         Numbered(f, r, p)
  PROVE  LET g == [f EXCEPT !.todo = @ \ {p}]
         IN  Fits(g, Put(r, p[1], p[2]), d) /\ Innermost(g, Put(r, p[1], p[2]))
<1> DEFINE g == [f EXCEPT !.todo = @ \ {p}]
           q == Put(r, p[1], p[2])
<1>1. /\ g \in WriterFrame /\ g.of = f.of /\ g.type = f.type /\ g.todo = f.todo \ {p}
      /\ p \in f.todo /\ p \in Pairs(f.of) /\ f.todo \subseteq Pairs(f.of)
  BY DEF Fits, WriterFrame, Ahead
<1>2. /\ q \in ReaderFrame /\ q.pairs = (Pairs(f.of) \ f.todo) \cup {p}
      /\ q.idx = r.idx + 1 /\ q.type = r.type
  <2>1. r.pairs = Pairs(f.of) \ f.todo /\ p \notin Pairs(f.of) \ f.todo
    BY <1>1 DEF Innermost
  <2> QED
    BY <1>1, <2>1, PutAdds
<1> HIDE DEF g, q
<1>3. Fits(g, q, d)
  BY <1>1, <1>2 DEF Fits
<1>4. q.pairs = Pairs(g.of) \ g.todo
  BY <1>1, <1>2
<1>5. ASSUME g.type = LVT.Arr
      PROVE  g.todo = From(g.of, q.idx)
  <2>1. f.type = LVT.Arr /\ p[1] = <<"num", r.idx>>
    BY <1>1, <1>5 DEF Numbered
  <2>2. f.todo \ {p} = From(f.of, r.idx + 1)
    BY <1>1, <2>1, PassedIndex
  <2> QED
    BY <1>1, <1>2, <2>2
<1> QED
  BY <1>3, <1>4, <1>5 DEF Innermost, g, q

\* The value that the table around it waited for is complete.
LEMMA TableRead ==
  ASSUME NEW f, NEW r, NEW d, NEW v, Fits(f, r, d), Around(f, r, v)
  PROVE  Fits(f, Put(r, r.key, v), d) /\ Innermost(f, Put(r, r.key, v))
<1> DEFINE p == <<r.key, v>>
           q == Put(r, r.key, v)
<1>1. /\ p \in Pairs(f.of) /\ p \notin f.todo /\ f.todo \subseteq Pairs(f.of)
      /\ r.pairs = (Pairs(f.of) \ f.todo) \ {p} /\ p[1] = r.key /\ p[2] = v
  BY DEF Fits, Around
<1>2. /\ q \in ReaderFrame /\ q.pairs = ((Pairs(f.of) \ f.todo) \ {p}) \cup {p}
      /\ q.idx = r.idx + 1 /\ q.type = r.type
  <2> HIDE DEF p
  <2>1. /\ Put(r, p[1], p[2]) \in ReaderFrame
        /\ Put(r, p[1], p[2]).pairs = ((Pairs(f.of) \ f.todo) \ {p}) \cup {p}
        /\ Put(r, p[1], p[2]).idx = r.idx + 1 /\ Put(r, p[1], p[2]).type = r.type
    BY <1>1, PutAdds
  <2> QED
    BY <1>1, <2>1
<1> HIDE DEF p, q
<1>3. q.pairs = Pairs(f.of) \ f.todo
  BY <1>1, <1>2
<1>4. f.type = LVT.Arr => f.todo = From(f.of, q.idx)
  BY <1>2 DEF Around
<1> QED
  BY <1>2, <1>3, <1>4 DEF Fits, Innermost, q

\* A table that is entered has all its pairs ahead of it, and none is read yet.
LEMMA TableBegins ==
  ASSUME NEW d \in 1..MAX_DEPTH, NEW v \in Portable[MAX_DEPTH - d], IsTable(v),
         NEW type \in TypesOf(v)
  PROVE  /\ Fits(Writing(v, type, d), Reading(type[1]), d)
         /\ Innermost(Writing(v, type, d), Reading(type[1]))
         /\ Writing(v, type, d).of = v /\ Writing(v, type, d).type = type[1]
<1> DEFINE f == Writing(v, type, d)
           r == Reading(type[1])
           k == MAX_DEPTH - d
<1>1. MAX_DEPTH \in Nat \ {0} /\ k \in 0..MAX_DEPTH /\ (k = 0 <=> d >= MAX_DEPTH)
  BY CodecAssumption
<1>2. v \in Portable[k]
  OBVIOUS
<1> HIDE DEF k
<1>3. /\ PortableShape(v)
      /\ \A p \in Pairs(v) : /\ k # 0 /\ p = <<p[1], p[2]>>
                             /\ p[1] \in PortableKeys /\ p[2] \in Portable[k - 1]
  BY <1>1, <1>2, TableAtLevel
<1>4. Pairs(v) \subseteq PortableKeys \X Values /\ v \in Values
  <2>1. \A p \in Pairs(v) : k - 1 \in 0..MAX_DEPTH
    BY <1>1, <1>3
  <2> QED
    BY <1>1, <1>2, <1>3, <2>1 DEF Values
<1>5. /\ type[1] \in TableBytes
      /\ type[1] = LVT.Arr => /\ type[2] \in Nat
                              /\ KeysOf(v) = {<<"num", i>> : i \in 1..type[2]}
  <2>1. v[1] = "table" /\ KeysOf(v) \subseteq PortableKeys
    <3>1. v = <<"table", Pairs(v)>>
      BY <1>1, <1>2, TableAtLevel
    <3> QED
      BY <1>3, <3>1 DEF KeysOf
  <2> QED
    BY <1>3, <2>1, TableArrives DEF TableBytes
<1>6. type[1] = LVT.Arr => \A p \in Pairs(v) : /\ p[1][1] = "num" /\ p[1][2] \in 1..type[2]
                                               /\ p[1][2] >= 1
  <2> SUFFICES ASSUME type[1] = LVT.Arr, NEW p \in Pairs(v)
               PROVE  p[1][1] = "num" /\ p[1][2] \in 1..type[2] /\ p[1][2] >= 1
    OBVIOUS
  <2>1. p[1] \in KeysOf(v)
    BY DEF KeysOf
  <2> QED
    BY <1>5, <2>1
<1>7. f.todo = Pairs(v)
  BY <1>1, <1>3, <1>6 DEF Writing
<1>8. f.of = v /\ f.type = type[1] /\ f \in WriterFrame
  BY <1>4, <1>5, <1>7 DEF Writing, WriterFrame
<1>9. /\ r \in ReaderFrame /\ r.type = type[1] /\ r.pairs = {} /\ r.idx = 1
  BY <1>5 DEF Reading, ReaderFrame
<1>10. f.type = LVT.Arr => IsArray(v) /\ f.todo = From(v, 1)
  BY <1>5, <1>6, <1>7, <1>8 DEF IsArray, From
<1> HIDE DEF f, r
<1> QED
  BY <1>2, <1>7, <1>8, <1>9, <1>10 DEF Fits, Innermost, f, r, k

\* A table in a table was come to: its pair waits for it.
LEMMA TableEntered ==
  ASSUME NEW f, NEW r, NEW d, Fits(f, r, d), Innermost(f, r), NEW p \in Ahead(f),
         p = <<p[1], p[2]>>, p[1] \in PortableKeys,
         Numbered(f, r, p)
  PROVE  /\ Fits([f EXCEPT !.todo = @ \ {p}], [r EXCEPT !.key = p[1]], d)
         /\ Around([f EXCEPT !.todo = @ \ {p}], [r EXCEPT !.key = p[1]], p[2])
<1> DEFINE g == [f EXCEPT !.todo = @ \ {p}]
           q == [r EXCEPT !.key = p[1]]
<1>1. /\ g \in WriterFrame /\ g.of = f.of /\ g.type = f.type /\ g.todo = f.todo \ {p}
      /\ p \in f.todo /\ p \in Pairs(f.of) /\ f.todo \subseteq Pairs(f.of)
  BY DEF Fits, WriterFrame, Ahead
<1>2. /\ q \in ReaderFrame /\ q.pairs = r.pairs /\ q.idx = r.idx /\ q.type = r.type
      /\ q.key = p[1]
  BY DEF ReaderFrame, Fits
<1>3. r.pairs = Pairs(f.of) \ f.todo
  BY DEF Innermost
<1> HIDE DEF g, q
<1>4. Fits(g, q, d)
  BY <1>1, <1>2 DEF Fits
<1>5. <<q.key, p[2]>> = p
  BY <1>2
<1>6. p \in Pairs(g.of) \ g.todo /\ q.pairs = (Pairs(g.of) \ g.todo) \ {p}
  BY <1>1, <1>2, <1>3
<1>7. ASSUME g.type = LVT.Arr
      PROVE  q.key = <<"num", q.idx>> /\ g.todo = From(g.of, q.idx + 1)
  <2>1. f.type = LVT.Arr /\ p[1] = <<"num", r.idx>>
    BY <1>1, <1>7 DEF Numbered
  <2>2. f.todo \ {p} = From(f.of, r.idx + 1)
    BY <1>1, <2>1, PassedIndex
  <2> QED
    BY <1>1, <1>2, <2>1, <2>2
<1> QED
  BY <1>4, <1>5, <1>6, <1>7 DEF Around, g, q
-----------------------------------------------------------------------------
(* The reader, as a function of the stream and of its state. *)

After(str, s) ==
  LET p     == s[1]
      rd    == s[2]
      hash  == Last(rd).type = LVT.Hash
      type  == IF hash THEN str[p + 1] % 16 ELSE str[p + 1]
      key   == IF hash THEN Scalar(str[p + 1] \div 16, str[p + 2]) ELSE <<"num", Last(rd).idx>>
      at    == IF hash THEN p + 2 ELSE p + 1
      v     == <<"table", Last(rd).pairs>>
      outer == Front(rd)
  IN  IF str[p + 1] = LVT.nil
      THEN IF outer = <<>> THEN <<p + 1, <<>>, v>>
           ELSE <<p + 1, [outer EXCEPT ![Len(outer)] = Put(@, @.key, v)], s[3]>>
      ELSE IF IsTableType(type)
      THEN <<at, Append([rd EXCEPT ![Len(rd)].key = key], Reading(type)), s[3]>>
      ELSE <<at + 1, [rd EXCEPT ![Len(rd)] = Put(@, key, Scalar(type, str[at + 1]))], s[3]>>

\* Deserialize does what After says.
LEMMA ReaderSteps ==
  ASSUME DeserializeRound \/ DeserializeEnd
  PROVE  /\ reading # <<>> /\ UNCHANGED <<table, stream, lost, open>>
         /\ <<pos', reading', copy'>> = After(stream, <<pos, reading, copy>>)
<1> DEFINE s == <<pos, reading, copy>>
<1>0. s[1] = pos /\ s[2] = reading /\ s[3] = copy
  OBVIOUS
<1> HIDE DEF s
<1>1. CASE DeserializeRound
  BY <1>0, <1>1 DEF DeserializeRound, After, buffer, s
<1>2. CASE DeserializeEnd
  BY <1>0, <1>2 DEF DeserializeEnd, After, buffer, s
<1> QED
  BY <1>1, <1>2

Byte == Nat \cup CodecData

\* What lies behind the place that the reader comes to does not matter.
LEMMA PrefixIsEnough ==
  ASSUME NEW str \in Seq(Byte), NEW ext \in Seq(Byte), NEW s, s[1] \in Nat,
         After(str, s)[1] <= Len(str)
  PROVE  After(str \o ext, s) = After(str, s)
<1> DEFINE p == s[1]
           e == str \o ext
<1>1. Len(str) \in Nat /\ \A i \in 1..Len(str) : e[i] = str[i]
  BY ConcatProperties
<1> HIDE DEF e
<1>2. p + 1 <= Len(str)
  BY DEF After
<1>3. e[p + 1] = str[p + 1]
  BY <1>1, <1>2
<1>4. CASE str[p + 1] = LVT.nil
  BY <1>3, <1>4 DEF After, e
<1>5. CASE str[p + 1] # LVT.nil
  <2>1. CASE Last(s[2]).type = LVT.Hash
    <3>1. p + 2 <= Len(str)
      BY <1>5, <2>1 DEF After
    <3>2. e[p + 2] = str[p + 2]
      BY <1>1, <3>1
    <3>3. ~IsTableType(str[p + 1] % 16) => e[(p + 2) + 1] = str[(p + 2) + 1]
      <4> SUFFICES ASSUME ~IsTableType(str[p + 1] % 16)
                   PROVE  e[(p + 2) + 1] = str[(p + 2) + 1]
        OBVIOUS
      <4>1. (p + 2) + 1 <= Len(str)
        BY <1>5, <2>1 DEF After
      <4> QED
        BY <1>1, <4>1
    <3> QED
      BY <1>3, <1>5, <2>1, <3>2, <3>3 DEF After, e
  <2>2. CASE Last(s[2]).type # LVT.Hash
    <3>1. ~IsTableType(str[p + 1]) => e[(p + 1) + 1] = str[(p + 1) + 1]
      <4> SUFFICES ASSUME ~IsTableType(str[p + 1])
                   PROVE  e[(p + 1) + 1] = str[(p + 1) + 1]
        OBVIOUS
      <4>1. (p + 1) + 1 <= Len(str)
        BY <1>5, <2>2 DEF After
      <4> QED
        BY <1>1, <4>1
    <3> QED
      BY <1>3, <1>5, <2>2, <3>1 DEF After, e
  <2> QED
    BY <2>1, <2>2
<1> QED
  BY <1>4, <1>5

\* The two types in one byte.
LEMMA TwoTypes ==
  ASSUME NEW k \in 1..9, NEW t \in 1..13
  PROVE  /\ k * 16 + t \in Nat /\ k * 16 + t # 0
         /\ (k * 16 + t) % 16 = t /\ (k * 16 + t) \div 16 = k
OBVIOUS

\* What is written of a pair.
LEMMA ItemsOfPair ==
  ASSUME NEW f, NEW r, NEW d, Fits(f, r, d), Innermost(f, r), NEW p \in Ahead(f),
         NEW ktype \in TypesOf(p[1]), NEW type \in TypesOf(p[2])
  PROVE  LET its   == Items(f, p, ktype, type)
             first == IF f.type = LVT.Arr THEN 1 ELSE 2
             last  == IF IsTable(p[2]) THEN first ELSE first + 1
         IN  /\ its \in Seq(Byte) /\ Len(its) = last
             /\ f.type = LVT.Arr => its[1] = type[1]
             /\ f.type # LVT.Arr => its[1] = ktype[1] * 16 + type[1] /\ its[2] = Datum(p[1], ktype[1])
             /\ ~IsTable(p[2]) => its[last] = Datum(p[2], type[1])
<1> DEFINE its   == Items(f, p, ktype, type)
           first == IF f.type = LVT.Arr THEN 1 ELSE 2
           last  == IF IsTable(p[2]) THEN first ELSE first + 1
           a     == IF f.type = LVT.Arr THEN <<type[1]>>
                    ELSE <<ktype[1] * 16 + type[1], Datum(p[1], ktype[1])>>
           b     == IF IsTable(p[2]) THEN <<>> ELSE <<Datum(p[2], type[1])>>
<1>1. LVT.i8 = 1 /\ LVT.str = 9 /\ LVT.bool = 11 /\ LVT.Hash = 13
  BY DEF LVT
<1>2. /\ d < MAX_DEPTH /\ p[1] \in PortableKeys /\ p[2] \in Portable[MAX_DEPTH - (d + 1)]
      /\ ktype[1] \in 1..9 /\ type[1] \in 1..13 /\ ~LeftOut(f, ktype, type)
  BY <1>1, NextPair
<1>3. its = a \o b
  BY <1>2 DEF Items
<1>4. Datum(p[1], ktype[1]) \in Byte
  BY <1>2, KeysAreScalars, ScalarArrives DEF Byte
<1>5. ~IsTable(p[2]) => Datum(p[2], type[1]) \in Byte
  <2>1. MAX_DEPTH - (d + 1) \in 0..MAX_DEPTH
    BY <1>2, CodecAssumption DEF Fits
  <2> QED
    BY <1>2, <2>1, ScalarAtLevel, ScalarArrives DEF Byte
<1>6. type[1] \in Byte /\ ktype[1] * 16 + type[1] \in Byte
  BY <1>2, TwoTypes DEF Byte
<1>7. /\ a \in Seq(Byte) /\ Len(a) = first
      /\ f.type = LVT.Arr => a[1] = type[1]
      /\ f.type # LVT.Arr => a[1] = ktype[1] * 16 + type[1] /\ a[2] = Datum(p[1], ktype[1])
  BY <1>4, <1>6
<1>8. b \in Seq(Byte) /\ Len(b) = last - first /\ (~IsTable(p[2]) => b[1] = Datum(p[2], type[1]))
  BY <1>5
<1> HIDE DEF its, a, b
<1>9. /\ its \in Seq(Byte) /\ Len(its) = Len(a) + Len(b)
      /\ \A i \in 1..(Len(a) + Len(b)) : its[i] = IF i <= Len(a) THEN a[i] ELSE b[i - Len(a)]
  BY <1>3, <1>7, <1>8, ConcatProperties
<1>10. Len(its) = last /\ first \in {1, 2}
  BY <1>7, <1>8, <1>9
<1>11. \A i \in 1..first : its[i] = a[i]
  BY <1>7, <1>8, <1>9, <1>10
<1>12. ~IsTable(p[2]) => its[last] = b[1]
  BY <1>7, <1>8, <1>9, <1>10
<1> QED
  BY <1>7, <1>8, <1>9, <1>10, <1>11, <1>12 DEF its

\* The tables that the reader is in when it has read a pair.
PairTaken(rd, p, type) ==
  IF IsTable(p[2]) THEN Append([rd EXCEPT ![Len(rd)].key = p[1]], Reading(type[1]))
                   ELSE [rd EXCEPT ![Len(rd)] = Put(@, p[1], p[2])]

\* The reader takes from a pair what was written of it.
LEMMA PairArrives ==
  ASSUME NEW str \in Seq(Byte), NEW rd \in Seq(ReaderFrame), rd # <<>>,
         NEW r, r = Last(rd),
         NEW f, NEW d, Fits(f, r, d), Innermost(f, r), NEW p \in Ahead(f),
         NEW ktype \in TypesOf(p[1]), NEW type \in TypesOf(p[2])
  PROVE  LET whole == str \o Items(f, p, ktype, type)
         IN  /\ whole \in Seq(Byte) /\ Len(whole) > Len(str)
             /\ After(whole, <<Len(str), rd, Nothing>>) =
                  <<Len(whole), PairTaken(rd, p, type), Nothing>>
<1> DEFINE its   == Items(f, p, ktype, type)
           whole == str \o its
           l     == Len(str)
           s     == <<l, rd, Nothing>>
           first == IF f.type = LVT.Arr THEN 1 ELSE 2
           last  == IF IsTable(p[2]) THEN first ELSE first + 1
<1>1. /\ LVT.nil = 0 /\ LVT.i8 = 1 /\ LVT.str = 9 /\ LVT.bool = 11
      /\ LVT.Arr = 12 /\ LVT.Hash = 13
  BY DEF LVT
<1>2. /\ d < MAX_DEPTH /\ p[1] \in PortableKeys /\ p[2] \in Portable[MAX_DEPTH - (d + 1)]
      /\ ktype[1] \in 1..9 /\ type[1] \in 1..13
      /\ IsTable(p[2]) <=> IsTableType(type[1])
      /\ Numbered(f, r, p)
  <2>1. /\ d < MAX_DEPTH /\ p[1] \in PortableKeys /\ p[2] \in Portable[MAX_DEPTH - (d + 1)]
        /\ ktype[1] \in LVT.i8..LVT.str /\ type[1] \in LVT.i8..LVT.Hash
        /\ IsTable(p[2]) <=> type[1] \in TableBytes
        /\ Numbered(f, r, p)
    BY NextPair
  <2> QED
    BY <1>1, <2>1 DEF TableBytes, IsTableType
<1>3. /\ its \in Seq(Byte) /\ Len(its) = last
      /\ f.type = LVT.Arr => its[1] = type[1]
      /\ f.type # LVT.Arr => its[1] = ktype[1] * 16 + type[1] /\ its[2] = Datum(p[1], ktype[1])
      /\ ~IsTable(p[2]) => its[last] = Datum(p[2], type[1])
  BY ItemsOfPair
<1>4. r.type = f.type /\ f.type \in {12, 13} /\ d \in 1..MAX_DEPTH
  BY <1>1 DEF Fits, WriterFrame, TableBytes
<1>5. Scalar(ktype[1], Datum(p[1], ktype[1])) = p[1]
  BY <1>2, KeysAreScalars, ScalarArrives
<1>6. ~IsTable(p[2]) => Scalar(type[1], Datum(p[2], type[1])) = p[2]
  <2>1. MAX_DEPTH - (d + 1) \in 0..MAX_DEPTH
    BY <1>2, <1>4, CodecAssumption
  <2> QED
    BY <1>2, <2>1, ScalarAtLevel, ScalarArrives
<1> HIDE DEF its, whole
<1>7. /\ whole \in Seq(Byte) /\ Len(whole) = l + last /\ l \in Nat
      /\ \A i \in 1..last : whole[l + i] = its[i]
  <2>1. /\ str \o its \in Seq(Byte) /\ Len(str \o its) = Len(str) + Len(its)
        /\ \A i \in 1..(Len(str) + Len(its)) :
             (str \o its)[i] = IF i <= Len(str) THEN str[i] ELSE its[i - Len(str)]
    BY <1>3, ConcatProperties
  <2>2. whole = str \o its /\ l \in Nat
    BY DEF whole
  <2>3. ASSUME NEW i \in 1..last
        PROVE  whole[l + i] = its[i]
    <3>1. l + i \in 1..(Len(str) + Len(its)) /\ ~(l + i <= Len(str)) /\ (l + i) - Len(str) = i
      BY <1>3, <2>2
    <3> QED
      BY <2>1, <2>2, <3>1
  <2> QED
    BY <1>3, <2>1, <2>2, <2>3
<1> SUFFICES After(whole, s) = <<Len(whole), PairTaken(rd, p, type), Nothing>>
  <2>1. Len(whole) > Len(str)
    BY <1>7
  <2> QED
    BY <1>7, <2>1 DEF whole, its
<1>8. s[1] = l /\ s[2] = rd /\ s[3] = Nothing /\ Last(s[2]) = r
  OBVIOUS
<1>9. CASE f.type = LVT.Arr
  <2>1. whole[l + 1] = type[1] /\ whole[l + 1] # LVT.nil /\ r.type # LVT.Hash
    <3>1. whole[l + 1] = its[1]
      BY <1>7
    <3> QED
      <4>1. its[1] = type[1]
        BY <1>3, <1>9
      <4>2. type[1] # LVT.nil
        BY <1>1, <1>2
      <4>3. r.type # LVT.Hash
        BY <1>1, <1>4, <1>9
      <4> QED
        BY <3>1, <4>1, <4>2, <4>3
  <2>2. CASE IsTable(p[2])
    <3>1. Len(whole) = l + 1 /\ IsTableType(type[1])
      BY <1>2, <1>7, <1>9, <2>2
    <3> HIDE DEF s, l
    <3>0. f.type = LVT.Arr /\ p[1] = <<"num", r.idx>>
      BY <1>2, <1>9 DEF Numbered
    <3>2. After(whole, s) = <<l + 1, Append([rd EXCEPT ![Len(rd)].key = p[1]], Reading(type[1])), Nothing>>
      BY <1>8, <2>1, <3>0, <3>1 DEF After
    <3> QED
      BY <1>7, <2>2, <3>1, <3>2 DEF l, PairTaken
  <2>3. CASE ~IsTable(p[2])
    <3>1. Len(whole) = (l + 1) + 1 /\ ~IsTableType(type[1])
          /\ whole[(l + 1) + 1] = Datum(p[2], type[1])
      BY <1>2, <1>3, <1>7, <1>9, <2>3
    <3> HIDE DEF s, l
    <3>0. f.type = LVT.Arr /\ p[1] = <<"num", r.idx>>
      BY <1>2, <1>9 DEF Numbered
    <3>2. After(whole, s) = <<(l + 1) + 1, [rd EXCEPT ![Len(rd)] = Put(@, p[1], p[2])], Nothing>>
      BY <1>6, <1>8, <2>1, <2>3, <3>0, <3>1 DEF After
    <3> QED
      BY <1>7, <2>3, <3>1, <3>2 DEF l, PairTaken
  <2> QED
    BY <2>2, <2>3
<1>10. CASE f.type # LVT.Arr
  <2>1. /\ whole[l + 1] = ktype[1] * 16 + type[1] /\ whole[l + 1] # LVT.nil /\ r.type = LVT.Hash
        /\ whole[l + 1] % 16 = type[1] /\ whole[l + 1] \div 16 = ktype[1]
        /\ whole[l + 2] = Datum(p[1], ktype[1])
    <3>1. whole[l + 1] = its[1] /\ whole[l + 2] = its[2]
      BY <1>7, <1>10
    <3>2. its[1] = ktype[1] * 16 + type[1] /\ its[2] = Datum(p[1], ktype[1]) /\ r.type = LVT.Hash
      BY <1>1, <1>3, <1>4, <1>10
    <3> QED
      <4>1. ktype[1] \in 1..9 /\ type[1] \in 1..13
        BY <1>2
      <4>2. its[1] # 0 /\ its[1] % 16 = type[1] /\ its[1] \div 16 = ktype[1]
        <5> DEFINE k == ktype[1]
                   t == type[1]
                   b == its[1]
        <5>1. k \in 1..9 /\ t \in 1..13 /\ b = k * 16 + t
          BY <3>2, <4>1
        <5> HIDE DEF k, t, b
        <5>2. k * 16 + t # 0 /\ (k * 16 + t) % 16 = t /\ (k * 16 + t) \div 16 = k
          BY <5>1, TwoTypes
        <5>3. b # 0 /\ b % 16 = t /\ b \div 16 = k
          BY <5>1, <5>2
        <5> QED
          BY <5>3 DEF k, t, b
      <4> QED
        BY <1>1, <3>1, <3>2, <4>2
  <2>2. CASE IsTable(p[2])
    <3>1. Len(whole) = l + 2 /\ IsTableType(type[1])
      BY <1>2, <1>7, <1>10, <2>2
    <3> HIDE DEF s, l
    <3>2. After(whole, s) = <<l + 2, Append([rd EXCEPT ![Len(rd)].key = p[1]], Reading(type[1])), Nothing>>
      BY <1>5, <1>8, <2>1, <3>1 DEF After
    <3> QED
      BY <1>7, <2>2, <3>1, <3>2 DEF l, PairTaken
  <2>3. CASE ~IsTable(p[2])
    <3>1. Len(whole) = (l + 2) + 1 /\ ~IsTableType(type[1])
          /\ whole[(l + 2) + 1] = Datum(p[2], type[1])
      <4>1. last = 3 /\ 3 \in 1..last
        BY <1>10, <2>3
      <4>2. l \in Nat /\ Len(whole) = l + 3 /\ whole[l + 3] = its[3] /\ its[3] = Datum(p[2], type[1])
        BY <1>3, <1>7, <2>3, <4>1
      <4>3. l + 3 = (l + 2) + 1
        BY <4>2
      <4> QED
        BY <1>2, <2>3, <4>2, <4>3
    <3> HIDE DEF s, l
    <3>2. After(whole, s) = <<(l + 2) + 1, [rd EXCEPT ![Len(rd)] = Put(@, p[1], p[2])], Nothing>>
      BY <1>5, <1>6, <1>8, <2>1, <2>3, <3>1 DEF After
    <3> QED
      BY <1>7, <2>3, <3>1, <3>2 DEF l, PairTaken
  <2> QED
    BY <2>2, <2>3
<1> QED
  BY <1>9, <1>10
-----------------------------------------------------------------------------
\* The tables that the writer is in and those that a reader at the end of the stream is in are
\* the same ones: all but the innermost wait for the next one to be their value.
Facing(o, rd, v) ==
  /\ o \in Seq(WriterFrame) /\ rd \in Seq(ReaderFrame)
  /\ Len(o) # 0 /\ Len(rd) = Len(o) /\ o[1].of = v
  /\ \A d \in 1..Len(o) : Fits(o[d], rd[d], d)
  /\ \A d \in 1..(Len(o) - 1) : Around(o[d], rd[d], o[d + 1].of)
  /\ Innermost(o[Len(o)], rd[Len(o)])

\* A table is begun.
LEMMA FacingBegins ==
  ASSUME NEW v \in Portable[MAX_DEPTH - 1], IsTable(v), NEW type \in TypesOf(v)
  PROVE  Facing(<<Writing(v, type, 1)>>, <<Reading(type[1])>>, v)
<1> DEFINE f == Writing(v, type, 1)
           r == Reading(type[1])
<1>1. 1 \in 1..MAX_DEPTH
  BY CodecAssumption
<1>2. Fits(f, r, 1) /\ Innermost(f, r) /\ f.of = v
  BY <1>1, TableBegins
<1>3. f \in WriterFrame /\ r \in ReaderFrame
  BY <1>2 DEF Fits
<1> HIDE DEF f, r
<1> DEFINE o == <<f>>
           rd == <<r>>
<1>4. /\ o \in Seq(WriterFrame) /\ rd \in Seq(ReaderFrame) /\ Len(o) = 1 /\ Len(rd) = 1
      /\ o[1] = f /\ rd[1] = r
  BY <1>3
<1> HIDE DEF o, rd
<1>5. Facing(o, rd, v)
  BY <1>2, <1>4 DEF Facing
<1> QED
  BY <1>5 DEF o, rd, f, r

\* A pair with a scalar is written.
LEMMA FacingRound ==
  ASSUME NEW o, NEW rd, NEW v, Facing(o, rd, v), NEW p \in Ahead(Last(o)),
         Numbered(Last(o), Last(rd), p)
  PROVE  Facing(Passed(o, p), [rd EXCEPT ![Len(rd)] = Put(@, p[1], p[2])], v)
<1> DEFINE n == Len(o)
           f == o[n]
           r == rd[n]
           g == [f EXCEPT !.todo = @ \ {p}]
           q == Put(r, p[1], p[2])
           w == [o EXCEPT ![n] = g]
           u == [rd EXCEPT ![n] = q]
<1>1. /\ o \in Seq(WriterFrame) /\ rd \in Seq(ReaderFrame) /\ n \in Nat \ {0} /\ Len(rd) = n
      /\ Last(o) = f /\ Last(rd) = r
  BY DEF Facing, Last
<1>2. Fits(f, r, n) /\ Innermost(f, r)
  BY <1>1 DEF Facing
<1>3. Fits(g, q, n) /\ Innermost(g, q) /\ g.of = f.of
  <2>1. g.of = f.of
    BY <1>2 DEF Fits, WriterFrame
  <2> HIDE DEF f, r
  <2> QED
    BY <1>1, <1>2, <2>1, PairRead
<1>4. g \in WriterFrame /\ q \in ReaderFrame
  BY <1>3 DEF Fits
<1>5. Passed(o, p) = w /\ [rd EXCEPT ![Len(rd)] = Put(@, p[1], p[2])] = u
  BY <1>1 DEF Passed
<1> HIDE DEF g, q
<1>6. /\ w \in Seq(WriterFrame) /\ u \in Seq(ReaderFrame) /\ Len(w) = n /\ Len(u) = n
      /\ w[n] = g /\ u[n] = q
      /\ \A d \in 1..n : d # n => w[d] = o[d] /\ u[d] = rd[d]
      /\ \A d \in 1..n : w[d].of = o[d].of
  BY <1>1, <1>3, <1>4
<1> HIDE DEF w, u, f, r
<1>7. Facing(w, u, v)
  <2>1. w[1].of = v
    BY <1>1, <1>6 DEF Facing
  <2>2. \A d \in 1..n : Fits(w[d], u[d], d)
    BY <1>1, <1>3, <1>6 DEF Facing
  <2>3. \A d \in 1..(n - 1) : Around(w[d], u[d], w[d + 1].of)
    <3> SUFFICES ASSUME NEW d \in 1..(n - 1)
                 PROVE  Around(w[d], u[d], w[d + 1].of)
      OBVIOUS
    <3>1. d \in 1..n /\ d + 1 \in 1..n /\ d # n
      BY <1>1
    <3>2. w[d] = o[d] /\ u[d] = rd[d] /\ w[d + 1].of = o[d + 1].of
      BY <1>6, <3>1
    <3>3. Around(o[d], rd[d], o[d + 1].of)
      BY DEF Facing
    <3> QED
      BY <3>2, <3>3
  <2> QED
    BY <1>1, <1>3, <1>6, <2>1, <2>2, <2>3 DEF Facing
<1> QED
  BY <1>5, <1>7

\* A table in the innermost table is entered.
LEMMA FacingEnters ==
  ASSUME NEW o, NEW rd, NEW v, Facing(o, rd, v), NEW p \in Ahead(Last(o)),
         Numbered(Last(o), Last(rd), p), p = <<p[1], p[2]>>, p[1] \in PortableKeys,
         Len(o) < MAX_DEPTH, p[2] \in Portable[MAX_DEPTH - (Len(o) + 1)], IsTable(p[2]),
         NEW type \in TypesOf(p[2])
  PROVE  Facing(Append(Passed(o, p), Writing(p[2], type, Len(o) + 1)),
                Append([rd EXCEPT ![Len(rd)].key = p[1]], Reading(type[1])), v)
<1> DEFINE n == Len(o)
           f == o[n]
           r == rd[n]
           g == [f EXCEPT !.todo = @ \ {p}]
           q == [r EXCEPT !.key = p[1]]
           h == Writing(p[2], type, n + 1)
           e == Reading(type[1])
           w == Append([o EXCEPT ![n] = g], h)
           u == Append([rd EXCEPT ![n] = q], e)
<1>1. /\ o \in Seq(WriterFrame) /\ rd \in Seq(ReaderFrame) /\ n \in Nat \ {0} /\ Len(rd) = n
      /\ Last(o) = f /\ Last(rd) = r
  BY DEF Facing, Last
<1>2. Fits(f, r, n) /\ Innermost(f, r)
  BY <1>1 DEF Facing
<1>3. Fits(g, q, n) /\ Around(g, q, p[2]) /\ g.of = f.of
  <2>1. g.of = f.of
    BY <1>2 DEF Fits, WriterFrame
  <2> HIDE DEF f, r
  <2>2. p \in Ahead(f) /\ Numbered(f, r, p)
    BY <1>1
  <2> QED
    BY <1>2, <2>1, <2>2, TableEntered
<1>4. Fits(h, e, n + 1) /\ Innermost(h, e) /\ h.of = p[2]
  <2>1. n + 1 \in 1..MAX_DEPTH
    BY <1>1, CodecAssumption
  <2> QED
    BY <2>1, TableBegins
<1>5. g \in WriterFrame /\ q \in ReaderFrame /\ h \in WriterFrame /\ e \in ReaderFrame
  BY <1>3, <1>4 DEF Fits
<1>6. /\ Append(Passed(o, p), Writing(p[2], type, Len(o) + 1)) = w
      /\ Append([rd EXCEPT ![Len(rd)].key = p[1]], Reading(type[1])) = u
  BY <1>1 DEF Passed
<1> HIDE DEF g, q, h, e
<1>7. /\ w \in Seq(WriterFrame) /\ u \in Seq(ReaderFrame) /\ Len(w) = n + 1 /\ Len(u) = n + 1
      /\ w[n] = g /\ u[n] = q /\ w[n + 1] = h /\ u[n + 1] = e
      /\ \A d \in 1..n : d # n => w[d] = o[d] /\ u[d] = rd[d]
      /\ \A d \in 1..n : w[d].of = o[d].of
  <2> DEFINE a == [o EXCEPT ![n] = g]
             b == [rd EXCEPT ![n] = q]
  <2>1. /\ a \in Seq(WriterFrame) /\ b \in Seq(ReaderFrame) /\ Len(a) = n /\ Len(b) = n
        /\ a[n] = g /\ b[n] = q
        /\ \A d \in 1..n : d # n => a[d] = o[d] /\ b[d] = rd[d]
        /\ \A d \in 1..n : a[d].of = o[d].of
    BY <1>1, <1>3, <1>5
  <2> HIDE DEF a, b, f, r
  <2> DEFINE A == Append(a, h)
             B == Append(b, e)
  <2>2. /\ A \in Seq(WriterFrame) /\ B \in Seq(ReaderFrame) /\ Len(A) = n + 1 /\ Len(B) = n + 1
        /\ A[n + 1] = h /\ B[n + 1] = e
        /\ \A d \in 1..n : A[d] = a[d] /\ B[d] = b[d]
    BY <1>1, <1>5, <2>1
  <2>3. w = A /\ u = B /\ n \in 1..n
    BY <1>1 DEF a, b
  <2> HIDE DEF A, B, w, u
  <2> QED
    BY <2>1, <2>2, <2>3
<1> HIDE DEF w, u, f, r
<1>8. Facing(w, u, v)
  <2>1. w[1].of = v
    BY <1>1, <1>7 DEF Facing
  <2>2. \A d \in 1..(n + 1) : Fits(w[d], u[d], d)
    <3> SUFFICES ASSUME NEW d \in 1..(n + 1)
                 PROVE  Fits(w[d], u[d], d)
      OBVIOUS
    <3>1. CASE d = n + 1
      BY <1>4, <1>7, <3>1
    <3>2. CASE d = n
      BY <1>3, <1>7, <3>2
    <3>3. CASE d # n + 1 /\ d # n
      <4>1. d \in 1..n /\ w[d] = o[d] /\ u[d] = rd[d]
        BY <1>1, <1>7, <3>3
      <4> QED
        BY <4>1 DEF Facing
    <3> QED
      BY <3>1, <3>2, <3>3
  <2>3. \A d \in 1..n : Around(w[d], u[d], w[d + 1].of)
    <3> SUFFICES ASSUME NEW d \in 1..n
                 PROVE  Around(w[d], u[d], w[d + 1].of)
      OBVIOUS
    <3>1. CASE d = n
      BY <1>3, <1>4, <1>7, <3>1
    <3>2. CASE d # n
      <4>1. d \in 1..(n - 1) /\ d + 1 \in 1..n
        BY <1>1, <3>2
      <4>2. w[d] = o[d] /\ u[d] = rd[d] /\ w[d + 1].of = o[d + 1].of
        BY <1>7, <3>2, <4>1
      <4>3. Around(o[d], rd[d], o[d + 1].of)
        BY <4>1 DEF Facing
      <4> QED
        BY <4>2, <4>3
    <3> QED
      BY <3>1, <3>2
  <2>4. (n + 1) - 1 = n /\ n + 1 # 0
    BY <1>1
  <2> QED
    BY <1>4, <1>7, <2>1, <2>2, <2>3, <2>4 DEF Facing
<1> QED
  BY <1>6, <1>8

\* The innermost table is written: the reader has it, as the value that the table around it
\* waits for.
LEMMA FacingEnds ==
  ASSUME NEW o, NEW rd, NEW v, Facing(o, rd, v), Last(o).todo = {}
  PROVE  LET t == <<"table", Last(rd).pairs>>
             outer == Front(rd)
         IN  /\ t = Last(o).of
             /\ Len(o) = 1 => outer = <<>> /\ Front(o) = <<>> /\ t = v
             /\ Len(o) # 1 =>
                  /\ outer # <<>>
                  /\ Facing(Front(o), [outer EXCEPT ![Len(outer)] = Put(@, @.key, t)], v)
<1> DEFINE n == Len(o)
           f == o[n]
           r == rd[n]
           t == <<"table", r.pairs>>
           outer == Front(rd)
           w == Front(o)
<1>1. /\ o \in Seq(WriterFrame) /\ rd \in Seq(ReaderFrame) /\ n \in Nat \ {0} /\ Len(rd) = n
      /\ Last(o) = f /\ Last(rd) = r
  BY DEF Facing, Last
<1>2. Fits(f, r, n) /\ Innermost(f, r) /\ f.todo = {}
  BY <1>1 DEF Facing
<1>3. t = f.of
  <2>1. MAX_DEPTH - n \in 0..MAX_DEPTH /\ f.of \in Portable[MAX_DEPTH - n] /\ IsTable(f.of)
    BY <1>2, CodecAssumption DEF Fits
  <2> HIDE DEF n, f, r
  <2>2. f.of = <<"table", Pairs(f.of)>>
    BY <2>1, TableAtLevel
  <2>3. r.pairs = Pairs(f.of)
    BY <1>2 DEF Innermost
  <2> QED
    BY <2>2, <2>3
<1>4. /\ outer \in Seq(ReaderFrame) /\ w \in Seq(WriterFrame) /\ Len(outer) = n - 1 /\ Len(w) = n - 1
      /\ \A d \in 1..(n - 1) : outer[d] = rd[d] /\ w[d] = o[d]
  BY <1>1 DEF Front
<1>5. CASE n = 1
  <2>1. outer = <<>> /\ w = <<>> /\ f.of = v
    BY <1>4, <1>5 DEF Facing
  <2> QED
    BY <1>1, <1>3, <1>5, <2>1
<1>6. CASE n # 1
  <2> DEFINE m == n - 1
             g == o[m]
             s == rd[m]
             q == Put(s, s.key, t)
             u == [outer EXCEPT ![m] = q]
  <2>1. m \in 1..n /\ m \in 1..(n - 1) /\ m + 1 = n /\ m \in Nat \ {0}
    BY <1>1, <1>6
  <2>2. Fits(g, s, m) /\ Around(g, s, t)
    <3>1. Around(g, s, o[m + 1].of) /\ Fits(g, s, m)
      BY <2>1 DEF Facing
    <3> QED
      BY <1>3, <2>1, <3>1
  <2> HIDE DEF n, t, g, s
  <2>3. Fits(g, q, m) /\ Innermost(g, q)
    BY <2>2, TableRead
  <2>4. q \in ReaderFrame
    BY <2>3 DEF Fits
  <2>5. outer # <<>> /\ Len(outer) = m /\ outer[m] = s /\ w[m] = g
    BY <1>4, <2>1 DEF g, s
  <2>6. [outer EXCEPT ![Len(outer)] = Put(@, @.key, t)] = u
    BY <1>4, <2>1, <2>5
  <2> HIDE DEF q, outer, w
  <2>7. /\ u \in Seq(ReaderFrame) /\ Len(u) = m /\ u[m] = q
        /\ \A d \in 1..m : d # m => u[d] = rd[d]
    BY <1>4, <2>1, <2>4, <2>5
  <2> HIDE DEF u
  <2>8. Facing(w, u, v)
    <3>1. w[1].of = v /\ Len(w) = m /\ m # 0
      BY <1>4, <2>1 DEF Facing
    <3>2. \A d \in 1..m : Fits(w[d], u[d], d)
      <4> SUFFICES ASSUME NEW d \in 1..m
                   PROVE  Fits(w[d], u[d], d)
        OBVIOUS
      <4>1. d \in 1..n /\ d \in 1..(n - 1)
        BY <2>1
      <4>2. Fits(o[d], rd[d], d)
        BY <4>1 DEF Facing, n
      <4> QED
        BY <1>4, <2>3, <2>5, <2>7, <4>1, <4>2
    <3>3. \A d \in 1..(m - 1) : Around(w[d], u[d], w[d + 1].of)
      <4> SUFFICES ASSUME NEW d \in 1..(m - 1)
                   PROVE  Around(w[d], u[d], w[d + 1].of)
        OBVIOUS
      <4>1. d \in 1..(n - 1) /\ d + 1 \in 1..(n - 1) /\ d \in 1..m /\ d # m
        BY <2>1
      <4>2. Around(o[d], rd[d], o[d + 1].of)
        BY <4>1 DEF Facing, n
      <4> QED
        BY <1>4, <2>7, <4>1, <4>2
    <3> QED
      BY <1>4, <2>3, <2>5, <2>7, <3>1, <3>2, <3>3 DEF Facing
  <2> QED
    BY <1>1, <1>3, <1>6, <2>5, <2>6, <2>8 DEF t, n, outer, w
<1> QED
  BY <1>5, <1>6
-----------------------------------------------------------------------------
\* The states of a reader that goes through the stream as far as it is written.
Follows(str, run, N) ==
  /\ str \in Seq(Byte)
  /\ run[1] = <<1, <<Reading(str[1])>>, Nothing>>
  /\ \A k \in 1..N : run[k][1] \in 1..Len(str)
  /\ \A k \in 1..(N - 1) : run[k + 1] = After(str, run[k]) /\ run[k][2] # <<>> /\ run[k][3] = Nothing

\* At the end of the stream the reader is in the tables that the writer is in, or has the table.
Met(o, s, str, v) ==
  /\ s = <<Len(str), s[2], s[3]>>
  /\ o = <<>> => s[2] = <<>> /\ s[3] = v
  /\ o # <<>> => s[3] = Nothing /\ Facing(o, s[2], v)

\* The reader is one of them.
OnItsWay(run, N) ==
  /\ pos = 0 => reading = <<>> /\ copy = Nothing
  /\ pos # 0 => open = <<>> /\ \E k \in 1..N : <<pos, reading, copy>> = run[k]

CodecInv ==
  /\ table = Nothing =>
       stream = <<>> /\ open = <<>> /\ pos = 0 /\ reading = <<>> /\ copy = Nothing
  /\ table # Nothing => IsTable(table)
  /\ table # Nothing /\ ~lost /\ table \in Portable[MAX_DEPTH - 1] =>
       \E N \in Nat \ {0} : \E run : /\ Follows(stream, run, N) /\ OnItsWay(run, N)
                                     /\ Met(open, run[N], stream, table)

\* What is written next lets the reader take one step.
LEMMA RunGoesOn ==
  ASSUME NEW str \in Seq(Byte), NEW ext \in Seq(Byte), NEW N \in Nat \ {0}, NEW run,
         Follows(str, run, N), run[N][2] # <<>>, run[N][3] = Nothing,
         NEW e, e = After(str \o ext, run[N]), e[1] = Len(str \o ext), Len(str \o ext) > Len(str)
  PROVE  \E go : Follows(str \o ext, go, N + 1) /\ go[N + 1] = e
<1> DEFINE whole == str \o ext
           go == [k \in 1..(N + 1) |-> IF k = N + 1 THEN e ELSE run[k]]
<1>1. /\ whole \in Seq(Byte) /\ Len(whole) \in Nat /\ Len(str) \in Nat /\ Len(whole) > Len(str)
      /\ \A i \in 1..Len(str) : whole[i] = str[i]
  BY ConcatProperties
<1>2. \A k \in 1..N : go[k] = run[k] /\ run[k][1] \in 1..Len(str)
  BY DEF Follows
<1>3. go[N + 1] = e
  OBVIOUS
<1>4. ASSUME NEW k \in 1..(N - 1)
      PROVE  run[k + 1] = After(whole, run[k]) /\ run[k][2] # <<>> /\ run[k][3] = Nothing
  <2>1. run[k + 1] = After(str, run[k]) /\ run[k][2] # <<>> /\ run[k][3] = Nothing
    BY DEF Follows
  <2>2. k \in 1..N /\ k + 1 \in 1..N
    OBVIOUS
  <2>3. run[k][1] \in Nat /\ run[k + 1][1] <= Len(str)
    <3>1. run[k][1] \in 1..Len(str) /\ run[k + 1][1] \in 1..Len(str)
      BY <2>2 DEF Follows
    <3> QED
      BY <1>1, <3>1
  <2>4. After(str \o ext, run[k]) = After(str, run[k])
    BY <2>1, <2>3, PrefixIsEnough
  <2> QED
    BY <2>1, <2>4
<1> HIDE DEF go, whole
<1>5. 1 \in 1..N /\ go[1] = <<1, <<Reading(whole[1])>>, Nothing>>
  <2>1. 1 \in 1..N /\ run[1] = <<1, <<Reading(str[1])>>, Nothing>> /\ run[1][1] = 1
    BY DEF Follows
  <2>2. 1 \in 1..Len(str)
    BY <1>2, <2>1
  <2> QED
    BY <1>1, <1>2, <2>1, <2>2
<1>6. \A k \in 1..(N + 1) : go[k][1] \in 1..Len(whole)
  <2> SUFFICES ASSUME NEW k \in 1..(N + 1)
               PROVE  go[k][1] \in 1..Len(whole)
    OBVIOUS
  <2>1. CASE k = N + 1
    BY <1>1, <1>3, <2>1 DEF whole
  <2>2. CASE k # N + 1
    <3>1. k \in 1..N
      BY <2>2
    <3>2. go[k][1] \in 1..Len(str)
      BY <1>2, <3>1
    <3> QED
      BY <1>1, <3>2
  <2> QED
    BY <2>1, <2>2
<1>7. \A k \in 1..N : go[k + 1] = After(whole, go[k]) /\ go[k][2] # <<>> /\ go[k][3] = Nothing
  <2> SUFFICES ASSUME NEW k \in 1..N
               PROVE  go[k + 1] = After(whole, go[k]) /\ go[k][2] # <<>> /\ go[k][3] = Nothing
    OBVIOUS
  <2>1. go[k] = run[k]
    BY <1>2
  <2>2. CASE k = N
    BY <1>3, <2>1, <2>2 DEF whole
  <2>3. CASE k # N
    <3>1. k \in 1..(N - 1) /\ k + 1 \in 1..N
      BY <2>3
    <3> QED
      BY <1>2, <1>4, <2>1, <3>1
  <2> QED
    BY <2>2, <2>3
<1>8. (N + 1) - 1 = N
  OBVIOUS
<1>9. Follows(whole, go, N + 1)
  BY <1>1, <1>5, <1>6, <1>7, <1>8 DEF Follows
<1> QED
  BY <1>3, <1>9 DEF whole

\* A round of the writer that loses nothing and the step of the reader that goes with it.
LEMMA WriterRound ==
  ASSUME stream \in Seq(Byte), NEW s, Met(open, s, stream, table), SerializeRound, ~lost'
  PROVE  \E ext \in Seq(Byte) : /\ stream' = stream \o ext /\ Len(stream') > Len(stream)
                                /\ Met(open', After(stream', s), stream', table)
<1> DEFINE rd == s[2]
           f == Last(open)
           r == Last(rd)
           n == Len(open)
<1>1. PICK p \in Ahead(f) : \E ktype \in TypesOf(p[1]), type \in TypesOf(p[2]) :
        /\ stream' = stream \o Items(f, p, ktype, type)
        /\ open' = Entered(open, p, ktype, type)
  BY DEF SerializeRound, Write
<1>2. PICK ktype \in TypesOf(p[1]), type \in TypesOf(p[2]) :
        /\ stream' = stream \o Items(f, p, ktype, type)
        /\ open' = Entered(open, p, ktype, type)
  BY <1>1
<1>3. open # <<>> /\ s = <<Len(stream), rd, Nothing>> /\ Facing(open, rd, table)
  BY DEF SerializeRound, Met
<1>4. /\ rd \in Seq(ReaderFrame) /\ rd # <<>> /\ n \in Nat \ {0} /\ Len(rd) = n
      /\ Fits(f, r, n) /\ Innermost(f, r)
  BY <1>3 DEF Facing, Last
<1> HIDE DEF rd, f, r
<1>5. /\ n < MAX_DEPTH /\ p = <<p[1], p[2]>> /\ p[1] \in PortableKeys
      /\ p[2] \in Portable[MAX_DEPTH - (n + 1)] /\ ~LeftOut(f, ktype, type) /\ Numbered(f, r, p)
  BY <1>4, NextPair
<1> DEFINE its == Items(f, p, ktype, type)
           whole == stream \o its
           e == After(whole, s)
           next == PairTaken(rd, p, type)
<1>6. its \in Seq(Byte)
  BY <1>4, ItemsOfPair
<1>7. Len(whole) > Len(stream) /\ e = <<Len(whole), next, Nothing>>
  <2>1. r = Last(rd)
    BY DEF r
  <2>2. /\ Len(whole) > Len(stream)
        /\ After(whole, <<Len(stream), rd, Nothing>>) = <<Len(whole), next, Nothing>>
    <3> HIDE DEF n
    <3> QED
      BY <1>4, <2>1, PairArrives
  <2> QED
    BY <1>3, <2>2
<1>8. open' # <<>> /\ Facing(open', next, table)
  <2>1. p \in Ahead(Last(open)) /\ Numbered(Last(open), Last(rd), p) /\ f = Last(open)
    BY <1>5 DEF f, r
  <2>2. CASE IsTable(p[2])
    <3>1. open' = Append(Passed(open, p), Writing(p[2], type, n + 1))
      BY <1>2, <1>5, <2>1, <2>2 DEF Entered
    <3>2. Facing(Append(Passed(open, p), Writing(p[2], type, n + 1)),
                 Append([rd EXCEPT ![Len(rd)].key = p[1]], Reading(type[1])), table)
      BY <1>3, <1>5, <2>1, <2>2, FacingEnters
    <3>3. Facing(open', next, table)
      BY <2>2, <3>1, <3>2 DEF PairTaken
    <3> QED
      BY <3>3 DEF Facing
  <2>3. CASE ~IsTable(p[2])
    <3>1. open' = Passed(open, p)
      BY <1>2, <2>3 DEF Entered
    <3>2. Facing(Passed(open, p), [rd EXCEPT ![Len(rd)] = Put(@, p[1], p[2])], table)
      BY <1>3, <2>1, FacingRound
    <3>3. Facing(open', next, table)
      BY <2>3, <3>1, <3>2 DEF PairTaken
    <3> QED
      BY <3>3 DEF Facing
  <2> QED
    BY <2>2, <2>3
<1> HIDE DEF its, next, e
<1>9. Met(open', e, whole, table)
  BY <1>7, <1>8 DEF Met
<1> QED
  BY <1>2, <1>6, <1>7, <1>9 DEF its, e

\* The end of a table, when there is room for its mark, and the reader's.
LEMMA WriterEnd ==
  ASSUME stream \in Seq(Byte), NEW s, Met(open, s, stream, table), SerializeEnd, ~lost'
  PROVE  \E ext \in Seq(Byte) : /\ stream' = stream \o ext /\ Len(stream') > Len(stream)
                                /\ Met(open', After(stream', s), stream', table)
<1> DEFINE rd == s[2]
           ext == <<LVT.nil>>
           whole == stream \o ext
           e == After(whole, s)
           t == <<"table", Last(rd).pairs>>
           outer == Front(rd)
           l == Len(stream)
<1>1. /\ open # <<>> /\ Last(open).todo = {} /\ stream' = stream \o ext
      /\ open' = Front(open)
      /\ s = <<l, rd, Nothing>> /\ Facing(open, rd, table)
  BY DEF SerializeEnd, Write, Met
<1>2. ext \in Seq(Byte) /\ stream' = whole /\ Len(whole) = l + 1 /\ whole[l + 1] = LVT.nil /\ l \in Nat
  <2>1. LVT.nil \in Byte
    BY DEF LVT, Byte
  <2>2. ext \in Seq(Byte)
    BY <2>1
  <2> QED
    BY <1>1, <2>1, <2>2
<1> HIDE DEF rd, ext, whole
<1>3. /\ t = Last(open).of
      /\ Len(open) = 1 => outer = <<>> /\ Front(open) = <<>> /\ t = table
      /\ Len(open) # 1 =>
           /\ outer # <<>>
           /\ Facing(Front(open), [outer EXCEPT ![Len(outer)] = Put(@, @.key, t)], table)
  BY <1>1, FacingEnds
<1>4. s[1] = l /\ s[2] = rd /\ s[3] = Nothing
  BY <1>1
<1> HIDE DEF l
<1>5. e = IF outer = <<>> THEN <<l + 1, <<>>, t>>
          ELSE <<l + 1, [outer EXCEPT ![Len(outer)] = Put(@, @.key, t)], Nothing>>
  BY <1>2, <1>4 DEF After
<1> HIDE DEF e, t, outer
<1>6. CASE Len(open) = 1
  <2>1. open' = <<>> /\ e = <<Len(whole), <<>>, table>>
    BY <1>1, <1>2, <1>3, <1>5, <1>6
  <2>2. Met(open', e, whole, table)
    BY <2>1 DEF Met
  <2> QED
    BY <1>2, <2>2 DEF e, l, whole
<1>7. CASE Len(open) # 1
  <2> DEFINE next == [outer EXCEPT ![Len(outer)] = Put(@, @.key, t)]
  <2>1. e = <<Len(whole), next, Nothing>> /\ Facing(open', next, table)
    BY <1>1, <1>2, <1>3, <1>5, <1>7
  <2> HIDE DEF next
  <2>2. open' # <<>>
    BY <2>1 DEF Facing
  <2>3. Met(open', e, whole, table)
    BY <2>1, <2>2 DEF Met
  <2> QED
    BY <1>2, <2>3 DEF e, l, whole
<1> QED
  BY <1>6, <1>7

\* CodecInv is inductive.
LEMMA CodecStep == CodecInv /\ [CodecNext]_codec => CodecInv'
<1> SUFFICES ASSUME CodecInv, [CodecNext]_codec
             PROVE  CodecInv'
  OBVIOUS
<1> DEFINE here(t) == t # Nothing /\ t \in Portable[MAX_DEPTH - 1]
<1>1. ASSUME NEW v \in CodecTables, table = Nothing, Serialize(v)
      PROVE  CodecInv'
  <2>1. PICK type \in TypesOf(v) : /\ ~lost' => stream' = <<type[1]>>
                                   /\ open' = <<Writing(v, type, 1)>>
    <3>1. PICK type \in TypesOf(v) : Write(<<type[1]>>, 1) /\ open' = <<Writing(v, type, 1)>>
      BY <1>1 DEF Serialize
    <3>2. stream = <<>> /\ <<>> \o <<type[1]>> = <<type[1]>>
      BY <1>1 DEF CodecInv
    <3> QED
      BY <3>1, <3>2 DEF Write
  <2>2. /\ table' = v /\ IsTable(v) /\ v # Nothing
        /\ pos' = 0 /\ reading' = <<>> /\ copy' = Nothing
    BY <1>1, CodecAssumption DEF Serialize, CodecInv, IsTable, Nothing
  <2>3. ASSUME v \in Portable[MAX_DEPTH - 1], ~lost'
        PROVE  \E N \in Nat \ {0} : \E run : /\ Follows(stream', run, N) /\ OnItsWay(run, N)'
                                             /\ Met(open', run[N], stream', v)
    <3> DEFINE e == <<1, <<Reading(type[1])>>, Nothing>>
               run == [k \in 1..1 |-> e]
    <3>1. Facing(open', <<Reading(type[1])>>, v)
      BY <2>1, <2>2, <2>3, FacingBegins
    <3>2. type[1] \in Byte
      <4>1. MAX_DEPTH - 1 \in 0..MAX_DEPTH
        BY CodecAssumption
      <4>2. v[1] = "table" /\ PortableShape(v) /\ KeysOf(v) \subseteq PortableKeys
        <5>1. /\ v = <<"table", Pairs(v)>> /\ PortableShape(v)
              /\ \A q \in Pairs(v) : q[1] \in PortableKeys
          BY <2>2, <2>3, <4>1, TableAtLevel
        <5> QED
          BY <5>1 DEF KeysOf
      <4>3. type[1] \in {LVT.Arr, LVT.Hash}
        BY <2>2, <4>2, TableArrives
      <4> QED
        BY <4>3 DEF LVT, Byte
    <3>3. stream' \in Seq(Byte) /\ Len(stream') = 1 /\ stream'[1] = type[1]
      <4>1. stream' = <<type[1]>>
        BY <2>1, <2>3
      <4> DEFINE t == type[1]
      <4>2. t \in Byte
        BY <3>2
      <4> HIDE DEF t
      <4>3. <<t>> \in Seq(Byte) /\ Len(<<t>>) = 1 /\ <<t>>[1] = t
        BY <4>2
      <4> QED
        BY <4>1, <4>3 DEF t
    <3>4. run[1] = e /\ \A k \in 1..1 : run[k][1] = 1
      OBVIOUS
    <3>5. open' # <<>>
      BY <2>1
    <3> HIDE DEF run
    <3>6. Follows(stream', run, 1)
      BY <3>3, <3>4 DEF Follows
    <3>7. Met(open', run[1], stream', v)
      BY <3>1, <3>3, <3>4, <3>5 DEF Met
    <3>8. OnItsWay(run, 1)'
      BY <2>2 DEF OnItsWay
    <3> QED
      BY <3>6, <3>7, <3>8
  <2> QED
    BY <2>2, <2>3 DEF CodecInv
<1>2. ASSUME SerializeRound \/ SerializeEnd
      PROVE  CodecInv'
  <2>1. open # <<>> /\ UNCHANGED <<table, pos, reading, copy>>
    BY <1>2 DEF SerializeRound, SerializeEnd
  <2>2. table # Nothing /\ IsTable(table)
    BY <2>1 DEF CodecInv
  <2>3. ASSUME table \in Portable[MAX_DEPTH - 1], ~lost'
        PROVE  \E N \in Nat \ {0} : \E run : /\ Follows(stream', run, N) /\ OnItsWay(run, N)'
                                             /\ Met(open', run[N], stream', table)
    <3>1. PICK N \in Nat \ {0} : \E run : /\ Follows(stream, run, N) /\ OnItsWay(run, N)
                                          /\ Met(open, run[N], stream, table)
      <4>1. ~lost
        BY <1>2, <2>3 DEF SerializeRound, SerializeEnd, Write
      <4> QED
        BY <2>2, <2>3, <4>1 DEF CodecInv
    <3>2. PICK run : /\ Follows(stream, run, N) /\ OnItsWay(run, N)
                     /\ Met(open, run[N], stream, table)
      BY <3>1
    <3>3. stream \in Seq(Byte)
      BY <3>2 DEF Follows
    <3> DEFINE e == After(stream', run[N])
    <3>4. PICK ext \in Seq(Byte) : /\ stream' = stream \o ext /\ Len(stream') > Len(stream)
                                   /\ Met(open', e, stream', table)
      <4> DEFINE s == run[N]
      <4>1. Met(open, s, stream, table)
        BY <3>2
      <4> HIDE DEF s
      <4>2. \E ext \in Seq(Byte) : /\ stream' = stream \o ext /\ Len(stream') > Len(stream)
                                   /\ Met(open', After(stream', s), stream', table)
        BY <1>2, <2>3, <3>3, <4>1, WriterRound, WriterEnd
      <4> QED
        BY <4>2 DEF s
    <3>5. run[N][2] # <<>> /\ run[N][3] = Nothing /\ e[1] = Len(stream')
      <4>1. Facing(open, run[N][2], table) /\ run[N][3] = Nothing
        BY <2>1, <3>2 DEF Met
      <4>2. run[N][2] # <<>>
        BY <4>1 DEF Facing
      <4>3. e = <<Len(stream'), e[2], e[3]>>
        BY <3>4 DEF Met
      <4> QED
        BY <4>1, <4>2, <4>3
    <3>6. PICK go : Follows(stream', go, N + 1) /\ go[N + 1] = e
      <4>1. e = After(stream \o ext, run[N]) /\ stream' = stream \o ext
        BY <3>4
      <4> HIDE DEF e
      <4>2. e[1] = Len(stream \o ext) /\ Len(stream \o ext) > Len(stream)
        BY <3>4, <3>5, <4>1
      <4>3. \E go : Follows(stream \o ext, go, N + 1) /\ go[N + 1] = e
        BY <3>2, <3>3, <3>5, <4>1, <4>2, RunGoesOn
      <4> QED
        BY <4>1, <4>3
    <3> HIDE DEF e
    <3>7. pos = 0 /\ pos' = 0 /\ reading' = <<>> /\ copy' = Nothing
      BY <2>1, <3>2 DEF OnItsWay
    <3>8. OnItsWay(go, N + 1)'
      BY <3>7 DEF OnItsWay
    <3>9. N + 1 \in Nat \ {0} /\ Met(open', go[N + 1], stream', table)
      BY <3>4, <3>6
    <3> QED
      BY <3>6, <3>8, <3>9
  <2> QED
    BY <2>1, <2>2, <2>3 DEF CodecInv
<1>3. ASSUME Deserialize \/ DeserializeRound \/ DeserializeEnd
      PROVE  CodecInv'
  <2>1. table # Nothing /\ IsTable(table) /\ UNCHANGED <<table, stream, lost, open>>
    <3>1. CASE Deserialize
      BY <3>1 DEF Deserialize, buffer, CodecInv
    <3>2. CASE DeserializeRound \/ DeserializeEnd
      BY <3>2, ReaderSteps DEF CodecInv
    <3> QED
      BY <1>3, <3>1, <3>2
  <2>2. ASSUME NEW N \in Nat \ {0}, NEW run, Follows(stream, run, N), OnItsWay(run, N),
               Met(open, run[N], stream, table)
        PROVE  OnItsWay(run, N)'
    <3>1. CASE Deserialize
      <4>1. /\ open = <<>> /\ pos' = 1 /\ reading' = <<Reading(stream[1])>> /\ copy' = copy
            /\ pos = 0 /\ open' = open
        BY <3>1 DEF Deserialize
      <4>2. <<pos', reading', copy'>> = run[1] /\ 1 \in 1..N
        BY <2>2, <4>1 DEF OnItsWay, Follows
      <4> QED
        BY <4>1, <4>2 DEF OnItsWay
    <3>2. CASE DeserializeRound \/ DeserializeEnd
      <4>1. reading # <<>> /\ <<pos', reading', copy'>> = After(stream, <<pos, reading, copy>>)
        BY <3>2, ReaderSteps
      <4>2. pos # 0 /\ open = <<>>
        BY <2>2, <4>1 DEF OnItsWay
      <4>3. PICK k \in 1..N : <<pos, reading, copy>> = run[k]
        BY <2>2, <4>2 DEF OnItsWay
      <4>4. run[N][2] = <<>> /\ run[k][2] = reading
        BY <2>2, <4>2, <4>3 DEF Met
      <4>5. k \in 1..(N - 1) /\ k + 1 \in 1..N
        BY <4>1, <4>4
      <4>6. run[k + 1] = <<pos', reading', copy'>>
        BY <2>2, <4>1, <4>3, <4>5 DEF Follows
      <4>7. run[k + 1][1] # 0
        BY <2>2, <4>5 DEF Follows
      <4>8. pos' # 0
        BY <4>6, <4>7
      <4> QED
        BY <2>1, <4>2, <4>5, <4>6, <4>8 DEF OnItsWay
    <3> QED
      BY <1>3, <3>1, <3>2
  <2> QED
    BY <2>1, <2>2 DEF CodecInv
<1>4. CASE DeserializeGap
  BY <1>4 DEF DeserializeGap, buffer, CodecInv
<1>5. CASE UNCHANGED codec
  BY <1>5 DEF codec, buffer, CodecInv, OnItsWay
<1> QED
  BY <1>1, <1>2, <1>3, <1>4, <1>5 DEF CodecNext

\* What has been read is what a reader that follows the writer holds, for every table.
THEOREM CodecInvariant == CodecSpec => []CodecInv
<1>1. CodecInit => CodecInv
  BY DEF CodecInit, CodecInv
<1> QED
  BY <1>1, CodecStep, PTL DEF CodecSpec

\* A table that LuaTable::Serialize wrote without running out of room in its ByteBuffer is the one
\* that Deserialize returns, if it has no more levels than MAX_DEPTH - 1, no metatable, no hole in
\* an array, and of negative integers none that needs 32 bits (those are written as u32).
THEOREM TablesArrive == CodecSpec => []RoundTrips
<1>1. CodecInv => RoundTrips
  <2> SUFFICES ASSUME CodecInv, copy # Nothing, ~lost, table \in Portable[MAX_DEPTH - 1]
               PROVE  copy = table
    BY DEF RoundTrips
  <2>1. table # Nothing
    BY DEF CodecInv
  <2>2. PICK N \in Nat \ {0} : \E run : /\ Follows(stream, run, N) /\ OnItsWay(run, N)
                                        /\ Met(open, run[N], stream, table)
    BY <2>1 DEF CodecInv
  <2>3. PICK run : /\ Follows(stream, run, N) /\ OnItsWay(run, N)
                   /\ Met(open, run[N], stream, table)
    BY <2>2
  <2>4. open = <<>> /\ \E k \in 1..N : <<pos, reading, copy>> = run[k]
    BY <2>3 DEF OnItsWay
  <2>5. PICK k \in 1..N : run[k][3] = copy
    BY <2>4
  <2>6. k = N
    <3>1. k \in 1..(N - 1) => run[k][3] = Nothing
      BY <2>3 DEF Follows
    <3> QED
      BY <2>5, <3>1
  <2> QED
    BY <2>3, <2>4, <2>5, <2>6 DEF Met
<1> QED
  BY <1>1, CodecInvariant, PTL
=============================================================================
