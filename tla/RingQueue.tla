------------------------------ MODULE RingQueue ------------------------------
(***************************************************************************)
(* RingQueue of the Lua base library: a ring of _QMAX slots, with the      *)
(* indices of its first and last element, both -1 when it is empty.        *)
(***************************************************************************)
EXTENDS Integers, Sequences

CONSTANTS
  Elements,    (* what is queued                                    *)
  QMAX,        (* _QMAX, 8 unless the constructor is given another  *)
  Nil          (* Lua's nil                                         *)

ASSUME RingAssumption == QMAX \in Nat \ {0} /\ Nil \notin Elements

VARIABLES
  _head, _tail,
  slot,        (* self[1], ..., self[_QMAX]     *)
  answer       (* the last call and its result  *)

ring == <<_head, _tail, slot, answer>>

RingInit ==
  /\ _head = -1 /\ _tail = -1
  /\ slot = [i \in 1..QMAX |-> Nil]
  /\ answer = <<"new">>

ptr_inc_mod(ptr) == (ptr + 1) % QMAX
ptr_inc(ptr) == IF ptr + 1 > QMAX THEN 1 ELSE ptr + 1

empty == _head = -1
full == ptr_inc(_tail) = _head

push(e) ==
  \/ full /\ answer' = <<"push", FALSE>> /\ UNCHANGED <<_head, _tail, slot>>
  \/ /\ ~full
     /\ answer' = <<"push", TRUE>>
     /\ IF empty
        THEN _head' = 1 /\ _tail' = 1
        ELSE _tail' = ptr_inc(_tail) /\ UNCHANGED _head
     /\ slot' = [slot EXCEPT ![_tail'] = e]

pop ==
  /\ answer' = <<"pop">>
  /\ IF empty \/ _head = _tail
     THEN _head' = -1 /\ _tail' = -1
     ELSE _head' = ptr_inc(_head) /\ UNCHANGED _tail
  /\ UNCHANGED slot

head ==
  /\ answer' = <<"head", IF empty THEN Nil ELSE slot[_head]>>
  /\ UNCHANGED <<_head, _tail, slot>>

count ==
  IF empty THEN 0
  ELSE IF _tail < _head THEN _tail - _head + QMAX + 1 ELSE _tail - _head + 1

size ==
  /\ answer' = <<"size", count>>
  /\ UNCHANGED <<_head, _tail, slot>>

RingNext == pop \/ head \/ size \/ \E e \in Elements : push(e)

RingSpec == RingInit /\ [][RingNext]_ring
-----------------------------------------------------------------------------
(* Properties. *)

RingTypeOK ==
  /\ \/ _head = -1 /\ _tail = -1
     \/ _head \in 1..QMAX /\ _tail \in 1..QMAX
  /\ slot \in [1..QMAX -> Elements \cup {Nil}]

\* The elements, from the first to the last, around the end of the ring.
At(i) == IF _head + i - 1 > QMAX THEN _head + i - 1 - QMAX ELSE _head + i - 1
Contents == [i \in 1..count |-> slot[At(i)]]

\* The ring behaves as a queue of _QMAX elements to every sequence of calls: what push, head
\* and size return as the indices go round, and nothing overwritten before it is popped.
Queue == INSTANCE BoundedQueue
           WITH queue <- Contents, result <- answer, Capacity <- QMAX
ImplementsQueue == Queue!Spec
=============================================================================
