----------------------------- MODULE BoundedQueue -----------------------------
(***************************************************************************)
(* What a caller of RingQueue relies on: a queue of at most Capacity       *)
(* elements, first in, first out, and the results of its calls.            *)
(***************************************************************************)
EXTENDS Naturals, Sequences

CONSTANTS Elements, Capacity, Nil

VARIABLES queue, result

qvars == <<queue, result>>

Init == queue = <<>> /\ result = <<"new">>

Push(e) ==
  IF Len(queue) = Capacity
  THEN result' = <<"push", FALSE>> /\ UNCHANGED queue
  ELSE result' = <<"push", TRUE>> /\ queue' = Append(queue, e)

Pop == result' = <<"pop">> /\ queue' = IF queue = <<>> THEN queue ELSE Tail(queue)

Front == result' = <<"head", IF queue = <<>> THEN Nil ELSE Head(queue)>> /\ UNCHANGED queue

Size == result' = <<"size", Len(queue)>> /\ UNCHANGED queue

Next == Pop \/ Front \/ Size \/ \E e \in Elements : Push(e)

Spec == Init /\ [][Next]_qvars
=============================================================================
