------------------------------- MODULE Message -------------------------------
(***************************************************************************)
(* Net::Message (messagequeue.h, messagequeue.cpp): a buffer with a        *)
(* capacity, a length it is to be filled to and what it holds so far.      *)
(* _curr_len is Len(data); the contents of a byte are left to the user of  *)
(* the module.                                                             *)
(***************************************************************************)
EXTENDS Naturals, Sequences

CONSTANT MaxBuffer   (* MAX_BUFFER_SIZE, which is also MEMORY_UNIT_SIZE *)

ASSUME MessageAssumption == MaxBuffer \in Nat \ {0}

NewMessage == [size |-> MaxBuffer, data_len |-> 0, data |-> <<>>]

\* A buffer that is too small is replaced by one of its size and the new one, rounded up.
GrownRoundingDown(size, wanted) ==
  IF wanted > size THEN (wanted \div MaxBuffer) * MaxBuffer ELSE size
Grown(size, wanted) ==
  IF wanted > size THEN size + (wanted \div MaxBuffer + 1) * MaxBuffer ELSE size

ResetKeepingData(m, wanted) ==
  [m EXCEPT !.size = Grown(m.size, wanted), !.data_len = wanted]
Reset(m, wanted) ==
  [size |-> Grown(m.size, wanted), data_len |-> wanted, data |-> <<>>]

Full(m) == m.data_len = Len(m.data)

\* One byte of the copy in Fill: its loop runs while the message has room and input is left.
Filled(m, byte) == [m EXCEPT !.data = Append(@, byte)]
=============================================================================
