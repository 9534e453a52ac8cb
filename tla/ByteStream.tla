----------------------------- MODULE ByteStream -----------------------------
(***************************************************************************)
(* What the sending half of a session promises: the bytes handed to it     *)
(* come out in order, none twice and none left out in between; at any      *)
(* moment what is out is a prefix of what went in.                         *)
(***************************************************************************)
EXTENDS Naturals, Sequences, SequencesExt

VARIABLES
  input,   (* everything accepted for sending *)
  output   (* everything given to the network *)

Init == input = <<>> /\ output = <<>>

Accept == IsStrictPrefix(input, input') /\ UNCHANGED output

Transmit ==
  /\ IsStrictPrefix(output, output')
  /\ IsPrefix(output', input)
  /\ UNCHANGED input

Spec == Init /\ [][Accept \/ Transmit]_<<input, output>>
=============================================================================
