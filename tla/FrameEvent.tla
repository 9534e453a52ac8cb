------------------------------ MODULE FrameEvent ------------------------------
(***************************************************************************)
(* FrameEvent: callbacks that wait for the beginning of the frame, for the *)
(* end of the message being handled or for the end of the frame.  Each of  *)
(* the three lists is walked and then cleared, and a callback may emit     *)
(* further ones while it runs, to the list that is being walked too.       *)
(*                                                                         *)
(* A callback is its number among those emitted to its list.               *)
(***************************************************************************)
EXTENDS Naturals, Sequences, SequencesExt

CONSTANT
  MaxEvents    (* bound: callbacks emitted to each list *)

ASSUME FrameEventAssumption == MaxEvents \in Nat

Lists == {"begin", "msg_end", "end"}

VARIABLES
  frame_pc,   (* where the frame is: in one of the Updates, or between them     *)
  lst_cb,     (* _lst_cb_begin, _lst_cb_msg_end, _lst_cb_end                    *)
  cb_at,      (* the callback of the walked list that runs, 0 before the first  *)
  (* history *)
  emitted,    (* how many callbacks each list was given                         *)
  cb_ran      (* the callbacks of each list that have run                       *)

events == <<frame_pc, lst_cb, cb_at, emitted, cb_ran>>

FrameEventTypeOK ==
  /\ frame_pc \in {"idle", "updated", "begin", "msg_end", "end"}
  /\ lst_cb \in [Lists -> Seq(Nat)]
  /\ cb_at \in Nat
  /\ emitted \in [Lists -> 0..MaxEvents]
  /\ cb_ran \in [Lists -> Seq(Nat)]

FrameEventInit ==
  /\ frame_pc = "idle" /\ cb_at = 0
  /\ lst_cb = [l \in Lists |-> <<>>]
  /\ emitted = [l \in Lists |-> 0]
  /\ cb_ran = lst_cb

\* EmitBegin, EmitMsgEnd, EmitEnd: from the frame's managers or from a callback.
Emit(l) ==
  /\ emitted[l] < MaxEvents
  /\ frame_pc \in Lists => cb_at > 0
  /\ emitted' = [emitted EXCEPT ![l] = @ + 1]
  /\ lst_cb' = [lst_cb EXCEPT ![l] = Append(@, emitted[l] + 1)]
  /\ UNCHANGED <<frame_pc, cb_at, cb_ran>>

\* The frame: UpdateBegin, the managers, UpdateMsgEnd after each message, UpdateEnd.
EnterUpdate(l) ==
  /\ frame_pc = IF l = "begin" THEN "idle" ELSE "updated"
  /\ frame_pc' = l
  /\ cb_at' = 0
  /\ UNCHANGED <<lst_cb, emitted, cb_ran>>

\* The loop runs up to the end the list has by then, and only then the list is cleared.
MoreToRunButLast(l) == cb_at + 1 < Len(lst_cb[l])
MoreToRun(l) == cb_at < Len(lst_cb[l])

RunNext(l) ==
  /\ frame_pc = l
  /\ MoreToRun(l)
  /\ cb_at' = cb_at + 1
  /\ cb_ran' = [cb_ran EXCEPT ![l] = Append(@, lst_cb[l][cb_at + 1])]
  /\ UNCHANGED <<frame_pc, lst_cb, emitted>>

ClearList(l) ==
  /\ frame_pc = l
  /\ ~MoreToRun(l)
  /\ lst_cb' = [lst_cb EXCEPT ![l] = <<>>]
  /\ frame_pc' = IF l = "end" THEN "idle" ELSE "updated"
  /\ cb_at' = 0
  /\ UNCHANGED <<emitted, cb_ran>>

FrameEventNext == \E l \in Lists : Emit(l) \/ EnterUpdate(l) \/ RunNext(l) \/ ClearList(l)

FrameEventSpec == FrameEventInit /\ [][FrameEventNext]_events
-----------------------------------------------------------------------------
(* Properties. *)

\* Every callback runs once, in the order in which its list was given them, and is in the list
\* until then; one that is emitted while its list is walked is not lost with the clear().
Waiting(l) == IF frame_pc = l THEN SubSeq(lst_cb[l], cb_at + 1, Len(lst_cb[l])) ELSE lst_cb[l]
EachEventOnce == \A l \in Lists : cb_ran[l] \o Waiting(l) = [n \in 1..emitted[l] |-> n]
=============================================================================
