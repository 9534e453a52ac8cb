------------------------------ MODULE Lifecycle ------------------------------
(***************************************************************************)
(* What one session promises to the frame loop that owns it, and all that  *)
(* the frame loop may rely on.  A session is touched by calls of Update    *)
(* only; it hands bytes to the application inside an Update and only while *)
(* it runs; an Update moves it at most one phase forward, as its last      *)
(* step; and it may be deleted only between two Updates, once CLOSED.      *)
(*                                                                         *)
(* The distance this puts between the last delivery and the deletion (one  *)
(* Update leaves RUNNING, a later one reaches CLOSED) is what keeps the    *)
(* owner of a queued message alive until the message is dispatched: see    *)
(* GameFrame.                                                              *)
(***************************************************************************)
EXTENDS Naturals

VARIABLES
  phase,      (* RUNNING, PRECLOSED, CLOSED, and DELETED once destroyed *)
  busy,       (* an Update of this session is in progress               *)
  delivered   (* how much the session has handed to the application     *)

vars == <<phase, busy, delivered>>

Phases == {"RUNNING", "PRECLOSED", "CLOSED", "DELETED"}

Follows(p, q) == <<p, q>> \in {<<"RUNNING", "PRECLOSED">>, <<"PRECLOSED", "CLOSED">>}

Init ==
  /\ phase = "RUNNING"
  /\ busy = FALSE
  /\ delivered = 0

Begin ==
  /\ ~busy
  /\ phase # "DELETED"
  /\ busy' = TRUE
  /\ UNCHANGED <<phase, delivered>>

Deliver ==
  /\ busy
  /\ phase = "RUNNING"
  /\ delivered' \in Nat
  /\ delivered' > delivered
  /\ UNCHANGED <<phase, busy>>

End ==
  /\ busy
  /\ busy' = FALSE
  /\ phase' = phase \/ Follows(phase, phase')
  /\ UNCHANGED delivered

Delete ==
  /\ ~busy
  /\ phase = "CLOSED"
  /\ phase' = "DELETED"
  /\ UNCHANGED <<busy, delivered>>

Next == Begin \/ Deliver \/ End \/ Delete

Spec == Init /\ [][Next]_vars
=============================================================================
