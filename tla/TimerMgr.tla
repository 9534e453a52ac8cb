------------------------------- MODULE TimerMgr -------------------------------
(***************************************************************************)
(* TimerMgr, and the ScriptTimers that own its timers: one for each game   *)
(* object, which is destroyed with it.  All of it runs on the logic thread,*)
(* but a timer's callback is a script that may do anything in the middle of*)
(* Update: create timers, cancel them (its own too), destroy their owners. *)
(*                                                                         *)
(* A timer is its tid; `timer` has what the Timer struct has.  Update is   *)
(* cut before and after each callback.  It runs a timer while              *)
(* count_time + interval >= now, as the code does: until it is due.        *)
(***************************************************************************)
EXTENDS Naturals, Sequences, SequencesExt, FiniteSets

CONSTANTS
  Owners,      (* ScriptTimers                                  *)
  Intervals,   (* intervals a script asks for                   *)
  MaxTimers,   (* bound: timers created                         *)
  MaxTick      (* bound: the clock                              *)

ASSUME TimerAssumption ==
  /\ Intervals \subseteq Nat
  /\ MaxTimers \in Nat /\ MaxTick \in Nat

NoTimer == 0
Tids == 1..MaxTimers

VARIABLES
  tick,           (* get_current_tick                                        *)
  now,            (* Update's local of that name                             *)
  timer,          (* the Timers made so far; their number is the id maker    *)
  lstTimers,
  lstNewTimer,
  t_it,           (* Update's iterator, as an index                          *)
  in_process,
  calling,        (* the timer whose callback is running, or NoTimer         *)
  _script_timers, (* of each owner                                           *)
  destroyed,      (* owners whose destructor has run                         *)
  (* history *)
  canceled_tids,  (* timers CancelTimer has been called for                  *)
  fresh,          (* timers created since Update last began                  *)
  ran             (* timers that have run                                    *)

timers == <<tick, now, timer, lstTimers, lstNewTimer, t_it, in_process, calling, _script_timers,
            destroyed, canceled_tids, fresh, ran>>

TimerInit ==
  /\ tick = 0 /\ now = 0 /\ timer = <<>>
  /\ lstTimers = <<>> /\ lstNewTimer = <<>>
  /\ t_it = 1 /\ in_process = FALSE /\ calling = NoTimer
  /\ _script_timers = [o \in Owners |-> {}]
  /\ destroyed = {} /\ canceled_tids = {} /\ fresh = {} /\ ran = {}

Listed == ToSet(lstTimers) \cup ToSet(lstNewTimer)

TimersTypeOK ==
  /\ timer \in Seq([owner : Owners, count_time : Nat, interval : Nat, once : BOOLEAN,
                    canceled : BOOLEAN])
  /\ lstTimers \in Seq(DOMAIN timer) /\ lstNewTimer \in Seq(DOMAIN timer)
  /\ calling \in DOMAIN timer \cup {NoTimer}
  /\ in_process \in BOOLEAN
  /\ _script_timers \in [Owners -> SUBSET DOMAIN timer]
-----------------------------------------------------------------------------
(* What scripts do, between two Updates or in a callback. *)

ScriptRuns == in_process => calling # NoTimer

Clock ==
  /\ tick < MaxTick
  /\ tick' = tick + 1
  /\ UNCHANGED <<now, timer, lstTimers, lstNewTimer, t_it, in_process, calling, _script_timers,
                 destroyed, canceled_tids, fresh, ran>>

\* CreateTimer; a list that is being walked is left alone.
Enlist(tid) ==
  IF in_process
  THEN lstNewTimer' = Append(lstNewTimer, tid) /\ UNCHANGED lstTimers
  ELSE lstTimers' = Append(lstTimers, tid) /\ UNCHANGED lstNewTimer

\* ScriptTimer::Create passes its `loop` for CreateTimer's `once`.
Create(o, interval, loop) ==
  /\ ScriptRuns
  /\ o \notin destroyed
  /\ Len(timer) < MaxTimers
  /\ LET tid == Len(timer) + 1
     IN  /\ timer' = Append(timer, [owner |-> o, count_time |-> tick, interval |-> interval,
                                    once |-> loop, canceled |-> FALSE])
         /\ Enlist(tid)
         /\ _script_timers' = [_script_timers EXCEPT ![o] = @ \cup {tid}]
         /\ fresh' = fresh \cup {tid}
  /\ UNCHANGED <<tick, now, t_it, in_process, calling, destroyed, canceled_tids, ran>>

\* GetTimer looks into both lists, in the middle of Update too.
FoundOldOnly(S) == S \cap ToSet(lstTimers)
Found(S) == S \cap Listed

CancelTimers(S) ==
  /\ timer' = [t \in DOMAIN timer |->
                 [timer[t] EXCEPT !.canceled = @ \/ t \in Found(S)]]
  /\ canceled_tids' = canceled_tids \cup S

Cancel(o, tid) ==
  /\ ScriptRuns
  /\ o \notin destroyed
  /\ CancelTimers({tid})
  /\ _script_timers' = [_script_timers EXCEPT ![o] = @ \ {tid}]
  /\ UNCHANGED <<tick, now, lstTimers, lstNewTimer, t_it, in_process, calling, destroyed, fresh, ran>>

CancelAll(o) ==
  /\ CancelTimers(_script_timers[o])
  /\ _script_timers' = [_script_timers EXCEPT ![o] = {}]

CancelAllCall(o) ==
  /\ ScriptRuns
  /\ o \notin destroyed
  /\ CancelAll(o)
  /\ UNCHANGED <<tick, now, lstTimers, lstNewTimer, t_it, in_process, calling, destroyed, fresh, ran>>

\* The destructor of the owner's ScriptTimer.
Destroy(o) ==
  /\ ScriptRuns
  /\ o \notin destroyed
  /\ CancelAll(o)
  /\ destroyed' = destroyed \cup {o}
  /\ UNCHANGED <<tick, now, lstTimers, lstNewTimer, t_it, in_process, calling, fresh, ran>>

Script ==
  \/ \E o \in Owners, i \in Intervals, loop \in BOOLEAN : Create(o, i, loop)
  \/ \E o \in Owners : CancelAllCall(o) \/ Destroy(o) \/ \E tid \in DOMAIN timer : Cancel(o, tid)
-----------------------------------------------------------------------------
(* TimerMgr::Update. *)

TimerUpdateBegin ==
  /\ ~in_process
  /\ in_process' = TRUE
  /\ now' = tick
  /\ t_it' = 1
  /\ fresh' = {}
  /\ UNCHANGED <<tick, timer, lstTimers, lstNewTimer, calling, _script_timers, destroyed,
                 canceled_tids, ran>>

Walking == in_process /\ calling = NoTimer /\ t_it <= Len(lstTimers)
This == lstTimers[t_it]
Due(t) == timer[t].count_time + timer[t].interval >= now

Reap ==
  /\ Walking
  /\ timer[This].canceled
  /\ lstTimers' = RemoveAt(lstTimers, t_it)
  /\ UNCHANGED <<tick, now, timer, lstNewTimer, t_it, in_process, calling, _script_timers,
                 destroyed, canceled_tids, fresh, ran>>

RunsDue(t) == Due(t)
RunsTimer(t) == ~timer[t].canceled /\ Due(t)

Run ==
  /\ Walking
  /\ RunsTimer(This)
  /\ calling' = This
  /\ ran' = ran \cup {This}
  /\ UNCHANGED <<tick, now, timer, lstTimers, lstNewTimer, t_it, in_process, _script_timers,
                 destroyed, canceled_tids, fresh>>

Skip ==
  /\ Walking
  /\ ~timer[This].canceled /\ ~Due(This)
  /\ t_it' = t_it + 1
  /\ UNCHANGED <<tick, now, timer, lstTimers, lstNewTimer, in_process, calling, _script_timers,
                 destroyed, canceled_tids, fresh, ran>>

\* The callback returns; a timer that runs once is deleted and erased.
AfterRunKeeping == lstTimers' = lstTimers /\ t_it' = t_it + 1
AfterRun ==
  IF timer[calling].once
  THEN lstTimers' = RemoveAt(lstTimers, t_it) /\ UNCHANGED t_it
  ELSE t_it' = t_it + 1 /\ UNCHANGED lstTimers

Return ==
  /\ calling # NoTimer
  /\ timer' = [timer EXCEPT ![calling].count_time = now]
  /\ AfterRun
  /\ calling' = NoTimer
  /\ UNCHANGED <<tick, now, lstNewTimer, in_process, _script_timers, destroyed, canceled_tids,
                 fresh, ran>>

TimerUpdateEnd ==
  /\ in_process /\ calling = NoTimer /\ t_it > Len(lstTimers)
  /\ in_process' = FALSE
  /\ lstTimers' = lstTimers \o lstNewTimer
  /\ lstNewTimer' = <<>>
  /\ UNCHANGED <<tick, now, timer, t_it, calling, _script_timers, destroyed, canceled_tids, fresh, ran>>

TimerNext ==
  \/ Clock \/ Script
  \/ TimerUpdateBegin \/ Reap \/ Run \/ Skip \/ Return \/ TimerUpdateEnd

TimerSpec == TimerInit /\ [][TimerNext]_timers
-----------------------------------------------------------------------------
(* Properties. *)

Starts == calling' # calling /\ calling' # NoTimer

\* "do not run before remove" (timer.h:35): once a timer is cancelled its callback does not
\* start again, whether it was cancelled between Updates, by an earlier callback of the same
\* Update, by its own, or before the Update that created it was over.
CanceledStaysSilent == [][Starts => calling' \notin canceled_tids]_timers

\* A callback, which is bound to the ScriptTimer that made it, starts only while that object
\* exists.
OwnerIsThere == [][Starts => timer[calling'].owner \notin destroyed]_timers

\* A timer made by a callback waits for a later Update, and "run only one times before remove"
\* (timer.h:36) is kept.
RunsAsCreated ==
  [][Starts => /\ calling' \notin fresh
               /\ timer[calling'].once => calling' \notin ran]_timers
=============================================================================
