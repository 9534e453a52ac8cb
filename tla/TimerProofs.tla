------------------------------ MODULE TimerProofs ------------------------------
(***************************************************************************)
(* What the frame's time sets off.  What TimerMgr promises of a callback   *)
(* that starts, whatever scripts do in the middle of Update: for every     *)
(* number of timers and owners.  And that the clock of Schedule announces  *)
(* each hour, day, week and month once: for every calendar, and however    *)
(* the looks at the clock fall.                                            *)
(***************************************************************************)
EXTENDS TimerMgr, Schedule, ListLemmas, FiniteSetTheorems, TLAPS

TimerRecord == [owner : Owners, count_time : Nat, interval : Nat, once : BOOLEAN, canceled : BOOLEAN]

\* The lists hold timers there are, and a callback that runs is at Update's iterator.
TimerListsOK ==
  /\ tick \in Nat /\ now \in Nat
  /\ timer \in Seq(TimerRecord)
  /\ lstTimers \in Seq(1..Len(timer)) /\ lstNewTimer \in Seq(1..Len(timer))
  /\ t_it \in Nat \ {0}
  /\ calling # NoTimer => in_process /\ t_it <= Len(lstTimers) /\ lstTimers[t_it] = calling

\* What a script may do between two callbacks' steps never takes a timer back: its owner and its
\* `once` stay, and a cancelled timer stays cancelled.
TimerGrows ==
  /\ Len(timer') \in {Len(timer), Len(timer) + 1}
  /\ \A t \in 1..Len(timer) : /\ timer'[t].owner = timer[t].owner
                              /\ timer'[t].once = timer[t].once
                              /\ timer[t].canceled => timer'[t].canceled

\* What is in the lists is a timer.
LEMMA ListedTimers ==
  ASSUME TimerListsOK
  PROVE  Listed \subseteq 1..Len(timer) /\ Len(timer) \in Nat /\ NoTimer \notin Listed
<1>1. /\ \A i \in DOMAIN lstTimers : lstTimers[i] \in 1..Len(timer)
      /\ \A i \in DOMAIN lstNewTimer : lstNewTimer[i] \in 1..Len(timer)
  BY ElementOfSeq, LenProperties DEF TimerListsOK
<1>2. Listed \subseteq 1..Len(timer)
  BY <1>1 DEF Listed, ToSet
<1>3. Len(timer) \in Nat
  BY DEF TimerListsOK
<1> QED
  BY <1>2, <1>3 DEF NoTimer

\* CancelTimers changes nothing but `canceled`, and sets it in what GetTimer finds.
LEMMA CancelTimersResult ==
  ASSUME TimerListsOK, NEW S, CancelTimers(S)
  PROVE  /\ timer' \in Seq(TimerRecord) /\ Len(timer') = Len(timer)
         /\ TimerGrows
         /\ \A t \in 1..Len(timer) : t \in S /\ t \in Listed => timer'[t].canceled
         /\ \A t \in 1..Len(timer) : timer'[t].canceled => timer[t].canceled \/ t \in S
<1> DEFINE new(t) == [timer[t] EXCEPT !.canceled = @ \/ t \in Found(S)]
<1>1. Len(timer) \in Nat /\ DOMAIN timer = 1..Len(timer) /\ \A t \in 1..Len(timer) : timer[t] \in TimerRecord
  BY DEF TimerListsOK
<1>2. timer' = [t \in 1..Len(timer) |-> new(t)]
  BY <1>1 DEF CancelTimers
<1>3. ASSUME NEW t \in 1..Len(timer)
      PROVE  /\ new(t) \in TimerRecord
             /\ new(t).owner = timer[t].owner /\ new(t).once = timer[t].once
             /\ new(t).canceled <=> timer[t].canceled \/ t \in Found(S)
  BY <1>1 DEF TimerRecord
<1> HIDE DEF new
<1>4. timer' \in Seq(TimerRecord) /\ Len(timer') = Len(timer) /\ \A t \in 1..Len(timer) : timer'[t] = new(t)
  BY <1>1, <1>2, <1>3
<1> QED
  BY <1>1, <1>3, <1>4 DEF TimerGrows, Found

\* A script cancels: one timer, or all of an owner's, of one that is destroyed too.
Cancels(S) ==
  /\ CancelTimers(S)
  /\ UNCHANGED <<tick, now, lstTimers, lstNewTimer, t_it, in_process, calling, fresh, ran>>

\* The three calls that cancel do just that.
LEMMA CancelsCases ==
  ASSUME NEW o \in Owners, NEW tid, Cancel(o, tid) \/ CancelAllCall(o) \/ Destroy(o)
  PROVE  \E S : Cancels(S)
BY DEF Cancel, CancelAllCall, Destroy, CancelAll, Cancels

\* New timers come from Create only; the lists and Update's iterator stay in step.
LEMMA TimerListsStep ==
  ASSUME TimerListsOK, [TimerNext]_timers
  PROVE  /\ TimerListsOK' /\ TimerGrows
         /\ \A t \in Listed' : t \in Listed \/ t = Len(timer) + 1
<1> USE TimerAssumption DEF TimerListsOK, NoTimer
<1>1. ASSUME UNCHANGED <<timer, lstTimers, lstNewTimer, t_it, in_process, calling>>,
             tick' \in Nat, now' \in Nat
      PROVE  TimerListsOK' /\ TimerGrows /\ Listed' = Listed
  BY <1>1 DEF TimerGrows, Listed
<1>2. CASE Clock \/ UNCHANGED timers
  BY <1>1, <1>2 DEF Clock, timers
<1>3. ASSUME NEW o \in Owners, NEW i \in Intervals, NEW loop \in BOOLEAN, Create(o, i, loop)
      PROVE  /\ TimerListsOK' /\ TimerGrows
             /\ \A t \in Listed' : t \in Listed \/ t = Len(timer) + 1
  <2> DEFINE r == [owner |-> o, count_time |-> tick, interval |-> i, once |-> loop, canceled |-> FALSE]
             n == Len(timer) + 1
  <2>1. /\ timer' = Append(timer, r) /\ Enlist(n)
        /\ UNCHANGED <<tick, now, t_it, in_process, calling>>
        /\ ScriptRuns
    BY <1>3 DEF Create
  <2>2. r \in TimerRecord
    BY DEF TimerRecord
  <2> HIDE DEF r
  <2>3. /\ timer' \in Seq(TimerRecord) /\ Len(timer') = n
        /\ \A t \in 1..Len(timer) : timer'[t] = timer[t]
    BY <2>1, <2>2
  <2>4. /\ lstTimers \in Seq(1..n) /\ lstNewTimer \in Seq(1..n) /\ n \in 1..n
    BY SeqMonotonic
  <2>5. CASE in_process
    <3>1. lstNewTimer' = Append(lstNewTimer, n) /\ lstTimers' = lstTimers
      BY <2>1, <2>5 DEF Enlist
    <3>2. lstNewTimer' \in Seq(1..n) /\ ToSet(lstNewTimer') = ToSet(lstNewTimer) \cup {n}
      <4> HIDE DEF n
      <4>1. /\ Append(lstNewTimer, n) \in Seq(1..n)
            /\ ToSet(Append(lstNewTimer, n)) = ToSet(lstNewTimer) \cup {n}
        BY ONLY <2>4, AppendSet
      <4> QED
        BY <3>1, <4>1
    <3> QED
      BY <2>1, <2>3, <2>4, <3>1, <3>2 DEF TimerGrows, Listed
  <2>6. CASE ~in_process
    <3>1. lstTimers' = Append(lstTimers, n) /\ lstNewTimer' = lstNewTimer /\ calling = NoTimer
      BY <2>1, <2>6 DEF Enlist
    <3>2. lstTimers' \in Seq(1..n) /\ ToSet(lstTimers') = ToSet(lstTimers) \cup {n}
      <4> HIDE DEF n
      <4>1. /\ Append(lstTimers, n) \in Seq(1..n)
            /\ ToSet(Append(lstTimers, n)) = ToSet(lstTimers) \cup {n}
        BY ONLY <2>4, AppendSet
      <4> QED
        BY <3>1, <4>1
    <3> QED
      BY <2>1, <2>3, <2>4, <3>1, <3>2 DEF TimerGrows, Listed
  <2> QED
    BY <2>5, <2>6
<1>4. ASSUME NEW S, Cancels(S)
      PROVE  TimerListsOK' /\ TimerGrows /\ Listed' = Listed
  BY <1>4, CancelTimersResult DEF Cancels, Listed
<1>5. CASE TimerUpdateBegin
  BY <1>5 DEF TimerUpdateBegin, TimerGrows, Listed
<1>6. CASE Reap
  <2>1. /\ lstTimers' = RemoveAt(lstTimers, t_it) /\ t_it \in 1..Len(lstTimers)
        /\ UNCHANGED <<tick, now, timer, lstNewTimer, t_it, in_process, calling>>
        /\ calling = NoTimer
    BY <1>6 DEF Reap, Walking
  <2>2. lstTimers' \in Seq(1..Len(timer)) /\ ToSet(lstTimers') \subseteq ToSet(lstTimers)
    BY <2>1, RemoveAtPlaces, RemoveAtSet
  <2> QED
    BY <2>1, <2>2 DEF TimerGrows, Listed
<1>7. CASE Run \/ Skip
  <2>1. /\ calling' \in {NoTimer, lstTimers[t_it]} /\ t_it' \in {t_it, t_it + 1}
        /\ calling' # NoTimer => t_it' = t_it /\ t_it <= Len(lstTimers) /\ calling' = lstTimers[t_it]
        /\ in_process /\ UNCHANGED <<tick, now, timer, lstTimers, lstNewTimer, in_process>>
    BY <1>7 DEF Run, Skip, Walking, This
  <2> QED
    BY <2>1 DEF TimerGrows, Listed
<1>8. CASE Return
  <2>1. /\ timer' = [timer EXCEPT ![calling].count_time = now]
        /\ calling \in 1..Len(timer) /\ t_it \in 1..Len(lstTimers) /\ calling' = NoTimer
        /\ UNCHANGED <<tick, now, lstNewTimer, in_process>>
    BY <1>8 DEF Return
  <2>2. timer[calling] \in TimerRecord
    BY <2>1
  <2>3. /\ [timer[calling] EXCEPT !.count_time = now] \in TimerRecord
        /\ [timer[calling] EXCEPT !.count_time = now].owner = timer[calling].owner
        /\ [timer[calling] EXCEPT !.count_time = now].once = timer[calling].once
        /\ [timer[calling] EXCEPT !.count_time = now].canceled = timer[calling].canceled
    BY <2>2 DEF TimerRecord
  <2>4. timer' = [timer EXCEPT ![calling] = [timer[calling] EXCEPT !.count_time = now]]
    BY <2>1
  <2>5. timer' \in Seq(TimerRecord) /\ Len(timer') = Len(timer) /\ TimerGrows
    BY <2>1, <2>3, <2>4 DEF TimerGrows
  <2>6. t_it' \in {t_it, t_it + 1} /\ (lstTimers' = lstTimers \/ lstTimers' = RemoveAt(lstTimers, t_it))
    BY <1>8 DEF Return, AfterRun
  <2>7. lstTimers' \in Seq(1..Len(timer)) /\ ToSet(lstTimers') \subseteq ToSet(lstTimers)
    BY <2>1, <2>6, RemoveAtPlaces, RemoveAtSet
  <2> QED
    BY <2>1, <2>5, <2>6, <2>7 DEF Listed
<1>9. CASE TimerUpdateEnd
  <2>1. /\ lstTimers' = lstTimers \o lstNewTimer /\ lstNewTimer' = <<>> /\ calling = NoTimer
        /\ UNCHANGED <<tick, now, timer, t_it, calling>>
    BY <1>9 DEF TimerUpdateEnd
  <2>2. /\ lstTimers' \in Seq(1..Len(timer))
        /\ ToSet(lstTimers') = ToSet(lstTimers) \cup ToSet(lstNewTimer)
    BY <2>1, ConcatSet
  <2>3. ToSet(<<>>) = {}
    BY DEF ToSet
  <2> QED
    BY <2>1, <2>2, <2>3 DEF TimerGrows, Listed
<1> QED
  BY <1>2, <1>3, <1>4, <1>5, <1>6, <1>7, <1>8, <1>9, CancelsCases DEF TimerNext, Script
-----------------------------------------------------------------------------
(* Cancelled timers. *)

\* A timer that CancelTimer was called for, and that is still in a list, is marked.
CanceledInv ==
  /\ canceled_tids \subseteq 1..Len(timer)
  /\ \A t \in canceled_tids : t \in Listed => timer[t].canceled

\* Every action keeps it.
LEMMA CanceledStep ==
  ASSUME TimerListsOK, CanceledInv, [TimerNext]_timers, _script_timers \in [Owners -> SUBSET (1..Len(timer))]
  PROVE  CanceledInv'
<1>1. ASSUME UNCHANGED canceled_tids
      PROVE  CanceledInv'
  BY <1>1, TimerListsStep DEF CanceledInv, TimerGrows, TimerListsOK
<1>2. ASSUME NEW S \in SUBSET (1..Len(timer)), CancelTimers(S), UNCHANGED <<lstTimers, lstNewTimer>>
      PROVE  CanceledInv'
  BY <1>2, CancelTimersResult DEF CanceledInv, CancelTimers, TimerGrows, Listed
<1>3. ASSUME NEW o \in Owners, NEW tid \in DOMAIN timer, Cancel(o, tid)
      PROVE  CanceledInv'
  BY <1>2, <1>3 DEF Cancel, TimerListsOK
<1>4. ASSUME NEW o \in Owners, CancelAllCall(o) \/ Destroy(o)
      PROVE  CanceledInv'
  BY <1>2, <1>4 DEF CancelAllCall, Destroy, CancelAll
<1> QED
  BY <1>1, <1>3, <1>4
     DEF TimerNext, Script, Clock, Create, TimerUpdateBegin, Reap, Run, Skip, Return,
         TimerUpdateEnd, timers
-----------------------------------------------------------------------------
(* Owners. *)

\* What an owner may still be called for is among its _script_timers, and one that is gone has
\* none.
OwnerInv ==
  /\ _script_timers \in [Owners -> SUBSET (1..Len(timer))]
  /\ \A t \in Listed : timer[t].canceled \/ t \in _script_timers[timer[t].owner]
  /\ \A o \in destroyed : _script_timers[o] = {}
  /\ destroyed \subseteq Owners

\* Every action keeps it.
LEMMA OwnerStep == TimerListsOK /\ OwnerInv /\ [TimerNext]_timers => OwnerInv'
<1> SUFFICES ASSUME TimerListsOK, OwnerInv, [TimerNext]_timers
             PROVE  OwnerInv'
  OBVIOUS
<1>1. ASSUME UNCHANGED <<_script_timers, destroyed>>, Listed' \subseteq Listed
      PROVE  OwnerInv'
  <2>1. Listed \subseteq 1..Len(timer)
    BY ListedTimers
  <2>2. TimerGrows /\ Len(timer) \in Nat
    BY TimerListsStep DEF TimerListsOK
  <2> QED
    BY <1>1, <2>1, <2>2 DEF OwnerInv, TimerGrows
<1>2. ASSUME NEW o \in Owners, NEW i \in Intervals, NEW loop \in BOOLEAN, Create(o, i, loop)
      PROVE  OwnerInv'
  <2> DEFINE n == Len(timer) + 1
  <2>1. /\ o \notin destroyed /\ UNCHANGED destroyed
        /\ _script_timers' = [_script_timers EXCEPT ![o] = @ \cup {n}]
        /\ Len(timer) \in Nat /\ Len(timer') = n /\ timer'[n].owner = o
    BY <1>2 DEF Create, TimerListsOK
  <2>2. Listed \subseteq 1..Len(timer)
    BY ListedTimers
  <2>3. TimerGrows /\ \A t \in Listed' : t \in Listed \/ t = n
    BY TimerListsStep
  <2>4. _script_timers' \in [Owners -> SUBSET (1..n)]
    BY <2>1 DEF OwnerInv
  <2>5. \A t \in Listed' : timer'[t].canceled \/ t \in _script_timers'[timer'[t].owner]
    <3> SUFFICES ASSUME NEW t \in Listed'
                 PROVE  timer'[t].canceled \/ t \in _script_timers'[timer'[t].owner]
      OBVIOUS
    <3>1. CASE t = n
      BY <2>1, <3>1 DEF OwnerInv
    <3>2. CASE t \in Listed
      <4>1. timer[t] \in TimerRecord
        BY <2>2, <3>2, ElementOfSeq DEF TimerListsOK
      <4>2. timer[t].owner \in Owners
        BY <4>1 DEF TimerRecord
      <4> QED
        BY <2>1, <2>2, <2>3, <3>2, <4>2 DEF OwnerInv, TimerGrows
    <3> QED
      BY <2>3, <3>1, <3>2
  <2> QED
    BY <2>1, <2>4, <2>5 DEF OwnerInv
<1>3. ASSUME NEW o \in Owners, NEW tid \in DOMAIN timer, Cancel(o, tid)
      PROVE  OwnerInv'
  <2>1. /\ CancelTimers({tid}) /\ UNCHANGED <<lstTimers, lstNewTimer, destroyed>>
        /\ _script_timers' = [_script_timers EXCEPT ![o] = @ \ {tid}]
    BY <1>3 DEF Cancel
  <2>2. Listed' = Listed /\ Listed \subseteq 1..Len(timer)
    BY <2>1, ListedTimers DEF Listed
  <2>3. /\ Len(timer') = Len(timer) /\ TimerGrows
        /\ \A t \in 1..Len(timer) : t \in {tid} /\ t \in Listed => timer'[t].canceled
    BY <2>1, CancelTimersResult
  <2> QED
    BY <2>1, <2>2, <2>3 DEF OwnerInv, TimerGrows
<1>4. ASSUME NEW o \in Owners, CancelAllCall(o) \/ Destroy(o)
      PROVE  OwnerInv'
  <2>1. /\ CancelTimers(_script_timers[o]) /\ UNCHANGED <<lstTimers, lstNewTimer>>
        /\ _script_timers' = [_script_timers EXCEPT ![o] = {}]
        /\ destroyed' \in {destroyed, destroyed \cup {o}}
    BY <1>4 DEF CancelAllCall, Destroy, CancelAll
  <2>2. Listed' = Listed /\ Listed \subseteq 1..Len(timer)
    BY <2>1, ListedTimers DEF Listed
  <2>3. /\ Len(timer') = Len(timer) /\ TimerGrows
        /\ \A t \in 1..Len(timer) : t \in _script_timers[o] /\ t \in Listed => timer'[t].canceled
    BY <2>1, CancelTimersResult
  <2> QED
    BY <2>1, <2>2, <2>3 DEF OwnerInv, TimerGrows
<1>5. CASE \/ Clock \/ TimerUpdateBegin \/ Reap \/ Run \/ Skip \/ Return \/ TimerUpdateEnd
           \/ UNCHANGED timers
  <2>1. UNCHANGED <<_script_timers, destroyed>> /\ Len(timer') = Len(timer)
    BY <1>5 DEF Clock, TimerUpdateBegin, Reap, Run, Skip, Return, TimerUpdateEnd, timers,
                TimerListsOK
  <2>2. Listed' \subseteq 1..Len(timer)
    <3>1. TimerListsOK'
      BY TimerListsStep
    <3>2. \A i \in DOMAIN lstTimers' : lstTimers'[i] \in 1..Len(timer')
      BY <3>1, ElementOfSeq, LenProperties DEF TimerListsOK
    <3>3. \A i \in DOMAIN lstNewTimer' : lstNewTimer'[i] \in 1..Len(timer')
      BY <3>1, ElementOfSeq, LenProperties DEF TimerListsOK
    <3> QED
      BY <2>1, <3>2, <3>3 DEF Listed, ToSet
  <2>3. Listed' \subseteq Listed
    BY <2>2, TimerListsStep DEF TimerListsOK
  <2> QED
    BY <1>1, <2>1, <2>3
<1> QED
  BY <1>2, <1>3, <1>4, <1>5 DEF TimerNext, Script

-----------------------------------------------------------------------------
(* Timers that run once, and timers made by a callback. *)

\* A timer is at one place of one list; one that runs once and has run is only there while its
\* callback is running; and what was made since Update began is not in the list it walks.
OnceInv ==
  /\ Distinct(lstTimers) /\ Distinct(lstNewTimer)
  /\ ToSet(lstTimers) \cap ToSet(lstNewTimer) = {}
  /\ ran \subseteq 1..Len(timer)
  /\ \A t \in Listed \cap ran : timer[t].once => t = calling
  /\ in_process => fresh \cap ToSet(lstTimers) = {}

\* Every action keeps it.
LEMMA OnceStep == TimerListsOK /\ OnceInv /\ [TimerNext]_timers => OnceInv'
<1> SUFFICES ASSUME TimerListsOK, OnceInv, [TimerNext]_timers
             PROVE  OnceInv'
  OBVIOUS
<1>0. /\ Listed \subseteq 1..Len(timer) /\ Len(timer) \in Nat
      /\ TimerGrows /\ TimerListsOK'
  BY ListedTimers, TimerListsStep
<1>1. ASSUME UNCHANGED <<lstTimers, lstNewTimer, calling, ran>>,
             fresh' \in {fresh, {}}, in_process' => in_process \/ fresh' = {}
      PROVE  OnceInv'
  <2>1. UNCHANGED Listed
    BY <1>1 DEF Listed
  <2> QED
    BY <1>0, <1>1, <2>1 DEF OnceInv, TimerGrows
<1>2. CASE Clock \/ TimerUpdateBegin \/ Skip \/ UNCHANGED timers
  BY <1>1, <1>2 DEF Clock, TimerUpdateBegin, Skip, timers
<1>3. ASSUME NEW o \in Owners, NEW tid, Cancel(o, tid) \/ CancelAllCall(o) \/ Destroy(o)
      PROVE  OnceInv'
  BY <1>1, <1>3 DEF Cancel, CancelAllCall, Destroy
<1>4. ASSUME NEW o \in Owners, NEW i \in Intervals, NEW loop \in BOOLEAN, Create(o, i, loop)
      PROVE  OnceInv'
  <2> DEFINE n == Len(timer) + 1
  <2>1. /\ Enlist(n) /\ fresh' = fresh \cup {n} /\ Len(timer') = n
        /\ UNCHANGED <<in_process, calling, ran>>
    BY <1>4 DEF Create, TimerListsOK
  <2>2. n \notin Listed /\ n \notin ran /\ n \in 1..n
    BY <1>0 DEF OnceInv
  <2>3. lstTimers \in Seq(1..n) /\ lstNewTimer \in Seq(1..n)
    BY <1>0, SeqMonotonic DEF TimerListsOK
  <2>4. \A t \in 1..Len(timer) : timer'[t].once = timer[t].once
    BY <1>0 DEF TimerGrows
  <2>5. ran' \subseteq 1..Len(timer')
    BY <1>0, <2>1 DEF OnceInv
  <2> HIDE DEF n
  <2>6. CASE in_process
    <3>1. lstNewTimer' = Append(lstNewTimer, n) /\ lstTimers' = lstTimers
      BY <2>1, <2>6 DEF Enlist
    <3>0. Distinct(lstNewTimer) /\ n \notin ToSet(lstNewTimer)
      BY <2>2 DEF OnceInv, Listed
    <3>2. Distinct(lstNewTimer') /\ ToSet(lstNewTimer') = ToSet(lstNewTimer) \cup {n}
      BY ONLY <2>2, <2>3, <3>0, <3>1, AppendSet, AppendDistinct
    <3> QED
      BY <1>0, <2>1, <2>2, <2>4, <2>5, <2>6, <3>1, <3>2 DEF OnceInv, Listed
  <2>7. CASE ~in_process
    <3>1. lstTimers' = Append(lstTimers, n) /\ lstNewTimer' = lstNewTimer
      BY <2>1, <2>7 DEF Enlist
    <3>0. Distinct(lstTimers) /\ n \notin ToSet(lstTimers)
      BY <2>2 DEF OnceInv, Listed
    <3>2. Distinct(lstTimers') /\ ToSet(lstTimers') = ToSet(lstTimers) \cup {n}
      BY ONLY <2>2, <2>3, <3>0, <3>1, AppendSet, AppendDistinct
    <3> QED
      BY <1>0, <2>1, <2>2, <2>4, <2>5, <2>7, <3>1, <3>2 DEF OnceInv, Listed
  <2> QED
    BY <2>6, <2>7
<1>5. CASE Reap
  <2>1. /\ lstTimers' = RemoveAt(lstTimers, t_it) /\ t_it \in 1..Len(lstTimers)
        /\ UNCHANGED <<timer, lstNewTimer, in_process, calling, fresh, ran>>
    BY <1>5 DEF Reap, Walking, TimerListsOK
  <2>2. Distinct(lstTimers') /\ ToSet(lstTimers') \subseteq ToSet(lstTimers)
    BY <2>1, RemoveAtSet, RemoveAtDistinct DEF OnceInv, TimerListsOK
  <2> QED
    BY <2>1, <2>2 DEF OnceInv, Listed
<1>6. CASE Run
  <2>1. /\ calling' = This /\ calling = NoTimer /\ ran' = ran \cup {This} /\ t_it \in 1..Len(lstTimers)
        /\ UNCHANGED <<timer, lstTimers, lstNewTimer, in_process, fresh>>
    BY <1>6 DEF Run, Walking, TimerListsOK
  <2>2. This \in Listed /\ NoTimer \notin Listed
    <3>1. t_it \in DOMAIN lstTimers
      BY <2>1, LenProperties DEF TimerListsOK
    <3> QED
      BY <3>1, ListedTimers DEF This, Listed, ToSet
  <2> QED
    BY <1>0, <2>1, <2>2 DEF OnceInv, Listed
<1>7. CASE Return
  <2>1. /\ t_it \in 1..Len(lstTimers) /\ lstTimers[t_it] = calling /\ calling' = NoTimer
        /\ calling \in 1..Len(timer) /\ Len(timer') = Len(timer)
        /\ UNCHANGED <<lstNewTimer, in_process, fresh, ran>>
    BY <1>7 DEF Return, TimerListsOK
  <2>2. \A t \in 1..Len(timer) : timer'[t].once = timer[t].once
    BY <1>0 DEF TimerGrows
  <2>3. CASE timer[calling].once
    <3>1. lstTimers' = RemoveAt(lstTimers, t_it)
      BY <1>7, <2>3 DEF Return, AfterRun
    <3>2. Distinct(lstTimers') /\ ToSet(lstTimers') \subseteq ToSet(lstTimers) \ {calling}
      BY <2>1, <3>1, RemoveAtSet, RemoveAtDistinct DEF OnceInv, TimerListsOK
    <3>3. calling \in ToSet(lstTimers)
      BY <2>1, LenProperties DEF ToSet, TimerListsOK
    <3> QED
      BY <1>0, <2>1, <2>2, <3>2, <3>3 DEF OnceInv, Listed
  <2>4. CASE ~timer[calling].once
    <3>1. lstTimers' = lstTimers
      BY <1>7, <2>4 DEF Return, AfterRun
    <3> QED
      BY <1>0, <2>1, <2>2, <2>4, <3>1 DEF OnceInv, Listed
  <2> QED
    BY <2>3, <2>4
<1>8. CASE TimerUpdateEnd
  <2>1. /\ lstTimers' = lstTimers \o lstNewTimer /\ lstNewTimer' = <<>> /\ ~in_process'
        /\ UNCHANGED <<timer, calling, ran>>
    BY <1>8 DEF TimerUpdateEnd
  <2>2. /\ Distinct(lstTimers')
        /\ ToSet(lstTimers') = ToSet(lstTimers) \cup ToSet(lstNewTimer)
    BY <2>1, ConcatSet, ConcatDistinct DEF OnceInv, TimerListsOK
  <2>3. ToSet(<<>>) = {} /\ Distinct(<<>>)
    BY DEF ToSet, Distinct
  <2> QED
    BY <2>1, <2>2, <2>3 DEF OnceInv, Listed
<1> QED
  BY <1>2, <1>3, <1>4, <1>5, <1>6, <1>7, <1>8 DEF TimerNext, Script
-----------------------------------------------------------------------------
(* The theorems. *)

TimerInv == TimerListsOK /\ CanceledInv /\ OwnerInv /\ OnceInv

\* The lists, the marks of cancelled timers, the owners' own lists and the bookkeeping of what
\* has run stay consistent, whatever scripts do in the middle of Update.
THEOREM TimerInvariant == TimerSpec => []TimerInv
<1>1. TimerInit => TimerInv
  BY DEF TimerInit, TimerInv, TimerListsOK, CanceledInv, OwnerInv, OnceInv, Listed, ToSet, Distinct,
         NoTimer
<1>2. TimerInv /\ [TimerNext]_timers => TimerInv'
  BY TimerListsStep, CanceledStep, OwnerStep, OnceStep DEF TimerInv, OwnerInv
<1> QED
  BY <1>1, <1>2, PTL DEF TimerSpec

\* A callback starts only in Run, which has looked at its timer.
LEMMA StartsIsRun ==
  ASSUME TimerInv, [TimerNext]_timers, Starts
  PROVE  /\ calling' \in ToSet(lstTimers) /\ calling' \in 1..Len(timer) /\ in_process
         /\ calling = NoTimer /\ ~timer[calling'].canceled
<1>1. Run
  BY DEF Starts, TimerNext, Script, Clock, Create, Cancel, CancelAllCall, Destroy,
         TimerUpdateBegin, Reap, Skip, Return, TimerUpdateEnd, timers
<1>2. /\ calling' = lstTimers[t_it] /\ t_it \in 1..Len(lstTimers) /\ in_process
      /\ calling = NoTimer /\ ~timer[calling'].canceled
  BY <1>1 DEF Run, Walking, This, RunsTimer, TimerInv, TimerListsOK
<1> QED
  BY <1>2, LenProperties DEF TimerInv, TimerListsOK, ToSet

\* A cancelled timer's callback does not start again.
THEOREM TimerCanceledStaysSilent == TimerSpec => CanceledStaysSilent
<1>1. TimerInv /\ [TimerNext]_timers => [Starts => calling' \notin canceled_tids]_timers
  BY StartsIsRun DEF TimerInv, CanceledInv, Listed
<1> QED
  BY <1>1, TimerInvariant, PTL DEF TimerSpec, CanceledStaysSilent

\* A callback starts only while the ScriptTimer it is bound to exists.
THEOREM TimerOwnerIsThere == TimerSpec => OwnerIsThere
<1>1. TimerInv /\ [TimerNext]_timers => [Starts => timer[calling'].owner \notin destroyed]_timers
  BY StartsIsRun DEF TimerInv, OwnerInv, Listed
<1> QED
  BY <1>1, TimerInvariant, PTL DEF TimerSpec, OwnerIsThere

\* A timer that runs once does not run twice, and one made in an Update waits for a later one.
THEOREM TimerRunsAsCreated == TimerSpec => RunsAsCreated
<1>1. TimerInv /\ [TimerNext]_timers =>
        [Starts => /\ calling' \notin fresh
                   /\ timer[calling'].once => calling' \notin ran]_timers
  <2> SUFFICES ASSUME TimerInv, [TimerNext]_timers, Starts
               PROVE  calling' \notin fresh /\ (timer[calling'].once => calling' \notin ran)
    OBVIOUS
  <2> QED
    BY StartsIsRun DEF TimerInv, OnceInv, Listed, Starts
<1> QED
  BY <1>1, TimerInvariant, PTL DEF TimerSpec, RunsAsCreated
-----------------------------------------------------------------------------
(* The clock. *)

\* What \div and % promise.
LEMMA DivModBounds ==
  ASSUME NEW u \in Nat \ {0}, NEW n \in Nat
  PROVE  /\ n \div u \in Nat /\ n % u \in 0..(u - 1)
         /\ (n \div u) * u \in Nat /\ n = (n \div u) * u + (n % u)
  OBVIOUS

\* The multiple of the unit below a number tells its quotient and its remainder.
LEMMA DivModUnique ==
  ASSUME NEW u \in Nat \ {0}, NEW n \in Nat, NEW q \in Nat, NEW r \in 0..(u - 1), n = q * u + r
  PROVE  n \div u = q /\ n % u = r
<1> DEFINE p == n \div u
           s == n % u
<1>1. p \in Nat /\ s \in 0..(u - 1) /\ p * u \in Nat /\ n = p * u + s
  BY DivModBounds
<1> HIDE DEF p, s
<1>2. q * u \in Nat /\ (q + 1) * u = q * u + u /\ (p + 1) * u = p * u + u
  BY <1>1
<1>3. ~(p >= q + 1)
  <2> SUFFICES ASSUME p >= q + 1
               PROVE  FALSE
    OBVIOUS
  <2>1. p * u >= (q + 1) * u
    BY <1>1
  <2> QED
    BY <1>1, <1>2, <2>1
<1>4. ~(q >= p + 1)
  <2> SUFFICES ASSUME q >= p + 1
               PROVE  FALSE
    OBVIOUS
  <2>1. q * u >= (p + 1) * u
    BY <1>1
  <2> QED
    BY <1>1, <1>2, <2>1
<1>5. p = q
  BY <1>1, <1>3, <1>4
<1>6. s = r
  BY <1>1, <1>2, <1>5
<1> QED
  BY <1>5, <1>6 DEF p, s

\* The next number is in the same unit, or begins the next one.
LEMMA DivNext ==
  ASSUME NEW u \in Nat \ {0}, NEW n \in Nat
  PROVE  /\ (n + 1) \div u = IF (n + 1) % u = 0 THEN n \div u + 1 ELSE n \div u
         /\ u > 1 => (n + 1) % u # n % u
<1> DEFINE q == n \div u
           r == n % u
<1>1. q \in Nat /\ r \in 0..(u - 1) /\ q * u \in Nat /\ n = q * u + r
  BY DivModBounds
<1> HIDE DEF q, r
<1>2. (q + 1) * u = q * u + u
  BY <1>1
<1>3. CASE r = u - 1
  <2>1. n + 1 = (q + 1) * u + 0 /\ 0 \in 0..(u - 1) /\ q + 1 \in Nat
    BY <1>1, <1>2, <1>3
  <2>2. (n + 1) \div u = q + 1 /\ (n + 1) % u = 0
    BY <2>1, DivModUnique
  <2> QED
    BY <1>3, <2>2 DEF q, r
<1>4. CASE r # u - 1
  <2>1. n + 1 = q * u + (r + 1) /\ r + 1 \in 0..(u - 1)
    BY <1>1, <1>4
  <2>2. (n + 1) \div u = q /\ (n + 1) % u = r + 1
    BY <1>1, <2>1, DivModUnique
  <2> QED
    BY <1>1, <2>2 DEF q, r
<1> QED
  BY <1>3, <1>4

\* Two numbers no more than a unit apart are in the same unit or in one and the next.
LEMMA DivWithin ==
  ASSUME NEW u \in Nat \ {0}, NEW m \in Nat, NEW n \in Nat, m <= n, n - m <= u
  PROVE  n \div u = m \div u \/ n \div u = m \div u + 1
<1> DEFINE q == m \div u
           r == m % u
           d == r + (n - m)
<1>1. q \in Nat /\ r \in 0..(u - 1) /\ q * u \in Nat /\ m = q * u + r
  BY DivModBounds
<1> HIDE DEF q, r
<1>2. (q + 1) * u = q * u + u /\ n = q * u + d /\ d \in 0..(u + u - 1)
  BY <1>1
<1> HIDE DEF d
<1>3. CASE d < u
  <2>1. d \in 0..(u - 1)
    BY <1>2, <1>3
  <2> QED
    BY <1>1, <1>2, <2>1, DivModUnique DEF q
<1>4. CASE d >= u
  <2>1. n = (q + 1) * u + (d - u) /\ d - u \in 0..(u - 1) /\ q + 1 \in Nat
    BY <1>1, <1>2, <1>4
  <2>2. n \div u = q + 1
    BY <2>1, DivModUnique
  <2> QED
    BY <2>2 DEF q
<1> QED
  BY <1>2, <1>3, <1>4

\* The last look at the clock; before the first, the time the object was made.
LastLook == IF last_update_t = 0 THEN start_t ELSE last_update_t

\* The days of an interval that are in a set, and the sets of those on which a week and a month,
\* or a week, a month and a year, begin together.
Among(B, from, to) == {d \in (from + 1)..to : d \in B}
MonthFirsts == {d \in Nat : BeginsMonth(d)}
YearFirsts == {d \in Nat : BeginsYear(d)}

\* A look finds the clock no more than a frame and the throttle after the last one, and what was
\* announced are the units that began since the object was made.
ScheduleInv ==
  /\ time \in Nat /\ start_t \in Nat /\ last_update_t \in Nat
  /\ last_update_t = 0 => time = start_t
  /\ start_t = 0 => last_update_t = 0
  /\ start_t <= LastLook /\ LastLook <= time /\ time - LastLook <= Throttle
  /\ start_t # 0 => curr_hour = Hour(LastLook)
  /\ new_hours = HourNo(LastLook) - HourNo(start_t)
  /\ new_days = DayNo(LastLook) - DayNo(start_t)
  /\ new_weeks = DayNo(LastLook) \div WeekDays - DayNo(start_t) \div WeekDays
  /\ new_months = Cardinality(Among(MonthFirsts, DayNo(start_t), DayNo(LastLook)))
  /\ new_years = Cardinality(Among(YearFirsts, DayNo(start_t), DayNo(LastLook)))

\* If the next day is in the set, there is one more.
LEMMA AmongNext ==
  ASSUME NEW B, NEW f \in Nat, NEW d \in Nat, f <= d
  PROVE  /\ Among(B, f, f) = {}
         /\ Cardinality(Among(B, f, d)) \in Nat
         /\ Cardinality(Among(B, f, d + 1)) = Cardinality(Among(B, f, d)) + Count(d + 1 \in B)
<1> DEFINE A == Among(B, f, d)
<1>1. Among(B, f, f) = {}
  BY DEF Among
<1>2. IsFiniteSet(A) /\ Cardinality(A) \in Nat
  <2>1. IsFiniteSet((f + 1)..d)
    BY FS_Interval
  <2>2. A \subseteq (f + 1)..d
    BY DEF Among
  <2> QED
    BY <2>1, <2>2, FS_Subset, FS_CardinalityType
<1>3. (f + 1)..(d + 1) = ((f + 1)..d) \cup {d + 1} /\ d + 1 \notin (f + 1)..d
  OBVIOUS
<1>4. CASE d + 1 \in B
  <2>1. Among(B, f, d + 1) = A \cup {d + 1} /\ d + 1 \notin A
    BY <1>3, <1>4 DEF Among
  <2>2. Cardinality(A \cup {d + 1}) = Cardinality(A) + 1
    BY <1>2, <2>1, FS_AddElement
  <2> QED
    BY <1>1, <1>2, <1>4, <2>1, <2>2 DEF Count
<1>5. CASE d + 1 \notin B
  <2>1. Among(B, f, d + 1) = A
    BY <1>3, <1>5 DEF Among
  <2> QED
    BY <1>1, <1>2, <1>5, <2>1 DEF Count
<1> QED
  BY <1>4, <1>5

\* The numbers of the hour, the day and the week of a time.
LEMMA CalendarTypes ==
  ASSUME NEW t \in Nat
  PROVE  /\ HourNo(t) \in Nat /\ DayNo(t) \in Nat /\ DayNo(t) \div WeekDays \in Nat
         /\ Hour(t) \in Nat /\ WDay(t) \in Nat /\ MDay(t) \in Nat
<1>0. HourTicks \in Nat \ {0} /\ DayHours \in Nat \ {0} /\ WeekDays \in Nat \ {0} /\ MonthDays \in Nat \ {0}
  BY ScheduleAssumption
<1>1. HourNo(t) \in Nat
  BY <1>0, DivModBounds DEF HourNo
<1>2. DayNo(t) \in Nat /\ Hour(t) \in Nat
  <2> HIDE DEF HourNo
  <2> QED
    BY <1>0, <1>1, DivModBounds DEF DayNo, Hour
<1>3. DayNo(t) \div WeekDays \in Nat /\ WDay(t) \in Nat /\ MDay(t) \in Nat
  <2> DEFINE d == DayNo(t)
  <2>1. d \in Nat
    BY <1>2
  <2>2. WDay(t) = d % WeekDays /\ MDay(t) = d % MonthDays
    BY DEF WDay, MDay
  <2> HIDE DEF d
  <2>3. d \div WeekDays \in Nat /\ d % WeekDays \in Nat /\ d % MonthDays \in Nat
    BY <1>0, <2>1, DivModBounds
  <2> QED
    BY <2>2, <2>3 DEF d
<1> QED
  BY <1>1, <1>2, <1>3

\* Later times are in no earlier a day.
LEMMA DaysGoOn ==
  ASSUME NEW s \in Nat, NEW t \in Nat, s <= t
  PROVE  DayNo(s) <= DayNo(t)
<1>1. ASSUME NEW u \in Nat \ {0}, NEW m \in Nat, NEW n \in Nat, m <= n
      PROVE  m \div u <= n \div u
  <2> DEFINE p == m \div u
             q == n \div u
  <2>1. /\ p \in Nat /\ q \in Nat /\ p * u <= m /\ n < q * u + u
    BY DivModBounds
  <2> HIDE DEF p, q
  <2>2. p <= q
    <3> SUFFICES ASSUME p >= q + 1
                 PROVE  FALSE
      BY <2>1
    <3>1. p * u >= (q + 1) * u
      BY <2>1
    <3>2. (q + 1) * u = q * u + u
      BY <2>1
    <3> QED
      BY <1>1, <2>1, <3>1, <3>2
  <2> QED
    BY <2>2 DEF p, q
<1>2. HourNo(s) \in Nat /\ HourNo(t) \in Nat /\ HourTicks \in Nat \ {0} /\ DayHours \in Nat \ {0}
  BY CalendarTypes, ScheduleAssumption
<1>3. HourNo(s) <= HourNo(t)
  BY <1>1, <1>2 DEF HourNo
<1> HIDE DEF HourNo
<1> QED
  BY <1>1, <1>2, <1>3 DEF DayNo

\* What a look announces is what began since the last one, an hour ago at most.
LEMMA LookAnnounces ==
  ASSUME NEW a \in Nat, NEW t \in Nat, a <= t, t - a <= HourTicks, curr_hour = Hour(a)
  PROVE  /\ HourNo(t) = HourNo(a) + Count(NewHour(t))
         /\ DayNo(t) = DayNo(a) + Count(NewDay(t))
         /\ DayNo(t) \div WeekDays = DayNo(a) \div WeekDays + Count(NewWeek(t))
         /\ NewMonth(t) <=> (NewDay(t) /\ DayNo(t) \in MonthFirsts)
         /\ NewYear(t) <=> (NewDay(t) /\ DayNo(t) \in YearFirsts)
<1>0. /\ HourTicks \in Nat \ {0} /\ DayHours \in Nat \ {0} /\ DayHours > 1 /\ WeekDays \in Nat \ {0}
      /\ MonthDays \in Nat \ {0}
  BY ScheduleAssumption
<1> DEFINE h == HourNo(a)
           d == DayNo(a)
           w == d \div WeekDays
<1>1. h \in Nat /\ d \in Nat /\ w \in Nat
  BY CalendarTypes
<1>2. /\ NewMonth(t) <=> (NewDay(t) /\ DayNo(t) \in MonthFirsts)
      /\ NewYear(t) <=> (NewDay(t) /\ DayNo(t) \in YearFirsts)
  <2> DEFINE n == DayNo(t)
  <2>1. /\ NewMonth(t) <=> (NewDay(t) /\ BeginsMonth(n))
        /\ NewYear(t) <=> (NewDay(t) /\ BeginsYear(n))
    BY DEF NewMonth, NewYear, NewWeek, WDay, MDay, YDay, BeginsMonth, BeginsYear
  <2>2. n \in Nat
    BY CalendarTypes
  <2> HIDE DEF n
  <2>3. (n \in MonthFirsts <=> BeginsMonth(n)) /\ (n \in YearFirsts <=> BeginsYear(n))
    BY <2>2 DEF MonthFirsts, YearFirsts
  <2> QED
    BY <2>1, <2>3 DEF n
<1>3. CASE HourNo(t) = h
  <2>1. DayNo(t) = d /\ Hour(t) = curr_hour
    BY <1>3 DEF DayNo, Hour
  <2>2. ~NewHour(t) /\ ~NewDay(t) /\ ~NewWeek(t)
    BY <2>1 DEF NewHour, NewDay, NewWeek
  <2> QED
    BY <1>1, <1>2, <1>3, <2>1, <2>2 DEF Count
<1>4. CASE HourNo(t) = h + 1
  <2> HIDE DEF h
  <2>0. d = h \div DayHours /\ curr_hour = h % DayHours
    BY DEF h, DayNo, Hour
  <2>1. NewHour(t) /\ DayNo(t) = IF Hour(t) = 0 THEN d + 1 ELSE d
    <3>1. DayNo(t) = (h + 1) \div DayHours /\ Hour(t) = (h + 1) % DayHours
      BY <1>4 DEF DayNo, Hour
    <3>2. /\ (h + 1) \div DayHours = IF (h + 1) % DayHours = 0 THEN h \div DayHours + 1 ELSE h \div DayHours
          /\ (h + 1) % DayHours # h % DayHours
      BY <1>0, <1>1, DivNext
    <3> QED
      BY <2>0, <3>1, <3>2 DEF NewHour
  <2>2. CASE Hour(t) # 0
    <3>1. ~NewDay(t) /\ ~NewWeek(t) /\ DayNo(t) = d
      BY <2>1, <2>2 DEF NewDay, NewWeek
    <3> HIDE DEF d
    <3> QED
      BY <1>1, <1>2, <1>4, <2>1, <3>1 DEF Count, d, h
  <2>3. CASE Hour(t) = 0
    <3>1. NewDay(t) /\ DayNo(t) = d + 1
      BY <2>1, <2>3 DEF NewDay
    <3>2. (d + 1) \div WeekDays = IF (d + 1) % WeekDays = 0 THEN w + 1 ELSE w
      BY <1>0, <1>1, DivNext
    <3>3. NewWeek(t) <=> (d + 1) % WeekDays = 0
      BY <3>1 DEF NewWeek, WDay
    <3> HIDE DEF d, w
    <3>4. DayNo(t) \div WeekDays = w + Count(NewWeek(t))
      BY <1>1, <3>1, <3>2, <3>3 DEF Count
    <3> QED
      BY <1>1, <1>2, <1>4, <2>1, <3>1, <3>4 DEF Count, d, w, h
  <2> QED
    BY <2>2, <2>3
<1> QED
  <2>1. HourNo(t) = h \/ HourNo(t) = h + 1
    BY <1>0, DivWithin DEF HourNo
  <2> QED
    BY <1>3, <1>4, <2>1

\* Nothing is announced before the first look, and each look keeps the account.
LEMMA ScheduleStep == ScheduleInv /\ [ScheduleNext]_schedule => ScheduleInv'
<1> SUFFICES ASSUME ScheduleInv, [ScheduleNext]_schedule
             PROVE  ScheduleInv'
  OBVIOUS
<1>0. /\ Throttle \in Nat /\ MaxPause \in Nat /\ MaxPause + Throttle <= HourTicks /\ MaxTime \in Nat
      /\ HourTicks \in Nat
  BY ScheduleAssumption
<1>1. ASSUME NEW t \in 1..MaxTime, Construct(t)
      PROVE  ScheduleInv'
  <2>1. /\ start_t = 0 /\ start_t' = t /\ time' = t /\ curr_hour' = Hour(t) /\ last_update_t' = 0
        /\ last_update_t = 0
        /\ UNCHANGED <<new_hours, new_days, new_weeks, new_months, new_years>>
    BY <1>1 DEF Construct, ScheduleInv, announced
  <2>2. LastLook = start_t /\ LastLook' = t /\ t \in Nat /\ t # 0
    BY <1>0, <2>1 DEF LastLook
  <2>3. /\ HourNo(t) \in Nat /\ DayNo(t) \in Nat /\ DayNo(t) \div WeekDays \in Nat
        /\ HourNo(0) \in Nat /\ DayNo(0) \in Nat /\ DayNo(0) \div WeekDays \in Nat
    BY <2>2, CalendarTypes
  <2>4. ASSUME NEW B
        PROVE  Among(B, DayNo(t), DayNo(t)) = {} /\ Among(B, DayNo(0), DayNo(0)) = {}
    <3>1. \A d \in Nat : Among(B, d, d) = {}
      BY AmongNext
    <3> QED
      BY <2>3, <3>1
  <2>5. /\ new_hours = 0 /\ new_days = 0 /\ new_weeks = 0
        /\ new_months = Cardinality({}) /\ new_years = Cardinality({})
    <3>1. /\ new_hours = HourNo(0) - HourNo(0) /\ new_days = DayNo(0) - DayNo(0)
          /\ new_weeks = DayNo(0) \div WeekDays - DayNo(0) \div WeekDays
          /\ new_months = Cardinality(Among(MonthFirsts, DayNo(0), DayNo(0)))
          /\ new_years = Cardinality(Among(YearFirsts, DayNo(0), DayNo(0)))
      BY <2>1, <2>2 DEF ScheduleInv
    <3> QED
      BY <2>3, <2>4, <3>1
  <2>6. /\ new_hours' = HourNo(t) - HourNo(t) /\ new_days' = DayNo(t) - DayNo(t)
        /\ new_weeks' = DayNo(t) \div WeekDays - DayNo(t) \div WeekDays
        /\ new_months' = Cardinality(Among(MonthFirsts, DayNo(t), DayNo(t)))
        /\ new_years' = Cardinality(Among(YearFirsts, DayNo(t), DayNo(t)))
    <3>1. /\ Among(MonthFirsts, DayNo(t), DayNo(t)) = {}
          /\ Among(YearFirsts, DayNo(t), DayNo(t)) = {}
      BY <2>4
    <3> QED
      BY <2>1, <2>3, <2>5, <3>1
  <2> HIDE DEF HourNo, DayNo
  <2> QED
    BY <1>0, <2>1, <2>2, <2>6 DEF ScheduleInv
<1>2. ASSUME NEW t \in (time + 1)..(time + MaxPause), t <= MaxTime, ScheduleUpdate(t)
      PROVE  ScheduleInv'
  <2> DEFINE a == LastLook
             s == start_t
  <2>0. /\ time \in Nat /\ s \in Nat /\ last_update_t \in Nat /\ a \in Nat /\ s # 0
        /\ s <= a /\ a <= time /\ time - a <= Throttle /\ curr_hour = Hour(a)
        /\ time' = t /\ start_t' = s
    BY <1>2 DEF ScheduleInv, LastLook, ScheduleUpdate
  <2>1. t \in Nat /\ t # 0 /\ a <= t /\ t - a <= HourTicks /\ s <= t
    BY <1>0, <2>0
  <2>2. CASE TooSoon(t)
    <3>1. UNCHANGED <<last_update_t, curr_hour, new_hours, new_days, new_weeks, new_months, new_years>>
      BY <1>2, <2>2 DEF ScheduleUpdate, announced
    <3>2. last_update_t # 0 /\ a = last_update_t /\ t - a <= Throttle /\ LastLook' = a
      BY <1>0, <2>0, <2>1, <2>2, <3>1 DEF TooSoon, LastLook
    <3> HIDE DEF a
    <3>3. /\ new_hours = HourNo(a) - HourNo(s)
          /\ new_days = DayNo(a) - DayNo(s)
          /\ new_weeks = DayNo(a) \div WeekDays - DayNo(s) \div WeekDays
          /\ new_months = Cardinality(Among(MonthFirsts, DayNo(s), DayNo(a)))
          /\ new_years = Cardinality(Among(YearFirsts, DayNo(s), DayNo(a)))
      BY DEF ScheduleInv, a
    <3> QED
      BY <2>0, <2>1, <3>1, <3>2, <3>3 DEF ScheduleInv
  <2>3. CASE ~TooSoon(t)
    <3>1. /\ last_update_t' = t /\ curr_hour' = Hour(t) /\ LastLook' = t
          /\ new_hours' = new_hours + Count(NewHour(t))
          /\ new_days' = new_days + Count(NewDay(t))
          /\ new_weeks' = new_weeks + Count(NewWeek(t))
          /\ new_months' = new_months + Count(NewMonth(t))
          /\ new_years' = new_years + Count(NewYear(t))
      BY <1>2, <2>1, <2>3 DEF ScheduleUpdate, LastLook
    <3> HIDE DEF a
    <3>2. /\ HourNo(t) = HourNo(a) + Count(NewHour(t))
          /\ DayNo(t) = DayNo(a) + Count(NewDay(t))
          /\ DayNo(t) \div WeekDays = DayNo(a) \div WeekDays + Count(NewWeek(t))
          /\ NewMonth(t) <=> (NewDay(t) /\ DayNo(t) \in MonthFirsts)
          /\ NewYear(t) <=> (NewDay(t) /\ DayNo(t) \in YearFirsts)
      BY <2>0, <2>1, LookAnnounces
    <3>3. /\ new_hours = HourNo(a) - HourNo(s)
          /\ new_days = DayNo(a) - DayNo(s)
          /\ new_weeks = DayNo(a) \div WeekDays - DayNo(s) \div WeekDays
          /\ new_months = Cardinality(Among(MonthFirsts, DayNo(s), DayNo(a)))
          /\ new_years = Cardinality(Among(YearFirsts, DayNo(s), DayNo(a)))
      BY DEF ScheduleInv, a
    <3>4. /\ HourNo(a) \in Nat /\ HourNo(s) \in Nat /\ DayNo(a) \in Nat /\ DayNo(s) \in Nat
          /\ DayNo(a) \div WeekDays \in Nat /\ DayNo(s) \div WeekDays \in Nat
      BY <2>0, CalendarTypes
    <3>5. Count(NewHour(t)) \in Nat /\ Count(NewDay(t)) \in Nat /\ Count(NewWeek(t)) \in Nat
      BY DEF Count
    <3>6. /\ new_hours' = HourNo(t) - HourNo(s)
          /\ new_days' = DayNo(t) - DayNo(s)
      BY <3>1, <3>2, <3>3, <3>4, <3>5
    <3>7. new_weeks' = DayNo(t) \div WeekDays - DayNo(s) \div WeekDays
      BY <3>1, <3>2, <3>3, <3>4, <3>5
    <3>8. ASSUME NEW B
          PROVE  Cardinality(Among(B, DayNo(s), DayNo(a))) + Count(NewDay(t) /\ DayNo(t) \in B)
                   = Cardinality(Among(B, DayNo(s), DayNo(t)))
      <4>0. DayNo(s) <= DayNo(a)
        BY <2>0, DaysGoOn
      <4>1. CASE NewDay(t)
        <5>1. DayNo(t) = DayNo(a) + 1
          BY <3>2, <4>1 DEF Count
        <5>2. Cardinality(Among(B, DayNo(s), DayNo(a) + 1)) =
                Cardinality(Among(B, DayNo(s), DayNo(a))) + Count(DayNo(a) + 1 \in B)
          BY <3>4, <4>0, AmongNext
        <5> QED
          BY <4>1, <5>1, <5>2 DEF Count
      <4>2. CASE ~NewDay(t)
        <5>1. DayNo(t) = DayNo(a)
          BY <3>2, <3>4, <4>2 DEF Count
        <5>2. Cardinality(Among(B, DayNo(s), DayNo(a))) \in Nat
          BY <3>4, <4>0, AmongNext
        <5> QED
          BY <4>2, <5>1, <5>2 DEF Count
      <4> QED
        BY <4>1, <4>2
    <3>9. /\ new_months' = Cardinality(Among(MonthFirsts, DayNo(s), DayNo(t)))
          /\ new_years' = Cardinality(Among(YearFirsts, DayNo(s), DayNo(t)))
      BY <3>1, <3>2, <3>3, <3>8 DEF Count
    <3> QED
      BY <1>0, <2>0, <2>1, <3>1, <3>6, <3>7, <3>9 DEF ScheduleInv
  <2> QED
    BY <2>2, <2>3
<1>3. CASE UNCHANGED schedule
  BY <1>3 DEF schedule, announced, ScheduleInv, LastLook
<1> QED
  BY <1>1, <1>2, <1>3 DEF ScheduleNext

\* At every time the announcements made are those that began up to the last look.
THEOREM ScheduleInvariant == ScheduleSpec => []ScheduleInv
<1>1. ScheduleInit => ScheduleInv
  <2> SUFFICES ASSUME ScheduleInit
               PROVE  ScheduleInv
    OBVIOUS
  <2>1. /\ time = 0 /\ start_t = 0 /\ last_update_t = 0 /\ LastLook = 0
        /\ new_hours = 0 /\ new_days = 0 /\ new_weeks = 0 /\ new_months = 0 /\ new_years = 0
    BY DEF ScheduleInit, LastLook
  <2>2. HourNo(0) \in Nat /\ DayNo(0) \in Nat /\ DayNo(0) \div WeekDays \in Nat
    BY CalendarTypes
  <2>3. \A B : Cardinality(Among(B, DayNo(0), DayNo(0))) = 0
    <3>1. \A B, d : d \in Nat => Among(B, d, d) = {}
      BY AmongNext
    <3> QED
      BY <2>2, <3>1, FS_EmptySet
  <2>4. /\ new_hours = HourNo(0) - HourNo(0) /\ new_days = DayNo(0) - DayNo(0)
        /\ new_weeks = DayNo(0) \div WeekDays - DayNo(0) \div WeekDays
    BY <2>1, <2>2
  <2> HIDE DEF HourNo, DayNo
  <2> QED
    BY <2>1, <2>3, <2>4, ScheduleAssumption DEF ScheduleInv
<1> QED
  BY <1>1, ScheduleStep, PTL DEF ScheduleSpec

\* Each hour, day and week that began since the object was made has been announced exactly once
\* when Update has looked, and so has each month that began with a week, and each year that began
\* with a week and a month.
THEOREM AnnouncedEachOnce == ScheduleSpec => []AnnouncedOnce
<1>1. ScheduleInv => AnnouncedOnce
  <2> SUFFICES ASSUME ScheduleInv, last_update_t # 0
               PROVE  AnnouncedOnce
    BY DEF AnnouncedOnce
  <2> DEFINE f == DayNo(start_t)
             d == DayNo(last_update_t)
  <2>1. LastLook = last_update_t
    BY DEF LastLook
  <2>2. f \in Nat
    BY CalendarTypes DEF ScheduleInv
  <2>3. /\ Among(MonthFirsts, f, d) = {x \in (f + 1)..d : BeginsMonth(x)}
        /\ Among(YearFirsts, f, d) = {x \in (f + 1)..d : BeginsYear(x)}
    <3> HIDE DEF f, d
    <3>1. \A x \in (f + 1)..d : x \in Nat
      BY <2>2
    <3>2. \A x \in Nat : (x \in MonthFirsts <=> BeginsMonth(x)) /\ (x \in YearFirsts <=> BeginsYear(x))
      BY DEF MonthFirsts, YearFirsts
    <3> QED
      BY <3>1, <3>2 DEF Among
  <2> QED
    BY <2>1, <2>3 DEF ScheduleInv, AnnouncedOnce, Begun, HourNo
<1> QED
  BY <1>1, ScheduleInvariant, PTL
=============================================================================
