------------------------------ MODULE MCServices ------------------------------
(***************************************************************************)
(* The parts of the server that do not meet, side by side: a behaviour     *)
(* picks one of them and the others rest, so that one run checks each in   *)
(* all its behaviours and never a product of two.                          *)
(***************************************************************************)
EXTENDS TimerMgr, Tasks, FrameEvent, Schedule, RingQueue, LuaTable, SessionWin

VARIABLE part

all == <<timers, tasks, events, schedule, ring, codec, win, part>>

Init ==
  /\ TimerInit /\ TasksInit /\ FrameEventInit /\ ScheduleInit /\ RingInit
  /\ CodecInit /\ SessionWinInit
  /\ part \in {"timer", "task", "event", "schedule", "ring", "codec", "win"}

TimerPart == part = "timer" /\ TimerNext
             /\ UNCHANGED <<tasks, events, schedule, ring, codec, win, part>>
TaskPart == part = "task" /\ TasksNext
            /\ UNCHANGED <<timers, events, schedule, ring, codec, win, part>>
EventPart == part = "event" /\ FrameEventNext
             /\ UNCHANGED <<timers, tasks, schedule, ring, codec, win, part>>
SchedulePart == part = "schedule" /\ ScheduleNext
                /\ UNCHANGED <<timers, tasks, events, ring, codec, win, part>>
RingPart == part = "ring" /\ RingNext
            /\ UNCHANGED <<timers, tasks, events, schedule, codec, win, part>>
CodecPart == part = "codec" /\ CodecNext
             /\ UNCHANGED <<timers, tasks, events, schedule, ring, win, part>>
WinPart == part = "win" /\ SessionWinNext
           /\ UNCHANGED <<timers, tasks, events, schedule, ring, codec, part>>

Next == \/ TimerPart \/ TaskPart \/ EventPart \/ SchedulePart \/ RingPart
        \/ CodecPart \/ WinPart

Spec == Init /\ [][Next]_all
-----------------------------------------------------------------------------
(* The instance.  Widths with 4, 16, 64 and 256 numbers have the           *)
(* boundaries of those with 8 to 64 bits; the numbers are the ones on both *)
(* sides of each.  Tables have at most two pairs, with every number beside *)
(* two other values, some with a metatable, are nested beyond the depth,   *)
(* and some do not fit the buffer.                                         *)

Numbers == {0, 3, 4, 14, 15, 62, 63, 127, -1, -2, -3, -8, -9, -32, -33, -128}
Scalars == {<<"num", n>> : n \in Numbers}
           \cup {<<"str", "b">>, <<"flt", "f">>, <<"bool", "t">>, <<"func", "x">>}
Samples == {<<"num", 1>>, <<"func", "x">>}
Keys == {<<"num", 1>>, <<"num", 2>>, <<"num", -20>>, <<"str", "a">>, <<"bool", "t">>}

TablesOf(V) ==
  {<<"table", {}>>}
  \cup {<<"table", {<<k, v>>}>> : k \in Keys, v \in V}
  \cup {<<"table", {<<k, v>>, <<l, w>>}>> :
          <<k, l>> \in {kl \in Keys \X Keys : kl[1] # kl[2]}, v \in V, w \in Samples}
Nest(T) == {<<"table", {<<k, t>>}>> : k \in Keys, t \in T}
WithMeta(T) == {<<meta, t[2]>> : meta \in {"__len", "__pairs"}, t \in T}
Tables == TablesOf(Scalars) \cup WithMeta(TablesOf(Samples))
          \cup Nest(TablesOf(Samples) \cup WithMeta(TablesOf({<<"num", 1>>})))
          \cup Nest(Nest(TablesOf(Samples)))

Symmetry == Permutations(Owners) \cup Permutations(Workers) \cup Permutations(Elements)
=============================================================================
