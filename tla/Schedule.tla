------------------------------- MODULE Schedule -------------------------------
(***************************************************************************)
(* ScheduleBase::Update: a clock that is looked at in every frame, at most *)
(* once in 30 seconds, and announces a new hour, day, week, month and year.*)
(* The announcements are nested: a week is only looked for when a day is   *)
(* new, a month only when a week is, a year only when a month is.          *)
(*                                                                         *)
(* The calendar is external (localtime); its units are parameters, so that *)
(* months of any length begin on any day of the week.  All months have one *)
(* length, and so have all years.  Time goes forward, and without a change *)
(* of the clock for summer.                                                *)
(***************************************************************************)
EXTENDS Naturals, FiniteSets

CONSTANTS
  HourTicks,   (* an hour, in ticks of the clock                            *)
  Throttle,    (* ticks Update waits for: 30 seconds                        *)
  DayHours,    (* hours of a day                                            *)
  WeekDays,    (* days of a week                                            *)
  MonthDays,   (* days of a month                                           *)
  YearDays,    (* days of a year                                            *)
  MaxTime,     (* bound: the clock                                          *)
  MaxPause     (* the longest time between two frames                       *)

ASSUME ScheduleAssumption ==
  /\ {HourTicks, DayHours, WeekDays, MonthDays, YearDays, MaxPause} \subseteq Nat \ {0}
  /\ {Throttle, MaxTime} \subseteq Nat
  /\ DayHours > 1
  /\ MaxPause + Throttle <= HourTicks

VARIABLES
  time,           (* get_frame_time                              *)
  last_update_t,  (* _last_update_t                              *)
  curr_hour,      (* _curr_hour                                  *)
  (* history *)
  start_t,        (* when the object was made                    *)
  new_hours,      (* calls of on_new_hour, ...                   *)
  new_days,
  new_weeks,
  new_months,
  new_years

announced == <<new_hours, new_days, new_weeks, new_months, new_years>>
schedule  == <<time, last_update_t, curr_hour, start_t, announced>>

HourNo(t) == t \div HourTicks
DayNo(t) == HourNo(t) \div DayHours
Hour(t) == HourNo(t) % DayHours
WDay(t) == DayNo(t) % WeekDays
MDay(t) == DayNo(t) % MonthDays
YDay(t) == DayNo(t) % YearDays

ScheduleInit ==
  /\ time = 0 /\ start_t = 0 /\ last_update_t = 0 /\ curr_hour = 0
  /\ new_hours = 0 /\ new_days = 0 /\ new_weeks = 0 /\ new_months = 0
  /\ new_years = 0

\* The constructor, at any time of the calendar; _last_update_t is 0, which is long ago.
Construct(t) ==
  /\ start_t = 0
  /\ start_t' = t /\ time' = t
  /\ curr_hour' = Hour(t)
  /\ UNCHANGED <<last_update_t, announced>>

TooSoon(t) == last_update_t # 0 /\ t - last_update_t < Throttle

\* What Update announces at time t.
NewHour(t) == curr_hour # Hour(t)
NewDayAtEachLook(t) == Hour(t) = 0
NewDay(t) == NewHour(t) /\ Hour(t) = 0
NewWeek(t) == NewDay(t) /\ WDay(t) = 0
NewMonth(t) == NewWeek(t) /\ MDay(t) = 0
NewYear(t) == NewMonth(t) /\ YDay(t) = 0

Count(b) == IF b THEN 1 ELSE 0

\* A frame, some time after the last: Update, which has nothing to do if it has just looked.
ScheduleUpdate(t) ==
  /\ start_t # 0
  /\ time' = t
  /\ IF TooSoon(t)
     THEN UNCHANGED <<last_update_t, curr_hour, announced>>
     ELSE /\ last_update_t' = t
          /\ curr_hour' = Hour(t)
          /\ new_hours' = new_hours + Count(NewHour(t))
          /\ new_days' = new_days + Count(NewDay(t))
          /\ new_weeks' = new_weeks + Count(NewWeek(t))
          /\ new_months' = new_months + Count(NewMonth(t))
          /\ new_years' = new_years + Count(NewYear(t))
  /\ UNCHANGED start_t

ScheduleNext ==
  \/ \E t \in 1..MaxTime : Construct(t)
  \/ \E t \in (time + 1)..(time + MaxPause) : t <= MaxTime /\ ScheduleUpdate(t)

ScheduleSpec == ScheduleInit /\ [][ScheduleNext]_schedule
-----------------------------------------------------------------------------
(* Properties. *)

\* As long as frames are less than an hour apart, on_new_hour, on_new_day and on_new_week are
\* called once for each hour, day and week that begins, however the looks fall in it; and
\* on_new_month and on_new_year for those months and years, and only those, that begin with a
\* week and, the years, with a month.
Begun(from, to, unit) == to \div unit - from \div unit
BeginsMonth(d) == d % WeekDays = 0 /\ d % MonthDays = 0
BeginsYear(d) == BeginsMonth(d) /\ d % YearDays = 0
AnnouncedOnce ==
  last_update_t # 0 =>
    LET from == DayNo(start_t)
        to   == DayNo(last_update_t)
    IN  /\ new_hours = Begun(start_t, last_update_t, HourTicks)
        /\ new_days = to - from
        /\ new_weeks = Begun(from, to, WeekDays)
        /\ new_months = Cardinality({d \in (from + 1)..to : BeginsMonth(d)})
        /\ new_years = Cardinality({d \in (from + 1)..to : BeginsYear(d)})
=============================================================================
