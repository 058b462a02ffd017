---------------------------- MODULE ActiveWindow ----------------------------
(***************************************************************************)
(* The decision of _schedule_task (main/app_schedule.c): is the clock in   *)
(* the active time?  Start and end are wall-clock times, so the active     *)
(* time may span midnight; the code compares minutes of the day and        *)
(* chooses between `and' and `or' by whether start lies after end.         *)
(*                                                                         *)
(* The clock, the settings and the evaluations run side by side: a search  *)
(* for a time (AWAIT(_sync_time)), another mode or a missing alarm holds   *)
(* the evaluations up for any number of minutes, and a setting or an edge  *)
(* of the active time may fall between the reading of the clock and the    *)
(* comparison.  The day has HoursPerDay hours of MinutesPerHour minutes    *)
(* (24 and 60 in the code).                                                *)
(***************************************************************************)
EXTENDS Integers

CONSTANTS HoursPerDay, MinutesPerHour

ASSUME DayAssumption ==
    HoursPerDay \in Nat \ {0} /\ MinutesPerHour \in Nat \ {0}

Hour == 0..HoursPerDay - 1
Minute == 0..MinutesPerHour - 1
Day == HoursPerDay * MinutesPerHour

\* The times of a clock, and those an alarm may hold: the server's are not
\* checked at all, the screen's only from above, and malloc leaves anything.
\* One value beyond a bound stands for all of them.
ClockTime == [hour : Hour, minute : Minute]
AnyTime   == [hour : -1..HoursPerDay, minute : -1..MinutesPerHour]

Alarm == {"start", "end"}

VARIABLES clock,        \* tm_hour and tm_min of the local time
          known,        \* does _sync_time return, with a plausible year?
          auto,         \* is handle->mode OPERATOR_MODE_AUTO?
          alarm,        \* handle->start and handle->end of the schedule
          enabled,      \* the alarms whose enable flag is set
          reading,      \* is the loop between reading the clock and comparing?
          seen,         \* timeinfo, while reading
          on,           \* what the last trigger asked for
          \* History: has an edge passed, or the clock or an alarm been set,
          due,          \* since the clock reading of the last trigger?
          stale         \* since the clock was read, while reading?

settings == <<known, auto, alarm, enabled>>
loop     == <<reading, seen, on>>
vars     == <<clock, settings, loop, due, stale>>

-----------------------------------------------------------------------------
MinuteOfDay(t) == t.hour * MinutesPerHour + t.minute

\* Mutant: the end of an active time over midnight is tested like one within
\* a day.
ActiveWithoutMidnight(s, e, c) ==
    MinuteOfDay(c) >= MinuteOfDay(s) /\ MinuteOfDay(c) <= MinuteOfDay(e)

Active(s, e, c) ==
    IF MinuteOfDay(s) <= MinuteOfDay(e)
    THEN MinuteOfDay(c) >= MinuteOfDay(s) /\ MinuteOfDay(c) <= MinuteOfDay(e)
    ELSE MinuteOfDay(c) >= MinuteOfDay(s) \/ MinuteOfDay(c) <= MinuteOfDay(e)

NextMinute(t) ==
    IF t.minute + 1 \in Minute
    THEN [t EXCEPT !.minute = @ + 1]
    ELSE [hour |-> IF t.hour + 1 \in Hour THEN t.hour + 1 ELSE 0, minute |-> 0]

Midnight == [hour |-> 0, minute |-> 0]

\* The handle comes from malloc: the alarms and their flags are garbage until
\* app_schedule_add_alarm is called.
Init ==
    /\ clock \in ClockTime
    /\ known \in BOOLEAN /\ auto = FALSE
    /\ alarm \in [Alarm -> AnyTime] /\ enabled \in SUBSET Alarm
    /\ reading = FALSE /\ seen = Midnight
    /\ on = FALSE
    /\ due = TRUE /\ stale = FALSE

\* Something happens that the trigger, or a reading under way, does not know of.
Overtakes ==
    /\ due' = TRUE
    /\ stale' = reading

-----------------------------------------------------------------------------
(* The clock.                                                              *)

\* The active time begins with the start minute and lasts through the end one.
EdgePasses == clock' = alarm["start"] \/ clock = alarm["end"]

MinutePasses ==
    /\ clock' = NextMinute(clock)
    /\ IF EdgePasses THEN Overtakes ELSE UNCHANGED <<due, stale>>
    /\ UNCHANGED <<settings, loop>>

\* settimeofday: by SNTP, from the DS3231, by the screen or the GPS task.
ClockIsSet ==
    /\ clock' \in ClockTime
    /\ Overtakes
    /\ UNCHANGED <<settings, loop>>

\* is_sync is cleared or the year turns out to be before 2021; the search that
\* follows may last for good.
TimeIsLost ==
    /\ known
    /\ known' = FALSE
    /\ UNCHANGED <<clock, auto, alarm, enabled, loop, due, stale>>

TimeIsFound ==
    /\ ~known
    /\ known' = TRUE
    /\ UNCHANGED <<clock, auto, alarm, enabled, loop, due, stale>>

-----------------------------------------------------------------------------
(* The settings.                                                           *)

SetMode ==
    /\ auto' = ~auto
    /\ UNCHANGED <<clock, known, alarm, enabled, loop, due, stale>>

AddAlarm(a) ==
    /\ \E t \in AnyTime : alarm' = [alarm EXCEPT ![a] = t]
    /\ enabled' = enabled \cup {a}
    /\ Overtakes
    /\ UNCHANGED <<clock, known, auto, loop>>

-----------------------------------------------------------------------------
(* The loop of _schedule_task.                                             *)

ReadClock ==
    /\ ~reading /\ known
    /\ reading' = TRUE
    /\ seen' = clock
    /\ stale' = FALSE
    /\ UNCHANGED <<clock, settings, on, due>>

\* The loop goes on to its delay and forgets the reading.
LoopEnds ==
    /\ reading' = FALSE
    /\ seen' = Midnight
    /\ stale' = FALSE
    /\ UNCHANGED <<clock, settings>>

Heeded == auto /\ enabled = Alarm

SkipTrigger ==
    /\ reading /\ ~Heeded
    /\ LoopEnds
    /\ UNCHANGED <<on, due>>

Trigger ==
    /\ reading /\ Heeded
    /\ on' = Active(alarm["start"], alarm["end"], seen)
    /\ due' = stale
    /\ LoopEnds

Next ==
    \/ MinutePasses
    \/ ClockIsSet
    \/ TimeIsLost
    \/ TimeIsFound
    \/ SetMode
    \/ \E a \in Alarm : AddAlarm(a)
    \/ ReadClock
    \/ SkipTrigger
    \/ Trigger

Spec == Init /\ [][Next]_vars

-----------------------------------------------------------------------------
\* Is the setting a pair of times of day?
Valid == \A a \in Alarm : alarm[a] \in ClockTime

\* How many minutes the clock runs from a to b.
Ahead(a, b) ==
    LET d == MinuteOfDay(b) - MinuteOfDay(a) IN IF d >= 0 THEN d ELSE d + Day

\* However long ago the schedule last asked for the lamp, what it asked for is
\* right for the present minute, unless an edge of the active time has passed or
\* the clock or an alarm has been set since it read the clock: starting at
\* `start' and running the clock forward, the present minute comes no later than
\* `end' (app_schedule.c:279-295 never mentions a distance, it compares minutes
\* of one day).
FollowsArc ==
    Valid /\ ~due =>
        (on <=> Ahead(alarm["start"], clock) <= Ahead(alarm["start"], alarm["end"]))

=============================================================================
