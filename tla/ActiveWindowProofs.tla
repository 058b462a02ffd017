------------------------- MODULE ActiveWindowProofs -------------------------
(***************************************************************************)
(* Proofs about ActiveWindow, for a day of any length.                     *)
(***************************************************************************)
EXTENDS ActiveWindow, TLAPS

\* A later hour is at least an hour's minutes later.
LEMMA LaterHour ==
    ASSUME NEW m \in Nat, NEW a \in Nat, NEW b \in Nat, a < b
    PROVE  a * m + m <= b * m
<1>1. PICK d \in Nat : b = a + 1 + d
  <2>1. b - a - 1 \in Nat /\ b = a + 1 + (b - a - 1)
    OBVIOUS
  <2>2. QED
    BY <2>1
<1>2. b * m = a * m + m + d * m
  BY <1>1
<1>3. d * m \in Nat /\ a * m \in Nat
  OBVIOUS
<1>4. QED
  BY <1>2, <1>3

\* A clock time is a minute of the day (the int arithmetic of
\* app_schedule.c:276-278 never leaves it).
LEMMA MinuteRange ==
    ASSUME NEW t \in ClockTime
    PROVE  MinuteOfDay(t) \in 0..Day - 1
<1>1. /\ HoursPerDay \in Nat /\ MinutesPerHour \in Nat
      /\ t.hour \in Nat /\ t.minute \in Nat
      /\ t.hour < HoursPerDay /\ t.minute < MinutesPerHour
  BY DayAssumption DEF ClockTime, Hour, Minute
<1>2. t.hour * MinutesPerHour + MinutesPerHour <= HoursPerDay * MinutesPerHour
  BY <1>1, LaterHour
<1>3. t.hour * MinutesPerHour \in Nat /\ HoursPerDay * MinutesPerHour \in Nat
  BY <1>1
<1>4. QED
  BY <1>1, <1>2, <1>3 DEF MinuteOfDay, Day

\* Two clock times with the same minute of the day are the same.
LEMMA MinuteInjective ==
    ASSUME NEW s \in ClockTime, NEW t \in ClockTime,
           MinuteOfDay(s) = MinuteOfDay(t)
    PROVE  s = t
<1>1. /\ MinutesPerHour \in Nat
      /\ s.hour \in Nat /\ s.minute \in Nat /\ t.hour \in Nat /\ t.minute \in Nat
      /\ s.minute < MinutesPerHour /\ t.minute < MinutesPerHour
  BY DayAssumption DEF ClockTime, Hour, Minute
<1>2. s.hour * MinutesPerHour \in Nat /\ t.hour * MinutesPerHour \in Nat
  BY <1>1
<1>3. ~(s.hour < t.hour)
  <2> SUFFICES ASSUME s.hour < t.hour PROVE FALSE
    OBVIOUS
  <2>1. s.hour * MinutesPerHour + MinutesPerHour <= t.hour * MinutesPerHour
    BY <1>1, LaterHour
  <2>2. QED
    BY <1>1, <1>2, <2>1 DEF MinuteOfDay
<1>4. ~(t.hour < s.hour)
  <2> SUFFICES ASSUME t.hour < s.hour PROVE FALSE
    OBVIOUS
  <2>1. t.hour * MinutesPerHour + MinutesPerHour <= s.hour * MinutesPerHour
    BY <1>1, LaterHour
  <2>2. QED
    BY <1>1, <1>2, <2>1 DEF MinuteOfDay
<1>5. s.hour = t.hour
  BY <1>1, <1>3, <1>4
<1>6. s.minute = t.minute
  <2>1. s.hour * MinutesPerHour = t.hour * MinutesPerHour
    BY <1>5
  <2>2. s.hour * MinutesPerHour + s.minute = t.hour * MinutesPerHour + t.minute
    BY DEF MinuteOfDay
  <2>3. \A x, p, q \in Nat : x + p = x + q => p = q
    OBVIOUS
  <2>4. QED
    BY <1>1, <1>2, <2>1, <2>2, <2>3
<1>7. QED
  BY <1>5, <1>6 DEF ClockTime

\* A minute later the minute of the day is the next one or, at midnight, 0.
LEMMA MinuteAdvances ==
    ASSUME NEW t \in ClockTime
    PROVE  /\ NextMinute(t) \in ClockTime
           /\ MinuteOfDay(NextMinute(t)) =
                IF MinuteOfDay(t) = Day - 1 THEN 0 ELSE MinuteOfDay(t) + 1
<1>1. /\ HoursPerDay \in Nat \ {0} /\ MinutesPerHour \in Nat \ {0}
      /\ t.hour \in Nat /\ t.minute \in Nat
      /\ t.hour < HoursPerDay /\ t.minute < MinutesPerHour
  BY DayAssumption DEF ClockTime, Hour, Minute
<1>2. MinuteOfDay(t) \in 0..Day - 1
  BY MinuteRange
<1>3. t.hour * MinutesPerHour \in Nat /\ HoursPerDay * MinutesPerHour \in Nat
  BY <1>1
<1>4. CASE t.minute + 1 < MinutesPerHour
  <2>1. NextMinute(t) = [t EXCEPT !.minute = t.minute + 1]
    BY <1>1, <1>4 DEF NextMinute, Minute
  <2>2. NextMinute(t) \in ClockTime
    BY <1>1, <1>4, <2>1 DEF ClockTime, Hour, Minute
  <2>3. /\ NextMinute(t).hour = t.hour
        /\ NextMinute(t).minute = t.minute + 1
    BY <2>1 DEF ClockTime
  <2>4. MinuteOfDay(NextMinute(t)) = MinuteOfDay(t) + 1
    BY <1>1, <1>3, <2>3 DEF MinuteOfDay
  <2>5. MinuteOfDay(NextMinute(t)) \in 0..Day - 1
    BY <2>2, MinuteRange
  <2>6. QED
    BY <1>2, <1>3, <2>2, <2>4, <2>5 DEF Day
<1>5. CASE t.minute + 1 = MinutesPerHour /\ t.hour + 1 < HoursPerDay
  <2>1. NextMinute(t) = [hour |-> t.hour + 1, minute |-> 0]
    BY <1>1, <1>5 DEF NextMinute, Minute, Hour
  <2>2. NextMinute(t) \in ClockTime
    BY <1>1, <1>5, <2>1 DEF ClockTime, Hour, Minute
  <2>3. (t.hour + 1) * MinutesPerHour = t.hour * MinutesPerHour + MinutesPerHour
    BY <1>1
  <2>4. MinuteOfDay(NextMinute(t)) = MinuteOfDay(t) + 1
    BY <1>1, <1>3, <1>5, <2>1, <2>3 DEF MinuteOfDay
  <2>5. MinuteOfDay(NextMinute(t)) \in 0..Day - 1
    BY <2>2, MinuteRange
  <2>6. QED
    BY <1>2, <1>3, <2>2, <2>4, <2>5 DEF Day
<1>6. CASE t.minute + 1 = MinutesPerHour /\ t.hour + 1 = HoursPerDay
  <2>1. NextMinute(t) = [hour |-> 0, minute |-> 0]
    BY <1>1, <1>6 DEF NextMinute, Minute, Hour
  <2>2. NextMinute(t) \in ClockTime
    BY <1>1, <2>1 DEF ClockTime, Hour, Minute
  <2>3. MinuteOfDay(NextMinute(t)) = 0
    BY <1>1, <2>1 DEF MinuteOfDay
  <2>4. HoursPerDay * MinutesPerHour = t.hour * MinutesPerHour + MinutesPerHour
    <3>1. (t.hour + 1) * MinutesPerHour = t.hour * MinutesPerHour + MinutesPerHour
      BY <1>1
    <3>2. QED
      BY <1>6, <3>1
  <2>5. MinuteOfDay(t) = Day - 1
    BY <1>1, <1>3, <1>6, <2>4 DEF MinuteOfDay, Day
  <2>6. QED
    BY <2>2, <2>3, <2>5
<1>7. QED
  BY <1>1, <1>4, <1>5, <1>6

-----------------------------------------------------------------------------
(* The decision.                                                           *)

\* Comparing minutes of one day decides membership of the arc from s to e.
LEMMA ActiveIsArc ==
    ASSUME NEW s \in ClockTime, NEW e \in ClockTime, NEW c \in ClockTime
    PROVE  Active(s, e, c) <=> Ahead(s, c) <= Ahead(s, e)
<1> DEFINE S == MinuteOfDay(s)
           E == MinuteOfDay(e)
           C == MinuteOfDay(c)
<1>1. S \in 0..Day - 1 /\ E \in 0..Day - 1 /\ C \in 0..Day - 1
  BY MinuteRange
<1>2. Day \in Nat
  BY DayAssumption DEF Day
<1>3. Ahead(s, c) = (IF C - S >= 0 THEN C - S ELSE C - S + Day)
  BY DEF Ahead
<1>4. Ahead(s, e) = (IF E - S >= 0 THEN E - S ELSE E - S + Day)
  BY DEF Ahead
<1>5. Active(s, e, c) <=> IF S <= E THEN C >= S /\ C <= E ELSE C >= S \/ C <= E
  BY DEF Active
<1> HIDE DEF S, E, C
<1>6. QED
  BY <1>1, <1>2, <1>3, <1>4, <1>5

\* A minute of the clock that is no edge leaves the decision as it is.
LEMMA EdgeStep ==
    ASSUME NEW s \in ClockTime, NEW e \in ClockTime, NEW c \in ClockTime,
           NextMinute(c) # s, c # e
    PROVE  Active(s, e, NextMinute(c)) <=> Active(s, e, c)
<1> DEFINE S == MinuteOfDay(s)
           E == MinuteOfDay(e)
           C == MinuteOfDay(c)
           D == MinuteOfDay(NextMinute(c))
<1>1. NextMinute(c) \in ClockTime
  BY MinuteAdvances
<1>2. S \in 0..Day - 1 /\ E \in 0..Day - 1 /\ C \in 0..Day - 1 /\ D \in 0..Day - 1
  BY <1>1, MinuteRange
<1>3. D = IF C = Day - 1 THEN 0 ELSE C + 1
  BY MinuteAdvances
<1>4. Day \in Nat
  BY DayAssumption DEF Day
<1>5. D # S
  BY <1>1, MinuteInjective
<1>6. C # E
  BY MinuteInjective
<1>7. Active(s, e, c) <=> IF S <= E THEN C >= S /\ C <= E ELSE C >= S \/ C <= E
  BY DEF Active
<1>8. Active(s, e, NextMinute(c)) <=>
        IF S <= E THEN D >= S /\ D <= E ELSE D >= S \/ D <= E
  BY DEF Active
<1> HIDE DEF S, E, C, D
<1>9. QED
  BY <1>2, <1>3, <1>4, <1>5, <1>6, <1>7, <1>8

\* The decision for a clock time under the present setting.
Verdict(c) == Active(alarm["start"], alarm["end"], c)

\* What the last trigger asked for is the present verdict unless something has
\* overtaken it, and so is what the reading under way will ask for.
Current ==
    /\ clock \in ClockTime /\ seen \in ClockTime
    /\ Valid /\ ~due => (on <=> Verdict(clock))
    /\ Valid /\ reading /\ ~stale => (Verdict(seen) <=> Verdict(clock))

\* The reading a loop leaves behind is a clock time.
LEMMA MidnightIsTime == Midnight \in ClockTime
  BY DayAssumption DEF Midnight, ClockTime, Hour, Minute

\* No step lets a verdict grow old unnoticed.
LEMMA CurrentNext == Current /\ [Next]_vars => Current'
<1> SUFFICES ASSUME Current, [Next]_vars PROVE Current'
  OBVIOUS
<1> USE DEF settings, loop
<1>1. CASE MinutePasses
  <2>1. clock' = NextMinute(clock) /\ clock' \in ClockTime /\ seen' \in ClockTime
    BY <1>1, MinuteAdvances DEF MinutePasses, Current
  <2>2. UNCHANGED <<alarm, reading, seen, on>>
    BY <1>1 DEF MinutePasses
  <2>3. CASE EdgePasses
    BY <1>1, <2>1, <2>2, <2>3 DEF MinutePasses, Overtakes, Current
  <2>4. CASE ~EdgePasses
    <3>1. UNCHANGED <<due, stale>>
      BY <1>1, <2>4 DEF MinutePasses
    <3>2. Valid' <=> Valid
      BY <2>2 DEF Valid
    <3>3. Verdict(seen)' <=> Verdict(seen)
      BY <2>2 DEF Verdict, Active, MinuteOfDay
    <3>4. Verdict(clock)' <=> Active(alarm["start"], alarm["end"], NextMinute(clock))
      BY <2>1, <2>2 DEF Verdict, Active, MinuteOfDay
    <3>5. Valid => (Active(alarm["start"], alarm["end"], NextMinute(clock))
                     <=> Verdict(clock))
      BY <2>1, <2>4, EdgeStep DEF EdgePasses, Valid, Alarm, Verdict, Current
    <3>6. QED
      BY <2>1, <2>2, <3>1, <3>2, <3>3, <3>4, <3>5 DEF Current
  <2>5. QED
    BY <2>3, <2>4
<1>2. CASE ClockIsSet
  BY <1>2 DEF ClockIsSet, Overtakes, Current
<1>3. ASSUME NEW a \in Alarm, AddAlarm(a) PROVE Current'
  BY <1>3 DEF AddAlarm, Overtakes, Current
<1>4. CASE UNCHANGED <<clock, alarm, loop, due, stale>>
  BY <1>4 DEF Current, Valid, Verdict, Active, MinuteOfDay
<1>5. CASE ReadClock
  <2>1. UNCHANGED <<clock, alarm, on, due>> /\ seen' = clock
    BY <1>5 DEF ReadClock
  <2>2. QED
    BY <2>1 DEF Current, Valid, Verdict, Active, MinuteOfDay
<1>6. CASE SkipTrigger
  <2>1. UNCHANGED <<clock, alarm, on, due>> /\ seen' = Midnight /\ reading' = FALSE
    BY <1>6 DEF SkipTrigger, LoopEnds
  <2>2. QED
    BY <2>1, MidnightIsTime DEF Current, Valid, Verdict, Active, MinuteOfDay
<1>7. CASE Trigger
  <2>1. UNCHANGED <<clock, alarm>> /\ seen' = Midnight /\ reading' = FALSE
    BY <1>7 DEF Trigger, LoopEnds
  <2>2. reading /\ on' = Verdict(seen) /\ due' = stale
    BY <1>7 DEF Trigger, Verdict
  <2>3. (Valid' <=> Valid) /\ (Verdict(clock)' <=> Verdict(clock))
    BY <2>1 DEF Valid, Verdict, Active, MinuteOfDay
  <2>4. QED
    BY <2>1, <2>2, <2>3, MidnightIsTime DEF Current
<1>8. QED
  BY <1>1, <1>2, <1>3, <1>4, <1>5, <1>6, <1>7
     DEF Next, vars, TimeIsLost, TimeIsFound, SetMode

\* For a day of any length and every setting in range, also over midnight, and
\* however many minutes pass without an evaluation, the lamp is asked for exactly
\* on the arc from start to end until an edge passes or something is set
\* (app_schedule.c:223-295).
THEOREM ArcFollowed == Spec => []FollowsArc
<1>1. Init => Current
  BY MidnightIsTime DEF Init, Current
<1>2. Current => FollowsArc
  BY ActiveIsArc DEF Current, FollowsArc, Verdict, Valid, Alarm
<1>3. QED
  BY <1>1, <1>2, CurrentNext, PTL DEF Spec

=============================================================================
