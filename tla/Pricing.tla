------------------------------ MODULE Pricing -------------------------------
(***************************************************************************)
(* Opening hours and prices of a court: what the availability grid makes   *)
(* of them, and what createHold does.  The code compares times of day as   *)
(* "HH:mm" strings, padded, hence in the order of the minutes they stand   *)
(* for: the seconds of an instant are cut off.  A time is a number of      *)
(* ticks, fractions of a minute; day d begins at d * Day.                  *)
(***************************************************************************)
EXTENDS SlotRange, SequencesExt

CONSTANTS Minute,      \* ticks to a minute
          Hour,        \* ticks to an hour
          Day,         \* ticks to a day
          Weekend,     \* the days that are Saturdays and Sundays
          DefaultRate, \* 100000 VND, per tick
          NoRow        \* no operating hours for a day

ASSUME PricingBounds ==
    /\ {Minute, Hour, Day, DefaultRate} \subseteq Nat \ {0}
    /\ Hour % Minute = 0 /\ Day % Hour = 0

\* The times "HH:mm" of the rows.
Clock == {t \in 0..Day : t % Minute = 0}

OpeningHours == [open : Clock, close : Clock, isClosed : BOOLEAN]

ASSUME NoRowAssumption == NoRow \notin OpeningHours

\* A rate is the pricePerHour of the code divided by the ticks of an hour.
Rule == [dayType : {"WEEKDAY", "WEEKEND"}, start : Clock, end : Clock, rate : Nat]

VARIABLES hours,  \* hours[d]: the row of operating_hours for the weekday of d
          rules   \* the pricing rules of the court, as the database orders them

dayOf(t) == t \div Day
timeOfDay(t) == t % Day

\* toISOString().substring(11, 16)
clockTime(t) == timeOfDay(t) - (timeOfDay(t) % Minute)

dayType(d) == IF d \in Weekend THEN "WEEKEND" ELSE "WEEKDAY"

\* JavaScript's a || b for numbers.
Or(a, b) == IF a = 0 THEN b ELSE a

OpenOn(d) == hours[d] # NoRow /\ ~hours[d].isClosed

\* Whether the day has hours, not whether it is closed, is asked.
ValidateOperatingHours_ClosedToo(s) ==
    \/ \A d \in DOMAIN hours : hours[d] = NoRow
    \/ LET row == hours[dayOf(s.start)]
       IN /\ row # NoRow
          /\ clockTime(s.start) >= row.open /\ clockTime(s.end) <= row.close

\* createHold: without any row there is no restriction; otherwise the minutes
\* of both ends are compared with the hours of the day of the start.
validateOperatingHours(s) ==
    \/ \A d \in DOMAIN hours : hours[d] = NoRow
    \/ /\ OpenOn(dayOf(s.start))
       /\ clockTime(s.start) >= hours[dayOf(s.start)].open
       /\ clockTime(s.end) <= hours[dayOf(s.start)].close

\* The first rule of the day type that holds from the start to the end.
ChargingRule(s) ==
    SelectInSeq(rules, LAMBDA r : /\ r.dayType = dayType(dayOf(s.start))
                                  /\ r.start <= clockTime(s.start)
                                  /\ r.end >= clockTime(s.end))

Rate(s) ==
    IF rules = <<>> THEN DefaultRate
    ELSE IF ChargingRule(s) > 0 THEN rules[ChargingRule(s)].rate
    ELSE Or(rules[1].rate, DefaultRate)

calculatePrice(s) == Rate(s) * (s.end - s.start)

\* A rule that ends when the slot begins is taken for the slot's.
ShowingRule_UpToEnd(s) ==
    SelectInSeq(rules, LAMBDA r : /\ r.dayType = dayType(dayOf(s.start))
                                  /\ r.start <= timeOfDay(s.start)
                                  /\ r.end >= timeOfDay(s.start))

\* The grid: the first rule of the day type that holds at the start, which is
\* on the hour.
ShowingRule(s) ==
    SelectInSeq(rules, LAMBDA r : /\ r.dayType = dayType(dayOf(s.start))
                                  /\ r.start <= timeOfDay(s.start)
                                  /\ r.end > timeOfDay(s.start))

ShownPrice(s) ==
    Hour * IF ShowingRule(s) = 0 THEN DefaultRate
           ELSE Or(rules[ShowingRule(s)].rate, DefaultRate)
=============================================================================
