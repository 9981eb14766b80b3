--------------------------- MODULE CourtSchedule ----------------------------
(***************************************************************************)
(* One court between a customer who looks at the availability grid and     *)
(* asks for a range, others who book, pay and cancel, and an owner who     *)
(* looks at the figures.  Requests run one at a time here (BookingSystem   *)
(* interleaves them); what matters is whether the parts of the code that   *)
(* read hours, rules and bookings agree with each other.                   *)
(***************************************************************************)
EXTENDS Pricing, BookingStatus, FiniteSets

CONSTANTS MaxRows,    \* bound: rows of bookings
          Schedules,  \* the hours and rules a court may have
          Ranges      \* the ranges asked for

\* Any two instants, see SlotRange.
Asked == [start : Nat, end : Nat]

\* Days are numbered from zero, and there are rows for all that is asked for.
ASSUME SchedulesAssumption ==
    \A s \in Schedules :
        LET days == DOMAIN s.hours
        IN /\ IsFiniteSet(days) /\ days = 0..(Cardinality(days) - 1)
           /\ s.hours \in [days -> OpeningHours \cup {NoRow}]
           /\ s.rules \in Seq(Rule)
           /\ \A r \in Ranges : r.start \div Day \in days

ASSUME RangesAssumption == Ranges \subseteq Asked

ASSUME RowsBound == MaxRows \in Nat

RowIds == 1..MaxRows

VARIABLES bookings,  \* bookings[b]: the row of b, or NoRow
          grid,      \* the grid the customer has on the screen, until somebody
                     \* books or cancels
          answer,    \* history: what the last request for a hold was answered
                     \* in front of an up to date grid
          earned     \* history: the prices of bookings confirmed, and not cancelled

scheduleVars == <<hours, rules, bookings, grid, answer, earned>>

CourtBooking == [start : Nat, end : Nat, status : Status, price : Int]

ASSUME NoBookingRowAssumption == NoRow \notin CourtBooking

\* Every instant of the days there are.
Instants == 0..(Cardinality(DOMAIN hours) * Day)

GridSlot == [start : Instants, end : Instants, status : {"AVAILABLE", "HOLD", "BOOKED"},
             price : Nat]

SlotConflictError == "SLOT_CONFLICT"
OutsideOperatingHoursError == "OUTSIDE_OPERATING_HOURS"

Verdicts == {"NONE", OutsideOperatingHoursError, SlotConflictError, "HOLD"}

Answer == [start : Nat, end : Nat, verdict : Verdicts, price : Int,
           shown : SUBSET GridSlot]

NoAnswer == [start |-> 0, end |-> 0, verdict |-> "NONE", price |-> 0, shown |-> {}]

\* Hours and rules are those of one of the schedules.
Scheduled == \E s \in Schedules : hours = s.hours /\ rules = s.rules

ScheduleTypeOK ==
    /\ Scheduled
    /\ bookings \in [RowIds -> CourtBooking \cup {NoRow}]
    /\ grid \subseteq GridSlot
    /\ answer \in Answer
    /\ earned \in Int

ScheduleInit ==
    /\ Scheduled
    /\ bookings = [b \in RowIds |-> NoRow]
    /\ grid = {}
    /\ answer = NoAnswer
    /\ earned = 0

Booked == {b \in RowIds : bookings[b] # NoRow}

Blocking(b) == b \in Booked /\ bookings[b].status \in BLOCKING_STATUSES

findConflicting(s) == {b \in Booked : Blocking(b) /\ MatchesConflictQuery(s, bookings[b])}

-----------------------------------------------------------------------------
(* GET /courts/:id/availability *)

\* From midnight to the last millisecond before the next: times are whole
\* ticks, so the next midnight stands for that millisecond.
WholeDay(d) == [start |-> d * Day, end |-> (d + 1) * Day]

Takers(s) == {b \in findConflicting(WholeDay(dayOf(s.start))) : GridSlotTaken(s, bookings[b])}

\* The first of them in the order of the database decides.
SlotStatus(s) ==
    IF Takers(s) = {} THEN "AVAILABLE"
    ELSE LET first == CHOOSE b \in Takers(s) : \A c \in Takers(s) : b <= c
         IN IF bookings[first].status = "HOLD" THEN "HOLD" ELSE "BOOKED"

\* One slot too many.
HourSlots_Inclusive(d) ==
    {[start |-> d * Day + h * Hour, end |-> d * Day + (h + 1) * Hour] :
        h \in (hours[d].open \div Hour)..(hours[d].close \div Hour)}

\* Whole hours: the minutes of the opening hours are dropped.
HourSlots(d) ==
    {[start |-> d * Day + h * Hour, end |-> d * Day + (h + 1) * Hour] :
        h \in (hours[d].open \div Hour)..((hours[d].close \div Hour) - 1)}

GetAvailability(d) ==
    IF ~OpenOn(d) THEN {}
    ELSE {[start |-> s.start, end |-> s.end, status |-> SlotStatus(s),
           price |-> IF SlotStatus(s) = "AVAILABLE" THEN ShownPrice(s) ELSE 0] :
            s \in HourSlots(d)}

ShowGrid(d) ==
    /\ grid' = GetAvailability(d)
    /\ answer' = NoAnswer
    /\ UNCHANGED <<hours, rules, bookings, earned>>

-----------------------------------------------------------------------------
(* POST /bookings/hold, without its lock *)

Tell(s, verdict, price) ==
    answer' = IF grid = {} THEN NoAnswer
              ELSE [start |-> s.start, end |-> s.end, verdict |-> verdict,
                    price |-> price, shown |-> grid]

\* An error is answered with its code; it changed nothing.
Refuse(s, verdict) ==
    /\ Tell(s, verdict, 0)
    /\ UNCHANGED <<hours, rules, bookings, grid, earned>>

OutsideOperatingHours(s) ==
    ~validateOperatingHours(s) /\ Refuse(s, OutsideOperatingHoursError)

SlotConflict(s) ==
    /\ validateOperatingHours(s) /\ findConflicting(s) # {}
    /\ Refuse(s, SlotConflictError)

Hold(s) ==
    /\ validateOperatingHours(s)
    /\ findConflicting(s) = {}
    /\ \E b \in RowIds \ Booked :
        /\ \A c \in RowIds \ Booked : b <= c
        /\ bookings' = [bookings EXCEPT ![b] =
               [start |-> s.start, end |-> s.end, status |-> "HOLD",
                price |-> calculatePrice(s)]]
    /\ Tell(s, "HOLD", calculatePrice(s))
    /\ grid' = {}
    /\ UNCHANGED <<hours, rules, earned>>

\* Confirmed, cancelled, expired or completed.
Proceed(b, status) ==
    /\ b \in Booked
    /\ isValidTransition(bookings[b].status, status)
    /\ bookings' = [bookings EXCEPT ![b] = [@ EXCEPT !.status = status]]
    /\ earned' = earned
        + (IF status = "CONFIRMED" THEN bookings[b].price ELSE 0)
        - (IF bookings[b].status = "CONFIRMED" /\ status # "COMPLETED"
           THEN bookings[b].price ELSE 0)
    /\ grid' = {} /\ answer' = NoAnswer
    /\ UNCHANGED <<hours, rules>>

ScheduleNext ==
    \/ \E d \in DOMAIN hours : ShowGrid(d)
    \/ \E s \in Ranges : OutsideOperatingHours(s) \/ SlotConflict(s) \/ Hold(s)
    \/ \E b \in RowIds, status \in Status : Proceed(b, status)

-----------------------------------------------------------------------------
(* GET /owner/analytics/:venueId *)

PricesOf(B) == MapThenSumSet(LAMBDA b : bookings[b].price, B)

\* Completed bookings are history, and forgotten.
TotalRevenue_OnlyConfirmed(from, to) ==
    PricesOf({b \in Booked : /\ bookings[b].status = "CONFIRMED"
                             /\ from <= bookings[b].start /\ bookings[b].start <= to})

\* Confirmed and completed bookings that start in the period, ends included.
TotalRevenue(from, to) ==
    PricesOf({b \in Booked : /\ bookings[b].status \in {"CONFIRMED", "COMPLETED"}
                             /\ from <= bookings[b].start /\ bookings[b].start <= to})

-----------------------------------------------------------------------------
\* Each day opens at a full hour; the grid starts earlier if it does not.
OpensOnTheHour(d) == hours[d].open % Hour = 0

AllProper == \A b \in Booked : Blocking(b) => Proper(bookings[b])

(***************************************************************************)
(* Grid and createHold agree: a slot of an up to date grid is AVAILABLE    *)
(* exactly if it can be held, if the day opens on the hour and no booking  *)
(* ends before it begins (such a booking, which createHold accepts, blocks *)
(* what its conflict query finds and shows nowhere).                       *)
(***************************************************************************)
GridTellsTheTruth ==
    AllProper =>
        \A g \in answer.shown :
            g.start = answer.start /\ g.end = answer.end /\ OpensOnTheHour(dayOf(g.start))
                => (g.status = "AVAILABLE") = (answer.verdict = "HOLD")

\* Rules of a day that cover whole hours, cost something, and do not overlap.
ClearRules(type) ==
    \A i, j \in 1..Len(rules) :
        rules[i].dayType = type /\ rules[j].dayType = type =>
            /\ rules[i].start % Hour = 0 /\ rules[i].end % Hour = 0
            /\ rules[i].rate > 0
            /\ i # j => ~Overlaps(rules[i], rules[j])

OneRuleHolds(s) ==
    \E i \in 1..Len(rules) :
        /\ rules[i].dayType = dayType(dayOf(s.start))
        /\ rules[i].start <= timeOfDay(s.start)
        /\ rules[i].end >= s.end - dayOf(s.start) * Day

\* The slots of the grid the range is made of.
Within(s) == {g \in answer.shown : g.start >= s.start /\ g.end <= s.end}

ShownTogether(s) == MapThenSumSet(LAMBDA g : g.price, Within(s))

(***************************************************************************)
(* The customer is charged the sum of the prices the grid showed for the   *)
(* slots of the range, if the court has no rules, or its rules for that    *)
(* day are clear and one of them holds from start to end, before midnight. *)
(* Anything else is charged by another rule than the one that was shown.   *)
(***************************************************************************)
ShownPricesAddUp ==
    /\ answer.verdict = "HOLD"
    /\ Proper(answer)
    /\ Cardinality(Within(answer)) * Hour = answer.end - answer.start
    /\ \/ rules = <<>>
       \/ /\ ClearRules(dayType(dayOf(answer.start)))
          /\ OneRuleHolds(answer)
          /\ timeOfDay(answer.end) # 0
    => answer.price = ShownTogether(answer)

(***************************************************************************)
(* Nobody is on the court before it opens, nor a full minute after it has  *)
(* closed (an end of 22:00:59 passes for 22:00), but in a booking that     *)
(* runs over midnight or ends before it begins: only the minutes of the    *)
(* day are compared.                                                       *)
(***************************************************************************)
NobodyPlaysWhenClosed ==
    \A b \in Booked :
        LET s == bookings[b]
            row == hours[dayOf(s.start)]
        IN  /\ Proper(s) /\ s.end < (dayOf(s.start) + 1) * Day
            /\ \E d \in DOMAIN hours : hours[d] # NoRow
            => /\ OpenOn(dayOf(s.start))
               /\ \A t \in s.start..s.end :
                      row.open <= timeOfDay(t) /\ timeOfDay(t) < row.close + Minute

(***************************************************************************)
(* The owner's revenue is what was charged for bookings that stand: the    *)
(* figures of two periods that follow each other add up to it, unless a    *)
(* booking starts at the very instant that belongs to both.                *)
(***************************************************************************)
RevenueIsEarned ==
    \A t \in Instants :
        (\A b \in Booked : bookings[b].start # t) =>
            TotalRevenue(0, t) + TotalRevenue(t, Cardinality(DOMAIN hours) * Day) = earned
=============================================================================
