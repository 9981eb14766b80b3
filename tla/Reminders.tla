----------------------------- MODULE Reminders ------------------------------
(***************************************************************************)
(* Notifications of a booking: one when its owner confirms it, and one an  *)
(* hour before it starts, which a cron job looks for every five minutes in *)
(* a window five minutes wide, closed at both ends, that moves with the    *)
(* moment the job really runs.                                             *)
(***************************************************************************)
EXTENDS Requests, FiniteSets

CONSTANTS MaxBooking,    \* bound: rows of bookings, in order of creation
          StartOf,       \* StartOf[b]: when booking b starts
          Period,        \* five minutes between two runs, in ticks
          Lead,          \* the hour before the start, in ticks
          ReminderPage,  \* rows findMany returns when not asked for a size
          MaxTime        \* bound: when the clock stops

BookingIds == 1..MaxBooking

ASSUME RemindersBounds ==
    /\ Period \in Nat \ {0} /\ Lead \in Nat
    /\ Lead % Period = 0
    /\ {MaxBooking, ReminderPage, MaxTime} \subseteq Nat
    /\ StartOf \in [BookingIds -> Nat]

VARIABLES time, due,    \* the clock; a run of the cron job is due
          status,       \* status[b]
          confirmedAt,  \* history: when b was confirmed
          reminded,     \* reminded[b]: BOOKING_REMINDER rows for b
          noted,        \* noted[b]: BOOKING_CONFIRMED rows for b
          ran,          \* history: when the job read the bookings
          leftOut       \* history: bookings of the window beyond its page

reminderVars == <<time, due, status, confirmedAt, reminded, noted, ran, leftOut>>

ReminderCall ==
    [at : {"remind.send"}, todo : (SUBSET BookingIds) \ {{}}]
    \cup [at : {"confirm.note"}, booking : BookingIds]

RemindersTypeOK ==
    /\ time \in Nat /\ due \in BOOLEAN
    /\ status \in [BookingIds -> {"HOLD", "CONFIRMED", "CANCELLED"}]
    /\ confirmedAt \in [BookingIds -> Nat]
    /\ reminded \in [BookingIds -> Nat] /\ noted \in [BookingIds -> Nat]
    /\ ran \subseteq Nat /\ leftOut \subseteq BookingIds
    /\ RequestsTypeOK(ReminderCall)

RemindersInit ==
    /\ time = 0 /\ due = TRUE
    /\ status = [b \in BookingIds |-> "HOLD"]
    /\ confirmedAt = [b \in BookingIds |-> 0]
    /\ reminded = [b \in BookingIds |-> 0]
    /\ noted = [b \in BookingIds |-> 0]
    /\ ran = {} /\ leftOut = {}

-----------------------------------------------------------------------------
\* A run is less than a period late, or it is lost with the process.
PassMinutes ==
    /\ time < MaxTime
    /\ (time + 1) % Period = 0 => ~due
    /\ time' = time + 1
    /\ due' = (due \/ (time + 1) % Period = 0)
    /\ UNCHANGED <<status, confirmedAt, reminded, noted, ran, leftOut>>

LoseRun ==
    /\ due /\ due' = FALSE
    /\ faults < MaxFaults
    /\ faults' = faults + 1
    /\ UNCHANGED <<call, calls, time, status, confirmedAt, reminded, noted, ran,
                   leftOut>>

SetConfirmed(b) ==
    /\ status[b] = "HOLD"
    /\ status' = [status EXCEPT ![b] = "CONFIRMED"]
    /\ confirmedAt' = [confirmedAt EXCEPT ![b] = time]

\* The owner confirms; the listener of booking.confirmed stores a notification.
OwnerConfirms(c, b) ==
    /\ SetConfirmed(b)
    /\ Begin(c, [at |-> "confirm.note", booking |-> b])
    /\ UNCHANGED <<time, due, reminded, noted, ran, leftOut>>

NoteConfirmation(c) ==
    /\ At(c, "confirm.note")
    /\ noted' = [noted EXCEPT ![call[c].booking] = @ + 1]
    /\ Finish(c)
    /\ UNCHANGED <<time, due, status, confirmedAt, reminded, ran, leftOut>>

\* The payment webhook tells the socket only: no event, no notification.
WebhookConfirms(b) ==
    /\ SetConfirmed(b)
    /\ UNCHANGED <<time, due, reminded, noted, ran, leftOut>>

CancelConfirmed(b) ==
    /\ status[b] = "CONFIRMED"
    /\ status' = [status EXCEPT ![b] = "CANCELLED"]
    /\ UNCHANGED <<time, due, confirmedAt, reminded, noted, ran, leftOut>>

-----------------------------------------------------------------------------
\* The window ends where the next one begins, and does not include its end.
InWindow_HalfOpen(b) == StartOf[b] \in (time + Lead)..(time + Lead + Period - 1)

\* A window of two periods.
InWindow_Wide(b) == StartOf[b] \in (time + Lead)..(time + Lead + 2 * Period)

\* BETWEEN now + 60 and now + 65 minutes, both included.
InWindow(b) == StartOf[b] \in (time + Lead)..(time + Lead + Period)

Upcoming == {b \in BookingIds : status[b] = "CONFIRMED" /\ InWindow(b)}

\* The newest bookings first, and one page of them.
FirstPage == {b \in Upcoming : Cardinality({d \in Upcoming : d > b}) < ReminderPage}

RunReminders(c) ==
    /\ due /\ due' = FALSE
    /\ ran' = ran \cup {time}
    /\ leftOut' = leftOut \cup (Upcoming \ FirstPage)
    /\ Begin(c, IF FirstPage = {} THEN Idle
                ELSE [at |-> "remind.send", todo |-> FirstPage])
    /\ UNCHANGED <<time, status, confirmedAt, reminded, noted>>

\* Reminders go out one after the other; whoever rejects ends the loop.
SendReminder(c) ==
    /\ At(c, "remind.send")
    /\ LET b == CHOOSE b \in call[c].todo : \A d \in call[c].todo : d <= b
           rest == call[c].todo \ {b}
       IN /\ reminded' = [reminded EXCEPT ![b] = @ + 1]
          /\ Continue(c, IF rest = {} THEN Idle
                         ELSE [at |-> "remind.send", todo |-> rest])
    /\ UNCHANGED <<time, due, status, confirmedAt, noted, ran, leftOut>>

RemindersNext ==
    \/ LoseRun
    \/ PassMinutes /\ UNCHANGED requestVars
    \/ \E b \in BookingIds :
            (WebhookConfirms(b) \/ CancelConfirmed(b)) /\ UNCHANGED requestVars
    \/ \E c \in Clients :
            \/ RunReminders(c) \/ SendReminder(c) \/ NoteConfirmation(c)
            \/ Reject(c) /\ UNCHANGED reminderVars
            \/ \E b \in BookingIds : OwnerConfirms(c, b)

-----------------------------------------------------------------------------
\* Where the start lies between two instants of the cron job.
Offset(b) == StartOf[b] % Period

\* Confirmed in time, and the runs that see it are over.
OughtToKnow(b) ==
    /\ status[b] = "CONFIRMED"
    /\ confirmedAt[b] + Lead + Period + Offset(b) < StartOf[b]
    /\ time + Lead >= StartOf[b] - Offset(b)
    /\ Offset(b) = 0 \/ \A t \in ran : t % Period <= Offset(b)

(***************************************************************************)
(* A booking confirmed before its window opens is reminded of, however     *)
(* late within its period a run is, if it starts on a multiple of five     *)
(* minutes; otherwise, if no run is later than the start is off.  (No run  *)
(* lost, nothing rejected, and a page large enough.)                       *)
(***************************************************************************)
EveryoneIsReminded ==
    faults = 0 /\ Quiescent /\ ~due =>
        \A b \in BookingIds \ leftOut : OughtToKnow(b) => reminded[b] > 0

(***************************************************************************)
(* A second reminder takes two runs whose windows share the start: for a   *)
(* start on a multiple of five minutes, one exactly on the dot, an hour    *)
(* before it; otherwise a run at least as late as the start is off.        *)
(***************************************************************************)
RemindedOnce ==
    \A b \in BookingIds :
        reminded[b] > 1 =>
            IF Offset(b) = 0
            THEN StartOf[b] - Lead \in ran
            ELSE \E t \in ran : t % Period >= Offset(b)
=============================================================================
