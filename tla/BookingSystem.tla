--------------------------- MODULE BookingSystem ---------------------------
(***************************************************************************)
(* The booking subsystem: every use case and job running against the same  *)
(* Postgres rows and Redis keys, calls that fail, processes that crash,    *)
(* and time.                                                               *)
(***************************************************************************)
EXTENDS CreateHold, ConfirmBooking, CancelBooking, BookingJobs

Init == StateInit

Tick ==
    /\ now < MaxTime
    /\ PassTime
    /\ kept' = {k \in kept : holdUntil'[req[k].slot] # 0}
    /\ UNCHANGED <<bookings, audit, req, payment, refunded, board, faults,
                   exposed, revived>>

\* A call throws and nothing catches it below the controller or the cron
\* handler: what was done stays done, the rest is not.
RequestFault(a) ==
    /\ req[a].at \in (BookingStages \ CreateStages) \cup {"complete.bulk"}
    /\ a \in Requests \/ req[a].at = "complete.bulk"
    /\ faults < MaxFaults
    /\ faults' = faults + 1
    /\ Finish(a)
    /\ UNCHANGED <<now, holdUntil, bookings, audit, payment, refunded, board, history>>

\* The process dies and is restarted: the stores stay, the requests are gone.
Crash ==
    /\ ~Quiescent
    /\ faults < MaxFaults
    /\ faults' = faults + 1
    /\ req' = [a \in Actors |-> Idle]
    /\ kept' = {}
    /\ UNCHANGED <<now, holdUntil, bookings, audit, payment, refunded, board,
                   exposed, revived>>

Begins(a) ==
    \/ \E s \in Slots : BeginCreateHold(a, s)
    \/ \E b \in BookingIds : \/ BeginConfirm(a, b)
                             \/ BeginWebhook(a, b)
                             \/ BeginCancel(a, b, "CANCELLED_BY_USER")
                             \/ OwnerCancels(a, b)
    \/ BeginExpireHolds(a)
    \/ BeginReconcileHolds(a)
    \/ BeginComplete(a)

\* The next step of what a is doing.
Step(a) == CreateHoldStep(a) \/ ConfirmStep(a) \/ WebhookStep(a)
              \/ CancelStep(a) \/ JobStep(a)

Faults(a) == CreateFault(a) \/ CreateAbort(a) \/ RequestFault(a)
                \/ \E b \in BookingIds : ItemFault(a, b)

Next ==
    \/ Tick
    \/ Crash
    \/ \E b \in BookingIds : Pay(b)
    \/ \E a \in Actors : Begins(a) \/ Step(a) \/ Faults(a)

Spec == Init /\ [][Next]_vars

(***************************************************************************)
(* Time passes, a running handler goes on (the event loop is fair and its  *)
(* calls return or throw), and each cron job gets its turn again and       *)
(* again.  Nothing obliges a customer, an owner or the provider to act.    *)
(***************************************************************************)
Fairness ==
    /\ WF_vars(Tick)
    /\ \A a \in Actors : WF_vars(Step(a))
    /\ \A a \in Jobs : SF_vars(BeginExpireHolds(a)) /\ SF_vars(BeginComplete(a))

FairSpec == Spec /\ Fairness

-----------------------------------------------------------------------------
TypeOK == HoldServiceTypeOK /\ BookingRepositoryTypeOK /\ StateTypeOK

Colliding(b, c) ==
    /\ Blocking(b) /\ Blocking(c)
    /\ bookings[b].slot.court = bookings[c].slot.court
    /\ Overlaps(bookings[b].slot, bookings[c].slot)

(***************************************************************************)
(* No two blocking bookings of a court overlap.  createHold's lock and     *)
(* conflict query are there for nothing else.                              *)
(***************************************************************************)
NoDoubleBooking == \A b, c \in BookingIds : Colliding(b, c) => b = c

(***************************************************************************)
(* The ways one slot can be booked twice: a request inserted its row after *)
(* its key had lapsed, been deleted by another request or expired, or a    *)
(* booking that had given the slot up was confirmed again by a request     *)
(* that had read it before.  Any other double booking of one slot would be *)
(* a hole in the lock-check-insert protocol of createHold itself.          *)
(***************************************************************************)
DoubleBookingHasCause ==
    \A b, c \in BookingIds :
        /\ Blocking(b) /\ Blocking(c) /\ b # c
        /\ bookings[b].slot = bookings[c].slot
        => \/ bookings[b].slot \in exposed
           \/ b \in revived \/ c \in revived

(***************************************************************************)
(* Between its lock and its insert a request whose key never lapsed has    *)
(* the slot for itself: nobody else is there with a live key of their own, *)
(* and the key is in Redis.                                                *)
(***************************************************************************)
HoldersExclude ==
    \A k \in kept :
        /\ isHeld(req[k].slot)
        /\ \A l \in kept : req[k].slot = req[l].slot => k = l

(***************************************************************************)
(* Every audit row is a transition the state machine declares valid, or    *)
(* the creation of a hold, however stale the status its writer had read.   *)
(***************************************************************************)
AuditedTransitionsAreValid ==
    \A b \in BookingIds : \A i \in 1..Len(audit[b]) :
        \/ audit[b][i] = [fromStatus |-> "NONE", toStatus |-> "HOLD"]
        \/ isValidTransition(audit[b][i].fromStatus, audit[b][i].toStatus)

(***************************************************************************)
(* BR-REL-09, "mandatory after every release": once every request has run  *)
(* to its end and nothing has failed, the last audit row of a booking that *)
(* gave its slot up says so.                                               *)
(***************************************************************************)
ReleasesAreAudited ==
    Quiescent /\ faults = 0 =>
        \A b \in Stored :
            bookings[b].status \in CancelledStatus \cup {"EXPIRED"} =>
                /\ audit[b] # <<>>
                /\ audit[b][Len(audit[b])].toStatus = bookings[b].status

(***************************************************************************)
(* A hold the customer may still confirm is covered by its Redis key, so   *)
(* nobody else gets as far as the database.                                *)
(***************************************************************************)
LiveHoldIsLocked ==
    Quiescent /\ faults = 0 =>
        \A b \in Stored :
            bookings[b].status = "HOLD" /\ now < bookings[b].holdExpiresAt
                => isHeld(bookings[b].slot)

(***************************************************************************)
(* What "slot.released" tells a venue's clients ("slot is available        *)
(* again") is true until the next event about that slot.                   *)
(***************************************************************************)
ReleasedSlotIsFree ==
    Quiescent =>
        \A b \in Stored :
            Blocking(b) => board[bookings[b].slot] # "slot.released"

(***************************************************************************)
(* "slot.locked" ("a slot was just held by someone") is true until the     *)
(* next event about that slot: there is a key, or a booking in the way.    *)
(***************************************************************************)
LockedSlotIsTaken ==
    Quiescent =>
        \A s \in Slots :
            board[s] = "slot.locked" => isHeld(s) \/ findConflicting(s, {}) # {}

(***************************************************************************)
(* A promised refund goes with a booking that stays cancelled.             *)
(***************************************************************************)
RefundedIsCancelled ==
    \A b \in refunded : bookings[b].status \in CancelledStatus

-----------------------------------------------------------------------------
(***************************************************************************)
(* Why the above holds: what a request's local variables mean between its  *)
(* calls, and what the lock is worth to a request that has checked.        *)
(***************************************************************************)
RequestOK(r, stored) ==
    /\ r.at \in CreateStages => r.slot \in Slots
    /\ r.at \in BookingStages => r.booking \in stored
    /\ r.at \in CancelStages => /\ isValidTransition(r.seen, r.goal)
                                /\ r.goal \in CancelledStatus
    /\ r.todo \subseteq stored

RequestsOK == \A a \in Actors : RequestOK(req[a], Stored)

\* A history variable of the critical section: its members are in it.
KeptInside == \A k \in kept : req[k].at \in {"create.check", "create.row"}

\* Who has checked under a key that never lapsed may still insert.
CheckedSlotIsFree ==
    \A k \in kept : \A b \in BookingIds :
        /\ At(k, "create.row")
        /\ Blocking(b) /\ bookings[b].slot = req[k].slot
        => b \in revived \/ req[k].slot \in exposed

ExclusionInv ==
    KeptInside /\ HoldersExclude /\ CheckedSlotIsFree /\ DoubleBookingHasCause

IInv == TypeOK /\ RequestsOK /\ ExclusionInv /\ AuditedTransitionsAreValid

-----------------------------------------------------------------------------
ASSUME NoReservationAssumption == NoBooking \notin [slot : Slots, status : Status]

\* The rows, with locks, requests and time forgotten.
ReservationTable ==
    [b \in BookingIds |->
        IF b \in Stored
        THEN [slot |-> bookings[b].slot, status |-> bookings[b].status]
        ELSE NoBooking]

\* The abstract specification.
Reservation == INSTANCE SlotReservation WITH
    Ids <- BookingIds,
    Free <- NoBooking,
    table <- ReservationTable

(***************************************************************************)
(* Every step of the system is one the abstract reservation table allows,  *)
(* or leaves the table alone.                                              *)
(***************************************************************************)
ImplementsReservation == Reservation!Spec

-----------------------------------------------------------------------------
(***************************************************************************)
(* BR-REL-02: a hold does not outlive its expiry for ever; it is confirmed *)
(* or gives the slot back.                                                 *)
(***************************************************************************)
StaleHoldsEnd ==
    \A b \in BookingIds :
        HasStatus(b, {"HOLD"}) /\ bookings[b].holdExpiresAt <= now
            ~> HasStatus(b, Status \ {"HOLD"})

(***************************************************************************)
(* BR-REL-07: a confirmed booking whose end has passed is completed, or    *)
(* was cancelled in the meantime.                                          *)
(***************************************************************************)
FinishedBookingsEnd ==
    \A b \in BookingIds :
        HasStatus(b, {"CONFIRMED"}) /\ bookings[b].slot.end <= now
            ~> HasStatus(b, Status \ {"CONFIRMED"})

-----------------------------------------------------------------------------
(***************************************************************************)
(* "COMPLETED is a terminal state - no further transitions allowed", and   *)
(* VALID_TRANSITIONS says the same of the other three.                     *)
(***************************************************************************)
TerminalStatesAreFinal ==
    [][\A b \in Stored : bookings[b].status \in TerminalStatus
                            => bookings'[b].status = bookings[b].status]_vars

(***************************************************************************)
(* "holdExpiresAt is authoritative": a hold is not confirmed after it.     *)
(***************************************************************************)
ConfirmedInTime ==
    [][\A b \in Stored : HasStatus(b, {"HOLD"}) /\ HasStatus(b, {"CONFIRMED"})'
                            => now <= bookings[b].holdExpiresAt]_vars

(***************************************************************************)
(* "No payment, no refund": a hold that is cancelled, and is therefore     *)
(* refunded nothing, has not been paid.                                    *)
(***************************************************************************)
CancelledHoldIsUnpaid ==
    [][\A b \in Stored : HasStatus(b, {"HOLD"}) /\ HasStatus(b, CancelledStatus)'
                            => payment[b] # "PAID"]_vars
=============================================================================
