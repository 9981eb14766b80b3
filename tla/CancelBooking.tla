--------------------------- MODULE CancelBooking ---------------------------
(***************************************************************************)
(* CancelBookingUseCase, for the customer who booked and for an owner.     *)
(***************************************************************************)
EXTENDS BookingState

Goals == CancelledStatus

\* BR-REL-05: a customer gives up a confirmed slot only before it starts and
\* before the venue's cancellation window closes.
InCancelWindow(b) ==
    LET start == bookings[b].slot.start
    IN  now < start /\ now <= start - CancelBefore

\* A plausible slip: any booking can be cancelled.
BeginCancel_AnyStatus(a, b, goal) ==
    /\ a \in Requests
    /\ b \in Stored
    /\ Begin(a, "cancel", [Idle EXCEPT
          !.at = "cancel.update",
          !.booking = b, !.seen = bookings[b].status, !.goal = goal])
    /\ UNCHANGED <<now, holdUntil, bookings, audit, payment, refunded, board,
                   faults, history>>

\* findById, isValidTransition and the time checks; goal tells who asks.
BeginCancel(a, b, goal) ==
    /\ a \in Requests
    /\ b \in Stored
    /\ isValidTransition(bookings[b].status, goal)
    /\ bookings[b].status = "CONFIRMED" /\ goal = "CANCELLED_BY_USER"
          => InCancelWindow(b)
    /\ Begin(a, "cancel", [Idle EXCEPT
          !.at = IF bookings[b].status = "HOLD" THEN "cancel.release"
                                                ELSE "cancel.update",
          !.booking = b, !.seen = bookings[b].status, !.goal = goal])
    /\ UNCHANGED <<now, holdUntil, bookings, audit, payment, refunded, board,
                   faults, history>>

\* POST /owner/bookings/:bookingId/cancel
OwnerCancels(a, b) == BeginCancel(a, b, "CANCELLED_BY_OWNER")

\* BR-REL-03: a hold's lock goes first, while the row still says HOLD.
CancelRelease(a) ==
    /\ At(a, "cancel.release")
    /\ Release(TargetSlot(a))
    /\ Goto(a, "cancel.update")
    /\ UNCHANGED <<now, bookings, audit, payment, refunded, board, faults,
                   exposed, revived>>

CancelUpdate(a) ==
    /\ At(a, "cancel.update")
    /\ update(Target(a), req[a].goal)
    /\ Goto(a, "cancel.audit")
    /\ UNCHANGED <<now, holdUntil, audit, payment, refunded, board, faults, history>>

\* Audit what was read, broadcast, and answer: a refund is promised exactly
\* when the booking was CONFIRMED when it was read.
CancelAudit(a) ==
    /\ At(a, "cancel.audit")
    /\ auditCreate(Target(a), req[a].seen, req[a].goal)
    /\ emit(TargetSlot(a), "slot.released")
    /\ refunded' = IF req[a].seen = "CONFIRMED" THEN refunded \cup {Target(a)}
                                                ELSE refunded
    /\ Finish(a)
    /\ UNCHANGED <<now, holdUntil, bookings, payment, faults, history>>

CancelStep(a) ==
    \/ CancelRelease(a)
    \/ CancelUpdate(a)
    \/ CancelAudit(a)
=============================================================================
