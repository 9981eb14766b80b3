--------------------------- MODULE ConfirmBooking ---------------------------
(***************************************************************************)
(* The two ways a hold becomes CONFIRMED: ConfirmBookingUseCase, called by *)
(* the customer, and ProcessPaymentWebhookUseCase, called by the payment   *)
(* provider when a deposit has been paid.                                  *)
(***************************************************************************)
EXTENDS BookingState

Reads(b, stage) ==
    [Idle EXCEPT !.at = stage, !.booking = b, !.seen = bookings[b].status]

\* findByIdWithLock, then the status and expiry checks.  A request by anyone
\* but the owner of the booking, or for one that is not on HOLD, throws.
BeginConfirm(a, b) ==
    /\ a \in Requests
    /\ HasStatus(b, {"HOLD"})
    /\ Begin(a, "confirm", Reads(b, IF isHoldExpired(b) THEN "confirm.expire"
                                             ELSE "confirm.check"))
    /\ UNCHANGED <<now, holdUntil, bookings, audit, payment, refunded, board,
                   faults, history>>

\* A plausible slip: the early return leaves the audit out.
ConfirmExpire_Unaudited(a) ==
    /\ At(a, "confirm.expire")
    /\ update(Target(a), "EXPIRED")
    /\ Finish(a)
    /\ UNCHANGED <<now, holdUntil, audit, payment, refunded, board, faults, history>>

\* The hold has expired: the booking is, and the lock stays.
ConfirmExpire(a) ==
    /\ At(a, "confirm.expire")
    /\ update(Target(a), "EXPIRED")
    /\ Goto(a, "confirm.expireAudit")
    /\ UNCHANGED <<now, holdUntil, audit, payment, refunded, board, faults, history>>

ConfirmExpireAudit(a) ==
    /\ At(a, "confirm.expireAudit")
    /\ auditCreate(Target(a), "HOLD", "EXPIRED")
    /\ Finish(a)
    /\ UNCHANGED <<now, holdUntil, bookings, payment, refunded, board, faults, history>>

\* Only another CONFIRMED booking counts as a conflict here.
ConfirmCheck(a) ==
    /\ At(a, "confirm.check")
    /\ IF \A c \in findConflicting(TargetSlot(a), {Target(a)}) :
              bookings[c].status # "CONFIRMED"
       THEN Goto(a, "confirm.write")
       ELSE Finish(a)
    /\ UNCHANGED <<now, holdUntil, bookings, audit, payment, refunded, board,
                   faults, history>>

NeedsDeposit(a) == TargetSlot(a).court \in DepositCourts

\* Another link for a booking that has one, or is paid, tells nothing new.
createPaymentLink(b) ==
    payment' = [payment EXCEPT ![b] = IF @ = "NONE" THEN "LINKED" ELSE @]

\* The booking stays on HOLD until the provider reports the payment.
ConfirmPaymentLink(a) ==
    /\ At(a, "confirm.write")
    /\ NeedsDeposit(a)
    /\ createPaymentLink(Target(a))
    /\ Finish(a)
    /\ UNCHANGED <<now, holdUntil, bookings, audit, refunded, board, faults, history>>

ConfirmUpdate(a) ==
    /\ At(a, "confirm.write")
    /\ ~NeedsDeposit(a)
    /\ WriteConfirmed(Target(a))
    /\ Goto(a, "confirm.release")
    /\ UNCHANGED <<now, holdUntil, audit, payment, refunded, board, faults,
                   kept, exposed>>

ConfirmRelease(a) ==
    /\ At(a, "confirm.release")
    /\ Release(TargetSlot(a))
    /\ Goto(a, "confirm.audit")
    /\ UNCHANGED <<now, bookings, audit, payment, refunded, board, faults,
                   exposed, revived>>

\* A plausible slip: with the lock gone the slot is announced as free.
ConfirmAudit_AnnouncesRelease(a) ==
    /\ At(a, "confirm.audit")
    /\ auditCreate(Target(a), "HOLD", "CONFIRMED")
    /\ emit(TargetSlot(a), "slot.released")
    /\ Finish(a)
    /\ UNCHANGED <<now, holdUntil, bookings, payment, refunded, faults, history>>

ConfirmAudit(a) ==
    /\ At(a, "confirm.audit")
    /\ auditCreate(Target(a), "HOLD", "CONFIRMED")
    /\ emit(TargetSlot(a), "slot.updated")
    /\ Finish(a)
    /\ UNCHANGED <<now, holdUntil, bookings, payment, refunded, faults, history>>

ConfirmStep(a) ==
    \/ ConfirmExpire(a)
    \/ ConfirmExpireAudit(a)
    \/ ConfirmCheck(a)
    \/ ConfirmPaymentLink(a)
    \/ ConfirmUpdate(a)
    \/ ConfirmRelease(a)
    \/ ConfirmAudit(a)

-----------------------------------------------------------------------------
\* The customer pays a link at the provider, at any time after it exists.
Pay(b) ==
    /\ payment[b] = "LINKED"
    /\ payment' = [payment EXCEPT ![b] = "PAID"]
    /\ UNCHANGED <<now, holdUntil, bookings, audit, req, refunded, board,
                   faults, history>>

\* What gets past the signature and the success flag of a report.
PaymentReported(b) == payment[b] = "PAID"

\* A plausible slip: a paid booking is confirmed whatever its status.
BeginWebhook_AnyStatus(a, b) ==
    /\ a \in Requests
    /\ PaymentReported(b)
    /\ b \in Stored
    /\ Begin(a, "webhook", Reads(b, "webhook.update"))
    /\ UNCHANGED <<now, holdUntil, bookings, audit, payment, refunded, board,
                   faults, history>>

\* The provider reports the payment, late and as often as it likes.  Only a
\* booking on HOLD goes further; its expiry and conflicts are not looked at.
BeginWebhook(a, b) ==
    /\ a \in Requests
    /\ PaymentReported(b)
    /\ HasStatus(b, {"HOLD"})
    /\ Begin(a, "webhook", Reads(b, "webhook.update"))
    /\ UNCHANGED <<now, holdUntil, bookings, audit, payment, refunded, board,
                   faults, history>>

WebhookUpdate(a) ==
    /\ At(a, "webhook.update")
    /\ WriteConfirmed(Target(a))
    /\ Goto(a, "webhook.release")
    /\ UNCHANGED <<now, holdUntil, audit, payment, refunded, board, faults,
                   kept, exposed>>

WebhookRelease(a) ==
    /\ At(a, "webhook.release")
    /\ Release(TargetSlot(a))
    /\ Goto(a, "webhook.audit")
    /\ UNCHANGED <<now, bookings, audit, payment, refunded, board, faults,
                   exposed, revived>>

WebhookAudit(a) ==
    /\ At(a, "webhook.audit")
    /\ auditCreate(Target(a), "HOLD", "CONFIRMED")
    /\ emit(TargetSlot(a), "slot.updated")
    /\ Finish(a)
    /\ UNCHANGED <<now, holdUntil, bookings, payment, refunded, faults, history>>

WebhookStep(a) ==
    \/ WebhookUpdate(a)
    \/ WebhookRelease(a)
    \/ WebhookAudit(a)
=============================================================================
