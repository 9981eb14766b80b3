---------------------------- MODULE BookingJobs ----------------------------
(***************************************************************************)
(* The jobs of BookingSchedulerService: ExpireHoldsUseCase.expireHolds     *)
(* (BR-REL-02) and reconcileHolds (BR-REL-08), CompleteBookingsUseCase     *)
(* (BR-REL-07).  They run when their cron time comes, whatever else is in  *)
(* flight; a run with nothing to do changes nothing.  reconcileHolds also  *)
(* runs at startup, which is one of the times it may begin here.           *)
(***************************************************************************)
EXTENDS BookingState

List(stage, S) == [Idle EXCEPT !.at = stage, !.todo = S]

BeginExpireHolds(a) ==
    /\ a \in Jobs
    /\ findStaleHolds # {}
    /\ Begin(a, "expireHolds", List("expire.item", findStaleHolds))
    /\ UNCHANGED <<now, holdUntil, bookings, audit, payment, refunded, board,
                   faults, history>>

ExpireUpdate(a, b) ==
    /\ At(a, "expire.item")
    /\ b \in req[a].todo
    /\ update(b, "EXPIRED")
    /\ TakeItem(a, b, "expire.release")
    /\ UNCHANGED <<now, holdUntil, audit, payment, refunded, board, faults, history>>

ExpireRelease(a) ==
    /\ At(a, "expire.release")
    /\ Release(TargetSlot(a))
    /\ Goto(a, "expire.audit")
    /\ UNCHANGED <<now, bookings, audit, payment, refunded, board, faults,
                   exposed, revived>>

ExpireAudit(a) ==
    /\ At(a, "expire.audit")
    /\ auditCreate(Target(a), "HOLD", "EXPIRED")
    /\ emit(TargetSlot(a), "slot.released")
    /\ NextItem(a, Target(a), "expire.item")
    /\ UNCHANGED <<now, holdUntil, bookings, payment, refunded, faults, history>>

-----------------------------------------------------------------------------
BeginReconcileHolds(a) ==
    /\ a \in Jobs
    /\ findStaleHolds # {}
    /\ Begin(a, "reconcileHolds", List("reconcile.item", findStaleHolds))
    /\ UNCHANGED <<now, holdUntil, bookings, audit, payment, refunded, board,
                   faults, history>>

\* A booking whose slot key exists, for whomever, is passed over.
ReconcileCheck(a, b) ==
    /\ At(a, "reconcile.item")
    /\ b \in req[a].todo
    /\ IF isHeld(bookings[b].slot)
       THEN NextItem(a, b, "reconcile.item")
       ELSE TakeItem(a, b, "reconcile.update")
    /\ UNCHANGED <<now, holdUntil, bookings, audit, payment, refunded, board,
                   faults, history>>

ReconcileUpdate(a) ==
    /\ At(a, "reconcile.update")
    /\ update(Target(a), "EXPIRED")
    /\ Goto(a, "reconcile.audit")
    /\ UNCHANGED <<now, holdUntil, audit, payment, refunded, board, faults, history>>

ReconcileAudit(a) ==
    /\ At(a, "reconcile.audit")
    /\ auditCreate(Target(a), "HOLD", "EXPIRED")
    /\ emit(TargetSlot(a), "slot.released")
    /\ NextItem(a, Target(a), "reconcile.item")
    /\ UNCHANGED <<now, holdUntil, bookings, payment, refunded, faults, history>>

-----------------------------------------------------------------------------
\* A plausible slip: the page is taken for a batch, and a batch must be full.
BeginComplete_OfFullPage(a) ==
    /\ a \in Jobs
    /\ Cardinality(StartedConfirmedPage(PageSize)) = PageSize
    /\ Begin(a, "completeBookings", List("complete.bulk", StartedConfirmedPage(PageSize)))
    /\ UNCHANGED <<now, holdUntil, bookings, audit, payment, refunded, board,
                   faults, history>>

BeginComplete(a) ==
    /\ a \in Jobs
    /\ Begin(a, "completeBookings", List("complete.bulk", StartedConfirmedPage(PageSize)))
    /\ UNCHANGED <<now, holdUntil, bookings, audit, payment, refunded, board,
                   faults, history>>

\* One UPDATE for every finished booking, of the page or not.
CompleteBulk(a) ==
    /\ At(a, "complete.bulk")
    /\ completeExpiredBookings
    /\ IF Finished = {} \/ req[a].todo = {}
       THEN Finish(a)
       ELSE Goto(a, "complete.item")
    /\ UNCHANGED <<now, holdUntil, audit, payment, refunded, board, faults, history>>

\* Each booking of the page whose end has passed by now is audited.
CompleteAudit(a, b) ==
    /\ At(a, "complete.item")
    /\ b \in req[a].todo
    /\ IF bookings[b].slot.end <= now
       THEN auditCreate(b, "CONFIRMED", "COMPLETED")
       ELSE UNCHANGED audit
    /\ NextItem(a, b, "complete.item")
    /\ UNCHANGED <<now, holdUntil, bookings, payment, refunded, board, faults, history>>

-----------------------------------------------------------------------------
\* A call for one booking throws: it is logged and the loop goes on.
ItemFault(a, b) ==
    /\ faults < MaxFaults
    /\ faults' = faults + 1
    /\ b \in req[a].todo
    /\ \/ req[a].at \in {"expire.item", "reconcile.item", "complete.item"}
       \/ req[a].at \in {"expire.release", "expire.audit",
                         "reconcile.update", "reconcile.audit"} /\ b = Target(a)
    /\ NextItem(a, b, CASE req[a].at \in {"expire.item", "expire.release", "expire.audit"}
                             -> "expire.item"
                        [] req[a].at = "complete.item" -> "complete.item"
                        [] OTHER -> "reconcile.item")
    /\ UNCHANGED <<now, holdUntil, bookings, audit, payment, refunded, board, history>>

JobStep(a) ==
    \/ ExpireRelease(a)
    \/ ExpireAudit(a)
    \/ ReconcileUpdate(a)
    \/ ReconcileAudit(a)
    \/ CompleteBulk(a)
    \/ \E b \in BookingIds : \/ ExpireUpdate(a, b)
                             \/ ReconcileCheck(a, b)
                             \/ CompleteAudit(a, b)
=============================================================================
