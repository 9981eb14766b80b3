----------------------------- MODULE CreateHold -----------------------------
(***************************************************************************)
(* CreateHoldUseCase: lock the slot in Redis, look for conflicts in        *)
(* Postgres, insert the booking, point the lock at it, audit.              *)
(***************************************************************************)
EXTENDS BookingState

\* Bound: an insert always finds a free id.
RoomForBooking ==
    Cardinality(Stored) + Cardinality({a \in Actors : req[a].at \in CreateStages})
        < MaxBookings

\* Court, operating hours, price and policy are read; holdExpiresAt is
\* computed before the lock is asked for.  Nothing compares s with the clock.
BeginCreateHold(a, s) ==
    /\ a \in Requests
    /\ RoomForBooking
    /\ now + HoldTTL < MaxTime
    /\ Begin(a, "createHold", [Idle EXCEPT !.at = "create.acquire", !.slot = s,
                             !.expires = now + HoldTTL])
    /\ UNCHANGED <<now, holdUntil, bookings, audit, payment, refunded, board,
                   faults, history>>

AcquireHold(a) ==
    /\ At(a, "create.acquire")
    /\ acquireHold(req[a].slot)
    /\ emit(req[a].slot, "slot.locked")
    /\ kept' = kept \cup {a}
    /\ Goto(a, "create.check")
    /\ UNCHANGED <<now, bookings, audit, payment, refunded, faults, exposed, revived>>

\* SlotConflictError: another request holds the key.
AcquireRefused(a) ==
    /\ At(a, "create.acquire")
    /\ isHeld(req[a].slot)
    /\ Finish(a)
    /\ UNCHANGED <<now, holdUntil, bookings, audit, payment, refunded, board,
                   faults, history>>

CheckConflicts(a) ==
    /\ At(a, "create.check")
    /\ IF findConflicting(req[a].slot, {}) = {}
       THEN Goto(a, "create.row") /\ UNCHANGED kept
       ELSE Goto(a, "create.release") /\ kept' = kept \ {a}
    /\ UNCHANGED <<now, holdUntil, bookings, audit, payment, refunded, board,
                   faults, exposed, revived>>

\* The database shows a conflict: release, tell the clients "slot.locked",
\* and throw, inside the try block.
ReleaseOnConflict(a) ==
    /\ At(a, "create.release")
    /\ Release(req[a].slot)
    /\ emit(req[a].slot, "slot.locked")
    /\ Goto(a, "create.catch")
    /\ UNCHANGED <<now, bookings, audit, payment, refunded, faults, exposed, revived>>

\* The catch block releases, a second time after a conflict.
ReleaseInCatch(a) ==
    /\ At(a, "create.catch")
    /\ Release(req[a].slot)
    /\ emit(req[a].slot, "slot.locked")
    /\ Finish(a)
    /\ UNCHANGED <<now, bookings, audit, payment, refunded, faults, exposed, revived>>

CreateRow(a) ==
    /\ At(a, "create.row")
    /\ \E b \in BookingIds :
          /\ IsNextId(b)
          /\ create(b, req[a].slot, req[a].expires)
          /\ req' = [req EXCEPT ![a] = [@ EXCEPT !.at = "create.update", !.booking = b]]
    /\ kept' = kept \ {a}
    /\ exposed' = IF a \in kept THEN exposed ELSE exposed \cup {req[a].slot}
    /\ UNCHANGED <<now, holdUntil, audit, payment, refunded, board, faults, revived>>

\* A plausible slip: the lock is dropped to be taken again, and is not.
UpdateHold_OnlyReleases(a) ==
    /\ At(a, "create.update")
    /\ releaseHold(req[a].slot)
    /\ emit(req[a].slot, "slot.locked")
    /\ Goto(a, "create.audit")
    /\ UNCHANGED <<now, bookings, audit, payment, refunded, faults, history>>

UpdateHold(a) ==
    /\ At(a, "create.update")
    /\ updateHold(req[a].slot)
    /\ emit(req[a].slot, "slot.locked")
    /\ Goto(a, "create.audit")
    /\ UNCHANGED <<now, bookings, audit, payment, refunded, faults, history>>

AuditHold(a) ==
    /\ At(a, "create.audit")
    /\ auditCreate(Target(a), "NONE", "HOLD")
    /\ Finish(a)
    /\ UNCHANGED <<now, holdUntil, bookings, payment, refunded, board, faults, history>>

\* A call of the try block throws: the catch block runs.
CreateFault(a) ==
    /\ req[a].at \in CreateStages \ {"create.acquire", "create.catch"}
    /\ faults < MaxFaults
    /\ faults' = faults + 1
    /\ kept' = kept \ {a}
    /\ Goto(a, "create.catch")
    /\ UNCHANGED <<now, holdUntil, bookings, audit, payment, refunded, board,
                   exposed, revived>>

\* acquireHold throws before the try block, or the catch block's release
\* throws and is ignored: the request just ends.
CreateAbort(a) ==
    /\ req[a].at \in {"create.acquire", "create.catch"}
    /\ faults < MaxFaults
    /\ faults' = faults + 1
    /\ Finish(a)
    /\ UNCHANGED <<now, holdUntil, bookings, audit, payment, refunded, board, history>>

CreateHoldStep(a) ==
    \/ AcquireHold(a)
    \/ AcquireRefused(a)
    \/ CheckConflicts(a)
    \/ ReleaseOnConflict(a)
    \/ ReleaseInCatch(a)
    \/ CreateRow(a)
    \/ UpdateHold(a)
    \/ AuditHold(a)
=============================================================================
