------------------------ MODULE SerialEffectsProofs -------------------------
(***************************************************************************)
(* One request or job at a time, the bookings agree with everything that   *)
(* is kept beside them: promised refunds, the events the clients were      *)
(* sent, the keys in Redis and the audit log.                              *)
(***************************************************************************)
EXTENDS SerialProofs

-----------------------------------------------------------------------------
(***************************************************************************)
(* Refunds.                                                                *)
(***************************************************************************)
LEMMA RefundWritten ==
    ASSUME [Next]_vars
    PROVE  refunded' = refunded \/ \E a \in Actors : CancelAudit(a)
  <1>1. CASE Tick \/ Crash \/ (\E b \in BookingIds : Pay(b)) \/ UNCHANGED vars
    BY <1>1 DEF Tick, Crash, Pay, vars
  <1>2. ASSUME NEW a \in Actors, Begins(a) \/ Faults(a) PROVE refunded' = refunded
    BY <1>2 DEF Begins, OwnerCancels, BeginCreateHold, BeginConfirm, BeginWebhook, BeginCancel,
       BeginExpireHolds, BeginReconcileHolds, BeginComplete, Faults, CreateFault,
       CreateAbort, RequestFault, ItemFault
  <1>3. ASSUME NEW a \in Actors, CreateHoldStep(a) \/ ConfirmStep(a) \/ WebhookStep(a)
        PROVE  refunded' = refunded
    BY <1>3 DEF CreateHoldStep, AcquireHold, AcquireRefused, CheckConflicts,
       ReleaseOnConflict, ReleaseInCatch, CreateRow, UpdateHold, AuditHold,
       ConfirmStep, ConfirmExpire, ConfirmExpireAudit, ConfirmCheck,
       ConfirmPaymentLink, ConfirmUpdate, ConfirmRelease, ConfirmAudit,
       WebhookStep, WebhookUpdate, WebhookRelease, WebhookAudit
  <1>4. ASSUME NEW a \in Actors, CancelStep(a) PROVE refunded' = refunded \/ CancelAudit(a)
    BY <1>4 DEF CancelStep, CancelRelease, CancelUpdate
  <1>5. ASSUME NEW a \in Actors, JobStep(a) PROVE refunded' = refunded
    BY <1>5 DEF JobStep, ExpireUpdate, ExpireRelease, ExpireAudit, ReconcileCheck,
       ReconcileUpdate, ReconcileAudit, CompleteBulk, CompleteAudit
  <1> QED
    BY <1>1, <1>2, <1>3, <1>4, <1>5 DEF Next, Step

LEMMA RefundNext ==
    ASSUME Typed, Core, RefundsStand, [Next]_vars
    PROVE  RefundsStand'
  <1>1. ASSUME NEW b, HasStatus(b, CancelledStatus) PROVE HasStatus(b, CancelledStatus)'
    <2>1. b \in Stored /\ ~Blocking(b)
      BY <1>1 DEF HasStatus, Blocking, CancelledStatus, BLOCKING_STATUSES
    <2> QED
      BY <1>1, <2>1, FinalStays DEF HasStatus
  <1>2. CASE refunded' = refunded
    BY <1>1, <1>2 DEF RefundsStand
  <1>3. ASSUME NEW a \in Actors, CancelAudit(a) PROVE RefundsStand'
    <2>1. /\ req[a].at = "cancel.audit" /\ bookings' = bookings
          /\ refunded' \subseteq refunded \cup {Target(a)}
      BY <1>3 DEF CancelAudit, At
    <2>2. Target(a) \in Stored /\ req[a].goal \in CancelledStatus
      BY <2>1, TargetTyped, CancelTarget DEF BookingStages, CancelStages
    <2>3. bookings[Target(a)].status = req[a].goal
      BY <2>1, Fresh DEF Core, FreshOK, Target
    <2>4. HasStatus(Target(a), CancelledStatus)
      BY <2>2, <2>3 DEF HasStatus
    <2> QED
      BY <1>1, <2>1, <2>4 DEF RefundsStand
  <1> QED
    BY <1>2, <1>3, RefundWritten

LEMMA RefundInit == Init => RefundsStand
  BY DEF Init, StateInit, RefundsStand

(***************************************************************************)
(* One at a time, what was promised a refund is cancelled for good.        *)
(***************************************************************************)
THEOREM SerialRefundedIsCancelled ==
    ASSUME MaxInFlight = 1
    PROVE  Spec => []RefundedIsCancelled
  <1>1. Typed /\ Core /\ [Next]_vars => Core'
    BY CoreNext
  <1>2. Typed /\ Core /\ RefundsStand /\ [Next]_vars => RefundsStand'
    BY RefundNext
  <1>3. RefundsStand => RefundedIsCancelled
    BY DEF RefundsStand, RefundedIsCancelled, HasStatus
  <1> QED
    BY <1>1, <1>2, <1>3, CoreInit, RefundInit, InitTyped, NextTyped, PTL DEF Spec

-----------------------------------------------------------------------------
(***************************************************************************)
(* Where a beginning or a failure leaves its actor.                        *)
(***************************************************************************)
LEMMA BeginsStage ==
    ASSUME MaxInFlight = 1, Typed, Core, NEW a \in Actors, Begins(a)
    PROVE  /\ req'[a].at \in {"create.acquire", "confirm.expire", "confirm.check",
                              "webhook.update", "cancel.release", "cancel.update",
                              "expire.item", "reconcile.item", "complete.bulk"}
           /\ req'[a].at = "create.acquire" => req'[a].expires = now + HoldTTL
           /\ UNCHANGED <<now, holdUntil, bookings, audit, payment, refunded, board, faults>>
  <1>1. UNCHANGED <<now, holdUntil, bookings, audit, payment, refunded, board, faults>>
    BY DEF Begins, OwnerCancels, BeginCreateHold, BeginConfirm, BeginWebhook, BeginCancel,
           BeginExpireHolds, BeginReconcileHolds, BeginComplete
  <1>2. ASSUME NEW useCase, NEW r, Begin(a, useCase, r) PROVE req'[a] = r
    BY <1>2, TypedParts, BeginAlone DEF Core
  <1>3. ASSUME NEW s \in Slots, BeginCreateHold(a, s)
        PROVE  req'[a].at = "create.acquire" /\ req'[a].expires = now + HoldTTL
    <2> DEFINE r == [Idle EXCEPT !.at = "create.acquire", !.slot = s,
                               !.expires = now + HoldTTL]
    <2>1. Begin(a, "createHold", r)
      BY <1>3 DEF BeginCreateHold
    <2>2. r.at = "create.acquire" /\ r.expires = now + HoldTTL
      BY DEF Idle
    <2> HIDE DEF r
    <2> QED
      BY <1>2, <2>1, <2>2
  <1>4. ASSUME NEW useCase, NEW b, NEW to, Begin(a, useCase, Reads(b, to))
        PROVE  req'[a].at = to
    BY <1>2, <1>4 DEF Reads, Idle
  <1>5. ASSUME NEW b \in BookingIds, BeginConfirm(a, b) \/ BeginWebhook(a, b)
        PROVE  req'[a].at \in {"confirm.expire", "confirm.check", "webhook.update"}
    <2>1. PICK to \in {"confirm.expire", "confirm.check", "webhook.update"} :
              Begin(a, "confirm", Reads(b, to)) \/ Begin(a, "webhook", Reads(b, to))
      BY <1>5 DEF BeginConfirm, BeginWebhook
    <2> QED
      BY <1>4, <2>1
  <1>6. ASSUME NEW b \in BookingIds, NEW goal \in Goals, BeginCancel(a, b, goal)
        PROVE  req'[a].at \in {"cancel.release", "cancel.update"}
    <2> DEFINE stage == IF bookings[b].status = "HOLD" THEN "cancel.release"
                                                       ELSE "cancel.update"
               r == [Idle EXCEPT !.at = stage, !.booking = b,
                                 !.seen = bookings[b].status, !.goal = goal]
    <2>1. Begin(a, "cancel", r)
      BY <1>6 DEF BeginCancel
    <2>2. stage \in {"cancel.release", "cancel.update"}
      OBVIOUS
    <2> HIDE DEF stage
    <2>3. r.at = stage
      BY DEF Idle
    <2> HIDE DEF r
    <2> QED
      BY <1>2, <2>1, <2>2, <2>3
  <1>7. ASSUME NEW useCase, NEW S, NEW to, Begin(a, useCase, List(to, S))
        PROVE  req'[a].at = to
    BY <1>2, <1>7 DEF List, Idle
  <1>8. CASE BeginExpireHolds(a) \/ BeginReconcileHolds(a) \/ BeginComplete(a)
    BY <1>1, <1>7, <1>8 DEF BeginExpireHolds, BeginReconcileHolds, BeginComplete
  <1> QED
    BY <1>1, <1>3, <1>5, <1>6, <1>8 DEF Begins, OwnerCancels, Goals, CancelledStatus

LEMMA FaultsStage ==
    ASSUME Typed, NEW a \in Actors, Faults(a)
    PROVE  /\ req'[a].at \in {"create.catch", "idle"} \cup LoopStages
           /\ req'[a].at = "create.catch"
                 => req[a].at \in CreateStages /\ req'[a].expires = req[a].expires
           /\ faults' = faults + 1
           /\ UNCHANGED <<now, holdUntil, bookings, audit, payment, refunded, board>>
  <1>1. /\ faults' = faults + 1
        /\ UNCHANGED <<now, holdUntil, bookings, audit, payment, refunded, board>>
    BY DEF Faults, CreateFault, CreateAbort, RequestFault, ItemFault
  <1>2. CASE CreateFault(a)
    BY <1>1, <1>2, TypedParts, GotoLocal DEF CreateFault
  <1>3. CASE CreateAbort(a) \/ RequestFault(a)
    BY <1>1, <1>3, TypedParts, FinishLocal DEF CreateAbort, RequestFault
  <1>4. ASSUME NEW b \in BookingIds, ItemFault(a, b)
        PROVE  req'[a].at \in {"idle"} \cup LoopStages
    <2>1. PICK to \in LoopStages : NextItem(a, b, to)
      BY <1>4 DEF ItemFault, LoopStages
    <2> QED
      BY <2>1, TypedParts, NextItemLocal
  <1> QED
    BY <1>1, <1>2, <1>3, <1>4 DEF Faults, LoopStages

-----------------------------------------------------------------------------
(***************************************************************************)
(* What the clients were told.                                             *)
(***************************************************************************)
\* Stages at which the clients' view matters to what comes next.
TellingStages == {"create.check", "create.row"} \cup AnnouncingStages

LEMMA ClientsStep ==
    ASSUME NEW a \in Actors, Solo(a), LocalStep(a), BoardTrue',
           req'[a].at \in TellingStages => HeardOK(req[a])'
    PROVE  ClientsKnow'
  <1>1. \A x \in Actors \ {a} : req'[x].at = "idle"
    BY DEF Solo, LocalStep, At
  <1>2. ASSUME NEW x \in Actors, req'[x].at \notin TellingStages PROVE HeardOK(req[x])'
    BY <1>2 DEF HeardOK, TellingStages
  <1>3. "idle" \notin TellingStages
    BY DEF TellingStages, AnnouncingStages, UnauditedStages
  <1> QED
    BY <1>1, <1>2, <1>3 DEF ClientsKnow

LEMMA BoardKept ==
    ASSUME Typed, Core, BoardTrue, board' = board,
           bookings' = bookings \/ MovesOne \/ completeExpiredBookings
    PROVE  BoardTrue'
  BY NobodyBlocks DEF BoardTrue, NoNewBlocker

LEMMA BlockerSlot ==
    ASSUME Typed, NEW b \in BookingIds, Blocking(b)
    PROVE  b \in Stored /\ bookings[b].slot \in Slots
  BY TypedParts DEF Blocking, HasStatus, Stored, Booking

LEMMA BoardSpoken ==
    ASSUME Typed, BoardTrue, NEW s \in Slots, NEW event, emit(s, event),
           bookings' = bookings,
           event = "slot.released" => \A b \in BookingIds : Blocking(b) => bookings[b].slot # s
    PROVE  BoardTrue' /\ board'[s] = event
  <1>1. board' = [board EXCEPT ![s] = event] /\ board \in [Slots -> {"none", "slot.locked", "slot.released", "slot.updated"}]
    BY TypedParts DEF emit, StateTypeOK
  <1>2. ASSUME NEW b \in BookingIds, Blocking(b)'
        PROVE  board'[bookings'[b].slot] # "slot.released"
    <2>1. Blocking(b)
      BY <1>2, SameTable
    <2>2. bookings[b].slot \in Slots
      BY <2>1, BlockerSlot
    <2> QED
      BY <1>1, <2>1, <2>2 DEF BoardTrue
  <1> QED
    BY <1>1, <1>2 DEF BoardTrue

\* Who gives up a slot was alone on it.
LEMMA Vacates ==
    ASSUME Typed, Core, NEW b \in Stored, Blocking(b),
           NEW status \in Status \ BLOCKING_STATUSES, update(b, status)
    PROVE  \A c \in BookingIds : Blocking(c)' => bookings'[c].slot # bookings'[b].slot
  <1>1. /\ NoNewBlocker /\ b \in BookingIds
        /\ bookings'[b].slot = bookings[b].slot /\ bookings'[b].status = status
    BY UpdateMoves
  <1> QED
    BY <1>1 DEF NoNewBlocker, Core, SlotsApart, Blocking, HasStatus

\* Most statements tell the clients nothing and lead to none that matters.
LEMMA QuietClients ==
    ASSUME Typed, Core, ClientsKnow, NEW a \in Actors, Solo(a), LocalStep(a),
           board' = board,
           bookings' = bookings \/ MovesOne \/ completeExpiredBookings,
           req'[a].at \notin TellingStages
    PROVE  ClientsKnow'
  BY BoardKept, ClientsStep DEF ClientsKnow

LEMMA SpokenClients ==
    ASSUME Typed, Core, ClientsKnow, NEW a \in Actors, Solo(a), LocalStep(a),
           NEW s \in Slots, NEW event, emit(s, event), bookings' = bookings,
           event = "slot.released" => \A b \in BookingIds : Blocking(b) => bookings[b].slot # s,
           req'[a].at \notin TellingStages
    PROVE  ClientsKnow'
  BY BoardSpoken, ClientsStep DEF ClientsKnow

LEMMA CreateClients ==
    ASSUME Typed, Core, ClientsKnow, NEW a \in Actors, Solo(a), LocalStep(a),
           CreateHoldStep(a)
    PROVE  ClientsKnow'
  <1> USE DEF At, TellingStages, AnnouncingStages, UnauditedStages
  <1>1. req[a].slot \in Slots
    BY TypedParts DEF CreateHoldStep, AcquireHold, AcquireRefused, CheckConflicts,
       ReleaseOnConflict, ReleaseInCatch, CreateRow, UpdateHold, AuditHold,
       CreateStages, RequestsOK, RequestOK
  <1>2. CASE AcquireHold(a)
    <2>1. /\ emit(req[a].slot, "slot.locked") /\ bookings' = bookings
          /\ Goto(a, "create.check")
      BY <1>2 DEF AcquireHold
    <2>2. BoardTrue' /\ board'[req[a].slot] = "slot.locked"
      BY <1>1, <2>1, BoardSpoken DEF ClientsKnow
    <2>3. req'[a].at = "create.check" /\ req'[a].slot = req[a].slot
      BY <2>1, TypedParts, GotoLocal
    <2>4. HeardOK(req[a])'
      BY <2>2, <2>3 DEF HeardOK
    <2> QED
      BY <2>2, <2>4, ClientsStep
  <1>3. CASE ReleaseOnConflict(a) \/ UpdateHold(a)
    <2>1. PICK to \in {"create.catch", "create.audit"} :
              /\ emit(req[a].slot, "slot.locked") /\ bookings' = bookings /\ Goto(a, to)
      BY <1>3 DEF ReleaseOnConflict, UpdateHold
    <2>2. req'[a].at = to
      BY <2>1, TypedParts, GotoLocal
    <2> QED
      BY <1>1, <2>1, <2>2, SpokenClients
  <1>4. CASE ReleaseInCatch(a)
    <2>1. emit(req[a].slot, "slot.locked") /\ bookings' = bookings /\ Finish(a)
      BY <1>4 DEF ReleaseInCatch
    <2>2. req'[a].at = "idle"
      BY <2>1, TypedParts, FinishLocal
    <2> QED
      BY <1>1, <2>1, <2>2, SpokenClients
  <1>5. CASE AcquireRefused(a) \/ AuditHold(a)
    BY <1>5, TypedParts, FinishLocal, QuietClients DEF AcquireRefused, AuditHold
  <1>6. CASE CheckConflicts(a)
    <2>1. /\ board' = board /\ bookings' = bookings
          /\ Goto(a, "create.row") \/ Goto(a, "create.release")
          /\ req[a].at = "create.check"
      BY <1>6 DEF CheckConflicts
    <2>2. req'[a].at \in {"create.row", "create.release"} /\ req'[a].slot = req[a].slot
      BY <2>1, TypedParts, GotoLocal
    <2>3. BoardTrue'
      BY <2>1, BoardKept DEF ClientsKnow
    <2>4. HeardOK(req[a])'
      BY <2>1, <2>2 DEF HeardOK, ClientsKnow
    <2> QED
      BY <2>3, <2>4, ClientsStep
  <1>7. CASE CreateRow(a)
    <2>1. PICK b \in BookingIds :
              /\ b \notin Stored
              /\ create(b, req[a].slot, req[a].expires)
              /\ req' = [req EXCEPT ![a] = [@ EXCEPT !.at = "create.update", !.booking = b]]
      BY <1>7 DEF CreateRow, IsNextId
    <2>2. req'[a].at = "create.update"
      BY <2>1, TypedParts DEF Request
    <2>3. /\ req[a].expires \in Nat /\ findConflicting(req[a].slot, {}) = {} /\ SlotsApart
          /\ create(b, req[a].slot, req[a].expires) /\ b \notin Stored
      BY <1>7, <2>1, TypedParts, Fresh DEF Core, FreshOK, CreateRow, Request
    <2>4. /\ bookings'[b].slot = req[a].slot
          /\ \A c \in BookingIds \ {b} : bookings'[c] = bookings[c]
          /\ \A c \in BookingIds \ {b} : Blocking(c)' <=> Blocking(c)
      BY <1>1, <2>3, InsertApart
    <2>5. board' = board /\ board[req[a].slot] = "slot.locked"
      BY <1>7 DEF CreateRow, ClientsKnow, HeardOK
    <2>6. BoardTrue'
      BY <2>4, <2>5 DEF BoardTrue, ClientsKnow
    <2> QED
      BY <2>2, <2>6, ClientsStep
  <1> QED
    BY <1>2, <1>3, <1>4, <1>5, <1>6, <1>7 DEF CreateHoldStep

LEMMA ConfirmClients ==
    ASSUME Typed, Core, ClientsKnow, NEW a \in Actors, Solo(a), LocalStep(a),
           ConfirmStep(a) \/ WebhookStep(a)
    PROVE  ClientsKnow'
  <1> USE DEF At, TellingStages, AnnouncingStages, UnauditedStages
  <1>1. CASE ConfirmAudit(a) \/ WebhookAudit(a)
    <2>1. /\ emit(TargetSlot(a), "slot.updated") /\ bookings' = bookings /\ Finish(a)
      BY <1>1 DEF ConfirmAudit, WebhookAudit
    <2>2. TargetSlot(a) \in Slots
      BY <1>1, TargetTyped DEF ConfirmAudit, WebhookAudit, BookingStages
    <2> QED
      BY <2>1, <2>2, TypedParts, FinishLocal, SpokenClients
  <1>2. CASE ~(ConfirmAudit(a) \/ WebhookAudit(a))
    <2>1. board' = board /\ ~CreateRow(a)
      BY <1>2 DEF ConfirmStep, WebhookStep, ConfirmExpire, ConfirmExpireAudit,
         ConfirmCheck, ConfirmPaymentLink, ConfirmUpdate, ConfirmRelease,
         WebhookUpdate, WebhookRelease, CreateRow
    <2>2. \/ Finish(a)
          \/ \E to \in {"confirm.expireAudit", "confirm.write", "confirm.release",
                        "confirm.audit", "webhook.release", "webhook.audit"} : Goto(a, to)
      BY <1>2 DEF ConfirmStep, WebhookStep, ConfirmExpire, ConfirmExpireAudit,
         ConfirmCheck, ConfirmPaymentLink, ConfirmUpdate, ConfirmRelease,
         WebhookUpdate, WebhookRelease
    <2>3. req'[a].at \notin TellingStages
      BY <2>2, TypedParts, FinishLocal, GotoLocal
    <2> QED
      BY <2>1, <2>3, ActorMoves, QuietClients DEF Step
  <1> QED
    BY <1>1, <1>2

\* A slot is announced as free by the one who freed it.
LEMMA ReleasedClients ==
    ASSUME Typed, Core, ClientsKnow, NEW a \in Actors, Solo(a), LocalStep(a),
           req[a].at \in AnnouncingStages, req[a].at \in BookingStages,
           emit(TargetSlot(a), "slot.released"), bookings' = bookings,
           req'[a].at \notin TellingStages
    PROVE  ClientsKnow'
  <1>1. TargetSlot(a) \in Slots
    BY TargetTyped
  <1>2. \A b \in BookingIds : Blocking(b) => bookings[b].slot # TargetSlot(a)
    BY DEF ClientsKnow, HeardOK, TargetSlot, Target
  <1> QED
    BY <1>1, <1>2, SpokenClients

\* Who gives up a slot will announce it.
LEMMA VacatingClients ==
    ASSUME Typed, Core, ClientsKnow, NEW a \in Actors, Solo(a), LocalStep(a),
           NEW b \in Stored, Blocking(b), NEW status \in Status \ BLOCKING_STATUSES,
           update(b, status), board' = board,
           req'[a].at \in AnnouncingStages, req'[a].booking = b
    PROVE  ClientsKnow'
  <1>1. NoNewBlocker
    BY UpdateMoves
  <1>2. BoardTrue'
    BY <1>1 DEF BoardTrue, NoNewBlocker, ClientsKnow
  <1>3. HeardOK(req[a])'
    BY Vacates DEF HeardOK, AnnouncingStages, UnauditedStages
  <1> QED
    BY <1>2, <1>3, ClientsStep

LEMMA CancelClients ==
    ASSUME Typed, Core, ClientsKnow, NEW a \in Actors, Solo(a), LocalStep(a),
           CancelStep(a)
    PROVE  ClientsKnow'
  <1> USE DEF At, TellingStages, AnnouncingStages, UnauditedStages
  <1>1. CASE CancelRelease(a)
    BY <1>1, TypedParts, GotoLocal, QuietClients DEF CancelRelease
  <1>2. CASE CancelUpdate(a)
    <2>1. /\ req[a].at = "cancel.update" /\ update(Target(a), req[a].goal)
          /\ board' = board /\ Goto(a, "cancel.audit")
      BY <1>2 DEF CancelUpdate
    <2>2. Target(a) \in Stored /\ Blocking(Target(a))
      BY <2>1, TargetBlocks
    <2>3. req[a].goal \in Status \ BLOCKING_STATUSES
      BY <2>1, CancelTarget DEF CancelStages, CancelledStatus, BLOCKING_STATUSES, Status
    <2>4. req'[a].at = "cancel.audit" /\ req'[a].booking = Target(a)
      BY <2>1, TypedParts, GotoLocal DEF Target
    <2> QED
      BY <2>1, <2>2, <2>3, <2>4, VacatingClients
  <1>3. CASE CancelAudit(a)
    BY <1>3, TypedParts, FinishLocal, ReleasedClients DEF CancelAudit, BookingStages, CancelStages
  <1> QED
    BY <1>1, <1>2, <1>3 DEF CancelStep

LEMMA JobClients ==
    ASSUME Typed, Core, ClientsKnow, NEW a \in Actors, Solo(a), LocalStep(a), JobStep(a)
    PROVE  ClientsKnow'
  <1> USE DEF At, TellingStages, AnnouncingStages, UnauditedStages
  <1>1. CASE ExpireRelease(a)
    <2>1. /\ req[a].at = "expire.release" /\ board' = board /\ bookings' = bookings
          /\ Goto(a, "expire.audit")
      BY <1>1 DEF ExpireRelease
    <2>2. req'[a].at = "expire.audit" /\ req'[a].booking = req[a].booking
      BY <2>1, TypedParts, GotoLocal
    <2>3. BoardTrue'
      BY <2>1, BoardKept DEF ClientsKnow
    <2>4. HeardOK(req[a])'
      BY <2>1, <2>2, SameTable DEF HeardOK, ClientsKnow
    <2> QED
      BY <2>3, <2>4, ClientsStep
  <1>2. CASE ExpireAudit(a) \/ ReconcileAudit(a)
    <2>1. PICK to \in {"expire.item", "reconcile.item"} : NextItem(a, Target(a), to)
      BY <1>2 DEF ExpireAudit, ReconcileAudit
    <2>2. req'[a].at \notin TellingStages
      BY <2>1, TypedParts, NextItemLocal
    <2> QED
      BY <1>2, <2>2, ReleasedClients DEF ExpireAudit, ReconcileAudit, BookingStages
  <1>3. CASE ReconcileUpdate(a)
    <2>1. /\ req[a].at = "reconcile.update" /\ update(Target(a), "EXPIRED")
          /\ board' = board /\ Goto(a, "reconcile.audit")
      BY <1>3 DEF ReconcileUpdate
    <2>2. Target(a) \in Stored /\ Blocking(Target(a))
      BY <2>1, TargetBlocks DEF HoldStages
    <2>3. req'[a].at = "reconcile.audit" /\ req'[a].booking = Target(a)
      BY <2>1, TypedParts, GotoLocal DEF Target
    <2>4. "EXPIRED" \in Status \ BLOCKING_STATUSES
      BY DEF Status, BLOCKING_STATUSES
    <2> QED
      BY <2>1, <2>2, <2>3, <2>4, VacatingClients
  <1>4. ASSUME NEW b \in BookingIds, ExpireUpdate(a, b) PROVE ClientsKnow'
    <2>1. /\ update(b, "EXPIRED") /\ b \in req[a].todo /\ board' = board
          /\ AllHave(req[a].todo, {"HOLD"}) /\ req[a].todo \subseteq Stored
      BY <1>4, TypedParts, Fresh DEF Core, ListOK, ExpireUpdate, RequestsOK, RequestOK
    <2>2. b \in Stored /\ Blocking(b)
      BY <2>1 DEF AllHave, Blocking, HasStatus, BLOCKING_STATUSES
    <2>3. req'[a].at = "expire.release" /\ req'[a].booking = b
      BY <1>4, TypedParts, TakeItemLocal DEF ExpireUpdate
    <2>4. "EXPIRED" \in Status \ BLOCKING_STATUSES
      BY DEF Status, BLOCKING_STATUSES
    <2> QED
      BY <2>1, <2>2, <2>3, <2>4, VacatingClients
  <1>5. ASSUME NEW b \in BookingIds, ReconcileCheck(a, b) \/ CompleteAudit(a, b)
        PROVE  ClientsKnow'
    <2>1. /\ board' = board /\ bookings' = bookings
          /\ \/ \E to \in {"reconcile.item", "complete.item"} : NextItem(a, b, to)
             \/ TakeItem(a, b, "reconcile.update")
      BY <1>5 DEF ReconcileCheck, CompleteAudit
    <2>2. req'[a].at \notin TellingStages
      BY <2>1, TypedParts, NextItemLocal, TakeItemLocal
    <2> QED
      BY <2>1, <2>2, QuietClients
  <1>6. CASE CompleteBulk(a)
    <2>1. board' = board /\ completeExpiredBookings /\ (Finish(a) \/ Goto(a, "complete.item"))
      BY <1>6 DEF CompleteBulk
    <2>2. req'[a].at \notin TellingStages
      BY <2>1, TypedParts, FinishLocal, GotoLocal
    <2> QED
      BY <2>1, <2>2, QuietClients
  <1> QED
    BY <1>1, <1>2, <1>3, <1>4, <1>5, <1>6 DEF JobStep

LEMMA ClientsNext ==
    ASSUME MaxInFlight = 1, Typed, Core, ClientsKnow, [Next]_vars
    PROVE  ClientsKnow'
  <1>1. CASE Tick \/ Crash \/ (\E b \in BookingIds : Pay(b)) \/ UNCHANGED vars
    <2>1. /\ bookings' = bookings /\ board' = board
          /\ req' = req \/ req' = [a \in Actors |-> Idle]
      BY <1>1 DEF Tick, Crash, Pay, vars
    <2>2. BoardTrue'
      BY <2>1, BoardKept DEF ClientsKnow
    <2>3. ASSUME NEW a \in Actors PROVE HeardOK(req[a])'
      <3>1. CASE req' = req
        BY <2>1, <3>1, SameTable DEF ClientsKnow, HeardOK
      <3>2. CASE req' = [x \in Actors |-> Idle]
        <4>1. req'[a].at = "idle"
          BY <3>2 DEF Idle
        <4> QED
          BY <4>1 DEF HeardOK, AnnouncingStages, UnauditedStages
      <3> QED
        BY <2>1, <3>1, <3>2
    <2> QED
      BY <2>2, <2>3 DEF ClientsKnow
  <1>2. ASSUME NEW a \in Actors, Begins(a) \/ Step(a) \/ Faults(a)
        PROVE  ClientsKnow'
    <2>1. Solo(a) /\ LocalStep(a)
      BY <1>2, ActorCore DEF CoreStep
    <2>2. CASE Begins(a) \/ Faults(a)
      <3>1. /\ board' = board /\ bookings' = bookings
            /\ req'[a].at \notin TellingStages
        BY <2>2, BeginsStage, FaultsStage
           DEF TellingStages, AnnouncingStages, UnauditedStages, LoopStages
      <3> QED
        BY <2>1, <3>1, QuietClients
    <2>3. CASE Step(a)
      BY <2>1, <2>3, CreateClients, ConfirmClients, CancelClients, JobClients DEF Step
    <2> QED
      BY <1>2, <2>2, <2>3
  <1> QED
    BY <1>1, <1>2 DEF Next

LEMMA ClientsInit == Init => ClientsKnow
  BY DEF Init, StateInit, BookingRepositoryInit, ClientsKnow, BoardTrue, HeardOK,
     Idle, Blocking, HasStatus, Stored, AnnouncingStages, UnauditedStages

(***************************************************************************)
(* One at a time, a slot the clients were told is free is free, until they *)
(* are told otherwise, and this even while a request is at work, with      *)
(* calls that fail and processes that crash.                               *)
(***************************************************************************)
THEOREM SerialReleasedSlotIsFree ==
    ASSUME MaxInFlight = 1
    PROVE  Spec => []ReleasedSlotIsFree
  <1>1. Typed /\ Core /\ [Next]_vars => Core'
    BY CoreNext
  <1>2. Typed /\ Core /\ ClientsKnow /\ [Next]_vars => ClientsKnow'
    BY ClientsNext
  <1>3. ClientsKnow => ReleasedSlotIsFree
    BY DEF ClientsKnow, BoardTrue, ReleasedSlotIsFree, Stored
  <1> QED
    BY <1>1, <1>2, <1>3, CoreInit, ClientsInit, InitTyped, NextTyped, PTL DEF Spec

-----------------------------------------------------------------------------
(***************************************************************************)
(* The audit log.                                                          *)
(***************************************************************************)
Released == CancelledStatus \cup {"EXPIRED"}

LEMMA AuditKnown ==
    ASSUME AuditKept, faults = 0, NEW a \in Actors, Solo(a),
           NEW c \in BookingIds, HasStatus(c, Released)
    PROVE  Audited(c) \/ (req[a].at \in UnauditedStages /\ Target(a) = c)
  BY DEF AuditKept, Released, Solo, At, UnauditedStages

LEMMA QuietAudit ==
    ASSUME AuditKept, NEW a \in Actors, Solo(a), faults' = faults, audit' = audit,
           \A c \in BookingIds : HasStatus(c, Released)' =>
               HasStatus(c, Released) /\ bookings'[c] = bookings[c],
           req[a].at \in UnauditedStages =>
               req'[a].at \in UnauditedStages /\ req'[a].booking = req[a].booking
    PROVE  AuditKept'
  BY AuditKnown DEF AuditKept, Released, Audited, Target

\* Who gives up a slot will audit it.
LEMMA VacatedAudit ==
    ASSUME Typed, AuditKept, NEW a \in Actors, Solo(a), faults' = faults, audit' = audit,
           NEW b \in Stored, NEW status \in Status, Blocking(b), update(b, status),
           req[a].at \notin UnauditedStages,
           req'[a].at \in UnauditedStages, req'[a].booking = b
    PROVE  AuditKept'
  <1>1. Stored' = Stored /\ \A c \in BookingIds \ {b} : bookings'[c] = bookings[c]
    BY UpdateMoves
  <1>2. ASSUME NEW c \in BookingIds \ {b}, faults = 0, HasStatus(c, Released)'
        PROVE  Audited(c)'
    <2>1. HasStatus(c, Released)
      BY <1>1, <1>2 DEF HasStatus, Released
    <2> QED
      BY <1>1, <2>1, <1>2, AuditKnown DEF Audited
  <1> QED
    BY <1>2 DEF AuditKept, Released, Target

\* What is audited of a booking that was released is its status.
LEMMA WrittenAudit ==
    ASSUME Typed, AuditKept, NEW a \in Actors, Solo(a), faults' = faults,
           bookings' = bookings,
           NEW b \in BookingIds, NEW from, NEW to, auditCreate(b, from, to),
           HasStatus(b, Released) => bookings[b].status = to,
           req[a].at \in UnauditedStages => Target(a) = b
    PROVE  AuditKept'
  <1>1. ASSUME HasStatus(b, Released) PROVE Audited(b)'
    <2> DEFINE e == [fromStatus |-> from, toStatus |-> to]
    <2>1. audit[b] \in Seq(AuditEntry) /\ audit'[b] = Append(audit[b], e) /\ e.toStatus = to
      BY TypedParts DEF auditCreate
    <2> HIDE DEF e
    <2>2. /\ audit'[b] # <<>> /\ Len(audit'[b]) = Len(audit[b]) + 1
          /\ audit'[b][Len(audit[b]) + 1] = e
      BY <2>1
    <2> QED
      BY <1>1, <2>1, <2>2 DEF Audited
  <1>2. ASSUME NEW c \in BookingIds \ {b}, faults = 0, HasStatus(c, Released)
        PROVE  Audited(c)'
    <2>1. audit'[c] = audit[c]
      BY TypedParts DEF auditCreate
    <2> QED
      BY <1>2, <2>1, AuditKnown DEF Audited
  <1>3. \A c \in BookingIds : HasStatus(c, Released)' <=> HasStatus(c, Released)
    BY DEF HasStatus, Stored, Released
  <1> QED
    BY <1>1, <1>2, <1>3 DEF AuditKept, Released

LEMMA CreateLogged ==
    ASSUME Typed, Core, AuditKept, NEW a \in Actors, Solo(a), CreateHoldStep(a)
    PROVE  AuditKept'
  <1> USE DEF At, UnauditedStages
  <1>1. CASE AuditHold(a)
    <2>1. /\ req[a].at = "create.audit" /\ faults' = faults /\ bookings' = bookings
          /\ auditCreate(Target(a), "NONE", "HOLD")
      BY <1>1 DEF AuditHold
    <2>2. Target(a) \in BookingIds /\ bookings[Target(a)].status = "HOLD"
      BY <2>1, TargetBlocks DEF HoldStages
    <2> QED
      BY <2>1, <2>2, WrittenAudit
  <1>2. CASE CreateRow(a)
    <2>1. PICK b \in BookingIds :
              b \notin Stored /\ create(b, req[a].slot, req[a].expires)
      BY <1>2 DEF CreateRow, IsNextId
    <2>2. /\ req[a].slot \in Slots /\ req[a].expires \in Nat
          /\ findConflicting(req[a].slot, {}) = {} /\ SlotsApart
      BY <1>2, TypedParts, Fresh
         DEF CreateRow, CreateStages, RequestsOK, RequestOK, Request, Core, FreshOK
    <2>3. /\ bookings'[b].status = "HOLD" /\ Stored' = Stored \cup {b}
          /\ \A c \in BookingIds \ {b} : bookings'[c] = bookings[c]
      BY <2>1, <2>2, InsertApart
    <2>4. ASSUME NEW c \in BookingIds, HasStatus(c, Released)'
          PROVE  HasStatus(c, Released) /\ bookings'[c] = bookings[c]
      BY <2>3, <2>4 DEF HasStatus, Released, CancelledStatus
    <2> QED
      BY <1>2, <2>4, QuietAudit DEF CreateRow
  <1>3. CASE ~(AuditHold(a) \/ CreateRow(a))
    <2>1. /\ bookings' = bookings /\ audit' = audit /\ faults' = faults
          /\ req[a].at \notin UnauditedStages
      BY <1>3 DEF CreateHoldStep, AcquireHold, AcquireRefused, CheckConflicts,
         ReleaseOnConflict, ReleaseInCatch, UpdateHold
    <2> QED
      BY <2>1, QuietAudit DEF HasStatus, Stored, Released
  <1> QED
    BY <1>1, <1>2, <1>3

LEMMA ConfirmLogged ==
    ASSUME Typed, Core, AuditKept, NEW a \in Actors, Solo(a),
           ConfirmStep(a) \/ WebhookStep(a)
    PROVE  AuditKept'
  <1> USE DEF At, UnauditedStages
  <1>1. CASE ConfirmExpire(a)
    <2>1. /\ req[a].at = "confirm.expire" /\ update(Target(a), "EXPIRED")
          /\ faults' = faults /\ audit' = audit /\ Goto(a, "confirm.expireAudit")
      BY <1>1 DEF ConfirmExpire
    <2>2. Target(a) \in Stored /\ Blocking(Target(a))
      BY <2>1, TargetBlocks DEF HoldStages
    <2>3. req'[a].at = "confirm.expireAudit" /\ req'[a].booking = Target(a)
      BY <2>1, TypedParts, GotoLocal DEF Target
    <2>4. "EXPIRED" \in Status
      BY DEF Status
    <2> QED
      BY <2>1, <2>2, <2>3, <2>4, VacatedAudit
  <1>2. CASE ConfirmExpireAudit(a)
    <2>1. /\ req[a].at = "confirm.expireAudit" /\ faults' = faults /\ bookings' = bookings
          /\ auditCreate(Target(a), "HOLD", "EXPIRED")
      BY <1>2 DEF ConfirmExpireAudit
    <2>2. Target(a) \in BookingIds /\ bookings[Target(a)].status = "EXPIRED"
      BY <2>1, TargetTyped, Fresh DEF BookingStages, Core, FreshOK, Target
    <2> QED
      BY <2>1, <2>2, WrittenAudit
  <1>3. CASE ConfirmAudit(a) \/ WebhookAudit(a)
    <2>1. /\ req[a].at \in {"confirm.audit", "webhook.audit"}
          /\ faults' = faults /\ bookings' = bookings
          /\ auditCreate(Target(a), "HOLD", "CONFIRMED")
      BY <1>3 DEF ConfirmAudit, WebhookAudit
    <2>2. Target(a) \in BookingIds /\ bookings[Target(a)].status = "CONFIRMED"
      BY <2>1, TargetTyped, Fresh DEF BookingStages, ConfirmedStages, Core, FreshOK, Target
    <2> QED
      BY <2>1, <2>2, WrittenAudit
  <1>4. CASE ConfirmUpdate(a) \/ WebhookUpdate(a)
    <2>1. /\ req[a].at \in {"confirm.write", "webhook.update"}
          /\ update(Target(a), "CONFIRMED") /\ faults' = faults /\ audit' = audit
      BY <1>4 DEF ConfirmUpdate, WebhookUpdate, WriteConfirmed
    <2>2. Target(a) \in Stored /\ Blocking(Target(a))
      BY <2>1, TargetBlocks DEF HoldStages
    <2>3. "CONFIRMED" \in Status \ Released
      BY DEF Status, Released, CancelledStatus
    <2>4. /\ bookings'[Target(a)].status = "CONFIRMED" /\ Stored' = Stored
          /\ \A c \in BookingIds \ {Target(a)} : bookings'[c] = bookings[c]
      BY <2>1, <2>2, <2>3, UpdateMoves
    <2>5. ASSUME NEW c \in BookingIds, HasStatus(c, Released)'
          PROVE  HasStatus(c, Released) /\ bookings'[c] = bookings[c]
      BY <2>3, <2>4, <2>5 DEF HasStatus, Released
    <2> QED
      BY <2>1, <2>5, QuietAudit
  <1>5. CASE \/ ConfirmCheck(a) \/ ConfirmPaymentLink(a) \/ ConfirmRelease(a)
             \/ WebhookRelease(a)
    <2>1. /\ bookings' = bookings /\ audit' = audit /\ faults' = faults
          /\ req[a].at \notin UnauditedStages
      BY <1>5 DEF ConfirmCheck, ConfirmPaymentLink, ConfirmRelease, WebhookRelease
    <2> QED
      BY <2>1, QuietAudit DEF HasStatus, Stored, Released
  <1> QED
    BY <1>1, <1>2, <1>3, <1>4, <1>5 DEF ConfirmStep, WebhookStep

LEMMA CancelLogged ==
    ASSUME Typed, Core, AuditKept, NEW a \in Actors, Solo(a), CancelStep(a)
    PROVE  AuditKept'
  <1> USE DEF At, UnauditedStages
  <1>1. CASE CancelRelease(a)
    <2>1. /\ bookings' = bookings /\ audit' = audit /\ faults' = faults
          /\ req[a].at = "cancel.release"
      BY <1>1 DEF CancelRelease
    <2> QED
      BY <2>1, QuietAudit DEF HasStatus, Stored, Released
  <1>2. CASE CancelUpdate(a)
    <2>1. /\ req[a].at = "cancel.update" /\ update(Target(a), req[a].goal)
          /\ faults' = faults /\ audit' = audit /\ Goto(a, "cancel.audit")
      BY <1>2 DEF CancelUpdate
    <2>2. Target(a) \in Stored /\ Blocking(Target(a))
      BY <2>1, TargetBlocks
    <2>3. req[a].goal \in Status
      BY <2>1, CancelTarget DEF CancelStages
    <2>4. req'[a].at = "cancel.audit" /\ req'[a].booking = Target(a)
      BY <2>1, TypedParts, GotoLocal DEF Target
    <2> QED
      BY <2>1, <2>2, <2>3, <2>4, VacatedAudit
  <1>3. CASE CancelAudit(a)
    <2>1. /\ req[a].at = "cancel.audit" /\ faults' = faults /\ bookings' = bookings
          /\ auditCreate(Target(a), req[a].seen, req[a].goal)
      BY <1>3 DEF CancelAudit
    <2>2. Target(a) \in BookingIds /\ bookings[Target(a)].status = req[a].goal
      BY <2>1, TargetTyped, Fresh DEF BookingStages, CancelStages, Core, FreshOK, Target
    <2> QED
      BY <2>1, <2>2, WrittenAudit
  <1> QED
    BY <1>1, <1>2, <1>3 DEF CancelStep

LEMMA JobLogged ==
    ASSUME Typed, Core, AuditKept, NEW a \in Actors, Solo(a), JobStep(a)
    PROVE  AuditKept'
  <1> USE DEF At, UnauditedStages
  <1>1. CASE ExpireRelease(a)
    <2>1. /\ bookings' = bookings /\ audit' = audit /\ faults' = faults
          /\ Goto(a, "expire.audit")
      BY <1>1 DEF ExpireRelease
    <2>2. req'[a].at = "expire.audit" /\ req'[a].booking = req[a].booking
      BY <2>1, TypedParts, GotoLocal
    <2> QED
      BY <2>1, <2>2, QuietAudit DEF HasStatus, Stored, Released
  <1>2. CASE ExpireAudit(a) \/ ReconcileAudit(a)
    <2>1. /\ req[a].at \in {"expire.audit", "reconcile.audit"}
          /\ faults' = faults /\ bookings' = bookings
          /\ auditCreate(Target(a), "HOLD", "EXPIRED")
      BY <1>2 DEF ExpireAudit, ReconcileAudit
    <2>2. Target(a) \in BookingIds /\ bookings[Target(a)].status = "EXPIRED"
      BY <2>1, TargetTyped, Fresh DEF BookingStages, Core, FreshOK, Target
    <2> QED
      BY <2>1, <2>2, WrittenAudit
  <1>3. CASE ReconcileUpdate(a)
    <2>1. /\ req[a].at = "reconcile.update" /\ update(Target(a), "EXPIRED")
          /\ faults' = faults /\ audit' = audit /\ Goto(a, "reconcile.audit")
      BY <1>3 DEF ReconcileUpdate
    <2>2. Target(a) \in Stored /\ Blocking(Target(a))
      BY <2>1, TargetBlocks DEF HoldStages
    <2>3. req'[a].at = "reconcile.audit" /\ req'[a].booking = Target(a)
      BY <2>1, TypedParts, GotoLocal DEF Target
    <2>4. "EXPIRED" \in Status
      BY DEF Status
    <2> QED
      BY <2>1, <2>2, <2>3, <2>4, VacatedAudit
  <1>4. ASSUME NEW b \in BookingIds, ExpireUpdate(a, b) PROVE AuditKept'
    <2>1. /\ update(b, "EXPIRED") /\ b \in req[a].todo /\ audit' = audit
          /\ faults' = faults /\ req[a].at = "expire.item"
          /\ AllHave(req[a].todo, {"HOLD"}) /\ req[a].todo \subseteq Stored
      BY <1>4, TypedParts, Fresh DEF Core, ListOK, ExpireUpdate, RequestsOK, RequestOK
    <2>2. b \in Stored /\ Blocking(b)
      BY <2>1 DEF AllHave, Blocking, HasStatus, BLOCKING_STATUSES
    <2>3. req'[a].at = "expire.release" /\ req'[a].booking = b
      BY <1>4, TypedParts, TakeItemLocal DEF ExpireUpdate
    <2>4. "EXPIRED" \in Status
      BY DEF Status
    <2> QED
      BY <2>1, <2>2, <2>3, <2>4, VacatedAudit
  <1>5. ASSUME NEW b \in BookingIds, ReconcileCheck(a, b) PROVE AuditKept'
    <2>1. /\ bookings' = bookings /\ audit' = audit /\ faults' = faults
          /\ req[a].at = "reconcile.item"
      BY <1>5 DEF ReconcileCheck
    <2> QED
      BY <2>1, QuietAudit DEF HasStatus, Stored, Released
  <1>6. ASSUME NEW b \in BookingIds, CompleteAudit(a, b) PROVE AuditKept'
    <2>1. /\ req[a].at = "complete.item" /\ b \in req[a].todo
          /\ bookings' = bookings /\ faults' = faults
          /\ auditCreate(b, "CONFIRMED", "COMPLETED") \/ audit' = audit
      BY <1>6 DEF CompleteAudit
    <2>2. bookings[b].status \in {"CONFIRMED", "COMPLETED"}
      BY <2>1, Fresh DEF Core, ListOK, AllHave
    <2>3. ~HasStatus(b, Released)
      BY <2>2 DEF HasStatus, Released, CancelledStatus
    <2>4. CASE auditCreate(b, "CONFIRMED", "COMPLETED")
      BY <2>1, <2>3, <2>4, WrittenAudit
    <2>5. CASE audit' = audit
      BY <2>1, <2>5, QuietAudit DEF HasStatus, Stored, Released
    <2> QED
      BY <2>1, <2>4, <2>5
  <1>7. CASE CompleteBulk(a)
    <2>1. /\ req[a].at = "complete.bulk" /\ completeExpiredBookings
          /\ audit' = audit /\ faults' = faults
      BY <1>7 DEF CompleteBulk
    <2>2. ASSUME NEW c \in BookingIds, HasStatus(c, Released)'
          PROVE  HasStatus(c, Released) /\ bookings'[c] = bookings[c]
      BY <2>1, <2>2, BulkMoves DEF HasStatus, Released, CancelledStatus
    <2> QED
      BY <2>1, <2>2, QuietAudit
  <1> QED
    BY <1>1, <1>2, <1>3, <1>4, <1>5, <1>6, <1>7 DEF JobStep

LEMMA LogNext ==
    ASSUME MaxInFlight = 1, Typed, Core, AuditKept, [Next]_vars
    PROVE  AuditKept'
  <1>1. CASE Tick \/ (\E b \in BookingIds : Pay(b)) \/ UNCHANGED vars
    <2>1. UNCHANGED <<bookings, audit, req, faults>>
      BY <1>1 DEF Tick, Pay, vars
    <2> QED
      BY <2>1 DEF AuditKept, Audited, HasStatus, Stored, Target
  <1>2. CASE Crash
    <2>1. faults \in Nat /\ faults' = faults + 1
      BY <1>2, TypedParts DEF Crash, StateTypeOK
    <2> QED
      BY <2>1 DEF AuditKept
  <1>3. ASSUME NEW a \in Actors, Begins(a) \/ Step(a) \/ Faults(a)
        PROVE  AuditKept'
    <2>1. Solo(a)
      BY <1>3, ActorCore
    <2>2. CASE Begins(a)
      <3>1. req[a].at = "idle"
        BY <2>2, BeginsCore DEF At
      <3>2. bookings' = bookings /\ audit' = audit /\ faults' = faults
        BY <2>2, BeginsStage
      <3>3. req[a].at \notin UnauditedStages
        BY <3>1 DEF UnauditedStages
      <3> QED
        BY <2>1, <3>2, <3>3, QuietAudit DEF HasStatus, Stored, Released
    <2>3. CASE Faults(a)
      <3>1. faults \in Nat /\ faults' = faults + 1
        BY <2>3, FaultsStage, TypedParts DEF StateTypeOK
      <3> QED
        BY <3>1 DEF AuditKept
    <2>4. CASE Step(a)
      BY <2>1, <2>4, CreateLogged, ConfirmLogged, CancelLogged, JobLogged DEF Step
    <2> QED
      BY <1>3, <2>2, <2>3, <2>4
  <1> QED
    BY <1>1, <1>2, <1>3 DEF Next

LEMMA AuditInit == Init => AuditKept
  BY DEF Init, StateInit, BookingRepositoryInit, AuditKept, HasStatus, Stored

(***************************************************************************)
(* BR-REL-09, one at a time: when every request has run to its end and     *)
(* nothing has failed, every booking that gave its slot up is audited.     *)
(***************************************************************************)
THEOREM SerialReleasesAreAudited ==
    ASSUME MaxInFlight = 1
    PROVE  Spec => []ReleasesAreAudited
  <1>1. Typed /\ Core /\ [Next]_vars => Core'
    BY CoreNext
  <1>2. Typed /\ Core /\ AuditKept /\ [Next]_vars => AuditKept'
    BY LogNext
  <1>3. AuditKept => ReleasesAreAudited
    BY DEF AuditKept, ReleasesAreAudited, Quiescent, At, UnauditedStages, Audited,
       HasStatus, Stored
  <1> QED
    BY <1>1, <1>2, <1>3, CoreInit, AuditInit, InitTyped, NextTyped, PTL DEF Spec

-----------------------------------------------------------------------------
(***************************************************************************)
(* Keys and holds: first, that no key is asked to outlive its hold by more *)
(* than a lifetime.                                                        *)
(***************************************************************************)
\* No step but an insert makes a hold.
NoNewHold ==
    \A c \in BookingIds : HasStatus(c, {"HOLD"})' =>
        HasStatus(c, {"HOLD"}) /\ bookings'[c] = bookings[c]

LEMMA HoldsOnlyEnd ==
    ASSUME Typed, bookings' = bookings \/ MovesOne \/ completeExpiredBookings
    PROVE  NoNewHold
  <1>1. CASE bookings' = bookings
    BY <1>1 DEF NoNewHold, HasStatus, Stored
  <1>2. CASE MovesOne
    <2>1. PICK b \in Stored, status \in Status :
              /\ update(b, status) /\ Blocking(b)
              /\ isValidTransition(bookings[b].status, status)
      BY <1>2 DEF MovesOne
    <2>2. /\ bookings'[b].status = status /\ Stored' = Stored
          /\ \A c \in BookingIds \ {b} : bookings'[c] = bookings[c]
      BY <2>1, UpdateMoves
    <2>3. status # "HOLD"
      <3>1. bookings[b].status \in BLOCKING_STATUSES
        BY <2>1 DEF Blocking, HasStatus
      <3> QED
        BY <2>1, <3>1 DEF isValidTransition, VALID_TRANSITIONS, BLOCKING_STATUSES, Status
    <2> QED
      BY <2>2, <2>3 DEF NoNewHold, HasStatus
  <1>3. CASE completeExpiredBookings
    BY <1>3, BulkMoves DEF NoNewHold, HasStatus
  <1> QED
    BY <1>1, <1>2, <1>3

\* A request inside createHold keeps its local variables.
LEMMA CreateLocal ==
    ASSUME Typed, NEW a \in Actors, Step(a), req'[a].at \in CreateStages
    PROVE  req[a].at \in CreateStages /\ req'[a].expires = req[a].expires
  <1> USE DEF CreateStages, At
  <1>1. CASE CreateHoldStep(a)
    <2>1. CASE CreateRow(a)
      BY <2>1, TypedParts DEF CreateRow, Request
    <2>2. CASE ~CreateRow(a)
      <3>1. /\ req[a].at \in CreateStages
            /\ Finish(a) \/ \E to \in CreateStages : Goto(a, to)
        BY <1>1, <2>2 DEF CreateHoldStep, AcquireHold, AcquireRefused, CheckConflicts,
           ReleaseOnConflict, ReleaseInCatch, UpdateHold, AuditHold
      <3> QED
        BY <3>1, TypedParts, FinishLocal, GotoLocal
    <2> QED
      BY <2>1, <2>2
  <1>2. CASE ConfirmStep(a) \/ WebhookStep(a) \/ CancelStep(a)
    <2>1. \/ Finish(a)
          \/ \E to \in {"confirm.expireAudit", "confirm.write", "confirm.release",
                        "confirm.audit", "webhook.release", "webhook.audit",
                        "cancel.update", "cancel.audit"} : Goto(a, to)
      BY <1>2 DEF ConfirmStep, WebhookStep, ConfirmExpire, ConfirmExpireAudit,
         ConfirmCheck, ConfirmPaymentLink, ConfirmUpdate, ConfirmRelease, ConfirmAudit,
         WebhookUpdate, WebhookRelease, WebhookAudit,
         CancelStep, CancelRelease, CancelUpdate, CancelAudit
    <2> QED
      BY <2>1, TypedParts, FinishLocal, GotoLocal
  <1>3. CASE JobStep(a)
    <2>1. \/ Finish(a)
          \/ \E to \in {"expire.audit", "reconcile.audit", "complete.item"} : Goto(a, to)
          \/ \E b, to : /\ to \in {"expire.item", "reconcile.item", "complete.item"}
                        /\ NextItem(a, b, to)
          \/ \E b, to : /\ to \in {"expire.release", "reconcile.update"}
                        /\ TakeItem(a, b, to)
      BY <1>3 DEF JobStep, ExpireUpdate, ExpireRelease, ExpireAudit, ReconcileCheck,
         ReconcileUpdate, ReconcileAudit, CompleteBulk, CompleteAudit
    <2> QED
      BY <2>1, TypedParts, FinishLocal, GotoLocal, NextItemLocal, TakeItemLocal
  <1> QED
    BY <1>1, <1>2, <1>3 DEF Step

LEMMA ClockNext ==
    ASSUME Typed, [Next]_vars
    PROVE  /\ now \in Nat /\ now' \in Nat /\ now <= now'
           /\ now' = now \/ Tick
  <1>1. now \in Nat
    BY TypedParts DEF HoldServiceTypeOK
  <1>2. now' = now \/ Tick
    <2>1. CASE Crash \/ (\E b \in BookingIds : Pay(b)) \/ UNCHANGED vars
      BY <2>1 DEF Crash, Pay, vars
    <2>2. ASSUME NEW a \in Actors, Begins(a) \/ Faults(a) PROVE now' = now
      BY <2>2 DEF Begins, OwnerCancels, BeginCreateHold, BeginConfirm, BeginWebhook, BeginCancel,
         BeginExpireHolds, BeginReconcileHolds, BeginComplete, Faults, CreateFault,
         CreateAbort, RequestFault, ItemFault
    <2>3. ASSUME NEW a \in Actors, CreateHoldStep(a) \/ ConfirmStep(a) \/ WebhookStep(a)
          PROVE  now' = now
      BY <2>3 DEF CreateHoldStep, AcquireHold, AcquireRefused, CheckConflicts,
         ReleaseOnConflict, ReleaseInCatch, CreateRow, UpdateHold, AuditHold,
         ConfirmStep, ConfirmExpire, ConfirmExpireAudit, ConfirmCheck,
         ConfirmPaymentLink, ConfirmUpdate, ConfirmRelease, ConfirmAudit,
         WebhookStep, WebhookUpdate, WebhookRelease, WebhookAudit
    <2>4. ASSUME NEW a \in Actors, CancelStep(a) \/ JobStep(a) PROVE now' = now
      BY <2>4 DEF CancelStep, CancelRelease, CancelUpdate, CancelAudit,
         JobStep, ExpireUpdate, ExpireRelease, ExpireAudit, ReconcileCheck,
         ReconcileUpdate, ReconcileAudit, CompleteBulk, CompleteAudit
    <2> QED
      BY <2>1, <2>2, <2>3, <2>4 DEF Next, Step
  <1>3. Tick => now' = now + 1
    BY DEF Tick, PassTime
  <1> QED
    BY <1>1, <1>2, <1>3

\* What time a row expires, and when it was decided.
LEMMA RowsExpire ==
    ASSUME Typed, Core, NEW a \in Actors, Begins(a) \/ Step(a) \/ Faults(a),
           NEW c \in Stored'
    PROVE  \/ c \in Stored /\ bookings'[c].holdExpiresAt = bookings[c].holdExpiresAt
           \/ /\ req[a].at \in CreateStages
              /\ bookings'[c].holdExpiresAt = req[a].expires
  <1>1. CASE bookings' = bookings
    BY <1>1 DEF Stored
  <1>2. CASE MovesOne
    <2>1. PICK b \in Stored, status \in Status : update(b, status) /\ Blocking(b)
      BY <1>2 DEF MovesOne
    <2> QED
      BY <2>1, UpdateMoves DEF Stored
  <1>3. CASE completeExpiredBookings
    BY <1>3, BulkMoves
  <1>4. CASE CreateRow(a)
    <2>1. PICK b \in BookingIds :
              b \notin Stored /\ create(b, req[a].slot, req[a].expires)
      BY <1>4 DEF CreateRow, IsNextId
    <2>2. /\ req[a].slot \in Slots /\ req[a].expires \in Nat
          /\ findConflicting(req[a].slot, {}) = {} /\ SlotsApart
          /\ req[a].at \in CreateStages
      BY <1>4, TypedParts, Fresh
         DEF CreateRow, At, CreateStages, RequestsOK, RequestOK, Request, Core, FreshOK
    <2>3. /\ bookings'[b].holdExpiresAt = req[a].expires /\ Stored' = Stored \cup {b}
          /\ \A d \in BookingIds \ {b} : bookings'[d] = bookings[d]
      BY <2>1, <2>2, InsertApart
    <2> QED
      BY <2>2, <2>3 DEF Stored
  <1> QED
    BY <1>1, <1>2, <1>3, <1>4, ActorMoves

LEMMA ExpiryNext ==
    ASSUME MaxInFlight = 1, Typed, Core, ExpiryBounded, [Next]_vars
    PROVE  ExpiryBounded'
  <1> USE HoldTTLAssumption
  <1>1. /\ now \in Nat /\ now' \in Nat /\ now <= now'
        /\ \A x \in Actors : req[x].expires \in Nat
        /\ \A b \in Stored : bookings[b].holdExpiresAt \in Nat
    BY ClockNext, TypedParts DEF Request, Stored, Booking
  <1>2. CASE Tick \/ Crash \/ (\E b \in BookingIds : Pay(b)) \/ UNCHANGED vars
    <2>1. bookings' = bookings /\ (req' = req \/ req' = [x \in Actors |-> Idle])
      BY <1>2 DEF Tick, Crash, Pay, vars
    <2>2. \A b \in Stored' : bookings'[b].holdExpiresAt <= now' + HoldTTL
      BY <1>1, <2>1 DEF ExpiryBounded, Stored
    <2>3. \A x \in Actors : req'[x].at \in CreateStages => req'[x].expires <= now' + HoldTTL
      BY <1>1, <2>1 DEF ExpiryBounded, Idle
    <2> QED
      BY <2>2, <2>3 DEF ExpiryBounded
  <1>3. ASSUME NEW a \in Actors, Begins(a) \/ Step(a) \/ Faults(a)
        PROVE  ExpiryBounded'
    <2>1. Solo(a) /\ LocalStep(a)
      BY <1>3, ActorCore DEF CoreStep
    <2>2. ASSUME NEW b \in Stored' PROVE bookings'[b].holdExpiresAt <= now' + HoldTTL
      BY <1>1, <1>3, <2>2, RowsExpire DEF ExpiryBounded
    <2>3. req'[a].at \in CreateStages => req'[a].expires <= now' + HoldTTL
      <3>1. CASE Begins(a)
        BY <1>1, <3>1, BeginsStage DEF CreateStages
      <3>2. CASE Faults(a)
        BY <1>1, <3>2, FaultsStage DEF CreateStages, LoopStages, ExpiryBounded
      <3>3. CASE Step(a)
        BY <1>1, <3>3, CreateLocal DEF ExpiryBounded
      <3> QED
        BY <1>3, <3>1, <3>2, <3>3
    <2>4. ASSUME NEW x \in Actors \ {a} PROVE req'[x].at \notin CreateStages
      BY <2>1 DEF Solo, LocalStep, At, CreateStages
    <2> QED
      BY <2>2, <2>3, <2>4 DEF ExpiryBounded
  <1> QED
    BY <1>2, <1>3 DEF Next

-----------------------------------------------------------------------------
(***************************************************************************)
(* Every live hold has its key.                                            *)
(***************************************************************************)
\* Stages at which the hold that is worked on may lack its key.
Moments == {"create.update", "cancel.update"}

\* Stages of createHold at which no live hold is on its slot.
AloneStages == {"create.check", "create.row", "create.release", "create.catch"}

Covered(c) == holdUntil[bookings[c].slot] >= bookings[c].holdExpiresAt

LEMMA KeyKnown ==
    ASSUME KeysOK, faults = 0, NEW a \in Actors, Solo(a),
           NEW c \in BookingIds, LiveHold(c)
    PROVE  /\ Covered(c) \/ (req[a].at \in Moments /\ Target(a) = c)
           /\ req[a].at \in AloneStages => bookings[c].slot # req[a].slot
  BY DEF KeysOK, Covered, Moments, AloneStages, Solo, At

LEMMA KeysStep ==
    ASSUME NEW a \in Actors, Solo(a), LocalStep(a), faults' = faults,
           faults = 0 => \A c \in BookingIds : LiveHold(c)' =>
               /\ Covered(c)' \/ (req'[a].at \in Moments /\ req'[a].booking = c)
               /\ req'[a].at \in AloneStages => bookings'[c].slot # req'[a].slot
    PROVE  KeysOK'
  <1>1. \A x \in Actors \ {a} : req'[x].at \notin AloneStages
    BY DEF Solo, LocalStep, At, AloneStages
  <1> QED
    BY <1>1 DEF KeysOK, Covered, Moments, AloneStages, Target

LEMMA LiveBefore ==
    ASSUME NoNewHold, now' = now, NEW c \in BookingIds, LiveHold(c)'
    PROVE  LiveHold(c) /\ bookings'[c] = bookings[c]
  BY DEF NoNewHold, LiveHold

\* Nobody touches a key, and no hold is made.
LEMMA QuietKeys ==
    ASSUME KeysOK, NEW a \in Actors, Solo(a), LocalStep(a), faults' = faults,
           now' = now, holdUntil' = holdUntil, NoNewHold,
           req[a].at \in Moments => \A c \in BookingIds : LiveHold(c)' => c # Target(a),
           req'[a].at \in AloneStages =>
               req[a].at \in AloneStages /\ req'[a].slot = req[a].slot
    PROVE  KeysOK'
  <1>1. ASSUME NEW c \in BookingIds, faults = 0, LiveHold(c)'
        PROVE  Covered(c)' /\ (req'[a].at \in AloneStages => bookings'[c].slot # req'[a].slot)
    <2>1. LiveHold(c) /\ bookings'[c] = bookings[c]
      BY <1>1, LiveBefore
    <2>2. Covered(c) /\ (req[a].at \in AloneStages => bookings[c].slot # req[a].slot)
      BY <1>1, <2>1, KeyKnown
    <2> QED
      BY <2>1, <2>2 DEF Covered
  <1> QED
    BY <1>1, KeysStep

\* A key is deleted, and no live hold is left on it unless it is on its way out.
LEMMA ReleaseKeys ==
    ASSUME Typed, KeysOK, NEW a \in Actors, Solo(a), LocalStep(a), faults' = faults,
           now' = now, bookings' = bookings, NEW s \in Slots, releaseHold(s),
           req[a].at \notin Moments,
           faults = 0 => \A c \in BookingIds : LiveHold(c) /\ bookings[c].slot = s =>
               req'[a].at \in Moments /\ req'[a].booking = c,
           req'[a].at \in AloneStages =>
               req[a].at \in AloneStages /\ req'[a].slot = req[a].slot
    PROVE  KeysOK'
  <1>1. \A t \in Slots \ {s} : holdUntil'[t] = holdUntil[t]
    BY TypedParts DEF HoldServiceTypeOK, releaseHold
  <1>2. NoNewHold
    BY HoldsOnlyEnd
  <1>3. ASSUME NEW c \in BookingIds, faults = 0, LiveHold(c)'
        PROVE  /\ Covered(c)' \/ (req'[a].at \in Moments /\ req'[a].booking = c)
               /\ req'[a].at \in AloneStages => bookings'[c].slot # req'[a].slot
    <2>1. LiveHold(c) /\ Blocking(c) /\ bookings'[c] = bookings[c]
      BY <1>2, <1>3, LiveBefore DEF LiveHold, Blocking, HasStatus, BLOCKING_STATUSES
    <2>2. bookings[c].slot \in Slots
      BY <2>1, BlockerSlot
    <2>3. Covered(c) /\ (req[a].at \in AloneStages => bookings[c].slot # req[a].slot)
      BY <1>3, <2>1, KeyKnown
    <2> QED
      BY <1>1, <1>3, <2>1, <2>2, <2>3 DEF Covered
  <1> QED
    BY <1>3, KeysStep

\* A key is set for a whole lifetime.
LEMMA SetKeys ==
    ASSUME Typed, KeysOK, ExpiryBounded, NEW a \in Actors, Solo(a), LocalStep(a),
           faults' = faults, now' = now, bookings' = bookings,
           NEW s \in Slots, updateHold(s),
           req[a].at \in Moments => TargetSlot(a) = s,
           faults = 0 /\ req'[a].at \in AloneStages =>
               \A c \in BookingIds : LiveHold(c) => bookings[c].slot # req'[a].slot
    PROVE  KeysOK'
  <1>1. holdUntil'[s] = now + HoldTTL /\ \A t \in Slots \ {s} : holdUntil'[t] = holdUntil[t]
    BY TypedParts DEF HoldServiceTypeOK, updateHold
  <1>2. NoNewHold
    BY HoldsOnlyEnd
  <1>3. ASSUME NEW c \in BookingIds, faults = 0, LiveHold(c)'
        PROVE  /\ Covered(c)'
               /\ req'[a].at \in AloneStages => bookings'[c].slot # req'[a].slot
    <2>1. LiveHold(c) /\ Blocking(c) /\ bookings'[c] = bookings[c]
      BY <1>2, <1>3, LiveBefore DEF LiveHold, Blocking, HasStatus, BLOCKING_STATUSES
    <2>2. c \in Stored /\ bookings[c].slot \in Slots
      BY <2>1, BlockerSlot
    <2>3. bookings[c].holdExpiresAt \in Nat /\ now \in Nat /\ HoldTTL \in Nat
      BY <2>2, TypedParts, HoldTTLAssumption DEF Stored, Booking, HoldServiceTypeOK
    <2>4. bookings[c].slot = s => Covered(c)'
      BY <1>1, <2>1, <2>2, <2>3 DEF Covered, ExpiryBounded
    <2>5. bookings[c].slot # s => Covered(c)'
      BY <1>1, <1>3, <2>1, <2>2, KeyKnown DEF Covered, TargetSlot
    <2> QED
      BY <1>3, <2>1, <2>4, <2>5
  <1> QED
    BY <1>3, KeysStep

LEMMA CreateKeys ==
    ASSUME Typed, Core, KeysOK, ExpiryBounded, NEW a \in Actors, Solo(a), LocalStep(a),
           CreateHoldStep(a)
    PROVE  KeysOK'
  <1> USE DEF At, Moments, AloneStages
  <1>1. req[a].slot \in Slots
    BY TypedParts DEF CreateHoldStep, AcquireHold, AcquireRefused, CheckConflicts,
       ReleaseOnConflict, ReleaseInCatch, CreateRow, UpdateHold, AuditHold,
       CreateStages, RequestsOK, RequestOK
  <1>2. CASE AcquireHold(a)
    <2>1. /\ req[a].at = "create.acquire" /\ ~isHeld(req[a].slot)
          /\ updateHold(req[a].slot) /\ Goto(a, "create.check")
          /\ UNCHANGED <<now, bookings, faults>>
      BY <1>2 DEF AcquireHold, acquireHold
    <2>2. req'[a].slot = req[a].slot
      BY <2>1, TypedParts, GotoLocal
    <2>3. ASSUME faults = 0, NEW c \in BookingIds, LiveHold(c)
          PROVE  bookings[c].slot # req[a].slot
      <3>1. Covered(c)
        BY <2>1, <2>3, KeyKnown
      <3>2. c \in Stored /\ bookings[c].holdExpiresAt \in Nat /\ now \in Nat
        BY <2>3, TypedParts DEF LiveHold, HasStatus, Stored, Booking, HoldServiceTypeOK
      <3> QED
        BY <2>1, <2>3, <3>1, <3>2 DEF Covered, LiveHold, isHeld
    <2> QED
      BY <1>1, <2>1, <2>2, <2>3, SetKeys
  <1>3. CASE UpdateHold(a)
    <2>1. /\ req[a].at = "create.update" /\ updateHold(req[a].slot)
          /\ Goto(a, "create.audit") /\ UNCHANGED <<now, bookings, faults>>
      BY <1>3 DEF UpdateHold
    <2>2. req'[a].at = "create.audit"
      BY <2>1, TypedParts, GotoLocal
    <2>3. TargetSlot(a) = req[a].slot
      BY <2>1, Fresh DEF Core, FreshOK, TargetSlot, Target
    <2> QED
      BY <1>1, <2>1, <2>2, <2>3, SetKeys
  <1>4. CASE ReleaseOnConflict(a) \/ ReleaseInCatch(a)
    <2>1. /\ req[a].at \in {"create.release", "create.catch"} /\ releaseHold(req[a].slot)
          /\ Goto(a, "create.catch") \/ Finish(a)
          /\ UNCHANGED <<now, bookings, faults>>
      BY <1>4 DEF ReleaseOnConflict, ReleaseInCatch, Release
    <2>2. req'[a].at = "idle" \/ req'[a].slot = req[a].slot
      BY <2>1, TypedParts, GotoLocal, FinishLocal
    <2>3. faults = 0 => \A c \in BookingIds : LiveHold(c) => bookings[c].slot # req[a].slot
      BY <2>1, KeyKnown
    <2> QED
      BY <1>1, <2>1, <2>2, <2>3, ReleaseKeys
  <1>5. CASE CreateRow(a)
    <2>1. PICK b \in BookingIds :
              /\ b \notin Stored
              /\ create(b, req[a].slot, req[a].expires)
              /\ req' = [req EXCEPT ![a] = [@ EXCEPT !.at = "create.update", !.booking = b]]
      BY <1>5 DEF CreateRow, IsNextId
    <2>2. req'[a].at = "create.update" /\ req'[a].booking = b
      BY <2>1, TypedParts DEF Request
    <2>3. /\ req[a].expires \in Nat /\ findConflicting(req[a].slot, {}) = {} /\ SlotsApart
          /\ req[a].at = "create.row"
      BY <1>5, TypedParts, Fresh DEF Core, FreshOK, CreateRow, Request
    <2>4. /\ Stored' = Stored \cup {b}
          /\ \A c \in BookingIds \ {b} : bookings'[c] = bookings[c]
      BY <1>1, <2>1, <2>3, InsertApart
    <2>5. UNCHANGED <<now, holdUntil, faults>>
      BY <1>5 DEF CreateRow
    <2>6. ASSUME faults = 0, NEW c \in BookingIds \ {b}, LiveHold(c)'
          PROVE  Covered(c)'
      <3>1. LiveHold(c)
        BY <2>4, <2>5, <2>6 DEF LiveHold, HasStatus
      <3> QED
        BY <2>3, <2>4, <2>5, <2>6, <3>1, KeyKnown DEF Covered
    <2> QED
      BY <2>2, <2>5, <2>6, KeysStep
  <1>6. CASE AcquireRefused(a) \/ CheckConflicts(a) \/ AuditHold(a)
    <2>1. /\ req[a].at \in {"create.acquire", "create.check", "create.audit"}
          /\ UNCHANGED <<now, holdUntil, bookings, faults>>
          /\ \/ Finish(a)
             \/ /\ Goto(a, "create.row") \/ Goto(a, "create.release")
                /\ req[a].at = "create.check"
      BY <1>6 DEF AcquireRefused, CheckConflicts, AuditHold
    <2>2. req'[a].at = "idle" \/ (req'[a].slot = req[a].slot /\ req[a].at = "create.check")
      BY <2>1, TypedParts, GotoLocal, FinishLocal
    <2>3. NoNewHold
      BY <2>1, HoldsOnlyEnd
    <2> QED
      BY <2>1, <2>2, <2>3, QuietKeys
  <1> QED
    BY <1>2, <1>3, <1>4, <1>5, <1>6 DEF CreateHoldStep

\* Who is confirmed or has given up has no other hold on the slot.
LEMMA NoHoldHere ==
    ASSUME Typed, Core, NEW a \in Actors, req[a].at \in ConfirmedStages
    PROVE  \A c \in BookingIds : LiveHold(c) => bookings[c].slot # TargetSlot(a)
  <1>1. Target(a) \in BookingIds /\ Blocking(Target(a))
    BY TargetBlocks
  <1>2. bookings[Target(a)].status = "CONFIRMED"
    BY Fresh DEF Core, FreshOK, Target
  <1> QED
    BY <1>1, <1>2 DEF Core, SlotsApart, LiveHold, HasStatus, Blocking,
       BLOCKING_STATUSES, TargetSlot

LEMMA ConfirmKeys ==
    ASSUME Typed, Core, KeysOK, NEW a \in Actors, Solo(a), LocalStep(a),
           ConfirmStep(a) \/ WebhookStep(a)
    PROVE  KeysOK'
  <1> USE DEF At, Moments, AloneStages
  <1>1. CASE ConfirmRelease(a) \/ WebhookRelease(a)
    <2>1. /\ req[a].at \in {"confirm.release", "webhook.release"}
          /\ releaseHold(TargetSlot(a)) /\ UNCHANGED <<now, bookings, faults>>
          /\ Goto(a, "confirm.audit") \/ Goto(a, "webhook.audit")
      BY <1>1 DEF ConfirmRelease, WebhookRelease, Release
    <2>2. req'[a].at \in {"confirm.audit", "webhook.audit"}
      BY <2>1, TypedParts, GotoLocal
    <2>3. TargetSlot(a) \in Slots
      BY <2>1, TargetTyped DEF BookingStages
    <2>4. \A c \in BookingIds : LiveHold(c) => bookings[c].slot # TargetSlot(a)
      BY <2>1, NoHoldHere DEF ConfirmedStages
    <2> QED
      BY <2>1, <2>2, <2>3, <2>4, ReleaseKeys
  <1>2. CASE ~(ConfirmRelease(a) \/ WebhookRelease(a))
    <2>1. /\ UNCHANGED <<now, holdUntil, faults>> /\ req[a].at \notin Moments
          /\ ~CreateRow(a)
      BY <1>2 DEF ConfirmStep, WebhookStep, ConfirmExpire, ConfirmExpireAudit,
         ConfirmCheck, ConfirmPaymentLink, ConfirmUpdate, ConfirmAudit,
         WebhookUpdate, WebhookAudit, CreateRow
    <2>2. \/ Finish(a)
          \/ \E to \in {"confirm.expireAudit", "confirm.write", "confirm.release",
                        "webhook.release"} : Goto(a, to)
      BY <1>2 DEF ConfirmStep, WebhookStep, ConfirmExpire, ConfirmExpireAudit,
         ConfirmCheck, ConfirmPaymentLink, ConfirmUpdate, ConfirmAudit,
         WebhookUpdate, WebhookAudit
    <2>3. req'[a].at \notin AloneStages
      BY <2>2, TypedParts, FinishLocal, GotoLocal
    <2>4. NoNewHold
      BY <2>1, ActorMoves, HoldsOnlyEnd DEF Step
    <2> QED
      BY <2>1, <2>3, <2>4, QuietKeys
  <1> QED
    BY <1>1, <1>2

LEMMA CancelKeys ==
    ASSUME Typed, Core, KeysOK, NEW a \in Actors, Solo(a), LocalStep(a), CancelStep(a)
    PROVE  KeysOK'
  <1> USE DEF At, Moments, AloneStages
  <1>1. CASE CancelRelease(a)
    <2>1. /\ req[a].at = "cancel.release" /\ releaseHold(TargetSlot(a))
          /\ UNCHANGED <<now, bookings, faults>> /\ Goto(a, "cancel.update")
      BY <1>1 DEF CancelRelease, Release
    <2>2. req'[a].at = "cancel.update" /\ req'[a].booking = Target(a)
      BY <2>1, TypedParts, GotoLocal DEF Target
    <2>3. TargetSlot(a) \in Slots /\ Target(a) \in BookingIds /\ Blocking(Target(a))
      BY <2>1, TargetTyped, TargetBlocks DEF BookingStages, CancelStages
    <2>4. \A c \in BookingIds : LiveHold(c) /\ bookings[c].slot = TargetSlot(a)
              => c = Target(a)
      BY <2>3 DEF Core, SlotsApart, LiveHold, Blocking, HasStatus, BLOCKING_STATUSES,
         TargetSlot
    <2> QED
      BY <2>1, <2>2, <2>3, <2>4, ReleaseKeys
  <1>2. CASE CancelUpdate(a)
    <2>1. /\ req[a].at = "cancel.update" /\ update(Target(a), req[a].goal)
          /\ UNCHANGED <<now, holdUntil, faults>> /\ Goto(a, "cancel.audit")
          /\ ~CreateRow(a)
      BY <1>2 DEF CancelUpdate, CreateRow
    <2>2. Target(a) \in Stored /\ Blocking(Target(a))
      BY <2>1, TargetBlocks
    <2>3. req[a].goal \in Status \ {"HOLD"}
      BY <2>1, CancelTarget DEF CancelStages, CancelledStatus
    <2>4. bookings'[Target(a)].status # "HOLD"
      BY <2>1, <2>2, <2>3, UpdateMoves
    <2>5. req'[a].at = "cancel.audit"
      BY <2>1, TypedParts, GotoLocal
    <2>6. NoNewHold
      BY <1>2, <2>1, ActorMoves, HoldsOnlyEnd DEF Step, CancelStep
    <2>7. \A c \in BookingIds : LiveHold(c)' => c # Target(a)
      BY <2>4 DEF LiveHold, HasStatus
    <2> QED
      BY <2>1, <2>5, <2>6, <2>7, QuietKeys
  <1>3. CASE CancelAudit(a)
    <2>1. /\ req[a].at = "cancel.audit" /\ Finish(a)
          /\ UNCHANGED <<now, holdUntil, faults, bookings>>
      BY <1>3 DEF CancelAudit
    <2>2. req'[a].at = "idle" /\ NoNewHold
      BY <2>1, TypedParts, FinishLocal, HoldsOnlyEnd
    <2> QED
      BY <2>1, <2>2, QuietKeys
  <1> QED
    BY <1>1, <1>2, <1>3 DEF CancelStep

LEMMA JobKeys ==
    ASSUME Typed, Core, ClientsKnow, KeysOK, NEW a \in Actors, Solo(a), LocalStep(a),
           JobStep(a)
    PROVE  KeysOK'
  <1> USE DEF At, Moments, AloneStages
  <1>1. CASE ExpireRelease(a)
    <2>1. /\ req[a].at = "expire.release" /\ releaseHold(TargetSlot(a))
          /\ UNCHANGED <<now, bookings, faults>> /\ Goto(a, "expire.audit")
      BY <1>1 DEF ExpireRelease, Release
    <2>2. req'[a].at = "expire.audit" /\ TargetSlot(a) \in Slots
      BY <2>1, TypedParts, GotoLocal, TargetTyped DEF BookingStages
    <2>3. \A c \in BookingIds : LiveHold(c) => bookings[c].slot # TargetSlot(a)
      BY <2>1 DEF ClientsKnow, HeardOK, AnnouncingStages, UnauditedStages, LiveHold,
         Blocking, HasStatus, BLOCKING_STATUSES, TargetSlot, Target
    <2> QED
      BY <2>1, <2>2, <2>3, ReleaseKeys
  <1>2. CASE ~ExpireRelease(a)
    <2>1. /\ UNCHANGED <<now, holdUntil, faults>> /\ req[a].at \notin Moments
          /\ ~CreateRow(a)
      BY <1>2 DEF JobStep, ExpireUpdate, ExpireAudit, ReconcileCheck, ReconcileUpdate,
         ReconcileAudit, CompleteBulk, CompleteAudit, CreateRow
    <2>2. req'[a].at \notin AloneStages
      <3>1. \/ Finish(a)
            \/ \E to \in {"reconcile.audit", "complete.item"} : Goto(a, to)
            \/ \E b, to : /\ to \in {"expire.item", "reconcile.item", "complete.item"}
                          /\ NextItem(a, b, to)
            \/ \E b, to : /\ to \in {"expire.release", "reconcile.update"}
                          /\ TakeItem(a, b, to)
        BY <1>2 DEF JobStep, ExpireUpdate, ExpireAudit, ReconcileCheck, ReconcileUpdate,
           ReconcileAudit, CompleteBulk, CompleteAudit
      <3> QED
        BY <3>1, TypedParts, FinishLocal, GotoLocal, NextItemLocal, TakeItemLocal
    <2>3. NoNewHold
      BY <2>1, ActorMoves, HoldsOnlyEnd DEF Step
    <2> QED
      BY <2>1, <2>2, <2>3, QuietKeys
  <1> QED
    BY <1>1, <1>2

LEMMA KeysTick ==
    ASSUME Typed, KeysOK, Tick
    PROVE  KeysOK'
  <1>1. /\ UNCHANGED <<bookings, req, faults>> /\ now' = now + 1 /\ now \in Nat
        /\ \A s \in Slots : holdUntil'[s] = IF holdUntil[s] > now + 1
                                            THEN holdUntil[s] ELSE 0
    BY TypedParts DEF Tick, PassTime, HoldServiceTypeOK
  <1>2. ASSUME NEW c \in BookingIds, LiveHold(c)'
        PROVE  LiveHold(c) /\ (Covered(c) => Covered(c)')
    <2>1. HasStatus(c, {"HOLD"}) /\ now + 1 < bookings[c].holdExpiresAt
      BY <1>1, <1>2 DEF LiveHold, HasStatus, Stored
    <2>2. bookings[c].slot \in Slots /\ bookings[c].holdExpiresAt \in Nat
      BY <2>1, TypedParts DEF HasStatus, Stored, Booking
    <2>3. holdUntil[bookings[c].slot] \in Nat
      BY <2>2, TypedParts DEF HoldServiceTypeOK
    <2> QED
      BY <1>1, <2>1, <2>2, <2>3 DEF LiveHold, Covered
  <1> QED
    BY <1>1, <1>2 DEF KeysOK, Covered, Target

LEMMA KeysNext ==
    ASSUME MaxInFlight = 1, Typed, Core, ClientsKnow, ExpiryBounded, KeysOK, [Next]_vars
    PROVE  KeysOK'
  <1>1. CASE (\E b \in BookingIds : Pay(b)) \/ UNCHANGED vars
    <2>1. UNCHANGED <<now, holdUntil, bookings, req, faults>>
      BY <1>1 DEF Pay, vars
    <2> QED
      BY <2>1 DEF KeysOK, LiveHold, HasStatus, Stored, Target
  <1>2. CASE Crash
    <2>1. faults \in Nat /\ faults' = faults + 1
      BY <1>2, TypedParts DEF Crash, StateTypeOK
    <2> QED
      BY <2>1 DEF KeysOK
  <1>3. ASSUME NEW a \in Actors, Begins(a) \/ Step(a) \/ Faults(a)
        PROVE  KeysOK'
    <2>1. Solo(a) /\ LocalStep(a)
      BY <1>3, ActorCore DEF CoreStep
    <2>2. CASE Begins(a)
      <3>1. req[a].at = "idle"
        BY <2>2, BeginsCore DEF At
      <3>2. /\ UNCHANGED <<now, holdUntil, bookings, faults>>
            /\ req[a].at \notin Moments /\ req'[a].at \notin AloneStages
        BY <2>2, <3>1, BeginsStage DEF Moments, AloneStages
      <3>3. NoNewHold
        BY <3>2, HoldsOnlyEnd
      <3> QED
        BY <2>1, <3>2, <3>3, QuietKeys
    <2>3. CASE Faults(a)
      <3>1. faults \in Nat /\ faults' = faults + 1
        BY <2>3, FaultsStage, TypedParts DEF StateTypeOK
      <3> QED
        BY <3>1 DEF KeysOK
    <2>4. CASE Step(a)
      BY <2>1, <2>4, CreateKeys, ConfirmKeys, CancelKeys, JobKeys DEF Step
    <2> QED
      BY <1>3, <2>2, <2>3, <2>4
  <1> QED
    BY <1>1, <1>2, <1>3, KeysTick DEF Next

LEMMA KeysInit == Init => ExpiryBounded /\ KeysOK
  BY DEF Init, StateInit, BookingRepositoryInit, ExpiryBounded, KeysOK, LiveHold,
     HasStatus, Stored, Idle, CreateStages

LEMMA LiveIsHeld ==
    ASSUME Typed, KeysOK
    PROVE  LiveHoldIsLocked
  <1> SUFFICES ASSUME Quiescent, faults = 0, NEW b \in Stored, LiveHold(b)
               PROVE  isHeld(bookings[b].slot)
    BY DEF LiveHoldIsLocked, LiveHold, HasStatus
  <1>1. b \in BookingIds /\ bookings[b].slot \in Slots /\ bookings[b].holdExpiresAt \in Nat
    BY TypedParts DEF Stored, Booking
  <1>2. holdUntil[bookings[b].slot] >= bookings[b].holdExpiresAt
    BY <1>1 DEF KeysOK, Quiescent, At
  <1>3. holdUntil[bookings[b].slot] \in Nat /\ now \in Nat
    BY <1>1, TypedParts DEF HoldServiceTypeOK
  <1> QED
    BY <1>1, <1>2, <1>3 DEF LiveHold, isHeld

(***************************************************************************)
(* One at a time, and while nothing fails, a hold the customer may still   *)
(* confirm is covered by its Redis key whenever no request is at work.     *)
(***************************************************************************)
THEOREM SerialLiveHoldIsLocked ==
    ASSUME MaxInFlight = 1
    PROVE  Spec => []LiveHoldIsLocked
  <1>1. Typed /\ Core /\ [Next]_vars => Core'
    BY CoreNext
  <1>2. Typed /\ Core /\ ClientsKnow /\ [Next]_vars => ClientsKnow'
    BY ClientsNext
  <1>3. Typed /\ Core /\ ExpiryBounded /\ [Next]_vars => ExpiryBounded'
    BY ExpiryNext
  <1>4. Typed /\ Core /\ ClientsKnow /\ ExpiryBounded /\ KeysOK /\ [Next]_vars => KeysOK'
    BY KeysNext
  <1>5. Typed /\ KeysOK => LiveHoldIsLocked
    BY LiveIsHeld
  <1> QED
    BY <1>1, <1>2, <1>3, <1>4, <1>5, CoreInit, ClientsInit, KeysInit, InitTyped,
       NextTyped, PTL DEF Spec

(***************************************************************************)
(* One at a time, all that a use case has read is still so when it acts on *)
(* it, and rows, clients, keys, refunds and the audit log agree.           *)
(***************************************************************************)
THEOREM SerialInvariant ==
    ASSUME MaxInFlight = 1
    PROVE  Spec => []SerialInv
  <1>1. Typed /\ Core /\ [Next]_vars => Core'
    BY CoreNext
  <1>2. Typed /\ Core /\ ClientsKnow /\ [Next]_vars => ClientsKnow'
    BY ClientsNext
  <1>3. Typed /\ Core /\ RefundsStand /\ [Next]_vars => RefundsStand'
    BY RefundNext
  <1>4. Typed /\ Core /\ AuditKept /\ [Next]_vars => AuditKept'
    BY LogNext
  <1>5. Typed /\ Core /\ ExpiryBounded /\ [Next]_vars => ExpiryBounded'
    BY ExpiryNext
  <1>6. Typed /\ Core /\ ClientsKnow /\ ExpiryBounded /\ KeysOK /\ [Next]_vars => KeysOK'
    BY KeysNext
  <1>7. Core /\ ClientsKnow /\ RefundsStand /\ ExpiryBounded /\ KeysOK /\ AuditKept
            => SerialInv
    BY DEF Core, SerialInv
  <1> QED
    BY <1>1, <1>2, <1>3, <1>4, <1>5, <1>6, <1>7, CoreInit, ClientsInit, RefundInit,
       AuditInit, KeysInit, InitTyped, NextTyped, PTL DEF Spec
=============================================================================
