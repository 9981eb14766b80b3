------------------------ MODULE BookingSystemProofs ------------------------
(***************************************************************************)
(* Proofs about BookingSystem for every set of slots, requests and jobs,   *)
(* every lifetime of a hold and every bound.                               *)
(***************************************************************************)
EXTENDS BookingSystem, SlotRangeProofs

-----------------------------------------------------------------------------
(***************************************************************************)
(* What the operations on the stores and on a request's local variables    *)
(* preserve, whoever calls them.                                           *)
(***************************************************************************)
LEMMA IdleIsRequest ==
    /\ Idle \in Request
    /\ \A S : RequestOK(Idle, S)
  BY DEF Idle, Request, RequestOK, Stages, CreateStages, BookingStages, CancelStages

\* A request may pass from one stage to another that asks for no more.
Follows(from, to) ==
    /\ to \in Stages
    /\ to \in CreateStages => from \in CreateStages
    /\ to \in BookingStages => from \in BookingStages
    /\ to \in CancelStages => from \in CancelStages

LEMMA StageChange ==
    ASSUME NEW r \in Request, NEW S, RequestOK(r, S), NEW to, Follows(r.at, to)
    PROVE  /\ [r EXCEPT !.at = to] \in Request
           /\ RequestOK([r EXCEPT !.at = to], S)
  BY DEF Request, RequestOK, Follows

LEMMA RequestReplaced ==
    ASSUME req \in [Actors -> Request], RequestsOK, Stored \subseteq Stored',
           NEW a \in Actors, NEW r \in Request, RequestOK(r, Stored'),
           req' = [req EXCEPT ![a] = r]
    PROVE  req' \in [Actors -> Request] /\ RequestsOK'
  <1>1. req' \in [Actors -> Request]
    OBVIOUS
  <1>2. ASSUME NEW x \in Actors PROVE RequestOK(req'[x], Stored')
    <2>1. CASE x = a
      BY <2>1
    <2>2. CASE x # a
      <3>1. req'[x] = req[x] /\ RequestOK(req[x], Stored)
        BY <2>2 DEF RequestsOK
      <3>2. ASSUME NEW S, NEW T, S \subseteq T, NEW q, RequestOK(q, S)
            PROVE  RequestOK(q, T)
        BY <3>2 DEF RequestOK
      <3> QED
        BY <3>1, <3>2
    <2> QED
      BY <2>1, <2>2
  <1> QED
    BY <1>1, <1>2 DEF RequestsOK

LEMMA RequestsKept ==
    ASSUME req \in [Actors -> Request], RequestsOK, Stored \subseteq Stored',
           req' = req
    PROVE  req' \in [Actors -> Request] /\ RequestsOK'
  <1>1. ASSUME NEW S, NEW T, S \subseteq T, NEW q, RequestOK(q, S)
        PROVE  RequestOK(q, T)
    BY <1>1 DEF RequestOK
  <1> QED
    BY <1>1 DEF RequestsOK

LEMMA GotoTyped ==
    ASSUME req \in [Actors -> Request], RequestsOK, Stored' = Stored,
           NEW a \in Actors, NEW to, Follows(req[a].at, to), Goto(a, to)
    PROVE  req' \in [Actors -> Request] /\ RequestsOK'
  <1>1. req[a] \in Request /\ RequestOK(req[a], Stored)
    BY DEF RequestsOK
  <1> DEFINE r == [req[a] EXCEPT !.at = to]
  <1>2. r \in Request /\ RequestOK(r, Stored)
    BY <1>1, StageChange
  <1>3. req' = [req EXCEPT ![a] = r]
    BY DEF Goto
  <1> HIDE DEF r
  <1> QED
    BY <1>2, <1>3, RequestReplaced

LEMMA FinishTyped ==
    ASSUME req \in [Actors -> Request], RequestsOK, Stored \subseteq Stored',
           NEW a \in Actors, Finish(a)
    PROVE  req' \in [Actors -> Request] /\ RequestsOK'
  BY IdleIsRequest, RequestReplaced DEF Finish

LEMMA NextItemTyped ==
    ASSUME req \in [Actors -> Request], RequestsOK, Stored' = Stored,
           NEW a \in Actors, NEW b, NEW to \in LoopStages, NextItem(a, b, to)
    PROVE  req' \in [Actors -> Request] /\ RequestsOK'
  <1>1. CASE Finish(a)
    BY <1>1, FinishTyped
  <1>2. CASE ~Finish(a)
    <2> DEFINE r == [Idle EXCEPT !.at = to, !.todo = req[a].todo \ {b}]
    <2>1. req' = [req EXCEPT ![a] = r]
      BY <1>2 DEF NextItem
    <2>2. req[a].todo \subseteq BookingIds /\ req[a].todo \subseteq Stored
      BY DEF Request, RequestsOK, RequestOK
    <2>3. r \in Request
      BY <2>2 DEF Idle, Request, Stages
    <2>4. RequestOK(r, Stored)
      BY <2>2 DEF RequestOK, Idle, LoopStages, CreateStages, BookingStages, CancelStages
    <2> HIDE DEF r
    <2> QED
      BY <2>1, <2>3, <2>4, RequestReplaced
  <1> QED
    BY <1>1, <1>2

LEMMA TakeItemTyped ==
    ASSUME req \in [Actors -> Request], RequestsOK, Stored' = Stored,
           NEW a \in Actors, NEW b \in Stored,
           NEW to \in BookingStages \ (CreateStages \cup CancelStages),
           TakeItem(a, b, to)
    PROVE  req' \in [Actors -> Request] /\ RequestsOK'
  <1> DEFINE r == [req[a] EXCEPT !.at = to, !.booking = b]
  <1>1. req' = [req EXCEPT ![a] = r]
    BY DEF TakeItem
  <1>2. req[a] \in Request /\ RequestOK(req[a], Stored) /\ b \in BookingIds
    BY DEF RequestsOK, Stored
  <1>3. r \in Request
    BY <1>2 DEF Request, Stages
  <1>4. RequestOK(r, Stored)
    BY <1>2 DEF RequestOK, Request
  <1> HIDE DEF r
  <1> QED
    BY <1>1, <1>3, <1>4, RequestReplaced

LEMMA UpdateTyped ==
    ASSUME bookings \in [BookingIds -> Booking \cup {NoBooking}],
           NEW b \in Stored, NEW status \in Status, update(b, status)
    PROVE  /\ bookings' \in [BookingIds -> Booking \cup {NoBooking}]
           /\ Stored' = Stored
           /\ bookings'[b].slot = bookings[b].slot
           /\ bookings'[b].status = status
           /\ \A c \in BookingIds \ {b} : bookings'[c] = bookings[c]
  <1> DEFINE row == [bookings[b] EXCEPT !.status = status]
  <1>1. bookings' = [bookings EXCEPT ![b] = row] /\ b \in BookingIds
    BY DEF update, Stored
  <1>2. bookings[b] \in Booking
    BY DEF Stored
  <1>3. row \in Booking /\ row.slot = bookings[b].slot /\ row.status = status
    BY <1>2 DEF Booking
  <1>4. row # NoBooking
    BY <1>3, NoBookingAssumption
  <1> HIDE DEF row
  <1>5. bookings' \in [BookingIds -> Booking \cup {NoBooking}] /\ bookings'[b] = row
    BY <1>1, <1>3
  <1>6. \A c \in BookingIds \ {b} : bookings'[c] = bookings[c]
    BY <1>1
  <1>7. Stored' = Stored
    BY <1>1, <1>4, <1>5, <1>6 DEF Stored
  <1> QED
    BY <1>3, <1>5, <1>6, <1>7

LEMMA AuditTyped ==
    ASSUME audit \in [BookingIds -> Seq(AuditEntry)], NEW b \in BookingIds,
           NEW from \in Status \cup {"NONE"}, NEW to \in Status,
           auditCreate(b, from, to)
    PROVE  audit' \in [BookingIds -> Seq(AuditEntry)]
  <1> DEFINE e == [fromStatus |-> from, toStatus |-> to]
  <1>1. e \in AuditEntry
    BY DEF AuditEntry
  <1>2. audit' = [audit EXCEPT ![b] = Append(audit[b], e)]
    BY DEF auditCreate
  <1> HIDE DEF e
  <1>3. Append(audit[b], e) \in Seq(AuditEntry)
    BY <1>1
  <1> QED
    BY <1>2, <1>3

LEMMA HoldTyped ==
    ASSUME HoldServiceTypeOK, NEW s \in Slots, now' = now,
           updateHold(s) \/ releaseHold(s)
    PROVE  HoldServiceTypeOK'
  BY HoldTTLAssumption DEF HoldServiceTypeOK, updateHold, releaseHold

-----------------------------------------------------------------------------
(***************************************************************************)
(* Type correctness, together with what the local variables of a request   *)
(* refer to: a booking that is worked on exists, so an update always finds *)
(* its row.                                                                *)
(***************************************************************************)
Typed == TypeOK /\ RequestsOK

LEMMA InitTyped == Init => Typed
  <1> SUFFICES ASSUME Init PROVE Typed
    OBVIOUS
  <1> USE IdleIsRequest DEF Init, StateInit, HoldServiceInit, BookingRepositoryInit
  <1>1. HoldServiceTypeOK
    BY DEF HoldServiceTypeOK
  <1>2. BookingRepositoryTypeOK
    BY DEF BookingRepositoryTypeOK, AuditEntry
  <1>3. StateTypeOK
    BY DEF StateTypeOK
  <1>4. RequestsOK
    BY DEF RequestsOK
  <1> QED
    BY <1>1, <1>2, <1>3, <1>4 DEF TypeOK, Typed

LEMMA TypedParts ==
    ASSUME Typed
    PROVE  /\ HoldServiceTypeOK /\ BookingRepositoryTypeOK /\ StateTypeOK
           /\ bookings \in [BookingIds -> Booking \cup {NoBooking}]
           /\ audit \in [BookingIds -> Seq(AuditEntry)]
           /\ req \in [Actors -> Request]
           /\ RequestsOK
  BY DEF Typed, TypeOK, BookingRepositoryTypeOK, StateTypeOK

LEMMA TargetTyped ==
    ASSUME Typed, NEW a \in Actors, req[a].at \in BookingStages
    PROVE  /\ Target(a) \in Stored /\ Target(a) \in BookingIds
           /\ TargetSlot(a) \in Slots
  <1>1. Target(a) \in Stored
    BY DEF Typed, RequestsOK, RequestOK, Target
  <1>2. bookings[Target(a)] \in Booking
    BY <1>1 DEF Typed, TypeOK, BookingRepositoryTypeOK, Stored
  <1> QED
    BY <1>1, <1>2 DEF Stored, Booking, TargetSlot

LEMMA CancelTarget ==
    ASSUME Typed, NEW a \in Actors, req[a].at \in CancelStages
    PROVE  /\ isValidTransition(req[a].seen, req[a].goal)
           /\ req[a].seen \in Status /\ req[a].goal \in CancelledStatus
           /\ CancelledStatus \subseteq Status
  <1>1. RequestOK(req[a], Stored)
    BY DEF Typed, RequestsOK
  <1> QED
    BY <1>1 DEF RequestOK, isValidTransition, VALID_TRANSITIONS, CancelledStatus, Status

LEMMA StoresKept ==
    ASSUME Typed, UNCHANGED <<now, holdUntil>>
    PROVE  /\ HoldServiceTypeOK'
           /\ bookings' = bookings => Stored' = Stored
           /\ UNCHANGED <<bookings, audit>> => BookingRepositoryTypeOK'
  BY DEF Typed, TypeOK, HoldServiceTypeOK, BookingRepositoryTypeOK, Stored

LEMMA InsertTyped ==
    ASSUME bookings \in [BookingIds -> Booking \cup {NoBooking}],
           NEW b \in BookingIds, NEW s \in Slots, NEW t \in Nat,
           b \notin Stored, create(b, s, t)
    PROVE  /\ bookings' \in [BookingIds -> Booking \cup {NoBooking}]
           /\ Stored' = Stored \cup {b}
           /\ bookings'[b].slot = s
           /\ bookings'[b].status = "HOLD"
           /\ \A c \in BookingIds \ {b} : bookings'[c] = bookings[c]
  <1> DEFINE row == [slot |-> s, status |-> "HOLD", holdExpiresAt |-> t]
  <1>1. row \in Booking /\ row.slot = s /\ row.status = "HOLD"
    BY DEF Booking, Status
  <1>2. bookings' = [bookings EXCEPT ![b] = row]
    BY DEF create
  <1>3. row # NoBooking
    BY <1>1, NoBookingAssumption
  <1> HIDE DEF row
  <1>4. /\ bookings' \in [BookingIds -> Booking \cup {NoBooking}]
        /\ bookings'[b] = row
        /\ \A c \in BookingIds \ {b} : bookings'[c] = bookings[c]
    BY <1>1, <1>2
  <1>5. Stored' = Stored \cup {b}
    BY <1>3, <1>4 DEF Stored
  <1> QED
    BY <1>1, <1>4, <1>5

LEMMA CreateRowTyped ==
    ASSUME Typed, NEW a \in Actors, CreateRow(a)
    PROVE  Typed'
  <1>1. PICK b \in BookingIds :
            /\ b \notin Stored
            /\ create(b, req[a].slot, req[a].expires)
            /\ req' = [req EXCEPT ![a] = [@ EXCEPT !.at = "create.update", !.booking = b]]
    BY DEF CreateRow, IsNextId
  <1>2. req[a] \in Request /\ RequestOK(req[a], Stored)
    BY TypedParts DEF RequestsOK
  <1>3. req[a].slot \in Slots /\ req[a].expires \in Nat
    BY <1>2 DEF Request, RequestOK, CreateRow, At, CreateStages
  <1>4. Stored' = Stored \cup {b} /\ BookingRepositoryTypeOK'
    BY <1>1, <1>3, TypedParts, InsertTyped DEF CreateRow, BookingRepositoryTypeOK
  <1> DEFINE r == [req[a] EXCEPT !.at = "create.update", !.booking = b]
  <1>5. r \in Request
    BY <1>2 DEF Request, Stages, CreateStages
  <1>6. RequestOK(r, Stored')
    BY <1>2, <1>3, <1>4 DEF Request, RequestOK, CancelStages
  <1>7. req' = [req EXCEPT ![a] = r]
    BY <1>1
  <1> HIDE DEF r
  <1>8. req' \in [Actors -> Request] /\ RequestsOK'
    BY <1>4, <1>5, <1>6, <1>7, TypedParts, RequestReplaced
  <1>9. HoldServiceTypeOK'
    BY StoresKept DEF CreateRow
  <1>10. StateTypeOK'
    BY <1>3, <1>8, TypedParts DEF CreateRow, StateTypeOK
  <1> QED
    BY <1>4, <1>8, <1>9, <1>10 DEF Typed, TypeOK

LEMMA CreateTyped ==
    ASSUME Typed, NEW a \in Actors, CreateHoldStep(a)
    PROVE  Typed'
  <1>1. CASE AcquireHold(a)
    <2>1. req[a].slot \in Slots
      BY <1>1, TypedParts DEF AcquireHold, At, CreateStages, RequestsOK, RequestOK
    <2>2. HoldServiceTypeOK'
      BY <1>1, <2>1, TypedParts, HoldTyped DEF AcquireHold, acquireHold
    <2>3. BookingRepositoryTypeOK' /\ Stored' = Stored
      BY <1>1, TypedParts DEF AcquireHold, BookingRepositoryTypeOK, Stored
    <2>4. req' \in [Actors -> Request] /\ RequestsOK'
      BY <1>1, <2>3, TypedParts, GotoTyped DEF AcquireHold, At, Follows, Stages, CreateStages, BookingStages, CancelStages
    <2>5. StateTypeOK'
      BY <1>1, <2>1, <2>4, TypedParts DEF AcquireHold, StateTypeOK, emit, Release, history
    <2> QED
      BY <2>2, <2>3, <2>4, <2>5 DEF Typed, TypeOK
  <1>2. CASE AcquireRefused(a)
    <2>1. HoldServiceTypeOK'
      BY <1>2, StoresKept DEF AcquireRefused
    <2>2. BookingRepositoryTypeOK' /\ Stored' = Stored
      BY <1>2, TypedParts DEF AcquireRefused, BookingRepositoryTypeOK, Stored
    <2>3. req' \in [Actors -> Request] /\ RequestsOK'
      BY <1>2, <2>2, TypedParts, FinishTyped DEF AcquireRefused
    <2>4. StateTypeOK'
      BY <1>2, <2>3, TypedParts DEF AcquireRefused, StateTypeOK, emit, Release, history
    <2> QED
      BY <2>1, <2>2, <2>3, <2>4 DEF Typed, TypeOK
  <1>3. CASE CheckConflicts(a)
    <2>1. HoldServiceTypeOK'
      BY <1>3, StoresKept DEF CheckConflicts
    <2>2. BookingRepositoryTypeOK' /\ Stored' = Stored
      BY <1>3, TypedParts DEF CheckConflicts, BookingRepositoryTypeOK, Stored
    <2>3. req' \in [Actors -> Request] /\ RequestsOK'
      BY <1>3, <2>2, TypedParts, GotoTyped DEF CheckConflicts, At, Follows, Stages, CreateStages, BookingStages, CancelStages
    <2>4. StateTypeOK'
      BY <1>3, <2>3, TypedParts DEF CheckConflicts, StateTypeOK, emit, Release, history
    <2> QED
      BY <2>1, <2>2, <2>3, <2>4 DEF Typed, TypeOK
  <1>4. CASE ReleaseOnConflict(a)
    <2>1. req[a].slot \in Slots
      BY <1>4, TypedParts DEF ReleaseOnConflict, At, CreateStages, RequestsOK, RequestOK
    <2>2. HoldServiceTypeOK'
      BY <1>4, <2>1, TypedParts, HoldTyped DEF ReleaseOnConflict, Release
    <2>3. BookingRepositoryTypeOK' /\ Stored' = Stored
      BY <1>4, TypedParts DEF ReleaseOnConflict, BookingRepositoryTypeOK, Stored
    <2>4. req' \in [Actors -> Request] /\ RequestsOK'
      BY <1>4, <2>3, TypedParts, GotoTyped DEF ReleaseOnConflict, At, Follows, Stages, CreateStages, BookingStages, CancelStages
    <2>5. StateTypeOK'
      BY <1>4, <2>1, <2>4, TypedParts DEF ReleaseOnConflict, StateTypeOK, emit, Release, history
    <2> QED
      BY <2>2, <2>3, <2>4, <2>5 DEF Typed, TypeOK
  <1>5. CASE ReleaseInCatch(a)
    <2>1. req[a].slot \in Slots
      BY <1>5, TypedParts DEF ReleaseInCatch, At, CreateStages, RequestsOK, RequestOK
    <2>2. HoldServiceTypeOK'
      BY <1>5, <2>1, TypedParts, HoldTyped DEF ReleaseInCatch, Release
    <2>3. BookingRepositoryTypeOK' /\ Stored' = Stored
      BY <1>5, TypedParts DEF ReleaseInCatch, BookingRepositoryTypeOK, Stored
    <2>4. req' \in [Actors -> Request] /\ RequestsOK'
      BY <1>5, <2>3, TypedParts, FinishTyped DEF ReleaseInCatch
    <2>5. StateTypeOK'
      BY <1>5, <2>1, <2>4, TypedParts DEF ReleaseInCatch, StateTypeOK, emit, Release, history
    <2> QED
      BY <2>2, <2>3, <2>4, <2>5 DEF Typed, TypeOK
  <1>6. CASE UpdateHold(a)
    <2>1. req[a].slot \in Slots
      BY <1>6, TypedParts DEF UpdateHold, At, CreateStages, RequestsOK, RequestOK
    <2>2. HoldServiceTypeOK'
      BY <1>6, <2>1, TypedParts, HoldTyped DEF UpdateHold, updateHold
    <2>3. BookingRepositoryTypeOK' /\ Stored' = Stored
      BY <1>6, TypedParts DEF UpdateHold, BookingRepositoryTypeOK, Stored
    <2>4. req' \in [Actors -> Request] /\ RequestsOK'
      BY <1>6, <2>3, TypedParts, GotoTyped DEF UpdateHold, At, Follows, Stages, CreateStages, BookingStages, CancelStages
    <2>5. StateTypeOK'
      BY <1>6, <2>1, <2>4, TypedParts DEF UpdateHold, StateTypeOK, emit, Release, history
    <2> QED
      BY <2>2, <2>3, <2>4, <2>5 DEF Typed, TypeOK
  <1>7. CASE AuditHold(a)
    <2>1. Target(a) \in Stored /\ Target(a) \in BookingIds /\ TargetSlot(a) \in Slots
      BY <1>7, TargetTyped DEF AuditHold, At, BookingStages, CancelStages
    <2>2. HoldServiceTypeOK'
      BY <1>7, StoresKept DEF AuditHold
    <2>3. BookingRepositoryTypeOK' /\ Stored' = Stored
      BY <1>7, <2>1, TypedParts, AuditTyped DEF AuditHold, Target, BookingRepositoryTypeOK, Stored, Status
    <2>4. req' \in [Actors -> Request] /\ RequestsOK'
      BY <1>7, <2>3, TypedParts, FinishTyped DEF AuditHold
    <2>5. StateTypeOK'
      BY <1>7, <2>1, <2>4, TypedParts DEF AuditHold, StateTypeOK, emit, Release, history
    <2> QED
      BY <2>2, <2>3, <2>4, <2>5 DEF Typed, TypeOK
  <1> QED
    BY <1>1, <1>2, <1>3, <1>4, <1>5, <1>6, <1>7, CreateRowTyped DEF CreateHoldStep

LEMMA ConfirmTyped ==
    ASSUME Typed, NEW a \in Actors, ConfirmStep(a)
    PROVE  Typed'
  <1>1. CASE ConfirmExpire(a)
    <2>1. Target(a) \in Stored /\ Target(a) \in BookingIds /\ TargetSlot(a) \in Slots
      BY <1>1, TargetTyped DEF ConfirmExpire, At, BookingStages, CancelStages
    <2>2. HoldServiceTypeOK'
      BY <1>1, StoresKept DEF ConfirmExpire
    <2>3. BookingRepositoryTypeOK' /\ Stored' = Stored
      BY <1>1, <2>1, TypedParts, UpdateTyped DEF ConfirmExpire, Target, BookingRepositoryTypeOK, Status
    <2>4. req' \in [Actors -> Request] /\ RequestsOK'
      BY <1>1, <2>3, TypedParts, GotoTyped DEF ConfirmExpire, At, Follows, Stages, CreateStages, BookingStages, CancelStages
    <2>5. StateTypeOK'
      BY <1>1, <2>1, <2>4, TypedParts DEF ConfirmExpire, StateTypeOK, emit, Release, history
    <2> QED
      BY <2>2, <2>3, <2>4, <2>5 DEF Typed, TypeOK
  <1>2. CASE ConfirmExpireAudit(a)
    <2>1. Target(a) \in Stored /\ Target(a) \in BookingIds /\ TargetSlot(a) \in Slots
      BY <1>2, TargetTyped DEF ConfirmExpireAudit, At, BookingStages, CancelStages
    <2>2. HoldServiceTypeOK'
      BY <1>2, StoresKept DEF ConfirmExpireAudit
    <2>3. BookingRepositoryTypeOK' /\ Stored' = Stored
      BY <1>2, <2>1, TypedParts, AuditTyped DEF ConfirmExpireAudit, Target, BookingRepositoryTypeOK, Stored, Status
    <2>4. req' \in [Actors -> Request] /\ RequestsOK'
      BY <1>2, <2>3, TypedParts, FinishTyped DEF ConfirmExpireAudit
    <2>5. StateTypeOK'
      BY <1>2, <2>1, <2>4, TypedParts DEF ConfirmExpireAudit, StateTypeOK, emit, Release, history
    <2> QED
      BY <2>2, <2>3, <2>4, <2>5 DEF Typed, TypeOK
  <1>3. CASE ConfirmCheck(a)
    <2>1. HoldServiceTypeOK'
      BY <1>3, StoresKept DEF ConfirmCheck
    <2>2. BookingRepositoryTypeOK' /\ Stored' = Stored
      BY <1>3, TypedParts DEF ConfirmCheck, BookingRepositoryTypeOK, Stored
    <2>3. req' \in [Actors -> Request] /\ RequestsOK'
      BY <1>3, <2>2, TypedParts, GotoTyped, FinishTyped DEF ConfirmCheck, At, Follows, Stages, CreateStages, BookingStages, CancelStages
    <2>4. StateTypeOK'
      BY <1>3, <2>3, TypedParts DEF ConfirmCheck, StateTypeOK, emit, Release, history
    <2> QED
      BY <2>1, <2>2, <2>3, <2>4 DEF Typed, TypeOK
  <1>4. CASE ConfirmPaymentLink(a)
    <2>1. Target(a) \in Stored /\ Target(a) \in BookingIds /\ TargetSlot(a) \in Slots
      BY <1>4, TargetTyped DEF ConfirmPaymentLink, At, BookingStages, CancelStages
    <2>2. HoldServiceTypeOK'
      BY <1>4, StoresKept DEF ConfirmPaymentLink
    <2>3. BookingRepositoryTypeOK' /\ Stored' = Stored
      BY <1>4, TypedParts DEF ConfirmPaymentLink, BookingRepositoryTypeOK, Stored
    <2>4. req' \in [Actors -> Request] /\ RequestsOK'
      BY <1>4, <2>3, TypedParts, FinishTyped DEF ConfirmPaymentLink
    <2>5. StateTypeOK'
      BY <1>4, <2>1, <2>4, TypedParts DEF ConfirmPaymentLink, createPaymentLink, StateTypeOK, emit, Release, history
    <2> QED
      BY <2>2, <2>3, <2>4, <2>5 DEF Typed, TypeOK
  <1>5. CASE ConfirmUpdate(a)
    <2>1. Target(a) \in Stored /\ Target(a) \in BookingIds /\ TargetSlot(a) \in Slots
      BY <1>5, TargetTyped DEF ConfirmUpdate, At, BookingStages, CancelStages
    <2>2. HoldServiceTypeOK'
      BY <1>5, StoresKept DEF ConfirmUpdate
    <2>3. BookingRepositoryTypeOK' /\ Stored' = Stored
      BY <1>5, <2>1, TypedParts, UpdateTyped DEF ConfirmUpdate, WriteConfirmed, BookingRepositoryTypeOK, Status
    <2>4. req' \in [Actors -> Request] /\ RequestsOK'
      BY <1>5, <2>3, TypedParts, GotoTyped DEF ConfirmUpdate, At, Follows, Stages, CreateStages, BookingStages, CancelStages
    <2>5. StateTypeOK'
      BY <1>5, <2>1, <2>4, TypedParts DEF ConfirmUpdate, StateTypeOK, emit, Release, history, WriteConfirmed
    <2> QED
      BY <2>2, <2>3, <2>4, <2>5 DEF Typed, TypeOK
  <1>6. CASE ConfirmRelease(a)
    <2>1. Target(a) \in Stored /\ Target(a) \in BookingIds /\ TargetSlot(a) \in Slots
      BY <1>6, TargetTyped DEF ConfirmRelease, At, BookingStages, CancelStages
    <2>2. HoldServiceTypeOK'
      BY <1>6, <2>1, TypedParts, HoldTyped DEF ConfirmRelease, Release
    <2>3. BookingRepositoryTypeOK' /\ Stored' = Stored
      BY <1>6, TypedParts DEF ConfirmRelease, BookingRepositoryTypeOK, Stored
    <2>4. req' \in [Actors -> Request] /\ RequestsOK'
      BY <1>6, <2>3, TypedParts, GotoTyped DEF ConfirmRelease, At, Follows, Stages, CreateStages, BookingStages, CancelStages
    <2>5. StateTypeOK'
      BY <1>6, <2>1, <2>4, TypedParts DEF ConfirmRelease, StateTypeOK, emit, Release, history
    <2> QED
      BY <2>2, <2>3, <2>4, <2>5 DEF Typed, TypeOK
  <1>7. CASE ConfirmAudit(a)
    <2>1. Target(a) \in Stored /\ Target(a) \in BookingIds /\ TargetSlot(a) \in Slots
      BY <1>7, TargetTyped DEF ConfirmAudit, At, BookingStages, CancelStages
    <2>2. HoldServiceTypeOK'
      BY <1>7, StoresKept DEF ConfirmAudit
    <2>3. BookingRepositoryTypeOK' /\ Stored' = Stored
      BY <1>7, <2>1, TypedParts, AuditTyped DEF ConfirmAudit, Target, BookingRepositoryTypeOK, Stored, Status
    <2>4. req' \in [Actors -> Request] /\ RequestsOK'
      BY <1>7, <2>3, TypedParts, FinishTyped DEF ConfirmAudit
    <2>5. StateTypeOK'
      BY <1>7, <2>1, <2>4, TypedParts DEF ConfirmAudit, StateTypeOK, emit, Release, history
    <2> QED
      BY <2>2, <2>3, <2>4, <2>5 DEF Typed, TypeOK
  <1> QED
    BY <1>1, <1>2, <1>3, <1>4, <1>5, <1>6, <1>7 DEF ConfirmStep

LEMMA WebhookTyped ==
    ASSUME Typed, NEW a \in Actors, WebhookStep(a)
    PROVE  Typed'
  <1>1. CASE WebhookUpdate(a)
    <2>1. Target(a) \in Stored /\ Target(a) \in BookingIds /\ TargetSlot(a) \in Slots
      BY <1>1, TargetTyped DEF WebhookUpdate, At, BookingStages, CancelStages
    <2>2. HoldServiceTypeOK'
      BY <1>1, StoresKept DEF WebhookUpdate
    <2>3. BookingRepositoryTypeOK' /\ Stored' = Stored
      BY <1>1, <2>1, TypedParts, UpdateTyped DEF WebhookUpdate, WriteConfirmed, BookingRepositoryTypeOK, Status
    <2>4. req' \in [Actors -> Request] /\ RequestsOK'
      BY <1>1, <2>3, TypedParts, GotoTyped DEF WebhookUpdate, At, Follows, Stages, CreateStages, BookingStages, CancelStages
    <2>5. StateTypeOK'
      BY <1>1, <2>1, <2>4, TypedParts DEF WebhookUpdate, StateTypeOK, emit, Release, history, WriteConfirmed
    <2> QED
      BY <2>2, <2>3, <2>4, <2>5 DEF Typed, TypeOK
  <1>2. CASE WebhookRelease(a)
    <2>1. Target(a) \in Stored /\ Target(a) \in BookingIds /\ TargetSlot(a) \in Slots
      BY <1>2, TargetTyped DEF WebhookRelease, At, BookingStages, CancelStages
    <2>2. HoldServiceTypeOK'
      BY <1>2, <2>1, TypedParts, HoldTyped DEF WebhookRelease, Release
    <2>3. BookingRepositoryTypeOK' /\ Stored' = Stored
      BY <1>2, TypedParts DEF WebhookRelease, BookingRepositoryTypeOK, Stored
    <2>4. req' \in [Actors -> Request] /\ RequestsOK'
      BY <1>2, <2>3, TypedParts, GotoTyped DEF WebhookRelease, At, Follows, Stages, CreateStages, BookingStages, CancelStages
    <2>5. StateTypeOK'
      BY <1>2, <2>1, <2>4, TypedParts DEF WebhookRelease, StateTypeOK, emit, Release, history
    <2> QED
      BY <2>2, <2>3, <2>4, <2>5 DEF Typed, TypeOK
  <1>3. CASE WebhookAudit(a)
    <2>1. Target(a) \in Stored /\ Target(a) \in BookingIds /\ TargetSlot(a) \in Slots
      BY <1>3, TargetTyped DEF WebhookAudit, At, BookingStages, CancelStages
    <2>2. HoldServiceTypeOK'
      BY <1>3, StoresKept DEF WebhookAudit
    <2>3. BookingRepositoryTypeOK' /\ Stored' = Stored
      BY <1>3, <2>1, TypedParts, AuditTyped DEF WebhookAudit, Target, BookingRepositoryTypeOK, Stored, Status
    <2>4. req' \in [Actors -> Request] /\ RequestsOK'
      BY <1>3, <2>3, TypedParts, FinishTyped DEF WebhookAudit
    <2>5. StateTypeOK'
      BY <1>3, <2>1, <2>4, TypedParts DEF WebhookAudit, StateTypeOK, emit, Release, history
    <2> QED
      BY <2>2, <2>3, <2>4, <2>5 DEF Typed, TypeOK
  <1> QED
    BY <1>1, <1>2, <1>3 DEF WebhookStep

LEMMA CancelTyped ==
    ASSUME Typed, NEW a \in Actors, CancelStep(a)
    PROVE  Typed'
  <1>1. CASE CancelRelease(a)
    <2>1. Target(a) \in Stored /\ Target(a) \in BookingIds /\ TargetSlot(a) \in Slots
      BY <1>1, TargetTyped DEF CancelRelease, At, BookingStages, CancelStages
    <2>2. HoldServiceTypeOK'
      BY <1>1, <2>1, TypedParts, HoldTyped DEF CancelRelease, Release
    <2>3. BookingRepositoryTypeOK' /\ Stored' = Stored
      BY <1>1, TypedParts DEF CancelRelease, BookingRepositoryTypeOK, Stored
    <2>4. req' \in [Actors -> Request] /\ RequestsOK'
      BY <1>1, <2>3, TypedParts, GotoTyped DEF CancelRelease, At, Follows, Stages, CreateStages, BookingStages, CancelStages
    <2>5. StateTypeOK'
      BY <1>1, <2>1, <2>4, TypedParts DEF CancelRelease, StateTypeOK, emit, Release, history
    <2> QED
      BY <2>2, <2>3, <2>4, <2>5 DEF Typed, TypeOK
  <1>2. CASE CancelUpdate(a)
    <2>1. Target(a) \in Stored /\ Target(a) \in BookingIds /\ TargetSlot(a) \in Slots
      BY <1>2, TargetTyped DEF CancelUpdate, At, BookingStages, CancelStages
    <2>2. HoldServiceTypeOK'
      BY <1>2, StoresKept DEF CancelUpdate
    <2>3. BookingRepositoryTypeOK' /\ Stored' = Stored
      BY <1>2, <2>1, TypedParts, CancelTarget, UpdateTyped
      DEF CancelUpdate, At, CancelStages, BookingRepositoryTypeOK
    <2>4. req' \in [Actors -> Request] /\ RequestsOK'
      BY <1>2, <2>3, TypedParts, GotoTyped DEF CancelUpdate, At, Follows, Stages, CreateStages, BookingStages, CancelStages
    <2>5. StateTypeOK'
      BY <1>2, <2>1, <2>4, TypedParts DEF CancelUpdate, StateTypeOK, emit, Release, history
    <2> QED
      BY <2>2, <2>3, <2>4, <2>5 DEF Typed, TypeOK
  <1>3. CASE CancelAudit(a)
    <2>1. Target(a) \in Stored /\ Target(a) \in BookingIds /\ TargetSlot(a) \in Slots
      BY <1>3, TargetTyped DEF CancelAudit, At, BookingStages, CancelStages
    <2>2. HoldServiceTypeOK'
      BY <1>3, StoresKept DEF CancelAudit
    <2>3. BookingRepositoryTypeOK' /\ Stored' = Stored
      BY <1>3, <2>1, TypedParts, CancelTarget, AuditTyped
      DEF CancelAudit, At, CancelStages, BookingRepositoryTypeOK, Stored
    <2>4. req' \in [Actors -> Request] /\ RequestsOK'
      BY <1>3, <2>3, TypedParts, FinishTyped DEF CancelAudit
    <2>5. StateTypeOK'
      BY <1>3, <2>1, <2>4, TypedParts DEF CancelAudit, StateTypeOK, emit, Release, history
    <2> QED
      BY <2>2, <2>3, <2>4, <2>5 DEF Typed, TypeOK
  <1> QED
    BY <1>1, <1>2, <1>3 DEF CancelStep

LEMMA JobTyped ==
    ASSUME Typed, NEW a \in Actors, JobStep(a)
    PROVE  Typed'
  <1> USE TypedParts
  <1>1. ASSUME NEW b \in BookingIds, ExpireUpdate(a, b) PROVE Typed'
    <2>1. b \in Stored
      BY <1>1 DEF ExpireUpdate, RequestsOK, RequestOK
    <2>2. HoldServiceTypeOK'
      BY <1>1, StoresKept DEF ExpireUpdate
    <2>3. BookingRepositoryTypeOK' /\ Stored' = Stored
      BY <1>1, <2>1, UpdateTyped DEF ExpireUpdate, BookingRepositoryTypeOK, Status
    <2>4. req' \in [Actors -> Request] /\ RequestsOK'
      BY <1>1, <2>1, <2>3, TakeItemTyped
         DEF ExpireUpdate, BookingStages, CreateStages, CancelStages
    <2>5. StateTypeOK'
      BY <1>1, <2>4 DEF ExpireUpdate, StateTypeOK, history
    <2> QED
      BY <2>2, <2>3, <2>4, <2>5 DEF Typed, TypeOK
  <1>2. CASE ExpireRelease(a)
    <2>1. TargetSlot(a) \in Slots
      BY <1>2, TargetTyped DEF ExpireRelease, At, BookingStages
    <2>2. HoldServiceTypeOK'
      BY <1>2, <2>1, HoldTyped DEF ExpireRelease, Release
    <2>3. BookingRepositoryTypeOK' /\ Stored' = Stored
      BY <1>2 DEF ExpireRelease, BookingRepositoryTypeOK, Stored
    <2>4. req' \in [Actors -> Request] /\ RequestsOK'
      BY <1>2, <2>3, GotoTyped
         DEF ExpireRelease, At, Follows, Stages, CreateStages, BookingStages, CancelStages
    <2>5. StateTypeOK'
      BY <1>2, <2>4 DEF ExpireRelease, StateTypeOK, Release
    <2> QED
      BY <2>2, <2>3, <2>4, <2>5 DEF Typed, TypeOK
  <1>3. CASE ExpireAudit(a)
    <2>1. Target(a) \in BookingIds /\ TargetSlot(a) \in Slots
      BY <1>3, TargetTyped DEF ExpireAudit, At, BookingStages
    <2>2. HoldServiceTypeOK'
      BY <1>3, StoresKept DEF ExpireAudit
    <2>3. BookingRepositoryTypeOK' /\ Stored' = Stored
      BY <1>3, <2>1, AuditTyped DEF ExpireAudit, BookingRepositoryTypeOK, Stored, Status
    <2>4. req' \in [Actors -> Request] /\ RequestsOK'
      BY <1>3, <2>3, NextItemTyped DEF ExpireAudit, LoopStages
    <2>5. StateTypeOK'
      BY <1>3, <2>1, <2>4 DEF ExpireAudit, StateTypeOK, emit, history
    <2> QED
      BY <2>2, <2>3, <2>4, <2>5 DEF Typed, TypeOK
  <1>4. ASSUME NEW b \in BookingIds, ReconcileCheck(a, b) PROVE Typed'
    <2>1. b \in Stored
      BY <1>4 DEF ReconcileCheck, RequestsOK, RequestOK
    <2>2. HoldServiceTypeOK'
      BY <1>4, StoresKept DEF ReconcileCheck
    <2>3. BookingRepositoryTypeOK' /\ Stored' = Stored
      BY <1>4 DEF ReconcileCheck, BookingRepositoryTypeOK, Stored
    <2>4. NextItem(a, b, "reconcile.item") \/ TakeItem(a, b, "reconcile.update")
      BY <1>4 DEF ReconcileCheck
    <2>5. req' \in [Actors -> Request] /\ RequestsOK'
      BY <2>1, <2>3, <2>4, NextItemTyped, TakeItemTyped
         DEF LoopStages, BookingStages, CreateStages, CancelStages
    <2>6. StateTypeOK'
      BY <1>4, <2>5 DEF ReconcileCheck, StateTypeOK, history
    <2> QED
      BY <2>2, <2>3, <2>5, <2>6 DEF Typed, TypeOK
  <1>5. CASE ReconcileUpdate(a)
    <2>1. Target(a) \in Stored
      BY <1>5, TargetTyped DEF ReconcileUpdate, At, BookingStages
    <2>2. HoldServiceTypeOK'
      BY <1>5, StoresKept DEF ReconcileUpdate
    <2>3. BookingRepositoryTypeOK' /\ Stored' = Stored
      BY <1>5, <2>1, UpdateTyped DEF ReconcileUpdate, BookingRepositoryTypeOK, Status
    <2>4. req' \in [Actors -> Request] /\ RequestsOK'
      BY <1>5, <2>3, GotoTyped
         DEF ReconcileUpdate, At, Follows, Stages, CreateStages, BookingStages, CancelStages
    <2>5. StateTypeOK'
      BY <1>5, <2>4 DEF ReconcileUpdate, StateTypeOK, history
    <2> QED
      BY <2>2, <2>3, <2>4, <2>5 DEF Typed, TypeOK
  <1>6. CASE ReconcileAudit(a)
    <2>1. Target(a) \in BookingIds /\ TargetSlot(a) \in Slots
      BY <1>6, TargetTyped DEF ReconcileAudit, At, BookingStages
    <2>2. HoldServiceTypeOK'
      BY <1>6, StoresKept DEF ReconcileAudit
    <2>3. BookingRepositoryTypeOK' /\ Stored' = Stored
      BY <1>6, <2>1, AuditTyped DEF ReconcileAudit, BookingRepositoryTypeOK, Stored, Status
    <2>4. req' \in [Actors -> Request] /\ RequestsOK'
      BY <1>6, <2>3, NextItemTyped DEF ReconcileAudit, LoopStages
    <2>5. StateTypeOK'
      BY <1>6, <2>1, <2>4 DEF ReconcileAudit, StateTypeOK, emit, history
    <2> QED
      BY <2>2, <2>3, <2>4, <2>5 DEF Typed, TypeOK
  <1>7. CASE CompleteBulk(a)
    <2>1. HoldServiceTypeOK'
      BY <1>7, StoresKept DEF CompleteBulk
    <2>2. completeExpiredBookings
      BY <1>7 DEF CompleteBulk
    <2>3. BookingRepositoryTypeOK' /\ Stored' = Stored
      <3>1. ASSUME NEW b \in Finished
            PROVE  /\ b \in Stored
                   /\ [bookings[b] EXCEPT !.status = "COMPLETED"] \in Booking
        BY DEF Finished, Stored, Booking, Status
      <3>2. bookings' \in [BookingIds -> Booking \cup {NoBooking}]
        BY <2>2, <3>1 DEF completeExpiredBookings
      <3>3. \A b \in BookingIds : bookings'[b] # NoBooking <=> bookings[b] # NoBooking
        BY <2>2, <3>1, NoBookingAssumption DEF completeExpiredBookings, Stored
      <3> QED
        BY <1>7, <3>2, <3>3 DEF CompleteBulk, BookingRepositoryTypeOK, Stored
    <2>4. Finish(a) \/ Goto(a, "complete.item")
      BY <1>7 DEF CompleteBulk
    <2>5. req' \in [Actors -> Request] /\ RequestsOK'
      BY <1>7, <2>3, <2>4, FinishTyped, GotoTyped
         DEF Follows, Stages, LoopStages, CreateStages, BookingStages, CancelStages
    <2>6. StateTypeOK'
      BY <1>7, <2>5 DEF CompleteBulk, StateTypeOK, history
    <2> QED
      BY <2>1, <2>3, <2>5, <2>6 DEF Typed, TypeOK
  <1>8. ASSUME NEW b \in BookingIds, CompleteAudit(a, b) PROVE Typed'
    <2>1. HoldServiceTypeOK'
      BY <1>8, StoresKept DEF CompleteAudit
    <2>2. auditCreate(b, "CONFIRMED", "COMPLETED") \/ audit' = audit
      BY <1>8 DEF CompleteAudit
    <2>3. BookingRepositoryTypeOK' /\ Stored' = Stored
      BY <1>8, <2>2, AuditTyped DEF CompleteAudit, BookingRepositoryTypeOK, Stored, Status
    <2>4. req' \in [Actors -> Request] /\ RequestsOK'
      BY <1>8, <2>3, NextItemTyped DEF CompleteAudit, LoopStages
    <2>5. StateTypeOK'
      BY <1>8, <2>4 DEF CompleteAudit, StateTypeOK, history
    <2> QED
      BY <2>1, <2>3, <2>4, <2>5 DEF Typed, TypeOK
  <1> QED
    BY <1>1, <1>2, <1>3, <1>4, <1>5, <1>6, <1>7, <1>8 DEF JobStep

LEMMA BeginTyped ==
    ASSUME Typed, NEW a \in Actors, NEW useCase, NEW r \in Request, RequestOK(r, Stored),
           Begin(a, useCase, r),
           UNCHANGED <<now, holdUntil, bookings, audit, payment, refunded, board,
                       faults, history>>
    PROVE  Typed'
  <1>1. HoldServiceTypeOK' /\ BookingRepositoryTypeOK' /\ Stored' = Stored
    BY StoresKept
  <1>2. req' \in [Actors -> Request] /\ RequestsOK'
    BY <1>1, TypedParts, RequestReplaced DEF Begin
  <1>3. StateTypeOK'
    BY <1>2, TypedParts DEF StateTypeOK, history
  <1> QED
    BY <1>1, <1>2, <1>3 DEF Typed, TypeOK

LEMMA BeginsTyped ==
    ASSUME Typed, NEW a \in Actors, Begins(a)
    PROVE  Typed'
  <1> USE TypedParts
  <1>1. ASSUME NEW s \in Slots, BeginCreateHold(a, s) PROVE Typed'
    <2> DEFINE r == [Idle EXCEPT !.at = "create.acquire", !.slot = s,
                               !.expires = now + HoldTTL]
    <2>1. now + HoldTTL \in Nat
      BY HoldTTLAssumption DEF HoldServiceTypeOK
    <2>2. r \in Request
      BY <2>1 DEF Idle, Request, Stages, CreateStages
    <2>3. RequestOK(r, Stored)
      BY DEF Idle, RequestOK, BookingStages, CancelStages
    <2>4. Begin(a, "createHold", r)
      BY <1>1 DEF BeginCreateHold
    <2> HIDE DEF r
    <2> QED
      BY <1>1, <2>2, <2>3, <2>4, BeginTyped DEF BeginCreateHold
  <1>2. ASSUME NEW b \in Stored,
               NEW stage \in BookingStages \ (CreateStages \cup CancelStages)
        PROVE  Reads(b, stage) \in Request /\ RequestOK(Reads(b, stage), Stored)
    <2>1. b \in BookingIds /\ bookings[b].status \in Status
      BY DEF Stored, Booking
    <2> QED
      BY <2>1 DEF Reads, Idle, Request, RequestOK, Stages
  <1>3. ASSUME NEW b \in BookingIds, BeginConfirm(a, b) PROVE Typed'
    <2> DEFINE stage == IF isHoldExpired(b) THEN "confirm.expire" ELSE "confirm.check"
    <2>1. stage \in BookingStages \ (CreateStages \cup CancelStages)
      BY DEF BookingStages, CreateStages, CancelStages
    <2>2. Begin(a, "confirm", Reads(b, stage)) /\ b \in Stored
      BY <1>3 DEF BeginConfirm, HasStatus
    <2> HIDE DEF stage
    <2> QED
      BY <1>2, <1>3, <2>1, <2>2, BeginTyped DEF BeginConfirm
  <1>4. ASSUME NEW b \in BookingIds, BeginWebhook(a, b) PROVE Typed'
    <2>1. "webhook.update" \in BookingStages \ (CreateStages \cup CancelStages)
      BY DEF BookingStages, CreateStages, CancelStages
    <2> QED
      BY <1>2, <1>4, <2>1, BeginTyped DEF BeginWebhook, HasStatus
  <1>5. ASSUME NEW b \in BookingIds, NEW goal \in Goals, BeginCancel(a, b, goal)
        PROVE  Typed'
    <2> DEFINE stage == IF bookings[b].status = "HOLD" THEN "cancel.release"
                                                       ELSE "cancel.update"
               r == [Idle EXCEPT !.at = stage, !.booking = b,
                                 !.seen = bookings[b].status, !.goal = goal]
    <2>1. /\ b \in Stored /\ bookings[b].status \in Status
          /\ goal \in CancelledStatus /\ goal \in Status
          /\ isValidTransition(bookings[b].status, goal)
      BY <1>5 DEF BeginCancel, Stored, Booking, Goals, CancelledStatus, Status
    <2>2. stage \in CancelStages /\ stage \in Stages
      BY DEF CancelStages, BookingStages, Stages
    <2>3. Begin(a, "cancel", r)
      BY <1>5 DEF BeginCancel
    <2> HIDE DEF stage
    <2>4. r \in Request
      BY <2>1, <2>2 DEF Idle, Request
    <2>5. stage \notin CreateStages
      BY <2>2 DEF CancelStages, CreateStages
    <2>6. RequestOK(r, Stored)
      BY <2>1, <2>2, <2>5 DEF Idle, RequestOK
    <2> HIDE DEF r
    <2> QED
      BY <1>5, <2>3, <2>4, <2>6, BeginTyped DEF BeginCancel
  <1>6. ASSUME NEW S \in SUBSET Stored, NEW stage \in LoopStages
        PROVE  List(stage, S) \in Request /\ RequestOK(List(stage, S), Stored)
    BY DEF List, Idle, Request, RequestOK, Stored, Stages, LoopStages, CreateStages,
           BookingStages, CancelStages
  <1>7. CASE BeginExpireHolds(a)
    BY <1>6, <1>7, BeginTyped DEF BeginExpireHolds, findStaleHolds, LoopStages
  <1>8. CASE BeginReconcileHolds(a)
    BY <1>6, <1>8, BeginTyped DEF BeginReconcileHolds, findStaleHolds, LoopStages
  <1>9. CASE BeginComplete(a)
    <2>1. StartedConfirmedPage(PageSize) \subseteq Stored
      BY DEF StartedConfirmedPage
    <2> QED
      BY <1>6, <1>9, <2>1, BeginTyped DEF BeginComplete, LoopStages
  <1> QED
    BY <1>1, <1>3, <1>4, <1>5, <1>7, <1>8, <1>9 DEF Begins, OwnerCancels, Goals, CancelledStatus

LEMMA FaultsTyped ==
    ASSUME Typed, NEW a \in Actors, Faults(a)
    PROVE  Typed'
  <1> USE TypedParts
  <1>1. /\ UNCHANGED <<now, holdUntil, bookings, audit, payment, refunded, board,
                       exposed, revived>>
        /\ faults' = faults + 1 /\ kept' \subseteq kept
    BY DEF Faults, CreateFault, CreateAbort, RequestFault, ItemFault, history
  <1>2. HoldServiceTypeOK' /\ BookingRepositoryTypeOK' /\ Stored' = Stored
    BY <1>1, StoresKept
  <1>3. ASSUME NEW b \in BookingIds, ItemFault(a, b)
        PROVE  req' \in [Actors -> Request] /\ RequestsOK'
    <2>1. PICK stage \in LoopStages : NextItem(a, b, stage)
      BY <1>3 DEF ItemFault, LoopStages
    <2> QED
      BY <1>2, <2>1, NextItemTyped
  <1>4. req' \in [Actors -> Request] /\ RequestsOK'
    <2>1. CreateFault(a) => req' \in [Actors -> Request] /\ RequestsOK'
      BY <1>2, GotoTyped
         DEF CreateFault, Follows, Stages, CreateStages, BookingStages, CancelStages
    <2>2. CreateAbort(a) \/ RequestFault(a) => req' \in [Actors -> Request] /\ RequestsOK'
      BY <1>2, FinishTyped DEF CreateAbort, RequestFault
    <2> QED
      BY <1>3, <2>1, <2>2 DEF Faults
  <1>5. StateTypeOK'
    BY <1>1, <1>4 DEF StateTypeOK
  <1> QED
    BY <1>2, <1>4, <1>5 DEF Typed, TypeOK

LEMMA TickTyped ==
    ASSUME Typed, Tick
    PROVE  Typed'
  <1> USE TypedParts
  <1>1. HoldServiceTypeOK'
    BY DEF Tick, PassTime, HoldServiceTypeOK
  <1>2. BookingRepositoryTypeOK' /\ Stored' = Stored
    BY DEF Tick, BookingRepositoryTypeOK, Stored
  <1>3. req' \in [Actors -> Request] /\ RequestsOK'
    BY <1>2, RequestsKept DEF Tick
  <1>4. StateTypeOK'
    BY <1>3 DEF Tick, StateTypeOK
  <1> QED
    BY <1>1, <1>2, <1>3, <1>4 DEF Typed, TypeOK

LEMMA CrashTyped ==
    ASSUME Typed, Crash
    PROVE  Typed'
  <1> USE TypedParts
  <1>1. HoldServiceTypeOK' /\ BookingRepositoryTypeOK'
    BY StoresKept DEF Crash
  <1>2. req' \in [Actors -> Request] /\ RequestsOK'
    BY IdleIsRequest DEF Crash, RequestsOK
  <1>3. StateTypeOK'
    BY <1>2 DEF Crash, StateTypeOK
  <1> QED
    BY <1>1, <1>2, <1>3 DEF Typed, TypeOK

LEMMA PayTyped ==
    ASSUME Typed, NEW b \in BookingIds, Pay(b)
    PROVE  Typed'
  <1> USE TypedParts
  <1>1. HoldServiceTypeOK' /\ BookingRepositoryTypeOK' /\ Stored' = Stored
    BY StoresKept DEF Pay
  <1>2. req' \in [Actors -> Request] /\ RequestsOK'
    BY <1>1, RequestsKept DEF Pay
  <1>3. StateTypeOK'
    BY <1>2 DEF Pay, StateTypeOK, history
  <1> QED
    BY <1>1, <1>2, <1>3 DEF Typed, TypeOK

LEMMA NextTyped == Typed /\ [Next]_vars => Typed'
  <1> SUFFICES ASSUME Typed, [Next]_vars PROVE Typed'
    OBVIOUS
  <1>1. CASE UNCHANGED vars
    <2>1. HoldServiceTypeOK' /\ BookingRepositoryTypeOK' /\ Stored' = Stored
      BY <1>1, StoresKept DEF vars
    <2>2. req' \in [Actors -> Request] /\ RequestsOK'
      BY <1>1, <2>1, TypedParts, RequestsKept DEF vars
    <2>3. StateTypeOK'
      BY <1>1, <2>2, TypedParts DEF vars, StateTypeOK
    <2> QED
      BY <2>1, <2>2, <2>3 DEF Typed, TypeOK
  <1>2. ASSUME NEW a \in Actors, Begins(a) \/ Step(a) \/ Faults(a) PROVE Typed'
    BY <1>2, BeginsTyped, FaultsTyped, CreateTyped, ConfirmTyped, WebhookTyped,
       CancelTyped, JobTyped DEF Step
  <1> QED
    BY <1>1, <1>2, TickTyped, CrashTyped, PayTyped DEF Next

(***************************************************************************)
(* Every variable keeps its type, through failures and crashes: no update  *)
(* of the use cases ever writes a status, a slot or an expiry the tables   *)
(* do not know.                                                            *)
(***************************************************************************)
THEOREM TypeCorrect == Spec => []TypeOK
  <1>1. Typed => TypeOK
    BY DEF Typed
  <1> QED
    BY <1>1, InitTyped, NextTyped, PTL DEF Spec

(***************************************************************************)
(* What a request remembers stays meaningful while others run: the booking *)
(* it read still has a row, so no update misses, and a cancellation still  *)
(* knows a valid transition.                                               *)
(***************************************************************************)
THEOREM RequestsStayMeaningful == Spec => []RequestsOK
  <1>1. Typed => RequestsOK
    BY DEF Typed
  <1> QED
    BY <1>1, InitTyped, NextTyped, PTL DEF Spec

-----------------------------------------------------------------------------
(***************************************************************************)
(* The audit log.                                                          *)
(***************************************************************************)
LEMMA AuditAppended ==
    ASSUME Typed, AuditedTransitionsAreValid, NEW b \in BookingIds,
           NEW from \in Status \cup {"NONE"}, NEW to \in Status,
           auditCreate(b, from, to),
           (from = "NONE" /\ to = "HOLD") \/ isValidTransition(from, to)
    PROVE  AuditedTransitionsAreValid'
  <1> DEFINE e == [fromStatus |-> from, toStatus |-> to]
  <1>1. /\ e \in AuditEntry
        /\ \/ e = [fromStatus |-> "NONE", toStatus |-> "HOLD"]
           \/ isValidTransition(e.fromStatus, e.toStatus)
    BY DEF AuditEntry
  <1>2. audit' = [audit EXCEPT ![b] = Append(audit[b], e)]
    BY DEF auditCreate
  <1> HIDE DEF e
  <1>3. \A c \in BookingIds : audit[c] \in Seq(AuditEntry)
    BY TypedParts
  <1> SUFFICES ASSUME NEW c \in BookingIds, NEW i \in 1..Len(audit'[c])
               PROVE  \/ audit'[c][i] = [fromStatus |-> "NONE", toStatus |-> "HOLD"]
                      \/ isValidTransition(audit'[c][i].fromStatus, audit'[c][i].toStatus)
    BY DEF AuditedTransitionsAreValid
  <1>4. CASE c # b
    <2>1. audit'[c] = audit[c]
      BY <1>2, <1>4, TypedParts
    <2> QED
      BY <2>1 DEF AuditedTransitionsAreValid
  <1>5. CASE c = b
    <2>1. audit'[b] = Append(audit[b], e)
      BY <1>2, TypedParts
    <2>2. CASE i = Len(audit[b]) + 1
      <3>1. audit'[c][i] = e
        BY <1>1, <1>3, <1>5, <2>1, <2>2
      <3> QED
        BY <1>1, <3>1
    <2>3. CASE i # Len(audit[b]) + 1
      <3>1. i \in 1..Len(audit[b]) /\ audit'[c][i] = audit[b][i]
        BY <1>1, <1>3, <1>5, <2>1, <2>3
      <3> QED
        BY <3>1 DEF AuditedTransitionsAreValid
    <2> QED
      BY <2>2, <2>3
  <1> QED
    BY <1>4, <1>5

LEMMA AuditNext ==
    Typed /\ AuditedTransitionsAreValid /\ [Next]_vars => AuditedTransitionsAreValid'
  <1> SUFFICES ASSUME Typed, AuditedTransitionsAreValid, [Next]_vars
               PROVE  AuditedTransitionsAreValid'
    OBVIOUS
  <1>1. CASE UNCHANGED audit
    BY <1>1 DEF AuditedTransitionsAreValid
  <1>2. ASSUME NEW a \in Actors, req[a].at \in BookingStages,
               \/ auditCreate(Target(a), "NONE", "HOLD")
               \/ \E to \in {"CONFIRMED", "EXPIRED"} : auditCreate(Target(a), "HOLD", to)
        PROVE  AuditedTransitionsAreValid'
    BY <1>2, TargetTyped, AuditAppended DEF isValidTransition, VALID_TRANSITIONS, Status
  <1>3. ASSUME NEW a \in Actors, NEW b \in BookingIds, CompleteAudit(a, b)
        PROVE  AuditedTransitionsAreValid'
    <2>1. isValidTransition("CONFIRMED", "COMPLETED")
      BY DEF isValidTransition, VALID_TRANSITIONS
    <2> QED
      BY <1>1, <1>3, <2>1, AuditAppended DEF CompleteAudit, Status
  <1>4. ASSUME NEW a \in Actors, CancelAudit(a)
        PROVE  AuditedTransitionsAreValid'
    <2>1. At(a, "cancel.audit") /\ auditCreate(Target(a), req[a].seen, req[a].goal)
      BY <1>4 DEF CancelAudit
    <2>2. req[a].at \in CancelStages /\ req[a].at \in BookingStages
      BY <2>1 DEF At, CancelStages, BookingStages
    <2> QED
      BY <2>1, <2>2, TargetTyped, CancelTarget, AuditAppended
  <1>5. CASE Tick \/ Crash \/ (\E b \in BookingIds : Pay(b)) \/ UNCHANGED vars
    BY <1>1, <1>5 DEF Tick, Crash, Pay, vars
  <1>6. ASSUME NEW a \in Actors, Begins(a) \/ Faults(a)
        PROVE  AuditedTransitionsAreValid'
    <2>1. UNCHANGED audit
      BY <1>6 DEF Begins, OwnerCancels, BeginCreateHold, BeginConfirm, BeginWebhook, BeginCancel,
         BeginExpireHolds, BeginReconcileHolds, BeginComplete, Faults, CreateFault,
         CreateAbort, RequestFault, ItemFault
    <2> QED
      BY <1>1, <2>1
  <1>7. ASSUME NEW a \in Actors, Step(a)
        PROVE  AuditedTransitionsAreValid'
    <2>1. CASE CreateHoldStep(a)
      BY <1>1, <1>2, <2>1
         DEF CreateHoldStep, AcquireHold, AcquireRefused, CheckConflicts,
             ReleaseOnConflict, ReleaseInCatch, CreateRow, UpdateHold, AuditHold, At,
             BookingStages
    <2>2. CASE ConfirmStep(a)
      BY <1>1, <1>2, <2>2
         DEF ConfirmStep, ConfirmExpire, ConfirmExpireAudit, ConfirmCheck,
             ConfirmPaymentLink, ConfirmUpdate, ConfirmRelease, ConfirmAudit, At,
             BookingStages
    <2>3. CASE WebhookStep(a)
      BY <1>1, <1>2, <2>3
         DEF WebhookStep, WebhookUpdate, WebhookRelease, WebhookAudit, At, BookingStages
    <2>4. CASE CancelStep(a)
      BY <1>1, <1>4, <2>4 DEF CancelStep, CancelRelease, CancelUpdate
    <2>5. CASE JobStep(a)
      BY <1>1, <1>2, <1>3, <2>5
         DEF JobStep, ExpireRelease, ExpireAudit, ReconcileUpdate, ReconcileAudit,
             CompleteBulk, ExpireUpdate, ReconcileCheck, At, BookingStages
    <2> QED
      BY <1>7, <2>1, <2>2, <2>3, <2>4, <2>5 DEF Step
  <1> QED
    BY <1>5, <1>6, <1>7 DEF Next

(***************************************************************************)
(* No audit row ever records a transition the state machine forbids,       *)
(* although every writer but the bulk completion audits the status it read *)
(* before others may have changed it.                                      *)
(***************************************************************************)
THEOREM AuditLogIsValid == Spec => []AuditedTransitionsAreValid
  <1>1. Init => AuditedTransitionsAreValid
    BY DEF Init, StateInit, BookingRepositoryInit, AuditedTransitionsAreValid
  <1> QED
    BY <1>1, InitTyped, NextTyped, AuditNext, PTL DEF Spec
=============================================================================
