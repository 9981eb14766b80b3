-------------------------- MODULE ExclusionProofs --------------------------
(***************************************************************************)
(* Why the lock of createHold excludes: the proof that HoldersExclude and  *)
(* DoubleBookingHasCause hold for any number of requests and jobs.         *)
(***************************************************************************)
EXTENDS BookingSystemProofs

-----------------------------------------------------------------------------
(***************************************************************************)
(* What a step has to respect to leave ExclusionInv alone.                 *)
(***************************************************************************)
OwnRequest(a) == \A k \in Actors \ {a} : req'[k] = req[k]

\* Those still relying on a key were relying on it, and it is still there.
KeysFrame == kept' \subseteq kept /\ \A k \in kept' : holdUntil'[req[k].slot] # 0

\* A booking that blocks its slot did so before, or is recorded as revived.
BookingsFrame ==
    /\ exposed \subseteq exposed' /\ revived \subseteq revived'
    /\ \A b \in BookingIds :
          Blocking(b)' => \/ b \in revived'
                          \/ Blocking(b)
    /\ \A b \in BookingIds : Blocking(b)' => bookings'[b].slot = bookings[b].slot

LEMMA ExclusionFrame ==
    ASSUME Typed, ExclusionInv, KeysFrame, BookingsFrame,
           \A k \in kept' : req'[k] = req[k]
    PROVE  ExclusionInv'
  <1>1. KeptInside'
    BY DEF KeysFrame, ExclusionInv, KeptInside
  <1>2. HoldersExclude'
    BY DEF KeysFrame, ExclusionInv, HoldersExclude, isHeld
  <1>3. CheckedSlotIsFree'
    BY DEF KeysFrame, BookingsFrame, ExclusionInv, CheckedSlotIsFree, At
  <1>4. DoubleBookingHasCause'
    BY DEF BookingsFrame, ExclusionInv, DoubleBookingHasCause
  <1> QED
    BY <1>1, <1>2, <1>3, <1>4 DEF ExclusionInv

LEMMA BookingsUntouched ==
    ASSUME UNCHANGED <<bookings, exposed, revived>>
    PROVE  BookingsFrame
  BY DEF BookingsFrame, Blocking, HasStatus, Stored

LEMMA UpdateFrame ==
    ASSUME Typed, NEW b \in Stored, NEW status \in Status,
           update(b, status), exposed' = exposed,
           \/ status \notin BLOCKING_STATUSES /\ revived' = revived
           \/ revived' = IF Blocking(b) THEN revived ELSE revived \cup {b}
    PROVE  BookingsFrame
  <1>1. /\ Stored' = Stored
        /\ bookings'[b].slot = bookings[b].slot
        /\ bookings'[b].status = status
        /\ \A c \in BookingIds \ {b} : bookings'[c] = bookings[c]
    BY TypedParts, UpdateTyped
  <1>2. ASSUME NEW c \in BookingIds, Blocking(c)'
        PROVE  bookings'[c].slot = bookings[c].slot /\ (c \in revived' \/ Blocking(c))
    BY <1>1, <1>2 DEF Blocking, HasStatus
  <1> QED
    BY <1>2 DEF BookingsFrame

LEMMA KeysUntouched ==
    ASSUME ExclusionInv, UNCHANGED holdUntil, kept' \subseteq kept
    PROVE  KeysFrame
  BY DEF KeysFrame, ExclusionInv, HoldersExclude, isHeld

LEMMA ReleaseFrame ==
    ASSUME Typed, ExclusionInv, NEW s \in Slots, Release(s)
    PROVE  KeysFrame
  <1>1. \A k \in kept : req[k].slot \in Slots
    BY DEF Typed, TypeOK, StateTypeOK, RequestsOK, RequestOK, ExclusionInv,
           KeptInside, CreateStages
  <1> QED
    BY <1>1 DEF Typed, TypeOK, HoldServiceTypeOK, KeysFrame, Release, releaseHold,
                ExclusionInv, HoldersExclude, isHeld

\* Who is between lock and insert is at one of two stages.
LEMMA KeptStage ==
    ASSUME Typed, ExclusionInv, NEW a \in Actors,
           req[a].at \notin {"create.check", "create.row"}
    PROVE  a \notin kept
  BY DEF ExclusionInv, KeptInside

LEMMA RequestMoves ==
    ASSUME Typed, NEW a \in Actors,
           \/ Finish(a)
           \/ \E to \in Stages : Goto(a, to)
           \/ \E b \in BookingIds, to \in Stages : NextItem(a, b, to) \/ TakeItem(a, b, to)
    PROVE  OwnRequest(a)
  <1>1. req \in [Actors -> Request]
    BY TypedParts
  <1> QED
    BY <1>1 DEF Finish, Goto, NextItem, TakeItem, OwnRequest

-----------------------------------------------------------------------------
(***************************************************************************)
(* The three steps of createHold the protocol consists of.                 *)
(***************************************************************************)
LEMMA AcquireExcludes ==
    ASSUME Typed, ExclusionInv, NEW a \in Actors, AcquireHold(a)
    PROVE  ExclusionInv'
  <1>1. /\ req[a].slot \in Slots /\ holdUntil[req[a].slot] = 0
        /\ holdUntil' = [holdUntil EXCEPT ![req[a].slot] = now + HoldTTL]
        /\ kept' = kept \cup {a}
        /\ UNCHANGED <<bookings, exposed, revived>>
    BY TypedParts DEF AcquireHold, acquireHold, updateHold, isHeld, At, RequestsOK,
                      RequestOK, CreateStages
  <1>2. now + HoldTTL # 0
    BY HoldTTLAssumption DEF Typed, TypeOK, HoldServiceTypeOK
  <1>3. /\ \A k \in Actors \ {a} : req'[k] = req[k]
        /\ req'[a].at = "create.check" /\ req'[a].slot = req[a].slot
    BY TypedParts DEF AcquireHold, Goto, Request
  <1>4. /\ kept \subseteq Actors /\ a \notin kept
        /\ \A k \in kept : req[k].slot # req[a].slot /\ holdUntil[req[k].slot] # 0
    BY <1>1, KeptStage DEF AcquireHold, At, Typed, TypeOK, StateTypeOK,
                           ExclusionInv, HoldersExclude, isHeld
  <1>5. \A k \in kept : req[k].slot \in Slots
    BY <1>4, TypedParts DEF RequestsOK, RequestOK, ExclusionInv, KeptInside, CreateStages
  <1>6. KeptInside'
    BY <1>1, <1>3, <1>4 DEF ExclusionInv, KeptInside
  <1>7. HoldersExclude'
    <2>1. ASSUME NEW k \in kept' PROVE holdUntil'[req'[k].slot] # 0
      BY <1>1, <1>2, <1>3, <1>4, <1>5, TypedParts DEF HoldServiceTypeOK
    <2>2. ASSUME NEW k \in kept', NEW l \in kept', req'[k].slot = req'[l].slot
          PROVE  k = l
      BY <1>1, <1>3, <1>4, <2>2 DEF ExclusionInv, HoldersExclude
    <2> QED
      BY <2>1, <2>2 DEF HoldersExclude, isHeld
  <1>8. BookingsFrame
    BY <1>1, BookingsUntouched
  <1>9. CheckedSlotIsFree'
    BY <1>1, <1>3, <1>4, <1>8 DEF BookingsFrame, ExclusionInv, CheckedSlotIsFree, At
  <1>10. DoubleBookingHasCause'
    BY <1>8 DEF BookingsFrame, ExclusionInv, DoubleBookingHasCause
  <1> QED
    BY <1>6, <1>7, <1>9, <1>10 DEF ExclusionInv

LEMMA CheckExcludes ==
    ASSUME Typed, ExclusionInv, NEW a \in Actors, CheckConflicts(a)
    PROVE  ExclusionInv'
  <1>1. UNCHANGED <<holdUntil, bookings, exposed, revived>> /\ kept' \subseteq kept
    BY DEF CheckConflicts
  <1>2. KeysFrame /\ BookingsFrame
    BY <1>1, KeysUntouched, BookingsUntouched
  <1>3. /\ \A k \in Actors \ {a} : req'[k] = req[k]
        /\ req'[a].slot = req[a].slot
        /\ \/ req'[a].at = "create.row" /\ findConflicting(req[a].slot, {}) = {}
           \/ a \notin kept'
    BY TypedParts DEF CheckConflicts, Goto, Request
  <1>4. kept \subseteq Actors
    BY TypedParts DEF StateTypeOK
  <1>5. CASE a \notin kept'
    BY <1>1, <1>2, <1>3, <1>4, <1>5, ExclusionFrame
  <1>6. CASE req'[a].at = "create.row" /\ findConflicting(req[a].slot, {}) = {}
    <2>1. req[a].slot \in Slots
      BY TypedParts DEF CheckConflicts, At, RequestsOK, RequestOK, CreateStages
    <2>2. ConflictingSlots(req[a].slot, req[a].slot)
      BY <2>1, SlotsAssumption, ConflictQueryIsReflexive
    <2>3. \A b \in BookingIds : Blocking(b) => bookings[b].slot # req[a].slot
      BY <1>6, <2>2 DEF findConflicting, Blocking, HasStatus
    <2>4. KeptInside'
      BY <1>1, <1>3, <1>4, <1>6 DEF ExclusionInv, KeptInside
    <2>5. HoldersExclude'
      BY <1>1, <1>3, <1>4 DEF ExclusionInv, HoldersExclude, isHeld
    <2>6. CheckedSlotIsFree'
      <3> SUFFICES ASSUME NEW k \in kept', NEW b \in BookingIds,
                          At(k, "create.row")', Blocking(b)',
                          bookings'[b].slot = req'[k].slot
                   PROVE  b \in revived \/ req'[k].slot \in exposed
        BY <1>1 DEF CheckedSlotIsFree
      <3>1. Blocking(b) /\ bookings[b].slot = req[k].slot
        BY <1>1, <1>3, <1>4 DEF Blocking, HasStatus, Stored
      <3>2. k # a
        BY <2>3, <3>1
      <3> QED
        BY <1>1, <1>3, <1>4, <3>1, <3>2 DEF At, ExclusionInv, CheckedSlotIsFree
    <2>7. DoubleBookingHasCause'
      BY <1>2 DEF BookingsFrame, ExclusionInv, DoubleBookingHasCause
    <2> QED
      BY <2>4, <2>5, <2>6, <2>7 DEF ExclusionInv
  <1> QED
    BY <1>3, <1>5, <1>6

LEMMA InsertExcludes ==
    ASSUME Typed, ExclusionInv, NEW a \in Actors, CreateRow(a)
    PROVE  ExclusionInv'
  <1>1. PICK n \in BookingIds :
            /\ n \notin Stored
            /\ create(n, req[a].slot, req[a].expires)
            /\ req' = [req EXCEPT ![a] = [@ EXCEPT !.at = "create.update", !.booking = n]]
    BY DEF CreateRow, IsNextId
  <1>2. /\ kept' = kept \ {a} /\ UNCHANGED <<holdUntil, revived>>
        /\ exposed' = IF a \in kept THEN exposed ELSE exposed \cup {req[a].slot}
        /\ At(a, "create.row")
    BY DEF CreateRow
  <1>3. req[a].slot \in Slots /\ req[a].expires \in Nat
    BY <1>2, TypedParts DEF RequestsOK, RequestOK, Request, At, CreateStages
  <1>4. /\ Stored' = Stored \cup {n}
        /\ bookings'[n].slot = req[a].slot
        /\ \A c \in BookingIds \ {n} : bookings'[c] = bookings[c]
    BY <1>1, <1>3, TypedParts, InsertTyped
  <1>5. \A k \in kept' : k \in kept /\ k # a /\ req'[k] = req[k]
    BY <1>1, <1>2, TypedParts DEF StateTypeOK
  <1>6. KeptInside'
    BY <1>5 DEF ExclusionInv, KeptInside
  <1>7. HoldersExclude'
    BY <1>2, <1>5 DEF ExclusionInv, HoldersExclude, isHeld
  <1>8. \A c \in BookingIds \ {n} : Blocking(c)' <=> Blocking(c)
    BY <1>4 DEF Blocking, HasStatus
  <1>9. CheckedSlotIsFree'
    <2> SUFFICES ASSUME NEW k \in kept', NEW b \in BookingIds,
                        At(k, "create.row")', Blocking(b)',
                        bookings'[b].slot = req'[k].slot
                 PROVE  b \in revived' \/ req'[k].slot \in exposed'
      BY DEF CheckedSlotIsFree
    <2>1. CASE b # n
      BY <1>2, <1>4, <1>5, <1>8, <2>1 DEF ExclusionInv, CheckedSlotIsFree, At
    <2>2. CASE b = n
      <3>1. req[k].slot = req[a].slot
        BY <1>4, <1>5, <2>2
      <3>2. a \notin kept
        BY <1>5, <3>1 DEF ExclusionInv, HoldersExclude
      <3> QED
        BY <1>2, <1>5, <3>1, <3>2
    <2> QED
      BY <2>1, <2>2
  <1>10. DoubleBookingHasCause'
    <2>1. ASSUME NEW b \in BookingIds \ {n}, Blocking(b), bookings[b].slot = req[a].slot
          PROVE  req[a].slot \in exposed' \/ b \in revived'
      BY <1>2, <2>1 DEF ExclusionInv, CheckedSlotIsFree
    <2>2. \A b, c \in BookingIds \ {n} :
              /\ Blocking(b)' /\ Blocking(c)' /\ b # c
              /\ bookings'[b].slot = bookings'[c].slot
              => \/ bookings'[b].slot \in exposed'
                 \/ b \in revived' \/ c \in revived'
      BY <1>2, <1>4, <1>8 DEF ExclusionInv, DoubleBookingHasCause
    <2> QED
      BY <1>4, <1>8, <2>1, <2>2 DEF DoubleBookingHasCause
  <1> QED
    BY <1>6, <1>7, <1>9, <1>10 DEF ExclusionInv

-----------------------------------------------------------------------------
(***************************************************************************)
(* Every other step leaves those between lock and insert to themselves.    *)
(***************************************************************************)
LEMMA OtherStep ==
    ASSUME Typed, ExclusionInv, NEW a \in Actors,
           OwnRequest(a), KeysFrame, BookingsFrame, a \notin kept'
    PROVE  ExclusionInv'
  <1>1. \A k \in kept' : req'[k] = req[k]
    BY TypedParts DEF OwnRequest, KeysFrame, StateTypeOK
  <1> QED
    BY <1>1, ExclusionFrame

LEMMA CreateExcludes ==
    ASSUME Typed, ExclusionInv, NEW a \in Actors, CreateHoldStep(a)
    PROVE  ExclusionInv'
  <1>1. CASE AcquireRefused(a)
    <2>1. OwnRequest(a) /\ BookingsFrame /\ KeysFrame /\ a \notin kept'
      BY <1>1, RequestMoves, BookingsUntouched, KeysUntouched, KeptStage
         DEF AcquireRefused, At, history
    <2> QED
      BY <2>1, OtherStep
  <1>2. CASE ReleaseOnConflict(a) \/ ReleaseInCatch(a)
    <2>1. req[a].slot \in Slots
      BY <1>2, TypedParts
         DEF ReleaseOnConflict, ReleaseInCatch, At, RequestsOK, RequestOK, CreateStages
    <2>2. OwnRequest(a)
      BY <1>2, RequestMoves DEF ReleaseOnConflict, ReleaseInCatch, Stages, CreateStages
    <2>3. BookingsFrame
      BY <1>2, BookingsUntouched DEF ReleaseOnConflict, ReleaseInCatch
    <2>4. KeysFrame
      BY <1>2, <2>1, ReleaseFrame DEF ReleaseOnConflict, ReleaseInCatch
    <2>5. a \notin kept'
      BY <1>2, <2>4, KeptStage DEF ReleaseOnConflict, ReleaseInCatch, At, KeysFrame
    <2> QED
      BY <2>2, <2>3, <2>4, <2>5, OtherStep
  <1>3. CASE UpdateHold(a)
    <2>1. req[a].slot \in Slots /\ now + HoldTTL # 0
      BY <1>3, TypedParts, HoldTTLAssumption
         DEF UpdateHold, At, RequestsOK, RequestOK, CreateStages, HoldServiceTypeOK
    <2>2. OwnRequest(a) /\ BookingsFrame /\ a \notin kept'
      BY <1>3, RequestMoves, BookingsUntouched, KeptStage
         DEF UpdateHold, At, history, Stages, CreateStages
    <2>3. KeysFrame
      BY <1>3, <2>1, TypedParts
         DEF UpdateHold, updateHold, history, KeysFrame, ExclusionInv, HoldersExclude,
             isHeld, HoldServiceTypeOK
    <2> QED
      BY <2>2, <2>3, OtherStep
  <1>4. CASE AuditHold(a)
    <2>1. OwnRequest(a) /\ BookingsFrame /\ KeysFrame /\ a \notin kept'
      BY <1>4, RequestMoves, BookingsUntouched, KeysUntouched, KeptStage
         DEF AuditHold, At, history
    <2> QED
      BY <2>1, OtherStep
  <1> QED
    BY <1>1, <1>2, <1>3, <1>4, AcquireExcludes, CheckExcludes, InsertExcludes
       DEF CreateHoldStep

LEMMA ConfirmExcludes ==
    ASSUME Typed, ExclusionInv, NEW a \in Actors, ConfirmStep(a)
    PROVE  ExclusionInv'
  <1>1. CASE ConfirmExpire(a)
    <2>1. Target(a) \in Stored
      BY <1>1, TargetTyped DEF ConfirmExpire, At, BookingStages, CancelStages
    <2>2. BookingsFrame
      BY <1>1, <2>1, UpdateFrame
         DEF ConfirmExpire, history, Status, BLOCKING_STATUSES
    <2>3. OwnRequest(a) /\ KeysFrame /\ a \notin kept'
      BY <1>1, RequestMoves, KeysUntouched, KeptStage
         DEF ConfirmExpire, At, history, Stages, BookingStages, CancelStages
    <2> QED
      BY <2>2, <2>3, OtherStep
  <1>2. CASE ConfirmUpdate(a)
    <2>1. Target(a) \in Stored
      BY <1>2, TargetTyped DEF ConfirmUpdate, At, BookingStages, CancelStages
    <2>2. BookingsFrame
      BY <1>2, <2>1, UpdateFrame
         DEF ConfirmUpdate, history, WriteConfirmed, Status
    <2>3. OwnRequest(a) /\ KeysFrame /\ a \notin kept'
      BY <1>2, RequestMoves, KeysUntouched, KeptStage
         DEF ConfirmUpdate, At, history, Stages, BookingStages, CancelStages
    <2> QED
      BY <2>2, <2>3, OtherStep
  <1>3. CASE ConfirmRelease(a)
    <2>1. TargetSlot(a) \in Slots
      BY <1>3, TargetTyped DEF ConfirmRelease, At, BookingStages, CancelStages
    <2>2. KeysFrame
      BY <1>3, <2>1, ReleaseFrame DEF ConfirmRelease
    <2>3. OwnRequest(a) /\ BookingsFrame /\ a \notin kept'
      BY <1>3, <2>2, RequestMoves, BookingsUntouched, KeptStage
         DEF ConfirmRelease, At, KeysFrame, Stages, BookingStages, CancelStages
    <2> QED
      BY <2>2, <2>3, OtherStep
  <1>4. CASE ConfirmExpireAudit(a) \/ ConfirmCheck(a) \/ ConfirmPaymentLink(a) \/ ConfirmAudit(a)
    <2>1. OwnRequest(a) /\ BookingsFrame /\ KeysFrame /\ a \notin kept'
      BY <1>4, RequestMoves, BookingsUntouched, KeysUntouched, KeptStage
         DEF ConfirmExpireAudit, ConfirmCheck, ConfirmPaymentLink, ConfirmAudit, At, history,
             Stages, BookingStages, CancelStages
    <2> QED
      BY <2>1, OtherStep
  <1> QED
    BY <1>1, <1>2, <1>3, <1>4 DEF ConfirmStep

LEMMA WebhookExcludes ==
    ASSUME Typed, ExclusionInv, NEW a \in Actors, WebhookStep(a)
    PROVE  ExclusionInv'
  <1>1. CASE WebhookUpdate(a)
    <2>1. Target(a) \in Stored
      BY <1>1, TargetTyped DEF WebhookUpdate, At, BookingStages, CancelStages
    <2>2. BookingsFrame
      BY <1>1, <2>1, UpdateFrame
         DEF WebhookUpdate, history, WriteConfirmed, Status
    <2>3. OwnRequest(a) /\ KeysFrame /\ a \notin kept'
      BY <1>1, RequestMoves, KeysUntouched, KeptStage
         DEF WebhookUpdate, At, history, Stages, BookingStages, CancelStages
    <2> QED
      BY <2>2, <2>3, OtherStep
  <1>2. CASE WebhookRelease(a)
    <2>1. TargetSlot(a) \in Slots
      BY <1>2, TargetTyped DEF WebhookRelease, At, BookingStages, CancelStages
    <2>2. KeysFrame
      BY <1>2, <2>1, ReleaseFrame DEF WebhookRelease
    <2>3. OwnRequest(a) /\ BookingsFrame /\ a \notin kept'
      BY <1>2, <2>2, RequestMoves, BookingsUntouched, KeptStage
         DEF WebhookRelease, At, KeysFrame, Stages, BookingStages, CancelStages
    <2> QED
      BY <2>2, <2>3, OtherStep
  <1>3. CASE WebhookAudit(a)
    <2>1. OwnRequest(a) /\ BookingsFrame /\ KeysFrame /\ a \notin kept'
      BY <1>3, RequestMoves, BookingsUntouched, KeysUntouched, KeptStage
         DEF WebhookAudit, At, history,
             Stages, BookingStages, CancelStages
    <2> QED
      BY <2>1, OtherStep
  <1> QED
    BY <1>1, <1>2, <1>3 DEF WebhookStep

LEMMA CancelExcludes ==
    ASSUME Typed, ExclusionInv, NEW a \in Actors, CancelStep(a)
    PROVE  ExclusionInv'
  <1>1. CASE CancelRelease(a)
    <2>1. TargetSlot(a) \in Slots
      BY <1>1, TargetTyped DEF CancelRelease, At, BookingStages, CancelStages
    <2>2. KeysFrame
      BY <1>1, <2>1, ReleaseFrame DEF CancelRelease
    <2>3. OwnRequest(a) /\ BookingsFrame /\ a \notin kept'
      BY <1>1, <2>2, RequestMoves, BookingsUntouched, KeptStage
         DEF CancelRelease, At, KeysFrame, Stages, BookingStages, CancelStages
    <2> QED
      BY <2>2, <2>3, OtherStep
  <1>2. CASE CancelUpdate(a)
    <2>1. Target(a) \in Stored
      BY <1>2, TargetTyped DEF CancelUpdate, At, BookingStages, CancelStages
    <2>2. BookingsFrame
      BY <1>2, <2>1, CancelTarget, UpdateFrame
         DEF CancelUpdate, history, At, CancelStages, CancelledStatus,
             BLOCKING_STATUSES
    <2>3. OwnRequest(a) /\ KeysFrame /\ a \notin kept'
      BY <1>2, RequestMoves, KeysUntouched, KeptStage
         DEF CancelUpdate, At, history, Stages, BookingStages, CancelStages
    <2> QED
      BY <2>2, <2>3, OtherStep
  <1>3. CASE CancelAudit(a)
    <2>1. OwnRequest(a) /\ BookingsFrame /\ KeysFrame /\ a \notin kept'
      BY <1>3, RequestMoves, BookingsUntouched, KeysUntouched, KeptStage
         DEF CancelAudit, At, history,
             Stages, BookingStages, CancelStages
    <2> QED
      BY <2>1, OtherStep
  <1> QED
    BY <1>1, <1>2, <1>3 DEF CancelStep

LEMMA JobExcludes ==
    ASSUME Typed, ExclusionInv, NEW a \in Actors, JobStep(a)
    PROVE  ExclusionInv'
  <1>1. ASSUME NEW b \in BookingIds, ExpireUpdate(a, b) PROVE ExclusionInv'
    <2>1. b \in Stored
      BY <1>1, TypedParts DEF ExpireUpdate, RequestsOK, RequestOK
    <2>2. BookingsFrame
      BY <1>1, <2>1, UpdateFrame DEF ExpireUpdate, history, Status, BLOCKING_STATUSES
    <2>3. OwnRequest(a) /\ KeysFrame /\ a \notin kept'
      BY <1>1, RequestMoves, KeysUntouched, KeptStage
         DEF ExpireUpdate, At, history, Stages, BookingStages
    <2> QED
      BY <2>2, <2>3, OtherStep
  <1>2. CASE ExpireRelease(a)
    <2>1. TargetSlot(a) \in Slots
      BY <1>2, TargetTyped DEF ExpireRelease, At, BookingStages, CancelStages
    <2>2. KeysFrame
      BY <1>2, <2>1, ReleaseFrame DEF ExpireRelease
    <2>3. OwnRequest(a) /\ BookingsFrame /\ a \notin kept'
      BY <1>2, <2>2, RequestMoves, BookingsUntouched, KeptStage
         DEF ExpireRelease, At, KeysFrame, Stages, BookingStages, CancelStages
    <2> QED
      BY <2>2, <2>3, OtherStep
  <1>3. CASE ReconcileUpdate(a)
    <2>1. Target(a) \in Stored
      BY <1>3, TargetTyped DEF ReconcileUpdate, At, BookingStages, CancelStages
    <2>2. BookingsFrame
      BY <1>3, <2>1, UpdateFrame
         DEF ReconcileUpdate, history, Status, BLOCKING_STATUSES
    <2>3. OwnRequest(a) /\ KeysFrame /\ a \notin kept'
      BY <1>3, RequestMoves, KeysUntouched, KeptStage
         DEF ReconcileUpdate, At, history, Stages, BookingStages, CancelStages
    <2> QED
      BY <2>2, <2>3, OtherStep
  <1>4. CASE CompleteBulk(a)
    <2>1. ASSUME NEW b \in BookingIds, Blocking(b)'
          PROVE  Blocking(b) /\ bookings'[b].slot = bookings[b].slot
      <3>1. b \notin Finished
        <4> SUFFICES ASSUME b \in Finished PROVE FALSE
          OBVIOUS
        <4>1. bookings'[b] = [bookings[b] EXCEPT !.status = "COMPLETED"]
              /\ bookings[b] \in Booking
          BY <1>4, TypedParts DEF CompleteBulk, completeExpiredBookings, Finished, Stored
        <4>2. bookings'[b].status = "COMPLETED"
          BY <4>1 DEF Booking
        <4> QED
          BY <2>1, <4>2 DEF Blocking, HasStatus, BLOCKING_STATUSES
      <3>2. bookings'[b] = bookings[b]
        BY <1>4, <3>1 DEF CompleteBulk, completeExpiredBookings
      <3> QED
        BY <2>1, <3>2 DEF Blocking, HasStatus, Stored
    <2>2. BookingsFrame
      BY <1>4, <2>1 DEF CompleteBulk, history, BookingsFrame
    <2>3. OwnRequest(a) /\ KeysFrame /\ a \notin kept'
      BY <1>4, RequestMoves, KeysUntouched, KeptStage
         DEF CompleteBulk, At, history, Stages, LoopStages
    <2> QED
      BY <2>2, <2>3, OtherStep
  <1>5. CASE ExpireAudit(a) \/ ReconcileAudit(a)
    <2>1. OwnRequest(a) /\ BookingsFrame /\ KeysFrame /\ a \notin kept'
      BY <1>5, TargetTyped, RequestMoves, BookingsUntouched, KeysUntouched, KeptStage
         DEF ExpireAudit, ReconcileAudit, At, history,
             Stages, BookingStages, LoopStages
    <2> QED
      BY <2>1, OtherStep
  <1>6. ASSUME NEW b \in BookingIds, ReconcileCheck(a, b) \/ CompleteAudit(a, b)
        PROVE  ExclusionInv'
    <2>1. OwnRequest(a) /\ BookingsFrame /\ KeysFrame /\ a \notin kept'
      BY <1>6, RequestMoves, BookingsUntouched, KeysUntouched, KeptStage
         DEF ReconcileCheck, CompleteAudit, At, history, Stages, BookingStages, LoopStages
    <2> QED
      BY <2>1, OtherStep
  <1> QED
    BY <1>1, <1>2, <1>3, <1>4, <1>5, <1>6 DEF JobStep

LEMMA BeginsExcludes ==
    ASSUME Typed, ExclusionInv, NEW a \in Actors, Begins(a)
    PROVE  ExclusionInv'
  <1>1. /\ UNCHANGED <<holdUntil, bookings, exposed, revived, kept>>
        /\ At(a, "idle")
    BY DEF Begins, OwnerCancels, Begin, BeginCreateHold, BeginConfirm, BeginWebhook, BeginCancel,
           BeginExpireHolds, BeginReconcileHolds, BeginComplete, history
  <1>2. OwnRequest(a)
    BY TypedParts
       DEF Begins, OwnerCancels, Begin, BeginCreateHold, BeginConfirm, BeginWebhook, BeginCancel,
           BeginExpireHolds, BeginReconcileHolds, BeginComplete, OwnRequest
  <1>3. a \notin kept'
    BY <1>1, KeptStage DEF At
  <1> QED
    BY <1>1, <1>2, <1>3, BookingsUntouched, KeysUntouched, OtherStep

LEMMA FaultsExclude ==
    ASSUME Typed, ExclusionInv, NEW a \in Actors, Faults(a)
    PROVE  ExclusionInv'
  <1>1. UNCHANGED <<holdUntil, bookings, exposed, revived>> /\ kept' \subseteq kept
    BY DEF Faults, CreateFault, CreateAbort, RequestFault, ItemFault, history
  <1>2. CASE CreateFault(a)
    <2>1. OwnRequest(a) /\ a \notin kept'
      BY <1>2, RequestMoves DEF CreateFault, Stages, CreateStages
    <2> QED
      BY <1>1, <2>1, BookingsUntouched, KeysUntouched, OtherStep
  <1>3. CASE CreateAbort(a) \/ RequestFault(a)
    <2>1. OwnRequest(a)
      BY <1>3, RequestMoves DEF CreateAbort, RequestFault
    <2>2. a \notin kept
      BY <1>3, KeptStage
         DEF CreateAbort, RequestFault, CreateStages, BookingStages, CancelStages
    <2> QED
      BY <1>1, <2>1, <2>2, BookingsUntouched, KeysUntouched, OtherStep
  <1>4. ASSUME NEW b \in BookingIds, ItemFault(a, b) PROVE ExclusionInv'
    <2>1. OwnRequest(a)
      BY <1>4, RequestMoves DEF ItemFault, Stages, LoopStages
    <2>2. a \notin kept
      BY <1>4, KeptStage DEF ItemFault
    <2> QED
      BY <1>1, <2>1, <2>2, BookingsUntouched, KeysUntouched, OtherStep
  <1> QED
    BY <1>2, <1>3, <1>4 DEF Faults

LEMMA ExclusionInit == Init => ExclusionInv
  BY DEF Init, StateInit, BookingRepositoryInit, ExclusionInv, KeptInside,
         HoldersExclude, CheckedSlotIsFree, DoubleBookingHasCause, Blocking, HasStatus,
         Stored

LEMMA ExclusionNext == Typed /\ ExclusionInv /\ [Next]_vars => ExclusionInv'
  <1> SUFFICES ASSUME Typed, ExclusionInv, [Next]_vars PROVE ExclusionInv'
    OBVIOUS
  <1>1. CASE UNCHANGED vars
    BY <1>1, BookingsUntouched, KeysUntouched, ExclusionFrame DEF vars
  <1>2. CASE Tick
    BY <1>2, BookingsUntouched, ExclusionFrame DEF Tick, KeysFrame
  <1>3. CASE Crash
    BY <1>3, BookingsUntouched, KeysUntouched, ExclusionFrame DEF Crash
  <1>4. ASSUME NEW b \in BookingIds, Pay(b) PROVE ExclusionInv'
    BY <1>4, BookingsUntouched, KeysUntouched, ExclusionFrame DEF Pay, history
  <1>5. ASSUME NEW a \in Actors, Begins(a) \/ Step(a) \/ Faults(a) PROVE ExclusionInv'
    BY <1>5, BeginsExcludes, FaultsExclude, CreateExcludes, ConfirmExcludes,
       WebhookExcludes, CancelExcludes, JobExcludes DEF Step
  <1> QED
    BY <1>1, <1>2, <1>3, <1>4, <1>5 DEF Next

LEMMA ExclusionHolds == Spec => []ExclusionInv
  BY InitTyped, NextTyped, ExclusionInit, ExclusionNext, PTL DEF Spec

(***************************************************************************)
(* Between its lock and its insert a request whose key never lapsed has    *)
(* the slot for itself, whatever the other requests and jobs do, and       *)
(* although any of them may delete any key.                                *)
(***************************************************************************)
THEOREM LockExcludes == Spec => []HoldersExclude
  <1>1. ExclusionInv => HoldersExclude
    BY DEF ExclusionInv
  <1> QED
    BY <1>1, ExclusionHolds, PTL

(***************************************************************************)
(* One slot is booked twice only through a lapsed key or a revived         *)
(* booking: the lock-check-insert protocol of createHold has no other      *)
(* hole, with any number of customers, jobs, failures and crashes.         *)
(***************************************************************************)
THEOREM DoubleBookingNeedsCause == Spec => []DoubleBookingHasCause
  <1>1. ExclusionInv => DoubleBookingHasCause
    BY DEF ExclusionInv
  <1> QED
    BY <1>1, ExclusionHolds, PTL
=============================================================================
