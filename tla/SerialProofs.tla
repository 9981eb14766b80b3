---------------------------- MODULE SerialProofs ----------------------------
(***************************************************************************)
(* Proofs that the use cases are right when nothing runs beside them: with *)
(* one request or job at a time, for every set of slots and actors, every  *)
(* lifetime of a hold, and with calls that fail and processes that crash.  *)
(***************************************************************************)
EXTENDS SerialBookings, BookingSystemProofs, FiniteSetTheorems

\* Nobody but a is at work, and the step touches no local variable but a's.
Solo(a) == \A x \in Actors \ {a} : At(x, "idle")
LocalStep(a) == \A x \in Actors \ {a} : req'[x] = req[x]

LEMMA GotoLocal ==
    ASSUME req \in [Actors -> Request], NEW a \in Actors, NEW to, Goto(a, to)
    PROVE  /\ LocalStep(a)
           /\ req'[a].at = to /\ req'[a].slot = req[a].slot
           /\ req'[a].expires = req[a].expires /\ req'[a].booking = req[a].booking
           /\ req'[a].seen = req[a].seen /\ req'[a].goal = req[a].goal
           /\ req'[a].todo = req[a].todo
  <1> DEFINE r == [req[a] EXCEPT !.at = to]
  <1>1. req' = [req EXCEPT ![a] = r]
    BY DEF Goto
  <1>2. /\ r.at = to /\ r.slot = req[a].slot /\ r.expires = req[a].expires
        /\ r.booking = req[a].booking /\ r.seen = req[a].seen
        /\ r.goal = req[a].goal /\ r.todo = req[a].todo
    BY DEF Request
  <1> HIDE DEF r
  <1> QED
    BY <1>1, <1>2 DEF LocalStep

LEMMA FinishLocal ==
    ASSUME req \in [Actors -> Request], NEW a \in Actors, Finish(a)
    PROVE  LocalStep(a) /\ req'[a] = Idle /\ req'[a].at = "idle"
  BY DEF Finish, LocalStep, Idle

LEMMA TakeItemLocal ==
    ASSUME req \in [Actors -> Request], NEW a \in Actors, NEW b, NEW to, TakeItem(a, b, to)
    PROVE  /\ LocalStep(a)
           /\ req'[a].at = to /\ req'[a].booking = b /\ req'[a].todo = req[a].todo
  <1> DEFINE r == [req[a] EXCEPT !.at = to, !.booking = b]
  <1>1. req' = [req EXCEPT ![a] = r]
    BY DEF TakeItem
  <1>2. r.at = to /\ r.booking = b /\ r.todo = req[a].todo
    BY DEF Request
  <1> HIDE DEF r
  <1> QED
    BY <1>1, <1>2 DEF LocalStep

LEMMA NextItemLocal ==
    ASSUME req \in [Actors -> Request], NEW a \in Actors, NEW b, NEW to, NextItem(a, b, to)
    PROVE  /\ LocalStep(a)
           /\ req'[a].at \in {"idle", to}
           /\ req'[a].at = "idle" \/ req'[a].todo = req[a].todo \ {b}
  <1>1. CASE Finish(a)
    BY <1>1, FinishLocal
  <1>2. CASE ~Finish(a)
    <2> DEFINE r == [Idle EXCEPT !.at = to, !.todo = req[a].todo \ {b}]
    <2>1. req' = [req EXCEPT ![a] = r]
      BY <1>2 DEF NextItem
    <2>2. r.at = to /\ r.todo = req[a].todo \ {b}
      BY DEF Idle
    <2> HIDE DEF r
    <2> QED
      BY <2>1, <2>2 DEF LocalStep
  <1> QED
    BY <1>1, <1>2

\* A use case begins only when nobody is at work.
LEMMA BeginAlone ==
    ASSUME MaxInFlight = 1, req \in [Actors -> Request], OneInFlight,
           NEW a \in Actors, NEW useCase, NEW r, Begin(a, useCase, r)
    PROVE  LocalStep(a) /\ req'[a] = r /\ \A x \in Actors : At(x, "idle")
  <1> DEFINE S == {x \in Actors : ~At(x, "idle")}
  <1>1. req' = [req EXCEPT ![a] = r] /\ Cardinality(S) < 1
    BY DEF Begin
  <1>2. ASSUME NEW x \in S PROVE FALSE
    <2>1. S = {x}
      BY <1>2 DEF OneInFlight
    <2>2. Cardinality(S) = 1
      BY <2>1, FS_Singleton
    <2> QED
      BY <1>1, <2>2
  <1> QED
    BY <1>1, <1>2 DEF LocalStep

LEMMA IdleStays ==
    ASSUME NEW a, req'[a].at = "idle"
    PROVE  FreshOK(req[a])' /\ ListOK(req[a])'
  BY DEF FreshOK, ListOK, HoldStages, ConfirmedStages, UnauditedStages

LEMMA SoloKept ==
    ASSUME NEW a \in Actors, Solo(a), LocalStep(a)
    PROVE  /\ OneInFlight'
           /\ \A x \in Actors \ {a} : req'[x].at = "idle"
           /\ FreshOK(req[a])' /\ ListOK(req[a])' => NothingStale'
  <1>1. \A x \in Actors \ {a} : req'[x].at = "idle"
    BY DEF Solo, LocalStep, At
  <1>2. OneInFlight'
    BY <1>1 DEF OneInFlight, At
  <1>3. \A x \in Actors \ {a} : FreshOK(req[x])' /\ ListOK(req[x])'
    BY <1>1, IdleStays
  <1> QED
    BY <1>1, <1>2, <1>3 DEF NothingStale

-----------------------------------------------------------------------------
(***************************************************************************)
(* The rows of the bookings.                                               *)
(***************************************************************************)
\* Every booking that blocks after the step did so before, where it was.
NoNewBlocker ==
    \A c \in BookingIds : Blocking(c)' => Blocking(c) /\ bookings'[c].slot = bookings[c].slot

LEMMA ApartKept ==
    ASSUME SlotsApart, NoNewBlocker
    PROVE  SlotsApart'
  BY DEF SlotsApart, NoNewBlocker, Colliding

LEMMA SameTable ==
    ASSUME bookings' = bookings
    PROVE  /\ NoNewBlocker /\ Stored' = Stored
           /\ \A c \in BookingIds : Blocking(c)' <=> Blocking(c)
           /\ \A s : findConflicting(s, {})' = findConflicting(s, {})
  <1>1. Stored' = Stored
    BY DEF Stored
  <1> QED
    BY <1>1 DEF NoNewBlocker, Blocking, HasStatus, findConflicting

\* One booking moves along the life cycle.
LEMMA UpdateMoves ==
    ASSUME Typed, NEW b \in Stored, NEW status \in Status, update(b, status),
           Blocking(b)
    PROVE  /\ NoNewBlocker /\ Stored' = Stored /\ b \in BookingIds
           /\ bookings'[b].slot = bookings[b].slot
           /\ bookings'[b].status = status
           /\ bookings'[b].holdExpiresAt = bookings[b].holdExpiresAt
           /\ \A c \in BookingIds \ {b} : bookings'[c] = bookings[c]
  <1>1. /\ Stored' = Stored
        /\ bookings'[b].slot = bookings[b].slot
        /\ bookings'[b].status = status
        /\ \A c \in BookingIds \ {b} : bookings'[c] = bookings[c]
    BY TypedParts, UpdateTyped
  <1>2. b \in BookingIds /\ bookings[b] \in Booking
    BY TypedParts DEF Stored
  <1>3. bookings'[b].holdExpiresAt = bookings[b].holdExpiresAt
    BY <1>2, TypedParts DEF update, Booking
  <1>4. ASSUME NEW c \in BookingIds, Blocking(c)'
        PROVE  Blocking(c) /\ bookings'[c].slot = bookings[c].slot
    <2>1. CASE c = b
      BY <1>1, <2>1
    <2>2. CASE c # b
      BY <1>1, <1>4, <2>2 DEF Blocking, HasStatus
    <2> QED
      BY <2>1, <2>2
  <1> QED
    BY <1>1, <1>2, <1>3, <1>4 DEF NoNewBlocker

LEMMA BulkMoves ==
    ASSUME Typed, completeExpiredBookings
    PROVE  /\ NoNewBlocker /\ Stored' = Stored
           /\ \A c \in Stored : /\ bookings'[c].slot = bookings[c].slot
                                /\ bookings'[c].holdExpiresAt = bookings[c].holdExpiresAt
           /\ \A c \in Finished : /\ bookings[c].status = "CONFIRMED"
                                  /\ bookings'[c].status = "COMPLETED"
           /\ \A c \in BookingIds \ Finished : bookings'[c] = bookings[c]
  <1>1. \A c \in BookingIds \ Finished : bookings'[c] = bookings[c]
    BY DEF completeExpiredBookings
  <1>2. ASSUME NEW c \in Finished
        PROVE  /\ bookings[c].status = "CONFIRMED" /\ bookings'[c].status = "COMPLETED"
               /\ bookings'[c].slot = bookings[c].slot
               /\ bookings'[c].holdExpiresAt = bookings[c].holdExpiresAt
               /\ bookings'[c] # NoBooking
    <2> DEFINE row == [bookings[c] EXCEPT !.status = "COMPLETED"]
    <2>1. c \in BookingIds /\ bookings[c] \in Booking /\ bookings[c].status = "CONFIRMED"
      BY TypedParts DEF Finished, Stored
    <2>2. bookings'[c] = row
      BY <2>1 DEF completeExpiredBookings
    <2>3. /\ row \in Booking /\ row.status = "COMPLETED" /\ row.slot = bookings[c].slot
          /\ row.holdExpiresAt = bookings[c].holdExpiresAt
      BY <2>1 DEF Booking, Status
    <2>4. row # NoBooking
      BY <2>3, NoBookingAssumption
    <2> HIDE DEF row
    <2> QED
      BY <2>1, <2>2, <2>3, <2>4
  <1>3. Finished \subseteq Stored /\ Stored \subseteq BookingIds
    BY DEF Finished, Stored
  <1>4. Stored' = Stored
    BY <1>1, <1>2, <1>3 DEF Stored
  <1>5. NoNewBlocker
    <2> SUFFICES ASSUME NEW c \in BookingIds, Blocking(c)'
                 PROVE  Blocking(c) /\ bookings'[c].slot = bookings[c].slot
      BY DEF NoNewBlocker
    <2>1. c \notin Finished
      BY <1>2 DEF Blocking, HasStatus, BLOCKING_STATUSES
    <2> QED
      BY <1>1, <1>4, <2>1 DEF Blocking, HasStatus
  <1> QED
    BY <1>1, <1>2, <1>3, <1>4, <1>5

\* A hold is inserted where the conflict query finds nothing.
LEMMA InsertApart ==
    ASSUME Typed, SlotsApart, NEW b \in BookingIds, NEW s \in Slots, NEW t \in Nat,
           b \notin Stored, create(b, s, t), findConflicting(s, {}) = {}
    PROVE  /\ SlotsApart'
           /\ Stored' = Stored \cup {b}
           /\ bookings'[b].slot = s /\ bookings'[b].status = "HOLD"
           /\ bookings'[b].holdExpiresAt = t
           /\ \A c \in BookingIds \ {b} : bookings'[c] = bookings[c]
           /\ \A c \in BookingIds \ {b} : Blocking(c)' <=> Blocking(c)
  <1>1. /\ Stored' = Stored \cup {b}
        /\ bookings'[b].slot = s /\ bookings'[b].status = "HOLD"
        /\ \A c \in BookingIds \ {b} : bookings'[c] = bookings[c]
    BY TypedParts, InsertTyped
  <1>2. bookings'[b].holdExpiresAt = t
    BY TypedParts DEF create
  <1>3. \A c \in BookingIds \ {b} : Blocking(c)' <=> Blocking(c)
    BY <1>1 DEF Blocking, HasStatus
  <1>4. ASSUME NEW c \in BookingIds \ {b}, Blocking(c)
        PROVE  /\ bookings[c].slot # s
               /\ bookings[c].slot.court = s.court
                     => ~Overlaps(bookings[c].slot, s) /\ ~Overlaps(s, bookings[c].slot)
    <2> DEFINE u == bookings[c].slot
    <2>1. u \in Slots /\ c \in Stored
      BY <1>4, TypedParts DEF Blocking, HasStatus, Stored, Booking
    <2>2. ~ConflictingSlots(s, u)
      BY <1>4, <2>1 DEF findConflicting
    <2> HIDE DEF u
    <2>3. /\ s.start \in Int /\ s.end \in Int /\ u.start \in Int /\ u.end \in Int
      BY <2>1, SlotsAssumption
    <2>4. u # s
      BY <2>2, <2>3, ConflictQueryIsReflexive
    <2>5. u.court = s.court => ~MatchesConflictQuery(s, u)
      BY <2>2 DEF ConflictingSlots
    <2>6. u.court = s.court => ~Overlaps(s, u)
      BY <2>3, <2>5, ConflictQueryFindsOverlap
    <2>7. u.court = s.court => ~Overlaps(u, s)
      BY <2>3, <2>6, ConflictQueryFindsOverlap
    <2> QED
      BY <2>4, <2>6, <2>7 DEF u
  <1>5. ASSUME NEW c \in BookingIds, NEW d \in BookingIds, c # d,
               Blocking(c)', Blocking(d)'
        PROVE  /\ bookings'[c].slot # bookings'[d].slot
               /\ ~(/\ bookings'[c].slot.court = bookings'[d].slot.court
                    /\ Overlaps(bookings'[c].slot, bookings'[d].slot))
    <2>1. CASE c = b
      BY <1>1, <1>3, <1>4, <1>5, <2>1
    <2>2. CASE d = b
      BY <1>1, <1>3, <1>4, <1>5, <2>2
    <2>3. CASE c # b /\ d # b
      BY <1>1, <1>3, <1>5, <2>3 DEF SlotsApart, Colliding
    <2> QED
      BY <2>1, <2>2, <2>3
  <1> QED
    BY <1>1, <1>2, <1>3, <1>5 DEF SlotsApart, Colliding

-----------------------------------------------------------------------------
(***************************************************************************)
(* The core of the invariant: nobody acts on what is no longer so, and the *)
(* bookings stay apart.                                                    *)
(***************************************************************************)
Core == OneInFlight /\ SlotsApart /\ NothingStale

\* What a step of a has to show, given that the others do nothing.
CoreStep(a) == LocalStep(a) /\ SlotsApart' /\ FreshOK(req[a])' /\ ListOK(req[a])'

LEMMA Fresh ==
    ASSUME NothingStale, NEW a \in Actors
    PROVE  FreshOK(req[a]) /\ ListOK(req[a])
  BY DEF NothingStale

\* A request or job that reads, or is interrupted, leaves the rows alone.
LEMMA GotoFresh ==
    ASSUME Typed, Core, NEW a \in Actors, NEW to, Goto(a, to), bookings' = bookings,
           to \notin LoopStages,
           to \in HoldStages => req[a].at \in HoldStages,
           to \in ConfirmedStages => req[a].at \in ConfirmedStages,
           to = "cancel.update" => req[a].at = "cancel.release",
           to # "cancel.audit", to # "cancel.release", to # "create.row",
           to = "create.update" => req[a].at = "create.update",
           to \in UnauditedStages => to = "expire.audit" /\ req[a].at = "expire.release",
           to # "reconcile.update"
    PROVE  CoreStep(a)
  <1>1. SlotsApart'
    BY SameTable, ApartKept DEF Core
  <1>2. /\ LocalStep(a)
        /\ req'[a].at = to /\ req'[a].slot = req[a].slot
        /\ req'[a].booking = req[a].booking
        /\ req'[a].seen = req[a].seen /\ req'[a].todo = req[a].todo
    BY TypedParts, GotoLocal
  <1>3. FreshOK(req[a])'
    BY <1>2, Fresh DEF Core, FreshOK, HoldStages, ConfirmedStages, UnauditedStages
  <1>4. ListOK(req[a])'
    BY <1>2, Fresh DEF Core, ListOK, AllHave, LoopStages, UnauditedStages
  <1> QED
    BY <1>1, <1>2, <1>3, <1>4 DEF CoreStep

LEMMA FinishCore ==
    ASSUME Typed, Core, NEW a \in Actors, Finish(a), bookings' = bookings
    PROVE  CoreStep(a)
  BY TypedParts, FinishLocal, IdleStays, SameTable, ApartKept DEF CoreStep, Core

LEMMA NextItemCore ==
    ASSUME Typed, Core, NEW a \in Actors, NEW b, NEW to \in LoopStages \ {"complete.bulk"},
           NextItem(a, b, to), bookings' = bookings,
           to = "complete.item" => req[a].at = "complete.item",
           to # "complete.item" =>
                \/ req[a].at \in {"expire.item", "reconcile.item", "reconcile.update"}
                \/ /\ req[a].at \in {"expire.release", "expire.audit", "reconcile.audit"}
                   /\ b = Target(a)
    PROVE  CoreStep(a)
  <1>1. SlotsApart'
    BY SameTable, ApartKept DEF Core
  <1>2. /\ LocalStep(a) /\ req'[a].at \in {"idle", to}
        /\ req'[a].at = "idle" \/ req'[a].todo = req[a].todo \ {b}
    BY TypedParts, NextItemLocal
  <1>3. FreshOK(req[a])'
    BY <1>2 DEF FreshOK, HoldStages, ConfirmedStages, UnauditedStages, LoopStages
  <1>4. ListOK(req[a])'
    <2>1. CASE req'[a].at = "idle"
      BY <2>1, IdleStays
    <2>2. CASE req'[a].at # "idle"
      <3>1. req'[a].at = to /\ req'[a].todo = req[a].todo \ {b}
        BY <1>2, <2>2
      <3>2. ListOK(req[a])
        BY Fresh DEF Core
      <3> QED
        BY <3>1, <3>2 DEF ListOK, AllHave, LoopStages, Target
    <2> QED
      BY <2>1, <2>2
  <1> QED
    BY <1>1, <1>2, <1>3, <1>4 DEF CoreStep

LEMMA CreateCore ==
    ASSUME Typed, Core, NEW a \in Actors, CreateHoldStep(a)
    PROVE  CoreStep(a)
  <1> USE DEF HoldStages, ConfirmedStages, UnauditedStages, LoopStages, At
  <1>1. CASE AcquireHold(a) \/ ReleaseOnConflict(a) \/ UpdateHold(a)
    BY <1>1, GotoFresh DEF AcquireHold, ReleaseOnConflict, UpdateHold
  <1>2. CASE AcquireRefused(a) \/ ReleaseInCatch(a) \/ AuditHold(a)
    BY <1>2, FinishCore DEF AcquireRefused, ReleaseInCatch, AuditHold
  <1>3. CASE CheckConflicts(a)
    <2>1. bookings' = bookings
      BY <1>3 DEF CheckConflicts
    <2>2. CASE Goto(a, "create.release")
      BY <2>1, <2>2, GotoFresh
    <2>3. CASE Goto(a, "create.row") /\ findConflicting(req[a].slot, {}) = {}
      <3>1. /\ LocalStep(a) /\ req'[a].at = "create.row"
            /\ req'[a].slot = req[a].slot
        BY <2>3, TypedParts, GotoLocal
      <3>2. \A s : findConflicting(s, {})' = findConflicting(s, {})
        BY <2>1, SameTable
      <3>3. findConflicting(req[a].slot, {})' = {}
        BY <2>3, <3>1, <2>1, SameTable DEF findConflicting
      <3>4. FreshOK(req[a])'
        BY <3>1, <3>3 DEF FreshOK
      <3>5. ListOK(req[a])'
        BY <3>1 DEF ListOK
      <3> QED
        BY <2>1, <3>1, <3>4, <3>5, SameTable, ApartKept DEF CoreStep, Core
    <2> QED
      BY <1>3, <2>2, <2>3 DEF CheckConflicts
  <1>4. CASE CreateRow(a)
    <2>1. PICK b \in BookingIds :
              /\ b \notin Stored
              /\ create(b, req[a].slot, req[a].expires)
              /\ req' = [req EXCEPT ![a] = [@ EXCEPT !.at = "create.update", !.booking = b]]
      BY <1>4 DEF CreateRow, IsNextId
    <2>2. req[a] \in Request /\ req[a].slot \in Slots /\ req[a].expires \in Nat
      BY <1>4, TypedParts DEF Request, RequestsOK, RequestOK, CreateRow, CreateStages
    <2>3. findConflicting(req[a].slot, {}) = {}
      BY <1>4, Fresh DEF Core, FreshOK, CreateRow
    <2>4. /\ SlotsApart'
          /\ bookings'[b].slot = req[a].slot /\ bookings'[b].status = "HOLD"
      <3>1. create(b, req[a].slot, req[a].expires) /\ b \notin Stored /\ SlotsApart
        BY <2>1 DEF Core
      <3> QED
        BY <2>2, <2>3, <3>1, InsertApart
    <2> DEFINE r == [req[a] EXCEPT !.at = "create.update", !.booking = b]
    <2>5. r.at = "create.update" /\ r.booking = b /\ r.slot = req[a].slot
      BY <2>2 DEF Request
    <2>6. req' = [req EXCEPT ![a] = r]
      BY <2>1
    <2> HIDE DEF r
    <2>7. LocalStep(a) /\ req'[a] = r
      BY <2>6, TypedParts DEF LocalStep
    <2>8. FreshOK(req[a])'
      BY <2>4, <2>5, <2>7 DEF FreshOK
    <2>9. ListOK(req[a])'
      BY <2>5, <2>7 DEF ListOK
    <2> QED
      BY <2>4, <2>7, <2>8, <2>9 DEF CoreStep
  <1> QED
    BY <1>1, <1>2, <1>3, <1>4 DEF CreateHoldStep

\* The booking a request has read is still what it was.
LEMMA TargetBlocks ==
    ASSUME Typed, Core, NEW a \in Actors,
           req[a].at \in HoldStages \cup ConfirmedStages
                            \cup {"cancel.release", "cancel.update"}
    PROVE  /\ Target(a) \in Stored /\ Target(a) \in BookingIds /\ Blocking(Target(a))
           /\ req[a].at \in HoldStages => bookings[Target(a)].status = "HOLD"
           /\ req[a].at \in CancelStages => bookings[Target(a)].status = req[a].seen
  <1> USE DEF HoldStages, ConfirmedStages
  <1>1. Target(a) \in Stored /\ Target(a) \in BookingIds
    BY TargetTyped DEF BookingStages, CancelStages
  <1>2. /\ req[a].at \in HoldStages => bookings[Target(a)].status = "HOLD"
        /\ req[a].at \in ConfirmedStages => bookings[Target(a)].status = "CONFIRMED"
        /\ req[a].at \in {"cancel.release", "cancel.update"}
              => bookings[Target(a)].status = req[a].seen
    BY Fresh DEF Core, FreshOK, Target
  <1>3. req[a].at \in {"cancel.release", "cancel.update"}
            => req[a].seen \in {"HOLD", "CONFIRMED"}
    BY CancelTarget DEF CancelStages, isValidTransition, VALID_TRANSITIONS
  <1>4. bookings[Target(a)].status \in BLOCKING_STATUSES
    BY <1>2, <1>3 DEF BLOCKING_STATUSES
  <1> QED
    BY <1>1, <1>2, <1>4 DEF Blocking, HasStatus, CancelStages

\* One statement moves the booking, and the request knows.
LEMMA UpdateCore ==
    ASSUME Typed, Core, NEW a \in Actors, NEW status \in Status, NEW to,
           req[a].at \in HoldStages \cup {"cancel.update"},
           update(Target(a), status), Goto(a, to),
           \/ to \in ConfirmedStages /\ status = "CONFIRMED"
           \/ to = "confirm.expireAudit" /\ status = "EXPIRED"
           \/ to = "reconcile.audit" /\ status = "EXPIRED" /\ req[a].at = "reconcile.update"
           \/ to = "cancel.audit" /\ status = req[a].goal
    PROVE  CoreStep(a)
  <1>1. Target(a) \in Stored /\ Blocking(Target(a))
    BY TargetBlocks
  <1>2. /\ NoNewBlocker /\ bookings'[Target(a)].status = status
        /\ \A c \in BookingIds \ {Target(a)} : bookings'[c] = bookings[c]
    BY <1>1, UpdateMoves
  <1>3. /\ LocalStep(a)
        /\ req'[a].at = to /\ req'[a].slot = req[a].slot
        /\ req'[a].booking = Target(a) /\ req'[a].goal = req[a].goal
        /\ req'[a].seen = req[a].seen /\ req'[a].todo = req[a].todo
    BY TypedParts, GotoLocal DEF Target
  <1>4. SlotsApart'
    BY <1>2, ApartKept DEF Core
  <1>5. FreshOK(req[a])'
    BY <1>2, <1>3 DEF FreshOK, HoldStages, ConfirmedStages, UnauditedStages
  <1>6. req[a].todo \subseteq BookingIds
    BY TypedParts DEF Request
  <1>7. ListOK(req[a])'
    BY <1>2, <1>3, <1>6, Fresh DEF Core, ListOK, AllHave, ConfirmedStages, Target
  <1> QED
    BY <1>3, <1>4, <1>5, <1>7 DEF CoreStep

LEMMA ConfirmCore ==
    ASSUME Typed, Core, NEW a \in Actors, ConfirmStep(a)
    PROVE  CoreStep(a)
  <1> USE DEF HoldStages, ConfirmedStages, UnauditedStages, LoopStages, At
  <1>1. CASE ConfirmExpire(a)
    BY <1>1, UpdateCore DEF ConfirmExpire, Status
  <1>2. CASE ConfirmUpdate(a)
    BY <1>2, UpdateCore DEF ConfirmUpdate, WriteConfirmed, Status
  <1>3. CASE ConfirmExpireAudit(a) \/ ConfirmPaymentLink(a) \/ ConfirmAudit(a)
    BY <1>3, FinishCore DEF ConfirmExpireAudit, ConfirmPaymentLink, ConfirmAudit
  <1>4. CASE ConfirmCheck(a)
    <2>1. bookings' = bookings /\ (Finish(a) \/ Goto(a, "confirm.write"))
      BY <1>4 DEF ConfirmCheck
    <2> QED
      BY <1>4, <2>1, FinishCore, GotoFresh DEF ConfirmCheck
  <1>5. CASE ConfirmRelease(a)
    BY <1>5, GotoFresh DEF ConfirmRelease
  <1> QED
    BY <1>1, <1>2, <1>3, <1>4, <1>5 DEF ConfirmStep

LEMMA WebhookCore ==
    ASSUME Typed, Core, NEW a \in Actors, WebhookStep(a)
    PROVE  CoreStep(a)
  <1> USE DEF HoldStages, ConfirmedStages, UnauditedStages, LoopStages, At
  <1>1. CASE WebhookUpdate(a)
    BY <1>1, UpdateCore DEF WebhookUpdate, WriteConfirmed, Status
  <1>2. CASE WebhookRelease(a)
    BY <1>2, GotoFresh DEF WebhookRelease
  <1>3. CASE WebhookAudit(a)
    BY <1>3, FinishCore DEF WebhookAudit
  <1> QED
    BY <1>1, <1>2, <1>3 DEF WebhookStep

LEMMA CancelCore ==
    ASSUME Typed, Core, NEW a \in Actors, CancelStep(a)
    PROVE  CoreStep(a)
  <1> USE DEF HoldStages, ConfirmedStages, UnauditedStages, LoopStages, At
  <1>1. CASE CancelRelease(a)
    BY <1>1, GotoFresh DEF CancelRelease
  <1>2. CASE CancelUpdate(a)
    <2>1. req[a].goal \in Status
      BY <1>2, CancelTarget DEF CancelUpdate, CancelStages
    <2> QED
      BY <1>2, <2>1, UpdateCore DEF CancelUpdate
  <1>3. CASE CancelAudit(a)
    BY <1>3, FinishCore DEF CancelAudit
  <1> QED
    BY <1>1, <1>2, <1>3 DEF CancelStep

LEMMA JobCore ==
    ASSUME Typed, Core, NEW a \in Actors, JobStep(a)
    PROVE  CoreStep(a)
  <1> USE DEF HoldStages, ConfirmedStages, UnauditedStages, LoopStages, At
  <1>1. CASE ExpireRelease(a)
    BY <1>1, GotoFresh DEF ExpireRelease
  <1>2. CASE ExpireAudit(a)
    BY <1>2, NextItemCore DEF ExpireAudit
  <1>3. CASE ReconcileUpdate(a)
    BY <1>3, UpdateCore DEF ReconcileUpdate, Status
  <1>4. CASE ReconcileAudit(a)
    BY <1>4, NextItemCore DEF ReconcileAudit
  <1>5. CASE CompleteBulk(a)
    <2>1. /\ NoNewBlocker
          /\ \A c \in Finished : bookings'[c].status = "COMPLETED"
          /\ \A c \in BookingIds \ Finished : bookings'[c] = bookings[c]
      BY <1>5, BulkMoves DEF CompleteBulk
    <2>2. SlotsApart'
      BY <2>1, ApartKept DEF Core
    <2>3. CASE Finish(a)
      BY <2>2, <2>3, TypedParts, FinishLocal, IdleStays DEF CoreStep
    <2>4. CASE Goto(a, "complete.item")
      <3>1. LocalStep(a) /\ req'[a].at = "complete.item" /\ req'[a].todo = req[a].todo
        BY <2>4, TypedParts, GotoLocal
      <3>2. FreshOK(req[a])'
        BY <3>1 DEF FreshOK
      <3>3. AllHave(req[a].todo, {"CONFIRMED", "COMPLETED"}) /\ req[a].todo \subseteq BookingIds
        BY <1>5, TypedParts, Fresh DEF Core, ListOK, CompleteBulk, Request
      <3>4. AllHave(req[a].todo, {"CONFIRMED", "COMPLETED"})'
        BY <2>1, <3>1, <3>3 DEF AllHave
      <3>5. ListOK(req[a])'
        BY <3>1, <3>4 DEF ListOK
      <3> QED
        BY <2>2, <3>1, <3>2, <3>5 DEF CoreStep
    <2> QED
      BY <1>5, <2>3, <2>4 DEF CompleteBulk
  <1>6. ASSUME NEW b \in BookingIds, ExpireUpdate(a, b) PROVE CoreStep(a)
    <2>1. b \in req[a].todo /\ AllHave(req[a].todo, {"HOLD"}) /\ req[a].todo \subseteq Stored
      BY <1>6, TypedParts, Fresh DEF Core, ListOK, ExpireUpdate, RequestsOK, RequestOK
    <2>2. b \in Stored /\ Blocking(b) /\ bookings[b].status = "HOLD"
      BY <2>1 DEF AllHave, Blocking, HasStatus, BLOCKING_STATUSES
    <2>3. /\ NoNewBlocker /\ bookings'[b].status = "EXPIRED"
          /\ \A c \in BookingIds \ {b} : bookings'[c] = bookings[c]
      BY <1>6, <2>2, UpdateMoves DEF ExpireUpdate, Status
    <2>4. /\ LocalStep(a) /\ req'[a].at = "expire.release"
          /\ req'[a].booking = b /\ req'[a].todo = req[a].todo
      BY <1>6, TypedParts, TakeItemLocal DEF ExpireUpdate
    <2>5. SlotsApart'
      BY <2>3, ApartKept DEF Core
    <2>6. FreshOK(req[a])'
      BY <2>3, <2>4 DEF FreshOK
    <2>7. AllHave(req[a].todo \ {req[a].booking}, {"HOLD"})'
      BY <2>1, <2>3, <2>4 DEF AllHave, Stored
    <2>8. ListOK(req[a])'
      BY <2>4, <2>7 DEF ListOK
    <2> QED
      BY <2>4, <2>5, <2>6, <2>8 DEF CoreStep
  <1>7. ASSUME NEW b \in BookingIds, ReconcileCheck(a, b) PROVE CoreStep(a)
    <2>1. /\ bookings' = bookings /\ req[a].at = "reconcile.item" /\ b \in req[a].todo
          /\ NextItem(a, b, "reconcile.item") \/ TakeItem(a, b, "reconcile.update")
      BY <1>7 DEF ReconcileCheck
    <2>2. CASE NextItem(a, b, "reconcile.item")
      BY <2>1, <2>2, NextItemCore
    <2>3. CASE TakeItem(a, b, "reconcile.update")
      <3>1. /\ LocalStep(a) /\ req'[a].at = "reconcile.update"
            /\ req'[a].booking = b /\ req'[a].todo = req[a].todo
        BY <2>3, TypedParts, TakeItemLocal
      <3>2. AllHave(req[a].todo, {"HOLD"})
        BY <2>1, Fresh DEF Core, ListOK
      <3>3. FreshOK(req[a])'
        BY <2>1, <3>1, <3>2 DEF FreshOK, AllHave
      <3>4. ListOK(req[a])'
        BY <2>1, <3>1, <3>2 DEF ListOK, AllHave
      <3> QED
        BY <2>1, <3>1, <3>3, <3>4, SameTable, ApartKept DEF CoreStep, Core
    <2> QED
      BY <2>1, <2>2, <2>3
  <1>8. ASSUME NEW b \in BookingIds, CompleteAudit(a, b) PROVE CoreStep(a)
    BY <1>8, NextItemCore DEF CompleteAudit
  <1> QED
    BY <1>1, <1>2, <1>3, <1>4, <1>5, <1>6, <1>7, <1>8 DEF JobStep

LEMMA FaultsCore ==
    ASSUME Typed, Core, NEW a \in Actors, Faults(a)
    PROVE  CoreStep(a)
  <1> USE DEF HoldStages, ConfirmedStages, UnauditedStages, LoopStages
  <1>1. CASE CreateFault(a)
    BY <1>1, GotoFresh DEF CreateFault
  <1>2. CASE CreateAbort(a) \/ RequestFault(a)
    BY <1>2, FinishCore DEF CreateAbort, RequestFault
  <1>3. ASSUME NEW b \in BookingIds, ItemFault(a, b) PROVE CoreStep(a)
    <2>1. bookings' = bookings
      BY <1>3 DEF ItemFault
    <2>2. CASE req[a].at = "complete.item"
      BY <1>3, <2>1, <2>2, NextItemCore DEF ItemFault
    <2>3. CASE req[a].at \in {"expire.item", "expire.release", "expire.audit"}
      BY <1>3, <2>1, <2>3, NextItemCore DEF ItemFault
    <2>4. CASE req[a].at \in {"reconcile.item", "reconcile.update", "reconcile.audit"}
      BY <1>3, <2>1, <2>4, NextItemCore DEF ItemFault
    <2> QED
      BY <1>3, <2>2, <2>3, <2>4 DEF ItemFault
  <1> QED
    BY <1>1, <1>2, <1>3 DEF Faults

LEMMA BeginsCore ==
    ASSUME MaxInFlight = 1, Typed, Core, NEW a \in Actors, Begins(a)
    PROVE  CoreStep(a) /\ \A x \in Actors : At(x, "idle")
  <1> USE TypedParts
      DEF HoldStages, ConfirmedStages, UnauditedStages, LoopStages
  <1>1. bookings' = bookings /\ SlotsApart'
    <2>1. bookings' = bookings
      BY DEF Begins, OwnerCancels, BeginCreateHold, BeginConfirm, BeginWebhook, BeginCancel,
             BeginExpireHolds, BeginReconcileHolds, BeginComplete
    <2> QED
      BY <2>1, SameTable, ApartKept DEF Core
  <1>2. ASSUME NEW useCase, NEW r, Begin(a, useCase, r)
        PROVE  LocalStep(a) /\ req'[a] = r /\ \A x \in Actors : At(x, "idle")
    BY <1>2, BeginAlone DEF Core
  <1>3. ASSUME NEW s \in Slots, BeginCreateHold(a, s)
        PROVE  CoreStep(a) /\ \A x \in Actors : At(x, "idle")
    <2> DEFINE r == [Idle EXCEPT !.at = "create.acquire", !.slot = s,
                               !.expires = now + HoldTTL]
    <2>1. Begin(a, "createHold", r)
      BY <1>3 DEF BeginCreateHold
    <2>2. r.at = "create.acquire"
      BY DEF Idle
    <2> HIDE DEF r
    <2>3. LocalStep(a) /\ req'[a].at = "create.acquire" /\ \A x \in Actors : At(x, "idle")
      BY <1>2, <2>1, <2>2
    <2>4. FreshOK(req[a])' /\ ListOK(req[a])'
      BY <2>3 DEF FreshOK, ListOK
    <2> QED
      BY <1>1, <2>3, <2>4 DEF CoreStep
  <1>4. ASSUME NEW useCase, NEW b, NEW to, Begin(a, useCase, Reads(b, to)),
               to \in {"confirm.expire", "confirm.check", "webhook.update"},
               bookings[b].status = "HOLD"
        PROVE  CoreStep(a) /\ \A x \in Actors : At(x, "idle")
    <2>1. Reads(b, to).at = to /\ Reads(b, to).booking = b
      BY DEF Reads, Idle
    <2>2. /\ LocalStep(a) /\ req'[a].at = to /\ req'[a].booking = b
          /\ \A x \in Actors : At(x, "idle")
      BY <1>2, <1>4, <2>1
    <2>3. FreshOK(req[a])' /\ ListOK(req[a])'
      BY <1>1, <1>4, <2>2 DEF FreshOK, ListOK
    <2> QED
      BY <1>1, <2>2, <2>3 DEF CoreStep
  <1>5. ASSUME NEW b \in BookingIds, BeginConfirm(a, b) \/ BeginWebhook(a, b)
        PROVE  CoreStep(a) /\ \A x \in Actors : At(x, "idle")
    <2>1. bookings[b].status = "HOLD"
      BY <1>5 DEF BeginConfirm, BeginWebhook, HasStatus
    <2>2. PICK to \in {"confirm.expire", "confirm.check", "webhook.update"} :
              Begin(a, "confirm", Reads(b, to)) \/ Begin(a, "webhook", Reads(b, to))
      BY <1>5 DEF BeginConfirm, BeginWebhook
    <2> QED
      BY <1>4, <2>1, <2>2
  <1>6. ASSUME NEW b \in BookingIds, NEW goal \in Goals, BeginCancel(a, b, goal)
        PROVE  CoreStep(a) /\ \A x \in Actors : At(x, "idle")
    <2> DEFINE stage == IF bookings[b].status = "HOLD" THEN "cancel.release"
                                                       ELSE "cancel.update"
               r == [Idle EXCEPT !.at = stage, !.booking = b,
                                 !.seen = bookings[b].status, !.goal = goal]
    <2>1. Begin(a, "cancel", r)
      BY <1>6 DEF BeginCancel
    <2>2. stage \in {"cancel.release", "cancel.update"}
      OBVIOUS
    <2> HIDE DEF stage
    <2>3. r.at = stage /\ r.booking = b /\ r.seen = bookings[b].status
      BY DEF Idle
    <2> HIDE DEF r
    <2>4. /\ LocalStep(a) /\ req'[a].at = stage /\ req'[a].booking = b
          /\ req'[a].seen = bookings[b].status
          /\ \A x \in Actors : At(x, "idle")
      BY <1>2, <2>1, <2>3
    <2>5. FreshOK(req[a])' /\ ListOK(req[a])'
      BY <1>1, <2>2, <2>4 DEF FreshOK, ListOK
    <2> QED
      BY <1>1, <2>4, <2>5 DEF CoreStep
  <1>7. ASSUME NEW useCase, NEW S, NEW to, Begin(a, useCase, List(to, S)),
               \/ to \in {"expire.item", "reconcile.item"} /\ AllHave(S, {"HOLD"})
               \/ to = "complete.bulk" /\ AllHave(S, {"CONFIRMED", "COMPLETED"})
        PROVE  CoreStep(a) /\ \A x \in Actors : At(x, "idle")
    <2>1. List(to, S).at = to /\ List(to, S).todo = S
      BY DEF List, Idle
    <2>2. /\ LocalStep(a) /\ req'[a].at = to /\ req'[a].todo = S
          /\ \A x \in Actors : At(x, "idle")
      BY <1>2, <1>7, <2>1
    <2>3. FreshOK(req[a])' /\ ListOK(req[a])'
      BY <1>1, <1>7, <2>2 DEF FreshOK, ListOK, AllHave
    <2> QED
      BY <1>1, <2>2, <2>3 DEF CoreStep
  <1>8. CASE BeginExpireHolds(a) \/ BeginReconcileHolds(a)
    <2>1. AllHave(findStaleHolds, {"HOLD"})
      BY DEF AllHave, findStaleHolds
    <2> QED
      BY <1>7, <1>8, <2>1 DEF BeginExpireHolds, BeginReconcileHolds
  <1>9. CASE BeginComplete(a)
    <2>1. AllHave(StartedConfirmedPage(PageSize), {"CONFIRMED", "COMPLETED"})
      BY DEF AllHave, StartedConfirmedPage
    <2> QED
      BY <1>7, <1>9, <2>1 DEF BeginComplete
  <1> QED
    BY <1>3, <1>5, <1>6, <1>8, <1>9 DEF Begins, OwnerCancels, Goals, CancelledStatus

\* Whoever goes on or fails is at work.
LEMMA AtWork ==
    ASSUME NEW a \in Actors, Step(a) \/ Faults(a)
    PROVE  ~At(a, "idle")
  <1>1. CASE CreateHoldStep(a)
    BY <1>1 DEF CreateHoldStep, AcquireHold, AcquireRefused, CheckConflicts,
       ReleaseOnConflict, ReleaseInCatch, CreateRow, UpdateHold, AuditHold, At
  <1>2. CASE ConfirmStep(a) \/ WebhookStep(a)
    BY <1>2 DEF ConfirmStep, ConfirmExpire, ConfirmExpireAudit, ConfirmCheck,
       ConfirmPaymentLink, ConfirmUpdate, ConfirmRelease, ConfirmAudit,
       WebhookStep, WebhookUpdate, WebhookRelease, WebhookAudit, At
  <1>3. CASE CancelStep(a)
    BY <1>3 DEF CancelStep, CancelRelease, CancelUpdate, CancelAudit, At
  <1>4. CASE JobStep(a)
    BY <1>4 DEF JobStep, ExpireUpdate, ExpireRelease, ExpireAudit, ReconcileCheck,
       ReconcileUpdate, ReconcileAudit, CompleteBulk, CompleteAudit, At
  <1>5. CASE Faults(a)
    BY <1>5 DEF Faults, CreateFault, CreateAbort, RequestFault, ItemFault, At,
       CreateStages, BookingStages, CancelStages
  <1> QED
    BY <1>1, <1>2, <1>3, <1>4, <1>5 DEF Step

LEMMA ActorCore ==
    ASSUME MaxInFlight = 1, Typed, Core, NEW a \in Actors,
           Begins(a) \/ Step(a) \/ Faults(a)
    PROVE  Solo(a) /\ CoreStep(a) /\ Core'
  <1>1. CoreStep(a)
    BY BeginsCore, CreateCore, ConfirmCore, WebhookCore, CancelCore, JobCore,
       FaultsCore DEF Step
  <1>2. Solo(a)
    <2>1. CASE Begins(a)
      BY <2>1, BeginsCore DEF Solo
    <2>2. CASE Step(a) \/ Faults(a)
      BY <2>2, AtWork DEF Solo, Core, OneInFlight
    <2> QED
      BY <2>1, <2>2
  <1> QED
    BY <1>1, <1>2, SoloKept DEF CoreStep, Core

LEMMA RestCore ==
    ASSUME Core, bookings' = bookings,
           req' = req \/ req' = [a \in Actors |-> Idle]
    PROVE  Core'
  <1>1. SlotsApart'
    BY SameTable, ApartKept DEF Core
  <1>2. CASE req' = req
    <2>1. OneInFlight'
      BY <1>2 DEF Core, OneInFlight, At
    <2>2. \A s : findConflicting(s, {})' = findConflicting(s, {})
      BY SameTable
    <2>3. NothingStale'
      BY <1>2, <2>2 DEF Core, NothingStale, FreshOK, ListOK, AllHave, findConflicting,
         Stored, Blocking, HasStatus
    <2> QED
      BY <1>1, <2>1, <2>3 DEF Core
  <1>3. CASE req' = [a \in Actors |-> Idle]
    <2>1. \A a \in Actors : req'[a].at = "idle"
      BY <1>3 DEF Idle
    <2> QED
      BY <1>1, <2>1, IdleStays DEF Core, OneInFlight, At, NothingStale
  <1> QED
    BY <1>2, <1>3

LEMMA CoreInit == Init => Core
  <1> SUFFICES ASSUME Init PROVE Core
    OBVIOUS
  <1> USE DEF Init, StateInit, BookingRepositoryInit
  <1>1. \A a \in Actors : req[a].at = "idle"
    BY DEF Idle
  <1>2. Stored = {}
    BY DEF Stored
  <1>3. OneInFlight /\ SlotsApart
    BY <1>1, <1>2 DEF OneInFlight, SlotsApart, At, Blocking, HasStatus
  <1>4. NothingStale
    BY <1>1 DEF NothingStale, FreshOK, ListOK, HoldStages, ConfirmedStages, UnauditedStages
  <1> QED
    BY <1>3, <1>4 DEF Core

LEMMA CoreNext ==
    ASSUME MaxInFlight = 1, Typed, Core, [Next]_vars
    PROVE  Core'
  <1>1. CASE Tick \/ Crash \/ (\E b \in BookingIds : Pay(b)) \/ UNCHANGED vars
    BY <1>1, RestCore DEF Tick, Crash, Pay, vars
  <1>2. ASSUME NEW a \in Actors, Begins(a) \/ Step(a) \/ Faults(a)
        PROVE  Core'
    BY <1>2, ActorCore
  <1> QED
    BY <1>1, <1>2 DEF Next

(***************************************************************************)
(* One at a time, no two blocking bookings of a court ever overlap, on any *)
(* ranges the clients send, whatever fails: the lock is not even needed,   *)
(* the conflict query does it alone.  What the runs with more in flight    *)
(* show to go wrong is wrong because of the interleaving.                  *)
(***************************************************************************)
THEOREM SerialNoDoubleBooking ==
    ASSUME MaxInFlight = 1
    PROVE  Spec => []NoDoubleBooking
  <1>1. Typed /\ Core /\ [Next]_vars => Core'
    BY CoreNext
  <1>2. Core => NoDoubleBooking
    BY DEF Core, SlotsApart, NoDoubleBooking, Colliding
  <1> QED
    BY <1>1, <1>2, CoreInit, InitTyped, NextTyped, PTL DEF Spec

-----------------------------------------------------------------------------
(***************************************************************************)
(* The refinement: what a step may do to the rows.                         *)
(***************************************************************************)
MovesOne ==
    \E b \in Stored, status \in Status :
        /\ update(b, status)
        /\ Blocking(b) /\ isValidTransition(bookings[b].status, status)

Inserts ==
    \E b \in BookingIds, s \in Slots, t \in Nat :
        /\ b \notin Stored
        /\ create(b, s, t)
        /\ findConflicting(s, {}) = {}

LEMMA HoldMoves ==
    ASSUME Typed, Core, NEW a \in Actors, req[a].at \in HoldStages,
           NEW status \in {"CONFIRMED", "EXPIRED"}, update(Target(a), status)
    PROVE  MovesOne
  BY TargetBlocks DEF MovesOne, isValidTransition, VALID_TRANSITIONS, Status

LEMMA CreateRowInserts ==
    ASSUME Typed, Core, NEW a \in Actors, CreateRow(a)
    PROVE  Inserts
  <1>1. PICK b \in BookingIds :
            b \notin Stored /\ create(b, req[a].slot, req[a].expires)
    BY DEF CreateRow, IsNextId
  <1>2. req[a].slot \in Slots /\ req[a].expires \in Nat
    BY TypedParts DEF Request, RequestsOK, RequestOK, CreateRow, CreateStages, At
  <1>3. findConflicting(req[a].slot, {}) = {}
    BY Fresh DEF Core, FreshOK, CreateRow, At
  <1> QED
    BY <1>1, <1>2, <1>3 DEF Inserts

LEMMA ActorMoves ==
    ASSUME Typed, Core, NEW a \in Actors, Begins(a) \/ Step(a) \/ Faults(a)
    PROVE  bookings' = bookings \/ MovesOne \/ completeExpiredBookings \/ CreateRow(a)
  <1> USE DEF At, HoldStages
  <1>1. CASE Begins(a) \/ Faults(a)
    BY <1>1 DEF Begins, OwnerCancels, BeginCreateHold, BeginConfirm, BeginWebhook, BeginCancel,
       BeginExpireHolds, BeginReconcileHolds, BeginComplete, Faults, CreateFault,
       CreateAbort, RequestFault, ItemFault
  <1>2. CASE CreateHoldStep(a)
    BY <1>2 DEF CreateHoldStep, AcquireHold, AcquireRefused, CheckConflicts,
       ReleaseOnConflict, ReleaseInCatch, UpdateHold, AuditHold
  <1>3. CASE ConfirmStep(a) \/ WebhookStep(a)
    <2>1. CASE ConfirmExpire(a) \/ ConfirmUpdate(a) \/ WebhookUpdate(a)
      BY <2>1, HoldMoves DEF ConfirmExpire, ConfirmUpdate, WebhookUpdate, WriteConfirmed
    <2>2. CASE ~(ConfirmExpire(a) \/ ConfirmUpdate(a) \/ WebhookUpdate(a))
      BY <1>3, <2>2 DEF ConfirmStep, ConfirmExpireAudit, ConfirmCheck,
         ConfirmPaymentLink, ConfirmRelease, ConfirmAudit, WebhookStep,
         WebhookRelease, WebhookAudit
    <2> QED
      BY <2>1, <2>2
  <1>4. CASE CancelStep(a)
    <2>1. CASE CancelUpdate(a)
      <3>1. /\ req[a].at = "cancel.update" /\ update(Target(a), req[a].goal)
        BY <2>1 DEF CancelUpdate
      <3>2. /\ Target(a) \in Stored /\ Blocking(Target(a))
            /\ bookings[Target(a)].status = req[a].seen
        BY <3>1, TargetBlocks DEF CancelStages
      <3>3. isValidTransition(req[a].seen, req[a].goal) /\ req[a].goal \in Status
        BY <3>1, CancelTarget DEF CancelStages
      <3> QED
        BY <3>1, <3>2, <3>3 DEF MovesOne
    <2>2. CASE CancelRelease(a) \/ CancelAudit(a)
      BY <2>2 DEF CancelRelease, CancelAudit
    <2> QED
      BY <1>4, <2>1, <2>2 DEF CancelStep
  <1>5. CASE JobStep(a)
    <2>1. CASE ReconcileUpdate(a)
      BY <2>1, HoldMoves DEF ReconcileUpdate
    <2>2. ASSUME NEW b \in BookingIds, ExpireUpdate(a, b) PROVE MovesOne
      <3>1. /\ update(b, "EXPIRED") /\ b \in req[a].todo
            /\ AllHave(req[a].todo, {"HOLD"}) /\ req[a].todo \subseteq Stored
        BY <2>2, TypedParts, Fresh DEF Core, ListOK, ExpireUpdate, RequestsOK, RequestOK
      <3>2. b \in Stored /\ bookings[b].status = "HOLD" /\ Blocking(b)
        BY <3>1 DEF AllHave, Blocking, HasStatus, BLOCKING_STATUSES
      <3> QED
        BY <3>1, <3>2 DEF MovesOne, isValidTransition, VALID_TRANSITIONS, Status
    <2>3. CASE \/ ExpireRelease(a) \/ ExpireAudit(a) \/ ReconcileAudit(a) \/ CompleteBulk(a)
               \/ \E b \in BookingIds : ReconcileCheck(a, b) \/ CompleteAudit(a, b)
      BY <2>3 DEF ExpireRelease, ExpireAudit, ReconcileAudit, CompleteBulk,
         ReconcileCheck, CompleteAudit
    <2> QED
      BY <1>5, <2>1, <2>2, <2>3 DEF JobStep
  <1> QED
    BY <1>1, <1>2, <1>3, <1>4, <1>5 DEF Step

LEMMA RowsMove ==
    ASSUME Typed, Core, [Next]_vars
    PROVE  bookings' = bookings \/ MovesOne \/ completeExpiredBookings \/ Inserts
  <1>1. CASE Tick \/ Crash \/ (\E b \in BookingIds : Pay(b)) \/ UNCHANGED vars
    BY <1>1 DEF Tick, Crash, Pay, vars
  <1>2. ASSUME NEW a \in Actors, Begins(a) \/ Step(a) \/ Faults(a)
        PROVE  bookings' = bookings \/ MovesOne \/ completeExpiredBookings \/ Inserts
    BY <1>2, ActorMoves, CreateRowInserts
  <1> QED
    BY <1>1, <1>2 DEF Next

\* Only an insert makes a booking block.
LEMMA NobodyBlocks ==
    ASSUME Typed, Core, bookings' = bookings \/ MovesOne \/ completeExpiredBookings
    PROVE  NoNewBlocker /\ Stored' = Stored
  BY SameTable, UpdateMoves, BulkMoves DEF MovesOne

LEMMA RowOfTable ==
    ASSUME Typed, NEW b \in BookingIds
    PROVE  /\ b \in Stored =>
                /\ ReservationTable[b] # NoBooking
                /\ ReservationTable[b].slot = bookings[b].slot
                /\ ReservationTable[b].status = bookings[b].status
                /\ ReservationTable[b] = [slot |-> bookings[b].slot,
                                          status |-> bookings[b].status]
           /\ b \notin Stored => ReservationTable[b] = NoBooking
  <1>1. CASE b \in Stored
    <2>1. bookings[b].slot \in Slots /\ bookings[b].status \in Status
      BY <1>1, TypedParts DEF Stored, Booking
    <2> DEFINE row == [slot |-> bookings[b].slot, status |-> bookings[b].status]
    <2>2. row \in [slot : Slots, status : Status]
      BY <2>1
    <2>3. row # NoBooking
      BY <2>2, NoReservationAssumption
    <2> QED
      BY <1>1, <2>3 DEF ReservationTable
  <1>2. CASE b \notin Stored
    BY <1>2 DEF ReservationTable
  <1> QED
    BY <1>1, <1>2

LEMMA ReservationInit == Init => Reservation!Init
  BY DEF Init, StateInit, BookingRepositoryInit, Reservation!Init, ReservationTable, Stored

\* The table after a step that moves the bookings of B and no others.
LEMMA TableMoves ==
    ASSUME Typed, NEW B \in SUBSET Stored, NEW status \in Status, Stored' = Stored,
           \A b \in B : /\ isValidTransition(bookings[b].status, status)
                        /\ bookings'[b].slot = bookings[b].slot
                        /\ bookings'[b].status = status,
           \A c \in BookingIds \ B : bookings'[c] = bookings[c]
    PROVE  Reservation!Next
  <1>1. B \subseteq BookingIds
    BY DEF Stored
  <1>2. \A b \in B : /\ ReservationTable[b] # NoBooking
                     /\ Reservation!isValidTransition(ReservationTable[b].status, status)
    BY <1>1, RowOfTable
       DEF isValidTransition, VALID_TRANSITIONS,
           Reservation!isValidTransition, Reservation!VALID_TRANSITIONS
  <1>3. ASSUME NEW c \in BookingIds
        PROVE  ReservationTable'[c] = IF c \in B
                                      THEN [ReservationTable[c] EXCEPT !.status = status]
                                      ELSE ReservationTable[c]
    <2>1. CASE c \in B
      <3>1. ReservationTable'[c] = [slot |-> bookings[c].slot, status |-> status]
        BY <2>1 DEF ReservationTable
      <3>2. ReservationTable[c] = [slot |-> bookings[c].slot, status |-> bookings[c].status]
        BY <2>1, RowOfTable
      <3> QED
        BY <2>1, <3>1, <3>2
    <2>2. CASE c \notin B
      BY <2>2 DEF ReservationTable
    <2> QED
      BY <2>1, <2>2
  <1>4. ReservationTable' = [c \in BookingIds |-> ReservationTable'[c]]
    BY DEF ReservationTable
  <1>5. Reservation!Move(B, status)
    BY <1>2, <1>3, <1>4 DEF Reservation!Move
  <1>6. status \in Reservation!Status
    BY DEF Status, Reservation!Status
  <1> QED
    BY <1>1, <1>5, <1>6 DEF Reservation!Next

LEMMA TableGrows ==
    ASSUME Typed, Core, Inserts
    PROVE  Reservation!Next
  <1>1. PICK b \in BookingIds, s \in Slots, t \in Nat :
            b \notin Stored /\ create(b, s, t) /\ findConflicting(s, {}) = {}
    BY DEF Inserts
  <1>2. /\ Stored' = Stored \cup {b}
        /\ bookings'[b].slot = s /\ bookings'[b].status = "HOLD"
        /\ \A c \in BookingIds \ {b} : bookings'[c] = bookings[c]
    <2>1. create(b, s, t) /\ b \notin Stored /\ SlotsApart
      BY <1>1 DEF Core
    <2> QED
      BY <1>1, <2>1, InsertApart
  <1>3. ReservationTable[b] = NoBooking
    BY <1>1, RowOfTable
  <1>4. ASSUME Reservation!Taken(s) PROVE FALSE
    <2>1. PICK c \in BookingIds :
              /\ ReservationTable[c] # NoBooking
              /\ ReservationTable[c].status \in Reservation!BLOCKING_STATUSES
              /\ ReservationTable[c].slot.court = s.court
              /\ Reservation!Overlaps(ReservationTable[c].slot, s)
      BY <1>4 DEF Reservation!Taken
    <2>2. /\ c \in Stored /\ ReservationTable[c].slot = bookings[c].slot
          /\ ReservationTable[c].status = bookings[c].status
      BY <2>1, RowOfTable
    <2>3. Blocking(c) /\ bookings[c].slot \in Slots
      BY <2>1, <2>2, TypedParts DEF Blocking, HasStatus, BLOCKING_STATUSES,
         Reservation!BLOCKING_STATUSES, Stored, Booking
    <2>4. Overlaps(bookings[c].slot, s) /\ bookings[c].slot.court = s.court
      BY <2>1, <2>2 DEF Overlaps, Reservation!Overlaps
    <2>5. MatchesConflictQuery(s, bookings[c].slot)
      BY <1>1, <2>3, <2>4, SlotsAssumption, ConflictQueryFindsOverlap
    <2> QED
      BY <1>1, <2>2, <2>3, <2>4, <2>5 DEF findConflicting, ConflictingSlots
  <1>5. ASSUME NEW c \in BookingIds
        PROVE  ReservationTable'[c] = IF c = b THEN [slot |-> s, status |-> "HOLD"]
                                      ELSE ReservationTable[c]
    BY <1>2 DEF ReservationTable
  <1>6. /\ ReservationTable' = [c \in BookingIds |-> ReservationTable'[c]]
        /\ ReservationTable = [c \in BookingIds |-> ReservationTable[c]]
    BY DEF ReservationTable
  <1>7. ReservationTable' =
            [ReservationTable EXCEPT ![b] = [slot |-> s, status |-> "HOLD"]]
    BY <1>5, <1>6
  <1>8. Reservation!Reserve(b, s)
    BY <1>3, <1>4, <1>7 DEF Reservation!Reserve
  <1> QED
    BY <1>8 DEF Reservation!Next

LEMMA ReservationStep ==
    ASSUME Typed, Core, [Next]_vars
    PROVE  [Reservation!Next]_ReservationTable
  <1>1. CASE bookings' = bookings
    <2>1. Stored' = Stored
      BY <1>1, SameTable
    <2> QED
      BY <1>1, <2>1 DEF ReservationTable
  <1>2. CASE MovesOne
    <2>1. PICK b \in Stored, status \in Status :
              /\ update(b, status)
              /\ Blocking(b) /\ isValidTransition(bookings[b].status, status)
      BY <1>2 DEF MovesOne
    <2>2. /\ Stored' = Stored /\ bookings'[b].slot = bookings[b].slot
          /\ bookings'[b].status = status
          /\ \A c \in BookingIds \ {b} : bookings'[c] = bookings[c]
      BY <2>1, UpdateMoves
    <2>3. \A c \in {b} : /\ isValidTransition(bookings[c].status, status)
                         /\ bookings'[c].slot = bookings[c].slot
                         /\ bookings'[c].status = status
      BY <2>1, <2>2
    <2>4. {b} \in SUBSET Stored
      BY <2>1
    <2> QED
      BY <2>1, <2>2, <2>3, <2>4, TableMoves
  <1>3. CASE completeExpiredBookings
    <2>1. Stored' = Stored /\ Finished \in SUBSET Stored
      BY <1>3, BulkMoves DEF Finished
    <2>2. \A c \in Finished : /\ isValidTransition(bookings[c].status, "COMPLETED")
                              /\ bookings'[c].slot = bookings[c].slot
                              /\ bookings'[c].status = "COMPLETED"
      BY <1>3, <2>1, BulkMoves DEF isValidTransition, VALID_TRANSITIONS
    <2>3. \A c \in BookingIds \ Finished : bookings'[c] = bookings[c]
      BY <1>3, BulkMoves
    <2>4. "COMPLETED" \in Status
      BY DEF Status
    <2> QED
      BY <2>1, <2>2, <2>3, <2>4, TableMoves
  <1> QED
    BY <1>1, <1>2, <1>3, RowsMove, TableGrows

(***************************************************************************)
(* One at a time, the subsystem is the reservation table it is meant to    *)
(* be: every statement of every use case and job reserves a free slot,     *)
(* moves bookings along the declared life cycle, or is invisible.          *)
(***************************************************************************)
THEOREM SerialImplementsReservation ==
    ASSUME MaxInFlight = 1
    PROVE  Spec => ImplementsReservation
  <1>1. Typed /\ Core /\ [Next]_vars => Core'
    BY CoreNext
  <1>2. Typed /\ Core /\ [Next]_vars => [Reservation!Next]_ReservationTable
    BY ReservationStep
  <1> QED
    BY <1>1, <1>2, CoreInit, InitTyped, NextTyped, ReservationInit, PTL
       DEF Spec, ImplementsReservation, Reservation!Spec

\* Only blocking bookings are ever written to.
LEMMA FinalStays ==
    ASSUME Typed, Core, [Next]_vars, NEW c \in Stored, ~Blocking(c)
    PROVE  c \in BookingIds /\ c \in Stored' /\ bookings'[c] = bookings[c]
  <1>1. c \in BookingIds /\ bookings[c].status \notin {"HOLD", "CONFIRMED"}
    BY DEF Blocking, HasStatus, BLOCKING_STATUSES, Stored
  <1>2. CASE bookings' = bookings
    BY <1>1, <1>2, SameTable
  <1>3. CASE MovesOne
    <2>1. PICK b \in Stored, status \in Status : update(b, status) /\ Blocking(b)
      BY <1>3 DEF MovesOne
    <2>2. c # b
      BY <2>1
    <2> QED
      BY <1>1, <2>1, <2>2, UpdateMoves
  <1>4. CASE completeExpiredBookings
    BY <1>1, <1>4, BulkMoves
  <1>5. CASE Inserts
    <2>1. PICK b \in BookingIds, s \in Slots, t \in Nat :
              /\ b \notin Stored /\ create(b, s, t)
              /\ findConflicting(s, {}) = {} /\ SlotsApart
      BY <1>5 DEF Inserts, Core
    <2>2. Stored' = Stored \cup {b} /\ \A d \in BookingIds \ {b} : bookings'[d] = bookings[d]
      BY <2>1, InsertApart
    <2> QED
      BY <1>1, <2>1, <2>2
  <1> QED
    BY <1>2, <1>3, <1>4, <1>5, RowsMove

(***************************************************************************)
(* One at a time, a booking that is cancelled, expired or completed stays  *)
(* so: "no further transitions allowed" needs no more than that nobody     *)
(* writes to a status he read before someone else did.                     *)
(***************************************************************************)
THEOREM SerialTerminalStatesAreFinal ==
    ASSUME MaxInFlight = 1
    PROVE  Spec => TerminalStatesAreFinal
  <1>1. Typed /\ Core /\ [Next]_vars => Core'
    BY CoreNext
  <1>2. Typed /\ Core /\ [Next]_vars =>
            [\A b \in Stored : bookings[b].status \in TerminalStatus
                                   => bookings'[b].status = bookings[b].status]_vars
    <2>1. ASSUME NEW c \in Stored, bookings[c].status \in TerminalStatus
          PROVE  ~Blocking(c)
      BY <2>1 DEF TerminalStatus, isValidTransition, VALID_TRANSITIONS, Status,
         Blocking, HasStatus, BLOCKING_STATUSES
    <2> QED
      BY <2>1, FinalStays
  <1> QED
    BY <1>1, <1>2, CoreInit, InitTyped, NextTyped, PTL DEF Spec, TerminalStatesAreFinal
=============================================================================
