------------------------- MODULE BookingRepository -------------------------
(***************************************************************************)
(* The bookings table and the booking_audit_logs table in Postgres, behind *)
(* BookingRepository and AuditRepository.  Each operation is one Prisma    *)
(* query outside any transaction, hence atomic by itself and nothing more: *)
(* the row lock of findByIdWithLock is gone when its query has returned.   *)
(* update() writes the status unconditionally.                             *)
(***************************************************************************)
EXTENDS BookingStatus, SlotRange, HoldService, Sequences, FiniteSets

CONSTANTS MaxBookings,   \* bound: how many rows are ever created
          NoBooking      \* what an id without a row maps to

ASSUME MaxBookingsAssumption == MaxBookings \in Nat

\* Ids are uuids in the code; numbered here in the order of createdAt.
BookingIds == 1..MaxBookings

Booking == [slot : Slots, status : Status, holdExpiresAt : Nat]

ASSUME NoBookingAssumption == NoBooking \notin Booking

\* An audit row: null fromStatus is "NONE".
AuditEntry == [fromStatus : Status \cup {"NONE"}, toStatus : Status]

VARIABLES bookings,   \* bookings[b]: the row of b
          audit       \* audit[b]: the audit rows of b, oldest first

BookingRepositoryTypeOK ==
    /\ bookings \in [BookingIds -> Booking \cup {NoBooking}]
    /\ audit \in [BookingIds -> Seq(AuditEntry)]

BookingRepositoryInit ==
    /\ bookings = [b \in BookingIds |-> NoBooking]
    /\ audit = [b \in BookingIds |-> <<>>]

Stored == {b \in BookingIds : bookings[b] # NoBooking}

HasStatus(b, S) == b \in Stored /\ bookings[b].status \in S

Blocking(b) == HasStatus(b, BLOCKING_STATUSES)

\* The id the next insert gets.
IsNextId(b) == b \notin Stored /\ \A c \in 1..(b - 1) : c \in Stored

create(b, s, expires) ==
    bookings' = [bookings EXCEPT
        ![b] = [slot |-> s, status |-> "HOLD", holdExpiresAt |-> expires]]

update(b, status) ==
    bookings' = [bookings EXCEPT ![b] = [@ EXCEPT !.status = status]]

\* A plausible slip: only confirmed bookings are looked for.
FindConflicting_OnlyConfirmed(s, excluded) ==
    {c \in Stored \ excluded : /\ bookings[c].status = "CONFIRMED"
                               /\ ConflictingSlots(s, bookings[c].slot)}

findConflicting(s, excluded) ==
    {c \in Stored \ excluded : /\ Blocking(c)
                               /\ ConflictingSlots(s, bookings[c].slot)}

\* A plausible slip: gte for lte.
FindStaleHolds_NotYetExpired ==
    {b \in Stored : /\ bookings[b].status = "HOLD"
                    /\ bookings[b].holdExpiresAt >= now}

findStaleHolds ==
    {b \in Stored : /\ bookings[b].status = "HOLD"
                    /\ bookings[b].holdExpiresAt <= now}

\* Booking.isHoldExpired(), strict where the query above is not.
isHoldExpired(b) ==
    bookings[b].status = "HOLD" /\ now > bookings[b].holdExpiresAt

\* findMany({status: CONFIRMED, to: now}): the first page, newest first.
StartedConfirmedPage(size) ==
    LET started == {b \in Stored : /\ bookings[b].status = "CONFIRMED"
                                   /\ bookings[b].slot.start <= now}
    IN  {b \in started : Cardinality({c \in started : c > b}) < size}

\* The rows completeExpiredBookings() moves to COMPLETED in one statement.
Finished ==
    {b \in Stored : bookings[b].status = "CONFIRMED" /\ bookings[b].slot.end <= now}

completeExpiredBookings ==
    bookings' = [b \in BookingIds |->
        IF b \in Finished THEN [bookings[b] EXCEPT !.status = "COMPLETED"]
        ELSE bookings[b]]

auditCreate(b, from, to) ==
    audit' = [audit EXCEPT ![b] = Append(@, [fromStatus |-> from, toStatus |-> to])]
=============================================================================
