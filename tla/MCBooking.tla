----------------------------- MODULE MCBooking -----------------------------
(***************************************************************************)
(* Instances of BookingSystem for TLC.                                     *)
(***************************************************************************)
EXTENDS SerialBookings, TLC

SlotAt(court, start, end) == [court |-> court, start |-> start, end |-> end]

\* Two overlapping slots of one court, and one on a court that asks for a
\* deposit.
OverlappingSlots == {SlotAt("c1", 1, 3), SlotAt("c1", 2, 4), SlotAt("d1", 1, 3)}

\* Everybody wants the same slot.
OneSlot == {SlotAt("c1", 2, 3)}

\* Two slots that overlap and have different keys.
TwoSlots == {SlotAt("c1", 1, 3), SlotAt("c1", 2, 4)}

\* Everybody wants the same slot of a court that asks for a deposit.
DepositSlot == {SlotAt("d1", 2, 3)}

\* Every use case, and those that take part in the race for one slot.
AllUseCases ==
    {"createHold", "confirm", "webhook", "cancel", "expireHolds",
     "reconcileHolds", "completeBookings"}

RacingUseCases == {"createHold", "confirm", "cancel", "expireHolds"}

\* A customer who holds and confirms, and the jobs that free slots.
ScheduledUseCases == {"createHold", "confirm", "expireHolds", "completeBookings"}

\* Customers who hold and give up.
HoldAndCancel == {"createHold", "cancel"}

\* Requests are interchangeable.
RequestSymmetry == Permutations(Requests)
=============================================================================
