-------------------------- MODULE SlotReservation --------------------------
(***************************************************************************)
(* What the booking subsystem promises, free of locks, requests and time:  *)
(* a slot is reserved only while no overlapping booking of its court       *)
(* blocks it, and bookings then move along the declared life cycle.        *)
(***************************************************************************)
EXTENDS BookingStatus, SlotRange

CONSTANTS Slots, Ids, Free

VARIABLE table   \* table[b]: slot and status of booking b, or Free

Taken(s) ==
    \E b \in Ids : /\ table[b] # Free
                   /\ table[b].status \in BLOCKING_STATUSES
                   /\ table[b].slot.court = s.court
                   /\ Overlaps(table[b].slot, s)

Init == table = [b \in Ids |-> Free]

Reserve(b, s) ==
    /\ table[b] = Free
    /\ ~Taken(s)
    /\ table' = [table EXCEPT ![b] = [slot |-> s, status |-> "HOLD"]]

\* One or, when finished bookings are completed, several bookings move on.
Move(B, status) ==
    /\ \A b \in B : table[b] # Free /\ isValidTransition(table[b].status, status)
    /\ table' = [b \in Ids |->
          IF b \in B THEN [table[b] EXCEPT !.status = status] ELSE table[b]]

Next ==
    \/ \E b \in Ids, s \in Slots : Reserve(b, s)
    \/ \E B \in SUBSET Ids, status \in Status : Move(B, status)

Spec == Init /\ [][Next]_table
=============================================================================
