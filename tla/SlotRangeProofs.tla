-------------------------- MODULE SlotRangeProofs --------------------------
(***************************************************************************)
(* What findConflicting's three-way OR computes, for every pair of integer *)
(* ranges.                                                                 *)
(***************************************************************************)
EXTENDS SlotRange, TLAPS

(***************************************************************************)
(* On proper ranges the query of findConflicting is exactly the overlap of *)
(* the value object TimeRange: no colliding booking is missed and no       *)
(* adjacent one is reported.                                               *)
(***************************************************************************)
THEOREM ConflictQueryIsOverlap ==
    ASSUME NEW Courts, NEW s \in Slot(Courts, Int), NEW t \in Slot(Courts, Int),
           Proper(s), Proper(t)
    PROVE  MatchesConflictQuery(s, t) <=> Overlaps(s, t)
  BY DEF Slot, Proper, MatchesConflictQuery, Overlaps

(***************************************************************************)
(* Asked in either direction the query answers the same, so it does not    *)
(* matter which of two colliding bookings is stored first.                 *)
(***************************************************************************)
THEOREM ConflictQueryIsSymmetric ==
    ASSUME NEW Courts, NEW s \in Slot(Courts, Int), NEW t \in Slot(Courts, Int),
           Proper(s), Proper(t)
    PROVE  MatchesConflictQuery(s, t) <=> MatchesConflictQuery(t, s)
  BY DEF Slot, Proper, MatchesConflictQuery

(***************************************************************************)
(* A range always matches itself, even an empty or inverted one: the       *)
(* "contains" clause does not need start < end.  Hence two bookings of the *)
(* very same slot can never both pass the check one after the other.       *)
(***************************************************************************)
THEOREM ConflictQueryIsReflexive ==
    ASSUME NEW s, s.start \in Int, s.end \in Int
    PROVE  ConflictingSlots(s, s)
  BY DEF ConflictingSlots, MatchesConflictQuery

(***************************************************************************)
(* No collision escapes the query, on any two ranges of integers: also of  *)
(* empty and inverted ones, which createHold accepts, it finds every one   *)
(* that TimeRange.overlaps would call a collision.                         *)
(***************************************************************************)
THEOREM ConflictQueryFindsOverlap ==
    ASSUME NEW s, NEW t, s.start \in Int, s.end \in Int, t.start \in Int, t.end \in Int,
           Overlaps(s, t)
    PROVE  MatchesConflictQuery(s, t) /\ Overlaps(t, s)
  BY DEF MatchesConflictQuery, Overlaps

(***************************************************************************)
(* The grid never offers a taken slot: a grid slot that getAvailability    *)
(* calls AVAILABLE has no booking the query of createHold would find.      *)
(***************************************************************************)
THEOREM AvailableSlotHasNoConflict ==
    ASSUME NEW Courts, NEW slot \in Slot(Courts, Int), NEW b \in Slot(Courts, Int),
           Proper(slot), Proper(b), ~GridSlotTaken(slot, b)
    PROVE  ~MatchesConflictQuery(slot, b)
  BY DEF Slot, Proper, MatchesConflictQuery, GridSlotTaken
=============================================================================
