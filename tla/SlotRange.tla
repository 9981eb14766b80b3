----------------------------- MODULE SlotRange -----------------------------
(***************************************************************************)
(* Time ranges on a court and the code's three ways of asking whether two  *)
(* of them collide: the value object TimeRange, the query of               *)
(* BookingRepository.findConflicting, and the slot grid of                 *)
(* GetAvailabilityUseCase.  Times are integers; a slot is a range on one   *)
(* court, and nothing in the code makes start < end (CreateHoldDto and     *)
(* validateOperatingHours accept any two instants).                        *)
(***************************************************************************)
EXTENDS Integers

Slot(Courts, Times) == [court : Courts, start : Times, end : Times]

\* TimeRange's constructor throws unless this holds.
Proper(s) == s.start < s.end

\* TimeRange.overlaps: half-open ranges share an instant.
Overlaps(s, t) == s.start < t.end /\ s.end > t.start

\* The slot grid of getAvailability: a grid slot is not AVAILABLE when a
\* blocking booking satisfies this.
GridSlotTaken(slot, booking) ==
    slot.start < booking.end /\ slot.end > booking.start

\* A plausible slip in the query: both "during" clauses strict and the
\* "contains" clause forgotten.
MatchesConflictQuery_NoContains(s, t) ==
    \/ t.start < s.start /\ t.end > s.start
    \/ t.start < s.end /\ t.end > s.end

\* The OR of findConflicting's where-clause: s is the range asked about, t
\* the range of a stored booking.
MatchesConflictQuery(s, t) ==
    \/ t.start <= s.start /\ t.end > s.start     \* s starts during t
    \/ t.start < s.end /\ t.end >= s.end         \* s ends during t
    \/ t.start >= s.start /\ t.end <= s.end      \* s contains t

ConflictingSlots(s, t) == s.court = t.court /\ MatchesConflictQuery(s, t)
=============================================================================
