--------------------------- MODULE SerialBookings ---------------------------
(***************************************************************************)
(* The booking subsystem with one request or job at a time, what           *)
(* MaxInFlight = 1 makes of it: what the local variables of the one that   *)
(* runs know about the tables, the keys and the clients, and why nothing   *)
(* goes wrong without a race.                                              *)
(***************************************************************************)
EXTENDS BookingSystem

OneInFlight ==
    \A a, x \in Actors : ~At(a, "idle") /\ ~At(x, "idle") => a = x

\* Stages at which the booking that is worked on still is a hold.
HoldStages ==
    {"create.update", "create.audit", "confirm.expire", "confirm.check",
     "confirm.write", "webhook.update", "reconcile.update"}

ConfirmedStages ==
    {"confirm.release", "confirm.audit", "webhook.release", "webhook.audit"}

\* Stages at which a release waits for its audit row.
UnauditedStages ==
    {"confirm.expireAudit", "cancel.audit", "expire.release", "expire.audit",
     "reconcile.audit"}

\* Stages after which the clients are told that the slot is free.
AnnouncingStages == UnauditedStages \ {"confirm.expireAudit"}

AllHave(S, status) == \A b \in S : bookings[b].status \in status

\* What a request with the local variables r has read is still so.
FreshOK(r) ==
    /\ r.at \in HoldStages => bookings[r.booking].status = "HOLD"
    /\ r.at \in ConfirmedStages => bookings[r.booking].status = "CONFIRMED"
    /\ r.at \in {"cancel.release", "cancel.update"}
          => bookings[r.booking].status = r.seen
    /\ r.at = "cancel.audit" => bookings[r.booking].status = r.goal
    /\ r.at \in UnauditedStages \ {"cancel.audit"}
          => bookings[r.booking].status = "EXPIRED"
    /\ r.at = "create.update" => bookings[r.booking].slot = r.slot
    /\ r.at = "create.row" => findConflicting(r.slot, {}) = {}

\* So is what a job put on its list.
ListOK(r) ==
    /\ r.at \in {"expire.item", "reconcile.item", "reconcile.update"}
          => AllHave(r.todo, {"HOLD"})
    /\ r.at \in {"expire.release", "expire.audit", "reconcile.audit"}
          => AllHave(r.todo \ {r.booking}, {"HOLD"})
    /\ r.at \in {"complete.bulk", "complete.item"}
          => AllHave(r.todo, {"CONFIRMED", "COMPLETED"})

\* The blocking bookings of one court do not overlap, and none share a slot.
SlotsApart ==
    \A b, c \in BookingIds :
        Blocking(b) /\ Blocking(c) /\ b # c
            => /\ bookings[b].slot # bookings[c].slot
               /\ ~Colliding(b, c)

NothingStale == \A a \in Actors : FreshOK(req[a]) /\ ListOK(req[a])

\* "slot.released" is true until the next event about the slot.
BoardTrue ==
    \A b \in BookingIds : Blocking(b) => board[bookings[b].slot] # "slot.released"

\* A slot that is about to be booked was announced as locked, and one that is
\* about to be announced as free is.
HeardOK(r) ==
    /\ r.at \in {"create.check", "create.row"} => board[r.slot] = "slot.locked"
    /\ r.at \in AnnouncingStages =>
          \A b \in BookingIds : Blocking(b) => bookings[b].slot # bookings[r.booking].slot

ClientsKnow == BoardTrue /\ \A a \in Actors : HeardOK(req[a])

RefundsStand == \A b \in refunded : HasStatus(b, CancelledStatus)

\* No key is to outlive the hold it stands for by more than a lifetime.
ExpiryBounded ==
    /\ \A b \in Stored : bookings[b].holdExpiresAt <= now + HoldTTL
    /\ \A a \in Actors : req[a].at \in CreateStages => req[a].expires <= now + HoldTTL

LiveHold(b) == HasStatus(b, {"HOLD"}) /\ now < bookings[b].holdExpiresAt

\* Without faults a live hold has its key, but for the moment in which its
\* request is between two statements; who creates a hold meets no live one.
KeysOK ==
    faults = 0 =>
        /\ \A b \in BookingIds : LiveHold(b) =>
              \/ holdUntil[bookings[b].slot] >= bookings[b].holdExpiresAt
              \/ \E a \in Actors : /\ req[a].at \in {"create.update", "cancel.update"}
                                   /\ Target(a) = b
        /\ \A a \in Actors :
              req[a].at \in {"create.check", "create.row", "create.release", "create.catch"}
                  => \A b \in BookingIds : LiveHold(b) => bookings[b].slot # req[a].slot

Audited(b) ==
    /\ audit[b] # <<>>
    /\ audit[b][Len(audit[b])].toStatus = bookings[b].status

\* Without faults a release is audited or its request is about to do it.
AuditKept ==
    faults = 0 =>
        \A b \in BookingIds : HasStatus(b, CancelledStatus \cup {"EXPIRED"}) =>
            \/ Audited(b)
            \/ \E a \in Actors : req[a].at \in UnauditedStages /\ Target(a) = b

(***************************************************************************)
(* With one request or job at a time, everything a use case has read is    *)
(* still true when it acts on it: no two bookings collide, clients, keys,  *)
(* refunds and the audit log agree with the rows.                          *)
(***************************************************************************)
SerialInv ==
    /\ OneInFlight /\ SlotsApart /\ NothingStale
    /\ ClientsKnow /\ RefundsStand
    /\ ExpiryBounded /\ KeysOK
    /\ AuditKept
=============================================================================
