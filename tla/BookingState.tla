---------------------------- MODULE BookingState ----------------------------
(***************************************************************************)
(* The state the booking use cases share, beside the two stores: the       *)
(* requests and jobs in flight, what the payment provider and the socket   *)
(* clients know, and history variables the properties are stated with.     *)
(*                                                                         *)
(* A use case is an async function.  It is modelled by one action per      *)
(* awaited call that reads or writes shared state; between two of them any *)
(* other request may run.  req[a] holds the local variables of the request *)
(* or job that actor a is running, and the call it makes next (at).        *)
(* Checks that look only at static data (court, policy, ownership of the   *)
(* booking) appear as what they let through.                               *)
(***************************************************************************)
EXTENDS BookingRepository

CONSTANTS Requests,       \* actors running HTTP requests
          Jobs,           \* actors running scheduler jobs; {} as bookings.module.ts is wired
          DepositCourts,  \* courts of venues whose policy asks for a deposit
          CancelBefore,   \* policy.cancelBeforeHours, in ticks
          PageSize,       \* default page size of BookingRepository.findMany
          UseCases,       \* bound: the use cases that are called
          MaxTime,        \* bound: when the clock stops
          MaxFaults,      \* bound: how many calls fail or processes crash
          MaxInFlight     \* bound: how many actors run at once; 1 is serial

ASSUME ActorsAssumption == Requests \cap Jobs = {}
ASSUME BoundsAssumption ==
    /\ CancelBefore \in Nat /\ PageSize \in Nat
    /\ MaxTime \in Nat /\ MaxFaults \in Nat /\ MaxInFlight \in Nat

Actors == Requests \cup Jobs

CONSTANT NoSlot
ASSUME NoSlotAssumption == NoSlot \notin Slots

VARIABLES req,       \* req[a]: the use case a is running
          payment,   \* payment[b]: NONE, LINKED (a payment link exists), PAID
          refunded,  \* bookings whose cancellation answered refundPercentage 100
          board,     \* board[s]: the last slot event sent to the venue's clients
          faults,    \* how many faults have happened
          kept,      \* history: actors between lock and insert whose key never lapsed
          exposed,   \* history: slots booked by a request whose key had lapsed
          revived    \* history: bookings confirmed out of a non-blocking status

history == <<kept, exposed, revived>>

vars == <<now, holdUntil, bookings, audit, req, payment, refunded, board,
          faults, kept, exposed, revived>>

CreateStages ==
    {"create.acquire", "create.check", "create.release", "create.row",
     "create.update", "create.audit", "create.catch"}

CancelStages == {"cancel.release", "cancel.update", "cancel.audit"}

\* Stages whose request has read the booking it works on.
BookingStages == CancelStages \cup
    {"confirm.expire", "confirm.expireAudit", "confirm.check", "confirm.write",
     "confirm.release", "confirm.audit",
     "webhook.update", "webhook.release", "webhook.audit",
     "expire.release", "expire.audit", "reconcile.update", "reconcile.audit",
     "create.update", "create.audit"}

\* Stages between two bookings of a job's loop.
LoopStages == {"expire.item", "reconcile.item", "complete.bulk", "complete.item"}

Stages == {"idle"} \cup CreateStages \cup BookingStages \cup LoopStages

Request == [at      : Stages,
            slot    : Slots \cup {NoSlot},        \* createHold's slot
            expires : Nat,                        \* createHold's holdExpiresAt
            booking : BookingIds \cup {0},        \* the booking worked on
            seen    : Status \cup {"NONE"},       \* its status when it was read
            goal    : Status \cup {"NONE"},       \* cancel's targetStatus
            todo    : SUBSET BookingIds]          \* what a job's loop has left

Idle == [at |-> "idle", slot |-> NoSlot, expires |-> 0, booking |-> 0,
         seen |-> "NONE", goal |-> "NONE", todo |-> {}]

StateTypeOK ==
    /\ req \in [Actors -> Request]
    /\ payment \in [BookingIds -> {"NONE", "LINKED", "PAID"}]
    /\ refunded \subseteq BookingIds
    /\ board \in [Slots -> {"none", "slot.locked", "slot.released", "slot.updated"}]
    /\ faults \in Nat
    /\ kept \subseteq Actors
    /\ exposed \subseteq Slots
    /\ revived \subseteq BookingIds

StateInit ==
    /\ HoldServiceInit
    /\ BookingRepositoryInit
    /\ req = [a \in Actors |-> Idle]
    /\ payment = [b \in BookingIds |-> "NONE"]
    /\ refunded = {}
    /\ board = [s \in Slots |-> "none"]
    /\ faults = 0
    /\ kept = {} /\ exposed = {} /\ revived = {}

-----------------------------------------------------------------------------
At(a, stage) == req[a].at = stage

Quiescent == \A a \in Actors : At(a, "idle")

\* The bookings a request works on, and its slot.
Target(a) == req[a].booking
TargetSlot(a) == bookings[Target(a)].slot

Begin(a, useCase, r) ==
    /\ useCase \in UseCases
    /\ At(a, "idle")
    /\ Cardinality({x \in Actors : ~At(x, "idle")}) < MaxInFlight
    /\ req' = [req EXCEPT ![a] = r]

Goto(a, stage) == req' = [req EXCEPT ![a] = [@ EXCEPT !.at = stage]]

Finish(a) == req' = [req EXCEPT ![a] = Idle]

\* A job is done with b: it turns to the rest of its list at the given stage.
NextItem(a, b, stage) ==
    IF req[a].todo \subseteq {b}
    THEN Finish(a)
    ELSE req' = [req EXCEPT ![a] =
                    [Idle EXCEPT !.at = stage, !.todo = req[a].todo \ {b}]]

\* A job turns to b of its list.
TakeItem(a, b, stage) ==
    req' = [req EXCEPT ![a] = [@ EXCEPT !.at = stage, !.booking = b]]

emit(s, event) == board' = [board EXCEPT ![s] = event]

\* releaseHold, and what it means for those who rely on the key.
Release(s) ==
    /\ releaseHold(s)
    /\ kept' = {k \in kept : req[k].slot # s}

\* The write that makes b CONFIRMED, whatever its status has become.
WriteConfirmed(b) ==
    /\ update(b, "CONFIRMED")
    /\ revived' = IF Blocking(b) THEN revived ELSE revived \cup {b}
=============================================================================
