\* One request at a time: a deposit paid, its report on the way.
SPECIFICATION Spec
CONSTANTS
    Slots <- DepositSlot
    HoldTTL = 1
    MaxBookings = 1
    NoBooking = NoBooking
    NoSlot = NoSlot
    Requests = {r1}
    Jobs = {}
    DepositCourts = {"d1"}
    CancelBefore = 1
    PageSize = 2
    UseCases <- AllUseCases
    MaxTime = 3
    MaxFaults = 0
    MaxInFlight = 1
PROPERTY CancelledHoldIsUnpaid
CHECK_DEADLOCK FALSE
