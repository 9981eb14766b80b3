\* One request at a time on a court that asks for a deposit.
SPECIFICATION Spec
CONSTANTS
    Slots <- DepositSlot
    HoldTTL = 1
    MaxBookings = 1
    NoBooking = NoBooking
    NoSlot = NoSlot
    Requests = {r1}
    Jobs = {}
    DepositCourts = {"d1"}
    CancelBefore = 1
    PageSize = 2
    UseCases <- AllUseCases
    MaxTime = 3
    MaxFaults = 0
    MaxInFlight = 1
PROPERTY ConfirmedInTime
CHECK_DEADLOCK FALSE
