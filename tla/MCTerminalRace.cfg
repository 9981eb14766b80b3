\* A cancellation and a payment report for one booking.
SPECIFICATION Spec
CONSTANTS
    Slots <- DepositSlot
    HoldTTL = 1
    MaxBookings = 1
    NoBooking = NoBooking
    NoSlot = NoSlot
    Requests = {r1, r2}
    Jobs = {}
    DepositCourts = {"d1"}
    CancelBefore = 1
    PageSize = 2
    UseCases <- AllUseCases
    MaxTime = 3
    MaxFaults = 0
    MaxInFlight = 2
PROPERTY TerminalStatesAreFinal
CHECK_DEADLOCK FALSE
