\* Two requests for overlapping slots, whose keys differ.
SPECIFICATION Spec
CONSTANTS
    Slots <- TwoSlots
    HoldTTL = 1
    MaxBookings = 2
    NoBooking = NoBooking
    NoSlot = NoSlot
    Requests = {r1, r2}
    Jobs = {}
    DepositCourts = {}
    CancelBefore = 1
    PageSize = 2
    UseCases <- AllUseCases
    MaxTime = 2
    MaxFaults = 0
    MaxInFlight = 2
INVARIANT NoDoubleBooking
CHECK_DEADLOCK FALSE
