\* The scheduler enabled, one request and one job at a time, a fault anywhere.
SPECIFICATION FairSpec
CONSTANTS
    Slots <- OneSlot
    HoldTTL = 1
    MaxBookings = 2
    NoBooking = NoBooking
    NoSlot = NoSlot
    Requests = {r1}
    Jobs = {j1}
    DepositCourts = {}
    CancelBefore = 1
    PageSize = 2
    UseCases <- ScheduledUseCases
    MaxTime = 3
    MaxFaults = 1
    MaxInFlight = 2
PROPERTIES
    StaleHoldsEnd
    FinishedBookingsEnd
CHECK_DEADLOCK FALSE
