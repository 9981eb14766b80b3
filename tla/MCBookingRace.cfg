\* Two requests and a job at once, all after the same slot.
SPECIFICATION Spec
CONSTANTS
    Slots <- OneSlot
    HoldTTL = 1
    MaxBookings = 2
    NoBooking = NoBooking
    NoSlot = NoSlot
    Requests = {r1, r2}
    Jobs = {j1}
    DepositCourts = {}
    CancelBefore = 1
    PageSize = 2
    UseCases <- RacingUseCases
    MaxTime = 2
    MaxFaults = 0
    MaxInFlight = 2
SYMMETRY RequestSymmetry
INVARIANTS
    DoubleBookingHasCause
    HoldersExclude
    AuditedTransitionsAreValid
CHECK_DEADLOCK FALSE
