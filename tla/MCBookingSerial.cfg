\* One request or job at a time: the sequential behaviour of the use cases.
SPECIFICATION Spec
CONSTANTS
    Slots <- OverlappingSlots
    HoldTTL = 1
    MaxBookings = 2
    NoBooking = NoBooking
    NoSlot = NoSlot
    Requests = {r1}
    Jobs = {j1}
    DepositCourts = {"d1"}
    CancelBefore = 1
    PageSize = 2
    UseCases <- AllUseCases
    MaxTime = 3
    MaxFaults = 1
    MaxInFlight = 1
INVARIANTS
    TypeOK
    NoDoubleBooking
    ReleasesAreAudited
    LiveHoldIsLocked
    ReleasedSlotIsFree
    RefundedIsCancelled
    SerialInv
PROPERTIES
    ImplementsReservation
    TerminalStatesAreFinal
CHECK_DEADLOCK FALSE
