\* A hold refused because of an overlapping booking, which is then given up.
SPECIFICATION Spec
CONSTANTS
    Slots <- TwoSlots
    HoldTTL = 1
    MaxBookings = 2
    NoBooking = NoBooking
    NoSlot = NoSlot
    Requests = {r1}
    Jobs = {}
    DepositCourts = {}
    CancelBefore = 1
    PageSize = 2
    UseCases <- HoldAndCancel
    MaxTime = 2
    MaxFaults = 0
    MaxInFlight = 1
INVARIANT LockedSlotIsTaken
CHECK_DEADLOCK FALSE
