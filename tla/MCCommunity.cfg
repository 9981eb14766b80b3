SPECIFICATION Spec
CONSTANTS
    ann = ann
    oz = oz
    b1 = b1
    b2 = b2
    v1 = v1
    None = None
    Clients = {r1, r2}
    MaxCalls = 5
    MaxFaults = 1
    Users = {ann, oz}
    Subjects <- MCSubjects
    MaxConversations = 2
    MaxMessages = 2
    PageSize = 1
    Lapses = {1}
    Stays = {b1, b2}
    VenueOf <- MCVenueOf
    MaxRating = 2
    Replies = {"thanks", "sorry"}
    Pairs <- MCPairs
    MaxBooking = 2
    StartOf <- MCStartOf
    Period = 2
    Lead = 2
    ReminderPage = 1
    MaxTime = 5
    MaxRows = 4
    MaxTouches = 2
    ListPage = 2
SYMMETRY CommunitySymmetry
INVARIANTS TypeOK OneConversationPerSubject PreviewIsNewest ReadMeansSeen NoGapInTheRoom
INVARIANTS OneReviewPerBooking RatingIsAverage EveryPressCounts
INVARIANTS EveryoneIsReminded RemindedOnce WalkSkipsNothing
PROPERTY ReplyStands
CHECK_DEADLOCK FALSE
