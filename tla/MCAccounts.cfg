SPECIFICATION Spec
CONSTANTS
    MaxUsers = 2
    Emails = {e1, e2}
    Phones = {p1, p2}
    Passwords = {w1, w2}
    NoUser = NoUser
    Clients = {r1, r2}
    MaxTokens = 3
    MaxCalls = 4
    MaxTime = 3
    MaxFaults = 1
    TokenTTL = 2
    OtpTTL = 1
    Codes = {k1, k2}
    None = None
SYMMETRY AccountSymmetry
INVARIANTS TypeOK ContactsAreUnique EndedSessionStaysOut StoredCodeWasMailed
CHECK_DEADLOCK FALSE
