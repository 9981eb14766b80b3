\* One account, one client at a time, nothing fails.
SPECIFICATION Spec
CONSTANTS
    MaxUsers = 1
    Emails = {e1}
    Phones = {p1}
    Passwords = {w1}
    NoUser = NoUser
    Clients = {r1}
    MaxTokens = 1
    MaxCalls = 3
    MaxTime = 2
    MaxFaults = 0
    TokenTTL = 1
    OtpTTL = 1
    Codes = {k1}
    None = None
INVARIANT MailedCodeWorks
CHECK_DEADLOCK FALSE
