SPECIFICATION Spec
CONSTANTS
    Browsers = {b1, b2}
    NoBrowser = NoBrowser
    Requests = {r1, r2}
    Ops = {"login", "refresh", "logout", "logout_all", "password", "status", "delete"}
    b1 = b1
    b2 = b2
    r1 = r1
    r2 = r2
    Grace = 0
    TTL = 0
    Delay = 9
    MaxSerial = 2
    MaxSessions = 2
    MaxPassword = 1
    MaxClock = 1
    MaxLost = 1
SYMMETRY Symmetric
INVARIANT SessionsSound
PROPERTIES
    EndedStaysEnded
    TokenExchangedOnce
CHECK_DEADLOCK FALSE
