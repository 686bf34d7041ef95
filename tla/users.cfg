SPECIFICATION MCSpec
CONSTANTS
    b1 = b1
    NoBrowser = NoBrowser
    r1 = r1
    r2 = r2
    r3 = r3
    Browsers = {b1}
    Requests = {r1, r2, r3}
    Ops = {"login", "refresh"}
    Grace = 2
    TTL = 9
    Delay = 1
    MaxSessions = 1
    MaxSerial = 4
    MaxPassword = 1
    MaxClock = 5
    MaxLost = 0
    Users = {u1, u2, u3}
    NoUser = NoUser
    FirstAdmins = {u1, u2, u3}
    Calls = {r0}
    MaxRequests = 6
    MaxVersion = 2
    tab = tab
    n1 = n1
    Tabs = {tab}
    Fetches = {r1, r2, r3}
    Navigations = {n1}
    NoFetch = NoFetch
    TabOf <- OneTab
    InitialToken = 0
    MaxExpiries = 2
    MaxMissed = 1
    t1 = t1
    t2 = t2
    t3 = t3
    NoTrack = NoTrack
SYMMETRY Symmetric
INVARIANTS
    TabsKeepSession
    AccountsKept
    StaysLoggedIn
PROPERTY
    PlayerFollowsQueue
CHECK_DEADLOCK FALSE
