SPECIFICATION MCSpec
CONSTANTS
    p1 = p1
    p2 = p2
    old = old
    m1 = m1
    NoRoot = NoRoot
    s1 = s1
    q1 = q1
    q2 = q2
    tab = tab
    other = other
    r1 = r1
    r2 = r2
    r3 = r3
    NoFetch = NoFetch
    Processes = {p1, p2, old}
    Binary <- Newest
    OneWriter = FALSE
    MaxFaults = 2
INVARIANT MigrationInv
PROPERTIES
    NewestServed
    HealthSettles
    EveryRequestEnds
CHECK_DEADLOCK FALSE
