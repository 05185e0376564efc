CONSTANTS
    Requests = {r1, r2}
    Slots = {k1, k2}
    Writers = {w1}
    Clients = {s1}
    Dashboards = {d1}
    Polls = {p1}
    PendingTTL = 1
    GrantTTL = 1
    DecidedLimit = 1
    MaxTime = 3
    MaxLag = 1
    MaxFaults = 1
    Horizon <- Short
SPECIFICATION KindSpec
SYMMETRY StreamsSymmetry
CHECK_DEADLOCK FALSE
INVARIANTS
    ListenersAreCurrent
    SnapshotsAreWhole
    ExpiriesAreAnnouncedOnce
