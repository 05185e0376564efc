CONSTANTS
    Requests = {r1}
    Slots = {k1}
    Writers = {w1}
    Clients = {s1}
    Dashboards = {d1}
    Polls = {p1}
    PendingTTL = 1
    GrantTTL = 1
    DecidedLimit = 1
    MaxTime = 1
    MaxLag = 0
    MaxFaults = 1
    Horizon <- Even
SPECIFICATION KindFairSpec
CHECK_DEADLOCK FALSE
PROPERTIES
    ListenersConverge
