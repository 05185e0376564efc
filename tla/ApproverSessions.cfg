\* Two calls, one stream and one browser; what the scenarios change is in
\* MCApproverSessions.
CONSTANTS
    Calls = {c1, c2}
    Watches = {w1}
    Browsers = {b1}
    a1 = a1
    a2 = a2
    s1 = s1
    s2 = s2
    s3 = s3
    Approvers = {a1, a2}
    SessionIDs = {s1, s2, s3}
    NoID = NoID
    Nobody = Nobody
    Ops = {"signIn", "logout", "watch"}
    Base = 2
    SessionTTL = 2
    MaxTime = 1
    MaxFaults = 1
SPECIFICATION ScenarioSpec
SYMMETRY SessionsSymmetry
CHECK_DEADLOCK FALSE
INVARIANTS
    SessionsInv
PROPERTIES
    PushesFollowSessions
