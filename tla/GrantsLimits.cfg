\* Half-second ticks, every kind of input and TTL, configuration changes; and
\* two calls at once with faults.  No symmetry: liveness is checked.
CONSTANTS
    e1 = e1
    e2 = e2
    r1 = r1
    r2 = r2
    Entities = {e1}
    Approvers = {e1, boss}
    Requests = {r1}
    Owner <- OwnerSame
    Slots <- Two
    Paths = {"a", "b"}
    Inputs <- InputsAny
    Batches <- BatchesAny
    Configs <- Changing
    DefaultTTL = 4
    PendingTTL = 3
    Second = 2
    Calls = {c1, c2}
    NoCall = NoCall
    SessionPolicy = "agent-grant"
    OperatorPolicies = {}
    Faults = {}
    MaxTime = 5
    MaxFaults = 1
SPECIFICATION LimitsSpec
INVARIANTS
    GrantsAreBounded
PROPERTIES
    CallsReturn
    PendingSettles
