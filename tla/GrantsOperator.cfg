\* An operator edits the entity while a decision attaches the session policy.
CONSTANTS
    e1 = e1
    e2 = e2
    r1 = r1
    r2 = r2
    Entities = {e1}
    Approvers = {e1, boss}
    Requests = {r1}
    Owner <- OwnerSame
    Slots <- Two
    Paths = {"a", "b"}
    Inputs <- InputTwo
    Batches <- BatchTwo
    Configs <- Plain
    DefaultTTL = 3
    PendingTTL = 2
    Second = 1
    Calls = {c1, c2}
    NoCall = NoCall
    SessionPolicy = "agent-grant"
    OperatorPolicies = {"operator"}
    Faults = {}
    MaxTime = 4
    MaxFaults = 0
SPECIFICATION Spec
PROPERTIES
    KeepsOperatorPolicies
