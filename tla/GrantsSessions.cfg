\* Two sessions with a request each, served side by side, while an
\* operator edits their entities.
CONSTANTS
    e1 = e1
    e2 = e2
    r1 = r1
    r2 = r2
    Entities = {e1, e2}
    Approvers = {e1, boss}
    Requests = {r1, r2}
    Owner <- OwnerSplit
    Slots <- One
    Paths = {"a", "b"}
    Inputs <- InputOne
    Batches <- BatchOne
    Configs <- Plain
    DefaultTTL = 3
    PendingTTL = 2
    Second = 1
    Calls = {c1, c2}
    NoCall = NoCall
    SessionPolicy = "agent-grant"
    OperatorPolicies = {"operator"}
    Faults = {"refuse", "crash"}
    MaxTime = 2
    MaxFaults = 1
SPECIFICATION Spec
INVARIANTS
    GrantsAreAttached
    NoForeignBlocks
SYMMETRY GrantsSymmetry
