\* Three goroutines on one session; no symmetry.
CONSTANTS
    Procs = {p1, p2, p3}
    Keys = {k1}
    Objects = {o1, o2}
    NoProc = NoProc
    NoObject = NoObject
    Small = TRUE
    r1 = r1
    r2 = r2
    k1 = k1
    c1 = c1
    c2 = c2
    c3 = c3
    Parts <- MCParts
    HTTPCalls <- MCHTTPCalls
    Sweeps = {"grants", "sessions"}
    ShutdownTimeout = 2
    ShutdownHorizon = 3
    Rules <- MCRules
    Callers <- MCCallers
    discoveryTTL = 1
    MaxCalls <- MCMaxCalls
    CatalogHorizon <- MCCatalogHorizon
    Registrations <- MCRegistrations
    RawSuffixes <- MCRawSuffixes
    Lower <- MCLower
    Fanouts = {"f1"}
    HttpTimeout <- MCHttpTimeout
    PushTimeout <- MCPushTimeout
    MaxChanges <- MCMaxChanges
    PushHorizon = 3
    Requests = {"q1"}
    None = "none"
    Items = {"i1", "i2"}
    retryDelay = 1
    maxRetryDelay <- MCmaxRetryDelay
    MaxRuns <- MCMaxRuns
    MaxWire <- MCMaxWire
    WaitFaults <- MCWaitFaults
    Runs = {c1, c2}
    Old = "old"
    Chunks = 2
    Statuses = {0, 3}
    MaxKills <- MCMaxKills
    Roots <- MCRoots
    Parent <- MCParent
    Commands = {c1, c2}
    Lease = 2
    MaxTokens = 2
    PluginFaults = 1
    PluginHorizon = 2
SPECIFICATION LiveSpec
PROPERTIES
    WaitersEnter
    DecisionsArrive
    QuietDeletionsRevoke
    DashboardsEndWithSession
    WhatStartsEnds
