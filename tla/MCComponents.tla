---------------------------- MODULE MCComponents ----------------------------
(***************************************************************************)
(* Values for the constants of Components: Small is for liveness.          *)
(***************************************************************************)
EXTENDS Components, TLC

CONSTANTS Small, r1, r2, k1, c1, c2, c3

Size(small, full) == IF Small THEN small ELSE full

MCParts == {"locks", "shutdown", "catalog", "push", "wait", "delivery", "plugin"}
              \cup Size({"deletion", "expiry"}, {})

\* Calls of either kind and the two sweeps, with a short shutdown.
MCHTTPCalls == Size({c1, c2}, {c1, c2, c3})

\* Two callers of one rule; in small, one caller of two rules.
MCRules == Size({r1, r2}, {r1})
MCCallers == Size({c1}, {c1, c2})

\* Subscriptions at hosts in the allowed domain, with and without the root's
\* dot, or at one that only looks like it and one that is not plain.
At(host) == [host |-> host, plain |-> TRUE]
NamedEndpoints == {At(<<"A", ".", "b", ".">>)} \cup Size({}, {At(<<"b", ".", "a", ".", "b">>)})
OddEndpoints == {At(<<"b", "a", ".", "b">>), [host |-> <<"a", ".", "b">>, plain |-> FALSE]}
MCRegistrations == {NamedEndpoints} \cup Size({}, {OddEndpoints})
MCRawSuffixes == {<<".", "a", ".", "b", " ">>, <<>>}
MCLower == [ch \in {"a", "b", "A", ".", " "} |-> IF ch = "A" THEN "a" ELSE ch]
MCHttpTimeout == Size(1, 2)
MCPushTimeout == Size(2, 3)

\* One request of two items, awaited by one run of bao-cred after another.
MCmaxRetryDelay == Size(1, 3)

\* Two shell commands in two root sessions and a subagent; in small, in one
\* root session.
MCRoots == Size({r1}, {r1, r2})
MCParent == [s \in Size({}, {k1}) |-> r1]

\* Bounds that are smaller for liveness.
MCCatalogHorizon == Size(1, 2)
MCMaxCalls == Size(1, 2)
MCMaxChanges == Size(0, 1)
MCMaxRuns == Size(1, 2)
MCWaitFaults == Size(1, 3)
MCMaxWire == Size(1, 2)
MCMaxKills == Size(0, 2)

ASSUME SmallAssumption == Small \in BOOLEAN

ComponentsSymmetry == Permutations({c1, c2})
=============================================================================
