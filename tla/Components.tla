----------------------------- MODULE Components -----------------------------
(***************************************************************************)
(* Components that share no state: a behaviour is one of a single          *)
(* component, chosen at the start among Parts, while the others stay as    *)
(* they began.  What this module says of each of them is said, and proved, *)
(* for every value of the constants.                                       *)
(***************************************************************************)
EXTENDS SessionLocks

CONSTANTS Parts,
          HTTPCalls, Sweeps, ShutdownTimeout, ShutdownHorizon,
          Rules, Callers, discoveryTTL, MaxCalls, CatalogHorizon,
          Registrations, RawSuffixes, Lower, Fanouts, HttpTimeout, PushTimeout, MaxChanges, PushHorizon,
          Requests, None, Items, retryDelay, maxRetryDelay, MaxRuns, MaxWire, WaitFaults,
          Runs, Old, Chunks, Statuses, MaxKills,
          Roots, Parent, Commands, Lease, MaxTokens, PluginFaults, PluginHorizon

VARIABLES part, now, faults,
          phase, deadline, rootCancelled, base, kind, call, sweep, database, result,
          keys, results, find, gone, calls,
          dns, service, changed, stored, fan, connections,
          items, allowed, proc, watch, runs,
          form, at, failed, status, inode, named, out, outs, removal, child, interrupted, kills, lost,
          exists, cache, roots, tokens, pending, refresh, cmd, bao, events, stream, handler, raced

Shutdown == INSTANCE Server WITH Calls <- HTTPCalls, MaxTime <- ShutdownHorizon
Catalog == INSTANCE Discovery WITH MaxTime <- CatalogHorizon
Push == INSTANCE PushFanout WITH MaxTime <- PushHorizon
Wait == INSTANCE BaoCred WITH MaxFaults <- WaitFaults, stream <- watch
Delivery == INSTANCE Deliver WITH pc <- at
Plugin == INSTANCE SessionTokens WITH MaxFaults <- PluginFaults, MaxTime <- PluginHorizon

ASSUME ComponentsAssumption ==
    /\ Shutdown!ServerAssumption /\ Catalog!DiscoveryAssumption /\ Push!PushFanoutAssumption
    /\ Wait!BaoCredAssumption /\ Delivery!DeliverAssumption /\ Plugin!SessionTokensAssumption

-----------------------------------------------------------------------------
shutdownVars == <<phase, deadline, rootCancelled, base, kind, call, sweep, database, result>>
catalogVars == <<keys, results, find, gone, calls>>
pushVars == <<dns, service, changed, stored, fan, connections>>
waitVars == <<items, allowed, proc, watch, runs>>
deliveryVars == <<form, at, failed, status, inode, named, out, outs, removal, child, interrupted, kills, lost>>
pluginVars == <<exists, cache, roots, tokens, pending, refresh, cmd, bao, events, stream, handler, raced>>
allVars == <<part, now, faults, vars, shutdownVars, catalogVars, pushVars, waitVars, deliveryVars, pluginVars>>

\* A component that is not chosen has one initial state.
AllInit ==
    /\ part \in Parts
    /\ Init /\ (part = "locks" \/ key = [p \in Procs |-> CHOOSE k \in Keys : TRUE])
    /\ Shutdown!Init /\ (part = "shutdown" \/ \A c \in HTTPCalls : kind[c] = "work")
    /\ Catalog!Init
    /\ Push!Init
    /\ part = "push" \/ (/\ stored = CHOOSE registered \in Registrations : TRUE
                         /\ \A e \in stored : dns[e] = "public" /\ service[e] = "ok")
    /\ Wait!Init
    /\ Delivery!Init /\ (part = "delivery" \/ \A r \in Runs : form[r] = "file")
    /\ Plugin!Init

LocksStep == part = "locks" /\ Next
             /\ UNCHANGED <<part, now, faults, shutdownVars, catalogVars, pushVars, waitVars, deliveryVars, pluginVars>>
ShutdownStep == part = "shutdown" /\ Shutdown!Next
                /\ UNCHANGED <<part, faults, vars, catalogVars, pushVars, waitVars, deliveryVars, pluginVars>>
CatalogStep == part = "catalog" /\ Catalog!Next
               /\ UNCHANGED <<part, faults, vars, shutdownVars, pushVars, waitVars, deliveryVars, pluginVars>>
PushStep == part = "push" /\ Push!Next
            /\ UNCHANGED <<part, faults, vars, shutdownVars, catalogVars, waitVars, deliveryVars, pluginVars>>
WaitStep == part = "wait" /\ Wait!Next
            /\ UNCHANGED <<part, now, vars, shutdownVars, catalogVars, pushVars, deliveryVars, pluginVars>>
DeliveryStep == part = "delivery" /\ Delivery!Next
                /\ UNCHANGED <<part, now, faults, vars, shutdownVars, catalogVars, pushVars, waitVars, pluginVars>>
PluginStep == part = "plugin" /\ Plugin!Next
              /\ UNCHANGED <<part, vars, shutdownVars, catalogVars, pushVars, waitVars, deliveryVars>>
\* All but the locks may have nothing left to do.
Rest == part # "locks" /\ UNCHANGED allVars
AllNext ==
    \/ LocksStep \/ ShutdownStep \/ CatalogStep \/ PushStep
    \/ WaitStep \/ DeliveryStep \/ PluginStep \/ Rest
AllSpec == AllInit /\ [][AllNext]_allVars

-----------------------------------------------------------------------------
\* Every variable of the chosen component has its type.
TypesOK ==
    /\ part = "locks" => TypeOK
    /\ part = "shutdown" => Shutdown!TypeOK
    /\ part = "catalog" => Catalog!TypeOK
    /\ part = "push" => Push!TypeOK
    /\ part = "wait" => Wait!TypeOK
    /\ part = "delivery" => Delivery!TypeOK
    /\ part = "plugin" => Plugin!TypeOK

\* Server: an end without an error has answered every call (run).
CleanEndsAnswerEverything == Shutdown!CleanEndsAnswerEverything
\* Server: streams and long polls never make Shutdown time out (newHTTPServer).
StreamsDoNotHoldShutdown == Shutdown!StreamsDoNotHoldShutdown

\* Discovery: a key shows up within the TTL, and only OpenBao's own failures are
\* cached (discover).
ListingsAreTrue == Catalog!KeysShowUp /\ Catalog!FailuresAreOpenBaos

\* PushFanout: connections are only opened to public addresses of allowed
\* hosts (dialContext).
ConnectionsArePublic == Push!ConnectionsArePublic
\* PushFanout: a subscription's failure takes nothing from the others, and none
\* is deleted for lack of time (NewRequest).
FanoutsSpareTheOthers == []Push!OneFailureStopsNobody /\ Push!TimeoutsDeleteNothing

\* BaoCred: the exit status tells the request's outcome (outcomeError), each
\* decision is reported once (reportChanges), and a refused read is repeated
\* when it was granted (runRead).
OutcomesAreTold == Wait!ExitStatusIsTrue /\ Wait!NewsIsToldOnce /\ Wait!ReadsAgainWhenGranted
\* BaoCred: over reconnects, what is known never goes back, and pauses without
\* news double up to the maximum (waitForGrantRequest).
WaitsAdvance == Wait!SnapshotsAdvance /\ Wait!BackoffGrows

\* Deliver: the output is never a part of some contents, a run that ends by
\* itself leaves no temporary file, unless it ends with an error and the disk
\* refuses the removal, or a power loss undoes it (writeFile), and the exit
\* status tells whether the contents arrived (execute, writeFile).
DeliveriesAreWhole ==
    Delivery!OutputIsWhole /\ Delivery!StatusTellsDelivery /\ Delivery!NothingLeftBehind

\* SessionTokens: a command gets its own session's token or none (setupOpenBao),
\* and a root's token is refreshed by one command at a time (get).
RootsShareOneToken == Plugin!CommandsGetTheirOwnToken /\ Plugin!OneRefreshAtATime
\* SessionTokens: no command starts with a revoked token (defineSessionEnv).
RevokedTokensStayHome == Plugin!RevokedTokensStayHome
=============================================================================
