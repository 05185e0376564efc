------------------------------- MODULE MCLive --------------------------------
(***************************************************************************)
(* Components under the fairness of their own modules, and the dashboard   *)
(* of an Approver, for liveness.                                           *)
(***************************************************************************)
EXTENDS MCComponents

VARIABLES sessions, issued, cookie, subs, rpc, dashboard, push, goneEndpoints, cut

\* A dashboard of one Approver: with a clock that stands still, so that only a
\* deletion ends a session, and with one that runs and a failure.
Deletion == INSTANCE ApproverSessions WITH
    Calls <- {"c1"}, Watches <- {"w1"}, Browsers <- {"b1"}, Approvers <- {"a1"}, SessionIDs <- {"s1"},
    NoID <- "no id", Nobody <- "nobody", Ops <- {"signIn", "logout", "watch"}, Base <- 2, SessionTTL <- 2,
    MaxTime <- 0, MaxFaults <- 0, stored <- sessions, call <- rpc, watch <- dashboard, gone <- goneEndpoints
Expiry == INSTANCE ApproverSessions WITH
    Calls <- {"c1"}, Watches <- {"w1"}, Browsers <- {"b1"}, Approvers <- {"a1"}, SessionIDs <- {"s1"},
    NoID <- "no id", Nobody <- "nobody", Ops <- {"signIn", "logout", "watch"}, Base <- 2, SessionTTL <- 2,
    MaxTime <- 1, MaxFaults <- 1, stored <- sessions, call <- rpc, watch <- dashboard, gone <- goneEndpoints

sessionVars == <<sessions, issued, cookie, subs, rpc, dashboard, push, goneEndpoints, cut>>
componentVars == <<vars, shutdownVars, catalogVars, pushVars, waitVars, deliveryVars, pluginVars>>

LiveInit == AllInit /\ Deletion!Init
DeletionStep == part = "deletion" /\ Deletion!Next /\ UNCHANGED <<part, componentVars>>
ExpiryStep == part = "expiry" /\ Expiry!Next /\ UNCHANGED <<part, componentVars>>
\* For liveness it is no error of the locks either when nothing is left to do,
\* as WaitersEnter tells it.
LocksRest == part = "locks" /\ UNCHANGED allVars
LiveNext ==
    \/ (AllNext \/ LocksRest) /\ UNCHANGED sessionVars
    \/ DeletionStep \/ ExpiryStep

\* The chosen component is scheduled as its own module says: the fairness of
\* those that never begin by themselves asks nothing of the others.
LiveSpec ==
    /\ LiveInit /\ [][LiveNext]_<<allVars, sessionVars>>
    /\ Fairness /\ Catalog!Fairness /\ Wait!Fairness /\ Plugin!Fairness /\ Expiry!Fairness
    /\ WF_now(part = "expiry" /\ Expiry!Tick)
    /\ WF_shutdownVars(part = "shutdown" /\ Shutdown!Run)
    /\ WF_now(part = "shutdown" /\ Shutdown!Tick)
    /\ \A c \in {c1, c2} :
          WF_call(part = "shutdown" /\ base = "cancelled" /\ kind[c] = "wait" /\ Shutdown!Answer(c))
    /\ WF_now(part = "push" /\ Push!Tick)
    /\ WF_pushVars(part = "push" /\ Push!FanStep("f1"))
    /\ \A r \in {c1, c2} : WF_deliveryVars(part = "delivery" /\ Delivery!Steps(r))

-----------------------------------------------------------------------------
\* BaoCred: a wait ends when everything is decided (waitForGrantRequest).
DecisionsArrive == Wait!DecisionsArrive
\* SessionTokens: an undisturbed deletion revokes the token (revoke).
QuietDeletionsRevoke == Plugin!QuietDeletionsRevoke
\* ApproverSessions: a stream whose session is deleted ends, and none outlives
\* its session's deadline (watchSessionEnd).
DashboardsEndWithSession ==
    /\ part = "deletion" => Deletion!StreamsEndWithSession
    /\ part = "expiry" => Expiry!StreamsEndByExpiry
\* A signal ends the server (run), a call for the catalog returns (Grantables), a
\* fan-out ends (Notifier.RequestChanged), an interrupted run of bao-cred ends
\* (execute) and a shell command gets to run (setupOpenBao), whatever others do.
WhatStartsEnds ==
    /\ Shutdown!SignalsEnd /\ Catalog!CallsReturn /\ Push!FanoutsEnd
    /\ Delivery!InterruptedRunsEnd /\ Plugin!CommandsRun
=============================================================================
