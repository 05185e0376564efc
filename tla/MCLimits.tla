------------------------------ MODULE MCLimits ------------------------------
(***************************************************************************)
(* Grants for TLC in two scenarios: one call at a time with every kind of  *)
(* input, TTL and configuration, and two calls at once with every fault.   *)
(***************************************************************************)
EXTENDS MCGrants

VARIABLE scenario

Busy == INSTANCE Grants WITH
    Inputs <- InputTwo, Batches <- BatchFirst, Configs <- Plain, DefaultTTL <- 3,
    PendingTTL <- 1, MaxTime <- 3,
    Faults <- {"refuse", "lost", "store", "crash"}

LimitsInit == (scenario = "limits" /\ Init) \/ (scenario = "busy" /\ Busy!Init)
LimitsStep ==
    /\ scenario = "limits" /\ Next /\ UNCHANGED scenario
    /\ \A c \in Calls : c # (CHOOSE d \in Calls : TRUE) => UNCHANGED call[c]
BusyStep == scenario = "busy" /\ Busy!Next /\ UNCHANGED scenario

\* The action of the instance that the scenario names, and Grants' fairness.
Either(limits, busy) == (scenario = "limits" /\ limits) \/ (scenario = "busy" /\ busy)
LimitsFairness ==
    /\ WF_vars(Either(Tick, Busy!Tick))
    /\ WF_vars(Either(ExpirePending, Busy!ExpirePending))
    /\ \A c \in Calls :
          /\ SF_vars(Either(DecideLock(c) \/ RevokeLock(c),
                            Busy!DecideLock(c) \/ Busy!RevokeLock(c)))
          /\ WF_vars(Either(Step(c), Busy!Step(c)))

LimitsSpec ==
    LimitsInit /\ [][LimitsStep \/ BusyStep]_<<vars, scenario>> /\ LimitsFairness
=============================================================================
