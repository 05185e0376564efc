----------------------------- MODULE MCStreams ------------------------------
(***************************************************************************)
(* Streams for TLC.  Listeners do not influence each other, so a behaviour *)
(* has one kind of them, chosen at the start; one writer and the sweep     *)
(* make two changes overlap.  Only without listeners are Grants stored     *)
(* after they have expired.  Only a dashboard that looks at the history    *)
(* sees several requests, each with one item that is rejected or expires.  *)
(***************************************************************************)
EXTENDS Streams, TLC

CONSTANT Horizon  \* [kind of listener -> bound: the clock stops here]
VARIABLE kind

Short == [client |-> 1, dash |-> 1, history |-> 1, poll |-> 1, none |-> 3]
Even == [client |-> MaxTime, dash |-> MaxTime, poll |-> MaxTime]

KindInit == Init /\ kind \in DOMAIN Horizon
KindNext ==
    /\ Next /\ UNCHANGED kind
    /\ kind # "client" => \A s \in Clients : client'[s].pc = "off"
    /\ kind \notin {"dash", "history"} => \A d \in Dashboards : dash'[d].pc = "off"
    /\ IF kind = "history"
       THEN /\ \A r \in Requests : Cardinality({k \in Slots : items'[r][k] \notin {"absent", "refused"}}) <= 1
            /\ UNCHANGED <<grants, faults>>
       ELSE \A r \in Requests \ {CHOOSE r \in Requests : TRUE} : items'[r] = NoItems
    /\ kind # "poll" => \A p \in Polls : poll'[p].pc = "off"
    /\ kind # "none" => \A i \in Items : grants'[i].live \/ grants'[i] = grants[i]
    /\ now' <= Horizon[kind]
KindSpec == KindInit /\ [][KindNext]_<<vars, kind>>
\* With every horizon at MaxTime.
KindFairSpec == KindSpec /\ Fairness

StreamsSymmetry == Permutations(Slots)

-----------------------------------------------------------------------------
\* A client gets the final state, its stream ends with its token, a long poll
\* returns on a change, and dashboards come to show what the store has.
ListenersConverge == FinalStatesArrive /\ StreamsEndWithToken /\ PollsReturn /\ DashboardsConverge
=============================================================================
