----------------------------- MODULE Lifecycle ------------------------------
(***************************************************************************)
(* What the authorizer promises about Permission Items and Grants, with no *)
(* OpenBao, clock, lock or goroutine in sight: an item is filed once,      *)
(* leaves "pending" at most once and together with the rest of its batch,  *)
(* and an approved item and its Grant are revoked together, once.          *)
(***************************************************************************)
CONSTANTS Requests, Slots

VARIABLES state,    \* state[r][k]: the state of item k of Grant Request r
          grant     \* grant[<<r, k>>]: the Grant that item k of r became

Decided == {"approved", "rejected", "refused"}
Filed == {"pending", "refused", "already_granted"}

LifecycleInit ==
    /\ state = [r \in Requests |-> [k \in Slots |-> "absent"]]
    /\ grant = [i \in Requests \X Slots |-> "none"]

\* A Requester files a request: every item is pending, refused or redundant.
File(r) ==
    /\ \A k \in Slots : state[r][k] = "absent"
    /\ \E filed \in [Slots -> Filed] : state' = [state EXCEPT ![r] = filed]
    /\ UNCHANGED grant

\* One batch of an Approver's decisions, all or nothing: only pending items
\* move, and exactly the approved ones become Grants.
DecideBatch(r) ==
    \E decided \in [Slots -> Decided \cup {"untouched"}] :
        /\ \A k \in Slots : decided[k] # "untouched" => state[r][k] = "pending"
        /\ state' = [state EXCEPT ![r] =
              [k \in Slots |-> IF decided[k] = "untouched" THEN @[k] ELSE decided[k]]]
        /\ grant' = [i \in Requests \X Slots |->
              IF i[1] = r /\ decided[i[2]] = "approved" THEN "active" ELSE grant[i]]

\* The sweep: all pending items of the requests past their deadline expire.
Expire ==
    \E R \in SUBSET Requests :
        state' = [r \in Requests |-> [k \in Slots |->
              IF r \in R /\ state[r][k] = "pending" THEN "expired" ELSE state[r][k]]]
    /\ UNCHANGED grant

\* An Approver revokes a Grant: the item and the Grant change together.
RevokeItem(r, k) ==
    /\ state[r][k] = "approved"
    /\ grant[<<r, k>>] = "active"
    /\ state' = [state EXCEPT ![r][k] = "revoked"]
    /\ grant' = [grant EXCEPT ![<<r, k>>] = "revoked"]

LifecycleNext ==
    \/ Expire
    \/ \E r \in Requests :
          \/ File(r)
          \/ DecideBatch(r)
          \/ \E k \in Slots : RevokeItem(r, k)

LifecycleSpec == LifecycleInit /\ [][LifecycleNext]_<<state, grant>>
=============================================================================
