------------------------------ MODULE MCGrants ------------------------------
(***************************************************************************)
(* Instances of Grants for TLC.  Paths are "a" and "b"; a configuration    *)
(* maps each to its maximal TTL in clock ticks, 0 for not grantable.       *)
(***************************************************************************)
EXTENDS Grants, TLC

CONSTANTS r1, r2, e1, e2

OwnerSame == [r \in Requests |-> e1]
OwnerSplit == [r \in Requests |-> IF r = r1 THEN e1 ELSE e2]

One == {1}
Two == {1, 2}

\* A batch as a function from slots to what the Approver says about each.
Skip == [verdict |-> "skip", ttl |-> 0]
Reject == [verdict |-> "reject", ttl |-> 0]
Approve(t) == [verdict |-> "approve", ttl |-> t]

\* One item; the Approver takes or leaves it, or shortens it.
InputOne == {[k \in One |-> [path |-> "a", ttl |-> 0]]}
BatchOne == {[k \in One |-> v] : v \in {Reject, Approve(0)}}
BatchApprove == {[k \in One |-> Approve(0)]}

\* Two items with different TTLs, decided one by one or together.
InputTwo == {[k \in Two |-> IF k = 1 THEN [path |-> "a", ttl |-> 2] ELSE [path |-> "b", ttl |-> 3]]}
BatchTwo == [Two -> {Skip, Approve(0)}] \cup [Two -> {Skip, Reject}]

\* One item of the two is decided, the other is left to the sweep.
BatchFirst == {[k \in Two |-> IF k = 1 THEN Approve(0) ELSE Skip]}

\* What validation tells apart: an item twice, an ungrantable path, a TTL above
\* the maximum; and what approval tells apart: TTLs that shorten or lengthen.
InputsAny == {[k \in Two |-> IF k = 1 THEN v ELSE [path |-> p, ttl |-> 0]] :
                 v \in [path : Paths, ttl : {0, 1, 5}], p \in Paths}
BatchesAny == {[k \in Two |-> IF k = 1 THEN v ELSE w] :
                  v \in {Skip, Reject, Approve(0), Approve(1), Approve(3), Approve(4)},
                  w \in {Skip, Approve(0)}}

\* Configurations: everything up to three ticks; and one that is later
\* replaced by one that shortens "a" and drops "b".
Plain == {[p \in Paths |-> 3]}
Changing == {[p \in Paths |-> 4], [p \in Paths |-> IF p = "a" THEN 3 ELSE 0]}

GrantsSymmetry == Permutations(Calls)
=============================================================================
