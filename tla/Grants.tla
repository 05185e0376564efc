------------------------------- MODULE Grants -------------------------------
(***************************************************************************)
(* The grants service: Grant Requests, the decisions on their items, and   *)
(* the Grants that approvals become.  Three stores of state meet here.     *)
(*   - The SQLite store (requests, grants) is the record.                  *)
(*   - OpenBao (policy, attached) is what gives access: one policy per     *)
(*     Agent Session, a path block with its own expiration per Grant.      *)
(*   - The goroutines that serve calls hold copies of both between steps.  *)
(* Each store transaction and each OpenBao call is one action.  A session  *)
(* lock (KeyedMutex, implemented by SessionLocks) serializes decisions and *)
(* revocations of a session; the pending sweep and filing run without it.  *)
(***************************************************************************)
EXTENDS Integers

CONSTANTS
    Entities,         \* entity IDs of Agent Sessions
    Approvers,        \* entity IDs of signed-in Approvers
    Requests,         \* IDs that Grant Requests will get (random, never reused)
    Owner,            \* Owner[r]: the entity whose token files r
    Slots,            \* positions of the items of a request, 1..n
    Paths,            \* a path together with the capabilities asked for on it
    Inputs,           \* what a Requester may file: a path and a TTL per slot
    Batches,          \* what an Approver may send: a verdict and a TTL per slot
    Configs,          \* configurations: the maximal TTL per path, 0 = not grantable
    DefaultTTL,       \* grants.default_ttl
    PendingTTL,       \* grants.pending_ttl
    Second,           \* clock ticks per second
    Calls,            \* goroutines serving RPCs
    NoCall,           \* the owner of a free session lock
    SessionPolicy,    \* the name agent-grant-<entity id>
    OperatorPolicies, \* names operators attach to entities
    Faults,           \* what may go wrong: "refuse", "lost", "store", "crash"
    MaxTime,          \* bound: the clock stops here
    MaxFaults         \* bound: faults per behaviour

Items == Requests \X Slots
ItemStates == {"absent", "pending", "already_granted", "approved", "rejected",
               "refused", "expired", "revoked"}

\* ttl 0 stands for an empty TTL string.
Verdict == [verdict : {"skip", "reject", "approve"}, ttl : Nat]

ASSUME RequestsAssumption == Requests # {} /\ Owner \in [Requests -> Entities]
ASSUME SlotsAssumption == Slots # {} /\ Slots \subseteq Nat
ASSUME PathsAssumption == Paths # {}
ASSUME InputsAssumption == Inputs \subseteq [Slots -> [path : Paths, ttl : Nat]]
ASSUME BatchesAssumption == Batches \subseteq [Slots -> Verdict]
ASSUME ConfigsAssumption == Configs # {} /\ Configs \subseteq [Paths -> Nat]
ASSUME TimesAssumption ==
    /\ Second \in Nat \ {0}
    /\ DefaultTTL \in Nat /\ PendingTTL \in Nat
    /\ MaxTime \in Nat /\ MaxFaults \in Nat
ASSUME NamesAssumption == NoCall \notin Calls /\ SessionPolicy \notin OperatorPolicies

VARIABLES
    now,        \* the clock, the same for the authorizer and OpenBao
    caps,       \* the configuration this process was started with
    requests,   \* table grant_requests
    grants,     \* table grants, by the item (item_id is UNIQUE)
    policy,     \* OpenBao: the blocks of each session policy
    attached,   \* OpenBao: the policy names on each Session Identity
    holder,     \* session locks, see KeyedMutex
    call,       \* what each goroutine is doing, and its local variables
    diverged,   \* history: a failed write or a crash may have left policy stale
    faults      \* history: faults so far

stored == <<requests, grants>>
openbao == <<policy, attached>>
vars == <<now, caps, requests, grants, policy, attached, holder, call, diverged, faults>>

Lock == INSTANCE KeyedMutex WITH Keys <- Entities, NoProc <- NoCall
-----------------------------------------------------------------------------
(* Session policies.  A policy is the expiration of each block, 0 for none. *)

NoBlocks == [i \in Items |-> 0]

\* sessionPolicy: the policy expires with its last block.
PolicyElapsed(blocks) == \A i \in Items : blocks[i] <= now

\* OpenBao ignores elapsed blocks and drops elapsed policies.
LiveBlock(e, i) == policy[e][i] > now /\ ~PolicyElapsed(policy[e])

\* Mutant: the query forgets the session, or the status.
ActiveAnywhere(e, i) == grants[i].state = "active" /\ grants[i].exp > now
ActiveOrRevoked(e, i) == grants[i].state # "none" /\ grants[i].exp > now /\ Owner[i[1]] = e

\* ActiveGrants(entity, now)
Active(e, i) ==
    /\ grants[i].state = "active"
    /\ grants[i].exp > now
    /\ Owner[i[1]] = e

\* CapabilitiesSelf of the session's token, for a path.
Covered(e, p) ==
    /\ SessionPolicy \in attached[e]
    /\ \E i \in Items : LiveBlock(e, i) /\ requests[i[1]].items[i[2]].path = p

-----------------------------------------------------------------------------
(* Resolution, under the configuration of the running process.              *)

Lesser(a, b) == IF a < b THEN a ELSE b

\* Policy expirations are whole seconds, and so are the TTLs people ask for.
WholeSeconds(t) == t - (t % Second)
TooShort(ttl) == 0 < ttl /\ ttl < Second

\* Resolve refuses paths no rule covers, and TTLs below a second or, once
\* truncated, above the rule's maximum.
Resolves(input) ==
    /\ caps[input.path] > 0
    /\ ~TooShort(input.ttl)
    /\ WholeSeconds(input.ttl) <= caps[input.path]

ResolvedTTL(input) ==
    Lesser(IF input.ttl = 0 THEN DefaultTTL ELSE WholeSeconds(input.ttl), caps[input.path])

\* approvalTTL: the stored TTL, capped by the present configuration, or less.
TTLCap(item) == Lesser(item.ttl, caps[item.path])
ApprovalTTL(item, verdict) ==
    IF verdict.ttl = 0 THEN TTLCap(item) ELSE WholeSeconds(verdict.ttl)

Filed(r) == \E k \in Slots : requests[r].items[k].state # "absent"
HasPending(items) == \E k \in Slots : items[k].state = "pending"
-----------------------------------------------------------------------------
(* Goroutines.                                                              *)

PCs == {"idle", "insert", "decideLock", "decideRead", "decideWrite", "attachRead",
        "attachSet", "decideStore", "revokeLock", "revokeRead", "revokeWrite",
        "revokeStore", "restoreRead", "restoreWrite", "unlock"}

Locked == PCs \ {"idle", "insert", "decideLock", "revokeLock"}

AnyRequest == CHOOSE r \in Requests : TRUE
AnySlot == CHOOSE k \in Slots : TRUE
AnyPath == CHOOSE p \in Paths : TRUE
Absent == [k \in Slots |-> [state |-> "absent", path |-> AnyPath, ttl |-> 0, exp |-> 0]]
NoBatch == [k \in Slots |-> [verdict |-> "skip", ttl |-> 0]]

\* The locals of a goroutine that serves no call.
Idle == [pc |-> "idle", req |-> AnyRequest, slot |-> AnySlot, batch |-> NoBatch,
         items |-> Absent, until |-> 0, want |-> NoBlocks, names |-> {}]

At(c, label) == call[c].pc = label
Become(c, locals) == call' = [call EXCEPT ![c] = locals]
Goto(c, label) == Become(c, [call[c] EXCEPT !.pc = label])

\* A goroutine on its way to one of the last steps needs only its session.
Finishing(c, label) == [Idle EXCEPT !.pc = label, !.req = call[c].req]
\* Mutant: a return without the deferred unlock.
FinishHolding(c) == Become(c, Idle)
Finish(c) == Become(c, Finishing(c, "unlock"))
Restore(c) == Become(c, Finishing(c, "restoreRead"))

Session(c) == Owner[call[c].req]

\* One more fault of this kind may happen.
Fault(kind) == kind \in Faults /\ faults < MaxFaults /\ faults' = faults + 1
-----------------------------------------------------------------------------
Init ==
    /\ now = 0
    /\ caps \in Configs
    /\ requests = [r \in Requests |-> [until |-> 0, items |-> Absent]]
    /\ grants = [i \in Items |-> [state |-> "none", exp |-> 0]]
    /\ policy = [e \in Entities |-> NoBlocks]
    /\ attached = [e \in Entities |-> {}]
    /\ Lock!MutexInit
    /\ call = [c \in Calls |-> Idle]
    /\ diverged = [e \in Entities |-> FALSE]
    /\ faults = 0
-----------------------------------------------------------------------------
(* CreateRequest: resolve every item, ask OpenBao what the token can do     *)
(* already, then insert.  No lock: the answer may be stale by then.         *)

Duplicate(input, k) ==
    \E j \in Slots : j < k /\ input[j].path = input[k].path /\ Resolves(input[j])

FiledItem(input, k, covered) ==
    LET accepted == Resolves(input[k]) /\ ~Duplicate(input, k)
    IN  [state |-> CASE ~accepted -> "refused"
                     [] accepted /\ input[k].path \in covered -> "already_granted"
                     [] OTHER -> "pending",
         path |-> input[k].path,
         ttl |-> IF accepted THEN ResolvedTTL(input[k]) ELSE 0,
         exp |-> 0]

\* When capabilities-self fails the items stay pending.
FileRequest(c, r, input) ==
    /\ At(c, "idle")
    /\ ~Filed(r)
    /\ \A d \in Calls : ~(At(d, "insert") /\ call[d].req = r)
    /\ now + PendingTTL <= MaxTime
    /\ \E covered \in {{p \in Paths : Covered(Owner[r], p)}, {}} :
          /\ IF covered = {p \in Paths : Covered(Owner[r], p)}
             THEN UNCHANGED faults ELSE Fault("refuse")
          /\ Become(c, [Idle EXCEPT !.pc = "insert", !.req = r, !.until = now + PendingTTL,
                                    !.items = [k \in Slots |-> FiledItem(input, k, covered)]])
    /\ UNCHANGED <<now, caps, stored, openbao, holder, diverged>>

InsertRequest(c) ==
    /\ At(c, "insert")
    /\ \/ /\ requests' = [requests EXCEPT ![call[c].req] =
                             [until |-> call[c].until, items |-> call[c].items]]
          /\ UNCHANGED faults
       \/ Fault("store") /\ UNCHANGED requests
    /\ Become(c, Idle)
    /\ UNCHANGED <<now, caps, grants, openbao, holder, diverged>>
-----------------------------------------------------------------------------
(* OpenBao policy writes, shared by decide, revoke and restorePolicy.       *)

\* writePolicy deletes a policy without blocks; OpenBao refuses to write one
\* that has elapsed already.
Accepted(blocks) == blocks = NoBlocks \/ ~PolicyElapsed(blocks)

\* The response says the policy was written.
WriteSucceeds(c) ==
    /\ Accepted(call[c].want)
    /\ policy' = [policy EXCEPT ![Session(c)] = call[c].want]
    /\ diverged' = [diverged EXCEPT ![Session(c)] = FALSE]
    /\ UNCHANGED faults

\* OpenBao is unreachable or refuses: an error, and nothing written.
WriteRefused ==
    /\ UNCHANGED policy
    /\ Fault("refuse")

\* OpenBao refuses an elapsed policy.
WriteElapsed(c) ==
    /\ ~Accepted(call[c].want)
    /\ UNCHANGED <<policy, faults>>

\* Written, but the caller's deadline passes or the connection breaks before
\* the response arrives: the client returns an error all the same.
WriteLost(c) ==
    /\ Accepted(call[c].want)
    /\ policy' = [policy EXCEPT ![Session(c)] = call[c].want]
    /\ diverged' = [diverged EXCEPT ![Session(c)] = TRUE]
    /\ Fault("lost")

\* A call's own write, which moves on only after a success.
PolicyWrite(c, next) ==
    /\ \/ WriteSucceeds(c) /\ Goto(c, next)
       \/ WriteLost(c) /\ Finish(c)
       \/ /\ WriteRefused \/ WriteElapsed(c)
          /\ Finish(c)
          /\ UNCHANGED diverged
    /\ UNCHANGED <<now, caps, stored, attached, holder>>
-----------------------------------------------------------------------------
(* Decide.                                                                  *)

StartDecide(c, a, r, batch) ==
    /\ At(c, "idle")
    /\ Filed(r)
    /\ a # Owner[r]
    /\ batch # NoBatch
    /\ Become(c, [Idle EXCEPT !.pc = "decideLock", !.req = r, !.batch = batch])
    /\ UNCHANGED <<now, caps, stored, openbao, holder, diverged, faults>>

DecideLock(c) ==
    /\ At(c, "decideLock")
    /\ Lock!Acquire(c, Session(c))
    /\ Goto(c, "decideRead")
    /\ UNCHANGED <<now, caps, stored, openbao, diverged, faults>>

\* Mutants: no check that items are pending still, or of the Approver's TTL.
DecidableAgain(request, batch) ==
    \A k \in Slots : batch[k].verdict # "skip" =>
        now < request.until /\ request.items[k].state \in {"pending", "rejected"}
DecidableLonger(request, batch) ==
    \A k \in Slots : batch[k].verdict # "skip" =>
        request.items[k].state = "pending" /\ now < request.until

\* Every decision must find its item pending before the deadline, and may only
\* shorten its TTL; otherwise the whole batch fails.
Decidable(request, batch) ==
    \A k \in Slots : batch[k].verdict # "skip" =>
        /\ request.items[k].state = "pending"
        /\ now < request.until
        /\ batch[k].verdict = "reject" => batch[k].ttl = 0
        /\ batch[k].verdict = "approve" /\ caps[request.items[k].path] > 0
              => ~TooShort(batch[k].ttl) /\ batch[k].ttl <= TTLCap(request.items[k])

Approves(request, batch, k) ==
    batch[k].verdict = "approve" /\ caps[request.items[k].path] > 0

\* Mutant: an approved item is given the status of its Grant.
DecidedActive(request, batch, k) ==
    IF Approves(request, batch, k)
    THEN [request.items[k] EXCEPT !.state = "active",
              !.exp = WholeSeconds(now + ApprovalTTL(request.items[k], batch[k]))]
    ELSE request.items[k]

DecidedItem(request, batch, k) ==
    LET item == request.items[k]
    IN  CASE batch[k].verdict = "skip" -> item
          [] batch[k].verdict = "reject" -> [item EXCEPT !.state = "rejected"]
          [] Approves(request, batch, k) ->
                [item EXCEPT !.state = "approved",
                             !.exp = WholeSeconds(now + ApprovalTTL(item, batch[k]))]
          [] OTHER -> [item EXCEPT !.state = "refused"]

\* The session's active Grants plus the new approvals of request r.
BlocksWith(r, items, batch) ==
    [i \in Items |->
        CASE i[1] = r /\ Approves(requests[r], batch, i[2]) -> items[i[2]].exp
          [] Active(Owner[r], i) -> grants[i].exp
          [] OTHER -> 0]

DecideRead(c) ==
    LET r == call[c].req
        batch == call[c].batch
        items == [k \in Slots |-> DecidedItem(requests[r], batch, k)]
    IN  /\ At(c, "decideRead")
        /\ \/ /\ Decidable(requests[r], batch)
              /\ IF \E k \in Slots : Approves(requests[r], batch, k)
                 THEN Become(c, [call[c] EXCEPT !.pc = "decideWrite", !.items = items,
                                                !.want = BlocksWith(r, items, batch)])
                 ELSE Become(c, [call[c] EXCEPT !.pc = "decideStore", !.items = items])
              /\ UNCHANGED faults
           \/ /\ ~Decidable(requests[r], batch)
              /\ Finish(c)
              /\ UNCHANGED faults
           \/ Fault("store") /\ Finish(c)
        /\ UNCHANGED <<now, caps, stored, openbao, holder, diverged>>

DecideWrite(c) == At(c, "decideWrite") /\ PolicyWrite(c, "attachRead")

\* attachPolicy reads the entity's policies and writes the list back with the
\* session policy appended, unless it is there already.
AttachRead(c) ==
    /\ At(c, "attachRead")
    /\ \/ /\ IF SessionPolicy \in attached[Session(c)]
             THEN Goto(c, "decideStore")
             ELSE Become(c, [call[c] EXCEPT !.pc = "attachSet", !.names = attached[Session(c)]])
          /\ UNCHANGED faults
       \/ Fault("refuse") /\ Restore(c)
    /\ UNCHANGED <<now, caps, stored, openbao, holder, diverged>>

\* Mutant: an error of attachPolicy is only logged.
AttachSetLogged(c) ==
    /\ At(c, "attachSet")
    /\ \/ /\ attached' = [attached EXCEPT ![Session(c)] = call[c].names \cup {SessionPolicy}]
          /\ UNCHANGED faults
       \/ UNCHANGED attached /\ Fault("refuse")
    /\ Goto(c, "decideStore")
    /\ UNCHANGED <<now, caps, stored, policy, holder, diverged>>

AttachSet(c) ==
    LET written == [attached EXCEPT ![Session(c)] = call[c].names \cup {SessionPolicy}]
    IN  /\ At(c, "attachSet")
        /\ \/ attached' = written /\ Goto(c, "decideStore") /\ UNCHANGED faults
           \/ UNCHANGED attached /\ Fault("refuse") /\ Restore(c)
           \/ attached' = written /\ Fault("lost") /\ Restore(c)
        /\ UNCHANGED <<now, caps, stored, policy, holder, diverged>>

\* The batch of c turned item k into a Grant.
Created(c, k) ==
    call[c].batch[k].verdict = "approve" /\ call[c].items[k].state = "approved"

\* Mutant: no compensation.
LeaveDecide(c) == Finish(c)

\* After a failed store the policy is rewritten, if the batch wrote it.
UndoDecide(c) == IF \E k \in Slots : Created(c, k) THEN Restore(c) ELSE Finish(c)

\* Mutant: the item list is replaced without asking for pending items.
DecideStoreBlindly(c) ==
    LET r == call[c].req
        items == call[c].items
    IN  /\ At(c, "decideStore")
        /\ requests' = [requests EXCEPT ![r].items = items]
        /\ grants' = [i \in Items |->
              IF i[1] = r /\ Created(c, i[2])
              THEN [state |-> "active", exp |-> items[i[2]].exp]
              ELSE grants[i]]
        /\ Finish(c)
        /\ UNCHANGED <<now, caps, openbao, holder, diverged, faults>>

\* DecideItems replaces the whole item list, provided some item is pending
\* still, and inserts the new Grants, in one transaction.  Only the sweep can
\* have settled them, and it settles all: that is a conflict.
DecideStore(c) ==
    LET r == call[c].req
        items == call[c].items
    IN  /\ At(c, "decideStore")
        /\ \/ /\ HasPending(requests[r].items)
              /\ requests' = [requests EXCEPT ![r].items = items]
              /\ grants' = [i \in Items |->
                    IF i[1] = r /\ Created(c, i[2])
                    THEN [state |-> "active", exp |-> items[i[2]].exp]
                    ELSE grants[i]]
              /\ Finish(c)
              /\ UNCHANGED faults
           \/ /\ ~HasPending(requests[r].items)
              /\ UndoDecide(c)
              /\ UNCHANGED <<stored, faults>>
           \/ /\ Fault("store")
              /\ UndoDecide(c)
              /\ UNCHANGED stored
        /\ UNCHANGED <<now, caps, openbao, holder, diverged>>
-----------------------------------------------------------------------------
(* Revoke.                                                                  *)

StartRevoke(c, i) ==
    /\ At(c, "idle")
    /\ grants[i].state # "none"
    /\ Become(c, [Idle EXCEPT !.pc = "revokeLock", !.req = i[1], !.slot = i[2]])
    /\ UNCHANGED <<now, caps, stored, openbao, holder, diverged, faults>>

\* Mutant: revocations do not wait for decisions of the session.
RevokeUnlocked(c) ==
    /\ At(c, "revokeLock")
    /\ holder' = [holder EXCEPT ![Session(c)] = c]
    /\ Goto(c, "revokeRead")
    /\ UNCHANGED <<now, caps, stored, openbao, diverged, faults>>

RevokeLock(c) ==
    /\ At(c, "revokeLock")
    /\ Lock!Acquire(c, Session(c))
    /\ Goto(c, "revokeRead")
    /\ UNCHANGED <<now, caps, stored, openbao, diverged, faults>>

Target(c) == <<call[c].req, call[c].slot>>

\* The session's active Grants but for i.
BlocksWithout(e, i) ==
    [j \in Items |-> IF Active(e, j) /\ j # i THEN grants[j].exp ELSE 0]

RevokeRead(c) ==
    /\ At(c, "revokeRead")
    /\ \/ /\ Active(Session(c), Target(c))
          /\ Become(c, [call[c] EXCEPT !.pc = "revokeWrite",
                                       !.want = BlocksWithout(Session(c), Target(c))])
          /\ UNCHANGED faults
       \/ ~Active(Session(c), Target(c)) /\ Finish(c) /\ UNCHANGED faults
       \/ Fault("store") /\ Finish(c)
    /\ UNCHANGED <<now, caps, stored, openbao, holder, diverged>>

RevokeWrite(c) == At(c, "revokeWrite") /\ PolicyWrite(c, "revokeStore")

\* RevokeGrant marks the Grant and its item in one transaction.  The Grant is
\* active still, or this step could not be taken: revocations of a session are
\* serialized, so ErrStatusChanged does not happen here.
RevokeStore(c) ==
    LET i == Target(c)
    IN  /\ At(c, "revokeStore")
        /\ \/ /\ grants[i].state = "active"
              /\ grants' = [grants EXCEPT ![i].state = "revoked"]
              /\ requests' = [requests EXCEPT ![i[1]].items[i[2]].state = "revoked"]
              /\ Finish(c)
              /\ UNCHANGED faults
           \/ Fault("store") /\ Restore(c) /\ UNCHANGED stored
        /\ UNCHANGED <<now, caps, openbao, holder, diverged>>
-----------------------------------------------------------------------------
(* restorePolicy: rewrite the policy from the stored active Grants.  Its    *)
(* own failures are only logged.                                            *)

RestoreRead(c) ==
    LET e == Session(c)
    IN  /\ At(c, "restoreRead")
        /\ \/ /\ Become(c, [call[c] EXCEPT !.pc = "restoreWrite",
                  !.want = [i \in Items |-> IF Active(e, i) THEN grants[i].exp ELSE 0]])
              /\ UNCHANGED <<faults, diverged>>
           \/ /\ Fault("store")
              /\ Finish(c)
              /\ diverged' = [diverged EXCEPT ![e] = TRUE]
        /\ UNCHANGED <<now, caps, stored, openbao, holder>>

RestoreWrite(c) ==
    /\ At(c, "restoreWrite")
    /\ \/ WriteSucceeds(c)
       \/ WriteLost(c)
       \/ /\ WriteRefused \/ WriteElapsed(c)
          /\ diverged' = [diverged EXCEPT ![Session(c)] = TRUE]
    /\ Finish(c)
    /\ UNCHANGED <<now, caps, stored, attached, holder>>

Unlock(c) ==
    /\ At(c, "unlock")
    /\ Lock!Release(c, Session(c))
    /\ Become(c, Idle)
    /\ UNCHANGED <<now, caps, stored, openbao, diverged, faults>>
-----------------------------------------------------------------------------
(* The sweep, time, restarts and operators.                                 *)

\* Mutant: the sweep looks for requests nobody has decided anything of.
ExpireUntouched ==
    /\ requests' = [r \in Requests |->
          IF requests[r].until <= now /\ \A k \in Slots : requests[r].items[k].state = "pending"
          THEN [requests[r] EXCEPT !.items =
                  [k \in Slots |-> [requests[r].items[k] EXCEPT !.state = "expired"]]]
          ELSE requests[r]]
    /\ UNCHANGED <<now, caps, grants, openbao, holder, call, diverged, faults>>

\* ExpirePendingItems, one transaction over all requests past their deadline.
ExpirePending ==
    /\ requests' = [r \in Requests |->
          [requests[r] EXCEPT !.items = [k \in Slots |->
              IF requests[r].until <= now /\ requests[r].items[k].state = "pending"
              THEN [requests[r].items[k] EXCEPT !.state = "expired"]
              ELSE requests[r].items[k]]]]
    /\ UNCHANGED <<now, caps, grants, openbao, holder, call, diverged, faults>>

Tick ==
    /\ now < MaxTime
    /\ now' = now + 1
    /\ UNCHANGED <<caps, stored, openbao, holder, call, diverged, faults>>

\* A graceful restart waits for the calls in flight; the new process may have
\* been given another configuration.
Restart ==
    /\ \A c \in Calls : At(c, "idle")
    /\ caps' \in Configs
    /\ UNCHANGED <<now, stored, openbao, holder, call, diverged, faults>>

\* A crash loses the goroutines and their locks; nothing is reconciled when
\* the next process starts.
Crash ==
    /\ Fault("crash")
    /\ call' = [c \in Calls |-> Idle]
    /\ holder' = [e \in Entities |-> NoCall]
    /\ caps' \in Configs
    /\ diverged' = [e \in Entities |-> diverged[e] \/ holder[e] # NoCall]
    /\ UNCHANGED <<now, stored, openbao>>

\* An operator edits the entity's policies, leaving the session policy alone.
OperatorSet(e, names) ==
    /\ attached' = [attached EXCEPT ![e] = names \cup (@ \cap {SessionPolicy})]
    /\ UNCHANGED <<now, caps, stored, policy, holder, call, diverged, faults>>

Step(c) ==
    \/ InsertRequest(c)
    \/ DecideLock(c) \/ DecideRead(c) \/ DecideWrite(c)
    \/ AttachRead(c) \/ AttachSet(c) \/ DecideStore(c)
    \/ RevokeLock(c) \/ RevokeRead(c) \/ RevokeWrite(c) \/ RevokeStore(c)
    \/ RestoreRead(c) \/ RestoreWrite(c)
    \/ Unlock(c)

Next ==
    \/ \E c \in Calls :
          \/ \E r \in Requests, input \in Inputs : FileRequest(c, r, input)
          \/ \E a \in Approvers, r \in Requests, batch \in Batches : StartDecide(c, a, r, batch)
          \/ \E i \in Items : StartRevoke(c, i)
          \/ Step(c)
    \/ ExpirePending
    \/ Tick
    \/ Restart
    \/ Crash
    \/ \E e \in Entities, names \in SUBSET OperatorPolicies : OperatorSet(e, names)

Spec == Init /\ [][Next]_vars

(***************************************************************************)
(* Time passes, the sweep's ticker fires, and a goroutine that serves a    *)
(* call takes its next step: its OpenBao calls and store transactions      *)
(* return because both clients have deadlines.  sync.Mutex does not starve *)
(* waiters, hence strong fairness for taking the session lock.             *)
(***************************************************************************)
Fairness ==
    /\ WF_vars(Tick)
    /\ WF_vars(ExpirePending)
    /\ \A c \in Calls :
          /\ SF_vars(DecideLock(c) \/ RevokeLock(c))
          /\ WF_vars(Step(c))

FairSpec == Spec /\ Fairness
-----------------------------------------------------------------------------
ItemType == [state : ItemStates, path : Paths, ttl : Nat, exp : Nat]

CallType == [pc : PCs, req : Requests, slot : Slots, batch : [Slots -> Verdict],
             items : [Slots -> ItemType], until : Nat, want : [Items -> Nat],
             names : SUBSET (OperatorPolicies \cup {SessionPolicy})]

\* Every variable has its type; the item states are those of store/grants.go.
TypeOK ==
    /\ now \in Nat /\ caps \in [Paths -> Nat] /\ faults \in Nat
    /\ requests \in [Requests -> [until : Nat, items : [Slots -> ItemType]]]
    /\ grants \in [Items -> [state : {"none", "active", "revoked"}, exp : Nat]]
    /\ policy \in [Entities -> [Items -> Nat]]
    /\ attached \in [Entities -> SUBSET (OperatorPolicies \cup {SessionPolicy})]
    /\ holder \in [Entities -> Calls \cup {NoCall}]
    /\ call \in [Calls -> CallType]
    /\ diverged \in [Entities -> BOOLEAN]

\* The goroutine that is between lockSession and unlock is the lock's owner.
LockHeld ==
    \A c \in Calls, e \in Entities :
        holder[e] = c <=> call[c].pc \in Locked /\ Session(c) = e

\* An item says "approved" or "revoked" exactly when the Grant row says
\* active or revoked, with the same expiration, although DecideItems writes
\* the whole item list back from a copy read several OpenBao calls earlier.
ItemsAgreeWithGrants ==
    \A r \in Requests, k \in Slots :
        LET item == requests[r].items[k]
            grant == grants[<<r, k>>]
        IN  /\ item.state = "approved" <=> grant.state = "active"
            /\ item.state = "revoked" <=> grant.state = "revoked"
            /\ grant.state # "none" => item.exp = grant.exp

\* Access that was revoked never comes back, whatever fails or crashes later:
\* no session policy holds a block for a revoked Grant ("access ends at once").
RevokedStaysDead ==
    \A i \in Items : grants[i].state = "revoked" => policy[Owner[i[1]]][i] = 0

\* Between calls the session gets exactly what is recorded: its live blocks
\* are its active Grants, with their expirations, unless a policy write ended
\* in doubt or failed while restoring, or the process crashed, since the last
\* write that succeeded.
PolicyMatchesGrants ==
    \A e \in Entities : holder[e] = NoCall /\ ~diverged[e] =>
        \A i \in Items :
            /\ LiveBlock(e, i) <=> Active(e, i)
            /\ Active(e, i) => policy[e][i] = grants[i].exp

\* A session policy only ever holds blocks for the session's own items.
NoForeignBlocks ==
    \A e \in Entities, i \in Items : policy[e][i] > 0 => Owner[i[1]] = e

\* A recorded Grant can be used: its policy's name is on the Session Identity,
\* whichever call of the session attached it and however earlier calls failed.
GrantsAreAttached ==
    \A i \in Items : grants[i].state # "none" => SessionPolicy \in attached[Owner[i[1]]]

\* No approval after the deadline, and none for longer than the item was
\* resolved for, whatever the Approver or a later configuration says.
WithinTerms(r, k, expiry) ==
    expiry < requests[r].until + requests[r].items[k].ttl /\ expiry % Second = 0
GrantsAreBounded ==
    \A r \in Requests, k \in Slots :
        grants[<<r, k>>].state # "none" => WithinTerms(r, k, grants[<<r, k>>].exp)

\* The stored items and Grants implement the abstract Lifecycle.
StatesOfItems == [r \in Requests |-> [k \in Slots |-> requests[r].items[k].state]]
StatesOfGrants == [i \in Items |-> grants[i].state]
Abstract == INSTANCE Lifecycle WITH state <- StatesOfItems, grant <- StatesOfGrants
ImplementsLifecycle == Abstract!LifecycleSpec

\* Every call returns: no failure path keeps a session lock.
CallsReturn == \A c \in Calls : ~At(c, "idle") ~> At(c, "idle")

\* Every item stops being pending: an Approver decides it or the sweep does.
PendingSettles ==
    \A r \in Requests, k \in Slots :
        requests[r].items[k].state = "pending" ~> requests[r].items[k].state # "pending"

\* README, "Approve": "If the policy write fails, nothing changes; if storing
\* fails, the policy is rewritten from the stored Grants".  So between calls
\* OpenBao gives no access but that of recorded, active Grants.
OnlyRecordedAccess ==
    \A e \in Entities, i \in Items :
        holder[e] = NoCall /\ LiveBlock(e, i) => Active(e, i)

\* README: "the authorizer appends the name and keeps every policy already on
\* the entity": only operators change the operators' policies.
KeepsOperatorPolicies ==
    [][ \/ \E e \in Entities, names \in SUBSET OperatorPolicies : OperatorSet(e, names)
        \/ \A e \in Entities : attached'[e] \ {SessionPolicy} = attached[e] \ {SessionPolicy}
      ]_attached
-----------------------------------------------------------------------------
(* The inductive invariant.  What a goroutine holds in its locals is true   *)
(* of the store and of OpenBao for as long as it holds the session lock,    *)
(* but for what the sweep may have done to the request meanwhile.           *)

Deciding == {"decideLock", "decideRead", "decideWrite", "attachRead", "attachSet", "decideStore"}
Copying == {"decideWrite", "attachRead", "attachSet", "decideStore"}
Writing == {"decideWrite", "revokeWrite", "restoreWrite"}

\* A request about to be inserted is new, and only one goroutine inserts it.
InsertsAreFresh ==
    \A c \in Calls : At(c, "insert") =>
        /\ ~Filed(call[c].req)
        /\ \A k \in Slots : call[c].items[k].state \in {"pending", "refused", "already_granted"}
        /\ \A d \in Calls : At(d, "insert") /\ call[d].req = call[c].req => d = c

\* A decide call works on a request that exists.
DecidedAreFiled == \A c \in Calls : call[c].pc \in Deciding => Filed(call[c].req)

\* The copy of an item that a batch takes through its OpenBao calls: the item
\* itself if the batch leaves it alone, and else its verdict on a pending item.
CopyOfItem(c, k) ==
    LET item == requests[call[c].req].items[k]
        copy == call[c].items[k]
    IN  IF call[c].batch[k].verdict = "skip"
        THEN copy = item
        ELSE /\ item.state = "pending"
             /\ copy.state \in {"approved", "rejected", "refused"}
             /\ copy.state = "approved" => call[c].batch[k].verdict = "approve"
             /\ copy.path = item.path /\ copy.ttl = item.ttl

\* Under the lock only the sweep changes the request, and then no item of it is
\* pending any more (what DecideItems tells from has_pending).
CopiesAreCurrent ==
    \A c \in Calls : call[c].pc \in Copying =>
        \/ ~HasPending(requests[call[c].req].items)
        \/ \A k \in Slots : CopyOfItem(c, k)

\* A policy about to be written has no block for a revoked Grant of the
\* session, none for the Grant being revoked, and none of another session.
WantsAreClean ==
    \A c \in Calls : call[c].pc \in Writing =>
        /\ \A i \in Items :
              call[c].want[i] # 0 => Owner[i[1]] = Session(c) /\ grants[i].state # "revoked"
        /\ At(c, "revokeWrite") => call[c].want[Target(c)] = 0

\* The Grant is gone from OpenBao before it is recorded as revoked.
RevokedFirstInOpenBao ==
    \A c \in Calls : At(c, "revokeStore") => policy[Session(c)][Target(c)] = 0

\* The session policy is on the entity before the Grants are recorded.
AttachedFirst ==
    \A c \in Calls : At(c, "decideStore") /\ (\E k \in Slots : Created(c, k))
        => SessionPolicy \in attached[Session(c)]

GrantsInv ==
    /\ TypeOK
    /\ LockHeld
    /\ InsertsAreFresh
    /\ DecidedAreFiled
    /\ CopiesAreCurrent
    /\ WantsAreClean
    /\ RevokedFirstInOpenBao
    /\ AttachedFirst
    /\ ItemsAgreeWithGrants
    /\ RevokedStaysDead
    /\ NoForeignBlocks
    /\ GrantsAreAttached

(***************************************************************************)
(* For the policy and the record to agree, and for expirations to be       *)
(* bounded, more has to be true of a goroutine inside the lock: of the     *)
(* policy it is about to write, of the one it has written, and of the      *)
(* approvals it has not recorded yet.                                      *)
(***************************************************************************)

\* What the policy of e may say of i: as recorded, or nothing in effect.
Fits(e, i, expiry) == IF Active(e, i) THEN expiry = grants[i].exp ELSE expiry <= now

\* The same while c has approvals to record: those are ahead of the record.
FitsAhead(c, i, expiry) ==
    IF i[1] = call[c].req /\ Created(c, i[2])
    THEN expiry = call[c].items[i[2]].exp
    ELSE Fits(Session(c), i, expiry)

\* A policy about to be written fits, but for the Grant being revoked.
WantsFit ==
    \A c \in Calls, i \in Items :
        /\ At(c, "decideWrite") => FitsAhead(c, i, call[c].want[i])
        /\ At(c, "restoreWrite") => Fits(Session(c), i, call[c].want[i])
        /\ At(c, "revokeWrite") /\ i # Target(c) => Fits(Session(c), i, call[c].want[i])

\* A policy no write of which failed fits, as far as the goroutine inside the
\* lock, if there is one, has got.  One that restores it expects nothing of it.
PoliciesFit ==
    /\ \A e \in Entities, i \in Items :
          holder[e] = NoCall /\ ~diverged[e] => Fits(e, i, policy[e][i])
    /\ \A c \in Calls, i \in Items : ~diverged[Session(c)] =>
          /\ call[c].pc \in {"decideRead", "decideWrite", "revokeRead", "revokeWrite", "unlock"}
                => Fits(Session(c), i, policy[Session(c)][i])
          /\ call[c].pc \in {"attachRead", "attachSet", "decideStore"}
                => FitsAhead(c, i, policy[Session(c)][i])
          /\ At(c, "revokeStore") /\ i # Target(c) => Fits(Session(c), i, policy[Session(c)][i])

\* Approvals are bounded before they are recorded.
CopiesAreBounded ==
    \A c \in Calls, k \in Slots :
        call[c].pc \in Copying /\ Created(c, k) =>
            WithinTerms(call[c].req, k, call[c].items[k].exp)

RecordInv ==
    /\ GrantsInv
    /\ WantsFit
    /\ PoliciesFit
    /\ CopiesAreBounded
    /\ GrantsAreBounded
=============================================================================
