------------------------- MODULE GrantsSafety_proofs -------------------------
(***************************************************************************)
(* GrantsInv is inductive: one lemma per conjunct, each with one step per  *)
(* group of actions.  The safety properties follow from it, and so does    *)
(* the refinement of Lifecycle.  RecordInv is inductive on top of it.      *)
(***************************************************************************)
EXTENDS GrantsSteps_proofs

\* The steps of goroutine c.
Acts(c) == Inside(c) \/ Outside(c) \/ DecideLock(c) \/ RevokeLock(c) \/ Unlock(c)

LEMMA Cases ==
    ASSUME [Next]_vars
    PROVE  (\E c \in Calls : Acts(c)) \/ Environment \/ Crash \/ UNCHANGED vars
  BY NextCases DEF Acts

\* A step of c leaves the locals of the others alone.
LEMMA OthersKeep ==
    ASSUME TypeOK, NEW c \in Calls, Acts(c), NEW d \in Calls \ {c}
    PROVE  call'[d] = call[d]
  BY InsideEffect, OutsideEffect, LockEffect, UnlockEffect DEF Acts, Others

\* Who is at which program counter after a step of its own.
LEMMA Arrivals ==
    ASSUME TypeOK, NEW c \in Calls, Acts(c)
    PROVE  /\ call'[c].pc = "insert" =>
                 \E r \in Requests, input \in Inputs : FileRequest(c, r, input)
           /\ call'[c].pc = "decideLock" =>
                 \E a \in Approvers, r \in Requests, batch \in Batches : StartDecide(c, a, r, batch)
           /\ call'[c].pc = "decideRead" => DecideLock(c)
           /\ call'[c].pc = "decideWrite" => DecideRead(c)
           /\ call'[c].pc = "attachRead" => DecideWrite(c)
           /\ call'[c].pc = "attachSet" => AttachRead(c) \/ AttachSet(c)
           /\ call'[c].pc = "decideStore" => DecideRead(c) \/ AttachRead(c) \/ AttachSet(c)
           /\ call'[c].pc = "revokeWrite" => RevokeRead(c)
           /\ call'[c].pc = "revokeStore" => RevokeWrite(c)
           /\ call'[c].pc = "restoreWrite" => RestoreRead(c)
  <1>1. CASE Outside(c)
    BY <1>1, FileEffect, InsertEffect, StartEffect DEF Outside
  <1>2. CASE DecideLock(c) \/ RevokeLock(c)
    BY <1>2, LockEffect DEF DecideLock, RevokeLock, At
  <1>3. CASE Unlock(c)
    BY <1>3, UnlockEffect
  <1>4. CASE DecideRead(c)
    BY <1>4, DecideReadEffect
  <1>5. CASE DecideWrite(c) \/ RevokeWrite(c)
    BY <1>5, WriteEffect DEF DecideWrite, RevokeWrite, At
  <1>6. CASE AttachRead(c) \/ AttachSet(c)
    BY <1>6, AttachEffect
  <1>7. CASE DecideStore(c) \/ RevokeStore(c)
    BY <1>7, DecideStoreEffect, RevokeStoreEffect
  <1>8. CASE RevokeRead(c)
    BY <1>8, RevokeReadEffect
  <1>9. CASE RestoreRead(c) \/ RestoreWrite(c)
    BY <1>9, RestoreEffect DEF RestoreRead, RestoreWrite, At
  <1>10. QED
    BY <1>1, <1>2, <1>3, <1>4, <1>5, <1>6, <1>7, <1>8, <1>9 DEF Acts, Inside
-----------------------------------------------------------------------------
(* The locks.                                                               *)

LEMMA LockHeldStep ==
    ASSUME TypeOK, LockHeld, [Next]_vars
    PROVE  LockHeld'
  <1>0. NoCall \notin Calls
    BY NamesAssumption
  <1>1. CASE Crash
    BY <1>0, <1>1, CrashEffect DEF LockHeld, Locked, PCs
  <1>2. CASE Environment
    BY <1>2, EnvironmentEffect DEF LockHeld, Session
  <1>3. CASE UNCHANGED vars
    BY <1>3 DEF vars, LockHeld, Session
  <1>4. ASSUME NEW c \in Calls, Acts(c), NEW d \in Calls, NEW e \in Entities
        PROVE  holder'[e] = d <=> call'[d].pc \in Locked /\ Session(d)' = e
    <2>0. holder \in [Entities -> Calls \cup {NoCall}] /\ Session(c) \in Entities
      BY SessionType DEF TypeOK
    <2>1. holder[e] = d <=> call[d].pc \in Locked /\ Session(d) = e
      BY DEF LockHeld
    <2>2. d # c => call'[d] = call[d] /\ Session(d)' = Session(d)
      BY <1>4, OthersKeep DEF Session
    <2>3. CASE Inside(c)
      <3>1. holder' = holder /\ Session(c)' = Session(c) /\ call[c].pc \in Locked /\ call'[c].pc \in Locked
        BY <2>3, InsideEffect DEF Session
      <3>2. QED
        BY <2>1, <2>2, <3>1
    <2>4. CASE Outside(c)
      BY <2>1, <2>2, <2>4, OutsideEffect DEF Locked, PCs
    <2>5. CASE DecideLock(c) \/ RevokeLock(c)
      <3>1. /\ holder' = [holder EXCEPT ![Session(c)] = c] /\ holder[Session(c)] = NoCall
            /\ call[c].pc \notin Locked /\ call'[c].pc \in Locked /\ Session(c)' = Session(c)
        BY <2>5, LockEffect DEF Locked, PCs, Keeps, Session
      <3>2. QED
        BY <1>0, <2>0, <2>1, <2>2, <3>1
    <2>6. CASE Unlock(c)
      <3>1. /\ holder' = [holder EXCEPT ![Session(c)] = NoCall] /\ holder[Session(c)] = c
            /\ call'[c].pc \notin Locked
        BY <2>6, UnlockEffect DEF Locked, PCs
      <3>2. QED
        BY <1>0, <2>0, <2>1, <2>2, <3>1
    <2>7. QED
      BY <1>4, <2>3, <2>4, <2>5, <2>6 DEF Acts
  <1>5. QED
    BY <1>1, <1>2, <1>3, <1>4, Cases DEF LockHeld
-----------------------------------------------------------------------------
(* Filing.                                                                  *)

\* What a stored decision does to the items, given that the copy is current.
LEMMA StoredItems ==
    ASSUME TypeOK, CopiesAreCurrent, NEW c \in Calls, DecideStore(c),
           ~UNCHANGED <<requests, grants>>, NEW k \in Slots
    PROVE  /\ requests'[call[c].req].items[k] = call[c].items[k]
           /\ CopyOfItem(c, k)
           /\ grants'[<<call[c].req, k>>] =
                 IF Created(c, k) THEN [state |-> "active", exp |-> call[c].items[k].exp]
                 ELSE grants[<<call[c].req, k>>]
  <1>1. /\ call[c].pc = "decideStore"
        /\ HasPending(requests[call[c].req].items)
        /\ requests' = [requests EXCEPT ![call[c].req].items = call[c].items]
        /\ grants' = [i \in Items |->
              IF i[1] = call[c].req /\ Created(c, i[2])
              THEN [state |-> "active", exp |-> call[c].items[i[2]].exp]
              ELSE grants[i]]
    BY DecideStoreEffect
  <1>2. call[c].req \in Requests /\ requests \in [Requests -> [until : Nat, items : [Slots -> ItemType]]]
    BY SessionType DEF TypeOK
  <1>3. requests'[call[c].req].items = call[c].items
    BY <1>1, <1>2
  <1>4. <<call[c].req, k>> \in Items
    BY <1>2 DEF Items
  <1>5. CopyOfItem(c, k)
    BY <1>1 DEF CopiesAreCurrent, Copying
  <1>6. QED
    BY <1>1, <1>3, <1>4, <1>5

\* A recorded revocation.
LEMMA StoredRevocation ==
    ASSUME TypeOK, NEW c \in Calls, RevokeStore(c), ~UNCHANGED <<requests, grants>>
    PROVE  /\ grants[Target(c)].state = "active"
           /\ \A i \in Items : grants'[i] = IF i = Target(c) THEN [grants[i] EXCEPT !.state = "revoked"] ELSE grants[i]
           /\ \A r \in Requests, k \in Slots :
                 requests'[r].items[k] = IF <<r, k>> = Target(c)
                                         THEN [requests[r].items[k] EXCEPT !.state = "revoked"]
                                         ELSE requests[r].items[k]
  <1>1. /\ grants[Target(c)].state = "active"
        /\ grants' = [grants EXCEPT ![Target(c)].state = "revoked"]
        /\ requests' = [requests EXCEPT ![call[c].req].items[call[c].slot].state = "revoked"]
    BY RevokeStoreEffect
  <1>2. call[c].req \in Requests /\ call[c].slot \in Slots /\ Target(c) \in Items
    BY SessionType DEF CallType
  <1>3. grants \in [Items -> [state : {"none", "active", "revoked"}, exp : Nat]]
    BY DEF TypeOK
  <1>4. ASSUME NEW r \in Requests, NEW k \in Slots
        PROVE  requests'[r].items[k] = IF <<r, k>> = Target(c)
                                       THEN [requests[r].items[k] EXCEPT !.state = "revoked"]
                                       ELSE requests[r].items[k]
    BY <1>1, <1>2 DEF TypeOK, Target
  <1>5. QED
    BY <1>1, <1>2, <1>3, <1>4

\* Only three steps of a goroutine write to the store.
LEMMA Writers ==
    ASSUME TypeOK, NEW c \in Calls, Acts(c)
    PROVE  UNCHANGED <<requests, grants>> \/ InsertRequest(c) \/ DecideStore(c) \/ RevokeStore(c)
  BY OutsideEffect, LockEffect, UnlockEffect, DecideReadEffect, WriteEffect, AttachEffect,
     RevokeReadEffect, RestoreEffect DEF Acts, Inside

\* A request stays filed.
LEMMA FiledStays ==
    ASSUME TypeOK, InsertsAreFresh, CopiesAreCurrent, [Next]_vars, NEW r \in Requests, Filed(r)
    PROVE  Filed(r)'
  <1>1. PICK k \in Slots : requests[r].items[k].state # "absent"
    BY DEF Filed
  <1>2. SUFFICES requests'[r].items[k].state # "absent"
    BY DEF Filed
  <1>3. CASE UNCHANGED requests
    BY <1>1, <1>3
  <1>4. CASE ExpirePending
    BY <1>1, <1>4, SweepEffect
  <1>5. ASSUME NEW c \in Calls, InsertRequest(c)
        PROVE  requests'[r].items[k].state # "absent"
    <2>1. ~Filed(call[c].req)
      BY <1>5, InsertEffect DEF InsertsAreFresh, At
    <2>2. requests'[r] = requests[r]
      BY <1>5, <2>1, InsertEffect DEF TypeOK
    <2>3. QED
      BY <1>1, <2>2
  <1>6. ASSUME NEW c \in Calls, DecideStore(c), ~UNCHANGED <<requests, grants>>
        PROVE  requests'[r].items[k].state # "absent"
    <2>1. CASE r = call[c].req
      <3>1. requests'[r].items[k] = call[c].items[k]
        BY <1>6, <2>1, StoredItems
      <3>2. CopyOfItem(c, k)
        BY <1>6, StoredItems
      <3>3. call[c].items[k].state # "absent"
        BY <1>1, <2>1, <3>2 DEF CopyOfItem
      <3>4. QED
        BY <3>1, <3>3
    <2>2. CASE r # call[c].req
      BY <1>1, <1>6, <2>2, InsideEffect DEF Inside
    <2>3. QED
      BY <2>1, <2>2
  <1>7. ASSUME NEW c \in Calls, RevokeStore(c), ~UNCHANGED <<requests, grants>>
        PROVE  requests'[r].items[k].state # "absent"
    <2>1. requests[r].items[k] \in ItemType
      BY DEF TypeOK
    <2>2. [requests[r].items[k] EXCEPT !.state = "revoked"].state = "revoked"
      BY <2>1 DEF ItemType
    <2>3. QED
      BY <1>1, <1>7, <2>2, StoredRevocation
  <1>8. QED
    BY <1>3, <1>4, <1>5, <1>6, <1>7, Writers, Cases, EnvironmentEffect, CrashEffect DEF vars

\* A request is only filed by inserting it.
LEMMA UnfiledStays ==
    ASSUME TypeOK, DecidedAreFiled, ItemsAgreeWithGrants, CopiesAreCurrent,
           NEW r \in Requests, ~Filed(r),
           \/ \E c \in Calls : Acts(c) /\ ~(InsertRequest(c) /\ call[c].req = r)
           \/ Environment \/ Crash \/ UNCHANGED vars
    PROVE  ~Filed(r)'
  <1>1. SUFFICES ASSUME NEW k \in Slots
                 PROVE  requests'[r].items[k].state = "absent"
    BY DEF Filed
  <1>2. requests[r].items[k].state = "absent"
    BY DEF Filed
  <1>3. CASE UNCHANGED requests
    BY <1>2, <1>3
  <1>4. CASE ExpirePending
    BY <1>2, <1>4, SweepEffect
  <1>5. ASSUME NEW c \in Calls, InsertRequest(c), call[c].req # r
        PROVE  requests'[r].items[k].state = "absent"
    BY <1>2, <1>5, InsertEffect DEF TypeOK
  <1>6. ASSUME NEW c \in Calls, DecideStore(c)
        PROVE  requests'[r].items[k].state = "absent"
    <2>1. Filed(call[c].req)
      BY <1>6, DecideStoreEffect DEF DecidedAreFiled, Deciding
    <2>2. QED
      BY <1>2, <1>6, <2>1, InsideEffect DEF Inside
  <1>7. ASSUME NEW c \in Calls, RevokeStore(c), ~UNCHANGED <<requests, grants>>
        PROVE  requests'[r].items[k].state = "absent"
    <2>1. CASE <<r, k>> = Target(c)
      BY <1>2, <1>7, <2>1, StoredRevocation DEF ItemsAgreeWithGrants
    <2>2. CASE <<r, k>> # Target(c)
      BY <1>2, <1>7, <2>2, StoredRevocation
    <2>3. QED
      BY <2>1, <2>2
  <1>8. QED
    BY <1>3, <1>4, <1>5, <1>6, <1>7, Writers, EnvironmentEffect, CrashEffect DEF vars

LEMMA InsertsAreFreshStep ==
    ASSUME TypeOK, InsertsAreFresh, DecidedAreFiled, ItemsAgreeWithGrants, CopiesAreCurrent,
           [Next]_vars
    PROVE  InsertsAreFresh'
  <1>1. CASE Crash
    BY <1>1, CrashEffect DEF InsertsAreFresh, At
  <1>2. CASE Environment \/ UNCHANGED vars
    <2>1. call' = call
      BY <1>2, EnvironmentEffect DEF vars
    <2>2. ASSUME NEW d \in Calls, At(d, "insert")
          PROVE  ~Filed(call[d].req)'
      <3>1. call[d].req \in Requests /\ ~Filed(call[d].req)
        BY <2>2, SessionType DEF InsertsAreFresh
      <3>2. PICK r \in Requests : r = call[d].req
        BY <3>1
      <3>3. ~Filed(r)'
        BY <1>2, <3>1, <3>2, UnfiledStays
      <3>4. QED
        BY <2>1, <3>2, <3>3 DEF Filed
    <2>3. QED
      BY <2>1, <2>2 DEF InsertsAreFresh, At
  <1>3. ASSUME NEW c \in Calls, Acts(c), NEW d \in Calls, call'[d].pc = "insert"
        PROVE  /\ ~Filed(call[d].req)'
               /\ \A k \in Slots : call'[d].items[k].state \in {"pending", "refused", "already_granted"}
               /\ \A f \in Calls : call'[f].pc = "insert" /\ call'[f].req = call'[d].req => f = d
    <2>1. CASE d = c
      <3>1. PICK r \in Requests, input \in Inputs : FileRequest(c, r, input)
        BY <1>3, <2>1, Arrivals
      <3>2. ~Filed(r)'
        BY <3>1, FileEffect DEF Filed
      <3>3. QED
        BY <1>3, <2>1, <3>1, <3>2, FileEffect, OthersKeep DEF Filed, At
    <2>2. CASE d # c
      <3>1. call'[d] = call[d] /\ At(d, "insert")
        BY <1>3, <2>2, OthersKeep DEF At
      <3>2. PICK r \in Requests : r = call[d].req
        BY SessionType
      <3>3. ~Filed(r) /\ \A f \in Calls : At(f, "insert") /\ call[f].req = r => f = d
        BY <3>1, <3>2 DEF InsertsAreFresh
      <3>4. ~Filed(r)'
        <4>1. ~(InsertRequest(c) /\ call[c].req = r)
          BY <2>2, <3>3, InsertEffect DEF At
        <4>2. QED
          BY <1>3, <3>3, <4>1, UnfiledStays
      <3>5. ~(call'[c].pc = "insert" /\ call'[c].req = r)
        BY <1>3, <3>1, <3>2, Arrivals, FileEffect
      <3>6. \A k \in Slots : call[d].items[k].state \in {"pending", "refused", "already_granted"}
        BY <3>1 DEF InsertsAreFresh
      <3>7. \A f \in Calls : call'[f].pc = "insert" /\ call'[f].req = r => f = d
        BY <1>3, <3>3, <3>5, OthersKeep DEF At
      <3>8. QED
        BY <3>1, <3>2, <3>4, <3>6, <3>7 DEF Filed
    <2>3. QED
      BY <2>1, <2>2
  <1>4. QED
    BY <1>1, <1>2, <1>3, Cases DEF InsertsAreFresh, At

LEMMA DecidedAreFiledStep ==
    ASSUME TypeOK, InsertsAreFresh, DecidedAreFiled, CopiesAreCurrent, [Next]_vars
    PROVE  DecidedAreFiled'
  <1>1. \A r \in Requests : Filed(r) => Filed(r)'
    BY FiledStays
  <1>2. CASE Crash
    BY <1>2, CrashEffect DEF DecidedAreFiled, Deciding
  <1>3. CASE Environment \/ UNCHANGED vars
    BY <1>1, <1>3, EnvironmentEffect, SessionType DEF DecidedAreFiled, Filed, vars
  <1>4. ASSUME NEW c \in Calls, Acts(c), NEW d \in Calls, call'[d].pc \in Deciding
        PROVE  \E r \in Requests : r = call'[d].req /\ Filed(r)
    <2>1. CASE d # c
      BY <1>4, <2>1, OthersKeep, SessionType DEF DecidedAreFiled
    <2>2. CASE d = c /\ call'[c].pc = "decideLock"
      BY <1>4, <2>2, Arrivals, StartEffect
    <2>3. CASE d = c /\ call'[c].pc # "decideLock"
      <3>1. \/ DecideLock(c) \/ DecideRead(c) \/ DecideWrite(c) \/ AttachRead(c) \/ AttachSet(c)
        BY <1>4, <2>3, Arrivals DEF Deciding
      <3>2. call[c].pc \in Deciding /\ call'[c].req = call[c].req
        BY <3>1, LockEffect, DecideReadEffect, WriteEffect, AttachEffect
           DEF DecideLock, DecideRead, DecideWrite, AttachRead, AttachSet, At, Deciding, Keeps
      <3>3. QED
        BY <2>3, <3>2, SessionType DEF DecidedAreFiled
    <2>4. QED
      BY <2>1, <2>2, <2>3
  <1>5. QED
    BY <1>1, <1>2, <1>3, <1>4, Cases DEF DecidedAreFiled, Filed
-----------------------------------------------------------------------------
(* Deciding.                                                                *)

\* A verdict settles a pending item and leaves its path and TTL alone.
LEMMA DecidedItemFacts ==
    ASSUME TypeOK, NEW r \in Requests, NEW batch \in [Slots -> Verdict], NEW k \in Slots,
           Decidable(requests[r], batch)
    PROVE  LET item == requests[r].items[k]
               copy == DecidedItem(requests[r], batch, k)
           IN  IF batch[k].verdict = "skip"
               THEN copy = item
               ELSE /\ item.state = "pending"
                    /\ copy.state \in {"approved", "rejected", "refused"}
                    /\ copy.state = "approved" => batch[k].verdict = "approve"
                    /\ copy.state = "approved" <=> Approves(requests[r], batch, k)
                    /\ copy.path = item.path /\ copy.ttl = item.ttl
  <1> DEFINE item == requests[r].items[k]
             copy == DecidedItem(requests[r], batch, k)
             until == WholeSeconds(now + ApprovalTTL(item, batch[k]))
  <1>1. item \in ItemType /\ batch[k] \in Verdict
    BY DEF TypeOK
  <1>2. copy = CASE batch[k].verdict = "skip" -> item
                 [] batch[k].verdict = "reject" -> [item EXCEPT !.state = "rejected"]
                 [] Approves(requests[r], batch, k) ->
                       [item EXCEPT !.state = "approved", !.exp = until]
                 [] OTHER -> [item EXCEPT !.state = "refused"]
    BY DEF DecidedItem
  <1>3. Approves(requests[r], batch, k) => batch[k].verdict = "approve"
    BY DEF Approves
  <1>4. batch[k].verdict # "skip" => item.state = "pending"
    BY DEF Decidable
  <1> HIDE DEF item, copy, until
  <1>5. CASE batch[k].verdict = "skip"
    BY <1>2, <1>3, <1>5 DEF item, copy
  <1>6. CASE batch[k].verdict = "reject"
    <2>1. copy = [item EXCEPT !.state = "rejected"]
      BY <1>2, <1>3, <1>6
    <2>2. copy.state = "rejected" /\ copy.path = item.path /\ copy.ttl = item.ttl
      BY <1>1, <2>1 DEF ItemType
    <2>3. QED
      BY <1>3, <1>4, <1>6, <2>2 DEF item, copy
  <1>7. CASE Approves(requests[r], batch, k)
    <2>1. copy = [item EXCEPT !.state = "approved", !.exp = until]
      BY <1>2, <1>3, <1>7
    <2>2. copy.state = "approved" /\ copy.path = item.path /\ copy.ttl = item.ttl
      BY <1>1, <2>1 DEF ItemType
    <2>3. QED
      BY <1>3, <1>4, <1>7, <2>2 DEF item, copy
  <1>8. CASE batch[k].verdict \notin {"skip", "reject"} /\ ~Approves(requests[r], batch, k)
    <2>1. copy = [item EXCEPT !.state = "refused"]
      BY <1>2, <1>8
    <2>2. copy.state = "refused" /\ copy.path = item.path /\ copy.ttl = item.ttl
      BY <1>1, <2>1 DEF ItemType
    <2>3. QED
      BY <1>4, <1>8, <2>2 DEF item, copy
  <1>9. QED
    BY <1>5, <1>6, <1>7, <1>8

LEMMA CopiesAreCurrentStep ==
    ASSUME TypeOK, LockHeld, InsertsAreFresh, DecidedAreFiled, CopiesAreCurrent, [Next]_vars
    PROVE  CopiesAreCurrent'
  <1>1. CASE Crash
    BY <1>1, CrashEffect DEF CopiesAreCurrent, Copying
  <1>2. CASE Environment \/ UNCHANGED vars
    <2>1. call' = call /\ (requests' = requests \/ ExpirePending)
      BY <1>2, EnvironmentEffect DEF vars
    <2>2. ASSUME NEW d \in Calls
          PROVE  \/ requests'[call[d].req].items = requests[call[d].req].items
                 \/ ~HasPending(requests'[call[d].req].items)
      BY <2>1, SweepEffect, SessionType
    <2>3. QED
      BY <2>1, <2>2 DEF CopiesAreCurrent, CopyOfItem, HasPending
  <1>3. ASSUME NEW c \in Calls, Acts(c), NEW d \in Calls, call'[d].pc \in Copying, d # c
        PROVE  /\ call'[d] = call[d] /\ call[d].pc \in Copying
               /\ requests'[call[d].req] = requests[call[d].req]
    <2>1. call'[d] = call[d] /\ call[d].pc \in Locked /\ call[d].pc \in Deciding
      BY <1>3, OthersKeep DEF Copying, Locked, PCs, Deciding
    <2>2. ~(InsertRequest(c) /\ call[c].req = call[d].req)
      BY <2>1, InsertEffect DEF DecidedAreFiled, InsertsAreFresh, At
    <2>3. QED
      BY <1>3, <2>1, <2>2, Undisturbed DEF Acts
  <1>4. ASSUME NEW c \in Calls, Acts(c), call'[c].pc \in Copying
        PROVE  /\ requests' = requests
               /\ \/ Keeps(c) /\ call[c].pc \in Copying
                  \/ \A k \in Slots : CopyOfItem(c, k)'
    <2>1. CASE DecideRead(c)
      <3>1. /\ requests' = requests /\ call'[c].req = call[c].req /\ call'[c].batch = call[c].batch
            /\ Decidable(requests[call[c].req], call[c].batch)
            /\ \A k \in Slots :
                  call'[c].items[k] = DecidedItem(requests[call[c].req], call[c].batch, k)
        BY <1>4, <2>1, DecideReadEffect DEF Copying
      <3>2. call[c].req \in Requests /\ call[c].batch \in [Slots -> Verdict]
        BY SessionType DEF CallType
      <3>3. ASSUME NEW k \in Slots
            PROVE  CopyOfItem(c, k)'
        <4> DEFINE item == requests[call[c].req].items[k]
                   copy == DecidedItem(requests[call[c].req], call[c].batch, k)
                   verdict == call[c].batch[k].verdict
        <4>1. IF verdict = "skip"
              THEN copy = item
              ELSE /\ item.state = "pending"
                   /\ copy.state \in {"approved", "rejected", "refused"}
                   /\ copy.state = "approved" => verdict = "approve"
                   /\ copy.path = item.path /\ copy.ttl = item.ttl
          BY <3>1, <3>2, DecidedItemFacts
        <4>2. requests'[call'[c].req].items[k] = item /\ call'[c].items[k] = copy
              /\ call'[c].batch[k].verdict = verdict
          BY <3>1
        <4> HIDE DEF item, copy, verdict
        <4>3. QED
          BY <4>1, <4>2 DEF CopyOfItem
      <3>4. QED
        BY <3>1, <3>3
    <2>2. CASE ~DecideRead(c)
      <3>1. DecideWrite(c) \/ AttachRead(c) \/ AttachSet(c)
        BY <1>4, <2>2, Arrivals DEF Copying
      <3>2. QED
        BY <1>4, <3>1, WriteEffect, AttachEffect
           DEF Copying, DecideWrite, AttachRead, AttachSet, At
    <2>3. QED
      BY <2>1, <2>2
  <1>5. ASSUME NEW c \in Calls, Acts(c), NEW d \in Calls, call'[d].pc \in Copying
        PROVE  \/ ~HasPending(requests'[call'[d].req].items)
               \/ \A k \in Slots : CopyOfItem(d, k)'
    <2>1. CASE d = c /\ ~(Keeps(c) /\ call[c].pc \in Copying)
      BY <1>4, <1>5, <2>1
    <2>2. CASE d # c \/ (Keeps(c) /\ call[c].pc \in Copying)
      <3>1. /\ call[d].pc \in Copying /\ call'[d].req = call[d].req
            /\ call'[d].items = call[d].items /\ call'[d].batch = call[d].batch
            /\ requests'[call[d].req] = requests[call[d].req]
        BY <1>3, <1>4, <1>5, <2>2 DEF Keeps
      <3>2. QED
        <4>1. \/ ~HasPending(requests[call[d].req].items)
              \/ \A k \in Slots : CopyOfItem(d, k)
          BY <3>1 DEF CopiesAreCurrent
        <4>2. HasPending(requests'[call'[d].req].items) <=> HasPending(requests[call[d].req].items)
          BY <3>1
        <4>3. \A k \in Slots : CopyOfItem(d, k) => CopyOfItem(d, k)'
          BY <3>1 DEF CopyOfItem
        <4>4. QED
          BY <4>1, <4>2, <4>3
    <2>3. QED
      BY <2>1, <2>2
  <1>6. QED
    BY <1>1, <1>2, <1>5, Cases DEF CopiesAreCurrent, HasPending
-----------------------------------------------------------------------------
(* What goroutines are about to write.                                      *)

LEMMA ItemPair == \A i \in Items : i[1] \in Requests /\ i[2] \in Slots /\ i = <<i[1], i[2]>>
  BY DEF Items

LEMMA WantsAreCleanStep ==
    ASSUME TypeOK, LockHeld, WantsAreClean, ItemsAgreeWithGrants, [Next]_vars
    PROVE  WantsAreClean'
  <1>1. CASE Crash
    BY <1>1, CrashEffect DEF WantsAreClean, Writing
  <1>2. CASE Environment \/ UNCHANGED vars
    BY <1>2, EnvironmentEffect DEF WantsAreClean, Session, Target, At, vars
  <1>3. ASSUME NEW c \in Calls, Acts(c), NEW d \in Calls, call'[d].pc \in Writing, d # c
        PROVE  /\ \A i \in Items :
                     call'[d].want[i] # 0 => Owner[i[1]] = Owner[call'[d].req] /\ grants'[i].state # "revoked"
               /\ call'[d].pc = "revokeWrite" => call'[d].want[<<call'[d].req, call'[d].slot>>] = 0
    <2>1. call'[d] = call[d] /\ call[d].pc \in Locked
      BY <1>3, OthersKeep DEF Writing, Locked, PCs
    <2>2. \A i \in Items : Owner[i[1]] = Session(d) => grants'[i] = grants[i]
      BY <1>3, <2>1, Undisturbed DEF Acts
    <2>3. QED
      BY <1>3, <2>1, <2>2 DEF WantsAreClean, Session, Target, At
  <1>4. ASSUME NEW c \in Calls, Acts(c), call'[c].pc \in Writing
        PROVE  /\ \A i \in Items :
                     call'[c].want[i] # 0 => Owner[i[1]] = Owner[call'[c].req] /\ grants'[i].state # "revoked"
               /\ call'[c].pc = "revokeWrite" => call'[c].want[<<call'[c].req, call'[c].slot>>] = 0
    <2>1. CASE DecideRead(c)
      <3>1. /\ call'[c].req = call[c].req /\ grants' = grants /\ call'[c].pc = "decideWrite"
            /\ Decidable(requests[call[c].req], call[c].batch)
            /\ call'[c].want = BlocksWith(call[c].req, call'[c].items, call[c].batch)
        BY <1>4, <2>1, DecideReadEffect DEF Writing
      <3>2. ASSUME NEW i \in Items, call'[c].want[i] # 0
            PROVE  Owner[i[1]] = Owner[call[c].req] /\ grants[i].state # "revoked"
        <4>1. CASE i[1] = call[c].req /\ Approves(requests[call[c].req], call[c].batch, i[2])
          <5>1. requests[i[1]].items[i[2]].state = "pending"
            BY <3>1, <4>1, ItemPair DEF Approves, Decidable
          <5>2. grants[<<i[1], i[2]>>].state # "revoked"
            BY <5>1, ItemPair DEF ItemsAgreeWithGrants
          <5>3. QED
            BY <4>1, <5>2, ItemPair
        <4>2. CASE ~(i[1] = call[c].req /\ Approves(requests[call[c].req], call[c].batch, i[2]))
          BY <3>1, <3>2, <4>2 DEF BlocksWith, Active
        <4>3. QED
          BY <4>1, <4>2
      <3>3. QED
        BY <3>1, <3>2
    <2>2. CASE RevokeRead(c)
      <3>1. /\ call'[c].req = call[c].req /\ call'[c].slot = call[c].slot /\ grants' = grants
            /\ call'[c].want = BlocksWithout(Session(c), Target(c))
        BY <1>4, <2>2, RevokeReadEffect DEF Writing
      <3>2. \A i \in Items : call'[c].want[i] =
                IF Active(Session(c), i) /\ i # Target(c) THEN grants[i].exp ELSE 0
        BY <3>1 DEF BlocksWithout
      <3>3. call'[c].want[Target(c)] = 0
        BY <3>2, SessionType
      <3>4. QED
        BY <3>1, <3>2, <3>3 DEF Active, Session, Target
    <2>3. CASE RestoreRead(c)
      <3>1. /\ call'[c].req = call[c].req /\ grants' = grants /\ call'[c].pc = "restoreWrite"
            /\ call'[c].want = [i \in Items |-> IF Active(Session(c), i) THEN grants[i].exp ELSE 0]
        BY <1>4, <2>3, RestoreEffect DEF Writing, RestoreRead, At
      <3>2. \A i \in Items : call'[c].want[i] = IF Active(Session(c), i) THEN grants[i].exp ELSE 0
        BY <3>1
      <3>3. QED
        BY <3>1, <3>2 DEF Active, Session
    <2>4. QED
      BY <1>4, <2>1, <2>2, <2>3, Arrivals DEF Writing
  <1>5. ASSUME NEW c \in Calls, Acts(c)
        PROVE  WantsAreClean'
    BY <1>3, <1>4, <1>5 DEF WantsAreClean, Session, Target, At
  <1>6. QED
    BY <1>1, <1>2, <1>5, Cases

LEMMA RevokedFirstInOpenBaoStep ==
    ASSUME TypeOK, LockHeld, WantsAreClean, RevokedFirstInOpenBao, [Next]_vars
    PROVE  RevokedFirstInOpenBao'
  <1>1. CASE Crash
    BY <1>1, CrashEffect DEF RevokedFirstInOpenBao, At
  <1>2. CASE Environment \/ UNCHANGED vars
    BY <1>2, EnvironmentEffect DEF RevokedFirstInOpenBao, Session, Target, At, vars
  <1>3. ASSUME NEW c \in Calls, Acts(c), NEW d \in Calls, call'[d].pc = "revokeStore"
        PROVE  policy'[Owner[call'[d].req]][<<call'[d].req, call'[d].slot>>] = 0
    <2>1. CASE d = c
      <3>1. RevokeWrite(c)
        BY <1>3, <2>1, Arrivals
      <3>2. /\ Keeps(c) /\ At(c, "revokeWrite")
            /\ policy' = [policy EXCEPT ![Session(c)] = call[c].want]
        BY <1>3, <2>1, <3>1, WriteEffect DEF RevokeWrite
      <3>3. call[c].want[Target(c)] = 0
        BY <3>2 DEF WantsAreClean, Writing, At
      <3>4. policy'[Session(c)] = call[c].want
        BY <3>2, SessionType DEF TypeOK
      <3>5. QED
        BY <2>1, <3>2, <3>3, <3>4 DEF Keeps, Session, Target
    <2>2. CASE d # c
      <3>1. call'[d] = call[d] /\ call[d].pc \in Locked
        BY <1>3, <2>2, OthersKeep DEF Locked, PCs
      <3>2. policy'[Session(d)] = policy[Session(d)]
        BY <1>3, <2>2, <3>1, Undisturbed DEF Acts
      <3>3. QED
        BY <1>3, <3>1, <3>2 DEF RevokedFirstInOpenBao, Session, Target, At
    <2>3. QED
      BY <2>1, <2>2
  <1>4. QED
    BY <1>1, <1>2, <1>3, Cases DEF RevokedFirstInOpenBao, Session, Target, At

\* Nothing takes the session policy off an entity again.
LEMMA AttachedStays ==
    ASSUME TypeOK, [Next]_vars, NEW e \in Entities, SessionPolicy \in attached[e]
    PROVE  SessionPolicy \in attached'[e]
  <1>1. CASE Environment \/ Crash \/ UNCHANGED vars
    BY <1>1, EnvironmentEffect, CrashEffect DEF vars
  <1>2. ASSUME NEW c \in Calls, AttachRead(c) \/ AttachSet(c)
        PROVE  SessionPolicy \in attached'[e]
    <2>1. \/ attached' = attached
          \/ attached' = [attached EXCEPT ![Session(c)] = call[c].names \cup {SessionPolicy}]
      BY <1>2, AttachEffect
    <2>2. attached \in [Entities -> SUBSET (OperatorPolicies \cup {SessionPolicy})]
      BY DEF TypeOK
    <2>3. QED
      BY <2>1, <2>2
  <1>3. ASSUME NEW c \in Calls, Acts(c)
        PROVE  attached' = attached \/ AttachRead(c) \/ AttachSet(c)
    BY <1>3, OutsideEffect, LockEffect, UnlockEffect, DecideReadEffect, WriteEffect,
       DecideStoreEffect, RevokeReadEffect, RevokeStoreEffect, RestoreEffect DEF Acts, Inside
  <1>4. QED
    BY <1>1, <1>2, <1>3, Cases

LEMMA AttachedFirstStep ==
    ASSUME TypeOK, LockHeld, AttachedFirst, [Next]_vars
    PROVE  AttachedFirst'
  <1>1. CASE Crash
    BY <1>1, CrashEffect DEF AttachedFirst, At
  <1>2. \A e \in Entities : SessionPolicy \in attached[e] => SessionPolicy \in attached'[e]
    BY AttachedStays
  <1>3. CASE Environment \/ UNCHANGED vars
    BY <1>2, <1>3, EnvironmentEffect, SessionType DEF AttachedFirst, Created, Session, At, vars
  <1>4. ASSUME NEW c \in Calls, Acts(c), NEW d \in Calls, call'[d].pc = "decideStore",
               NEW k \in Slots,
               call'[d].batch[k].verdict = "approve", call'[d].items[k].state = "approved"
        PROVE  SessionPolicy \in attached'[Owner[call'[d].req]]
    <2>1. CASE d # c
      BY <1>2, <1>4, <2>1, OthersKeep, SessionType DEF AttachedFirst, Created, Session, At
    <2>2. CASE d = c /\ DecideRead(c)
      <3>1. /\ call'[c].batch = call[c].batch
            /\ Decidable(requests[call[c].req], call[c].batch)
            /\ call'[c].items[k] = DecidedItem(requests[call[c].req], call[c].batch, k)
            /\ ~Approves(requests[call[c].req], call[c].batch, k)
        BY <1>4, <2>2, DecideReadEffect
      <3>2. call[c].req \in Requests /\ call[c].batch \in [Slots -> Verdict]
        BY SessionType DEF CallType
      <3>3. QED
        BY <1>4, <2>2, <3>1, <3>2, DecidedItemFacts
    <2>3. CASE d = c /\ (AttachRead(c) \/ AttachSet(c))
      BY <1>4, <2>3, AttachEffect DEF Session
    <2>4. QED
      BY <1>4, <2>1, <2>2, <2>3, Arrivals
  <1>5. QED
    BY <1>1, <1>3, <1>4, Cases DEF AttachedFirst, Created, Session, At
-----------------------------------------------------------------------------
(* What is recorded, and what OpenBao grants.                               *)

LEMMA ItemsAgreeStep ==
    ASSUME TypeOK, InsertsAreFresh, CopiesAreCurrent, ItemsAgreeWithGrants, [Next]_vars
    PROVE  ItemsAgreeWithGrants'
  <1> SUFFICES ASSUME NEW r \in Requests, NEW k \in Slots
               PROVE  /\ requests'[r].items[k].state = "approved" <=> grants'[<<r, k>>].state = "active"
                      /\ requests'[r].items[k].state = "revoked" <=> grants'[<<r, k>>].state = "revoked"
                      /\ grants'[<<r, k>>].state # "none" =>
                            requests'[r].items[k].exp = grants'[<<r, k>>].exp
    BY DEF ItemsAgreeWithGrants
  <1>0. /\ requests[r].items[k].state = "approved" <=> grants[<<r, k>>].state = "active"
        /\ requests[r].items[k].state = "revoked" <=> grants[<<r, k>>].state = "revoked"
        /\ grants[<<r, k>>].state # "none" => requests[r].items[k].exp = grants[<<r, k>>].exp
    BY DEF ItemsAgreeWithGrants
  <1>1. /\ <<r, k>> \in Items
        /\ grants[<<r, k>>] \in [state : {"none", "active", "revoked"}, exp : Nat]
        /\ requests[r].items[k] \in ItemType
    BY DEF TypeOK, Items
  <1>2. grants[<<r, k>>].state \in {"none", "active", "revoked"}
    BY <1>1
  <1>3. CASE UNCHANGED <<requests, grants>>
    BY <1>0, <1>3
  <1>4. CASE ExpirePending
    BY <1>0, <1>4, SweepEffect
  <1>5. ASSUME NEW c \in Calls, InsertRequest(c), requests' # requests, call[c].req = r
        PROVE  /\ grants'[<<r, k>>].state = "none"
               /\ requests'[r].items[k].state \notin {"approved", "revoked"}
    <2>1. ~Filed(r) /\ call[c].items[k].state \in {"pending", "refused", "already_granted"}
      BY <1>5, InsertEffect DEF InsertsAreFresh, At
    <2>2. requests'[r].items = call[c].items /\ grants' = grants
      <3>1. /\ requests' = [requests EXCEPT ![r] = [until |-> call[c].until, items |-> call[c].items]]
            /\ grants' = grants
        BY <1>5, InsertEffect
      <3>2. requests'[r] = [until |-> call[c].until, items |-> call[c].items]
        BY <3>1 DEF TypeOK
      <3>3. QED
        BY <3>1, <3>2
    <2>3. requests[r].items[k].state = "absent"
      BY <2>1 DEF Filed
    <2>4. QED
      BY <1>0, <1>2, <2>1, <2>2, <2>3
  <1>6. ASSUME NEW c \in Calls, InsertRequest(c), call[c].req # r
        PROVE  requests'[r] = requests[r] /\ grants' = grants
    BY <1>6, InsertEffect DEF TypeOK
  <1>7. ASSUME NEW c \in Calls, DecideStore(c), ~UNCHANGED <<requests, grants>>, call[c].req = r
        PROVE  /\ requests'[r].items[k].state = "approved" <=> grants'[<<r, k>>].state = "active"
               /\ requests'[r].items[k].state = "revoked" <=> grants'[<<r, k>>].state = "revoked"
               /\ grants'[<<r, k>>].state # "none" => requests'[r].items[k].exp = grants'[<<r, k>>].exp
    <2>1. /\ requests'[r].items[k] = call[c].items[k]
          /\ CopyOfItem(c, k)
          /\ grants'[<<r, k>>] = IF Created(c, k) THEN [state |-> "active", exp |-> call[c].items[k].exp]
                                 ELSE grants[<<r, k>>]
      BY <1>7, StoredItems
    <2>2. CASE call[c].batch[k].verdict = "skip"
      <3>1. ~Created(c, k) /\ call[c].items[k] = requests[r].items[k]
        BY <1>7, <2>1, <2>2 DEF Created, CopyOfItem
      <3>2. QED
        BY <1>0, <2>1, <3>1
    <2>3. CASE call[c].batch[k].verdict # "skip"
      <3>1. /\ requests[r].items[k].state = "pending"
            /\ call[c].items[k].state \in {"approved", "rejected", "refused"}
            /\ Created(c, k) <=> call[c].items[k].state = "approved"
        BY <1>7, <2>1, <2>3 DEF Created, CopyOfItem
      <3>2. grants[<<r, k>>].state = "none"
        BY <1>0, <1>2, <3>1
      <3>3. QED
        BY <2>1, <3>1, <3>2
    <2>4. QED
      BY <2>2, <2>3
  <1>8. ASSUME NEW c \in Calls, DecideStore(c), call[c].req # r
        PROVE  requests'[r] = requests[r] /\ grants'[<<r, k>>] = grants[<<r, k>>]
    BY <1>1, <1>8, InsideEffect DEF Inside
  <1>9. ASSUME NEW c \in Calls, RevokeStore(c), ~UNCHANGED <<requests, grants>>, <<r, k>> = Target(c)
        PROVE  /\ requests'[r].items[k].state = "revoked" /\ grants'[<<r, k>>].state = "revoked"
               /\ requests'[r].items[k].exp = grants'[<<r, k>>].exp
    <2>1. /\ grants[<<r, k>>].state = "active"
          /\ grants'[<<r, k>>] = [grants[<<r, k>>] EXCEPT !.state = "revoked"]
          /\ requests'[r].items[k] = [requests[r].items[k] EXCEPT !.state = "revoked"]
      BY <1>1, <1>9, StoredRevocation
    <2>2. grants'[<<r, k>>].state = "revoked" /\ grants'[<<r, k>>].exp = grants[<<r, k>>].exp
      BY <1>1, <2>1
    <2>3. /\ requests'[r].items[k].state = "revoked"
          /\ requests'[r].items[k].exp = requests[r].items[k].exp
      BY <1>1, <2>1 DEF ItemType
    <2>4. QED
      BY <1>0, <2>1, <2>2, <2>3
  <1>10. ASSUME NEW c \in Calls, RevokeStore(c), ~UNCHANGED <<requests, grants>>, <<r, k>> # Target(c)
         PROVE  requests'[r].items[k] = requests[r].items[k] /\ grants'[<<r, k>>] = grants[<<r, k>>]
    BY <1>1, <1>10, StoredRevocation
  <1>11. ASSUME NEW c \in Calls, Acts(c), ~UNCHANGED <<requests, grants>>
         PROVE  \/ InsertRequest(c) /\ requests' # requests
                \/ DecideStore(c) \/ RevokeStore(c)
    BY <1>11, Writers, InsertEffect
  <1>12. ASSUME NEW c \in Calls, Acts(c), ~UNCHANGED <<requests, grants>>
         PROVE  /\ requests'[r].items[k].state = "approved" <=> grants'[<<r, k>>].state = "active"
                /\ requests'[r].items[k].state = "revoked" <=> grants'[<<r, k>>].state = "revoked"
                /\ grants'[<<r, k>>].state # "none" => requests'[r].items[k].exp = grants'[<<r, k>>].exp
    <2>1. CASE InsertRequest(c) /\ requests' # requests
      BY <1>0, <1>5, <1>6, <2>1
    <2>2. CASE DecideStore(c)
      BY <1>0, <1>7, <1>8, <1>12, <2>2
    <2>3. CASE RevokeStore(c)
      BY <1>0, <1>9, <1>10, <1>12, <2>3
    <2>4. QED
      BY <1>11, <1>12, <2>1, <2>2, <2>3
  <1>13. QED
    BY <1>3, <1>4, <1>12, Cases, EnvironmentEffect, CrashEffect DEF vars

\* A step that writes a policy writes what its goroutine holds.
LEMMA PolicyWriters ==
    ASSUME TypeOK, NEW c \in Calls, Acts(c)
    PROVE  \/ policy' = policy
           \/ /\ call[c].pc \in Writing /\ grants' = grants
              /\ policy' = [policy EXCEPT ![Session(c)] = call[c].want]
  BY OutsideEffect, LockEffect, UnlockEffect, DecideReadEffect, WriteEffect, AttachEffect,
     DecideStoreEffect, RevokeReadEffect, RevokeStoreEffect, RestoreEffect
     DEF Acts, Inside, Writing

LEMMA RevokedStaysDeadStep ==
    ASSUME TypeOK, WantsAreClean, RevokedFirstInOpenBao, RevokedStaysDead, [Next]_vars
    PROVE  RevokedStaysDead'
  <1> SUFFICES ASSUME NEW i \in Items, grants'[i].state = "revoked"
               PROVE  policy'[Owner[i[1]]][i] = 0
    BY DEF RevokedStaysDead
  <1>0. Owner[i[1]] \in Entities /\ policy \in [Entities -> [Items -> Nat]]
    BY ItemPair, RequestsAssumption DEF TypeOK
  <1>1. CASE UNCHANGED <<grants, policy>>
    BY <1>1 DEF RevokedStaysDead
  <1>2. ASSUME NEW c \in Calls, call[c].pc \in Writing, grants' = grants,
               policy' = [policy EXCEPT ![Session(c)] = call[c].want]
        PROVE  policy'[Owner[i[1]]][i] = 0
    <2>1. call[c].want[i] = 0 /\ policy[Owner[i[1]]][i] = 0
      BY <1>2 DEF WantsAreClean, RevokedStaysDead
    <2>2. QED
      BY <1>0, <1>2, <2>1
  <1>3. ASSUME NEW c \in Calls, DecideStore(c), policy' = policy
        PROVE  policy'[Owner[i[1]]][i] = 0
    <2>1. grants'[i] = grants[i] \/ grants'[i] = [state |-> "active", exp |-> call[c].items[i[2]].exp]
      BY <1>3, DecideStoreEffect
    <2>2. grants[i].state = "revoked"
      BY <2>1
    <2>3. QED
      BY <1>3, <2>2 DEF RevokedStaysDead
  <1>4. ASSUME NEW c \in Calls, RevokeStore(c), policy' = policy, ~UNCHANGED <<requests, grants>>
        PROVE  policy'[Owner[i[1]]][i] = 0
    <2>1. CASE i = Target(c)
      BY <1>4, <2>1, RevokeStoreEffect, SessionType DEF RevokedFirstInOpenBao, At, Session
    <2>2. CASE i # Target(c)
      BY <1>4, <2>2, StoredRevocation DEF RevokedStaysDead
    <2>3. QED
      BY <2>1, <2>2
  <1>5. ASSUME NEW c \in Calls, Acts(c)
        PROVE  policy'[Owner[i[1]]][i] = 0
    BY <1>1, <1>2, <1>3, <1>4, <1>5, PolicyWriters, Writers, InsertEffect
  <1>6. QED
    BY <1>1, <1>5, Cases, EnvironmentEffect, CrashEffect DEF vars

LEMMA NoForeignBlocksStep ==
    ASSUME TypeOK, WantsAreClean, NoForeignBlocks, [Next]_vars
    PROVE  NoForeignBlocks'
  <1>1. CASE policy' = policy
    BY <1>1 DEF NoForeignBlocks
  <1>2. ASSUME NEW c \in Calls, call[c].pc \in Writing,
               policy' = [policy EXCEPT ![Session(c)] = call[c].want]
        PROVE  NoForeignBlocks'
    <2>1. \A i \in Items : call[c].want[i] # 0 => Owner[i[1]] = Session(c)
      BY <1>2 DEF WantsAreClean
    <2>2. SUFFICES ASSUME NEW e \in Entities, NEW i \in Items, policy'[e][i] > 0
                   PROVE  Owner[i[1]] = e
      BY DEF NoForeignBlocks
    <2>3. CASE e = Session(c)
      <3>1. policy'[e] = call[c].want
        BY <1>2, <2>3 DEF TypeOK
      <3>2. QED
        BY <2>1, <2>2, <2>3, <3>1
    <2>4. CASE e # Session(c)
      BY <1>2, <2>2, <2>4 DEF TypeOK, NoForeignBlocks
    <2>5. QED
      BY <2>3, <2>4
  <1>3. QED
    BY <1>1, <1>2, Cases, PolicyWriters, EnvironmentEffect, CrashEffect DEF vars

LEMMA GrantsAreAttachedStep ==
    ASSUME TypeOK, AttachedFirst, GrantsAreAttached, [Next]_vars
    PROVE  GrantsAreAttached'
  <1> SUFFICES ASSUME NEW i \in Items, grants'[i].state # "none"
               PROVE  SessionPolicy \in attached'[Owner[i[1]]]
    BY DEF GrantsAreAttached
  <1>1. SUFFICES SessionPolicy \in attached[Owner[i[1]]]
    BY AttachedStays, ItemPair, RequestsAssumption
  <1>2. CASE grants[i].state # "none"
    BY <1>2 DEF GrantsAreAttached
  <1>3. ASSUME NEW c \in Calls, DecideStore(c), grants' # grants, grants[i].state = "none"
        PROVE  SessionPolicy \in attached[Owner[i[1]]]
    <2>1. At(c, "decideStore") /\ i[1] = call[c].req /\ Created(c, i[2])
      BY <1>3, DecideStoreEffect DEF At
    <2>2. QED
      BY <2>1, ItemPair DEF AttachedFirst, Session
  <1>4. ASSUME NEW c \in Calls, RevokeStore(c), grants' # grants
        PROVE  grants[i].state # "none"
    BY <1>4, StoredRevocation
  <1>5. QED
    BY <1>2, <1>3, <1>4, Cases, Writers, InsertEffect, EnvironmentEffect, CrashEffect DEF vars
-----------------------------------------------------------------------------
(* The theorems.                                                            *)

LEMMA GrantsInvInit == Init => GrantsInv
  <1> SUFFICES ASSUME Init
               PROVE  GrantsInv
    OBVIOUS
  <1>1. TypeOK
    BY TypeInit
  <1>2. \A c \in Calls : call[c].pc = "idle"
    BY IdleFacts DEF Init
  <1>3. \A r \in Requests, k \in Slots : requests[r].items[k].state = "absent"
    BY DEF Init, Absent
  <1>4. \A i \in Items : grants[i].state = "none"
    BY DEF Init
  <1>5. \A e \in Entities : /\ holder[e] = NoCall
                            /\ \A i \in Items : policy[e][i] = 0
    BY DEF Init, NoBlocks, Lock!MutexInit
  <1>6. /\ LockHeld /\ InsertsAreFresh /\ DecidedAreFiled /\ CopiesAreCurrent /\ WantsAreClean
        /\ RevokedFirstInOpenBao /\ AttachedFirst
    BY <1>2, <1>5, NamesAssumption
       DEF LockHeld, InsertsAreFresh, DecidedAreFiled, CopiesAreCurrent, WantsAreClean,
           RevokedFirstInOpenBao, AttachedFirst, At, Locked, Deciding, Copying, Writing
  <1>7. ItemsAgreeWithGrants /\ GrantsAreAttached
    BY <1>3, <1>4 DEF ItemsAgreeWithGrants, GrantsAreAttached, Items
  <1>8. RevokedStaysDead /\ NoForeignBlocks
    BY <1>4, <1>5, ItemPair, RequestsAssumption DEF RevokedStaysDead, NoForeignBlocks
  <1>9. QED
    BY <1>1, <1>6, <1>7, <1>8 DEF GrantsInv

LEMMA GrantsInvStep == GrantsInv /\ [Next]_vars => GrantsInv'
  <1> SUFFICES ASSUME GrantsInv, [Next]_vars
               PROVE  GrantsInv'
    OBVIOUS
  <1>1. /\ TypeOK /\ LockHeld /\ InsertsAreFresh /\ DecidedAreFiled /\ CopiesAreCurrent
        /\ WantsAreClean /\ RevokedFirstInOpenBao /\ AttachedFirst
        /\ ItemsAgreeWithGrants /\ RevokedStaysDead /\ NoForeignBlocks /\ GrantsAreAttached
    BY DEF GrantsInv
  <1>2. TypeOK' /\ LockHeld'
    BY <1>1, TypeStep, LockHeldStep
  <1>3. InsertsAreFresh' /\ DecidedAreFiled'
    BY <1>1, InsertsAreFreshStep, DecidedAreFiledStep
  <1>4. CopiesAreCurrent' /\ WantsAreClean'
    BY <1>1, CopiesAreCurrentStep, WantsAreCleanStep
  <1>5. RevokedFirstInOpenBao' /\ AttachedFirst'
    BY <1>1, RevokedFirstInOpenBaoStep, AttachedFirstStep
  <1>6. ItemsAgreeWithGrants' /\ RevokedStaysDead'
    BY <1>1, ItemsAgreeStep, RevokedStaysDeadStep
  <1>7. NoForeignBlocks' /\ GrantsAreAttached'
    BY <1>1, NoForeignBlocksStep, GrantsAreAttachedStep
  <1>8. QED
    BY <1>2, <1>3, <1>4, <1>5, <1>6, <1>7 DEF GrantsInv

\* The invariant holds in every reachable state, however many goroutines,
\* sessions and faults there are.
THEOREM GrantsInvHolds == Spec => []GrantsInv
  BY GrantsInvInit, GrantsInvStep, PTL DEF Spec

\* Every goroutine between lockSession and unlock owns its session's lock, and
\* nobody else does: no path of decide or revoke leaves it behind.
THEOREM LockIsHeld == Spec => []LockHeld
  <1>1. GrantsInv => LockHeld
    BY DEF GrantsInv
  <1>2. QED
    BY <1>1, GrantsInvHolds, PTL

\* Items and Grant rows never disagree, although DecideItems writes a whole
\* item list back that was read several OpenBao calls earlier.
THEOREM ItemsAlwaysAgree == Spec => []ItemsAgreeWithGrants
  <1>1. GrantsInv => ItemsAgreeWithGrants
    BY DEF GrantsInv
  <1>2. QED
    BY <1>1, GrantsInvHolds, PTL

\* A session policy never again holds a block for a revoked Grant, whatever
\* OpenBao calls and store transactions fail and whenever the process crashes.
THEOREM RevocationIsFinal == Spec => []RevokedStaysDead
  <1>1. GrantsInv => RevokedStaysDead
    BY DEF GrantsInv
  <1>2. QED
    BY <1>1, GrantsInvHolds, PTL

\* No policy write mixes the Grants of two sessions.
THEOREM BlocksStayHome == Spec => []NoForeignBlocks
  <1>1. GrantsInv => NoForeignBlocks
    BY DEF GrantsInv
  <1>2. QED
    BY <1>1, GrantsInvHolds, PTL

\* Grants are only recorded for a session whose entity carries its policy.
THEOREM RecordedGrantsWork == Spec => []GrantsAreAttached
  <1>1. GrantsInv => GrantsAreAttached
    BY DEF GrantsInv
  <1>2. QED
    BY <1>1, GrantsInvHolds, PTL
-----------------------------------------------------------------------------
(* The stored states of items and Grants implement Lifecycle.               *)

\* A step that leaves the store alone is invisible in Lifecycle.
LEMMA SameStates ==
    ASSUME UNCHANGED <<requests, grants>>
    PROVE  UNCHANGED <<StatesOfItems, StatesOfGrants>>
  BY DEF StatesOfItems, StatesOfGrants

LEMMA InsertIsFile ==
    ASSUME GrantsInv, NEW c \in Calls, InsertRequest(c), requests' # requests
    PROVE  Abstract!File(call[c].req)
  <1> DEFINE r == call[c].req
             filed == [k \in Slots |-> call[c].items[k].state]
  <1>1. /\ r \in Requests /\ ~Filed(r)
        /\ \A k \in Slots : call[c].items[k].state \in {"pending", "refused", "already_granted"}
    BY InsertEffect, SessionType DEF GrantsInv, InsertsAreFresh, At
  <1>2. grants' = grants /\ \A q \in Requests :
           requests'[q].items = IF q = r THEN call[c].items ELSE requests[q].items
    <2>1. /\ requests' = [requests EXCEPT ![r] = [until |-> call[c].until, items |-> call[c].items]]
          /\ grants' = grants
      BY InsertEffect DEF GrantsInv
    <2>2. \A q \in Requests : requests'[q] =
             IF q = r THEN [until |-> call[c].until, items |-> call[c].items] ELSE requests[q]
      BY <2>1 DEF GrantsInv, TypeOK
    <2>3. QED
      BY <2>1, <2>2
  <1>3. \A k \in Slots : StatesOfItems[r][k] = "absent"
    BY <1>1 DEF Filed, StatesOfItems
  <1>4. filed \in [Slots -> Abstract!Filed]
    BY <1>1 DEF Abstract!Filed
  <1>5. StatesOfItems' = [StatesOfItems EXCEPT ![r] = filed]
    BY <1>1, <1>2 DEF StatesOfItems
  <1>6. StatesOfGrants' = StatesOfGrants
    BY <1>2 DEF StatesOfGrants
  <1> HIDE DEF filed
  <1>7. QED
    BY <1>3, <1>4, <1>5, <1>6 DEF Abstract!File

LEMMA DecideIsBatch ==
    ASSUME GrantsInv, NEW c \in Calls, DecideStore(c), ~UNCHANGED <<requests, grants>>
    PROVE  Abstract!DecideBatch(call[c].req)
  <1> DEFINE r == call[c].req
             decided == [k \in Slots |-> IF call[c].batch[k].verdict = "skip" THEN "untouched"
                                         ELSE call[c].items[k].state]
  <1>0. TypeOK /\ CopiesAreCurrent /\ r \in Requests
    BY SessionType DEF GrantsInv
  <1>1. ASSUME NEW k \in Slots
        PROVE  /\ decided[k] \in {"approved", "rejected", "refused", "untouched"}
               /\ decided[k] # "untouched" => requests[r].items[k].state = "pending"
               /\ decided[k] = "approved" <=> Created(c, k)
               /\ requests'[r].items[k].state =
                     IF decided[k] = "untouched" THEN requests[r].items[k].state ELSE decided[k]
    <2>1. requests'[r].items[k] = call[c].items[k] /\ CopyOfItem(c, k)
      BY <1>0, StoredItems
    <2>2. QED
      BY <2>1 DEF CopyOfItem, Created
  <1>2. \A q \in Requests \ {r} : requests'[q] = requests[q]
    BY <1>0, InsideEffect DEF Inside
  <1>3. \A i \in Items : grants'[i].state =
           IF i[1] = r /\ decided[i[2]] = "approved" THEN "active" ELSE grants[i].state
    <2>1. grants' = [i \in Items |->
             IF i[1] = r /\ Created(c, i[2]) THEN [state |-> "active", exp |-> call[c].items[i[2]].exp]
             ELSE grants[i]]
      BY <1>0, DecideStoreEffect
    <2> TAKE i \in Items
    <2>2. decided[i[2]] = "approved" <=> Created(c, i[2])
      BY <1>1, ItemPair
    <2>3. CASE i[1] = r /\ Created(c, i[2])
      <3>1. grants'[i] = [state |-> "active", exp |-> call[c].items[i[2]].exp]
        BY <2>1, <2>3
      <3>2. QED
        BY <2>2, <2>3, <3>1
    <2>4. CASE ~(i[1] = r /\ Created(c, i[2]))
      BY <2>1, <2>2, <2>4
    <2>5. QED
      BY <2>3, <2>4
  <1>4. decided \in [Slots -> Abstract!Decided \cup {"untouched"}]
    BY <1>1 DEF Abstract!Decided
  <1> HIDE DEF decided
  <1>5. StatesOfItems' = [StatesOfItems EXCEPT ![r] =
           [k \in Slots |-> IF decided[k] = "untouched" THEN @[k] ELSE decided[k]]]
    <2>1. ASSUME NEW q \in Requests
          PROVE  StatesOfItems'[q] = IF q = r THEN [k \in Slots |->
                    IF decided[k] = "untouched" THEN StatesOfItems[r][k] ELSE decided[k]]
                 ELSE StatesOfItems[q]
      <3>1. CASE q = r
        BY <1>0, <1>1, <3>1 DEF StatesOfItems
      <3>2. CASE q # r
        BY <1>2, <3>2 DEF StatesOfItems
      <3>3. QED
        BY <3>1, <3>2
    <2>2. StatesOfItems' = [q \in Requests |-> StatesOfItems'[q]] /\ DOMAIN StatesOfItems = Requests
      BY DEF StatesOfItems
    <2> HIDE DEF r
    <2>3. QED
      BY <2>1, <2>2
  <1>6. StatesOfGrants' = [i \in Requests \X Slots |->
           IF i[1] = r /\ decided[i[2]] = "approved" THEN "active" ELSE StatesOfGrants[i]]
    BY <1>3 DEF StatesOfGrants, Items
  <1>7. \A k \in Slots : decided[k] # "untouched" => StatesOfItems[r][k] = "pending"
    BY <1>0, <1>1 DEF StatesOfItems
  <1>8. QED
    BY <1>4, <1>5, <1>6, <1>7 DEF Abstract!DecideBatch

LEMMA RevokeIsRevoke ==
    ASSUME GrantsInv, NEW c \in Calls, RevokeStore(c), ~UNCHANGED <<requests, grants>>
    PROVE  Abstract!RevokeItem(call[c].req, call[c].slot)
  <1> DEFINE r == call[c].req
             k == call[c].slot
  <1>0. TypeOK /\ ItemsAgreeWithGrants /\ r \in Requests /\ k \in Slots /\ Target(c) = <<r, k>>
    BY SessionType DEF GrantsInv, CallType, Target
  <1>1. /\ grants[<<r, k>>].state = "active"
        /\ \A i \in Items : grants'[i] = IF i = <<r, k>> THEN [grants[i] EXCEPT !.state = "revoked"] ELSE grants[i]
        /\ \A q \in Requests, j \in Slots :
              requests'[q].items[j] = IF <<q, j>> = <<r, k>>
                                      THEN [requests[q].items[j] EXCEPT !.state = "revoked"]
                                      ELSE requests[q].items[j]
    BY <1>0, StoredRevocation
  <1> HIDE DEF r, k
  <1>2. requests[r].items[k].state = "approved"
    BY <1>0, <1>1 DEF ItemsAgreeWithGrants
  <1>3. \A i \in Items : grants'[i].state = IF i = <<r, k>> THEN "revoked" ELSE grants[i].state
    <2>1. \A i \in Items : grants[i] \in [state : {"none", "active", "revoked"}, exp : Nat]
      BY <1>0 DEF TypeOK
    <2>2. QED
      BY <1>1, <2>1
  <1>4. \A q \in Requests, j \in Slots :
           requests'[q].items[j].state = IF q = r /\ j = k THEN "revoked" ELSE requests[q].items[j].state
    <2>1. \A q \in Requests, j \in Slots : requests[q].items[j] \in ItemType
      BY <1>0 DEF TypeOK
    <2>2. QED
      BY <1>1, <2>1 DEF ItemType
  <1>5. StatesOfItems' = [StatesOfItems EXCEPT ![r][k] = "revoked"]
    <2>1. ASSUME NEW q \in Requests
          PROVE  StatesOfItems'[q] = IF q = r THEN [StatesOfItems[q] EXCEPT ![k] = "revoked"]
                                     ELSE StatesOfItems[q]
      <3>1. StatesOfItems'[q] = [j \in Slots |-> requests'[q].items[j].state]
        BY DEF StatesOfItems
      <3>2. StatesOfItems[q] = [j \in Slots |-> requests[q].items[j].state]
        BY DEF StatesOfItems
      <3>3. QED
        BY <1>0, <1>4, <3>1, <3>2
    <2>2. StatesOfItems' = [q \in Requests |-> StatesOfItems'[q]] /\ DOMAIN StatesOfItems = Requests
          /\ StatesOfItems = [q \in Requests |-> StatesOfItems[q]]
      BY DEF StatesOfItems
    <2>3. QED
      BY <2>1, <2>2
  <1>6. StatesOfGrants' = [StatesOfGrants EXCEPT ![<<r, k>>] = "revoked"]
    BY <1>0, <1>3 DEF StatesOfGrants
  <1>7. StatesOfItems[r][k] = "approved" /\ StatesOfGrants[<<r, k>>] = "active"
    BY <1>0, <1>1, <1>2 DEF StatesOfItems, StatesOfGrants, Items
  <1>8. QED
    BY <1>5, <1>6, <1>7 DEF Abstract!RevokeItem, r, k

LEMMA SweepIsExpire ==
    ASSUME TypeOK, ExpirePending
    PROVE  Abstract!Expire
  <1> DEFINE R == {r \in Requests : requests[r].until <= now}
  <1>1. StatesOfItems' = [r \in Requests |-> [k \in Slots |->
           IF r \in R /\ StatesOfItems[r][k] = "pending" THEN "expired" ELSE StatesOfItems[r][k]]]
    BY SweepEffect DEF StatesOfItems
  <1>2. StatesOfGrants' = StatesOfGrants
    BY SweepEffect DEF StatesOfGrants
  <1>3. R \in SUBSET Requests
    OBVIOUS
  <1> HIDE DEF R
  <1>4. QED
    BY <1>1, <1>2, <1>3 DEF Abstract!Expire

\* The stored items and Grants implement Lifecycle: each store transaction is
\* one of its steps, and everything else (OpenBao calls, locks, time, restarts,
\* crashes, failed transactions) is invisible in it.
THEOREM LifecycleIsKept == Spec => ImplementsLifecycle
  <1>1. Init => Abstract!LifecycleInit
    BY DEF Init, Absent, Abstract!LifecycleInit, StatesOfItems, StatesOfGrants, Items
  <1>2. GrantsInv /\ [Next]_vars => [Abstract!LifecycleNext]_<<StatesOfItems, StatesOfGrants>>
    <2> SUFFICES ASSUME GrantsInv, [Next]_vars, ~UNCHANGED <<requests, grants>>
                 PROVE  Abstract!LifecycleNext
        BY SameStates
    <2>0. TypeOK
      BY DEF GrantsInv
    <2>1. ASSUME NEW c \in Calls, Acts(c)
          PROVE  Abstract!LifecycleNext
      <3>1. call[c].req \in Requests /\ call[c].slot \in Slots
        BY <2>0, SessionType DEF CallType
      <3>2. \/ InsertRequest(c) /\ requests' # requests
            \/ DecideStore(c) \/ RevokeStore(c)
        BY <2>0, <2>1, Writers, InsertEffect
      <3>3. QED
        BY <3>1, <3>2, InsertIsFile, DecideIsBatch, RevokeIsRevoke DEF Abstract!LifecycleNext
    <2>2. CASE ExpirePending
      BY <2>0, <2>2, SweepIsExpire DEF Abstract!LifecycleNext
    <2>3. QED
      BY <2>0, <2>1, <2>2, Cases, EnvironmentEffect, CrashEffect DEF vars
  <1>3. QED
    BY <1>1, <1>2, GrantsInvHolds, PTL DEF Spec, ImplementsLifecycle, Abstract!LifecycleSpec

-----------------------------------------------------------------------------
(* RecordInv, on top of GrantsInv: the deadlines and TTLs that bound a      *)
(* Grant, then the policy in OpenBao against the record.                    *)


\* Rounding down to a multiple of s gives one.
LEMMA Rounded ==
    ASSUME NEW s \in Nat \ {0}, NEW t \in Nat
    PROVE  (t - (t % s)) % s = 0
  <1> DEFINE q == t \div s
             u == t - (t % s)
  <1>1. u = s * q /\ q \in Int /\ u \in Int
    OBVIOUS
  <1> HIDE DEF u, q
  <1>2. PICK q2 \in Int : u = s * q2 + (u % s) /\ 0 <= u % s /\ u % s < s /\ u % s \in Int
    <2>1. u = s * (u \div s) + (u % s) /\ 0 <= u % s /\ u % s < s /\ u % s \in Int /\ u \div s \in Int
      BY <1>1
    <2>2. QED
      BY <2>1
  <1>3. s * (q - q2) = u % s
    BY <1>1, <1>2
  <1>4. CASE q - q2 >= 1
    BY <1>1, <1>2, <1>3, <1>4
  <1>5. CASE q - q2 <= -1
    BY <1>1, <1>2, <1>3, <1>5
  <1>6. CASE q = q2
    BY <1>1, <1>2, <1>6 DEF u
  <1>7. QED
    BY <1>1, <1>2, <1>4, <1>5, <1>6 DEF u

LEMMA WholeSecondsFacts ==
    ASSUME NEW t \in Nat
    PROVE  /\ WholeSeconds(t) \in Nat /\ WholeSeconds(t) <= t
           /\ WholeSeconds(t) % Second = 0
  <1>1. Second \in Nat \ {0}
    BY TimesAssumption
  <1>2. t % Second \in Nat
    BY <1>1
  <1>3. QED
    BY <1>1, <1>2, Rounded, WholeSecondsType DEF WholeSeconds

\* What a batch approves ends before the deadline plus the item's TTL.
LEMMA ApprovalWithinTerms ==
    ASSUME TypeOK, NEW r \in Requests, NEW batch \in [Slots -> Verdict], NEW k \in Slots,
           Decidable(requests[r], batch), Approves(requests[r], batch, k)
    PROVE  WithinTerms(r, k, DecidedItem(requests[r], batch, k).exp)
  <1> DEFINE item == requests[r].items[k]
             verdict == batch[k]
             ttl == ApprovalTTL(item, verdict)
  <1>1. /\ item \in ItemType /\ verdict \in Verdict /\ requests[r].until \in Nat
        /\ now \in Nat /\ caps[item.path] \in Nat
    BY DEF TypeOK, ItemType
  <1>2. /\ verdict.verdict = "approve" /\ now < requests[r].until
        /\ verdict.ttl <= TTLCap(item)
    BY DEF Approves, Decidable
  <1>3. item.ttl \in Nat /\ verdict.ttl \in Nat
    BY <1>1 DEF ItemType, Verdict
  <1>4. TTLCap(item) \in Nat /\ TTLCap(item) <= item.ttl
    BY <1>1, <1>3 DEF TTLCap, Lesser
  <1>5. ttl \in Nat /\ ttl <= item.ttl
    BY <1>2, <1>3, <1>4, WholeSecondsFacts DEF ApprovalTTL
  <1> HIDE DEF ttl
  <1>6. /\ WholeSeconds(now + ttl) \in Nat /\ WholeSeconds(now + ttl) <= now + ttl
        /\ WholeSeconds(now + ttl) % Second = 0
    BY <1>1, <1>5, WholeSecondsFacts
  <1>7. DecidedItem(requests[r], batch, k) =
            [item EXCEPT !.state = "approved", !.exp = WholeSeconds(now + ttl)]
    BY <1>2 DEF DecidedItem, ttl
  <1>8. DecidedItem(requests[r], batch, k).exp = WholeSeconds(now + ttl)
    <2> DEFINE expiry == WholeSeconds(now + ttl)
    <2> HIDE DEF expiry, item
    <2>1. [item EXCEPT !.state = "approved", !.exp = expiry].exp = expiry
      BY <1>1 DEF ItemType
    <2>2. QED
      BY <1>7, <2>1 DEF expiry, item
  <1>9. QED
    BY <1>1, <1>2, <1>3, <1>5, <1>6, <1>8 DEF WithinTerms

\* The deadline of a filed request and the TTLs of its items never change.
LEMMA TermsStay ==
    ASSUME TypeOK, InsertsAreFresh, CopiesAreCurrent, [Next]_vars,
           NEW r \in Requests, Filed(r), NEW k \in Slots
    PROVE  /\ requests'[r].until = requests[r].until
           /\ requests'[r].items[k].ttl = requests[r].items[k].ttl
  <1>0. requests \in [Requests -> [until : Nat, items : [Slots -> ItemType]]]
    BY DEF TypeOK
  <1>1. CASE UNCHANGED requests
    BY <1>1
  <1>2. CASE ExpirePending
    <2> DEFINE item == requests[r].items[k]
               swept == [j \in Slots |->
                  IF requests[r].until <= now /\ requests[r].items[j].state = "pending"
                  THEN [requests[r].items[j] EXCEPT !.state = "expired"]
                  ELSE requests[r].items[j]]
    <2>1. requests'[r] = [requests[r] EXCEPT !.items = swept]
      BY <1>2 DEF ExpirePending
    <2>2. swept[k] = item \/ swept[k] = [item EXCEPT !.state = "expired"]
      OBVIOUS
    <2>3. item \in ItemType
      BY <1>0
    <2> HIDE DEF swept, item
    <2>4. requests'[r].until = requests[r].until /\ requests'[r].items = swept
      BY <1>0, <2>1
    <2>5. swept[k].ttl = item.ttl
      BY <2>2, <2>3 DEF ItemType
    <2>6. QED
      BY <2>4, <2>5 DEF item
  <1>3. ASSUME NEW c \in Calls, InsertRequest(c)
        PROVE  requests'[r] = requests[r]
    <2>1. ~Filed(call[c].req)
      BY <1>3, InsertEffect DEF InsertsAreFresh, At
    <2>2. QED
      BY <1>0, <1>3, <2>1, InsertEffect
  <1>4. ASSUME NEW c \in Calls, DecideStore(c), ~UNCHANGED <<requests, grants>>, r = call[c].req
        PROVE  /\ requests'[r].until = requests[r].until
               /\ requests'[r].items[k].ttl = requests[r].items[k].ttl
    <2>1. requests' = [requests EXCEPT ![r].items = call[c].items]
      BY <1>4, DecideStoreEffect
    <2>2. requests'[r].until = requests[r].until
      BY <1>0, <2>1
    <2>3. requests'[r].items[k] = call[c].items[k] /\ CopyOfItem(c, k)
      BY <1>4, StoredItems
    <2>4. QED
      BY <1>4, <2>2, <2>3 DEF CopyOfItem
  <1>5. ASSUME NEW c \in Calls, RevokeStore(c), ~UNCHANGED <<requests, grants>>, r = call[c].req
        PROVE  /\ requests'[r].until = requests[r].until
               /\ requests'[r].items[k].ttl = requests[r].items[k].ttl
    <2> DEFINE item == requests[r].items[k]
    <2>1. requests' = [requests EXCEPT ![r].items[call[c].slot].state = "revoked"]
      BY <1>5, RevokeStoreEffect
    <2>2. requests'[r].until = requests[r].until
      BY <1>0, <2>1
    <2>3. requests'[r].items[k] = item \/ requests'[r].items[k] = [item EXCEPT !.state = "revoked"]
      BY <1>5, StoredRevocation
    <2>4. item \in ItemType
      BY <1>0
    <2> HIDE DEF item
    <2>5. requests'[r].items[k].ttl = item.ttl
      BY <2>3, <2>4 DEF ItemType
    <2>6. QED
      BY <2>2, <2>5 DEF item
  <1>6. ASSUME NEW c \in Calls, DecideStore(c) \/ RevokeStore(c), r # call[c].req
        PROVE  requests'[r] = requests[r]
    BY <1>6, InsideEffect DEF Inside
  <1>7. CASE Crash
    BY <1>1, <1>7, CrashEffect
  <1>8. CASE Environment \/ UNCHANGED vars
    BY <1>1, <1>2, <1>8, EnvironmentEffect DEF vars
  <1>9. QED
    BY <1>1, <1>3, <1>4, <1>5, <1>6, <1>7, <1>8, Cases, Writers

LEMMA InvParts ==
    ASSUME GrantsInv
    PROVE  /\ TypeOK /\ LockHeld /\ InsertsAreFresh /\ DecidedAreFiled /\ CopiesAreCurrent
           /\ WantsAreClean /\ RevokedFirstInOpenBao /\ ItemsAgreeWithGrants
  BY DEF GrantsInv

\* So what ends within an item's terms still does after a step.
WithinNextTerms(r, k, expiry) ==
    expiry < requests'[r].until + requests'[r].items[k].ttl /\ expiry % Second = 0

LEMMA WithinTermsStays ==
    ASSUME GrantsInv, [Next]_vars, NEW r \in Requests, Filed(r), NEW k \in Slots,
           NEW expiry, WithinTerms(r, k, expiry)
    PROVE  WithinNextTerms(r, k, expiry)
  BY InvParts, TermsStay DEF WithinTerms, WithinNextTerms

\* Program counters with a copy are reached from a read, or keep the copy.
LEMMA CopyArrivals ==
    ASSUME TypeOK, NEW c \in Calls, Acts(c), call'[c].pc \in Copying
    PROVE  \/ DecideRead(c)
           \/ call[c].pc \in Copying /\ Keeps(c)
  <1>1. CASE DecideWrite(c)
    BY <1>1, WriteEffect DEF Copying, DecideWrite, At
  <1>2. CASE AttachRead(c) \/ AttachSet(c)
    BY <1>2, AttachEffect DEF Copying
  <1>3. QED
    BY <1>1, <1>2, Arrivals DEF Copying

LEMMA CopiesAreBoundedStep ==
    ASSUME GrantsInv, CopiesAreBounded, [Next]_vars
    PROVE  CopiesAreBounded'
  <1>0. TypeOK
    BY InvParts
  <1> SUFFICES ASSUME NEW d \in Calls, NEW k \in Slots, call'[d].pc \in Copying, Created(d, k)'
               PROVE  WithinNextTerms(call'[d].req, k, call'[d].items[k].exp)
    BY DEF CopiesAreBounded, WithinTerms, WithinNextTerms
  <1>1. ASSUME call[d].pc \in Copying, call'[d].req = call[d].req, call'[d].batch = call[d].batch,
               call'[d].items = call[d].items
        PROVE  WithinNextTerms(call'[d].req, k, call'[d].items[k].exp)
    <2>1. Created(d, k)
      BY <1>1 DEF Created
    <2>2. WithinTerms(call[d].req, k, call[d].items[k].exp)
      BY <1>1, <2>1 DEF CopiesAreBounded
    <2>3. Filed(call[d].req) /\ call[d].req \in Requests
      BY <1>0, <1>1, InvParts, SessionType DEF DecidedAreFiled, Deciding, Copying
    <2>4. WithinNextTerms(call[d].req, k, call[d].items[k].exp)
      BY <2>2, <2>3, WithinTermsStays
    <2>5. QED
      BY <1>1, <2>4
  <1>2. CASE call' = call
    BY <1>1, <1>2
  <1>3. ASSUME NEW c \in Calls, Acts(c)
        PROVE  WithinNextTerms(call'[d].req, k, call'[d].items[k].exp)
    <2>1. CASE d # c
      BY <1>0, <1>1, <1>3, <2>1, OthersKeep
    <2>2. CASE d = c /\ ~DecideRead(c)
      BY <1>0, <1>1, <1>3, <2>2, CopyArrivals DEF Keeps
    <2>3. CASE d = c /\ DecideRead(c)
      <3> DEFINE r == call[c].req
                 batch == call[c].batch
      <3>1. /\ call'[c].req = r /\ call'[c].batch = batch /\ requests' = requests
            /\ Decidable(requests[r], batch)
            /\ call'[c].items[k] = DecidedItem(requests[r], batch, k)
        BY <1>0, <2>3, DecideReadEffect DEF Copying
      <3>2. r \in Requests /\ batch \in [Slots -> Verdict]
        BY <1>0, SessionType DEF CallType
      <3>3. Approves(requests[r], batch, k)
        <4>1. batch[k].verdict = "approve" /\ call'[c].items[k].state = "approved"
          BY <2>3, <3>1 DEF Created
        <4>2. DecidedItem(requests[r], batch, k).state = "approved"
          BY <3>1, <4>1
        <4> HIDE DEF r, batch
        <4>3. QED
          BY <1>0, <3>1, <3>2, <4>1, <4>2, DecidedItemFacts
      <3>4. WithinTerms(r, k, DecidedItem(requests[r], batch, k).exp)
        BY <1>0, <3>1, <3>2, <3>3, ApprovalWithinTerms
      <3>5. QED
        BY <2>3, <3>1, <3>4 DEF WithinTerms, WithinNextTerms
    <2>4. QED
      BY <2>1, <2>2, <2>3
  <1>4. CASE Crash
    BY <1>0, <1>4, CrashEffect DEF Copying
  <1>5. QED
    BY <1>0, <1>2, <1>3, <1>4, Cases, EnvironmentEffect DEF vars

LEMMA GrantsAreBoundedStep ==
    ASSUME GrantsInv, CopiesAreBounded, GrantsAreBounded, [Next]_vars
    PROVE  GrantsAreBounded'
  <1>0. TypeOK /\ CopiesAreCurrent
    BY InvParts
  <1> SUFFICES ASSUME NEW r \in Requests, NEW k \in Slots, grants'[<<r, k>>].state # "none"
               PROVE  WithinNextTerms(r, k, grants'[<<r, k>>].exp)
    BY DEF GrantsAreBounded, WithinTerms, WithinNextTerms
  <1>1. <<r, k>> \in Items /\ grants[<<r, k>>] \in [state : {"none", "active", "revoked"}, exp : Nat]
    BY <1>0 DEF Items, TypeOK
  <1>2. ASSUME grants[<<r, k>>].state # "none", grants'[<<r, k>>].exp = grants[<<r, k>>].exp
        PROVE  WithinNextTerms(r, k, grants'[<<r, k>>].exp)
    <2>1. WithinTerms(r, k, grants[<<r, k>>].exp)
      BY <1>2 DEF GrantsAreBounded
    <2>2. Filed(r)
      BY <1>1, <1>2, InvParts DEF ItemsAgreeWithGrants, Filed
    <2>3. WithinNextTerms(r, k, grants[<<r, k>>].exp)
      BY <2>1, <2>2, WithinTermsStays
    <2>4. QED
      BY <1>2, <2>3
  <1>3. CASE grants' = grants
    BY <1>2, <1>3
  <1>4. ASSUME NEW c \in Calls, DecideStore(c), ~UNCHANGED <<requests, grants>>
        PROVE  WithinNextTerms(r, k, grants'[<<r, k>>].exp)
    <2>1. CASE r = call[c].req /\ Created(c, k)
      <3>0. grants'[<<call[c].req, k>>] = [state |-> "active", exp |-> call[c].items[k].exp]
        BY <1>0, <1>4, <2>1, StoredItems
      <3>1. grants'[<<r, k>>].exp = call[c].items[k].exp
        BY <2>1, <3>0
      <3>2. call[c].pc \in Copying /\ Filed(r)
        BY <1>0, <1>4, <2>1, DecideStoreEffect, InvParts DEF Copying, DecidedAreFiled, Deciding
      <3>3. WithinTerms(r, k, call[c].items[k].exp)
        BY <2>1, <3>2 DEF CopiesAreBounded
      <3>4. WithinNextTerms(r, k, call[c].items[k].exp)
        BY <3>2, <3>3, WithinTermsStays
      <3>5. QED
        BY <3>1, <3>4
    <2>2. CASE ~(r = call[c].req /\ Created(c, k))
      <3>1. CASE r = call[c].req
        <4>1. grants'[<<call[c].req, k>>] = grants[<<call[c].req, k>>]
          BY <1>0, <1>4, <2>2, <3>1, StoredItems
        <4>2. QED
          BY <1>2, <3>1, <4>1
      <3>2. CASE r # call[c].req
        <4>1. \A i \in Items : i[1] # call[c].req => grants'[i] = grants[i]
          BY <1>0, <1>4, InsideEffect DEF Inside
        <4>2. grants'[<<r, k>>] = grants[<<r, k>>]
          BY <1>1, <3>2, <4>1
        <4>3. QED
          BY <1>2, <4>2
      <3>3. QED
        BY <3>1, <3>2
    <2>3. QED
      BY <2>1, <2>2
  <1>5. ASSUME NEW c \in Calls, RevokeStore(c), ~UNCHANGED <<requests, grants>>
        PROVE  WithinNextTerms(r, k, grants'[<<r, k>>].exp)
    <2>1. grants'[<<r, k>>] = grants[<<r, k>>]
          \/ /\ grants[<<r, k>>].state = "active"
             /\ grants'[<<r, k>>] = [grants[<<r, k>>] EXCEPT !.state = "revoked"]
      BY <1>0, <1>1, <1>5, StoredRevocation
    <2>2. QED
      BY <1>1, <1>2, <2>1
  <1>6. ASSUME NEW c \in Calls, InsertRequest(c)
        PROVE  grants' = grants
    BY <1>0, <1>6, InsertEffect
  <1>7. QED
    BY <1>0, <1>3, <1>4, <1>5, <1>6, Cases, Writers, EnvironmentEffect, CrashEffect DEF vars
-----------------------------------------------------------------------------
(* The policy and the record.  FitsNext and FitsAheadNext are Fits and      *)
(* FitsAhead after the step, of an expiration known before it.              *)

FitsNext(e, i, expiry) ==
    IF grants'[i].state = "active" /\ grants'[i].exp > now' /\ Owner[i[1]] = e
    THEN expiry = grants'[i].exp
    ELSE expiry <= now'

CreatedNext(c, k) ==
    call'[c].batch[k].verdict = "approve" /\ call'[c].items[k].state = "approved"

FitsAheadNext(c, i, expiry) ==
    IF i[1] = call'[c].req /\ CreatedNext(c, i[2])
    THEN expiry = call'[c].items[i[2]].exp
    ELSE FitsNext(Owner[call'[c].req], i, expiry)

\* A block outlives the Grant it fits by no tick, so time does not matter.
LEMMA FitsLater ==
    ASSUME TypeOK, NEW e \in Entities, NEW i \in Items, NEW expiry \in Nat, Fits(e, i, expiry),
           Owner[i[1]] = e => grants'[i] = grants[i],
           now' \in Nat, now' >= now
    PROVE  FitsNext(e, i, expiry)
  <1>1. now \in Nat /\ grants[i].exp \in Nat
    BY DEF TypeOK
  <1>2. CASE Active(e, i)
    <2>1. expiry = grants[i].exp /\ grants[i].state = "active" /\ Owner[i[1]] = e /\ grants'[i] = grants[i]
      BY <1>2 DEF Fits, Active
    <2>2. QED
      BY <1>1, <2>1 DEF FitsNext
  <1>3. CASE ~Active(e, i)
    <2>1. expiry <= now
      BY <1>3 DEF Fits
    <2>2. expiry <= now'
      BY <1>1, <2>1
    <2>3. ~(grants'[i].state = "active" /\ grants'[i].exp > now' /\ Owner[i[1]] = e)
      BY <1>1, <1>3 DEF Active
    <2>4. QED
      BY <2>2, <2>3 DEF FitsNext
  <1>4. QED
    BY <1>2, <1>3

LEMMA FitsAheadLater ==
    ASSUME TypeOK, NEW c \in Calls, NEW i \in Items, NEW expiry \in Nat, FitsAhead(c, i, expiry),
           Owner[i[1]] = Session(c) => grants'[i] = grants[i],
           now' \in Nat, now' >= now,
           call'[c].req = call[c].req, call'[c].batch = call[c].batch, call'[c].items = call[c].items
    PROVE  FitsAheadNext(c, i, expiry)
  <1>1. Session(c) \in Entities
    BY SessionType
  <1>2. CASE i[1] = call[c].req /\ Created(c, i[2])
    BY <1>2 DEF FitsAhead, FitsAheadNext, Created, CreatedNext
  <1>3. CASE ~(i[1] = call[c].req /\ Created(c, i[2]))
    <2>1. FitsNext(Session(c), i, expiry)
      BY <1>1, <1>3, FitsLater DEF FitsAhead
    <2>2. QED
      BY <1>3, <2>1 DEF FitsAheadNext, Created, CreatedNext, Session
  <1>4. QED
    BY <1>2, <1>3

\* The clock never goes back, and stands still during a step of a goroutine.
LEMMA ClockEffect ==
    ASSUME TypeOK, [Next]_vars
    PROVE  /\ now' \in Nat /\ now' >= now
           /\ \A c \in Calls : Acts(c) => now' = now
  <1>1. now \in Nat
    BY DEF TypeOK
  <1>2. \A c \in Calls : Acts(c) => now' = now
    BY InsideEffect, OutsideEffect, LockEffect, UnlockEffect DEF Acts
  <1>3. Environment => now' = now \/ now' = now + 1
    BY DEF Environment, ExpirePending, Tick, Restart, OperatorSet
  <1>4. Crash \/ UNCHANGED vars => now' = now
    BY DEF Crash, vars
  <1>5. QED
    BY <1>1, <1>2, <1>3, <1>4, Cases

\* What a step of c leaves of the other sessions.
LEMMA OtherSessions ==
    ASSUME TypeOK, NEW c \in Calls, Acts(c), NEW e \in Entities \ {Session(c)}
    PROVE  /\ holder'[e] = holder[e] /\ policy'[e] = policy[e] /\ diverged'[e] = diverged[e]
           /\ \A i \in Items : Owner[i[1]] = e => grants'[i] = grants[i]
  <1>0. /\ holder \in [Entities -> Calls \cup {NoCall}] /\ Session(c) \in Entities
        /\ policy \in [Entities -> [Items -> Nat]] /\ diverged \in [Entities -> BOOLEAN]
    BY SessionType DEF TypeOK
  <1>1. diverged'[e] = diverged[e]
    BY <1>0 DEF Acts, Inside, Outside, FileRequest, InsertRequest, StartDecide, StartRevoke,
           DecideLock, RevokeLock, Unlock, DecideRead, DecideWrite, AttachRead, AttachSet, DecideStore,
           RevokeRead, RevokeWrite, RevokeStore, RestoreRead, RestoreWrite, PolicyWrite,
           WriteSucceeds, WriteLost
  <1>2. CASE Inside(c)
    <2>1. \A i \in Items : Owner[i[1]] = e => i[1] # call[c].req
      BY DEF Session
    <2>2. QED
      BY <1>0, <1>1, <1>2, <2>1, InsideEffect
  <1>3. CASE Outside(c)
    BY <1>1, <1>3, OutsideEffect
  <1>4. CASE DecideLock(c) \/ RevokeLock(c)
    BY <1>0, <1>1, <1>4, LockEffect
  <1>5. CASE Unlock(c)
    BY <1>0, <1>1, <1>5, UnlockEffect
  <1>6. QED
    BY <1>2, <1>3, <1>4, <1>5 DEF Acts

\* diverged only changes with a policy write, or when a restore fails.
LEMMA QuietSteps ==
    ASSUME NEW c \in Calls,
           \/ Outside(c) \/ DecideLock(c) \/ RevokeLock(c) \/ Unlock(c)
           \/ DecideRead(c) \/ AttachRead(c) \/ AttachSet(c) \/ DecideStore(c)
           \/ RevokeRead(c) \/ RevokeStore(c)
    PROVE  diverged' = diverged
  BY DEF Outside, FileRequest, InsertRequest, StartDecide, StartRevoke, DecideLock, RevokeLock,
         Unlock, DecideRead, AttachRead, AttachSet, DecideStore, RevokeRead, RevokeStore

LEMMA WriteOutcome ==
    ASSUME TypeOK, NEW c \in Calls
    PROVE  /\ DecideWrite(c) \/ RevokeWrite(c) =>
                 \/ call'[c].pc # "unlock"
                 \/ diverged'[Session(c)] \/ UNCHANGED <<policy, diverged>>
           /\ RestoreRead(c) => call'[c].pc = "restoreWrite" \/ diverged'[Session(c)]
           /\ RestoreWrite(c) =>
                 \/ diverged'[Session(c)]
                 \/ policy' = [policy EXCEPT ![Session(c)] = call[c].want]
  <1>0. Session(c) \in Entities /\ diverged \in [Entities -> BOOLEAN] /\ call[c] \in CallType
    BY SessionType DEF TypeOK
  <1>1. ASSUME NEW next \in PCs \ {"unlock"}, PolicyWrite(c, next)
        PROVE  \/ call'[c].pc # "unlock"
               \/ diverged'[Session(c)] \/ UNCHANGED <<policy, diverged>>
    <2>1. CASE WriteSucceeds(c) /\ Goto(c, next)
      BY <2>1, GotoKeeps
    <2>2. CASE WriteLost(c)
      BY <1>0, <2>2 DEF WriteLost
    <2>3. CASE (WriteRefused \/ WriteElapsed(c)) /\ UNCHANGED diverged
      BY <2>3 DEF WriteRefused, WriteElapsed
    <2>4. QED
      BY <1>1, <2>1, <2>2, <2>3 DEF PolicyWrite
  <1>2. ASSUME RestoreRead(c)
        PROVE  call'[c].pc = "restoreWrite" \/ diverged'[Session(c)]
    <2>1. CASE diverged' = [diverged EXCEPT ![Session(c)] = TRUE]
      BY <1>0, <2>1
    <2>2. ASSUME NEW want, Become(c, [call[c] EXCEPT !.pc = "restoreWrite", !.want = want])
          PROVE  call'[c].pc = "restoreWrite"
      <3>1. call'[c] = [call[c] EXCEPT !.pc = "restoreWrite", !.want = want]
        BY <2>2, BecomeEffect
      <3>2. QED
        BY <1>0, <3>1 DEF CallType
    <2>3. QED
      BY <1>2, <2>1, <2>2 DEF RestoreRead
  <1>3. ASSUME RestoreWrite(c)
        PROVE  \/ diverged'[Session(c)]
               \/ policy' = [policy EXCEPT ![Session(c)] = call[c].want]
    BY <1>0, <1>3 DEF RestoreWrite, WriteSucceeds, WriteLost
  <1>4. QED
    BY <1>1, <1>2, <1>3 DEF DecideWrite, RevokeWrite, PCs

\* Reading for a decision creates exactly what its batch approves.
LEMMA CreatedIsApproved ==
    ASSUME TypeOK, NEW c \in Calls, DecideRead(c), call'[c].pc # "unlock", NEW k \in Slots
    PROVE  CreatedNext(c, k) <=> Approves(requests[call[c].req], call[c].batch, k)
  <1> DEFINE r == call[c].req
             batch == call[c].batch
  <1>1. r \in Requests /\ batch \in [Slots -> Verdict]
    BY SessionType DEF CallType
  <1>2. /\ Decidable(requests[r], batch) /\ call'[c].batch = batch
        /\ call'[c].items[k] = DecidedItem(requests[r], batch, k)
    BY DecideReadEffect
  <1>3. Approves(requests[r], batch, k) => batch[k].verdict = "approve"
    BY DEF Approves
  <1> HIDE DEF r, batch
  <1>4. batch[k].verdict # "skip" =>
          (DecidedItem(requests[r], batch, k).state = "approved" <=> Approves(requests[r], batch, k))
    BY <1>1, <1>2, DecidedItemFacts
  <1>5. QED
    BY <1>2, <1>3, <1>4 DEF CreatedNext, r, batch

-----------------------------------------------------------------------------
LEMMA WantsFitStep ==
    ASSUME GrantsInv, WantsFit, [Next]_vars
    PROVE  WantsFit'
  <1>0. TypeOK /\ LockHeld /\ now' \in Nat /\ now' >= now
    BY InvParts, ClockEffect
  <1> SUFFICES ASSUME NEW d \in Calls, NEW i \in Items
               PROVE  /\ call'[d].pc = "decideWrite" => FitsAheadNext(d, i, call'[d].want[i])
                      /\ call'[d].pc = "restoreWrite" =>
                            FitsNext(Owner[call'[d].req], i, call'[d].want[i])
                      /\ call'[d].pc = "revokeWrite" /\ i # <<call'[d].req, call'[d].slot>> =>
                            FitsNext(Owner[call'[d].req], i, call'[d].want[i])
    BY DEF WantsFit, FitsAhead, FitsAheadNext, Fits, FitsNext, Active, At, Created, CreatedNext,
           Session, Target
  <1>1. Session(d) \in Entities /\ call[d].want[i] \in Nat
    BY <1>0, SessionType DEF CallType
  <1>2. ASSUME call'[d] = call[d],
               call[d].pc \in Writing /\ Owner[i[1]] = Session(d) => grants'[i] = grants[i]
        PROVE  /\ call'[d].pc = "decideWrite" => FitsAheadNext(d, i, call'[d].want[i])
               /\ call'[d].pc = "restoreWrite" =>
                     FitsNext(Owner[call'[d].req], i, call'[d].want[i])
               /\ call'[d].pc = "revokeWrite" /\ i # <<call'[d].req, call'[d].slot>> =>
                     FitsNext(Owner[call'[d].req], i, call'[d].want[i])
    <2>1. ASSUME call[d].pc = "decideWrite"
          PROVE  FitsAheadNext(d, i, call'[d].want[i])
      <3>1. FitsAhead(d, i, call[d].want[i])
        BY <2>1 DEF WantsFit, At
      <3>2. FitsAheadNext(d, i, call[d].want[i])
        BY <1>0, <1>1, <1>2, <2>1, <3>1, FitsAheadLater DEF Writing
      <3>3. QED
        BY <1>2, <3>2
    <2>2. ASSUME \/ call[d].pc = "restoreWrite"
                 \/ call[d].pc = "revokeWrite" /\ i # Target(d)
          PROVE  FitsNext(Session(d), i, call[d].want[i])
      <3>1. Fits(Session(d), i, call[d].want[i])
        BY <2>2 DEF WantsFit, At
      <3>2. QED
        BY <1>0, <1>1, <1>2, <2>2, <3>1, FitsLater DEF Writing
    <2>3. QED
      BY <1>2, <2>1, <2>2 DEF Session, Target
  <1>3. CASE Environment \/ UNCHANGED vars
    BY <1>0, <1>2, <1>3, EnvironmentEffect DEF vars
  <1>4. CASE Crash
    BY <1>0, <1>4, CrashEffect
  <1>5. ASSUME NEW c \in Calls, Acts(c), d # c
        PROVE  /\ call'[d] = call[d]
               /\ call[d].pc \in Writing /\ Owner[i[1]] = Session(d) => grants'[i] = grants[i]
    BY <1>0, <1>5, OthersKeep, Undisturbed DEF Acts, Writing, Locked, PCs
  <1>6. CASE DecideRead(d) /\ call'[d].pc = "decideWrite"
    <2> DEFINE r == call[d].req
               batch == call[d].batch
    <2>1. /\ call'[d].req = r /\ grants' = grants /\ now' = now
          /\ call'[d].want = BlocksWith(r, call'[d].items, batch)
          /\ Decidable(requests[r], batch)
      BY <1>0, <1>6, DecideReadEffect
    <2>2. i[2] \in Slots
      BY ItemPair
    <2>3. CreatedNext(d, i[2]) <=> Approves(requests[r], batch, i[2])
      BY <1>0, <1>6, <2>2, CreatedIsApproved
    <2>4. grants[i].exp \in Nat /\ now \in Nat
      BY <1>0 DEF TypeOK
    <2>5. CASE i[1] = r /\ Approves(requests[r], batch, i[2])
      <3>0. ~Active(Owner[r], i)
        <4>1. requests[i[1]].items[i[2]].state = "pending"
          BY <2>1, <2>2, <2>5 DEF Approves, Decidable
        <4>2. grants[<<i[1], i[2]>>].state # "active"
          BY <4>1, ItemPair, InvParts DEF ItemsAgreeWithGrants
        <4>3. QED
          BY <4>2, ItemPair DEF Active
      <3>1. call'[d].want[i] = call'[d].items[i[2]].exp
        BY <2>1, <2>5, <3>0, Zenon DEF BlocksWith
      <3>2. QED
        BY <1>6, <2>1, <2>3, <2>5, <3>1 DEF FitsAheadNext
    <2>6. CASE ~(i[1] = r /\ Approves(requests[r], batch, i[2]))
      <3>1. call'[d].want[i] = IF Active(Owner[r], i) THEN grants[i].exp ELSE 0
        <4>1. CASE Active(Owner[r], i)
          BY <2>1, <2>6, <4>1, Zenon DEF BlocksWith
        <4>2. CASE ~Active(Owner[r], i)
          BY <2>1, <2>6, <4>2, Zenon DEF BlocksWith
        <4>3. QED
          BY <4>1, <4>2
      <3>2. FitsNext(Owner[r], i, call'[d].want[i])
        BY <2>1, <2>4, <3>1 DEF FitsNext, Active
      <3>3. QED
        BY <1>6, <2>1, <2>3, <2>6, <3>2 DEF FitsAheadNext
    <2>7. QED
      BY <2>5, <2>6
  <1>7. CASE RevokeRead(d) /\ call'[d].pc = "revokeWrite"
    <2>1. /\ call'[d].req = call[d].req /\ call'[d].slot = call[d].slot /\ grants' = grants /\ now' = now
          /\ call'[d].want = BlocksWithout(Session(d), Target(d))
      BY <1>0, <1>7, RevokeReadEffect
    <2>2. call'[d].want[i] = IF Active(Session(d), i) /\ i # Target(d) THEN grants[i].exp ELSE 0
      BY <2>1 DEF BlocksWithout
    <2>3. grants[i].exp \in Nat /\ now \in Nat
      BY <1>0 DEF TypeOK
    <2>4. QED
      BY <1>7, <2>1, <2>2, <2>3 DEF FitsNext, Active, Session, Target
  <1>8. CASE RestoreRead(d) /\ call'[d].pc = "restoreWrite"
    <2>1. /\ call'[d].req = call[d].req /\ grants' = grants /\ now' = now
          /\ call'[d].want = [j \in Items |-> IF Active(Session(d), j) THEN grants[j].exp ELSE 0]
      BY <1>0, <1>8, RestoreEffect
    <2>2. call'[d].want[i] = IF Active(Session(d), i) THEN grants[i].exp ELSE 0
      BY <2>1
    <2>3. grants[i].exp \in Nat /\ now \in Nat
      BY <1>0 DEF TypeOK
    <2>4. QED
      BY <1>8, <2>1, <2>2, <2>3 DEF FitsNext, Active, Session
  <1>9. CASE Acts(d)
    BY <1>0, <1>6, <1>7, <1>8, <1>9, Arrivals
  <1>10. QED
    BY <1>2, <1>3, <1>4, <1>5, <1>9, Cases

-----------------------------------------------------------------------------
(* What a goroutine's own step leaves of its session's policy.              *)

Reading == {"decideRead", "decideWrite", "revokeRead", "revokeWrite", "unlock"}
Attaching == {"attachRead", "attachSet", "decideStore"}

\* What PoliciesFit says of goroutine c and item i, before and after a step.
PolicyFits(c, i) ==
    ~diverged[Session(c)] =>
        /\ call[c].pc \in Reading => Fits(Session(c), i, policy[Session(c)][i])
        /\ call[c].pc \in Attaching => FitsAhead(c, i, policy[Session(c)][i])
        /\ At(c, "revokeStore") /\ i # Target(c) => Fits(Session(c), i, policy[Session(c)][i])

PolicyFitsNext(c, i) ==
    ~diverged'[Owner[call'[c].req]] =>
        /\ call'[c].pc \in Reading => FitsNext(Owner[call'[c].req], i, policy'[Owner[call'[c].req]][i])
        /\ call'[c].pc \in Attaching => FitsAheadNext(c, i, policy'[Owner[call'[c].req]][i])
        /\ call'[c].pc = "revokeStore" /\ i # <<call'[c].req, call'[c].slot>> =>
              FitsNext(Owner[call'[c].req], i, policy'[Owner[call'[c].req]][i])

\* It stays that way as long as neither c nor its session's state moves.
LEMMA PolicyFitsStays ==
    ASSUME TypeOK, NEW c \in Calls, NEW i \in Items, PolicyFits(c, i), call'[c] = call[c],
           call[c].pc \in Locked =>
               /\ diverged'[Session(c)] = diverged[Session(c)]
               /\ policy'[Session(c)] = policy[Session(c)]
               /\ Owner[i[1]] = Session(c) => grants'[i] = grants[i],
           now' \in Nat, now' >= now
    PROVE  PolicyFitsNext(c, i)
  <1>1. Session(c) \in Entities /\ policy[Session(c)][i] \in Nat
    BY SessionType DEF TypeOK
  <1> SUFFICES ASSUME ~diverged[Session(c)], call[c].pc \in Locked
               PROVE  PolicyFitsNext(c, i)
    BY DEF PolicyFitsNext, Session, Reading, Attaching, Locked, PCs
  <1>2. CASE call[c].pc \in Attaching
    <2>1. FitsAhead(c, i, policy[Session(c)][i])
      BY <1>2 DEF PolicyFits
    <2>2. FitsAheadNext(c, i, policy[Session(c)][i])
      BY <1>1, <2>1, FitsAheadLater
    <2>3. QED
      BY <1>2, <2>2 DEF PolicyFitsNext, Session, Reading, Attaching
  <1>3. CASE call[c].pc \in Reading \/ (call[c].pc = "revokeStore" /\ i # Target(c))
    <2>1. Fits(Session(c), i, policy[Session(c)][i])
      BY <1>3 DEF PolicyFits, At
    <2>2. FitsNext(Session(c), i, policy[Session(c)][i])
      BY <1>1, <2>1, FitsLater
    <2>3. QED
      BY <1>3, <2>2 DEF PolicyFitsNext, Session, Reading, Attaching
  <1>4. CASE /\ call[c].pc \notin Reading /\ call[c].pc \notin Attaching
            /\ ~(call[c].pc = "revokeStore" /\ i # Target(c))
    <2>1. /\ call'[c].pc \notin Reading /\ call'[c].pc \notin Attaching
          /\ ~(call'[c].pc = "revokeStore" /\ i # <<call'[c].req, call'[c].slot>>)
      BY <1>4 DEF Target
    <2>2. QED
      BY <2>1, Zenon DEF PolicyFitsNext
  <1>5. QED
    BY <1>2, <1>3, <1>4

LEMMA ReadsKeepFit ==
    ASSUME GrantsInv, [Next]_vars, NEW c \in Calls, NEW i \in Items, PolicyFits(c, i),
           DecideRead(c) \/ RevokeRead(c)
    PROVE  PolicyFitsNext(c, i)
  <1>0. TypeOK /\ now' = now /\ now' \in Nat /\ Acts(c)
    BY InvParts, ClockEffect DEF Acts, Inside
  <1>1. /\ Session(c) \in Entities /\ policy[Session(c)][i] \in Nat /\ i[2] \in Slots
        /\ now \in Nat
    BY <1>0, SessionType, ItemPair DEF TypeOK
  <1>2. /\ call[c].pc \in Reading /\ call'[c].req = call[c].req
        /\ UNCHANGED <<grants, policy>> /\ diverged' = diverged
    BY <1>0, DecideReadEffect, RevokeReadEffect, QuietSteps DEF Reading
  <1> SUFFICES ASSUME ~diverged[Session(c)]
               PROVE  PolicyFitsNext(c, i)
    BY <1>2 DEF PolicyFitsNext, Session
  <1>3. Fits(Session(c), i, policy[Session(c)][i])
    BY <1>2 DEF PolicyFits
  <1>4. FitsNext(Session(c), i, policy'[Session(c)][i])
    BY <1>0, <1>1, <1>2, <1>3, FitsLater
  <1>5. CASE DecideRead(c)
    <2>1. call'[c].pc \in {"unlock", "decideWrite", "decideStore"}
      BY <1>0, <1>5, DecideReadEffect
    <2>2. call'[c].pc = "decideStore" => ~CreatedNext(c, i[2])
      BY <1>0, <1>1, <1>5, DecideReadEffect, CreatedIsApproved
    <2>3. QED
      BY <1>2, <1>4, <2>1, <2>2 DEF PolicyFitsNext, FitsAheadNext, Session, Reading, Attaching
  <1>6. CASE RevokeRead(c)
    BY <1>0, <1>2, <1>4, <1>6, RevokeReadEffect DEF PolicyFitsNext, Session, Reading, Attaching
  <1>7. QED
    BY <1>5, <1>6

LEMMA WritesKeepFit ==
    ASSUME GrantsInv, WantsFit, [Next]_vars, NEW c \in Calls, NEW i \in Items, PolicyFits(c, i),
           DecideWrite(c) \/ RevokeWrite(c)
    PROVE  PolicyFitsNext(c, i)
  <1>0. TypeOK /\ now' = now /\ now' \in Nat /\ now \in Nat
    BY InvParts, ClockEffect DEF Acts, Inside
  <1>1. /\ Session(c) \in Entities /\ policy[Session(c)][i] \in Nat /\ call[c].want[i] \in Nat
        /\ policy \in [Entities -> [Items -> Nat]]
    BY <1>0, SessionType DEF TypeOK, CallType
  <1>2. /\ call[c].pc \in Reading /\ call'[c].req = call[c].req /\ UNCHANGED grants
    BY <1>0, WriteEffect DEF Reading
  <1> SUFFICES ASSUME ~diverged'[Session(c)]
               PROVE  PolicyFitsNext(c, i)
    BY <1>2 DEF PolicyFitsNext, Session
  <1>3. CASE call'[c].pc = "unlock"
    <2>1. UNCHANGED <<policy, diverged>>
      BY <1>0, <1>3, WriteOutcome
    <2>2. Fits(Session(c), i, policy[Session(c)][i])
      BY <1>2, <2>1 DEF PolicyFits
    <2>3. FitsNext(Session(c), i, policy'[Session(c)][i])
      BY <1>0, <1>1, <1>2, <2>1, <2>2, FitsLater
    <2>4. QED
      BY <1>2, <1>3, <2>3 DEF PolicyFitsNext, Session, Reading, Attaching
  <1>4. CASE call[c].pc = "decideWrite" /\ call'[c].pc = "attachRead"
    <2>1. Keeps(c) /\ policy'[Session(c)][i] = call[c].want[i]
      BY <1>0, <1>1, <1>4, WriteEffect
    <2>2. FitsAhead(c, i, call[c].want[i])
      BY <1>4 DEF WantsFit, At
    <2>3. FitsAheadNext(c, i, call[c].want[i])
      BY <1>0, <1>1, <1>2, <2>1, <2>2, FitsAheadLater DEF Keeps
    <2>4. QED
      BY <1>2, <1>4, <2>1, <2>3 DEF PolicyFitsNext, Session, Reading, Attaching
  <1>5. CASE call[c].pc = "revokeWrite" /\ call'[c].pc = "revokeStore"
    <2>1. Keeps(c) /\ policy'[Session(c)][i] = call[c].want[i]
      BY <1>0, <1>1, <1>5, WriteEffect
    <2>2. i # Target(c) => Fits(Session(c), i, call[c].want[i])
      BY <1>5 DEF WantsFit, At
    <2>3. i # Target(c) => FitsNext(Session(c), i, call[c].want[i])
      BY <1>0, <1>1, <1>2, <2>2, FitsLater
    <2>4. QED
      BY <1>2, <1>5, <2>1, <2>3 DEF PolicyFitsNext, Session, Reading, Attaching, Keeps, Target
  <1>6. QED
    BY <1>0, <1>3, <1>4, <1>5, WriteEffect

LEMMA AttachingKeepsFit ==
    ASSUME GrantsInv, [Next]_vars, NEW c \in Calls, NEW i \in Items, PolicyFits(c, i),
           AttachRead(c) \/ AttachSet(c)
    PROVE  PolicyFitsNext(c, i)
  <1>0. TypeOK /\ now' = now /\ now' \in Nat /\ now \in Nat
    BY InvParts, ClockEffect DEF Acts, Inside
  <1>1. Session(c) \in Entities /\ policy[Session(c)][i] \in Nat
    BY <1>0, SessionType DEF TypeOK
  <1>2. /\ call[c].pc \in Attaching /\ call'[c].req = call[c].req
        /\ UNCHANGED <<grants, policy>> /\ diverged' = diverged
    BY <1>0, AttachEffect, QuietSteps DEF Attaching
  <1> SUFFICES ASSUME ~diverged[Session(c)]
               PROVE  PolicyFitsNext(c, i)
    BY <1>2 DEF PolicyFitsNext, Session
  <1>3. CASE call'[c].pc = "restoreRead"
    BY <1>3 DEF PolicyFitsNext, Reading, Attaching
  <1>4. CASE call'[c].pc \in {"attachSet", "decideStore"} /\ Keeps(c)
    <2>1. FitsAhead(c, i, policy[Session(c)][i])
      BY <1>2 DEF PolicyFits
    <2>2. FitsAheadNext(c, i, policy[Session(c)][i])
      BY <1>0, <1>1, <1>2, <1>4, <2>1, FitsAheadLater DEF Keeps
    <2>3. QED
      BY <1>2, <1>4, <2>2 DEF PolicyFitsNext, Session, Reading, Attaching
  <1>5. QED
    BY <1>0, <1>3, <1>4, AttachEffect

LEMMA StoringKeepsFit ==
    ASSUME GrantsInv, [Next]_vars, NEW c \in Calls, NEW i \in Items, PolicyFits(c, i),
           DecideStore(c)
    PROVE  PolicyFitsNext(c, i)
  <1>0. TypeOK /\ CopiesAreCurrent /\ now' = now /\ now' \in Nat /\ now \in Nat
    BY InvParts, ClockEffect DEF Acts, Inside
  <1>1. /\ Session(c) \in Entities /\ policy[Session(c)][i] \in Nat
        /\ i[2] \in Slots /\ i = <<i[1], i[2]>>
    BY <1>0, SessionType, ItemPair DEF TypeOK
  <1>2. /\ call[c].pc = "decideStore" /\ call'[c].pc \in {"unlock", "restoreRead"}
        /\ call'[c].req = call[c].req /\ UNCHANGED policy /\ diverged' = diverged
    BY <1>0, DecideStoreEffect, QuietSteps
  <1> SUFFICES ASSUME ~diverged[Session(c)], call'[c].pc = "unlock"
               PROVE  FitsNext(Session(c), i, policy[Session(c)][i])
    BY <1>2 DEF PolicyFitsNext, Session, Reading, Attaching
  <1>3. FitsAhead(c, i, policy[Session(c)][i])
    BY <1>2 DEF PolicyFits, Attaching
  <1>4. CASE UndoDecide(c) /\ UNCHANGED grants
    <2>1. ~ \E k \in Slots : Created(c, k)
      BY <1>0, <1>4, FinishKeeps DEF UndoDecide
    <2>2. Fits(Session(c), i, policy[Session(c)][i])
      BY <1>1, <1>3, <2>1 DEF FitsAhead
    <2>3. QED
      BY <1>0, <1>1, <1>4, <2>2, FitsLater
  <1>5. CASE grants' = [j \in Items |->
                  IF j[1] = call[c].req /\ Created(c, j[2])
                  THEN [state |-> "active", exp |-> call[c].items[j[2]].exp]
                  ELSE grants[j]]
    <2>1. CASE i[1] = call[c].req /\ Created(c, i[2])
      <3>1. grants'[i] = [state |-> "active", exp |-> call[c].items[i[2]].exp]
        BY <1>5, <2>1
      <3>2. policy[Session(c)][i] = call[c].items[i[2]].exp
        BY <1>3, <2>1 DEF FitsAhead
      <3>3. QED
        BY <1>0, <1>1, <2>1, <3>1, <3>2 DEF FitsNext, Session
    <2>2. CASE ~(i[1] = call[c].req /\ Created(c, i[2]))
      <3>1. Fits(Session(c), i, policy[Session(c)][i]) /\ grants'[i] = grants[i]
        BY <1>3, <1>5, <2>2 DEF FitsAhead
      <3>2. QED
        BY <1>0, <1>1, <3>1, FitsLater
    <2>3. QED
      BY <2>1, <2>2
  <1>6. QED
    BY <1>4, <1>5 DEF DecideStore, stored

LEMMA RevokingKeepsFit ==
    ASSUME GrantsInv, [Next]_vars, NEW c \in Calls, NEW i \in Items, PolicyFits(c, i),
           RevokeStore(c)
    PROVE  PolicyFitsNext(c, i)
  <1>0. TypeOK /\ RevokedFirstInOpenBao /\ now' = now /\ now' \in Nat /\ now \in Nat
    BY InvParts, ClockEffect DEF Acts, Inside
  <1>1. Session(c) \in Entities /\ policy[Session(c)][i] \in Nat /\ Target(c) \in Items
    BY <1>0, SessionType DEF TypeOK
  <1>2. /\ call[c].pc = "revokeStore" /\ call'[c].pc \in {"unlock", "restoreRead"}
        /\ call'[c].req = call[c].req /\ UNCHANGED policy /\ diverged' = diverged
    BY <1>0, RevokeStoreEffect, QuietSteps
  <1> SUFFICES ASSUME ~diverged[Session(c)], call'[c].pc = "unlock"
               PROVE  FitsNext(Session(c), i, policy[Session(c)][i])
    BY <1>2 DEF PolicyFitsNext, Session, Reading, Attaching
  <1>3. grants' = [grants EXCEPT ![Target(c)].state = "revoked"]
    BY <1>0, <1>2, FinishKeeps DEF RevokeStore
  <1>4. CASE i = Target(c)
    <2>1. policy[Session(c)][i] = 0
      BY <1>0, <1>2, <1>4 DEF RevokedFirstInOpenBao, At
    <2>2. grants'[i].state = "revoked"
      BY <1>0, <1>1, <1>3, <1>4 DEF TypeOK
    <2>3. QED
      BY <1>0, <2>1, <2>2 DEF FitsNext
  <1>5. CASE i # Target(c)
    <2>1. Fits(Session(c), i, policy[Session(c)][i])
      BY <1>2, <1>5 DEF PolicyFits, At
    <2>2. grants'[i] = grants[i]
      BY <1>0, <1>3, <1>5 DEF TypeOK
    <2>3. QED
      BY <1>0, <1>1, <2>1, <2>2, FitsLater
  <1>6. QED
    BY <1>4, <1>5

LEMMA RestoringKeepsFit ==
    ASSUME GrantsInv, WantsFit, [Next]_vars, NEW c \in Calls, NEW i \in Items,
           RestoreRead(c) \/ RestoreWrite(c)
    PROVE  PolicyFitsNext(c, i)
  <1>0. TypeOK /\ now' = now /\ now' \in Nat /\ now \in Nat
    BY InvParts, ClockEffect DEF Acts, Inside
  <1>1. /\ Session(c) \in Entities /\ call[c].want[i] \in Nat
        /\ policy \in [Entities -> [Items -> Nat]]
    BY <1>0, SessionType DEF TypeOK, CallType
  <1>2. /\ call'[c].req = call[c].req /\ UNCHANGED grants
        /\ call'[c].pc \in {"unlock", "restoreWrite"}
    BY <1>0, RestoreEffect
  <1> SUFFICES ASSUME ~diverged'[Session(c)], call'[c].pc = "unlock"
               PROVE  FitsNext(Session(c), i, policy'[Session(c)][i])
    BY <1>2 DEF PolicyFitsNext, Session, Reading, Attaching
  <1>3. RestoreWrite(c) /\ policy' = [policy EXCEPT ![Session(c)] = call[c].want]
    BY <1>0, WriteOutcome
  <1>4. policy'[Session(c)][i] = call[c].want[i] /\ Fits(Session(c), i, call[c].want[i])
    BY <1>1, <1>3 DEF WantsFit, RestoreWrite
  <1>5. QED
    BY <1>0, <1>1, <1>2, <1>4, FitsLater

\* Inside the lock, a goroutine's own step keeps what PoliciesFit says of it.
LEMMA OwnStepKeepsFit ==
    ASSUME GrantsInv, WantsFit, PoliciesFit, [Next]_vars, NEW c \in Calls, Acts(c), NEW i \in Items
    PROVE  PolicyFitsNext(c, i)
  <1>0. TypeOK /\ LockHeld /\ now' = now /\ now' \in Nat /\ now \in Nat
    BY InvParts, ClockEffect
  <1>1. PolicyFits(c, i)
    BY DEF PoliciesFit, PolicyFits, Reading, Attaching
  <1>2. ASSUME call'[c].pc \notin Reading, call'[c].pc \notin Attaching, call'[c].pc # "revokeStore"
        PROVE  PolicyFitsNext(c, i)
    BY <1>2, Zenon DEF PolicyFitsNext
  <1>3. CASE Outside(c) \/ Unlock(c)
    BY <1>0, <1>2, <1>3, OutsideEffect, UnlockEffect DEF Reading, Attaching
  <1>4. CASE DecideLock(c) \/ RevokeLock(c)
    <2>1. /\ call'[c].req = call[c].req /\ call'[c].pc \in {"decideRead", "revokeRead"}
          /\ UNCHANGED <<grants, policy>> /\ diverged' = diverged
          /\ holder[Session(c)] = NoCall
          /\ Session(c) \in Entities /\ policy[Session(c)][i] \in Nat
      BY <1>0, <1>4, LockEffect, QuietSteps, SessionType DEF Keeps, TypeOK
    <2> SUFFICES ASSUME ~diverged[Session(c)]
                 PROVE  FitsNext(Session(c), i, policy[Session(c)][i])
      BY <2>1 DEF PolicyFitsNext, Session, Reading, Attaching
    <2>2. Fits(Session(c), i, policy[Session(c)][i])
      BY <2>1 DEF PoliciesFit
    <2>3. QED
      BY <1>0, <2>1, <2>2, FitsLater
  <1>5. CASE Inside(c)
    BY <1>1, <1>5, ReadsKeepFit, WritesKeepFit, AttachingKeepsFit, StoringKeepsFit,
       RevokingKeepsFit, RestoringKeepsFit DEF Inside
  <1>6. QED
    BY <1>3, <1>4, <1>5 DEF Acts

\* Between calls the policy of a session keeps fitting.
LEMMA IdleKeepsFit ==
    ASSUME GrantsInv, PoliciesFit, [Next]_vars, NEW e \in Entities, NEW i \in Items,
           holder'[e] = NoCall, ~diverged'[e]
    PROVE  FitsNext(e, i, policy'[e][i])
  <1>0. TypeOK /\ LockHeld /\ now' \in Nat /\ now' >= now
    BY InvParts, ClockEffect
  <1>1. policy[e][i] \in Nat /\ holder \in [Entities -> Calls \cup {NoCall}]
        /\ diverged \in [Entities -> BOOLEAN]
    BY <1>0 DEF TypeOK
  <1>2. ASSUME holder[e] = NoCall, ~diverged[e], policy'[e] = policy[e],
               Owner[i[1]] = e => grants'[i] = grants[i]
        PROVE  FitsNext(e, i, policy'[e][i])
    <2>1. Fits(e, i, policy[e][i])
      BY <1>2 DEF PoliciesFit
    <2>2. FitsNext(e, i, policy[e][i])
      BY <1>0, <1>1, <1>2, <2>1, FitsLater
    <2>3. QED
      BY <1>2, <2>2
  <1>3. CASE Environment \/ UNCHANGED vars
    <2>1. UNCHANGED <<grants, policy, holder>> /\ diverged' = diverged
      BY <1>0, <1>3, EnvironmentEffect DEF vars, Environment, ExpirePending, Tick, Restart, OperatorSet
    <2>2. QED
      BY <1>2, <2>1
  <1>4. CASE Crash
    <2>1. ~(diverged[e] \/ holder[e] # NoCall)
      BY <1>4 DEF Crash
    <2>2. QED
      BY <1>0, <1>2, <1>4, <2>1, CrashEffect
  <1>5. ASSUME NEW c \in Calls, Acts(c), e # Session(c)
        PROVE  FitsNext(e, i, policy'[e][i])
    BY <1>0, <1>2, <1>5, OtherSessions
  <1>6. ASSUME NEW c \in Calls, Acts(c), e = Session(c)
        PROVE  FitsNext(e, i, policy'[e][i])
    <2>1. CASE Outside(c)
      BY <1>0, <1>2, <1>6, <2>1, OutsideEffect, QuietSteps
    <2>2. CASE DecideLock(c) \/ RevokeLock(c)
      BY <1>0, <1>1, <1>6, <2>2, LockEffect, NamesAssumption
    <2>3. CASE Inside(c)
      <3>1. holder[e] = c /\ holder' = holder
        BY <1>0, <1>6, <2>3, InsideEffect DEF LockHeld
      <3>2. QED
        BY <3>1, NamesAssumption
    <2>4. CASE Unlock(c)
      <3>1. call[c].pc = "unlock" /\ UNCHANGED <<grants, policy>> /\ diverged' = diverged
        BY <1>0, <2>4, UnlockEffect, QuietSteps
      <3>2. Fits(e, i, policy[e][i])
        BY <1>6, <3>1 DEF PoliciesFit
      <3>3. FitsNext(e, i, policy[e][i])
        BY <1>0, <1>1, <3>1, <3>2, FitsLater
      <3>4. QED
        BY <3>1, <3>3
    <2>5. QED
      BY <1>6, <2>1, <2>2, <2>3, <2>4 DEF Acts
  <1>7. QED
    BY <1>3, <1>4, <1>5, <1>6, Cases

LEMMA PoliciesFitStep ==
    ASSUME GrantsInv, WantsFit, PoliciesFit, [Next]_vars
    PROVE  PoliciesFit'
  <1>0. TypeOK /\ LockHeld /\ now' \in Nat /\ now' >= now
    BY InvParts, ClockEffect
  <1>1. ASSUME NEW d \in Calls, NEW i \in Items
        PROVE  PolicyFitsNext(d, i)
    <2>1. PolicyFits(d, i)
      BY DEF PoliciesFit, PolicyFits, Reading, Attaching
    <2>2. CASE Environment \/ UNCHANGED vars
      <3>1. UNCHANGED <<grants, policy, call>> /\ diverged' = diverged
        BY <1>0, <2>2, EnvironmentEffect DEF vars, Environment, ExpirePending, Tick, Restart, OperatorSet
      <3>2. QED
        BY <1>0, <2>1, <3>1, PolicyFitsStays
    <2>3. CASE Crash
      <3>1. call'[d].pc = "idle"
        BY <1>0, <2>3, CrashEffect
      <3>2. QED
        BY <3>1 DEF PolicyFitsNext, Reading, Attaching
    <2>4. ASSUME NEW c \in Calls, Acts(c), d # c
          PROVE  PolicyFitsNext(d, i)
      <3>1. call'[d] = call[d]
        BY <1>0, <2>4, OthersKeep
      <3>2. ASSUME call[d].pc \in Locked
            PROVE  /\ diverged'[Session(d)] = diverged[Session(d)]
                   /\ policy'[Session(d)] = policy[Session(d)]
                   /\ Owner[i[1]] = Session(d) => grants'[i] = grants[i]
        <4>1. Session(d) \in Entities
          BY <1>0, SessionType
        <4>2. CASE Session(d) # Session(c)
          BY <1>0, <2>4, <4>1, <4>2, OtherSessions
        <4>3. CASE Session(d) = Session(c)
          <5>1. ~Inside(c) /\ ~Unlock(c)
            BY <1>0, <2>4, <3>2, <4>3, Alone, InsideEffect, UnlockEffect DEF Locked, PCs
          <5>2. diverged' = diverged
            BY <2>4, <5>1, QuietSteps DEF Acts
          <5>3. QED
            BY <1>0, <2>4, <3>2, <5>2, Undisturbed DEF Acts
        <4>4. QED
          BY <4>2, <4>3
      <3>3. QED
        BY <1>0, <2>1, <3>1, <3>2, PolicyFitsStays
    <2>5. QED
      BY <2>2, <2>3, <2>4, OwnStepKeepsFit, Cases
  <1>2. PoliciesFit' =
            (/\ \A e \in Entities, i \in Items :
                   holder'[e] = NoCall /\ ~diverged'[e] => FitsNext(e, i, policy'[e][i])
             /\ \A c \in Calls, i \in Items : PolicyFitsNext(c, i))
    BY DEF PoliciesFit, PolicyFitsNext, Fits, FitsNext, FitsAhead, FitsAheadNext, Active, At,
           Created, CreatedNext, Session, Target, Reading, Attaching
  <1>3. QED
    BY <1>1, <1>2, IdleKeepsFit

-----------------------------------------------------------------------------
LEMMA RecordInvInit == Init => RecordInv
  <1> SUFFICES ASSUME Init
               PROVE  RecordInv
    OBVIOUS
  <1>1. GrantsInv
    BY GrantsInvInit
  <1>2. /\ \A c \in Calls : call[c].pc = "idle"
        /\ \A e \in Entities, i \in Items : policy[e][i] = 0
        /\ \A i \in Items : grants[i].state = "none"
        /\ now = 0
    BY IdleFacts DEF Init, NoBlocks
  <1>3. WantsFit
    BY <1>2 DEF WantsFit, At
  <1>4. PoliciesFit
    BY <1>2 DEF PoliciesFit, At, Fits, Active
  <1>5. CopiesAreBounded
    BY <1>2 DEF CopiesAreBounded, Copying
  <1>6. GrantsAreBounded
    BY <1>2 DEF GrantsAreBounded, Items
  <1>7. QED
    BY <1>1, <1>3, <1>4, <1>5, <1>6 DEF RecordInv

LEMMA RecordInvStep == RecordInv /\ [Next]_vars => RecordInv'
  BY GrantsInvStep, WantsFitStep, PoliciesFitStep, CopiesAreBoundedStep, GrantsAreBoundedStep
     DEF RecordInv

\* The inductive invariant of the record, of OpenBao and of the goroutines
\* between them (Decide, Revoke, restorePolicy in internal/grants/service.go).
THEOREM RecordInvHolds == Spec => []RecordInv
  <1>1. RecordInv /\ [Next]_vars => RecordInv'
    BY RecordInvStep
  <1>2. QED
    BY <1>1, RecordInvInit, PTL DEF Spec

\* No Grant is approved after its request's deadline or for longer than Resolve
\* allowed when it was filed, and expirations are whole seconds (checkDecision
\* and approvalTTL, whatever configuration a later process reads).
THEOREM GrantsStayBounded == Spec => []GrantsAreBounded
  <1>1. RecordInv => GrantsAreBounded
    BY DEF RecordInv
  <1>2. QED
    BY <1>1, RecordInvHolds, PTL

\* A session that nobody is deciding for has, in OpenBao, exactly the access
\* its active Grants record, unless a policy write failed, ended in doubt or
\* was cut off by a crash (writePolicy before the store, restorePolicy after).
THEOREM PoliciesMatch == Spec => []PolicyMatchesGrants
  <1>1. RecordInv => PolicyMatchesGrants
    <2> SUFFICES ASSUME RecordInv, NEW e \in Entities, holder[e] = NoCall, ~diverged[e], NEW i \in Items
                 PROVE  /\ LiveBlock(e, i) <=> Active(e, i)
                        /\ Active(e, i) => policy[e][i] = grants[i].exp
      BY DEF PolicyMatchesGrants
    <2>1. policy[e][i] \in Nat /\ now \in Nat /\ grants[i].exp \in Nat
      BY DEF RecordInv, GrantsInv, TypeOK
    <2>2. LiveBlock(e, i) <=> policy[e][i] > now
      BY <2>1 DEF LiveBlock, PolicyElapsed
    <2>3. Fits(e, i, policy[e][i])
      BY DEF RecordInv, PoliciesFit
    <2>4. QED
      BY <2>1, <2>2, <2>3 DEF Fits, Active
  <1>2. QED
    BY <1>1, RecordInvHolds, PTL
=============================================================================
