------------------------- MODULE GrantsSteps_proofs --------------------------
(***************************************************************************)
(* Grants keeps its types, for any number of sessions, requests, items,    *)
(* goroutines and faults, any configurations and any bounds; and, as       *)
(* lemmas for the other proofs about it, what its steps do: first what     *)
(* each step does to the locals of its goroutine, then what a step leaves  *)
(* alone.  There the session lock does the work: a goroutine inside it     *)
(* knows that nobody else changes its session's requests, Grants or        *)
(* policy, but for the sweep.                                              *)
(***************************************************************************)
EXTENDS Grants, TLAPS
-----------------------------------------------------------------------------
(* Types.                                                                   *)

\* The defaults of the locals exist.
LEMMA Defaults == AnyRequest \in Requests /\ AnySlot \in Slots /\ AnyPath \in Paths
  BY RequestsAssumption, SlotsAssumption, PathsAssumption DEF AnyRequest, AnySlot, AnyPath

LEMMA AbsentType == Absent \in [Slots -> ItemType]
  BY Defaults DEF Absent, ItemType, ItemStates

LEMMA IdleType == Idle \in CallType
  BY Defaults, AbsentType DEF Idle, CallType, PCs, NoBatch, Verdict, NoBlocks

\* Rounding down to whole seconds stays a time.
LEMMA WholeSecondsType == \A t \in Nat : WholeSeconds(t) \in Nat
  <1> SUFFICES ASSUME NEW t \in Nat
               PROVE  t % Second <= t
      BY TimesAssumption DEF WholeSeconds
  <1>1. Second \in Nat \ {0}
    BY TimesAssumption
  <1>2. QED
    BY <1>1

\* Resolving and deciding an item give an item.
LEMMA FiledItemType ==
    ASSUME TypeOK, NEW input \in Inputs, NEW k \in Slots, NEW covered
    PROVE  FiledItem(input, k, covered) \in ItemType
  <1>1. input[k].path \in Paths /\ input[k].ttl \in Nat
    BY InputsAssumption
  <1>2. caps[input[k].path] \in Nat /\ DefaultTTL \in Nat
    BY <1>1, TimesAssumption DEF TypeOK
  <1>3. ResolvedTTL(input[k]) \in Nat
    BY <1>1, <1>2, WholeSecondsType DEF ResolvedTTL, Lesser
  <1>4. QED
    BY <1>1, <1>3 DEF FiledItem, ItemType, ItemStates

LEMMA DecidedItemType ==
    ASSUME TypeOK, NEW r \in Requests, NEW k \in Slots, NEW batch \in [Slots -> Verdict]
    PROVE  DecidedItem(requests[r], batch, k) \in ItemType
  <1> DEFINE item == requests[r].items[k]
  <1>1. item \in ItemType /\ batch[k] \in Verdict
    BY DEF TypeOK
  <1>2. caps[item.path] \in Nat
    BY <1>1 DEF TypeOK, ItemType
  <1>3. now + ApprovalTTL(item, batch[k]) \in Nat
    BY <1>1, <1>2, WholeSecondsType DEF TypeOK, ItemType, ApprovalTTL, TTLCap, Lesser, Verdict
  <1>4. WholeSeconds(now + ApprovalTTL(item, batch[k])) \in Nat
    BY <1>3, WholeSecondsType
  <1> HIDE DEF item
  <1>5. QED
    BY <1>1, <1>4 DEF DecidedItem, ItemType, ItemStates, item

-----------------------------------------------------------------------------
(* Types.  Each lemma covers the actions of one call.                       *)

LEMMA FinishingType ==
    ASSUME TypeOK, NEW c \in Calls, NEW label \in PCs
    PROVE  /\ Finishing(c, label) \in CallType
           /\ Finishing(c, label).pc = label
           /\ Finishing(c, label).req = call[c].req
  BY IdleType DEF TypeOK, CallType, Finishing, Idle

\* Finish and Restore keep the session and forget the other locals.
LEMMA FinishEffect ==
    ASSUME TypeOK, NEW c \in Calls
    PROVE  /\ Finish(c) => /\ call' \in [Calls -> CallType]
                           /\ call'[c].pc = "unlock" /\ call'[c].req = call[c].req
                           /\ \A d \in Calls \ {c} : call'[d] = call[d]
           /\ Restore(c) => /\ call' \in [Calls -> CallType]
                            /\ call'[c].pc = "restoreRead" /\ call'[c].req = call[c].req
                            /\ \A d \in Calls \ {c} : call'[d] = call[d]
  <1>1. {"unlock", "restoreRead"} \subseteq PCs
    BY DEF PCs
  <1>2. Finishing(c, "unlock") \in CallType /\ Finishing(c, "restoreRead") \in CallType
    BY <1>1, FinishingType
  <1>3. /\ Finishing(c, "unlock").pc = "unlock" /\ Finishing(c, "unlock").req = call[c].req
        /\ Finishing(c, "restoreRead").pc = "restoreRead"
        /\ Finishing(c, "restoreRead").req = call[c].req
    BY <1>1, FinishingType
  <1>4. call \in [Calls -> CallType]
    BY DEF TypeOK
  <1>5. QED
    BY <1>2, <1>3, <1>4 DEF Finish, Restore, Become

\* Goto changes the program counter alone.
LEMMA GotoEffect ==
    ASSUME TypeOK, NEW c \in Calls, NEW label \in PCs, Goto(c, label)
    PROVE  /\ call' \in [Calls -> CallType]
           /\ call'[c] = [call[c] EXCEPT !.pc = label]
           /\ \A d \in Calls \ {c} : call'[d] = call[d]
  <1> DEFINE moved == [call[c] EXCEPT !.pc = label]
  <1>1. call \in [Calls -> CallType] /\ call[c] \in CallType /\ call' = [call EXCEPT ![c] = moved]
    BY DEF TypeOK, Goto, Become
  <1>2. moved \in CallType
    BY <1>1 DEF CallType
  <1> HIDE DEF moved
  <1>3. call'[c] = moved /\ call' \in [Calls -> CallType] /\ \A d \in Calls \ {c} : call'[d] = call[d]
    BY <1>1, <1>2
  <1>4. QED
    BY <1>3 DEF moved

LEMMA PolicyWriteType ==
    ASSUME TypeOK, NEW c \in Calls, NEW next \in PCs, PolicyWrite(c, next)
    PROVE  TypeOK'
  <1>1. Session(c) \in Entities /\ call[c].want \in [Items -> Nat]
    BY RequestsAssumption DEF TypeOK, CallType, Session
  <1>2. call' \in [Calls -> CallType]
    BY FinishEffect, GotoEffect DEF PolicyWrite
  <1>3. policy' \in [Entities -> [Items -> Nat]]
    BY <1>1 DEF TypeOK, PolicyWrite, WriteSucceeds, WriteLost, WriteRefused, WriteElapsed
  <1>4. diverged' \in [Entities -> BOOLEAN]
    BY <1>1 DEF TypeOK, PolicyWrite, WriteSucceeds, WriteLost
  <1>5. faults' \in Nat
    BY DEF TypeOK, PolicyWrite, WriteSucceeds, WriteLost, WriteRefused, WriteElapsed, Fault
  <1>6. QED
    BY <1>2, <1>3, <1>4, <1>5 DEF TypeOK, PolicyWrite, stored

LEMMA CreateType ==
    ASSUME TypeOK, NEW c \in Calls
    PROVE  /\ \A r \in Requests, input \in Inputs : FileRequest(c, r, input) => TypeOK'
           /\ InsertRequest(c) => TypeOK'
  <1>1. ASSUME NEW r \in Requests, NEW input \in Inputs, FileRequest(c, r, input)
        PROVE  TypeOK'
    <2>1. PICK covered : call' = [call EXCEPT ![c] =
                [Idle EXCEPT !.pc = "insert", !.req = r, !.until = now + PendingTTL,
                             !.items = [k \in Slots |-> FiledItem(input, k, covered)]]]
      BY <1>1 DEF FileRequest, Become
    <2>2. [k \in Slots |-> FiledItem(input, k, covered)] \in [Slots -> ItemType]
      BY FiledItemType
    <2>3. now + PendingTTL \in Nat
      BY TimesAssumption DEF TypeOK
    <2>4. call' \in [Calls -> CallType]
      BY <2>1, <2>2, <2>3, IdleType DEF TypeOK, CallType, PCs
    <2>5. QED
      BY <1>1, <2>4 DEF FileRequest, TypeOK, Fault, stored, openbao
  <1>2. ASSUME InsertRequest(c)
        PROVE  TypeOK'
    <2>1. call[c].req \in Requests
          /\ [until |-> call[c].until, items |-> call[c].items]
                \in [until : Nat, items : [Slots -> ItemType]]
      BY DEF TypeOK, CallType
    <2>2. requests' \in [Requests -> [until : Nat, items : [Slots -> ItemType]]]
      BY <1>2, <2>1 DEF InsertRequest, TypeOK
    <2>3. call' \in [Calls -> CallType]
      BY <1>2, IdleType DEF InsertRequest, Become, TypeOK
    <2>4. QED
      BY <1>2, <2>2, <2>3 DEF InsertRequest, TypeOK, Fault, openbao
  <1>3. QED
    BY <1>1, <1>2

LEMMA DecideType ==
    ASSUME TypeOK, NEW c \in Calls
    PROVE  /\ \A a \in Approvers, r \in Requests, batch \in Batches :
                  StartDecide(c, a, r, batch) => TypeOK'
           /\ DecideLock(c) => TypeOK'
           /\ DecideRead(c) => TypeOK'
           /\ DecideWrite(c) => TypeOK'
           /\ AttachRead(c) => TypeOK'
           /\ AttachSet(c) => TypeOK'
           /\ DecideStore(c) => TypeOK'
  <1>0. Session(c) \in Entities /\ call[c] \in CallType /\ call[c].req \in Requests
    BY RequestsAssumption DEF TypeOK, CallType, Session
  <1>1. ASSUME NEW a \in Approvers, NEW r \in Requests, NEW batch \in Batches,
               StartDecide(c, a, r, batch)
        PROVE  TypeOK'
    BY <1>1, IdleType, BatchesAssumption DEF StartDecide, Become, TypeOK, CallType, PCs, stored, openbao
  <1>2. ASSUME DecideLock(c)
        PROVE  TypeOK'
    BY <1>0, <1>2, GotoEffect DEF DecideLock, TypeOK, PCs, Lock!Acquire, stored, openbao
  <1>3. ASSUME DecideRead(c)
        PROVE  TypeOK'
    <2> DEFINE r == call[c].req
               batch == call[c].batch
               items == [k \in Slots |-> DecidedItem(requests[r], batch, k)]
               want == BlocksWith(r, items, batch)
    <2>1. batch \in [Slots -> Verdict]
      BY <1>0 DEF CallType
    <2>2. items \in [Slots -> ItemType]
      BY <1>0, <2>1, DecidedItemType
    <2>3. want \in [Items -> Nat]
      <3>1. \A k \in Slots : items[k].exp \in Nat
        BY <2>2 DEF ItemType
      <3>2. \A i \in Items : grants[i].exp \in Nat /\ i[2] \in Slots
        BY DEF TypeOK, Items
      <3> HIDE DEF items, batch, r
      <3>3. QED
        BY <3>1, <3>2 DEF BlocksWith
    <2>4. call' \in [Calls -> CallType]
      <3>1. CASE Finish(c)
        BY <3>1, FinishEffect
      <3>2. CASE call' = [call EXCEPT ![c] = [call[c] EXCEPT !.pc = "decideWrite", !.items = items,
                                                             !.want = want]]
        <4> HIDE DEF items, want
        <4>1. QED
          BY <1>0, <2>2, <2>3, <3>2 DEF TypeOK, CallType, PCs
      <3>3. CASE call' = [call EXCEPT ![c] = [call[c] EXCEPT !.pc = "decideStore", !.items = items]]
        <4> HIDE DEF items
        <4>1. QED
          BY <1>0, <2>2, <3>3 DEF TypeOK, CallType, PCs
      <3>4. QED
        BY <1>3, <3>1, <3>2, <3>3 DEF DecideRead, Become
    <2>5. QED
      BY <1>3, <2>4 DEF DecideRead, TypeOK, Fault, stored, openbao
  <1>4. ASSUME DecideWrite(c)
        PROVE  TypeOK'
    BY <1>4, PolicyWriteType DEF DecideWrite, PCs
  <1>5. ASSUME AttachRead(c)
        PROVE  TypeOK'
    <2>1. call' \in [Calls -> CallType]
      <3>1. CASE Goto(c, "decideStore")
        BY <3>1, GotoEffect DEF PCs
      <3>2. CASE Restore(c)
        BY <3>2, FinishEffect
      <3>3. CASE Become(c, [call[c] EXCEPT !.pc = "attachSet", !.names = attached[Session(c)]])
        BY <1>0, <3>3 DEF Become, TypeOK, CallType, PCs
      <3>4. QED
        BY <1>5, <3>1, <3>2, <3>3 DEF AttachRead
    <2>2. QED
      BY <1>5, <2>1 DEF AttachRead, TypeOK, Fault, stored, openbao
  <1>6. ASSUME AttachSet(c)
        PROVE  TypeOK'
    <2>1. call' \in [Calls -> CallType]
      BY <1>6, GotoEffect, FinishEffect DEF AttachSet, PCs
    <2>2. attached' \in [Entities -> SUBSET (OperatorPolicies \cup {SessionPolicy})]
      BY <1>0, <1>6 DEF AttachSet, TypeOK, CallType
    <2>3. QED
      BY <1>6, <2>1, <2>2 DEF AttachSet, TypeOK, Fault, stored
  <1>7. ASSUME DecideStore(c)
        PROVE  TypeOK'
    <2>1. call' \in [Calls -> CallType]
      BY <1>7, FinishEffect DEF DecideStore, UndoDecide
    <2>2. requests' \in [Requests -> [until : Nat, items : [Slots -> ItemType]]]
      <3>1. call[c].items \in [Slots -> ItemType]
        BY <1>0 DEF CallType
      <3>2. QED
        <4> DEFINE row == [requests[call[c].req] EXCEPT !.items = call[c].items]
        <4>0. requests[call[c].req] \in [until : Nat, items : [Slots -> ItemType]]
          BY <1>0 DEF TypeOK
        <4>1. row \in [until : Nat, items : [Slots -> ItemType]]
          BY <3>1, <4>0
        <4>2. requests' = requests \/ requests' = [requests EXCEPT ![call[c].req] = row]
          BY <1>7 DEF DecideStore, stored
        <4> HIDE DEF row
        <4>3. QED
          BY <4>1, <4>2 DEF TypeOK
    <2>3. grants' \in [Items -> [state : {"none", "active", "revoked"}, exp : Nat]]
      <3>1. \A i \in Items : call[c].items[i[2]].exp \in Nat
        BY <1>0 DEF CallType, ItemType, Items
      <3>2. QED
        <4>1. grants \in [Items -> [state : {"none", "active", "revoked"}, exp : Nat]]
          BY DEF TypeOK
        <4>2. \/ grants' = grants
              \/ grants' = [i \in Items |->
                    IF i[1] = call[c].req /\ Created(c, i[2])
                    THEN [state |-> "active", exp |-> call[c].items[i[2]].exp]
                    ELSE grants[i]]
          BY <1>7 DEF DecideStore, stored
        <4>3. \A i \in Items : [state |-> "active", exp |-> call[c].items[i[2]].exp]
                                 \in [state : {"none", "active", "revoked"}, exp : Nat]
          BY <3>1
        <4>4. QED
          BY <4>1, <4>2, <4>3
    <2>4. QED
      BY <1>7, <2>1, <2>2, <2>3 DEF DecideStore, TypeOK, Fault, openbao
  <1>8. QED
    BY <1>1, <1>2, <1>3, <1>4, <1>5, <1>6, <1>7

LEMMA RevokeType ==
    ASSUME TypeOK, NEW c \in Calls
    PROVE  /\ \A i \in Items : StartRevoke(c, i) => TypeOK'
           /\ RevokeLock(c) => TypeOK'
           /\ RevokeRead(c) => TypeOK'
           /\ RevokeWrite(c) => TypeOK'
           /\ RevokeStore(c) => TypeOK'
  <1>0. /\ Session(c) \in Entities /\ call[c] \in CallType /\ call[c].req \in Requests
        /\ Target(c) \in Items
    BY RequestsAssumption DEF TypeOK, CallType, Session, Target, Items
  <1>1. ASSUME NEW i \in Items, StartRevoke(c, i)
        PROVE  TypeOK'
    BY <1>1, IdleType DEF StartRevoke, Become, TypeOK, CallType, PCs, Items, stored, openbao
  <1>2. ASSUME RevokeLock(c)
        PROVE  TypeOK'
    BY <1>0, <1>2, GotoEffect DEF RevokeLock, TypeOK, PCs, Lock!Acquire, stored, openbao
  <1>3. ASSUME RevokeRead(c)
        PROVE  TypeOK'
    <2>1. BlocksWithout(Session(c), Target(c)) \in [Items -> Nat]
      BY DEF BlocksWithout, TypeOK
    <2>2. call' \in [Calls -> CallType]
      <3>1. CASE Finish(c)
        BY <3>1, FinishEffect
      <3>2. CASE Become(c, [call[c] EXCEPT !.pc = "revokeWrite",
                                           !.want = BlocksWithout(Session(c), Target(c))])
        BY <1>0, <2>1, <3>2 DEF Become, TypeOK, CallType, PCs
      <3>3. QED
        BY <1>3, <3>1, <3>2 DEF RevokeRead
    <2>3. QED
      BY <1>3, <2>2 DEF RevokeRead, TypeOK, Fault, stored, openbao
  <1>4. ASSUME RevokeWrite(c)
        PROVE  TypeOK'
    BY <1>4, PolicyWriteType DEF RevokeWrite, PCs
  <1>5. ASSUME RevokeStore(c)
        PROVE  TypeOK'
    <2>1. call' \in [Calls -> CallType]
      BY <1>5, FinishEffect DEF RevokeStore
    <2>2. grants' \in [Items -> [state : {"none", "active", "revoked"}, exp : Nat]]
      <3> DEFINE i == Target(c)
                 row == [grants[i] EXCEPT !.state = "revoked"]
      <3>1. row \in [state : {"none", "active", "revoked"}, exp : Nat]
        BY <1>0 DEF TypeOK
      <3>2. grants' = grants \/ grants' = [grants EXCEPT ![i] = row]
        BY <1>5 DEF RevokeStore, stored
      <3> HIDE DEF row, i
      <3>3. QED
        BY <3>1, <3>2 DEF TypeOK
    <2>3. requests' \in [Requests -> [until : Nat, items : [Slots -> ItemType]]]
      <3> DEFINE r == call[c].req
                 k == call[c].slot
                 item == [requests[r].items[k] EXCEPT !.state = "revoked"]
                 row == [requests[r] EXCEPT !.items = [@ EXCEPT ![k] = item]]
      <3>1. k \in Slots /\ requests[r] \in [until : Nat, items : [Slots -> ItemType]]
        BY <1>0 DEF TypeOK, CallType
      <3>2. item \in ItemType
        BY <3>1 DEF ItemType, ItemStates
      <3>3. requests' = requests \/ requests' = [requests EXCEPT ![r] = row]
        BY <1>5 DEF RevokeStore, stored, Target
      <3> HIDE DEF item
      <3>4. row \in [until : Nat, items : [Slots -> ItemType]]
        BY <3>1, <3>2
      <3> HIDE DEF row, r, k
      <3>5. QED
        BY <3>3, <3>4 DEF TypeOK
    <2>4. QED
      BY <1>5, <2>1, <2>2, <2>3 DEF RevokeStore, TypeOK, Fault, openbao
  <1>6. QED
    BY <1>1, <1>2, <1>3, <1>4, <1>5

LEMMA RestoreType ==
    ASSUME TypeOK, NEW c \in Calls
    PROVE  /\ RestoreRead(c) => TypeOK'
           /\ RestoreWrite(c) => TypeOK'
           /\ Unlock(c) => TypeOK'
  <1>0. /\ Session(c) \in Entities /\ call[c] \in CallType
        /\ call[c].want \in [Items -> Nat]
    BY RequestsAssumption DEF TypeOK, CallType, Session
  <1>1. ASSUME RestoreRead(c)
        PROVE  TypeOK'
    <2> DEFINE want == [i \in Items |-> IF Active(Session(c), i) THEN grants[i].exp ELSE 0]
    <2>1. want \in [Items -> Nat]
      BY DEF TypeOK
    <2>2. call' \in [Calls -> CallType]
      <3>1. CASE Finish(c)
        BY <3>1, FinishEffect
      <3>2. CASE Become(c, [call[c] EXCEPT !.pc = "restoreWrite", !.want = want])
        <4> HIDE DEF want
        <4>1. QED
          BY <1>0, <2>1, <3>2 DEF Become, TypeOK, CallType, PCs
      <3>3. QED
        BY <1>1, <3>1, <3>2 DEF RestoreRead
    <2>3. diverged' \in [Entities -> BOOLEAN]
      BY <1>0, <1>1 DEF RestoreRead, TypeOK
    <2>4. QED
      BY <1>1, <2>2, <2>3 DEF RestoreRead, TypeOK, Fault, stored, openbao
  <1>2. ASSUME RestoreWrite(c)
        PROVE  TypeOK'
    <2>1. call' \in [Calls -> CallType]
      BY <1>2, FinishEffect DEF RestoreWrite
    <2>2. policy' \in [Entities -> [Items -> Nat]]
      BY <1>0, <1>2 DEF RestoreWrite, TypeOK, WriteSucceeds, WriteLost, WriteRefused, WriteElapsed
    <2>3. diverged' \in [Entities -> BOOLEAN]
      BY <1>0, <1>2 DEF RestoreWrite, TypeOK, WriteSucceeds, WriteLost
    <2>4. faults' \in Nat
      BY <1>2 DEF RestoreWrite, TypeOK, WriteSucceeds, WriteLost, WriteRefused, WriteElapsed, Fault
    <2>5. QED
      BY <1>2, <2>1, <2>2, <2>3, <2>4 DEF RestoreWrite, TypeOK, stored
  <1>3. ASSUME Unlock(c)
        PROVE  TypeOK'
    BY <1>0, <1>3, IdleType DEF Unlock, Become, TypeOK, Lock!Release, stored, openbao
  <1>4. QED
    BY <1>1, <1>2, <1>3

LEMMA EnvironmentType ==
    ASSUME TypeOK
    PROVE  /\ ExpirePending => TypeOK'
           /\ Tick => TypeOK'
           /\ Restart => TypeOK'
           /\ Crash => TypeOK'
           /\ \A e \in Entities, names \in SUBSET OperatorPolicies : OperatorSet(e, names) => TypeOK'
  <1>1. ASSUME ExpirePending
        PROVE  TypeOK'
    <2>1. ASSUME NEW r \in Requests
          PROVE  requests'[r] \in [until : Nat, items : [Slots -> ItemType]]
      <3> DEFINE items == [k \in Slots |->
              IF requests[r].until <= now /\ requests[r].items[k].state = "pending"
              THEN [requests[r].items[k] EXCEPT !.state = "expired"]
              ELSE requests[r].items[k]]
      <3>1. items \in [Slots -> ItemType]
        <4>1. ASSUME NEW k \in Slots
              PROVE  /\ requests[r].items[k] \in ItemType
                     /\ [requests[r].items[k] EXCEPT !.state = "expired"] \in ItemType
          <5>1. requests[r] \in [until : Nat, items : [Slots -> ItemType]]
            BY DEF TypeOK
          <5>2. requests[r].items[k] \in ItemType
            BY <5>1
          <5>3. QED
            BY <5>2 DEF ItemType, ItemStates
        <4>2. QED
          BY <4>1
      <3>2. requests'[r] = [requests[r] EXCEPT !.items = items]
        BY <1>1 DEF ExpirePending
      <3> HIDE DEF items
      <3>3. QED
        BY <3>1, <3>2 DEF TypeOK
    <2>2. QED
      BY <1>1, <2>1 DEF ExpirePending, TypeOK, openbao
  <1>2. Tick => TypeOK'
    BY DEF Tick, TypeOK, stored, openbao
  <1>3. Restart => TypeOK'
    BY ConfigsAssumption DEF Restart, TypeOK, stored, openbao
  <1>4. Crash => TypeOK'
    BY ConfigsAssumption, IdleType DEF Crash, TypeOK, Fault, stored, openbao
  <1>5. ASSUME NEW e \in Entities, NEW names \in SUBSET OperatorPolicies, OperatorSet(e, names)
        PROVE  TypeOK'
    BY <1>5 DEF OperatorSet, TypeOK, stored
  <1>6. QED
    BY <1>1, <1>2, <1>3, <1>4, <1>5

LEMMA TypeStep == TypeOK /\ [Next]_vars => TypeOK'
  <1> SUFFICES ASSUME TypeOK, [Next]_vars
               PROVE  TypeOK'
      OBVIOUS
  <1>1. ASSUME NEW c \in Calls, Step(c)
        PROVE  TypeOK'
    BY <1>1, CreateType, DecideType, RevokeType, RestoreType DEF Step
  <1>2. CASE UNCHANGED vars
    BY <1>2 DEF TypeOK, vars
  <1>3. QED
    BY <1>1, <1>2, CreateType, DecideType, RevokeType, EnvironmentType DEF Next

LEMMA TypeInit == Init => TypeOK
  BY AbsentType, IdleType, ConfigsAssumption DEF Init, TypeOK, NoBlocks, Lock!MutexInit

\* Every variable keeps its type, whatever fails (the shape of the tables, of
\* the session policies and of the locals of Service.decide and revoke).
THEOREM TypeCorrect == Spec => []TypeOK
  BY TypeInit, TypeStep, PTL DEF Spec

-----------------------------------------------------------------------------
(* The locals of a goroutine, step by step.                                 *)

\* The other goroutines, and the locals of this one, are as before.
Others(c) == \A d \in Calls \ {c} : call'[d] = call[d]
Keeps(c) ==
    /\ call'[c].req = call[c].req
    /\ call'[c].slot = call[c].slot
    /\ call'[c].batch = call[c].batch
    /\ call'[c].items = call[c].items
    /\ call'[c].want = call[c].want

\* The steps a goroutine takes while it holds its session's lock.
Inside(c) ==
    \/ DecideRead(c) \/ DecideWrite(c) \/ AttachRead(c) \/ AttachSet(c) \/ DecideStore(c)
    \/ RevokeRead(c) \/ RevokeWrite(c) \/ RevokeStore(c)
    \/ RestoreRead(c) \/ RestoreWrite(c)

\* The steps outside of any lock.
Outside(c) ==
    \/ \E r \in Requests, input \in Inputs : FileRequest(c, r, input)
    \/ InsertRequest(c)
    \/ \E a \in Approvers, r \in Requests, batch \in Batches : StartDecide(c, a, r, batch)
    \/ \E i \in Items : StartRevoke(c, i)

\* The steps of nobody's goroutine that the store and the locks survive.
Environment ==
    \/ ExpirePending \/ Tick \/ Restart
    \/ \E e \in Entities, names \in SUBSET OperatorPolicies : OperatorSet(e, names)

LEMMA NextCases ==
    ASSUME [Next]_vars
    PROVE  \/ \E c \in Calls : Inside(c) \/ Outside(c) \/ DecideLock(c) \/ RevokeLock(c) \/ Unlock(c)
           \/ Environment \/ Crash \/ UNCHANGED vars
  BY DEF Next, Step, Inside, Outside, Environment
-----------------------------------------------------------------------------
(* What each step does to its goroutine.                                    *)

LEMMA BecomeEffect ==
    ASSUME TypeOK, NEW c \in Calls, NEW locals, Become(c, locals)
    PROVE  call'[c] = locals /\ Others(c)
  BY DEF TypeOK, Become, Others

LEMMA GotoKeeps ==
    ASSUME TypeOK, NEW c \in Calls, NEW label \in PCs, Goto(c, label)
    PROVE  call'[c].pc = label /\ Keeps(c) /\ Others(c)
  <1>1. call'[c] = [call[c] EXCEPT !.pc = label] /\ Others(c)
    BY BecomeEffect DEF Goto
  <1>2. call[c] \in CallType
    BY DEF TypeOK
  <1>3. QED
    BY <1>1, <1>2 DEF Keeps, CallType

LEMMA FinishKeeps ==
    ASSUME TypeOK, NEW c \in Calls
    PROVE  /\ Finish(c) => call'[c].pc = "unlock" /\ call'[c].req = call[c].req /\ Others(c)
           /\ Restore(c) => call'[c].pc = "restoreRead" /\ call'[c].req = call[c].req /\ Others(c)
  BY FinishEffect DEF Others

LEMMA IdleFacts == Idle.pc = "idle"
  BY Defaults DEF Idle

LEMMA FileEffect ==
    ASSUME TypeOK, NEW c \in Calls, NEW r \in Requests, NEW input \in Inputs, FileRequest(c, r, input)
    PROVE  /\ call[c].pc = "idle" /\ call'[c].pc = "insert" /\ call'[c].req = r
           /\ \A k \in Slots : call'[c].items[k].state \in {"pending", "refused", "already_granted"}
           /\ ~Filed(r)
           /\ \A d \in Calls : ~(At(d, "insert") /\ call[d].req = r)
           /\ Others(c)
           /\ UNCHANGED <<now, caps, requests, grants, policy, attached, holder>>
  <1>1. PICK covered : Become(c, [Idle EXCEPT !.pc = "insert", !.req = r, !.until = now + PendingTTL,
                                    !.items = [k \in Slots |-> FiledItem(input, k, covered)]])
    BY DEF FileRequest
  <1> DEFINE items == [k \in Slots |-> FiledItem(input, k, covered)]
  <1>2. \A k \in Slots : items[k].state \in {"pending", "refused", "already_granted"}
    BY DEF FiledItem
  <1>3. call'[c] = [Idle EXCEPT !.pc = "insert", !.req = r, !.until = now + PendingTTL, !.items = items]
        /\ Others(c)
    BY <1>1, BecomeEffect
  <1> HIDE DEF items
  <1>4. call'[c].pc = "insert" /\ call'[c].req = r /\ call'[c].items = items
    BY <1>3 DEF Idle
  <1>5. QED
    BY <1>2, <1>3, <1>4 DEF FileRequest, At, stored, openbao

LEMMA InsertEffect ==
    ASSUME TypeOK, NEW c \in Calls, InsertRequest(c)
    PROVE  /\ call[c].pc = "insert" /\ call'[c].pc = "idle" /\ Others(c)
           /\ \/ requests' = requests
              \/ requests' = [requests EXCEPT ![call[c].req] =
                                [until |-> call[c].until, items |-> call[c].items]]
           /\ UNCHANGED <<now, caps, grants, policy, attached, holder>>
  BY BecomeEffect, IdleFacts DEF InsertRequest, At, openbao

LEMMA StartEffect ==
    ASSUME TypeOK, NEW c \in Calls
    PROVE  /\ \A a \in Approvers, r \in Requests, batch \in Batches : StartDecide(c, a, r, batch) =>
                  /\ call[c].pc = "idle" /\ call'[c].pc = "decideLock" /\ call'[c].req = r /\ Filed(r)
                  /\ Others(c)
                  /\ UNCHANGED <<now, caps, requests, grants, policy, attached, holder>>
           /\ \A i \in Items : StartRevoke(c, i) =>
                  /\ call[c].pc = "idle" /\ call'[c].pc = "revokeLock"
                  /\ Others(c)
                  /\ UNCHANGED <<now, caps, requests, grants, policy, attached, holder>>
  <1>1. ASSUME NEW a \in Approvers, NEW r \in Requests, NEW batch \in Batches,
               StartDecide(c, a, r, batch)
        PROVE  /\ call[c].pc = "idle" /\ call'[c].pc = "decideLock" /\ call'[c].req = r /\ Filed(r)
               /\ Others(c)
               /\ UNCHANGED <<now, caps, requests, grants, policy, attached, holder>>
    <2>1. call'[c] = [Idle EXCEPT !.pc = "decideLock", !.req = r, !.batch = batch] /\ Others(c)
      BY <1>1, BecomeEffect DEF StartDecide
    <2>2. call'[c].pc = "decideLock" /\ call'[c].req = r
      BY <2>1 DEF Idle
    <2>3. QED
      BY <1>1, <2>1, <2>2 DEF StartDecide, At, stored, openbao
  <1>2. ASSUME NEW i \in Items, StartRevoke(c, i)
        PROVE  /\ call[c].pc = "idle" /\ call'[c].pc = "revokeLock"
               /\ Others(c)
               /\ UNCHANGED <<now, caps, requests, grants, policy, attached, holder>>
    <2>1. call'[c] = [Idle EXCEPT !.pc = "revokeLock", !.req = i[1], !.slot = i[2]] /\ Others(c)
      BY <1>2, BecomeEffect DEF StartRevoke
    <2>2. call'[c].pc = "revokeLock"
      BY <2>1 DEF Idle
    <2>3. QED
      BY <1>2, <2>1, <2>2 DEF StartRevoke, At, stored, openbao
  <1>3. QED
    BY <1>1, <1>2

LEMMA LockEffect ==
    ASSUME TypeOK, NEW c \in Calls, DecideLock(c) \/ RevokeLock(c)
    PROVE  /\ \/ call[c].pc = "decideLock" /\ call'[c].pc = "decideRead"
              \/ call[c].pc = "revokeLock" /\ call'[c].pc = "revokeRead"
           /\ Keeps(c) /\ Others(c)
           /\ holder[Session(c)] = NoCall
           /\ holder' = [holder EXCEPT ![Session(c)] = c]
           /\ UNCHANGED <<now, caps, requests, grants, policy, attached>>
  BY GotoKeeps DEF DecideLock, RevokeLock, At, PCs, Lock!Acquire, stored, openbao

LEMMA UnlockEffect ==
    ASSUME TypeOK, NEW c \in Calls, Unlock(c)
    PROVE  /\ call[c].pc = "unlock" /\ call'[c].pc = "idle" /\ Others(c)
           /\ holder[Session(c)] = c
           /\ holder' = [holder EXCEPT ![Session(c)] = NoCall]
           /\ UNCHANGED <<now, caps, requests, grants, policy, attached>>
  BY BecomeEffect, IdleFacts DEF Unlock, At, Lock!Release, stored, openbao
-----------------------------------------------------------------------------
(* The steps inside a session lock.                                         *)

LEMMA DecideReadEffect ==
    ASSUME TypeOK, NEW c \in Calls, DecideRead(c)
    PROVE  /\ call[c].pc = "decideRead" /\ call'[c].req = call[c].req /\ Others(c)
           /\ UNCHANGED <<now, caps, requests, grants, policy, attached, holder>>
           /\ \/ call'[c].pc = "unlock"
              \/ /\ Decidable(requests[call[c].req], call[c].batch)
                 /\ call'[c].batch = call[c].batch
                 /\ \A k \in Slots :
                       call'[c].items[k] = DecidedItem(requests[call[c].req], call[c].batch, k)
                 /\ \/ /\ call'[c].pc = "decideWrite"
                       /\ call'[c].want = BlocksWith(call[c].req, call'[c].items, call[c].batch)
                    \/ /\ call'[c].pc = "decideStore"
                       /\ ~ \E k \in Slots : Approves(requests[call[c].req], call[c].batch, k)
  <1> DEFINE r == call[c].req
             batch == call[c].batch
             items == [k \in Slots |-> DecidedItem(requests[r], batch, k)]
             want == BlocksWith(r, items, batch)
             toWrite == [call[c] EXCEPT !.pc = "decideWrite", !.items = items, !.want = want]
             toStore == [call[c] EXCEPT !.pc = "decideStore", !.items = items]
  <1>0. call[c] \in CallType
    BY DEF TypeOK
  <1>1. \A k \in Slots : items[k] = DecidedItem(requests[r], batch, k)
    OBVIOUS
  <1>2. \/ Finish(c)
        \/ Decidable(requests[r], batch) /\ Become(c, toWrite)
        \/ /\ Decidable(requests[r], batch) /\ Become(c, toStore)
           /\ ~ \E k \in Slots : Approves(requests[r], batch, k)
    BY DEF DecideRead
  <1>3. call[c].pc = "decideRead" /\ UNCHANGED <<now, caps, requests, grants, policy, attached, holder>>
    BY DEF DecideRead, At, stored, openbao
  <1>4. CASE Finish(c)
    BY <1>3, <1>4, FinishKeeps
  <1>5. CASE Decidable(requests[r], batch) /\ Become(c, toWrite)
    <2>1. call'[c] = toWrite /\ Others(c)
      BY <1>5, BecomeEffect
    <2>2. /\ toWrite.pc = "decideWrite" /\ toWrite.req = r /\ toWrite.batch = batch
          /\ toWrite.items = items /\ toWrite.want = want
      <3> HIDE DEF items, want
      <3>1. QED
        BY <1>0 DEF CallType
    <2> HIDE DEF toWrite, items
    <2>3. QED
      BY <1>1, <1>3, <1>5, <2>1, <2>2
  <1>6. CASE /\ Decidable(requests[r], batch) /\ Become(c, toStore)
             /\ ~ \E k \in Slots : Approves(requests[r], batch, k)
    <2>1. call'[c] = toStore /\ Others(c)
      BY <1>6, BecomeEffect
    <2>2. toStore.pc = "decideStore" /\ toStore.req = r /\ toStore.batch = batch /\ toStore.items = items
      <3> HIDE DEF items
      <3>1. QED
        BY <1>0 DEF CallType
    <2> HIDE DEF toStore, items
    <2>3. QED
      BY <1>1, <1>3, <1>6, <2>1, <2>2
  <1>7. QED
    BY <1>2, <1>4, <1>5, <1>6

LEMMA WriteEffect ==
    ASSUME TypeOK, NEW c \in Calls, DecideWrite(c) \/ RevokeWrite(c)
    PROVE  /\ call[c].pc \in {"decideWrite", "revokeWrite"}
           /\ call'[c].req = call[c].req /\ Others(c)
           /\ UNCHANGED <<now, caps, requests, grants, attached, holder>>
           /\ policy' = policy \/ policy' = [policy EXCEPT ![Session(c)] = call[c].want]
           /\ \/ call'[c].pc = "unlock"
              \/ /\ Keeps(c)
                 /\ policy' = [policy EXCEPT ![Session(c)] = call[c].want]
                 /\ \/ call[c].pc = "decideWrite" /\ call'[c].pc = "attachRead"
                    \/ call[c].pc = "revokeWrite" /\ call'[c].pc = "revokeStore"
  <1>1. ASSUME NEW next \in PCs, PolicyWrite(c, next)
        PROVE  /\ call'[c].req = call[c].req /\ Others(c)
               /\ UNCHANGED <<now, caps, requests, grants, attached, holder>>
               /\ policy' = policy \/ policy' = [policy EXCEPT ![Session(c)] = call[c].want]
               /\ \/ call'[c].pc = "unlock"
                  \/ /\ Keeps(c) /\ call'[c].pc = next
                     /\ policy' = [policy EXCEPT ![Session(c)] = call[c].want]
    <2>1. CASE Finish(c)
      BY <1>1, <2>1, FinishKeeps
         DEF PolicyWrite, WriteSucceeds, WriteLost, WriteRefused, WriteElapsed, stored
    <2>2. CASE WriteSucceeds(c) /\ Goto(c, next)
      BY <1>1, <2>2, GotoKeeps DEF PolicyWrite, WriteSucceeds, stored, Keeps
    <2>3. QED
      BY <1>1, <2>1, <2>2 DEF PolicyWrite
  <1>2. CASE DecideWrite(c)
    BY <1>1, <1>2 DEF DecideWrite, At, PCs
  <1>3. CASE RevokeWrite(c)
    BY <1>1, <1>3 DEF RevokeWrite, At, PCs
  <1>4. QED
    BY <1>2, <1>3

LEMMA AttachEffect ==
    ASSUME TypeOK, NEW c \in Calls, AttachRead(c) \/ AttachSet(c)
    PROVE  /\ call[c].pc \in {"attachRead", "attachSet"}
           /\ call'[c].req = call[c].req /\ Others(c)
           /\ UNCHANGED <<now, caps, requests, grants, policy, holder>>
           /\ attached' = attached \/ attached' = [attached EXCEPT ![Session(c)] = call[c].names \cup {SessionPolicy}]
           /\ \/ call'[c].pc = "restoreRead"
              \/ call'[c].pc = "attachSet" /\ Keeps(c)
              \/ call'[c].pc = "decideStore" /\ Keeps(c) /\ SessionPolicy \in attached'[Session(c)]
  <1>0. call[c] \in CallType /\ Session(c) \in Entities
    BY RequestsAssumption DEF TypeOK, CallType, Session
  <1>1. CASE AttachRead(c)
    <2>1. /\ call[c].pc = "attachRead"
          /\ UNCHANGED <<now, caps, requests, grants, policy, attached, holder>>
      BY <1>1 DEF AttachRead, At, stored, openbao
    <2>2. CASE Restore(c)
      BY <2>1, <2>2, FinishKeeps
    <2>3. CASE SessionPolicy \in attached[Session(c)] /\ Goto(c, "decideStore")
      BY <2>1, <2>3, GotoKeeps DEF PCs, Keeps
    <2>4. CASE Become(c, [call[c] EXCEPT !.pc = "attachSet", !.names = attached[Session(c)]])
      <3>1. call'[c] = [call[c] EXCEPT !.pc = "attachSet", !.names = attached[Session(c)]] /\ Others(c)
        BY <2>4, BecomeEffect
      <3>2. call'[c].pc = "attachSet" /\ Keeps(c)
        BY <1>0, <3>1 DEF Keeps, CallType
      <3>3. QED
        BY <2>1, <3>1, <3>2 DEF Keeps
    <2>5. QED
      BY <1>1, <2>2, <2>3, <2>4 DEF AttachRead
  <1>2. CASE AttachSet(c)
    <2>1. /\ call[c].pc = "attachSet"
          /\ UNCHANGED <<now, caps, requests, grants, policy, holder>>
      BY <1>2 DEF AttachSet, At, stored
    <2>2. CASE Restore(c)
      BY <1>2, <2>1, <2>2, FinishKeeps DEF AttachSet
    <2>3. CASE /\ attached' = [attached EXCEPT ![Session(c)] = call[c].names \cup {SessionPolicy}]
               /\ Goto(c, "decideStore")
      <3>1. SessionPolicy \in attached'[Session(c)]
        BY <1>0, <2>3 DEF TypeOK
      <3>2. QED
        BY <2>1, <2>3, <3>1, GotoKeeps DEF PCs, Keeps
    <2>4. QED
      BY <1>2, <2>2, <2>3 DEF AttachSet
  <1>3. QED
    BY <1>1, <1>2

LEMMA DecideStoreEffect ==
    ASSUME TypeOK, NEW c \in Calls, DecideStore(c)
    PROVE  /\ call[c].pc = "decideStore" /\ call'[c].pc \in {"unlock", "restoreRead"}
           /\ call'[c].req = call[c].req /\ Others(c)
           /\ UNCHANGED <<now, caps, policy, attached, holder>>
           /\ \/ UNCHANGED <<requests, grants>>
              \/ /\ HasPending(requests[call[c].req].items)
                 /\ requests' = [requests EXCEPT ![call[c].req].items = call[c].items]
                 /\ grants' = [i \in Items |->
                       IF i[1] = call[c].req /\ Created(c, i[2])
                       THEN [state |-> "active", exp |-> call[c].items[i[2]].exp]
                       ELSE grants[i]]
  <1>1. call'[c].pc \in {"unlock", "restoreRead"} /\ call'[c].req = call[c].req /\ Others(c)
    BY FinishKeeps DEF DecideStore, UndoDecide
  <1>2. QED
    BY <1>1 DEF DecideStore, At, stored, openbao

LEMMA RevokeReadEffect ==
    ASSUME TypeOK, NEW c \in Calls, RevokeRead(c)
    PROVE  /\ call[c].pc = "revokeRead" /\ call'[c].req = call[c].req /\ Others(c)
           /\ UNCHANGED <<now, caps, requests, grants, policy, attached, holder>>
           /\ \/ call'[c].pc = "unlock"
              \/ /\ call'[c].pc = "revokeWrite" /\ call'[c].slot = call[c].slot
                 /\ Active(Session(c), Target(c))
                 /\ call'[c].want = BlocksWithout(Session(c), Target(c))
  <1>0. call[c] \in CallType
    BY DEF TypeOK
  <1>1. /\ call[c].pc = "revokeRead"
        /\ UNCHANGED <<now, caps, requests, grants, policy, attached, holder>>
    BY DEF RevokeRead, At, stored, openbao
  <1>2. CASE Finish(c)
    BY <1>1, <1>2, FinishKeeps
  <1>3. ASSUME NEW want, Become(c, [call[c] EXCEPT !.pc = "revokeWrite", !.want = want])
        PROVE  /\ call'[c].pc = "revokeWrite" /\ call'[c].slot = call[c].slot
               /\ call'[c].req = call[c].req /\ call'[c].want = want /\ Others(c)
    <2>1. call'[c] = [call[c] EXCEPT !.pc = "revokeWrite", !.want = want] /\ Others(c)
      BY <1>3, BecomeEffect
    <2>2. QED
      BY <1>0, <2>1 DEF CallType
  <1>4. QED
    BY <1>1, <1>2, <1>3 DEF RevokeRead

LEMMA RevokeStoreEffect ==
    ASSUME TypeOK, NEW c \in Calls, RevokeStore(c)
    PROVE  /\ call[c].pc = "revokeStore" /\ call'[c].pc \in {"unlock", "restoreRead"}
           /\ call'[c].req = call[c].req /\ Others(c)
           /\ UNCHANGED <<now, caps, policy, attached, holder>>
           /\ \/ UNCHANGED <<requests, grants>>
              \/ /\ grants[Target(c)].state = "active"
                 /\ grants' = [grants EXCEPT ![Target(c)].state = "revoked"]
                 /\ requests' = [requests EXCEPT ![call[c].req].items[call[c].slot].state = "revoked"]
  <1>1. call'[c].pc \in {"unlock", "restoreRead"} /\ call'[c].req = call[c].req /\ Others(c)
    BY FinishKeeps DEF RevokeStore
  <1>2. Target(c)[1] = call[c].req /\ Target(c)[2] = call[c].slot
    BY DEF Target
  <1>3. QED
    BY <1>1, <1>2 DEF RevokeStore, At, stored, openbao

LEMMA RestoreEffect ==
    ASSUME TypeOK, NEW c \in Calls, RestoreRead(c) \/ RestoreWrite(c)
    PROVE  /\ call'[c].req = call[c].req /\ Others(c)
           /\ UNCHANGED <<now, caps, requests, grants, attached, holder>>
           /\ \/ /\ call[c].pc = "restoreRead" /\ call'[c].pc = "unlock" /\ policy' = policy
              \/ /\ call[c].pc = "restoreRead" /\ call'[c].pc = "restoreWrite" /\ policy' = policy
                 /\ call'[c].want = [i \in Items |-> IF Active(Session(c), i) THEN grants[i].exp ELSE 0]
              \/ /\ call[c].pc = "restoreWrite" /\ call'[c].pc = "unlock"
                 /\ policy' = policy \/ policy' = [policy EXCEPT ![Session(c)] = call[c].want]
  <1>0. call[c] \in CallType
    BY DEF TypeOK
  <1>1. CASE RestoreRead(c)
    <2>1. /\ call[c].pc = "restoreRead"
          /\ UNCHANGED <<now, caps, requests, grants, policy, attached, holder>>
      BY <1>1 DEF RestoreRead, At, stored, openbao
    <2>2. CASE Finish(c)
      BY <2>1, <2>2, FinishKeeps
    <2>3. ASSUME NEW want, Become(c, [call[c] EXCEPT !.pc = "restoreWrite", !.want = want])
          PROVE  /\ call'[c].pc = "restoreWrite" /\ call'[c].req = call[c].req
                 /\ call'[c].want = want /\ Others(c)
      <3>1. call'[c] = [call[c] EXCEPT !.pc = "restoreWrite", !.want = want] /\ Others(c)
        BY <2>3, BecomeEffect
      <3>2. QED
        BY <1>0, <3>1 DEF CallType
    <2>4. QED
      BY <1>1, <2>1, <2>2, <2>3 DEF RestoreRead
  <1>2. CASE RestoreWrite(c)
    BY <1>2, FinishKeeps
       DEF RestoreWrite, At, WriteSucceeds, WriteLost, WriteRefused, WriteElapsed, stored
  <1>3. QED
    BY <1>1, <1>2
-----------------------------------------------------------------------------
(* What a step leaves alone.                                                *)

LEMMA SessionType ==
    ASSUME TypeOK, NEW c \in Calls
    PROVE  /\ call[c] \in CallType /\ call[c].req \in Requests /\ Session(c) \in Entities
           /\ Target(c) \in Items /\ Target(c)[1] = call[c].req /\ Target(c)[2] = call[c].slot
  BY RequestsAssumption DEF TypeOK, CallType, Session, Target, Items

\* A goroutine inside the lock stays inside, and writes only what belongs to
\* its request and its session.
LEMMA InsideEffect ==
    ASSUME TypeOK, NEW c \in Calls, Inside(c)
    PROVE  /\ call[c].pc \in Locked /\ call'[c].pc \in Locked
           /\ call'[c].req = call[c].req
           /\ Others(c)
           /\ UNCHANGED <<holder, now, caps>>
           /\ \/ policy' = policy
              \/ call[c].pc \in Writing /\ policy' = [policy EXCEPT ![Session(c)] = call[c].want]
           /\ \A e \in Entities \ {Session(c)} : attached'[e] = attached[e]
           /\ \A r \in Requests \ {call[c].req} : requests'[r] = requests[r]
           /\ \A i \in Items : i[1] # call[c].req => grants'[i] = grants[i]
  <1>0. Session(c) \in Entities /\ Target(c)[1] = call[c].req /\ requests \in [Requests -> [until : Nat, items : [Slots -> ItemType]]]
        /\ attached \in [Entities -> SUBSET (OperatorPolicies \cup {SessionPolicy})]
        /\ grants \in [Items -> [state : {"none", "active", "revoked"}, exp : Nat]]
    BY SessionType DEF TypeOK
  <1>1. CASE DecideRead(c)
    BY <1>1, DecideReadEffect DEF Locked, PCs
  <1>2. CASE DecideWrite(c) \/ RevokeWrite(c)
    BY <1>2, WriteEffect DEF Locked, PCs, Writing
  <1>3. CASE AttachRead(c) \/ AttachSet(c)
    BY <1>0, <1>3, AttachEffect DEF Locked, PCs
  <1>4. CASE DecideStore(c)
    <2>1. /\ call[c].pc \in Locked /\ call'[c].pc \in Locked /\ call'[c].req = call[c].req /\ Others(c)
          /\ UNCHANGED <<holder, now, caps, policy, attached>>
      BY <1>4, DecideStoreEffect DEF Locked, PCs
    <2>2. \/ requests' = requests
          \/ requests' = [requests EXCEPT ![call[c].req].items = call[c].items]
      BY <1>4, DecideStoreEffect
    <2>3. \A r \in Requests \ {call[c].req} : requests'[r] = requests[r]
      BY <1>0, <2>2
    <2>4. \/ grants' = grants
          \/ grants' = [i \in Items |->
                IF i[1] = call[c].req /\ Created(c, i[2])
                THEN [state |-> "active", exp |-> call[c].items[i[2]].exp]
                ELSE grants[i]]
      BY <1>4, DecideStoreEffect
    <2>5. \A i \in Items : i[1] # call[c].req => grants'[i] = grants[i]
      BY <2>4
    <2>6. QED
      BY <2>1, <2>3, <2>5
  <1>5. CASE RevokeRead(c)
    BY <1>5, RevokeReadEffect DEF Locked, PCs
  <1>6. CASE RevokeStore(c)
    BY <1>0, <1>6, RevokeStoreEffect DEF Locked, PCs
  <1>7. CASE RestoreRead(c) \/ RestoreWrite(c)
    BY <1>7, RestoreEffect DEF Locked, PCs, Writing
  <1>8. QED
    BY <1>1, <1>2, <1>3, <1>4, <1>5, <1>6, <1>7 DEF Inside

\* Outside of the lock nothing a lock protects changes.
LEMMA OutsideEffect ==
    ASSUME TypeOK, NEW c \in Calls, Outside(c)
    PROVE  /\ call[c].pc \in {"idle", "insert"}
           /\ call'[c].pc \in {"idle", "insert", "decideLock", "revokeLock"}
           /\ Others(c)
           /\ UNCHANGED <<holder, grants, policy, attached, now, caps>>
           /\ \/ requests' = requests
              \/ InsertRequest(c)
  <1>1. CASE \E r \in Requests, input \in Inputs : FileRequest(c, r, input)
    BY <1>1, FileEffect
  <1>2. CASE InsertRequest(c)
    BY <1>2, InsertEffect
  <1>3. CASE \E a \in Approvers, r \in Requests, batch \in Batches : StartDecide(c, a, r, batch)
    BY <1>3, StartEffect
  <1>4. CASE \E i \in Items : StartRevoke(c, i)
    BY <1>4, StartEffect
  <1>5. QED
    BY <1>1, <1>2, <1>3, <1>4 DEF Outside

\* The sweep only settles whole requests.
LEMMA SweepEffect ==
    ASSUME TypeOK, ExpirePending
    PROVE  /\ UNCHANGED <<now, caps, grants, policy, attached, holder, call>>
           /\ \A r \in Requests, k \in Slots :
                 /\ requests'[r].items[k].state =
                       IF requests[r].until <= now /\ requests[r].items[k].state = "pending"
                       THEN "expired" ELSE requests[r].items[k].state
                 /\ requests'[r].items[k].exp = requests[r].items[k].exp
           /\ \A r \in Requests :
                 requests'[r].items = requests[r].items \/ ~HasPending(requests'[r].items)
  <1>1. UNCHANGED <<now, caps, grants, policy, attached, holder, call>>
    BY DEF ExpirePending, openbao
  <1>2. ASSUME NEW r \in Requests
        PROVE  requests'[r].items = [k \in Slots |->
              IF requests[r].until <= now /\ requests[r].items[k].state = "pending"
              THEN [requests[r].items[k] EXCEPT !.state = "expired"]
              ELSE requests[r].items[k]]
    BY DEF ExpirePending, TypeOK
  <1>3. ASSUME NEW r \in Requests, NEW k \in Slots
        PROVE  /\ requests'[r].items[k].state =
                       IF requests[r].until <= now /\ requests[r].items[k].state = "pending"
                       THEN "expired" ELSE requests[r].items[k].state
               /\ requests'[r].items[k].exp = requests[r].items[k].exp
    <2> DEFINE item == requests[r].items[k]
    <2>1. item \in ItemType
      BY DEF TypeOK
    <2>2. requests'[r].items[k] = IF requests[r].until <= now /\ item.state = "pending"
                                  THEN [item EXCEPT !.state = "expired"] ELSE item
      BY <1>2
    <2> HIDE DEF item
    <2>3. [item EXCEPT !.state = "expired"].state = "expired" /\ [item EXCEPT !.state = "expired"].exp = item.exp
      BY <2>1 DEF ItemType
    <2>4. QED
      BY <2>2, <2>3 DEF item
  <1>4. ASSUME NEW r \in Requests
        PROVE  requests'[r].items = requests[r].items \/ ~HasPending(requests'[r].items)
    <2>1. CASE requests[r].until <= now
      BY <1>3, <2>1 DEF HasPending
    <2>2. CASE ~(requests[r].until <= now)
      <3>1. requests[r].items \in [Slots -> ItemType]
        BY DEF TypeOK
      <3>2. QED
        BY <1>2, <2>2, <3>1
    <2>3. QED
      BY <2>1, <2>2
  <1>5. QED
    BY <1>1, <1>3, <1>4

LEMMA EnvironmentEffect ==
    ASSUME TypeOK, Environment
    PROVE  /\ UNCHANGED <<grants, policy, holder, call>>
           /\ \A e \in Entities : SessionPolicy \in attached[e] => SessionPolicy \in attached'[e]
           /\ requests' = requests \/ ExpirePending
  BY DEF Environment, ExpirePending, Tick, Restart, OperatorSet, TypeOK, stored, openbao

\* Two goroutines inside the same session's lock are the same.
LEMMA Alone ==
    ASSUME LockHeld, TypeOK, NEW c \in Calls, NEW d \in Calls,
           call[c].pc \in Locked, call[d].pc \in Locked, Session(c) = Session(d)
    PROVE  c = d
  BY SessionType DEF LockHeld

\* A goroutine inside the lock sees nothing of the others' steps.
LEMMA Undisturbed ==
    ASSUME TypeOK, LockHeld, NEW c \in Calls, NEW d \in Calls \ {c},
           call[d].pc \in Locked,
           Inside(c) \/ Outside(c) \/ DecideLock(c) \/ RevokeLock(c) \/ Unlock(c)
    PROVE  /\ call'[d] = call[d] /\ Session(d)' = Session(d)
           /\ policy'[Session(d)] = policy[Session(d)]
           /\ attached'[Session(d)] = attached[Session(d)]
           /\ \A i \in Items : Owner[i[1]] = Session(d) => grants'[i] = grants[i]
           /\ \/ requests'[call[d].req] = requests[call[d].req]
              \/ InsertRequest(c) /\ call[c].req = call[d].req
  <1>0. /\ Session(d) \in Entities /\ Session(c) \in Entities
        /\ call[c].req \in Requests /\ call[d].req \in Requests
    BY SessionType
  <1>1. CASE Inside(c)
    <2>1. Session(c) # Session(d)
      BY <1>1, Alone, InsideEffect
    <2>2. call'[d] = call[d] /\ Session(d)' = Session(d)
      BY <1>1, InsideEffect DEF Others, Session
    <2>3. call[d].req # call[c].req
      BY <2>1 DEF Session
    <2>4. \A i \in Items : Owner[i[1]] = Session(d) => i[1] # call[c].req
      BY <2>1 DEF Session
    <2>5. policy'[Session(d)] = policy[Session(d)]
      BY <1>0, <1>1, <2>1, InsideEffect DEF TypeOK
    <2>6. QED
      BY <1>0, <1>1, <2>1, <2>2, <2>3, <2>4, <2>5, InsideEffect
  <1>2. CASE Outside(c)
    <2>1. call'[d] = call[d] /\ UNCHANGED <<grants, policy, attached>>
          /\ (requests' = requests \/ InsertRequest(c))
      BY <1>2, OutsideEffect DEF Others
    <2>2. Session(d)' = Session(d)
      BY <2>1 DEF Session
    <2>3. CASE requests' = requests
      BY <2>1, <2>2, <2>3
    <2>4. CASE InsertRequest(c)
      BY <1>0, <2>1, <2>2, <2>4, InsertEffect DEF TypeOK
    <2>5. QED
      BY <2>1, <2>3, <2>4
  <1>3. CASE DecideLock(c) \/ RevokeLock(c)
    BY <1>3, LockEffect DEF Others, Session
  <1>4. CASE Unlock(c)
    BY <1>4, UnlockEffect DEF Others, Session
  <1>5. QED
    BY <1>1, <1>2, <1>3, <1>4

\* After a crash every goroutine is idle.
LEMMA CrashEffect ==
    ASSUME TypeOK, Crash
    PROVE  /\ \A c \in Calls : call'[c].pc = "idle"
           /\ \A e \in Entities : holder'[e] = NoCall
           /\ UNCHANGED <<requests, grants, policy, attached>>
  BY IdleFacts DEF Crash, stored, openbao
=============================================================================
