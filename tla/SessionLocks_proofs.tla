------------------------- MODULE SessionLocks_proofs -------------------------
(***************************************************************************)
(* Proofs about the map of session locks, for any number of goroutines,    *)
(* sessions and heap addresses: LockInv is inductive, hence the refcounts  *)
(* are exact, mutual exclusion holds, and the map implements KeyedMutex.   *)
(***************************************************************************)
EXTENDS SessionLocks, FiniteSetTheorems, TLAPS

\* The sets whose sizes the refcounts hold are finite.
LEMMA UsersFinite == \A o : IsFiniteSet(Users(o))
  BY ProcsFinite, FS_Subset DEF Users

\* The empty map satisfies the invariant.
LEMMA InitLockInv == Init => LockInv
  <1> SUFFICES ASSUME Init
               PROVE  LockInv
      OBVIOUS
  <1>1. TypeOK
    BY DEF Init, TypeOK
  <1>2. \A o \in Objects : Users(o) = {}
    BY DEF Init, Users, Outside
  <1>3. RefsCountUsers
    BY <1>2, FS_EmptySet DEF Init, RefsCountUsers
  <1>4. QED
    BY <1>1, <1>3, NoProcAssumption
       DEF Init, LockInv, EntriesMatchUsers, EntriesDistinct, OwnersAreCritical, Outside, Critical

\* Joining an existing entry adds the caller to that entry's users only.
LEMMA JoinKeepsLockInv ==
    ASSUME LockInv, NEW p \in Procs, NEW k \in Keys, Join(p, k)
    PROVE  LockInv'
  <1> DEFINE o0 == entries[k]
  <1>0. o0 \in Objects /\ p \notin Users(o0)
    BY DEF LockInv, TypeOK, Join, Users
  <1>1. \A o \in Objects : Users(o)' = IF o = o0 THEN Users(o) \cup {p} ELSE Users(o)
    BY <1>0 DEF LockInv, TypeOK, Join, Users, Outside
  <1>2. TypeOK' /\ \A q \in Procs : (~Outside(q))' => (lock[q] \in Objects)'
    BY <1>0 DEF LockInv, TypeOK, Join, Outside
  <1>3. EntriesMatchUsers'
    BY <1>0, <1>1 DEF LockInv, TypeOK, Join, EntriesMatchUsers, Outside
  <1>4. EntriesDistinct'
    BY DEF LockInv, Join, EntriesDistinct
  <1>5. RefsCountUsers'
    <2> SUFFICES ASSUME NEW o \in Objects
                 PROVE  refs'[o] = Cardinality(Users(o)')
        BY DEF RefsCountUsers
    <2>1. CASE o = o0
      <3>1. refs'[o] = refs[o] + 1
        BY <1>0, <2>1 DEF LockInv, TypeOK, Join
      <3>2. Cardinality(Users(o) \cup {p}) = Cardinality(Users(o)) + 1
        BY <1>0, <2>1, UsersFinite, FS_AddElement
      <3>3. QED
        BY <1>1, <2>1, <3>1, <3>2 DEF LockInv, RefsCountUsers
    <2>2. CASE o # o0
      BY <1>0, <1>1, <2>2 DEF LockInv, TypeOK, Join, RefsCountUsers
    <2>3. QED
      BY <2>1, <2>2
  <1>6. OwnersAreCritical'
    BY <1>0 DEF LockInv, TypeOK, Join, OwnersAreCritical, Outside, Critical
  <1>7. QED
    BY <1>2, <1>3, <1>4, <1>5, <1>6 DEF LockInv

\* A new entry is a fresh object with the caller as its only user.
LEMMA CreateKeepsLockInv ==
    ASSUME LockInv, NEW p \in Procs, NEW k \in Keys, NEW o0 \in Objects, Create(p, k, o0)
    PROVE  LockInv'
  <1>0. Users(o0) = {} /\ \A j \in Keys : entries[j] # o0
    BY DEF Create, Fresh
  <1>1. \A o \in Objects : Users(o)' = IF o = o0 THEN {p} ELSE Users(o)
    BY <1>0 DEF LockInv, TypeOK, Create, Users, Outside
  <1>2. TypeOK' /\ \A q \in Procs : (~Outside(q))' => (lock[q] \in Objects)'
    BY DEF LockInv, TypeOK, Create, Outside
  <1>3. EntriesMatchUsers'
    <2>1. \A q \in Procs : ~Outside(q) => key[q] # k
      BY NoObjectAssumption DEF LockInv, TypeOK, Create, EntriesMatchUsers
    <2>2. \A q \in Procs : (~Outside(q))' => entries'[key'[q]] = lock'[q]
      BY <2>1 DEF LockInv, TypeOK, Create, EntriesMatchUsers, Outside
    <2>3. \A j \in Keys : entries'[j] # NoObject => Users(entries[j])' # {}
      BY <1>0, <1>1 DEF LockInv, TypeOK, Create, EntriesMatchUsers
    <2>4. QED
      BY <2>2, <2>3 DEF EntriesMatchUsers
  <1>4. EntriesDistinct'
    BY <1>0 DEF LockInv, TypeOK, Create, EntriesDistinct
  <1>5. RefsCountUsers'
    BY <1>1, FS_Singleton DEF LockInv, TypeOK, Create, RefsCountUsers
  <1>6. OwnersAreCritical'
    BY <1>0, NoProcAssumption DEF LockInv, TypeOK, Create, OwnersAreCritical, Outside, Critical, Users
  <1>7. QED
    BY <1>2, <1>3, <1>4, <1>5, <1>6 DEF LockInv

\* Locking and unlocking the mutex move no user.
LEMMA LockKeepsLockInv ==
    ASSUME LockInv, NEW p \in Procs, Lock(p)
    PROVE  LockInv'
  <1>0. lock[p] \in Objects
    BY DEF LockInv, Lock, Outside
  <1>1. \A o : Users(o)' = Users(o)
    BY DEF LockInv, TypeOK, Lock, Users, Outside
  <1>2. TypeOK' /\ \A q \in Procs : (~Outside(q))' => (lock[q] \in Objects)'
    BY DEF LockInv, TypeOK, Lock, Outside
  <1>3. EntriesMatchUsers' /\ EntriesDistinct' /\ RefsCountUsers'
    BY <1>1 DEF LockInv, TypeOK, Lock, EntriesMatchUsers, EntriesDistinct, RefsCountUsers, Outside
  <1>4. OwnersAreCritical'
    BY <1>0, NoProcAssumption DEF LockInv, TypeOK, Lock, OwnersAreCritical, Critical
  <1>5. QED
    BY <1>2, <1>3, <1>4 DEF LockInv

LEMMA UnlockKeepsLockInv ==
    ASSUME LockInv, NEW p \in Procs, Unlock(p)
    PROVE  LockInv'
  <1>0. lock[p] \in Objects /\ owner[lock[p]] = p
    BY DEF LockInv, TypeOK, Unlock, OwnersAreCritical, Outside, Critical
  <1>1. \A o : Users(o)' = Users(o)
    BY DEF LockInv, TypeOK, Unlock, Users, Outside, Critical
  <1>2. TypeOK' /\ \A q \in Procs : (~Outside(q))' => (lock[q] \in Objects)'
    BY DEF LockInv, TypeOK, Unlock, Outside, Critical
  <1>3. EntriesMatchUsers' /\ EntriesDistinct' /\ RefsCountUsers'
    BY <1>1 DEF LockInv, TypeOK, Unlock, EntriesMatchUsers, EntriesDistinct, RefsCountUsers, Outside, Critical
  <1>4. OwnersAreCritical'
    BY <1>0, NoProcAssumption DEF LockInv, TypeOK, Unlock, OwnersAreCritical, Critical
  <1>5. QED
    BY <1>2, <1>3, <1>4 DEF LockInv

\* The last user deletes the entry; nobody else can still rely on it, because
\* the refcount it read as 1 is the number of users.
LEMMA LeaveKeepsLockInv ==
    ASSUME LockInv, NEW p \in Procs, Leave(p)
    PROVE  LockInv'
  <1> DEFINE o0 == lock[p]
  <1>0. o0 \in Objects /\ p \in Users(o0) /\ entries[key[p]] = o0
    BY DEF LockInv, Leave, Outside, Users, EntriesMatchUsers
  <1>1. \A o \in Objects : Users(o)' = IF o = o0 THEN Users(o) \ {p} ELSE Users(o)
    BY <1>0, NoObjectAssumption DEF LockInv, TypeOK, Leave, Users, Outside
  <1>2. Cardinality(Users(o0)) \in Nat /\ Cardinality(Users(o0)) = refs[o0]
    BY <1>0, UsersFinite, FS_CardinalityType DEF LockInv, RefsCountUsers
  <1>3. /\ Cardinality(Users(o0) \ {p}) = refs[o0] - 1
        /\ IsFiniteSet(Users(o0) \ {p})
    BY <1>0, <1>2, UsersFinite, FS_RemoveElement
  <1>4. /\ Cardinality(Users(o0) \ {p}) \in Nat
        /\ Users(o0) \ {p} = {} <=> refs[o0] = 1
    BY <1>2, <1>3, FS_CardinalityType, FS_EmptySet
  <1>5. TypeOK' /\ \A q \in Procs : (~Outside(q))' => (lock[q] \in Objects)'
    BY <1>0, <1>3, <1>4 DEF LockInv, TypeOK, Leave, Outside
  <1>6. EntriesMatchUsers'
    <2>1. \A q \in Procs : (~Outside(q))' => entries'[key'[q]] = lock'[q]
      <3> SUFFICES ASSUME NEW q \in Procs, (~Outside(q))'
                   PROVE  entries'[key'[q]] = lock'[q]
          OBVIOUS
      <3>1. q # p /\ ~Outside(q) /\ lock'[q] = lock[q] /\ key' = key
        BY DEF LockInv, TypeOK, Leave, Outside
      <3>2. entries[key[q]] = lock[q]
        BY <3>1 DEF LockInv, EntriesMatchUsers
      <3>3. CASE lock[q] = o0
        <4>1. q \in Users(o0) \ {p}
          BY <3>1, <3>3 DEF Users
        <4>2. QED
          BY <1>4, <3>1, <3>2, <4>1 DEF Leave
      <3>4. CASE lock[q] # o0
        BY <1>0, <3>1, <3>2, <3>4 DEF LockInv, TypeOK, Leave
      <3>5. QED
        BY <3>3, <3>4
    <2>2. \A k \in Keys : entries'[k] # NoObject => Users(entries[k])' # {}
      <3> SUFFICES ASSUME NEW k \in Keys, entries'[k] # NoObject
                   PROVE  Users(entries[k])' # {}
          OBVIOUS
      <3>1. entries'[k] = entries[k] /\ entries[k] \in Objects
        BY DEF LockInv, TypeOK, Leave
      <3>2. CASE entries[k] = o0
        <4>1. k = key[p]
          BY <1>0, <3>2, NoObjectAssumption DEF LockInv, TypeOK, EntriesDistinct
        <4>2. refs[o0] # 1
          BY <4>1 DEF LockInv, TypeOK, Leave
        <4>3. QED
          BY <1>1, <1>4, <3>1, <3>2, <4>2
      <3>3. CASE entries[k] # o0
        BY <1>1, <3>1, <3>3, NoObjectAssumption DEF LockInv, EntriesMatchUsers
      <3>4. QED
        BY <3>2, <3>3
    <2>3. QED
      BY <2>1, <2>2 DEF EntriesMatchUsers
  <1>7. EntriesDistinct'
    BY NoObjectAssumption DEF LockInv, TypeOK, Leave, EntriesDistinct
  <1>8. RefsCountUsers'
    BY <1>0, <1>1, <1>3 DEF LockInv, TypeOK, Leave, RefsCountUsers
  <1>9. OwnersAreCritical'
    BY <1>0, NoObjectAssumption DEF LockInv, TypeOK, Leave, OwnersAreCritical, Critical
  <1>10. QED
    BY <1>5, <1>6, <1>7, <1>8, <1>9 DEF LockInv

\* LockInv is inductive.
LEMMA LockInvInductive == LockInv /\ [Next]_vars => LockInv'
  <1> SUFFICES ASSUME LockInv, [Next]_vars
               PROVE  LockInv'
      OBVIOUS
  <1>1. ASSUME NEW p \in Procs, NEW k \in Keys, Join(p, k)
        PROVE  LockInv'
    BY <1>1, JoinKeepsLockInv
  <1>2. ASSUME NEW p \in Procs, NEW k \in Keys, NEW o \in Objects, Create(p, k, o)
        PROVE  LockInv'
    BY <1>2, CreateKeepsLockInv
  <1>3. ASSUME NEW p \in Procs, Lock(p)
        PROVE  LockInv'
    BY <1>3, LockKeepsLockInv
  <1>4. ASSUME NEW p \in Procs, Unlock(p)
        PROVE  LockInv'
    BY <1>4, UnlockKeepsLockInv
  <1>5. ASSUME NEW p \in Procs, Leave(p)
        PROVE  LockInv'
    BY <1>5, LeaveKeepsLockInv
  <1>6. CASE UNCHANGED vars
    BY <1>6 DEF LockInv, TypeOK, EntriesMatchUsers, EntriesDistinct, RefsCountUsers,
                OwnersAreCritical, Users, Outside, Critical, vars
  <1>7. QED
    BY <1>1, <1>2, <1>3, <1>4, <1>5, <1>6 DEF Next

\* Users of one session share the one object in the map, which has one owner.
LEMMA LockInvExcludes == LockInv => MutualExclusion
  <1> SUFFICES ASSUME LockInv, NEW p \in Procs, NEW q \in Procs,
                      Critical(p), Critical(q), key[p] = key[q]
               PROVE  p = q
      BY DEF MutualExclusion
  <1>1. lock[p] = lock[q] /\ lock[p] \in Objects
    BY DEF LockInv, EntriesMatchUsers, Outside, Critical
  <1>2. owner[lock[p]] = p /\ owner[lock[p]] = q
    BY <1>1 DEF LockInv, OwnersAreCritical
  <1>3. QED
    BY <1>2

\* The refcounted map stays consistent with the goroutines that use it: no
\* entry is deleted under a user and none is leaked (lockSession).
THEOREM LockInvHolds == Spec => []LockInv
  BY InitLockInv, LockInvInductive, PTL DEF Spec

\* One Decide or Revoke at a time per Agent Session (lockSession's contract).
THEOREM MutualExclusionHolds == Spec => []MutualExclusion
  BY LockInvExcludes, LockInvHolds, PTL

\* Holder names exactly the goroutine that is in the critical section.
LEMMA HolderIsTheCriticalOne ==
    ASSUME LockInv, NEW k \in Keys
    PROVE  /\ \A p \in Procs : Critical(p) /\ key[p] = k => Holder[k] = p
           /\ (\A p \in Procs : ~(Critical(p) /\ key[p] = k)) => Holder[k] = NoProc
  <1>1. MutualExclusion
    BY LockInvExcludes
  <1>2. QED
    BY <1>1 DEF Holder, MutualExclusion

\* A step that leaves the critical sections alone leaves the holders alone.
LEMMA SameCriticalSameHolder ==
    ASSUME \A p \in Procs : /\ Critical(p)' = Critical(p)
                            /\ Critical(p) => key'[p] = key[p]
    PROVE  Holder' = Holder
  BY DEF Holder

\* Taking the mutex of an entry is Acquire on the session.
LEMMA LockIsAcquire ==
    ASSUME LockInv, LockInv', NEW p \in Procs, Lock(p)
    PROVE  Mutex!Acquire(p, key[p])
  <1> DEFINE k0 == key[p]
  <1>0. k0 \in Keys /\ lock[p] \in Objects
    BY DEF LockInv, TypeOK, Lock, Outside
  <1>1. \A q \in Procs : ~(Critical(q) /\ key[q] = k0)
    <2> SUFFICES ASSUME NEW q \in Procs, Critical(q), key[q] = k0
                 PROVE  FALSE
        OBVIOUS
    <2>1. lock[q] = lock[p]
      BY DEF LockInv, EntriesMatchUsers, Lock, Outside, Critical
    <2>2. owner[lock[p]] = q
      BY <1>0, <2>1 DEF LockInv, OwnersAreCritical
    <2>3. QED
      BY <2>2, NoProcAssumption DEF Lock
  <1>2. Holder[k0] = NoProc
    BY <1>0, <1>1, HolderIsTheCriticalOne
  <1>3. \A q \in Procs : Critical(q)' <=> Critical(q) \/ q = p
    BY DEF LockInv, TypeOK, Lock, Critical
  <1>4. key' = key
    BY DEF Lock
  <1>5. ASSUME NEW k \in Keys
        PROVE  Holder'[k] = IF k = k0 THEN p ELSE Holder[k]
    <2>1. CASE k = k0
      <3>1. \A q \in Procs : (Critical(q) /\ key[q] = k)' <=> q = p
        BY <1>1, <1>3, <1>4, <2>1
      <3>2. QED
        BY <2>1, <3>1 DEF Holder
    <2>2. CASE k # k0
      BY <1>3, <1>4, <2>2 DEF Holder
    <2>3. QED
      BY <2>1, <2>2
  <1>6. Holder' = [Holder EXCEPT ![k0] = p]
    BY <1>5 DEF Holder
  <1>7. QED
    BY <1>2, <1>6 DEF Mutex!Acquire

\* Freeing it is Release.
LEMMA UnlockIsRelease ==
    ASSUME LockInv, NEW p \in Procs, Unlock(p)
    PROVE  Mutex!Release(p, key[p])
  <1> DEFINE k0 == key[p]
  <1>0. k0 \in Keys
    BY DEF LockInv, TypeOK
  <1>1. Holder[k0] = p
    BY <1>0, HolderIsTheCriticalOne DEF Unlock
  <1>2. \A q \in Procs : Critical(q) /\ key[q] = k0 => q = p
    BY LockInvExcludes DEF MutualExclusion, Unlock
  <1>3. \A q \in Procs : Critical(q)' <=> Critical(q) /\ q # p
    BY DEF LockInv, TypeOK, Unlock, Critical
  <1>4. key' = key
    BY DEF Unlock
  <1>5. ASSUME NEW k \in Keys
        PROVE  Holder'[k] = IF k = k0 THEN NoProc ELSE Holder[k]
    <2>1. CASE k = k0
      <3>1. \A q \in Procs : ~(Critical(q) /\ key[q] = k)'
        BY <1>2, <1>3, <1>4, <2>1
      <3>2. QED
        BY <2>1, <3>1 DEF Holder
    <2>2. CASE k # k0
      BY <1>3, <1>4, <2>2 DEF Holder
    <2>3. QED
      BY <2>1, <2>2
  <1>6. Holder' = [Holder EXCEPT ![k0] = NoProc]
    BY <1>5 DEF Holder
  <1>7. QED
    BY <1>1, <1>6 DEF Mutex!Release

\* The map of refcounted mutexes implements one mutex per Agent Session: every
\* step is an Acquire, a Release or invisible to the callers of lockSession.
THEOREM MapImplementsMutex == Spec => ImplementsKeyedMutex
  <1>1. Init => Mutex!MutexInit
    BY DEF Init, Mutex!MutexInit, Holder, Critical
  <1>2. LockInv /\ LockInv' /\ [Next]_vars => [Mutex!MutexNext(Procs)]_Holder
    <2> SUFFICES ASSUME LockInv, LockInv', [Next]_vars
                 PROVE  Mutex!MutexNext(Procs) \/ Holder' = Holder
        OBVIOUS
    <2>1. ASSUME NEW p \in Procs, NEW k \in Keys, Join(p, k)
          PROVE  Holder' = Holder
      <3>1. \A q \in Procs : /\ Critical(q)' = Critical(q)
                             /\ Critical(q) => key'[q] = key[q]
        BY <2>1 DEF LockInv, TypeOK, Join, Critical, Outside
      <3>2. QED
        BY <3>1, SameCriticalSameHolder
    <2>2. ASSUME NEW p \in Procs, NEW k \in Keys, NEW o \in Objects, Create(p, k, o)
          PROVE  Holder' = Holder
      <3>1. \A q \in Procs : /\ Critical(q)' = Critical(q)
                             /\ Critical(q) => key'[q] = key[q]
        BY <2>2 DEF LockInv, TypeOK, Create, Critical, Outside
      <3>2. QED
        BY <3>1, SameCriticalSameHolder
    <2>3. ASSUME NEW p \in Procs, Lock(p)
          PROVE  Mutex!MutexNext(Procs)
      BY <2>3, LockIsAcquire DEF Mutex!MutexNext, LockInv, TypeOK
    <2>4. ASSUME NEW p \in Procs, Unlock(p)
          PROVE  Mutex!MutexNext(Procs)
      BY <2>4, UnlockIsRelease DEF Mutex!MutexNext, LockInv, TypeOK
    <2>5. ASSUME NEW p \in Procs, Leave(p)
          PROVE  Holder' = Holder
      <3>1. \A q \in Procs : /\ Critical(q)' = Critical(q)
                             /\ Critical(q) => key'[q] = key[q]
        BY <2>5 DEF LockInv, TypeOK, Leave, Critical, Outside
      <3>2. QED
        BY <3>1, SameCriticalSameHolder
    <2>6. CASE UNCHANGED vars
      BY <2>6 DEF vars, Holder, Critical
    <2>7. QED
      BY <2>1, <2>2, <2>3, <2>4, <2>5, <2>6 DEF Next
  <1>3. QED
    BY <1>1, <1>2, LockInvHolds, PTL DEF Spec, ImplementsKeyedMutex
=============================================================================
