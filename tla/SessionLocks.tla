---------------------------- MODULE SessionLocks ----------------------------
(***************************************************************************)
(* Service.lockSession: a map from entity ID to a reference-counted mutex. *)
(* A goroutine looks its entry up (or creates it) and counts itself in     *)
(* under sessionLocksMu, blocks on the entry's own mutex, and on the way   *)
(* out frees the mutex first and only then, in a second critical section   *)
(* of sessionLocksMu, counts itself out and deletes the entry if it was    *)
(* the last one.  Each critical section of sessionLocksMu is one action.   *)
(* An entry is a heap object: a deleted one may still be in somebody's     *)
(* hands, which is how two callers could end up holding two mutexes for    *)
(* the same session.                                                       *)
(***************************************************************************)
EXTENDS Naturals, FiniteSets

CONSTANTS Procs,    \* goroutines that serve Decide and Revoke calls
          Keys,     \* entity IDs of Agent Sessions
          Objects,  \* heap addresses for sessionLock objects
          NoProc,   \* the owner of an unlocked mutex
          NoObject  \* the nil *sessionLock

ASSUME ProcsFinite == IsFiniteSet(Procs)
ASSUME NoProcAssumption == NoProc \notin Procs
ASSUME NoObjectAssumption == NoObject \notin Objects

VARIABLES pc,       \* where each goroutine stands in lockSession / unlock
          key,      \* the entity each goroutine last asked for
          lock,     \* the goroutine's local variable lock
          entries,  \* Service.sessionLocks
          owner,    \* owner[o]: the goroutine that holds o.mu
          refs      \* refs[o]: o.refs

vars == <<pc, key, lock, entries, owner, refs>>

Outside(p) == pc[p] = "outside"
Critical(p) == pc[p] = "critical"

\* The goroutines that have counted themselves into o and not yet out again.
Users(o) == {p \in Procs : ~Outside(p) /\ lock[p] = o}

\* Memory the allocator may hand out: no map entry and no goroutine refers to it.
Fresh(o) == Users(o) = {} /\ \A k \in Keys : entries[k] # o

Init ==
    /\ pc = [p \in Procs |-> "outside"]
    /\ key \in [Procs -> Keys]
    /\ lock = [p \in Procs |-> NoObject]
    /\ entries = [k \in Keys |-> NoObject]
    /\ owner = [o \in Objects |-> NoProc]
    /\ refs = [o \in Objects |-> 0]

\* Mutant: an existing entry is used without being counted.
JoinUncounted(p, k) ==
    /\ Outside(p)
    /\ entries[k] # NoObject
    /\ lock' = [lock EXCEPT ![p] = entries[k]]
    /\ key' = [key EXCEPT ![p] = k]
    /\ pc' = [pc EXCEPT ![p] = "waiting"]
    /\ UNCHANGED <<entries, owner, refs>>

\* The entry exists: count in.
Join(p, k) ==
    /\ Outside(p)
    /\ entries[k] # NoObject
    /\ refs' = [refs EXCEPT ![entries[k]] = @ + 1]
    /\ lock' = [lock EXCEPT ![p] = entries[k]]
    /\ key' = [key EXCEPT ![p] = k]
    /\ pc' = [pc EXCEPT ![p] = "waiting"]
    /\ UNCHANGED <<entries, owner>>

\* Mutant: the lookup and the insertion are not one critical section.
CreateUnchecked(p, k, o) ==
    /\ Outside(p)
    /\ Fresh(o)
    /\ entries' = [entries EXCEPT ![k] = o]
    /\ owner' = [owner EXCEPT ![o] = NoProc]
    /\ refs' = [refs EXCEPT ![o] = 1]
    /\ lock' = [lock EXCEPT ![p] = o]
    /\ key' = [key EXCEPT ![p] = k]
    /\ pc' = [pc EXCEPT ![p] = "waiting"]

\* No entry: a new unlocked mutex with this caller as its only user.
Create(p, k, o) ==
    /\ Outside(p)
    /\ entries[k] = NoObject
    /\ Fresh(o)
    /\ entries' = [entries EXCEPT ![k] = o]
    /\ owner' = [owner EXCEPT ![o] = NoProc]
    /\ refs' = [refs EXCEPT ![o] = 1]
    /\ lock' = [lock EXCEPT ![p] = o]
    /\ key' = [key EXCEPT ![p] = k]
    /\ pc' = [pc EXCEPT ![p] = "waiting"]

\* lock.mu.Lock() returns.
Lock(p) ==
    /\ pc[p] = "waiting"
    /\ owner[lock[p]] = NoProc
    /\ owner' = [owner EXCEPT ![lock[p]] = p]
    /\ pc' = [pc EXCEPT ![p] = "critical"]
    /\ UNCHANGED <<key, lock, entries, refs>>

\* Mutant: the returned function only counts out.
UnlockSkipped(p) ==
    /\ Critical(p)
    /\ pc' = [pc EXCEPT ![p] = "leaving"]
    /\ UNCHANGED <<key, lock, entries, owner, refs>>

\* The returned function's first step, lock.mu.Unlock().
Unlock(p) ==
    /\ Critical(p)
    /\ owner' = [owner EXCEPT ![lock[p]] = NoProc]
    /\ pc' = [pc EXCEPT ![p] = "leaving"]
    /\ UNCHANGED <<key, lock, entries, refs>>

\* Mutant: the entry is deleted whoever else uses it.
LeaveDeletes(p) ==
    /\ pc[p] = "leaving"
    /\ refs' = [refs EXCEPT ![lock[p]] = @ - 1]
    /\ entries' = [entries EXCEPT ![key[p]] = NoObject]
    /\ lock' = [lock EXCEPT ![p] = NoObject]
    /\ pc' = [pc EXCEPT ![p] = "outside"]
    /\ UNCHANGED <<key, owner>>

\* Its second step: count out, and delete the map entry if nobody is left.
Leave(p) ==
    /\ pc[p] = "leaving"
    /\ refs' = [refs EXCEPT ![lock[p]] = @ - 1]
    /\ entries' = IF refs[lock[p]] = 1
                  THEN [entries EXCEPT ![key[p]] = NoObject]
                  ELSE entries
    /\ lock' = [lock EXCEPT ![p] = NoObject]
    /\ pc' = [pc EXCEPT ![p] = "outside"]
    /\ UNCHANGED <<key, owner>>

Next ==
    \E p \in Procs :
        \/ \E k \in Keys : Join(p, k)
        \/ \E k \in Keys, o \in Objects : Create(p, k, o)
        \/ Lock(p)
        \/ Unlock(p)
        \/ Leave(p)

Spec == Init /\ [][Next]_vars

(***************************************************************************)
(* A goroutine that holds the mutex runs on and leaves; sync.Mutex hands   *)
(* over to a waiter that has starved for a millisecond, so a waiter for    *)
(* whom the mutex keeps becoming free gets it (strong fairness).  Nobody   *)
(* is obliged to call lockSession at all.                                  *)
(***************************************************************************)
Fairness ==
    \A p \in Procs :
        /\ SF_vars(Lock(p))
        /\ WF_vars(Unlock(p))
        /\ WF_vars(Leave(p))

FairSpec == Spec /\ Fairness
-----------------------------------------------------------------------------
\* Every variable has its type; a count never goes below zero.
TypeOK ==
    /\ pc \in [Procs -> {"outside", "waiting", "critical", "leaving"}]
    /\ key \in [Procs -> Keys]
    /\ lock \in [Procs -> Objects \cup {NoObject}]
    /\ entries \in [Keys -> Objects \cup {NoObject}]
    /\ owner \in [Objects -> Procs \cup {NoProc}]
    /\ refs \in [Objects -> Nat]

\* Two goroutines are never inside the critical section of one Agent Session,
\* although the mutex they used may have been deleted from the map and created
\* again in between (lockSession's contract for decide and revoke).
MutualExclusion ==
    \A p, q \in Procs : Critical(p) /\ Critical(q) /\ key[p] = key[q] => p = q

\* The map never forgets a mutex somebody waits for or holds, and drops every
\* mutex nobody uses: a session's entry is the object all its users share.
EntriesMatchUsers ==
    /\ \A p \in Procs : ~Outside(p) => entries[key[p]] = lock[p]
    /\ \A k \in Keys : entries[k] # NoObject => Users(entries[k]) # {}

\* The refcount is the number of users (what makes delete-at-zero correct).
RefsCountUsers == \A o \in Objects : refs[o] = Cardinality(Users(o))

\* A held mutex is held by a goroutine that is in its critical section.
OwnersAreCritical ==
    \A p \in Procs, o \in Objects : owner[o] = p <=> Critical(p) /\ lock[p] = o

\* Distinct sessions never share a mutex.
EntriesDistinct ==
    \A j, k \in Keys : entries[j] = entries[k] /\ entries[j] # NoObject => j = k

\* The inductive invariant behind MutualExclusion.
LockInv ==
    /\ TypeOK
    /\ \A p \in Procs : ~Outside(p) => lock[p] \in Objects
    /\ EntriesMatchUsers
    /\ EntriesDistinct
    /\ RefsCountUsers
    /\ OwnersAreCritical

\* The goroutine inside a session's critical section, as callers see it.
Holder == [k \in Keys |->
             IF \E p \in Procs : Critical(p) /\ key[p] = k
             THEN CHOOSE p \in Procs : Critical(p) /\ key[p] = k
             ELSE NoProc]

Mutex == INSTANCE KeyedMutex WITH holder <- Holder

\* The map of mutexes implements one mutex per session: its callers see only
\* Acquire and Release steps of KeyedMutex.
ImplementsKeyedMutex == Mutex!MutexInit /\ [][Mutex!MutexNext(Procs)]_Holder

\* Every Decide or Revoke call that asks for a session's lock gets it, however
\* many other calls for that session keep coming.
WaitersEnter == \A p \in Procs : pc[p] = "waiting" ~> Critical(p)
=============================================================================
