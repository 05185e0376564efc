----------------------------- MODULE KeyedMutex -----------------------------
(***************************************************************************)
(* What Service.lockSession promises its callers: one mutex per Agent      *)
(* Session (Key).  A caller that Acquires a key holds it alone until it    *)
(* Releases it, and callers of different keys never wait for each other.   *)
(* SessionLocks shows that the reference-counted map of mutexes keeps this *)
(* promise; Grants uses the promise instead of the map.                    *)
(***************************************************************************)
CONSTANTS Keys,     \* entity IDs of Agent Sessions
          NoProc    \* "nobody", the owner of a free key

VARIABLE holder     \* holder[k] is the goroutine inside k's critical section

MutexInit == holder = [k \in Keys |-> NoProc]

Acquire(p, k) ==
    /\ holder[k] = NoProc
    /\ holder' = [holder EXCEPT ![k] = p]

Release(p, k) ==
    /\ holder[k] = p
    /\ holder' = [holder EXCEPT ![k] = NoProc]

MutexNext(Procs) ==
    \E p \in Procs, k \in Keys : Acquire(p, k) \/ Release(p, k)
=============================================================================
