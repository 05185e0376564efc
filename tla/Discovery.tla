----------------------------- MODULE Discovery ------------------------------
(***************************************************************************)
(* The discovery cache: Grantables lists the discover path of every rule   *)
(* in a goroutine of its own, unless a recent listing is cached.           *)
(***************************************************************************)
EXTENDS Integers, Sequences

CONSTANTS Rules,      \* Grantable Rules that set discover
          Callers,    \* ListGrantables and ListGrantableRules calls
          discoveryTTL,
          MaxTime,    \* bound: the clock stops here
          MaxCalls    \* bound: calls of each caller

DiscoveryAssumption ==
    discoveryTTL \in Nat \ {0} /\ MaxTime \in Nat /\ MaxCalls \in Nat

VARIABLES now,
          keys,     \* keys[r]: what OpenBao lists under r's discover path
          results,  \* the cached listing of each rule
          find,     \* find[c][r]: the goroutine of call c for rule r
          gone,     \* callers that went away
          calls     \* calls each caller made

vars == <<now, keys, results, find, gone, calls>>

\* A key is named by the time it appeared.  A failed listing shows none.
NoListing == [kind |-> "none", keys |-> {}, at |-> 0]
Idle == [pc |-> "idle", began |-> 0, found |-> NoListing]
Kinds == {"none", "paths", "openbao_failed", "caller_left"}

Init ==
    /\ now = 0
    /\ keys = [r \in Rules |-> {}]
    /\ results = [r \in Rules |-> NoListing]
    /\ find = [c \in Callers |-> [r \in Rules |-> Idle]]
    /\ gone = {}
    /\ calls = [c \in Callers |-> 0]

\* Grantables starts one goroutine per rule and waits for all of them.
Call(c) ==
    /\ calls[c] < MaxCalls
    /\ \A r \in Rules : find[c][r].pc = "idle"
    /\ find' = [find EXCEPT ![c] = [r \in Rules |-> [Idle EXCEPT !.pc = "look"]]]
    /\ calls' = [calls EXCEPT ![c] = @ + 1]
    /\ gone' = gone \ {c}
    /\ UNCHANGED <<now, keys, results>>
Return(c) ==
    /\ \A r \in Rules : find[c][r].pc = "done"
    /\ find' = [find EXCEPT ![c] = [r \in Rules |-> Idle]]
    /\ UNCHANGED <<now, keys, results, gone, calls>>
Leave(c) ==
    /\ \E r \in Rules : find[c][r].pc # "idle"
    /\ gone' = gone \cup {c}
    /\ UNCHANGED <<now, keys, results, find, calls>>

Goroutine(c, r, changes) == find' = [find EXCEPT ![c][r] = changes]

\* Mutant: a cached listing is good until its age exceeds the TTL by a tick.
LookLonger(c, r) ==
    /\ find[c][r].pc = "look"
    /\ Goroutine(c, r, IF results[r].kind # "none" /\ now - results[r].at <= discoveryTTL
                       THEN [find[c][r] EXCEPT !.pc = "done", !.began = now, !.found = results[r]]
                       ELSE [find[c][r] EXCEPT !.pc = "list", !.began = now])
    /\ UNCHANGED <<now, keys, results, gone, calls>>
\* discover reads the clock and the cache.
Look(c, r) ==
    /\ find[c][r].pc = "look"
    /\ Goroutine(c, r, IF results[r].kind # "none" /\ now - results[r].at < discoveryTTL
                       THEN [find[c][r] EXCEPT !.pc = "done", !.began = now, !.found = results[r]]
                       ELSE [find[c][r] EXCEPT !.pc = "list", !.began = now])
    /\ UNCHANGED <<now, keys, results, gone, calls>>

\* OpenBao answers, with the keys of this moment or an error; a caller that has
\* gone away cuts its LIST short.
List(c, r) ==
    /\ find[c][r].pc = "list"
    /\ \/ Goroutine(c, r, [find[c][r] EXCEPT !.pc = "listed",
             !.found = [kind |-> "paths", keys |-> keys[r], at |-> find[c][r].began]])
       \/ Goroutine(c, r, [find[c][r] EXCEPT !.pc = "listed",
             !.found = [kind |-> "openbao_failed", keys |-> {}, at |-> find[c][r].began]])
       \/ /\ c \in gone
          /\ Goroutine(c, r, [find[c][r] EXCEPT !.pc = "listed",
                !.found = [kind |-> "caller_left", keys |-> {}, at |-> find[c][r].began]])
    /\ UNCHANGED <<now, keys, results, gone, calls>>

\* Mutant: any failure is kept.
KeepAll(c, r) ==
    /\ find[c][r].pc = "listed"
    /\ Goroutine(c, r, [find[c][r] EXCEPT !.pc = "done"])
    /\ results' = [results EXCEPT ![r] = find[c][r].found]
    /\ UNCHANGED <<now, keys, gone, calls>>
\* Mutant: the goroutine of a caller that left is not counted as done.
KeepHanging(c, r) ==
    /\ find[c][r].pc = "listed" /\ c \notin gone
    /\ Goroutine(c, r, [find[c][r] EXCEPT !.pc = "done"])
    /\ results' = [results EXCEPT ![r] = find[c][r].found]
    /\ UNCHANGED <<now, keys, gone, calls>>
\* A failure while the caller is away is not kept, whatever its cause; anything
\* else replaces what is cached, newer or not.
Keep(c, r) ==
    /\ find[c][r].pc = "listed"
    /\ Goroutine(c, r, [find[c][r] EXCEPT !.pc = "done"])
    /\ results' = IF find[c][r].found.kind # "paths" /\ c \in gone THEN results
                  ELSE [results EXCEPT ![r] = find[c][r].found]
    /\ UNCHANGED <<now, keys, gone, calls>>

\* Somebody adds a key in OpenBao.
AddKey(r) ==
    /\ keys' = [keys EXCEPT ![r] = @ \cup {now}]
    /\ keys' # keys
    /\ UNCHANGED <<now, results, find, gone, calls>>
Tick == now < MaxTime /\ now' = now + 1 /\ UNCHANGED <<keys, results, find, gone, calls>>

Step(c, r) == Look(c, r) \/ List(c, r) \/ Keep(c, r)
Next ==
    \/ \E c \in Callers :
          \/ Call(c) \/ Return(c) \/ Leave(c)
          \/ \E r \in Rules : Step(c, r)
    \/ \E r \in Rules : AddKey(r)
    \/ Tick

Spec == Init /\ [][Next]_vars
\* The server and OpenBao answer; nobody has to call, leave or add a key.
Fairness == \A c \in Callers : WF_vars(Return(c)) /\ \A r \in Rules : WF_vars(Step(c, r))
FairSpec == Spec /\ Fairness
-----------------------------------------------------------------------------
Listings == [kind : Kinds, keys : SUBSET (0..MaxTime), at : 0..MaxTime]
\* Every variable has its type.
TypeOK ==
    /\ now \in 0..MaxTime
    /\ keys \in [Rules -> SUBSET (0..MaxTime)]
    /\ results \in [Rules -> Listings]
    /\ find \in [Callers -> [Rules -> [pc : {"idle", "look", "list", "listed", "done"}, began : 0..MaxTime,
                                       found : Listings]]]
    /\ gone \subseteq Callers /\ calls \in [Callers -> 0..MaxCalls]

\* A key shows up within the TTL: a call that began that long after it appeared
\* does not get a listing without it, though an older listing may replace a
\* newer one in the cache.
KeysShowUp ==
    \A c \in Callers, r \in Rules :
        LET found == find[c][r].found IN
        find[c][r].pc = "done" /\ found.kind = "paths" =>
            {k \in keys[r] : k + discoveryTTL <= find[c][r].began} \subseteq found.keys

\* A caller that goes away does not spoil the catalog of the others: a failure
\* is cached, and told to callers that stay, only if OpenBao failed.
FailuresAreOpenBaos ==
    \A r \in Rules :
        /\ results[r].kind # "caller_left"
        /\ \A c \in Callers \ gone : find[c][r].found.kind # "caller_left"

\* Every call returns.
CallsReturn == \A c \in Callers : (\E r \in Rules : find[c][r].pc # "idle") ~> (\A r \in Rules : find[c][r].pc = "idle")
=============================================================================
