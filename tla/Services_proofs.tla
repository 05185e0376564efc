--------------------------- MODULE Services_proofs ---------------------------
(***************************************************************************)
(* The components of the server that need only a few variables: how the    *)
(* process ends, the discovery cache and the fan-out of pushes, and what   *)
(* Components says of them.                                                *)
(***************************************************************************)
EXTENDS Components, Integers, Sequences, FiniteSets, WellFoundedInduction, SequenceTheorems, TLAPS

-----------------------------------------------------------------------------
(* Server *)

\* What the clock tells during a shutdown: it has only gone on once every call
\* that waits has answered.
ShutdownInv ==
    phase = "shutdown" =>
        /\ deadline - ShutdownTimeout <= now
        /\ base # "live"
        /\ now > deadline - ShutdownTimeout =>
              base = "cancelled" /\ \A c \in Shutdown!Running : kind[c] = "work"
\* A result without an error is only there when no call is left.
NilInv == phase = "returned" /\ result = "nil" => Shutdown!Running = {}
\* Only the end of the process cuts a call off.
CutInv == \A c \in HTTPCalls : call[c] = "cut" => phase = "over"
ServerInv == Shutdown!TypeOK /\ ShutdownInv /\ NilInv /\ CutInv /\ Shutdown!CleanEndsAnswerEverything

-----------------------------------------------------------------------------
LEMMA ServerInvInit == Shutdown!ServerAssumption /\ Shutdown!Init => ServerInv
  <1> SUFFICES ASSUME Shutdown!ServerAssumption, Shutdown!Init PROVE ServerInv
    OBVIOUS
  <1>1. Shutdown!TypeOK
    <2>1. now \in 0..ShutdownHorizon /\ deadline \in 0..ShutdownHorizon
      BY DEF Shutdown!ServerAssumption, Shutdown!Init
    <2>2. rootCancelled \in BOOLEAN /\ database \in BOOLEAN /\ (~database <=> phase = "over")
      BY Zenon DEF Shutdown!Init
    <2>3. /\ phase = "serving" /\ base = "live" /\ result = "none"
          /\ kind \in [HTTPCalls -> Shutdown!Kinds]
          /\ call \in [HTTPCalls -> {"none", "running", "answered", "cut"}]
          /\ sweep \in [Sweeps -> {"waiting", "working", "ended", "cut"}]
      BY DEF Shutdown!Init
    <2> QED  BY <2>1, <2>2, <2>3 DEF Shutdown!TypeOK
  <1>2. ShutdownInv /\ NilInv /\ CutInv /\ Shutdown!CleanEndsAnswerEverything
    BY DEF Shutdown!Init, ShutdownInv, NilInv, CutInv, Shutdown!CleanEndsAnswerEverything
  <1> QED  BY <1>1, <1>2 DEF ServerInv

\* Steps of calls and sweeps: a call that is not new only ever stops running.
LEMMA CallsKeep ==
    ASSUME ServerInv,
           \/ \E c \in HTTPCalls : Shutdown!Accept(c) \/ Shutdown!Answer(c)
           \/ \E s \in Sweeps : Shutdown!SweepStarts(s) \/ Shutdown!SweepEnds(s)
    PROVE  ServerInv'
  <1> USE DEF Shutdown!RunKept
  <1>0. Shutdown!TypeOK /\ ShutdownInv /\ NilInv /\ CutInv /\ Shutdown!CleanEndsAnswerEverything
    BY DEF ServerInv
  <1>1. Shutdown!TypeOK' /\ UNCHANGED <<now, phase, deadline, base, result, kind>>
    BY <1>0 DEF Shutdown!TypeOK, Shutdown!Accept, Shutdown!Answer, Shutdown!SweepStarts, Shutdown!SweepEnds
  <1>2. phase # "serving" => Shutdown!Running' \subseteq Shutdown!Running
    BY <1>0 DEF Shutdown!TypeOK, Shutdown!Running, Shutdown!Accept, Shutdown!Answer, Shutdown!SweepStarts, Shutdown!SweepEnds
  <1>3. phase = "over" => call' = call
    BY DEF Shutdown!Accept, Shutdown!Answer, Shutdown!SweepStarts, Shutdown!SweepEnds
  <1>4. \A c \in HTTPCalls : call'[c] = "cut" => call[c] = "cut"
    BY <1>0 DEF Shutdown!TypeOK, Shutdown!Accept, Shutdown!Answer, Shutdown!SweepStarts, Shutdown!SweepEnds
  <1> QED  BY <1>0, <1>1, <1>2, <1>3, <1>4 DEF ServerInv, ShutdownInv, NilInv, CutInv, Shutdown!CleanEndsAnswerEverything

\* Steps of run and of the clock.
LEMMA RunKeeps ==
    ASSUME Shutdown!ServerAssumption, ServerInv, Shutdown!Signal \/ Shutdown!ListenFails \/ Shutdown!Run \/ Shutdown!Tick
    PROVE  ServerInv'
  <1> USE DEF Shutdown!CallsKept
  <1>0. Shutdown!TypeOK /\ ShutdownInv /\ NilInv /\ CutInv /\ Shutdown!CleanEndsAnswerEverything
    BY DEF ServerInv
  <1>1. CASE Shutdown!Signal
    <2>1. Shutdown!TypeOK'
      BY <1>0, <1>1 DEF Shutdown!ServerAssumption, Shutdown!TypeOK, Shutdown!Signal
    <2>2. deadline' - ShutdownTimeout = now' /\ now' \in Nat /\ base' = "ending" /\ phase' = "shutdown"
      BY <1>0, <1>1 DEF Shutdown!ServerAssumption, Shutdown!TypeOK, Shutdown!Signal
    <2>3. ShutdownInv'
      BY <2>2 DEF ShutdownInv
    <2>4. NilInv' /\ CutInv' /\ Shutdown!CleanEndsAnswerEverything'
      BY <1>0, <1>1, <2>2 DEF Shutdown!Signal, NilInv, CutInv, Shutdown!CleanEndsAnswerEverything
    <2> QED  BY <2>1, <2>3, <2>4 DEF ServerInv
  <1>2. CASE Shutdown!OnShutdown
    <2>1. Shutdown!TypeOK'
      BY <1>0, <1>2 DEF Shutdown!TypeOK, Shutdown!OnShutdown
    <2>2. Shutdown!Running' = Shutdown!Running
      BY <1>2 DEF Shutdown!OnShutdown, Shutdown!Running
    <2> QED  BY <1>0, <1>2, <2>1, <2>2 DEF Shutdown!OnShutdown, ServerInv, ShutdownInv, NilInv, CutInv, Shutdown!CleanEndsAnswerEverything
  <1>3. CASE Shutdown!ShutdownEnds \/ Shutdown!ShutdownTimesOut \/ Shutdown!ListenFails
    <2>1. Shutdown!TypeOK'
      BY <1>0, <1>3 DEF Shutdown!TypeOK, Shutdown!ShutdownEnds, Shutdown!ShutdownTimesOut, Shutdown!ListenFails, Shutdown!Return
    <2>2. /\ phase # "over" /\ phase' = "returned" /\ call' = call /\ Shutdown!Running' = Shutdown!Running
          /\ result' = "nil" => Shutdown!Running = {}
      BY <1>3 DEF Shutdown!ShutdownEnds, Shutdown!ShutdownTimesOut, Shutdown!ListenFails, Shutdown!Return, Shutdown!Running
    <2> QED  BY <1>0, <2>1, <2>2 DEF ServerInv, ShutdownInv, NilInv, CutInv, Shutdown!CleanEndsAnswerEverything
  <1>4. CASE Shutdown!Close
    <2>1. Shutdown!TypeOK'
      BY <1>0, <1>4 DEF Shutdown!TypeOK, Shutdown!Close
    <2>2. /\ phase = "returned" /\ phase' = "over" /\ result' = result
          /\ Shutdown!Running = {} => call' = call
      BY <1>0, <1>4 DEF Shutdown!Close, Shutdown!TypeOK, Shutdown!Running
    <2>3. \A c \in HTTPCalls : c \in Shutdown!Running \/ call[c] \in {"none", "answered", "cut"}
      BY <1>0 DEF Shutdown!TypeOK, Shutdown!Running
    <2> QED  BY <1>0, <2>1, <2>2, <2>3 DEF ServerInv, ShutdownInv, NilInv, CutInv, Shutdown!CleanEndsAnswerEverything
  <1>5. CASE Shutdown!Tick
    <2>1. Shutdown!TypeOK'
      BY <1>0, <1>5 DEF Shutdown!ServerAssumption, Shutdown!TypeOK, Shutdown!Tick
    <2>2. Shutdown!Running' = Shutdown!Running
      BY <1>5 DEF Shutdown!Tick, Shutdown!Running
    <2>3. phase = "shutdown" => base = "cancelled" /\ \A c \in Shutdown!Running : kind[c] = "work"
      BY <1>0, <1>5 DEF Shutdown!TypeOK, Shutdown!Tick, Shutdown!Urgent, ShutdownInv, Shutdown!Kinds, Shutdown!Running
    <2> QED  BY <1>0, <1>5, <2>1, <2>2, <2>3
             DEF Shutdown!ServerAssumption, Shutdown!TypeOK, Shutdown!Tick, ServerInv, ShutdownInv, NilInv, CutInv, Shutdown!CleanEndsAnswerEverything
  <1> QED  BY <1>1, <1>2, <1>3, <1>4, <1>5 DEF Shutdown!Run

-----------------------------------------------------------------------------
\* Every step of the server keeps ServerInv.
LEMMA ServerInvStep == Shutdown!ServerAssumption /\ ServerInv /\ [Shutdown!Next]_(Shutdown!vars) => ServerInv'
  <1> SUFFICES ASSUME Shutdown!ServerAssumption, ServerInv, [Shutdown!Next]_(Shutdown!vars) PROVE ServerInv'
    OBVIOUS
  <1>1. CASE UNCHANGED Shutdown!vars
    BY <1>1 DEF Shutdown!vars, ServerInv, Shutdown!TypeOK, ShutdownInv, NilInv, CutInv, Shutdown!CleanEndsAnswerEverything, Shutdown!Running
  <1> QED  BY <1>1, CallsKeep, RunKeeps DEF Shutdown!Next

\* ServerInv is inductive.
THEOREM ServerInvHolds == ASSUME Shutdown!ServerAssumption PROVE Shutdown!Spec => []ServerInv
  <1>1. ServerInv /\ [Shutdown!Next]_(Shutdown!vars) => ServerInv'
    BY ServerInvStep
  <1> QED  BY <1>1, ServerInvInit, PTL DEF Shutdown!Spec

\* A server that ends without an error has answered every call it accepted
\* (run, newHTTPServer).
THEOREM CleanEndsAnswer == ASSUME Shutdown!ServerAssumption PROVE Shutdown!Spec => []Shutdown!CleanEndsAnswerEverything
  BY ServerInvHolds, PTL DEF ServerInv

\* Streams and long polls never make Shutdown time out, because their contexts
\* are cancelled when it begins: a call that works does (newHTTPServer).
THEOREM StreamsEndBeforeTheTimeout == ASSUME Shutdown!ServerAssumption PROVE Shutdown!Spec => Shutdown!StreamsDoNotHoldShutdown
  <1>1. ServerInv /\ [Shutdown!Next]_(Shutdown!vars) => [phase = "shutdown" /\ result' = "error" => \E c \in Shutdown!Running : kind[c] = "work"]_(Shutdown!vars)
    <2> SUFFICES ASSUME ServerInv, Shutdown!Next, phase = "shutdown", result' = "error"
                 PROVE  \E c \in Shutdown!Running : kind[c] = "work"
      OBVIOUS
    <2>1. Shutdown!TypeOK /\ ShutdownInv /\ result = "none"
      BY DEF ServerInv, Shutdown!TypeOK
    <2>2. Shutdown!ShutdownTimesOut
      BY <2>1 DEF Shutdown!Next, Shutdown!Signal, Shutdown!ListenFails, Shutdown!Run, Shutdown!OnShutdown, Shutdown!ShutdownEnds, Shutdown!Close, Shutdown!Return, Shutdown!Tick,
                  Shutdown!Accept, Shutdown!Answer, Shutdown!SweepStarts, Shutdown!SweepEnds, Shutdown!RunKept
    <2>3. now > deadline - ShutdownTimeout
      BY <2>1, <2>2 DEF Shutdown!TypeOK, Shutdown!ServerAssumption, Shutdown!ShutdownTimesOut
    <2> QED  BY <2>1, <2>2, <2>3 DEF Shutdown!ShutdownTimesOut, ShutdownInv
  <1> QED  BY <1>1, ServerInvHolds, PTL DEF Shutdown!Spec, Shutdown!StreamsDoNotHoldShutdown

-----------------------------------------------------------------------------
(* Discovery *)

\* A listing has every key that was there before the listing began.
Holds(r, found) ==
    found.kind = "paths" => \A k \in keys[r] : k < found.at => k \in found.keys
\* A goroutine that is done has a listing that began less than the TTL before
\* it, and the listings that are kept began in the past.
CatalogInv ==
    /\ Catalog!TypeOK
    /\ \A r \in Rules : results[r].at <= now /\ Holds(r, results[r])
    /\ \A c \in Callers, r \in Rules :
          /\ find[c][r].began <= now
          /\ find[c][r].pc \in {"listed", "done"} =>
                /\ find[c][r].found.at <= find[c][r].began
                /\ find[c][r].found.at + discoveryTTL > find[c][r].began
                /\ Holds(r, find[c][r].found)
          /\ find[c][r].pc = "listed" => find[c][r].found.at = find[c][r].began
    /\ Catalog!FailuresAreOpenBaos

\* What a step of one goroutine does to the others: nothing.
LEMMA GoroutineOnly ==
    ASSUME CatalogInv, NEW c \in Callers, NEW r \in Rules, NEW new, Catalog!Goroutine(c, r, new),
           new \in [pc : {"idle", "look", "list", "listed", "done"}, began : 0..CatalogHorizon, found : Catalog!Listings]
    PROVE  /\ find' \in [Callers -> [Rules -> [pc : {"idle", "look", "list", "listed", "done"}, began : 0..CatalogHorizon,
                                       found : Catalog!Listings]]]
           /\ find'[c][r] = new
           /\ \A d \in Callers, s \in Rules : (d # c \/ s # r) => find'[d][s] = find[d][s]
BY DEF CatalogInv, Catalog!TypeOK, Catalog!Goroutine

LEMMA CatalogInvInit == ASSUME Catalog!DiscoveryAssumption, Catalog!Init PROVE CatalogInv
BY DEF Catalog!DiscoveryAssumption, Catalog!Init, CatalogInv, Catalog!TypeOK, Catalog!Listings, Catalog!Kinds,
       Catalog!NoListing, Catalog!Idle, Holds, Catalog!FailuresAreOpenBaos

\* All goroutines of one caller begin, or are forgotten, together.
LEMMA CallKeeps ==
    ASSUME Catalog!DiscoveryAssumption, CatalogInv, NEW c \in Callers, Catalog!Call(c) \/ Catalog!Return(c)
    PROVE  CatalogInv'
<1> DEFINE Begun(place) == [pc |-> place, began |-> 0, found |-> Catalog!NoListing]
           Starts(place) == find' = [find EXCEPT ![c] = [r \in Rules |-> Begun(place)]]
<1>1. Starts("look") \/ Starts("idle")
  <2>1. CASE Catalog!Call(c)
    <3>1. [Catalog!Idle EXCEPT !.pc = "look"] = Begun("look")
      BY DEF Catalog!Idle
    <3> QED
      BY <2>1, <3>1 DEF Catalog!Call, Catalog!Idle
  <2>2. CASE Catalog!Return(c)
    BY <2>2 DEF Catalog!Return, Catalog!Idle
  <2> QED
    BY <2>1, <2>2
<1>2. Catalog!NoListing \in Catalog!Listings /\ 0 \in 0..CatalogHorizon
  BY DEF Catalog!NoListing, Catalog!Listings, Catalog!Kinds, Catalog!DiscoveryAssumption
<1>3. PICK place \in {"look", "idle"} : Starts(place)
  BY <1>1
<1> HIDE DEF Begun
<1>4. Begun(place).pc \in {"look", "idle"} /\ Begun(place).began = 0 /\ Begun(place).found = Catalog!NoListing
  BY DEF Begun
<1>5. \A r \in Rules : find'[c][r] = Begun(place)
  BY <1>3 DEF CatalogInv, Catalog!TypeOK
<1>6. \A d \in Callers \ {c}, r \in Rules : find'[d][r] = find[d][r]
  BY <1>3 DEF CatalogInv, Catalog!TypeOK
<1>7. Begun(place) \in [pc : {"idle", "look", "list", "listed", "done"}, began : 0..CatalogHorizon, found : Catalog!Listings]
  BY <1>2 DEF Begun
<1>8. find' \in [Callers -> [Rules -> [pc : {"idle", "look", "list", "listed", "done"}, began : 0..CatalogHorizon,
                                       found : Catalog!Listings]]]
  BY <1>3, <1>7 DEF CatalogInv, Catalog!TypeOK
<1>9. UNCHANGED <<now, keys, results>> /\ gone' \subseteq Callers /\ gone \ {c} \subseteq gone'
  BY DEF Catalog!Call, Catalog!Return, CatalogInv, Catalog!TypeOK
<1>10. calls' \in [Callers -> 0..MaxCalls]
  <2>1. calls \in [Callers -> 0..MaxCalls] /\ MaxCalls \in Nat
    BY DEF CatalogInv, Catalog!TypeOK, Catalog!DiscoveryAssumption
  <2>2. calls' = calls \/ (calls[c] < MaxCalls /\ calls' = [calls EXCEPT ![c] = @ + 1])
    BY DEF Catalog!Call, Catalog!Return
  <2> QED
    BY <2>1, <2>2
<1>11. Catalog!TypeOK'
  BY <1>8, <1>9, <1>10 DEF CatalogInv, Catalog!TypeOK
<1>12. Catalog!FailuresAreOpenBaos'
  BY <1>4, <1>5, <1>6, <1>9 DEF CatalogInv, Catalog!FailuresAreOpenBaos, Catalog!NoListing
<1>13. \A r \in Rules : (results[r].at <= now /\ Holds(r, results[r]))'
  BY <1>9 DEF CatalogInv, Holds
<1>14. ASSUME NEW d \in Callers, NEW r \in Rules
       PROVE  /\ find'[d][r].began <= now
              /\ find'[d][r].pc \in {"listed", "done"} =>
                   /\ find'[d][r].found.at <= find'[d][r].began
                   /\ find'[d][r].found.at + discoveryTTL > find'[d][r].began
                   /\ Holds(r, find[d][r].found)'
              /\ find'[d][r].pc = "listed" => find'[d][r].found.at = find'[d][r].began
  <2>1. CASE d = c
    BY <1>4, <1>5, <2>1 DEF CatalogInv, Catalog!TypeOK, Catalog!DiscoveryAssumption
  <2>2. CASE d # c
    BY <1>6, <1>9, <2>2 DEF CatalogInv, Holds
  <2> QED
    BY <2>1, <2>2
<1> QED
  BY <1>9, <1>11, <1>12, <1>13, <1>14 DEF CatalogInv

\* What is left to show of a step of one goroutine: its own part.
LEMMA GoroutineKeeps ==
    ASSUME CatalogInv, NEW c \in Callers, NEW r \in Rules, NEW new, Catalog!Goroutine(c, r, new),
           new \in [pc : {"idle", "look", "list", "listed", "done"}, began : 0..CatalogHorizon, found : Catalog!Listings],
           UNCHANGED <<now, keys, gone, calls>>, results' \in [Rules -> Catalog!Listings],
           \A s \in Rules : results'[s] = results[s] \/ (results'[s] = find[c][s].found /\ find[c][s].pc = "listed"),
           \A s \in Rules : results'[s].kind # "caller_left",
           c \notin gone => new.found.kind # "caller_left",
           new.began <= now,
           new.pc \in {"listed", "done"} =>
                /\ new.found.at <= new.began
                /\ new.found.at + discoveryTTL > new.began
                /\ Holds(r, new.found),
           new.pc = "listed" => new.found.at = new.began
    PROVE  CatalogInv'
<1>1. /\ find' \in [Callers -> [Rules -> [pc : {"idle", "look", "list", "listed", "done"}, began : 0..CatalogHorizon,
                                       found : Catalog!Listings]]]
      /\ find'[c][r] = new
      /\ \A d \in Callers, s \in Rules : (d # c \/ s # r) => find'[d][s] = find[d][s]
  BY GoroutineOnly
<1>2. Catalog!TypeOK'
  BY <1>1 DEF CatalogInv, Catalog!TypeOK
<1>3. \A s \in Rules : (results[s].at <= now /\ Holds(s, results[s]))'
  <2> SUFFICES ASSUME NEW s \in Rules PROVE results'[s].at <= now /\ Holds(s, results'[s])
    BY DEF Holds
  <2>1. CASE results'[s] = results[s]
    BY <2>1 DEF CatalogInv
  <2>2. CASE results'[s] = find[c][s].found /\ find[c][s].pc = "listed"
    <3>1. find[c][s].found.at <= find[c][s].began /\ find[c][s].began <= now /\ Holds(s, find[c][s].found)
      BY <2>2 DEF CatalogInv
    <3>2. find[c][s].found.at \in Int /\ find[c][s].began \in Int /\ now \in Int
      BY DEF CatalogInv, Catalog!TypeOK, Catalog!Listings
    <3> QED
      BY <2>2, <3>1, <3>2
  <2> QED
    BY <2>1, <2>2
<1>4. ASSUME NEW d \in Callers, NEW s \in Rules
      PROVE  /\ find'[d][s].began <= now
             /\ find'[d][s].pc \in {"listed", "done"} =>
                   /\ find'[d][s].found.at <= find'[d][s].began
                   /\ find'[d][s].found.at + discoveryTTL > find'[d][s].began
                   /\ Holds(s, find[d][s].found)'
             /\ find'[d][s].pc = "listed" => find'[d][s].found.at = find'[d][s].began
  <2>1. CASE d = c /\ s = r
    BY <1>1, <2>1 DEF Holds
  <2>2. CASE d # c \/ s # r
    BY <1>1, <2>2 DEF CatalogInv, Holds
  <2> QED
    BY <2>1, <2>2
<1>5. Catalog!FailuresAreOpenBaos'
  <2>1. ASSUME NEW d \in Callers \ gone, NEW s \in Rules PROVE find'[d][s].found.kind # "caller_left"
    <3>1. CASE d = c /\ s = r
      BY <1>1, <2>1, <3>1
    <3>2. CASE d # c \/ s # r
      BY <1>1, <2>1, <3>2 DEF CatalogInv, Catalog!FailuresAreOpenBaos
    <3> QED
      BY <3>1, <3>2
  <2> QED
    BY <2>1 DEF Catalog!FailuresAreOpenBaos
<1> QED
  BY <1>2, <1>3, <1>4, <1>5 DEF CatalogInv

LEMMA StepKeeps ==
    ASSUME Catalog!DiscoveryAssumption, CatalogInv, NEW c \in Callers, NEW r \in Rules, Catalog!Step(c, r)
    PROVE  CatalogInv'
<1> DEFINE g == find[c][r]
<1>1. /\ g \in [pc : {"idle", "look", "list", "listed", "done"}, began : 0..CatalogHorizon, found : Catalog!Listings]
      /\ now \in 0..CatalogHorizon /\ results \in [Rules -> Catalog!Listings] /\ keys[r] \in SUBSET (0..CatalogHorizon)
      /\ discoveryTTL \in Nat \ {0} /\ CatalogHorizon \in Nat
  BY DEF CatalogInv, Catalog!TypeOK, Catalog!DiscoveryAssumption
<1>2. /\ results[r].at <= now /\ Holds(r, results[r]) /\ g.began <= now
      /\ g.pc \in {"listed", "done"} =>
            g.found.at <= g.began /\ g.found.at + discoveryTTL > g.began /\ Holds(r, g.found)
      /\ g.pc = "listed" => g.found.at = g.began
      /\ \A s \in Rules : results[s].kind # "caller_left"
      /\ c \notin gone => g.found.kind # "caller_left"
  BY DEF CatalogInv, Catalog!FailuresAreOpenBaos
<1> HIDE DEF g
<1>3. CASE Catalog!Look(c, r)
  <2>1. CASE results[r].kind # "none" /\ now - results[r].at < discoveryTTL
    <3> DEFINE new == [g EXCEPT !.pc = "done", !.began = now, !.found = results[r]]
    <3>1. Catalog!Goroutine(c, r, new) /\ UNCHANGED <<now, keys, results, gone, calls>>
      BY <1>3, <2>1 DEF Catalog!Look, g
    <3>2. new.pc = "done" /\ new.began = now /\ new.found = results[r]
      BY <1>1
    <3>3. new \in [pc : {"idle", "look", "list", "listed", "done"}, began : 0..CatalogHorizon, found : Catalog!Listings]
      BY <1>1
    <3> HIDE DEF new
    <3>4. results[r].at + discoveryTTL > now /\ results[r].kind # "caller_left"
      BY <1>1, <1>2, <2>1 DEF Catalog!Listings
    <3> QED
      BY <1>1, <1>2, <3>1, <3>2, <3>3, <3>4, GoroutineKeeps
  <2>2. CASE ~(results[r].kind # "none" /\ now - results[r].at < discoveryTTL)
    <3> DEFINE new == [g EXCEPT !.pc = "list", !.began = now]
    <3>1. Catalog!Goroutine(c, r, new) /\ UNCHANGED <<now, keys, results, gone, calls>>
      BY <1>3, <2>2 DEF Catalog!Look, g
    <3>2. new.pc = "list" /\ new.began = now /\ new.found = g.found
      BY <1>1
    <3>3. new \in [pc : {"idle", "look", "list", "listed", "done"}, began : 0..CatalogHorizon, found : Catalog!Listings]
      BY <1>1
    <3> HIDE DEF new
    <3> QED
      BY <1>1, <1>2, <3>1, <3>2, <3>3, GoroutineKeeps
  <2> QED
    BY <2>1, <2>2
<1>4. CASE Catalog!List(c, r)
  <2> DEFINE Lists(how, ks) == [kind |-> how, keys |-> ks, at |-> g.began]
             New(how, ks) == [g EXCEPT !.pc = "listed", !.found = Lists(how, ks)]
  <2>1. PICK how \in {"paths", "openbao_failed", "caller_left"}, ks \in {keys[r], {}} :
           /\ Catalog!Goroutine(c, r, New(how, ks))
           /\ how = "paths" => ks = keys[r]
           /\ how = "caller_left" => c \in gone
    <3>1. \/ Catalog!Goroutine(c, r, New("paths", keys[r]))
          \/ Catalog!Goroutine(c, r, New("openbao_failed", {}))
          \/ c \in gone /\ Catalog!Goroutine(c, r, New("caller_left", {}))
      BY <1>4 DEF Catalog!List, g
    <3> HIDE DEF New
    <3> QED
      BY <3>1
  <2>2. Lists(how, ks) \in Catalog!Listings /\ Lists(how, ks).at = g.began /\ Lists(how, ks).kind = how
        /\ Lists(how, ks).keys = ks
    BY <1>1 DEF Catalog!Listings, Catalog!Kinds
  <2> HIDE DEF Lists
  <2>3. /\ New(how, ks).pc = "listed" /\ New(how, ks).began = g.began /\ New(how, ks).found = Lists(how, ks)
        /\ New(how, ks) \in [pc : {"idle", "look", "list", "listed", "done"}, began : 0..CatalogHorizon, found : Catalog!Listings]
    BY <1>1, <2>2
  <2> HIDE DEF New
  <2>4. UNCHANGED <<now, keys, results, gone, calls>>
    BY <1>4 DEF Catalog!List
  <2>5. Holds(r, Lists(how, ks))
    BY <2>1, <2>2 DEF Holds
  <2>6. g.began + discoveryTTL > g.began /\ g.began <= g.began
    BY <1>1
  <2> QED
    BY <1>1, <1>2, <2>1, <2>2, <2>3, <2>4, <2>5, <2>6, GoroutineKeeps
<1>5. CASE Catalog!Keep(c, r)
  <2> DEFINE new == [g EXCEPT !.pc = "done"]
  <2>1. /\ Catalog!Goroutine(c, r, new) /\ UNCHANGED <<now, keys, gone, calls>> /\ g.pc = "listed"
        /\ results' = IF g.found.kind # "paths" /\ c \in gone THEN results ELSE [results EXCEPT ![r] = g.found]
    BY <1>5 DEF Catalog!Keep, g
  <2>2. /\ new.pc = "done" /\ new.began = g.began /\ new.found = g.found
        /\ new \in [pc : {"idle", "look", "list", "listed", "done"}, began : 0..CatalogHorizon, found : Catalog!Listings]
    BY <1>1
  <2> HIDE DEF new
  <2>3. g.found \in Catalog!Listings
    BY <1>1
  <2>4. results' = results \/ (results' = [results EXCEPT ![r] = g.found] /\ g.found.kind # "caller_left")
    BY <1>2, <2>1
  <2>5. results' \in [Rules -> Catalog!Listings]
    BY <1>1, <2>3, <2>4
  <2>6. \A s \in Rules : results'[s] = results[s] \/ (results'[s] = find[c][s].found /\ find[c][s].pc = "listed")
    BY <1>1, <2>1, <2>4 DEF g
  <2>7. \A s \in Rules : results'[s].kind # "caller_left"
    BY <1>1, <1>2, <2>4
  <2> QED
    BY <1>2, <2>1, <2>2, <2>5, <2>6, <2>7, GoroutineKeeps
<1> QED
  BY <1>3, <1>4, <1>5 DEF Catalog!Step

LEMMA CatalogInvStep ==
    ASSUME Catalog!DiscoveryAssumption, CatalogInv, [Catalog!Next]_Catalog!vars
    PROVE  CatalogInv'
<1>1. ASSUME NEW c \in Callers, Catalog!Leave(c) PROVE CatalogInv'
  <2>1. UNCHANGED <<now, keys, results, find, calls>> /\ gone \subseteq gone' /\ gone' \subseteq Callers
    BY <1>1 DEF Catalog!Leave, CatalogInv, Catalog!TypeOK
  <2> QED
    BY <2>1 DEF CatalogInv, Catalog!TypeOK, Catalog!FailuresAreOpenBaos, Holds
\* A key is added now, no earlier than any listing that was kept began.
<1>2. ASSUME NEW r \in Rules, Catalog!AddKey(r) PROVE CatalogInv'
  <2>1. UNCHANGED <<now, results, find, gone, calls>> /\ keys' = [keys EXCEPT ![r] = @ \cup {now}]
    BY <1>2 DEF Catalog!AddKey
  <2>2. Catalog!TypeOK'
    BY <2>1 DEF CatalogInv, Catalog!TypeOK
  <2>3. ASSUME NEW s \in Rules, NEW found \in Catalog!Listings, found.at <= now, Holds(s, found)
        PROVE  Holds(s, found)'
    BY <2>1, <2>3 DEF Holds, CatalogInv, Catalog!TypeOK, Catalog!Listings
  <2>4. \A s \in Rules : results[s] \in Catalog!Listings /\ results[s].at <= now /\ Holds(s, results[s])
    BY DEF CatalogInv, Catalog!TypeOK
  <2>5. ASSUME NEW c \in Callers, NEW s \in Rules, find[c][s].pc \in {"listed", "done"}
        PROVE  Holds(s, find[c][s].found)'
    <3>1. find[c][s].found \in Catalog!Listings /\ find[c][s].began \in Int /\ now \in Int
          /\ find[c][s].found.at \in Int
      BY DEF CatalogInv, Catalog!TypeOK, Catalog!Listings
    <3>2. find[c][s].found.at <= now /\ Holds(s, find[c][s].found)
      BY <2>5, <3>1 DEF CatalogInv
    <3>3. Holds(s, find[c][s].found)' <=>
            (find[c][s].found.kind = "paths" =>
                \A k \in keys'[s] : k < find[c][s].found.at => k \in find[c][s].found.keys)
      BY <2>1 DEF Holds
    <3> QED
      BY <2>1, <3>1, <3>2, <3>3 DEF Holds, CatalogInv, Catalog!TypeOK
  <2>6. \A s \in Rules : (results[s].at <= now /\ Holds(s, results[s]))'
    BY <2>1, <2>3, <2>4 DEF Holds
  <2>7. Catalog!FailuresAreOpenBaos'
    BY <2>1 DEF CatalogInv, Catalog!FailuresAreOpenBaos
  <2> QED
    BY <2>1, <2>2, <2>5, <2>6, <2>7 DEF CatalogInv
<1>3. CASE Catalog!Tick
  <2>1. UNCHANGED <<keys, results, find, gone, calls>> /\ now' = now + 1 /\ now < CatalogHorizon /\ now \in 0..CatalogHorizon
    BY <1>3 DEF Catalog!Tick, CatalogInv, Catalog!TypeOK
  <2>2. Catalog!TypeOK'
    BY <2>1 DEF CatalogInv, Catalog!TypeOK, Catalog!DiscoveryAssumption
  <2>3. /\ \A r \in Rules : results[r].at \in Int
        /\ \A c \in Callers, r \in Rules : find[c][r].began \in Int
    BY DEF CatalogInv, Catalog!TypeOK, Catalog!Listings
  <2> QED
    BY <2>1, <2>2, <2>3 DEF CatalogInv, Catalog!FailuresAreOpenBaos, Holds
<1>4. CASE UNCHANGED Catalog!vars
  BY <1>4 DEF CatalogInv, Catalog!TypeOK, Catalog!FailuresAreOpenBaos, Holds, Catalog!vars
<1> QED
  BY <1>1, <1>2, <1>3, <1>4, CallKeeps, StepKeeps DEF Catalog!Next

LEMMA CatalogInvHolds == ASSUME Catalog!DiscoveryAssumption PROVE Catalog!Spec => []CatalogInv
<1>1. Catalog!Init => CatalogInv
  BY CatalogInvInit
<1>2. CatalogInv /\ [Catalog!Next]_Catalog!vars => CatalogInv'
  BY CatalogInvStep
<1> QED
  BY <1>1, <1>2, PTL DEF Catalog!Spec

\* Whoever asks the TTL after a key appeared is shown it, whichever listing
\* replaced which in the cache (discover).
THEOREM KeysAlwaysShowUp == ASSUME Catalog!DiscoveryAssumption PROVE Catalog!Spec => []Catalog!KeysShowUp
<1>1. CatalogInv => Catalog!KeysShowUp
  <2> SUFFICES ASSUME CatalogInv, NEW c \in Callers, NEW r \in Rules,
                      find[c][r].pc = "done", find[c][r].found.kind = "paths",
                      NEW k \in keys[r], k + discoveryTTL <= find[c][r].began
               PROVE  k \in find[c][r].found.keys
    BY DEF Catalog!KeysShowUp
  <2>1. k \in Int /\ find[c][r].found.at \in Int /\ find[c][r].began \in Int /\ discoveryTTL \in Int
    BY DEF CatalogInv, Catalog!TypeOK, Catalog!Listings, Catalog!DiscoveryAssumption
  <2>2. find[c][r].found.at + discoveryTTL > find[c][r].began /\ Holds(r, find[c][r].found)
    BY DEF CatalogInv
  <2> QED
    BY <2>1, <2>2 DEF Holds
<1> QED
  BY <1>1, CatalogInvHolds, PTL

\* A caller that goes away spoils neither the cache nor another caller's
\* catalog (discover).
THEOREM OnlyOpenBaoFails == ASSUME Catalog!DiscoveryAssumption PROVE Catalog!Spec => []Catalog!FailuresAreOpenBaos
<1>1. CatalogInv => Catalog!FailuresAreOpenBaos
  BY DEF CatalogInv
<1> QED
  BY <1>1, CatalogInvHolds, PTL

-----------------------------------------------------------------------------
(* PushFanout: the labels of a host *)

\* Induction over the natural numbers, for a set instead of an operator.
Smaller == {ss \in Nat \X Nat : ss[1] < ss[2]}
LEMMA SmallerWellFounded == IsWellFoundedOn(Smaller, Nat)
  BY NatLessThanWellFounded, Zenon DEF OpToRel, Smaller
LEMMA LeastNumber ==
    ASSUME NEW T \in SUBSET Nat, T # {}
    PROVE  \E n \in T : \A m \in T : n <= m
  <1>1. PICK n \in T : \A m \in T : <<m, n>> \notin Smaller
    BY SmallerWellFounded, WFMin
  <1>2. ASSUME NEW m \in T PROVE n <= m
    <2>1. <<m, n>> \notin Smaller /\ m \in Nat /\ n \in Nat
      BY <1>1
    <2>2. ~(m < n)
      BY <2>1 DEF Smaller
    <2>3. QED
      BY <2>1, <2>2
  <1>3. QED
    BY <1>2
LEMMA Induction ==
    ASSUME NEW T, 0 \in T, \A n \in Nat : n \in T => n + 1 \in T
    PROVE  Nat \subseteq T
  <1> SUFFICES ASSUME Nat \ T # {} PROVE FALSE
    OBVIOUS
  <1>1. PICK n \in Nat \ T : \A m \in Nat \ T : n <= m
    <2>1. Nat \ T \in SUBSET Nat
      OBVIOUS
    <2>2. QED
      BY <2>1, LeastNumber
  <1>2. n - 1 \in Nat /\ (n - 1) + 1 = n
    BY <1>1
  <1>3. n - 1 \in T
    BY <1>1, <1>2
  <1>4. QED
    BY <1>1, <1>2, <1>3

IsReplaced(updated, seq, i, e) ==
    /\ updated = [seq EXCEPT ![i] = e] /\ Len(updated) = Len(seq)
    /\ \A j \in 1..Len(seq) : updated[j] = IF j = i THEN e ELSE seq[j]
LEMMA Replaced ==
    ASSUME NEW S, NEW seq \in Seq(S), NEW i \in 1..Len(seq), NEW e \in S
    PROVE  \E updated \in Seq(S) : IsReplaced(updated, seq, i, e)
  <1>1. [seq EXCEPT ![i] = e] \in Seq(S)
    BY ExceptSeq
  <1>2. Len([seq EXCEPT ![i] = e]) = Len(seq)
    BY ExceptSeq
  <1>3. \A j \in 1..Len(seq) : [seq EXCEPT ![i] = e][j] = IF j = i THEN e ELSE seq[j]
    BY ExceptSeq
  <1>4. QED
    BY <1>1, <1>2, <1>3 DEF IsReplaced

Chars == DOMAIN Lower
Names == Seq(Seq(Chars))
\* What one more character makes of the labels so far.
Label(labels, ch) ==
    IF ch = "." THEN Append(labels, <<>>)
    ELSE [labels EXCEPT ![Len(labels)] = Append(@, Lower[ch])]
IsLabels(f, text, n) ==
    /\ f \in [0..n -> Names] /\ f[0] = <<<<>>>>
    /\ \A i \in 0..n : f[i] # <<>>
    /\ \A i \in 1..n : f[i] = Label(f[i - 1], text[i])

LEMMA LabelType ==
    ASSUME Push!PushFanoutAssumption, NEW labels \in Names, labels # <<>>, NEW ch \in Chars
    PROVE  Label(labels, ch) \in Names /\ Label(labels, ch) # <<>>
  <1>1. Lower[ch] \in Chars
    BY DEF Push!PushFanoutAssumption, Chars
  <1>2. CASE ch = "."
    BY <1>2 DEF Label, Names
  <1>3. CASE ch # "."
    <2>1. Len(labels) \in 1..Len(labels) /\ labels[Len(labels)] \in Seq(Chars)
      BY DEF Names
    <2>2. Append(labels[Len(labels)], Lower[ch]) \in Seq(Chars)
      BY <1>1, <2>1
    <2> DEFINE word == Append(labels[Len(labels)], Lower[ch])
               last == Len(labels)
    <2> HIDE DEF word
    <2>3. PICK updated \in Names : updated = [labels EXCEPT ![last] = word] /\ Len(updated) = Len(labels)
      <3> DEFINE S == Seq(Chars)
      <3>1. labels \in Seq(S) /\ last \in 1..Len(labels) /\ word \in S
        BY <2>1, <2>2 DEF Names, word
      <3> HIDE DEF S, last
      <3>2. \E updated \in Seq(S) : updated = [labels EXCEPT ![last] = word] /\ Len(updated) = Len(labels)
        BY <3>1, Replaced DEF IsReplaced
      <3>3. QED
        BY <3>2 DEF S, Names
    <2>4. Label(labels, ch) = updated
      BY <1>3, <2>3 DEF Label, word
    <2>5. QED
      BY <2>1, <2>3, <2>4 DEF Names
  <1>4. QED
    BY <1>2, <1>3

\* The recursion of Labels has a solution.
LEMMA LabelsExist ==
    ASSUME Push!PushFanoutAssumption, NEW text \in Seq(Chars)
    PROVE  \E f : IsLabels(f, text, Len(text))
  <1> DEFINE T == {n \in Nat : n <= Len(text) => \E f : IsLabels(f, text, n)}
  <1>1. 0 \in T
    <2>1. IsLabels([i \in 0..0 |-> <<<<>>>>], text, 0)
      BY DEF IsLabels, Names
    <2>2. QED
      BY <2>1
  <1>2. ASSUME NEW n \in Nat, n \in T PROVE n + 1 \in T
    <2> SUFFICES ASSUME n + 1 <= Len(text) PROVE \E f : IsLabels(f, text, n + 1)
      OBVIOUS
    <2>1. PICK f : IsLabels(f, text, n)
      BY <1>2
    <2> DEFINE g == [i \in 0..(n + 1) |-> IF i = n + 1 THEN Label(f[n], text[n + 1]) ELSE f[i]]
    <2>2. text[n + 1] \in Chars /\ f[n] \in Names /\ f[n] # <<>>
      BY <2>1 DEF IsLabels
    <2>3. Label(f[n], text[n + 1]) \in Names /\ Label(f[n], text[n + 1]) # <<>>
      BY <2>2, LabelType
    <2>4. g \in [0..(n + 1) -> Names] /\ g[0] = <<<<>>>> /\ \A i \in 0..(n + 1) : g[i] # <<>>
      BY <2>1, <2>3 DEF IsLabels
    <2>5. ASSUME NEW i \in 1..(n + 1) PROVE g[i] = Label(g[i - 1], text[i])
      BY <2>1 DEF IsLabels
    <2>6. QED
      BY <2>4, <2>5 DEF IsLabels
  <1>3. QED
    <2>1. Nat \subseteq T
      BY <1>1, <1>2, Induction
    <2>2. QED
      BY <2>1

LEMMA LabelsAre ==
    ASSUME Push!PushFanoutAssumption, NEW text \in Seq(Chars)
    PROVE  \E f : IsLabels(f, text, Len(text)) /\ Push!Labels(text) = f[Len(text)]
  <1> DEFINE Solves(f) == f = [n \in 0..Len(text) |->
                IF n = 0 THEN <<<<>>>>
                ELSE IF text[n] = "." THEN Append(f[n - 1], <<>>)
                ELSE [f[n - 1] EXCEPT ![Len(f[n - 1])] = Append(@, Lower[text[n]])]]
             labels == CHOOSE f : Solves(f)
  <1>1. PICK f : IsLabels(f, text, Len(text))
    BY LabelsExist
  <1> DEFINE Value(g, n) == IF n = 0 THEN <<<<>>>>
                ELSE IF text[n] = "." THEN Append(g[n - 1], <<>>)
                ELSE [g[n - 1] EXCEPT ![Len(g[n - 1])] = Append(@, Lower[text[n]])]
  <1>a. \A g : \A n \in 1..Len(text) : Value(g, n) = Label(g[n - 1], text[n])
    BY DEF Label
  <1>b. \A g : Value(g, 0) = <<<<>>>>
    OBVIOUS
  <1>c. \A g : Solves(g) <=> g = [n \in 0..Len(text) |-> Value(g, n)]
    OBVIOUS
  <1> HIDE DEF Solves, Value
  <1>2. Solves(f)
    <2>1. f = [n \in 0..Len(text) |-> f[n]]
      BY <1>1 DEF IsLabels
    <2>2. \A n \in 0..Len(text) : f[n] = Value(f, n)
      BY <1>1, <1>a, <1>b DEF IsLabels
    <2>3. QED
      BY <1>c, <2>1, <2>2
  <1>3. Solves(labels)
    BY <1>2
  <1>4. Push!Labels(text) = labels[Len(text)]
    BY DEF Push!Labels, Solves
  <1> HIDE DEF labels
  <1>5. labels[0] = <<<<>>>> /\ \A n \in 1..Len(text) : labels[n] = Label(labels[n - 1], text[n])
    <2>1. labels = [n \in 0..Len(text) |-> Value(labels, n)]
      BY <1>3, <1>c
    <2>2. \A n \in 0..Len(text) : labels[n] = Value(labels, n)
      BY <2>1
    <2>3. QED
      BY <1>a, <1>b, <2>2
  <1>6. ASSUME NEW n \in Nat PROVE n <= Len(text) => labels[n] = f[n]
    <2> DEFINE T == {k \in Nat : k <= Len(text) => labels[k] = f[k]}
    <2>1. 0 \in T
      BY <1>1, <1>5 DEF IsLabels
    <2>2. ASSUME NEW k \in Nat, k \in T PROVE k + 1 \in T
      BY <1>1, <1>5, <2>2 DEF IsLabels
    <2>3. Nat \subseteq T
      BY <2>1, <2>2, Induction
    <2>4. QED
      BY <2>3
  <1>7. QED
    BY <1>1, <1>4, <1>6

\* Texts that differ in case only have the same labels.
LEMMA LabelsIgnoreCase ==
    ASSUME Push!PushFanoutAssumption, NEW one \in Seq(Chars), NEW other \in Seq(Chars),
           Push!ToLower(one) = Push!ToLower(other)
    PROVE  Push!Labels(one) = Push!Labels(other)
  <1>1. PICK f : IsLabels(f, one, Len(one)) /\ Push!Labels(one) = f[Len(one)]
    BY LabelsAre
  <1>2. PICK g : IsLabels(g, other, Len(other)) /\ Push!Labels(other) = g[Len(other)]
    BY LabelsAre
  <1>3. Len(one) = Len(other) /\ \A i \in 1..Len(one) : Lower[one[i]] = Lower[other[i]]
    <2>1. DOMAIN Push!ToLower(one) = 1..Len(one) /\ DOMAIN Push!ToLower(other) = 1..Len(other)
      BY DEF Push!ToLower
    <2>2. \A i \in 1..Len(one) : Push!ToLower(one)[i] = Lower[one[i]]
      BY DEF Push!ToLower
    <2>3. \A i \in 1..Len(other) : Push!ToLower(other)[i] = Lower[other[i]]
      BY DEF Push!ToLower
    <2>4. 1..Len(one) = 1..Len(other)
      BY <2>1
    <2>5. Len(one) = Len(other)
      BY <2>4
    <2>6. QED
      BY <2>2, <2>3, <2>5
  <1>4. \A i \in 1..Len(one) : one[i] = "." <=> other[i] = "."
    BY <1>3 DEF Push!PushFanoutAssumption, Chars
  <1>5. \A labels : \A i \in 1..Len(one) : Label(labels, one[i]) = Label(labels, other[i])
    BY <1>3, <1>4 DEF Label
  <1> DEFINE T == {n \in Nat : n <= Len(one) => f[n] = g[n]}
  <1>6. 0 \in T
    BY <1>1, <1>2 DEF IsLabels
  <1>7. ASSUME NEW n \in Nat, n \in T PROVE n + 1 \in T
    <2>1. ASSUME n + 1 <= Len(one) PROVE f[n + 1] = g[n + 1]
      <3>1. n + 1 \in 1..Len(one) /\ (n + 1) - 1 = n /\ f[n] = g[n]
        BY <1>7, <2>1
      <3>2. f[n + 1] = Label(f[n], one[n + 1])
        BY <1>1, <3>1 DEF IsLabels
      <3>3. g[n + 1] = Label(g[n], other[n + 1])
        BY <1>2, <1>3, <3>1 DEF IsLabels
      <3>4. QED
        BY <1>5, <3>1, <3>2, <3>3
    <2>2. QED
      BY <2>1
  <1>8. Nat \subseteq T
    BY <1>6, <1>7, Induction
  <1>9. QED
    BY <1>1, <1>2, <1>3, <1>8

\* After a dot the labels of a text go on as if it began there.
LEMMA LabelsAfterDot ==
    ASSUME Push!PushFanoutAssumption, NEW front \in Seq(Chars), NEW domain \in Seq(Chars)
    PROVE  \E before \in Names : Push!Labels(front \o <<".">> \o domain) = before \o Push!Labels(domain)
  <1> DEFINE text == front \o <<".">> \o domain
             k == Len(front) + 1
  <1>1. /\ text \in Seq(Chars) /\ Len(text) = k + Len(domain) /\ text[k] = "."
        /\ \A i \in 1..Len(domain) : text[k + i] = domain[i]
    BY DEF Push!PushFanoutAssumption, Chars
  <1> HIDE DEF text
  <1>2. PICK f : IsLabels(f, text, Len(text)) /\ Push!Labels(text) = f[Len(text)]
    BY <1>1, LabelsAre
  <1>3. PICK g : IsLabels(g, domain, Len(domain)) /\ Push!Labels(domain) = g[Len(domain)]
    BY LabelsAre
  <1> DEFINE before == f[k - 1]
             T == {n \in Nat : n <= Len(domain) => f[k + n] = before \o g[n]}
  <1>4. before \in Names
    BY <1>1, <1>2 DEF IsLabels
  <1>5. 0 \in T
    <2>1. k \in 1..Len(text) /\ text[k] = "." /\ k + 0 = k
      BY <1>1
    <2>2. f[k] = Label(before, text[k])
      BY <1>2, <2>1 DEF IsLabels
    <2>3. f[k] = Append(before, <<>>)
      BY <2>1, <2>2 DEF Label
    <2>4. g[0] = <<<<>>>> /\ <<>> \in Seq(Chars)
      BY <1>3 DEF IsLabels
    <2>5. Append(before, <<>>) = before \o <<<<>>>>
      BY <1>4, <2>4, AppendIsConcat DEF Names
    <2>6. QED
      BY <2>1, <2>3, <2>4, <2>5
  <1>6. ASSUME NEW n \in Nat, n \in T PROVE n + 1 \in T
    <2>0. SUFFICES ASSUME n + 1 <= Len(domain) PROVE f[k + (n + 1)] = before \o g[n + 1]
      <3>1. n + 1 \in Nat
        OBVIOUS
      <3>2. QED
        BY <3>1
    <2> DEFINE ch == domain[n + 1]
    <2>a. /\ n <= Len(domain) /\ n + 1 \in 1..Len(domain)
          /\ k + (n + 1) \in 1..Len(text) /\ (k + (n + 1)) - 1 = k + n
      BY <1>1, <2>0
    <2>b. f[k + (n + 1)] = Label(f[(k + (n + 1)) - 1], text[k + (n + 1)])
      BY <1>2, <2>a DEF IsLabels
    <2>1. f[k + n] = before \o g[n] /\ f[k + (n + 1)] = Label(f[k + n], ch)
      BY <1>1, <1>6, <2>a, <2>b
    <2>2. g[n] \in Names /\ g[n] # <<>> /\ g[n + 1] = Label(g[n], ch)
      <3>1. n \in 0..Len(domain) /\ n + 1 \in 1..Len(domain) /\ (n + 1) - 1 = n
        BY <2>a
      <3>2. QED
        BY <1>3, <3>1 DEF IsLabels
    <2>3. Label(before \o g[n], ch) = before \o Label(g[n], ch)
      <3>1. ch \in Chars /\ Lower[ch] \in Chars
        BY <2>a DEF Push!PushFanoutAssumption, Chars
      <3> HIDE DEF before, ch
      <3>2. CASE ch = "."
        <4>1. Label(before \o g[n], ch) = Append(before \o g[n], <<>>) /\ Label(g[n], ch) = Append(g[n], <<>>)
          BY <3>2 DEF Label
        <4>2. <<>> \in Seq(Chars)
          OBVIOUS
        <4> DEFINE h == g[n]
        <4>3. h \in Seq(Seq(Chars)) /\ before \in Seq(Seq(Chars)) /\ before \o h \in Seq(Seq(Chars))
              /\ <<<<>>>> \in Seq(Seq(Chars))
          BY <1>4, <2>2, <4>2, ConcatProperties DEF Names
        <4> HIDE DEF h
        <4>4. Append(before \o h, <<>>) = (before \o h) \o <<<<>>>> /\ Append(h, <<>>) = h \o <<<<>>>>
          BY <4>2, <4>3, AppendIsConcat
        <4>5. (before \o h) \o <<<<>>>> = before \o (h \o <<<<>>>>)
          <5> DEFINE S == Seq(Chars)
          <5>1. h \in Seq(S) /\ before \in Seq(S) /\ <<<<>>>> \in Seq(S)
            BY <4>3
          <5> HIDE DEF S
          <5>2. QED
            BY <5>1, ConcatAssociative
        <4>6. QED
          BY <4>1, <4>4, <4>5 DEF h
      <3>3. CASE ch # "."
        <4> DEFINE m == Len(g[n])
                   word == Append(g[n][m], Lower[ch])
        <4>1. m \in 1..m /\ g[n][m] \in Seq(Chars) /\ word \in Seq(Chars)
          BY <2>2, <3>1 DEF Names
        <4>2. Len(before \o g[n]) = Len(before) + m /\ (before \o g[n])[Len(before) + m] = g[n][m]
          BY <1>4, <2>2, <4>1 DEF Names
        <4> HIDE DEF m, word
        <4>3. Label(before \o g[n], ch) = [before \o g[n] EXCEPT ![Len(before) + m] = word]
          BY <3>3, <4>2 DEF Label, word
        <4>4. Label(g[n], ch) = [g[n] EXCEPT ![m] = word]
          BY <3>3 DEF Label, word, m
        <4>5. [before \o g[n] EXCEPT ![Len(before) + m] = word] = before \o [g[n] EXCEPT ![m] = word]
          <5>1. Len(g[n]) = m
            BY DEF m
          <5> DEFINE u == [before \o g[n] EXCEPT ![Len(before) + m] = word]
                     v == [g[n] EXCEPT ![m] = word]
          <5>2. /\ before \o g[n] \in Names /\ Len(before) + m \in 1..Len(before \o g[n])
                /\ \A i \in 1..Len(before) + m : (before \o g[n])[i] = IF i <= Len(before) THEN before[i] ELSE g[n][i - Len(before)]
            BY <1>4, <2>2, <4>1, <4>2, <5>1 DEF Names
          <5>3. u \in Names /\ Len(u) = Len(before) + m
                /\ \A i \in 1..Len(before) + m : u[i] = IF i = Len(before) + m THEN word ELSE (before \o g[n])[i]
            <6> DEFINE w == before \o g[n]
                       last == Len(before) + m
            <6>1. w \in Seq(Seq(Chars)) /\ last \in 1..Len(w) /\ Len(w) = last
              BY <4>2, <5>2 DEF Names
            <6> HIDE DEF w, last
            <6>2. \E updated \in Seq(Seq(Chars)) :
                     /\ updated = [w EXCEPT ![last] = word] /\ Len(updated) = Len(w)
                     /\ \A j \in 1..Len(w) : updated[j] = IF j = last THEN word ELSE w[j]
              <7> DEFINE S == Seq(Chars)
              <7>1. w \in Seq(S) /\ last \in 1..Len(w) /\ word \in S
                BY <4>1, <6>1
              <7> HIDE DEF S
              <7>2. \E updated \in Seq(S) : IsReplaced(updated, w, last, word)
                BY <7>1, Replaced
              <7>3. QED
                BY <7>2 DEF S, IsReplaced
            <6>3. QED
              BY <6>1, <6>2 DEF w, last, Names
          <5>4. v \in Names /\ Len(v) = m /\ \A i \in 1..m : v[i] = IF i = m THEN word ELSE g[n][i]
            <6> DEFINE w == g[n]
            <6>1. w \in Seq(Seq(Chars)) /\ m \in 1..Len(w) /\ Len(w) = m
              BY <2>2, <4>1, <5>1 DEF Names
            <6> HIDE DEF w
            <6>2. \E updated \in Seq(Seq(Chars)) :
                     /\ updated = [w EXCEPT ![m] = word] /\ Len(updated) = Len(w)
                     /\ \A j \in 1..Len(w) : updated[j] = IF j = m THEN word ELSE w[j]
              <7> DEFINE S == Seq(Chars)
              <7>1. w \in Seq(S) /\ m \in 1..Len(w) /\ word \in S
                BY <4>1, <6>1
              <7> HIDE DEF S
              <7>2. \E updated \in Seq(S) : IsReplaced(updated, w, m, word)
                BY <7>1, Replaced
              <7>3. QED
                BY <7>2 DEF S, IsReplaced
            <6>3. QED
              BY <6>1, <6>2 DEF w, Names
          <5> HIDE DEF u, v
          <5>5. /\ before \o v \in Names /\ Len(before \o v) = Len(before) + m
                /\ \A i \in 1..Len(before) + m : (before \o v)[i] = IF i <= Len(before) THEN before[i] ELSE v[i - Len(before)]
            BY <1>4, <5>4, ConcatProperties DEF Names
          <5>6. Len(before) \in Nat /\ m \in Nat
            BY <1>4, <4>1 DEF Names
          <5>7. ASSUME NEW i \in 1..Len(before) + m PROVE u[i] = (before \o v)[i]
            <6>1. CASE i <= Len(before)
              BY <4>1, <5>2, <5>3, <5>5, <5>6, <5>7, <6>1
            <6>2. CASE i > Len(before)
              <7>1. i - Len(before) \in 1..m /\ (i - Len(before) = m <=> i = Len(before) + m)
                BY <5>6, <6>2
              <7>2. v[i - Len(before)] = IF i = Len(before) + m THEN word ELSE g[n][i - Len(before)]
                BY <5>4, <7>1
              <7>3. QED
                BY <5>2, <5>3, <5>5, <5>6, <6>2, <7>2
            <6>3. i \in Int /\ Len(before) \in Int
              BY <5>6, <5>7
            <6>4. i <= Len(before) \/ i > Len(before)
              BY <6>3
            <6>5. QED
              BY <6>1, <6>2, <6>4
          <5>8. u = before \o v
            BY <5>3, <5>5, <5>7, SeqEqual DEF Names
          <5>9. QED
            BY <5>8 DEF u, v
        <4>6. QED
          BY <4>3, <4>4, <4>5
      <3>4. QED
        BY <3>2, <3>3
    <2>4. QED
      BY <2>1, <2>2, <2>3
  <1>7. Nat \subseteq T
    BY <1>5, <1>6, Induction
  <1>8. f[k + Len(domain)] = before \o g[Len(domain)]
    <2>1. Len(domain) \in Nat
      OBVIOUS
    <2>2. Len(domain) \in T
      BY <1>7, <2>1
    <2> DEFINE n == Len(domain)
    <2>3. n <= Len(domain) => f[k + n] = before \o g[n]
      BY <2>2
    <2>4. n <= Len(domain)
      BY <2>1
    <2>5. QED
      BY <2>3, <2>4
  <1>9. QED
    BY <1>1, <1>2, <1>3, <1>4, <1>8 DEF text

LEMMA SuffixIsEnd ==
    ASSUME NEW S, NEW end \in Seq(S), NEW text \in Seq(S)
    PROVE  Push!IsSuffix(end, text) <=> \E front \in Seq(S) : text = front \o end
  <1> DEFINE m == Len(end)
             n == Len(text)
  <1>1. Push!Reverse(end) \in Seq(S) /\ Push!Reverse(text) \in Seq(S) /\ Len(Push!Reverse(end)) = m /\ Len(Push!Reverse(text)) = n
    BY DEF Push!Reverse
  <1>2. (\A i \in 1..m : Push!Reverse(end)[i] = end[m - i + 1]) /\ (\A i \in 1..n : Push!Reverse(text)[i] = text[n - i + 1])
    BY DEF Push!Reverse
  <1>3. Push!IsSuffix(end, text) <=> m <= n /\ \A i \in 1..m : Push!Reverse(end)[i] = Push!Reverse(text)[i]
    <2>1. SubSeq(Push!Reverse(end), 1, m) = Push!Reverse(end)
      BY <1>1
    <2>2. m <= n => /\ SubSeq(Push!Reverse(text), 1, m) \in Seq(S) /\ Len(SubSeq(Push!Reverse(text), 1, m)) = m
                    /\ \A i \in 1..m : SubSeq(Push!Reverse(text), 1, m)[i] = Push!Reverse(text)[i]
      BY <1>1
    <2>3. m <= n => (Push!Reverse(end) = SubSeq(Push!Reverse(text), 1, m) <=> \A i \in 1..m : Push!Reverse(end)[i] = Push!Reverse(text)[i])
      BY <1>1, <2>2, SeqEqual
    <2>4. QED
      BY <1>1, <2>1, <2>3 DEF Push!IsSuffix, Push!IsPrefix
  <1>4. ASSUME Push!IsSuffix(end, text) PROVE text = SubSeq(text, 1, n - m) \o end /\ SubSeq(text, 1, n - m) \in Seq(S)
    <2>1. m <= n /\ \A i \in 1..m : end[m - i + 1] = text[n - i + 1]
      BY <1>2, <1>3, <1>4
    <2>2. ASSUME NEW j \in 1..m PROVE end[j] = text[n - m + j]
      <3>1. m - j + 1 \in 1..m /\ m - (m - j + 1) + 1 = j /\ n - (m - j + 1) + 1 = n - m + j
        OBVIOUS
      <3>2. QED
        BY <2>1, <3>1
    <2>3. n - m \in 0..n /\ n = (n - m) + m
      BY <2>1
    <2>4. SubSeq(text, 1, n - m) \in Seq(S) /\ Len(SubSeq(text, 1, n - m)) = n - m
          /\ \A i \in 1..n - m : SubSeq(text, 1, n - m)[i] = text[i]
      BY <2>3
    <2> DEFINE whole == SubSeq(text, 1, n - m) \o end
    <2>5. whole \in Seq(S) /\ Len(whole) = n
      BY <2>3, <2>4
    <2>6. ASSUME NEW i \in 1..n PROVE text[i] = whole[i]
      <3>1. m \in Nat /\ n \in Nat
        OBVIOUS
      <3>2. CASE i <= n - m
        BY <2>3, <2>4, <3>1, <3>2
      <3>3. CASE i > n - m
        <4>1. i - (n - m) \in 1..m /\ n - m + (i - (n - m)) = i
          BY <2>3, <3>1, <3>3
        <4>2. whole[i] = end[i - (n - m)]
          BY <2>3, <2>4, <3>1, <3>3
        <4>3. QED
          BY <2>2, <4>1, <4>2
      <3>4. QED
        BY <3>1, <3>2, <3>3
    <2>7. QED
      BY <2>4, <2>5, <2>6, SeqEqual
  <1>5. ASSUME NEW front \in Seq(S), text = front \o end PROVE Push!IsSuffix(end, text)
    <2>1. n = Len(front) + m /\ \A j \in 1..m : text[Len(front) + j] = end[j]
      BY <1>5
    <2>2. ASSUME NEW i \in 1..m PROVE end[m - i + 1] = text[n - i + 1]
      <3>1. m - i + 1 \in 1..m /\ Len(front) + (m - i + 1) = n - i + 1
        BY <2>1
      <3>2. QED
        BY <2>1, <3>1
    <2>3. QED
      BY <1>2, <1>3, <2>1, <2>2
  <1>6. QED
    BY <1>4, <1>5

LEMMA Joined ==
    ASSUME NEW S, NEW one \in Seq(S), NEW other \in Seq(S)
    PROVE  /\ one \o other \in Seq(S) /\ Len(one \o other) = Len(one) + Len(other)
           /\ \A i \in 1..Len(one) : (one \o other)[i] = one[i]
           /\ \A i \in 1..Len(other) : (one \o other)[Len(one) + i] = other[i]
  OBVIOUS

LEMMA TrimmedTypes ==
    ASSUME NEW S, NEW text \in Seq(S), NEW ch
    PROVE  Push!TrimPrefix(text, ch) \in Seq(S) /\ Push!TrimSuffix(text, ch) \in Seq(S) /\ Push!TrimSpace(text) \in Seq(S)
  <1>1. Push!TrimPrefix(text, ch) \in Seq(S)
    BY DEF Push!TrimPrefix
  <1>2. Push!TrimSuffix(text, ch) \in Seq(S)
    BY DEF Push!TrimSuffix, Push!Front
  <1> DEFINE Solid == {i \in DOMAIN text : text[i] # " "}
             first == CHOOSE i \in Solid : \A j \in Solid : i <= j
             last == CHOOSE i \in Solid : \A j \in Solid : i >= j
             n == Len(text)
  <1>3. n \in Nat /\ DOMAIN text = 1..n
    OBVIOUS
  <1>4. Push!TrimSpace(text) = IF Solid = {} THEN <<>> ELSE SubSeq(text, first, last)
    BY DEF Push!TrimSpace
  <1>5. \A i \in Solid : i \in 1..n
    BY <1>3
  <1> HIDE DEF n, Solid
  <1>6. ASSUME Solid # {} PROVE first \in Solid /\ last \in Solid
    <2>1. Solid \in SUBSET Nat
      BY <1>3, <1>5
    <2>2. \E i \in Solid : \A j \in Solid : i <= j
      BY <1>6, <2>1, LeastNumber
    <2>3. \E i \in Solid : \A j \in Solid : i >= j
      <3> DEFINE Back == {n - i : i \in Solid}
      <3>1. Back \in SUBSET Nat /\ Back # {}
        <4>1. ASSUME NEW i \in Solid PROVE n - i \in Nat
          <5>1. i \in 1..n
            BY <1>5
          <5>2. QED
            BY <1>3, <5>1
        <4>2. QED
          BY <1>6, <4>1
      <3>2. PICK least \in Back : \A m \in Back : least <= m
        BY <3>1, LeastNumber
      <3>3. PICK i \in Solid : least = n - i
        BY <3>2
      <3>4. ASSUME NEW j \in Solid PROVE i >= j
        <4>1. n - i <= n - j
          BY <3>2, <3>3
        <4>2. i \in 1..n /\ j \in 1..n
          BY <1>5
        <4>3. QED
          BY <1>3, <4>1, <4>2
      <3>5. QED
        BY <3>4
    <2>4. first \in Solid
      BY <2>2, Zenon
    <2>5. last \in Solid
      BY <2>3, Zenon
    <2>6. QED
      BY <2>4, <2>5
  <1> HIDE DEF first, last
  <1>7. ASSUME Solid # {} PROVE SubSeq(text, first, last) \in Seq(S)
    <2>1. first \in 1..n /\ last \in 1..n
      BY <1>5, <1>6, <1>7
    <2>2. QED
      BY <1>3, <2>1 DEF n
  <1>8. <<>> \in Seq(S)
    OBVIOUS
  <1>9. QED
    BY <1>1, <1>2, <1>4, <1>7, <1>8

LEMMA LoweredType ==
    ASSUME Push!PushFanoutAssumption, NEW text \in Seq(Chars)
    PROVE  /\ Push!ToLower(text) \in Seq(Chars) /\ Len(Push!ToLower(text)) = Len(text)
           /\ \A i \in 1..Len(text) : Push!ToLower(text)[i] = Lower[text[i]]
  <1> DEFINE n == Len(text)
  <1>1. n \in Nat /\ DOMAIN text = 1..n /\ \A i \in 1..n : text[i] \in Chars
    OBVIOUS
  <1>2. \A i \in 1..n : Lower[text[i]] \in Chars
    BY <1>1 DEF Push!PushFanoutAssumption, Chars
  <1>3. Push!ToLower(text) = [i \in 1..n |-> Lower[text[i]]]
    BY <1>1 DEF Push!ToLower
  <1> HIDE DEF n
  <1>4. [i \in 1..n |-> Lower[text[i]]] \in [1..n -> Chars]
    BY <1>2
  <1>5. QED
    BY <1>1, <1>3, <1>4 DEF n

\* What the allowlist lets through is in one of its domains, label by label:
\* its own text or one that ends with a dot and that text (allowedHost).
LEMMA AllowedIsInDomain ==
    ASSUME Push!PushFanoutAssumption, NEW host \in Seq(Chars), Push!allowedHost(Push!Normalized(host))
    PROVE  \E domain \in Push!Domains : Push!InDomain(host, domain)
  <1> DEFINE h == Push!TrimSuffix(host, ".")
             n == Len(h)
  <1>1. PICK suffix \in Push!allowedSuffixes :
             Push!ToLower(h) = suffix \/ Push!IsSuffix(<<".">> \o suffix, Push!ToLower(h))
    BY DEF Push!allowedHost, Push!Normalized
  <1>2. PICK raw \in RawSuffixes : suffix = Push!ToLower(Push!TrimSpace(Push!TrimPrefix(raw, ".")))
    BY <1>1 DEF Push!allowedSuffixes
  <1> DEFINE domain == Push!TrimSpace(Push!TrimPrefix(raw, "."))
  <1>3. h \in Seq(Chars) /\ domain \in Seq(Chars)
    BY <1>2, TrimmedTypes DEF Push!PushFanoutAssumption, Chars
  <1>4. domain \in Push!Domains
    <2>1. suffix # <<>>
      BY <1>1 DEF Push!allowedSuffixes
    <2>2. Push!ToLower(<<>>) = <<>>
      <3>1. <<>> \in Seq(Chars) /\ Len(<<>>) = 0
        OBVIOUS
      <3>2. Push!ToLower(<<>>) \in Seq(Chars) /\ Len(Push!ToLower(<<>>)) = 0
        BY <3>1, LoweredType
      <3>3. QED
        BY <3>2
    <2>3. QED
      BY <1>2, <2>1, <2>2 DEF Push!Domains
  <1> HIDE DEF h, domain
  <1>5. Push!Labels(h) \in Names /\ Push!Labels(domain) \in Names
    <2>1. ASSUME NEW text \in Seq(Chars) PROVE Push!Labels(text) \in Names
      <3>1. PICK f : IsLabels(f, text, Len(text)) /\ Push!Labels(text) = f[Len(text)]
        BY LabelsAre
      <3>2. QED
        BY <3>1 DEF IsLabels
    <2>2. QED
      BY <1>3, <2>1
  <1>6. ASSUME NEW before \in Names, Push!Labels(h) = before \o Push!Labels(domain)
        PROVE  \E d \in Push!Domains : Push!InDomain(host, d)
    <2>1. Push!IsSuffix(Push!Labels(domain), Push!Labels(h))
      BY <1>5, <1>6, SuffixIsEnd DEF Names
    <2>2. QED
      BY <1>4, <2>1 DEF Push!InDomain, h
  <1>7. CASE Push!ToLower(h) = suffix
    <2>1. Push!Labels(h) = Push!Labels(domain)
      BY <1>2, <1>3, <1>7, LabelsIgnoreCase DEF domain
    <2>2. <<>> \in Names
      BY DEF Names
    <2>3. <<>> \o Push!Labels(domain) = Push!Labels(domain)
      BY <1>5, ConcatEmptySeq DEF Names
    <2>4. QED
      BY <1>6, <2>1, <2>2, <2>3
  <1>8. CASE Push!IsSuffix(<<".">> \o suffix, Push!ToLower(h))
    <2> DEFINE m == Len(domain)
    <2>1. /\ Push!ToLower(h) \in Seq(Chars) /\ Len(Push!ToLower(h)) = n
          /\ suffix \in Seq(Chars) /\ Len(suffix) = m /\ m \in Nat /\ n \in Nat
          /\ \A i \in 1..n : Push!ToLower(h)[i] = Lower[h[i]]
          /\ \A i \in 1..m : suffix[i] = Lower[domain[i]]
      BY <1>2, <1>3, LoweredType DEF domain
    <2>2. <<".">> \in Seq(Chars) /\ Len(<<".">>) = 1 /\ <<".">>[1] = "."
      BY DEF Push!PushFanoutAssumption, Chars
    <2>3. /\ <<".">> \o suffix \in Seq(Chars) /\ Len(<<".">> \o suffix) = 1 + m
          /\ (<<".">> \o suffix)[1] = "." /\ \A i \in 1..m : (<<".">> \o suffix)[1 + i] = suffix[i]
      BY <2>1, <2>2
    <2>4. PICK front \in Seq(Chars) : Push!ToLower(h) = front \o (<<".">> \o suffix)
      BY <1>8, <2>1, <2>3, SuffixIsEnd
    <2> DEFINE k == Len(front)
               start == SubSeq(h, 1, k)
               end == SubSeq(h, k + 2, n)
               tail == <<".">> \o suffix
               lowered == Push!ToLower(h)
    <2>5. /\ k \in Nat /\ n = k + (1 + m)
          /\ \A i \in 1..1 + m : lowered[k + i] = tail[i]
      <3>1. tail \in Seq(Chars) /\ Len(tail) = 1 + m /\ lowered = front \o tail /\ Len(lowered) = n
        BY <2>1, <2>3, <2>4
      <3>2. Len(lowered) = k + Len(tail) /\ \A i \in 1..Len(tail) : lowered[k + i] = tail[i]
        BY <3>1, Joined
      <3> HIDE DEF tail, lowered, m, n
      <3>3. QED
        BY <2>1, <3>1, <3>2
    <2>6. lowered[k + 1] = "." /\ \A i \in 1..m : lowered[k + 1 + i] = suffix[i]
      <3>1. ASSUME NEW i \in 1..m PROVE lowered[k + 1 + i] = suffix[i]
        <4>1. 1 + i \in 1..1 + m /\ k + (1 + i) = k + 1 + i
          BY <2>1, <2>5
        <4>2. QED
          BY <2>3, <2>5, <4>1
      <3>2. QED
        BY <2>1, <2>3, <2>5, <3>1
    <2> HIDE DEF lowered, tail
    <2>7. h[k + 1] = "."
      <3>1. k + 1 \in 1..n
        BY <2>1, <2>5
      <3>2. h[k + 1] \in Chars
        BY <1>3, <3>1
      <3>3. Lower[h[k + 1]] = "."
        BY <2>1, <2>6, <3>1 DEF lowered
      <3>4. QED
        BY <3>2, <3>3 DEF Push!PushFanoutAssumption, Chars
    <2>8. h \in Seq(Chars) /\ Len(h) = n /\ k + 2 \in Nat \ {0} /\ k <= n /\ n - (k + 2) + 1 = m
      BY <1>3, <2>1, <2>5
    <2> HIDE DEF k, m, n
    <2>9. /\ start \in Seq(Chars) /\ Len(start) = k /\ \A i \in 1..k : start[i] = h[i]
      BY <2>1, <2>5, <2>8
    <2>10. end \in Seq(Chars) /\ Len(end) = m /\ \A i \in 1..m : end[i] = h[k + 1 + i]
      BY <2>1, <2>5, <2>8
    <2> HIDE DEF start, end
    <2>11. h = start \o <<".">> \o end
      <3> DEFINE begin == start \o <<".">>
                 whole == begin \o end
      <3>1. begin \in Seq(Chars) /\ Len(begin) = k + 1 /\ begin[k + 1] = "." /\ \A i \in 1..k : begin[i] = h[i]
        BY <2>2, <2>5, <2>9
      <3> HIDE DEF begin
      <3>2. /\ whole \in Seq(Chars) /\ Len(whole) = k + 1 + m
            /\ (\A i \in 1..k + 1 : whole[i] = begin[i]) /\ \A i \in 1..m : whole[k + 1 + i] = end[i]
        <4>1. /\ whole \in Seq(Chars) /\ Len(whole) = Len(begin) + Len(end)
              /\ \A i \in 1..Len(begin) : whole[i] = begin[i]
              /\ \A i \in 1..Len(end) : whole[Len(begin) + i] = end[i]
          <5>1. begin \in Seq(Chars) /\ end \in Seq(Chars)
            BY <2>10, <3>1
          <5>2. QED
            BY <5>1, Joined
        <4> HIDE DEF whole
        <4>2. QED
          BY <2>10, <3>1, <4>1
      <3> HIDE DEF whole
      <3>3. ASSUME NEW i \in 1..n PROVE h[i] = whole[i]
        <4>1. CASE i <= k
          BY <2>5, <3>1, <3>2, <4>1
        <4>2. CASE i = k + 1
          BY <2>5, <2>7, <3>1, <3>2, <4>2
        <4>3. CASE i > k + 1
          <5>1. i - (k + 1) \in 1..m /\ k + 1 + (i - (k + 1)) = i
            BY <2>1, <2>5, <3>3, <4>3
          <5>2. QED
            BY <2>10, <3>2, <5>1
        <4>4. i \in Int /\ k \in Int
          BY <2>1, <2>5, <3>3
        <4>5. QED
          BY <4>1, <4>2, <4>3, <4>4
      <3>4. Len(whole) = n
        BY <2>1, <2>5, <3>2
      <3>5. QED
        BY <2>8, <3>2, <3>3, <3>4, SeqEqual DEF whole, begin
    <2>12. PICK before \in Names : Push!Labels(h) = before \o Push!Labels(end)
      <3>1. \E before \in Names : Push!Labels(start \o <<".">> \o end) = before \o Push!Labels(end)
        BY <2>9, <2>10, LabelsAfterDot
      <3>2. QED
        BY <2>11, <3>1
    <2>13. Push!ToLower(end) = Push!ToLower(domain)
      <3>1. /\ Push!ToLower(end) \in Seq(Chars) /\ Len(Push!ToLower(end)) = m
            /\ \A i \in 1..m : Push!ToLower(end)[i] = Lower[end[i]]
        BY <2>10, LoweredType
      <3>2. ASSUME NEW i \in 1..m PROVE Lower[end[i]] = suffix[i]
        <4>1. k + 1 + i \in 1..n
          BY <2>1, <2>5
        <4>2. QED
          BY <2>1, <2>6, <2>10, <4>1 DEF lowered
      <3>3. \A i \in 1..m : Push!ToLower(end)[i] = suffix[i]
        BY <3>1, <3>2
      <3>4. Push!ToLower(end) = suffix
        BY <2>1, <3>1, <3>3, SeqEqual
      <3>5. QED
        BY <1>2, <3>4 DEF domain
    <2>14. Push!Labels(end) = Push!Labels(domain)
      BY <1>3, <2>10, <2>13, LabelsIgnoreCase
    <2>15. QED
      BY <1>6, <2>12, <2>14
  <1>9. QED
    BY <1>1, <1>7, <1>8

-----------------------------------------------------------------------------
(* PushFanout *)

Fans ==
    [pc : {"idle", "next", "lookup", "delete", "dial", "answer", "done"},
     todo : SUBSET Push!Endpoints, at : Push!Endpoints \cup {Push!NoEndpoint}, all : SUBSET Push!Endpoints,
     deadline : Nat, sendBy : Nat, delivered : SUBSET Push!Endpoints, overdue : SUBSET Push!Endpoints]
Trying == {"lookup", "dial", "answer"}
\* An endpoint that may be asked, and one that nothing is wrong with.
MayBeAsked(e) == e.plain /\ Push!allowedHost(Push!Normalized(e.host))
Fine(e) == MayBeAsked(e) /\ dns[e] = "public" /\ service[e] = "ok" /\ e \notin changed
\* What is fine and was not given up for want of time was told, is being tried
\* or waits its turn.
FanFits(x) ==
    /\ x.todo \subseteq x.all /\ x.all \subseteq DOMAIN dns /\ x.todo \cap x.overdue = {}
    /\ x.pc \in Trying => x.at \in x.all \ (x.todo \cup x.overdue) /\ MayBeAsked(x.at)
    /\ x.pc = "delete" /\ x.at \in x.overdue => now >= x.deadline
    /\ \A e \in x.all \ x.overdue :
          Fine(e) => e \in x.delivered \cup x.todo \/ (x.pc \in Trying /\ e = x.at)
    /\ x.pc = "done" => x.todo = {}
FanInv ==
    /\ now \in Nat /\ stored \subseteq DOMAIN dns
    /\ DOMAIN dns \subseteq Push!Endpoints /\ dns \in [DOMAIN dns -> Push!Answers]
    /\ fan \in [Fanouts -> Fans]
    /\ \A f \in Fanouts : FanFits(fan[f])
    /\ \A c \in connections : c.address = "public" /\ c.endpoint \in Push!Endpoints /\ MayBeAsked(c.endpoint)

\* A step of one fan-out.
LEMMA FanMoves ==
    ASSUME FanInv, NEW f \in Fanouts, fan' = [fan EXCEPT ![f] = fan'[f]], fan'[f] \in Fans, FanFits(fan'[f]),
           UNCHANGED <<now, dns, service, changed>>, stored' \subseteq stored,
           connections' \subseteq connections
           \/ \E c \in connections' : /\ c.address = "public" /\ c.endpoint \in Push!Endpoints /\ MayBeAsked(c.endpoint)
                                      /\ connections' = connections \cup {c}
    PROVE  FanInv'
  <1>1. ASSUME NEW g \in Fanouts PROVE FanFits(fan[g])'
    <2>1. fan'[g] = IF g = f THEN fan'[f] ELSE fan[g]
      BY DEF FanInv
    <2>2. CASE g = f
      BY <2>2 DEF FanFits, Fine
    <2>3. CASE g # f
      <3>1. FanFits(fan[g]) /\ fan'[g] = fan[g]
        BY <2>1, <2>3 DEF FanInv
      <3>2. QED
        BY <3>1 DEF FanFits, Fine
    <2>4. QED
      BY <2>2, <2>3
  <1>2. fan' \in [Fanouts -> Fans]
    BY DEF FanInv
  <1>3. \A c \in connections' : c.address = "public" /\ c.endpoint \in Push!Endpoints /\ MayBeAsked(c.endpoint)
    BY DEF FanInv
  <1>4. QED
    BY <1>1, <1>2, <1>3 DEF FanInv

\* A step of fan-out f.
LEMMA FanSteps ==
    ASSUME Push!PushFanoutAssumption, FanInv, NEW f \in Fanouts,
           Push!Start(f) \/ Push!StartFails(f) \/ Push!FanStep(f)
    PROVE  FanInv'
  <1> DEFINE x == fan[f]
  <1>1. x \in Fans /\ FanFits(x) /\ now \in Nat /\ fan \in [Fanouts -> Fans] /\ now + PushTimeout \in Nat
        /\ now + HttpTimeout \in Nat
    BY DEF FanInv, Push!PushFanoutAssumption
  <1>a. ASSUME NEW y, Push!Set(f, y), y \in Fans, FanFits(y), Push!Wires, Push!Outside, stored' \subseteq stored
        PROVE  FanInv'
    <2>1. fan'[f] = y /\ fan' = [fan EXCEPT ![f] = fan'[f]]
      BY <1>1, <1>a DEF Push!Set
    <2>2. QED
      BY <1>a, <2>1, FanMoves DEF Push!Wires, Push!Outside
  <1>2. ASSUME Push!Start(f) PROVE FanInv'
    <2> DEFINE by == now + PushTimeout
               y == [Push!NoFan EXCEPT !.pc = "next", !.todo = stored, !.all = stored, !.deadline = by]
    <2>1. Push!Set(f, y)
      BY <1>2 DEF Push!Start
    <2> HIDE DEF by
    <2>2. by \in Nat
      BY <1>1 DEF by
    <2>3. /\ y \in Fans /\ y.pc = "next" /\ y.todo = stored /\ y.all = stored /\ y.overdue = {}
      BY <2>2 DEF Fans, Push!NoFan, FanInv
    <2> HIDE DEF y
    <2>4. FanFits(y)
      BY <2>3 DEF FanFits, FanInv, Trying
    <2>5. QED
      BY <1>2, <1>a, <2>1, <2>3, <2>4 DEF Push!Start, Push!Subscriptions
  <1>3. ASSUME Push!StartFails(f) PROVE FanInv'
    <2> DEFINE by == now + PushTimeout
               y == [Push!NoFan EXCEPT !.pc = "done", !.deadline = by]
    <2>1. Push!Set(f, y)
      BY <1>3 DEF Push!StartFails
    <2> HIDE DEF by
    <2>2. by \in Nat
      BY <1>1 DEF by
    <2>3. /\ y \in Fans /\ y.pc = "done" /\ y.todo = {} /\ y.all = {} /\ y.overdue = {}
      BY <2>2 DEF Fans, Push!NoFan, FanInv
    <2> HIDE DEF y
    <2>4. FanFits(y)
      BY <2>3 DEF FanFits, Trying
    <2>5. QED
      BY <1>3, <1>a, <2>1, <2>3, <2>4 DEF Push!StartFails, Push!Subscriptions
  <1>4. ASSUME Push!Pick(f) PROVE FanInv'
    <2>1. PICK e \in x.todo :
             Push!Set(f, [x EXCEPT !.at = e, !.todo = @ \ {e}, !.pc = IF MayBeAsked(e) THEN "lookup" ELSE "delete"])
      BY <1>4 DEF Push!Pick, MayBeAsked
    <2> DEFINE p == IF MayBeAsked(e) THEN "lookup" ELSE "delete"
               rest == x.todo \ {e}
               y == [x EXCEPT !.at = e, !.todo = rest, !.pc = p]
    <2>2. Push!Set(f, y)
      BY <2>1
    <2>3. (p = "lookup" /\ MayBeAsked(e)) \/ (p = "delete" /\ ~MayBeAsked(e))
      OBVIOUS
    <2> HIDE DEF p
    <2>4. /\ y \in Fans /\ y.pc = p /\ y.todo = rest /\ y.all = x.all /\ y.overdue = x.overdue /\ y.at = e
          /\ y.delivered = x.delivered
      BY <1>1, <2>3 DEF Fans
    <2>5. e \in x.all /\ e \notin x.overdue /\ x.pc = "next"
      BY <1>1, <1>4 DEF FanFits, Push!Pick
    <2> HIDE DEF y
    <2>6. FanFits(y)
      BY <1>1, <2>3, <2>4, <2>5 DEF FanFits, Fine, Trying
    <2>7. QED
      BY <1>4, <1>a, <2>2, <2>4, <2>6 DEF Push!Pick, Push!Subscriptions
  <1>5. ASSUME Push!Finish(f) PROVE FanInv'
    <2> DEFINE y == [x EXCEPT !.pc = "done"]
    <2>1. Push!Set(f, y) /\ x.todo = {} /\ x.pc = "next"
      BY <1>5 DEF Push!Finish
    <2>2. /\ y \in Fans /\ y.pc = "done" /\ y.todo = x.todo /\ y.all = x.all /\ y.overdue = x.overdue
          /\ y.delivered = x.delivered
      BY <1>1 DEF Fans
    <2> HIDE DEF y
    <2>3. FanFits(y)
      BY <1>1, <2>1, <2>2 DEF FanFits, Trying
    <2>4. QED
      BY <1>5, <1>a, <2>1, <2>2, <2>3 DEF Push!Finish, Push!Subscriptions
  <1>6. ASSUME Push!Lookup(f) PROVE FanInv'
    <2> DEFINE by == IF now + HttpTimeout < x.deadline THEN now + HttpTimeout ELSE x.deadline
               more == IF Push!Expired(f) THEN x.overdue \cup {x.at} ELSE x.overdue
    <2>1. x.pc = "lookup" /\ Push!Wires /\ Push!Outside /\ stored' \subseteq stored
      BY <1>6 DEF Push!Lookup, Push!Subscriptions
    <2>2. x.at \in x.all /\ by \in Nat /\ more \in SUBSET Push!Endpoints
          /\ (more = x.overdue \/ (more = x.overdue \cup {x.at} /\ now >= x.deadline))
      BY <1>1, <2>1 DEF FanFits, Trying, Push!Expired, Fans
    <2>3. CASE Push!isPublicIP(dns[x.at]) /\ ~Push!Expired(f)
      <3> DEFINE y == [x EXCEPT !.pc = "dial", !.sendBy = by]
      <3>1. Push!Set(f, y)
        BY <1>6, <2>3 DEF Push!Lookup
      <3> HIDE DEF by
      <3>2. /\ y \in Fans /\ y.pc = "dial" /\ y.todo = x.todo /\ y.all = x.all /\ y.overdue = x.overdue
            /\ y.delivered = x.delivered /\ y.at = x.at
        BY <1>1, <2>2 DEF Fans
      <3> HIDE DEF y
      <3>3. FanFits(y)
        BY <1>1, <2>1, <3>2 DEF FanFits, Trying
      <3>4. QED
        BY <1>a, <2>1, <3>1, <3>2, <3>3
    <2>4. CASE ~(Push!isPublicIP(dns[x.at]) /\ ~Push!Expired(f))
      <3> DEFINE y == [x EXCEPT !.pc = "delete", !.overdue = more]
      <3>1. Push!Set(f, y)
        BY <1>6, <2>4 DEF Push!Lookup
      <3>2. Push!Expired(f) => x.at \in more
        OBVIOUS
      <3>3. x.at \in more \/ ~Fine(x.at)
        BY <2>4, <3>2 DEF Fine, Push!isPublicIP
      <3> HIDE DEF more
      <3>4. /\ y \in Fans /\ y.pc = "delete" /\ y.todo = x.todo /\ y.all = x.all /\ y.overdue = more
            /\ y.delivered = x.delivered /\ y.at = x.at /\ y.deadline = x.deadline
        BY <1>1, <2>2 DEF Fans
      <3> HIDE DEF y
      <3>5. FanFits(y)
        BY <1>1, <2>1, <2>2, <3>3, <3>4 DEF FanFits, Trying
      <3>6. QED
        BY <1>a, <2>1, <3>1, <3>4, <3>5
    <2>5. QED
      BY <2>3, <2>4
  <1>b. ASSUME Push!Set(f, [x EXCEPT !.pc = "next"]), Push!Wires, Push!Outside, stored' \subseteq stored,
               x.pc = "delete" \/ (x.pc \in Trying /\ ~Fine(x.at))
        PROVE  FanInv'
    <2> DEFINE y == [x EXCEPT !.pc = "next"]
    <2>1. /\ y \in Fans /\ y.pc = "next" /\ y.todo = x.todo /\ y.all = x.all /\ y.overdue = x.overdue
          /\ y.delivered = x.delivered
      BY <1>1 DEF Fans
    <2>2. Push!Set(f, y)
      BY <1>b
    <2> HIDE DEF y
    <2>3. FanFits(y)
      BY <1>1, <1>b, <2>1 DEF FanFits, Trying
    <2>4. QED
      BY <1>a, <1>b, <2>1, <2>2, <2>3
  <1>7. ASSUME Push!Delete(f) PROVE FanInv'
    <2>1. stored' \subseteq stored
      BY <1>7 DEF Push!Delete
    <2>2. QED
      BY <1>7, <1>b, <2>1 DEF Push!Delete
  <1>8. ASSUME Push!Dial(f) PROVE FanInv'
    <2>1. x.pc \in Trying /\ MayBeAsked(x.at)
      BY <1>1, <1>8 DEF Push!Dial, FanFits, Trying
    <2>2. CASE Push!allowedHost(Push!Normalized(x.at.host)) /\ Push!isPublicIP(dns[x.at])
      <3> DEFINE y == [x EXCEPT !.pc = "answer"]
                 c == [endpoint |-> x.at, address |-> dns[x.at]]
      <3>1. /\ y \in Fans /\ y.pc = "answer" /\ y.todo = x.todo /\ y.all = x.all /\ y.overdue = x.overdue
            /\ y.delivered = x.delivered /\ y.at = x.at
        BY <1>1 DEF Fans
      <3>2. Push!Set(f, y) /\ connections' = connections \cup {c} /\ Push!Subscriptions /\ Push!Outside
        BY <1>8, <2>2 DEF Push!Dial
      <3>3. c.address = "public" /\ c.endpoint \in Push!Endpoints /\ MayBeAsked(c.endpoint)
        BY <1>1, <2>1, <2>2 DEF Push!isPublicIP, FanFits, Fans
      <3>4. fan'[f] = y /\ fan' = [fan EXCEPT ![f] = fan'[f]]
        BY <1>1, <3>2 DEF Push!Set
      <3> HIDE DEF y, c
      <3>5. FanFits(y)
        BY <1>1, <2>1, <3>1 DEF FanFits, Trying
      <3>6. c \in connections'
        BY <3>2
      <3>7. QED
        BY <3>1, <3>2, <3>3, <3>4, <3>5, <3>6, FanMoves DEF Push!Outside, Push!Subscriptions
    <2>3. CASE ~(Push!allowedHost(Push!Normalized(x.at.host)) /\ Push!isPublicIP(dns[x.at]))
      <3>1. ~Fine(x.at)
        BY <2>1, <2>3 DEF Fine, MayBeAsked, Push!isPublicIP
      <3>2. QED
        BY <1>8, <1>b, <2>1, <2>3, <3>1 DEF Push!Dial, Push!SendFails, Push!Subscriptions
    <2>4. QED
      BY <2>2, <2>3
  <1>9. ASSUME Push!Answer(f) PROVE FanInv'
    <2>1. x.pc = "answer" /\ x.at \in x.all /\ Push!Wires /\ Push!Outside /\ stored' \subseteq stored
      BY <1>1, <1>9 DEF Push!Answer, Push!Subscriptions, FanFits, Trying
    <2>2. CASE service[x.at] = "ok"
      <3> DEFINE told == x.delivered \cup {x.at}
                 y == [x EXCEPT !.pc = "next", !.delivered = told]
      <3>1. Push!Set(f, y)
        BY <1>9, <2>2 DEF Push!Answer
      <3>2. told \in SUBSET Push!Endpoints
        BY <1>1, <2>1 DEF FanFits, Fans
      <3>3. x.at \in told /\ x.delivered \subseteq told
        OBVIOUS
      <3> HIDE DEF told
      <3>4. /\ y \in Fans /\ y.pc = "next" /\ y.todo = x.todo /\ y.all = x.all /\ y.overdue = x.overdue
            /\ y.delivered = told
        BY <1>1, <3>2 DEF Fans
      <3> HIDE DEF y
      <3>5. FanFits(y)
        BY <1>1, <2>1, <3>3, <3>4 DEF FanFits, Trying
      <3>6. QED
        BY <1>a, <2>1, <3>1, <3>4, <3>5
    <2>3. CASE service[x.at] = "gone"
      <3> DEFINE y == [x EXCEPT !.pc = "delete"]
      <3>1. Push!Set(f, y)
        BY <1>9, <2>3 DEF Push!Answer
      <3>2. /\ y \in Fans /\ y.pc = "delete" /\ y.todo = x.todo /\ y.all = x.all /\ y.overdue = x.overdue
            /\ y.delivered = x.delivered /\ y.at = x.at
        BY <1>1 DEF Fans
      <3> HIDE DEF y
      <3>3. FanFits(y)
        BY <1>1, <2>1, <2>3, <3>2 DEF FanFits, Fine, Trying
      <3>4. QED
        BY <1>a, <2>1, <3>1, <3>2, <3>3
    <2>4. CASE service[x.at] \notin {"ok", "gone"}
      <3>1. Push!Set(f, [x EXCEPT !.pc = "next"])
        BY <1>9, <2>4 DEF Push!Answer
      <3>2. ~Fine(x.at)
        BY <2>4 DEF Fine
      <3>3. QED
        BY <1>b, <2>1, <3>1, <3>2 DEF Trying
    <2>5. QED
      BY <2>2, <2>3, <2>4
  <1>10. ASSUME Push!SendTimeout(f) PROVE FanInv'
    <2> DEFINE more == x.overdue \cup {x.at}
               y == [x EXCEPT !.pc = "next", !.overdue = more]
    <2>1. x.pc \in Trying /\ x.at \in x.all \ x.todo
      BY <1>1, <1>10 DEF Push!SendTimeout, FanFits, Trying
    <2>2. Push!Set(f, y)
      BY <1>10 DEF Push!SendTimeout
    <2>3. more \in SUBSET Push!Endpoints
      BY <1>1, <2>1 DEF FanFits, Fans
    <2>4. /\ y \in Fans /\ y.pc = "next" /\ y.todo = x.todo /\ y.all = x.all /\ y.overdue = more
          /\ y.delivered = x.delivered
      <3> HIDE DEF more
      <3>1. QED
        BY <1>1, <2>3 DEF Fans
    <2> HIDE DEF y
    <2>5. FanFits(y)
      BY <1>1, <2>1, <2>4 DEF FanFits, Trying
    <2>6. QED
      BY <1>10, <1>a, <2>2, <2>4, <2>5 DEF Push!SendTimeout, Push!Subscriptions
  <1>11. QED
    BY <1>2, <1>3, <1>4, <1>5, <1>6, <1>7, <1>8, <1>9, <1>10 DEF Push!FanStep

LEMMA FanStepHolds ==
    ASSUME Push!PushFanoutAssumption, FanInv, [Push!Next]_(Push!vars)
    PROVE  FanInv'
  <1>1. ASSUME NEW e \in DOMAIN dns, Push!DnsChanges(e) PROVE FanInv'
    <2>1. PICK a \in Push!Answers : dns' = [dns EXCEPT ![e] = a]
      BY <1>1 DEF Push!DnsChanges
    <2>2. changed' = changed \cup {e} /\ UNCHANGED <<now, service, stored, fan, connections>>
      BY <1>1 DEF Push!DnsChanges
    <2>3. /\ DOMAIN dns' = DOMAIN dns /\ dns' \in [DOMAIN dns -> Push!Answers]
         /\ \A d \in DOMAIN dns : dns'[d] = IF d = e THEN a ELSE dns[d]
      BY <2>1 DEF FanInv
    <2>4. ASSUME NEW f \in Fanouts PROVE FanFits(fan[f])'
      <3>1. fan[f] \in Fans /\ FanFits(fan[f])
        BY DEF FanInv
      <3>2. \A d \in DOMAIN dns : Fine(d)' => Fine(d)
        BY <2>2, <2>3 DEF Fine
      <3>3. fan[f].all \subseteq DOMAIN dns
        BY <3>1 DEF FanFits
      <3>4. QED
        BY <2>2, <2>3, <3>1, <3>2, <3>3 DEF FanFits
    <2>5. QED
      BY <2>2, <2>3, <2>4 DEF FanInv
  <1>2. ASSUME Push!Tick PROVE FanInv'
    <2>1. UNCHANGED <<dns, service, changed, stored, fan, connections>> /\ now' = now + 1 /\ now \in Nat
      BY <1>2 DEF Push!Tick, FanInv
    <2>2. ASSUME NEW f \in Fanouts PROVE FanFits(fan[f])'
      <3>1. fan[f] \in Fans /\ FanFits(fan[f])
        BY DEF FanInv
      <3>2. fan[f].deadline \in Nat
        BY <3>1 DEF Fans
      <3>3. now >= fan[f].deadline => now' >= fan[f].deadline
        BY <2>1, <3>2
      <3>4. QED
        BY <2>1, <3>1, <3>3 DEF FanFits, Fine
    <2>3. QED
      BY <2>1, <2>2 DEF FanInv
  <1>3. CASE UNCHANGED Push!vars
    BY <1>3 DEF Push!vars, FanInv, FanFits, Fine
  <1>4. QED
    BY <1>1, <1>2, <1>3, FanSteps DEF Push!Next

LEMMA FanInvInit == Push!Init => FanInv
  <1> SUFFICES ASSUME Push!Init PROVE FanInv
    OBVIOUS
  <1>1. Push!NoFan \in Fans
    BY DEF Push!NoFan, Fans
  <1>2. FanFits(Push!NoFan)
    BY DEF Push!NoFan, FanFits, Trying
  <1>3. DOMAIN dns = stored /\ dns \in [DOMAIN dns -> Push!Answers] /\ stored \subseteq Push!Endpoints
    BY DEF Push!Init, Push!Answers, Push!Endpoints
  <1>4. QED
    BY <1>1, <1>2, <1>3 DEF Push!Init, FanInv
LEMMA FanInvHolds ==
    ASSUME Push!PushFanoutAssumption
    PROVE  Push!Spec => []FanInv
  <1>1. FanInv /\ [Push!Next]_(Push!vars) => FanInv'
    BY FanStepHolds
  <1>2. QED
    BY <1>1, FanInvInit, PTL DEF Push!Spec

\* Every connection goes to a public address of a host in an allowed domain,
\* although the DNS may have changed since the validation (dialContext).
THEOREM ConnectionsStayPublic ==
    ASSUME Push!PushFanoutAssumption
    PROVE  Push!Spec => []Push!ConnectionsArePublic
  <1>1. ASSUME FanInv PROVE Push!ConnectionsArePublic
    <2>1. ASSUME NEW c \in connections
          PROVE  /\ c.address = "public" /\ c.endpoint.plain
                 /\ \E domain \in Push!Domains : Push!InDomain(c.endpoint.host, domain)
      <3>1. /\ c.address = "public" /\ c.endpoint \in Push!Endpoints /\ c.endpoint.plain
            /\ Push!allowedHost(Push!Normalized(c.endpoint.host))
        BY <1>1 DEF FanInv, MayBeAsked
      <3>2. c.endpoint.host \in Seq(Chars)
        BY <3>1 DEF Push!PushFanoutAssumption, Push!Endpoints, Chars
      <3>3. QED
        BY <3>1, <3>2, AllowedIsInDomain
    <2>2. QED
      BY <2>1 DEF Push!ConnectionsArePublic
  <1>2. QED
    BY <1>1, FanInvHolds, PTL

\* By the end of a fan-out every browser whose endpoint is fine got its push,
\* whatever went wrong with the others, unless the time ran out.
THEOREM OthersAreToldAnyway ==
    ASSUME Push!PushFanoutAssumption
    PROVE  Push!Spec => []Push!OneFailureStopsNobody
  <1>1. ASSUME FanInv PROVE Push!OneFailureStopsNobody
    <2>1. ASSUME NEW f \in Fanouts, fan[f].pc = "done", NEW e \in fan[f].all \ (fan[f].overdue \cup changed),
                 e.plain, Push!allowedHost(Push!Normalized(e.host)), dns[e] = "public", service[e] = "ok"
          PROVE  e \in fan[f].delivered
      <3>1. FanFits(fan[f]) /\ Fine(e)
        BY <1>1, <2>1 DEF FanInv, Fine, MayBeAsked
      <3>2. QED
        BY <2>1, <3>1 DEF FanFits, Trying
    <2>2. QED
      BY <2>1 DEF Push!OneFailureStopsNobody
  <1>2. QED
    BY <1>1, FanInvHolds, PTL

\* A subscription whose check failed for want of time is not deleted: the
\* deletion has the fan-out's own context.
THEOREM LateChecksDeleteNothing ==
    ASSUME Push!PushFanoutAssumption
    PROVE  Push!Spec => Push!TimeoutsDeleteNothing
  <1> DEFINE Kept == \A f \in Fanouts :
                fan[f].pc = "delete" /\ fan'[f].pc # "delete" /\ fan[f].at \in fan[f].overdue => stored' = stored
  <1>1. FanInv /\ [Push!Next]_(Push!vars) => [Kept]_(Push!vars)
    <2> SUFFICES ASSUME FanInv, [Push!Next]_(Push!vars), NEW f \in Fanouts,
                        fan[f].pc = "delete", fan'[f].pc # "delete", fan[f].at \in fan[f].overdue
                 PROVE  stored' = stored
      OBVIOUS
    <2>1. fan \in [Fanouts -> Fans] /\ now >= fan[f].deadline
      BY DEF FanInv, FanFits
    <2>2. ASSUME NEW g \in Fanouts, Push!Delete(g) PROVE stored' = stored
      <3>1. g = f
        BY <2>1, <2>2 DEF Push!Delete, Push!Set
      <3>2. QED
        BY <2>1, <2>2, <3>1 DEF Push!Delete, Push!Expired
    <2>3. (\E g \in Fanouts : Push!Delete(g)) \/ stored' = stored
      BY DEF Push!Next, Push!FanStep, Push!Start, Push!StartFails, Push!Pick, Push!Finish, Push!Lookup, Push!Dial,
             Push!Answer, Push!SendTimeout, Push!SendFails, Push!Subscriptions, Push!DnsChanges, Push!Tick, Push!vars
    <2>4. QED
      BY <2>2, <2>3
  <1>2. QED
    BY <1>1, FanInvHolds, PTL DEF Push!Spec, Push!TimeoutsDeleteNothing

-----------------------------------------------------------------------------
(* PushFanout: types *)

\* What Push!TypeOK says of one fan-out.
FanTyped(x) ==
    /\ x.pc \in {"idle", "next", "lookup", "delete", "dial", "answer", "done"}
    /\ x.todo \subseteq x.all /\ x.all \subseteq Push!Endpoints
    /\ x.at \in Push!Endpoints \cup {Push!NoEndpoint}
    /\ x.deadline \in 0..PushHorizon
    /\ x.pc \in {"dial", "answer"} => x.sendBy <= x.deadline
    /\ x.delivered \subseteq x.all /\ x.overdue \subseteq x.all
PushTypes == FanInv /\ Push!TypeOK

LEMMA FanTypesMove ==
    ASSUME FanInv, Push!TypeOK, NEW f \in Fanouts, NEW y, FanTyped(y), Push!Set(f, y), Push!Outside,
           stored' \subseteq stored, connections' \subseteq [endpoint : Push!Endpoints, address : Push!Answers]
    PROVE  Push!TypeOK'
  <1>1. ASSUME NEW g \in Fanouts PROVE FanTyped(fan'[g])
    <2>1. fan'[g] = IF g = f THEN y ELSE fan[g]
      BY DEF FanInv, Push!Set
    <2>2. FanTyped(fan[g])
      BY DEF Push!TypeOK, FanTyped
    <2>3. QED
      BY <2>1, <2>2
  <1>2. /\ now' \in 0..PushHorizon /\ DOMAIN dns' \in Registrations
        /\ dns' \in [DOMAIN dns' -> Push!Answers] /\ service' \in [DOMAIN dns' -> Push!Services]
        /\ changed' \subseteq DOMAIN dns' /\ stored' \subseteq DOMAIN dns'
        /\ connections' \subseteq [endpoint : Push!Endpoints, address : Push!Answers]
    BY DEF Push!TypeOK, Push!Outside
  <1>3. QED
    BY <1>1, <1>2 DEF Push!TypeOK, FanTyped

LEMMA FanStepsType ==
    ASSUME Push!PushFanoutAssumption, FanInv, Push!TypeOK, NEW f \in Fanouts,
           Push!Start(f) \/ Push!StartFails(f) \/ Push!FanStep(f)
    PROVE  Push!TypeOK'
  <1> DEFINE x == fan[f]
  <1>1. /\ x \in Fans /\ FanFits(x) /\ FanTyped(x) /\ now \in 0..PushHorizon /\ stored \subseteq Push!Endpoints
        /\ connections \subseteq [endpoint : Push!Endpoints, address : Push!Answers] /\ DOMAIN dns \subseteq Push!Endpoints
    BY DEF FanInv, Push!TypeOK, FanTyped
  <1>2. PushTimeout \in Nat /\ HttpTimeout \in Nat /\ PushHorizon \in Nat
    BY DEF Push!PushFanoutAssumption
  <1>3. x.pc \in Trying => x.at \in x.all
    BY <1>1 DEF FanFits
  <1> HIDE DEF x
  <1>4. ASSUME NEW y, FanTyped(y), Push!Set(f, y), Push!Outside, Push!Wires, stored' \subseteq stored
        PROVE  Push!TypeOK'
    BY <1>1, <1>4, FanTypesMove DEF Push!Wires
  <1>5. CASE Push!Start(f)
    <2> DEFINE y == [Push!NoFan EXCEPT !.pc = "next", !.todo = stored, !.all = stored, !.deadline = now + PushTimeout]
    <2>1. FanTyped(y)
      BY <1>1, <1>2, <1>5 DEF FanTyped, Push!NoFan, Push!Start
    <2>2. Push!Set(f, y) /\ Push!Outside /\ Push!Wires /\ stored' \subseteq stored
      BY <1>5 DEF Push!Start, Push!Subscriptions
    <2>3. QED
      BY <1>4, <2>1, <2>2
  <1>6. CASE Push!StartFails(f)
    <2> DEFINE y == [Push!NoFan EXCEPT !.pc = "done", !.deadline = now + PushTimeout]
    <2>1. FanTyped(y)
      BY <1>1, <1>2, <1>6 DEF FanTyped, Push!NoFan, Push!StartFails
    <2>2. Push!Set(f, y) /\ Push!Outside /\ Push!Wires /\ stored' \subseteq stored
      BY <1>6 DEF Push!StartFails, Push!Subscriptions
    <2>3. QED
      BY <1>4, <2>1, <2>2
  <1>7. CASE Push!Pick(f)
    <2>1. PICK e \in x.todo :
             Push!Set(f, [x EXCEPT !.at = e, !.todo = @ \ {e}, !.pc = IF MayBeAsked(e) THEN "lookup" ELSE "delete"])
      BY <1>7 DEF Push!Pick, MayBeAsked, x
    <2> DEFINE p == IF MayBeAsked(e) THEN "lookup" ELSE "delete"
               y == [x EXCEPT !.at = e, !.todo = @ \ {e}, !.pc = p]
    <2>2. p \in {"lookup", "delete"}
      OBVIOUS
    <2> HIDE DEF p
    <2>3. FanTyped(y)
      BY <1>1, <2>2 DEF FanTyped, Fans
    <2>4. Push!Set(f, y) /\ Push!Outside /\ Push!Wires /\ stored' \subseteq stored
      BY <1>7, <2>1 DEF Push!Pick, Push!Subscriptions, p
    <2>5. QED
      BY <1>4, <2>3, <2>4
  <1>8. CASE Push!Lookup(f)
    <2>1. PICK by \in {now + HttpTimeout, x.deadline}, late \in {x.overdue, x.overdue \cup {x.at}} :
             /\ by <= x.deadline
             /\ \/ Push!Set(f, [x EXCEPT !.pc = "dial", !.sendBy = by])
                \/ Push!Set(f, [x EXCEPT !.pc = "delete", !.overdue = late])
      <3>1. x.deadline \in Nat
        BY <1>1 DEF Fans
      <3>2. CASE ~Push!Expired(f) /\ Push!isPublicIP(dns[x.at])
        <4> DEFINE by == IF now + HttpTimeout < x.deadline THEN now + HttpTimeout ELSE x.deadline
        <4>1. by \in {now + HttpTimeout, x.deadline} /\ by <= x.deadline
          BY <1>1, <1>2, <3>1
        <4>2. Push!Set(f, [x EXCEPT !.pc = "dial", !.sendBy = by])
          BY <1>8, <3>2 DEF Push!Lookup, x
        <4> HIDE DEF by
        <4>3. QED
          BY <4>1, <4>2
      <3>3. CASE ~(~Push!Expired(f) /\ Push!isPublicIP(dns[x.at]))
        <4> DEFINE late == IF Push!Expired(f) THEN x.overdue \cup {x.at} ELSE x.overdue
        <4>1. late \in {x.overdue, x.overdue \cup {x.at}}
          OBVIOUS
        <4>2. Push!Set(f, [x EXCEPT !.pc = "delete", !.overdue = late])
          BY <1>8, <3>3 DEF Push!Lookup, x
        <4> HIDE DEF late
        <4>3. x.deadline <= x.deadline
          BY <3>1
        <4>4. QED
          BY <4>1, <4>2, <4>3
      <3>4. QED
        BY <3>2, <3>3
    <2>2. x.at \in x.all
      BY <1>3, <1>8 DEF Push!Lookup, Trying, x
    <2>3. FanTyped([x EXCEPT !.pc = "dial", !.sendBy = by])
      BY <1>1, <2>1 DEF FanTyped, Fans
    <2>4. FanTyped([x EXCEPT !.pc = "delete", !.overdue = late])
      BY <1>1, <2>1, <2>2 DEF FanTyped, Fans
    <2>5. QED
      BY <1>4, <1>8, <2>1, <2>3, <2>4 DEF Push!Lookup, Push!Subscriptions
  <1>9. CASE Push!Delete(f)
    <2>1. FanTyped([x EXCEPT !.pc = "next"])
      BY <1>1 DEF FanTyped, Fans
    <2>2. QED
      BY <1>4, <1>9, <2>1 DEF Push!Delete, x
  <1>10. CASE Push!Dial(f)
    <2>1. FanTyped([x EXCEPT !.pc = "next"])
      BY <1>1 DEF FanTyped, Fans
    <2>2. FanTyped([x EXCEPT !.pc = "answer"])
      BY <1>1, <1>10 DEF FanTyped, Fans, Push!Dial, x
    <2>3. x.at \in DOMAIN dns
      BY <1>1, <1>3, <1>10 DEF Push!Dial, FanFits, Trying, x
    <2>4. [endpoint |-> x.at, address |-> dns[x.at]] \in [endpoint : Push!Endpoints, address : Push!Answers]
      BY <1>1, <2>3 DEF FanInv
    <2>5. CASE connections' = connections \cup {[endpoint |-> x.at, address |-> dns[x.at]]}
               /\ Push!Set(f, [x EXCEPT !.pc = "answer"]) /\ Push!Subscriptions /\ Push!Outside
      BY <1>1, <2>2, <2>4, <2>5, FanTypesMove DEF Push!Subscriptions
    <2>6. CASE Push!SendFails(f) /\ Push!Wires
      BY <1>4, <2>1, <2>6 DEF Push!SendFails, Push!Subscriptions, x
    <2>7. QED
      BY <1>10, <2>5, <2>6 DEF Push!Dial, x
  <1>11. CASE Push!Answer(f)
    <2>1. FanTyped([x EXCEPT !.pc = "next"]) /\ FanTyped([x EXCEPT !.pc = "delete"])
      BY <1>1 DEF FanTyped, Fans
    <2>2. FanTyped([x EXCEPT !.pc = "next", !.delivered = @ \cup {x.at}])
      BY <1>1, <1>3, <1>11 DEF FanTyped, Fans, Push!Answer, Trying, x
    <2>3. \/ Push!Set(f, [x EXCEPT !.pc = "next", !.delivered = @ \cup {x.at}])
          \/ Push!Set(f, [x EXCEPT !.pc = "delete"])
          \/ Push!Set(f, [x EXCEPT !.pc = "next"])
      BY <1>11 DEF Push!Answer, x
    <2>4. QED
      BY <1>4, <1>11, <2>1, <2>2, <2>3 DEF Push!Answer, Push!Subscriptions
  <1>12. CASE Push!SendTimeout(f)
    <2>1. FanTyped([x EXCEPT !.pc = "next", !.overdue = @ \cup {x.at}])
      BY <1>1, <1>3, <1>12 DEF FanTyped, Fans, Push!SendTimeout, Trying, x
    <2>2. QED
      BY <1>4, <1>12, <2>1 DEF Push!SendTimeout, Push!Subscriptions, x
  <1>13. CASE Push!Finish(f)
    <2>1. FanTyped([x EXCEPT !.pc = "done"])
      BY <1>1 DEF FanTyped, Fans
    <2>2. QED
      BY <1>4, <1>13, <2>1 DEF Push!Finish, Push!Subscriptions, x
  <1>14. QED
    BY <1>5, <1>6, <1>7, <1>8, <1>9, <1>10, <1>11, <1>12, <1>13 DEF Push!FanStep

LEMMA PushTypesInit == Push!PushFanoutAssumption /\ Push!Init => PushTypes
  <1> SUFFICES ASSUME Push!PushFanoutAssumption, Push!Init PROVE PushTypes
    OBVIOUS
  <1>1. DOMAIN dns = stored /\ stored \in Registrations
    BY DEF Push!Init
  <1>2. Push!TypeOK
    BY <1>1 DEF Push!Init, Push!TypeOK, Push!NoFan, Push!Answers, Push!PushFanoutAssumption
  <1>3. QED
    BY <1>2, FanInvInit DEF PushTypes

LEMMA PushTypesStep == Push!PushFanoutAssumption /\ PushTypes /\ [Push!Next]_(Push!vars) => PushTypes'
  <1> SUFFICES ASSUME Push!PushFanoutAssumption, FanInv, Push!TypeOK, [Push!Next]_(Push!vars) PROVE Push!TypeOK'
    BY FanStepHolds DEF PushTypes
  <1>1. ASSUME NEW e \in DOMAIN dns, Push!DnsChanges(e) PROVE Push!TypeOK'
    <2>1. PICK a \in Push!Answers : dns' = [dns EXCEPT ![e] = a]
      BY <1>1 DEF Push!DnsChanges
    <2>2. DOMAIN dns' = DOMAIN dns /\ dns' \in [DOMAIN dns -> Push!Answers]
      BY <2>1 DEF Push!TypeOK
    <2>3. changed' = changed \cup {e} /\ UNCHANGED <<now, service, stored, fan, connections>>
      BY <1>1 DEF Push!DnsChanges
    <2>4. QED
      BY <2>2, <2>3 DEF Push!TypeOK
  <1>2. ASSUME dns' = dns, service' = service, changed' = changed, stored' = stored, fan' = fan,
               connections' = connections, now' \in 0..PushHorizon
        PROVE  Push!TypeOK'
    <2>1. \A f \in Fanouts : FanTyped(fan'[f])
      BY <1>2 DEF Push!TypeOK, FanTyped
    <2>2. QED
      BY <1>2, <2>1 DEF Push!TypeOK, FanTyped
  <1>3. CASE Push!Tick
    <2>1. now' \in 0..PushHorizon
      BY <1>3 DEF Push!Tick, Push!TypeOK, Push!PushFanoutAssumption
    <2>2. QED
      BY <1>2, <1>3, <2>1 DEF Push!Tick
  <1>4. CASE UNCHANGED Push!vars
    <2>1. dns' = dns /\ service' = service /\ changed' = changed /\ stored' = stored /\ fan' = fan
          /\ connections' = connections /\ now' \in 0..PushHorizon
      BY <1>4 DEF Push!vars, Push!TypeOK
    <2>2. QED
      BY <1>2, <2>1
  <1>5. ASSUME NEW f \in Fanouts, Push!Start(f) \/ Push!StartFails(f) \/ Push!FanStep(f) PROVE Push!TypeOK'
    BY <1>5, FanStepsType
  <1>6. QED
    <2>1. CASE \E f \in Fanouts : Push!Start(f) \/ Push!StartFails(f) \/ Push!FanStep(f)
      BY <1>5, <2>1
    <2>2. CASE \E e \in DOMAIN dns : Push!DnsChanges(e)
      BY <1>1, <2>2
    <2>3. QED
      BY <1>3, <1>4, <2>1, <2>2 DEF Push!Next

-----------------------------------------------------------------------------
(* Beside the other components *)

\* The component behaves on its own, or never starts.
LEMMA ShutdownOrServing == AllSpec => Shutdown!Spec \/ [](phase = "serving")
  <1> DEFINE Chosen == part = "shutdown"
             Rests == part # "shutdown" /\ phase = "serving"
  <1>1. AllInit => (Chosen /\ Shutdown!Init) \/ Rests
    BY DEF AllInit, Shutdown!Init
  <1>2. Chosen /\ [AllNext]_allVars => Chosen' /\ [Shutdown!Next]_(Shutdown!vars)
    BY DEF AllNext, LocksStep, ShutdownStep, CatalogStep, PushStep, WaitStep, DeliveryStep, PluginStep, Rest,
           allVars, shutdownVars, Shutdown!vars
  <1>3. Rests /\ [AllNext]_allVars => Rests'
    BY DEF AllNext, LocksStep, ShutdownStep, CatalogStep, PushStep, WaitStep, DeliveryStep, PluginStep, Rest,
           allVars, shutdownVars
  <1>4. Rests => phase = "serving"
    OBVIOUS
  <1> QED  BY <1>1, <1>2, <1>3, <1>4, PTL DEF AllSpec, Shutdown!Spec

LEMMA CatalogOrUnused ==
    AllSpec => Catalog!Spec \/ [](/\ results = [r \in Rules |-> Catalog!NoListing]
                                  /\ find = [c \in Callers |-> [r \in Rules |-> Catalog!Idle]])
  <1> DEFINE Unused == /\ results = [r \in Rules |-> Catalog!NoListing]
                       /\ find = [c \in Callers |-> [r \in Rules |-> Catalog!Idle]]
             Chosen == part = "catalog"
             Rests == part # "catalog" /\ Unused
  <1>1. AllInit => (Chosen /\ Catalog!Init) \/ Rests
    BY DEF AllInit, Catalog!Init
  <1>2. Chosen /\ [AllNext]_allVars => Chosen' /\ [Catalog!Next]_(Catalog!vars)
    BY DEF AllNext, LocksStep, ShutdownStep, CatalogStep, PushStep, WaitStep, DeliveryStep, PluginStep, Rest,
           allVars, catalogVars, Catalog!vars
  <1>3. Rests /\ [AllNext]_allVars => Rests'
    BY DEF AllNext, LocksStep, ShutdownStep, CatalogStep, PushStep, WaitStep, DeliveryStep, PluginStep, Rest,
           allVars, catalogVars
  <1>4. Rests => Unused
    OBVIOUS
  <1> QED  BY <1>1, <1>2, <1>3, <1>4, PTL DEF AllSpec, Catalog!Spec

LEMMA PushOrSilent == AllSpec => Push!Spec \/ [](fan = [f \in Fanouts |-> Push!NoFan] /\ connections = {})
  <1> DEFINE Silent == fan = [f \in Fanouts |-> Push!NoFan] /\ connections = {}
             Chosen == part = "push"
             Rests == part # "push" /\ Silent
  <1>1. AllInit => (Chosen /\ Push!Init) \/ Rests
    BY DEF AllInit, Push!Init
  <1>2. Chosen /\ [AllNext]_allVars => Chosen' /\ [Push!Next]_(Push!vars)
    BY DEF AllNext, LocksStep, ShutdownStep, CatalogStep, PushStep, WaitStep, DeliveryStep, PluginStep, Rest,
           allVars, pushVars, Push!vars
  <1>3. Rests /\ [AllNext]_allVars => Rests'
    BY DEF AllNext, LocksStep, ShutdownStep, CatalogStep, PushStep, WaitStep, DeliveryStep, PluginStep, Rest,
           allVars, pushVars
  <1>4. Rests => Silent
    OBVIOUS
  <1> QED  BY <1>1, <1>2, <1>3, <1>4, PTL DEF AllSpec, Push!Spec

\* In Components, too, a server that ends without an error has answered every
\* call it accepted (run, newHTTPServer).
THEOREM ShutdownIsClean == AllSpec => []CleanEndsAnswerEverything
  <1>1. phase = "serving" => CleanEndsAnswerEverything
    BY DEF CleanEndsAnswerEverything, Shutdown!CleanEndsAnswerEverything
  <1>2. Shutdown!Spec => []Shutdown!CleanEndsAnswerEverything
    BY CleanEndsAnswer, ComponentsAssumption
  <1>3. Shutdown!CleanEndsAnswerEverything <=> CleanEndsAnswerEverything
    BY DEF CleanEndsAnswerEverything
  <1> QED  BY <1>1, <1>2, <1>3, ShutdownOrServing, PTL

\* In Components, too, streams and long polls never make Shutdown time out
\* (newHTTPServer).
THEOREM StreamsGiveWay == AllSpec => StreamsDoNotHoldShutdown
  <1> DEFINE Works == phase = "shutdown" /\ result' = "error" => \E c \in Shutdown!Running : kind[c] = "work"
  <1>1. phase = "serving" => [Works]_(Shutdown!vars)
    OBVIOUS
  <1>2. Shutdown!Spec => [][Works]_(Shutdown!vars)
    BY StreamsEndBeforeTheTimeout, ComponentsAssumption DEF Shutdown!StreamsDoNotHoldShutdown
  <1>3. StreamsDoNotHoldShutdown <=> [][Works]_(Shutdown!vars)
    BY DEF StreamsDoNotHoldShutdown, Shutdown!StreamsDoNotHoldShutdown
  <1> HIDE DEF Works
  <1> QED  BY <1>1, <1>2, <1>3, ShutdownOrServing, PTL

\* In Components, too, a key shows up within the TTL and only OpenBao's own
\* failures are kept (discover).
THEOREM ListingsStayTrue == AllSpec => []ListingsAreTrue
  <1> DEFINE Unused == /\ results = [r \in Rules |-> Catalog!NoListing]
                       /\ find = [c \in Callers |-> [r \in Rules |-> Catalog!Idle]]
  <1>1. Unused => ListingsAreTrue
    BY DEF ListingsAreTrue, Catalog!KeysShowUp, Catalog!FailuresAreOpenBaos, Catalog!Idle, Catalog!NoListing
  <1>2. Catalog!Spec => []Catalog!KeysShowUp /\ []Catalog!FailuresAreOpenBaos
    BY KeysAlwaysShowUp, OnlyOpenBaoFails, ComponentsAssumption
  <1>3. Catalog!KeysShowUp /\ Catalog!FailuresAreOpenBaos => ListingsAreTrue
    BY DEF ListingsAreTrue
  <1>4. AllSpec => Catalog!Spec \/ []Unused
    BY CatalogOrUnused
  <1> QED  BY <1>1, <1>2, <1>3, <1>4, PTL

\* In Components, too, connections are only opened to public addresses of hosts
\* in the allowed domains (dialContext).
THEOREM ConnectionsNeverStray == AllSpec => []ConnectionsArePublic
  <1> DEFINE Silent == fan = [f \in Fanouts |-> Push!NoFan] /\ connections = {}
  <1>1. Silent => ConnectionsArePublic
    BY DEF ConnectionsArePublic, Push!ConnectionsArePublic
  <1>2. Push!Spec => []Push!ConnectionsArePublic
    BY ConnectionsStayPublic, ComponentsAssumption
  <1>3. Push!ConnectionsArePublic <=> ConnectionsArePublic
    BY DEF ConnectionsArePublic
  <1>4. AllSpec => Push!Spec \/ []Silent
    BY PushOrSilent
  <1> HIDE DEF Silent
  <1> QED  BY <1>1, <1>2, <1>3, <1>4, PTL

\* In Components, too, the failure of a subscription takes nothing from the
\* others, and none is deleted for lack of time (RequestChanged).
THEOREM FanoutsAreFair == AllSpec => FanoutsSpareTheOthers
  <1> DEFINE Silent == fan = [f \in Fanouts |-> Push!NoFan] /\ connections = {}
             Kept == \A f \in Fanouts :
                fan[f].pc = "delete" /\ fan'[f].pc # "delete" /\ fan[f].at \in fan[f].overdue => stored' = stored
  <1>1. Silent => Push!OneFailureStopsNobody
    BY DEF Push!OneFailureStopsNobody, Push!NoFan
  <1>2. Silent => [Kept]_(Push!vars)
    BY DEF Push!NoFan
  <1>3. Push!Spec => []Push!OneFailureStopsNobody /\ [][Kept]_(Push!vars)
    BY OthersAreToldAnyway, LateChecksDeleteNothing, ComponentsAssumption DEF Push!TimeoutsDeleteNothing
  <1>4. FanoutsSpareTheOthers <=> []Push!OneFailureStopsNobody /\ [][Kept]_(Push!vars)
    BY DEF FanoutsSpareTheOthers, Push!TimeoutsDeleteNothing
  <1>5. AllSpec => Push!Spec \/ []Silent
    BY PushOrSilent
  <1> HIDE DEF Kept, Silent
  <1> QED  BY <1>1, <1>2, <1>3, <1>4, <1>5, PTL
=============================================================================
