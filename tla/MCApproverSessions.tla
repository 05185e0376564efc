------------------------- MODULE MCApproverSessions -------------------------
(***************************************************************************)
(* ApproverSessions for TLC, in three scenarios, one of which a behaviour  *)
(* begins with: dashboards during sign-ins and logouts, the browser's      *)
(* cookie with a third session, and Web Push with two Approvers until      *)
(* every session has expired.  Base 2 gives a time one digit the session   *)
(* table keeps and one it drops, enough for every order of two texts.      *)
(***************************************************************************)
EXTENDS ApproverSessions, TLC

CONSTANTS a1, a2, s1, s2, s3
VARIABLE scenario

Watched == INSTANCE ApproverSessions WITH Approvers <- {a1}
Cookies == INSTANCE ApproverSessions WITH
    Approvers <- {a1}, Ops <- {"signIn", "logout"}, MaxTime <- 0
Pushes == INSTANCE ApproverSessions WITH
    Ops <- {"signIn", "logout", "register", "unregister", "push"}, SessionTTL <- 5, MaxTime <- 4

ScenarioInit == scenario \in {"watch", "cookies", "pushes"} /\ Init
TwoSessions == Cardinality({s \in SessionIDs : issued'[s] # NoRow}) <= 2
\* One sign-in at a time, and two calls of any other kind.
WatchesStep ==
    /\ scenario = "watch" /\ Watched!Next /\ TwoSessions /\ UNCHANGED scenario
    /\ Cardinality({c \in Calls : call'[c].op = "signIn"}) <= 1
CookiesStep == scenario = "cookies" /\ Cookies!Next /\ UNCHANGED scenario
\* One call after the other.
PushesStep ==
    /\ scenario = "pushes" /\ Pushes!Next /\ TwoSessions /\ UNCHANGED scenario
    /\ \A c \in Calls : c # (CHOOSE d \in Calls : TRUE) => UNCHANGED call[c]
ScenarioNext == WatchesStep \/ CookiesStep \/ PushesStep
ScenarioSpec == ScenarioInit /\ [][ScenarioNext]_<<vars, scenario>>

SessionsSymmetry == Permutations({a1, a2}) \cup Permutations({s1, s2, s3})
=============================================================================
