------------------------------- MODULE Filing -------------------------------
(***************************************************************************)
(* The path of a Grant Request up to the store: the configuration the      *)
(* server starts with, the Requester Rule a token falls under, the items   *)
(* of a request and the catalog of what may be requested.                  *)
(*                                                                         *)
(* Each call is one step and leaves its answer; storing and announcing the *)
(* request are modelled in Grants and Streams.                             *)
(***************************************************************************)
EXTENDS Rules

CONSTANTS Files,       \* configuration files an operator may write
          Tokens,      \* what lookup-self says of the tokens there are
          Inputs,      \* Permission Items an agent may ask for
          Listings,    \* what a LIST of a discover path may return
          Grantings,   \* what capabilities-self may answer for a path
          DefaultGrantTTL, DefaultPendingTTL, DefaultSessionTTL,
          MaxItems

\* OpenBao mounts nothing below another mount.
ASSUME FilingAssumption ==
    /\ MaxItems \in Nat
    /\ {DefaultGrantTTL, DefaultPendingTTL, DefaultSessionTTL} \subseteq {ttl \in Int : ttl >= Second}
    /\ \A file \in Files :
          /\ {file.defaultTTL, file.pendingTTL, file.sessionTTL} \subseteq Int
          /\ file.grantable \in Seq([name : STRING, path : Patterns, capabilities : SUBSET STRING,
                                     maxTTL : Int, discover : Paths])
          /\ file.requesters \in Seq([name : STRING, role : STRING, mount : Seq(Seq(Letter))])
          /\ file.login.methods \in Seq([type : STRING, mount : STRING, role : STRING])
    /\ Tokens \subseteq [mount : Paths, login : Paths, role : STRING, entity : STRING, lookup : STRING]
    /\ Inputs \subseteq [path : Paths, capabilities : SUBSET DOMAIN Spelling, ttl : Int]
    /\ \A token \in Tokens, file \in Files : \A i \in DOMAIN file.requesters :
          file.requesters[i].mount \notin {<<>>, token.mount} =>
              /\ ~IsPrefix(file.requesters[i].mount, token.mount)
              /\ ~IsPrefix(token.mount, file.requesters[i].mount)

VARIABLES config,  \* the loaded configuration
          answer   \* what the last call returned

vars == <<config, answer>>

NoConfig == [state |-> "none"]
RefusedConfig == [state |-> "refused"]
NoAnswer == [call |-> "none"]
Started == config.state = "loaded"
\* Bound: a call changes nothing the next one sees, so one is enough.
Serving == Started /\ answer = NoAnswer
-----------------------------------------------------------------------------
(* config.Load *)

\* parsePositiveDuration, where the field is set.
PositiveOr(ttl, default) == IF ttl = NoTTL THEN default ELSE ttl
PositiveDuration(ttl) == ttl = NoTTL \/ ttl >= Second
Distinct(entries) == \A i, j \in DOMAIN entries : entries[i].name = entries[j].name => i = j

\* TrimSuffix takes one slash.
Rule(entry) == [name |-> entry.name, path |-> entry.path, capabilities |-> entry.capabilities,
                maxTTL |-> PositiveOr(entry.maxTTL, 0), discover |-> TrimSlash(entry.discover)]
loadGrants(file) ==
    /\ PositiveDuration(file.defaultTTL) /\ PositiveDuration(file.pendingTTL)
    /\ Distinct(file.grantable)
    /\ \A i \in DOMAIN file.grantable :
          PositiveDuration(file.grantable[i].maxTTL) /\ ValidateRule(Rule(file.grantable[i]))

\* A Requester Rule names either a token role or an auth mount.
loadRequesters(file) ==
    /\ file.requesters # <<>> /\ Distinct(file.requesters)
    /\ \A i \in DOMAIN file.requesters :
          (file.requesters[i].role = "") # (file.requesters[i].mount = <<>>)

LoginTypes == {"token", "userpass", "ldap", "github", "oidc"}
loadApproverLogin(file) ==
    /\ file.login.address
    /\ \A i \in DOMAIN file.login.methods :
          LET method == file.login.methods[i] IN
          method.type \in LoginTypes /\ (method.role # "" => method.type = "oidc")
\* Mutant: a method without a mount keeps none.
MethodsBare(file) ==
    IF file.login.methods = <<>> THEN <<[type |-> "token", mount |-> "", role |-> ""]>>
    ELSE file.login.methods
Methods(file) ==
    IF file.login.methods = <<>> THEN <<[type |-> "token", mount |-> "", role |-> ""]>>
    ELSE [i \in DOMAIN file.login.methods |->
            LET method == file.login.methods[i] IN
            IF method.mount = "" /\ method.type # "token"
            THEN [method EXCEPT !.mount = method.type] ELSE method]

\* The key and token files, the approver policy and the public origin.
Secrets(file) == file.keyBytes = 32 /\ file.token /\ file.approverPolicy
Origin(file) == file.insecureCookies \/ file.publicOrigin
WebPush(file) == file.webPush = <<>> \/ (Len(file.webPush) = 1 /\ file.webPush[1] = "complete")

Load(file) ==
    /\ config = NoConfig
    /\ config' = IF /\ Secrets(file) /\ Origin(file) /\ PositiveDuration(file.sessionTTL)
                    /\ loadApproverLogin(file) /\ loadRequesters(file) /\ loadGrants(file)
                    /\ WebPush(file)
                 THEN [state |-> "loaded",
                       policy |-> [rules |-> [i \in DOMAIN file.grantable |-> Rule(file.grantable[i])],
                                   defaultTTL |-> PositiveOr(file.defaultTTL, DefaultGrantTTL)],
                       pendingTTL |-> PositiveOr(file.pendingTTL, DefaultPendingTTL),
                       sessionTTL |-> PositiveOr(file.sessionTTL, DefaultSessionTTL),
                       requesters |-> file.requesters, methods |-> Methods(file),
                       push |-> file.webPush # <<>>]
                 ELSE RefusedConfig
    /\ UNCHANGED answer

-----------------------------------------------------------------------------
(* Service.Authenticate *)

\* Mutant: the slash after the mount is not compared.
matchesOpen(rule, token) ==
    IF rule.role # "" THEN token.role = rule.role
    ELSE HasPrefix(<<<<"auth">>>> \o token.mount \o token.login, <<<<"auth">>>> \o rule.mount)
\* RequesterRule.matches: the role, or the mount as a prefix of the token's
\* path, with the slash that follows it.
matches(rule, token) ==
    IF rule.role # "" THEN token.role = rule.role
    ELSE HasPrefix(<<<<"auth">>>> \o token.mount \o token.login, <<<<"auth">>>> \o rule.mount \o <<<<>>>>)

\* The lookup finds the token or answers "invalid_token" (400, 401 and 403) or
\* "unavailable" (any other failure).
Authenticate(token) ==
    /\ Serving
    /\ LET rules == {i \in DOMAIN config.requesters : matches(config.requesters[i], token)}
           first == CHOOSE i \in rules : \A j \in rules : i <= j
           answered(as, rule) == answer' = [call |-> "authenticate", token |-> token, as |-> as, rule |-> rule]
       IN IF token.lookup # "found" THEN answered(token.lookup, 0)
          ELSE IF rules = {} \/ token.entity = "" THEN answered("not_requester", 0)
          ELSE answered(token.entity, first)
    /\ UNCHANGED config

-----------------------------------------------------------------------------
(* Service.CreateRequest *)

\* Mutant: only the path makes two items the same.
AlikePath(one, other) == one.path = other.path
Alike(one, other) == one.path = other.path /\ one.capabilities = other.capabilities
\* An item that resolves like an earlier one of the request.
Duplicate(resolved, i) ==
    \E j \in 1..(i - 1) : resolved[j].refusal = "" /\ Alike(resolved[j], resolved[i])

\* Of a refused item only valid capabilities are kept.
RefusedItem(input, why) ==
    [state |-> "refused", why |-> why, path |-> input.path, ttl |-> 0, maxTTL |-> 0,
     capabilities |-> IF CapabilitiesRefused(input.capabilities) THEN {}
                      ELSE normalizeCapabilities(input.capabilities)]

\* granted is what capabilities-self says of each path: nothing if it failed.
Item(resolved, i, input, granted) ==
    LET item == resolved[i] IN
    IF item.refusal # "" THEN RefusedItem(input, item.refusal)
    ELSE IF Duplicate(resolved, i) THEN RefusedItem(input, "duplicate")
    ELSE [state |-> IF Covers(granted[item.path], item.capabilities)
                    THEN "already_granted" ELSE "pending",
          why |-> "", path |-> item.path, capabilities |-> item.capabilities,
          ttl |-> item.ttl, maxTTL |-> item.maxTTL]

CreateRequest(reason, inputs) ==
    /\ Serving
    /\ IF reason # "text" \/ inputs = <<>> \/ Len(inputs) > MaxItems
       THEN answer' = [call |-> "create", as |-> "invalid", inputs |-> inputs, items |-> <<>>]
       ELSE LET resolved == [i \in DOMAIN inputs |-> Resolve(config.policy, inputs[i])] IN
            \E granted \in [{resolved[i].path : i \in DOMAIN inputs} -> Grantings] :
               answer' = [call |-> "create", as |-> "filed", inputs |-> inputs,
                          items |-> [i \in DOMAIN inputs |-> Item(resolved, i, inputs[i], granted)]]
    /\ UNCHANGED config

-----------------------------------------------------------------------------
\* Service.Grantables: every rule with its effective cap and, if its listing
\* succeeds, the paths found.
Grantables ==
    /\ Serving
    /\ \E listing \in [DOMAIN config.policy.rules -> Listings] :
         answer' = [call |-> "grantables", catalog |-> [i \in DOMAIN config.policy.rules |->
            LET rule == config.policy.rules[i] IN
            [capabilities |-> rule.capabilities, maxTTL |-> Cap(config.policy, rule),
             paths |-> IF Discovers(rule) THEN discoveredPaths(rule.path, listing[i]) ELSE {}]]]
    /\ UNCHANGED config

Init == config = NoConfig /\ answer = NoAnswer

Next ==
    \/ \E file \in Files : Load(file)
    \/ \E token \in Tokens : Authenticate(token)
    \/ \E reason \in {"text", "blank", "long", "hidden"}, n \in 0..(MaxItems + 1) :
       \E inputs \in [1..n -> Inputs] : CreateRequest(reason, inputs)
    \/ Grantables

Spec == Init /\ [][Next]_vars
-----------------------------------------------------------------------------
\* The configuration and the answers have their shapes.
TypeOK ==
    /\ config.state \in {"none", "refused", "loaded"}
    /\ Started => /\ config.policy.defaultTTL >= Second /\ config.pendingTTL >= Second
                  /\ config.sessionTTL >= Second
                  /\ \A i \in DOMAIN config.methods :
                        config.methods[i].type = "token" \/ config.methods[i].mount # ""
    /\ answer.call \in {"none", "authenticate", "create", "grantables"}
    /\ answer.call = "create" =>
          \A i \in DOMAIN answer.items :
             answer.items[i].state \in {"refused", "already_granted", "pending"}

\* The text of a path, and of a pattern, letter by letter.
Text(path) ==
    LET text[n \in 1..Len(path)] == IF n = 1 THEN path[1] ELSE text[n - 1] \o <<"/">> \o path[n]
    IN  text[Len(path)]
PatternText(pattern) == Text(pattern.parts) \o (IF pattern.glob THEN <<"*">> ELSE <<>>)

\* OpenBao's reading of an ACL path, from the back of the pattern: the places
\* of the path from where its last n letters match.  "+" stands for any text
\* without a slash, the final "*" for any text at all.
TextMatches(p, t) ==
    LET matched[n \in 0..Len(p)] ==
            IF n = 0 THEN {Len(t) + 1}
            ELSE LET ch == p[Len(p) + 1 - n]
                     rest == matched[n - 1]
                 IN  CASE ch = "*" -> 1..(Len(t) + 1)
                       [] ch = "+" -> {j \in 1..(Len(t) + 1) :
                                         \E k \in rest : j <= k /\ \A l \in j..(k - 1) : t[l] # "/"}
                       [] OTHER -> {j \in 1..Len(t) : t[j] = ch /\ j + 1 \in rest}
    IN  1 \in matched[Len(p)]
GlobMatches(pattern, path) == TextMatches(PatternText(pattern), Text(path))

Accepted == {i \in DOMAIN answer.items : answer.items[i].state # "refused"}

\* An item that reaches an Approver is covered, on OpenBao's reading of the
\* pattern, by one rule that grants each of its capabilities and lasts at least
\* as long, for a second or more; and no segment of it is denied in any case.
PendingItemsAreGrantable ==
    answer.call = "create" => \A i \in Accepted :
        LET item == answer.items[i] IN
        /\ \A j \in DOMAIN item.path : ToLower(item.path[j]) \notin Denied
        /\ \E j \in DOMAIN config.policy.rules :
              LET rule == config.policy.rules[j] IN
              /\ GlobMatches(rule.path, item.path)
              /\ item.capabilities # {} /\ item.capabilities \subseteq rule.capabilities
              /\ Second <= item.ttl /\ item.ttl <= Cap(config.policy, rule)

\* What some rule grants when it is the only one is not refused because of the
\* other rules.
OtherRulesDoNotRefuse ==
    answer.call = "create" /\ answer.as = "filed" => \A i \in DOMAIN answer.items :
        answer.items[i].state = "refused" /\ answer.items[i].why # "duplicate" =>
            \A j \in DOMAIN config.policy.rules :
                Resolve([config.policy EXCEPT !.rules = <<@[j]>>], answer.inputs[i]).refusal # ""

\* How long an item may last does not depend on the order of the rules.
OrderOfRulesIsFree ==
    answer.call = "create" /\ answer.as = "filed" => \A i \in DOMAIN answer.inputs :
        LET one == Resolve(config.policy, answer.inputs[i])
            other == Resolve([config.policy EXCEPT !.rules = Reverse(@)], answer.inputs[i])
        IN one.refusal = other.refusal /\ one.ttl = other.ttl /\ one.maxTTL = other.maxTTL

\* A request asks for the same thing at most once, and every second asking is
\* refused: asking for other capabilities on the same path is not the same.
RepeatsAreRefused ==
    answer.call = "create" /\ answer.as = "filed" => \A i, j \in DOMAIN answer.inputs :
        LET one == answer.items[i]
            other == answer.items[j]
        IN /\ i # j /\ {i, j} \subseteq Accepted
              => <<one.path, one.capabilities>> # <<other.path, other.capabilities>>
           /\ one.why = "duplicate" =>
                 \E k \in Accepted : /\ k < i /\ answer.items[k].path = one.path
                                     /\ answer.items[k].capabilities = one.capabilities

\* The catalog only offers what can be had: each discovered path with every
\* capability of its rule for as long as its cap says.
CatalogIsRequestable ==
    answer.call = "grantables" => \A i \in DOMAIN answer.catalog :
        \A path \in answer.catalog[i].paths :
            LET input == [path |-> path, capabilities |-> answer.catalog[i].capabilities,
                          ttl |-> answer.catalog[i].maxTTL]
            IN Resolve(config.policy, input).refusal = ""

\* A Requester's token was issued by the mount its rule names or has the role,
\* and no earlier rule fits it: mounts whose names begin alike are different.
RequestersFitTheirRule ==
    answer.call = "authenticate" /\ answer.rule # 0 =>
        LET fits(i) == LET rule == config.requesters[i] IN
                IF rule.role # "" THEN answer.token.role = rule.role
                ELSE answer.token.mount = rule.mount
        IN /\ fits(answer.rule) /\ answer.as # ""
           /\ \A i \in 1..(answer.rule - 1) : ~fits(i)

\* What a request became: its pending items fit the rules and none is listed
\* twice, rules and their order that do not concern an item decide nothing about
\* it (CreateRequest, Resolve), the catalog offers what can be requested
\* (discoveredPaths) and a Requester fits its rule (Authenticate).
FilingInv ==
    /\ TypeOK
    /\ PendingItemsAreGrantable /\ RepeatsAreRefused
    /\ OtherRulesDoNotRefuse /\ OrderOfRulesIsFree
    /\ CatalogIsRequestable /\ RequestersFitTheirRule
=============================================================================
