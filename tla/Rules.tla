------------------------------- MODULE Rules --------------------------------
(***************************************************************************)
(* Grantable Rules: which are valid, what a path must look like, what a    *)
(* pattern matches, what a Permission Item resolves to and which paths a   *)
(* listing contributes to the catalog.                                     *)
(*                                                                         *)
(* A path is the sequence of its segments and a segment the sequence of    *)
(* its letters, so "a/b/" is <<a, b, <<>>>>.  A pattern keeps a trailing   *)
(* "*" as its glob field.  Lengths of time are counted in ticks.           *)
(***************************************************************************)
EXTENDS Integers, FiniteSets, Sequences, SequencesExt

CONSTANTS Letter,        \* the characters of a segment: all but the slash
          Denied,        \* the denied segments, in lower case
          Capabilities,  \* GrantableCapabilities
          LowerCase,     \* a function on the letters that have a lower case
          Spelling,      \* a requested capability, trimmed and in lower case
          Forbidden,     \* letters no concrete path may contain
          MaxPath,       \* the longest concrete path
          Second         \* ticks in a second

Plus == <<"+">>
Dot == <<".">>
NoTTL == -1  \* an empty ttl; one that is no duration counts as 0
Letters(segment) == {segment[j] : j \in DOMAIN segment}
ToLower(segment) == [j \in DOMAIN segment |->
    IF segment[j] \in DOMAIN LowerCase THEN LowerCase[segment[j]] ELSE segment[j]]

ASSUME RulesAssumption ==
    /\ Second \in Nat \ {0} /\ MaxPath \in Nat
    /\ "/" \notin Letter
    /\ Denied # {} /\ \A denied \in Denied : denied \in Seq(Letter) /\ ToLower(denied) = denied
    /\ \A c \in Capabilities : c \in DOMAIN Spelling /\ Spelling[c] = c

Paths == Seq(Seq(Letter)) \ {<<>>}
Patterns == [parts : Paths, glob : BOOLEAN]
TextLength(path) == FoldLeft(LAMBDA n, segment : n + Len(segment) + 1, -1, path)
\* strings.HasPrefix on the texts of two paths.
HasPrefix(path, prefix) ==
    /\ Len(prefix) <= Len(path)
    /\ \A i \in DOMAIN prefix :
          IF i = Len(prefix) THEN IsPrefix(prefix[i], path[i]) ELSE prefix[i] = path[i]
StartsWithSlash(path) == Len(path) > 1 /\ path[1] = <<>>
TrimSlash(path) == IF Len(path) > 1 /\ Last(path) = <<>> THEN Front(path) ELSE path
-----------------------------------------------------------------------------
(* Paths *)

\* checkConcretePath
Concrete(path) ==
    /\ path # <<<<>>>> /\ TextLength(path) <= MaxPath /\ ~StartsWithSlash(path)
    /\ \A i \in DOMAIN path : Letters(path[i]) \cap ({"*", "+"} \cup Forbidden) = {}
    /\ LET segments == TrimSlash(path) IN
       \A i \in DOMAIN segments : segments[i] \notin {<<>>, Dot, Dot \o Dot}

\* Mutant: only the first segment counts.
FirstSegmentDenied(path) == ToLower(path[1]) \in Denied
deniedSegment(path) == \E i \in DOMAIN path : ToLower(path[i]) \in Denied

\* Mutant: the glob of a pattern with "+" is anchored.
MatchPatternAnchored(pattern, path) ==
    IF \A i \in DOMAIN pattern.parts : "+" \notin Letters(pattern.parts[i])
    THEN IF pattern.glob THEN HasPrefix(path, pattern.parts) ELSE path = pattern.parts
    ELSE /\ Len(path) = Len(pattern.parts)
         /\ \A i \in DOMAIN pattern.parts :
               \/ pattern.parts[i] \in {Plus, path[i]}
               \/ pattern.glob /\ i = Len(pattern.parts) /\ IsPrefix(pattern.parts[i], path[i])
MatchPattern(pattern, path) ==
    IF \A i \in DOMAIN pattern.parts : "+" \notin Letters(pattern.parts[i])
    THEN IF pattern.glob THEN HasPrefix(path, pattern.parts) ELSE path = pattern.parts
    ELSE /\ Len(path) >= Len(pattern.parts)
         /\ pattern.glob \/ Len(path) = Len(pattern.parts)
         /\ \A i \in DOMAIN pattern.parts :
               \/ pattern.parts[i] \in {Plus, path[i]}
               \/ pattern.glob /\ i = Len(pattern.parts) /\ IsPrefix(pattern.parts[i], path[i])
-----------------------------------------------------------------------------
(* Rules *)

validatePattern(pattern) ==
    /\ pattern.parts # <<<<>>>> \/ pattern.glob
    /\ ~StartsWithSlash(pattern.parts)
    /\ \A i \in DOMAIN pattern.parts :
          /\ "*" \notin Letters(pattern.parts[i])
          /\ "+" \in Letters(pattern.parts[i]) =>
                pattern.parts[i] = Plus /\ ~(pattern.glob /\ i = Len(pattern.parts))

\* Mutant: a glob only overlaps when it spells a denied segment out.
overlapsDenylistSpelled(pattern) ==
    \/ Head(pattern.parts) = Plus
    \/ pattern.glob /\ pattern.parts = <<<<>>>>
    \/ deniedSegment(pattern.parts)
\* Mutant: the last segment is taken for a glob.
overlapsDenylistPrefix(pattern) ==
    LET stem == ToLower(Last(pattern.parts)) IN
    \/ Head(pattern.parts) = Plus
    \/ pattern.glob /\ pattern.parts = <<<<>>>>
    \/ stem # <<>> /\ \E denied \in Denied : IsPrefix(stem, denied)
    \/ \E i \in DOMAIN pattern.parts :
          ~(pattern.glob /\ i = Len(pattern.parts)) /\ ToLower(pattern.parts[i]) \in Denied
overlapsDenylist(pattern) ==
    LET stem == ToLower(Last(pattern.parts)) IN
    \/ Head(pattern.parts) = Plus
    \/ pattern.glob /\ pattern.parts = <<<<>>>>
    \/ pattern.glob /\ stem # <<>> /\ \E denied \in Denied : IsPrefix(stem, denied)
    \/ \E i \in DOMAIN pattern.parts :
          ~(pattern.glob /\ i = Len(pattern.parts)) /\ ToLower(pattern.parts[i]) \in Denied

\* One wildcard, in the last segment; the listed path is concrete.  An empty
\* discover, <<<<>>>>, discovers nothing.
Discovers(rule) == rule.discover # <<<<>>>>
validateDiscover(rule) ==
    /\ \A i \in DOMAIN Front(rule.path.parts) : Letters(rule.path.parts[i]) \cap {"+", "*"} = {}
    /\ rule.path.glob \/ Last(rule.path.parts) = Plus
    /\ Concrete(rule.discover)
    /\ ~overlapsDenylist([parts |-> rule.discover, glob |-> FALSE])

\* MaxTTL 0 stands for none, the name "" for any that is blank.
ValidateRule(rule) ==
    /\ rule.name # ""
    /\ validatePattern(rule.path) /\ ~overlapsDenylist(rule.path)
    /\ rule.capabilities # {} /\ rule.capabilities \subseteq Capabilities
    /\ rule.maxTTL >= 0
    /\ Discovers(rule) => validateDiscover(rule)

\* policy.maxTTL
Cap(policy, rule) == IF rule.maxTTL > 0 THEN rule.maxTTL ELSE policy.defaultTTL
-----------------------------------------------------------------------------
(* Permission Items *)

normalizeCapabilities(requested) == {Spelling[c] : c \in requested}
CapabilitiesRefused(requested) ==
    requested = {} \/ ~(normalizeCapabilities(requested) \subseteq Capabilities)
Truncate(ttl) == ttl - (ttl % Second)

Matching(policy, path) == {i \in DOMAIN policy.rules : MatchPattern(policy.rules[i].path, path)}
\* Mutant: only the first rule that matches the path is asked.
CoveringFirst(policy, path, capabilities) ==
    {i \in Matching(policy, path) : /\ \A j \in Matching(policy, path) : i <= j
                                    /\ capabilities \subseteq policy.rules[i].capabilities}
Covering(policy, path, capabilities) ==
    {i \in Matching(policy, path) : capabilities \subseteq policy.rules[i].capabilities}

\* Mutant: the first rule that covers the item wins.
FirstRule(policy, covering) == CHOOSE i \in covering : \A j \in covering : i <= j
\* The first of the covering rules with the longest cap.
BestRule(policy, covering) ==
    CHOOSE i \in covering : \A j \in covering :
        LET ci == Cap(policy, policy.rules[i])
            cj == Cap(policy, policy.rules[j])
        IN ci > cj \/ (ci = cj /\ i <= j)

Refused(why) == [refusal |-> why, path |-> <<<<>>>>, capabilities |-> {}, ttl |-> 0, rule |-> 0, maxTTL |-> 0]
\* The static steps, in their order.
Resolve(policy, input) ==
    LET capabilities == normalizeCapabilities(input.capabilities)
        covering == Covering(policy, input.path, capabilities)
        rule == BestRule(policy, covering)
        cap == Cap(policy, policy.rules[rule])
        requested == IF input.ttl = NoTTL THEN 0 ELSE Truncate(input.ttl)
        ttl == IF requested = 0 THEN policy.defaultTTL ELSE requested
    IN IF ~Concrete(input.path) THEN Refused("path")
       ELSE IF CapabilitiesRefused(input.capabilities) THEN Refused("capabilities")
       ELSE IF deniedSegment(input.path) THEN Refused("denylist")
       ELSE IF input.ttl # NoTTL /\ input.ttl < Second THEN Refused("ttl")
       ELSE IF Matching(policy, input.path) = {} THEN Refused("unmatched")
       ELSE IF covering = {} THEN Refused("exceeds")
       ELSE IF requested > cap THEN Refused("cap")
       ELSE [refusal |-> "", path |-> input.path, capabilities |-> capabilities,
             ttl |-> IF ttl < cap THEN ttl ELSE cap, rule |-> rule, maxTTL |-> cap]

\* What OpenBao says the token may do covers the item already.
Covers(granted, requested) ==
    "root" \in granted \/ ("deny" \notin granted /\ requested \subseteq granted)

\* Mutant: whatever the listing returns is offered.
discoveredPathsRaw(pattern, keys) == {Front(pattern.parts) \o key : key \in keys}
\* Each key in place of the last segment of the pattern; folders are skipped.
discoveredPaths(pattern, keys) ==
    {path \in {Front(pattern.parts) \o key : key \in {k \in keys : Last(k) # <<>> \/ Len(k) = 1}} :
        MatchPattern(pattern, path) /\ Concrete(path) /\ ~deniedSegment(path)}
=============================================================================
