---------------------------- MODULE PatternPairs ----------------------------
(***************************************************************************)
(* Every pattern with every path, one pair at a time: MatchPattern against *)
(* OpenBao's reading of the pattern, and the Hard Denylist check of a rule *)
(* against the one of a path.                                              *)
(***************************************************************************)
EXTENDS Filing

CONSTANTS SomePatterns,  \* patterns an operator may write
          SomePaths      \* paths an agent may ask for

ASSUME PairsAssumption == SomePatterns \subseteq Patterns /\ SomePaths \subseteq Paths

VARIABLE pair

NoPair == [chosen |-> FALSE]
PairInit == pair = NoPair /\ Init
\* An operator writes the pattern and an agent the path.
Pick ==
    /\ pair = NoPair
    /\ \E pattern \in {p \in SomePatterns : validatePattern(p)}, path \in SomePaths :
          pair' = [chosen |-> TRUE, pattern |-> pattern, path |-> path]
    /\ UNCHANGED vars
PairSpec == PairInit /\ [][Pick]_<<pair, vars>>

\* MatchPattern, which compares texts or segments depending on the pattern,
\* agrees with the one definition letter by letter.
MatchPatternIsGlob ==
    pair.chosen => (MatchPattern(pair.pattern, pair.path) <=> GlobMatches(pair.pattern, pair.path))

\* A pattern the denylist lets through only matches a denied path where it says
\* nothing about the denied segment: a "+", or a bare "*" or what follows one.
AcceptedPatternsNameNothingDenied ==
    pair.chosen /\ ~overlapsDenylist(pair.pattern) /\ MatchPattern(pair.pattern, pair.path) =>
        \A i \in DOMAIN pair.path :
            ToLower(pair.path[i]) \in Denied =>
                /\ i > 1
                /\ \/ i > Len(pair.pattern.parts)
                   \/ pair.pattern.parts[i] = Plus
                   \/ pair.pattern.glob /\ i = Len(pair.pattern.parts) /\ pair.pattern.parts[i] = <<>>

\* A pattern is only refused for the denylist when it matches a denied path:
\* one with a denied segment in place of one of its own, or at the end of it.
RefusedPatternsMatchDenied ==
    pair.chosen /\ overlapsDenylist(pair.pattern) =>
        LET parts == pair.pattern.parts IN
        \E i \in DOMAIN parts, denied \in Denied : \E k \in 1..(Len(denied) + 1) :
        \E segment \in {denied, parts[i] \o SubSeq(denied, k, Len(denied))} :
            LET path == [parts EXCEPT ![i] = segment]
            IN  deniedSegment(path) /\ MatchPattern(pair.pattern, path)

\* MatchPattern is the reference's globbing, and overlapsDenylist refuses a
\* pattern exactly for the denied segments that it names.
PatternsInv == MatchPatternIsGlob /\ AcceptedPatternsNameNothingDenied /\ RefusedPatternsMatchDenied
=============================================================================
