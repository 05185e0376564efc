---------------------------- MODULE Filing_proofs ----------------------------
(***************************************************************************)
(* Filing, for any configuration, token, Permission Item, pattern and path *)
(* over any letters: what a request becomes fits the rules on OpenBao's    *)
(* reading of them, and MatchPattern is that reading.                      *)
(***************************************************************************)
EXTENDS PatternPairs, WellFoundedInduction, SequenceTheorems, TLAPS

-----------------------------------------------------------------------------
(* Induction *)

\* Induction over the natural numbers, for a set instead of an operator.
Smaller == {ss \in Nat \X Nat : ss[1] < ss[2]}
LEMMA SmallerWellFounded == IsWellFoundedOn(Smaller, Nat)
  BY NatLessThanWellFounded, Zenon DEF OpToRel, Smaller
LEMMA LeastNumber ==
    ASSUME NEW T \in SUBSET Nat, T # {}
    PROVE  \E n \in T : \A m \in T : n <= m
  <1>1. PICK n \in T : \A m \in T : <<m, n>> \notin Smaller
    BY SmallerWellFounded, WFMin
  <1>2. ASSUME NEW m \in T PROVE n <= m
    <2>1. <<m, n>> \notin Smaller /\ m \in Nat /\ n \in Nat
      BY <1>1
    <2>2. ~(m < n)
      BY <2>1 DEF Smaller
    <2>3. QED
      BY <2>1, <2>2
  <1>3. QED
    BY <1>2
LEMMA Induction ==
    ASSUME NEW T, 0 \in T, \A n \in Nat : n \in T => n + 1 \in T
    PROVE  Nat \subseteq T
  <1> SUFFICES ASSUME Nat \ T # {} PROVE FALSE
    OBVIOUS
  <1>1. PICK n \in Nat \ T : \A m \in Nat \ T : n <= m
    <2>1. Nat \ T \in SUBSET Nat
      OBVIOUS
    <2>2. QED
      BY <2>1, LeastNumber
  <1>2. n - 1 \in Nat /\ (n - 1) + 1 = n
    BY <1>1
  <1>3. n - 1 \in T
    BY <1>1, <1>2
  <1>4. QED
    BY <1>1, <1>2, <1>3

\* A recursion from 0 to N has a solution.
IsIterated(f, n, S, base, step) ==
    /\ f \in [0..n -> S] /\ f[0] = base
    /\ \A i \in 1..n : f[i] = step[<<i, f[i - 1]>>]
LEMMA IterationExists ==
    ASSUME NEW N \in Nat, NEW S, NEW base \in S, NEW step \in [(1..N) \X S -> S]
    PROVE  \E f : IsIterated(f, N, S, base, step)
  <1> DEFINE T == {n \in Nat : n <= N => \E f : IsIterated(f, n, S, base, step)}
  <1>1. 0 \in T
    <2>1. IsIterated([i \in 0..0 |-> base], 0, S, base, step)
      BY DEF IsIterated
    <2>2. QED
      BY <2>1
  <1>2. ASSUME NEW n \in Nat, n \in T PROVE n + 1 \in T
    <2> SUFFICES ASSUME n + 1 <= N PROVE \E f : IsIterated(f, n + 1, S, base, step)
      OBVIOUS
    <2>1. PICK f : IsIterated(f, n, S, base, step)
      BY <1>2
    <2> DEFINE last == step[<<n + 1, f[n]>>]
               g == [i \in 0..(n + 1) |-> IF i = n + 1 THEN last ELSE f[i]]
    <2>2. f[n] \in S /\ <<n + 1, f[n]>> \in (1..N) \X S
      BY <2>1 DEF IsIterated
    <2>3. last \in S
      BY <2>2
    <2> HIDE DEF last
    <2>4. g \in [0..(n + 1) -> S] /\ g[0] = base
      BY <2>1, <2>3 DEF IsIterated
    <2>5. ASSUME NEW i \in 1..(n + 1) PROVE g[i] = step[<<i, g[i - 1]>>]
      <3>1. CASE i = n + 1
        <4>1. g[n + 1] = last /\ g[n] = f[n] /\ (n + 1) - 1 = n
          OBVIOUS
        <4>2. QED
          BY <3>1, <4>1 DEF last
      <3>2. CASE i # n + 1
        <4>1. i \in 1..n /\ i - 1 \in 0..n /\ i - 1 # n + 1
          BY <3>2
        <4>2. g[i] = f[i] /\ g[i - 1] = f[i - 1]
          BY <4>1
        <4>3. QED
          BY <2>1, <4>1, <4>2 DEF IsIterated
      <3>3. QED
        BY <3>1, <3>2
    <2>6. QED
      BY <2>4, <2>5 DEF IsIterated
  <1>3. QED
    <2>1. Nat \subseteq T
      BY <1>1, <1>2, Induction
    <2>2. QED
      BY <2>1

-----------------------------------------------------------------------------
(* Texts *)

Characters == Letter \cup {"/"}
\* f has the texts of the first segments of a path.
IsText(f, path) ==
    /\ f \in [1..Len(path) -> Seq(Characters)] /\ f[1] = path[1]
    /\ \A n \in 2..Len(path) : f[n] = f[n - 1] \o <<"/">> \o path[n]
\* Where segment n begins.
Begin(f, n) == IF n = 1 THEN 1 ELSE Len(f[n - 1]) + 2

\* Text is such a recursion, and the text of the whole path is its last one.
LEMMA TextIs ==
    ASSUME NEW path \in Paths
    PROVE  \E f : IsText(f, path) /\ Text(path) = f[Len(path)]
  <1> DEFINE L == Len(path)
             S == Seq(Characters)
             step == [x \in (1..L) \X S |-> IF x[1] = 1 THEN path[1] ELSE x[2] \o <<"/">> \o path[x[1]]]
             Solves(f) == f = [n \in 1..L |-> IF n = 1 THEN path[1] ELSE f[n - 1] \o <<"/">> \o path[n]]
  <1>1. L \in Nat /\ L >= 1 /\ path \in Seq(Seq(Letter))
    BY DEF Paths
  <1>2. \A n \in 1..L : path[n] \in S
    <2>1. \A n \in 1..L : path[n] \in Seq(Letter)
      BY <1>1
    <2>2. QED
      BY <2>1, SeqMonotonic DEF Characters
  <1>3. <<>> \in S /\ <<"/">> \in S
    BY DEF Characters
  <1>4. step \in [(1..L) \X S -> S]
    <2> SUFFICES ASSUME NEW x \in (1..L) \X S
                 PROVE  (IF x[1] = 1 THEN path[1] ELSE x[2] \o <<"/">> \o path[x[1]]) \in S
      OBVIOUS
    <2>1. x[1] \in 1..L /\ x[2] \in S /\ path[x[1]] \in S /\ path[1] \in S
      BY <1>1, <1>2
    <2> HIDE DEF S
    <2>2. x[2] \o <<"/">> \in S
      BY <1>3, <2>1, ConcatProperties DEF S
    <2>3. QED
      BY <1>3, <2>1, <2>2, ConcatProperties DEF S
  <1>5. PICK g : IsIterated(g, L, S, <<>>, step)
    <2> HIDE DEF step, S, L
    <2>1. QED
      BY <1>1, <1>3, <1>4, IterationExists
  <1> DEFINE h == [n \in 1..L |-> g[n]]
  <1>6. \A n \in 1..L : h[n] = (IF n = 1 THEN path[1] ELSE h[n - 1] \o <<"/">> \o path[n])
    <2> SUFFICES ASSUME NEW n \in 1..L
                 PROVE  h[n] = (IF n = 1 THEN path[1] ELSE h[n - 1] \o <<"/">> \o path[n])
      OBVIOUS
    <2>1. g[n] = step[<<n, g[n - 1]>>] /\ g[n - 1] \in S
      <3> HIDE DEF step, S, L
      <3>1. n - 1 \in 0..L
        BY <1>1
      <3>2. QED
        BY <1>5, <3>1 DEF IsIterated
    <2>2. <<n, g[n - 1]>> \in (1..L) \X S
      BY <2>1
    <2>3. g[n] = (IF n = 1 THEN path[1] ELSE g[n - 1] \o <<"/">> \o path[n])
      BY <2>1, <2>2
    <2>4. QED
      BY <1>1, <2>3
  <1>7. Solves(h)
    BY <1>6
  <1>8. \E f : Solves(f)
    BY <1>7
  <1> DEFINE f == CHOOSE f : Solves(f)
  <1>9. Solves(f)
    BY <1>8
  <1>10. Text(path) = f[L]
    BY DEF Text
  <1>11. \A n \in 1..L : f[n] = (IF n = 1 THEN path[1] ELSE f[n - 1] \o <<"/">> \o path[n])
    BY <1>9
  <1>12. DOMAIN f = 1..L /\ f = [n \in 1..L |-> f[n]]
    BY <1>9, ZenonT(60)
  <1> HIDE DEF f
  <1>13. \A n \in 1..L : f[n] \in S
    <2> DEFINE T == {n \in Nat : n + 1 \in 1..L => f[n + 1] \in S}
    <2>1. 0 \in T
      BY <1>1, <1>2, <1>11
    <2>2. ASSUME NEW n \in Nat, n \in T PROVE n + 1 \in T
      <3> SUFFICES ASSUME n + 2 \in 1..L PROVE f[n + 2] \in S
        BY <2>2
      <3>0. n + 1 \in 1..L /\ n + 2 \in 1..L /\ n + 2 # 1 /\ (n + 2) - 1 = n + 1
        BY <1>1
      <3>1. f[n + 1] \in S /\ f[n + 2] = f[n + 1] \o <<"/">> \o path[n + 2] /\ path[n + 2] \in S
        <4>1. f[n + 1] \in S
          BY <2>2, <3>0
        <4>2. f[n + 2] = f[n + 1] \o <<"/">> \o path[n + 2]
          <5> HIDE DEF L, T
          <5>1. QED
            BY <1>11, <3>0
        <4>3. QED
          BY <1>2, <3>0, <4>1, <4>2
      <3> HIDE DEF T
      <3>2. f[n + 1] \o <<"/">> \in S
        BY <1>3, <3>1, ConcatProperties
      <3>3. QED
        BY <3>1, <3>2, ConcatProperties
    <2>3. Nat \subseteq T
      <3> HIDE DEF T
      <3>1. QED
        BY <2>1, <2>2, Induction
    <2>4. ASSUME NEW n \in 1..L PROVE f[n] \in S
      <3>1. n - 1 \in T /\ (n - 1) + 1 = n
        <4>1. n - 1 \in Nat /\ (n - 1) + 1 = n
          BY <1>1
        <4> HIDE DEF T
        <4>2. QED
          BY <2>3, <4>1
      <3>2. QED
        BY <3>1
    <2>5. QED
      BY <2>4
  <1>14. IsText(f, path)
    <2> HIDE DEF L, S
    <2>1. 1 \in 1..L /\ \A n \in 2..L : n \in 1..L /\ n # 1
      BY <1>1
    <2>2. f[1] = path[1] /\ \A n \in 2..L : f[n] = f[n - 1] \o <<"/">> \o path[n]
      BY <1>11, <2>1
    <2>3. f \in [1..L -> S]
      BY <1>12, <1>13
    <2>4. QED
      BY <2>2, <2>3 DEF IsText, L, S
  <1>15. QED
    BY <1>10, <1>14

\* A slash between two texts.
IsJoined(t, u, v) ==
    /\ t \in Seq(Characters) /\ Len(t) = Len(u) + 1 + Len(v)
    /\ \A i \in 1..Len(u) : t[i] = u[i]
    /\ t[Len(u) + 1] = "/"
    /\ \A k \in 1..Len(v) : t[Len(u) + 1 + k] = v[k]
\* Concatenation with a slash between is IsJoined.
LEMMA JoinedBySlash ==
    ASSUME NEW u \in Seq(Characters), NEW v \in Seq(Characters)
    PROVE  IsJoined(u \o <<"/">> \o v, u, v)
  <1>1. <<"/">> \in Seq(Characters) /\ Len(<<"/">>) = 1 /\ <<"/">>[1] = "/"
    BY DEF Characters
  <1> DEFINE w == u \o <<"/">>
             t == w \o v
  <1>2. w \in Seq(Characters) /\ Len(w) = Len(u) + 1
    BY <1>1, ConcatProperties
  <1>3. \A i \in 1..Len(u) : w[i] = u[i]
    BY <1>1, ConcatProperties
  <1>4. w[Len(u) + 1] = "/"
    BY <1>1, ConcatProperties
  <1>5. t = w \o v
    OBVIOUS
  <1> HIDE DEF w, t
  <1>6. t \in Seq(Characters) /\ Len(t) = Len(w) + Len(v)
    BY <1>2, <1>5, ConcatProperties
  <1>7. \A i \in 1..Len(w) : t[i] = w[i]
    BY <1>2, <1>5, ConcatProperties
  <1>8. \A k \in 1..Len(v) : t[Len(w) + k] = v[k]
    BY <1>2, <1>5, ConcatProperties
  <1>9. QED
    <2>1. \A i \in 1..Len(u) : t[i] = u[i]
      BY <1>2, <1>3, <1>7
    <2>2. t[Len(u) + 1] = "/"
      BY <1>2, <1>4, <1>7
    <2>3. \A k \in 1..Len(v) : t[Len(u) + 1 + k] = v[k]
      BY <1>2, <1>8
    <2>4. IsJoined(t, u, v)
      BY <1>2, <1>6, <2>1, <2>2, <2>3 DEF IsJoined
    <2>5. QED
      BY <2>4 DEF t, w

\* t is the text of a path whose segments begin at b.
Spells(t, b, path) ==
    /\ t \in Seq(Characters) /\ b \in [1..Len(path) -> Nat \ {0}]
    /\ b[1] = 1 /\ \A n \in 1..(Len(path) - 1) : b[n + 1] = b[n] + Len(path[n]) + 1
    /\ Len(t) + 1 = b[Len(path)] + Len(path[Len(path)])
    /\ \A n \in 1..Len(path) : b[n] + Len(path[n]) <= Len(t) + 1
    /\ \A n \in 1..Len(path) : \A k \in 1..Len(path[n]) : t[b[n] + k - 1] = path[n][k]
    /\ \A n \in 1..(Len(path) - 1) : t[b[n] + Len(path[n])] = "/"
SpellsTo(f, m, path) ==
    LET t == f[m] IN
    /\ t \in Seq(Characters)
    /\ Len(t) + 1 = Begin(f, m) + Len(path[m])
    /\ \A n \in 1..m : Begin(f, n) \in Nat \ {0} /\ Begin(f, n) + Len(path[n]) <= Len(t) + 1
    /\ \A n \in 1..(m - 1) : Begin(f, n) + Len(path[n]) <= Len(t)
    /\ \A n \in 1..m : \A k \in 1..Len(path[n]) : t[Begin(f, n) + k - 1] = path[n][k]
    /\ \A n \in 1..(m - 1) : t[Begin(f, n) + Len(path[n])] = "/"

\* One more segment keeps every letter at its place (Text).
LEMMA TextGoesOn ==
    ASSUME NEW path \in Paths, NEW f, IsText(f, path), NEW m \in 1..(Len(path) - 1), SpellsTo(f, m, path)
    PROVE  SpellsTo(f, m + 1, path)
  <1> DEFINE u == f[m]
             v == path[m + 1]
             t == f[m + 1]
  <1>1. Len(path) \in Nat /\ m + 1 \in 2..Len(path) /\ (m + 1) - 1 = m /\ m \in 1..Len(path) /\ m + 1 # 1
    BY DEF Paths
  <1>2. u \in Seq(Characters) /\ t = u \o <<"/">> \o v
    BY <1>1 DEF IsText
  <1>3. \A n \in 1..Len(path) : path[n] \in Seq(Letter) /\ path[n] \in Seq(Characters) /\ Len(path[n]) \in Nat
    BY SeqMonotonic DEF Paths, Characters
  <1>4. v \in Seq(Characters) /\ Len(v) \in Nat /\ Len(u) \in Nat
    BY <1>1, <1>2, <1>3
  <1>5. Begin(f, m + 1) = Len(u) + 2
    BY <1>1 DEF Begin
  <1> HIDE DEF u, v, t
  <1>6. /\ t \in Seq(Characters) /\ Len(t) = Len(u) + 1 + Len(v)
        /\ \A i \in 1..Len(u) : t[i] = u[i]
        /\ t[Len(u) + 1] = "/"
        /\ \A k \in 1..Len(v) : t[Len(u) + 1 + k] = v[k]
    <2>1. IsJoined(t, u, v)
      BY <1>2, <1>4, JoinedBySlash
    <2>2. QED
      BY <2>1 DEF IsJoined
  <1>7. /\ Len(u) + 1 = Begin(f, m) + Len(path[m])
        /\ \A n \in 1..m : Begin(f, n) \in Nat \ {0} /\ Begin(f, n) + Len(path[n]) <= Len(u) + 1
        /\ \A n \in 1..(m - 1) : Begin(f, n) + Len(path[n]) <= Len(u)
        /\ \A n \in 1..m : \A k \in 1..Len(path[n]) : u[Begin(f, n) + k - 1] = path[n][k]
        /\ \A n \in 1..(m - 1) : u[Begin(f, n) + Len(path[n])] = "/"
    BY DEF SpellsTo, u
  <1>8. Len(t) + 1 = Begin(f, m + 1) + Len(path[m + 1])
    <2>1. path[m + 1] = v
      BY DEF v
    <2>2. QED
      BY <1>4, <1>5, <1>6, <2>1
  <1>9. \A n \in 1..(m + 1) : Begin(f, n) \in Nat \ {0} /\ Begin(f, n) + Len(path[n]) <= Len(t) + 1
    <2> SUFFICES ASSUME NEW n \in 1..(m + 1)
                 PROVE  Begin(f, n) \in Nat \ {0} /\ Begin(f, n) + Len(path[n]) <= Len(t) + 1
      OBVIOUS
    <2>1. CASE n = m + 1
      BY <1>4, <1>5, <1>8, <1>6, <2>1
    <2>2. CASE n # m + 1
      <3>1. n \in 1..m /\ Len(path[n]) \in Nat
        BY <1>1, <1>3, <2>2
      <3>2. Begin(f, n) \in Nat \ {0} /\ Begin(f, n) + Len(path[n]) <= Len(u) + 1
        BY <1>7, <3>1
      <3>3. QED
        BY <1>4, <1>6, <3>1, <3>2
    <2>3. QED
      BY <2>1, <2>2
  <1>10. \A n \in 1..m : Begin(f, n) + Len(path[n]) <= Len(t)
    BY <1>1, <1>3, <1>4, <1>6, <1>7, SMTT(30)
  <1>11. ASSUME NEW n \in 1..(m + 1), NEW k \in 1..Len(path[n]) PROVE t[Begin(f, n) + k - 1] = path[n][k]
    <2>1. CASE n = m + 1
      <3>1. Begin(f, n) + k - 1 = Len(u) + 1 + k /\ k \in 1..Len(v)
        BY <1>4, <1>5, <2>1 DEF v
      <3>2. QED
        BY <1>6, <2>1, <3>1 DEF v
    <2>2. CASE n # m + 1
      <3>1. n \in 1..m /\ Len(path[n]) \in Nat
        BY <1>1, <1>3, <2>2
      <3>2. Begin(f, n) + k - 1 \in 1..Len(u)
        <4>1. Begin(f, n) \in Nat \ {0} /\ Begin(f, n) + Len(path[n]) <= Len(u) + 1
          BY <1>7, <3>1
        <4>2. QED
          BY <1>4, <3>1, <4>1, SMTT(30)
      <3>3. QED
        BY <1>6, <1>7, <3>1, <3>2
    <2>3. QED
      BY <2>1, <2>2
  <1>12. ASSUME NEW n \in 1..m PROVE t[Begin(f, n) + Len(path[n])] = "/"
    <2>1. CASE n = m
      BY <1>6, <1>7, <2>1
    <2>2. CASE n # m
      <3>1. n \in 1..(m - 1) /\ n \in 1..m /\ Len(path[n]) \in Nat
        BY <1>1, <1>3, <2>2
      <3>2. Begin(f, n) + Len(path[n]) \in 1..Len(u)
        BY <1>4, <1>7, <3>1
      <3>3. QED
        BY <1>6, <1>7, <3>1, <3>2
    <2>3. QED
      BY <2>1, <2>2
  <1>13. QED
    BY <1>1, <1>6, <1>8, <1>9, <1>10, <1>11, <1>12 DEF SpellsTo, t

\* The letters of a path's text.
LEMMA TextSpells ==
    ASSUME NEW path \in Paths PROVE \E b : Spells(Text(path), b, path)
  <1>1. PICK f : IsText(f, path) /\ Text(path) = f[Len(path)]
    BY TextIs
  <1>2. Len(path) \in Nat /\ Len(path) >= 1 /\ \A n \in 1..Len(path) : path[n] \in Seq(Letter) /\ Len(path[n]) \in Nat
    BY DEF Paths
  <1> DEFINE T == {m \in Nat : m + 1 <= Len(path) => SpellsTo(f, m + 1, path)}
  <1>3. 0 \in T
    <2>1. f[1] = path[1] /\ f[1] \in Seq(Characters)
      BY <1>1, <1>2 DEF IsText
    <2>2. SpellsTo(f, 1, path)
      BY <1>2, <2>1 DEF SpellsTo, Begin
    <2>3. QED
      BY <2>2
  <1>4. ASSUME NEW m \in Nat, m \in T PROVE m + 1 \in T
    <2> SUFFICES ASSUME (m + 1) + 1 <= Len(path) PROVE SpellsTo(f, (m + 1) + 1, path)
      BY <1>4
    <2>1. m + 1 \in 1..(Len(path) - 1) /\ SpellsTo(f, m + 1, path)
      BY <1>2, <1>4
    <2> HIDE DEF T
    <2>2. QED
      BY <1>1, <2>1, TextGoesOn
  <1>5. SpellsTo(f, Len(path), path)
    <2>1. Nat \subseteq T
      <3> HIDE DEF T
      <3>1. QED
        BY <1>3, <1>4, Induction
    <2>2. Len(path) - 1 \in Nat /\ (Len(path) - 1) + 1 = Len(path)
      BY <1>2
    <2>3. QED
      BY <2>1, <2>2
  <1> DEFINE b == [n \in 1..Len(path) |-> Begin(f, n)]
  <1>6. \A n \in 1..(Len(path) - 1) : Begin(f, n + 1) = Begin(f, n) + Len(path[n]) + 1
    <2> SUFFICES ASSUME NEW n \in 1..(Len(path) - 1) PROVE Begin(f, n + 1) = Begin(f, n) + Len(path[n]) + 1
      OBVIOUS
    <2>1. SpellsTo(f, n, path)
      <3>1. Nat \subseteq T
        <4> HIDE DEF T
        <4>1. QED
          BY <1>3, <1>4, Induction
      <3>2. n - 1 \in Nat /\ (n - 1) + 1 = n /\ n <= Len(path)
        BY <1>2
      <3>3. QED
        BY <3>1, <3>2
    <2>2. Len(f[n]) + 1 = Begin(f, n) + Len(path[n]) /\ Begin(f, n + 1) = Len(f[n]) + 2 /\ Len(f[n]) \in Nat
      <3>1. Begin(f, n + 1) = Len(f[n]) + 2
        <4>1. n + 1 # 1 /\ (n + 1) - 1 = n
          OBVIOUS
        <4>2. QED
          BY <4>1 DEF Begin
      <3>2. f[n] \in Seq(Characters) /\ Len(f[n]) + 1 = Begin(f, n) + Len(path[n])
        BY <2>1 DEF SpellsTo
      <3>3. QED
        BY <3>1, <3>2
    <2>3. QED
      BY <2>2
  <1>7. Spells(Text(path), b, path)
    <2>1. /\ f[Len(path)] \in Seq(Characters)
          /\ Len(f[Len(path)]) + 1 = Begin(f, Len(path)) + Len(path[Len(path)])
          /\ \A n \in 1..Len(path) : Begin(f, n) \in Nat \ {0} /\ Begin(f, n) + Len(path[n]) <= Len(f[Len(path)]) + 1
          /\ \A n \in 1..Len(path) : \A k \in 1..Len(path[n]) : f[Len(path)][Begin(f, n) + k - 1] = path[n][k]
          /\ \A n \in 1..(Len(path) - 1) : f[Len(path)][Begin(f, n) + Len(path[n])] = "/"
      BY <1>5 DEF SpellsTo
    <2>2. \A n \in 1..Len(path) : b[n] = Begin(f, n)
      OBVIOUS
    <2>3. b \in [1..Len(path) -> Nat \ {0}] /\ b[1] = 1
      BY <1>2, <2>1 DEF Begin
    <2>4. \A n \in 1..(Len(path) - 1) : n \in 1..Len(path) /\ n + 1 \in 1..Len(path)
      BY <1>2
    <2>5. Len(path) \in 1..Len(path)
      BY <1>2
    <2> HIDE DEF b
    <2>6. QED
      BY <1>1, <1>6, <2>1, <2>2, <2>3, <2>4, <2>5, ZenonT(60) DEF Spells
  <1>8. QED
    BY <1>7

-----------------------------------------------------------------------------
(* Globs *)

Signs == Characters \cup {"*"}
\* The places of t from where a letter of a pattern matches, when what follows
\* it does from rest.
Places(ch, rest, t) ==
    CASE ch = "*" -> 1..(Len(t) + 1)
      [] ch = "+" -> {j \in 1..(Len(t) + 1) : \E k \in rest : j <= k /\ \A l \in j..(k - 1) : t[l] # "/"}
      [] OTHER -> {j \in 1..Len(t) : t[j] = ch /\ j + 1 \in rest}
\* From r[i] on, t matches p from its letter i on.
IsMatched(r, p, t) ==
    /\ r \in [1..(Len(p) + 1) -> SUBSET (1..(Len(t) + 1))]
    /\ r[Len(p) + 1] = {Len(t) + 1}
    /\ \A i \in 1..Len(p) : r[i] = Places(p[i], r[i + 1], t)

\* TextMatches has the places of each of its suffixes.
LEMMA MatchedExists ==
    ASSUME NEW p \in Seq(Signs), NEW t \in Seq(Characters)
    PROVE  \E r : IsMatched(r, p, t) /\ (TextMatches(p, t) <=> 1 \in r[1])
  <1> DEFINE N == Len(p)
             S == SUBSET (1..(Len(t) + 1))
             base == {Len(t) + 1}
             step == [x \in (1..N) \X S |-> Places(p[N + 1 - x[1]], x[2], t)]
             Solves(f) == f = [n \in 0..N |-> IF n = 0 THEN base ELSE Places(p[N + 1 - n], f[n - 1], t)]
  <1>1. N \in Nat /\ Len(t) \in Nat /\ base \in S
    OBVIOUS
  <1>2. \A ch, rest : Places(ch, rest, t) \in S
    BY <1>1 DEF Places
  <1>3. step \in [(1..N) \X S -> S]
    <2> HIDE DEF S
    <2>1. QED
      BY <1>2
  <1>4. PICK g : IsIterated(g, N, S, base, step)
    <2> HIDE DEF step, S, N, base
    <2>1. QED
      BY <1>1, <1>3, IterationExists
  <1>5. \A n \in 1..N : g[n] = Places(p[N + 1 - n], g[n - 1], t) /\ g[n - 1] \in S
    <2> SUFFICES ASSUME NEW n \in 1..N PROVE g[n] = Places(p[N + 1 - n], g[n - 1], t) /\ g[n - 1] \in S
      OBVIOUS
    <2>1. g[n] = step[<<n, g[n - 1]>>] /\ g[n - 1] \in S
      <3> HIDE DEF step, S, N
      <3>1. n - 1 \in 0..N
        BY <1>1
      <3>2. QED
        BY <1>4, <3>1 DEF IsIterated
    <2> HIDE DEF S
    <2>2. <<n, g[n - 1]>> \in (1..N) \X S
      BY <2>1
    <2>3. QED
      BY <2>1, <2>2
  <1>6. g \in [0..N -> S] /\ g[0] = base
    <2> HIDE DEF S, N, base, step
    <2>1. QED
      BY <1>4 DEF IsIterated
  <1>7. Solves(g)
    <2> HIDE DEF S, base
    <2>1. \A n \in 0..N : n # 0 => n \in 1..N
      BY <1>1
    <2>2. QED
      BY <1>5, <1>6, <2>1
  <1> DEFINE f == CHOOSE f : Solves(f)
  <1>8. Solves(f)
    BY <1>7
  <1> HIDE DEF f
  <1> DEFINE r == [i \in 1..(N + 1) |-> f[N + 1 - i]]
  <1>9. f[0] = base /\ \A n \in 1..N : f[n] = Places(p[N + 1 - n], f[n - 1], t)
    <2>1. \A n \in 0..N : f[n] = (IF n = 0 THEN base ELSE Places(p[N + 1 - n], f[n - 1], t))
      <3> HIDE DEF base, N
      <3>1. QED
        BY <1>8
    <2>2. 0 \in 0..N /\ \A n \in 1..N : n \in 0..N /\ n # 0
      BY <1>1
    <2> HIDE DEF base, N
    <2>3. QED
      BY <2>1, <2>2
  <1>10. \A n \in 0..N : f[n] \in S
    BY <1>1, <1>2, <1>8
  <1> HIDE DEF S
  <1>11. r \in [1..(N + 1) -> S]
    <2>1. \A i \in 1..(N + 1) : N + 1 - i \in 0..N
      BY <1>1
    <2>2. QED
      BY <1>10, <2>1
  <1>12. r[N + 1] = base /\ r[1] = f[N]
    BY <1>1, <1>9
  <1>13. ASSUME NEW i \in 1..N PROVE r[i] = Places(p[i], r[i + 1], t)
    <2>1. /\ N + 1 - i \in 1..N /\ N + 1 - (N + 1 - i) = i /\ (N + 1 - i) - 1 = N + 1 - (i + 1)
          /\ i \in 1..(N + 1) /\ i + 1 \in 1..(N + 1)
      BY <1>1
    <2>2. f[N + 1 - i] = Places(p[N + 1 - (N + 1 - i)], f[(N + 1 - i) - 1], t)
      BY <1>9, <2>1
    <2>3. r[i] = f[N + 1 - i] /\ r[i + 1] = f[N + 1 - (i + 1)]
      BY <2>1
    <2>4. QED
      BY <2>1, <2>2, <2>3
  <1>14. IsMatched(r, p, t)
    BY <1>11, <1>12, <1>13 DEF IsMatched, S
  <1>15. TextMatches(p, t) <=> 1 \in f[N]
    BY DEF TextMatches, f, Places
  <1>16. QED
    BY <1>12, <1>14, <1>15

\* GlobMatches has them, of the pattern's text in the path's.
LEMMA GlobIs ==
    ASSUME NEW pattern \in Patterns, NEW path \in Paths
    PROVE  /\ PatternText(pattern) \in Seq(Signs) /\ Text(path) \in Seq(Characters)
           /\ \E r : /\ IsMatched(r, PatternText(pattern), Text(path))
                     /\ GlobMatches(pattern, path) <=> 1 \in r[1]
  <1>1. Text(path) \in Seq(Characters) /\ Text(pattern.parts) \in Seq(Characters)
    BY TextSpells DEF Spells, Patterns
  <1>2. Text(pattern.parts) \in Seq(Signs) /\ <<"*">> \in Seq(Signs) /\ <<>> \in Seq(Signs)
    BY <1>1, SeqMonotonic DEF Signs
  <1>3. PatternText(pattern) \in Seq(Signs)
    <2>1. (IF pattern.glob THEN <<"*">> ELSE <<>>) \in Seq(Signs)
      BY <1>2
    <2>2. QED
      BY <1>2, <2>1, ConcatProperties DEF PatternText
  <1>4. QED
    BY <1>1, <1>3, MatchedExists DEF GlobMatches

-----------------------------------------------------------------------------
(* MatchPattern is OpenBao's reading of a pattern *)

\* p is the text of a pattern whose segments begin at b.
PatternSpells(p, b, pattern) ==
    LET parts == pattern.parts
        last == Len(parts)
    IN  /\ p \in Seq(Signs) /\ b \in [1..last -> Nat \ {0}]
        /\ b[1] = 1 /\ \A n \in 1..(last - 1) : b[n + 1] = b[n] + Len(parts[n]) + 1
        /\ \A n \in 1..last : b[n] + Len(parts[n]) <= Len(p) + 1
        /\ \A n \in 1..last : \A k \in 1..Len(parts[n]) : p[b[n] + k - 1] = parts[n][k]
        /\ \A n \in 1..(last - 1) : b[n] + Len(parts[n]) <= Len(p) /\ p[b[n] + Len(parts[n])] = "/"
        /\ b[last] + Len(parts[last]) = IF pattern.glob THEN Len(p) ELSE Len(p) + 1
        /\ pattern.glob => p[Len(p)] = "*"
\* r has the matches of the pattern, read as p, in the path, read as t.
Reads(p, t, r, b, c, pattern, path) ==
    /\ pattern \in Patterns /\ path \in Paths
    /\ PatternSpells(p, b, pattern) /\ Spells(t, c, path) /\ IsMatched(r, p, t)
IsLiteral(segment) == Letters(segment) \cap {"*", "+"} = {}

\* A pattern's text spells its segments, with the final star of a glob after them.
LEMMA PatternTextSpells ==
    ASSUME NEW pattern \in Patterns PROVE \E b : PatternSpells(PatternText(pattern), b, pattern)
  <1> DEFINE parts == pattern.parts
             u == Text(parts)
             star == IF pattern.glob THEN <<"*">> ELSE <<>>
             p == u \o star
  <1>1. parts \in Paths /\ pattern.glob \in BOOLEAN
    BY DEF Patterns
  <1>2. PICK b : Spells(u, b, parts)
    BY <1>1, TextSpells
  <1>3. Len(parts) \in Nat /\ Len(parts) >= 1 /\ \A n \in 1..Len(parts) : parts[n] \in Seq(Letter) /\ Len(parts[n]) \in Nat
    BY <1>1 DEF Paths
  <1>4. u \in Seq(Signs) /\ star \in Seq(Signs) /\ Len(u) \in Nat
        /\ Len(star) = (IF pattern.glob THEN 1 ELSE 0) /\ (pattern.glob => star[1] = "*")
    <2>1. u \in Seq(Signs)
      BY <1>2, SeqMonotonic DEF Spells, Signs
    <2>2. <<"*">> \in Seq(Signs) /\ <<>> \in Seq(Signs) /\ Len(<<"*">>) = 1 /\ Len(<<>>) = 0 /\ <<"*">>[1] = "*"
      BY DEF Signs
    <2>3. QED
      BY <2>1, <2>2
  <1>5. PatternText(pattern) = p
    BY DEF PatternText
  <1> HIDE DEF u, star
  <1>6. p \in Seq(Signs) /\ Len(p) = Len(u) + Len(star) /\ \A i \in 1..Len(u) : p[i] = u[i]
    BY <1>4, ConcatProperties
  <1>7. pattern.glob => p[Len(p)] = "*"
    <2>1. pattern.glob => p[Len(u) + 1] = star[1]
      BY <1>4, ConcatProperties
    <2>2. QED
      BY <1>4, <1>6, <2>1
  <1> HIDE DEF p, parts
  <1>8. /\ b \in [1..Len(parts) -> Nat \ {0}] /\ b[1] = 1
        /\ \A n \in 1..(Len(parts) - 1) : b[n + 1] = b[n] + Len(parts[n]) + 1
        /\ Len(u) + 1 = b[Len(parts)] + Len(parts[Len(parts)])
        /\ \A n \in 1..Len(parts) : b[n] + Len(parts[n]) <= Len(u) + 1
        /\ \A n \in 1..Len(parts) : \A k \in 1..Len(parts[n]) : u[b[n] + k - 1] = parts[n][k]
        /\ \A n \in 1..(Len(parts) - 1) : u[b[n] + Len(parts[n])] = "/"
    BY <1>2 DEF Spells
  <1>9. \A n \in 1..Len(parts) : b[n] + Len(parts[n]) <= Len(p) + 1
    <2> SUFFICES ASSUME NEW n \in 1..Len(parts) PROVE b[n] + Len(parts[n]) <= Len(p) + 1
      OBVIOUS
    <2>1. b[n] \in Nat \ {0} /\ Len(parts[n]) \in Nat /\ b[n] + Len(parts[n]) <= Len(u) + 1
      BY <1>3, <1>8
    <2>2. Len(p) \in Nat /\ Len(u) <= Len(p)
      BY <1>4, <1>6
    <2>3. QED
      BY <1>4, <2>1, <2>2
  <1>10. ASSUME NEW n \in 1..Len(parts), NEW k \in 1..Len(parts[n]) PROVE p[b[n] + k - 1] = parts[n][k]
    <2>1. b[n] \in Nat \ {0} /\ Len(parts[n]) \in Nat /\ b[n] + Len(parts[n]) <= Len(u) + 1
      BY <1>3, <1>8
    <2>2. b[n] + k - 1 \in 1..Len(u)
      BY <1>4, <2>1, SMTT(30)
    <2>3. QED
      BY <1>6, <1>8, <2>2
  <1>11. ASSUME NEW n \in 1..(Len(parts) - 1)
         PROVE  b[n] + Len(parts[n]) <= Len(p) /\ p[b[n] + Len(parts[n])] = "/"
    <2>1. n \in 1..Len(parts) /\ n + 1 \in 1..Len(parts)
      BY <1>3
    <2>2. /\ b[n] \in Nat \ {0} /\ Len(parts[n]) \in Nat /\ b[n + 1] = b[n] + Len(parts[n]) + 1
          /\ b[n + 1] + Len(parts[n + 1]) <= Len(u) + 1 /\ Len(parts[n + 1]) \in Nat
      BY <1>3, <1>8, <2>1
    <2>3. b[n] + Len(parts[n]) \in 1..Len(u)
      BY <1>4, <2>2, SMTT(30)
    <2>4. Len(p) \in Nat /\ Len(u) <= Len(p)
      BY <1>4, <1>6
    <2>5. p[b[n] + Len(parts[n])] = u[b[n] + Len(parts[n])]
      BY <1>6, <2>3
    <2>6. b[n] + Len(parts[n]) <= Len(p)
      BY <1>4, <2>3, <2>4
    <2>7. QED
      BY <1>8, <2>5, <2>6
  <1>12. b[Len(parts)] + Len(parts[Len(parts)]) = IF pattern.glob THEN Len(p) ELSE Len(p) + 1
    BY <1>4, <1>6, <1>8
  <1>13. PatternSpells(p, b, pattern)
    BY <1>6, <1>7, <1>8, <1>9, <1>10, <1>11, <1>12 DEF PatternSpells, parts
  <1>14. QED
    BY <1>5, <1>13 DEF p

\* The N letters of the pattern from i on match themselves in the text at j.
RunMatches(p, t, r, i, N, j) ==
    j \in r[i] <=> /\ j + N <= Len(t) + 1 /\ j + N \in r[i + N]
                   /\ \A k \in 0..(N - 1) : t[j + k] = p[i + k]
\* Letters other than "+" and "*" do.
LEMMA RunsMatch ==
    ASSUME NEW p \in Seq(Signs), NEW t \in Seq(Characters), NEW r, IsMatched(r, p, t),
           NEW i \in Nat \ {0}, NEW N \in Nat, i + N <= Len(p) + 1,
           \A k \in 0..(N - 1) : p[i + k] \notin {"*", "+"}, NEW j \in 1..(Len(t) + 1)
    PROVE  RunMatches(p, t, r, i, N, j)
  <1> DEFINE Holds(L) == j \in r[i] <=> /\ j + L <= Len(t) + 1 /\ j + L \in r[i + L]
                                        /\ \A k \in 0..(L - 1) : t[j + k] = p[i + k]
             T == {L \in Nat : L <= N => Holds(L)}
  <1>1. Len(p) \in Nat /\ Len(t) \in Nat
    OBVIOUS
  <1>2. 0 \in T
    <2>1. i + 0 = i /\ j + 0 = j /\ j <= Len(t) + 1 /\ 0..(0 - 1) = {}
      BY <1>1
    <2>2. Holds(0)
      BY <2>1
    <2>3. QED
      BY <2>2
  <1>3. ASSUME NEW L \in Nat, L \in T PROVE L + 1 \in T
    <2> SUFFICES ASSUME L + 1 <= N PROVE Holds(L + 1)
      <3> HIDE DEF Holds
      <3>1. QED
        OBVIOUS
    <2>1. j \in r[i] <=> /\ j + L <= Len(t) + 1 /\ j + L \in r[i + L]
                         /\ \A k \in 0..(L - 1) : t[j + k] = p[i + k]
      <3>1. L <= N
        OBVIOUS
      <3>2. L <= N => Holds(L)
        <4> HIDE DEF Holds
        <4>1. QED
          BY <1>3
      <3>3. QED
        BY <3>1, <3>2
    <2>2. i + L \in 1..Len(p) /\ L \in 0..(N - 1) /\ (i + L) + 1 = i + (L + 1) /\ (j + L) + 1 = j + (L + 1)
      BY <1>1
    <2>3. r[i + L] = Places(p[i + L], r[i + (L + 1)], t) /\ p[i + L] \notin {"*", "+"}
      BY <2>2 DEF IsMatched
    <2>4. r[i + L] = {m \in 1..Len(t) : t[m] = p[i + L] /\ m + 1 \in r[i + (L + 1)]}
      BY <2>3 DEF Places
    <2>5. j + L \in r[i + L] <=> j + L \in 1..Len(t) /\ t[j + L] = p[i + L] /\ j + (L + 1) \in r[i + (L + 1)]
      BY <2>2, <2>4
    <2>6. j + L \in 1..Len(t) <=> j + (L + 1) <= Len(t) + 1
      BY <1>1
    <2>7. 0..((L + 1) - 1) = (0..(L - 1)) \cup {L}
      OBVIOUS
    <2>8. (\A k \in 0..((L + 1) - 1) : t[j + k] = p[i + k])
             <=> (\A k \in 0..(L - 1) : t[j + k] = p[i + k]) /\ t[j + L] = p[i + L]
      BY <2>7
    <2>9. j + (L + 1) <= Len(t) + 1 => j + L <= Len(t) + 1
      BY <1>1
    <2>10. QED
      BY <2>1, <2>5, <2>6, <2>8, <2>9
  <1>4. N \in T
    <2> HIDE DEF T
    <2>1. QED
      BY <1>2, <1>3, Induction
  <1>5. QED
    BY <1>4 DEF RunMatches

\* No letter of a segment is a slash.
LEMMA NoSlashInside ==
    ASSUME NEW path \in Paths, NEW t, NEW c, Spells(t, c, path), NEW n \in 1..Len(path),
           NEW l \in Nat, c[n] <= l, l < c[n] + Len(path[n])
    PROVE  t[l] # "/"
  <1>1. Len(path[n]) \in Nat /\ c[n] \in Nat \ {0}
    <2>1. path[n] \in Seq(Letter)
      BY DEF Paths
    <2>2. c[n] \in Nat \ {0}
      BY DEF Spells
    <2>3. QED
      BY <2>1, <2>2
  <1> DEFINE m == l - c[n] + 1
  <1>2. m \in 1..Len(path[n]) /\ c[n] + m - 1 = l
    <2>1. \A i, j, k \in Nat : i <= j /\ j < i + k => (j - i) + 1 \in 1..k /\ i + ((j - i) + 1) - 1 = j
      OBVIOUS
    <2>2. QED
      BY <1>1, <2>1
  <1> HIDE DEF m
  <1>3. t[l] = path[n][m]
    BY <1>2 DEF Spells
  <1>4. path[n][m] \in Letter
    <2>1. path[n] \in Seq(Letter)
      BY DEF Paths
    <2>2. QED
      BY <1>2, <2>1
  <1>5. QED
    BY <1>3, <1>4, RulesAssumption

\* So the first slash from where a segment begins is at its end.
LEMMA FirstSlash ==
    ASSUME NEW path \in Paths, NEW t, NEW c, Spells(t, c, path), NEW n \in 1..Len(path),
           NEW k \in Nat, c[n] <= k, k <= Len(t) + 1, \A l \in c[n]..(k - 1) : t[l] # "/",
           k = Len(t) + 1 \/ t[k] = "/"
    PROVE  k = c[n] + Len(path[n]) /\ (k = Len(t) + 1 <=> n = Len(path))
  <1>1. Len(path) \in Nat /\ Len(path[n]) \in Nat /\ Len(t) \in Nat /\ c[n] \in Nat \ {0}
    BY DEF Paths, Spells
  <1>2. ASSUME NEW l \in Nat, c[n] <= l, l < c[n] + Len(path[n]) PROVE t[l] # "/"
    BY <1>2, NoSlashInside
  <1>3. c[n] + Len(path[n]) <= Len(t) + 1
    BY DEF Spells
  <1>4. k >= c[n] + Len(path[n])
    BY <1>1, <1>2, <1>3
  <1>5. CASE n = Len(path)
    BY <1>1, <1>4, <1>5 DEF Spells
  <1>6. CASE n # Len(path)
    <2>1. n \in 1..(Len(path) - 1)
      BY <1>1, <1>6
    <2>2. t[c[n] + Len(path[n])] = "/"
      BY <2>1 DEF Spells
    <2>3. k = c[n] + Len(path[n])
      BY <1>1, <1>4, <2>2
    <2>4. n + 1 \in 1..Len(path) /\ c[n + 1] = c[n] + Len(path[n]) + 1 /\ Len(path[n + 1]) \in Nat
          /\ c[n + 1] + Len(path[n + 1]) <= Len(t) + 1
      BY <1>1, <2>1 DEF Spells, Paths
    <2>5. QED
      BY <1>1, <1>6, <2>3, <2>4
  <1>7. QED
    BY <1>5, <1>6

\* The text spells the segment from a place on.
SpellsAt(text, at, segment) == \A k \in 0..(Len(segment) - 1) : text[at + k] = segment[k + 1]
\* What Reads says of one segment of the pattern and one of the path.
LEMMA ReadsSegments ==
    ASSUME NEW p, NEW t, NEW r, NEW b, NEW c, NEW pattern, NEW path, Reads(p, t, r, b, c, pattern, path),
           NEW n \in 1..Len(pattern.parts), n \in 1..Len(path)
    PROVE  /\ Len(pattern.parts) \in Nat /\ Len(path) \in Nat /\ Len(p) \in Nat /\ Len(t) \in Nat
           /\ p \in Seq(Signs) /\ t \in Seq(Characters) /\ IsMatched(r, p, t) /\ Spells(t, c, path) /\ path \in Paths
           /\ pattern.parts[n] \in Seq(Letter) /\ Len(pattern.parts[n]) \in Nat
           /\ path[n] \in Seq(Letter) /\ Len(path[n]) \in Nat
           /\ b[n] \in Nat \ {0} /\ c[n] \in Nat \ {0} /\ c[n] \in 1..(Len(t) + 1)
           /\ b[n] + Len(pattern.parts[n]) <= Len(p) + 1 /\ c[n] + Len(path[n]) <= Len(t) + 1
           /\ SpellsAt(p, b[n], pattern.parts[n]) /\ SpellsAt(t, c[n], path[n])
           /\ n < Len(pattern.parts) =>
                 /\ b[n] + Len(pattern.parts[n]) <= Len(p) /\ p[b[n] + Len(pattern.parts[n])] = "/"
                 /\ b[n + 1] = b[n] + Len(pattern.parts[n]) + 1
           /\ n < Len(path) =>
                 /\ c[n] + Len(path[n]) <= Len(t) /\ t[c[n] + Len(path[n])] = "/"
                 /\ c[n + 1] = c[n] + Len(path[n]) + 1
  <1>1. pattern \in Patterns /\ path \in Paths /\ PatternSpells(p, b, pattern) /\ Spells(t, c, path) /\ IsMatched(r, p, t)
    BY DEF Reads
  <1>2. Len(pattern.parts) \in Nat /\ Len(path) \in Nat /\ Len(p) \in Nat /\ Len(t) \in Nat
        /\ p \in Seq(Signs) /\ t \in Seq(Characters)
    BY <1>1 DEF Patterns, Paths, PatternSpells, Spells
  <1>3. pattern.parts[n] \in Seq(Letter) /\ Len(pattern.parts[n]) \in Nat /\ path[n] \in Seq(Letter) /\ Len(path[n]) \in Nat
    BY <1>1 DEF Patterns, Paths
  <1>4. b[n] \in Nat \ {0} /\ b[n] + Len(pattern.parts[n]) <= Len(p) + 1
    BY <1>1 DEF PatternSpells
  <1>5. c[n] \in Nat \ {0} /\ c[n] + Len(path[n]) <= Len(t) + 1
    BY <1>1 DEF Spells
  <1>6. c[n] \in 1..(Len(t) + 1)
    BY <1>2, <1>3, <1>5
  <1>7. ASSUME NEW k \in 0..(Len(pattern.parts[n]) - 1) PROVE p[b[n] + k] = pattern.parts[n][k + 1]
    <2>1. k + 1 \in 1..Len(pattern.parts[n]) /\ b[n] + (k + 1) - 1 = b[n] + k
      BY <1>3, <1>4, SMTT(30)
    <2>2. p[b[n] + (k + 1) - 1] = pattern.parts[n][k + 1]
      BY <1>1, <2>1 DEF PatternSpells
    <2>3. QED
      BY <2>1, <2>2
  <1>8. ASSUME NEW k \in 0..(Len(path[n]) - 1) PROVE t[c[n] + k] = path[n][k + 1]
    <2>1. k + 1 \in 1..Len(path[n]) /\ c[n] + (k + 1) - 1 = c[n] + k
      BY <1>3, <1>5
    <2>2. t[c[n] + (k + 1) - 1] = path[n][k + 1]
      BY <1>1, <2>1 DEF Spells
    <2>3. QED
      BY <2>1, <2>2
  <1>9. ASSUME n < Len(pattern.parts)
        PROVE  /\ b[n] + Len(pattern.parts[n]) <= Len(p) /\ p[b[n] + Len(pattern.parts[n])] = "/"
               /\ b[n + 1] = b[n] + Len(pattern.parts[n]) + 1
    <2>1. n \in 1..(Len(pattern.parts) - 1)
      BY <1>2, <1>9
    <2>2. QED
      BY <1>1, <2>1 DEF PatternSpells
  <1>10. ASSUME n < Len(path)
         PROVE  /\ c[n] + Len(path[n]) <= Len(t) /\ t[c[n] + Len(path[n])] = "/"
                /\ c[n + 1] = c[n] + Len(path[n]) + 1
    <2>1. n \in 1..(Len(path) - 1) /\ n + 1 \in 1..Len(path)
      BY <1>2, <1>10
    <2>2. /\ t[c[n] + Len(path[n])] = "/" /\ c[n + 1] = c[n] + Len(path[n]) + 1
          /\ c[n + 1] + Len(path[n + 1]) <= Len(t) + 1
      BY <1>1, <2>1 DEF Spells
    <2>3. Len(path[n + 1]) \in Nat
      BY <1>1, <2>1 DEF Paths
    <2>4. QED
      BY <1>2, <1>3, <1>5, <2>2, <2>3, SMTT(30)
  <1>11. SpellsAt(p, b[n], pattern.parts[n]) /\ SpellsAt(t, c[n], path[n])
    BY <1>7, <1>8 DEF SpellsAt
  <1>12. QED
    BY <1>1, <1>2, <1>3, <1>4, <1>5, <1>6, <1>9, <1>10, <1>11

\* The letters of one segment begin another.
BeginsLike(one, other) == Len(one) <= Len(other) /\ \A k \in 1..Len(one) : one[k] = other[k]
\* strings.HasPrefix goes letter by letter.
LEMMA PrefixLetters ==
    ASSUME NEW S, NEW one \in Seq(S), NEW other \in Seq(S)
    PROVE  IsPrefix(one, other) <=> BeginsLike(one, other)
  <1>1. SubSeq(one, 1, Len(one)) = one
    OBVIOUS
  <1>2. ASSUME Len(one) <= Len(other)
        PROVE  one = SubSeq(other, 1, Len(one)) <=> \A k \in 1..Len(one) : one[k] = other[k]
    <2> DEFINE head == SubSeq(other, 1, Len(one))
    <2>1. head \in Seq(S) /\ Len(head) = Len(one) /\ \A k \in 1..Len(one) : head[k] = other[k]
      BY <1>2
    <2> HIDE DEF head
    <2>2. (\A k \in 1..Len(one) : one[k] = head[k]) => one = head
      BY <2>1, SeqEqual
    <2>3. QED
      BY <2>1, <2>2 DEF head
  <1>3. QED
    BY <1>1, <1>2 DEF IsPrefix, BeginsLike

\* A segment of the path fits the one of the pattern.
SegmentFits(pattern, path, i) ==
    \/ pattern.parts[i] \in {Plus, path[i]}
    \/ pattern.glob /\ i = Len(pattern.parts) /\ IsPrefix(pattern.parts[i], path[i])

\* The letters of a literal segment only match themselves.
LEMMA LiteralLetters ==
    ASSUME NEW segment \in Seq(Letter), IsLiteral(segment), NEW k \in 1..Len(segment)
    PROVE  segment[k] \notin {"*", "+", "/"}
  <1>1. segment[k] \in Letters(segment) /\ segment[k] \in Letter
    BY DEF Letters
  <1>2. QED
    BY <1>1, RulesAssumption DEF IsLiteral

\* A "+" that another segment follows.
LEMMA PlusStep ==
    ASSUME NEW p, NEW t, NEW r, NEW b, NEW c, NEW pattern, NEW path, Reads(p, t, r, b, c, pattern, path),
           NEW n \in 1..Len(pattern.parts), n \in 1..Len(path), n < Len(pattern.parts), pattern.parts[n] = Plus
    PROVE  c[n] \in r[b[n]] <=> n < Len(path) /\ c[n + 1] \in r[b[n + 1]]
  <1>1. /\ Len(path) \in Nat /\ Len(p) \in Nat /\ Len(t) \in Nat /\ IsMatched(r, p, t)
        /\ Spells(t, c, path) /\ path \in Paths
        /\ Len(path[n]) \in Nat /\ b[n] \in Nat \ {0} /\ c[n] \in Nat \ {0} /\ c[n] \in 1..(Len(t) + 1)
        /\ c[n] + Len(path[n]) <= Len(t) + 1
        /\ n < Len(path) =>
              /\ c[n] + Len(path[n]) <= Len(t) /\ t[c[n] + Len(path[n])] = "/"
              /\ c[n + 1] = c[n] + Len(path[n]) + 1
    BY ReadsSegments
  <1>2. /\ b[n] + 1 <= Len(p) /\ p[b[n]] = "+" /\ p[b[n] + 1] = "/" /\ b[n + 1] = b[n] + 1 + 1
    <2>1. Len(pattern.parts[n]) = 1 /\ pattern.parts[n][1] = "+"
      BY DEF Plus
    <2>2. /\ SpellsAt(p, b[n], pattern.parts[n])
          /\ b[n] + Len(pattern.parts[n]) <= Len(p) /\ p[b[n] + Len(pattern.parts[n])] = "/"
          /\ b[n + 1] = b[n] + Len(pattern.parts[n]) + 1
      BY ReadsSegments, SMTT(30)
    <2>3. 0 \in 0..(1 - 1) /\ b[n] + 0 = b[n]
      BY <1>1
    <2>4. p[b[n] + 0] = "+"
      BY <2>1, <2>2, <2>3 DEF SpellsAt
    <2>5. QED
      BY <2>1, <2>2, <2>3, <2>4
  <1>3. b[n] \in 1..Len(p) /\ b[n] + 1 \in 1..Len(p)
    <2>1. b[n] \in Nat \ {0} /\ Len(p) \in Nat /\ b[n] + 1 <= Len(p)
      BY <1>1, <1>2
    <2>2. QED
      BY <2>1
  <1>4. r[b[n]] = {j \in 1..(Len(t) + 1) :
                     \E k \in r[b[n] + 1] : j <= k /\ \A l \in j..(k - 1) : t[l] # "/"}
    BY <1>1, <1>2, <1>3 DEF IsMatched, Places
  <1>5. r[b[n] + 1] = {j \in 1..Len(t) : t[j] = "/" /\ j + 1 \in r[b[n + 1]]}
    <2>1. r[b[n] + 1] = Places("/", r[b[n] + 1 + 1], t)
      BY <1>1, <1>2, <1>3 DEF IsMatched
    <2>2. QED
      BY <1>2, <2>1 DEF Places
  <1>6. ASSUME c[n] \in r[b[n]] PROVE n < Len(path) /\ c[n + 1] \in r[b[n + 1]]
    <2>1. PICK k \in r[b[n] + 1] : c[n] <= k /\ \A l \in c[n]..(k - 1) : t[l] # "/"
      BY <1>4, <1>6
    <2>2. k \in 1..Len(t) /\ t[k] = "/" /\ k + 1 \in r[b[n + 1]]
      BY <1>5
    <2>3. k = c[n] + Len(path[n]) /\ (k = Len(t) + 1 <=> n = Len(path))
      <3>1. k \in Nat /\ k <= Len(t) + 1
        BY <1>1, <2>2
      <3>2. QED
        BY <1>1, <2>1, <2>2, <3>1, FirstSlash, SMTT(30)
    <2>4. n < Len(path)
      BY <1>1, <2>2, <2>3
    <2>5. QED
      BY <1>1, <2>2, <2>3, <2>4
  <1>7. ASSUME n < Len(path), c[n + 1] \in r[b[n + 1]] PROVE c[n] \in r[b[n]]
    <2> DEFINE k == c[n] + Len(path[n])
    <2>1. k \in 1..Len(t) /\ t[k] = "/" /\ k + 1 = c[n + 1] /\ c[n] <= k
      BY <1>1, <1>7, SMTT(30)
    <2>2. k \in r[b[n] + 1]
      BY <1>5, <1>7, <2>1
    <2>3. ASSUME NEW l \in c[n]..(k - 1) PROVE t[l] # "/"
      <3>1. l \in Nat /\ c[n] <= l /\ l < c[n] + Len(path[n])
        BY <1>1
      <3>2. QED
        BY <1>1, <3>1, NoSlashInside
    <2> HIDE DEF k
    <2>4. QED
      BY <1>1, <1>4, <2>1, <2>2, <2>3
  <1>8. QED
    BY <1>6, <1>7

\* A literal segment that another one follows.
LEMMA LiteralStep ==
    ASSUME NEW p, NEW t, NEW r, NEW b, NEW c, NEW pattern, NEW path, Reads(p, t, r, b, c, pattern, path),
           NEW n \in 1..Len(pattern.parts), n \in 1..Len(path), n < Len(pattern.parts), IsLiteral(pattern.parts[n])
    PROVE  c[n] \in r[b[n]] <=> n < Len(path) /\ pattern.parts[n] = path[n] /\ c[n + 1] \in r[b[n + 1]]
  <1> DEFINE part == pattern.parts[n]
             N == Len(part) + 1
  <1>1. /\ Len(path) \in Nat /\ Len(p) \in Nat /\ Len(t) \in Nat
        /\ p \in Seq(Signs) /\ t \in Seq(Characters) /\ IsMatched(r, p, t) /\ Spells(t, c, path) /\ path \in Paths
        /\ part \in Seq(Letter) /\ Len(part) \in Nat /\ path[n] \in Seq(Letter) /\ Len(path[n]) \in Nat
        /\ b[n] \in Nat \ {0} /\ c[n] \in Nat \ {0} /\ c[n] \in 1..(Len(t) + 1)
    BY ReadsSegments
  <1>10. b[n] + Len(part) <= Len(p) /\ p[b[n] + Len(part)] = "/" /\ b[n + 1] = b[n] + Len(part) + 1
    BY ReadsSegments
  <1>11. SpellsAt(p, b[n], part)
    BY ReadsSegments
  <1>12. SpellsAt(t, c[n], path[n])
    BY ReadsSegments
  <1>13. n < Len(path) =>
              /\ c[n] + Len(path[n]) <= Len(t) /\ t[c[n] + Len(path[n])] = "/"
              /\ c[n + 1] = c[n] + Len(path[n]) + 1
    BY ReadsSegments
  <1>2. IsLiteral(part)
    OBVIOUS
  <1>14. /\ Len(path) \in Nat /\ Len(p) \in Nat /\ Len(t) \in Nat /\ Len(part) \in Nat /\ Len(path[n]) \in Nat
         /\ b[n] \in Nat \ {0} /\ c[n] \in Nat \ {0} /\ c[n] <= Len(t) + 1
    BY <1>1
  <1> HIDE DEF part
  <1>3. ASSUME NEW k \in 0..(Len(part) - 1) PROVE part[k + 1] \notin {"*", "+", "/"}
    <2>1. k + 1 \in 1..Len(part)
      BY <1>14
    <2>2. QED
      BY <1>1, <1>2, <2>1, LiteralLetters
  <1>4. ASSUME NEW k \in 0..(N - 1) PROVE p[b[n] + k] \notin {"*", "+"}
    <2>1. CASE k = Len(part)
      BY <1>10, <2>1
    <2>2. CASE k # Len(part)
      <3>1. k \in 0..(Len(part) - 1)
        BY <1>14, <2>2
      <3>2. QED
        BY <1>11, <1>3, <3>1 DEF SpellsAt
    <2>3. QED
      BY <2>1, <2>2
  <1>5. c[n] \in r[b[n]] <=> /\ c[n] + N <= Len(t) + 1 /\ c[n] + N \in r[b[n] + N]
                             /\ \A k \in 0..(N - 1) : t[c[n] + k] = p[b[n] + k]
    <2>1. N \in Nat /\ b[n] + N <= Len(p) + 1
      BY <1>10, <1>14, SMTT(30)
    <2>2. p \in Seq(Signs) /\ t \in Seq(Characters) /\ IsMatched(r, p, t) /\ b[n] \in Nat \ {0} /\ c[n] \in 1..(Len(t) + 1)
      BY <1>1
    <2>3. \A k \in 0..(N - 1) : p[b[n] + k] \notin {"*", "+"}
      BY <1>4
    <2> HIDE DEF N
    <2>4. RunMatches(p, t, r, b[n], N, c[n])
      BY <2>1, <2>2, <2>3, RunsMatch
    <2>5. QED
      BY <2>4 DEF RunMatches
  <1>6. b[n] + N = b[n + 1] /\ N - 1 = Len(part)
    <2>1. \A i, j \in Nat : i + j + 1 = i + (j + 1) /\ (j + 1) - 1 = j
      OBVIOUS
    <2>2. QED
      BY <1>10, <1>14, <2>1
  <1>7. ASSUME c[n] \in r[b[n]] PROVE n < Len(path) /\ part = path[n] /\ c[n + 1] \in r[b[n + 1]]
    <2> DEFINE k == c[n] + Len(part)
    <2>1. k \in Nat /\ c[n] <= k /\ k <= Len(t) /\ k + 1 = c[n] + N
      <3>1. c[n] + N <= Len(t) + 1
        BY <1>5, <1>7
      <3>2. c[n] \in Nat /\ Len(part) \in Nat /\ Len(t) \in Nat
        BY <1>14
      <3>3. \A i, j, h \in Nat : i + (j + 1) <= h + 1 => i + j \in Nat /\ i <= i + j /\ i + j <= h
        OBVIOUS
      <3>4. \A i, j \in Nat : (i + j) + 1 = i + (j + 1)
        OBVIOUS
      <3>5. QED
        BY <3>1, <3>2, <3>3, <3>4
    <2>2. \A m \in 0..Len(part) : t[c[n] + m] = p[b[n] + m]
      BY <1>5, <1>6, <1>7
    <2>3. t[k] = "/"
      <3>1. Len(part) \in 0..Len(part)
        BY <1>14
      <3>2. QED
        BY <1>10, <2>2, <3>1
    <2>4. \A m \in 0..(Len(part) - 1) : t[c[n] + m] = part[m + 1]
      <3>1. \A m \in 0..(Len(part) - 1) : m \in 0..Len(part)
        BY <1>14
      <3>2. QED
        BY <1>11, <2>2, <3>1 DEF SpellsAt
    <2>5. ASSUME NEW l \in c[n]..(k - 1) PROVE t[l] # "/"
      <3>1. l - c[n] \in 0..(Len(part) - 1) /\ c[n] + (l - c[n]) = l
        <4>1. \A i, j \in Nat : \A h \in i..(i + j - 1) : h - i \in 0..(j - 1) /\ i + (h - i) = h
          OBVIOUS
        <4>2. QED
          BY <1>14, <4>1, SMTT(30)
      <3>2. t[l] = part[(l - c[n]) + 1]
        BY <2>4, <3>1
      <3>3. QED
        BY <1>3, <3>1, <3>2
    <2> HIDE DEF k
    <2>6. k = c[n] + Len(path[n]) /\ (k = Len(t) + 1 <=> n = Len(path))
      <3>1. k <= Len(t) + 1
        BY <1>14, <2>1
      <3>2. path \in Paths /\ Spells(t, c, path)
        BY <1>1
      <3>3. QED
        BY <2>1, <2>3, <2>5, <3>1, <3>2, FirstSlash
    <2>7. n < Len(path) /\ Len(part) = Len(path[n])
      <3>1. k # Len(t) + 1
        BY <1>14, <2>1
      <3>2. n # Len(path) /\ c[n] + Len(part) = c[n] + Len(path[n])
        BY <2>6, <3>1 DEF k
      <3>3. QED
        BY <1>14, <3>2
    <2>8. \A i \in 1..Len(part) : part[i] = path[n][i]
      <3> SUFFICES ASSUME NEW i \in 1..Len(part) PROVE part[i] = path[n][i]
        OBVIOUS
      <3>1. i - 1 \in 0..(Len(part) - 1) /\ (i - 1) + 1 = i
        BY <1>14
      <3>2. t[c[n] + (i - 1)] = part[(i - 1) + 1] /\ t[c[n] + (i - 1)] = path[n][(i - 1) + 1]
        BY <1>12, <2>4, <2>7, <3>1 DEF SpellsAt
      <3>3. QED
        BY <3>1, <3>2
    <2>9. part = path[n]
      BY <1>1, <2>7, <2>8, SeqEqual
    <2>10. c[n] + N = c[n + 1]
      BY <1>13, <1>14, <2>7
    <2>11. QED
      BY <1>5, <1>6, <1>7, <2>7, <2>9, <2>10
  <1>8. ASSUME n < Len(path), part = path[n], c[n + 1] \in r[b[n + 1]] PROVE c[n] \in r[b[n]]
    <2>1. c[n] + N = c[n + 1] /\ c[n] + N <= Len(t) + 1
      BY <1>13, <1>14, <1>8, SMTT(30)
    <2>2. ASSUME NEW k \in 0..(N - 1) PROVE t[c[n] + k] = p[b[n] + k]
      <3>1. CASE k = Len(part)
        BY <1>10, <1>13, <1>8, <3>1
      <3>2. CASE k # Len(part)
        <4>1. k \in 0..(Len(part) - 1)
          BY <1>14, <3>2
        <4>2. QED
          BY <1>11, <1>12, <1>8, <4>1 DEF SpellsAt
      <3>3. QED
        BY <3>1, <3>2
    <2>3. QED
      BY <1>5, <1>6, <1>8, <2>1, <2>2
  <1>9. QED
    BY <1>7, <1>8 DEF part

\* The last segment of the pattern, a "+".
LEMMA PlusEnd ==
    ASSUME NEW p, NEW t, NEW r, NEW b, NEW c, NEW pattern, NEW path, Reads(p, t, r, b, c, pattern, path),
           NEW n \in 1..Len(path), n = Len(pattern.parts), pattern.parts[n] = Plus, ~pattern.glob
    PROVE  c[n] \in r[b[n]] <=> n = Len(path)
  <1>1. n \in 1..Len(pattern.parts)
    OBVIOUS
  <1>2. /\ IsMatched(r, p, t) /\ Spells(t, c, path) /\ path \in Paths
        /\ SpellsAt(p, b[n], pattern.parts[n])
    BY <1>1, ReadsSegments
  <1>3. /\ Len(path) \in Nat /\ Len(p) \in Nat /\ Len(t) \in Nat /\ Len(path[n]) \in Nat
        /\ b[n] \in Nat \ {0} /\ c[n] \in Nat \ {0} /\ c[n] \in 1..(Len(t) + 1)
        /\ c[n] + Len(path[n]) <= Len(t) + 1
    BY <1>1, ReadsSegments
  <1>4. b[n] = Len(p) /\ p[b[n]] = "+"
    <2>1. Len(Plus) = 1 /\ Plus[1] = "+"
      BY DEF Plus
    <2>2. b[n] + Len(pattern.parts[n]) = Len(p) + 1
      BY DEF Reads, PatternSpells
    <2>3. b[n] + 1 = Len(p) + 1 /\ 0 \in 0..(1 - 1) /\ b[n] + 0 = b[n]
      BY <1>3, <2>1, <2>2
    <2>4. p[b[n] + 0] = "+"
      BY <1>2, <2>1, <2>3 DEF SpellsAt
    <2>5. QED
      BY <1>3, <2>3, <2>4
  <1>5. r[b[n]] = {j \in 1..(Len(t) + 1) : \E k \in {Len(t) + 1} : j <= k /\ \A l \in j..(k - 1) : t[l] # "/"}
    <2>1. b[n] \in 1..Len(p) /\ b[n] + 1 = Len(p) + 1
      BY <1>3, <1>4
    <2>2. r[b[n]] = Places("+", {Len(t) + 1}, t)
      BY <1>2, <1>4, <2>1 DEF IsMatched
    <2>3. QED
      BY <2>2 DEF Places
  <1>6. ASSUME c[n] \in r[b[n]] PROVE n = Len(path)
    <2>1. PICK k \in {Len(t) + 1} : c[n] <= k /\ \A l \in c[n]..(k - 1) : t[l] # "/"
      BY <1>5, <1>6
    <2>2. k \in Nat /\ k <= Len(t) + 1 /\ k = Len(t) + 1
      BY <1>3
    <2>3. QED
      BY <1>2, <2>1, <2>2, FirstSlash
  <1>7. ASSUME n = Len(path) PROVE c[n] \in r[b[n]]
    <2>1. c[n] + Len(path[n]) = Len(t) + 1
      BY <1>2, <1>7 DEF Spells
    <2>2. ASSUME NEW l \in c[n]..((Len(t) + 1) - 1) PROVE t[l] # "/"
      <3>1. l \in Nat /\ c[n] <= l /\ l < c[n] + Len(path[n])
        BY <1>3, <2>1
      <3>2. QED
        BY <1>2, <3>1, NoSlashInside
    <2>3. c[n] <= Len(t) + 1
      BY <1>3
    <2>4. QED
      BY <1>3, <1>5, <2>2, <2>3
  <1>8. QED
    BY <1>6, <1>7

\* The last segment of the pattern, a literal.
LEMMA LiteralEnd ==
    ASSUME NEW p, NEW t, NEW r, NEW b, NEW c, NEW pattern, NEW path, Reads(p, t, r, b, c, pattern, path),
           NEW n \in 1..Len(path), n = Len(pattern.parts), IsLiteral(pattern.parts[n])
    PROVE  c[n] \in r[b[n]] <=> IF pattern.glob THEN IsPrefix(pattern.parts[n], path[n])
                                ELSE n = Len(path) /\ pattern.parts[n] = path[n]
  <1> DEFINE part == pattern.parts[n]
             N == Len(part)
  <1>1. n \in 1..Len(pattern.parts)
    OBVIOUS
  <1>2. /\ p \in Seq(Signs) /\ t \in Seq(Characters) /\ IsMatched(r, p, t) /\ Spells(t, c, path) /\ path \in Paths
        /\ part \in Seq(Letter) /\ path[n] \in Seq(Letter) /\ SpellsAt(p, b[n], part) /\ SpellsAt(t, c[n], path[n])
    BY <1>1, ReadsSegments, SMTT(30)
  <1>3. /\ Len(path) \in Nat /\ Len(p) \in Nat /\ Len(t) \in Nat /\ N \in Nat /\ Len(path[n]) \in Nat
        /\ b[n] \in Nat \ {0} /\ c[n] \in Nat \ {0} /\ c[n] \in 1..(Len(t) + 1) /\ c[n] <= Len(t) + 1
        /\ c[n] + Len(path[n]) <= Len(t) + 1
    <2>1. c[n] \in 1..(Len(t) + 1) /\ Len(t) \in Nat /\ c[n] \in Nat \ {0}
      BY <1>1, ReadsSegments
    <2>2. c[n] <= Len(t) + 1
      BY <2>1
    <2>3. QED
      BY <1>1, <2>1, <2>2, ReadsSegments
  <1>4. b[n] + N = IF pattern.glob THEN Len(p) ELSE Len(p) + 1
    BY DEF Reads, PatternSpells
  <1>5. r[Len(p) + 1] = {Len(t) + 1}
    BY <1>2 DEF IsMatched
  <1>6. IsLiteral(part)
    OBVIOUS
  <1>7. pattern.glob => r[Len(p)] = 1..(Len(t) + 1)
    <2> SUFFICES ASSUME pattern.glob PROVE r[Len(p)] = 1..(Len(t) + 1)
      OBVIOUS
    <2>1. p[Len(p)] = "*"
      BY DEF Reads, PatternSpells
    <2>2. Len(p) \in 1..Len(p)
      BY <1>3, <1>4
    <2>3. r[Len(p)] = Places("*", r[Len(p) + 1], t)
      BY <1>2, <2>1, <2>2 DEF IsMatched
    <2>4. QED
      BY <2>3 DEF Places
  <1> HIDE DEF part
  <1>8. ASSUME NEW k \in 0..(N - 1) PROVE part[k + 1] \notin {"*", "+", "/"}
    <2>1. k + 1 \in 1..Len(part)
      BY <1>3
    <2>2. QED
      BY <1>2, <1>6, <2>1, LiteralLetters
  <1>9. c[n] \in r[b[n]] <=> /\ c[n] + N <= Len(t) + 1 /\ c[n] + N \in r[b[n] + N]
                             /\ \A k \in 0..(N - 1) : t[c[n] + k] = part[k + 1]
    <2>1. \A k \in 0..(N - 1) : p[b[n] + k] = part[k + 1]
      BY <1>2 DEF SpellsAt
    <2>2. \A k \in 0..(N - 1) : p[b[n] + k] \notin {"*", "+"}
      BY <1>8, <2>1
    <2>3. b[n] + N <= Len(p) + 1
      BY <1>3, <1>4
    <2> HIDE DEF N
    <2>4. RunMatches(p, t, r, b[n], N, c[n])
      BY <1>2, <1>3, <2>2, <2>3, RunsMatch
    <2>5. QED
      BY <2>1, <2>4 DEF RunMatches
  <1>10. ASSUME NEW i \in 1..N, N <= Len(path[n]), \A k \in 0..(N - 1) : t[c[n] + k] = part[k + 1]
         PROVE  part[i] = path[n][i]
    <2>1. i - 1 \in 0..(N - 1) /\ i - 1 \in 0..(Len(path[n]) - 1) /\ (i - 1) + 1 = i
      BY <1>3, <1>10
    <2>2. t[c[n] + (i - 1)] = part[(i - 1) + 1] /\ t[c[n] + (i - 1)] = path[n][(i - 1) + 1]
      BY <1>2, <1>10, <2>1 DEF SpellsAt
    <2>3. QED
      BY <2>1, <2>2
  <1>11. ASSUME N <= Len(path[n]), \A i \in 1..N : part[i] = path[n][i], NEW k \in 0..(N - 1)
         PROVE  t[c[n] + k] = part[k + 1]
    <2>1. k + 1 \in 1..N /\ k \in 0..(Len(path[n]) - 1)
      BY <1>3, <1>11, SMTT(30)
    <2>2. QED
      BY <1>2, <1>11, <2>1 DEF SpellsAt
  <1>12. CASE pattern.glob
    <2>1. c[n] \in r[b[n]] <=> c[n] + N <= Len(t) + 1 /\ \A k \in 0..(N - 1) : t[c[n] + k] = part[k + 1]
      <3>1. b[n] + N = Len(p) /\ (c[n] + N <= Len(t) + 1 => c[n] + N \in 1..(Len(t) + 1))
        BY <1>3, <1>4, <1>12
      <3>2. QED
        BY <1>7, <1>9, <1>12, <3>1
    <2>2. IsPrefix(part, path[n]) <=> N <= Len(path[n]) /\ \A i \in 1..N : part[i] = path[n][i]
      <3>1. IsPrefix(part, path[n]) <=> BeginsLike(part, path[n])
        BY <1>2, PrefixLetters
      <3>2. QED
        BY <3>1 DEF BeginsLike
    <2>3. ASSUME c[n] \in r[b[n]] PROVE IsPrefix(part, path[n])
      <3>1. N <= Len(path[n])
        <4> SUFFICES ASSUME Len(path[n]) < N PROVE FALSE
          BY <1>3
        <4>1. Len(path[n]) \in 0..(N - 1) /\ c[n] + Len(path[n]) < Len(t) + 1
          <5>1. c[n] + N <= Len(t) + 1
            BY <2>1, <2>3
          <5>2. QED
            BY <1>3, <5>1
        <4>2. t[c[n] + Len(path[n])] # "/"
          BY <1>8, <2>1, <2>3, <4>1
        <4>3. n < Len(path) => t[c[n] + Len(path[n])] = "/"
          BY <1>1, ReadsSegments
        <4>4. n = Len(path)
          BY <1>3, <4>2, <4>3
        <4>5. c[n] + Len(path[n]) = Len(t) + 1
          BY <1>2, <4>4 DEF Spells
        <4>6. QED
          BY <1>3, <4>1, <4>5
      <3>2. QED
        BY <1>10, <2>1, <2>2, <2>3, <3>1
    <2>4. ASSUME IsPrefix(part, path[n]) PROVE c[n] \in r[b[n]]
      <3>1. N <= Len(path[n]) /\ \A i \in 1..N : part[i] = path[n][i]
        BY <2>2, <2>4
      <3>2. c[n] + N <= Len(t) + 1
        BY <1>3, <3>1
      <3>3. QED
        BY <1>11, <2>1, <3>1, <3>2
    <2>5. QED
      BY <1>12, <2>3, <2>4 DEF part
  <1>13. CASE ~pattern.glob
    <2>1. c[n] \in r[b[n]] <=> c[n] + N = Len(t) + 1 /\ \A k \in 0..(N - 1) : t[c[n] + k] = part[k + 1]
      <3>1. b[n] + N = Len(p) + 1
        BY <1>4, <1>13
      <3>2. c[n] + N = Len(t) + 1 => c[n] + N <= Len(t) + 1
        BY <1>3
      <3>3. QED
        BY <1>5, <1>9, <3>1, <3>2
    <2>2. ASSUME c[n] \in r[b[n]] PROVE n = Len(path) /\ part = path[n]
      <3> DEFINE k == Len(t) + 1
      <3>1. ASSUME NEW l \in c[n]..(k - 1) PROVE t[l] # "/"
        <4>1. l - c[n] \in 0..(N - 1) /\ c[n] + (l - c[n]) = l
          <5>1. c[n] + N = k /\ l \in c[n]..(k - 1)
            BY <2>1, <2>2
          <5>2. \A i, j, m, L \in Nat : i \in m..(j - 1) /\ m + L = j => i - m \in 0..(L - 1) /\ m + (i - m) = i
            OBVIOUS
          <5>3. k \in Nat /\ l \in Nat /\ c[n] \in Nat /\ N \in Nat
            BY <1>3
          <5> HIDE DEF k
          <5>4. QED
            BY <5>1, <5>2, <5>3
        <4>2. t[l] = part[(l - c[n]) + 1]
          BY <2>1, <2>2, <4>1
        <4>3. QED
          BY <1>8, <4>1, <4>2
      <3>2. k \in Nat /\ c[n] <= k /\ k <= Len(t) + 1 /\ k = Len(t) + 1
        BY <1>3
      <3> HIDE DEF k
      <3>3. k = c[n] + Len(path[n]) /\ n = Len(path)
        <4>1. path \in Paths /\ Spells(t, c, path)
          BY <1>2
        <4>2. QED
          BY <3>1, <3>2, <4>1, FirstSlash
      <3>4. N = Len(path[n])
        BY <1>3, <2>1, <2>2, <3>2, <3>3
      <3>5. \A i \in 1..N : part[i] = path[n][i]
        BY <1>3, <1>10, <2>1, <2>2, <3>4
      <3>6. QED
        BY <1>2, <3>3, <3>4, <3>5, SeqEqual
    <2>3. ASSUME n = Len(path), part = path[n] PROVE c[n] \in r[b[n]]
      <3>1. c[n] + N = Len(t) + 1
        BY <1>2, <2>3 DEF Spells
      <3>2. \A i \in 1..N : part[i] = path[n][i]
        BY <2>3
      <3>3. N <= Len(path[n])
        BY <1>3, <2>3
      <3>4. QED
        BY <1>11, <2>1, <3>1, <3>2, <3>3
    <2>4. QED
      BY <1>13, <2>2, <2>3 DEF part
  <1>14. QED
    BY <1>12, <1>13

\* A segment of a valid pattern.
IsPart(pattern, n) == IsLiteral(pattern.parts[n]) \/ (pattern.parts[n] = Plus /\ ~(pattern.glob /\ n = Len(pattern.parts)))
\* validatePattern leaves literal segments and whole-segment pluses, and no plus before the star.
LEMMA ValidParts ==
    ASSUME NEW pattern \in Patterns, validatePattern(pattern), NEW n \in 1..Len(pattern.parts)
    PROVE  IsPart(pattern, n) /\ (pattern.parts[n] = Plus => ~IsLiteral(pattern.parts[n]))
  <1>1. n \in DOMAIN pattern.parts
    BY DEF Patterns, Paths
  <1>2. /\ "*" \notin Letters(pattern.parts[n])
        /\ "+" \in Letters(pattern.parts[n]) => pattern.parts[n] = Plus /\ ~(pattern.glob /\ n = Len(pattern.parts))
    BY <1>1 DEF validatePattern
  <1>3. "+" \in Letters(Plus)
    <2>1. 1 \in DOMAIN Plus /\ Plus[1] = "+"
      BY DEF Plus
    <2>2. QED
      BY <2>1 DEF Letters
  <1>4. QED
    BY <1>2, <1>3 DEF IsPart, IsLiteral

\* The pattern fits the path from segment n on.
FitsFrom(pattern, path, n) ==
    /\ Len(path) >= Len(pattern.parts) /\ (pattern.glob \/ Len(path) = Len(pattern.parts))
    /\ \A i \in n..Len(pattern.parts) : SegmentFits(pattern, path, i)

\* MatchPattern, whichever of its branches it takes, compares segment by segment.
LEMMA MatchIsFits ==
    ASSUME NEW pattern \in Patterns, NEW path \in Paths, validatePattern(pattern)
    PROVE  MatchPattern(pattern, path) <=> FitsFrom(pattern, path, 1)
  <1> DEFINE parts == pattern.parts
  <1>1. /\ parts \in Seq(Seq(Letter)) /\ path \in Seq(Seq(Letter)) /\ Len(parts) \in Nat /\ Len(parts) >= 1
        /\ Len(path) \in Nat /\ DOMAIN parts = 1..Len(parts) /\ DOMAIN path = 1..Len(path)
    BY DEF Patterns, Paths
  <1>2. CASE ~(\A i \in DOMAIN parts : "+" \notin Letters(parts[i]))
    <2>1. MatchPattern(pattern, path) <=>
             /\ Len(path) >= Len(parts) /\ (pattern.glob \/ Len(path) = Len(parts))
             /\ \A i \in DOMAIN parts : SegmentFits(pattern, path, i)
      BY <1>2 DEF MatchPattern, SegmentFits
    <2>2. QED
      BY <1>1, <2>1 DEF FitsFrom
  <1>3. CASE \A i \in DOMAIN parts : "+" \notin Letters(parts[i])
    <2>1. \A i \in 1..Len(parts) : parts[i] # Plus
      <3>1. 1 \in DOMAIN Plus /\ Plus[1] = "+"
        BY DEF Plus
      <3>2. "+" \in Letters(Plus)
        BY <3>1 DEF Letters
      <3>3. QED
        BY <1>1, <1>3, <3>2
    <2>2. CASE pattern.glob
      <3>1. MatchPattern(pattern, path) <=> HasPrefix(path, parts)
        BY <1>3, <2>2 DEF MatchPattern
      <3>2. ASSUME NEW i \in 1..Len(parts), Len(parts) <= Len(path)
            PROVE  (IF i = Len(parts) THEN IsPrefix(parts[i], path[i]) ELSE parts[i] = path[i])
                      <=> SegmentFits(pattern, path, i)
        <4>1. IsPrefix(path[i], path[i])
          <5>1. path[i] \in Seq(Letter)
            BY <1>1, <3>2
          <5>2. BeginsLike(path[i], path[i])
            BY <5>1 DEF BeginsLike
          <5>3. QED
            BY <5>1, <5>2, PrefixLetters
        <4>2. QED
          BY <2>1, <2>2, <4>1 DEF SegmentFits
      <3>3. QED
        BY <1>1, <2>2, <3>1, <3>2 DEF HasPrefix, FitsFrom
    <2>3. CASE ~pattern.glob
      <3>1. MatchPattern(pattern, path) <=> path = parts
        BY <1>3, <2>3 DEF MatchPattern
      <3>2. \A i \in 1..Len(parts) : SegmentFits(pattern, path, i) <=> parts[i] = path[i]
        BY <2>1, <2>3 DEF SegmentFits
      <3>3. path = parts <=> Len(path) = Len(parts) /\ \A i \in 1..Len(parts) : path[i] = parts[i]
        <4>1. ASSUME Len(path) = Len(parts), \A i \in 1..Len(parts) : path[i] = parts[i] PROVE path = parts
          BY <1>1, <4>1, SeqEqual
        <4>2. QED
          BY <1>1, <4>1
      <3>4. FitsFrom(pattern, path, 1) <=> Len(path) = Len(parts) /\ \A i \in 1..Len(parts) : path[i] = parts[i]
        BY <1>1, <2>3, <3>2 DEF FitsFrom
      <3>5. QED
        BY <3>1, <3>3, <3>4
    <2>4. QED
      BY <1>1, <2>2, <2>3
  <1>4. QED
    BY <1>2, <1>3

\* From each segment on, the letters match when the segments fit.
LEMMA ReadsFits ==
    ASSUME NEW p, NEW t, NEW r, NEW b, NEW c, NEW pattern, NEW path, Reads(p, t, r, b, c, pattern, path),
           validatePattern(pattern), NEW n \in 1..Len(pattern.parts), n \in 1..Len(path)
    PROVE  c[n] \in r[b[n]] <=> FitsFrom(pattern, path, n)
  <1> DEFINE parts == pattern.parts
             last == Len(parts)
             Same(m) == c[m] \in r[b[m]] <=> FitsFrom(pattern, path, m)
             T == {k \in Nat : last - k \in 1..last /\ last - k \in 1..Len(path) => Same(last - k)}
  <1>1. pattern \in Patterns /\ path \in Paths /\ last \in Nat /\ Len(path) \in Nat /\ last >= 1
    BY DEF Reads, Patterns, Paths
  <1>2. ASSUME last \in 1..Len(path) PROVE Same(last)
    <2>1. last \in 1..last /\ last..last = {last} /\ Len(path) >= last
      BY <1>1, <1>2
    <2>2. IsPart(pattern, last) /\ (parts[last] = Plus => ~IsLiteral(parts[last]))
      BY <1>1, <2>1, ValidParts
    <2>3. FitsFrom(pattern, path, last) <=> (pattern.glob \/ Len(path) = last) /\ SegmentFits(pattern, path, last)
      BY <2>1 DEF FitsFrom
    <2>4. CASE parts[last] = Plus
      <3>1. ~pattern.glob
        BY <2>2, <2>4 DEF IsPart
      <3>2. c[last] \in r[b[last]] <=> last = Len(path)
        <4> HIDE DEF last
        <4>1. last = Len(pattern.parts) /\ pattern.parts[last] = Plus
          BY <2>4 DEF last
        <4>2. QED
          BY <1>2, <3>1, <4>1, PlusEnd
      <3>3. QED
        BY <2>3, <2>4, <3>1, <3>2 DEF SegmentFits
    <2>5. CASE parts[last] # Plus
      <3>1. IsLiteral(parts[last])
        BY <2>2, <2>5 DEF IsPart
      <3>2. c[last] \in r[b[last]] <=> IF pattern.glob THEN IsPrefix(parts[last], path[last])
                                       ELSE last = Len(path) /\ parts[last] = path[last]
        <4> HIDE DEF last
        <4>1. last = Len(pattern.parts) /\ IsLiteral(pattern.parts[last])
          BY <3>1 DEF last
        <4>2. QED
          BY <1>2, <4>1, LiteralEnd
      <3>3. IsPrefix(path[last], path[last])
        <4>1. path[last] \in Seq(Letter)
          BY <1>1, <1>2 DEF Paths
        <4>2. BeginsLike(path[last], path[last])
          BY <4>1 DEF BeginsLike
        <4>3. QED
          BY <4>1, <4>2, PrefixLetters
      <3>4. SegmentFits(pattern, path, last) <=>
               parts[last] = path[last] \/ (pattern.glob /\ IsPrefix(parts[last], path[last]))
        BY <2>5 DEF SegmentFits
      <3>5. QED
        BY <2>3, <3>2, <3>3, <3>4
    <2>6. QED
      BY <2>4, <2>5
  <1>3. ASSUME NEW m \in 1..last, m \in 1..Len(path), m < last, m < Len(path) => Same(m + 1) PROVE Same(m)
    <2>1. c[m] \in r[b[m]] <=> m < Len(path) /\ parts[m] \in {Plus, path[m]} /\ c[m + 1] \in r[b[m + 1]]
      <3>1. IsPart(pattern, m) /\ m \in 1..Len(pattern.parts) /\ m < Len(pattern.parts)
        BY <1>1, <1>3, ValidParts
      <3>2. CASE parts[m] = Plus
        <4>1. c[m] \in r[b[m]] <=> m < Len(path) /\ c[m + 1] \in r[b[m + 1]]
          BY <1>3, <3>1, <3>2, PlusStep
        <4>2. QED
          BY <3>2, <4>1
      <3>3. CASE parts[m] # Plus
        <4>1. IsLiteral(pattern.parts[m])
          BY <3>1, <3>3 DEF IsPart
        <4>2. c[m] \in r[b[m]] <=> m < Len(path) /\ pattern.parts[m] = path[m] /\ c[m + 1] \in r[b[m + 1]]
          BY <1>3, <3>1, <4>1, LiteralStep
        <4>3. QED
          BY <3>3, <4>2
      <3>4. QED
        BY <3>2, <3>3
    <2>2. FitsFrom(pattern, path, m) <=>
             m < Len(path) /\ parts[m] \in {Plus, path[m]} /\ FitsFrom(pattern, path, m + 1)
      <3>1. m..last = {m} \cup (m + 1)..last
        BY <1>1, <1>3
      <3>2. m # last
        BY <1>1, <1>3
      <3>3. SegmentFits(pattern, path, m) <=> parts[m] \in {Plus, path[m]}
        BY <3>2 DEF SegmentFits
      <3>4. Len(path) >= last => m < Len(path)
        BY <1>1, <1>3
      <3>5. QED
        BY <3>1, <3>3, <3>4 DEF FitsFrom
    <2>3. QED
      BY <1>3, <2>1, <2>2
  <1> HIDE DEF Same
  <1>4. 0 \in T
    <2>1. last - 0 = last
      BY <1>1
    <2>2. QED
      BY <1>2, <2>1
  <1>5. ASSUME NEW k \in Nat, k \in T PROVE k + 1 \in T
    <2> SUFFICES ASSUME last - (k + 1) \in 1..last, last - (k + 1) \in 1..Len(path) PROVE Same(last - (k + 1))
      OBVIOUS
    <2> DEFINE m == last - (k + 1)
    <2>1. m \in 1..last /\ m \in 1..Len(path) /\ m < last /\ m + 1 = last - k /\ m + 1 \in 1..last
          /\ (m < Len(path) => m + 1 \in 1..Len(path))
      BY <1>1
    <2>2. m < Len(path) => Same(m + 1)
      BY <1>5, <2>1
    <2>3. Same(m)
      <3> HIDE DEF m
      <3>1. QED
        BY <1>3, <2>1, <2>2
    <2>4. QED
      BY <2>3
  <1>6. last - n \in T
    <2>1. Nat \subseteq T
      <3> HIDE DEF T
      <3>1. QED
        BY <1>4, <1>5, Induction
    <2>2. last - n \in Nat
      BY <1>1
    <2>3. QED
      BY <2>1, <2>2
  <1>7. last - (last - n) = n
    BY <1>1
  <1>8. Same(n)
    BY <1>6, <1>7
  <1>9. QED
    BY <1>8 DEF Same

\* MatchPattern, by texts or by segments, is OpenBao's reading of the pattern.
THEOREM MatchIsGlob ==
    ASSUME NEW pattern \in Patterns, NEW path \in Paths, validatePattern(pattern)
    PROVE  MatchPattern(pattern, path) <=> GlobMatches(pattern, path)
  <1>1. PICK r : IsMatched(r, PatternText(pattern), Text(path)) /\ (GlobMatches(pattern, path) <=> 1 \in r[1])
    BY GlobIs
  <1>2. PICK b : PatternSpells(PatternText(pattern), b, pattern)
    BY PatternTextSpells
  <1>3. PICK c : Spells(Text(path), c, path)
    BY TextSpells
  <1>4. Reads(PatternText(pattern), Text(path), r, b, c, pattern, path)
    BY <1>1, <1>2, <1>3 DEF Reads
  <1>5. 1 \in 1..Len(pattern.parts) /\ 1 \in 1..Len(path)
    BY DEF Patterns, Paths
  <1>6. c[1] \in r[b[1]] <=> FitsFrom(pattern, path, 1)
    BY <1>4, <1>5, ReadsFits
  <1>7. b[1] = 1 /\ c[1] = 1
    BY <1>2, <1>3 DEF PatternSpells, Spells
  <1>8. QED
    BY <1>1, <1>6, <1>7, MatchIsFits

-----------------------------------------------------------------------------
(* The Hard Denylist *)

LowerLetter(letter) == IF letter \in DOMAIN LowerCase THEN LowerCase[letter] ELSE letter
Lowered == Letter \cup {LowerLetter(letter) : letter \in Letter}
\* ToLower works letter by letter.
LEMMA LowerIs ==
    ASSUME NEW segment \in Seq(Letter)
    PROVE  /\ ToLower(segment) \in Seq(Lowered) /\ Len(ToLower(segment)) = Len(segment) /\ segment \in Seq(Lowered)
           /\ \A j \in 1..Len(segment) : ToLower(segment)[j] = LowerLetter(segment[j])
  <1>1. Len(segment) \in Nat /\ DOMAIN segment = 1..Len(segment) /\ \A j \in 1..Len(segment) : segment[j] \in Letter
    OBVIOUS
  <1>2. ToLower(segment) = [j \in 1..Len(segment) |-> LowerLetter(segment[j])]
    BY <1>1 DEF ToLower, LowerLetter
  <1>3. \A j \in 1..Len(segment) : LowerLetter(segment[j]) \in Lowered
    BY <1>1 DEF Lowered
  <1>4. segment \in Seq(Lowered)
    BY SeqMonotonic DEF Lowered
  <1>5. ToLower(segment) \in [1..Len(segment) -> Lowered]
    BY <1>2, <1>3
  <1>6. ToLower(segment) \in Seq(Lowered) /\ Len(ToLower(segment)) = Len(segment)
    BY <1>1, <1>2, <1>5, SeqDef
  <1>7. QED
    BY <1>2, <1>4, <1>6

\* and so keeps prefixes.
LEMMA LowerPrefix ==
    ASSUME NEW one \in Seq(Letter), NEW other \in Seq(Letter), IsPrefix(one, other)
    PROVE  IsPrefix(ToLower(one), ToLower(other))
  <1>1. BeginsLike(one, other)
    BY PrefixLetters
  <1>2. Len(one) <= Len(other) /\ \A k \in 1..Len(one) : one[k] = other[k] /\ k \in 1..Len(other)
    BY <1>1 DEF BeginsLike
  <1>3. BeginsLike(ToLower(one), ToLower(other))
    BY <1>2, LowerIs DEF BeginsLike
  <1>4. QED
    BY <1>3, LowerIs, PrefixLetters

\* Of a rule the denylist lets through only a bare glob fits a denied segment
\* that it does not cover with a "+".
LEMMA NamesNothingDenied ==
    ASSUME NEW pattern \in Patterns, ~overlapsDenylist(pattern), NEW i \in 1..Len(pattern.parts),
           NEW segment \in Seq(Letter), ToLower(segment) \in Denied,
           \/ pattern.parts[i] = segment
           \/ pattern.glob /\ i = Len(pattern.parts) /\ IsPrefix(pattern.parts[i], segment)
    PROVE  pattern.glob /\ i = Len(pattern.parts) /\ pattern.parts[i] = <<>>
  <1> DEFINE parts == pattern.parts
             part == parts[i]
  <1>1. parts \in Seq(Seq(Letter)) /\ DOMAIN parts = 1..Len(parts) /\ part \in Seq(Letter) /\ Last(parts) = parts[Len(parts)]
    BY DEF Patterns, Paths, Last
  <1>2. IsPrefix(segment, segment)
    <2>1. BeginsLike(segment, segment)
      BY DEF BeginsLike
    <2>2. QED
      BY <2>1, PrefixLetters
  <1>3. IsPrefix(part, segment)
    BY <1>2
  <1>4. IsPrefix(ToLower(part), ToLower(segment))
    BY <1>1, <1>3, LowerPrefix
  <1>5. pattern.glob /\ i = Len(parts)
    <2> SUFFICES ASSUME ~(pattern.glob /\ i = Len(parts)) PROVE FALSE
      OBVIOUS
    <2>1. part = segment
      OBVIOUS
    <2>2. QED
      BY <1>1, <2>1 DEF overlapsDenylist
  <1>6. ToLower(part) = <<>>
    BY <1>1, <1>4, <1>5 DEF overlapsDenylist
  <1>7. Len(part) = 0
    <2>1. Len(ToLower(part)) = Len(part)
      BY <1>1, LowerIs
    <2>2. QED
      BY <1>6, <2>1
  <1>8. part = <<>>
    BY <1>1, <1>7
  <1>9. QED
    BY <1>5, <1>8

\* What overlapsDenylist lets through only matches a denied path where it names no segment.
LEMMA AcceptedNameNothing ==
    ASSUME NEW pattern \in Patterns, NEW path \in Paths, validatePattern(pattern), ~overlapsDenylist(pattern),
           MatchPattern(pattern, path), NEW i \in DOMAIN path, ToLower(path[i]) \in Denied
    PROVE  /\ i > 1
           /\ \/ i > Len(pattern.parts)
              \/ pattern.parts[i] = Plus
              \/ pattern.glob /\ i = Len(pattern.parts) /\ pattern.parts[i] = <<>>
  <1> DEFINE parts == pattern.parts
  <1>1. /\ parts \in Seq(Seq(Letter)) /\ path \in Seq(Seq(Letter)) /\ Len(parts) \in Nat /\ Len(parts) >= 1
        /\ i \in 1..Len(path) /\ path[i] \in Seq(Letter) /\ Len(path) \in Nat
    BY DEF Patterns, Paths
  <1>2. FitsFrom(pattern, path, 1)
    BY MatchIsFits
  <1>3. CASE i > Len(parts)
    BY <1>1, <1>3
  <1>4. CASE ~(i > Len(parts))
    <2>1. i \in 1..Len(parts)
      BY <1>1, <1>4
    <2>2. SegmentFits(pattern, path, i)
      BY <1>2, <2>1 DEF FitsFrom
    <2>3. parts[i] = Plus \/ (pattern.glob /\ i = Len(parts) /\ parts[i] = <<>>)
      <3> SUFFICES ASSUME parts[i] # Plus PROVE pattern.glob /\ i = Len(parts) /\ parts[i] = <<>>
        OBVIOUS
      <3>1. parts[i] = path[i] \/ (pattern.glob /\ i = Len(parts) /\ IsPrefix(parts[i], path[i]))
        BY <2>2 DEF SegmentFits
      <3>2. QED
        BY <1>1, <2>1, <3>1, NamesNothingDenied
    <2>4. i # 1
      <3> SUFFICES ASSUME i = 1 PROVE FALSE
        OBVIOUS
      <3>1. Head(parts) = parts[1]
        BY <1>1
      <3>2. CASE parts[1] = Plus
        BY <3>1, <3>2 DEF overlapsDenylist
      <3>3. CASE parts[1] # Plus
        <4>1. pattern.glob /\ Len(parts) = 1 /\ parts[1] = <<>>
          BY <2>3, <3>3
        <4>2. parts = <<<<>>>>
          BY <1>1, <4>1
        <4>3. QED
          BY <4>1, <4>2 DEF overlapsDenylist
      <3>4. QED
        BY <3>2, <3>3
    <2>5. QED
      BY <1>1, <2>3, <2>4
  <1>5. QED
    BY <1>3, <1>4

\* A pattern with a denied segment in place of the one that fits it.
LEMMA ReplacedIsDenied ==
    ASSUME NEW pattern \in Patterns, validatePattern(pattern), NEW i \in 1..Len(pattern.parts),
           NEW segment \in Seq(Letter), ToLower(segment) \in Denied,
           \/ pattern.parts[i] \in {Plus, segment}
           \/ pattern.glob /\ i = Len(pattern.parts) /\ IsPrefix(pattern.parts[i], segment)
    PROVE  LET path == [pattern.parts EXCEPT ![i] = segment]
           IN  deniedSegment(path) /\ MatchPattern(pattern, path)
  <1> DEFINE parts == pattern.parts
             path == [parts EXCEPT ![i] = segment]
  <1>1. parts \in Paths /\ parts \in Seq(Seq(Letter)) /\ Len(parts) \in Nat /\ Len(parts) >= 1 /\ DOMAIN parts = 1..Len(parts)
    BY DEF Patterns, Paths
  <1>2. path \in Seq(Seq(Letter)) /\ Len(path) = Len(parts) /\ DOMAIN path = 1..Len(parts)
        /\ path[i] = segment /\ \A k \in 1..Len(parts) : k # i => path[k] = parts[k]
    BY <1>1
  <1> HIDE DEF path
  <1>3. path \in Paths
    BY <1>1, <1>2 DEF Paths
  <1>4. deniedSegment(path)
    BY <1>2 DEF deniedSegment
  <1>5. FitsFrom(pattern, path, 1)
    <2>1. SegmentFits(pattern, path, i)
      BY <1>2 DEF SegmentFits
    <2>2. ASSUME NEW k \in 1..Len(parts), k # i PROVE SegmentFits(pattern, path, k)
      BY <1>2, <2>2 DEF SegmentFits
    <2>3. QED
      BY <1>1, <1>2, <2>1, <2>2 DEF FitsFrom
  <1>6. MatchPattern(pattern, path)
    BY <1>3, <1>5, MatchIsFits
  <1>7. QED
    BY <1>4, <1>6 DEF path

\* What overlapsDenylist refuses matches some denied path.
LEMMA RefusedMatchDenied ==
    ASSUME NEW pattern \in Patterns, validatePattern(pattern), overlapsDenylist(pattern)
    PROVE  LET parts == pattern.parts IN
           \E i \in DOMAIN parts, denied \in Denied : \E k \in 1..(Len(denied) + 1) :
           \E segment \in {denied, parts[i] \o SubSeq(denied, k, Len(denied))} :
               LET path == [parts EXCEPT ![i] = segment]
               IN  deniedSegment(path) /\ MatchPattern(pattern, path)
  <1> DEFINE parts == pattern.parts
             last == Len(parts)
             Found(i, segment) == LET path == [parts EXCEPT ![i] = segment]
                                  IN  deniedSegment(path) /\ MatchPattern(pattern, path)
  <1>1. parts \in Seq(Seq(Letter)) /\ last \in Nat /\ last >= 1 /\ DOMAIN parts = 1..last
        /\ \A i \in 1..last : parts[i] \in Seq(Letter)
    BY DEF Patterns, Paths
  <1>2. Head(parts) = parts[1] /\ Last(parts) = parts[last]
    BY <1>1 DEF Last
  <1>3. \A denied \in Denied : denied \in Seq(Letter) /\ ToLower(denied) = denied /\ Len(denied) \in Nat
    BY RulesAssumption
  <1>4. \A denied \in Denied : 1 \in 1..(Len(denied) + 1)
    BY <1>3
  <1> SUFFICES \E i \in 1..last, denied \in Denied : \E k \in 1..(Len(denied) + 1) :
               \E segment \in {denied, parts[i] \o SubSeq(denied, k, Len(denied))} : Found(i, segment)
    BY <1>1
  <1>5. CASE Head(parts) = Plus
    <2>1. PICK denied \in Denied : TRUE
      BY RulesAssumption
    <2>2. 1 \in 1..last /\ parts[1] \in {Plus, denied}
      BY <1>1, <1>2, <1>5
    <2>3. Found(1, denied)
      BY <1>3, <2>2, ReplacedIsDenied
    <2> HIDE DEF Found
    <2>4. QED
      BY <1>4, <2>2, <2>3
  <1>6. CASE pattern.glob /\ parts = <<<<>>>>
    <2>1. PICK denied \in Denied : TRUE
      BY RulesAssumption
    <2>2. last = 1 /\ parts[1] = <<>> /\ 1 \in 1..last
      BY <1>6
    <2>3. IsPrefix(parts[1], denied)
      <3>1. BeginsLike(<<>>, denied)
        BY <1>3 DEF BeginsLike
      <3>2. <<>> \in Seq(Letter)
        OBVIOUS
      <3>3. QED
        BY <1>3, <2>2, <3>1, <3>2, PrefixLetters
    <2>4. Found(1, denied)
      BY <1>3, <1>6, <2>2, <2>3, ReplacedIsDenied
    <2> HIDE DEF Found
    <2>5. QED
      BY <1>4, <2>2, <2>4
  <1>7. CASE pattern.glob /\ \E denied \in Denied : IsPrefix(ToLower(Last(parts)), denied)
    <2>1. PICK denied \in Denied : IsPrefix(ToLower(Last(parts)), denied)
      BY <1>7
    <2> DEFINE part == parts[last]
               stem == ToLower(part)
               tail == SubSeq(denied, Len(part) + 1, Len(denied))
               segment == part \o tail
    <2>2. part \in Seq(Letter) /\ denied \in Seq(Letter) /\ ToLower(denied) = denied /\ last \in 1..last
          /\ Len(part) \in Nat /\ Len(denied) \in Nat /\ IsPrefix(stem, denied)
      BY <1>1, <1>2, <1>3, <2>1
    <2> HIDE DEF part
    <2>3. stem \in Seq(Lowered) /\ Len(stem) = Len(part) /\ denied \in Seq(Lowered)
          /\ \A j \in 1..Len(part) : stem[j] = LowerLetter(part[j])
      BY <2>2, LowerIs
    <2>4. Len(part) <= Len(denied) /\ \A j \in 1..Len(part) : stem[j] = denied[j]
      <3>1. BeginsLike(stem, denied)
        BY <2>2, <2>3, PrefixLetters
      <3>2. QED
        BY <2>3, <3>1 DEF BeginsLike
    <2> HIDE DEF stem
    <2>5. tail \in Seq(Letter) /\ Len(tail) = Len(denied) - Len(part)
          /\ \A j \in 1..Len(tail) : tail[j] = denied[Len(part) + j]
      <3>1. CASE Len(part) = Len(denied)
        <4>1. tail = <<>>
          BY <2>2, <3>1
        <4>2. QED
          BY <2>2, <3>1, <4>1
      <3>2. CASE Len(part) # Len(denied)
        <4>1. Len(part) + 1 \in 1..Len(denied) /\ Len(denied) \in 1..Len(denied) /\ Len(part) + 1 <= Len(denied)
          BY <2>2, <2>4, <3>2
        <4>2. QED
          BY <2>2, <4>1
      <3>3. QED
        BY <3>1, <3>2
    <2> HIDE DEF tail
    <2>6. segment \in Seq(Letter) /\ Len(segment) = Len(denied)
          /\ (\A j \in 1..Len(part) : segment[j] = part[j])
          /\ (\A j \in 1..Len(tail) : segment[Len(part) + j] = tail[j])
      BY <2>2, <2>5, ConcatProperties
    <2> HIDE DEF segment
    <2>7. \A j \in 1..Len(denied) : denied[j] = LowerLetter(denied[j])
      BY <2>2, LowerIs
    <2>8. ASSUME NEW j \in 1..Len(denied) PROVE LowerLetter(segment[j]) = denied[j]
      <3>1. CASE j \in 1..Len(part)
        BY <2>3, <2>4, <2>6, <3>1
      <3>2. CASE j \notin 1..Len(part)
        <4>1. j - Len(part) \in 1..Len(tail) /\ Len(part) + (j - Len(part)) = j
          BY <2>2, <2>4, <2>5, <3>2
        <4>2. segment[j] = denied[j]
          BY <2>5, <2>6, <4>1
        <4>3. QED
          BY <2>7, <4>2
      <3>3. QED
        BY <3>1, <3>2
    <2>9. ToLower(segment) = denied
      <3>1. ToLower(segment) \in Seq(Lowered) /\ Len(ToLower(segment)) = Len(denied)
            /\ \A j \in 1..Len(denied) : ToLower(segment)[j] = denied[j]
        BY <2>6, <2>8, LowerIs
      <3>2. QED
        BY <2>3, <3>1, SeqEqual
    <2>10. IsPrefix(part, segment)
      <3>1. BeginsLike(part, segment)
        BY <2>4, <2>6 DEF BeginsLike
      <3>2. QED
        BY <2>2, <2>6, <3>1, PrefixLetters
    <2>11. Found(last, segment)
      <3>1. pattern.parts[last] = part /\ last = Len(pattern.parts) /\ last \in 1..Len(pattern.parts)
        BY <2>2 DEF part
      <3>2. ToLower(segment) \in Denied
        BY <2>9
      <3> HIDE DEF last
      <3>3. QED
        BY <1>7, <2>6, <2>10, <3>1, <3>2, ReplacedIsDenied
    <2>12. Len(part) + 1 \in 1..(Len(denied) + 1)
      BY <2>2, <2>4
    <2> HIDE DEF Found
    <2>13. QED
      BY <2>2, <2>11, <2>12 DEF segment, tail, part
  <1>8. CASE \E i \in 1..last : ToLower(parts[i]) \in Denied
    <2>1. PICK i \in 1..last : ToLower(parts[i]) \in Denied
      BY <1>8
    <2> DEFINE denied == ToLower(parts[i])
    <2>2. denied \in Seq(Letter) /\ Len(denied) \in Nat
      BY <1>3, <2>1
    <2> HIDE DEF denied
    <2>3. SubSeq(denied, Len(denied) + 1, Len(denied)) = <<>> /\ Len(denied) + 1 \in 1..(Len(denied) + 1)
      BY <2>2
    <2>4. parts[i] \o SubSeq(denied, Len(denied) + 1, Len(denied)) = parts[i]
      BY <1>1, <2>3
    <2>5. Found(i, parts[i])
      BY <1>1, <2>1, ReplacedIsDenied
    <2> HIDE DEF Found
    <2>6. denied \in Denied
      BY <2>1 DEF denied
    <2>7. QED
      BY <2>3, <2>4, <2>5, <2>6
  <1>9. QED
    BY <1>1, <1>2, <1>5, <1>6, <1>7, <1>8 DEF overlapsDenylist

-----------------------------------------------------------------------------
(* Every pattern with every path *)

PairTyped ==
    pair.chosen => pair.pattern \in Patterns /\ validatePattern(pair.pattern) /\ pair.path \in Paths

\* PatternPairs.PatternsInv: over any letters, and for any pattern that
\* ValidateRule lets through, MatchPattern is OpenBao's reading of the pattern
\* and overlapsDenylist refuses exactly what names a denied segment.
THEOREM PatternsStay == PairSpec => []PatternsInv
  <1>1. PairInit => PairTyped
    BY DEF PairInit, PairTyped, NoPair
  <1>2. PairTyped /\ [Pick]_<<pair, vars>> => PairTyped'
    <2> SUFFICES ASSUME PairTyped, [Pick]_<<pair, vars>> PROVE PairTyped'
      OBVIOUS
    <2>1. CASE Pick
      BY <2>1, PairsAssumption DEF Pick, PairTyped
    <2>2. CASE UNCHANGED <<pair, vars>>
      BY <2>2 DEF PairTyped
    <2>3. QED
      BY <2>1, <2>2
  <1>3. PairTyped => PatternsInv
    <2> SUFFICES ASSUME PairTyped PROVE PatternsInv
      OBVIOUS
    <2>1. MatchPatternIsGlob
      BY MatchIsGlob DEF MatchPatternIsGlob, PairTyped
    <2>2. AcceptedPatternsNameNothingDenied
      BY AcceptedNameNothing DEF AcceptedPatternsNameNothingDenied, PairTyped
    <2>3. RefusedPatternsMatchDenied
      <3> SUFFICES ASSUME pair.chosen, overlapsDenylist(pair.pattern) PROVE RefusedPatternsMatchDenied
        BY DEF RefusedPatternsMatchDenied
      <3>1. pair.pattern \in Patterns /\ validatePattern(pair.pattern)
        BY DEF PairTyped
      <3>2. QED
        BY <3>1, RefusedMatchDenied DEF RefusedPatternsMatchDenied
    <2>4. QED
      BY <2>1, <2>2, <2>3 DEF PatternsInv
  <1>4. QED
    BY <1>1, <1>2, <1>3, PTL DEF PairSpec

-----------------------------------------------------------------------------
(* The rules of a policy *)

GrantableRules ==
    [name : STRING, path : Patterns, capabilities : SUBSET STRING, maxTTL : Int, discover : Paths]
Policies == [rules : Seq(GrantableRules), defaultTTL : Int]

\* Of some rules one is the first with the longest cap; c has the caps.
LEMMA BestExists ==
    ASSUME NEW N \in Nat, NEW c \in [1..N -> Int], NEW some \in SUBSET (1..N), some # {}
    PROVE  \E i \in some : \A j \in some : c[i] > c[j] \/ (c[i] = c[j] /\ i <= j)
  <1> DEFINE Best(S, i) == i \in S /\ \A j \in S : c[i] > c[j] \/ (c[i] = c[j] /\ i <= j)
             T == {n \in Nat : n <= N => \A S \in SUBSET (1..n) : S # {} => \E i : Best(S, i)}
  <1>1. 0 \in T
    <2>1. 1..0 = {}
      OBVIOUS
    <2>2. QED
      BY <2>1
  <1>2. ASSUME NEW n \in Nat, n \in T PROVE n + 1 \in T
    <2> SUFFICES ASSUME n + 1 <= N, NEW S \in SUBSET (1..(n + 1)), S # {} PROVE \E i : Best(S, i)
      <3> HIDE DEF Best
      <3>1. QED
        OBVIOUS
    <2>1. S \ {n + 1} \in SUBSET (1..n) /\ 1..(n + 1) \subseteq 1..N
      OBVIOUS
    <2>2. CASE S \ {n + 1} = {}
      <3>1. S = {n + 1}
        BY <2>2
      <3>2. Best(S, n + 1)
        BY <3>1
      <3>3. QED
        BY <3>2
    <2>3. CASE S \ {n + 1} # {}
      <3>1. PICK i : Best(S \ {n + 1}, i)
        <4> HIDE DEF Best
        <4>1. QED
          BY <1>2, <2>1, <2>3
      <3>2. i \in S /\ i \in 1..n /\ c[i] \in Int /\ c[n + 1] \in Int /\ \A j \in S : c[j] \in Int
        BY <2>1, <3>1
      <3>3. CASE n + 1 \in S /\ c[n + 1] > c[i]
        <4>1. Best(S, n + 1)
          BY <3>1, <3>2, <3>3
        <4>2. QED
          BY <4>1
      <3>4. CASE ~(n + 1 \in S /\ c[n + 1] > c[i])
        <4>1. Best(S, i)
          BY <3>1, <3>2, <3>4, SMTT(30)
        <4>2. QED
          BY <4>1
      <3>5. QED
        BY <3>3, <3>4
    <2>4. QED
      BY <2>2, <2>3
  <1>3. N \in T
    <2> HIDE DEF T
    <2>1. QED
      BY <1>1, <1>2, Induction
  <1>4. \E i : Best(some, i)
    <2> HIDE DEF Best
    <2>1. QED
      BY <1>3
  <1>5. QED
    BY <1>4

\* The cap of a rule (its own or the default) is a number.
LEMMA CapIs ==
    ASSUME NEW policy \in Policies, NEW i \in DOMAIN policy.rules
    PROVE  policy.rules[i] \in GrantableRules /\ Cap(policy, policy.rules[i]) \in Int
  <1>1. policy.rules \in Seq(GrantableRules) /\ policy.defaultTTL \in Int
    BY DEF Policies
  <1>2. policy.rules[i] \in GrantableRules
    BY <1>1
  <1>3. policy.rules[i].maxTTL \in Int
    BY <1>2 DEF GrantableRules
  <1>4. QED
    BY <1>1, <1>2, <1>3 DEF Cap

\* BestRule, the first of those with the largest cap, exists and has the largest (Resolve).
LEMMA BestIsBest ==
    ASSUME NEW policy \in Policies, NEW some \in SUBSET (DOMAIN policy.rules), some # {}
    PROVE  /\ BestRule(policy, some) \in some
           /\ \A j \in some : Cap(policy, policy.rules[j]) <= Cap(policy, policy.rules[BestRule(policy, some)])
  <1> DEFINE N == Len(policy.rules)
             c == [i \in 1..N |-> Cap(policy, policy.rules[i])]
             Best(i) == \A j \in some :
                 LET ci == Cap(policy, policy.rules[i])
                     cj == Cap(policy, policy.rules[j])
                 IN ci > cj \/ (ci = cj /\ i <= j)
  <1>1. N \in Nat /\ DOMAIN policy.rules = 1..N
    BY DEF Policies
  <1>2. c \in [1..N -> Int]
    BY <1>1, CapIs
  <1>3. \E i \in some : \A j \in some : c[i] > c[j] \/ (c[i] = c[j] /\ i <= j)
    <2> HIDE DEF c, N
    <2>1. QED
      BY <1>1, <1>2, BestExists
  <1>4. \E i \in some : Best(i)
    <2>1. \A i \in some : c[i] = Cap(policy, policy.rules[i])
      BY <1>1
    <2>2. QED
      BY <1>3, <2>1
  <1>5. BestRule(policy, some) = CHOOSE i \in some : Best(i)
    BY DEF BestRule
  <1>6. BestRule(policy, some) \in some /\ Best(BestRule(policy, some))
    <2> HIDE DEF Best
    <2>1. QED
      BY <1>4, <1>5
  <1>7. QED
    BY <1>1, <1>6, CapIs

-----------------------------------------------------------------------------
(* Resolve *)

\* The steps that no rule decides.
Admissible(input) ==
    /\ Concrete(input.path) /\ ~CapabilitiesRefused(input.capabilities) /\ ~deniedSegment(input.path)
    /\ input.ttl = NoTTL \/ input.ttl >= Second
Requested(input) == IF input.ttl = NoTTL THEN 0 ELSE Truncate(input.ttl)
\* What one rule grants of an item.
GrantedBy(policy, input, j) ==
    /\ MatchPattern(policy.rules[j].path, input.path)
    /\ normalizeCapabilities(input.capabilities) \subseteq policy.rules[j].capabilities
    /\ Requested(input) <= Cap(policy, policy.rules[j])

\* Truncating to whole seconds makes no TTL longer, nor one of a second shorter than that.
LEMMA TruncateIs ==
    ASSUME NEW ttl \in Int PROVE Truncate(ttl) \in Int /\ Truncate(ttl) <= ttl /\ (ttl >= Second => Truncate(ttl) >= Second)
  <1>1. Second \in Nat \ {0}
    BY RulesAssumption
  <1>2. ttl % Second \in 0..(Second - 1)
    BY <1>1
  <1>3. ttl = Second * (ttl \div Second) + (ttl % Second) /\ ttl \div Second \in Int
    BY <1>1
  <1>4. Truncate(ttl) \in Int /\ Truncate(ttl) <= ttl
    BY <1>1, <1>2 DEF Truncate
  <1>5. ASSUME ttl >= Second PROVE Truncate(ttl) >= Second
    <2> DEFINE q == ttl \div Second
    <2>1. q \in Int /\ Second * q \in Int /\ Truncate(ttl) = Second * q /\ Second * q > 0
      BY <1>1, <1>2, <1>3, <1>5 DEF Truncate
    <2> HIDE DEF q
    <2>2. q >= 1
      BY <1>1, <2>1
    <2>3. Second * q >= Second
      BY <1>1, <2>1, <2>2
    <2>4. QED
      BY <2>1, <2>3
  <1>6. QED
    BY <1>4, <1>5

\* The TTL that Resolve compares with the cap.
LEMMA RequestedIs ==
    ASSUME NEW input, input.ttl \in Int
    PROVE  Requested(input) \in Int /\ (input.ttl >= Second => Requested(input) >= Second)
  <1>1. Second \in Nat \ {0} /\ NoTTL = -1
    BY RulesAssumption DEF NoTTL
  <1>2. Truncate(input.ttl) \in Int /\ (input.ttl >= Second => Truncate(input.ttl) >= Second)
    BY TruncateIs
  <1>3. input.ttl >= Second => input.ttl # NoTTL
    BY <1>1
  <1>4. QED
    BY <1>2, <1>3 DEF Requested

\* The outcome of Resolve, but for the rule it names.
Outcome(policy, input) ==
    LET capabilities == normalizeCapabilities(input.capabilities)
        covering == Covering(policy, input.path, capabilities)
        cap == Cap(policy, policy.rules[BestRule(policy, covering)])
        ttl == IF Requested(input) = 0 THEN policy.defaultTTL ELSE Requested(input)
    IN IF ~Concrete(input.path) THEN <<"path", 0, 0>>
       ELSE IF CapabilitiesRefused(input.capabilities) THEN <<"capabilities", 0, 0>>
       ELSE IF deniedSegment(input.path) THEN <<"denylist", 0, 0>>
       ELSE IF input.ttl # NoTTL /\ input.ttl < Second THEN <<"ttl", 0, 0>>
       ELSE IF Matching(policy, input.path) = {} THEN <<"unmatched", 0, 0>>
       ELSE IF covering = {} THEN <<"exceeds", 0, 0>>
       ELSE IF Requested(input) > cap THEN <<"cap", 0, 0>>
       ELSE <<"", IF ttl < cap THEN ttl ELSE cap, cap>>
\* Resolve refuses for the first reason in this order and otherwise grants (Resolve).
LEMMA ResolveIs ==
    ASSUME NEW policy, NEW input
    PROVE  LET item == Resolve(policy, input) IN
           /\ item.refusal = Outcome(policy, input)[1]
           /\ item.ttl = Outcome(policy, input)[2] /\ item.maxTTL = Outcome(policy, input)[3]
           /\ item.refusal = "" => item.path = input.path /\ item.capabilities = normalizeCapabilities(input.capabilities)
           /\ item.refusal # "duplicate"
  BY DEF Resolve, Outcome, Refused, Requested

\* What is granted is the path asked for, with its normalized capabilities.
LEMMA GrantedItem ==
    ASSUME NEW policy, NEW input, Resolve(policy, input).refusal = ""
    PROVE  /\ Resolve(policy, input).path = input.path
           /\ Resolve(policy, input).capabilities = normalizeCapabilities(input.capabilities)
  BY ResolveIs
\* An entry of a list.
LEMMA EntryIs ==
    ASSUME NEW S, NEW entries \in Seq(S), NEW i \in DOMAIN entries PROVE entries[i] \in S
  OBVIOUS

LEMMA CoveringIs ==
    ASSUME NEW policy, NEW path, NEW capabilities
    PROVE  /\ Covering(policy, path, capabilities) \in SUBSET Matching(policy, path)
           /\ Matching(policy, path) \in SUBSET (DOMAIN policy.rules)
           /\ Covering(policy, path, capabilities) \in SUBSET (DOMAIN policy.rules)
           /\ \A j \in DOMAIN policy.rules :
                 j \in Covering(policy, path, capabilities)
                    <=> MatchPattern(policy.rules[j].path, path) /\ capabilities \subseteq policy.rules[j].capabilities
  BY DEF Covering, Matching

IsGranted(policy, input) == Resolve(policy, input).refusal = ""
\* An item is granted exactly when one of the rules grants it: the rules that do
\* not cover it and the choice of the best one refuse nothing (Resolve).
THEOREM ResolveGrants ==
    ASSUME NEW policy \in Policies, NEW input, input.ttl \in Int
    PROVE  IsGranted(policy, input)
              <=> Admissible(input) /\ \E j \in DOMAIN policy.rules : GrantedBy(policy, input, j)
  <1> DEFINE capabilities == normalizeCapabilities(input.capabilities)
             covering == Covering(policy, input.path, capabilities)
             cap(j) == Cap(policy, policy.rules[j])
             best == BestRule(policy, covering)
  <1>1. IsGranted(policy, input)
           <=> /\ Concrete(input.path) /\ ~CapabilitiesRefused(input.capabilities) /\ ~deniedSegment(input.path)
               /\ ~(input.ttl # NoTTL /\ input.ttl < Second)
               /\ Matching(policy, input.path) # {} /\ covering # {} /\ ~(Requested(input) > cap(best))
    <2>1. Resolve(policy, input).refusal = Outcome(policy, input)[1]
      BY ResolveIs
    <2>2. QED
      BY <2>1 DEF Outcome, IsGranted
  <1>2. input.ttl # NoTTL /\ input.ttl < Second <=> ~(input.ttl = NoTTL \/ input.ttl >= Second)
    BY RulesAssumption
  <1>3. covering \in SUBSET Matching(policy, input.path) /\ covering \in SUBSET (DOMAIN policy.rules)
    BY CoveringIs
  <1>4. \A j \in DOMAIN policy.rules :
           j \in covering <=> MatchPattern(policy.rules[j].path, input.path) /\ capabilities \subseteq policy.rules[j].capabilities
    BY CoveringIs
  <1>5. covering # {} => best \in covering /\ \A j \in covering : cap(j) <= cap(best)
    BY <1>3, BestIsBest
  <1>6. Requested(input) \in Int /\ \A j \in DOMAIN policy.rules : cap(j) \in Int
    BY RequestedIs, CapIs
  <1>7. (\E j \in DOMAIN policy.rules : GrantedBy(policy, input, j))
           <=> covering # {} /\ ~(Requested(input) > cap(best))
    <2>1. \A j \in DOMAIN policy.rules : GrantedBy(policy, input, j) <=> j \in covering /\ Requested(input) <= cap(j)
      BY <1>4 DEF GrantedBy
    <2> HIDE DEF covering, cap, best
    <2>2. ASSUME NEW j \in DOMAIN policy.rules, GrantedBy(policy, input, j)
          PROVE  covering # {} /\ ~(Requested(input) > cap(best))
      <3>1. j \in covering /\ Requested(input) <= cap(j)
        BY <2>1, <2>2
      <3>2. best \in DOMAIN policy.rules /\ cap(j) <= cap(best)
        BY <1>3, <1>5, <3>1
      <3>3. cap(j) \in Int /\ cap(best) \in Int
        BY <1>6, <3>2
      <3>4. QED
        BY <1>6, <3>1, <3>2, <3>3
    <2>3. ASSUME covering # {}, ~(Requested(input) > cap(best))
          PROVE  \E j \in DOMAIN policy.rules : GrantedBy(policy, input, j)
      <3>1. best \in covering /\ best \in DOMAIN policy.rules /\ cap(best) \in Int
        BY <1>3, <1>5, <1>6, <2>3
      <3>2. Requested(input) <= cap(best)
        BY <1>6, <2>3, <3>1
      <3>3. QED
        BY <2>1, <3>1, <3>2
    <2>4. QED
      BY <2>2, <2>3
  <1>8. covering # {} => Matching(policy, input.path) # {}
    BY <1>3
  <1> HIDE DEF covering, best, cap
  <1>9. QED
    BY <1>1, <1>2, <1>7, <1>8 DEF Admissible

\* The lesser of a TTL and its cap.
LEMMA LesserIs ==
    ASSUME NEW i \in Int, NEW j \in Int, NEW k \in Int, i >= k, j >= k
    PROVE  k <= (IF i < j THEN i ELSE j) /\ (IF i < j THEN i ELSE j) <= j
  OBVIOUS
\* A list of one rule.
LEMMA OneRule ==
    ASSUME NEW S, NEW rule \in S
    PROVE  <<rule>> \in Seq(S) /\ DOMAIN <<rule>> = {1} /\ <<rule>>[1] = rule
  OBVIOUS

LongEnough(policy) ==
    policy.defaultTTL >= Second /\ \A i \in DOMAIN policy.rules : Cap(policy, policy.rules[i]) >= Second
\* An item that is granted lasts between a second and the cap of a rule that
\* covers it.
LEMMA ResolveGranted ==
    ASSUME NEW policy \in Policies, NEW input, input.ttl \in Int, IsGranted(policy, input),
           LongEnough(policy)
    PROVE  LET item == Resolve(policy, input) IN
           /\ Admissible(input) /\ item.path = input.path
           /\ item.capabilities = normalizeCapabilities(input.capabilities)
           /\ \E j \in DOMAIN policy.rules :
                 /\ MatchPattern(policy.rules[j].path, item.path)
                 /\ item.capabilities \subseteq policy.rules[j].capabilities
                 /\ Second <= item.ttl /\ item.ttl <= Cap(policy, policy.rules[j])
  <1> DEFINE item == Resolve(policy, input)
             capabilities == normalizeCapabilities(input.capabilities)
             covering == Covering(policy, input.path, capabilities)
             best == BestRule(policy, covering)
             cap == Cap(policy, policy.rules[best])
             ttl == IF Requested(input) = 0 THEN policy.defaultTTL ELSE Requested(input)
  <1>1. Admissible(input)
    BY ResolveGrants
  <1>2. item.path = input.path /\ item.capabilities = capabilities
    BY ResolveIs DEF IsGranted
  <1>3. covering # {} /\ item.ttl = IF ttl < cap THEN ttl ELSE cap
    <2>1. item.refusal = Outcome(policy, input)[1] /\ item.ttl = Outcome(policy, input)[2] /\ item.refusal = ""
      BY ResolveIs DEF IsGranted
    <2> HIDE DEF item
    <2>2. QED
      BY <2>1 DEF Outcome
  <1>4. best \in covering
    <2>1. covering \in SUBSET (DOMAIN policy.rules)
      BY CoveringIs
    <2>2. QED
      BY <1>3, <2>1, BestIsBest
  <1>5. /\ best \in DOMAIN policy.rules /\ MatchPattern(policy.rules[best].path, input.path)
        /\ capabilities \subseteq policy.rules[best].capabilities
    <2>1. covering \in SUBSET (DOMAIN policy.rules)
      BY CoveringIs
    <2>2. best \in DOMAIN policy.rules
      BY <1>4, <2>1
    <2>3. \A i \in DOMAIN policy.rules :
             i \in covering <=> MatchPattern(policy.rules[i].path, input.path) /\ capabilities \subseteq policy.rules[i].capabilities
      BY CoveringIs
    <2> HIDE DEF best, covering
    <2>4. QED
      BY <1>4, <2>2, <2>3
  <1>6. cap \in Int /\ cap >= Second /\ policy.defaultTTL \in Int /\ Requested(input) \in Int /\ Second \in Nat \ {0}
    BY <1>5, CapIs, RequestedIs, RulesAssumption DEF Policies, LongEnough
  <1>7. ttl >= Second /\ ttl \in Int
    <2>1. CASE input.ttl = NoTTL
      BY <1>6, <2>1 DEF Requested, LongEnough
    <2>2. CASE input.ttl # NoTTL
      <3>1. input.ttl >= Second
        BY <1>1, <2>2 DEF Admissible
      <3>2. Requested(input) >= Second
        BY <3>1, RequestedIs
      <3>3. QED
        BY <1>6, <3>2
    <2>3. QED
      BY <2>1, <2>2
  <1>8. Second <= item.ttl /\ item.ttl <= cap
    <2>1. item.ttl = (IF ttl < cap THEN ttl ELSE cap)
      BY <1>3
    <2>2. Second \in Int /\ ttl \in Int /\ cap \in Int /\ ttl >= Second /\ cap >= Second
      <3> HIDE DEF ttl, cap
      <3>1. QED
        BY <1>6, <1>7
    <2> HIDE DEF ttl, cap, item
    <2>3. QED
      BY <2>1, <2>2, LesserIs
  <1>9. QED
    BY <1>1, <1>2, <1>5, <1>8

\* What the order of the rules decides is which of the best ones is named.
LEMMA OrderIsFree ==
    ASSUME NEW policy \in Policies, NEW input
    PROVE  LET one == Resolve(policy, input)
               other == Resolve([policy EXCEPT !.rules = Reverse(@)], input)
           IN one.refusal = other.refusal /\ one.ttl = other.ttl /\ one.maxTTL = other.maxTTL
  <1> DEFINE N == Len(policy.rules)
             turned == [policy EXCEPT !.rules = Reverse(@)]
             capabilities == normalizeCapabilities(input.capabilities)
             covering == Covering(policy, input.path, capabilities)
             covering2 == Covering(turned, input.path, capabilities)
             best == BestRule(policy, covering)
             best2 == BestRule(turned, covering2)
             back(i) == N - i + 1
  <1>1. policy.rules \in Seq(GrantableRules) /\ N \in Nat /\ DOMAIN policy.rules = 1..N /\ policy.defaultTTL \in Int
    BY DEF Policies
  <1>2. /\ turned.defaultTTL = policy.defaultTTL
        /\ turned.rules = [i \in 1..N |-> policy.rules[back(i)]]
    BY DEF Policies, Reverse
  <1>3. \A i \in 1..N : back(i) \in 1..N /\ back(back(i)) = i
    BY <1>1
  <1>4. turned \in Policies
    <2>0. \A i \in 1..N : policy.rules[back(i)] \in GrantableRules
      BY <1>1, <1>3, CapIs
    <2>1. turned.rules \in [1..N -> GrantableRules]
      <3> HIDE DEF back, turned
      <3>1. QED
        BY <1>2, <2>0
    <2>2. turned.rules \in Seq(GrantableRules)
      BY <1>1, <2>1, SeqDef
    <2>3. QED
      BY <2>2 DEF Policies
  <1>5. DOMAIN turned.rules = 1..N /\ \A i \in 1..N : turned.rules[back(i)] = policy.rules[i] /\ turned.rules[i] = policy.rules[back(i)]
    BY <1>2, <1>3
  <1> HIDE DEF turned, back, N
  <1>6. Matching(policy, input.path) = {} <=> Matching(turned, input.path) = {}
    BY <1>1, <1>3, <1>5 DEF Matching
  <1>7. \A i \in 1..N : (i \in covering <=> back(i) \in covering2) /\ (i \in covering2 <=> back(i) \in covering)
    BY <1>1, <1>3, <1>5, CoveringIs, SMTT(30)
  <1>8. covering \in SUBSET (1..N) /\ covering2 \in SUBSET (1..N)
    BY <1>1, <1>5, CoveringIs
  <1>9. \A i \in 1..N : Cap(turned, turned.rules[back(i)]) = Cap(policy, policy.rules[i])
                        /\ Cap(turned, turned.rules[i]) = Cap(policy, policy.rules[back(i)])
    <2>1. turned.defaultTTL = policy.defaultTTL
      BY <1>2
    <2>2. QED
      BY <1>5, <2>1 DEF Cap
  <1>10. covering # {} => best \in covering /\ \A j \in covering : Cap(policy, policy.rules[j]) <= Cap(policy, policy.rules[best])
    <2>1. covering \in SUBSET (DOMAIN policy.rules)
      BY <1>1, <1>8
    <2> HIDE DEF covering
    <2>2. QED
      BY <2>1, BestIsBest
  <1>11. covering2 # {} => best2 \in covering2 /\ \A j \in covering2 : Cap(turned, turned.rules[j]) <= Cap(turned, turned.rules[best2])
    <2>1. covering2 \in SUBSET (DOMAIN turned.rules)
      BY <1>5, <1>8
    <2> HIDE DEF covering2
    <2>2. QED
      BY <1>4, <2>1, BestIsBest
  <1> HIDE DEF covering, covering2, best, best2
  <1>12. covering = {} <=> covering2 = {}
    BY <1>7, <1>8
  <1>13. covering # {} => Cap(policy, policy.rules[best]) = Cap(turned, turned.rules[best2])
    <2> SUFFICES ASSUME covering # {} PROVE Cap(policy, policy.rules[best]) = Cap(turned, turned.rules[best2])
      OBVIOUS
    <2>1. best \in 1..N /\ best2 \in 1..N /\ best \in covering /\ best2 \in covering2
      BY <1>8, <1>10, <1>11, <1>12
    <2>2. back(best) \in covering2 /\ back(best2) \in covering
      BY <1>7, <2>1
    <2>3. Cap(policy, policy.rules[best]) <= Cap(turned, turned.rules[best2])
      BY <1>9, <1>11, <1>12, <2>1, <2>2
    <2>4. Cap(turned, turned.rules[best2]) <= Cap(policy, policy.rules[best])
      BY <1>9, <1>10, <2>1, <2>2
    <2>5. Cap(policy, policy.rules[best]) \in Int /\ Cap(turned, turned.rules[best2]) \in Int
      BY <1>1, <1>4, <1>5, <2>1, CapIs
    <2>6. QED
      BY <2>3, <2>4, <2>5
  <1>14. Outcome(policy, input) = Outcome(turned, input)
    <2>1. turned.defaultTTL = policy.defaultTTL
      BY <1>2
    <2>2. QED
      BY <1>6, <1>12, <1>13, <2>1 DEF Outcome, covering, covering2, best, best2
  <1>15. QED
    <2> DEFINE one == Resolve(policy, input)
               other == Resolve(turned, input)
    <2>1. /\ one.refusal = Outcome(policy, input)[1] /\ one.ttl = Outcome(policy, input)[2]
          /\ one.maxTTL = Outcome(policy, input)[3]
      BY ResolveIs
    <2>2. /\ other.refusal = Outcome(turned, input)[1] /\ other.ttl = Outcome(turned, input)[2]
          /\ other.maxTTL = Outcome(turned, input)[3]
      BY ResolveIs
    <2> HIDE DEF one, other
    <2>3. one.refusal = other.refusal /\ one.ttl = other.ttl /\ one.maxTTL = other.maxTTL
      BY <1>14, <2>1, <2>2
    <2>4. QED
      BY <2>3 DEF one, other, turned

\* What one rule grants alone it grants among others.
LEMMA OthersDoNotRefuse ==
    ASSUME NEW policy \in Policies, NEW input, input.ttl \in Int, ~IsGranted(policy, input),
           NEW j \in DOMAIN policy.rules
    PROVE  ~IsGranted([policy EXCEPT !.rules = <<@[j]>>], input)
  <1> DEFINE alone == [policy EXCEPT !.rules = <<@[j]>>]
  <1> SUFFICES ASSUME IsGranted(alone, input) PROVE FALSE
    OBVIOUS
  <1>1. policy.rules[j] \in GrantableRules
    BY CapIs
  <1>2. alone.rules = <<policy.rules[j]>> /\ alone.defaultTTL = policy.defaultTTL
    BY DEF Policies
  <1>3. alone \in Policies
    <2>1. <<policy.rules[j]>> \in Seq(GrantableRules)
      BY <1>1, OneRule
    <2>2. [policy EXCEPT !.rules = <<policy.rules[j]>>] \in Policies
      BY <2>1 DEF Policies
    <2>3. QED
      BY <2>2
  <1> HIDE DEF alone
  <1>4. Admissible(input) /\ \E i \in DOMAIN alone.rules : GrantedBy(alone, input, i)
    BY <1>3, ResolveGrants
  <1>5. DOMAIN alone.rules = {1} /\ alone.rules[1] = policy.rules[j]
    <2> DEFINE rule == policy.rules[j]
    <2>1. alone.rules = <<rule>> /\ rule \in GrantableRules
      BY <1>1, <1>2
    <2> HIDE DEF rule
    <2>2. DOMAIN alone.rules = {1} /\ alone.rules[1] = rule
      BY <2>1, OneRule
    <2>3. QED
      BY <2>2 DEF rule
  <1>6. GrantedBy(alone, input, 1)
    BY <1>4, <1>5
  <1>7. GrantedBy(policy, input, j)
    BY <1>2, <1>5, <1>6 DEF GrantedBy, Cap
  <1>8. QED
    BY <1>4, <1>7, ResolveGrants

\* A path that its rule matches can be had for as long as the rule's cap says.
LEMMA CatalogGranted ==
    ASSUME NEW policy \in Policies, LongEnough(policy), NEW i \in DOMAIN policy.rules,
           ValidateRule(policy.rules[i]), NEW path, MatchPattern(policy.rules[i].path, path),
           Concrete(path), ~deniedSegment(path)
    PROVE  IsGranted(policy, [path |-> path, capabilities |-> policy.rules[i].capabilities,
                              ttl |-> Cap(policy, policy.rules[i])])
  <1> DEFINE rule == policy.rules[i]
             cap == Cap(policy, rule)
             input == [path |-> path, capabilities |-> rule.capabilities, ttl |-> cap]
  <1>1. cap \in Int /\ cap >= Second /\ cap # NoTTL /\ Second \in Nat \ {0}
    BY CapIs, RulesAssumption DEF LongEnough, NoTTL
  <1>2. rule.capabilities # {} /\ rule.capabilities \subseteq Capabilities
    BY DEF ValidateRule
  <1>3. normalizeCapabilities(rule.capabilities) = rule.capabilities
    <2>1. \A c \in rule.capabilities : Spelling[c] = c
      BY <1>2, RulesAssumption
    <2>2. QED
      BY <2>1 DEF normalizeCapabilities
  <1>4. input.path = path /\ input.capabilities = rule.capabilities /\ input.ttl = cap
    OBVIOUS
  <1> HIDE DEF input, cap
  <1>5. Admissible(input)
    BY <1>1, <1>2, <1>3, <1>4 DEF Admissible, CapabilitiesRefused
  <1>6. Requested(input) <= cap
    BY <1>1, <1>4, TruncateIs DEF Requested
  <1>7. GrantedBy(policy, input, i)
    BY <1>3, <1>4, <1>6 DEF GrantedBy, cap
  <1>8. IsGranted(policy, input)
    BY <1>1, <1>4, <1>5, <1>7, ResolveGrants
  <1>9. QED
    BY <1>8 DEF input, cap

-----------------------------------------------------------------------------
(* Requesters *)

\* A token falls under a rule for a mount when that mount issued it.
LEMMA MountMatches ==
    ASSUME NEW mount \in Seq(Seq(Letter)), NEW issued \in Paths, NEW login \in Paths,
           mount # issued => ~IsPrefix(mount, issued) /\ ~IsPrefix(issued, mount)
    PROVE  HasPrefix(<<<<"auth">>>> \o issued \o login, <<<<"auth">>>> \o mount \o <<<<>>>>) <=> mount = issued
  <1> DEFINE S == Seq(Letter \cup {"auth"})
             auth == <<"auth">>
             u == <<auth>> \o issued
             path == u \o login
             v == <<auth>> \o mount
             prefix == v \o <<<<>>>>
  <1>1. /\ issued \in Seq(Seq(Letter)) /\ login \in Seq(Seq(Letter)) /\ Len(login) >= 1
        /\ Len(issued) \in Nat /\ Len(login) \in Nat /\ Len(mount) \in Nat
    BY DEF Paths
  <1>2. issued \in Seq(S) /\ login \in Seq(S) /\ mount \in Seq(S)
    <2>1. Seq(Letter) \subseteq S
      BY SeqMonotonic
    <2>2. \A s : s \in Seq(Seq(Letter)) => s \in Seq(S)
      BY <2>1, SeqMonotonic
    <2>3. QED
      BY <1>1, <2>2
  <1>3. auth \in S /\ <<>> \in S
    OBVIOUS
  <1> HIDE DEF S, auth
  <1>4. /\ <<auth>> \in Seq(S) /\ Len(<<auth>>) = 1 /\ <<auth>>[1] = auth
        /\ <<<<>>>> \in Seq(S) /\ Len(<<<<>>>>) = 1 /\ <<<<>>>>[1] = <<>>
    BY <1>3
  <1>5. /\ u \in Seq(S) /\ Len(u) = 1 + Len(issued) /\ u[1] = auth
        /\ \A k \in 1..Len(issued) : u[1 + k] = issued[k]
    BY <1>2, <1>4, ConcatProperties
  <1>6. /\ v \in Seq(S) /\ Len(v) = 1 + Len(mount) /\ v[1] = auth
        /\ \A k \in 1..Len(mount) : v[1 + k] = mount[k]
    BY <1>2, <1>4, ConcatProperties
  <1> HIDE DEF u, v
  <1>7. /\ path \in Seq(S) /\ Len(path) = Len(u) + Len(login) /\ \A i \in 1..Len(u) : path[i] = u[i]
    <2>1. u \in Seq(S) /\ login \in Seq(S)
      BY <1>2, <1>5
    <2>2. QED
      BY <2>1, ConcatProperties
  <1>8. /\ prefix \in Seq(S) /\ Len(prefix) = Len(v) + 1 /\ \A i \in 1..Len(v) : prefix[i] = v[i]
        /\ prefix[Len(v) + 1] = <<>>
    <2>1. /\ prefix \in Seq(S) /\ Len(prefix) = Len(v) + Len(<<<<>>>>) /\ \A i \in 1..Len(v) : prefix[i] = v[i]
          /\ \A k \in 1..Len(<<<<>>>>) : prefix[Len(v) + k] = <<<<>>>>[k]
      BY <1>4, <1>6, ConcatProperties
    <2>2. 1 \in 1..Len(<<<<>>>>)
      BY <1>4
    <2>3. prefix[Len(v) + 1] = <<<<>>>>[1]
      BY <2>1, <2>2
    <2>4. QED
      BY <1>4, <2>1, <2>3
  <1> HIDE DEF path, prefix
  <1>9. /\ path[1] = auth /\ prefix[1] = auth
        /\ \A k \in 1..Len(issued) : path[1 + k] = issued[k]
        /\ \A k \in 1..Len(mount) : prefix[1 + k] = mount[k]
    <2>1. 1 \in 1..Len(u) /\ 1 \in 1..Len(v)
      BY <1>1, <1>5, <1>6
    <2>2. \A k \in 1..Len(issued) : 1 + k \in 1..Len(u)
      BY <1>1, <1>5
    <2>3. \A k \in 1..Len(mount) : 1 + k \in 1..Len(v)
      BY <1>1, <1>6
    <2>4. QED
      BY <1>5, <1>6, <1>7, <1>8, <2>1, <2>2, <2>3
  <1>10. Len(path) = 1 + Len(issued) + Len(login) /\ Len(prefix) = 2 + Len(mount) /\ DOMAIN prefix = 1..(2 + Len(mount))
    <2>1. Len(prefix) = 2 + Len(mount)
      BY <1>1, <1>6, <1>8
    <2>2. QED
      BY <1>1, <1>5, <1>7, <1>8, <2>1
  <1>11. ASSUME HasPrefix(path, prefix), mount # issued PROVE FALSE
    <2>1. /\ 2 + Len(mount) <= 1 + Len(issued) + Len(login)
          /\ \A i \in 1..(1 + Len(mount)) : prefix[i] = path[i]
      <3>1. \A i \in 1..(1 + Len(mount)) : i \in DOMAIN prefix /\ i # Len(prefix)
        BY <1>1, <1>10
      <3>2. QED
        BY <1>10, <1>11, <3>1 DEF HasPrefix
    <2>2. \A k \in 1..Len(mount) : k \in 1..Len(issued) => mount[k] = issued[k]
      <3>1. \A k \in 1..Len(mount) : 1 + k \in 1..(1 + Len(mount))
        BY <1>1
      <3>2. QED
        BY <1>9, <2>1, <3>1
    <2>3. ~BeginsLike(mount, issued) /\ ~BeginsLike(issued, mount)
      <3>1. IsPrefix(mount, issued) <=> BeginsLike(mount, issued)
        BY <1>2, PrefixLetters
      <3>2. IsPrefix(issued, mount) <=> BeginsLike(issued, mount)
        BY <1>2, PrefixLetters
      <3>3. QED
        BY <1>11, <3>1, <3>2
    <2>4. CASE Len(mount) <= Len(issued)
      <3>1. BeginsLike(mount, issued)
        BY <1>1, <2>2, <2>4 DEF BeginsLike
      <3>2. QED
        BY <2>3, <3>1
    <2>5. CASE ~(Len(mount) <= Len(issued))
      <3>1. BeginsLike(issued, mount)
        BY <1>1, <2>2, <2>5 DEF BeginsLike
      <3>2. QED
        BY <2>3, <3>1
    <2>6. QED
      BY <2>4, <2>5
  <1>12. ASSUME mount = issued PROVE HasPrefix(path, prefix)
    <2>1. Len(prefix) <= Len(path) /\ Len(prefix) \in 1..Len(path)
      BY <1>1, <1>10, <1>12
    <2>2. IsPrefix(prefix[Len(prefix)], path[Len(prefix)])
      <3>1. prefix[Len(prefix)] = <<>> /\ path[Len(prefix)] \in S
        BY <1>7, <1>8, <2>1
      <3>2. path[Len(prefix)] \in Seq(Letter \cup {"auth"}) /\ <<>> \in Seq(Letter \cup {"auth"})
        BY <3>1 DEF S
      <3>3. BeginsLike(<<>>, path[Len(prefix)])
        BY <3>2 DEF BeginsLike
      <3>4. QED
        BY <3>1, <3>2, <3>3, PrefixLetters
    <2>3. ASSUME NEW i \in DOMAIN prefix, i # Len(prefix) PROVE prefix[i] = path[i]
      <3>1. CASE i = 1
        BY <1>9, <3>1
      <3>2. CASE i # 1
        <4>1. i - 1 \in 1..Len(mount) /\ 1 + (i - 1) = i
          BY <1>1, <1>10, <2>3, <3>2
        <4>2. prefix[1 + (i - 1)] = mount[i - 1] /\ path[1 + (i - 1)] = issued[i - 1]
          BY <1>9, <1>12, <4>1
        <4>3. QED
          BY <1>12, <4>1, <4>2
      <3>3. QED
        BY <3>1, <3>2
    <2>4. QED
      BY <2>1, <2>2, <2>3 DEF HasPrefix
  <1>13. HasPrefix(path, prefix) <=> mount = issued
    BY <1>11, <1>12
  <1>14. QED
    BY <1>13 DEF path, prefix, u, v, auth

-----------------------------------------------------------------------------
(* The configuration *)

PolicyFits(policy) ==
    /\ policy \in Policies /\ LongEnough(policy)
    /\ \A i \in DOMAIN policy.rules : ValidateRule(policy.rules[i])
\* The rules of the configuration that the server started with.
ConfigFits ==
    /\ config.state \in {"none", "refused", "loaded"}
    /\ ~Started => answer = NoAnswer
    /\ Started =>
          /\ PolicyFits(config.policy)
          /\ config.pendingTTL >= Second /\ config.sessionTTL >= Second
          /\ \A i \in DOMAIN config.methods : config.methods[i].type = "token" \/ config.methods[i].mount # ""
          /\ \E file \in Files : config.requesters = file.requesters /\ loadRequesters(file)
FilingIInv == ConfigFits /\ FilingInv

\* A path without its trailing slash is one.
LEMMA TrimmedIs ==
    ASSUME NEW path \in Paths PROVE TrimSlash(path) \in Paths
  <1>1. path \in Seq(Seq(Letter)) /\ Len(path) \in Nat
    BY DEF Paths
  <1>2. CASE Len(path) > 1
    <2> DEFINE front == SubSeq(path, 1, Len(path) - 1)
    <2>1. front \in Seq(Seq(Letter)) /\ Len(front) = Len(path) - 1
      BY <1>1, <1>2
    <2> HIDE DEF front
    <2>2. front \in Paths
      BY <1>1, <1>2, <2>1 DEF Paths
    <2>3. QED
      BY <2>2 DEF TrimSlash, Front, front
  <1>3. CASE ~(Len(path) > 1)
    BY <1>3 DEF TrimSlash
  <1>4. QED
    BY <1>2, <1>3

\* A duration that Load accepts, or its default, is at least a second.
LEMMA PositiveIs ==
    ASSUME NEW ttl \in Int, PositiveDuration(ttl), NEW default \in Int
    PROVE  /\ PositiveOr(ttl, default) \in Int
           /\ default >= Second => PositiveOr(ttl, default) >= Second
           /\ PositiveOr(ttl, 0) \in Int /\ (PositiveOr(ttl, 0) = 0 \/ PositiveOr(ttl, 0) >= Second)
  BY RulesAssumption DEF PositiveDuration, PositiveOr

LoginMethods == [type : STRING, mount : STRING, role : STRING]
FileTyped(file) ==
    /\ file.defaultTTL \in Int /\ file.pendingTTL \in Int /\ file.sessionTTL \in Int
    /\ file.grantable \in Seq(GrantableRules) /\ file.login.methods \in Seq(LoginMethods)
\* What a configuration file may say.
LEMMA FilesTyped ==
    ASSUME NEW file \in Files PROVE FileTyped(file)
  BY FilingAssumption DEF FileTyped, GrantableRules, LoginMethods
\* The defaults are durations of at least a second.
LEMMA DefaultsTyped ==
    \A ttl \in {DefaultGrantTTL, DefaultPendingTTL, DefaultSessionTTL} : ttl \in Int /\ ttl >= Second
  BY FilingAssumption

\* What Load makes of the rules of a file it accepts.
LEMMA LoadedPolicyFits ==
    ASSUME NEW file, FileTyped(file), loadGrants(file)
    PROVE  PolicyFits([rules |-> [i \in DOMAIN file.grantable |-> Rule(file.grantable[i])],
                       defaultTTL |-> PositiveOr(file.defaultTTL, DefaultGrantTTL)])
  <1> DEFINE entries == file.grantable
             rules == [i \in DOMAIN entries |-> Rule(entries[i])]
             ttl == PositiveOr(file.defaultTTL, DefaultGrantTTL)
             policy == [rules |-> rules, defaultTTL |-> ttl]
  <1>1. Len(entries) \in Nat /\ DOMAIN entries = 1..Len(entries)
        /\ \A i \in DOMAIN entries : entries[i] \in GrantableRules
    <2>1. entries \in Seq(GrantableRules)
      BY DEF FileTyped
    <2> HIDE DEF entries
    <2>2. QED
      BY <2>1
  <1>2. \A i \in DOMAIN entries : PositiveDuration(entries[i].maxTTL) /\ ValidateRule(Rule(entries[i]))
    BY DEF loadGrants
  <1>3. ASSUME NEW i \in DOMAIN entries
        PROVE  /\ Rule(entries[i]) \in GrantableRules
               /\ Rule(entries[i]).maxTTL \in Int
               /\ Rule(entries[i]).maxTTL = 0 \/ Rule(entries[i]).maxTTL >= Second
    <2> DEFINE entry == entries[i]
    <2>1. entry \in GrantableRules /\ PositiveDuration(entry.maxTTL)
      BY <1>1, <1>2
    <2> HIDE DEF entry
    <2>2. /\ entry.name \in STRING /\ entry.path \in Patterns /\ entry.capabilities \in SUBSET STRING
          /\ entry.maxTTL \in Int /\ entry.discover \in Paths
      BY <2>1 DEF GrantableRules
    <2>3. TrimSlash(entry.discover) \in Paths
      BY <2>2, TrimmedIs
    <2>4. PositiveOr(entry.maxTTL, 0) \in Int /\ (PositiveOr(entry.maxTTL, 0) = 0 \/ PositiveOr(entry.maxTTL, 0) >= Second)
      BY <2>1, <2>2, PositiveIs
    <2>5. Rule(entry) \in GrantableRules /\ Rule(entry).maxTTL = PositiveOr(entry.maxTTL, 0)
      BY <2>2, <2>3, <2>4 DEF Rule, GrantableRules
    <2>6. QED
      BY <2>4, <2>5 DEF entry
  <1>4. ttl \in Int /\ ttl >= Second
    <2>1. file.defaultTTL \in Int /\ PositiveDuration(file.defaultTTL)
      BY DEF FileTyped, loadGrants
    <2>2. DefaultGrantTTL \in Int /\ DefaultGrantTTL >= Second
      BY DefaultsTyped
    <2>3. QED
      BY <2>1, <2>2, PositiveIs
  <1> HIDE DEF entries, ttl
  <1>5. rules \in Seq(GrantableRules) /\ DOMAIN rules = DOMAIN entries
    <2>1. rules \in [1..Len(entries) -> GrantableRules]
      BY <1>1, <1>3
    <2>2. QED
      BY <1>1, <2>1, SeqDef
  <1>6. \A i \in DOMAIN entries : rules[i] = Rule(entries[i])
    OBVIOUS
  <1> HIDE DEF rules
  <1>7. policy.rules = rules /\ policy.defaultTTL = ttl /\ policy \in Policies
    BY <1>4, <1>5 DEF Policies
  <1> HIDE DEF policy
  <1>8. \A i \in DOMAIN policy.rules : ValidateRule(policy.rules[i])
    BY <1>2, <1>5, <1>6, <1>7
  <1>9. LongEnough(policy)
    <2>1. ASSUME NEW i \in DOMAIN policy.rules PROVE Cap(policy, policy.rules[i]) >= Second
      <3> DEFINE rule == policy.rules[i]
      <3>1. rule.maxTTL \in Int /\ (rule.maxTTL = 0 \/ rule.maxTTL >= Second)
        BY <1>3, <1>5, <1>6, <1>7
      <3> HIDE DEF rule
      <3>2. Cap(policy, rule) >= Second
        BY <1>4, <1>7, <3>1, RulesAssumption DEF Cap
      <3>3. QED
        BY <3>2 DEF rule
    <2>2. QED
      BY <1>4, <1>7, <2>1 DEF LongEnough
  <1>10. PolicyFits(policy)
    BY <1>7, <1>8, <1>9 DEF PolicyFits
  <1>11. QED
    BY <1>10 DEF policy, rules, ttl, entries

\* A loaded login method has its mount, but for tokens (loadApproverLogin).
LEMMA LoadedMethodsFit ==
    ASSUME NEW file, FileTyped(file), loadApproverLogin(file)
    PROVE  \A i \in DOMAIN Methods(file) : Methods(file)[i].type = "token" \/ Methods(file)[i].mount # ""
  <1> DEFINE methods == file.login.methods
  <1>1. CASE methods = <<>>
    <2> DEFINE method == [type |-> "token", mount |-> "", role |-> ""]
    <2>1. Methods(file) = <<method>> /\ method.type = "token"
      BY <1>1 DEF Methods
    <2> HIDE DEF method
    <2>2. DOMAIN Methods(file) = {1} /\ Methods(file)[1] = method
      BY <2>1, OneRule
    <2>3. QED
      BY <2>1, <2>2
  <1>2. CASE methods # <<>>
    <2> SUFFICES ASSUME NEW i \in DOMAIN Methods(file)
                 PROVE  Methods(file)[i].type = "token" \/ Methods(file)[i].mount # ""
      OBVIOUS
    <2> DEFINE method == methods[i]
    <2>1. i \in DOMAIN methods
          /\ Methods(file)[i] = (IF method.mount = "" /\ method.type # "token"
                                 THEN [method EXCEPT !.mount = method.type] ELSE method)
      BY <1>2 DEF Methods
    <2>2. method \in LoginMethods
      <3>1. methods \in Seq(LoginMethods)
        BY DEF FileTyped
      <3>2. i \in DOMAIN methods
        BY <2>1
      <3> HIDE DEF methods
      <3>3. QED
        BY <3>1, <3>2
    <2>3. method.type \in LoginTypes
      BY <2>1 DEF loadApproverLogin
    <2>4. method.type # ""
      BY <2>3 DEF LoginTypes
    <2> HIDE DEF method
    <2>5. CASE method.mount = "" /\ method.type # "token"
      <3>1. [method EXCEPT !.mount = method.type].mount = method.type
        BY <2>2 DEF LoginMethods
      <3>2. QED
        BY <2>1, <2>4, <2>5, <3>1
    <2>6. CASE ~(method.mount = "" /\ method.type # "token")
      BY <2>1, <2>6
    <2>7. QED
      BY <2>5, <2>6
  <1>3. QED
    BY <1>1, <1>2

-----------------------------------------------------------------------------
(* The items of a request *)

InputTyped(input) == input.path \in Paths /\ input.ttl \in Int
\* What CreateRequest answers for each item, before the configuration is asked.
Filed(policy, inputs, items, granted) ==
    LET resolved == [i \in DOMAIN inputs |-> Resolve(policy, inputs[i])]
    IN  items = [i \in DOMAIN inputs |-> Item(resolved, i, inputs[i], granted)]
IsDuplicate(policy, inputs, i) ==
    \E j \in 1..(i - 1) : IsGranted(policy, inputs[j]) /\ Alike(Resolve(policy, inputs[j]), Resolve(policy, inputs[i]))

WasRepeated(item) == item.why = "duplicate"
\* An item is refused unless it is granted and repeats no granted item before it (CreateRequest).
LEMMA ItemIs ==
    ASSUME NEW policy, NEW n \in Nat, NEW inputs, DOMAIN inputs = 1..n, NEW granted,
           NEW items, Filed(policy, inputs, items, granted), NEW i \in 1..n
    PROVE  /\ i \in DOMAIN items
           /\ items[i].state # "refused" <=> IsGranted(policy, inputs[i]) /\ ~IsDuplicate(policy, inputs, i)
           /\ items[i].state \in {"refused", "already_granted", "pending"}
           /\ WasRepeated(items[i]) <=> IsGranted(policy, inputs[i]) /\ IsDuplicate(policy, inputs, i)
           /\ IsGranted(policy, inputs[i]) /\ ~IsDuplicate(policy, inputs, i) =>
                 /\ items[i].path = Resolve(policy, inputs[i]).path
                 /\ items[i].capabilities = Resolve(policy, inputs[i]).capabilities
                 /\ items[i].ttl = Resolve(policy, inputs[i]).ttl
           /\ IsGranted(policy, inputs[i]) /\ IsDuplicate(policy, inputs, i) =>
                 /\ items[i].path = inputs[i].path
                 /\ ~CapabilitiesRefused(inputs[i].capabilities) =>
                       items[i].capabilities = normalizeCapabilities(inputs[i].capabilities)
  <1> DEFINE resolved == [j \in DOMAIN inputs |-> Resolve(policy, inputs[j])]
             one == Resolve(policy, inputs[i])
             item == Item(resolved, i, inputs[i], granted)
  <1>1. i \in DOMAIN items /\ items[i] = item
    BY DEF Filed
  <1>2. resolved[i] = one /\ \A j \in 1..(i - 1) : resolved[j] = Resolve(policy, inputs[j])
    OBVIOUS
  <1> HIDE DEF resolved
  <1>3. Duplicate(resolved, i) <=> IsDuplicate(policy, inputs, i)
    BY <1>2 DEF Duplicate, IsDuplicate, IsGranted
  <1>4. one.refusal # "duplicate"
    BY ResolveIs, ZenonT(60)
  <1> HIDE DEF one
  <1>5. one.refusal = "" <=> IsGranted(policy, inputs[i])
    BY DEF one, IsGranted
  <1>6. item = IF one.refusal # "" THEN RefusedItem(inputs[i], one.refusal)
               ELSE IF IsDuplicate(policy, inputs, i) THEN RefusedItem(inputs[i], "duplicate")
               ELSE [state |-> IF Covers(granted[one.path], one.capabilities) THEN "already_granted" ELSE "pending",
                     why |-> "", path |-> one.path, capabilities |-> one.capabilities,
                     ttl |-> one.ttl, maxTTL |-> one.maxTTL]
    BY <1>2, <1>3 DEF Item
  <1> HIDE DEF item
  <1>7. CASE ~IsGranted(policy, inputs[i])
    <2>1. item.state = "refused" /\ item.why = one.refusal
      BY <1>5, <1>6, <1>7 DEF RefusedItem
    <2>2. QED
      BY <1>1, <1>4, <1>7, <2>1 DEF WasRepeated
  <1>8. CASE IsGranted(policy, inputs[i]) /\ IsDuplicate(policy, inputs, i)
    <2>1. item = RefusedItem(inputs[i], "duplicate")
      BY <1>5, <1>6, <1>8
    <2>2. /\ item.state = "refused" /\ item.why = "duplicate" /\ item.path = inputs[i].path
          /\ ~CapabilitiesRefused(inputs[i].capabilities) =>
                item.capabilities = normalizeCapabilities(inputs[i].capabilities)
      BY <2>1 DEF RefusedItem
    <2>3. QED
      BY <1>1, <1>8, <2>2 DEF WasRepeated
  <1>9. CASE IsGranted(policy, inputs[i]) /\ ~IsDuplicate(policy, inputs, i)
    <2>1. /\ item.state \in {"already_granted", "pending"} /\ item.why = "" /\ item.path = one.path
          /\ item.capabilities = one.capabilities /\ item.ttl = one.ttl
      BY <1>5, <1>6, <1>9
    <2>2. QED
      BY <1>1, <1>9, <2>1 DEF one, WasRepeated
  <1>10. QED
    BY <1>7, <1>8, <1>9

\* PendingItemsAreGrantable, of one accepted item.
ItemGrantable(policy, item) ==
    /\ \A j \in DOMAIN item.path : ToLower(item.path[j]) \notin Denied
    /\ \E j \in DOMAIN policy.rules :
          LET rule == policy.rules[j] IN
          /\ GlobMatches(rule.path, item.path)
          /\ item.capabilities # {} /\ item.capabilities \subseteq rule.capabilities
          /\ Second <= item.ttl /\ item.ttl <= Cap(policy, rule)
\* What Resolve grants, a rule allows on OpenBao's reading of it, and nothing in it is denied.
LEMMA GrantedIsGrantable ==
    ASSUME NEW policy, PolicyFits(policy), NEW input, InputTyped(input), IsGranted(policy, input)
    PROVE  ItemGrantable(policy, Resolve(policy, input))
  <1> DEFINE item == Resolve(policy, input)
  <1>1. policy \in Policies /\ LongEnough(policy) /\ input.ttl \in Int /\ input.path \in Paths
    BY DEF PolicyFits, InputTyped
  <1>2. /\ Admissible(input) /\ item.path = input.path
        /\ item.capabilities = normalizeCapabilities(input.capabilities)
        /\ \E j \in DOMAIN policy.rules :
              /\ MatchPattern(policy.rules[j].path, item.path)
              /\ item.capabilities \subseteq policy.rules[j].capabilities
              /\ Second <= item.ttl /\ item.ttl <= Cap(policy, policy.rules[j])
    BY <1>1, ResolveGranted
  <1> HIDE DEF item
  <1>3. \A j \in DOMAIN item.path : ToLower(item.path[j]) \notin Denied
    BY <1>2 DEF Admissible, deniedSegment
  <1>4. item.capabilities # {}
    <2>1. input.capabilities # {}
      BY <1>2 DEF Admissible, CapabilitiesRefused
    <2>2. QED
      BY <1>2, <2>1 DEF normalizeCapabilities
  <1>5. PICK j \in DOMAIN policy.rules :
              /\ MatchPattern(policy.rules[j].path, item.path)
              /\ item.capabilities \subseteq policy.rules[j].capabilities
              /\ Second <= item.ttl /\ item.ttl <= Cap(policy, policy.rules[j])
    BY <1>2
  <1>6. GlobMatches(policy.rules[j].path, item.path)
    <2>1. policy.rules[j].path \in Patterns
      BY <1>1, CapIs DEF GrantableRules
    <2>2. validatePattern(policy.rules[j].path)
      BY DEF PolicyFits, ValidateRule
    <2>3. QED
      BY <1>1, <1>2, <1>5, <2>1, <2>2, MatchIsGlob
  <1>7. ItemGrantable(policy, item)
    BY <1>3, <1>4, <1>5, <1>6 DEF ItemGrantable
  <1>8. QED
    BY <1>7 DEF item

\* RepeatsAreRefused: of the items that resolve alike the first is accepted.
LEMMA FirstOfItsKind ==
    ASSUME NEW policy, NEW inputs, NEW i \in Nat, IsDuplicate(policy, inputs, i)
    PROVE  \E k \in 1..(i - 1) : /\ IsGranted(policy, inputs[k]) /\ ~IsDuplicate(policy, inputs, k)
                                 /\ Alike(Resolve(policy, inputs[k]), Resolve(policy, inputs[i]))
  <1> DEFINE T == {k \in 1..(i - 1) : IsGranted(policy, inputs[k])
                                      /\ Alike(Resolve(policy, inputs[k]), Resolve(policy, inputs[i]))}
  <1>1. T # {} /\ T \in SUBSET Nat
    BY DEF IsDuplicate
  <1>2. PICK k \in T : \A m \in T : k <= m
    <2> HIDE DEF T
    <2>1. QED
      BY <1>1, LeastNumber
  <1>3. ASSUME IsDuplicate(policy, inputs, k) PROVE FALSE
    <2>1. PICK m \in 1..(k - 1) : IsGranted(policy, inputs[m]) /\ Alike(Resolve(policy, inputs[m]), Resolve(policy, inputs[k]))
      BY <1>3 DEF IsDuplicate
    <2>2. Alike(Resolve(policy, inputs[m]), Resolve(policy, inputs[i]))
      BY <1>2, <2>1 DEF Alike
    <2>3. m \in 1..(i - 1) /\ m < k
      BY <1>2
    <2>4. m \in T
      BY <2>1, <2>2, <2>3
    <2>5. QED
      BY <1>2, <2>3, <2>4
  <1>4. QED
    BY <1>2, <1>3

\* The items of a request are grantable unless refused, and no two of them alike.
LEMMA FiledFits ==
    ASSUME NEW policy, PolicyFits(policy), NEW n \in Nat, NEW inputs, DOMAIN inputs = 1..n,
           \A i \in 1..n : InputTyped(inputs[i]), NEW granted, NEW items, Filed(policy, inputs, items, granted)
    PROVE  /\ DOMAIN items = 1..n
           /\ \A i \in 1..n : items[i].state \in {"refused", "already_granted", "pending"}
           /\ \A i \in 1..n : items[i].state # "refused" => ItemGrantable(policy, items[i])
           /\ \A i \in 1..n : items[i].state = "refused" /\ ~WasRepeated(items[i]) => ~IsGranted(policy, inputs[i])
           /\ \A i, j \in 1..n : i # j /\ items[i].state # "refused" /\ items[j].state # "refused" =>
                 <<items[i].path, items[i].capabilities>> # <<items[j].path, items[j].capabilities>>
           /\ \A i \in 1..n : WasRepeated(items[i]) =>
                 \E k \in 1..n : /\ k < i /\ items[k].state # "refused" /\ items[k].path = items[i].path
                                 /\ items[k].capabilities = items[i].capabilities
  <1>1. DOMAIN items = 1..n
    BY DEF Filed
  <1>2. \A i \in 1..n : items[i].state \in {"refused", "already_granted", "pending"}
    BY ItemIs
  <1>3. ASSUME NEW i \in 1..n, items[i].state # "refused" PROVE ItemGrantable(policy, items[i])
    <2>1. IsGranted(policy, inputs[i]) /\ ~IsDuplicate(policy, inputs, i)
      BY <1>3, ItemIs
    <2>2. ItemGrantable(policy, Resolve(policy, inputs[i]))
      BY <2>1, GrantedIsGrantable
    <2>3. /\ items[i].path = Resolve(policy, inputs[i]).path
          /\ items[i].capabilities = Resolve(policy, inputs[i]).capabilities
          /\ items[i].ttl = Resolve(policy, inputs[i]).ttl
      BY <2>1, ItemIs
    <2>4. QED
      BY <2>2, <2>3 DEF ItemGrantable
  <1>4. ASSUME NEW i \in 1..n, items[i].state = "refused", ~WasRepeated(items[i]) PROVE ~IsGranted(policy, inputs[i])
    BY <1>4, ItemIs
  <1>5. ASSUME NEW i \in 1..n, NEW j \in 1..n, i < j, items[i].state # "refused", items[j].state # "refused"
        PROVE  <<items[i].path, items[i].capabilities>> # <<items[j].path, items[j].capabilities>>
    <2>1. IsGranted(policy, inputs[i]) /\ ~IsDuplicate(policy, inputs, i)
      BY <1>5, ItemIs
    <2>2. IsGranted(policy, inputs[j]) /\ ~IsDuplicate(policy, inputs, j)
      BY <1>5, ItemIs
    <2>3. i \in 1..(j - 1)
      BY <1>5
    <2>4. ~Alike(Resolve(policy, inputs[i]), Resolve(policy, inputs[j]))
      BY <2>1, <2>2, <2>3 DEF IsDuplicate
    <2>5. /\ items[i].path = Resolve(policy, inputs[i]).path
          /\ items[i].capabilities = Resolve(policy, inputs[i]).capabilities
      BY <2>1, ItemIs
    <2>6. /\ items[j].path = Resolve(policy, inputs[j]).path
          /\ items[j].capabilities = Resolve(policy, inputs[j]).capabilities
      BY <2>2, ItemIs
    <2>7. QED
      BY <2>4, <2>5, <2>6 DEF Alike
  <1>6. ASSUME NEW i \in 1..n, NEW j \in 1..n, i # j, items[i].state # "refused", items[j].state # "refused"
        PROVE  <<items[i].path, items[i].capabilities>> # <<items[j].path, items[j].capabilities>>
    <2>1. i < j \/ j < i
      BY <1>6
    <2>2. QED
      BY <1>5, <1>6, <2>1
  <1>7. ASSUME NEW i \in 1..n, WasRepeated(items[i])
        PROVE  \E k \in 1..n : /\ k < i /\ items[k].state # "refused" /\ items[k].path = items[i].path
                               /\ items[k].capabilities = items[i].capabilities
    <2>1. IsGranted(policy, inputs[i]) /\ IsDuplicate(policy, inputs, i)
      BY <1>7, ItemIs
    <2>2. PICK k \in 1..(i - 1) : /\ IsGranted(policy, inputs[k]) /\ ~IsDuplicate(policy, inputs, k)
                                  /\ Alike(Resolve(policy, inputs[k]), Resolve(policy, inputs[i]))
      BY <2>1, FirstOfItsKind
    <2>3. k \in 1..n /\ k < i
      OBVIOUS
    <2>4. /\ items[k].state # "refused" /\ items[k].path = Resolve(policy, inputs[k]).path
          /\ items[k].capabilities = Resolve(policy, inputs[k]).capabilities
      BY <2>2, <2>3, ItemIs
    <2>5. policy \in Policies /\ inputs[i].ttl \in Int
      BY DEF PolicyFits, InputTyped
    <2>6. ~CapabilitiesRefused(inputs[i].capabilities)
      BY <2>1, <2>5, ResolveGrants DEF Admissible
    <2>7. items[i].path = inputs[i].path /\ items[i].capabilities = normalizeCapabilities(inputs[i].capabilities)
      BY <2>1, <2>6, ItemIs
    <2>8. /\ Resolve(policy, inputs[i]).path = inputs[i].path
          /\ Resolve(policy, inputs[i]).capabilities = normalizeCapabilities(inputs[i].capabilities)
      BY <2>1, GrantedItem DEF IsGranted
    <2>9. QED
      BY <2>2, <2>3, <2>4, <2>7, <2>8 DEF Alike
  <1>8. QED
    BY <1>1, <1>2, <1>3, <1>4, <1>6, <1>7

-----------------------------------------------------------------------------
(* Each call keeps the invariant *)

\* Load leaves a configuration that fits, or none.
LEMMA LoadKeeps ==
    ASSUME FilingIInv, NEW file \in Files, Load(file)
    PROVE  FilingIInv'
  <1>1. config = NoConfig /\ answer' = answer /\ ConfigFits
    BY DEF Load, FilingIInv
  <1>2. answer' = NoAnswer
    BY <1>1 DEF ConfigFits, Started, NoConfig
  <1>3. answer'.call = "none"
    BY <1>2 DEF NoAnswer
  <1>4. ConfigFits'
    <2>1. CASE config' = RefusedConfig
      BY <1>2, <2>1 DEF ConfigFits, Started, RefusedConfig
    <2>2. CASE config' # RefusedConfig
      <3> DEFINE policy == [rules |-> [i \in DOMAIN file.grantable |-> Rule(file.grantable[i])],
                            defaultTTL |-> PositiveOr(file.defaultTTL, DefaultGrantTTL)]
                 pending == PositiveOr(file.pendingTTL, DefaultPendingTTL)
                 session == PositiveOr(file.sessionTTL, DefaultSessionTTL)
                 methods == Methods(file)
                 push == file.webPush # <<>>
      <3>1. /\ PositiveDuration(file.sessionTTL) /\ loadApproverLogin(file)
            /\ loadRequesters(file) /\ loadGrants(file)
            /\ config' = [state |-> "loaded", policy |-> policy, pendingTTL |-> pending, sessionTTL |-> session,
                          requesters |-> file.requesters, methods |-> methods, push |-> push]
        BY <2>2 DEF Load
      <3>2. FileTyped(file)
        BY FilesTyped
      <3>3. PolicyFits(policy)
        BY <3>1, <3>2, LoadedPolicyFits
      <3>4. \A i \in DOMAIN methods : methods[i].type = "token" \/ methods[i].mount # ""
        BY <3>1, <3>2, LoadedMethodsFit
      <3>5. pending >= Second /\ session >= Second
        <4>1. file.pendingTTL \in Int /\ file.sessionTTL \in Int
          BY <3>2 DEF FileTyped
        <4>2. PositiveDuration(file.pendingTTL) /\ PositiveDuration(file.sessionTTL)
          BY <3>1 DEF loadGrants
        <4>3. DefaultPendingTTL \in Int /\ DefaultPendingTTL >= Second /\ DefaultSessionTTL \in Int /\ DefaultSessionTTL >= Second
          BY DefaultsTyped
        <4>4. QED
          BY <4>1, <4>2, <4>3, PositiveIs
      <3> HIDE DEF policy, pending, session, methods, push
      <3>6. /\ config'.state = "loaded" /\ config'.policy = policy /\ config'.pendingTTL = pending
            /\ config'.sessionTTL = session /\ config'.requesters = file.requesters /\ config'.methods = methods
        BY <3>1
      <3>7. \E f \in Files : config'.requesters = f.requesters /\ loadRequesters(f)
        BY <3>1, <3>6
      <3>8. QED
        BY <3>3, <3>4, <3>5, <3>6, <3>7 DEF ConfigFits, Started
    <2>3. QED
      BY <2>1, <2>2
  <1>5. FilingInv'
    <2>1. TypeOK'
      BY <1>3, <1>4 DEF TypeOK, ConfigFits, PolicyFits, LongEnough, Started
    <2>2. PendingItemsAreGrantable' /\ RepeatsAreRefused' /\ OtherRulesDoNotRefuse'
          /\ OrderOfRulesIsFree' /\ CatalogIsRequestable' /\ RequestersFitTheirRule'
      BY <1>3 DEF PendingItemsAreGrantable, RepeatsAreRefused, OtherRulesDoNotRefuse,
                  OrderOfRulesIsFree, CatalogIsRequestable, RequestersFitTheirRule
    <2>3. QED
      BY <2>1, <2>2 DEF FilingInv
  <1>6. QED
    BY <1>4, <1>5 DEF FilingIInv

\* A call leaves the configuration as it is.
LEMMA ConfigStays ==
    ASSUME ConfigFits, Started, config' = config
    PROVE  /\ ConfigFits' /\ PolicyFits(config.policy)
           /\ answer'.call \in {"none", "authenticate", "grantables"} => TypeOK'
           /\ answer'.call = "create" /\ (\A i \in DOMAIN answer'.items :
                 answer'.items[i].state \in {"refused", "already_granted", "pending"}) => TypeOK'
  <1>1. ConfigFits' /\ PolicyFits(config.policy)
    BY DEF ConfigFits, Started
  <1>2. /\ config'.state \in {"none", "refused", "loaded"}
        /\ config'.policy.defaultTTL >= Second /\ config'.pendingTTL >= Second /\ config'.sessionTTL >= Second
        /\ \A i \in DOMAIN config'.methods : config'.methods[i].type = "token" \/ config'.methods[i].mount # ""
    BY <1>1 DEF ConfigFits, PolicyFits, LongEnough
  <1>3. QED
    BY <1>1, <1>2 DEF TypeOK

\* Authenticate names a Requester that the token fits, the first there is.
LEMMA AuthenticateKeeps ==
    ASSUME FilingIInv, NEW token \in Tokens, Authenticate(token)
    PROVE  FilingIInv'
  <1> DEFINE rules == {i \in DOMAIN config.requesters : matches(config.requesters[i], token)}
             first == CHOOSE i \in rules : \A j \in rules : i <= j
             Fits(i) == IF config.requesters[i].role # "" THEN token.role = config.requesters[i].role
                        ELSE token.mount = config.requesters[i].mount
  <1>1. ConfigFits /\ Started /\ config' = config
    BY DEF Authenticate, FilingIInv, Serving
  <1>2. /\ answer'.call = "authenticate" /\ answer'.token = token
        /\ answer'.rule # 0 => rules # {} /\ answer'.rule = first /\ answer'.as = token.entity /\ token.entity # ""
    <2>1. answer' = IF token.lookup # "found"
                    THEN [call |-> "authenticate", token |-> token, as |-> token.lookup, rule |-> 0]
                    ELSE IF rules = {} \/ token.entity = ""
                    THEN [call |-> "authenticate", token |-> token, as |-> "not_requester", rule |-> 0]
                    ELSE [call |-> "authenticate", token |-> token, as |-> token.entity, rule |-> first]
      BY DEF Authenticate
    <2> HIDE DEF rules, first
    <2>2. CASE token.lookup # "found"
      BY <2>1, <2>2
    <2>3. CASE token.lookup = "found" /\ (rules = {} \/ token.entity = "")
      BY <2>1, <2>3
    <2>4. CASE token.lookup = "found" /\ ~(rules = {} \/ token.entity = "")
      BY <2>1, <2>4
    <2>5. QED
      BY <2>2, <2>3, <2>4
  <1>3. PICK file \in Files : config.requesters = file.requesters /\ loadRequesters(file)
    BY <1>1 DEF ConfigFits
  <1>4. config.requesters \in Seq([name : STRING, role : STRING, mount : Seq(Seq(Letter))])
    BY <1>3, FilingAssumption
  <1>5. DOMAIN config.requesters = 1..Len(config.requesters) /\ Len(config.requesters) \in Nat
    BY <1>4
  <1>6. token.mount \in Paths /\ token.login \in Paths
    BY FilingAssumption
  <1>7. ASSUME NEW i \in DOMAIN config.requesters PROVE i \in rules <=> Fits(i)
    <2> DEFINE rule == config.requesters[i]
    <2>1. rule.mount \in Seq(Seq(Letter))
      <3>1. rule \in [name : STRING, role : STRING, mount : Seq(Seq(Letter))]
        BY <1>4, EntryIs
      <3> HIDE DEF rule
      <3>2. QED
        BY <3>1
    <2>2. i \in DOMAIN file.requesters /\ rule = file.requesters[i]
      BY <1>3
    <2>3. (rule.role = "") # (rule.mount = <<>>)
      BY <1>3, <2>2 DEF loadRequesters
    <2>4. rule.mount \notin {<<>>, token.mount} =>
              ~IsPrefix(rule.mount, token.mount) /\ ~IsPrefix(token.mount, rule.mount)
      BY <2>2, FilingAssumption
    <2>5. i \in rules <=> matches(rule, token)
      OBVIOUS
    <2>6. Fits(i) <=> IF rule.role # "" THEN token.role = rule.role ELSE token.mount = rule.mount
      OBVIOUS
    <2> HIDE DEF rule, Fits, rules
    <2>7. CASE rule.role # ""
      BY <2>5, <2>6, <2>7 DEF matches
    <2>8. CASE rule.role = ""
      <3>1. rule.mount # token.mount => ~IsPrefix(rule.mount, token.mount) /\ ~IsPrefix(token.mount, rule.mount)
        BY <2>3, <2>4, <2>8
      <3>2. HasPrefix(<<<<"auth">>>> \o token.mount \o token.login, <<<<"auth">>>> \o rule.mount \o <<<<>>>>)
               <=> rule.mount = token.mount
        BY <1>6, <2>1, <3>1, MountMatches
      <3>3. QED
        BY <2>5, <2>6, <2>8, <3>2 DEF matches
    <2>9. QED
      BY <2>7, <2>8
  <1>8. rules # {} => first \in rules /\ \A j \in rules : first <= j
    <2>1. rules \in SUBSET Nat
      BY <1>5
    <2> HIDE DEF rules
    <2>2. QED
      BY <2>1, LeastNumber
  <1>9. RequestersFitTheirRule'
    <2> SUFFICES ASSUME answer'.rule # 0
                 PROVE  Fits(first) /\ answer'.as # "" /\ \A i \in 1..(first - 1) : ~Fits(i)
      <3> HIDE DEF rules, first
      <3>1. QED
        BY <1>1, <1>2 DEF RequestersFitTheirRule
    <2>1. first \in rules /\ first \in DOMAIN config.requesters /\ \A j \in rules : first <= j
      BY <1>2, <1>8
    <2> HIDE DEF rules, first, Fits
    <2>2. ASSUME NEW i \in 1..(first - 1) PROVE ~Fits(i)
      <3>1. i \in DOMAIN config.requesters /\ ~(first <= i)
        BY <1>5, <2>1
      <3>2. QED
        BY <1>7, <2>1, <3>1
    <2>3. QED
      BY <1>2, <1>7, <2>1, <2>2
  <1>10. TypeOK' /\ ConfigFits'
    BY <1>1, <1>2, ConfigStays
  <1>11. PendingItemsAreGrantable' /\ RepeatsAreRefused' /\ OtherRulesDoNotRefuse'
         /\ OrderOfRulesIsFree' /\ CatalogIsRequestable'
    BY <1>2 DEF PendingItemsAreGrantable, RepeatsAreRefused, OtherRulesDoNotRefuse,
                OrderOfRulesIsFree, CatalogIsRequestable
  <1>12. QED
    BY <1>9, <1>10, <1>11 DEF FilingIInv, FilingInv

\* CreateRequest files what fits the rules, whatever other rules there are and in any order.
LEMMA CreateKeeps ==
    ASSUME FilingIInv, NEW reason, NEW n \in Nat, NEW inputs \in [1..n -> Inputs], CreateRequest(reason, inputs)
    PROVE  FilingIInv'
  <1>1. ConfigFits /\ Started /\ config' = config
    BY DEF CreateRequest, FilingIInv, Serving
  <1> DEFINE policy == config.policy
  <1>2. PolicyFits(policy) /\ ConfigFits'
    BY <1>1, ConfigStays
  <1>3. DOMAIN inputs = 1..n /\ \A i \in 1..n : InputTyped(inputs[i])
    BY FilingAssumption DEF InputTyped
  <1>4. answer'.call = "create" /\ answer'.inputs = inputs
        /\ \/ answer'.as = "invalid" /\ answer'.items = <<>>
           \/ answer'.as = "filed" /\ \E granted : Filed(policy, inputs, answer'.items, granted)
    <2>1. CASE reason # "text" \/ inputs = <<>> \/ Len(inputs) > MaxItems
      <3>1. answer' = [call |-> "create", as |-> "invalid", inputs |-> inputs, items |-> <<>>]
        BY <2>1 DEF CreateRequest
      <3>2. QED
        BY <3>1
    <2>2. CASE ~(reason # "text" \/ inputs = <<>> \/ Len(inputs) > MaxItems)
      <3> DEFINE resolved == [i \in DOMAIN inputs |-> Resolve(policy, inputs[i])]
                 items(granted) == [i \in DOMAIN inputs |-> Item(resolved, i, inputs[i], granted)]
      <3>1. PICK granted : answer' = [call |-> "create", as |-> "filed", inputs |-> inputs, items |-> items(granted)]
        BY <2>2 DEF CreateRequest
      <3>2. Filed(policy, inputs, items(granted), granted)
        BY DEF Filed
      <3> HIDE DEF items
      <3>3. answer'.call = "create" /\ answer'.inputs = inputs /\ answer'.as = "filed" /\ answer'.items = items(granted)
        BY <3>1
      <3>4. QED
        BY <3>2, <3>3
    <2>3. QED
      BY <2>1, <2>2
  <1>5. CatalogIsRequestable' /\ RequestersFitTheirRule'
    BY <1>4 DEF CatalogIsRequestable, RequestersFitTheirRule
  <1> DEFINE items == answer'.items
  <1>6. Accepted' = {i \in DOMAIN items : items[i].state # "refused"}
    BY DEF Accepted
  <1>7. CASE answer'.as = "invalid" /\ items = <<>>
    <2>1. DOMAIN items = {} /\ Accepted' = {}
      BY <1>6, <1>7
    <2>2. TypeOK'
      BY <1>1, <1>4, <2>1, ConfigStays
    <2>3. PendingItemsAreGrantable' /\ RepeatsAreRefused' /\ OtherRulesDoNotRefuse' /\ OrderOfRulesIsFree'
      BY <1>7, <2>1 DEF PendingItemsAreGrantable, RepeatsAreRefused, OtherRulesDoNotRefuse, OrderOfRulesIsFree
    <2>4. QED
      BY <1>2, <1>5, <2>2, <2>3 DEF FilingIInv, FilingInv
  <1>8. CASE answer'.as = "filed" /\ \E granted : Filed(policy, inputs, items, granted)
    <2> HIDE DEF policy
    <2>1. PICK granted : Filed(policy, inputs, items, granted)
      BY <1>8
    <2>2. /\ DOMAIN items = 1..n
          /\ \A i \in 1..n : items[i].state \in {"refused", "already_granted", "pending"}
          /\ \A i \in 1..n : items[i].state # "refused" => ItemGrantable(policy, items[i])
          /\ \A i \in 1..n : items[i].state = "refused" /\ ~WasRepeated(items[i]) => ~IsGranted(policy, inputs[i])
          /\ \A i, j \in 1..n : i # j /\ items[i].state # "refused" /\ items[j].state # "refused" =>
                <<items[i].path, items[i].capabilities>> # <<items[j].path, items[j].capabilities>>
          /\ \A i \in 1..n : WasRepeated(items[i]) =>
                \E k \in 1..n : /\ k < i /\ items[k].state # "refused" /\ items[k].path = items[i].path
                                /\ items[k].capabilities = items[i].capabilities
      <3> HIDE DEF items
      <3>1. QED
        BY <1>2, <1>3, <2>1, FiledFits
    <2>3. Accepted' = {i \in 1..n : items[i].state # "refused"}
      BY <1>6, <2>2
    <2>4. TypeOK'
      BY <1>1, <1>4, <2>2, ConfigStays
    <2>5. PendingItemsAreGrantable'
      <3>1. \A i \in Accepted' : ItemGrantable(policy, items[i])
        BY <2>2, <2>3
      <3>2. config'.policy = policy
        BY <1>1 DEF policy
      <3>3. QED
        BY <3>1, <3>2 DEF PendingItemsAreGrantable, ItemGrantable
    <2>6. RepeatsAreRefused'
      <3>1. \A i, j \in 1..n : i # j /\ {i, j} \subseteq Accepted' =>
                <<items[i].path, items[i].capabilities>> # <<items[j].path, items[j].capabilities>>
        BY <2>2, <2>3
      <3>2. \A i \in 1..n : items[i].why = "duplicate" =>
                \E k \in Accepted' : /\ k < i /\ items[k].path = items[i].path
                                     /\ items[k].capabilities = items[i].capabilities
        BY <2>2, <2>3 DEF WasRepeated
      <3>3. QED
        BY <1>3, <1>4, <3>1, <3>2 DEF RepeatsAreRefused
    <2>7. OtherRulesDoNotRefuse'
      <3>1. ASSUME NEW i \in 1..n, NEW j \in DOMAIN policy.rules, items[i].state = "refused", items[i].why # "duplicate"
            PROVE  Resolve([policy EXCEPT !.rules = <<@[j]>>], inputs[i]).refusal # ""
        <4>1. ~IsGranted(policy, inputs[i])
          BY <2>2, <3>1 DEF WasRepeated
        <4>2. policy \in Policies /\ inputs[i].ttl \in Int
          BY <1>2, <1>3 DEF PolicyFits, InputTyped
        <4>3. ~IsGranted([policy EXCEPT !.rules = <<@[j]>>], inputs[i])
          BY <4>1, <4>2, OthersDoNotRefuse
        <4>4. QED
          BY <4>3 DEF IsGranted
      <3>2. config'.policy = policy
        BY <1>1 DEF policy
      <3>3. QED
        BY <1>3, <1>4, <2>2, <3>1, <3>2 DEF OtherRulesDoNotRefuse
    <2>8. OrderOfRulesIsFree'
      <3>1. policy \in Policies /\ config'.policy = policy
        BY <1>1, <1>2 DEF PolicyFits, policy
      <3>2. QED
        BY <1>4, <3>1, OrderIsFree DEF OrderOfRulesIsFree
    <2>9. QED
      BY <1>2, <1>5, <2>4, <2>5, <2>6, <2>7, <2>8 DEF FilingIInv, FilingInv
  <1>9. QED
    BY <1>4, <1>7, <1>8

\* Grantables offers what Resolve grants.
LEMMA GrantablesKeeps ==
    ASSUME FilingIInv, Grantables
    PROVE  FilingIInv'
  <1>1. ConfigFits /\ Started /\ config' = config
    BY DEF Grantables, FilingIInv, Serving
  <1> DEFINE policy == config.policy
             Entry(i, keys) == LET rule == policy.rules[i] IN
                 [capabilities |-> rule.capabilities, maxTTL |-> Cap(policy, rule),
                  paths |-> IF Discovers(rule) THEN discoveredPaths(rule.path, keys) ELSE {}]
  <1>2. PolicyFits(policy) /\ ConfigFits'
    BY <1>1, ConfigStays
  <1>3. PICK listing : answer' = [call |-> "grantables", catalog |-> [i \in DOMAIN policy.rules |-> Entry(i, listing[i])]]
    BY DEF Grantables
  <1>4. answer'.call = "grantables" /\ DOMAIN answer'.catalog = DOMAIN policy.rules
        /\ \A i \in DOMAIN policy.rules : answer'.catalog[i] = Entry(i, listing[i])
    <2> HIDE DEF Entry
    <2>1. QED
      BY <1>3
  <1>5. CatalogIsRequestable'
    <2> SUFFICES ASSUME NEW i \in DOMAIN policy.rules, NEW path \in answer'.catalog[i].paths
                 PROVE  Resolve(policy, [path |-> path, capabilities |-> answer'.catalog[i].capabilities,
                                         ttl |-> answer'.catalog[i].maxTTL]).refusal = ""
      BY <1>1, <1>4 DEF CatalogIsRequestable
    <2> DEFINE rule == policy.rules[i]
               entry == answer'.catalog[i]
    <2>1. entry = Entry(i, listing[i])
      BY <1>4
    <2> HIDE DEF entry
    <2>2. /\ entry.capabilities = rule.capabilities /\ entry.maxTTL = Cap(policy, rule)
          /\ entry.paths = IF Discovers(rule) THEN discoveredPaths(rule.path, listing[i]) ELSE {}
      BY <2>1
    <2>3. path \in discoveredPaths(rule.path, listing[i])
      BY <2>2 DEF entry
    <2>4. MatchPattern(rule.path, path) /\ Concrete(path) /\ ~deniedSegment(path)
      BY <2>3 DEF discoveredPaths
    <2>5. policy \in Policies /\ LongEnough(policy) /\ ValidateRule(policy.rules[i])
      BY <1>2 DEF PolicyFits
    <2>6. IsGranted(policy, [path |-> path, capabilities |-> policy.rules[i].capabilities,
                             ttl |-> Cap(policy, policy.rules[i])])
      <3> HIDE DEF policy
      <3>1. QED
        BY <2>4, <2>5, CatalogGranted
    <2>7. QED
      BY <2>2, <2>6 DEF IsGranted, entry
  <1>6. TypeOK'
    BY <1>1, <1>4, ConfigStays
  <1>7. PendingItemsAreGrantable' /\ RepeatsAreRefused' /\ OtherRulesDoNotRefuse'
        /\ OrderOfRulesIsFree' /\ RequestersFitTheirRule'
    BY <1>4 DEF PendingItemsAreGrantable, RepeatsAreRefused, OtherRulesDoNotRefuse,
                OrderOfRulesIsFree, RequestersFitTheirRule
  <1>8. QED
    BY <1>2, <1>5, <1>6, <1>7 DEF FilingIInv, FilingInv

\* Filing.FilingInv: for any configuration file, any token and any request,
\* however many rules there are and over any letters, what the calls answer
\* fits the rules (Load, Authenticate, CreateRequest, Grantables).
THEOREM FilingStays == Spec => []FilingInv
  <1>1. Init => FilingIInv
    BY DEF Init, FilingIInv, FilingInv, ConfigFits, Started, NoConfig, NoAnswer, TypeOK,
           PendingItemsAreGrantable, RepeatsAreRefused, OtherRulesDoNotRefuse,
           OrderOfRulesIsFree, CatalogIsRequestable, RequestersFitTheirRule
  <1>2. FilingIInv /\ [Next]_vars => FilingIInv'
    <2> SUFFICES ASSUME FilingIInv, [Next]_vars PROVE FilingIInv'
      OBVIOUS
    <2>1. ASSUME NEW file \in Files, Load(file) PROVE FilingIInv'
      BY <2>1, LoadKeeps
    <2>2. ASSUME NEW token \in Tokens, Authenticate(token) PROVE FilingIInv'
      BY <2>2, AuthenticateKeeps
    <2>3. ASSUME NEW reason \in {"text", "blank", "long", "hidden"}, NEW n \in 0..(MaxItems + 1),
                 NEW inputs \in [1..n -> Inputs], CreateRequest(reason, inputs)
          PROVE  FilingIInv'
      <3>1. n \in Nat
        BY FilingAssumption
      <3>2. QED
        BY <2>3, <3>1, CreateKeeps
    <2>4. CASE Grantables
      BY <2>4, GrantablesKeeps
    <2>5. CASE UNCHANGED vars
      <3>1. config' = config /\ answer' = answer
        BY <2>5 DEF vars
      <3>2. ConfigFits' /\ TypeOK'
        BY <3>1 DEF FilingIInv, FilingInv, ConfigFits, Started, TypeOK
      <3>3. PendingItemsAreGrantable'
        BY <3>1 DEF FilingIInv, FilingInv, PendingItemsAreGrantable, Accepted
      <3>4. RepeatsAreRefused'
        BY <3>1 DEF FilingIInv, FilingInv, RepeatsAreRefused, Accepted
      <3>5. OtherRulesDoNotRefuse' /\ OrderOfRulesIsFree'
        BY <3>1 DEF FilingIInv, FilingInv, OtherRulesDoNotRefuse, OrderOfRulesIsFree
      <3>6. CatalogIsRequestable' /\ RequestersFitTheirRule'
        BY <3>1 DEF FilingIInv, FilingInv, CatalogIsRequestable, RequestersFitTheirRule
      <3>7. QED
        BY <3>2, <3>3, <3>4, <3>5, <3>6 DEF FilingIInv, FilingInv
    <2>6. QED
      BY <2>1, <2>2, <2>3, <2>4, <2>5 DEF Next
  <1>3. FilingIInv => FilingInv
    BY DEF FilingIInv
  <1>4. QED
    BY <1>1, <1>2, <1>3, PTL DEF Spec
=============================================================================
