--------------------------- MODULE Clients_proofs ----------------------------
(***************************************************************************)
(* The clients: how bao-cred awaits a decision and delivers what it read,  *)
(* and the tokens of the opencode plugin, and what Components says of      *)
(* them.                                                                   *)
(***************************************************************************)
EXTENDS Components, SessionLocks_proofs, Services_proofs, Integers, Sequences, FiniteSets, TLAPS

-----------------------------------------------------------------------------
(* BaoCred *)

\* What may have become of a state by the time it is looked at again.
Comes(a, b) ==
    \/ a = b
    \/ a = "pending" /\ b \in {"approved", "rejected", "expired", "revoked"}
    \/ a = "approved" /\ b = "revoked"
Onward(x, y) == \A k \in Items : Comes(x[k], y[k])
Snapshots == [Items -> Wait!States]
Awaiting ==
    [pc : {"exited", "create", "get", "return", "read", "watch", "stream", "backoff"},
     cmd : {"none", "request", "wait", "read", "usage"}, id : Requests \cup {None}, known : Snapshots,
     told : [Items -> Seq(Wait!States)], delay : retryDelay..maxRetryDelay, slept : 0..maxRetryDelay,
     heard : BOOLEAN, wait : BOOLEAN, reads : 0..2, timedOut : BOOLEAN, exit : -1..4]

\* What was told of each item ends with what is known of it, and climbs.
ToldFits(told, known) ==
    \A k \in Items :
        /\ told[k] = <<>> \/ (told[k][Len(told[k])] = known[k] /\ known[k] \notin {"absent", "pending"})
        /\ \A i, j \in DOMAIN told[k] : i < j => Wait!Rank(told[k][i]) < Wait!Rank(told[k][j])
AllGranted(states) == \A k \in Items : states[k] \in Wait!Granted
\* The exit status is true of the states of the request.
ExitIsTrue(p, states) ==
    /\ p.exit = 0 => \A k \in Items : states[k] \in Wait!Granted \cup {"revoked"}
    /\ p.exit = 3 => ~Wait!Pending(states) /\ \E k \in Items : states[k] \notin Wait!Granted
    /\ p.exit = 4 => (p.timedOut \/ ~p.wait) /\ Wait!Pending(p.known)
\* What holds of bao-cred p while the requests have the states its.
ProcInv(p, its) ==
    /\ p \in Awaiting
    /\ p.pc \in {"get", "watch", "stream", "backoff", "return"} => p.id \in Requests
    /\ p.pc \in {"watch", "stream", "backoff", "return"} => Onward(p.known, its[p.id])
    /\ p.pc = "return" /\ Wait!Pending(p.known) => p.timedOut \/ ~p.wait
    /\ p.pc \in {"create", "get"} \/ (p.pc = "read" /\ p.reads = 0) =>
          p.known = Wait!NoItems /\ p.told = [k \in Items |-> <<>>]
    /\ p.pc = "exited" => p.exit # -1
    /\ p.pc = "exited" /\ p.id # None /\ p.cmd \in {"request", "wait"} => ExitIsTrue(p, its[p.id])
    /\ p.pc # "exited" => p.reads <= 1
    /\ p.reads = 2 \/ (p.pc = "read" /\ p.reads = 1) => AllGranted(p.known)
    /\ p.pc = "read" => p.cmd = "read"
    /\ p.cmd = "read" /\ p.pc \notin {"read", "exited"} => p.reads = 1
    /\ ToldFits(p.told, p.known)
    /\ ~p.heard /\ p.slept > 0 => p.delay >= 2 * p.slept \/ p.delay = maxRetryDelay
\* The snapshots under way, oldest first, lie between what is known and what is.
StreamInv(p, s, its) ==
    /\ s \in [server : {"none", "open", "ended"}, last : Snapshots, wire : Seq(Snapshots), stalled : BOOLEAN]
    /\ p.pc # "stream" => s = Wait!NoStream
    /\ \A i \in DOMAIN s.wire :
          s.wire[i] # Wait!NoItems => Onward(p.known, s.wire[i]) /\ Onward(s.wire[i], its[p.id])
    /\ \A i, j \in DOMAIN s.wire :
          i < j /\ s.wire[i] # Wait!NoItems /\ s.wire[j] # Wait!NoItems => Onward(s.wire[i], s.wire[j])
WaitInv ==
    /\ items \in [Requests -> Snapshots] /\ allowed \in BOOLEAN
    /\ ProcInv(proc, items)
    /\ StreamInv(proc, watch, items)

LEMMA RanksClimb ==
    ASSUME NEW a \in Wait!States, NEW b \in Wait!States, Comes(a, b)
    PROVE  /\ Wait!Rank(a) \in 0..3 /\ Wait!Rank(b) \in 0..3
           /\ Wait!Rank(a) <= Wait!Rank(b)
           /\ a \notin {"absent", "pending"} /\ a # b => Wait!Rank(a) < Wait!Rank(b)
<1>1. \A x \in Wait!States :
          /\ x = "absent" => Wait!Rank(x) = 0
          /\ x = "pending" => Wait!Rank(x) = 1
          /\ x = "revoked" => Wait!Rank(x) = 3
          /\ x \notin {"absent", "pending", "revoked"} => Wait!Rank(x) = 2
  BY DEF Wait!States, Wait!Decided, Wait!Rank
<1> QED
  BY <1>1 DEF Comes, Wait!States, Wait!Decided

LEMMA OnwardIsTransitive ==
    ASSUME NEW x, NEW y, NEW z, Onward(x, y), Onward(y, z) PROVE Onward(x, z)
BY DEF Onward, Comes

\* Nothing that is decided comes back to pending, and nothing that is not
\* granted is granted later.
LEMMA DecidedStaysDecided ==
    ASSUME NEW x, NEW y, Onward(x, y), ~Wait!Pending(x)
    PROVE  /\ ~Wait!Pending(y)
           /\ (\E k \in Items : x[k] \notin Wait!Granted) => \E k \in Items : y[k] \notin Wait!Granted
           /\ (\A k \in Items : x[k] \in Wait!Granted \cup {"revoked"}) =>
                 \A k \in Items : y[k] \in Wait!Granted \cup {"revoked"}
BY DEF Onward, Comes, Wait!Pending, Wait!Granted

LEMMA TellingFits ==
    ASSUME NEW told \in [Items -> Seq(Wait!States)], NEW known \in Snapshots, NEW states \in Snapshots,
           ToldFits(told, known), \A k \in Items : told[k] = <<>> \/ Comes(known[k], states[k])
    PROVE  /\ Wait!reportChanges(told, states) \in [Items -> Seq(Wait!States)]
           /\ ToldFits(Wait!reportChanges(told, states), states)
<1> DEFINE new == Wait!reportChanges(told, states)
<1>1. \A k \in Items :
          \/ new[k] = told[k] /\ states[k] \in {"absent", "pending"}
          \/ new[k] = told[k] /\ told[k] # <<>> /\ told[k][Len(told[k])] = states[k] /\ states[k] \notin {"absent", "pending"}
          \/ /\ new[k] = Append(told[k], states[k]) /\ states[k] \notin {"absent", "pending"}
             /\ ~(told[k] # <<>> /\ told[k][Len(told[k])] = states[k])
  BY DEF Wait!reportChanges
<1>2. new = [k \in Items |-> new[k]]
  BY DEF Wait!reportChanges
<1> HIDE DEF new
<1>3. ASSUME NEW k \in Items
      PROVE  /\ new[k] \in Seq(Wait!States)
             /\ new[k] = <<>> \/ (new[k][Len(new[k])] = states[k] /\ states[k] \notin {"absent", "pending"})
             /\ \A i, j \in DOMAIN new[k] : i < j => Wait!Rank(new[k][i]) < Wait!Rank(new[k][j])
  <2> DEFINE t == told[k]
  <2>1. t \in Seq(Wait!States) /\ known[k] \in Wait!States /\ states[k] \in Wait!States
    BY DEF Snapshots
  <2>2. /\ t = <<>> \/ (t[Len(t)] = known[k] /\ known[k] \notin {"absent", "pending"} /\ Comes(known[k], states[k]))
        /\ \A i, j \in DOMAIN t : i < j => Wait!Rank(t[i]) < Wait!Rank(t[j])
    BY DEF ToldFits
  <2>3. CASE new[k] = t /\ states[k] \in {"absent", "pending"}
    <3>1. t = <<>>
      BY <2>2, <2>3 DEF Comes
    <3> QED
      BY <2>1, <2>2, <2>3, <3>1
  <2>4. CASE new[k] = t /\ t # <<>> /\ t[Len(t)] = states[k] /\ states[k] \notin {"absent", "pending"}
    BY <2>1, <2>2, <2>4
  <2>5. CASE /\ new[k] = Append(t, states[k]) /\ states[k] \notin {"absent", "pending"}
             /\ ~(t # <<>> /\ t[Len(t)] = states[k])
    <3>1. /\ new[k] \in Seq(Wait!States) /\ Len(new[k]) = Len(t) + 1 /\ new[k][Len(t) + 1] = states[k]
          /\ \A i \in 1..Len(t) : new[k][i] = t[i]
          /\ DOMAIN new[k] = 1..(Len(t) + 1) /\ DOMAIN t = 1..Len(t) /\ Len(t) \in Nat
      BY <2>1, <2>5
    <3>2. ASSUME NEW i \in 1..Len(t) PROVE Wait!Rank(t[i]) < Wait!Rank(states[k])
      <4>1. t # <<>> /\ Len(t) \in 1..Len(t)
        BY <2>1
      <4>2. known[k] # states[k] /\ Wait!Rank(known[k]) < Wait!Rank(states[k])
            /\ Wait!Rank(known[k]) \in 0..3 /\ Wait!Rank(states[k]) \in 0..3
        BY <2>1, <2>2, <2>5, <4>1, RanksClimb
      <4>3. t[i] \in Wait!States /\ Wait!Rank(t[i]) \in 0..3
        BY <2>1, <3>1, RanksClimb DEF Comes
      <4>4. i = Len(t) \/ Wait!Rank(t[i]) < Wait!Rank(t[Len(t)])
        <5>1. i \in DOMAIN t /\ Len(t) \in DOMAIN t
          BY <3>1, <4>1
        <5>2. i = Len(t) \/ i < Len(t)
          BY <2>1
        <5> QED
          BY <2>2, <5>1, <5>2
      <4>5. t[Len(t)] = known[k]
        BY <2>2, <4>1
      <4> QED
        BY <4>2, <4>3, <4>4, <4>5
    <3>3. ASSUME NEW i \in DOMAIN new[k], NEW j \in DOMAIN new[k], i < j
          PROVE  Wait!Rank(new[k][i]) < Wait!Rank(new[k][j])
      <4>1. i \in 1..Len(t)
        BY <3>1, <3>3
      <4>2. CASE j = Len(t) + 1
        BY <3>1, <3>2, <4>1, <4>2
      <4>3. CASE j # Len(t) + 1
        <5>1. j \in 1..Len(t)
          BY <3>1, <4>3
        <5> QED
          BY <2>2, <3>1, <3>3, <4>1, <5>1
      <4> QED
        BY <4>2, <4>3
    <3> QED
      BY <2>5, <3>1, <3>3
  <2> QED
    BY <1>1, <2>3, <2>4, <2>5
<1> QED
  BY <1>2, <1>3 DEF ToldFits, new

\* What others do to the requests.
LEMMA ProcStays ==
    ASSUME NEW p, NEW x \in [Requests -> Snapshots], NEW y \in [Requests -> Snapshots], ProcInv(p, x),
           None \notin Requests, \A q \in Requests : Onward(x[q], y[q])
    PROVE  ProcInv(p, y)
<1>1. p.id \in Requests \cup {None}
  BY DEF ProcInv, Awaiting
<1>2. p.pc \in {"watch", "stream", "backoff", "return"} => Onward(p.known, y[p.id])
  BY OnwardIsTransitive DEF ProcInv
<1>3. p.id \in Requests /\ ExitIsTrue(p, x[p.id]) => ExitIsTrue(p, y[p.id])
  <2> SUFFICES ASSUME p.id \in Requests, ExitIsTrue(p, x[p.id]) PROVE ExitIsTrue(p, y[p.id])
    OBVIOUS
  <2>1. Onward(x[p.id], y[p.id])
    OBVIOUS
  <2>2. ~Wait!Pending(x[p.id]) => ~Wait!Pending(y[p.id])
    BY <2>1, DecidedStaysDecided
  <2>3. (\A k \in Items : x[p.id][k] \in Wait!Granted \cup {"revoked"}) => ~Wait!Pending(x[p.id])
    BY DEF Wait!Pending, Wait!Granted
  <2> QED
    BY <2>1, <2>2, <2>3, DecidedStaysDecided DEF ExitIsTrue
<1> QED
  BY <1>1, <1>2, <1>3 DEF ProcInv

\* A run that ends with an error, wherever it is.
LEMMA ErrorsAreTrue ==
    ASSUME NEW p, NEW its, ProcInv(p, its), NEW s \in {1, 2}
    PROVE  ProcInv(Wait!Exit(p, s), its)
<1> DEFINE e == Wait!Exit(p, s)
<1>0. p \in Awaiting /\ s \in -1..4
  BY DEF ProcInv
<1>1. /\ e \in Awaiting /\ e.pc = "exited" /\ e.exit = s /\ e.reads = p.reads /\ e.known = p.known /\ e.told = p.told
      /\ e.heard = p.heard /\ e.slept = p.slept /\ e.delay = p.delay
  BY <1>0 DEF Wait!Exit, Awaiting
<1> HIDE DEF e
<1>2. e.exit # -1 /\ e.exit # 0 /\ e.exit # 3 /\ e.exit # 4 /\ e.pc # "read" /\ e.pc # "create"
  BY <1>1
<1>3. ExitIsTrue(e, its[e.id])
  BY <1>2 DEF ExitIsTrue
<1>4. ToldFits(e.told, e.known) /\ (e.reads = 2 => AllGranted(e.known))
      /\ (~e.heard /\ e.slept > 0 => e.delay >= 2 * e.slept \/ e.delay = maxRetryDelay)
  BY <1>1 DEF ProcInv
<1>5. ProcInv(e, its)
  BY <1>1, <1>2, <1>3, <1>4 DEF ProcInv
<1> QED
  BY <1>5 DEF e

LEMMA NoRunFits ==
    ASSUME Wait!BaoCredAssumption
    PROVE  /\ Wait!NoRun \in Awaiting
           /\ Wait!NoRun.known = Wait!NoItems /\ Wait!NoRun.told = [k \in Items |-> <<>>]
           /\ Wait!NoRun.reads = 0 /\ Wait!NoRun.slept = 0 /\ Wait!NoRun.pc = "exited" /\ Wait!NoRun.id = None
           /\ Wait!NoRun.exit = 0 /\ Wait!NoRun.cmd = "none"
<1>1. Wait!NoItems \in Snapshots /\ [k \in Items |-> <<>>] \in [Items -> Seq(Wait!States)]
  BY DEF Snapshots, Wait!NoItems, Wait!States
<1> QED
  BY <1>1 DEF Wait!NoRun, Awaiting, Wait!BaoCredAssumption

\* A run begins knowing nothing, whatever its first step is.
Knows(p, verb, id, place) ==
    /\ p \in Awaiting /\ p.known = Wait!NoItems /\ p.told = [k \in Items |-> <<>>] /\ p.reads = 0
    /\ p.slept = 0 /\ p.id = id /\ p.pc = place /\ p.cmd = verb
Begun(verb, id, wait, place) ==
    IF place = "exited" THEN Wait!Exit(Wait!New(verb, id, wait), 2) ELSE [Wait!New(verb, id, wait) EXCEPT !.pc = place]
LEMMA NewFits ==
    ASSUME Wait!BaoCredAssumption, NEW verb \in {"request", "wait", "read", "usage"},
           NEW id \in Requests \cup {None}, NEW wait \in BOOLEAN,
           NEW place \in {"exited", "create", "get", "read"}
    PROVE  Knows(Begun(verb, id, wait, place), verb, id, place) /\ (place = "exited" => Begun(verb, id, wait, place).exit = 2)
<1> DEFINE first == Wait!NoRun
           begun == Wait!New(verb, id, wait)
           Shape == [pc : {"begin"},
                     cmd : {"none", "request", "wait", "read", "usage"}, id : Requests \cup {None}, known : Snapshots,
                     told : [Items -> Seq(Wait!States)], delay : retryDelay..maxRetryDelay, slept : 0..maxRetryDelay,
                     heard : BOOLEAN, wait : BOOLEAN, reads : 0..2, timedOut : BOOLEAN, exit : -1..4]
<1>1. first \in Awaiting /\ first.known = Wait!NoItems /\ first.told = [k \in Items |-> <<>>] /\ first.reads = 0 /\ first.slept = 0
  BY NoRunFits
<1>2. begun = [first EXCEPT !.cmd = verb, !.id = id, !.wait = wait, !.exit = -1, !.pc = "begin"]
  BY DEF Wait!New
<1> HIDE DEF first, begun
<1>3. /\ begun \in Shape /\ begun.known = first.known /\ begun.told = first.told /\ begun.reads = first.reads
      /\ begun.slept = first.slept /\ begun.id = id /\ begun.cmd = verb
  <2>1. -1 \in -1..4 /\ verb \in {"none", "request", "wait", "read", "usage"}
    OBVIOUS
  <2>2. first \in Awaiting
    BY <1>1
  <2>3. begun \in Shape
    BY <1>2, <2>1, <2>2 DEF Awaiting
  <2>4. begun.known = first.known /\ begun.told = first.told /\ begun.reads = first.reads
        /\ begun.slept = first.slept /\ begun.id = id /\ begun.cmd = verb
    BY <1>2, <2>2 DEF Awaiting
  <2> QED
    BY <2>3, <2>4
<1>4. CASE place # "exited"
  <2> DEFINE n == [begun EXCEPT !.pc = place]
  <2>1. n \in Awaiting /\ n.known = begun.known /\ n.told = begun.told /\ n.reads = begun.reads
        /\ n.slept = begun.slept /\ n.id = begun.id /\ n.cmd = begun.cmd /\ n.pc = place
    BY <1>3 DEF Awaiting
  <2>2. Begun(verb, id, wait, place) = n
    BY <1>4 DEF Begun, begun
  <2> HIDE DEF n
  <2> QED
    BY <1>1, <1>3, <1>4, <2>1, <2>2 DEF Knows
<1>5. CASE place = "exited"
  <2> DEFINE n == [begun EXCEPT !.pc = "exited", !.exit = 2]
  <2>0. 2 \in -1..4
    OBVIOUS
  <2>1. n \in Awaiting /\ n.known = begun.known /\ n.told = begun.told /\ n.reads = begun.reads
        /\ n.slept = begun.slept /\ n.id = begun.id /\ n.cmd = begun.cmd /\ n.pc = "exited" /\ n.exit = 2
    BY <1>3, <2>0 DEF Awaiting
  <2>2. Begun(verb, id, wait, place) = n
    BY <1>5 DEF Begun, begun, Wait!Exit
  <2> HIDE DEF n
  <2> QED
    BY <1>1, <1>3, <1>5, <2>1, <2>2 DEF Knows
<1> QED
  BY <1>4, <1>5

LEMMA RunsBeginFresh ==
    ASSUME NEW its, NEW p, NEW verb, NEW id, NEW place \in {"exited", "create", "get", "read"}, Knows(p, verb, id, place),
           place = "get" => id \in Requests, verb = "read" <=> place = "read", verb = "usage" <=> place = "exited",
           place = "exited" => p.exit = 2
    PROVE  ProcInv(p, its)
<1>1. ToldFits(p.told, p.known)
  BY DEF ToldFits, Knows
<1> QED
  BY <1>1 DEF ProcInv, Knows

\* The first answer ends the run, or begins the wait.
LEMMA AwaitsFits ==
    ASSUME NEW p, NEW its \in [Requests -> Snapshots], ProcInv(p, its), p.pc \in {"create", "get"}, p.id \in Requests
    PROVE  /\ ProcInv(Wait!Awaits(p, its[p.id]), its)
           /\ Wait!Awaits(p, its[p.id]).pc \in {"watch", "return"}
           /\ Wait!Awaits(p, its[p.id]).id = p.id
<1> DEFINE states == its[p.id]
           told == IF p.wait THEN Wait!reportChanges(p.told, states) ELSE p.told
           place == IF p.wait /\ Wait!Pending(states) THEN "watch" ELSE "return"
           a == [p EXCEPT !.known = states, !.told = told, !.pc = place]
<1>1. Wait!Awaits(p, states) = a
  BY DEF Wait!Awaits
<1>2. /\ p \in Awaiting /\ p.known = Wait!NoItems /\ p.told = [k \in Items |-> <<>>] /\ ToldFits(p.told, p.known)
      /\ p.reads <= 1 /\ states \in Snapshots
      /\ p.told \in [Items -> Seq(Wait!States)] /\ p.known \in Snapshots
  BY DEF ProcInv, Awaiting
<1>3. told \in [Items -> Seq(Wait!States)] /\ ToldFits(told, states)
  <2>1. \A k \in Items : p.told[k] = <<>>
    BY <1>2
  <2>2. ToldFits(p.told, states)
    BY <2>1 DEF ToldFits
  <2> HIDE DEF states
  <2>3. /\ Wait!reportChanges(p.told, states) \in [Items -> Seq(Wait!States)]
        /\ ToldFits(Wait!reportChanges(p.told, states), states)
    BY <1>2, <2>1, TellingFits
  <2> QED
    BY <1>2, <2>2, <2>3
<1> HIDE DEF states, told
<1>4. place \in {"watch", "return"} /\ (place = "return" /\ Wait!Pending(states) => ~p.wait)
  OBVIOUS
<1> HIDE DEF place
<1>5. /\ a \in Awaiting /\ a.pc = place /\ a.id = p.id /\ a.known = states /\ a.told = told /\ a.wait = p.wait
      /\ a.reads = p.reads /\ a.heard = p.heard /\ a.slept = p.slept /\ a.delay = p.delay /\ a.timedOut = p.timedOut
      /\ a.cmd = p.cmd
  BY <1>2, <1>3, <1>4 DEF Awaiting
<1> HIDE DEF a
<1>6. Onward(states, states)
  BY DEF Onward, Comes
<1>7. a.reads # 2 /\ a.pc # "read"
  BY <1>2, <1>4, <1>5 DEF Awaiting
<1>8. ~a.heard /\ a.slept > 0 => a.delay >= 2 * a.slept \/ a.delay = maxRetryDelay
  BY <1>5 DEF ProcInv
<1>9. ProcInv(a, its)
  BY <1>2, <1>3, <1>4, <1>5, <1>6, <1>7, <1>8 DEF ProcInv, states
<1> QED
  BY <1>1, <1>4, <1>5, <1>9 DEF states

\* The wait goes on, with what it knew.
LEMMA WaitMoves ==
    ASSUME NEW p, NEW o \in Awaiting, NEW its, ProcInv(p, its), p.pc \in {"watch", "stream", "backoff"},
           o.id = p.id, o.cmd = p.cmd, o.known = p.known, o.told = p.told, o.reads = p.reads, o.wait = p.wait,
           o.pc \in {"watch", "stream", "backoff", "return"},
           o.pc = "return" => ~Wait!Pending(o.known) \/ o.timedOut,
           ~o.heard /\ o.slept > 0 => o.delay >= 2 * o.slept \/ o.delay = maxRetryDelay
    PROVE  ProcInv(o, its)
<1>1. o.reads <= 1 /\ o.reads # 2 /\ o.id \in Requests /\ Onward(o.known, its[o.id]) /\ ToldFits(o.told, o.known)
  <2>1. p.reads \in 0..2
    BY DEF ProcInv, Awaiting
  <2> QED
    BY <2>1 DEF ProcInv
<1>2. o.cmd = "read" => o.reads = 1
  BY DEF ProcInv
<1> QED
  BY <1>1, <1>2 DEF ProcInv

LEMMA BackoffMoves ==
    ASSUME Wait!BaoCredAssumption, ProcInv(proc, items), proc.pc \in {"watch", "stream"}
    PROVE  ProcInv(Wait!Backoff(proc), items) /\ Wait!Backoff(proc).pc = "backoff"
<1> DEFINE twice == IF 2 * proc.delay < maxRetryDelay THEN 2 * proc.delay ELSE maxRetryDelay
           o == [proc EXCEPT !.pc = "backoff", !.slept = proc.delay, !.heard = FALSE, !.delay = twice]
<1>1. Wait!Backoff(proc) = o
  BY DEF Wait!Backoff
<1>2. proc \in Awaiting /\ proc.delay \in retryDelay..maxRetryDelay /\ retryDelay \in Nat \ {0} /\ maxRetryDelay \in Nat
      /\ retryDelay <= maxRetryDelay
  BY DEF ProcInv, Awaiting, Wait!BaoCredAssumption
<1>3. twice \in retryDelay..maxRetryDelay /\ (twice >= 2 * proc.delay \/ twice = maxRetryDelay)
      /\ proc.delay \in 0..maxRetryDelay
  BY <1>2
<1> HIDE DEF twice
<1>4. /\ o \in Awaiting /\ o.id = proc.id /\ o.cmd = proc.cmd /\ o.known = proc.known /\ o.told = proc.told
      /\ o.reads = proc.reads /\ o.wait = proc.wait /\ o.pc = "backoff" /\ o.delay = twice /\ o.slept = proc.delay
  BY <1>2, <1>3 DEF Awaiting
<1> HIDE DEF o
<1> QED
  BY <1>1, <1>3, <1>4, WaitMoves

\* What is received is further on than what was known.
LEMMA ReceiveMoves ==
    ASSUME Wait!BaoCredAssumption, NEW p, NEW its \in [Requests -> Snapshots], ProcInv(p, its), p.pc = "stream",
           NEW message \in Snapshots, Onward(p.known, message), Onward(message, its[p.id])
    PROVE  ProcInv([p EXCEPT !.delay = retryDelay, !.heard = TRUE, !.known = message,
                             !.told = Wait!reportChanges(p.told, message)], its)
<1> DEFINE told == Wait!reportChanges(p.told, message)
           o == [p EXCEPT !.delay = retryDelay, !.heard = TRUE, !.known = message, !.told = told]
<1>1. p \in Awaiting /\ p.told \in [Items -> Seq(Wait!States)] /\ p.known \in Snapshots /\ ToldFits(p.told, p.known)
      /\ p.id \in Requests /\ p.reads <= 1 /\ p.reads # 2 /\ retryDelay \in retryDelay..maxRetryDelay
      /\ (p.cmd = "read" => p.reads = 1)
  <2>1. p \in Awaiting
    BY DEF ProcInv
  <2>2. p.reads \in 0..2 /\ p.told \in [Items -> Seq(Wait!States)] /\ p.known \in Snapshots
    BY <2>1 DEF Awaiting
  <2> QED
    BY <2>1, <2>2 DEF ProcInv, Wait!BaoCredAssumption
<1>2. told \in [Items -> Seq(Wait!States)] /\ ToldFits(told, message)
  <2>1. \A k \in Items : p.told[k] = <<>> \/ Comes(p.known[k], message[k])
    BY DEF Onward
  <2> QED
    BY <1>1, <2>1, TellingFits
<1> HIDE DEF told
<1>3. /\ o \in Awaiting /\ o.id = p.id /\ o.cmd = p.cmd /\ o.known = message /\ o.told = told
      /\ o.reads = p.reads /\ o.wait = p.wait /\ o.pc = "stream" /\ o.heard
  BY <1>1, <1>2 DEF Awaiting
<1> HIDE DEF o
<1>4. ProcInv(o, its)
  BY <1>1, <1>2, <1>3 DEF ProcInv
<1> QED
  BY <1>4 DEF o, told

LEMMA HeartbeatMoves ==
    ASSUME Wait!BaoCredAssumption, NEW p, NEW its, ProcInv(p, its), p.pc = "stream"
    PROVE  ProcInv([p EXCEPT !.delay = retryDelay, !.heard = TRUE], its)
<1> DEFINE o == [p EXCEPT !.delay = retryDelay, !.heard = TRUE]
<1>1. p \in Awaiting /\ retryDelay \in retryDelay..maxRetryDelay
  BY DEF ProcInv, Wait!BaoCredAssumption
<1>2. /\ o \in Awaiting /\ o.id = p.id /\ o.cmd = p.cmd /\ o.known = p.known /\ o.told = p.told
      /\ o.reads = p.reads /\ o.wait = p.wait /\ o.pc = "stream" /\ o.heard
  BY <1>1 DEF Awaiting
<1> HIDE DEF o
<1>3. ProcInv(o, its)
  BY <1>2, WaitMoves
<1> QED
  BY <1>3 DEF o

\* The exit status is taken from what is known, which the request has gone
\* beyond at most.
LEMMA ReturnIsTrue ==
    ASSUME None \notin Requests, NEW p, NEW its, ProcInv(p, its), p.pc = "return"
    PROVE  ProcInv(IF p.cmd = "read" /\ Wait!outcome(p.known) = 0 THEN [p EXCEPT !.pc = "read"]
                   ELSE Wait!Exit(p, Wait!outcome(p.known)), its)
<1> DEFINE ends == Wait!outcome(p.known)
<1>1. /\ p \in Awaiting /\ p.id \in Requests /\ Onward(p.known, its[p.id]) /\ p.reads <= 1 /\ p.reads \in 0..2
      /\ (Wait!Pending(p.known) => p.timedOut \/ ~p.wait) /\ (p.cmd = "read" => p.reads = 1)
      /\ ToldFits(p.told, p.known)
      /\ (~p.heard /\ p.slept > 0 => p.delay >= 2 * p.slept \/ p.delay = maxRetryDelay)
  <2>1. p \in Awaiting
    BY DEF ProcInv
  <2>2. p.reads \in 0..2
    BY <2>1 DEF Awaiting
  <2> QED
    BY <2>1, <2>2 DEF ProcInv
<1>2. /\ ends \in {0, 3, 4}
      /\ ends = 4 => Wait!Pending(p.known)
      /\ ends = 0 => AllGranted(p.known) /\ ~Wait!Pending(p.known)
      /\ ends = 3 => ~Wait!Pending(p.known) /\ \E k \in Items : p.known[k] \notin Wait!Granted
  BY DEF Wait!outcome, AllGranted
<1> HIDE DEF ends
<1>3. CASE p.cmd = "read" /\ ends = 0
  <2> DEFINE o == [p EXCEPT !.pc = "read"]
  <2>1. /\ o \in Awaiting /\ o.id = p.id /\ o.cmd = p.cmd /\ o.known = p.known /\ o.told = p.told /\ o.reads = p.reads
        /\ o.pc = "read" /\ o.heard = p.heard /\ o.slept = p.slept /\ o.delay = p.delay
    BY <1>1 DEF Awaiting
  <2> HIDE DEF o
  <2>2. ProcInv(o, its)
    BY <1>1, <1>2, <1>3, <2>1 DEF ProcInv
  <2> QED
    BY <1>3, <2>2 DEF o, ends
<1>4. CASE ~(p.cmd = "read" /\ ends = 0)
  <2> DEFINE o == Wait!Exit(p, ends)
  <2>0. ends \in -1..4
    BY <1>2
  <2>1. /\ o \in Awaiting /\ o.id = p.id /\ o.cmd = p.cmd /\ o.known = p.known /\ o.told = p.told /\ o.reads = p.reads
        /\ o.pc = "exited" /\ o.heard = p.heard /\ o.slept = p.slept /\ o.delay = p.delay /\ o.exit = ends
        /\ o.timedOut = p.timedOut /\ o.wait = p.wait
    BY <1>1, <2>0 DEF Awaiting, Wait!Exit
  <2> HIDE DEF o
  <2>2. ExitIsTrue(o, its[o.id])
    <3>1. ends = 0 => \A k \in Items : p.known[k] \in Wait!Granted \cup {"revoked"}
      BY <1>2 DEF AllGranted
    <3> QED
      BY <1>1, <1>2, <2>1, <3>1, DecidedStaysDecided DEF ExitIsTrue
  <2>3. o.reads # 2 /\ o.exit # -1
    BY <1>1, <1>2, <2>1
  <2>4. ProcInv(o, its)
    BY <1>1, <2>1, <2>2, <2>3 DEF ProcInv
  <2> QED
    BY <1>4, <2>4 DEF o, ends
<1> QED
  BY <1>3, <1>4

LEMMA ReadFits ==
    ASSUME NEW p, NEW its, ProcInv(p, its), p.pc = "read", NEW ok \in BOOLEAN,
           NEW r, r = [p EXCEPT !.reads = p.reads + 1]
    PROVE  ProcInv(IF ok THEN Wait!Exit(r, 0)
                   ELSE IF p.reads = 0 /\ p.wait THEN [r EXCEPT !.pc = "create"] ELSE Wait!Exit(r, 1), its)
<1>1. p \in Awaiting /\ p.reads \in {0, 1} /\ p.cmd = "read" /\ ToldFits(p.told, p.known)
      /\ (p.reads = 0 => p.known = Wait!NoItems /\ p.told = [k \in Items |-> <<>>])
      /\ (p.reads = 1 => AllGranted(p.known))
      /\ (~p.heard /\ p.slept > 0 => p.delay >= 2 * p.slept \/ p.delay = maxRetryDelay)
  <2>1. p \in Awaiting
    BY DEF ProcInv
  <2>2. p.reads \in 0..2
    BY <2>1 DEF Awaiting
  <2> QED
    BY <2>1, <2>2 DEF ProcInv
<1>2. /\ r \in Awaiting /\ r.id = p.id /\ r.cmd = p.cmd /\ r.known = p.known /\ r.told = p.told /\ r.reads = p.reads + 1
      /\ r.pc = p.pc /\ r.heard = p.heard /\ r.slept = p.slept /\ r.delay = p.delay
  <2>1. p.reads + 1 \in 0..2
    BY <1>1
  <2> QED
    BY <1>1, <2>1 DEF Awaiting
<1>3. ASSUME NEW code \in {0, 1} PROVE ProcInv(Wait!Exit(r, code), its)
  <2> DEFINE o == Wait!Exit(r, code)
  <2>1. code \in -1..4
    OBVIOUS
  <2>2. /\ o \in Awaiting /\ o.cmd = "read" /\ o.known = p.known /\ o.told = p.told /\ o.reads = p.reads + 1
        /\ o.pc = "exited" /\ o.heard = p.heard /\ o.slept = p.slept /\ o.delay = p.delay /\ o.exit = code
    BY <1>1, <1>2, <2>1 DEF Awaiting, Wait!Exit
  <2> HIDE DEF o
  <2>3. o.reads = 2 => AllGranted(o.known)
    BY <1>1, <2>2
  <2>4. ProcInv(o, its)
    BY <1>1, <2>2, <2>3 DEF ProcInv
  <2> QED
    BY <2>4 DEF o
<1>4. ASSUME p.reads = 0 PROVE ProcInv([r EXCEPT !.pc = "create"], its)
  <2> DEFINE o == [r EXCEPT !.pc = "create"]
  <2>0. r.reads = 1
    BY <1>2, <1>4
  <2>1. /\ o \in Awaiting /\ o.cmd = "read" /\ o.known = p.known /\ o.told = p.told /\ o.reads = 1
        /\ o.pc = "create" /\ o.heard = p.heard /\ o.slept = p.slept /\ o.delay = p.delay
    BY <1>1, <1>2, <2>0 DEF Awaiting
  <2> HIDE DEF o
  <2>2. ProcInv(o, its)
    BY <1>1, <1>4, <2>1 DEF ProcInv
  <2> QED
    BY <2>2 DEF o
<1> QED
  BY <1>3, <1>4

LEMMA NoStreamFits == ASSUME NEW p, NEW its PROVE StreamInv(p, Wait!NoStream, its)
<1>1. Wait!NoItems \in Snapshots
  BY DEF Snapshots, Wait!NoItems, Wait!States
<1> QED
  BY <1>1 DEF StreamInv, Wait!NoStream

LEMMA NewStreamFits ==
    ASSUME NEW p, NEW its, p.pc = "stream" PROVE StreamInv(p, [Wait!NoStream EXCEPT !.server = "open"], its)
<1>1. Wait!NoItems \in Snapshots
  BY DEF Snapshots, Wait!NoItems, Wait!States
<1> DEFINE first == Wait!NoStream
           o == [first EXCEPT !.server = "open"]
<1>2. first \in [server : {"none", "open", "ended"}, last : Snapshots, wire : Seq(Snapshots), stalled : BOOLEAN]
      /\ first.wire = <<>>
  BY <1>1 DEF Wait!NoStream
<1> HIDE DEF first
<1>3. o \in [server : {"none", "open", "ended"}, last : Snapshots, wire : Seq(Snapshots), stalled : BOOLEAN]
      /\ o.wire = <<>>
  BY <1>2
<1> HIDE DEF o
<1>4. StreamInv(p, o, its)
  BY <1>3 DEF StreamInv
<1> QED
  BY <1>4 DEF o, first

\* The requests go on, or bao-cred does with what it knew.
LEMMA StreamStays ==
    ASSUME NEW x \in [Requests -> Snapshots], NEW y \in [Requests -> Snapshots], NEW p, NEW s,
           ProcInv(p, x), StreamInv(p, s, x), \A q \in Requests : Onward(x[q], y[q])
    PROVE  StreamInv(p, s, y)
<1>1. CASE p.pc = "stream"
  <2>1. p.id \in Requests
    BY <1>1 DEF ProcInv
  <2>2. \A i \in DOMAIN s.wire : Onward(s.wire[i], x[p.id]) => Onward(s.wire[i], y[p.id])
    BY <2>1, OnwardIsTransitive
  <2> QED
    BY <2>2 DEF StreamInv
<1>2. CASE p.pc # "stream"
  BY <1>2, NoStreamFits DEF StreamInv
<1> QED
  BY <1>1, <1>2

\* One more message on the way: a snapshot of what is, or a heartbeat.
LEMMA SendingFits ==
    ASSUME NEW its \in [Requests -> Snapshots], NEW p, NEW s, NEW o, ProcInv(p, its), StreamInv(p, s, its),
           p.pc = "stream", NEW message \in {its[p.id], Wait!NoItems},
           o \in [server : {"none", "open", "ended"}, last : Snapshots, wire : Seq(Snapshots), stalled : BOOLEAN],
           o.wire = Append(s.wire, message)
    PROVE  StreamInv(p, o, its)
<1>1. p.id \in Requests /\ Onward(p.known, its[p.id]) /\ Onward(its[p.id], its[p.id]) /\ s.wire \in Seq(Snapshots)
  BY DEF ProcInv, StreamInv, Onward, Comes
<1> DEFINE w == s.wire
<1>2. /\ DOMAIN o.wire = 1..(Len(w) + 1) /\ DOMAIN w = 1..Len(w) /\ Len(w) \in Nat
      /\ \A i \in 1..Len(w) : o.wire[i] = w[i]
      /\ o.wire[Len(w) + 1] = message
  <2>1. message \in Snapshots
    BY <1>1 DEF Snapshots, Wait!NoItems, Wait!States
  <2> QED
    BY <1>1, <2>1
<1> HIDE DEF w
<1>3. /\ \A i \in DOMAIN w : w[i] # Wait!NoItems => Onward(p.known, w[i]) /\ Onward(w[i], its[p.id])
      /\ \A i, j \in DOMAIN w : i < j /\ w[i] # Wait!NoItems /\ w[j] # Wait!NoItems => Onward(w[i], w[j])
  BY DEF StreamInv, w
<1>4. \A i \in DOMAIN o.wire : o.wire[i] # Wait!NoItems => Onward(p.known, o.wire[i]) /\ Onward(o.wire[i], its[p.id])
  BY <1>1, <1>2, <1>3
<1>5. ASSUME NEW i \in DOMAIN o.wire, NEW j \in DOMAIN o.wire, i < j,
             o.wire[i] # Wait!NoItems, o.wire[j] # Wait!NoItems
      PROVE  Onward(o.wire[i], o.wire[j])
  <2>1. i \in DOMAIN w
    BY <1>2, <1>5
  <2>2. CASE j \in DOMAIN w
    BY <1>2, <1>3, <1>5, <2>1, <2>2
  <2>3. CASE j \notin DOMAIN w
    <3>1. j = Len(w) + 1
      BY <1>2, <2>3
    <3> QED
      BY <1>2, <1>3, <1>5, <2>1, <3>1
  <2> QED
    BY <2>2, <2>3
<1> QED
  BY <1>4, <1>5 DEF StreamInv

\* The first message is taken; what is behind it is further on.
LEMMA TakingFits ==
    ASSUME NEW its, NEW p, NEW s, NEW o, NEW n, StreamInv(p, s, its), s.wire # <<>>,
           n.pc = "stream", n.id = p.id, NEW message, message = Head(s.wire),
           message = Wait!NoItems => n.known = p.known, message # Wait!NoItems => n.known = message,
           o \in [server : {"none", "open", "ended"}, last : Snapshots, wire : Seq(Snapshots), stalled : BOOLEAN],
           o.wire = Tail(s.wire)
    PROVE  StreamInv(n, o, its)
<1> DEFINE w == s.wire
<1>1. w \in Seq(Snapshots) /\ w # <<>>
  BY DEF StreamInv
<1>2. /\ DOMAIN o.wire = 1..(Len(w) - 1) /\ DOMAIN w = 1..Len(w) /\ Len(w) \in Nat /\ 1 \in DOMAIN w /\ Head(w) = w[1]
      /\ \A i \in 1..(Len(w) - 1) : o.wire[i] = w[i + 1]
  BY <1>1
<1>3. /\ \A i \in DOMAIN w : w[i] # Wait!NoItems => Onward(p.known, w[i]) /\ Onward(w[i], its[p.id])
      /\ \A i, j \in DOMAIN w : i < j /\ w[i] # Wait!NoItems /\ w[j] # Wait!NoItems => Onward(w[i], w[j])
  BY DEF StreamInv
<1>4. n.known = IF w[1] = Wait!NoItems THEN p.known ELSE w[1]
  BY <1>2
<1> HIDE DEF w
<1>5. ASSUME NEW i \in DOMAIN o.wire, o.wire[i] # Wait!NoItems
      PROVE  Onward(n.known, o.wire[i]) /\ Onward(o.wire[i], its[n.id])
  <2>1. i + 1 \in DOMAIN w /\ 1 < i + 1 /\ o.wire[i] = w[i + 1]
    BY <1>2
  <2> QED
    BY <1>2, <1>3, <1>4, <1>5, <2>1
<1>6. ASSUME NEW i \in DOMAIN o.wire, NEW j \in DOMAIN o.wire, i < j,
             o.wire[i] # Wait!NoItems, o.wire[j] # Wait!NoItems
      PROVE  Onward(o.wire[i], o.wire[j])
  <2>1. \A m \in DOMAIN o.wire : m \in Int /\ m + 1 \in DOMAIN w /\ o.wire[m] = w[m + 1]
    BY <1>2
  <2>2. i + 1 < j + 1 /\ i + 1 \in DOMAIN w /\ j + 1 \in DOMAIN w /\ o.wire[i] = w[i + 1] /\ o.wire[j] = w[j + 1]
    BY <1>6, <2>1
  <2> QED
    BY <1>3, <1>6, <2>2
<1> QED
  BY <1>5, <1>6 DEF StreamInv

LEMMA WaitInvInit == ASSUME Wait!BaoCredAssumption, Wait!Init PROVE WaitInv
<1>1. Wait!NoItems \in Snapshots /\ [k \in Items |-> <<>>] \in [Items -> Seq(Wait!States)]
  BY DEF Snapshots, Wait!NoItems, Wait!States
<1>2. items \in [Requests -> Snapshots] /\ allowed \in BOOLEAN /\ proc = Wait!NoRun /\ watch = Wait!NoStream
  BY <1>1 DEF Wait!Init
<1>3. ToldFits(Wait!NoRun.told, Wait!NoRun.known)
  BY NoRunFits DEF ToldFits
<1>4. ProcInv(Wait!NoRun, items)
  BY NoRunFits, <1>3 DEF ProcInv
<1> QED
  BY <1>2, <1>4, NoStreamFits DEF WaitInv

\* bao-cred goes on without its stream, or with none.
LEMMA WithoutStream ==
    ASSUME items' \in [Requests -> Snapshots], allowed' \in BOOLEAN, ProcInv(proc', items'), watch' = Wait!NoStream
    PROVE  WaitInv'
BY NoStreamFits DEF WaitInv

\* The authorizer, OpenBao and the Approvers, while bao-cred does nothing.
LEMMA OutsideSteps ==
    ASSUME Wait!BaoCredAssumption, WaitInv,
           (\E q \in Requests, k \in Items : Wait!Decide(q, k) \/ Wait!Revoke(q, k))
           \/ Wait!StreamSends \/ Wait!StreamBeats \/ Wait!StreamStalls
    PROVE  WaitInv' /\ proc' = proc
<1>0. None \notin Requests /\ items \in [Requests -> Snapshots] /\ ProcInv(proc, items) /\ StreamInv(proc, watch, items)
      /\ watch \in [server : {"none", "open", "ended"}, last : Snapshots, wire : Seq(Snapshots), stalled : BOOLEAN]
      /\ allowed \in BOOLEAN
  BY DEF WaitInv, Wait!BaoCredAssumption, StreamInv
<1>1. ASSUME NEW q \in Requests, NEW k \in Items, Wait!Decide(q, k) \/ Wait!Revoke(q, k) PROVE WaitInv' /\ proc' = proc
  <2>1. PICK state \in {"approved", "rejected", "expired", "revoked"} :
           items' = [items EXCEPT ![q][k] = state] /\ Comes(items[q][k], state)
    BY <1>1 DEF Wait!Decide, Wait!Revoke, Comes
  <2>2. proc' = proc /\ watch' = watch /\ allowed' \in BOOLEAN
    BY <1>0, <1>1 DEF Wait!Decide, Wait!Revoke
  <2>3. items' \in [Requests -> Snapshots]
    <3>1. state \in Wait!States
      BY DEF Wait!States, Wait!Decided
    <3> QED
      BY <1>0, <2>1, <3>1 DEF Snapshots
  <2>4. \A r \in Requests : Onward(items[r], items'[r])
    BY <1>0, <2>1 DEF Snapshots, Onward, Comes
  <2>5. ProcInv(proc, items') /\ StreamInv(proc, watch, items')
    BY <1>0, <2>3, <2>4, ProcStays, StreamStays
  <2> QED
    BY <2>2, <2>3, <2>5 DEF WaitInv
<1>2. CASE Wait!StreamSends \/ Wait!StreamBeats
  <2>0. watch.server = "open" /\ UNCHANGED <<items, allowed, proc>>
    BY <1>2 DEF Wait!StreamSends, Wait!StreamBeats
  <2>1. proc.pc = "stream"
    BY <1>0, <2>0 DEF StreamInv, Wait!NoStream
  <2>2. proc.id \in Requests
    BY <1>0, <2>1 DEF ProcInv
  <2> DEFINE Sent(message) == Append(watch.wire, message)
  <2>3. \A message \in {items[proc.id], Wait!NoItems} : Sent(message) \in Seq(Snapshots)
    <3>1. items[proc.id] \in Snapshots /\ Wait!NoItems \in Snapshots /\ watch.wire \in Seq(Snapshots)
      BY <1>0, <2>2 DEF Snapshots, Wait!NoItems, Wait!States
    <3> QED
      BY <3>1
  <2>4. PICK message \in {items[proc.id], Wait!NoItems} :
           /\ watch' \in [server : {"none", "open", "ended"}, last : Snapshots, wire : Seq(Snapshots), stalled : BOOLEAN]
           /\ watch'.wire = Sent(message)
    <3>1. CASE Wait!StreamSends
      <4> DEFINE server == IF Wait!Pending(items[proc.id]) THEN "open" ELSE "ended"
                 last == items[proc.id]
                 wire == Sent(last)
      <4>1. watch' = [watch EXCEPT !.last = last, !.wire = wire, !.server = server]
        BY <3>1 DEF Wait!StreamSends
      <4>2. last \in Snapshots /\ wire \in Seq(Snapshots) /\ server \in {"none", "open", "ended"}
        BY <1>0, <2>2, <2>3
      <4> HIDE DEF last, wire, server
      <4>3. /\ watch' \in [server : {"none", "open", "ended"}, last : Snapshots, wire : Seq(Snapshots), stalled : BOOLEAN]
            /\ watch'.wire = wire
        BY <1>0, <4>1, <4>2
      <4> QED
        BY <4>3 DEF wire, last
    <3>2. CASE Wait!StreamBeats
      <4> DEFINE wire == Sent(Wait!NoItems)
      <4>1. watch' = [watch EXCEPT !.wire = wire]
        BY <3>2 DEF Wait!StreamBeats
      <4>2. wire \in Seq(Snapshots)
        BY <2>3
      <4> HIDE DEF wire
      <4>3. /\ watch' \in [server : {"none", "open", "ended"}, last : Snapshots, wire : Seq(Snapshots), stalled : BOOLEAN]
            /\ watch'.wire = wire
        BY <1>0, <4>1, <4>2
      <4> QED
        BY <4>3 DEF wire
    <3> QED
      BY <1>2, <3>1, <3>2
  <2>5. StreamInv(proc, watch', items)
    BY <1>0, <2>1, <2>4, SendingFits
  <2> QED
    BY <1>0, <2>0, <2>5 DEF WaitInv
<1>3. CASE Wait!StreamStalls
  <2>1. watch' = [watch EXCEPT !.stalled = TRUE] /\ watch.server # "none" /\ UNCHANGED <<items, allowed, proc>>
    BY <1>3 DEF Wait!StreamStalls
  <2>2. watch' \in [server : {"none", "open", "ended"}, last : Snapshots, wire : Seq(Snapshots), stalled : BOOLEAN]
        /\ watch'.wire = watch.wire
    BY <1>0, <2>1
  <2>3. proc.pc = "stream"
    BY <1>0, <2>1 DEF StreamInv, Wait!NoStream
  <2>4. StreamInv(proc, watch', items)
    BY <1>0, <2>2, <2>3 DEF StreamInv
  <2> QED
    BY <1>0, <2>1, <2>4 DEF WaitInv
<1> QED
  BY <1>1, <1>2, <1>3

\* A run begins: the last one has ended, and its stream with it.
LEMMA RunSteps ==
    ASSUME Wait!BaoCredAssumption, WaitInv,
           Wait!RunRequest(TRUE) \/ Wait!RunRequest(FALSE) \/ Wait!RunRead(TRUE) \/ Wait!RunRead(FALSE)
           \/ Wait!RunBadFlags \/ \E q \in Requests : Wait!RunWait(q)
    PROVE  WaitInv' /\ proc.pc = "exited" /\ proc'.pc # "backoff"
<1>1. proc.pc = "exited" /\ UNCHANGED <<items, allowed, watch>>
  BY DEF Wait!RunRequest, Wait!RunRead, Wait!RunBadFlags, Wait!RunWait, Wait!CanStart, Wait!At, Wait!Outside
<1>2. items \in [Requests -> Snapshots] /\ allowed \in BOOLEAN /\ watch = Wait!NoStream
  BY <1>1 DEF WaitInv, StreamInv
<1>3. PICK verb \in {"request", "wait", "read", "usage"}, id \in Requests \cup {None}, wait \in BOOLEAN,
           place \in {"exited", "create", "get", "read"} :
         /\ proc' = Begun(verb, id, wait, place)
         /\ place = "get" => id \in Requests
         /\ verb = "read" <=> place = "read"
         /\ verb = "usage" <=> place = "exited"
  <2> DEFINE Begins(verb, id, wait, place) == proc' = Begun(verb, id, wait, place)
  <2>1. CASE \E wait \in BOOLEAN : Wait!RunRequest(wait)
    <3>1. \E wait \in BOOLEAN : Begins("request", None, wait, "create")
      BY <2>1 DEF Wait!RunRequest, Wait!Proc, Begun
    <3>3. PICK wait \in BOOLEAN : Begins("request", None, wait, "create")
      BY <3>1
    <3> WITNESS "request" \in {"request", "wait", "read", "usage"}
    <3> WITNESS None \in Requests \cup {None}
    <3> WITNESS wait \in BOOLEAN
    <3> WITNESS "create" \in {"exited", "create", "get", "read"}
    <3> QED
      BY <3>3 DEF Begins
  <2>2. CASE \E wait \in BOOLEAN : Wait!RunRead(wait)
    <3>1. PICK wait \in BOOLEAN : Begins("read", None, wait, "read")
      BY <2>2 DEF Wait!RunRead, Wait!Proc, Begun
    <3> WITNESS "read" \in {"request", "wait", "read", "usage"}
    <3> WITNESS None \in Requests \cup {None}
    <3> WITNESS wait \in BOOLEAN
    <3> WITNESS "read" \in {"exited", "create", "get", "read"}
    <3> QED
      BY <3>1 DEF Begins
  <2>3. CASE Wait!RunBadFlags
    <3>1. Begins("usage", None, FALSE, "exited")
      BY <2>3 DEF Wait!RunBadFlags, Wait!Proc, Begun
    <3> WITNESS "usage" \in {"request", "wait", "read", "usage"}
    <3> WITNESS None \in Requests \cup {None}
    <3> WITNESS FALSE \in BOOLEAN
    <3> WITNESS "exited" \in {"exited", "create", "get", "read"}
    <3> QED
      BY <3>1 DEF Begins
  <2>4. CASE \E q \in Requests : Wait!RunWait(q)
    <3>1. PICK q \in Requests : Begins("wait", q, TRUE, "get")
      BY <2>4 DEF Wait!RunWait, Wait!Proc, Begun
    <3> WITNESS "wait" \in {"request", "wait", "read", "usage"}
    <3> WITNESS q \in Requests \cup {None}
    <3> WITNESS TRUE \in BOOLEAN
    <3> WITNESS "get" \in {"exited", "create", "get", "read"}
    <3> QED
      BY <3>1 DEF Begins
  <2> QED
    BY <2>1, <2>2, <2>3, <2>4
<1>4. Knows(proc', verb, id, place) /\ (place = "exited" => proc'.exit = 2)
  BY <1>3, NewFits
<1>5. ProcInv(proc', items)
  BY <1>3, <1>4, RunsBeginFresh
<1> QED
  BY <1>1, <1>2, <1>4, <1>5, WithoutStream DEF Knows

\* Filing and the first answer.
LEMMA FirstSteps ==
    ASSUME Wait!BaoCredAssumption, WaitInv,
           (\E q \in Requests : Wait!Create(q) \/ Wait!CreateFails(q)) \/ Wait!Get
    PROVE  WaitInv' /\ proc.pc \in {"create", "get"} /\ proc'.pc # "backoff"
<1>0. None \notin Requests /\ items \in [Requests -> Snapshots] /\ ProcInv(proc, items) /\ allowed \in BOOLEAN
      /\ proc \in Awaiting
  BY DEF WaitInv, Wait!BaoCredAssumption, ProcInv
<1>1. ASSUME NEW q \in Requests, Wait!Create(q) \/ Wait!CreateFails(q)
      PROVE  WaitInv' /\ proc.pc = "create" /\ proc'.pc # "backoff"
  <2>1. proc.pc = "create" /\ allowed' = allowed /\ watch' = watch
    BY <1>1 DEF Wait!Create, Wait!CreateFails, Wait!At
  <2>2. watch = Wait!NoStream
    BY <2>1 DEF WaitInv, StreamInv
  <2>3. ASSUME NEW states \in [Items -> {"pending", "refused", "already_granted"}],
               items' = [items EXCEPT ![q] = states]
        PROVE  items' \in [Requests -> Snapshots] /\ items'[q] = states /\ states \in Snapshots
    <3>1. states \in Snapshots
      BY DEF Snapshots, Wait!States, Wait!Decided
    <3> QED
      BY <1>0, <2>3, <3>1
  <2>4. CASE Wait!Create(q)
    <3>1. PICK states \in [Items -> {"pending", "refused", "already_granted"}] :
             items' = [items EXCEPT ![q] = states] /\ proc' = Wait!Awaits([proc EXCEPT !.id = q], states)
      BY <2>4 DEF Wait!Create, Wait!Proc
    <3> DEFINE p == [proc EXCEPT !.id = q]
    <3>2. /\ p \in Awaiting /\ p.id = q /\ p.pc = "create" /\ p.known = proc.known /\ p.told = proc.told
          /\ p.reads = proc.reads /\ p.cmd = proc.cmd /\ p.heard = proc.heard /\ p.slept = proc.slept /\ p.delay = proc.delay
      BY <1>0, <2>1 DEF Awaiting
    <3> HIDE DEF p
    <3>3. ProcInv(p, items')
      BY <1>0, <2>1, <3>2 DEF ProcInv
    <3>4. items' \in [Requests -> Snapshots] /\ items'[q] = states
      BY <2>3, <3>1
    <3>5. ProcInv(Wait!Awaits(p, items'[p.id]), items') /\ Wait!Awaits(p, items'[p.id]).pc \in {"watch", "return"}
      BY <3>2, <3>3, <3>4, AwaitsFits
    <3>6. proc' = Wait!Awaits(p, items'[p.id])
      BY <3>1, <3>2, <3>4 DEF p
    <3> QED
      BY <1>0, <2>1, <2>2, <3>4, <3>5, <3>6, WithoutStream
  <2>5. CASE Wait!CreateFails(q)
    <3>1. items' \in [Requests -> Snapshots]
      BY <1>0, <2>3, <2>5 DEF Wait!CreateFails
    <3>2. proc' = Wait!Exit(proc, 1)
      BY <2>5 DEF Wait!CreateFails, Wait!Proc
    <3>3. ProcInv(proc, items')
      BY <1>0, <2>1 DEF ProcInv
    <3>4. ProcInv(proc', items')
      BY <3>2, <3>3, ErrorsAreTrue
    <3>5. proc'.pc = "exited"
      BY <1>0, <3>2 DEF Wait!Exit, Awaiting
    <3> QED
      BY <1>0, <2>1, <2>2, <3>1, <3>4, <3>5, WithoutStream
  <2> QED
    BY <1>1, <2>1, <2>4, <2>5
<1>2. CASE Wait!Get
  <2>1. proc.pc = "get" /\ UNCHANGED <<items, allowed, watch>> /\ proc' = Wait!Awaits(proc, items[proc.id])
    BY <1>2 DEF Wait!Get, Wait!At, Wait!Outside, Wait!Proc
  <2>2. watch = Wait!NoStream /\ proc.id \in Requests
    BY <1>0, <2>1 DEF WaitInv, StreamInv, ProcInv
  <2>3. ProcInv(proc', items) /\ proc'.pc \in {"watch", "return"}
    BY <1>0, <2>1, <2>2, AwaitsFits
  <2> QED
    BY <1>0, <2>1, <2>2, <2>3, WithoutStream
<1> QED
  BY <1>1, <1>2

\* The steps of the wait, and the ends of a run.
LEMMA LoopSteps ==
    ASSUME Wait!BaoCredAssumption, WaitInv,
           Wait!Return \/ Wait!Read \/ Wait!Watch \/ Wait!StreamEnds \/ Wait!IdleFires \/ Wait!Retry \/ Wait!Receive
           \/ Wait!GetFails \/ Wait!StreamCut \/ Wait!StreamEndsEarly \/ Wait!WatchRefused \/ Wait!Timeout \/ Wait!Signal
    PROVE  /\ WaitInv'
           /\ proc'.id = proc.id
           /\ Onward(proc.known, proc'.known)
           /\ proc.pc # "backoff" /\ proc'.pc = "backoff" => proc' = Wait!Backoff(proc)
<1> DEFINE Goal == /\ WaitInv'
                   /\ proc'.id = proc.id
                   /\ Onward(proc.known, proc'.known)
                   /\ proc.pc # "backoff" /\ proc'.pc = "backoff" => proc' = Wait!Backoff(proc)
<1>0. /\ None \notin Requests /\ items \in [Requests -> Snapshots] /\ ProcInv(proc, items) /\ allowed \in BOOLEAN
      /\ proc \in Awaiting /\ StreamInv(proc, watch, items)
      /\ watch \in [server : {"none", "open", "ended"}, last : Snapshots, wire : Seq(Snapshots), stalled : BOOLEAN]
      /\ Onward(proc.known, proc.known)
      /\ (~proc.heard /\ proc.slept > 0 => proc.delay >= 2 * proc.slept \/ proc.delay = maxRetryDelay)
  BY DEF WaitInv, Wait!BaoCredAssumption, ProcInv, StreamInv, Onward, Comes
<1>1. items' = items /\ allowed' = allowed
  BY DEF Wait!Return, Wait!Read, Wait!Watch, Wait!StreamEnds, Wait!IdleFires, Wait!Retry, Wait!Receive, Wait!GetFails,
         Wait!StreamCut, Wait!StreamEndsEarly, Wait!WatchRefused, Wait!Timeout, Wait!Signal, Wait!Outside, Wait!WaitKept
\* A step that ends without a stream, with what was known.
<1>2. ASSUME ProcInv(proc', items), watch' = Wait!NoStream, proc'.id = proc.id, proc'.known = proc.known,
             proc.pc # "backoff" /\ proc'.pc = "backoff" => proc' = Wait!Backoff(proc)
      PROVE  Goal
  <2>1. WaitInv'
    BY <1>0, <1>1, <1>2, WithoutStream
  <2> QED
    BY <1>0, <1>2, <2>1
<1>3. CASE Wait!GetFails \/ Wait!WatchRefused \/ Wait!Signal
  <2>1. proc' = Wait!Exit(proc, 1)
    BY <1>3 DEF Wait!GetFails, Wait!WatchRefused, Wait!Signal, Wait!Proc
  <2>2. proc'.id = proc.id /\ proc'.known = proc.known /\ proc'.pc = "exited"
    BY <1>0, <2>1 DEF Awaiting, Wait!Exit
  <2>3. ProcInv(proc', items)
    BY <1>0, <2>1, ErrorsAreTrue
  <2>4. watch' = Wait!NoStream
    BY <1>0, <1>3 DEF Wait!GetFails, Wait!WatchRefused, Wait!Signal, Wait!Hangs, Wait!Outside, Wait!At, StreamInv
  <2> QED
    BY <1>2, <2>2, <2>3, <2>4
<1>4. CASE Wait!Return
  <2>1. /\ proc.pc = "return" /\ watch' = watch
        /\ proc' = IF proc.cmd = "read" /\ Wait!outcome(proc.known) = 0 THEN [proc EXCEPT !.pc = "read"]
                   ELSE Wait!Exit(proc, Wait!outcome(proc.known))
    BY <1>4 DEF Wait!Return, Wait!At, Wait!Proc, Wait!Outside
  <2>2. ProcInv(proc', items)
    BY <1>0, <2>1, ReturnIsTrue
  <2>3. proc'.id = proc.id /\ proc'.known = proc.known /\ proc'.pc # "backoff"
    <3>1. proc' = [proc EXCEPT !.pc = "read"] \/ proc' = [proc EXCEPT !.pc = "exited", !.exit = Wait!outcome(proc.known)]
      BY <2>1 DEF Wait!Exit
    <3> QED
      BY <1>0, <3>1 DEF Awaiting
  <2>4. watch' = Wait!NoStream
    BY <1>0, <2>1 DEF StreamInv
  <2> QED
    BY <1>2, <2>2, <2>3, <2>4
<1>5. CASE Wait!Read
  <2> DEFINE r == [proc EXCEPT !.reads = proc.reads + 1]
  <2>1. /\ proc.pc = "read" /\ watch' = watch
        /\ proc' = IF allowed THEN Wait!Exit(r, 0)
                   ELSE IF proc.reads = 0 /\ proc.wait THEN [r EXCEPT !.pc = "create"] ELSE Wait!Exit(r, 1)
    BY <1>5 DEF Wait!Read, Wait!At, Wait!Proc, Wait!Outside
  <2>2. ProcInv(proc', items)
    <3>1. r = [proc EXCEPT !.reads = proc.reads + 1]
      OBVIOUS
    <3> HIDE DEF r
    <3> QED
      BY <1>0, <2>1, <3>1, ReadFits
  <2>2a. proc.reads + 1 \in Int
    BY <1>0 DEF Awaiting
  <2>3. r.id = proc.id /\ r.known = proc.known /\ r.pc = "read"
        /\ r \in [pc : {"read"}, cmd : {"none", "request", "wait", "read", "usage"}, id : Requests \cup {None}, known : Snapshots,
                  told : [Items -> Seq(Wait!States)], delay : retryDelay..maxRetryDelay, slept : 0..maxRetryDelay,
                  heard : BOOLEAN, wait : BOOLEAN, reads : Int, timedOut : BOOLEAN, exit : -1..4]
    BY <1>0, <2>1, <2>2a DEF Awaiting
  <2> HIDE DEF r
  <2>4. proc'.id = proc.id /\ proc'.known = proc.known /\ proc'.pc # "backoff"
    <3>1. \/ proc' = [r EXCEPT !.pc = "create"]
          \/ \E code \in {0, 1} : proc' = [r EXCEPT !.pc = "exited", !.exit = code]
      BY <2>1 DEF Wait!Exit
    <3> QED
      BY <2>3, <3>1
  <2>5. watch' = Wait!NoStream
    BY <1>0, <2>1 DEF StreamInv
  <2> QED
    BY <1>2, <2>2, <2>4, <2>5
<1>6. CASE Wait!Watch
  <2>1. proc.pc = "watch" /\ proc' = [proc EXCEPT !.pc = "stream"] /\ watch' = [Wait!NoStream EXCEPT !.server = "open"]
    BY <1>6 DEF Wait!Watch, Wait!At, Wait!Proc, Wait!NewStream
  <2>2. /\ proc' \in Awaiting /\ proc'.id = proc.id /\ proc'.cmd = proc.cmd /\ proc'.known = proc.known
        /\ proc'.told = proc.told /\ proc'.reads = proc.reads /\ proc'.wait = proc.wait /\ proc'.pc = "stream"
        /\ proc'.heard = proc.heard /\ proc'.slept = proc.slept /\ proc'.delay = proc.delay
    BY <1>0, <2>1 DEF Awaiting
  <2>3. ProcInv(proc', items)
    BY <1>0, <2>1, <2>2, WaitMoves
  <2>4. StreamInv(proc', watch', items)
    BY <2>1, <2>2, NewStreamFits
  <2>5. WaitInv'
    BY <1>0, <1>1, <2>3, <2>4 DEF WaitInv
  <2> QED
    BY <1>0, <2>2, <2>5
<1>7. ASSUME proc.pc \in {"watch", "stream"}, proc' = Wait!Backoff(proc), watch' = Wait!NoStream PROVE Goal
  <2>1. ProcInv(proc', items)
    BY <1>0, <1>7, BackoffMoves
  <2>2. proc'.id = proc.id /\ proc'.known = proc.known
    BY <1>0, <1>7 DEF Awaiting, Wait!Backoff
  <2> QED
    BY <1>2, <1>7, <2>1, <2>2
<1>8. ASSUME proc.pc \in {"watch", "stream", "backoff"}, NEW place \in {"watch", "return"}, NEW timedOut \in BOOLEAN,
             proc' = [proc EXCEPT !.pc = place, !.timedOut = timedOut],
             place = "return" => ~Wait!Pending(proc.known) \/ timedOut, watch' = Wait!NoStream
      PROVE  Goal
  <2>1. /\ proc' \in Awaiting /\ proc'.id = proc.id /\ proc'.cmd = proc.cmd /\ proc'.known = proc.known
        /\ proc'.told = proc.told /\ proc'.reads = proc.reads /\ proc'.wait = proc.wait /\ proc'.pc = place
        /\ proc'.heard = proc.heard /\ proc'.slept = proc.slept /\ proc'.delay = proc.delay /\ proc'.timedOut = timedOut
    BY <1>0, <1>8 DEF Awaiting
  <2>2. ProcInv(proc', items)
    BY <1>0, <1>8, <2>1, WaitMoves
  <2> QED
    BY <1>2, <1>8, <2>1, <2>2
<1>9. \A place \in {"watch", "return"} : [proc EXCEPT !.pc = place] = [proc EXCEPT !.pc = place, !.timedOut = proc.timedOut]
      /\ proc.timedOut \in BOOLEAN
  BY <1>0 DEF Awaiting
<1>10. CASE Wait!StreamEnds \/ Wait!StreamEndsEarly
  <2>1. /\ proc.pc = "stream" /\ watch' = Wait!NoStream
        /\ proc' = IF Wait!Pending(proc.known) THEN Wait!Backoff(proc) ELSE [proc EXCEPT !.pc = "return"]
    BY <1>10 DEF Wait!StreamEnds, Wait!StreamEndsEarly, Wait!At, Wait!Proc, Wait!Hangs
  <2>2. CASE Wait!Pending(proc.known)
    BY <1>7, <2>1, <2>2
  <2>3. CASE ~Wait!Pending(proc.known)
    <3>1. proc' = [proc EXCEPT !.pc = "return", !.timedOut = proc.timedOut] /\ proc.timedOut \in BOOLEAN
      BY <1>9, <2>1, <2>3
    <3> QED
      BY <1>8, <2>1, <2>3, <3>1
  <2> QED
    BY <2>2, <2>3
<1>11. CASE Wait!StreamCut \/ Wait!IdleFires
  <2>1. proc.pc \in {"watch", "stream"} /\ proc' = Wait!Backoff(proc) /\ watch' = Wait!NoStream
    BY <1>11 DEF Wait!StreamCut, Wait!IdleFires, Wait!At, Wait!Proc, Wait!Hangs
  <2> QED
    BY <1>7, <2>1
<1>12. CASE Wait!Retry
  <2> DEFINE place == IF Wait!Pending(proc.known) THEN "watch" ELSE "return"
  <2>1. proc.pc = "backoff" /\ proc' = [proc EXCEPT !.pc = place] /\ watch' = watch
    BY <1>12 DEF Wait!Retry, Wait!At, Wait!Proc
  <2>2. place \in {"watch", "return"} /\ (place = "return" => ~Wait!Pending(proc.known))
    OBVIOUS
  <2> HIDE DEF place
  <2>3. proc' = [proc EXCEPT !.pc = place, !.timedOut = proc.timedOut] /\ proc.timedOut \in BOOLEAN
    BY <1>9, <2>1, <2>2
  <2>4. watch' = Wait!NoStream
    BY <1>0, <2>1 DEF StreamInv
  <2> QED
    BY <1>8, <2>1, <2>2, <2>3, <2>4
<1>13. CASE Wait!Timeout
  <2>1. /\ proc.pc \in {"watch", "stream", "backoff"} /\ watch' = Wait!NoStream
        /\ proc' = [proc EXCEPT !.pc = "return", !.timedOut = TRUE]
    BY <1>13 DEF Wait!Timeout, Wait!At, Wait!Proc, Wait!Hangs
  <2> QED
    BY <1>8, <2>1
<1>14. CASE Wait!Receive
  <2> DEFINE message == Head(watch.wire)
             p == [proc EXCEPT !.delay = retryDelay, !.heard = TRUE]
  <2>1. /\ proc.pc = "stream" /\ watch.wire # <<>>
        /\ proc' = IF message = Wait!NoItems THEN p
                   ELSE [p EXCEPT !.known = message, !.told = Wait!reportChanges(p.told, message)]
        /\ watch' = [watch EXCEPT !.wire = Tail(watch.wire)]
    BY <1>14 DEF Wait!Receive, Wait!At, Wait!Proc
  <2>2. /\ message = watch.wire[1] /\ 1 \in DOMAIN watch.wire /\ message \in Snapshots
        /\ Tail(watch.wire) \in Seq(Snapshots)
    BY <1>0, <2>1
  <2>3. message # Wait!NoItems => Onward(proc.known, message) /\ Onward(message, items[proc.id])
    BY <1>0, <2>2 DEF StreamInv
  <2>4. watch' \in [server : {"none", "open", "ended"}, last : Snapshots, wire : Seq(Snapshots), stalled : BOOLEAN]
        /\ watch'.wire = Tail(watch.wire)
    <3> DEFINE w == Tail(watch.wire)
    <3>1. w \in Seq(Snapshots) /\ watch' = [watch EXCEPT !.wire = w]
      BY <2>1, <2>2
    <3> HIDE DEF w
    <3>2. watch' \in [server : {"none", "open", "ended"}, last : Snapshots, wire : Seq(Snapshots), stalled : BOOLEAN]
          /\ watch'.wire = w
      BY <1>0, <3>1
    <3> QED
      BY <3>2 DEF w
  <2> HIDE DEF message
  <2>4a. retryDelay \in retryDelay..maxRetryDelay
    BY DEF Wait!BaoCredAssumption
  <2>5. p.told = proc.told /\ proc.told \in [Items -> Seq(Wait!States)]
        /\ p \in Awaiting /\ p.id = proc.id /\ p.known = proc.known /\ p.pc = "stream"
    BY <1>0, <2>1, <2>4a DEF Awaiting
  <2>6. CASE message = Wait!NoItems
    <3>1. proc' = p
      BY <2>1, <2>6
    <3>2. ProcInv(p, items)
      BY <1>0, <2>1, HeartbeatMoves
    <3> HIDE DEF p
    <3>3. proc'.id = proc.id /\ proc'.known = proc.known /\ proc'.pc = "stream"
      BY <2>5, <3>1
    <3>4. StreamInv(proc', watch', items)
      <4>1. message = Head(watch.wire)
        BY DEF message
      <4> QED
        BY <1>0, <2>1, <2>4, <2>6, <3>3, <4>1, TakingFits
    <3>5. WaitInv'
      BY <1>0, <1>1, <3>1, <3>2, <3>4 DEF WaitInv
    <3> QED
      BY <1>0, <3>3, <3>5
  <2>7. CASE message # Wait!NoItems
    <3> DEFINE told == Wait!reportChanges(proc.told, message)
               o == [proc EXCEPT !.delay = retryDelay, !.heard = TRUE, !.known = message, !.told = told]
    <3>1. ProcInv(o, items)
      BY <1>0, <2>1, <2>2, <2>3, <2>7, ReceiveMoves
    <3>2. told \in [Items -> Seq(Wait!States)]
      <4>1. ToldFits(proc.told, proc.known) /\ proc.known \in Snapshots /\ proc.told \in [Items -> Seq(Wait!States)]
        BY <1>0 DEF ProcInv, Awaiting
      <4>2. \A k \in Items : proc.told[k] = <<>> \/ Comes(proc.known[k], message[k])
        BY <2>3, <2>7 DEF Onward
      <4> QED
        BY <2>2, <4>1, <4>2, TellingFits
    <3>3. proc' = [p EXCEPT !.known = message, !.told = told]
      BY <2>1, <2>5, <2>7
    <3> HIDE DEF told
    <3>4. proc' = o
      BY <1>0, <2>4a, <3>3 DEF Awaiting
    <3>5. o.id = proc.id /\ o.known = message /\ o.pc = "stream"
      BY <1>0, <2>1, <2>2, <2>4a, <3>2 DEF Awaiting
    <3> HIDE DEF o
    <3>6. StreamInv(proc', watch', items)
      <4>1. message = Head(watch.wire)
        BY DEF message
      <4>2. proc'.id = proc.id /\ proc'.pc = "stream" /\ proc'.known = message
        BY <3>4, <3>5
      <4>3. (message = Wait!NoItems => proc'.known = proc.known) /\ (message # Wait!NoItems => proc'.known = message)
        BY <2>7, <4>2
      <4>4. StreamInv(proc, watch, items) /\ watch.wire # <<>>
        BY <1>0, <2>1
      <4> QED
        BY <2>4, <4>1, <4>2, <4>3, <4>4, TakingFits
    <3>7. WaitInv'
      BY <1>0, <1>1, <3>1, <3>4, <3>6 DEF WaitInv
    <3> QED
      BY <2>3, <2>7, <3>4, <3>5, <3>7
  <2> QED
    BY <2>6, <2>7
<1> QED
  BY <1>3, <1>4, <1>5, <1>6, <1>10, <1>11, <1>12, <1>13, <1>14

LEMMA WaitInvStep ==
    ASSUME Wait!BaoCredAssumption, WaitInv, [Wait!Next]_Wait!vars
    PROVE  WaitInv'
<1>1. CASE UNCHANGED Wait!vars
  BY <1>1 DEF WaitInv, Wait!vars
<1> QED
  BY <1>1, OutsideSteps, RunSteps, FirstSteps, LoopSteps DEF Wait!Next, Wait!Server, Wait!Progress

LEMMA WaitInvHolds == ASSUME Wait!BaoCredAssumption PROVE Wait!Spec => []WaitInv
<1>1. Wait!Init => WaitInv
  BY WaitInvInit
<1>2. WaitInv /\ [Wait!Next]_Wait!vars => WaitInv'
  BY WaitInvStep
<1> QED
  BY <1>1, <1>2, PTL DEF Wait!Spec

\* The exit status is true of the request when bao-cred ends, however often the
\* stream dropped and whatever was decided meanwhile (outcomeError).
THEOREM ExitStatusHolds == ASSUME Wait!BaoCredAssumption PROVE Wait!Spec => []Wait!ExitStatusIsTrue
<1>1. WaitInv => Wait!ExitStatusIsTrue
  <2> SUFFICES ASSUME WaitInv, proc.pc = "exited", proc.id # None, proc.cmd \in {"request", "wait"}
               PROVE  CASE proc.exit = 0 -> \A k \in Items : items[proc.id][k] \in Wait!Granted \cup {"revoked"}
                        [] proc.exit = 3 -> ~Wait!Pending(items[proc.id]) /\ \E k \in Items : items[proc.id][k] \notin Wait!Granted
                        [] proc.exit = 4 -> (proc.timedOut \/ ~proc.wait) /\ Wait!Pending(proc.known)
                        [] OTHER -> TRUE
    BY DEF Wait!ExitStatusIsTrue, Wait!At
  <2>1. ExitIsTrue(proc, items[proc.id])
    BY DEF WaitInv, ProcInv
  <2>2. CASE proc.exit = 0
    BY <2>1, <2>2 DEF ExitIsTrue
  <2>3. CASE proc.exit = 3
    BY <2>1, <2>3 DEF ExitIsTrue
  <2>4. CASE proc.exit = 4
    BY <2>1, <2>4 DEF ExitIsTrue
  <2>5. CASE proc.exit \notin {0, 3, 4}
    BY <2>5
  <2> QED
    BY <2>2, <2>3, <2>4, <2>5
<1> QED
  BY <1>1, WaitInvHolds, PTL

\* However often a state is sent again, the agent is told of it once
\* (reportChanges), and a read is repeated only when all of it was granted
\* (runRead).
THEOREM NewsAndReadsHold ==
    ASSUME Wait!BaoCredAssumption PROVE Wait!Spec => [](Wait!NewsIsToldOnce /\ Wait!ReadsAgainWhenGranted)
<1>1. WaitInv => Wait!NewsIsToldOnce /\ Wait!ReadsAgainWhenGranted
  BY DEF WaitInv, ProcInv, ToldFits, AllGranted, Wait!NewsIsToldOnce, Wait!ReadsAgainWhenGranted
<1> QED
  BY <1>1, WaitInvHolds, PTL

\* What bao-cred knows never goes back, in one stream and from one stream to the
\* next (waitForGrantRequest).
THEOREM SnapshotsNeverGoBack == ASSUME Wait!BaoCredAssumption PROVE Wait!Spec => Wait!SnapshotsAdvance
<1> DEFINE Advances == \A k \in Items : proc'.id = proc.id /\ proc.exit = -1 /\ proc.id # None =>
                           Wait!Rank(proc.known[k]) <= Wait!Rank(proc'.known[k])
<1>1. WaitInv /\ WaitInv' /\ [Wait!Next]_Wait!vars => [Advances]_proc
  <2> SUFFICES ASSUME WaitInv, WaitInv', [Wait!Next]_Wait!vars, proc' # proc, NEW k \in Items,
                      proc'.id = proc.id, proc.exit = -1, proc.id # None
               PROVE  Wait!Rank(proc.known[k]) <= Wait!Rank(proc'.known[k])
    OBVIOUS
  <2>1. proc.known \in Snapshots /\ proc'.known \in Snapshots /\ proc.pc # "exited"
        /\ proc.known[k] \in Wait!States /\ proc'.known[k] \in Wait!States
    BY DEF WaitInv, ProcInv, Awaiting, Snapshots
  <2>2. CASE proc.known[k] = "absent"
    <3>1. Wait!Rank("absent") = 0
      BY DEF Wait!Rank
    <3>2. Wait!Rank(proc'.known[k]) \in 0..3
      BY <2>1, RanksClimb DEF Comes
    <3> QED
      BY <2>2, <3>1, <3>2
  <2>3. CASE Comes(proc.known[k], proc'.known[k])
    BY <2>1, <2>3, RanksClimb
  <2>4. CASE proc.pc \in {"create", "get"}
    <3>1. proc.known = Wait!NoItems
      BY <2>4 DEF WaitInv, ProcInv
    <3> QED
      BY <2>2, <3>1 DEF Wait!NoItems
  <2>5. CASE Onward(proc.known, proc'.known)
    BY <2>3, <2>5 DEF Onward
  <2> QED
    BY <2>1, <2>4, <2>5, OutsideSteps, RunSteps, FirstSteps, LoopSteps
       DEF Wait!Next, Wait!Server, Wait!Progress, Wait!vars
<1> QED
  BY <1>1, WaitInvHolds, PTL DEF Wait!Spec, Wait!SnapshotsAdvance

\* An authorizer that cannot be reached is asked less and less often, up to the
\* longest pause (waitForGrantRequest).
THEOREM BackoffDoubles == ASSUME Wait!BaoCredAssumption PROVE Wait!Spec => Wait!BackoffGrows
<1> DEFINE Grows == proc.pc # "backoff" /\ proc'.pc = "backoff" /\ ~proc.heard /\ proc.slept > 0 =>
                       proc'.slept >= 2 * proc.slept \/ proc'.slept = maxRetryDelay
<1>1. WaitInv /\ [Wait!Next]_Wait!vars => [Grows]_proc
  <2> SUFFICES ASSUME WaitInv, [Wait!Next]_Wait!vars, proc' # proc,
                      proc.pc # "backoff", proc'.pc = "backoff", ~proc.heard, proc.slept > 0
               PROVE  proc'.slept >= 2 * proc.slept \/ proc'.slept = maxRetryDelay
    OBVIOUS
  <2>1. proc' = Wait!Backoff(proc)
    BY OutsideSteps, RunSteps, FirstSteps, LoopSteps DEF Wait!Next, Wait!Server, Wait!Progress, Wait!vars
  <2>2. proc'.slept = proc.delay
    BY <2>1 DEF Wait!Backoff, WaitInv, ProcInv, Awaiting
  <2> QED
    BY <2>2 DEF WaitInv, ProcInv
<1> QED
  BY <1>1, WaitInvHolds, PTL DEF Wait!Spec, Wait!BackoffGrows

-----------------------------------------------------------------------------
(* Deliver *)

Full == [written |-> Chunks, synced |-> Chunks]
\* Where a run is done with its file, or never had one.
Ending == {"remove"} \cup Delivery!Over
Fileless == {"render", "create", "print", "start", "wait"}

\* How far a run's file is at each step, and which runs have a name in the
\* directory.
RunInv(r) ==
    /\ at[r] \in {"render", "create", "chmod"} => inode[r].written = 0
    /\ at[r] = "write" => inode[r].written < Chunks
    /\ at[r] = "sync" => inode[r].written = Chunks
    /\ at[r] \in {"close", "rename"} => inode[r] = Full
    /\ at[r] \in Fileless => r \notin named
    /\ failed[r] => at[r] \in Ending
    /\ r \in outs => /\ at[r] \in Ending /\ ~failed[r]
                     /\ inode[r] = Full
                     /\ at[r] = "exited" => status[r] = 0
    /\ removal[r] # "none" => at[r] \in Delivery!Over
    /\ r \in named /\ at[r] = "remove" => failed[r]
    /\ r \in named /\ at[r] = "exited" =>
          \/ removal[r] = "refused" /\ status[r] = 1
          \/ lost /\ (removal[r] = "done" \/ status[r] = 0)
DeliverInv == Delivery!TypeOK /\ inode[Old] = Full /\ \A r \in Runs : RunInv(r)

-----------------------------------------------------------------------------
LEMMA DeliverInvInit == Delivery!DeliverAssumption /\ Delivery!Init => DeliverInv
  <1> SUFFICES ASSUME Delivery!DeliverAssumption, Delivery!Init PROVE DeliverInv
    OBVIOUS
  <1>1. Delivery!TypeOK
    <2>1. inode \in [Runs \cup {Old} -> [written : 0..Chunks, synced : 0..Chunks]]
      BY DEF Delivery!DeliverAssumption, Delivery!Init
    <2>2. child \in [Runs -> Delivery!Children]
      BY DEF Delivery!Init, Delivery!Children
    <2>3. at \in [Runs -> Delivery!PCs] /\ failed \in [Runs -> BOOLEAN]
      BY DEF Delivery!Init, Delivery!PCs
    <2>4. status \in [Runs -> {-1, 0, 1} \cup Statuses \cup {128 + s : s \in Delivery!Signals}]
      BY DEF Delivery!Init
    <2>5. kills \in 0..MaxKills /\ named \subseteq Runs /\ interrupted \subseteq Runs
      BY DEF Delivery!DeliverAssumption, Delivery!Init
    <2>6. lost \in BOOLEAN
      BY Zenon DEF Delivery!Init
    <2>7. out \in Runs \cup {Old} /\ out \in outs /\ outs \subseteq Runs \cup {Old}
      BY DEF Delivery!Init
    <2>8. form \in [Runs -> {"file", "command", "stdout"}]
      BY DEF Delivery!Init
    <2>9. removal \in [Runs -> {"none", "done", "refused"}]
      BY DEF Delivery!Init
    <2> QED  BY <2>1, <2>2, <2>3, <2>4, <2>5, <2>6, <2>7, <2>8, <2>9 DEF Delivery!TypeOK
  <1>2. inode[Old] = Full /\ \A r \in Runs : RunInv(r)
    BY DEF Delivery!DeliverAssumption, Delivery!Init, RunInv, Full, Ending, Delivery!Over, Fileless
  <1> QED  BY <1>1, <1>2 DEF DeliverInv

-----------------------------------------------------------------------------
(* The steps of one run *)

\* What such a step leaves to the other runs.
Others(p) ==
    /\ \A q \in Runs \ {p} :
          /\ at'[q] = at[q] /\ failed'[q] = failed[q] /\ status'[q] = status[q]
          /\ inode'[q] = inode[q] /\ removal'[q] = removal[q]
          /\ q \in named' <=> q \in named
          /\ q \in outs' <=> q \in outs
    /\ inode'[Old] = inode[Old]
    /\ lost' = lost

LEMMA OthersKeepTheirs ==
    ASSUME DeliverInv, NEW p \in Runs, Others(p), Delivery!TypeOK', RunInv(p)'
    PROVE  DeliverInv'
  <1>1. ASSUME NEW q \in Runs, q # p
        PROVE  RunInv(q)'
    <2>1. RunInv(q)
      BY DEF DeliverInv
    <2> QED  BY <1>1, <2>1 DEF Others, RunInv, Full
  <1>2. (inode[Old] = Full)'
    BY DEF DeliverInv, Others, Full
  <1> QED  BY <1>1, <1>2 DEF DeliverInv

\* Steps that change no file.
LEMMA FilesUntouched ==
    ASSUME Delivery!DeliverAssumption, DeliverInv, NEW p \in Runs,
           \/ Delivery!Render(p) \/ Delivery!RenderFails(p) \/ Delivery!WriteStdout(p) \/ Delivery!CreateFails(p) \/ Delivery!Chmod(p) \/ Delivery!Close(p)
           \/ Delivery!WriteFails(p) \/ Delivery!Start(p) \/ Delivery!StartFails(p)
    PROVE  DeliverInv'
  <1> USE DEF Delivery!At, Delivery!Goto, Delivery!Exit, Delivery!Rest, Delivery!files
  <1>0. Delivery!TypeOK /\ RunInv(p)
    BY DEF DeliverInv
  <1>1. Others(p) /\ UNCHANGED <<Delivery!files, lost>>
    BY <1>0 DEF Delivery!TypeOK, Delivery!Render, Delivery!RenderFails, Delivery!WriteStdout, Delivery!CreateFails, Delivery!Chmod, Delivery!Close, Delivery!WriteFails, Delivery!Fail,
                Delivery!Step, Delivery!Start, Delivery!StartFails, Others
  <1>2. Delivery!TypeOK'
    <2>1. CASE Delivery!Render(p)
      <3>1. at' \in [Runs -> Delivery!PCs]
        BY <1>0, <2>1 DEF Delivery!TypeOK, Delivery!Render, Delivery!PCs, Delivery!Over
      <3> QED  BY <1>0, <2>1, <3>1 DEF Delivery!TypeOK, Delivery!Render
    <2>2. CASE Delivery!Start(p)
      BY <1>0, <2>2 DEF Delivery!TypeOK, Delivery!Start, Delivery!SetChild, Delivery!Children, Delivery!PCs
    <2>3. CASE Delivery!RenderFails(p) \/ Delivery!WriteStdout(p) \/ Delivery!CreateFails(p) \/ Delivery!StartFails(p)
      <3>1. /\ at' = [at EXCEPT ![p] = "exited"]
            /\ status' = [status EXCEPT ![p] = 0] \/ status' = [status EXCEPT ![p] = 1]
        BY <2>3 DEF Delivery!RenderFails, Delivery!WriteStdout, Delivery!CreateFails, Delivery!StartFails
      <3>2. UNCHANGED <<form, failed, inode, named, out, outs, removal, child, interrupted, kills, lost>>
        BY <2>3 DEF Delivery!RenderFails, Delivery!WriteStdout, Delivery!CreateFails, Delivery!StartFails
      <3> QED  BY <1>0, <3>1, <3>2 DEF Delivery!TypeOK, Delivery!PCs, Delivery!Over
    <2>4. CASE Delivery!Chmod(p) \/ Delivery!Close(p) \/ Delivery!WriteFails(p)
      BY <1>0, <2>4 DEF Delivery!TypeOK, Delivery!Chmod, Delivery!Close, Delivery!WriteFails, Delivery!Fail, Delivery!Step, Delivery!PCs
    <2> QED  BY <2>1, <2>2, <2>3, <2>4
  <1>3. RunInv(p)'
    <2>1. CASE Delivery!Render(p)
      <3>1. at[p] = "render" /\ at'[p] \in {"create", "start", "print"} /\ failed' = failed
        BY <1>0, <2>1 DEF Delivery!TypeOK, Delivery!Render
      <3> QED  BY <1>0, <1>1, <3>1 DEF RunInv, Full, Fileless, Ending, Delivery!Over
    <2>2. CASE Delivery!RenderFails(p) \/ Delivery!WriteStdout(p) \/ Delivery!CreateFails(p) \/ Delivery!Start(p) \/ Delivery!StartFails(p)
      <3>1. at[p] \in Fileless /\ at'[p] \in {"wait", "exited"} /\ failed' = failed
        BY <1>0, <2>2 DEF Delivery!TypeOK, Delivery!RenderFails, Delivery!WriteStdout, Delivery!CreateFails, Delivery!Start, Delivery!StartFails, Fileless
      <3> QED  BY <1>0, <1>1, <3>1 DEF RunInv, Full, Fileless, Ending, Delivery!Over
    <2>3. CASE Delivery!Chmod(p) \/ Delivery!Close(p)
      BY <1>0, <1>1, <2>3 DEF Delivery!TypeOK, Delivery!Chmod, Delivery!Close, Delivery!Step, Delivery!DeliverAssumption, RunInv, Full, Fileless, Ending, Delivery!Over
    <2>4. CASE Delivery!WriteFails(p)
      <3>1. at[p] \in {"write", "sync", "close", "rename"} /\ at'[p] = "remove" /\ failed'[p] = TRUE
        BY <1>0, <2>4 DEF Delivery!TypeOK, Delivery!WriteFails, Delivery!Fail
      <3> QED  BY <1>0, <1>1, <3>1 DEF RunInv, Full, Fileless, Ending, Delivery!Over
    <2> QED  BY <2>1, <2>2, <2>3, <2>4
  <1> QED  BY <1>1, <1>2, <1>3, OthersKeepTheirs

\* Steps of the command and its end, and of the signals.
LEMMA CommandKeeps ==
    ASSUME Delivery!DeliverAssumption, DeliverInv, NEW p \in Runs,
           Delivery!ChildEnds(p) \/ Delivery!Interrupt(p) \/ Delivery!KillChild(p) \/ Delivery!Collect(p) \/ Delivery!Kill(p)
    PROVE  DeliverInv'
  <1> USE DEF Delivery!At, Delivery!Goto, Delivery!Exit, Delivery!Rest, Delivery!files
  <1>0. Delivery!TypeOK /\ RunInv(p)
    BY DEF DeliverInv
  <1>1. Others(p) /\ UNCHANGED <<Delivery!files, lost, failed>>
    BY <1>0 DEF Delivery!TypeOK, Delivery!ChildEnds, Delivery!Interrupt, Delivery!KillChild, Delivery!Collect, Delivery!Kill, Others
  <1>2. Delivery!TypeOK'
    <2>1. CASE Delivery!ChildEnds(p) \/ Delivery!KillChild(p)
      BY <1>0, <2>1 DEF Delivery!TypeOK, Delivery!ChildEnds, Delivery!KillChild, Delivery!SetChild, Delivery!Children, Delivery!NoChild, Delivery!Signals
    <2>2. CASE Delivery!Interrupt(p) \/ Delivery!Kill(p)
      BY <1>0, <2>2, Delivery!DeliverAssumption DEF Delivery!DeliverAssumption, Delivery!TypeOK, Delivery!Interrupt, Delivery!Kill, Delivery!PCs, Delivery!Over
    <2>3. CASE Delivery!Collect(p)
      <3>1. Delivery!commandExitCode(child[p]) \in Statuses \cup {128 + s : s \in Delivery!Signals}
        BY <1>0, <2>3 DEF Delivery!TypeOK, Delivery!Collect, Delivery!commandExitCode, Delivery!Children, Delivery!NoChild
      <3>2. at' = [at EXCEPT ![p] = "exited"]
        BY <2>3 DEF Delivery!Collect
      <3>3. \/ status' = [status EXCEPT ![p] = Delivery!commandExitCode(child[p])]
            \/ status' = [status EXCEPT ![p] = 1]
        BY <2>3 DEF Delivery!Collect
      <3>4. UNCHANGED <<form, failed, inode, named, out, outs, removal, child, interrupted, kills, lost>>
        BY <2>3 DEF Delivery!Collect
      <3> QED  BY <1>0, <3>1, <3>2, <3>3, <3>4 DEF Delivery!TypeOK, Delivery!PCs, Delivery!Over
    <2> QED  BY <2>1, <2>2, <2>3
  <1>3. RunInv(p)'
    BY <1>0, <1>1 DEF Delivery!TypeOK, Delivery!ChildEnds, Delivery!Interrupt, Delivery!KillChild, Delivery!Collect, Delivery!Kill, RunInv, Fileless, Ending, Delivery!Over
  <1> QED  BY <1>1, <1>2, <1>3, OthersKeepTheirs

\* The steps of writeFile that change its file or the directory.
LEMMA WriteFileKeeps ==
    ASSUME Delivery!DeliverAssumption, DeliverInv, NEW p \in Runs,
           Delivery!CreateTemp(p) \/ Delivery!ChmodFails(p) \/ Delivery!Write(p) \/ Delivery!Sync(p) \/ Delivery!Rename(p) \/ Delivery!Remove(p)
    PROVE  DeliverInv'
  <1> USE DEF Delivery!At, Delivery!Goto, Delivery!Exit, Delivery!Rest, Delivery!files, Delivery!Step
  <1>0. Delivery!TypeOK /\ RunInv(p) /\ inode[Old] = Full /\ Old # p
    BY DEF DeliverInv, Delivery!DeliverAssumption
  <1>1. CASE Delivery!CreateTemp(p) \/ Delivery!ChmodFails(p) \/ Delivery!Remove(p)
    <2>1. Others(p)
      BY <1>0, <1>1 DEF Delivery!TypeOK, Delivery!CreateTemp, Delivery!ChmodFails, Delivery!Remove, Delivery!RemoveTemp, Others
    <2>2. Delivery!TypeOK'
      BY <1>0, <1>1 DEF Delivery!TypeOK, Delivery!CreateTemp, Delivery!ChmodFails, Delivery!Remove, Delivery!RemoveTemp, Delivery!PCs, Delivery!Over
    <2>3. RunInv(p)'
      <3>1. CASE Delivery!CreateTemp(p)
        BY <1>0, <3>1 DEF Delivery!TypeOK, Delivery!CreateTemp, RunInv, Fileless, Ending, Delivery!Over
      <3>2. CASE Delivery!ChmodFails(p) \/ Delivery!Remove(p)
        <4>1. /\ at[p] \in {"chmod", "remove"} /\ at'[p] = "exited"
              /\ at[p] = "chmod" \/ failed[p] => status'[p] = 1
              /\ at[p] = "remove" /\ ~failed[p] => status'[p] = 0
              /\ failed' = failed /\ inode' = inode /\ outs' = outs
          BY <1>0, <3>2 DEF Delivery!TypeOK, Delivery!ChmodFails, Delivery!Remove
        <4>2. p \in named' => p \in named /\ removal'[p] = "refused"
          BY <1>0, <3>2 DEF Delivery!TypeOK, Delivery!ChmodFails, Delivery!Remove, Delivery!RemoveTemp
        <4> QED  BY <1>0, <4>1, <4>2 DEF RunInv, Fileless, Ending, Delivery!Over, Full
      <3> QED  BY <1>1, <3>1, <3>2
    <2> QED  BY <2>1, <2>2, <2>3, OthersKeepTheirs
  <1>2. CASE Delivery!Write(p)
    <2>1. p \notin outs /\ inode[p].written \in Nat /\ inode[p].written < Chunks
      BY <1>0, <1>2 DEF Delivery!TypeOK, Delivery!Write, RunInv, Ending, Delivery!Over
    <2>2. inode'[p].written = inode[p].written + 1
      BY <1>0, <1>2 DEF Delivery!TypeOK, Delivery!Write
    <2>3. Others(p)
      BY <1>0, <1>2 DEF Delivery!TypeOK, Delivery!Write, Others
    <2>4. Delivery!TypeOK'
      BY <1>0, <1>2, <2>1, Delivery!DeliverAssumption DEF Delivery!DeliverAssumption, Delivery!TypeOK, Delivery!Write, Delivery!PCs, Delivery!Over
    <2>5. RunInv(p)'
      BY <1>0, <1>2, <2>1, <2>2, Delivery!DeliverAssumption
         DEF Delivery!DeliverAssumption, Delivery!TypeOK, Delivery!Write, RunInv, Fileless, Ending, Delivery!Over
    <2> QED  BY <2>3, <2>4, <2>5, OthersKeepTheirs
  <1>3. CASE Delivery!Sync(p)
    <2>1. Others(p)
      BY <1>0, <1>3 DEF Delivery!TypeOK, Delivery!Sync, Others
    <2>2. Delivery!TypeOK'
      BY <1>0, <1>3 DEF Delivery!TypeOK, Delivery!Sync, Delivery!PCs, Delivery!Over
    <2>3. inode'[p] = Full
      BY <1>0, <1>3 DEF Delivery!TypeOK, Delivery!Sync, RunInv, Full
    <2>4. RunInv(p)'
      BY <1>0, <1>3, <2>3 DEF Delivery!TypeOK, Delivery!Sync, RunInv, Fileless, Ending, Delivery!Over, Full
    <2> QED  BY <2>1, <2>2, <2>4, OthersKeepTheirs
  <1>4. CASE Delivery!Rename(p)
    <2>1. Others(p)
      BY <1>0, <1>4 DEF Delivery!TypeOK, Delivery!Rename, Others
    <2>2. Delivery!TypeOK'
      BY <1>0, <1>4 DEF Delivery!TypeOK, Delivery!Rename, Delivery!PCs, Delivery!Over
    <2>3. RunInv(p)'
      BY <1>0, <1>4 DEF Delivery!TypeOK, Delivery!Rename, RunInv, Fileless, Ending, Delivery!Over, Full
    <2> QED  BY <2>1, <2>2, <2>3, OthersKeepTheirs
  <1> QED  BY <1>1, <1>2, <1>3, <1>4

-----------------------------------------------------------------------------
\* What may be lost is what was not synced: of a file that may have the
\* output's name, nothing.
LEMMA PowerLossKeeps ==
    ASSUME Delivery!DeliverAssumption, DeliverInv, Delivery!PowerLoss
    PROVE  DeliverInv'
  <1>0. Delivery!TypeOK /\ inode[Old] = Full /\ Old \notin Runs /\ Chunks \in Nat
    BY DEF DeliverInv, Delivery!DeliverAssumption
  <1> PICK kept \in [Runs \cup {Old} -> 0..Chunks] :
        /\ \A i \in Runs \cup {Old} : kept[i] \in inode[i].synced .. inode[i].written
        /\ inode' = [i \in Runs \cup {Old} |-> [written |-> kept[i], synced |-> kept[i]]]
    BY DEF Delivery!PowerLoss
  <1>1. Delivery!TypeOK'
    <2>1. inode' \in [Runs \cup {Old} -> [written : 0..Chunks, synced : 0..Chunks]]
      OBVIOUS
    <2>2. at' \in [Runs -> Delivery!PCs]
      BY <1>0 DEF Delivery!PowerLoss, Delivery!TypeOK, Delivery!PCs, Delivery!Over
    <2>3. named' \subseteq Runs /\ out' \in Runs \cup {Old} /\ out' \in outs' /\ outs' \subseteq Runs \cup {Old}
      BY <1>0 DEF Delivery!PowerLoss, Delivery!TypeOK
    <2> QED  BY <1>0, <2>1, <2>2, <2>3 DEF Delivery!PowerLoss, Delivery!TypeOK
  <1>2. \A i \in Runs \cup {Old} : inode[i] = Full => inode'[i] = Full
    <2> SUFFICES ASSUME NEW i \in Runs \cup {Old}, inode[i] = Full
                 PROVE  inode'[i] = Full
      OBVIOUS
    <2>1. kept[i] = Chunks
      BY <1>0 DEF Full
    <2> QED  BY <2>1 DEF Full
  <1>3. \A r \in Runs : /\ at'[r] \in Delivery!Over
                        /\ at'[r] = "exited" => at[r] = "exited"
    BY <1>0 DEF Delivery!PowerLoss, Delivery!TypeOK, Delivery!Over
  <1>4. ASSUME NEW r \in Runs
        PROVE  RunInv(r)'
    <2>1. RunInv(r)
      BY DEF DeliverInv
    <2>2. r \in outs' => r \in outs
      BY DEF Delivery!PowerLoss
    <2>3. r \in named' => r \in named \/ r \in outs \/ removal[r] = "done"
      BY DEF Delivery!PowerLoss
    <2> QED  BY <1>2, <1>3, <2>1, <2>2, <2>3 DEF Delivery!PowerLoss, RunInv, Full, Fileless, Ending, Delivery!Over
  <1> QED  BY <1>0, <1>1, <1>2, <1>4 DEF DeliverInv, Full

LEMMA DeliverInvStep == Delivery!DeliverAssumption /\ DeliverInv /\ [Delivery!Next]_(Delivery!vars) => DeliverInv'
  <1> SUFFICES ASSUME Delivery!DeliverAssumption, DeliverInv, [Delivery!Next]_(Delivery!vars)
               PROVE  DeliverInv'
    OBVIOUS
  <1>1. ASSUME NEW p \in Runs, Delivery!Steps(p) \/ Delivery!ChildEnds(p) \/ Delivery!Interrupt(p) \/ Delivery!Kill(p)
        PROVE  DeliverInv'
    BY <1>1, FilesUntouched, CommandKeeps, WriteFileKeeps DEF Delivery!Steps, Delivery!WriteFile
  <1>2. CASE Delivery!PowerLoss
    BY <1>2, PowerLossKeeps
  <1>3. CASE UNCHANGED Delivery!vars
    BY <1>3 DEF Delivery!vars, DeliverInv, Delivery!TypeOK, RunInv, Full
  <1> QED  BY <1>1, <1>2, <1>3 DEF Delivery!Next

-----------------------------------------------------------------------------
\* DeliverInv is inductive.
THEOREM DeliverInvHolds == ASSUME Delivery!DeliverAssumption PROVE Delivery!Spec => []DeliverInv
  BY Delivery!DeliverAssumption, DeliverInvInit, DeliverInvStep, PTL DEF Delivery!Spec

\* Whoever opens the output reads what it held before or one run's contents to
\* the last byte, through kills and a power loss (writeFile).
THEOREM OutputIsAlwaysWhole == ASSUME Delivery!DeliverAssumption PROVE Delivery!Spec => []Delivery!OutputIsWhole
  <1>1. DeliverInv => Delivery!OutputIsWhole
    BY DEF DeliverInv, Delivery!TypeOK, RunInv, Full, Delivery!OutputIsWhole
  <1> QED  BY <1>1, DeliverInvHolds, PTL

\* A run that was not killed leaves no temporary file, unless it ended with an
\* error and the disk refused the removal, or a power loss undid its rename or
\* its removal (writeFile, createSecureTemp).
THEOREM LeftoversAreExplained == ASSUME Delivery!DeliverAssumption PROVE Delivery!Spec => []Delivery!NothingLeftBehind
  <1>1. DeliverInv => Delivery!NothingLeftBehind
    BY DEF DeliverInv, Delivery!TypeOK, RunInv, Delivery!NothingLeftBehind
  <1> QED  BY <1>1, DeliverInvHolds, PTL

-----------------------------------------------------------------------------
(* What a run's exit status is worth.                                       *)

WriteFilePCs == {"create", "chmod", "write", "sync", "close", "rename", "remove"}

\* What a run has to do with its form and its command at each step, and what
\* its exit status is made of.
StatusInv(r) ==
    /\ at[r] \in WriteFilePCs => form[r] = "file"
    /\ at[r] = "print" => form[r] = "stdout"
    /\ at[r] \in {"start", "wait"} => form[r] = "command"
    /\ child[r] # Delivery!NoChild => form[r] = "command" /\ at[r] \in {"wait"} \cup Delivery!Over
    /\ at[r] = "exited" => child[r].state # "running"
    /\ at[r] = "exited" /\ form[r] = "command" =>
          IF child[r] = Delivery!NoChild THEN status[r] = 1
          ELSE \/ status[r] = Delivery!commandExitCode(child[r])
               \/ status[r] = 1 /\ Delivery!commandExitCode(child[r]) = 0 /\ r \in interrupted
    /\ form[r] = "file" /\ ~lost =>
          /\ at[r] = "remove" /\ ~failed[r] => r \in outs
          /\ at[r] = "exited" /\ status[r] = 0 => r \in outs

\* The other runs keep their part.
LEMMA StatusesStay ==
    ASSUME NEW q \in Runs, StatusInv(q),
           at'[q] = at[q] /\ failed'[q] = failed[q] /\ status'[q] = status[q] /\ child'[q] = child[q],
           UNCHANGED <<form, lost>>, q \in outs => q \in outs', q \in interrupted => q \in interrupted'
    PROVE  StatusInv(q)'
  BY DEF StatusInv

LEMMA StatusInit == ASSUME Delivery!Init, NEW r \in Runs PROVE StatusInv(r)
  BY DEF Delivery!Init, StatusInv, WriteFilePCs, Delivery!Over

\* The steps of writeFile and of printing, which know of no command.
LEMMA FileStepsTellStatus ==
    ASSUME Delivery!DeliverAssumption, DeliverInv, NEW p \in Runs, StatusInv(p),
           Delivery!RenderFails(p) \/ Delivery!WriteStdout(p) \/ Delivery!WriteFile(p)
    PROVE  StatusInv(p)' /\ UNCHANGED <<form, child, lost, interrupted>> /\ outs \subseteq outs'
  <1> USE DEF Delivery!At, Delivery!Goto, Delivery!Exit, Delivery!Rest, Delivery!files
  <1>0. Delivery!TypeOK /\ RunInv(p)
    BY DEF DeliverInv
  <1>1. UNCHANGED <<form, child, lost, interrupted>> /\ outs \subseteq outs'
    BY DEF Delivery!RenderFails, Delivery!WriteStdout, Delivery!WriteFile, Delivery!CreateTemp, Delivery!CreateFails, Delivery!Chmod, Delivery!ChmodFails, Delivery!Write, Delivery!Sync, Delivery!Close,
           Delivery!Rename, Delivery!WriteFails, Delivery!Remove, Delivery!Fail, Delivery!Step, Delivery!RemoveTemp
  <1>2. CASE Delivery!RenderFails(p) \/ Delivery!CreateFails(p) \/ Delivery!ChmodFails(p)
    <2>1. /\ at'[p] = "exited" /\ status'[p] = 1
          /\ at[p] \in {"render", "create", "chmod"}
      BY <1>0, <1>2 DEF Delivery!TypeOK, Delivery!RenderFails, Delivery!CreateFails, Delivery!ChmodFails
    <2>2. child[p] = Delivery!NoChild
      BY <2>1 DEF StatusInv, Delivery!Over
    <2> QED  BY <1>1, <2>1, <2>2 DEF StatusInv, WriteFilePCs, Delivery!NoChild
  <1>3. CASE Delivery!WriteStdout(p)
    <2>1. at'[p] = "exited" /\ at[p] = "print"
      BY <1>0, <1>3 DEF Delivery!TypeOK, Delivery!WriteStdout
    <2>2. child[p] = Delivery!NoChild /\ form[p] = "stdout"
      BY <2>1 DEF StatusInv, Delivery!Over
    <2> QED  BY <1>1, <2>1, <2>2 DEF StatusInv, WriteFilePCs, Delivery!NoChild
  <1>4. CASE Delivery!CreateTemp(p) \/ Delivery!Chmod(p) \/ Delivery!Write(p) \/ Delivery!Sync(p) \/ Delivery!Close(p)
    <2>1. /\ at[p] \in WriteFilePCs \ {"remove"} /\ at'[p] \in WriteFilePCs \ {"remove"}
      BY <1>0, <1>4 DEF Delivery!TypeOK, Delivery!CreateTemp, Delivery!Chmod, Delivery!Write, Delivery!Sync, Delivery!Close, Delivery!Step, WriteFilePCs
    <2> QED  BY <1>1, <2>1 DEF StatusInv, WriteFilePCs, Delivery!Over
  <1>5. CASE Delivery!Rename(p)
    <2>1. at[p] = "rename" /\ at'[p] = "remove" /\ p \in outs'
      BY <1>0, <1>5 DEF Delivery!TypeOK, Delivery!Rename, Delivery!Step
    <2> QED  BY <1>1, <2>1 DEF StatusInv, WriteFilePCs, Delivery!Over
  <1>6. CASE Delivery!WriteFails(p)
    <2>1. at[p] \in WriteFilePCs \ {"remove"} /\ at'[p] = "remove" /\ failed'[p] = TRUE
      BY <1>0, <1>6 DEF Delivery!TypeOK, Delivery!WriteFails, Delivery!Fail, WriteFilePCs
    <2> QED  BY <1>1, <2>1 DEF StatusInv, WriteFilePCs, Delivery!Over
  <1>7. CASE Delivery!Remove(p)
    <2>1. at[p] = "remove" /\ at'[p] = "exited" /\ (status'[p] = 0 => ~failed[p]) /\ outs' = outs
      BY <1>0, <1>7 DEF Delivery!TypeOK, Delivery!Remove
    <2>2. child[p] = Delivery!NoChild /\ form[p] = "file"
      BY <2>1 DEF StatusInv, WriteFilePCs, Delivery!Over
    <2> QED  BY <1>1, <2>1, <2>2 DEF StatusInv, WriteFilePCs, Delivery!NoChild
  <1> QED  BY <1>1, <1>2, <1>3, <1>4, <1>5, <1>6, <1>7 DEF Delivery!WriteFile

\* The steps that have to do with a command, and those that end a run.
LEMMA CommandStepsTellStatus ==
    ASSUME Delivery!DeliverAssumption, DeliverInv, NEW p \in Runs, StatusInv(p),
           \/ Delivery!Render(p) \/ Delivery!Start(p) \/ Delivery!StartFails(p) \/ Delivery!ChildEnds(p) \/ Delivery!Interrupt(p) \/ Delivery!KillChild(p)
           \/ Delivery!Collect(p) \/ Delivery!Kill(p)
    PROVE  StatusInv(p)' /\ UNCHANGED <<form, lost, outs, failed>> /\ interrupted \subseteq interrupted'
  <1> USE DEF Delivery!At, Delivery!Goto, Delivery!Exit, Delivery!Rest, Delivery!files
  <1>0. Delivery!TypeOK /\ RunInv(p)
    BY DEF DeliverInv
  <1>1. UNCHANGED <<form, lost, outs, failed>> /\ interrupted \subseteq interrupted'
    BY DEF Delivery!Render, Delivery!Start, Delivery!StartFails, Delivery!ChildEnds, Delivery!Interrupt, Delivery!KillChild, Delivery!Collect, Delivery!Kill
  <1>2. CASE Delivery!Render(p)
    <2>1. /\ at[p] = "render" /\ UNCHANGED <<child, status>>
          /\ \/ at'[p] = "create" /\ form[p] = "file"
             \/ at'[p] = "start" /\ form[p] = "command"
             \/ at'[p] = "print" /\ form[p] = "stdout"
      BY <1>0, <1>2 DEF Delivery!TypeOK, Delivery!Render
    <2>2. child[p] = Delivery!NoChild
      BY <2>1 DEF StatusInv, Delivery!Over
    <2> QED  BY <1>1, <2>1, <2>2 DEF StatusInv, WriteFilePCs
  <1>3. CASE Delivery!Start(p)
    <2>1. at[p] = "start" /\ at'[p] = "wait"
      BY <1>0, <1>3 DEF Delivery!TypeOK, Delivery!Start
    <2> QED  BY <1>1, <2>1 DEF StatusInv, WriteFilePCs
  <1>4. CASE Delivery!StartFails(p)
    <2>1. at[p] = "start" /\ at'[p] = "exited" /\ status'[p] = 1 /\ child' = child
      BY <1>0, <1>4 DEF Delivery!TypeOK, Delivery!StartFails
    <2>2. child[p] = Delivery!NoChild /\ form[p] = "command"
      BY <2>1 DEF StatusInv, Delivery!Over
    <2> QED  BY <1>1, <2>1, <2>2 DEF StatusInv, WriteFilePCs, Delivery!NoChild
  <1>5. CASE Delivery!ChildEnds(p) \/ Delivery!KillChild(p)
    <2>1. /\ child[p].state = "running" /\ UNCHANGED <<at, status>>
      BY <1>5 DEF Delivery!ChildEnds, Delivery!KillChild
    <2>2. child[p] # Delivery!NoChild
      BY <2>1 DEF Delivery!NoChild
    <2>3. form[p] = "command" /\ at[p] \in {"wait", "killed"}
      BY <2>1, <2>2 DEF StatusInv, Delivery!Over
    <2> QED  BY <1>1, <2>1, <2>3 DEF StatusInv, WriteFilePCs, Delivery!Over
  <1>6. CASE Delivery!Interrupt(p)
    <2>1. UNCHANGED <<at, status, child>>
      BY <1>6 DEF Delivery!Interrupt
    <2> QED  BY <1>1, <2>1 DEF StatusInv
  <1>7. CASE Delivery!Kill(p)
    <2>1. at'[p] = "killed" /\ UNCHANGED <<status, child>>
      BY <1>0, <1>7 DEF Delivery!TypeOK, Delivery!Kill
    <2> QED  BY <1>1, <2>1 DEF StatusInv, WriteFilePCs, Delivery!Over
  <1>8. CASE Delivery!Collect(p)
    <2>1. /\ at[p] = "wait" /\ at'[p] = "exited" /\ child' = child /\ child[p].state \in {"exited", "signaled"}
          /\ interrupted' = interrupted
          /\ \/ status'[p] = Delivery!commandExitCode(child[p])
             \/ status'[p] = 1 /\ Delivery!commandExitCode(child[p]) = 0 /\ p \in interrupted
      BY <1>0, <1>8 DEF Delivery!TypeOK, Delivery!Collect
    <2>2. child[p] # Delivery!NoChild /\ form[p] = "command"
      BY <2>1 DEF StatusInv, Delivery!NoChild
    <2>3. Delivery!commandExitCode(child[p])' = Delivery!commandExitCode(child[p])
      BY <2>1 DEF Delivery!commandExitCode
    <2> QED  BY <1>1, <2>1, <2>2, <2>3 DEF StatusInv, WriteFilePCs, Delivery!Over, Delivery!NoChild
  <1> QED  BY <1>1, <1>2, <1>3, <1>4, <1>5, <1>6, <1>7, <1>8

LEMMA StatusStep ==
    ASSUME Delivery!DeliverAssumption, DeliverInv, \A r \in Runs : StatusInv(r), [Delivery!Next]_(Delivery!vars)
    PROVE  \A r \in Runs : StatusInv(r)'
  <1>0. Delivery!TypeOK
    BY DEF DeliverInv
  <1>1. ASSUME NEW p \in Runs, Delivery!Steps(p) \/ Delivery!ChildEnds(p) \/ Delivery!Interrupt(p) \/ Delivery!Kill(p)
        PROVE  \A r \in Runs : StatusInv(r)'
    <2>1. \A q \in Runs \ {p} : /\ at'[q] = at[q] /\ failed'[q] = failed[q] /\ status'[q] = status[q]
                                /\ child'[q] = child[q]
      BY <1>0, <1>1 DEF Delivery!TypeOK, Delivery!Steps, Delivery!WriteFile, Delivery!Render, Delivery!RenderFails, Delivery!WriteStdout, Delivery!CreateTemp, Delivery!CreateFails, Delivery!Chmod,
         Delivery!ChmodFails, Delivery!Write, Delivery!Sync, Delivery!Close, Delivery!Rename, Delivery!WriteFails, Delivery!Remove, Delivery!Fail, Delivery!Step, Delivery!Start, Delivery!StartFails, Delivery!KillChild,
         Delivery!Collect, Delivery!ChildEnds, Delivery!Interrupt, Delivery!Kill, Delivery!SetChild, Delivery!At, Delivery!Goto, Delivery!Exit, Delivery!Rest, Delivery!files
    <2>2. /\ StatusInv(p)' /\ UNCHANGED <<form, lost>>
          /\ outs \subseteq outs' /\ interrupted \subseteq interrupted'
      BY <1>1, FileStepsTellStatus, CommandStepsTellStatus DEF Delivery!Steps
    <2>3. ASSUME NEW q \in Runs, q # p PROVE StatusInv(q)'
      BY <2>1, <2>2, <2>3, StatusesStay
    <2> QED  BY <2>2, <2>3
  <1>2. CASE Delivery!PowerLoss
    <2>1. /\ \A r \in Runs : (at'[r] = at[r] /\ at[r] \in Delivery!Over) \/ at'[r] = "killed"
          /\ UNCHANGED <<form, failed, status, child, interrupted>> /\ lost' = TRUE
      BY <1>2 DEF Delivery!PowerLoss
    <2> QED  BY <2>1 DEF StatusInv, WriteFilePCs, Delivery!Over
  <1>3. CASE UNCHANGED Delivery!vars
    BY <1>3 DEF Delivery!vars, StatusInv
  <1> QED  BY <1>1, <1>2, <1>3 DEF Delivery!Next

\* A run ends with 0 only when it delivered: its file has the output's name,
\* its command ended with 0; a run that reports a failure has not touched the
\* output; and a command's failure is passed on in the shell's convention, also
\* that of a command killed for an interrupt (execute, commandExitCode).
THEOREM StatusesAreTrue == ASSUME Delivery!DeliverAssumption PROVE Delivery!Spec => []Delivery!StatusTellsDelivery
  <1> DEFINE AllTrue == \A r \in Runs : StatusInv(r)
  <1>1. Delivery!Init => AllTrue
    BY StatusInit
  <1>2. Delivery!DeliverAssumption /\ DeliverInv /\ AllTrue /\ [Delivery!Next]_(Delivery!vars) => AllTrue'
    BY StatusStep
  <1>3. DeliverInv /\ AllTrue => Delivery!StatusTellsDelivery
    <2> SUFFICES ASSUME DeliverInv, AllTrue, NEW r \in Runs, at[r] = "exited"
                 PROVE  /\ form[r] = "file" /\ ~lost => (status[r] = 0 <=> r \in outs)
                        /\ form[r] = "command" /\ child[r].state = "exited" =>
                              status[r] = child[r].status \/ (r \in interrupted /\ child[r].status = 0)
                        /\ child[r].state = "signaled" => status[r] = 128 + child[r].status
                        /\ form[r] = "command" /\ status[r] = 0 => child[r] = [state |-> "exited", status |-> 0]
      BY DEF Delivery!StatusTellsDelivery
    <2>1. StatusInv(r) /\ RunInv(r) /\ child[r] \in Delivery!Children
      BY DEF DeliverInv, Delivery!TypeOK
    <2>2. /\ child[r].state = "signaled" => child[r].status \in {9, 15}
          /\ child[r].state \in {"none", "exited", "signaled"}
          /\ child[r].state = "none" <=> child[r] = Delivery!NoChild
          /\ child[r] = [state |-> child[r].state, status |-> child[r].status]
      BY <2>1 DEF StatusInv, Delivery!Children, Delivery!NoChild, Delivery!Signals
    <2>3. form[r] = "file" /\ ~lost => (status[r] = 0 <=> r \in outs)
      BY <2>1 DEF StatusInv, RunInv
    <2>4. form[r] = "command" /\ child[r].state = "exited" =>
              status[r] = child[r].status \/ (r \in interrupted /\ child[r].status = 0)
      BY <2>1, <2>2 DEF StatusInv, Delivery!commandExitCode, Delivery!NoChild
    <2>5. child[r].state = "signaled" => status[r] = 128 + child[r].status
      BY <2>1, <2>2 DEF StatusInv, Delivery!commandExitCode, Delivery!NoChild
    <2>6. form[r] = "command" /\ status[r] = 0 => child[r] = [state |-> "exited", status |-> 0]
      <3> SUFFICES ASSUME form[r] = "command", status[r] = 0 PROVE child[r] = [state |-> "exited", status |-> 0]
        OBVIOUS
      <3>1. child[r].state # "signaled"
        BY <2>2, <2>5
      <3>2. child[r] # Delivery!NoChild /\ status[r] = Delivery!commandExitCode(child[r])
        BY <2>1 DEF StatusInv
      <3>3. child[r].state = "exited" /\ child[r].status = 0
        BY <2>2, <3>1, <3>2 DEF Delivery!commandExitCode
      <3> QED  BY <2>2, <3>3
    <2> QED  BY <2>3, <2>4, <2>5, <2>6
  <1> HIDE DEF AllTrue
  <1> QED  BY <1>1, <1>2, <1>3, Delivery!DeliverAssumption, DeliverInvHolds, PTL DEF Delivery!Spec

-----------------------------------------------------------------------------
(* SessionTokens *)

Refreshes ==
    [pc : {"none", "renew", "renewed", "renewFailed", "mint", "minted", "mintFailed"},
     root : Roots \cup {Plugin!NoSession}, current : [id : Nat, issuedAt : Nat], result : Nat]
Commanded ==
    [pc : {"idle", "asking", "found", "lost", "waiting", "ready", "ran"},
     session : Plugin!Sessions \cup {Plugin!NoSession}, asked : Plugin!Sessions \cup {Plugin!NoSession},
     on : Commands \cup {Plugin!NoCommand}, env : Nat]
PluginTypes ==
    /\ now \in Nat
    /\ roots \in [Plugin!Sessions -> Roots \cup {Plugin!NoSession}]
    /\ tokens \in [Roots -> [id : Nat, issuedAt : Nat]]
    /\ pending \in [Roots -> Commands \cup {Plugin!NoCommand}]
    /\ refresh \in [Commands -> Refreshes]
    /\ cmd \in [Commands -> Commanded]
    /\ bao \in Seq([root : Roots, until : Nat, live : BOOLEAN])
    /\ handler \in [Roots -> [pc : {"none", "awaiting", "revoking", "done"}, token : Nat]]
\* OpenBao issued token i for root r.
IssuedFor(b, i, r) == i \in DOMAIN b /\ b[i].root = r
\* The token the plugin holds for r is one of r's that nobody revokes; the one
\* that is being revoked is one of r's that the plugin holds no longer.
HoldsItsOwn(held, h, b, r) ==
    /\ held # Plugin!NoToken => IssuedFor(b, held.id, r) /\ b[held.id].live
    /\ h.pc = "revoking" => IssuedFor(b, h.token, r) /\ h.token # held.id
\* A refresh is the one pending for its root, its command waits for it, and it
\* started from the token still held.
RefreshFits(c, f, command) ==
    IF f.pc = "none" THEN f = Plugin!NoRefresh
    ELSE /\ f.root \in Roots /\ pending[f.root] = c /\ f.current = tokens[f.root]
         /\ command.pc = "waiting" /\ command.on = c
         /\ f.pc \in {"renew", "renewed", "renewFailed"} => f.current # Plugin!NoToken
         /\ f.pc = "minted" =>
               /\ HoldsItsOwn([id |-> f.result, issuedAt |-> 0], handler[f.root], bao, f.root)
               /\ f.result # 0
CommandFits(command) ==
    /\ command.pc # "idle" => command.session \in Plugin!Sessions
    /\ command.pc \in {"asking", "found"} => command.asked \in Plugin!Sessions
    /\ command.env # 0 => command.pc = "ran" /\ IssuedFor(bao, command.env, Plugin!RootOf(command.session))
PluginInv ==
    /\ PluginTypes
    /\ \A s \in Plugin!Sessions : roots[s] \in {Plugin!NoSession, Plugin!RootOf(s)}
    /\ \A r \in Roots : HoldsItsOwn(tokens[r], handler[r], bao, r)
    /\ \A c \in Commands : RefreshFits(c, refresh[c], cmd[c])
    /\ \A c \in Commands : CommandFits(cmd[c])
LEMMA PluginBasics ==
    ASSUME Plugin!SessionTokensAssumption
    PROVE  /\ \A s \in Plugin!Sessions : Plugin!RootOf(s) \in Roots
           /\ \A r \in Roots : r \in Plugin!Sessions /\ Plugin!RootOf(r) = r
           /\ Plugin!NoSession \notin Plugin!Sessions /\ Plugin!NoSession \notin Roots
           /\ Plugin!NoCommand \notin Commands
           /\ Plugin!NoRefresh \in Refreshes /\ Plugin!NoRefresh.pc = "none" /\ Plugin!NoRefresh.root = Plugin!NoSession
           /\ Plugin!NoToken \in [id : Nat, issuedAt : Nat]
           /\ Plugin!NoCmd \in Commanded /\ Plugin!NoCmd.pc = "idle" /\ Plugin!NoCmd.env = 0
  BY DEF Plugin!SessionTokensAssumption, Plugin!Sessions, Plugin!RootOf, Plugin!NoRefresh, Plugin!NoToken,
         Plugin!NoCmd, Refreshes, Commanded, Plugin!NoSession, Plugin!NoCommand

\* The commands after one of them went on, while no refresh changed.
LEMMA CommandMoves ==
    ASSUME PluginInv, NEW c \in Commands, NEW command \in Commanded, CommandFits(command),
           cmd' = [cmd EXCEPT ![c] = command], refresh[c].pc = "none",
           UNCHANGED <<tokens, pending, refresh, bao, handler>>
    PROVE  /\ cmd' \in [Commands -> Commanded]
           /\ \A d \in Commands : RefreshFits(d, refresh[d], cmd[d])'
           /\ \A d \in Commands : CommandFits(cmd[d])'
  <1>1. \A d \in Commands : cmd'[d] = IF d = c THEN command ELSE cmd[d]
    BY DEF PluginInv, PluginTypes
  <1>2. ASSUME NEW d \in Commands PROVE RefreshFits(d, refresh[d], cmd[d])'
    BY <1>1 DEF PluginInv, RefreshFits, HoldsItsOwn, IssuedFor
  <1>3. ASSUME NEW d \in Commands PROVE CommandFits(cmd[d])'
    BY <1>1 DEF PluginInv, CommandFits, IssuedFor
  <1>4. QED
    BY <1>2, <1>3 DEF PluginInv, PluginTypes

LEMMA GetKeeps ==
    ASSUME Plugin!SessionTokensAssumption, PluginInv, NEW c \in Commands, NEW r \in Roots,
           NEW record \in Commanded, record.env = 0, record.session \in Plugin!Sessions,
           refresh[c].pc = "none", Plugin!Get(c, r, record), UNCHANGED <<tokens, bao, handler>>
    PROVE  /\ cmd' \in [Commands -> Commanded]
           /\ refresh' \in [Commands -> Refreshes]
           /\ pending' \in [Roots -> Commands \cup {Plugin!NoCommand}]
           /\ \A d \in Commands : RefreshFits(d, refresh[d], cmd[d])'
           /\ \A d \in Commands : CommandFits(cmd[d])'
  <1>1. CASE cmd' = [cmd EXCEPT ![c] = [record EXCEPT !.pc = "ready"]] /\ UNCHANGED <<pending, refresh>>
    <2>1. [record EXCEPT !.pc = "ready"] \in Commanded /\ CommandFits([record EXCEPT !.pc = "ready"])
      BY DEF Commanded, CommandFits
    <2>2. QED
      BY <1>1, <2>1, CommandMoves DEF PluginInv, PluginTypes
  <1>2. CASE /\ cmd' = [cmd EXCEPT ![c] = [record EXCEPT !.pc = "waiting", !.on = pending[r]]]
             /\ UNCHANGED <<pending, refresh>>
    <2>1. [record EXCEPT !.pc = "waiting", !.on = pending[r]] \in Commanded
          /\ CommandFits([record EXCEPT !.pc = "waiting", !.on = pending[r]])
      BY DEF Commanded, CommandFits, PluginInv, PluginTypes
    <2>2. QED
      BY <1>2, <2>1, CommandMoves DEF PluginInv, PluginTypes
  <1>3. CASE /\ ~(tokens[r] # Plugin!NoToken /\ ~Plugin!needsRenewal(tokens[r])) /\ pending[r] = Plugin!NoCommand
             /\ cmd' = [cmd EXCEPT ![c] = [record EXCEPT !.pc = "waiting", !.on = c]]
             /\ pending' = [pending EXCEPT ![r] = c]
             /\ refresh' = [refresh EXCEPT ![c] =
                   [pc |-> IF tokens[r] # Plugin!NoToken /\ ~Plugin!isExpired(tokens[r]) THEN "renew" ELSE "mint",
                    root |-> r, current |-> tokens[r], result |-> 0]]
    <2> DEFINE command == [record EXCEPT !.pc = "waiting", !.on = c]
               kept == tokens[r] # Plugin!NoToken /\ ~Plugin!isExpired(tokens[r])
               new == [pc |-> IF kept THEN "renew" ELSE "mint", root |-> r, current |-> tokens[r], result |-> 0]
    <2>1. command \in Commanded /\ CommandFits(command) /\ command.pc = "waiting" /\ command.on = c
      BY DEF Commanded, CommandFits
    <2>2. /\ new \in Refreshes /\ new.root = r /\ new.current = tokens[r] /\ new.pc \in {"renew", "mint"}
          /\ new.pc = "renew" => tokens[r] # Plugin!NoToken
      <3> HIDE DEF kept
      <3>1. new.pc = "renew" => kept
        OBVIOUS
      <3>2. kept => tokens[r] # Plugin!NoToken
        BY DEF kept
      <3>3. new \in Refreshes
        BY DEF Refreshes, PluginInv, PluginTypes
      <3>4. QED
        BY <3>1, <3>2, <3>3
    <2>3. /\ cmd' = [cmd EXCEPT ![c] = command] /\ refresh' = [refresh EXCEPT ![c] = new]
      BY <1>3
    <2> HIDE DEF command, new
    <2>4. /\ \A d \in Commands : cmd'[d] = IF d = c THEN command ELSE cmd[d]
          /\ \A d \in Commands : refresh'[d] = IF d = c THEN new ELSE refresh[d]
          /\ \A q \in Roots : pending'[q] = IF q = r THEN c ELSE pending[q]
      BY <1>3, <2>3 DEF PluginInv, PluginTypes
    <2>5. ASSUME NEW d \in Commands PROVE RefreshFits(d, refresh[d], cmd[d])'
      <3>1. CASE d = c
        BY <2>1, <2>2, <2>4, <3>1 DEF RefreshFits
      <3>2. CASE d # c
        <4>1. refresh[d].pc # "none" => refresh[d].root \in Roots /\ pending[refresh[d].root] = d
          BY DEF PluginInv, RefreshFits
        <4>2. refresh[d].pc # "none" => refresh[d].root # r
          BY <1>3, <4>1, PluginBasics
        <4>3. RefreshFits(d, refresh[d], cmd[d])
          BY DEF PluginInv
        <4>4. refresh'[d] = refresh[d] /\ cmd'[d] = cmd[d]
          BY <2>4, <3>2
        <4>5. refresh[d].pc # "none" => pending'[refresh[d].root] = pending[refresh[d].root]
          BY <2>4, <4>1, <4>2
        <4>6. QED
          BY <4>3, <4>4, <4>5 DEF RefreshFits, HoldsItsOwn, IssuedFor
      <3>3. QED
        BY <3>1, <3>2
    <2>6. ASSUME NEW d \in Commands PROVE CommandFits(cmd[d])'
      BY <2>1, <2>4 DEF PluginInv, CommandFits, IssuedFor
    <2>7. QED
      BY <1>3, <2>1, <2>2, <2>3, <2>5, <2>6 DEF PluginInv, PluginTypes
  <1>4. QED
    BY <1>1, <1>2, <1>3 DEF Plugin!Get

\* A step of a command that leaves the tokens and OpenBao alone.
LEMMA PluginInvFrom ==
    ASSUME PluginInv, UNCHANGED <<tokens, bao, handler>>, now' \in Nat,
           cmd' \in [Commands -> Commanded], refresh' \in [Commands -> Refreshes],
           pending' \in [Roots -> Commands \cup {Plugin!NoCommand}],
           \A d \in Commands : RefreshFits(d, refresh[d], cmd[d])',
           \A d \in Commands : CommandFits(cmd[d])',
           roots' \in [Plugin!Sessions -> Roots \cup {Plugin!NoSession}],
           \A s \in Plugin!Sessions : roots'[s] \in {Plugin!NoSession, Plugin!RootOf(s)}
    PROVE  PluginInv'
  BY DEF PluginInv, PluginTypes, HoldsItsOwn, IssuedFor

LEMMA ResolveKeeps ==
    ASSUME Plugin!SessionTokensAssumption, PluginInv, NEW c \in Commands, NEW s \in Plugin!Sessions,
           NEW m \in Plugin!Sessions, NEW known, refresh[c].pc = "none",
           Plugin!Resolve(c, s, m, known), UNCHANGED <<now, tokens, bao, handler>>
    PROVE  PluginInv'
  <1> DEFINE record == [Plugin!NoCmd EXCEPT !.session = s]
             Unknown == (IF m \in Roots THEN {m} ELSE {m, Parent[m]}) \ known
             next == IF m \in Unknown THEN m ELSE Parent[m]
  <1>1. record \in Commanded /\ record.env = 0 /\ record.session = s /\ record.pc = "idle"
    BY PluginBasics DEF Commanded
  <1>2. CASE Unknown = {}
    <2>1. /\ roots' = [x \in Plugin!Sessions |-> IF x \in {s, Plugin!RootOf(s)} THEN Plugin!RootOf(s) ELSE roots[x]]
          /\ Plugin!Get(c, Plugin!RootOf(s), record)
      BY <1>2 DEF Plugin!Resolve
    <2>2. /\ roots' \in [Plugin!Sessions -> Roots \cup {Plugin!NoSession}]
          /\ \A x \in Plugin!Sessions : roots'[x] \in {Plugin!NoSession, Plugin!RootOf(x)}
      <3>1. \A x \in Plugin!Sessions : roots'[x] = IF x \in {s, Plugin!RootOf(s)} THEN Plugin!RootOf(s) ELSE roots[x]
        BY <2>1
      <3>2. Plugin!RootOf(Plugin!RootOf(s)) = Plugin!RootOf(s) /\ Plugin!RootOf(s) \in Roots
        BY PluginBasics
      <3>3. \A x \in Plugin!Sessions : roots'[x] \in {Plugin!NoSession, Plugin!RootOf(x)}
        BY <3>1, <3>2 DEF PluginInv
      <3>4. \A x \in Plugin!Sessions : roots'[x] \in Roots \cup {Plugin!NoSession}
        BY <3>3, PluginBasics
      <3>5. QED
        BY <2>1, <3>3, <3>4
    <2> HIDE DEF record
    <2>3. /\ cmd' \in [Commands -> Commanded]
          /\ refresh' \in [Commands -> Refreshes]
          /\ pending' \in [Roots -> Commands \cup {Plugin!NoCommand}]
          /\ \A d \in Commands : RefreshFits(d, refresh[d], cmd[d])'
          /\ \A d \in Commands : CommandFits(cmd[d])'
      BY <1>1, <2>1, GetKeeps, PluginBasics
    <2>4. QED
      BY <2>2, <2>3, PluginInvFrom DEF PluginInv, PluginTypes
  <1>3. CASE Unknown # {}
    <2> DEFINE command == [record EXCEPT !.pc = "asking", !.asked = next]
    <2>1. next \in Plugin!Sessions
      BY <1>3 DEF Plugin!Sessions, Plugin!SessionTokensAssumption
    <2>2. command \in Commanded /\ CommandFits(command)
      <3> HIDE DEF next, record
      <3>1. /\ command \in Commanded /\ command.env = 0 /\ command.session = s /\ command.pc = "asking"
            /\ command.asked = next
        BY <1>1, <2>1 DEF Commanded
      <3>2. QED
        BY <2>1, <3>1 DEF CommandFits
    <2>3. cmd' = [cmd EXCEPT ![c] = command] /\ UNCHANGED <<roots, pending, refresh>>
      BY <1>3 DEF Plugin!Resolve
    <2> HIDE DEF command
    <2>4. QED
      BY <2>2, <2>3, CommandMoves, PluginInvFrom DEF PluginInv, PluginTypes
  <1>4. QED
    BY <1>2, <1>3

\* What a command reads is a token of its own root session, and a live one.
LEMMA PeekIsOwn ==
    ASSUME Plugin!SessionTokensAssumption, PluginInv, NEW s \in Plugin!Sessions
    PROVE  /\ Plugin!peek(s) \in Nat
           /\ Plugin!peek(s) # 0 => IssuedFor(bao, Plugin!peek(s), Plugin!RootOf(s)) /\ bao[Plugin!peek(s)].live
  <1> DEFINE token == IF roots[s] = Plugin!NoSession THEN Plugin!NoToken ELSE tokens[roots[s]]
  <1>1. /\ token \in [id : Nat, issuedAt : Nat]
        /\ token # Plugin!NoToken => IssuedFor(bao, token.id, Plugin!RootOf(s)) /\ bao[token.id].live
    <2>1. CASE roots[s] = Plugin!NoSession
      BY <2>1, PluginBasics
    <2>2. CASE roots[s] # Plugin!NoSession
      <3>1. roots[s] = Plugin!RootOf(s) /\ roots[s] \in Roots
        BY <2>2, PluginBasics DEF PluginInv
      <3>2. token = tokens[roots[s]]
        BY <2>2
      <3>3. token \in [id : Nat, issuedAt : Nat]
        BY <3>1, <3>2 DEF PluginInv, PluginTypes
      <3>4. HoldsItsOwn(token, handler[roots[s]], bao, roots[s])
        BY <3>1, <3>2 DEF PluginInv
      <3> HIDE DEF token
      <3>5. QED
        BY <3>1, <3>3, <3>4 DEF HoldsItsOwn
    <2>3. QED
      BY <2>1, <2>2
  <1>2. Plugin!peek(s) = IF token # Plugin!NoToken /\ ~Plugin!isExpired(token) THEN token.id ELSE 0
    BY DEF Plugin!peek
  <1> HIDE DEF token
  <1>3. token.id \in Nat
    BY <1>1
  <1>4. CASE token # Plugin!NoToken /\ ~Plugin!isExpired(token)
    BY <1>1, <1>2, <1>3, <1>4
  <1>5. CASE ~(token # Plugin!NoToken /\ ~Plugin!isExpired(token))
    BY <1>2, <1>5
  <1>6. QED
    BY <1>4, <1>5

LEMMA CommandSteps ==
    ASSUME Plugin!SessionTokensAssumption, PluginInv, NEW c \in Commands,
           \/ \E s \in Plugin!Sessions : Plugin!Before(c, s)
           \/ Plugin!HostAnswers(c) \/ Plugin!Found(c) \/ Plugin!Lost(c) \/ Plugin!Spawn(c)
    PROVE  PluginInv'
  <1>0. cmd[c] \in Commanded /\ CommandFits(cmd[c]) /\ cmd[c].pc # "waiting" /\ refresh[c].pc = "none"
    <2>1. cmd[c].pc # "waiting"
      BY DEF Plugin!Before, Plugin!HostAnswers, Plugin!Found, Plugin!Lost, Plugin!Spawn
    <2>2. QED
      BY <2>1 DEF PluginInv, PluginTypes, RefreshFits
  <1>a. ASSUME NEW command, command \in Commanded /\ CommandFits(command), cmd' = [cmd EXCEPT ![c] = command],
               UNCHANGED <<now, roots, tokens, pending, refresh, bao, handler>>
        PROVE  PluginInv'
    BY <1>0, <1>a, CommandMoves, PluginInvFrom DEF PluginInv, PluginTypes
  <1>1. ASSUME NEW s \in Plugin!Sessions, Plugin!Before(c, s) PROVE PluginInv'
    <2> DEFINE m == IF roots[s] # Plugin!NoSession /\ roots[s] \in cache THEN roots[s] ELSE s
    <2>1. m \in Plugin!Sessions
      BY PluginBasics DEF PluginInv
    <2>2. Plugin!Resolve(c, s, m, cache) /\ UNCHANGED <<now, tokens, bao, handler>>
      BY <1>1 DEF Plugin!Before
    <2> HIDE DEF m
    <2>3. QED
      BY <1>0, <2>1, <2>2, ResolveKeeps
  <1>2. ASSUME Plugin!HostAnswers(c) PROVE PluginInv'
    <2> DEFINE p == IF cmd[c].asked \in exists THEN "found" ELSE "lost"
               command == [cmd[c] EXCEPT !.pc = p]
    <2>1. p \in {"found", "lost"}
      OBVIOUS
    <2>2. cmd' = [cmd EXCEPT ![c] = command]
      BY <1>2 DEF Plugin!HostAnswers
    <2> HIDE DEF p
    <2>3. command \in Commanded /\ CommandFits(command)
      BY <1>0, <1>2, <2>1 DEF Commanded, CommandFits, Plugin!HostAnswers
    <2> HIDE DEF command
    <2>4. QED
      BY <1>2, <1>a, <2>2, <2>3 DEF Plugin!HostAnswers, Plugin!resolver
  <1>3. ASSUME Plugin!Found(c) PROVE PluginInv'
    <2> DEFINE m == IF cmd[c].asked \in Roots THEN cmd[c].asked ELSE Parent[cmd[c].asked]
    <2>1. m \in Plugin!Sessions /\ cmd[c].session \in Plugin!Sessions
      BY <1>0, <1>3 DEF CommandFits, Plugin!Found, Plugin!Sessions, Plugin!SessionTokensAssumption
    <2>2. Plugin!Resolve(c, cmd[c].session, m, cache \cup {cmd[c].asked}) /\ UNCHANGED <<now, tokens, bao, handler>>
      BY <1>3 DEF Plugin!Found
    <2> HIDE DEF m
    <2>3. QED
      BY <1>0, <2>1, <2>2, ResolveKeeps
  <1>4. ASSUME Plugin!Lost(c) PROVE PluginInv'
    <2> DEFINE command == [cmd[c] EXCEPT !.pc = "ready"]
    <2>1. command \in Commanded /\ CommandFits(command)
      BY <1>0, <1>4 DEF Commanded, CommandFits, Plugin!Lost
    <2>2. cmd' = [cmd EXCEPT ![c] = command]
      BY <1>4 DEF Plugin!Lost
    <2> HIDE DEF command
    <2>3. QED
      BY <1>4, <1>a, <2>1, <2>2 DEF Plugin!Lost, Plugin!resolver
  <1>5. ASSUME Plugin!Spawn(c) PROVE PluginInv'
    <2> DEFINE id == Plugin!peek(cmd[c].session)
               command == [cmd[c] EXCEPT !.pc = "ran", !.env = id]
    <2>1. cmd[c].session \in Plugin!Sessions
      BY <1>0, <1>5 DEF CommandFits, Plugin!Spawn
    <2>2. id \in Nat /\ (id # 0 => IssuedFor(bao, id, Plugin!RootOf(cmd[c].session)))
      BY <2>1, PeekIsOwn
    <2>3. cmd' = [cmd EXCEPT ![c] = command]
      BY <1>5 DEF Plugin!Spawn
    <2> HIDE DEF id
    <2>4. command \in Commanded /\ CommandFits(command)
      BY <1>0, <1>5, <2>1, <2>2 DEF Commanded, CommandFits, Plugin!Spawn
    <2> HIDE DEF command
    <2>5. QED
      BY <1>5, <1>a, <2>3, <2>4 DEF Plugin!Spawn, Plugin!resolver
  <1>6. QED
    BY <1>1, <1>2, <1>3, <1>4, <1>5
\* OpenBao takes no token back and changes none's root.
TokensStay == \A i \in DOMAIN bao : i \in DOMAIN bao' /\ bao'[i].root = bao[i].root /\ bao'[i].live = bao[i].live

LEMMA IssuedStays ==
    ASSUME TokensStay, NEW held, NEW h, NEW r, HoldsItsOwn(held, h, bao, r)
    PROVE  HoldsItsOwn(held, h, bao', r)
  BY DEF TokensStay, HoldsItsOwn, IssuedFor

\* A step of the refresh of c in OpenBao.
LEMMA RefreshMoves ==
    ASSUME PluginInv, NEW c \in Commands, NEW new \in Refreshes, Plugin!RefreshTo(c, new), TokensStay,
           bao' \in Seq([root : Roots, until : Nat, live : BOOLEAN]),
           RefreshFits(c, refresh[c], cmd[c])'
    PROVE  PluginInv'
  <1>1. UNCHANGED <<now, roots, tokens, pending, cmd, handler>>
    BY DEF Plugin!RefreshTo, Plugin!resolver
  <1>2. \A d \in Commands : refresh'[d] = IF d = c THEN new ELSE refresh[d]
    BY DEF Plugin!RefreshTo, PluginInv, PluginTypes
  <1>3. ASSUME NEW d \in Commands PROVE RefreshFits(d, refresh[d], cmd[d])'
    <2>1. CASE d = c
      BY <1>1, <1>2, <2>1 DEF RefreshFits
    <2>2. CASE d # c
      <3>1. RefreshFits(d, refresh[d], cmd[d]) /\ refresh'[d] = refresh[d]
        BY <1>2, <2>2 DEF PluginInv
      <3>2. QED
        BY <1>1, <3>1, IssuedStays DEF RefreshFits
    <2>3. QED
      BY <2>1, <2>2
  <1>4. ASSUME NEW d \in Commands PROVE CommandFits(cmd[d])'
    BY <1>1 DEF PluginInv, CommandFits, IssuedFor, TokensStay
  <1>5. ASSUME NEW r \in Roots PROVE HoldsItsOwn(tokens[r], handler[r], bao, r)'
    BY <1>1, IssuedStays DEF PluginInv
  <1>6. PluginTypes'
    BY <1>1 DEF Plugin!RefreshTo, PluginInv, PluginTypes
  <1>7. QED
    BY <1>1, <1>3, <1>4, <1>5, <1>6 DEF PluginInv

LEMMA RefreshSteps ==
    ASSUME Plugin!SessionTokensAssumption, PluginInv, NEW c \in Commands,
           Plugin!RenewHandled(c) \/ Plugin!MintHandled(c) \/ Plugin!RenewalFailed(c)
    PROVE  PluginInv'
  <1> DEFINE f == refresh[c]
             Issued == [root : Roots, until : Nat, live : BOOLEAN]
  <1>1. /\ f \in Refreshes /\ f.pc \in {"renew", "renewFailed", "mint"} /\ f.root \in Roots
        /\ pending[f.root] = c /\ f.current = tokens[f.root]
        /\ cmd[c].pc = "waiting" /\ cmd[c].on = c
        /\ f.pc \in {"renew", "renewFailed"} => f.current # Plugin!NoToken
        /\ HoldsItsOwn(tokens[f.root], handler[f.root], bao, f.root)
    BY DEF PluginInv, PluginTypes, RefreshFits, Plugin!RenewHandled, Plugin!MintHandled, Plugin!RenewalFailed
  <1>2. bao \in Seq(Issued) /\ now + Lease \in Nat
    BY DEF PluginInv, PluginTypes, Plugin!SessionTokensAssumption
  <1>a. ASSUME NEW p \in {"renewed", "renewFailed", "mint", "mintFailed"},
               p \in {"renewed", "renewFailed"} => f.pc = "renew",
               Plugin!RefreshTo(c, [f EXCEPT !.pc = p]), TokensStay, bao' \in Seq(Issued)
        PROVE  PluginInv'
    <2> DEFINE new == [f EXCEPT !.pc = p]
    <2>1. new \in Refreshes /\ new.pc = p /\ new.root = f.root /\ new.current = f.current
      BY <1>1 DEF Refreshes
    <2>2. Plugin!RefreshTo(c, new)
      BY <1>a
    <2> HIDE DEF new
    <2>3. refresh'[c] = new /\ UNCHANGED <<tokens, pending, cmd>>
      BY <2>2 DEF Plugin!RefreshTo, PluginInv, PluginTypes
    <2>4. RefreshFits(c, refresh[c], cmd[c])'
      BY <1>1, <1>a, <2>1, <2>3 DEF RefreshFits
    <2>5. QED
      BY <1>a, <2>1, <2>2, <2>4, RefreshMoves
  <1>b. bao' = bao => TokensStay /\ bao' \in Seq(Issued)
    BY <1>2 DEF TokensStay
  <1>3. ASSUME Plugin!RenewHandled(c) PROVE PluginInv'
    <2> DEFINE i == f.current.id
    <2>1. f.pc = "renew"
      BY <1>3 DEF Plugin!RenewHandled
    <2>2. CASE bao' = [bao EXCEPT ![i].until = now + Lease] /\ Plugin!RefreshTo(c, [f EXCEPT !.pc = "renewed"])
      <3>0. i \in DOMAIN bao
        BY <1>1, <2>1 DEF HoldsItsOwn, IssuedFor
      <3>1. i \in DOMAIN bao /\ bao[i] \in Issued
        <4> HIDE DEF i, Issued
        <4>1. QED
          BY <1>2, <3>0
      <3> DEFINE later == [bao[i] EXCEPT !.until = now + Lease]
      <3>2. later \in Issued /\ later.root = bao[i].root /\ later.live = bao[i].live
        BY <1>2, <3>1
      <3>3. bao' = [bao EXCEPT ![i] = later]
        BY <2>2
      <3> HIDE DEF i, later
      <3>4. DOMAIN bao' = DOMAIN bao /\ \A j \in DOMAIN bao : bao'[j] = IF j = i THEN later ELSE bao[j]
        BY <3>3
      <3>5. TokensStay
        BY <3>2, <3>4 DEF TokensStay
      <3>6. bao' \in Seq(Issued)
        BY <1>2, <3>1, <3>2, <3>3
      <3>7. QED
        BY <1>a, <2>1, <2>2, <3>5, <3>6
    <2>3. CASE UNCHANGED bao /\ Plugin!RefreshTo(c, [f EXCEPT !.pc = "renewFailed"])
      BY <1>a, <1>b, <2>1, <2>3
    <2>4. QED
      BY <1>3, <2>2, <2>3 DEF Plugin!RenewHandled
  <1>4. ASSUME Plugin!MintHandled(c) PROVE PluginInv'
    <2> DEFINE issued == [root |-> f.root, until |-> now + Lease, live |-> TRUE]
    <2>1. f.pc = "mint"
      BY <1>4 DEF Plugin!MintHandled
    <2>2. CASE UNCHANGED bao /\ Plugin!RefreshTo(c, [f EXCEPT !.pc = "mintFailed"])
      BY <1>a, <1>b, <2>1, <2>2
    <2>3. CASE bao' = Append(bao, issued)
      <3>1. issued \in Issued
        BY <1>1, <1>2
      <3>2. /\ TokensStay /\ bao' \in Seq(Issued) /\ Len(bao) \in Nat /\ DOMAIN bao = 1..Len(bao)
            /\ Len(bao) + 1 \in DOMAIN bao' /\ bao'[Len(bao) + 1] = issued
        <4> HIDE DEF issued
        <4>1. QED
          BY <1>2, <2>3, <3>1 DEF TokensStay
      <3>3. CASE Plugin!RefreshTo(c, [f EXCEPT !.pc = "mintFailed"])
        BY <1>a, <2>1, <3>2, <3>3
      <3>4. CASE Plugin!RefreshTo(c, [f EXCEPT !.pc = "minted", !.result = Len(bao) + 1])
        <4> DEFINE id == Len(bao) + 1
                   new == [f EXCEPT !.pc = "minted", !.result = id]
        <4>0. id \in Nat
          BY <3>2
        <4>1. /\ new \in Refreshes /\ new.pc = "minted" /\ new.root = f.root /\ new.current = f.current
              /\ new.result = id
          <5> HIDE DEF id
          <5>1. QED
            BY <1>1, <4>0 DEF Refreshes
        <4>2. Plugin!RefreshTo(c, new)
          BY <3>4
        <4>3. HoldsItsOwn([id |-> id, issuedAt |-> 0], handler[f.root], bao', f.root)
          <5>1. IssuedFor(bao', id, f.root) /\ bao'[id].live
            BY <3>2 DEF IssuedFor
          <5>2. handler[f.root].pc = "revoking" =>
                   IssuedFor(bao', handler[f.root].token, f.root) /\ handler[f.root].token # id
            BY <1>1, <3>2 DEF HoldsItsOwn, IssuedFor, TokensStay
          <5>3. QED
            BY <5>1, <5>2 DEF HoldsItsOwn
        <4>4. id # 0
          BY <3>2
        <4> HIDE DEF new, id
        <4>a. refresh'[c] = new /\ UNCHANGED <<tokens, pending, cmd, handler>>
          BY <4>2 DEF Plugin!RefreshTo, PluginInv, PluginTypes
        <4>5. RefreshFits(c, refresh[c], cmd[c])'
          BY <1>1, <4>1, <4>3, <4>4, <4>a DEF RefreshFits
        <4>6. QED
          BY <3>2, <4>1, <4>2, <4>5, RefreshMoves
      <3>5. QED
        BY <1>4, <2>2, <3>3, <3>4 DEF Plugin!MintHandled
    <2>4. QED
      BY <1>4, <2>2, <2>3 DEF Plugin!MintHandled
  <1>5. ASSUME Plugin!RenewalFailed(c) PROVE PluginInv'
    BY <1>5, <1>a, <1>b DEF Plugin!RenewalFailed
  <1>6. QED
    BY <1>3, <1>4, <1>5
LEMMA RevokeCurrentHolds ==
    ASSUME Plugin!SessionTokensAssumption, PluginInv, NEW r \in Roots,
           NEW held \in [Roots -> [id : Nat, issuedAt : Nat]],
           HoldsItsOwn(held[r], handler[r], bao, r), Plugin!RevokeCurrent(r, held)
    PROVE  /\ tokens' \in [Roots -> [id : Nat, issuedAt : Nat]]
           /\ handler' \in [Roots -> [pc : {"none", "awaiting", "revoking", "done"}, token : Nat]]
           /\ HoldsItsOwn(tokens'[r], handler'[r], bao, r)
           /\ \A q \in Roots \ {r} : tokens'[q] = held[q] /\ handler'[q] = handler[q]
  <1> DEFINE h == IF held[r] = Plugin!NoToken THEN [pc |-> "done", token |-> 0]
                  ELSE [pc |-> "revoking", token |-> held[r].id]
  <1>1. h \in [pc : {"none", "awaiting", "revoking", "done"}, token : Nat]
    OBVIOUS
  <1>2. h.pc = "revoking" => held[r] # Plugin!NoToken /\ h.token = held[r].id
    OBVIOUS
  <1>3. handler' = [handler EXCEPT ![r] = h] /\ tokens' = [held EXCEPT ![r] = Plugin!NoToken]
    BY DEF Plugin!RevokeCurrent
  <1> HIDE DEF h
  <1>4. /\ tokens' \in [Roots -> [id : Nat, issuedAt : Nat]]
        /\ handler' \in [Roots -> [pc : {"none", "awaiting", "revoking", "done"}, token : Nat]]
        /\ tokens'[r] = Plugin!NoToken /\ handler'[r] = h
        /\ \A q \in Roots \ {r} : tokens'[q] = held[q] /\ handler'[q] = handler[q]
    BY <1>1, <1>3, PluginBasics DEF PluginInv, PluginTypes
  <1>5. h.pc = "revoking" => IssuedFor(bao, h.token, r) /\ h.token # Plugin!NoToken.id
    <2>1. \A i \in DOMAIN bao : i # 0
      BY DEF PluginInv, PluginTypes
    <2>2. QED
      BY <1>2, <2>1 DEF HoldsItsOwn, IssuedFor, Plugin!NoToken
  <1>6. QED
    BY <1>4, <1>5 DEF HoldsItsOwn

\* The refreshes of other roots are not touched by a step of root r.
LEMMA OthersFit ==
    ASSUME PluginInv, NEW r \in Roots, NEW d \in Commands, refresh[d].pc # "none" => refresh[d].root # r,
           refresh'[d] = refresh[d], refresh[d].pc # "none" => cmd'[d] = cmd[d], UNCHANGED bao,
           \A q \in Roots \ {r} : tokens'[q] = tokens[q] /\ handler'[q] = handler[q] /\ pending'[q] = pending[q]
    PROVE  RefreshFits(d, refresh[d], cmd[d])'
  <1>1. CASE refresh[d].pc = "none"
    BY <1>1 DEF PluginInv, RefreshFits
  <1>2. CASE refresh[d].pc # "none"
    <2>1. refresh[d].root \in Roots \ {r} /\ RefreshFits(d, refresh[d], cmd[d])
      BY <1>2 DEF PluginInv, RefreshFits
    <2>2. cmd'[d] = cmd[d]
      BY <1>2
    <2>3. /\ tokens'[refresh[d].root] = tokens[refresh[d].root]
          /\ handler'[refresh[d].root] = handler[refresh[d].root]
          /\ pending'[refresh[d].root] = pending[refresh[d].root]
      BY <2>1
    <2>4. QED
      BY <2>1, <2>2, <2>3 DEF RefreshFits
  <1>3. QED
    BY <1>1, <1>2

LEMMA SettleStep ==
    ASSUME Plugin!SessionTokensAssumption, PluginInv, NEW c \in Commands, Plugin!Settle(c)
    PROVE  PluginInv'
  <1> DEFINE f == refresh[c]
             r == f.root
             gained == CASE f.pc = "renewed" -> [id |-> f.current.id, issuedAt |-> now]
                         [] f.pc = "minted" -> [id |-> f.result, issuedAt |-> now]
                         [] OTHER -> tokens[r]
             held == CASE f.pc = "renewed" -> [tokens EXCEPT ![r].issuedAt = now, ![r].id = f.current.id]
                       [] f.pc = "minted" -> [tokens EXCEPT ![r] = [id |-> f.result, issuedAt |-> now]]
                       [] OTHER -> tokens
  <1>1. /\ f \in Refreshes /\ f.pc \in {"renewed", "minted", "mintFailed"} /\ r \in Roots
        /\ pending[r] = c /\ f.current = tokens[r] /\ now \in Nat
        /\ f.pc = "renewed" => f.current # Plugin!NoToken
        /\ f.pc = "minted" => HoldsItsOwn([id |-> f.result, issuedAt |-> 0], handler[r], bao, r) /\ f.result # 0
        /\ HoldsItsOwn(tokens[r], handler[r], bao, r)
        /\ tokens \in [Roots -> [id : Nat, issuedAt : Nat]] /\ tokens[r] \in [id : Nat, issuedAt : Nat]
        /\ f.current.id \in Nat /\ f.result \in Nat
    <2>1. f \in Refreshes /\ f.pc \in {"renewed", "minted", "mintFailed"} /\ RefreshFits(c, f, cmd[c])
      BY DEF PluginInv, PluginTypes, Plugin!Settle
    <2>2. f.current \in [id : Nat, issuedAt : Nat] /\ f.result \in Nat
      BY <2>1 DEF Refreshes
    <2> HIDE DEF f
    <2>3. /\ r \in Roots /\ pending[r] = c /\ f.current = tokens[r]
          /\ f.pc = "renewed" => f.current # Plugin!NoToken
          /\ f.pc = "minted" => HoldsItsOwn([id |-> f.result, issuedAt |-> 0], handler[r], bao, r) /\ f.result # 0
      BY <2>1 DEF RefreshFits
    <2>4. /\ HoldsItsOwn(tokens[r], handler[r], bao, r) /\ now \in Nat
          /\ tokens \in [Roots -> [id : Nat, issuedAt : Nat]]
      BY <2>3 DEF PluginInv, PluginTypes
    <2>5. QED
      BY <2>1, <2>2, <2>3, <2>4
  <1>2. /\ pending' = [pending EXCEPT ![r] = Plugin!NoCommand]
        /\ cmd' = [d \in Commands |-> IF cmd[d].pc = "waiting" /\ cmd[d].on = c
                                      THEN [cmd[d] EXCEPT !.pc = "ready", !.on = Plugin!NoCommand] ELSE cmd[d]]
        /\ refresh' = [refresh EXCEPT ![c] = Plugin!NoRefresh]
        /\ UNCHANGED <<now, roots, bao>>
        /\ IF handler[r].pc = "awaiting" THEN Plugin!RevokeCurrent(r, held)
           ELSE tokens' = held /\ UNCHANGED handler
    BY DEF Plugin!Settle, Plugin!resolver
  <1>3. gained \in [id : Nat, issuedAt : Nat] /\ HoldsItsOwn(gained, handler[r], bao, r)
    <2>1. CASE f.pc = "renewed"
      <3>1. gained = [id |-> f.current.id, issuedAt |-> now]
        BY <2>1
      <3> HIDE DEF gained
      <3>2. QED
        BY <1>1, <2>1, <3>1 DEF HoldsItsOwn, IssuedFor
    <2>2. CASE f.pc = "minted"
      <3>1. gained = [id |-> f.result, issuedAt |-> now]
        BY <2>2
      <3>2. [id |-> f.result, issuedAt |-> 0] # Plugin!NoToken
        BY <1>1, <2>2 DEF Plugin!NoToken
      <3> HIDE DEF gained
      <3>3. QED
        BY <1>1, <2>2, <3>1, <3>2 DEF HoldsItsOwn, IssuedFor
    <2>3. CASE f.pc = "mintFailed"
      <3>1. gained = tokens[r]
        BY <2>3
      <3> HIDE DEF gained
      <3>2. QED
        BY <1>1, <3>1
    <2>4. QED
      BY <1>1, <2>1, <2>2, <2>3
  <1>4. /\ held \in [Roots -> [id : Nat, issuedAt : Nat]] /\ held[r] = gained
        /\ \A q \in Roots \ {r} : held[q] = tokens[q]
    <2>1. CASE f.pc = "renewed"
      <3>1. held = [tokens EXCEPT ![r].issuedAt = now, ![r].id = f.current.id]
            /\ gained = [id |-> f.current.id, issuedAt |-> now]
        BY <2>1
      <3> HIDE DEF gained, held, r, f
      <3>2. QED
        BY <1>1, <3>1
    <2>2. CASE f.pc = "minted"
      <3>1. held = [tokens EXCEPT ![r] = [id |-> f.result, issuedAt |-> now]]
            /\ gained = [id |-> f.result, issuedAt |-> now]
        BY <2>2
      <3> HIDE DEF gained, held, r, f
      <3>2. QED
        BY <1>1, <3>1
    <2>3. CASE f.pc = "mintFailed"
      <3>1. held = tokens /\ gained = tokens[r]
        BY <2>3
      <3> HIDE DEF gained, held, r, f
      <3>2. QED
        BY <1>1, <3>1
    <2>4. QED
      BY <1>1, <2>1, <2>2, <2>3
  <1> HIDE DEF held, gained
  <1>5. /\ tokens' \in [Roots -> [id : Nat, issuedAt : Nat]]
        /\ handler' \in [Roots -> [pc : {"none", "awaiting", "revoking", "done"}, token : Nat]]
        /\ HoldsItsOwn(tokens'[r], handler'[r], bao, r)
        /\ \A q \in Roots \ {r} : tokens'[q] = tokens[q] /\ handler'[q] = handler[q]
    <2>1. CASE handler[r].pc = "awaiting"
      <3>1. Plugin!RevokeCurrent(r, held)
        BY <1>2, <2>1
      <3> HIDE DEF r
      <3>2. QED
        BY <1>1, <1>3, <1>4, <3>1, RevokeCurrentHolds
    <2>2. CASE handler[r].pc # "awaiting"
      <3>1. tokens' = held /\ handler' = handler
        BY <1>2, <2>2
      <3> HIDE DEF r
      <3>2. QED
        BY <1>3, <1>4, <3>1 DEF PluginInv, PluginTypes
    <2>3. QED
      BY <2>1, <2>2
  <1>6. /\ \A d \in Commands : refresh'[d] = IF d = c THEN Plugin!NoRefresh ELSE refresh[d]
        /\ \A q \in Roots : pending'[q] = IF q = r THEN Plugin!NoCommand ELSE pending[q]
        /\ refresh' \in [Commands -> Refreshes] /\ pending' \in [Roots -> Commands \cup {Plugin!NoCommand}]
    BY <1>1, <1>2, PluginBasics DEF PluginInv, PluginTypes
  <1>7. ASSUME NEW d \in Commands
        PROVE  /\ cmd'[d] \in Commanded /\ CommandFits(cmd[d])'
               /\ cmd[d].pc # "waiting" \/ cmd[d].on # c => cmd'[d] = cmd[d]
    <2> DEFINE woken == [cmd[d] EXCEPT !.pc = "ready", !.on = Plugin!NoCommand]
    <2>1. cmd[d] \in Commanded /\ CommandFits(cmd[d])
      BY DEF PluginInv, PluginTypes
    <2>2. cmd'[d] = IF cmd[d].pc = "waiting" /\ cmd[d].on = c THEN woken ELSE cmd[d]
      BY <1>2
    <2>3. /\ woken \in Commanded /\ woken.pc = "ready" /\ woken.session = cmd[d].session
          /\ woken.env = cmd[d].env
      BY <2>1 DEF Commanded
    <2> HIDE DEF woken
    <2>4. CASE cmd[d].pc = "waiting" /\ cmd[d].on = c
      BY <1>2, <2>1, <2>2, <2>3, <2>4 DEF CommandFits, IssuedFor
    <2>5. CASE ~(cmd[d].pc = "waiting" /\ cmd[d].on = c)
      BY <1>2, <2>1, <2>2, <2>5 DEF CommandFits, IssuedFor
    <2>6. QED
      BY <2>4, <2>5
  <1>8. cmd' \in [Commands -> Commanded]
    BY <1>2, <1>7
  <1>9. ASSUME NEW d \in Commands PROVE RefreshFits(d, refresh[d], cmd[d])'
    <2>1. CASE d = c
      BY <1>6, <2>1, PluginBasics DEF RefreshFits
    <2>2. CASE d # c
      <3>1. refresh[d].pc # "none" => refresh[d].root # r /\ cmd[d].on = d
        <4>1. RefreshFits(d, refresh[d], cmd[d])
          BY DEF PluginInv
        <4>2. refresh[d].pc # "none" => pending[refresh[d].root] = d /\ cmd[d].on = d
          BY <4>1 DEF RefreshFits
        <4> HIDE DEF r
        <4>3. QED
          BY <1>1, <2>2, <4>2
      <3>2. refresh'[d] = refresh[d] /\ (refresh[d].pc # "none" => cmd'[d] = cmd[d])
        BY <1>6, <1>7, <2>2, <3>1
      <3>3. \A q \in Roots \ {r} :
               tokens'[q] = tokens[q] /\ handler'[q] = handler[q] /\ pending'[q] = pending[q]
        BY <1>5, <1>6
      <3> HIDE DEF r
      <3>4. QED
        BY <1>1, <1>2, <3>1, <3>2, <3>3, OthersFit
    <2>3. QED
      BY <2>1, <2>2
  <1>10. ASSUME NEW q \in Roots PROVE HoldsItsOwn(tokens[q], handler[q], bao, q)'
    <2>1. CASE q = r
      BY <1>2, <1>5, <2>1
    <2>2. CASE q # r
      BY <1>2, <1>5, <2>2 DEF PluginInv
    <2>3. QED
      BY <2>1, <2>2
  <1>11. PluginTypes'
    BY <1>2, <1>5, <1>6, <1>8 DEF PluginInv, PluginTypes
  <1>12. QED
    BY <1>2, <1>7, <1>9, <1>10, <1>11 DEF PluginInv

LEMMA RevokeHandledStep ==
    ASSUME Plugin!SessionTokensAssumption, PluginInv, NEW r \in Roots, Plugin!RevokeHandled(r)
    PROVE  PluginInv'
  <1> DEFINE i == handler[r].token
             Issued == [root : Roots, until : Nat, live : BOOLEAN]
             h == [handler[r] EXCEPT !.pc = "done"]
  <1>1. /\ UNCHANGED <<now, roots, tokens, pending, refresh, cmd>>
        /\ handler' = [handler EXCEPT ![r] = h]
        /\ bao' = [bao EXCEPT ![i].live = FALSE] \/ bao' = bao
        /\ handler[r].pc = "revoking"
    BY DEF Plugin!RevokeHandled, Plugin!resolver
  <1>2. /\ handler[r] \in [pc : {"none", "awaiting", "revoking", "done"}, token : Nat]
        /\ IssuedFor(bao, i, r) /\ i # tokens[r].id /\ bao \in Seq(Issued)
    BY <1>1 DEF PluginInv, PluginTypes, HoldsItsOwn
  <1>3. h \in [pc : {"none", "awaiting", "revoking", "done"}, token : Nat] /\ h.pc = "done"
    BY <1>2
  <1> HIDE DEF h
  <1>4. /\ handler' \in [Roots -> [pc : {"none", "awaiting", "revoking", "done"}, token : Nat]]
        /\ \A q \in Roots : handler'[q] = IF q = r THEN h ELSE handler[q]
    BY <1>1, <1>3 DEF PluginInv, PluginTypes
  <1> HIDE DEF i
  <1>5. /\ bao' \in Seq(Issued)
        /\ \A j \in DOMAIN bao : j \in DOMAIN bao' /\ bao'[j].root = bao[j].root /\ (j # i => bao'[j].live = bao[j].live)
    <2>1. CASE bao' = bao
      BY <1>2, <2>1
    <2>2. CASE bao' = [bao EXCEPT ![i].live = FALSE]
      <3> DEFINE dead == [bao[i] EXCEPT !.live = FALSE]
      <3>1. i \in DOMAIN bao
        BY <1>2 DEF IssuedFor
      <3>2. bao[i] \in Issued
        <4> HIDE DEF Issued
        <4>1. QED
          BY <1>2, <3>1
      <3>3. dead \in Issued /\ dead.root = bao[i].root
        BY <3>2
      <3>4. bao' = [bao EXCEPT ![i] = dead]
        BY <2>2
      <3> HIDE DEF dead, Issued
      <3>5. bao' \in Seq(Issued) /\ DOMAIN bao' = DOMAIN bao
            /\ \A j \in DOMAIN bao : bao'[j] = IF j = i THEN dead ELSE bao[j]
        BY <1>2, <3>1, <3>3, <3>4
      <3>6. QED
        BY <3>3, <3>5
    <2>3. QED
      BY <1>1, <2>1, <2>2
  <1>6. ASSUME NEW q \in Roots, NEW held, HoldsItsOwn(held, handler[q], bao, q), held # Plugin!NoToken
        PROVE  HoldsItsOwn(held, handler'[q], bao', q)
    <2>1. held.id # i
      <3>1. CASE q = r
        BY <1>1, <1>6, <3>1 DEF HoldsItsOwn, i
      <3>2. CASE q # r
        BY <1>2, <1>6, <3>2 DEF HoldsItsOwn, IssuedFor
      <3>3. QED
        BY <3>1, <3>2
    <2>2. CASE q = r
      BY <1>3, <1>4, <1>5, <1>6, <2>1, <2>2 DEF HoldsItsOwn, IssuedFor
    <2>3. CASE q # r
      BY <1>4, <1>5, <1>6, <2>1, <2>3 DEF HoldsItsOwn, IssuedFor
    <2>4. QED
      BY <2>2, <2>3
  <1>7. ASSUME NEW q \in Roots PROVE HoldsItsOwn(tokens[q], handler[q], bao, q)'
    <2>1. CASE tokens[q] # Plugin!NoToken
      BY <1>1, <1>6, <2>1 DEF PluginInv
    <2>2. CASE tokens[q] = Plugin!NoToken
      <3>1. HoldsItsOwn(tokens[q], handler[q], bao, q)
        BY DEF PluginInv
      <3>2. QED
        BY <1>1, <1>3, <1>4, <1>5, <2>2, <3>1 DEF HoldsItsOwn, IssuedFor
    <2>3. QED
      BY <2>1, <2>2
  <1>8. ASSUME NEW d \in Commands PROVE RefreshFits(d, refresh[d], cmd[d])'
    <2>1. RefreshFits(d, refresh[d], cmd[d]) /\ refresh'[d] = refresh[d] /\ cmd'[d] = cmd[d]
      BY <1>1 DEF PluginInv
    <2>2. CASE refresh[d].pc = "minted"
      <3> DEFINE q == refresh[d].root
                 held == [id |-> refresh[d].result, issuedAt |-> 0]
      <3>1. q \in Roots /\ HoldsItsOwn(held, handler[q], bao, q) /\ held # Plugin!NoToken
        BY <2>1, <2>2 DEF RefreshFits, Plugin!NoToken
      <3>2. HoldsItsOwn(held, handler'[q], bao', q)
        <4> HIDE DEF held, q
        <4>1. QED
          BY <1>6, <3>1
      <3>3. QED
        BY <1>1, <2>1, <2>2, <3>2 DEF RefreshFits
    <2>3. CASE refresh[d].pc # "minted"
      BY <1>1, <2>1, <2>3 DEF RefreshFits
    <2>4. QED
      BY <2>2, <2>3
  <1>9. ASSUME NEW d \in Commands PROVE CommandFits(cmd[d])'
    BY <1>1, <1>5 DEF PluginInv, CommandFits, IssuedFor
  <1>10. PluginTypes'
    BY <1>1, <1>4, <1>5 DEF PluginInv, PluginTypes
  <1>11. QED
    BY <1>1, <1>7, <1>8, <1>9, <1>10 DEF PluginInv
LEMMA DeletedStep ==
    ASSUME Plugin!SessionTokensAssumption, PluginInv, Plugin!Deleted
    PROVE  PluginInv'
  <1> DEFINE s == events[1]
  <1>1. /\ roots' = [m \in Plugin!Sessions |-> IF m = s \/ roots[m] = s THEN Plugin!NoSession ELSE roots[m]]
        /\ UNCHANGED <<now, pending, refresh, cmd, bao>>
        /\ IF s \in Roots /\ (tokens[s] # Plugin!NoToken \/ pending[s] # Plugin!NoCommand)
           THEN Plugin!Revoke(s) ELSE UNCHANGED <<tokens, handler>>
    BY DEF Plugin!Deleted
  <1> HIDE DEF s
  <1>2. /\ roots' \in [Plugin!Sessions -> Roots \cup {Plugin!NoSession}]
        /\ \A m \in Plugin!Sessions : roots'[m] \in {Plugin!NoSession, Plugin!RootOf(m)}
    BY <1>1 DEF PluginInv, PluginTypes
  <1>3. CASE UNCHANGED <<tokens, handler>>
    <2>1. ASSUME NEW d \in Commands PROVE RefreshFits(d, refresh[d], cmd[d])'
      BY <1>1, <1>3 DEF PluginInv, RefreshFits
    <2>2. ASSUME NEW d \in Commands PROVE CommandFits(cmd[d])'
      BY <1>1 DEF PluginInv, CommandFits
    <2>3. QED
      BY <1>1, <1>2, <1>3, <2>1, <2>2, PluginInvFrom DEF PluginInv, PluginTypes
  <1>4. CASE s \in Roots /\ Plugin!Revoke(s)
    <2>1. ASSUME NEW d \in Commands PROVE CommandFits(cmd[d])'
      BY <1>1 DEF PluginInv, CommandFits
    <2>2. CASE pending[s] # Plugin!NoCommand
      <3> DEFINE h == [handler[s] EXCEPT !.pc = "awaiting"]
      <3>1. handler' = [handler EXCEPT ![s] = h] /\ UNCHANGED tokens
        BY <1>4, <2>2 DEF Plugin!Revoke
      <3>2. h \in [pc : {"none", "awaiting", "revoking", "done"}, token : Nat] /\ h.pc = "awaiting"
        BY <1>4 DEF PluginInv, PluginTypes
      <3> HIDE DEF h
      <3>3. /\ handler' \in [Roots -> [pc : {"none", "awaiting", "revoking", "done"}, token : Nat]]
            /\ \A q \in Roots : handler'[q] = IF q = s THEN h ELSE handler[q]
        BY <1>4, <3>1, <3>2 DEF PluginInv, PluginTypes
      <3>4. \A q \in Roots : \A held : HoldsItsOwn(held, handler[q], bao, q) => HoldsItsOwn(held, handler'[q], bao, q)
        BY <3>2, <3>3 DEF HoldsItsOwn
      <3>5. ASSUME NEW d \in Commands PROVE RefreshFits(d, refresh[d], cmd[d])'
        <4>1. RefreshFits(d, refresh[d], cmd[d])
          BY DEF PluginInv
        <4>2. QED
          BY <1>1, <3>1, <3>4, <4>1 DEF RefreshFits
      <3>6. ASSUME NEW q \in Roots PROVE HoldsItsOwn(tokens[q], handler[q], bao, q)'
        BY <1>1, <3>1, <3>4 DEF PluginInv
      <3>7. PluginTypes'
        BY <1>1, <1>2, <3>1, <3>3 DEF PluginInv, PluginTypes
      <3>8. QED
        BY <1>2, <2>1, <3>5, <3>6, <3>7 DEF PluginInv
    <2>3. CASE pending[s] = Plugin!NoCommand
      <3>1. Plugin!RevokeCurrent(s, tokens)
        BY <1>4, <2>3 DEF Plugin!Revoke
      <3>2. /\ tokens' \in [Roots -> [id : Nat, issuedAt : Nat]]
            /\ handler' \in [Roots -> [pc : {"none", "awaiting", "revoking", "done"}, token : Nat]]
            /\ HoldsItsOwn(tokens'[s], handler'[s], bao, s)
            /\ \A q \in Roots \ {s} : tokens'[q] = tokens[q] /\ handler'[q] = handler[q]
        BY <1>4, <3>1, RevokeCurrentHolds DEF PluginInv, PluginTypes
      <3>3. ASSUME NEW d \in Commands PROVE RefreshFits(d, refresh[d], cmd[d])'
        <4>1. refresh[d].pc # "none" => pending[refresh[d].root] = d
          BY DEF PluginInv, RefreshFits
        <4>2. refresh[d].pc # "none" => refresh[d].root # s
          BY <2>3, <4>1, PluginBasics
        <4>3. QED
          BY <1>1, <1>4, <3>2, <4>2, OthersFit
      <3>4. ASSUME NEW q \in Roots PROVE HoldsItsOwn(tokens[q], handler[q], bao, q)'
        <4>1. CASE q = s
          BY <1>1, <3>2, <4>1
        <4>2. CASE q # s
          BY <1>1, <3>2, <4>2 DEF PluginInv
        <4>3. QED
          BY <4>1, <4>2
      <3>5. PluginTypes'
        BY <1>1, <1>2, <3>2 DEF PluginInv, PluginTypes
      <3>6. QED
        BY <1>2, <2>1, <3>3, <3>4, <3>5 DEF PluginInv
    <2>4. QED
      BY <2>2, <2>3
  <1>5. QED
    BY <1>1, <1>3, <1>4

LEMMA PluginInvStep ==
    ASSUME Plugin!SessionTokensAssumption, PluginInv, [Plugin!Next]_(Plugin!vars)
    PROVE  PluginInv'
  <1>1. ASSUME NEW c \in Commands, Plugin!CommandStep(c) \/ \E s \in Plugin!Sessions : Plugin!Before(c, s)
        PROVE  PluginInv'
    BY <1>1, CommandSteps, RefreshSteps, SettleStep DEF Plugin!CommandStep
  <1>2. ASSUME UNCHANGED <<roots, tokens, pending, refresh, cmd, bao, handler>>, now' \in Nat PROVE PluginInv'
    <2>1. ASSUME NEW d \in Commands PROVE RefreshFits(d, refresh[d], cmd[d])' /\ CommandFits(cmd[d])'
      BY <1>2 DEF PluginInv, RefreshFits, CommandFits
    <2>2. QED
      BY <1>2, <2>1, PluginInvFrom DEF PluginInv, PluginTypes
  <1>3. now \in Nat
    BY DEF PluginInv, PluginTypes
  <1>4. ASSUME NEW s \in Plugin!Sessions, Plugin!Delete(s) PROVE PluginInv'
    BY <1>2, <1>3, <1>4 DEF Plugin!Delete, Plugin!resolver
  <1>5. ASSUME Plugin!StreamFails \/ Plugin!Resubscribe \/ Plugin!Tick \/ UNCHANGED Plugin!vars PROVE PluginInv'
    BY <1>2, <1>3, <1>5 DEF Plugin!StreamFails, Plugin!Resubscribe, Plugin!Tick, Plugin!vars, Plugin!resolver
  <1>6. QED
    BY <1>1, <1>4, <1>5, RevokeHandledStep, DeletedStep DEF Plugin!Next

LEMMA PluginInvInit == Plugin!SessionTokensAssumption /\ Plugin!Init => PluginInv
  <1> SUFFICES ASSUME Plugin!SessionTokensAssumption, Plugin!Init PROVE PluginInv
    OBVIOUS
  <1>1. PluginTypes
    BY PluginBasics DEF Plugin!Init, PluginTypes, Plugin!NoHandler
  <1>2. ASSUME NEW r \in Roots PROVE HoldsItsOwn(tokens[r], handler[r], bao, r)
    BY DEF Plugin!Init, HoldsItsOwn, Plugin!NoHandler
  <1>3. ASSUME NEW c \in Commands PROVE RefreshFits(c, refresh[c], cmd[c]) /\ CommandFits(cmd[c])
    BY PluginBasics DEF Plugin!Init, RefreshFits, CommandFits, Plugin!NoCmd
  <1>4. QED
    BY <1>1, <1>2, <1>3 DEF Plugin!Init, PluginInv

\* What the plugin holds, what it revokes and what is under way fit together.
LEMMA PluginInvHolds ==
    ASSUME Plugin!SessionTokensAssumption
    PROVE  Plugin!Spec => []PluginInv
  <1>1. PluginInv /\ [Plugin!Next]_(Plugin!vars) => PluginInv'
    BY PluginInvStep
  <1>2. QED
    BY <1>1, PluginInvInit, PTL DEF Plugin!Spec

\* A shell command runs with a token of its own root session or with none,
\* never with another session's (peek of the root session).
THEOREM TokensStayAtHome ==
    ASSUME Plugin!SessionTokensAssumption
    PROVE  Plugin!Spec => []Plugin!CommandsGetTheirOwnToken
  <1>1. PluginInv => Plugin!CommandsGetTheirOwnToken
    BY DEF PluginInv, CommandFits, IssuedFor, Plugin!CommandsGetTheirOwnToken
  <1>2. QED
    BY <1>1, PluginInvHolds, PTL

\* OpenBao never works on two refreshes of one root session: the commands of
\* a session share the pending one (SessionTokens.get).
THEOREM RefreshesAreShared ==
    ASSUME Plugin!SessionTokensAssumption
    PROVE  Plugin!Spec => []Plugin!OneRefreshAtATime
  <1>1. ASSUME PluginInv PROVE Plugin!OneRefreshAtATime
    <2>1. ASSUME NEW c \in Commands, NEW d \in Commands, refresh[c].pc # "none", refresh[c].root = refresh[d].root
          PROVE  c = d
      <3>1. refresh[c].root \in Roots /\ pending[refresh[c].root] = c
        BY <1>1, <2>1 DEF PluginInv, RefreshFits
      <3>2. refresh[d].pc # "none"
        <4>1. RefreshFits(d, refresh[d], cmd[d])
          BY <1>1 DEF PluginInv
        <4>2. refresh[d].pc = "none" => refresh[d].root = Plugin!NoSession
          BY <4>1, PluginBasics DEF RefreshFits
        <4>3. QED
          BY <2>1, <3>1, <4>2, PluginBasics
      <3>3. pending[refresh[d].root] = d
        BY <1>1, <3>2 DEF PluginInv, RefreshFits
      <3>4. QED
        BY <2>1, <3>1, <3>3
    <2>2. QED
      BY <2>1 DEF Plugin!OneRefreshAtATime
  <1>2. QED
    BY <1>1, PluginInvHolds, PTL

\* Only the spawner starts a command.
LEMMA OnlySpawnRuns ==
    ASSUME Plugin!SessionTokensAssumption, PluginInv, [Plugin!Next]_(Plugin!vars), NEW c \in Commands,
           cmd[c].pc # "ran", cmd'[c].pc = "ran"
    PROVE  Plugin!Spawn(c)
  <1>1. cmd \in [Commands -> Commanded]
    BY DEF PluginInv, PluginTypes
  <1>2. ASSUME NEW d \in Commands, NEW command, command.pc # "ran", cmd' = [cmd EXCEPT ![d] = command] PROVE FALSE
    BY <1>1, <1>2
  <1>3. UNCHANGED cmd => FALSE
    OBVIOUS
  <1>4. ASSUME NEW d \in Commands, NEW s \in Plugin!Sessions, NEW m, NEW known, Plugin!Resolve(d, s, m, known)
        PROVE  FALSE
    <2> DEFINE record == [Plugin!NoCmd EXCEPT !.session = s]
               Unknown == (IF m \in Roots THEN {m} ELSE {m, Parent[m]}) \ known
               next == IF m \in Unknown THEN m ELSE Parent[m]
    <2>1. record \in Commanded
      BY PluginBasics DEF Commanded
    <2>2. \/ Plugin!Get(d, Plugin!RootOf(s), record)
          \/ cmd' = [cmd EXCEPT ![d] = [record EXCEPT !.pc = "asking", !.asked = next]]
      BY <1>4 DEF Plugin!Resolve
    <2> HIDE DEF record, next
    <2>3. \A k : /\ [record EXCEPT !.pc = "ready"].pc # "ran" /\ [record EXCEPT !.pc = "waiting", !.on = k].pc # "ran"
                 /\ [record EXCEPT !.pc = "asking", !.asked = k].pc # "ran"
      BY <2>1 DEF Commanded
    <2>4. \E command : command.pc # "ran" /\ cmd' = [cmd EXCEPT ![d] = command]
      <3>1. CASE cmd' = [cmd EXCEPT ![d] = [record EXCEPT !.pc = "ready"]]
        BY <2>3, <3>1
      <3>2. ASSUME NEW k, cmd' = [cmd EXCEPT ![d] = [record EXCEPT !.pc = "waiting", !.on = k]]
            PROVE  \E command : command.pc # "ran" /\ cmd' = [cmd EXCEPT ![d] = command]
        BY <2>3, <3>2
      <3>3. CASE cmd' = [cmd EXCEPT ![d] = [record EXCEPT !.pc = "asking", !.asked = next]]
        BY <2>3, <3>3
      <3>4. QED
        BY <2>2, <3>1, <3>2, <3>3 DEF Plugin!Get
    <2>5. QED
      BY <1>2, <2>4
  <1>5. ASSUME NEW d \in Commands, NEW s \in Plugin!Sessions, Plugin!Before(d, s) PROVE FALSE
    BY <1>4, <1>5 DEF Plugin!Before
  <1>6. ASSUME NEW d \in Commands, Plugin!Found(d) PROVE FALSE
    <2>1. cmd[d].session \in Plugin!Sessions
      BY <1>6 DEF Plugin!Found, PluginInv, CommandFits
    <2>2. QED
      BY <1>4, <1>6, <2>1 DEF Plugin!Found
  <1>7. ASSUME NEW d \in Commands, Plugin!HostAnswers(d) \/ Plugin!Lost(d) PROVE FALSE
    <2>1. \A p \in {"found", "lost", "ready"} : [cmd[d] EXCEPT !.pc = p].pc # "ran"
      BY <1>1 DEF Commanded
    <2>2. \E p \in {"found", "lost", "ready"} : cmd' = [cmd EXCEPT ![d] = [cmd[d] EXCEPT !.pc = p]]
      <3>1. CASE Plugin!HostAnswers(d)
        <4> DEFINE p == IF cmd[d].asked \in exists THEN "found" ELSE "lost"
        <4>1. p \in {"found", "lost", "ready"} /\ cmd' = [cmd EXCEPT ![d] = [cmd[d] EXCEPT !.pc = p]]
          BY <3>1 DEF Plugin!HostAnswers
        <4>2. QED
          BY <4>1
      <3>2. CASE Plugin!Lost(d)
        BY <3>2 DEF Plugin!Lost
      <3>3. QED
        BY <1>7, <3>1, <3>2
    <2>3. QED
      BY <1>2, <2>1, <2>2
  <1>8. ASSUME NEW d \in Commands, Plugin!Settle(d) PROVE FALSE
    <2>1. cmd'[c] = IF cmd[c].pc = "waiting" /\ cmd[c].on = d
                    THEN [cmd[c] EXCEPT !.pc = "ready", !.on = Plugin!NoCommand] ELSE cmd[c]
      BY <1>8 DEF Plugin!Settle
    <2>2. [cmd[c] EXCEPT !.pc = "ready", !.on = Plugin!NoCommand].pc = "ready"
      BY <1>1 DEF Commanded
    <2>3. QED
      BY <2>1, <2>2
  <1>9. ASSUME NEW d \in Commands, Plugin!RenewHandled(d) \/ Plugin!MintHandled(d) \/ Plugin!RenewalFailed(d) PROVE FALSE
    BY <1>3, <1>9 DEF Plugin!RenewHandled, Plugin!MintHandled, Plugin!RenewalFailed, Plugin!RefreshTo
  <1>10. ASSUME \/ \E r \in Roots : Plugin!RevokeHandled(r)
                \/ \E s \in Plugin!Sessions : Plugin!Delete(s)
                \/ Plugin!Deleted \/ Plugin!StreamFails \/ Plugin!Resubscribe \/ Plugin!Tick \/ UNCHANGED Plugin!vars
         PROVE FALSE
    BY <1>3, <1>10 DEF Plugin!RevokeHandled, Plugin!Delete, Plugin!Deleted, Plugin!StreamFails,
                       Plugin!Resubscribe, Plugin!Tick, Plugin!vars
  <1>11. ASSUME NEW d \in Commands, Plugin!Spawn(d) PROVE Plugin!Spawn(c)
    BY <1>1, <1>11 DEF Plugin!Spawn
  <1>12. QED
    BY <1>5, <1>6, <1>7, <1>8, <1>9, <1>10, <1>11 DEF Plugin!Next, Plugin!CommandStep

\* No command is started with a token that was revoked before: revoke forgets
\* the token before it asks OpenBao to revoke it, and waits for a refresh.
THEOREM NoCommandStartsRevoked ==
    ASSUME Plugin!SessionTokensAssumption
    PROVE  Plugin!Spec => Plugin!RevokedTokensStayHome
  <1> DEFINE StartsLive == \A c \in Commands :
                cmd[c].pc = "ready" /\ cmd'[c].pc = "ran" /\ cmd'[c].env # 0 => bao[cmd'[c].env].live
  <1>1. PluginInv /\ [Plugin!Next]_(Plugin!vars) => [StartsLive]_(Plugin!vars)
    <2> SUFFICES ASSUME PluginInv, [Plugin!Next]_(Plugin!vars), NEW c \in Commands,
                        cmd[c].pc = "ready", cmd'[c].pc = "ran", cmd'[c].env # 0
                 PROVE  bao[cmd'[c].env].live
      OBVIOUS
    <2>1. Plugin!Spawn(c)
      BY OnlySpawnRuns
    <2>2. cmd'[c].env = Plugin!peek(cmd[c].session)
      BY <2>1 DEF Plugin!Spawn, PluginInv, PluginTypes, Commanded
    <2>3. cmd[c].session \in Plugin!Sessions
      BY DEF PluginInv, CommandFits
    <2>4. QED
      BY <2>2, <2>3, PeekIsOwn
  <1>2. QED
    BY <1>1, PluginInvHolds, PTL DEF Plugin!Spec, Plugin!RevokedTokensStayHome

-----------------------------------------------------------------------------
(* Types *)

\* The bounds of the model of bao-cred.
WaitBounds == runs \in 0..MaxRuns /\ faults \in 0..WaitFaults
WaitTypes == WaitInv /\ WaitBounds

\* WaitTypes gives the types of bao-cred's waiting.
LEMMA WaitTypesImply == WaitTypes => Wait!TypeOK
  <1> SUFFICES ASSUME WaitTypes PROVE Wait!TypeOK
    OBVIOUS
  <1>1. proc \in Awaiting /\ watch \in [server : {"none", "open", "ended"}, last : Snapshots, wire : Seq(Snapshots), stalled : BOOLEAN]
    BY DEF WaitTypes, WaitInv, ProcInv, StreamInv
  <1>2. \A i \in DOMAIN watch.wire : watch.wire[i] \in Snapshots
    <2> DEFINE wire == watch.wire
    <2>1. wire \in Seq(Snapshots)
      BY <1>1
    <2> HIDE DEF wire
    <2>2. \A i \in DOMAIN wire : wire[i] \in Snapshots
      BY <2>1
    <2>3. QED
      BY <2>2 DEF wire
  <1>3. QED
    BY <1>1, <1>2 DEF WaitTypes, WaitInv, WaitBounds, Wait!TypeOK, Awaiting, Snapshots

\* They hold at first.
LEMMA WaitTypesInit == Wait!BaoCredAssumption /\ Wait!Init => WaitTypes
  <1> SUFFICES ASSUME Wait!BaoCredAssumption, Wait!Init PROVE WaitTypes
    OBVIOUS
  <1>1. runs \in 0..MaxRuns /\ faults \in 0..WaitFaults
    BY DEF Wait!Init, Wait!BaoCredAssumption
  <1>2. QED
    BY <1>1, WaitInvInit DEF WaitTypes, WaitBounds

\* Every step keeps them.
LEMMA WaitTypesStep == Wait!BaoCredAssumption /\ WaitTypes /\ [Wait!Next]_(Wait!vars) => WaitTypes'
  <1> SUFFICES ASSUME Wait!BaoCredAssumption, WaitTypes, [Wait!Next]_(Wait!vars) PROVE WaitTypes'
    OBVIOUS
  <1>1. WaitInv'
    BY WaitInvStep DEF WaitTypes
  <1>2. MaxRuns \in Nat /\ WaitFaults \in Nat /\ runs \in 0..MaxRuns /\ faults \in 0..WaitFaults
    BY DEF Wait!BaoCredAssumption, WaitTypes, WaitBounds
  <1> DEFINE RunsFit == runs' = runs \/ (runs < MaxRuns /\ runs' = runs + 1)
             FaultsFit == faults' = faults \/ (faults < WaitFaults /\ faults' = faults + 1)
  <1>3. CASE Wait!Server \/ Wait!StreamStalls \/ \E q \in Requests, k \in Items : Wait!Decide(q, k) \/ Wait!Revoke(q, k)
    <2>1. RunsFit /\ FaultsFit
      BY <1>3 DEF Wait!Server, Wait!StreamSends, Wait!StreamBeats, Wait!StreamStalls, Wait!Decide, Wait!Revoke,
                  Wait!Fault, Wait!NoFault
    <2>2. QED
      BY <1>1, <1>2, <2>1 DEF WaitTypes, WaitBounds
  <1>4. CASE \/ Wait!RunRequest(TRUE) \/ Wait!RunRequest(FALSE) \/ Wait!RunRead(TRUE) \/ Wait!RunRead(FALSE)
             \/ Wait!RunBadFlags \/ \E q \in Requests : Wait!RunWait(q)
    <2>1. RunsFit /\ FaultsFit
      BY <1>4 DEF Wait!RunRequest, Wait!RunRead, Wait!RunBadFlags, Wait!RunWait, Wait!CanStart, Wait!Fault, Wait!NoFault
    <2>2. QED
      BY <1>1, <1>2, <2>1 DEF WaitTypes, WaitBounds
  <1>5. CASE \/ \E q \in Requests : Wait!CreateFails(q) \/ Wait!Create(q)
             \/ Wait!Get \/ Wait!GetFails \/ Wait!Return \/ Wait!Read
    <2>1. RunsFit /\ FaultsFit
      BY <1>5 DEF Wait!CreateFails, Wait!Create, Wait!Get, Wait!GetFails, Wait!Return, Wait!Read, Wait!Fault, Wait!NoFault
    <2>2. QED
      BY <1>1, <1>2, <2>1 DEF WaitTypes, WaitBounds
  <1>6. CASE \/ Wait!Watch \/ Wait!StreamEnds \/ Wait!IdleFires \/ Wait!Retry \/ Wait!Receive \/ Wait!StreamCut
             \/ Wait!StreamEndsEarly \/ Wait!WatchRefused \/ Wait!Timeout \/ Wait!Signal
    <2>1. RunsFit /\ FaultsFit
      BY <1>6 DEF Wait!Watch, Wait!StreamEnds, Wait!IdleFires, Wait!Retry, Wait!Receive, Wait!StreamCut,
                  Wait!StreamEndsEarly, Wait!WatchRefused, Wait!Timeout, Wait!Signal, Wait!WaitKept, Wait!Fault,
                  Wait!NoFault
    <2>2. QED
      BY <1>1, <1>2, <2>1 DEF WaitTypes, WaitBounds
  <1>7. CASE UNCHANGED Wait!vars
    BY <1>1, <1>2, <1>7 DEF WaitTypes, WaitBounds, Wait!vars
  <1>8. QED
    BY <1>3, <1>4, <1>5, <1>6, <1>7 DEF Wait!Next, Wait!Progress

\* What the host tells, and the bounds of the model.
HostTyped ==
    /\ now \in 0..PluginHorizon /\ faults \in 0..PluginFaults
    /\ exists \subseteq Plugin!Sessions /\ cache \subseteq Plugin!Sessions /\ raced \subseteq Roots
    /\ events \in Seq(Plugin!Sessions) /\ stream \in {"up", "down"}
TokensArePast == \A r \in Roots : tokens[r].issuedAt \in 0..now
\* What is pending for a root is its refresh, and who waits does so for what is
\* pending for its root.
PendingsFit ==
    /\ \A r \in Roots : pending[r] # Plugin!NoCommand =>
          refresh[pending[r]].pc # "none" /\ refresh[pending[r]].root = r
    /\ \A c \in Commands : cmd[c].pc = "waiting" =>
          cmd[c].on \in Commands /\ pending[Plugin!RootOf(cmd[c].session)] = cmd[c].on
PluginTyped == PluginInv /\ HostTyped /\ TokensArePast /\ PendingsFit

\* What a sequence over S holds is in S.
LEMMA EachOfSeq == ASSUME NEW S, NEW q \in Seq(S) PROVE \A i \in DOMAIN q : q[i] \in S
  OBVIOUS

\* The empty sequence is one over any set.
LEMMA EmptyIsSeq == ASSUME NEW S PROVE <<>> \in Seq(S)
  OBVIOUS

\* The strengthened invariant of the plugin gives its types.
LEMMA PluginTypedImplies ==
    ASSUME Plugin!SessionTokensAssumption, PluginTyped PROVE Plugin!TypeOK
  <1>1. ASSUME NEW r \in Roots PROVE tokens[r] \in [id : 0..Len(bao), issuedAt : 0..now]
    <2>1. tokens[r] \in [id : Nat, issuedAt : Nat] /\ tokens[r].issuedAt \in 0..now /\ bao \in Seq([root : Roots, until : Nat, live : BOOLEAN])
      BY DEF PluginTyped, PluginInv, PluginTypes, TokensArePast
    <2>2. tokens[r].id \in 0..Len(bao)
      <3>1. HoldsItsOwn(tokens[r], handler[r], bao, r)
        BY DEF PluginTyped, PluginInv
      <3>2. CASE tokens[r] = Plugin!NoToken
        BY <2>1, <3>2 DEF Plugin!NoToken
      <3>3. CASE tokens[r] # Plugin!NoToken
        BY <2>1, <3>1, <3>3 DEF HoldsItsOwn, IssuedFor
      <3>4. QED
        BY <3>2, <3>3
    <2>3. QED
      BY <2>1, <2>2
  <1>2. tokens \in [Roots -> [id : 0..Len(bao), issuedAt : 0..now]]
    BY <1>1 DEF PluginTyped, PluginInv, PluginTypes
  <1>3. ASSUME NEW c \in Commands
        PROVE  /\ refresh[c].pc \in {"none", "renew", "renewed", "renewFailed", "mint", "minted", "mintFailed"}
               /\ refresh[c].pc # "none" <=> \E r \in Roots : pending[r] = c
               /\ cmd[c].pc \in {"idle", "asking", "found", "lost", "waiting", "ready", "ran"}
               /\ cmd[c].pc = "waiting" => pending[Plugin!RootOf(cmd[c].session)] = cmd[c].on
    <2>1. refresh[c] \in Refreshes /\ cmd[c] \in Commanded /\ RefreshFits(c, refresh[c], cmd[c]) /\ c # Plugin!NoCommand
      BY PluginBasics DEF PluginTyped, PluginInv, PluginTypes
    <2>2. refresh[c].pc # "none" => \E r \in Roots : pending[r] = c
      BY <2>1 DEF RefreshFits
    <2>3. QED
      BY <2>1, <2>2 DEF PluginTyped, PendingsFit, Refreshes, Commanded
  <1>4. \A i \in DOMAIN bao : bao[i].root \in Roots
    <2>1. bao \in Seq([root : Roots, until : Nat, live : BOOLEAN])
      BY DEF PluginTyped, PluginInv, PluginTypes
    <2>2. \A i \in DOMAIN bao : bao[i] \in [root : Roots, until : Nat, live : BOOLEAN]
      BY <2>1, EachOfSeq
    <2>3. QED
      BY <2>2
  <1>5. QED
    BY <1>2, <1>3, <1>4 DEF PluginTyped, PluginInv, PluginTypes, HostTyped, Plugin!TypeOK

\* A fresh plugin meets it.
LEMMA PluginTypedInit == Plugin!SessionTokensAssumption /\ Plugin!Init => PluginTyped
  <1> SUFFICES ASSUME Plugin!SessionTokensAssumption, Plugin!Init PROVE PluginTyped
    OBVIOUS
  <1>1. HostTyped
    BY DEF Plugin!Init, HostTyped, Plugin!SessionTokensAssumption
  <1>2. TokensArePast /\ PendingsFit
    BY DEF Plugin!Init, TokensArePast, PendingsFit, Plugin!NoToken, Plugin!NoCmd
  <1>3. QED
    BY <1>1, <1>2, PluginInvInit DEF PluginTyped

\* No step leaves the bounds of the host's state.
LEMMA HostTypedStep ==
    ASSUME Plugin!SessionTokensAssumption, PluginInv, HostTyped, [Plugin!Next]_(Plugin!vars) PROVE HostTyped'
  <1>1. PluginHorizon \in Nat /\ PluginFaults \in Nat
    BY DEF Plugin!SessionTokensAssumption
  <1>2. ASSUME NEW c \in Commands, NEW s \in Plugin!Sessions, Plugin!Before(c, s) PROVE HostTyped'
    BY <1>2 DEF Plugin!Before, Plugin!Resolve, Plugin!host, Plugin!NoFault, HostTyped
  <1>3. ASSUME NEW c \in Commands, Plugin!Found(c) PROVE HostTyped'
    <2>1. cmd[c].asked \in Plugin!Sessions
      BY <1>3 DEF Plugin!Found, PluginInv, CommandFits
    <2>2. QED
      BY <1>3, <2>1 DEF Plugin!Found, Plugin!Resolve, Plugin!host, Plugin!NoFault, HostTyped
  <1>4. ASSUME NEW c \in Commands, Plugin!HostAnswers(c) \/ Plugin!Lost(c) \/ Plugin!Spawn(c) \/ Plugin!Settle(c) PROVE HostTyped'
    BY <1>4 DEF Plugin!HostAnswers, Plugin!Lost, Plugin!Spawn, Plugin!Settle, Plugin!host, Plugin!resolver, Plugin!NoFault, HostTyped
  <1>5. ASSUME NEW c \in Commands, Plugin!RenewHandled(c) \/ Plugin!MintHandled(c) \/ Plugin!RenewalFailed(c) PROVE HostTyped'
    <2>1. UNCHANGED <<now, cache, exists, events, stream, raced>>
          /\ (faults' = faults \/ (faults < PluginFaults /\ faults' = faults + 1))
      BY <1>5 DEF Plugin!RenewHandled, Plugin!MintHandled, Plugin!RenewalFailed, Plugin!RefreshTo, Plugin!host, Plugin!resolver,
                  Plugin!NoFault, Plugin!Fault
    <2>2. QED
      BY <1>1, <2>1 DEF HostTyped
  <1>6. ASSUME NEW r \in Roots, Plugin!RevokeHandled(r) PROVE HostTyped'
    BY <1>1, <1>6 DEF Plugin!RevokeHandled, Plugin!host, Plugin!resolver, Plugin!NoFault, Plugin!Fault, HostTyped
  <1>7. ASSUME NEW s \in Plugin!Sessions, Plugin!Delete(s) PROVE HostTyped'
    BY <1>7 DEF Plugin!Delete, Plugin!resolver, Plugin!NoFault, HostTyped
  <1>8. CASE Plugin!Deleted
    <2>1. events[1] \in Plugin!Sessions /\ Tail(events) \in Seq(Plugin!Sessions)
      BY <1>8 DEF Plugin!Deleted, HostTyped
    <2>2. QED
      BY <1>8, <2>1 DEF Plugin!Deleted, Plugin!NoFault, HostTyped
  <1>9. CASE Plugin!StreamFails \/ Plugin!Resubscribe
    <2>1. /\ UNCHANGED <<now, exists, cache, raced>> /\ events' \in {events, <<>>} /\ stream' \in {"up", "down"}
          /\ faults' = faults \/ (faults < PluginFaults /\ faults' = faults + 1)
      BY <1>9 DEF Plugin!StreamFails, Plugin!Resubscribe, Plugin!resolver, Plugin!NoFault, Plugin!Fault
    <2>2. events' \in Seq(Plugin!Sessions)
      BY <2>1, EmptyIsSeq DEF HostTyped
    <2>3. faults' \in 0..PluginFaults
      BY <1>1, <2>1 DEF HostTyped
    <2>4. QED
      BY <2>1, <2>2, <2>3 DEF HostTyped
  <1>10. CASE Plugin!Tick \/ UNCHANGED Plugin!vars
    BY <1>1, <1>10 DEF Plugin!Tick, Plugin!resolver, Plugin!host, Plugin!NoFault, HostTyped, Plugin!vars
  <1>11. QED
    BY <1>2, <1>3, <1>4, <1>5, <1>6, <1>7, <1>8, <1>9, <1>10 DEF Plugin!Next, Plugin!CommandStep

\* No step dates a token later than now.
LEMMA TokensArePastStep ==
    ASSUME Plugin!SessionTokensAssumption, PluginInv, HostTyped, TokensArePast, [Plugin!Next]_(Plugin!vars)
    PROVE  TokensArePast'
  <1>1. now \in Nat /\ tokens \in [Roots -> [id : Nat, issuedAt : Nat]]
    BY DEF PluginInv, PluginTypes
  <1>2. ASSUME NEW r \in Roots, NEW held \in [Roots -> [id : Nat, issuedAt : Nat]], \A q \in Roots : held[q].issuedAt \in 0..now,
               tokens' = held \/ tokens' = [held EXCEPT ![r] = Plugin!NoToken], now' = now
        PROVE  TokensArePast'
    BY <1>1, <1>2 DEF TokensArePast, Plugin!NoToken
  <1>3. ASSUME NEW c \in Commands, Plugin!Settle(c) PROVE TokensArePast'
    <2> DEFINE r == refresh[c].root
               held == CASE refresh[c].pc = "renewed" -> [tokens EXCEPT ![r].issuedAt = now, ![r].id = refresh[c].current.id]
                         [] refresh[c].pc = "minted" -> [tokens EXCEPT ![r] = [id |-> refresh[c].result, issuedAt |-> now]]
                         [] OTHER -> tokens
    <2>1. r \in Roots /\ refresh[c].current.id \in Nat /\ refresh[c].result \in Nat
      BY <1>3 DEF Plugin!Settle, PluginInv, PluginTypes, RefreshFits, Refreshes
    <2>2. held \in [Roots -> [id : Nat, issuedAt : Nat]] /\ \A q \in Roots : held[q].issuedAt \in 0..now
      <3> HIDE DEF r
      <3>1. CASE refresh[c].pc = "renewed"
        <4> DEFINE id == refresh[c].current.id
                   new == [tokens[r] EXCEPT !.issuedAt = now, !.id = id]
        <4>1. new \in [id : Nat, issuedAt : Nat] /\ new.issuedAt = now
          BY <1>1, <2>1
        <4>2. held = [tokens EXCEPT ![r] = new]
          BY <1>1, <2>1, <3>1
        <4> HIDE DEF new, held
        <4>3. QED
          BY <1>1, <2>1, <4>1, <4>2 DEF TokensArePast
      <3>2. CASE refresh[c].pc = "minted"
        BY <1>1, <2>1, <3>2 DEF TokensArePast
      <3>3. CASE refresh[c].pc \notin {"renewed", "minted"}
        BY <1>1, <3>3 DEF TokensArePast
      <3>4. QED
        BY <3>1, <3>2, <3>3
    <2>3. (tokens' = held \/ tokens' = [held EXCEPT ![r] = Plugin!NoToken]) /\ now' = now
      BY <1>3 DEF Plugin!Settle, Plugin!RevokeCurrent
    <2> HIDE DEF held, r
    <2>4. QED
      BY <1>2, <2>1, <2>2, <2>3
  <1>4. CASE Plugin!Deleted
    <2>1. events[1] \in Roots => (tokens' = tokens \/ tokens' = [tokens EXCEPT ![events[1]] = Plugin!NoToken])
      BY <1>4 DEF Plugin!Deleted, Plugin!Revoke, Plugin!RevokeCurrent
    <2>2. events[1] \notin Roots => tokens' = tokens
      BY <1>4 DEF Plugin!Deleted
    <2>3. now' = now
      BY <1>4 DEF Plugin!Deleted
    <2>4. QED
      BY <1>1, <1>2, <2>1, <2>2, <2>3 DEF TokensArePast
  <1>5. CASE UNCHANGED tokens /\ now' \in Nat /\ now' >= now
    BY <1>1, <1>5 DEF TokensArePast
  <1>6. ASSUME NEW c \in Commands, NEW s \in Plugin!Sessions, Plugin!Before(c, s) PROVE UNCHANGED <<tokens, now>>
    BY <1>6 DEF Plugin!Before
  <1>7. ASSUME NEW c \in Commands, Plugin!CommandStep(c), ~Plugin!Settle(c) PROVE UNCHANGED <<tokens, now>>
    BY <1>7 DEF Plugin!CommandStep, Plugin!HostAnswers, Plugin!Found, Plugin!Lost, Plugin!Spawn, Plugin!RenewHandled,
                Plugin!MintHandled, Plugin!RenewalFailed, Plugin!RefreshTo
  <1>8. ASSUME \/ \E r \in Roots : Plugin!RevokeHandled(r)
               \/ \E s \in Plugin!Sessions : Plugin!Delete(s)
               \/ Plugin!StreamFails \/ Plugin!Resubscribe \/ UNCHANGED Plugin!vars
        PROVE  UNCHANGED <<tokens, now>>
    BY <1>8 DEF Plugin!RevokeHandled, Plugin!Delete, Plugin!StreamFails, Plugin!Resubscribe, Plugin!vars
  <1>9. CASE Plugin!Tick
    BY <1>1, <1>5, <1>9 DEF Plugin!Tick
  <1>10. UNCHANGED <<tokens, now>> => TokensArePast'
    BY <1>1, <1>5
  <1>11. QED
    BY <1>3, <1>4, <1>6, <1>7, <1>8, <1>9, <1>10 DEF Plugin!Next

\* A command that does not wait goes on, while nothing that is pending changes.
LEMMA CommandsWait ==
    ASSUME Plugin!SessionTokensAssumption, PluginInv, PendingsFit, NEW c \in Commands, NEW command,
           cmd' = [cmd EXCEPT ![c] = command], UNCHANGED <<pending, refresh>>,
           command.pc = "waiting" =>
               command.on \in Commands /\ pending[Plugin!RootOf(command.session)] = command.on
    PROVE  PendingsFit'
  <1>1. \A d \in Commands : cmd'[d] = IF d = c THEN command ELSE cmd[d]
    BY DEF PluginInv, PluginTypes
  <1>2. \A r \in Roots : pending[r] # Plugin!NoCommand => pending[r] \in Commands
    BY DEF PluginInv, PluginTypes
  <1>3. QED
    BY <1>1, <1>2 DEF PendingsFit

\* Whoever does not wait has no refresh under way.
LEMMA ResolveWaits ==
    ASSUME Plugin!SessionTokensAssumption, PluginInv, PendingsFit, NEW c \in Commands, NEW s \in Plugin!Sessions,
           NEW m, NEW known, cmd[c].pc # "waiting", Plugin!Resolve(c, s, m, known)
    PROVE  PendingsFit'
  <1> DEFINE record == [Plugin!NoCmd EXCEPT !.session = s]
             r == Plugin!RootOf(s)
             next == IF m \in (IF m \in Roots THEN {m} ELSE {m, Parent[m]}) \ known THEN m ELSE Parent[m]
  <1>1. /\ r \in Roots /\ record \in Commanded /\ record.session = s
        /\ \A k : /\ [record EXCEPT !.pc = "waiting", !.on = k].on = k
                  /\ [record EXCEPT !.pc = "waiting", !.on = k].session = s
                  /\ [record EXCEPT !.pc = "waiting", !.on = k].pc = "waiting"
                  /\ [record EXCEPT !.pc = "asking", !.asked = k].pc = "asking"
        /\ [record EXCEPT !.pc = "ready"].pc = "ready"
    BY PluginBasics DEF Commanded, Plugin!NoCmd
  <1>2. \/ Plugin!Get(c, r, record)
        \/ cmd' = [cmd EXCEPT ![c] = [record EXCEPT !.pc = "asking", !.asked = next]] /\ UNCHANGED <<pending, refresh>>
    BY DEF Plugin!Resolve
  <1> HIDE DEF record, next
  <1>3. CASE cmd' = [cmd EXCEPT ![c] = [record EXCEPT !.pc = "asking", !.asked = next]] /\ UNCHANGED <<pending, refresh>>
    BY <1>1, <1>3, CommandsWait
  <1>4. CASE cmd' = [cmd EXCEPT ![c] = [record EXCEPT !.pc = "ready"]] /\ UNCHANGED <<pending, refresh>>
    BY <1>1, <1>4, CommandsWait
  <1>5. CASE /\ pending[r] # Plugin!NoCommand /\ UNCHANGED <<pending, refresh>>
             /\ cmd' = [cmd EXCEPT ![c] = [record EXCEPT !.pc = "waiting", !.on = pending[r]]]
    <2>1. pending[r] \in Commands
      BY <1>1, <1>5 DEF PluginInv, PluginTypes
    <2> DEFINE command == [record EXCEPT !.pc = "waiting", !.on = pending[r]]
    <2>2. command.pc = "waiting" /\ command.on = pending[r] /\ command.session = s
      BY <1>1
    <2>3. cmd' = [cmd EXCEPT ![c] = command] /\ UNCHANGED <<pending, refresh>>
      BY <1>5
    <2>4. command.on \in Commands /\ pending[Plugin!RootOf(command.session)] = command.on
      BY <2>1, <2>2
    <2> HIDE DEF command
    <2>5. QED
      BY <2>3, <2>4, CommandsWait
  <1>7. CASE /\ pending[r] = Plugin!NoCommand
             /\ cmd' = [cmd EXCEPT ![c] = [record EXCEPT !.pc = "waiting", !.on = c]]
             /\ pending' = [pending EXCEPT ![r] = c]
             /\ \E p \in {"renew", "mint"} :
                   refresh' = [refresh EXCEPT ![c] = [pc |-> p, root |-> r, current |-> tokens[r], result |-> 0]]
    <2> PICK p \in {"renew", "mint"} :
             refresh' = [refresh EXCEPT ![c] = [pc |-> p, root |-> r, current |-> tokens[r], result |-> 0]]
      BY <1>7
    <2> DEFINE new == [pc |-> p, root |-> r, current |-> tokens[r], result |-> 0]
    <2>0. new.pc \in {"renew", "mint"} /\ new.root = r /\ refresh' = [refresh EXCEPT ![c] = new]
      OBVIOUS
    <2> DEFINE command == [record EXCEPT !.pc = "waiting", !.on = c]
    <2>1. command.pc = "waiting" /\ command.on = c /\ command.session = s
      BY <1>1
    <2>2. cmd' = [cmd EXCEPT ![c] = command]
      BY <1>7
    <2> HIDE DEF command, new, r
    <2>3. /\ \A d \in Commands : cmd'[d] = IF d = c THEN command ELSE cmd[d]
          /\ \A d \in Commands : refresh'[d] = IF d = c THEN new ELSE refresh[d]
          /\ \A q \in Roots : pending'[q] = IF q = r THEN c ELSE pending[q]
          /\ \A q \in Roots : pending[q] \in Commands \cup {Plugin!NoCommand}
      BY <1>1, <1>7, <2>0, <2>2 DEF PluginInv, PluginTypes
    <2>4. \A q \in Roots : pending[q] # c
      <3>1. refresh[c].pc = "none"
        BY DEF PluginInv, RefreshFits
      <3>2. c # Plugin!NoCommand
        BY PluginBasics
      <3>3. QED
        BY <3>1, <3>2 DEF PendingsFit
    <2>5. ASSUME NEW q \in Roots, pending'[q] # Plugin!NoCommand
          PROVE  refresh'[pending'[q]].pc # "none" /\ refresh'[pending'[q]].root = q
      BY <1>7, <2>0, <2>3, <2>4, <2>5 DEF PendingsFit
    <2>6. ASSUME NEW d \in Commands, cmd'[d].pc = "waiting"
          PROVE  cmd'[d].on \in Commands /\ pending'[Plugin!RootOf(cmd'[d].session)] = cmd'[d].on
      <3>1. CASE d = c
        BY <1>1, <2>1, <2>3, <3>1 DEF r
      <3>2. CASE d # c
        <4>1. cmd'[d] = cmd[d] /\ cmd[d].on \in Commands /\ pending[Plugin!RootOf(cmd[d].session)] = cmd[d].on
          BY <2>3, <2>6, <3>2 DEF PendingsFit
        <4>2. cmd[d].session \in Plugin!Sessions
          BY <2>6, <4>1 DEF PluginInv, CommandFits
        <4>3. Plugin!RootOf(cmd[d].session) \in Roots /\ Plugin!RootOf(cmd[d].session) # r
          BY <1>7, <4>1, <4>2, PluginBasics
        <4>4. QED
          BY <2>3, <4>1, <4>3
      <3>3. QED
        BY <3>1, <3>2
    <2>7. QED
      BY <2>5, <2>6 DEF PendingsFit
  <1>8. QED
    BY <1>2, <1>3, <1>4, <1>5, <1>7 DEF Plugin!Get

\* No step parts a pending refresh from those that wait for it.
LEMMA PendingsFitStep ==
    ASSUME Plugin!SessionTokensAssumption, PluginInv, PendingsFit, [Plugin!Next]_(Plugin!vars)
    PROVE  PendingsFit'
  <1>1. ASSUME NEW c \in Commands, NEW s \in Plugin!Sessions, Plugin!Before(c, s) PROVE PendingsFit'
    BY <1>1, ResolveWaits DEF Plugin!Before
  <1>2. ASSUME NEW c \in Commands, Plugin!Found(c) PROVE PendingsFit'
    <2>1. cmd[c].session \in Plugin!Sessions
      BY <1>2 DEF Plugin!Found, PluginInv, CommandFits
    <2>2. QED
      BY <1>2, <2>1, ResolveWaits DEF Plugin!Found
  <1>3. ASSUME NEW c \in Commands, NEW command, command.pc # "waiting",
               cmd' = [cmd EXCEPT ![c] = command], UNCHANGED <<pending, refresh>>
        PROVE  PendingsFit'
    BY <1>3, CommandsWait
  <1>4. ASSUME NEW c \in Commands, Plugin!HostAnswers(c) \/ Plugin!Lost(c) \/ Plugin!Spawn(c) PROVE PendingsFit'
    <2>1. cmd[c] \in Commanded
      BY DEF PluginInv, PluginTypes
    <2>2. /\ \A p \in {"found", "lost", "ready"} : [cmd[c] EXCEPT !.pc = p].pc # "waiting"
          /\ \A e : [cmd[c] EXCEPT !.pc = "ran", !.env = e].pc # "waiting"
      BY <2>1 DEF Commanded
    <2>3. CASE Plugin!HostAnswers(c)
      <3> DEFINE p == IF cmd[c].asked \in exists THEN "found" ELSE "lost"
      <3>1. p \in {"found", "lost", "ready"} /\ cmd' = [cmd EXCEPT ![c] = [cmd[c] EXCEPT !.pc = p]]
            /\ UNCHANGED <<pending, refresh>>
        BY <2>3 DEF Plugin!HostAnswers
      <3> HIDE DEF p
      <3>2. QED
        BY <1>3, <2>2, <3>1
    <2>4. CASE Plugin!Lost(c)
      BY <1>3, <2>2, <2>4 DEF Plugin!Lost
    <2>5. CASE Plugin!Spawn(c)
      <3>1. cmd' = [cmd EXCEPT ![c] = [cmd[c] EXCEPT !.pc = "ran", !.env = Plugin!peek(cmd[c].session)]]
            /\ UNCHANGED <<pending, refresh>>
        BY <2>5 DEF Plugin!Spawn, PluginInv, PluginTypes
      <3>2. QED
        BY <1>3, <2>2, <3>1
    <2>6. QED
      BY <1>4, <2>3, <2>4, <2>5
  <1>5. ASSUME NEW c \in Commands, NEW new \in Refreshes, new.pc # "none", new.root = refresh[c].root,
               refresh' = [refresh EXCEPT ![c] = new], UNCHANGED <<pending, cmd>>
        PROVE  PendingsFit'
    <2>1. \A d \in Commands : refresh'[d] = IF d = c THEN new ELSE refresh[d]
      BY <1>5 DEF PluginInv, PluginTypes
    <2>2. \A r \in Roots : pending[r] # Plugin!NoCommand => pending[r] \in Commands
      BY DEF PluginInv, PluginTypes
    <2>3. QED
      BY <1>5, <2>1, <2>2 DEF PendingsFit
  <1>6. ASSUME NEW c \in Commands, Plugin!RenewHandled(c) \/ Plugin!MintHandled(c) \/ Plugin!RenewalFailed(c) PROVE PendingsFit'
    <2> DEFINE f == refresh[c]
               k == Len(bao) + 1
    <2>1. f \in Refreshes /\ k \in Nat
      BY DEF PluginInv, PluginTypes
    <2>2. /\ \A p \in {"renewed", "renewFailed", "mint", "mintFailed"} :
                [f EXCEPT !.pc = p] \in Refreshes /\ [f EXCEPT !.pc = p].pc # "none" /\ [f EXCEPT !.pc = p].root = f.root
          /\ [f EXCEPT !.pc = "minted", !.result = k] \in Refreshes /\ [f EXCEPT !.pc = "minted", !.result = k].pc # "none"
          /\ [f EXCEPT !.pc = "minted", !.result = k].root = f.root
      BY <2>1 DEF Refreshes
    <2>3. UNCHANGED <<pending, cmd>>
      BY <1>6 DEF Plugin!RenewHandled, Plugin!MintHandled, Plugin!RenewalFailed, Plugin!RefreshTo
    <2>4. \/ \E p \in {"renewed", "renewFailed", "mint", "mintFailed"} : refresh' = [refresh EXCEPT ![c] = [f EXCEPT !.pc = p]]
          \/ refresh' = [refresh EXCEPT ![c] = [f EXCEPT !.pc = "minted", !.result = k]]
      BY <1>6 DEF Plugin!RenewHandled, Plugin!MintHandled, Plugin!RenewalFailed, Plugin!RefreshTo
    <2> HIDE DEF f, k
    <2>5. QED
      BY <1>5, <2>2, <2>3, <2>4 DEF f
  <1>7. ASSUME NEW c \in Commands, Plugin!Settle(c) PROVE PendingsFit'
    <2> DEFINE r == refresh[c].root
    <2>1. r \in Roots /\ pending[r] = c
      BY <1>7 DEF Plugin!Settle, PluginInv, RefreshFits
    <2> HIDE DEF r
    <2>2. /\ pending' = [pending EXCEPT ![r] = Plugin!NoCommand] /\ refresh' = [refresh EXCEPT ![c] = Plugin!NoRefresh]
          /\ cmd' = [d \in Commands |-> IF cmd[d].pc = "waiting" /\ cmd[d].on = c
                                        THEN [cmd[d] EXCEPT !.pc = "ready", !.on = Plugin!NoCommand] ELSE cmd[d]]
      BY <1>7 DEF Plugin!Settle, r
    <2>3. /\ \A q \in Roots : pending'[q] = IF q = r THEN Plugin!NoCommand ELSE pending[q]
          /\ \A q \in Roots : pending[q] # Plugin!NoCommand => pending[q] \in Commands
          /\ \A d \in Commands : refresh'[d] = IF d = c THEN Plugin!NoRefresh ELSE refresh[d]
          /\ \A d \in Commands : cmd[d] \in Commanded
      BY <2>1, <2>2 DEF PluginInv, PluginTypes
    <2>4. ASSUME NEW q \in Roots, pending'[q] # Plugin!NoCommand
          PROVE  refresh'[pending'[q]].pc # "none" /\ refresh'[pending'[q]].root = q
      <3>1. q # r /\ pending'[q] = pending[q] /\ pending[q] \in Commands
        BY <2>3, <2>4
      <3>2. refresh[pending[q]].pc # "none" /\ refresh[pending[q]].root = q
        BY <2>4, <3>1 DEF PendingsFit
      <3>3. pending[q] # c
        BY <3>1, <3>2 DEF r
      <3>4. QED
        BY <2>3, <3>1, <3>2, <3>3
    <2>5. ASSUME NEW d \in Commands, cmd'[d].pc = "waiting"
          PROVE  cmd'[d].on \in Commands /\ pending'[Plugin!RootOf(cmd'[d].session)] = cmd'[d].on
      <3>1. cmd'[d] = cmd[d] /\ cmd[d].on # c
        BY <2>2, <2>3, <2>5 DEF Commanded
      <3>2. cmd[d].on \in Commands /\ pending[Plugin!RootOf(cmd[d].session)] = cmd[d].on
        BY <2>5, <3>1 DEF PendingsFit
      <3>3. cmd[d].session \in Plugin!Sessions
        BY <2>5, <3>1 DEF PluginInv, CommandFits
      <3>4. Plugin!RootOf(cmd[d].session) \in Roots /\ Plugin!RootOf(cmd[d].session) # r
        BY <2>1, <3>1, <3>2, <3>3, PluginBasics
      <3>5. QED
        BY <2>3, <3>1, <3>2, <3>4
    <2>6. QED
      BY <2>4, <2>5 DEF PendingsFit
  <1>8. ASSUME \/ \E r \in Roots : Plugin!RevokeHandled(r)
               \/ \E s \in Plugin!Sessions : Plugin!Delete(s)
               \/ Plugin!Deleted \/ Plugin!StreamFails \/ Plugin!Resubscribe \/ Plugin!Tick \/ UNCHANGED Plugin!vars
        PROVE  UNCHANGED <<pending, refresh, cmd>>
    BY <1>8 DEF Plugin!RevokeHandled, Plugin!Delete, Plugin!Deleted, Plugin!StreamFails, Plugin!Resubscribe,
                Plugin!Tick, Plugin!vars
  <1>9. UNCHANGED <<pending, refresh, cmd>> => PendingsFit'
    BY DEF PendingsFit
  <1>10. QED
    BY <1>1, <1>2, <1>4, <1>6, <1>7, <1>8, <1>9 DEF Plugin!Next, Plugin!CommandStep

\* Every step of the plugin keeps all of it.
LEMMA PluginTypedStep == Plugin!SessionTokensAssumption /\ PluginTyped /\ [Plugin!Next]_(Plugin!vars) => PluginTyped'
  BY PluginInvStep, HostTypedStep, TokensArePastStep, PendingsFitStep DEF PluginTyped

-----------------------------------------------------------------------------
(* Beside the other components *)

\* The component behaves on its own, or never starts.
LEMMA WaitOrIdle ==
    AllSpec => Wait!Spec \/ [](proc = Wait!NoRun)
  <1> DEFINE NeverRun == proc = Wait!NoRun
             Chosen == part = "wait"
             Rests == part # "wait" /\ NeverRun
  <1>1. AllInit => (Chosen /\ Wait!Init) \/ Rests
    BY DEF AllInit, Wait!Init
  <1>2. Chosen /\ [AllNext]_allVars => Chosen' /\ [Wait!Next]_(Wait!vars)
    BY DEF AllNext, LocksStep, ShutdownStep, CatalogStep, PushStep, WaitStep, DeliveryStep, PluginStep, Rest,
           allVars, waitVars, Wait!vars
  <1>3. Rests /\ [AllNext]_allVars => Rests'
    BY DEF AllNext, LocksStep, ShutdownStep, CatalogStep, PushStep, WaitStep, DeliveryStep, PluginStep, Rest,
           allVars, waitVars
  <1>4. Rests => NeverRun
    OBVIOUS
  <1> QED  BY <1>1, <1>2, <1>3, <1>4, PTL DEF AllSpec, Wait!Spec

LEMMA DeliveryOrIdle ==
    AllSpec => Delivery!Spec \/ [](/\ at = [r \in Runs |-> "render"] /\ named = {} /\ out = Old
                                   /\ inode[Old].written = Chunks)
  <1> DEFINE NeverRun == /\ at = [r \in Runs |-> "render"] /\ named = {} /\ out = Old
                         /\ inode[Old].written = Chunks
             Chosen == part = "delivery"
             Rests == part # "delivery" /\ NeverRun
  <1>1. AllInit => (Chosen /\ Delivery!Init) \/ Rests
    BY DEF AllInit, Delivery!Init
  <1>2. Chosen /\ [AllNext]_allVars => Chosen' /\ [Delivery!Next]_(Delivery!vars)
    BY DEF AllNext, LocksStep, ShutdownStep, CatalogStep, PushStep, WaitStep, DeliveryStep, PluginStep, Rest,
           allVars, deliveryVars, Delivery!vars
  <1>3. Rests /\ [AllNext]_allVars => Rests'
    BY DEF AllNext, LocksStep, ShutdownStep, CatalogStep, PushStep, WaitStep, DeliveryStep, PluginStep, Rest,
           allVars, deliveryVars
  <1>4. Rests => NeverRun
    OBVIOUS
  <1> QED  BY <1>1, <1>2, <1>3, <1>4, PTL DEF AllSpec, Delivery!Spec

LEMMA PluginOrIdle ==
    AllSpec => Plugin!Spec \/ [](/\ cmd = [c \in Commands |-> Plugin!NoCmd]
                                 /\ refresh = [c \in Commands |-> Plugin!NoRefresh])
  <1> DEFINE NeverRun == /\ cmd = [c \in Commands |-> Plugin!NoCmd]
                         /\ refresh = [c \in Commands |-> Plugin!NoRefresh]
             Chosen == part = "plugin"
             Rests == part # "plugin" /\ NeverRun
  <1>1. AllInit => (Chosen /\ Plugin!Init) \/ Rests
    BY DEF AllInit, Plugin!Init
  <1>2. Chosen /\ [AllNext]_allVars => Chosen' /\ [Plugin!Next]_(Plugin!vars)
    BY DEF AllNext, LocksStep, ShutdownStep, CatalogStep, PushStep, WaitStep, DeliveryStep, PluginStep, Rest,
           allVars, pluginVars, Plugin!vars
  <1>3. Rests /\ [AllNext]_allVars => Rests'
    BY DEF AllNext, LocksStep, ShutdownStep, CatalogStep, PushStep, WaitStep, DeliveryStep, PluginStep, Rest,
           allVars, pluginVars
  <1>4. Rests => NeverRun
    OBVIOUS
  <1> QED  BY <1>1, <1>2, <1>3, <1>4, PTL DEF AllSpec, Plugin!Spec

\* In Components, too, the exit status tells the request's outcome, each
\* decision is told once, and only a granted read is repeated (outcomeError,
\* reportChanges, runRead).
THEOREM OutcomesStayTold == AllSpec => []OutcomesAreTold
  <1>1. proc = Wait!NoRun => OutcomesAreTold
    BY DEF OutcomesAreTold, Wait!ExitStatusIsTrue, Wait!NewsIsToldOnce, Wait!ReadsAgainWhenGranted, Wait!At, Wait!NoRun
  <1>2. Wait!Spec => []Wait!ExitStatusIsTrue /\ [](Wait!NewsIsToldOnce /\ Wait!ReadsAgainWhenGranted)
    BY ExitStatusHolds, NewsAndReadsHold, ComponentsAssumption
  <1>3. Wait!ExitStatusIsTrue /\ Wait!NewsIsToldOnce /\ Wait!ReadsAgainWhenGranted => OutcomesAreTold
    BY DEF OutcomesAreTold
  <1> QED  BY <1>1, <1>2, <1>3, WaitOrIdle, PTL

\* In Components, too, what bao-cred knows never goes back, and its pauses grow
\* (waitForGrantRequest).
THEOREM WaitsGoOn == AllSpec => WaitsAdvance
  <1> DEFINE Advances == \A k \in Items : proc'.id = proc.id /\ proc.exit = -1 /\ proc.id # None =>
                             Wait!Rank(proc.known[k]) <= Wait!Rank(proc'.known[k])
             Grows == proc.pc # "backoff" /\ proc'.pc = "backoff" /\ ~proc.heard /\ proc.slept > 0 =>
                         proc'.slept >= 2 * proc.slept \/ proc'.slept = maxRetryDelay
  <1>1. proc = Wait!NoRun => [Advances]_proc /\ [Grows]_proc
    BY DEF Wait!NoRun
  <1>2. Wait!Spec => [][Advances]_proc /\ [][Grows]_proc
    BY SnapshotsNeverGoBack, BackoffDoubles, ComponentsAssumption DEF Wait!SnapshotsAdvance, Wait!BackoffGrows
  <1>3. WaitsAdvance <=> [][Advances]_proc /\ [][Grows]_proc
    BY DEF WaitsAdvance, Wait!SnapshotsAdvance, Wait!BackoffGrows
  <1> HIDE DEF Advances, Grows
  <1> QED  BY <1>1, <1>2, <1>3, WaitOrIdle, PTL

\* In Components, too, the output is whole, the exit status tells whether it
\* arrived, and only a run that was killed leaves its file (writeFile, execute).
THEOREM DeliveriesStayWhole == AllSpec => []DeliveriesAreWhole
  <1> DEFINE NeverRun == /\ at = [r \in Runs |-> "render"] /\ named = {} /\ out = Old
                         /\ inode[Old].written = Chunks
  <1>1. NeverRun => DeliveriesAreWhole
    BY DEF DeliveriesAreWhole, Delivery!OutputIsWhole, Delivery!StatusTellsDelivery, Delivery!NothingLeftBehind
  <1>2. Delivery!Spec => []Delivery!OutputIsWhole /\ []Delivery!StatusTellsDelivery /\ []Delivery!NothingLeftBehind
    BY OutputIsAlwaysWhole, StatusesAreTrue, LeftoversAreExplained, ComponentsAssumption
  <1>3. Delivery!OutputIsWhole /\ Delivery!StatusTellsDelivery /\ Delivery!NothingLeftBehind => DeliveriesAreWhole
    BY DEF DeliveriesAreWhole
  <1>4. AllSpec => Delivery!Spec \/ []NeverRun
    BY DeliveryOrIdle
  <1> QED  BY <1>1, <1>2, <1>3, <1>4, PTL

\* In Components, too, commands get their own session's token, which one of
\* them refreshes at a time (setupOpenBao, get).
THEOREM RootsKeepOneToken == AllSpec => []RootsShareOneToken
  <1> DEFINE NeverRun == /\ cmd = [c \in Commands |-> Plugin!NoCmd]
                         /\ refresh = [c \in Commands |-> Plugin!NoRefresh]
  <1>1. NeverRun => RootsShareOneToken
    BY DEF RootsShareOneToken, Plugin!CommandsGetTheirOwnToken, Plugin!OneRefreshAtATime, Plugin!NoCmd, Plugin!NoRefresh
  <1>2. Plugin!Spec => []Plugin!CommandsGetTheirOwnToken /\ []Plugin!OneRefreshAtATime
    BY TokensStayAtHome, RefreshesAreShared, ComponentsAssumption
  <1>3. Plugin!CommandsGetTheirOwnToken /\ Plugin!OneRefreshAtATime => RootsShareOneToken
    BY DEF RootsShareOneToken
  <1>4. AllSpec => Plugin!Spec \/ []NeverRun
    BY PluginOrIdle
  <1> QED  BY <1>1, <1>2, <1>3, <1>4, PTL

\* In Components, too, no command starts with a revoked token
\* (defineSessionEnv).
THEOREM NoneStartsRevoked == AllSpec => RevokedTokensStayHome
  <1> DEFINE StartsLive == \A c \in Commands :
                cmd[c].pc = "ready" /\ cmd'[c].pc = "ran" /\ cmd'[c].env # 0 => bao[cmd'[c].env].live
             NeverRun == /\ cmd = [c \in Commands |-> Plugin!NoCmd]
                         /\ refresh = [c \in Commands |-> Plugin!NoRefresh]
  <1>1. NeverRun => [StartsLive]_(Plugin!vars)
    BY DEF Plugin!NoCmd
  <1>2. Plugin!Spec => [][StartsLive]_(Plugin!vars)
    BY NoCommandStartsRevoked, ComponentsAssumption DEF Plugin!RevokedTokensStayHome
  <1>3. RevokedTokensStayHome <=> [][StartsLive]_(Plugin!vars)
    BY DEF RevokedTokensStayHome, Plugin!RevokedTokensStayHome
  <1>4. AllSpec => Plugin!Spec \/ []NeverRun
    BY PluginOrIdle
  <1> HIDE DEF StartsLive, NeverRun
  <1> QED  BY <1>1, <1>2, <1>3, <1>4, PTL

\* The inductive invariant of each component, for the one that is chosen.
AllTyped ==
    /\ part \in Parts
    /\ part = "locks" => LockInv
    /\ part = "shutdown" => ServerInv
    /\ part = "catalog" => CatalogInv
    /\ part = "push" => PushTypes
    /\ part = "wait" => WaitTypes
    /\ part = "delivery" => DeliverInv
    /\ part = "plugin" => PluginTyped

\* Whichever component runs, its invariant holds at first.
LEMMA AllTypedInit == AllInit => AllTyped
  <1> SUFFICES ASSUME AllInit PROVE AllTyped
    OBVIOUS
  <1>1. LockInv
    BY InitLockInv DEF AllInit
  <1>2. ServerInv /\ CatalogInv /\ PushTypes
    BY ComponentsAssumption, ServerInvInit, CatalogInvInit, PushTypesInit DEF AllInit
  <1>3. WaitTypes /\ DeliverInv /\ PluginTyped
    BY ComponentsAssumption, WaitTypesInit, DeliverInvInit, PluginTypedInit DEF AllInit
  <1>4. QED
    BY <1>1, <1>2, <1>3 DEF AllTyped, AllInit

\* Its steps keep it.
LEMMA AllTypedStep == AllTyped /\ [AllNext]_allVars => AllTyped'
  <1> SUFFICES ASSUME AllTyped, [AllNext]_allVars PROVE AllTyped'
    OBVIOUS
  <1>1. part' = part
    BY DEF AllNext, LocksStep, ShutdownStep, CatalogStep, PushStep, WaitStep, DeliveryStep, PluginStep, Rest, allVars
  <1>2. ASSUME part = "locks" PROVE LockInv'
    <2>1. [Next]_vars
      BY <1>2 DEF AllNext, LocksStep, ShutdownStep, CatalogStep, PushStep, WaitStep, DeliveryStep, PluginStep, Rest, allVars
    <2>2. QED
      BY <1>2, <2>1, LockInvInductive DEF AllTyped
  <1>3. ASSUME part = "shutdown" PROVE ServerInv'
    <2>1. [Shutdown!Next]_(Shutdown!vars)
      BY <1>3 DEF AllNext, LocksStep, ShutdownStep, CatalogStep, PushStep, WaitStep, DeliveryStep, PluginStep, Rest, allVars,
                  shutdownVars, Shutdown!vars
    <2>2. QED
      BY <1>3, <2>1, ComponentsAssumption, ServerInvStep DEF AllTyped
  <1>4. ASSUME part = "catalog" PROVE CatalogInv'
    <2>1. [Catalog!Next]_(Catalog!vars)
      BY <1>4 DEF AllNext, LocksStep, ShutdownStep, CatalogStep, PushStep, WaitStep, DeliveryStep, PluginStep, Rest, allVars,
                  catalogVars, Catalog!vars
    <2>2. QED
      BY <1>4, <2>1, ComponentsAssumption, CatalogInvStep DEF AllTyped
  <1>5. ASSUME part = "push" PROVE PushTypes'
    <2>1. [Push!Next]_(Push!vars)
      BY <1>5 DEF AllNext, LocksStep, ShutdownStep, CatalogStep, PushStep, WaitStep, DeliveryStep, PluginStep, Rest, allVars,
                  pushVars, Push!vars
    <2>2. QED
      BY <1>5, <2>1, ComponentsAssumption, PushTypesStep DEF AllTyped
  <1>6. ASSUME part = "wait" PROVE WaitTypes'
    <2>1. [Wait!Next]_(Wait!vars)
      BY <1>6 DEF AllNext, LocksStep, ShutdownStep, CatalogStep, PushStep, WaitStep, DeliveryStep, PluginStep, Rest, allVars,
                  waitVars, Wait!vars
    <2>2. QED
      BY <1>6, <2>1, ComponentsAssumption, WaitTypesStep DEF AllTyped
  <1>7. ASSUME part = "delivery" PROVE DeliverInv'
    <2>1. [Delivery!Next]_(Delivery!vars)
      BY <1>7 DEF AllNext, LocksStep, ShutdownStep, CatalogStep, PushStep, WaitStep, DeliveryStep, PluginStep, Rest, allVars,
                  deliveryVars, Delivery!vars
    <2>2. QED
      BY <1>7, <2>1, ComponentsAssumption, DeliverInvStep DEF AllTyped
  <1>8. ASSUME part = "plugin" PROVE PluginTyped'
    <2>1. [Plugin!Next]_(Plugin!vars)
      BY <1>8 DEF AllNext, LocksStep, ShutdownStep, CatalogStep, PushStep, WaitStep, DeliveryStep, PluginStep, Rest, allVars,
                  pluginVars, Plugin!vars
    <2>2. QED
      BY <1>8, <2>1, ComponentsAssumption, PluginTypedStep DEF AllTyped
  <1>9. QED
    BY <1>1, <1>2, <1>3, <1>4, <1>5, <1>6, <1>7, <1>8 DEF AllTyped

\* Whichever component runs, its variables keep their types: the locks, the end
\* of the process, the discovery cache, the fan-outs, bao-cred's wait and
\* delivery, and the plugin's tokens.
THEOREM TypesStay == AllSpec => []TypesOK
  <1>1. AllTyped => TypesOK
    <2> SUFFICES ASSUME AllTyped PROVE TypesOK
      OBVIOUS
    <2>1. part = "locks" => TypeOK
      BY DEF AllTyped, LockInv
    <2>2. part = "shutdown" => Shutdown!TypeOK
      BY DEF AllTyped, ServerInv
    <2>3. part = "catalog" => Catalog!TypeOK
      BY DEF AllTyped, CatalogInv
    <2>4. part = "push" => Push!TypeOK
      BY DEF AllTyped, PushTypes
    <2>5. part = "wait" => Wait!TypeOK
      BY WaitTypesImply DEF AllTyped
    <2>6. part = "delivery" => Delivery!TypeOK
      BY DEF AllTyped, DeliverInv
    <2>7. part = "plugin" => Plugin!TypeOK
      BY ComponentsAssumption, PluginTypedImplies DEF AllTyped
    <2> HIDE DEF TypesOK
    <2>8. QED
      BY <2>1, <2>2, <2>3, <2>4, <2>5, <2>6, <2>7 DEF TypesOK
  <1>2. QED
    BY <1>1, AllTypedInit, AllTypedStep, PTL DEF AllSpec
=============================================================================
