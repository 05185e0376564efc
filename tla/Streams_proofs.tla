--------------------------- MODULE Streams_proofs ----------------------------
(***************************************************************************)
(* StreamsInv is inductive: whoever waits for a change has seen it or will *)
(* be woken, snapshots are whole, and expiries are announced once.         *)
(***************************************************************************)
EXTENDS Streams, FiniteSetTheorems, TLAPS

-----------------------------------------------------------------------------
(* Types.                                                                   *)

LEMMA ItemPair == \A i \in Items : i[1] \in Requests /\ i[2] \in Slots /\ i = <<i[1], i[2]>>
  BY DEF Items

\* What is counted is finite.
LEMMA Counted ==
    ASSUME NEW S, S \in SUBSET Requests \/ S \in SUBSET Slots \/ S \in SUBSET Items
    PROVE  Cardinality(S) \in Nat /\ (S # {} => Cardinality(S) > 0)
  <1>1. IsFiniteSet(Items)
    BY SlotsFinite, FS_Product DEF Items
  <1>2. IsFiniteSet(S)
    BY <1>1, SlotsFinite, FS_Subset
  <1>3. QED
    BY <1>2, FS_CardinalityType, FS_EmptySet

LEMMA NoItemsType == NoItems \in [Slots -> ItemStates]
  BY DEF NoItems, ItemStates

LEMMA ListTypes ==
    ASSUME NEW R \in SUBSET Requests, NEW list \in [R -> [Slots -> ItemStates]]
    PROVE  list \in Lists
  BY DEF Lists

LEMMA NoViewType == NoView \in Views
  <1>1. NoView.pending \in [{} -> [Slots -> ItemStates]] /\ NoView.decided \in [{} -> [Slots -> ItemStates]]
    BY DEF NoView
  <1>2. NoView.pending \in Lists /\ NoView.decided \in Lists
    BY <1>1, ListTypes
  <1>3. QED
    BY <1>2 DEF NoView, Views

LEMMA QueryTypes ==
    ASSUME TypeOK
    PROVE  /\ PendingRequests \in Lists /\ DecidedLists \subseteq Lists
           /\ ActiveGrants \in SUBSET Items
  <1>1. PendingRequests \in [{r \in Requests : Filed(r) /\ HasPending(r)} -> [Slots -> ItemStates]]
    BY DEF TypeOK, PendingRequests
  <1>2. ASSUME NEW S \in NewestDecided
        PROVE  [r \in S |-> items[r]] \in Lists
    <2>1. S \in SUBSET Requests
      BY DEF NewestDecided, Decided
    <2>2. [r \in S |-> items[r]] \in [S -> [Slots -> ItemStates]]
      BY <2>1 DEF TypeOK
    <2>3. QED
      BY <2>1, <2>2, ListTypes
  <1>3. DecidedLists \subseteq Lists
    BY <1>2 DEF DecidedLists
  <1>4. QED
    BY <1>1, <1>3, ListTypes DEF ActiveGrants

\* The history shows decided requests as they are, and leaves out only those
\* that are too old for it.
LEMMA HistoryIs ==
    ASSUME NEW list \in DecidedLists
    PROVE  /\ DOMAIN list \subseteq Decided
           /\ \A r \in DOMAIN list : list[r] = items[r]
           /\ \A r \in Decided \ DOMAIN list :
                 /\ Cardinality(DOMAIN list) = DecidedLimit
                 /\ \A q \in DOMAIN list : Created(q) >= Created(r)
  <1>1. PICK S \in NewestDecided : list = [r \in S |-> items[r]]
    BY DEF DecidedLists
  <1>2. DOMAIN list = S /\ \A r \in S : list[r] = items[r]
    BY <1>1
  <1>3. QED
    BY <1>2 DEF NewestDecided

LEMMA OffTypes == NoClient \in ClientType /\ NoDash \in DashType /\ NoPoll \in PollType
  BY NoItemsType, NoViewType, SlotsFinite DEF NoClient, NoDash, NoPoll, ClientType, DashType, PollType

LEMMA TypeInit == Init => TypeOK
  <1> SUFFICES ASSUME Init
               PROVE  TypeOK
    OBVIOUS
  <1>1. /\ client \in [Clients -> ClientType] /\ dash \in [Dashboards -> DashType]
        /\ poll \in [Polls -> PollType]
    BY OffTypes DEF Init
  <1>2. items \in [Requests -> [Slots -> ItemStates]] /\ grants \in [Items -> [exp : Nat, live : BOOLEAN]]
    BY NoItemsType DEF Init, NoGrant
  <1>3. sweep \in SweepType
    BY DEF Init, SweepType
  <1>4. QED
    BY <1>1, <1>2, <1>3, TimesAssumption DEF Init, TypeOK

-----------------------------------------------------------------------------
(* What the steps do to the store.                                          *)

ItemMoves(r, k) ==
    \/ items'[r][k] = items[r][k]
    \/ items[r][k] = "pending" /\ items'[r][k] \in {"approved", "rejected", "expired"}
    \/ items[r][k] = "approved" /\ items'[r][k] = "revoked"

RequestMoves(r) ==
    \/ ~Filed(r) /\ \A k \in Slots : items'[r][k] \in {"pending", "refused"}
    \/ \A k \in Slots : ItemMoves(r, k)

GrantMoves(i) ==
    \/ grants'[i] = grants[i] /\ (items'[i[1]][i[2]] = "approved" => State(i) = "approved")
    \/ /\ State(i) = "pending" /\ items'[i[1]][i[2]] = "approved"
       /\ grants'[i].live => grants'[i].exp > now

StoreMoves ==
    /\ items' \in [Requests -> [Slots -> ItemStates]]
    /\ grants' \in [Items -> [exp : Nat, live : BOOLEAN]]
    /\ \A r \in Requests : RequestMoves(r)
    /\ \A i \in Items : GrantMoves(i)

LEMMA StoreStays ==
    ASSUME TypeOK, UNCHANGED <<items, grants>>
    PROVE  StoreMoves
  <1>1. \A i \in Items : GrantMoves(i)
    BY DEF GrantMoves, State
  <1>2. QED
    BY <1>1 DEF TypeOK, StoreMoves, RequestMoves, ItemMoves

LEMMA FileMoves ==
    ASSUME TypeOK, NEW r \in Requests, ~Filed(r), UNCHANGED grants,
           NEW filed \in [Slots -> {"pending", "refused"}], items' = [items EXCEPT ![r] = filed]
    PROVE  StoreMoves
  <1>1. items \in [Requests -> [Slots -> ItemStates]] /\ filed \in [Slots -> ItemStates]
    BY DEF TypeOK, ItemStates
  <1>2. \A q \in Requests : RequestMoves(q)
    BY <1>1 DEF RequestMoves, ItemMoves
  <1>3. \A i \in Items : GrantMoves(i)
    BY <1>1, ItemPair DEF GrantMoves, State
  <1>4. QED
    BY <1>1, <1>2, <1>3 DEF StoreMoves, TypeOK

LEMMA DecideMoves ==
    ASSUME TypeOK, NEW r \in Requests, NEW w \in Writers, Decide(w, r)
    PROVE  /\ StoreMoves
           /\ \E left \in Nat \ {0} : Commit(w, left)
  <1>0. PICK batch \in SUBSET {k \in Slots : items[r][k] = "pending"} \ {{}} :
          \E verdict \in [batch -> {"approved", "rejected"}], began \in {t \in 0..now : now - t <= MaxLag} :
             LET approved == {k \in batch : verdict[k] = "approved"} IN
             /\ items' = [items EXCEPT ![r] =
                   [k \in Slots |-> IF k \in batch THEN verdict[k] ELSE @[k]]]
             /\ grants' = [i \in Items |->
                   IF i[1] = r /\ i[2] \in approved
                   THEN [exp |-> began + GrantTTL, live |-> began + GrantTTL > now]
                   ELSE grants[i]]
             /\ Commit(w, 1 + Cardinality(approved))
    BY DEF Decide
  <1>1. PICK verdict \in [batch -> {"approved", "rejected"}], began \in {t \in 0..now : now - t <= MaxLag} :
          LET approved == {k \in batch : verdict[k] = "approved"} IN
          /\ items' = [items EXCEPT ![r] =
                [k \in Slots |-> IF k \in batch THEN verdict[k] ELSE @[k]]]
          /\ grants' = [i \in Items |->
                IF i[1] = r /\ i[2] \in approved
                THEN [exp |-> began + GrantTTL, live |-> began + GrantTTL > now]
                ELSE grants[i]]
          /\ Commit(w, 1 + Cardinality(approved))
    BY <1>0
  <1> DEFINE approved == {k \in batch : verdict[k] = "approved"}
             decided == [k \in Slots |-> IF k \in batch THEN verdict[k] ELSE items[r][k]]
  <1>2. /\ items \in [Requests -> [Slots -> ItemStates]]
        /\ grants \in [Items -> [exp : Nat, live : BOOLEAN]]
        /\ now \in Nat /\ began \in Nat /\ GrantTTL \in Nat
    BY TimesAssumption DEF TypeOK
  <1>3. decided \in [Slots -> ItemStates]
    BY <1>2 DEF ItemStates
  <1>4. items' = [items EXCEPT ![r] = decided]
    BY <1>1, <1>2
  <1>5. /\ \A k \in batch : items[r][k] = "pending" /\ decided[k] = verdict[k]
        /\ \A k \in Slots \ batch : decided[k] = items[r][k]
    OBVIOUS
  <1> HIDE DEF decided
  <1>6. \A q \in Requests : RequestMoves(q)
    <2> SUFFICES ASSUME NEW q \in Requests, NEW k \in Slots
                 PROVE  ItemMoves(q, k)
      BY DEF RequestMoves
    <2>1. CASE q = r /\ k \in batch
      BY <1>2, <1>4, <1>5, <2>1 DEF ItemMoves
    <2>2. CASE q # r \/ k \notin batch
      BY <1>2, <1>4, <1>5, <2>2 DEF ItemMoves
    <2>3. QED
      BY <2>1, <2>2
  <1>7. \A i \in Items : GrantMoves(i)
    <2> SUFFICES ASSUME NEW i \in Items
                 PROVE  GrantMoves(i)
      OBVIOUS
    <2>1. CASE i[1] = r /\ i[2] \in approved
      <3>1. State(i) = "pending" /\ items'[i[1]][i[2]] = "approved"
        BY <1>2, <1>4, <1>5, <2>1, ItemPair DEF State
      <3>2. grants'[i] = [exp |-> began + GrantTTL, live |-> began + GrantTTL > now]
        BY <1>1, <2>1
      <3>3. grants'[i].exp = began + GrantTTL /\ grants'[i].live = (began + GrantTTL > now)
        BY <3>2
      <3>4. grants'[i].live => began + GrantTTL > now
        BY <3>3, Zenon
      <3>5. grants'[i].live => grants'[i].exp > now
        BY <3>3, <3>4
      <3>6. QED
        BY <3>1, <3>5, Zenon DEF GrantMoves
    <2>2. CASE ~(i[1] = r /\ i[2] \in approved)
      <3>1. grants'[i] = grants[i]
        BY <1>1, <2>2
      <3>2. items'[i[1]][i[2]] = "approved" => State(i) = "approved"
        <4>1. CASE i[1] = r /\ i[2] \in batch
          BY <1>2, <1>4, <1>5, <2>2, <4>1, ItemPair
        <4>2. CASE i[1] # r \/ i[2] \notin batch
          BY <1>2, <1>4, <1>5, <4>2, ItemPair DEF State
        <4>3. QED
          BY <4>1, <4>2
      <3>3. QED
        BY <3>1, <3>2 DEF GrantMoves
    <2>3. QED
      BY <2>1, <2>2
  <1>8. grants' \in [Items -> [exp : Nat, live : BOOLEAN]]
    BY <1>1, <1>2
  <1>9. 1 + Cardinality(approved) \in Nat \ {0}
    BY Counted
  <1>10. QED
    BY <1>1, <1>2, <1>3, <1>4, <1>6, <1>7, <1>8, <1>9 DEF StoreMoves

LEMMA RevokeMoves ==
    ASSUME TypeOK, NEW i \in Items, State(i) = "approved", UNCHANGED grants,
           items' = [items EXCEPT ![i[1]][i[2]] = "revoked"]
    PROVE  StoreMoves
  <1>1. items \in [Requests -> [Slots -> ItemStates]] /\ i[1] \in Requests /\ i[2] \in Slots
    BY ItemPair DEF TypeOK
  <1> DEFINE revoked == [items[i[1]] EXCEPT ![i[2]] = "revoked"]
  <1>2. items' = [items EXCEPT ![i[1]] = revoked]
    BY <1>1
  <1>3. /\ revoked \in [Slots -> ItemStates] /\ revoked[i[2]] = "revoked"
        /\ \A k \in Slots \ {i[2]} : revoked[k] = items[i[1]][k]
    BY <1>1 DEF ItemStates
  <1> HIDE DEF revoked
  <1>4. \A r \in Requests : RequestMoves(r)
    BY <1>1, <1>2, <1>3 DEF RequestMoves, ItemMoves, State
  <1>5. \A j \in Items : GrantMoves(j)
    BY <1>1, <1>2, <1>3, ItemPair DEF GrantMoves, State
  <1>6. QED
    BY <1>1, <1>2, <1>3, <1>4, <1>5 DEF StoreMoves, TypeOK

\* A transaction of a call leaves a change to be announced.
LEMMA WriteEffect ==
    ASSUME TypeOK, NEW w \in Writers, Writes(w)
    PROVE  /\ StoreMoves /\ until' \in [Requests -> Nat]
           /\ \A r \in Requests : Filed(r) => until'[r] = until[r]
           /\ writer[w].pc = "idle"
           /\ \E left \in Nat \ {0} : Commit(w, left)
           /\ UNCHANGED <<now, sweep, announced, wakeup, poll, client, dash, faults>>
  <1>0. now \in Nat /\ PendingTTL \in Nat /\ until \in [Requests -> Nat]
    BY TimesAssumption DEF TypeOK
  <1>1. ASSUME NEW r \in Requests, FileRequest(w, r)
        PROVE  /\ StoreMoves /\ until' \in [Requests -> Nat] /\ Commit(w, 1)
               /\ \A q \in Requests : Filed(q) => until'[q] = until[q]
    <2>1. PICK filed \in [Slots -> {"pending", "refused"}] : items' = [items EXCEPT ![r] = filed]
      BY <1>1 DEF FileRequest
    <2>2. ~Filed(r) /\ UNCHANGED grants /\ Commit(w, 1)
          /\ until' = [until EXCEPT ![r] = now + PendingTTL]
      BY <1>1 DEF FileRequest
    <2>3. StoreMoves
      BY <2>1, <2>2, FileMoves
    <2>4. QED
      BY <1>0, <2>2, <2>3
  <1>2. ASSUME NEW r \in Requests, Decide(w, r)
        PROVE  StoreMoves /\ until' = until /\ \E left \in Nat \ {0} : Commit(w, left)
    BY <1>2, DecideMoves DEF Decide
  <1>3. ASSUME NEW i \in Items, Revoke(w, i)
        PROVE  StoreMoves /\ until' = until /\ Commit(w, 1)
    BY <1>3, RevokeMoves DEF Revoke
  <1>4. writer[w].pc = "idle" /\ UNCHANGED <<now, sweep, announced, wakeup, poll, client, dash, faults>>
    BY DEF Writes, FileRequest, Decide, Revoke, WriteKept, StreamsKept, NoFault
  <1>5. QED
    BY <1>0, <1>1, <1>2, <1>3, <1>4 DEF Writes

\* The sweep's transaction does too, or changes nothing.
LEMMA SweepEffect ==
    ASSUME TypeOK, ExpirePending
    PROVE  /\ StoreMoves
           /\ sweep' \in SweepType
           /\ \/ sweep'.pc = "signal" /\ sweep'.left > 0
              \/ sweep'.pc = "announce" /\ items' = items
           /\ sweep'.at = sweep.at /\ sweep'.first = sweep.first /\ sweep'.now = sweep.now
           /\ sweep.pc = "expire"
           /\ UNCHANGED <<now, until, grants, writer, announced, wakeup, client, dash, poll, faults>>
  <1> DEFINE swept == [r \in Requests |-> [k \in Slots |->
                 IF r \in Overdue /\ items[r][k] = "pending" THEN "expired" ELSE items[r][k]]]
  <1>0. /\ items' = swept /\ sweep.pc = "expire"
        /\ sweep' = [sweep EXCEPT !.pc = IF Overdue = {} THEN "announce" ELSE "signal",
                                  !.left = Cardinality(Overdue)]
        /\ UNCHANGED <<now, until, grants, writer, announced, wakeup, client, dash, poll, faults>>
    BY DEF ExpirePending, SweepKept, StreamsKept, NoFault
  <1>1. items \in [Requests -> [Slots -> ItemStates]] /\ sweep \in SweepType
    BY DEF TypeOK
  <1>2. swept \in [Requests -> [Slots -> ItemStates]]
    BY <1>1 DEF ItemStates
  <1>3. \A r \in Requests : RequestMoves(r)
    BY <1>0, <1>1 DEF RequestMoves, ItemMoves
  <1>4. StoreMoves
    <2>1. \A i \in Items : GrantMoves(i)
      BY <1>0, <1>1, ItemPair DEF GrantMoves, State
    <2>2. QED
      BY <1>0, <1>2, <1>3, <2>1 DEF StoreMoves, TypeOK
  <1>5. Overdue \in SUBSET Requests
    BY DEF Overdue
  <1>6. Cardinality(Overdue) \in Nat /\ (Overdue # {} => Cardinality(Overdue) > 0)
    BY <1>5, Counted
  <1>7. Overdue = {} => items' = items
    BY <1>0, <1>1
  <1>8. QED
    BY <1>0, <1>1, <1>4, <1>6, <1>7 DEF SweepType

-----------------------------------------------------------------------------
(* Types, once more: the steps.                                             *)

LEMMA PublishType == TypeOK /\ Publish => wakeup' \in [Clients \cup Dashboards -> BOOLEAN]
  <1> SUFFICES ASSUME TypeOK, Publish
               PROVE  wakeup' \in [Clients \cup Dashboards -> BOOLEAN]
    OBVIOUS
  <1>1. \A s \in Clients \cup Dashboards : Subscribed(s) \/ wakeup[s] \in BOOLEAN
    BY DEF TypeOK
  <1>2. \A s \in Clients \cup Dashboards : (Subscribed(s) \/ wakeup[s]) \in BOOLEAN
    BY Zenon
  <1>3. QED
    BY <1>2 DEF Publish

LEMMA SignalType == TypeOK /\ Signal => poll' \in [Polls -> PollType]
  <1> SUFFICES ASSUME TypeOK, Signal, NEW p \in Polls
               PROVE  poll'[p] \in PollType
    BY DEF Signal
  <1> DEFINE signalled == poll[p].pc # "off"
  <1>1. signalled \in BOOLEAN
    OBVIOUS
  <1>2. poll'[p] = [poll[p] EXCEPT !.signalled = signalled]
    BY DEF Signal
  <1> HIDE DEF signalled
  <1>3. QED
    BY <1>1, <1>2 DEF TypeOK, PollType

\* What a goroutine that announces leaves of its own state.
LEMMA NotifyEffect ==
    ASSUME TypeOK, PublishesAreDue, NEW w \in Writers, Notifies(w)
    PROVE  /\ writer' \in [Writers -> [pc : {"idle", "signal", "publish", "more"}, left : Nat]]
           /\ \A v \in Writers \ {w} : writer'[v] = writer[v]
           /\ writer'[w].pc # "idle" => writer'[w].left > 0
           /\ \/ Signal /\ UNCHANGED wakeup /\ writer'[w].pc = "publish" /\ writer[w].pc = "signal"
              \/ Publish /\ UNCHANGED poll /\ writer[w].pc \in {"publish", "more"}
           /\ UNCHANGED <<now, items, until, grants, sweep, announced, client, dash, faults>>
  <1>0. writer \in [Writers -> [pc : {"idle", "signal", "publish", "more"}, left : Nat]]
    BY DEF TypeOK
  <1>1. UNCHANGED <<now, items, until, grants, sweep, announced, client, dash, faults>>
    BY DEF Notifies, WriterSignals, WriterPublishes, NotifyKept, StreamsKept, NoFault
  <1>2. CASE WriterSignals(w)
    <2>1. writer' = [writer EXCEPT ![w] = [writer[w] EXCEPT !.pc = "publish"]] /\ writer[w].left > 0
      BY <1>2 DEF WriterSignals, PublishesAreDue
    <2>2. QED
      BY <1>0, <1>1, <1>2, <2>1 DEF WriterSignals
  <1>3. CASE WriterPublishes(w)
    <2>1. writer[w].left \in Nat \ {0}
      BY <1>0, <1>3 DEF WriterPublishes, PublishesAreDue
    <2>2. writer' = [writer EXCEPT ![w] = IF writer[w].left = 1 THEN [pc |-> "idle", left |-> 0]
                                          ELSE [pc |-> "more", left |-> writer[w].left - 1]]
      BY <1>0, <1>3 DEF WriterPublishes
    <2>3. QED
      BY <1>0, <1>1, <1>3, <2>1, <2>2 DEF WriterPublishes
  <1>4. QED
    BY <1>2, <1>3 DEF Notifies

\* The steps of the sweep but for its transaction.
Announces ==
    \/ ExpirePendingFails \/ SweepSignals \/ SweepPublishes \/ AnnounceBegins
    \/ AnnounceQueries \/ AnnounceFails \/ AnnouncePublishes \/ SweepTick

LEMMA SweepMoves ==
    ASSUME sweep \in SweepType, NEW pc, NEW left \in Nat,
           pc \in {"expire", "signal", "publish", "more", "announce", "query", "tell", "sleep"},
           sweep' = [sweep EXCEPT !.pc = pc, !.left = left]
    PROVE  sweep' \in SweepType /\ sweep'.pc = pc /\ sweep'.left = left
  BY DEF SweepType

LEMMA AnnounceEffect ==
    ASSUME TypeOK, PublishesAreDue, Announces
    PROVE  /\ sweep' \in SweepType
           /\ sweep'.pc \in {"signal", "publish", "more", "tell"} => sweep'.left > 0
           /\ \/ SweepSignals /\ Signal /\ UNCHANGED wakeup /\ sweep'.pc = "publish"
              \/ SweepPublishes /\ Publish /\ UNCHANGED poll /\ sweep'.pc \in {"announce", "more"}
              \/ AnnouncePublishes /\ Publish /\ UNCHANGED poll /\ sweep'.pc \in {"sleep", "tell"}
              \/ /\ sweep.pc \notin {"signal", "publish", "more", "tell"} /\ UNCHANGED <<wakeup, poll>>
                 /\ sweep'.pc \notin {"signal", "publish", "more"}
           /\ announced' \in [Items -> Nat]
           /\ UNCHANGED <<now, items, until, grants, writer, client, dash>>
           /\ faults' \in 0..MaxFaults
  <1>0. /\ sweep \in SweepType /\ now \in Nat /\ announced \in [Items -> Nat]
        /\ faults \in 0..MaxFaults /\ MaxFaults \in Nat
    BY TimesAssumption DEF TypeOK
  <1>1. UNCHANGED <<now, items, until, grants, writer, client, dash>> /\ faults' \in 0..MaxFaults
    BY <1>0 DEF Announces, ExpirePendingFails, SweepSignals, SweepPublishes, AnnounceBegins,
           AnnounceQueries, AnnounceFails, AnnouncePublishes, SweepTick, SweepKept, StreamsKept,
           NoFault, Fault
  <1>2. CASE AnnounceQueries
    <2> DEFINE expired == ExpiredGrants(sweep.at, sweep.now)
               pc == IF expired = {} THEN "sleep" ELSE "tell"
               left == Cardinality(expired)
    <2>1. expired \in SUBSET Items
      BY DEF ExpiredGrants
    <2>2. left \in Nat /\ pc \in {"sleep", "tell"} /\ (pc = "tell" => left > 0)
      BY <2>1, Counted
    <2>3. announced' \in [Items -> Nat] /\ sweep.pc = "query" /\ UNCHANGED <<wakeup, poll>>
      BY <1>0, <1>2 DEF AnnounceQueries
    <2>4. sweep' = [sweep EXCEPT !.at = sweep.now, !.now = 0, !.left = left, !.pc = pc]
      BY <1>2 DEF AnnounceQueries
    <2> HIDE DEF pc, left, expired
    <2>5. sweep' \in SweepType /\ sweep'.pc = pc /\ sweep'.left = left
      BY <1>0, <2>2, <2>4 DEF SweepType
    <2>6. QED
      BY <1>0, <1>1, <2>2, <2>3, <2>5
  <1>3. CASE SweepPublishes
    <2> DEFINE pc == IF sweep.left = 1 THEN "announce" ELSE "more"
               left == sweep.left - 1
    <2>1. sweep.left \in Nat \ {0}
      BY <1>0, <1>3 DEF SweepPublishes, PublishesAreDue, SweepType
    <2>2. left \in Nat /\ pc \in {"announce", "more"} /\ (pc = "more" => left > 0)
      BY <2>1
    <2>3. sweep' = [sweep EXCEPT !.pc = pc, !.left = left]
      BY <1>3 DEF SweepPublishes
    <2> HIDE DEF pc, left
    <2>4. sweep' \in SweepType /\ sweep'.pc = pc /\ sweep'.left = left
      BY <1>0, <2>2, <2>3, SweepMoves
    <2>5. Publish /\ UNCHANGED poll /\ announced' = announced
      BY <1>3 DEF SweepPublishes
    <2>6. QED
      BY <1>0, <1>1, <1>3, <2>2, <2>4, <2>5
  <1>4. CASE AnnouncePublishes
    <2> DEFINE pc == IF sweep.left = 1 THEN "sleep" ELSE "tell"
               left == sweep.left - 1
    <2>1. sweep.left \in Nat \ {0}
      BY <1>0, <1>4 DEF AnnouncePublishes, PublishesAreDue, SweepType
    <2>2. left \in Nat /\ pc \in {"sleep", "tell"} /\ (pc = "tell" => left > 0)
      BY <2>1
    <2>3. sweep' = [sweep EXCEPT !.pc = pc, !.left = left]
      BY <1>4 DEF AnnouncePublishes
    <2> HIDE DEF pc, left
    <2>4. sweep' \in SweepType /\ sweep'.pc = pc /\ sweep'.left = left
      BY <1>0, <2>2, <2>3, SweepMoves
    <2>5. Publish /\ UNCHANGED poll /\ announced' = announced
      BY <1>4 DEF AnnouncePublishes
    <2>6. QED
      BY <1>0, <1>1, <1>4, <2>2, <2>4, <2>5
  <1>5. CASE SweepSignals
    <2>1. sweep.left > 0
      BY <1>5 DEF SweepSignals, PublishesAreDue
    <2>2. sweep' = [sweep EXCEPT !.pc = "publish"]
      BY <1>5 DEF SweepSignals, Sweep
    <2>3. sweep' \in SweepType /\ sweep'.pc = "publish" /\ sweep'.left > 0
      BY <1>0, <2>1, <2>2 DEF SweepType
    <2>4. QED
      BY <1>0, <1>1, <1>5, <2>3 DEF SweepSignals
  <1>6. CASE AnnounceBegins
    BY <1>0, <1>1, <1>6 DEF AnnounceBegins, SweepType
  <1>7. CASE ExpirePendingFails \/ AnnounceFails \/ SweepTick
    <2>1. \/ sweep.pc = "expire" /\ sweep' = [sweep EXCEPT !.pc = "announce"]
          \/ sweep.pc = "query" /\ sweep' = [sweep EXCEPT !.pc = "sleep", !.now = 0]
          \/ sweep.pc = "sleep" /\ sweep' = [sweep EXCEPT !.pc = "expire"]
      BY <1>7 DEF ExpirePendingFails, AnnounceFails, SweepTick, Sweep
    <2>2. ASSUME NEW pc \in {"announce", "sleep", "expire"},
                 sweep' = [sweep EXCEPT !.pc = pc] \/ sweep' = [sweep EXCEPT !.pc = pc, !.now = 0]
          PROVE  sweep' \in SweepType /\ sweep'.pc = pc
      <3>1. CASE sweep' = [sweep EXCEPT !.pc = pc]
        BY <1>0, <3>1 DEF SweepType
      <3>2. CASE sweep' = [sweep EXCEPT !.pc = pc, !.now = 0]
        BY <1>0, <3>2 DEF SweepType
      <3>3. QED
        BY <2>2, <3>1, <3>2
    <2>3. sweep' \in SweepType /\ sweep'.pc \in {"announce", "sleep", "expire"}
      BY <2>1, <2>2
    <2>4. UNCHANGED <<announced, wakeup, poll>>
      BY <1>7 DEF ExpirePendingFails, AnnounceFails, SweepTick
    <2>5. QED
      BY <1>0, <1>1, <2>1, <2>3, <2>4
  <1>8. QED
    BY <1>2, <1>3, <1>4, <1>5, <1>6, <1>7 DEF Announces

-----------------------------------------------------------------------------
(* What a listener's own steps do.                                          *)

OwnClient(s) ==
    (\E r \in Requests : OpenClient(s, r)) \/ ClientStep(s) \/ TokenEnds(s) \/ ClientFails(s)
OwnDash(d) == OpenDash(d) \/ DashStep(d) \/ DashEnds(d)
OwnPoll(p) == (\E r \in Requests : OpenPoll(p, r)) \/ PollStep(p) \/ PollTimesOut(p)

LEMMA Cases ==
    ASSUME [Next]_vars
    PROVE  \/ \E w \in Writers : Writes(w) \/ Notifies(w)
           \/ ExpirePending \/ Announces \/ Tick
           \/ \E s \in Clients : OwnClient(s)
           \/ \E d \in Dashboards : OwnDash(d)
           \/ \E p \in Polls : OwnPoll(p)
           \/ UNCHANGED vars
  BY DEF Next, SweepStep, Announces, OwnClient, OwnDash, OwnPoll

LEMMA FaultType == TypeOK => (Fault => faults' \in 0..MaxFaults) /\ (NoFault => faults' \in 0..MaxFaults)
  BY TimesAssumption DEF TypeOK, Fault, NoFault

LEMMA ClientEffect ==
    ASSUME TypeOK, NEW s \in Clients, OwnClient(s)
    PROVE  /\ client' \in [Clients -> ClientType]
           /\ \A t \in Clients \ {s} : client'[t] = client[t]
           /\ wakeup' \in [Clients \cup Dashboards -> BOOLEAN]
           /\ \A t \in (Clients \cup Dashboards) \ {s} : wakeup'[t] = wakeup[t]
           /\ faults' \in 0..MaxFaults
           /\ UNCHANGED <<now, items, until, grants, writer, sweep, announced, dash, poll>>
           /\ \/ client'[s].pc \in {"off", "read", "done"}
              \/ /\ client[s].pc \in {"send", "wait"} /\ UNCHANGED wakeup
                 /\ client'[s].last = client[s].last /\ client'[s].req = client[s].req
              \/ client'[s].last = items[client'[s].req]
  <1>0. /\ client \in [Clients -> ClientType] /\ items \in [Requests -> [Slots -> ItemStates]]
        /\ wakeup \in [Clients \cup Dashboards -> BOOLEAN] /\ client[s] \in ClientType
        /\ NoClient \in ClientType /\ NoClient.pc = "off"
    BY OffTypes DEF TypeOK, NoClient
  <1>1. /\ UNCHANGED <<now, items, until, grants, writer, sweep, announced, dash, poll>>
        /\ faults' \in 0..MaxFaults
    BY FaultType DEF OwnClient, OpenClient, ClientStep, ClientReads, ClientSends, ClientWakes, ClientEnds,
           Heartbeat, TokenEnds, ClientFails, CloseClient, ClientKept, ReadKept
  <1>2. wakeup' = wakeup \/ wakeup' = [wakeup EXCEPT ![s] = FALSE]
    BY DEF OwnClient, OpenClient, ClientStep, ClientReads, ClientSends, ClientWakes, ClientEnds,
           Heartbeat, TokenEnds, ClientFails, CloseClient
  <1>3. wakeup' \in [Clients \cup Dashboards -> BOOLEAN]
        /\ \A t \in (Clients \cup Dashboards) \ {s} : wakeup'[t] = wakeup[t]
    BY <1>0, <1>2
  <1> SUFFICES \E next \in ClientType :
                  /\ client' = [client EXCEPT ![s] = next]
                  /\ \/ next.pc \in {"off", "read", "done"}
                     \/ /\ client[s].pc \in {"send", "wait"} /\ UNCHANGED wakeup
                        /\ next.last = client[s].last /\ next.req = client[s].req
                     \/ next.last = items[next.req]
    BY <1>0, <1>1, <1>3
  <1>4. ASSUME NEW r \in Requests, OpenClient(s, r)
        PROVE  \E next \in ClientType :
                  client' = [client EXCEPT ![s] = next] /\ next.pc \in {"off", "read", "done"}
    <2> DEFINE next == [NoClient EXCEPT !.pc = "read", !.req = r]
    <2>1. next \in ClientType /\ next.pc = "read"
      BY <1>0 DEF ClientType
    <2>2. client' = [client EXCEPT ![s] = next]
      BY <1>4 DEF OpenClient, Client
    <2>3. QED
      BY <2>1, <2>2
  <1>5. CASE ClientReads(s)
    <2> DEFINE next == [client[s] EXCEPT !.pc = "send", !.last = items[client[s].req]]
    <2>1. next \in ClientType /\ next.last = items[next.req]
      BY <1>0 DEF ClientType
    <2>2. client' = [client EXCEPT ![s] = next]
      BY <1>5 DEF ClientReads, Client
    <2>3. QED
      BY <2>1, <2>2
  <1>6. CASE ClientSends(s)
    <2> DEFINE pc == IF \E k \in Slots : client[s].last[k] = "pending" THEN "wait" ELSE "done"
               next == [client[s] EXCEPT !.pc = pc]
    <2>1. client' = [client EXCEPT ![s] = next] /\ client[s].pc = "send" /\ UNCHANGED wakeup
      BY <1>6 DEF ClientSends, Client
    <2>2. pc \in {"wait", "done"}
      OBVIOUS
    <2> HIDE DEF pc
    <2>3. next \in ClientType /\ next.last = client[s].last /\ next.req = client[s].req
      BY <1>0, <2>2 DEF ClientType
    <2>4. QED
      BY <2>1, <2>3
  <1>7. CASE ClientWakes(s)
    <2> DEFINE next == [client[s] EXCEPT !.pc = "read"]
    <2>1. next \in ClientType /\ next.pc = "read"
      BY <1>0 DEF ClientType
    <2>2. client' = [client EXCEPT ![s] = next]
      BY <1>7 DEF ClientWakes, Client
    <2>3. QED
      BY <2>1, <2>2
  <1>8. CASE client' = [client EXCEPT ![s] = NoClient]
    BY <1>0, <1>8
  <1>9. CASE Heartbeat(s) /\ UNCHANGED <<client, wakeup>>
    <2>1. client' = [client EXCEPT ![s] = client[s]] /\ client[s].pc = "wait"
      BY <1>0, <1>9 DEF Heartbeat
    <2>2. QED
      BY <1>0, <1>9, <2>1
  <1>10. CASE TokenEnds(s)
    <2> DEFINE next == [client[s] EXCEPT !.valid = FALSE]
    <2>1. /\ next \in ClientType /\ next.pc = client[s].pc /\ next.last = client[s].last
          /\ next.req = client[s].req /\ client[s].pc \in {"read", "send", "wait", "done"}
      BY <1>0, <1>10 DEF ClientType, TokenEnds
    <2>2. client' = [client EXCEPT ![s] = next] /\ UNCHANGED wakeup
      BY <1>10 DEF TokenEnds, Client
    <2>3. QED
      BY <2>1, <2>2
  <1>11. QED
    BY <1>4, <1>5, <1>6, <1>7, <1>8, <1>9, <1>10
       DEF OwnClient, ClientStep, ClientEnds, ClientFails, Heartbeat, CloseClient, Client

LEMMA PollEffect ==
    ASSUME TypeOK, NEW p \in Polls, OwnPoll(p)
    PROVE  /\ poll' \in [Polls -> PollType]
           /\ \A q \in Polls \ {p} : poll'[q] = poll[q]
           /\ UNCHANGED <<now, items, until, grants, writer, sweep, announced, client, dash,
                           wakeup, faults>>
           /\ \/ poll'[p].pc \notin {"same", "wait"}
              \/ poll'[p].first = items[poll'[p].req]
              \/ /\ poll[p].pc = "same" /\ poll'[p].first = poll[p].first
                 /\ poll'[p].req = poll[p].req /\ poll'[p].signalled = poll[p].signalled
  <1>0. /\ poll \in [Polls -> PollType] /\ items \in [Requests -> [Slots -> ItemStates]]
        /\ poll[p] \in PollType /\ NoPoll \in PollType /\ NoPoll.pc = "off"
    BY OffTypes DEF TypeOK, NoPoll
  <1>1. UNCHANGED <<now, items, until, grants, writer, sweep, announced, client, dash, wakeup, faults>>
    BY DEF OwnPoll, OpenPoll, PollStep, PollTakes, PollReads, PollTurns, PollWakes, PollTimesOut,
           PollKept, ReadKept, NoFault
  <1> SUFFICES \E next \in PollType :
                  /\ poll' = [poll EXCEPT ![p] = next]
                  /\ \/ next.pc \notin {"same", "wait"}
                     \/ next.first = items[next.req]
                     \/ /\ poll[p].pc = "same" /\ next.first = poll[p].first
                        /\ next.req = poll[p].req /\ next.signalled = poll[p].signalled
    BY <1>0, <1>1
  <1>2. ASSUME NEW r \in Requests, OpenPoll(p, r)
        PROVE  \E next \in PollType :
                  poll' = [poll EXCEPT ![p] = next] /\ next.pc \notin {"same", "wait"}
    <2> DEFINE next == [pc |-> "take", req |-> r, first |-> items[r], signalled |-> FALSE]
    <2>1. next \in PollType /\ next.pc = "take"
      BY <1>0 DEF PollType
    <2>2. poll' = [poll EXCEPT ![p] = next]
      BY <1>2 DEF OpenPoll, Poll
    <2>3. QED
      BY <2>1, <2>2
  <1>3. CASE PollTakes(p)
    <2> DEFINE next == [poll[p] EXCEPT !.pc = "read", !.signalled = FALSE]
    <2>1. next \in PollType /\ next.pc = "read"
      BY <1>0 DEF PollType
    <2>2. poll' = [poll EXCEPT ![p] = next]
      BY <1>3 DEF PollTakes, Poll
    <2>3. QED
      BY <2>1, <2>2
  <1>4. CASE PollReads(p)
    <2> DEFINE pc == IF items[poll[p].req] = poll[p].first THEN "same" ELSE "changed"
               next == [poll[p] EXCEPT !.pc = pc]
    <2>1. poll' = [poll EXCEPT ![p] = next]
      BY <1>4 DEF PollReads, Poll
    <2>2. (pc = "same" /\ items[poll[p].req] = poll[p].first) \/ pc = "changed"
      OBVIOUS
    <2> HIDE DEF pc
    <2>3. /\ next \in PollType /\ next.pc = pc /\ next.first = poll[p].first
          /\ next.req = poll[p].req
      BY <1>0, <2>2 DEF PollType
    <2>4. QED
      BY <2>1, <2>2, <2>3
  <1>5. CASE PollTurns(p) /\ poll[p].pc = "same"
    <2> DEFINE next == [poll[p] EXCEPT !.pc = "wait"]
    <2>1. /\ next \in PollType /\ next.first = poll[p].first /\ next.req = poll[p].req
          /\ next.signalled = poll[p].signalled
      BY <1>0 DEF PollType
    <2>2. poll' = [poll EXCEPT ![p] = next]
      BY <1>5 DEF PollTurns, Poll
    <2>3. QED
      BY <1>5, <2>1, <2>2
  <1>6. CASE PollWakes(p)
    <2> DEFINE next == [poll[p] EXCEPT !.pc = "take"]
    <2>1. next \in PollType /\ next.pc = "take"
      BY <1>0 DEF PollType
    <2>2. poll' = [poll EXCEPT ![p] = next]
      BY <1>6 DEF PollWakes, Poll
    <2>3. QED
      BY <2>1, <2>2
  <1>7. CASE poll' = [poll EXCEPT ![p] = NoPoll]
    BY <1>0, <1>7
  <1>8. QED
    BY <1>2, <1>3, <1>4, <1>5, <1>6, <1>7 DEF OwnPoll, PollStep, PollTurns, PollTimesOut, Poll

\* The three queries, one by one, and how a snapshot begins and is given up.
LEMMA DashEffect ==
    ASSUME TypeOK, NEW d \in Dashboards, OwnDash(d)
    PROVE  /\ dash' \in [Dashboards -> DashType]
           /\ \A e \in Dashboards \ {d} : dash'[e] = dash[e]
           /\ wakeup' \in [Clients \cup Dashboards -> BOOLEAN]
           /\ \A t \in (Clients \cup Dashboards) \ {d} : wakeup'[t] = wakeup[t]
           /\ faults' \in 0..MaxFaults
           /\ UNCHANGED <<now, items, until, grants, writer, sweep, announced, client, poll>>
           /\ \/ dash'[d].pc \in {"off", "pending"} /\ dash'[d].last \in {NoView, dash[d].last}
              \/ /\ dash'[d].pc = "decided" /\ dash'[d].last = dash[d].last /\ UNCHANGED wakeup
                 /\ dash'[d].next = [NoView EXCEPT !.known = {r \in Requests : Filed(r)},
                                                  !.pending = PendingRequests]
              \/ /\ dash[d].pc = "decided" /\ dash'[d].pc = "active" /\ UNCHANGED wakeup
                 /\ dash'[d].last = dash[d].last
                 /\ \E list \in DecidedLists : dash'[d].next = [dash[d].next EXCEPT !.decided = list]
              \/ /\ dash[d].pc = "active" /\ dash'[d].pc = "wait" /\ UNCHANGED wakeup
                 /\ dash'[d].last = [dash[d].next EXCEPT !.active = ActiveGrants]
  <1>0. /\ dash \in [Dashboards -> DashType] /\ dash[d] \in DashType
        /\ wakeup \in [Clients \cup Dashboards -> BOOLEAN]
        /\ NoDash \in DashType /\ NoDash.pc = "off" /\ NoDash.last = NoView
        /\ NoView \in Views /\ PendingRequests \in Lists /\ DecidedLists \subseteq Lists
        /\ ActiveGrants \in SUBSET Items
    BY OffTypes, NoViewType, QueryTypes DEF TypeOK, NoDash
  <1>1. /\ UNCHANGED <<now, items, until, grants, writer, sweep, announced, client, poll>>
        /\ faults' \in 0..MaxFaults
    BY FaultType DEF OwnDash, OpenDash, DashStep, DashReadsPending, DashReadsDecided, DashReadsActive,
           DashWakes, DashEnds, DashKept, ReadKept
  <1>2. wakeup' = wakeup \/ wakeup' = [wakeup EXCEPT ![d] = FALSE]
    BY DEF OwnDash, OpenDash, DashStep, DashReadsPending, DashReadsDecided, DashReadsActive, DashWakes,
           DashEnds
  <1>3. wakeup' \in [Clients \cup Dashboards -> BOOLEAN]
        /\ \A t \in (Clients \cup Dashboards) \ {d} : wakeup'[t] = wakeup[t]
    BY <1>0, <1>2
  <1>4. ASSUME NEW next \in DashType, dash' = [dash EXCEPT ![d] = next]
        PROVE  /\ dash' \in [Dashboards -> DashType] /\ dash'[d] = next
               /\ \A e \in Dashboards \ {d} : dash'[e] = dash[e]
    BY <1>0, <1>4
  <1>5. CASE OpenDash(d)
    <2> DEFINE next == [NoDash EXCEPT !.pc = "pending"]
    <2>1. dash' = [dash EXCEPT ![d] = next]
      BY <1>5 DEF OpenDash, Dash
    <2>2. next \in DashType /\ next.pc = "pending" /\ next.last = NoView
      BY <1>0 DEF DashType
    <2> HIDE DEF next
    <2>3. QED
      BY <1>1, <1>3, <1>4, <2>1, <2>2
  <1>6. CASE DashReadsPending(d)
    <2> DEFINE view == [NoView EXCEPT !.known = {r \in Requests : Filed(r)},
                                      !.pending = PendingRequests]
               next == [dash[d] EXCEPT !.pc = "decided", !.next = view]
    <2>1. dash' = [dash EXCEPT ![d] = next] /\ UNCHANGED wakeup
      BY <1>6 DEF DashReadsPending, Dash
    <2>2. view \in Views
      BY <1>0 DEF Views
    <2> HIDE DEF view
    <2>3. next \in DashType /\ next.pc = "decided" /\ next.last = dash[d].last /\ next.next = view
      BY <1>0, <2>2 DEF DashType
    <2> HIDE DEF next
    <2>4. QED
      BY <1>1, <1>3, <1>4, <2>1, <2>3 DEF view
  <1>7. CASE DashReadsDecided(d)
    <2> PICK list \in DecidedLists : Dash(d, [dash[d] EXCEPT !.pc = "active", !.next.decided = list])
      BY <1>7 DEF DashReadsDecided
    <2> DEFINE view == [dash[d].next EXCEPT !.decided = list]
               next == [dash[d] EXCEPT !.pc = "active", !.next = view]
    <2>1. dash' = [dash EXCEPT ![d] = next] /\ UNCHANGED wakeup /\ dash[d].pc = "decided"
      BY <1>7 DEF DashReadsDecided, Dash
    <2>2. view \in Views
      BY <1>0 DEF Views, DashType
    <2> HIDE DEF view
    <2>3. next \in DashType /\ next.pc = "active" /\ next.last = dash[d].last /\ next.next = view
      BY <1>0, <2>2 DEF DashType
    <2> HIDE DEF next
    <2>4. QED
      BY <1>1, <1>3, <1>4, <2>1, <2>3 DEF view
  <1>8. CASE DashReadsActive(d)
    <2> DEFINE view == [dash[d].next EXCEPT !.active = ActiveGrants]
               next == [pc |-> "wait", next |-> NoView, last |-> view]
    <2>1. dash' = [dash EXCEPT ![d] = next] /\ UNCHANGED wakeup /\ dash[d].pc = "active"
      BY <1>8 DEF DashReadsActive, Dash
    <2>2. view \in Views
      BY <1>0 DEF Views, DashType
    <2> HIDE DEF view
    <2>3. next \in DashType /\ next.pc = "wait" /\ next.last = view
      BY <1>0, <2>2 DEF DashType
    <2> HIDE DEF next
    <2>4. QED
      BY <1>1, <1>3, <1>4, <2>1, <2>3 DEF view
  <1>9. CASE DashWakes(d)
    <2> DEFINE next == [dash[d] EXCEPT !.pc = "pending"]
    <2>1. dash' = [dash EXCEPT ![d] = next]
      BY <1>9 DEF DashWakes, Dash
    <2>2. next \in DashType /\ next.pc = "pending" /\ next.last = dash[d].last
      BY <1>0 DEF DashType
    <2> HIDE DEF next
    <2>3. QED
      BY <1>1, <1>3, <1>4, <2>1, <2>2
  <1>10. CASE DashEnds(d)
    BY <1>0, <1>1, <1>3, <1>4, <1>10 DEF DashEnds, Dash
  <1>11. QED
    BY <1>5, <1>6, <1>7, <1>8, <1>9, <1>10 DEF OwnDash, DashStep

LEMMA CommitEffect ==
    ASSUME TypeOK, NEW w \in Writers, NEW left \in Nat \ {0}, Commit(w, left)
    PROVE  /\ writer' \in [Writers -> [pc : {"idle", "signal", "publish", "more"}, left : Nat]]
           /\ \A v \in Writers \ {w} : writer'[v] = writer[v]
           /\ writer'[w].pc = "signal" /\ writer'[w].left = left
  BY DEF TypeOK, Commit

LEMMA TypeStep ==
    ASSUME TypeOK, PublishesAreDue, [Next]_vars
    PROVE  TypeOK'
  <1>0. TypeOK
    OBVIOUS
  <1> USE DEF TypeOK
  <1>1. ASSUME NEW w \in Writers, Writes(w)
        PROVE  TypeOK'
    BY <1>0, <1>1, WriteEffect, CommitEffect DEF StoreMoves
  <1>2. ASSUME NEW w \in Writers, Notifies(w)
        PROVE  TypeOK'
    BY <1>0, <1>2, NotifyEffect, PublishType, SignalType
  <1>3. CASE ExpirePending
    BY <1>0, <1>3, SweepEffect DEF StoreMoves
  <1>4. CASE Announces
    BY <1>0, <1>4, AnnounceEffect, PublishType, SignalType
  <1>5. CASE Tick
    BY <1>5, TimesAssumption DEF Tick
  <1>6. ASSUME NEW s \in Clients, OwnClient(s)
        PROVE  TypeOK'
    BY <1>0, <1>6, ClientEffect
  <1>7. ASSUME NEW d \in Dashboards, OwnDash(d)
        PROVE  TypeOK'
    BY <1>0, <1>7, DashEffect
  <1>8. ASSUME NEW p \in Polls, OwnPoll(p)
        PROVE  TypeOK'
    BY <1>0, <1>8, PollEffect
  <1>9. CASE UNCHANGED vars
    BY <1>9 DEF vars
  <1>10. QED
    BY <1>1, <1>2, <1>3, <1>4, <1>5, <1>6, <1>7, <1>8, <1>9, Cases

-----------------------------------------------------------------------------
(* Who is to be told.                                                       *)

\* A change of the store is to be announced, and stays so until it is.
LEMMA Flags ==
    ASSUME TypeOK, PublishesAreDue, [Next]_vars
    PROVE  /\ StoreMoves
           /\ \A r \in Requests : Filed(r) => until'[r] = until[r]
           /\ UNCHANGED <<items, until, grants>> \/ (Unpublished' /\ Unsignalled')
           /\ Unpublished => Unpublished' \/ Publish
           /\ Unsignalled => Unsignalled' \/ Signal
           /\ sweep.pc = "tell" => sweep'.pc = "tell" \/ Publish
  <1> DEFINE Goal == /\ StoreMoves
                     /\ \A r \in Requests : Filed(r) => until'[r] = until[r]
                     /\ UNCHANGED <<items, until, grants>> \/ (Unpublished' /\ Unsignalled')
                     /\ Unpublished => Unpublished' \/ Publish
                     /\ Unsignalled => Unsignalled' \/ Signal
                     /\ sweep.pc = "tell" => sweep'.pc = "tell" \/ Publish
  <1>0. TypeOK /\ PublishesAreDue
    OBVIOUS
  <1> SUFFICES Goal
    OBVIOUS
  <1>1. ASSUME NEW w \in Writers, Writes(w)
        PROVE  Goal
    <2>1. /\ StoreMoves /\ sweep' = sweep /\ \E left \in Nat \ {0} : Commit(w, left)
          /\ \A r \in Requests : Filed(r) => until'[r] = until[r]
      BY <1>0, <1>1, WriteEffect
    <2>2. writer'[w].pc = "signal"
      BY <1>0, <2>1, CommitEffect
    <2>3. Unpublished' /\ Unsignalled'
      BY <2>2 DEF Unpublished, Unsignalled
    <2>4. QED
      BY <2>1, <2>3
  <1>2. ASSUME NEW w \in Writers, Notifies(w)
        PROVE  Goal
    <2>0. /\ \A v \in Writers \ {w} : writer'[v] = writer[v]
          /\ \/ Signal /\ UNCHANGED wakeup /\ writer'[w].pc = "publish" /\ writer[w].pc = "signal"
             \/ Publish /\ UNCHANGED poll /\ writer[w].pc \in {"publish", "more"}
          /\ UNCHANGED <<items, until, grants, sweep>>
      BY <1>0, <1>2, NotifyEffect
    <2>1. StoreMoves
      BY <1>0, <2>0, StoreStays
    <2>2. Unpublished => Unpublished' \/ Publish
      BY <2>0 DEF Unpublished
    <2>3. Unsignalled => Unsignalled' \/ Signal
      BY <2>0 DEF Unsignalled
    <2>4. QED
      BY <2>0, <2>1, <2>2, <2>3
  <1>3. CASE ExpirePending
    <2>1. /\ StoreMoves
          /\ sweep'.pc = "signal" \/ items' = items
          /\ UNCHANGED <<until, grants, writer>> /\ sweep.pc = "expire"
      BY <1>0, <1>3, SweepEffect
    <2>2. QED
      BY <2>1 DEF Unpublished, Unsignalled
  <1>4. CASE Announces
    <2>0. /\ \/ SweepSignals /\ Signal /\ sweep'.pc = "publish"
             \/ SweepPublishes /\ Publish
             \/ AnnouncePublishes /\ Publish
             \/ sweep.pc \notin {"signal", "publish", "more", "tell"}
          /\ UNCHANGED <<items, until, grants, writer>>
      BY <1>0, <1>4, AnnounceEffect
    <2>1. StoreMoves
      BY <1>0, <2>0, StoreStays
    <2>2. Unpublished => Unpublished' \/ Publish
      BY <2>0 DEF Unpublished
    <2>3. Unsignalled => Unsignalled' \/ Signal
      BY <2>0 DEF Unsignalled, SweepPublishes, AnnouncePublishes
    <2>4. sweep.pc = "tell" => sweep'.pc = "tell" \/ Publish
      BY <2>0 DEF SweepSignals
    <2>5. QED
      BY <2>0, <2>1, <2>2, <2>3, <2>4
  <1>5. CASE UNCHANGED <<items, until, grants, writer, sweep>>
    BY <1>0, <1>5, StoreStays DEF Unpublished, Unsignalled
  <1>6. ASSUME NEW s \in Clients, OwnClient(s)
        PROVE  UNCHANGED <<items, until, grants, writer, sweep>>
    BY <1>0, <1>6, ClientEffect
  <1>7. ASSUME NEW d \in Dashboards, OwnDash(d)
        PROVE  UNCHANGED <<items, until, grants, writer, sweep>>
    BY <1>0, <1>7, DashEffect
  <1>8. ASSUME NEW p \in Polls, OwnPoll(p)
        PROVE  UNCHANGED <<items, until, grants, writer, sweep>>
    BY <1>0, <1>8, PollEffect
  <1>9. Tick \/ UNCHANGED vars => UNCHANGED <<items, until, grants, writer, sweep>>
    BY DEF Tick, vars
  <1> HIDE DEF Goal
  <1>10. QED
    BY <1>1, <1>2, <1>3, <1>4, <1>5, <1>6, <1>7, <1>8, <1>9, Cases

LEMMA PublishesAreDueStep ==
    ASSUME TypeOK, PublishesAreDue, [Next]_vars
    PROVE  PublishesAreDue'
  <1>0. TypeOK /\ PublishesAreDue
    OBVIOUS
  <1>1. ASSUME NEW w \in Writers, Writes(w)
        PROVE  PublishesAreDue'
    BY <1>0, <1>1, WriteEffect, CommitEffect DEF PublishesAreDue
  <1>2. ASSUME NEW w \in Writers, Notifies(w)
        PROVE  PublishesAreDue'
    BY <1>0, <1>2, NotifyEffect DEF PublishesAreDue
  <1>3. CASE ExpirePending
    BY <1>0, <1>3, SweepEffect DEF PublishesAreDue
  <1>4. CASE Announces
    BY <1>0, <1>4, AnnounceEffect DEF PublishesAreDue
  <1>5. CASE UNCHANGED <<writer, sweep>>
    BY <1>5 DEF PublishesAreDue
  <1>6. ASSUME NEW s \in Clients, OwnClient(s)
        PROVE  UNCHANGED <<writer, sweep>>
    BY <1>0, <1>6, ClientEffect
  <1>7. ASSUME NEW d \in Dashboards, OwnDash(d)
        PROVE  UNCHANGED <<writer, sweep>>
    BY <1>0, <1>7, DashEffect
  <1>8. ASSUME NEW p \in Polls, OwnPoll(p)
        PROVE  UNCHANGED <<writer, sweep>>
    BY <1>0, <1>8, PollEffect
  <1>9. Tick \/ UNCHANGED vars => UNCHANGED <<writer, sweep>>
    BY DEF Tick, vars
  <1>10. QED
    BY <1>1, <1>2, <1>3, <1>4, <1>5, <1>6, <1>7, <1>8, <1>9, Cases

-----------------------------------------------------------------------------
(* Who waits on the store's state.                                          *)

\* What every step leaves of a stream that is not the one that moves.
LEMMA OthersClients ==
    ASSUME TypeOK, PublishesAreDue, [Next]_vars, NEW s \in Clients, ~OwnClient(s)
    PROVE  client'[s] = client[s] /\ (wakeup[s] => wakeup'[s])
  <1>0. TypeOK /\ PublishesAreDue /\ wakeup \in [Clients \cup Dashboards -> BOOLEAN]
    BY DEF TypeOK
  <1> DEFINE Goal == client'[s] = client[s] /\ (wakeup[s] => wakeup'[s])
  <1> SUFFICES Goal
    OBVIOUS
  <1>1. Publish => (wakeup[s] => wakeup'[s])
    BY DEF Publish
  <1>2. ASSUME NEW w \in Writers, Writes(w)
        PROVE  Goal
    BY <1>0, <1>2, WriteEffect
  <1>3. ASSUME NEW w \in Writers, Notifies(w)
        PROVE  Goal
    BY <1>0, <1>1, <1>3, NotifyEffect
  <1>4. CASE ExpirePending
    BY <1>0, <1>4, SweepEffect
  <1>5. CASE Announces
    BY <1>0, <1>1, <1>5, AnnounceEffect
  <1>6. ASSUME NEW t \in Clients, OwnClient(t)
        PROVE  Goal
    BY <1>0, <1>6, ClientEffect
  <1>7. ASSUME NEW d \in Dashboards, OwnDash(d)
        PROVE  Goal
    BY <1>0, <1>7, DashEffect, StreamsAssumption
  <1>8. ASSUME NEW p \in Polls, OwnPoll(p)
        PROVE  Goal
    BY <1>0, <1>8, PollEffect
  <1>9. Tick \/ UNCHANGED vars => Goal
    BY DEF Tick, vars
  <1> HIDE DEF Goal
  <1>10. QED
    BY <1>2, <1>3, <1>4, <1>5, <1>6, <1>7, <1>8, <1>9, Cases

LEMMA ClientsAreCurrentStep ==
    ASSUME TypeOK, PublishesAreDue, ClientsAreCurrent, [Next]_vars
    PROVE  ClientsAreCurrent'
  <1> SUFFICES ASSUME NEW s \in Clients, client'[s].pc \in {"send", "wait"}
               PROVE  client'[s].last = items'[client'[s].req] \/ wakeup'[s] \/ Unpublished'
    BY DEF ClientsAreCurrent
  <1>0. /\ UNCHANGED <<items, grants>> \/ Unpublished'
        /\ Unpublished => Unpublished' \/ Publish
    BY Flags
  <1>1. CASE OwnClient(s)
    <2>1. /\ UNCHANGED <<items, writer, sweep>>
          /\ \/ /\ client[s].pc \in {"send", "wait"} /\ UNCHANGED wakeup
                /\ client'[s].last = client[s].last /\ client'[s].req = client[s].req
             \/ client'[s].last = items[client'[s].req]
      BY <1>1, ClientEffect
    <2>2. Unpublished => Unpublished'
      BY <2>1 DEF Unpublished
    <2>3. QED
      BY <2>1, <2>2 DEF ClientsAreCurrent
  <1>2. CASE ~OwnClient(s)
    <2>1. client'[s] = client[s] /\ (wakeup[s] => wakeup'[s])
      BY <1>2, OthersClients
    <2>2. Publish => wakeup'[s]
      BY <2>1 DEF Publish, Subscribed
    <2>3. QED
      BY <1>0, <2>1, <2>2 DEF ClientsAreCurrent
  <1>3. QED
    BY <1>1, <1>2

LEMMA PollsAreCurrentStep ==
    ASSUME TypeOK, PublishesAreDue, PollsAreCurrent, [Next]_vars
    PROVE  PollsAreCurrent'
  <1> SUFFICES ASSUME NEW p \in Polls, poll'[p].pc \in {"same", "wait"}
               PROVE  poll'[p].first = items'[poll'[p].req] \/ poll'[p].signalled \/ Unsignalled'
    BY DEF PollsAreCurrent
  <1>0. /\ UNCHANGED <<items, grants>> \/ Unsignalled'
        /\ Unsignalled => Unsignalled' \/ Signal
    BY Flags
  <1>1. CASE OwnPoll(p)
    <2>1. /\ UNCHANGED <<items, writer, sweep>>
          /\ \/ poll'[p].first = items[poll'[p].req]
             \/ /\ poll[p].pc = "same" /\ poll'[p].first = poll[p].first
                /\ poll'[p].req = poll[p].req /\ poll'[p].signalled = poll[p].signalled
      BY <1>1, PollEffect
    <2>2. Unsignalled => Unsignalled'
      BY <2>1 DEF Unsignalled
    <2>3. QED
      BY <2>1, <2>2 DEF PollsAreCurrent
  <1>2. CASE Signal
    <2>1. poll'[p].signalled
      <3>1. poll'[p] = [poll[p] EXCEPT !.signalled = poll[p].pc # "off"] /\ poll[p] \in PollType
        BY <1>2 DEF Signal, TypeOK
      <3>2. poll'[p].pc = poll[p].pc /\ poll'[p].signalled = (poll[p].pc # "off")
        BY <3>1 DEF PollType
      <3>3. QED
        BY <3>2
    <2>2. QED
      BY <2>1
  <1>3. CASE poll'[p] = poll[p] /\ ~Signal
    BY <1>0, <1>3 DEF PollsAreCurrent
  <1>4. OwnPoll(p) \/ Signal \/ poll'[p] = poll[p]
    <2>0. TypeOK /\ PublishesAreDue
      OBVIOUS
    <2> DEFINE Goal == OwnPoll(p) \/ Signal \/ poll'[p] = poll[p]
    <2>1. ASSUME NEW w \in Writers, Writes(w) \/ Notifies(w)
          PROVE  Signal \/ poll' = poll
      BY <2>0, <2>1, WriteEffect, NotifyEffect
    <2>2. CASE ExpirePending \/ Announces
      BY <2>0, <2>2, SweepEffect, AnnounceEffect
    <2>3. ASSUME NEW s \in Clients, OwnClient(s)
          PROVE  poll' = poll
      BY <2>0, <2>3, ClientEffect
    <2>4. ASSUME NEW d \in Dashboards, OwnDash(d)
          PROVE  poll' = poll
      BY <2>0, <2>4, DashEffect
    <2>5. ASSUME NEW q \in Polls, OwnPoll(q)
          PROVE  Goal
      BY <2>0, <2>5, PollEffect
    <2>6. Tick \/ UNCHANGED vars => poll' = poll
      BY DEF Tick, vars
    <2>7. QED
      BY <2>1, <2>2, <2>3, <2>4, <2>5, <2>6, Cases
  <1>5. QED
    BY <1>1, <1>2, <1>3, <1>4

-----------------------------------------------------------------------------
(* The window of AnnounceExpiredGrants and the clock.                       *)

WindowStays ==
    /\ now' = now \/ (now' = now + 1 /\ UNCHANGED <<items, grants, sweep>>)
    /\ sweep'.at = sweep.at /\ sweep'.first = sweep.first /\ announced' = announced
    /\ sweep'.pc = "query" => sweep'.now = now \/ (sweep.pc = "query" /\ sweep'.now = sweep.now)

WindowOpens ==
    /\ sweep.at = -1 /\ sweep'.at = now /\ sweep'.first = now /\ sweep'.pc = "sleep"
    /\ UNCHANGED <<now, items, grants, announced>>

WindowMoves ==
    /\ sweep.pc = "query" /\ sweep'.pc \in {"sleep", "tell"}
    /\ sweep'.at = sweep.now /\ sweep'.first = sweep.first
    /\ sweep'.pc = "sleep" => ExpiredGrants(sweep.at, sweep.now) = {}
    /\ announced' = [i \in Items |-> announced[i] + IF i \in ExpiredGrants(sweep.at, sweep.now) THEN 1 ELSE 0]
    /\ UNCHANGED <<now, items, grants>>

LEMMA WindowEffect ==
    ASSUME TypeOK, PublishesAreDue, [Next]_vars
    PROVE  WindowStays \/ WindowOpens \/ WindowMoves
  <1>0. TypeOK /\ PublishesAreDue /\ sweep \in SweepType
    BY DEF TypeOK
  <1>1. UNCHANGED <<now, sweep, announced>> => WindowStays
    BY DEF WindowStays
  <1>2. ASSUME NEW w \in Writers, Writes(w) \/ Notifies(w)
        PROVE  UNCHANGED <<now, sweep, announced>>
    BY <1>0, <1>2, WriteEffect, NotifyEffect
  <1>3. CASE ExpirePending
    BY <1>0, <1>3, SweepEffect DEF WindowStays
  <1>4. CASE AnnounceQueries
    <2> DEFINE expired == ExpiredGrants(sweep.at, sweep.now)
               pc == IF expired = {} THEN "sleep" ELSE "tell"
               left == Cardinality(expired)
    <2>1. /\ sweep' = [sweep EXCEPT !.at = sweep.now, !.now = 0, !.left = left, !.pc = pc]
          /\ announced' = [i \in Items |-> announced[i] + IF i \in expired THEN 1 ELSE 0]
          /\ sweep.pc = "query"
      BY <1>4 DEF AnnounceQueries
    <2>2. UNCHANGED <<now, items, grants>>
      BY <1>4 DEF AnnounceQueries, SweepKept
    <2>3. pc \in {"sleep", "tell"} /\ (pc = "sleep" => expired = {})
      OBVIOUS
    <2> HIDE DEF pc, left
    <2>4. sweep'.pc = pc /\ sweep'.at = sweep.now /\ sweep'.first = sweep.first
      BY <1>0, <2>1 DEF SweepType
    <2>5. WindowMoves
      BY <2>1, <2>2, <2>3, <2>4 DEF WindowMoves
    <2>6. QED
      BY <2>5
  <1>5. CASE AnnounceBegins
    <2>1. UNCHANGED <<now, items, grants, announced>>
      BY <1>5 DEF AnnounceBegins, SweepKept
    <2>2. CASE sweep.at = -1
      <3>1. sweep' = [sweep EXCEPT !.pc = "sleep", !.at = now, !.first = now]
        BY <1>5, <2>2 DEF AnnounceBegins
      <3>2. WindowOpens
        BY <1>0, <2>1, <2>2, <3>1 DEF WindowOpens, SweepType
      <3>3. QED
        BY <3>2
    <2>3. CASE sweep.at # -1
      <3>1. sweep' = [sweep EXCEPT !.pc = "query", !.now = now]
        BY <1>5, <2>3 DEF AnnounceBegins
      <3>2. WindowStays
        BY <1>0, <2>1, <3>1 DEF WindowStays, SweepType
      <3>3. QED
        BY <3>2
    <2>4. QED
      BY <2>2, <2>3
  <1>6. ASSUME NEW pc \in {"expire", "publish", "more", "announce", "tell", "sleep"}, NEW left, NEW read,
               UNCHANGED <<now, announced>>,
               sweep' = [sweep EXCEPT !.pc = pc, !.left = left, !.now = read]
        PROVE  WindowStays
    BY <1>0, <1>6 DEF WindowStays, SweepType
  <1>7. CASE ExpirePendingFails \/ SweepSignals \/ SweepTick
    <2>1. \E pc \in {"announce", "publish", "expire"} :
             sweep' = [sweep EXCEPT !.pc = pc, !.left = sweep.left, !.now = sweep.now]
      BY <1>0, <1>7 DEF ExpirePendingFails, SweepSignals, SweepTick, Sweep, SweepType
    <2>2. UNCHANGED <<now, announced>>
      BY <1>7 DEF ExpirePendingFails, SweepSignals, SweepTick, SweepKept
    <2>3. QED
      BY <1>6, <2>1, <2>2
  <1>8. CASE AnnounceFails
    <2>1. sweep' = [sweep EXCEPT !.pc = "sleep", !.left = sweep.left, !.now = 0]
      BY <1>0, <1>8 DEF AnnounceFails, SweepType
    <2>2. UNCHANGED <<now, announced>>
      BY <1>8 DEF AnnounceFails, SweepKept
    <2>3. QED
      BY <1>6, <2>1, <2>2
  <1>9. CASE SweepPublishes
    <2> DEFINE pc == IF sweep.left = 1 THEN "announce" ELSE "more"
               left == sweep.left - 1
    <2>1. sweep' = [sweep EXCEPT !.pc = pc, !.left = left] /\ pc \in {"announce", "more"}
      BY <1>9 DEF SweepPublishes
    <2>2. UNCHANGED <<now, announced>>
      BY <1>9 DEF SweepPublishes, SweepKept
    <2> HIDE DEF pc, left
    <2>3. sweep' = [sweep EXCEPT !.pc = pc, !.left = left, !.now = sweep.now]
      BY <1>0, <2>1 DEF SweepType
    <2>4. QED
      BY <1>6, <2>1, <2>2, <2>3
  <1>10. CASE AnnouncePublishes
    <2> DEFINE pc == IF sweep.left = 1 THEN "sleep" ELSE "tell"
               left == sweep.left - 1
    <2>1. sweep' = [sweep EXCEPT !.pc = pc, !.left = left] /\ pc \in {"sleep", "tell"}
      BY <1>10 DEF AnnouncePublishes
    <2>2. UNCHANGED <<now, announced>>
      BY <1>10 DEF AnnouncePublishes, SweepKept
    <2> HIDE DEF pc, left
    <2>3. sweep' = [sweep EXCEPT !.pc = pc, !.left = left, !.now = sweep.now]
      BY <1>0, <2>1 DEF SweepType
    <2>4. QED
      BY <1>6, <2>1, <2>2, <2>3
  <1>11. CASE Tick
    BY <1>11 DEF Tick, WindowStays
  <1>12. ASSUME NEW s \in Clients, OwnClient(s)
         PROVE  UNCHANGED <<now, sweep, announced>>
    BY <1>0, <1>12, ClientEffect
  <1>13. ASSUME NEW d \in Dashboards, OwnDash(d)
         PROVE  UNCHANGED <<now, sweep, announced>>
    BY <1>0, <1>13, DashEffect
  <1>14. ASSUME NEW p \in Polls, OwnPoll(p)
         PROVE  UNCHANGED <<now, sweep, announced>>
    BY <1>0, <1>14, PollEffect
  <1>15. UNCHANGED vars => UNCHANGED <<now, sweep, announced>>
    BY DEF vars
  <1>16. QED
    BY <1>1, <1>2, <1>3, <1>4, <1>5, <1>7, <1>8, <1>9, <1>10, <1>11, <1>12, <1>13, <1>14, <1>15, Cases
       DEF Announces

LEMMA WindowsFollowTheClockStep ==
    ASSUME TypeOK, PublishesAreDue, WindowsFollowTheClock, [Next]_vars
    PROVE  WindowsFollowTheClock'
  <1>0. /\ sweep \in SweepType /\ now \in Nat
        /\ sweep.at \in Int /\ sweep.now \in Int /\ sweep.first \in Int
    BY TimesAssumption DEF TypeOK, SweepType
  <1>1. CASE WindowStays
    BY <1>0, <1>1 DEF WindowStays, WindowsFollowTheClock
  <1>2. CASE WindowOpens
    BY <1>0, <1>2 DEF WindowOpens, WindowsFollowTheClock
  <1>3. CASE WindowMoves
    <2>1. sweep.now \in Nat
      BY <1>0 DEF SweepType
    <2>2. QED
      BY <1>0, <1>3, <2>1 DEF WindowMoves, WindowsFollowTheClock
  <1>4. QED
    BY <1>1, <1>2, <1>3, WindowEffect

\* How an item moves when requests are filed as a whole.
LEMMA StateMoves ==
    ASSUME TypeOK, FiledAsAWhole, StoreMoves, NEW i \in Items
    PROVE  /\ State(i) = "approved" => items'[i[1]][i[2]] \in {"approved", "revoked"}
           /\ State(i) = "revoked" => items'[i[1]][i[2]] = "revoked"
           /\ items'[i[1]][i[2]] = "approved" => State(i) \in {"approved", "pending"}
  <1>1. i[1] \in Requests /\ i[2] \in Slots
    BY ItemPair
  <1>2. RequestMoves(i[1])
    BY <1>1 DEF StoreMoves
  <1>3. CASE ~Filed(i[1]) /\ \A k \in Slots : items'[i[1]][k] \in {"pending", "refused"}
    <2>1. State(i) = "absent"
      BY <1>1, <1>3 DEF FiledAsAWhole, NoItems, State
    <2>2. QED
      BY <1>1, <1>3, <2>1
  <1>4. CASE ItemMoves(i[1], i[2])
    BY <1>4 DEF ItemMoves, State
  <1>5. QED
    BY <1>1, <1>2, <1>3, <1>4 DEF RequestMoves

\* AnnounceExpiredGrants' window, the clock and the Grants.
LEMMA ExpiriesStep ==
    ASSUME TypeOK, PublishesAreDue, FiledAsAWhole, ExpiriesAreAnnouncedOnce, [Next]_vars
    PROVE  ExpiriesAreAnnouncedOnce'
  <1>0. /\ sweep \in SweepType /\ now \in Nat /\ WindowsFollowTheClock
        /\ sweep.at \in Int /\ sweep.now \in Nat /\ sweep.first \in Int
        /\ grants \in [Items -> [exp : Nat, live : BOOLEAN]]
        /\ announced \in [Items -> Nat]
    BY TimesAssumption DEF TypeOK, SweepType, ExpiriesAreAnnouncedOnce
  <1>1. WindowsFollowTheClock'
    BY <1>0, WindowsFollowTheClockStep
  <1> DEFINE StateNext(i) == items'[i[1]][i[2]]
  <1>2. SUFFICES ASSUME NEW i \in Items
                 PROVE  /\ announced'[i] <= 1
                        /\ announced'[i] = 1 => (StateNext(i) \in {"approved", "revoked"}
                                                 /\ grants'[i].exp <= sweep'.at)
                        /\ StateNext(i) = "approved" /\ grants'[i].live
                           /\ sweep'.first < grants'[i].exp /\ grants'[i].exp <= sweep'.at
                           => announced'[i] = 1
    BY <1>1 DEF ExpiriesAreAnnouncedOnce, Settled, State
  <1>3. /\ announced[i] \in Nat /\ grants[i].exp \in Nat
        /\ announced[i] <= 1
        /\ announced[i] = 1 => State(i) \in {"approved", "revoked"} /\ grants[i].exp <= sweep.at
        /\ State(i) = "approved" /\ grants[i].live
           /\ sweep.first < grants[i].exp /\ grants[i].exp <= sweep.at
           => announced[i] = 1
    BY <1>0 DEF ExpiriesAreAnnouncedOnce, Settled
  <1>4. /\ State(i) = "approved" => StateNext(i) \in {"approved", "revoked"}
        /\ State(i) = "revoked" => StateNext(i) = "revoked"
        /\ StateNext(i) = "approved" => State(i) \in {"approved", "pending"}
    BY StateMoves, Flags
  <1>5. \/ grants'[i] = grants[i] /\ (StateNext(i) = "approved" => State(i) = "approved")
        \/ /\ State(i) = "pending" /\ StateNext(i) = "approved"
           /\ grants'[i].live => grants'[i].exp > now
    BY Flags DEF StoreMoves, GrantMoves
  <1>6. grants'[i].exp \in Nat
    BY Flags DEF StoreMoves
  <1> HIDE DEF StateNext
  <1>7. CASE WindowStays
    <2>1. sweep'.at = sweep.at /\ sweep'.first = sweep.first /\ announced' = announced
      BY <1>7 DEF WindowStays
    <2>2. sweep.at <= now
      BY <1>0 DEF WindowsFollowTheClock
    <2>3. CASE grants'[i] = grants[i] /\ (StateNext(i) = "approved" => State(i) = "approved")
      BY <1>3, <1>4, <2>1, <2>3
    <2>4. CASE State(i) = "pending" /\ (grants'[i].live => grants'[i].exp > now)
      <3>1. announced[i] # 1 /\ ~(grants'[i].live /\ grants'[i].exp <= sweep.at)
        BY <1>0, <1>3, <1>6, <2>2, <2>4
      <3>2. QED
        BY <1>3, <2>1, <3>1
    <2>5. QED
      BY <1>5, <2>3, <2>4
  <1>8. CASE WindowOpens
    <2>1. /\ sweep.at = -1 /\ sweep'.at = now /\ sweep'.first = now
          /\ grants' = grants /\ announced' = announced
      BY <1>8 DEF WindowOpens
    <2>2. announced[i] # 1
      BY <1>3, <2>1
    <2>3. ~(sweep'.first < grants'[i].exp /\ grants'[i].exp <= sweep'.at)
      BY <1>0, <1>6, <2>1
    <2>4. QED
      BY <1>3, <2>1, <2>2, <2>3
  <1>9. CASE WindowMoves
    <2>1. /\ sweep'.at = sweep.now /\ sweep'.first = sweep.first /\ grants' = grants
          /\ StateNext(i) = State(i) /\ sweep.at <= sweep.now
      BY <1>0, <1>9 DEF WindowMoves, StateNext, State, WindowsFollowTheClock
    <2>2. CASE i \in ExpiredGrants(sweep.at, sweep.now)
      <3>1. State(i) = "approved" /\ grants[i].exp > sweep.at /\ grants[i].exp <= sweep.now
        BY <2>2 DEF ExpiredGrants
      <3>2. announced[i] = 0
        BY <1>0, <1>3, <3>1
      <3>3. announced'[i] = 1
        BY <1>9, <2>2, <3>2 DEF WindowMoves
      <3>4. QED
        BY <2>1, <3>1, <3>3
    <2>3. CASE i \notin ExpiredGrants(sweep.at, sweep.now)
      <3>1. announced'[i] = announced[i]
        BY <1>3, <1>9, <2>3 DEF WindowMoves
      <3>2. State(i) = "approved" => ~(grants[i].exp > sweep.at /\ grants[i].exp <= sweep.now)
        BY <2>3 DEF ExpiredGrants
      <3>3. State(i) = "approved" /\ grants[i].exp <= sweep.now => grants[i].exp <= sweep.at
        BY <1>0, <1>3, <3>2
      <3>4. announced[i] = 1 => grants[i].exp <= sweep.now
        BY <1>0, <1>3, <2>1
      <3>5. QED
        BY <1>3, <2>1, <3>1, <3>3, <3>4
    <2>4. QED
      BY <2>2, <2>3
  <1>10. QED
    BY <1>7, <1>8, <1>9, WindowEffect

-----------------------------------------------------------------------------
(* The dashboards.                                                          *)

LEMMA OthersDashboards ==
    ASSUME TypeOK, PublishesAreDue, [Next]_vars, NEW d \in Dashboards, ~OwnDash(d)
    PROVE  dash'[d] = dash[d] /\ (wakeup[d] => wakeup'[d])
  <1>0. TypeOK /\ PublishesAreDue /\ wakeup \in [Clients \cup Dashboards -> BOOLEAN]
    BY DEF TypeOK
  <1> DEFINE Goal == dash'[d] = dash[d] /\ (wakeup[d] => wakeup'[d])
  <1> SUFFICES Goal
    OBVIOUS
  <1>1. Publish => (wakeup[d] => wakeup'[d])
    BY DEF Publish
  <1>2. ASSUME NEW w \in Writers, Writes(w)
        PROVE  Goal
    BY <1>0, <1>2, WriteEffect
  <1>3. ASSUME NEW w \in Writers, Notifies(w)
        PROVE  Goal
    BY <1>0, <1>1, <1>3, NotifyEffect
  <1>4. CASE ExpirePending
    BY <1>0, <1>4, SweepEffect
  <1>5. CASE Announces
    BY <1>0, <1>1, <1>5, AnnounceEffect
  <1>6. ASSUME NEW t \in Clients, OwnClient(t)
        PROVE  Goal
    BY <1>0, <1>6, ClientEffect, StreamsAssumption
  <1>7. ASSUME NEW e \in Dashboards, OwnDash(e)
        PROVE  Goal
    BY <1>0, <1>7, DashEffect
  <1>8. ASSUME NEW p \in Polls, OwnPoll(p)
        PROVE  Goal
    BY <1>0, <1>8, PollEffect
  <1>9. Tick \/ UNCHANGED vars => Goal
    BY DEF Tick, vars
  <1> HIDE DEF Goal
  <1>10. QED
    BY <1>2, <1>3, <1>4, <1>5, <1>6, <1>7, <1>8, <1>9, Cases

LEMMA ListsStay ==
    ASSUME UNCHANGED <<items, until>>
    PROVE  PendingRequests' = PendingRequests /\ DecidedLists' = DecidedLists
  <1>1. Decided' = Decided /\ \A r : Created(r)' = Created(r)
    BY DEF Decided, Filed, HasPending, Created
  <1>2. NewestDecided' = NewestDecided
    BY <1>1 DEF NewestDecided
  <1>3. QED
    BY <1>2 DEF PendingRequests, DecidedLists, Filed, HasPending

\* ShowsActive of a view, a store, a window and a time; and Grant by Grant.
Showing(shown, its, gs, window, t) ==
    LET early == {i \in Items : gs[i].exp <= window.first} IN
    /\ shown \ ({i \in Items : gs[i].exp > window.at /\ gs[i].exp <= t} \cup early)
          = {i \in Items : its[i[1]][i[2]] = "approved" /\ gs[i].exp > t} \ early
    /\ \A i \in shown : its[i[1]][i[2]] = "approved"

ShowingEach(shown, its, gs, window, t) ==
    \A i \in Items :
       /\ i \in shown => its[i[1]][i[2]] = "approved"
       /\ ~(gs[i].exp <= window.first) =>
             ((i \in shown /\ ~(gs[i].exp > window.at /\ gs[i].exp <= t))
              <=> (its[i[1]][i[2]] = "approved" /\ gs[i].exp > t))

LEMMA EachGrant ==
    ASSUME NEW shown \in SUBSET Items, NEW its, NEW gs, NEW window, NEW t
    PROVE  Showing(shown, its, gs, window, t) <=> ShowingEach(shown, its, gs, window, t)
  <1> DEFINE late == {i \in Items : gs[i].exp > window.at /\ gs[i].exp <= t}
             early == {i \in Items : gs[i].exp <= window.first}
             active == {i \in Items : its[i[1]][i[2]] = "approved" /\ gs[i].exp > t}
  <1>1. Showing(shown, its, gs, window, t) <=>
           /\ shown \ (late \cup early) = active \ early
           /\ \A i \in shown : its[i[1]][i[2]] = "approved"
    BY DEF Showing
  <1>2. ShowingEach(shown, its, gs, window, t) <=>
           \A i \in Items :
              /\ i \in shown => its[i[1]][i[2]] = "approved"
              /\ i \notin early => ((i \in shown /\ i \notin late) <=> i \in active)
    BY DEF ShowingEach
  <1>3. late \subseteq Items /\ early \subseteq Items /\ active \subseteq Items
    OBVIOUS
  <1> HIDE DEF late, early, active
  <1>4. QED
    BY <1>1, <1>2, <1>3

LEMMA ShowsActiveIs ==
    ASSUME NEW d \in Dashboards
    PROVE  /\ ShowsActive(d) <=> Showing(dash[d].last.active, items, grants, sweep, now)
           /\ ShowsActive(d)' <=> Showing(dash'[d].last.active, items', grants', sweep', now')
  BY DEF ShowsActive, Showing, Unannounced, ExpiredEarly, ActiveGrants, State

LEMMA DashActiveType ==
    ASSUME TypeOK, NEW d \in Dashboards
    PROVE  /\ dash[d].last.active \in SUBSET Items /\ dash[d].next \in Views
           /\ dash[d].pc \in {"off", "pending", "decided", "active", "wait"}
  BY DEF TypeOK, DashType, Views

\* The clock and the sweep's window make no dashboard wrong that is to stay
\* asleep: only a window in which no Grant expires moves without a wake-up.
LEMMA ActiveStaysShown ==
    ASSUME TypeOK, TypeOK', PublishesAreDue, WindowsFollowTheClock, [Next]_vars,
           NEW d \in Dashboards, ShowsActive(d), UNCHANGED <<items, grants>>,
           dash'[d] = dash[d], sweep.pc # "tell", sweep'.pc # "tell"
    PROVE  ShowsActive(d)'
  <1>0. /\ now \in Nat /\ now' \in Nat /\ sweep.at \in Int /\ sweep.first \in Int /\ sweep.now \in Nat
        /\ \A i \in Items : grants[i].exp \in Nat
        /\ WindowsFollowTheClock
    BY TimesAssumption DEF TypeOK, SweepType
  <1>1. ShowingEach(dash[d].last.active, items, grants, sweep, now)
    BY DashActiveType, EachGrant, ShowsActiveIs
  <1>2. SUFFICES ShowingEach(dash[d].last.active, items, grants, sweep', now')
    BY <1>2, DashActiveType, EachGrant, ShowsActiveIs
  <1>3. SUFFICES ASSUME NEW i \in Items
                 PROVE  ~(grants[i].exp <= sweep'.first) =>
                    ((i \in dash[d].last.active /\ ~(grants[i].exp > sweep'.at /\ grants[i].exp <= now'))
                     <=> (State(i) = "approved" /\ grants[i].exp > now'))
    BY <1>1 DEF ShowingEach, State
  <1>4. /\ i \in dash[d].last.active => State(i) = "approved"
        /\ grants[i].exp > sweep.first =>
              ((i \in dash[d].last.active /\ ~(grants[i].exp > sweep.at /\ grants[i].exp <= now))
               <=> (State(i) = "approved" /\ grants[i].exp > now))
    BY <1>0, <1>1 DEF ShowingEach, State
  <1>5. CASE WindowStays
    <2>1. sweep'.at = sweep.at /\ sweep'.first = sweep.first /\ (now' = now \/ now' = now + 1)
          /\ sweep.at <= now
      BY <1>0, <1>5 DEF WindowStays, WindowsFollowTheClock
    <2>2. CASE now' = now
      BY <1>0, <1>4, <2>1, <2>2
    <2>3. CASE now' = now + 1 /\ grants[i].exp > now + 1
      BY <1>0, <1>4, <2>1, <2>3
    <2>4. CASE now' = now + 1 /\ ~(grants[i].exp > now + 1)
      BY <1>0, <1>4, <2>1, <2>4
    <2>5. QED
      BY <2>1, <2>2, <2>3, <2>4
  <1>6. CASE WindowOpens
    <2>1. /\ sweep.at = -1 /\ sweep.first = -1 /\ sweep'.at = now /\ sweep'.first = now /\ now' = now
      BY <1>0, <1>6 DEF WindowOpens, WindowsFollowTheClock
    <2>2. QED
      BY <1>0, <1>4, <2>1
  <1>7. CASE WindowMoves
    <2>1. /\ sweep'.at = sweep.now /\ sweep'.first = sweep.first /\ now' = now
          /\ sweep.at <= sweep.now /\ sweep.now <= now
          /\ ExpiredGrants(sweep.at, sweep.now) = {}
      BY <1>0, <1>7 DEF WindowMoves, WindowsFollowTheClock
    <2>2. ~(State(i) = "approved" /\ grants[i].exp > sweep.at /\ grants[i].exp <= sweep.now)
      BY <2>1 DEF ExpiredGrants
    <2>3. CASE grants[i].exp > sweep.at /\ grants[i].exp <= sweep.now
      BY <1>0, <1>4, <2>1, <2>2, <2>3
    <2>4. CASE ~(grants[i].exp > sweep.at /\ grants[i].exp <= sweep.now)
      BY <1>0, <1>4, <2>1, <2>4
    <2>5. QED
      BY <2>3, <2>4
  <1>8. QED
    BY <1>5, <1>6, <1>7, WindowEffect

LEMMA DashboardsAreCurrentStep ==
    ASSUME TypeOK, TypeOK', PublishesAreDue, WindowsFollowTheClock, DashboardsAreCurrent, [Next]_vars
    PROVE  DashboardsAreCurrent'
  <1> DEFINE Pending == PendingRequests
             Histories == DecidedLists
  <1> SUFFICES ASSUME NEW d \in Dashboards, ~wakeup'[d], ~Unpublished'
               PROVE  /\ dash'[d].pc \in {"decided", "active"} => dash'[d].next.pending = Pending'
                      /\ dash'[d].pc = "active" => dash'[d].next.decided \in Histories'
                      /\ dash'[d].pc = "wait" /\ sweep'.pc # "tell" =>
                            /\ dash'[d].last.pending = Pending'
                            /\ dash'[d].last.decided \in Histories'
                            /\ ShowsActive(d)'
    BY DEF DashboardsAreCurrent
  <1>1. UNCHANGED <<items, until, grants>>
    BY Flags
  <1>2. Pending' = Pending /\ Histories' = Histories
    BY <1>1, ListsStay
  <1>3. \/ wakeup[d] \/ Unpublished
        \/ /\ dash[d].pc \in {"decided", "active"} => dash[d].next.pending = Pending
           /\ dash[d].pc = "active" => dash[d].next.decided \in Histories
           /\ dash[d].pc = "wait" /\ sweep.pc # "tell" =>
                 /\ dash[d].last.pending = Pending
                 /\ dash[d].last.decided \in Histories
                 /\ ShowsActive(d)
    BY DEF DashboardsAreCurrent
  <1> HIDE DEF Pending, Histories
  <1>4. CASE OwnDash(d)
    <2>1. /\ UNCHANGED <<now, items, until, grants, writer, sweep, announced, client, poll>>
          /\ \/ dash'[d].pc \in {"off", "pending"} /\ dash'[d].last \in {NoView, dash[d].last}
             \/ /\ dash'[d].pc = "decided" /\ dash'[d].last = dash[d].last /\ UNCHANGED wakeup
                /\ dash'[d].next = [NoView EXCEPT !.known = {r \in Requests : Filed(r)},
                                                 !.pending = PendingRequests]
             \/ /\ dash[d].pc = "decided" /\ dash'[d].pc = "active" /\ UNCHANGED wakeup
                /\ dash'[d].last = dash[d].last
                /\ \E list \in DecidedLists : dash'[d].next = [dash[d].next EXCEPT !.decided = list]
             \/ /\ dash[d].pc = "active" /\ dash'[d].pc = "wait" /\ UNCHANGED wakeup
                /\ dash'[d].last = [dash[d].next EXCEPT !.active = ActiveGrants]
      BY <1>4, DashEffect
    <2>2. ~Unpublished
      BY <2>1 DEF Unpublished
    <2>3. CASE dash'[d].pc \in {"off", "pending"}
      BY <2>3
    <2>4. CASE /\ dash'[d].pc = "decided" /\ dash'[d].last = dash[d].last /\ UNCHANGED wakeup
               /\ dash'[d].next = [NoView EXCEPT !.known = {r \in Requests : Filed(r)},
                                                !.pending = PendingRequests]
      <3>1. dash'[d].next.pending = Pending
        BY <2>4 DEF Pending, NoView
      <3>2. QED
        BY <1>2, <2>4, <3>1
    <2>5. CASE /\ dash[d].pc = "decided" /\ dash'[d].pc = "active" /\ UNCHANGED wakeup
               /\ \E list \in DecidedLists : dash'[d].next = [dash[d].next EXCEPT !.decided = list]
      <3>1. dash'[d].next.decided \in Histories /\ dash'[d].next.pending = dash[d].next.pending
        BY <2>5, DashActiveType DEF Histories, Views
      <3>2. QED
        BY <1>2, <1>3, <2>2, <2>5, <3>1
    <2>6. CASE /\ dash[d].pc = "active" /\ dash'[d].pc = "wait" /\ UNCHANGED wakeup
               /\ dash'[d].last = [dash[d].next EXCEPT !.active = ActiveGrants]
      <3>1. /\ dash'[d].last.decided = dash[d].next.decided /\ dash'[d].last.pending = dash[d].next.pending
            /\ dash'[d].last.active = ActiveGrants
        BY <2>6, DashActiveType DEF Views
      <3>2. ShowsActive(d)'
        <4>0. now \in Int /\ \A i \in Items : grants[i].exp \in Int
          BY TimesAssumption DEF TypeOK
        <4>1. /\ \A i \in ActiveGrants : State(i) = "approved" /\ grants[i].exp > now /\ i \in Items
              /\ \A i \in Unannounced : grants[i].exp <= now
          BY DEF ActiveGrants, Unannounced
        <4>2. ActiveGrants \ (Unannounced \cup ExpiredEarly) = ActiveGrants \ ExpiredEarly
          BY <4>0, <4>1
        <4>3. /\ ActiveGrants' = ActiveGrants /\ Unannounced' = Unannounced /\ ExpiredEarly' = ExpiredEarly
              /\ \A i \in Items : State(i)' = State(i)
          BY <2>1 DEF ActiveGrants, Unannounced, ExpiredEarly, State
        <4>4. QED
          BY <3>1, <4>1, <4>2, <4>3 DEF ShowsActive
      <3>3. QED
        BY <1>2, <1>3, <2>2, <2>6, <3>1, <3>2
    <2>7. QED
      BY <2>1, <2>3, <2>4, <2>5, <2>6
  <1>5. CASE ~OwnDash(d)
    <2>1. dash'[d] = dash[d] /\ ~wakeup[d]
      BY <1>5, OthersDashboards
    <2>2. CASE dash[d].pc = "off"
      BY <2>1, <2>2
    <2>3. CASE dash[d].pc # "off"
      <3>1. ~Publish
        BY <2>3 DEF Publish, Subscribed
      <3>2. ~Unpublished /\ (sweep.pc = "tell" => sweep'.pc = "tell")
        BY <3>1, Flags
      <3>3. ASSUME dash[d].pc = "wait", sweep'.pc # "tell"
            PROVE  ShowsActive(d)'
        BY <1>1, <1>3, <2>1, <3>2, <3>3, ActiveStaysShown
      <3>4. QED
        BY <1>2, <1>3, <2>1, <3>2, <3>3
    <2>4. QED
      BY <2>2, <2>3
  <1>6. QED
    BY <1>4, <1>5

-----------------------------------------------------------------------------
(* The snapshots.                                                           *)

\* Requests that are filed stay so, and what is decided stays decided.
LEMMA RequestsMove ==
    ASSUME TypeOK, FiledAsAWhole, StoreMoves, NEW r \in Requests
    PROVE  /\ Filed(r)' \/ items'[r] = NoItems
           /\ Filed(r) => Filed(r)'
           /\ Filed(r) /\ ~HasPending(r) => ~HasPending(r)'
  <1>0. RequestMoves(r) /\ items'[r] \in [Slots -> ItemStates]
    BY DEF StoreMoves
  <1>1. CASE ~Filed(r) /\ \A k \in Slots : items'[r][k] \in {"pending", "refused"}
    BY <1>1 DEF Filed
  <1>2. CASE \A k \in Slots : ItemMoves(r, k)
    <2>1. CASE Filed(r)
      <3>1. Filed(r)'
        BY <1>2, <2>1 DEF Filed, ItemMoves
      <3>2. ~HasPending(r) => ~HasPending(r)'
        BY <1>2 DEF HasPending, ItemMoves
      <3>3. QED
        BY <3>1, <3>2
    <2>2. CASE ~Filed(r)
      <3>1. \A k \in Slots : items[r][k] = "absent"
        BY <2>2 DEF FiledAsAWhole, NoItems
      <3>2. \A k \in Slots : items'[r][k] = "absent"
        BY <1>2, <3>1 DEF ItemMoves
      <3>3. items'[r] = NoItems
        BY <1>0, <3>2 DEF NoItems
      <3>4. QED
        BY <2>2, <3>3
    <2>3. QED
      BY <2>1, <2>2
  <1>3. QED
    BY <1>0, <1>1, <1>2 DEF RequestMoves

\* So do items that were approved, and their Grants.
LEMMA SettledStays ==
    ASSUME TypeOK, FiledAsAWhole, StoreMoves, NEW i \in Items, Settled(i)
    PROVE  /\ Settled(i)' /\ grants'[i] = grants[i]
           /\ State(i) = "revoked" => State(i)' = "revoked"
  <1>1. grants'[i] = grants[i]
    BY DEF StoreMoves, GrantMoves, Settled
  <1>2. QED
    BY <1>1, StateMoves DEF Settled, State

LEMMA ClockMoves ==
    ASSUME TypeOK, PublishesAreDue, [Next]_vars
    PROVE  now' = now \/ now' = now + 1
  BY WindowEffect DEF WindowStays, WindowOpens, WindowMoves

LEMMA FiledAsAWholeStep ==
    ASSUME TypeOK, PublishesAreDue, FiledAsAWhole, [Next]_vars
    PROVE  FiledAsAWhole'
  BY Flags, RequestsMove DEF FiledAsAWhole

LEMMA NothingDropsOutStep ==
    ASSUME TypeOK, PublishesAreDue, FiledAsAWhole, NothingDropsOut, [Next]_vars
    PROVE  NothingDropsOut'
  <1> DEFINE FiledNext == {r \in Requests : Filed(r)'}
             DecidedNext == {r \in FiledNext : ~HasPending(r)'}
             Shown(view) == view.known \cup DOMAIN view.decided
             Left(view) == view.known \ (DOMAIN view.pending \cup DOMAIN view.decided)
             TooOld(r, history) == /\ Cardinality(DOMAIN history) = DecidedLimit
                                   /\ \A q \in DOMAIN history : until[q] - PendingTTL >= until[r] - PendingTTL
             TooOldNext(r, history) == /\ Cardinality(DOMAIN history) = DecidedLimit
                                       /\ \A q \in DOMAIN history : until'[q] - PendingTTL >= until'[r] - PendingTTL
             Whole(view) == Shown(view) \subseteq FiledNext /\ \A r \in Left(view) : TooOldNext(r, view.decided)
  <1>0. DOMAIN PendingRequests = {r \in Requests : Filed(r) /\ HasPending(r)}
    BY DEF PendingRequests
  <1>1. /\ Decided \subseteq DecidedNext
        /\ \A r \in Requests : Filed(r) => r \in FiledNext /\ until'[r] = until[r]
    BY Flags, RequestsMove DEF Decided
  <1>2. SUFFICES ASSUME NEW d \in Dashboards
                 PROVE  /\ Whole(dash'[d].last)
                        /\ dash'[d].pc = "decided" =>
                              /\ Shown(dash'[d].next) \subseteq FiledNext
                              /\ dash'[d].next.known \subseteq DOMAIN dash'[d].next.pending \cup DecidedNext
                        /\ dash'[d].pc = "active" => Whole(dash'[d].next)
    BY DEF NothingDropsOut, ShowsFiled, Complete, PushedOut, Created, Decided
  <1>3. /\ \A r \in Shown(dash[d].last) : Filed(r)
        /\ \A r \in Left(dash[d].last) : TooOld(r, dash[d].last.decided)
        /\ dash[d].pc = "decided" =>
              /\ \A r \in Shown(dash[d].next) : Filed(r)
              /\ dash[d].next.known \subseteq DOMAIN dash[d].next.pending \cup Decided
        /\ dash[d].pc = "active" =>
              /\ \A r \in Shown(dash[d].next) : Filed(r)
              /\ \A r \in Left(dash[d].next) : TooOld(r, dash[d].next.decided)
    BY DEF NothingDropsOut, ShowsFiled, Complete, PushedOut, Created
  <1>4. /\ dash[d].last.known \subseteq Requests /\ DOMAIN dash[d].last.decided \subseteq Requests
        /\ dash[d].next.known \subseteq Requests /\ DOMAIN dash[d].next.decided \subseteq Requests
    BY DEF TypeOK, DashType, Views, Lists
  <1>5. ASSUME NEW view, view.known \subseteq Requests, DOMAIN view.decided \subseteq Requests,
               \A r \in Shown(view) : Filed(r), \A r \in Left(view) : TooOld(r, view.decided)
        PROVE  Whole(view)
    <2>1. \A r \in Shown(view) : r \in FiledNext /\ until'[r] = until[r]
      BY <1>1, <1>5
    <2>2. ASSUME NEW r \in Left(view)
          PROVE  TooOldNext(r, view.decided)
      <3>1. until'[r] = until[r] /\ \A q \in DOMAIN view.decided : until'[q] = until[q]
        BY <2>1
      <3>2. QED
        BY <1>5, <3>1
    <2>3. QED
      BY <2>1, <2>2
  <1>6. Whole(dash[d].last)
    BY <1>3, <1>4, <1>5
  <1>7. dash[d].pc = "active" => Whole(dash[d].next)
    BY <1>3, <1>4, <1>5
  <1> HIDE DEF FiledNext, DecidedNext
  <1>8. CASE OwnDash(d)
    <2>1. \/ dash'[d].pc \in {"off", "pending"} /\ dash'[d].last \in {NoView, dash[d].last}
          \/ /\ dash'[d].pc = "decided" /\ dash'[d].last = dash[d].last
             /\ dash'[d].next = [NoView EXCEPT !.known = {r \in Requests : Filed(r)},
                                              !.pending = PendingRequests]
          \/ /\ dash[d].pc = "decided" /\ dash'[d].pc = "active"
             /\ dash'[d].last = dash[d].last
             /\ \E list \in DecidedLists : dash'[d].next = [dash[d].next EXCEPT !.decided = list]
          \/ /\ dash[d].pc = "active" /\ dash'[d].pc = "wait"
             /\ dash'[d].last = [dash[d].next EXCEPT !.active = ActiveGrants]
      BY <1>8, DashEffect
    <2>2. CASE dash'[d].pc \in {"off", "pending"} /\ dash'[d].last \in {NoView, dash[d].last}
      <3>1. Whole(NoView)
        BY DEF NoView
      <3>2. QED
        BY <1>6, <2>2, <3>1
    <2>3. CASE /\ dash'[d].pc = "decided" /\ dash'[d].last = dash[d].last
               /\ dash'[d].next = [NoView EXCEPT !.known = {r \in Requests : Filed(r)},
                                                !.pending = PendingRequests]
      <3>1. /\ dash'[d].next.known = {r \in Requests : Filed(r)} /\ dash'[d].next.pending = PendingRequests
            /\ DOMAIN dash'[d].next.decided = {}
        BY <2>3 DEF NoView
      <3>2. {r \in Requests : Filed(r)} \subseteq DOMAIN PendingRequests \cup Decided
        BY <1>0 DEF Decided
      <3>3. QED
        BY <1>1, <1>6, <2>3, <3>1, <3>2
    <2>4. CASE /\ dash[d].pc = "decided" /\ dash'[d].pc = "active"
               /\ dash'[d].last = dash[d].last
               /\ \E list \in DecidedLists : dash'[d].next = [dash[d].next EXCEPT !.decided = list]
      <3> PICK list \in DecidedLists : dash'[d].next = [dash[d].next EXCEPT !.decided = list]
        BY <2>4
      <3>1. /\ dash'[d].next.known = dash[d].next.known /\ dash'[d].next.pending = dash[d].next.pending
            /\ dash'[d].next.decided = list
        BY DashActiveType DEF Views
      <3>2. /\ DOMAIN list \subseteq Decided /\ Decided \subseteq Requests /\ \A r \in Decided : Filed(r)
            /\ \A r \in Decided \ DOMAIN list : TooOld(r, list)
        BY HistoryIs DEF Decided, Created
      <3>3. \A r \in Shown(dash'[d].next) : Filed(r)
        BY <1>3, <2>4, <3>1, <3>2
      <3>4. \A r \in Left(dash'[d].next) : TooOld(r, dash'[d].next.decided)
        BY <1>3, <2>4, <3>1, <3>2
      <3>5. Whole(dash'[d].next)
        BY <1>4, <1>5, <3>1, <3>2, <3>3, <3>4
      <3>6. QED
        BY <1>6, <2>4, <3>5
    <2>5. CASE /\ dash[d].pc = "active" /\ dash'[d].pc = "wait"
               /\ dash'[d].last = [dash[d].next EXCEPT !.active = ActiveGrants]
      <3>1. /\ dash'[d].last.known = dash[d].next.known /\ dash'[d].last.pending = dash[d].next.pending
            /\ dash'[d].last.decided = dash[d].next.decided
        BY <2>5, DashActiveType DEF Views
      <3>2. QED
        BY <1>7, <2>5, <3>1
    <2>6. QED
      BY <2>1, <2>2, <2>3, <2>4, <2>5
  <1>9. CASE ~OwnDash(d)
    <2>1. dash'[d] = dash[d]
      BY <1>9, OthersDashboards
    <2>2. dash[d].pc = "decided" =>
             /\ Shown(dash[d].next) \subseteq FiledNext
             /\ dash[d].next.known \subseteq DOMAIN dash[d].next.pending \cup DecidedNext
      BY <1>1, <1>3, <1>4
    <2>3. QED
      BY <1>6, <1>7, <2>1, <2>2
  <1>10. QED
    BY <1>8, <1>9

LEMMA NothingShownAtFirst == ShownApproved(NoView) = {}
  BY DEF ShownApproved, NoView

\* What the two queries of requests show as approved is.
LEMMA QueriesShowSettled ==
    ASSUME NEW i \in Items, NEW list \in {PendingRequests} \cup DecidedLists,
           i[1] \in DOMAIN list, list[i[1]][i[2]] = "approved"
    PROVE  Settled(i)
  <1>1. list[i[1]] = items[i[1]]
    BY HistoryIs DEF PendingRequests
  <1>2. QED
    BY <1>1 DEF Settled, State

LEMMA ApprovalsShowTheirGrantsStep ==
    ASSUME TypeOK, PublishesAreDue, FiledAsAWhole, ApprovalsShowTheirGrants, [Next]_vars
    PROVE  ApprovalsShowTheirGrants'
  <1>0. /\ StoreMoves /\ now \in Int /\ (now' = now \/ now' = now + 1)
        /\ \A i \in Items : grants[i].exp \in Int
    BY Flags, ClockMoves, TimesAssumption DEF TypeOK
  <1>1. \A i \in Items : Settled(i) =>
           /\ Settled(i)' /\ grants'[i] = grants[i]
           /\ State(i) = "revoked" => State(i)' = "revoked"
    BY <1>0, SettledStays
  <1>2. SUFFICES ASSUME NEW d \in Dashboards
                 PROVE  /\ \A i \in ShownApproved(dash'[d].last) :
                              /\ Settled(i)'
                              /\ i \in dash'[d].last.active \/ State(i)' = "revoked" \/ grants'[i].exp <= now'
                        /\ dash'[d].pc \in {"decided", "active"} =>
                              \A i \in ShownApproved(dash'[d].next) : Settled(i)'
    BY DEF ApprovalsShowTheirGrants
  <1>3. /\ \A i \in ShownApproved(dash[d].last) :
              /\ Settled(i)
              /\ i \in dash[d].last.active \/ State(i) = "revoked" \/ grants[i].exp <= now
        /\ dash[d].pc \in {"decided", "active"} => \A i \in ShownApproved(dash[d].next) : Settled(i)
    BY DEF ApprovalsShowTheirGrants
  <1>4. \A view : ShownApproved(view) \subseteq Items
    BY DEF ShownApproved
  <1>5. \A i \in ShownApproved(dash[d].last) :
           /\ Settled(i)'
           /\ i \in dash[d].last.active \/ State(i)' = "revoked" \/ grants'[i].exp <= now'
    BY <1>0, <1>1, <1>3, <1>4
  <1>6. CASE OwnDash(d)
    <2>1. /\ UNCHANGED <<now, items, grants>>
          /\ \/ dash'[d].pc \in {"off", "pending"} /\ dash'[d].last \in {NoView, dash[d].last}
             \/ /\ dash'[d].pc = "decided" /\ dash'[d].last = dash[d].last
                /\ dash'[d].next = [NoView EXCEPT !.known = {r \in Requests : Filed(r)},
                                                 !.pending = PendingRequests]
             \/ /\ dash[d].pc = "decided" /\ dash'[d].pc = "active"
                /\ dash'[d].last = dash[d].last
                /\ \E list \in DecidedLists : dash'[d].next = [dash[d].next EXCEPT !.decided = list]
             \/ /\ dash[d].pc = "active" /\ dash'[d].pc = "wait"
                /\ dash'[d].last = [dash[d].next EXCEPT !.active = ActiveGrants]
      BY <1>6, DashEffect
    <2>2. CASE dash'[d].pc \in {"off", "pending"} /\ dash'[d].last \in {NoView, dash[d].last}
      BY <1>5, <2>2, NothingShownAtFirst
    <2>3. CASE /\ dash'[d].pc = "decided" /\ dash'[d].last = dash[d].last
               /\ dash'[d].next = [NoView EXCEPT !.known = {r \in Requests : Filed(r)},
                                                !.pending = PendingRequests]
      <3>1. dash'[d].next.pending = PendingRequests /\ dash'[d].next.decided = <<>>
        BY <2>3 DEF NoView
      <3>2. ASSUME NEW i \in ShownApproved(dash'[d].next)
            PROVE  Settled(i)
        <4>1. i \in Items /\ i[1] \in DOMAIN PendingRequests /\ PendingRequests[i[1]][i[2]] = "approved"
          BY <3>1, <3>2 DEF ShownApproved
        <4>2. QED
          BY <4>1, QueriesShowSettled
      <3>3. QED
        BY <1>1, <1>4, <1>5, <2>3, <3>2
    <2>4. CASE /\ dash[d].pc = "decided" /\ dash'[d].pc = "active"
               /\ dash'[d].last = dash[d].last
               /\ \E list \in DecidedLists : dash'[d].next = [dash[d].next EXCEPT !.decided = list]
      <3> PICK list \in DecidedLists : dash'[d].next = [dash[d].next EXCEPT !.decided = list]
        BY <2>4
      <3>1. dash'[d].next.pending = dash[d].next.pending /\ dash'[d].next.decided = list
        BY DashActiveType DEF Views
      <3>2. ASSUME NEW i \in ShownApproved(dash'[d].next)
            PROVE  Settled(i)
        <4>1. /\ i \in Items
              /\ \/ i \in ShownApproved(dash[d].next)
                 \/ i[1] \in DOMAIN list /\ list[i[1]][i[2]] = "approved"
          BY <3>1, <3>2 DEF ShownApproved
        <4>2. QED
          BY <1>3, <2>4, <4>1, QueriesShowSettled
      <3>3. QED
        BY <1>1, <1>4, <1>5, <2>4, <3>2
    <2>5. CASE /\ dash[d].pc = "active" /\ dash'[d].pc = "wait"
               /\ dash'[d].last = [dash[d].next EXCEPT !.active = ActiveGrants]
      <3>1. /\ dash'[d].last.pending = dash[d].next.pending
            /\ dash'[d].last.decided = dash[d].next.decided
            /\ dash'[d].last.active = ActiveGrants
        BY <2>5, DashActiveType DEF Views
      <3>2. ShownApproved(dash'[d].last) = ShownApproved(dash[d].next)
        BY <3>1 DEF ShownApproved
      <3>3. ASSUME NEW i \in ShownApproved(dash[d].next)
            PROVE  /\ Settled(i)'
                   /\ i \in ActiveGrants \/ State(i)' = "revoked" \/ grants'[i].exp <= now'
        <4>1. Settled(i) /\ i \in Items
          BY <1>3, <1>4, <2>5, <3>3
        <4>2. State(i) = "approved" => i \in ActiveGrants \/ grants[i].exp <= now
          BY <1>0, <4>1 DEF ActiveGrants
        <4>3. QED
          BY <1>1, <2>1, <4>1, <4>2 DEF Settled
      <3>4. QED
        BY <2>5, <3>1, <3>2, <3>3
    <2>6. QED
      BY <2>1, <2>2, <2>3, <2>4, <2>5
  <1>7. CASE ~OwnDash(d)
    <2>1. dash'[d] = dash[d]
      BY <1>7, OthersDashboards
    <2>2. QED
      BY <1>1, <1>3, <1>4, <1>5, <2>1
  <1>8. QED
    BY <1>6, <1>7

-----------------------------------------------------------------------------
(* The three invariants.                                                    *)

LEMMA StreamsInvInit == Init => StreamsInv
  <1> SUFFICES ASSUME Init
               PROVE  StreamsInv
    OBVIOUS
  <1>1. TypeOK
    BY TypeInit
  <1>2. PublishesAreDue /\ ClientsAreCurrent /\ PollsAreCurrent /\ DashboardsAreCurrent
    <2>1. \A s \in Clients : client[s].pc = "off"
      BY DEF Init, NoClient
    <2>2. \A p \in Polls : poll[p].pc = "off"
      BY DEF Init, NoPoll
    <2>3. \A d \in Dashboards : dash[d].pc = "off"
      BY DEF Init, NoDash
    <2>4. QED
      BY <2>1, <2>2, <2>3 DEF Init, PublishesAreDue, ClientsAreCurrent, PollsAreCurrent, DashboardsAreCurrent
  <1>3. SnapshotsAreWhole
    <2>1. FiledAsAWhole
      BY DEF Init, FiledAsAWhole
    <2>2. \A d \in Dashboards : dash[d].pc = "off" /\ dash[d].last = NoView
      BY DEF Init, NoDash
    <2>3. NothingDropsOut /\ ApprovalsShowTheirGrants
      BY <2>2, NothingShownAtFirst DEF NothingDropsOut, ShowsFiled, Complete, ApprovalsShowTheirGrants, NoView
    <2>4. QED
      BY <2>1, <2>3 DEF SnapshotsAreWhole
  <1>4. ExpiriesAreAnnouncedOnce
    <2>1. \A i \in Items : announced[i] = 0 /\ ~grants[i].live
      BY DEF Init, NoGrant
    <2>2. sweep.pc = "expire" /\ sweep.at = -1 /\ sweep.first = -1 /\ now = 0
      BY DEF Init
    <2>3. QED
      BY <2>1, <2>2 DEF ExpiriesAreAnnouncedOnce, WindowsFollowTheClock
  <1>5. QED
    BY <1>1, <1>2, <1>3, <1>4 DEF StreamsInv, ListenersAreCurrent

LEMMA StreamsInvStep == StreamsInv /\ [Next]_vars => StreamsInv'
  <1> SUFFICES ASSUME StreamsInv, [Next]_vars
               PROVE  StreamsInv'
    OBVIOUS
  <1>0. /\ TypeOK /\ PublishesAreDue /\ ClientsAreCurrent /\ PollsAreCurrent /\ DashboardsAreCurrent
        /\ FiledAsAWhole /\ NothingDropsOut /\ ApprovalsShowTheirGrants
        /\ ExpiriesAreAnnouncedOnce /\ WindowsFollowTheClock
    BY DEF StreamsInv, ListenersAreCurrent, SnapshotsAreWhole, ExpiriesAreAnnouncedOnce
  <1>1. TypeOK' /\ PublishesAreDue'
    BY <1>0, TypeStep, PublishesAreDueStep
  <1>2. ClientsAreCurrent' /\ PollsAreCurrent'
    BY <1>0, ClientsAreCurrentStep, PollsAreCurrentStep
  <1>3. DashboardsAreCurrent'
    BY <1>0, <1>1, DashboardsAreCurrentStep
  <1>4. FiledAsAWhole' /\ NothingDropsOut' /\ ApprovalsShowTheirGrants'
    BY <1>0, FiledAsAWholeStep, NothingDropsOutStep, ApprovalsShowTheirGrantsStep
  <1>5. ExpiriesAreAnnouncedOnce'
    BY <1>0, ExpiriesStep
  <1>6. QED
    BY <1>1, <1>2, <1>3, <1>4, <1>5 DEF StreamsInv, ListenersAreCurrent, SnapshotsAreWhole

\* Streams, polls, snapshots and the sweep stay consistent together (EventBus,
\* changeSignal, WatchGrantRequest, WatchEvents, Request, Run).
THEOREM StreamsInvHolds == Spec => []StreamsInv
  <1>1. Init => StreamsInv
    BY StreamsInvInit
  <1>2. StreamsInv /\ [Next]_vars => StreamsInv'
    BY StreamsInvStep
  <1>3. QED
    BY <1>1, <1>2, PTL DEF Spec

\* Whoever waits for a change has seen the last one or has a wake-up coming,
\* for any number of streams, polls, requests and writers (EventBus.Publish,
\* changeSignal.notify, WatchGrantRequest, WatchEvents, Request).
THEOREM ListenersStayCurrent == Spec => []ListenersAreCurrent
  <1>1. StreamsInv => ListenersAreCurrent
    BY DEF StreamsInv
  <1>2. QED
    BY <1>1, StreamsInvHolds, PTL

\* A snapshot of three queries leaves out no request but those that its limit
\* pushes out of the history, and shows no approval without its Grant, whatever
\* commits between the queries (snapshot, GrantRequests).
THEOREM SnapshotsStayWhole == Spec => []SnapshotsAreWhole
  <1>1. StreamsInv => SnapshotsAreWhole
    BY DEF StreamsInv
  <1>2. QED
    BY <1>1, StreamsInvHolds, PTL

\* Every Grant that lapses after the first sweep is announced exactly once,
\* whichever queries fail in between (AnnounceExpiredGrants).
THEOREM ExpiriesStayAnnouncedOnce == Spec => []ExpiriesAreAnnouncedOnce
  <1>1. StreamsInv => ExpiriesAreAnnouncedOnce
    BY DEF StreamsInv
  <1>2. QED
    BY <1>1, StreamsInvHolds, PTL
=============================================================================
