------------------------------ MODULE Streams -------------------------------
(***************************************************************************)
(* How a change in the store reaches those who wait for it: the EventBus,  *)
(* the WatchGrantRequest and WatchEvents streams, Service.Request's long   *)
(* poll on the change signal, and the sweep of Service.Run that turns the  *)
(* passing of time into changes and wake-ups.                              *)
(*                                                                         *)
(* A change is one store transaction and, after it and in this order, one  *)
(* notify of the change signal and the Publishes of the Notifier.  Wake-   *)
(* ups carry nothing: whoever wakes reads the store again.                 *)
(***************************************************************************)
EXTENDS Integers, FiniteSets

CONSTANTS Requests, Slots,  \* Grant Requests and the items of each
          Writers,          \* goroutines serving CreateRequest, Decide, Revoke
          Clients,          \* WatchGrantRequest streams
          Dashboards,       \* WatchEvents streams
          Polls,            \* Service.Request calls with a wait
          PendingTTL, GrantTTL,
          DecidedLimit,     \* decidedRequestLimit
          MaxTime,          \* bound: the clock stops here
          MaxLag,           \* bound: how long a decision is under way
          MaxFaults         \* bound: failing queries, refused calls to OpenBao

ASSUME TimesAssumption ==
    /\ PendingTTL \in Nat \ {0} /\ GrantTTL \in Nat \ {0}
    /\ DecidedLimit \in Nat \ {0}
    /\ MaxTime \in Nat /\ MaxLag \in Nat /\ MaxFaults \in Nat
ASSUME SlotsFinite == Requests # {} /\ IsFiniteSet(Requests) /\ IsFiniteSet(Slots)
\* Every stream has a subscription of its own.
ASSUME StreamsAssumption == Clients \cap Dashboards = {}

VARIABLES now,
          items,      \* items[r][k]: the state of item k of request r
          until,      \* until[r]: the pending deadline of request r
          grants,     \* grants[i]: expiry of the Grant of item i, and whether
                      \*   it was still active when it was stored
          writer,     \* writer[w]: what is left to announce of w's change
          sweep,      \* Service.Run and its AnnounceExpiredGrants window
          announced,  \* announced[i]: how often i's expiry was announced
          wakeup,     \* wakeup[s]: s's channel holds a wake-up (if subscribed)
          client,     \* client[s]: a WatchGrantRequest stream
          dash,       \* dash[d]: a WatchEvents stream
          poll,       \* poll[p]: a long poll
          faults

vars == <<now, items, until, grants, writer, sweep, announced, wakeup,
          client, dash, poll, faults>>

Items == Requests \X Slots
ItemStates == {"absent", "pending", "refused", "approved", "rejected", "expired", "revoked"}
Filed(r) == \A k \in Slots : items[r][k] # "absent"
HasPending(r) == \E k \in Slots : items[r][k] = "pending"
State(i) == items[i[1]][i[2]]

\* The row's created_at; the pending deadline is computed from it.
Created(r) == until[r] - PendingTTL
\* DB.GrantRequests and DB.ActiveGrants, as one query each.
PendingRequests == [r \in {q \in Requests : Filed(q) /\ HasPending(q)} |-> items[r]]
Decided == {r \in Requests : Filed(r) /\ ~HasPending(r)}
\* The newest decided requests, as many as the limit; which of those created in
\* the same millisecond, SQL leaves open.
NewestDecided ==
    {S \in SUBSET Decided :
        /\ Cardinality(S) <= DecidedLimit
        /\ S = Decided \/ Cardinality(S) = DecidedLimit
        /\ \A r \in S, q \in Decided \ S : Created(r) >= Created(q)}
DecidedLists == {[r \in S |-> items[r]] : S \in NewestDecided}
\* Mutant: a Grant in its last instant is left out.
ActiveGrantsShort == {i \in Items : State(i) = "approved" /\ grants[i].exp > now + 1}
ActiveGrants == {i \in Items : State(i) = "approved" /\ grants[i].exp > now}
\* Mutant: both ends belong to the window.
ExpiredGrantsClosed(after, upTo) ==
    {i \in Items : State(i) = "approved" /\ grants[i].exp >= after /\ grants[i].exp <= upTo}
\* DB.ExpiredGrants: unrevoked Grants that expired in (after, upTo].
ExpiredGrants(after, upTo) ==
    {i \in Items : State(i) = "approved" /\ grants[i].exp > after /\ grants[i].exp <= upTo}

NoItems == [k \in Slots |-> "absent"]
NoGrant == [exp |-> 0, live |-> FALSE]
NoView == [known |-> {}, pending |-> <<>>, decided |-> <<>>, active |-> {}]
NoClient == [pc |-> "off", req |-> CHOOSE r \in Requests : TRUE, last |-> NoItems, valid |-> TRUE]
NoDash == [pc |-> "off", last |-> NoView, next |-> NoView]
NoPoll == [pc |-> "off", req |-> CHOOSE r \in Requests : TRUE, first |-> NoItems, signalled |-> FALSE]

Init ==
    /\ now = 0
    /\ items = [r \in Requests |-> NoItems]
    /\ until = [r \in Requests |-> 0]
    /\ grants = [i \in Items |-> NoGrant]
    /\ writer = [w \in Writers |-> [pc |-> "idle", left |-> 0]]
    /\ sweep = [pc |-> "expire", left |-> 0, now |-> 0, at |-> -1, first |-> -1]
    /\ announced = [i \in Items |-> 0]
    /\ wakeup = [s \in Clients \cup Dashboards |-> FALSE]
    /\ client = [s \in Clients |-> NoClient]
    /\ dash = [d \in Dashboards |-> NoDash]
    /\ poll = [p \in Polls |-> NoPoll]
    /\ faults = 0

Fault == faults < MaxFaults /\ faults' = faults + 1
NoFault == UNCHANGED faults

\* EventBus.Publish: every subscriber's channel holds a wake-up afterwards.
Subscribed(s) == \/ s \in Clients /\ client[s].pc # "off"
                 \/ s \in Dashboards /\ dash[s].pc # "off"
\* Mutant: an unbuffered channel only wakes who is waiting for it.
PublishUnbuffered ==
    wakeup' = [s \in Clients \cup Dashboards |->
        \/ s \in Clients /\ client[s].pc = "wait"
        \/ s \in Dashboards /\ dash[s].pc = "wait"
        \/ wakeup[s]]
Publish == wakeup' = [s \in Clients \cup Dashboards |-> Subscribed(s) \/ wakeup[s]]
\* changeSignal.notify: the channel every waiting poll holds is closed.
Signal == poll' = [p \in Polls |-> [poll[p] EXCEPT !.signalled = poll[p].pc # "off"]]
-----------------------------------------------------------------------------
(* The calls that change the store *)

StreamsKept == UNCHANGED <<client, dash>>
WriteKept == UNCHANGED <<now, sweep, announced, wakeup, poll>> /\ StreamsKept /\ NoFault
\* The transaction is committed; the change signal, the request's Publish and
\* those of its new Grants follow.
Commit(w, publishes) == writer' = [writer EXCEPT ![w] = [pc |-> "signal", left |-> publishes]]

\* CreateRequest: every item is pending or refused.
FileRequest(w, r) ==
    /\ writer[w].pc = "idle" /\ ~Filed(r)
    /\ \E filed \in [Slots -> {"pending", "refused"}] : items' = [items EXCEPT ![r] = filed]
    /\ until' = [until EXCEPT ![r] = now + PendingTTL]
    /\ Commit(w, 1)
    /\ UNCHANGED grants /\ WriteKept

\* Decide: some pending items are approved or rejected.  The expiry counts from
\* the time the decision began, which may be any number of OpenBao calls ago.
Decide(w, r) ==
    /\ writer[w].pc = "idle"
    /\ \E batch \in SUBSET {k \in Slots : items[r][k] = "pending"} \ {{}} :
       \E verdict \in [batch -> {"approved", "rejected"}], began \in {t \in 0..now : now - t <= MaxLag} :
          LET approved == {k \in batch : verdict[k] = "approved"} IN
          /\ items' = [items EXCEPT ![r] =
                [k \in Slots |-> IF k \in batch THEN verdict[k] ELSE @[k]]]
          /\ grants' = [i \in Items |->
                IF i[1] = r /\ i[2] \in approved
                THEN [exp |-> began + GrantTTL, live |-> began + GrantTTL > now]
                ELSE grants[i]]
          /\ Commit(w, 1 + Cardinality(approved))
    /\ UNCHANGED until /\ WriteKept

\* Revoke: a Grant that was active when the call began, and its item.
Revoke(w, i) ==
    /\ writer[w].pc = "idle" /\ State(i) = "approved" /\ grants[i].exp + MaxLag > now
    /\ items' = [items EXCEPT ![i[1]][i[2]] = "revoked"]
    /\ Commit(w, 1)
    /\ UNCHANGED <<until, grants>> /\ WriteKept

NotifyKept == UNCHANGED <<now, items, until, grants, sweep, announced>> /\ StreamsKept /\ NoFault

WriterSignals(w) ==
    /\ writer[w].pc = "signal"
    /\ Signal
    /\ writer' = [writer EXCEPT ![w].pc = "publish"]
    /\ UNCHANGED wakeup /\ NotifyKept

\* Notifier.RequestChanged, then GrantChanged once per new Grant.
WriterPublishes(w) ==
    /\ writer[w].pc \in {"publish", "more"}
    /\ Publish
    /\ writer' = [writer EXCEPT ![w] = IF @.left = 1 THEN [pc |-> "idle", left |-> 0]
                                       ELSE [pc |-> "more", left |-> @.left - 1]]
    /\ UNCHANGED poll /\ NotifyKept

-----------------------------------------------------------------------------
(* Service.Run: ExpirePending, AnnounceExpiredGrants, wait for the ticker *)

SweepKept == UNCHANGED <<now, until, grants, writer>> /\ StreamsKept
Sweep(pc) == sweep' = [sweep EXCEPT !.pc = pc]

Overdue == {r \in Requests : Filed(r) /\ HasPending(r) /\ until[r] <= now}

\* Mutant: long polls are not told.
ExpirePendingQuietly ==
    /\ sweep.pc = "expire"
    /\ items' = [r \in Requests |-> [k \in Slots |->
          IF r \in Overdue /\ items[r][k] = "pending" THEN "expired" ELSE items[r][k]]]
    /\ sweep' = [sweep EXCEPT !.pc = IF Overdue = {} THEN "announce" ELSE "publish",
                              !.left = Cardinality(Overdue)]
    /\ UNCHANGED <<announced, wakeup, poll>> /\ SweepKept /\ NoFault
\* ExpirePendingItems: one transaction for every overdue request.
ExpirePending ==
    /\ sweep.pc = "expire"
    /\ items' = [r \in Requests |-> [k \in Slots |->
          IF r \in Overdue /\ items[r][k] = "pending" THEN "expired" ELSE items[r][k]]]
    /\ sweep' = [sweep EXCEPT !.pc = IF Overdue = {} THEN "announce" ELSE "signal",
                              !.left = Cardinality(Overdue)]
    /\ UNCHANGED <<announced, wakeup, poll>> /\ SweepKept /\ NoFault

\* It fails: the error is logged and the loop goes on.
ExpirePendingFails ==
    /\ sweep.pc = "expire"
    /\ Sweep("announce")
    /\ UNCHANGED <<items, announced, wakeup, poll>> /\ SweepKept /\ Fault

SweepSignals ==
    /\ sweep.pc = "signal"
    /\ Signal
    /\ Sweep("publish")
    /\ UNCHANGED <<items, announced, wakeup>> /\ SweepKept /\ NoFault

\* Mutant: one RequestChanged too many.
SweepPublishesMore ==
    /\ sweep.pc \in {"publish", "more"}
    /\ Publish
    /\ sweep' = [sweep EXCEPT !.pc = IF sweep.left = 0 THEN "announce" ELSE "more",
                              !.left = @ - 1]
    /\ UNCHANGED <<items, announced, poll>> /\ SweepKept /\ NoFault
\* One RequestChanged per expired request, then on to the Grants.
SweepPublishes ==
    /\ sweep.pc \in {"publish", "more"}
    /\ Publish
    /\ sweep' = [sweep EXCEPT !.pc = IF sweep.left = 1 THEN "announce" ELSE "more",
                              !.left = @ - 1]
    /\ UNCHANGED <<items, announced, poll>> /\ SweepKept /\ NoFault

\* AnnounceExpiredGrants reads the clock; the first call only remembers it.
AnnounceBegins ==
    /\ sweep.pc = "announce"
    /\ sweep' = IF sweep.at = -1
                THEN [sweep EXCEPT !.pc = "sleep", !.at = now, !.first = now]
                ELSE [sweep EXCEPT !.pc = "query", !.now = now]
    /\ UNCHANGED <<items, announced, wakeup, poll>> /\ SweepKept /\ NoFault

\* The window moves once its Grants are known.
AnnounceQueries ==
    /\ sweep.pc = "query"
    /\ LET expired == ExpiredGrants(sweep.at, sweep.now) IN
       /\ sweep' = [sweep EXCEPT !.at = sweep.now, !.now = 0, !.left = Cardinality(expired),
                                 !.pc = IF expired = {} THEN "sleep" ELSE "tell"]
       /\ announced' = [i \in Items |-> announced[i] + IF i \in expired THEN 1 ELSE 0]
    /\ UNCHANGED <<items, wakeup, poll>> /\ SweepKept /\ NoFault

\* Mutant: the window moves although its Grants are not known.
AnnounceFailsForward ==
    /\ sweep.pc = "query"
    /\ sweep' = [sweep EXCEPT !.pc = "sleep", !.at = sweep.now, !.now = 0]
    /\ UNCHANGED <<items, announced, wakeup, poll>> /\ SweepKept /\ Fault
\* The query fails: the same window is tried again with the next tick.
AnnounceFails ==
    /\ sweep.pc = "query"
    /\ sweep' = [sweep EXCEPT !.pc = "sleep", !.now = 0]
    /\ UNCHANGED <<items, announced, wakeup, poll>> /\ SweepKept /\ Fault

\* GrantChanged once per expired Grant.
AnnouncePublishes ==
    /\ sweep.pc = "tell"
    /\ Publish
    /\ sweep' = [sweep EXCEPT !.pc = IF sweep.left = 1 THEN "sleep" ELSE "tell", !.left = @ - 1]
    /\ UNCHANGED <<items, announced, poll>> /\ SweepKept /\ NoFault

SweepTick ==
    /\ sweep.pc = "sleep"
    /\ Sweep("expire")
    /\ UNCHANGED <<items, announced, wakeup, poll>> /\ SweepKept /\ NoFault
-----------------------------------------------------------------------------
(* WatchGrantRequest *)

ReadKept == UNCHANGED <<now, items, until, grants, writer, sweep, announced>>
ClientKept == ReadKept /\ UNCHANGED <<dash, poll>>
Client(s, changes) == client' = [client EXCEPT ![s] = changes]

\* Subscribe, before the first read.
OpenClient(s, r) ==
    /\ client[s].pc = "off" /\ Filed(r)
    /\ Client(s, [NoClient EXCEPT !.pc = "read", !.req = r])
    /\ wakeup' = [wakeup EXCEPT ![s] = FALSE]
    /\ ClientKept /\ NoFault

CloseClient(s) == Client(s, NoClient) /\ UNCHANGED wakeup /\ ClientKept

ClientReads(s) ==
    /\ client[s].pc = "read"
    /\ Client(s, [client[s] EXCEPT !.pc = "send", !.last = items[client[s].req]])
    /\ UNCHANGED wakeup /\ ClientKept /\ NoFault

\* Mutant: the stream goes on after the final states.
ClientSendsOn(s) ==
    /\ client[s].pc = "send"
    /\ Client(s, [client[s] EXCEPT !.pc = "wait"])
    /\ UNCHANGED wakeup /\ ClientKept /\ NoFault
\* What was read is sent if it differs from what was sent last; the stream ends
\* when nothing of it is pending.
ClientSends(s) ==
    /\ client[s].pc = "send"
    /\ Client(s, [client[s] EXCEPT !.pc =
          IF \E k \in Slots : client[s].last[k] = "pending" THEN "wait" ELSE "done"])
    /\ UNCHANGED wakeup /\ ClientKept /\ NoFault

ClientWakes(s) ==
    /\ client[s].pc = "wait" /\ wakeup[s]
    /\ wakeup' = [wakeup EXCEPT ![s] = FALSE]
    /\ Client(s, [client[s] EXCEPT !.pc = "read"])
    /\ ClientKept /\ NoFault

ClientEnds(s) == client[s].pc = "done" /\ CloseClient(s) /\ NoFault

\* Mutant: a refusal is taken for a failure to ask.
HeartbeatLenient(s) ==
    /\ client[s].pc = "wait" /\ ~client[s].valid
    /\ UNCHANGED <<client, wakeup>> /\ ClientKept /\ NoFault
\* A heartbeat authenticates the token again.  Only a refusal ends the stream,
\* not a failure to ask.
Heartbeat(s) ==
    /\ client[s].pc = "wait" /\ ~client[s].valid
    /\ \/ CloseClient(s) /\ NoFault
       \/ UNCHANGED <<client, wakeup>> /\ ClientKept /\ Fault

\* The Requester's token is revoked or expires in OpenBao.
TokenEnds(s) ==
    /\ client[s].pc # "off" /\ client[s].valid
    /\ Client(s, [client[s] EXCEPT !.valid = FALSE])
    /\ UNCHANGED wakeup /\ ClientKept /\ NoFault

\* The read or the send fails, or the client goes away.
ClientFails(s) == client[s].pc # "off" /\ CloseClient(s) /\ Fault

-----------------------------------------------------------------------------
(* WatchEvents: the snapshot is three queries *)

DashKept == ReadKept /\ UNCHANGED <<client, poll>>
Dash(d, changes) == dash' = [dash EXCEPT ![d] = changes]

OpenDash(d) ==
    /\ dash[d].pc = "off"
    /\ Dash(d, [NoDash EXCEPT !.pc = "pending"])
    /\ wakeup' = [wakeup EXCEPT ![d] = FALSE]
    /\ DashKept /\ NoFault

DashReadsPending(d) ==
    /\ dash[d].pc = "pending"
    /\ Dash(d, [dash[d] EXCEPT !.pc = "decided",
                  !.next = [NoView EXCEPT !.known = {r \in Requests : Filed(r)},
                                          !.pending = PendingRequests]])
    /\ UNCHANGED wakeup /\ DashKept /\ NoFault

DashReadsDecided(d) ==
    /\ dash[d].pc = "decided"
    /\ \E list \in DecidedLists :
          Dash(d, [dash[d] EXCEPT !.pc = "active", !.next.decided = list])
    /\ UNCHANGED wakeup /\ DashKept /\ NoFault

\* Mutant: the pending requests are read after the decided ones.
DashReadsPendingLast(d) ==
    /\ dash[d].pc = "active"
    /\ Dash(d, [pc |-> "wait", next |-> NoView,
                last |-> [dash[d].next EXCEPT !.active = ActiveGrants, !.pending = PendingRequests]])
    /\ UNCHANGED wakeup /\ DashKept /\ NoFault
\* The last query; a snapshot that differs from the last one is sent.
DashReadsActive(d) ==
    /\ dash[d].pc = "active"
    /\ Dash(d, [pc |-> "wait", next |-> NoView,
                last |-> [dash[d].next EXCEPT !.active = ActiveGrants]])
    /\ UNCHANGED wakeup /\ DashKept /\ NoFault

DashWakes(d) ==
    /\ dash[d].pc = "wait" /\ wakeup[d]
    /\ wakeup' = [wakeup EXCEPT ![d] = FALSE]
    /\ Dash(d, [dash[d] EXCEPT !.pc = "pending"])
    /\ DashKept /\ NoFault

\* A query or a send fails, the session ends or the browser goes away.
DashEnds(d) ==
    /\ dash[d].pc # "off"
    /\ Dash(d, NoDash)
    /\ UNCHANGED wakeup /\ DashKept /\ Fault

-----------------------------------------------------------------------------
(* Service.Request with a wait *)

PollKept == ReadKept /\ UNCHANGED <<client, dash, wakeup>>
Poll(p, changes) == poll' = [poll EXCEPT ![p] = changes]

\* The first read; without pending items the call returns at once.
OpenPoll(p, r) ==
    /\ poll[p].pc = "off" /\ Filed(r) /\ HasPending(r)
    /\ Poll(p, [pc |-> "take", req |-> r, first |-> items[r], signalled |-> FALSE])
    /\ PollKept /\ NoFault

\* changes.wait(): the channel is taken before the store is read.
PollTakes(p) ==
    /\ poll[p].pc = "take"
    /\ Poll(p, [poll[p] EXCEPT !.pc = "read", !.signalled = FALSE])
    /\ PollKept /\ NoFault

PollReads(p) ==
    /\ poll[p].pc = "read"
    /\ Poll(p, [poll[p] EXCEPT !.pc = IF items[poll[p].req] = poll[p].first
                                    THEN "same" ELSE "changed"])
    /\ PollKept /\ NoFault

\* Mutant: the channel waited for is taken after the read.
PollTurnsTaking(p) ==
    /\ poll[p].pc \in {"same", "changed"}
    /\ Poll(p, IF poll[p].pc = "changed" THEN NoPoll
               ELSE [poll[p] EXCEPT !.pc = "wait", !.signalled = FALSE])
    /\ PollKept /\ NoFault
\* The call returns when an item changed and waits otherwise.
PollTurns(p) ==
    /\ poll[p].pc \in {"same", "changed"}
    /\ Poll(p, IF poll[p].pc = "changed" THEN NoPoll ELSE [poll[p] EXCEPT !.pc = "wait"])
    /\ PollKept /\ NoFault

PollWakes(p) ==
    /\ poll[p].pc = "wait" /\ poll[p].signalled
    /\ Poll(p, [poll[p] EXCEPT !.pc = "take"])
    /\ PollKept /\ NoFault

\* The timer fires or the caller goes away.
PollTimesOut(p) == poll[p].pc = "wait" /\ Poll(p, NoPoll) /\ PollKept /\ NoFault

-----------------------------------------------------------------------------
Tick ==
    /\ now < MaxTime
    /\ now' = now + 1
    /\ UNCHANGED <<items, until, grants, writer, sweep, announced, wakeup, client, dash, poll, faults>>

Writes(w) ==
    \/ \E r \in Requests : FileRequest(w, r) \/ Decide(w, r)
    \/ \E i \in Items : Revoke(w, i)
Notifies(w) == WriterSignals(w) \/ WriterPublishes(w)
SweepStep ==
    \/ ExpirePending \/ ExpirePendingFails \/ SweepSignals \/ SweepPublishes
    \/ AnnounceBegins \/ AnnounceQueries \/ AnnounceFails \/ AnnouncePublishes \/ SweepTick
ClientStep(s) == ClientReads(s) \/ ClientSends(s) \/ ClientWakes(s) \/ ClientEnds(s) \/ Heartbeat(s)
DashStep(d) == DashReadsPending(d) \/ DashReadsDecided(d) \/ DashReadsActive(d) \/ DashWakes(d)
PollStep(p) == PollTakes(p) \/ PollReads(p) \/ PollTurns(p) \/ PollWakes(p)

Next ==
    \/ \E w \in Writers : Writes(w) \/ Notifies(w)
    \/ SweepStep \/ Tick
    \/ \E s \in Clients :
          \/ \E r \in Requests : OpenClient(s, r)
          \/ ClientStep(s) \/ TokenEnds(s) \/ ClientFails(s)
    \/ \E d \in Dashboards : OpenDash(d) \/ DashStep(d) \/ DashEnds(d)
    \/ \E p \in Polls :
          \/ \E r \in Requests : OpenPoll(p, r)
          \/ PollStep(p) \/ PollTimesOut(p)

Spec == Init /\ [][Next]_vars

\* Goroutines that can run do; the ticker and the clock go on.  select picks
\* among ready cases at random, so a heartbeat that keeps being due is served.
\* Nobody has to file, decide, revoke, connect or poll, and a poll's own timer
\* is not relied upon.
Fairness ==
    /\ \A w \in Writers : WF_vars(Notifies(w))
    /\ WF_vars(SweepStep) /\ WF_vars(Tick)
    /\ \A s \in Clients : WF_vars(ClientStep(s)) /\ SF_vars(Heartbeat(s))
    /\ \A d \in Dashboards : WF_vars(DashStep(d))
    /\ \A p \in Polls : WF_vars(PollStep(p))
FairSpec == Spec /\ Fairness
-----------------------------------------------------------------------------
Lists == UNION {[R -> [Slots -> ItemStates]] : R \in SUBSET Requests}
Views == [known : SUBSET Requests, pending : Lists, decided : Lists, active : SUBSET Items]

SweepType == [pc : {"expire", "signal", "publish", "more", "announce", "query", "tell", "sleep"},
              left : Nat, now : Nat, at : Nat \cup {-1}, first : Nat \cup {-1}]
ClientType == [pc : {"off", "read", "send", "wait", "done"}, req : Requests,
               last : [Slots -> ItemStates], valid : BOOLEAN]
DashType == [pc : {"off", "pending", "decided", "active", "wait"}, last : Views, next : Views]
PollType == [pc : {"off", "take", "read", "same", "changed", "wait"}, req : Requests,
             first : [Slots -> ItemStates], signalled : BOOLEAN]

\* Every variable has its type.
TypeOK ==
    /\ now \in 0..MaxTime
    /\ items \in [Requests -> [Slots -> ItemStates]]
    /\ until \in [Requests -> Nat]
    /\ grants \in [Items -> [exp : Nat, live : BOOLEAN]]
    /\ writer \in [Writers -> [pc : {"idle", "signal", "publish", "more"}, left : Nat]]
    /\ sweep \in SweepType
    /\ announced \in [Items -> Nat]
    /\ wakeup \in [Clients \cup Dashboards -> BOOLEAN]
    /\ client \in [Clients -> ClientType]
    /\ dash \in [Dashboards -> DashType]
    /\ poll \in [Polls -> PollType]
    /\ faults \in 0..MaxFaults

\* A change that is committed and whose first Publish is still to come.
Unpublished == sweep.pc \in {"signal", "publish"} \/ \E w \in Writers : writer[w].pc \in {"signal", "publish"}
Unsignalled == sweep.pc = "signal" \/ \E w \in Writers : writer[w].pc = "signal"

\* Who is to publish something has something left to publish.
PublishesAreDue ==
    /\ \A w \in Writers : writer[w].pc # "idle" => writer[w].left > 0
    /\ sweep.pc \in {"signal", "publish", "more", "tell"} => sweep.left > 0

\* A WatchGrantRequest stream that sleeps, or sends what it has read, knows the
\* request as it is now, or will be woken: dropping a wake-up when one is
\* pending loses no change.
ClientsAreCurrent ==
    \A s \in Clients :
        client[s].pc \in {"send", "wait"} =>
            client[s].last = items[client[s].req] \/ wakeup[s] \/ Unpublished

\* The same for a long poll that saw no difference and the change signal, which
\* it takes before it reads.
PollsAreCurrent ==
    \A p \in Polls :
        poll[p].pc \in {"same", "wait"} =>
            poll[p].first = items[poll[p].req] \/ poll[p].signalled \/ Unsignalled

\* A Grant shown as active although it has expired, that the sweep has yet to
\* announce.
Unannounced == {i \in Items : grants[i].exp > sweep.at /\ grants[i].exp <= now}
\* A Grant that expired before the first call of AnnounceExpiredGrants.
ExpiredEarly == {i \in Items : grants[i].exp <= sweep.first}

ShowsActive(d) ==
    /\ dash[d].last.active \ (Unannounced \cup ExpiredEarly) = ActiveGrants \ ExpiredEarly
    /\ \A i \in dash[d].last.active : State(i) = "approved"

\* A dashboard that sleeps shows both lists of requests and the active Grants
\* as they are, or will be woken: although its snapshot is three queries that
\* other changes fall between, and although expiry is no change of the store.
DashboardsAreCurrent ==
    \A d \in Dashboards : wakeup[d] \/ Unpublished \/
        /\ dash[d].pc \in {"decided", "active"} => dash[d].next.pending = PendingRequests
        /\ dash[d].pc = "active" => dash[d].next.decided \in DecidedLists
        /\ dash[d].pc = "wait" /\ sweep.pc # "tell" =>
              /\ dash[d].last.pending = PendingRequests
              /\ dash[d].last.decided \in DecidedLists
              /\ ShowsActive(d)

\* Whoever waits for a change has seen the last one or has a wake-up coming
\* (EventBus, WatchGrantRequest, WatchEvents, Request).
ListenersAreCurrent ==
    /\ TypeOK
    /\ PublishesAreDue
    /\ ClientsAreCurrent
    /\ PollsAreCurrent
    /\ DashboardsAreCurrent

\* Requests are filed as a whole.
FiledAsAWhole == \A r \in Requests : Filed(r) \/ items[r] = NoItems

\* A view shows only requests that are filed.
ShowsFiled(view) == \A r \in view.known \cup DOMAIN view.decided : Filed(r)
\* The request is too old for the history: as many decided ones as it holds were
\* filed no earlier.
PushedOut(r, history) ==
    Cardinality(DOMAIN history) = DecidedLimit /\ \A q \in DOMAIN history : Created(q) >= Created(r)
\* Every request that was filed when the first query was made is in one of the
\* view's lists, or too old for the second.
Complete(view) ==
    \A r \in view.known :
        r \in DOMAIN view.pending \/ r \in DOMAIN view.decided \/ PushedOut(r, view.decided)

\* No snapshot misses a request that was filed before it was taken, except one
\* that the limit of the history leaves out: a request only ever moves from the
\* list that is read first to the one read second, so it cannot fall between
\* the two queries.
NothingDropsOut ==
    \A d \in Dashboards :
        /\ ShowsFiled(dash[d].last) /\ Complete(dash[d].last)
        /\ dash[d].pc = "decided" =>
              ShowsFiled(dash[d].next) /\ dash[d].next.known \subseteq DOMAIN dash[d].next.pending \cup Decided
        /\ dash[d].pc = "active" => ShowsFiled(dash[d].next) /\ Complete(dash[d].next)

\* The items that a view shows as approved, in either list.
ShownApproved(view) ==
    {i \in Items : \E list \in {view.pending, view.decided} :
                      i[1] \in DOMAIN list /\ list[i[1]][i[2]] = "approved"}
Settled(i) == State(i) \in {"approved", "revoked"}

\* A snapshot that shows an item as approved shows its Grant too, unless the
\* Grant has ended by now: the Grants are read last.
ApprovalsShowTheirGrants ==
    \A d \in Dashboards :
        /\ \A i \in ShownApproved(dash[d].last) :
              /\ Settled(i)
              /\ i \in dash[d].last.active \/ State(i) = "revoked" \/ grants[i].exp <= now
        /\ dash[d].pc \in {"decided", "active"} => \A i \in ShownApproved(dash[d].next) : Settled(i)

\* A snapshot of three queries loses no item for good, and shows no approval
\* without its Grant (snapshot).
SnapshotsAreWhole == FiledAsAWhole /\ NothingDropsOut /\ ApprovalsShowTheirGrants

\* The window that AnnounceExpiredGrants has dealt with ends in the past, and
\* the one it queries follows it.
WindowsFollowTheClock ==
    /\ sweep.at <= now
    /\ sweep.at = -1 => sweep.first = -1
    /\ sweep.pc = "query" => sweep.at <= sweep.now /\ sweep.now <= now

\* AnnounceExpiredGrants announces every Grant that lapses after its first call
\* exactly once, whatever queries fail in between.
ExpiriesAreAnnouncedOnce ==
    /\ WindowsFollowTheClock
    /\ \A i \in Items :
          /\ announced[i] <= 1
          /\ announced[i] = 1 => Settled(i) /\ grants[i].exp <= sweep.at
          /\ State(i) = "approved" /\ grants[i].live
             /\ sweep.first < grants[i].exp /\ grants[i].exp <= sweep.at
             => announced[i] = 1

\* The three together are inductive.
StreamsInv == ListenersAreCurrent /\ SnapshotsAreWhole /\ ExpiriesAreAnnouncedOnce

\* Once nothing is pending, the Requester's stream delivers that and ends.
FinalStatesArrive ==
    \A s \in Clients : (client[s].pc # "off" /\ ~HasPending(client[s].req)) ~> client[s].pc = "off"

\* A stream whose token is no longer valid ends, at the latest at a heartbeat.
StreamsEndWithToken ==
    \A s \in Clients : (client[s].pc # "off" /\ ~client[s].valid) ~> client[s].pc = "off"

\* A long poll returns once an item changes state, timer or not.
PollsReturn ==
    \A p \in Polls :
        (poll[p].pc # "off" /\ poll[p].first # items[poll[p].req]) ~> poll[p].pc = "off"

Shows(d, ignored) ==
    /\ dash[d].last.pending = PendingRequests
    /\ dash[d].last.decided \in DecidedLists
    /\ dash[d].last.active \ ignored = ActiveGrants \ ignored

\* Every dashboard catches up with the store and the clock again and again.
DashboardsConverge ==
    \A d \in Dashboards : []<>(dash[d].pc = "off" \/ Shows(d, ExpiredEarly))
=============================================================================
