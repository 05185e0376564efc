-------------------------- MODULE ApproverSessions --------------------------
(***************************************************************************)
(* Approver sessions: the calls of ApproverService that sign a browser in  *)
(* and out, the push subscriptions it registers, the dashboard streams     *)
(* that end with its session, the sweeper of expired rows and the Web Push *)
(* fan-out.  Every store or OpenBao call of a handler is one action; the   *)
(* handlers share no lock, so their steps interleave freely.               *)
(*                                                                         *)
(* Time counts the finest units the code prints.  A millisecond is Base    *)
(* units and a second Base * Base, so that a time has a whole second, one  *)
(* digit the session table keeps and one digit it drops.                   *)
(***************************************************************************)
EXTENDS Integers, FiniteSets

CONSTANTS Calls,       \* goroutines that serve the unary RPCs
          Watches,     \* goroutines that serve WatchEvents
          Browsers,    \* each has one cookie jar and one push endpoint
          Approvers,   \* entity IDs of people with the approver policy
          SessionIDs,  \* what randomToken returns, each at most once
          NoID,        \* no cookie
          Nobody,      \* no entity
          Ops,         \* the RPCs that are called
          Base,        \* digits of a fraction of a second count to Base
          SessionTTL,  \* server.session_ttl
          MaxTime,     \* bound: the clock stops here, once every session has expired
          MaxFaults    \* bound: failing or lost calls, and restarts

ASSUME SentinelsAssumption == NoID \notin SessionIDs /\ Nobody \notin Approvers /\ Browsers # {}
ASSUME TimesAssumption ==
    /\ Base \in Nat /\ Base > 1
    /\ SessionTTL \in Nat /\ SessionTTL > 0
    /\ MaxTime \in Nat /\ MaxFaults \in Nat

VARIABLES now,
          stored,    \* the IDs that have a row in approver_sessions
          issued,    \* issued[s]: the entity and the deadline PutSession stored
          cookie,    \* cookie[b]: the session cookie in browser b
          subs,      \* subs[b]: the row for b's push endpoint
          call,      \* call[c]: a unary RPC and its locals
          watch,     \* watch[w]: a WatchEvents stream and its watchSessionEnd
          push,      \* the Web Push fan-out in progress
          gone,      \* endpoints the push service answers 404 or 410 for
          cut,       \* browsers that never learned what became of their call
          faults

vars == <<now, stored, issued, cookie, subs, call, watch, push, gone, cut, faults>>

Second == Base * Base
\* Mutant: the remainder and the time are swapped.
MillisSwapped(t) == (t % Base) - t
\* unixMilli: what the session table keeps of a deadline.
Millis(t) == t - (t % Base)

\* Where the RFC 3339 text of a time sorts.  Trailing zeros of the fraction are
\* not printed, and the "Z" that follows the last digit sorts after any digit.
TextRank(t) ==
    LET tenths == (t % Second) \div Base
        rest == t % Base
        B == Base + 1
    IN (t \div Second) * B * B +
       CASE rest # 0 -> tenths * B + rest
         [] rest = 0 /\ tenths # 0 -> tenths * B + Base
         [] OTHER -> Base * B

NoRow == [entity |-> Nobody, exp |-> 0]
NoSub == [entity |-> Nobody, exp |-> 0, by |-> NoID]
IdleCall == [op |-> "none", pc |-> "idle", browser |-> CHOOSE b \in Browsers : TRUE,
             id |-> NoID, entity |-> Nobody, new |-> NoID, keep |-> FALSE, token |-> "none"]
NoWatch == [pc |-> "off", id |-> NoID, signalled |-> FALSE, blind |-> FALSE]
NoPush == [pc |-> "idle", todo |-> {}]

\* DB.Session finds the row of a session that has not expired.
Live(s) == s \in stored /\ issued[s].exp > now
Expired(s) == issued[s] # NoRow /\ issued[s].exp <= now

Init ==
    /\ now = 0
    /\ stored = {}
    /\ issued = [s \in SessionIDs |-> NoRow]
    /\ cookie = [b \in Browsers |-> NoID]
    /\ subs = [b \in Browsers |-> NoSub]
    /\ call = [c \in Calls |-> IdleCall]
    /\ watch = [w \in Watches |-> NoWatch]
    /\ push = NoPush
    /\ gone = {}
    /\ cut = {}
    /\ faults = 0

Fault == faults < MaxFaults /\ faults' = faults + 1
NoFault == UNCHANGED faults

At(c, op, pc) == call[c].op = op /\ call[c].pc = pc
Set(c, changes) == call' = [call EXCEPT ![c] = changes]
Goto(c, pc) == Set(c, [call[c] EXCEPT !.pc = pc])
StoreKept == UNCHANGED <<stored, issued, subs>>
OthersKept == UNCHANGED <<now, cookie, watch, push, gone, cut>>
-----------------------------------------------------------------------------
(* CreateSession *)

\* A browser sends an OpenBao token, one obtained for this exchange or (keep) a
\* pasted one, along with whatever cookie it has.
SignIn(c, b) ==
    /\ "signIn" \in Ops
    /\ call[c].pc = "idle"
    /\ \E keep \in BOOLEAN :
          Set(c, [IdleCall EXCEPT !.op = "signIn", !.pc = "lookup", !.browser = b,
                                  !.id = cookie[b], !.keep = keep, !.token = "live"])
    /\ StoreKept /\ OthersKept /\ NoFault

\* LookupSelf says the token is invalid: nothing else happens.
TokenInvalid(c) ==
    /\ At(c, "signIn", "lookup")
    /\ Set(c, [call[c] EXCEPT !.pc = "answer", !.token = "dead"])
    /\ StoreKept /\ OthersKept /\ NoFault

\* Mutant: only tokens that pass the check are revoked.
LookupSelfEarly(c) ==
    /\ At(c, "signIn", "lookup")
    /\ \E e \in Approvers \cup {Nobody} :
          Set(c, [call[c] EXCEPT !.entity = e,
                     !.pc = IF e = Nobody THEN "answer"
                            ELSE IF call[c].keep THEN "delete" ELSE "revoke"])
    /\ StoreKept /\ OthersKept /\ NoFault

\* Mutant: the old session is deleted before the identity is checked.
LookupSelfDeleting(c) ==
    /\ At(c, "signIn", "lookup")
    /\ \E e \in Approvers \cup {Nobody} :
          Set(c, [call[c] EXCEPT !.entity = e,
                     !.pc = IF ~call[c].keep THEN "revoke"
                            ELSE IF e = Nobody THEN "answer" ELSE "delete"])
    /\ stored' = stored \ {call[c].id}
    /\ UNCHANGED <<issued, subs>> /\ OthersKept /\ NoFault

\* LookupSelf answers, or fails in a way that says nothing of the token.  A
\* token without an entity or the approver policy is refused: Nobody.
LookupSelf(c) ==
    /\ At(c, "signIn", "lookup")
    /\ \E e \in Approvers \cup {Nobody} :
          Set(c, [call[c] EXCEPT !.entity = e,
                     !.pc = IF ~call[c].keep THEN "revoke"
                            ELSE IF e = Nobody THEN "answer" ELSE "delete"])
    /\ StoreKept /\ OthersKept /\ NoFault

\* RevokeSelf, whatever became of the lookup; a failure is only logged.
RevokeSelf(c) ==
    /\ At(c, "signIn", "revoke")
    /\ \E token \in {"revoked", "leaked"} :
          /\ Set(c, [call[c] EXCEPT !.token = token,
                        !.pc = IF call[c].entity = Nobody THEN "answer" ELSE "delete"])
          /\ IF token = "leaked" THEN Fault ELSE NoFault
    /\ StoreKept /\ OthersKept

\* deleteSession's first half: a failing DELETE is only logged.  A sign-in
\* without a cookie has nothing to delete.
DeleteSession(c) ==
    /\ call[c].pc = "delete"
    /\ \/ /\ call[c].id = NoID
          /\ Goto(c, "put")
          /\ UNCHANGED stored /\ NoFault
       \/ /\ call[c].id # NoID
          /\ Goto(c, "close")
          /\ \/ stored' = stored \ {call[c].id} /\ NoFault
             \/ UNCHANGED stored /\ Fault
    /\ UNCHANGED <<issued, subs>> /\ OthersKept

\* Mutant: only a logout wakes the streams, not signing in again.
CloseOnLogout(c) ==
    /\ call[c].pc = "close"
    /\ Goto(c, IF call[c].op = "signIn" THEN "put" ELSE "dropSubs")
    /\ watch' = [w \in Watches |->
          [watch[w] EXCEPT !.signalled = @ \/ call[c].op = "logout"]]
    /\ StoreKept /\ NoFault
    /\ UNCHANGED <<now, cookie, push, gone, cut>>

\* deleteSession's second half wakes every watchSessionEnd that waits.
CloseDeletions(c) ==
    /\ call[c].pc = "close"
    /\ Goto(c, IF call[c].op = "signIn" THEN "put" ELSE "dropSubs")
    /\ watch' = [w \in Watches |-> [watch[w] EXCEPT !.signalled = TRUE]]
    /\ StoreKept /\ NoFault
    /\ UNCHANGED <<now, cookie, push, gone, cut>>

\* PutSession under a fresh ID.  When it fails the old session is gone already.
PutSession(c) ==
    /\ At(c, "signIn", "put")
    /\ \/ /\ \E s \in {id \in SessionIDs : issued[id] = NoRow} :
                /\ stored' = stored \cup {s}
                /\ issued' = [issued EXCEPT ![s] =
                       [entity |-> call[c].entity, exp |-> Millis(now + SessionTTL)]]
                /\ Set(c, [call[c] EXCEPT !.pc = "answer", !.new = s])
          /\ UNCHANGED cut /\ NoFault
       \/ /\ Goto(c, "answer")
          /\ cut' = cut \cup {call[c].browser}
          /\ UNCHANGED <<stored, issued>> /\ Fault
    /\ UNCHANGED <<subs, now, cookie, watch, push, gone>>

\* The response reaches the browser, with its Set-Cookie, or it does not.
Answer(c) ==
    /\ call[c].pc = "answer"
    /\ \/ /\ cookie' = [cookie EXCEPT ![call[c].browser] =
                 IF call[c].new # NoID THEN call[c].new
                 ELSE IF call[c].op = "logout" THEN NoID ELSE @]
          /\ UNCHANGED cut /\ NoFault
       \/ /\ call[c].new # NoID \/ call[c].op = "logout"
          /\ cut' = cut \cup {call[c].browser}
          /\ UNCHANGED cookie /\ Fault
    /\ Set(c, IdleCall)
    /\ StoreKept /\ UNCHANGED <<now, watch, push, gone>>

-----------------------------------------------------------------------------
(* Logout, RegisterPushSubscription and DeletePushSubscription *)

\* authorizeApprover: the cookie names a live session; what it says of the
\* caller is used until the handler returns.
Authorized(c, b, op, pc) ==
    /\ op \in Ops
    /\ call[c].pc = "idle"
    /\ cookie[b] # NoID /\ Live(cookie[b])
    /\ Set(c, [IdleCall EXCEPT !.op = op, !.pc = pc, !.browser = b, !.id = cookie[b],
                               !.entity = issued[cookie[b]].entity])
    /\ StoreKept /\ OthersKept /\ NoFault

Logout(c, b) == Authorized(c, b, "logout", "delete")
RegisterPush(c, b) == Authorized(c, b, "register", "subscribe")
UnregisterPush(c, b) == Authorized(c, b, "unregister", "unsubscribe")

\* DeleteSubscriptionsByEntity; a failure is only logged.
DropSubscriptions(c) ==
    /\ call[c].pc = "dropSubs"
    /\ Goto(c, "answer")
    /\ \/ /\ subs' = [b \in Browsers |->
                 IF subs[b].entity = call[c].entity THEN NoSub ELSE subs[b]]
          /\ NoFault
       \/ UNCHANGED subs /\ Fault
    /\ UNCHANGED <<stored, issued>> /\ OthersKept

\* Mutant: a subscription gets a deadline of its own.
PutSubscriptionLonger(c) ==
    /\ call[c].pc = "subscribe"
    /\ Goto(c, "answer")
    /\ \/ subs' = [subs EXCEPT ![call[c].browser] =
              [entity |-> call[c].entity, exp |-> Millis(now + SessionTTL), by |-> call[c].id]]
       \/ UNCHANGED subs
    /\ UNCHANGED <<stored, issued>> /\ OthersKept /\ NoFault

\* PutSubscription takes the endpoint over, with the deadline of the session
\* the call was authorized by, unless the endpoint is refused.
PutSubscription(c) ==
    /\ call[c].pc = "subscribe"
    /\ Goto(c, "answer")
    /\ \/ subs' = [subs EXCEPT ![call[c].browser] =
              [entity |-> call[c].entity, exp |-> issued[call[c].id].exp, by |-> call[c].id]]
       \/ UNCHANGED subs
    /\ UNCHANGED <<stored, issued>> /\ OthersKept /\ NoFault

\* DeleteSubscriptionForEntity: only the caller's own row.
DeleteSubscription(c) ==
    /\ call[c].pc = "unsubscribe"
    /\ Goto(c, "answer")
    /\ subs' = IF subs[call[c].browser].entity = call[c].entity
               THEN [subs EXCEPT ![call[c].browser] = NoSub] ELSE subs
    /\ UNCHANGED <<stored, issued>> /\ OthersKept /\ NoFault
-----------------------------------------------------------------------------
(* WatchEvents: the stream's end.  watchSessionEnd's goroutine loops through
   "take", "look" and "wait"; the handler sends SESSION_EXPIRED in "ended". *)

WatchKept == UNCHANGED <<now, stored, issued, cookie, subs, call, push, gone, cut>>
Step(w, changes) == watch' = [watch EXCEPT ![w] = changes]

OpenWatch(w, b) ==
    /\ "watch" \in Ops
    /\ watch[w].pc = "off"
    /\ cookie[b] # NoID /\ Live(cookie[b])
    /\ Step(w, [NoWatch EXCEPT !.pc = "take", !.id = cookie[b]])
    /\ WatchKept /\ NoFault

\* sessionDeletions, before the session is looked up.
TakeDeletions(w) ==
    /\ watch[w].pc = "take"
    /\ Step(w, [watch[w] EXCEPT !.pc = "look", !.signalled = FALSE])
    /\ WatchKept /\ NoFault

\* Only ErrNotFound ends the stream; any other error counts as still there.
LookUp(w) ==
    /\ watch[w].pc = "look"
    /\ \/ Step(w, [watch[w] EXCEPT !.blind = FALSE,
                      !.pc = IF Live(watch[w].id) THEN "wait" ELSE "ended"]) /\ NoFault
       \/ Step(w, [watch[w] EXCEPT !.blind = TRUE, !.pc = "wait"]) /\ Fault
    /\ WatchKept

\* Mutant: a wake-up for another session is waited off without a lookup.
WakeBlindly(w) ==
    /\ watch[w].pc = "wait" /\ watch[w].signalled
    /\ Step(w, [watch[w] EXCEPT !.signalled = FALSE])
    /\ WatchKept /\ NoFault

\* Mutant: any deletion ends the stream, whoever's session it was.
WakeEnded(w) ==
    /\ watch[w].pc = "wait" /\ watch[w].signalled
    /\ Step(w, [watch[w] EXCEPT !.pc = "ended"])
    /\ WatchKept /\ NoFault

\* The channel taken before the lookup is closed: look again.
Wake(w) ==
    /\ watch[w].pc = "wait" /\ watch[w].signalled
    /\ Step(w, [watch[w] EXCEPT !.pc = "take"])
    /\ WatchKept /\ NoFault

\* Mutant: the timer only wakes the loop's lookup while the row is there.
ExpireWatchOnce(w) ==
    /\ watch[w].pc = "wait" /\ Expired(watch[w].id) /\ ~watch[w].blind
    /\ Step(w, [watch[w] EXCEPT !.pc = "ended"])
    /\ WatchKept /\ NoFault

\* The timer set from the session's deadline fires.
ExpireWatch(w) ==
    /\ watch[w].pc = "wait" /\ Expired(watch[w].id)
    /\ Step(w, [watch[w] EXCEPT !.pc = "ended"])
    /\ WatchKept /\ NoFault

EndWatch(w) ==
    /\ watch[w].pc = "ended"
    /\ Step(w, NoWatch)
    /\ WatchKept /\ NoFault

\* The client goes away and takes the stream's context with it.
Disconnect(w) ==
    /\ watch[w].pc # "off"
    /\ Step(w, NoWatch)
    /\ WatchKept /\ NoFault

-----------------------------------------------------------------------------
(* Web Push *)

PushKept == UNCHANGED <<now, stored, issued, cookie, call, watch, cut>>
HasSub(b) == subs[b] # NoSub
\* Mutant: the expiry is not looked at.
SelectedExpired(b) == HasSub(b)
\* The rows Subscriptions selects by comparing texts.
Unexpired(b) == HasSub(b) /\ TextRank(subs[b].exp) > TextRank(now)

\* NewRequest reads the subscriptions once.
StartPush ==
    /\ "push" \in Ops
    /\ push.pc = "idle"
    /\ push' = [pc |-> "send", todo |-> {b \in Browsers : Unexpired(b)}]
    /\ PushKept /\ UNCHANGED <<subs, gone>> /\ NoFault

\* The browser gives its push subscription up.
EndpointGone(b) ==
    /\ "push" \in Ops
    /\ gone' = gone \cup {b}
    /\ PushKept /\ UNCHANGED <<subs, push>> /\ NoFault

\* ValidateEndpoint refuses an endpoint whose host does not resolve, for
\* instance while the resolver does not answer.
Unresolved == Fault

\* One endpoint: deleted when it is not valid any more or the push service
\* answers 404 or 410, otherwise sent to.  An endpoint nobody is registered for
\* any more is still sent to; another DELETE of it has no effect.
SendPush(b) ==
    /\ push.pc = "send" /\ b \in push.todo
    /\ push' = [push EXCEPT !.todo = @ \ {b}]
    /\ \/ b \in gone /\ subs' = [subs EXCEPT ![b] = NoSub] /\ NoFault
       \/ b \in gone /\ UNCHANGED subs /\ Fault
       \/ subs' = [subs EXCEPT ![b] = NoSub] /\ Unresolved
       \/ b \notin gone /\ UNCHANGED subs /\ NoFault
    /\ PushKept /\ UNCHANGED gone

EndPush ==
    /\ push.pc = "send" /\ push.todo = {}
    /\ push' = NoPush
    /\ PushKept /\ UNCHANGED <<subs, gone>> /\ NoFault

-----------------------------------------------------------------------------
\* sessionSweeper: DeleteExpiredSessions.
Sweep ==
    /\ stored' = {s \in stored : issued[s].exp > now}
    /\ UNCHANGED <<now, issued, cookie, subs, call, watch, push, gone, cut, faults>>

\* Calls, streams and fan-outs die with the process; the tables stay.
Restart ==
    /\ Fault
    /\ call' = [c \in Calls |-> IdleCall]
    /\ watch' = [w \in Watches |-> NoWatch]
    /\ push' = NoPush
    /\ cut' = cut \cup {call[c].browser : c \in {d \in Calls : call[d].pc # "idle"}}
    /\ UNCHANGED <<now, stored, issued, cookie, subs, gone>>

Tick ==
    /\ now < MaxTime \/ \E s \in SessionIDs : issued[s].exp > now
    /\ now' = now + 1
    /\ UNCHANGED <<stored, issued, cookie, subs, call, watch, push, gone, cut, faults>>

CallStep(c) ==
    \/ TokenInvalid(c) \/ LookupSelf(c) \/ RevokeSelf(c)
    \/ DeleteSession(c) \/ CloseDeletions(c) \/ PutSession(c)
    \/ DropSubscriptions(c) \/ PutSubscription(c) \/ DeleteSubscription(c)
    \/ Answer(c)

WatchStep(w) ==
    TakeDeletions(w) \/ LookUp(w) \/ Wake(w) \/ ExpireWatch(w) \/ EndWatch(w)

Next ==
    \/ \E c \in Calls, b \in Browsers :
          SignIn(c, b) \/ Logout(c, b) \/ RegisterPush(c, b) \/ UnregisterPush(c, b)
    \/ \E c \in Calls : CallStep(c)
    \/ \E w \in Watches : (\E b \in Browsers : OpenWatch(w, b)) \/ WatchStep(w) \/ Disconnect(w)
    \/ StartPush \/ EndPush
    \/ \E b \in Browsers : EndpointGone(b) \/ SendPush(b)
    \/ Sweep \/ Restart \/ Tick

Spec == Init /\ [][Next]_vars

\* A goroutine that can run does; nobody has to call, and time may stand still.
Fairness ==
    /\ \A c \in Calls : WF_vars(CallStep(c))
    /\ \A w \in Watches : WF_vars(WatchStep(w))
FairSpec == Spec /\ Fairness

\* As FairSpec, and the clock runs on.
TimedSpec == FairSpec /\ WF_vars(Tick)
-----------------------------------------------------------------------------
Tokens == {"none", "live", "revoked", "dead", "leaked"}
CallPCs == {"idle", "lookup", "revoke", "delete", "close", "put", "dropSubs",
            "subscribe", "unsubscribe", "answer"}
RowType == [entity : Approvers \cup {Nobody}, exp : Nat]
SubType == [entity : Approvers \cup {Nobody}, exp : Nat, by : SessionIDs \cup {NoID}]
CallType == [op : {"none", "signIn", "logout", "register", "unregister"}, pc : CallPCs,
             browser : Browsers, id : SessionIDs \cup {NoID}, entity : Approvers \cup {Nobody},
             new : SessionIDs \cup {NoID}, keep : BOOLEAN, token : Tokens]
WatchType == [pc : {"off", "take", "look", "wait", "ended"}, id : SessionIDs \cup {NoID},
              signalled : BOOLEAN, blind : BOOLEAN]

\* Every variable has its type.
TypeOK ==
    /\ now \in Nat
    /\ stored \subseteq SessionIDs
    /\ issued \in [SessionIDs -> RowType]
    /\ cookie \in [Browsers -> SessionIDs \cup {NoID}]
    /\ subs \in [Browsers -> SubType]
    /\ call \in [Calls -> CallType]
    /\ watch \in [Watches -> WatchType]
    /\ push \in [pc : {"idle", "send"}, todo : SUBSET Browsers]
    /\ gone \subseteq Browsers /\ cut \subseteq Browsers
    /\ faults \in 0..MaxFaults

Issued == {s \in SessionIDs : issued[s] # NoRow}

\* What a call knows at each of its steps (the handlers' locals).
CallsFit ==
    \A c \in Calls :
        /\ call[c].pc = "idle" => call[c].id = NoID /\ call[c].new = NoID
        /\ call[c].op = "signIn" /\ call[c].pc \in {"delete", "close", "put"} => call[c].entity # Nobody
        /\ call[c].pc \in {"delete", "close"} => call[c].op \in {"signIn", "logout"}
        /\ call[c].pc = "dropSubs" => call[c].op = "logout"
        /\ call[c].op = "signIn" => call[c].pc \notin {"dropSubs", "subscribe", "unsubscribe"}
        /\ call[c].pc = "subscribe" => call[c].id # NoID

\* Whatever names a session names one that was stored, and a push subscription
\* has the deadline of the session that registered it.
NamesAreIssued ==
    /\ \A b \in Browsers : cookie[b] # NoID => cookie[b] \in Issued
    /\ \A c \in Calls : {call[c].id, call[c].new} \subseteq Issued \cup {NoID}
    /\ \A w \in Watches : watch[w].pc # "off" => watch[w].id \in Issued
    /\ \A b \in Browsers : HasSub(b) => subs[b].by \in Issued /\ subs[b].exp = issued[subs[b].by].exp

\* A session is known to one browser only, to none before its answer arrives
\* there, and until then nothing but its deadline ends it.
SessionsAreSecret ==
    /\ \A b \in Browsers, other \in Browsers : cookie[b] = cookie[other] => b = other \/ cookie[b] = NoID
    /\ \A c \in Calls, b \in Browsers :
          call[c].id = cookie[b] => call[c].browser = b \/ cookie[b] = NoID
    /\ \A c \in Calls : call[c].new # NoID =>
          /\ Live(call[c].new) \/ Expired(call[c].new)
          /\ \A b \in Browsers : cookie[b] # call[c].new
          /\ \A d \in Calls : call[d].id # call[c].new /\ (d # c => call[d].new # call[c].new)

\* A stream is told SESSION_EXPIRED only when its own session is over, however
\* many other sessions are deleted meanwhile (watchSessionEnd looks again).
EndedStreamsAreOver == \A w \in Watches : watch[w].pc = "ended" => ~Live(watch[w].id)

\* watchSessionEnd never sleeps through the deletion of its session: when the
\* row is gone a wake-up is there or about to come, unless the lookup itself
\* failed or the deadline, for which there is a timer, has passed.
NoMissedDeletion ==
    \A w \in Watches :
        /\ watch[w].pc = "wait" /\ ~watch[w].blind
        /\ ~Live(watch[w].id) /\ ~Expired(watch[w].id)
        => watch[w].signalled \/ \E c \in Calls : call[c].pc = "close"

\* A call that is ending the session of its cookie, and its browser is yet to
\* hear of it.
Ending(c) ==
    \/ call[c].pc \in {"close", "put", "dropSubs"}
    \/ call[c].pc = "answer" /\ (call[c].new # NoID \/ call[c].op = "logout")

\* A browser that holds a session cookie is signed in until the session's
\* deadline, unless a call of its own is still ending that session or it never
\* got the answer: a refused or failing sign-in leaves the old session alone.
CookiesAreValid ==
    \A b \in Browsers :
        \/ cookie[b] = NoID \/ Live(cookie[b]) \/ Expired(cookie[b])
        \/ b \in cut
        \/ \E c \in Calls : call[c].browser = b /\ call[c].id = cookie[b] /\ Ending(c)

\* No OpenBao token that was obtained for the exchange outlives it, even when
\* the sign-in is refused or the lookup failed, except when RevokeSelf fails;
\* a pasted token is never revoked.
TokensEndWithExchange ==
    \A c \in Calls : call[c].op = "signIn" =>
        /\ call[c].pc \in {"lookup", "revoke"} => call[c].token = "live"
        /\ call[c].pc = "revoke" => ~call[c].keep
        /\ call[c].pc \in {"delete", "close", "put", "answer"} /\ call[c].token # "dead" =>
              (call[c].token = "live" <=> call[c].keep)

\* A stream waits for a session that is stored and misses no deletion
\* (watchSessionEnd), an exchanged token is revoked or reported (CreateSession),
\* and a browser's cookie names a session the store has (CreateSession, Logout).
SessionsInv ==
    /\ TypeOK
    /\ CallsFit
    /\ NamesAreIssued
    /\ SessionsAreSecret
    /\ EndedStreamsAreOver
    /\ NoMissedDeletion
    /\ CookiesAreValid
    /\ TokensEndWithExchange

\* A push goes to whoever registered the endpoint while the session that
\* registered it has not expired, give or take the second within which the
\* stored texts do not sort like times.
PushesFollowSessions ==
    [][push.pc = "idle" /\ push'.pc = "send" =>
         \A b \in Browsers : HasSub(b) =>
            LET end == issued[subs[b].by].exp
            IN /\ b \in push'.todo => now < end + Second
               /\ end >= now + Second => b \in push'.todo]_vars

\* A dashboard stream whose session has been deleted ends, without the help of
\* a clock: the deletion itself wakes it.
StreamsEndWithSession ==
    \A w \in Watches, s \in SessionIDs :
        (watch[w].id = s /\ s \notin stored) ~> watch[w].id # s

\* Even when lookups fail, no dashboard stream outlives its session's deadline.
StreamsEndByExpiry ==
    \A w \in Watches, s \in SessionIDs :
        watch[w].id = s ~> watch[w].id # s
=============================================================================
