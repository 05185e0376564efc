----------------------- MODULE ApproverSessions_proofs -----------------------
(***************************************************************************)
(* SessionsInv is inductive, for any number of calls, streams, browsers    *)
(* and sessions; and pushes follow the sessions that registered them.      *)
(***************************************************************************)
EXTENDS ApproverSessions, TLAPS

-----------------------------------------------------------------------------
(* Types, and what a record of a call says on its own.                      *)

LEMMA OffTypes ==
    /\ NoRow \in RowType /\ NoSub \in SubType /\ NoWatch \in WatchType
    /\ IdleCall \in CallType /\ IdleCall.pc = "idle" /\ IdleCall.op = "none"
    /\ IdleCall.id = NoID /\ IdleCall.new = NoID
    /\ NoWatch.pc = "off" /\ NoRow.entity = Nobody
  BY SentinelsAssumption
     DEF NoRow, NoSub, NoWatch, IdleCall, RowType, SubType, WatchType, CallType, CallPCs, Tokens

LEMMA Sentinels == NoID \notin SessionIDs /\ Nobody \notin Approvers
  BY SentinelsAssumption

\* CallsFit and TokensEndWithExchange of one call.
Fits(k) ==
    /\ k.pc = "idle" => k.id = NoID /\ k.new = NoID
    /\ k.op = "signIn" /\ k.pc \in {"delete", "close", "put"} => k.entity # Nobody
    /\ k.pc \in {"delete", "close"} => k.op \in {"signIn", "logout"}
    /\ k.pc = "dropSubs" => k.op = "logout"
    /\ k.op = "signIn" => k.pc \notin {"dropSubs", "subscribe", "unsubscribe"}
    /\ k.pc = "subscribe" => k.id # NoID
TokenFits(k) ==
    k.op = "signIn" =>
        /\ k.pc \in {"lookup", "revoke"} => k.token = "live"
        /\ k.pc = "revoke" => ~k.keep
        /\ k.pc \in {"delete", "close", "put", "answer"} /\ k.token # "dead" =>
              (k.token = "live" <=> k.keep)

\* What a step of a call that neither starts nor ends it leaves: the cookie it
\* came with, its browser and the session it has made.
Continues(old, k) ==
    /\ k.id = old.id /\ k.browser = old.browser /\ k.new = old.new /\ k.op = old.op
    /\ old.pc # "idle" /\ k.pc # "idle"
    /\ old.pc \in {"close", "put", "dropSubs"} =>
          \/ k.pc \in {"close", "put", "dropSubs"}
          \/ k.pc = "answer" /\ k.op = "logout"

LEMMA GoingOn ==
    ASSUME NEW k \in CallType, NEW pc \in CallPCs, NEW next, next = [k EXCEPT !.pc = pc]
    PROVE  /\ next \in CallType
           /\ next.pc = pc /\ next.entity = k.entity /\ next.token = k.token
           /\ next.id = k.id /\ next.browser = k.browser /\ next.new = k.new
           /\ next.op = k.op /\ next.keep = k.keep
  BY DEF CallType

-----------------------------------------------------------------------------
(* What the steps of a call do.                                             *)

LEMMA FaultType == TypeOK => (Fault => faults' \in 0..MaxFaults) /\ (NoFault => faults' \in 0..MaxFaults)
  BY TimesAssumption DEF TypeOK, Fault, NoFault

Starts(c, b) == SignIn(c, b) \/ Logout(c, b) \/ RegisterPush(c, b) \/ UnregisterPush(c, b)

LEMMA StartEffect ==
    ASSUME TypeOK, NamesAreIssued, NEW c \in Calls, NEW b \in Browsers, Starts(c, b)
    PROVE  /\ UNCHANGED <<now, stored, issued, cookie, subs, watch, push, gone, cut, faults>>
           /\ \E next \in CallType :
                 /\ call' = [call EXCEPT ![c] = next]
                 /\ next.id = cookie[b] /\ next.browser = b /\ next.new = NoID
                 /\ next.pc \notin {"idle", "close", "put", "dropSubs", "answer"}
                 /\ Fits(next) /\ TokenFits(next)
           /\ call[c].pc = "idle"
  <1>0. /\ cookie[b] \in SessionIDs \cup {NoID} /\ IdleCall \in CallType
        /\ IdleCall.new = NoID /\ IdleCall.op = "none"
    BY OffTypes DEF TypeOK
  <1>1. /\ UNCHANGED <<now, stored, issued, cookie, subs, watch, push, gone, cut, faults>>
        /\ call[c].pc = "idle"
    BY DEF Starts, SignIn, Logout, RegisterPush, UnregisterPush, Authorized, StoreKept, OthersKept, NoFault
  <1>2. CASE SignIn(c, b)
    <2>1. PICK keep \in BOOLEAN :
             Set(c, [IdleCall EXCEPT !.op = "signIn", !.pc = "lookup", !.browser = b,
                                     !.id = cookie[b], !.keep = keep, !.token = "live"])
      BY <1>2 DEF SignIn
    <2> DEFINE next == [IdleCall EXCEPT !.op = "signIn", !.pc = "lookup", !.browser = b,
                                        !.id = cookie[b], !.keep = keep, !.token = "live"]
    <2>2. /\ next \in CallType /\ next.pc = "lookup" /\ next.id = cookie[b] /\ next.browser = b
          /\ next.new = NoID /\ next.token = "live"
      BY <1>0 DEF CallType, CallPCs, Tokens
    <2>3. call' = [call EXCEPT ![c] = next]
      BY <2>1 DEF Set
    <2> HIDE DEF next
    <2>4. Fits(next) /\ TokenFits(next)
      BY <2>2 DEF Fits, TokenFits
    <2>5. QED
      BY <1>1, <2>2, <2>3, <2>4
  <1>3. ASSUME NEW op \in {"logout", "register", "unregister"}, NEW pc \in {"delete", "subscribe", "unsubscribe"},
               Authorized(c, b, op, pc), pc = "delete" => op = "logout"
        PROVE  \E next \in CallType :
                 /\ call' = [call EXCEPT ![c] = next]
                 /\ next.id = cookie[b] /\ next.browser = b /\ next.new = NoID
                 /\ next.pc \notin {"idle", "close", "put", "dropSubs", "answer"}
                 /\ Fits(next) /\ TokenFits(next)
    <2>1. /\ cookie[b] # NoID /\ issued[cookie[b]].entity \in Approvers \cup {Nobody}
      BY <1>0, <1>3 DEF Authorized, TypeOK, RowType
    <2> DEFINE next == [IdleCall EXCEPT !.op = op, !.pc = pc, !.browser = b, !.id = cookie[b],
                                        !.entity = issued[cookie[b]].entity]
    <2>2. /\ next \in CallType /\ next.pc = pc /\ next.id = cookie[b] /\ next.browser = b
          /\ next.new = NoID /\ next.op = op
      BY <1>0, <2>1 DEF CallType, CallPCs
    <2>3. call' = [call EXCEPT ![c] = next]
      BY <1>3 DEF Authorized, Set
    <2> HIDE DEF next
    <2>4. Fits(next) /\ TokenFits(next)
      BY <1>3, <2>1, <2>2 DEF Fits, TokenFits
    <2>5. QED
      BY <2>2, <2>3, <2>4
  <1>4. QED
    BY <1>1, <1>2, <1>3 DEF Starts, Logout, RegisterPush, UnregisterPush

Quiet(c) ==
    \/ TokenInvalid(c) \/ LookupSelf(c) \/ RevokeSelf(c) \/ DeleteSession(c) \/ CloseDeletions(c)
    \/ DropSubscriptions(c) \/ PutSubscription(c) \/ DeleteSubscription(c)

\* A step of a call that makes no session and does not end the call.
LEMMA QuietEffect ==
    ASSUME TypeOK, CallsFit, TokensEndWithExchange, NEW c \in Calls, Quiet(c)
    PROVE  /\ UNCHANGED <<now, issued, cookie, push, gone, cut>>
           /\ faults' \in 0..MaxFaults
           /\ \E next \in CallType :
                 /\ call' = [call EXCEPT ![c] = next] /\ Continues(call[c], next)
                 /\ Fits(next) /\ TokenFits(next)
                 /\ call[c].pc = "close" => CloseDeletions(c)
                 /\ next.pc = "close" => call[c].pc = "delete"
                 /\ stored' # stored => stored' = stored \ {call[c].id} /\ next.pc = "close"
           /\ CloseDeletions(c) \/ watch' = watch
           /\ PutSubscription(c) \/ DropSubscriptions(c) \/ DeleteSubscription(c) \/ subs' = subs
  <1>0. /\ call[c] \in CallType /\ Fits(call[c]) /\ TokenFits(call[c])
        /\ TypeOK
    BY DEF TypeOK, CallsFit, TokensEndWithExchange, Fits, TokenFits
  <1> DEFINE k == call[c]
  <1>1. UNCHANGED <<now, issued, cookie, push, gone, cut>>
    BY DEF Quiet, TokenInvalid, LookupSelf, RevokeSelf, DeleteSession, CloseDeletions, DropSubscriptions,
           PutSubscription, DeleteSubscription, StoreKept, OthersKept
  <1>2. faults' \in 0..MaxFaults
    BY <1>0, FaultType DEF Quiet, TokenInvalid, LookupSelf, RevokeSelf, DeleteSession, CloseDeletions,
           DropSubscriptions, PutSubscription, DeleteSubscription
  <1>3. CloseDeletions(c) \/ watch' = watch
    BY DEF Quiet, TokenInvalid, LookupSelf, RevokeSelf, DeleteSession, DropSubscriptions,
           PutSubscription, DeleteSubscription, OthersKept
  <1>4. PutSubscription(c) \/ DropSubscriptions(c) \/ DeleteSubscription(c) \/ subs' = subs
    BY DEF Quiet, TokenInvalid, LookupSelf, RevokeSelf, DeleteSession, CloseDeletions, StoreKept
  <1>5. SUFFICES \E next \in CallType :
                 /\ call' = [call EXCEPT ![c] = next] /\ Continues(k, next)
                 /\ Fits(next) /\ TokenFits(next)
                 /\ k.pc = "close" => CloseDeletions(c)
                 /\ next.pc = "close" => k.pc = "delete"
                 /\ stored' # stored => stored' = stored \ {k.id} /\ next.pc = "close"
    BY <1>1, <1>2, <1>3, <1>4
  <1>6. k \in CallType /\ Fits(k) /\ TokenFits(k)
    BY <1>0
  <1>7. k.entity \in Approvers \cup {Nobody} /\ k.token \in Tokens
    BY <1>0 DEF CallType
  <1>8. CASE TokenInvalid(c)
    <2> DEFINE next == [k EXCEPT !.pc = "answer", !.token = "dead"]
    <2>1. call' = [call EXCEPT ![c] = next] /\ UNCHANGED stored /\ k.op = "signIn" /\ k.pc = "lookup"
      BY <1>8 DEF TokenInvalid, Set, At, StoreKept
    <2>2. next = [k EXCEPT !.pc = "answer", !.entity = k.entity, !.token = "dead"]
      BY <1>0 DEF CallType
    <2> HIDE DEF next
    <2>3. /\ next \in CallType /\ next.pc = "answer" /\ next.token = "dead"
          /\ next.id = k.id /\ next.browser = k.browser /\ next.new = k.new /\ next.op = k.op
      BY <1>6, <1>7, <2>2 DEF CallType, CallPCs, Tokens
    <2>4. Continues(k, next) /\ Fits(next) /\ TokenFits(next)
      BY <2>1, <2>3 DEF Continues, Fits, TokenFits
    <2>5. QED
      BY <2>1, <2>3, <2>4
  <1>9. CASE LookupSelf(c)
    <2>1. PICK e \in Approvers \cup {Nobody} :
             Set(c, [k EXCEPT !.entity = e, !.pc = IF ~k.keep THEN "revoke"
                                                  ELSE IF e = Nobody THEN "answer" ELSE "delete"])
      BY <1>9 DEF LookupSelf
    <2> DEFINE pc == IF ~k.keep THEN "revoke" ELSE IF e = Nobody THEN "answer" ELSE "delete"
               next == [k EXCEPT !.entity = e, !.pc = pc]
    <2>2. call' = [call EXCEPT ![c] = next] /\ UNCHANGED stored /\ k.op = "signIn" /\ k.pc = "lookup"
      BY <1>9, <2>1 DEF LookupSelf, Set, At, StoreKept
    <2>3. /\ pc \in {"revoke", "answer", "delete"}
          /\ pc = "revoke" => ~k.keep
          /\ pc # "revoke" => k.keep
          /\ pc = "delete" => e # Nobody
      OBVIOUS
    <2> HIDE DEF pc
    <2>4. next = [k EXCEPT !.pc = pc, !.entity = e, !.token = k.token]
      BY <1>0 DEF CallType
    <2> HIDE DEF next
    <2>5. /\ next \in CallType /\ next.pc = pc /\ next.token = k.token /\ next.entity = e
          /\ next.id = k.id /\ next.browser = k.browser /\ next.new = k.new /\ next.op = k.op
          /\ next.keep = k.keep
      BY <1>6, <1>7, <2>3, <2>4 DEF CallType, CallPCs
    <2>6. k.token = "live"
      BY <1>0, <2>2 DEF TokenFits
    <2>7. Continues(k, next) /\ Fits(next)
      BY <2>2, <2>3, <2>5 DEF Continues, Fits
    <2>8. TokenFits(next)
      BY <2>2, <2>3, <2>5, <2>6 DEF TokenFits
    <2>9. QED
      BY <2>2, <2>3, <2>5, <2>7, <2>8
  <1>10. CASE RevokeSelf(c)
    <2>1. PICK token \in {"revoked", "leaked"} :
             Set(c, [k EXCEPT !.token = token, !.pc = IF k.entity = Nobody THEN "answer" ELSE "delete"])
      BY <1>10 DEF RevokeSelf
    <2> DEFINE pc == IF k.entity = Nobody THEN "answer" ELSE "delete"
               next == [k EXCEPT !.token = token, !.pc = pc]
    <2>2. call' = [call EXCEPT ![c] = next] /\ UNCHANGED stored /\ k.op = "signIn" /\ k.pc = "revoke"
      BY <1>10, <2>1 DEF RevokeSelf, Set, At, StoreKept
    <2>3. pc \in {"answer", "delete"} /\ (pc = "delete" => k.entity # Nobody)
      OBVIOUS
    <2> HIDE DEF pc
    <2>4. next = [k EXCEPT !.pc = pc, !.entity = k.entity, !.token = token]
      BY <1>0 DEF CallType
    <2> HIDE DEF next
    <2>5. /\ next \in CallType /\ next.pc = pc /\ next.token = token /\ next.entity = k.entity
          /\ next.id = k.id /\ next.browser = k.browser /\ next.new = k.new /\ next.op = k.op
          /\ next.keep = k.keep
      BY <1>6, <1>7, <2>3, <2>4 DEF CallType, CallPCs, Tokens
    <2>6. ~k.keep
      BY <1>0, <2>2 DEF TokenFits
    <2>7. Continues(k, next) /\ Fits(next)
      BY <2>2, <2>3, <2>5 DEF Continues, Fits
    <2>8. TokenFits(next)
      BY <2>2, <2>3, <2>5, <2>6 DEF TokenFits
    <2>9. QED
      BY <2>2, <2>3, <2>5, <2>7, <2>8
  <1>11. ASSUME NEW pc \in CallPCs, Goto(c, pc)
         PROVE  \E next \in CallType :
                   /\ call' = [call EXCEPT ![c] = next]
                   /\ next.pc = pc /\ next.token = k.token /\ next.entity = k.entity
                   /\ next.id = k.id /\ next.browser = k.browser /\ next.new = k.new /\ next.op = k.op
                   /\ next.keep = k.keep
    <2> DEFINE next == [k EXCEPT !.pc = pc]
    <2>1. call' = [call EXCEPT ![c] = next]
      BY <1>11 DEF Goto, Set
    <2>2. /\ next \in CallType
          /\ next.pc = pc /\ next.token = k.token /\ next.entity = k.entity
          /\ next.id = k.id /\ next.browser = k.browser /\ next.new = k.new /\ next.op = k.op
          /\ next.keep = k.keep
      BY <1>0, GoingOn
    <2> HIDE DEF next
    <2>3. QED
      BY <2>1, <2>2
  <1>12. CASE DeleteSession(c)
    <2>1. /\ k.pc = "delete"
          /\ \/ Goto(c, "put") /\ k.id = NoID /\ UNCHANGED stored
             \/ Goto(c, "close") /\ (stored' = stored \/ stored' = stored \ {k.id})
      BY <1>12 DEF DeleteSession
    <2>2. PICK pc \in {"put", "close"} :
             Goto(c, pc) /\ (pc = "put" => UNCHANGED stored) /\ (stored' = stored \/ stored' = stored \ {k.id})
      BY <2>1
    <2>3. PICK next \in CallType :
             /\ call' = [call EXCEPT ![c] = next]
             /\ next.pc = pc /\ next.token = k.token /\ next.entity = k.entity
             /\ next.id = k.id /\ next.browser = k.browser /\ next.new = k.new /\ next.op = k.op
             /\ next.keep = k.keep
      BY <1>11, <2>2 DEF CallPCs
    <2>4. Continues(k, next) /\ Fits(next) /\ TokenFits(next)
      BY <1>0, <2>1, <2>2, <2>3 DEF Continues, Fits, TokenFits
    <2>5. QED
      BY <2>1, <2>2, <2>3, <2>4
  <1>13. CASE CloseDeletions(c)
    <2> DEFINE pc == IF k.op = "signIn" THEN "put" ELSE "dropSubs"
    <2>1. k.pc = "close" /\ Goto(c, pc) /\ UNCHANGED stored
      BY <1>13 DEF CloseDeletions, StoreKept
    <2>2. pc \in {"put", "dropSubs"} /\ (pc = "put" <=> k.op = "signIn")
      OBVIOUS
    <2> HIDE DEF pc
    <2>3. PICK next \in CallType :
             /\ call' = [call EXCEPT ![c] = next]
             /\ next.pc = pc /\ next.token = k.token /\ next.entity = k.entity
             /\ next.id = k.id /\ next.browser = k.browser /\ next.new = k.new /\ next.op = k.op
             /\ next.keep = k.keep
      BY <1>11, <2>1, <2>2 DEF CallPCs
    <2>4. Continues(k, next) /\ Fits(next) /\ TokenFits(next)
      BY <1>0, <2>1, <2>2, <2>3 DEF Continues, Fits, TokenFits
    <2>5. QED
      BY <1>13, <2>1, <2>2, <2>3, <2>4
  <1>14. CASE DropSubscriptions(c) \/ PutSubscription(c) \/ DeleteSubscription(c)
    <2>1. k.pc \in {"dropSubs", "subscribe", "unsubscribe"} /\ Goto(c, "answer") /\ UNCHANGED stored
      BY <1>14 DEF DropSubscriptions, PutSubscription, DeleteSubscription
    <2>2. PICK next \in CallType :
             /\ call' = [call EXCEPT ![c] = next]
             /\ next.pc = "answer" /\ next.token = k.token /\ next.entity = k.entity
             /\ next.id = k.id /\ next.browser = k.browser /\ next.new = k.new /\ next.op = k.op
             /\ next.keep = k.keep
      BY <1>11, <2>1 DEF CallPCs
    <2>3. Continues(k, next) /\ Fits(next)
      BY <1>0, <2>1, <2>2 DEF Continues, Fits
    <2>4. TokenFits(next)
      BY <1>0, <2>1, <2>2 DEF Fits, TokenFits
    <2>5. QED
      BY <2>1, <2>2, <2>3, <2>4
  <1>15. QED
    BY <1>8, <1>9, <1>10, <1>12, <1>13, <1>14 DEF Quiet

LEMMA MillisIsNat == ASSUME NEW t \in Nat PROVE Millis(t) \in Nat
  BY TimesAssumption DEF Millis

\* The steps of PutSession: a session nobody knows of is stored, or the call
\* goes on without one.
LEMMA PutEffect ==
    ASSUME TypeOK, CallsFit, TokensEndWithExchange, NEW c \in Calls, PutSession(c)
    PROVE  /\ UNCHANGED <<now, cookie, subs, watch, push, gone>>
           /\ faults' \in 0..MaxFaults
           /\ call[c].pc = "put"
           /\ \E next \in CallType :
                 /\ call' = [call EXCEPT ![c] = next]
                 /\ next.id = call[c].id /\ next.browser = call[c].browser /\ next.op = "signIn"
                 /\ next.pc = "answer" /\ Fits(next) /\ TokenFits(next)
                 /\ \/ /\ cut' = cut
                       /\ \E s \in SessionIDs \ Issued, row \in RowType :
                             /\ next.new = s /\ stored' = stored \cup {s}
                             /\ issued' = [issued EXCEPT ![s] = row] /\ row # NoRow
                    \/ /\ cut' = cut \cup {call[c].browser}
                       /\ UNCHANGED <<stored, issued>> /\ next.new = call[c].new
  <1> DEFINE k == call[c]
  <1>1. k \in CallType /\ Fits(k) /\ TokenFits(k)
    BY DEF TypeOK, CallsFit, TokensEndWithExchange, Fits, TokenFits
  <1>2. /\ UNCHANGED <<now, cookie, subs, watch, push, gone>>
        /\ k.pc = "put" /\ k.op = "signIn" /\ k.entity # Nobody
    BY <1>1 DEF PutSession, At, Fits
  <1>3. faults' \in 0..MaxFaults
    BY FaultType DEF PutSession
  <1>4. CASE cut' = cut /\ \E s \in {id \in SessionIDs : issued[id] = NoRow} :
                /\ stored' = stored \cup {s}
                /\ issued' = [issued EXCEPT ![s] = [entity |-> k.entity, exp |-> Millis(now + SessionTTL)]]
                /\ Set(c, [k EXCEPT !.pc = "answer", !.new = s])
    <2>1. PICK s \in SessionIDs :
                /\ issued[s] = NoRow /\ stored' = stored \cup {s}
                /\ issued' = [issued EXCEPT ![s] = [entity |-> k.entity, exp |-> Millis(now + SessionTTL)]]
                /\ Set(c, [k EXCEPT !.pc = "answer", !.new = s])
      BY <1>4
    <2> DEFINE row == [entity |-> k.entity, exp |-> Millis(now + SessionTTL)]
               next == [k EXCEPT !.pc = "answer", !.new = s]
    <2>2. now + SessionTTL \in Nat /\ k.entity \in Approvers \cup {Nobody}
      BY <1>1, TimesAssumption DEF TypeOK, CallType
    <2>3. row \in RowType /\ row # NoRow
      BY <1>2, <2>2, MillisIsNat DEF RowType, NoRow
    <2>4. /\ next \in CallType /\ next.pc = "answer" /\ next.new = s /\ next.id = k.id
          /\ next.browser = k.browser /\ next.op = k.op /\ next.token = k.token /\ next.keep = k.keep
      BY <1>1 DEF CallType, CallPCs
    <2>5. call' = [call EXCEPT ![c] = next] /\ s \in SessionIDs \ Issued
      BY <2>1 DEF Set, Issued
    <2>6. issued' = [issued EXCEPT ![s] = row] /\ stored' = stored \cup {s} /\ cut' = cut
      BY <1>4, <2>1
    <2> HIDE DEF row, next
    <2>7. Fits(next) /\ TokenFits(next)
      BY <1>1, <1>2, <2>4 DEF Fits, TokenFits
    <2>8. QED
      BY <1>2, <1>3, <2>3, <2>4, <2>5, <2>6, <2>7
  <1>5. CASE Goto(c, "answer") /\ cut' = cut \cup {k.browser} /\ UNCHANGED <<stored, issued>>
    <2> DEFINE next == [k EXCEPT !.pc = "answer"]
    <2>1. call' = [call EXCEPT ![c] = next]
      BY <1>5 DEF Goto, Set
    <2>2. /\ next \in CallType /\ next.pc = "answer" /\ next.new = k.new /\ next.id = k.id
          /\ next.browser = k.browser /\ next.op = k.op /\ next.token = k.token /\ next.keep = k.keep
      BY <1>1 DEF CallType, CallPCs
    <2> HIDE DEF next
    <2>3. Fits(next) /\ TokenFits(next)
      BY <1>1, <1>2, <2>2 DEF Fits, TokenFits
    <2>4. QED
      BY <1>2, <1>3, <1>5, <2>1, <2>2, <2>3
  <1>6. QED
    BY <1>4, <1>5 DEF PutSession

LEMMA AnswerEffect ==
    ASSUME TypeOK, NEW c \in Calls, Answer(c)
    PROVE  /\ UNCHANGED <<now, stored, issued, subs, watch, push, gone>>
           /\ faults' \in 0..MaxFaults
           /\ call[c].pc = "answer"
           /\ call' = [call EXCEPT ![c] = IdleCall]
           /\ \/ /\ cut' = cut
                 /\ cookie' = [cookie EXCEPT ![call[c].browser] = call[c].new] /\ call[c].new # NoID
              \/ /\ cut' = cut /\ call[c].new = NoID /\ call[c].op = "logout"
                 /\ cookie' = [cookie EXCEPT ![call[c].browser] = NoID]
              \/ cut' = cut /\ call[c].new = NoID /\ call[c].op # "logout" /\ cookie' = cookie
              \/ cut' = cut \cup {call[c].browser} /\ cookie' = cookie
  <1>1. /\ UNCHANGED <<now, stored, issued, subs, watch, push, gone>> /\ call[c].pc = "answer"
        /\ call' = [call EXCEPT ![c] = IdleCall]
    BY DEF Answer, StoreKept, Set
  <1>2. faults' \in 0..MaxFaults
    BY FaultType DEF Answer
  <1>3. CASE cut' = cut \cup {call[c].browser} /\ cookie' = cookie
    BY <1>1, <1>2, <1>3
  <1>4. CASE /\ cut' = cut
             /\ cookie' = [cookie EXCEPT ![call[c].browser] =
                 IF call[c].new # NoID THEN call[c].new
                 ELSE IF call[c].op = "logout" THEN NoID ELSE @]
    <2>1. CASE call[c].new # NoID
      BY <1>1, <1>2, <1>4, <2>1
    <2>2. CASE call[c].new = NoID /\ call[c].op = "logout"
      BY <1>1, <1>2, <1>4, <2>2
    <2>3. CASE call[c].new = NoID /\ call[c].op # "logout"
      <3>1. cookie' = [cookie EXCEPT ![call[c].browser] = cookie[call[c].browser]]
        BY <1>4, <2>3
      <3>2. cookie' = cookie
        BY <3>1 DEF TypeOK
      <3>3. QED
        BY <1>1, <1>2, <1>4, <2>3, <3>2
    <2>4. QED
      BY <2>1, <2>2, <2>3
  <1>5. QED
    BY <1>3, <1>4 DEF Answer

-----------------------------------------------------------------------------
(* What the steps of a stream, of the fan-out and of the process do.        *)

Watched(w) ==
    (\E b \in Browsers : OpenWatch(w, b)) \/ WatchStep(w) \/ Disconnect(w)

LEMMA WatchEffect ==
    ASSUME TypeOK, NamesAreIssued, NEW w \in Watches, Watched(w)
    PROVE  /\ UNCHANGED <<now, stored, issued, cookie, subs, call, push, gone, cut>>
           /\ faults' \in 0..MaxFaults
           /\ \E next \in WatchType :
                 /\ watch' = [watch EXCEPT ![w] = next]
                 /\ next.pc # "off" => next.id \in Issued
                 /\ next.pc = "ended" => ~Live(next.id)
                 /\ next.pc = "wait" /\ ~next.blind => Live(next.id)
  <1>1. UNCHANGED <<now, stored, issued, cookie, subs, call, push, gone, cut>>
    BY DEF Watched, WatchStep, OpenWatch, TakeDeletions, LookUp, Wake, ExpireWatch, EndWatch, Disconnect, WatchKept
  <1>2. faults' \in 0..MaxFaults
    BY FaultType DEF Watched, WatchStep, OpenWatch, TakeDeletions, LookUp, Wake, ExpireWatch, EndWatch, Disconnect
  <1> DEFINE k == watch[w]
             Moves(next) == /\ watch' = [watch EXCEPT ![w] = next]
                            /\ next.pc # "off" => next.id \in Issued
                            /\ next.pc = "ended" => ~Live(next.id)
                            /\ next.pc = "wait" /\ ~next.blind => Live(next.id)
  <1>3. k \in WatchType /\ (k.pc # "off" => k.id \in Issued)
    BY DEF TypeOK, NamesAreIssued
  <1>4. SUFFICES \E next \in WatchType : Moves(next)
    BY <1>1, <1>2
  <1>5. CASE \E b \in Browsers : OpenWatch(w, b)
    <2>1. PICK b \in Browsers : OpenWatch(w, b)
      BY <1>5
    <2>2. cookie[b] \in Issued /\ cookie[b] \in SessionIDs
      BY <2>1 DEF OpenWatch, NamesAreIssued, Issued
    <2> DEFINE next == [NoWatch EXCEPT !.pc = "take", !.id = cookie[b]]
    <2>3. next \in WatchType /\ next.pc = "take" /\ next.id = cookie[b]
      BY <2>2, OffTypes DEF WatchType
    <2>4. watch' = [watch EXCEPT ![w] = next]
      BY <2>1 DEF OpenWatch, Step
    <2> HIDE DEF next
    <2>5. QED
      BY <2>2, <2>3, <2>4
  <1>6. CASE TakeDeletions(w)
    <2> DEFINE next == [k EXCEPT !.pc = "look", !.signalled = FALSE]
    <2>1. watch' = [watch EXCEPT ![w] = next] /\ k.pc = "take"
      BY <1>6 DEF TakeDeletions, Step
    <2>2. next \in WatchType /\ next.pc = "look" /\ next.id = k.id
      BY <1>3 DEF WatchType
    <2> HIDE DEF next
    <2>3. QED
      BY <1>3, <2>1, <2>2
  <1>7. CASE LookUp(w)
    <2>1. CASE Step(w, [k EXCEPT !.blind = FALSE, !.pc = IF Live(k.id) THEN "wait" ELSE "ended"])
      <3> DEFINE pc == IF Live(k.id) THEN "wait" ELSE "ended"
                 next == [k EXCEPT !.blind = FALSE, !.pc = pc]
      <3>1. watch' = [watch EXCEPT ![w] = next] /\ k.pc = "look"
        BY <1>7, <2>1 DEF LookUp, Step
      <3>2. pc \in {"wait", "ended"} /\ (pc = "wait" <=> Live(k.id))
        OBVIOUS
      <3> HIDE DEF pc
      <3>3. next \in WatchType /\ next.pc = pc /\ next.id = k.id
        BY <1>3, <3>2 DEF WatchType
      <3> HIDE DEF next
      <3>4. QED
        BY <1>3, <3>1, <3>2, <3>3
    <2>2. CASE Step(w, [k EXCEPT !.blind = TRUE, !.pc = "wait"])
      <3> DEFINE next == [k EXCEPT !.blind = TRUE, !.pc = "wait"]
      <3>1. watch' = [watch EXCEPT ![w] = next] /\ k.pc = "look"
        BY <1>7, <2>2 DEF LookUp, Step
      <3>2. next \in WatchType /\ next.pc = "wait" /\ next.id = k.id /\ next.blind
        BY <1>3 DEF WatchType
      <3> HIDE DEF next
      <3>3. QED
        BY <1>3, <3>1, <3>2
    <2>3. QED
      BY <1>7, <2>1, <2>2 DEF LookUp
  <1>8. CASE Wake(w)
    <2> DEFINE next == [k EXCEPT !.pc = "take"]
    <2>1. watch' = [watch EXCEPT ![w] = next] /\ k.pc = "wait"
      BY <1>8 DEF Wake, Step
    <2>2. next \in WatchType /\ next.pc = "take" /\ next.id = k.id
      BY <1>3 DEF WatchType
    <2> HIDE DEF next
    <2>3. QED
      BY <1>3, <2>1, <2>2
  <1>9. CASE ExpireWatch(w)
    <2> DEFINE next == [k EXCEPT !.pc = "ended"]
    <2>1. watch' = [watch EXCEPT ![w] = next] /\ k.pc = "wait" /\ Expired(k.id)
      BY <1>9 DEF ExpireWatch, Step
    <2>2. next \in WatchType /\ next.pc = "ended" /\ next.id = k.id
      BY <1>3 DEF WatchType
    <2>3. k.id \in SessionIDs
      BY <1>3, <2>1 DEF Issued
    <2>4. ~Live(k.id)
      BY <2>1, <2>3 DEF Live, Expired, TypeOK, RowType
    <2> HIDE DEF next
    <2>5. QED
      BY <1>3, <2>1, <2>2, <2>4
  <1>10. CASE EndWatch(w) \/ Disconnect(w)
    <2>1. watch' = [watch EXCEPT ![w] = NoWatch]
      BY <1>10 DEF EndWatch, Disconnect, Step
    <2>2. QED
      BY <2>1, OffTypes
  <1>11. QED
    BY <1>5, <1>6, <1>7, <1>8, <1>9, <1>10 DEF Watched, WatchStep

Pushes == StartPush \/ EndPush \/ \E b \in Browsers : EndpointGone(b) \/ SendPush(b)

LEMMA PushEffect ==
    ASSUME TypeOK, Pushes
    PROVE  /\ UNCHANGED <<now, stored, issued, cookie, call, watch, cut>>
           /\ faults' \in 0..MaxFaults
           /\ push' \in [pc : {"idle", "send"}, todo : SUBSET Browsers]
           /\ gone' \subseteq Browsers
           /\ subs' \in [Browsers -> SubType]
           /\ \A b \in Browsers : subs'[b] = subs[b] \/ subs'[b] = NoSub
  <1>0. subs \in [Browsers -> SubType] /\ push \in [pc : {"idle", "send"}, todo : SUBSET Browsers] /\ gone \subseteq Browsers
    BY DEF TypeOK
  <1>1. UNCHANGED <<now, stored, issued, cookie, call, watch, cut>>
    BY DEF Pushes, StartPush, EndPush, EndpointGone, SendPush, PushKept
  <1>2. faults' \in 0..MaxFaults
    BY FaultType DEF Pushes, StartPush, EndPush, EndpointGone, SendPush, Unresolved
  <1>3. CASE StartPush
    <2>1. push' = [pc |-> "send", todo |-> {b \in Browsers : Unexpired(b)}] /\ UNCHANGED <<subs, gone>>
      BY <1>3 DEF StartPush
    <2>2. {b \in Browsers : Unexpired(b)} \in SUBSET Browsers
      OBVIOUS
    <2>3. QED
      BY <1>0, <1>1, <1>2, <2>1, <2>2
  <1>4. CASE EndPush
    <2>1. push' = NoPush /\ UNCHANGED <<subs, gone>>
      BY <1>4 DEF EndPush
    <2>2. QED
      BY <1>0, <1>1, <1>2, <2>1 DEF NoPush
  <1>5. ASSUME NEW b \in Browsers, EndpointGone(b)
        PROVE  gone' \subseteq Browsers /\ UNCHANGED <<subs, push>>
    BY <1>0, <1>5 DEF EndpointGone
  <1>6. ASSUME NEW b \in Browsers, SendPush(b)
        PROVE  /\ gone' = gone
               /\ push' \in [pc : {"idle", "send"}, todo : SUBSET Browsers]
               /\ subs' = subs \/ subs' = [subs EXCEPT ![b] = NoSub]
    <2>1. gone' = gone /\ (subs' = subs \/ subs' = [subs EXCEPT ![b] = NoSub])
      BY <1>6 DEF SendPush
    <2>2. push' = [push EXCEPT !.todo = @ \ {b}]
      BY <1>6 DEF SendPush
    <2>3. push.todo \ {b} \in SUBSET Browsers
      BY <1>0
    <2>4. push' \in [pc : {"idle", "send"}, todo : SUBSET Browsers]
      BY <1>0, <2>2, <2>3
    <2>5. QED
      BY <2>1, <2>4
  <1>7. ASSUME NEW b \in Browsers, subs' = [subs EXCEPT ![b] = NoSub]
        PROVE  /\ subs' \in [Browsers -> SubType]
               /\ \A x \in Browsers : subs'[x] = subs[x] \/ subs'[x] = NoSub
    BY <1>0, <1>7, OffTypes
  <1>8. CASE \E b \in Browsers : EndpointGone(b)
    BY <1>0, <1>1, <1>2, <1>5, <1>8
  <1>9. CASE \E b \in Browsers : SendPush(b)
    <2>1. PICK b \in Browsers : SendPush(b)
      BY <1>9
    <2>2. /\ gone' = gone
          /\ push' \in [pc : {"idle", "send"}, todo : SUBSET Browsers]
          /\ subs' = subs \/ subs' = [subs EXCEPT ![b] = NoSub]
      BY <1>6, <2>1
    <2>3. CASE subs' = subs
      BY <1>0, <1>1, <1>2, <2>2, <2>3
    <2>4. CASE subs' = [subs EXCEPT ![b] = NoSub]
      BY <1>0, <1>1, <1>2, <1>7, <2>2, <2>4
    <2>5. QED
      BY <2>2, <2>3, <2>4
  <1>10. QED
    BY <1>3, <1>4, <1>8, <1>9 DEF Pushes

-----------------------------------------------------------------------------
(* What a step leaves of the store.                                         *)

LEMMA StepKinds ==
    ASSUME Next
    PROVE  \/ \E c \in Calls, b \in Browsers : Starts(c, b)
           \/ \E c \in Calls : Quiet(c)
           \/ \E c \in Calls : PutSession(c)
           \/ \E c \in Calls : Answer(c)
           \/ \E w \in Watches : Watched(w)
           \/ Pushes \/ Sweep \/ Restart \/ Tick
  BY DEF Next, CallStep, Starts, Quiet, Watched, Pushes

\* A subscription after a step of a call: as before, none, or one with the
\* deadline of the session that call was authorized by.
LEMMA SubsEffect ==
    ASSUME TypeOK, CallsFit, NamesAreIssued, NEW c \in Calls,
           \/ PutSubscription(c) \/ DropSubscriptions(c) \/ DeleteSubscription(c)
           \/ subs' = subs
    PROVE  /\ subs' \in [Browsers -> SubType]
           /\ \A b \in Browsers :
                 \/ subs'[b] = subs[b] \/ subs'[b] = NoSub
                 \/ subs'[b].by \in Issued /\ subs'[b].exp = issued[subs'[b].by].exp
  <1>0. /\ subs \in [Browsers -> SubType] /\ NoSub \in SubType
        /\ call[c].browser \in Browsers /\ call[c].entity \in Approvers \cup {Nobody}
        /\ call[c].pc = "subscribe" => call[c].id \in Issued
    BY OffTypes DEF TypeOK, CallType, CallsFit, NamesAreIssued
  <1>1. CASE subs' = subs
    BY <1>0, <1>1
  <1>2. CASE PutSubscription(c) /\ subs' # subs
    <2> DEFINE row == [entity |-> call[c].entity, exp |-> issued[call[c].id].exp, by |-> call[c].id]
    <2>1. subs' = [subs EXCEPT ![call[c].browser] = row] /\ call[c].id \in Issued
      BY <1>0, <1>2 DEF PutSubscription
    <2>2. row \in SubType /\ row.by \in Issued /\ row.exp = issued[row.by].exp
      BY <1>0, <2>1 DEF TypeOK, Issued, RowType, SubType
    <2> HIDE DEF row
    <2>3. QED
      BY <1>0, <2>1, <2>2
  <1>3. CASE DropSubscriptions(c) /\ subs' # subs
    BY <1>0, <1>3 DEF DropSubscriptions
  <1>4. CASE DeleteSubscription(c) /\ subs' # subs
    <2>1. subs' = [subs EXCEPT ![call[c].browser] = NoSub]
      BY <1>4 DEF DeleteSubscription
    <2>2. QED
      BY <1>0, <2>1
  <1>5. QED
    BY <1>1, <1>2, <1>3, <1>4

\* The row of a session is deleted by a call with its cookie, on its way to
\* wake the streams; without that it stays until its deadline has passed.
Deletes(c, s) ==
    /\ call[c].id = s
    /\ call'[c].id = s /\ call'[c].browser = call[c].browser /\ call'[c].pc = "close"

StoreStays ==
    \A s \in Issued :
        /\ s \in Issued' /\ issued'[s] = issued[s]
        /\ Live(s)' => Live(s)
        /\ Expired(s) => Expired(s)'
        /\ Live(s) => Live(s)' \/ Expired(s)' \/ \E c \in Calls : Deletes(c, s)

\* Without a step of the store or the clock nothing of that changes.
LEMMA StoreKeeps == ASSUME UNCHANGED <<now, stored, issued>> PROVE StoreStays
  BY DEF StoreStays, Issued, Live, Expired

LEMMA StoreStep == ASSUME SessionsInv, Next PROVE StoreStays
  <1>0. TypeOK /\ CallsFit /\ NamesAreIssued /\ TokensEndWithExchange
    BY DEF SessionsInv
  <1>1. ASSUME NEW c \in Calls, NEW b \in Browsers, Starts(c, b) PROVE StoreStays
    BY <1>0, <1>1, StartEffect, StoreKeeps
  <1>2. ASSUME NEW c \in Calls, Quiet(c) PROVE StoreStays
    <2>1. PICK next \in CallType :
                 /\ call' = [call EXCEPT ![c] = next] /\ Continues(call[c], next)
                 /\ stored' # stored => stored' = stored \ {call[c].id} /\ next.pc = "close"
      BY <1>0, <1>2, QuietEffect
    <2>2. UNCHANGED <<now, issued>>
      BY <1>0, <1>2, QuietEffect
    <2>3. CASE stored' = stored
      BY <2>2, <2>3, StoreKeeps
    <2>4. CASE stored' # stored
      <3>1. stored' = stored \ {call[c].id} /\ call'[c].pc = "close" /\ call'[c].id = call[c].id
            /\ call'[c].browser = call[c].browser
        BY <1>0, <2>1, <2>4 DEF TypeOK, Continues
      <3>2. Deletes(c, call[c].id)
        BY <3>1 DEF Deletes
      <3>3. QED
        BY <2>2, <3>1, <3>2 DEF StoreStays, Issued, Live, Expired
    <2>5. QED
      BY <2>3, <2>4
  <1>3. ASSUME NEW c \in Calls, PutSession(c) PROVE StoreStays
    <2>1. now' = now
      BY <1>0, <1>3, PutEffect
    <2>2. \/ UNCHANGED <<stored, issued>>
          \/ \E s \in SessionIDs \ Issued, row \in RowType :
                stored' = stored \cup {s} /\ issued' = [issued EXCEPT ![s] = row]
      BY <1>0, <1>3, PutEffect
    <2>3. CASE UNCHANGED <<stored, issued>>
      BY <2>1, <2>3, StoreKeeps
    <2>4. ASSUME NEW s \in SessionIDs \ Issued, NEW row \in RowType,
                 stored' = stored \cup {s} /\ issued' = [issued EXCEPT ![s] = row]
          PROVE  StoreStays
      <3>1. \A x \in Issued : x # s /\ issued'[x] = issued[x] /\ (x \in stored' <=> x \in stored)
        BY <1>0, <2>4 DEF TypeOK, Issued
      <3>2. QED
        BY <2>1, <3>1 DEF StoreStays, Issued, Live, Expired
    <2>5. QED
      BY <2>2, <2>3, <2>4
  <1>4. ASSUME NEW c \in Calls, Answer(c) PROVE StoreStays
    BY <1>0, <1>4, AnswerEffect, StoreKeeps
  <1>5. ASSUME NEW w \in Watches, Watched(w) PROVE StoreStays
    BY <1>0, <1>5, WatchEffect, StoreKeeps
  <1>6. CASE Pushes
    BY <1>0, <1>6, PushEffect, StoreKeeps
  <1>7. CASE Sweep
    BY <1>0, <1>7 DEF Sweep, StoreStays, Issued, Live, Expired, TypeOK, RowType
  <1>8. CASE Restart
    BY <1>8, StoreKeeps DEF Restart
  <1>9. CASE Tick
    BY <1>0, <1>9 DEF Tick, StoreStays, Issued, Live, Expired, TypeOK, RowType
  <1>10. QED
    BY <1>1, <1>2, <1>3, <1>4, <1>5, <1>6, <1>7, <1>8, <1>9, StepKinds

-----------------------------------------------------------------------------
(* Every step keeps the parts of SessionsInv.                               *)

LEMMA TypeStep == ASSUME SessionsInv, Next PROVE TypeOK'
  <1>0. TypeOK /\ CallsFit /\ NamesAreIssued /\ TokensEndWithExchange
    BY DEF SessionsInv
  <1>1. ASSUME NEW c \in Calls, NEW b \in Browsers, Starts(c, b) PROVE TypeOK'
    <2>1. /\ UNCHANGED <<now, stored, issued, cookie, subs, watch, push, gone, cut, faults>>
          /\ \E next \in CallType : call' = [call EXCEPT ![c] = next]
      BY <1>0, <1>1, StartEffect
    <2>2. QED
      BY <1>0, <2>1 DEF TypeOK
  <1>2. ASSUME NEW c \in Calls, Quiet(c) PROVE TypeOK'
    <2>1. /\ UNCHANGED <<now, issued, cookie, push, gone, cut>>
          /\ faults' \in 0..MaxFaults
          /\ \E next \in CallType : call' = [call EXCEPT ![c] = next]
          /\ stored' # stored => stored' = stored \ {call[c].id}
      BY <1>0, <1>2, QuietEffect
    <2>2. subs' \in [Browsers -> SubType]
      BY <1>0, <1>2, QuietEffect, SubsEffect
    <2>3. watch' \in [Watches -> WatchType]
      <3>1. CASE watch' = watch
        BY <1>0, <3>1 DEF TypeOK
      <3>2. CASE CloseDeletions(c)
        BY <1>0, <3>2 DEF CloseDeletions, TypeOK, WatchType
      <3>3. QED
        BY <1>0, <1>2, <3>1, <3>2, QuietEffect
    <2>4. stored' \subseteq SessionIDs /\ call' \in [Calls -> CallType]
      BY <1>0, <2>1 DEF TypeOK
    <2>5. QED
      BY <1>0, <2>1, <2>2, <2>3, <2>4 DEF TypeOK
  <1>3. ASSUME NEW c \in Calls, PutSession(c) PROVE TypeOK'
    <2>1. /\ UNCHANGED <<now, cookie, subs, watch, push, gone>>
          /\ faults' \in 0..MaxFaults
          /\ \E next \in CallType : call' = [call EXCEPT ![c] = next]
          /\ cut' = cut \/ cut' = cut \cup {call[c].browser}
          /\ \/ UNCHANGED <<stored, issued>>
             \/ \E s \in SessionIDs \ Issued, row \in RowType :
                   stored' = stored \cup {s} /\ issued' = [issued EXCEPT ![s] = row]
      BY <1>0, <1>3, PutEffect
    <2>2. stored' \subseteq SessionIDs /\ issued' \in [SessionIDs -> RowType]
      BY <1>0, <2>1 DEF TypeOK
    <2>3. cut' \subseteq Browsers
      BY <1>0, <2>1 DEF TypeOK, CallType
    <2>4. QED
      BY <1>0, <2>1, <2>2, <2>3 DEF TypeOK
  <1>4. ASSUME NEW c \in Calls, Answer(c) PROVE TypeOK'
    <2>1. /\ UNCHANGED <<now, stored, issued, subs, watch, push, gone>>
          /\ faults' \in 0..MaxFaults
          /\ call' = [call EXCEPT ![c] = IdleCall]
          /\ cut' = cut \/ cut' = cut \cup {call[c].browser}
          /\ \/ cookie' = cookie \/ cookie' = [cookie EXCEPT ![call[c].browser] = call[c].new]
             \/ cookie' = [cookie EXCEPT ![call[c].browser] = NoID]
      BY <1>0, <1>4, AnswerEffect
    <2>2. call[c].browser \in Browsers /\ call[c].new \in SessionIDs \cup {NoID}
      BY <1>0 DEF TypeOK, CallType
    <2>3. cut' \subseteq Browsers /\ cookie' \in [Browsers -> SessionIDs \cup {NoID}]
      BY <1>0, <2>1, <2>2 DEF TypeOK
    <2>4. QED
      BY <1>0, <2>1, <2>3, OffTypes DEF TypeOK
  <1>5. ASSUME NEW w \in Watches, Watched(w) PROVE TypeOK'
    <2>1. /\ UNCHANGED <<now, stored, issued, cookie, subs, call, push, gone, cut>>
          /\ faults' \in 0..MaxFaults
          /\ \E next \in WatchType : watch' = [watch EXCEPT ![w] = next]
      BY <1>0, <1>5, WatchEffect
    <2>2. QED
      BY <1>0, <2>1 DEF TypeOK
  <1>6. CASE Pushes
    BY <1>0, <1>6, PushEffect DEF TypeOK
  <1>7. CASE Sweep
    BY <1>0, <1>7 DEF Sweep, TypeOK
  <1>8. CASE Restart
    <2>1. call' \in [Calls -> CallType] /\ watch' \in [Watches -> WatchType]
      BY <1>8, OffTypes DEF Restart
    <2>2. cut' \subseteq Browsers
      BY <1>0, <1>8 DEF Restart, TypeOK, CallType
    <2>3. push' \in [pc : {"idle", "send"}, todo : SUBSET Browsers]
      BY <1>8 DEF Restart, NoPush
    <2>4. UNCHANGED <<now, stored, issued, cookie, subs, gone>> /\ faults' \in 0..MaxFaults
      BY <1>0, <1>8, FaultType DEF Restart
    <2>5. QED
      BY <1>0, <2>1, <2>2, <2>3, <2>4 DEF TypeOK
  <1>9. CASE Tick
    BY <1>0, <1>9 DEF Tick, TypeOK
  <1>10. QED
    BY <1>1, <1>2, <1>3, <1>4, <1>5, <1>6, <1>7, <1>8, <1>9, StepKinds

LEMMA CallsFitStep == ASSUME SessionsInv, Next PROVE CallsFit' /\ TokensEndWithExchange'
  <1>0. TypeOK /\ CallsFit /\ NamesAreIssued /\ TokensEndWithExchange
    BY DEF SessionsInv
  <1>1. \A d \in Calls : Fits(call[d]) /\ TokenFits(call[d])
    BY <1>0 DEF CallsFit, TokensEndWithExchange, Fits, TokenFits
  <1>2. Fits(IdleCall) /\ TokenFits(IdleCall)
    BY OffTypes DEF Fits, TokenFits
  <1>3. ASSUME NEW c \in Calls, NEW next, call' = [call EXCEPT ![c] = next], Fits(next), TokenFits(next)
        PROVE  \A d \in Calls : Fits(call'[d]) /\ TokenFits(call'[d])
    BY <1>0, <1>1, <1>3 DEF TypeOK
  <1>4. SUFFICES \A d \in Calls : Fits(call'[d]) /\ TokenFits(call'[d])
    BY <1>4 DEF CallsFit, TokensEndWithExchange, Fits, TokenFits
  <1>5. ASSUME NEW c \in Calls, NEW b \in Browsers, Starts(c, b)
        PROVE  \A d \in Calls : Fits(call'[d]) /\ TokenFits(call'[d])
    BY <1>0, <1>3, <1>5, StartEffect
  <1>6. ASSUME NEW c \in Calls, Quiet(c) PROVE \A d \in Calls : Fits(call'[d]) /\ TokenFits(call'[d])
    BY <1>0, <1>3, <1>6, QuietEffect
  <1>7. ASSUME NEW c \in Calls, PutSession(c) PROVE \A d \in Calls : Fits(call'[d]) /\ TokenFits(call'[d])
    BY <1>0, <1>3, <1>7, PutEffect
  <1>8. ASSUME NEW c \in Calls, Answer(c) PROVE \A d \in Calls : Fits(call'[d]) /\ TokenFits(call'[d])
    BY <1>0, <1>2, <1>3, <1>8, AnswerEffect
  <1>9. ASSUME NEW w \in Watches, Watched(w) PROVE \A d \in Calls : Fits(call'[d]) /\ TokenFits(call'[d])
    BY <1>0, <1>1, <1>9, WatchEffect
  <1>10. CASE Pushes
    BY <1>0, <1>1, <1>10, PushEffect
  <1>11. CASE Sweep \/ Tick
    BY <1>1, <1>11 DEF Sweep, Tick
  <1>12. CASE Restart
    BY <1>2, <1>12 DEF Restart
  <1>13. QED
    BY <1>5, <1>6, <1>7, <1>8, <1>9, <1>10, <1>11, <1>12, StepKinds

LEMMA NamesAreIssuedStep == ASSUME SessionsInv, Next PROVE NamesAreIssued'
  <1>0. TypeOK /\ CallsFit /\ NamesAreIssued /\ TokensEndWithExchange
    BY DEF SessionsInv
  <1>1. Issued \subseteq Issued' /\ \A s \in Issued : issued'[s] = issued[s]
    BY StoreStep DEF StoreStays
  <1>2. NoID \notin Issued
    BY Sentinels DEF Issued
  <1> DEFINE Cookies == \A b \in Browsers : cookie'[b] # NoID => cookie'[b] \in Issued'
             CallIDs == \A c \in Calls : {call'[c].id, call'[c].new} \subseteq Issued' \cup {NoID}
             WatchIDs == \A w \in Watches : watch'[w].pc # "off" => watch'[w].id \in Issued'
             Subs == \A b \in Browsers : subs'[b] # NoSub =>
                        subs'[b].by \in Issued' /\ subs'[b].exp = issued'[subs'[b].by].exp
  <1>3. SUFFICES Cookies /\ CallIDs /\ WatchIDs /\ Subs
    BY DEF NamesAreIssued, HasSub
  <1>4. UNCHANGED cookie => Cookies
    BY <1>0, <1>1 DEF NamesAreIssued
  <1>5. UNCHANGED call => CallIDs
    BY <1>0, <1>1 DEF NamesAreIssued
  <1>6. UNCHANGED watch => WatchIDs
    BY <1>0, <1>1 DEF NamesAreIssued
  <1>7. ASSUME \A b \in Browsers :
                 \/ subs'[b] = subs[b] \/ subs'[b] = NoSub
                 \/ subs'[b].by \in Issued /\ subs'[b].exp = issued[subs'[b].by].exp
        PROVE  Subs
    BY <1>0, <1>1, <1>7 DEF NamesAreIssued, HasSub
  <1>8. UNCHANGED subs => Subs
    BY <1>7
  <1>9. ASSUME NEW c \in Calls, NEW next, call' = [call EXCEPT ![c] = next],
               next.id \in Issued \cup {NoID}, next.new \in Issued' \cup {NoID}
        PROVE  CallIDs
    BY <1>0, <1>1, <1>9 DEF NamesAreIssued, TypeOK
  <1> HIDE DEF Cookies, CallIDs, WatchIDs, Subs
  <1>10. ASSUME NEW c \in Calls, NEW b \in Browsers, Starts(c, b) PROVE Cookies /\ CallIDs /\ WatchIDs /\ Subs
    <2>1. PICK next \in CallType :
             call' = [call EXCEPT ![c] = next] /\ next.id = cookie[b] /\ next.new = NoID
      BY <1>0, <1>10, StartEffect
    <2>2. CallIDs
      BY <1>0, <1>9, <2>1 DEF NamesAreIssued
    <2>3. UNCHANGED <<cookie, watch, subs>>
      BY <1>0, <1>10, StartEffect
    <2>4. QED
      BY <1>4, <1>6, <1>8, <2>2, <2>3
  <1>11. ASSUME NEW c \in Calls, Quiet(c) PROVE Cookies /\ CallIDs /\ WatchIDs /\ Subs
    <2>1. PICK next \in CallType :
             call' = [call EXCEPT ![c] = next] /\ next.id = call[c].id /\ next.new = call[c].new
      BY <1>0, <1>11, QuietEffect DEF Continues
    <2>2. CallIDs
      BY <1>0, <1>1, <1>9, <2>1 DEF NamesAreIssued
    <2>3. UNCHANGED cookie
      BY <1>0, <1>11, QuietEffect
    <2>4. WatchIDs
      <3>1. CASE CloseDeletions(c)
        <4>1. \A w \in Watches : watch'[w].pc = watch[w].pc /\ watch'[w].id = watch[w].id
          BY <1>0, <3>1 DEF CloseDeletions, TypeOK, WatchType
        <4>2. QED
          BY <1>0, <1>1, <4>1 DEF WatchIDs, NamesAreIssued
      <3>2. QED
        BY <1>0, <1>6, <1>11, <3>1, QuietEffect
    <2>5. Subs
      <3>1. \/ PutSubscription(c) \/ DropSubscriptions(c) \/ DeleteSubscription(c)
            \/ subs' = subs
        BY <1>0, <1>11, QuietEffect
      <3>2. QED
        BY <1>0, <1>7, <3>1, SubsEffect
    <2>6. QED
      BY <1>4, <2>2, <2>3, <2>4, <2>5
  <1>12. ASSUME NEW c \in Calls, PutSession(c) PROVE Cookies /\ CallIDs /\ WatchIDs /\ Subs
    <2>1. PICK next \in CallType :
             /\ call' = [call EXCEPT ![c] = next] /\ next.id = call[c].id
             /\ \/ next.new = call[c].new
                \/ \E s \in SessionIDs \ Issued, row \in RowType :
                      next.new = s /\ issued' = [issued EXCEPT ![s] = row] /\ row # NoRow
      BY <1>0, <1>12, PutEffect
    <2>2. next.new \in Issued' \cup {NoID}
      BY <1>0, <1>1, <2>1 DEF NamesAreIssued, Issued, TypeOK
    <2>3. CallIDs
      BY <1>0, <1>9, <2>1, <2>2 DEF NamesAreIssued
    <2>4. UNCHANGED <<cookie, watch, subs>>
      BY <1>0, <1>12, PutEffect
    <2>5. QED
      BY <1>4, <1>6, <1>8, <2>3, <2>4
  <1>13. ASSUME NEW c \in Calls, Answer(c) PROVE Cookies /\ CallIDs /\ WatchIDs /\ Subs
    <2>1. CallIDs
      BY <1>0, <1>9, <1>13, AnswerEffect, OffTypes
    <2>2. UNCHANGED <<watch, subs>>
      BY <1>0, <1>13, AnswerEffect
    <2>3. \/ cookie' = cookie \/ cookie' = [cookie EXCEPT ![call[c].browser] = call[c].new]
          \/ cookie' = [cookie EXCEPT ![call[c].browser] = NoID]
      BY <1>0, <1>13, AnswerEffect
    <2>4. call[c].new \in Issued \cup {NoID}
      BY <1>0 DEF NamesAreIssued
    <2>5. Cookies
      BY <1>0, <1>1, <2>3, <2>4 DEF Cookies, NamesAreIssued, TypeOK
    <2>6. QED
      BY <1>6, <1>8, <2>1, <2>2, <2>5
  <1>14. ASSUME NEW w \in Watches, Watched(w) PROVE Cookies /\ CallIDs /\ WatchIDs /\ Subs
    <2>1. UNCHANGED <<cookie, call, subs>>
          /\ \E next \in WatchType : watch' = [watch EXCEPT ![w] = next] /\ (next.pc # "off" => next.id \in Issued)
      BY <1>0, <1>14, WatchEffect
    <2>2. WatchIDs
      BY <1>0, <1>1, <2>1 DEF WatchIDs, NamesAreIssued, TypeOK
    <2>3. QED
      BY <1>4, <1>5, <1>8, <2>1, <2>2
  <1>15. CASE Pushes
    BY <1>0, <1>4, <1>5, <1>6, <1>7, <1>15, PushEffect
  <1>16. CASE Sweep \/ Tick
    BY <1>4, <1>5, <1>6, <1>8, <1>16 DEF Sweep, Tick
  <1>17. CASE Restart
    <2>1. CallIDs /\ WatchIDs
      BY <1>17, OffTypes DEF Restart, CallIDs, WatchIDs
    <2>2. QED
      BY <1>4, <1>8, <1>17, <2>1 DEF Restart
  <1>18. QED
    BY <1>10, <1>11, <1>12, <1>13, <1>14, <1>15, <1>16, <1>17, StepKinds

\* A call after a step: as it was, idle, started with the cookie of its browser,
\* gone on, or left with a session nobody else knows of.
LEMMA CallOutcomes ==
    ASSUME SessionsInv, Next, NEW d \in Calls
    PROVE  \/ call'[d] = call[d]
           \/ call'[d] = IdleCall
           \/ /\ call'[d].browser \in Browsers /\ call'[d].id = cookie[call'[d].browser]
              /\ call'[d].new = NoID /\ UNCHANGED cookie
           \/ /\ call'[d].id = call[d].id /\ call'[d].browser = call[d].browser
              /\ \/ call'[d].new = call[d].new
                 \/ /\ call'[d].new \in (stored' \cap Issued') \ Issued /\ UNCHANGED cookie
                    /\ \A e \in Calls \ {d} : call'[e] = call[e]
  <1>0. TypeOK /\ CallsFit /\ NamesAreIssued /\ TokensEndWithExchange
    BY DEF SessionsInv
  <1>1. ASSUME NEW c \in Calls, NEW next, call' = [call EXCEPT ![c] = next]
        PROVE  /\ d # c => call'[d] = call[d]
               /\ d = c => call'[d] = next
               /\ \A e \in Calls \ {c} : call'[e] = call[e]
    BY <1>0, <1>1 DEF TypeOK
  <1>2. ASSUME NEW c \in Calls, NEW b \in Browsers, Starts(c, b)
        PROVE  \/ call'[d] = call[d]
               \/ /\ call'[d].browser \in Browsers /\ call'[d].id = cookie[call'[d].browser]
                  /\ call'[d].new = NoID /\ UNCHANGED cookie
    <2>1. PICK next \in CallType :
             call' = [call EXCEPT ![c] = next] /\ next.id = cookie[b] /\ next.browser = b /\ next.new = NoID
      BY <1>0, <1>2, StartEffect
    <2>2. UNCHANGED cookie
      BY <1>0, <1>2, StartEffect
    <2>3. QED
      BY <1>1, <2>1, <2>2
  <1>3. ASSUME NEW c \in Calls, Quiet(c)
        PROVE  \/ call'[d] = call[d]
               \/ call'[d].id = call[d].id /\ call'[d].browser = call[d].browser /\ call'[d].new = call[d].new
    <2>1. PICK next \in CallType : call' = [call EXCEPT ![c] = next] /\ Continues(call[c], next)
      BY <1>0, <1>3, QuietEffect
    <2>2. QED
      BY <1>1, <2>1 DEF Continues
  <1>4. ASSUME NEW c \in Calls, PutSession(c)
        PROVE  \/ call'[d] = call[d]
               \/ /\ call'[d].id = call[d].id /\ call'[d].browser = call[d].browser
                  /\ \/ call'[d].new = call[d].new
                     \/ /\ call'[d].new \in (stored' \cap Issued') \ Issued /\ UNCHANGED cookie
                        /\ \A e \in Calls \ {d} : call'[e] = call[e]
    <2>1. PICK next \in CallType :
             /\ call' = [call EXCEPT ![c] = next]
             /\ next.id = call[c].id /\ next.browser = call[c].browser
             /\ \/ next.new = call[c].new
                \/ \E s \in SessionIDs \ Issued, row \in RowType :
                      /\ next.new = s /\ stored' = stored \cup {s}
                      /\ issued' = [issued EXCEPT ![s] = row] /\ row # NoRow
      BY <1>0, <1>4, PutEffect
    <2>2. next.new = call[c].new \/ next.new \in (stored' \cap Issued') \ Issued
      BY <1>0, <2>1 DEF TypeOK, Issued
    <2>3. UNCHANGED cookie
      BY <1>0, <1>4, PutEffect
    <2>4. QED
      BY <1>1, <2>1, <2>2, <2>3
  <1>5. ASSUME NEW c \in Calls, Answer(c) PROVE call'[d] = call[d] \/ call'[d] = IdleCall
    BY <1>0, <1>1, <1>5, AnswerEffect
  <1>6. ASSUME NEW w \in Watches, Watched(w) PROVE call'[d] = call[d]
    BY <1>0, <1>6, WatchEffect
  <1>7. CASE Pushes
    BY <1>0, <1>7, PushEffect
  <1>8. CASE Sweep \/ Tick \/ Restart
    BY <1>8 DEF Sweep, Tick, Restart
  <1>9. QED
    BY <1>2, <1>3, <1>4, <1>5, <1>6, <1>7, <1>8, StepKinds

\* A browser's cookie after a step: as it was, deleted, or the session of an
\* answer, whose call is over.
LEMMA CookieOutcomes ==
    ASSUME SessionsInv, Next
    PROVE  \/ UNCHANGED cookie
           \/ \E b \in Browsers : cookie' = [cookie EXCEPT ![b] = NoID]
           \/ \E c \in Calls : /\ cookie' = [cookie EXCEPT ![call[c].browser] = call[c].new]
                               /\ call[c].new # NoID
                               /\ call' = [call EXCEPT ![c] = IdleCall]
  <1>0. TypeOK /\ CallsFit /\ NamesAreIssued /\ TokensEndWithExchange
    BY DEF SessionsInv
  <1>1. ASSUME NEW c \in Calls, NEW b \in Browsers, Starts(c, b) PROVE UNCHANGED cookie
    BY <1>0, <1>1, StartEffect
  <1>2. ASSUME NEW c \in Calls, Quiet(c) PROVE UNCHANGED cookie
    BY <1>0, <1>2, QuietEffect
  <1>3. ASSUME NEW c \in Calls, PutSession(c) PROVE UNCHANGED cookie
    BY <1>0, <1>3, PutEffect
  <1>4. ASSUME NEW c \in Calls, Answer(c)
        PROVE  \/ UNCHANGED cookie
               \/ \E b \in Browsers : cookie' = [cookie EXCEPT ![b] = NoID]
               \/ /\ cookie' = [cookie EXCEPT ![call[c].browser] = call[c].new]
                  /\ call[c].new # NoID
                  /\ call' = [call EXCEPT ![c] = IdleCall]
    <2>1. call[c].browser \in Browsers
      BY <1>0 DEF TypeOK, CallType
    <2>2. QED
      BY <1>0, <1>4, <2>1, AnswerEffect
  <1>5. ASSUME NEW w \in Watches, Watched(w) PROVE UNCHANGED cookie
    BY <1>0, <1>5, WatchEffect
  <1>6. CASE Pushes
    BY <1>0, <1>6, PushEffect
  <1>7. CASE Sweep \/ Tick \/ Restart
    BY <1>7 DEF Sweep, Tick, Restart
  <1>8. QED
    BY <1>1, <1>2, <1>3, <1>4, <1>5, <1>6, <1>7, StepKinds

\* Live or expired, after the step.
Known(s) ==
    \/ s \in stored' /\ issued'[s].exp > now'
    \/ issued'[s] # NoRow /\ issued'[s].exp <= now'

LEMMA SessionsAreSecretStep == ASSUME SessionsInv, Next PROVE SessionsAreSecret'
  <1>0. TypeOK /\ NamesAreIssued /\ SessionsAreSecret /\ StoreStays /\ TypeOK'
    BY StoreStep, TypeStep DEF SessionsInv
  <1>1. NoID \notin Issued /\ IdleCall.id = NoID /\ IdleCall.new = NoID
    BY Sentinels, OffTypes DEF Issued
  <1>2. /\ \A b \in Browsers : cookie[b] \in Issued \cup {NoID}
        /\ \A d \in Calls : call[d].id \in Issued \cup {NoID} /\ call[d].new \in Issued \cup {NoID}
                            /\ call[d].browser \in Browsers
    BY <1>0 DEF NamesAreIssued, TypeOK, CallType
  <1>3. \A b \in Browsers :
           \/ cookie'[b] = cookie[b] \/ cookie'[b] = NoID
           \/ \E c \in Calls : /\ b = call[c].browser /\ cookie'[b] = call[c].new /\ call[c].new # NoID
                               /\ call'[c] = IdleCall
                               /\ \A x \in Browsers \ {b} : cookie'[x] = cookie[x]
    BY <1>0, CookieOutcomes DEF TypeOK
  <1>4. \A b \in Browsers, other \in Browsers : cookie'[b] = cookie'[other] => b = other \/ cookie'[b] = NoID
    BY <1>0, <1>1, <1>2, <1>3 DEF SessionsAreSecret
  <1>5. ASSUME NEW c \in Calls, NEW b \in Browsers, call'[c].id = cookie'[b], cookie'[b] # NoID
        PROVE  call'[c].browser = b
    <2>1. CASE cookie'[b] = cookie[b]
      <3>1. CASE call'[c].id = call[c].id /\ call'[c].browser = call[c].browser
        BY <1>0, <1>5, <2>1, <3>1 DEF SessionsAreSecret
      <3>2. CASE call'[c].browser \in Browsers /\ call'[c].id = cookie[call'[c].browser]
        BY <1>0, <1>5, <2>1, <3>2 DEF SessionsAreSecret
      <3>3. QED
        BY <1>1, <1>5, <3>1, <3>2, CallOutcomes
    <2>2. CASE \E e \in Calls : cookie'[b] = call[e].new /\ call[e].new # NoID
      <3>1. PICK e \in Calls : cookie'[b] = call[e].new /\ call[e].new # NoID
        BY <2>2
      <3>2. /\ call[c].id # call[e].new
            /\ \A x \in Browsers : cookie[x] # call[e].new
        BY <1>0, <3>1 DEF SessionsAreSecret
      <3>3. QED
        BY <1>1, <1>5, <3>1, <3>2, CallOutcomes
    <2>3. QED
      BY <1>3, <1>5, <2>1, <2>2
  <1>6. ASSUME NEW c \in Calls, call'[c].new # NoID, call'[c].new = call[c].new
        PROVE  /\ Known(call'[c].new)
               /\ \A b \in Browsers : cookie'[b] # call'[c].new
               /\ \A d \in Calls : call'[d].id # call'[c].new /\ (d # c => call'[d].new # call'[c].new)
    <2> DEFINE new == call[c].new
    <2>1. /\ new # NoID /\ new \in Issued
          /\ Live(new) \/ Expired(new)
          /\ \A b \in Browsers : cookie[b] # new
          /\ \A d \in Calls : call[d].id # new /\ (d # c => call[d].new # new)
      BY <1>0, <1>2, <1>6 DEF SessionsAreSecret
    <2>2. Known(new)
      <3>1. PICK s \in Issued : s = new
        BY <2>1
      <3>2. /\ Expired(s) => Expired(s)'
            /\ Live(s) => Live(s)' \/ Expired(s)' \/ \E e \in Calls : Deletes(e, s)
        BY <1>0 DEF StoreStays
      <3>3. Live(s) \/ Expired(s)
        BY <2>1, <3>1
      <3>4. ~\E e \in Calls : Deletes(e, s)
        BY <2>1, <3>1 DEF Deletes
      <3>5. Live(s)' \/ Expired(s)'
        BY <3>2, <3>3, <3>4
      <3>6. QED
        BY <1>6, <3>1, <3>5 DEF Live, Expired, Known
    <2>3. \A b \in Browsers : cookie'[b] # new
      BY <1>1, <1>3, <1>6, <2>1
    <2>4. \A d \in Calls : call'[d].id # new /\ (d # c => call'[d].new # new)
      <3>1. TAKE d \in Calls
      <3>2. QED
        BY <1>1, <2>1, CallOutcomes
    <2>5. QED
      BY <1>6, <2>2, <2>3, <2>4
  <1>7. ASSUME NEW c \in Calls, call'[c].new \in (stored' \cap Issued') \ Issued,
               UNCHANGED cookie, \A e \in Calls \ {c} : call'[e] = call[e], call'[c].id = call[c].id
        PROVE  /\ Known(call'[c].new)
               /\ \A b \in Browsers : cookie'[b] # call'[c].new
               /\ \A d \in Calls : call'[d].id # call'[c].new /\ (d # c => call'[d].new # call'[c].new)
    <2>1. call'[c].new \in SessionIDs /\ call'[c].new # NoID
      BY <1>7, Sentinels DEF Issued
    <2>2. \A b \in Browsers : cookie'[b] # call'[c].new
      BY <1>2, <1>7, <2>1
    <2>3. \A d \in Calls : call'[d].id # call'[c].new /\ (d # c => call'[d].new # call'[c].new)
      BY <1>2, <1>7, <2>1
    <2>4. Known(call'[c].new)
      BY <1>0, <1>7, <2>1 DEF Known, Issued, TypeOK, RowType
    <2>5. QED
      BY <2>2, <2>3, <2>4
  <1>8. ASSUME NEW c \in Calls, call'[c].new # NoID
        PROVE  /\ Known(call'[c].new)
               /\ \A b \in Browsers : cookie'[b] # call'[c].new
               /\ \A d \in Calls : call'[d].id # call'[c].new /\ (d # c => call'[d].new # call'[c].new)
    <2>1. \/ call'[c].new = call[c].new
          \/ /\ call'[c].new \in (stored' \cap Issued') \ Issued
             /\ UNCHANGED cookie /\ call'[c].id = call[c].id
             /\ \A e \in Calls \ {c} : call'[e] = call[e]
      BY <1>1, <1>8, CallOutcomes
    <2>2. QED
      BY <1>6, <1>7, <1>8, <2>1
  <1>9. QED
    BY <1>4, <1>5, <1>8 DEF SessionsAreSecret, Known, Live, Expired

\* A stream after a step: as it was while every call that is about to wake the
\* streams still is, woken, gone, or one step on with the store as it is.
LEMMA WatchOutcomes ==
    ASSUME SessionsInv, Next, NEW w \in Watches
    PROVE  \/ watch'[w] = watch[w] /\ \A c \in Calls : call[c].pc = "close" => call'[c].pc = "close"
           \/ watch'[w].pc = "off"
           \/ /\ watch'[w].signalled /\ watch'[w].pc = watch[w].pc /\ watch'[w].id = watch[w].id
              /\ watch'[w].blind = watch[w].blind
           \/ /\ UNCHANGED <<now, stored, issued>>
              /\ watch'[w].pc = "ended" => ~Live(watch'[w].id)
              /\ watch'[w].pc = "wait" /\ ~watch'[w].blind => Live(watch'[w].id)
  <1>0. TypeOK /\ CallsFit /\ NamesAreIssued /\ TokensEndWithExchange
    BY DEF SessionsInv
  <1> DEFINE Waits == \A c \in Calls : call[c].pc = "close" => call'[c].pc = "close"
  <1>1. ASSUME NEW c \in Calls, NEW next, call' = [call EXCEPT ![c] = next], call[c].pc # "close"
        PROVE  Waits
    BY <1>0, <1>1 DEF TypeOK
  <1> HIDE DEF Waits
  <1>2. SUFFICES \/ watch'[w] = watch[w] /\ Waits
                 \/ watch'[w].pc = "off"
                 \/ /\ watch'[w].signalled /\ watch'[w].pc = watch[w].pc /\ watch'[w].id = watch[w].id
                    /\ watch'[w].blind = watch[w].blind
                 \/ /\ UNCHANGED <<now, stored, issued>>
                    /\ watch'[w].pc = "ended" => ~Live(watch'[w].id)
                    /\ watch'[w].pc = "wait" /\ ~watch'[w].blind => Live(watch'[w].id)
    BY <1>2 DEF Waits
  <1>3. UNCHANGED call => Waits
    BY DEF Waits
  <1>4. ASSUME NEW c \in Calls, NEW b \in Browsers, Starts(c, b) PROVE watch' = watch /\ Waits
    BY <1>0, <1>1, <1>4, StartEffect
  <1>5. ASSUME NEW c \in Calls, Quiet(c), ~CloseDeletions(c) PROVE watch' = watch /\ Waits
    BY <1>0, <1>1, <1>5, QuietEffect
  <1>6. ASSUME NEW c \in Calls, CloseDeletions(c)
        PROVE  /\ watch'[w].signalled /\ watch'[w].pc = watch[w].pc /\ watch'[w].id = watch[w].id
               /\ watch'[w].blind = watch[w].blind
    <2>1. watch'[w] = [watch[w] EXCEPT !.signalled = TRUE] /\ watch[w] \in WatchType
      BY <1>0, <1>6 DEF CloseDeletions, TypeOK
    <2>2. QED
      BY <2>1 DEF WatchType
  <1>7. ASSUME NEW c \in Calls, PutSession(c) PROVE watch' = watch /\ Waits
    BY <1>0, <1>1, <1>7, PutEffect
  <1>8. ASSUME NEW c \in Calls, Answer(c) PROVE watch' = watch /\ Waits
    BY <1>0, <1>1, <1>8, AnswerEffect
  <1>9. ASSUME NEW v \in Watches, Watched(v)
        PROVE  \/ watch'[w] = watch[w] /\ Waits
               \/ /\ UNCHANGED <<now, stored, issued>>
                  /\ watch'[w].pc = "ended" => ~Live(watch'[w].id)
                  /\ watch'[w].pc = "wait" /\ ~watch'[w].blind => Live(watch'[w].id)
    <2>1. PICK next \in WatchType :
             /\ watch' = [watch EXCEPT ![v] = next]
             /\ next.pc = "ended" => ~Live(next.id)
             /\ next.pc = "wait" /\ ~next.blind => Live(next.id)
      BY <1>0, <1>9, WatchEffect
    <2>2. UNCHANGED <<now, stored, issued, call>>
      BY <1>0, <1>9, WatchEffect
    <2>3. CASE v = w
      <3>1. watch'[w] = next
        BY <1>0, <2>1, <2>3 DEF TypeOK
      <3>2. QED
        BY <2>1, <2>2, <3>1
    <2>4. CASE v # w
      BY <1>0, <1>3, <2>1, <2>2, <2>4 DEF TypeOK
    <2>5. QED
      BY <2>3, <2>4
  <1>10. CASE Pushes
    BY <1>0, <1>3, <1>10, PushEffect
  <1>11. CASE Sweep \/ Tick
    BY <1>3, <1>11 DEF Sweep, Tick
  <1>12. CASE Restart
    BY <1>12, OffTypes DEF Restart
  <1>13. QED
    BY <1>4, <1>5, <1>6, <1>7, <1>8, <1>9, <1>10, <1>11, <1>12, StepKinds

LEMMA EndedStreamsAreOverStep == ASSUME SessionsInv, Next PROVE EndedStreamsAreOver'
  <1>0. TypeOK /\ NamesAreIssued /\ EndedStreamsAreOver /\ StoreStays
    BY StoreStep DEF SessionsInv
  <1>1. SUFFICES ASSUME NEW w \in Watches, watch'[w].pc = "ended"
                 PROVE  ~(watch'[w].id \in stored' /\ issued'[watch'[w].id].exp > now')
    BY <1>1 DEF EndedStreamsAreOver, Live
  <1>2. CASE watch'[w].pc = watch[w].pc /\ watch'[w].id = watch[w].id
    <2>1. ~Live(watch[w].id) /\ watch[w].id \in Issued
      BY <1>0, <1>1, <1>2 DEF NamesAreIssued, EndedStreamsAreOver
    <2>2. PICK s \in Issued : s = watch[w].id
      BY <2>1
    <2>3. ~Live(s)'
      BY <1>0, <2>1, <2>2 DEF StoreStays
    <2>4. QED
      BY <1>2, <2>2, <2>3 DEF Live
  <1>3. CASE UNCHANGED <<now, stored, issued>> /\ ~Live(watch'[w].id)
    BY <1>3 DEF Live
  <1>4. QED
    BY <1>1, <1>2, <1>3, WatchOutcomes

LEMMA NoMissedDeletionStep == ASSUME SessionsInv, Next PROVE NoMissedDeletion'
  <1>0. TypeOK /\ NamesAreIssued /\ NoMissedDeletion /\ StoreStays
    BY StoreStep DEF SessionsInv
  <1>1. SUFFICES ASSUME NEW w \in Watches, watch'[w].pc = "wait", ~watch'[w].blind,
                        ~(watch'[w].id \in stored' /\ issued'[watch'[w].id].exp > now'),
                        ~(issued'[watch'[w].id] # NoRow /\ issued'[watch'[w].id].exp <= now')
                 PROVE  watch'[w].signalled \/ \E c \in Calls : call'[c].pc = "close"
    BY <1>1 DEF NoMissedDeletion, Live, Expired
  <1>2. CASE watch'[w] = watch[w] /\ \A c \in Calls : call[c].pc = "close" => call'[c].pc = "close"
    <2>1. watch[w].id \in Issued /\ watch[w].pc = "wait" /\ ~watch[w].blind
      BY <1>0, <1>1, <1>2 DEF NamesAreIssued
    <2>2. PICK s \in Issued : s = watch[w].id
      BY <2>1
    <2>3. ~Live(s)' /\ ~Expired(s)'
      BY <1>1, <1>2, <2>2 DEF Live, Expired
    <2>4. ~Expired(s) /\ (Live(s) => \E c \in Calls : Deletes(c, s))
      BY <1>0, <2>3 DEF StoreStays
    <2>5. CASE Live(s)
      BY <2>4, <2>5 DEF Deletes
    <2>6. CASE ~Live(s)
      <3>1. watch[w].signalled \/ \E c \in Calls : call[c].pc = "close"
        BY <1>0, <2>1, <2>2, <2>4, <2>6 DEF NoMissedDeletion
      <3>2. QED
        BY <1>2, <3>1
    <2>7. QED
      BY <2>5, <2>6
  <1>3. CASE UNCHANGED <<now, stored, issued>> /\ (watch'[w].pc = "wait" /\ ~watch'[w].blind => Live(watch'[w].id))
    BY <1>1, <1>3 DEF Live
  <1>4. QED
    BY <1>1, <1>2, <1>3, WatchOutcomes

\* The call that ends the session of a cookie goes on, until its browser has
\* heard of it or never will.
LEMMA EndingStays ==
    ASSUME SessionsInv, Next, NEW b \in Browsers, cookie'[b] = cookie[b], cookie[b] # NoID,
           NEW c \in Calls, call[c].browser = b, call[c].id = cookie[b], Ending(c)
    PROVE  \/ b \in cut'
           \/ /\ call'[c].browser = b /\ call'[c].id = cookie[b]
              /\ \/ call'[c].pc \in {"close", "put", "dropSubs"}
                 \/ call'[c].pc = "answer" /\ (call'[c].new # NoID \/ call'[c].op = "logout")
  <1>0. TypeOK /\ CallsFit /\ NamesAreIssued /\ TokensEndWithExchange /\ SessionsAreSecret
    BY DEF SessionsInv
  <1> DEFINE EndingNext == /\ call'[c].browser = b /\ call'[c].id = cookie[b]
                           /\ \/ call'[c].pc \in {"close", "put", "dropSubs"}
                              \/ call'[c].pc = "answer" /\ (call'[c].new # NoID \/ call'[c].op = "logout")
  <1>1. call'[c] = call[c] => EndingNext
    BY DEF Ending
  <1>2. ASSUME NEW d \in Calls, NEW next, call' = [call EXCEPT ![d] = next]
        PROVE  /\ d # c => EndingNext
               /\ d = c => call'[c] = next
    BY <1>0, <1>1, <1>2 DEF TypeOK
  <1>3. call[c].pc # "idle" /\ call[c].pc \in {"close", "put", "dropSubs", "answer"}
    BY DEF Ending
  <1>4. ASSUME NEW d \in Calls, NEW x \in Browsers, Starts(d, x) PROVE EndingNext
    BY <1>0, <1>2, <1>3, <1>4, StartEffect
  <1>5. ASSUME NEW d \in Calls, Quiet(d) PROVE EndingNext
    <2>1. PICK next \in CallType : call' = [call EXCEPT ![d] = next] /\ Continues(call[d], next)
      BY <1>0, <1>5, QuietEffect
    <2>2. CASE d = c
      <3>1. call[c].pc # "answer"
        BY <1>5, <2>2 DEF Quiet, TokenInvalid, LookupSelf, RevokeSelf, DeleteSession, CloseDeletions,
                          DropSubscriptions, PutSubscription, DeleteSubscription, At
      <3>2. call'[c] = next
        BY <1>2, <2>1, <2>2
      <3>3. QED
        BY <1>3, <2>1, <2>2, <3>1, <3>2 DEF Continues
    <2>3. QED
      BY <1>2, <2>1, <2>2
  <1>6. ASSUME NEW d \in Calls, PutSession(d) PROVE b \in cut' \/ EndingNext
    <2>1. PICK next \in CallType :
             /\ call' = [call EXCEPT ![d] = next]
             /\ next.id = call[d].id /\ next.browser = call[d].browser /\ next.pc = "answer"
             /\ cut' = cut \cup {call[d].browser} \/ next.new \in SessionIDs
      BY <1>0, <1>6, PutEffect
    <2>2. QED
      BY <1>2, <2>1, Sentinels
  <1>7. ASSUME NEW d \in Calls, Answer(d) PROVE b \in cut' \/ EndingNext
    <2>1. CASE d # c
      BY <1>0, <1>2, <1>7, <2>1, AnswerEffect
    <2>2. CASE d = c
      <3>1. call[c].new # NoID \/ call[c].op = "logout"
        BY <1>0, <1>7, <2>2, AnswerEffect DEF Ending
      <3>2. ASSUME cookie' = [cookie EXCEPT ![b] = call[c].new], call[c].new # NoID PROVE FALSE
        <4>1. cookie'[b] = call[c].new
          BY <1>0, <3>2 DEF TypeOK
        <4>2. QED
          BY <1>0, <3>2, <4>1 DEF SessionsAreSecret
      <3>3. ASSUME cookie' = [cookie EXCEPT ![b] = NoID] PROVE FALSE
        BY <1>0, <3>3 DEF TypeOK
      <3>4. QED
        BY <1>0, <1>7, <2>2, <3>1, <3>2, <3>3, AnswerEffect
    <2>3. QED
      BY <2>1, <2>2
  <1>8. ASSUME NEW w \in Watches, Watched(w) PROVE EndingNext
    BY <1>0, <1>1, <1>8, WatchEffect
  <1>9. CASE Pushes
    BY <1>0, <1>1, <1>9, PushEffect
  <1>10. CASE Sweep \/ Tick
    BY <1>1, <1>10 DEF Sweep, Tick
  <1>11. CASE Restart
    BY <1>3, <1>11 DEF Restart
  <1>12. QED
    BY <1>4, <1>5, <1>6, <1>7, <1>8, <1>9, <1>10, <1>11, StepKinds

LEMMA CutGrows == ASSUME SessionsInv, Next PROVE cut \subseteq cut'
  <1>0. TypeOK /\ CallsFit /\ NamesAreIssued /\ TokensEndWithExchange
    BY DEF SessionsInv
  <1>1. ASSUME NEW c \in Calls, NEW b \in Browsers, Starts(c, b) PROVE cut \subseteq cut'
    BY <1>0, <1>1, StartEffect
  <1>2. ASSUME NEW c \in Calls, Quiet(c) PROVE cut \subseteq cut'
    BY <1>0, <1>2, QuietEffect
  <1>3. ASSUME NEW c \in Calls, PutSession(c) PROVE cut \subseteq cut'
    BY <1>0, <1>3, PutEffect
  <1>4. ASSUME NEW c \in Calls, Answer(c) PROVE cut \subseteq cut'
    BY <1>0, <1>4, AnswerEffect
  <1>5. ASSUME NEW w \in Watches, Watched(w) PROVE cut \subseteq cut'
    BY <1>0, <1>5, WatchEffect
  <1>6. CASE Pushes
    BY <1>0, <1>6, PushEffect
  <1>7. CASE Sweep \/ Tick \/ Restart
    BY <1>7 DEF Sweep, Tick, Restart
  <1>8. QED
    BY <1>1, <1>2, <1>3, <1>4, <1>5, <1>6, <1>7, StepKinds

LEMMA CookiesAreValidStep == ASSUME SessionsInv, Next PROVE CookiesAreValid'
  <1>0. TypeOK /\ NamesAreIssued /\ SessionsAreSecret /\ CookiesAreValid /\ StoreStays
    BY StoreStep DEF SessionsInv
  <1> DEFINE EndingNext(c) == \/ call'[c].pc \in {"close", "put", "dropSubs"}
                              \/ call'[c].pc = "answer" /\ (call'[c].new # NoID \/ call'[c].op = "logout")
  <1>1. SUFFICES ASSUME NEW b \in Browsers, cookie'[b] # NoID, b \notin cut'
                 PROVE  \/ Known(cookie'[b])
                        \/ \E c \in Calls : call'[c].browser = b /\ call'[c].id = cookie'[b] /\ EndingNext(c)
    BY <1>1 DEF CookiesAreValid, Known, Live, Expired, Ending
  <1>2. CASE cookie'[b] = cookie[b]
    <2>1. b \notin cut /\ cookie[b] # NoID /\ cookie[b] \in Issued
      BY <1>0, <1>1, <1>2, CutGrows DEF NamesAreIssued
    <2>2. PICK s \in Issued : s = cookie[b]
      BY <2>1
    <2>3. CASE \E c \in Calls : call[c].browser = b /\ call[c].id = cookie[b] /\ Ending(c)
      <3>1. PICK c \in Calls : call[c].browser = b /\ call[c].id = cookie[b] /\ Ending(c)
        BY <2>3
      <3>2. /\ call'[c].browser = b /\ call'[c].id = cookie[b] /\ EndingNext(c)
        BY <1>1, <1>2, <2>1, <3>1, EndingStays
      <3>3. QED
        BY <1>2, <3>2
    <2>4. CASE Expired(s)
      <3>1. Expired(s)'
        BY <1>0, <2>4 DEF StoreStays
      <3>2. QED
        BY <1>2, <2>2, <3>1 DEF Expired, Known
    <2>5. CASE Live(s)
      <3>1. CASE Live(s)' \/ Expired(s)'
        BY <1>2, <2>2, <3>1 DEF Live, Expired, Known
      <3>2. CASE \E c \in Calls : Deletes(c, s)
        <4>1. PICK c \in Calls : Deletes(c, s)
          BY <3>2
        <4>2. call[c].browser = b
          BY <1>0, <2>1, <2>2, <4>1 DEF Deletes, SessionsAreSecret
        <4>3. call'[c].browser = b /\ call'[c].id = cookie'[b] /\ call'[c].pc = "close"
          BY <1>2, <2>2, <4>1, <4>2 DEF Deletes
        <4>4. EndingNext(c)
          BY <4>3
        <4>5. QED
          BY <4>3, <4>4
      <3>3. QED
        BY <1>0, <2>5, <3>1, <3>2 DEF StoreStays
    <2>6. QED
      BY <1>0, <2>1, <2>2, <2>3, <2>4, <2>5 DEF CookiesAreValid
  <1>3. ASSUME NEW c \in Calls, cookie'[b] = call[c].new, call[c].new # NoID
        PROVE  Known(cookie'[b])
    <2>1. call[c].new \in Issued
      BY <1>0, <1>3 DEF NamesAreIssued
    <2>2. PICK s \in Issued : s = call[c].new
      BY <2>1
    <2>3. (Live(s) \/ Expired(s)) /\ ~\E d \in Calls : Deletes(d, s)
      BY <1>0, <1>3, <2>2 DEF SessionsAreSecret, Deletes
    <2>4. Live(s)' \/ Expired(s)'
      BY <1>0, <2>3 DEF StoreStays
    <2>5. QED
      BY <1>3, <2>2, <2>4 DEF Live, Expired, Known
  <1>4. \/ cookie'[b] = cookie[b] \/ cookie'[b] = NoID
        \/ \E c \in Calls : cookie'[b] = call[c].new /\ call[c].new # NoID
    BY <1>0, CookieOutcomes DEF TypeOK
  <1>5. QED
    BY <1>1, <1>2, <1>3, <1>4

-----------------------------------------------------------------------------
LEMMA SessionsInvInit == Init => SessionsInv
  <1> SUFFICES ASSUME Init PROVE SessionsInv
    OBVIOUS
  <1>1. TypeOK
    <2>1. NoPush \in [pc : {"idle", "send"}, todo : SUBSET Browsers]
      BY DEF NoPush
    <2>2. 0 \in 0..MaxFaults
      BY TimesAssumption
    <2>3. QED
      BY <2>1, <2>2, OffTypes DEF Init, TypeOK
  <1>2. /\ \A c \in Calls : call[c] = IdleCall
        /\ \A w \in Watches : watch[w].pc = "off"
        /\ \A b \in Browsers : cookie[b] = NoID /\ subs[b] = NoSub
    BY OffTypes DEF Init
  <1>3. CallsFit /\ TokensEndWithExchange
    BY <1>2, OffTypes DEF CallsFit, TokensEndWithExchange
  <1>4. NamesAreIssued /\ SessionsAreSecret
    BY <1>2, OffTypes DEF NamesAreIssued, SessionsAreSecret, HasSub
  <1>5. EndedStreamsAreOver /\ NoMissedDeletion /\ CookiesAreValid
    BY <1>2 DEF EndedStreamsAreOver, NoMissedDeletion, CookiesAreValid
  <1>6. QED
    BY <1>1, <1>3, <1>4, <1>5 DEF SessionsInv

LEMMA SessionsInvStep == SessionsInv /\ [Next]_vars => SessionsInv'
  <1> SUFFICES ASSUME SessionsInv, [Next]_vars PROVE SessionsInv'
    OBVIOUS
  <1>1. CASE Next
    BY <1>1, TypeStep, CallsFitStep, NamesAreIssuedStep, SessionsAreSecretStep, EndedStreamsAreOverStep,
       NoMissedDeletionStep, CookiesAreValidStep DEF SessionsInv
  <1>2. CASE UNCHANGED vars
    BY <1>2 DEF vars, SessionsInv, TypeOK, CallsFit, NamesAreIssued, SessionsAreSecret, EndedStreamsAreOver,
                NoMissedDeletion, CookiesAreValid, TokensEndWithExchange, Ending, Live, Expired, Issued, HasSub
  <1>3. QED
    BY <1>1, <1>2

\* At every moment a browser that holds a session cookie is signed in until the
\* session's deadline, unless its own call is ending the session or it missed
\* the answer (CreateSession, Logout); a dashboard stream is told
\* SESSION_EXPIRED only when its own session is over, and sleeps through no
\* deletion of it (watchSessionEnd, closeDeletions); a token obtained for an
\* exchange does not outlive it unless RevokeSelf fails; and a push
\* subscription has the deadline of the session that registered it.
THEOREM SessionsInvHolds == Spec => []SessionsInv
  <1>1. QED
    BY SessionsInvInit, SessionsInvStep, PTL DEF Spec

-----------------------------------------------------------------------------
(* Whom a fan-out is sent to.                                               *)

\* Arithmetic the texts of times need.
LEMMA Product == ASSUME NEW x \in Nat, NEW y \in Nat, NEW m \in Nat, x <= y PROVE x * m <= y * m /\ x * m \in Nat
  OBVIOUS

LEMMA Quotient ==
    ASSUME NEW t \in Nat, NEW m \in Nat, m > 0
    PROVE  /\ t \div m \in Nat /\ (t % m) \in 0..(m - 1)
           /\ t = m * (t \div m) + (t % m)
  OBVIOUS

LEMMA QuotientGrows ==
    ASSUME NEW e \in Nat, NEW n \in Nat, NEW m \in Nat, m > 0, e >= n + m
    PROVE  e \div m >= (n \div m) + 1
  <1> DEFINE p == e \div m
             q == n \div m
  <1>1. /\ p \in Nat /\ q \in Nat
        /\ e = m * p + (e % m) /\ n = m * q + (n % m)
        /\ (e % m) \in 0..(m-1) /\ (n % m) \in 0..(m-1)
    BY Quotient
  <1>2. m * p \in Nat /\ m * q \in Nat
    BY <1>1
  <1> HIDE DEF p, q
  <1>3. ASSUME p <= q PROVE FALSE
    <2>1. m * p <= m * q
      BY <1>1, <1>3
    <2>2. QED
      BY <1>1, <1>2, <2>1
  <1>4. QED
    BY <1>1, <1>3 DEF p, q

LEMMA SecondIsPositive == Second \in Nat /\ Second > 0 /\ Base \in Nat /\ Base > 1
  BY TimesAssumption DEF Second

\* Where the digits of a fraction sort among those of the same second.
Fraction(t) ==
    LET tenths == (t % Second) \div Base
        rest == t % Base
        B == Base + 1
    IN CASE rest # 0 -> tenths * B + rest
         [] rest = 0 /\ tenths # 0 -> tenths * B + Base
         [] OTHER -> Base * B

LEMMA FractionIsSmall == ASSUME NEW t \in Nat PROVE Fraction(t) \in Nat /\ Fraction(t) < (Base + 1) * (Base + 1)
  <1> DEFINE tenths == (t % Second) \div Base
             rest == t % Base
             B == Base + 1
  <1>1. tenths \in Nat /\ rest \in 0..(Base - 1)
    BY SecondIsPositive, Quotient
  <1>2. tenths <= Base
    <2>1. (t % Second) \in 0..(Second - 1)
      BY SecondIsPositive, Quotient
    <2>2. (t % Second) = Base * tenths + ((t % Second) % Base) /\ ((t % Second) % Base) \in 0..(Base-1)
      BY <2>1, SecondIsPositive, Quotient
    <2> HIDE DEF tenths
    <2>3. ASSUME tenths > Base PROVE FALSE
      <3>1. Base * Base <= Base * tenths
        BY <1>1, <2>3, SecondIsPositive
      <3>2. QED
        BY <1>1, <2>1, <2>2, <3>1, SecondIsPositive DEF Second
    <2>4. QED
      BY <1>1, <2>3, SecondIsPositive
  <1>3. /\ tenths * B \in Nat /\ tenths * B <= Base * B
    BY <1>1, <1>2, SecondIsPositive, Product
  <1>4. Base * B \in Nat /\ B * B = Base * B + B
    BY SecondIsPositive
  <1> HIDE DEF tenths, rest
  <1>5. /\ tenths * B + rest \in Nat /\ tenths * B + rest < B * B
        /\ tenths * B + Base \in Nat /\ tenths * B + Base < B * B
        /\ Base * B < B * B
    BY <1>1, <1>3, <1>4, SecondIsPositive
  <1>6. \/ Fraction(t) = tenths * B + rest
        \/ Fraction(t) = tenths * B + Base
        \/ Fraction(t) = Base * B
    BY DEF Fraction, tenths, rest
  <1>7. QED
    BY <1>4, <1>5, <1>6

LEMMA RankIs == ASSUME NEW t \in Nat PROVE TextRank(t) = (t \div Second) * ((Base + 1) * (Base + 1)) + Fraction(t)
  <1>1. t \div Second \in Nat /\ Fraction(t) \in Nat
    BY SecondIsPositive, Quotient, FractionIsSmall
  <1>2. TextRank(t) = (t \div Second) * (Base + 1) * (Base + 1) + Fraction(t)
    BY DEF TextRank, Fraction
  <1>3. \A q \in Nat, b \in Nat : q * b * b = q * (b * b)
    OBVIOUS
  <1>4. QED
    BY <1>1, <1>2, <1>3, SecondIsPositive

LEMMA RankIsInt == ASSUME NEW t \in Nat PROVE TextRank(t) \in Int
  BY RankIs, FractionIsSmall, SecondIsPositive, Quotient, Product

\* Texts of times at least a second apart sort like the times.
LEMMA TextsSortAfterASecond ==
    ASSUME NEW e \in Nat, NEW n \in Nat, e >= n + Second
    PROVE  TextRank(e) > TextRank(n)
  <1> DEFINE m == (Base + 1) * (Base + 1)
             p == e \div Second
             q == n \div Second
  <1>1. /\ m \in Nat /\ p \in Nat /\ q \in Nat /\ p >= q + 1
        /\ Fraction(e) \in Nat /\ Fraction(n) \in Nat /\ Fraction(n) < m
    BY SecondIsPositive, Quotient, QuotientGrows, FractionIsSmall
  <1>2. TextRank(e) = p * m + Fraction(e) /\ TextRank(n) = q * m + Fraction(n)
    BY RankIs
  <1> HIDE DEF m, p, q
  <1>3. (q + 1) * m <= p * m /\ p * m \in Nat /\ q * m \in Nat
    BY <1>1, Product
  <1>4. (q + 1) * m = q * m + m
    BY <1>1
  <1>5. QED
    BY <1>1, <1>2, <1>3, <1>4

\* Only StartPush lets a fan-out begin, and it selects by the texts.
LEMMA FanoutStarts ==
    ASSUME TypeOK, NamesAreIssued, CallsFit, TokensEndWithExchange, Next, push.pc = "idle", push'.pc = "send"
    PROVE  push'.todo = {b \in Browsers : Unexpired(b)}
  <1>1. CASE StartPush
    BY <1>1 DEF StartPush
  <1>2. ASSUME NEW b \in Browsers, EndpointGone(b) \/ SendPush(b) PROVE FALSE
    BY <1>2 DEF EndpointGone, SendPush
  <1>3. ASSUME EndPush PROVE FALSE
    BY <1>3 DEF EndPush
  <1>4. ASSUME UNCHANGED push PROVE FALSE
    BY <1>4
  <1>5. ASSUME NEW c \in Calls, NEW b \in Browsers, Starts(c, b) PROVE FALSE
    BY <1>4, <1>5, StartEffect
  <1>6. ASSUME NEW c \in Calls, Quiet(c) \/ PutSession(c) \/ Answer(c) PROVE FALSE
    BY <1>4, <1>6, QuietEffect, PutEffect, AnswerEffect
  <1>7. ASSUME NEW w \in Watches, Watched(w) PROVE FALSE
    BY <1>4, <1>7, WatchEffect
  <1>8. ASSUME Sweep \/ Tick PROVE FALSE
    BY <1>4, <1>8 DEF Sweep, Tick
  <1>9. ASSUME Restart PROVE FALSE
    BY <1>9 DEF Restart, NoPush
  <1>10. QED
    BY <1>1, <1>2, <1>3, <1>5, <1>6, <1>7, <1>8, <1>9, StepKinds DEF Pushes

\* Every fan-out goes to whoever registered the endpoint while the session
\* that registered it has not expired, give or take the second within which the
\* stored texts do not sort like times (Subscriptions, NewRequest): nobody is
\* left out who has a second to go, nobody is sent to a second after the end.
THEOREM PushesFollow == Spec => PushesFollowSessions
  <1>1. ASSUME SessionsInv, [Next]_vars
        PROVE  [push.pc = "idle" /\ push'.pc = "send" =>
                 \A b \in Browsers : HasSub(b) =>
                    LET end == issued[subs[b].by].exp
                    IN /\ b \in push'.todo => now < end + Second
                       /\ end >= now + Second => b \in push'.todo]_vars
    <2>1. CASE UNCHANGED vars
      BY <2>1
    <2>2. CASE Next
      <3>1. SUFFICES ASSUME push.pc = "idle", push'.pc = "send", NEW b \in Browsers, HasSub(b)
                     PROVE  LET end == issued[subs[b].by].exp
                            IN /\ b \in push'.todo => now < end + Second
                               /\ end >= now + Second => b \in push'.todo
        OBVIOUS
      <3> DEFINE end == subs[b].exp
      <3>2. /\ end = issued[subs[b].by].exp /\ end \in Nat /\ now \in Nat
        BY <1>1, <3>1 DEF SessionsInv, NamesAreIssued, TypeOK, SubType
      <3>3. push'.todo = {x \in Browsers : Unexpired(x)}
        BY <1>1, <2>2, <3>1, FanoutStarts DEF SessionsInv
      <3>4. b \in push'.todo <=> TextRank(end) > TextRank(now)
        BY <3>1, <3>3 DEF Unexpired
      <3> HIDE DEF end
      <3>5. end >= now + Second => b \in push'.todo
        BY <3>2, <3>4, TextsSortAfterASecond
      <3>6. ASSUME b \in push'.todo PROVE now < end + Second
        <4>1. ASSUME now >= end + Second PROVE FALSE
          <5>1. TextRank(now) > TextRank(end)
            BY <3>2, <4>1, TextsSortAfterASecond
          <5>2. TextRank(now) \in Int /\ TextRank(end) \in Int
            BY <3>2, RankIsInt
          <5>3. QED
            BY <3>4, <3>6, <5>1, <5>2
        <4>2. QED
          BY <3>2, <4>1, SecondIsPositive
      <3>7. QED
        BY <3>2, <3>5, <3>6
    <2>3. QED
      BY <1>1, <2>1, <2>2
  <1>2. QED
    BY <1>1, SessionsInvHolds, PTL DEF Spec, PushesFollowSessions
=============================================================================
