--------------------------- MODULE SessionTokens ---------------------------
(***************************************************************************)
(* The opencode plugin: a Session Token per root session, minted when a    *)
(* shell command first needs it, renewed past half its lease, revoked when *)
(* the session is deleted.  JavaScript runs one continuation at a time: an *)
(* action is what runs between two awaits, with the promises it settles.   *)
(* The host's session lookups, OpenBao's answers and the host's deletion   *)
(* events come in between, in any order.                                   *)
(***************************************************************************)
EXTENDS Integers, FiniteSets, Sequences

CONSTANTS Roots,
          Parent,                \* [subagent sessions -> their root]
          Commands,
          Lease,                 \* in clock ticks
          MaxTime, MaxTokens, MaxFaults    \* bounds: clock, mints, failures

NoSession == "no session"
NoCommand == "no command"
SessionTokensAssumption ==
    /\ Lease \in Nat \ {0} /\ MaxTime \in Nat /\ MaxTokens \in Nat /\ MaxFaults \in Nat
    /\ \A s \in DOMAIN Parent : Parent[s] \in Roots /\ s \notin Roots
    /\ NoSession \notin Roots \cup DOMAIN Parent /\ NoCommand \notin Commands

VARIABLES now,
          exists,                \* sessions in opencode
          cache, roots,          \* RootSessionResolver: sessions and roots
          tokens, pending,       \* SessionTokens: by root session
          refresh,               \* [Commands -> the mint or renewal it started]
          cmd,                   \* [Commands -> its shell command]
          bao,                   \* the tokens OpenBao issued, in order
          events, stream,        \* deletions under way to the plugin
          handler,               \* [Roots -> onDeleted]
          raced,                 \* roots deleted while a command was looking one up
          faults

vars == <<now, exists, cache, roots, tokens, pending, refresh, cmd, bao, events, stream, handler, raced, faults>>
resolver == <<cache, roots>>
host == <<exists, events, stream>>

Sessions == Roots \cup DOMAIN Parent
RootOf(s) == IF s \in Roots THEN s ELSE Parent[s]
NoToken == [id |-> 0, issuedAt |-> 0]
NoRefresh == [pc |-> "none", root |-> NoSession, current |-> NoToken, result |-> 0]
NoCmd == [pc |-> "idle", session |-> NoSession, asked |-> NoSession, on |-> NoCommand, env |-> 0]
NoHandler == [pc |-> "none", token |-> 0]

TypeOK ==
    /\ now \in 0..MaxTime /\ faults \in 0..MaxFaults
    /\ exists \subseteq Sessions /\ cache \subseteq Sessions /\ raced \subseteq Roots
    /\ roots \in [Sessions -> Roots \cup {NoSession}]
    /\ tokens \in [Roots -> [id : 0..Len(bao), issuedAt : 0..now]]
    /\ pending \in [Roots -> Commands \cup {NoCommand}]
    /\ \A c \in Commands :
          /\ refresh[c].pc \in {"none", "renew", "renewed", "renewFailed", "mint", "minted", "mintFailed"}
          /\ refresh[c].pc # "none" <=> \E r \in Roots : pending[r] = c
          /\ cmd[c].pc \in {"idle", "asking", "found", "lost", "waiting", "ready", "ran"}
          /\ cmd[c].pc = "waiting" => pending[RootOf(cmd[c].session)] = cmd[c].on
    /\ \A i \in DOMAIN bao : bao[i].root \in Roots
    /\ events \in Seq(Sessions) /\ stream \in {"up", "down"}
    /\ \A r \in Roots : handler[r].pc \in {"none", "awaiting", "revoking", "done"}

Init ==
    /\ now = 0 /\ faults = 0 /\ raced = {}
    /\ exists = Sessions /\ cache = {} /\ roots = [s \in Sessions |-> NoSession]
    /\ tokens = [r \in Roots |-> NoToken] /\ pending = [r \in Roots |-> NoCommand]
    /\ refresh = [c \in Commands |-> NoRefresh] /\ cmd = [c \in Commands |-> NoCmd]
    /\ bao = <<>> /\ events = <<>> /\ stream = "up"
    /\ handler = [r \in Roots |-> NoHandler]

-----------------------------------------------------------------------------
Fault == faults < MaxFaults /\ faults' = faults + 1
NoFault == UNCHANGED faults
isExpired(token) == now >= token.issuedAt + Lease
needsRenewal(token) == 2 * now >= 2 * token.issuedAt + Lease
Alive(i) == bao[i].live /\ now < bao[i].until
Live(r) == {i \in DOMAIN bao : bao[i].root = r /\ Alive(i)}

\* Mutant: without the map of pending refreshes.
GetAlone(c, r, record) ==
    LET current == tokens[r]
    IN  IF current # NoToken /\ ~needsRenewal(current)
        THEN cmd' = [cmd EXCEPT ![c] = [record EXCEPT !.pc = "ready"]] /\ UNCHANGED <<pending, refresh>>
        ELSE /\ cmd' = [cmd EXCEPT ![c] = [record EXCEPT !.pc = "waiting", !.on = c]]
             /\ pending' = [pending EXCEPT ![r] = c]
             /\ refresh' = [refresh EXCEPT ![c] =
                   [pc |-> IF current # NoToken /\ ~isExpired(current) THEN "renew" ELSE "mint",
                    root |-> r, current |-> current, result |-> 0]]
\* SessionTokens.get: commands of one session share a refresh.
Get(c, r, record) ==
    LET current == tokens[r]
    IN  IF current # NoToken /\ ~needsRenewal(current)
        THEN cmd' = [cmd EXCEPT ![c] = [record EXCEPT !.pc = "ready"]] /\ UNCHANGED <<pending, refresh>>
        ELSE IF pending[r] # NoCommand
        THEN /\ cmd' = [cmd EXCEPT ![c] = [record EXCEPT !.pc = "waiting", !.on = pending[r]]]
             /\ UNCHANGED <<pending, refresh>>
        ELSE /\ cmd' = [cmd EXCEPT ![c] = [record EXCEPT !.pc = "waiting", !.on = c]]
             /\ pending' = [pending EXCEPT ![r] = c]
             /\ refresh' = [refresh EXCEPT ![c] =
                   [pc |-> IF current # NoToken /\ ~isExpired(current) THEN "renew" ELSE "mint",
                    root |-> r, current |-> current, result |-> 0]]
\* RootSessionResolver.root from member m of the chain on: the next session to
\* ask the host for, or the root and on to SessionTokens.get.
Resolve(c, s, m, known) ==
    LET record == [NoCmd EXCEPT !.session = s]
        Unknown == (IF m \in Roots THEN {m} ELSE {m, Parent[m]}) \ known
    IN  /\ cache' = known
        /\ IF Unknown = {}
           THEN /\ roots' = [x \in Sessions |-> IF x \in {s, RootOf(s)} THEN RootOf(s) ELSE roots[x]]
                /\ Get(c, RootOf(s), record)
           ELSE /\ cmd' = [cmd EXCEPT ![c] = [record EXCEPT !.pc = "asking", !.asked = IF m \in Unknown THEN m ELSE Parent[m]]]
                /\ UNCHANGED <<roots, pending, refresh>>

\* tool execute.before of the shell tool: a root already resolved is kept.
Before(c, s) ==
    /\ cmd[c].pc = "idle" /\ s \in exists
    /\ Resolve(c, s, IF roots[s] # NoSession /\ roots[s] \in cache THEN roots[s] ELSE s, cache)
    /\ UNCHANGED <<now, tokens, bao, host, handler, raced>> /\ NoFault
\* The host answers a lookup; the plugin goes on later.
HostAnswers(c) ==
    /\ cmd[c].pc = "asking"
    /\ cmd' = [cmd EXCEPT ![c].pc = IF cmd[c].asked \in exists THEN "found" ELSE "lost"]
    /\ UNCHANGED <<now, resolver, tokens, pending, refresh, bao, host, handler, raced>> /\ NoFault
Found(c) ==
    /\ cmd[c].pc = "found"
    /\ LET s == cmd[c].asked
       IN  Resolve(c, cmd[c].session, IF s \in Roots THEN s ELSE Parent[s], cache \cup {s})
    /\ UNCHANGED <<now, tokens, bao, host, handler, raced>> /\ NoFault
\* Mutant: the hook throws, and opencode does not run the command.
LostThrows(c) ==
    /\ cmd[c].pc = "lost"
    /\ cmd' = [cmd EXCEPT ![c].pc = "failed"]
    /\ UNCHANGED <<now, resolver, tokens, pending, refresh, bao, host, handler, raced>> /\ NoFault
\* The hook logs the error and the command runs without a token.
Lost(c) ==
    /\ cmd[c].pc = "lost"
    /\ cmd' = [cmd EXCEPT ![c].pc = "ready"]
    /\ UNCHANGED <<now, resolver, tokens, pending, refresh, bao, host, handler, raced>> /\ NoFault
\* Mutant: the token of any session.
peekAny(s) ==
    LET Held == {r \in Roots : tokens[r] # NoToken /\ ~isExpired(tokens[r])}
    IN  IF Held = {} THEN 0 ELSE tokens[CHOOSE r \in Held : TRUE].id
\* The spawner reads BAO_TOKEN: SessionTokens.peek of the session's cached root.
peek(s) ==
    LET token == IF roots[s] = NoSession THEN NoToken ELSE tokens[roots[s]]
    IN  IF token # NoToken /\ ~isExpired(token) THEN token.id ELSE 0
Spawn(c) ==
    /\ cmd[c].pc = "ready"
    /\ cmd' = [cmd EXCEPT ![c].pc = "ran", ![c].env = peek(cmd[c].session)]
    /\ UNCHANGED <<now, resolver, tokens, pending, refresh, bao, host, handler, raced>> /\ NoFault

-----------------------------------------------------------------------------
(* OpenBao: requests are handled, and their answers may get lost. *)

RefreshTo(c, record) ==
    /\ refresh' = [refresh EXCEPT ![c] = record]
    /\ UNCHANGED <<now, resolver, tokens, pending, cmd, host, handler, raced>>
RenewHandled(c) ==
    /\ refresh[c].pc = "renew"
    /\ LET i == refresh[c].current.id
       IN  \/ /\ Alive(i) /\ bao' = [bao EXCEPT ![i].until = now + Lease]
              /\ RefreshTo(c, [refresh[c] EXCEPT !.pc = "renewed"]) /\ NoFault
           \/ ~Alive(i) /\ UNCHANGED bao /\ RefreshTo(c, [refresh[c] EXCEPT !.pc = "renewFailed"]) /\ NoFault
           \/ UNCHANGED bao /\ RefreshTo(c, [refresh[c] EXCEPT !.pc = "renewFailed"]) /\ Fault
MintHandled(c) ==
    /\ refresh[c].pc = "mint"
    /\ \/ /\ Len(bao) < MaxTokens
          /\ bao' = Append(bao, [root |-> refresh[c].root, until |-> now + Lease, live |-> TRUE])
          /\ \/ RefreshTo(c, [refresh[c] EXCEPT !.pc = "minted", !.result = Len(bao) + 1]) /\ NoFault
             \/ RefreshTo(c, [refresh[c] EXCEPT !.pc = "mintFailed"]) /\ Fault
       \/ UNCHANGED bao /\ RefreshTo(c, [refresh[c] EXCEPT !.pc = "mintFailed"])
          /\ IF Len(bao) < MaxTokens THEN Fault ELSE NoFault
\* refresh goes on to mint when the renewal failed.
RenewalFailed(c) ==
    /\ refresh[c].pc = "renewFailed"
    /\ RefreshTo(c, [refresh[c] EXCEPT !.pc = "mint"]) /\ UNCHANGED bao /\ NoFault
\* Mutant: the token is forgotten when its revocation has been answered.
RevokeCurrentLate(r, held) ==
    /\ handler' = [handler EXCEPT ![r] =
          IF held[r] = NoToken THEN [pc |-> "done", token |-> 0] ELSE [pc |-> "revoking", token |-> held[r].id]]
    /\ tokens' = held
\* What revoke does once no refresh is pending: the token is forgotten first.
RevokeCurrent(r, held) ==
    /\ handler' = [handler EXCEPT ![r] =
          IF held[r] = NoToken THEN [pc |-> "done", token |-> 0] ELSE [pc |-> "revoking", token |-> held[r].id]]
    /\ tokens' = [held EXCEPT ![r] = NoToken]
\* Mutant: the settled refresh is not taken out of pending.
SettlePending(c) ==
    /\ refresh[c].pc \in {"renewed", "minted", "mintFailed"}
    /\ refresh' = [refresh EXCEPT ![c] = NoRefresh]
    /\ cmd' = [d \in Commands |-> IF cmd[d].pc = "waiting" /\ cmd[d].on = c
                                  THEN [cmd[d] EXCEPT !.pc = "ready", !.on = NoCommand] ELSE cmd[d]]
    /\ tokens' = [tokens EXCEPT ![refresh[c].root] = [id |-> refresh[c].result, issuedAt |-> now]]
    /\ UNCHANGED <<now, resolver, pending, handler, bao, host, raced>> /\ NoFault
\* The refresh settles: the commands that share it go on, and so does a
\* revocation that waited for it.
Settle(c) ==
    /\ refresh[c].pc \in {"renewed", "minted", "mintFailed"}
    /\ LET r == refresh[c].root
           held == CASE refresh[c].pc = "renewed" -> [tokens EXCEPT ![r].issuedAt = now, ![r].id = refresh[c].current.id]
                     [] refresh[c].pc = "minted" -> [tokens EXCEPT ![r] = [id |-> refresh[c].result, issuedAt |-> now]]
                     [] OTHER -> tokens
       IN  /\ pending' = [pending EXCEPT ![r] = NoCommand]
           /\ cmd' = [d \in Commands |-> IF cmd[d].pc = "waiting" /\ cmd[d].on = c
                                         THEN [cmd[d] EXCEPT !.pc = "ready", !.on = NoCommand] ELSE cmd[d]]
           /\ IF handler[r].pc = "awaiting" THEN RevokeCurrent(r, held)
              ELSE tokens' = held /\ UNCHANGED handler
    /\ refresh' = [refresh EXCEPT ![c] = NoRefresh]
    /\ UNCHANGED <<now, resolver, bao, host, raced>> /\ NoFault
RevokeHandled(r) ==
    /\ handler[r].pc = "revoking"
    /\ handler' = [handler EXCEPT ![r].pc = "done"]
    /\ \/ bao' = [bao EXCEPT ![handler[r].token].live = FALSE] /\ NoFault
       \/ UNCHANGED bao /\ Fault
    /\ UNCHANGED <<now, resolver, tokens, pending, refresh, cmd, host, raced>>

-----------------------------------------------------------------------------
(* Deletions *)

Delete(s) ==
    /\ s \in exists
    /\ LET Gone == {m \in exists : m = s \/ (m \in DOMAIN Parent /\ Parent[m] = s)}
       IN  exists' = exists \ Gone
    /\ events' = IF stream = "up" THEN Append(events, s) ELSE events
    /\ NoFault
    /\ UNCHANGED <<now, resolver, tokens, pending, refresh, cmd, bao, stream, handler, raced>>
\* Mutant: the revocation does not wait for a refresh under way.
RevokeAtOnce(r) == RevokeCurrent(r, tokens)
\* SessionTokens.revoke up to its first await.
Revoke(r) ==
    IF pending[r] # NoCommand
    THEN handler' = [handler EXCEPT ![r].pc = "awaiting"] /\ UNCHANGED tokens
    ELSE RevokeCurrent(r, tokens)
LookingUp(r) == \E c \in Commands : cmd[c].pc \in {"asking", "found"} /\ RootOf(cmd[c].session) = r
Deleted ==
    /\ stream = "up" /\ events # <<>>
    /\ events' = Tail(events)
    /\ LET s == events[1]
       IN  /\ cache' = cache \ {s}
           /\ roots' = [m \in Sessions |-> IF m = s \/ roots[m] = s THEN NoSession ELSE roots[m]]
           /\ raced' = IF s \in Roots /\ LookingUp(s) THEN raced \cup {s} ELSE raced
           /\ IF s \in Roots /\ (tokens[s] # NoToken \/ pending[s] # NoCommand)
              THEN Revoke(s) ELSE UNCHANGED <<tokens, handler>>
    /\ UNCHANGED <<now, pending, refresh, cmd, bao, exists, stream>> /\ NoFault
\* Deletions under way, or made while the stream is down, are not seen.
StreamFails ==
    /\ stream = "up" /\ stream' = "down" /\ events' = <<>> /\ Fault
    /\ UNCHANGED <<now, exists, resolver, tokens, pending, refresh, cmd, bao, handler, raced>>
Resubscribe ==
    /\ stream = "down" /\ stream' = "up" /\ NoFault
    /\ UNCHANGED <<now, exists, resolver, tokens, pending, refresh, cmd, bao, events, handler, raced>>
Tick ==
    /\ now < MaxTime /\ now' = now + 1 /\ NoFault
    /\ UNCHANGED <<resolver, tokens, pending, refresh, cmd, bao, host, handler, raced>>

CommandStep(c) ==
    HostAnswers(c) \/ Found(c) \/ Lost(c) \/ Spawn(c) \/ RenewHandled(c) \/ MintHandled(c)
    \/ RenewalFailed(c) \/ Settle(c)
Next ==
    \/ \E c \in Commands : CommandStep(c) \/ \E s \in Sessions : Before(c, s)
    \/ \E r \in Roots : RevokeHandled(r)
    \/ \E s \in Sessions : Delete(s)
    \/ Deleted \/ StreamFails \/ Resubscribe \/ Tick
Spec == Init /\ [][Next]_vars
\* Hosts and OpenBao answer, and continuations run; nobody has to start a
\* command or delete a session, and no token has to expire.
Fairness ==
    /\ WF_vars(Deleted) /\ WF_vars(Resubscribe)
    /\ \A c \in Commands : WF_vars(CommandStep(c))
    /\ \A r \in Roots : WF_vars(RevokeHandled(r))
FairSpec == Spec /\ Fairness

-----------------------------------------------------------------------------
\* A command only ever runs with the token of its own root session, or none
\* (setupOpenBao: rather than another session's).
CommandsGetTheirOwnToken ==
    \A c \in Commands : cmd[c].env # 0 => bao[cmd[c].env].root = RootOf(cmd[c].session)

\* Concurrent commands of one session share a single mint or renewal: OpenBao
\* never works on two refreshes of a root at once (SessionTokens.get).
OneRefreshAtATime ==
    \A c, d \in Commands : refresh[c].pc # "none" /\ refresh[c].root = refresh[d].root => c = d

\* No command is started with a token that has been revoked already.
RevokedTokensStayHome ==
    [][\A c \in Commands : cmd[c].pc = "ready" /\ cmd'[c].pc = "ran" /\ cmd'[c].env # 0 =>
          bao[cmd'[c].env].live]_vars

\* Every command gets to run, whatever the host, OpenBao and the event stream
\* do: the hook catches what goes wrong.
CommandsRun == \A c \in Commands : cmd[c].pc # "idle" ~> cmd[c].pc = "ran"

\* Deleting a root session ends in the revocation of its token, also of one
\* that is still being minted or renewed, when nothing failed and no command
\* was looking the session up at that moment.
QuietDeletionsRevoke ==
    \A r \in Roots : r \notin exists /\ faults = 0 ~> Live(r) = {} \/ faults > 0 \/ r \in raced
=============================================================================
