------------------------------ MODULE BaoCred -------------------------------
(***************************************************************************)
(* bao-cred: the request command with --wait and --no-wait, the read       *)
(* command with --reason, the watch stream they wait on and the exit       *)
(* status the agent sees.                                                  *)
(*                                                                         *)
(* The authorizer is what bao-cred sees of it: Grant Requests whose items  *)
(* change state and a stream per watch, as modelled in Streams.  There is  *)
(* no clock: a timer that runs may fire.                                   *)
(***************************************************************************)
EXTENDS Integers, Sequences, FiniteSets

CONSTANTS Requests, None,  \* Grant Requests, and no request
          Items,           \* the items of each
          retryDelay, maxRetryDelay,
          MaxRuns,    \* bound: runs of bao-cred, one after the other
          MaxFaults,  \* bound: cut, stalled or refused connections
          MaxWire     \* bound: messages under way

BaoCredAssumption ==
    /\ None \notin Requests /\ retryDelay \in Nat \ {0} /\ maxRetryDelay \in Nat /\ retryDelay <= maxRetryDelay
    /\ MaxRuns \in Nat /\ MaxFaults \in Nat /\ MaxWire \in Nat

VARIABLES items,   \* items[q][k]: the state of item k of request q in the authorizer
          allowed, \* OpenBao lets the token read the path
          proc,    \* the running bao-cred
          stream,  \* its WatchGrantRequest stream
          runs, faults

vars == <<items, allowed, proc, stream, runs, faults>>

Granted == {"approved", "already_granted"}
Decided == {"refused", "already_granted", "approved", "rejected", "expired", "revoked"}
NoItems == [k \in Items |-> "absent"]
Pending(states) == \E k \in Items : states[k] = "pending"
Filed(q) == items[q] # NoItems
\* How far an item has come.
Rank(state) == CASE state = "absent" -> 0 [] state = "pending" -> 1
                 [] state \in {"refused", "already_granted", "approved", "rejected", "expired"} -> 2
                 [] state = "revoked" -> 3

NoStream == [server |-> "none", last |-> NoItems, wire |-> <<>>, stalled |-> FALSE]
\* exit is the status of the last run; -1 while bao-cred runs.
NoRun == [pc |-> "exited", cmd |-> "none", id |-> None, known |-> NoItems, told |-> [k \in Items |-> <<>>],
           delay |-> retryDelay, slept |-> 0, heard |-> FALSE, wait |-> FALSE, reads |-> 0,
           timedOut |-> FALSE, exit |-> 0]

Init ==
    /\ items = [q \in Requests |-> NoItems]
    /\ allowed = FALSE
    /\ proc = NoRun
    /\ stream = NoStream
    /\ runs = 0 /\ faults = 0

Fault == faults < MaxFaults /\ faults' = faults + 1
NoFault == UNCHANGED faults
Proc(changes) == proc' = changes
At(pcs) == proc.pc \in pcs

\* Mutant: denied wins over pending.
outcomeDenied(states) ==
    IF \E k \in Items : states[k] \notin Granted \cup {"pending"} THEN 3
    ELSE IF Pending(states) THEN 4 ELSE 0
\* grantRequest.outcomeError: pending wins over denied.
outcome(states) ==
    IF Pending(states) THEN 4
    ELSE IF \E k \in Items : states[k] \notin Granted THEN 3 ELSE 0

\* Mutant: every decided item is told with every snapshot.
reportAll(told, states) ==
    [k \in Items |-> IF states[k] \in {"absent", "pending"} THEN told[k] ELSE Append(told[k], states[k])]
\* reportChanges: the states that are not the last ones told.
reportChanges(told, states) ==
    [k \in Items |->
        IF states[k] \in {"absent", "pending"} THEN told[k]
        ELSE IF told[k] # <<>> /\ told[k][Len(told[k])] = states[k] THEN told[k]
        ELSE Append(told[k], states[k])]

Exit(p, status) == [p EXCEPT !.pc = "exited", !.exit = status]
\* waitForGrantRequest begins: known is the first answer.  Nothing pending, or
\* --no-wait, ends the run.
Awaits(p, states) ==
    LET told == IF p.wait THEN reportChanges(p.told, states) ELSE p.told
        next == [p EXCEPT !.known = states, !.told = told, !.pc = "watch"]
    IN IF p.wait /\ Pending(states) THEN next
       ELSE [next EXCEPT !.pc = "return"]
-----------------------------------------------------------------------------
(* The authorizer, an Approver and OpenBao *)

Decide(q, k) ==
    /\ items[q][k] = "pending"
    /\ \E state \in {"approved", "rejected", "expired"} :
          /\ items' = [items EXCEPT ![q][k] = state]
          /\ allowed' = (allowed \/ state = "approved")
    /\ UNCHANGED <<proc, stream, runs>> /\ NoFault
Revoke(q, k) ==
    /\ items[q][k] = "approved"
    /\ items' = [items EXCEPT ![q][k] = "revoked"]
    /\ allowed' = FALSE
    /\ UNCHANGED <<proc, stream, runs>> /\ NoFault

\* WatchGrantRequest sends what differs from what it sent last and ends once
\* nothing is pending.
StreamSends ==
    /\ stream.server = "open" /\ Len(stream.wire) < MaxWire
    /\ stream.last # items[proc.id]
    /\ stream' = [stream EXCEPT !.last = items[proc.id], !.wire = Append(@, items[proc.id]),
                                !.server = IF Pending(items[proc.id]) THEN "open" ELSE "ended"]
    /\ UNCHANGED <<items, allowed, proc, runs>> /\ NoFault
\* A heartbeat carries no snapshot.
StreamBeats ==
    /\ stream.server = "open" /\ Len(stream.wire) < MaxWire /\ stream.last # NoItems
    /\ stream' = [stream EXCEPT !.wire = Append(@, NoItems)]
    /\ UNCHANGED <<items, allowed, proc, runs>> /\ NoFault
\* The network delivers nothing more, and nobody says so.
StreamStalls ==
    /\ stream.server # "none" /\ ~stream.stalled
    /\ stream' = [stream EXCEPT !.stalled = TRUE]
    /\ UNCHANGED <<items, allowed, proc, runs>> /\ Fault
-----------------------------------------------------------------------------
(* bao-cred begins *)

Outside == UNCHANGED <<items, allowed, stream>>
New(cmd, id, wait) == [NoRun EXCEPT !.cmd = cmd, !.id = id, !.wait = wait, !.exit = -1, !.pc = "begin"]
CanStart == At({"exited"}) /\ runs < MaxRuns /\ runs' = runs + 1

\* bao-cred request --reason ... --item ..., with or without --no-wait.
RunRequest(wait) == CanStart /\ Proc([New("request", None, wait) EXCEPT !.pc = "create"]) /\ Outside /\ NoFault
\* bao-cred request --wait ID, with the ID an earlier run printed.
RunWait(q) == CanStart /\ Filed(q) /\ Proc([New("wait", q, TRUE) EXCEPT !.pc = "get"]) /\ Outside /\ NoFault
\* bao-cred read, with or without --reason.
RunRead(reason) == CanStart /\ Proc([New("read", None, reason) EXCEPT !.pc = "read"]) /\ Outside /\ NoFault
\* Flags that do not go together: nothing is sent.
RunBadFlags == CanStart /\ Proc(Exit(New("usage", None, FALSE), 2)) /\ Outside /\ NoFault

\* createGrantRequest: the authorizer files it and answers.
Create(q) ==
    /\ At({"create"}) /\ ~Filed(q)
    /\ \E states \in [Items -> {"pending", "refused", "already_granted"}] :
          /\ items' = [items EXCEPT ![q] = states]
          /\ Proc(Awaits([proc EXCEPT !.id = q], states))
    /\ UNCHANGED <<allowed, stream, runs>> /\ NoFault
\* The call fails, times out or is refused: the request may have been filed, and
\* bao-cred ends without its id.
CreateFails(q) ==
    /\ At({"create"}) /\ ~Filed(q)
    /\ \/ UNCHANGED items
       \/ \E states \in [Items -> {"pending", "refused", "already_granted"}] :
             items' = [items EXCEPT ![q] = states]
    /\ Proc(Exit(proc, 1))
    /\ UNCHANGED <<allowed, stream, runs>> /\ Fault

\* grantRequest: the first state of a request resumed.
Get == At({"get"}) /\ Proc(Awaits(proc, items[proc.id])) /\ Outside /\ UNCHANGED runs /\ NoFault
GetFails == At({"get"}) /\ Proc(Exit(proc, 1)) /\ Outside /\ UNCHANGED runs /\ Fault

\* Mutant: a read goes on unless something was denied.
ReturnHopeful ==
    /\ At({"return"})
    /\ Proc(IF proc.cmd = "read" /\ outcome(proc.known) # 3 THEN [proc EXCEPT !.pc = "read"]
            ELSE Exit(proc, outcome(proc.known)))
    /\ Outside /\ UNCHANGED runs /\ NoFault
\* The request is printed; a read goes on when everything is granted.
Return ==
    /\ At({"return"})
    /\ Proc(IF proc.cmd = "read" /\ outcome(proc.known) = 0 THEN [proc EXCEPT !.pc = "read"]
            ELSE Exit(proc, outcome(proc.known)))
    /\ Outside /\ UNCHANGED runs /\ NoFault

\* readCredentials: permission denied files a request the first time, if there
\* is a reason.
Read ==
    /\ At({"read"})
    /\ LET p == [proc EXCEPT !.reads = @ + 1] IN
       Proc(IF allowed THEN Exit(p, 0)
            ELSE IF proc.reads = 0 /\ proc.wait THEN [p EXCEPT !.pc = "create"] ELSE Exit(p, 1))
    /\ Outside /\ UNCHANGED runs /\ NoFault
-----------------------------------------------------------------------------
(* waitForGrantRequest *)

NewStream == stream' = [NoStream EXCEPT !.server = "open"]
Hangs == stream' = NoStream
WaitKept == UNCHANGED <<items, allowed, runs>>

Watch == At({"watch"}) /\ Proc([proc EXCEPT !.pc = "stream"]) /\ NewStream /\ WaitKept /\ NoFault

\* A snapshot is the full truth; any message resets the backoff.
Receive ==
    /\ At({"stream"}) /\ ~stream.stalled /\ stream.wire # <<>>
    /\ LET message == Head(stream.wire)
           p == [proc EXCEPT !.delay = retryDelay, !.heard = TRUE]
       IN Proc(IF message = NoItems THEN p
               ELSE [p EXCEPT !.known = message, !.told = reportChanges(@, message)])
    /\ stream' = [stream EXCEPT !.wire = Tail(@)]
    /\ WaitKept /\ NoFault

\* Mutant: the backoff starts over with every reconnect.
BackoffFlat(p) == [p EXCEPT !.pc = "backoff", !.slept = proc.delay, !.heard = FALSE, !.delay = retryDelay]
\* progress("... reconnecting in delay"), the sleep, and the next delay.
Backoff(p) == [p EXCEPT !.pc = "backoff", !.slept = proc.delay, !.heard = FALSE,
                        !.delay = IF 2 * @ < maxRetryDelay THEN 2 * @ ELSE maxRetryDelay]

\* The server ended the stream: done, unless something is still pending.
StreamEnds ==
    /\ At({"stream"}) /\ ~stream.stalled /\ stream.wire = <<>> /\ stream.server = "ended"
    /\ Proc(IF Pending(proc.known) THEN Backoff(proc) ELSE [proc EXCEPT !.pc = "return"])
    /\ Hangs /\ WaitKept /\ NoFault
\* The connection cannot be made or is cut, with whatever is under way.
StreamCut ==
    /\ At({"watch", "stream"})
    /\ Proc(Backoff(proc))
    /\ Hangs /\ WaitKept /\ Fault
\* A proxy ends the stream as if the server had.
StreamEndsEarly ==
    /\ At({"stream"})
    /\ Proc(IF Pending(proc.known) THEN Backoff(proc) ELSE [proc EXCEPT !.pc = "return"])
    /\ Hangs /\ WaitKept /\ Fault
\* Mutant: the idle timer is stopped by the first message.
IdleFiresUnheard ==
    /\ At({"stream"}) /\ stream.stalled /\ ~proc.heard
    /\ Proc(Backoff(proc))
    /\ Hangs /\ WaitKept /\ NoFault
\* Neither snapshot nor heartbeat for streamIdleTimeout: as good as dropped.
IdleFires ==
    /\ At({"stream"}) /\ stream.stalled
    /\ Proc(Backoff(proc))
    /\ Hangs /\ WaitKept /\ NoFault
\* The token is refused, the request is unknown, the certificate is not trusted.
WatchRefused ==
    /\ At({"watch", "stream"})
    /\ Proc(Exit(proc, 1))
    /\ Hangs /\ WaitKept /\ Fault
\* The loop looks at what it knows before it connects again.
Retry ==
    /\ At({"backoff"})
    /\ Proc([proc EXCEPT !.pc = IF Pending(proc.known) THEN "watch" ELSE "return"])
    /\ UNCHANGED stream /\ WaitKept /\ NoFault
\* Mutant: a timeout reports what was pending when bao-cred began to wait.
TimeoutForgetful ==
    /\ At({"watch", "stream", "backoff"})
    /\ Proc([proc EXCEPT !.pc = "return", !.timedOut = TRUE,
                         !.known = [k \in Items |-> IF @[k] = "revoked" THEN "approved" ELSE "pending"]])
    /\ Hangs /\ WaitKept /\ NoFault
\* --timeout: what is known is returned.
Timeout ==
    /\ At({"watch", "stream", "backoff"})
    /\ Proc([proc EXCEPT !.pc = "return", !.timedOut = TRUE])
    /\ Hangs /\ WaitKept /\ NoFault
\* SIGINT or SIGTERM.
Signal ==
    /\ ~At({"exited"})
    /\ Proc(Exit(proc, 1))
    /\ Hangs /\ WaitKept /\ Fault
-----------------------------------------------------------------------------
Server == StreamSends \/ StreamBeats
Progress ==
    \/ \E q \in Requests : Create(q)
    \/ Get \/ Return \/ Read \/ Watch \/ StreamEnds \/ IdleFires \/ Retry
Next ==
    \/ \E q \in Requests, k \in Items : Decide(q, k) \/ Revoke(q, k)
    \/ Server \/ StreamStalls
    \/ RunRequest(TRUE) \/ RunRequest(FALSE) \/ RunRead(TRUE) \/ RunRead(FALSE) \/ RunBadFlags
    \/ \E q \in Requests : RunWait(q) \/ CreateFails(q)
    \/ Progress \/ Receive \/ GetFails
    \/ StreamCut \/ StreamEndsEarly \/ WatchRefused \/ Timeout \/ Signal

Spec == Init /\ [][Next]_vars
\* bao-cred, the authorizer and the network go on; heartbeats do not keep a change
\* from being sent.  Nobody has to decide, and the overall timeout is not relied
\* upon.
Fairness == WF_vars(Progress) /\ WF_vars(Receive) /\ SF_vars(StreamSends)
FairSpec == Spec /\ Fairness
-----------------------------------------------------------------------------
States == {"absent", "pending"} \cup Decided
\* Every variable has its type.
TypeOK ==
    /\ items \in [Requests -> [Items -> States]] /\ allowed \in BOOLEAN
    /\ proc.pc \in {"exited", "create", "get", "return", "read", "watch", "stream", "backoff"}
    /\ proc.id \in Requests \cup {None} /\ proc.known \in [Items -> States]
    /\ proc.delay \in retryDelay..maxRetryDelay /\ proc.slept \in 0..maxRetryDelay
    /\ proc.reads \in 0..2 /\ proc.exit \in -1..4
    /\ \A i \in DOMAIN stream.wire : stream.wire[i] \in [Items -> States]
    /\ stream.server \in {"none", "open", "ended"} /\ runs \in 0..MaxRuns /\ faults \in 0..MaxFaults

\* The exit status is true of the request when bao-cred ends, however often the
\* stream dropped: 0 when every item was granted, 3 when nothing is pending and
\* something was not, and 4 only for a timeout or --no-wait.
ExitStatusIsTrue ==
    At({"exited"}) /\ proc.id # None /\ proc.cmd \in {"request", "wait"} =>
        LET states == items[proc.id] IN
        CASE proc.exit = 0 -> \A k \in Items : states[k] \in Granted \cup {"revoked"}
          [] proc.exit = 3 -> ~Pending(states) /\ \E k \in Items : states[k] \notin Granted
          [] proc.exit = 4 -> (proc.timedOut \/ ~proc.wait) /\ Pending(proc.known)
          [] OTHER -> TRUE

\* Every snapshot bao-cred takes is at least as far as the last one, in one
\* stream and from one stream to the next.
SnapshotsAdvance ==
    [][\A k \in Items : proc'.id = proc.id /\ proc.exit = -1 /\ proc.id # None =>
          Rank(proc.known[k]) <= Rank(proc'.known[k])]_proc

\* However often a state is sent again, the agent is told of it once.
NewsIsToldOnce ==
    \A k \in Items : \A i, j \in DOMAIN proc.told[k] :
        i < j => Rank(proc.told[k][i]) < Rank(proc.told[k][j])

\* A read is retried once, and only after everything it asked for was granted.
ReadsAgainWhenGranted ==
    proc.reads = 2 => \A k \in Items : proc.known[k] \in Granted

\* An authorizer that cannot be reached is asked less and less often: without a
\* message in between, the next sleep is at least twice as long or the longest.
BackoffGrows ==
    [][proc.pc # "backoff" /\ proc'.pc = "backoff" /\ ~proc.heard /\ proc.slept > 0 =>
          proc'.slept >= 2 * proc.slept \/ proc'.slept = maxRetryDelay]_proc

\* Once nothing is pending, a waiting bao-cred ends, with the timeout or before.
DecisionsArrive ==
    (At({"watch", "stream", "backoff"}) /\ ~Pending(items[proc.id])) ~> At({"exited"})
=============================================================================
