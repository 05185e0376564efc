# A TLA+ model of openbao-authorizer

openbao-authorizer lets coding agents ask for access to OpenBao paths. A Requester (the agent, with its Session Token) files a Grant Request with Permission Items; an Approver (a human) approves or rejects them; an approval becomes a Grant, which is a path block with its own expiration in the OpenBao policy of the Agent Session. This directory holds TLA+ modules that model the parts of the system where ordering, concurrency and failure matter, configurations that check them with TLC, and proofs that TLAPS checks.

## The system

| component | source | state | operations | talks to |
| --- | --- | --- | --- | --- |
| Grants service | `internal/grants/service.go` | locals of the goroutines that serve calls | CreateRequest, Request (long poll), Decide, Revoke, ExpirePending, AnnounceExpiredGrants | store, OpenBao, Notifier |
| Session locks | `service.go`, `lockSession` | map from entity to a counted mutex | lock, unlock | Decide and Revoke |
| Grant store | `internal/store/grants.go` | tables `grant_requests` (items as one JSON list, `has_pending`) and `grants` | CreateGrantRequest, DecideItems, ExpirePendingItems, RevokeGrant, queries | SQLite, one connection |
| Rules and resolution | `internal/grants/rules.go` | the configured rules, constant while the process runs | Resolve, MatchPattern, ValidateRule, Covers | Grants service, configuration |
| Discovery cache | `internal/grants/discover.go` | the last listing per rule | Grantables | OpenBao `LIST` |
| OpenBao client | `internal/openbao/client.go` | none (OpenBao: policies, entities) | WritePolicy, DeletePolicy, ReadEntity, SetEntityPolicies, CapabilitiesSelf, ... | OpenBao over HTTP, 10 s timeout |
| Streams and events | `internal/api/events.go`, `grant.go`, `approver.go` | subscribers with one pending wake-up each | Publish, Subscribe, WatchGrantRequest, WatchEvents | Notifier, store |
| Approver sessions | `internal/api/auth.go`, `approver.go`, `server.go`, `store/store.go` | tables `approver_sessions`, `subscriptions` | CreateSession, Logout, watchSessionEnd, push subscriptions, sweeper | OpenBao, store |
| Web Push | `internal/push/push.go` | none (subscriptions are in the store) | NewRequest, ValidateEndpoint, dialContext | push services, store |
| Configuration | `internal/config/config.go` | none | Load | server process |
| Server process | `cmd/openbao-authorizer` | contexts, the listener | run, shutdown, sweeps | all of the above |
| bao-cred | `cmd/bao-cred` | one wait for a decision; a temporary file | request, wait with reconnects, read, render, write or execute | the API |
| opencode plugin | `integrations/opencode/src` | one Session Token per root session, pending mints | get, peek, revoke, deletions | OpenBao, opencode |
| Approver PWA | `web/src` | the last snapshot | render, decide | the API |

What makes it hard:

- **Three places hold the truth.** The SQLite store records Grants, OpenBao gives the access, and a goroutine carries copies of both through several calls. There is no transaction over the store and OpenBao. Decide writes OpenBao first and compensates (`restorePolicy`) when storing fails; Revoke does the same in the other direction.
- **Concurrency.** Decisions and revocations of one session take a session lock. The pending sweep, filing and operators do not. `DecideItems` and `RevokeGrant` write back a whole list of items.
- **Failure.** OpenBao refuses, times out after applying a write, or refuses a write whose expiration has elapsed meanwhile; the store fails; the process dies between two steps; nothing is reconciled at the next start.
- **Time.** Items expire together at a deadline, Grants one by one; expirations are whole seconds; the configuration may shrink at a restart.
- **Streams and sessions.** Wake-ups are coalesced, streams re-read the store, sessions end under running streams, and a dashboard's snapshot is three queries.
- **Clients.** bao-cred reconnects while its own timers run and may be killed between any two steps; the plugin's continuations interleave with deletions and with answers that come late.

What must hold, per component:

- session locks: mutual exclusion per session, no lost or leaked entry, no starvation;
- Grants service and store: an item is decided at most once and agrees with its Grant; revoked access never comes back; OpenBao gives what is recorded; blocks stay in their session; a recorded Grant is usable; no Grant beyond the resolved TTL; every call returns and every item settles;
- rules and configuration: matching is globbing; nothing denied is granted; what is filed fits a rule, whatever the order of the rules; the catalog offers what can be requested; a Requester fits its rule;
- discovery: a listing is not older than it claims, and a caller that leaves is nobody else's failure;
- streams: no wake-up is lost, whoever waits has seen the last change, snapshots of several queries lose nothing for good, each expiry is announced once, a stream ends with its token;
- approver sessions: a stream ends with its session, a cookie names a stored session, an exchanged token is revoked or reported, a push subscription does not outlive its session;
- Web Push: connections go to public addresses of allowed hosts only, and one bad subscription costs no other;
- server process: a clean end has answered every call, streams do not hold the shutdown, a signal ends the process;
- bao-cred: the exit status is true, a decision is reported once, the output is whole, the command's environment and the rendered text are what was asked for;
- plugin: one token per root session, in its own session's commands only, revoked after the session is deleted.

## Modules

| module | what it is |
| --- | --- |
| `KeyedMutex` | what `lockSession` promises: one mutex per Agent Session |
| `SessionLocks` | how `lockSession` does it: the map, the counts and the heap objects; implements `KeyedMutex` |
| `Lifecycle` | what the authorizer promises about items and Grants, without OpenBao, time or goroutines |
| `Grants` | the grants service, the Grant store and OpenBao, with faults, crashes, restarts and operators; uses `KeyedMutex`; implements `Lifecycle` |
| `Streams` | from a change in the store to those who wait for it: EventBus, streams, long poll, sweep and announcements |
| `ApproverSessions` | sign-in, logout, dashboard streams that end with their session, push subscriptions |
| `PushFanout` | one fan-out over the subscriptions, with DNS that changes and push services that fail |
| `Rules`, `Filing` | patterns, the Hard Denylist and `Resolve` as operators; configuration, Requesters, requests and the catalog over them |
| `Discovery` | the cache of listings with concurrent callers |
| `Server` | the process: calls, signal, shutdown and its timeout, sweeps, closing the database |
| `BaoCred` | `bao-cred request` and `read` up to their exit status: decisions, the watch stream, timers |
| `Credentials` | what `bao-cred read` makes of flags, environment and data, as operators |
| `Deliver` | how the contents get to a file, a command or the standard output, with crashes |
| `SessionTokens` | the opencode plugin's tokens |
| `MCGrants`, `MCLimits` | instances of `Grants` for TLC |
| `Components` | `SessionLocks`, `Server`, `Discovery`, `PushFanout`, `BaoCred`, `Deliver` and `SessionTokens` side by side, for any constants, with the properties that are checked and proved of them |
| `MCComponents`, `MCLive` | values for `Components`; the same with fairness, and a dashboard of `ApproverSessions` |
| `PatternPairs` | one pattern with one path at a time: the matcher and the denylist against OpenBao's reading |
| `MCFiling`, `MCCredentials`, `MCInputs` | the inputs of the pure parts, and their one run |
| `MCStreams`, `MCApproverSessions` | instances of `Streams` and `ApproverSessions` |
| `SessionLocks_proofs` | theorems about the lock map |
| `GrantsSteps_proofs`, `GrantsSafety_proofs` | theorems about `Grants`: types, and what each step does and leaves alone; the inductive invariants, safety and refinement |
| `Streams_proofs`, `ApproverSessions_proofs` | theorems about `Streams` and `ApproverSessions` |
| `Services_proofs` | theorems about `Server`, `Discovery` and `PushFanout`, alone and within `Components` |
| `Clients_proofs` | the same for `BaoCred`, `Deliver` and `SessionTokens` |
| `Filing_proofs` | theorems about `Rules`, `Filing` and `PatternPairs` |

In every module one store transaction, one request to OpenBao, one wake-up or one stretch between two awaits is one action; whatever may come between two of them in the program may come between the two actions. A definition whose comment begins with "Mutant" is the definition after it with a plausible mistake; the specifications do not use it.

### `SessionLocks` and the code

`lockSession` has four critical sections of interest, and each is an action: look up or create the entry and count in (`Join`, `Create`), take the entry's mutex (`Lock`), free it (`Unlock`), count out and delete an entry nobody uses (`Leave`). `sessionLocksMu` is not a variable: a critical section of it is atomic. A `sessionLock` is a heap object; `Create` may be given any address that nobody refers to, also one that was in use before. `key` remembers the entity of a goroutine's call.

### `Grants` and the code

One call of the code is a path through the actions; each store transaction and each OpenBao request is one action, so that anything may happen between two of them.

| code | actions |
| --- | --- |
| `CreateRequest` | `FileRequest` (validate, resolve, capabilities-self), `InsertRequest` |
| `Decide` / `decide` | `StartDecide`, `DecideLock`, `DecideRead` (re-read, validate, query active Grants), `DecideWrite`, `AttachRead`, `AttachSet`, `DecideStore`, `Unlock` |
| `Revoke` / `revoke` | `StartRevoke`, `RevokeLock`, `RevokeRead`, `RevokeWrite`, `RevokeStore`, `Unlock` |
| `restorePolicy` | `RestoreRead`, `RestoreWrite` |
| `ExpirePending` | `ExpirePending` |
| clock, shutdown, crash, operators | `Tick`, `Restart`, `Crash`, `OperatorSet` |

State: `requests` and `grants` are the tables; `policy[e][i]` is the expiration of item `i`'s block in the session policy of `e` (0 for none) and `attached[e]` the entity's policies; `holder` the session locks; `call[c]` the program counter and locals of goroutine `c`; `caps` the maximal TTL per path under the running configuration; `now` one clock. `diverged` and `faults` are history variables: a policy write ended in doubt, and how many faults there were.

Abstractions, and why they keep what the properties need:

- A path stands for a path with the capabilities asked for on it. `Resolves` is whether `Resolve` accepts it, which depends on the configuration only through the maximal TTL.
- TTL 0 stands for an empty TTL. Time is in ticks of `1/Second` seconds, so that truncation to seconds shows.
- The expiration of a policy as a whole is that of its last block (`sessionPolicy`), hence no variable but `PolicyElapsed`.
- `grants` has a row per item. A second row for an item cannot be inserted (`item_id` is UNIQUE), and an item is approved at most once.
- The token's other policies are not modelled: `Covered` says what the session policy gives.
- A faults constant chooses what may go wrong: `refuse` (an OpenBao call fails and did nothing), `lost` (it was applied, the caller sees an error), `store` (a store call fails; also a cancelled request context), `crash`. Authorizer and OpenBao share a clock. A lost write is applied at once or not at all; a write applied *after* a later one is not modelled.
- Messages, names, encryption, notifications and reasons are left out.

### `Streams` and the code

A writer's call is its transaction (`FileRequest`, `Decide`, `Revoke`) and then, in the code's order, the change signal (`WriterSignals`) and the Publishes (`WriterPublishes`). The sweep of `Service.Run` is a process of its own: `ExpirePending` with its signals and publishes, then `AnnounceBegins`, `AnnounceQueries`, `AnnouncePublishes`; a query that fails ends the pass (`ExpirePendingFails`, `AnnounceFails`) and leaves the window where it was. A client stream (`ClientReads`, `ClientSends`, `ClientWakes`, `Heartbeat`, ...), a dashboard (`DashReadsPending`, `DashReadsDecided`, `DashReadsActive`) and a long poll (`PollTakes` the channel, then `PollReads`) each keep what they last saw. An `EventBus` subscriber is one flag, its channel of capacity 1. The history of a dashboard is one of the `DecidedLists`: the newest `DecidedLimit` of the decided requests (`decidedRequestLimit`, 200 in the code), where the query leaves the order of requests with one creation time open.

### `ApproverSessions`, `PushFanout` and the code

`ApproverSessions` has one action per store or OpenBao call of CreateSession (`SignIn`, `TokenInvalid`, `LookupSelf`, `RevokeSelf`, `DeleteSession`, `CloseDeletions`, `PutSession`, `Answer`), Logout, the push registrations, WatchEvents and `watchSessionEnd` (`OpenWatch`, `TakeDeletions`, `LookUp`, `Wake`, `ExpireWatch`, `EndWatch`). Session expirations are milliseconds in the table and subscription expirations RFC 3339 text; `Millis` and `TextRank` are what these conversions do to the order of times. `PushFanout` looks inside one fan-out, which is one step per subscription in `ApproverSessions`: validation (`Pick`, `Lookup`), the deletion of what failed (`Delete`), the dial that resolves again (`Dial`), the answer and the timeouts.

### `Rules`, `Filing`, `Credentials` and the code

Paths are sequences of segments and segments sequences of letters, because matching, the denylist and trailing slashes depend on them and on nothing finer. `Filing` is a machine of four calls: `Load` a configuration, `Authenticate`, `CreateRequest`, `Grantables`; each leaves its answer to be looked at. `Credentials` follows the readers and writers of bao-cred character by character where a property is about quoting. `MCCredentials` has the references: a POSIX shell, a dotenv reader, and the addresses of a data object.

### `Discovery`, `Server`, `BaoCred`, `Deliver`, `SessionTokens` and the code

`Discovery`: `Look` under the cache's mutex, `List`, and `Keep` under it again, per rule of one call; `Leave` cancels a caller. `Server`: `OnShutdown` cancels the base context of the calls, `ShutdownEnds` and `ShutdownTimesOut` are the two ends of `http.Server.Shutdown`, `Close` closes the database under what still runs. `BaoCred`: one command from its flags to its exit; each stream, reconnect, timer and signal is an action. `Deliver`: the system calls of `writeFile` on inodes whose contents may or may not have reached the disk, and the child of `execute`; the removal of the temporary file may be refused like every other call (`RemoveTemp`, remembered in the history variable `removal`), and `Kill` and `PowerLoss` may come at any step. `SessionTokens`: what runs between two awaits of the hook, the minter, the resolver and the deletion watcher; promises that several commands await are settled together (`Settle`).

## Runs

Twelve runs, each for one group of questions. Where a run holds several scenarios or components, a behaviour chooses one at the start and stays in it, so the run's states are the sum and not the product of theirs: the components in one run share no state in the program, or are the same component in other surroundings.

| run | what is instantiated | question |
| --- | --- | --- |
| `faults` | `Grants`: 1 request, 2 items, 2 goroutines, two faults of any kind | do items and Grants follow `Lifecycle`, and what do failures, lost responses and crashes at any step leave behind? |
| `sessions` | `Grants`: 2 sessions with a request each, 2 goroutines, an operator, a refusal or a crash | is a recorded Grant attached, and do sessions stay apart? |
| `limits` | `Grants`: half-second ticks with all inputs, TTLs and two configurations, one goroutine; and two goroutines with any fault | is every Grant bounded by its deadline and TTL; does every call return and every item settle? |
| `components` | locks: 3 goroutines, 2 sessions, 3 addresses; server: 3 calls, 2 sweeps; discovery: 2 callers; two pairs of push subscriptions; bao-cred: 2 commands, 3 faults; 2 runs that deliver; plugin: 2 commands, 2 roots, 1 subagent | the safety of each |
| `components_live` | the same components, smaller, and a dashboard stream with a clock that stands still or runs | does what starts end? |
| `inputs` | configurations, tokens, items, listings; all patterns and paths up to 3 segments; all fields, values, environments, flags and items of small alphabets | do the pure parts agree with their references? |
| `streams` | 1 request of 2 items, 1 writer, the sweep, and a client, a dashboard, a long poll or nobody; 2 requests of one item, and a dashboard whose history holds one | is every listener current, every snapshot whole and every expiry announced once? |
| `streams_live` | the same with 1 item | do listeners come to show the final state? |
| `approver` | 2 calls and a stream of 2 sessions; 3 sessions without a clock; one call at a time with 2 Approvers and pushes until all expires | do streams, cookies, tokens and pushes follow the sessions? |
| `elapsed_restore`, `lost_write`, `operator` | expected violations | see Findings |

Bounds. `MaxTime` stops the clock, and what has a deadline starts early enough for the deadline to be reached. Two goroutines are enough for the races of `Grants`, since only two steps ever conflict: a third one either waits for the lock or serves another request. The lock map has three, since an entry can be left, deleted and created again only while a third goroutine comes. Two items are the least that make a partial batch; two faults let a compensation fail too. In `streams` the sweep is late by one tick at most (`MaxLag`), and the clock stops sooner with listeners than without (`Horizon`: 1 with one of any kind, 3 with none in `streams`; `MaxTime` throughout in `streams_live`), because their states multiply; Grants stored after they have expired are therefore checked without listeners only. The second request is there only beside a dashboard that looks at the history: its items are rejected or expire, no query fails, and a `DecidedLimit` of 1 stands for the code's 200, so that an older request, one as old, and none are left out. In `approver` two sessions meet in the scenarios with dashboards and pushes, with one sign-in at a time beside a dashboard, and a third session only in that of the cookie. TTLs are chosen so that Grants elapse at different times, before and after the deadline. One writer and the sweep are two processes that change the store, and listeners do not influence each other, so one of each kind is enough. The alphabets of `inputs` have one letter of each sort the code distinguishes (denied, upper case, separator, quote, digit, blank, ...), and one segment more than the shortest pattern with something before, at and after a `+`. Unbounded counters are bounded by `MaxFaults`, `MaxRuns`, `MaxCalls`, `MaxTokens`, `MaxWire`, `MaxKills` and `MaxChanges`, named in each module.

Deadlock checking is on but where the model may really come to rest: requests, streams and sessions that nobody continues. In `components` only the locks may not rest.

Symmetry is over goroutines, heap addresses, sessions and Approvers, which are interchangeable; runs of liveness properties and of expected violations use none.

What the properties say:

- `LockInv`, `MutualExclusion`, `ImplementsKeyedMutex`, `WaitersEnter` - the lock map. The count equals the users, an entry is the object all its users share, and it exists exactly as long as there are users.
- `ItemsAgreeWithGrants`, `ImplementsLifecycle` - the items (a JSON list that two kinds of transactions replace as a whole) and the rows of `grants` tell the same story; an item leaves "pending" once, with its batch, and never again.
- `RevokedStaysDead` - no session policy has a block for a Grant recorded as revoked, whatever fails or crashes.
- `PolicyMatchesGrants` - when nobody holds the session lock, the live blocks are exactly the active Grants, unless a write ended in doubt, a restore failed, or the process crashed inside the lock, and no later write succeeded. The exceptions are what the code accepts; the run shows there are no others.
- `GrantsAreAttached`, `NoForeignBlocks`, `GrantsAreBounded` - a Grant can be used, by its own session only, and not longer than it was resolved for.
- `LockHeld`, `CallsReturn`, `PendingSettles` - no path keeps a lock; all calls end; all items settle.
- `RecordInv` (which includes `GrantsInv`) - the inductive invariant of the proofs, checked first with faults.
- `ListenersAreCurrent` (`ClientsAreCurrent`, `PollsAreCurrent`, `DashboardsAreCurrent`) - whoever sleeps has seen the last change, or a wake-up is pending or still to be sent; `SnapshotsAreWhole` - no request that was filed before a snapshot is missing from it, but for those that the limit of the history pushes out, and an approval is shown with its Grant; `ExpiriesAreAnnouncedOnce` - the announcing windows tile time although queries fail and the sweep is late; `ListenersConverge` - the liveness side of the three. Each also says what holds of a read or a window in progress, without which it would not be inductive.
- `SessionsInv` (`EndedStreamsAreOver`, `NoMissedDeletion`, `TokensEndWithExchange`, `CookiesAreValid`, and what carries them: `CallsFit`, `NamesAreIssued`, `SessionsAreSecret`) - a stream ends with its own session and sleeps through no deletion of it, an exchanged token is revoked or its failure reported, a browser's cookie names a stored session; `PushesFollowSessions` - a fan-out goes to whoever registered while the session lives, give or take the second within which texts do not sort like times; `DashboardsEndWithSession`.
- `FilingInv`, `PatternsInv`, `CredentialsInv` - what the pure parts answer, against references that are written differently: a pattern as OpenBao reads it, a rule set with unrelated rules taken out or reordered, the shell that reads the text. Of bao-cred's flags, `CredentialsInv` says that `--field`, `--template`, `--output`, `--map` and the command each have a say in an accepted command line (`OutputFlagsHaveASay`); it says nothing of an explicit `--format json` (see Observations), nor of `--timeout`, `--authorizer` and `--quiet`, which only matter to a request and are ignored without `--reason`.
- `ListingsAreTrue`, `ConnectionsArePublic`, `FanoutsSpareTheOthers`, `CleanEndsAnswerEverything`, `StreamsDoNotHoldShutdown`.
- `OutcomesAreTold`, `WaitsAdvance`, `DecisionsArrive`, `DeliveriesAreWhole` - bao-cred. The last says that the file of a run which was not killed is gone or was renamed, but for a run that ended with an error and whose removal the disk refused, and for a power loss that undid the rename or the removal.
- `RootsShareOneToken`, `RevokedTokensStayHome`, `QuietDeletionsRevoke` - the plugin. The last one excuses failures, and a command whose session lookup was answered before the deletion (see Observations).
- `WhatStartsEnds` - a signalled server, a call for the catalog, a fan-out, an interrupted run of bao-cred and a shell command all come to their end.

A property of several named parts is a conjunction in the module that is checked; each part has its comment in the component's module, and a mutant of its own.

Fairness. `SessionLocks`: a goroutine that has the mutex goes on, and one that waits gets it if it becomes free again and again (`sync.Mutex` hands over to starving waiters). `Grants`: the clock ticks; the sweep's ticker fires (`Run`); a goroutine takes its next step, because both the HTTP client and SQLite have deadlines; the session lock is not starved (which `WaitersEnter` shows for the lock map). Nobody is obliged to file, decide or revoke; faults are bounded by `MaxFaults` but never required. `Streams`: goroutines that can run do, and the heartbeat is strongly fair because Go's `select` picks at random among ready cases, so a heartbeat that keeps being due is served however often wake-ups come. `ApproverSessions`: handlers go on; the clock may stand still, but for the question about expiry. `BaoCred`: bao-cred goes on and receives what has arrived; the server's sending of a change is strongly fair because a heartbeat does not keep it from being sent for ever. Neither the overall timeout nor a decision is relied upon. `Server`: only a call that waits and is cancelled must answer; a call at work may hang. `PushFanout`: the clock and the fan-out go on, the DNS and push services need not. `Deliver`: a run goes on, its command need not end. `SessionTokens`: the host and OpenBao answer, with success or failure. `Discovery`: OpenBao answers.

### Findings

- **A restore can fail without a fault** (`elapsed_restore`). README, "Approve": "if storing fails, the policy is rewritten from the stored Grants". The sweep settles the request between the decision's policy write and its transaction; `restorePolicy` reads an active Grant that elapses before the write; OpenBao refuses a policy that has elapsed; the failure is only logged. The block of the Grant that was never stored stays live until its own expiration.
- **A failed write may have been applied** (`lost_write`). README: "If the policy write fails, nothing changes". When the response is lost, `decide` returns without `restorePolicy` and the new blocks stay.
- **An operator's edit may be lost** (`operator`). README: the authorizer "keeps every policy already on the entity". `attachPolicy` reads the list and writes it back.

### Observations

Where the modules follow the code and a text beside it says something else. The properties are stated so that they hold of the code; no run is kept for these.

- `internal/push/push.go:225` says that every stored subscription belongs to a logged-in Approver. A registration that was authorized before a logout, and stored after it, leaves one of a session that is gone (`RegisterPush` and `PutSubscription` around a `Logout`); it is pushed to until that session's expiry, which is what `PushesFollowSessions` bounds.
- `docs/adr/0003-approver-sessions.md:21` says that push subscriptions live as long as the session that registered them. A logout deletes those of every session of its entity (`DropSubscriptions`).
- `internal/store/store.go:268` says that an endpoint is deleted after a permanent rejection by its push service. It is also deleted when its validation fails, a failed DNS lookup included (`Delete`).
- `cmd/bao-cred/utils.go:210` and `:245` discard the error of `os.Remove`. A run whose write fails and whose disk then refuses the removal exits 1 and leaves the temporary file, with the part of the secrets that was written, beside the output; `NothingLeftBehind` names this case.
- `cmd/bao-cred/main.go:344` says that `--field` cannot be combined with `--format`. `--format json --field F` is accepted, since `json` is the default, and prints the field; `--format json --template T` prints the template.
- `README.md:566` says that a dashboard is told of an expiry within about 10 seconds. The first announcement of a process only sets the start of its window, so a Grant that expires before it is announced by nobody; `DashboardsConverge` excuses these (`ExpiredEarly`).
- `README.md:597` says that the Hard Denylist checks the first segment. `deniedSegment` checks every one, as `README.md:24` says.
- `integrations/opencode/README.md:15` says that deleting a root session revokes its token. A command whose session lookup was answered before the deletion mints a token after it, which nothing revokes; `QuietDeletionsRevoke` excuses this race (`raced`).

## Proofs

TLAPS checks every theorem below for all values of the constants: any number of goroutines, sessions, requests, items, streams, browsers, commands, rules, subscriptions and faults, any inputs, batches and configurations, and no bound on the clock but a natural number. The assumptions are the named `ASSUME`s of `SessionLocks`, `Grants`, `Streams`, `ApproverSessions`, `Components`, `Rules`, `Filing` and `PatternPairs`, which say what the constants are (natural numbers, positive timeouts, sets that are not empty, a function `Owner`, values like "nobody" that name nobody) and which TLC evaluates on every run. The components of `Components` state theirs as definitions (`ServerAssumption`, `DiscoveryAssumption`, ...): hypotheses of the theorems about one component, and conjuncts of `ComponentsAssumption`.

| theorem | what it says |
| --- | --- |
| `LockInvHolds`, `MutualExclusionHolds` | counts, entries and owners of the lock map stay consistent; one goroutine per session in the critical section |
| `MapImplementsMutex` | `SessionLocks` implements `KeyedMutex`; this is what allows `Grants` to use `KeyedMutex` |
| `TypeCorrect` | `TypeOK` of `Grants` |
| `GrantsInvHolds` | the inductive invariant of `Grants` without time |
| `LockIsHeld`, `ItemsAlwaysAgree`, `RevocationIsFinal`, `BlocksStayHome`, `RecordedGrantsWork` | `LockHeld`, `ItemsAgreeWithGrants`, `RevokedStaysDead`, `NoForeignBlocks`, `GrantsAreAttached` |
| `LifecycleIsKept` | `Grants` implements `Lifecycle` |
| `RecordInvHolds` | `RecordInv`: what was written, what is about to be written and what is recorded fit together |
| `GrantsStayBounded`, `PoliciesMatch` | `GrantsAreBounded`, `PolicyMatchesGrants` |
| `StreamsInvHolds` | the three invariants of `Streams` together are inductive |
| `ListenersStayCurrent`, `SnapshotsStayWhole`, `ExpiriesStayAnnouncedOnce` | `ListenersAreCurrent`, `SnapshotsAreWhole`, `ExpiriesAreAnnouncedOnce` |
| `SessionsInvHolds`, `PushesFollow` | `SessionsInv`, `PushesFollowSessions` of `ApproverSessions` |
| `CleanEndsAnswer`, `StreamsEndBeforeTheTimeout` | `CleanEndsAnswerEverything`, `StreamsDoNotHoldShutdown` of `Server` |
| `KeysAlwaysShowUp`, `OnlyOpenBaoFails` | `KeysShowUp`, `FailuresAreOpenBaos` of `Discovery` |
| `ConnectionsStayPublic` | `ConnectionsArePublic` of `PushFanout`: connections go to public addresses of hosts in the allowed domains |
| `OthersAreToldAnyway`, `LateChecksDeleteNothing` | `OneFailureStopsNobody`, `TimeoutsDeleteNothing` of `PushFanout` |
| `ExitStatusHolds`, `NewsAndReadsHold` | `ExitStatusIsTrue`, `NewsIsToldOnce`, `ReadsAgainWhenGranted` of `BaoCred` |
| `SnapshotsNeverGoBack`, `BackoffDoubles` | `SnapshotsAdvance`, `BackoffGrows` of `BaoCred` |
| `OutputIsAlwaysWhole`, `LeftoversAreExplained`, `StatusesAreTrue` | `OutputIsWhole`, `NothingLeftBehind`, `StatusTellsDelivery` of `Deliver` |
| `TokensStayAtHome`, `RefreshesAreShared`, `NoCommandStartsRevoked` | `CommandsGetTheirOwnToken`, `OneRefreshAtATime`, `RevokedTokensStayHome` of `SessionTokens` |
| `ShutdownIsClean`, `StreamsGiveWay`, `ListingsStayTrue`, `ConnectionsNeverStray`, `FanoutsAreFair`, `OutcomesStayTold`, `WaitsGoOn`, `DeliveriesStayWhole`, `RootsKeepOneToken`, `NoneStartsRevoked` | the same within `Components`, where the run `components` checks them: `CleanEndsAnswerEverything`, `StreamsDoNotHoldShutdown`, `ListingsAreTrue`, `ConnectionsArePublic`, `FanoutsSpareTheOthers`, `OutcomesAreTold`, `WaitsAdvance`, `DeliveriesAreWhole`, `RootsShareOneToken`, `RevokedTokensStayHome` |
| `TypesStay` | `TypesOK` of `Components`: every component's state stays of its type |
| `MatchIsGlob`, `PatternsStay` | `MatchPattern` is OpenBao's reading of every valid pattern; `PatternsInv` of `PatternPairs` |
| `ResolveGrants` | `Resolve` grants an item exactly when one rule grants it |
| `FilingStays` | `FilingInv` of `Filing`, for any configuration, token and request |

**The argument for the locks.** `MutualExclusion` alone is not inductive: a goroutine that waits for a mutex could be waiting for another object than the one the map holds. `LockInv` says that all users of a session share the entry's object, that the count is the number of users, and that no entry is without users; the proof counts with `FiniteSetTheorems`. `Holder`, the refinement mapping, is the goroutine in the critical section.

**The argument for Grants.** The properties about OpenBao and the store are not inductive either, because what a step writes was computed from reads some steps earlier. `GrantsInv` adds what a goroutine's locals are worth meanwhile:

- `LockHeld` - between lock and unlock nobody else is inside the session's lock. Lemma `Undisturbed` draws the consequence: no step of another goroutine changes the session's policy, Grants, or the goroutine's request.
- `InsertsAreFresh`, `DecidedAreFiled` - filing takes no lock, but it cannot overwrite a request that a decision works on.
- `CopiesAreCurrent` - the copy of the items that `DecideStore` writes back differs from the store only by the batch's verdicts on pending items, *or no item is pending any more*. The second case is the sweep, the only step that changes a request under its lock; `has_pending` in `DecideItems` is what tells the cases apart. `ItemsAgreeWithGrants` and `LifecycleIsKept` depend on it.
- `WantsAreClean` - a policy about to be written has no block of a revoked Grant, of the Grant being revoked, or of another session. Together with `RevokedFirstInOpenBao` (revoke rewrites the policy before it records) it gives `RevokedStaysDead`; `NoForeignBlocks` needs its last part only.
- `AttachedFirst` - the policy is attached before the Grants are recorded; nobody takes it off again (`AttachedStays`), hence `GrantsAreAttached`.

`RecordInv` adds time and the record on top, and needs `GrantsInv` at every step:

- `CopiesAreBounded` - an approval in a goroutine's copy, like one in the store, was decided before the deadline and for no longer than the item was resolved for (`WithinTerms`, which no later step undoes). `GrantsAreBounded` follows when the copy is stored.
- `Fits` - a block of the policy lives exactly as long as the active Grant that records it; blocks that have lapsed and Grants that have expired fit each other, so `Fits` survives the clock. `FitsAhead` is the same of a policy written for a decision that is not stored yet.
- `WantsFit` - what a goroutine is about to write fits the record as it will be once the goroutine has stored its part. `PoliciesFit` - what OpenBao has fits the record where nobody is in the lock, and the goroutine's own part where somebody is, unless the session is in `diverged` or about to be restored. `PolicyMatchesGrants` is its case of a free lock.

The proofs are laid out accordingly. `GrantsSteps_proofs` has the types, one lemma per step with its effect on the locals and the shared state, then the frame lemmas (`InsideEffect`, `Undisturbed`, `SweepEffect`). `GrantsSafety_proofs` has one lemma per conjunct of the invariants, the theorems, and one lemma per store transaction for the refinement: inserting is `File`, storing a decision is `DecideBatch`, storing a revocation is `RevokeItem`, the sweep is `Expire`, and every other step leaves the tables alone.

**The argument for Streams.** A listener that sleeps has seen the last change or a flag is up; that is not inductive, because a change is committed first and published later, and a listener reads before it sleeps. `PublishesAreDue` keeps the writer that still has to publish, and the three `...AreCurrent` say of a listener that has read but not slept that any change since then is still to be published, or already is and waits in its channel. Lemma `Flags` has what a publish does to all channels at once. For snapshots, a request is filed as a whole (`FiledAsAWhole`) and an item only ever leaves the pending list for the decided one (`RequestsMove`, `SettledStays`), so a dashboard that reads them in that order misses none but what the limit pushes out: a list cut at the limit is full, and of requests at least as new (`PushedOut`), which stays true because a request's creation time never changes once it is filed (`HistoryIs`). A dashboard is current if it shows one of the lists the query may give. Approvals show their Grant because the active list is read last. For expiries, the windows of successive announcements follow each other (`WindowStays`, `WindowOpens`, `WindowMoves` are the only ways they change), also when a query fails, and a Grant's expiry falls into exactly one.

**The argument for ApproverSessions.** `CookiesAreValid` and `NoMissedDeletion` are carried by three facts: a call's locals fit its program counter (`CallsFit`); every session named in a cookie, call, stream or subscription was issued (`NamesAreIssued`); and a session whose answer is not sent yet is known to its own call only (`SessionsAreSecret`). A live session stays live until its deadline passes or a call that holds its cookie deletes it, on the call's way to wake the streams; the sweep takes only expired ones (`StoreStays`); `EndingStays` follows a call that ends a session until the browser hears of it. `PushesFollowSessions` is arithmetic: `TextRank` orders two times that are a second apart as the times are, whatever their fractions (`TextsSortAfterASecond`), because the seconds have a fixed width and only the fraction's length varies.

**The argument for Server.** `StreamsDoNotHoldShutdown` is about time: `ShutdownInv` says that once the clock has gone on after the signal, every context is cancelled and only calls at work still run, since cancelling and answering a cancelled call take no time in the model (`Urgent`). The timeout is positive, so at the deadline the clock has gone on. `NilInv` and `CutInv` carry the other theorem from the end of Shutdown to the end of the process.

**The argument for Discovery.** `CatalogInv` says that a kept listing has every key older than the moment it *began*, and that a goroutine which is done took a listing that began less than the TTL before its call. The order in which listings replace each other then does not matter.

**The argument for PushFanout.** `FanInv`: an endpoint that is fine was told, is being tried, waits its turn, or is overdue; only what passed the allowlist is tried; and one that is overdue is to be deleted only past the deadline, where the deletion's context has ended too. `ConnectionsStayPublic` compares two readings of a host name: the code lowers it, trims a dot and compares text (`allowedEndpoint`), the property compares labels from the right (`InDomain`), whatever their case. `AllowedIsInDomain` joins them: the text after a dot has the last labels of the whole (`LabelsAfterDot`), and writing letters small changes no label but its letters (`LabelsIgnoreCase`). Both are proved by induction over the length of the name; `PushFanoutAssumption` says of the external functions only what Go's do: `Lower` works letter by letter and leaves dots and spaces alone, and hosts are texts.

**The argument for BaoCred.** `WaitInv` orders three views of a request: what bao-cred knows, the snapshots on the wire in their order, and what the request is now; each can only have become the next (`Comes`). What bao-cred told ends with what it knows. The exit status is computed from what is known, and is true of the request because outcomes, once there, stay.

**The argument for Deliver.** `RunInv` says how much of a run's file is written and synced at each step of `writeFile`; the file is whole and synced before the rename, so that neither a kill nor a power loss finds a part of it under the output's name. For `NothingLeftBehind` it adds that a run with an error never renamed, that one which renamed ends with 0, and that a refused removal belongs to a run with an error, so that a run without one has left nothing. `StatusInv` follows a run's file or child to the status it exits with.

**The argument for SessionTokens.** `PluginInv`: the token held for a root is one of its own that nobody revokes, and one that is being revoked is held no longer, because the plugin forgets it before it asks; a refresh is the pending one of its root, started from the token held, and its command waits for it. A command therefore starts with a live token of its own root.

**The argument for Components.** A behaviour of `AllSpec` chooses a component; it satisfies that component's own `Spec`, and of every other one it stays as it began (`ShutdownOrServing`, `CatalogOrUnused`, ...), where the properties hold trivially. So the theorems about one component carry over. `TypesOK` is proved the other way round: `AllTyped` says of the component that was chosen that its own inductive invariant holds, and that all of it keeps its type. The types are not inductive alone where they say more than a range: that a token held was issued (`PluginInv`) and is dated no later than now (`TokensArePast`), and that the command a waiter waits for is the one refreshing its root (`PendingsFit`).

**The argument for patterns.** `MatchPattern` decides in one of three ways, by comparing segments, texts or prefixes of texts, while OpenBao reads the pattern letter by letter. Lemma `MatchIsFits` reduces the three to one comparison of segments (`SegmentFits`). The reference, `TextMatches`, computes from the back which places of the path's text match the rest of the pattern's (`IsMatched`). Four lemmas, one for each kind of segment (a "+" or a literal, inside or at the end: `PlusStep`, `LiteralStep`, `PlusEnd`, `LiteralEnd`), say what that is at the beginning of a segment, and an induction over the segments from the last to the first, `ReadsFits`, joins them into `MatchIsGlob`. It needs to know where the segments lie in the texts (`Spells`, `PatternSpells`, by induction over the segments joined so far), and that a letter is no slash. For the denylist, `AcceptedNameNothing` and `RefusedMatchDenied` are the two directions of `overlapsDenylist`: the second gives the path that a refused pattern would have let through.

**The argument for Filing.** Each call's answer is judged right after it, so what carries from one call to the next is the configuration: `ConfigFits` says that what `Load` accepted has rules, durations and login methods within what it validated, and that the Requesters came from one file. `FilingIInv` adds it to `FilingInv`; `Grantables`, `Authenticate` and `CreateRequest` then have one lemma each. `ResolveGrants` does most of the work: the item that `BestRule` picks is granted exactly when *some* single rule grants it, because the best covering rule has the largest cap (`BestIsBest`). That the other rules and their order do not matter follows, and by `MatchIsGlob` what is granted is granted on OpenBao's reading. `FirstOfItsKind` goes from "refused as a repetition" to the first item alike, which is not. The assumptions say that a segment has no slash, that denied segments are lower case and not empty as a set, that capabilities spell themselves, that the built-in TTLs are at least a second, and that OpenBao mounts nothing below another mount, which it refuses to do. Without the last, a token of a longer mount would satisfy a Requester of a shorter one, since `matches` compares prefixes.

**Model-checked only.** All liveness properties, since the prover handles neither fairness nor ENABLED; and `CredentialsInv`, where the readers and writers of `Credentials` and the references of `MCCredentials` (a shell, a dotenv reader) are automata over a text: each would need an induction of its own over the characters. The library's induction theorems take an operator as a parameter and are of no use to the provers; the inductions above go through a least counterexample instead (`Smaller`, `LeastNumber` and `Induction`, in `Services_proofs` and `Filing_proofs`).

## Not modelled

- The approver PWA: React rendering over snapshots. What it shows is what `WatchEvents` sent last, which is in `Streams`.
- Conversion between protobuf messages and Go values, error texts, reasons, logging, static files and routing: they keep no state.
- Encryption at rest and of push payloads, TLS, HCL parsing: libraries, used as functions that succeed or fail.
- A policy write that times out and is applied by OpenBao after a later write of the same session: it needs a queue of writes in flight, which makes the instances of `Grants` too large.
- The plugin never compares its tokens with the sessions that exist, so deletions during an outage of the event stream are not seen; `SessionTokens` has the outage, and no property holds of it.
- Generated code, deployment files and end-to-end tests are not part of the program's logic.

`PROJECT.json` lists each component with its status, and the hazards with the properties that watch them.

## Plan

1. An abstract specification of what a listener is promised, implemented by `Streams`; and of an atomic replacement, implemented by `Deliver`.
2. `Resolves` of `Grants` implemented by `Resolve`, now that `ResolveGrants` says when it grants.
3. `CredentialsInv` for any text, one automaton at a time, starting with `renderShell`.
