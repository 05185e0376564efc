------------------------------- MODULE Server -------------------------------
(***************************************************************************)
(* The server process from its start to its end: calls come in while it    *)
(* listens; a signal, or a listener that fails, ends it.  After a signal    *)
(* Shutdown refuses new calls, cancels the contexts of the running ones    *)
(* and waits for them, for a limited time; then the database is closed.    *)
(* The sweeps run beside the calls and nobody waits for them.              *)
(***************************************************************************)
EXTENDS Integers, FiniteSets

CONSTANTS Calls,
          Sweeps,          \* grantService.Run and sessionSweeper
          ShutdownTimeout,
          MaxTime          \* bound: the clock

ServerAssumption == ShutdownTimeout \in Nat \ {0} /\ MaxTime \in Nat

VARIABLES now,
          phase,           \* of run: "serving", "shutdown", "returned"; then "over"
          deadline,        \* of Shutdown
          rootCancelled,   \* the sweeps' context
          base,            \* the context of all calls; "ending" until OnShutdown runs
          kind,            \* [Calls -> what a call waits for]
          call,            \* [Calls -> "none", "running", "answered", "cut"]
          sweep,           \* [Sweeps -> "waiting", "working", "ended"]
          database,        \* whether it is open
          result           \* of run

vars == <<now, phase, deadline, rootCancelled, base, kind, call, sweep, database, result>>

Kinds == {"work", "wait"}   \* a unary call at work; a long poll or a stream
TypeOK ==
    /\ now \in 0..MaxTime /\ deadline \in 0..MaxTime
    /\ phase \in {"serving", "shutdown", "returned", "over"}
    /\ rootCancelled \in BOOLEAN /\ base \in {"live", "ending", "cancelled"} /\ database \in BOOLEAN
    /\ kind \in [Calls -> Kinds]
    /\ call \in [Calls -> {"none", "running", "answered", "cut"}]
    /\ sweep \in [Sweeps -> {"waiting", "working", "ended", "cut"}]
    /\ result \in {"none", "nil", "error"}
    /\ result # "none" <=> phase \in {"returned", "over"}
    /\ ~database <=> phase = "over"

Init ==
    /\ now = 0 /\ deadline = 0 /\ phase = "serving"
    /\ rootCancelled = FALSE /\ base = "live" /\ database = TRUE
    /\ kind \in [Calls -> Kinds]
    /\ call = [c \in Calls |-> "none"]
    /\ sweep = [s \in Sweeps |-> "waiting"]
    /\ result = "none"

-----------------------------------------------------------------------------
Running == {c \in Calls : call[c] = "running"}
CallsKept == UNCHANGED <<kind, call, sweep>>
RunKept == UNCHANGED <<now, phase, deadline, rootCancelled, base, database, result>>

\* A call is accepted while the server listens; its context comes from
\* BaseContext.
Accept(c) ==
    /\ phase = "serving" /\ call[c] = "none"
    /\ call' = [call EXCEPT ![c] = "running"]
    /\ UNCHANGED <<kind, sweep>> /\ RunKept
\* A call at work answers when it is done, be it with the error of a cancelled
\* context; one that waits answers for news or when its context is cancelled.
Answer(c) ==
    /\ call[c] = "running" /\ phase # "over"
    /\ call' = [call EXCEPT ![c] = "answered"]
    /\ UNCHANGED <<kind, sweep>> /\ RunKept
SweepStarts(s) ==
    /\ phase # "over" /\ sweep[s] = "waiting" /\ ~rootCancelled
    /\ sweep' = [sweep EXCEPT ![s] = "working"]
    /\ UNCHANGED <<kind, call>> /\ RunKept
SweepEnds(s) ==
    /\ phase # "over"
    /\ \/ sweep[s] = "working" /\ sweep' = [sweep EXCEPT ![s] = "waiting"]
       \/ sweep[s] = "waiting" /\ rootCancelled /\ sweep' = [sweep EXCEPT ![s] = "ended"]
    /\ UNCHANGED <<kind, call>> /\ RunKept

-----------------------------------------------------------------------------
\* SIGINT or SIGTERM: the select of run goes on with Shutdown, which closes
\* the listener.  A second signal changes nothing.
Signal ==
    /\ phase = "serving" /\ now + ShutdownTimeout <= MaxTime
    /\ phase' = "shutdown" /\ rootCancelled' = TRUE /\ base' = "ending"
    /\ deadline' = now + ShutdownTimeout
    /\ UNCHANGED <<now, database, result>> /\ CallsKept
\* Mutant: no RegisterOnShutdown.
OnShutdownNever ==
    /\ base = "ending" /\ base' = "live"
    /\ UNCHANGED <<now, phase, deadline, rootCancelled, database, result>> /\ CallsKept
\* RegisterOnShutdown(cancel), in a goroutine of its own.
OnShutdown ==
    /\ phase # "over" /\ base = "ending" /\ base' = "cancelled"
    /\ UNCHANGED <<now, phase, deadline, rootCancelled, database, result>> /\ CallsKept
Return(r) ==
    /\ phase' = "returned" /\ result' = r
    /\ UNCHANGED <<now, deadline, base, database>> /\ CallsKept
\* Mutant: Close instead of Shutdown.
ShutdownEndsAtOnce == phase = "shutdown" /\ Return("nil") /\ UNCHANGED rootCancelled
ShutdownEnds == phase = "shutdown" /\ Running = {} /\ Return("nil") /\ UNCHANGED rootCancelled
\* Mutant: Shutdown with a context that never ends.
ShutdownTimesOutNever == phase = "shutdown" /\ FALSE /\ UNCHANGED vars
ShutdownTimesOut ==
    phase = "shutdown" /\ now >= deadline /\ Running # {} /\ Return("error") /\ UNCHANGED rootCancelled
ListenFails == phase = "serving" /\ Return("error") /\ UNCHANGED rootCancelled
\* The deferred calls, and the end of the process with what still runs in it.
Close ==
    /\ phase = "returned" /\ phase' = "over" /\ database' = FALSE
    /\ rootCancelled' = TRUE
    /\ call' = [c \in Calls |-> IF call[c] = "running" THEN "cut" ELSE call[c]]
    /\ sweep' = [s \in Sweeps |-> IF sweep[s] = "working" THEN "cut" ELSE sweep[s]]
    /\ UNCHANGED <<now, deadline, base, result, kind>>

\* What only has to react takes no time: the goroutine that cancels, a call
\* that waits once its context is cancelled, the end of run.
Urgent ==
    \/ base = "ending"
    \/ base = "cancelled" /\ \E c \in Running : kind[c] = "wait"
    \/ phase = "shutdown" /\ Running = {}
    \/ phase = "returned"
Tick ==
    /\ now < MaxTime /\ ~Urgent
    /\ phase = "shutdown" => now < deadline
    /\ now' = now + 1
    /\ UNCHANGED <<phase, deadline, rootCancelled, base, database, result>> /\ CallsKept

Run == OnShutdown \/ ShutdownEnds \/ ShutdownTimesOut \/ Close
Next ==
    \/ Signal \/ ListenFails \/ Run \/ Tick
    \/ \E c \in Calls : Accept(c) \/ Answer(c)
    \/ \E s \in Sweeps : SweepStarts(s) \/ SweepEnds(s)
Spec == Init /\ [][Next]_vars
\* Of the calls, only one that waits and is cancelled must answer.
Fairness ==
    /\ WF_vars(Run) /\ WF_vars(Tick)
    /\ \A c \in Calls : WF_vars(base = "cancelled" /\ kind[c] = "wait" /\ Answer(c))
FairSpec == Spec /\ Fairness

-----------------------------------------------------------------------------
\* A server that ends without an error has answered every call it accepted.
CleanEndsAnswerEverything ==
    phase = "over" /\ result = "nil" => \A c \in Calls : call[c] \in {"none", "answered"}

\* Streams and long polls never make Shutdown time out (newHTTPServer): only a
\* call at work does.
StreamsDoNotHoldShutdown ==
    [][phase = "shutdown" /\ result' = "error" => \E c \in Running : kind[c] = "work"]_vars

\* A signal ends the process, whatever its calls are doing.
SignalsEnd == phase = "shutdown" ~> phase = "over"
=============================================================================
