----------------------------- MODULE PushFanout -----------------------------
(***************************************************************************)
(* Telling the Approvers' browsers about a new Grant Request: one fan-out  *)
(* per request, in the background, over the stored push subscriptions.     *)
(* Each endpoint is validated, its host is resolved again when the sender  *)
(* dials, and the DNS may answer differently in between.  All of a fan-out *)
(* shares one deadline, the deletions included.                            *)
(***************************************************************************)
EXTENDS Integers, FiniteSets, SequencesExt

CONSTANTS Registrations,  \* sets of [host : text, plain : BOOLEAN]; plain: https, port 443, no user
          RawSuffixes,    \* web_push.allowed_host_suffixes
          Lower,          \* [character -> lower case]
          Fanouts,
          HttpTimeout, PushTimeout,
          MaxTime, MaxChanges      \* bounds: the clock, answers the DNS changes

PushFanoutAssumption ==
    /\ HttpTimeout \in Nat \ {0} /\ PushTimeout \in Nat \ {0}
    /\ MaxTime \in Nat /\ MaxChanges \in Nat
    /\ "." \in DOMAIN Lower /\ Lower \in [DOMAIN Lower -> DOMAIN Lower]
    /\ \A ch \in DOMAIN Lower : Lower[ch] = "." <=> ch = "."
    /\ \A registered \in Registrations : \A e \in registered : e.host \in Seq(DOMAIN Lower)
    /\ RawSuffixes \subseteq Seq(DOMAIN Lower)

VARIABLES now,
          dns,            \* [registered endpoints -> what the host resolves to]
          service,        \* [registered endpoints -> what the push service does]
          changed,        \* endpoints whose DNS answer changed
          stored,         \* push subscriptions, by endpoint
          fan,            \* [Fanouts -> its state]
          connections     \* [endpoint, address] of every connection opened

vars == <<now, dns, service, changed, stored, fan, connections>>

\* A host that resolves to a private address, or to none; a resolver that does
\* not answer; a push service whose answer is an error, or a redirect.
Answers == {"public", "private", "silent"}
Services == {"ok", "gone", "error", "silent"}
Endpoints == UNION Registrations
NoEndpoint == [host |-> <<>>, plain |-> FALSE]
NoFan == [pc |-> "idle", todo |-> {}, at |-> NoEndpoint, all |-> {}, deadline |-> 0, sendBy |-> 0,
          delivered |-> {}, overdue |-> {}]

TypeOK ==
    /\ now \in 0..MaxTime
    /\ DOMAIN dns \in Registrations
    /\ dns \in [DOMAIN dns -> Answers] /\ service \in [DOMAIN dns -> Services]
    /\ changed \subseteq DOMAIN dns /\ stored \subseteq DOMAIN dns
    /\ connections \subseteq [endpoint : Endpoints, address : Answers]
    /\ \A f \in Fanouts :
          /\ fan[f].pc \in {"idle", "next", "lookup", "delete", "dial", "answer", "done"}
          /\ fan[f].todo \subseteq fan[f].all /\ fan[f].all \subseteq Endpoints
          /\ fan[f].at \in Endpoints \cup {NoEndpoint}
          /\ fan[f].deadline \in 0..MaxTime
          /\ fan[f].pc \in {"dial", "answer"} => fan[f].sendBy <= fan[f].deadline
          /\ fan[f].delivered \subseteq fan[f].all /\ fan[f].overdue \subseteq fan[f].all

\* What is stored was valid when it was registered, which may have been before
\* a restart with other settings.
Init ==
    /\ now = 0
    /\ stored \in Registrations
    /\ dns \in [stored -> {"public", "private"}] /\ service \in [stored -> Services]
    /\ changed = {}
    /\ fan = [f \in Fanouts |-> NoFan]
    /\ connections = {}

-----------------------------------------------------------------------------
(* The allowlist *)

ToLower(text) == [i \in DOMAIN text |-> Lower[text[i]]]
TrimSpace(text) ==
    LET Solid == {i \in DOMAIN text : text[i] # " "}
    IN  IF Solid = {} THEN <<>>
        ELSE SubSeq(text, CHOOSE i \in Solid : \A j \in Solid : i <= j,
                          CHOOSE i \in Solid : \A j \in Solid : i >= j)
TrimPrefix(text, ch) == IF text # <<>> /\ text[1] = ch THEN Tail(text) ELSE text
TrimSuffix(text, ch) == IF text # <<>> /\ Last(text) = ch THEN Front(text) ELSE text
allowedSuffixes == {ToLower(TrimSpace(TrimPrefix(raw, "."))) : raw \in RawSuffixes} \ {<<>>}
allowedHost(host) ==
    \E suffix \in allowedSuffixes : host = suffix \/ IsSuffix(<<".">> \o suffix, host)
Normalized(host) == ToLower(TrimSuffix(host, "."))
isPublicIP(address) == address = "public"

-----------------------------------------------------------------------------
Set(f, record) == fan' = [fan EXCEPT ![f] = record]
Expired(f) == now >= fan[f].deadline
Subscriptions == UNCHANGED stored
Wires == UNCHANGED connections
Outside == UNCHANGED <<now, dns, service, changed>>

\* RequestChanged: a goroutine of its own, with a context the caller's end does
\* not cancel.
Start(f) ==
    /\ fan[f].pc = "idle" /\ now + PushTimeout <= MaxTime
    /\ Set(f, [NoFan EXCEPT !.pc = "next", !.todo = stored, !.all = stored, !.deadline = now + PushTimeout])
    /\ Subscriptions /\ Wires /\ Outside
\* Subscriptions fails: nobody is told, and RequestChanged logs it.
StartFails(f) ==
    /\ fan[f].pc = "idle" /\ now + PushTimeout <= MaxTime
    /\ Set(f, [NoFan EXCEPT !.pc = "done", !.deadline = now + PushTimeout])
    /\ Subscriptions /\ Wires /\ Outside

\* ValidateEndpoint up to its lookup.
Pick(f) ==
    /\ fan[f].pc = "next"
    /\ \E e \in fan[f].todo :
          Set(f, [fan[f] EXCEPT !.at = e, !.todo = @ \ {e},
                  !.pc = IF e.plain /\ allowedHost(Normalized(e.host)) THEN "lookup" ELSE "delete"])
    /\ Subscriptions /\ Wires /\ Outside
Finish(f) ==
    /\ fan[f].pc = "next" /\ fan[f].todo = {}
    /\ Set(f, [fan[f] EXCEPT !.pc = "done"])
    /\ Subscriptions /\ Wires /\ Outside
\* Its lookup, and the start of the request; both end with the fan-out's time.
Lookup(f) ==
    /\ fan[f].pc = "lookup"
    /\ Set(f, IF ~Expired(f) /\ isPublicIP(dns[fan[f].at])
              THEN [fan[f] EXCEPT !.pc = "dial",
                                  !.sendBy = IF now + HttpTimeout < fan[f].deadline THEN now + HttpTimeout
                                             ELSE fan[f].deadline]
              ELSE [fan[f] EXCEPT !.pc = "delete", !.overdue = IF Expired(f) THEN @ \cup {fan[f].at} ELSE @])
    /\ Subscriptions /\ Wires /\ Outside
\* Mutant: deletions have a context of their own.
DeleteAnyway(f) ==
    /\ fan[f].pc = "delete"
    /\ stored' = stored \ {fan[f].at}
    /\ Set(f, [fan[f] EXCEPT !.pc = "next"])
    /\ Wires /\ Outside
\* DeleteSubscription, with the fan-out's context: nothing once that is over, or
\* when the database fails; either way the fan-out goes on.
Delete(f) ==
    /\ fan[f].pc = "delete"
    /\ stored' \in {stored} \cup (IF Expired(f) THEN {} ELSE {stored \ {fan[f].at}})
    /\ Set(f, [fan[f] EXCEPT !.pc = "next"])
    /\ Wires /\ Outside
SendFails(f) == Set(f, [fan[f] EXCEPT !.pc = "next"]) /\ Subscriptions /\ Outside
\* Mutant: the dialer's own lookup, unchecked.
DialUnchecked(f) ==
    /\ fan[f].pc = "dial" /\ now < fan[f].sendBy
    /\ dns[fan[f].at] # "silent"
    /\ connections' = connections \cup {[endpoint |-> fan[f].at, address |-> dns[fan[f].at]]}
    /\ Set(f, [fan[f] EXCEPT !.pc = "answer"])
    /\ Subscriptions /\ Outside
\* dialContext: the host is checked and resolved again, and the address that
\* was checked is the one dialed.
Dial(f) ==
    /\ fan[f].pc = "dial" /\ now < fan[f].sendBy
    /\ dns[fan[f].at] # "silent"
    /\ IF allowedHost(Normalized(fan[f].at.host)) /\ isPublicIP(dns[fan[f].at])
       THEN /\ connections' = connections \cup {[endpoint |-> fan[f].at, address |-> dns[fan[f].at]]}
            /\ Set(f, [fan[f] EXCEPT !.pc = "answer"])
            /\ Subscriptions /\ Outside
       ELSE SendFails(f) /\ Wires
\* Mutant: an error ends the fan-out.
AnswerReturns(f) ==
    /\ fan[f].pc = "answer" /\ now < fan[f].sendBy
    /\ service[fan[f].at] # "silent"
    /\ Set(f, CASE service[fan[f].at] = "ok" -> [fan[f] EXCEPT !.pc = "next", !.delivered = @ \cup {fan[f].at}]
                [] service[fan[f].at] = "gone" -> [fan[f] EXCEPT !.pc = "delete"]
                [] OTHER -> [fan[f] EXCEPT !.pc = "done"])
    /\ Subscriptions /\ Wires /\ Outside
\* 404 and 410 delete the subscription; a redirect is an answer like any error.
Answer(f) ==
    /\ fan[f].pc = "answer" /\ now < fan[f].sendBy
    /\ service[fan[f].at] # "silent"
    /\ Set(f, CASE service[fan[f].at] = "ok" -> [fan[f] EXCEPT !.pc = "next", !.delivered = @ \cup {fan[f].at}]
                [] service[fan[f].at] = "gone" -> [fan[f] EXCEPT !.pc = "delete"]
                [] OTHER -> [fan[f] EXCEPT !.pc = "next"])
    /\ Subscriptions /\ Wires /\ Outside
\* Mutant: a client without a timeout, and no context.
SendTimeoutNever(f) == FALSE /\ fan[f].pc = "answer" /\ UNCHANGED vars
\* The client's timeout, or the end of the fan-out's time.
SendTimeout(f) ==
    /\ fan[f].pc \in {"dial", "answer"} /\ now >= fan[f].sendBy
    /\ Set(f, [fan[f] EXCEPT !.pc = "next", !.overdue = @ \cup {fan[f].at}])
    /\ Subscriptions /\ Wires /\ Outside

DnsChanges(e) ==
    /\ Cardinality(changed) < MaxChanges
    /\ \E a \in Answers \ {dns[e]} : dns' = [dns EXCEPT ![e] = a]
    /\ changed' = changed \cup {e}
    /\ UNCHANGED <<now, service, stored, fan, connections>>
Tick ==
    /\ now < MaxTime /\ now' = now + 1
    /\ UNCHANGED <<dns, service, changed, stored, fan, connections>>

FanStep(f) ==
    \/ Pick(f) \/ Finish(f) \/ Lookup(f) \/ Delete(f) \/ Dial(f) \/ Answer(f) \/ SendTimeout(f)
Next ==
    \/ \E f \in Fanouts : Start(f) \/ StartFails(f) \/ FanStep(f)
    \/ \E e \in DOMAIN dns : DnsChanges(e)
    \/ Tick
Spec == Init /\ [][Next]_vars
Fairness == WF_vars(Tick) /\ \A f \in Fanouts : WF_vars(FanStep(f))
FairSpec == Spec /\ Fairness

-----------------------------------------------------------------------------
\* A host belongs to an allowed domain when the domain's labels are its last
\* ones, whatever its case and with or without the root's dot.
Labels(text) ==
    LET labels[n \in 0..Len(text)] ==
          IF n = 0 THEN <<<<>>>>
          ELSE IF text[n] = "." THEN Append(labels[n - 1], <<>>)
          ELSE [labels[n - 1] EXCEPT ![Len(labels[n - 1])] = Append(@, Lower[text[n]])]
    IN  labels[Len(text)]
Domains == {TrimSpace(TrimPrefix(raw, ".")) : raw \in RawSuffixes} \ {<<>>}
InDomain(host, domain) == IsSuffix(Labels(domain), Labels(TrimSuffix(host, ".")))

\* Connections are only ever opened to public addresses of hosts in the allowed
\* domains, although the DNS may change its answer after the validation
\* (dialContext: pinned dialing).
ConnectionsArePublic ==
    \A c \in connections :
        /\ c.address = "public"
        /\ c.endpoint.plain
        /\ \E domain \in Domains : InDomain(c.endpoint.host, domain)

\* A subscription is only deleted for what its endpoint was found to be, never
\* because the fan-out ran out of time.
TimeoutsDeleteNothing ==
    [][\A f \in Fanouts : fan[f].pc = "delete" /\ fan'[f].pc # "delete" /\ fan[f].at \in fan[f].overdue =>
          stored' = stored]_vars

\* What goes wrong with one subscription takes nothing from the others: every
\* browser whose endpoint is fine got its push by the end, unless the time of
\* the fan-out or of that one request ran out.
OneFailureStopsNobody ==
    \A f \in Fanouts : fan[f].pc = "done" =>
        \A e \in fan[f].all \ (fan[f].overdue \cup changed) :
            /\ e.plain /\ allowedHost(Normalized(e.host))
            /\ dns[e] = "public" /\ service[e] = "ok"
            => e \in fan[f].delivered

\* Every fan-out ends, whatever the DNS and the push services do.
FanoutsEnd == \A f \in Fanouts : fan[f].pc # "idle" ~> fan[f].pc = "done"
=============================================================================
