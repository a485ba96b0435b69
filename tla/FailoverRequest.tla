--------------------------- MODULE FailoverRequest ---------------------------
(***************************************************************************)
(* A request's way through the gateway, composed with the circuit breaker  *)
(* registry: admission and drain (gateway/ingress.py), the proxy call that *)
(* leases a router and answers the client (service.py, runtime.py), the    *)
(* primary and backup attempts (router.py, attempts.py, failures.py), the  *)
(* commit of one answer (commit.py) and the models probe that shares the   *)
(* registry with the requests (probe_scheduler.py).                        *)
(*                                                                         *)
(* Handlers are coroutines; the registry's lock is what orders them here,  *)
(* so a step of a request is one call of the registry or one await.        *)
(***************************************************************************)
EXTENDS CircuitBreaker

CONSTANTS
    Requests,        \* handlers of POST /v1/responses
    Probes,          \* calls of the probe scheduler
    PrimaryKeys,     \* the keys whose route_role is primary
    MaxConcurrent,   \* max_concurrent_requests
    AllowAutoRetest, \* probe_policy.allow_action_required_auto_retest
    Risks,           \* bound: values of has_server_side_tool_risk
    UpstreamEnds     \* bound: the outcomes of an attempt that occur

ASSUME RequestAssumption ==
    /\ Requests \cap Probes = {} /\ Requests \cup Probes \subseteq Attempts
    /\ PrimaryKeys \subseteq Keys
    /\ MaxConcurrent \in Nat \ {0}
    /\ AllowAutoRetest \in BOOLEAN
    /\ Risks \subseteq BOOLEAN

VARIABLES
    req,          \* the state of each handler
    inflight,     \* _active_requests
    accepting,    \* _accepting
    drained,      \* the _drained event is set
    probe         \* the state of each probe

gateVars == <<req, inflight, accepting, drained, probe>>
allVars  == <<vars, gateVars>>

-----------------------------------------------------------------------------
(* Data *)

IsPrimary(v) == v.key \in PrimaryKeys

\* A failover group has one route of each role.
IsGroup(regs) ==
    \E p, b \in DOMAIN regs : /\ DOMAIN regs = {p, b}
                              /\ IsPrimary(p) /\ ~IsPrimary(b)

\* How SingleRouteAttemptRunner.run ends.  "auth" is 401, 403 and the 404 an
\* adapter marks; "server_error" the temporary 5xx; "client_error" any other
\* 4xx or status; "local" a response over the size limit.
Outcomes == {"complete", "cancelled", "auth", "rate_limited", "server_error",
             "client_error", "timeout", "transport", "protocol", "local"}

\* Had the request body begun to be written?  An answer proves it had.
Endings == [end : Outcomes, started : {TRUE}]
           \cup [end : {"cancelled", "timeout", "transport", "protocol"},
                 started : {FALSE}]

\* FailureClassifier.classify
RetryOnBackup(e) ==
    e.end \in {"auth", "rate_limited", "server_error", "timeout", "transport",
               "protocol"}
BreakerKind == [end \in {"auth", "rate_limited", "server_error", "timeout",
                         "transport", "protocol"} |->
    CASE end = "auth" -> "action_required"
      [] end \in {"rate_limited", "protocol"} -> end
      [] OTHER -> "temporary"]

\* Faulty variants for the mutation runs are named Bad..., as in CircuitBreaker.
BadSideEffects(e) == e.started /\ e.end = "server_error"
BadChargeUncertain(e) == e.started /\ e.end \in {"transport", "protocol"}

\* AttemptFailure.possible_server_side_effects and possible_double_charge
SideEffects(e) ==
    e.started /\ e.end \in {"server_error", "timeout", "transport", "protocol"}
ChargeUncertain(e) ==
    \/ e.end = "timeout"
    \/ e.started /\ e.end \in {"transport", "protocol"}

\* What the upstream may really have done with an attempt that ended so: an
\* error below 500 refuses the request, anything else may follow its
\* execution.  The gateway cannot see this; the properties compare with it.
MayHaveRun(e) ==
    e.started /\ e.end \notin {"auth", "rate_limited", "client_error"}

NotEnded == [end |-> "none", started |-> FALSE]
NotSent  == [end |-> "cancelled", started |-> FALSE]

Idle == [pc |-> "idle", cancelled |-> FALSE, risk |-> FALSE, versions |-> {},
         plan |-> << >>, tickets |-> {}, ending |-> NotEnded,
         tried |-> << >>, ran |-> {}, charge |-> FALSE, double |-> FALSE,
         verdict |-> "none", commit |-> "uncommitted"]

Alive(r) == up /\ req[r].pc # "idle"
At(r, pc) == up /\ req[r].pc = pc

\* Handler r moves on, and nothing else at the gateway.
Step(r, new) ==
    /\ req' = [req EXCEPT ![r] = new]
    /\ UNCHANGED <<inflight, accepting, drained, probe>>

\* router.execute came to its verdict, or raised: its finally block is next.
\* What it knew of a double charge is lost with an exception; the error the
\* service then commits says there was none.
Ended(q, v) == [q EXCEPT !.pc = "cleanup", !.verdict = v, !.double = @ /\ v # "error"]
Verdict(r, v) == Step(r, Ended(req[r], v))

-----------------------------------------------------------------------------
(* Admission and drain *)

\* The bounds on tickets and epochs allow n more tickets besides those the
\* running handlers may still take: they never stop one half way.
WithinBounds(n) ==
    /\ leaseSeq + 2 * inflight + n <= MaxLeases
    /\ \A v \in Live : routes[v].epoch < MaxEpoch

\* _try_acquire_request; a refusal answers 503 and holds nothing.  A request
\* unauthorized or of another media type is answered from its headers.
Admit(r) ==
    /\ up /\ req[r].pc = "idle"
    /\ accepting /\ inflight < MaxConcurrent
    /\ WithinBounds(2)
    /\ \/ \E risk \in Risks :
             req' = [req EXCEPT ![r] = [Idle EXCEPT !.pc = "reading", !.risk = risk]]
       \/ req' = [req EXCEPT ![r] = [Idle EXCEPT !.pc = "commit", !.verdict = "error"]]
    /\ inflight' = inflight + 1
    /\ drained' = FALSE
    /\ UNCHANGED <<accepting, probe>> /\ UNCHANGED vars

\* _monitor_disconnect, handler cancellation and cancel_active.
Disconnect(r) ==
    /\ Alive(r) /\ ~req[r].cancelled
    /\ Step(r, [req[r] EXCEPT !.cancelled = TRUE]) /\ UNCHANGED vars

BeginDrain ==
    /\ up /\ accepting
    /\ accepting' = FALSE /\ drained' = (inflight = 0)
    /\ UNCHANGED <<req, inflight, probe>> /\ UNCHANGED vars

Resume ==
    /\ up /\ ~accepting
    /\ accepting' = TRUE
    /\ UNCHANGED <<req, inflight, drained, probe>> /\ UNCHANGED vars

-----------------------------------------------------------------------------
(* FailoverGatewayCore.proxy and FailoverRouter.execute *)

\* request.read returns or raises.  Nothing limits how long the client takes.
ReadBody(r) ==
    /\ At(r, "reading")
    /\ Step(r, [req[r] EXCEPT !.pc = "admitted"]) /\ UNCHANGED vars

\* The handler answers without routing: a body too large, or no request.
Refuse(r) ==
    /\ At(r, "admitted")
    /\ Step(r, [req[r] EXCEPT !.pc = "commit", !.verdict = "error"]) /\ UNCHANGED vars

\* AtomicFailoverRouterProvider.acquire; execute pins the same versions a
\* second time, for a shorter while.
LeaseRouter(r) ==
    /\ At(r, "admitted")
    /\ Pin(current)
    /\ Step(r, [req[r] EXCEPT !.pc = "planning", !.versions = current])

\* The routes preview_admission lets through, the primary first.
Planned(vs) ==
    LET open == {v \in vs : Admits(v, FALSE)}
        one(S) == IF S = {} THEN << >> ELSE <<CHOOSE v \in S : TRUE>>
    IN  one({v \in open : IsPrimary(v)}) \o one({v \in open : ~IsPrimary(v)})

\* The model is not published, state is not portable, a credential is
\* missing, or the registry no longer trusts its document.
PlanFails(r) ==
    /\ At(r, "planning") /\ Verdict(r, "error") /\ UNCHANGED vars

PlanRoutes(r) ==
    /\ At(r, "planning") /\ ~uncertain
    /\ Step(r, [req[r] EXCEPT !.pc = "routing", !.plan = Planned(req[r].versions)])
    /\ UNCHANGED vars

\* acquire hands out a ticket and the attempt begins, or the save it needed
\* is in doubt and execute raises.  A request cancelled by now is noticed
\* before anything is sent.
TryRoute(r) ==
    /\ At(r, "routing") /\ req[r].plan # << >>
    /\ LET v == Head(req[r].plan) IN
       /\ Acquire(v, r, FALSE, "business")
       /\ IF leaseSeq' = leaseSeq
          THEN Verdict(r, "error")
          ELSE Step(r, [req[r] EXCEPT
                   !.pc = IF req[r].cancelled THEN "report" ELSE "running",
                   !.ending = IF req[r].cancelled THEN NotSent ELSE NotEnded,
                   !.tickets = @ \cup {NewTicket(v, r, FALSE, "business")},
                   !.tried = Append(@, v)])

\* The route was open when it was planned and refuses now: the next one.
SkipRoute(r) ==
    /\ At(r, "routing") /\ req[r].plan # << >>
    /\ LET v == Head(req[r].plan) IN
       \/ /\ ~uncertain
          /\ Refused(v, FALSE) \/ (Busy(v, FALSE) /\ ~Reopens(v, FALSE))
          /\ Step(r, [req[r] EXCEPT !.plan = Tail(@)]) /\ UNCHANGED vars
       \/ /\ AcquireBusy(v, FALSE)
          /\ IF uncertain' THEN Verdict(r, "error")
             ELSE Step(r, [req[r] EXCEPT !.plan = Tail(@)])

\* acquire raises: the document is in doubt, or the save of HALF_OPEN failed.
TryRaises(r) ==
    /\ At(r, "routing") /\ req[r].plan # << >>
    /\ uncertain \/ Reopens(Head(req[r].plan), FALSE)
    /\ Verdict(r, "error") /\ UNCHANGED vars

RoutesExhausted(r) ==
    /\ At(r, "routing") /\ req[r].plan = << >>
    /\ Verdict(r, "failed") /\ UNCHANGED vars

\* The attempt ends.  A cancellation wins over an answer it races with, but
\* not over a timeout.
AttemptEnds(r, e) ==
    /\ At(r, "running")
    /\ e.end = "cancelled" => req[r].cancelled
    /\ req[r].cancelled => e.end \in {"cancelled", "timeout", "transport"}
    /\ LET v == Head(req[r].plan)
           q == req[r]
       IN  Step(r, [q EXCEPT
                !.pc = "report", !.ending = e,
                !.ran = IF MayHaveRun(e)
                        THEN @ \cup {[version |-> v, end |-> e.end]} ELSE @,
                !.charge = IF IsPrimary(v) THEN ChargeUncertain(e) ELSE @,
                !.double = IF IsPrimary(v) THEN @ ELSE q.charge /\ e.started])
    /\ UNCHANGED vars

\* What execute does once the registry took the report.
AfterReport(r) ==
    LET e == req[r].ending
        v == Head(req[r].plan)
    IN  CASE e.end = "complete"  -> Verdict(r, "complete")
          [] e.end = "cancelled" -> Verdict(r, "cancelled")
          [] OTHER ->
               IF IsPrimary(v) /\ RetryOnBackup(e) /\ req[r].risk /\ SideEffects(e)
               THEN Verdict(r, "blocked")
               ELSE IF IsPrimary(v) /\ RetryOnBackup(e)
               THEN Step(r, [req[r] EXCEPT !.pc = "routing", !.plan = Tail(@)])
               ELSE Verdict(r, "failed")

CurrentTicket(r) == CHOOSE t \in req[r].tickets : \A u \in req[r].tickets :
                                                     u.lease <= t.lease

\* The registry method the ending is reported with.
Reported(r, t) ==
    LET e == req[r].ending IN
    CASE e.end = "complete" -> RecordSuccess(t)
      [] e.end \in DOMAIN BreakerKind -> RecordFailure(t, BreakerKind[e.end])
      [] OTHER -> RecordCancelled(t)

\* Reports of these endings save the document.
Saves(r, t) ==
    \/ req[r].ending.end \in DOMAIN BreakerKind \cup {"complete"}
    \/ routes[t.version].state = "half_open" /\ routes[t.version].actionRequired

Report(r) ==
    /\ At(r, "report")
    /\ LET t == CurrentTicket(r) IN
       \/ /\ Reported(r, t)
          /\ IF uncertain' # uncertain THEN Verdict(r, "error") ELSE AfterReport(r)
       \/ /\ ~Matching(t) /\ AfterReport(r) /\ UNCHANGED vars
       \/ /\ Matching(t) /\ Saves(r, t)          \* the save raises
          /\ Verdict(r, "error") /\ UNCHANGED vars

\* A request that was cancelled is not answered.
Cleaned(r) ==
    [req[r] EXCEPT
        !.tickets = {}, !.plan = << >>, !.ending = NotEnded,
        !.pc = IF req[r].verdict = "cancelled" THEN "release" ELSE "commit"]

BadCleanup(r) ==
    /\ At(r, "cleanup")
    /\ Step(r, Cleaned(r))
    /\ UNCHANGED vars

\* The finally block: abandon every issued ticket.
Cleanup(r) ==
    /\ At(r, "cleanup")
    /\ \/ \E t \in req[r].tickets :
             /\ Matching(t) /\ Abandon(t)
             /\ Step(r, [req[r] EXCEPT !.tickets = @ \ {t}])
       \/ /\ \A t \in req[r].tickets : ~Matching(t)
          /\ Step(r, Cleaned(r))
          /\ UNCHANGED vars

-----------------------------------------------------------------------------
(* Committer *)

\* The first byte may leave from here on, and nothing but the end of this
\* commit follows.  A cancelled request is never committed.
StartCommit(r) ==
    /\ At(r, "commit")
    /\ IF req[r].cancelled
       THEN Step(r, [req[r] EXCEPT !.pc = "release"])
       ELSE Step(r, [req[r] EXCEPT !.pc = "committing", !.commit = "committing"])
    /\ UNCHANGED vars

BadEndCommit(r) ==
    /\ At(r, "committing")
    /\ \/ /\ ~req[r].cancelled
          /\ Step(r, [req[r] EXCEPT !.pc = "release",
                   !.commit = IF req[r].verdict = "complete" THEN "delivered"
                              ELSE "error_committed"])
       \/ Step(r, [req[r] EXCEPT !.pc = "commit", !.commit = "uncommitted",
                                 !.verdict = "error"])
    /\ UNCHANGED vars
EndCommit(r) ==
    /\ At(r, "committing")
    /\ \/ /\ ~req[r].cancelled
          /\ Step(r, [req[r] EXCEPT !.pc = "release",
                   !.commit = IF req[r].verdict = "complete" THEN "delivered"
                              ELSE "error_committed"])
       \/ Step(r, [req[r] EXCEPT !.pc = "release", !.commit = "delivery_uncertain"])
    /\ UNCHANGED vars

ReleaseLease(r) ==
    /\ At(r, "release")
    /\ IF req[r].versions = {} THEN UNCHANGED vars ELSE Release(req[r].versions)
    /\ Step(r, [req[r] EXCEPT !.pc = "exit", !.versions = {}])

BadExitEarly(r) ==
    /\ At(r, "exit")
    /\ req' = [req EXCEPT ![r] = Idle]
    /\ inflight' = inflight - 1
    /\ drained' = TRUE
    /\ UNCHANGED <<accepting, probe>> /\ UNCHANGED vars
BadExitSilent(r) ==
    /\ At(r, "exit")
    /\ req' = [req EXCEPT ![r] = Idle]
    /\ inflight' = inflight - 1
    /\ drained' = (drained \/ (accepting /\ inflight = 1))
    /\ UNCHANGED <<accepting, probe>> /\ UNCHANGED vars

\* _release_request
Exit(r) ==
    /\ At(r, "exit")
    /\ req' = [req EXCEPT ![r] = Idle]
    /\ inflight' = inflight - 1
    /\ drained' = (drained \/ inflight = 1)
    /\ UNCHANGED <<accepting, probe>> /\ UNCHANGED vars

\* What a handler does by itself, and the two places where it waits for the
\* client: the body, and the bytes of the answer.
RequestStep(r) ==
    \/ Refuse(r) \/ LeaseRouter(r) \/ PlanFails(r) \/ PlanRoutes(r)
    \/ TryRoute(r) \/ SkipRoute(r) \/ TryRaises(r) \/ RoutesExhausted(r)
    \/ \E e \in Endings : e.end \in UpstreamEnds /\ AttemptEnds(r, e)
    \/ Report(r) \/ Cleanup(r) \/ StartCommit(r)
    \/ ReleaseLease(r) \/ Exit(r)
ClientStep(r) == ReadBody(r) \/ EndCommit(r)

-----------------------------------------------------------------------------
(* ModelsProbeScheduler._probe_route *)

NoProbe == [pc |-> "idle", held |-> {}, admitted |-> "none"]

ProbeStep(p, new) ==
    /\ probe' = [probe EXCEPT ![p] = new]
    /\ UNCHANGED <<req, inflight, accepting, drained>>

\* A round of probes keeps the configuration it began with, so the version
\* it acquires may be an old one some request still pins; whether the route
\* waits for a person is read from the current version.
ProbeStart(p) ==
    /\ up /\ probe[p].pc = "idle"
    /\ WithinBounds(1)
    /\ \E v \in Live, explicit \in BOOLEAN :
         /\ \E w \in current :
              /\ w.key = v.key
              /\ routes[w].state = "open_action_required"
                   => AllowAutoRetest \/ explicit
         /\ \/ /\ Acquire(v, p, TRUE, "probe")
               /\ IF leaseSeq' = leaseSeq THEN ProbeStep(p, NoProbe)
                  ELSE ProbeStep(p, [pc |-> "inflight",
                                     held |-> {NewTicket(v, p, TRUE, "probe")},
                                     admitted |-> Admitting(v, TRUE).state])
            \/ AcquireBusy(v, TRUE) /\ ProbeStep(p, NoProbe)

\* _finish_failure: only a probe of a half open route is evidence.
FinishFailure(p, t, kind) ==
    IF probe[p].admitted = "half_open" THEN RecordFailure(t, kind) ELSE Abandon(t)

\* A report that raises inside the try block is followed by a second one, of
\* a network error; a report that raises in a handler leaves the ticket.
ProbeEnds(p) ==
    /\ up /\ probe[p].pc \in {"inflight", "retry"}
    /\ \E t \in probe[p].held :
       \/ /\ probe[p].pc = "inflight" /\ Matching(t)         \* the try block
          /\ \/ RecordSuccess(t)
             \/ FinishFailure(p, t, "action_required")
             \/ FinishFailure(p, t, "temporary")
          /\ ProbeStep(p, IF uncertain' = uncertain THEN NoProbe
                          ELSE [probe[p] EXCEPT !.pc = "retry"])
       \/ /\ Matching(t)
          /\ \/ FinishFailure(p, t, "temporary")             \* except Exception
             \/ probe[p].pc = "inflight" /\ RecordCancelled(t)
          /\ ProbeStep(p, NoProbe)
       \/ /\ ~Matching(t)                                    \* IGNORED
          /\ ProbeStep(p, NoProbe) /\ UNCHANGED vars
       \/ /\ probe[p].pc = "inflight" /\ Matching(t)         \* a raise, retried
          /\ ProbeStep(p, [probe[p] EXCEPT !.pc = "retry"]) /\ UNCHANGED vars
       \/ /\ Matching(t) /\ probe[p].admitted = "half_open"  \* a raise, for good
          /\ ProbeStep(p, NoProbe) /\ UNCHANGED vars

-----------------------------------------------------------------------------
(* Process, configuration, clock *)

Activate ==
    /\ NextRevision \in Revisions
    /\ \E regs \in Registrations(NextRevision) : IsGroup(regs) /\ Configure(regs)
    /\ UNCHANGED gateVars

GatewayCrash ==
    /\ Crash /\ IsGroup(conf')
    /\ req' = [r \in Requests |-> Idle] /\ probe' = [p \in Probes |-> NoProbe]
    /\ inflight' = 0 /\ accepting' = TRUE /\ drained' = TRUE

GatewayStart == Start /\ UNCHANGED gateVars
ClockTick    == Tick /\ UNCHANGED gateVars

GatewayInit ==
    /\ Init /\ IsGroup(conf)
    /\ req = [r \in Requests |-> Idle] /\ probe = [p \in Probes |-> NoProbe]
    /\ inflight = 0 /\ accepting = TRUE /\ drained = TRUE

GatewayNext ==
    \/ \E r \in Requests : Admit(r) \/ Disconnect(r) \/ RequestStep(r)
                        \/ ClientStep(r)
    \/ \E p \in Probes : ProbeStart(p) \/ ProbeEnds(p)
    \/ BeginDrain \/ Resume
    \/ Activate \/ GatewayCrash \/ GatewayStart \/ ClockTick

\* A handler that can move by itself moves: every wait on the upstream has a
\* timeout.  The waits on the client have none and are not fair.
Fairness == \A r \in Requests : WF_allVars(RequestStep(r))

GatewaySpec == GatewayInit /\ [][GatewayNext]_allVars /\ Fairness

-----------------------------------------------------------------------------
(* Properties *)

\* The drain is exact: the event wait_drained waits for is set if and only if
\* no handler is inside, and the counter max_concurrent_requests is checked
\* against is the number of handlers (_try_acquire_request,
\* _release_request, begin_drain).
DrainIsExact ==
    /\ inflight = Cardinality({r \in Requests : req[r].pc # "idle"})
    /\ drained <=> inflight = 0

\* Every pin belongs to a request that still has its router lease, so no
\* release underflows and no version stays pinned for ever
\* (FailoverRouterLease.release, release_versions).
PinsMatchLeases ==
    \A v \in Versions :
        pins[v] = Cardinality({r \in Requests : v \in req[r].versions})

\* Whatever fails on the way, a request that is gone has left no ticket in
\* the registry (the finally block of FailoverRouter.execute).
TicketsHaveRequests ==
    \A t \in active : t.attempt \in Requests => t \in req[t.attempt].tickets

\* A retired version is dropped with its last user: the registry keeps no
\* version that is neither current nor pinned nor ticketed, although a
\* transition throws away tickets of other attempts without pruning
\* (_transition_locked, _prune_version_locked).
NoForgottenVersions ==
    \A v \in Live \ current : pins[v] > 0 \/ TicketsOf(v) # {}

\* The versions of the registry are accounted for: each pin has its request,
\* each retired version its user.
VersionsAccountedFor == PinsMatchLeases /\ NoForgottenVersions

\* A request that may run tools on the server is never sent to the backup
\* after the primary may have executed it (replay_blocked in
\* FailoverRouter.execute against what really happened upstream).
NoReplayOfSideEffects ==
    \A r \in Requests : req[r].risk =>
        ~ \E x \in req[r].ran : /\ IsPrimary(x.version)
                                 /\ \E v \in {req[r].tried[i] : i \in DOMAIN req[r].tried} :
                                        ~IsPrimary(v)

\* When both upstreams may have billed one request the answer says so
\* (possible_double_charge), unless execute raised: when the breaker cannot
\* record the backup's outcome, or the registry refuses the backup's ticket,
\* proxy commits the error with possible_double_charge=False.  An HTTP error
\* of the primary counts as unbilled.
DoubleChargeReported ==
    \A r \in Requests : \A x, y \in req[r].ran :
        /\ IsPrimary(x.version) /\ ~IsPrimary(y.version)
        /\ x.end # "server_error"
        => req[r].double \/ req[r].verdict = "error"

\* "A pre-commit client cancel ... does not ... affect breaker health"
\* (docs/gateway-protocol-contract-v1.md): the report of a cancelled request
\* leaves every route as it was, though record_cancelled reopens a route
\* that was being probed by hand.
CancelledKeepsRoutes ==
    \A r \in Requests :
        /\ req[r].pc = "report" /\ req'[r].pc = "cleanup"
        /\ req[r].ending.end = "cancelled"
        => \A v \in Live \cap Live' : routes'[v] = routes[v]
CancelKeepsHealth == [][CancelledKeepsRoutes]_allVars

\* Every client sends its body and takes its answer, or closes the connection:
\* request.read and downstream.write have no timeout of their own.
ClientsKeepUp ==
    \A r \in Requests : []<>(req[r].pc \notin {"reading", "committing"})

\* A drain ends: if no client stalls, then once the gateway stops accepting the
\* last handler leaves unless the drain is called off or the process dies
\* (begin_drain, wait_drained).
DrainCompletes == ClientsKeepUp => (~accepting ~> (drained \/ accepting))

\* The inductive invariant.  Every variable has its type.
Handler ==
    [pc : {"idle", "reading", "admitted", "planning", "routing", "running", "report", "cleanup",
           "commit", "committing", "release", "exit"},
     cancelled : BOOLEAN, risk : BOOLEAN, versions : SUBSET Versions,
     plan : Seq(Versions), tickets : SUBSET Ticket,
     ending : Endings \cup {NotEnded}, tried : Seq(Versions),
     ran : SUBSET [version : Versions, end : Outcomes],
     charge : BOOLEAN, double : BOOLEAN,
     verdict : {"none", "error", "failed", "blocked", "cancelled", "complete"},
     commit : {"uncommitted", "committing", "delivered", "error_committed",
               "delivery_uncertain"}]
Prober == [pc : {"idle", "inflight", "retry"}, held : SUBSET Ticket,
           admitted : States \cup {"none"}]
GateTypeOK ==
    /\ req \in [Requests -> Handler] /\ probe \in [Probes -> Prober]
    /\ inflight \in Nat /\ accepting \in BOOLEAN /\ drained \in BOOLEAN

\* What a handler holds: versions from its lease to its release, tickets of
\* these versions while it routes, the last of them for the attempt it makes.
Holds(r, q) ==
    /\ q.pc = "idle" => q = Idle
    /\ q.pc \in {"reading", "admitted", "exit"} => q.versions = {}
    /\ q.pc \notin {"routing", "running", "report", "cleanup"} => q.tickets = {}
    /\ \A t \in q.tickets : /\ t.version \in q.versions /\ t.attempt = r
                            /\ t.signal = "business"
    /\ q.pc \in {"running", "report"} =>
          \E t \in q.tickets : \A u \in q.tickets : u.lease <= t.lease

\* Where a handler is on its way along the plan: the primary first, and the
\* backup last.
OnPrimary(q) == q.plan # << >> /\ IsPrimary(Head(q.plan))
OnlyPrimary(q) == \A i \in DOMAIN q.tried : IsPrimary(q.tried[i])
Routes(q) ==
    /\ q.pc \in {"reading", "admitted", "planning"} => q.tried = << >> /\ q.ran = {}
    /\ q.pc \in {"routing", "running", "report"} =>
          /\ \A i \in DOMAIN q.plan : q.plan[i] \in q.versions
          /\ Len(q.plan) <= 2
          /\ Len(q.plan) = 2 => IsPrimary(q.plan[1]) /\ ~IsPrimary(q.plan[2])
          /\ OnPrimary(q) => OnlyPrimary(q)
    /\ q.pc = "routing" => OnlyPrimary(q) /\ (OnPrimary(q) => q.tried = << >>)
    /\ q.pc \in {"running", "report"} => q.plan # << >> /\ q.tried # << >>

\* What may have run upstream by then: nothing before the primary's attempt, and
\* before the backup's only what execute could tell apart.
Ran(q) ==
    /\ q.pc \in {"routing", "running"} =>
          /\ OnPrimary(q) \/ q.risk => q.ran = {}
          /\ \A x \in q.ran : IsPrimary(x.version)
          /\ \A x \in q.ran : x.end # "server_error" => q.charge
    /\ q.pc = "report" /\ OnPrimary(q) =>
          \A x \in q.ran : /\ IsPrimary(x.version) /\ x.end = q.ending.end
                           /\ MayHaveRun(q.ending)
                           /\ q.charge = ChargeUncertain(q.ending)
    /\ q.pc = "report" => q.ending # NotEnded

\* The answer begins and ends once.
Answers(q) ==
    /\ q.pc \notin {"committing", "release", "exit"} => q.commit = "uncommitted"
    /\ q.pc = "committing" => q.commit = "committing"
    /\ q.pc \in {"release", "exit"} => q.commit # "committing"
    /\ q.verdict = "complete" => q.tried # << >>
    /\ q.pc \in {"reading", "admitted", "planning", "routing", "running", "report"}
          => q.verdict = "none"

HandlersInv ==
    \A r \in Requests : /\ Holds(r, req[r]) /\ Routes(req[r])
                        /\ Ran(req[r]) /\ Answers(req[r])
                        /\ \A t \in req[r].tickets : t.lease <= leaseSeq

\* A probe's ticket, and what it was admitted for.
ProbersInv ==
    \A p \in Probes : \A t \in probe[p].held :
        t.signal = "probe" /\ (probe[p].admitted = "half_open" => t.guarded)

Inside == {r \in Requests : req[r].pc # "idle"}
RegistryInv == Inv /\ SoundInv /\ EvidenceInv
GatewayInv ==
    /\ RegistryInv /\ GateTypeOK /\ HandlersInv /\ ProbersInv
    /\ IsFiniteSet(Inside) /\ DrainIsExact
    /\ TicketsHaveRequests /\ VersionsAccountedFor
    /\ NoReplayOfSideEffects /\ DoubleChargeReported

Phase(q) == IF q.pc = "idle" THEN "idle"
            ELSE IF q.commit = "uncommitted" THEN "open" ELSE q.commit
Tries(q) == {IF IsPrimary(q.tried[i]) THEN "primary" ELSE "backup" :
                i \in DOMAIN q.tried}

RC == INSTANCE RequestContract WITH
          phase <- [r \in Requests |-> Phase(req[r])],
          tries <- [r \in Requests |-> Tries(req[r])]

\* The gateway keeps its contract with the client and the upstreams: one
\* attempt per route, one answer, no attempt after the answer began
\* ("It must never re-enter routing or start another upstream attempt",
\* docs/gateway-protocol-contract-v1.md), and every request ends if
\* no client stalls.
KeepsContract == RC!ContractSafety /\ (ClientsKeepUp => RC!LetsGo)
=============================================================================
