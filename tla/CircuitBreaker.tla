--------------------------- MODULE CircuitBreaker ---------------------------
(***************************************************************************)
(* The circuit breaker registry of the gateway (gateway/breaker.py) with   *)
(* its durable document (gateway/state.py) and the two callers that bring  *)
(* it up: AtomicFailoverRouterProvider (gateway/runtime.py) configures the *)
(* routes of a revision, and restores the document when a process starts.  *)
(*                                                                         *)
(* Every method of CircuitBreakerRegistry holds one re-entrant lock from   *)
(* its first read to its last write, so one method is one step.  What      *)
(* interleaves is the life of a ticket: it is issued in one step, reported *)
(* in a later one, and in between the configuration is replaced, other     *)
(* attempts open the breaker, the save of the document fails, the clock    *)
(* moves and the process dies.  This module lets any holder report any     *)
(* ticket at any time; FailoverRequest composes it with the real callers.  *)
(***************************************************************************)
EXTENDS Integers, Sequences, FiniteSets

CONSTANTS
    Keys,            \* RouteKey values: instance, group, role and profile
    Fingerprints,    \* route fingerprints
    Attempts,        \* attempt identifiers
    MaxRevision,     \* bound: configuration revisions run from 1 to this
    MaxLeases,       \* bound: tickets issued in a behaviour
    MaxTime,         \* bound: the last instant of the clock
    MaxPins,         \* bound: routers that hold one version at a time
    MaxEpoch,        \* bound: transition epochs at which tickets are issued
    FailureThreshold, ProtocolFailureThreshold, RecoverySuccessThreshold,
    WindowSize, MinimumSamples,
    ErrorRatePercent,       \* above 100 stands for error_rate_threshold = None
    BaseCooldown, MaxCooldown, JitterPercent

\* CircuitBreakerPolicy.__post_init__ refuses every other policy.
ASSUME PolicyAssumption ==
    /\ FailureThreshold \in Nat \ {0}
    /\ ProtocolFailureThreshold \in Nat \ {0}
    /\ RecoverySuccessThreshold \in Nat \ {0}
    /\ WindowSize \in Nat \ {0} /\ MinimumSamples \in 1..WindowSize
    /\ ErrorRatePercent \in Nat \ {0}
    /\ BaseCooldown \in Nat \ {0} /\ MaxCooldown \in Nat
    /\ BaseCooldown <= MaxCooldown
    /\ JitterPercent \in 0..100

ASSUME BoundAssumption ==
    /\ MaxRevision \in Nat \ {0} /\ MaxLeases \in Nat /\ MaxTime \in Nat
    /\ MaxPins \in Nat /\ MaxEpoch \in Nat

VARIABLES
    routes,       \* _routes: the version in use |-> its _RouteRuntime
    current,      \* _current_routes, as the set of current versions
    active,       \* _active, as the set of its tickets
    pins,         \* _pins, 0 where the dictionary has no entry
    lease,        \* half_open_lease_id of each version, 0 for None
    leaseSeq,     \* _lease_sequence; ids stay fresh across processes
    uncertain,    \* _persistence_uncertain
    disk,         \* the document AtomicBreakerStateStore keeps
    conf,         \* the configuration file: version |-> enabled
    up,           \* a gateway process is running
    now           \* the wall clock

vars == <<routes, current, active, pins, lease, leaseSeq, uncertain, disk,
          conf, up, now>>

-----------------------------------------------------------------------------
(* Data *)

Revisions == 1..MaxRevision
Versions  == [key : Keys, rev : Revisions, fp : Fingerprints]
Signals   == {"business", "probe"}
States    == {"unknown", "closed", "open_temporary", "half_open",
              "open_action_required", "disabled"}
FailureKinds == {"temporary", "rate_limited", "protocol", "action_required"}

NoTime  == -1      \* open_until is None
NoLease == 0       \* half_open_lease_id is None

\* What a runtime keeps and the document records of it.  Its policy is the
\* same for every revision; the diagnostic timestamps are left out.
Runtime == [enabled : BOOLEAN, state : States, epoch : Nat,
            failures : Nat, protocolFailures : Nat, successes : Nat,
            outcomes : Seq(BOOLEAN), openCount : Nat,
            openUntil : Nat \cup {NoTime}, actionRequired : BOOLEAN]

Ticket == [version : Versions, epoch : Nat, lease : Nat, attempt : Attempts,
           guarded : BOOLEAN, signal : Signals]

SameRoute(v, w) == v.key = w.key /\ v.fp = w.fp
TicketsOf(v)    == {t \in active : t.version = v}
Live            == DOMAIN routes

Empty         == [v \in {} |-> FALSE]
Without(f, S) == [x \in DOMAIN f \ S |-> f[x]]
Lesser(a, b)  == IF a < b THEN a ELSE b

-----------------------------------------------------------------------------
(* The state machine of one route *)

Fresh(enabled) ==
    [enabled |-> enabled, state |-> IF enabled THEN "unknown" ELSE "disabled",
     epoch |-> 1, failures |-> 0, protocolFailures |-> 0, successes |-> 0,
     outcomes |-> << >>, openCount |-> 0, openUntil |-> NoTime,
     actionRequired |-> FALSE]

\* Faulty variants, named Bad..., stand before the operators they replace in
\* the mutation runs; nothing else uses them.
BadReconfiguredAlarm(rt, sameFingerprint, enabled) ==
    IF sameFingerprint
    THEN [rt EXCEPT !.epoch = @ + 1, !.enabled = enabled,
                    !.state = IF enabled /\ rt.enabled THEN @
                              ELSE Fresh(enabled).state,
                    !.openUntil = IF enabled /\ rt.enabled THEN @ ELSE NoTime]
    ELSE [Fresh(enabled) EXCEPT !.epoch = rt.epoch + 1]

\* The runtime a newer revision starts with.  A route that keeps its
\* fingerprint keeps its history, and its state unless it is switched off or
\* on; another fingerprint starts again.
Reconfigured(rt, sameFingerprint, enabled) ==
    IF ~sameFingerprint
    THEN [Fresh(enabled) EXCEPT !.epoch = rt.epoch + 1]
    ELSE IF enabled /\ rt.enabled
    THEN [rt EXCEPT !.epoch = @ + 1]
    ELSE [rt EXCEPT !.epoch = @ + 1, !.enabled = enabled,
                    !.state = Fresh(enabled).state,
                    !.openUntil = NoTime, !.actionRequired = FALSE]

Transition(rt, state) ==
    IF rt.state = state THEN rt
    ELSE [rt EXCEPT !.state = state, !.epoch = @ + 1]

\* The exponential backoff, its jitter and the upstream's Retry-After; all
\* three are capped by the policy's maximum.
Backoff(n) == Lesser(BaseCooldown * 2^(n - 1), MaxCooldown)
Cooldowns(n, retryAfter) ==
    {c \in BaseCooldown..MaxCooldown :
        /\ c >= Backoff(n)
        /\ retryAfter \/ c <= Backoff(n) + (Backoff(n) * JitterPercent) \div 100}

MaxOpenCount == 63
OpenTemporary(rt, retryAfter) ==
    LET n == Lesser(rt.openCount + 1, MaxOpenCount) IN
    {Transition([rt EXCEPT !.openCount = n, !.openUntil = now + c],
                "open_temporary") : c \in Cooldowns(n, retryAfter)}

OpenActionRequired(rt) ==
    Transition([rt EXCEPT !.actionRequired = TRUE, !.openUntil = NoTime],
               "open_action_required")

Close(rt) ==
    [Transition(rt, "closed") EXCEPT !.openCount = 0, !.actionRequired = FALSE,
                                     !.openUntil = NoTime]

Windowed(s) == IF Len(s) > WindowSize THEN Tail(s) ELSE s
ErrorRateOpens(rt) ==
    LET n == Len(rt.outcomes)
        failed == Cardinality({i \in 1..n : rt.outcomes[i]})
    IN  n >= MinimumSamples /\ 100 * failed >= ErrorRatePercent * n

Credited(rt) == Lesser(rt.successes + 1, RecoverySuccessThreshold)
Recovered(rt) == [i \in 1..rt.successes |-> FALSE]

\* record_success on the runtime: a probe earns credit only in HALF_OPEN and
\* leaves the business statistics alone.
Success(rt, signal) ==
    IF signal = "probe"
    THEN CASE rt.state = "unknown" -> Close(rt)
           [] rt.state = "half_open" ->
                LET r == [rt EXCEPT !.successes = Credited(rt)] IN
                IF r.successes >= RecoverySuccessThreshold THEN Close(r) ELSE r
           [] OTHER -> rt
    ELSE LET r == [rt EXCEPT !.outcomes = Windowed(Append(@, FALSE)),
                             !.failures = 0, !.protocolFailures = 0,
                             !.successes = Credited(rt)] IN
         CASE rt.state = "unknown" -> [Close(r) EXCEPT !.openUntil = rt.openUntil]
           [] /\ rt.state = "half_open"
              /\ r.successes >= RecoverySuccessThreshold ->
                [Close(r) EXCEPT !.outcomes = Recovered(r)]
           [] OTHER -> r

\* record_protocol_failure escalates the failure that completes a run of
\* protocol failures; record_action_required always asks for a person.
NeedsAction(rt, kind) ==
    \/ kind = "action_required"
    \/ kind = "protocol" /\ rt.protocolFailures + 1 >= ProtocolFailureThreshold
    \/ rt.state = "half_open" /\ rt.actionRequired

BadFailure(rt, signal, kind) ==
    LET r == [rt EXCEPT !.failures = @ + 1] IN
    IF NeedsAction(rt, kind) THEN {OpenActionRequired(r)}
    ELSE OpenTemporary(r, kind = "rate_limited")

\* _record_failure on the runtime: the set of runtimes it may leave.
Failure(rt, signal, kind) ==
    IF signal = "probe"
    THEN LET r == [rt EXCEPT !.successes = 0] IN
         IF NeedsAction(rt, kind) THEN {OpenActionRequired(r)}
         ELSE IF rt.state \in {"unknown", "half_open"}
              THEN OpenTemporary(r, kind = "rate_limited")
              ELSE {r}
    ELSE LET r == [rt EXCEPT
                     !.outcomes = Windowed(Append(@, TRUE)),
                     !.failures = @ + 1, !.successes = 0,
                     !.protocolFailures = IF kind = "protocol" THEN @ + 1 ELSE 0]
         IN IF NeedsAction(rt, kind) THEN {OpenActionRequired(r)}
            ELSE IF \/ kind = "rate_limited"
                    \/ rt.state = "half_open"
                    \/ r.failures >= FailureThreshold
                    \/ ErrorRateOpens(r)
                 THEN OpenTemporary(r, kind = "rate_limited")
                 ELSE {r}

BadRestored(rt) ==
    IF rt.state # "half_open" THEN rt
    ELSE [rt EXCEPT !.epoch = @ + 1,
                    !.state = IF rt.actionRequired THEN "open_action_required"
                              ELSE "open_temporary"]

\* _restore_locked on one entry of the document: a probe that was in flight
\* when the process died counts as not having happened, and the route cools
\* down again or waits for a person.
Restored(rt) ==
    CASE ~rt.enabled -> [rt EXCEPT !.state = "disabled"]
      [] rt.state = "half_open" /\ rt.actionRequired ->
           [rt EXCEPT !.epoch = @ + 1, !.state = "open_action_required",
                      !.openUntil = NoTime]
      [] rt.state = "half_open" /\ ~rt.actionRequired ->
           [rt EXCEPT !.epoch = @ + 1, !.state = "open_temporary",
                      !.openUntil = IF @ < now + BaseCooldown
                                    THEN now + BaseCooldown ELSE @]
      [] rt.state = "open_temporary" /\ rt.openUntil = NoTime ->
           [rt EXCEPT !.openUntil = now + BaseCooldown]
      [] rt.state = "open_action_required" ->
           [rt EXCEPT !.actionRequired = TRUE, !.openUntil = NoTime]
      [] OTHER -> rt

\* What _restore_locked refuses, and with it the start of the gateway.
Unrestorable(rt) ==
    \/ rt.enabled /\ rt.state = "disabled"
    \/ /\ rt.actionRequired
       /\ rt.state \notin {"half_open", "open_action_required"} \/ ~rt.enabled

-----------------------------------------------------------------------------
(* Persistence *)

\* _persist_locked inside a method that would leave memory as the primed
\* variables say and the document as doc.  commit is that change of memory.
\* A save that fails before the replacement raises, and the method puts the
\* old memory back: nothing changed.
Persist(commit, doc) ==
    /\ ~uncertain
    /\ \/ commit /\ disk' = doc /\ UNCHANGED uncertain
       \/ \* the replacement was attempted and its result is not known
          /\ disk' \in {disk, doc}
          /\ uncertain' = TRUE
          /\ UNCHANGED <<routes, current, active, lease, leaseSeq, conf>>

Export(rs, cs) == [v \in cs |-> rs[v]]

\* _prune_version_locked: does the registry drop v once acts are the tickets?
Prunable(v, acts) ==
    /\ v \notin current
    /\ pins[v] = 0
    /\ \A t \in acts : t.version # v

-----------------------------------------------------------------------------
(* Configuration *)

Batch(rev, S, fp) == {[key |-> k, rev |-> rev, fp |-> fp[k]] : k \in S}
Registrations(rev) ==
    UNION {[Batch(rev, S, fp) -> BOOLEAN] :
              S \in (SUBSET Keys) \ {{}}, fp \in [Keys -> Fingerprints]}

NextRevision == 1 + (CHOOSE v \in DOMAIN conf : TRUE).rev

\* The runtime a registered version starts with.
Initial(v, enabled) ==
    IF \E w \in current : w.key = v.key
    THEN LET w == CHOOSE w \in current : w.key = v.key
         IN  Reconfigured(routes[w], w.fp = v.fp, enabled)
    ELSE Fresh(enabled)

BadConfigured(regs) ==
    LET kept == {v \in Live : TicketsOf(v) # {}}
    IN [v \in kept \cup DOMAIN regs |->
           IF v \in DOMAIN regs THEN Initial(v, regs[v]) ELSE routes[v]]
Configured(regs) ==
    LET touched == {v \in Live : \E w \in current \cup DOMAIN regs : w.key = v.key}
        kept == {v \in Live : v \in touched => pins[v] > 0 \/ TicketsOf(v) # {}}
    IN [v \in kept \cup DOMAIN regs |->
           IF v \in DOMAIN regs THEN Initial(v, regs[v]) ELSE routes[v]]

\* AtomicFailoverRouterProvider.activate, which insists on a newer revision,
\* and the configure_routes of the new router: one batch, one save, the
\* routes left out of it retired.
Configure(regs) ==
    /\ up
    /\ LET rs == Configured(regs) IN
       Persist(/\ routes' = rs
               /\ current' = DOMAIN regs
               /\ conf' = regs
               /\ UNCHANGED <<active, lease, leaseSeq>>,
               Export(rs, DOMAIN regs))
    /\ UNCHANGED <<pins, up, now>>

\* pin_versions and release_versions for the versions of one router.
Pin(vs) ==
    /\ up
    /\ vs # {} /\ vs \subseteq Live
    /\ pins' = [v \in Versions |-> IF v \in vs THEN pins[v] + 1 ELSE pins[v]]
    /\ UNCHANGED <<routes, current, active, lease, leaseSeq, uncertain, disk,
                   conf, up, now>>

Release(vs) ==
    /\ up
    /\ vs # {} /\ \A v \in vs : pins[v] > 0
    /\ pins' = [v \in Versions |-> IF v \in vs THEN pins[v] - 1 ELSE pins[v]]
    /\ routes' = Without(routes, {v \in vs : /\ v \notin current
                                             /\ pins[v] = 1
                                             /\ TicketsOf(v) = {}})
    /\ UNCHANGED <<current, active, lease, leaseSeq, uncertain, disk, conf,
                   up, now>>

-----------------------------------------------------------------------------
(* Admission *)

\* Would acquire move v to HALF_OPEN before it looks at the lease?
Reopens(v, manual) ==
    \/ routes[v].state = "open_action_required" /\ manual
    \/ /\ routes[v].state = "open_temporary"
       /\ routes[v].openUntil # NoTime /\ now >= routes[v].openUntil

\* The runtime and the tickets acquire checks the lease against.
Admitting(v, manual) ==
    IF Reopens(v, manual) THEN Transition(routes[v], "half_open") ELSE routes[v]
Remaining(v, manual) ==
    IF Reopens(v, manual) THEN active \ TicketsOf(v) ELSE active

BadRefused(v, manual) ==
    \/ v \notin Live
    \/ routes[v].state = "disabled" \/ ~routes[v].enabled
    \/ /\ routes[v].state \in {"open_action_required", "open_temporary"}
       /\ ~Reopens(v, manual)

\* The early returns of acquire that leave no trace.  (A route that cools
\* down has no action_required flag, so the last one never follows a move to
\* HALF_OPEN: see DocumentRestorable.)
Refused(v, manual) ==
    \/ v \notin Live
    \/ routes[v].state = "disabled" \/ ~routes[v].enabled
    \/ /\ routes[v].state \in {"open_action_required", "open_temporary"}
       /\ ~Reopens(v, manual)
    \/ routes[v].state = "half_open" /\ routes[v].actionRequired /\ ~manual

Guarded(rt) == rt.state \in {"unknown", "half_open"}

BadBusyOwnVersion(v, manual) ==
    /\ Guarded(Admitting(v, manual))
    /\ \E t \in Remaining(v, manual) : t.guarded /\ t.version = v

\* HALF_OPEN_BUSY: some version of the route is already being probed.
Busy(v, manual) ==
    /\ Guarded(Admitting(v, manual))
    /\ \E t \in Remaining(v, manual) : t.guarded /\ SameRoute(t.version, v)

\* preview_admission: the answer of acquire, without its effects.  It looks
\* at every ticket where acquire has dropped those of a version that reopens;
\* TicketInv says those are never guarded, so the answers agree.
Admits(v, manual) == ~Refused(v, manual) /\ ~Busy(v, manual)

NewTicket(v, a, manual, signal) ==
    [version |-> v, epoch |-> Admitting(v, manual).epoch,
     lease |-> leaseSeq + 1, attempt |-> a,
     guarded |-> Guarded(Admitting(v, manual)),
     signal |-> IF manual THEN "probe" ELSE signal]

\* acquire issues a ticket.  Only the move to HALF_OPEN is saved.
Acquire(v, a, manual, signal) ==
    LET rt == Admitting(v, manual)
        t  == NewTicket(v, a, manual, signal)
        commit == /\ routes' = [routes EXCEPT ![v] = rt]
                  /\ active' = Remaining(v, manual) \cup {t}
                  /\ lease' = [lease EXCEPT ![v] = IF t.guarded THEN t.lease ELSE @]
                  /\ leaseSeq' = leaseSeq + 1
                  /\ UNCHANGED <<current, conf>>
    IN  /\ up /\ ~uncertain
        /\ leaseSeq < MaxLeases
        /\ ~ \E u \in TicketsOf(v) : u.attempt = a
        /\ Admits(v, manual)
        /\ IF Reopens(v, manual)
           THEN Persist(commit, Export([routes EXCEPT ![v] = rt], current))
           ELSE commit /\ UNCHANGED <<disk, uncertain>>
        /\ UNCHANGED <<pins, up, now>>

\* acquire moves the route to HALF_OPEN and then refuses, because an attempt
\* of an older revision still probes the same route.
AcquireBusy(v, manual) ==
    LET rt == Admitting(v, manual) IN
    /\ up /\ ~Refused(v, manual) /\ Reopens(v, manual) /\ Busy(v, manual)
    /\ Persist(/\ routes' = [routes EXCEPT ![v] = rt]
               /\ active' = Remaining(v, manual)
               /\ lease' = [lease EXCEPT ![v] = NoLease]
               /\ UNCHANGED <<current, leaseSeq, conf>>,
               Export([routes EXCEPT ![v] = rt], current))
    /\ UNCHANGED <<pins, up, now>>

-----------------------------------------------------------------------------
(* Observations *)

\* _matching_runtime_locked: any other report is IGNORED and changes nothing.
Matching(t) ==
    /\ t \in active /\ t.version \in Live
    /\ routes[t.version].epoch = t.epoch
    /\ t.guarded => lease[t.version] = t.lease

BadObserved(t, rt) == [routes EXCEPT ![t.version] = rt]

\* The routes after v's runtime became rt: a version nobody needs any more
\* was pruned before its runtime changed, and the change goes with it.
Observed(t, rt) ==
    IF Prunable(t.version, active \ {t})
    THEN Without(routes, {t.version})
    ELSE [routes EXCEPT ![t.version] = rt]

BadSettled(t, rt) == active \ {t}
Settled(t, rt) ==
    IF rt.state = routes[t.version].state THEN active \ {t}
    ELSE active \ TicketsOf(t.version)

Unleased(t, rt) ==
    [lease EXCEPT ![t.version] =
        IF @ = t.lease \/ rt.state # routes[t.version].state THEN NoLease ELSE @]

\* The report of t is applied and leaves the runtime rt.
Observe(t, rt) ==
    /\ up /\ Matching(t)
    /\ Persist(/\ routes' = Observed(t, rt)
               /\ active' = Settled(t, rt)
               /\ lease' = Unleased(t, rt)
               /\ UNCHANGED <<current, leaseSeq, conf>>,
               Export(Observed(t, rt), current))
    /\ UNCHANGED <<pins, up, now>>

RecordSuccess(t) == Observe(t, Success(routes[t.version], t.signal))

RecordFailure(t, kind) ==
    \E rt \in Failure(routes[t.version], t.signal, kind) : Observe(t, rt)

\* abandon, and record_cancelled of an attempt that proves nothing: the
\* ticket goes, nothing is saved.
Abandon(t) ==
    /\ up /\ Matching(t)
    /\ routes' = Observed(t, routes[t.version])
    /\ active' = active \ {t}
    /\ lease' = Unleased(t, routes[t.version])
    /\ UNCHANGED <<current, pins, leaseSeq, uncertain, disk, conf, up, now>>

\* record_cancelled: a cancelled manual probe puts the alarm back.
RecordCancelled(t) ==
    LET rt == routes[t.version] IN
    IF rt.state = "half_open" /\ rt.actionRequired
    THEN Observe(t, Transition(rt, "open_action_required"))
    ELSE Abandon(t)

-----------------------------------------------------------------------------
(* The process and the clock *)

\* The process dies.  GatewayProcessHost replaces the configuration file
\* before it activates the configuration, so the file may be one revision
\* ahead of the registry that died.
Crash ==
    /\ up
    /\ \/ UNCHANGED conf
       \/ NextRevision \in Revisions /\ conf' \in Registrations(NextRevision)
    /\ up' = FALSE
    /\ routes' = Empty /\ current' = {} /\ active' = {}
    /\ pins' = [v \in Versions |-> 0]
    /\ lease' = [v \in Versions |-> NoLease]
    /\ uncertain' = FALSE
    /\ UNCHANGED <<leaseSeq, disk, now>>

Restart(v) ==
    IF v \in DOMAIN disk /\ disk[v].enabled = conf[v]
    THEN Restored(disk[v]) ELSE Fresh(conf[v])

\* A process starts: the provider registers the configured routes and
\* restore_from_store takes over what the document says of these versions,
\* then saves.  A save that fails keeps the process down, whatever it left.
Start ==
    /\ ~up
    /\ \A v \in DOMAIN conf \cap DOMAIN disk :
           disk[v].enabled = conf[v] => ~Unrestorable(disk[v])
    /\ LET rs == [v \in DOMAIN conf |-> Restart(v)] IN
       /\ disk' = rs
       /\ \/ /\ up' = TRUE /\ routes' = rs /\ current' = DOMAIN conf
          \/ UNCHANGED <<up, routes, current>>
    /\ UNCHANGED <<active, pins, lease, leaseSeq, uncertain, conf, now>>

\* The wall clock moves forward.  One set back lengthens the cooldowns that run
\* by as much; that is left out.
Tick == /\ now < MaxTime /\ now' = now + 1
        /\ UNCHANGED <<routes, current, active, pins, lease, leaseSeq,
                       uncertain, disk, conf, up>>

-----------------------------------------------------------------------------
Init ==
    /\ conf \in Registrations(1)
    /\ up = FALSE /\ routes = Empty /\ current = {} /\ active = {}
    /\ disk = Empty
    /\ pins = [v \in Versions |-> 0]
    /\ lease = [v \in Versions |-> NoLease]
    /\ leaseSeq = 0 /\ uncertain = FALSE /\ now = 0

Reconfigure == NextRevision \in Revisions
               /\ \E regs \in Registrations(NextRevision) : Configure(regs)

Next ==
    \/ Reconfigure
    \/ \E vs \in SUBSET Live : (\A v \in vs : pins[v] < MaxPins) /\ Pin(vs)
    \/ \E vs \in SUBSET Live : Release(vs)
    \/ \E v \in Live, a \in Attempts, signal \in Signals, manual \in BOOLEAN :
           routes[v].epoch < MaxEpoch /\ Acquire(v, a, manual, signal)
    \/ \E v \in Live, manual \in BOOLEAN : AcquireBusy(v, manual)
    \/ \E t \in active : \/ RecordSuccess(t)
                         \/ \E kind \in FailureKinds : RecordFailure(t, kind)
                         \/ RecordCancelled(t)
                         \/ Abandon(t)
    \/ Crash
    \/ Start
    \/ Tick

Spec == Init /\ [][Next]_vars

-----------------------------------------------------------------------------
(* Properties *)

\* Every variable has its type, and the dictionaries have the entries the
\* methods look up without a default: a current, a pinned and a ticketed
\* version is in _routes.
TypeOK ==
    /\ routes \in [Live -> Runtime] /\ Live \subseteq Versions
    /\ current \subseteq Live
    /\ active \subseteq Ticket
    /\ pins \in [Versions -> Nat]
    /\ lease \in [Versions -> Nat] /\ leaseSeq \in Nat
    /\ uncertain \in BOOLEAN /\ up \in BOOLEAN /\ now \in Nat
    /\ disk \in [DOMAIN disk -> Runtime] /\ DOMAIN disk \subseteq Versions
    /\ conf \in [DOMAIN conf -> BOOLEAN] /\ DOMAIN conf \subseteq Versions

\* A configuration swap never takes a runtime away from a request: every
\* pinned version is still in _routes, so the request's later acquire and
\* snapshot_version find it (_prune_version_locked, release_versions).
PinnedVersionsLive == \A v \in Versions : pins[v] > 0 => v \in Live

\* No ticket in _active has gone stale: whoever holds it can still report or
\* abandon it.  A stale one would stay in the table, and a stale guarded one
\* would answer HALF_OPEN_BUSY for its route until the process restarts
\* (_matching_runtime_locked against every place that bumps the epoch).
TicketsMatch == \A t \in active : Matching(t)

\* An unproven route is tried by one attempt at a time, whichever revision
\* admitted it: two guarded tickets of one route never coexist, and a
\* guarded ticket never shares its version with an ordinary one
\* (acquire's guarded_probe and _guarded_lease_active_locked).
OneProbePerRoute ==
    \A t, u \in active :
        /\ t.guarded /\ u.guarded /\ SameRoute(t.version, u.version) => t = u
        /\ t.guarded /\ t.version = u.version => t = u

\* The inductive invariant behind TicketsMatch and OneProbePerRoute.  A
\* configuration never reuses a version, because its revision is above that
\* of every version still in use; a ticket is guarded exactly while its
\* version is unproven; and nothing is left in the memory of a dead process.
RevisionsRise ==
    /\ DOMAIN conf # {}
    /\ \A v, w \in DOMAIN conf : v.rev = w.rev
    /\ \A v \in Live, w \in DOMAIN conf : v.rev <= w.rev
TicketInv ==
    /\ \A t \in active : Matching(t) /\ (t.guarded <=> Guarded(routes[t.version]))
    /\ \A t, u \in active :
          t.guarded /\ u.guarded /\ SameRoute(t.version, u.version) => t = u
DeadIsEmpty == ~up => Live = {} /\ active = {}
Inv == TypeOK /\ RevisionsRise /\ PinnedVersionsLive /\ TicketInv /\ DeadIsEmpty

\* While no save is in doubt the document on disk is the registry's current
\* routes, so a crash at any moment loses no evidence (_persist_locked runs
\* in every method that changes what _export_state_locked writes).
DocumentMatchesMemory == up /\ ~uncertain => disk = Export(routes, current)

\* The gateway never writes a document its own restore refuses: that would
\* keep every later process from starting (_restore_locked raises
\* breaker_state_action_flag_invalid or .._enabled_disabled_conflict).
DocumentRestorable == \A v \in DOMAIN disk : ~Unrestorable(disk[v])

\* A temporarily open route has a deadline, no further away than the policy's
\* maximum; acquire refuses an open route without one for ever.
CooldownBounded ==
    \A v \in Live : routes[v].state = "open_temporary" =>
        routes[v].openUntil \in 0..(now + MaxCooldown)

\* A route that opened has yet to earn its recovery: the credit it had while
\* closed does not survive the failure, a crash or a new revision
\* (consecutive_successes against recovery_success_threshold).
RecoveryIsEarned ==
    \A v \in Live :
        routes[v].state \in {"open_temporary", "open_action_required", "half_open"}
            => routes[v].successes < RecoverySuccessThreshold

\* The inductive invariant behind DocumentIsSound and OpenRouteCanRecover.
\* What a runtime may look like at time n: a route is off exactly when it is
\* disabled, an alarm belongs to a route that is open for it or being probed,
\* no deadline is out of reach, and the credit of a route that opened is short
\* of a recovery.
Sound(rt, n) ==
    /\ rt.state = "disabled" <=> ~rt.enabled
    /\ rt.actionRequired => rt.state \in {"half_open", "open_action_required"}
    /\ rt.openUntil <= n + MaxCooldown
    /\ rt.state = "open_temporary" => rt.openUntil # NoTime
    /\ rt.state \in {"open_temporary", "open_action_required", "half_open"}
          => rt.successes < RecoverySuccessThreshold

\* Every runtime, live or in the document, is sound; a route with tickets is
\* neither open nor disabled, so no late report reaches one that is; and the
\* document is the memory unless a save is in doubt.
UsableWithTickets ==
    \A t \in active : routes[t.version].state \in {"unknown", "closed", "half_open"}
SoundInv ==
    /\ \A v \in Live : Sound(routes[v], now)
    /\ \A v \in DOMAIN disk : Sound(disk[v], now)
    /\ UsableWithTickets
    /\ DocumentMatchesMemory

\* The rest of the invariant behind EvidenceKept: the registry and the file name
\* one version of a route, so the evidence has one place to go; and a route
\* that carries an alarm is tried by manual probes only.
EvidenceInv ==
    /\ \A v, w \in current : v.key = w.key => v = w
    /\ \A v, w \in DOMAIN conf : v.key = w.key => v = w
    /\ \A t \in active : routes[t.version].actionRequired => t.signal = "probe"

\* A route that waits for a person keeps waiting while it stays configured
\* and enabled, through new revisions and through crashes after which the
\* document still describes its version; only the success of a probe closes
\* it (action_required in configure_route, _restore_locked, record_success).
AlarmKept ==
    /\ up /\ up' =>
         \A v \in current, w \in current' :
            SameRoute(v, w) /\ routes[v].actionRequired /\ routes'[w].enabled
            => \/ routes'[w].actionRequired
               \/ /\ routes'[w].state = "closed"
                  /\ \E t \in active \ active' : t.version = v /\ t.signal = "probe"
    /\ ~up /\ up' =>
         \A v \in current' \cap DOMAIN disk :
            disk[v].actionRequired /\ disk[v].enabled = conf[v]
            => routes'[v].state = "open_action_required"
ActionRequiredHeld == [][AlarmKept]_vars

\* A cooldown is served in full: nothing but the clock ends it while the
\* route stays configured and enabled, and a restart never shortens it nor
\* lets a route that was being probed go without one.
CooldownKept ==
    /\ up /\ up' =>
         \A v \in current, w \in current' :
            /\ SameRoute(v, w) /\ routes'[w].enabled
            /\ routes[v].state = "open_temporary" /\ now < routes[v].openUntil
            => /\ routes'[w].state = "open_temporary"
               /\ routes'[w].openUntil = routes[v].openUntil
    /\ ~up /\ up' =>
         \A v \in current' \cap DOMAIN disk :
            /\ disk[v].enabled /\ conf[v] /\ ~disk[v].actionRequired
            /\ disk[v].state \in {"open_temporary", "half_open"}
            => /\ routes'[v].state = "open_temporary"
               /\ routes'[v].openUntil >= disk[v].openUntil
               /\ disk[v].state = "half_open" => routes'[v].openUntil > now
CooldownServed == [][CooldownKept]_vars

\* The document of the breaker is what memory holds and what the next process
\* accepts, after every operation, also one whose save failed.
DocumentIsSound == DocumentMatchesMemory /\ DocumentRestorable

\* A route that opened can recover, after a deadline it will reach, and does
\* so on fresh evidence only.
OpenRouteCanRecover == CooldownBounded /\ RecoveryIsEarned

\* What the failures of a route have earned it, an alarm or a cooldown, is not
\* forgotten by a new configuration or by a crash.
EvidenceKept == ActionRequiredHeld /\ CooldownServed
=============================================================================
