----------------------- MODULE FailoverRequest_proofs -----------------------
(***************************************************************************)
(* Proofs about CircuitBreaker, for every set of routes, every policy and  *)
(* every value of the bounds, and about FailoverRequest, for every number  *)
(* of requests and probes.  What is proved of the registry's operations in *)
(* the first part is used in the second for the operations that its        *)
(* callers really make.                                                    *)
(***************************************************************************)
EXTENDS FailoverRequest, FiniteSetTheorems, TLAPS

-----------------------------------------------------------------------------
(* What the operators on one runtime return *)

LEMMA FreshType ==
    ASSUME NEW e \in BOOLEAN PROVE Fresh(e) \in Runtime
BY DEF Fresh, Runtime, States, NoTime

LEMMA TransitionType ==
    ASSUME NEW rt \in Runtime, NEW s \in States
    PROVE  /\ Transition(rt, s) \in Runtime
           /\ Transition(rt, s).state = s
           /\ s = rt.state => Transition(rt, s).epoch = rt.epoch
<1>1. CASE rt.state = s
  BY <1>1 DEF Transition
<1>2. CASE rt.state # s
  <2>1. rt.epoch + 1 \in Nat
    BY DEF Runtime
  <2> QED BY <1>2, <2>1 DEF Transition, Runtime
<1> QED BY <1>1, <1>2

LEMMA ReconfiguredType ==
    ASSUME NEW rt \in Runtime, NEW same \in BOOLEAN, NEW e \in BOOLEAN
    PROVE  Reconfigured(rt, same, e) \in Runtime
<1>1. rt.epoch + 1 \in Nat
  BY DEF Runtime
<1>2. CASE ~same
  <2>1. [Fresh(e) EXCEPT !.epoch = rt.epoch + 1] \in Runtime
    BY <1>1, FreshType DEF Runtime
  <2> QED BY <1>2, <2>1 DEF Reconfigured
<1>3. CASE same /\ e /\ rt.enabled
  <2>1. [rt EXCEPT !.epoch = @ + 1] \in Runtime
    BY <1>1 DEF Runtime
  <2> QED BY <1>3, <2>1 DEF Reconfigured
<1>4. CASE same /\ ~(e /\ rt.enabled)
  <2>1. Fresh(e).state \in States
    BY FreshType DEF Runtime
  <2>2. NoTime \in Nat \cup {NoTime}
    OBVIOUS
  <2>3. [rt EXCEPT !.epoch = @ + 1, !.enabled = e, !.state = Fresh(e).state,
                   !.openUntil = NoTime, !.actionRequired = FALSE] \in Runtime
    BY <1>1, <2>1, <2>2 DEF Runtime
  <2> QED BY <1>4, <2>3 DEF Reconfigured
<1> QED BY <1>2, <1>3, <1>4

\* An open route is a transition, and stays typed whatever cooldown is drawn.
LEMMA OpenTemporaryType ==
    ASSUME NEW rt \in Runtime, NEW retry \in BOOLEAN, now \in Nat,
           NEW new \in OpenTemporary(rt, retry)
    PROVE  /\ new \in Runtime
           /\ new.state = rt.state => new.epoch = rt.epoch
<1>1. PICK n \in Nat, c \in BaseCooldown..MaxCooldown :
         new = Transition([rt EXCEPT !.openCount = n, !.openUntil = now + c],
                          "open_temporary")
  <2>1. Lesser(rt.openCount + 1, MaxOpenCount) \in Nat
    BY DEF Lesser, MaxOpenCount, Runtime
  <2>2. \A n : Cooldowns(n, retry) \subseteq BaseCooldown..MaxCooldown
    BY DEF Cooldowns
  <2> QED BY <2>1, <2>2 DEF OpenTemporary
<1>2. now + c \in Nat
  BY PolicyAssumption
<1>3. [rt EXCEPT !.openCount = n, !.openUntil = now + c] \in Runtime
  BY <1>2 DEF Runtime
<1> QED BY <1>1, <1>3, TransitionType DEF Runtime, States

LEMMA OpenActionRequiredType ==
    ASSUME NEW rt \in Runtime
    PROVE  /\ OpenActionRequired(rt) \in Runtime
           /\ OpenActionRequired(rt).state = rt.state
                 => OpenActionRequired(rt).epoch = rt.epoch
<1> DEFINE r == [rt EXCEPT !.actionRequired = TRUE, !.openUntil = NoTime]
<1>1. r \in Runtime /\ r.state = rt.state /\ r.epoch = rt.epoch
  BY DEF Runtime
<1> HIDE DEF r
<1>2. "open_action_required" \in States
  BY DEF States
<1>3. /\ Transition(r, "open_action_required") \in Runtime
      /\ Transition(r, "open_action_required").state = "open_action_required"
      /\ "open_action_required" = r.state
            => Transition(r, "open_action_required").epoch = r.epoch
  BY <1>1, <1>2, TransitionType
<1> QED BY <1>1, <1>3 DEF OpenActionRequired, r

LEMMA CloseType ==
    ASSUME NEW rt \in Runtime
    PROVE  /\ Close(rt) \in Runtime
           /\ Close(rt).state = "closed"
           /\ rt.state = "closed" => Close(rt).epoch = rt.epoch
           /\ Close(rt).enabled = rt.enabled
           /\ ~Close(rt).actionRequired /\ Close(rt).openUntil = NoTime
<1> DEFINE r == Transition(rt, "closed")
<1>1. /\ r \in Runtime /\ r.state = "closed"
      /\ rt.state = "closed" => r.epoch = rt.epoch
  BY TransitionType DEF States
<1>2. r.enabled = rt.enabled
  BY DEF Transition, Runtime
<1> HIDE DEF r
<1>3. Close(rt) = [r EXCEPT !.openCount = 0, !.actionRequired = FALSE,
                            !.openUntil = NoTime]
  BY DEF Close, r
<1>4. NoTime \in Nat \cup {NoTime} /\ 0 \in Nat
  OBVIOUS
<1>5. Close(rt) \in Runtime
  BY <1>1, <1>3, <1>4 DEF Runtime
<1>6. /\ Close(rt).state = r.state /\ Close(rt).epoch = r.epoch
      /\ Close(rt).enabled = r.enabled
      /\ ~Close(rt).actionRequired /\ Close(rt).openUntil = NoTime
  BY <1>1, <1>3 DEF Runtime
<1> QED BY <1>1, <1>2, <1>5, <1>6

LEMMA WindowedType ==
    ASSUME NEW s \in Seq(BOOLEAN), NEW b \in BOOLEAN
    PROVE  Windowed(Append(s, b)) \in Seq(BOOLEAN)
<1> DEFINE a == Append(s, b)
<1>1. a \in Seq(BOOLEAN) /\ a # << >>
  OBVIOUS
<1> HIDE DEF a
<1>2. Tail(a) \in Seq(BOOLEAN)
  BY <1>1
<1>3. Windowed(a) \in Seq(BOOLEAN)
  BY <1>1, <1>2 DEF Windowed
<1> QED BY <1>3 DEF a

LEMMA CreditedType ==
    ASSUME NEW rt \in Runtime PROVE Credited(rt) \in Nat
BY PolicyAssumption DEF Credited, Lesser, Runtime

\* A success keeps the epoch unless it changes the state.
LEMMA SuccessType ==
    ASSUME NEW rt \in Runtime, NEW sig \in Signals
    PROVE  /\ Success(rt, sig) \in Runtime
           /\ Success(rt, sig).state = rt.state
                 => Success(rt, sig).epoch = rt.epoch
<1>1. CASE sig = "probe"
  <2> DEFINE r == [rt EXCEPT !.successes = Credited(rt)]
  <2>1. r \in Runtime /\ r.state = rt.state /\ r.epoch = rt.epoch
    BY CreditedType DEF Runtime
  <2> HIDE DEF r
  <2>2. CASE rt.state = "unknown"
    <3>1. Success(rt, sig) = Close(rt)
      BY <1>1, <2>2 DEF Success
    <3> QED BY <3>1, <2>2, CloseType
  <2>3. CASE rt.state = "half_open"
    <3>1. Success(rt, sig) = Close(r) \/ Success(rt, sig) = r
      BY <1>1, <2>3 DEF Success, r
    <3> QED BY <3>1, <2>1, <2>3, CloseType
  <2>4. CASE rt.state # "unknown" /\ rt.state # "half_open"
    <3>1. Success(rt, sig) = rt
      BY <1>1, <2>4 DEF Success
    <3> QED BY <3>1
  <2> QED BY <2>2, <2>3, <2>4
<1>2. CASE sig # "probe"
  <2> DEFINE r == [rt EXCEPT !.outcomes = Windowed(Append(@, FALSE)),
                             !.failures = 0, !.protocolFailures = 0,
                             !.successes = Credited(rt)]
  <2>1. r \in Runtime /\ r.state = rt.state /\ r.epoch = rt.epoch
    <3>1. Windowed(Append(rt.outcomes, FALSE)) \in Seq(BOOLEAN)
      BY WindowedType DEF Runtime
    <3> QED BY <3>1, CreditedType DEF Runtime
  <2>2. \/ Success(rt, sig) = r
        \/ rt.state = "unknown"
           /\ Success(rt, sig) = [Close(r) EXCEPT !.openUntil = rt.openUntil]
        \/ rt.state = "half_open"
           /\ Success(rt, sig) = [Close(r) EXCEPT !.outcomes = Recovered(r)]
    BY <1>2 DEF Success
  <2> HIDE DEF r
  <2>3. Recovered(r) \in Seq(BOOLEAN)
    <3>1. \A n \in Nat : [i \in 1..n |-> FALSE] \in Seq(BOOLEAN)
      OBVIOUS
    <3>2. r.successes \in Nat
      BY <2>1 DEF Runtime
    <3> QED BY <3>1, <3>2 DEF Recovered
  <2>4. Close(r) \in Runtime /\ Close(r).state = "closed"
    BY <2>1, CloseType
  <2>5. rt.openUntil \in Nat \cup {NoTime}
    BY DEF Runtime
  <2>6. [Close(r) EXCEPT !.openUntil = rt.openUntil] \in Runtime
    BY <2>4, <2>5 DEF Runtime
  <2>7. [Close(r) EXCEPT !.outcomes = Recovered(r)] \in Runtime
    BY <2>3, <2>4 DEF Runtime
  <2>8. /\ [Close(r) EXCEPT !.openUntil = rt.openUntil].state = "closed"
        /\ [Close(r) EXCEPT !.outcomes = Recovered(r)].state = "closed"
    BY <2>4 DEF Runtime
  <2> QED BY <2>1, <2>2, <2>6, <2>7, <2>8
<1> QED BY <1>1, <1>2

\* A failure leaves the runtime without credit, as it is or opened.
LEMMA FailureShape ==
    ASSUME NEW rt \in Runtime, NEW sig \in Signals, NEW kind \in FailureKinds,
           NEW new \in Failure(rt, sig, kind)
    PROVE  \E r \in Runtime :
              /\ r.state = rt.state /\ r.epoch = rt.epoch
              /\ r.enabled = rt.enabled /\ r.successes = 0
              /\ r.actionRequired = rt.actionRequired
              /\ r.openUntil = rt.openUntil
              /\ \/ new = r
                 \/ new = OpenActionRequired(r)
                 \/ /\ new \in OpenTemporary(r, kind = "rate_limited")
                    /\ ~NeedsAction(rt, kind)
<1>1. CASE sig = "probe"
  <2> DEFINE r == [rt EXCEPT !.successes = 0]
  <2>1. /\ r \in Runtime /\ r.state = rt.state /\ r.epoch = rt.epoch
        /\ r.enabled = rt.enabled /\ r.successes = 0
        /\ r.actionRequired = rt.actionRequired /\ r.openUntil = rt.openUntil
    BY DEF Runtime
  <2>2. \/ new = r
        \/ new = OpenActionRequired(r)
        \/ /\ new \in OpenTemporary(r, kind = "rate_limited")
           /\ ~NeedsAction(rt, kind)
    BY <1>1 DEF Failure
  <2> QED BY <2>1, <2>2
<1>2. CASE sig # "probe"
  <2> DEFINE r == [rt EXCEPT
                     !.outcomes = Windowed(Append(@, TRUE)),
                     !.failures = @ + 1, !.successes = 0,
                     !.protocolFailures = IF kind = "protocol" THEN @ + 1 ELSE 0]
  <2>1. /\ r \in Runtime /\ r.state = rt.state /\ r.epoch = rt.epoch
        /\ r.enabled = rt.enabled /\ r.successes = 0
        /\ r.actionRequired = rt.actionRequired /\ r.openUntil = rt.openUntil
    <3>1. Windowed(Append(rt.outcomes, TRUE)) \in Seq(BOOLEAN)
      BY WindowedType DEF Runtime
    <3>2. /\ rt.failures + 1 \in Nat
          /\ (IF kind = "protocol" THEN rt.protocolFailures + 1 ELSE 0) \in Nat
      BY DEF Runtime
    <3> QED BY <3>1, <3>2 DEF Runtime
  <2>2. \/ new = r
        \/ new = OpenActionRequired(r)
        \/ /\ new \in OpenTemporary(r, kind = "rate_limited")
           /\ ~NeedsAction(rt, kind)
    BY <1>2 DEF Failure
  <2> QED BY <2>1, <2>2
<1> QED BY <1>1, <1>2

\* It keeps the epoch unless it changes the state, whatever its kind and
\* whatever cooldown is drawn.
LEMMA FailureType ==
    ASSUME NEW rt \in Runtime, NEW sig \in Signals, NEW kind \in FailureKinds,
           now \in Nat, NEW new \in Failure(rt, sig, kind)
    PROVE  /\ new \in Runtime
           /\ new.state = rt.state => new.epoch = rt.epoch
<1>1. PICK r \in Runtime :
         /\ r.state = rt.state /\ r.epoch = rt.epoch
         /\ \/ new = r
            \/ new = OpenActionRequired(r)
            \/ new \in OpenTemporary(r, kind = "rate_limited")
  BY FailureShape
<1>2. (kind = "rate_limited") \in BOOLEAN
  OBVIOUS
<1> QED BY <1>1, <1>2, OpenTemporaryType, OpenActionRequiredType

LEMMA RestoredType ==
    ASSUME NEW rt \in Runtime, now \in Nat
    PROVE  Restored(rt) \in Runtime
<1>1. rt.epoch + 1 \in Nat /\ now + BaseCooldown \in Nat
  BY PolicyAssumption DEF Runtime
<1>2. (IF rt.openUntil < now + BaseCooldown THEN now + BaseCooldown
       ELSE rt.openUntil) \in Nat \cup {NoTime}
  BY <1>1 DEF Runtime
<1>3. NoTime \in Nat \cup {NoTime} /\ now + BaseCooldown \in Nat \cup {NoTime}
  BY <1>1
<1>4. /\ [rt EXCEPT !.state = "disabled"] \in Runtime
      /\ [rt EXCEPT !.epoch = @ + 1, !.state = "open_action_required",
                    !.openUntil = NoTime] \in Runtime
      /\ [rt EXCEPT !.openUntil = now + BaseCooldown] \in Runtime
      /\ [rt EXCEPT !.actionRequired = TRUE, !.openUntil = NoTime] \in Runtime
  BY <1>1, <1>3 DEF Runtime, States
<1>5. [rt EXCEPT !.epoch = @ + 1, !.state = "open_temporary",
                 !.openUntil = IF @ < now + BaseCooldown
                               THEN now + BaseCooldown ELSE @] \in Runtime
  BY <1>1, <1>2 DEF Runtime, States
<1> QED BY <1>4, <1>5 DEF Restored

-----------------------------------------------------------------------------
(* Documents and configurations *)

DocType(d) == d \in [DOMAIN d -> Runtime] /\ DOMAIN d \subseteq Versions

LEMMA ExportType ==
    ASSUME NEW rs, NEW cs \in SUBSET Versions, \A v \in cs : rs[v] \in Runtime
    PROVE  DocType(Export(rs, cs)) /\ DOMAIN Export(rs, cs) = cs
BY DEF DocType, Export

\* Every configuration names at least one version, all of its revision.
LEMMA RegistrationsShape ==
    ASSUME NEW rev \in Revisions, NEW regs \in Registrations(rev)
    PROVE  /\ regs \in [DOMAIN regs -> BOOLEAN]
           /\ DOMAIN regs \subseteq Versions
           /\ DOMAIN regs # {}
           /\ \A v \in DOMAIN regs : v.rev = rev
<1>1. PICK S \in (SUBSET Keys) \ {{}}, fp \in [Keys -> Fingerprints] :
         regs \in [Batch(rev, S, fp) -> BOOLEAN]
  BY DEF Registrations
<1> DEFINE D == Batch(rev, S, fp)
<1>2. DOMAIN regs = D /\ regs \in [D -> BOOLEAN]
  BY <1>1
<1>3. D \subseteq Versions
  BY DEF Versions, Batch
<1>4. D # {}
  <2>1. PICK k \in S : TRUE
    OBVIOUS
  <2>2. [key |-> k, rev |-> rev, fp |-> fp[k]] \in D
    BY <2>1 DEF Batch
  <2> QED BY <2>2
<1>5. \A v \in D : v.rev = rev
  BY DEF Batch
<1> HIDE DEF D
<1> QED BY <1>2, <1>3, <1>4, <1>5

\* The next revision is above every revision in use.
LEMMA NextRevisionRises ==
    ASSUME TypeOK, RevisionsRise
    PROVE  /\ \A v \in DOMAIN conf : v.rev = NextRevision - 1
           /\ \A v \in Live : v.rev < NextRevision
           /\ NextRevision \in Nat
<1> DEFINE w == CHOOSE v \in DOMAIN conf : TRUE
<1>1. w \in DOMAIN conf
  BY DEF RevisionsRise
<1>2. NextRevision = 1 + w.rev
  BY DEF NextRevision
<1> HIDE DEF w
<1>3. /\ \A v \in DOMAIN conf : v.rev = w.rev
      /\ \A v \in Live : v.rev <= w.rev
  BY <1>1 DEF RevisionsRise
<1>4. /\ \A v \in DOMAIN conf : v.rev \in Nat
      /\ \A v \in Live : v.rev \in Nat
  BY BoundAssumption DEF TypeOK, Versions, Revisions
<1> QED BY <1>1, <1>2, <1>3, <1>4

\* A step that leaves the registry's memory alone keeps the invariant.
LEMMA MemoryUnchanged ==
    ASSUME Inv, UNCHANGED <<routes, current, active, pins, lease, leaseSeq, conf, up>>,
           uncertain' \in BOOLEAN, now' \in Nat, DocType(disk')
    PROVE  Inv'
BY DEF Inv, TypeOK, RevisionsRise, PinnedVersionsLive, TicketInv, DeadIsEmpty,
       Live, Matching, Guarded, DocType

\* The save whose result is not known.
LEMMA DoubtKeepsInv ==
    ASSUME Inv, NEW doc, DocType(doc), disk' \in {disk, doc}, uncertain' = TRUE,
           UNCHANGED <<routes, current, active, lease, leaseSeq, conf, pins, up, now>>
    PROVE  Inv'
<1>1. DocType(disk') /\ now' \in Nat /\ uncertain' \in BOOLEAN
  BY DEF Inv, TypeOK, DocType
<1> QED BY <1>1, MemoryUnchanged

-----------------------------------------------------------------------------
(* Every action keeps the invariant *)

\* The common part of the actions that save: a change of memory that keeps
\* the invariant with the new document keeps it whatever the save does.
LEMMA PersistKeepsInv ==
    ASSUME Inv, NEW doc, DocType(doc), NEW commit \in BOOLEAN,
           Persist(commit, doc), UNCHANGED <<pins, up, now>>,
           commit /\ disk' = doc /\ UNCHANGED uncertain => Inv'
    PROVE  Inv'
<1>1. CASE commit /\ disk' = doc /\ UNCHANGED uncertain
  BY <1>1
<1>2. CASE /\ disk' \in {disk, doc} /\ uncertain' = TRUE
           /\ UNCHANGED <<routes, current, active, lease, leaseSeq, conf>>
  BY <1>2, DoubtKeepsInv
<1> QED BY <1>1, <1>2 DEF Persist

LEMMA InitialType ==
    ASSUME TypeOK, NEW v, NEW e \in BOOLEAN
    PROVE  Initial(v, e) \in Runtime
<1>1. CASE \E w \in current : w.key = v.key
  <2> DEFINE w == CHOOSE w \in current : w.key = v.key
  <2>1. w \in current
    BY <1>1
  <2>2. Initial(v, e) = Reconfigured(routes[w], w.fp = v.fp, e)
    BY <1>1 DEF Initial
  <2> HIDE DEF w
  <2>3. routes[w] \in Runtime /\ (w.fp = v.fp) \in BOOLEAN
    BY <2>1 DEF TypeOK, Live
  <2> QED BY <2>2, <2>3, ReconfiguredType
<1>2. CASE ~ \E w \in current : w.key = v.key
  BY <1>2, FreshType DEF Initial
<1> QED BY <1>1, <1>2

\* A new configuration: its versions are new, and every version that a
\* request pins or a ticket names survives with its runtime.
LEMMA ConfigureKeepsInv ==
    ASSUME Inv, NextRevision \in Revisions,
           NEW regs \in Registrations(NextRevision), Configure(regs)
    PROVE  Inv'
<1> DEFINE rs == Configured(regs)
           D  == DOMAIN regs
<1>1. /\ regs \in [D -> BOOLEAN] /\ D \subseteq Versions /\ D # {}
      /\ \A v \in D : v.rev = NextRevision
  BY RegistrationsShape
<1>2. /\ \A v \in Live : v.rev < NextRevision
      /\ NextRevision \in Nat
  BY NextRevisionRises DEF Inv
<1>3. \A v \in Live : v \notin D
  BY <1>1, <1>2
<1>4. /\ D \subseteq DOMAIN rs /\ DOMAIN rs \subseteq Live \cup D
      /\ \A v \in D : rs[v] = Initial(v, regs[v])
      /\ \A v \in DOMAIN rs : v \notin D => rs[v] = routes[v]
      /\ \A v \in Live : pins[v] > 0 \/ TicketsOf(v) # {} => v \in DOMAIN rs
      /\ rs = [v \in DOMAIN rs |-> rs[v]]
  BY DEF Configured
<1> HIDE DEF rs, D
<1>5. \A v \in DOMAIN rs : rs[v] \in Runtime
  BY <1>1, <1>4, InitialType DEF Inv, TypeOK, Live
<1>6. DocType(Export(rs, D))
  BY <1>1, <1>4, <1>5, ExportType
<1>7. ASSUME routes' = rs, current' = D, conf' = regs, disk' = Export(rs, D),
             UNCHANGED <<active, pins, lease, leaseSeq, uncertain, up, now>>, up
      PROVE  Inv'
  <2>1. TypeOK'
    <3>1. DOMAIN rs \subseteq Versions /\ rs \in [DOMAIN rs -> Runtime]
      BY <1>1, <1>4, <1>5 DEF Inv, TypeOK
    <3> QED BY <1>1, <1>4, <1>6, <1>7, <3>1 DEF Inv, TypeOK, Live, DocType, D
  <2>2. RevisionsRise'
    <3>1. \A v \in DOMAIN rs : v.rev <= NextRevision
      BY <1>1, <1>2, <1>4 DEF Inv, TypeOK, Versions, Revisions
    <3> QED BY <1>1, <1>7, <3>1 DEF RevisionsRise, Live, D
  <2>3. PinnedVersionsLive'
    BY <1>4, <1>7 DEF Inv, PinnedVersionsLive, Live
  <2>4. TicketInv'
    <3>1. \A t \in active : /\ t.version \in Live
                            /\ t.version \in DOMAIN rs
                            /\ rs[t.version] = routes[t.version]
      <4> TAKE t \in active
      <4>1. t.version \in Live /\ t \in TicketsOf(t.version)
        BY DEF Inv, TicketInv, Matching, TicketsOf
      <4> QED BY <4>1, <1>3, <1>4
    <3> QED BY <1>7, <3>1 DEF Inv, TicketInv, Matching, Live
  <2> QED BY <1>7, <2>1, <2>2, <2>3, <2>4 DEF Inv, DeadIsEmpty
<1>8. UNCHANGED <<pins, up, now>> /\ up
  BY DEF Configure
<1>9. Persist(/\ routes' = rs /\ current' = D /\ conf' = regs
              /\ UNCHANGED <<active, lease, leaseSeq>>, Export(rs, D))
  BY DEF Configure, rs, D
<1> QED BY <1>6, <1>7, <1>8, <1>9, PersistKeepsInv

LEMMA PinKeepsInv ==
    ASSUME Inv, NEW vs \in SUBSET Live, Pin(vs) PROVE Inv'
<1>1. \A v \in Versions : pins[v] \in Nat
  BY DEF Inv, TypeOK
<1>2. pins' \in [Versions -> Nat]
  BY <1>1 DEF Pin
<1>3. TypeOK'
  BY <1>2 DEF Inv, TypeOK, Pin, Live
<1>4. PinnedVersionsLive'
  BY <1>1 DEF Inv, PinnedVersionsLive, Pin, Live
<1> QED BY <1>3, <1>4 DEF Inv, Pin, RevisionsRise, TicketInv, Matching, Live,
                          DeadIsEmpty

LEMMA ReleaseKeepsInv ==
    ASSUME Inv, NEW vs \in SUBSET Live, Release(vs) PROVE Inv'
<1> DEFINE S == {v \in vs : /\ v \notin current /\ pins[v] = 1
                            /\ TicketsOf(v) = {}}
<1>1. \A v \in Versions : pins[v] \in Nat
  BY DEF Inv, TypeOK
<1>2. pins' \in [Versions -> Nat]
  BY <1>1 DEF Release
<1>3. routes' = Without(routes, S) /\ up
  BY DEF Release
<1>4. \A t \in active : t.version \notin S
  BY DEF TicketsOf
<1>5. /\ \A v \in current : v \notin S
      /\ \A v \in Versions : pins'[v] > 0 => v \notin S
  BY <1>1 DEF Release
<1> HIDE DEF S
<1>6. /\ DOMAIN routes' = Live \ S
      /\ \A v \in Live \ S : routes'[v] = routes[v]
      /\ routes' = [v \in Live \ S |-> routes'[v]]
  BY <1>3 DEF Without, Live
<1>7. TypeOK'
  <2>1. routes' \in [Live \ S -> Runtime]
    BY <1>6 DEF Inv, TypeOK
  <2> QED BY <1>2, <1>5, <1>6, <2>1 DEF Inv, TypeOK, Release, Live
<1>8. PinnedVersionsLive'
  BY <1>1, <1>5, <1>6 DEF Inv, PinnedVersionsLive, Release, Live
<1>9. TicketInv'
  BY <1>4, <1>6 DEF Inv, TicketInv, Matching, Release, Live
<1>10. RevisionsRise'
  BY <1>6 DEF Inv, RevisionsRise, Release, Live
<1> QED BY <1>3, <1>7, <1>8, <1>9, <1>10 DEF Inv, DeadIsEmpty, Release

\* The runtime acquire checks the lease against is typed.
LEMMA AdmittingType ==
    ASSUME TypeOK, NEW v \in Live, NEW manual \in BOOLEAN
    PROVE  Admitting(v, manual) \in Runtime
<1>1. routes[v] \in Runtime
  BY DEF TypeOK, Live
<1> QED BY <1>1, TransitionType DEF Admitting, States

\* One version gets another runtime: what stays typed.
LEMMA ReplaceType ==
    ASSUME TypeOK, NEW v \in Live, NEW rt \in Runtime
    PROVE  /\ [routes EXCEPT ![v] = rt] \in [Live -> Runtime]
           /\ DocType(Export([routes EXCEPT ![v] = rt], current))
<1>1. [routes EXCEPT ![v] = rt] \in [Live -> Runtime]
  BY DEF TypeOK, Live
<1>2. \A w \in current : [routes EXCEPT ![v] = rt][w] \in Runtime
  BY <1>1 DEF TypeOK
<1>3. current \in SUBSET Versions
  BY DEF TypeOK
<1> QED BY <1>1, <1>2, <1>3, ExportType

LEMMA AcquireKeepsInv ==
    ASSUME Inv, NEW v \in Live, NEW a \in Attempts, NEW manual \in BOOLEAN,
           NEW signal \in Signals, Acquire(v, a, manual, signal)
    PROVE  Inv'
<1> DEFINE rt == Admitting(v, manual)
           t  == NewTicket(v, a, manual, signal)
           R  == Remaining(v, manual)
<1>1. rt \in Runtime
  BY AdmittingType DEF Inv
<1>2. /\ t.version = v /\ t.epoch = rt.epoch /\ t.lease = leaseSeq + 1
      /\ t.guarded = Guarded(rt)
  BY DEF NewTicket
<1>3. t \in Ticket
  <2>1. rt.epoch \in Nat /\ leaseSeq + 1 \in Nat /\ v \in Versions
    BY <1>1 DEF Runtime, Inv, TypeOK
  <2>2. Guarded(rt) \in BOOLEAN
    BY DEF Guarded
  <2>3. (IF manual THEN "probe" ELSE signal) \in Signals
    BY DEF Signals
  <2> HIDE DEF rt
  <2>4. t = [version |-> v, epoch |-> rt.epoch, lease |-> leaseSeq + 1,
             attempt |-> a, guarded |-> Guarded(rt),
             signal |-> IF manual THEN "probe" ELSE signal]
    BY DEF NewTicket, rt
  <2> HIDE DEF t
  <2> QED BY <2>1, <2>2, <2>3, <2>4 DEF Ticket
<1>4. ~Busy(v, manual) /\ up
  BY DEF Acquire, Admits
<1>5. /\ R \subseteq active
      /\ \A u \in R : u.version = v => rt = routes[v]
      /\ \A u \in R : Guarded(rt) /\ u.guarded => ~SameRoute(u.version, v)
  BY <1>4 DEF Remaining, Admitting, TicketsOf, Busy
<1>6. \A u \in R : u.version = v => ~u.guarded /\ ~Guarded(rt)
  <2> SUFFICES ASSUME NEW u \in R, u.version = v
               PROVE  ~u.guarded /\ ~Guarded(rt)
    OBVIOUS
  <2>1. rt = routes[v] /\ (u.guarded <=> Guarded(routes[u.version]))
    BY <1>5 DEF Inv, TicketInv
  <2>2. SameRoute(u.version, v)
    BY DEF SameRoute
  <2> QED BY <1>5, <2>1, <2>2
<1>7. UNCHANGED <<pins, up, now>>
  BY DEF Acquire
<1>8. DocType(Export([routes EXCEPT ![v] = rt], current))
  BY <1>1, ReplaceType DEF Inv
<1> DEFINE commit == /\ routes' = [routes EXCEPT ![v] = rt]
                     /\ active' = R \cup {t}
                     /\ lease' = [lease EXCEPT ![v] = IF t.guarded THEN t.lease ELSE @]
                     /\ leaseSeq' = leaseSeq + 1
                     /\ UNCHANGED <<current, conf>>
<1>9. ASSUME commit, uncertain' \in BOOLEAN, DocType(disk') PROVE Inv'
  <2> USE <1>9
  <2> HIDE DEF rt, t, R
  <2>1. /\ DOMAIN routes' = Live /\ routes'[v] = rt
        /\ \A w \in Live \ {v} : routes'[w] = routes[w]
        /\ routes' \in [Live -> Runtime]
    BY <1>1, ReplaceType DEF Inv, TypeOK, Live
  <2>2. /\ lease' \in [Versions -> Nat] /\ leaseSeq' \in Nat
        /\ t.guarded => lease'[v] = t.lease
        /\ \A w \in Versions \ {v} : lease'[w] = lease[w]
    <3>1. v \in Versions /\ t.lease \in Nat
      BY <1>2, <1>3 DEF Inv, TypeOK, Ticket
    <3>2. (IF t.guarded THEN t.lease ELSE lease[v]) \in Nat
      BY <3>1 DEF Inv, TypeOK
    <3> QED BY <3>1, <3>2 DEF Inv, TypeOK
  <2>3. TypeOK'
    <3>1. active' \subseteq Ticket
      BY <1>3, <1>5 DEF Inv, TypeOK
    <3> QED BY <1>7, <2>1, <2>2, <3>1 DEF Inv, TypeOK, Live, DocType
  <2>4. TicketInv'
    <3>1. ASSUME NEW u \in active'
          PROVE  Matching(u)' /\ (u.guarded <=> Guarded(routes'[u.version]))
      <4>1. CASE u = t
        <5>1. u \in active' /\ u.version \in DOMAIN routes'
          BY <1>2, <2>1, <4>1
        <5> QED BY <1>2, <2>1, <2>2, <4>1, <5>1 DEF Matching, Live
      <4>2. CASE u \in R /\ u.version = v
        <5>1. ~u.guarded /\ ~Guarded(rt) /\ rt = routes[v] /\ routes[v].epoch = u.epoch
          BY <1>5, <1>6, <4>2 DEF Inv, TicketInv, Matching
        <5> QED BY <2>1, <4>2, <5>1 DEF Matching, Live
      <4>3. CASE u \in R /\ u.version # v
        <5>1. /\ u.version \in Live \ {v} /\ u.version \in Versions \ {v}
              /\ routes[u.version].epoch = u.epoch
              /\ u.guarded => lease[u.version] = u.lease
              /\ u.guarded <=> Guarded(routes[u.version])
          BY <1>5, <4>3 DEF Inv, TicketInv, Matching, TypeOK
        <5> QED BY <2>1, <2>2, <4>3, <5>1 DEF Matching, Live
      <4> QED BY <4>1, <4>2, <4>3
    <3>2. ASSUME NEW u \in active', NEW w \in active', u.guarded, w.guarded,
                 SameRoute(u.version, w.version)
          PROVE  u = w
      <4>1. CASE u \in R /\ w \in R
        BY <1>5, <3>2, <4>1 DEF Inv, TicketInv
      <4>2. CASE u = t /\ w \in R
        BY <1>2, <1>5, <3>2, <4>2 DEF SameRoute
      <4>3. CASE w = t /\ u \in R
        BY <1>2, <1>5, <3>2, <4>3 DEF SameRoute
      <4> QED BY <4>1, <4>2, <4>3
    <3> QED BY <3>1, <3>2 DEF TicketInv
  <2>5. RevisionsRise' /\ PinnedVersionsLive' /\ DeadIsEmpty'
    BY <1>4, <1>7, <2>1 DEF Inv, RevisionsRise, PinnedVersionsLive, DeadIsEmpty, Live
  <2> QED BY <2>3, <2>4, <2>5 DEF Inv
<1>10. CASE Reopens(v, manual)
  <2>1. Persist(commit, Export([routes EXCEPT ![v] = rt], current))
    BY <1>10 DEF Acquire
  <2>2. uncertain \in BOOLEAN
    BY DEF Inv, TypeOK
  <2> HIDE DEF rt
  <2>3. commit \in BOOLEAN
    OBVIOUS
  <2> HIDE DEF commit
  <2> QED BY <1>7, <1>8, <1>9, <2>1, <2>2, <2>3, PersistKeepsInv
<1>11. CASE ~Reopens(v, manual)
  <2>1. commit /\ UNCHANGED <<disk, uncertain>>
    BY <1>11 DEF Acquire
  <2>2. uncertain \in BOOLEAN /\ DocType(disk)
    BY DEF Inv, TypeOK, DocType
  <2> HIDE DEF commit
  <2> QED BY <1>9, <2>1, <2>2 DEF DocType
<1> QED BY <1>10, <1>11

\* The route moves to HALF_OPEN and its tickets go with it.
LEMMA AcquireBusyKeepsInv ==
    ASSUME Inv, NEW v \in Live, NEW manual \in BOOLEAN, AcquireBusy(v, manual)
    PROVE  Inv'
<1> DEFINE rt == Admitting(v, manual)
           R  == Remaining(v, manual)
           commit == /\ routes' = [routes EXCEPT ![v] = rt]
                     /\ active' = R
                     /\ lease' = [lease EXCEPT ![v] = NoLease]
                     /\ UNCHANGED <<current, leaseSeq, conf>>
<1>1. rt \in Runtime
  BY AdmittingType DEF Inv
<1>2. R \subseteq active /\ \A u \in R : u.version # v
  BY DEF Remaining, TicketsOf, AcquireBusy
<1>3. up /\ UNCHANGED <<pins, up, now>>
  BY DEF AcquireBusy
<1>4. Persist(commit, Export([routes EXCEPT ![v] = rt], current))
  BY DEF AcquireBusy
<1>5. DocType(Export([routes EXCEPT ![v] = rt], current))
  BY <1>1, ReplaceType DEF Inv
<1> HIDE DEF rt, R
<1>6. ASSUME commit, uncertain' \in BOOLEAN, DocType(disk') PROVE Inv'
  <2> USE <1>6
  <2>1. /\ DOMAIN routes' = Live /\ routes' \in [Live -> Runtime]
        /\ \A w \in Live \ {v} : routes'[w] = routes[w]
    BY <1>1, ReplaceType DEF Inv, TypeOK, Live
  <2>2. /\ lease' \in [Versions -> Nat]
        /\ \A w \in Versions \ {v} : lease'[w] = lease[w]
    BY DEF Inv, TypeOK, NoLease
  <2>3. TypeOK'
    BY <1>2, <1>3, <2>1, <2>2 DEF Inv, TypeOK, Live, DocType
  <2>4. TicketInv'
    <3>1. \A u \in active' :
             /\ u \in active /\ u.version \in Live \ {v}
             /\ u.version \in Versions \ {v}
      BY <1>2 DEF Inv, TicketInv, Matching, TypeOK
    <3> QED BY <2>1, <2>2, <3>1 DEF Inv, TicketInv, Matching, Live
  <2>5. RevisionsRise' /\ PinnedVersionsLive' /\ DeadIsEmpty'
    BY <1>3, <2>1 DEF Inv, RevisionsRise, PinnedVersionsLive, DeadIsEmpty, Live
  <2> QED BY <2>3, <2>4, <2>5 DEF Inv
<1>7. commit \in BOOLEAN /\ uncertain \in BOOLEAN
  BY DEF Inv, TypeOK
<1> HIDE DEF commit
<1> QED BY <1>3, <1>4, <1>5, <1>6, <1>7, PersistKeepsInv

\* A report or an abandoned ticket: the version is pruned or gets the runtime
\* rt, which has another epoch only if it has another state, and then every
\* ticket of the version goes.
LEMMA SettledKeepsInv ==
    ASSUME Inv, up, NEW t \in active, NEW rt \in Runtime,
           rt.state = routes[t.version].state => rt.epoch = routes[t.version].epoch,
           routes' = Observed(t, rt), active' = Settled(t, rt),
           lease' = Unleased(t, rt), uncertain' \in BOOLEAN, DocType(disk'),
           UNCHANGED <<current, pins, leaseSeq, conf, up, now>>
    PROVE  Inv'
<1> DEFINE v == t.version
<1>1. v \in Live /\ v \in Versions /\ t.lease \in Nat
  BY DEF Inv, TypeOK, TicketInv, Matching, Ticket
<1>2. /\ DOMAIN routes' \subseteq Live
      /\ routes' \in [DOMAIN routes' -> Runtime]
      /\ \A w \in Live \ {v} : w \in DOMAIN routes' /\ routes'[w] = routes[w]
  <2>1. CASE Prunable(v, active \ {t})
    BY <2>1 DEF Observed, Without, Inv, TypeOK, Live
  <2>2. CASE ~Prunable(v, active \ {t})
    BY <1>1, <2>2 DEF Observed, Inv, TypeOK, Live
  <2> QED BY <2>1, <2>2
<1>3. v \notin DOMAIN routes' => Prunable(v, active \ {t})
  BY <1>1 DEF Observed, Live
<1>4. v \in current \/ pins[v] > 0 => v \in DOMAIN routes'
  BY <1>1, <1>3 DEF Prunable
<1>5. active' \subseteq active \ {t}
  BY DEF Settled, TicketsOf
<1>6. /\ lease' \in [Versions -> Nat]
      /\ \A w \in Versions \ {v} : lease'[w] = lease[w]
  BY <1>1 DEF Unleased, Inv, TypeOK, NoLease
<1>7. TypeOK'
  BY <1>2, <1>4, <1>5, <1>6 DEF Inv, TypeOK, Live, DocType
<1>8. PinnedVersionsLive'
  BY <1>2, <1>4 DEF Inv, PinnedVersionsLive, Live
<1>9. TicketInv'
  <2>1. ASSUME NEW u \in active'
        PROVE  Matching(u)' /\ (u.guarded <=> Guarded(routes'[u.version]))
    <3>1. /\ u \in active /\ u # t /\ u.version \in Live /\ u.version \in Versions
          /\ routes[u.version].epoch = u.epoch
          /\ u.guarded => lease[u.version] = u.lease
          /\ u.guarded <=> Guarded(routes[u.version])
      BY <1>5 DEF Inv, TypeOK, TicketInv, Matching
    <3>2. CASE u.version # v
      BY <1>2, <1>6, <2>1, <3>1, <3>2 DEF Matching, Live
    <3>3. CASE u.version = v
      <4>1. rt.state = routes[v].state
        BY <2>1, <3>1, <3>3 DEF Settled, TicketsOf
      <4>2. ~Prunable(v, active \ {t})
        BY <3>1, <3>3 DEF Prunable
      <4>3. v \in DOMAIN routes' /\ routes'[v] = rt
        BY <1>1, <4>2 DEF Observed, Live
      <4>4. ~u.guarded
        <5>1. u.guarded => t.guarded
          BY <3>1, <3>3 DEF Inv, TicketInv
        <5>2. SameRoute(t.version, u.version)
          BY <3>3 DEF SameRoute
        <5> QED BY <3>1, <5>1, <5>2 DEF Inv, TicketInv
      <4>5. Guarded(rt) <=> Guarded(routes[v])
        BY <4>1 DEF Guarded
      <4> QED BY <2>1, <3>1, <3>3, <4>1, <4>3, <4>4, <4>5 DEF Matching, Live
    <3> QED BY <3>2, <3>3
  <2> QED BY <1>5, <2>1 DEF Inv, TicketInv
<1>10. RevisionsRise' /\ DeadIsEmpty'
  BY <1>2 DEF Inv, RevisionsRise, DeadIsEmpty, Live
<1> QED BY <1>7, <1>8, <1>9, <1>10 DEF Inv

LEMMA ObserveKeepsInv ==
    ASSUME Inv, NEW t \in active, NEW rt \in Runtime,
           rt.state = routes[t.version].state => rt.epoch = routes[t.version].epoch,
           Observe(t, rt)
    PROVE  Inv'
<1> DEFINE commit == /\ routes' = Observed(t, rt)
                     /\ active' = Settled(t, rt)
                     /\ lease' = Unleased(t, rt)
                     /\ UNCHANGED <<current, leaseSeq, conf>>
           doc == Export(Observed(t, rt), current)
<1>1. up /\ UNCHANGED <<pins, up, now>> /\ Persist(commit, doc)
  BY DEF Observe
<1>2. DocType(doc)
  <2>1. t.version \in Live /\ current \in SUBSET Versions /\ current \subseteq Live
    BY DEF Inv, TypeOK, TicketInv, Matching
  <2>2. \A w \in current : Observed(t, rt)[w] \in Runtime
    <3> TAKE w \in current
    <3>1. routes[w] \in Runtime
      BY <2>1 DEF Inv, TypeOK
    <3>2. Observed(t, rt)[w] \in {routes[w], rt}
      BY <2>1 DEF Observed, Without, Prunable, Live
    <3> QED BY <3>1, <3>2
  <2> QED BY <2>1, <2>2, ExportType
<1>3. uncertain \in BOOLEAN /\ commit \in BOOLEAN
  BY DEF Inv, TypeOK
<1>4. ASSUME commit, disk' = doc, UNCHANGED uncertain PROVE Inv'
  BY <1>1, <1>2, <1>3, <1>4, SettledKeepsInv
<1> HIDE DEF commit, doc
<1> QED BY <1>1, <1>2, <1>3, <1>4, PersistKeepsInv

LEMMA AbandonKeepsInv ==
    ASSUME Inv, NEW t \in active, Abandon(t) PROVE Inv'
<1>1. routes[t.version] \in Runtime
  BY DEF Inv, TypeOK, TicketInv, Matching
<1>2. active' = Settled(t, routes[t.version])
  BY DEF Settled, Abandon
<1>3. uncertain \in BOOLEAN /\ DocType(disk)
  BY DEF Inv, TypeOK, DocType
<1>4. /\ routes' = Observed(t, routes[t.version])
      /\ lease' = Unleased(t, routes[t.version])
      /\ up /\ disk' = disk /\ uncertain' = uncertain
      /\ UNCHANGED <<current, pins, leaseSeq, conf, up, now>>
  BY DEF Abandon
<1>5. DocType(disk') /\ uncertain' \in BOOLEAN
  BY <1>3, <1>4 DEF DocType
<1> QED BY <1>1, <1>2, <1>4, <1>5, SettledKeepsInv

LEMMA ReportKeepsInv ==
    ASSUME Inv, NEW t \in active,
           \/ RecordSuccess(t)
           \/ \E kind \in FailureKinds : RecordFailure(t, kind)
           \/ RecordCancelled(t)
           \/ Abandon(t)
    PROVE  Inv'
<1>1. routes[t.version] \in Runtime /\ t.signal \in Signals /\ now \in Nat
  BY DEF Inv, TypeOK, TicketInv, Matching, Ticket
<1>2. CASE RecordSuccess(t)
  BY <1>1, <1>2, SuccessType, ObserveKeepsInv DEF RecordSuccess
<1>3. CASE \E kind \in FailureKinds : RecordFailure(t, kind)
  <2>1. PICK kind \in FailureKinds : RecordFailure(t, kind)
    BY <1>3
  <2>2. PICK rt \in Failure(routes[t.version], t.signal, kind) : Observe(t, rt)
    BY <2>1 DEF RecordFailure
  <2> QED BY <1>1, <2>2, FailureType, ObserveKeepsInv
<1>4. CASE RecordCancelled(t)
  <2> DEFINE new == Transition(routes[t.version], "open_action_required")
  <2>1. /\ new \in Runtime
        /\ new.state = routes[t.version].state
              => new.epoch = routes[t.version].epoch
    BY <1>1, TransitionType DEF States
  <2>2. Observe(t, new) \/ Abandon(t)
    BY <1>4 DEF RecordCancelled
  <2> HIDE DEF new
  <2> QED BY <2>1, <2>2, ObserveKeepsInv, AbandonKeepsInv
<1> QED BY <1>2, <1>3, <1>4, AbandonKeepsInv

LEMMA CrashKeepsInv ==
    ASSUME Inv, Crash PROVE Inv'
<1>1. /\ routes' = Empty /\ DOMAIN Empty = {} /\ current' = {} /\ active' = {}
      /\ up' = FALSE /\ uncertain' = FALSE
      /\ UNCHANGED <<leaseSeq, disk, now>>
  BY DEF Crash, Empty
<1>2. pins' \in [Versions -> Nat] /\ \A v \in Versions : pins'[v] = 0
  BY DEF Crash
<1>3. lease' \in [Versions -> Nat]
  BY DEF Crash, NoLease
<1>4. /\ conf' \in [DOMAIN conf' -> BOOLEAN] /\ DOMAIN conf' \subseteq Versions
      /\ DOMAIN conf' # {} /\ \A v, w \in DOMAIN conf' : v.rev = w.rev
  <2>1. CASE UNCHANGED conf
    BY <2>1 DEF Inv, TypeOK, RevisionsRise
  <2>2. CASE NextRevision \in Revisions /\ conf' \in Registrations(NextRevision)
    BY <2>2, RegistrationsShape
  <2> QED BY <2>1, <2>2 DEF Crash
<1>5. routes' \in [DOMAIN routes' -> Runtime]
  BY <1>1 DEF Empty
<1>6. TypeOK'
  BY <1>1, <1>2, <1>3, <1>4, <1>5 DEF Inv, TypeOK, Live
<1> QED BY <1>1, <1>2, <1>4, <1>6 DEF Inv, RevisionsRise, PinnedVersionsLive,
           TicketInv, DeadIsEmpty, Live

LEMMA StartKeepsInv ==
    ASSUME Inv, Start PROVE Inv'
<1> DEFINE rs == [v \in DOMAIN conf |-> Restart(v)]
<1>1. \A v \in DOMAIN conf : Restart(v) \in Runtime
  BY RestoredType, FreshType DEF Restart, Inv, TypeOK
<1>2. rs \in [DOMAIN conf -> Runtime]
  BY <1>1
<1>3. /\ disk' = rs
      /\ \/ up' = TRUE /\ routes' = rs /\ current' = DOMAIN conf
         \/ UNCHANGED <<up, routes, current>>
      /\ UNCHANGED <<active, pins, lease, leaseSeq, uncertain, conf, now>>
      /\ Live = {} /\ active = {}
  BY DEF Start, Inv, DeadIsEmpty
<1> HIDE DEF rs
<1>4. DocType(disk') /\ DOMAIN rs = DOMAIN conf
  BY <1>2, <1>3 DEF DocType, Inv, TypeOK
<1>5. CASE UNCHANGED <<up, routes, current>>
  BY <1>3, <1>4, <1>5, MemoryUnchanged DEF Inv, TypeOK
<1>6. CASE up' = TRUE /\ routes' = rs /\ current' = DOMAIN conf
  <2>1. TypeOK'
    BY <1>2, <1>3, <1>4, <1>6 DEF Inv, TypeOK, Live, DocType
  <2>2. PinnedVersionsLive'
    BY <1>3 DEF Inv, PinnedVersionsLive
  <2>3. RevisionsRise'
    <3>1. \A v \in DOMAIN conf : v.rev \in Nat
      BY BoundAssumption DEF Inv, TypeOK, Versions, Revisions
    <3> QED BY <1>3, <1>4, <1>6, <3>1 DEF Inv, RevisionsRise, Live
  <2> QED BY <1>3, <1>6, <2>1, <2>2, <2>3 DEF Inv, TicketInv, DeadIsEmpty
<1> QED BY <1>3, <1>5, <1>6

LEMMA InitEstablishesInv == Init => Inv
<1> SUFFICES ASSUME Init PROVE Inv
  OBVIOUS
<1>1. 1 \in Revisions
  BY BoundAssumption DEF Revisions
<1>2. /\ conf \in [DOMAIN conf -> BOOLEAN] /\ DOMAIN conf \subseteq Versions
      /\ DOMAIN conf # {} /\ \A v \in DOMAIN conf : v.rev = 1
  BY <1>1, RegistrationsShape DEF Init
<1>3. /\ routes = Empty /\ disk = Empty /\ DOMAIN Empty = {}
      /\ Empty \in [{} -> Runtime]
  BY DEF Init, Empty
<1>4. TypeOK
  BY <1>2, <1>3 DEF TypeOK, Init, Live, NoLease
<1>5. RevisionsRise /\ PinnedVersionsLive /\ TicketInv /\ DeadIsEmpty
  BY <1>2, <1>3 DEF Init, RevisionsRise, PinnedVersionsLive, TicketInv,
                    DeadIsEmpty, Live
<1> QED BY <1>4, <1>5 DEF Inv

LEMMA NextKeepsInv == Inv /\ [Next]_vars => Inv'
<1> SUFFICES ASSUME Inv, [Next]_vars PROVE Inv'
  OBVIOUS
<1>1. CASE Reconfigure
  BY <1>1, ConfigureKeepsInv DEF Reconfigure
<1>2. CASE \E vs \in SUBSET Live : (\A v \in vs : pins[v] < MaxPins) /\ Pin(vs)
  BY <1>2, PinKeepsInv
<1>3. CASE \E vs \in SUBSET Live : Release(vs)
  BY <1>3, ReleaseKeepsInv
<1>4. CASE \E v \in Live, a \in Attempts, signal \in Signals, manual \in BOOLEAN :
              routes[v].epoch < MaxEpoch /\ Acquire(v, a, manual, signal)
  BY <1>4, AcquireKeepsInv
<1>5. CASE \E v \in Live, manual \in BOOLEAN : AcquireBusy(v, manual)
  BY <1>5, AcquireBusyKeepsInv
<1>6. CASE \E t \in active :
              \/ RecordSuccess(t)
              \/ \E kind \in FailureKinds : RecordFailure(t, kind)
              \/ RecordCancelled(t)
              \/ Abandon(t)
  BY <1>6, ReportKeepsInv
<1>7. CASE Crash
  BY <1>7, CrashKeepsInv
<1>8. CASE Start
  BY <1>8, StartKeepsInv
<1>9. CASE Tick
  <2>1. now' \in Nat /\ uncertain' \in BOOLEAN /\ DocType(disk')
    BY <1>9 DEF Tick, Inv, TypeOK, DocType
  <2> QED BY <1>9, <2>1, MemoryUnchanged DEF Tick
<1>10. CASE UNCHANGED vars
  <2>1. now' \in Nat /\ uncertain' \in BOOLEAN /\ DocType(disk')
    BY <1>10 DEF vars, Inv, TypeOK, DocType
  <2> QED BY <1>10, <2>1, MemoryUnchanged DEF vars
<1> QED BY <1>1, <1>2, <1>3, <1>4, <1>5, <1>6, <1>7, <1>8, <1>9, <1>10 DEF Next

-----------------------------------------------------------------------------
(* The theorems *)

\* Inv is an invariant of the registry, whatever order the reports, the
\* configurations, the saves in doubt, the crashes and the restarts come in.
THEOREM InvHolds == Spec => []Inv
BY InitEstablishesInv, NextKeepsInv, PTL DEF Spec

\* The registry's dictionaries keep their types, and every current version
\* has its runtime.
THEOREM TypeCorrect == Spec => []TypeOK
<1>1. Inv => TypeOK
  BY DEF Inv
<1> QED BY <1>1, InvHolds, PTL

\* A configuration swap never prunes a version that a router has pinned.
THEOREM PinsAreSafe == Spec => []PinnedVersionsLive
<1>1. Inv => PinnedVersionsLive
  BY DEF Inv
<1> QED BY <1>1, InvHolds, PTL

\* No ticket in _active is ever stale, so no guarded lease is held for ever
\* by a ticket whose report would be ignored.
THEOREM NoStaleTicket == Spec => []TicketsMatch
<1>1. Inv => TicketsMatch
  BY DEF Inv, TicketInv, TicketsMatch
<1> QED BY <1>1, InvHolds, PTL

\* Two guarded tickets of one route are one ticket.
LEMMA OneProbe == Inv => OneProbePerRoute
<1> SUFFICES ASSUME Inv, NEW t \in active, NEW u \in active, t.guarded
             PROVE  /\ u.guarded /\ SameRoute(t.version, u.version) => t = u
                    /\ t.version = u.version => t = u
  BY DEF OneProbePerRoute
<1>1. u.guarded /\ SameRoute(t.version, u.version) => t = u
  BY DEF Inv, TicketInv
<1>2. ASSUME t.version = u.version PROVE t = u
  <2>1. u.guarded
    BY <1>2 DEF Inv, TicketInv
  <2>2. SameRoute(t.version, u.version)
    BY <1>2 DEF SameRoute
  <2> QED BY <1>1, <2>1, <2>2
<1> QED BY <1>1, <1>2

\* An unproven route is tried by one attempt at a time, across revisions.
THEOREM ProbesAreExclusive == Spec => []OneProbePerRoute
<1>1. Inv => OneProbePerRoute
  BY OneProbe
<1> QED BY <1>1, InvHolds, PTL

-----------------------------------------------------------------------------
(* Sound runtimes *)

\* What the operators on one runtime make of a sound one.  A deadline that is
\* in reach stays in reach while the clock moves.
LEMMA SoundLater ==
    ASSUME NEW rt \in Runtime, NEW n \in Nat, NEW m \in Nat, n <= m, Sound(rt, n)
    PROVE  Sound(rt, m)
<1>1. rt.openUntil \in Int /\ MaxCooldown \in Nat
  BY PolicyAssumption DEF Runtime, NoTime
<1>2. rt.openUntil <= m + MaxCooldown
  BY <1>1 DEF Sound
<1> QED BY <1>2 DEF Sound

LEMMA FreshSound ==
    ASSUME NEW e \in BOOLEAN, NEW n \in Nat PROVE Sound(Fresh(e), n)
BY PolicyAssumption DEF Sound, Fresh, NoTime

LEMMA ReconfiguredSound ==
    ASSUME NEW rt \in Runtime, NEW same \in BOOLEAN, NEW e \in BOOLEAN,
           NEW n \in Nat, Sound(rt, n)
    PROVE  Sound(Reconfigured(rt, same, e), n)
<1>1. NoTime <= n + MaxCooldown
  BY PolicyAssumption DEF NoTime
<1>2. CASE ~same
  <2>1. Sound([Fresh(e) EXCEPT !.epoch = rt.epoch + 1], n)
    BY <1>1 DEF Sound, Fresh
  <2> QED BY <1>2, <2>1 DEF Reconfigured
<1>3. CASE same /\ e /\ rt.enabled
  <2>1. Sound([rt EXCEPT !.epoch = @ + 1], n)
    BY DEF Sound, Runtime
  <2> QED BY <1>3, <2>1 DEF Reconfigured
<1>4. CASE same /\ ~(e /\ rt.enabled)
  <2> DEFINE r == [rt EXCEPT !.epoch = @ + 1, !.enabled = e,
                             !.state = Fresh(e).state,
                             !.openUntil = NoTime, !.actionRequired = FALSE]
  <2>1. /\ r.enabled = e /\ r.state = Fresh(e).state
        /\ r.openUntil = NoTime /\ r.actionRequired = FALSE
    BY DEF Runtime
  <2>2. Reconfigured(rt, same, e) = r
    BY <1>4 DEF Reconfigured
  <2> HIDE DEF r
  <2> QED BY <1>1, <2>1, <2>2 DEF Sound, Fresh
<1> QED BY <1>2, <1>3, <1>4

\* An enabled route without an alarm and with no credit left opens soundly,
\* whatever cooldown the policy and the upstream ask for.
LEMMA OpenTemporarySound ==
    ASSUME NEW rt \in Runtime, NEW retry \in BOOLEAN, now \in Nat,
           rt.enabled, ~rt.actionRequired, rt.successes < RecoverySuccessThreshold,
           NEW new \in OpenTemporary(rt, retry)
    PROVE  /\ Sound(new, now) /\ new.state = "open_temporary"
           /\ ~new.actionRequired
<1>1. PICK n \in Nat, c \in BaseCooldown..MaxCooldown :
         new = Transition([rt EXCEPT !.openCount = n, !.openUntil = now + c],
                          "open_temporary")
  <2>1. Lesser(rt.openCount + 1, MaxOpenCount) \in Nat
    BY DEF Lesser, MaxOpenCount, Runtime
  <2>2. \A n : Cooldowns(n, retry) \subseteq BaseCooldown..MaxCooldown
    BY DEF Cooldowns
  <2> QED BY <2>1, <2>2 DEF OpenTemporary
<1>2. now + c <= now + MaxCooldown /\ now + c # NoTime /\ now + c \in Nat
  BY PolicyAssumption DEF NoTime
<1> DEFINE r == [rt EXCEPT !.openCount = n, !.openUntil = now + c]
<1>3. /\ r \in Runtime /\ r.enabled /\ ~r.actionRequired
      /\ r.successes = rt.successes /\ r.openUntil = now + c
  BY <1>2 DEF Runtime
<1>4. new = Transition(r, "open_temporary")
  BY <1>1
<1> HIDE DEF r
<1>5. /\ new.enabled = r.enabled /\ new.actionRequired = r.actionRequired
      /\ new.successes = r.successes /\ new.openUntil = r.openUntil
      /\ new.state = "open_temporary"
  BY <1>3, <1>4 DEF Transition, Runtime
<1> QED BY <1>2, <1>3, <1>5 DEF Sound

LEMMA OpenActionRequiredSound ==
    ASSUME NEW rt \in Runtime, NEW n \in Nat,
           rt.enabled, rt.successes < RecoverySuccessThreshold
    PROVE  /\ Sound(OpenActionRequired(rt), n)
           /\ OpenActionRequired(rt).actionRequired
           /\ OpenActionRequired(rt).state = "open_action_required"
<1> DEFINE r == [rt EXCEPT !.actionRequired = TRUE, !.openUntil = NoTime]
           new == OpenActionRequired(rt)
<1>1. /\ r \in Runtime /\ r.enabled /\ r.successes = rt.successes
      /\ r.openUntil = NoTime /\ r.actionRequired
  BY DEF Runtime
<1>2. new = Transition(r, "open_action_required")
  BY DEF OpenActionRequired
<1> HIDE DEF r, new
<1>3. /\ new.enabled /\ new.actionRequired /\ new.openUntil = NoTime
      /\ new.successes = rt.successes /\ new.state = "open_action_required"
  BY <1>1, <1>2 DEF Transition, Runtime
<1>4. NoTime <= n + MaxCooldown
  BY PolicyAssumption DEF NoTime
<1>5. Sound(new, n)
  BY <1>3, <1>4 DEF Sound
<1> QED BY <1>3, <1>5 DEF new

LEMMA CloseSound ==
    ASSUME NEW rt \in Runtime, NEW n \in Nat, rt.enabled
    PROVE  Sound(Close(rt), n)
<1>1. NoTime <= n + MaxCooldown
  BY PolicyAssumption DEF NoTime
<1> QED BY <1>1, CloseType DEF Sound

Usable(rt) == rt.state \in {"unknown", "closed", "half_open"}

\* A success never leaves an open route with the credit that closes it.
LEMMA SuccessSound ==
    ASSUME NEW rt \in Runtime, NEW sig \in Signals, NEW n \in Nat,
           Sound(rt, n), Usable(rt)
    PROVE  Sound(Success(rt, sig), n)
<1>1. rt.enabled
  BY DEF Sound, Usable
<1>2. CASE sig = "probe"
  <2> DEFINE r == [rt EXCEPT !.successes = Credited(rt)]
  <2>1. /\ r \in Runtime /\ r.state = rt.state /\ r.enabled
        /\ r.actionRequired = rt.actionRequired /\ r.openUntil = rt.openUntil
    BY <1>1, CreditedType DEF Runtime
  <2>2. \/ rt.state = "unknown" /\ Success(rt, sig) = Close(rt)
        \/ Success(rt, sig) = Close(r)
        \/ /\ Success(rt, sig) = r /\ rt.state = "half_open"
           /\ ~(r.successes >= RecoverySuccessThreshold)
        \/ Success(rt, sig) = rt
    BY <1>2 DEF Success
  <2> HIDE DEF r
  <2>3. ASSUME rt.state = "half_open", ~(r.successes >= RecoverySuccessThreshold)
        PROVE  Sound(r, n)
    <3>1. r.successes < RecoverySuccessThreshold
      BY <2>1, <2>3, PolicyAssumption DEF Runtime
    <3> QED BY <1>1, <2>1, <2>3, <3>1 DEF Sound
  <2> QED BY <1>1, <2>1, <2>2, <2>3, CloseSound
<1>3. CASE sig # "probe"
  <2> DEFINE r == [rt EXCEPT !.outcomes = Windowed(Append(@, FALSE)),
                             !.failures = 0, !.protocolFailures = 0,
                             !.successes = Credited(rt)]
  <2>1. /\ r \in Runtime /\ r.state = rt.state /\ r.enabled
        /\ r.actionRequired = rt.actionRequired /\ r.openUntil = rt.openUntil
    <3>1. Windowed(Append(rt.outcomes, FALSE)) \in Seq(BOOLEAN)
      BY WindowedType DEF Runtime
    <3> QED BY <1>1, <3>1, CreditedType DEF Runtime
  <2>2. \/ Success(rt, sig) = [Close(r) EXCEPT !.openUntil = rt.openUntil]
        \/ Success(rt, sig) = [Close(r) EXCEPT !.outcomes = Recovered(r)]
        \/ /\ Success(rt, sig) = r
           /\ ~(rt.state = "half_open" /\ r.successes >= RecoverySuccessThreshold)
    BY <1>3 DEF Success
  <2> HIDE DEF r
  <2>3. /\ Close(r) \in Runtime /\ Close(r).state = "closed" /\ Close(r).enabled
        /\ ~Close(r).actionRequired /\ Sound(Close(r), n)
    BY <2>1, CloseType, CloseSound
  <2>4. Sound([Close(r) EXCEPT !.openUntil = rt.openUntil], n)
    <3>1. rt.openUntil <= n + MaxCooldown
      BY DEF Sound
    <3> DEFINE c == [Close(r) EXCEPT !.openUntil = rt.openUntil]
    <3>2. /\ c.state = "closed" /\ c.enabled /\ ~c.actionRequired
          /\ c.openUntil = rt.openUntil
      BY <2>3 DEF Runtime
    <3> HIDE DEF c
    <3>3. Sound(c, n)
      BY <3>1, <3>2 DEF Sound
    <3> QED BY <3>3 DEF c
  <2>5. Sound([Close(r) EXCEPT !.outcomes = Recovered(r)], n)
    <3> DEFINE c == [Close(r) EXCEPT !.outcomes = Recovered(r)]
    <3>1. /\ c.state = "closed" /\ c.enabled /\ ~c.actionRequired
          /\ c.openUntil = Close(r).openUntil
      BY <2>3 DEF Runtime
    <3> HIDE DEF c
    <3>2. Sound(c, n)
      BY <2>3, <3>1 DEF Sound
    <3> QED BY <3>2 DEF c
  <2>6. ASSUME ~(rt.state = "half_open" /\ r.successes >= RecoverySuccessThreshold)
        PROVE  Sound(r, n)
    <3>1. rt.state = "half_open" => r.successes < RecoverySuccessThreshold
      BY <2>1, <2>6, PolicyAssumption DEF Runtime
    <3> QED BY <1>1, <2>1, <3>1 DEF Sound, Usable
  <2> QED BY <2>2, <2>4, <2>5, <2>6
<1> QED BY <1>2, <1>3

\* A failure takes all credit away before it opens the route, and the alarm of
\* a route being probed goes with it into the next opening.
LEMMA FailureSound ==
    ASSUME NEW rt \in Runtime, NEW sig \in Signals, NEW kind \in FailureKinds,
           now \in Nat, Sound(rt, now), Usable(rt),
           NEW new \in Failure(rt, sig, kind)
    PROVE  Sound(new, now)
<1>1. PICK r \in Runtime :
         /\ r.state = rt.state /\ r.enabled = rt.enabled /\ r.successes = 0
         /\ r.actionRequired = rt.actionRequired /\ r.openUntil = rt.openUntil
         /\ \/ new = r
            \/ new = OpenActionRequired(r)
            \/ /\ new \in OpenTemporary(r, kind = "rate_limited")
               /\ ~NeedsAction(rt, kind)
  BY FailureShape
<1>2. rt.enabled /\ r.enabled /\ 0 < RecoverySuccessThreshold
  BY <1>1, PolicyAssumption DEF Sound, Usable
<1>3. CASE new = r
  BY <1>1, <1>2, <1>3 DEF Sound
<1>4. CASE new = OpenActionRequired(r)
  BY <1>1, <1>2, <1>4, OpenActionRequiredSound
<1>5. CASE new \in OpenTemporary(r, kind = "rate_limited") /\ ~NeedsAction(rt, kind)
  <2>1. ~rt.actionRequired
    BY <1>5 DEF NeedsAction, Sound, Usable
  <2>2. (kind = "rate_limited") \in BOOLEAN
    OBVIOUS
  <2> QED BY <1>1, <1>2, <1>5, <2>1, <2>2, OpenTemporarySound
<1> QED BY <1>1, <1>3, <1>4, <1>5

\* What a start makes of an entry of the document.
LEMMA RestoredSound ==
    ASSUME NEW rt \in Runtime, now \in Nat, Sound(rt, now)
    PROVE  Sound(Restored(rt), now)
<1> DEFINE new == Restored(rt)
<1>1. /\ now + BaseCooldown \in Nat /\ BaseCooldown <= MaxCooldown
      /\ NoTime <= now + MaxCooldown /\ rt.openUntil \in Nat \cup {NoTime}
      /\ now + BaseCooldown <= now + MaxCooldown /\ now + BaseCooldown # NoTime
  BY PolicyAssumption DEF NoTime, Runtime
<1>2. CASE ~rt.enabled
  BY <1>2 DEF Sound, Restored, Runtime
<1>3. CASE rt.enabled /\ rt.state = "half_open" /\ rt.actionRequired
  <2>1. new = [rt EXCEPT !.epoch = @ + 1, !.state = "open_action_required",
                         !.openUntil = NoTime]
    BY <1>3 DEF Restored
  <2> HIDE DEF new
  <2>2. /\ new.state = "open_action_required" /\ new.openUntil = NoTime
        /\ new.enabled /\ new.successes = rt.successes
    BY <1>3, <2>1 DEF Runtime
  <2>3. Sound(new, now)
    BY <1>1, <1>3, <2>2 DEF Sound
  <2> QED BY <2>3 DEF new
<1>4. CASE rt.enabled /\ rt.state = "half_open" /\ ~rt.actionRequired
  <2> DEFINE until == IF rt.openUntil < now + BaseCooldown
                      THEN now + BaseCooldown ELSE rt.openUntil
  <2>1. new = [rt EXCEPT !.epoch = @ + 1, !.state = "open_temporary",
                         !.openUntil = until]
    BY <1>4 DEF Restored
  <2>2. until <= now + MaxCooldown /\ until # NoTime
    BY <1>1 DEF Sound, NoTime
  <2> HIDE DEF new, until
  <2>3. /\ new.state = "open_temporary" /\ new.openUntil = until
        /\ new.enabled /\ ~new.actionRequired /\ new.successes = rt.successes
    BY <1>4, <2>1 DEF Runtime
  <2>4. Sound(new, now)
    BY <1>4, <2>2, <2>3 DEF Sound
  <2> QED BY <2>4 DEF new
<1>5. CASE rt.enabled /\ rt.state = "open_temporary"
  <2>1. new = rt
    BY <1>5 DEF Restored, Sound
  <2> QED BY <2>1
<1>6. CASE rt.enabled /\ rt.state = "open_action_required"
  <2>1. new = [rt EXCEPT !.actionRequired = TRUE, !.openUntil = NoTime]
    BY <1>6 DEF Restored
  <2> HIDE DEF new
  <2>2. /\ new.state = "open_action_required" /\ new.openUntil = NoTime
        /\ new.enabled /\ new.successes = rt.successes
    BY <1>6, <2>1 DEF Runtime
  <2>3. Sound(new, now)
    BY <1>1, <1>6, <2>2 DEF Sound
  <2> QED BY <2>3 DEF new
<1>7. CASE /\ rt.enabled
           /\ rt.state \notin {"half_open", "open_temporary", "open_action_required"}
  <2>1. new = rt
    BY <1>7 DEF Restored
  <2> QED BY <2>1
<1> QED BY <1>2, <1>3, <1>4, <1>5, <1>6, <1>7

\* The move to HALF_OPEN keeps an alarm, and what credit there is.
LEMMA HalfOpenSound ==
    ASSUME NEW rt \in Runtime, NEW n \in Nat, Sound(rt, n),
           rt.state \in {"open_temporary", "open_action_required"}
    PROVE  Sound(Transition(rt, "half_open"), n)
<1> DEFINE new == Transition(rt, "half_open")
<1>1. /\ new.state = "half_open" /\ new.enabled = rt.enabled
      /\ new.openUntil = rt.openUntil /\ new.successes = rt.successes
      /\ new.actionRequired = rt.actionRequired
  BY DEF Transition, Runtime
<1> HIDE DEF new
<1>2. Sound(new, n)
  BY <1>1 DEF Sound
<1> QED BY <1>2 DEF new

-----------------------------------------------------------------------------
(* Every action keeps the runtimes sound *)

\* What the actions that save share: a sound document, and a change of memory
\* that keeps SoundInv, whatever the save does.
LEMMA PersistKeepsSound ==
    ASSUME SoundInv, NEW doc, NEW commit \in BOOLEAN, Persist(commit, doc),
           UNCHANGED <<pins, up, now>>, \A v \in DOMAIN doc : Sound(doc[v], now),
           commit /\ disk' = doc /\ UNCHANGED uncertain => SoundInv'
    PROVE  SoundInv'
<1>1. CASE commit /\ disk' = doc /\ UNCHANGED uncertain
  BY <1>1
<1>2. CASE /\ disk' \in {disk, doc} /\ uncertain' = TRUE
           /\ UNCHANGED <<routes, current, active, lease, leaseSeq, conf>>
  BY <1>2 DEF SoundInv, UsableWithTickets, DocumentMatchesMemory, Live
<1> QED BY <1>1, <1>2 DEF Persist

\* A runtime is replaced, or a version pruned, and the document follows.
LEMMA ReplacedKeepsSound ==
    ASSUME Inv, SoundInv, now' = now, disk' = Export(routes', current'),
           current' \subseteq DOMAIN routes',
           \A v \in DOMAIN routes' :
              (v \in Live /\ routes'[v] = routes[v]) \/ Sound(routes'[v], now),
           \A t \in active' : Usable(routes'[t.version])
    PROVE  SoundInv'
<1>1. \A v \in DOMAIN routes' : Sound(routes'[v], now)
  BY DEF SoundInv
<1>2. \A v \in DOMAIN disk' : Sound(disk'[v], now)
  BY <1>1 DEF Export
<1> QED BY <1>1, <1>2 DEF SoundInv, UsableWithTickets, Usable,
                          DocumentMatchesMemory, Live

LEMMA InitialSound ==
    ASSUME Inv, SoundInv, NEW v, NEW e \in BOOLEAN
    PROVE  Sound(Initial(v, e), now)
<1>1. now \in Nat
  BY DEF Inv, TypeOK
<1>2. CASE \E w \in current : w.key = v.key
  <2> DEFINE w == CHOOSE w \in current : w.key = v.key
  <2>1. w \in current
    BY <1>2
  <2>2. Initial(v, e) = Reconfigured(routes[w], w.fp = v.fp, e)
    BY <1>2 DEF Initial
  <2> HIDE DEF w
  <2>3. routes[w] \in Runtime /\ (w.fp = v.fp) \in BOOLEAN /\ Sound(routes[w], now)
    BY <2>1 DEF Inv, TypeOK, Live, SoundInv
  <2> DEFINE same == w.fp = v.fp
  <2> HIDE DEF same
  <2>4. Sound(Reconfigured(routes[w], same, e), now)
    BY <1>1, <2>3, ReconfiguredSound DEF same
  <2> QED BY <2>2, <2>4 DEF same
<1>3. CASE ~ \E w \in current : w.key = v.key
  BY <1>1, <1>3, FreshSound DEF Initial
<1> QED BY <1>2, <1>3

LEMMA ConfigureKeepsSound ==
    ASSUME Inv, SoundInv, NextRevision \in Revisions,
           NEW regs \in Registrations(NextRevision), Configure(regs)
    PROVE  SoundInv'
<1> DEFINE rs == Configured(regs)
           D  == DOMAIN regs
<1>1. regs \in [D -> BOOLEAN] /\ D \subseteq Versions /\ \A v \in D : v.rev = NextRevision
  BY RegistrationsShape
<1>2. \A v \in Live : v \notin D
  BY <1>1, NextRevisionRises DEF Inv, TypeOK, Versions, Revisions
<1>3. /\ D \subseteq DOMAIN rs /\ DOMAIN rs \subseteq Live \cup D
      /\ \A v \in D : rs[v] = Initial(v, regs[v])
      /\ \A v \in DOMAIN rs : v \notin D => rs[v] = routes[v]
      /\ \A v \in Live : TicketsOf(v) # {} => v \in DOMAIN rs
  BY DEF Configured
<1> HIDE DEF rs
<1>4. \A v \in D : Sound(rs[v], now)
  BY <1>1, <1>3, InitialSound
<1>5. \A v \in DOMAIN Export(rs, D) : Sound(Export(rs, D)[v], now)
  BY <1>4 DEF Export
<1>6. ASSUME routes' = rs, current' = D, disk' = Export(rs, D),
             UNCHANGED <<active, now>>
      PROVE  SoundInv'
  <2>1. \A t \in active' : Usable(routes'[t.version])
    <3> TAKE t \in active'
    <3>1. t \in active /\ t.version \in Live /\ t \in TicketsOf(t.version)
      BY <1>6 DEF Inv, TicketInv, Matching, TicketsOf
    <3>2. rs[t.version] = routes[t.version]
      BY <1>2, <1>3, <3>1
    <3> QED BY <1>6, <3>1, <3>2 DEF SoundInv, UsableWithTickets, Usable
  <2>2. \A v \in DOMAIN routes' :
           (v \in Live /\ routes'[v] = routes[v]) \/ Sound(routes'[v], now)
    BY <1>3, <1>4, <1>6
  <2> QED BY <1>3, <1>6, <2>1, <2>2, ReplacedKeepsSound
<1>7. /\ UNCHANGED <<pins, up, now>>
      /\ Persist(/\ routes' = rs /\ current' = D /\ conf' = regs
                 /\ UNCHANGED <<active, lease, leaseSeq>>, Export(rs, D))
  BY DEF Configure, rs
<1> QED BY <1>5, <1>6, <1>7, PersistKeepsSound

\* What pins and unpins leaves the current routes and the tickets alone.
LEMMA ReleaseKeepsSound ==
    ASSUME Inv, SoundInv, NEW vs \in SUBSET Live, Release(vs)
    PROVE  SoundInv'
<1> DEFINE S == {v \in vs : /\ v \notin current /\ pins[v] = 1
                            /\ TicketsOf(v) = {}}
<1>1. /\ \A v \in current : v \notin S
      /\ \A t \in active : t.version \notin S /\ t.version \in Live
  BY DEF TicketsOf, Inv, TicketInv, Matching
<1>2. /\ routes' = Without(routes, S)
      /\ UNCHANGED <<current, active, uncertain, disk, up, now>>
  BY DEF Release
<1> HIDE DEF S
<1>3. DOMAIN routes' = Live \ S /\ \A v \in Live \ S : routes'[v] = routes[v]
  BY <1>2 DEF Without, Live
<1>4. Export(routes', current') = Export(routes, current)
  BY <1>1, <1>2, <1>3 DEF Export, Inv, TypeOK
<1> QED BY <1>1, <1>2, <1>3, <1>4 DEF SoundInv, UsableWithTickets,
                                      DocumentMatchesMemory, Live

\* acquire leaves the version it admits sound, and admits no ticket to a route
\* that is open or disabled.
LEMMA AdmittingSound ==
    ASSUME Inv, SoundInv, NEW v \in Live, NEW manual \in BOOLEAN
    PROVE  /\ Sound(Admitting(v, manual), now)
           /\ ~Refused(v, manual) => Usable(Admitting(v, manual))
<1>1. routes[v] \in Runtime /\ now \in Nat /\ Sound(routes[v], now)
  BY DEF Inv, TypeOK, SoundInv, Live
<1>2. CASE Reopens(v, manual)
  <2>1. Admitting(v, manual) = Transition(routes[v], "half_open")
    BY <1>2 DEF Admitting
  <2>2. routes[v].state \in {"open_temporary", "open_action_required"}
    BY <1>2 DEF Reopens
  <2>3. Transition(routes[v], "half_open").state = "half_open"
    BY <1>1, TransitionType DEF States
  <2> QED BY <1>1, <2>1, <2>2, <2>3, HalfOpenSound DEF Usable
<1>3. CASE ~Reopens(v, manual)
  <2>1. Admitting(v, manual) = routes[v]
    BY <1>3 DEF Admitting
  <2>2. ~Refused(v, manual) => Usable(routes[v])
    BY <1>1, <1>3 DEF Refused, Usable, Runtime, States
  <2> QED BY <1>1, <2>1, <2>2
<1> QED BY <1>2, <1>3

\* The route of an acquire changes only by a move to HALF_OPEN, and then the
\* tickets of its version are dropped.
LEMMA AdmittedKeepsSound ==
    ASSUME Inv, SoundInv, NEW v \in Live, NEW manual \in BOOLEAN,
           ~Refused(v, manual), now' = now, current' = current,
           routes' = [routes EXCEPT ![v] = Admitting(v, manual)],
           disk' = Export(routes', current'),
           \A t \in active' : t \in Remaining(v, manual) \/ t.version = v
    PROVE  SoundInv'
<1> DEFINE rt == Admitting(v, manual)
<1>1. Sound(rt, now) /\ Usable(rt)
  BY AdmittingSound
<1> HIDE DEF rt
<1>2. /\ DOMAIN routes' = Live /\ routes'[v] = rt
      /\ \A w \in Live \ {v} : routes'[w] = routes[w]
  BY DEF rt, Inv, TypeOK, Live
<1>3. \A t \in active' : Usable(routes'[t.version])
  <2> TAKE t \in active'
  <2>1. CASE t.version = v
    BY <1>1, <1>2, <2>1
  <2>2. CASE t.version # v
    <3>1. t \in active /\ t.version \in Live
      BY <2>2 DEF Remaining, Inv, TicketInv, Matching
    <3> QED BY <1>2, <2>2, <3>1 DEF SoundInv, UsableWithTickets, Usable
  <2> QED BY <2>1, <2>2
<1>4. current' \subseteq DOMAIN routes'
  BY <1>2 DEF Inv, TypeOK
<1> QED BY <1>1, <1>2, <1>3, <1>4, ReplacedKeepsSound

\* The document an acquire writes is sound too.
LEMMA AdmittedDocument ==
    ASSUME Inv, SoundInv, NEW v \in Live, NEW manual \in BOOLEAN
    PROVE  \A w \in DOMAIN Export([routes EXCEPT ![v] = Admitting(v, manual)], current) :
              Sound(Export([routes EXCEPT ![v] = Admitting(v, manual)], current)[w], now)
<1> DEFINE rt == Admitting(v, manual)
<1>1. Sound(rt, now)
  BY AdmittingSound
<1> HIDE DEF rt
<1>2. \A w \in current : Sound([routes EXCEPT ![v] = rt][w], now)
  BY <1>1 DEF SoundInv, Inv, TypeOK, Live
<1> QED BY <1>2 DEF Export, rt

LEMMA AcquireKeepsSound ==
    ASSUME Inv, SoundInv, NEW v \in Live, NEW a \in Attempts,
           NEW manual \in BOOLEAN, NEW signal \in Signals,
           Acquire(v, a, manual, signal)
    PROVE  SoundInv'
<1> DEFINE rt  == Admitting(v, manual)
           t   == NewTicket(v, a, manual, signal)
           doc == Export([routes EXCEPT ![v] = rt], current)
           commit == /\ routes' = [routes EXCEPT ![v] = rt]
                     /\ active' = Remaining(v, manual) \cup {t}
                     /\ lease' = [lease EXCEPT ![v] = IF t.guarded THEN t.lease ELSE @]
                     /\ leaseSeq' = leaseSeq + 1
                     /\ UNCHANGED <<current, conf>>
<1>1. /\ up /\ ~uncertain /\ ~Refused(v, manual) /\ UNCHANGED <<pins, up, now>>
      /\ IF Reopens(v, manual) THEN Persist(commit, doc)
         ELSE commit /\ UNCHANGED <<disk, uncertain>>
  BY DEF Acquire, Admits
<1>2. t.version = v
  BY DEF NewTicket
<1>3. ASSUME commit, disk' = doc PROVE SoundInv'
  <2>1. \A u \in active' : u \in Remaining(v, manual) \/ u.version = v
    BY <1>2, <1>3
  <2> QED BY <1>1, <1>3, <2>1, AdmittedKeepsSound
<1>4. \A w \in DOMAIN doc : Sound(doc[w], now)
  BY AdmittedDocument
<1>5. ~Reopens(v, manual) => doc = disk
  <2>1. ~Reopens(v, manual) => [routes EXCEPT ![v] = rt] = routes
    BY DEF Admitting, Inv, TypeOK, Live
  <2> QED BY <1>1, <2>1 DEF SoundInv, DocumentMatchesMemory
<1>6. commit \in BOOLEAN
  OBVIOUS
<1> HIDE DEF commit, doc
<1> QED BY <1>1, <1>3, <1>4, <1>5, <1>6, PersistKeepsSound

LEMMA AcquireBusyKeepsSound ==
    ASSUME Inv, SoundInv, NEW v \in Live, NEW manual \in BOOLEAN,
           AcquireBusy(v, manual)
    PROVE  SoundInv'
<1> DEFINE doc == Export([routes EXCEPT ![v] = Admitting(v, manual)], current)
           commit == /\ routes' = [routes EXCEPT ![v] = Admitting(v, manual)]
                     /\ active' = Remaining(v, manual)
                     /\ lease' = [lease EXCEPT ![v] = NoLease]
                     /\ UNCHANGED <<current, leaseSeq, conf>>
<1>1. /\ ~Refused(v, manual) /\ UNCHANGED <<pins, up, now>> /\ Persist(commit, doc)
  BY DEF AcquireBusy
<1>2. commit /\ disk' = doc => SoundInv'
  BY <1>1, AdmittedKeepsSound
<1>3. \A w \in DOMAIN doc : Sound(doc[w], now)
  BY AdmittedDocument
<1>4. commit \in BOOLEAN
  OBVIOUS
<1> HIDE DEF commit, doc
<1> QED BY <1>1, <1>2, <1>3, <1>4, PersistKeepsSound

\* A report that is applied, or a ticket that goes without one, leaves the
\* runtime rt; where the state moved, every ticket of the version is gone.
LEMMA ObservedKeepsSound ==
    ASSUME Inv, SoundInv, NEW t \in active, NEW rt \in Runtime, Sound(rt, now)
    PROVE  /\ \A w \in DOMAIN Export(Observed(t, rt), current) :
                 Sound(Export(Observed(t, rt), current)[w], now)
           /\ /\ routes' = Observed(t, rt) /\ active' = Settled(t, rt)
              /\ disk' = Export(routes', current')
              /\ now' = now /\ current' = current
              => SoundInv'
<1> DEFINE v  == t.version
           rs == Observed(t, rt)
<1>1. v \in Live /\ Usable(routes[v])
  BY DEF Inv, TicketInv, Matching, SoundInv, UsableWithTickets, Usable
<1>2. /\ DOMAIN rs \subseteq Live /\ Live \ {v} \subseteq DOMAIN rs
      /\ \A w \in DOMAIN rs \ {v} : rs[w] = routes[w]
      /\ v \in DOMAIN rs => rs[v] = rt /\ ~Prunable(v, active \ {t})
      /\ v \notin DOMAIN rs => Prunable(v, active \ {t})
  BY <1>1 DEF Observed, Without, Inv, TypeOK, Live
<1> HIDE DEF rs
<1>3. \A w \in DOMAIN rs : (w \in Live /\ rs[w] = routes[w]) \/ Sound(rs[w], now)
  BY <1>2
<1>4. current \subseteq DOMAIN rs
  BY <1>2 DEF Inv, TypeOK, Prunable
<1>5. \A w \in DOMAIN Export(rs, current) : Sound(Export(rs, current)[w], now)
  BY <1>3, <1>4 DEF Export, SoundInv
<1>6. ASSUME routes' = rs, active' = Settled(t, rt), disk' = Export(routes', current'),
             now' = now, current' = current
      PROVE  SoundInv'
  <2>1. \A u \in active' : Usable(routes'[u.version])
    <3> TAKE u \in active'
    <3>1. u \in active \ {t} /\ u.version \in Live /\ Usable(routes[u.version])
      BY <1>6 DEF Settled, TicketsOf, Inv, TicketInv, Matching, SoundInv,
                  UsableWithTickets, Usable
    <3>2. CASE u.version # v
      BY <1>2, <1>6, <3>1, <3>2
    <3>3. CASE u.version = v
      <4>1. rt.state = routes[v].state
        BY <1>6, <3>1, <3>3 DEF Settled, TicketsOf
      <4>2. v \in DOMAIN rs /\ rs[v] = rt
        BY <1>2, <3>1, <3>3 DEF Prunable
      <4> QED BY <1>1, <1>6, <3>3, <4>1, <4>2 DEF Usable
    <3> QED BY <3>2, <3>3
  <2> QED BY <1>3, <1>4, <1>6, <2>1, ReplacedKeepsSound
<1> QED BY <1>5, <1>6 DEF rs

LEMMA ObserveKeepsSound ==
    ASSUME Inv, SoundInv, NEW t \in active, NEW rt \in Runtime, Sound(rt, now),
           Observe(t, rt)
    PROVE  SoundInv'
<1> DEFINE commit == /\ routes' = Observed(t, rt)
                     /\ active' = Settled(t, rt)
                     /\ lease' = Unleased(t, rt)
                     /\ UNCHANGED <<current, leaseSeq, conf>>
           doc == Export(Observed(t, rt), current)
<1>1. UNCHANGED <<pins, up, now>> /\ Persist(commit, doc)
  BY DEF Observe
<1>2. commit /\ disk' = doc => SoundInv'
  BY <1>1, ObservedKeepsSound
<1>3. \A w \in DOMAIN doc : Sound(doc[w], now)
  BY ObservedKeepsSound
<1>4. commit \in BOOLEAN
  OBVIOUS
<1> HIDE DEF commit, doc
<1> QED BY <1>1, <1>2, <1>3, <1>4, PersistKeepsSound

\* Nothing is saved, and nothing needs to be: the version keeps its runtime,
\* or was not in the document.
LEMMA AbandonKeepsSound ==
    ASSUME Inv, SoundInv, NEW t \in active, Abandon(t) PROVE SoundInv'
<1>1. t.version \in Live
  BY DEF Inv, TicketInv, Matching
<1>2. /\ DOMAIN routes' \subseteq Live
      /\ \A w \in DOMAIN routes' : routes'[w] = routes[w]
      /\ \A w \in Live : w \in current \/ (\E u \in active' : u.version = w)
                            => w \in DOMAIN routes'
  BY <1>1 DEF Abandon, Observed, Without, Prunable, Inv, TypeOK, Live
<1>3. \A u \in active' : u \in active /\ u.version \in Live
  BY DEF Abandon, Inv, TicketInv, Matching
<1>4. Export(routes', current') = Export(routes, current)
  BY <1>2 DEF Export, Abandon, Inv, TypeOK
<1>5. UNCHANGED <<uncertain, disk, up, now>>
  BY DEF Abandon
<1>6. UsableWithTickets'
  BY <1>2, <1>3 DEF SoundInv, UsableWithTickets
<1> QED BY <1>2, <1>4, <1>5, <1>6 DEF SoundInv, DocumentMatchesMemory, Live

LEMMA ReportKeepsSound ==
    ASSUME Inv, SoundInv, NEW t \in active,
           \/ RecordSuccess(t)
           \/ \E kind \in FailureKinds : RecordFailure(t, kind)
           \/ RecordCancelled(t)
           \/ Abandon(t)
    PROVE  SoundInv'
<1> DEFINE rt == routes[t.version]
<1>1. /\ rt \in Runtime /\ t.signal \in Signals /\ now \in Nat
      /\ Sound(rt, now) /\ Usable(rt)
  BY DEF Inv, TypeOK, TicketInv, Matching, Ticket, SoundInv,
         UsableWithTickets, Usable, Live
<1> HIDE DEF rt
<1>2. CASE RecordSuccess(t)
  <2>1. Success(rt, t.signal) \in Runtime /\ Sound(Success(rt, t.signal), now)
    BY <1>1, SuccessType, SuccessSound
  <2> QED BY <1>2, <2>1, ObserveKeepsSound DEF RecordSuccess, rt
<1>3. CASE \E kind \in FailureKinds : RecordFailure(t, kind)
  <2>1. PICK kind \in FailureKinds : RecordFailure(t, kind)
    BY <1>3
  <2>2. PICK new \in Failure(rt, t.signal, kind) : Observe(t, new)
    BY <2>1 DEF RecordFailure, rt
  <2>3. new \in Runtime /\ Sound(new, now)
    BY <1>1, FailureType, FailureSound
  <2> QED BY <2>2, <2>3, ObserveKeepsSound
<1>4. CASE RecordCancelled(t)
  <2>1. CASE rt.state = "half_open" /\ rt.actionRequired
    <3> DEFINE new == Transition(rt, "open_action_required")
    <3>1. new \in Runtime
      BY <1>1, TransitionType DEF States
    <3>2. /\ new.state = "open_action_required" /\ new.enabled = rt.enabled
          /\ new.openUntil = rt.openUntil /\ new.successes = rt.successes
      BY <1>1, <2>1 DEF Transition, Runtime
    <3>3. Observe(t, new)
      BY <1>4, <2>1 DEF RecordCancelled, rt
    <3> HIDE DEF new
    <3>4. Sound(new, now)
      BY <1>1, <2>1, <3>2 DEF Sound
    <3> QED BY <3>1, <3>3, <3>4, ObserveKeepsSound
  <2>2. CASE ~(rt.state = "half_open" /\ rt.actionRequired)
    BY <1>4, <2>2, AbandonKeepsSound DEF RecordCancelled, rt
  <2> QED BY <2>1, <2>2
<1> QED BY <1>2, <1>3, <1>4, AbandonKeepsSound

\* A start restores sound runtimes and writes them back.
LEMMA RestartSound ==
    ASSUME Inv, SoundInv, NEW v \in DOMAIN conf
    PROVE  Restart(v) \in Runtime /\ Sound(Restart(v), now)
<1>1. now \in Nat /\ conf[v] \in BOOLEAN
  BY DEF Inv, TypeOK
<1>2. CASE v \in DOMAIN disk /\ disk[v].enabled = conf[v]
  <2>1. disk[v] \in Runtime /\ Sound(disk[v], now)
    BY <1>2 DEF Inv, TypeOK, SoundInv
  <2>2. Restored(disk[v]) \in Runtime /\ Sound(Restored(disk[v]), now)
    BY <1>1, <2>1, RestoredType, RestoredSound
  <2> QED BY <1>2, <2>2 DEF Restart
<1>3. CASE ~(v \in DOMAIN disk /\ disk[v].enabled = conf[v])
  BY <1>1, <1>3, FreshType, FreshSound DEF Restart
<1> QED BY <1>2, <1>3

LEMMA StartKeepsSound ==
    ASSUME Inv, SoundInv, Start PROVE SoundInv'
<1> DEFINE rs == [v \in DOMAIN conf |-> Restart(v)]
<1>1. /\ ~up /\ disk' = rs
      /\ \/ up' = TRUE /\ routes' = rs /\ current' = DOMAIN conf
         \/ UNCHANGED <<up, routes, current>>
      /\ UNCHANGED <<active, uncertain, now>>
  BY DEF Start
<1>2. \A v \in DOMAIN rs : Sound(rs[v], now)
  BY RestartSound
<1>3. DOMAIN rs = DOMAIN conf /\ rs = [v \in DOMAIN conf |-> rs[v]]
  OBVIOUS
<1> HIDE DEF rs
<1>4. Live = {} /\ active = {}
  BY <1>1 DEF Inv, DeadIsEmpty
<1>5. CASE UNCHANGED <<up, routes, current>>
  BY <1>1, <1>2, <1>5 DEF SoundInv, UsableWithTickets, DocumentMatchesMemory, Live
<1>6. CASE up' = TRUE /\ routes' = rs /\ current' = DOMAIN conf
  BY <1>1, <1>2, <1>3, <1>4, <1>6 DEF SoundInv, UsableWithTickets,
                                      DocumentMatchesMemory, Export, Live
<1> QED BY <1>1, <1>5, <1>6

\* The clock moves, or nothing does.
LEMMA LaterKeepsSound ==
    ASSUME Inv, SoundInv, now' \in Nat, now <= now',
           UNCHANGED <<routes, current, active, uncertain, disk, up>>
    PROVE  SoundInv'
<1>1. now \in Nat /\ \A v \in Live : routes[v] \in Runtime
  BY DEF Inv, TypeOK
<1>2. \A v \in DOMAIN disk : disk[v] \in Runtime
  BY DEF Inv, TypeOK
<1>3. \A v \in Live : Sound(routes[v], now')
  BY <1>1, SoundLater DEF SoundInv
<1>4. \A v \in DOMAIN disk : Sound(disk[v], now')
  BY <1>1, <1>2, SoundLater DEF SoundInv
<1> QED BY <1>3, <1>4 DEF SoundInv, UsableWithTickets, DocumentMatchesMemory, Live

LEMMA InitEstablishesSound == Init => SoundInv
BY DEF Init, Empty, SoundInv, UsableWithTickets, DocumentMatchesMemory, Live

LEMMA NextKeepsSound == Inv /\ SoundInv /\ [Next]_vars => SoundInv'
<1> SUFFICES ASSUME Inv, SoundInv, [Next]_vars PROVE SoundInv'
  OBVIOUS
<1>1. now \in Nat
  BY DEF Inv, TypeOK
<1>2. CASE Reconfigure
  BY <1>2, ConfigureKeepsSound DEF Reconfigure
<1>3. CASE \E vs \in SUBSET Live : (\A v \in vs : pins[v] < MaxPins) /\ Pin(vs)
  BY <1>1, <1>3, LaterKeepsSound DEF Pin
<1>4. CASE \E vs \in SUBSET Live : Release(vs)
  BY <1>4, ReleaseKeepsSound
<1>5. CASE \E v \in Live, a \in Attempts, signal \in Signals, manual \in BOOLEAN :
              routes[v].epoch < MaxEpoch /\ Acquire(v, a, manual, signal)
  BY <1>5, AcquireKeepsSound
<1>6. CASE \E v \in Live, manual \in BOOLEAN : AcquireBusy(v, manual)
  BY <1>6, AcquireBusyKeepsSound
<1>7. CASE \E t \in active :
              \/ RecordSuccess(t)
              \/ \E kind \in FailureKinds : RecordFailure(t, kind)
              \/ RecordCancelled(t)
              \/ Abandon(t)
  BY <1>7, ReportKeepsSound
<1>8. CASE Crash
  BY <1>8 DEF Crash, Empty, SoundInv, UsableWithTickets, DocumentMatchesMemory, Live
<1>9. CASE Start
  BY <1>9, StartKeepsSound
<1>10. CASE Tick
  <2>1. now' \in Nat /\ now <= now'
    BY <1>1, <1>10 DEF Tick
  <2> QED BY <1>10, <2>1, LaterKeepsSound DEF Tick
<1>11. CASE UNCHANGED vars
  BY <1>1, <1>11, LaterKeepsSound DEF vars
<1> QED BY <1>2, <1>3, <1>4, <1>5, <1>6, <1>7, <1>8, <1>9, <1>10, <1>11 DEF Next

\* SoundInv is an invariant, given Inv.
THEOREM SoundHolds == Spec => []SoundInv
BY InitEstablishesSound, NextKeepsSound, InvHolds, PTL DEF Spec

\* What is sound can be restored.
LEMMA DocumentSound == SoundInv => DocumentIsSound
<1> SUFFICES ASSUME SoundInv, NEW v \in DOMAIN disk PROVE ~Unrestorable(disk[v])
  BY DEF SoundInv, DocumentIsSound, DocumentRestorable
<1> QED BY DEF SoundInv, Sound, Unrestorable

\* While no save is in doubt the document is the registry's current routes, and
\* no document the gateway writes keeps a later process from starting.
THEOREM DocumentStaysSound == Spec => []DocumentIsSound
<1>1. SoundInv => DocumentIsSound
  BY DocumentSound
<1> QED BY <1>1, SoundHolds, PTL

\* A sound route that opened can recover.
LEMMA Recoverable == Inv /\ SoundInv => OpenRouteCanRecover
<1> SUFFICES ASSUME Inv, SoundInv, NEW v \in Live
             PROVE  /\ routes[v].state = "open_temporary"
                          => routes[v].openUntil \in 0..(now + MaxCooldown)
                    /\ routes[v].state \in {"open_temporary",
                                            "open_action_required", "half_open"}
                          => routes[v].successes < RecoverySuccessThreshold
  BY DEF OpenRouteCanRecover, CooldownBounded, RecoveryIsEarned
<1>1. Sound(routes[v], now) /\ routes[v].openUntil \in Nat \cup {NoTime}
  BY DEF SoundInv, Inv, TypeOK, Runtime, Live
<1>2. now + MaxCooldown \in Nat
  BY PolicyAssumption DEF Inv, TypeOK
<1> QED BY <1>1, <1>2 DEF Sound

\* A route that opened has a deadline within the policy's reach, and the credit
\* it had before it opened does not close it.
THEOREM OpenRoutesRecover == Spec => []OpenRouteCanRecover
<1>1. Inv /\ SoundInv => OpenRouteCanRecover
  BY Recoverable
<1> QED BY <1>1, InvHolds, SoundHolds, PTL

-----------------------------------------------------------------------------
(* Evidence survives *)

\* A configuration names a route once.
LEMMA RegistrationsUnique ==
    ASSUME NEW rev \in Revisions, NEW regs \in Registrations(rev),
           NEW v \in DOMAIN regs, NEW w \in DOMAIN regs, v.key = w.key
    PROVE  v = w
<1>1. PICK S \in (SUBSET Keys) \ {{}}, fp \in [Keys -> Fingerprints] :
         regs \in [Batch(rev, S, fp) -> BOOLEAN]
  BY DEF Registrations
<1>2. v \in Batch(rev, S, fp) /\ w \in Batch(rev, S, fp)
  BY <1>1
<1> QED BY <1>2 DEF Batch

\* An alarm outlasts every report but the success of the probe that closes the
\* route, and a success never raises one.
LEMMA SuccessAlarm ==
    ASSUME NEW rt \in Runtime, NEW sig \in Signals, Usable(rt)
    PROVE  /\ Success(rt, sig).actionRequired => rt.actionRequired
           /\ rt.actionRequired /\ sig = "probe"
                => \/ Success(rt, sig).actionRequired
                   \/ Success(rt, sig).state = "closed"
<1> DEFINE new == Success(rt, sig)
<1>1. CASE sig = "probe"
  <2> DEFINE r == [rt EXCEPT !.successes = Credited(rt)]
  <2>1. r \in Runtime /\ r.actionRequired = rt.actionRequired
    BY CreditedType DEF Runtime
  <2>2. new = Close(rt) \/ new = Close(r) \/ new = r \/ new = rt
    BY <1>1 DEF Success
  <2> HIDE DEF r, new
  <2>3. /\ new.actionRequired => rt.actionRequired
        /\ rt.actionRequired => new.actionRequired \/ new.state = "closed"
    BY <2>1, <2>2, CloseType
  <2> QED BY <2>3 DEF new
<1>2. CASE sig # "probe"
  <2> DEFINE r == [rt EXCEPT !.outcomes = Windowed(Append(@, FALSE)),
                             !.failures = 0, !.protocolFailures = 0,
                             !.successes = Credited(rt)]
  <2>1. r \in Runtime /\ r.actionRequired = rt.actionRequired
    <3>1. Windowed(Append(rt.outcomes, FALSE)) \in Seq(BOOLEAN)
      BY WindowedType DEF Runtime
    <3> QED BY <3>1, CreditedType DEF Runtime
  <2>2. \/ new = [Close(r) EXCEPT !.openUntil = rt.openUntil]
        \/ new = [Close(r) EXCEPT !.outcomes = Recovered(r)]
        \/ new = r
    BY <1>2 DEF Success
  <2> HIDE DEF r, new
  <2>3. Close(r) \in Runtime /\ ~Close(r).actionRequired
    BY <2>1, CloseType
  <2>4. /\ ~[Close(r) EXCEPT !.openUntil = rt.openUntil].actionRequired
        /\ ~[Close(r) EXCEPT !.outcomes = Recovered(r)].actionRequired
    BY <2>3 DEF Runtime
  <2>5. new.actionRequired => rt.actionRequired
    BY <2>1, <2>2, <2>4
  <2> QED BY <1>2, <2>5 DEF new
<1> QED BY <1>1, <1>2

LEMMA FailureAlarm ==
    ASSUME NEW rt \in Runtime, NEW sig \in Signals, NEW kind \in FailureKinds,
           now \in Nat, Sound(rt, now), Usable(rt),
           NEW new \in Failure(rt, sig, kind)
    PROVE  /\ rt.actionRequired => new.actionRequired
           /\ new.actionRequired
                => rt.actionRequired \/ new.state = "open_action_required"
<1>1. rt.enabled /\ 0 < RecoverySuccessThreshold
  BY PolicyAssumption DEF Sound, Usable
<1>2. PICK r \in Runtime :
         /\ r.enabled = rt.enabled /\ r.successes = 0
         /\ r.actionRequired = rt.actionRequired
         /\ \/ new = r
            \/ new = OpenActionRequired(r)
            \/ /\ new \in OpenTemporary(r, kind = "rate_limited")
               /\ ~NeedsAction(rt, kind)
  BY FailureShape
<1>3. CASE new = r
  BY <1>2, <1>3
<1>4. CASE new = OpenActionRequired(r)
  BY <1>1, <1>2, <1>4, OpenActionRequiredSound
<1>5. CASE new \in OpenTemporary(r, kind = "rate_limited") /\ ~NeedsAction(rt, kind)
  <2>1. ~rt.actionRequired
    BY <1>5 DEF NeedsAction, Sound, Usable
  <2>2. (kind = "rate_limited") \in BOOLEAN
    OBVIOUS
  <2> QED BY <1>1, <1>2, <1>5, <2>1, <2>2, OpenTemporarySound
<1> QED BY <1>2, <1>3, <1>4, <1>5

\* The move to HALF_OPEN keeps the alarm, takes a manual caller to leave one,
\* and waits for the deadline of a cooldown.
LEMMA AdmittingEvidence ==
    ASSUME Inv, SoundInv, NEW v \in Live, NEW manual \in BOOLEAN
    PROVE  /\ Admitting(v, manual).actionRequired = routes[v].actionRequired
           /\ Admitting(v, manual).actionRequired /\ ~Refused(v, manual) => manual
           /\ routes[v].state = "open_temporary" /\ now < routes[v].openUntil
                => Admitting(v, manual) = routes[v]
<1>1. routes[v] \in Runtime /\ now \in Nat /\ Sound(routes[v], now)
  BY DEF Inv, TypeOK, SoundInv, Live
<1>2. Admitting(v, manual).actionRequired = routes[v].actionRequired
  BY <1>1 DEF Admitting, Transition, Runtime
<1>3. ASSUME routes[v].actionRequired, ~Refused(v, manual) PROVE manual
  BY <1>1, <1>3 DEF Sound, Refused, Reopens
<1>4. ASSUME routes[v].state = "open_temporary", now < routes[v].openUntil
      PROVE  ~Reopens(v, manual)
  BY <1>1, <1>4 DEF Reopens, Runtime, NoTime
<1> QED BY <1>2, <1>3, <1>4 DEF Admitting

\* What one step leaves of the evidence against v, a version that stays.
AlarmHeld(v) ==
    routes[v].actionRequired =>
        \/ routes'[v].actionRequired
        \/ /\ routes'[v].state = "closed"
           /\ \E t \in active \ active' : t.version = v /\ t.signal = "probe"
CooldownHeld(v) ==
    routes[v].state = "open_temporary" /\ now < routes[v].openUntil
        => routes'[v] = routes[v]
EvidenceStep ==
    /\ EvidenceInv'
    /\ current' = current
    /\ \A v \in current : AlarmHeld(v) /\ CooldownHeld(v)

LEMMA SameRoutesEvidence ==
    ASSUME Inv, EvidenceInv, current' = current, conf' = conf,
           active' \subseteq active,
           \A v \in Live : v \in current \/ (\E t \in active' : t.version = v)
                             => routes'[v] = routes[v]
    PROVE  EvidenceStep
<1>1. \A t \in active : t.version \in Live
  BY DEF Inv, TicketInv, Matching
<1>2. \A t \in active' : routes'[t.version] = routes[t.version]
  BY <1>1
<1>3. EvidenceInv'
  BY <1>2 DEF EvidenceInv
<1>4. \A v \in current : routes'[v] = routes[v]
  BY DEF Inv, TypeOK
<1> QED BY <1>3, <1>4 DEF EvidenceStep, AlarmHeld, CooldownHeld

LEMMA PersistEvidence ==
    ASSUME Inv, EvidenceInv, NEW doc, NEW commit \in BOOLEAN,
           Persist(commit, doc), commit => EvidenceStep
    PROVE  EvidenceStep
<1>1. CASE commit
  BY <1>1
<1>2. CASE UNCHANGED <<routes, current, active, conf>>
  BY <1>2, SameRoutesEvidence
<1> QED BY <1>1, <1>2 DEF Persist

\* The admission of a ticket, or of none to a route that is busy.
LEMMA AdmittedEvidence ==
    ASSUME Inv, SoundInv, EvidenceInv, NEW v \in Live, NEW manual \in BOOLEAN,
           ~Refused(v, manual), current' = current, conf' = conf,
           routes' = [routes EXCEPT ![v] = Admitting(v, manual)],
           \A t \in active' : \/ t \in active
                              \/ t.version = v /\ (manual => t.signal = "probe")
    PROVE  EvidenceStep
<1> DEFINE rt == Admitting(v, manual)
<1>1. /\ rt.actionRequired = routes[v].actionRequired
      /\ rt.actionRequired => manual
      /\ routes[v].state = "open_temporary" /\ now < routes[v].openUntil
           => rt = routes[v]
  BY AdmittingEvidence
<1> HIDE DEF rt
<1>2. /\ DOMAIN routes' = Live /\ routes'[v] = rt
      /\ \A w \in Live \ {v} : routes'[w] = routes[w]
  BY DEF rt, Inv, TypeOK, Live
<1>3. \A t \in active : t.version \in Live
  BY DEF Inv, TicketInv, Matching
<1>4. EvidenceInv'
  BY <1>1, <1>2, <1>3 DEF EvidenceInv
<1>5. \A w \in current : AlarmHeld(w) /\ CooldownHeld(w)
  BY <1>1, <1>2 DEF AlarmHeld, CooldownHeld, Inv, TypeOK
<1> QED BY <1>4, <1>5 DEF EvidenceStep

LEMMA AcquireEvidence ==
    ASSUME Inv, SoundInv, EvidenceInv, NEW v \in Live, NEW a \in Attempts,
           NEW manual \in BOOLEAN, NEW signal \in Signals,
           Acquire(v, a, manual, signal)
    PROVE  EvidenceStep
<1> DEFINE rt  == Admitting(v, manual)
           t   == NewTicket(v, a, manual, signal)
           doc == Export([routes EXCEPT ![v] = rt], current)
           commit == /\ routes' = [routes EXCEPT ![v] = rt]
                     /\ active' = Remaining(v, manual) \cup {t}
                     /\ lease' = [lease EXCEPT ![v] = IF t.guarded THEN t.lease ELSE @]
                     /\ leaseSeq' = leaseSeq + 1
                     /\ UNCHANGED <<current, conf>>
<1>1. /\ ~Refused(v, manual)
      /\ IF Reopens(v, manual) THEN Persist(commit, doc)
         ELSE commit /\ UNCHANGED <<disk, uncertain>>
  BY DEF Acquire, Admits
<1>2. t.version = v /\ (manual => t.signal = "probe")
  BY DEF NewTicket
<1>3. commit => EvidenceStep
  <2> HIDE DEF t
  <2> SUFFICES ASSUME commit PROVE EvidenceStep
    OBVIOUS
  <2>1. Remaining(v, manual) \subseteq active
    BY DEF Remaining
  <2>2. \A u \in active' : \/ u \in active
                           \/ u.version = v /\ (manual => u.signal = "probe")
    <3> TAKE u \in active'
    <3>1. u \in Remaining(v, manual) \/ u = t
      OBVIOUS
    <3> QED BY <1>2, <2>1, <3>1
  <2> QED BY <1>1, <2>2, AdmittedEvidence
<1>4. commit \in BOOLEAN
  OBVIOUS
<1> HIDE DEF commit, doc
<1> QED BY <1>1, <1>3, <1>4, PersistEvidence

LEMMA AcquireBusyEvidence ==
    ASSUME Inv, SoundInv, EvidenceInv, NEW v \in Live, NEW manual \in BOOLEAN,
           AcquireBusy(v, manual)
    PROVE  EvidenceStep
<1> DEFINE doc == Export([routes EXCEPT ![v] = Admitting(v, manual)], current)
           commit == /\ routes' = [routes EXCEPT ![v] = Admitting(v, manual)]
                     /\ active' = Remaining(v, manual)
                     /\ lease' = [lease EXCEPT ![v] = NoLease]
                     /\ UNCHANGED <<current, leaseSeq, conf>>
<1>1. ~Refused(v, manual) /\ Persist(commit, doc)
  BY DEF AcquireBusy
<1>2. commit => EvidenceStep
  <2> SUFFICES ASSUME commit PROVE EvidenceStep
    OBVIOUS
  <2>1. \A u \in active' : u \in active
    BY DEF Remaining
  <2> QED BY <1>1, <2>1, AdmittedEvidence
<1>3. commit \in BOOLEAN
  OBVIOUS
<1> HIDE DEF commit, doc
<1> QED BY <1>1, <1>2, <1>3, PersistEvidence

\* A report leaves the alarm, or closes the route as its probe, and reaches no
\* route that cools down.
LEMMA ObserveEvidence ==
    ASSUME Inv, SoundInv, EvidenceInv, NEW t \in active, NEW rt \in Runtime,
           Sound(rt, now), Observe(t, rt),
           routes[t.version].actionRequired /\ t.signal = "probe"
              => rt.actionRequired \/ rt.state = "closed",
           rt.actionRequired => \/ routes[t.version].actionRequired
                                \/ rt.state = "open_action_required"
    PROVE  EvidenceStep
<1> DEFINE v == t.version
           commit == /\ routes' = Observed(t, rt)
                     /\ active' = Settled(t, rt)
                     /\ lease' = Unleased(t, rt)
                     /\ UNCHANGED <<current, leaseSeq, conf>>
           doc == Export(Observed(t, rt), current)
<1>1. Persist(commit, doc)
  BY DEF Observe
<1>2. v \in Live /\ Usable(routes[v]) /\ (routes[v].actionRequired => t.signal = "probe")
  BY DEF Inv, TicketInv, Matching, SoundInv, UsableWithTickets, Usable, EvidenceInv
<1>3. commit => EvidenceStep
  <2> SUFFICES ASSUME commit PROVE EvidenceStep
    OBVIOUS
  <2>1. /\ active' \subseteq active \ {t}
        /\ \A u \in active' : u.version = v => rt.state = routes[v].state
    BY DEF Settled, TicketsOf
  <2>2. \A u \in active : u.version \in Live
    BY DEF Inv, TicketInv, Matching
  <2>3. \A w \in Live : w \in current \/ (\E u \in active' : u.version = w)
           => w \in DOMAIN routes' /\ routes'[w] = IF w = v THEN rt ELSE routes[w]
    BY <1>2, <2>1 DEF Observed, Without, Prunable, Inv, TypeOK, Live
  <2>4. \A u \in active' : routes'[u.version].actionRequired => u.signal = "probe"
    <3> SUFFICES ASSUME NEW u \in active', routes'[u.version].actionRequired
                 PROVE  routes[u.version].actionRequired /\ u \in active
      BY DEF EvidenceInv
    <3>1. CASE u.version # v
      BY <2>1, <2>2, <2>3, <3>1
    <3>2. CASE u.version = v
      <4>1. rt.actionRequired /\ rt.state = routes[v].state
        BY <2>1, <2>2, <2>3, <3>2
      <4> QED BY <1>2, <2>1, <3>2, <4>1 DEF Usable
    <3> QED BY <3>1, <3>2
  <2>5. EvidenceInv'
    BY <2>4 DEF EvidenceInv
  <2>6. \A w \in current : AlarmHeld(w) /\ CooldownHeld(w)
    <3> TAKE w \in current
    <3>1. w \in Live /\ routes'[w] = IF w = v THEN rt ELSE routes[w]
      BY <2>3 DEF Inv, TypeOK
    <3>2. CASE w # v
      BY <3>1, <3>2 DEF AlarmHeld, CooldownHeld
    <3>3. CASE w = v
      BY <1>2, <2>1, <3>1, <3>3 DEF AlarmHeld, CooldownHeld, Usable
    <3> QED BY <3>2, <3>3
  <2> QED BY <2>5, <2>6 DEF EvidenceStep
<1>4. commit \in BOOLEAN
  OBVIOUS
<1> HIDE DEF commit, doc
<1> QED BY <1>1, <1>3, <1>4, PersistEvidence

LEMMA AbandonEvidence ==
    ASSUME Inv, EvidenceInv, NEW t \in active, Abandon(t) PROVE EvidenceStep
<1>1. t.version \in Live
  BY DEF Inv, TicketInv, Matching
<1>2. \A v \in Live : v \in current \/ (\E u \in active' : u.version = v)
                        => routes'[v] = routes[v]
  BY <1>1 DEF Abandon, Observed, Without, Prunable, Inv, TypeOK, Live
<1> QED BY <1>2, SameRoutesEvidence DEF Abandon

LEMMA ReportEvidence ==
    ASSUME Inv, SoundInv, EvidenceInv, NEW t \in active,
           \/ RecordSuccess(t)
           \/ \E kind \in FailureKinds : RecordFailure(t, kind)
           \/ RecordCancelled(t)
           \/ Abandon(t)
    PROVE  EvidenceStep
<1> DEFINE rt == routes[t.version]
<1>1. /\ rt \in Runtime /\ t.signal \in Signals /\ now \in Nat
      /\ Sound(rt, now) /\ Usable(rt)
  BY DEF Inv, TypeOK, TicketInv, Matching, Ticket, SoundInv,
         UsableWithTickets, Usable, Live
<1> HIDE DEF rt
<1>2. CASE RecordSuccess(t)
  <2> DEFINE new == Success(rt, t.signal)
  <2>1. /\ new \in Runtime /\ Sound(new, now)
        /\ new.actionRequired => rt.actionRequired
        /\ rt.actionRequired /\ t.signal = "probe"
             => new.actionRequired \/ new.state = "closed"
    BY <1>1, SuccessType, SuccessSound, SuccessAlarm
  <2>2. Observe(t, new)
    BY <1>2 DEF RecordSuccess, rt
  <2> HIDE DEF new
  <2> QED BY <2>1, <2>2, ObserveEvidence DEF rt
<1>3. CASE \E kind \in FailureKinds : RecordFailure(t, kind)
  <2>1. PICK kind \in FailureKinds : RecordFailure(t, kind)
    BY <1>3
  <2>2. PICK new \in Failure(rt, t.signal, kind) : Observe(t, new)
    BY <2>1 DEF RecordFailure, rt
  <2>3. /\ new \in Runtime /\ Sound(new, now)
        /\ rt.actionRequired => new.actionRequired
        /\ new.actionRequired => \/ rt.actionRequired
                                 \/ new.state = "open_action_required"
    BY <1>1, FailureType, FailureSound, FailureAlarm
  <2> QED BY <2>2, <2>3, ObserveEvidence DEF rt
<1>4. CASE RecordCancelled(t)
  <2>1. CASE rt.state = "half_open" /\ rt.actionRequired
    <3> DEFINE new == Transition(rt, "open_action_required")
    <3>1. new \in Runtime
      BY <1>1, TransitionType DEF States
    <3>2. /\ new.state = "open_action_required" /\ new.enabled = rt.enabled
          /\ new.openUntil = rt.openUntil /\ new.successes = rt.successes
          /\ new.actionRequired = rt.actionRequired
      BY <1>1, <2>1 DEF Transition, Runtime
    <3>3. Observe(t, new)
      BY <1>4, <2>1 DEF RecordCancelled, rt
    <3> HIDE DEF new
    <3>4. Sound(new, now)
      BY <1>1, <2>1, <3>2 DEF Sound
    <3> QED BY <2>1, <3>1, <3>2, <3>3, <3>4, ObserveEvidence DEF rt
  <2>2. CASE ~(rt.state = "half_open" /\ rt.actionRequired)
    BY <1>4, <2>2, AbandonEvidence DEF RecordCancelled, rt
  <2> QED BY <2>1, <2>2
<1> QED BY <1>2, <1>3, <1>4, AbandonEvidence

\* What EvidenceKept asks of a step of a running process, for the version v of
\* a route before it and the version w after it.
EvidenceOf(v, w) ==
    /\ SameRoute(v, w) /\ routes[v].actionRequired /\ routes'[w].enabled
       => \/ routes'[w].actionRequired
          \/ /\ routes'[w].state = "closed"
             /\ \E t \in active \ active' : t.version = v /\ t.signal = "probe"
    /\ /\ SameRoute(v, w) /\ routes'[w].enabled
       /\ routes[v].state = "open_temporary" /\ now < routes[v].openUntil
       => /\ routes'[w].state = "open_temporary"
          /\ routes'[w].openUntil = routes[v].openUntil

LEMMA SameVersionEvidence ==
    ASSUME EvidenceInv, EvidenceStep, NEW v \in current, NEW w \in current'
    PROVE  EvidenceOf(v, w)
<1>1. SameRoute(v, w) => v = w
  BY DEF EvidenceInv, EvidenceStep, SameRoute
<1> QED BY <1>1 DEF EvidenceStep, EvidenceOf, AlarmHeld, CooldownHeld

\* A route that stays configured and enabled hands its alarm and its cooldown
\* over to its new version.
LEMMA ConfigureEvidence ==
    ASSUME Inv, SoundInv, EvidenceInv, NextRevision \in Revisions,
           NEW regs \in Registrations(NextRevision), Configure(regs)
    PROVE  EvidenceInv' /\ \A v \in current, w \in current' : EvidenceOf(v, w)
<1> DEFINE rs == Configured(regs)
           D  == DOMAIN regs
<1>1. /\ regs \in [D -> BOOLEAN] /\ D \subseteq Versions
      /\ \A v \in D : v.rev = NextRevision
      /\ \A v, w \in D : v.key = w.key => v = w
  BY RegistrationsShape, RegistrationsUnique
<1>2. \A v \in Live : v \notin D
  BY <1>1, NextRevisionRises DEF Inv, TypeOK, Versions, Revisions
<1>3. /\ D \subseteq DOMAIN rs
      /\ \A v \in D : rs[v] = Initial(v, regs[v])
      /\ \A v \in DOMAIN rs : v \notin D => rs[v] = routes[v]
      /\ \A v \in Live : TicketsOf(v) # {} => v \in DOMAIN rs
  BY DEF Configured
<1> HIDE DEF rs
<1>4. CASE UNCHANGED <<routes, current, active, conf>>
  <2>1. EvidenceStep
    BY <1>4, SameRoutesEvidence
  <2> QED BY <2>1, SameVersionEvidence DEF EvidenceStep
<1>5. CASE /\ routes' = rs /\ current' = D /\ conf' = regs
           /\ UNCHANGED <<active, lease, leaseSeq>>
  <2>1. EvidenceInv'
    <3>1. \A t \in active : rs[t.version] = routes[t.version]
      <4> TAKE t \in active
      <4>1. t.version \in Live /\ t \in TicketsOf(t.version)
        BY DEF Inv, TicketInv, Matching, TicketsOf
      <4> QED BY <1>2, <1>3, <4>1
    <3> QED BY <1>1, <1>5, <3>1 DEF EvidenceInv
  <2>2. ASSUME NEW v \in current, NEW w \in D, SameRoute(v, w)
        PROVE  EvidenceOf(v, w)
    <3> DEFINE rt == routes[v]
    <3>1. rt \in Runtime /\ Sound(rt, now)
      BY DEF Inv, TypeOK, SoundInv, Live
    <3> HIDE DEF rt
    <3>2. regs[w] \in BOOLEAN
      BY <1>1
    <3>3. rs[w] = Reconfigured(rt, TRUE, regs[w])
      <4>1. \E x \in current : x.key = w.key
        BY <2>2 DEF SameRoute
      <4>2. (CHOOSE x \in current : x.key = w.key) = v
        BY <2>2, <4>1 DEF EvidenceInv, SameRoute
      <4>3. (v.fp = w.fp) = TRUE
        BY <2>2 DEF SameRoute
      <4> QED BY <1>3, <4>1, <4>2, <4>3 DEF Initial, rt
    <3>4. rs[w].enabled /\ rt.enabled => rs[w] = [rt EXCEPT !.epoch = @ + 1]
      <4>1. ~regs[w] => ~rs[w].enabled
        BY <3>1, <3>3 DEF Reconfigured, Runtime
      <4> QED BY <3>2, <3>3, <4>1 DEF Reconfigured
    <3>5. rt.actionRequired \/ rt.state = "open_temporary" => rt.enabled
      BY <3>1 DEF Sound, Runtime
    <3>6. rs[w].enabled /\ rt.enabled
            => /\ rs[w].actionRequired = rt.actionRequired
               /\ rs[w].state = rt.state /\ rs[w].openUntil = rt.openUntil
      BY <3>1, <3>4 DEF Runtime
    <3> QED BY <1>5, <3>5, <3>6 DEF EvidenceOf, rt
  <2>3. \A v \in current, w \in D : EvidenceOf(v, w)
    BY <2>2 DEF EvidenceOf
  <2> QED BY <1>5, <2>1, <2>3
<1>6. Persist(/\ routes' = rs /\ current' = D /\ conf' = regs
              /\ UNCHANGED <<active, lease, leaseSeq>>, Export(rs, D))
  BY DEF Configure, rs
<1> QED BY <1>4, <1>5, <1>6 DEF Persist

LEMMA ReleaseEvidence ==
    ASSUME Inv, EvidenceInv, NEW vs \in SUBSET Live, Release(vs)
    PROVE  EvidenceStep
<1> DEFINE S == {v \in vs : /\ v \notin current /\ pins[v] = 1
                            /\ TicketsOf(v) = {}}
<1>1. routes' = Without(routes, S) /\ UNCHANGED <<current, conf, active>>
  BY DEF Release
<1>2. \A v \in Live : v \in current \/ (\E t \in active : t.version = v)
                        => v \notin S
  BY DEF TicketsOf
<1> HIDE DEF S
<1>3. \A v \in Live \ S : routes'[v] = routes[v]
  BY <1>1 DEF Without, Live
<1> QED BY <1>1, <1>2, <1>3, SameRoutesEvidence

LEMMA CrashEvidence ==
    ASSUME EvidenceInv, Crash PROVE EvidenceInv'
<1>1. current' = {} /\ active' = {}
  BY DEF Crash
<1>2. \A v, w \in DOMAIN conf' : v.key = w.key => v = w
  BY RegistrationsUnique DEF Crash, EvidenceInv
<1> QED BY <1>1, <1>2 DEF EvidenceInv

\* What a start takes over from the document: the alarm, and the cooldown, or
\* another one for a route whose probe died with the process.
EvidenceRestored(v) ==
    /\ disk[v].actionRequired /\ disk[v].enabled = conf[v]
         => routes'[v].state = "open_action_required"
    /\ /\ disk[v].enabled /\ conf[v] /\ ~disk[v].actionRequired
       /\ disk[v].state \in {"open_temporary", "half_open"}
       => /\ routes'[v].state = "open_temporary"
          /\ routes'[v].openUntil >= disk[v].openUntil
          /\ disk[v].state = "half_open" => routes'[v].openUntil > now

LEMMA StartEvidence ==
    ASSUME Inv, SoundInv, EvidenceInv, Start
    PROVE  /\ EvidenceInv'
           /\ up' => \A v \in current' \cap DOMAIN disk : EvidenceRestored(v)
<1>1. active = {} /\ active' = {} /\ conf' = conf /\ ~up
  BY DEF Start, Inv, DeadIsEmpty
<1>2. \/ UNCHANGED <<up, current>>
      \/ routes' = [v \in DOMAIN conf |-> Restart(v)] /\ current' = DOMAIN conf
  BY DEF Start
<1>3. EvidenceInv'
  BY <1>1, <1>2 DEF EvidenceInv
<1>4. ASSUME up', NEW v \in current' \cap DOMAIN disk PROVE EvidenceRestored(v)
  <2> DEFINE rt == disk[v]
  <2>1. v \in DOMAIN conf /\ routes'[v] = Restart(v) /\ conf[v] \in BOOLEAN
    BY <1>1, <1>2, <1>4 DEF Inv, TypeOK
  <2>2. rt \in Runtime /\ Sound(rt, now) /\ now \in Nat
    BY <1>4 DEF Inv, TypeOK, SoundInv
  <2>3. rt.enabled = conf[v] => routes'[v] = Restored(rt)
    BY <1>4, <2>1 DEF Restart
  <2> HIDE DEF rt
  <2>4. ASSUME rt.actionRequired, rt.enabled
        PROVE  Restored(rt).state = "open_action_required"
    <3>1. CASE rt.state = "half_open"
      BY <2>2, <2>4, <3>1 DEF Restored, Runtime
    <3>2. CASE rt.state = "open_action_required"
      BY <2>2, <2>4, <3>2 DEF Restored, Runtime
    <3> QED BY <2>2, <2>4, <3>1, <3>2 DEF Sound
  <2>5. ASSUME rt.enabled, ~rt.actionRequired, rt.state = "half_open"
        PROVE  /\ Restored(rt).state = "open_temporary"
               /\ Restored(rt).openUntil >= rt.openUntil
               /\ Restored(rt).openUntil > now
    <3> DEFINE until == IF rt.openUntil < now + BaseCooldown
                        THEN now + BaseCooldown ELSE rt.openUntil
    <3>1. Restored(rt) = [rt EXCEPT !.epoch = @ + 1, !.state = "open_temporary",
                                    !.openUntil = until]
      BY <2>5 DEF Restored
    <3>2. until >= rt.openUntil /\ until > now
      BY <2>2, PolicyAssumption DEF Runtime, NoTime
    <3> HIDE DEF until
    <3> QED BY <2>2, <3>1, <3>2 DEF Runtime
  <2>6. ASSUME rt.enabled, rt.state = "open_temporary"
        PROVE  Restored(rt) = rt /\ rt.openUntil >= rt.openUntil
    BY <2>2, <2>6 DEF Restored, Sound, Runtime, NoTime
  <2>7. rt.actionRequired => rt.enabled
    BY <2>2 DEF Sound, Runtime
  <2>8. rt.enabled \in BOOLEAN
    BY <2>2 DEF Runtime
  <2> QED BY <2>1, <2>3, <2>4, <2>5, <2>6, <2>7, <2>8 DEF EvidenceRestored, rt
<1> QED BY <1>3, <1>4

LEMMA InitEstablishesEvidence == Init => EvidenceInv
<1>1. 1 \in Revisions
  BY BoundAssumption DEF Revisions
<1> QED BY <1>1, RegistrationsUnique DEF Init, EvidenceInv

\* The report of a ticket.
Settles(t) ==
    \/ RecordSuccess(t)
    \/ \E kind \in FailureKinds : RecordFailure(t, kind)
    \/ RecordCancelled(t)
    \/ Abandon(t)

\* The registry's operations, without the bounds of its own runs.
Operation ==
    \/ Reconfigure
    \/ \E vs \in SUBSET Live : Pin(vs) \/ Release(vs)
    \/ \E v \in Live, a \in Attempts, signal \in Signals, manual \in BOOLEAN :
          Acquire(v, a, manual, signal)
    \/ \E v \in Live, manual \in BOOLEAN : AcquireBusy(v, manual)
    \/ \E t \in active : Settles(t)
    \/ Crash \/ Start \/ Tick

\* Every step, seen from the evidence.
LEMMA OperationEvidence ==
    ASSUME Inv, SoundInv, EvidenceInv, [Operation]_vars
    PROVE  /\ EvidenceInv'
           /\ up /\ up' /\ ~UNCHANGED vars
                => \A v \in current, w \in current' : EvidenceOf(v, w)
           /\ ~up /\ up' /\ ~UNCHANGED vars
                => \A v \in current' \cap DOMAIN disk : EvidenceRestored(v)
<1> DEFINE Goal == /\ EvidenceInv'
                   /\ up /\ up' => \A v \in current, w \in current' : EvidenceOf(v, w)
                   /\ ~up /\ up' => \A v \in current' \cap DOMAIN disk : EvidenceRestored(v)
<1>1. EvidenceStep /\ up' = up => Goal
  BY SameVersionEvidence DEF EvidenceStep
<1>2. CASE Reconfigure
  BY <1>2, ConfigureEvidence DEF Reconfigure, Configure
<1>3. CASE \E vs \in SUBSET Live : Pin(vs)
  <2>1. EvidenceStep /\ up' = up
    BY <1>3, SameRoutesEvidence DEF Pin
  <2> QED BY <1>1, <2>1
<1>4. CASE \E vs \in SUBSET Live : Release(vs)
  <2>1. EvidenceStep /\ up' = up
    BY <1>4, ReleaseEvidence DEF Release
  <2> QED BY <1>1, <2>1
<1>5. CASE \E v \in Live, a \in Attempts, signal \in Signals, manual \in BOOLEAN :
              Acquire(v, a, manual, signal)
  <2>1. PICK v \in Live, a \in Attempts, signal \in Signals, manual \in BOOLEAN :
           Acquire(v, a, manual, signal)
    BY <1>5
  <2>2. EvidenceStep
    BY <2>1, AcquireEvidence
  <2>3. up' = up
    BY <2>1 DEF Acquire
  <2> QED BY <1>1, <2>2, <2>3
<1>6. CASE \E v \in Live, manual \in BOOLEAN : AcquireBusy(v, manual)
  <2>1. EvidenceStep /\ up' = up
    BY <1>6, AcquireBusyEvidence DEF AcquireBusy
  <2> QED BY <1>1, <2>1
<1>7. CASE \E t \in active : Settles(t)
  <2>1. EvidenceStep
    BY <1>7, ReportEvidence DEF Settles
  <2>2. up' = up
    BY <1>7 DEF Settles, RecordSuccess, RecordFailure, RecordCancelled, Abandon, Observe
  <2> QED BY <1>1, <2>1, <2>2
<1>8. CASE Crash
  BY <1>8, CrashEvidence DEF Crash
<1>9. CASE Start
  BY <1>9, StartEvidence DEF Start
<1>10. CASE Tick
  <2>1. EvidenceStep /\ up' = up
    BY <1>10, SameRoutesEvidence DEF Tick
  <2> QED BY <1>1, <2>1
<1>11. CASE UNCHANGED vars
  <2>1. EvidenceStep
    BY <1>11, SameRoutesEvidence DEF vars
  <2> QED BY <1>11, <2>1 DEF EvidenceStep
<1> QED BY <1>2, <1>3, <1>4, <1>5, <1>6, <1>7, <1>8, <1>9, <1>10, <1>11 DEF Operation

\* The registry's own steps are operations within bounds.
LEMMA NextOperates == [Next]_vars => [Operation]_vars
BY DEF Next, Operation, Settles

\* What the operations do to the alarm and the cooldown of a route.
LEMMA OperationKeepsEvidence ==
    ASSUME Inv, SoundInv, EvidenceInv, [Operation]_vars
    PROVE  [AlarmKept]_vars /\ [CooldownKept]_vars
<1> SUFFICES ASSUME ~UNCHANGED vars PROVE AlarmKept /\ CooldownKept
  OBVIOUS
<1>1. /\ up /\ up' => \A v \in current, w \in current' : EvidenceOf(v, w)
      /\ ~up /\ up' => \A v \in current' \cap DOMAIN disk : EvidenceRestored(v)
  BY OperationEvidence
<1> QED BY <1>1 DEF EvidenceOf, EvidenceRestored, AlarmKept, CooldownKept

THEOREM EvidenceHolds == Spec => []EvidenceInv
<1>1. Inv /\ SoundInv /\ EvidenceInv /\ [Next]_vars => EvidenceInv'
  BY NextOperates, OperationEvidence
<1> QED BY <1>1, InitEstablishesEvidence, InvHolds, SoundHolds, PTL DEF Spec

\* No configuration and no crash makes the registry forget the alarm or the
\* cooldown that the failures of a route have earned it.
THEOREM EvidenceIsKept == Spec => EvidenceKept
<1>1. Inv /\ SoundInv /\ EvidenceInv /\ [Next]_vars
        => [AlarmKept]_vars /\ [CooldownKept]_vars
  BY NextOperates, OperationKeepsEvidence
<1> QED BY <1>1, InvHolds, SoundHolds, EvidenceHolds, PTL
       DEF Spec, EvidenceKept, ActionRequiredHeld, CooldownServed

-----------------------------------------------------------------------------
(* The registry under its callers *)

\* The operations keep what is proved of the registry.
LEMMA OperationKeeps ==
    ASSUME RegistryInv, [Operation]_vars PROVE RegistryInv'
<1> USE DEF RegistryInv
<1>1. now \in Nat
  BY DEF Inv, TypeOK
<1>2. CASE Reconfigure
  BY <1>2, ConfigureKeepsInv, ConfigureKeepsSound, ConfigureEvidence DEF Reconfigure
<1>3. ASSUME NEW vs \in SUBSET Live, Pin(vs) PROVE RegistryInv'
  <2>1. Inv'
    BY <1>3, PinKeepsInv
  <2>2. SoundInv'
    BY <1>1, <1>3, LaterKeepsSound DEF Pin
  <2>3. EvidenceInv'
    BY <1>3, SameRoutesEvidence DEF Pin, EvidenceStep
  <2> QED BY <2>1, <2>2, <2>3
<1>4. ASSUME NEW vs \in SUBSET Live, Release(vs) PROVE RegistryInv'
  BY <1>4, ReleaseKeepsInv, ReleaseKeepsSound, ReleaseEvidence DEF EvidenceStep
<1>5. ASSUME NEW v \in Live, NEW a \in Attempts, NEW signal \in Signals,
             NEW manual \in BOOLEAN, Acquire(v, a, manual, signal)
      PROVE  RegistryInv'
  BY <1>5, AcquireKeepsInv, AcquireKeepsSound, AcquireEvidence DEF EvidenceStep
<1>6. ASSUME NEW v \in Live, NEW manual \in BOOLEAN, AcquireBusy(v, manual)
      PROVE  RegistryInv'
  BY <1>6, AcquireBusyKeepsInv, AcquireBusyKeepsSound, AcquireBusyEvidence DEF EvidenceStep
<1>7. ASSUME NEW t \in active, Settles(t) PROVE RegistryInv'
  BY <1>7, ReportKeepsInv, ReportKeepsSound, ReportEvidence DEF Settles, EvidenceStep
<1>8. CASE Crash
  <2>1. SoundInv'
    BY <1>8 DEF Crash, Empty, SoundInv, UsableWithTickets, DocumentMatchesMemory, Live
  <2> QED BY <1>8, <2>1, CrashKeepsInv, CrashEvidence
<1>9. CASE Start
  BY <1>9, StartKeepsInv, StartKeepsSound, StartEvidence
<1>10. CASE Tick \/ UNCHANGED vars
  <2>1. /\ now' \in Nat /\ now <= now' /\ uncertain' \in BOOLEAN /\ DocType(disk')
        /\ UNCHANGED <<routes, current, active, pins, lease, leaseSeq, uncertain,
                       disk, conf, up>>
    BY <1>1, <1>10 DEF Tick, vars, Inv, TypeOK, DocType
  <2> QED BY <2>1, MemoryUnchanged, LaterKeepsSound, SameRoutesEvidence DEF EvidenceStep
<1> QED BY <1>2, <1>3, <1>4, <1>5, <1>6, <1>7, <1>8, <1>9, <1>10 DEF Operation

\* What acquire does that its caller can see.
LEMMA AcquireEffect ==
    ASSUME Inv, NEW v \in Live, NEW a, NEW manual \in BOOLEAN, NEW signal,
           Acquire(v, a, manual, signal)
    PROVE  /\ UNCHANGED <<current, pins, up, conf>> /\ Live' = Live
           /\ \/ leaseSeq' = leaseSeq /\ UNCHANGED <<routes, active>>
              \/ /\ leaseSeq' = leaseSeq + 1 /\ leaseSeq' # leaseSeq
                 /\ NewTicket(v, a, manual, signal) \in active'
                 /\ active' \subseteq active \cup {NewTicket(v, a, manual, signal)}
                 /\ \A t \in active : t.version # v => t \in active'
<1> DEFINE rt == Admitting(v, manual)
           t  == NewTicket(v, a, manual, signal)
           commit == /\ routes' = [routes EXCEPT ![v] = rt]
                     /\ active' = Remaining(v, manual) \cup {t}
                     /\ lease' = [lease EXCEPT ![v] = IF t.guarded THEN t.lease ELSE @]
                     /\ leaseSeq' = leaseSeq + 1
                     /\ UNCHANGED <<current, conf>>
<1>1. /\ UNCHANGED <<pins, up>>
      /\ \/ Persist(commit, Export([routes EXCEPT ![v] = rt], current))
         \/ commit
  BY DEF Acquire
<1>2. leaseSeq \in Nat
  BY DEF Inv, TypeOK
<1>3. CASE commit
  <2>1. /\ DOMAIN routes' = DOMAIN routes /\ leaseSeq' = leaseSeq + 1
        /\ active' = Remaining(v, manual) \cup {t} /\ UNCHANGED <<current, conf>>
    BY <1>3
  <2> HIDE DEF t
  <2>2. \A u \in active : u.version # v => u \in Remaining(v, manual)
    BY DEF Remaining, TicketsOf
  <2>3. Remaining(v, manual) \subseteq active
    BY DEF Remaining
  <2> QED BY <1>1, <1>2, <2>1, <2>2, <2>3 DEF Live, t
<1>4. CASE UNCHANGED <<routes, current, active, lease, leaseSeq, conf>>
  BY <1>1, <1>4 DEF Live
<1>5. commit \/ UNCHANGED <<routes, current, active, lease, leaseSeq, conf>>
  <2> HIDE DEF commit
  <2> QED BY <1>1 DEF Persist
<1> QED BY <1>3, <1>4, <1>5

LEMMA AcquireBusyEffect ==
    ASSUME Inv, NEW v \in Live, NEW manual \in BOOLEAN, AcquireBusy(v, manual)
    PROVE  /\ UNCHANGED <<current, pins, up, conf, leaseSeq>> /\ Live' = Live
           /\ active' \subseteq active /\ Reopens(v, manual)
           /\ \A t \in active : t.version # v => t \in active'
<1> DEFINE rt == Admitting(v, manual)
           commit == /\ routes' = [routes EXCEPT ![v] = rt]
                     /\ active' = Remaining(v, manual)
                     /\ lease' = [lease EXCEPT ![v] = NoLease]
                     /\ UNCHANGED <<current, leaseSeq, conf>>
<1>1. /\ UNCHANGED <<pins, up>> /\ Reopens(v, manual)
      /\ Persist(commit, Export([routes EXCEPT ![v] = rt], current))
  BY DEF AcquireBusy
<1>2. CASE commit
  <2>1. /\ DOMAIN routes' = DOMAIN routes
        /\ active' = Remaining(v, manual) /\ UNCHANGED <<current, leaseSeq, conf>>
    BY <1>2
  <2>2. \A u \in active : u.version # v => u \in Remaining(v, manual)
    BY DEF Remaining, TicketsOf
  <2>3. Remaining(v, manual) \subseteq active
    BY DEF Remaining
  <2> QED BY <1>1, <2>1, <2>2, <2>3 DEF Live
<1>3. CASE UNCHANGED <<routes, current, active, lease, leaseSeq, conf>>
  BY <1>1, <1>3 DEF Live
<1>4. commit \/ UNCHANGED <<routes, current, active, lease, leaseSeq, conf>>
  <2> HIDE DEF commit
  <2> QED BY <1>1 DEF Persist
<1> QED BY <1>2, <1>3, <1>4

\* A report, as its caller sees it: applied, or in doubt and without effect.
Applied(t, rt) == routes' = Observed(t, rt) /\ active' = Settled(t, rt)

LEMMA ObserveEffect ==
    ASSUME NEW t, NEW rt, Observe(t, rt)
    PROVE  /\ UNCHANGED <<current, pins, up, conf, leaseSeq>>
           /\ Applied(t, rt) \/ UNCHANGED <<routes, active>>
<1> DEFINE commit == /\ routes' = Observed(t, rt)
                     /\ active' = Settled(t, rt)
                     /\ lease' = Unleased(t, rt)
                     /\ UNCHANGED <<current, leaseSeq, conf>>
<1>1. UNCHANGED <<pins, up>> /\ Persist(commit, Export(Observed(t, rt), current))
  BY DEF Observe
<1>2. commit \/ UNCHANGED <<routes, current, active, lease, leaseSeq, conf>>
  <2> HIDE DEF commit
  <2> QED BY <1>1 DEF Persist
<1> QED BY <1>1, <1>2 DEF Applied

LEMMA AbandonEffect ==
    ASSUME NEW t, Abandon(t)
    PROVE  /\ UNCHANGED <<current, pins, up, conf, leaseSeq>>
           /\ Applied(t, routes[t.version]) /\ active' = active \ {t}
BY DEF Abandon, Applied, Settled

LEMMA SettlesEffect ==
    ASSUME NEW t, Settles(t)
    PROVE  /\ UNCHANGED <<current, pins, up, conf, leaseSeq>>
           /\ (\E rt : Applied(t, rt)) \/ UNCHANGED <<routes, active>>
<1>1. CASE RecordSuccess(t)
  BY <1>1, ObserveEffect DEF RecordSuccess
<1>2. ASSUME NEW kind, RecordFailure(t, kind)
      PROVE  /\ UNCHANGED <<current, pins, up, conf, leaseSeq>>
             /\ (\E rt : Applied(t, rt)) \/ UNCHANGED <<routes, active>>
  <2>1. PICK rt : Observe(t, rt)
    BY <1>2 DEF RecordFailure
  <2> QED BY <2>1, ObserveEffect
<1>3. CASE Abandon(t)
  BY <1>3, AbandonEffect
<1>4. CASE RecordCancelled(t)
  <2>1. Abandon(t) \/ \E rt : Observe(t, rt)
    BY <1>4 DEF RecordCancelled
  <2> QED BY <1>3, <2>1, ObserveEffect
<1> QED BY <1>1, <1>2, <1>3, <1>4 DEF Settles

\* A report drops tickets of its version only.
LEMMA AppliedTickets ==
    ASSUME NEW t, NEW rt, Applied(t, rt)
    PROVE  /\ active' \subseteq active \ {t}
           /\ \A u \in active : u.version # t.version => u \in active'
           /\ rt.state = routes[t.version].state => active' = active \ {t}
BY DEF Applied, Settled, TicketsOf

\* It leaves no version behind that nobody needs, if no other ticket goes
\* with the change of the state, or somebody still pins the version.
LEMMA AppliedForgetsNothing ==
    ASSUME Inv, NoForgottenVersions, NEW t \in active, NEW rt, Applied(t, rt),
           UNCHANGED <<current, pins>>,
           \/ rt.state = routes[t.version].state
           \/ pins[t.version] > 0
           \/ TicketsOf(t.version) = {t}
    PROVE  NoForgottenVersions'
<1> DEFINE v == t.version
<1>1. v \in Live
  BY DEF Inv, TicketInv, Matching
<1>2. /\ DOMAIN routes' \subseteq Live
      /\ v \in DOMAIN routes' => ~Prunable(v, active \ {t})
  BY <1>1 DEF Applied, Observed, Without, Live
<1> SUFFICES ASSUME NEW w \in DOMAIN routes', w \notin current
             PROVE  pins[w] > 0 \/ \E u \in active' : u.version = w
  BY DEF NoForgottenVersions, Live, TicketsOf
<1>3. CASE w # v
  <2>1. pins[w] > 0 \/ \E u \in active : u.version = w
    BY <1>2 DEF NoForgottenVersions, TicketsOf
  <2> QED BY <1>3, <2>1, AppliedTickets
<1>4. CASE w = v
  <2>1. pins[v] \in Nat
    BY <1>1 DEF Inv, TypeOK
  <2>2. pins[v] > 0 \/ \E u \in active \ {t} : u.version = v
    BY <1>2, <1>4, <2>1 DEF Prunable
  <2>3. CASE rt.state = routes[v].state
    BY <1>4, <2>2, <2>3, AppliedTickets
  <2>4. CASE TicketsOf(v) = {t}
    BY <1>4, <2>2, <2>4 DEF TicketsOf
  <2> QED BY <1>4, <2>3, <2>4
<1> QED BY <1>3, <1>4

\* So does the report of a request, which still pins the version,
LEMMA PinnedForgetsNothing ==
    ASSUME Inv, NoForgottenVersions, NEW t \in active, Settles(t), pins[t.version] > 0
    PROVE  NoForgottenVersions'
<1>1. /\ UNCHANGED <<current, pins, up, conf, leaseSeq>>
      /\ (\E rt : Applied(t, rt)) \/ UNCHANGED <<routes, active>>
  BY SettlesEffect
<1>2. CASE UNCHANGED <<routes, active>>
  BY <1>1, <1>2 DEF NoForgottenVersions, Live, TicketsOf
<1>3. ASSUME NEW rt, Applied(t, rt) PROVE NoForgottenVersions'
  BY <1>1, <1>3, AppliedForgetsNothing
<1> QED BY <1>1, <1>2, <1>3

\* and that of a probe, which changes the state of a route that it alone tries.
LEMMA ProbeForgetsNothing ==
    ASSUME Inv, SoundInv, NoForgottenVersions, NEW t \in active, t.signal = "probe",
           \/ RecordSuccess(t)
           \/ t.guarded /\ \E kind \in FailureKinds : RecordFailure(t, kind)
           \/ RecordCancelled(t)
           \/ Abandon(t)
    PROVE  NoForgottenVersions'
<1> DEFINE v == t.version
<1>1. Settles(t)
  BY DEF Settles
<1>2. /\ UNCHANGED <<current, pins, up, conf, leaseSeq>>
      /\ (\E rt : Applied(t, rt)) \/ UNCHANGED <<routes, active>>
  BY <1>1, SettlesEffect
<1>3. CASE UNCHANGED <<routes, active>>
  BY <1>2, <1>3 DEF NoForgottenVersions, Live, TicketsOf
<1>4. CASE t.guarded
  <2>1. ASSUME NEW u \in active, u.version = v PROVE u = t
    <3>1. t.guarded <=> Guarded(routes[v])
      BY DEF Inv, TicketInv
    <3>2. u.guarded <=> Guarded(routes[v])
      BY <2>1 DEF Inv, TicketInv
    <3> QED BY <1>4, <2>1, <3>1, <3>2 DEF Inv, TicketInv, SameRoute
  <2>2. TicketsOf(v) = {t}
    BY <2>1 DEF TicketsOf
  <2> QED BY <1>2, <1>3, <2>2, AppliedForgetsNothing
<1>5. CASE ~t.guarded
  <2>1. routes[v].state = "closed"
    BY <1>5 DEF Inv, TicketInv, Guarded, SoundInv, UsableWithTickets
  <2>2. CASE Abandon(t)
    <3>1. Applied(t, routes[v])
      BY <2>2, AbandonEffect
    <3> QED BY <1>2, <3>1, AppliedForgetsNothing
  <2>3. CASE RecordSuccess(t)
    <3>1. Observe(t, routes[v])
      BY <2>1, <2>3 DEF RecordSuccess, Success
    <3>2. Applied(t, routes[v]) \/ UNCHANGED <<routes, active>>
      BY <3>1, ObserveEffect
    <3> QED BY <1>2, <1>3, <3>2, AppliedForgetsNothing
  <2>4. CASE RecordCancelled(t)
    BY <2>1, <2>2, <2>4 DEF RecordCancelled
  <2> QED BY <1>5, <2>2, <2>3, <2>4
<1> QED BY <1>4, <1>5

\* acquire hands out a ticket for the version it empties.
LEMMA AcquireForgetsNothing ==
    ASSUME Inv, NoForgottenVersions, NEW v \in Live, NEW a, NEW manual \in BOOLEAN,
           NEW signal, Acquire(v, a, manual, signal)
    PROVE  NoForgottenVersions'
<1>1. NewTicket(v, a, manual, signal).version = v
  BY DEF NewTicket
<1> DEFINE t == NewTicket(v, a, manual, signal)
<1>2. /\ UNCHANGED <<current, pins>> /\ Live' = Live
      /\ \/ UNCHANGED <<routes, active>>
         \/ t \in active' /\ \A u \in active : u.version # v => u \in active'
  BY AcquireEffect
<1> HIDE DEF t
<1>3. t.version = v
  BY <1>1 DEF t
<1> QED BY <1>2, <1>3 DEF NoForgottenVersions, TicketsOf

\* It moves a route to HALF_OPEN for nobody: one without tickets.
LEMMA AcquireBusyForgetsNothing ==
    ASSUME Inv, SoundInv, NoForgottenVersions, NEW v \in Live, NEW manual \in BOOLEAN,
           AcquireBusy(v, manual)
    PROVE  NoForgottenVersions'
<1>1. /\ UNCHANGED <<current, pins>> /\ Live' = Live /\ Reopens(v, manual)
      /\ \A u \in active : u.version # v => u \in active'
  BY AcquireBusyEffect
<1>2. \A u \in active : u.version # v
  BY <1>1 DEF Reopens, SoundInv, UsableWithTickets
<1> QED BY <1>1, <1>2 DEF NoForgottenVersions, TicketsOf

LEMMA ConfigureForgetsNothing ==
    ASSUME Inv, NoForgottenVersions, NEW regs, Configure(regs)
    PROVE  NoForgottenVersions' /\ UNCHANGED <<active, pins, up, leaseSeq>>
<1> DEFINE rs == Configured(regs)
           commit == /\ routes' = rs
                     /\ current' = DOMAIN regs
                     /\ conf' = regs
                     /\ UNCHANGED <<active, lease, leaseSeq>>
<1>1. UNCHANGED <<pins, up>> /\ Persist(commit, Export(rs, DOMAIN regs))
  BY DEF Configure
<1>2. CASE commit
  <2> SUFFICES ASSUME NEW v \in DOMAIN routes', v \notin DOMAIN regs
               PROVE  pins[v] > 0 \/ \E u \in active : u.version = v
    BY <1>1, <1>2 DEF NoForgottenVersions, Live, TicketsOf
  <2>1. /\ v \in Live
        /\ (\E w \in current \cup DOMAIN regs : w.key = v.key)
              => pins[v] > 0 \/ TicketsOf(v) # {}
    BY <1>2 DEF Configured
  <2>2. CASE v \in current
    BY <2>1, <2>2 DEF TicketsOf
  <2>3. CASE v \notin current
    BY <2>1, <2>3 DEF NoForgottenVersions, TicketsOf
  <2> QED BY <2>2, <2>3
<1>3. CASE UNCHANGED <<routes, current, active, lease, leaseSeq, conf>>
  BY <1>1, <1>3 DEF NoForgottenVersions, Live, TicketsOf
<1>4. commit \/ UNCHANGED <<routes, current, active, lease, leaseSeq, conf>>
  <2> HIDE DEF commit
  <2> QED BY <1>1 DEF Persist
<1> QED BY <1>1, <1>2, <1>3, <1>4

LEMMA ReleaseForgetsNothing ==
    ASSUME Inv, NoForgottenVersions, NEW vs \in SUBSET Live, Release(vs)
    PROVE  NoForgottenVersions'
<1> DEFINE S == {v \in vs : v \notin current /\ pins[v] = 1 /\ TicketsOf(v) = {}}
<1>1. /\ routes' = Without(routes, S) /\ UNCHANGED <<current, active>>
      /\ pins' = [v \in Versions |-> IF v \in vs THEN pins[v] - 1 ELSE pins[v]]
      /\ \A v \in vs : pins[v] > 0
  BY DEF Release
<1> SUFFICES ASSUME NEW v \in DOMAIN routes', v \notin current
             PROVE  pins'[v] > 0 \/ \E u \in active : u.version = v
  BY <1>1 DEF NoForgottenVersions, Live, TicketsOf
<1>2. v \in Live /\ v \notin S /\ v \in Versions /\ pins[v] \in Nat
  BY <1>1 DEF Without, Live, Inv, TypeOK
<1>3. CASE v \in vs
  BY <1>1, <1>2, <1>3 DEF TicketsOf
<1>4. CASE v \notin vs
  BY <1>1, <1>2, <1>4 DEF NoForgottenVersions, TicketsOf
<1> QED BY <1>3, <1>4

-----------------------------------------------------------------------------
(* A handler moves *)

\* The safety of one request, of its record alone.
NoReplay(q) ==
    q.risk => ~ \E x \in q.ran : /\ IsPrimary(x.version)
                                 /\ \E i \in DOMAIN q.tried : ~IsPrimary(q.tried[i])
Charged(q) ==
    \A x, y \in q.ran : /\ IsPrimary(x.version) /\ ~IsPrimary(y.version)
                        /\ x.end # "server_error"
                        => q.double \/ q.verdict = "error"
HandlerOK(r, q) ==
    q \in Handler /\ Holds(r, q) /\ Routes(q) /\ Ran(q) /\ Answers(q)
        /\ NoReplay(q) /\ Charged(q)

LEMMA HandlersAreOK ==
    ASSUME GatewayInv, NEW r \in Requests
    PROVE  HandlerOK(r, req[r]) /\ \A t \in req[r].tickets : t.lease <= leaseSeq
<1>1. NoReplay(req[r])
  BY DEF GatewayInv, NoReplayOfSideEffects, NoReplay
<1>2. Charged(req[r])
  BY DEF GatewayInv, DoubleChargeReported, Charged
<1>3. req[r] \in Handler
  BY DEF GatewayInv, GateTypeOK
<1> QED BY <1>1, <1>2, <1>3 DEF GatewayInv, HandlersInv, HandlerOK

\* A handler that keeps its versions moves.
LEMMA HandlerMoves ==
    ASSUME GatewayInv, NEW r \in Requests, NEW q, Step(r, q), HandlerOK(r, q),
           req[r].pc # "idle", q.pc # "idle", q.versions = req[r].versions,
           RegistryInv', NoForgottenVersions', UNCHANGED pins,
           leaseSeq' \in Nat, leaseSeq <= leaseSeq',
           \A t \in q.tickets : t.lease <= leaseSeq',
           \A t \in active' :
              \/ t \in active /\ (t \in req[r].tickets => t \in q.tickets)
              \/ t.attempt = r /\ t \in q.tickets
    PROVE  GatewayInv'
<1>1. /\ req \in [Requests -> Handler] /\ req' = [req EXCEPT ![r] = q] /\ q \in Handler
      /\ UNCHANGED <<inflight, accepting, drained, probe>>
  BY DEF Step, GatewayInv, GateTypeOK, HandlerOK
<1>2. /\ req' \in [Requests -> Handler] /\ req'[r] = q
      /\ \A s \in Requests : s # r => req'[s] = req[s]
  BY <1>1
<1>3. GateTypeOK'
  BY <1>1, <1>2 DEF GatewayInv, GateTypeOK
<1>4. ASSUME NEW s \in Requests
      PROVE  HandlerOK(s, req'[s]) /\ \A t \in req'[s].tickets : t.lease <= leaseSeq'
  <2>1. CASE s = r
    BY <1>2, <2>1
  <2>2. CASE s # r
    <3>1. HandlerOK(s, req[s]) /\ \A t \in req[s].tickets : t.lease <= leaseSeq
      BY HandlersAreOK
    <3>2. \A t \in req[s].tickets : t.lease \in Nat
      BY <1>1 DEF Handler, Ticket
    <3>3. leaseSeq \in Nat
      BY DEF GatewayInv, RegistryInv, Inv, TypeOK
    <3>4. \A t \in req[s].tickets : t.lease <= leaseSeq'
      BY <3>1, <3>2, <3>3
    <3> QED BY <1>2, <2>2, <3>1, <3>4
  <2> QED BY <2>1, <2>2
<1>5. HandlersInv' /\ NoReplayOfSideEffects' /\ DoubleChargeReported'
  <2>1. HandlersInv'
    BY <1>4 DEF HandlersInv, HandlerOK
  <2>2. \A s \in Requests : NoReplay(req'[s]) /\ Charged(req'[s])
    BY <1>4 DEF HandlerOK
  <2>3. NoReplayOfSideEffects'
    BY <2>2 DEF NoReplayOfSideEffects, NoReplay
  <2>4. DoubleChargeReported'
    BY <2>2 DEF DoubleChargeReported, Charged
  <2> QED BY <2>1, <2>3, <2>4
<1>6. ProbersInv'
  BY <1>1 DEF GatewayInv, ProbersInv
<1>7. Inside' = Inside
  BY <1>2 DEF Inside
<1>8. IsFiniteSet(Inside') /\ DrainIsExact'
  BY <1>1, <1>7 DEF GatewayInv, DrainIsExact, Inside
<1>9. TicketsHaveRequests'
  <2> SUFFICES ASSUME NEW t \in active', t.attempt \in Requests
               PROVE  t \in req'[t.attempt].tickets
    BY DEF TicketsHaveRequests
  <2>1. CASE t.attempt = r /\ t \in q.tickets
    BY <1>2, <2>1
  <2>2. CASE t \in active /\ (t \in req[r].tickets => t \in q.tickets)
    <3>1. t \in req[t.attempt].tickets
      BY <2>2 DEF GatewayInv, TicketsHaveRequests
    <3> QED BY <1>2, <2>2, <3>1
  <2> QED BY <2>1, <2>2
<1>10. PinsMatchLeases'
  <2>1. \A v : {s \in Requests : v \in req'[s].versions}
                 = {s \in Requests : v \in req[s].versions}
    BY <1>2
  <2> QED BY <2>1 DEF GatewayInv, VersionsAccountedFor, PinsMatchLeases
<1> QED BY <1>3, <1>5, <1>6, <1>8, <1>9, <1>10 DEF GatewayInv, VersionsAccountedFor

\* It moves without the registry.
LEMMA HandlerMovesAlone ==
    ASSUME GatewayInv, NEW r \in Requests, NEW q, Step(r, q), HandlerOK(r, q),
           req[r].pc # "idle", q.pc # "idle", q.versions = req[r].versions,
           UNCHANGED vars, q.tickets \subseteq req[r].tickets,
           \A t \in req[r].tickets : t \in q.tickets \/ t \notin active
    PROVE  GatewayInv'
<1>1. RegistryInv'
  BY OperationKeeps DEF GatewayInv
<1>2. leaseSeq \in Nat /\ leaseSeq' = leaseSeq /\ UNCHANGED pins /\ active' = active
  BY DEF GatewayInv, RegistryInv, Inv, TypeOK, vars
<1>3. NoForgottenVersions'
  BY DEF GatewayInv, VersionsAccountedFor, NoForgottenVersions, Live, TicketsOf, vars
<1>4. \A t \in q.tickets : t.lease <= leaseSeq
  BY HandlersAreOK
<1> QED BY <1>1, <1>2, <1>3, <1>4, HandlerMoves

-----------------------------------------------------------------------------
(* What each step leaves of the handler's record *)

LEMMA Disconnected ==
    ASSUME NEW r, NEW q0, HandlerOK(r, q0), q0.pc # "idle",
           NEW q, q = [q0 EXCEPT !.cancelled = TRUE]
    PROVE  HandlerOK(r, q) /\ q.pc = q0.pc /\ q.versions = q0.versions
           /\ q.tickets = q0.tickets
<1>1. q0 \in Handler
  BY DEF HandlerOK
<1>2. /\ q \in Handler /\ q.pc = q0.pc /\ q.risk = q0.risk /\ q.versions = q0.versions
      /\ q.plan = q0.plan /\ q.tickets = q0.tickets /\ q.ending = q0.ending
      /\ q.tried = q0.tried /\ q.ran = q0.ran /\ q.charge = q0.charge
      /\ q.double = q0.double /\ q.verdict = q0.verdict /\ q.commit = q0.commit
  BY <1>1 DEF Handler
<1>3. Holds(r, q)
  BY <1>2 DEF HandlerOK, Holds
<1>4. Routes(q)
  BY <1>2 DEF HandlerOK, Routes, OnPrimary, OnlyPrimary
<1>5. Ran(q)
  BY <1>2 DEF HandlerOK, Ran, OnPrimary
<1>6. Answers(q) /\ NoReplay(q) /\ Charged(q)
  BY <1>2 DEF HandlerOK, Answers, NoReplay, Charged
<1> QED BY <1>2, <1>3, <1>4, <1>5, <1>6 DEF HandlerOK

\* To a place past the routes: nothing but the verdict and the commit matter.
SameRequest(q, q0) ==
    /\ q.risk = q0.risk /\ q.versions = q0.versions /\ q.tickets = q0.tickets
    /\ q.tried = q0.tried /\ q.ran = q0.ran
    /\ q.double = q0.double \/ q.verdict = "error"

LEMMA PastRoutes ==
    ASSUME NEW r, NEW q0, HandlerOK(r, q0), NEW q \in Handler, SameRequest(q, q0),
           q0.verdict = "none" \/ q0.verdict = q.verdict,
           q.pc \in {"cleanup", "commit", "committing", "release"},
           q.verdict = "complete" => q0.tried # << >>,
           q.pc \in {"cleanup", "commit"} => q.commit = "uncommitted",
           q.pc = "committing" <=> q.commit = "committing",
           q.pc # "cleanup" => q0.tickets = {}
    PROVE  HandlerOK(r, q)
<1>1. Holds(r, q)
  BY DEF HandlerOK, Holds, SameRequest
<1>2. Routes(q) /\ Ran(q)
  BY DEF Routes, Ran
<1>3. Answers(q)
  BY DEF Answers, SameRequest
<1>4. NoReplay(q) /\ Charged(q)
  BY DEF HandlerOK, NoReplay, Charged, SameRequest
<1> QED BY <1>1, <1>2, <1>3, <1>4 DEF HandlerOK

\* execute comes to its verdict.
LEMMA VerdictKeeps ==
    ASSUME GatewayInv, NEW r \in Requests, req[r].pc \in {"planning", "routing", "report"},
           NEW v \in {"error", "failed", "blocked", "cancelled", "complete"},
           v = "complete" => req[r].pc = "report",
           NEW q, q = Ended(req[r], v)
    PROVE  HandlerOK(r, q) /\ q.pc # "idle" /\ q.versions = req[r].versions
           /\ q.tickets = req[r].tickets
<1>1. HandlerOK(r, req[r]) /\ req[r] \in Handler
  BY HandlersAreOK DEF HandlerOK
<1>2. req[r].commit = "uncommitted" /\ (v = "complete" => req[r].tried # << >>)
  BY <1>1 DEF HandlerOK, Answers, Routes
<1>3. /\ q \in Handler /\ SameRequest(q, req[r]) /\ q.pc = "cleanup" /\ q.verdict = v
      /\ q.commit = "uncommitted"
  <2> DEFINE d == req[r].double /\ v # "error"
  <2>1. d \in BOOLEAN /\ (v # "error" => d = req[r].double)
    <3>1. req[r].double \in BOOLEAN
      BY <1>1 DEF Handler
    <3> QED BY <3>1, Zenon
  <2>2. q = [req[r] EXCEPT !.pc = "cleanup", !.verdict = v, !.double = d]
    BY DEF Ended
  <2> HIDE DEF d
  <2> QED BY <1>1, <1>2, <2>1, <2>2 DEF Handler, SameRequest
<1>4. req[r].verdict = "none"
  BY <1>1 DEF HandlerOK, Answers
<1>5. HandlerOK(r, q)
  BY <1>1, <1>2, <1>3, <1>4, PastRoutes
<1> QED BY <1>3, <1>5 DEF SameRequest

LEMMA VerdictAlone ==
    ASSUME GatewayInv, NEW r \in Requests, req[r].pc \in {"planning", "routing", "report"},
           NEW v \in {"error", "failed", "blocked", "cancelled", "complete"},
           v = "complete" => req[r].pc = "report",
           Verdict(r, v), UNCHANGED vars
    PROVE  GatewayInv'
<1> DEFINE q == Ended(req[r], v)
<1>1. Step(r, q)
  BY DEF Verdict
<1>2. HandlerOK(r, q) /\ q.pc # "idle" /\ q.versions = req[r].versions
      /\ q.tickets = req[r].tickets
  BY VerdictKeeps
<1> HIDE DEF q
<1> QED BY <1>1, <1>2, HandlerMovesAlone

LEMMA DisconnectKeeps ==
    ASSUME GatewayInv, NEW r \in Requests, Disconnect(r) PROVE GatewayInv'
<1> DEFINE q == [req[r] EXCEPT !.cancelled = TRUE]
<1>1. Step(r, q) /\ UNCHANGED vars /\ req[r].pc # "idle"
  BY DEF Disconnect, Alive
<1>2. HandlerOK(r, req[r])
  BY HandlersAreOK
<1>3. HandlerOK(r, q) /\ q.pc = req[r].pc /\ q.versions = req[r].versions
      /\ q.tickets = req[r].tickets
  BY <1>1, <1>2, Disconnected
<1> HIDE DEF q
<1> QED BY <1>1, <1>3, HandlerMovesAlone

LEMMA RefuseKeeps ==
    ASSUME GatewayInv, NEW r \in Requests, Refuse(r) PROVE GatewayInv'
<1> DEFINE q == [req[r] EXCEPT !.pc = "commit", !.verdict = "error"]
<1>1. Step(r, q) /\ UNCHANGED vars /\ req[r].pc = "admitted"
  BY DEF Refuse, At
<1>2. HandlerOK(r, req[r]) /\ req[r] \in Handler
  BY HandlersAreOK DEF HandlerOK
<1>3. req[r].tickets = {} /\ req[r].commit = "uncommitted" /\ req[r].verdict = "none"
  BY <1>1, <1>2 DEF HandlerOK, Holds, Answers
<1>4. /\ q \in Handler /\ SameRequest(q, req[r]) /\ q.pc = "commit" /\ q.verdict = "error"
      /\ q.commit = "uncommitted"
  BY <1>2, <1>3 DEF Handler, SameRequest
<1> HIDE DEF q
<1>5. HandlerOK(r, q)
  BY <1>2, <1>3, <1>4, PastRoutes
<1> QED BY <1>1, <1>4, <1>5, HandlerMovesAlone DEF SameRequest

LEMMA ReadBodyKeeps ==
    ASSUME GatewayInv, NEW r \in Requests, ReadBody(r) PROVE GatewayInv'
<1> DEFINE q == [req[r] EXCEPT !.pc = "admitted"]
<1>1. Step(r, q) /\ UNCHANGED vars /\ req[r].pc = "reading"
  BY DEF ReadBody, At
<1>2. HandlerOK(r, req[r]) /\ req[r] \in Handler
  BY HandlersAreOK DEF HandlerOK
<1>3. /\ q \in Handler /\ SameRequest(q, req[r]) /\ q.pc = "admitted"
      /\ q.verdict = req[r].verdict /\ q.commit = req[r].commit
      /\ q.double = req[r].double
  BY <1>2 DEF Handler, SameRequest
<1> HIDE DEF q
<1>4. /\ req[r].tickets = {} /\ req[r].versions = {} /\ req[r].verdict = "none"
      /\ req[r].tried = << >> /\ req[r].ran = {} /\ req[r].commit = "uncommitted"
  BY <1>1, <1>2 DEF HandlerOK, Holds, Routes, Answers
<1>5. Holds(r, q) /\ Routes(q) /\ Ran(q) /\ Answers(q)
  BY <1>3, <1>4 DEF SameRequest, Holds, Routes, Ran, Answers
<1>6. NoReplay(q) /\ Charged(q)
  BY <1>3, <1>4 DEF SameRequest, NoReplay, Charged
<1>7. HandlerOK(r, q)
  BY <1>3, <1>5, <1>6 DEF HandlerOK
<1> QED BY <1>1, <1>3, <1>7, HandlerMovesAlone DEF SameRequest

LEMMA CommitKeeps ==
    ASSUME GatewayInv, NEW r \in Requests, StartCommit(r) \/ EndCommit(r)
    PROVE  GatewayInv'
<1>1. HandlerOK(r, req[r]) /\ req[r] \in Handler
  BY HandlersAreOK DEF HandlerOK
<1>2. req[r].pc \in {"commit", "committing"} /\ UNCHANGED vars
  BY DEF StartCommit, EndCommit, At
<1>3. /\ req[r].tickets = {} /\ (req[r].verdict = "complete" => req[r].tried # << >>)
      /\ req[r].pc = "commit" => req[r].commit = "uncommitted"
  BY <1>1, <1>2 DEF HandlerOK, Holds, Answers
<1>4. ASSUME NEW q \in Handler, Step(r, q), SameRequest(q, req[r]),
             q.verdict = req[r].verdict, q.pc \in {"committing", "release"},
             q.pc = "committing" <=> q.commit = "committing"
      PROVE  GatewayInv'
  <2>1. HandlerOK(r, q)
    BY <1>1, <1>3, <1>4, PastRoutes
  <2> QED BY <1>2, <1>4, <2>1, HandlerMovesAlone DEF SameRequest
<1>5. CASE StartCommit(r)
  <2> DEFINE q == [req[r] EXCEPT !.pc = "release"]
             p == [req[r] EXCEPT !.pc = "committing", !.commit = "committing"]
  <2>1. /\ q \in Handler /\ SameRequest(q, req[r]) /\ q.verdict = req[r].verdict
        /\ q.pc = "release" /\ q.commit = req[r].commit
    BY <1>1 DEF Handler, SameRequest
  <2>2. /\ p \in Handler /\ SameRequest(p, req[r]) /\ p.verdict = req[r].verdict
        /\ p.pc = "committing" /\ p.commit = "committing"
    BY <1>1 DEF Handler, SameRequest
  <2>3. (Step(r, q) \/ Step(r, p)) /\ req[r].pc = "commit"
    BY <1>5 DEF StartCommit, At
  <2> HIDE DEF q, p
  <2> QED BY <1>3, <1>4, <2>1, <2>2, <2>3
<1>6. CASE EndCommit(r)
  <2> DEFINE c == IF req[r].verdict = "complete" THEN "delivered" ELSE "error_committed"
             q == [req[r] EXCEPT !.pc = "release", !.commit = c]
             p == [req[r] EXCEPT !.pc = "release", !.commit = "delivery_uncertain"]
  <2>1. Step(r, q) \/ Step(r, p)
    BY <1>6 DEF EndCommit
  <2>2. c \in {"delivered", "error_committed"}
    OBVIOUS
  <2> HIDE DEF c
  <2>3. /\ q \in Handler /\ SameRequest(q, req[r]) /\ q.verdict = req[r].verdict
        /\ q.pc = "release" /\ q.commit # "committing"
    BY <1>1, <2>2 DEF Handler, SameRequest
  <2>4. /\ p \in Handler /\ SameRequest(p, req[r]) /\ p.verdict = req[r].verdict
        /\ p.pc = "release" /\ p.commit # "committing"
    BY <1>1 DEF Handler, SameRequest
  <2> HIDE DEF q, p
  <2> QED BY <1>4, <2>1, <2>3, <2>4
<1> QED BY <1>5, <1>6

\* The versions a handler has leased stay pinned, and in the registry.
LEMMA LeasedIsLive ==
    ASSUME GatewayInv, NEW r \in Requests, NEW v \in req[r].versions
    PROVE  v \in Versions /\ pins[v] > 0 /\ v \in Live
<1> DEFINE S == {s \in Requests : v \in req[s].versions}
<1>1. \A s \in Requests : HandlerOK(s, req[s]) /\ req[s] \in Handler
  BY HandlersAreOK DEF HandlerOK
<1>2. v \in Versions
  BY <1>1 DEF Handler
<1>3. S \subseteq Inside
  BY <1>1 DEF Inside, HandlerOK, Holds, Idle
<1>4. IsFiniteSet(S)
  BY <1>3, FS_Subset DEF GatewayInv
<1>5. r \in S
  OBVIOUS
<1>6. pins[v] = Cardinality(S)
  BY <1>2 DEF GatewayInv, VersionsAccountedFor, PinsMatchLeases
<1> HIDE DEF S
<1>7. Cardinality(S) \in Nat /\ Cardinality(S) # 0
  BY <1>4, <1>5, FS_CardinalityType, FS_EmptySet
<1>8. pins[v] > 0
  BY <1>6, <1>7
<1> QED BY <1>2, <1>8 DEF GatewayInv, RegistryInv, Inv, PinnedVersionsLive

\* preview_admission's plan: at most a primary and then a backup.
LEMMA PlannedShape ==
    ASSUME NEW vs \in SUBSET Versions, NEW p, p = Planned(vs)
    PROVE  /\ p \in Seq(Versions) /\ Len(p) <= 2 /\ \A i \in DOMAIN p : p[i] \in vs
           /\ Len(p) = 2 => IsPrimary(p[1]) /\ ~IsPrimary(p[2])
<1> DEFINE open == {v \in vs : Admits(v, FALSE)}
           one(S) == IF S = {} THEN << >> ELSE <<CHOOSE v \in S : TRUE>>
           A == {v \in open : IsPrimary(v)}
           B == {v \in open : ~IsPrimary(v)}
<1>1. p = one(A) \o one(B)
  BY DEF Planned
<1>2. one(A) = << >> \/ \E a \in vs : IsPrimary(a) /\ one(A) = <<a>>
  <2>1. A # {} => (CHOOSE v \in A : TRUE) \in A
    OBVIOUS
  <2> QED BY <2>1
<1>3. one(B) = << >> \/ \E b \in vs : ~IsPrimary(b) /\ one(B) = <<b>>
  <2>1. B # {} => (CHOOSE v \in B : TRUE) \in B
    OBVIOUS
  <2> QED BY <2>1
<1> HIDE DEF one, A, B
<1>4. p = << >> \/ (\E a \in vs : p = <<a>>)
        \/ \E a, b \in vs : /\ IsPrimary(a) /\ ~IsPrimary(b) /\ p \in Seq(vs)
                            /\ Len(p) = 2 /\ p[1] = a /\ p[2] = b
  <2>1. CASE one(A) = << >> /\ one(B) = << >>
    BY <1>1, <2>1
  <2>2. ASSUME NEW a \in vs, one(A) = <<a>>, one(B) = << >> PROVE p = <<a>>
    BY <1>1, <2>2
  <2>3. ASSUME NEW b \in vs, one(A) = << >>, one(B) = <<b>> PROVE p = <<b>>
    BY <1>1, <2>3
  <2>4. ASSUME NEW a \in vs, NEW b \in vs, one(A) = <<a>>, one(B) = <<b>>
        PROVE  p \in Seq(vs) /\ Len(p) = 2 /\ p[1] = a /\ p[2] = b
    <3>1. <<a>> \in Seq(vs) /\ <<b>> \in Seq(vs) /\ Len(<<a>>) = 1 /\ Len(<<b>>) = 1
      OBVIOUS
    <3>2. p = <<a>> \o <<b>>
      BY <1>1, <2>4
    <3> QED BY <3>1, <3>2
  <2> QED BY <1>2, <1>3, <2>1, <2>2, <2>3, <2>4
<1>5. CASE p = << >>
  BY <1>5
<1>6. ASSUME NEW a \in vs, p = <<a>>
      PROVE  p \in Seq(Versions) /\ Len(p) = 1 /\ \A i \in DOMAIN p : p[i] \in vs
  BY <1>6
<1>7. ASSUME NEW a \in vs, NEW b \in vs, IsPrimary(a), ~IsPrimary(b),
             p \in Seq(vs), Len(p) = 2, p[1] = a, p[2] = b
      PROVE  /\ p \in Seq(Versions) /\ Len(p) = 2 /\ (\A i \in DOMAIN p : p[i] \in vs)
             /\ IsPrimary(p[1]) /\ ~IsPrimary(p[2])
  BY <1>7
<1> QED BY <1>4, <1>5, <1>6, <1>7

LEMMA PlanRoutesKeeps ==
    ASSUME GatewayInv, NEW r \in Requests, PlanRoutes(r) PROVE GatewayInv'
<1> DEFINE p == Planned(req[r].versions)
           q == [req[r] EXCEPT !.pc = "routing", !.plan = p]
<1>1. Step(r, q) /\ UNCHANGED vars /\ req[r].pc = "planning"
  BY DEF PlanRoutes, At
<1>2. HandlerOK(r, req[r]) /\ req[r] \in Handler /\ req[r].versions \in SUBSET Versions
  BY HandlersAreOK DEF HandlerOK, Handler
<1>3. /\ p \in Seq(Versions) /\ Len(p) <= 2 /\ \A i \in DOMAIN p : p[i] \in req[r].versions
      /\ Len(p) = 2 => IsPrimary(p[1]) /\ ~IsPrimary(p[2])
  BY <1>2, PlannedShape
<1> HIDE DEF p
<1>4. /\ q \in Handler /\ SameRequest(q, req[r]) /\ q.pc = "routing" /\ q.plan = p
      /\ q.verdict = req[r].verdict /\ q.commit = req[r].commit
  BY <1>2, <1>3 DEF Handler, SameRequest
<1>5. /\ req[r].tried = << >> /\ req[r].ran = {} /\ req[r].tickets = {}
  BY <1>1, <1>2 DEF HandlerOK, Routes, Holds
<1> HIDE DEF q
<1>6. Holds(r, q)
  BY <1>4, <1>5 DEF Holds, SameRequest
<1>7. Routes(q)
  BY <1>3, <1>4, <1>5 DEF Routes, SameRequest, OnlyPrimary
<1>8. Ran(q) /\ NoReplay(q) /\ Charged(q)
  BY <1>4, <1>5 DEF Ran, SameRequest, NoReplay, Charged
<1>9. Answers(q)
  BY <1>1, <1>2, <1>4 DEF HandlerOK, Answers, SameRequest
<1>10. HandlerOK(r, q)
  BY <1>4, <1>6, <1>7, <1>8, <1>9 DEF HandlerOK
<1> QED BY <1>1, <1>4, <1>10, HandlerMovesAlone DEF SameRequest

\* The next route of the plan.
LEMMA NextRoute ==
    ASSUME NEW r, NEW q0, HandlerOK(r, q0), q0.pc \in {"routing", "report"},
           q0.plan # << >>,
           q0.pc = "report" => /\ IsPrimary(Head(q0.plan)) /\ RetryOnBackup(q0.ending)
                               /\ ~(q0.risk /\ SideEffects(q0.ending)),
           NEW q, q = [q0 EXCEPT !.pc = "routing", !.plan = Tail(@)]
    PROVE  HandlerOK(r, q) /\ q.pc = "routing" /\ SameRequest(q, q0)
<1>1. q0 \in Handler /\ q0.plan \in Seq(Versions)
  BY DEF HandlerOK, Handler
<1> DEFINE p == Tail(q0.plan)
<1>2. p \in Seq(Versions)
  BY <1>1
<1>3. /\ q \in Handler /\ SameRequest(q, q0) /\ q.pc = "routing" /\ q.plan = p
      /\ q.verdict = q0.verdict /\ q.commit = q0.commit /\ q.charge = q0.charge
  BY <1>1, <1>2 DEF Handler, SameRequest
<1>4. /\ Len(q0.plan) <= 2 /\ \A i \in DOMAIN q0.plan : q0.plan[i] \in q0.versions
      /\ Len(q0.plan) = 2 => IsPrimary(q0.plan[1]) /\ ~IsPrimary(q0.plan[2])
      /\ OnPrimary(q0) => OnlyPrimary(q0)
      /\ q0.pc = "routing" => OnlyPrimary(q0)
  BY DEF HandlerOK, Routes
<1>5. /\ Len(p) = Len(q0.plan) - 1 /\ DOMAIN p = 1..Len(p)
      /\ \A i \in 1..Len(p) : p[i] = q0.plan[i + 1]
      /\ p # << >> => Len(p) >= 1 /\ Head(p) = p[1]
      /\ DOMAIN q0.plan = 1..Len(q0.plan) /\ Len(q0.plan) \in Nat
  BY <1>1
<1>6. /\ Len(p) <= 1 /\ \A i \in DOMAIN p : p[i] \in q0.versions
      /\ p # << >> => ~IsPrimary(Head(p))
  <2> HIDE DEF p
  <2> DEFINE n == Len(q0.plan)
             l == Len(p)
  <2>1. n \in Nat /\ n <= 2 /\ l = n - 1
    BY <1>4, <1>5
  <2>2. l <= 1 /\ l \in Int
    BY <2>1
  <2>3. ASSUME NEW i \in DOMAIN p PROVE p[i] \in q0.versions
    <3>1. i \in 1..l /\ p[i] = q0.plan[i + 1]
      BY <1>5
    <3>2. i + 1 \in 1..n
      BY <2>1, <3>1
    <3> QED BY <1>4, <1>5, <3>1, <3>2
  <2>4. ASSUME p # << >> PROVE ~IsPrimary(Head(p))
    <3>1. l >= 1 /\ Head(p) = p[1]
      BY <1>5, <2>4
    <3> HIDE DEF n, l
    <3>2. n = 2 /\ 1 \in 1..l
      BY <2>1, <3>1
    <3>3. p[1] = q0.plan[1 + 1]
      <4>1. \A i \in 1..l : p[i] = q0.plan[i + 1]
        BY <1>5 DEF l
      <4> QED BY <3>2, <4>1, Zenon
    <3>4. 1 + 1 = 2
      OBVIOUS
    <3>5. q0.plan[2] = p[1]
      BY <3>3, <3>4
    <3> QED BY <1>4, <3>1, <3>2, <3>5 DEF n
  <2> QED BY <2>2, <2>3, <2>4
<1>7. OnlyPrimary(q0)
  BY <1>4 DEF OnPrimary
<1> HIDE DEF p
<1>8. ~OnPrimary(q) /\ OnlyPrimary(q)
  BY <1>3, <1>6, <1>7 DEF OnPrimary, OnlyPrimary, SameRequest
<1>9. Routes(q)
  <2>1. Len(p) \in Nat
    BY <1>2
  <2>2. Len(q.plan) <= 2 /\ ~(Len(q.plan) = 2)
    <3>1. Len(q.plan) = Len(p)
      BY <1>3
    <3>2. Len(p) <= 2 /\ ~(Len(p) = 2)
      BY <1>6, <2>1
    <3> QED BY <3>1, <3>2
  <2>3. \A i \in DOMAIN q.plan : q.plan[i] \in q.versions
    BY <1>3, <1>6 DEF SameRequest
  <2> QED BY <1>3, <1>8, <2>2, <2>3 DEF Routes
<1>10. Holds(r, q)
  BY <1>3 DEF HandlerOK, Holds, SameRequest
<1>11. Ran(q)
  <2>1. CASE q0.pc = "routing"
    BY <1>3, <1>8, <2>1 DEF HandlerOK, Ran, SameRequest
  <2>2. CASE q0.pc = "report"
    <3>1. \A x \in q0.ran : /\ IsPrimary(x.version) /\ x.end = q0.ending.end
                            /\ MayHaveRun(q0.ending)
                            /\ q0.charge = ChargeUncertain(q0.ending)
      BY <2>2 DEF HandlerOK, Ran, OnPrimary
    <3>2. MayHaveRun(q0.ending) => SideEffects(q0.ending)
      BY <2>2 DEF MayHaveRun, RetryOnBackup, SideEffects
    <3>3. MayHaveRun(q0.ending) /\ q0.ending.end # "server_error"
             => ChargeUncertain(q0.ending)
      BY <2>2 DEF MayHaveRun, RetryOnBackup, ChargeUncertain
    <3>4. q.risk => q.ran = {}
      BY <1>3, <2>2, <3>1, <3>2 DEF SameRequest
    <3>5. \A x \in q.ran : /\ IsPrimary(x.version)
                           /\ x.end # "server_error" => q.charge
      BY <1>3, <3>1, <3>3 DEF SameRequest
    <3> QED BY <1>3, <1>8, <3>4, <3>5 DEF Ran
  <2> QED BY <2>1, <2>2
<1>12. Answers(q) /\ NoReplay(q) /\ Charged(q)
  BY <1>3 DEF HandlerOK, Answers, NoReplay, Charged, SameRequest
<1> QED BY <1>3, <1>9, <1>10, <1>11, <1>12 DEF HandlerOK

\* The route it tries is one the handler leased.
LEMMA HeadOfPlan ==
    ASSUME NEW r, NEW q, HandlerOK(r, q), q.pc \in {"routing", "running", "report"},
           q.plan # << >>
    PROVE  Head(q.plan) \in q.versions
<1>1. q.plan \in Seq(Versions) /\ \A i \in DOMAIN q.plan : q.plan[i] \in q.versions
  BY DEF HandlerOK, Handler, Routes
<1>2. Head(q.plan) = q.plan[1] /\ 1 \in DOMAIN q.plan
  BY <1>1
<1> QED BY <1>1, <1>2

LEMMA SkipRouteKeeps ==
    ASSUME GatewayInv, NEW r \in Requests, SkipRoute(r) PROVE GatewayInv'
<1> DEFINE v == Head(req[r].plan)
           q == [req[r] EXCEPT !.plan = Tail(@)]
<1>1. req[r].pc = "routing" /\ req[r].plan # << >>
  BY DEF SkipRoute, At
<1>2. HandlerOK(r, req[r]) /\ req[r] \in Handler
      /\ \A t \in req[r].tickets : t.lease <= leaseSeq
  BY HandlersAreOK DEF HandlerOK
<1>3. q = [req[r] EXCEPT !.pc = "routing", !.plan = Tail(@)]
  BY <1>1, <1>2 DEF Handler
<1>4. HandlerOK(r, q) /\ q.pc = "routing" /\ SameRequest(q, req[r])
  BY <1>1, <1>2, <1>3, NextRoute
<1>5. v \in Live
  <2>1. v \in req[r].versions
    BY <1>1, <1>2, HeadOfPlan
  <2> QED BY <2>1, LeasedIsLive
<1>6. CASE Step(r, q) /\ UNCHANGED vars
  <2> HIDE DEF q
  <2> QED BY <1>1, <1>4, <1>6, HandlerMovesAlone DEF SameRequest
<1>7. CASE /\ AcquireBusy(v, FALSE)
           /\ Step(r, q) \/ Verdict(r, "error")
  <2>1. /\ UNCHANGED <<pins, leaseSeq>> /\ active' \subseteq active
    BY <1>5, <1>7, AcquireBusyEffect DEF GatewayInv, RegistryInv
  <2>2. RegistryInv'
    BY <1>5, <1>7, OperationKeeps DEF Operation, GatewayInv
  <2>3. NoForgottenVersions'
    BY <1>5, <1>7, AcquireBusyForgetsNothing
       DEF GatewayInv, RegistryInv, VersionsAccountedFor
  <2>4. leaseSeq \in Nat
    BY DEF GatewayInv, RegistryInv, Inv, TypeOK
  <2> DEFINE e == Ended(req[r], "error")
  <2>5. HandlerOK(r, e) /\ e.pc # "idle" /\ e.versions = req[r].versions
        /\ e.tickets = req[r].tickets
    BY <1>1, VerdictKeeps
  <2>6. Step(r, q) \/ Step(r, e)
    BY <1>7 DEF Verdict
  <2> HIDE DEF q, e
  <2>7. CASE Step(r, q)
    <3>1. q.versions = req[r].versions /\ q.tickets = req[r].tickets
      BY <1>4 DEF SameRequest
    <3> QED BY <1>1, <1>2, <1>4, <2>1, <2>2, <2>3, <2>4, <2>7, <3>1, HandlerMoves
  <2>8. CASE Step(r, e)
    BY <1>1, <1>2, <2>1, <2>2, <2>3, <2>4, <2>5, <2>8, HandlerMoves
  <2> QED BY <2>6, <2>7, <2>8
<1> QED BY <1>6, <1>7 DEF SkipRoute

LEMMA AppendFacts ==
    ASSUME NEW S, NEW s \in Seq(S), NEW x \in S
    PROVE  /\ Append(s, x) \in Seq(S) /\ Append(s, x) # << >>
           /\ DOMAIN Append(s, x) = 1..(Len(s) + 1)
           /\ DOMAIN s = 1..Len(s) /\ Len(s) \in Nat
           /\ \A i \in 1..Len(s) : Append(s, x)[i] = s[i]
           /\ Append(s, x)[Len(s) + 1] = x
OBVIOUS

\* acquire handed out the ticket of the next attempt.
LEMMA TriedIsOK ==
    ASSUME NEW r, NEW q0, HandlerOK(r, q0), q0.pc = "routing", q0.plan # << >>,
           NEW n \in Nat, \A u \in q0.tickets : u.lease <= n,
           NEW t \in Ticket, t.version = Head(q0.plan), t.attempt = r,
           t.signal = "business", t.lease = n + 1,
           NEW q \in Handler, q.pc \in {"running", "report"},
           q.pc = "report" => q.ending # NotEnded,
           q.tickets = q0.tickets \cup {t}, q.tried = Append(q0.tried, Head(q0.plan)),
           q.risk = q0.risk, q.versions = q0.versions, q.plan = q0.plan,
           q.ran = q0.ran, q.charge = q0.charge, q.double = q0.double,
           q.verdict = q0.verdict, q.commit = q0.commit
    PROVE  HandlerOK(r, q)
<1> DEFINE v == Head(q0.plan)
           a == Append(q0.tried, v)
<1>1. q0 \in Handler /\ q0.tried \in Seq(Versions) /\ q0.tickets \in SUBSET Ticket
  BY DEF HandlerOK, Handler
<1>2. v \in Versions /\ v \in q0.versions
  <2>1. v \in q0.versions
    BY HeadOfPlan
  <2> QED BY <1>1, <2>1 DEF Handler
<1>3. /\ a \in Seq(Versions) /\ a # << >> /\ DOMAIN a = 1..(Len(q0.tried) + 1)
      /\ DOMAIN q0.tried = 1..Len(q0.tried) /\ Len(q0.tried) \in Nat
      /\ \A i \in 1..Len(q0.tried) : a[i] = q0.tried[i]
      /\ a[Len(q0.tried) + 1] = v
  BY <1>1, <1>2, AppendFacts
<1>5. q.tried = a
  OBVIOUS
<1> HIDE DEF a
<1>6. Holds(r, q)
  <2>1. \A u \in q.tickets : u.lease <= t.lease
    <3>1. \A u \in q0.tickets : u.lease \in Nat
      BY <1>1 DEF Ticket
    <3> QED BY <1>5, <3>1
  <2>2. \A u \in q.tickets : /\ u.version \in q.versions /\ u.attempt = r
                             /\ u.signal = "business"
    BY <1>2, <1>5 DEF HandlerOK, Holds
  <2> QED BY <2>1, <2>2 DEF Holds
<1>7. OnPrimary(q) => OnlyPrimary(q)
  <2>1. OnlyPrimary(q0)
    BY DEF HandlerOK, Routes
  <2>2. ASSUME IsPrimary(v), NEW i \in DOMAIN a PROVE IsPrimary(a[i])
    <3>1. i \in 1..Len(q0.tried) \/ i = Len(q0.tried) + 1
      BY <1>3
    <3> QED BY <1>3, <2>1, <2>2, <3>1 DEF OnlyPrimary
  <2> QED BY <1>5, <2>2 DEF OnPrimary, OnlyPrimary
<1>8. Routes(q)
  BY <1>3, <1>5, <1>7 DEF HandlerOK, Routes
<1>9. /\ OnPrimary(q0) \/ q0.risk => q0.ran = {}
      /\ \A x \in q0.ran : IsPrimary(x.version)
      /\ \A x \in q0.ran : x.end # "server_error" => q0.charge
  BY DEF HandlerOK, Ran
<1>10. Ran(q)
  <2>1. OnPrimary(q) <=> OnPrimary(q0)
    BY <1>5 DEF OnPrimary
  <2> QED BY <1>9, <2>1 DEF Ran
<1>11. NoReplay(q) /\ Charged(q)
  BY <1>5, <1>9 DEF NoReplay, Charged
<1>12. Answers(q)
  BY <1>3, <1>5 DEF HandlerOK, Answers
<1> QED BY <1>6, <1>8, <1>10, <1>11, <1>12 DEF HandlerOK

LEMMA TryRouteKeeps ==
    ASSUME GatewayInv, NEW r \in Requests, TryRoute(r) PROVE GatewayInv'
<1> DEFINE v == Head(req[r].plan)
           t == NewTicket(v, r, FALSE, "business")
           q == [req[r] EXCEPT
                   !.pc = IF req[r].cancelled THEN "report" ELSE "running",
                   !.ending = IF req[r].cancelled THEN NotSent ELSE NotEnded,
                   !.tickets = @ \cup {t},
                   !.tried = Append(@, v)]
           e == Ended(req[r], "error")
<1>1. /\ req[r].pc = "routing" /\ req[r].plan # << >> /\ Acquire(v, r, FALSE, "business")
      /\ IF leaseSeq' = leaseSeq THEN Step(r, e) ELSE Step(r, q)
  BY DEF TryRoute, At, Verdict
<1>2. HandlerOK(r, req[r]) /\ req[r] \in Handler
      /\ \A u \in req[r].tickets : u.lease <= leaseSeq
  BY HandlersAreOK DEF HandlerOK
<1>3. v \in Live /\ r \in Attempts
  <2>1. v \in req[r].versions
    BY <1>1, <1>2, HeadOfPlan
  <2> QED BY <2>1, LeasedIsLive, RequestAssumption
<1>4. RegistryInv'
  <2>1. Operation
    BY <1>1, <1>3 DEF Operation, Signals
  <2> QED BY <2>1, OperationKeeps DEF GatewayInv
<1>5. NoForgottenVersions'
  BY <1>1, <1>3, AcquireForgetsNothing DEF GatewayInv, RegistryInv, VersionsAccountedFor
<1>6. /\ UNCHANGED pins
      /\ \/ leaseSeq' = leaseSeq /\ UNCHANGED active
         \/ /\ leaseSeq' = leaseSeq + 1 /\ leaseSeq' # leaseSeq
            /\ t \in active' /\ active' \subseteq active \cup {t}
  BY <1>1, <1>3, AcquireEffect DEF GatewayInv, RegistryInv
<1>7. leaseSeq \in Nat
  BY DEF GatewayInv, RegistryInv, Inv, TypeOK
<1>8. CASE leaseSeq' = leaseSeq
  <2>1. HandlerOK(r, e) /\ e.pc # "idle" /\ e.versions = req[r].versions
        /\ e.tickets = req[r].tickets
    BY <1>1, VerdictKeeps
  <2>2. Step(r, e) /\ UNCHANGED <<pins, active, leaseSeq>>
    BY <1>1, <1>6, <1>8
  <2> HIDE DEF e
  <2> QED BY <1>1, <1>2, <1>4, <1>5, <1>7, <2>1, <2>2, HandlerMoves
<1>9. CASE leaseSeq' # leaseSeq
  <2>1. /\ t.version = v /\ t.attempt = r /\ t.signal = "business"
        /\ t.lease = leaseSeq + 1
    BY DEF NewTicket
  <2>2. /\ leaseSeq' = leaseSeq + 1 /\ t \in active' /\ active' \subseteq active \cup {t}
        /\ Step(r, q)
    BY <1>1, <1>6, <1>9
  <2>3. t \in Ticket
    BY <1>4, <2>2 DEF RegistryInv, Inv, TypeOK
  <2> HIDE DEF t
  <2> DEFINE end == IF req[r].cancelled THEN NotSent ELSE NotEnded
             pc == IF req[r].cancelled THEN "report" ELSE "running"
             a == Append(req[r].tried, v)
  <2>8. end \in Endings \cup {NotEnded} /\ pc \in {"running", "report"}
        /\ (pc = "report" => end # NotEnded)
    BY DEF Endings, NotSent, NotEnded, Outcomes
  <2>9. a \in Seq(Versions)
    <3>1. v \in Versions
      BY <1>3 DEF GatewayInv, RegistryInv, Inv, TypeOK
    <3> HIDE DEF v
    <3> QED BY <1>2, <3>1 DEF Handler
  <2> HIDE DEF end, pc, a
  <2>10. /\ q \in Handler /\ q.pc = pc /\ q.ending = end /\ q.tickets = req[r].tickets \cup {t}
         /\ q.tried = a /\ q.risk = req[r].risk /\ q.versions = req[r].versions
         /\ q.plan = req[r].plan /\ q.ran = req[r].ran /\ q.charge = req[r].charge
         /\ q.double = req[r].double /\ q.verdict = req[r].verdict
         /\ q.commit = req[r].commit
    BY <1>2, <2>3, <2>8, <2>9 DEF Handler, end, pc, a
  <2> HIDE DEF q
  <2>4. /\ HandlerOK(r, q) /\ q.pc # "idle" /\ q.versions = req[r].versions
        /\ q.tickets = req[r].tickets \cup {t}
    BY <1>1, <1>2, <1>7, <2>1, <2>3, <2>8, <2>10, TriedIsOK DEF a
  <2>5. \A u \in q.tickets : u.lease <= leaseSeq'
    <3>1. \A u \in req[r].tickets : u.lease \in Nat
      BY <1>2 DEF Handler, Ticket
    <3> QED BY <1>2, <1>7, <2>1, <2>2, <2>4, <3>1
  <2>6. leaseSeq' \in Nat /\ leaseSeq <= leaseSeq'
    BY <1>7, <2>2
  <2>7. \A u \in active' : \/ u \in active /\ (u \in req[r].tickets => u \in q.tickets)
                           \/ u.attempt = r /\ u \in q.tickets
    BY <2>1, <2>2, <2>4
  <2> QED BY <1>1, <1>4, <1>5, <1>6, <2>2, <2>4, <2>5, <2>6, <2>7, HandlerMoves
<1> QED BY <1>8, <1>9

LEMMA StopKeeps ==
    ASSUME GatewayInv, NEW r \in Requests,
           PlanFails(r) \/ TryRaises(r) \/ RoutesExhausted(r)
    PROVE  GatewayInv'
<1>1. CASE PlanFails(r)
  BY <1>1, VerdictAlone DEF PlanFails, At
<1>2. CASE TryRaises(r)
  BY <1>2, VerdictAlone DEF TryRaises, At
<1>3. CASE RoutesExhausted(r)
  BY <1>3, VerdictAlone DEF RoutesExhausted, At
<1> QED BY <1>1, <1>2, <1>3

\* The attempt ended: what the upstream may have done is known to the verdict.
LEMMA EndedIsOK ==
    ASSUME NEW r, NEW q0, HandlerOK(r, q0), q0.pc = "running",
           NEW e \in Endings, NEW v, v = Head(q0.plan),
           NEW q \in Handler, q.pc = "report", q.ending = e,
           q.ran = (IF MayHaveRun(e) THEN q0.ran \cup {[version |-> v, end |-> e.end]}
                    ELSE q0.ran),
           q.charge = (IF IsPrimary(v) THEN ChargeUncertain(e) ELSE q0.charge),
           q.double = (IF IsPrimary(v) THEN q0.double ELSE q0.charge /\ e.started),
           q.risk = q0.risk, q.versions = q0.versions, q.plan = q0.plan,
           q.tickets = q0.tickets, q.tried = q0.tried,
           q.verdict = q0.verdict, q.commit = q0.commit
    PROVE  HandlerOK(r, q)
<1> DEFINE n == [version |-> v, end |-> e.end]
<1>1. /\ OnPrimary(q0) \/ q0.risk => q0.ran = {}
      /\ \A x \in q0.ran : IsPrimary(x.version)
      /\ \A x \in q0.ran : x.end # "server_error" => q0.charge
  BY DEF HandlerOK, Ran
<1>2. /\ q0.plan # << >> /\ q0.tried # << >> /\ (OnPrimary(q0) => OnlyPrimary(q0))
      /\ OnPrimary(q0) <=> IsPrimary(v)
  BY DEF HandlerOK, Routes, OnPrimary
<1>3. /\ \A x \in q.ran : x \in q0.ran \/ (x = n /\ MayHaveRun(e))
      /\ n.version = v /\ n.end = e.end
  OBVIOUS
<1> HIDE DEF n
<1>4. (OnPrimary(q) <=> IsPrimary(v)) /\ (OnlyPrimary(q) <=> OnlyPrimary(q0))
  BY <1>2 DEF OnPrimary, OnlyPrimary
<1>5. Holds(r, q)
  BY DEF HandlerOK, Holds
<1>6. Routes(q)
  BY <1>2, <1>4 DEF HandlerOK, Routes
<1>7. Ran(q)
  <2>1. e # NotEnded
    <3>1. e.end \in Outcomes
      BY DEF Endings, Outcomes
    <3>2. NotEnded.end = "none"
      BY DEF NotEnded
    <3> QED BY <3>1, <3>2 DEF Outcomes
  <2>2. ASSUME OnPrimary(q), NEW x \in q.ran
        PROVE  /\ IsPrimary(x.version) /\ x.end = q.ending.end /\ MayHaveRun(q.ending)
               /\ q.charge = ChargeUncertain(q.ending)
    BY <1>1, <1>2, <1>3, <1>4, <2>2
  <2> QED BY <2>1, <2>2 DEF Ran
<1>8. Answers(q)
  BY DEF HandlerOK, Answers
<1>9. NoReplay(q)
  <2> SUFFICES ASSUME q.risk, NEW x \in q.ran, IsPrimary(x.version),
                      NEW i \in DOMAIN q.tried, ~IsPrimary(q.tried[i])
               PROVE  FALSE
    BY DEF NoReplay
  <2>1. x.version = v
    BY <1>1, <1>3
  <2> QED BY <1>2, <2>1 DEF OnlyPrimary
<1>10. Charged(q)
  <2> SUFFICES ASSUME NEW x \in q.ran, NEW y \in q.ran, IsPrimary(x.version),
                      ~IsPrimary(y.version), x.end # "server_error"
               PROVE  q.double
    BY DEF Charged
  <2>1. y = n /\ MayHaveRun(e) /\ ~IsPrimary(v)
    BY <1>1, <1>3
  <2>2. x \in q0.ran /\ e.started
    BY <1>3, <2>1 DEF MayHaveRun
  <2> QED BY <1>1, <2>1, <2>2
<1> QED BY <1>5, <1>6, <1>7, <1>8, <1>9, <1>10 DEF HandlerOK

LEMMA AttemptEndsKeeps ==
    ASSUME GatewayInv, NEW r \in Requests, NEW e \in Endings, AttemptEnds(r, e)
    PROVE  GatewayInv'
<1> DEFINE v == Head(req[r].plan)
           ran == IF MayHaveRun(e)
                  THEN req[r].ran \cup {[version |-> v, end |-> e.end]} ELSE req[r].ran
           charge == IF IsPrimary(v) THEN ChargeUncertain(e) ELSE req[r].charge
           double == IF IsPrimary(v) THEN req[r].double ELSE req[r].charge /\ e.started
           q == [req[r] EXCEPT !.pc = "report", !.ending = e, !.ran = ran,
                               !.charge = charge, !.double = double]
<1>1. /\ req[r].pc = "running" /\ UNCHANGED vars
      /\ Step(r, [req[r] EXCEPT
                !.pc = "report", !.ending = e,
                !.ran = IF MayHaveRun(e)
                        THEN @ \cup {[version |-> v, end |-> e.end]} ELSE @,
                !.charge = IF IsPrimary(v) THEN ChargeUncertain(e) ELSE @,
                !.double = IF IsPrimary(v) THEN @ ELSE req[r].charge /\ e.started])
  BY DEF AttemptEnds, At
<1>2. HandlerOK(r, req[r]) /\ req[r] \in Handler
  BY HandlersAreOK DEF HandlerOK
<1>3. Step(r, q)
  BY <1>1, Zenon
<1>4. v \in Versions
  <2>1. req[r].plan # << >>
    BY <1>1, <1>2 DEF HandlerOK, Routes
  <2>2. v \in req[r].versions
    BY <1>1, <1>2, <2>1, HeadOfPlan
  <2> QED BY <1>2, <2>2 DEF Handler
<1>5. e.end \in Outcomes /\ e.started \in BOOLEAN
  BY DEF Endings, Outcomes
<1>6. ran \in SUBSET [version : Versions, end : Outcomes]
  <2>1. req[r].ran \in SUBSET [version : Versions, end : Outcomes]
    BY <1>2 DEF Handler
  <2> HIDE DEF v
  <2> QED BY <1>4, <1>5, <2>1
<1>7. charge \in BOOLEAN /\ double \in BOOLEAN
  <2>1. req[r].charge \in BOOLEAN /\ req[r].double \in BOOLEAN
    BY <1>2 DEF Handler
  <2>2. ChargeUncertain(e) \in BOOLEAN
    BY <1>5 DEF ChargeUncertain
  <2> HIDE DEF v
  <2> QED BY <1>5, <2>1, <2>2
<1> HIDE DEF ran, charge, double
<1>8. /\ q \in Handler /\ q.pc = "report" /\ q.ending = e /\ q.ran = ran
      /\ q.charge = charge /\ q.double = double /\ q.risk = req[r].risk
      /\ q.versions = req[r].versions /\ q.plan = req[r].plan
      /\ q.tickets = req[r].tickets /\ q.tried = req[r].tried
      /\ q.verdict = req[r].verdict /\ q.commit = req[r].commit
  BY <1>2, <1>6, <1>7 DEF Handler
<1> HIDE DEF q
<1>9. HandlerOK(r, q)
  BY <1>1, <1>2, <1>8, EndedIsOK DEF ran, charge, double
<1> QED BY <1>1, <1>3, <1>8, <1>9, HandlerMovesAlone

\* What execute does after the report, whether or not the registry took it.
LEMMA AfterReportMoves ==
    ASSUME GatewayInv, NEW r \in Requests, req[r].pc = "report", AfterReport(r)
    PROVE  \E q : /\ Step(r, q) /\ HandlerOK(r, q) /\ q.pc # "idle"
                  /\ q.versions = req[r].versions /\ q.tickets = req[r].tickets
<1> DEFINE v == Head(req[r].plan)
           e == req[r].ending
           q == [req[r] EXCEPT !.pc = "routing", !.plan = Tail(@)]
           Stop(w) == Ended(req[r], w)
<1>1. HandlerOK(r, req[r])
  BY HandlersAreOK
<1>2. req[r].plan # << >>
  BY <1>1 DEF HandlerOK, Routes
<1>3. \/ \E w \in {"failed", "blocked", "cancelled", "complete"} : Verdict(r, w)
      \/ /\ IsPrimary(v) /\ RetryOnBackup(e) /\ ~(req[r].risk /\ SideEffects(e))
         /\ Step(r, q)
  BY DEF AfterReport
<1>4. ASSUME NEW w \in {"failed", "blocked", "cancelled", "complete"}, Verdict(r, w)
      PROVE  /\ Step(r, Stop(w)) /\ HandlerOK(r, Stop(w)) /\ Stop(w).pc # "idle"
             /\ Stop(w).versions = req[r].versions /\ Stop(w).tickets = req[r].tickets
  <2>1. Step(r, Stop(w))
    BY <1>4 DEF Verdict
  <2> QED BY <2>1, VerdictKeeps
<1>5. CASE /\ IsPrimary(v) /\ RetryOnBackup(e) /\ ~(req[r].risk /\ SideEffects(e))
           /\ Step(r, q)
  <2>1. HandlerOK(r, q) /\ q.pc = "routing" /\ SameRequest(q, req[r])
    BY <1>1, <1>2, <1>5, NextRoute
  <2> HIDE DEF q
  <2> QED BY <1>5, <2>1 DEF SameRequest
<1> QED BY <1>3, <1>4, <1>5

\* The ticket of the attempt the handler makes.
LEMMA CurrentTicketIsHeld ==
    ASSUME GatewayInv, NEW r \in Requests, req[r].pc = "report"
    PROVE  /\ CurrentTicket(r) \in req[r].tickets
           /\ CurrentTicket(r).version \in req[r].versions
           /\ CurrentTicket(r).signal = "business"
<1>1. HandlerOK(r, req[r])
  BY HandlersAreOK
<1>2. \E t \in req[r].tickets : \A u \in req[r].tickets : u.lease <= t.lease
  BY <1>1 DEF HandlerOK, Holds
<1>3. CurrentTicket(r) \in req[r].tickets
  BY <1>2 DEF CurrentTicket
<1> QED BY <1>1, <1>3 DEF HandlerOK, Holds

LEMMA ReportedSettles ==
    ASSUME NEW r, NEW t, Reported(r, t) PROVE Settles(t) /\ t \in active
<1> DEFINE e == req[r].ending
<1>1. CASE RecordSuccess(t)
  BY <1>1 DEF Settles, RecordSuccess, Observe, Matching
<1>2. CASE RecordCancelled(t)
  BY <1>2 DEF Settles, RecordCancelled, Observe, Abandon, Matching
<1>3. CASE e.end \in DOMAIN BreakerKind /\ RecordFailure(t, BreakerKind[e.end])
  <2>1. BreakerKind[e.end] \in FailureKinds
    BY <1>3 DEF BreakerKind, FailureKinds
  <2> QED BY <1>3, <2>1 DEF Settles, RecordFailure, Observe, Matching
<1> QED BY <1>1, <1>2, <1>3 DEF Reported

\* The handler and the registry move together: a ticket is settled.
LEMMA SettledMoves ==
    ASSUME GatewayInv, NEW r \in Requests, req[r].pc # "idle",
           NEW t \in active, t \in req[r].tickets, Settles(t),
           NEW q, Step(r, q), HandlerOK(r, q), q.pc # "idle",
           q.versions = req[r].versions, q.tickets \subseteq req[r].tickets,
           \A u \in req[r].tickets : u \in q.tickets \/ u \notin active'
    PROVE  GatewayInv'
<1>1. pins[t.version] > 0
  <2>1. t.version \in req[r].versions
    BY HandlersAreOK DEF HandlerOK, Holds
  <2> QED BY <2>1, LeasedIsLive
<1>2. RegistryInv'
  <2>1. Operation
    BY DEF Operation
  <2> QED BY <2>1, OperationKeeps DEF GatewayInv
<1>3. NoForgottenVersions'
  BY <1>1, PinnedForgetsNothing DEF GatewayInv, RegistryInv, VersionsAccountedFor
<1>4. UNCHANGED <<pins, leaseSeq>> /\ active' \subseteq active
  BY SettlesEffect, AppliedTickets
<1>5. leaseSeq \in Nat
  BY DEF GatewayInv, RegistryInv, Inv, TypeOK
<1>6. \A u \in q.tickets : u.lease <= leaseSeq'
  BY <1>4, HandlersAreOK
<1>7. \A u \in active' : u \in active /\ (u \in req[r].tickets => u \in q.tickets)
  BY <1>4
<1> QED BY <1>2, <1>3, <1>4, <1>5, <1>6, <1>7, HandlerMoves

LEMMA ReportKeeps ==
    ASSUME GatewayInv, NEW r \in Requests, Report(r) PROVE GatewayInv'
<1> DEFINE t == CurrentTicket(r)
           e == Ended(req[r], "error")
<1>1. /\ req[r].pc = "report"
      /\ \/ Reported(r, t) /\ (Verdict(r, "error") \/ AfterReport(r))
         \/ AfterReport(r) /\ UNCHANGED vars
         \/ Verdict(r, "error") /\ UNCHANGED vars
  BY DEF Report, At
<1>2. t \in req[r].tickets
  BY <1>1, CurrentTicketIsHeld
<1> HIDE DEF t
<1>3. ASSUME Verdict(r, "error") \/ AfterReport(r)
      PROVE  \E q : /\ Step(r, q) /\ HandlerOK(r, q) /\ q.pc # "idle"
                    /\ q.versions = req[r].versions /\ q.tickets = req[r].tickets
  <2>1. CASE Verdict(r, "error")
    <3>1. Step(r, e)
      BY <2>1 DEF Verdict
    <3>2. HandlerOK(r, e) /\ e.pc # "idle" /\ e.versions = req[r].versions
          /\ e.tickets = req[r].tickets
      BY <1>1, VerdictKeeps
    <3> HIDE DEF e
    <3> QED BY <3>1, <3>2
  <2>2. CASE AfterReport(r)
    BY <1>1, <2>2, AfterReportMoves
  <2> QED BY <1>3, <2>1, <2>2
<1>4. PICK q : /\ Step(r, q) /\ HandlerOK(r, q) /\ q.pc # "idle"
               /\ q.versions = req[r].versions /\ q.tickets = req[r].tickets
  BY <1>1, <1>3
<1>5. CASE UNCHANGED vars
  BY <1>1, <1>4, <1>5, HandlerMovesAlone
<1>6. CASE Reported(r, t)
  <2>1. Settles(t) /\ t \in active
    BY <1>6, ReportedSettles
  <2> QED BY <1>1, <1>2, <1>4, <2>1, SettledMoves
<1> QED BY <1>1, <1>5, <1>6

LEMMA CleanupKeeps ==
    ASSUME GatewayInv, NEW r \in Requests, Cleanup(r) PROVE GatewayInv'
<1>1. req[r].pc = "cleanup"
  BY DEF Cleanup, At
<1>2. HandlerOK(r, req[r]) /\ req[r] \in Handler
  BY HandlersAreOK DEF HandlerOK
<1>3. ASSUME NEW t \in req[r].tickets, Matching(t), Abandon(t),
             Step(r, [req[r] EXCEPT !.tickets = @ \ {t}])
      PROVE  GatewayInv'
  <2> DEFINE T == req[r].tickets \ {t}
             q == [req[r] EXCEPT !.tickets = T]
  <2>1. Step(r, q)
    BY <1>3
  <2>2. T \in SUBSET Ticket /\ T \subseteq req[r].tickets
    BY <1>2 DEF Handler
  <2>3. t \in active /\ Settles(t) /\ active' = active \ {t}
    BY <1>3, AbandonEffect DEF Matching, Settles
  <2>4. \A u \in req[r].tickets : u \in T \/ u \notin active'
    BY <2>3
  <2> HIDE DEF T
  <2>5. /\ q \in Handler /\ q.pc = "cleanup" /\ q.tickets = T
        /\ q.risk = req[r].risk /\ q.versions = req[r].versions
        /\ q.tried = req[r].tried /\ q.ran = req[r].ran /\ q.double = req[r].double
        /\ q.verdict = req[r].verdict /\ q.commit = req[r].commit
    BY <1>1, <1>2, <2>2 DEF Handler
  <2> HIDE DEF q
  <2>6. Holds(r, q)
    BY <1>2, <2>2, <2>5 DEF HandlerOK, Holds
  <2>7. Routes(q) /\ Ran(q) /\ Answers(q)
    BY <1>1, <1>2, <2>5 DEF HandlerOK, Routes, Ran, Answers
  <2>8. NoReplay(q) /\ Charged(q)
    BY <1>2, <2>5 DEF HandlerOK, NoReplay, Charged
  <2>9. HandlerOK(r, q)
    BY <2>5, <2>6, <2>7, <2>8 DEF HandlerOK
  <2> QED BY <1>1, <2>1, <2>2, <2>3, <2>4, <2>5, <2>9, SettledMoves
<1>4. CASE /\ \A t \in req[r].tickets : ~Matching(t)
           /\ Step(r, Cleaned(r)) /\ UNCHANGED vars
  <2> DEFINE pc == IF req[r].verdict = "cancelled" THEN "release" ELSE "commit"
             q == [req[r] EXCEPT !.tickets = {}, !.plan = << >>, !.ending = NotEnded,
                                 !.pc = pc]
  <2>1. Step(r, q)
    BY <1>4 DEF Cleaned
  <2>2. pc \in {"release", "commit"} /\ << >> \in Seq(Versions)
    OBVIOUS
  <2> HIDE DEF pc
  <2>3. /\ q \in Handler /\ q.pc = pc /\ q.tickets = {}
        /\ q.risk = req[r].risk /\ q.versions = req[r].versions
        /\ q.tried = req[r].tried /\ q.ran = req[r].ran /\ q.double = req[r].double
        /\ q.verdict = req[r].verdict /\ q.commit = req[r].commit
    BY <1>1, <1>2, <2>2 DEF Handler
  <2> HIDE DEF q
  <2>4. q.pc \in {"release", "commit"}
    BY <2>2, <2>3
  <2>5. Holds(r, q)
    BY <2>3, <2>4 DEF Holds
  <2>6. Routes(q) /\ Ran(q)
    BY <2>4 DEF Routes, Ran
  <2>7. Answers(q)
    BY <1>1, <1>2, <2>3, <2>4 DEF HandlerOK, Answers
  <2>8. NoReplay(q) /\ Charged(q)
    BY <1>2, <2>3 DEF HandlerOK, NoReplay, Charged
  <2>9. HandlerOK(r, q)
    BY <2>3, <2>5, <2>6, <2>7, <2>8 DEF HandlerOK
  <2>10. \A t \in req[r].tickets : t \notin active
    BY <1>4 DEF GatewayInv, RegistryInv, Inv, TicketInv
  <2> QED BY <1>1, <1>4, <2>1, <2>3, <2>4, <2>9, <2>10, HandlerMovesAlone
<1> QED BY <1>3, <1>4 DEF Cleanup

-----------------------------------------------------------------------------
(* A handler comes, leases its router, releases it and goes *)

\* A handler without tickets changes what else it holds.
LEMMA HandlerChanges ==
    ASSUME GatewayInv, NEW r \in Requests, NEW q, HandlerOK(r, q), q.tickets = {},
           req[r].tickets = {}, req' = [req EXCEPT ![r] = q],
           UNCHANGED <<leaseSeq, active, probe>>,
           inflight' \in Nat, accepting' \in BOOLEAN, drained' \in BOOLEAN,
           RegistryInv', NoForgottenVersions', PinsMatchLeases',
           IsFiniteSet(Inside'), DrainIsExact'
    PROVE  GatewayInv'
<1>1. req \in [Requests -> Handler] /\ q \in Handler
  BY DEF GatewayInv, GateTypeOK, HandlerOK
<1>2. /\ req' \in [Requests -> Handler] /\ req'[r] = q
      /\ \A s \in Requests : s # r => req'[s] = req[s]
  BY <1>1
<1>3. GateTypeOK'
  BY <1>2 DEF GatewayInv, GateTypeOK
<1>4. ASSUME NEW s \in Requests
      PROVE  HandlerOK(s, req'[s]) /\ \A t \in req'[s].tickets : t.lease <= leaseSeq'
  <2>1. CASE s = r
    BY <1>2, <2>1
  <2>2. CASE s # r
    BY <1>2, <2>2, HandlersAreOK
  <2> QED BY <2>1, <2>2
<1>5. HandlersInv'
  BY <1>4 DEF HandlersInv, HandlerOK
<1>6. \A s \in Requests : NoReplay(req'[s]) /\ Charged(req'[s])
  BY <1>4 DEF HandlerOK
<1>7. NoReplayOfSideEffects'
  BY <1>6 DEF NoReplayOfSideEffects, NoReplay
<1>8. DoubleChargeReported'
  BY <1>6 DEF DoubleChargeReported, Charged
<1>9. ProbersInv'
  BY DEF GatewayInv, ProbersInv
<1>10. TicketsHaveRequests'
  BY <1>2 DEF GatewayInv, TicketsHaveRequests
<1> QED BY <1>3, <1>5, <1>7, <1>8, <1>9, <1>10 DEF GatewayInv, VersionsAccountedFor

LEMMA IdleIsOK ==
    ASSUME NEW r PROVE HandlerOK(r, Idle) /\ Idle.pc = "idle" /\ Idle.versions = {}
                       /\ Idle.tickets = {}
<1>1. << >> \in Seq(Versions) /\ NotEnded \in Endings \cup {NotEnded}
  OBVIOUS
<1>2. /\ Idle \in Handler /\ Idle.pc = "idle" /\ Idle.versions = {} /\ Idle.tickets = {}
      /\ Idle.ran = {} /\ Idle.commit = "uncommitted" /\ Idle.verdict = "none"
      /\ Idle.risk = FALSE
  BY <1>1 DEF Idle, Handler
<1>3. Holds(r, Idle)
  BY <1>2 DEF Holds
<1>4. Routes(Idle) /\ Ran(Idle) /\ Answers(Idle) /\ NoReplay(Idle) /\ Charged(Idle)
  BY <1>2 DEF Routes, Ran, Answers, NoReplay, Charged
<1> QED BY <1>2, <1>3, <1>4 DEF HandlerOK

LEMMA AdmittedIsOK ==
    ASSUME NEW r, NEW q,
           \/ \E risk \in BOOLEAN : q = [Idle EXCEPT !.pc = "reading", !.risk = risk]
           \/ q = [Idle EXCEPT !.pc = "commit", !.verdict = "error"]
    PROVE  /\ HandlerOK(r, q) /\ q.pc \in {"reading", "commit"}
           /\ q.versions = {} /\ q.tickets = {}
<1>1. Idle \in Handler
  BY IdleIsOK DEF HandlerOK
<1>2. /\ q \in Handler /\ q.pc \in {"reading", "commit"}
      /\ q.versions = {} /\ q.tickets = {}
      /\ q.ran = {} /\ q.tried = << >> /\ q.commit = "uncommitted"
      /\ q.verdict = (IF q.pc = "reading" THEN "none" ELSE "error")
  <2>1. CASE \E risk \in BOOLEAN : q = [Idle EXCEPT !.pc = "reading", !.risk = risk]
    BY <1>1, <2>1 DEF Idle, Handler
  <2>2. CASE q = [Idle EXCEPT !.pc = "commit", !.verdict = "error"]
    BY <1>1, <2>2 DEF Idle, Handler
  <2> QED BY <2>1, <2>2
<1>3. Holds(r, q)
  BY <1>2 DEF Holds
<1>4. Routes(q) /\ Ran(q) /\ Answers(q) /\ NoReplay(q) /\ Charged(q)
  BY <1>2 DEF Routes, Ran, Answers, NoReplay, Charged
<1> QED BY <1>2, <1>3, <1>4 DEF HandlerOK

\* The set a pin is counted against is finite.
LEMMA LeaseholdersFinite ==
    ASSUME GatewayInv, NEW v
    PROVE  IsFiniteSet({s \in Requests : v \in req[s].versions})
<1>1. {s \in Requests : v \in req[s].versions} \subseteq Inside
  BY HandlersAreOK DEF Inside, HandlerOK, Holds, Idle
<1> QED BY <1>1, FS_Subset DEF GatewayInv

LEMMA AdmitKeeps ==
    ASSUME GatewayInv, NEW r \in Requests, Admit(r) PROVE GatewayInv'
<1>1. PICK q : /\ req' = [req EXCEPT ![r] = q]
               /\ \/ \E risk \in Risks : q = [Idle EXCEPT !.pc = "reading", !.risk = risk]
                  \/ q = [Idle EXCEPT !.pc = "commit", !.verdict = "error"]
  BY DEF Admit
<1>2. /\ HandlerOK(r, q) /\ q.pc \in {"reading", "commit"}
      /\ q.versions = {} /\ q.tickets = {}
  BY <1>1, AdmittedIsOK, RequestAssumption
<1>3. req' = [req EXCEPT ![r] = q]
  BY <1>1
<1>4. /\ req[r].pc = "idle" /\ inflight' = inflight + 1 /\ drained' = FALSE
      /\ UNCHANGED <<accepting, probe>> /\ UNCHANGED vars
  BY DEF Admit
<1>5. req \in [Requests -> Handler] /\ inflight \in Nat /\ accepting \in BOOLEAN
  BY DEF GatewayInv, GateTypeOK
<1>6. req'[r] = q /\ \A s \in Requests : s # r => req'[s] = req[s]
  BY <1>3, <1>5
<1>7. req[r].tickets = {} /\ req[r].versions = {}
  BY <1>4, HandlersAreOK DEF HandlerOK, Holds, Idle
<1>8. Inside' = Inside \cup {r} /\ r \notin Inside
  BY <1>2, <1>4, <1>6 DEF Inside
<1>9. IsFiniteSet(Inside') /\ Cardinality(Inside') = Cardinality(Inside) + 1
  BY <1>8, FS_AddElement DEF GatewayInv
<1>10. inflight = Cardinality(Inside)
  BY DEF GatewayInv, DrainIsExact, Inside
<1>11. DrainIsExact'
  <2>1. inflight' = Cardinality(Inside') /\ inflight' # 0
    BY <1>4, <1>5, <1>9, <1>10
  <2> QED BY <1>4, <2>1 DEF DrainIsExact, Inside
<1>12. RegistryInv' /\ UNCHANGED <<pins, leaseSeq, active>>
  BY <1>4, OperationKeeps DEF GatewayInv, vars
<1>13. NoForgottenVersions'
  BY <1>4 DEF GatewayInv, VersionsAccountedFor, NoForgottenVersions, Live, TicketsOf, vars
<1>14. PinsMatchLeases'
  <2>1. \A v : {s \in Requests : v \in req'[s].versions}
                 = {s \in Requests : v \in req[s].versions}
    BY <1>2, <1>6, <1>7
  <2> QED BY <1>12, <2>1 DEF GatewayInv, VersionsAccountedFor, PinsMatchLeases
<1>15. inflight' \in Nat /\ drained' \in BOOLEAN
  <2>1. inflight' \in Nat
    BY <1>4, <1>5
  <2>2. drained' \in BOOLEAN
    BY <1>4, Zenon
  <2> QED BY <2>1, <2>2
<1> QED BY <1>2, <1>3, <1>4, <1>5, <1>7, <1>9, <1>11, <1>12, <1>13, <1>14, <1>15,
           HandlerChanges

LEMMA ExitKeeps ==
    ASSUME GatewayInv, NEW r \in Requests, Exit(r) PROVE GatewayInv'
<1>1. HandlerOK(r, Idle) /\ Idle.pc = "idle" /\ Idle.versions = {} /\ Idle.tickets = {}
  BY IdleIsOK
<1>2. /\ req[r].pc = "exit" /\ req' = [req EXCEPT ![r] = Idle]
      /\ inflight' = inflight - 1 /\ drained' = (drained \/ inflight = 1)
      /\ UNCHANGED <<accepting, probe>> /\ UNCHANGED vars
  BY DEF Exit, At
<1>3. /\ req \in [Requests -> Handler] /\ inflight \in Nat /\ accepting \in BOOLEAN
      /\ drained \in BOOLEAN
  BY DEF GatewayInv, GateTypeOK
<1>4. req'[r] = Idle /\ \A s \in Requests : s # r => req'[s] = req[s]
  BY <1>2, <1>3
<1>5. req[r].tickets = {} /\ req[r].versions = {}
  BY <1>2, HandlersAreOK DEF HandlerOK, Holds
<1>6. Inside' = Inside \ {r} /\ r \in Inside
  BY <1>1, <1>2, <1>4 DEF Inside
<1>7. IsFiniteSet(Inside') /\ Cardinality(Inside') = Cardinality(Inside) - 1
  BY <1>6, FS_RemoveElement DEF GatewayInv
<1>8. inflight = Cardinality(Inside) /\ (drained <=> inflight = 0)
  BY DEF GatewayInv, DrainIsExact, Inside
<1>9. inflight # 0
  BY <1>6, <1>8, FS_EmptySet DEF GatewayInv
<1>10. DrainIsExact'
  <2>1. inflight' = Cardinality(Inside')
    BY <1>2, <1>7, <1>8
  <2>2. drained' <=> inflight' = 0
    <3>1. ~drained
      BY <1>8, <1>9
    <3>2. inflight' = 0 <=> inflight = 1
      BY <1>2, <1>3
    <3> QED BY <1>2, <3>1, <3>2
  <2> QED BY <2>1, <2>2 DEF DrainIsExact, Inside
<1>11. RegistryInv' /\ UNCHANGED <<pins, leaseSeq, active>>
  BY <1>2, OperationKeeps DEF GatewayInv, vars
<1>12. NoForgottenVersions'
  BY <1>2 DEF GatewayInv, VersionsAccountedFor, NoForgottenVersions, Live, TicketsOf, vars
<1>13. PinsMatchLeases'
  <2>1. \A v : {s \in Requests : v \in req'[s].versions}
                 = {s \in Requests : v \in req[s].versions}
    BY <1>1, <1>4, <1>5
  <2> QED BY <1>11, <2>1 DEF GatewayInv, VersionsAccountedFor, PinsMatchLeases
<1>14. inflight' \in Nat /\ drained' \in BOOLEAN /\ accepting' \in BOOLEAN
  BY <1>2, <1>3, <1>9
<1> QED BY <1>1, <1>2, <1>5, <1>7, <1>10, <1>11, <1>12, <1>13, <1>14, HandlerChanges

\* The handlers inside are those that were, and so is the drain.
LEMMA SameInside ==
    ASSUME GatewayInv, NEW r \in Requests, NEW q, Step(r, q),
           req[r].pc # "idle", q.pc # "idle"
    PROVE  /\ req'[r] = q /\ \A s \in Requests : s # r => req'[s] = req[s]
           /\ IsFiniteSet(Inside') /\ DrainIsExact'
           /\ inflight' \in Nat /\ accepting' \in BOOLEAN /\ drained' \in BOOLEAN
           /\ req' = [req EXCEPT ![r] = q] /\ UNCHANGED probe
<1>1. /\ req \in [Requests -> Handler] /\ req' = [req EXCEPT ![r] = q]
      /\ UNCHANGED <<inflight, accepting, drained, probe>>
      /\ inflight \in Nat /\ accepting \in BOOLEAN /\ drained \in BOOLEAN
  BY DEF Step, GatewayInv, GateTypeOK
<1>2. req'[r] = q /\ \A s \in Requests : s # r => req'[s] = req[s]
  BY <1>1
<1>3. Inside' = Inside
  BY <1>2 DEF Inside
<1>4. IsFiniteSet(Inside') /\ DrainIsExact'
  BY <1>1, <1>3 DEF GatewayInv, DrainIsExact, Inside
<1> QED BY <1>1, <1>2, <1>4

LEMMA LeaseRouterKeeps ==
    ASSUME GatewayInv, NEW r \in Requests, LeaseRouter(r) PROVE GatewayInv'
<1> DEFINE q == [req[r] EXCEPT !.pc = "planning", !.versions = current]
<1>1. req[r].pc = "admitted" /\ Pin(current) /\ Step(r, q)
  BY DEF LeaseRouter, At
<1>2. HandlerOK(r, req[r]) /\ req[r] \in Handler
  BY HandlersAreOK DEF HandlerOK
<1>3. /\ req[r].versions = {} /\ req[r].tickets = {} /\ req[r].tried = << >>
      /\ req[r].ran = {} /\ req[r].commit = "uncommitted" /\ req[r].verdict = "none"
  BY <1>1, <1>2 DEF HandlerOK, Holds, Routes, Answers
<1>4. current \subseteq Live /\ current \in SUBSET Versions
      /\ pins \in [Versions -> Nat]
  BY DEF GatewayInv, RegistryInv, Inv, TypeOK
<1>5. /\ q \in Handler /\ q.pc = "planning" /\ q.versions = current /\ q.tickets = {}
      /\ q.tried = << >> /\ q.ran = {} /\ q.commit = "uncommitted"
      /\ q.verdict = "none"
  BY <1>2, <1>3, <1>4 DEF Handler
<1> HIDE DEF q
<1>6. HandlerOK(r, q)
  <2>1. Holds(r, q)
    BY <1>5 DEF Holds
  <2>2. Routes(q) /\ Ran(q) /\ Answers(q) /\ NoReplay(q) /\ Charged(q)
    BY <1>5 DEF Routes, Ran, Answers, NoReplay, Charged
  <2> QED BY <1>5, <2>1, <2>2 DEF HandlerOK
<1>7. RegistryInv'
  <2>1. Operation
    BY <1>1, <1>4 DEF Operation
  <2> QED BY <2>1, OperationKeeps DEF GatewayInv
<1>8. /\ pins' = [v \in Versions |-> IF v \in current THEN pins[v] + 1 ELSE pins[v]]
      /\ UNCHANGED <<routes, current, active, leaseSeq>>
  BY <1>1 DEF Pin
<1>9. NoForgottenVersions'
  <2> SUFFICES ASSUME NEW v \in Live, v \notin current
               PROVE  pins'[v] > 0 \/ \E u \in active : u.version = v
    BY <1>8 DEF NoForgottenVersions, Live, TicketsOf
  <2>1. pins[v] > 0 \/ \E u \in active : u.version = v
    BY DEF GatewayInv, VersionsAccountedFor, NoForgottenVersions, TicketsOf
  <2>2. v \in Versions
    BY DEF GatewayInv, RegistryInv, Inv, TypeOK
  <2> QED BY <1>8, <2>1, <2>2
<1>10. /\ req'[r] = q /\ \A s \in Requests : s # r => req'[s] = req[s]
       /\ IsFiniteSet(Inside') /\ DrainIsExact'
       /\ inflight' \in Nat /\ accepting' \in BOOLEAN /\ drained' \in BOOLEAN
       /\ req' = [req EXCEPT ![r] = q] /\ UNCHANGED probe
  BY <1>1, <1>5, SameInside
<1>11. PinsMatchLeases'
  <2> SUFFICES ASSUME NEW v \in Versions
               PROVE  pins'[v] = Cardinality({s \in Requests : v \in req'[s].versions})
    BY DEF PinsMatchLeases
  <2> DEFINE S == {s \in Requests : v \in req[s].versions}
             T == {s \in Requests : v \in req'[s].versions}
  <2>1. IsFiniteSet(S) /\ pins[v] = Cardinality(S) /\ pins[v] \in Nat
    BY <1>4, LeaseholdersFinite DEF GatewayInv, VersionsAccountedFor, PinsMatchLeases
  <2>2. r \notin S /\ T = IF v \in current THEN S \cup {r} ELSE S
    BY <1>3, <1>5, <1>10
  <2> HIDE DEF S, T
  <2>3. Cardinality(S \cup {r}) = Cardinality(S) + 1
    BY <2>1, <2>2, FS_AddElement
  <2>4. pins'[v] = Cardinality(T)
    BY <1>8, <2>1, <2>2, <2>3
  <2> QED BY <2>4 DEF T
<1> QED BY <1>3, <1>5, <1>6, <1>7, <1>8, <1>9, <1>10, <1>11, HandlerChanges

LEMMA ReleaseLeaseKeeps ==
    ASSUME GatewayInv, NEW r \in Requests, ReleaseLease(r) PROVE GatewayInv'
<1> DEFINE vs == req[r].versions
           q == [req[r] EXCEPT !.pc = "exit", !.versions = {}]
<1>1. /\ req[r].pc = "release" /\ Step(r, q)
      /\ IF vs = {} THEN UNCHANGED vars ELSE Release(vs)
  BY DEF ReleaseLease, At
<1>2. HandlerOK(r, req[r]) /\ req[r] \in Handler
  BY HandlersAreOK DEF HandlerOK
<1>3. req[r].tickets = {} /\ req[r].commit # "committing"
  BY <1>1, <1>2 DEF HandlerOK, Holds, Answers
<1>4. /\ q \in Handler /\ q.pc = "exit" /\ q.versions = {} /\ q.tickets = {}
      /\ q.risk = req[r].risk /\ q.tried = req[r].tried /\ q.ran = req[r].ran
      /\ q.double = req[r].double /\ q.verdict = req[r].verdict
      /\ q.commit = req[r].commit
  BY <1>2, <1>3 DEF Handler
<1> HIDE DEF q
<1>5. HandlerOK(r, q)
  <2>1. Holds(r, q)
    BY <1>4 DEF Holds
  <2>2. Routes(q) /\ Ran(q)
    BY <1>4 DEF Routes, Ran
  <2>3. Answers(q) /\ NoReplay(q) /\ Charged(q)
    BY <1>2, <1>3, <1>4 DEF HandlerOK, Answers, NoReplay, Charged
  <2> QED BY <1>4, <2>1, <2>2, <2>3 DEF HandlerOK
<1>6. CASE vs = {}
  BY <1>1, <1>3, <1>4, <1>5, <1>6, HandlerMovesAlone
<1>7. CASE vs # {}
  <2>1. Release(vs) /\ vs \in SUBSET Live
    BY <1>1, <1>7, LeasedIsLive
  <2>2. RegistryInv'
    <3>1. Operation
      BY <2>1 DEF Operation
    <3> QED BY <3>1, OperationKeeps DEF GatewayInv
  <2>3. NoForgottenVersions'
    BY <2>1, ReleaseForgetsNothing DEF GatewayInv, RegistryInv, VersionsAccountedFor
  <2>4. /\ pins' = [v \in Versions |-> IF v \in vs THEN pins[v] - 1 ELSE pins[v]]
        /\ UNCHANGED <<active, leaseSeq>>
    BY <2>1 DEF Release
  <2>5. /\ req'[r] = q /\ \A s \in Requests : s # r => req'[s] = req[s]
        /\ IsFiniteSet(Inside') /\ DrainIsExact'
        /\ inflight' \in Nat /\ accepting' \in BOOLEAN /\ drained' \in BOOLEAN
        /\ req' = [req EXCEPT ![r] = q] /\ UNCHANGED probe
    BY <1>1, <1>4, SameInside
  <2>6. PinsMatchLeases'
    <3> SUFFICES ASSUME NEW v \in Versions
                 PROVE  pins'[v] = Cardinality({s \in Requests : v \in req'[s].versions})
      BY DEF PinsMatchLeases
    <3> DEFINE S == {s \in Requests : v \in req[s].versions}
               T == {s \in Requests : v \in req'[s].versions}
    <3>1. IsFiniteSet(S) /\ pins[v] = Cardinality(S)
      BY LeaseholdersFinite DEF GatewayInv, VersionsAccountedFor, PinsMatchLeases
    <3>2. (r \in S <=> v \in vs) /\ T = S \ {r}
      BY <1>4, <2>5
    <3> HIDE DEF S, T
    <3>3. Cardinality(S \ {r}) = IF r \in S THEN Cardinality(S) - 1 ELSE Cardinality(S)
      BY <3>1, FS_RemoveElement
    <3>4. pins'[v] = Cardinality(T)
      BY <2>4, <3>1, <3>2, <3>3
    <3> QED BY <3>4 DEF T
  <2> QED BY <1>3, <1>4, <1>5, <2>2, <2>3, <2>4, <2>5, <2>6, HandlerChanges
<1> QED BY <1>6, <1>7

-----------------------------------------------------------------------------
(* Steps that leave the handlers alone *)

LEMMA HandlersStay ==
    ASSUME GatewayInv, UNCHANGED <<req, inflight, pins>>,
           accepting' \in BOOLEAN, drained' \in BOOLEAN, drained' <=> inflight = 0,
           probe' \in [Probes -> Prober], ProbersInv',
           RegistryInv', NoForgottenVersions', leaseSeq' \in Nat, leaseSeq <= leaseSeq',
           \A t \in active' : t \in active \/ t.attempt \notin Requests
    PROVE  GatewayInv'
<1>1. GateTypeOK'
  BY DEF GatewayInv, GateTypeOK
<1>2. HandlersInv'
  <2> SUFFICES ASSUME NEW r \in Requests
               PROVE  /\ Holds(r, req[r]) /\ Routes(req[r]) /\ Ran(req[r]) /\ Answers(req[r])
                      /\ \A t \in req[r].tickets : t.lease <= leaseSeq'
    BY DEF HandlersInv
  <2>1. HandlerOK(r, req[r]) /\ \A t \in req[r].tickets : t.lease <= leaseSeq
    BY HandlersAreOK
  <2>2. leaseSeq \in Nat /\ \A t \in req[r].tickets : t.lease \in Nat
    BY <2>1 DEF HandlerOK, Handler, Ticket, GatewayInv, RegistryInv, Inv, TypeOK
  <2>3. \A t \in req[r].tickets : t.lease <= leaseSeq'
    BY <2>1, <2>2
  <2> QED BY <2>1, <2>3 DEF HandlerOK
<1>3. NoReplayOfSideEffects' /\ DoubleChargeReported'
  BY DEF GatewayInv, NoReplayOfSideEffects, DoubleChargeReported
<1>4. IsFiniteSet(Inside') /\ DrainIsExact'
  BY DEF GatewayInv, Inside, DrainIsExact
<1>5. TicketsHaveRequests'
  BY DEF GatewayInv, TicketsHaveRequests
<1>6. PinsMatchLeases'
  BY DEF GatewayInv, VersionsAccountedFor, PinsMatchLeases
<1> QED BY <1>1, <1>2, <1>3, <1>4, <1>5, <1>6 DEF GatewayInv, VersionsAccountedFor

LEMMA DrainKeeps ==
    ASSUME GatewayInv, BeginDrain \/ Resume PROVE GatewayInv'
<1>1. /\ UNCHANGED <<req, inflight, probe>> /\ UNCHANGED vars
      /\ drained' = (inflight = 0) \/ UNCHANGED drained
  BY DEF BeginDrain, Resume
<1>2. accepting' \in BOOLEAN
  <2>1. accepting' = TRUE \/ accepting' = FALSE
    BY DEF BeginDrain, Resume
  <2> QED BY <2>1, Zenon
<1>3. drained' \in BOOLEAN /\ (drained' <=> inflight = 0)
  BY <1>1 DEF GatewayInv, GateTypeOK, DrainIsExact
<1>4. RegistryInv' /\ UNCHANGED <<pins, leaseSeq, active>> /\ leaseSeq \in Nat
  BY <1>1, OperationKeeps DEF GatewayInv, RegistryInv, Inv, TypeOK, vars
<1>5. NoForgottenVersions'
  BY <1>1 DEF GatewayInv, VersionsAccountedFor, NoForgottenVersions, Live, TicketsOf, vars
<1>6. probe' \in [Probes -> Prober] /\ ProbersInv'
  BY <1>1 DEF GatewayInv, GateTypeOK, ProbersInv
<1> QED BY <1>1, <1>2, <1>3, <1>4, <1>5, <1>6, HandlersStay

\* The configuration, the process and the clock move alone.
LEMMA RegistryMoves ==
    ASSUME GatewayInv, Activate \/ GatewayStart \/ ClockTick PROVE GatewayInv'
<1>1. UNCHANGED gateVars /\ (Reconfigure \/ Start \/ Tick)
  BY DEF Activate, Reconfigure, GatewayStart, ClockTick
<1>2. RegistryInv'
  <2>1. Operation
    BY <1>1 DEF Operation
  <2> QED BY <2>1, OperationKeeps DEF GatewayInv
<1>3. Inv /\ NoForgottenVersions /\ leaseSeq \in Nat
  BY DEF GatewayInv, RegistryInv, VersionsAccountedFor, Inv, TypeOK
<1>4. UNCHANGED <<pins, leaseSeq, active>> /\ NoForgottenVersions'
  <2>1. CASE Reconfigure
    BY <1>3, <2>1, ConfigureForgetsNothing DEF Reconfigure
  <2>2. CASE Start
    <3>1. /\ UNCHANGED <<pins, leaseSeq, active>>
          /\ Live' = current' \/ UNCHANGED <<routes, current>>
      BY <2>2 DEF Start, Live
    <3> QED BY <1>3, <3>1 DEF NoForgottenVersions, Live, TicketsOf
  <2>3. CASE Tick
    BY <1>3, <2>3 DEF Tick, NoForgottenVersions, Live, TicketsOf
  <2> QED BY <1>1, <2>1, <2>2, <2>3
<1>5. /\ UNCHANGED <<req, inflight, accepting, drained, probe>>
      /\ accepting' \in BOOLEAN /\ drained' \in BOOLEAN /\ (drained' <=> inflight = 0)
      /\ probe' \in [Probes -> Prober] /\ ProbersInv'
  BY <1>1 DEF gateVars, GatewayInv, GateTypeOK, DrainIsExact, ProbersInv
<1> QED BY <1>2, <1>3, <1>4, <1>5, HandlersStay

\* A probe moves.
LEMMA ProberMoves ==
    ASSUME GatewayInv, NEW p \in Probes, NEW new \in Prober, ProbeStep(p, new),
           \A t \in new.held : /\ t.signal = "probe"
                               /\ new.admitted = "half_open" => t.guarded
    PROVE  /\ UNCHANGED <<req, inflight, accepting, drained>>
           /\ accepting' \in BOOLEAN /\ drained' \in BOOLEAN /\ (drained' <=> inflight = 0)
           /\ probe' \in [Probes -> Prober] /\ ProbersInv'
<1>1. /\ probe' = [probe EXCEPT ![p] = new] /\ probe \in [Probes -> Prober]
      /\ UNCHANGED <<req, inflight, accepting, drained>>
      /\ accepting \in BOOLEAN /\ drained \in BOOLEAN /\ (drained <=> inflight = 0)
  BY DEF ProbeStep, GatewayInv, GateTypeOK, DrainIsExact
<1>2. /\ probe' \in [Probes -> Prober] /\ probe'[p] = new
      /\ \A o \in Probes : o # p => probe'[o] = probe[o]
  BY <1>1
<1>3. ProbersInv'
  BY <1>2 DEF GatewayInv, ProbersInv
<1> QED BY <1>1, <1>2, <1>3

LEMMA NoProbeIsOK ==
    NoProbe \in Prober /\ NoProbe.held = {}
BY DEF NoProbe, Prober

LEMMA ProbeStartKeeps ==
    ASSUME GatewayInv, NEW p \in Probes, ProbeStart(p) PROVE GatewayInv'
<1>1. PICK v \in Live :
         \/ /\ Acquire(v, p, TRUE, "probe")
            /\ IF leaseSeq' = leaseSeq THEN ProbeStep(p, NoProbe)
               ELSE ProbeStep(p, [pc |-> "inflight",
                                  held |-> {NewTicket(v, p, TRUE, "probe")},
                                  admitted |-> Admitting(v, TRUE).state])
         \/ AcquireBusy(v, TRUE) /\ ProbeStep(p, NoProbe)
  BY DEF ProbeStart
<1>2. p \in Attempts /\ p \notin Requests
  BY RequestAssumption
<1>3. Inv /\ SoundInv /\ NoForgottenVersions /\ leaseSeq \in Nat
  BY DEF GatewayInv, RegistryInv, VersionsAccountedFor, Inv, TypeOK
<1>4. RegistryInv'
  <2>1. Operation
    BY <1>1, <1>2 DEF Operation, Signals
  <2> QED BY <2>1, OperationKeeps DEF GatewayInv
<1>5. NoForgottenVersions'
  BY <1>1, <1>3, AcquireForgetsNothing, AcquireBusyForgetsNothing
<1>6. CASE AcquireBusy(v, TRUE) /\ ProbeStep(p, NoProbe)
  <2>1. UNCHANGED <<pins, leaseSeq>> /\ active' \subseteq active
    BY <1>3, <1>6, AcquireBusyEffect
  <2>2. /\ UNCHANGED <<req, inflight, accepting, drained>>
        /\ accepting' \in BOOLEAN /\ drained' \in BOOLEAN /\ (drained' <=> inflight = 0)
        /\ probe' \in [Probes -> Prober] /\ ProbersInv'
    BY <1>6, NoProbeIsOK, ProberMoves
  <2> QED BY <1>3, <1>4, <1>5, <2>1, <2>2, HandlersStay
<1>7. CASE Acquire(v, p, TRUE, "probe")
  <2> DEFINE t == NewTicket(v, p, TRUE, "probe")
             a == Admitting(v, TRUE).state
             new == [pc |-> "inflight", held |-> {t}, admitted |-> a]
  <2>1. /\ UNCHANGED pins
        /\ \/ leaseSeq' = leaseSeq /\ UNCHANGED active
           \/ /\ leaseSeq' = leaseSeq + 1 /\ leaseSeq' # leaseSeq
              /\ t \in active' /\ active' \subseteq active \cup {t}
    BY <1>3, <1>7, AcquireEffect
  <2>2. /\ t.signal = "probe" /\ t.attempt = p /\ (a = "half_open" => t.guarded)
    BY DEF NewTicket, Guarded
  <2>3. leaseSeq' \in Nat /\ leaseSeq <= leaseSeq'
    <3> HIDE DEF t
    <3> QED BY <1>3, <2>1
  <2>4. \A u \in active' : u \in active \/ u.attempt \notin Requests
    <3> HIDE DEF t
    <3> QED BY <1>2, <2>1, <2>2
  <2>5. /\ UNCHANGED <<req, inflight, accepting, drained>>
        /\ accepting' \in BOOLEAN /\ drained' \in BOOLEAN /\ (drained' <=> inflight = 0)
        /\ probe' \in [Probes -> Prober] /\ ProbersInv'
    <3>1. CASE ProbeStep(p, NoProbe)
      BY <3>1, NoProbeIsOK, ProberMoves
    <3>2. CASE leaseSeq' # leaseSeq /\ ProbeStep(p, new)
      <4>1. a \in States
        <5>1. Admitting(v, TRUE) \in Runtime
          BY <1>3, AdmittingType DEF Inv
        <5> QED BY <5>1 DEF Runtime
      <4>2. t \in Ticket
        <5> HIDE DEF t
        <5> QED BY <1>4, <2>1, <3>2 DEF RegistryInv, Inv, TypeOK
      <4> HIDE DEF t, a
      <4>3. new \in Prober /\ new.held = {t} /\ new.admitted = a
        BY <4>1, <4>2 DEF Prober
      <4>4. ProbeStep(p, new)
        BY <3>2
      <4> HIDE DEF new
      <4> QED BY <2>2, <4>3, <4>4, ProberMoves
    <3>3. CASE AcquireBusy(v, TRUE) /\ ProbeStep(p, NoProbe)
      BY <3>1, <3>3
    <3> QED BY <1>1, <1>7, <3>1, <3>2, <3>3
  <2> QED BY <1>4, <1>5, <2>1, <2>3, <2>4, <2>5, HandlersStay
<1> QED BY <1>1, <1>6, <1>7

LEMMA ProbeEndsKeeps ==
    ASSUME GatewayInv, NEW p \in Probes, ProbeEnds(p) PROVE GatewayInv'
<1> DEFINE retry == [probe[p] EXCEPT !.pc = "retry"]
           Ends(t) == \/ RecordSuccess(t)
                      \/ t.guarded /\ \E kind \in FailureKinds : RecordFailure(t, kind)
                      \/ RecordCancelled(t)
                      \/ Abandon(t)
<1>1. PICK t \in probe[p].held :
         /\ ProbeStep(p, NoProbe) \/ ProbeStep(p, retry)
         /\ \/ UNCHANGED vars
            \/ /\ Matching(t)
               /\ \/ RecordSuccess(t) \/ RecordCancelled(t)
                  \/ FinishFailure(p, t, "action_required")
                  \/ FinishFailure(p, t, "temporary")
  BY DEF ProbeEnds
<1>2. /\ t.signal = "probe" /\ (probe[p].admitted = "half_open" => t.guarded)
      /\ probe[p] \in Prober
      /\ \A u \in probe[p].held : /\ u.signal = "probe"
                                  /\ probe[p].admitted = "half_open" => u.guarded
  BY DEF GatewayInv, GateTypeOK, ProbersInv
<1>3. /\ UNCHANGED <<req, inflight, accepting, drained>>
      /\ accepting' \in BOOLEAN /\ drained' \in BOOLEAN /\ (drained' <=> inflight = 0)
      /\ probe' \in [Probes -> Prober] /\ ProbersInv'
  <2>1. CASE ProbeStep(p, NoProbe)
    BY <2>1, NoProbeIsOK, ProberMoves
  <2>2. CASE ProbeStep(p, retry)
    <3>1. /\ retry \in Prober /\ retry.held = probe[p].held
          /\ retry.admitted = probe[p].admitted
      BY <1>2 DEF Prober
    <3> HIDE DEF retry
    <3> QED BY <1>2, <2>2, <3>1, ProberMoves
  <2> QED BY <1>1, <2>1, <2>2
<1>4. UNCHANGED vars \/ (t \in active /\ Ends(t))
  BY <1>1, <1>2 DEF FinishFailure, FailureKinds, Matching
<1>5. Inv /\ SoundInv /\ NoForgottenVersions /\ leaseSeq \in Nat
  BY DEF GatewayInv, RegistryInv, VersionsAccountedFor, Inv, TypeOK
<1>6. CASE UNCHANGED vars
  <2>1. RegistryInv' /\ UNCHANGED <<pins, leaseSeq, active>>
    BY <1>6, OperationKeeps DEF GatewayInv, vars
  <2>2. NoForgottenVersions'
    BY <1>5, <1>6 DEF NoForgottenVersions, Live, TicketsOf, vars
  <2> QED BY <1>3, <1>5, <2>1, <2>2, HandlersStay
<1>7. CASE t \in active /\ Ends(t)
  <2>1. Settles(t)
    BY <1>7 DEF Settles
  <2>2. RegistryInv'
    <3>1. Operation
      BY <1>7, <2>1 DEF Operation
    <3> QED BY <3>1, OperationKeeps DEF GatewayInv
  <2>3. NoForgottenVersions'
    BY <1>2, <1>5, <1>7, ProbeForgetsNothing
  <2>4. UNCHANGED <<pins, leaseSeq>> /\ active' \subseteq active
    BY <2>1, SettlesEffect, AppliedTickets
  <2> QED BY <1>3, <1>5, <2>2, <2>3, <2>4, HandlersStay
<1> QED BY <1>4, <1>6, <1>7

-----------------------------------------------------------------------------
(* The gateway *)

LEMMA CrashEmpties ==
    ASSUME GatewayInv, GatewayCrash PROVE GatewayInv'
<1>1. /\ req' = [r \in Requests |-> Idle] /\ probe' = [p \in Probes |-> NoProbe]
      /\ inflight' = 0 /\ accepting' = TRUE /\ drained' = TRUE /\ Crash
  BY DEF GatewayCrash
<1>2. RegistryInv'
  BY <1>1, OperationKeeps DEF Operation, GatewayInv
<1>3. Live' = {} /\ active' = {} /\ pins' = [v \in Versions |-> 0]
  BY <1>1 DEF Crash, Empty, Live
<1>4. \A r \in Requests : /\ req'[r] = Idle /\ HandlerOK(r, Idle)
                          /\ Idle.pc = "idle" /\ Idle.versions = {} /\ Idle.tickets = {}
  BY <1>1, IdleIsOK
<1>5. GateTypeOK'
  <2>1. req' \in [Requests -> Handler]
    BY <1>1, <1>4 DEF HandlerOK
  <2>2. probe' \in [Probes -> Prober]
    BY <1>1, NoProbeIsOK
  <2>3. inflight' \in Nat
    BY <1>1
  <2>4. accepting' \in BOOLEAN /\ drained' \in BOOLEAN
    BY <1>1, Zenon
  <2> QED BY <2>1, <2>2, <2>3, <2>4 DEF GateTypeOK
<1>6. HandlersInv'
  BY <1>4 DEF HandlersInv, HandlerOK
<1>7. \A r \in Requests : NoReplay(req'[r]) /\ Charged(req'[r])
  BY <1>4 DEF HandlerOK
<1>8. NoReplayOfSideEffects' /\ DoubleChargeReported'
  <2>1. NoReplayOfSideEffects'
    BY <1>7 DEF NoReplayOfSideEffects, NoReplay
  <2>2. DoubleChargeReported'
    BY <1>7 DEF DoubleChargeReported, Charged
  <2> QED BY <2>1, <2>2
<1>9. ProbersInv'
  BY <1>1, NoProbeIsOK DEF ProbersInv
<1>10. Inside' = {}
  BY <1>4 DEF Inside
<1>11. IsFiniteSet(Inside') /\ DrainIsExact'
  BY <1>1, <1>10, FS_EmptySet DEF DrainIsExact, Inside
<1>12. TicketsHaveRequests' /\ NoForgottenVersions'
  BY <1>3 DEF TicketsHaveRequests, NoForgottenVersions
<1>13. PinsMatchLeases'
  <2>1. \A v : {r \in Requests : v \in req'[r].versions} = {}
    BY <1>4
  <2> QED BY <1>3, <2>1, FS_EmptySet DEF PinsMatchLeases
<1> QED BY <1>2, <1>5, <1>6, <1>8, <1>9, <1>11, <1>12, <1>13
        DEF GatewayInv, VersionsAccountedFor

LEMMA InitEstablishesGateway == GatewayInit => GatewayInv
<1> SUFFICES ASSUME GatewayInit PROVE GatewayInv
  OBVIOUS
<1>1. /\ req = [r \in Requests |-> Idle] /\ probe = [p \in Probes |-> NoProbe]
      /\ inflight = 0 /\ accepting = TRUE /\ drained = TRUE /\ Init
  BY DEF GatewayInit
<1>2. RegistryInv
  BY <1>1, InitEstablishesInv, InitEstablishesSound, InitEstablishesEvidence
     DEF RegistryInv
<1>3. Live = {} /\ active = {} /\ pins = [v \in Versions |-> 0]
  BY <1>1 DEF Init, Empty, Live
<1>4. \A r \in Requests : /\ req[r] = Idle /\ HandlerOK(r, Idle)
                          /\ Idle.pc = "idle" /\ Idle.versions = {} /\ Idle.tickets = {}
  BY <1>1, IdleIsOK
<1>5. GateTypeOK
  <2>1. req \in [Requests -> Handler]
    BY <1>1, <1>4 DEF HandlerOK
  <2>2. probe \in [Probes -> Prober]
    BY <1>1, NoProbeIsOK
  <2>3. inflight \in Nat
    BY <1>1
  <2>4. accepting \in BOOLEAN /\ drained \in BOOLEAN
    BY <1>1, Zenon
  <2> QED BY <2>1, <2>2, <2>3, <2>4 DEF GateTypeOK
<1>6. HandlersInv
  BY <1>4 DEF HandlersInv, HandlerOK
<1>7. \A r \in Requests : NoReplay(req[r]) /\ Charged(req[r])
  BY <1>4 DEF HandlerOK
<1>8. NoReplayOfSideEffects /\ DoubleChargeReported
  <2>1. NoReplayOfSideEffects
    BY <1>7 DEF NoReplayOfSideEffects, NoReplay
  <2>2. DoubleChargeReported
    BY <1>7 DEF DoubleChargeReported, Charged
  <2> QED BY <2>1, <2>2
<1>9. ProbersInv
  BY <1>1, NoProbeIsOK DEF ProbersInv
<1>10. Inside = {}
  BY <1>4 DEF Inside
<1>11. IsFiniteSet(Inside) /\ DrainIsExact
  BY <1>1, <1>10, FS_EmptySet DEF DrainIsExact, Inside
<1>12. TicketsHaveRequests /\ NoForgottenVersions
  BY <1>3 DEF TicketsHaveRequests, NoForgottenVersions
<1>13. PinsMatchLeases
  <2>1. \A v : {r \in Requests : v \in req[r].versions} = {}
    BY <1>4
  <2> QED BY <1>3, <2>1, FS_EmptySet DEF PinsMatchLeases
<1> QED BY <1>2, <1>5, <1>6, <1>8, <1>9, <1>11, <1>12, <1>13
        DEF GatewayInv, VersionsAccountedFor

LEMMA NextKeepsGateway == GatewayInv /\ [GatewayNext]_allVars => GatewayInv'
<1> SUFFICES ASSUME GatewayInv, [GatewayNext]_allVars PROVE GatewayInv'
  OBVIOUS
<1>1. ASSUME NEW r \in Requests, RequestStep(r) \/ ClientStep(r) PROVE GatewayInv'
  <2>1. CASE Refuse(r)
    BY <2>1, RefuseKeeps
  <2>2. CASE LeaseRouter(r)
    BY <2>2, LeaseRouterKeeps
  <2>3. CASE PlanFails(r) \/ TryRaises(r) \/ RoutesExhausted(r)
    BY <2>3, StopKeeps
  <2>4. CASE PlanRoutes(r)
    BY <2>4, PlanRoutesKeeps
  <2>5. CASE TryRoute(r)
    BY <2>5, TryRouteKeeps
  <2>6. CASE SkipRoute(r)
    BY <2>6, SkipRouteKeeps
  <2>7. CASE \E e \in Endings : e.end \in UpstreamEnds /\ AttemptEnds(r, e)
    BY <2>7, AttemptEndsKeeps
  <2>8. CASE Report(r)
    BY <2>8, ReportKeeps
  <2>9. CASE Cleanup(r)
    BY <2>9, CleanupKeeps
  <2>10. CASE StartCommit(r) \/ EndCommit(r)
    BY <2>10, CommitKeeps
  <2>11. CASE ReleaseLease(r)
    BY <2>11, ReleaseLeaseKeeps
  <2>12. CASE Exit(r)
    BY <2>12, ExitKeeps
  <2>13. CASE ReadBody(r)
    BY <2>13, ReadBodyKeeps
  <2> QED BY <1>1, <2>1, <2>2, <2>3, <2>4, <2>5, <2>6, <2>7, <2>8, <2>9, <2>10,
             <2>11, <2>12, <2>13 DEF RequestStep, ClientStep
<1>2. ASSUME NEW r \in Requests, Admit(r) \/ Disconnect(r) PROVE GatewayInv'
  BY <1>2, AdmitKeeps, DisconnectKeeps
<1>3. ASSUME NEW p \in Probes, ProbeStart(p) \/ ProbeEnds(p) PROVE GatewayInv'
  BY <1>3, ProbeStartKeeps, ProbeEndsKeeps
<1>4. CASE BeginDrain \/ Resume
  BY <1>4, DrainKeeps
<1>5. CASE Activate \/ GatewayStart \/ ClockTick
  BY <1>5, RegistryMoves
<1>6. CASE GatewayCrash
  BY <1>6, CrashEmpties
<1>7. CASE UNCHANGED allVars
  <2>1. UNCHANGED vars /\ UNCHANGED <<req, inflight, accepting, drained, probe>>
    BY <1>7 DEF allVars, gateVars
  <2>2. RegistryInv' /\ UNCHANGED <<pins, leaseSeq, active>> /\ leaseSeq \in Nat
    BY <2>1, OperationKeeps DEF GatewayInv, RegistryInv, Inv, TypeOK, vars
  <2>3. NoForgottenVersions'
    BY <2>1 DEF GatewayInv, VersionsAccountedFor, NoForgottenVersions, Live, TicketsOf,
                vars
  <2>4. /\ accepting' \in BOOLEAN /\ drained' \in BOOLEAN /\ (drained' <=> inflight = 0)
        /\ probe' \in [Probes -> Prober] /\ ProbersInv'
    BY <2>1 DEF GatewayInv, GateTypeOK, DrainIsExact, ProbersInv
  <2> QED BY <2>1, <2>2, <2>3, <2>4, HandlersStay
<1> QED BY <1>1, <1>2, <1>3, <1>4, <1>5, <1>6, <1>7 DEF GatewayNext

\* The invariant of the gateway holds in every state of every behaviour, however
\* many handlers and probes share the registry (ingress.py, router.py,
\* probe_scheduler.py).
THEOREM GatewayHolds == GatewaySpec => []GatewayInv
BY InitEstablishesGateway, NextKeepsGateway, PTL DEF GatewaySpec

\* The event wait_drained waits for is set exactly when no handler is inside,
\* and _active_requests counts the handlers.
THEOREM DrainCounts == GatewaySpec => []DrainIsExact
<1>1. GatewayInv => DrainIsExact
  BY DEF GatewayInv
<1> QED BY <1>1, GatewayHolds, PTL

\* A request that is gone has left no ticket in the registry, whatever failed
\* on its way (the finally block of FailoverRouter.execute).
THEOREM NoTicketOutlives == GatewaySpec => []TicketsHaveRequests
<1>1. GatewayInv => TicketsHaveRequests
  BY DEF GatewayInv
<1> QED BY <1>1, GatewayHolds, PTL

\* Each pin belongs to a request with its lease, and a retired version stays in
\* the registry only as long as somebody uses it (release_versions,
\* _prune_version_locked).
THEOREM VersionsAreAccounted == GatewaySpec => []VersionsAccountedFor
<1>1. GatewayInv => VersionsAccountedFor
  BY DEF GatewayInv
<1> QED BY <1>1, GatewayHolds, PTL

\* A request with server side tools never reaches the backup after the primary
\* may have executed it (replay_blocked in FailoverRouter.execute).
THEOREM SideEffectsNotReplayed == GatewaySpec => []NoReplayOfSideEffects
<1>1. GatewayInv => NoReplayOfSideEffects
  BY DEF GatewayInv
<1> QED BY <1>1, GatewayHolds, PTL

\* A request both upstreams may have billed is answered with
\* possible_double_charge.
THEOREM DoubleChargesReported == GatewaySpec => []DoubleChargeReported
<1>1. GatewayInv => DoubleChargeReported
  BY DEF GatewayInv
<1> QED BY <1>1, GatewayHolds, PTL

\* Only its report takes a handler from the report to the finally block.
LEMMA OnlyReportReports ==
    ASSUME GatewayInv, GatewayNext, NEW r \in Requests,
           req[r].pc = "report", req'[r].pc = "cleanup"
    PROVE  Report(r)
<1>1. req \in [Requests -> Handler]
  BY DEF GatewayInv, GateTypeOK
<1>2. req' # req
  OBVIOUS
<1>3. ASSUME NEW s \in Requests, NEW q, Step(s, q) \/ req' = [req EXCEPT ![s] = q]
      PROVE  s = r
  <2>1. req' = [req EXCEPT ![s] = q]
    BY <1>3 DEF Step
  <2> QED BY <1>1, <2>1
<1>4. ASSUME NEW s \in Requests, Admit(s) \/ Disconnect(s) PROVE FALSE
  <2>1. CASE Admit(s)
    <3>1. PICK q : req' = [req EXCEPT ![s] = q]
      BY <2>1 DEF Admit
    <3>2. s = r
      BY <1>3, <3>1
    <3> QED BY <2>1, <3>2 DEF Admit
  <2>2. CASE Disconnect(s)
    <3> DEFINE q == [req[s] EXCEPT !.cancelled = TRUE]
    <3>1. Step(s, q) /\ req[s] \in Handler
      BY <1>1, <2>2 DEF Disconnect
    <3>2. s = r
      BY <1>3, <3>1
    <3>3. q.pc = "report"
      BY <3>1, <3>2 DEF Handler
    <3> HIDE DEF q
    <3>4. req'[r] = q
      BY <1>1, <3>1, <3>2 DEF Step
    <3> QED BY <3>3, <3>4
  <2> QED BY <1>4, <2>1, <2>2
<1>5. ASSUME NEW s \in Requests, RequestStep(s) \/ ClientStep(s) PROVE Report(r)
  <2>1. s = r
    <3>1. \E q : Step(s, q) \/ req' = [req EXCEPT ![s] = q]
      <4>1. CASE Exit(s)
        BY <4>1 DEF Exit
      <4>2. CASE Report(s)
        BY <4>2 DEF Report, AfterReport, Verdict
      <4>3. CASE ~Exit(s) /\ ~Report(s)
        BY <1>5, <4>3 DEF RequestStep, ClientStep, ReadBody, Refuse, LeaseRouter, PlanFails,
             PlanRoutes, TryRoute, SkipRoute, TryRaises, RoutesExhausted, AttemptEnds, Cleanup, StartCommit,
             EndCommit, ReleaseLease, Verdict
      <4> QED BY <4>1, <4>2, <4>3
    <3> QED BY <1>3, <3>1
  <2> QED BY <1>5, <2>1 DEF RequestStep, ClientStep, ReadBody, Refuse, LeaseRouter, PlanFails, PlanRoutes,
         TryRoute, SkipRoute, TryRaises, RoutesExhausted, AttemptEnds, Cleanup, StartCommit,
         EndCommit, ReleaseLease, Exit, At
<1>6. CASE GatewayCrash
  BY <1>6, IdleIsOK DEF GatewayCrash
<1>7. ASSUME UNCHANGED req PROVE FALSE
  BY <1>2, <1>7
<1>8. ASSUME NEW p \in Probes, ProbeStart(p) \/ ProbeEnds(p) PROVE UNCHANGED req
  BY <1>8 DEF ProbeStart, ProbeEnds, ProbeStep
<1>9. CASE BeginDrain \/ Resume \/ Activate \/ GatewayStart \/ ClockTick
  BY <1>7, <1>9 DEF BeginDrain, Resume, Activate, GatewayStart, ClockTick, gateVars
<1> QED BY <1>4, <1>5, <1>6, <1>7, <1>8, <1>9 DEF GatewayNext

\* A request that was cancelled before its answer leaves the health of every
\* route as it was (record_cancelled for a business ticket).
THEOREM CancelsAreHarmless == GatewaySpec => CancelKeepsHealth
<1>1. GatewayInv /\ [GatewayNext]_allVars => [CancelledKeepsRoutes]_allVars
  <2> SUFFICES ASSUME GatewayInv, GatewayNext, NEW r \in Requests,
                      req[r].pc = "report", req'[r].pc = "cleanup",
                      req[r].ending.end = "cancelled",
                      NEW v \in Live \cap Live'
               PROVE  routes'[v] = routes[v]
    BY DEF CancelledKeepsRoutes
  <2>1. Report(r)
    BY OnlyReportReports
  <2> DEFINE t == CurrentTicket(r)
  <2>2. t.signal = "business"
    BY CurrentTicketIsHeld
  <2>3. UNCHANGED vars \/ Reported(r, t)
    BY <2>1 DEF Report
  <2> HIDE DEF t
  <2>4. CASE UNCHANGED vars
    BY <2>4 DEF vars
  <2>5. CASE Reported(r, t)
    <3>1. RecordCancelled(t)
      BY <2>5 DEF Reported, BreakerKind
    <3>2. t \in active
      BY <2>5, ReportedSettles
    <3>3. ~routes[t.version].actionRequired
      BY <2>2, <3>2 DEF GatewayInv, RegistryInv, EvidenceInv
    <3>4. Abandon(t)
      BY <3>1, <3>3 DEF RecordCancelled
    <3>5. routes' = Observed(t, routes[t.version])
      BY <3>4 DEF Abandon
    <3> QED BY <3>5 DEF Observed, Without, Live
  <2> QED BY <2>3, <2>4, <2>5
<1> QED BY <1>1, GatewayHolds, PTL DEF GatewaySpec, CancelKeepsHealth

-----------------------------------------------------------------------------
(* The contract *)

\* The step of a handler, as the contract sees it.
LEMMA ContractView ==
    ASSUME GatewayInv, NEW r \in Requests, NEW q, req' = [req EXCEPT ![r] = q]
    PROVE  /\ [s \in Requests |-> Phase(req'[s])]
                 = [[s \in Requests |-> Phase(req[s])] EXCEPT ![r] = Phase(q)]
           /\ [s \in Requests |-> Tries(req'[s])]
                 = [[s \in Requests |-> Tries(req[s])] EXCEPT ![r] = Tries(q)]
<1>1. req \in [Requests -> Handler]
  BY DEF GatewayInv, GateTypeOK
<1>2. req'[r] = q /\ \A s \in Requests : s # r => req'[s] = req[s]
  BY <1>1
<1>3. \A s \in Requests : /\ Phase(req'[s]) = (IF s = r THEN Phase(q) ELSE Phase(req[s]))
                          /\ Tries(req'[s]) = (IF s = r THEN Tries(q) ELSE Tries(req[s]))
  BY <1>2
<1>4. [s \in Requests |-> Phase(req'[s])]
         = [[s \in Requests |-> Phase(req[s])] EXCEPT ![r] = Phase(q)]
  BY <1>3
<1>5. [s \in Requests |-> Tries(req'[s])]
         = [[s \in Requests |-> Tries(req[s])] EXCEPT ![r] = Tries(q)]
  BY <1>3
<1> QED BY <1>4, <1>5

\* A handler that neither tries a route nor answers moves unseen,
LEMMA Unseen ==
    ASSUME GatewayInv, NEW r \in Requests, NEW q, Step(r, q),
           req[r].pc # "idle", q.pc # "idle",
           q.commit = req[r].commit, q.tried = req[r].tried
    PROVE  UNCHANGED RC!contractVars
<1>1. Phase(q) = Phase(req[r]) /\ Tries(q) = Tries(req[r])
  BY DEF Phase, Tries
<1>2. /\ [s \in Requests |-> Phase(req'[s])]
            = [[s \in Requests |-> Phase(req[s])] EXCEPT ![r] = Phase(q)]
      /\ [s \in Requests |-> Tries(req'[s])]
            = [[s \in Requests |-> Tries(req[s])] EXCEPT ![r] = Tries(q)]
  BY ContractView DEF Step
<1> QED BY <1>1, <1>2 DEF RC!contractVars

\* which is what most of its steps are.
LEMMA QuietSteps ==
    ASSUME GatewayInv, NEW r \in Requests,
           \/ Disconnect(r) \/ ReadBody(r) \/ Refuse(r) \/ LeaseRouter(r)
           \/ PlanFails(r) \/ PlanRoutes(r)
           \/ SkipRoute(r) \/ TryRaises(r) \/ RoutesExhausted(r)
           \/ (\E e \in Endings : AttemptEnds(r, e))
           \/ Report(r) \/ Cleanup(r) \/ ReleaseLease(r)
    PROVE  UNCHANGED RC!contractVars
<1>1. req[r] \in Handler
  BY DEF GatewayInv, GateTypeOK
<1> SUFFICES \E q : /\ Step(r, q) /\ req[r].pc # "idle" /\ q.pc # "idle"
                    /\ q.commit = req[r].commit /\ q.tried = req[r].tried
  BY Unseen
<1> DEFINE Same(q) == q.pc # "idle" /\ q.commit = req[r].commit /\ q.tried = req[r].tried
<1>2. ASSUME NEW w, Verdict(r, w), req[r].pc # "idle"
      PROVE  \E q : Step(r, q) /\ req[r].pc # "idle" /\ Same(q)
  <2> DEFINE q == Ended(req[r], w)
  <2>1. Step(r, q)
    BY <1>2 DEF Verdict
  <2>2. Same(q)
    BY <1>1 DEF Handler, Ended
  <2> HIDE DEF q
  <2> QED BY <1>2, <2>1, <2>2
<1>3. CASE Disconnect(r)
  <2> DEFINE q == [req[r] EXCEPT !.cancelled = TRUE]
  <2>1. Step(r, q) /\ req[r].pc # "idle"
    BY <1>3 DEF Disconnect, Alive
  <2>2. Same(q)
    BY <1>1, <2>1 DEF Handler
  <2> HIDE DEF q
  <2> QED BY <2>1, <2>2
<1>4. CASE Refuse(r)
  <2> DEFINE q == [req[r] EXCEPT !.pc = "commit", !.verdict = "error"]
  <2>1. Step(r, q) /\ req[r].pc # "idle"
    BY <1>4 DEF Refuse, At
  <2>2. Same(q)
    BY <1>1 DEF Handler
  <2> HIDE DEF q
  <2> QED BY <2>1, <2>2
<1>5. CASE LeaseRouter(r)
  <2> DEFINE q == [req[r] EXCEPT !.pc = "planning", !.versions = current]
  <2>1. Step(r, q) /\ req[r].pc # "idle"
    BY <1>5 DEF LeaseRouter, At
  <2>2. Same(q)
    BY <1>1 DEF Handler
  <2> HIDE DEF q
  <2> QED BY <2>1, <2>2
<1>6. CASE PlanFails(r) \/ TryRaises(r) \/ RoutesExhausted(r)
  <2>1. req[r].pc # "idle" /\ \E w : Verdict(r, w)
    BY <1>6 DEF PlanFails, TryRaises, RoutesExhausted, At
  <2> QED BY <1>2, <2>1
<1>7. CASE PlanRoutes(r)
  <2> DEFINE q == [req[r] EXCEPT !.pc = "routing", !.plan = Planned(req[r].versions)]
  <2>1. Step(r, q) /\ req[r].pc # "idle"
    BY <1>7 DEF PlanRoutes, At
  <2>2. Same(q)
    BY <1>1 DEF Handler
  <2> HIDE DEF q
  <2> QED BY <2>1, <2>2
<1>8. CASE SkipRoute(r)
  <2> DEFINE q == [req[r] EXCEPT !.plan = Tail(@)]
  <2>1. (Step(r, q) \/ Verdict(r, "error")) /\ req[r].pc # "idle"
    BY <1>8 DEF SkipRoute, At
  <2>2. Same(q)
    BY <1>1, <2>1 DEF Handler
  <2> HIDE DEF q
  <2> QED BY <1>2, <2>1, <2>2
<1>9. ASSUME NEW e \in Endings, AttemptEnds(r, e)
      PROVE  \E q : Step(r, q) /\ req[r].pc # "idle" /\ Same(q)
  <2>1. PICK ran, charge, double :
           Step(r, [req[r] EXCEPT !.pc = "report", !.ending = e, !.ran = ran,
                                  !.charge = charge, !.double = double])
    BY <1>9, Zenon DEF AttemptEnds
  <2> DEFINE q == [req[r] EXCEPT !.pc = "report", !.ending = e, !.ran = ran,
                                 !.charge = charge, !.double = double]
  <2>2. Same(q)
    BY <1>1 DEF Handler
  <2>3. Step(r, q) /\ req[r].pc # "idle"
    BY <1>9, <2>1 DEF AttemptEnds, At
  <2> HIDE DEF q
  <2> QED BY <2>2, <2>3
<1>10. CASE Report(r)
  <2> DEFINE q == [req[r] EXCEPT !.pc = "routing", !.plan = Tail(@)]
  <2>1. ((\E w : Verdict(r, w)) \/ Step(r, q)) /\ req[r].pc # "idle"
    BY <1>10 DEF Report, AfterReport, At
  <2>2. Same(q)
    BY <1>1 DEF Handler
  <2> HIDE DEF q
  <2> QED BY <1>2, <2>1, <2>2
<1>11. CASE Cleanup(r)
  <2>1. req[r].pc # "idle"
    BY <1>11 DEF Cleanup, At
  <2>2. ASSUME NEW t, Step(r, [req[r] EXCEPT !.tickets = @ \ {t}])
        PROVE  \E q : Step(r, q) /\ req[r].pc # "idle" /\ Same(q)
    <3> DEFINE q == [req[r] EXCEPT !.tickets = @ \ {t}]
    <3>1. Same(q) /\ Step(r, q)
      BY <1>1, <2>1, <2>2 DEF Handler
    <3> HIDE DEF q
    <3> QED BY <2>1, <3>1
  <2>3. ASSUME Step(r, Cleaned(r))
        PROVE  \E q : Step(r, q) /\ req[r].pc # "idle" /\ Same(q)
    <3>1. Same(Cleaned(r))
      BY <1>1 DEF Handler, Cleaned
    <3> QED BY <2>1, <2>3, <3>1
  <2> QED BY <1>11, <2>2, <2>3 DEF Cleanup
<1>13. CASE ReadBody(r)
  <2> DEFINE q == [req[r] EXCEPT !.pc = "admitted"]
  <2>1. Step(r, q) /\ req[r].pc # "idle"
    BY <1>13 DEF ReadBody, At
  <2>2. Same(q)
    BY <1>1 DEF Handler
  <2> HIDE DEF q
  <2> QED BY <2>1, <2>2
<1>12. CASE ReleaseLease(r)
  <2> DEFINE q == [req[r] EXCEPT !.pc = "exit", !.versions = {}]
  <2>1. Step(r, q) /\ req[r].pc # "idle"
    BY <1>12 DEF ReleaseLease, At
  <2>2. Same(q)
    BY <1>1 DEF Handler
  <2> HIDE DEF q
  <2> QED BY <2>1, <2>2
<1> QED BY <1>3, <1>4, <1>5, <1>6, <1>7, <1>8, <1>9, <1>10, <1>11, <1>12, <1>13

\* An attempt is the first on its route, and the primary's comes first.
LEMMA TryRouteContract ==
    ASSUME GatewayInv, NEW r \in Requests, TryRoute(r)
    PROVE  UNCHANGED RC!contractVars \/ \E role \in {"primary", "backup"} : RC!Try(r, role)
<1> DEFINE v == Head(req[r].plan)
           pc == IF req[r].cancelled THEN "report" ELSE "running"
           end == IF req[r].cancelled THEN NotSent ELSE NotEnded
           T == req[r].tickets \cup {NewTicket(v, r, FALSE, "business")}
           a == Append(req[r].tried, v)
           q == [req[r] EXCEPT !.pc = pc, !.ending = end, !.tickets = T, !.tried = a]
           e == Ended(req[r], "error")
           role == IF IsPrimary(v) THEN "primary" ELSE "backup"
<1>1. req[r].pc = "routing" /\ req[r].plan # << >> /\ (Step(r, e) \/ Step(r, q))
  BY DEF TryRoute, At, Verdict
<1>2. HandlerOK(r, req[r]) /\ req[r] \in Handler
  BY HandlersAreOK DEF HandlerOK
<1>3. CASE Step(r, e)
  <2>1. e.pc # "idle" /\ e.commit = req[r].commit /\ e.tried = req[r].tried
    BY <1>2 DEF Handler, Ended
  <2> HIDE DEF e
  <2> QED BY <1>1, <1>3, <2>1, Unseen
<1>4. CASE Step(r, q)
  <2>1. pc # "idle"
    OBVIOUS
  <2> HIDE DEF pc, end, T, a
  <2>2. q.pc # "idle" /\ q.commit = req[r].commit /\ q.tried = a
    BY <1>2, <2>1 DEF Handler
  <2>3. Step(r, q)
    BY <1>4
  <2> HIDE DEF q
  <2>4. /\ OnlyPrimary(req[r]) /\ (OnPrimary(req[r]) => req[r].tried = << >>)
        /\ req[r].commit = "uncommitted" /\ (OnPrimary(req[r]) <=> IsPrimary(v))
    BY <1>1, <1>2 DEF HandlerOK, Routes, Answers, OnPrimary
  <2>5. Phase(q) = "open" /\ Phase(req[r]) = "open"
    BY <1>1, <2>2, <2>4 DEF Phase
  <2>6. Tries(q) = Tries(req[r]) \cup {role}
    <3>1. v \in Versions /\ req[r].tried \in Seq(Versions)
      <4>1. v \in req[r].versions
        BY <1>1, <1>2, HeadOfPlan
      <4> QED BY <1>2, <4>1 DEF Handler
    <3> HIDE DEF v
    <3>2. /\ DOMAIN a = 1..(Len(req[r].tried) + 1) /\ Len(req[r].tried) \in Nat
          /\ DOMAIN req[r].tried = 1..Len(req[r].tried)
          /\ \A i \in 1..Len(req[r].tried) : a[i] = req[r].tried[i]
          /\ a[Len(req[r].tried) + 1] = v
      BY <3>1, AppendFacts DEF a
    <3> DEFINE n == Len(req[r].tried)
    <3>3. \A i \in DOMAIN a : i \in 1..n \/ i = n + 1
      BY <3>2
    <3>4. n + 1 \in DOMAIN a /\ \A i \in 1..n : i \in DOMAIN a
      BY <3>2
    <3> QED BY <2>2, <3>2, <3>3, <3>4 DEF Tries
  <2>7. role \notin Tries(req[r]) /\ (role = "primary" => Tries(req[r]) = {})
    <3>1. CASE IsPrimary(v)
      <4>1. DOMAIN req[r].tried = {}
        BY <2>4, <3>1
      <4> QED BY <4>1 DEF Tries
    <3>2. CASE ~IsPrimary(v)
      BY <2>4, <3>2 DEF Tries, OnlyPrimary
    <3> QED BY <3>1, <3>2
  <2>8. role \in {"primary", "backup"}
    OBVIOUS
  <2> HIDE DEF role
  <2> DEFINE ph == [s \in Requests |-> Phase(req[s])]
             tr == [s \in Requests |-> Tries(req[s])]
  <2>9. /\ [s \in Requests |-> Phase(req'[s])] = [ph EXCEPT ![r] = Phase(q)]
        /\ [s \in Requests |-> Tries(req'[s])] = [tr EXCEPT ![r] = Tries(q)]
    BY <2>3, ContractView DEF Step
  <2>10. ph[r] = "open" /\ tr[r] = Tries(req[r])
    BY <2>5
  <2>11. [ph EXCEPT ![r] = Phase(q)] = ph
    BY <2>5
  <2>12. RC!Try(r, role)
    BY <2>6, <2>7, <2>9, <2>10, <2>11 DEF RC!Try
  <2> QED BY <2>8, <2>12
<1> QED BY <1>1, <1>3, <1>4

LEMMA AdmitContract ==
    ASSUME GatewayInv, NEW r \in Requests, Admit(r) PROVE RC!Take(r)
<1> DEFINE ph == [s \in Requests |-> Phase(req[s])]
           tr == [s \in Requests |-> Tries(req[s])]
<1>1. PICK q : /\ req' = [req EXCEPT ![r] = q]
               /\ \/ \E risk \in Risks : q = [Idle EXCEPT !.pc = "reading", !.risk = risk]
                  \/ q = [Idle EXCEPT !.pc = "commit", !.verdict = "error"]
  BY DEF Admit
<1>2. q.pc # "idle" /\ q.commit = "uncommitted" /\ q.tried = << >>
  BY <1>1 DEF Idle
<1>3. req[r] = Idle
  BY HandlersAreOK DEF Admit, HandlerOK, Holds
<1>4. req' = [req EXCEPT ![r] = q]
  BY <1>1
<1>5. Phase(q) = "open" /\ Phase(req[r]) = "idle"
  BY <1>2, <1>3 DEF Phase, Idle
<1>6. Tries(q) = Tries(req[r])
  <2>1. Idle.tried = << >>
    BY DEF Idle
  <2> QED BY <1>2, <1>3, <2>1 DEF Tries
<1>7. /\ [s \in Requests |-> Phase(req'[s])] = [ph EXCEPT ![r] = Phase(q)]
      /\ [s \in Requests |-> Tries(req'[s])] = [tr EXCEPT ![r] = Tries(q)]
  BY <1>4, ContractView
<1>8. ph[r] = "idle" /\ [tr EXCEPT ![r] = Tries(q)] = tr
  BY <1>5, <1>6
<1> QED BY <1>5, <1>7, <1>8 DEF RC!Take

\* The answer begins once, and ends with what the handler knows.
LEMMA CommitContract ==
    ASSUME GatewayInv, NEW r \in Requests, StartCommit(r) \/ EndCommit(r)
    PROVE  UNCHANGED RC!contractVars \/ RC!BeginAnswer(r) \/ RC!EndAnswer(r)
<1> DEFINE ph == [s \in Requests |-> Phase(req[s])]
           tr == [s \in Requests |-> Tries(req[s])]
           u == [req[r] EXCEPT !.pc = "release"]
           Q(pc, c) == [req[r] EXCEPT !.pc = pc, !.commit = c]
<1>1. HandlerOK(r, req[r]) /\ req[r] \in Handler
  BY HandlersAreOK DEF HandlerOK
<1>2. ASSUME NEW pc \in {"committing", "release"}, NEW c, c # "uncommitted",
             Step(r, Q(pc, c))
      PROVE  /\ [s \in Requests |-> Phase(req'[s])] = [ph EXCEPT ![r] = c]
             /\ [s \in Requests |-> Tries(req'[s])] = tr
  <2> DEFINE q == Q(pc, c)
  <2>1. q.pc # "idle" /\ q.commit = c /\ q.tried = req[r].tried
    BY <1>1 DEF Handler
  <2>2. Step(r, q)
    BY <1>2
  <2> HIDE DEF q
  <2>3. Phase(q) = c /\ Tries(q) = Tries(req[r])
    BY <1>2, <2>1 DEF Phase, Tries
  <2>4. /\ [s \in Requests |-> Phase(req'[s])] = [ph EXCEPT ![r] = Phase(q)]
        /\ [s \in Requests |-> Tries(req'[s])] = [tr EXCEPT ![r] = Tries(q)]
    BY <2>2, ContractView DEF Step
  <2>5. [tr EXCEPT ![r] = Tries(q)] = tr
    BY <2>3
  <2> QED BY <2>3, <2>4, <2>5
<1>3. CASE StartCommit(r)
  <2>1. req[r].pc = "commit" /\ (Step(r, u) \/ Step(r, Q("committing", "committing")))
    BY <1>3 DEF StartCommit, At
  <2>2. CASE Step(r, u)
    <3>1. u.pc # "idle" /\ u.commit = req[r].commit /\ u.tried = req[r].tried
      BY <1>1 DEF Handler
    <3> HIDE DEF u
    <3> QED BY <2>1, <2>2, <3>1, Unseen
  <2>3. CASE Step(r, Q("committing", "committing"))
    <3>1. /\ [s \in Requests |-> Phase(req'[s])] = [ph EXCEPT ![r] = "committing"]
          /\ [s \in Requests |-> Tries(req'[s])] = tr
      BY <1>2, <2>3
    <3>2. ph[r] = "open"
      BY <1>1, <2>1 DEF HandlerOK, Answers, Phase
    <3> QED BY <3>1, <3>2 DEF RC!BeginAnswer
  <2> QED BY <2>1, <2>2, <2>3
<1>4. CASE EndCommit(r)
  <2> DEFINE c == IF req[r].verdict = "complete" THEN "delivered" ELSE "error_committed"
  <2>1. req[r].pc = "committing"
        /\ (Step(r, Q("release", c)) \/ Step(r, Q("release", "delivery_uncertain")))
    BY <1>4 DEF EndCommit, At
  <2>2. ph[r] = "committing"
    BY <1>1, <2>1 DEF HandlerOK, Answers, Phase
  <2>3. req[r].verdict = "complete" => Tries(req[r]) # {}
    <3> SUFFICES ASSUME req[r].verdict = "complete" PROVE Tries(req[r]) # {}
      OBVIOUS
    <3>1. req[r].tried \in Seq(Versions) /\ req[r].tried # << >>
      BY <1>1 DEF HandlerOK, Answers, Handler
    <3>2. 1 \in DOMAIN req[r].tried
      BY <3>1
    <3> QED BY <3>2 DEF Tries
  <2>4. ASSUME NEW w \in {"delivered", "error_committed", "delivery_uncertain"},
               Step(r, Q("release", w)), w = "delivered" => Tries(req[r]) # {}
        PROVE  RC!EndAnswer(r)
    <3>1. /\ [s \in Requests |-> Phase(req'[s])] = [ph EXCEPT ![r] = w]
          /\ [s \in Requests |-> Tries(req'[s])] = tr
      BY <1>2, <2>4
    <3>2. tr[r] = Tries(req[r])
      OBVIOUS
    <3> QED BY <2>2, <2>4, <3>1, <3>2 DEF RC!EndAnswer, RC!Answered
  <2> QED BY <2>1, <2>3, <2>4
<1> QED BY <1>3, <1>4

LEMMA ExitContract ==
    ASSUME GatewayInv, NEW r \in Requests, Exit(r) PROVE RC!LetGo(r)
<1> DEFINE ph == [s \in Requests |-> Phase(req[s])]
           tr == [s \in Requests |-> Tries(req[s])]
<1>1. req[r].pc = "exit" /\ req' = [req EXCEPT ![r] = Idle]
  BY DEF Exit, At
<1>2. HandlerOK(r, req[r]) /\ req[r] \in Handler
  BY HandlersAreOK DEF HandlerOK
<1>3. ph[r] \in RC!Answered \cup {"open"}
  <2>1. req[r].commit \in {"uncommitted", "delivered", "error_committed",
                           "delivery_uncertain"}
    BY <1>1, <1>2 DEF HandlerOK, Answers, Handler
  <2> QED BY <1>1, <2>1 DEF Phase, RC!Answered
<1>4. Phase(Idle) = "idle" /\ Tries(Idle) = {}
  <2>1. Idle.pc = "idle" /\ Idle.tried = << >>
    BY DEF Idle
  <2> QED BY <2>1 DEF Phase, Tries
<1>5. /\ [s \in Requests |-> Phase(req'[s])] = [ph EXCEPT ![r] = Phase(Idle)]
      /\ [s \in Requests |-> Tries(req'[s])] = [tr EXCEPT ![r] = Tries(Idle)]
  BY <1>1, ContractView
<1> QED BY <1>3, <1>4, <1>5 DEF RC!LetGo

\* The gateway keeps the safety part of its contract with the client and the
\* upstreams: one attempt per route and the primary's first, one answer, no
\* attempt once the answer has begun, and nothing of a request is left when it
\* is let go.
THEOREM ImplementsContract == GatewaySpec => RC!ContractSafety
<1>1. Phase(Idle) = "idle" /\ Tries(Idle) = {}
  <2>1. Idle.pc = "idle" /\ Idle.tried = << >>
    BY DEF Idle
  <2> QED BY <2>1 DEF Phase, Tries
<1>2. GatewayInit => RC!ContractInit
  BY <1>1 DEF GatewayInit, RC!ContractInit
<1>3. GatewayInv /\ [GatewayNext]_allVars => [RC!ContractNext]_RC!contractVars
  <2> SUFFICES ASSUME GatewayInv, [GatewayNext]_allVars
               PROVE  RC!ContractNext \/ UNCHANGED RC!contractVars
    OBVIOUS
  <2>1. ASSUME NEW r \in Requests, Admit(r) \/ Disconnect(r) \/ RequestStep(r) \/ ClientStep(r)
        PROVE  RC!ContractNext \/ UNCHANGED RC!contractVars
    <3>1. CASE Admit(r)
      BY <3>1, AdmitContract DEF RC!ContractNext
    <3>2. CASE TryRoute(r)
      BY <3>2, TryRouteContract DEF RC!ContractNext
    <3>3. CASE StartCommit(r) \/ EndCommit(r)
      BY <3>3, CommitContract DEF RC!ContractNext
    <3>4. CASE Exit(r)
      BY <3>4, ExitContract DEF RC!ContractNext
    <3>5. CASE \/ Disconnect(r) \/ ReadBody(r) \/ Refuse(r) \/ LeaseRouter(r) \/ PlanFails(r)
               \/ PlanRoutes(r) \/ SkipRoute(r) \/ TryRaises(r) \/ RoutesExhausted(r)
               \/ (\E e \in Endings : AttemptEnds(r, e))
               \/ Report(r) \/ Cleanup(r) \/ ReleaseLease(r)
      BY <3>5, QuietSteps
    <3> QED BY <2>1, <3>1, <3>2, <3>3, <3>4, <3>5 DEF RequestStep, ClientStep
  <2>2. ASSUME UNCHANGED req PROVE UNCHANGED RC!contractVars
    BY <2>2 DEF RC!contractVars
  <2>3. ASSUME NEW p \in Probes, ProbeStart(p) \/ ProbeEnds(p) PROVE UNCHANGED req
    BY <2>3 DEF ProbeStart, ProbeEnds, ProbeStep
  <2>4. CASE BeginDrain \/ Resume \/ Activate \/ GatewayStart \/ ClockTick
             \/ UNCHANGED allVars
    BY <2>2, <2>4 DEF BeginDrain, Resume, Activate, GatewayStart, ClockTick, gateVars,
                      allVars
  <2>5. CASE GatewayCrash
    BY <1>1, <2>5 DEF GatewayCrash, RC!ContractNext, RC!Lose
  <2> QED BY <2>1, <2>2, <2>3, <2>4, <2>5 DEF GatewayNext
<1> QED BY <1>2, <1>3, GatewayHolds, PTL DEF GatewaySpec, RC!ContractSafety

-----------------------------------------------------------------------------
(* The gateway as the registry's caller *)

\* Every step of the gateway calls one operation of the registry, with a version
\* the registry has and a ticket it has issued, or leaves it alone.
LEMMA CallersOperate ==
    ASSUME GatewayInv, [GatewayNext]_allVars PROVE [Operation]_vars
<1>1. ASSUME NEW r \in Requests, LeaseRouter(r) PROVE Operation
  <2>1. Pin(current) /\ current \in SUBSET Live
    BY <1>1 DEF LeaseRouter, GatewayInv, RegistryInv, Inv, TypeOK
  <2> QED BY <2>1 DEF Operation
<1>2. ASSUME NEW r \in Requests, req[r].pc = "routing", req[r].plan # << >>
      PROVE  Head(req[r].plan) \in Live /\ r \in Attempts
  <2>1. HandlerOK(r, req[r]) /\ req[r] \in Handler
    BY HandlersAreOK DEF HandlerOK
  <2>2. Head(req[r].plan) \in req[r].versions
    BY <1>2, <2>1, HeadOfPlan
  <2> QED BY <2>2, LeasedIsLive, RequestAssumption
<1>3. ASSUME NEW r \in Requests, TryRoute(r) PROVE Operation
  <2>1. /\ req[r].pc = "routing" /\ req[r].plan # << >>
        /\ Acquire(Head(req[r].plan), r, FALSE, "business")
    BY <1>3 DEF TryRoute, At
  <2> QED BY <1>2, <2>1 DEF Operation, Signals
<1>4. ASSUME NEW r \in Requests, SkipRoute(r) PROVE [Operation]_vars
  <2>1. /\ req[r].pc = "routing" /\ req[r].plan # << >>
        /\ UNCHANGED vars \/ AcquireBusy(Head(req[r].plan), FALSE)
    BY <1>4 DEF SkipRoute, At
  <2> QED BY <1>2, <2>1 DEF Operation
<1>5. ASSUME NEW r \in Requests, Report(r) PROVE [Operation]_vars
  <2> DEFINE t == CurrentTicket(r)
  <2>1. Reported(r, t) \/ UNCHANGED vars
    BY <1>5 DEF Report
  <2>2. ASSUME Reported(r, t) PROVE t \in active /\ Settles(t)
    BY <2>2, ReportedSettles
  <2> QED BY <2>1, <2>2 DEF Operation
<1>6. ASSUME NEW r \in Requests, Cleanup(r) PROVE [Operation]_vars
    BY <1>6 DEF Cleanup, Operation, Settles, Matching
<1>7. ASSUME NEW r \in Requests, ReleaseLease(r) PROVE [Operation]_vars
  <2>1. UNCHANGED vars \/ Release(req[r].versions)
    BY <1>7 DEF ReleaseLease
  <2>2. req[r].versions \in SUBSET Live
    BY LeasedIsLive
  <2> QED BY <2>1, <2>2 DEF Operation
<1>8. ASSUME NEW r \in Requests, RequestStep(r) \/ ClientStep(r) PROVE [Operation]_vars
  <2>1. CASE \/ ReadBody(r) \/ Refuse(r) \/ PlanFails(r) \/ PlanRoutes(r) \/ TryRaises(r) \/ RoutesExhausted(r)
             \/ \E e \in Endings : AttemptEnds(r, e)
             \/ StartCommit(r) \/ EndCommit(r) \/ Exit(r)
    BY <2>1 DEF ReadBody, Refuse, PlanFails, PlanRoutes, TryRaises, RoutesExhausted,
                AttemptEnds, StartCommit, EndCommit, Exit
  <2> QED BY <1>1, <1>3, <1>4, <1>5, <1>6, <1>7, <1>8, <2>1 DEF RequestStep, ClientStep
<1>9. ASSUME NEW r \in Requests, Admit(r) \/ Disconnect(r) PROVE [Operation]_vars
  BY <1>9 DEF Admit, Disconnect
<1>10. ASSUME NEW p \in Probes, ProbeStart(p) PROVE Operation
  <2>1. \E v \in Live : Acquire(v, p, TRUE, "probe") \/ AcquireBusy(v, TRUE)
    BY <1>10 DEF ProbeStart
  <2> QED BY <2>1, RequestAssumption DEF Operation, Signals
<1>11. ASSUME NEW p \in Probes, ProbeEnds(p) PROVE [Operation]_vars
  <2>1. \/ UNCHANGED vars
        \/ \E t \in probe[p].held :
              /\ Matching(t)
              /\ \/ RecordSuccess(t) \/ RecordCancelled(t)
                 \/ FinishFailure(p, t, "action_required")
                 \/ FinishFailure(p, t, "temporary")
    BY <1>11 DEF ProbeEnds
  <2>2. ASSUME NEW t, Matching(t),
               \/ RecordSuccess(t) \/ RecordCancelled(t)
               \/ FinishFailure(p, t, "action_required")
               \/ FinishFailure(p, t, "temporary")
        PROVE  t \in active /\ Settles(t)
    BY <2>2 DEF FinishFailure, Settles, FailureKinds, Matching
  <2> QED BY <2>1, <2>2 DEF Operation
<1>12. CASE BeginDrain \/ Resume
  BY <1>12 DEF BeginDrain, Resume
<1>13. CASE Activate \/ GatewayCrash \/ GatewayStart \/ ClockTick
  BY <1>13 DEF Activate, Reconfigure, GatewayCrash, GatewayStart, ClockTick, Operation
<1>14. CASE UNCHANGED allVars
  BY <1>14 DEF allVars
<1> QED BY <1>8, <1>9, <1>10, <1>11, <1>12, <1>13, <1>14 DEF GatewayNext

\* The gateway is a client of the registry: what its handlers, probes, activations
\* and crashes do to it is a behaviour of the registry's methods, each called
\* whole and with arguments it accepts.
THEOREM UsesRegistry == GatewaySpec => Init /\ [][Operation]_vars
<1>1. GatewayInit => Init
  BY DEF GatewayInit
<1>2. GatewayInv /\ [GatewayNext]_allVars => [Operation]_vars
  BY CallersOperate
<1> QED BY <1>1, <1>2, GatewayHolds, PTL DEF GatewaySpec

\* So what the registry promises holds while any number of requests and probes
\* share it: no ticket is stale, an unproven route is tried once at a time, a
\* pinned version stays, the document can be read back and an open route recovers.
THEOREM RegistryStaysSafe ==
    GatewaySpec => [](/\ TicketsMatch /\ OneProbePerRoute /\ PinnedVersionsLive
                      /\ DocumentIsSound /\ OpenRouteCanRecover)
<1>1. GatewayInv => /\ TicketsMatch /\ OneProbePerRoute /\ PinnedVersionsLive
                    /\ DocumentIsSound /\ OpenRouteCanRecover
  <2> SUFFICES ASSUME GatewayInv
               PROVE  /\ TicketsMatch /\ OneProbePerRoute /\ PinnedVersionsLive
                      /\ DocumentIsSound /\ OpenRouteCanRecover
    OBVIOUS
  <2>1. Inv /\ SoundInv
    BY DEF GatewayInv, RegistryInv
  <2>2. TicketsMatch /\ PinnedVersionsLive
    BY <2>1 DEF Inv, TicketInv, TicketsMatch
  <2> QED BY <2>1, <2>2, OneProbe, DocumentSound, Recoverable
<1> QED BY <1>1, GatewayHolds, PTL

\* And no request, probe, activation or crash of the gateway makes a route lose
\* the alarm or the cooldown its failures have earned it.
THEOREM GatewayKeepsEvidence == GatewaySpec => EvidenceKept
<1>1. GatewayInv /\ [GatewayNext]_allVars => [AlarmKept]_vars /\ [CooldownKept]_vars
  <2> SUFFICES ASSUME GatewayInv, [GatewayNext]_allVars
               PROVE  [AlarmKept]_vars /\ [CooldownKept]_vars
    OBVIOUS
  <2>1. Inv /\ SoundInv /\ EvidenceInv
    BY DEF GatewayInv, RegistryInv
  <2>2. [Operation]_vars
    BY CallersOperate
  <2> QED BY <2>1, <2>2, OperationKeepsEvidence
<1> QED BY <1>1, GatewayHolds, PTL
       DEF GatewaySpec, EvidenceKept, ActionRequiredHeld, CooldownServed

=============================================================================
