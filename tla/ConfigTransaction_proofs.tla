----------------------- MODULE ConfigTransaction_proofs -----------------------
(***************************************************************************)
(* Proofs about ConfigTransaction, for every set of documents and every    *)
(* bound.                                                                  *)
(***************************************************************************)
EXTENDS ConfigTransaction, TLAPS

\* What the provers need of the constants.
LEMMA Sentinels ==
    /\ Missing \notin Files /\ Garbled \notin Files
    /\ Missing \notin Envelopes /\ Garbled \notin Envelopes
    /\ Missing \notin Candidates
    /\ Missing # Garbled /\ TTL \in Nat /\ TTL > 0
BY ConfigAssumption

LEMMA CanonicalFile == \A c \in Configs : /\ Canonical(c) \in Files
                                          /\ Canonical(c).cfg = c
BY DEF Canonical, Files

\* The invariant holds at the start.
LEMMA InitInv == Init => Inv
<1> SUFFICES ASSUME Init PROVE Inv
  OBVIOUS
<1> USE Sentinels
<1>1. TypeOK
  <2>1. accepting \in BOOLEAN /\ replaced \in BOOLEAN /\ foreign \in BOOLEAN
    BY Zenon DEF Init
  <2>2. file \in Files
    BY DEF Init
  <2> QED BY <2>1, <2>2, ConfigAssumption DEF Init, TypeOK
<1>2. MemoryInv /\ ReplacedInv /\ OwnStepsKeepFile /\ AckedInv
  BY DEF Init, MemoryInv, ReplacedInv, OwnStepsKeepFile, AckedInv, Operating, Handling
<1>3. StagedOnBase /\ StagedBounded /\ AbortIsFinal /\ PendingInv
  BY DEF Init, StagedOnBase, StagedBounded, AbortIsFinal, PendingInv
<1> QED BY <1>1, <1>2, <1>3 DEF Inv

\* Withdrawing the candidate, or not, keeps the invariant: this is all that a
\* refused operation, an expiry and status do.
LEMMA WithdrawInv ==
    ASSUME Inv, prepared' \in {prepared, Missing}, pending' \in {pending, Missing},
           ~replaced,
           UNCHANGED <<lifecycle, file, config, fileSha, served, replaced, wall,
                       history>>
    PROVE  Inv'
BY Sentinels DEF Inv, TypeOK, MemoryInv, ReplacedInv, OwnStepsKeepFile, AckedInv,
    StagedOnBase, StagedBounded, AbortIsFinal, PendingInv, Operating, Handling,
    lifecycle, history

LEMMA ExpireWithdraws ==
    ASSUME Expire
    PROVE  prepared' \in {prepared, Missing} /\ pending' \in {pending, Missing}
BY DEF Expire, Discard, Unlink

LEMMA PrepareInv == ASSUME Inv, NEW c \in Configs, PrepareConfig(c) PROVE Inv'
<1> USE Sentinels DEF Operating, Handling, lifecycle
<1>1. CASE /\ file = fileSha /\ Acceptable(c, config)
           /\ pending' = Envelope(c)
           /\ prepared' = [env |-> Envelope(c), left |-> TTL]
           /\ withdrawn' = withdrawn \ {c}
  <2>1. Envelope(c) \in Envelopes
    BY <1>1 DEF Inv, PrepareConfig, Envelope, Envelopes, MemoryInv, TypeOK, Configs
  <2>2. TypeOK'
    BY <1>1, <2>1 DEF Inv, PrepareConfig, TypeOK, Candidates
  <2>3. MemoryInv' /\ ReplacedInv' /\ OwnStepsKeepFile' /\ AckedInv'
    BY <1>1 DEF Inv, PrepareConfig, MemoryInv, ReplacedInv, OwnStepsKeepFile,
        AckedInv
  <2>4. StagedOnBase' /\ StagedBounded' /\ AbortIsFinal' /\ PendingInv'
    BY <1>1 DEF Inv, PrepareConfig, StagedOnBase, StagedBounded, AbortIsFinal,
        PendingInv, Acceptable, Envelope
  <2> QED BY <2>2, <2>3, <2>4 DEF Inv
<1>2. CASE Expire /\ UNCHANGED withdrawn
  BY <1>2, ExpireWithdraws, WithdrawInv DEF PrepareConfig, history
<1> QED BY <1>1, <1>2 DEF PrepareConfig

\* activate: the four ways that leave the file alone ...
LEMMA ActivateAnswersInv ==
    ASSUME Inv, ActivateAgain \/ ActivateNothing \/ ActivateRefused PROVE Inv'
<1> USE Sentinels DEF Operating, Handling
<1>1. CASE ActivateAgain
  BY <1>1 DEF Inv, ActivateAgain, Reported, NotBefore, TypeOK, MemoryInv, ReplacedInv,
    OwnStepsKeepFile, AckedInv, StagedOnBase, StagedBounded, AbortIsFinal,
    PendingInv, lifecycle
<1>2. CASE ActivateNothing
  BY <1>2, ExpireWithdraws, WithdrawInv DEF ActivateNothing
<1>3. CASE ActivateRefused
  BY <1>3, WithdrawInv DEF ActivateRefused, Discard, Unlink
<1> QED BY <1>1, <1>2, <1>3

\* ... the replacement of the file ...
LEMMA ActivateReplacesInv == ASSUME Inv, ActivateReplaces PROVE Inv'
<1> USE Sentinels DEF Operating, Handling, lifecycle, history
<1>1. prepared # Missing /\ prepared.env.cfg \in Configs
  BY DEF Inv, ActivateReplaces, Unexpired, Expired, TypeOK, Candidates, Envelopes
<1>2. file' \in Files /\ file'.cfg = prepared.env.cfg
  BY <1>1, CanonicalFile DEF ActivateReplaces
<1>3. TypeOK' /\ MemoryInv' /\ ReplacedInv' /\ OwnStepsKeepFile'
  BY <1>1, <1>2 DEF Inv, ActivateReplaces, TypeOK, MemoryInv, ReplacedInv,
    OwnStepsKeepFile, Canonical
<1>4. AckedInv'
  <2> SUFFICES ASSUME acked # Missing PROVE AckedInv'
    BY DEF ActivateReplaces, AckedInv
  <2>1. config \in Configs /\ acked \in Configs /\ NotBefore(config, acked)
    BY DEF Inv, ActivateReplaces, MemoryInv, TypeOK, AckedInv
  <2>2. prepared.env.cfg.rev > config.rev
    BY <1>1 DEF Inv, StagedOnBase, Acceptable
  <2>3. prepared.env.cfg.rev > acked.rev
    BY <1>1, <2>1, <2>2 DEF NotBefore, Configs
  <2> QED BY <1>2, <2>1, <2>3 DEF Inv, ActivateReplaces, AckedInv, NotBefore
<1>5. StagedOnBase' /\ StagedBounded' /\ AbortIsFinal' /\ PendingInv'
  BY DEF Inv, ActivateReplaces, StagedOnBase, StagedBounded, AbortIsFinal, PendingInv
<1> QED BY <1>3, <1>4, <1>5 DEF Inv

\* ... and its three ends.
LEMMA ActivateCommitsInv == ASSUME Inv, ActivateCommits PROVE Inv'
<1> USE Sentinels DEF Operating, Handling, lifecycle
<1>1. prepared # Missing /\ prepared.env.cfg \in Configs
  BY DEF Inv, ActivateCommits, ReplacedInv, TypeOK, Candidates, Envelopes
<1>2. fileSha' \in Files /\ fileSha'.cfg = prepared.env.cfg
  BY <1>1, CanonicalFile DEF ActivateCommits
<1>3. ~foreign => file = fileSha'
  BY DEF Inv, ActivateCommits, ReplacedInv
<1>4. TypeOK' /\ MemoryInv' /\ ReplacedInv' /\ OwnStepsKeepFile'
  BY <1>1, <1>2, <1>3 DEF Inv, ActivateCommits, Reported, Discard, Unlink, TypeOK,
    MemoryInv, ReplacedInv, OwnStepsKeepFile
<1>5. AckedInv'
  BY <1>1, <1>2, <1>3 DEF Inv, ActivateCommits, Reported, AckedInv, NotBefore
<1>6. StagedOnBase' /\ StagedBounded' /\ AbortIsFinal' /\ PendingInv'
  BY DEF Inv, ActivateCommits, Discard, Unlink, StagedOnBase, StagedBounded,
    AbortIsFinal, PendingInv
<1> QED BY <1>4, <1>5, <1>6 DEF Inv

LEMMA ActivateFailsInv ==
    ASSUME Inv, ActivateRollsBack \/ ActivateFailsClosed PROVE Inv'
<1> USE Sentinels DEF Operating, Handling, lifecycle, history
<1>1. prepared # Missing /\ prepared.env.base = fileSha /\ phase # "down"
      /\ fileSha \in Files /\ fileSha.cfg = config
  BY DEF Inv, ActivateRollsBack, ActivateFailsClosed, ReplacedInv, StagedOnBase,
    MemoryInv
<1>2. CASE ActivateRollsBack
  <2>1. TypeOK' /\ MemoryInv' /\ ReplacedInv' /\ OwnStepsKeepFile' /\ AckedInv'
    BY <1>1, <1>2 DEF Inv, ActivateRollsBack, TypeOK, MemoryInv, ReplacedInv,
      OwnStepsKeepFile, AckedInv
  <2>2. StagedOnBase' /\ StagedBounded' /\ AbortIsFinal' /\ PendingInv'
    BY <1>2 DEF Inv, ActivateRollsBack, StagedOnBase, StagedBounded,
      AbortIsFinal, PendingInv
  <2> QED BY <2>1, <2>2 DEF Inv
<1>3. CASE ActivateFailsClosed
  BY <1>1, <1>3 DEF Inv, ActivateFailsClosed, TypeOK, MemoryInv, ReplacedInv,
    OwnStepsKeepFile, AckedInv, StagedOnBase, StagedBounded, AbortIsFinal,
    PendingInv
<1> QED BY <1>2, <1>3

LEMMA AbortInv == ASSUME Inv, NEW c \in Configs, AbortConfig(c) PROVE Inv'
<1>1. CASE Expired /\ Expire /\ UNCHANGED withdrawn
  BY <1>1, ExpireWithdraws, WithdrawInv DEF AbortConfig, history, Operating, Handling
<1>2. ASSUME NEW ok \in BOOLEAN, Discard(ok),
             withdrawn' = IF ok THEN withdrawn \cup {c} ELSE withdrawn
      PROVE  Inv'
  BY <1>2, Sentinels DEF AbortConfig, Discard, Unlink, Inv, TypeOK, MemoryInv,
    ReplacedInv, OwnStepsKeepFile, AckedInv, StagedOnBase, StagedBounded,
    AbortIsFinal, PendingInv, Operating, Handling, lifecycle
<1> QED BY <1>1, <1>2 DEF AbortConfig

LEMMA ReloadInv == ASSUME Inv, Reload PROVE Inv'
<1> USE Sentinels DEF Operating, Handling
<1>1. CASE UNCHANGED <<fileSha, foreign>>
  BY <1>1, ExpireWithdraws, WithdrawInv DEF Reload, history
<1>2. CASE file \in Files /\ Reloadable /\ fileSha' = file /\ foreign' = FALSE
  <2>1. prepared' = Missing /\ pending' \in {pending, Missing}
    BY <1>2 DEF Reload, Reloadable, Expire, Unexpired, Discard, Unlink
  <2> QED
    BY <1>2, <2>1 DEF Reload, Reloadable, Inv, TypeOK, MemoryInv, ReplacedInv,
      OwnStepsKeepFile, AckedInv, StagedOnBase, StagedBounded, AbortIsFinal,
      PendingInv, lifecycle
<1> QED BY <1>1, <1>2 DEF Reload

LEMMA StatusInv == ASSUME Inv, Status PROVE Inv'
BY ExpireWithdraws, WithdrawInv DEF Status, Handling

\* The process.
LEMMA StartInv == ASSUME Inv, Start PROVE Inv'
<1> USE Sentinels DEF Operating, Handling
<1>1. file.cfg \in Configs /\ file \in Files
  BY DEF Start, Files
<1>2. MemoryInv' /\ ReplacedInv' /\ OwnStepsKeepFile' /\ AckedInv' /\ PendingInv'
  BY <1>1 DEF Inv, Start, MemoryInv, ReplacedInv, OwnStepsKeepFile, AckedInv,
    PendingInv
<1>3. CASE prepared' = Missing
  BY <1>1, <1>2, <1>3 DEF Inv, Start, TypeOK, StagedOnBase, StagedBounded, AbortIsFinal
<1>4. CASE /\ pending \in Envelopes /\ Recoverable(pending)
           /\ prepared' = [env |-> pending, left |-> pending.expires - wall]
  <2>1. pending.expires \in Int /\ wall \in Int
    BY <1>4, ConfigAssumption DEF Inv, TypeOK, Candidates, Envelopes
  <2>2. pending.expires - wall \in Nat /\ pending.expires - wall <= TTL + 1
    BY <1>4, <2>1 DEF Recoverable
  <2>3. TypeOK'
    BY <1>1, <1>4, <2>2 DEF Inv, Start, TypeOK, Candidates
  <2>4. StagedOnBase' /\ StagedBounded' /\ AbortIsFinal'
    BY <1>4, <2>2 DEF Inv, Start, Recoverable, Acceptable, StagedOnBase,
      StagedBounded, AbortIsFinal, PendingInv
  <2> QED BY <1>2, <2>3, <2>4 DEF Inv
<1> QED BY <1>3, <1>4 DEF Start

LEMMA LifecycleInv ==
    ASSUME Inv, Drain \/ Resume \/ Stop \/ StopEnds \/ Signal \/ CloseBegins
    PROVE  Inv'
<1>1. /\ phase # "down" /\ ~replaced
      /\ phase' \in {phase, "running", "draining", "stopping"}
      /\ phase' \in {"running", "draining"} => phase \in {"running", "draining"}
      /\ accepting' \in {accepting, TRUE, FALSE}
      /\ stopping' \in {stopping, "no", "drains", "set", "closing"}
      /\ UNCHANGED <<file, pending, config, fileSha, served, prepared, replaced,
                      wall, history>>
  BY DEF Drain, Resume, Stop, StopEnds, Signal, CloseBegins, Operating, Handling
<1>2. accepting' \in BOOLEAN
  BY <1>1, Zenon DEF Inv, TypeOK
<1>3. TypeOK'
  BY <1>1, <1>2 DEF Inv, TypeOK, history
<1>4. MemoryInv' /\ ReplacedInv' /\ OwnStepsKeepFile' /\ AckedInv'
  BY <1>1 DEF Inv, MemoryInv, ReplacedInv, OwnStepsKeepFile, AckedInv, Operating,
    Handling, history
<1>5. StagedOnBase' /\ StagedBounded' /\ AbortIsFinal' /\ PendingInv'
  BY <1>1 DEF Inv, StagedOnBase, StagedBounded, AbortIsFinal, PendingInv, history
<1> QED BY <1>3, <1>4, <1>5 DEF Inv

LEMMA GoneInv == ASSUME Inv, CloseEnds \/ Crash PROVE Inv'
<1> USE Sentinels DEF CloseEnds, Crash, Gone
<1>1. accepting' \in BOOLEAN /\ replaced' \in BOOLEAN
  BY Zenon
<1>2. TypeOK'
  BY <1>1 DEF Inv, TypeOK, history
<1>3. MemoryInv' /\ ReplacedInv' /\ OwnStepsKeepFile' /\ AckedInv'
  BY DEF Inv, MemoryInv, ReplacedInv, OwnStepsKeepFile, AckedInv, Operating,
    Handling, history
<1>4. StagedOnBase' /\ StagedBounded' /\ AbortIsFinal' /\ PendingInv'
  BY DEF Inv, StagedOnBase, StagedBounded, AbortIsFinal, PendingInv, history
<1> QED BY <1>2, <1>3, <1>4 DEF Inv

\* The surroundings.
LEMMA FilesInv ==
    ASSUME Inv,
           \/ \E f \in Files \cup {Garbled} : Rewrite(f)
           \/ \E f \in {Missing, Garbled} : Tamper(f)
    PROVE  Inv'
<1>1. ASSUME NEW f \in Files \cup {Garbled}, Rewrite(f) PROVE Inv'
  BY <1>1, Sentinels DEF Rewrite, Inv, TypeOK, MemoryInv, ReplacedInv,
    OwnStepsKeepFile, AckedInv, StagedOnBase, StagedBounded, AbortIsFinal,
    PendingInv, Operating, Handling, lifecycle
<1>2. ASSUME NEW f \in {Missing, Garbled}, Tamper(f) PROVE Inv'
  BY <1>2, Sentinels DEF Tamper, Inv, TypeOK, MemoryInv, ReplacedInv,
    OwnStepsKeepFile, AckedInv, StagedOnBase, StagedBounded, AbortIsFinal,
    PendingInv, Operating, Handling, lifecycle, history
<1> QED BY <1>1, <1>2

LEMMA ClocksInv ==
    ASSUME Inv, Tick \/ \E t \in 0..MaxTime : SetClock(t) PROVE Inv'
<1> USE Sentinels, ConfigAssumption DEF Operating, Handling, lifecycle, history
<1>1. ASSUME NEW t \in 0..MaxTime, SetClock(t) PROVE Inv'
  BY <1>1 DEF SetClock, Inv, TypeOK, MemoryInv, ReplacedInv, OwnStepsKeepFile,
    AckedInv, StagedOnBase, StagedBounded, AbortIsFinal, PendingInv
<1>2. CASE Tick
  <2>1. wall' \in 0..MaxTime
    BY <1>2 DEF Tick, Inv, TypeOK
  <2>2. CASE UNCHANGED prepared
    <3>1. TypeOK'
      BY <1>2, <2>1, <2>2 DEF Tick, Inv, TypeOK
    <3>2. MemoryInv' /\ ReplacedInv' /\ OwnStepsKeepFile' /\ AckedInv'
      BY <1>2, <2>2 DEF Tick, Inv, MemoryInv, ReplacedInv, OwnStepsKeepFile,
        AckedInv
    <3>3. StagedOnBase' /\ StagedBounded' /\ AbortIsFinal' /\ PendingInv'
      BY <1>2, <2>2 DEF Tick, Inv, StagedOnBase, StagedBounded, AbortIsFinal,
        PendingInv
    <3> QED BY <3>1, <3>2, <3>3 DEF Inv
  <2>3. CASE /\ prepared # Missing /\ prepared.left > 0
             /\ prepared' = [prepared EXCEPT !.left = @ - 1]
    <3>1. /\ prepared \in Candidates
          /\ prepared.left <= TTL + 1
      BY <2>3 DEF Inv, TypeOK, StagedBounded
    <3>2. /\ prepared' \in Candidates
          /\ prepared'.env = prepared.env /\ prepared'.left <= TTL + 1
      BY <2>3, <3>1 DEF Candidates
    <3>3. TypeOK' /\ StagedBounded'
      BY <1>2, <2>1, <3>2 DEF Tick, Inv, TypeOK, StagedBounded
    <3>4. prepared' # Missing
      BY <3>2
    <3> QED
      BY <1>2, <2>3, <3>2, <3>3, <3>4 DEF Tick, Inv, MemoryInv, ReplacedInv,
        OwnStepsKeepFile, AckedInv, StagedOnBase, AbortIsFinal, PendingInv
  <2> QED BY <1>2, <2>2, <2>3 DEF Tick
<1> QED BY <1>1, <1>2

\* Every step keeps the invariant.
LEMMA NextInv == ASSUME Inv, [Next]_vars PROVE Inv'
<1>1. CASE UNCHANGED vars
  BY <1>1 DEF vars, Inv, TypeOK, MemoryInv, ReplacedInv, OwnStepsKeepFile,
    AckedInv, StagedOnBase, StagedBounded, AbortIsFinal, PendingInv, Operating,
    Handling
<1>2. CASE Next
  BY <1>2, PrepareInv, AbortInv, ActivateAnswersInv, ActivateReplacesInv,
    ActivateCommitsInv, ActivateFailsInv, ReloadInv, StatusInv, StartInv,
    LifecycleInv, GoneInv, FilesInv, ClocksInv DEF Next
<1> QED BY <1>1, <1>2

\* The invariant of the configuration transaction, from which the theorems
\* below follow.
THEOREM InvHolds == Spec => []Inv
<1>1. Init => Inv
  BY InitInv
<1>2. Inv /\ [Next]_vars => Inv'
  BY NextInv
<1> QED BY <1>1, <1>2, PTL DEF Spec

\* The files, the memory of the host and its candidate keep their types.
THEOREM TypeCorrect == Spec => []TypeOK
<1>1. Inv => TypeOK
  BY DEF Inv
<1> QED BY <1>1, InvHolds, PTL

\* A file that passes the hash check of prepare and activate (app.py
\* _active_file_sha256) holds what the router serves, for any documents,
\* revisions, crashes and edits.
THEOREM HashVouchesForServed == Spec => []FileIsServed
<1>1. Inv => FileIsServed
  BY DEF Inv, MemoryInv, FileIsServed, Handling
<1> QED BY <1>1, InvHolds, PTL

\* No end of activate_config - commit, rollback, failed rollback - leaves an
\* operating process beside a file it does not know, and what it serves is
\* what a file of the hash it expects holds.
THEOREM FileStaysKnown == Spec => []FileIsKnown
<1>1. Inv => OwnStepsKeepFile
  BY DEF Inv
<1>2. FileIsServed /\ OwnStepsKeepFile => FileIsKnown
  BY DEF FileIsKnown
<1> QED BY <1>1, <1>2, InvHolds, HashVouchesForServed, PTL

\* A configuration that activate_config reported active outlives any number
\* of crashes.
THEOREM AckedIsDurable == Spec => []AckedSurvives
<1>1. Inv => AckedSurvives
  BY DEF Inv, TypeOK, MemoryInv, AckedInv, AckedSurvives, NotBefore, Configs
<1> QED BY <1>1, InvHolds, PTL

\* The candidate of prepare_config or _recover_prepared_config is a step from
\* the configuration in force, lives no longer than it may, and was not
\* aborted.
THEOREM CandidateIsSound == Spec => []StagedIsSound
<1>1. Inv => StagedIsSound
  BY DEF Inv, StagedIsSound
<1> QED BY <1>1, InvHolds, PTL

Closed == phase = "failed" => ~accepting
Reopens == phase \in {"failed", "stopping"} /\ accepting' /\ ~accepting

LEMMA ClosedStep == ASSUME Closed, [Next]_vars PROVE Closed' /\ ~Reopens
<1>1. CASE UNCHANGED lifecycle
  BY <1>1, Zenon DEF lifecycle, Closed, Reopens
<1>2. CASE ActivateFailsClosed \/ Drain \/ Stop \/ CloseBegins \/ CloseEnds \/ Crash
  BY <1>2, Zenon DEF ActivateFailsClosed, Drain, Stop, CloseBegins, CloseEnds,
    Crash, Gone, Closed, Reopens
<1>3. CASE Start \/ Resume
  <2>1. phase \notin {"failed", "stopping"} /\ phase' # "failed"
    BY <1>3 DEF Start, Resume, Operating
  <2> QED BY <2>1, Zenon DEF Closed, Reopens
<1>4. CASE StopEnds \/ Signal
  <2>1. accepting' = accepting /\ (phase' = "failed" => phase = "failed")
    BY <1>4 DEF StopEnds, Signal
  <2> QED BY <2>1, Zenon DEF Closed, Reopens
<1>5. \/ UNCHANGED lifecycle
      \/ ActivateFailsClosed \/ Drain \/ Stop \/ CloseBegins \/ CloseEnds \/ Crash
      \/ Start \/ Resume \/ StopEnds \/ Signal
  BY Zenon DEF Next, vars, lifecycle, PrepareConfig, AbortConfig, ActivateAgain,
    ActivateNothing, ActivateRefused, ActivateReplaces, ActivateCommits,
    ActivateRollsBack, Reload, Status, Rewrite, Tamper, Tick, SetClock
<1> QED BY <1>1, <1>2, <1>3, <1>4, <1>5

\* A failed or stopping process does not open its ingress again.
THEOREM FailureIsClosed == Spec => FailsClosed
<1>1. Init => Closed
  BY DEF Init, Closed
<1>2. Closed /\ [Next]_vars => Closed'
  BY ClosedStep
<1>3. Closed /\ [Next]_vars =>
        [/\ phase' = "failed" => ~accepting'
         /\ phase \in {"failed", "stopping"} /\ accepting' => accepting]_vars
  BY ClosedStep, Zenon DEF Closed, Reopens
<1> QED BY <1>1, <1>2, <1>3, PTL DEF Spec, FailsClosed

-----------------------------------------------------------------------------
(* The transaction implements ConfigRegister *)

\* Losing the candidate or its envelope offers nothing new.
LEMMA OffersShrink ==
    ASSUME prepared' = Missing \/ (prepared # Missing /\ prepared'.env = prepared.env),
           pending' \in {pending, Missing, Garbled}
    PROVE  Offers' \in SUBSET Offers
BY DEF Offers

\* Steps that change neither the file nor what is known of it.
LEMMA QuietStep ==
    ASSUME Settled' = Settled, foreign' = foreign, Offers' \in SUBSET Offers
    PROVE  CR!Withdraw
BY DEF CR!Withdraw

\* The end of an activation that leaves the new file: a switch, or the edit
\* of whoever wrote the file meanwhile.
LEMMA SwitchStep ==
    ASSUME Inv, replaced, ~replaced', UNCHANGED <<file, foreign>>,
           Offers' \in SUBSET Offers
    PROVE  CR!RegisterNext
<1>1. /\ prepared # Missing /\ prepared.env.cfg \in Configs
      /\ prepared.env.base \in Files /\ prepared.env.base.cfg = config
      /\ prepared.env.cfg.rev > config.rev
      /\ ~foreign => file = Canonical(prepared.env.cfg)
      /\ file \in Files \cup {Garbled} /\ foreign \in BOOLEAN
  BY DEF Inv, TypeOK, Candidates, Envelopes, ReplacedInv, StagedOnBase, MemoryInv,
    Acceptable
<1>2. Settled = prepared.env.base /\ Settled' = file
  BY DEF Settled
<1>3. CASE ~foreign
  <2>1. prepared.env.cfg \in Offers
    BY <1>1 DEF Offers
  <2>2. CR!Switch(prepared.env.cfg)
    BY <1>1, <1>2, <1>3, <2>1 DEF CR!Switch, Canonical
  <2> QED BY <1>1, <2>2 DEF CR!RegisterNext
<1>4. CASE foreign
  <2>1. foreign' = TRUE
    BY <1>1, <1>4, Zenon
  <2>2. CR!Edit
    BY <1>1, <1>2, <2>1 DEF CR!Edit
  <2> QED BY <2>2 DEF CR!RegisterNext
<1> QED BY <1>3, <1>4

LEMMA PrepareSimulates ==
    ASSUME Inv, NEW c \in Configs, PrepareConfig(c) PROVE CR!RegisterNext
<1>1. Settled' = Settled /\ foreign' = foreign /\ Settled = file
  BY DEF PrepareConfig, Settled, Operating, Handling
<1>2. CASE /\ file = fileSha /\ Acceptable(c, config)
           /\ pending' = Envelope(c)
           /\ prepared' = [env |-> Envelope(c), left |-> TTL]
  <2>1. Offers' \in SUBSET (Offers \cup {c})
    BY <1>2, Sentinels DEF Offers, Envelope
  <2>2. file \in Files /\ c.rev > file.cfg.rev
    BY <1>2 DEF Inv, MemoryInv, PrepareConfig, Operating, Handling, Acceptable
  <2>3. CR!Offer(c)
    BY <1>1, <2>1, <2>2 DEF CR!Offer
  <2> QED BY <2>3 DEF CR!RegisterNext
<1>3. CASE Expire
  BY <1>1, <1>3, ExpireWithdraws, OffersShrink, QuietStep DEF CR!RegisterNext
<1> QED BY <1>2, <1>3 DEF PrepareConfig

LEMMA ActivateSimulates ==
    ASSUME Inv, \/ ActivateAgain \/ ActivateNothing \/ ActivateRefused
                \/ ActivateReplaces \/ ActivateCommits \/ ActivateRollsBack
                \/ ActivateFailsClosed
    PROVE  CR!RegisterNext
<1> USE DEF history, lifecycle
<1>1. CASE ActivateAgain \/ ActivateReplaces \/ ActivateRollsBack
  <2>1. Offers' \in SUBSET Offers
    BY <1>1 DEF ActivateAgain, ActivateReplaces, ActivateRollsBack, Offers
  <2>2. Settled' = Settled /\ foreign' = foreign
    BY <1>1 DEF ActivateAgain, ActivateReplaces, ActivateRollsBack, Settled,
      Operating, Handling
  <2> QED BY <2>1, <2>2, QuietStep DEF CR!RegisterNext
<1>2. CASE ActivateNothing \/ ActivateRefused
  <2>1. Offers' \in SUBSET Offers
    BY <1>2, ExpireWithdraws, OffersShrink DEF ActivateNothing, ActivateRefused,
      Discard, Unlink
  <2>2. Settled' = Settled /\ foreign' = foreign
    BY <1>2 DEF ActivateNothing, ActivateRefused, Settled, Operating, Handling
  <2> QED BY <2>1, <2>2, QuietStep DEF CR!RegisterNext
<1>3. CASE ActivateCommits
  <2>1. Offers' \in SUBSET Offers
    BY <1>3, OffersShrink DEF ActivateCommits, Discard, Unlink
  <2> QED BY <1>3, <2>1, SwitchStep DEF ActivateCommits
<1>4. CASE ActivateFailsClosed
  <2>1. Offers' \in SUBSET Offers
    BY <1>4 DEF ActivateFailsClosed, Offers
  <2> QED BY <1>4, <2>1, SwitchStep DEF ActivateFailsClosed
<1> QED BY <1>1, <1>2, <1>3, <1>4

LEMMA ControlSimulates ==
    ASSUME Inv, Status \/ Reload \/ (\E c \in Configs : AbortConfig(c))
    PROVE  CR!RegisterNext
<1> USE DEF history, Operating, Handling
<1>1. Settled' = Settled /\ Settled = file
  BY DEF Status, Reload, AbortConfig, Settled
<1>2. Offers' \in SUBSET Offers
  BY ExpireWithdraws, OffersShrink DEF Status, Reload, AbortConfig, Discard, Unlink
<1>3. foreign' = foreign \/ (file \in Files /\ foreign' = FALSE)
  BY Zenon DEF Status, Reload, AbortConfig
<1>4. CASE foreign' = foreign
  BY <1>1, <1>2, <1>4, QuietStep DEF CR!RegisterNext
<1>5. CASE file \in Files /\ foreign' = FALSE
  BY <1>1, <1>2, <1>5 DEF CR!Notice, CR!RegisterNext
<1> QED BY <1>3, <1>4, <1>5

LEMMA ProcessSimulates ==
    ASSUME Inv, \/ Start \/ Drain \/ Resume \/ Stop \/ StopEnds \/ Signal
                \/ CloseBegins \/ CloseEnds \/ Crash
    PROVE  CR!RegisterNext
<1> USE DEF history
<1>1. CASE Start
  <2>1. Settled' = Settled /\ Settled \in Files
    BY <1>1 DEF Inv, MemoryInv, Start, Settled
  <2>2. Offers' \in SUBSET Offers
    BY <1>1, Sentinels DEF Start, Offers
  <2> QED BY <1>1, <2>1, <2>2 DEF Start, CR!Notice, CR!RegisterNext
<1>2. CASE Drain \/ Resume \/ Stop \/ StopEnds \/ Signal \/ CloseBegins
  <2>1. Offers' = Offers /\ Settled' = Settled /\ foreign' = foreign
    BY <1>2 DEF Drain, Resume, Stop, StopEnds, Signal, CloseBegins, Offers, Settled
  <2> QED BY <2>1, QuietStep DEF CR!RegisterNext
<1>3. CASE CloseEnds \/ Crash
  <2>1. Offers' \in SUBSET Offers
    BY <1>3, OffersShrink DEF CloseEnds, Crash, Gone
  <2>2. CASE replaced
    BY <1>3, <2>1, <2>2, SwitchStep DEF CloseEnds, Crash, Gone
  <2>3. CASE ~replaced
    <3>1. Settled' = Settled /\ foreign' = foreign
      BY <1>3, <2>3 DEF CloseEnds, Crash, Gone, Settled
    <3> QED BY <2>1, <3>1, QuietStep DEF CR!RegisterNext
  <2> QED BY <2>2, <2>3
<1> QED BY <1>1, <1>2, <1>3

LEMMA SurroundingsSimulate ==
    ASSUME Inv, \/ \E f \in Files \cup {Garbled} : Rewrite(f)
                \/ \E f \in {Missing, Garbled} : Tamper(f)
                \/ Tick \/ \E t \in 0..MaxTime : SetClock(t)
    PROVE  CR!RegisterNext
<1> USE DEF history
<1>1. ASSUME NEW f \in Files \cup {Garbled}, Rewrite(f) PROVE CR!RegisterNext
  <2>1. Offers' \in SUBSET Offers
    BY <1>1 DEF Rewrite, Offers
  <2>2. Settled' \in Files \cup {Garbled}
    BY <1>1 DEF Rewrite, Settled, Inv, ReplacedInv, TypeOK, Candidates, Envelopes
  <2> QED BY <1>1, <2>1, <2>2 DEF Rewrite, CR!Edit, CR!RegisterNext
<1>2. ASSUME NEW f \in {Missing, Garbled}, Tamper(f) PROVE CR!RegisterNext
  <2>1. Offers' \in SUBSET Offers
    BY <1>2 DEF Tamper, Offers
  <2>2. Settled' = Settled /\ foreign' = foreign
    BY <1>2 DEF Tamper, Settled
  <2> QED BY <2>1, <2>2, QuietStep DEF CR!RegisterNext
<1>3. CASE Tick \/ \E t \in 0..MaxTime : SetClock(t)
  <2>1. \/ prepared' = prepared
        \/ /\ prepared # Missing /\ prepared \in Candidates
           /\ prepared' = [prepared EXCEPT !.left = @ - 1]
    BY <1>3 DEF Tick, SetClock, Inv, TypeOK
  <2>2. prepared'.env = prepared.env /\ (prepared = Missing => prepared' = Missing)
    BY <2>1 DEF Candidates
  <2>3. Offers' \in SUBSET Offers
    BY <1>3, <2>2, OffersShrink DEF Tick, SetClock
  <2>4. Settled' = Settled /\ foreign' = foreign
    BY <1>3, <2>2 DEF Tick, SetClock, Settled
  <2> QED BY <2>3, <2>4, QuietStep DEF CR!RegisterNext
<1> QED BY <1>1, <1>2, <1>3

\* prepare, activate, abort, reload and restart with all their failures
\* implement ConfigRegister: without a foreign edit the file only ever moves
\* to a candidate on offer with a higher revision.
THEOREM ImplementsRegister == Spec => KeepsRegister
<1>1. Init => CR!RegisterInit
  BY Sentinels, Zenon DEF Init, CR!RegisterInit, Settled, Offers
<1>2. Inv /\ [Next]_vars => [CR!RegisterNext]_(CR!registerVars)
  <2> SUFFICES ASSUME Inv, [Next]_vars
               PROVE  [CR!RegisterNext]_(CR!registerVars)
    OBVIOUS
  <2>1. CASE UNCHANGED vars
    BY <2>1 DEF vars, CR!registerVars, Settled, Offers
  <2>2. CASE Next
    BY <2>2, PrepareSimulates, ActivateSimulates, ControlSimulates,
      ProcessSimulates, SurroundingsSimulate DEF Next
  <2> QED BY <2>1, <2>2
<1> QED BY <1>1, <1>2, InvHolds, PTL DEF Spec, KeepsRegister, CR!Register
=============================================================================
