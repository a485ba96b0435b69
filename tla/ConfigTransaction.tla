-------------------------- MODULE ConfigTransaction --------------------------
(***************************************************************************)
(* How a running gateway changes its configuration (gateway/app.py):       *)
(* prepare stages a candidate in memory and in pending/prepared.json,      *)
(* activate replaces the configuration file and then what the process      *)
(* serves, abort and expiry withdraw the candidate, a restart recovers it. *)
(* Also the phases of the process that permit these operations.            *)
(*                                                                         *)
(* The handlers run under _config_transaction_lock and await nothing       *)
(* before they are done, so each is one step, save activate, which is cut  *)
(* where the file is new and the process is not: a crash, or another       *)
(* program that writes the file, can come between.                         *)
(***************************************************************************)
EXTENDS Integers

CONSTANTS
    Docs,        \* all of a configuration but its revision
    Identity,    \* what a restart is needed to change: instance, version,
                 \* listening addresses, limits
    MaxRevision, \* bound: revisions
    TTL,         \* prepared_config_ttl_seconds
    MaxTime,     \* bound: the wall clock
    Missing,     \* no such file, or nothing prepared
    Garbled      \* a file that cannot be parsed

Configs   == [rev : 1..MaxRevision, doc : Docs]
\* The configuration file: the same document may be laid out in several ways,
\* and only the layout of _canonical_config_payload hashes to config_sha256.
Files     == [cfg : Configs, canonical : BOOLEAN]
Envelopes == [cfg : Configs, baseRev : 1..MaxRevision, base : Files,
              expires : Int]
Candidates == [env : Envelopes, left : Nat]

ASSUME ConfigAssumption ==
    /\ Docs # {} /\ MaxRevision \in Nat \ {0} /\ TTL \in Nat \ {0}
    /\ MaxTime \in Nat
    /\ DOMAIN Identity = Docs
    /\ Missing # Garbled
    /\ {Missing, Garbled} \cap (Files \cup Envelopes \cup Candidates) = {}

VARIABLES
    phase,       \* _phase, "down" for no process
    accepting,   \* the ingress takes requests
    stopping,    \* how far stop, a signal and close have come
    file,        \* the configuration file
    pending,     \* pending/prepared.json
    config,      \* _config, whose canonical hash is _active_config_sha256
    fileSha,     \* _active_file_sha256, here the content it was taken of
    served,      \* the configuration of the router provider
    prepared,    \* _prepared_config: its envelope, and its time by the
                 \* monotonic clock
    replaced,    \* activate is between os.replace and its end
    wall,        \* time.time()
    foreign,     \* history: another program wrote the file, unseen so far
    acked,       \* history: what the gateway last reported active, unless
                 \* the file was then already another program's
    withdrawn    \* history: candidates aborted, their envelope removed

vars == <<phase, accepting, stopping, file, pending, config, fileSha, served,
          prepared, replaced, wall, foreign, acked, withdrawn>>
lifecycle == <<phase, accepting, stopping>>
history   == <<foreign, acked, withdrawn>>

Canonical(c) == [cfg |-> c, canonical |-> TRUE]
Reported(c)  == IF foreign THEN Missing ELSE c

-----------------------------------------------------------------------------
(* The staged candidate *)

\* A handler runs to its end before another begins.
Handling  == phase # "down" /\ ~replaced
Operating == Handling /\ phase \in {"running", "draining"}

Expired == /\ prepared # Missing
           /\ \/ prepared.left = 0
              \/ wall >= prepared.env.expires
              \/ prepared.env.baseRev # config.rev
Unexpired == IF Expired THEN Missing ELSE prepared

\* _unlink_quietly: an OSError leaves the file and is not reported.
Unlink(ok) == pending' = IF ok THEN Missing ELSE pending

Discard(ok) == prepared' = Missing /\ Unlink(ok)

\* _expire_prepared_config, with which nearly every handler begins.
Expire == IF Expired THEN \E ok \in BOOLEAN : Discard(ok)
                    ELSE UNCHANGED <<prepared, pending>>

BadAcceptable(c, base) == /\ Identity[c.doc] = Identity[base.doc]
                          /\ c.rev >= base.rev
\* _validate_prepared_candidate against the configuration base.
Acceptable(c, base) == /\ Identity[c.doc] = Identity[base.doc]
                       /\ c.rev > base.rev

-----------------------------------------------------------------------------
(* The control operations *)

Envelope(c) == [cfg |-> c, baseRev |-> config.rev, base |-> fileSha,
                expires |-> wall + TTL]

\* A candidate that is already active or prepared is answered, another is
\* refused: either way only the expiry takes effect.  So it is when a secret
\* cannot be resolved or the envelope cannot be written.
PrepareConfig(c) ==
    /\ Operating
    /\ \/ /\ file = fileSha
          /\ Acceptable(c, config)
          /\ Unexpired = Missing
          /\ pending' = Envelope(c)
          /\ prepared' = [env |-> Envelope(c), left |-> TTL]
          /\ withdrawn' = withdrawn \ {c}
       \/ Expire /\ UNCHANGED withdrawn
    /\ UNCHANGED <<lifecycle, file, config, fileSha, served, replaced, wall,
                   foreign, acked>>

\* activate of what is active already reports success again.
ActivateAgain ==
    /\ Operating
    /\ acked' = Reported(config)
    /\ UNCHANGED <<lifecycle, file, pending, config, fileSha, served, prepared,
                   replaced, wall, foreign, withdrawn>>

\* activate without a candidate of that revision and hash.
ActivateNothing ==
    /\ Operating
    /\ Expired
    /\ Expire
    /\ UNCHANGED <<lifecycle, file, config, fileSha, served, replaced, wall,
                   history>>

\* A file was changed behind the gateway's back.  An envelope that is gone is
\* a read error instead, which leaves the candidate as it is.
ActivateRefused ==
    /\ Operating
    /\ Unexpired # Missing
    /\ pending # Missing
    /\ file # prepared.env.base \/ file # fileSha \/ pending # prepared.env
    /\ \E ok \in BOOLEAN : Discard(ok)
    /\ UNCHANGED <<lifecycle, file, config, fileSha, served, replaced, wall,
                   history>>

BadActivateReplaces ==
    /\ Operating
    /\ Unexpired # Missing
    /\ file = prepared.env.base /\ file = fileSha /\ pending = prepared.env
    /\ file' = Canonical(prepared.env.cfg)
    /\ replaced' = TRUE /\ acked' = Reported(prepared.env.cfg)
    /\ UNCHANGED <<lifecycle, pending, config, fileSha, served, prepared, wall,
                   foreign, withdrawn>>
\* The candidate in its canonical layout takes the place of the file.  When
\* the temporary files cannot be written nothing has happened.  The hash of the
\* file is checked first, without an await in between; an edit from outside that
\* falls between the two is overwritten, which leaves the state of no edit.
ActivateReplaces ==
    /\ Operating
    /\ Unexpired # Missing
    /\ file = prepared.env.base /\ file = fileSha /\ pending = prepared.env
    /\ file' = Canonical(prepared.env.cfg)
    /\ replaced' = TRUE
    /\ UNCHANGED <<lifecycle, pending, config, fileSha, served, prepared, wall,
                   history>>

\* provider.activate succeeds; the host follows.
ActivateCommits ==
    /\ replaced
    /\ served' = prepared.env.cfg
    /\ config' = prepared.env.cfg
    /\ fileSha' = Canonical(prepared.env.cfg)
    /\ acked' = Reported(prepared.env.cfg)
    /\ \E ok \in BOOLEAN : Discard(ok)
    /\ replaced' = FALSE
    /\ UNCHANGED <<lifecycle, file, wall, foreign, withdrawn>>

BadActivateRollsBack ==
    /\ replaced
    /\ replaced' = FALSE
    /\ UNCHANGED <<lifecycle, file, pending, config, fileSha, served, prepared,
                   wall, history>>
\* provider.activate raises: the payload read before is put back.  The
\* candidate stays prepared.
ActivateRollsBack ==
    /\ replaced
    /\ file' = prepared.env.base
    /\ replaced' = FALSE
    /\ UNCHANGED <<lifecycle, pending, config, fileSha, served, prepared, wall,
                   history>>

\* It raises and cannot be undone: the process refuses to go on.
ActivateFailsClosed ==
    /\ replaced
    /\ phase' = "failed" /\ accepting' = FALSE
    /\ replaced' = FALSE
    /\ UNCHANGED <<stopping, file, pending, config, fileSha, served, prepared,
                   wall, history>>

AbortConfig(c) ==
    /\ Operating
    /\ \/ /\ Unexpired # Missing /\ prepared.env.cfg = c
          /\ \E ok \in BOOLEAN :
                /\ Discard(ok)
                /\ withdrawn' = IF ok THEN withdrawn \cup {c} ELSE withdrawn
       \/ Expired /\ Expire /\ UNCHANGED withdrawn
    /\ UNCHANGED <<lifecycle, file, config, fileSha, served, replaced, wall,
                   foreign, acked>>

\* Only the layout of the file may have changed.
Reloadable == /\ Unexpired = Missing
              /\ file.cfg = config
Reload ==
    /\ Operating
    /\ Expire
    /\ IF file \in Files /\ Reloadable
       THEN fileSha' = file /\ foreign' = FALSE
       ELSE UNCHANGED <<fileSha, foreign>>
    /\ UNCHANGED <<lifecycle, file, config, served, replaced, wall, acked,
                   withdrawn>>

\* status answers in every phase, and expires.
Status ==
    /\ Handling
    /\ Expired
    /\ Expire
    /\ UNCHANGED <<lifecycle, file, config, fileSha, served, replaced, wall,
                   history>>

-----------------------------------------------------------------------------
(* The process *)

BadRecoverable(e) ==
    /\ e.expires > wall
    /\ e.baseRev = file.cfg.rev /\ e.base = file
    /\ Acceptable(e.cfg, file.cfg)
\* _recover_prepared_config: an envelope that a clock set back would keep for
\* longer than a candidate may live is not taken.
Recoverable(e) ==
    /\ e.expires > wall /\ e.expires - wall <= TTL + 1
    /\ e.baseRev = file.cfg.rev /\ e.base = file
    /\ Acceptable(e.cfg, file.cfg)

\* start.  A secret of the candidate may be out of reach: then nothing is
\* prepared, and the envelope stays.  A start that fails leaves no process.
Start ==
    /\ phase = "down"
    /\ file \in Files
    /\ config' = file.cfg /\ served' = file.cfg /\ fileSha' = file
    /\ \/ prepared' = Missing
       \/ /\ pending \in Envelopes /\ Recoverable(pending)
          /\ prepared' = [env |-> pending, left |-> pending.expires - wall]
    /\ phase' = "running" /\ accepting' = TRUE
    /\ foreign' = FALSE
    /\ UNCHANGED <<stopping, file, pending, replaced, wall, acked, withdrawn>>

\* drain awaits the last request and changes nothing after that.
Drain ==
    /\ Operating
    /\ phase' = "draining" /\ accepting' = FALSE
    /\ UNCHANGED <<stopping, file, pending, config, fileSha, served, prepared,
                   replaced, wall, history>>

BadResume ==
    /\ Handling
    /\ phase' = "running" /\ accepting' = TRUE
    /\ UNCHANGED <<stopping, file, pending, config, fileSha, served, prepared,
                   replaced, wall, history>>
Resume ==
    /\ Operating
    /\ phase' = "running" /\ accepting' = TRUE
    /\ UNCHANGED <<stopping, file, pending, config, fileSha, served, prepared,
                   replaced, wall, history>>

\* stop drains, and whatever has become of the phase meanwhile ends the
\* process if the drain did not time out.
Stop ==
    /\ Operating /\ stopping = "no"
    /\ phase' = "draining" /\ accepting' = FALSE /\ stopping' = "drains"
    /\ UNCHANGED <<file, pending, config, fileSha, served, prepared, replaced,
                   wall, history>>
StopEnds ==
    /\ Handling /\ stopping = "drains"
    /\ \/ phase' = "stopping" /\ stopping' = "set"
       \/ stopping' = "no" /\ UNCHANGED phase
    /\ UNCHANGED <<accepting, file, pending, config, fileSha, served, prepared,
                   replaced, wall, history>>

\* SIGTERM sets the same event without a change of phase.
Signal ==
    /\ Handling /\ stopping \in {"no", "drains"}
    /\ stopping' = "set"
    /\ UNCHANGED <<phase, accepting, file, pending, config, fileSha, served,
                   prepared, replaced, wall, history>>

\* close drains; the control server answers until it is done.
CloseBegins ==
    /\ Handling /\ stopping = "set"
    /\ accepting' = FALSE /\ stopping' = "closing"
    /\ UNCHANGED <<phase, file, pending, config, fileSha, served, prepared,
                   replaced, wall, history>>

\* The process is gone, and its memory; the files are as it left them.
Gone ==
    /\ phase' = "down" /\ accepting' = FALSE /\ stopping' = "no"
    /\ config' = Missing /\ served' = Missing /\ fileSha' = Missing
    /\ prepared' = Missing /\ replaced' = FALSE
    /\ UNCHANGED <<file, pending, wall, history>>
CloseEnds == Handling /\ stopping = "closing" /\ Gone
Crash     == phase # "down" /\ Gone

-----------------------------------------------------------------------------
(* The surroundings *)

\* An operator or a deployment writes the configuration file.
Rewrite(f) ==
    /\ file' = f
    /\ foreign' = TRUE /\ acked' = Missing
    /\ UNCHANGED <<lifecycle, pending, config, fileSha, served, prepared,
                   replaced, wall, withdrawn>>

\* The envelope is damaged or removed.
Tamper(f) ==
    /\ pending # f
    /\ pending' = f
    /\ UNCHANGED <<lifecycle, file, config, fileSha, served, prepared, replaced,
                   wall, history>>

Tick ==
    /\ wall < MaxTime
    /\ wall' = wall + 1
    /\ prepared' = IF prepared # Missing /\ prepared.left > 0
                   THEN [prepared EXCEPT !.left = @ - 1] ELSE prepared
    /\ UNCHANGED <<lifecycle, file, pending, config, fileSha, served, replaced,
                   history>>

\* The wall clock is set; the monotonic clock is not.
SetClock(t) ==
    /\ t # wall
    /\ wall' = t
    /\ UNCHANGED <<lifecycle, file, pending, config, fileSha, served, prepared,
                   replaced, history>>

Init ==
    /\ phase = "down" /\ accepting = FALSE /\ stopping = "no"
    /\ file \in {f \in Files : f.cfg.rev = 1}
    /\ pending = Missing
    /\ config = Missing /\ served = Missing /\ fileSha = Missing
    /\ prepared = Missing /\ replaced = FALSE
    /\ wall = 0
    /\ foreign = FALSE /\ acked = Missing /\ withdrawn = {}

Next ==
    \/ \E c \in Configs : PrepareConfig(c) \/ AbortConfig(c)
    \/ ActivateAgain \/ ActivateNothing \/ ActivateRefused
    \/ ActivateReplaces \/ ActivateCommits
    \/ ActivateRollsBack \/ ActivateFailsClosed
    \/ Reload \/ Status
    \/ Start \/ Drain \/ Resume \/ Stop \/ StopEnds \/ Signal
    \/ CloseBegins \/ CloseEnds \/ Crash
    \/ \E f \in Files \cup {Garbled} : Rewrite(f)
    \/ \E f \in {Missing, Garbled} : Tamper(f)
    \/ Tick \/ \E t \in 0..MaxTime : SetClock(t)

Spec == Init /\ [][Next]_vars

-----------------------------------------------------------------------------
(* Properties *)

\* Every variable has its type.
TypeOK ==
    /\ phase \in {"down", "running", "draining", "failed", "stopping"}
    /\ accepting \in BOOLEAN
    /\ stopping \in {"no", "drains", "set", "closing"}
    /\ file \in Files \cup {Garbled}
    /\ pending \in Envelopes \cup {Missing, Garbled}
    /\ config \in Configs \cup {Missing}
    /\ served \in Configs \cup {Missing}
    /\ fileSha \in Files \cup {Missing}
    /\ prepared \in Candidates \cup {Missing}
    /\ replaced \in BOOLEAN
    /\ wall \in 0..MaxTime
    /\ foreign \in BOOLEAN
    /\ acked \in Configs \cup {Missing}
    /\ withdrawn \subseteq Configs

\* Whenever the file passes the check that prepare and activate make of it,
\* it holds the configuration that the router serves and status reports:
\* a hash never vouches for a configuration that is not in force.
FileIsServed ==
    Handling /\ file = fileSha => file.cfg = config /\ served = config

\* As long as nobody else writes the file, a process that still operates has
\* left it as it knows it, however an activation ended.
OwnStepsKeepFile == Operating /\ ~foreign => file = fileSha

\* A configuration reported active is not lost: whatever crashes come, the
\* gateway serves it or a later revision, unless another program wrote the
\* file.
AckedSurvives ==
    phase # "down" /\ acked # Missing =>
        /\ config.rev >= acked.rev
        /\ config.rev = acked.rev => config = acked

\* The candidate, prepared or recovered, is a step forward from exactly the
\* configuration in force, and from the layout of the file as it is known:
\* reload may not slip in between, nor an old envelope come back.
StagedOnBase ==
    prepared # Missing =>
        /\ Acceptable(prepared.env.cfg, config)
        /\ prepared.env.baseRev = config.rev
        /\ prepared.env.base = fileSha

\* However the wall clock is set and the process restarted, no candidate has
\* more than its time to live, and the second a restart grants, before it.
StagedBounded == prepared # Missing => prepared.left <= TTL + 1

\* A candidate that was aborted, its envelope removed, is not prepared again
\* by a restart, only by another prepare.
AbortIsFinal == prepared # Missing => prepared.env.cfg \notin withdrawn

\* A rollback that fails closes the ingress, and neither a process that has
\* failed nor one that is stopping opens it again: not by a resume, nor by a
\* stop that was waiting when it failed.
FailsClosed ==
    [][/\ phase' = "failed" => ~accepting'
       /\ phase \in {"failed", "stopping"} /\ accepting' => accepting]_vars

\* The inductive invariant.
MemoryInv ==
    IF phase = "down"
    THEN prepared = Missing /\ ~replaced
    ELSE /\ config \in Configs /\ served = config
         /\ fileSha \in Files /\ fileSha.cfg = config
ReplacedInv ==
    replaced => /\ phase \in {"running", "draining"}
                /\ prepared # Missing
                /\ ~foreign => file = Canonical(prepared.env.cfg)
NotBefore(c, d) == c = d \/ c.rev > d.rev
AckedInv ==
    acked # Missing => /\ ~foreign
                       /\ file \in Files /\ NotBefore(file.cfg, acked)
                       /\ phase # "down" => NotBefore(config, acked)
PendingInv == pending \in Envelopes => pending.cfg \notin withdrawn
Inv == /\ TypeOK /\ MemoryInv /\ ReplacedInv /\ OwnStepsKeepFile /\ AckedInv
       /\ StagedOnBase /\ StagedBounded /\ AbortIsFinal /\ PendingInv

\* ConfigRegister sees the file without the change of an activation that is
\* under way, and as offers the candidates that may still become active.
Settled == IF replaced THEN prepared.env.base ELSE file
Offers  == (IF prepared = Missing THEN {} ELSE {prepared.env.cfg})
           \cup (IF pending \in {Missing, Garbled} THEN {} ELSE {pending.cfg})
CR == INSTANCE ConfigRegister WITH content <- Settled, offers <- Offers,
                                   edited <- foreign

\* The transaction implements the register, through crashes and failures.
KeepsRegister == CR!Register

\* An operating process knows its file: it serves what a file of the expected
\* hash holds, and however an activation ended it left such a file.
FileIsKnown == FileIsServed /\ OwnStepsKeepFile

\* A staged candidate is a step from the configuration in force, does not
\* outlive its time and is none that was aborted for good.
StagedIsSound == StagedOnBase /\ StagedBounded /\ AbortIsFinal
=============================================================================
