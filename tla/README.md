# TLA+ verification of codex-profile-guardian

This directory holds TLA+ models of the program, the TLC configurations that
check them on small instances and TLAPS proofs of what they establish for every
instance.  `PROJECT.json` lists the runs, the faulty variants each property
rejects, the source lines behind every definition, the hazards the properties
are aimed at, and the theorems.

    tlc -workers 2 -config breaker.cfg MCCircuitBreaker
    tlc -workers 2 -config switch.cfg MCSwitchSession
    tlapm FailoverRequest_proofs.tla
    tlapm SwitchSession_proofs.tla

## 1. The system

The program keeps Codex profiles on a desktop (`backend/`, a local HTTP API
with a React UI in `src/`) and runs a loopback *gateway* (`gateway/`) that
forwards model requests to a primary upstream and fails over to a backup.

| Part | State it keeps | Operations | Hard because |
|---|---|---|---|
| circuit breaker registry, `gateway/breaker.py` | a runtime per route *version* (key, revision, fingerprint), the current versions, active tickets, pins | configure, pin/release, acquire/preview, record success/failure/cancel, abandon, restore | tickets outlive configurations and transitions; each method may fail in its save |
| breaker document, `gateway/state.py` | one JSON file | load, save by temporary file and replace | a replacement that may or may not have happened |
| router provider, `gateway/runtime.py` | current router and configuration | acquire (pins), release, activate | old routers run on after a swap |
| router, attempts, classifier: `gateway/router.py`, `attempts.py`, `failures.py` | one request's tickets, attempts and verdict | execute, run, classify | timeouts, cancellation, replay and double charge |
| committer, core: `gateway/commit.py`, `service.py` | commit state of one answer | proxy, commit, commit_error | nothing may follow the first byte |
| ingress, `gateway/ingress.py` | active requests, accepting flag, drain event | responses, begin_drain, resume, wait_drained, cancel_active | drain races admission and disconnects |
| probe scheduler, `gateway/probe_scheduler.py` | probes in flight | run_once, probe_role | shares the registry with requests |
| process host, `gateway/app.py` | staged configuration, active configuration files, ingress and provider | start, prepare, activate, abort, expiry, reload, drain, stop | several files and memory change in turn; crash between any two |
| supervisor, `gateway/supervisor.py`, `cron_supervisor.py`, `platforms/` | restart history, latched stop | supervise, start, stop | restart storms, a stop racing a restart |
| deployment, `gateway/deployment.py`, `platforms/linux_deployment.py` | installed releases | upgrade, roll back, recover | crash between steps |
| lifecycle files, `gateway/lifecycle_config.py`, `runtime_files.py`, `singleton.py`, `tokens.py`, `control.py` | runtime files, lock, tokens | read/write, acquire, rotate | stale files of a dead process |
| protocol validator, `gateway/protocols/responses.py` | the position in one event stream | validate | event orders nobody recorded |
| failover controller, `backend/failover.py`, `gateway_controller.py`, `provider_activation.py` | published group, provider selection | publish, activate, disable | one step of several failing |
| guardian, `backend/guardian.py`, `history_lineage.py`, `codex_lifecycle.py` | profiles, history, backups | switch, resolve conflict, restore | foreign processes change the same files |
| remote machines, `backend/remote_*.py` | remote copies | upload, verify, swap | lost connections |
| updater, diagnostics, UI, installer, tools | - | - | I/O around the rest |

The request path is the core: a request is admitted by the ingress, leases the
current router (which pins its route versions), plans over `preview_admission`,
takes a ticket per attempt, reports how it ended and commits exactly one
answer.  Meanwhile the host activates new configurations, the scheduler probes
routes, the save of the breaker document fails, and the process dies and
restarts from that document.

Around it a supervisor keeps the gateway's process alive, a deployment replaces
its release here or on a remote machine, and the guardian publishes groups to
it over a control channel.  The guardian's other half works on a directory that
belongs to another program: it closes Codex, replaces its login, configuration,
chat database and chat files, keeps the logins of several accounts, and brings
one profile and one history to remote machines.  There nothing is transactional:
each operation is a row of file writes with an undo, and Codex, the user, a
second thread or a death may come between any two.

## 2. Modules

| Module | Models |
|---|---|
| `CircuitBreaker` | the registry, its document and its restart |
| `FailoverRequest` | the request path and the probes, composed with `CircuitBreaker` |
| `RequestContract` | abstract: what the gateway promises about one request |
| `ConfigTransaction` | the process host: phases, and the prepare/activate/abort transaction on the configuration file |
| `ConfigRegister` | abstract: what a change of configuration promises |
| `Supervisor` | the two supervisors of the gateway process and its singleton lock |
| `Deployment` | the upgrade of the gateway's release on Windows and on Linux |
| `RemoteDeployment` | the script that does it on a remote machine, in composition with `Deployment` |
| `Publication` | failover groups, their publication and the deletion of profiles |
| `ProviderActivation` | pointing Codex at the gateway and back, in composition with `Publication` |
| `ProfileSwitch` | switch, repair, edit and restore of a profile, with their backups |
| `CodexLifecycle` | closing Codex before one of these |
| `SwitchSession` | the two one after the other |
| `Credentials` | the logins of the official profiles |
| `HistoryConflict` | the resolution of chats with several copies |
| `RemoteSync` | bringing a profile and the chats to a remote machine, in composition with `HistoryConflict` |
| `FailoverRequest_proofs`, `ConfigTransaction_proofs`, `Supervisor_proofs`, `RemoteDeployment_proofs`, `ProviderActivation_proofs`, `SwitchSession_proofs`, `Credentials_proofs`, `RemoteSync_proofs` | TLAPS proofs about the module of that name and the modules it composes |
| `MC...` | instances for TLC |

Every module keeps the control of its code: one action per handler, or per
await or file write where something may come in between.  A callback or a write
that reports failure may have taken effect or not.  History variables are
marked as such; no action reads them.  Each module states its types in `TypeOK`
(`ClosingTypeOK`, `RemoteTypeOK`, `ProviderTypeOK`).

### CircuitBreaker

One action per method of `CircuitBreakerRegistry`; each holds the registry's
lock from its first read to its last write, so it is one step.  `routes` is
`_routes` (a function on the versions in use), `current` is `_current_routes`,
`active` the tickets of `_active`, `pins` is `_pins`, `lease` the
`half_open_lease_id` of each version, `uncertain` is `_persistence_uncertain`,
`disk` the JSON document, `conf` the configuration file a new process starts
with.  The life of a ticket is what interleaves.

`Persist` is the save inside a method: it succeeds; or it fails before the
replacement, and the method restores the old memory (no step); or `os.replace`
raised and the target does not match, and then the document is the old or the
new one, memory is rolled back and every later save and admission refuses.
`Crash` empties memory; the configuration file may be one revision ahead of
the registry, because the host replaces it before it activates.  `Start` is
`AtomicFailoverRouterProvider.__init__` with `restore_from_store`.

Abstractions: route fingerprints and keys are model values; time is a counter
and the cooldown any value between the backoff and its cap, the jitter and
`Retry-After` included; the error rate is an integer percentage; timestamps of
failures, the transition event ring and snapshots are left out (nothing reads
them back); the policy is the same for every revision.

### FailoverRequest

A request handler is a record with a program counter.  Its steps are the calls
of the registry and the awaits between them: `Admit` (`_try_acquire_request`, which
counts the request before its body is there), `ReadBody` (`request.read`), `LeaseRouter`, `PlanRoutes`, `TryRoute`/`SkipRoute`/`TryRaises` (`acquire` in
`execute`), `AttemptEnds` (`SingleRouteAttemptRunner.run` with every way to
end, and whether the body had begun to be sent), `Report` (the registry method
the classifier picks, IGNORED and raising saves included), `Cleanup` (the
`finally` block), `StartCommit`/`EndCommit` (`Committer._commit`),
`ReleaseLease`, `Exit` (`_release_request`).  Where `execute` raises, `Ended` drops what
the handler knew of a double charge, because `proxy` then commits its error with
`possible_double_charge=False` (`service.py:232`).  `ReadBody` and `EndCommit` are the
two steps in which the client is waited for (`ClientStep`); the others are
`RequestStep`.  `ProbeStart` and `ProbeEnds` are `_probe_route`.  `ran` is a history variable: what an upstream may really have
executed, which the gateway cannot see.

`RequestContract` is refined through the mapping `RC`: a handler's commit state
and the roles it tried.

### ConfigTransaction

A configuration is a revision and a document; a file is a configuration and
whether its layout is the canonical one, so that two files with the same
configuration may have different hashes (a hash is modelled as the content it
was taken of).  `Identity` stands for what only a restart changes.  `file` is
`config/active.json`, `pending` is `pending/prepared.json`, `config`, `fileSha`
and `prepared` are the host's `_config`, `_active_file_sha256` and
`_prepared_config`, `served` is the configuration of the router provider.

The handlers run under `_config_transaction_lock` and await nothing before
they finish, so each is one step, its expiry check included.
`activate_config` is two: `ActivateReplaces` up to `os.replace`, the check of the
hash included (what another program writes between that check and the replacement is
lost, which no property speaks of), then
`ActivateCommits`, `ActivateRollsBack` or `ActivateFailsClosed`; in between the
process may die and others may write the file.  `_unlink_quietly` succeeds or
leaves the file.  `Start` includes `_recover_prepared_config`.  `Drain`,
`Resume`, `Stop`, `StopEnds`, `Signal`, `CloseBegins` and `CloseEnds` are the
phases; requests are left out, so a drain ends or times out freely.  `Rewrite`
is an operator or a deployment, `Tamper` the loss of the envelope, `SetClock`
an adjustment of the wall clock, which the monotonic clock (`prepared.left`)
does not follow.  `foreign`, `acked` and `withdrawn` are history variables.

Left out: the runtime descriptor, the journal and the probe scheduler's
reconciliation, which follow a commit and are not read back; the several reads
of one file inside a handler, taken as one.

`ConfigRegister` is refined through `CR`: the file without the change of an
activation under way, the candidates in memory or in the envelope, and whether
somebody else wrote the file.

### Supervisor

`Sups` are supervisor processes; `cron` tells the machine of
`cron_supervisor.py` from that of `supervisor.py`, whose loops differ in what
they restore and when they leave.  A supervisor takes the lock, restores the
crashes from its document (`Load`), starts the gateway, waits for its end,
counts it (`ObserveExit`: window, stable run, clock set back), saves, sleeps and
starts again, or latches a stop on disk.  `Kill` may come between any two steps
and leaves an orphan gateway that still holds `gateway.lock`, so the next one's
gateway is *refused*.  `mono` is the monotonic clock, `mono - back` the wall
clock the document uses; `SetClockBack` and `SetClockForward` adjust it.  Two history
variables say when a gateway was started (`starts`) and when a crash was counted
(`restarts`).  An end nobody counts is `GatewayEndsUnseen` (the save fails, the clock
was set back), or follows a `Kill`; `lapsed` then says so, and `starts` begins anew.

### Deployment and RemoteDeployment

`Deployment` has a step for every await of `upgrade` and `deploy`.  `files` names
for each file the release it was written for; `running` and `accepting` are the
gateway.  Every step may report failure after it took effect, the undo's own
steps too, and the deploying process may die.  The flags of the code (`stopped`,
`activated`) are only what its undo goes by; `owed` is a history field, whether
the old gateway was in service when the deployment began.

`RemoteDeployment` is the script
sent through ssh: the cron line is removed first, everything is undone whatever
failed, a stop that fails in the undo is passed over.  The files are replaced one by one
in the order of the code, and the crontab line or unit is one of them
(`files["unit"]`): it names *one* release's supervisor, and that is what `CronTick`
and a restart start (`Launched`), whatever the pointer says.  A gateway ends at once
unless the pointer has the version its configuration names (`Startable`), and
`serves` is the configuration it was started with, which is all that
`verify_gateway` can ask for (`Answers`).  A second gateway cannot start beside
one that holds the singleton lock.  Hashes, ownership and the transfer are one
refusal.

### Publication and ProviderActivation

`Publication` is the management service (`doc`, `marker`), the controller
(`secrets`, `kept`) and the gateway as a register with one staged candidate.
`publish_group` is a row of steps: prepare, activate, check, save, and on failure
roll back or abort; each request may be lost on its way or on its way back, the
gateway may stop and start and the candidate may expire.  `delete_profile` is
two steps, as it decides under one lock and saves under another.

`ProviderActivation` is `activate` and `restore` of the coordinator, step by
step, with the undo of each.  `config` is Codex's `config.toml`; a profile switch
may write it in between.  Neither operation takes a lock and the HTTP server is
threaded, so two may overlap: one is followed step by step, and `Interferes` is
the write of another one in its middle.  In that mode (`about = "provider"`) a publication is
one step.

### ProfileSwitch, CodexLifecycle and SwitchSession

`home` is the Codex directory: `auth.json`, `config.toml`, the provider of each
row and of each chat file's first line; `config.toml` and `auth.json` may be absent.
Switch, repair, edit and restore are
sequences of the same steps; a failing step turns to the restore of the
operation's own backup, which brings back what that backup has and removes nothing.
An edit changes the profile's API key and its entry in the state as well, and has an undo for
both.  A backup is put among the others by its name (`Named`), which
is the wall clock's, and they are pruned by name to `Limit` where the code prunes.
Codex, while it runs, writes rows, chats and logins.

`CodexLifecycle` is the closing: two looks at the chats for a turn in progress,
a query of processes, the ancestry that tells the desktop's processes from
independent command lines, handles that pin a process against reuse of its id,
a last look, terminations one by one, and the wait.  Processes start and exit
all the time, and any process starts others, so chains of every length arise and lose
their middle (`up` is the parent as it really was, `root` the desktop it comes from).  `SwitchSession` puts the first operation behind a closing; the
later ones take the closing as one step.  As the closing does not look at the directory,
what is in it is settled only when the operations begin (`HandOver`).

### Credentials

A login is an account and a generation; refreshing it spends it.  Operations
hold the service's lock (`pc`, `job`), a quota query (`quota`) and the settings
page (`settings`) do not, and a capture reads `auth.json` before it waits for it
(`capture`).  A credential file and the document are written one
after the other, and either write, and the unlink of a credential, may fail
(`SaveFails`, `UnlinkFails`): nothing undoes the one before.  A query may fail after
it refreshed the login (`QuotaFails`).

### HistoryConflict and RemoteSync

A chat file is a place and a sequence of events, so that "most complete" and
"diverges" are what the code computes: prefixes.  The resolution is report,
choice, cold backup, copies into quarantine, unlink one by one after a check of
the bytes, database, verification, and an undo.  `RemoteSync` uses the same
`home` for a remote machine (`remote`): scripts `1..MaxTries` reconcile it, each
can die or be cut off from its ssh client, and the guardian tries again while
the first may still run.  Between a script's look at a name and its `os.replace`
another script, or Codex, may take that name (`SeenFree`), and the rewriting of a first line
goes through a temporary name that both scripts use (`Rewrites`).

## 3. Runs

Two workers, five minutes at most each.

| Run | Instance | Shows |
|---|---|---|
| `breaker` | 1 route, 2 fingerprints, 2 revisions, 2 attempts, 3 tickets, 2 ticks, thresholds 2 | `TicketsMatch`, `OneProbePerRoute`, `DocumentIsSound`, `OpenRouteCanRecover`, `EvidenceKept` |
| `requests_two` | 2 requests, 4 tickets | `DrainIsExact`, `TicketsHaveRequests` |
| `requests_served` | 1 request at a time, every outcome, both risks, 2 instants, crashes | `NoReplayOfSideEffects`, `DoubleChargeReported`, the refinement `KeepsContract`, the liveness `DrainCompletes` |
| `requests_probed` | 1 request that may be cancelled, 1 probe, 2 revisions, recovery needs 2 successes | `VersionsAccountedFor`, `PinnedVersionsLive`, `CancelKeepsHealth` |
| `config_transaction` | 2 documents, one of which needs a restart, 2 revisions, 3 instants, a candidate lives 1 | `FileIsKnown`, `AckedSurvives`, `StagedIsSound`, `FailsClosed`, the refinement `KeepsRegister` |
| `supervisor` | both machines, 2 supervisors, 2 restarts in a window of 3, gateways end before 5, a clock set back by 1 and right again | `CrashLoopEnds`, `LatchForbidsStart`, the liveness `EventuallyServed` |
| `upgrade` | 3 releases, with or without one installed; Windows, Linux, remote under systemd and under cron | `ReportIsTrue`, `MixtureIsMarked`, `NeverTwoReleases`, `RemoteRecoveredServes` |
| `publication` | 2 groups, 3 profiles, 3 revisions; or 3 texts of `config.toml` | `ReportsAreTrue`, `RoutesAreKept`, `OriginalComesBack` |
| `switch` | 3 process ids, 4 starts of processes, a turn that comes and goes; then 1 official and 1 API profile, `config.toml` there or not, 1 chat, 3 backups under a limit of 2 (or 2 and a start of Codex by the user), named in any order | `KillsAreAllowed`, `ClosedIsClosed`, `SuccessIsExact`, `FailureLosesNothing` |
| `logins_kept` | 2 accounts, 2 profiles, 2 generations, failing writes | `ProfilesMatchStore`, `NoLoginLost` |
| `logins_synced` | 1 account, 2 profiles, 3 generations | violates `SyncKeepsNewest`, see below |
| `conflict` | 1 chat, 2 active and 1 archived place, bodies of up to 2 events; 1 resolution, or 2 tries of a script | `ResolutionIsExact`, `NothingLost`, `FailureCanBeUndone`, `SyncIsAtomic`, `LoginKept` |

`PROJECT.json` names for each property a faulty variant of a definition
(`Bad...`) with which TLC finds it violated.

Bounds.  Two revisions are enough for a ticket of an older one to meet a newer
one; three or four tickets let a route fail to its threshold, be probed, fail
again and recover; two ticks let a cooldown of one or two end or be renewed.
`MaxEpoch` and `MaxLeases` only limit new admissions: a request that is inside
can always finish, so the bounds cause no false deadlock and no false liveness.
For the configuration transaction two revisions let an envelope meet a
configuration that has moved on, and three instants let the clock be set back
by more than a candidate lives.  For the supervisor a window of 3 and 2 restarts
let a third crash fall into or out of the window, and 5 instants let a restart
be forgotten by time and one by a stable run; there the clock is set right only
after it was set back, as a clock that runs ahead is like a later start.  Three releases let an upgrade
follow one that failed.  Three process ids and four starts let a desktop, its
child, its grandchild or a command line exist together and one id be used again.  A limit of
two backups and three taken make every prune happen (the code's limit is 3 to
50; only that the earliest names go matters).  After two programs have replaced one
file at the same moment (`torn`) a script's chats are followed no further
(`Followed`), as no property speaks of them.  Three places let two copies diverge beside a
complete one.  Symmetry is used for keys, fingerprints, attempts, requests,
profiles, groups, accounts, releases and places, never in a run with liveness.

Fairness.  `RequestStep(r)` is weakly fair: an attempt always ends because
connect, first byte, idle and total timeouts bound every await in
`attempts.py`, and the rest is the event loop.  `ReadBody` and `EndCommit` are not in
it: `request.read` (`ingress.py:240`) and `downstream.write` have no timeout, and a
client that stalls in either holds its handler, and a drain, for ever.  That the
clients do not (`ClientsKeepUp`) is therefore a hypothesis of the two liveness
properties of the request path, written in them.  Crashes, drains,
configurations and probes are not fair.  In `Supervisor` time passes, a live
supervisor takes its steps, and cron starts one again (its line runs every
minute); a kill, the end of a gateway or an operator's reset is never fair, and
on Windows nothing restarts a killed supervisor, so `EventuallyServed` is about
machines with cron.

### A finding

`logins_synced`: before a switch `_sync_live_official_profile`
(`backend/guardian.py:1582`) stores the login of `auth.json` in the current
profile and logs that the newest credential of the account was saved back
(`:1587`).  A quota query that ran before has refreshed the profile's copy and
saved it there only (`:1452`), which spent the one in `auth.json`.  The switch
overwrites the usable login with the spent one.

### What the properties leave out

Some properties are stated for behaviours without a certain event, which a
history variable marks; the event is in the model, and this is what it does.

* `lost`, `unmarked`: the process dies in the middle of an operation
  that keeps no journal.  A deployer that dies leaves a mixture without marker.
* A double charge that is not reported: when `record_success` or `_record_failure`
  raises after the backup's attempt, `proxy` answers with an error that says
  `possible_double_charge=False` (`service.py:232-243`).  `DoubleChargeReported` excepts
  the verdict "error".
* `ClientsKeepUp`: a client that stalls its body or its answer; see Fairness.
* `lapsed`: a supervisor that is killed together with every gateway, or that can never save
  its document, is started again by cron without end (`supervisor.py:142`,
  `cron_supervisor.py:162`); `RestartsBounded` bounds the counted restarts then too, and
  `StartsBounded` all starts as long as no end went uncounted.
* `owed` and its absence: on Linux a stop that took effect and reports failure
  leaves `stopped` false, so the undo does not restart and reports recovered with
  the old gateway down (`linux_deployment.py:624`); a drain that fails leaves it drained.
  Files and pointer are back in either case (`RecoveredIsBack`), the gateway is claimed
  in service only otherwise (`ServiceKept`).
* `mixed`: between the undo of `active.json` and that of the crontab, cron may run
  the new release's line, and `verify_gateway` then accepts that code under the old
  configuration (`remote_gateway_deployment.py:498`); with systemd only a script that
  died half-way leads there.
* A running server whose parent came and went between two queries of the closing: no
  chain joins it to the desktop any more, and a forced close reports it closed
  (`codex_lifecycle.py:333`).  `ClosedIsClosed` is about the processes whose parents
  a query showed.
* What a backup does not have: `_restore_files_from_backup` (`guardian.py:3202`) removes no
  file.  A failed switch in a directory without `config.toml` leaves one that names the new provider
  beside rows of the old one, and its log says it was rolled back; a restore of such a
  backup leaves the present file.  `SameAs` claims `config.toml` and `auth.json` only
  where the backup has them.
* `Kept`: a clock set back behind `backup_limit` older folders makes the fresh backup
  the first to be pruned (`guardian.py:2890`, `:3187`), and a failure then finds
  nothing to restore.
* An edit's old API key is in no backup: if the guardian dies between the key and
  the entry, it is lost.
* `stray`: the document cannot be saved after the credential, or the
  credential not be unlinked after the document (`guardian.py:1551`, `:1630`, `:1845`), or the
  guardian dies in between.  An orphan credential is then left, and nothing removes
  it; the property claims that there are no others (unless `overwrote`), and that none is
  taken for another account's.
* `overwrote`: `update_settings` loads and saves the document without the lock
  and may undo another request's change.
* `unseen` of `Publication`: `delete_profile` decides under its own lock, so a
  group saved at the same time may come to name a deleted profile.  No property
  covers that race; `RoutesAreKept` is about everything else.
* `raced`: the user starts Codex between the check that it is closed and the
  end of the operation (`guardian.py:2667`); nothing locks it out.
* `overlap`: two reconciliation scripts run at once on a remote machine after
  a lost connection.  `NothingLost` holds then too, unless `torn`; wholeness is not
  claimed.
* `torn`: two scripts, or a script and Codex, replace one file between the other's
  look and its write (`remote_sync.py:980`, `:1079`), or write its first line through the
  same temporary name (`:846`).  A chat can lose its most complete copy, or its end.
* `spoilt`: the guardian dies between `config.toml` and `state.json`, or two
  activations overlap (`guardian.py:582-608` takes no lock), and one keeps the gateway's
  file over the user's.  The next
  activation after a death takes the file that names the gateway for the user's own, and
  a restore puts that one back and reports success (`guardian.py:617`).  After
  a profile switch while the gateway is active, activation (conflict) and
  restore (drift) both refuse.  The undo for an absent `config.toml` leaves an
  empty file.

Further: the breaker's wall clock (`breaker.py:257`) only moves forward in the model; set
back, a cooldown lasts that much longer.  A query whose refresh succeeded and which
then fails drops the refreshed login (`guardian.py:1313`, `:1355`), and what is stored is spent;
`NoLoginLost` is about the login in `auth.json` only.  The overview after a publication's save
(`failover.py:1454`) may raise, and the user then sees a failure of what was published.  A credential and a
configuration stay written on a remote machine after a reconciliation that fails;
and the provider is in the payload only if the local `config.toml` can be read and names it
(`remote_sync.py:28`).

Also seen while modelling, without a run: after a forced close that succeeded,
a turn found by `_ensure_no_active_turns` is reported with a text that says Codex
was not closed; `docs/聊天冲突安全处理图文教程.md:92` promises that no process is
ever terminated by force, while the desktop's are on request; a first remote deployment
reports recovered although its new gateway may still run, because the failure of
the stop is passed over (`remote_gateway_deployment.py:780`).

## 4. Proofs

The first part of `FailoverRequest_proofs` is about `CircuitBreaker` alone.  It
proves, for every set of keys, fingerprints and attempts, every policy
`CircuitBreakerPolicy` accepts and every bound:
`Spec => []TypeOK`, `[]TicketsMatch`, `[]OneProbePerRoute`,
`[]PinnedVersionsLive`.  None of the last three is inductive alone.  `Inv` adds

* `RevisionsRise`: all versions of a configuration have its revision and no
  version in use has a higher one, so the versions of the next configuration
  are new and cannot inherit tickets;
* `TicketInv`: a ticket is guarded if and only if its version is now UNKNOWN
  or HALF_OPEN.  This is what makes a guarded ticket the only one of its
  version, and so a report that changes the state removes nobody else's probe;
* `DeadIsEmpty`: a process that is down has no runtimes and no tickets.

The proof has a lemma for every operator on a runtime (a report keeps the
epoch unless it changes the state), one for the save in doubt
(`PersistKeepsInv`), and one per action.  The assumptions are
`PolicyAssumption` and `BoundAssumption`, which TLC evaluates in every run.

`ConfigTransaction_proofs` proves, for every set of documents and every bound,
each property of `ConfigTransaction` that TLC checks, and its types: `FileIsKnown`
(`FileIsServed` and `OwnStepsKeepFile`), `AckedSurvives`, `StagedIsSound`
(`StagedOnBase`, `StagedBounded` and `AbortIsFinal`), `FailsClosed`, and that
`Spec` implements `ConfigRegister`.  Its invariant `Inv` adds to the properties

* `MemoryInv`: a process serves what it holds, and the hash it knows is that of
  a file with this configuration;
* `ReplacedInv`: during an activation the file is the candidate's, unless
  somebody else wrote it;
* `AckedInv`: what was reported active is in the *file* too, or a later
  revision is, which is what a crash leaves and a start reads;
* `PendingInv`: no envelope on disk holds an aborted candidate, which is what
  a start recovers.

The rollback is right because of `StagedOnBase`: the payload it restores is
the one whose hash the host still knows.  The refinement maps each action to
one of the register's; the end of an activation is `Switch`, or `Edit` when
another program wrote the file meanwhile, and so is a crash in between.  The
assumption is `ConfigAssumption`.

The registry's other properties rest on a second and a third invariant, each
proved from `Inv` and itself:

* `SoundInv` (`DocumentIsSound`, `OpenRouteCanRecover`): every runtime, in memory
  and in the document, is one the loader accepts; a route with tickets is
  neither open nor disabled, so no late report reaches one that is; and the
  document is the memory unless a save is in doubt.  The property alone is not
  inductive: what a start loads is the document, not the memory that was sound.
* `EvidenceInv` (`EvidenceKept`): the registry and the file name one version of
  a route, so the evidence has one place to go, and a route that carries an
  alarm is tried by manual probes only.

The second part proves for every set of requests and probes that
`GatewaySpec` keeps `DrainIsExact`, `TicketsHaveRequests`, `VersionsAccountedFor`,
`NoReplayOfSideEffects` and `DoubleChargeReported`, the action property
`CancelKeepsHealth`, and the safety part of the refinement: `ContractSafety` of
`RequestContract` under the mapping of the run.  `GatewayInv` is the registry's
three invariants together with what each place of a handler (`HandlersInv`) and
of a probe (`ProbersInv`) knows: which ticket it holds, what that ticket is in
the registry, which of its attempts may have been executed, and which lease and
pins are its own.  The registry's lemmas are reused as they are: a step of a
request is a step of the registry, or leaves it alone.  That is a theorem of its
own (`UsesRegistry`: `GatewaySpec` implies `Init /\ [][Operation]_vars`, the registry's
methods without the bounds of its runs), and so the registry's properties,
`EvidenceKept` included, hold in the gateway too, where the runs check only
`PinnedVersionsLive` of them (`RegistryStaysSafe`, `GatewayKeepsEvidence`).

`Supervisor_proofs` proves for every set of supervisors, every restart policy
and every clock that `CrashLoopEnds` holds and that `LatchForbidsStart` is
obeyed.  `SupervisorInv` says that a supervisor that runs has the lock
(`HolderInv`), and that the crashes in its memory and in the document are linked
to the restarts of the history variable, newest with newest (`Linked`,
`MemoryInv`, `DocumentInv`): a restart that is not counted any more is out of the
window.  `TimeInv` orders the restarts by the monotonic clock and spaces them:
`MaxRestarts` restarts later at least a window has passed.  `StartsInv` says that
starts and counted restarts alternate unless an end went uncounted, and so a
window holds no more than one start more than it holds restarts.

`RemoteDeployment_proofs` proves `ReportIsTrue`, `MixtureIsMarked`,
`RemoteRecoveredServes` and `NeverTwoReleases` for the three deployments and every
set of files and releases.  `DeploymentInv` says that a deployment finds the
machine whole, with the files of the release the pointer names, and leaves it
so or marked (`WholeInv`), and for each place which of the old files, the old
pointer and the old gateway are still, or again, there (`PlaceInv`,
`RemotePlaceInv`).  `StartedInv` says that a gateway's code and its configuration are of one
release unless `mixed`.

`ProviderActivation_proofs` proves `ReportsAreTrue` and `RoutesAreKept` both for
the publication alone and beside an activation, and `OriginalComesBack`.
`PublicationInv` says for each place of a publication what the gateway may run
(`PlaceInv`: a lost answer leaves two possibilities, a lost request one), whose
keys are kept (`SecretInv`) and that the routes in force are those of profiles
that exist (`ProfileInv`).  `ProviderInv` follows the user's `config.toml` through
activation, restore and their undos, as long as no step is spoilt (`UnspoiltInv`).

`SwitchSession_proofs` proves `KillsAreAllowed`, `ClosedIsClosed`, `SuccessIsExact`
and `FailureLosesNothing` for every number of processes, process ids, chats and
backups.  The closing (`CloseInv`) needs the machine's own law, that a start
time is used once and a link that does not lead into the future joins processes
of one desktop (`MachineInv`); that nothing the guardian remembers is of the
future, so a reused process id never matches (`MemoryInv`); and that while it
may kill there is no turn but a late one (`GuardInv`).  The ancestry is the
smallest set closed under `IsParent`, which the proof compares with the set of
processes of one root.  The operations (`SwitchInv`) need that no two backup
folders share a number (`BackupInv`), that the operation's own backup and the
chosen one are not pruned while it runs (`SavedInv`), and how much has been
migrated (`MigrationInv`) or put back (`RestoreInv`).

`Credentials_proofs` proves `ProfilesMatchStore` and `NoLoginLost`.  Besides the
document and the credential files on disk there are older ones that may still be
written over them: the document an operation has loaded, that of the settings
page, which takes no lock, and the credential a quota query has read.
`ProfilesMatchStore` speaks only of what is on disk, so it is not inductive.
`CredentialInv` says of all of them that

* an id belongs to one account for ever (`OwnerInv`: there is a function from ids
  to accounts with which every document, credential file and copy agrees), which
  holds because ids are not used twice; therefore an older document or a late
  copy may bring a profile back but never give it another account's login;
* none gives an account two profiles (`SingleInv`), and the document an operation
  is about to save has no other profile of the account (`StoredInv`);
* unless settings were saved over a newer document, the profiles are those with
  a credential, but for the one just stored or just deleted and those whose save or
  deletion broke off (`ProfileInv`);
* during a switch Codex is closed, and before auth.json is replaced its login is
  in the profile of its account, or there is none (`SwitchInv`).

`RemoteSync_proofs` proves `NothingLost`, `ResolutionIsExact`, `FailureCanBeUndone`,
`SyncIsAtomic` and `LoginKept` for `RemoteSpec`, that is for the resolution at home
and for the scripts on a remote machine, whatever the numbers of chats, places,
events, tries and logins.  `RemoteInv` has two halves.

* `ConflictInv` is about the resolution.  `SurviveInv` is `NothingLost` without
  the copy that is about to be unlinked: its check of the bytes was made before.
  It is about files that were not torn; a file can be torn only beside another
  writer (`NotAlone`), so the invariants of a script that is alone do not see it.
  `ChoiceInv` says that what the user saw is what the resolution began with, and
  that each copy that may be unlinked begins with what he saw and is in
  quarantine.  `QuietInv` says, as long as Codex was not started, what every
  place still holds, and that a file that is gone is on the list of those to be
  put back.
* For the scripts, `Formed` and `SyncInv` hold whatever runs at once: a script
  that was not sent is not there, an earlier one is over unless two overlapped.
  `AloneInv` is about the others.  The home and the first lines are those found
  by the script, changed by its list of moves and patches (`MovesInv`, `RowsInv`);
  no file moves twice and a place is taken only after it was left (`OrderInv`),
  so the list can be undone from its end; and a copy still to be set aside begins
  the one that is kept (`PlanInv`), so the most complete one never leaves the home
  (`KeptInv`).  `LoginInv` says that the machine's login is the one fetched unless
  it was not seen.

`FailureIsUndone` is not inductive without `OrderInv`: undone in another order, a
move would find its old place taken by a later one.  `MissingAssumption` and
`StateAssumption` say that the value for "no file" is none of the others.

The assumptions of all these proofs are the named `ASSUME`s on the constants,
which TLC evaluates.

So every safety property of the passing runs is a theorem.  Only model-checked
are the liveness properties, `EventuallyServed`, `DrainCompletes` and `LetsGo` of
`RequestContract` in `KeepsContract`: liveness under fairness, and the ENABLED it
rests on, are out of the prover's reach.  `SyncKeepsNewest` is the violated one.

## 5. Not modelled, and the plan

Values that only travel (headers, bodies, model names, error texts), the
journal, alerts and health reports, secret storage, the single-route core, the
UI, the HTTP API, the installer and the tools are left out: no control depends
on them.  The OAuth and quota protocols are outcomes in `Credentials`.  Inside
modelled parts: a probe's report that raises leaves its ticket
(`probe_scheduler.py:181`; the model has the step, no document promises
otherwise); the descriptor and the reconciliation after a commit
(`app.py:541`); the registry and the configuration transaction are not composed,
so what a crash between the file and the registry's save does to an alarm is
not stated (`app.py:498`); two remote deployments of two windows at once.

Next, in this order:

1. `ResponseStream` (`gateway/protocols/responses.py`): the validator against a
   reference definition of a well-formed stream.
2. `Updater` (`backend/updater.py`) and the Claude desktop profiles
   (`backend/claude_desktop.py`).
