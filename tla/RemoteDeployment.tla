-------------------------- MODULE RemoteDeployment --------------------------
(***************************************************************************)
(* Replacing the gateway's release on a remote machine                     *)
(* (backend/remote_gateway_deployment.py): a script is sent through ssh    *)
(* and does there what linux_deployment.py does, with differences.  It     *)
(* looks at no release but its own; under cron it takes its line out of    *)
(* the crontab first; and it always undoes everything, even the stop of a  *)
(* gateway that is not its own, stopping as far as it can.  Meanwhile cron *)
(* runs the line whenever it is there and no supervisor is running.        *)
(*                                                                         *)
(* The crontab line is the "unit" of Deployment: it names the supervisor   *)
(* of one release, and that starts its own release's gateway, whatever the *)
(* pointer says.  The gateway serves the configuration it finds, provided  *)
(* the pointer is of the same version, and answers with that version.  A   *)
(* second gateway cannot start beside a first one, which holds the         *)
(* singleton lock.  One script runs at a time; a supervisor that waits     *)
(* between two restarts is left to Supervisor.                             *)
(***************************************************************************)
EXTENDS Deployment, Sequences, SequencesExt

VARIABLES
    supervisor,  \* "local": Deployment; else what keeps the gateway alive
    serves,      \* the configuration the gateway that runs was started with
    mixed        \* history: since the script began a gateway ran that was
                 \* started with the configuration of another release

served == <<serves, mixed>>
remoteVars == <<vars, supervisor, served>>

Remote == supervisor # "local"

RemoteInit ==
    /\ Init
    /\ supervisor \in {"local", "systemd_user", "cron_user"}
    /\ Remote => linux
    /\ serves = running /\ mixed = FALSE

-----------------------------------------------------------------------------
\* from_release: what the script carries.
Envelope(v) == [f \in Files |-> v]

\* The files in the order in which they are replaced, the pointer among them.
Order == <<"active.json", "secrets", "pointer", "unit">>

Fails == pc' = "r_stop" /\ UNCHANGED <<job, verdict, marker, unmarked>>

\* _ensure_version_pointer: a gateway ends at once unless the pointer is of the
\* version its configuration says.
Startable == pointer # Missing /\ pointer.version = files["active.json"]

\* A supervisor starts the gateway of v, unless one is there already.
Launched(v) ==
    IF running = Missing /\ v # Missing /\ Startable
    THEN /\ Started(v) /\ serves' = files["active.json"]
         /\ mixed' = (mixed \/ v # files["active.json"])
    ELSE Idle /\ UNCHANGED served

\* verify_gateway: what answers takes requests and names that configuration.
Answers(config) == running # Missing /\ accepting /\ serves = config

-----------------------------------------------------------------------------
\* _validate_envelope: nothing is sent.
EnvelopeRefused == Refuse

\* validate_manifest, require_environment, the marker or a version that is there.
PayloadRefused == Refuse

\* The release is staged and renamed, and stays whatever follows.
Staged(v) == Install(v)

\* main up to the transaction.  Afterwards a pointer or a configuration that
\* cannot be read ends it.
RemoteBegins(v) ==
    /\ pc = "idle" /\ ~ marker /\ Staged(v)
    /\ \/ /\ pointer # Missing => files["active.json"] # Missing
          /\ job' = [target |-> v, before |-> pointer, saved |-> files,
                     activated |-> FALSE, stopTried |-> FALSE, stopped |-> FALSE,
                     owed |-> FALSE]
          /\ pc' = CASE pointer = Missing -> "ports"
                     [] pointer # Missing /\ supervisor = "cron_user" -> "uncron"
                     [] OTHER -> "drain"
          /\ verdict' = "none"
       \/ verdict' = "refused" /\ UNCHANGED <<job, pc>>
    /\ mixed' = (running # Missing /\ running # serves)
    /\ UNCHANGED <<linux, pointer, files, running, accepting, marker, unmarked, serves>>

\* cron_without_managed: cron shall not start what is about to be stopped.
RemoveCronLine ==
    /\ pc = "uncron" /\ Idle /\ UNCHANGED <<linux, release, pointer>>
    /\ \/ files' = [files EXCEPT !["unit"] = Missing] /\ GoTo("drain")
       \/ files' \in {files, [files EXCEPT !["unit"] = Missing]} /\ Fails

DrainGateway ==
    /\ pc = "drain" /\ UNCHANGED <<linux, Store>>
    /\ \/ running # Missing /\ Drained /\ GoTo("stop")
       \/ (Drained \/ Idle) /\ Fails

StopGateway ==
    /\ pc = "stop" /\ UNCHANGED <<linux, Store>>
    /\ \/ Stopped /\ GoTo("ports")
       \/ (Stopped \/ Idle) /\ Fails

\* Both ports can be bound, so no gateway is left.
RequirePorts ==
    /\ pc = "ports" /\ Idle /\ UNCHANGED <<linux, Store>>
    /\ \/ running = Missing /\ GoTo("bundle")
       \/ Fails

NewPointer == [version |-> job.target, previous |-> Release(job.before)]
New(f) == IF f = "pointer" THEN pointer = NewPointer
          ELSE files[f] = Envelope(job.target)[f]

\* The next of Order is replaced, or cannot be.
WriteRemote ==
    /\ pc = "bundle" /\ Idle /\ UNCHANGED <<linux, release>>
    /\ \E n \in 1..Len(Order) :
          /\ ~ New(Order[n]) /\ \A k \in 1..(n - 1) : New(Order[k])
          /\ \/ /\ IF Order[n] = "pointer"
                   THEN pointer' = NewPointer /\ UNCHANGED files
                   ELSE /\ files' = [files EXCEPT ![Order[n]] = Envelope(job.target)[Order[n]]]
                        /\ UNCHANGED pointer
                /\ GoTo("bundle") \/ Fails
             \/ UNCHANGED <<pointer, files>> /\ Fails

AllWritten ==
    /\ pc = "bundle" /\ Idle /\ UNCHANGED <<linux, Store>>
    /\ \A f \in Range(Order) : New(f)
    /\ GoTo("start") \/ Fails

\* systemctl restart runs the unit; under cron the script runs the supervisor.
StartRemote ==
    /\ pc = "start" /\ UNCHANGED <<linux, Store>>
    /\ \/ Launched(files["unit"]) /\ GoTo("verify")
       \/ Launched(files["unit"]) /\ Fails
       \/ Idle /\ UNCHANGED served /\ Fails

VerifyRemoteNew ==
    /\ pc = "verify" /\ Idle /\ UNCHANGED <<linux, Store>>
    /\ \/ /\ Answers(job.target) /\ pc' = "idle" /\ verdict' = "done"
          /\ UNCHANGED <<job, marker, unmarked>>
       \/ Fails

-----------------------------------------------------------------------------
\* The undo stops what answers on the new ports, and goes on if that fails.
StopForUndo ==
    /\ pc = "r_stop" /\ UNCHANGED <<linux, Store>>
    /\ \/ (Stopped \/ Idle) /\ GoTo("r_files")
       \/ (Stopped \/ Idle) /\ End(FALSE)

\* The undo's order: the unit is the first file, the crontab the last.
UndoOrder == IF supervisor = "cron_user"
             THEN <<"secrets", "pointer", "active.json", "unit">>
             ELSE <<"unit", "secrets", "pointer", "active.json">>

Back(f) == IF f = "pointer" THEN pointer = job.before ELSE files[f] = job.saved[f]

\* restore, one file after the other.
UndoFile ==
    /\ pc = "r_files" /\ Idle /\ UNCHANGED <<linux, release>>
    /\ \E n \in 1..Len(UndoOrder) :
          /\ ~ Back(UndoOrder[n]) /\ \A k \in 1..(n - 1) : Back(UndoOrder[k])
          /\ \/ /\ IF UndoOrder[n] = "pointer"
                   THEN pointer' = job.before /\ UNCHANGED files
                   ELSE /\ files' = [files EXCEPT ![UndoOrder[n]] = job.saved[UndoOrder[n]]]
                        /\ UNCHANGED pointer
                /\ GoTo("r_files")
             \/ UNCHANGED <<pointer, files>> /\ End(FALSE)

FilesAreBack ==
    /\ pc = "r_files" /\ Idle /\ UNCHANGED <<linux, Store>>
    /\ \A f \in Range(UndoOrder) : Back(f)
    /\ IF job.before = Missing THEN End(TRUE) ELSE GoTo("r_start") \/ End(FALSE)

\* systemctl restart ends what runs before it runs the unit; under cron the
\* script runs the supervisor of the release the pointer names again.
OldLine == IF supervisor = "cron_user" THEN Old ELSE files["unit"]
RestartOld ==
    /\ pc = "r_start" /\ UNCHANGED <<linux, Store>>
    /\ \/ /\ supervisor = "systemd_user" /\ running # Missing
          /\ Stopped /\ GoTo("r_start") /\ UNCHANGED served
       \/ /\ supervisor = "cron_user" \/ running = Missing
          /\ Launched(OldLine) /\ GoTo("r_verify")
       \/ Launched(OldLine) /\ End(FALSE)
       \/ Idle /\ UNCHANGED served /\ End(FALSE)

BadVerifyRemoteOld ==
    /\ pc = "r_verify" /\ Idle /\ UNCHANGED <<linux, Store>>
    /\ End(TRUE)

VerifyRemoteOld ==
    /\ pc = "r_verify" /\ Idle /\ UNCHANGED <<linux, Store>>
    /\ \/ Answers(job.saved["active.json"]) /\ End(TRUE)
       \/ End(FALSE)

\* Cron runs the line, and with it the supervisor of the release it names.
CronTick ==
    /\ supervisor = "cron_user" /\ files["unit"] # Missing
    /\ running = Missing /\ Startable
    /\ Launched(files["unit"])
    /\ UNCHANGED <<linux, Store, marker, pc, job, verdict, unmarked>>

-----------------------------------------------------------------------------
RemoteNext ==
    \/ /\ \/ EnvelopeRefused \/ PayloadRefused
          \/ RemoveCronLine \/ DrainGateway \/ StopGateway \/ RequirePorts
          \/ WriteRemote \/ AllWritten \/ VerifyRemoteNew
          \/ StopForUndo \/ UndoFile \/ FilesAreBack \/ VerifyRemoteOld
          \/ Crash
       /\ UNCHANGED served
    \/ \E v \in Versions : RemoteBegins(v)
    \/ StartRemote \/ RestartOld \/ CronTick

DeploymentNext ==
    /\ IF Remote THEN RemoteNext ELSE Next /\ UNCHANGED served
    /\ UNCHANGED supervisor

DeploymentSpec == RemoteInit /\ [][DeploymentNext]_remoteVars

-----------------------------------------------------------------------------
\* What answers serves that configuration, and is of its release unless a
\* gateway was started with the configuration of another one; with systemd that
\* takes a script that died half-way.
Serves(config) ==
    /\ Answers(config)
    /\ running = config \/ (mixed /\ (supervisor = "cron_user" \/ unmarked))

\* A script that reports recovered has seen the configuration in service that
\* it found, the old release's unless a script died before; although cron may
\* have run a line in the meantime, the stop of the new gateway may have failed
\* and a second one cannot start beside it.  The code that serves it is of the
\* same release, except where verify_gateway cannot tell: between the undo of
\* the configuration and that of the crontab the new release's line may run.
RemoteRecoveredServes ==
    Remote /\ verdict = "recovered" /\ job.before # Missing =>
        /\ Serves(job.saved["active.json"])
        /\ ~unmarked => job.saved["active.json"] = Old

\* What a deployment reports, success or recovery, is what it left, on disk and
\* in service.
ReportIsTrue ==
    /\ SuccessIsWhole /\ RecoveredIsBack
    /\ IF Remote THEN verdict = "done" => Serves(job.target) ELSE ServiceKept

\* The inductive invariant of the script, and of both deployments.
StartedInv ==
    /\ serves \in Versions \cup {Missing} /\ mixed \in BOOLEAN
    /\ Remote => /\ running # Missing => running = serves \/ mixed
                 /\ mixed => supervisor = "cron_user" \/ unmarked
RemotePlaceInv ==
    /\ linux
    /\ pc \in {"start", "verify"} => AllNew
    /\ pc \in {"r_start", "r_verify"} => AllOld
    /\ RemoteRecoveredServes
DeploymentInv ==
    /\ supervisor \in {"local", "systemd_user", "cron_user"} /\ StartedInv
    /\ TypeOK /\ WholeInv /\ ReportIsTrue
    /\ IF Remote THEN RemotePlaceInv ELSE PlaceInv
=============================================================================
