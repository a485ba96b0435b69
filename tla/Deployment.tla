----------------------------- MODULE Deployment -----------------------------
(***************************************************************************)
(* Replacing the gateway's release on one machine: the upgrade of          *)
(* gateway/deployment.py (Windows) and the deployment of                   *)
(* gateway/platforms/linux_deployment.py, which also replaces the          *)
(* configuration, the secrets and the service unit.  Both install a        *)
(* release beside the old one, stop the old gateway, move the pointer,     *)
(* start the new gateway and check its health, and undo all of it when one *)
(* of these steps fails.                                                   *)
(*                                                                         *)
(* Every await of the code is a step of its own.  A callback that reports  *)
(* failure may still have done its work.  What a file holds is named by    *)
(* the version it was written for.                                         *)
(***************************************************************************)
EXTENDS Naturals, FiniteSets

CONSTANTS
    Versions,  \* releases
    First,     \* the release deployed at first, if any is
    Missing    \* no pointer, no file, no process

VARIABLES
    linux,      \* which machine this is: linux_deployment.py or deployment.py
    release,    \* the version directories
    pointer,    \* current.json
    files,      \* what the files hold
    running,    \* the release of the gateway process
    accepting,  \* it takes requests
    marker,     \* deployment.state-uncertain.json
    pc,         \* where the deployment is
    job,        \* its local variables
    verdict,    \* how the last deployment ended
    unmarked    \* history: one ended without a word, or its marker could
                \* not be written

vars == <<linux, release, pointer, files, running, accepting, marker, pc, job,
          verdict, unmarked>>

\* What StdinBundleApplier writes, and the unit; an upgrade on Windows leaves
\* the configuration alone.
Bundle == IF linux THEN {"active.json", "secrets"} ELSE {}
Files  == IF linux THEN Bundle \cup {"unit"} ELSE {}
Contents == [Files -> Versions \cup {Missing}]

\* A version directory and the manifest with the hashes of its files.
ReleaseStates == {"absent", "intact", "damaged"}

Pointers == [version : Versions, previous : Versions \cup {Missing}]

\* Missing stands for what is not there, so it is none of these.
ASSUME DeploymentAssumption ==
    First \in Versions /\ Missing \notin Versions \cup Pointers

Jobs == [target : Versions, before : Pointers \cup {Missing},
         saved : Contents, activated : BOOLEAN, stopTried : BOOLEAN,
         stopped : BOOLEAN,
         owed : BOOLEAN]  \* history: the old gateway was found in service, and
                          \* no drain or stop of it failed unexamined

Places == {"idle", "drain", "stop", "bundle", "unit", "activate", "start",
           "verify", "r_bundle", "r_stop", "r_files", "r_pointer", "r_health",
           "r_start", "r_verify", "r_check", "uncron", "ports"}

TypeOK ==
    /\ linux \in BOOLEAN /\ release \in [Versions -> ReleaseStates]
    /\ pointer \in Pointers \cup {Missing}
    /\ files \in Contents
    /\ running \in Versions \cup {Missing} /\ accepting \in BOOLEAN
    /\ marker \in BOOLEAN /\ pc \in Places /\ job \in Jobs
    /\ verdict \in {"none", "refused", "done", "recovered", "failed"}
    /\ unmarked \in BOOLEAN

Init ==
    /\ linux \in BOOLEAN
    /\ \/ /\ release = [v \in Versions |-> IF v = First THEN "intact" ELSE "absent"]
          /\ pointer = [version |-> First, previous |-> Missing]
          /\ files = [f \in Files |-> First] /\ running = First
       \/ /\ release = [v \in Versions |-> "absent"] /\ pointer = Missing
          /\ files = [f \in Files |-> Missing] /\ running = Missing
    /\ accepting = TRUE /\ marker = FALSE /\ pc = "idle"
    /\ job = [target |-> First, before |-> Missing, saved |-> files,
              activated |-> FALSE, stopTried |-> FALSE, stopped |-> FALSE,
              owed |-> FALSE]
    /\ verdict = "none" /\ unmarked = FALSE

-----------------------------------------------------------------------------
\* inspect, and load_pointer's and restore_pointer's use of it.
Intact(v) == v # Missing => release[v] = "intact"
Loads(p)  == p # Missing => Intact(p.version) /\ Intact(p.previous)

\* activate: the pointer that makes v current.
NextPointer(v) ==
    IF pointer # Missing /\ pointer.version = v THEN pointer
    ELSE [version  |-> v,
          previous |-> IF pointer = Missing THEN Missing ELSE pointer.version]

Old == job.before.version

\* What the job recovers first when a step has failed.
RecoverAt(j) ==
    CASE j.activated -> "r_stop"
      [] ~j.activated /\ linux -> "r_files"
      [] ~j.activated /\ ~linux /\ j.stopTried -> "r_health"
      [] OTHER -> "r_check"

GoTo(place) == pc' = place /\ UNCHANGED <<job, verdict, marker, unmarked>>
Recover(j)  == pc' = RecoverAt(j) /\ job' = j /\ UNCHANGED <<verdict, marker, unmarked>>

BadEnd(recovered) ==
    /\ pc' = "idle" /\ UNCHANGED job
    /\ verdict' = IF recovered THEN "recovered" ELSE "failed"
    /\ UNCHANGED <<marker, unmarked>>

\* The end of a failed deployment: on Linux one that could not be undone leaves
\* a marker, if it can.
End(recovered) ==
    /\ pc' = "idle" /\ UNCHANGED job
    /\ verdict' = IF recovered THEN "recovered" ELSE "failed"
    /\ IF linux /\ ~recovered
       THEN \/ marker' = TRUE /\ UNCHANGED unmarked
            \/ unmarked' = TRUE /\ UNCHANGED marker
       ELSE UNCHANGED <<marker, unmarked>>

\* The callbacks.
Drained  == accepting' = FALSE /\ UNCHANGED running
Stopped  == running' = Missing /\ UNCHANGED accepting
Started(v) == running' = v /\ accepting' = TRUE
Healthy(v) == running = v /\ accepting
Idle == UNCHANGED <<running, accepting>>

Store == <<release, pointer, files>>

-----------------------------------------------------------------------------
\* install refuses a version whose directory is there, whatever is in it.
Installable(v) == release[v] = "absent"
Install(v) == Installable(v) /\ release' = [release EXCEPT ![v] = "intact"]

\* deploy / upgrade up to the first callback: nothing is touched but the
\* directory of the new version, and that stays whatever follows.
Begin(v) ==
    /\ pc = "idle"
    /\ linux => ~marker
    /\ Loads(pointer) /\ (linux \/ pointer # Missing)
    /\ Install(v)
    /\ \/ /\ job' = [target |-> v, before |-> pointer, saved |-> files,
                     activated |-> FALSE, stopTried |-> FALSE, stopped |-> FALSE,
                     owed |-> pointer # Missing /\ Healthy(pointer.version)]
          /\ pc' = IF pointer = Missing THEN "bundle" ELSE "drain"
          /\ verdict' = "none"
       \/ \* the bundle does not fit the release, or cannot be read
          /\ linux /\ verdict' = "refused" /\ UNCHANGED <<job, pc>>
    /\ UNCHANGED <<linux, pointer, files, running, accepting, marker, unmarked>>

\* A second deployment, a marker, a broken store or a bad plan: nothing is touched.
Refuse ==
    /\ pc = "idle"
    /\ verdict' = "refused"
    /\ UNCHANGED <<linux, release, pointer, files, running, accepting, marker, pc, job,
                   unmarked>>

DrainOld ==
    /\ pc = "drain" /\ UNCHANGED <<linux, Store>>
    /\ \/ Drained /\ GoTo("stop")
       \/ Drained /\ Recover([job EXCEPT !.owed = FALSE])
       \/ Idle /\ Recover(job)

StopOld ==
    /\ pc = "stop" /\ UNCHANGED <<linux, Store>>
    /\ \/ /\ Stopped
          /\ pc' = IF linux THEN "bundle" ELSE "activate"
          /\ job' = [job EXCEPT !.stopTried = TRUE, !.stopped = TRUE,
                                !.activated = ~linux]
          /\ UNCHANGED <<verdict, marker, unmarked>>
       \/ (Stopped \/ Idle) /\ Recover([job EXCEPT !.stopTried = TRUE,
                                                  !.owed = @ /\ ~linux])

\* StdinBundleApplier: the files one after the other; when one cannot be
\* replaced it puts the others back, as far as it can.
WriteBundle ==
    /\ pc = "bundle" /\ Idle /\ UNCHANGED <<linux, release, pointer>>
    /\ \E written \in SUBSET Bundle :
          /\ files' = [f \in Files |-> IF f \in written THEN job.target ELSE files[f]]
          /\ \/ written = Bundle /\ GoTo("unit")
             \/ GoTo("r_bundle")

BundleRollsBack ==
    /\ pc = "r_bundle" /\ Idle /\ UNCHANGED <<linux, release, pointer>>
    /\ \E undone \in SUBSET Bundle :
          files' = [f \in Files |-> IF f \in undone THEN job.saved[f] ELSE files[f]]
    /\ Recover(job)

WriteUnit ==
    /\ pc = "unit" /\ Idle /\ UNCHANGED <<linux, release, pointer>>
    /\ \/ files' = [files EXCEPT !["unit"] = job.target] /\ GoTo("activate")
       \/ UNCHANGED files /\ Recover(job)

\* activate writes the pointer and reads it again; it may raise before and
\* after the write.  Linux calls the release activated only afterwards.
Activate ==
    /\ pc = "activate" /\ Idle /\ UNCHANGED <<linux, release, files>>
    /\ \/ /\ Intact(job.target) /\ Loads(pointer)
          /\ pointer' = NextPointer(job.target)
          /\ \/ /\ pc' = "start" /\ job' = [job EXCEPT !.activated = TRUE]
                /\ UNCHANGED <<verdict, marker, unmarked>>
             \/ Recover(job)
       \/ UNCHANGED pointer /\ Recover(job)

StartNew ==
    /\ pc = "start" /\ UNCHANGED <<linux, Store>>
    /\ \/ Started(job.target) /\ GoTo("verify")
       \/ (Started(job.target) \/ Idle) /\ Recover(job)

VerifyNew ==
    /\ pc = "verify" /\ Idle /\ UNCHANGED <<linux, Store>>
    /\ \/ /\ Healthy(job.target)
          /\ pc' = "idle" /\ verdict' = "done"
          /\ UNCHANGED <<job, marker, unmarked>>
       \/ Recover(job)

-----------------------------------------------------------------------------
BadStopNew ==
    /\ pc = "r_stop" /\ UNCHANGED <<linux, Store>>
    /\ (Stopped \/ Idle) /\ GoTo(IF linux THEN "r_files" ELSE "r_pointer")

\* Recovery first stops what it started; unless that succeeds it touches
\* nothing more.
StopNew ==
    /\ pc = "r_stop" /\ UNCHANGED <<linux, Store>>
    /\ \/ Stopped /\ GoTo(IF linux THEN "r_files" ELSE "r_pointer")
       \/ (Stopped \/ Idle) /\ End(FALSE)

RestoreFiles ==
    /\ pc = "r_files" /\ Idle /\ UNCHANGED <<linux, release, pointer>>
    /\ \E undone \in SUBSET Files :
          /\ files' = [f \in Files |-> IF f \in undone THEN job.saved[f] ELSE files[f]]
          /\ IF undone = Files THEN GoTo("r_pointer") ELSE End(FALSE)

BadAfterPointer == "r_check"

\* Whether the old release has to be started again.
AfterPointer ==
    IF job.before # Missing /\ (job.stopped \/ job.activated) THEN "r_start"
    ELSE "r_check"

RestorePointer ==
    /\ pc = "r_pointer" /\ Idle /\ UNCHANGED <<linux, release, files>>
    /\ \/ Loads(job.before) /\ pointer' = job.before /\ GoTo(AfterPointer)
       \/ pointer' \in {pointer, job.before} /\ End(FALSE)

\* Windows, after a stop that failed: perhaps the old gateway still serves.
CheckOld ==
    /\ pc = "r_health" /\ Idle /\ UNCHANGED <<linux, Store>>
    /\ \/ /\ Healthy(Old)
          /\ GoTo("r_check")
       \/ GoTo("r_start")

StartOld ==
    /\ pc = "r_start" /\ UNCHANGED <<linux, Store>>
    /\ \/ Started(Old) /\ GoTo("r_verify")
       \/ (Started(Old) \/ Idle) /\ End(FALSE)

VerifyOld ==
    /\ pc = "r_verify" /\ Idle /\ UNCHANGED <<linux, Store>>
    /\ \/ Healthy(Old) /\ GoTo("r_check")
       \/ End(FALSE)

CheckPointer ==
    /\ pc = "r_check" /\ Idle /\ UNCHANGED <<linux, Store>>
    /\ End(Loads(pointer) /\ pointer = job.before)

-----------------------------------------------------------------------------
\* A release directory is changed behind the store's back.
Damage(v) ==
    /\ release[v] = "intact"
    /\ release' = [release EXCEPT ![v] = "damaged"]
    /\ UNCHANGED <<linux, pointer, files, running, accepting, marker, pc, job, verdict,
                   unmarked>>

\* The deploying process dies.
Crash ==
    /\ pc # "idle"
    /\ pc' = "idle" /\ verdict' = "none" /\ unmarked' = TRUE
    /\ UNCHANGED <<linux, release, pointer, files, running, accepting, marker, job>>

Next ==
    \/ \E v \in Versions : Begin(v) \/ Damage(v)
    \/ Refuse
    \/ DrainOld \/ StopOld \/ WriteBundle \/ BundleRollsBack \/ WriteUnit
    \/ Activate \/ StartNew \/ VerifyNew
    \/ StopNew \/ RestoreFiles \/ RestorePointer \/ CheckOld \/ StartOld
    \/ VerifyOld \/ CheckPointer
    \/ Crash

Spec == Init /\ [][Next]_vars

-----------------------------------------------------------------------------
\* A deployment that reports success left one release everywhere: the pointer
\* and every file are of it.
SuccessIsWhole ==
    verdict = "done" =>
        /\ pointer.version = job.target /\ \A f \in Files : files[f] = job.target
        /\ pointer.previous = (IF job.before = Missing THEN Missing ELSE Old)

\* A deployment that reports recovered left the pointer and the files as it
\* found them.
RecoveredIsBack ==
    verdict = "recovered" => pointer = job.before /\ files = job.saved

\* Which gateway deploy and upgrade leave in service: the new one after a
\* success; after a recovery the old one, if it was in service before or was
\* stopped.  The exception is the code's: a failed drain is not followed by a
\* look at the gateway, on Linux a failed stop neither, and what they did
\* although they failed (or, before the stop, a drain that succeeded) stays.
ServiceKept ==
    /\ verdict = "done" => Healthy(job.target)
    /\ verdict = "recovered" /\ job.before # Missing
          /\ (job.owed \/ job.stopped \/ job.activated \/ (~linux /\ job.stopTried))
       => Healthy(Old)

\* Unless the deploying process died or could not write its marker, a machine
\* without the marker has the files of one release, the current one.
MixtureIsMarked ==
    linux /\ pc = "idle" /\ ~marker /\ ~unmarked =>
        \A f \in Files :
            files[f] = (IF pointer = Missing THEN Missing ELSE pointer.version)

\* A release is started only when no other may still be running: recovery
\* never puts the old gateway beside a new one it could not stop.
NeverTwoReleases ==
    [][running' \in {running, Missing} \/ running = Missing]_vars

\* The inductive invariant.  A machine is whole when its files are of the
\* release the pointer names; unless a death or a failed write of the marker
\* went before, a deployment finds it so, and leaves it so or marked.
Release(p)   == IF p = Missing THEN Missing ELSE p.version
Whole(fs, p) == \A f \in Files : fs[f] = Release(p)
WholeInv ==
    /\ pc # "idle" => verdict = "none" /\ (linux => ~marker)
    /\ linux /\ ~unmarked =>
          IF pc = "idle" THEN ~marker => Whole(files, pointer)
          ELSE Whole(job.saved, job.before)

\* What has been written when the new release is to start, and when the old
\* one is.
AllNew ==
    /\ \A f \in Files : files[f] = job.target
    /\ pointer = [version |-> job.target, previous |-> Release(job.before)]
AllOld == pointer = job.before /\ files = job.saved /\ job.before # Missing

\* The places of deploy and upgrade: whether the old gateway is stopped, which
\* pointer is there, and what recovery may still have to do.
PlaceInv ==
    /\ pc \notin {"uncron", "ports"}
    /\ running # Missing => pointer # Missing /\ running = pointer.version
    /\ pc # "idle" => /\ job.before # Missing => job.before.version # job.target
                      /\ linux \/ job.before # Missing
    /\ pc \in {"drain", "stop", "bundle", "r_bundle", "unit", "activate", "r_health"} =>
          pointer = job.before
    /\ pc \in {"bundle", "r_bundle", "unit", "activate", "start"} => running = Missing
    /\ pc \in {"bundle", "r_bundle", "unit"} => linux /\ ~job.activated
    /\ pc \in {"drain", "stop"} =>
          ~job.activated /\ ~job.stopTried /\ ~job.stopped /\ job.before # Missing
    /\ pc = "unit" => \A f \in Bundle : files[f] = job.target
    /\ pc = "activate" => /\ \A f \in Files : files[f] = job.target
                          /\ linux \/ job.activated
    /\ pc \in {"start", "verify"} => AllNew /\ job.activated
    /\ pc = "r_stop" => job.activated
    /\ pc = "r_pointer" => linux \/ job.activated
    /\ pc = "r_files" => linux
    /\ pc \in {"r_files", "r_pointer"} => running = Missing \/ pointer = job.before
    /\ pc \in {"r_pointer", "r_check"} => files = job.saved
    /\ pc \in {"r_start", "r_verify"} => AllOld
    /\ pc = "r_health" => ~linux
    /\ pc # "idle" /\ job.owed => job.before # Missing
    /\ pc \in {"bundle", "r_bundle", "unit", "activate"} => job.stopped \/ ~job.owed
    /\ pc \in {"drain", "r_files", "r_pointer"} /\ job.owed
          /\ ~job.stopped /\ ~job.activated => Healthy(Old)
    /\ pc = "r_check" /\ job.before # Missing
          /\ (job.owed \/ job.stopped \/ job.activated \/ (~linux /\ job.stopTried))
       => Healthy(Old)
=============================================================================
