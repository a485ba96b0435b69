----------------------- MODULE RemoteDeployment_proofs -----------------------
(***************************************************************************)
(* Proofs about Deployment and RemoteDeployment, for every set of releases.*)
(***************************************************************************)
EXTENDS RemoteDeployment, TLAPS

-----------------------------------------------------------------------------
(* The shape of the data *)

LEMMA FilesShape ==
    /\ linux  => Files = {"active.json", "secrets", "unit"} /\ Bundle = {"active.json", "secrets"}
    /\ ~linux => Files = {} /\ Bundle = {}
BY DEF Files, Bundle

\* One machine keeps its kind, so it keeps its files.
LEMMA FilesStay ==
    ASSUME UNCHANGED linux PROVE UNCHANGED <<Files, Bundle, Contents, Jobs>>
BY DEF Files, Bundle, Contents, Jobs

LEMMA JobShape ==
    ASSUME TypeOK
    PROVE  /\ job.target \in Versions /\ job.before \in Pointers \cup {Missing}
           /\ job.saved \in Contents /\ job.activated \in BOOLEAN
           /\ job.stopTried \in BOOLEAN /\ job.stopped \in BOOLEAN /\ job.owed \in BOOLEAN
           /\ job.before # Missing => job.before \in Pointers /\ Old \in Versions
           /\ Release(job.before) \in Versions \cup {Missing}
BY DEF TypeOK, Jobs, Pointers, Old, Release

\* A step in the middle of a deployment reports nothing.
LEMMA MidStep ==
    ASSUME WholeInv, pc # "idle", pc' # "idle",
           UNCHANGED <<linux, verdict, marker, unmarked>>,
           job'.saved = job.saved, job'.before = job.before
    PROVE  WholeInv' /\ ReportIsTrue' /\ verdict' = "none"
BY FilesStay DEF WholeInv, Whole, Release, ReportIsTrue, SuccessIsWhole, RecoveredIsBack,
       ServiceKept

\* A deployment that could not be undone reports it, and marks the machine.
LEMMA FailedEnd ==
    ASSUME TypeOK, WholeInv, pc # "idle", End(FALSE), UNCHANGED linux
    PROVE  /\ WholeInv' /\ ReportIsTrue' /\ verdict' = "failed" /\ pc' = "idle"
           /\ job' = job /\ marker' \in BOOLEAN /\ unmarked' \in BOOLEAN
<1>1. /\ pc' = "idle" /\ job' = job /\ verdict' = "failed"
      /\ \/ linux /\ marker' = TRUE /\ unmarked' = unmarked
         \/ linux /\ unmarked' = TRUE /\ marker' = marker
         \/ ~linux /\ marker' = marker /\ unmarked' = unmarked
  BY DEF End
<1>2. WholeInv'
  BY <1>1 DEF WholeInv
<1>3. ReportIsTrue'
  BY <1>1 DEF ReportIsTrue, SuccessIsWhole, RecoveredIsBack, ServiceKept
<1> QED BY <1>1, <1>2, <1>3 DEF TypeOK

\* When a recovery has to have the old gateway in service.
Owes(j) == j.owed \/ j.stopped \/ j.activated \/ (~linux /\ j.stopTried)

\* One that reports recovered has to have put everything back.
LEMMA RecoveredEnd ==
    ASSUME TypeOK, WholeInv, pc # "idle", End(TRUE), UNCHANGED <<linux, supervisor>>,
           pointer' = job.before, files' = job.saved,
           ~Remote /\ job.before # Missing /\ Owes(job) => Healthy(Old)'
    PROVE  /\ WholeInv' /\ ReportIsTrue' /\ verdict' = "recovered" /\ pc' = "idle"
           /\ job' = job /\ marker' = marker /\ unmarked' = unmarked
<1>1. /\ pc' = "idle" /\ job' = job /\ verdict' = "recovered"
      /\ marker' = marker /\ unmarked' = unmarked
  BY DEF End
<1>2. WholeInv'
  BY <1>1, FilesStay DEF WholeInv, Whole, Release
<1>3. ReportIsTrue'
  BY <1>1 DEF ReportIsTrue, SuccessIsWhole, RecoveredIsBack, ServiceKept, Owes, Remote
<1> QED BY <1>1, <1>2, <1>3

-----------------------------------------------------------------------------
(* The deployment on the machine itself *)

LocalInv == DeploymentInv /\ ~Remote

LEMMA BeginKeepsInv ==
    ASSUME LocalInv, NEW v \in Versions, Begin(v), UNCHANGED <<supervisor, serves, mixed>>
    PROVE  LocalInv'
<1> USE DEF LocalInv, DeploymentInv, Remote, StartedInv
<1>1. /\ pc = "idle" /\ (linux => ~marker) /\ Loads(pointer)
      /\ linux \/ pointer # Missing
      /\ release[v] = "absent" /\ release' = [release EXCEPT ![v] = "intact"]
      /\ UNCHANGED <<linux, pointer, files, running, accepting, marker, unmarked>>
  BY DEF Begin, Install, Installable
<1>2. UNCHANGED <<Files, Bundle, Contents, Jobs>>
  BY <1>1, FilesStay
<1>3. release' \in [Versions -> ReleaseStates]
  BY <1>1 DEF TypeOK, ReleaseStates
<1>4. CASE linux /\ verdict' = "refused" /\ UNCHANGED <<job, pc>>
  <2>1. TypeOK'
    BY <1>1, <1>2, <1>3, <1>4 DEF TypeOK
  <2>2. WholeInv' /\ ReportIsTrue'
    BY <1>1, <1>2, <1>4 DEF WholeInv, Whole, Release, ReportIsTrue, SuccessIsWhole,
       RecoveredIsBack, ServiceKept
  <2>3. PlaceInv'
    BY <1>1, <1>2, <1>4 DEF PlaceInv
  <2> QED BY <2>1, <2>2, <2>3
<1>5. CASE /\ job' = [target |-> v, before |-> pointer, saved |-> files,
                      activated |-> FALSE, stopTried |-> FALSE, stopped |-> FALSE,
                      owed |-> pointer # Missing /\ Healthy(pointer.version)]
           /\ pc' = IF pointer = Missing THEN "bundle" ELSE "drain"
           /\ verdict' = "none"
  <2>1. /\ job' \in Jobs /\ job'.target = v /\ job'.before = pointer /\ job'.saved = files
        /\ ~job'.activated /\ ~job'.stopTried /\ ~job'.stopped
        /\ job'.owed = (pointer # Missing /\ Healthy(pointer.version))
    BY <1>2, <1>5 DEF TypeOK, Jobs, Healthy
  <2>2. TypeOK'
    BY <1>1, <1>2, <1>3, <1>5, <2>1 DEF TypeOK, Places
  <2>3. WholeInv' /\ ReportIsTrue'
    BY <1>1, <1>2, <1>5, <2>1 DEF WholeInv, Whole, Release, ReportIsTrue, SuccessIsWhole,
       RecoveredIsBack, ServiceKept
  <2>4. pointer # Missing => pointer.version # v
    BY <1>1, DeploymentAssumption DEF Loads, Intact, TypeOK, Pointers
  <2>5. PlaceInv'
    BY <1>1, <1>2, <1>5, <2>1, <2>4 DEF PlaceInv, Healthy, Old
  <2> QED BY <2>2, <2>3, <2>5
<1> QED BY <1>4, <1>5 DEF Begin

LEMMA RefuseKeepsType ==
    ASSUME TypeOK, WholeInv, Refuse
    PROVE  TypeOK' /\ WholeInv' /\ ReportIsTrue' /\ verdict' = "refused"
BY FilesStay DEF Refuse, TypeOK, WholeInv, Whole, Release, ReportIsTrue, SuccessIsWhole,
       RecoveredIsBack, ServiceKept

LEMMA RefuseKeepsInv ==
    ASSUME LocalInv, Refuse, UNCHANGED <<supervisor, serves, mixed>> PROVE LocalInv'
<1>1. PlaceInv'
  BY FilesStay DEF LocalInv, DeploymentInv, Refuse, PlaceInv
<1> QED BY <1>1, RefuseKeepsType DEF LocalInv, DeploymentInv, Remote, StartedInv

LEMMA DrainOldKeepsInv ==
    ASSUME LocalInv, DrainOld, UNCHANGED <<supervisor, serves, mixed>> PROVE LocalInv'
<1> USE DEF LocalInv, DeploymentInv, Remote, StartedInv
<1> DEFINE j == [job EXCEPT !.owed = FALSE]
<1>1. /\ pc = "drain" /\ UNCHANGED <<linux, release, pointer, files, running>>
      /\ UNCHANGED <<verdict, marker, unmarked>> /\ accepting' \in {FALSE, accepting}
      /\ \/ pc' = "stop" /\ job' = job
         \/ pc' = RecoverAt(j) /\ job' = j
         \/ pc' = RecoverAt(job) /\ job' = job /\ accepting' = accepting
  BY DEF DrainOld, Store, Drained, Idle, GoTo, Recover
<1>2. /\ ~job.activated /\ ~job.stopTried /\ ~job.stopped /\ job.before # Missing
      /\ pointer = job.before /\ (job.owed => Healthy(Old))
  BY <1>1 DEF PlaceInv
<1>3. /\ j \in Jobs /\ j.target = job.target /\ j.before = job.before
      /\ j.saved = job.saved /\ ~j.activated /\ ~j.stopTried /\ ~j.stopped /\ j.owed = FALSE
  BY <1>2 DEF TypeOK, Jobs
<1> HIDE DEF j
<1>4. /\ RecoverAt(job) = IF linux THEN "r_files" ELSE "r_check"
      /\ RecoverAt(j) = IF linux THEN "r_files" ELSE "r_check"
  BY <1>2, <1>3 DEF RecoverAt, TypeOK
<1>5. /\ job' \in Jobs /\ job'.target = job.target /\ job'.before = job.before
      /\ job'.saved = job.saved /\ ~job'.activated /\ ~job'.stopTried /\ ~job'.stopped
      /\ pc' \in {"stop", "r_files", "r_check"}
      /\ pc' = "r_files" => linux
      /\ pc' = "r_check" => ~linux
      /\ pc' # "stop" /\ job'.owed => job.owed /\ accepting' = accepting
      /\ job'.owed \in BOOLEAN /\ (job'.owed => job.owed)
  <2>1. job \in Jobs /\ job.owed \in BOOLEAN /\ linux \in BOOLEAN
    BY JobShape DEF TypeOK, Jobs
  <2>2. CASE pc' = "stop" /\ job' = job
    BY <1>2, <2>1, <2>2
  <2>3. CASE pc' = RecoverAt(j) /\ job' = j
    <3>1. pc' = IF linux THEN "r_files" ELSE "r_check"
      BY <1>4, <2>3
    <3>2. /\ job' \in Jobs /\ job'.target = job.target /\ job'.before = job.before
          /\ job'.saved = job.saved /\ ~job'.activated /\ ~job'.stopTried
          /\ ~job'.stopped /\ job'.owed = FALSE
      BY <1>3, <2>3
    <3> QED BY <2>1, <3>1, <3>2
  <2>4. CASE pc' = RecoverAt(job) /\ job' = job /\ accepting' = accepting
    BY <1>2, <1>4, <2>1, <2>4
  <2> QED BY <1>1, <2>2, <2>3, <2>4
<1>6. UNCHANGED <<Files, Bundle, Contents, Jobs>>
  BY <1>1, FilesStay
<1>7. TypeOK'
  BY <1>1, <1>5, <1>6 DEF TypeOK, Places
<1>8. WholeInv' /\ ReportIsTrue'
  BY <1>1, <1>5, MidStep
<1>9. ~linux => files = job.saved
  BY FilesShape, JobShape DEF TypeOK, Contents
<1>10. PlaceInv'
  <2>1. pc' # "stop" /\ job'.owed => Healthy(Old)'
    BY <1>1, <1>2, <1>5 DEF Healthy, Old
  <2> QED BY <1>1, <1>2, <1>5, <1>6, <1>9, <2>1 DEF PlaceInv
<1> QED BY <1>1, <1>7, <1>8, <1>10

LEMMA StopOldKeepsInv ==
    ASSUME LocalInv, StopOld, UNCHANGED <<supervisor, serves, mixed>> PROVE LocalInv'
<1> USE DEF LocalInv, DeploymentInv, Remote, StartedInv
<1>1. /\ pc = "stop" /\ UNCHANGED <<linux, release, pointer, files, accepting>>
      /\ UNCHANGED <<verdict, marker, unmarked>>
      /\ running' \in {running, Missing}
  BY DEF StopOld, Store, Stopped, Idle, Recover
<1>2. UNCHANGED <<Files, Bundle, Contents, Jobs>>
  BY <1>1, FilesStay
<1>3. /\ ~job.activated /\ ~job.stopTried /\ ~job.stopped /\ job.before # Missing
      /\ pointer = job.before
  BY <1>1 DEF PlaceInv
<1>4. CASE /\ running' = Missing /\ pc' = IF linux THEN "bundle" ELSE "activate"
           /\ job' = [job EXCEPT !.stopTried = TRUE, !.stopped = TRUE,
                                 !.activated = ~linux]
  <2>1. /\ job' \in Jobs /\ job'.target = job.target /\ job'.before = job.before
        /\ job'.saved = job.saved /\ job'.activated = ~linux
        /\ job'.stopTried /\ job'.stopped /\ job'.owed = job.owed
    BY <1>4 DEF TypeOK, Jobs
  <2>2. TypeOK'
    BY <1>1, <1>2, <1>4, <2>1 DEF TypeOK, Places
  <2>3. WholeInv' /\ ReportIsTrue'
    BY <1>1, <1>4, <2>1, MidStep
  <2>4. PlaceInv'
    BY <1>1, <1>2, <1>3, <1>4, <2>1, FilesShape DEF PlaceInv, Healthy, Old
  <2> QED BY <1>1, <2>2, <2>3, <2>4
<1>5. CASE Recover([job EXCEPT !.stopTried = TRUE, !.owed = @ /\ ~linux])
  <2> DEFINE j == [job EXCEPT !.stopTried = TRUE, !.owed = @ /\ ~linux]
  <2>1. /\ j \in Jobs /\ j.target = job.target /\ j.before = job.before
        /\ j.saved = job.saved /\ ~j.activated /\ j.stopTried /\ ~j.stopped
        /\ j.owed = (job.owed /\ ~linux)
    BY <1>3 DEF TypeOK, Jobs
  <2>2. job' = j /\ pc' = RecoverAt(j)
    BY <1>5 DEF Recover
  <2> HIDE DEF j
  <2>3. pc' = IF linux THEN "r_files" ELSE "r_health"
    BY <2>1, <2>2 DEF RecoverAt, TypeOK
  <2>4. TypeOK'
    BY <1>1, <1>2, <2>1, <2>2, <2>3 DEF TypeOK, Places
  <2>5. WholeInv' /\ ReportIsTrue'
    BY <1>1, <2>1, <2>2, <2>3, MidStep
  <2>6. PlaceInv'
    BY <1>1, <1>2, <1>3, <2>1, <2>2, <2>3 DEF PlaceInv, Healthy, Old
  <2> QED BY <1>1, <2>4, <2>5, <2>6
<1> QED BY <1>4, <1>5 DEF StopOld, Stopped

LEMMA WriteBundleKeepsInv ==
    ASSUME LocalInv, WriteBundle, UNCHANGED <<supervisor, serves, mixed>> PROVE LocalInv'
<1> USE DEF LocalInv, DeploymentInv, Remote, StartedInv
<1>1. PICK written \in SUBSET Bundle :
         /\ files' = [f \in Files |-> IF f \in written THEN job.target ELSE files[f]]
         /\ \/ written = Bundle /\ GoTo("unit")
            \/ GoTo("r_bundle")
  BY DEF WriteBundle
<1>2. /\ pc = "bundle" /\ pc' \in {"unit", "r_bundle"}
      /\ pc' = "unit" => written = Bundle
      /\ UNCHANGED <<linux, release, pointer, running, accepting, job, verdict, marker,
                     unmarked>>
  BY <1>1 DEF WriteBundle, Idle, GoTo
<1>3. UNCHANGED <<Files, Bundle, Contents, Jobs>>
  BY <1>2, FilesStay
<1>4. files' \in Contents
  BY <1>1, JobShape DEF TypeOK, Contents
<1>5. pc' = "unit" => \A f \in Bundle : files'[f] = job.target
  BY <1>1, <1>2, FilesShape
<1>6. TypeOK'
  BY <1>2, <1>3, <1>4 DEF TypeOK, Places
<1>7. WholeInv' /\ ReportIsTrue'
  BY <1>2, MidStep
<1>8. PlaceInv'
  BY <1>2, <1>3, <1>5 DEF PlaceInv, Healthy, Old
<1> QED BY <1>2, <1>6, <1>7, <1>8

LEMMA BundleRollsBackKeepsInv ==
    ASSUME LocalInv, BundleRollsBack, UNCHANGED <<supervisor, serves, mixed>> PROVE LocalInv'
<1> USE DEF LocalInv, DeploymentInv, Remote, StartedInv
<1>1. PICK undone \in SUBSET Bundle :
         files' = [f \in Files |-> IF f \in undone THEN job.saved[f] ELSE files[f]]
  BY DEF BundleRollsBack
<1>2. /\ pc = "r_bundle" /\ pc' = RecoverAt(job)
      /\ UNCHANGED <<linux, release, pointer, running, accepting, job, verdict, marker,
                     unmarked>>
  BY DEF BundleRollsBack, Idle, Recover
<1>3. UNCHANGED <<Files, Bundle, Contents, Jobs>>
  BY <1>2, FilesStay
<1>4. pc' = "r_files" /\ linux /\ running = Missing
  BY <1>2 DEF PlaceInv, RecoverAt
<1>5. files' \in Contents
  BY <1>1, JobShape DEF TypeOK, Contents
<1>6. TypeOK'
  BY <1>2, <1>3, <1>4, <1>5 DEF TypeOK, Places
<1>7. WholeInv' /\ ReportIsTrue'
  BY <1>2, <1>4, MidStep
<1>8. PlaceInv'
  BY <1>2, <1>3, <1>4 DEF PlaceInv, Healthy, Old
<1> QED BY <1>2, <1>6, <1>7, <1>8

LEMMA WriteUnitKeepsInv ==
    ASSUME LocalInv, WriteUnit, UNCHANGED <<supervisor, serves, mixed>> PROVE LocalInv'
<1> USE DEF LocalInv, DeploymentInv, Remote, StartedInv
<1>1. /\ pc = "unit" /\ linux /\ running = Missing /\ ~job.activated
      /\ UNCHANGED <<linux, release, pointer, running, accepting, job, verdict, marker,
                     unmarked>>
  BY DEF WriteUnit, Idle, Recover, GoTo, PlaceInv
<1>2. UNCHANGED <<Files, Bundle, Contents, Jobs>>
  BY <1>1, FilesStay
<1>3. CASE files' = [files EXCEPT !["unit"] = job.target] /\ pc' = "activate"
  <2>1. files' \in Contents /\ \A f \in Files : files'[f] = job.target
    BY <1>1, <1>3, FilesShape, JobShape DEF PlaceInv, TypeOK, Contents
  <2>2. TypeOK'
    BY <1>1, <1>2, <1>3, <2>1 DEF TypeOK, Places
  <2>3. WholeInv' /\ ReportIsTrue'
    BY <1>1, <1>3, MidStep
  <2>4. PlaceInv'
    BY <1>1, <1>2, <1>3, <2>1 DEF PlaceInv, Healthy, Old
  <2> QED BY <1>1, <2>2, <2>3, <2>4
<1>4. CASE UNCHANGED files /\ pc' = RecoverAt(job)
  <2>1. pc' = "r_files"
    BY <1>1, <1>4 DEF RecoverAt
  <2>2. TypeOK'
    BY <1>1, <1>2, <1>4, <2>1 DEF TypeOK, Places
  <2>3. WholeInv' /\ ReportIsTrue'
    BY <1>1, <2>1, MidStep
  <2>4. PlaceInv'
    BY <1>1, <1>2, <1>4, <2>1 DEF PlaceInv, Healthy, Old
  <2> QED BY <1>1, <2>2, <2>3, <2>4
<1> QED BY <1>3, <1>4 DEF WriteUnit, GoTo, Recover

\* The pointer moves from the release before to the new one.
LEMMA ActivateKeepsInv ==
    ASSUME LocalInv, Activate, UNCHANGED <<supervisor, serves, mixed>> PROVE LocalInv'
<1> USE DEF LocalInv, DeploymentInv, Remote, StartedInv
<1>1. /\ pc = "activate" /\ running = Missing /\ pointer = job.before
      /\ UNCHANGED <<linux, release, files, running, accepting, verdict, marker, unmarked>>
      /\ linux \/ job.activated
      /\ \A f \in Files : files[f] = job.target
  BY DEF Activate, Idle, Recover, PlaceInv
<1>2. UNCHANGED <<Files, Bundle, Contents, Jobs>>
  BY <1>1, FilesStay
<1>3. /\ NextPointer(job.target) = [version |-> job.target, previous |-> Release(job.before)]
      /\ NextPointer(job.target) \in Pointers
  BY <1>1, JobShape DEF NextPointer, Release, PlaceInv, Pointers
<1>4. CASE /\ pointer' = NextPointer(job.target)
           /\ pc' = "start" /\ job' = [job EXCEPT !.activated = TRUE]
  <2>1. /\ job' \in Jobs /\ job'.target = job.target /\ job'.before = job.before
        /\ job'.saved = job.saved /\ job'.activated
    BY <1>4 DEF TypeOK, Jobs
  <2>2. TypeOK'
    BY <1>1, <1>2, <1>3, <1>4, <2>1 DEF TypeOK, Places
  <2>3. WholeInv' /\ ReportIsTrue'
    BY <1>1, <1>4, <2>1, MidStep
  <2>4. PlaceInv'
    BY <1>1, <1>2, <1>3, <1>4, <2>1 DEF PlaceInv, AllNew, Release, Healthy, Old
  <2> QED BY <1>1, <2>2, <2>3, <2>4
<1>5. CASE pointer' \in {pointer, NextPointer(job.target)} /\ Recover(job)
  <2>1. job' = job /\ pc' = IF job.activated THEN "r_stop" ELSE "r_files"
    BY <1>1, <1>5, JobShape DEF Recover, RecoverAt
  <2>2. TypeOK'
    BY <1>1, <1>2, <1>3, <1>5, <2>1 DEF TypeOK, Places
  <2>3. WholeInv' /\ ReportIsTrue'
    BY <1>1, <2>1, MidStep
  <2>4. PlaceInv'
    BY <1>1, <1>2, <1>5, <2>1 DEF PlaceInv, Healthy, Old
  <2> QED BY <1>1, <2>2, <2>3, <2>4
<1> QED BY <1>4, <1>5 DEF Activate

LEMMA StartNewKeepsInv ==
    ASSUME LocalInv, StartNew, UNCHANGED <<supervisor, serves, mixed>> PROVE LocalInv'
<1> USE DEF LocalInv, DeploymentInv, Remote, StartedInv
<1>1. /\ pc = "start" /\ AllNew /\ job.activated
      /\ UNCHANGED <<linux, release, pointer, files, job, verdict, marker, unmarked>>
      /\ running' \in {running, job.target} /\ accepting' \in BOOLEAN
      /\ pc' \in {"verify", RecoverAt(job)}
  BY DEF StartNew, Store, Started, Idle, GoTo, Recover, PlaceInv, TypeOK
<1>2. UNCHANGED <<Files, Bundle, Contents, Jobs>>
  BY <1>1, FilesStay
<1>3. pc' \in {"verify", "r_stop"}
  BY <1>1 DEF RecoverAt
<1>4. pointer # Missing /\ pointer.version = job.target
  BY <1>1, DeploymentAssumption, JobShape DEF AllNew, TypeOK, Pointers
<1>5. TypeOK'
  BY <1>1, <1>2, <1>3, JobShape DEF TypeOK, Places
<1>6. WholeInv' /\ ReportIsTrue'
  BY <1>1, <1>3, MidStep
<1>7. PlaceInv'
  BY <1>1, <1>2, <1>3, <1>4 DEF PlaceInv, AllNew, Release, Healthy, Old
<1> QED BY <1>1, <1>5, <1>6, <1>7

\* One release everywhere.
LEMMA VerifyKeepsReport ==
    ASSUME TypeOK, AllNew, verdict' = "done", pc' = "idle",
           UNCHANGED <<linux, release, pointer, files, running, accepting, job, marker, unmarked>>
    PROVE  WholeInv' /\ SuccessIsWhole' /\ RecoveredIsBack'
<1>1. /\ pointer # Missing /\ pointer.version = job.target
      /\ pointer.previous = Release(job.before)
      /\ \A f \in Files : files[f] = job.target
  BY DeploymentAssumption, JobShape DEF AllNew, TypeOK, Pointers
<1>2. UNCHANGED Files
  BY FilesStay
<1>3. WholeInv'
  BY <1>1, <1>2 DEF WholeInv, Whole, Release
<1>4. SuccessIsWhole'
  BY <1>1, <1>2 DEF SuccessIsWhole, Release, Old
<1>5. RecoveredIsBack'
  BY DEF RecoveredIsBack
<1> QED BY <1>3, <1>4, <1>5

LEMMA VerifyNewKeepsInv ==
    ASSUME LocalInv, VerifyNew, UNCHANGED <<supervisor, serves, mixed>> PROVE LocalInv'
<1> USE DEF LocalInv, DeploymentInv, Remote, StartedInv
<1>1. /\ pc = "verify" /\ AllNew /\ job.activated
      /\ UNCHANGED <<linux, release, pointer, files, running, accepting, job, marker, unmarked>>
  BY DEF VerifyNew, Store, Idle, Recover, PlaceInv
<1>2. UNCHANGED <<Files, Bundle, Contents, Jobs>>
  BY <1>1, FilesStay
<1>3. CASE Healthy(job.target) /\ pc' = "idle" /\ verdict' = "done"
  <2>1. TypeOK'
    BY <1>1, <1>2, <1>3 DEF TypeOK, Places
  <2>2. WholeInv' /\ ReportIsTrue'
    <3>1. WholeInv' /\ SuccessIsWhole' /\ RecoveredIsBack'
      BY <1>1, <1>3, VerifyKeepsReport
    <3>2. ServiceKept'
      BY <1>1, <1>3 DEF ServiceKept, Healthy
    <3> QED BY <3>1, <3>2 DEF ReportIsTrue
  <2>3. PlaceInv'
    BY <1>1, <1>2, <1>3 DEF PlaceInv, Healthy, Old
  <2> QED BY <1>1, <2>1, <2>2, <2>3
<1>4. CASE Recover(job)
  <2>1. pc' = "r_stop" /\ UNCHANGED verdict
    BY <1>1, <1>4 DEF Recover, RecoverAt
  <2>2. TypeOK'
    BY <1>1, <1>2, <2>1 DEF TypeOK, Places
  <2>3. WholeInv' /\ ReportIsTrue'
    BY <1>1, <2>1, MidStep
  <2>4. PlaceInv'
    BY <1>1, <1>2, <2>1 DEF PlaceInv, Healthy, Old
  <2> QED BY <1>1, <2>2, <2>3, <2>4
<1> QED BY <1>3, <1>4 DEF VerifyNew

\* Recovery goes on only when what it started is stopped.
LEMMA StopNewKeepsInv ==
    ASSUME LocalInv, StopNew, UNCHANGED <<supervisor, serves, mixed>> PROVE LocalInv'
<1> USE DEF LocalInv, DeploymentInv, Remote, StartedInv
<1>1. /\ pc = "r_stop" /\ UNCHANGED <<linux, release, pointer, files, accepting>>
      /\ running' \in {running, Missing}
      /\ job.activated
  BY DEF StopNew, Store, Stopped, Idle, PlaceInv
<1>2. UNCHANGED <<Files, Bundle, Contents, Jobs>>
  BY <1>1, FilesStay
<1>3. CASE running' = Missing /\ GoTo(IF linux THEN "r_files" ELSE "r_pointer")
  <2>1. /\ pc' = IF linux THEN "r_files" ELSE "r_pointer"
        /\ UNCHANGED <<job, verdict, marker, unmarked>>
    BY <1>3 DEF GoTo
  <2>2. TypeOK'
    BY <1>1, <1>2, <2>1 DEF TypeOK, Places
  <2>3. WholeInv' /\ ReportIsTrue'
    BY <1>1, <2>1, MidStep
  <2>4. ~linux => files = job.saved
    BY FilesShape, JobShape DEF TypeOK, Contents
  <2>5. PlaceInv'
    BY <1>1, <1>2, <1>3, <2>1, <2>4 DEF PlaceInv, Healthy, Old
  <2> QED BY <1>1, <2>2, <2>3, <2>5
<1>4. CASE End(FALSE)
  <2>1. /\ WholeInv' /\ ReportIsTrue' /\ verdict' = "failed" /\ pc' = "idle"
        /\ job' = job /\ marker' \in BOOLEAN /\ unmarked' \in BOOLEAN
    BY <1>1, <1>4, FailedEnd
  <2>2. TypeOK'
    BY <1>1, <1>2, <2>1 DEF TypeOK, Places
  <2>3. PlaceInv'
    BY <1>1, <1>2, <2>1 DEF PlaceInv, Healthy, Old
  <2> QED BY <1>1, <2>1, <2>2, <2>3
<1> QED BY <1>3, <1>4 DEF StopNew, Stopped

LEMMA RestoreFilesKeepsInv ==
    ASSUME LocalInv, RestoreFiles, UNCHANGED <<supervisor, serves, mixed>> PROVE LocalInv'
<1> USE DEF LocalInv, DeploymentInv, Remote, StartedInv
<1>1. PICK undone \in SUBSET Files :
          /\ files' = [f \in Files |-> IF f \in undone THEN job.saved[f] ELSE files[f]]
          /\ IF undone = Files THEN GoTo("r_pointer") ELSE End(FALSE)
  BY DEF RestoreFiles
<1>2. /\ pc = "r_files" /\ UNCHANGED <<linux, release, pointer, running, accepting>>
      /\ linux
      /\ running = Missing \/ pointer = job.before
  BY DEF RestoreFiles, Idle, PlaceInv
<1>3. UNCHANGED <<Files, Bundle, Contents, Jobs>>
  BY <1>2, FilesStay
<1>4. files' \in Contents
  BY <1>1, JobShape DEF TypeOK, Contents
<1>5. CASE undone = Files /\ GoTo("r_pointer")
  <2>1. pc' = "r_pointer" /\ UNCHANGED <<job, verdict, marker, unmarked>>
    BY <1>5 DEF GoTo
  <2>2. files' = job.saved
    BY <1>1, <1>5, JobShape DEF Contents
  <2>3. TypeOK'
    BY <1>2, <1>3, <1>4, <2>1 DEF TypeOK, Places
  <2>4. WholeInv' /\ ReportIsTrue'
    BY <1>2, <2>1, MidStep
  <2>5. PlaceInv'
    BY <1>2, <1>3, <2>1, <2>2 DEF PlaceInv, Healthy, Old
  <2> QED BY <1>2, <2>3, <2>4, <2>5
<1>6. CASE End(FALSE)
  <2>1. /\ WholeInv' /\ ReportIsTrue' /\ verdict' = "failed" /\ pc' = "idle"
        /\ job' = job /\ marker' \in BOOLEAN /\ unmarked' \in BOOLEAN
    BY <1>2, <1>6, FailedEnd
  <2>2. TypeOK'
    BY <1>2, <1>3, <1>4, <2>1 DEF TypeOK, Places
  <2>3. PlaceInv'
    BY <1>2, <1>3, <2>1 DEF PlaceInv, Healthy, Old
  <2> QED BY <1>2, <2>1, <2>2, <2>3
<1> QED BY <1>1, <1>5, <1>6

\* The pointer moves back only while no gateway runs, or stays where it is.
LEMMA RestorePointerKeepsInv ==
    ASSUME LocalInv, RestorePointer, UNCHANGED <<supervisor, serves, mixed>> PROVE LocalInv'
<1> USE DEF LocalInv, DeploymentInv, Remote, StartedInv
<1>1. /\ pc = "r_pointer" /\ UNCHANGED <<linux, release, files, running, accepting>>
      /\ pointer' \in {pointer, job.before}
      /\ files = job.saved
      /\ linux \/ job.activated
      /\ running = Missing \/ pointer = job.before
  BY DEF RestorePointer, Idle, PlaceInv
<1>2. UNCHANGED <<Files, Bundle, Contents, Jobs>>
  BY <1>1, FilesStay
<1>3. pointer' \in Pointers \cup {Missing}
  BY <1>1, JobShape DEF TypeOK
<1>4. CASE pointer' = job.before /\ GoTo(AfterPointer)
  <2>1. /\ pc' = AfterPointer /\ AfterPointer \in {"r_start", "r_check"}
        /\ UNCHANGED <<job, verdict, marker, unmarked>>
    BY <1>4 DEF GoTo, AfterPointer
  <2>2. TypeOK'
    BY <1>1, <1>2, <1>3, <2>1 DEF TypeOK, Places
  <2>3. WholeInv' /\ ReportIsTrue'
    BY <1>1, <2>1, MidStep
  <2>4. PlaceInv'
    BY <1>1, <1>2, <1>4, <2>1 DEF PlaceInv, AfterPointer, AllOld, Healthy, Old
  <2> QED BY <1>1, <2>2, <2>3, <2>4
<1>5. CASE End(FALSE)
  <2>1. /\ WholeInv' /\ ReportIsTrue' /\ verdict' = "failed" /\ pc' = "idle"
        /\ job' = job /\ marker' \in BOOLEAN /\ unmarked' \in BOOLEAN
    BY <1>1, <1>5, FailedEnd
  <2>2. TypeOK'
    BY <1>1, <1>2, <1>3, <2>1 DEF TypeOK, Places
  <2>3. PlaceInv'
    BY <1>1, <1>2, <2>1 DEF PlaceInv, Healthy, Old
  <2> QED BY <1>1, <2>1, <2>2, <2>3
<1> QED BY <1>4, <1>5 DEF RestorePointer

LEMMA CheckOldKeepsInv ==
    ASSUME LocalInv, CheckOld, UNCHANGED <<supervisor, serves, mixed>> PROVE LocalInv'
<1> USE DEF LocalInv, DeploymentInv, Remote, StartedInv
<1>1. /\ pc = "r_health" /\ ~linux /\ pointer = job.before /\ job.before # Missing
      /\ UNCHANGED <<linux, release, pointer, files, running, accepting, job, verdict,
                     marker, unmarked>>
      /\ \/ Healthy(Old) /\ pc' = "r_check"
         \/ pc' = "r_start"
  BY DEF CheckOld, Store, Idle, GoTo, PlaceInv
<1>2. UNCHANGED <<Files, Bundle, Contents, Jobs>>
  BY <1>1, FilesStay
<1>3. files = job.saved
  BY <1>1, FilesShape, JobShape DEF TypeOK, Contents
<1>4. TypeOK'
  BY <1>1, <1>2 DEF TypeOK, Places
<1>5. WholeInv' /\ ReportIsTrue'
  BY <1>1, MidStep
<1>6. PlaceInv'
  BY <1>1, <1>2, <1>3 DEF PlaceInv, AllOld, Healthy, Old
<1> QED BY <1>1, <1>4, <1>5, <1>6

LEMMA StartOldKeepsInv ==
    ASSUME LocalInv, StartOld, UNCHANGED <<supervisor, serves, mixed>> PROVE LocalInv'
<1> USE DEF LocalInv, DeploymentInv, Remote, StartedInv
<1>1. /\ pc = "r_start" /\ AllOld
      /\ UNCHANGED <<linux, release, pointer, files>>
      /\ running' \in {running, Old} /\ accepting' \in BOOLEAN
  BY DEF StartOld, Store, Started, Idle, PlaceInv, TypeOK
<1>2. UNCHANGED <<Files, Bundle, Contents, Jobs>>
  BY <1>1, FilesStay
<1>3. pointer # Missing /\ pointer.version = Old /\ Old \in Versions
  BY <1>1, JobShape DEF AllOld, Old
<1>4. CASE GoTo("r_verify")
  <2>1. pc' = "r_verify" /\ UNCHANGED <<job, verdict, marker, unmarked>>
    BY <1>4 DEF GoTo
  <2>2. TypeOK'
    BY <1>1, <1>2, <1>3, <2>1 DEF TypeOK, Places
  <2>3. WholeInv' /\ ReportIsTrue'
    BY <1>1, <2>1, MidStep
  <2>4. PlaceInv'
    BY <1>1, <1>2, <1>3, <2>1 DEF PlaceInv, AllOld, Healthy, Old
  <2> QED BY <1>1, <2>2, <2>3, <2>4
<1>5. CASE End(FALSE)
  <2>1. /\ WholeInv' /\ ReportIsTrue' /\ verdict' = "failed" /\ pc' = "idle"
        /\ job' = job /\ marker' \in BOOLEAN /\ unmarked' \in BOOLEAN
    BY <1>1, <1>5, FailedEnd
  <2>2. TypeOK'
    BY <1>1, <1>2, <1>3, <2>1 DEF TypeOK, Places
  <2>3. PlaceInv'
    BY <1>1, <1>2, <1>3, <2>1 DEF PlaceInv, Healthy, Old
  <2> QED BY <1>1, <2>1, <2>2, <2>3
<1> QED BY <1>4, <1>5 DEF StartOld

LEMMA VerifyOldKeepsInv ==
    ASSUME LocalInv, VerifyOld, UNCHANGED <<supervisor, serves, mixed>> PROVE LocalInv'
<1> USE DEF LocalInv, DeploymentInv, Remote, StartedInv
<1>1. /\ pc = "r_verify" /\ AllOld
      /\ UNCHANGED <<linux, release, pointer, files, running, accepting>>
  BY DEF VerifyOld, Store, Idle, PlaceInv
<1>2. UNCHANGED <<Files, Bundle, Contents, Jobs>>
  BY <1>1, FilesStay
<1>3. CASE Healthy(Old) /\ GoTo("r_check")
  <2>1. pc' = "r_check" /\ UNCHANGED <<job, verdict, marker, unmarked>>
    BY <1>3 DEF GoTo
  <2>2. TypeOK'
    BY <1>1, <1>2, <2>1 DEF TypeOK, Places
  <2>3. WholeInv' /\ ReportIsTrue'
    BY <1>1, <2>1, MidStep
  <2>4. PlaceInv'
    BY <1>1, <1>2, <1>3, <2>1 DEF PlaceInv, AllOld, Healthy, Old
  <2> QED BY <1>1, <2>2, <2>3, <2>4
<1>4. CASE End(FALSE)
  <2>1. /\ WholeInv' /\ ReportIsTrue' /\ verdict' = "failed" /\ pc' = "idle"
        /\ job' = job /\ marker' \in BOOLEAN /\ unmarked' \in BOOLEAN
    BY <1>1, <1>4, FailedEnd
  <2>2. TypeOK'
    BY <1>1, <1>2, <2>1 DEF TypeOK, Places
  <2>3. PlaceInv'
    BY <1>1, <1>2, <2>1 DEF PlaceInv, Healthy, Old
  <2> QED BY <1>1, <2>1, <2>2, <2>3
<1> QED BY <1>3, <1>4 DEF VerifyOld

LEMMA CheckPointerKeepsInv ==
    ASSUME LocalInv, CheckPointer, UNCHANGED <<supervisor, serves, mixed>> PROVE LocalInv'
<1> USE DEF LocalInv, DeploymentInv, Remote, StartedInv
<1>1. /\ pc = "r_check" /\ files = job.saved
      /\ UNCHANGED <<linux, release, pointer, files, running, accepting>>
      /\ job.before # Missing /\ Owes(job) => Healthy(Old)
      /\ \/ pointer = job.before /\ End(TRUE)
         \/ End(FALSE)
  <2> DEFINE back == Loads(pointer) /\ pointer = job.before
  <2>1. back \in BOOLEAN /\ (back => pointer = job.before) /\ End(back)
    BY DEF CheckPointer
  <2> HIDE DEF back
  <2>2. (End(TRUE) /\ pointer = job.before) \/ End(FALSE)
    BY <2>1
  <2> QED BY <2>2 DEF CheckPointer, Store, Idle, PlaceInv, Owes
<1>2. UNCHANGED <<Files, Bundle, Contents, Jobs>>
  BY <1>1, FilesStay
<1>3. CASE pointer = job.before /\ End(TRUE)
  <2>1. job' = job
    BY <1>3 DEF End
  <2>2. /\ pointer' = job.before /\ files' = job.saved
        /\ job.before # Missing /\ Owes(job) => Healthy(Old)'
    BY <1>1, <1>3, <2>1 DEF Healthy, Old
  <2>3. /\ WholeInv' /\ ReportIsTrue' /\ verdict' = "recovered" /\ pc' = "idle"
        /\ job' = job /\ marker' = marker /\ unmarked' = unmarked
    BY <1>1, <1>3, <2>2, RecoveredEnd
  <2>4. TypeOK'
    BY <1>1, <1>2, <2>3 DEF TypeOK, Places
  <2>5. PlaceInv'
    BY <1>1, <1>2, <2>3 DEF PlaceInv, Healthy, Old
  <2> QED BY <1>1, <2>3, <2>4, <2>5
<1>4. CASE End(FALSE)
  <2>1. /\ WholeInv' /\ ReportIsTrue' /\ verdict' = "failed" /\ pc' = "idle"
        /\ job' = job /\ marker' \in BOOLEAN /\ unmarked' \in BOOLEAN
    BY <1>1, <1>4, FailedEnd
  <2>2. TypeOK'
    BY <1>1, <1>2, <2>1 DEF TypeOK, Places
  <2>3. PlaceInv'
    BY <1>1, <1>2, <2>1 DEF PlaceInv, Healthy, Old
  <2> QED BY <1>1, <2>1, <2>2, <2>3
<1> QED BY <1>1, <1>3, <1>4

LEMMA DamageKeepsInv ==
    ASSUME LocalInv, NEW v \in Versions, Damage(v), UNCHANGED <<supervisor, serves, mixed>>
    PROVE  LocalInv'
<1> USE DEF LocalInv, DeploymentInv, Remote, StartedInv
<1>1. /\ release' = [release EXCEPT ![v] = "damaged"]
      /\ UNCHANGED <<linux, pointer, files, running, accepting, marker, pc, job, verdict,
                     unmarked>>
  BY DEF Damage
<1>2. UNCHANGED <<Files, Bundle, Contents, Jobs>>
  BY <1>1, FilesStay
<1>3. TypeOK'
  BY <1>1, <1>2 DEF TypeOK, ReleaseStates
<1>4. WholeInv' /\ ReportIsTrue'
  BY <1>1, <1>2 DEF WholeInv, Whole, Release, ReportIsTrue, SuccessIsWhole,
     RecoveredIsBack, ServiceKept, Healthy, Old
<1>5. PlaceInv'
  BY <1>1, <1>2 DEF PlaceInv, AllNew, AllOld, Release, Healthy, Old
<1> QED BY <1>1, <1>3, <1>4, <1>5

LEMMA CrashKeepsType ==
    ASSUME TypeOK, WholeInv, Crash
    PROVE  TypeOK' /\ WholeInv' /\ ReportIsTrue' /\ pc' = "idle" /\ verdict' = "none"
BY FilesStay DEF Crash, TypeOK, Places, WholeInv, ReportIsTrue, SuccessIsWhole,
       RecoveredIsBack, ServiceKept

LEMMA CrashKeepsInv ==
    ASSUME LocalInv, Crash, UNCHANGED <<supervisor, serves, mixed>> PROVE LocalInv'
<1>1. PlaceInv'
  BY DEF LocalInv, DeploymentInv, Crash, PlaceInv
<1> QED BY <1>1, CrashKeepsType DEF LocalInv, DeploymentInv, Remote, StartedInv

LEMMA LocalNextKeepsInv ==
    ASSUME LocalInv, Next, UNCHANGED <<supervisor, serves, mixed>> PROVE LocalInv'
BY BeginKeepsInv, RefuseKeepsInv, DrainOldKeepsInv, StopOldKeepsInv,
   WriteBundleKeepsInv, BundleRollsBackKeepsInv, WriteUnitKeepsInv, ActivateKeepsInv,
   StartNewKeepsInv, VerifyNewKeepsInv, StopNewKeepsInv, RestoreFilesKeepsInv,
   RestorePointerKeepsInv, CheckOldKeepsInv, StartOldKeepsInv, VerifyOldKeepsInv,
   CheckPointerKeepsInv, DamageKeepsInv, CrashKeepsInv DEF Next

\* A step of the machine's own deployment starts a gateway only in place of
\* none, or the very release that runs.
LEMMA LocalStarts ==
    ASSUME LocalInv, Next PROVE running' \in {running, Missing} \/ running = Missing
<1>1. PlaceInv /\ TypeOK
  BY DEF LocalInv, DeploymentInv
<1>2. CASE StartNew
  BY <1>1, <1>2 DEF StartNew, PlaceInv
<1>3. CASE StartOld
  BY <1>1, <1>3 DEF StartOld, PlaceInv, AllOld, Started, Idle, Old
<1>4. CASE \/ \E v \in Versions : Begin(v) \/ Damage(v)
           \/ Refuse \/ DrainOld \/ StopOld \/ WriteBundle \/ BundleRollsBack \/ WriteUnit
           \/ Activate \/ VerifyNew \/ StopNew \/ RestoreFiles \/ RestorePointer
           \/ CheckOld \/ VerifyOld \/ CheckPointer \/ Crash
  BY <1>4 DEF Begin, Damage, Refuse, DrainOld, StopOld, WriteBundle, BundleRollsBack,
     WriteUnit, Activate, VerifyNew, StopNew, RestoreFiles, RestorePointer, CheckOld,
     VerifyOld, CheckPointer, Crash, Drained, Stopped, Idle
<1> QED BY <1>2, <1>3, <1>4 DEF Next

-----------------------------------------------------------------------------
(* The script on a remote machine *)

RemoteInv == DeploymentInv /\ Remote

\* The orders in which the script works name every file and the pointer.
LEMMA OrderShape ==
    /\ Len(Order) = 4 /\ DOMAIN Order = 1..4
    /\ \A n \in 1..4 : Order[n] \in {"active.json", "secrets", "pointer", "unit"}
    /\ {"active.json", "secrets", "pointer", "unit"} \subseteq Range(Order)
<1>1. /\ Len(Order) = 4 /\ DOMAIN Order = 1..4
      /\ Order[1] = "active.json" /\ Order[2] = "secrets"
      /\ Order[3] = "pointer" /\ Order[4] = "unit"
  BY DEF Order
<1>2. 1 \in 1..4 /\ 2 \in 1..4 /\ 3 \in 1..4 /\ 4 \in 1..4
  OBVIOUS
<1> QED BY <1>1, <1>2 DEF Range

LEMMA UndoOrderShape ==
    /\ Len(UndoOrder) = 4 /\ DOMAIN UndoOrder = 1..4
    /\ \A n \in 1..4 : UndoOrder[n] \in {"active.json", "secrets", "pointer", "unit"}
    /\ {"active.json", "secrets", "pointer", "unit"} \subseteq Range(UndoOrder)
<1>1. CASE supervisor = "cron_user"
  <2>1. UndoOrder = <<"secrets", "pointer", "active.json", "unit">>
    BY <1>1 DEF UndoOrder
  <2>2. /\ Len(UndoOrder) = 4 /\ DOMAIN UndoOrder = 1..4
        /\ UndoOrder[1] = "secrets" /\ UndoOrder[2] = "pointer"
        /\ UndoOrder[3] = "active.json" /\ UndoOrder[4] = "unit"
    BY <2>1
  <2>3. 1 \in 1..4 /\ 2 \in 1..4 /\ 3 \in 1..4 /\ 4 \in 1..4
    OBVIOUS
  <2> QED BY <2>2, <2>3 DEF Range
<1>2. CASE supervisor # "cron_user"
  <2>1. UndoOrder = <<"unit", "secrets", "pointer", "active.json">>
    BY <1>2 DEF UndoOrder
  <2>2. /\ Len(UndoOrder) = 4 /\ DOMAIN UndoOrder = 1..4
        /\ UndoOrder[1] = "unit" /\ UndoOrder[2] = "secrets"
        /\ UndoOrder[3] = "pointer" /\ UndoOrder[4] = "active.json"
    BY <2>1
  <2>3. 1 \in 1..4 /\ 2 \in 1..4 /\ 3 \in 1..4 /\ 4 \in 1..4
    OBVIOUS
  <2> QED BY <2>2, <2>3 DEF Range
<1> QED BY <1>1, <1>2

\* Nothing is started.
LEMMA StartedStays ==
    ASSUME RemoteInv, UNCHANGED <<supervisor, serves, mixed>>, unmarked => unmarked',
           running' \in {running, Missing}
    PROVE  StartedInv'
BY DEF RemoteInv, DeploymentInv, StartedInv, Remote

\* A gateway is started, if at all, with the configuration that is there.
LEMMA StartedNew ==
    ASSUME RemoteInv, NEW v \in Versions \cup {Missing}, Launched(v),
           UNCHANGED supervisor, unmarked => unmarked',
           supervisor = "cron_user" \/ unmarked \/ v = files["active.json"]
    PROVE  /\ StartedInv' /\ running' \in Versions \cup {Missing} /\ accepting' \in BOOLEAN
           /\ running' \in {running, v}
<1>1. /\ TypeOK /\ linux /\ StartedInv /\ Remote
      /\ files["active.json"] \in Versions \cup {Missing}
  BY FilesShape DEF RemoteInv, DeploymentInv, RemotePlaceInv, TypeOK, Contents
<1>2. CASE running = Missing /\ v # Missing /\ Startable
  <2>1. /\ running' = v /\ accepting' = TRUE /\ serves' = files["active.json"]
        /\ mixed' = (mixed \/ v # files["active.json"])
    BY <1>2 DEF Launched, Started
  <2>2. mixed' \in BOOLEAN /\ (running' = serves' \/ mixed')
    BY <2>1
  <2>3. mixed' => supervisor = "cron_user" \/ unmarked'
    BY <1>1, <2>1 DEF StartedInv
  <2> QED BY <1>1, <2>1, <2>2, <2>3 DEF StartedInv
<1>3. CASE ~(running = Missing /\ v # Missing /\ Startable)
  <2>1. UNCHANGED <<running, accepting, serves, mixed>>
    BY <1>3 DEF Launched, Idle, served
  <2> QED BY <1>1, <2>1, StartedStays DEF TypeOK
<1> QED BY <1>2, <1>3

\* A step of the script that neither begins nor ends it.
LEMMA RemoteMid ==
    ASSUME RemoteInv, pc # "idle", pc' \in Places \ {"idle"}, StartedInv',
           UNCHANGED <<supervisor, linux, release, job, verdict, marker, unmarked>>,
           pointer' \in Pointers \cup {Missing}, files' \in Contents,
           running' \in Versions \cup {Missing}, accepting' \in BOOLEAN,
           pc' \in {"start", "verify"} => AllNew',
           pc' \in {"r_start", "r_verify"} => AllOld'
    PROVE  RemoteInv'
<1> USE DEF RemoteInv, DeploymentInv, Remote
<1>1. UNCHANGED <<Files, Bundle, Contents, Jobs>>
  BY FilesStay
<1>2. TypeOK'
  BY <1>1 DEF TypeOK
<1>3. WholeInv' /\ ReportIsTrue' /\ verdict' = "none"
  BY MidStep
<1>4. RemotePlaceInv'
  BY <1>3 DEF RemotePlaceInv, RemoteRecoveredServes
<1> QED BY <1>2, <1>3, <1>4

\* A step that ends it without recovery.
LEMMA RemoteFailed ==
    ASSUME RemoteInv, pc # "idle", End(FALSE), UNCHANGED <<supervisor, linux, release>>,
           StartedInv',
           pointer' \in Pointers \cup {Missing}, files' \in Contents,
           running' \in Versions \cup {Missing}, accepting' \in BOOLEAN
    PROVE  RemoteInv'
<1> USE DEF RemoteInv, DeploymentInv, Remote
<1>1. UNCHANGED <<Files, Bundle, Contents, Jobs>>
  BY FilesStay
<1>2. /\ WholeInv' /\ ReportIsTrue' /\ verdict' = "failed" /\ pc' = "idle"
      /\ job' = job /\ marker' \in BOOLEAN /\ unmarked' \in BOOLEAN
  BY FailedEnd
<1>3. TypeOK'
  BY <1>1, <1>2 DEF TypeOK, Places
<1>4. RemotePlaceInv'
  BY <1>2 DEF RemotePlaceInv, RemoteRecoveredServes
<1> QED BY <1>2, <1>3, <1>4

\* Neither way to end forgets a death.
LEMMA EndRemembers ==
    ASSUME NEW recovered, End(recovered) PROVE unmarked => unmarked'
BY DEF End

\* A step that ends it with everything back, and the old configuration in
\* service.
LEMMA RemoteRecovered ==
    ASSUME RemoteInv, pc # "idle", End(TRUE), pointer = job.before, files = job.saved,
           UNCHANGED <<supervisor, linux, release, pointer, files, running, accepting,
                       serves, mixed>>,
           job.before # Missing => Answers(job.saved["active.json"])
    PROVE  RemoteInv'
<1> USE DEF RemoteInv, DeploymentInv, Remote
<1>1. UNCHANGED <<Files, Bundle, Contents, Jobs>>
  BY FilesStay
<1>2. job' = job
  BY DEF End
<1>3. /\ WholeInv' /\ ReportIsTrue' /\ verdict' = "recovered" /\ pc' = "idle"
      /\ job' = job /\ marker' = marker /\ unmarked' = unmarked
  BY <1>2, RecoveredEnd DEF RemotePlaceInv
<1>4. TypeOK'
  BY <1>1, <1>3 DEF TypeOK, Places
<1>5. StartedInv'
  BY <1>3 DEF StartedInv
<1>6. RemotePlaceInv'
  <2>1. job.before # Missing => Serves(job.saved["active.json"])'
    BY <1>2, <1>3 DEF StartedInv, Serves, Answers
  <2>2. job.before # Missing /\ ~unmarked => job.saved["active.json"] = Old
    BY FilesShape DEF WholeInv, Whole, Release, Old, RemotePlaceInv
  <2> QED BY <1>2, <1>3, <2>1, <2>2 DEF RemotePlaceInv, RemoteRecoveredServes, Old
<1> QED BY <1>3, <1>4, <1>5, <1>6

LEMMA RemoteBeginsKeepsInv ==
    ASSUME RemoteInv, NEW v \in Versions, RemoteBegins(v), UNCHANGED supervisor
    PROVE  RemoteInv'
<1> USE DEF RemoteInv, DeploymentInv, Remote
<1>1. /\ pc = "idle" /\ ~marker
      /\ release' = [release EXCEPT ![v] = "intact"]
      /\ UNCHANGED <<linux, pointer, files, running, accepting, marker, unmarked, serves>>
      /\ mixed' = (running # Missing /\ running # serves)
  BY DEF RemoteBegins, Staged, Install
<1>2. UNCHANGED <<Files, Bundle, Contents, Jobs>>
  BY <1>1, FilesStay
<1>3. release' \in [Versions -> ReleaseStates]
  BY <1>1 DEF TypeOK, ReleaseStates
<1>6. StartedInv'
  BY <1>1 DEF StartedInv
<1>4. CASE verdict' = "refused" /\ UNCHANGED <<job, pc>>
  <2>1. TypeOK'
    BY <1>1, <1>2, <1>3, <1>4 DEF TypeOK
  <2>2. WholeInv' /\ ReportIsTrue'
    BY <1>1, <1>2, <1>4 DEF WholeInv, Whole, Release, ReportIsTrue, SuccessIsWhole,
       RecoveredIsBack, ServiceKept
  <2>3. RemotePlaceInv'
    BY <1>1, <1>4 DEF RemotePlaceInv, RemoteRecoveredServes
  <2> QED BY <1>6, <2>1, <2>2, <2>3
<1>5. CASE /\ job' = [target |-> v, before |-> pointer, saved |-> files,
                      activated |-> FALSE, stopTried |-> FALSE, stopped |-> FALSE,
                      owed |-> FALSE]
           /\ pc' \in {"ports", "uncron", "drain"}
           /\ verdict' = "none"
  <2>1. /\ job' \in Jobs /\ job'.before = pointer /\ job'.saved = files
    BY <1>2, <1>5 DEF TypeOK, Jobs
  <2>2. TypeOK'
    BY <1>1, <1>2, <1>3, <1>5, <2>1 DEF TypeOK, Places
  <2>3. WholeInv' /\ ReportIsTrue'
    BY <1>1, <1>2, <1>5, <2>1 DEF WholeInv, Whole, Release, ReportIsTrue, SuccessIsWhole,
       RecoveredIsBack, ServiceKept
  <2>4. RemotePlaceInv'
    BY <1>1, <1>5 DEF RemotePlaceInv, RemoteRecoveredServes
  <2> QED BY <1>6, <2>2, <2>3, <2>4
<1> QED BY <1>4, <1>5 DEF RemoteBegins

LEMMA RemoteRefuses ==
    ASSUME RemoteInv, Refuse, UNCHANGED <<supervisor, serves, mixed>> PROVE RemoteInv'
<1>1. /\ pc' = "idle" /\ linux' = linux /\ verdict' = "refused"
  BY DEF Refuse
<1>2. RemotePlaceInv'
  BY <1>1 DEF RemoteInv, DeploymentInv, RemotePlaceInv, RemoteRecoveredServes
<1>3. StartedInv'
  BY StartedStays DEF Refuse
<1> QED BY <1>2, <1>3, RefuseKeepsType DEF RemoteInv, DeploymentInv, Remote

LEMMA RemoteStopsKeepInv ==
    ASSUME RemoteInv, UNCHANGED <<supervisor, serves, mixed>>,
           RemoveCronLine \/ DrainGateway \/ StopGateway \/ RequirePorts
    PROVE  RemoteInv'
<1>1. /\ pc \in {"uncron", "drain", "stop", "ports"}
      /\ UNCHANGED <<linux, release, pointer, job, verdict, marker, unmarked>>
      /\ pc' \in {"drain", "stop", "ports", "bundle", "r_stop"}
      /\ files' \in {files, [files EXCEPT !["unit"] = Missing]}
      /\ running' \in {running, Missing} /\ accepting' \in {accepting, FALSE}
  BY DEF RemoveCronLine, DrainGateway, StopGateway, RequirePorts, Fails, GoTo, Idle,
     Drained, Stopped, Store
<1>2. TypeOK /\ linux
  BY DEF RemoteInv, DeploymentInv, RemotePlaceInv
<1>3. files' \in Contents
  BY <1>1, <1>2, FilesShape DEF TypeOK, Contents
<1>4. /\ pc # "idle" /\ pc' \in Places \ {"idle"} /\ pointer' \in Pointers \cup {Missing}
      /\ running' \in Versions \cup {Missing} /\ accepting' \in BOOLEAN
      /\ pc' \notin {"start", "verify", "r_start", "r_verify"}
  BY <1>1, <1>2 DEF TypeOK, Places
<1>5. StartedInv'
  BY <1>1, StartedStays
<1> QED BY <1>1, <1>3, <1>4, <1>5, RemoteMid

\* Every file and the pointer are of the new release before it is started.
LEMMA WriteRemoteKeepsInv ==
    ASSUME RemoteInv, WriteRemote, UNCHANGED <<supervisor, serves, mixed>> PROVE RemoteInv'
<1>1. TypeOK /\ linux
  BY DEF RemoteInv, DeploymentInv, RemotePlaceInv
<1>2. /\ pc = "bundle" /\ pc' \in {"bundle", "r_stop"}
      /\ UNCHANGED <<linux, release, running, accepting, job, verdict, marker, unmarked>>
  BY DEF WriteRemote, Idle, GoTo, Fails
<1>3. PICK n \in 1..Len(Order) :
          \/ IF Order[n] = "pointer"
             THEN pointer' = NewPointer /\ UNCHANGED files
             ELSE /\ files' = [files EXCEPT ![Order[n]] = Envelope(job.target)[Order[n]]]
                  /\ UNCHANGED pointer
          \/ UNCHANGED <<pointer, files>>
  BY DEF WriteRemote
<1>4. Order[n] \in Files \cup {"pointer"}
  BY <1>1, <1>3, OrderShape, FilesShape
<1>5. NewPointer \in Pointers /\ \A f \in Files : Envelope(job.target)[f] \in Versions
  BY <1>1, JobShape DEF NewPointer, Pointers, Envelope
<1>6. pointer' \in Pointers \cup {Missing} /\ files' \in Contents
  BY <1>1, <1>3, <1>4, <1>5 DEF TypeOK, Contents
<1>7. /\ pc # "idle" /\ pc' \in Places \ {"idle"}
      /\ running' \in Versions \cup {Missing} /\ accepting' \in BOOLEAN
      /\ pc' \notin {"start", "verify", "r_start", "r_verify"}
  BY <1>1, <1>2 DEF TypeOK, Places
<1>8. StartedInv'
  BY <1>2, StartedStays
<1> QED BY <1>2, <1>6, <1>7, <1>8, RemoteMid

LEMMA AllWrittenKeepsInv ==
    ASSUME RemoteInv, AllWritten, UNCHANGED <<supervisor, serves, mixed>> PROVE RemoteInv'
<1>1. TypeOK /\ linux
  BY DEF RemoteInv, DeploymentInv, RemotePlaceInv
<1>2. /\ pc = "bundle" /\ pc' \in {"start", "r_stop"}
      /\ UNCHANGED <<linux, release, pointer, files, running, accepting, job, verdict,
                     marker, unmarked>>
      /\ \A f \in Range(Order) : New(f)
  BY DEF AllWritten, Idle, GoTo, Fails, Store
<1>3. AllNew'
  <2>1. Files' = Files
    BY <1>2, FilesStay
  <2>2. \A f \in Files : f # "pointer" /\ f \in Range(Order)
    BY <1>1, FilesShape, OrderShape
  <2>3. \A f \in Files : files[f] = job.target
    BY <1>2, <2>2 DEF New, Envelope
  <2>4. pointer = NewPointer
    BY <1>2, OrderShape DEF New
  <2> QED BY <1>2, <2>1, <2>3, <2>4 DEF AllNew, NewPointer, Release
<1>4. /\ pc # "idle" /\ pc' \in Places \ {"idle"} /\ pc' \notin {"verify", "r_start", "r_verify"}
      /\ running' \in Versions \cup {Missing} /\ accepting' \in BOOLEAN
      /\ pointer' \in Pointers \cup {Missing} /\ files' \in Contents
  BY <1>1, <1>2, FilesStay DEF TypeOK, Places
<1>5. StartedInv'
  BY <1>2, StartedStays
<1> QED BY <1>2, <1>3, <1>4, <1>5, RemoteMid

LEMMA StartRemoteKeepsInv ==
    ASSUME RemoteInv, StartRemote, UNCHANGED supervisor PROVE RemoteInv'
<1>1. TypeOK /\ linux /\ StartedInv
  BY DEF RemoteInv, DeploymentInv, RemotePlaceInv
<1>2. /\ pc = "start" /\ pc' \in {"verify", "r_stop"}
      /\ UNCHANGED <<linux, release, pointer, files, job, verdict, marker, unmarked>>
      /\ Launched(files["unit"]) \/ (Idle /\ UNCHANGED served)
  BY DEF StartRemote, GoTo, Fails, Store
<1>3. AllNew
  BY <1>2 DEF RemoteInv, DeploymentInv, RemotePlaceInv
<1>4. AllNew'
  BY <1>2, <1>3, FilesStay DEF AllNew, Release
<1>5. files["unit"] \in Versions /\ files["unit"] = files["active.json"]
  BY <1>1, <1>3, FilesShape, JobShape DEF AllNew
<1>6. StartedInv' /\ running' \in Versions \cup {Missing} /\ accepting' \in BOOLEAN
  <2>1. CASE Launched(files["unit"])
    BY <1>2, <1>5, <2>1, StartedNew
  <2>2. CASE Idle /\ UNCHANGED served
    BY <1>1, <1>2, <2>2, StartedStays DEF Idle, served, TypeOK
  <2> QED BY <1>2, <2>1, <2>2
<1>7. /\ pc # "idle" /\ pc' \in Places \ {"idle"} /\ pc' \notin {"r_start", "r_verify"}
      /\ pointer' \in Pointers \cup {Missing} /\ files' \in Contents
  BY <1>1, <1>2 DEF TypeOK, Places
<1> QED BY <1>2, <1>4, <1>6, <1>7, RemoteMid

LEMMA VerifyRemoteNewKeepsInv ==
    ASSUME RemoteInv, VerifyRemoteNew, UNCHANGED <<supervisor, serves, mixed>> PROVE RemoteInv'
<1> USE DEF RemoteInv, DeploymentInv, Remote
<1>1. /\ pc = "verify" /\ AllNew
      /\ UNCHANGED <<linux, release, pointer, files, running, accepting, job, marker, unmarked>>
  BY DEF VerifyRemoteNew, Store, Idle, Fails, RemotePlaceInv
<1>2. StartedInv'
  BY <1>1, StartedStays
<1>3. UNCHANGED <<Files, Bundle, Contents, Jobs>>
  BY <1>1, FilesStay
<1>4. CASE Answers(job.target) /\ pc' = "idle" /\ verdict' = "done"
  <2>1. TypeOK'
    BY <1>1, <1>3, <1>4 DEF TypeOK, Places
  <2>2. WholeInv' /\ ReportIsTrue'
    <3>1. WholeInv' /\ SuccessIsWhole' /\ RecoveredIsBack'
      BY <1>1, <1>4, VerifyKeepsReport
    <3>2. Serves(job.target)'
      BY <1>1, <1>4 DEF StartedInv, Serves, Answers
    <3> QED BY <3>1, <3>2 DEF ReportIsTrue
  <2>3. RemotePlaceInv'
    BY <1>1, <1>4 DEF RemotePlaceInv, RemoteRecoveredServes
  <2> QED BY <1>1, <1>2, <2>1, <2>2, <2>3
<1>5. CASE Fails
  <2>1. pc' = "r_stop" /\ UNCHANGED verdict
    BY <1>5 DEF Fails
  <2>2. /\ pc # "idle" /\ pc' \in Places \ {"idle"}
        /\ pc' \notin {"start", "verify", "r_start", "r_verify"}
        /\ running' \in Versions \cup {Missing} /\ accepting' \in BOOLEAN
        /\ pointer' \in Pointers \cup {Missing} /\ files' \in Contents
    BY <1>1, <2>1 DEF TypeOK, Places
  <2> HIDE DEF RemoteInv, DeploymentInv, Remote
  <2> QED BY <1>1, <1>2, <2>1, <2>2, RemoteMid
<1> QED BY <1>4, <1>5 DEF VerifyRemoteNew

LEMMA StopForUndoKeepsInv ==
    ASSUME RemoteInv, StopForUndo, UNCHANGED <<supervisor, serves, mixed>> PROVE RemoteInv'
<1>1. TypeOK
  BY DEF RemoteInv, DeploymentInv
<1>2. /\ pc = "r_stop" /\ UNCHANGED <<linux, release, pointer, files, accepting>>
      /\ running' \in {running, Missing}
      /\ GoTo("r_files") \/ End(FALSE)
  BY DEF StopForUndo, Stopped, Idle, Store
<1>3. /\ running' \in Versions \cup {Missing} /\ accepting' \in BOOLEAN
      /\ pointer' \in Pointers \cup {Missing} /\ files' \in Contents
  BY <1>1, <1>2 DEF TypeOK
<1>0. StartedInv'
  <2>1. unmarked => unmarked'
    BY <1>2, <1>3, EndRemembers DEF GoTo
  <2> QED BY <1>2, <2>1, StartedStays
<1>4. CASE GoTo("r_files")
  <2>1. pc' = "r_files" /\ UNCHANGED <<job, verdict, marker, unmarked>>
    BY <1>4 DEF GoTo
  <2> QED BY <1>0, <1>2, <1>3, <2>1, RemoteMid DEF Places
<1>5. CASE End(FALSE)
  BY <1>0, <1>2, <1>3, <1>5, RemoteFailed
<1> QED BY <1>2, <1>4, <1>5

LEMMA UndoFileKeepsInv ==
    ASSUME RemoteInv, UndoFile, UNCHANGED <<supervisor, serves, mixed>> PROVE RemoteInv'
<1>1. TypeOK /\ linux
  BY DEF RemoteInv, DeploymentInv, RemotePlaceInv
<1>2. /\ pc = "r_files" /\ UNCHANGED <<linux, release, running, accepting>>
  BY DEF UndoFile, Idle
<1>3. PICK n \in 1..Len(UndoOrder) :
          \/ /\ IF UndoOrder[n] = "pointer"
                THEN pointer' = job.before /\ UNCHANGED files
                ELSE /\ files' = [files EXCEPT ![UndoOrder[n]] = job.saved[UndoOrder[n]]]
                     /\ UNCHANGED pointer
             /\ GoTo("r_files")
          \/ UNCHANGED <<pointer, files>> /\ End(FALSE)
  BY DEF UndoFile
<1>4. UndoOrder[n] \in Files \cup {"pointer"}
  BY <1>1, <1>3, UndoOrderShape, FilesShape
<1>5. pointer' \in Pointers \cup {Missing} /\ files' \in Contents
  BY <1>1, <1>3, <1>4, JobShape DEF TypeOK, Contents
<1>6. running' \in Versions \cup {Missing} /\ accepting' \in BOOLEAN
  BY <1>1, <1>2 DEF TypeOK
<1>0. StartedInv'
  <2>1. unmarked => unmarked'
    BY <1>2, <1>3, EndRemembers DEF GoTo
  <2> QED BY <1>2, <2>1, StartedStays
<1>7. CASE GoTo("r_files")
  <2>1. pc' = "r_files" /\ UNCHANGED <<job, verdict, marker, unmarked>>
    BY <1>7 DEF GoTo
  <2> QED BY <1>0, <1>2, <1>5, <1>6, <2>1, RemoteMid DEF Places
<1>8. CASE End(FALSE)
  BY <1>0, <1>2, <1>5, <1>6, <1>8, RemoteFailed
<1> QED BY <1>3, <1>7, <1>8

\* Once every file is back the machine is as it was, but for its gateway.
LEMMA FilesAreBackKeepsInv ==
    ASSUME RemoteInv, FilesAreBack, UNCHANGED <<supervisor, serves, mixed>> PROVE RemoteInv'
<1>1. TypeOK /\ linux
  BY DEF RemoteInv, DeploymentInv, RemotePlaceInv
<1>2. /\ pc = "r_files"
      /\ UNCHANGED <<linux, release, pointer, files, running, accepting>>
      /\ \A f \in Range(UndoOrder) : Back(f)
      /\ \/ job.before = Missing /\ End(TRUE)
         \/ job.before # Missing /\ GoTo("r_start")
         \/ End(FALSE)
  BY DEF FilesAreBack, Idle, Store
<1>3. pointer = job.before
  BY <1>2, UndoOrderShape DEF Back
<1>4. files = job.saved
  <2>1. \A f \in Files : f # "pointer" /\ f \in Range(UndoOrder)
    BY <1>1, FilesShape, UndoOrderShape
  <2>2. \A f \in Files : files[f] = job.saved[f]
    BY <1>2, <2>1 DEF Back
  <2> QED BY <1>1, <2>2, JobShape DEF TypeOK, Contents
<1>5. /\ running' \in Versions \cup {Missing} /\ accepting' \in BOOLEAN
      /\ pointer' \in Pointers \cup {Missing} /\ files' \in Contents
  BY <1>1, <1>2 DEF TypeOK
<1>0. StartedInv'
  <2>1. unmarked => unmarked'
    BY <1>2, <1>3, EndRemembers DEF GoTo
  <2> QED BY <1>2, <2>1, StartedStays
<1>6. CASE job.before = Missing /\ End(TRUE)
  BY <1>2, <1>3, <1>4, <1>6, RemoteRecovered
<1>7. CASE job.before # Missing /\ GoTo("r_start")
  <2>1. pc' = "r_start" /\ UNCHANGED <<job, verdict, marker, unmarked>>
    BY <1>7 DEF GoTo
  <2>2. AllOld'
    BY <1>2, <1>3, <1>4, <1>7, <2>1 DEF AllOld
  <2> QED BY <1>0, <1>2, <1>5, <2>1, <2>2, RemoteMid DEF Places
<1>8. CASE End(FALSE)
  BY <1>0, <1>2, <1>5, <1>8, RemoteFailed
<1> QED BY <1>2, <1>6, <1>7, <1>8

LEMMA RestartOldKeepsInv ==
    ASSUME RemoteInv, RestartOld, UNCHANGED supervisor PROVE RemoteInv'
<1>1. TypeOK /\ linux /\ WholeInv /\ Remote
      /\ supervisor \in {"local", "systemd_user", "cron_user"}
  BY DEF RemoteInv, DeploymentInv, RemotePlaceInv
<1>2. /\ pc = "r_start" /\ UNCHANGED <<linux, release, pointer, files>>
      /\ (Stopped /\ UNCHANGED served) \/ Launched(OldLine) \/ (Idle /\ UNCHANGED served)
      /\ \/ GoTo("r_start") \/ GoTo("r_verify") \/ End(FALSE)
  BY DEF RestartOld, Store
<1>3. AllOld
  BY <1>2 DEF RemoteInv, DeploymentInv, RemotePlaceInv
<1>4. /\ pointer' \in Pointers \cup {Missing} /\ files' \in Contents
      /\ unmarked => unmarked'
  <2>1. pointer' \in Pointers \cup {Missing} /\ files' \in Contents
    BY <1>1, <1>2 DEF TypeOK
  <2>2. CASE GoTo("r_start") \/ GoTo("r_verify")
    BY <2>1, <2>2 DEF GoTo
  <2>3. CASE End(FALSE)
    BY <2>1, <2>3, EndRemembers
  <2> QED BY <1>2, <2>2, <2>3
<1>5. /\ OldLine \in Versions \cup {Missing}
      /\ supervisor = "cron_user" \/ unmarked \/ OldLine = files["active.json"]
  <2>1. Old \in Versions /\ files["unit"] \in Versions \cup {Missing}
    BY <1>1, <1>3, JobShape, FilesShape DEF AllOld, TypeOK, Contents
  <2>2. ~unmarked => Whole(files, job.before)
    BY <1>1, <1>2, <1>3 DEF WholeInv, AllOld
  <2>3. ~unmarked => files["unit"] = files["active.json"]
    BY <1>1, <2>2, FilesShape DEF Whole
  <2> QED BY <2>1, <2>3 DEF OldLine
<1>6. StartedInv' /\ running' \in Versions \cup {Missing} /\ accepting' \in BOOLEAN
  <2>1. CASE Launched(OldLine)
    BY <1>4, <1>5, <2>1, StartedNew
  <2>2. CASE (Idle \/ Stopped) /\ UNCHANGED served
    BY <1>1, <1>4, <2>2, StartedStays DEF Idle, Stopped, served, TypeOK
  <2> QED BY <1>2, <2>1, <2>2
<1>7. CASE GoTo("r_start") \/ GoTo("r_verify")
  <2>1. /\ pc' \in {"r_start", "r_verify"}
        /\ UNCHANGED <<job, verdict, marker, unmarked>>
    BY <1>7 DEF GoTo
  <2>2. AllOld'
    BY <1>2, <1>3, <2>1 DEF AllOld
  <2> QED BY <1>2, <1>4, <1>6, <2>1, <2>2, RemoteMid DEF Places
<1>8. CASE End(FALSE)
  BY <1>2, <1>4, <1>6, <1>8, RemoteFailed
<1> QED BY <1>2, <1>7, <1>8

LEMMA VerifyRemoteOldKeepsInv ==
    ASSUME RemoteInv, VerifyRemoteOld, UNCHANGED <<supervisor, serves, mixed>> PROVE RemoteInv'
<1>1. TypeOK
  BY DEF RemoteInv, DeploymentInv
<1>2. /\ pc = "r_verify"
      /\ UNCHANGED <<linux, release, pointer, files, running, accepting>>
      /\ \/ Answers(job.saved["active.json"]) /\ End(TRUE)
         \/ End(FALSE)
  BY DEF VerifyRemoteOld, Idle, Store
<1>3. AllOld
  BY <1>2 DEF RemoteInv, DeploymentInv, RemotePlaceInv
<1>4. /\ running' \in Versions \cup {Missing} /\ accepting' \in BOOLEAN
      /\ pointer' \in Pointers \cup {Missing} /\ files' \in Contents
  BY <1>1, <1>2 DEF TypeOK
<1>5. CASE Answers(job.saved["active.json"]) /\ End(TRUE)
  BY <1>2, <1>3, <1>5, RemoteRecovered DEF AllOld
<1>6. CASE End(FALSE)
  <2>1. StartedInv'
    BY <1>2, <1>6, StartedStays, EndRemembers
  <2> QED BY <1>2, <1>4, <1>6, <2>1, RemoteFailed
<1> QED BY <1>2, <1>5, <1>6

\* Cron starts a gateway only where none runs, and one runs when a deployment
\* has reported success or a gateway in service again.
LEMMA CronTickKeepsInv ==
    ASSUME RemoteInv, CronTick, UNCHANGED supervisor PROVE RemoteInv'
<1>1. /\ running = Missing /\ Launched(files["unit"]) /\ supervisor = "cron_user"
      /\ UNCHANGED <<linux, release, pointer, files, marker, pc, job, verdict, unmarked>>
  BY DEF CronTick, Store
<1>2. TypeOK /\ linux /\ WholeInv /\ ReportIsTrue /\ RemotePlaceInv /\ Remote
  <2>1. TypeOK /\ WholeInv /\ ReportIsTrue /\ RemotePlaceInv /\ Remote
    BY DEF RemoteInv, DeploymentInv
  <2> QED BY <2>1 DEF RemotePlaceInv
<1>3. UNCHANGED <<Files, Bundle, Contents, Jobs>>
  BY <1>1, FilesStay
<1>4. StartedInv' /\ running' \in Versions \cup {Missing} /\ accepting' \in BOOLEAN
  <2>1. files["unit"] \in Versions \cup {Missing}
    BY <1>2, FilesShape DEF TypeOK, Contents
  <2> QED BY <1>1, <2>1, StartedNew
<1>5. TypeOK'
  BY <1>1, <1>2, <1>3, <1>4 DEF TypeOK
<1>6. WholeInv'
  BY <1>1, <1>2, <1>3 DEF WholeInv, Whole, Release
<1>7. verdict # "done" /\ (verdict = "recovered" => job.before = Missing)
  BY <1>1, <1>2 DEF ReportIsTrue, RemotePlaceInv, RemoteRecoveredServes, Serves, Answers
<1>8. ReportIsTrue'
  BY <1>1, <1>2, <1>3, <1>7 DEF ReportIsTrue, SuccessIsWhole, RecoveredIsBack, Remote
<1>9. RemotePlaceInv'
  BY <1>1, <1>2, <1>3, <1>7 DEF RemotePlaceInv, RemoteRecoveredServes, AllNew, AllOld,
     Release, Remote
<1> QED BY <1>1, <1>2, <1>4, <1>5, <1>6, <1>8, <1>9 DEF RemoteInv, DeploymentInv, Remote

LEMMA RemoteCrashKeepsInv ==
    ASSUME RemoteInv, Crash, UNCHANGED <<supervisor, serves, mixed>> PROVE RemoteInv'
<1>1. pc' = "idle" /\ linux' = linux /\ verdict' = "none"
  BY DEF Crash
<1>2. RemotePlaceInv'
  BY <1>1 DEF RemoteInv, DeploymentInv, RemotePlaceInv, RemoteRecoveredServes
<1>3. StartedInv'
  BY StartedStays DEF Crash
<1> QED BY <1>2, <1>3, CrashKeepsType DEF RemoteInv, DeploymentInv, Remote

LEMMA RemoteNextKeepsInv ==
    ASSUME RemoteInv, RemoteNext, UNCHANGED supervisor PROVE RemoteInv'
BY RemoteRefuses, RemoteBeginsKeepsInv, RemoteStopsKeepInv, WriteRemoteKeepsInv,
   AllWrittenKeepsInv, StartRemoteKeepsInv, VerifyRemoteNewKeepsInv, StopForUndoKeepsInv, UndoFileKeepsInv,
   FilesAreBackKeepsInv, RestartOldKeepsInv, VerifyRemoteOldKeepsInv, CronTickKeepsInv,
   RemoteCrashKeepsInv DEF RemoteNext, EnvelopeRefused, PayloadRefused, served

\* The singleton lock: the script's gateways start in place of none.
LEMMA RemoteStarts ==
    ASSUME RemoteInv, RemoteNext PROVE running' \in {running, Missing} \/ running = Missing
<1>1. CASE StartRemote \/ RestartOld \/ CronTick
  BY <1>1 DEF StartRemote, RestartOld, CronTick, Launched, Started, Stopped, Idle
<1>2. CASE \/ EnvelopeRefused \/ PayloadRefused
           \/ \E v \in Versions : RemoteBegins(v)
           \/ RemoveCronLine \/ DrainGateway \/ StopGateway \/ RequirePorts
           \/ WriteRemote \/ AllWritten \/ VerifyRemoteNew \/ StopForUndo \/ UndoFile
           \/ FilesAreBack
           \/ VerifyRemoteOld \/ Crash
  BY <1>2 DEF EnvelopeRefused, PayloadRefused, Refuse, RemoteBegins, RemoveCronLine,
     DrainGateway, StopGateway, RequirePorts, WriteRemote, AllWritten, VerifyRemoteNew,
     StopForUndo, UndoFile, FilesAreBack, VerifyRemoteOld, Crash, Drained, Stopped, Idle
<1> QED BY <1>1, <1>2 DEF RemoteNext

-----------------------------------------------------------------------------
(* Both deployments *)

LEMMA DeploymentInvInit == RemoteInit => DeploymentInv
<1> SUFFICES ASSUME RemoteInit PROVE DeploymentInv
  OBVIOUS
<1>1. TypeOK
  <2>1. /\ release \in [Versions -> ReleaseStates] /\ pointer \in Pointers \cup {Missing}
        /\ files \in Contents /\ running \in Versions \cup {Missing}
    BY DeploymentAssumption DEF RemoteInit, Init, ReleaseStates, Pointers, Contents
  <2>2. job \in Jobs
    BY <2>1, DeploymentAssumption DEF RemoteInit, Init, Jobs
  <2> QED BY <2>1, <2>2 DEF RemoteInit, Init, TypeOK, Places
<1>2. /\ pc = "idle" /\ verdict = "none"
      /\ running # Missing => pointer # Missing /\ running = pointer.version
      /\ Whole(files, pointer)
  BY DeploymentAssumption DEF RemoteInit, Init, Whole, Release, Pointers
<1>3. WholeInv /\ ReportIsTrue /\ StartedInv
  BY <1>1, <1>2 DEF WholeInv, ReportIsTrue, SuccessIsWhole, RecoveredIsBack, ServiceKept,
     StartedInv, RemoteInit, TypeOK
<1>4. IF Remote THEN RemotePlaceInv ELSE PlaceInv
  BY <1>2 DEF RemoteInit, RemotePlaceInv, RemoteRecoveredServes, PlaceInv
<1> QED BY <1>1, <1>3, <1>4 DEF DeploymentInv, RemoteInit

\* Nothing happens to the machine, or to any part of its state.
LEMMA DeploymentStutter ==
    ASSUME DeploymentInv, UNCHANGED remoteVars PROVE DeploymentInv'
<1>1. UNCHANGED <<linux, release, pointer, files, running, accepting, marker, pc, job,
                  verdict, unmarked, supervisor, serves, mixed>>
  BY DEF remoteVars, vars, served
<1>2. UNCHANGED <<Files, Bundle, Contents, Jobs>>
  BY <1>1, FilesStay
<1>3. TypeOK' /\ WholeInv' /\ ReportIsTrue' /\ StartedInv'
  <2>1. TypeOK' /\ WholeInv' /\ StartedInv'
    BY <1>1, <1>2 DEF DeploymentInv, TypeOK, WholeInv, Whole, Release, StartedInv, Remote
  <2>2. ReportIsTrue'
    BY <1>1, <1>2 DEF DeploymentInv, ReportIsTrue, SuccessIsWhole, RecoveredIsBack,
       ServiceKept, Serves, Answers, Remote, Healthy, Old
  <2> QED BY <2>1, <2>2
<1>4. Remote => RemotePlaceInv'
  BY <1>1, <1>2 DEF DeploymentInv, Remote, RemotePlaceInv, RemoteRecoveredServes, AllNew,
     AllOld, Release, Serves, Answers, Old
<1>5. ~Remote => PlaceInv'
  BY <1>1, <1>2 DEF DeploymentInv, Remote, PlaceInv, AllNew, AllOld, Release, Healthy, Old
<1> QED BY <1>1, <1>3, <1>4, <1>5 DEF DeploymentInv, Remote

LEMMA DeploymentNextKeepsInv ==
    DeploymentInv /\ [DeploymentNext]_remoteVars => DeploymentInv'
<1> SUFFICES ASSUME DeploymentInv, [DeploymentNext]_remoteVars PROVE DeploymentInv'
  OBVIOUS
<1>1. CASE Remote /\ RemoteNext /\ UNCHANGED supervisor
  BY <1>1, RemoteNextKeepsInv DEF RemoteInv
<1>2. CASE ~Remote /\ Next /\ UNCHANGED served /\ UNCHANGED supervisor
  BY <1>2, LocalNextKeepsInv DEF LocalInv, served
<1>3. CASE UNCHANGED remoteVars
  BY <1>3, DeploymentStutter
<1> QED BY <1>1, <1>2, <1>3 DEF DeploymentNext

\* The inductive invariant of the deployment on the machine itself and of the
\* script on a remote one: where the pointer, the files and the gateway are in
\* every place where either can fail or die.
THEOREM DeploymentHolds == DeploymentSpec => []DeploymentInv
<1> QED BY DeploymentInvInit, DeploymentNextKeepsInv, PTL DEF DeploymentSpec

\* What deploy, upgrade or the remote script reports, success or recovery, is
\* what it left on the machine, for every set of releases.
THEOREM DeploymentReports == DeploymentSpec => []ReportIsTrue
<1>1. DeploymentInv => ReportIsTrue
  BY DEF DeploymentInv
<1> QED BY <1>1, DeploymentHolds, PTL

\* A machine whose files are of two releases carries the marker, unless the
\* deploying process died or could not write it.
THEOREM MixturesAreMarked == DeploymentSpec => []MixtureIsMarked
<1>1. DeploymentInv => MixtureIsMarked
  BY DEF DeploymentInv, WholeInv, Whole, Release, MixtureIsMarked
<1> QED BY <1>1, DeploymentHolds, PTL

\* A remote script that reports recovered has left the configuration in service
\* that it found, whatever cron started meanwhile, and the release it belongs to
\* unless a line of another release ran in between.
THEOREM RemoteRecoveryServes == DeploymentSpec => []RemoteRecoveredServes
<1>1. DeploymentInv => RemoteRecoveredServes
  BY DEF DeploymentInv, RemotePlaceInv, RemoteRecoveredServes
<1> QED BY <1>1, DeploymentHolds, PTL

\* No step starts a release beside another one that may still be running.
THEOREM ReleasesAreExclusive == DeploymentSpec => NeverTwoReleases
<1>1. DeploymentInv /\ [DeploymentNext]_remoteVars
         => [running' \in {running, Missing} \/ running = Missing]_vars
  <2> SUFFICES ASSUME DeploymentInv, [DeploymentNext]_remoteVars
               PROVE  [running' \in {running, Missing} \/ running = Missing]_vars
    OBVIOUS
  <2>1. CASE Remote /\ RemoteNext
    BY <2>1, RemoteStarts DEF RemoteInv
  <2>2. CASE ~Remote /\ Next
    BY <2>2, LocalStarts DEF LocalInv
  <2>3. CASE UNCHANGED remoteVars
    BY <2>3 DEF remoteVars
  <2> QED BY <2>1, <2>2, <2>3 DEF DeploymentNext
<1> QED BY <1>1, DeploymentHolds, PTL DEF DeploymentSpec, NeverTwoReleases

=============================================================================
