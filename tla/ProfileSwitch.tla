---------------------------- MODULE ProfileSwitch ----------------------------
(***************************************************************************)
(* The profile guardian's operations on the user's Codex directory         *)
(* (backend/guardian.py): switching the profile, repairing the visibility  *)
(* of old chats, editing the current profile and restoring a backup.  Each *)
(* one closes Codex, takes a backup, changes auth.json, config.toml, the   *)
(* chat database and the first line of every chat file, and puts the       *)
(* backup back when a step fails.  The guardian may die between any two    *)
(* steps, and the user may start Codex in the middle of it all.            *)
(*                                                                         *)
(* A login is named by its profile, a configuration, a database row and a  *)
(* chat file by the provider they carry.                                   *)
(***************************************************************************)
EXTENDS Naturals, Sequences, FiniteSets, SequencesExt

CONSTANTS
    Accounts,    \* official profiles: they share the provider OpenAI
    Apis,        \* profiles of third-party APIs, each its own provider
    OpenAI,
    Threads,     \* chats
    Limit,       \* backup_limit: 3 to 50 in the code
    MaxBackups,  \* bound: backups taken, starts of Codex by the user included
    MaxStarts,   \* bound: starts of Codex by the user
    Missing      \* no file, no row, no process

ASSUME SwitchAssumption ==
    /\ Limit \in Nat \ {0} /\ MaxBackups \in Nat /\ MaxStarts \in Nat
    /\ Missing \notin Accounts \cup Apis \cup {OpenAI}
    /\ OpenAI \notin Apis /\ Accounts \cap Apis = {}

Profiles  == Accounts \cup Apis
Provider(p) == IF p \in Accounts THEN OpenAI ELSE p
Providers == Apis \cup {OpenAI}

History == [Threads -> Providers \cup {Missing}]
Homes   == [auth : Accounts \cup {Missing}, config : Providers \cup {Missing},
            db : History, roll : History]

\* _read_config_provider: the provider of a directory, also without config.toml.
Reads(h) == IF h.config = Missing THEN OpenAI ELSE h.config

VARIABLES
    home,      \* the Codex directory: auth.json, config.toml, the rows of
               \* state_5.sqlite and the first lines of the chat files
    current,   \* current_profile of the guardian's own state
    codex,     \* the provider a running Codex has read, or Missing
    backups,   \* the backup folders, in the order of their names
    taken,     \* how many were taken
    starts,    \* how often the user started Codex
    pc,        \* where the operation under the service's lock is
    job,       \* its local variables
    verdict,   \* how the last one ended
    raced      \* history: Codex was started during it

vars == <<home, current, codex, backups, taken, starts, pc, job, verdict, raced>>

Places == {"idle", "close", "backup", "auth", "state", "config", "begin", "rewrite",
           "commit", "verify", "save", "launch", "log", "u_state", "u_key", "r_files",
           "r_auth", "r_db", "r_roll", "r_check"}

\* backup: the number of the folder taken first; from: the folder being put
\* back; todo: the chat files still to be rewritten; before, selected: the
\* directory and current_profile at the start; chosen: the backup to restore;
\* newer: history, how many folders had a later name than the one taken; entry,
\* key: the profile's entry in the guardian's state, its API key in the vault,
\* are those of the edit.
Jobs == [op : {"switch", "repair", "edit", "restore"}, profile : Profiles,
         target : Providers, backup : 0..MaxBackups, from : 0..MaxBackups,
         todo : SUBSET Threads, before : Homes, saved : BOOLEAN,
         selected : Profiles, undo : BOOLEAN, chosen : Homes,
         newer : Nat, entry : BOOLEAN, key : BOOLEAN]

\* An operation on profile p that may have to restore folder b.
Job(op, p, b) ==
    [op |-> op, profile |-> p, target |-> IF op = "repair" THEN Reads(home) ELSE Provider(p),
     backup |-> 0, from |-> b.id, todo |-> {}, before |-> home, saved |-> FALSE,
     selected |-> current, undo |-> FALSE, chosen |-> b.home, newer |-> 0,
     entry |-> FALSE, key |-> FALSE]

NoBackup == [id |-> 0, home |-> home]

TypeOK ==
    /\ home \in Homes /\ current \in Profiles
    /\ codex \in Providers \cup {Missing}
    /\ \A i \in DOMAIN backups :
          backups[i].id \in 1..taken /\ backups[i].home \in Homes
    /\ taken \in 0..MaxBackups /\ starts \in 0..MaxStarts
    /\ pc \in Places /\ job \in Jobs
    /\ verdict \in {"none", "done", "rolled back", "broken", "interrupted"}
    /\ raced \in BOOLEAN

\* The directories that profile p may be in force in, before there are chats: the
\* provider of an account is that of a directory without config.toml too.
Found(p) ==
    {[auth |-> IF p \in Accounts THEN p ELSE Missing, config |-> config,
      db |-> [t \in Threads |-> Missing], roll |-> [t \in Threads |-> Missing]] :
        config \in {Provider(p)} \cup (IF p \in Accounts THEN {Missing} ELSE {})}

Init ==
    /\ current \in Profiles /\ home \in Found(current)
    /\ codex = Missing /\ backups = <<>> /\ taken = 0 /\ starts = 0
    /\ pc = "idle" /\ verdict = "none" /\ raced = FALSE
    /\ job = Job("repair", current, NoBackup)

-----------------------------------------------------------------------------
\* create_backup names a folder by the wall clock: a clock that was set back
\* puts it before folders that were taken earlier.
Named(b, newer) == InsertAt(backups, Len(backups) - newer + 1, b)

\* _prune_backups: the folders with the latest names stay.
Pruned(s) == SubSeq(s, 1 + Max({0, Len(s) - Limit}), Len(s))

\* restore_backup takes its safety backup without pruning.
Prunes(op) == op # "restore"

Stored(id) == {b \in Range(backups) : b.id = id}

\* What _restore_files_from_backup puts back; a folder that is gone changes
\* nothing.
Held(id) == IF Stored(id) = {} THEN home ELSE (CHOOSE b \in Stored(id) : TRUE).home

GoTo(place) == pc' = place /\ UNCHANGED <<job, verdict>>
End(v) == pc' = "idle" /\ verdict' = v /\ UNCHANGED job

\* launch_codex, after an operation that succeeded: it may fail.
Launch == codex' \in {codex, Reads(home)}

\* The except blocks: the backup of this operation goes back, after an edit what
\* it stored of the profile before; a second failure is not caught.
Fail ==
    /\ IF job.undo THEN End("broken")
       ELSE /\ pc' = IF job.op = "edit" THEN "u_state" ELSE "r_files"
            /\ UNCHANGED verdict
            /\ job' = [job EXCEPT !.from = job.backup, !.undo = TRUE]
    /\ UNCHANGED <<home, current, codex, backups, taken, starts, raced>>

-----------------------------------------------------------------------------
\* The other operations begin by closing Codex (_ensure_codex_closed).  A history
\* with conflicts, or a login it cannot sync, ends it there.
Begin(op, p, b) ==
    /\ pc = "idle" /\ taken + starts < MaxBackups
    /\ codex' = Missing /\ raced' = FALSE
    /\ job' = Job(op, p, b) /\ verdict' = "none"
    /\ pc' \in {"backup", "idle"}
    /\ UNCHANGED <<home, current, backups, taken, starts>>

switch_profile(p) == Begin("switch", p, NoBackup)
repair_visibility == Begin("repair", current, NoBackup)
restore_backup == \E b \in Range(backups) : Begin("restore", current, b)

\* An edit of the current profile stores a new API key before anything else.
edit_profile ==
    /\ pc = "idle" /\ taken + starts < MaxBackups
    /\ \E key \in BOOLEAN : /\ key => current \in Apis
                            /\ job' = [Job("edit", current, NoBackup) EXCEPT !.key = key]
    /\ pc' = "close" /\ verdict' = "none" /\ raced' = FALSE
    /\ UNCHANGED <<home, current, codex, backups, taken, starts>>

CloseForEdit ==
    /\ pc = "close"
    /\ codex' = Missing /\ raced' = FALSE
    /\ job' = [job EXCEPT !.before = home] /\ pc' = "backup"
    /\ UNCHANGED <<home, current, backups, taken, starts, verdict>>

AfterBackup(op) ==
    CASE op = "switch" -> "auth" [] op = "repair" -> "begin"
      [] op = "edit" -> "state" [] op = "restore" -> "r_files"

\* create_backup; a backup that cannot be taken ends the operation.
CreateBackup ==
    /\ pc = "backup"
    /\ \/ /\ taken' = taken + 1
          /\ \E newer \in 0..Len(backups) :
                LET s == Named([id |-> taken', home |-> home], newer)
                IN  /\ backups' = IF Prunes(job.op) THEN Pruned(s) ELSE s
                    /\ job' = [job EXCEPT !.backup = taken', !.newer = newer]
          /\ pc' = AfterBackup(job.op) /\ UNCHANGED verdict
       \/ job.op # "edit" /\ End("none") /\ UNCHANGED <<taken, backups>>
    /\ UNCHANGED <<home, current, codex, starts, raced>>

\* An official profile brings its login.
WriteAuth ==
    /\ pc = "auth"
    /\ home' = IF job.profile \in Accounts THEN [home EXCEPT !.auth = job.profile] ELSE home
    /\ GoTo("config")
    /\ UNCHANGED <<current, codex, backups, taken, starts, raced>>

\* An edit saves the profile's entry.
SaveEntry ==
    /\ pc = "state"
    /\ job' = [job EXCEPT !.entry = TRUE] /\ pc' = "config"
    /\ UNCHANGED <<home, current, codex, backups, taken, starts, verdict, raced>>

\* _update_config; an edit has no more to write.
UpdateConfig ==
    /\ pc = "config"
    /\ home' = [home EXCEPT !.config = job.target]
    /\ GoTo(IF job.op = "edit" THEN "launch" ELSE "begin")
    /\ UNCHANGED <<current, codex, backups, taken, starts, raced>>

BadInventory == {t \in Threads : home.db[t] # Missing /\ home.roll[t] # Missing}

\* _rollout_inventory: the chat files, whether the database knows them or not.
Inventory == {t \in Threads : home.roll[t] # Missing}

FilesMatch == \A t \in Inventory : home.roll[t] = job.target
RowsMatch  == \A t \in Threads : home.db[t] \in {job.target, Missing}

\* _migrate_thread_provider: the files are listed, the write transaction opens.
BeginMigration ==
    /\ pc = "begin"
    /\ pc' = "rewrite" /\ job' = [job EXCEPT !.todo = Inventory]
    /\ UNCHANGED <<home, current, codex, backups, taken, starts, verdict, raced>>

InTransaction == pc \in {"rewrite", "commit"}

RewriteRollout(t) ==
    /\ pc = "rewrite" /\ t \in job.todo
    /\ home' = IF home.roll[t] = Missing THEN home
               ELSE [home EXCEPT !.roll[t] = job.target]
    /\ job' = [job EXCEPT !.todo = @ \ {t}]
    /\ UNCHANGED <<current, codex, backups, taken, starts, pc, verdict, raced>>

RewriteEnds ==
    /\ pc = "rewrite" /\ job.todo = {}
    /\ GoTo("commit")
    /\ UNCHANGED <<home, current, codex, backups, taken, starts, raced>>

\* Every file is read again before the commit.
Commit ==
    /\ pc = "commit"
    /\ FilesMatch
    /\ home' = [home EXCEPT !.db = [t \in Threads |->
                   IF home.db[t] = Missing THEN Missing ELSE job.target]]
    /\ GoTo("verify")
    /\ UNCHANGED <<current, codex, backups, taken, starts, raced>>

\* _verify_history_provider, after the commit.
Verify ==
    /\ pc = "verify"
    /\ FilesMatch /\ RowsMatch
    /\ GoTo(IF job.op = "switch" THEN "save" ELSE "log")
    /\ UNCHANGED <<home, current, codex, backups, taken, starts, raced>>

SaveState ==
    /\ pc = "save"
    /\ current' = job.profile /\ job' = [job EXCEPT !.saved = TRUE]
    /\ pc' = "log"
    /\ UNCHANGED <<home, codex, backups, taken, starts, verdict, raced>>

\* An edit launches Codex before its last steps, and these may still fail.
LaunchEdited ==
    /\ pc = "launch" /\ Launch /\ GoTo("log")
    /\ UNCHANGED <<home, current, backups, taken, starts, raced>>

LogAndLaunch ==
    /\ pc = "log" /\ End("done")
    /\ IF job.op = "edit" THEN UNCHANGED codex ELSE Launch
    /\ UNCHANGED <<home, current, backups, taken, starts, raced>>

\* Any step between the backup and the end of the operation raises; a check
\* that finds a file or a row of another provider does.
StepFails ==
    /\ pc # "idle" /\ (pc = "backup" => job.op = "edit")
    /\ Fail

-----------------------------------------------------------------------------
\* A failed edit first takes the profile's old entry and key back; the files
\* follow if there is a backup.
UndoEntry ==
    /\ pc = "u_state"
    /\ job' = [job EXCEPT !.entry = FALSE] /\ pc' = "u_key"
    /\ UNCHANGED <<home, current, codex, backups, taken, starts, verdict, raced>>

UndoKey ==
    /\ pc = "u_key"
    /\ job' = [job EXCEPT !.key = FALSE]
    /\ IF job.backup = 0 THEN pc' = "idle" /\ verdict' = "rolled back"
       ELSE pc' = "r_files" /\ UNCHANGED verdict
    /\ UNCHANGED <<home, current, codex, backups, taken, starts, raced>>

\* _restore_files_from_backup: config.toml, auth.json, the database, then the
\* first line of every file of the backup that is still there.  A config.toml
\* or a login that came after the backup is not removed.
RestoreConfig ==
    /\ pc = "r_files"
    /\ LET h == Held(job.from)
       IN  home' = IF h.config = Missing THEN home ELSE [home EXCEPT !.config = h.config]
    /\ GoTo("r_auth")
    /\ UNCHANGED <<current, codex, backups, taken, starts, raced>>

RestoreAuth ==
    /\ pc = "r_auth"
    /\ LET h == Held(job.from)
       IN  home' = IF h.auth = Missing THEN home ELSE [home EXCEPT !.auth = h.auth]
    /\ GoTo("r_db")
    /\ UNCHANGED <<current, codex, backups, taken, starts, raced>>

RestoreDatabase ==
    /\ pc = "r_db"
    /\ home' = [home EXCEPT !.db = Held(job.from).db]
    /\ GoTo("r_roll")
    /\ UNCHANGED <<current, codex, backups, taken, starts, raced>>

BadFirstLines(h) ==
    [t \in Threads |-> IF home.db[t] # Missing /\ home.roll[t] # Missing /\ h.roll[t] # Missing
                       THEN h.roll[t] ELSE home.roll[t]]

FirstLines(h) ==
    [t \in Threads |-> IF home.roll[t] # Missing /\ h.roll[t] # Missing
                       THEN h.roll[t] ELSE home.roll[t]]

RestoreRollouts ==
    /\ pc = "r_roll"
    /\ home' = [home EXCEPT !.roll = FirstLines(Held(job.from))]
    /\ IF job.undo THEN End("rolled back") ELSE GoTo("r_check")
    /\ UNCHANGED <<current, codex, backups, taken, starts, raced>>

\* restore_backup looks at the database, and prunes only now.
RestoreEnds ==
    /\ pc = "r_check"
    /\ backups' = Pruned(backups)
    /\ End("done") /\ Launch
    /\ UNCHANGED <<home, current, taken, starts, raced>>

-----------------------------------------------------------------------------
\* The guardian dies: SQLite rolls the open transaction back by itself.
Die ==
    /\ pc # "idle"
    /\ End("interrupted")
    /\ UNCHANGED <<home, current, codex, backups, taken, starts, raced>>

\* Codex, and the user at the keyboard.
StartCodex ==
    /\ codex = Missing /\ starts < MaxStarts
    /\ codex' = Reads(home) /\ starts' = starts + 1
    /\ raced' = (raced \/ pc # "idle")
    /\ UNCHANGED <<home, current, backups, taken, pc, job, verdict>>

CodexStartsChat(t) ==
    /\ codex # Missing /\ home.roll[t] = Missing /\ home.db[t] = Missing
    /\ home' = [home EXCEPT !.roll[t] = codex]
    /\ UNCHANGED <<current, codex, backups, taken, starts, pc, job, verdict, raced>>

\* Codex takes a row over from the chat file, also that of an old chat.
CodexWritesRow(t) ==
    /\ codex # Missing /\ ~InTransaction /\ home.roll[t] # Missing
    /\ home' = [home EXCEPT !.db[t] = home.roll[t]]
    /\ UNCHANGED <<current, codex, backups, taken, starts, pc, job, verdict, raced>>

CodexLogsIn(p) ==
    /\ codex = OpenAI
    /\ home' = [home EXCEPT !.auth = p]
    /\ UNCHANGED <<current, codex, backups, taken, starts, pc, job, verdict, raced>>

UserDeletesChat(t) ==
    /\ pc = "idle" /\ home.roll[t] # Missing
    /\ home' = [home EXCEPT !.roll[t] = Missing]
    /\ UNCHANGED <<current, codex, backups, taken, starts, pc, job, verdict, raced>>

Idle == pc = "idle" /\ UNCHANGED vars

Next ==
    \/ \E p \in Profiles : switch_profile(p)
    \/ repair_visibility \/ edit_profile \/ CloseForEdit \/ restore_backup
    \/ CreateBackup \/ WriteAuth \/ SaveEntry \/ UpdateConfig \/ BeginMigration
    \/ \E t \in Threads : RewriteRollout(t)
    \/ RewriteEnds \/ Commit \/ Verify \/ SaveState \/ LaunchEdited \/ LogAndLaunch \/ StepFails
    \/ RestoreConfig \/ RestoreAuth \/ RestoreDatabase \/ RestoreRollouts
    \/ RestoreEnds \/ UndoEntry \/ UndoKey
    \/ Die \/ StartCodex \/ Idle
    \/ \E t \in Threads : \/ CodexStartsChat(t) \/ CodexWritesRow(t)
                          \/ UserDeletesChat(t)
    \/ \E p \in Accounts : CodexLogsIn(p)

Spec == Init /\ [][Next]_vars

-----------------------------------------------------------------------------
\* No half switch: after a switch or a repair that succeeded, Codex, every row
\* and every chat file have the target provider, and stay so while Codex runs and
\* takes rows over from old files; unless the user started Codex in the middle of
\* it.
SwitchIsWhole ==
    pc = "idle" /\ verdict = "done" /\ job.op \in {"switch", "repair"} /\ ~raced =>
        /\ Reads(home) = job.target
        /\ \A t \in Threads : {home.db[t], home.roll[t]} \subseteq {job.target, Missing}
        /\ job.op = "switch" => current = job.profile

\* What the code puts back of directory h is there.  A file the user deleted
\* stays deleted; and a config.toml or a login that h does not have may have come
\* since: _restore_files_from_backup removes no file, so that after a failed
\* switch from a directory without config.toml the rows are the old ones and
\* config.toml names the new provider.
SameAs(h) ==
    /\ home.db = h.db
    /\ h.config # Missing => home.config = h.config
    /\ h.auth # Missing => home.auth = h.auth
    /\ \A t \in Threads : h.roll[t] # Missing => home.roll[t] \in {Missing, h.roll[t]}

\* Pruning spares the backup of the running operation, unless the clock was set
\* back behind the names of Limit older ones.
Kept == job.op = "restore" \/ job.newer < Limit

\* An operation that failed and was rolled back left everything as it was, the
\* profile it edited and, unless only its last log entry failed, current_profile
\* too.
RollbackIsExact ==
    pc = "idle" /\ verdict = "rolled back" /\ ~raced /\ codex = Missing /\ Kept =>
        /\ SameAs(job.before) /\ ~job.entry /\ ~job.key
        /\ ~job.saved => current = job.selected

\* A restore that succeeded brought back what the chosen backup holds, however
\* many backups there are and whatever their names.
RestoreIsExact ==
    pc = "idle" /\ verdict = "done" /\ job.op = "restore" /\ ~raced /\ codex = Missing =>
        SameAs(job.chosen)

\* When the guardian dies in the middle of an operation, nothing was changed
\* yet or a backup holds every file as it was.  An edit's old API key is in no
\* backup.
InterruptionCanBeUndone ==
    pc = "idle" /\ verdict = "interrupted" /\ ~raced /\ codex = Missing /\ Kept =>
        \/ SameAs(job.before)
        \/ \E b \in Range(backups) :
              /\ b.home.config = job.before.config /\ b.home.db = job.before.db
              /\ b.home.auth = job.before.auth /\ b.home.roll = job.before.roll

\* What an operation that succeeded promised is there, in full.
SuccessIsExact == SwitchIsWhole /\ RestoreIsExact

\* An operation that did not succeed has lost nothing: it was rolled back, or
\* the guardian died and a backup is left.
FailureLosesNothing == RollbackIsExact /\ InterruptionCanBeUndone

\* The inductive invariant.  The backups: no two folders have one number, and
\* there is one for the next.
Folders == [id : 1..MaxBackups, home : Homes]
BackupInv ==
    /\ backups \in Seq(Folders) /\ (pc \in {"close", "backup"} => taken < MaxBackups)
    /\ \A b \in Range(backups) : b.id <= taken
    /\ \A b, c \in Range(backups) : b.id = c.id => b = c

\* Which operation can be where.
Restoring == pc \in {"r_files", "r_auth", "r_db", "r_roll", "r_check"}
Undoing   == Restoring \/ pc \in {"u_state", "u_key"}
OperationInv ==
    /\ pc \in {"close", "state", "u_state", "u_key"} => job.op = "edit"
    /\ pc \notin {"idle", "close", "backup", "u_state", "u_key"} => job.backup # 0
    /\ pc \in {"close", "backup"} => job.backup = 0 /\ job.newer = 0 /\ ~job.undo
    /\ job.backup = 0 => job.newer = 0
    /\ pc \in {"u_state", "u_key"} => job.undo
    /\ job.op # "edit" => ~job.key
    /\ job.op # "edit" \/ pc = "u_key" \/ Restoring => ~job.entry
    /\ Restoring => ~job.key
    /\ pc \in {"auth", "save"} => job.op = "switch"
    /\ pc = "config" => job.op \in {"switch", "edit"}
    /\ pc \in {"begin", "rewrite", "commit", "verify"} => job.op \in {"switch", "repair"}
    /\ pc = "launch" => job.op = "edit"
    /\ pc = "log" => job.op # "restore"
    /\ pc # "idle" /\ job.undo => Undoing /\ pc # "r_check" /\ job.from = job.backup
    /\ Restoring /\ ~job.undo => job.op = "restore"
    /\ pc # "idle" /\ ~job.saved => current = job.selected

\* Until the user starts Codex, the directory is the one the operation found
\* until its backup is taken, that backup stays, and so does the chosen one.
SavedInv ==
    pc # "idle" /\ ~raced =>
        /\ codex = Missing \/ (job.op = "edit" /\ (pc \in {"close", "log"} \/ Undoing))
        /\ IF job.backup = 0 THEN codex = Missing => home = job.before
           ELSE Kept => [id |-> job.backup, home |-> job.before] \in Range(backups)
        /\ job.op = "restore" /\ ~job.undo =>
              [id |-> job.from, home |-> job.chosen] \in Range(backups)

\* What has been put back.
Goal == IF job.undo THEN job.before ELSE job.chosen
RestoreInv ==
    ~raced /\ codex = Missing /\ (job.undo => Kept) =>
        /\ pc \in {"r_auth", "r_db", "r_roll", "r_check"} /\ Goal.config # Missing =>
              home.config = Goal.config
        /\ pc \in {"r_db", "r_roll", "r_check"} /\ Goal.auth # Missing => home.auth = Goal.auth
        /\ pc \in {"r_roll", "r_check"} => home.db = Goal.db
        /\ pc = "r_check" => SameAs(Goal)

\* What has been migrated; a Codex that runs afterwards has the same provider.
Migrated == \A t \in Threads : /\ home.db[t] \in {job.target, Missing}
                               /\ home.roll[t] \in {job.target, Missing}
MigrationInv ==
    job.op \in {"switch", "repair"} /\ ~raced =>
        /\ job.op = "repair" /\ pc = "backup" => Reads(home) = job.target
        /\ pc \in {"begin", "rewrite", "commit", "verify", "save", "log"} =>
              Reads(home) = job.target
        /\ pc \in {"save", "log"} => Migrated
        /\ pc = "log" /\ job.op = "switch" => current = job.profile
        /\ pc = "idle" /\ verdict = "done" => codex \in {job.target, Missing}

SwitchInv == /\ TypeOK /\ BackupInv /\ OperationInv /\ SavedInv /\ RestoreInv /\ MigrationInv
             /\ SuccessIsExact /\ FailureLosesNothing

=============================================================================
