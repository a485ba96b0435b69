--------------------------- MODULE HistoryConflict ---------------------------
(***************************************************************************)
(* Separating chats whose files disagree (backend/guardian.py,             *)
(* _resolve_history_conflicts): the user looks at a report, chooses the    *)
(* copy of each chat to keep, and the guardian copies everything to a cold *)
(* backup, moves the other copies into a quarantine folder, points the     *)
(* database at the kept copy, verifies the result, and undoes it all when  *)
(* a step fails.  The guardian may die between any two steps.  Codex is    *)
(* closed at the start but no lock keeps the user from starting it again.  *)
(*                                                                         *)
(* A chat file is a place <<thread, slot>>; its body is the sequence of    *)
(* the events after its first line.                                        *)
(***************************************************************************)
EXTENDS Naturals, Sequences, FiniteSets, SequencesExt

CONSTANTS
    Threads,
    Active, Archived,  \* file names below sessions and archived_sessions
    Bodies,            \* the bodies files have at the start
    MaxLen,            \* bound: events of a body
    MaxJobs,           \* bound: resolutions
    MaxStarts,         \* bound: starts of Codex by the user
    Missing            \* no file, no row, no value

ASSUME ConflictAssumption ==
    /\ Active \cap Archived = {} /\ Missing \notin Active \cup Archived
    /\ Bodies \subseteq Seq({0, 1}) \ {<<>>}
    /\ \A b \in Bodies : Len(b) <= MaxLen
    /\ MaxLen \in Nat /\ MaxJobs \in Nat /\ MaxStarts \in Nat

Slots  == Active \cup Archived
Places == Threads \X Slots
Body   == UNION {[1..n -> {0, 1}] : n \in 0..MaxLen}
Files  == [Places -> Body \cup {Missing}]
Row    == [slot : Slots, archived : BOOLEAN]
Rows   == [Threads -> Row \cup {Missing}]
Homes  == [files : Files, rows : Rows]

ASSUME MissingAssumption ==
    Missing \notin Body /\ Missing \notin Row /\ Missing \notin Homes

VARIABLES
    home,        \* the chat files and the rows of the threads table
    codex,       \* Codex runs
    report,      \* the home the user's last report was made of, or Missing
    cold,        \* the home in the newest complete cold backup, or Missing
    quarantine,  \* the copies in the quarantine folders: <<place, body>>
    pc, job,     \* the resolution under the service's lock
    said,        \* what it told the user
    jobs, starts,
    original,    \* history: the files at the beginning
    raced,       \* history: Codex was started during the resolution
    torn         \* history: two programs replaced one file at the same moment,
                 \* as only the scripts of RemoteSync do

vars == <<home, codex, report, cold, quarantine, pc, job, said, jobs, starts,
          original, raced, torn>>

\* keep: the chosen slot of each divergent thread; begin: the home when it was
\* chosen; shown: the home the user chose from; before: the home after the
\* cold backup, with before_rows and preserved_hashes; copied: the hashes of
\* the quarantined copies; todo, at: the loops; moved, committed, bad:
\* history_writes_started, database_committed, restore_failed.
NoJob == [keep |-> <<>>, begin |-> Missing, shown |-> Missing, before |-> Missing,
          copied |-> [p \in Places |-> Missing], todo |-> {}, at |-> Missing,
          moved |-> FALSE, committed |-> FALSE, bad |-> FALSE]

PCs == {"idle", "backup", "preflight", "prepare", "apply", "unlink", "database",
        "verify", "complete", "log", "restore", "r_db", "ended"}

Jobs == [keep : {<<>>} \cup UNION {[D -> Slots] : D \in SUBSET Threads},
         begin : Homes \cup {Missing}, shown : Homes \cup {Missing},
         before : Homes \cup {Missing}, copied : Files, todo : SUBSET Places,
         at : Places \cup {Missing}, moved : BOOLEAN, committed : BOOLEAN,
         bad : BOOLEAN]

TypeOK ==
    /\ home \in Homes /\ codex \in BOOLEAN /\ original \in Files
    /\ report \in Homes \cup {Missing} /\ cold \in Homes \cup {Missing}
    /\ quarantine \subseteq Places \X Body
    /\ pc \in PCs /\ job \in Jobs
    /\ pc # "idle" => /\ job.begin \in Homes /\ job.shown \in Homes
                      /\ DOMAIN job.keep \subseteq Threads
                      /\ \A t \in DOMAIN job.keep : job.keep[t] \in Slots
    /\ pc \notin {"idle", "backup", "preflight", "ended"} => job.before \in Homes
    /\ pc = "unlink" => job.at \in Places
    /\ said \in {"none", "resolved", "unrecorded", "untouched", "restored",
                 "incomplete", "crashed"}
    /\ jobs \in 0..MaxJobs /\ starts \in 0..MaxStarts /\ raced \in BOOLEAN

-----------------------------------------------------------------------------
\* _rollout_inventory: the copies of a chat diverge when one of them is not a
\* prefix of the longest.
Copies(f, t)  == {s \in Slots : f[<<t, s>>] # Missing}
Largest(f, t) == CHOOSE s \in Copies(f, t) :
                    \A r \in Copies(f, t) : Len(f[<<t, r>>]) <= Len(f[<<t, s>>])
Diverges(f, t) ==
    /\ Cardinality(Copies(f, t)) >= 2
    /\ \E s \in Copies(f, t) : ~ IsPrefix(f[<<t, s>>], f[<<t, Largest(f, t)>>])
Divergent(f) == {t \in Threads : Diverges(f, t)}

\* The row names this copy, and knows whether it is archived.
Names(r, s) == r = [slot |-> s, archived |-> s \in Archived]

\* _history_conflict_report_from: the copy the database names is recommended;
\* without one the user must choose.
Recommended(h, t) == {s \in Copies(h.files, t) : Names(h.rows[t], s)}
Manual(h) == {t \in Divergent(h.files) : Recommended(h, t) = {}}

\* report_revision, which binds every copy and row of the divergent chats.
Revision(h) == [t \in Divergent(h.files) |->
                  <<[s \in Slots |-> h.files[<<t, s>>]], h.rows[t]>>]

\* A home with these files and rows, and nobody at work.
Untouched(f, r) ==
    /\ home = [files |-> f, rows |-> r] /\ original = f
    /\ codex = FALSE /\ report = Missing /\ cold = Missing /\ quarantine = {}
    /\ pc = "idle" /\ job = NoJob /\ said = "none"
    /\ jobs = 0 /\ starts = 0 /\ raced = FALSE /\ torn = FALSE

Init ==
    \E f \in [Places -> Bodies \cup {Missing}], r \in Rows :
       Divergent(f) # {} /\ Untouched(f, r)

-----------------------------------------------------------------------------
\* The rest of the world: the user starts Codex, and Codex appends to the chat
\* its row names, or archives it.
StartCodex ==
    /\ ~ codex /\ starts < MaxStarts
    /\ codex' = TRUE /\ starts' = starts + 1 /\ raced' = (pc # "idle")
    /\ UNCHANGED <<home, report, cold, quarantine, pc, job, said, jobs, original>>

Append1(t) ==
    LET p == <<t, home.rows[t].slot>>
    IN /\ Len(home.files[p]) < MaxLen
       /\ \E e \in {0, 1} : home' = [home EXCEPT !.files[p] = Append(@, e)]

Archive(t) ==
    LET from == home.rows[t].slot
    IN \E to \in Archived :
          /\ from \in Active /\ home.files[<<t, to>>] = Missing
          /\ home' = [files |-> [home.files EXCEPT ![<<t, from>>] = Missing,
                                   ![<<t, to>>] = home.files[<<t, from>>]],
                      rows |-> [home.rows EXCEPT ![t] =
                                  [slot |-> to, archived |-> TRUE]]]

CodexWrites ==
    /\ codex
    /\ \E t \in Threads :
          /\ home.rows[t] # Missing /\ home.files[<<t, home.rows[t].slot>>] # Missing
          /\ Append1(t) \/ Archive(t)
    /\ UNCHANGED <<codex, report, cold, quarantine, pc, job, said, jobs, starts,
                   original, raced>>

\* history_conflict_report.
Report ==
    /\ pc = "idle" /\ report' = home
    /\ UNCHANGED <<home, codex, cold, quarantine, pc, job, said, jobs, starts,
                   original, raced>>

-----------------------------------------------------------------------------
BadAccepts(given, sel) == DOMAIN sel = Manual(home)

\* The checks of a request made from the report `given` (or from none): every
\* chat the database cannot decide needs a choice made from the current
\* report, and a choice elsewhere is refused.
Accepts(given, sel) ==
    /\ DOMAIN sel = Manual(home)
    /\ given = Missing => Manual(home) = {}
    /\ given # Missing => Revision(given) = Revision(home)
    /\ \A t \in DOMAIN sel :
          given # Missing => given.files[<<t, sel[t]>>] = home.files[<<t, sel[t]>>]

Resolve ==
    /\ pc = "idle" /\ jobs < MaxJobs /\ Divergent(home.files) # {}
    /\ \E given \in {report, Missing} :
       \E sel \in [IF given = Missing THEN {} ELSE Manual(given) -> Slots] :
          /\ \A t \in DOMAIN sel : given.files[<<t, sel[t]>>] # Missing
          /\ Accepts(given, sel)
          /\ job' = [NoJob EXCEPT
                       !.keep = [t \in Divergent(home.files) |->
                                   IF t \in DOMAIN sel THEN sel[t]
                                   ELSE CHOOSE s \in Recommended(home, t) : TRUE],
                       !.begin = home,
                       !.shown = IF given = Missing THEN home ELSE given]
    /\ pc' = "backup" /\ codex' = FALSE /\ jobs' = jobs + 1 /\ said' = "none"
    /\ raced' = FALSE
    /\ UNCHANGED <<home, report, cold, quarantine, starts, original>>

Others == {p \in Places : /\ p[1] \in DOMAIN job.keep /\ p[2] # job.keep[p[1]]
                          /\ job.begin.files[p] # Missing}

\* database_change: the rows that must be pointed at the kept copy.
Repointed == {t \in DOMAIN job.keep : /\ job.begin.rows[t] # Missing
                                      /\ ~ Names(job.begin.rows[t], job.keep[t])}
After(r) == [t \in Threads |->
               IF t \in Repointed
               THEN [slot |-> job.keep[t], archived |-> job.keep[t] \in Archived]
               ELSE r[t]]

Stay(h) == UNCHANGED <<codex, report, jobs, starts, original, raced>> /\ home' = h
Quiet == UNCHANGED <<cold, quarantine, said>>
GoTo(place, j) == pc' = place /\ job' = j
Ends(word) ==
    /\ pc' = "ended" /\ said' = word /\ UNCHANGED <<cold, quarantine, job>>

\* create_history_cold_backup: closes Codex again and copies every file and the
\* database.
ColdBackup ==
    /\ pc = "backup"
    /\ cold' = home /\ codex' = FALSE
    /\ GoTo("preflight", job)
    /\ UNCHANGED <<home, report, jobs, starts, original, raced, quarantine, said>>

Preflight ==
    /\ pc = "preflight"
    /\ GoTo("prepare", [job EXCEPT !.before = home, !.todo = Others])
    /\ Stay(home) /\ Quiet

BadPrepareCopy ==
    /\ pc = "prepare"
    /\ \E p \in job.todo :
          /\ home.files[p] # Missing
          /\ GoTo("prepare", [job EXCEPT !.copied[p] = home.files[p], !.todo = @ \ {p}])
    /\ Stay(home) /\ Quiet

\* _copy_verified_history_file into the quarantine folder.
PrepareCopy ==
    /\ pc = "prepare"
    /\ \E p \in job.todo :
          /\ home.files[p] # Missing
          /\ quarantine' = quarantine \cup {<<p, home.files[p]>>}
          /\ GoTo("prepare", [job EXCEPT !.copied[p] = home.files[p], !.todo = @ \ {p}])
    /\ Stay(home) /\ UNCHANGED <<cold, said>>

\* The manifest says "prepared".
Prepared ==
    /\ pc = "prepare" /\ job.todo = {}
    /\ GoTo("apply", [job EXCEPT !.todo = Others])
    /\ Stay(home) /\ Quiet

\* The source must still have the copied bytes; then it is unlinked.
ApplyCheck ==
    /\ pc = "apply"
    /\ \E p \in job.todo :
          /\ home.files[p] = job.copied[p]
          /\ GoTo("unlink", [job EXCEPT !.at = p, !.moved = TRUE])
    /\ Stay(home) /\ Quiet

Unlink ==
    /\ pc = "unlink" /\ home.files[job.at] # Missing
    /\ Stay([home EXCEPT !.files[job.at] = Missing])
    /\ GoTo("apply", [job EXCEPT !.todo = @ \ {job.at}])
    /\ Quiet

Applied ==
    /\ pc = "apply" /\ job.todo = {}
    /\ GoTo(IF Repointed = {} THEN "verify" ELSE "database", job)
    /\ Stay(home) /\ Quiet

BadDatabase ==
    /\ pc = "database"
    /\ Stay([home EXCEPT !.rows = After(@)])
    /\ GoTo("verify", job) /\ Quiet

\* One transaction: every row still has the value the choice was made from.
Database ==
    /\ pc = "database"
    /\ \A t \in Repointed : home.rows[t] = job.begin.rows[t]
    /\ Stay([home EXCEPT !.rows = After(@)])
    /\ GoTo("verify", [job EXCEPT !.committed = TRUE]) /\ Quiet

\* What the verification requires of the files and the rows.
Sound ==
    /\ Divergent(home.files) = {}
    /\ \A p \in Places :
          (home.files[p] # Missing) <=> (job.begin.files[p] # Missing /\ p \notin Others)
    /\ \A p \in Places \ Others :
          job.begin.files[p] # Missing => home.files[p] = job.before.files[p]
    /\ home.rows = After(job.before.rows)

Verify ==
    /\ pc = "verify" /\ Sound
    /\ GoTo("complete", job) /\ Stay(home) /\ Quiet

\* The manifest says "complete": from here the result stands.
Complete ==
    /\ pc = "complete" /\ GoTo("log", job) /\ Stay(home) /\ Quiet

\* The audit record may fail: the user is told that the result was verified.
Log ==
    /\ pc = "log" /\ Stay(home)
    /\ Ends("resolved") \/ Ends("unrecorded")

\* A step raises: before the try block nothing was touched, in it the undo runs.
Raise ==
    /\ Stay(home)
    /\ \/ pc \in {"backup", "preflight"} /\ Ends("untouched")
       \/ /\ pc \in {"prepare", "apply", "unlink", "database", "verify", "complete"}
          /\ GoTo("restore", [job EXCEPT !.todo =
                                {p \in Others : job.copied[p] # Missing}])
          /\ Quiet

-----------------------------------------------------------------------------
\* The undo of the files: a file that exists is left alone; a copy may fail and
\* leave nothing, or a torn file.
RestoreFile ==
    /\ pc = "restore"
    /\ \E p \in job.todo :
          /\ \/ /\ home.files[p] # Missing
                /\ Stay(home) /\ GoTo("restore", [job EXCEPT !.todo = @ \ {p}])
             \/ /\ home.files[p] = Missing
                /\ Stay([home EXCEPT !.files[p] = job.copied[p]])
                /\ GoTo("restore", [job EXCEPT !.todo = @ \ {p}])
             \/ /\ home.files[p] = Missing
                /\ \E b \in {Missing, <<>>} : Stay([home EXCEPT !.files[p] = b])
                /\ GoTo("restore", [job EXCEPT !.todo = @ \ {p}, !.bad = TRUE])
    /\ Quiet

FilesRestored ==
    /\ pc = "restore" /\ job.todo = {}
    /\ GoTo("r_db", job) /\ Stay(home) /\ Quiet

\* _history_conflict_failure on the attempt's flags.
Word(bad) == IF bad THEN "incomplete" ELSE IF job.moved THEN "restored" ELSE "untouched"

Undone == [home EXCEPT !.rows = [t \in Threads |->
             IF t \in Repointed THEN job.begin.rows[t] ELSE home.rows[t]]]

\* The committed rows go back if each still has the value that was written and
\* the table is then what it was; any other outcome is told as incomplete.
RestoreDatabase ==
    /\ pc = "r_db"
    /\ \/ ~ job.committed /\ Stay(home) /\ Ends(Word(job.bad))
       \/ /\ job.committed
          /\ \A t \in Repointed : home.rows[t] = After(home.rows)[t]
          /\ Undone.rows = job.before.rows
          /\ Stay(Undone) /\ Ends(Word(job.bad))
       \/ job.committed /\ Stay(home) /\ Ends(Word(TRUE))

Crash ==
    /\ pc \notin {"idle", "ended"} /\ Stay(home) /\ Ends("crashed")

Ack ==
    /\ pc = "ended" /\ GoTo("idle", NoJob) /\ raced' = FALSE
    /\ UNCHANGED <<home, codex, report, cold, quarantine, said, jobs, starts, original>>

Step ==
    \/ StartCodex \/ CodexWrites \/ Report \/ Resolve \/ ColdBackup \/ Preflight
    \/ PrepareCopy \/ Prepared \/ ApplyCheck \/ Unlink \/ Applied \/ Database
    \/ Verify \/ Complete \/ Log \/ Raise \/ RestoreFile \/ FilesRestored
    \/ RestoreDatabase \/ Crash \/ Ack

Next == Step /\ UNCHANGED torn

Spec == Init /\ [][Next]_vars

-----------------------------------------------------------------------------
\* Whatever fails, dies or runs at the same time, every body a chat had at the
\* beginning is still the beginning of a copy at its home or in a quarantine
\* folder: nothing is unlinked before its copy was verified.  (Two scripts on a
\* remote machine, or a script and Codex, may replace one file at the same moment:
\* of that nothing is said.)
NothingLost ==
    ~ torn => \A t \in Threads, s \in Slots :
       original[<<t, s>>] # Missing =>
          \/ \E r \in Copies(home.files, t) :
                IsPrefix(original[<<t, s>>], home.files[<<t, r>>])
          \/ \E c \in quarantine :
                c[1][1] = t /\ IsPrefix(original[<<t, s>>], c[2])

Succeeded == pc = "ended" /\ said \in {"resolved", "unrecorded"}

\* A reported success is whole: no chat diverges, each row that existed names
\* the kept copy and its archive state, and nothing but the other copies moved.
ResolvedIsExact ==
    Succeeded /\ ~ raced =>
       /\ Divergent(home.files) = {}
       /\ \A p \in Places :
             home.files[p] = IF p \in Others THEN Missing ELSE job.begin.files[p]
       /\ \A t \in DOMAIN job.keep :
             home.rows[t] = Missing \/ Names(home.rows[t], job.keep[t])

\* The copies that were set aside or kept are the ones the user chose between:
\* each body of the report the choice was made from is still there, the chosen
\* one at home and the others in quarantine, even if Codex ran meanwhile.
ChoiceIsInformed ==
    Succeeded =>
       \A t \in DOMAIN job.keep : \A s \in Slots :
          LET b == job.shown.files[<<t, s>>]
          IN b # Missing =>
                \/ /\ s = job.keep[t]
                   /\ \E r \in Copies(home.files, t) : IsPrefix(b, home.files[<<t, r>>])
                \/ /\ s # job.keep[t]
                   /\ \E c \in quarantine : c[1] = <<t, s>> /\ IsPrefix(b, c[2])

\* "Nothing was moved" and "restored" are only said when every file and row is
\* as it was before the resolution.
FailureIsTruthful ==
    pc = "ended" /\ said \in {"untouched", "restored"} /\ ~ raced => home = job.begin

\* From the first change on, a complete cold backup holds the chats and the
\* database as they were before it, so that a death of the guardian, which
\* nothing repairs at the next start, can be undone by hand.
InterruptionCanBeUndone ==
    pc # "idle" /\ ~ raced /\ home # job.begin => cold = job.begin

\* A resolution that succeeded did what the user chose from what he was shown.
ResolutionIsExact == ResolvedIsExact /\ ChoiceIsInformed

\* One that did not is undone, or can be.
FailureCanBeUndone == FailureIsTruthful /\ InterruptionCanBeUndone
-----------------------------------------------------------------------------
(* The inductive invariant *)

\* A copy of the chat at home that begins with this body, other than the one
\* that is about to be unlinked; or one in quarantine.
AtHome(t, b) ==
    \E r \in Copies(home.files, t) :
       IsPrefix(b, home.files[<<t, r>>]) /\ ~ (pc = "unlink" /\ job.at = <<t, r>>)
Aside(t, b) == \E c \in quarantine : c[1][1] = t /\ IsPrefix(b, c[2])

SurviveInv ==
    /\ ~ torn => \A t \in Threads, s \in Slots :
          original[<<t, s>>] # Missing =>
             AtHome(t, original[<<t, s>>]) \/ Aside(t, original[<<t, s>>])
    /\ pc = "unlink" /\ job.at[2] \in Archived => home.files[job.at] # Missing

\* Codex adds to a chat and moves it to the archive, never out of it.
Grown(h) ==
    \A p \in Places : job.begin.files[p] # Missing =>
       /\ h.files[p] # Missing => IsPrefix(job.begin.files[p], h.files[p])
       /\ p[2] \in Archived => h.files[p] # Missing

\* The places where the guardian has only read.
Reading == {"backup", "preflight", "prepare"}
Placed  == {"apply", "unlink", "database", "verify", "complete", "log"}

\* What the user saw is what the resolution began with, and every other copy is
\* in quarantine once it may be unlinked.
ChoiceInv ==
    pc # "idle" =>
       /\ \A t \in DOMAIN job.keep : \A s \in Slots :
             job.shown.files[<<t, s>>] = job.begin.files[<<t, s>>]
       /\ pc \in Reading => Grown(home)
       /\ job.before # Missing => Grown(job.before)
       /\ \A p \in Others : job.copied[p] # Missing =>
             /\ IsPrefix(job.begin.files[p], job.copied[p])
             /\ <<p, job.copied[p]>> \in quarantine
       /\ pc \in Placed \cup {"prepare"} => job.todo \subseteq Others
       /\ pc = "restore" => \A p \in job.todo : p \in Others /\ job.copied[p] # Missing
       /\ pc = "unlink" => job.at \in Others
       /\ pc = "prepare" => \A p \in Others \ job.todo : job.copied[p] # Missing
       /\ pc \in Placed \/ Succeeded => \A p \in Others : job.copied[p] # Missing
       /\ pc \in {"complete", "log"} \/ Succeeded =>
             \A t \in DOMAIN job.keep :
                LET b == job.begin.files[<<t, job.keep[t]>>]
                IN b # Missing => \E r \in Copies(home.files, t) :
                                     IsPrefix(b, home.files[<<t, r>>])

\* As long as the user has not started Codex: a place holds what it held, or
\* its copy was unlinked and is still to be put back; the rows are the old ones
\* until the transaction; and the cold backup is of the beginning.
QuietInv ==
    pc # "idle" /\ ~ raced =>
       /\ ~ codex
       /\ pc \in Reading => home = job.begin
       /\ job.before # Missing => job.before = job.begin
       /\ pc \notin {"backup", "ended"} => cold = job.begin
       /\ pc = "ended" => home = job.begin \/ cold = job.begin
       /\ \A p \in Others : job.copied[p] \in {Missing, job.begin.files[p]}
       /\ pc \in Placed \cup {"restore"} /\ ~ job.bad => \A p \in Places :
             \/ home.files[p] = job.begin.files[p]
             \/ /\ home.files[p] = Missing /\ p \in Others /\ job.copied[p] # Missing
                /\ pc = "restore" => p \in job.todo
       /\ pc = "r_db" /\ ~ job.bad => home.files = job.begin.files
       /\ pc # "ended" /\ ~ job.committed => home.rows = job.begin.rows
       /\ pc \in {"complete", "log"} \/ Succeeded => job.before # Missing /\ Sound
       /\ pc = "ended" /\ said \in {"untouched", "restored"} => home = job.begin

FlagInv ==
    pc \in Reading \cup Placed => ~ job.bad

ConflictInv == TypeOK /\ torn \in BOOLEAN /\ SurviveInv /\ ChoiceInv /\ QuietInv /\ FlagInv
==============================================================================
