------------------------------ MODULE RemoteSync ------------------------------
(***************************************************************************)
(* Bringing a profile and one shared history to a remote machine over SSH  *)
(* (backend/remote_sync.py).  The guardian fetches the machine's login,    *)
(* then sends one script that writes the credential and the configuration  *)
(* and reconciles the chats: of every chat the most complete copy is kept  *)
(* where its row's archive flag says, the others go to a quarantine        *)
(* folder, first line and row name the new provider, and an error undoes   *)
(* it.  A second script verifies the result.                               *)
(*                                                                         *)
(* A lost connection ends the ssh client and not the script: the guardian  *)
(* tries again while the first script may still run, and nothing locks     *)
(* them out of each other's way: a script looks whether a name is free and *)
(* then replaces it, and rewrites a file under a temporary name that all   *)
(* scripts share.  A machine's home is that of              *)
(* HistoryConflict, whose own operations work on the local one.            *)
(***************************************************************************)
EXTENDS HistoryConflict

CONSTANTS
    MaxTries,   \* bound: scripts sent to the machine
    MaxActors,  \* bound: scripts sent and starts of Codex together
    MaxCopies,  \* bound: copies of a chat on the machine
    MaxLogin    \* bound: refreshes of the account's login

ASSUME RemoteAssumption ==
    MaxTries \in Nat \ {0} /\ MaxActors \in Nat /\ MaxLogin \in Nat \ {0, 1}

Tries == 1..MaxTries

VARIABLES
    remote,   \* the home is that of a remote machine
    host,     \* the rest of the machine's state
    sync,     \* the guardian's side
    script,   \* the scripts on the machine
    overlap,  \* history: two scripts ran at once
    unseen    \* history: the machine's login was not fetched, or refreshed since

remoteVars == <<host, sync, script, overlap, unseen>>
localVars  == <<report, cold, pc, job, said, jobs, original>>
allVars    == <<vars, remote, remoteVars>>

\* cred: the login's refresh order, or which API key is there; config: it has the
\* payload's keys; lines, rows: the first line of a file, and a row, name the new
\* provider.
Hosts == [cred : 0..MaxLogin, config : BOOLEAN, lines : [Places -> BOOLEAN],
          rows : [Threads -> BOOLEAN]]

NoScript == [pc |-> "none", plan |-> <<>>, before |-> Missing, losers |-> {},
             todo |-> {}, moves |-> <<>>, patched |-> <<>>, committed |-> FALSE]

\* What a script finds when it plans.
States == [home : Homes, host : Hosts]

ASSUME StateAssumption == Missing \notin States /\ Missing \notin Places

\* A file that was moved: to is Missing for the quarantine folder; body and line
\* are what it held.  patched: the places with their old first lines.
Moves   == [from : Places, to : Places \cup {Missing}, body : Body, line : BOOLEAN]
Scripts == [pc : {"none", "apply", "config", "plan", "move", "check", "done",
                  "u_rows", "u_files", "failed"},
            plan : {<<>>} \cup UNION {[D -> Slots \X Slots] : D \in SUBSET Threads},
            before : States \cup {Missing},
            losers : SUBSET Places, todo : SUBSET Threads, moves : Seq(Moves),
            patched : Seq(Places \X BOOLEAN), committed : BOOLEAN]

Running == {i \in Tries : script[i].pc \notin {"none", "done", "failed"}}

\* The bounds let somebody act, besides the script that is about to be sent.
Room == starts + sync.n + (IF sync.pc = "ssh" THEN 1 ELSE 0) < MaxActors

\* Every variable has its type.
RemoteTypeOK ==
    /\ remote \in BOOLEAN /\ host \in Hosts
    /\ sync \in [pc : {"idle", "ssh", "wait", "verify", "ok", "failed"},
                 n : 0..MaxTries, authority : 0..MaxLogin]
    /\ script \in [Tries -> Scripts]
    /\ overlap \in BOOLEAN /\ unseen \in BOOLEAN

\* The guardian holds login 1; the machine has refreshed it.
RemoteInit ==
    /\ \/ remote = FALSE /\ Init
       \/ /\ remote = TRUE
          /\ \E f \in [Places -> Bodies \cup {Missing}], r \in Rows :
                /\ \A t \in Threads : Cardinality(Copies(f, t)) <= MaxCopies
                /\ Untouched(f, r)
    /\ host = [cred |-> 2, config |-> FALSE, lines |-> [p \in Places |-> FALSE],
               rows |-> [t \in Threads |-> FALSE]]
    /\ sync = [pc |-> "idle", n |-> 0, authority |-> 1]
    /\ script = [i \in Tries |-> NoScript]
    /\ overlap = FALSE /\ unseen = FALSE

-----------------------------------------------------------------------------
(* The machine without the guardian: somebody uses Codex there again *)

ServerStarts ==
    /\ ~ codex /\ starts < MaxStarts /\ Room
    /\ codex' = TRUE /\ starts' = starts + 1 /\ raced' = TRUE
    /\ UNCHANGED <<home, quarantine, torn, localVars, remoteVars>>

ServerWrites == CodexWrites /\ UNCHANGED <<torn, remoteVars>>

ServerRefreshes ==
    /\ codex /\ host.cred < MaxLogin
    /\ host' = [host EXCEPT !.cred = @ + 1]
    /\ unseen' = (unseen \/ sync.pc # "idle")
    /\ UNCHANGED <<vars, sync, script, overlap>>

-----------------------------------------------------------------------------
(* The guardian *)

Sending(new) == sync' = new /\ UNCHANGED <<vars, host, overlap>>

BadAuthority(fetched) == 1

\* The newest login of the account that any fetch has found.
Authority(fetched) == IF fetched > 1 THEN fetched ELSE 1

Begins(fetched) ==
    /\ sync.pc = "idle" /\ Room
    /\ Sending([sync EXCEPT !.pc = "ssh", !.authority = Authority(fetched)])
    /\ unseen' = (fetched # host.cred)
    /\ UNCHANGED script

\* The login there is read; a machine that cannot be read is passed over.
SyncOfficial == \E fetched \in {0, host.cred} : Begins(fetched)

\* The key of an API profile is the guardian's.
SyncApi == Begins(0)

\* No machine is known: the synchronisation reports that and does nothing.
NoHosts == sync.pc \in {"idle", "ok", "failed"} /\ UNCHANGED <<vars, remoteVars>>

\* _run_ssh sends the script to a new process.
Send ==
    /\ sync.pc = "ssh"
    /\ sync' = [sync EXCEPT !.pc = "wait", !.n = @ + 1]
    /\ script' = [i \in Tries |->
                     IF i = sync.n + 1 THEN [NoScript EXCEPT !.pc = "apply"]
                     ELSE IF i \in Running THEN script[i]
                     ELSE [NoScript EXCEPT !.pc = script[i].pc]]
    /\ overlap' = (overlap \/ Running # {})
    /\ UNCHANGED <<vars, host, unseen>>

\* Another try, as long as there is one, or the result is a failure.
TryAgain == \E place \in (IF sync.n < MaxTries /\ Room THEN {"ssh", "failed"} ELSE {"failed"}) :
               Sending([sync EXCEPT !.pc = place])

\* The script has answered, failed or been lost; a time limit also ends the wait.
Receive ==
    /\ sync.pc = "wait"
    /\ \/ script[sync.n].pc = "done" /\ Sending([sync EXCEPT !.pc = "verify"])
       \/ TryAgain
    /\ UNCHANGED <<script, unseen>>

\* Each chat has one file, where the row says, and both name the new provider.
Reconciled(places) ==
    \A t \in Threads :
       /\ Copies(home.files, t) = IF t \in DOMAIN places THEN {places[t][2]} ELSE {}
       /\ t \in DOMAIN places => host.lines[<<t, places[t][2]>>]

\* The verification script: and the rows are those the first script reported.
AsReported(done) ==
    /\ Reconciled(done.plan)
    /\ \A t \in Threads :
          /\ (home.rows[t] # Missing) <=> (t \in DOMAIN done.plan)
          /\ t \in DOMAIN done.plan =>
                /\ home.rows[t].slot = done.plan[t][2] /\ host.rows[t]
                /\ home.rows[t].archived = done.before.home.rows[t].archived

VerifyRemote ==
    /\ sync.pc = "verify"
    /\ \/ AsReported(script[sync.n]) /\ Sending([sync EXCEPT !.pc = "ok"])
       \/ Sending([sync EXCEPT !.pc = "failed"])
    /\ UNCHANGED <<script, unseen>>

-----------------------------------------------------------------------------
(* A script: writing the profile *)

Goes(i, new) ==
    /\ script' = [script EXCEPT ![i] = new]
    /\ UNCHANGED <<sync, overlap, unseen>>

\* before is Missing where there was nothing to undo, or the undo broke off.
Ended(before) == [NoScript EXCEPT !.pc = "failed", !.before = before]

\* The home changes; who reads it does not notice.
Changes(h) ==
    /\ home' = h /\ UNCHANGED <<codex, starts, raced, localVars>>

StopAppServer ==
    /\ codex' = FALSE /\ UNCHANGED <<home, quarantine, starts, raced, torn, localVars>>

\* Between two system calls of the script another one works, or Codex does.
Beside(i) == codex \/ Running \ {i} # {}

\* The name was free when the script looked.  If it is not when the file is put
\* there, what it held is gone.
SeenFree(i, p) ==
    /\ home.files[p] = Missing \/ (Beside(i) /\ ~ torn)
    /\ torn' = (torn \/ home.files[p] # Missing)

\* A file is written anew with another first line.  If somebody else writes it too,
\* its end may be lost.
Rewrites(i, p) ==
    \/ UNCHANGED vars
    \/ /\ Beside(i) /\ ~ torn /\ torn' = TRUE /\ home.files[p] # Missing
       /\ \E n \in 0..MaxLen : /\ n < Len(home.files[p])
                               /\ Changes([home EXCEPT !.files[p] = SubSeq(@, 1, n)])
       /\ UNCHANGED quarantine

\* A chat with a turn in progress, or an error: nothing is written any more.
Refuses(i) ==
    /\ script[i].pc \in {"apply", "config"}
    /\ Goes(i, Ended(Missing)) /\ UNCHANGED <<vars, host>>

\* The app server is stopped, a backup made, and auth.json or the key file of
\* an API profile written.
WriteCredential(i) ==
    /\ script[i].pc = "apply" /\ StopAppServer
    /\ host' = [host EXCEPT !.cred = sync.authority]
    /\ Goes(i, [script[i] EXCEPT !.pc = "config"])

\* The keys of the payload replace those of config.toml, the rest stays; the
\* provider is among them only if the local config.toml could be read and names it.
Configured(h) == [h EXCEPT !.config = TRUE]

\* Then config.toml.  The reconciliation begins by stopping the server again.
WriteConfig(i) ==
    /\ script[i].pc = "config" /\ StopAppServer
    /\ host' = Configured(host)
    /\ Goes(i, [script[i] EXCEPT !.pc = "plan"])

-----------------------------------------------------------------------------
(* A script: reconciling the chats *)

\* The copies every other copy of the chat is the beginning of.
Supersets(t) ==
    {s \in Copies(home.files, t) :
        \A r \in Copies(home.files, t) : IsPrefix(home.files[<<t, r>>], home.files[<<t, s>>])}

Root(archived) == IF archived THEN Archived ELSE Active

\* The row's own copy, else one in the right directory, else any of them.
Canonical(t) ==
    LET row == home.rows[t]
    IN IF row.slot \in Supersets(t) THEN {row.slot}
       ELSE IF Supersets(t) \cap Root(row.archived) # {}
            THEN Supersets(t) \cap Root(row.archived)
            ELSE Supersets(t)

BadDestinations(t, s) == {s}

\* Where the copy goes: it stays, takes the row's place, or moves with its name
\* to the other directory.
Destinations(t, s) ==
    LET row == home.rows[t]
    IN IF s \in Root(row.archived) THEN {s}
       ELSE IF row.slot \in Root(row.archived) THEN {row.slot}
            ELSE Root(row.archived)

Here == [home |-> home, host |-> host]

\* Every file belongs to a row and every row has a file; the session index may
\* still refuse.
PlanMoves(i) ==
    LET known == {t \in Threads : home.rows[t] # Missing}
    IN /\ script[i].pc = "plan"
       /\ known = {t \in Threads : Copies(home.files, t) # {}}
       /\ \A t \in known : Supersets(t) # {}
       /\ \E plan \in [known -> Slots \X Slots] :
             /\ \A t \in known : /\ plan[t][1] \in Canonical(t)
                                 /\ plan[t][2] \in Destinations(t, plan[t][1])
             /\ Goes(i, [script[i] EXCEPT
                            !.pc = "move", !.plan = plan, !.todo = known, !.before = Here,
                            !.losers = {p \in Places : /\ p[1] \in known
                                                       /\ home.files[p] # Missing
                                                       /\ p[2] # plan[p[1]][1]}])
       /\ UNCHANGED <<vars, host>>

\* The other copies go to the script's quarantine folder, first line and all.
MoveLoser(i) ==
    /\ script[i].pc = "move"
    /\ \E p \in script[i].losers :
          /\ home.files[p] # Missing
          /\ Changes([home EXCEPT !.files[p] = Missing])
          /\ host' = [host EXCEPT !.lines[p] = FALSE]
          /\ quarantine' = quarantine \cup {<<p, home.files[p]>>} /\ UNCHANGED torn
          /\ Goes(i, [script[i] EXCEPT
                         !.losers = @ \ {p},
                         !.moves = Append(@, [from |-> p, to |-> Missing,
                                              body |-> home.files[p],
                                              line |-> host.lines[p]])])

\* Then the kept copy goes to its destination, which must look free.
MoveCanonical(i) ==
    /\ script[i].pc = "move"
    /\ \E t \in script[i].todo :
          LET from == <<t, script[i].plan[t][1]>>
              to   == <<t, script[i].plan[t][2]>>
          IN /\ \A p \in script[i].losers : p[1] # t
             /\ \/ from = to /\ UNCHANGED <<vars, host>>
                   /\ Goes(i, [script[i] EXCEPT !.todo = @ \ {t}])
                \/ /\ from # to /\ home.files[from] # Missing /\ SeenFree(i, to)
                   /\ Changes([home EXCEPT !.files[from] = Missing,
                                           !.files[to] = home.files[from]])
                   /\ host' = [host EXCEPT !.lines[from] = FALSE,
                                           !.lines[to] = host.lines[from]]
                   /\ UNCHANGED quarantine
                   /\ Goes(i, [script[i] EXCEPT
                                  !.todo = @ \ {t},
                                  !.moves = Append(@, [from |-> from, to |-> to,
                                                       body |-> home.files[from],
                                                       line |-> host.lines[from]])])

Unpatched(i) == {t \in DOMAIN script[i].plan :
                   \A k \in DOMAIN script[i].patched : script[i].patched[k][1][1] # t}

\* patch_provider, with the old first line kept for the undo.
Patch(i) ==
    /\ script[i].pc = "move" /\ script[i].todo = {}
    /\ \E t \in Unpatched(i) :
          LET p == <<t, script[i].plan[t][2]>>
          IN /\ home.files[p] # Missing
             /\ Rewrites(i, p)
             /\ host' = [host EXCEPT !.lines[p] = TRUE]
             /\ Goes(i, [script[i] EXCEPT !.patched = Append(@, <<p, host.lines[p]>>)])

\* One transaction; it never touches the archive flags.
CommitRows(i) ==
    LET named == {t \in DOMAIN script[i].plan : home.rows[t] # Missing}
    IN /\ script[i].pc = "move" /\ script[i].todo = {} /\ Unpatched(i) = {}
       /\ Changes([home EXCEPT !.rows = [t \in Threads |->
                     IF t \in named THEN [@[t] EXCEPT !.slot = script[i].plan[t][2]]
                     ELSE @[t]]])
       /\ host' = [host EXCEPT !.rows = [t \in Threads |-> t \in named \/ @[t]]]
       /\ UNCHANGED <<quarantine, torn>>
       /\ Goes(i, [script[i] EXCEPT !.pc = "check", !.committed = TRUE])

\* The script's own verification, of the files.
CheckMoves(i) ==
    /\ script[i].pc = "check" /\ Reconciled(script[i].plan)
    /\ Goes(i, [script[i] EXCEPT !.pc = "done"]) /\ UNCHANGED <<vars, host>>

-----------------------------------------------------------------------------
(* A script: an error, and its undo *)

\* Only the reconciliation is undone: the profile stays written.
ScriptRaises(i) ==
    /\ script[i].pc \in {"plan", "move", "check"}
    /\ Goes(i, [script[i] EXCEPT
                   !.pc = "u_rows", !.before = IF script[i].pc = "plan" THEN Here ELSE @])
    /\ UNCHANGED <<vars, host>>

\* The rows of the plan get their old path and provider back; an error here is
\* passed over.
UndoRows(i) ==
    LET old   == script[i].before
        named == {t \in DOMAIN script[i].plan : home.rows[t] # Missing}
    IN /\ script[i].pc = "u_rows"
       /\ \/ /\ script[i].committed
             /\ Changes([home EXCEPT !.rows = [t \in Threads |->
                           IF t \in named
                           THEN [@[t] EXCEPT !.slot = old.home.rows[t].slot] ELSE @[t]]])
             /\ host' = [host EXCEPT !.rows = [t \in Threads |->
                           IF t \in named THEN old.host.rows[t] ELSE @[t]]]
             /\ UNCHANGED <<quarantine, torn>>
             /\ Goes(i, [script[i] EXCEPT !.pc = "u_files"])
          \/ /\ UNCHANGED <<vars, host>>
             /\ Goes(i, [script[i] EXCEPT
                            !.pc = "u_files",
                            !.before = IF script[i].committed THEN Missing ELSE old])

\* The first lines, the last one first; an error ends the script half way.
UndoLine(i) ==
    /\ script[i].pc = "u_files" /\ script[i].patched # <<>>
    /\ LET p == Last(script[i].patched)
       IN \/ /\ Rewrites(i, p[1])
             /\ host' = IF home.files[p[1]] = Missing THEN host
                        ELSE [host EXCEPT !.lines[p[1]] = p[2]]
             /\ Goes(i, [script[i] EXCEPT !.patched = Front(@)])
          \/ UNCHANGED <<vars, host>> /\ Goes(i, Ended(Missing))

\* The file still lies where the move put it.
StillThere(mv) == IF mv.to = Missing THEN <<mv.from, mv.body>> \in quarantine
                  ELSE home.files[mv.to] # Missing

PutBack(mv) ==
    IF mv.to = Missing
    THEN /\ Changes([home EXCEPT !.files[mv.from] = mv.body])
         /\ host' = [host EXCEPT !.lines[mv.from] = mv.line]
         /\ quarantine' = quarantine \ {<<mv.from, mv.body>>}
    ELSE /\ Changes([home EXCEPT !.files[mv.from] = home.files[mv.to],
                                 !.files[mv.to] = Missing])
         /\ host' = [host EXCEPT !.lines[mv.from] = host.lines[mv.to],
                                 !.lines[mv.to] = FALSE]
         /\ UNCHANGED quarantine

\* The moves, the last one first: never over a file that the script sees there.
UndoMove(i) ==
    /\ script[i].pc = "u_files" /\ script[i].patched = <<>> /\ script[i].moves # <<>>
    /\ LET mv == Last(script[i].moves)
       IN \/ /\ \/ StillThere(mv) /\ SeenFree(i, mv.from) /\ PutBack(mv)
                \/ /\ ~ (StillThere(mv) /\ home.files[mv.from] = Missing)
                   /\ UNCHANGED <<vars, host>>
             /\ Goes(i, [script[i] EXCEPT !.moves = Front(@)])
          \/ UNCHANGED <<vars, host>> /\ Goes(i, Ended(Missing))

FilesUndone(i) ==
    /\ script[i].pc = "u_files" /\ script[i].patched = <<>> /\ script[i].moves = <<>>
    /\ Goes(i, Ended(script[i].before)) /\ UNCHANGED <<vars, host>>

\* The machine is switched off, or the process killed.
ScriptDies(i) ==
    /\ i \in Running /\ Goes(i, Ended(Missing))
    /\ UNCHANGED <<vars, host>>

-----------------------------------------------------------------------------
ScriptStep(i) ==
    \/ Refuses(i) \/ WriteCredential(i) \/ WriteConfig(i) \/ PlanMoves(i)
    \/ MoveLoser(i) \/ MoveCanonical(i) \/ Patch(i) \/ CommitRows(i) \/ CheckMoves(i)
    \/ ScriptRaises(i) \/ UndoRows(i) \/ UndoLine(i) \/ UndoMove(i) \/ FilesUndone(i)

\* Bound: once a file is torn nothing is said of the chats, and what the scripts do
\* with them is followed no further.
Followed(i) == torn => script[i].pc \in {"apply", "config"}

RemoteNext ==
    /\ UNCHANGED remote
    /\ \/ ~ remote /\ Next /\ UNCHANGED remoteVars
       \/ /\ remote
          /\ \/ ServerStarts \/ ServerWrites \/ ServerRefreshes
             \/ SyncOfficial \/ SyncApi \/ NoHosts \/ Send \/ Receive \/ VerifyRemote
             \/ \E i \in Tries : (Followed(i) /\ ScriptStep(i)) \/ ScriptDies(i)

RemoteSpec == RemoteInit /\ [][RemoteNext]_allVars

-----------------------------------------------------------------------------
\* A synchronisation that reported success has left one copy of every chat, the
\* most complete, where the archive flag wants it and the row finds it, and
\* credential, configuration (the payload's keys), first lines and rows of one
\* profile, whatever earlier scripts died or were cut off in the middle of; unless two of them
\* ran at once or somebody used Codex on the machine meanwhile.
SyncIsWhole ==
    remote /\ sync.pc = "ok" /\ ~ overlap /\ ~ raced =>
       /\ host.cred = sync.authority /\ host.config
       /\ \A t \in Threads : home.rows[t] # Missing =>
             LET s == home.rows[t].slot
             IN /\ Copies(home.files, t) = {s} /\ s \in Root(home.rows[t].archived)
                /\ host.lines[<<t, s>>] /\ host.rows[t]
                /\ \A r \in Slots : original[<<t, r>>] # Missing =>
                      IsPrefix(original[<<t, r>>], home.files[<<t, s>>])

\* A script that failed and could finish its undo has left files, first lines
\* and rows as it found them.
FailureIsUndone ==
    remote /\ ~ overlap /\ ~ raced => \A i \in Tries :
       script[i].pc = "failed" /\ script[i].before # Missing => Here = script[i].before

\* A login the guardian knew of is never replaced by an older one.
LoginKept == [][host'.cred < host.cred => unseen]_allVars

\* A synchronisation is done in full, or files, first lines and rows are as they
\* were; credential and configuration, once written, stay.
SyncIsAtomic == SyncIsWhole /\ FailureIsUndone
-----------------------------------------------------------------------------
(* The inductive invariant *)

\* What holds whatever runs at once: a script in the middle knows what it found,
\* a file is moved inside its chat, and a script that was not sent is not there.
Formed(x) ==
    /\ DOMAIN x.plan \subseteq Threads
    /\ \A t \in DOMAIN x.plan : x.plan[t] \in Slots \X Slots
    /\ x.pc \in {"move", "check", "u_rows"} =>
          /\ x.before # Missing
          /\ \A t \in DOMAIN x.plan : x.before.home.rows[t] # Missing
    /\ x.pc \in {"none", "apply", "config", "plan"} => x = [NoScript EXCEPT !.pc = x.pc]
    /\ x.pc = "move" => x.todo \subseteq DOMAIN x.plan /\ ~ x.committed
    /\ x.pc = "check" => x.committed
    /\ \A k \in DOMAIN x.moves :
          x.moves[k].to # Missing => x.moves[k].to[1] = x.moves[k].from[1]

ScriptInv == \A i \in Tries : Formed(script[i])

SyncInv ==
    /\ remote => pc = "idle"
    /\ ~ remote => sync.pc = "idle"
    /\ sync.pc = "idle" => sync.n = 0
    /\ sync.pc = "ssh" => sync.n < MaxTries
    /\ sync.pc \in {"wait", "verify", "ok"} => sync.n > 0
    /\ sync.pc \in {"verify", "ok"} => script[sync.n].pc = "done"
    /\ \A i \in Tries : i > sync.n => script[i].pc = "none"
    /\ ~ overlap => \A i \in Tries : i < sync.n => i \notin Running /\ script[i].before = Missing

\* The login.
LoginInv ==
    /\ host.cred > 0 /\ sync.authority > 0
    /\ sync.pc # "idle" /\ ~ unseen => host.cred = sync.authority

\* From here on two scripts never ran at once, nor Codex.
Alone == remote /\ ~ raced /\ ~ overlap

\* The first line of p was v before the script patched it (now they are l).
WasLine(l, x, p, v) ==
    IF \E k \in DOMAIN x.patched : x.patched[k][1] = p
    THEN \E k \in DOMAIN x.patched : x.patched[k] = <<p, v>>
    ELSE l[p] = v

From(x) == {x.moves[k].from : k \in DOMAIN x.moves}
To(x)   == {x.moves[k].to : k \in DOMAIN x.moves} \ {Missing}

\* No file moves twice, and a place is only taken after it was left.
OrderInv(x) ==
    \A j, k \in DOMAIN x.moves :
       /\ x.moves[j].from = x.moves[k].from => j = k
       /\ x.moves[j].to = x.moves[k].to /\ x.moves[j].to # Missing => j = k
       /\ x.moves[k].to = x.moves[j].from => j < k

\* What the script has changed of the files is what its moves say: f, l and q
\* are the files, the first lines and the quarantine now.
MovesInv(f, l, q, x) ==
    /\ \A p \in Places \ (From(x) \cup To(x)) :
          f[p] = x.before.home.files[p] /\ WasLine(l, x, p, x.before.host.lines[p])
    /\ \A k \in DOMAIN x.moves :
          LET mv == x.moves[k]
          IN /\ x.before.home.files[mv.from] = mv.body
             /\ x.before.host.lines[mv.from] = mv.line
             /\ mv.from \notin To(x) => f[mv.from] = Missing /\ ~ l[mv.from]
             /\ mv.to = Missing => <<mv.from, mv.body>> \in q
             /\ mv.to # Missing => f[mv.to] = mv.body /\ WasLine(l, x, mv.to, mv.line)
             /\ mv.to # Missing /\ mv.to \notin From(x) => x.before.home.files[mv.to] = Missing
    /\ \A p \in Places : x.before.home.files[p] = Missing => ~ x.before.host.lines[p]

\* Each first line is patched once, of a file that is there, after the moves.
PatchInv(f, x) ==
    /\ \A j, k \in DOMAIN x.patched : x.patched[j][1] = x.patched[k][1] => j = k
    /\ \A k \in DOMAIN x.patched : f[x.patched[k][1]] # Missing
    /\ x.pc = "move" /\ x.patched # <<>> => x.todo = {}

\* The rows are the old ones, or those of the transaction.
RowsInv(x) ==
    /\ host.cred = x.before.host.cred /\ host.config = x.before.host.config
    /\ IF x.pc \in {"check", "u_rows"} /\ x.committed
       THEN \A t \in Threads :
               IF t \in DOMAIN x.plan
               THEN home.rows[t] = [x.before.home.rows[t] EXCEPT !.slot = x.plan[t][2]]
               ELSE /\ home.rows[t] = x.before.home.rows[t]
                    /\ host.rows[t] = x.before.host.rows[t]
       ELSE home.rows = x.before.home.rows /\ host.rows = x.before.host.rows

\* What is still to be moved: the losers begin the copy that is kept, which
\* moves after them.
PlanInv(x) ==
    /\ x.pc \in {"move", "check", "done"} =>
          \A t \in DOMAIN x.plan : x.plan[t][2] \in Root(x.before.home.rows[t].archived)
    /\ x.pc = "move" =>
          /\ \A p \in x.losers :
                LET best == <<p[1], x.plan[p[1]][1]>>
                IN /\ p[1] \in x.todo /\ p # best
                   /\ home.files[p] # Missing /\ home.files[best] # Missing
                   /\ IsPrefix(home.files[p], home.files[best])
                   /\ p \notin From(x) \cup To(x)
          /\ \A t \in x.todo : <<t, x.plan[t][1]>> \notin From(x) \cup To(x)
          /\ \A k \in DOMAIN x.moves : x.moves[k].from[1] \in x.todo => x.moves[k].to = Missing

Undoable(x) ==
    x.pc \in {"move", "check", "u_rows", "u_files"} /\ x.before # Missing =>
       /\ OrderInv(x) /\ MovesInv(home.files, host.lines, quarantine, x)
       /\ PatchInv(home.files, x) /\ RowsInv(x)

Written(x) ==
    /\ x.pc \in {"config", "plan", "move", "check", "done"} => host.cred = sync.authority
    /\ x.pc \in {"plan", "move", "check", "done"} => host.config

\* The most complete copy of a chat never leaves the home.
KeptInv ==
    \A t \in Threads, s \in Slots : original[<<t, s>>] # Missing =>
       \E r \in Copies(home.files, t) : IsPrefix(original[<<t, s>>], home.files[<<t, r>>])

AloneInv ==
    Alone =>
       /\ ~ codex /\ ~ torn /\ KeptInv
       /\ \A p \in Places : home.files[p] = Missing => ~ host.lines[p]
       /\ \A i \in Tries : i = sync.n =>
             /\ PlanInv(script[i]) /\ Undoable(script[i]) /\ Written(script[i])
             /\ script[i].pc = "failed" /\ script[i].before # Missing =>
                   Here = script[i].before
       /\ sync.pc = "ok" => AsReported(script[sync.n])

RemoteInv ==
    ConflictInv /\ RemoteTypeOK /\ ScriptInv /\ SyncInv /\ LoginInv /\ AloneInv
===============================================================================
