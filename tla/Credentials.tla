----------------------------- MODULE Credentials -----------------------------
(***************************************************************************)
(* The logins the profile guardian keeps (backend/guardian.py): auth.json  *)
(* of Codex, the encrypted copy of every official profile, and the copies  *)
(* that a quota query, a browser login, a backup or a remote host holds    *)
(* for a while.  Refreshing a login spends it: the server answers with a   *)
(* new one.  Codex, the quota query and remote hosts all refresh.          *)
(*                                                                         *)
(* Operations hold the service's lock; the quota query reads its copy and  *)
(* talks to the server outside it, a capture reads auth.json before it     *)
(* takes it, and update_settings takes no lock.  A credential file and the *)
(* state document are written one after the other; the second write may    *)
(* fail, and the guardian may die in between.                              *)
(***************************************************************************)
EXTENDS Naturals, FiniteSets, Functions

CONSTANTS
    Accounts,
    Ids,       \* ids of profiles, never used twice
    MaxGen,    \* bound: logins issued per account
    MaxIssued, \* bound: logins issued in all
    Missing

ASSUME CredentialAssumption ==
    /\ MaxGen \in Nat /\ MaxIssued \in Nat /\ Ids # {}
    /\ Missing \notin Accounts /\ Missing \notin Ids

Tokens == [acct : Accounts, gen : 1..MaxGen]
Docs   == [acct : [Ids -> Accounts \cup {Missing}], current : Ids \cup {Missing}]
Copies == [id : Ids, token : Tokens, new : BOOLEAN]

ASSUME MissingAssumption ==
    Missing \notin Tokens /\ Missing \notin Docs /\ Missing \notin Copies

VARIABLES
    issued,    \* logins the server has issued
    spent,     \* those that were refreshed since
    live,      \* auth.json
    codex,     \* Codex is running
    doc,       \* the state document: the account of every profile
    secret,    \* the credential files
    backed,    \* logins in backups
    retired,   \* ids that were used
    pc, job,   \* the operation that holds the lock
    quota,     \* the copy of a quota query
    oauth,     \* the login of a browser binding
    capture,   \* the login that capture_official has read
    settings,  \* the document update_settings has loaded
    overwrote, \* history: settings were saved over a newer document
    stray      \* history: ids whose last save or deletion stopped half way

vars == <<issued, spent, live, codex, doc, secret, backed, retired, pc, job,
          quota, oauth, capture, settings, overwrote, stray>>

Places == {"idle", "doc", "auth", "select", "remote", "unlink"}
Jobs == [op : {"save", "switch", "delete", "push"}, id : Ids \cup {Missing},
         target : Ids \cup {Missing}, token : Tokens \cup {Missing},
         before : Tokens \cup {Missing}, select : BOOLEAN, doc : Docs]

TypeOK ==
    /\ issued \in [Accounts -> 0..MaxGen] /\ spent \subseteq Tokens
    /\ live \in Tokens \cup {Missing} /\ codex \in BOOLEAN
    /\ doc \in Docs /\ secret \in [Ids -> Tokens \cup {Missing}]
    /\ backed \subseteq Tokens /\ retired \subseteq Ids
    /\ pc \in Places /\ job \in Jobs
    /\ quota \in Copies \cup {Missing}
    /\ oauth \in Tokens \cup {Missing} /\ settings \in Docs \cup {Missing}
    /\ capture \in Tokens \cup {Missing}
    /\ overwrote \in BOOLEAN /\ stray \subseteq Ids

NoJob == [op |-> "save", id |-> Missing, target |-> Missing, token |-> Missing,
          before |-> Missing, select |-> FALSE,
          doc |-> [acct |-> [i \in Ids |-> Missing], current |-> Missing]]

Init ==
    /\ issued = [a \in Accounts |-> 0] /\ spent = {} /\ live = Missing
    /\ codex = TRUE
    /\ doc = [acct |-> [i \in Ids |-> Missing], current |-> Missing]
    /\ secret = [i \in Ids |-> Missing] /\ backed = {} /\ retired = {}
    /\ pc = "idle" /\ job = NoJob
    /\ quota = Missing /\ oauth = Missing /\ capture = Missing /\ settings = Missing
    /\ overwrote = FALSE /\ stray = {}

-----------------------------------------------------------------------------
Profiles == {i \in Ids : doc.acct[i] # Missing}

\* _find_official_profile_by_fingerprint.
Holders(a) == {i \in Profiles : doc.acct[i] = a}

\* The server issues a login for account a.
Total == FoldFunction(+, 0, issued)
CanIssue(a) == issued[a] < MaxGen /\ Total < MaxIssued
New(a)   == [acct |-> a, gen |-> issued[a] + 1]
Issue(a) == issued' = [issued EXCEPT ![a] = @ + 1]

\* A refresh spends the login it is made with.
Refreshable(t) == t # Missing => t \notin spent /\ CanIssue(t.acct)
Refresh(t) == Issue(t.acct) /\ spent' = spent \cup {t}

Server   == <<issued, spent>>
Threads  == <<quota, oauth, capture, settings>>
Others   == <<Threads, overwrote, stray>>

\* The end of the operation that holds the lock.
Finish == pc' = "idle" /\ job' = NoJob

\* _save_official_auth: the credential file, then (SaveDoc) the document as it
\* was loaded.
Store(op, i, t, select, target) ==
    /\ secret' = [secret EXCEPT ![i] = t]
    /\ retired' = retired \cup {i}
    /\ job' = [op |-> op, id |-> i, target |-> target, token |-> t, before |-> live,
               select |-> select, doc |-> doc]
    /\ pc' = "doc"

\* _save_official_profile_from_auth: into the account's profile, or a new one.
SaveProfile(t, select) ==
    \E i \in (IF Holders(t.acct) # {} THEN Holders(t.acct) ELSE Ids \ retired) :
        Store("save", i, t, select, i)

SaveDoc ==
    /\ pc = "doc"
    /\ doc' = [acct |-> [job.doc.acct EXCEPT ![job.id] = job.token.acct],
               current |-> IF job.select THEN job.id ELSE job.doc.current]
    /\ IF job.op \in {"switch", "push"} THEN pc' = "auth" /\ UNCHANGED job ELSE Finish
    /\ stray' = stray \ {job.id}
    /\ UNCHANGED <<Server, live, codex, secret, backed, retired, Threads,
                   overwrote>>

\* The document cannot be saved: the credential file stays as it was stored, and
\* no operation has a handler for that.
SaveFails ==
    /\ pc = "doc" /\ Finish
    /\ stray' = stray \cup {job.id}
    /\ UNCHANGED <<Server, live, codex, doc, secret, backed, retired, Threads, overwrote>>

-----------------------------------------------------------------------------
\* capture_official reads auth.json and then waits for the lock.
capture_official ==
    /\ capture = Missing /\ live # Missing
    /\ capture' = live
    /\ UNCHANGED <<Server, live, codex, doc, secret, backed, retired, pc, job,
                   quota, oauth, settings, overwrote, stray>>

SaveCaptured ==
    /\ capture # Missing /\ pc = "idle"
    /\ SaveProfile(capture, TRUE)
    /\ capture' = Missing
    /\ UNCHANGED <<Server, live, codex, doc, backed, quota, oauth, settings,
                   overwrote, stray>>

\* bind_official_oauth: a login in a directory of its own, saved when it ends.
BeginOAuth(a) ==
    /\ oauth = Missing /\ CanIssue(a)
    /\ oauth' = New(a) /\ Issue(a)
    /\ UNCHANGED <<spent, live, codex, doc, secret, backed, retired, pc, job,
                   quota, capture, settings, overwrote, stray>>

EndOAuth ==
    /\ oauth # Missing /\ pc = "idle"
    /\ SaveProfile(oauth, FALSE)
    /\ oauth' = Missing
    /\ UNCHANGED <<Server, live, codex, doc, backed, quota, capture, settings,
                   overwrote, stray>>

\* import_cockpit: an older copy of a login whose account has no profile yet.
import_cockpit(a) ==
    /\ pc = "idle" /\ Holders(a) = {}
    /\ \E t \in Tokens : t.acct = a /\ t.gen <= issued[a] /\ SaveProfile(t, FALSE)
    /\ UNCHANGED <<Server, live, codex, doc, backed, Others>>

\* update_official_profile: only the login of the profile's own account.
update_official_profile(i) ==
    /\ pc = "idle" /\ i \in Profiles /\ live # Missing
    /\ live.acct = doc.acct[i]
    /\ codex' = FALSE /\ backed' = backed \cup {live}
    /\ Store("save", i, live, TRUE, i)
    /\ UNCHANGED <<Server, live, doc, Others>>

BadSyncLive(i) ==
    /\ pc' = "auth" /\ UNCHANGED <<secret, retired>>
    /\ job' = [NoJob EXCEPT !.op = "switch", !.target = i, !.before = live]

\* _sync_live_official_profile: the live login goes to the profile of its
\* account, if there is one.
SyncLive(i) ==
    IF live # Missing /\ Holders(live.acct) # {}
    THEN \E h \in Holders(live.acct) : Store("switch", h, live, FALSE, i)
    ELSE /\ pc' = "auth" /\ UNCHANGED <<secret, retired>>
         /\ job' = [NoJob EXCEPT !.op = "switch", !.target = i, !.before = live]

switch_profile(i) ==
    /\ pc = "idle" /\ i \in Profiles
    /\ codex' = FALSE
    /\ SyncLive(i)
    /\ UNCHANGED <<Server, live, doc, backed, Others>>

\* The backup, then auth.json of the target; a login the guardian cannot read, or
\* cannot write, ends the operation.
WriteAuth ==
    /\ pc = "auth"
    /\ IF job.op = "switch"
       THEN /\ backed' = IF live = Missing THEN backed ELSE backed \cup {live}
            /\ \/ /\ secret[job.target] # Missing
                  /\ live' = secret[job.target]
                  /\ pc' = "select" /\ UNCHANGED job
               \/ live' = live /\ Finish
            /\ UNCHANGED stray
       ELSE /\ \/ live' = job.token /\ UNCHANGED stray
               \/ live' = live /\ stray' = stray \cup {job.id}
            /\ Finish /\ UNCHANGED backed
    /\ UNCHANGED <<Server, codex, doc, secret, retired, Threads, overwrote>>

\* Config and chats follow (ProfileSwitch), and the profile is selected.  If a step
\* fails, auth.json is put back, unless that fails too; if only the last log entry
\* fails, the document has been saved.
Select ==
    /\ pc = "select"
    /\ \/ /\ doc' = [doc EXCEPT !.current = job.target]
          /\ pc' = "remote" /\ UNCHANGED <<live, job>>
       \/ /\ live' \in {live, IF job.before = Missing THEN live ELSE job.before}
          /\ doc' \in {doc, [doc EXCEPT !.current = job.target]}
          /\ Finish
    /\ UNCHANGED <<Server, codex, secret, backed, retired, Others>>

\* A remote host has refreshed the login that was sent to it before; the newer
\* one becomes the authority here too.
Authority(i) ==
    /\ i \in Profiles /\ secret[i] # Missing /\ CanIssue(secret[i].acct)
    /\ Refresh(secret[i])
    /\ Store("push", i, New(secret[i].acct), FALSE, i)

AdoptAuthority ==
    /\ pc = "remote"
    /\ Authority(job.target)
    /\ UNCHANGED <<live, codex, doc, backed, Others>>

RemoteUnchanged ==
    /\ pc = "remote" /\ Finish
    /\ UNCHANGED <<Server, live, codex, doc, secret, backed, retired, Others>>

\* sync_current_to_remotes: with Codex running.
sync_current_to_remotes ==
    /\ pc = "idle" /\ doc.current # Missing
    /\ Authority(doc.current)
    /\ UNCHANGED <<live, codex, doc, backed, Others>>

\* restore_backup brings an old auth.json back and saves the present one.
restore_backup ==
    /\ pc = "idle" /\ codex' = FALSE
    /\ live' \in backed
    /\ backed' = IF live = Missing THEN backed ELSE backed \cup {live}
    /\ UNCHANGED <<Server, doc, secret, retired, pc, job, Others>>

\* delete_profile: the document first, then the file.
delete_profile(i) ==
    /\ pc = "idle" /\ i \in Profiles /\ doc.current # i
    /\ doc' = [doc EXCEPT !.acct[i] = Missing]
    /\ pc' = "unlink" /\ job' = [NoJob EXCEPT !.op = "delete", !.id = i]
    /\ UNCHANGED <<Server, live, codex, secret, backed, retired, Others>>

Unlink ==
    /\ pc = "unlink" /\ Finish
    /\ secret' = [secret EXCEPT ![job.id] = Missing]
    /\ stray' = stray \ {job.id}
    /\ UNCHANGED <<Server, live, codex, doc, backed, retired, Threads, overwrote>>

UnlinkFails ==
    /\ pc = "unlink" /\ Finish
    /\ stray' = stray \cup {job.id}
    /\ UNCHANGED <<Server, live, codex, doc, secret, backed, retired, Threads, overwrote>>

Die ==
    /\ pc # "idle" /\ Finish
    /\ quota' = Missing /\ oauth' = Missing
    /\ capture' = Missing /\ settings' = Missing
    /\ stray' = IF pc \in {"doc", "unlink"} \/ job.op = "push" THEN stray \cup {job.id} ELSE stray
    /\ UNCHANGED <<Server, live, codex, doc, secret, backed, retired, overwrote>>

-----------------------------------------------------------------------------
\* refresh_official_quotas: a copy of the credential is read without the lock,
\* the query may refresh it, and the result is saved under the lock if the
\* profile is still there.
QuotaReads(i) ==
    /\ quota = Missing /\ i \in Profiles /\ secret[i] # Missing
    /\ quota' = [id |-> i, token |-> secret[i], new |-> FALSE]
    /\ UNCHANGED <<Server, live, codex, doc, secret, backed, retired, pc, job,
                   oauth, capture, settings, overwrote, stray>>

QuotaRefreshes ==
    /\ quota # Missing
    /\ quota # Missing => Refreshable(quota.token) /\ Refresh(quota.token)
          /\ quota' = [quota EXCEPT !.token = New(quota.token.acct), !.new = TRUE]
    /\ UNCHANGED <<live, codex, doc, secret, backed, retired, pc, job,
                   oauth, capture, settings, overwrote, stray>>

\* A query that fails, or runs out of time, drops its copy, also one that it has
\* refreshed.
QuotaFails ==
    /\ quota # Missing /\ quota' = Missing
    /\ UNCHANGED <<Server, live, codex, doc, secret, backed, retired, pc, job,
                   oauth, capture, settings, overwrote, stray>>

BadQuotaEnds ==
    /\ quota # Missing /\ pc = "idle"
    /\ quota' = Missing
    /\ IF quota.new
       THEN /\ secret' = [secret EXCEPT ![quota.id] = quota.token]
            /\ UNCHANGED <<retired, job, pc>>
       ELSE UNCHANGED <<secret, retired, job, pc>>
    /\ UNCHANGED <<Server, live, codex, doc, backed, oauth, capture, settings,
                   overwrote, stray>>

QuotaEnds ==
    /\ quota # Missing /\ pc = "idle"
    /\ quota' = Missing
    /\ IF quota.new /\ quota.id \in Profiles
       THEN Store("save", quota.id, quota.token, FALSE, quota.id)
       ELSE UNCHANGED <<secret, retired, job, pc>>
    /\ UNCHANGED <<Server, live, codex, doc, backed, oauth, capture, settings,
                   overwrote, stray>>

\* update_settings, without the lock: loads the document and saves it.
SettingsLoad ==
    /\ settings = Missing /\ settings' = doc
    /\ UNCHANGED <<Server, live, codex, doc, secret, backed, retired, pc, job,
                   quota, oauth, capture, overwrote, stray>>

SettingsSave ==
    /\ settings # Missing /\ settings' = Missing
    /\ doc' = settings
    /\ overwrote' = (overwrote \/ doc # settings)
    /\ UNCHANGED <<Server, live, codex, secret, backed, retired, pc, job, quota,
                   oauth, capture, stray>>

\* Codex.
CodexRefreshes ==
    /\ codex /\ live # Missing
    /\ live # Missing => Refreshable(live) /\ Refresh(live) /\ live' = New(live.acct)
    /\ UNCHANGED <<codex, doc, secret, backed, retired, pc, job, Others>>

CodexLogsIn(a) ==
    /\ codex /\ CanIssue(a)
    /\ live' = New(a) /\ Issue(a)
    /\ UNCHANGED <<spent, codex, doc, secret, backed, retired, pc, job, Others>>

StartCodex ==
    /\ ~codex /\ pc = "idle" /\ codex' = TRUE
    /\ UNCHANGED <<Server, live, doc, secret, backed, retired, pc, job, Others>>

Next ==
    \/ capture_official \/ SaveCaptured \/ EndOAuth \/ SaveDoc \/ SaveFails
    \/ WriteAuth \/ Select
    \/ \E a \in Accounts : BeginOAuth(a) \/ import_cockpit(a) \/ CodexLogsIn(a)
    \/ \E i \in Ids : \/ update_official_profile(i) \/ switch_profile(i)
                      \/ delete_profile(i) \/ QuotaReads(i)
    \/ AdoptAuthority \/ RemoteUnchanged \/ sync_current_to_remotes
    \/ restore_backup \/ Unlink \/ UnlinkFails \/ Die
    \/ QuotaRefreshes \/ QuotaFails \/ QuotaEnds \/ SettingsLoad \/ SettingsSave
    \/ CodexRefreshes \/ StartCodex

Spec == Init /\ [][Next]_vars

-----------------------------------------------------------------------------
\* No account has two profiles, whichever way its login came in.
OneProfilePerAccount ==
    \A i, j \in Profiles : doc.acct[i] = doc.acct[j] => i = j

\* A profile's credential is always of the profile's account: no save, not even
\* one that the guardian died in, gives it the login of another.
CredentialOfAccount ==
    \A i \in Profiles : secret[i] # Missing => secret[i].acct = doc.acct[i]

\* A profile in the document has its credential file, wherever the guardian
\* died; unless settings were saved over a newer document.
NoDanglingProfile == overwrote \/ \A i \in Profiles : secret[i] # Missing

\* The credential of a deleted profile does not come back, not even from a quota
\* query that was under way; unless settings were saved over a newer document.  A
\* save or a deletion of the profile itself that failed half way, or that the
\* guardian died in, leaves its file behind.
NoOrphanCredential ==
    pc = "idle" /\ ~overwrote =>
        \A i \in Ids \ stray : secret[i] # Missing => i \in Profiles

\* The guardian replaces auth.json only when its login is kept: by the profile of
\* its account if there is one, otherwise (and when a backup is restored) by a
\* backup.  (sync_current_to_remotes is no such case: it writes over auth.json
\* while Codex runs.)
NoLoginLost ==
    [][live' # live /\ live # Missing /\ ~codex /\ ~overwrote /\ job.op # "push" =>
          \/ live \in Range(secret)
          \/ live \in backed' /\ (pc = "idle" \/ Holders(live.acct) = {})]_vars

\* Saving the live login back before a switch, the profile gets the newest one:
\* a usable credential is not replaced by a spent one.
SyncKeepsNewest ==
    [][\A i \in Profiles :
          job'.op = "switch" /\ i \notin stray /\ ~overwrote /\ secret'[i] # secret[i]
          /\ secret[i] \notin spent => secret'[i] \notin spent]_vars

\* The document and the credential files agree, whichever threads worked on
\* them, whichever writes failed and wherever the guardian died: what it left
\* behind belongs to the profile it was working on, and no profile is without its
\* own login.
ProfilesMatchStore ==
    OneProfilePerAccount /\ CredentialOfAccount /\ NoDanglingProfile /\ NoOrphanCredential

-----------------------------------------------------------------------------
(* The inductive invariant *)

\* The documents the guardian may still write: the one on disk, the one an
\* operation has loaded and the one of the settings page.
InUse == {doc, job.doc} \cup ({settings} \ {Missing})

\* An id belongs to one account for ever, A says to which: every document, its
\* credential file and a copy of it in a quota query agree on that, whichever
\* of them is older.
Owned(A) ==
    /\ \A i \in Ids \ retired : A[i] = Missing
    /\ \A d \in InUse, i \in Ids : d.acct[i] \in {Missing, A[i]}
    /\ \A i \in Ids : secret[i] # Missing => secret[i].acct = A[i]
    /\ quota # Missing => quota.token.acct = A[quota.id]
OwnerInv == \E A \in [Ids -> Accounts \cup {Missing}] : Owned(A)

\* No document in use gives an account two profiles.
Single(d) ==
    \A i, j \in Ids : d.acct[i] # Missing /\ d.acct[i] = d.acct[j] => i = j
SingleInv == \A d \in InUse : Single(d)

\* An operation that has stored a credential and not yet saved the document:
\* the account has no other profile there, and the document is the one on disk
\* unless settings were saved over it.
StoredInv ==
    pc = "doc" =>
        /\ job.id \in Ids /\ job.target \in Ids
        /\ job.token # Missing /\ secret[job.id] = job.token
        /\ \A i \in Ids : job.doc.acct[i] = job.token.acct => i = job.id
        /\ ~overwrote => job.doc = doc

\* What profiles there are, from the first step of an operation to its last.
ProfileInv ==
    /\ ~overwrote => \A i \in Profiles : secret[i] # Missing
    /\ ~overwrote => doc.current \in Profiles \cup {Missing}
    /\ ~overwrote /\ pc = "unlink" => job.id \notin Profiles
    /\ ~overwrote => \A i \in Ids \ stray : secret[i] # Missing =>
          i \in Profiles \/ (pc \in {"doc", "unlink"} /\ i = job.id)
    /\ ~overwrote /\ job.op = "switch" => job.target \in Profiles

\* Until a switch ends Codex is closed, and it replaces a login only after the
\* profile of its account has got it.
SwitchInv ==
    /\ pc = "idle" => job = NoJob
    /\ pc = "doc" /\ job.op = "switch" => job.token = live
    /\ pc = "auth" => job.op \in {"switch", "push"}
    /\ pc = "auth" /\ job.op = "switch" /\ live # Missing /\ ~overwrote =>
          live \in Range(secret) \/ Holders(live.acct) = {}
    /\ pc = "auth" /\ job.op = "push" => job.token # Missing
    /\ pc \in {"auth", "select", "remote"} => job.target \in Ids
    /\ pc = "unlink" \/ job.op = "push" => job.id \in Ids
    /\ pc \in {"select", "remote"} => job.op = "switch"
    /\ pc = "select" => live = secret[job.target] /\ live # Missing
    /\ job.op = "switch" => ~codex

CredentialInv ==
    TypeOK /\ OwnerInv /\ SingleInv /\ StoredInv /\ ProfileInv /\ SwitchInv
=============================================================================
