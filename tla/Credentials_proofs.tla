------------------------- MODULE Credentials_proofs -------------------------
(***************************************************************************)
(* Proofs about Credentials, for every set of accounts and profiles and    *)
(* every number of logins.                                                 *)
(***************************************************************************)
EXTENDS Credentials, TLAPS

-----------------------------------------------------------------------------
(* Records *)

LEMMA NoJobParts ==
    /\ NoJob \in Jobs /\ NoJob.op = "save" /\ NoJob.doc \in Docs
    /\ \A i \in Ids : NoJob.doc.acct[i] = Missing
BY DEF NoJob, Jobs, Docs

LEMMA TokenParts ==
    ASSUME NEW t \in Tokens
    PROVE  t # Missing /\ t.acct \in Accounts /\ t.acct # Missing
BY MissingAssumption, CredentialAssumption DEF MissingAssumption, CredentialAssumption, Tokens

LEMMA NewIsToken ==
    ASSUME TypeOK, NEW a \in Accounts, CanIssue(a)
    PROVE  New(a) \in Tokens /\ New(a).acct = a
<1>1. issued[a] \in 0..MaxGen /\ issued[a] < MaxGen /\ MaxGen \in Nat
    BY CredentialAssumption DEF TypeOK, CanIssue, CredentialAssumption
<1>2. issued[a] + 1 \in 1..MaxGen
    BY <1>1
<1> QED BY <1>2 DEF New, Tokens

LEMMA IssueType ==
    ASSUME TypeOK, NEW a \in Accounts, CanIssue(a), Issue(a)
    PROVE  issued' \in [Accounts -> 0..MaxGen]
<1>1. issued[a] \in 0..MaxGen /\ issued[a] < MaxGen /\ MaxGen \in Nat
    BY CredentialAssumption DEF TypeOK, CanIssue, CredentialAssumption
<1>2. issued[a] + 1 \in 0..MaxGen
    BY <1>1
<1> QED BY <1>2 DEF Issue, TypeOK

-----------------------------------------------------------------------------
(* Types *)

LEMMA StoreType ==
    ASSUME TypeOK, NEW op \in {"save", "switch", "push"}, NEW i \in Ids, NEW t \in Tokens,
           NEW select \in BOOLEAN, NEW target \in Ids, Store(op, i, t, select, target)
    PROVE  /\ secret' \in [Ids -> Tokens \cup {Missing}] /\ retired' \subseteq Ids
           /\ pc' \in Places /\ job' \in Jobs
BY DEF TypeOK, Store, Places, Jobs

LEMMA FinishType ==
    ASSUME Finish PROVE pc' \in Places /\ job' \in Jobs
BY NoJobParts DEF Finish, Places

\* Where a login that comes in is stored.
LEMMA SaveProfileStores ==
    ASSUME TypeOK, NEW t \in Tokens, NEW select \in BOOLEAN, SaveProfile(t, select)
    PROVE  \E i \in Ids : /\ Store("save", i, t, select, i)
                          /\ i \in Holders(t.acct) \/ (Holders(t.acct) = {} /\ i \notin retired)
BY DEF SaveProfile, Holders, Profiles

LEMMA SaveType ==
    ASSUME TypeOK, NEW t \in Tokens, NEW select \in BOOLEAN, SaveProfile(t, select)
    PROVE  /\ secret' \in [Ids -> Tokens \cup {Missing}] /\ retired' \subseteq Ids
           /\ pc' \in Places /\ job' \in Jobs
BY SaveProfileStores, StoreType

LEMMA AuthorityStores ==
    ASSUME TypeOK, NEW i \in Ids, Authority(i)
    PROVE  /\ secret[i] \in Tokens /\ New(secret[i].acct) \in Tokens
           /\ New(secret[i].acct).acct = secret[i].acct
           /\ i \in Profiles /\ Store("push", i, New(secret[i].acct), FALSE, i)
           /\ issued' \in [Accounts -> 0..MaxGen] /\ spent' \subseteq Tokens
<1>1. secret[i] \in Tokens /\ CanIssue(secret[i].acct)
    BY DEF Authority, TypeOK
<1>2. secret[i].acct \in Accounts
    BY <1>1, TokenParts
<1>3. issued' \in [Accounts -> 0..MaxGen]
    BY <1>1, <1>2, IssueType DEF Authority, Refresh
<1> QED BY <1>1, <1>2, <1>3, NewIsToken DEF Authority, Refresh, TypeOK

LEMMA RefreshType ==
    ASSUME TypeOK, NEW t \in Tokens, Refreshable(t), Refresh(t)
    PROVE  /\ issued' \in [Accounts -> 0..MaxGen] /\ spent' \subseteq Tokens
           /\ New(t.acct) \in Tokens /\ New(t.acct).acct = t.acct
<1>1. t # Missing /\ t.acct \in Accounts /\ CanIssue(t.acct)
    BY TokenParts DEF Refreshable
<1> QED BY <1>1, IssueType, NewIsToken DEF Refresh, TypeOK

LEMMA NextType ==
    ASSUME TypeOK, StoredInv, SwitchInv, Next PROVE TypeOK'
<1>1. CASE SaveCaptured
  <2>1. capture \in Tokens
    BY <1>1 DEF SaveCaptured, TypeOK
  <2> QED BY <1>1, <2>1, SaveType DEF SaveCaptured, TypeOK, Server
<1>2. CASE EndOAuth
  <2>1. oauth \in Tokens
    BY <1>2 DEF EndOAuth, TypeOK
  <2> QED BY <1>2, <2>1, SaveType DEF EndOAuth, TypeOK, Server
<1>3. CASE SaveDoc
  <2>1. job.doc \in Docs /\ job.id \in Ids /\ job.token \in Tokens
    BY <1>3 DEF SaveDoc, StoredInv, TypeOK, Jobs
  <2>2. job.token.acct \in Accounts
    BY <2>1, TokenParts
  <2>3. doc' \in Docs
    BY <1>3, <2>1, <2>2 DEF SaveDoc, Docs
  <2>4. pc' \in Places /\ job' \in Jobs
    BY <1>3, FinishType DEF SaveDoc, Places, TypeOK
  <2> QED BY <1>3, <2>3, <2>4 DEF SaveDoc, TypeOK, Server, Threads
<1>4. CASE WriteAuth
  <2>1. /\ job.target \in Ids /\ job.token \in Tokens \cup {Missing}
        /\ job.op \in {"switch", "push"} /\ (job.op = "push" => job.id \in Ids)
    BY <1>4 DEF WriteAuth, SwitchInv, TypeOK, Jobs
  <2>2. pc' \in Places /\ job' \in Jobs
    BY <1>4, FinishType DEF WriteAuth, Places, TypeOK
  <2>3. live' \in Tokens \cup {Missing} /\ backed' \subseteq Tokens
    BY <1>4, <2>1 DEF WriteAuth, TypeOK
  <2>4. stray' \subseteq Ids
    BY <1>4, <2>1 DEF WriteAuth, TypeOK
  <2> QED BY <1>4, <2>2, <2>3, <2>4 DEF WriteAuth, TypeOK, Server, Threads
<1>5. CASE Select
  <2>1. job.target \in Ids /\ job.before \in Tokens \cup {Missing}
    BY <1>5 DEF Select, SwitchInv, TypeOK, Jobs
  <2>2. pc' \in Places /\ job' \in Jobs
    BY <1>5, FinishType DEF Select, Places, TypeOK
  <2>3. live' \in Tokens \cup {Missing} /\ doc' \in Docs
    BY <1>5, <2>1 DEF Select, TypeOK, Docs
  <2> QED BY <1>5, <2>2, <2>3 DEF Select, TypeOK, Server, Others, Threads
<1>6. ASSUME NEW a \in Accounts, BeginOAuth(a) PROVE TypeOK'
    BY <1>6, NewIsToken, IssueType DEF BeginOAuth, TypeOK
<1>7. ASSUME NEW a \in Accounts, import_cockpit(a) PROVE TypeOK'
    BY <1>7, SaveType DEF import_cockpit, TypeOK, Server, Others, Threads
<1>8. ASSUME NEW a \in Accounts, CodexLogsIn(a) PROVE TypeOK'
    BY <1>8, NewIsToken, IssueType DEF CodexLogsIn, TypeOK, Others, Threads
<1>9. ASSUME NEW i \in Ids, update_official_profile(i) PROVE TypeOK'
  <2>1. live \in Tokens
    BY <1>9 DEF update_official_profile, TypeOK
  <2> QED BY <1>9, <2>1, StoreType DEF update_official_profile, TypeOK, Server, Others, Threads
<1>10. ASSUME NEW i \in Ids, switch_profile(i) PROVE TypeOK'
  <2>1. CASE live # Missing /\ Holders(live.acct) # {}
    <3>1. live \in Tokens
        BY <2>1 DEF TypeOK
    <3>2. PICK h \in Ids : Store("switch", h, live, FALSE, i)
        BY <1>10, <2>1 DEF switch_profile, SyncLive, Holders, Profiles
    <3> QED BY <1>10, <3>1, <3>2, StoreType DEF switch_profile, TypeOK, Server, Others, Threads
  <2>2. CASE ~(live # Missing /\ Holders(live.acct) # {})
    <3>1. pc' = "auth" /\ UNCHANGED <<secret, retired>>
          /\ job' = [NoJob EXCEPT !.op = "switch", !.target = i, !.before = live]
        BY <1>10, <2>2 DEF switch_profile, SyncLive
    <3>2. job' \in Jobs /\ pc' \in Places
        BY <3>1, NoJobParts DEF Jobs, TypeOK, Places
    <3> QED BY <1>10, <3>1, <3>2 DEF switch_profile, TypeOK, Server, Others, Threads
  <2> QED BY <2>1, <2>2
<1>11. ASSUME NEW i \in Ids, delete_profile(i) PROVE TypeOK'
  <2>1. job' \in Jobs /\ pc' \in Places
    BY <1>11, NoJobParts DEF delete_profile, Jobs, Places
  <2>2. doc' \in Docs
    BY <1>11 DEF delete_profile, TypeOK, Docs
  <2> QED BY <1>11, <2>1, <2>2 DEF delete_profile, TypeOK, Server, Others, Threads
<1>12. ASSUME NEW i \in Ids, QuotaReads(i) PROVE TypeOK'
    BY <1>12 DEF QuotaReads, TypeOK, Copies, Server
<1>13. CASE AdoptAuthority
  <2>1. job.target \in Ids
    BY <1>13 DEF AdoptAuthority, SwitchInv
  <2>2. Authority(job.target)
    BY <1>13 DEF AdoptAuthority
  <2>3. /\ New(secret[job.target].acct) \in Tokens
        /\ Store("push", job.target, New(secret[job.target].acct), FALSE, job.target)
        /\ issued' \in [Accounts -> 0..MaxGen] /\ spent' \subseteq Tokens
    BY <2>1, <2>2, AuthorityStores
  <2>4. /\ secret' \in [Ids -> Tokens \cup {Missing}] /\ retired' \subseteq Ids
        /\ pc' \in Places /\ job' \in Jobs
    BY <2>1, <2>3, StoreType
  <2> QED BY <1>13, <2>3, <2>4 DEF AdoptAuthority, TypeOK, Others, Threads
<1>14. CASE RemoteUnchanged
    BY <1>14, FinishType DEF RemoteUnchanged, TypeOK, Server, Others, Threads
<1>15. CASE sync_current_to_remotes
  <2>1. doc.current \in Ids
    BY <1>15 DEF sync_current_to_remotes, TypeOK, Docs
  <2> QED BY <1>15, <2>1, AuthorityStores, StoreType DEF sync_current_to_remotes, TypeOK, Others, Threads
<1>16. CASE restore_backup
    BY <1>16 DEF restore_backup, TypeOK, Server, Others, Threads
<1>17. CASE Unlink
    BY <1>17, FinishType DEF Unlink, TypeOK, Server, Threads
<1>18. CASE Die
  <2>1. pc \in {"doc", "unlink"} \/ job.op = "push" => job.id \in Ids
    BY DEF StoredInv, SwitchInv
  <2>2. stray' \subseteq Ids
    BY <1>18, <2>1 DEF Die, TypeOK
  <2> QED BY <1>18, <2>2, FinishType DEF Die, TypeOK, Server
<1>19. CASE QuotaRefreshes
  <2>1. quota \in Copies /\ quota.token \in Tokens
    BY <1>19 DEF QuotaRefreshes, TypeOK, Copies
  <2>2. Refreshable(quota.token) /\ Refresh(quota.token)
        /\ quota' = [quota EXCEPT !.token = New(quota.token.acct), !.new = TRUE]
    BY <1>19 DEF QuotaRefreshes
  <2>3. New(quota.token.acct) \in Tokens /\ issued' \in [Accounts -> 0..MaxGen] /\ spent' \subseteq Tokens
    BY <2>1, <2>2, RefreshType
  <2>4. quota' \in Copies
    BY <2>1, <2>2, <2>3 DEF Copies
  <2> QED BY <1>19, <2>3, <2>4 DEF QuotaRefreshes, TypeOK
<1>20. CASE QuotaEnds
  <2>1. quota \in Copies /\ quota.token \in Tokens /\ quota.id \in Ids
    BY <1>20 DEF QuotaEnds, TypeOK, Copies
  <2>2. /\ secret' \in [Ids -> Tokens \cup {Missing}] /\ retired' \subseteq Ids
        /\ pc' \in Places /\ job' \in Jobs
    <3>1. CASE Store("save", quota.id, quota.token, FALSE, quota.id)
        BY <2>1, <3>1, StoreType
    <3>2. CASE UNCHANGED <<secret, retired, job, pc>>
        BY <3>2 DEF TypeOK
    <3> QED BY <1>20, <3>1, <3>2 DEF QuotaEnds
  <2> QED BY <1>20, <2>2 DEF QuotaEnds, TypeOK, Server
<1>21. CASE SettingsLoad
    BY <1>21 DEF SettingsLoad, TypeOK, Server
<1>22. CASE SettingsSave
    BY <1>22 DEF SettingsSave, TypeOK, Server
<1>23. CASE CodexRefreshes
  <2>1. live \in Tokens /\ Refreshable(live) /\ Refresh(live) /\ live' = New(live.acct)
    BY <1>23 DEF CodexRefreshes, TypeOK
  <2> QED BY <1>23, <2>1, RefreshType DEF CodexRefreshes, TypeOK, Others, Threads
<1>24. CASE StartCodex
    BY <1>24 DEF StartCodex, TypeOK, Server, Others, Threads
<1>25. CASE capture_official
    BY <1>25 DEF capture_official, TypeOK, Server
<1>26. CASE SaveFails \/ UnlinkFails
  <2>1. job.id \in Ids
    BY <1>26 DEF SaveFails, UnlinkFails, StoredInv, SwitchInv
  <2> QED BY <1>26, <2>1, FinishType DEF SaveFails, UnlinkFails, TypeOK, Server, Threads
<1>27. CASE QuotaFails
    BY <1>27 DEF QuotaFails, TypeOK, Server
<1> QED BY <1>1, <1>2, <1>3, <1>4, <1>5, <1>6, <1>7, <1>8, <1>9, <1>10, <1>11, <1>12, <1>13,
           <1>14, <1>15, <1>16, <1>17, <1>18, <1>19, <1>20, <1>21, <1>22, <1>23, <1>24, <1>25, <1>26,
           <1>27 DEF Next

-----------------------------------------------------------------------------
(* The invariant *)

LEMMA InUseType ==
    ASSUME TypeOK
    PROVE  /\ doc \in InUse /\ job.doc \in InUse /\ (settings # Missing => settings \in InUse)
           /\ \A d \in InUse : d \in Docs /\ \A i \in Ids : d.acct[i] \in Accounts \cup {Missing}
BY DEF InUse, TypeOK, Jobs, Docs

\* The account of each id stays when no credential is stored: documents and
\* copies name an account only where one of them, or the credential, did.
LEMMA OwnerStays ==
    ASSUME TypeOK, OwnerInv, retired' = retired,
           \A i \in Ids : secret'[i] \in {Missing, secret[i]},
           \A d \in InUse', i \in Ids :
              \/ d.acct[i] = Missing
              \/ \E e \in InUse : d.acct[i] = e.acct[i]
              \/ secret[i] # Missing /\ d.acct[i] = secret[i].acct,
           quota' # Missing =>
              /\ quota'.id \in Ids
              /\ \/ /\ quota # Missing /\ quota'.id = quota.id
                    /\ quota'.token.acct = quota.token.acct
                 \/ secret[quota'.id] # Missing /\ quota'.token = secret[quota'.id]
    PROVE  OwnerInv'
<1>1. PICK A \in [Ids -> Accounts \cup {Missing}] : Owned(A)
    BY DEF OwnerInv
<1>2. \A d \in InUse', i \in Ids : d.acct[i] \in {Missing, A[i]}
    BY <1>1 DEF Owned
<1>3. \A i \in Ids : secret'[i] # Missing => secret'[i].acct = A[i]
    BY <1>1 DEF Owned
<1>4. quota' # Missing => quota'.token.acct = A[quota'.id]
    BY <1>1 DEF Owned
<1>5. Owned(A)'
    BY <1>1, <1>2, <1>3, <1>4 DEF Owned
<1> QED BY <1>5 DEF OwnerInv

\* Steps beside the operation that holds the lock: Codex, the quota query, the
\* browser login, the settings page that loads.
Beside ==
    /\ UNCHANGED <<doc, secret, retired, pc, job, stray, overwrote>>
    /\ settings' \in {settings, doc, Missing}
    /\ live' = live \/ codex \/ pc = "idle"
    /\ codex' => codex \/ pc = "idle"
    /\ quota' # Missing =>
          /\ quota'.id \in Ids
          /\ \/ quota # Missing /\ quota'.id = quota.id /\ quota'.token.acct = quota.token.acct
             \/ secret[quota'.id] # Missing /\ quota'.token = secret[quota'.id]

LEMMA BesideKeeps ==
    ASSUME CredentialInv, Beside, TypeOK' PROVE CredentialInv'
<1>1. InUse' \subseteq InUse
    BY DEF InUse, Beside
<1>2. OwnerInv'
    BY <1>1, OwnerStays DEF CredentialInv, Beside
<1>3. SingleInv'
    BY <1>1 DEF SingleInv, CredentialInv
<1>4. StoredInv'
    BY DEF StoredInv, CredentialInv, Beside
<1>5. Profiles' = Profiles
    BY DEF Profiles, Beside
<1>6. ProfileInv'
    BY <1>5 DEF ProfileInv, CredentialInv, Beside
<1>7. ASSUME job.op = "switch" PROVE ~codex /\ pc # "idle" /\ live' = live /\ ~codex'
    BY <1>7, NoJobParts DEF CredentialInv, SwitchInv, Beside
<1>8. pc = "select" => job.op = "switch"
    BY DEF CredentialInv, SwitchInv
<1>9. \A a : Holders(a)' = Holders(a)
    BY <1>5 DEF Holders, Beside
<1>10. SwitchInv'
  <2>1. live' = live => SwitchInv'
    BY <1>7, <1>9 DEF CredentialInv, SwitchInv, Beside
  <2>2. job.op # "switch" => SwitchInv'
    BY <1>8 DEF CredentialInv, SwitchInv, Beside
  <2> QED BY <1>7, <2>1, <2>2
<1> QED BY <1>2, <1>3, <1>4, <1>6, <1>10 DEF CredentialInv

\* The end of an operation.
Ends ==
    /\ Finish /\ UNCHANGED <<doc, secret, retired, overwrote>>
    /\ settings' \in {settings, Missing} /\ quota' \in {quota, Missing}
    /\ stray \subseteq stray' /\ (pc \in {"doc", "unlink"} => job.id \in stray')

LEMMA NoJobDoc ==
    /\ Single(NoJob.doc) /\ \A i \in Ids : NoJob.doc.acct[i] = Missing
BY NoJobParts DEF Single

LEMMA EndKeeps ==
    ASSUME CredentialInv, Ends, TypeOK' PROVE CredentialInv'
<1>1. InUse' \subseteq InUse \cup {NoJob.doc}
    BY DEF InUse, Ends, Finish
<1>2. quota' # Missing => quota'.id \in Ids /\ quota' = quota
    BY DEF Ends, TypeOK, Copies
<1>3. OwnerInv'
    BY <1>1, <1>2, OwnerStays, NoJobDoc DEF CredentialInv, Ends
<1>4. SingleInv'
    BY <1>1, NoJobDoc DEF SingleInv, CredentialInv
<1>5. Profiles' = Profiles
    BY DEF Profiles, Ends
<1>6. pc' = "idle" /\ job' = NoJob /\ job'.op = "save"
    BY NoJobParts DEF Ends, Finish
<1>7. StoredInv'
    BY <1>6 DEF StoredInv
<1>8. ProfileInv'
    BY <1>5, <1>6 DEF ProfileInv, CredentialInv, Ends
<1>9. SwitchInv'
    BY <1>6 DEF SwitchInv
<1> QED BY <1>3, <1>4, <1>7, <1>8, <1>9 DEF CredentialInv

\* A credential is stored for a profile of its account or for a new id.
Stores(op, i, t, select, target) ==
    /\ Store(op, i, t, select, target) /\ pc \in {"idle", "remote"}
    /\ UNCHANGED <<doc, settings, overwrote, stray>> /\ quota' \in {quota, Missing}
    /\ i \in Holders(t.acct) \/ (Holders(t.acct) = {} /\ i \notin retired)
    /\ op \in {"save", "push"} \/ (op = "switch" /\ ~codex' /\ t = live' /\ target \in Profiles)

LEMMA StoreKeeps ==
    ASSUME CredentialInv, TypeOK', NEW op, NEW i \in Ids, NEW t \in Tokens, NEW select,
           NEW target \in Ids, Stores(op, i, t, select, target)
    PROVE  CredentialInv'
<1>1. /\ secret' = [secret EXCEPT ![i] = t] /\ retired' = retired \cup {i} /\ pc' = "doc"
      /\ job'.op = op /\ job'.id = i /\ job'.target = target /\ job'.token = t /\ job'.doc = doc
    BY DEF Stores, Store
<1>2. InUse' \subseteq InUse
    BY <1>1 DEF InUse, Stores
<1>3. t # Missing /\ t.acct \in Accounts /\ t.acct # Missing
    BY TokenParts
<1>4. secret \in [Ids -> Tokens \cup {Missing}]
    BY DEF CredentialInv, TypeOK
<1>5. OwnerInv'
  <2>1. PICK A \in [Ids -> Accounts \cup {Missing}] : Owned(A)
    BY DEF OwnerInv, CredentialInv
  <2> DEFINE B == [A EXCEPT ![i] = t.acct]
  <2>2. B \in [Ids -> Accounts \cup {Missing}] /\ B[i] = t.acct /\ \A j \in Ids : j # i => B[j] = A[j]
    BY <1>3
  <2>3. A[i] = t.acct \/ (A[i] = Missing /\ i \notin retired)
    <3>1. CASE i \in Holders(t.acct)
      <4>1. doc.acct[i] = t.acct /\ doc \in InUse
        BY <3>1 DEF Holders, InUse
      <4> QED BY <1>3, <2>1, <4>1 DEF Owned
    <3>2. CASE i \notin retired
        BY <2>1, <3>2 DEF Owned
    <3> QED BY <3>1, <3>2 DEF Stores
  <2>4. \A j \in Ids : A[j] # Missing => B[j] = A[j]
    BY <2>2, <2>3
  <2>5. \A j \in Ids \ retired' : B[j] = Missing
    BY <1>1, <2>1, <2>2 DEF Owned
  <2>6. \A d \in InUse', j \in Ids : d.acct[j] \in {Missing, B[j]}
    BY <1>2, <2>1, <2>4 DEF Owned
  <2>7. \A j \in Ids : secret'[j] # Missing => secret'[j].acct = B[j]
    <3>1. SUFFICES ASSUME NEW j \in Ids, secret'[j] # Missing PROVE secret'[j].acct = B[j]
        OBVIOUS
    <3>2. CASE j = i
        BY <1>1, <1>4, <2>2, <3>2
    <3>3. CASE j # i
      <4>1. secret'[j] = secret[j]
        BY <1>1, <1>4, <3>3
      <4> QED BY <2>1, <2>2, <3>1, <3>3, <4>1 DEF Owned
    <3> QED BY <3>2, <3>3
  <2>8. quota' # Missing => quota'.token.acct = B[quota'.id]
    <3>1. SUFFICES ASSUME quota' # Missing PROVE quota'.token.acct = B[quota'.id]
        OBVIOUS
    <3>2. quota' = quota /\ quota.id \in Ids /\ quota.token \in Tokens
        BY <3>1 DEF Stores, CredentialInv, TypeOK, Copies
    <3>3. quota.token.acct = A[quota.id] /\ quota.token.acct # Missing
        BY <2>1, <3>1, <3>2, TokenParts DEF Owned
    <3> QED BY <2>4, <3>2, <3>3
  <2> HIDE DEF B
  <2>9. Owned(B)'
    BY <2>5, <2>6, <2>7, <2>8 DEF Owned
  <2> QED BY <2>2, <2>9 DEF OwnerInv
<1>6. SingleInv'
    BY <1>2 DEF SingleInv, CredentialInv
<1>7. StoredInv'
  <2>1. \A j \in Ids : doc.acct[j] = t.acct => j = i
    <3>1. SUFFICES ASSUME NEW j \in Ids, doc.acct[j] = t.acct PROVE j = i
        OBVIOUS
    <3>2. j \in Holders(t.acct)
        BY <1>3, <3>1 DEF Holders, Profiles
    <3>3. i \in Holders(t.acct)
        BY <3>2 DEF Stores
    <3>4. Single(doc)
        BY DEF CredentialInv, SingleInv, InUse
    <3> QED BY <1>3, <3>1, <3>3, <3>4 DEF Single, Holders, Profiles
  <2>2. secret'[i] = t
    BY <1>1, <1>4
  <2> QED BY <1>1, <1>3, <2>1, <2>2 DEF StoredInv, Stores
<1>8. Profiles' = Profiles
    BY DEF Profiles, Stores
<1>9. \A j \in Ids : secret'[j] = IF j = i THEN t ELSE secret[j]
    BY <1>1, <1>4
<1>10. ProfileInv'
  <2>1. \A j \in Profiles : j \in Ids
    BY DEF Profiles
  <2>2. ~overwrote => \A j \in Profiles : secret'[j] # Missing
    BY <1>3, <1>9, <2>1 DEF CredentialInv, ProfileInv
  <2>3. ~overwrote => \A j \in Ids \ stray : secret'[j] # Missing => j \in Profiles \/ j = i
    BY <1>9 DEF CredentialInv, ProfileInv, Stores
  <2>4. op = "switch" => target \in Profiles
    BY DEF Stores
  <2>5. ~overwrote => doc.current \in Profiles \cup {Missing}
    BY DEF CredentialInv, ProfileInv
  <2> QED BY <1>1, <1>8, <2>2, <2>3, <2>4, <2>5 DEF ProfileInv, Stores
<1>11. SwitchInv'
    BY <1>1 DEF SwitchInv, Stores
<1> QED BY <1>5, <1>6, <1>7, <1>10, <1>11 DEF CredentialInv

\* A login that comes in.
LEMMA SaveKeeps ==
    ASSUME CredentialInv, TypeOK', NEW t \in Tokens, NEW select \in BOOLEAN,
           SaveProfile(t, select), pc = "idle",
           UNCHANGED <<doc, settings, overwrote, stray>>, quota' \in {quota, Missing}
    PROVE  CredentialInv'
<1>1. TypeOK
    BY DEF CredentialInv
<1>2. PICK i \in Ids : /\ Store("save", i, t, select, i)
                       /\ i \in Holders(t.acct) \/ (Holders(t.acct) = {} /\ i \notin retired)
    BY <1>1, SaveProfileStores
<1>3. Stores("save", i, t, select, i)
    BY <1>2 DEF Stores
<1> QED BY <1>3, StoreKeeps

\* A login that a remote machine has refreshed.
LEMMA AuthorityKeeps ==
    ASSUME CredentialInv, TypeOK', NEW i \in Ids, Authority(i), pc \in {"idle", "remote"},
           UNCHANGED <<doc, settings, overwrote, stray, quota>>
    PROVE  CredentialInv'
<1> DEFINE t == New(secret[i].acct)
<1>1. TypeOK
    BY DEF CredentialInv
<1>2. /\ secret[i] \in Tokens /\ t \in Tokens /\ t.acct = secret[i].acct
      /\ i \in Profiles /\ Store("push", i, t, FALSE, i)
    BY <1>1, AuthorityStores
<1>3. secret[i].acct = doc.acct[i]
  <2>1. PICK A \in [Ids -> Accounts \cup {Missing}] : Owned(A)
    BY DEF CredentialInv, OwnerInv
  <2>2. secret[i].acct = A[i]
    BY <1>2, <2>1, TokenParts DEF Owned
  <2>3. doc.acct[i] \in {Missing, A[i]} /\ doc.acct[i] # Missing
    BY <1>2, <2>1 DEF Owned, InUse, Profiles
  <2> QED BY <2>2, <2>3
<1>4. i \in Holders(t.acct)
    BY <1>2, <1>3 DEF Holders
<1> HIDE DEF t
<1>5. Stores("push", i, t, FALSE, i)
    BY <1>2, <1>4 DEF Stores
<1> QED BY <1>2, <1>5, StoreKeeps

LEMMA SaveDocKeeps ==
    ASSUME CredentialInv, TypeOK', SaveDoc PROVE CredentialInv'
<1>1. /\ pc = "doc" /\ job.token \in Tokens /\ job.id \in Ids /\ job.doc \in Docs
      /\ secret[job.id] = job.token /\ job.token # Missing
      /\ \A i \in Ids : job.doc.acct[i] = job.token.acct => i = job.id
      /\ ~overwrote => job.doc = doc
    BY DEF SaveDoc, CredentialInv, StoredInv, TypeOK, Jobs
<1>2. job.token.acct \in Accounts /\ job.token.acct # Missing
    BY <1>1, TokenParts
<1>3. /\ \A i \in Ids : doc'.acct[i] = IF i = job.id THEN job.token.acct ELSE job.doc.acct[i]
      /\ doc'.current = IF job.select THEN job.id ELSE job.doc.current
    BY <1>1 DEF SaveDoc, Docs
<1>4. /\ UNCHANGED <<secret, retired, live, codex, quota, settings, overwrote>>
      /\ stray' = stray \ {job.id}
    BY DEF SaveDoc, Threads
<1>5. \/ pc' = "auth" /\ job' = job /\ job.op \in {"switch", "push"}
      \/ pc' = "idle" /\ job' = NoJob /\ job'.op = "save"
    BY NoJobParts DEF SaveDoc, Finish
<1>6. InUse' \subseteq InUse \cup {doc', NoJob.doc}
    BY <1>4, <1>5 DEF InUse
<1>7. job.doc \in InUse
    BY DEF InUse
<1>8. OwnerInv'
  <2>1. \A i \in Ids : \/ \E e \in InUse : doc'.acct[i] = e.acct[i]
                       \/ secret[i] # Missing /\ doc'.acct[i] = secret[i].acct
    BY <1>1, <1>3, <1>7
  <2>2. \A d \in InUse', i \in Ids :
              \/ d.acct[i] = Missing
              \/ \E e \in InUse : d.acct[i] = e.acct[i]
              \/ secret[i] # Missing /\ d.acct[i] = secret[i].acct
    BY <1>6, <2>1, NoJobDoc
  <2>3. quota' # Missing => quota'.id \in Ids /\ quota' = quota
    BY <1>4 DEF TypeOK, Copies
  <2> QED BY <1>4, <2>2, <2>3, OwnerStays DEF CredentialInv
<1>9. SingleInv'
  <2>1. Single(job.doc)
    BY <1>7 DEF CredentialInv, SingleInv
  <2>2. Single(doc')
    BY <1>1, <1>2, <1>3, <2>1 DEF Single
  <2> QED BY <1>6, <2>2, NoJobDoc DEF SingleInv, CredentialInv
<1>10. StoredInv'
    BY <1>5 DEF StoredInv
<1>11. ~overwrote => Profiles' = Profiles \cup {job.id}
    BY <1>1, <1>2, <1>3 DEF Profiles
<1>12. ProfileInv'
  <2>1. SUFFICES ASSUME ~overwrote
                 PROVE  /\ \A i \in Profiles' : secret[i] # Missing
                        /\ doc'.current \in Profiles' \cup {Missing}
                        /\ \A i \in Ids \ stray' : secret[i] # Missing => i \in Profiles'
                        /\ job'.op = "switch" => job'.target \in Profiles'
    BY <1>4, <1>5 DEF ProfileInv
  <2>2. doc'.current \in Profiles' \cup {Missing}
    BY <1>1, <1>3, <1>11, <2>1 DEF CredentialInv, ProfileInv
  <2>3. job'.op = "switch" => job'.target \in Profiles'
    BY <1>5, <1>11, <2>1 DEF CredentialInv, ProfileInv
  <2>4. \A i \in Ids \ stray' : secret[i] # Missing => i \in Profiles'
    <3>1. SUFFICES ASSUME NEW i \in Ids, i \notin stray', secret[i] # Missing PROVE i \in Profiles'
        OBVIOUS
    <3>2. CASE i = job.id
        BY <1>11, <2>1, <3>2
    <3>3. CASE i # job.id
      <4>1. i \notin stray
        BY <1>4, <3>1, <3>3
      <4>2. i \in Profiles
        BY <1>1, <2>1, <3>1, <3>3, <4>1 DEF CredentialInv, ProfileInv
      <4> QED BY <1>11, <2>1, <4>2
    <3> QED BY <3>2, <3>3
  <2> QED BY <1>1, <1>11, <2>1, <2>2, <2>3, <2>4 DEF CredentialInv, ProfileInv
<1>13. SwitchInv'
  <2>1. secret \in [Ids -> Tokens \cup {Missing}]
    BY DEF CredentialInv, TypeOK
  <2>2. job.op = "switch" => live \in Range(secret)
    BY <1>1, <2>1 DEF CredentialInv, SwitchInv, Range
  <2>3. (job.op = "switch" => ~codex) /\ job.target \in Ids
    BY <1>1 DEF CredentialInv, StoredInv, SwitchInv
  <2>4. CASE pc' = "auth" /\ job' = job /\ job.op \in {"switch", "push"}
    BY <1>1, <1>4, <2>2, <2>3, <2>4 DEF SwitchInv
  <2>5. CASE pc' = "idle" /\ job' = NoJob /\ job'.op = "save"
    BY <2>5 DEF SwitchInv
  <2> QED BY <1>5, <2>4, <2>5
<1> QED BY <1>8, <1>9, <1>10, <1>12, <1>13 DEF CredentialInv

LEMMA WriteAuthKeeps ==
    ASSUME CredentialInv, TypeOK', WriteAuth PROVE CredentialInv'
<1>1. /\ UNCHANGED <<doc, secret, retired, codex, quota, settings, overwrote>> /\ pc = "auth"
      /\ stray \subseteq stray'
    BY DEF WriteAuth, Threads
<1>2. CASE Finish
    BY <1>1, <1>2, EndKeeps DEF Ends
<1>3. CASE /\ stray' = stray /\ job.op = "switch" /\ secret[job.target] # Missing /\ live' = secret[job.target]
           /\ pc' = "select" /\ UNCHANGED job
  <2>1. InUse' = InUse
    BY <1>1, <1>3 DEF InUse
  <2>2. quota' # Missing => quota'.id \in Ids /\ quota' = quota
    BY <1>1 DEF TypeOK, Copies
  <2>3. OwnerInv'
    BY <1>1, <2>1, <2>2, OwnerStays DEF CredentialInv
  <2>4. SingleInv' /\ StoredInv'
    BY <1>3, <2>1 DEF SingleInv, StoredInv, CredentialInv
  <2>5. Profiles' = Profiles
    BY <1>1 DEF Profiles
  <2>6. ProfileInv'
    BY <1>1, <1>3, <2>5 DEF ProfileInv, CredentialInv
  <2>7. SwitchInv'
    BY <1>1, <1>3 DEF SwitchInv, CredentialInv
  <2> QED BY <2>3, <2>4, <2>6, <2>7 DEF CredentialInv
<1> QED BY <1>2, <1>3 DEF WriteAuth

\* The target of a switch is selected.
LEMMA SelectKeeps ==
    ASSUME CredentialInv, TypeOK', Select PROVE CredentialInv'
<1>1. UNCHANGED <<secret, retired, codex, quota, settings, stray, overwrote>> /\ pc = "select"
    BY DEF Select, Others, Threads
<1>2. CASE Finish /\ UNCHANGED doc
    BY <1>1, <1>2, EndKeeps DEF Ends
<1>3. CASE doc' = [doc EXCEPT !.current = job.target] /\ pc' = "remote" /\ UNCHANGED <<live, job>>
  <2>1. doc'.acct = doc.acct /\ doc'.current = job.target
    BY <1>3 DEF CredentialInv, TypeOK, Docs
  <2>2. \A d \in InUse' : \E e \in InUse : d.acct = e.acct
    BY <1>1, <1>3, <2>1 DEF InUse
  <2>3. quota' # Missing => quota'.id \in Ids /\ quota' = quota
    BY <1>1 DEF TypeOK, Copies
  <2>4. OwnerInv'
    BY <1>1, <2>2, <2>3, OwnerStays DEF CredentialInv
  <2>5. SingleInv'
    BY <2>2 DEF CredentialInv, SingleInv, Single
  <2>6. Profiles' = Profiles
    BY <2>1 DEF Profiles
  <2>7. job.op = "switch" /\ ~codex /\ job.target \in Ids
    BY <1>1 DEF CredentialInv, SwitchInv
  <2>8. ProfileInv'
    BY <1>1, <1>3, <2>1, <2>6, <2>7 DEF ProfileInv, CredentialInv
  <2>9. StoredInv' /\ SwitchInv'
    BY <1>1, <1>3, <2>7 DEF StoredInv, SwitchInv
  <2> QED BY <2>4, <2>5, <2>8, <2>9 DEF CredentialInv
<1>4. CASE Finish /\ doc' = [doc EXCEPT !.current = job.target]
  <2>1. doc'.acct = doc.acct /\ doc'.current = job.target
    BY <1>4 DEF CredentialInv, TypeOK, Docs
  <2>2. pc' = "idle" /\ job' = NoJob /\ job'.op = "save" /\ job'.doc = NoJob.doc
    BY <1>4, NoJobParts DEF Finish
  <2>3. \A d \in InUse' : d = NoJob.doc \/ \E e \in InUse : d.acct = e.acct
    BY <1>1, <2>1, <2>2 DEF InUse
  <2>4. quota' # Missing => quota'.id \in Ids /\ quota' = quota
    BY <1>1 DEF TypeOK, Copies
  <2>5. OwnerInv'
    BY <1>1, <2>3, <2>4, OwnerStays, NoJobDoc DEF CredentialInv
  <2>6. SingleInv'
    BY <2>3, NoJobDoc DEF CredentialInv, SingleInv, Single
  <2>7. Profiles' = Profiles
    BY <2>1 DEF Profiles
  <2>8. job.op = "switch"
    BY <1>1 DEF CredentialInv, SwitchInv
  <2>9. ProfileInv'
    BY <1>1, <2>1, <2>2, <2>7, <2>8 DEF ProfileInv, CredentialInv
  <2>10. StoredInv' /\ SwitchInv'
    BY <2>2 DEF StoredInv, SwitchInv
  <2> QED BY <2>5, <2>6, <2>9, <2>10 DEF CredentialInv
<1> QED BY <1>2, <1>3, <1>4 DEF Select

LEMMA SwitchKeeps ==
    ASSUME CredentialInv, TypeOK', NEW i \in Ids, switch_profile(i) PROVE CredentialInv'
<1>1. /\ pc = "idle" /\ i \in Profiles /\ codex' = FALSE /\ SyncLive(i)
      /\ UNCHANGED <<doc, live, quota, settings, stray, overwrote>>
    BY DEF switch_profile, Others, Threads
<1>2. CASE live # Missing /\ Holders(live.acct) # {}
  <2>1. live \in Tokens
    BY <1>2 DEF CredentialInv, TypeOK
  <2>2. PICK h \in Holders(live.acct) : Store("switch", h, live, FALSE, i)
    BY <1>1, <1>2 DEF SyncLive
  <2>3. h \in Ids
    BY DEF Holders, Profiles
  <2>4. Stores("switch", h, live, FALSE, i)
    BY <1>1, <2>2 DEF Stores
  <2> QED BY <2>1, <2>3, <2>4, StoreKeeps
<1>3. CASE ~(live # Missing /\ Holders(live.acct) # {})
  <2>1. /\ pc' = "auth" /\ UNCHANGED <<secret, retired>>
        /\ job' = [NoJob EXCEPT !.op = "switch", !.target = i, !.before = live]
    BY <1>1, <1>3 DEF SyncLive
  <2>2. job'.op = "switch" /\ job'.target = i /\ job'.doc = NoJob.doc
    BY <2>1, NoJobParts DEF Jobs
  <2>3. InUse' \subseteq InUse \cup {NoJob.doc}
    BY <1>1, <2>2 DEF InUse
  <2>4. quota' # Missing => quota'.id \in Ids /\ quota' = quota
    BY <1>1 DEF TypeOK, Copies
  <2>5. OwnerInv'
    BY <1>1, <2>1, <2>3, <2>4, OwnerStays, NoJobDoc DEF CredentialInv
  <2>6. SingleInv'
    BY <2>3, NoJobDoc DEF SingleInv, CredentialInv
  <2>7. Profiles' = Profiles
    BY <1>1 DEF Profiles
  <2>8. ProfileInv'
    BY <1>1, <2>1, <2>2, <2>7 DEF ProfileInv, CredentialInv
  <2>9. \A a : Holders(a)' = Holders(a)
    BY <1>1, <2>7 DEF Holders
  <2>10. StoredInv' /\ SwitchInv'
    BY <1>1, <1>3, <2>1, <2>2, <2>9 DEF StoredInv, SwitchInv
  <2> QED BY <2>5, <2>6, <2>8, <2>10 DEF CredentialInv
<1> QED BY <1>2, <1>3

LEMMA DeleteKeeps ==
    ASSUME CredentialInv, TypeOK', NEW i \in Ids, delete_profile(i) PROVE CredentialInv'
<1>1. /\ pc = "idle" /\ i \in Profiles /\ doc.current # i /\ pc' = "unlink"
      /\ UNCHANGED <<secret, retired, live, codex, quota, settings, stray, overwrote>>
    BY DEF delete_profile, Others, Threads
<1>2. job'.op = "delete" /\ job'.id = i /\ job'.doc = NoJob.doc
    BY NoJobParts DEF delete_profile, Jobs
<1>3. /\ \A j \in Ids : doc'.acct[j] = IF j = i THEN Missing ELSE doc.acct[j]
      /\ doc'.current = doc.current
    BY DEF delete_profile, CredentialInv, TypeOK, Docs
<1>4. InUse' \subseteq InUse \cup {doc', NoJob.doc} /\ doc \in InUse
    BY <1>1, <1>2 DEF InUse
<1>5. quota' # Missing => quota'.id \in Ids /\ quota' = quota
    BY <1>1 DEF TypeOK, Copies
<1>6. OwnerInv'
  <2>1. \A d \in InUse', j \in Ids : d.acct[j] = Missing \/ \E e \in InUse : d.acct[j] = e.acct[j]
    BY <1>3, <1>4, NoJobDoc
  <2> QED BY <1>1, <1>5, <2>1, OwnerStays DEF CredentialInv
<1>7. SingleInv'
  <2>1. Single(doc)
    BY <1>4 DEF CredentialInv, SingleInv
  <2>2. Single(doc')
    BY <1>3, <2>1 DEF Single
  <2> QED BY <1>4, <2>2, NoJobDoc DEF SingleInv, CredentialInv
<1>8. Profiles' = Profiles \ {i}
    BY <1>3 DEF Profiles
<1>9. ProfileInv'
    BY <1>1, <1>2, <1>3, <1>8 DEF ProfileInv, CredentialInv
<1>10. StoredInv' /\ SwitchInv'
    BY <1>1, <1>2 DEF StoredInv, SwitchInv
<1> QED BY <1>6, <1>7, <1>9, <1>10 DEF CredentialInv

LEMMA UnlinkKeeps ==
    ASSUME CredentialInv, TypeOK', Unlink PROVE CredentialInv'
<1>1. /\ pc = "unlink" /\ pc' = "idle" /\ job' = NoJob /\ job'.op = "save" /\ job'.doc = NoJob.doc
      /\ UNCHANGED <<doc, retired, live, codex, quota, settings, overwrote>>
      /\ stray' = stray \ {job.id}
    BY NoJobParts DEF Unlink, Finish, Threads
<1>2. \A i \in Ids : secret'[i] = IF i = job.id THEN Missing ELSE secret[i]
    BY DEF Unlink, CredentialInv, TypeOK
<1>3. InUse' \subseteq InUse \cup {NoJob.doc}
    BY <1>1 DEF InUse
<1>4. quota' # Missing => quota'.id \in Ids /\ quota' = quota
    BY <1>1 DEF TypeOK, Copies
<1>5. OwnerInv'
    BY <1>1, <1>2, <1>3, <1>4, OwnerStays, NoJobDoc DEF CredentialInv
<1>6. SingleInv'
    BY <1>3, NoJobDoc DEF SingleInv, CredentialInv
<1>7. Profiles' = Profiles /\ Profiles \subseteq Ids
    BY <1>1 DEF Profiles
<1>8. ProfileInv'
    BY <1>1, <1>2, <1>7 DEF ProfileInv, CredentialInv
<1>9. StoredInv' /\ SwitchInv'
    BY <1>1 DEF StoredInv, SwitchInv
<1> QED BY <1>5, <1>6, <1>8, <1>9 DEF CredentialInv

\* An older document is written back: ids keep their accounts.
LEMMA SettingsSaveKeeps ==
    ASSUME CredentialInv, TypeOK', SettingsSave PROVE CredentialInv'
<1>1. /\ settings # Missing /\ settings' = Missing /\ doc' = settings
      /\ overwrote' = (overwrote \/ doc # settings)
      /\ UNCHANGED <<secret, retired, live, codex, pc, job, quota, stray>>
    BY DEF SettingsSave
<1>2. InUse' \subseteq InUse
    BY <1>1 DEF InUse
<1>3. quota' # Missing => quota'.id \in Ids /\ quota' = quota
    BY <1>1 DEF TypeOK, Copies
<1>4. OwnerInv'
    BY <1>1, <1>2, <1>3, OwnerStays DEF CredentialInv
<1>5. SingleInv'
    BY <1>2 DEF SingleInv, CredentialInv
<1>6. ~overwrote' => ~overwrote /\ doc' = doc /\ Profiles' = Profiles
    BY <1>1 DEF CredentialInv, TypeOK, Profiles
<1>7. StoredInv' /\ ProfileInv'
    BY <1>1, <1>6 DEF StoredInv, ProfileInv, CredentialInv
<1>8. ~overwrote' => \A a : Holders(a)' = Holders(a)
    BY <1>6 DEF Holders
<1>9. SwitchInv'
    BY <1>1, <1>6, <1>8 DEF SwitchInv, CredentialInv
<1> QED BY <1>4, <1>5, <1>7, <1>9 DEF CredentialInv

LEMMA NextKeeps ==
    ASSUME CredentialInv, Next PROVE CredentialInv'
<1>1. TypeOK /\ StoredInv /\ SwitchInv
    BY DEF CredentialInv
<1>2. TypeOK'
    BY <1>1, NextType
<1>3. CASE SaveCaptured
  <2>1. capture \in Tokens
    BY <1>1, <1>3 DEF SaveCaptured, TypeOK
  <2> QED BY <1>2, <1>3, <2>1, SaveKeeps DEF SaveCaptured
<1>4. CASE EndOAuth
  <2>1. oauth \in Tokens
    BY <1>1, <1>4 DEF EndOAuth, TypeOK
  <2> QED BY <1>2, <1>4, <2>1, SaveKeeps DEF EndOAuth
<1>5. CASE SaveDoc \/ WriteAuth \/ Select
    BY <1>2, <1>5, SaveDocKeeps, WriteAuthKeeps, SelectKeeps
<1>6. ASSUME NEW a \in Accounts, import_cockpit(a) PROVE CredentialInv'
    BY <1>2, <1>6, SaveKeeps DEF import_cockpit, Others, Threads
<1>7. ASSUME NEW i \in Ids, update_official_profile(i) PROVE CredentialInv'
  <2>1. live \in Tokens
    BY <1>1, <1>7 DEF update_official_profile, TypeOK
  <2>2. i \in Holders(live.acct)
    BY <1>7 DEF update_official_profile, Holders
  <2>3. Stores("save", i, live, TRUE, i)
    BY <1>7, <2>2 DEF update_official_profile, Stores, Others, Threads
  <2> QED BY <1>2, <2>1, <2>3, StoreKeeps
<1>8. ASSUME NEW i \in Ids, switch_profile(i) \/ delete_profile(i) PROVE CredentialInv'
    BY <1>2, <1>8, SwitchKeeps, DeleteKeeps
<1>9. CASE AdoptAuthority
  <2>1. job.target \in Ids
    BY <1>1, <1>9 DEF AdoptAuthority, SwitchInv
  <2>2. Authority(job.target) /\ pc = "remote" /\ UNCHANGED <<doc, settings, overwrote, stray, quota>>
    BY <1>9 DEF AdoptAuthority, Others, Threads
  <2> QED BY <1>2, <2>1, <2>2, AuthorityKeeps
<1>10. CASE sync_current_to_remotes
  <2>1. doc.current \in Ids
    BY <1>1, <1>10 DEF sync_current_to_remotes, TypeOK, Docs
  <2>2. Authority(doc.current) /\ pc = "idle" /\ UNCHANGED <<doc, settings, overwrote, stray, quota>>
    BY <1>10 DEF sync_current_to_remotes, Others, Threads
  <2> QED BY <1>2, <2>1, <2>2, AuthorityKeeps
<1>11. CASE RemoteUnchanged \/ Die \/ SaveFails \/ UnlinkFails
  <2>1. Ends
    BY <1>11 DEF RemoteUnchanged, Die, SaveFails, UnlinkFails, Ends, Others, Threads
  <2> QED BY <1>2, <2>1, EndKeeps
<1>12. CASE Unlink \/ SettingsSave
    BY <1>2, <1>12, UnlinkKeeps, SettingsSaveKeeps
<1>13. CASE QuotaEnds
  <2>1. quota # Missing /\ quota \in Copies /\ quota.id \in Ids /\ quota.token \in Tokens
    BY <1>1, <1>13 DEF QuotaEnds, TypeOK, Copies
  <2>2. /\ quota' = Missing /\ pc = "idle"
        /\ UNCHANGED <<live, codex, doc, settings, stray, overwrote>>
    BY <1>13 DEF QuotaEnds
  <2>3. CASE quota.id \in Profiles /\ Store("save", quota.id, quota.token, FALSE, quota.id)
    <3>1. PICK A \in [Ids -> Accounts \cup {Missing}] : Owned(A)
        BY DEF CredentialInv, OwnerInv
    <3>2. quota.token.acct = A[quota.id] /\ doc.acct[quota.id] \in {Missing, A[quota.id]}
        BY <2>1, <3>1 DEF Owned, InUse
    <3>3. quota.id \in Holders(quota.token.acct)
        BY <2>3, <3>2 DEF Holders, Profiles
    <3>4. Stores("save", quota.id, quota.token, FALSE, quota.id)
        BY <2>2, <2>3, <3>3 DEF Stores
    <3> QED BY <1>2, <2>1, <3>4, StoreKeeps
  <2>4. CASE UNCHANGED <<secret, retired, job, pc>>
    BY <1>2, <2>2, <2>4, BesideKeeps DEF Beside
  <2> QED BY <1>13, <2>3, <2>4 DEF QuotaEnds
<1>14. ASSUME quota' = quota, UNCHANGED <<doc, secret, retired, pc, job, stray, overwrote>>,
              settings' \in {settings, doc, Missing}, live' = live \/ codex \/ pc = "idle",
              codex' => codex \/ pc = "idle"
       PROVE  CredentialInv'
  <2>1. quota # Missing => quota.id \in Ids
    BY <1>1 DEF TypeOK, Copies
  <2>2. Beside
    BY <1>14, <2>1 DEF Beside
  <2> QED BY <1>2, <2>2, BesideKeeps
<1>15. ASSUME NEW a \in Accounts, BeginOAuth(a) \/ CodexLogsIn(a) PROVE CredentialInv'
    BY <1>14, <1>15 DEF BeginOAuth, CodexLogsIn, Others, Threads
<1>16. CASE restore_backup \/ SettingsLoad \/ CodexRefreshes \/ StartCodex
    BY <1>14, <1>16 DEF restore_backup, SettingsLoad, CodexRefreshes, StartCodex, Others, Threads
<1>19. CASE capture_official
    BY <1>14, <1>19 DEF capture_official
<1>20. CASE QuotaFails
  <2>1. Beside
    BY <1>20 DEF QuotaFails, Beside
  <2> QED BY <1>2, <2>1, BesideKeeps
<1>17. ASSUME NEW i \in Ids, QuotaReads(i) PROVE CredentialInv'
  <2>1. Beside
    BY <1>17 DEF QuotaReads, Beside
  <2> QED BY <1>2, <2>1, BesideKeeps
<1>18. CASE QuotaRefreshes
  <2>1. quota # Missing /\ quota \in Copies /\ quota.id \in Ids /\ quota.token \in Tokens
    BY <1>1, <1>18 DEF QuotaRefreshes, TypeOK, Copies
  <2>2. /\ Refreshable(quota.token) /\ Refresh(quota.token)
        /\ quota' = [quota EXCEPT !.token = New(quota.token.acct), !.new = TRUE]
    BY <1>18 DEF QuotaRefreshes
  <2>3. New(quota.token.acct).acct = quota.token.acct
    BY <1>1, <2>1, <2>2, RefreshType
  <2>4. quota'.id = quota.id /\ quota'.token.acct = quota.token.acct
    BY <2>1, <2>2, <2>3 DEF Copies
  <2>5. Beside
    BY <1>18, <2>1, <2>4 DEF QuotaRefreshes, Beside
  <2> QED BY <1>2, <2>5, BesideKeeps
<1> QED BY <1>3, <1>4, <1>5, <1>6, <1>7, <1>8, <1>9, <1>10, <1>11, <1>12, <1>13, <1>15,
           <1>16, <1>17, <1>18, <1>19, <1>20 DEF Next

LEMMA InitHolds ==
    ASSUME Init PROVE CredentialInv
<1>1. /\ doc = [acct |-> [i \in Ids |-> Missing], current |-> Missing]
      /\ secret = [i \in Ids |-> Missing] /\ pc = "idle" /\ job = NoJob /\ quota = Missing
      /\ settings = Missing /\ retired = {}
    BY DEF Init
<1>2. doc \in Docs /\ doc.current = Missing /\ \A i \in Ids : doc.acct[i] = Missing /\ secret[i] = Missing
    BY <1>1 DEF Docs
<1>3. issued \in [Accounts -> 0..MaxGen]
    BY CredentialAssumption DEF CredentialAssumption, Init
<1>4. TypeOK
    BY <1>1, <1>2, <1>3, NoJobParts DEF TypeOK, Init, Places
<1>5. InUse = {doc, NoJob.doc}
    BY <1>1 DEF InUse
<1>6. OwnerInv
  <2> DEFINE A == [i \in Ids |-> Missing]
  <2>1. A \in [Ids -> Accounts \cup {Missing}]
    OBVIOUS
  <2>2. Owned(A)
    BY <1>1, <1>2, <1>5, NoJobDoc DEF Owned
  <2> QED BY <2>1, <2>2 DEF OwnerInv
<1>7. SingleInv
    BY <1>2, <1>5, NoJobDoc DEF SingleInv, Single
<1>8. Profiles = {}
    BY <1>2 DEF Profiles
<1>9. job.op = "save"
    BY <1>1, NoJobParts
<1>10. StoredInv /\ ProfileInv /\ SwitchInv
    BY <1>1, <1>2, <1>8, <1>9 DEF StoredInv, ProfileInv, SwitchInv
<1> QED BY <1>4, <1>6, <1>7, <1>10 DEF CredentialInv

LEMMA StutterKeeps ==
    ASSUME CredentialInv, UNCHANGED vars PROVE CredentialInv'
<1>1. UNCHANGED <<issued, spent, live, codex, doc, secret, backed, retired, pc, job,
                  quota, oauth, capture, settings, stray, overwrote>>
    BY DEF vars
<1>2. TypeOK'
    BY <1>1 DEF CredentialInv, TypeOK
<1>3. quota' # Missing => quota'.id \in Ids
    BY <1>2 DEF TypeOK, Copies
<1>4. Beside
    BY <1>1, <1>3 DEF Beside
<1> QED BY <1>2, <1>4, BesideKeeps

-----------------------------------------------------------------------------
(* The theorems *)

\* The inductive invariant holds: above all, an id belongs to one account for
\* ever, in every document and copy that may still be written (OwnerInv).
THEOREM CredentialsHold == Spec => []CredentialInv
<1>1. Init => CredentialInv
    BY InitHolds
<1>2. CredentialInv /\ [Next]_vars => CredentialInv'
    BY NextKeeps, StutterKeeps
<1> QED BY <1>1, <1>2, PTL DEF Spec

\* The document and the credential files agree, whichever threads worked on them,
\* whichever writes failed and wherever the guardian died: one profile per account,
\* no credential of another account, no profile without one, and none left of a
\* profile that is gone, other than by its own save or deletion that stopped half
\* way.
THEOREM StoreMatches == Spec => []ProfilesMatchStore
<1>1. ASSUME CredentialInv PROVE OneProfilePerAccount
  <2>1. Single(doc)
    BY <1>1 DEF CredentialInv, SingleInv, InUse
  <2> QED BY <2>1 DEF OneProfilePerAccount, Single, Profiles
<1>2. ASSUME CredentialInv PROVE CredentialOfAccount
  <2>1. PICK A \in [Ids -> Accounts \cup {Missing}] : Owned(A)
    BY <1>2 DEF CredentialInv, OwnerInv
  <2>2. \A i \in Ids : doc.acct[i] \in {Missing, A[i]}
    BY <2>1 DEF Owned, InUse
  <2> QED BY <2>1, <2>2 DEF Owned, CredentialOfAccount, Profiles
<1>3. CredentialInv => NoDanglingProfile /\ NoOrphanCredential
    BY DEF CredentialInv, ProfileInv, NoDanglingProfile, NoOrphanCredential
<1>4. CredentialInv => ProfilesMatchStore
    BY <1>1, <1>2, <1>3 DEF ProfilesMatchStore
<1> QED BY <1>4, CredentialsHold, PTL

\* The guardian replaces auth.json only when its login is kept, by the profile of
\* its account or by a backup.
THEOREM LoginsAreKept == Spec => NoLoginLost
<1>1. ASSUME CredentialInv, [Next]_vars, live' # live, live # Missing, ~codex, ~overwrote,
             job.op # "push"
      PROVE  \/ live \in Range(secret)
             \/ live \in backed' /\ (pc = "idle" \/ Holders(live.acct) = {})
  <2>1. Next
    BY <1>1 DEF vars
  <2>2. WriteAuth \/ Select \/ restore_backup
    BY <1>1, <2>1 DEF Next, capture_official, SaveCaptured, EndOAuth, SaveDoc, SaveFails, BeginOAuth, import_cockpit,
        CodexLogsIn, update_official_profile, switch_profile, delete_profile, QuotaReads,
        AdoptAuthority, RemoteUnchanged, sync_current_to_remotes, Unlink, UnlinkFails, Die, QuotaRefreshes,
        QuotaFails, QuotaEnds, SettingsLoad, SettingsSave, CodexRefreshes, StartCodex
  <2>3. CASE WriteAuth
    <3>1. pc = "auth" /\ job.op = "switch"
        BY <1>1, <2>3 DEF WriteAuth, CredentialInv, SwitchInv
    <3>2. live \in backed'
        BY <1>1, <2>3, <3>1 DEF WriteAuth
    <3> QED BY <1>1, <3>1, <3>2 DEF CredentialInv, SwitchInv
  <2>4. CASE Select
    <3>1. live = secret[job.target]
        BY <1>1, <2>4 DEF Select, CredentialInv, SwitchInv
    <3>2. job.target \in Ids /\ secret \in [Ids -> Tokens \cup {Missing}]
        BY <1>1, <2>4 DEF Select, CredentialInv, SwitchInv, TypeOK
    <3> QED BY <3>1, <3>2 DEF Range
  <2>5. CASE restore_backup
    BY <1>1, <2>5 DEF restore_backup
  <2> QED BY <2>2, <2>3, <2>4, <2>5
<1>2. CredentialInv /\ [Next]_vars =>
        [live' # live /\ live # Missing /\ ~codex /\ ~overwrote /\ job.op # "push" =>
           \/ live \in Range(secret)
           \/ live \in backed' /\ (pc = "idle" \/ Holders(live.acct) = {})]_vars
    BY <1>1
<1> QED BY <1>2, CredentialsHold, PTL DEF Spec, NoLoginLost

=============================================================================
