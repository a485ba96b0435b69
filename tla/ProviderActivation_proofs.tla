---------------------- MODULE ProviderActivation_proofs ----------------------
(***************************************************************************)
(* Proofs about Publication and ProviderActivation, for every set of       *)
(* groups, profiles and texts and every bound on the revisions.            *)
(***************************************************************************)
EXTENDS ProviderActivation, TLAPS

-----------------------------------------------------------------------------
(* The shape of the data *)

\* Missing is none of the values the variables hold.
LEMMA Sentinel ==
    /\ Missing \notin Groups /\ Missing \notin Profiles
    /\ Missing \notin Group /\ Missing \notin Configs
    /\ MaxRevision \in Nat
BY PublicationAssumption

LEMMA GroupShape ==
    ASSUME NEW v \in Group PROVE v.routes \subseteq Profiles /\ v.routes \in Routes
BY DEF Group, Routes

LEMMA ConfigShape ==
    ASSUME NEW c \in Configs
    PROVE  /\ c.routes \subseteq Profiles /\ c.routes \in Routes
           /\ c.rev \in 0..MaxRevision + 3 /\ c.rev \in Nat
           /\ c.group \in Groups \cup {Missing}
BY Sentinel DEF Configs, Routes

LEMMA JobShape ==
    ASSUME TypeOK
    PROVE  /\ job.cand \in Configs /\ job.before \in Configs
           /\ job.created \subseteq Profiles /\ job.same \in BOOLEAN
           /\ gw \in Configs
BY DEF TypeOK, Jobs

\* A group that is there is a group, and its routes are profiles.
LEMMA DocShape ==
    ASSUME TypeOK
    PROVE  /\ doc.rev \in 0..MaxRevision + 2 /\ doc.rev \in Nat
           /\ doc.active \in Groups \cup {Missing}
           /\ doc.groups \in [Groups -> Group \cup {Missing}]
           /\ \A g \in Groups : doc.groups[g] # Missing => doc.groups[g] \in Group
BY Sentinel DEF TypeOK

\* The configuration that a rollback puts in force, while a job is at work.
LEMMA CompensationShape ==
    ASSUME TypeOK, JobInv, pc # "idle"
    PROVE  /\ Compensation \in Configs
           /\ Compensation.rev = job.cand.rev + 1
           /\ Compensation.routes = job.before.routes
           /\ Compensation.group = job.before.group
<1>1. job.cand.rev + 1 \in 0..MaxRevision + 3
  BY DocShape, Sentinel DEF JobInv
<1>2. job.before \in Configs
  BY JobShape
<1> QED BY <1>1, <1>2 DEF Compensation, Configs

-----------------------------------------------------------------------------
(* Every action of Publication keeps its invariant *)

\* The groups change only while nothing is being published, and never to a
\* profile that is being deleted unseen.
LEMMA SaveGroupsKeepsInv ==
    ASSUME PublicationInv, NEW groups \in [Groups -> Group \cup {Missing}],
           NEW named \in SUBSET profiles, SaveGroups(groups, named),
           \A g \in Groups : groups[g] # Missing =>
              groups[g] = doc.groups[g] \/ groups[g].routes = named,
           doc.active # Missing => groups[doc.active] # Missing
    PROVE  PublicationInv'
<1> USE DEF PublicationInv
<1>1. /\ pc = "idle" /\ pc' = pc /\ doc.rev < MaxRevision
      /\ doc' = [doc EXCEPT !.rev = doc.rev + 1, !.groups = groups]
      /\ unseen' = (unseen \/ deleting \in named)
      /\ UNCHANGED <<marker, profiles, deleting, kept, gw, staged, up, synced,
                     secrets, job, promised, lost>>
  BY DEF SaveGroups, gateway
<1>2. /\ doc'.rev = doc.rev + 1 /\ doc'.groups = groups /\ doc'.active = doc.active
      /\ doc' \in [rev : 0..MaxRevision + 2, active : Groups \cup {Missing},
                   groups : [Groups -> Group \cup {Missing}]]
  <2>1. doc.rev + 1 \in 0..MaxRevision + 2
    BY <1>1, DocShape, Sentinel
  <2> QED BY <1>1, <2>1 DEF TypeOK
<1>3. TypeOK'
  BY <1>1, <1>2 DEF TypeOK
<1>4. JobInv' /\ PlaceInv' /\ SecretInv'
  BY <1>1 DEF JobInv, PlaceInv, SecretInv, Preparing
<1>5. ProfileInv'
  BY <1>1, <1>2 DEF ProfileInv, Preparing
<1> QED BY <1>3, <1>4, <1>5

LEMMA GroupsKeepInv ==
    ASSUME PublicationInv, NEW g \in Groups,
           \/ \E v \in Group : CreateGroup(g, v) \/ UpdateGroup(g, v)
           \/ DeleteGroup(g)
    PROVE  PublicationInv'
<1>1. /\ doc.groups \in [Groups -> Group \cup {Missing}]
      /\ doc.active # Missing => doc.groups[doc.active] # Missing
      /\ doc.active \in Groups \cup {Missing}
  BY DocShape DEF PublicationInv, TypeOK
<1>2. CASE \E v \in Group : CreateGroup(g, v) \/ UpdateGroup(g, v)
  <2>1. PICK v \in Group : CreateGroup(g, v) \/ UpdateGroup(g, v)
    BY <1>2
  <2> DEFINE groups == [doc.groups EXCEPT ![g] = v]
  <2>2. v.routes \subseteq profiles /\ SaveGroups(groups, v.routes)
    BY <2>1 DEF CreateGroup, UpdateGroup
  <2>3. /\ groups \in [Groups -> Group \cup {Missing}] /\ groups[g] = v
        /\ \A h \in Groups \ {g} : groups[h] = doc.groups[h]
    BY <1>1
  <2>4. doc.active # Missing => groups[doc.active] # Missing
    BY <1>1, <2>3, Sentinel
  <2> HIDE DEF groups
  <2> QED BY <2>2, <2>3, <2>4, SaveGroupsKeepsInv
<1>3. CASE DeleteGroup(g)
  <2> DEFINE groups == [doc.groups EXCEPT ![g] = Missing]
  <2>1. SaveGroups(groups, {}) /\ doc.active # g
    BY <1>3 DEF DeleteGroup
  <2>2. /\ groups \in [Groups -> Group \cup {Missing}] /\ groups[g] = Missing
        /\ \A h \in Groups \ {g} : groups[h] = doc.groups[h]
    BY <1>1
  <2>3. doc.active # Missing => groups[doc.active] # Missing
    BY <1>1, <2>1, <2>2
  <2> HIDE DEF groups
  <2> QED BY <2>1, <2>2, <2>3, SaveGroupsKeepsInv
<1> QED BY <1>2, <1>3

LEMMA PublishKeepsInv ==
    ASSUME PublicationInv, NEW g \in Groups, Publish(g) PROVE PublicationInv'
<1> USE DEF PublicationInv
<1> DEFINE c == [rev |-> doc.rev + 1, group |-> g, routes |-> doc.groups[g].routes]
<1>1. /\ pc = "idle" /\ ~marker /\ doc.rev < MaxRevision /\ doc.groups[g] # Missing
      /\ job' = [job EXCEPT !.cand = c] /\ pc' = "deploy"
      /\ UNCHANGED <<doc, marker, profiles, deleting, kept, gw, staged, up, synced,
                     secrets, promised, lost, unseen>>
  BY DEF Publish, guardian, gateway, history
<1>2. c \in Configs
  <2>1. doc.groups[g].routes \in Routes
    BY <1>1, DocShape, GroupShape
  <2>2. doc.rev + 1 \in 0..MaxRevision + 3
    BY <1>1, DocShape, Sentinel
  <2> QED BY <2>1, <2>2 DEF Configs
<1>3. /\ job' \in Jobs /\ job'.cand = c /\ job'.before = job.before
      /\ job'.created = job.created
  BY <1>1, <1>2 DEF TypeOK, Jobs
<1>4. c.rev = doc.rev + 1 /\ c.group = g /\ c.routes = doc.groups[g].routes
  OBVIOUS
<1> HIDE DEF c
<1>5. TypeOK'
  BY <1>1, <1>3 DEF TypeOK, Places
<1>6. JobInv' /\ PlaceInv' /\ SecretInv' /\ ProfileInv'
  BY <1>1, <1>3, <1>4 DEF JobInv, PlaceInv, SecretInv, ProfileInv, Preparing
<1> QED BY <1>5, <1>6

LEMMA DeployKeepsInv ==
    ASSUME PublicationInv, Deploy PROVE PublicationInv'
<1> USE DEF PublicationInv
<1>1. /\ pc = "deploy"
      /\ UNCHANGED <<doc, marker, profiles, deleting, kept, gw, staged, up, synced,
                     promised, lost, unseen>>
  BY DEF Deploy, guardian, gateway, history
<1>2. CASE /\ job.cand.rev > gw.rev /\ secrets' = secrets \cup job.cand.routes
           /\ job' = [job EXCEPT !.created = Created, !.before = gw, !.same = TRUE]
           /\ pc' = "prepare"
  <2>1. job.cand.routes \subseteq Profiles /\ Created \subseteq Profiles /\ gw \in Configs
    BY JobShape, ConfigShape DEF Created
  <2>2. /\ job' \in Jobs /\ job'.cand = job.cand /\ job'.before = gw
        /\ job'.created = Created
    BY <1>2, <2>1 DEF TypeOK, Jobs
  <2>3. TypeOK'
    BY <1>1, <1>2, <2>1, <2>2 DEF TypeOK, Places
  <2>4. JobInv' /\ PlaceInv'
    BY <1>1, <1>2, <2>2 DEF JobInv, PlaceInv, Preparing
  <2>5. SecretInv' /\ ProfileInv'
    BY <1>1, <1>2, <2>2 DEF SecretInv, ProfileInv, Preparing, Created
  <2> QED BY <2>3, <2>4, <2>5
<1>3. CASE pc' = "idle" /\ UNCHANGED <<job, secrets>>
  BY <1>1, <1>3 DEF TypeOK, JobInv, PlaceInv, SecretInv, ProfileInv, Preparing, Places
<1> QED BY <1>2, <1>3 DEF Deploy, End

LEMMA PrepareKeepsInv ==
    ASSUME PublicationInv, Prepare PROVE PublicationInv'
<1> USE DEF PublicationInv
<1>1. /\ pc = "prepare"
      /\ UNCHANGED <<doc, marker, profiles, deleting, job, gw, up, synced,
                     promised, lost, unseen>>
      /\ staged' \in {staged, job.cand}
  BY DEF Prepare, GwPrepares, gateway, history, End
<1>2. gw = job.before /\ job.created \cap job.before.routes = {} /\ Preparing
  BY <1>1 DEF PlaceInv, SecretInv, Preparing
<1>3. CASE /\ pc' = "activate" /\ kept' = job.cand.routes /\ UNCHANGED secrets
  <2>1. TypeOK'
    BY <1>1, <1>3, JobShape, ConfigShape DEF TypeOK, Places
  <2>2. JobInv' /\ PlaceInv' /\ SecretInv' /\ ProfileInv'
    BY <1>1, <1>2, <1>3 DEF JobInv, PlaceInv, SecretInv, ProfileInv, Preparing
  <2> QED BY <2>1, <2>2
<1>4. CASE /\ pc' = "idle" /\ UNCHANGED kept
           /\ secrets' \in {secrets, secrets \ job.created}
  <2>1. TypeOK'
    BY <1>1, <1>4, JobShape DEF TypeOK, Places
  <2>2. JobInv' /\ PlaceInv' /\ SecretInv' /\ ProfileInv'
    BY <1>1, <1>2, <1>4 DEF JobInv, PlaceInv, SecretInv, ProfileInv, Preparing
  <2> QED BY <2>1, <2>2
<1> QED BY <1>3, <1>4 DEF Prepare, End, Cleanup

LEMMA ActivateKeepsInv ==
    ASSUME PublicationInv, Activate PROVE PublicationInv'
<1> USE DEF PublicationInv
<1>1. /\ pc = "activate"
      /\ UNCHANGED <<doc, marker, profiles, deleting, secrets, job, up,
                     promised, lost, unseen>>
      /\ staged' \in {staged, Missing} /\ synced' \in BOOLEAN
      /\ kept' \in {kept, {}}
      /\ \/ gw' = job.cand /\ pc' \in {"save", "check"}
         \/ gw' = gw /\ pc' \in {"check", "abort"}
  BY DEF Activate, GwActivates, gateway, history, TypeOK
<1>2. gw = job.before /\ job.cand.routes \cup job.before.routes \subseteq secrets /\ Preparing
  BY <1>1 DEF PlaceInv, SecretInv, Preparing
<1>3. TypeOK'
  BY <1>1, JobShape DEF TypeOK, Places
<1>4. ~unseen => job.cand.routes \subseteq profiles \ {deleting}
  BY <1>1 DEF ProfileInv, JobInv
<1>5. JobInv' /\ PlaceInv' /\ SecretInv' /\ ProfileInv'
  BY <1>1, <1>2, <1>4 DEF JobInv, PlaceInv, SecretInv, ProfileInv, Preparing
<1> QED BY <1>3, <1>5

LEMMA CheckKeepsInv ==
    ASSUME PublicationInv, Check PROVE PublicationInv'
<1> USE DEF PublicationInv
<1>1. /\ pc = "check"
      /\ UNCHANGED <<doc, marker, profiles, deleting, secrets, job, gw, staged, up,
                     synced, promised, lost, unseen>>
      /\ kept' \in {kept, {}}
      /\ \/ gw = job.cand /\ pc' = "rollback"
         \/ pc' = "abort"
  BY DEF Check, gateway, history
<1>2. TypeOK'
  BY <1>1 DEF TypeOK, Places
<1>3. JobInv' /\ PlaceInv' /\ SecretInv' /\ ProfileInv'
  BY <1>1 DEF JobInv, PlaceInv, SecretInv, ProfileInv, Preparing
<1> QED BY <1>2, <1>3

\* The document takes the revision that the gateway runs, or the undo begins.
LEMMA SaveKeepsInv ==
    ASSUME PublicationInv, Save PROVE PublicationInv'
<1> USE DEF PublicationInv
<1>1. /\ pc = "save"
      /\ UNCHANGED <<marker, profiles, deleting, kept, gw, staged, up, synced, secrets,
                     job, lost, unseen>>
  BY DEF Save, gateway, End
<1>2. CASE /\ doc' = [doc EXCEPT !.rev = job.cand.rev, !.active = job.cand.group]
           /\ promised' = Reported(doc') /\ pc' = "idle"
  <2>1. /\ doc.rev < MaxRevision /\ job.cand.rev = doc.rev + 1
        /\ job.cand.group \in Groups
        /\ doc.groups[job.cand.group] # Missing
        /\ job.cand.routes = doc.groups[job.cand.group].routes
        /\ gw = job.cand /\ job.cand \in Configs
    BY <1>1, JobShape DEF JobInv, PlaceInv
  <2>2. /\ doc'.rev = job.cand.rev /\ doc'.active = job.cand.group
        /\ doc'.groups = doc.groups
    BY <1>2 DEF TypeOK
  <2>3. doc' \in [rev : 0..MaxRevision + 2, active : Groups \cup {Missing},
                  groups : [Groups -> Group \cup {Missing}]]
    <3>1. doc.rev + 1 \in 0..MaxRevision + 2
      BY <2>1, DocShape, Sentinel
    <3> QED BY <1>2, <2>1, <3>1 DEF TypeOK
  <2>4. promised' = job.cand
    <3>1. job.cand = [rev |-> job.cand.rev, group |-> job.cand.group,
                      routes |-> job.cand.routes]
      BY <2>1 DEF Configs
    <3> QED BY <1>2, <2>1, <2>2, <3>1 DEF Reported
  <2>5. TypeOK'
    BY <1>1, <1>2, <2>1, <2>2, <2>3, <2>4 DEF TypeOK, Places
  <2>6. JobInv' /\ PlaceInv' /\ SecretInv' /\ ProfileInv'
    BY <1>1, <1>2, <2>1, <2>2, <2>4 DEF JobInv, PlaceInv, SecretInv, ProfileInv, Preparing
  <2> QED BY <2>5, <2>6
<1>3. CASE pc' = "rollback" /\ UNCHANGED <<doc, promised>>
  BY <1>1, <1>3 DEF TypeOK, JobInv, PlaceInv, SecretInv, ProfileInv, Preparing, Places
<1> QED BY <1>2, <1>3 DEF Save, End

LEMMA RollbackKeepsInv ==
    ASSUME PublicationInv, Rollback PROVE PublicationInv'
<1> USE DEF PublicationInv
<1>1. /\ pc = "rollback" /\ pc' \in {"r_activate", "mark"}
      /\ UNCHANGED <<doc, marker, profiles, deleting, kept, gw, up, synced, secrets,
                     job, promised, lost, unseen>>
      /\ staged' \in {staged, Compensation}
  BY DEF Rollback, GoTo, GwPrepares, gateway, guardian, history
<1>2. TypeOK'
  BY <1>1, CompensationShape DEF TypeOK, Places
<1>3. JobInv' /\ PlaceInv' /\ SecretInv' /\ ProfileInv'
  BY <1>1 DEF JobInv, PlaceInv, SecretInv, ProfileInv, Preparing
<1> QED BY <1>2, <1>3

LEMMA RollbackActivatesKeepsInv ==
    ASSUME PublicationInv, RollbackActivates PROVE PublicationInv'
<1> USE DEF PublicationInv
<1>1. /\ pc = "r_activate" /\ pc' \in {"r_verify", "mark"}
      /\ UNCHANGED <<doc, marker, profiles, deleting, kept, up, secrets,
                     job, promised, lost, unseen>>
      /\ staged' \in {staged, Missing} /\ synced' \in BOOLEAN
      /\ gw' \in {gw, Compensation}
  BY DEF RollbackActivates, GoTo, GwActivates, gateway, guardian, history, TypeOK
<1>2. /\ Compensation \in Configs /\ Compensation.routes = job.before.routes
  BY <1>1, CompensationShape
<1>3. TypeOK'
  BY <1>1, <1>2 DEF TypeOK, Places
<1>4. JobInv' /\ PlaceInv' /\ SecretInv' /\ ProfileInv'
  BY <1>1, <1>2 DEF JobInv, PlaceInv, SecretInv, ProfileInv, Preparing
<1> QED BY <1>3, <1>4

LEMMA RollbackVerifiesKeepsInv ==
    ASSUME PublicationInv, RollbackVerifies PROVE PublicationInv'
<1> USE DEF PublicationInv
<1>1. /\ pc = "r_verify"
      /\ \/ gw = Compensation /\ pc' = "r_save"
         \/ pc' = "mark"
      /\ UNCHANGED <<doc, marker, profiles, deleting, kept, gw, staged, up, synced, secrets,
                     job, promised, lost, unseen>>
  BY DEF RollbackVerifies, GoTo, gateway, guardian, history
<1>2. TypeOK'
  BY <1>1 DEF TypeOK, Places
<1>3. Compensation' = Compensation
  BY <1>1 DEF Compensation
<1>4. JobInv' /\ PlaceInv' /\ SecretInv' /\ ProfileInv'
  BY <1>1, <1>3 DEF JobInv, PlaceInv, SecretInv, ProfileInv, Preparing
<1> QED BY <1>2, <1>4

\* What was promised before the publication is in force again, two revisions on.
LEMMA SaveCompensationKeepsInv ==
    ASSUME PublicationInv, SaveCompensation PROVE PublicationInv'
<1> USE DEF PublicationInv
<1>1. /\ pc = "r_save"
      /\ UNCHANGED <<marker, profiles, deleting, kept, gw, staged, up, synced, secrets,
                     job, lost, unseen>>
  BY DEF SaveCompensation, gateway, End
<1>2. CASE /\ Compensation.rev = doc.rev + 2
           /\ doc' = [doc EXCEPT !.rev = Compensation.rev]
           /\ promised' = [promised EXCEPT !.rev = doc'.rev] /\ pc' = "idle"
  <2>1. /\ doc.rev < MaxRevision /\ gw = Compensation
        /\ ~lost => job.before = promised
    BY <1>1 DEF JobInv, PlaceInv, Preparing
  <2>2. /\ doc'.rev = Compensation.rev /\ doc'.active = doc.active
        /\ doc'.groups = doc.groups
        /\ Compensation.rev \in 0..MaxRevision + 2
    <3>1. doc.rev + 2 \in 0..MaxRevision + 2
      BY <2>1, DocShape, Sentinel
    <3> QED BY <1>2, <3>1 DEF TypeOK
  <2>3. doc' \in [rev : 0..MaxRevision + 2, active : Groups \cup {Missing},
                  groups : [Groups -> Group \cup {Missing}]]
    BY <1>2, <2>2 DEF TypeOK
  <2>4. /\ promised' \in Configs
        /\ ~lost => promised' = Compensation
    <3>1. promised' = [promised EXCEPT !.rev = Compensation.rev] /\ promised \in Configs
      BY <1>2, <2>2 DEF TypeOK
    <3>2. Compensation.rev \in 0..MaxRevision + 3
      BY <1>1, CompensationShape, ConfigShape
    <3>3. Compensation = [job.before EXCEPT !.rev = Compensation.rev]
      BY <1>1, CompensationShape DEF Compensation
    <3> QED BY <2>1, <3>1, <3>2, <3>3 DEF Configs
  <2>5. TypeOK'
    BY <1>1, <1>2, <2>1, <2>2, <2>3, <2>4 DEF TypeOK, Places
  <2>6. JobInv' /\ PlaceInv' /\ SecretInv' /\ ProfileInv'
    BY <1>1, <1>2, <2>1, <2>2, <2>4 DEF JobInv, PlaceInv, SecretInv, ProfileInv, Preparing
  <2> QED BY <2>5, <2>6
<1>3. CASE pc' = "mark" /\ UNCHANGED <<doc, promised>>
  BY <1>1, <1>3 DEF TypeOK, JobInv, PlaceInv, SecretInv, ProfileInv, Preparing, Places
<1> QED BY <1>2, <1>3 DEF SaveCompensation, End

\* An abort leaves the configuration that was in force: a candidate in force
\* would show by its revision.
LEMMA AbortKeepsInv ==
    ASSUME PublicationInv, Abort PROVE PublicationInv'
<1> USE DEF PublicationInv
<1>1. /\ pc = "abort" /\ pc' \in {"idle", "mark"}
      /\ UNCHANGED <<doc, marker, profiles, deleting, job, gw, up, synced,
                     promised, lost, unseen>>
      /\ staged' \in {staged, Missing} /\ kept' \in {kept, {}}
      /\ \/ /\ gw.rev = job.before.rev /\ pc' = "idle"
            /\ secrets' = secrets \ job.created
         \/ pc' = "mark" /\ UNCHANGED secrets
  BY DEF Abort, GwAborts, Cleanup, VerifiedAt, End, gateway, history
<1>2. /\ gw \in {job.before, job.cand} /\ Preparing
      /\ job.cand.rev > job.before.rev
      /\ job.created \cap job.before.routes = {}
  BY <1>1 DEF PlaceInv, JobInv, SecretInv, Preparing
<1>3. gw.rev = job.before.rev => gw = job.before
  BY <1>2, JobShape, ConfigShape
<1>4. TypeOK'
  BY <1>1 DEF TypeOK, Places
<1>5. JobInv' /\ PlaceInv' /\ SecretInv' /\ ProfileInv'
  BY <1>1, <1>2, <1>3 DEF JobInv, PlaceInv, SecretInv, ProfileInv, Preparing
<1> QED BY <1>4, <1>5

LEMMA MarkKeepsInv ==
    ASSUME PublicationInv, Mark PROVE PublicationInv'
<1> USE DEF PublicationInv
<1>1. /\ pc = "mark" /\ pc' = "idle"
      /\ UNCHANGED <<doc, profiles, deleting, kept, gw, staged, up, synced, secrets, job,
                     promised, unseen>>
      /\ \/ marker' = TRUE /\ lost' = lost
         \/ lost' = TRUE /\ marker' = marker
  BY DEF Mark, End, gateway
<1> QED BY <1>1 DEF TypeOK, JobInv, PlaceInv, SecretInv, ProfileInv, Preparing, Places

\* What dies in the middle is not promised anything.
LEMMA GuardianDiesKeepsInv ==
    ASSUME PublicationInv, GuardianDies PROVE PublicationInv'
<1> USE DEF PublicationInv
<1>1. /\ pc' = "idle" /\ kept' = {} /\ deleting' = Missing
      /\ lost' = (lost \/ pc # "idle")
      /\ UNCHANGED <<doc, marker, profiles, gw, staged, up, synced, secrets, job,
                     promised, unseen>>
  BY DEF GuardianDies, gateway
<1>2. TypeOK'
  BY <1>1 DEF TypeOK, Places
<1>3. JobInv' /\ PlaceInv' /\ SecretInv'
  BY <1>1 DEF JobInv, PlaceInv, SecretInv, Preparing
<1>4. profiles \ {Missing} = profiles
  BY Sentinel DEF TypeOK
<1>5. ProfileInv'
  BY <1>1, <1>4 DEF ProfileInv, Preparing
<1> QED BY <1>2, <1>3, <1>5

\* The guardian looks at every group and at the gateway before it deletes.
LEMMA DeleteProfileChecksKeepsInv ==
    ASSUME PublicationInv, NEW p \in Profiles, DeleteProfileChecks(p)
    PROVE  PublicationInv'
<1> USE DEF PublicationInv
<1>1. PICK readable \in BOOLEAN :
         /\ p \notin Referenced(readable)
         /\ unseen' = (unseen \/ (~readable /\ p \in gw.routes)
                             \/ (pc # "idle" /\ p \in job.before.routes))
  BY DEF DeleteProfileChecks
<1>2. /\ deleting = Missing /\ deleting' = p /\ p \in profiles
      /\ UNCHANGED <<doc, marker, profiles, kept, gw, staged, up, synced, secrets, pc, job,
                     promised, lost>>
  BY DEF DeleteProfileChecks, gateway
<1>3. /\ \A g \in Groups : doc.groups[g] # Missing => p \notin doc.groups[g].routes
      /\ readable => p \notin gw.routes
  BY <1>1 DEF Referenced
<1>4. TypeOK'
  BY <1>1, <1>2 DEF TypeOK
<1>5. JobInv' /\ PlaceInv' /\ SecretInv'
  BY <1>2 DEF JobInv, PlaceInv, SecretInv, Preparing, Compensation
<1>6. ProfileInv'
  BY <1>1, <1>2, <1>3 DEF ProfileInv, Preparing
<1> QED BY <1>4, <1>5, <1>6

LEMMA DeleteProfileSavesKeepsInv ==
    ASSUME PublicationInv, DeleteProfileSaves PROVE PublicationInv'
<1> USE DEF PublicationInv
<1>1. /\ profiles' = profiles \ {deleting} /\ deleting' = Missing
      /\ UNCHANGED <<doc, marker, kept, gw, staged, up, synced, secrets, pc, job,
                     promised, lost, unseen>>
  BY DEF DeleteProfileSaves, gateway, history
<1>2. profiles' \ {deleting'} = profiles \ {deleting}
  BY <1>1, Sentinel DEF TypeOK
<1>3. TypeOK'
  BY <1>1 DEF TypeOK
<1>4. JobInv' /\ PlaceInv' /\ SecretInv'
  BY <1>1 DEF JobInv, PlaceInv, SecretInv, Preparing, Compensation
<1>5. ProfileInv'
  BY <1>1, <1>2 DEF ProfileInv, Preparing
<1> QED BY <1>3, <1>4, <1>5

LEMMA GatewayKeepsInv ==
    ASSUME PublicationInv, Expire \/ GatewayStops \/ GatewayStarts
    PROVE  PublicationInv'
<1> USE DEF PublicationInv
<1>1. /\ UNCHANGED <<doc, marker, profiles, deleting, kept, gw, secrets, pc,
                     promised, lost, unseen>>
      /\ staged' \in {staged, Missing} /\ up' \in BOOLEAN /\ synced' \in BOOLEAN
      /\ job' \in {job, [job EXCEPT !.same = FALSE]}
  BY DEF Expire, GatewayStops, GatewayStarts, guardian, gateway, history, TypeOK
<1>2. /\ job' \in Jobs /\ job'.cand = job.cand /\ job'.before = job.before
      /\ job'.created = job.created
  BY <1>1 DEF TypeOK, Jobs
<1>3. TypeOK'
  BY <1>1, <1>2 DEF TypeOK
<1>4. JobInv' /\ PlaceInv' /\ SecretInv' /\ ProfileInv'
  BY <1>1, <1>2 DEF JobInv, PlaceInv, SecretInv, ProfileInv, Preparing, Compensation
<1> QED BY <1>3, <1>4

-----------------------------------------------------------------------------
(* Publication: its properties *)

LEMMA PublicationInvInit == Init => PublicationInv
<1> SUFFICES ASSUME Init PROVE PublicationInv
  OBVIOUS
<1>1. /\ gw \in Configs /\ gw.rev = 1 /\ gw.routes \subseteq Profiles
      /\ Missing \notin Profiles
  BY ConfigShape, Sentinel DEF Init
<1>2. TypeOK
  <2>1. doc \in [rev : 0..MaxRevision + 2, active : Groups \cup {Missing},
                 groups : [Groups -> Group \cup {Missing}]]
    BY Sentinel DEF Init
  <2>2. job \in Jobs
    BY <1>1 DEF Init, Jobs
  <2> QED BY <1>1, <2>1, <2>2 DEF Init, TypeOK, Places
<1>3. JobInv /\ PlaceInv /\ SecretInv /\ ProfileInv
  BY <1>1 DEF Init, JobInv, PlaceInv, SecretInv, ProfileInv, Preparing
<1> QED BY <1>2, <1>3 DEF PublicationInv

LEMMA StutterKeepsInv ==
    ASSUME PublicationInv, UNCHANGED vars PROVE PublicationInv'
BY DEF PublicationInv, vars, guardian, gateway, history, TypeOK, JobInv, PlaceInv,
       SecretInv, ProfileInv, Preparing, Compensation

LEMMA NextKeepsInv == PublicationInv /\ [Next]_vars => PublicationInv'
<1> SUFFICES ASSUME PublicationInv, [Next]_vars PROVE PublicationInv'
  OBVIOUS
<1>1. CASE \E g \in Groups, v \in Group : CreateGroup(g, v) \/ UpdateGroup(g, v)
  BY <1>1, GroupsKeepInv
<1>2. CASE \E g \in Groups : DeleteGroup(g)
  BY <1>2, GroupsKeepInv
<1>3. CASE \E g \in Groups : Publish(g)
  BY <1>3, PublishKeepsInv
<1>4. CASE PublishStep
  BY <1>4, DeployKeepsInv, PrepareKeepsInv, ActivateKeepsInv, CheckKeepsInv,
     SaveKeepsInv, RollbackKeepsInv, RollbackActivatesKeepsInv,
     RollbackVerifiesKeepsInv, SaveCompensationKeepsInv, AbortKeepsInv,
     MarkKeepsInv DEF PublishStep
<1>5. CASE GuardianDies
  BY <1>5, GuardianDiesKeepsInv
<1>6. CASE \E p \in Profiles : DeleteProfileChecks(p)
  BY <1>6, DeleteProfileChecksKeepsInv
<1>7. CASE DeleteProfileSaves
  BY <1>7, DeleteProfileSavesKeepsInv
<1>8. CASE Expire \/ GatewayStops \/ GatewayStarts
  BY <1>8, GatewayKeepsInv
<1>9. CASE UNCHANGED vars
  BY <1>9, StutterKeepsInv
<1> QED BY <1>1, <1>2, <1>3, <1>4, <1>5, <1>6, <1>7, <1>8, <1>9 DEF Next

\* What the invariant says of a single state.
LEMMA InvGivesReports == PublicationInv => ReportsAreTrue
BY DEF PublicationInv, PlaceInv, ReportsAreTrue

LEMMA InvGivesRoutes == PublicationInv => RoutesAreKept
BY DEF PublicationInv, SecretInv, ProfileInv, Preparing, RoutesAreKept,
       ActiveHasCredentials, ProfilesKept

\* Publication's inductive invariant (publish_group, delete_profile): the
\* document, the gateway, the credentials and the profiles fit each other in
\* every place where a publication can be, or can be cut off.
THEOREM PublicationHolds == Spec => []PublicationInv
<1> QED BY PublicationInvInit, NextKeepsInv, PTL DEF Spec

\* Whatever publish_group reported last, success, compensation or failure, is
\* what the gateway runs, down to the revision.
THEOREM PublicationReports == Spec => []ReportsAreTrue
<1> QED BY PublicationHolds, InvGivesReports, PTL

\* A publication that fails (_cleanup_created) takes no credential of the
\* configuration in force, and delete_profile no profile that it can see used.
THEOREM PublicationKeepsRoutes == Spec => []RoutesAreKept
<1> QED BY PublicationHolds, InvGivesRoutes, PTL

-----------------------------------------------------------------------------
(* Activating the provider and restoring the user's file *)

\* A file, as bytes, is a file.
LEMMA BytesShape ==
    ASSUME NEW c \in Contents \cup {Missing}
    PROVE  /\ Bytes(c) \in Contents /\ Built(c) \in Contents
           /\ Missing \notin Contents /\ Missing \notin Records
           /\ c # Missing => Bytes(c) = c
<1>1. "" \in Texts /\ Missing \notin Contents /\ Missing \notin Records
  BY TextsAssumption
<1>2. Bytes(c) \in Contents
  BY <1>1 DEF Bytes, Contents
<1>3. Bytes(c).text \in Texts
  BY <1>2 DEF Contents
<1> QED BY <1>1, <1>2, <1>3 DEF Bytes, Built, Contents

\* A record names two files and a revision.
LEMMA RecordShape ==
    ASSUME ProviderTypeOK, record # Missing
    PROVE  /\ record \in Records /\ record.status \in {"active", "restored"}
           /\ record.original \in Contents /\ record.active \in Contents
           /\ record.present \in BOOLEAN
BY DEF ProviderTypeOK, Records

LEMMA ActivateBeginsKeepsInv ==
    ASSUME ProviderInv, NEW rev \in 1..MaxRevision, ActivateBegins(rev)
    PROVE  ProviderInv'
<1> USE DEF ProviderInv
<1>1. /\ step = "idle" /\ ~ Conflicts(rev)
      /\ UNCHANGED <<config, record, spoilt>>
  BY DEF ActivateBegins
<1>2. CASE Goes("idle", "active") /\ UNCHANGED <<backup, local, origin>>
  BY <1>1, <1>2 DEF ProviderTypeOK, UnspoiltInv, Goes, Steps, Recorded, Kept,
     Activating, Restoring, Original
<1>3. CASE /\ ~ (Recorded /\ Same(rev))
           /\ backup' = Bytes(config) /\ local' = [current |-> config, rev |-> rev]
           /\ origin' = (IF Bytes(config).gateway THEN origin ELSE config)
           /\ Goes("write", "none")
  <2>1. ~ Recorded
    BY <1>1, <1>3 DEF Conflicts
  <2>2. config \in Contents \cup {Missing} /\ Bytes(config) \in Contents
    BY BytesShape DEF ProviderTypeOK
  <2>3. /\ ProviderTypeOK'
        /\ local' \in [current : Contents \cup {Missing}, rev : 0..MaxRevision]
    BY <1>1, <1>3, <2>2, Sentinel DEF ProviderTypeOK, Goes, Steps
  <2>4. ~spoilt => UnspoiltInv'
    BY <1>1, <1>3, <2>1 DEF UnspoiltInv, Goes, Recorded, Kept, Activating, Restoring
  <2> QED BY <1>1, <1>3, <2>3, <2>4 DEF Goes, Restoring
<1> QED BY <1>2, <1>3 DEF ActivateBegins

LEMMA ActivateRefusedKeepsInv ==
    ASSUME ProviderInv, ActivateRefused PROVE ProviderInv'
BY DEF ProviderInv, ActivateRefused, ProviderTypeOK, UnspoiltInv, Goes, Steps, Recorded,
       Kept, Activating, Restoring, Original

LEMMA WriteProviderKeepsInv ==
    ASSUME ProviderInv, WriteProvider PROVE ProviderInv'
<1>1. Built(local.current) \in Contents
  BY BytesShape DEF ProviderInv
<1> QED BY <1>1 DEF ProviderInv, WriteProvider, ProviderTypeOK, UnspoiltInv, Goes, Steps,
     Recorded, Kept, Activating, Restoring, Original

LEMMA VerifyProviderKeepsInv ==
    ASSUME ProviderInv, VerifyProvider PROVE ProviderInv'
BY DEF ProviderInv, VerifyProvider, ProviderTypeOK, UnspoiltInv, Goes, Steps, Recorded,
       Kept, Activating, Restoring, Original

\* The record names the file that was there, which is beside it already.
LEMMA RecordActivationKeepsInv ==
    ASSUME ProviderInv, RecordActivation PROVE ProviderInv'
<1> USE DEF ProviderInv
<1>1. step = "record" /\ UNCHANGED <<config, backup, local, origin, spoilt>>
  BY DEF RecordActivation
<1>2. CASE /\ record' = [status |-> "active", rev |-> local.rev,
                         present |-> local.current # Missing,
                         original |-> Saved, active |-> Built(local.current)]
           /\ Goes("idle", "active")
  <2>1. Saved \in Contents /\ Built(local.current) \in Contents
    BY BytesShape DEF Saved
  <2>2. record' \in Records
    BY <1>2, <2>1, Sentinel DEF Records
  <2>3. record' # Missing /\ record'.status = "active"
    BY <1>2, <2>2, BytesShape
  <2>4. ProviderTypeOK'
    BY <1>1, <1>2, <2>2 DEF ProviderTypeOK, Goes, Steps
  <2>5. ~spoilt => UnspoiltInv'
    BY <1>1, <1>2, <2>1, <2>3 DEF UnspoiltInv, Goes, Recorded, Kept, Activating, Restoring, Saved
  <2> QED BY <1>1, <1>2, <2>3, <2>4, <2>5 DEF Goes, Restoring
<1>3. CASE UNCHANGED record /\ Goes("undo", "none")
  BY <1>1, <1>3 DEF ProviderTypeOK, UnspoiltInv, Goes, Steps, Recorded, Kept,
     Activating, Restoring
<1> QED BY <1>2, <1>3 DEF RecordActivation

LEMMA UndoActivationKeepsInv ==
    ASSUME ProviderInv, UndoActivation PROVE ProviderInv'
<1>1. /\ Bytes(local.current) \in Contents
      /\ Bytes(Bytes(local.current)) = Bytes(local.current)
  BY BytesShape DEF ProviderInv
<1> QED BY <1>1 DEF ProviderInv, UndoActivation, ProviderTypeOK, UnspoiltInv, Goes, Spoils,
     Steps, Recorded, Kept, Activating, Restoring

LEMMA RestoreBeginsKeepsInv ==
    ASSUME ProviderInv, RestoreBegins PROVE ProviderInv'
<1> USE DEF ProviderInv
<1>1. /\ step = "idle" /\ record # Missing
      /\ UNCHANGED <<config, backup, record, origin, spoilt>>
  BY DEF RestoreBegins
<1>2. CASE Goes("idle", "none") /\ UNCHANGED local
  BY <1>1, <1>2 DEF ProviderTypeOK, UnspoiltInv, Goes, Steps, Recorded, Kept,
     Activating, Restoring
<1>3. CASE /\ record.status # "restored"
           /\ local' = [local EXCEPT !.current = config] /\ Goes("r_write", "none")
  <2>1. Recorded
    BY <1>1, <1>3, RecordShape DEF Recorded
  <2>2. local' \in [current : Contents \cup {Missing}, rev : 0..MaxRevision]
    BY <1>3 DEF ProviderTypeOK
  <2>3. ProviderTypeOK'
    BY <1>1, <1>3 DEF ProviderTypeOK, Goes, Steps
  <2>4. ~spoilt => UnspoiltInv'
    BY <1>1, <1>3, <2>1 DEF UnspoiltInv, Goes, Recorded, Kept, Activating, Restoring
  <2> QED BY <1>1, <2>2, <2>3, <2>4
<1> QED BY <1>2, <1>3 DEF RestoreBegins

LEMMA RestoreWritesKeepsInv ==
    ASSUME ProviderInv, RestoreWrites PROVE ProviderInv'
BY DEF ProviderInv, RestoreWrites, ProviderTypeOK, UnspoiltInv, Goes, Steps, Recorded,
       Kept, Activating, Restoring, Original

LEMMA RestoreVerifiesKeepsInv ==
    ASSUME ProviderInv, RestoreVerifies PROVE ProviderInv'
BY DEF ProviderInv, RestoreVerifies, ProviderTypeOK, UnspoiltInv, Goes, Steps, Recorded,
       Kept, Activating, Restoring, Original

\* The backup is the file the user had, so what was verified is that file.
LEMMA RestoreRecordsKeepsInv ==
    ASSUME ProviderInv, RestoreRecords PROVE ProviderInv'
<1> USE DEF ProviderInv
<1>1. step = "r_record" /\ UNCHANGED <<config, backup, local, origin, spoilt>>
  BY DEF RestoreRecords
<1>2. ~spoilt => config = origin /\ Recorded
  <2>1. origin # Missing => Bytes(origin) = origin
    BY BytesShape DEF ProviderTypeOK
  <2> QED BY <1>1, <2>1 DEF UnspoiltInv, Restoring, Kept, Original
<1>3. CASE record' = [record EXCEPT !.status = "restored"] /\ Goes("idle", "restored")
  <2>1. record # Missing => record' \in Records /\ record'.status = "restored"
    BY <1>3 DEF ProviderTypeOK, Records
  <2>2. record # Missing
    BY <1>1 DEF Restoring
  <2> QED BY <1>1, <1>2, <1>3, <2>1, <2>2 DEF ProviderTypeOK, UnspoiltInv, Goes, Steps,
       Recorded, Kept, Activating, Restoring
<1>4. CASE UNCHANGED record /\ Goes("r_undo", "none")
  BY <1>1, <1>4 DEF ProviderTypeOK, UnspoiltInv, Goes, Steps, Recorded, Kept,
     Activating, Restoring
<1> QED BY <1>3, <1>4 DEF RestoreRecords

LEMMA UndoRestoreKeepsInv ==
    ASSUME ProviderInv, UndoRestore PROVE ProviderInv'
BY DEF ProviderInv, UndoRestore, ProviderTypeOK, UnspoiltInv, Goes, Spoils, Steps,
       Recorded, Kept, Activating, Restoring

LEMMA ActivationDiesKeepsInv ==
    ASSUME ProviderInv, ActivationDies PROVE ProviderInv'
BY DEF ProviderInv, ActivationDies, ProviderTypeOK, Goes, Spoils, Steps, Restoring

LEMMA ProfileSwitchedKeepsInv ==
    ASSUME ProviderInv, ProfileSwitched PROVE ProviderInv'
<1>1. Bytes(config') = config' /\ ~config'.gateway /\ config' \in Contents
  BY BytesShape DEF ProfileSwitched
<1> QED BY <1>1 DEF ProviderInv, ProfileSwitched, ProviderTypeOK, UnspoiltInv, Goes, Spoils,
     Steps, Recorded, Kept, Activating, Restoring

\* Once another operation has written, the types are all that is left to keep.
LEMMA InterferesKeepsInv ==
    ASSUME ProviderInv, gw \in Configs, Interferes PROVE ProviderInv'
<1>1. /\ step # "idle" /\ step' = step /\ told' = "none" /\ spoilt' = TRUE
      /\ UNCHANGED <<local, origin>>
  BY DEF Interferes, Goes, Spoils
<1>2. /\ config \in Contents \cup {Missing} /\ backup \in Contents \cup {Missing}
      /\ record \in Records \cup {Missing} /\ Missing \notin Records
  BY TextsAssumption DEF ProviderInv, ProviderTypeOK
<1>3. config' \in Contents \cup {Missing} /\ backup' \in Contents \cup {Missing}
  BY <1>2, BytesShape DEF Interferes
<1>4. record' = record \/ record' \in Records
  <2>1. CASE record' = record
    BY <2>1
  <2>2. CASE /\ backup # Missing
             /\ record' \in [status : {"active", "restored"}, rev : {gw.rev},
                             present : BOOLEAN, original : {backup}, active : {Built(backup)}]
    <3>1. backup \in Contents /\ Built(backup) \in Contents /\ gw.rev \in 0..MaxRevision + 3
        BY <1>2, <2>2, BytesShape DEF Configs
    <3> QED BY <2>2, <3>1 DEF Records
  <2> QED BY <2>1, <2>2 DEF Interferes
<1>5. ProviderTypeOK'
  BY <1>1, <1>2, <1>3, <1>4 DEF ProviderInv, ProviderTypeOK
<1>6. Restoring' => record' # Missing
  BY <1>1, <1>2, <1>4 DEF ProviderInv, Restoring
<1> QED BY <1>1, <1>5, <1>6 DEF ProviderInv

LEMMA ProviderStepKeepsInv ==
    ASSUME ProviderInv, gw \in Configs, ProviderStep PROVE ProviderInv'
BY ActivateBeginsKeepsInv, ActivateRefusedKeepsInv, WriteProviderKeepsInv,
   VerifyProviderKeepsInv, RecordActivationKeepsInv, UndoActivationKeepsInv,
   RestoreBeginsKeepsInv, RestoreWritesKeepsInv, RestoreVerifiesKeepsInv,
   RestoreRecordsKeepsInv, UndoRestoreKeepsInv, ActivationDiesKeepsInv,
   ProfileSwitchedKeepsInv, InterferesKeepsInv DEF ProviderStep

LEMMA ProviderStutter ==
    ASSUME ProviderInv, UNCHANGED providerVars PROVE ProviderInv'
BY DEF ProviderInv, providerVars, ProviderTypeOK, UnspoiltInv, Recorded, Kept,
       Activating, Restoring, Original

\* A publication of the same routes is a publication like any other.
LEMMA PublishedKeepsInv ==
    ASSUME PublicationInv, pc = "idle", Published
    PROVE  PublicationInv' /\ pc' = "idle"
<1> USE DEF PublicationInv
<1>1. /\ gw.rev < MaxRevision /\ gw' = [gw EXCEPT !.rev = gw.rev + 1]
      /\ promised' = gw' /\ doc' = [doc EXCEPT !.rev = gw'.rev]
      /\ UNCHANGED <<marker, profiles, deleting, kept, staged, up, synced, secrets,
                     pc, job, lost, unseen>>
  BY DEF Published
<1>2. /\ gw.rev + 1 \in 0..MaxRevision + 3 /\ gw.rev + 1 \in 0..MaxRevision + 2
  BY <1>1, JobShape, ConfigShape, Sentinel
<1>3. gw' \in Configs /\ gw'.rev = gw.rev + 1 /\ gw'.routes = gw.routes
  BY <1>1, <1>2, JobShape DEF Configs
<1>4. /\ doc' \in [rev : 0..MaxRevision + 2, active : Groups \cup {Missing},
                   groups : [Groups -> Group \cup {Missing}]]
      /\ doc'.groups = doc.groups /\ doc'.active = doc.active
  BY <1>1, <1>2, <1>3 DEF TypeOK
<1>5. TypeOK'
  BY <1>1, <1>3, <1>4 DEF TypeOK
<1>6. JobInv' /\ PlaceInv' /\ SecretInv' /\ ProfileInv'
  BY <1>1, <1>3, <1>4 DEF JobInv, PlaceInv, SecretInv, ProfileInv, Preparing
<1> QED BY <1>1, <1>5, <1>6

LEMMA BothInvInit == BothInit => BothInv
<1> SUFFICES ASSUME BothInit PROVE BothInv
  OBVIOUS
<1>1. PublicationInv /\ pc = "idle" /\ about \in {"publication", "provider"}
  BY PublicationInvInit DEF BothInit, Init
<1>2. ~Bytes(Missing).gateway /\ ~Bytes(config).gateway
      /\ config \in Contents \cup {Missing}
  BY BytesShape DEF BothInit, Bytes
<1>3. ProviderInv
  <2>1. ProviderTypeOK
    BY <1>2 DEF BothInit, ProviderTypeOK, Steps
  <2>2. local \in [current : Contents \cup {Missing}, rev : 0..MaxRevision]
    BY Sentinel DEF BothInit, NoLocal
  <2>3. ~ Recorded /\ ~ Activating /\ ~ Restoring
    BY DEF BothInit, Recorded, Activating, Restoring
  <2>4. UnspoiltInv
    BY <1>2, <2>3 DEF BothInit, UnspoiltInv
  <2> QED BY <2>1, <2>2, <2>3, <2>4 DEF ProviderInv
<1> QED BY <1>1, <1>3 DEF BothInv

LEMMA BothNextKeepsInv ==
    BothInv /\ [ProviderNext /\ UNCHANGED about]_bothVars => BothInv'
<1> SUFFICES ASSUME BothInv, [ProviderNext /\ UNCHANGED about]_bothVars PROVE BothInv'
  OBVIOUS
<1> USE DEF BothInv
<1>1. CASE about = "publication" /\ Next /\ UNCHANGED providerVars /\ UNCHANGED about
  BY <1>1, NextKeepsInv, ProviderStutter
<1>2. CASE about = "provider" /\ ProviderStep /\ UNCHANGED vars /\ UNCHANGED about
  <2>1. pc' = pc
    BY <1>2 DEF vars
  <2>2. gw \in Configs
    BY DEF PublicationInv, TypeOK
  <2> QED BY <1>2, <2>1, <2>2, StutterKeepsInv, ProviderStepKeepsInv
<1>3. CASE /\ about = "provider" /\ (Published \/ GatewayStops \/ GatewayStarts)
           /\ UNCHANGED providerVars /\ UNCHANGED about
  <2>1. CASE Published
    BY <1>3, <2>1, PublishedKeepsInv, ProviderStutter
  <2>2. CASE GatewayStops \/ GatewayStarts
    <3>1. pc' = pc
      BY <2>2 DEF GatewayStops, GatewayStarts
    <3> QED BY <1>3, <2>2, <3>1, GatewayKeepsInv, ProviderStutter
  <2> QED BY <1>3, <2>1, <2>2
<1>4. CASE UNCHANGED bothVars
  <2>1. UNCHANGED vars /\ UNCHANGED providerVars /\ UNCHANGED about /\ pc' = pc
    BY <1>4 DEF bothVars, vars
  <2> QED BY <2>1, StutterKeepsInv, ProviderStutter
<1> QED BY <1>1, <1>2, <1>3, <1>4 DEF ProviderNext

LEMMA InvGivesOriginal == ProviderInv => OriginalComesBack
BY DEF ProviderInv, UnspoiltInv, Kept, OriginalComesBack, ActiveCanBeRestored,
       RestoreIsOriginal

\* The inductive invariant of publications and of activate and restore.
THEOREM BothHold == BothSpec => []BothInv
<1> QED BY BothInvInit, BothNextKeepsInv, PTL DEF BothSpec

\* Over any sequence of activations and restores: while an activation is recorded
\* the user's config.toml lies beside it, and a restore that reports success has
\* put that very file back (provider_activation.py, activate and restore).  Nothing
\* locks them, so it says this only of operations that do not overlap with one
\* another or with a switch, and that no death or failed undo cut off.
THEOREM OriginalIsKept == BothSpec => []OriginalComesBack
<1>1. BothInv => OriginalComesBack
  BY InvGivesOriginal DEF BothInv
<1> QED BY <1>1, BothHold, PTL

\* Both properties of the publication also hold beside the activation.
THEOREM PublicationBesideProvider == BothSpec => [](ReportsAreTrue /\ RoutesAreKept)
<1>1. BothInv => ReportsAreTrue /\ RoutesAreKept
  BY InvGivesReports, InvGivesRoutes DEF BothInv
<1> QED BY <1>1, BothHold, PTL

=============================================================================
