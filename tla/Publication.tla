----------------------------- MODULE Publication -----------------------------
(***************************************************************************)
(* Publishing a failover group: the management service and its document    *)
(* (backend/failover.py), the controller that talks to the running gateway *)
(* (backend/gateway_controller.py) and the deletion of a profile           *)
(* (backend/guardian.py), which has a lock of its own.                     *)
(*                                                                         *)
(* The gateway is here as a register with one staged candidate; its own    *)
(* transaction is ConfigTransaction.  It handles the requests of the       *)
(* control channel one at a time, and a request whose client has given up  *)
(* is cancelled (gateway/control.py), so a request has taken effect when   *)
(* the next one is answered, or never will; the answer may be lost.        *)
(***************************************************************************)
EXTENDS Naturals, FiniteSets

CONSTANTS
    Groups,       \* failover groups
    Profiles,     \* API profiles
    MaxRevision,  \* bound: revisions of the document
    Missing       \* no group, no candidate, no profile

\* _normalize_group: two distinct profiles.
Routes == {s \in SUBSET Profiles : Cardinality(s) = 2}
Group  == [on : BOOLEAN, routes : Routes]

\* What the gateway runs; Missing is the group it was installed with.
Configs == [rev : 0..MaxRevision + 3, group : Groups \cup {Missing},
            routes : Routes]

\* Missing stands for what is not there, so it is none of these.
ASSUME PublicationAssumption ==
    /\ MaxRevision \in Nat /\ IsFiniteSet(Profiles)
    /\ Missing \notin Groups \cup Profiles \cup Group \cup Configs

VARIABLES
    doc,       \* failover-groups.json: revision, active_group_id, groups
    marker,    \* failover-groups.json.state-uncertain.json
    profiles,  \* the API profiles in the guardian's state
    deleting,  \* the profile delete_profile has found unreferenced
    gw,        \* the gateway's configuration, in force and in active.json
    staged,    \* the gateway's prepared candidate
    up,        \* the gateway answers
    synced,    \* runtime.json names the revision in force
    secrets,   \* profiles whose credential is deployed to the gateway
    kept,      \* profiles of the controller's _prepared record
    pc,        \* where publish_group is
    job,       \* its local variables
    promised,  \* history: the configuration the last publication answered for
    lost,      \* history: the guardian died in a publication, or could not
               \* write the marker
    unseen     \* history: a profile was found unreferenced while a group
               \* came to name it, while active.json could not be read, or
               \* while a rollback was to bring it back

guardian == <<doc, marker, profiles, deleting, kept>>
gateway  == <<gw, staged, up, synced>>
history  == <<promised, lost, unseen>>
vars == <<guardian, gateway, secrets, pc, job, history>>

Places == {"idle", "deploy", "prepare", "activate", "check", "save",
           "rollback", "r_activate", "r_verify", "r_save", "abort", "mark"}

\* cand: the candidate; before: the configuration it replaces; created: the
\* credentials deployed for it; same: the gateway has not been restarted.
Jobs == [cand : Configs, before : Configs, created : SUBSET Profiles,
         same : BOOLEAN]

\* Every variable has its type, and the document passes its own validation.
TypeOK ==
    /\ doc \in [rev : 0..MaxRevision + 2, active : Groups \cup {Missing},
                groups : [Groups -> Group \cup {Missing}]]
    /\ doc.active # Missing => doc.groups[doc.active] # Missing
    /\ marker \in BOOLEAN /\ profiles \subseteq Profiles
    /\ deleting \in Profiles \cup {Missing}
    /\ gw \in Configs /\ staged \in Configs \cup {Missing}
    /\ up \in BOOLEAN /\ synced \in BOOLEAN
    /\ secrets \subseteq Profiles /\ kept \subseteq Profiles
    /\ pc \in Places /\ job \in Jobs
    /\ promised \in Configs /\ lost \in BOOLEAN /\ unseen \in BOOLEAN

Init ==
    /\ doc = [rev |-> 0, active |-> Missing, groups |-> [g \in Groups |-> Missing]]
    /\ marker = FALSE /\ profiles = Profiles /\ deleting = Missing
    /\ gw \in {c \in Configs : c.rev = 1 /\ c.group = Missing}
    /\ staged = Missing /\ up = TRUE /\ synced = TRUE
    /\ secrets = gw.routes /\ kept = {}
    /\ pc = "idle"
    /\ job = [cand |-> gw, before |-> gw, created |-> {}, same |-> TRUE]
    /\ promised = gw /\ lost = FALSE /\ unseen = FALSE

-----------------------------------------------------------------------------
(* The gateway, as the control channel shows it *)

\* prepare_config: nothing else is staged, and both credentials are there.
GwPrepares(c) ==
    /\ up /\ c.routes \subseteq secrets /\ c.rev > gw.rev
    /\ staged \in {Missing, c}
    /\ staged' = c /\ UNCHANGED <<gw, up, synced>>

\* activate_config; the descriptor may not be written.
GwActivates(c) ==
    /\ up
    /\ \/ staged = c /\ gw' = c /\ staged' = Missing /\ synced' \in BOOLEAN
       \/ gw = c /\ UNCHANGED <<gw, staged, synced>>
    /\ UNCHANGED up

\* abort_config
GwAborts(c) == up /\ staged \in {Missing, c} /\ staged' = Missing
               /\ UNCHANGED <<gw, up, synced>>

\* A candidate expires; a restarted gateway may have lost it.
Expire ==
    /\ staged # Missing /\ staged' = Missing
    /\ UNCHANGED <<guardian, gw, up, synced, secrets, pc, job, history>>

GatewayStops ==
    /\ up /\ up' = FALSE
    /\ job' = [job EXCEPT !.same = FALSE]
    /\ UNCHANGED <<guardian, gw, staged, synced, secrets, pc, history>>

GatewayStarts ==
    /\ ~up /\ up' = TRUE /\ synced' = TRUE
    /\ UNCHANGED <<guardian, gw, staged, secrets, pc, job, history>>

-----------------------------------------------------------------------------
(* The groups *)

\* store.save.  It may fail, and then nothing has changed.
SaveGroups(groups, named) ==
    /\ pc = "idle" /\ doc.rev < MaxRevision
    /\ doc' = [doc EXCEPT !.rev = doc.rev + 1, !.groups = groups]
    /\ unseen' = (unseen \/ deleting \in named)
    /\ UNCHANGED <<marker, profiles, deleting, kept, gateway, secrets, pc, job,
                   promised, lost>>

CreateGroup(g, v) ==
    /\ doc.groups[g] = Missing /\ v.routes \subseteq profiles
    /\ SaveGroups([doc.groups EXCEPT ![g] = v], v.routes)

\* The active group may not be disabled; what has not changed is not saved.
UpdateGroup(g, v) ==
    /\ doc.groups[g] \notin {Missing, v} /\ v.routes \subseteq profiles
    /\ doc.active = g /\ doc.groups[g].on => v.on
    /\ SaveGroups([doc.groups EXCEPT ![g] = v], v.routes)

DeleteGroup(g) ==
    /\ doc.groups[g] # Missing /\ doc.active # g
    /\ SaveGroups([doc.groups EXCEPT ![g] = Missing], {})

-----------------------------------------------------------------------------
(* publish_group *)

GoTo(place) == pc' = place /\ UNCHANGED <<guardian, secrets, job, history>>
End == pc' = "idle" /\ UNCHANGED job

\* _verified_runtime; the request may always fail.
Verified == up /\ synced
VerifiedAt(rev) == Verified /\ gw.rev = rev

\* assert_publish_allowed, _load_expected, _materialize_candidate.
Publish(g) ==
    /\ pc = "idle" /\ ~marker /\ doc.rev < MaxRevision
    /\ doc.groups[g] # Missing /\ doc.groups[g].on
    /\ doc.groups[g].routes \subseteq profiles
    /\ job' = [job EXCEPT !.cand = [rev |-> doc.rev + 1, group |-> g,
                                    routes |-> doc.groups[g].routes]]
    /\ pc' = "deploy"
    /\ UNCHANGED <<guardian, gateway, secrets, history>>

BadCreated == job.cand.routes

\* The credentials that are not deployed yet.
Created == job.cand.routes \ secrets

\* prepare, up to its request: refused when the document lags behind the
\* gateway, or a credential cannot be read.
Deploy ==
    /\ pc = "deploy"
    /\ \/ /\ Verified /\ job.cand.rev > gw.rev /\ job.cand.routes \subseteq profiles
          /\ secrets' = secrets \cup job.cand.routes
          /\ job' = [job EXCEPT !.created = Created, !.before = gw, !.same = TRUE]
          /\ pc' = "prepare"
       \/ End /\ UNCHANGED secrets
    /\ UNCHANGED <<guardian, gateway, history>>

\* _cleanup_created; an unlink may fail.
Cleanup(ok) == secrets' = IF ok THEN secrets \ job.created ELSE secrets

\* The rest of prepare: its request is granted, refused, or its answer lost.
Prepare ==
    /\ pc = "prepare"
    /\ \/ /\ GwPrepares(job.cand)
          /\ pc' = "activate" /\ kept' = job.cand.routes
          /\ UNCHANGED <<job, secrets>>
       \/ /\ GwPrepares(job.cand) \/ UNCHANGED gateway
          /\ \E ok \in BOOLEAN : Cleanup(ok)
          /\ End /\ UNCHANGED kept
    /\ UNCHANGED <<doc, marker, profiles, deleting, history>>

\* activate.  An error before the request needs no check.
Activate ==
    /\ pc = "activate"
    /\ \/ /\ VerifiedAt(job.before.rev) /\ GwActivates(job.cand)
          /\ \/ pc' = "save" /\ kept' = {}
             \/ pc' = "check" /\ UNCHANGED kept
       \/ VerifiedAt(job.before.rev) /\ pc' = "check" /\ UNCHANGED <<gateway, kept>>
       \/ pc' = "abort" /\ UNCHANGED <<gateway, kept>>
    /\ UNCHANGED <<doc, marker, profiles, deleting, secrets, job, history>>

\* The answer is lost: does the gateway report the candidate in force?
Check ==
    /\ pc = "check"
    /\ \/ up /\ gw = job.cand /\ pc' = "rollback" /\ kept' = {}
       \/ pc' = "abort" /\ UNCHANGED kept
    /\ UNCHANGED <<doc, marker, profiles, deleting, gateway, secrets, job, history>>

\* What the document says is in force.
Reported(d) == [rev |-> d.rev, group |-> d.active, routes |-> d.groups[d.active].routes]

\* The overview that the answer carries may fail after the save: publish_group
\* raises then, and what the document names as published is in force.
Save ==
    /\ pc = "save"
    /\ \/ /\ doc' = [doc EXCEPT !.rev = job.cand.rev, !.active = job.cand.group]
          /\ promised' = Reported(doc') /\ End
       \/ pc' = "rollback" /\ UNCHANGED <<doc, promised, job>>
    /\ UNCHANGED <<marker, profiles, deleting, kept, gateway, secrets, lost, unseen>>

\* The previous configuration again, with a revision of its own.
Compensation == [job.before EXCEPT !.rev = job.cand.rev + 1]

\* rollback: only over the very activation it undoes.
Rollback ==
    /\ pc = "rollback"
    /\ \/ /\ Verified /\ job.same /\ gw = job.cand
          /\ \/ GwPrepares(Compensation) /\ GoTo("r_activate")
             \/ GwPrepares(Compensation) /\ GoTo("mark")
       \/ UNCHANGED gateway /\ GoTo("mark")

RollbackActivates ==
    /\ pc = "r_activate"
    /\ \/ GwActivates(Compensation) /\ (GoTo("r_verify") \/ GoTo("mark"))
       \/ UNCHANGED gateway /\ GoTo("mark")

RollbackVerifies ==
    /\ pc = "r_verify"
    /\ \/ Verified /\ job.same /\ gw = Compensation /\ GoTo("r_save")
       \/ GoTo("mark")
    /\ UNCHANGED gateway

\* save_compensation: the group that was active stays active.
SaveCompensation ==
    /\ pc = "r_save"
    /\ \/ /\ Compensation.rev = doc.rev + 2
          /\ doc' = [doc EXCEPT !.rev = Compensation.rev]
          /\ promised' = [promised EXCEPT !.rev = doc'.rev] /\ End
       \/ pc' = "mark" /\ UNCHANGED <<doc, promised, job>>
    /\ UNCHANGED <<marker, profiles, deleting, kept, gateway, secrets, lost, unseen>>

BadAbort ==
    /\ pc = "abort"
    /\ \/ /\ up /\ GwAborts(job.cand) /\ kept' = {}
          /\ \/ Cleanup(TRUE) /\ End
             \/ Cleanup(FALSE) /\ pc' = "mark" /\ UNCHANGED job
       \/ /\ GwAborts(job.cand) \/ UNCHANGED gateway
          /\ pc' = "mark" /\ UNCHANGED <<kept, secrets, job>>
    /\ UNCHANGED <<doc, marker, profiles, deleting, history>>

\* abort: only while the revision it replaces is still in force.
Abort ==
    /\ pc = "abort"
    /\ \/ /\ VerifiedAt(job.before.rev) /\ GwAborts(job.cand) /\ kept' = {}
          /\ \/ Cleanup(TRUE) /\ End
             \/ Cleanup(FALSE) /\ pc' = "mark" /\ UNCHANGED job
       \/ /\ (VerifiedAt(job.before.rev) /\ GwAborts(job.cand)) \/ UNCHANGED gateway
          /\ pc' = "mark" /\ UNCHANGED <<kept, secrets, job>>
    /\ UNCHANGED <<doc, marker, profiles, deleting, history>>

\* mark_state_uncertain: from now on nothing is published.
Mark ==
    /\ pc = "mark" /\ End
    /\ \/ marker' = TRUE /\ UNCHANGED lost
       \/ lost' = TRUE /\ UNCHANGED marker
    /\ UNCHANGED <<doc, profiles, deleting, kept, gateway, secrets, promised, unseen>>

\* The guardian dies and is started again.
GuardianDies ==
    /\ pc # "idle" \/ deleting # Missing \/ kept # {}
    /\ pc' = "idle" /\ kept' = {} /\ deleting' = Missing
    /\ lost' = (lost \/ pc # "idle")
    /\ UNCHANGED <<doc, marker, profiles, gateway, secrets, job, promised, unseen>>

-----------------------------------------------------------------------------
(* Profiles *)

\* referenced_profile_ids of the service and of the controller; an active.json
\* that cannot be read counts for nothing.
Referenced(readable) ==
    (UNION {doc.groups[g].routes : g \in {h \in Groups : doc.groups[h] # Missing}})
    \cup kept \cup (IF readable THEN gw.routes ELSE {})

\* delete_profile looks at the groups under the guardian's lock, not the
\* service's, and saves the profiles without it later.
DeleteProfileChecks(p) ==
    /\ deleting = Missing /\ p \in profiles
    /\ \E readable \in BOOLEAN :
          /\ p \notin Referenced(readable)
          /\ unseen' = (unseen \/ (~readable /\ p \in gw.routes)
                              \/ (pc # "idle" /\ p \in job.before.routes))
    /\ deleting' = p
    /\ UNCHANGED <<doc, marker, profiles, kept, gateway, secrets, pc, job, promised, lost>>

DeleteProfileSaves ==
    /\ deleting # Missing
    /\ profiles' = profiles \ {deleting} /\ deleting' = Missing
    /\ UNCHANGED <<doc, marker, kept, gateway, secrets, pc, job, history>>

-----------------------------------------------------------------------------
PublishStep ==
    \/ Deploy \/ Prepare \/ Activate \/ Check \/ Save
    \/ Rollback \/ RollbackActivates \/ RollbackVerifies \/ SaveCompensation
    \/ Abort \/ Mark

Next ==
    \/ \E g \in Groups, v \in Group : CreateGroup(g, v) \/ UpdateGroup(g, v)
    \/ \E g \in Groups : DeleteGroup(g) \/ Publish(g)
    \/ PublishStep \/ GuardianDies
    \/ \E p \in Profiles : DeleteProfileChecks(p)
    \/ DeleteProfileSaves
    \/ Expire \/ GatewayStops \/ GatewayStarts

Spec == Init /\ [][Next]_vars

-----------------------------------------------------------------------------
(* Properties *)

\* What the last publication answered for, success, compensation or failure, is
\* what the gateway runs, down to the revision; when publish_group cannot tell
\* it has forbidden the next publication.  (Not the error of an overview that
\* fails after a successful save: the document, not the answer, is right then.)
ReportsAreTrue == pc = "idle" /\ ~marker /\ ~lost => gw = promised

\* The credentials of the configuration in force stay deployed: the cleanup
\* after a failed publication takes none of them, nor of the one to go back to.
ActiveHasCredentials ==
    /\ gw.routes \subseteq secrets
    /\ pc \in {"prepare", "activate", "check", "save", "rollback"} =>
          job.before.routes \subseteq secrets

\* A profile that a group names or the gateway uses is not deleted, unless the
\* deletion could not see it.
ProfilesKept ==
    ~unseen => /\ gw.routes \subseteq profiles
               /\ \A g \in Groups : doc.groups[g] # Missing =>
                     doc.groups[g].routes \subseteq profiles

\* The inductive invariant.  A publication under way works on the document it
\* read, and holds the configuration it replaces while it holds a candidate.
Preparing == pc \notin {"idle", "deploy"}
JobInv ==
    /\ pc # "idle" =>
          /\ doc.rev < MaxRevision /\ job.cand.rev = doc.rev + 1
          /\ job.cand.group \in Groups
          /\ doc.groups[job.cand.group] # Missing
          /\ job.cand.routes = doc.groups[job.cand.group].routes
    /\ Preparing => job.cand.rev > job.before.rev

\* Where the gateway is in each place, and what was promised before.
PlaceInv ==
    /\ pc \in {"prepare", "activate"} => gw = job.before
    /\ pc \in {"check", "abort"} => gw \in {job.before, job.cand}
    /\ pc \in {"save", "rollback"} => gw = job.cand
    /\ pc = "r_save" => gw = Compensation
    /\ ~lost =>
          /\ pc = "idle" /\ ~marker => gw = promised
          /\ pc = "deploy" => gw = promised
          /\ Preparing => job.before = promised

\* The credentials that a cleanup takes are not those to go back to.
SecretInv ==
    /\ gw.routes \subseteq secrets
    /\ Preparing => /\ job.before.routes \cup job.cand.routes \subseteq secrets
                    /\ job.created \cap job.before.routes = {}

\* Nobody names the profile that is being deleted.
ProfileInv ==
    ~unseen =>
        /\ gw.routes \subseteq profiles \ {deleting}
        /\ Preparing => job.before.routes \subseteq profiles \ {deleting}
        /\ \A g \in Groups : doc.groups[g] # Missing =>
              doc.groups[g].routes \subseteq profiles \ {deleting}

PublicationInv == TypeOK /\ JobInv /\ PlaceInv /\ SecretInv /\ ProfileInv

\* What the gateway uses, or will go back to, is not taken away from it.
RoutesAreKept == ActiveHasCredentials /\ ProfilesKept
=============================================================================
