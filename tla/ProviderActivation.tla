------------------------- MODULE ProviderActivation -------------------------
(***************************************************************************)
(* Pointing Codex at the gateway and back (backend/provider_activation.py):*)
(* activate replaces config.toml by one that names the gateway and keeps   *)
(* the old one beside it, restore puts it back.  Both are undone when one  *)
(* of their steps fails.  They hold no lock, and the server has a thread   *)
(* for every request: a switch of the profile, or another activate or      *)
(* restore, may write the same files between two of their steps.  One      *)
(* operation is followed here; what such a writer does is Interferes, and  *)
(* `spoilt` says that it did.                                              *)
(*                                                                         *)
(* The gateway is the one of Publication, seen through its status; here a  *)
(* publication is one step.  `about` says which of the two is looked at.   *)
(***************************************************************************)
EXTENDS Publication

CONSTANT Texts  \* what a user keeps in config.toml; "" is an empty file

\* A file is the user's own or names the gateway; Missing is no file.
Contents == [gateway : BOOLEAN, text : Texts]
Records  == [status : {"active", "restored"}, rev : 0..MaxRevision + 3,
             present : BOOLEAN, original : Contents, active : Contents]

ASSUME TextsAssumption ==
    "" \in Texts /\ Missing \notin Texts \cup Contents \cup Records

VARIABLES
    about,   \* "publication" or "provider"
    config,  \* config.toml
    backup,  \* config-before.toml
    record,  \* state.json
    step,    \* where activate or restore is
    local,   \* its local variables
    told,    \* what the last one reported
    origin,  \* history: the user's file when it was last activated
    spoilt   \* history: a step was cut off by a death, the undo failed, or a
             \* switch or another activate or restore came in between

providerVars == <<config, backup, record, step, local, told, origin, spoilt>>
bothVars == <<vars, about, providerVars>>

Steps == {"idle", "write", "verify", "record", "undo",
          "r_write", "r_verify", "r_record", "r_undo"}

\* Every variable of the activation has its type.
ProviderTypeOK ==
    /\ config \in Contents \cup {Missing} /\ backup \in Contents \cup {Missing}
    /\ record \in Records \cup {Missing} /\ step \in Steps
    /\ told \in {"none", "active", "restored", "refused", "failed"}
    /\ origin \in Contents \cup {Missing} /\ spoilt \in BOOLEAN

NoLocal == [current |-> Missing, rev |-> 0]

BothInit ==
    /\ Init
    /\ about \in {"publication", "provider"}
    /\ config \in IF about = "provider"
                  THEN {Missing} \cup {c \in Contents : ~c.gateway} ELSE {Missing}
    /\ backup = Missing /\ record = Missing /\ step = "idle" /\ local = NoLocal
    /\ told = "none" /\ origin = Missing /\ spoilt = FALSE

-----------------------------------------------------------------------------
\* _validated_gateway
Ready(rev) == up /\ gw.rev = rev

\* The bytes of a file; one that is not there reads as empty.
Bytes(c) == IF c = Missing THEN [gateway |-> FALSE, text |-> ""] ELSE c

\* _build_config: the old block goes, the new one comes, the rest stays.
Built(c) == [gateway |-> TRUE, text |-> Bytes(c).text]

Goes(place, report) == step' = place /\ told' = report
Spoils(b) == spoilt' = (spoilt \/ b)

\* The activation that is recorded is the one asked for.
Same(rev) == record.rev = rev /\ record.active = Bytes(config)
Recorded == record # Missing /\ record.status = "active"

BadConflicts(rev) == FALSE

\* An activation that is recorded forbids another one.
Conflicts(rev) == Recorded /\ ~ Same(rev)

ActivateBegins(rev) ==
    /\ step = "idle" /\ Ready(rev) /\ ~ Conflicts(rev)
    /\ IF Recorded /\ Same(rev)
       THEN Goes("idle", "active") /\ UNCHANGED <<backup, local, origin>>
       ELSE /\ backup' = Bytes(config)
            /\ local' = [current |-> config, rev |-> rev]
            /\ origin' = (IF Bytes(config).gateway THEN origin ELSE config)
            /\ Goes("write", "none")
    /\ UNCHANGED <<config, record, spoilt>>

\* The gateway is not ready, the activation conflicts, or the backup or the new
\* file cannot be made: nothing is touched.
ActivateRefused ==
    /\ step = "idle" /\ Goes("idle", "refused")
    /\ UNCHANGED <<config, backup, record, local, origin, spoilt>>

WriteProvider ==
    /\ step = "write"
    /\ \/ config' = Built(local.current) /\ Goes("verify", "none")
       \/ UNCHANGED config /\ Goes("undo", "none")
    /\ UNCHANGED <<backup, record, local, origin, spoilt>>

\* _verify_active_config, and the gateway is still the one it was.
VerifyProvider ==
    /\ step = "verify"
    /\ \/ config = Built(local.current) /\ Ready(local.rev) /\ Goes("record", "none")
       \/ Goes("undo", "none")
    /\ UNCHANGED <<config, backup, record, local, origin, spoilt>>

\* The file to go back to, by its hash.
Saved == Bytes(local.current)

RecordActivation ==
    /\ step = "record"
    /\ \/ /\ record' = [status |-> "active", rev |-> local.rev,
                        present |-> local.current # Missing,
                        original |-> Saved, active |-> Built(local.current)]
          /\ Goes("idle", "active")
       \/ UNCHANGED record /\ Goes("undo", "none")
    /\ UNCHANGED <<config, backup, local, origin, spoilt>>

\* A file that was not there comes back as an empty one.
UndoActivation ==
    /\ step = "undo"
    /\ \/ config' = Bytes(local.current) /\ Goes("idle", "refused") /\ UNCHANGED spoilt
       \/ Goes("idle", "failed") /\ Spoils(TRUE) /\ UNCHANGED config
    /\ UNCHANGED <<backup, record, local, origin>>

-----------------------------------------------------------------------------
\* restore: only over the very file it activated.
RestoreBegins ==
    /\ step = "idle" /\ record # Missing
    /\ IF record.status = "restored"
       THEN Goes("idle", "none") /\ UNCHANGED local
       ELSE /\ config = record.active /\ backup = record.original
            /\ local' = [local EXCEPT !.current = config]
            /\ Goes("r_write", "none")
    /\ UNCHANGED <<config, backup, record, origin, spoilt>>

Original == IF record.present THEN backup ELSE Missing

RestoreWrites ==
    /\ step = "r_write"
    /\ \/ config' = Original /\ Goes("r_verify", "none")
       \/ UNCHANGED config /\ Goes("r_undo", "none")
    /\ UNCHANGED <<backup, record, local, origin, spoilt>>

\* The file may differ, or not be readable.
RestoreVerifies ==
    /\ step = "r_verify"
    /\ \/ config = Original /\ Goes("r_record", "none")
       \/ Goes("r_undo", "none")
    /\ UNCHANGED <<config, backup, record, local, origin, spoilt>>

RestoreRecords ==
    /\ step = "r_record"
    /\ \/ record' = [record EXCEPT !.status = "restored"] /\ Goes("idle", "restored")
       \/ UNCHANGED record /\ Goes("r_undo", "none")
    /\ UNCHANGED <<config, backup, local, origin, spoilt>>

UndoRestore ==
    /\ step = "r_undo"
    /\ \/ config' = local.current /\ Goes("idle", "refused") /\ UNCHANGED spoilt
       \/ Goes("idle", "failed") /\ Spoils(TRUE) /\ UNCHANGED config
    /\ UNCHANGED <<backup, record, local, origin>>

-----------------------------------------------------------------------------
\* The guardian dies.
ActivationDies ==
    /\ step # "idle" /\ Goes("idle", "none") /\ Spoils(TRUE)
    /\ UNCHANGED <<config, backup, record, local, origin>>

\* A switch of the profile writes its own config.toml.
ProfileSwitched ==
    /\ config' \in {c \in Contents : ~c.gateway} /\ config' # config
    /\ Goes(step, "none") /\ Spoils(step # "idle")
    /\ UNCHANGED <<backup, record, local, origin>>

\* Another activate or restore runs at the same time: it may keep what it finds
\* as the user's file, point it at the gateway or put the kept file back, and
\* record that.  (The first such write is enough: nothing is said after it.)
Interferes ==
    /\ step # "idle" /\ ~spoilt /\ Goes(step, "none") /\ Spoils(TRUE)
    /\ \/ backup' = Bytes(config) /\ UNCHANGED <<config, record>>
       \/ config' \in {Built(config), backup, Missing} /\ UNCHANGED <<backup, record>>
       \/ /\ backup # Missing
          /\ record' \in [status : {"active", "restored"}, rev : {gw.rev}, present : BOOLEAN,
                           original : {backup}, active : {Built(backup)}]
          /\ UNCHANGED <<config, backup>>
    /\ UNCHANGED <<local, origin>>

\* Publication, in one step.
Published ==
    /\ up /\ gw.rev < MaxRevision
    /\ gw' = [gw EXCEPT !.rev = gw.rev + 1] /\ promised' = gw'
    /\ doc' = [doc EXCEPT !.rev = gw'.rev]
    /\ UNCHANGED <<marker, profiles, deleting, kept, staged, up, synced, secrets,
                   pc, job, lost, unseen>>

ProviderStep ==
    \/ \E rev \in 1..MaxRevision : ActivateBegins(rev)
    \/ ActivateRefused \/ WriteProvider \/ VerifyProvider \/ RecordActivation
    \/ UndoActivation
    \/ RestoreBegins \/ RestoreWrites \/ RestoreVerifies \/ RestoreRecords
    \/ UndoRestore
    \/ ActivationDies \/ ProfileSwitched \/ Interferes

ProviderNext ==
    \/ about = "publication" /\ Next /\ UNCHANGED providerVars
    \/ about = "provider" /\ ProviderStep /\ UNCHANGED vars
    \/ /\ about = "provider" /\ (Published \/ GatewayStops \/ GatewayStarts)
       /\ UNCHANGED providerVars

BothSpec == BothInit /\ [][ProviderNext /\ UNCHANGED about]_bothVars

-----------------------------------------------------------------------------
\* A restore that reports success left the very file the user had before the
\* activation, whatever was activated, refused and undone before, as long as no
\* two of these operations overlapped.
RestoreIsOriginal ==
    told = "restored" /\ ~spoilt => config = origin

\* While an activation is recorded the user's file lies beside it, and no other.
\* (Two activations at once may take the gateway's file for the user's: nothing is
\* said from there on.)
ActiveCanBeRestored ==
    Recorded /\ ~spoilt => backup = record.original /\ backup = Bytes(origin)

\* The inductive invariant: until a step is spoilt, what an activation works on
\* is the user's own file, and what a record names is that file.
Activating == step \in {"write", "verify", "record", "undo"}
Restoring  == step \in {"r_write", "r_verify", "r_record", "r_undo"}
Kept ==
    /\ backup = record.original /\ backup = Bytes(origin)
    /\ record.present = (origin # Missing)
UnspoiltInv ==
    /\ ~Bytes(origin).gateway
    /\ Recorded => Kept
    /\ Activating => /\ ~Recorded /\ backup = Bytes(local.current)
                     /\ origin = local.current
    /\ Restoring => Recorded
    /\ step = "r_record" => config = Original
    /\ step = "idle" /\ ~Recorded => ~Bytes(config).gateway
    /\ told = "restored" => config = origin
ProviderInv ==
    /\ ProviderTypeOK
    /\ local \in [current : Contents \cup {Missing}, rev : 0..MaxRevision]
    /\ Restoring => record # Missing
    /\ ~spoilt => UnspoiltInv
BothInv ==
    /\ about \in {"publication", "provider"}
    /\ about = "provider" => pc = "idle"
    /\ PublicationInv /\ ProviderInv

\* The user's own file is kept while Codex uses the gateway, and comes back, over
\* any sequence of activations and restores that do not overlap.
OriginalComesBack == ActiveCanBeRestored /\ RestoreIsOriginal
=============================================================================
