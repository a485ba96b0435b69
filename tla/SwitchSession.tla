---------------------------- MODULE SwitchSession ----------------------------
(***************************************************************************)
(* The guardian's first operation in full: Codex is closed as              *)
(* CodexLifecycle has it, and only then does ProfileSwitch, which takes    *)
(* the closing for one step, work on the directory.                        *)
(***************************************************************************)
EXTENDS ProfileSwitch, CodexLifecycle

allVars == <<vars, closeVars>>

\* The closing does not look at the directory, which Codex may write until it is
\* closed: any one stands for it.
SessionInit ==
    /\ Init /\ CloseInit
    /\ current = CHOOSE p \in Profiles : TRUE
    /\ home.config = Provider(current)

\* The closing reported success: the operations begin, on the directory that is
\* found now.
HandOver ==
    /\ closing.pc = "closed" /\ closing' = [NotClosing EXCEPT !.pc = "handed over"]
    /\ procs' = [p \in Pids |-> NoProcess] /\ now' = 0 /\ turn' = FALSE
    /\ killed' = {} /\ late' = FALSE /\ reopened' = FALSE
    /\ current' \in Profiles /\ home' \in Found(current')
    /\ codex' = Missing /\ backups' = <<>> /\ taken' = 0 /\ starts' = 0
    /\ pc' = "idle" /\ verdict' = "none" /\ raced' = FALSE
    /\ job' = Job("repair", current, NoBackup)'

SessionNext ==
    \/ closing.pc # "handed over" /\ CloseNext /\ UNCHANGED vars
    \/ HandOver
    \/ closing.pc = "handed over" /\ Next /\ UNCHANGED closeVars

SessionSpec == SessionInit /\ [][SessionNext]_allVars
==============================================================================
