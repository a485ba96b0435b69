--------------------------- MODULE CodexLifecycle ---------------------------
(***************************************************************************)
(* Closing the Codex desktop before an operation touches its files         *)
(* (backend/guardian.py _ensure_codex_closed, backend/codex_lifecycle.py   *)
(* force_close_codex): no turn may be in progress, the processes of the    *)
(* desktop are told from independent command lines by their ancestry, each *)
(* one is pinned by a handle, the turns are looked at again, the pinned    *)
(* processes are terminated, and the guardian waits until none is left.    *)
(* Meanwhile processes start and exit, and a process id may be used again. *)
(***************************************************************************)
EXTENDS Naturals, FiniteSets

CONSTANTS
    Pids,       \* process ids
    MaxTime,    \* bound: processes started
    NoProcess   \* no process with this id

ASSUME LifecycleAssumption ==
    IsFiniteSet(Pids) /\ 0 \notin Pids /\ MaxTime \in Nat

VARIABLES
    procs,    \* the processes the query of the guardian can see
    now,      \* time of the last start
    turn,     \* the last event of some chat is task_started
    closing,  \* the guardian: where it is, and its local variables
    killed,   \* history: the processes it terminated
    late,     \* history: the turn in progress began after the last look
    reopened  \* history: a process has started since the last query

closeVars == <<procs, now, turn, closing, killed, late, reopened>>

\* kind "child" is a renderer or packaged server, which the code treats alike;
\* trusted: force_eligible.  What the query does not tell: root, when the desktop
\* that it really descends from was started, 0 for an independent command line
\* and what that starts; and up, when the process that started it was, 0 if the
\* query never shows that one.
Processes == [kind : {"desktop", "child", "runtime"}, parent : Pids \cup {0},
              started : 1..MaxTime, trusted : BOOLEAN, root : 0..MaxTime,
              up : 0..MaxTime]
Identities == Pids \X (1..MaxTime)

NotClosing == [pc |-> "idle", known |-> {}, owned |-> {}, desktops |-> {},
               pinned |-> {}, attempted |-> FALSE]

\* Every variable has its type.
ClosingTypeOK ==
    /\ procs \in [Pids -> Processes \cup {NoProcess}]
    /\ now \in 0..MaxTime /\ turn \in BOOLEAN
    /\ closing \in [pc : {"idle", "observe", "observe again", "query", "pin", "guard",
                           "kill", "wait", "turns", "closed", "refused", "handed over"},
                     known : SUBSET Identities, owned : SUBSET Identities,
                     desktops : SUBSET Identities, pinned : SUBSET Identities,
                     attempted : BOOLEAN]
    /\ \A x, y \in closing.pinned : x[1] = y[1] => x = y
    /\ killed \subseteq Processes /\ late \in BOOLEAN /\ reopened \in BOOLEAN

CloseInit ==
    /\ procs = [p \in Pids |-> NoProcess] /\ now = 0 /\ turn = FALSE
    /\ closing = NotClosing /\ killed = {} /\ late = FALSE /\ reopened = FALSE

-----------------------------------------------------------------------------
(* The machine *)

Live == {p \in Pids : procs[p] # NoProcess}
Id(p) == <<p, procs[p].started>>
Desktops == {p \in Live : procs[p].kind = "desktop"}

Start(p, kind, parent, trusted, root, up) ==
    /\ p \notin Live /\ now < MaxTime
    /\ now' = now + 1 /\ reopened' = TRUE
    /\ procs' = [procs EXCEPT ![p] = [kind |-> kind, parent |-> parent, started |-> now',
                                      trusted |-> trusted, root |-> root, up |-> up]]
    /\ UNCHANGED <<turn, closing, killed, late>>

\* One desktop at a time; a copy outside the store's folder is not trusted.
DesktopStarts == Desktops = {} /\ \E p \in Pids, trusted \in BOOLEAN :
                    Start(p, "desktop", 0, trusted, now + 1, 0)

\* The desktop starts processes, and so does each of these and any other.
Spawns == \E p \in Pids, q \in Live, kind \in {"child", "runtime"} :
             Start(p, kind, q, TRUE, procs[q].root, procs[q].started)

\* An independent command line; the id of its parent, which the query does not
\* show, may later be used again.
CliStarts == \E p, q \in Pids, kind \in {"child", "runtime"} :
                /\ p # q /\ q \notin Live /\ Start(p, kind, q, TRUE, 0, 0)

Exits == \E p \in Live :
            /\ procs' = [procs EXCEPT ![p] = NoProcess]
            /\ UNCHANGED <<now, turn, closing, killed, late, reopened>>

TurnStarts == /\ ~ turn /\ Live # {} /\ turn' = TRUE /\ late' = TRUE
              /\ UNCHANGED <<procs, now, closing, killed, reopened>>

TurnEnds == /\ turn /\ Live # {} /\ turn' = FALSE /\ late' = FALSE
            /\ UNCHANGED <<procs, now, closing, killed, reopened>>

-----------------------------------------------------------------------------
(* What a query tells *)

\* A link from a process to its parent does not lead into the future.
IsParent(q, c) == procs[c].parent = q /\ procs[q].started <= procs[c].started

\* The processes p descends from, by links to the processes in usable: they are
\* in every set that has p and, with a process, its parent.
Ancestry(p, usable) ==
    {q \in Live : \A S \in SUBSET Live :
        p \in S /\ (\A c \in S, d \in usable : IsParent(d, c) => d \in S) => q \in S}

\* related_processes: a runtime server needs a desktop among its ancestors.
Related == {p \in Live : \/ procs[p].kind # "runtime"
                         \/ Ancestry(p, Live) \cap Desktops # {}}

Trusted == {p \in Live : procs[p].trusted}

BadOwned == Trusted

\* desktop_owned_processes: every link up to the desktop is trusted.
Owned == {p \in Trusted : Ancestry(p, Trusted) \cap Desktops # {}}

Ids(S) == {Id(p) : p \in S}
Among(ids) == {p \in Live : Id(p) \in ids}

\* active_turn_status: a turn counts as long as something could still write it.
TurnActive == turn /\ Live # {}

\* A step of the guardian.
Moves(new) == closing' = new /\ UNCHANGED <<now, turn>>
GoesTo(place) == Moves([closing EXCEPT !.pc = place])

Refuse == GoesTo("refused") /\ UNCHANGED <<procs, killed, late, reopened>>

-----------------------------------------------------------------------------
(* _ensure_codex_closed *)

\* _ensure_no_active_turns
CloseBegins ==
    /\ closing.pc = "idle" /\ ~ TurnActive
    /\ Moves([closing EXCEPT !.pc = "observe", !.attempted = FALSE, !.pinned = {}])
    /\ killed' = {} /\ late' = FALSE /\ UNCHANGED <<procs, reopened>>

\* _codex_related_process_state: what it knew and still runs stays known. It is
\* asked twice, by _ensure_codex_closed and by request_close_codex.
Observe ==
    LET seen  == Ids(Among(closing.known) \cup Related)
        owned == {p \in Among(closing.owned) \cup Owned : procs[p].trusted}
        again == closing.pc = "observe again"
    IN /\ closing.pc \in {"observe", "observe again"}
       /\ Moves([closing EXCEPT
                  !.pc = CASE ~ again -> IF seen = {} THEN "closed" ELSE "observe again"
                           [] again   -> IF seen = {} THEN "turns" ELSE "query",
                  !.known = seen, !.desktops = Ids(Desktops) \cap seen, !.owned = Ids(owned)])
       /\ reopened' = FALSE /\ UNCHANGED <<procs, killed, late>>

\* force_attempted is set before the first handle is opened.
Attempted == TRUE

\* Who is terminated: what is left of the processes that are known.
Targets(left, owned) == Ids(left)

\* The first snapshot of force_close_codex.
Query ==
    LET known   == closing.known \cup Ids(Related)
        left    == Among(known)
        owned   == closing.owned \cup Ids(Owned)
    IN /\ closing.pc = "query"
       /\ \/ left = {} /\ Moves([closing EXCEPT !.pc = "turns", !.known = known])
          \/ /\ left # {} /\ Ids(left \cap Desktops) \subseteq closing.desktops
             /\ \A p \in left : Id(p) \in owned /\ procs[p].trusted
             /\ Moves([closing EXCEPT !.pc = "pin", !.known = known, !.owned = owned,
                                      !.pinned = Targets(left, owned), !.attempted = Attempted])
       /\ reopened' = FALSE /\ UNCHANGED <<procs, killed, late>>

\* A process that is gone is passed over, another one with its id is an error.
Pin ==
    /\ closing.pc = "pin"
    /\ \A x \in closing.pinned : x[1] \in Live => Id(x[1]) = x
    /\ Moves([closing EXCEPT !.pc = "guard", !.pinned = {x \in @ : x[1] \in Live}])
    /\ UNCHANGED <<procs, killed, late, reopened>>

\* before_force: no turn, now that the processes are pinned.
Guard ==
    /\ closing.pc = "guard" /\ ~ TurnActive
    /\ GoesTo("kill") /\ late' = FALSE /\ UNCHANGED <<procs, killed, reopened>>

\* The desktop first; a handle is the process it was opened for.
Kill ==
    /\ closing.pc = "kill"
    /\ \E x \in closing.pinned :
          /\ x \in closing.desktops \/ closing.pinned \cap closing.desktops = {}
          /\ Moves([closing EXCEPT !.pinned = @ \ {x}])
          /\ IF x[1] \in Live /\ Id(x[1]) = x
             THEN /\ procs' = [procs EXCEPT ![x[1]] = NoProcess]
                  /\ killed' = killed \cup {procs[x[1]]}
             ELSE UNCHANGED <<procs, killed>>
    /\ UNCHANGED <<late, reopened>>

Killed ==
    /\ closing.pc = "kill" /\ closing.pinned = {}
    /\ GoesTo("wait") /\ UNCHANGED <<procs, killed, late, reopened>>

BadSpawned == {}

\* A child of a known process that was not there before.
Spawned == {p \in Live : /\ Id(p) \notin closing.known
                         /\ \E x \in closing.known : /\ x[1] = procs[p].parent
                                                     /\ x[2] <= procs[p].started}

\* A later snapshot: nobody is left, or it goes on until the time is over.
Wait ==
    LET known == closing.known \cup Ids(Related)
    IN /\ closing.pc = "wait" /\ Spawned = {}
       /\ Ids(Among(known) \cap Desktops) \subseteq closing.desktops
       /\ Moves([closing EXCEPT !.pc = IF Among(known) = {} THEN "turns" ELSE "wait",
                                !.known = known])
       /\ reopened' = FALSE /\ UNCHANGED <<procs, killed, late>>

LookAgain ==
    /\ closing.pc = "turns" /\ ~ TurnActive
    /\ GoesTo("closed") /\ UNCHANGED <<procs, killed, late, reopened>>

\* A turn is active, a query fails, a process is not ours, restarted, or left
\* when the time is over; a handle cannot be opened or a process not terminated.
Refuses ==
    /\ closing.pc \notin {"idle", "closed", "refused", "handed over"}
    /\ Refuse

\* The user tries again.
CloseAgain ==
    /\ closing.pc = "refused" /\ GoesTo("idle")
    /\ UNCHANGED <<procs, killed, late, reopened>>

CloseNext ==
    \/ DesktopStarts \/ Spawns \/ CliStarts \/ Exits \/ TurnStarts \/ TurnEnds
    \/ CloseBegins \/ Observe \/ Query \/ Pin \/ Guard \/ Kill \/ Killed \/ Wait
    \/ LookAgain \/ Refuses \/ CloseAgain

-----------------------------------------------------------------------------
\* Only processes of the desktop are terminated: an independent command line
\* never is, whatever it is called and whoever uses its parent's id now.
OnlyDesktopKilled == \A x \in killed : x.root # 0

\* When the closing reports success no process that it knew is alive, no window
\* and no packaged server is, and after a termination nothing that a process it
\* knew has started either, also while the handles were opened; but for one
\* started after the last query.  What no query shows cannot be told: a runtime
\* server survives unnoticed when the process that started it itself came and
\* went between two queries.
ClosedIsClosed ==
    closing.pc \in {"turns", "closed"} /\ ~ reopened =>
       \A p \in Live :
          /\ Id(p) \notin closing.known /\ procs[p].kind = "runtime"
          /\ closing.attempted => procs[p].up \notin {x[2] : x \in closing.known}

\* A turn that the last look could see is not ended by a termination.
NoTurnKilled == killed # {} /\ closing.pc = "kill" => ~ turn \/ late

\* Nothing is terminated that the closing had to spare.
KillsAreAllowed == OnlyDesktopKilled /\ NoTurnKilled

\* The inductive invariant.  The machine: a start time is used once; a desktop
\* is its own root; a link that does not lead into the future joins processes of
\* one root; and the process that started another one, if it still runs, is
\* where the link leads.
MachineInv ==
    /\ \A p \in Live : /\ procs[p].started <= now
                       /\ {procs[p].root, procs[p].up} \subseteq 0..procs[p].started
    /\ \A p \in Desktops : procs[p].root = procs[p].started /\ procs[p].parent = 0
    /\ \A p, q \in Live : procs[p].started = procs[q].started => p = q
    /\ \A p, q \in Live : IsParent(q, p) => procs[p].root = procs[q].root
    /\ \A p, q \in Live : procs[q].started = procs[p].up => q = procs[p].parent

\* What the guardian remembers of it: no identity is of the future, so that a
\* reused process id never matches, and an owned process has a desktop.
MemoryInv ==
    /\ \A x \in closing.known \cup closing.owned \cup closing.pinned : x[2] <= now
    /\ \A x \in closing.known, p \in Live : x[2] = procs[p].started => x[1] = p
    /\ \A x \in closing.known, p \in Live :
          x[2] = procs[p].up => x[1] = procs[p].parent
    /\ \A p \in Live : Id(p) \in closing.owned \cup closing.pinned => procs[p].root # 0

\* Where the guardian is: while it may kill there is no turn but a late one,
\* or nothing that it has pinned runs any more.
GuardInv ==
    /\ closing.pc \in {"observe", "observe again", "query"} => ~ closing.attempted
    /\ closing.pc \in {"observe", "observe again", "query", "pin", "guard"} => killed = {}
    /\ closing.pc = "kill" => \/ ~ turn \/ late
                              \/ killed = {} /\ Ids(Live) \cap closing.pinned = {}

CloseInv == /\ ClosingTypeOK /\ MachineInv /\ MemoryInv /\ GuardInv
            /\ OnlyDesktopKilled /\ ClosedIsClosed

=============================================================================
