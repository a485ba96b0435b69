------------------------ MODULE SwitchSession_proofs ------------------------
(***************************************************************************)
(* Proofs about SwitchSession, CodexLifecycle and ProfileSwitch, for every *)
(* number of processes, profiles, chats and backups, and every length of a *)
(* run.                                                                    *)
(***************************************************************************)
EXTENDS SwitchSession, TLAPS, SequenceTheorems

-----------------------------------------------------------------------------
(* The closing of Codex *)

LEMMA CloseConstants == 0 \notin Pids /\ MaxTime \in Nat
BY LifecycleAssumption

\* What the types say of a process that runs.
LEMMA LiveTypes ==
    ASSUME ClosingTypeOK, NEW p \in Live
    PROVE  /\ p \in Pids /\ procs[p] \in Processes
           /\ procs[p].kind \in {"desktop", "child", "runtime"}
           /\ procs[p].parent \in Pids \cup {0}
           /\ procs[p].started \in 1..MaxTime /\ procs[p].started \in Nat
           /\ procs[p].trusted \in BOOLEAN
           /\ procs[p].root \in 0..MaxTime /\ procs[p].root \in Nat
           /\ procs[p].up \in 0..MaxTime /\ procs[p].up \in Nat
           /\ Id(p) \in Identities /\ Id(p)[1] = p /\ Id(p)[2] = procs[p].started
<1>1. p \in Pids /\ procs[p] \in Processes
  BY DEF ClosingTypeOK, Live
<1>2. /\ procs[p].kind \in {"desktop", "child", "runtime"}
      /\ procs[p].parent \in Pids \cup {0} /\ procs[p].started \in 1..MaxTime
      /\ procs[p].trusted \in BOOLEAN /\ procs[p].root \in 0..MaxTime
      /\ procs[p].up \in 0..MaxTime
  BY <1>1 DEF Processes
<1>3. procs[p].started \in Nat /\ procs[p].root \in Nat /\ procs[p].up \in Nat
  BY <1>2, CloseConstants
<1>4. Id(p) \in Identities /\ Id(p)[1] = p /\ Id(p)[2] = procs[p].started
  BY <1>1, <1>2 DEF Id, Identities
<1> QED BY <1>1, <1>2, <1>3, <1>4

LEMMA IdentityTypes ==
    ASSUME NEW x \in Identities
    PROVE  /\ x[1] \in Pids /\ x[2] \in 1..MaxTime /\ x[2] \in Nat \ {0}
           /\ x = <<x[1], x[2]>>
<1>1. x[1] \in Pids /\ x[2] \in 1..MaxTime /\ x = <<x[1], x[2]>>
  BY DEF Identities
<1> QED BY <1>1, CloseConstants

LEMMA TimeTypes ==
    ASSUME ClosingTypeOK
    PROVE  now \in 0..MaxTime /\ now \in Nat
<1>1. now \in 0..MaxTime
  BY DEF ClosingTypeOK
<1> QED BY <1>1, CloseConstants

\* Whoever descends from a desktop by links that do not lead into the future
\* has the root of that desktop: a reused process id gives no ownership.
LEMMA AncestryKeepsRoot ==
    ASSUME ClosingTypeOK, MachineInv, NEW usable, usable \subseteq Live,
           NEW p \in Live, NEW q \in Ancestry(p, usable)
    PROVE  q \in Live /\ procs[q].root = procs[p].root
<1> DEFINE S == {c \in Live : procs[c].root = procs[p].root}
<1>1. S \in SUBSET Live /\ p \in S
  OBVIOUS
<1>2. ASSUME NEW c \in S, NEW d \in usable, IsParent(d, c)
      PROVE  d \in S
  BY <1>2 DEF MachineInv
<1>3. q \in S
  BY <1>1, <1>2 DEF Ancestry
<1> QED BY <1>3

LEMMA OwnedHaveRoots ==
    ASSUME ClosingTypeOK, MachineInv, NEW p \in Owned
    PROVE  p \in Live /\ procs[p].root # 0
<1>1. p \in Live /\ Trusted \subseteq Live
  BY DEF Owned, Trusted
<1>2. PICK d \in Ancestry(p, Trusted) : d \in Desktops
  BY DEF Owned
<1>3. d \in Live /\ procs[d].root = procs[p].root
  BY <1>1, <1>2, AncestryKeepsRoot
<1>4. procs[d].root = procs[d].started /\ procs[d].started \in 1..MaxTime
  BY <1>2, <1>3, LiveTypes DEF MachineInv
<1> QED BY <1>1, <1>3, <1>4, CloseConstants

\* A process starts.
LEMMA StartKeeps ==
    ASSUME CloseInv, NEW p \in Pids, NEW kind \in {"desktop", "child", "runtime"},
           NEW parent \in Pids \cup {0}, NEW trusted \in BOOLEAN, NEW root \in 0..(now + 1),
           NEW up \in 0..now, Start(p, kind, parent, trusted, root, up),
           kind = "desktop" => root = now + 1 /\ parent = 0 /\ up = 0,
           kind # "desktop" =>
              \/ root = 0 /\ up = 0 /\ parent \notin Live /\ parent # p
              \/ /\ parent \in Live /\ root = procs[parent].root
                 /\ up = procs[parent].started
    PROVE  CloseInv'
<1> DEFINE new == [kind |-> kind, parent |-> parent, started |-> now + 1,
                   trusted |-> trusted, root |-> root, up |-> up]
<1>1. /\ p \notin Live /\ now < MaxTime /\ now' = now + 1 /\ reopened' = TRUE
      /\ procs' = [procs EXCEPT ![p] = new]
      /\ UNCHANGED <<turn, closing, killed, late>>
  BY DEF Start
<1>2. /\ new \in Processes /\ new.kind = kind /\ new.parent = parent
      /\ new.started = now + 1 /\ new.root = root /\ new.up = up
      /\ now \in Nat /\ now + 1 \in 1..MaxTime
  <2>1. now \in Nat /\ now + 1 \in 1..MaxTime
    BY <1>1, TimeTypes, CloseConstants DEF CloseInv
  <2>2. root \in 0..MaxTime /\ up \in 0..MaxTime
    BY <2>1, CloseConstants
  <2> QED BY <2>1, <2>2 DEF Processes
<1> HIDE DEF new
<1>3. /\ ClosingTypeOK /\ MachineInv /\ MemoryInv /\ GuardInv
      /\ OnlyDesktopKilled /\ ClosedIsClosed
  BY DEF CloseInv
<1>4. /\ Live' \subseteq Live \cup {p}
      /\ \A q \in Live : q # p /\ q \in Live' /\ procs'[q] = procs[q]
      /\ p \in Live' => procs'[p] = new
      /\ Desktops' \subseteq Live' /\ Desktops \subseteq Desktops'
      /\ \A q \in Live' \ {p} : q \in Desktops' => q \in Desktops
      /\ p \in Desktops' => kind = "desktop"
      /\ p \in Live' \ Desktops' => kind # "desktop"
  <2>1. /\ Live' \subseteq Live \cup {p}
        /\ \A q \in Live : q # p /\ q \in Live' /\ procs'[q] = procs[q]
        /\ p \in Live' => procs'[p] = new
    BY <1>1, <1>3 DEF Live, ClosingTypeOK
  <2> QED BY <1>2, <2>1 DEF Desktops
<1>5. ClosingTypeOK'
  <2>1. now' \in 0..MaxTime
    BY <1>1, <1>2, CloseConstants
  <2>2. reopened' \in BOOLEAN
    BY <1>1, Zenon
  <2>3. procs' \in [Pids -> Processes \cup {NoProcess}]
    BY <1>1, <1>2, <1>3 DEF ClosingTypeOK
  <2> QED BY <1>1, <1>3, <2>1, <2>2, <2>3 DEF ClosingTypeOK
<1>6. \A q \in Live : /\ procs[q].started \in Nat /\ procs[q].started <= now
                      /\ procs[q].root \in Nat /\ procs[q].root <= now
                      /\ procs[q].up \in Nat /\ procs[q].up <= now
                      /\ procs[q].parent \in Pids \cup {0}
  BY <1>2, <1>3, LiveTypes DEF MachineInv
<1>7. MachineInv'
  <2>1. \A q \in Live' : /\ procs'[q].started <= now'
                          /\ {procs'[q].root, procs'[q].up} \subseteq 0..procs'[q].started
    <3>1. root \in 0..(now + 1) /\ up \in 0..(now + 1)
      BY <1>2
    <3>2. \A q \in Live : procs[q].started <= now + 1
      BY <1>2, <1>6
    <3> QED BY <1>1, <1>2, <1>3, <1>4, <3>1, <3>2 DEF MachineInv
  <2>2. \A q \in Desktops' : procs'[q].root = procs'[q].started /\ procs'[q].parent = 0
    BY <1>1, <1>2, <1>3, <1>4 DEF MachineInv
  <2>3. \A q, r \in Live' : procs'[q].started = procs'[r].started => q = r
    BY <1>1, <1>2, <1>3, <1>4, <1>6 DEF MachineInv
  <2>4. ASSUME NEW c \in Live', NEW q \in Live',
               procs'[c].parent = q /\ procs'[q].started <= procs'[c].started
        PROVE  procs'[c].root = procs'[q].root
    <3>1. CASE c \in Live /\ q \in Live
      BY <1>3, <1>4, <2>4, <3>1 DEF MachineInv, IsParent
    <3>2. CASE c \in Live /\ q = p
      BY <1>1, <1>2, <1>4, <1>6, <2>4, <3>2
    <3>3. CASE c = p
      <4>1. parent = q /\ q # p
        BY <1>1, <1>2, <1>4, <2>4, <3>3, CloseConstants DEF Desktops, Live
      <4>2. q \in Live
        BY <1>4, <4>1
      <4>3. root = procs[q].root
        BY <4>1, <4>2, CloseConstants DEF Live
      <4> QED BY <1>2, <1>4, <3>3, <4>2, <4>3
    <3> QED BY <1>4, <3>1, <3>2, <3>3
  <2>5. ASSUME NEW c \in Live', NEW q \in Live', procs'[q].started = procs'[c].up
        PROVE  q = procs'[c].parent
    <3>1. CASE c \in Live /\ q \in Live
      BY <1>3, <1>4, <2>5, <3>1 DEF MachineInv
    <3>2. CASE c \in Live /\ q = p
      BY <1>1, <1>2, <1>4, <1>6, <2>5, <3>2
    <3>3. CASE c = p /\ q \in Live
      <4>1. procs[q].started = up /\ procs[q].started \in 1..MaxTime
        BY <1>2, <1>3, <1>4, <2>5, <3>3, LiveTypes
      <4>2. parent \in Live /\ procs[parent].started = up
        BY <4>1, CloseConstants
      <4>3. q = parent
        BY <1>3, <3>3, <4>1, <4>2 DEF MachineInv
      <4> QED BY <1>2, <1>4, <3>3, <4>3
    <3>4. CASE c = p /\ q = p
      BY <1>2, <1>4, <2>5, <3>4
    <3> QED BY <1>4, <3>1, <3>2, <3>3, <3>4
  <2>6. \A c, q \in Live' : IsParent(q, c)' => procs'[c].root = procs'[q].root
    BY <2>4 DEF IsParent
  <2> QED BY <2>1, <2>2, <2>3, <2>5, <2>6 DEF MachineInv
<1>8. MemoryInv'
  <2>1. \A x \in closing.known \cup closing.owned \cup closing.pinned :
           x[2] \in Nat /\ x[2] # 0 /\ x[2] <= now
    BY <1>3, IdentityTypes DEF MemoryInv, ClosingTypeOK
  <2>2. \A x \in closing.known, q \in Live' : x[2] = procs'[q].started => x[1] = q
    BY <1>2, <1>3, <1>4, <2>1 DEF MemoryInv
  <2>3. ASSUME NEW x \in closing.known, NEW q \in Live', x[2] = procs'[q].up
        PROVE  x[1] = procs'[q].parent
    <3>1. CASE q \in Live
      BY <1>3, <1>4, <2>3, <3>1 DEF MemoryInv
    <3>2. CASE q = p
      <4>1. x[2] = up /\ up # 0
        BY <1>2, <1>4, <2>1, <2>3, <3>2
      <4>2. parent \in Live /\ procs[parent].started = up
        BY <4>1
      <4>3. x[1] = parent
        BY <1>3, <4>1, <4>2 DEF MemoryInv
      <4> QED BY <1>2, <1>4, <3>2, <4>3
    <3> QED BY <1>4, <3>1, <3>2
  <2>4. ASSUME NEW q \in Live', Id(q)' \in closing.owned \cup closing.pinned
        PROVE  procs'[q].root # 0
    <3>1. CASE q \in Live
      BY <1>3, <1>4, <2>4, <3>1 DEF MemoryInv, Id
    <3>2. CASE q = p
      <4>1. Id(q)'[2] = now + 1
        BY <1>2, <1>4, <2>4, <3>2 DEF Id
      <4> QED BY <1>2, <2>1, <2>4, <4>1
    <3> QED BY <1>4, <3>1, <3>2
  <2>5. \A x \in closing.known \cup closing.owned \cup closing.pinned : x[2] <= now + 1
    BY <1>2, <2>1
  <2> QED BY <1>1, <2>2, <2>3, <2>4, <2>5 DEF MemoryInv
<1>9. GuardInv'
  <2>1. \A x \in closing.pinned : x[2] \in Nat /\ x[2] <= now
    BY <1>3, IdentityTypes DEF MemoryInv, ClosingTypeOK
  <2>3. ASSUME Ids(Live) \cap closing.pinned = {}, NEW q \in Live', Id(q)' \in closing.pinned
        PROVE  FALSE
    <3>1. CASE q \in Live
      BY <1>4, <2>3, <3>1 DEF Ids, Id
    <3>2. CASE q = p
      <4>1. Id(q)'[2] = now + 1
        BY <1>2, <1>4, <2>3, <3>2 DEF Id
      <4> QED BY <1>2, <2>1, <2>3, <4>1
    <3> QED BY <1>4, <3>1, <3>2
  <2>4. Ids(Live) \cap closing.pinned = {} => (Ids(Live) \cap closing.pinned)' = {}
    BY <1>1, <2>3 DEF Ids
  <2> QED BY <1>1, <1>3, <2>4 DEF GuardInv
<1>10. OnlyDesktopKilled' /\ ClosedIsClosed'
  BY <1>1, <1>3 DEF OnlyDesktopKilled, ClosedIsClosed
<1> QED BY <1>5, <1>7, <1>8, <1>9, <1>10 DEF CloseInv

LEMMA StartsKeep ==
    ASSUME CloseInv, DesktopStarts \/ Spawns \/ CliStarts
    PROVE  CloseInv'
<1>1. /\ now \in Nat /\ now + 1 \in 0..(now + 1) /\ 0 \in 0..(now + 1)
      /\ 0 \in 0..now
  BY TimeTypes DEF CloseInv
<1>2. CASE DesktopStarts
  <2>1. PICK p \in Pids, trusted \in BOOLEAN : Start(p, "desktop", 0, trusted, now + 1, 0)
    BY <1>2 DEF DesktopStarts
  <2> QED BY <1>1, <2>1, StartKeeps
<1>3. CASE Spawns
  <2>1. PICK p \in Pids, d \in Live, kind \in {"child", "runtime"} :
           Start(p, kind, d, TRUE, procs[d].root, procs[d].started)
    BY <1>3 DEF Spawns
  <2>2. d \in Pids
    BY DEF Live
  <2>3. /\ procs[d].root \in Nat /\ procs[d].started \in Nat
        /\ procs[d].root <= procs[d].started /\ procs[d].started <= now
    BY LiveTypes DEF CloseInv, MachineInv
  <2>4. procs[d].root \in 0..(now + 1) /\ procs[d].started \in 0..now
    BY <1>1, <2>3
  <2> QED BY <2>1, <2>2, <2>4, StartKeeps
<1>4. CASE CliStarts
  <2>1. PICK p \in Pids, q \in Pids, kind \in {"child", "runtime"} :
           p # q /\ q \notin Live /\ Start(p, kind, q, TRUE, 0, 0)
    BY <1>4 DEF CliStarts
  <2> QED BY <1>1, <2>1, StartKeeps
<1> QED BY <1>2, <1>3, <1>4

\* A process ends, or is terminated: nothing that the invariants say of the
\* others depends on it.
LEMMA ProcessEnds ==
    ASSUME ClosingTypeOK, MachineInv, NEW p \in Live, now' = now,
           procs' = [procs EXCEPT ![p] = NoProcess]
    PROVE  /\ procs' \in [Pids -> Processes \cup {NoProcess}] /\ MachineInv'
           /\ Live' = Live \ {p} /\ Desktops' = Desktops \ {p}
           /\ \A q \in Live' : procs'[q] = procs[q]
           /\ Ids(Live)' \subseteq Ids(Live)
<1>1. /\ procs' \in [Pids -> Processes \cup {NoProcess}]
      /\ Live' = Live \ {p} /\ \A q \in Live' : procs'[q] = procs[q]
  BY DEF ClosingTypeOK, Live
<1>2. Desktops' = Desktops \ {p}
  BY <1>1 DEF Desktops
<1>3. Ids(Live)' \subseteq Ids(Live)
  BY <1>1 DEF Ids, Id
<1>4. \A c, q \in Live' : IsParent(q, c)' => IsParent(q, c)
  BY <1>1 DEF IsParent
<1>5. MachineInv'
  BY <1>1, <1>2, <1>4 DEF MachineInv
<1> QED BY <1>1, <1>2, <1>3, <1>5

LEMMA ExitKeeps ==
    ASSUME CloseInv, Exits
    PROVE  CloseInv'
<1>1. PICK p \in Live : /\ procs' = [procs EXCEPT ![p] = NoProcess]
                        /\ UNCHANGED <<now, turn, closing, killed, late, reopened>>
  BY DEF Exits
<1>2. /\ ClosingTypeOK /\ MachineInv /\ MemoryInv /\ GuardInv
      /\ OnlyDesktopKilled /\ ClosedIsClosed
  BY DEF CloseInv
<1>3. /\ procs' \in [Pids -> Processes \cup {NoProcess}] /\ MachineInv'
      /\ Live' = Live \ {p} /\ Desktops' = Desktops \ {p}
      /\ \A q \in Live' : procs'[q] = procs[q]
      /\ Ids(Live)' \subseteq Ids(Live)
  BY <1>1, <1>2, ProcessEnds
<1>4. ClosingTypeOK'
  BY <1>1, <1>2, <1>3 DEF ClosingTypeOK
<1>5. MemoryInv'
  BY <1>1, <1>2, <1>3 DEF MemoryInv, Id
<1>6. GuardInv'
  BY <1>1, <1>2, <1>3 DEF GuardInv
<1>7. OnlyDesktopKilled' /\ ClosedIsClosed'
  BY <1>1, <1>2, <1>3 DEF OnlyDesktopKilled, ClosedIsClosed, Id
<1> QED BY <1>3, <1>4, <1>5, <1>6, <1>7 DEF CloseInv

\* Steps that leave the processes alone.
LEMMA SameMachine ==
    ASSUME MachineInv, UNCHANGED <<procs, now>>
    PROVE  /\ MachineInv' /\ Live' = Live /\ Desktops' = Desktops
           /\ \A p \in Live : Id(p)' = Id(p)
           /\ Ids(Live)' = Ids(Live)
<1>1. Live' = Live /\ Desktops' = Desktops
  BY DEF Live, Desktops
<1>2. \A p \in Live : Id(p)' = Id(p)
  BY DEF Id
<1>3. \A p, q \in Live : IsParent(q, p)' <=> IsParent(q, p)
  BY DEF IsParent
<1>4. MachineInv'
  BY <1>1, <1>3 DEF MachineInv
<1> QED BY <1>1, <1>2, <1>4 DEF Ids

LEMMA TurnKeeps ==
    ASSUME CloseInv, TurnStarts \/ TurnEnds
    PROVE  CloseInv'
<1>1. /\ UNCHANGED <<procs, now, closing, killed, reopened>>
      /\ (turn' = TRUE /\ late' = TRUE) \/ (turn' = FALSE /\ late' = FALSE)
  BY DEF TurnStarts, TurnEnds
<1>2. /\ ClosingTypeOK /\ MachineInv /\ MemoryInv /\ GuardInv
      /\ OnlyDesktopKilled /\ ClosedIsClosed
  BY DEF CloseInv
<1>3. /\ MachineInv' /\ Live' = Live /\ Desktops' = Desktops
      /\ \A p \in Live : Id(p)' = Id(p)
  BY <1>1, <1>2, SameMachine
<1>4. turn' \in BOOLEAN /\ late' \in BOOLEAN
  BY <1>1, Zenon
<1>5. ClosingTypeOK'
  BY <1>1, <1>2, <1>4 DEF ClosingTypeOK
<1>6. MemoryInv'
  BY <1>1, <1>2, <1>3 DEF MemoryInv
<1>7. GuardInv'
  BY <1>1, <1>2 DEF GuardInv
<1>8. OnlyDesktopKilled' /\ ClosedIsClosed'
  BY <1>1, <1>2, <1>3 DEF OnlyDesktopKilled, ClosedIsClosed
<1> QED BY <1>3, <1>5, <1>6, <1>7, <1>8 DEF CloseInv

\* What the guardian may add to its memory: processes that run, and as owned
\* those that descend from a desktop.
LEMMA MemoryKeeps ==
    ASSUME ClosingTypeOK, MachineInv, MemoryInv, UNCHANGED <<procs, now>>,
           closing'.known \subseteq closing.known \cup Ids(Live),
           closing'.owned \subseteq closing.owned \cup Ids(Owned),
           closing'.pinned \subseteq closing.pinned \cup closing'.owned
    PROVE  MachineInv' /\ MemoryInv'
<1>1. /\ MachineInv' /\ Live' = Live /\ Desktops' = Desktops
      /\ \A p \in Live : Id(p)' = Id(p)
  BY SameMachine
<1>2. \A x \in Ids(Live) : \E q \in Live : x[1] = q /\ x[2] = procs[q].started
  BY LiveTypes DEF Ids
<1>3. \A x \in Ids(Owned) : x \in Ids(Live)
  BY DEF Ids, Owned, Trusted
<1>4. \A x \in Ids(Live) : x[2] <= now
  BY <1>2 DEF MachineInv
<1>5. \A x \in (closing.known \cup closing.owned \cup closing.pinned)' : x[2] <= now'
  <2>1. \A x \in closing.known \cup closing.owned \cup closing.pinned : x[2] <= now
    BY DEF MemoryInv
  <2>2. (closing.known \cup closing.owned \cup closing.pinned)'
           \subseteq closing.known \cup closing.owned \cup closing.pinned \cup Ids(Live)
    BY <1>3
  <2> QED BY <1>4, <2>1, <2>2
<1>6. \A x \in closing'.known, p \in Live : x[2] = procs[p].started => x[1] = p
  <2> SUFFICES ASSUME NEW x \in closing'.known, NEW p \in Live, x[2] = procs[p].started
               PROVE  x[1] = p
    OBVIOUS
  <2>1. CASE x \in closing.known
    BY <2>1 DEF MemoryInv
  <2>2. CASE x \in Ids(Live)
    <3>1. PICK q \in Live : x[1] = q /\ x[2] = procs[q].started
      BY <1>2, <2>2
    <3>2. \A r \in Live : procs[r].started = procs[p].started => r = p
      BY DEF MachineInv
    <3> QED BY <3>1, <3>2
  <2> QED BY <2>1, <2>2
<1>7. \A x \in closing'.known, p \in Live :
         x[2] = procs[p].up => x[1] = procs[p].parent
  <2> SUFFICES ASSUME NEW x \in closing'.known, NEW p \in Live, x[2] = procs[p].up
               PROVE  x[1] = procs[p].parent
    OBVIOUS
  <2>1. CASE x \in closing.known
    BY <2>1 DEF MemoryInv
  <2>2. CASE x \in Ids(Live)
    <3>1. PICK q \in Live : x[1] = q /\ x[2] = procs[q].started
      BY <1>2, <2>2
    <3>2. \A r \in Live : procs[r].started = procs[p].up => r = procs[p].parent
      BY DEF MachineInv
    <3> QED BY <3>1, <3>2
  <2> QED BY <2>1, <2>2
<1>8. \A p \in Live : Id(p) \in (closing.owned \cup closing.pinned)' => procs[p].root # 0
  <2> SUFFICES ASSUME NEW p \in Live, Id(p) \in (closing.owned \cup closing.pinned)'
               PROVE  procs[p].root # 0
    OBVIOUS
  <2>1. CASE Id(p) \in closing.owned \cup closing.pinned
    BY <2>1 DEF MemoryInv
  <2>2. CASE Id(p) \in Ids(Owned)
    <3>1. PICK q \in Owned : Id(p) = Id(q)
      BY <2>2 DEF Ids
    <3>2. q \in Live /\ procs[q].root # 0
      BY <3>1, OwnedHaveRoots
    <3>3. p = q
      BY <3>1, <3>2, LiveTypes
    <3> QED BY <3>2, <3>3
  <2> QED BY <2>1, <2>2
<1> QED BY <1>1, <1>5, <1>6, <1>7, <1>8 DEF MemoryInv

\* What the queries see runs.
LEMMA QueriesSeeLive ==
    /\ Related \subseteq Live /\ Owned \subseteq Live /\ Desktops \subseteq Live
    /\ \A ids : Among(ids) \subseteq Live /\ Ids(Among(ids)) \subseteq ids
    /\ \A S : S \subseteq Live => Ids(S) \subseteq Ids(Live)
    /\ \A p \in Live \ Related : procs[p].kind = "runtime"
BY DEF Related, Owned, Trusted, Desktops, Among, Ids

LEMMA IdsAreIdentities ==
    ASSUME ClosingTypeOK
    PROVE  Ids(Live) \subseteq Identities
BY LiveTypes DEF Ids

\* When a query shows nobody who is known or related, what still runs are
\* independent command lines.
LEMMA NobodyLeft ==
    ASSUME NEW known, Among(known \cup Ids(Related)) = {}
    PROVE  /\ Ids(Related) = {}
           /\ \A p \in Live : Id(p) \notin known /\ procs[p].kind = "runtime"
<1>1. \A p \in Live : Id(p) \notin known \cup Ids(Related)
  BY DEF Among
<1>2. \A p \in Related : p \in Live /\ Id(p) \in Ids(Related)
  BY QueriesSeeLive DEF Ids
<1>3. Related = {}
  BY <1>1, <1>2
<1> QED BY <1>1, <1>3, QueriesSeeLive DEF Ids

LEMMA CloseBeginsKeeps ==
    ASSUME CloseInv, CloseBegins
    PROVE  CloseInv'
<1>1. /\ closing' = [closing EXCEPT !.pc = "observe", !.attempted = FALSE, !.pinned = {}]
      /\ killed' = {} /\ late' = FALSE /\ UNCHANGED <<procs, now, turn, reopened>>
  BY DEF CloseBegins, Moves
<1>2. ClosingTypeOK /\ MachineInv /\ MemoryInv
  BY DEF CloseInv
<1>3. /\ closing'.pc = "observe" /\ closing'.attempted = FALSE /\ closing'.pinned = {}
      /\ closing'.known = closing.known /\ closing'.owned = closing.owned
  BY <1>1, <1>2 DEF ClosingTypeOK
<1>4. late' \in BOOLEAN
  BY <1>1, Zenon
<1>5. ClosingTypeOK'
  BY <1>1, <1>2, <1>4 DEF ClosingTypeOK
<1>6. MachineInv' /\ MemoryInv'
  BY <1>1, <1>2, <1>3, MemoryKeeps
<1>7. GuardInv' /\ OnlyDesktopKilled' /\ ClosedIsClosed'
  BY <1>1, <1>3 DEF GuardInv, OnlyDesktopKilled, ClosedIsClosed
<1> QED BY <1>5, <1>6, <1>7 DEF CloseInv

LEMMA ObserveKeeps ==
    ASSUME CloseInv, Observe
    PROVE  CloseInv'
<1> DEFINE seen  == Ids(Among(closing.known) \cup Related)
           ours  == Ids({p \in Among(closing.owned) \cup Owned : procs[p].trusted})
           place == IF closing.pc = "observe"
                    THEN IF seen = {} THEN "closed" ELSE "observe again"
                    ELSE IF seen = {} THEN "turns" ELSE "query"
<1>1. /\ closing.pc \in {"observe", "observe again"}
      /\ closing' = [closing EXCEPT !.pc = place, !.known = seen,
                                    !.desktops = Ids(Desktops) \cap seen, !.owned = ours]
      /\ reopened' = FALSE /\ UNCHANGED <<procs, now, turn, killed, late>>
  BY DEF Observe, Moves
<1>2. ClosingTypeOK /\ MachineInv /\ MemoryInv /\ GuardInv /\ OnlyDesktopKilled
  BY DEF CloseInv
<1>3. /\ seen \subseteq Ids(Live) /\ seen \subseteq Identities
      /\ ours \subseteq closing.owned \cup Ids(Owned) /\ ours \subseteq Ids(Live)
  BY <1>2, QueriesSeeLive, IdsAreIdentities DEF Ids, Among, Owned, Trusted
<1>4. seen = {} => \A p \in Live : procs[p].kind = "runtime"
  <2>1. seen = {} => Related = {}
    BY DEF Ids
  <2> QED BY <2>1, QueriesSeeLive
<1>5. place \in {"closed", "observe again", "turns", "query"}
      /\ (place \in {"closed", "turns"} => seen = {})
  OBVIOUS
<1> HIDE DEF seen, ours, place
<1>6. /\ closing'.pc = place /\ closing'.known = seen /\ closing'.owned = ours
      /\ closing'.pinned = closing.pinned /\ closing'.attempted = closing.attempted
  BY <1>1, <1>2 DEF ClosingTypeOK
<1>7. reopened' \in BOOLEAN
  BY <1>1, Zenon
<1>8. ClosingTypeOK'
  <2>1. Ids(Desktops) \cap seen \subseteq Identities /\ ours \subseteq Identities
    BY <1>2, <1>3, IdsAreIdentities
  <2> QED BY <1>1, <1>2, <1>3, <1>5, <1>7, <2>1 DEF ClosingTypeOK
<1>9. MachineInv' /\ MemoryInv'
  BY <1>1, <1>2, <1>3, <1>6, MemoryKeeps
<1>10. GuardInv' /\ OnlyDesktopKilled'
  BY <1>1, <1>2, <1>5, <1>6 DEF GuardInv, OnlyDesktopKilled
<1>11. ClosedIsClosed'
  <2>1. closing'.attempted = FALSE
    BY <1>1, <1>2, <1>6 DEF GuardInv, ClosingTypeOK
  <2>2. Live' = Live
    BY <1>1 DEF Live
  <2> QED BY <1>1, <1>4, <1>5, <1>6, <2>1, <2>2 DEF ClosedIsClosed
<1> QED BY <1>8, <1>9, <1>10, <1>11 DEF CloseInv

LEMMA QueryKeeps ==
    ASSUME CloseInv, Query
    PROVE  CloseInv'
<1> DEFINE known == closing.known \cup Ids(Related)
           left  == Among(known)
           owned == closing.owned \cup Ids(Owned)
<1>1. /\ closing.pc = "query" /\ reopened' = FALSE
      /\ UNCHANGED <<procs, now, turn, killed, late>>
      /\ \/ /\ left = {}
            /\ closing' = [closing EXCEPT !.pc = "turns", !.known = known]
         \/ /\ \A p \in left : Id(p) \in owned
            /\ closing' = [closing EXCEPT !.pc = "pin", !.known = known, !.owned = owned,
                                          !.pinned = Ids(left), !.attempted = TRUE]
  BY DEF Query, Moves, Targets, Attempted
<1>2. ClosingTypeOK /\ MachineInv /\ MemoryInv /\ GuardInv /\ OnlyDesktopKilled
  BY DEF CloseInv
<1>3. /\ known \subseteq closing.known \cup Ids(Live) /\ known \subseteq Identities
      /\ owned \subseteq Identities /\ Ids(left) \subseteq Identities /\ left \subseteq Live
  <2>1. Ids(Related) \subseteq Ids(Live) /\ Ids(Owned) \subseteq Ids(Live)
        /\ left \subseteq Live /\ Ids(left) \subseteq Ids(Live)
    BY QueriesSeeLive
  <2>2. closing.known \subseteq Identities /\ closing.owned \subseteq Identities
    BY <1>2 DEF ClosingTypeOK
  <2> QED BY <1>2, <2>1, <2>2, IdsAreIdentities
<1>4. left = {} => /\ known = closing.known
                   /\ \A p \in Live : Id(p) \notin closing.known /\ procs[p].kind = "runtime"
  BY NobodyLeft
<1>5. \A x, y \in Ids(left) : x[1] = y[1] => x = y
  <2>1. \A p \in left : Id(p)[1] = p
    BY <1>2, <1>3, LiveTypes
  <2> QED BY <2>1 DEF Ids
<1>6. (\A p \in left : Id(p) \in owned) => Ids(left) \subseteq owned
  BY DEF Ids
<1> HIDE DEF known, left, owned
<1>7. reopened' \in BOOLEAN
  BY <1>1, Zenon
<1>8. CASE closing' = [closing EXCEPT !.pc = "turns", !.known = known] /\ left = {}
  <2>1. /\ closing'.pc = "turns" /\ closing'.known = known /\ closing'.owned = closing.owned
        /\ closing'.pinned = closing.pinned /\ closing'.attempted = closing.attempted
    BY <1>2, <1>8 DEF ClosingTypeOK
  <2>2. ClosingTypeOK'
    BY <1>1, <1>2, <1>3, <1>7, <1>8 DEF ClosingTypeOK
  <2>3. MachineInv' /\ MemoryInv'
    BY <1>1, <1>2, <1>3, <2>1, MemoryKeeps
  <2>4. GuardInv' /\ OnlyDesktopKilled'
    BY <1>1, <1>2, <2>1 DEF GuardInv, OnlyDesktopKilled
  <2>5. closing'.attempted = FALSE /\ Live' = Live /\ \A p \in Live : Id(p)' = Id(p)
    BY <1>1, <1>2, <2>1, SameMachine DEF GuardInv, ClosingTypeOK
  <2>6. ClosedIsClosed'
    BY <1>1, <1>4, <1>8, <2>1, <2>5 DEF ClosedIsClosed
  <2> QED BY <2>2, <2>3, <2>4, <2>6 DEF CloseInv
<1>9. CASE /\ closing' = [closing EXCEPT !.pc = "pin", !.known = known, !.owned = owned,
                                         !.pinned = Ids(left), !.attempted = TRUE]
           /\ \A p \in left : Id(p) \in owned
  <2>1. /\ closing'.pc = "pin" /\ closing'.known = known /\ closing'.owned = owned
        /\ closing'.pinned = Ids(left)
    BY <1>2, <1>9 DEF ClosingTypeOK
  <2>2. ClosingTypeOK'
    BY <1>1, <1>2, <1>3, <1>5, <1>7, <1>9 DEF ClosingTypeOK
  <2>3. owned \subseteq closing.owned \cup Ids(Owned)
    BY DEF owned
  <2>4. MachineInv' /\ MemoryInv'
    BY <1>1, <1>2, <1>3, <1>6, <1>9, <2>1, <2>3, MemoryKeeps
  <2>5. GuardInv' /\ OnlyDesktopKilled' /\ ClosedIsClosed'
    BY <1>1, <1>2, <2>1 DEF GuardInv, OnlyDesktopKilled, ClosedIsClosed
  <2> QED BY <2>2, <2>4, <2>5 DEF CloseInv
<1> QED BY <1>1, <1>8, <1>9

LEMMA PinKeeps ==
    ASSUME CloseInv, Pin
    PROVE  CloseInv'
<1>1. /\ closing.pc = "pin"
      /\ closing' = [closing EXCEPT !.pc = "guard",
                                    !.pinned = {x \in closing.pinned : x[1] \in Live}]
      /\ UNCHANGED <<procs, now, turn, killed, late, reopened>>
  BY DEF Pin, Moves, CloseInv, ClosingTypeOK
<1>2. ClosingTypeOK /\ MachineInv /\ MemoryInv /\ GuardInv /\ OnlyDesktopKilled
  BY DEF CloseInv
<1>3. /\ closing'.pc = "guard" /\ closing'.known = closing.known
      /\ closing'.owned = closing.owned /\ closing'.pinned \subseteq closing.pinned
  BY <1>1, <1>2 DEF ClosingTypeOK
<1>4. ClosingTypeOK'
  BY <1>1, <1>2 DEF ClosingTypeOK
<1>5. MachineInv' /\ MemoryInv'
  BY <1>1, <1>2, <1>3, MemoryKeeps
<1>6. GuardInv' /\ OnlyDesktopKilled' /\ ClosedIsClosed'
  BY <1>1, <1>2, <1>3 DEF GuardInv, OnlyDesktopKilled, ClosedIsClosed
<1> QED BY <1>4, <1>5, <1>6 DEF CloseInv

\* The guardian goes on to a place where it has nothing new to remember.
LEMMA GoesToKeeps ==
    ASSUME CloseInv, NEW place, GoesTo(place),
           place \in {"kill", "wait", "closed", "refused", "idle"},
           place = "kill" => closing.pc = "guard" /\ ~ TurnActive /\ late' = FALSE,
           place = "closed" => closing.pc = "turns",
           late' = late \/ place = "kill",
           UNCHANGED <<procs, killed, reopened>>
    PROVE  CloseInv'
<1>1. closing' = [closing EXCEPT !.pc = place] /\ UNCHANGED <<now, turn>>
  BY DEF GoesTo, Moves
<1>2. /\ ClosingTypeOK /\ MachineInv /\ MemoryInv /\ GuardInv
      /\ OnlyDesktopKilled /\ ClosedIsClosed
  BY DEF CloseInv
<1>3. /\ closing'.pc = place /\ closing'.known = closing.known
      /\ closing'.owned = closing.owned /\ closing'.pinned = closing.pinned
      /\ closing'.attempted = closing.attempted
  BY <1>1, <1>2 DEF ClosingTypeOK
<1>4. late' \in BOOLEAN
  <2>1. CASE late' = late
    BY <1>2, <2>1, Zenon DEF ClosingTypeOK
  <2>2. CASE late' = FALSE
    BY <2>2, Zenon
  <2> QED BY <2>1, <2>2
<1>5. ClosingTypeOK'
  BY <1>1, <1>2, <1>4 DEF ClosingTypeOK
<1>6. MachineInv' /\ MemoryInv'
  BY <1>1, <1>2, <1>3, MemoryKeeps
<1>7. /\ Live' = Live /\ Ids(Live)' = Ids(Live)
      /\ \A p \in Live : Id(p)' = Id(p)
  BY <1>1, <1>2, SameMachine
<1>8. GuardInv'
  <2>1. place = "kill" => /\ killed = {}
                          /\ ~ turn \/ Ids(Live) \cap closing.pinned = {}
    BY <1>2 DEF GuardInv, TurnActive, Ids
  <2> QED BY <1>1, <1>3, <1>7, <2>1 DEF GuardInv
<1>9. OnlyDesktopKilled' /\ ClosedIsClosed'
  BY <1>1, <1>2, <1>3, <1>7 DEF OnlyDesktopKilled, ClosedIsClosed
<1> QED BY <1>5, <1>6, <1>8, <1>9 DEF CloseInv

LEMMA StepsKeep ==
    ASSUME CloseInv, Guard \/ Killed \/ LookAgain \/ Refuses \/ CloseAgain
    PROVE  CloseInv'
<1>1. CASE Guard
  BY <1>1, GoesToKeeps DEF Guard
<1>2. CASE Killed
  BY <1>2, GoesToKeeps DEF Killed
<1>3. CASE LookAgain
  BY <1>3, GoesToKeeps DEF LookAgain
<1>4. CASE Refuses
  BY <1>4, GoesToKeeps DEF Refuses, Refuse
<1>5. CASE CloseAgain
  BY <1>5, GoesToKeeps DEF CloseAgain
<1> QED BY <1>1, <1>2, <1>3, <1>4, <1>5

\* A termination hits the process that was pinned, and that one has a desktop.
LEMMA KillKeeps ==
    ASSUME CloseInv, Kill
    PROVE  CloseInv'
<1>1. PICK x \in closing.pinned :
         /\ closing' = [closing EXCEPT !.pinned = closing.pinned \ {x}]
         /\ IF x[1] \in Live /\ Id(x[1]) = x
            THEN /\ procs' = [procs EXCEPT ![x[1]] = NoProcess]
                 /\ killed' = killed \cup {procs[x[1]]}
            ELSE UNCHANGED <<procs, killed>>
  BY DEF Kill, Moves, CloseInv, ClosingTypeOK
<1>2. closing.pc = "kill" /\ UNCHANGED <<now, turn, late, reopened>>
  BY DEF Kill, Moves
<1>3. /\ ClosingTypeOK /\ MachineInv /\ MemoryInv /\ GuardInv
      /\ OnlyDesktopKilled /\ ClosedIsClosed
  BY DEF CloseInv
<1>4. /\ closing'.pc = "kill" /\ closing'.known = closing.known
      /\ closing'.owned = closing.owned /\ closing'.pinned \subseteq closing.pinned
  BY <1>1, <1>2, <1>3 DEF ClosingTypeOK
<1>5. ClosedIsClosed'
  BY <1>4 DEF ClosedIsClosed
<1>6. CASE ~(x[1] \in Live /\ Id(x[1]) = x)
  <2>1. UNCHANGED <<procs, killed>>
    BY <1>1, <1>6
  <2>2. ClosingTypeOK'
    BY <1>1, <1>2, <1>3, <2>1 DEF ClosingTypeOK
  <2>3. MachineInv' /\ MemoryInv'
    BY <1>2, <1>3, <1>4, <2>1, MemoryKeeps
  <2>4. Ids(Live)' = Ids(Live)
    BY <1>2, <1>3, <2>1, SameMachine
  <2>5. GuardInv' /\ OnlyDesktopKilled'
    BY <1>2, <1>3, <1>4, <2>1, <2>4 DEF GuardInv, OnlyDesktopKilled
  <2> QED BY <1>5, <2>2, <2>3, <2>5 DEF CloseInv
<1>7. CASE x[1] \in Live /\ Id(x[1]) = x
  <2>1. /\ procs' = [procs EXCEPT ![x[1]] = NoProcess]
        /\ killed' = killed \cup {procs[x[1]]}
    BY <1>1, <1>7
  <2>2. procs[x[1]] \in Processes /\ procs[x[1]].root # 0
    BY <1>3, <1>7, LiveTypes DEF MemoryInv
  <2>3. /\ procs' \in [Pids -> Processes \cup {NoProcess}] /\ MachineInv'
        /\ Live' = Live \ {x[1]} /\ Desktops' = Desktops \ {x[1]}
        /\ \A q \in Live' : procs'[q] = procs[q]
        /\ Ids(Live)' \subseteq Ids(Live)
    BY <1>2, <1>3, <1>7, <2>1, ProcessEnds
  <2>4. ClosingTypeOK'
    BY <1>1, <1>2, <1>3, <2>1, <2>2, <2>3 DEF ClosingTypeOK
  <2>5. MemoryInv'
    BY <1>2, <1>3, <1>4, <2>3 DEF MemoryInv, Id
  <2>6. x \in Ids(Live) \cap closing.pinned
    BY <1>7 DEF Ids
  <2>7. GuardInv'
    BY <1>2, <1>3, <1>4, <2>6 DEF GuardInv
  <2>8. OnlyDesktopKilled'
    BY <1>3, <2>1, <2>2 DEF OnlyDesktopKilled
  <2> QED BY <1>5, <2>3, <2>4, <2>5, <2>7, <2>8 DEF CloseInv
<1> QED BY <1>6, <1>7

\* The wait ends when nobody is left; what a process it knew has started would
\* be Spawned.
LEMMA WaitKeeps ==
    ASSUME CloseInv, Wait
    PROVE  CloseInv'
<1> DEFINE known == closing.known \cup Ids(Related)
           left  == Among(known)
           place == IF left = {} THEN "turns" ELSE "wait"
<1>1. /\ closing.pc = "wait" /\ Spawned = {} /\ reopened' = FALSE
      /\ closing' = [closing EXCEPT !.pc = place, !.known = known]
      /\ UNCHANGED <<procs, now, turn, killed, late>>
  BY DEF Wait, Moves
<1>2. ClosingTypeOK /\ MachineInv /\ MemoryInv /\ GuardInv /\ OnlyDesktopKilled
  BY DEF CloseInv
<1>3. known \subseteq closing.known \cup Ids(Live) /\ known \subseteq Identities
  <2>1. Ids(Related) \subseteq Ids(Live) /\ closing.known \subseteq Identities
    BY <1>2, QueriesSeeLive DEF ClosingTypeOK
  <2> QED BY <1>2, <2>1, IdsAreIdentities
<1>4. left = {} => /\ known = closing.known
                   /\ \A p \in Live : Id(p) \notin closing.known /\ procs[p].kind = "runtime"
  BY NobodyLeft
<1>5. place \in {"turns", "wait"} /\ (place = "turns" => left = {})
  OBVIOUS
<1> HIDE DEF known, left, place
<1>6. /\ closing'.pc = place /\ closing'.known = known /\ closing'.owned = closing.owned
      /\ closing'.pinned = closing.pinned
  BY <1>1, <1>2 DEF ClosingTypeOK
<1>7. reopened' \in BOOLEAN
  BY <1>1, Zenon
<1>8. ClosingTypeOK'
  BY <1>1, <1>2, <1>3, <1>5, <1>7 DEF ClosingTypeOK
<1>9. MachineInv' /\ MemoryInv'
  BY <1>1, <1>2, <1>3, <1>6, MemoryKeeps
<1>10. GuardInv' /\ OnlyDesktopKilled'
  BY <1>1, <1>2, <1>5, <1>6 DEF GuardInv, OnlyDesktopKilled
<1>11. ClosedIsClosed'
  <2>1. SUFFICES ASSUME left = {}, NEW p \in Live, NEW x \in closing.known,
                        x[2] = procs[p].up
                 PROVE  FALSE
    <3>1. Live' = Live /\ \A p \in Live : Id(p)' = Id(p) /\ procs'[p] = procs[p]
      BY <1>1, <1>2, SameMachine
    <3> QED BY <1>4, <1>5, <1>6, <2>1, <3>1 DEF ClosedIsClosed
  <2>2. Id(p) \notin closing.known /\ procs[p].kind = "runtime"
    BY <1>4, <2>1
  <2>3. x[1] = procs[p].parent
    BY <1>2, <2>1, <2>2 DEF MemoryInv, Desktops
  <2>4. x[2] <= procs[p].started
    BY <1>2, <2>1, LiveTypes DEF MachineInv
  <2>5. p \in Spawned
    BY <2>1, <2>2, <2>3, <2>4 DEF Spawned
  <2> QED BY <1>1, <2>5
<1> QED BY <1>8, <1>9, <1>10, <1>11 DEF CloseInv

\* Every step of the machine and of the guardian keeps the invariant.
LEMMA CloseNextKeeps ==
    ASSUME CloseInv, CloseNext
    PROVE  CloseInv'
BY StartsKeep, ExitKeeps, TurnKeeps, CloseBeginsKeeps, ObserveKeeps, QueryKeeps, PinKeeps,
   KillKeeps, WaitKeeps, StepsKeep DEF CloseNext

LEMMA CloseInitHolds == CloseInit => CloseInv
<1> SUFFICES ASSUME CloseInit PROVE CloseInv
  OBVIOUS
<1>1. Live = {}
  BY DEF CloseInit, Live
<1>2. ClosingTypeOK
  <2>1. 0 \in 0..MaxTime
    BY CloseConstants
  <2> QED BY <2>1 DEF CloseInit, ClosingTypeOK, NotClosing
<1> QED BY <1>1, <1>2 DEF CloseInit, CloseInv, MachineInv, MemoryInv, GuardInv, NotClosing,
                         OnlyDesktopKilled, ClosedIsClosed, Desktops

-----------------------------------------------------------------------------
(* The operations on the directory *)

LEMMA SwitchConstants ==
    /\ Limit \in Nat \ {0} /\ MaxBackups \in Nat /\ MaxStarts \in Nat
    /\ Missing \notin Providers /\ Missing \notin Accounts /\ 0 \in 0..MaxBackups
    /\ \A p \in Profiles : Provider(p) \in Providers
    /\ OpenAI \in Providers
BY SwitchAssumption DEF Providers, Profiles, Provider

LEMMA WithinBound ==
    ASSUME NEW n \in 0..MaxBackups, NEW x \in 1..MaxBackups, x <= n
    PROVE  x \in 1..n
<1>1. MaxBackups \in Nat
  BY SwitchConstants
<1> QED BY <1>1

LEMMA HomeTypes ==
    ASSUME NEW h \in Homes
    PROVE  /\ h.auth \in Accounts \cup {Missing} /\ h.config \in Providers \cup {Missing}
           /\ Reads(h) \in Providers /\ Reads(h) # Missing
           /\ h.db \in History /\ h.roll \in History
           /\ \A t \in Threads : /\ h.db[t] \in Providers \cup {Missing}
                                 /\ h.roll[t] \in Providers \cup {Missing}
BY SwitchConstants DEF Homes, History, Reads

LEMMA MemberOfSeq ==
    ASSUME NEW S, NEW s \in Seq(S), NEW i \in DOMAIN s
    PROVE  s[i] \in S /\ s[i] \in Range(s)
BY DEF Range

\* A new folder has newer others behind it.
LEMMA NamedProperties ==
    ASSUME NEW S, backups \in Seq(S), NEW e \in S, NEW newer \in 0..Len(backups)
    PROVE  LET t == Named(e, newer)
               i == Len(backups) - newer + 1
           IN  /\ t \in Seq(S) /\ Len(t) = Len(backups) + 1
               /\ i \in DOMAIN t /\ t[i] = e /\ Len(t) - i = newer
               /\ Range(t) = Range(backups) \cup {e}
<1> DEFINE n == Len(backups)
           k == n - newer
           a == SubSeq(backups, 1, k)
           m == <<e>>
           c == SubSeq(backups, k + 1, n)
           t == Named(e, newer)
<1>1. /\ n \in Nat /\ k \in Nat /\ k <= n /\ newer \in Nat /\ n - k = newer
      /\ DOMAIN backups = 1..n /\ \A i \in 1..n : backups[i] \in S
      /\ (k + 1) - 1 = k
  OBVIOUS
<1>2. t = (a \o m) \o c
  BY <1>1 DEF Named, InsertAt
<1>3. a \in Seq(S) /\ Len(a) = k /\ \A i \in 1..k : a[i] = backups[i]
  <2>1. \A i \in 1..k : backups[i] \in S
    BY <1>1
  <2>2. /\ a \in Seq(S) /\ Len(a) = IF 1 <= k THEN k - 1 + 1 ELSE 0
        /\ \A i \in 1..(k - 1 + 1) : a[i] = backups[1 + i - 1]
    BY <1>1, <2>1, SubSeqProperties
  <2> HIDE DEF a, k
  <2>3. k - 1 + 1 = k /\ Len(a) = k /\ \A i \in 1..k : 1 + i - 1 = i
    BY <1>1, <2>2
  <2> QED BY <2>2, <2>3
<1>4. c \in Seq(S) /\ Len(c) = newer /\ \A i \in 1..newer : c[i] = backups[k + i]
  <2>1. \A i \in (k + 1)..n : backups[i] \in S
    BY <1>1
  <2>2. /\ c \in Seq(S) /\ Len(c) = IF k + 1 <= n THEN n - (k + 1) + 1 ELSE 0
        /\ \A i \in 1..(n - (k + 1) + 1) : c[i] = backups[(k + 1) + i - 1]
    BY <1>1, <2>1, SubSeqProperties
  <2> HIDE DEF c, k
  <2> QED BY <1>1, <2>2
<1> HIDE DEF a, c, k, n
<1>5. m \in Seq(S) /\ Len(m) = 1 /\ m[1] = e
  OBVIOUS
<1> HIDE DEF m
<1>6. /\ a \o m \in Seq(S) /\ Len(a \o m) = k + 1
      /\ \A i \in 1..(k + 1) : (a \o m)[i] = IF i <= k THEN a[i] ELSE m[i - k]
  <2>1. /\ a \o m \in Seq(S) /\ Len(a \o m) = Len(a) + Len(m)
        /\ \A i \in 1..(Len(a) + Len(m)) :
              (a \o m)[i] = IF i <= Len(a) THEN a[i] ELSE m[i - Len(a)]
    BY <1>3, <1>5, ConcatProperties
  <2> QED BY <1>3, <1>5, <2>1
<1>7. /\ t \in Seq(S) /\ Len(t) = (k + 1) + newer
      /\ \A i \in 1..((k + 1) + newer) :
            t[i] = IF i <= k + 1 THEN (a \o m)[i] ELSE c[i - (k + 1)]
  <2> DEFINE am == a \o m
  <2>1. am \in Seq(S) /\ Len(am) = k + 1
    BY <1>6
  <2>2. t = am \o c
    BY <1>2
  <2> HIDE DEF am
  <2>3. /\ am \o c \in Seq(S) /\ Len(am \o c) = Len(am) + Len(c)
        /\ \A i \in 1..(Len(am) + Len(c)) :
              (am \o c)[i] = IF i <= Len(am) THEN am[i] ELSE c[i - Len(am)]
    BY <1>4, <2>1, ConcatProperties
  <2>4. /\ t \in Seq(S) /\ Len(t) = (k + 1) + newer
        /\ \A i \in 1..((k + 1) + newer) :
              t[i] = IF i <= k + 1 THEN am[i] ELSE c[i - (k + 1)]
    BY <1>4, <2>1, <2>2, <2>3
  <2> QED BY <2>4 DEF am
<1> HIDE DEF t
<1>8. Len(t) = n + 1 /\ DOMAIN t = 1..(n + 1) /\ k + 1 \in 1..(n + 1)
  BY <1>1, <1>7
<1>9. /\ \A i \in 1..k : t[i] = backups[i]
      /\ t[k + 1] = e
      /\ \A i \in (k + 1)..n : t[i + 1] = backups[i]
  <2>1. ASSUME NEW i \in 1..k PROVE t[i] = backups[i]
    <3>1. i \in 1..((k + 1) + newer) /\ i \in 1..(k + 1) /\ i <= k /\ i <= k + 1
      BY <1>1
    <3> QED BY <1>3, <1>6, <1>7, <3>1
  <2>2. t[k + 1] = e
    <3>1. /\ k + 1 \in 1..((k + 1) + newer) /\ k + 1 \in 1..(k + 1) /\ ~(k + 1 <= k)
          /\ k + 1 <= k + 1 /\ (k + 1) - k = 1
      BY <1>1
    <3> QED BY <1>5, <1>6, <1>7, <3>1
  <2>3. ASSUME NEW i \in (k + 1)..n PROVE t[i + 1] = backups[i]
    <3>1. /\ i + 1 \in 1..((k + 1) + newer) /\ ~(i + 1 <= k + 1)
          /\ (i + 1) - (k + 1) = i - k /\ i - k \in 1..newer /\ k + (i - k) = i
      BY <1>1
    <3> QED BY <1>4, <1>7, <3>1
  <2> QED BY <2>1, <2>2, <2>3
<1>10. Range(t) \subseteq Range(backups) \cup {e}
  <2> SUFFICES ASSUME NEW i \in 1..(n + 1) PROVE t[i] \in Range(backups) \cup {e}
    BY <1>8 DEF Range
  <2>1. CASE i <= k
    <3>1. i \in 1..k /\ i \in DOMAIN backups
      BY <1>1, <2>1
    <3> QED BY <1>9, <3>1 DEF Range
  <2>2. CASE i = k + 1
    BY <1>9, <2>2
  <2>3. CASE i > k + 1
    <3>1. i - 1 \in (k + 1)..n /\ (i - 1) + 1 = i /\ i - 1 \in DOMAIN backups
      BY <1>1, <2>3
    <3> QED BY <1>9, <3>1 DEF Range
  <2> QED BY <1>1, <2>1, <2>2, <2>3
<1>11. Range(backups) \cup {e} \subseteq Range(t)
  <2>1. e \in Range(t)
    BY <1>8, <1>9 DEF Range
  <2>2. ASSUME NEW i \in 1..n PROVE backups[i] \in Range(t)
    <3>1. CASE i <= k
      <4>1. i \in 1..k /\ i \in DOMAIN t
        BY <1>1, <1>8, <3>1
      <4> QED BY <1>9, <4>1 DEF Range
    <3>2. CASE ~(i <= k)
      <4>1. i \in (k + 1)..n /\ i + 1 \in DOMAIN t
        BY <1>1, <1>8, <3>2
      <4> QED BY <1>9, <4>1 DEF Range
    <3> QED BY <3>1, <3>2
  <2> QED BY <1>1, <2>1, <2>2 DEF Range
<1>12. /\ Len(backups) = n /\ Len(backups) - newer + 1 = k + 1
       /\ (n + 1) - (k + 1) = newer /\ t = Named(e, newer)
  BY <1>1 DEF n, k, t
<1> QED BY <1>7, <1>8, <1>9, <1>10, <1>11, <1>12

\* Pruning keeps folders that are there, and each one behind which there are
\* fewer than Limit.
LEMMA PrunedKeepsLast ==
    ASSUME NEW S, NEW s \in Seq(S)
    PROVE  /\ Pruned(s) \in Seq(S) /\ Range(Pruned(s)) \subseteq Range(s)
           /\ \A i \in DOMAIN s : Len(s) - i < Limit => s[i] \in Range(Pruned(s))
<1> DEFINE k == Max({0, Len(s) - Limit})
           p == SubSeq(s, 1 + k, Len(s))
<1>1. Len(s) \in Nat /\ Limit \in Nat /\ Limit >= 1 /\ DOMAIN s = 1..Len(s)
      /\ \A i \in 1..Len(s) : s[i] \in S
  BY SwitchConstants
<1>2. k \in {0, Len(s) - Limit} /\ k >= 0
  <2>1. \E x \in {0, Len(s) - Limit} : \A y \in {0, Len(s) - Limit} : x >= y
    <3>1. CASE Len(s) - Limit >= 0
      BY <1>1, <3>1
    <3>2. CASE ~(Len(s) - Limit >= 0)
      BY <1>1, <3>2
    <3> QED BY <3>1, <3>2
  <2>2. /\ k \in {0, Len(s) - Limit}
        /\ \A y \in {0, Len(s) - Limit} : k >= y
    BY <2>1 DEF Max
  <2> QED BY <2>2
<1>3. /\ k \in Nat /\ k <= Len(s) /\ Len(s) - k \in Nat
      /\ Len(s) > 0 => Len(s) - k >= 1
  BY <1>1, <1>2
<1> HIDE DEF k
<1>4. /\ p \in Seq(S) /\ Len(p) = Len(s) - k /\ DOMAIN p = 1..(Len(s) - k)
      /\ \A i \in 1..(Len(s) - k) : p[i] = s[k + i]
  <2>1. /\ 1 + k \in 1..(Len(s) + 1) /\ Len(s) \in ((1 + k) - 1)..Len(s)
        /\ Len(s) - (1 + k) + 1 = Len(s) - k /\ Len(s) - k \in Nat
    BY <1>1, <1>3
  <2>2. /\ p \in Seq(S) /\ Len(p) = Len(s) - (1 + k) + 1
        /\ \A i \in 1..(Len(s) - (1 + k) + 1) : p[i] = s[(1 + k) + i - 1]
    BY <2>1, SubSeqProperties
  <2> HIDE DEF p
  <2>3. Len(p) = Len(s) - k
    BY <2>1, <2>2
  <2>4. DOMAIN p = 1..(Len(s) - k)
    BY <2>2, <2>3
  <2>5. \A i \in 1..(Len(s) - k) : (1 + k) + i - 1 = k + i
    BY <1>3
  <2>6. \A i \in 1..(Len(s) - k) : p[i] = s[k + i]
    BY <2>1, <2>2, <2>5
  <2> QED BY <2>2, <2>3, <2>4, <2>6
<1>5. Range(p) \subseteq Range(s)
  <2> SUFFICES ASSUME NEW i \in 1..(Len(s) - k) PROVE p[i] \in Range(s)
    BY <1>4 DEF Range
  <2>1. k + i \in DOMAIN s
    BY <1>1, <1>3
  <2> QED BY <1>4, <2>1 DEF Range
<1>6. ASSUME NEW i \in DOMAIN s, Len(s) - i < Limit
      PROVE  s[i] \in Range(p)
  <2>1. i - k \in 1..(Len(s) - k) /\ k + (i - k) = i
    <3>1. i \in 1..Len(s)
      BY <1>1
    <3>2. i > k
      <4>1. CASE k = 0
        BY <3>1, <4>1
      <4>2. CASE k = Len(s) - Limit
        BY <1>1, <1>6, <3>1, <4>2
      <4> QED BY <1>2, <4>1, <4>2
    <3> QED BY <1>1, <1>3, <3>1, <3>2
  <2>2. i - k \in DOMAIN p /\ p[i - k] = s[i]
    BY <1>4, <2>1
  <2> QED BY <2>2 DEF Range
<1>7. Pruned(s) = p
  BY DEF Pruned, k
<1> QED BY <1>4, <1>5, <1>6, <1>7

\* A folder is found by its number.
LEMMA HeldIsStored ==
    ASSUME BackupInv, NEW id, NEW h, [id |-> id, home |-> h] \in Range(backups)
    PROVE  Held(id) = h
<1> DEFINE b == [id |-> id, home |-> h]
<1>1. b \in Stored(id)
  BY DEF Stored
<1>2. \A c \in Stored(id) : c = b
  BY DEF Stored, BackupInv
<1>3. Stored(id) = {b}
  BY <1>1, <1>2
<1>4. (CHOOSE c \in Stored(id) : TRUE) = b
  BY <1>3
<1> QED BY <1>3, <1>4 DEF Held

LEMMA FolderTypes ==
    ASSUME BackupInv, NEW b \in Range(backups)
    PROVE  b \in Folders /\ b.id \in 1..MaxBackups /\ b.home \in Homes
           /\ b = [id |-> b.id, home |-> b.home]
<1>1. PICK i \in DOMAIN backups : b = backups[i]
  BY DEF Range
<1>2. b \in Folders
  BY <1>1 DEF BackupInv
<1> QED BY <1>2 DEF Folders

\* Whatever folder is put back, the directory is one.
LEMMA HeldIsHome ==
    ASSUME TypeOK, BackupInv, NEW id
    PROVE  Held(id) \in Homes
<1>1. CASE Stored(id) = {}
  BY <1>1 DEF Held, TypeOK
<1>2. CASE Stored(id) # {}
  <2>1. (CHOOSE b \in Stored(id) : TRUE) \in Range(backups)
    BY <1>2 DEF Stored
  <2> QED BY <1>2, <2>1, FolderTypes DEF Held
<1> QED BY <1>1, <1>2

\* In the middle of an operation nothing is reported yet.
LEMMA NothingReported ==
    ASSUME pc' # "idle"
    PROVE  SuccessIsExact' /\ FailureLosesNothing'
BY DEF SuccessIsExact, SwitchIsWhole, RestoreIsExact, FailureLosesNothing, RollbackIsExact,
       InterruptionCanBeUndone, Kept

\* The parts of the invariant.
LEMMA SwitchParts ==
    ASSUME SwitchInv
    PROVE  /\ TypeOK /\ BackupInv /\ OperationInv /\ SavedInv /\ RestoreInv /\ MigrationInv
           /\ SwitchIsWhole /\ RestoreIsExact /\ RollbackIsExact /\ InterruptionCanBeUndone
           /\ home \in Homes /\ job \in Jobs /\ job.target \in Providers
           /\ job.before \in Homes /\ job.chosen \in Homes
           /\ raced \in BOOLEAN /\ job.undo \in BOOLEAN /\ job.saved \in BOOLEAN
BY DEF SwitchInv, SuccessIsExact, FailureLosesNothing, TypeOK, Jobs

\* The user starts Codex.  In the middle of an operation all is off; afterwards
\* it reads the configuration that the operation left.
LEMMA StartCodexKeeps ==
    ASSUME SwitchInv, StartCodex
    PROVE  SwitchInv'
<1>1. /\ codex = Missing /\ starts < MaxStarts /\ codex' = Reads(home)
      /\ starts' = starts + 1 /\ raced' = (raced \/ pc # "idle")
      /\ UNCHANGED <<home, current, backups, taken, pc, job, verdict>>
  BY DEF StartCodex
<1>2. /\ TypeOK /\ BackupInv /\ OperationInv /\ SavedInv /\ RestoreInv /\ MigrationInv
      /\ SwitchIsWhole /\ home \in Homes
  BY SwitchParts
<1>3. Reads(home) \in Providers /\ Reads(home) # Missing /\ Reads(home)' = Reads(home)
  BY <1>1, <1>2, HomeTypes DEF Reads
<1>4. raced' \in BOOLEAN
  BY <1>1, <1>2, Zenon DEF TypeOK
<1>5. TypeOK'
  <2>1. starts' \in 0..MaxStarts
    <3>1. starts \in 0..MaxStarts
      BY <1>2 DEF TypeOK
    <3> QED BY <1>1, <3>1, SwitchConstants
  <2> QED BY <1>1, <1>2, <1>3, <1>4, <2>1 DEF TypeOK
<1>6. BackupInv' /\ OperationInv'
  BY <1>1, <1>2 DEF BackupInv, OperationInv, Restoring, Undoing
<1>7. SavedInv' /\ RestoreInv'
  BY <1>1, <1>2, <1>3 DEF SavedInv, RestoreInv, Restoring, Undoing, Kept
<1>8. MigrationInv'
  BY <1>1, <1>2 DEF MigrationInv, Migrated, SwitchIsWhole
<1>9. SuccessIsExact' /\ FailureLosesNothing'
  BY <1>1, <1>2, <1>3 DEF SuccessIsExact, FailureLosesNothing, SwitchIsWhole, RestoreIsExact,
                          RollbackIsExact, InterruptionCanBeUndone, Kept
<1> QED BY <1>5, <1>6, <1>7, <1>8, <1>9 DEF SwitchInv

\* A Codex that runs writes: after a switch only what the switch has written
\* already, and during an operation only when the user started it or an edit
\* did.
LEMMA CodexKeeps ==
    ASSUME SwitchInv, codex # Missing,
           UNCHANGED <<current, codex, backups, taken, starts, pc, job, verdict, raced>>,
           home' \in Homes, home'.config = home.config,
           \A t \in Threads :
              /\ home'.roll[t] \in {home.roll[t], codex}
              /\ home'.db[t] \in {home.db[t], home.roll[t]}
    PROVE  SwitchInv'
<1>1. /\ TypeOK /\ BackupInv /\ OperationInv /\ SavedInv /\ RestoreInv /\ MigrationInv
      /\ SwitchIsWhole
  BY SwitchParts
<1>2. TypeOK' /\ BackupInv' /\ OperationInv'
  <2>1. TypeOK' /\ BackupInv'
    BY <1>1 DEF TypeOK, BackupInv
  <2>2. OperationInv'
    BY <1>1 DEF OperationInv, Restoring, Undoing
  <2> QED BY <2>1, <2>2
<1>3. SavedInv' /\ RestoreInv'
  BY <1>1 DEF SavedInv, RestoreInv, Restoring, Undoing, Kept
<1>4. MigrationInv'
  <2>1. pc # "idle" /\ ~raced => job.op = "edit"
    BY <1>1 DEF SavedInv, Restoring, Undoing, Kept
  <2> QED BY <1>1, <2>1 DEF MigrationInv
<1>5. SwitchIsWhole'
  <2> SUFFICES ASSUME pc = "idle", verdict = "done", job.op \in {"switch", "repair"}, ~raced
               PROVE  /\ Reads(home') = job.target
                      /\ \A t \in Threads :
                            {home'.db[t], home'.roll[t]} \subseteq {job.target, Missing}
                      /\ job.op = "switch" => current = job.profile
    BY DEF SwitchIsWhole
  <2>1. /\ Reads(home) = job.target
        /\ \A t \in Threads : {home.db[t], home.roll[t]} \subseteq {job.target, Missing}
        /\ job.op = "switch" => current = job.profile
        /\ codex = job.target
    BY <1>1 DEF SwitchIsWhole, MigrationInv
  <2>2. Reads(home') = Reads(home)
    BY DEF Reads
  <2> QED BY <2>1, <2>2
<1>6. RestoreIsExact' /\ FailureLosesNothing'
  BY DEF FailureLosesNothing, RestoreIsExact, RollbackIsExact, InterruptionCanBeUndone, Kept
<1> QED BY <1>2, <1>3, <1>4, <1>5, <1>6 DEF SwitchInv, SuccessIsExact

LEMMA CodexWrites ==
    ASSUME SwitchInv,
           \/ \E t \in Threads : CodexStartsChat(t) \/ CodexWritesRow(t)
           \/ \E p \in Accounts : CodexLogsIn(p)
    PROVE  SwitchInv'
<1>1. TypeOK /\ home \in Homes
  BY SwitchParts
<1>2. codex # Missing => codex \in Providers
  BY <1>1 DEF TypeOK
<1>3. CASE \E t \in Threads : CodexStartsChat(t)
  <2>1. PICK t \in Threads : CodexStartsChat(t)
    BY <1>3
  <2>2. /\ codex # Missing /\ home' = [home EXCEPT !.roll[t] = codex]
        /\ UNCHANGED <<current, codex, backups, taken, starts, pc, job, verdict, raced>>
    BY <2>1 DEF CodexStartsChat
  <2>3. home' \in Homes
    BY <1>1, <1>2, <2>2 DEF Homes, History
  <2>4. /\ home'.config = home.config /\ home'.db = home.db
        /\ home'.roll = [home.roll EXCEPT ![t] = codex]
    BY <1>1, <2>2 DEF Homes
  <2>5. \A u \in Threads : home'.roll[u] \in {home.roll[u], codex}
    BY <1>1, <2>4 DEF Homes, History
  <2> QED BY <2>2, <2>3, <2>4, <2>5, CodexKeeps
<1>4. CASE \E t \in Threads : CodexWritesRow(t)
  <2>1. PICK t \in Threads : CodexWritesRow(t)
    BY <1>4
  <2>2. /\ codex # Missing /\ home' = [home EXCEPT !.db[t] = home.roll[t]]
        /\ UNCHANGED <<current, codex, backups, taken, starts, pc, job, verdict, raced>>
    BY <2>1 DEF CodexWritesRow
  <2>3. home' \in Homes
    BY <1>1, <2>2 DEF Homes, History
  <2>4. /\ home'.config = home.config /\ home'.roll = home.roll
        /\ home'.db = [home.db EXCEPT ![t] = home.roll[t]]
    BY <1>1, <2>2 DEF Homes
  <2>5. \A u \in Threads : home'.db[u] \in {home.db[u], home.roll[u]}
    BY <1>1, <2>4 DEF Homes, History
  <2> QED BY <2>2, <2>3, <2>4, <2>5, CodexKeeps
<1>5. CASE \E p \in Accounts : CodexLogsIn(p)
  <2>1. PICK p \in Accounts : CodexLogsIn(p)
    BY <1>5
  <2>2. /\ codex # Missing /\ home' = [home EXCEPT !.auth = p]
        /\ UNCHANGED <<current, codex, backups, taken, starts, pc, job, verdict, raced>>
    BY <2>1, SwitchConstants DEF CodexLogsIn, Providers
  <2>3. home' \in Homes
    BY <1>1, <2>2 DEF Homes
  <2>4. home'.config = home.config /\ home'.roll = home.roll /\ home'.db = home.db
    BY <1>1, <2>2 DEF Homes
  <2> QED BY <2>2, <2>3, <2>4, CodexKeeps
<1> QED BY <1>3, <1>4, <1>5

LEMMA DeleteKeeps ==
    ASSUME SwitchInv, NEW t \in Threads, UserDeletesChat(t)
    PROVE  SwitchInv'
<1>1. /\ pc = "idle" /\ home' = [home EXCEPT !.roll[t] = Missing]
      /\ UNCHANGED <<current, codex, backups, taken, starts, pc, job, verdict, raced>>
  BY DEF UserDeletesChat
<1>2. /\ TypeOK /\ BackupInv /\ OperationInv /\ SavedInv /\ RestoreInv /\ MigrationInv
      /\ SwitchIsWhole /\ RestoreIsExact /\ RollbackIsExact /\ InterruptionCanBeUndone
      /\ home \in Homes
  BY SwitchParts
<1>3. home' \in Homes
  BY <1>1, <1>2 DEF Homes, History
<1>4. /\ home'.config = home.config /\ home'.db = home.db /\ home'.auth = home.auth
      /\ \A u \in Threads : home'.roll[u] \in {home.roll[u], Missing}
  BY <1>1, <1>2 DEF Homes, History
<1>5. TypeOK' /\ BackupInv' /\ OperationInv'
  BY <1>1, <1>2, <1>3 DEF TypeOK, BackupInv, OperationInv, Restoring, Undoing
<1>6. SavedInv' /\ RestoreInv' /\ MigrationInv'
  BY <1>1, <1>2 DEF SavedInv, RestoreInv, MigrationInv, Restoring, Undoing, Kept
<1>7. \A h : SameAs(h) => SameAs(h)'
  BY <1>4 DEF SameAs
<1>8. SwitchIsWhole'
  BY <1>1, <1>2, <1>4 DEF SwitchIsWhole, Reads
<1>9. RestoreIsExact' /\ RollbackIsExact' /\ InterruptionCanBeUndone'
  <2>1. SameAs(job.before) => SameAs(job.before)'
    BY <1>1, <1>4 DEF SameAs
  <2>2. SameAs(job.chosen) => SameAs(job.chosen)'
    BY <1>1, <1>4 DEF SameAs
  <2> QED BY <1>1, <1>2, <2>1, <2>2
             DEF RestoreIsExact, RollbackIsExact, InterruptionCanBeUndone, Kept
<1> QED BY <1>5, <1>6, <1>8, <1>9 DEF SwitchInv, SuccessIsExact, FailureLosesNothing

\* The local variables of a new operation.
Fresh(new, op, b) ==
    /\ new \in Jobs /\ new.op = op /\ new.from = b.id /\ new.before = home
    /\ new.saved = FALSE /\ new.undo = FALSE /\ new.selected = current
    /\ new.chosen = b.home /\ new.backup = 0 /\ new.newer = 0
    /\ new.entry = FALSE /\ new.key = FALSE
    /\ op = "repair" => new.target = Reads(home)

Folder(b) == b \in [id : 0..MaxBackups, home : Homes]
Operation(op) == op \in {"switch", "repair", "edit", "restore"}

LEMMA JobShape ==
    ASSUME home \in Homes, current \in Profiles, NEW op, Operation(op),
           NEW p \in Profiles, NEW b, Folder(b)
    PROVE  Fresh(Job(op, p, b), op, b)
<1> DEFINE target == IF op = "repair" THEN Reads(home) ELSE Provider(p)
           it == [op |-> op, profile |-> p, target |-> target,
                   backup |-> 0, from |-> b.id, todo |-> {}, before |-> home,
                   saved |-> FALSE, selected |-> current, undo |-> FALSE,
                   chosen |-> b.home, newer |-> 0, entry |-> FALSE, key |-> FALSE]
<1>1. Job(op, p, b) = it
  BY DEF Job
<1>2. b.id \in 0..MaxBackups /\ b.home \in Homes
  BY DEF Folder
<1>3. target \in Providers
  BY HomeTypes, SwitchConstants
<1>4. op = "repair" => target = Reads(home)
  OBVIOUS
<1> HIDE DEF target
<1>5. it \in Jobs
  <2>1. 0 \in 0..MaxBackups /\ {} \subseteq Threads /\ 0 \in Nat
    BY SwitchConstants
  <2> QED BY <1>2, <1>3, <2>1 DEF Jobs, Operation
<1>6. Fresh(it, op, b)
  BY <1>4, <1>5 DEF Fresh
<1> HIDE DEF it
<1> QED BY <1>1, <1>6

\* There is a number for the next backup.
LEMMA RoomLeft ==
    ASSUME TypeOK, taken + starts < MaxBackups
    PROVE  taken < MaxBackups
<1>1. taken \in 0..MaxBackups /\ starts \in 0..MaxStarts
  BY Zenon DEF TypeOK
<1> QED BY <1>1, SwitchConstants

\* An operation begins: it remembers the directory, and the folder it is to
\* restore is there.
LEMMA BeginKeeps ==
    ASSUME SwitchInv, NEW op \in {"switch", "repair", "restore"},
           NEW p \in Profiles, NEW b \in [id : 0..MaxBackups, home : Homes],
           Begin(op, p, b),
           op = "restore" => [id |-> b.id, home |-> b.home] \in Range(backups)
    PROVE  SwitchInv'
<1> DEFINE new == Job(op, p, b)
<1>1. /\ codex' = Missing /\ raced' = FALSE /\ job' = new /\ verdict' = "none"
      /\ pc' \in {"backup", "idle"} /\ taken + starts < MaxBackups
      /\ UNCHANGED <<home, current, backups, taken, starts>>
  BY DEF Begin
<1>2. TypeOK /\ BackupInv /\ home \in Homes /\ current \in Profiles
  BY SwitchParts DEF TypeOK
<1>6. /\ new \in Jobs /\ new.op = op /\ new.from = b.id /\ new.before = home
      /\ new.saved = FALSE /\ new.undo = FALSE /\ new.selected = current
      /\ new.chosen = b.home /\ new.backup = 0 /\ new.newer = 0
      /\ new.entry = FALSE /\ new.key = FALSE
      /\ op = "repair" => new.target = Reads(home)
  <2>1. Operation(op) /\ Folder(b)
    BY DEF Operation, Folder
  <2>2. Fresh(new, op, b)
    BY <1>2, <2>1, JobShape
  <2> HIDE DEF new
  <2> QED BY <2>2 DEF Fresh
<1> HIDE DEF new
<1>7. raced' \in BOOLEAN
  BY <1>1, Zenon
<1>8. TypeOK'
  <2>1. pc' \in Places
    BY <1>1 DEF Places
  <2> QED BY <1>1, <1>2, <1>6, <1>7, <2>1 DEF TypeOK
<1>3. taken < MaxBackups
  BY <1>1, <1>2, RoomLeft
<1>9. BackupInv' /\ OperationInv'
  BY <1>1, <1>2, <1>3, <1>6 DEF BackupInv, OperationInv, Restoring, Undoing
<1>10. SavedInv' /\ RestoreInv'
  BY <1>1, <1>6 DEF SavedInv, RestoreInv, Restoring, Undoing, Kept
<1>11. MigrationInv'
  BY <1>1, <1>6 DEF MigrationInv, Reads
<1>12. SuccessIsExact' /\ FailureLosesNothing'
  BY <1>1 DEF SuccessIsExact, FailureLosesNothing, SwitchIsWhole, RestoreIsExact,
              RollbackIsExact, InterruptionCanBeUndone, Kept
<1> QED BY <1>8, <1>9, <1>10, <1>11, <1>12 DEF SwitchInv

\* An edit begins while Codex may still run.
LEMMA EditKeeps ==
    ASSUME SwitchInv, edit_profile
    PROVE  SwitchInv'
<1> DEFINE new == Job("edit", current, NoBackup)
<1>1. PICK key \in BOOLEAN :
         /\ job' = [new EXCEPT !.key = key]
         /\ pc' = "close" /\ raced' = FALSE /\ verdict' = "none"
         /\ taken + starts < MaxBackups
         /\ UNCHANGED <<home, current, codex, backups, taken, starts>>
  BY DEF edit_profile
<1>2. TypeOK /\ BackupInv /\ home \in Homes /\ current \in Profiles
  BY SwitchParts DEF TypeOK
<1>3. NoBackup \in [id : 0..MaxBackups, home : Homes]
  BY <1>2, SwitchConstants DEF NoBackup
<1>4. /\ new \in Jobs /\ new.op = "edit" /\ new.before = home
      /\ new.saved = FALSE /\ new.undo = FALSE /\ new.selected = current
      /\ new.backup = 0 /\ new.newer = 0 /\ new.entry = FALSE
  <2>1. Operation("edit") /\ Folder(NoBackup)
    BY <1>3 DEF Operation, Folder
  <2>2. Fresh(new, "edit", NoBackup)
    BY <1>2, <2>1, JobShape
  <2> HIDE DEF new
  <2> QED BY <2>2 DEF Fresh
<1> HIDE DEF new
<1>5. /\ job' \in Jobs /\ job'.op = "edit" /\ job'.before = home
      /\ job'.saved = FALSE /\ job'.undo = FALSE /\ job'.selected = current
      /\ job'.backup = 0 /\ job'.newer = 0 /\ job'.entry = FALSE
  BY <1>1, <1>4 DEF Jobs
<1>6. raced' \in BOOLEAN
  BY <1>1, Zenon
<1>7. TypeOK'
  <2>1. pc' \in Places
    BY <1>1 DEF Places
  <2> QED BY <1>1, <1>2, <1>5, <1>6, <2>1 DEF TypeOK
<1>11. taken < MaxBackups
  BY <1>1, <1>2, RoomLeft
<1>8. BackupInv' /\ OperationInv'
  BY <1>1, <1>2, <1>5, <1>11 DEF BackupInv, OperationInv, Restoring, Undoing
<1>9. SavedInv' /\ RestoreInv' /\ MigrationInv'
  BY <1>1, <1>5 DEF SavedInv, RestoreInv, MigrationInv, Restoring, Undoing, Kept
<1>10. SuccessIsExact' /\ FailureLosesNothing'
  BY <1>1, NothingReported
<1> QED BY <1>7, <1>8, <1>9, <1>10 DEF SwitchInv

LEMMA CloseForEditKeeps ==
    ASSUME SwitchInv, CloseForEdit
    PROVE  SwitchInv'
<1>1. /\ pc = "close" /\ pc' = "backup" /\ codex' = Missing /\ raced' = FALSE
      /\ job' = [job EXCEPT !.before = home]
      /\ UNCHANGED <<home, current, backups, taken, starts, verdict>>
  BY DEF CloseForEdit
<1>2. TypeOK /\ BackupInv /\ OperationInv /\ home \in Homes /\ job \in Jobs
  BY SwitchParts
<1>3. /\ job' \in Jobs /\ job'.op = job.op /\ job'.before = home
      /\ job'.saved = job.saved /\ job'.undo = job.undo /\ job'.selected = job.selected
      /\ job'.backup = job.backup /\ job'.newer = job.newer /\ job'.entry = job.entry
      /\ job'.key = job.key
  BY <1>1, <1>2 DEF Jobs
<1>4. /\ job.op = "edit" /\ job.backup = 0 /\ job.newer = 0 /\ ~job.undo
  BY <1>1, <1>2 DEF OperationInv, Restoring, Undoing
<1>5. raced' \in BOOLEAN
  BY <1>1, Zenon
<1>6. TypeOK'
  <2>1. pc' \in Places
    BY <1>1 DEF Places
  <2> QED BY <1>1, <1>2, <1>3, <1>5, <2>1 DEF TypeOK
<1>7. BackupInv'
  BY <1>1, <1>2 DEF BackupInv
<1>8. OperationInv'
  BY <1>1, <1>2, <1>3, <1>4 DEF OperationInv, Restoring, Undoing
<1>9. SavedInv' /\ RestoreInv' /\ MigrationInv'
  BY <1>1, <1>3, <1>4 DEF SavedInv, RestoreInv, MigrationInv, Restoring, Undoing, Kept
<1>10. SuccessIsExact' /\ FailureLosesNothing'
  BY <1>1, NothingReported
<1> QED BY <1>6, <1>7, <1>8, <1>9, <1>10 DEF SwitchInv

LEMMA BeginsKeep ==
    ASSUME SwitchInv,
           \/ \E p \in Profiles : switch_profile(p)
           \/ repair_visibility \/ restore_backup
    PROVE  SwitchInv'
<1>1. TypeOK /\ BackupInv /\ home \in Homes /\ current \in Profiles
  BY SwitchParts DEF TypeOK
<1>2. NoBackup \in [id : 0..MaxBackups, home : Homes]
  BY <1>1, SwitchConstants DEF NoBackup
<1>3. CASE \E p \in Profiles : switch_profile(p)
  BY <1>2, <1>3, BeginKeeps DEF switch_profile
<1>4. CASE repair_visibility
  BY <1>1, <1>2, <1>4, BeginKeeps DEF repair_visibility
<1>6. CASE restore_backup
  <2>1. PICK b \in Range(backups) : Begin("restore", current, b)
    BY <1>6 DEF restore_backup
  <2>2. /\ b \in [id : 0..MaxBackups, home : Homes]
        /\ b = [id |-> b.id, home |-> b.home]
    <3>1. b \in Folders /\ b = [id |-> b.id, home |-> b.home]
      BY <1>1, FolderTypes
    <3> QED BY <3>1, SwitchConstants DEF Folders
  <2>3. [id |-> b.id, home |-> b.home] \in Range(backups)
    BY <2>2
  <2> QED BY <1>1, <2>1, <2>2, <2>3, BeginKeeps
<1> QED BY <1>3, <1>4, <1>6

\* The backup is taken while the directory is still the one found, and its own
\* pruning does not remove it unless Limit folders have later names; a restore
\* does not prune the folder it needs.
LEMMA CreateBackupKeeps ==
    ASSUME SwitchInv, CreateBackup
    PROVE  SwitchInv'
<1> DEFINE b == [id |-> taken + 1, home |-> home]
           s(newer) == Named(b, newer)
           Taken(newer) ==
              /\ taken' = taken + 1
              /\ backups' = IF Prunes(job.op) THEN Pruned(s(newer)) ELSE s(newer)
              /\ job' = [job EXCEPT !.backup = taken + 1, !.newer = newer]
              /\ pc' = AfterBackup(job.op) /\ UNCHANGED verdict
<1>1. /\ pc = "backup" /\ UNCHANGED <<home, current, codex, starts, raced>>
      /\ \/ \E newer \in 0..Len(backups) : Taken(newer)
         \/ End("none") /\ UNCHANGED <<taken, backups>>
  BY DEF CreateBackup
<1> HIDE DEF Taken
<1>2. /\ TypeOK /\ BackupInv /\ OperationInv /\ SavedInv /\ RestoreInv /\ MigrationInv
      /\ home \in Homes /\ job \in Jobs
  BY SwitchParts
<1>3. CASE End("none") /\ UNCHANGED <<taken, backups>>
  <2>1. pc' = "idle" /\ verdict' = "none" /\ UNCHANGED job
    BY <1>3 DEF End
  <2>2. TypeOK' /\ BackupInv' /\ OperationInv'
    BY <1>1, <1>2, <1>3, <2>1 DEF TypeOK, BackupInv, OperationInv, Restoring, Places, Undoing
  <2>3. SavedInv' /\ RestoreInv' /\ MigrationInv'
    BY <2>1 DEF SavedInv, RestoreInv, MigrationInv, Restoring, Undoing, Kept
  <2>4. SuccessIsExact' /\ FailureLosesNothing'
    BY <2>1 DEF SuccessIsExact, FailureLosesNothing, SwitchIsWhole, RestoreIsExact,
                RollbackIsExact, InterruptionCanBeUndone, Kept
  <2> QED BY <2>2, <2>3, <2>4 DEF SwitchInv
<1>4. ASSUME NEW newer \in 0..Len(backups), Taken(newer)
      PROVE  SwitchInv'
  <2> DEFINE t == Named(b, newer)
             at == Len(backups) - newer + 1
  <2>0. /\ taken' = taken + 1
        /\ backups' = IF Prunes(job.op) THEN Pruned(t) ELSE t
        /\ job' = [job EXCEPT !.backup = taken + 1, !.newer = newer]
        /\ pc' = AfterBackup(job.op) /\ UNCHANGED verdict
    BY <1>4 DEF Taken
  <2>1. taken \in Nat /\ taken + 1 \in 1..MaxBackups /\ taken' = taken + 1
    <3>1. taken \in 0..MaxBackups /\ taken < MaxBackups
      BY <1>1, <1>2 DEF TypeOK, BackupInv
    <3> QED BY <2>0, <3>1, SwitchConstants
  <2>2. b \in Folders /\ backups \in Seq(Folders) /\ b.id = taken + 1 /\ b.home = home
    BY <1>2, <2>1 DEF Folders, BackupInv
  <2> HIDE DEF b
  <2>3. /\ t \in Seq(Folders) /\ Range(t) = Range(backups) \cup {b}
        /\ at \in DOMAIN t /\ t[at] = b /\ Len(t) - at = newer
    BY <2>2, NamedProperties
  <2> HIDE DEF t, at
  <2>4. /\ backups' \in Seq(Folders) /\ Range(backups') \subseteq Range(backups) \cup {b}
        /\ job.op = "restore" \/ newer < Limit => b \in Range(backups')
        /\ job.op = "restore" => Range(backups) \subseteq Range(backups')
    <3>1. /\ Pruned(t) \in Seq(Folders) /\ Range(Pruned(t)) \subseteq Range(t)
          /\ newer < Limit => b \in Range(Pruned(t))
      BY <2>3, PrunedKeepsLast
    <3> QED BY <2>0, <2>3, <3>1 DEF Prunes
  <2>5. /\ job' \in Jobs /\ job'.op = job.op /\ job'.target = job.target
        /\ job'.backup = taken + 1 /\ job'.from = job.from /\ job'.before = job.before
        /\ job'.saved = job.saved /\ job'.undo = job.undo /\ job'.selected = job.selected
        /\ job'.chosen = job.chosen /\ job'.profile = job.profile
        /\ job'.newer = newer /\ job'.entry = job.entry /\ job'.key = job.key
    <3>1. newer \in Nat /\ taken + 1 \in 0..MaxBackups
      BY <2>1, <2>2, SwitchConstants
    <3> QED BY <1>2, <2>0, <3>1 DEF Jobs
  <2>6. /\ job.op \in {"switch", "repair", "edit", "restore"} /\ job.undo = FALSE
        /\ job.op = "switch" => pc' = "auth"
        /\ job.op = "repair" => pc' = "begin"
        /\ job.op = "edit" => pc' = "state"
        /\ job.op = "restore" => pc' = "r_files"
    BY <1>1, <1>2, <2>0 DEF AfterBackup, Jobs, OperationInv, Restoring, Undoing
  <2>7. \A c \in Range(backups) : c.id \in Nat /\ c.id <= taken
    BY <1>2, FolderTypes, SwitchConstants DEF BackupInv
  <2>8. BackupInv'
    <3>1. \A c \in Range(backups') : c.id <= taken'
      BY <2>1, <2>2, <2>4, <2>7
    <3>2. \A c, d \in Range(backups') : c.id = d.id => c = d
      BY <1>2, <2>1, <2>2, <2>4, <2>7 DEF BackupInv
    <3> QED BY <2>4, <2>6, <3>1, <3>2 DEF BackupInv
  <2>9. TypeOK'
    <3>1. \A i \in DOMAIN backups' : backups'[i] \in Range(backups')
      BY DEF Range
    <3>2. \A c \in Range(backups') : c.id \in 1..taken' /\ c.home \in Homes
      <4>1. \A c \in Range(backups) : c.id \in 1..(taken + 1) /\ c.home \in Homes
        BY <1>2, <2>1, <2>7, FolderTypes, SwitchConstants
      <4>2. b.id \in 1..(taken + 1) /\ b.home \in Homes
        BY <1>2, <2>1, <2>2
      <4> QED BY <2>1, <2>4, <4>1, <4>2
    <3>3. \A i \in DOMAIN backups' : backups'[i].id \in 1..taken' /\ backups'[i].home \in Homes
      BY <3>1, <3>2
    <3>4. taken' \in 0..MaxBackups
      BY <2>1, SwitchConstants
    <3>5. pc' \in Places
      BY <2>6 DEF Places
    <3> QED BY <1>1, <1>2, <2>0, <2>5, <3>3, <3>4, <3>5 DEF TypeOK
  <2>10. OperationInv'
    <3>1. taken + 1 # 0
      BY <2>1
    <3> QED BY <1>1, <1>2, <2>5, <2>6, <3>1 DEF OperationInv, Restoring, Undoing
  <2>11. SavedInv'
    <3>1. ~raced => home = job.before /\ codex = Missing
      BY <1>1, <1>2 DEF SavedInv, Restoring, OperationInv, Undoing, Kept
    <3>2. ~raced /\ (job.op = "restore" \/ newer < Limit) =>
             [id |-> taken + 1, home |-> job.before] \in Range(backups')
      BY <2>4, <3>1 DEF b
    <3>4. taken + 1 # 0
      BY <2>1
    <3>3. ~raced /\ job.op = "restore" =>
             [id |-> job.from, home |-> job.chosen] \in Range(backups')
      BY <1>1, <1>2, <2>4, <2>6 DEF SavedInv, Restoring, Undoing, Kept
    <3> QED BY <1>1, <2>5, <2>6, <3>1, <3>2, <3>3, <3>4 DEF SavedInv, Restoring, Undoing, Kept
  <2>12. RestoreInv' /\ MigrationInv'
    BY <1>1, <1>2, <2>5, <2>6 DEF RestoreInv, MigrationInv, Reads, Kept
  <2>13. SuccessIsExact' /\ FailureLosesNothing'
    BY <2>6, NothingReported
  <2> QED BY <2>8, <2>9, <2>10, <2>11, <2>12, <2>13 DEF SwitchInv
<1> QED BY <1>1, <1>3, <1>4

\* A step of an operation before its end: what it must leave alone and what it
\* must establish.
LEMMA ForwardKeeps ==
    ASSUME SwitchInv,
           pc \in {"auth", "state", "config", "begin", "rewrite", "commit", "verify", "save",
                   "launch"},
           pc' \in {"config", "begin", "rewrite", "commit", "verify", "save", "launch", "log"},
           UNCHANGED <<backups, taken, starts, verdict, raced>>,
           codex' = codex \/ (job.op = "edit" /\ pc' = "log" /\ codex' \in Providers),
           home' \in Homes, job' \in Jobs, current' \in Profiles,
           job'.op = job.op, job'.target = job.target, job'.backup = job.backup,
           job'.before = job.before, job'.undo = job.undo, job'.selected = job.selected,
           job'.profile = job.profile, job'.newer = job.newer,
           (job'.saved = job.saved /\ current' = current) \/ job'.saved,
           OperationInv',
           job.op \in {"switch", "repair"} /\ ~raced /\ pc' # "config" =>
              Reads(home)' = job.target,
           ~raced /\ pc' \in {"save", "log"} /\ job.op \in {"switch", "repair"} => Migrated',
           pc' = "log" /\ job.op = "switch" => current' = job.profile
    PROVE  SwitchInv'
<1>1. /\ TypeOK /\ BackupInv /\ OperationInv /\ SavedInv
  BY SwitchParts
<1>2. ~job.undo /\ job.op # "restore"
  BY <1>1 DEF OperationInv, Restoring, Undoing
<1>3. TypeOK' /\ BackupInv'
  BY <1>1 DEF TypeOK, BackupInv, Places
<1>4. SavedInv'
  <2>1. /\ pc # "idle" /\ pc \notin {"close", "log"} /\ ~Undoing /\ job.backup # 0
        /\ Kept' = Kept
    BY <1>1 DEF OperationInv, Restoring, Undoing, Kept
  <2>2. ~raced => /\ codex = Missing
                  /\ Kept => [id |-> job.backup, home |-> job.before] \in Range(backups)
    BY <1>1, <2>1 DEF SavedInv
  <2> QED BY <1>2, <2>1, <2>2 DEF SavedInv
<1>5. RestoreInv' /\ MigrationInv'
  BY DEF RestoreInv, MigrationInv, Kept
<1>6. SuccessIsExact' /\ FailureLosesNothing'
  BY NothingReported
<1> QED BY <1>3, <1>4, <1>5, <1>6 DEF SwitchInv

\* What is true before such a step.
LEMMA ForwardParts ==
    ASSUME SwitchInv
    PROVE  /\ TypeOK /\ OperationInv /\ SavedInv /\ MigrationInv
           /\ home \in Homes /\ job \in Jobs /\ current \in Profiles
           /\ job.profile \in Profiles /\ job.target \in Providers
           /\ job.op \in {"switch", "repair", "edit", "restore"}
BY SwitchParts DEF TypeOK, Jobs

LEMMA WriteAuthKeeps ==
    ASSUME SwitchInv, WriteAuth
    PROVE  SwitchInv'
<1>1. /\ pc = "auth" /\ pc' = "config"
      /\ home' = IF job.profile \in Accounts THEN [home EXCEPT !.auth = job.profile] ELSE home
      /\ UNCHANGED <<job, verdict, current, codex, backups, taken, starts, raced>>
  BY DEF WriteAuth, GoTo
<1>2. /\ TypeOK /\ OperationInv /\ home \in Homes /\ job \in Jobs /\ current \in Profiles
  BY ForwardParts
<1>3. home' \in Homes
  BY <1>1, <1>2 DEF Homes
<1>4. OperationInv'
  BY <1>1, <1>2 DEF OperationInv, Restoring, Undoing
<1> QED BY <1>1, <1>2, <1>3, <1>4, ForwardKeeps

LEMMA SaveEntryKeeps ==
    ASSUME SwitchInv, SaveEntry
    PROVE  SwitchInv'
<1>1. /\ pc = "state" /\ pc' = "config" /\ job' = [job EXCEPT !.entry = TRUE]
      /\ UNCHANGED <<home, current, codex, backups, taken, starts, verdict, raced>>
  BY DEF SaveEntry
<1>2. /\ TypeOK /\ OperationInv /\ home \in Homes /\ job \in Jobs /\ current \in Profiles
  BY ForwardParts
<1>3. /\ job' \in Jobs /\ job'.op = job.op /\ job'.target = job.target
      /\ job'.backup = job.backup /\ job'.before = job.before /\ job'.undo = job.undo
      /\ job'.selected = job.selected /\ job'.profile = job.profile
      /\ job'.saved = job.saved /\ job'.from = job.from
      /\ job'.newer = job.newer /\ job'.key = job.key
  BY <1>1, <1>2 DEF Jobs
<1>4. job.op = "edit"
  BY <1>1, <1>2 DEF OperationInv, Restoring, Undoing
<1>5. OperationInv'
  BY <1>1, <1>2, <1>3, <1>4 DEF OperationInv, Restoring, Undoing
<1> QED BY <1>1, <1>2, <1>3, <1>4, <1>5, ForwardKeeps

LEMMA UpdateConfigKeeps ==
    ASSUME SwitchInv, UpdateConfig
    PROVE  SwitchInv'
<1>1. /\ pc = "config" /\ pc' = IF job.op = "edit" THEN "launch" ELSE "begin"
      /\ home' = [home EXCEPT !.config = job.target]
      /\ UNCHANGED <<job, verdict, current, codex, backups, taken, starts, raced>>
  BY DEF UpdateConfig, GoTo
<1>2. /\ TypeOK /\ OperationInv /\ home \in Homes /\ job \in Jobs /\ current \in Profiles
      /\ job.target \in Providers
  BY ForwardParts
<1>3. home' \in Homes /\ home'.config = job.target
  BY <1>1, <1>2 DEF Homes
<1>4. OperationInv'
  BY <1>1, <1>2 DEF OperationInv, Restoring, Undoing
<1>5. Reads(home)' = job.target
  BY <1>2, <1>3, SwitchConstants DEF Reads
<1> QED BY <1>1, <1>2, <1>3, <1>4, <1>5, ForwardKeeps

LEMMA BeginMigrationKeeps ==
    ASSUME SwitchInv, BeginMigration
    PROVE  SwitchInv'
<1>1. /\ pc = "begin" /\ pc' = "rewrite" /\ job' = [job EXCEPT !.todo = Inventory]
      /\ UNCHANGED <<home, current, codex, backups, taken, starts, verdict, raced>>
  BY DEF BeginMigration
<1>2. /\ TypeOK /\ OperationInv /\ MigrationInv /\ home \in Homes /\ job \in Jobs
      /\ current \in Profiles
  BY ForwardParts
<1>3. Inventory \subseteq Threads
  BY DEF Inventory
<1> HIDE DEF Inventory
<1>4. /\ job' \in Jobs /\ job'.op = job.op /\ job'.target = job.target
      /\ job'.backup = job.backup /\ job'.before = job.before /\ job'.undo = job.undo
      /\ job'.selected = job.selected /\ job'.profile = job.profile
      /\ job'.saved = job.saved /\ job'.from = job.from
      /\ job'.newer = job.newer /\ job'.entry = job.entry /\ job'.key = job.key
  BY <1>1, <1>2, <1>3 DEF Jobs
<1>5. OperationInv'
  BY <1>1, <1>2, <1>4 DEF OperationInv, Restoring, Undoing
<1>6. job.op \in {"switch", "repair"} /\ ~raced => Reads(home)' = job.target
  BY <1>1, <1>2 DEF MigrationInv, Reads
<1> QED BY <1>1, <1>2, <1>4, <1>5, <1>6, ForwardKeeps

LEMMA RewriteKeeps ==
    ASSUME SwitchInv, NEW t \in Threads, RewriteRollout(t)
    PROVE  SwitchInv'
<1>1. /\ pc = "rewrite" /\ pc' = "rewrite" /\ job' = [job EXCEPT !.todo = job.todo \ {t}]
      /\ home' = IF home.roll[t] = Missing THEN home ELSE [home EXCEPT !.roll[t] = job.target]
      /\ UNCHANGED <<current, codex, backups, taken, starts, verdict, raced>>
  BY DEF RewriteRollout, SwitchInv, TypeOK, Jobs
<1>2. /\ TypeOK /\ OperationInv /\ MigrationInv /\ home \in Homes /\ job \in Jobs
      /\ current \in Profiles /\ job.target \in Providers
  BY ForwardParts
<1>3. home' \in Homes /\ home'.config = home.config
  BY <1>1, <1>2 DEF Homes, History
<1>4. /\ job' \in Jobs /\ job'.op = job.op /\ job'.target = job.target
      /\ job'.backup = job.backup /\ job'.before = job.before /\ job'.undo = job.undo
      /\ job'.selected = job.selected /\ job'.profile = job.profile
      /\ job'.saved = job.saved /\ job'.from = job.from
      /\ job'.newer = job.newer /\ job'.entry = job.entry /\ job'.key = job.key
  BY <1>1, <1>2 DEF Jobs
<1>5. OperationInv'
  BY <1>1, <1>2, <1>4 DEF OperationInv, Restoring, Undoing
<1>6. job.op \in {"switch", "repair"} /\ ~raced => Reads(home)' = job.target
  BY <1>1, <1>2, <1>3 DEF MigrationInv, Reads
<1> QED BY <1>1, <1>2, <1>3, <1>4, <1>5, <1>6, ForwardKeeps

LEMMA RewriteEndsKeeps ==
    ASSUME SwitchInv, RewriteEnds
    PROVE  SwitchInv'
<1>1. /\ pc = "rewrite" /\ pc' = "commit"
      /\ UNCHANGED <<home, job, verdict, current, codex, backups, taken, starts, raced>>
  BY DEF RewriteEnds, GoTo
<1>2. /\ TypeOK /\ OperationInv /\ MigrationInv /\ home \in Homes /\ job \in Jobs
      /\ current \in Profiles
  BY ForwardParts
<1>3. OperationInv'
  BY <1>1, <1>2 DEF OperationInv, Restoring, Undoing
<1>4. job.op \in {"switch", "repair"} /\ ~raced => Reads(home)' = job.target
  BY <1>1, <1>2 DEF MigrationInv, Reads
<1> QED BY <1>1, <1>2, <1>3, <1>4, ForwardKeeps

LEMMA CommitKeeps ==
    ASSUME SwitchInv, Commit
    PROVE  SwitchInv'
<1> DEFINE rows == [t \in Threads |-> IF home.db[t] = Missing THEN Missing ELSE job.target]
<1>1. /\ pc = "commit" /\ pc' = "verify" /\ home' = [home EXCEPT !.db = rows]
      /\ UNCHANGED <<job, verdict, current, codex, backups, taken, starts, raced>>
  BY DEF Commit, GoTo
<1>2. /\ TypeOK /\ OperationInv /\ MigrationInv /\ home \in Homes /\ job \in Jobs
      /\ current \in Profiles /\ job.target \in Providers
  BY ForwardParts
<1>3. rows \in History
  BY <1>2 DEF History
<1> HIDE DEF rows
<1>4. home' \in Homes /\ home'.config = home.config
  BY <1>1, <1>2, <1>3 DEF Homes
<1>5. OperationInv'
  BY <1>1, <1>2 DEF OperationInv, Restoring, Undoing
<1>6. job.op \in {"switch", "repair"} /\ ~raced => Reads(home)' = job.target
  BY <1>1, <1>2, <1>4 DEF MigrationInv, Reads
<1> QED BY <1>1, <1>2, <1>4, <1>5, <1>6, ForwardKeeps

\* The verification is what the success rests on.
LEMMA VerifyKeeps ==
    ASSUME SwitchInv, Verify
    PROVE  SwitchInv'
<1>1. /\ pc = "verify" /\ pc' = IF job.op = "switch" THEN "save" ELSE "log"
      /\ FilesMatch /\ RowsMatch
      /\ UNCHANGED <<home, job, verdict, current, codex, backups, taken, starts, raced>>
  BY DEF Verify, GoTo
<1>2. /\ TypeOK /\ OperationInv /\ MigrationInv /\ home \in Homes /\ job \in Jobs
      /\ current \in Profiles
  BY ForwardParts
<1>3. OperationInv'
  BY <1>1, <1>2 DEF OperationInv, Restoring, Undoing
<1>4. job.op \in {"switch", "repair"} /\ ~raced => Reads(home)' = job.target
  BY <1>1, <1>2 DEF MigrationInv, Reads
<1>5. Migrated'
  BY <1>1 DEF Migrated, FilesMatch, RowsMatch, Inventory
<1> QED BY <1>1, <1>2, <1>3, <1>4, <1>5, ForwardKeeps

LEMMA SaveStateKeeps ==
    ASSUME SwitchInv, SaveState
    PROVE  SwitchInv'
<1>1. /\ pc = "save" /\ pc' = "log" /\ current' = job.profile
      /\ job' = [job EXCEPT !.saved = TRUE]
      /\ UNCHANGED <<home, codex, backups, taken, starts, verdict, raced>>
  BY DEF SaveState
<1>2. /\ TypeOK /\ OperationInv /\ MigrationInv /\ home \in Homes /\ job \in Jobs
      /\ job.profile \in Profiles
  BY ForwardParts
<1>3. /\ job' \in Jobs /\ job'.op = job.op /\ job'.target = job.target
      /\ job'.backup = job.backup /\ job'.before = job.before /\ job'.undo = job.undo
      /\ job'.selected = job.selected /\ job'.profile = job.profile
      /\ job'.saved = TRUE /\ job'.from = job.from
      /\ job'.newer = job.newer /\ job'.entry = job.entry /\ job'.key = job.key
  BY <1>1, <1>2 DEF Jobs
<1>4. OperationInv'
  BY <1>1, <1>2, <1>3 DEF OperationInv, Restoring, Undoing
<1>5. ~raced => Reads(home)' = job.target /\ Migrated'
  BY <1>1, <1>2, <1>3 DEF MigrationInv, OperationInv, Migrated, Reads, Restoring, Undoing
<1> QED BY <1>1, <1>2, <1>3, <1>4, <1>5, ForwardKeeps

LEMMA LaunchEditedKeeps ==
    ASSUME SwitchInv, LaunchEdited
    PROVE  SwitchInv'
<1>1. /\ pc = "launch" /\ pc' = "log" /\ codex' \in {codex, Reads(home)}
      /\ UNCHANGED <<home, job, verdict, current, backups, taken, starts, raced>>
  BY DEF LaunchEdited, GoTo, Launch
<1>2. /\ TypeOK /\ OperationInv /\ home \in Homes /\ job \in Jobs /\ current \in Profiles
  BY ForwardParts
<1>3. job.op = "edit"
  BY <1>1, <1>2 DEF OperationInv, Restoring, Undoing
<1>4. OperationInv'
  BY <1>1, <1>2, <1>3 DEF OperationInv, Restoring, Undoing
<1>5. codex' = codex \/ codex' \in Providers
  BY <1>1, <1>2, HomeTypes
<1> QED BY <1>1, <1>2, <1>3, <1>4, <1>5, ForwardKeeps

\* An operation ends: what its report needs.
LEMMA EndKeeps ==
    ASSUME SwitchInv, NEW v, End(v), pc # "idle",
           v \in {"done", "rolled back", "broken", "interrupted"},
           UNCHANGED <<current, taken, starts, raced>>,
           home' \in Homes, codex' \in {codex, Reads(home)'},
           BackupInv', v = "interrupted" => backups' = backups /\ home' = home,
           v = "done" => SwitchIsWhole' /\ RestoreIsExact'
                         /\ (job.op \in {"switch", "repair"} /\ ~raced =>
                               codex' \in {job.target, Missing}),
           v = "rolled back" => RollbackIsExact'
    PROVE  SwitchInv'
<1>1. pc' = "idle" /\ verdict' = v /\ UNCHANGED job
  BY DEF End
<1>2. /\ TypeOK /\ BackupInv /\ SavedInv /\ OperationInv
  BY SwitchParts
<1>3. \A i \in DOMAIN backups' : backups'[i].id \in 1..taken' /\ backups'[i].home \in Homes
  <2>1. ASSUME NEW i \in DOMAIN backups'
        PROVE  backups'[i].id \in 1..taken' /\ backups'[i].home \in Homes
    <3>1. backups'[i] \in Folders /\ backups'[i] \in Range(backups')
      <4>1. backups' \in Seq(Folders)
        BY DEF BackupInv
      <4> QED BY <4>1, MemberOfSeq
    <3>2. backups'[i].id <= taken'
      BY <3>1 DEF BackupInv
    <3>3. taken' \in 0..MaxBackups
      BY <1>2 DEF TypeOK
    <3>4. backups'[i].id \in 1..MaxBackups /\ backups'[i].home \in Homes
      BY <3>1 DEF Folders
    <3>5. \A n \in 0..MaxBackups, x \in 1..MaxBackups : x <= n => x \in 1..n
      BY WithinBound
    <3> QED BY <3>2, <3>3, <3>4, <3>5
  <2> QED BY <2>1
<1>4. codex' \in Providers \cup {Missing}
  BY <1>2, HomeTypes DEF TypeOK
<1>5. TypeOK'
  BY <1>1, <1>2, <1>3, <1>4 DEF TypeOK, Places
<1>6. OperationInv' /\ SavedInv' /\ RestoreInv'
  BY <1>1, <1>2 DEF OperationInv, SavedInv, RestoreInv, Restoring, Undoing, Kept
<1>7. MigrationInv'
  BY <1>1 DEF MigrationInv
<1>8. SuccessIsExact'
  BY <1>1 DEF SuccessIsExact, SwitchIsWhole, RestoreIsExact
<1>9. RollbackIsExact'
  BY <1>1 DEF RollbackIsExact, Kept
<1>10. InterruptionCanBeUndone'
  <2> SUFFICES ASSUME v = "interrupted", ~raced, codex' = Missing, Kept
               PROVE  \/ SameAs(job.before)'
                      \/ \E b \in Range(backups') : b.home = job.before
    BY <1>1 DEF InterruptionCanBeUndone, Kept
  <2>0. codex = Missing
    BY <1>2, HomeTypes
  <2>1. CASE job.backup = 0
    <3>1. home' = job.before
      BY <1>2, <2>0, <2>1 DEF SavedInv, Restoring, Undoing, Kept
    <3> QED BY <1>1, <3>1 DEF SameAs
  <2>2. CASE job.backup # 0
    <3>1. [id |-> job.backup, home |-> job.before] \in Range(backups)
      BY <1>2, <2>2 DEF SavedInv, Restoring, Undoing, Kept
    <3>2. [id |-> job.backup, home |-> job.before].home = job.before
      OBVIOUS
    <3> QED BY <3>1, <3>2
  <2> QED BY <2>1, <2>2
<1> QED BY <1>5, <1>6, <1>7, <1>8, <1>9, <1>10 DEF SwitchInv, FailureLosesNothing

LEMMA LogAndLaunchKeeps ==
    ASSUME SwitchInv, LogAndLaunch
    PROVE  SwitchInv'
<1>1. /\ pc = "log" /\ End("done") /\ codex' \in {codex, Reads(home)}
      /\ UNCHANGED <<home, current, backups, taken, starts, raced>>
  BY DEF LogAndLaunch, Launch
<1>2. pc' = "idle" /\ verdict' = "done" /\ UNCHANGED job
  BY <1>1 DEF End
<1>3. /\ TypeOK /\ BackupInv /\ OperationInv /\ SavedInv /\ MigrationInv /\ home \in Homes
  BY SwitchParts
<1>4. BackupInv'
  BY <1>1, <1>2, <1>3 DEF BackupInv
<1>5. job.op \in {"switch", "repair"} /\ ~raced =>
         /\ Reads(home) = job.target /\ Migrated /\ codex = Missing
         /\ job.op = "switch" => current = job.profile
  BY <1>1, <1>3 DEF MigrationInv, SavedInv, Restoring, Undoing, Kept
<1>6. SwitchIsWhole'
  BY <1>1, <1>2, <1>5 DEF SwitchIsWhole, Migrated, Reads
<1>7. RestoreIsExact'
  BY <1>1, <1>2, <1>3 DEF RestoreIsExact, OperationInv, Restoring, Undoing
<1> QED BY <1>1, <1>3, <1>4, <1>5, <1>6, <1>7, EndKeeps

\* A failure turns to the backup of the operation, which is there; an edit takes
\* its entry and key back first.
LEMMA FailKeeps ==
    ASSUME SwitchInv, StepFails
    PROVE  SwitchInv'
<1>1. /\ pc # "idle" /\ (pc = "backup" => job.op = "edit")
      /\ UNCHANGED <<home, current, codex, backups, taken, starts, raced>>
      /\ IF job.undo THEN End("broken")
         ELSE /\ pc' = IF job.op = "edit" THEN "u_state" ELSE "r_files"
              /\ UNCHANGED verdict
              /\ job' = [job EXCEPT !.from = job.backup, !.undo = TRUE]
  BY DEF StepFails, Fail
<1>2. /\ TypeOK /\ BackupInv /\ OperationInv /\ SavedInv /\ RestoreInv /\ MigrationInv
      /\ home \in Homes /\ job \in Jobs
  BY SwitchParts
<1>3. CASE job.undo
  <2>1. End("broken")
    BY <1>1, <1>3
  <2>2. BackupInv'
    BY <1>1, <1>2, <2>1 DEF BackupInv, End
  <2> QED BY <1>1, <1>2, <2>1, <2>2, EndKeeps
<1>4. CASE ~job.undo
  <2>1. /\ pc' = IF job.op = "edit" THEN "u_state" ELSE "r_files"
        /\ UNCHANGED verdict
        /\ job' = [job EXCEPT !.from = job.backup, !.undo = TRUE]
    BY <1>1, <1>4
  <2>2. /\ job' \in Jobs /\ job'.op = job.op /\ job'.backup = job.backup
        /\ job'.from = job.backup /\ job'.undo = TRUE /\ job'.before = job.before
        /\ job'.selected = job.selected /\ job'.saved = job.saved
        /\ job'.newer = job.newer /\ job'.entry = job.entry /\ job'.key = job.key
    BY <1>2, <2>1 DEF Jobs
  <2>3. TypeOK'
    <3>1. pc' \in Places
      BY <2>1 DEF Places
    <3> QED BY <1>1, <1>2, <2>1, <2>2, <3>1 DEF TypeOK
  <2>4. BackupInv' /\ OperationInv'
    <3>1. BackupInv'
      BY <1>1, <1>2, <2>1 DEF BackupInv
    <3>2. CASE job.op = "edit"
      <4>1. pc' = "u_state"
        BY <2>1, <3>2
      <4> QED BY <1>1, <1>2, <2>2, <3>1, <3>2, <4>1 DEF OperationInv, Restoring, Undoing
    <3>3. CASE job.op # "edit"
      <4>1. pc' = "r_files"
        BY <2>1, <3>3
      <4> QED BY <1>1, <1>2, <2>2, <3>1, <3>3, <4>1 DEF OperationInv, Restoring, Undoing
    <3> QED BY <3>2, <3>3
  <2>5. SavedInv'
    <3>1. pc' \in {"u_state", "r_files"}
      BY <2>1
    <3> QED BY <1>1, <1>2, <2>2, <3>1 DEF SavedInv, Restoring, OperationInv, Undoing, Kept
  <2>6. RestoreInv' /\ MigrationInv'
    BY <2>1 DEF RestoreInv, MigrationInv, Kept
  <2>7. SuccessIsExact' /\ FailureLosesNothing'
    BY <2>1, NothingReported
  <2> QED BY <2>3, <2>4, <2>5, <2>6, <2>7 DEF SwitchInv
<1> QED BY <1>3, <1>4

LEMMA UndoEntryKeeps ==
    ASSUME SwitchInv, UndoEntry
    PROVE  SwitchInv'
<1>1. /\ pc = "u_state" /\ pc' = "u_key" /\ job' = [job EXCEPT !.entry = FALSE]
      /\ UNCHANGED <<home, current, codex, backups, taken, starts, verdict, raced>>
  BY DEF UndoEntry
<1>2. /\ TypeOK /\ BackupInv /\ OperationInv /\ SavedInv /\ job \in Jobs
  BY SwitchParts
<1>3. /\ job' \in Jobs /\ job'.op = job.op /\ job'.backup = job.backup
      /\ job'.from = job.from /\ job'.undo = job.undo /\ job'.before = job.before
      /\ job'.selected = job.selected /\ job'.saved = job.saved
      /\ job'.newer = job.newer /\ job'.entry = FALSE /\ job'.key = job.key
      /\ job'.chosen = job.chosen
  BY <1>1, <1>2 DEF Jobs
<1>4. TypeOK'
  <2>1. pc' \in Places
    BY <1>1 DEF Places
  <2> QED BY <1>1, <1>2, <1>3, <2>1 DEF TypeOK
<1>5. BackupInv'
  BY <1>1, <1>2 DEF BackupInv
<1>6. OperationInv'
  BY <1>1, <1>2, <1>3 DEF OperationInv, Restoring, Undoing
<1>7. SavedInv'
  BY <1>1, <1>2, <1>3 DEF SavedInv, Restoring, Undoing, Kept
<1>8. RestoreInv' /\ MigrationInv'
  BY <1>1 DEF RestoreInv, MigrationInv, Kept
<1>9. SuccessIsExact' /\ FailureLosesNothing'
  BY <1>1, NothingReported
<1> QED BY <1>4, <1>5, <1>6, <1>7, <1>8, <1>9 DEF SwitchInv

\* An edit that took no backup is undone with its key: it had changed no file.
LEMMA UndoKeyKeeps ==
    ASSUME SwitchInv, UndoKey
    PROVE  SwitchInv'
<1>1. /\ pc = "u_key" /\ job' = [job EXCEPT !.key = FALSE]
      /\ IF job.backup = 0 THEN pc' = "idle" /\ verdict' = "rolled back"
         ELSE pc' = "r_files" /\ UNCHANGED verdict
      /\ UNCHANGED <<home, current, codex, backups, taken, starts, raced>>
  BY DEF UndoKey
<1>2. /\ TypeOK /\ BackupInv /\ OperationInv /\ SavedInv /\ job \in Jobs
      /\ home \in Homes
  BY SwitchParts
<1>3. /\ job' \in Jobs /\ job'.op = job.op /\ job'.backup = job.backup
      /\ job'.from = job.from /\ job'.undo = job.undo /\ job'.before = job.before
      /\ job'.selected = job.selected /\ job'.saved = job.saved
      /\ job'.newer = job.newer /\ job'.entry = job.entry /\ job'.key = FALSE
      /\ job'.chosen = job.chosen
  BY <1>1, <1>2 DEF Jobs
<1>4. job.op = "edit" /\ job.undo /\ job.from = job.backup /\ ~job.entry
  BY <1>1, <1>2 DEF OperationInv, Restoring, Undoing
<1>5. pc' \in {"idle", "r_files"} /\ verdict' \in {verdict, "rolled back"}
  BY <1>1
<1>6. TypeOK'
  <2>1. pc' \in Places
    BY <1>5 DEF Places
  <2> QED BY <1>1, <1>2, <1>3, <1>5, <2>1 DEF TypeOK
<1>7. BackupInv'
  BY <1>1, <1>2, <1>5 DEF BackupInv
<1>8. OperationInv'
  BY <1>1, <1>2, <1>3, <1>4, <1>5 DEF OperationInv, Restoring, Undoing
<1>9. SavedInv'
  BY <1>1, <1>2, <1>3, <1>4, <1>5 DEF SavedInv, Restoring, Undoing, Kept
<1>10. RestoreInv' /\ MigrationInv'
  BY <1>3, <1>4, <1>5 DEF RestoreInv, MigrationInv, Kept
<1>11. SuccessIsExact' /\ FailureLosesNothing'
  <2>1. CASE job.backup # 0
    BY <1>1, <2>1, NothingReported
  <2>2. CASE job.backup = 0
    <3>1. pc' = "idle" /\ verdict' = "rolled back"
      BY <1>1, <2>2
    <3>2. ~raced /\ codex = Missing => home = job.before
      BY <1>1, <1>2, <2>2 DEF SavedInv, Restoring, Undoing, Kept
    <3>3. ~job.saved => current = job.selected
      BY <1>1, <1>2 DEF OperationInv, Restoring, Undoing
    <3>4. ~raced /\ codex = Missing => SameAs(job.before)'
      BY <1>1, <1>3, <3>2 DEF SameAs
    <3>5. RollbackIsExact'
      BY <1>1, <1>3, <1>4, <3>1, <3>3, <3>4 DEF RollbackIsExact, Kept
    <3> QED BY <3>1, <3>5 DEF SuccessIsExact, SwitchIsWhole, RestoreIsExact,
                              FailureLosesNothing, InterruptionCanBeUndone, Kept
  <2> QED BY <2>1, <2>2
<1> QED BY <1>6, <1>7, <1>8, <1>9, <1>10, <1>11 DEF SwitchInv

\* The folder that is put back is the operation's own, or the chosen one.
LEMMA HeldIsGoal ==
    ASSUME SwitchInv, Restoring, ~raced, job.undo => Kept
    PROVE  Held(job.from) = Goal
<1>1. BackupInv /\ OperationInv /\ SavedInv /\ job.undo \in BOOLEAN
  BY SwitchParts
<1>2. pc # "idle" /\ pc # "backup"
  BY DEF Restoring
<1>3. CASE job.undo
  <2>1. job.from = job.backup /\ Goal = job.before /\ job.backup # 0
    BY <1>1, <1>2, <1>3 DEF OperationInv, Goal, Restoring, Undoing
  <2>2. [id |-> job.from, home |-> job.before] \in Range(backups)
    BY <1>1, <1>2, <1>3, <2>1 DEF SavedInv, Restoring, Undoing, Kept
  <2> QED BY <1>1, <2>1, <2>2, HeldIsStored
<1>4. CASE ~job.undo
  <2>1. job.op = "restore" /\ Goal = job.chosen
    BY <1>1, <1>4 DEF OperationInv, Goal, Restoring, Undoing
  <2>2. [id |-> job.from, home |-> job.chosen] \in Range(backups)
    BY <1>1, <1>2, <1>4, <2>1 DEF SavedInv, Restoring, Undoing, Kept
  <2> QED BY <1>1, <2>1, <2>2, HeldIsStored
<1> QED BY <1>3, <1>4

\* A step of a restore that is not its last.
LEMMA RestoreStep ==
    ASSUME SwitchInv, Restoring, pc' \in {"r_auth", "r_db", "r_roll", "r_check"},
           pc' = "r_check" => ~job.undo, home' \in Homes,
           UNCHANGED <<job, verdict, current, codex, backups, taken, starts, raced>>,
           RestoreInv'
    PROVE  SwitchInv'
<1>1. TypeOK /\ BackupInv /\ OperationInv /\ SavedInv
  BY SwitchParts
<1>2. pc \in {"r_files", "r_auth", "r_db", "r_roll", "r_check"}
  BY DEF Restoring
<1>3. TypeOK'
  <2>1. pc' \in Places
    BY DEF Places
  <2> QED BY <1>1, <2>1 DEF TypeOK
<1>4. BackupInv' /\ OperationInv'
  BY <1>1, <1>2 DEF BackupInv, OperationInv, Restoring, Undoing
<1>5. SavedInv'
  <2>1. pc # "idle" /\ pc' # "idle" /\ Undoing' /\ Kept' = Kept /\ pc \notin {"close", "log"}
    BY <1>2 DEF Restoring, Undoing, Kept
  <2>2. job.backup # 0
    BY <1>1, <1>2 DEF OperationInv
  <2> QED BY <1>1, <2>1, <2>2 DEF SavedInv
<1>6. MigrationInv'
  BY DEF MigrationInv
<1>7. SuccessIsExact' /\ FailureLosesNothing'
  BY NothingReported
<1> QED BY <1>3, <1>4, <1>5, <1>6, <1>7 DEF SwitchInv

LEMMA RestoreConfigKeeps ==
    ASSUME SwitchInv, RestoreConfig
    PROVE  SwitchInv'
<1> DEFINE h == Held(job.from)
<1>1. /\ pc = "r_files" /\ pc' = "r_auth"
      /\ home' = IF h.config = Missing THEN home ELSE [home EXCEPT !.config = h.config]
      /\ UNCHANGED <<job, verdict, current, codex, backups, taken, starts, raced>>
  BY DEF RestoreConfig, GoTo
<1>2. home \in Homes /\ h \in Homes /\ Restoring /\ (~raced /\ (job.undo => Kept) => h = Goal)
  BY <1>1, SwitchParts, HeldIsHome, HeldIsGoal DEF Restoring
<1> HIDE DEF h
<1>3. home' \in Homes /\ (h.config # Missing => home'.config = h.config)
  BY <1>1, <1>2 DEF Homes
<1>4. Goal' = Goal
  BY <1>1 DEF Goal
<1>5. RestoreInv'
  BY <1>1, <1>2, <1>3, <1>4 DEF RestoreInv, Kept
<1> QED BY <1>1, <1>2, <1>3, <1>5, RestoreStep

LEMMA RestoreAuthKeeps ==
    ASSUME SwitchInv, RestoreAuth
    PROVE  SwitchInv'
<1> DEFINE h == Held(job.from)
<1>1. /\ pc = "r_auth" /\ pc' = "r_db"
      /\ home' = IF h.auth = Missing THEN home ELSE [home EXCEPT !.auth = h.auth]
      /\ UNCHANGED <<job, verdict, current, codex, backups, taken, starts, raced>>
  BY DEF RestoreAuth, GoTo
<1>2. /\ home \in Homes /\ h \in Homes /\ Restoring /\ RestoreInv
      /\ ~raced /\ (job.undo => Kept) => h = Goal
  BY <1>1, SwitchParts, HeldIsHome, HeldIsGoal DEF Restoring
<1> HIDE DEF h
<1>3. /\ home' \in Homes /\ home'.config = home.config
      /\ h.auth # Missing => home'.auth = h.auth
  BY <1>1, <1>2 DEF Homes
<1>4. Goal' = Goal
  BY <1>1 DEF Goal
<1>5. RestoreInv'
  BY <1>1, <1>2, <1>3, <1>4 DEF RestoreInv, Kept
<1> QED BY <1>1, <1>2, <1>3, <1>5, RestoreStep

LEMMA RestoreDatabaseKeeps ==
    ASSUME SwitchInv, RestoreDatabase
    PROVE  SwitchInv'
<1> DEFINE h == Held(job.from)
<1>1. /\ pc = "r_db" /\ pc' = "r_roll" /\ home' = [home EXCEPT !.db = h.db]
      /\ UNCHANGED <<job, verdict, current, codex, backups, taken, starts, raced>>
  BY DEF RestoreDatabase, GoTo
<1>2. /\ home \in Homes /\ h \in Homes /\ Restoring /\ RestoreInv
      /\ ~raced /\ (job.undo => Kept) => h = Goal
  BY <1>1, SwitchParts, HeldIsHome, HeldIsGoal DEF Restoring
<1> HIDE DEF h
<1>3. /\ home' \in Homes /\ home'.config = home.config /\ home'.auth = home.auth
      /\ home'.db = h.db
  BY <1>1, <1>2 DEF Homes
<1>4. Goal' = Goal
  BY <1>1 DEF Goal
<1>5. RestoreInv'
  BY <1>1, <1>2, <1>3, <1>4 DEF RestoreInv, Kept
<1> QED BY <1>1, <1>2, <1>3, <1>5, RestoreStep

\* With the first lines the directory is the one of the folder.
LEMMA RestoreRolloutsKeeps ==
    ASSUME SwitchInv, RestoreRollouts
    PROVE  SwitchInv'
<1> DEFINE h == Held(job.from)
<1>1. /\ pc = "r_roll" /\ home' = [home EXCEPT !.roll = FirstLines(h)]
      /\ IF job.undo THEN End("rolled back") ELSE GoTo("r_check")
      /\ UNCHANGED <<current, codex, backups, taken, starts, raced>>
  BY DEF RestoreRollouts
<1>2. /\ TypeOK /\ BackupInv /\ OperationInv /\ SavedInv /\ RestoreInv
      /\ home \in Homes /\ h \in Homes /\ Restoring /\ (~raced /\ (job.undo => Kept) => h = Goal)
  BY <1>1, SwitchParts, HeldIsHome, HeldIsGoal DEF Restoring
<1> HIDE DEF h
<1>3. /\ FirstLines(h) \in History
      /\ \A t \in Threads : h.roll[t] # Missing => FirstLines(h)[t] \in {Missing, h.roll[t]}
  BY <1>2, HomeTypes DEF FirstLines, History
<1>4. /\ home' \in Homes /\ home'.config = home.config /\ home'.auth = home.auth
      /\ home'.db = home.db /\ home'.roll = FirstLines(h)
  BY <1>1, <1>2, <1>3 DEF Homes
<1>5. UNCHANGED job
  BY <1>1 DEF End, GoTo
<1>6. ~raced /\ codex = Missing /\ (job.undo => Kept) =>
         /\ home'.db = Goal.db
         /\ Goal.config # Missing => home'.config = Goal.config
         /\ Goal.auth # Missing => home'.auth = Goal.auth
         /\ \A t \in Threads : Goal.roll[t] # Missing => home'.roll[t] \in {Missing, Goal.roll[t]}
  BY <1>1, <1>2, <1>3, <1>4 DEF RestoreInv, Kept
<1>7. CASE job.undo
  <2>1. End("rolled back") /\ pc' = "idle" /\ verdict' = "rolled back"
    BY <1>1, <1>7 DEF End
  <2>2. BackupInv'
    BY <1>1, <1>2, <2>1 DEF BackupInv
  <2>3. Goal = job.before
    BY <1>7 DEF Goal
  <2>4. ~job.entry /\ ~job.key /\ (~job.saved => current = job.selected)
    BY <1>1, <1>2 DEF OperationInv, Restoring, Undoing
  <2>5. RollbackIsExact'
    BY <1>1, <1>5, <1>6, <2>3, <2>4 DEF RollbackIsExact, SameAs, Kept
  <2> QED BY <1>1, <1>2, <1>4, <2>1, <2>2, <2>5, EndKeeps
<1>8. CASE ~job.undo
  <2>1. pc' = "r_check" /\ UNCHANGED verdict
    BY <1>1, <1>8 DEF GoTo
  <2>2. Goal' = Goal
    BY <1>5 DEF Goal
  <2>3. RestoreInv'
    <3>1. ~raced /\ codex = Missing => SameAs(Goal)'
      BY <1>6, <1>8, <2>2 DEF SameAs
    <3>2. Goal.config = Goal.config' /\ Goal.auth = Goal.auth' /\ Goal.db = Goal.db'
      BY <2>2
    <3> QED BY <1>1, <2>1, <2>2, <3>1 DEF RestoreInv, SameAs
  <2> QED BY <1>1, <1>2, <1>4, <1>5, <1>8, <2>1, <2>3, RestoreStep
<1> QED BY <1>7, <1>8

LEMMA RestoreEndsKeeps ==
    ASSUME SwitchInv, RestoreEnds
    PROVE  SwitchInv'
<1>1. /\ pc = "r_check" /\ backups' = Pruned(backups) /\ End("done")
      /\ codex' \in {codex, Reads(home)}
      /\ UNCHANGED <<home, current, taken, starts, raced>>
  BY DEF RestoreEnds, Launch
<1>2. pc' = "idle" /\ verdict' = "done" /\ UNCHANGED job
  BY <1>1 DEF End
<1>3. /\ TypeOK /\ BackupInv /\ OperationInv /\ RestoreInv /\ home \in Homes
  BY SwitchParts
<1>4. backups' \in Seq(Folders) /\ Range(backups') \subseteq Range(backups)
  BY <1>1, <1>3, PrunedKeepsLast DEF BackupInv
<1>5. BackupInv'
  BY <1>1, <1>2, <1>3, <1>4 DEF BackupInv
<1>6. job.op = "restore" /\ Goal = job.chosen
  BY <1>1, <1>3 DEF OperationInv, Goal, Restoring, Undoing
<1>7. Reads(home) # Missing /\ job.undo = FALSE
  <2>1. job.undo \in BOOLEAN
    BY SwitchParts
  <2> QED BY <1>1, <1>3, <2>1, HomeTypes DEF OperationInv, Restoring, Undoing
<1>8. ~raced /\ codex' = Missing => SameAs(job.chosen)
  BY <1>1, <1>3, <1>6, <1>7 DEF RestoreInv, Kept
<1>9. SwitchIsWhole' /\ RestoreIsExact'
  BY <1>1, <1>2, <1>6, <1>8 DEF SwitchIsWhole, RestoreIsExact, SameAs
<1> QED BY <1>1, <1>3, <1>5, <1>6, <1>9, EndKeeps

LEMMA DieKeeps ==
    ASSUME SwitchInv, Die
    PROVE  SwitchInv'
<1>1. /\ pc # "idle" /\ End("interrupted")
      /\ UNCHANGED <<home, current, codex, backups, taken, starts, raced>>
  BY DEF Die
<1>2. BackupInv /\ home \in Homes
  BY SwitchParts
<1>3. BackupInv'
  BY <1>1, <1>2 DEF BackupInv, End
<1> QED BY <1>1, <1>2, <1>3, EndKeeps

LEMMA SwitchStutters ==
    ASSUME SwitchInv, UNCHANGED vars
    PROVE  SwitchInv'
<1>1. /\ TypeOK /\ BackupInv /\ OperationInv /\ SavedInv /\ RestoreInv /\ MigrationInv
      /\ SwitchIsWhole /\ RestoreIsExact /\ RollbackIsExact /\ InterruptionCanBeUndone
  BY SwitchParts
<1>2. TypeOK' /\ BackupInv' /\ OperationInv'
  <2>1. TypeOK' /\ BackupInv'
    BY <1>1 DEF vars, TypeOK, BackupInv
  <2>2. OperationInv'
    BY <1>1 DEF vars, OperationInv, Restoring, Undoing
  <2> QED BY <2>1, <2>2
<1>3. SavedInv' /\ RestoreInv' /\ MigrationInv'
  BY <1>1 DEF vars, SavedInv, RestoreInv, MigrationInv, Restoring, Goal, Migrated,
              SameAs, Undoing, Kept, Reads
<1>4. SwitchIsWhole' /\ RestoreIsExact' /\ RollbackIsExact' /\ InterruptionCanBeUndone'
  BY <1>1 DEF vars, SwitchIsWhole, RestoreIsExact, RollbackIsExact, InterruptionCanBeUndone,
              SameAs, Kept
<1> QED BY <1>2, <1>3, <1>4 DEF SwitchInv, SuccessIsExact, FailureLosesNothing

\* Every step of an operation, of Codex and of the user keeps the invariant.
LEMMA SwitchNextKeeps ==
    ASSUME SwitchInv, Next
    PROVE  SwitchInv'
BY BeginsKeep, EditKeeps, CloseForEditKeeps, CreateBackupKeeps, WriteAuthKeeps,
   SaveEntryKeeps, UndoEntryKeeps, UndoKeyKeeps, UpdateConfigKeeps, BeginMigrationKeeps,
   RewriteKeeps, RewriteEndsKeeps, CommitKeeps, VerifyKeeps, SaveStateKeeps,
   LaunchEditedKeeps, LogAndLaunchKeeps, FailKeeps, RestoreConfigKeeps, RestoreAuthKeeps,
   RestoreDatabaseKeeps, RestoreRolloutsKeeps, RestoreEndsKeeps, DieKeeps, StartCodexKeeps,
   CodexWrites, DeleteKeeps, SwitchStutters DEF Next, Idle

LEMMA SwitchInitHolds == Init => SwitchInv
<1> SUFFICES ASSUME Init PROVE SwitchInv
  OBVIOUS
<1>1. current \in Profiles /\ Provider(current) \in Providers
  BY SwitchConstants DEF Init
<1>2. home \in Homes
  <2>1. PICK config \in {Provider(current), Missing} :
           home = [auth |-> IF current \in Accounts THEN current ELSE Missing,
                   config |-> config, db |-> [t \in Threads |-> Missing],
                   roll |-> [t \in Threads |-> Missing]]
    BY DEF Init, Found
  <2> QED BY <1>1, <2>1 DEF Homes, History
<1>3. NoBackup \in [id : 0..MaxBackups, home : Homes]
  BY <1>2, SwitchConstants DEF NoBackup
<1>4. /\ job \in Jobs /\ job.op = "repair" /\ job.newer = 0
      /\ job.entry = FALSE /\ job.key = FALSE
  <2>1. job = Job("repair", current, NoBackup)
    BY DEF Init
  <2>2. Operation("repair") /\ Folder(NoBackup)
    BY <1>3 DEF Operation, Folder
  <2>3. Fresh(job, "repair", NoBackup)
    BY <1>1, <1>2, <2>1, <2>2, JobShape
  <2> QED BY <2>3 DEF Fresh
<1>5. /\ codex = Missing /\ backups = <<>> /\ taken = 0 /\ starts = 0
      /\ pc = "idle" /\ verdict = "none" /\ raced = FALSE
  BY DEF Init
<1>6. raced \in BOOLEAN
  BY <1>5, Zenon
<1>7. TypeOK
  <2>1. taken \in 0..MaxBackups /\ starts \in 0..MaxStarts
    BY <1>5, SwitchConstants
  <2> QED BY <1>1, <1>2, <1>4, <1>5, <1>6, <2>1 DEF TypeOK, Places
<1>8. BackupInv
  BY <1>5 DEF BackupInv, Range
<1>9. /\ OperationInv /\ SavedInv /\ RestoreInv /\ MigrationInv
      /\ SuccessIsExact /\ FailureLosesNothing
  BY <1>4, <1>5 DEF OperationInv, SavedInv, RestoreInv, MigrationInv, Restoring, SuccessIsExact,
              FailureLosesNothing, SwitchIsWhole, RestoreIsExact, RollbackIsExact,
              InterruptionCanBeUndone, Undoing, Kept
<1> QED BY <1>7, <1>8, <1>9 DEF SwitchInv

LEMMA SwitchInitHoldsNext == Init' => SwitchInv'
  BY SwitchInitHolds, PTL

-----------------------------------------------------------------------------
(* The session *)

LEMMA SessionNextKeeps ==
    ASSUME CloseInv, SwitchInv, [SessionNext]_allVars
    PROVE  CloseInv' /\ SwitchInv'
<1>1. CASE CloseNext /\ UNCHANGED vars
  BY <1>1, CloseNextKeeps, SwitchStutters
<1>2. CASE HandOver
  <2>1. /\ closing' = [NotClosing EXCEPT !.pc = "handed over"]
        /\ procs' = [p \in Pids |-> NoProcess] /\ now' = 0 /\ turn' = FALSE
        /\ killed' = {} /\ late' = FALSE /\ reopened' = FALSE
    BY <1>2 DEF HandOver
  <2>2. /\ closing' = [pc |-> "handed over", known |-> {}, owned |-> {}, desktops |-> {},
                       pinned |-> {}, attempted |-> FALSE]
    BY <2>1 DEF NotClosing
  <2>3. Live' = {}
    BY <2>1 DEF Live
  <2>4. ClosingTypeOK'
    <3>1. 0 \in 0..MaxTime
      BY CloseConstants
    <3>2. turn' \in BOOLEAN /\ late' \in BOOLEAN /\ reopened' \in BOOLEAN
      BY <2>1, Zenon
    <3>3. procs' \in [Pids -> Processes \cup {NoProcess}]
      BY <2>1
    <3>4. FALSE \in BOOLEAN /\ {} \subseteq Identities
      OBVIOUS
    <3>5. /\ closing' \in [pc : {"idle", "observe", "observe again", "query", "pin", "guard",
                                "kill", "wait", "turns", "closed", "refused", "handed over"},
                          known : SUBSET Identities, owned : SUBSET Identities,
                          desktops : SUBSET Identities, pinned : SUBSET Identities,
                          attempted : BOOLEAN]
          /\ closing'.pinned = {}
      BY <2>2, <3>4
    <3> QED BY <2>1, <3>1, <3>2, <3>3, <3>5 DEF ClosingTypeOK
  <2>5. /\ closing'.pc = "handed over" /\ closing'.known = {} /\ closing'.owned = {}
        /\ closing'.pinned = {}
    BY <2>2
  <2>6. MachineInv' /\ MemoryInv'
    BY <2>3, <2>5 DEF MachineInv, MemoryInv, Desktops
  <2>7. GuardInv' /\ OnlyDesktopKilled' /\ ClosedIsClosed'
    BY <2>1, <2>5 DEF GuardInv, OnlyDesktopKilled, ClosedIsClosed
  <2>8. CloseInv'
    BY <2>4, <2>6, <2>7 DEF CloseInv
  <2>9. Init'
    BY <1>2 DEF HandOver, Init
  <2> QED BY <2>8, <2>9, SwitchInitHoldsNext
<1>3. ASSUME UNCHANGED closeVars
      PROVE  CloseInv'
  <2>1. UNCHANGED <<procs, now, turn, closing, killed, late, reopened>>
    BY <1>3 DEF closeVars
  <2>2. ClosingTypeOK /\ MachineInv /\ MemoryInv /\ GuardInv /\ OnlyDesktopKilled
        /\ ClosedIsClosed
    BY DEF CloseInv
  <2>3. MachineInv' /\ MemoryInv'
    BY <2>1, <2>2, MemoryKeeps
  <2>4. /\ Live' = Live /\ Ids(Live)' = Ids(Live)
        /\ \A p \in Live : Id(p)' = Id(p)
    BY <2>1, <2>2, SameMachine
  <2>5. ClosingTypeOK' /\ GuardInv' /\ OnlyDesktopKilled' /\ ClosedIsClosed'
    BY <2>1, <2>2, <2>4 DEF ClosingTypeOK, GuardInv, OnlyDesktopKilled, ClosedIsClosed
  <2> QED BY <2>3, <2>5 DEF CloseInv
<1>4. CASE Next /\ UNCHANGED closeVars
  BY <1>3, <1>4, SwitchNextKeeps
<1>5. CASE UNCHANGED allVars
  BY <1>3, <1>5, SwitchStutters DEF allVars
<1> QED BY <1>1, <1>2, <1>4, <1>5 DEF SessionNext

\* The inductive invariants of the closing and of the operations.
THEOREM SessionHolds == SessionSpec => [](CloseInv /\ SwitchInv)
<1>1. SessionInit => CloseInv /\ SwitchInv
  BY CloseInitHolds, SwitchInitHolds DEF SessionInit
<1>2. CloseInv /\ SwitchInv /\ [SessionNext]_allVars => (CloseInv /\ SwitchInv)'
  BY SessionNextKeeps
<1> QED BY <1>1, <1>2, PTL DEF SessionSpec

\* force_close_codex terminates only processes of the desktop, never an
\* independent command line, however process ids are used again, and not while
\* a turn is in progress that its last look could see.
THEOREM KillsStayAllowed == SessionSpec => []KillsAreAllowed
<1>1. CloseInv => KillsAreAllowed
  BY DEF CloseInv, GuardInv, KillsAreAllowed, NoTurnKilled
<1> QED BY <1>1, SessionHolds, PTL

\* When _ensure_codex_closed reports success, no process that it knew is alive,
\* and no runtime of a desktop that it terminated, however long the chain between
\* them, unless a process of that chain came and went between two queries.
THEOREM ClosedStaysClosed == SessionSpec => []ClosedIsClosed
<1>1. CloseInv => ClosedIsClosed
  BY DEF CloseInv
<1> QED BY <1>1, SessionHolds, PTL

\* A switch or a repair that reports success left config.toml, every row and every
\* chat file with its provider; a restore put back every file that its backup has.
THEOREM SuccessesAreExact == SessionSpec => []SuccessIsExact
<1>1. SwitchInv => SuccessIsExact
  BY DEF SwitchInv
<1> QED BY <1>1, SessionHolds, PTL

\* An operation that failed put back every file that it found, and the entry and
\* key of the profile; one whose process died left a backup of every file; unless
\* its backup got a name before those of Limit older ones.
THEOREM FailuresLoseNothing == SessionSpec => []FailureLosesNothing
<1>1. SwitchInv => FailureLosesNothing
  BY DEF SwitchInv
<1> QED BY <1>1, SessionHolds, PTL

=============================================================================
