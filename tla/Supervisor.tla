----------------------------- MODULE Supervisor -----------------------------
(***************************************************************************)
(* The two supervisors of the gateway process: the one a Windows scheduled *)
(* task starts (gateway/supervisor.py) and the one cron starts every       *)
(* minute on Linux (gateway/cron_supervisor.py).  Each takes a file lock,  *)
(* restores the crashes of the recent past from a document, runs the       *)
(* gateway again and again, and stops for good, on disk, when it crashes   *)
(* too often or its configuration is broken.  The gateway itself is here   *)
(* only as a process with a lock of its own (gateway/singleton.py) that    *)
(* outlives a supervisor that is killed.                                   *)
(***************************************************************************)
EXTENDS Integers, Sequences, FiniteSets

CONSTANTS
    Sups,         \* supervisor processes that may be started
    MaxRestarts,  \* max_restarts
    Window,       \* window_seconds
    Stable,       \* stable_run_reset_seconds
    MaxDelay,     \* max_delay_seconds, base_delay_seconds being 1
    Horizon,      \* bound: gateways end before this time
    MaxBack,      \* bound: how far the wall clock is ever set back
    Configs,      \* bound: revisions of the configuration file
    NoOne,        \* no process
    Missing,      \* no document
    Garbled       \* a document that cannot be parsed

Reasons == {"none", "configuration_error", "crash_loop"}

VARIABLES
    cron,      \* which machine this is: cron_supervisor.py or supervisor.py
    mono,      \* the monotonic clock
    back,      \* how far the wall clock was set back
    config,    \* the revision of the configuration file
    release,   \* the release pointer leads to an intact release
    document,  \* supervisor.json / cron-supervisor.json
    holder,    \* who has the supervisor's lock
    pc,        \* where each supervisor is
    memory,    \* the holder's BoundedRestartSupervisor
    started,   \* when its gateway was started, or when it will wake up
    gateway,   \* who runs the gateway that has gateway.lock; an orphan's
               \* supervisor is gone
    restarts,  \* history: when the gateway ended with a crash that was counted,
               \* since an operator, a clean end, another configuration or a
               \* clock set forward
    starts,    \* history: when a gateway was started, since then, as long as
               \* no end went uncounted
    lapsed     \* history: an end went uncounted since then: its supervisor had
               \* died, or could not save it; or the clock was set forward

history == <<restarts, starts, lapsed>>
vars == <<cron, mono, back, config, release, document, holder, pc, memory, started,
          gateway, restarts, starts, lapsed>>

wall == mono - back

Places == {"off", "starting", "serving", "refused", "sleeping"}
State  == [config : 1..Configs, crashes : Seq(Int), last : Int,
           reason : Reasons]

ASSUME SupervisorAssumption ==
    /\ {MaxRestarts, Horizon, MaxBack} \subseteq Nat
    /\ {Window, Stable, MaxDelay, Configs} \subseteq Nat \ {0}
    /\ Window <= Stable
    /\ NoOne \notin Sups /\ Missing # Garbled
    /\ {Missing, Garbled} \cap State = {}

TypeOK ==
    /\ cron \in BOOLEAN /\ mono \in Nat /\ back \in 0..MaxBack /\ config \in 1..Configs
    /\ release \in BOOLEAN
    /\ document \in {Missing, Garbled} \/ document \in State
    /\ holder \in Sups \cup {NoOne}
    /\ pc \in [Sups -> Places]
    /\ memory \in State /\ started \in Nat
    /\ gateway \in Sups \cup {NoOne, "orphan"}
    /\ restarts \in Seq(Nat)

\* Nothing observed yet; -MaxBack stands for last_observed_at = None.
Fresh == [config |-> config, crashes |-> << >>, last |-> -MaxBack,
          reason |-> "none"]

Init ==
    /\ mono = MaxBack /\ back = 0 /\ config = 1 /\ release \in BOOLEAN
    /\ document \in {Missing, Garbled} /\ cron \in BOOLEAN
    /\ holder = NoOne /\ pc = [s \in Sups |-> "off"]
    /\ memory = Fresh /\ started = 0
    /\ gateway = NoOne /\ restarts = << >> /\ starts = << >> /\ lapsed = FALSE

\* History: from here on the crashes are counted anew; an end is not counted.
Anew  == restarts' = << >> /\ starts' = << >> /\ lapsed' = FALSE
Lapse == starts' = << >> /\ lapsed' = TRUE

-----------------------------------------------------------------------------
Sorted(s) == \A i, j \in DOMAIN s : i <= j => s[i] <= s[j]

\* What restore accepts of a document, and what _load_state uses of one: cron's
\* asks for no order, and ignores what was written for another configuration.
Restorable(d) ==
    cron \/ /\ Sorted(d.crashes)
            /\ d.crashes # << >> => d.crashes[Len(d.crashes)] <= d.last

\* Latched by an earlier run, for the configuration c.
Latched(d, c) == d \in State /\ d.reason # "none" /\ (cron => d.config = c)

BadSafeStopped(d) == Latched(d, config) /\ d.reason = "crash_loop"

SafeStopped(d) == Latched(d, config)

\* load / _load_state: what the loop starts from.
Load(d) == IF d = Missing \/ (cron /\ d.config # config) THEN Fresh ELSE d

\* popleft while the oldest is not in the window any more.
DropOld(crashes, cutoff) ==
    LET kept == {i \in DOMAIN crashes : crashes[i] > cutoff}
    IN  IF kept = {} THEN << >>
        ELSE SubSeq(crashes, CHOOSE i \in kept : \A j \in kept : i <= j,
                    Len(crashes))

BadRecent(crashes, duration) == <<wall>>

\* The crashes that count once one more has happened: those of the window, and
\* none from before a long run.
Recent(crashes, duration) ==
    Append(DropOld(IF duration >= Stable THEN << >> ELSE crashes, wall - Window),
           wall)

Delay(n) == IF 2^(n - 1) \in 1..MaxDelay THEN 2^(n - 1) ELSE MaxDelay

\* observe_exit raises when the clock was set back before what it last saw;
\* cron's supervisor does not look.
ClockMovedBack == ~cron /\ wall < memory.last

\* observe_exit: what the holder remembers after its gateway ended with code.
ObserveExit(code, duration) ==
    LET seen == [memory EXCEPT !.last = IF cron THEN @ ELSE wall]
        recent == Recent(memory.crashes, duration)
    IN  CASE code = 0  -> [seen EXCEPT !.crashes = << >>]
          [] code = 78 -> [seen EXCEPT !.reason = "configuration_error"]
          [] OTHER     -> [seen EXCEPT !.crashes = recent,
                             !.reason = IF Len(recent) > MaxRestarts
                                        THEN "crash_loop" ELSE @]

-----------------------------------------------------------------------------
\* acquire, which never waits.
Unlocked == holder = NoOne

BadLeave(s) == pc' = [pc EXCEPT ![s] = "off"] /\ UNCHANGED holder

\* The process ends and the system drops its lock.
Leave(s) ==
    /\ pc' = [pc EXCEPT ![s] = "off"]
    /\ holder' = NoOne

\* main: the lock, the document, and the loop if it permits one.  A process
\* that does not get the lock, or finds a latch, ends at once.
Launch(s) ==
    /\ pc[s] = "off" /\ Unlocked
    /\ cron => release
    /\ document # Garbled /\ ~SafeStopped(document)
    /\ holder' = s
    /\ pc' = [pc EXCEPT ![s] = "starting"]
    /\ memory' = Load(document)
    /\ IF document # Missing /\ Load(document) = Fresh THEN Anew ELSE UNCHANGED history
    /\ UNCHANGED <<cron, mono, back, config, release, document, started, gateway>>

LaunchEnds(s) ==
    /\ pc[s] = "off"
    /\ \/ ~Unlocked \/ (cron /\ ~release)
       \/ document = Garbled \/ SafeStopped(document)
    /\ UNCHANGED vars

\* The release is intact and its executable runs; it keeps running only if it
\* gets gateway.lock.
StartGateway(s) ==
    /\ pc[s] = "starting" /\ (cron \/ release)
    /\ pc' = [pc EXCEPT ![s] = IF gateway = NoOne THEN "serving" ELSE "refused"]
    /\ gateway' = IF gateway = NoOne THEN s ELSE gateway
    /\ started' = mono
    /\ starts' = IF lapsed THEN starts ELSE Append(starts, mono)
    /\ UNCHANGED <<cron, mono, back, config, release, document, holder, memory,
                   restarts, lapsed>>

\* The release pointer or the release is broken, which no restart can mend.
ReleaseBroken(s) ==
    /\ pc[s] = "starting" /\ ~cron /\ ~release
    /\ \/ ~ClockMovedBack /\ document' = ObserveExit(78, 0)
       \/ UNCHANGED document     \* the clock, or the document cannot be saved
    /\ Leave(s)
    /\ UNCHANGED <<cron, mono, back, config, release, memory, started, gateway,
                   history>>

\* The gateway ends: cleanly (0), for its configuration (78) or otherwise (1,
\* which is also how one ends that does not get gateway.lock).  What follows
\* from it is saved, and the supervisor sleeps before a restart or ends.
GatewayEnds(s, code) ==
    /\ pc[s] \in {"serving", "refused"}
    /\ IF pc[s] = "serving" THEN mono < Horizon ELSE code = 1
    /\ ~ClockMovedBack
    /\ gateway' = IF pc[s] = "serving" THEN NoOne ELSE gateway
    /\ LET next == ObserveExit(code, mono - started)
       IN  /\ document' = next
           /\ IF code = 1 /\ next.reason = "none"
              THEN /\ memory' = next
                   /\ started' = mono + Delay(Len(next.crashes))
                   /\ pc' = [pc EXCEPT ![s] = "sleeping"]
                   /\ restarts' = Append(restarts, mono)
                   /\ UNCHANGED <<holder, starts, lapsed>>
              ELSE /\ Leave(s)
                   /\ IF code = 0 THEN Anew ELSE UNCHANGED history
                   /\ UNCHANGED <<memory, started>>
    /\ UNCHANGED <<cron, mono, back, config, release>>

\* The gateway ends and the supervisor with it: the clock was set back, or the
\* document cannot be saved.
GatewayEndsUnseen(s) ==
    /\ pc[s] \in {"serving", "refused"}
    /\ pc[s] = "serving" => mono < Horizon
    /\ gateway' = IF pc[s] = "serving" THEN NoOne ELSE gateway
    /\ Leave(s) /\ Lapse
    /\ UNCHANGED <<cron, mono, back, config, release, document, memory, started,
                   restarts>>

WakeUp(s) ==
    /\ pc[s] = "sleeping" /\ mono >= started
    /\ pc' = [pc EXCEPT ![s] = "starting"]
    /\ UNCHANGED <<cron, mono, back, config, release, document, holder, memory,
                   started, gateway, history>>

-----------------------------------------------------------------------------
\* A supervisor is killed.  The gateway it started goes on without it.
Kill(s) ==
    /\ pc[s] # "off" /\ mono < Horizon
    /\ Leave(s)
    /\ gateway' = IF gateway = s THEN "orphan" ELSE gateway
    /\ IF pc[s] \in {"serving", "refused"} THEN Lapse ELSE UNCHANGED <<starts, lapsed>>
    /\ UNCHANGED <<cron, mono, back, config, release, document, memory, started,
                   restarts>>

OrphanEnds ==
    /\ gateway = "orphan" /\ mono < Horizon
    /\ gateway' = NoOne /\ Lapse
    /\ UNCHANGED <<cron, mono, back, config, release, document, holder, pc, memory,
                   started, restarts>>

\* A deployment, or its recovery, replaces the configuration file.
ChangeConfig ==
    /\ mono < Horizon
    /\ \E c \in 1..Configs \ {config} : config' = c
    /\ UNCHANGED <<cron, mono, back, release, document, holder, pc, memory, started,
                   gateway, history>>

\* reset_after_operator_action, saved.
OperatorReset ==
    /\ Unlocked /\ mono < Horizon
    /\ document' = Fresh /\ Anew
    /\ UNCHANGED <<cron, mono, back, config, release, holder, pc, memory, started,
                   gateway>>

Tick ==
    /\ mono < Horizon \/ \E s \in Sups : pc[s] = "sleeping" /\ mono < started
    /\ mono' = mono + 1
    /\ UNCHANGED <<cron, back, config, release, document, holder, pc, memory, started,
                   gateway, history>>

SetClockBack ==
    /\ back < MaxBack
    /\ back' = back + 1
    /\ UNCHANGED <<cron, mono, config, release, document, holder, pc, memory, started,
                   gateway, history>>

\* A clock that was set back is set right again; to the window the crashes then
\* lie further back than they do.
SetClockForward ==
    /\ back > 0
    /\ back' = back - 1
    /\ restarts' = << >> /\ Lapse
    /\ UNCHANGED <<cron, mono, config, release, document, holder, pc, memory, started,
                   gateway>>

Next ==
    \/ \E s \in Sups :
          \/ Launch(s) \/ LaunchEnds(s) \/ StartGateway(s) \/ ReleaseBroken(s)
          \/ \E code \in {0, 1, 78} : GatewayEnds(s, code)
          \/ GatewayEndsUnseen(s) \/ WakeUp(s) \/ Kill(s)
    \/ OrphanEnds \/ ChangeConfig \/ OperatorReset \/ Tick
    \/ SetClockBack \/ SetClockForward

Spec == Init /\ [][Next]_vars

\* A gateway that did not get its lock ends.
RefusedEnds(s) ==
    pc[s] = "refused" /\ (GatewayEnds(s, 1) \/ GatewayEndsUnseen(s))

\* The scheduler runs a live process, time passes, and cron starts the
\* supervisor again every minute.
FairSpec ==
    /\ Spec /\ WF_vars(Tick)
    /\ \A s \in Sups : /\ WF_vars(StartGateway(s)) /\ WF_vars(WakeUp(s))
                      /\ WF_vars(RefusedEnds(s))
    /\ WF_vars(cron /\ \E s \in Sups : Launch(s))

-----------------------------------------------------------------------------
\* The times of h that lie in one window of real time with the i-th.
InWindow(h, i) == {j \in DOMAIN h : h[j] \in h[i]..(h[i] + Window - 1)}

\* However supervisors are killed, restarted and race for the lock, and although
\* an end that nobody counts happens in between, the gateway is never restarted
\* after more than max_restarts counted crashes in one window of real time
\* without an operator, a clean end, a new configuration or a clock set forward.
\* (An end nobody counts costs its own count and no other.)
RestartsBounded ==
    \A i \in DOMAIN restarts : Cardinality(InWindow(restarts, i)) <= MaxRestarts

\* As long as every end is counted, this bounds the starts: however a gateway
\* comes to be started, no window holds more than one start and its
\* max_restarts restarts.
StartsBounded ==
    \A i \in DOMAIN starts : Cardinality(InWindow(starts, i)) <= MaxRestarts + 1

\* The supervisor can read what it wrote: a document that restore refuses would
\* leave the gateway without a supervisor until somebody deletes it.
DocumentRestorable == document \in State => Restorable(document)

\* A crash loop that is counted ends: the restarts after counted crashes are
\* bounded, so are all starts while no end goes uncounted, and the document is
\* one the next supervisor accepts.  Nothing bounds the ends that go uncounted
\* (lapsed): a supervisor that is killed with every gateway, or can never save
\* its document, is started again by cron for ever.
CrashLoopEnds == RestartsBounded /\ StartsBounded /\ DocumentRestorable

StartIsAllowed ==
    \A s \in Sups : pc[s] = "starting" /\ pc'[s] \in {"serving", "refused"}
        => ~Latched(document, memory.config)

\* No supervisor starts a gateway while the document it works from says that
\* the gateway is stopped for good.
LatchForbidsStart ==
    [][StartIsAllowed]_vars

\* The inductive invariant.  A supervisor that runs has the lock.
Supervised == \E s \in Sups : pc[s] # "off"
HolderInv == \A s \in Sups : pc[s] # "off" => holder = s

\* The crashes that are counted are the last restarts, in the same order, by a
\* clock that is never ahead of the time that passed; what is not counted any
\* more is a window old.
Linked(crashes) ==
    \A i \in 1..Len(restarts) :
        LET c == Len(crashes) - Len(restarts) + i
        IN  IF c >= 1 THEN crashes[c] >= restarts[i] - back
            ELSE restarts[i] + Window <= mono

MemoryInv ==
    Supervised => /\ memory.reason = "none" /\ ~Latched(document, memory.config)
                  /\ Linked(memory.crashes) /\ Restorable(memory)

DocumentInv ==
    /\ document = Missing => restarts = << >>
    /\ document \in State =>
          /\ Restorable(document)
          /\ document.reason = "none" => Linked(document.crashes)

\* max_restarts restarts later at least a window has passed.
Spaced ==
    \A i \in 1..Len(restarts) :
        i + MaxRestarts <= Len(restarts) =>
            restarts[i] + Window <= restarts[i + MaxRestarts]

TimeInv ==
    /\ Sorted(restarts) /\ Spaced
    /\ \A i \in 1..Len(restarts) : restarts[i] <= mono
    /\ \A s \in Sups : pc[s] \in {"serving", "refused"} =>
          started <= mono /\ \A i \in 1..Len(restarts) : restarts[i] <= started

\* While every end is counted, starts and restarts alternate: a gateway is
\* started again after the restart that was counted for it.
Running == \E s \in Sups : pc[s] \in {"serving", "refused"}
Startable == \E s \in Sups : pc[s] \in {"starting", "sleeping"}
StartsInv ==
    /\ starts \in Seq(Nat) /\ lapsed \in BOOLEAN
    /\ lapsed => starts = << >>
    /\ ~lapsed =>
          /\ Len(restarts) <= Len(starts) /\ Len(starts) <= Len(restarts) + 1
          /\ Running => Len(starts) = Len(restarts) + 1
          /\ Startable => Len(starts) = Len(restarts)
          /\ ~Supervised /\ (document \in State => document.reason = "none")
                => Len(starts) = Len(restarts)
    /\ Sorted(starts)
    /\ \A i \in 1..Len(starts) : starts[i] <= mono
    /\ \A i \in 1..Len(starts) :
          i <= Len(restarts) =>
             /\ starts[i] <= restarts[i]
             /\ i + 1 <= Len(starts) => restarts[i] <= starts[i + 1]

CoreInv == TypeOK /\ HolderInv /\ MemoryInv /\ DocumentInv /\ TimeInv
SupervisorInv == CoreInv /\ StartsInv

\* With cron, once supervisors stop being killed and the configuration stays, a
\* gateway of an intact release runs for good unless the document stops it.
EventuallyServed ==
    <>[](\/ gateway # NoOne \/ ~release \/ ~cron
         \/ document = Garbled \/ Latched(document, config))
=============================================================================
