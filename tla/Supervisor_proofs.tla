-------------------------- MODULE Supervisor_proofs --------------------------
(***************************************************************************)
(* Proofs about Supervisor, for every number of supervisor processes, every*)
(* limit, window and delay, and every length of a run.                     *)
(***************************************************************************)
EXTENDS Supervisor, TLAPS, WellFoundedInduction, FiniteSetTheorems

-----------------------------------------------------------------------------
(* Numbers, sets and sequences *)

LEMMA Constants ==
    /\ MaxRestarts \in Nat /\ Horizon \in Nat /\ MaxBack \in Nat
    /\ Window \in Nat \ {0} /\ Stable \in Nat \ {0} /\ MaxDelay \in Nat \ {0}
    /\ Configs \in Nat \ {0} /\ Window <= Stable
    /\ NoOne \notin Sups /\ Missing # Garbled
    /\ Missing \notin State /\ Garbled \notin State
BY SupervisorAssumption

\* A set of naturals that is not empty has a least element.
LEMMA Least ==
    ASSUME NEW S, S \subseteq Nat, S # {}
    PROVE  \E x \in S : \A y \in S : x <= y
<1> DEFINE R == OpToRel(<, Nat)
<1>1. IsWellFoundedOn(R, Nat)
  BY NatLessThanWellFounded
<1>2. \A x, y \in Nat : y < x => <<y, x>> \in R
  BY DEF OpToRel
<1> HIDE DEF R
<1>3. PICK x \in S : \A y \in S : ~ (<<y, x>> \in R)
  BY <1>1, WFMin
<1>4. x \in Nat
  BY <1>3
<1>5. \A y \in S : y \in Nat /\ ~(y < x)
  BY <1>2, <1>3, <1>4
<1>6. \A y \in S : x <= y
  BY <1>4, <1>5
<1> QED BY <1>3, <1>6

\* popleft: what is left is a suffix, and what is gone is not after the cutoff.
LEMMA DropOldShape ==
    ASSUME NEW s \in Seq(Int), NEW cutoff \in Int,
           NEW d, d = DropOld(s, cutoff)
    PROVE  /\ d \in Seq(Int) /\ Len(d) \in 0..Len(s)
           /\ \A i \in 1..Len(d) : d[i] = s[Len(s) - Len(d) + i]
           /\ \A i \in 1..(Len(s) - Len(d)) : s[i] <= cutoff
<1> DEFINE kept == {i \in DOMAIN s : s[i] > cutoff}
<1>1. /\ Len(s) \in Nat /\ DOMAIN s = 1..Len(s)
      /\ \A i \in 1..Len(s) : s[i] \in Int
  OBVIOUS
<1>2. CASE kept = {}
  <2>1. d = << >>
    BY <1>2 DEF DropOld
  <2>2. \A i \in 1..Len(s) : s[i] <= cutoff
    BY <1>1, <1>2
  <2> QED BY <1>1, <2>1, <2>2
<1>3. CASE kept # {}
  <2> DEFINE k == CHOOSE i \in kept : \A j \in kept : i <= j
  <2>1. \E i \in kept : \A j \in kept : i <= j
    <3>1. kept \subseteq Nat
      BY <1>1
    <3> QED BY <1>3, <3>1, Least
  <2>2. k \in kept /\ \A j \in kept : k <= j
    BY <2>1
  <2>3. d = SubSeq(s, k, Len(s))
    BY <1>3 DEF DropOld
  <2>4. k \in 1..Len(s) /\ \A i \in 1..Len(s) : i < k => s[i] <= cutoff
    BY <1>1, <2>2
  <2> HIDE DEF k
  <2>5. /\ d \in Seq(Int) /\ Len(d) = Len(s) - k + 1
        /\ \A i \in 1..Len(d) : d[i] = s[k + i - 1]
    BY <1>1, <2>3, <2>4
  <2> QED BY <1>1, <2>4, <2>5
<1> QED BY <1>2, <1>3

\* The two clocks.
LEMMA Clocks ==
    ASSUME TypeOK PROVE wall \in Int /\ wall = mono - back /\ mono \in Nat /\ back \in Nat
BY Constants DEF TypeOK, wall

\* What is remembered of a document or of memory.
LEMMA StateShape ==
    ASSUME NEW d \in State
    PROVE  /\ d.crashes \in Seq(Int) /\ d.last \in Int /\ d.config \in 1..Configs
           /\ d.reason \in Reasons
BY DEF State

\* The crashes that count: the last is now, the others are the last of those
\* remembered, and those dropped are out of the window or before a long run.
LEMMA RecentShape ==
    ASSUME TypeOK, NEW cs \in Seq(Int), NEW duration \in Int,
           NEW r, r = Recent(cs, duration)
    PROVE  /\ r \in Seq(Int) /\ Len(r) >= 1 /\ r[Len(r)] = wall
           /\ Len(r) - 1 <= Len(cs)
           /\ \A i \in 1..(Len(r) - 1) : r[i] = cs[Len(cs) - Len(r) + 1 + i]
           /\ \/ duration >= Stable
              \/ \A i \in 1..(Len(cs) - Len(r) + 1) : cs[i] <= wall - Window
<1> DEFINE base == IF duration >= Stable THEN << >> ELSE cs
           d == DropOld(base, wall - Window)
<1>1. wall \in Int /\ wall - Window \in Int
  BY Clocks, Constants
<1>2. base \in Seq(Int)
  OBVIOUS
<1>3. r = Append(d, wall)
  BY DEF Recent
<1>4. /\ duration >= Stable => base = << >>
      /\ ~(duration >= Stable) => base = cs
  OBVIOUS
<1> HIDE DEF base
<1>5. /\ d \in Seq(Int) /\ Len(d) \in 0..Len(base)
      /\ \A i \in 1..Len(d) : d[i] = base[Len(base) - Len(d) + i]
      /\ \A i \in 1..(Len(base) - Len(d)) : base[i] <= wall - Window
  BY <1>1, <1>2, DropOldShape
<1> HIDE DEF d
<1>6. /\ r \in Seq(Int) /\ Len(r) = Len(d) + 1 /\ r[Len(r)] = wall
      /\ \A i \in 1..Len(d) : r[i] = d[i]
  BY <1>1, <1>3, <1>5
<1>7. CASE duration >= Stable
  BY <1>4, <1>5, <1>6, <1>7
<1>8. CASE ~(duration >= Stable)
  BY <1>4, <1>5, <1>6, <1>8
<1> QED BY <1>7, <1>8

-----------------------------------------------------------------------------
(* observe_exit *)

LEMMA ObserveExitShape ==
    ASSUME TypeOK, NEW code \in {0, 1, 78}, NEW duration \in Int,
           NEW o, o = ObserveExit(code, duration)
    PROVE  /\ o \in State /\ o.config = memory.config
           /\ o.last = IF cron THEN memory.last ELSE wall
           /\ code = 0 => o.crashes = << >> /\ o.reason = memory.reason
           /\ code = 78 => o.crashes = memory.crashes /\ o.reason = "configuration_error"
           /\ code = 1 =>
                 /\ o.crashes = Recent(memory.crashes, duration)
                 /\ o.reason = IF Len(o.crashes) > MaxRestarts
                               THEN "crash_loop" ELSE memory.reason
<1> DEFINE seen == [memory EXCEPT !.last = IF cron THEN @ ELSE wall]
           recent == Recent(memory.crashes, duration)
<1>1. memory \in State /\ memory.crashes \in Seq(Int) /\ wall \in Int
  BY StateShape, Clocks DEF TypeOK
<1>2. recent \in Seq(Int)
  BY <1>1, RecentShape
<1>3. /\ seen \in State /\ seen.config = memory.config
      /\ seen.last = IF cron THEN memory.last ELSE wall
      /\ seen.crashes = memory.crashes /\ seen.reason = memory.reason
  BY <1>1 DEF State
<1>4. /\ code = 0  => o = [seen EXCEPT !.crashes = << >>]
      /\ code = 78 => o = [seen EXCEPT !.reason = "configuration_error"]
      /\ code = 1 => o = [seen EXCEPT !.crashes = recent,
                             !.reason = IF Len(recent) > MaxRestarts
                                        THEN "crash_loop" ELSE @]
  BY DEF ObserveExit
<1> DEFINE reason == IF Len(recent) > MaxRestarts THEN "crash_loop" ELSE seen.reason
<1> HIDE DEF seen, recent
<1>5. CASE code = 0
  <2>1. << >> \in Seq(Int)
    OBVIOUS
  <2>2. o = [seen EXCEPT !.crashes = << >>]
    BY <1>4, <1>5
  <2>3. /\ o \in State /\ o.config = seen.config /\ o.last = seen.last
        /\ o.crashes = << >> /\ o.reason = seen.reason
    BY <1>3, <2>1, <2>2 DEF State
  <2> QED BY <1>3, <1>5, <2>3
<1>6. CASE code = 78
  BY <1>3, <1>4, <1>6 DEF State, Reasons
<1>7. CASE code = 1
  <2>1. reason \in Reasons
    BY <1>3 DEF Reasons, State
  <2>2. o = [seen EXCEPT !.crashes = recent, !.reason = reason]
    BY <1>3, <1>4, <1>7
  <2>3. reason = IF Len(recent) > MaxRestarts THEN "crash_loop" ELSE memory.reason
    BY <1>3
  <2> HIDE DEF reason
  <2>4. /\ o \in State /\ o.config = seen.config /\ o.last = seen.last
        /\ o.crashes = recent /\ o.reason = reason
    BY <1>2, <1>3, <2>1, <2>2 DEF State
  <2> QED BY <1>3, <1>7, <2>3, <2>4 DEF recent
<1> QED BY <1>5, <1>6, <1>7

\* What the supervisor writes, restore accepts.
LEMMA WrittenIsRestorable ==
    ASSUME TypeOK, Restorable(memory), ~ClockMovedBack,
           NEW code \in {0, 1, 78}, NEW duration \in Int,
           NEW o, o = ObserveExit(code, duration)
    PROVE  Restorable(o)
<1>1. CASE cron
  BY <1>1 DEF Restorable
<1>2. CASE ~cron
  <2> DEFINE cs == memory.crashes
  <2>1. cs \in Seq(Int) /\ memory.last \in Int /\ wall \in Int
    BY StateShape, Clocks DEF TypeOK
  <2>2. Sorted(cs) /\ (cs # << >> => cs[Len(cs)] <= memory.last) /\ memory.last <= wall
    BY <1>2, <2>1 DEF Restorable, ClockMovedBack
  <2>3. /\ o.last = wall
        /\ code = 0 => o.crashes = << >>
        /\ code = 78 => o.crashes = cs
        /\ code = 1 => o.crashes = Recent(cs, duration)
    BY <1>2, ObserveExitShape
  <2> HIDE DEF cs
  <2>4. \A i \in 1..Len(cs) : cs[i] <= wall
    <3> SUFFICES ASSUME NEW i \in 1..Len(cs) PROVE cs[i] <= wall
      OBVIOUS
    <3>1. cs[i] <= cs[Len(cs)] /\ cs # << >> /\ cs[i] \in Int /\ cs[Len(cs)] \in Int
      BY <2>1, <2>2 DEF Sorted
    <3> QED BY <2>1, <2>2, <3>1
  <2>5. CASE code = 0
    BY <2>3, <2>5 DEF Restorable, Sorted
  <2>6. CASE code = 78
    <3>1. cs # << >> => cs[Len(cs)] <= wall
      BY <2>1, <2>4
    <3> QED BY <2>2, <2>3, <2>6, <3>1 DEF Restorable
  <2>7. CASE code = 1
    <3> DEFINE r == Recent(cs, duration)
    <3>1. /\ r \in Seq(Int) /\ Len(r) >= 1 /\ r[Len(r)] = wall
          /\ Len(r) - 1 <= Len(cs)
          /\ \A i \in 1..(Len(r) - 1) : r[i] = cs[Len(cs) - Len(r) + 1 + i]
      BY <2>1, RecentShape
    <3> HIDE DEF r
    <3>2. Sorted(r)
      <4> SUFFICES ASSUME NEW i \in 1..Len(r), NEW j \in 1..Len(r), i <= j
                   PROVE  r[i] <= r[j]
        BY <3>1 DEF Sorted
      <4>1. Len(r) \in Nat /\ Len(cs) \in Nat /\ DOMAIN cs = 1..Len(cs)
        BY <2>1, <3>1
      <4>2. ASSUME NEW k \in 1..(Len(r) - 1)
            PROVE  Len(cs) - Len(r) + 1 + k \in 1..Len(cs)
        BY <3>1, <4>1
      <4>3. CASE j = Len(r) /\ i = j
        BY <2>1, <3>1, <4>3
      <4>4. CASE j = Len(r) /\ i # j
        <5>1. i \in 1..(Len(r) - 1)
          BY <4>1, <4>4
        <5>2. r[i] = cs[Len(cs) - Len(r) + 1 + i]
          BY <3>1, <5>1
        <5> QED BY <2>4, <3>1, <4>2, <4>4, <5>1, <5>2
      <4>5. CASE j # Len(r)
        <5>1. i \in 1..(Len(r) - 1) /\ j \in 1..(Len(r) - 1)
          BY <4>1, <4>5
        <5> DEFINE x == Len(cs) - Len(r) + 1 + i
                   y == Len(cs) - Len(r) + 1 + j
        <5>2. /\ x \in DOMAIN cs /\ y \in DOMAIN cs /\ r[i] = cs[x] /\ r[j] = cs[y]
          BY <3>1, <4>1, <4>2, <5>1
        <5>3. x <= y
          BY <4>1, <5>1
        <5> HIDE DEF x, y
        <5> QED BY <2>2, <5>2, <5>3 DEF Sorted
      <4> QED BY <4>3, <4>4, <4>5
    <3> QED BY <2>1, <2>3, <2>7, <3>1, <3>2 DEF Restorable, r
  <2> QED BY <2>5, <2>6, <2>7
<1> QED BY <1>1, <1>2

-----------------------------------------------------------------------------
(* The restarts and the crashes that are counted *)

\* Linked, of any crashes, restarts, setting of the clock and time.
LinkedAt(cs, rs, b, t) ==
    \A i \in 1..Len(rs) :
        IF Len(cs) - Len(rs) + i >= 1
        THEN cs[Len(cs) - Len(rs) + i] >= rs[i] - b
        ELSE rs[i] + Window <= t

LEMMA LinkedLater ==
    ASSUME NEW cs \in Seq(Int), NEW rs \in Seq(Nat), NEW b \in Nat, NEW c \in Nat,
           NEW t \in Nat, NEW u \in Nat, b <= c, t <= u, LinkedAt(cs, rs, b, t)
    PROVE  LinkedAt(cs, rs, c, u)
<1> SUFFICES ASSUME NEW i \in 1..Len(rs)
             PROVE  IF Len(cs) - Len(rs) + i >= 1
                    THEN cs[Len(cs) - Len(rs) + i] >= rs[i] - c
                    ELSE rs[i] + Window <= u
  BY DEF LinkedAt
<1>1. rs[i] \in Nat /\ Window \in Nat
  BY Constants
<1>2. CASE Len(cs) - Len(rs) + i >= 1
  <2>1. Len(cs) - Len(rs) + i \in 1..Len(cs)
    BY <1>2
  <2> DEFINE x == cs[Len(cs) - Len(rs) + i]
  <2>2. x \in Int
    BY <2>1
  <2>3. x >= rs[i] - b
    BY <1>2 DEF LinkedAt
  <2> HIDE DEF x
  <2>4. x >= rs[i] - c
    BY <1>1, <2>2, <2>3
  <2> QED BY <1>2, <2>4 DEF x
<1>3. CASE ~(Len(cs) - Len(rs) + i >= 1)
  BY <1>1, <1>3 DEF LinkedAt
<1> QED BY <1>2, <1>3

\* One more crash, and one more restart: still linked.
LEMMA LinkedOneMore ==
    ASSUME TypeOK, NEW cs \in Seq(Int), NEW duration \in Int,
           LinkedAt(cs, restarts, back, mono),
           duration >= Stable => \A i \in 1..Len(restarts) : restarts[i] + duration <= mono,
           NEW r, r = Recent(cs, duration),
           NEW rs, rs = Append(restarts, mono)
    PROVE  LinkedAt(r, rs, back, mono)
<1> DEFINE n == Len(restarts)
<1>1. /\ r \in Seq(Int) /\ Len(r) >= 1 /\ r[Len(r)] = wall
      /\ Len(r) - 1 <= Len(cs)
      /\ \A i \in 1..(Len(r) - 1) : r[i] = cs[Len(cs) - Len(r) + 1 + i]
      /\ \/ duration >= Stable
         \/ \A i \in 1..(Len(cs) - Len(r) + 1) : cs[i] <= wall - Window
  BY RecentShape
<1>2. /\ restarts \in Seq(Nat) /\ n \in Nat /\ mono \in Nat /\ back \in Nat
      /\ wall = mono - back /\ Window \in Nat /\ Stable \in Nat /\ Window <= Stable
  BY Clocks, Constants DEF TypeOK
<1>3. /\ rs \in Seq(Nat) /\ Len(rs) = n + 1 /\ rs[n + 1] = mono
      /\ \A i \in 1..n : rs[i] = restarts[i] /\ restarts[i] \in Nat
  BY <1>2
<1> SUFFICES ASSUME NEW i \in 1..Len(rs)
             PROVE  IF Len(r) - Len(rs) + i >= 1
                    THEN r[Len(r) - Len(rs) + i] >= rs[i] - back
                    ELSE rs[i] + Window <= mono
  BY DEF LinkedAt
<1> DEFINE c == Len(r) - Len(rs) + i
<1>4. CASE i = n + 1
  BY <1>1, <1>2, <1>3, <1>4
<1>5. CASE i # n + 1
  <2> DEFINE k == Len(cs) - n + i
  <2>1. Len(cs) \in Nat /\ Len(r) \in Nat
    BY <1>1
  <2>2. i \in 1..n
    BY <1>2, <1>3, <1>5
  <2>3. /\ c = Len(r) - 1 - n + i /\ k = Len(cs) - n + i
        /\ k = Len(cs) - Len(r) + 1 + c /\ c \in Int /\ k \in Int
    BY <1>2, <1>3, <2>1, <2>2
  <2>4. IF k >= 1 THEN cs[k] >= restarts[i] - back ELSE restarts[i] + Window <= mono
    BY <2>2 DEF LinkedAt
  <2>5. restarts[i] \in Nat /\ rs[i] = restarts[i]
    BY <1>3, <2>2
  <2> SUFFICES IF c >= 1 THEN r[c] >= rs[i] - back ELSE rs[i] + Window <= mono
    OBVIOUS
  <2> HIDE DEF c, k, n
  <2>6. CASE c >= 1
    <3>1. c \in 1..(Len(r) - 1) /\ k >= 1
      BY <1>1, <1>2, <2>1, <2>2, <2>3, <2>6
    <3>2. r[c] = cs[k]
      BY <1>1, <2>3, <3>1
    <3> QED BY <2>4, <2>5, <2>6, <3>1, <3>2
  <2>7. CASE ~(c >= 1) /\ k >= 1
    <3>1. k \in 1..(Len(cs) - Len(r) + 1) /\ k \in 1..Len(cs)
      <4> DEFINE a == Len(cs)
                 l == Len(r)
      <4>1. /\ a \in Nat /\ l \in Nat /\ l >= 1 /\ k = a - l + 1 + c
            /\ k \in Int /\ c \in Int /\ ~(c >= 1) /\ k >= 1
        BY <1>1, <2>1, <2>3, <2>7
      <4> HIDE DEF a, l
      <4>2. k \in 1..(a - l + 1) /\ k \in 1..a
        BY <4>1
      <4> QED BY <4>2 DEF a, l
    <3>2. cs[k] \in Int /\ cs[k] >= restarts[i] - back
      BY <2>4, <2>7, <3>1
    <3>3. CASE duration >= Stable
      <4>1. restarts[i] + duration <= mono
        BY <2>2, <3>3 DEF n
      <4>2. restarts[i] + Window <= mono
        BY <1>2, <2>5, <3>3, <4>1
      <4> QED BY <2>5, <2>7, <4>2
    <3>4. CASE cs[k] <= wall - Window
      <4> DEFINE x == cs[k]
                 y == restarts[i]
      <4>1. /\ x \in Int /\ y \in Nat /\ x >= y - back /\ x <= mono - back - Window
            /\ mono \in Nat /\ back \in Nat /\ Window \in Nat
        BY <1>2, <2>5, <3>2, <3>4
      <4> HIDE DEF x, y
      <4>2. y + Window <= mono
        BY <4>1
      <4> QED BY <2>5, <2>7, <4>2 DEF y
    <3> QED BY <1>1, <3>1, <3>3, <3>4
  <2>8. CASE ~(c >= 1) /\ ~(k >= 1)
    BY <2>4, <2>5, <2>8
  <2> QED BY <2>6, <2>7, <2>8
<1> QED BY <1>4, <1>5

\* While no more than max_restarts crashes count, restarts are spaced.
LEMMA SpacedOneMore ==
    ASSUME TypeOK, TimeInv, NEW r \in Seq(Int), Len(r) >= 1, Len(r) <= MaxRestarts,
           NEW rs, rs = Append(restarts, mono), LinkedAt(r, rs, back, mono)
    PROVE  /\ Sorted(rs) /\ \A i \in 1..Len(rs) : rs[i] <= mono
           /\ \A i \in 1..Len(rs) : i + MaxRestarts <= Len(rs) =>
                 rs[i] + Window <= rs[i + MaxRestarts]
<1> DEFINE n == Len(restarts)
<1>1. /\ restarts \in Seq(Nat) /\ n \in Nat /\ mono \in Nat /\ MaxRestarts \in Nat
      /\ Window \in Nat
  BY Constants DEF TypeOK
<1>2. /\ rs \in Seq(Nat) /\ Len(rs) = n + 1 /\ rs[n + 1] = mono /\ DOMAIN rs = 1..(n + 1)
      /\ \A i \in 1..n : rs[i] = restarts[i] /\ restarts[i] \in Nat /\ restarts[i] <= mono
  BY <1>1 DEF TimeInv
<1>3. \A i \in 1..Len(rs) : rs[i] <= mono
  BY <1>1, <1>2
<1>4. Sorted(rs)
  <2> SUFFICES ASSUME NEW i \in 1..(n + 1), NEW j \in 1..(n + 1), i <= j
               PROVE  rs[i] <= rs[j]
    BY <1>2 DEF Sorted
  <2>1. CASE j = n + 1
    BY <1>2, <1>3, <2>1
  <2>2. CASE j # n + 1
    <3>1. i \in 1..n /\ j \in 1..n /\ DOMAIN restarts = 1..n
      BY <1>1, <2>2
    <3> QED BY <1>2, <3>1 DEF TimeInv, Sorted
  <2> QED BY <2>1, <2>2
<1>5. ASSUME NEW i \in 1..Len(rs), i + MaxRestarts <= Len(rs)
      PROVE  rs[i] + Window <= rs[i + MaxRestarts]
  <2>1. CASE i + MaxRestarts = n + 1
    <3>1. ~(Len(r) - Len(rs) + i >= 1)
      BY <1>1, <1>2, <2>1
    <3>2. rs[i] + Window <= mono
      BY <3>1 DEF LinkedAt
    <3> QED BY <1>2, <2>1, <3>2
  <2>2. CASE i + MaxRestarts # n + 1
    <3>1. i \in 1..n /\ i + MaxRestarts \in 1..n /\ i + MaxRestarts <= n
      <4>1. i \in Nat /\ i >= 1 /\ i + MaxRestarts <= n + 1
        BY <1>2, <1>5
      <4> HIDE DEF n
      <4> QED BY <1>1, <2>2, <4>1
    <3>2. restarts[i] + Window <= restarts[i + MaxRestarts]
      BY <3>1 DEF TimeInv, Spaced
    <3> QED BY <1>2, <3>1, <3>2
  <2> QED BY <2>1, <2>2
<1> QED BY <1>3, <1>4, <1>5

\* Times so spaced are at most m in one window.
LEMMA SpacedIsBounded ==
    ASSUME NEW h \in Seq(Nat), NEW m \in Nat, Sorted(h),
           \A i \in 1..Len(h) : i + m <= Len(h) => h[i] + Window <= h[i + m]
    PROVE  \A i \in DOMAIN h : Cardinality(InWindow(h, i)) <= m
<1>1. h \in Seq(Nat) /\ m \in Nat /\ Window \in Nat
  BY Constants
<1> SUFFICES ASSUME NEW i \in DOMAIN h
             PROVE  Cardinality({j \in DOMAIN h : h[j] \in h[i]..(h[i] + Window - 1)}) <= m
  BY DEF InWindow
<1> DEFINE S == {j \in DOMAIN h :
                    h[j] \in h[i]..(h[i] + Window - 1)}
<1>2. /\ DOMAIN h = 1..Len(h) /\ Len(h) \in Nat
      /\ \A j \in 1..Len(h) : h[j] \in Nat
  BY <1>1
<1>3. CASE S = {}
  <2> HIDE DEF S
  <2>1. Cardinality(S) = 0
    BY <1>3, FS_EmptySet
  <2>2. Cardinality(S) <= m
    BY <1>1, <2>1
  <2> QED BY <2>2 DEF S
<1>4. CASE S # {}
  <2>1. S \subseteq Nat
    BY <1>2
  <2>2. PICK k \in S : \A j \in S : k <= j
    BY <1>4, <2>1, Least
  <2>3. k \in 1..Len(h) /\ h[k] >= h[i] /\ h[i] \in Nat
    BY <1>2, <2>2
  <2>4. ASSUME NEW j \in S PROVE j \in k..(k + m - 1)
    <3>1. /\ j \in 1..Len(h) /\ k <= j /\ h[j] <= h[i] + Window - 1
      BY <1>2, <2>2, <2>3, <2>4
    <3>2. CASE k + m <= j
      <4>1. k + m \in 1..Len(h) /\ k + m <= Len(h)
        BY <1>1, <1>2, <2>3, <3>1, <3>2
      <4>2. h[k] + Window <= h[k + m]
        BY <2>3, <4>1 
      <4>3. h[k + m] <= h[j]
        BY <1>2, <3>1, <3>2, <4>1 DEF Sorted
      <4>4. /\ h[k] \in Nat /\ h[j] \in Nat
            /\ h[k + m] \in Nat
        BY <1>2, <2>3, <3>1, <4>1
      <4> DEFINE x == h[k]
                 y == h[k + m]
                 z == h[j]
                 w == h[i]
      <4>5. /\ x \in Nat /\ y \in Nat /\ z \in Nat /\ w \in Nat
            /\ x + Window <= y /\ y <= z /\ z <= w + Window - 1 /\ x >= w
        BY <2>3, <3>1, <4>2, <4>3, <4>4
      <4> HIDE DEF x, y, z, w
      <4> QED BY <1>1, <4>5
    <3>3. CASE ~(k + m <= j)
      BY <1>1, <2>3, <3>1, <3>3
    <3> QED BY <3>2, <3>3
  <2>5. /\ IsFiniteSet(k..(k + m - 1))
        /\ Cardinality(k..(k + m - 1)) = m
    <3>1. k \in Int /\ k + m - 1 \in Int
      BY <1>1, <2>3
    <3> DEFINE b == k + m - 1
    <3>2. IsFiniteSet(k..b) /\ Cardinality(k..b) = IF k > b THEN 0 ELSE b - k + 1
      BY <3>1, FS_Interval
    <3>3. (IF k > b THEN 0 ELSE b - k + 1) = m
      <4>1. k \in Nat /\ m \in Nat
        BY <1>1, <2>3
      <4>2. CASE m = 0
        BY <4>1, <4>2
      <4>3. CASE m # 0
        BY <4>1, <4>3
      <4> QED BY <4>2, <4>3
    <3> QED BY <3>2, <3>3
  <2>6. S \in SUBSET (k..(k + m - 1))
    BY <2>4
  <2> HIDE DEF S
  <2>7. Cardinality(S) <= m
    BY <2>5, <2>6, FS_Subset
  <2> QED BY <2>7 DEF S
<1> QED BY <1>3, <1>4

-----------------------------------------------------------------------------
(* The steps *)

\* The delay before a restart is a time.
LEMMA DelayIsATime ==
    ASSUME NEW n \in Nat \ {0} PROVE Delay(n) \in Nat
BY Constants DEF Delay

\* Two supervisors never run at the same time.
LEMMA OneSupervisor ==
    ASSUME HolderInv, NEW s \in Sups, NEW t \in Sups, pc[s] # "off", pc[t] # "off"
    PROVE  s = t
BY DEF HolderInv

\* When the one that runs ends, none runs.
LEMMA LeaveEnds ==
    ASSUME TypeOK, HolderInv, NEW s \in Sups, pc[s] # "off", Leave(s)
    PROVE  /\ pc' \in [Sups -> Places] /\ \A t \in Sups : pc'[t] = "off"
           /\ holder' = NoOne /\ HolderInv' /\ ~Supervised'
<1>1. pc' \in [Sups -> Places] /\ \A t \in Sups : pc'[t] = "off"
  BY DEF TypeOK, HolderInv, Leave, Places
<1>2. holder' = NoOne
  BY DEF Leave
<1> QED BY <1>1, <1>2 DEF HolderInv, Supervised

\* A process ends, and the document stays as it is or nothing is lost with it.
LEMMA LeaveKeeps ==
    ASSUME CoreInv, NEW s \in Sups, pc[s] # "off", Leave(s),
           UNCHANGED <<cron, mono, back, config, release, document, memory, started,
                       restarts>>,
           gateway' \in Sups \cup {NoOne, "orphan"}
    PROVE  CoreInv'
<1>1. /\ pc' \in [Sups -> Places] /\ \A t \in Sups : pc'[t] = "off"
      /\ holder' = NoOne /\ HolderInv' /\ ~Supervised'
  BY LeaveEnds DEF CoreInv
<1>2. TypeOK'
  BY <1>1 DEF CoreInv, TypeOK
<1>3. MemoryInv'
  BY <1>1 DEF MemoryInv
<1>4. DocumentInv'
  BY DEF CoreInv, DocumentInv, Restorable, Linked
<1>5. TimeInv'
  BY <1>1 DEF CoreInv, TimeInv, Sorted, Spaced
<1> QED BY <1>1, <1>2, <1>3, <1>4, <1>5 DEF CoreInv

LEMMA LaunchKeeps ==
    ASSUME CoreInv, NEW s \in Sups, Launch(s) PROVE CoreInv'
<1>1. /\ UNCHANGED <<cron, mono, back, config, release, document, started, gateway>>
      /\ pc[s] = "off" /\ holder = NoOne /\ holder' = s
      /\ pc' = [pc EXCEPT ![s] = "starting"]
      /\ document # Garbled /\ ~Latched(document, config)
      /\ memory' = Load(document)
      /\ restarts' = IF Load(document) = Fresh THEN << >> ELSE restarts
  <2>1. document = Missing => restarts = << >>
    BY DEF CoreInv, DocumentInv
  <2> QED BY <2>1 DEF Launch, Unlocked, SafeStopped, Anew, history
<1>2. \A t \in Sups : pc[t] = "off"
  BY <1>1, Constants DEF CoreInv, HolderInv
<1>3. /\ pc' \in [Sups -> Places] /\ pc'[s] = "starting"
      /\ \A t \in Sups : t # s => pc'[t] = "off"
  BY <1>1, <1>2 DEF CoreInv, TypeOK, Places
<1>4. HolderInv'
  BY <1>1, <1>3 DEF HolderInv
<1>5. /\ Fresh \in State /\ Fresh.reason = "none" /\ Fresh.config = config
      /\ Restorable(Fresh)
  <2>1. << >> \in Seq(Int) /\ -MaxBack \in Int
    BY Constants
  <2>2. Fresh \in State /\ Fresh.crashes = << >> /\ Fresh.reason = "none"
        /\ Fresh.config = config
    BY <2>1 DEF CoreInv, TypeOK, State, Fresh, Reasons
  <2> QED BY <2>2 DEF Restorable, Sorted
<1>6. restarts' \in Seq(Nat)
  BY <1>1 DEF CoreInv, TypeOK
<1>7. TimeInv'
  <2>1. CASE restarts' = << >>
    BY <1>3, <2>1 DEF TimeInv, Sorted, Spaced
  <2>2. CASE restarts' = restarts
    BY <1>1, <1>3, <2>2 DEF CoreInv, TimeInv, Sorted, Spaced
  <2> QED BY <1>1, <2>1, <2>2
<1>8. DocumentInv'
  <2>1. CASE restarts' = << >>
    <3>1. Linked(document.crashes)'
      BY <2>1 DEF Linked
    <3> QED BY <1>1, <2>1, <3>1 DEF CoreInv, DocumentInv, Restorable
  <2>2. CASE restarts' = restarts
    BY <1>1, <2>2 DEF CoreInv, DocumentInv, Restorable, Linked
  <2> QED BY <1>1, <2>1, <2>2
<1>9. CASE memory' = Fresh
  <2>1. restarts' = << >>
    BY <1>1, <1>9
  <2>2. TypeOK'
    BY <1>1, <1>3, <1>5, <1>6, <1>9 DEF CoreInv, TypeOK
  <2>3. MemoryInv'
    <3>1. memory'.reason = "none" /\ memory'.config = config
      BY <1>5, <1>9
    <3>2. (~Latched(document, memory.config))'
      BY <1>1, <3>1 DEF Latched
    <3>3. Restorable(memory)'
      BY <1>1, <1>5, <1>9 DEF Restorable
    <3>4. Linked(memory.crashes)'
      BY <2>1 DEF Linked
    <3> QED BY <3>1, <3>2, <3>3, <3>4 DEF MemoryInv
  <2> QED BY <1>4, <1>7, <1>8, <2>2, <2>3 DEF CoreInv
<1>10. CASE memory' # Fresh
  <2>1. /\ memory' = document /\ document \in State /\ restarts' = restarts
        /\ cron => document.config = config
    BY <1>1, <1>10 DEF Load, CoreInv, TypeOK
  <2>2. document.reason = "none"
    BY <1>1, <2>1 DEF Latched
  <2>3. TypeOK'
    BY <1>1, <1>3, <1>6, <2>1 DEF CoreInv, TypeOK
  <2>4. MemoryInv'
    BY <1>1, <2>1, <2>2
       DEF CoreInv, DocumentInv, MemoryInv, Latched, Restorable, Linked
  <2> QED BY <1>4, <1>7, <1>8, <2>3, <2>4 DEF CoreInv
<1> QED BY <1>9, <1>10

LEMMA StartGatewayKeeps ==
    ASSUME CoreInv, NEW s \in Sups, StartGateway(s) PROVE CoreInv'
<1>1. /\ UNCHANGED <<cron, mono, back, config, release, document, holder, memory, restarts>>
      /\ pc[s] = "starting" /\ pc' = [pc EXCEPT ![s] = pc'[s]]
      /\ pc'[s] \in {"serving", "refused"}
      /\ gateway' \in Sups \cup {NoOne, "orphan"} /\ started' = mono
  BY DEF StartGateway, CoreInv, TypeOK
<1>2. /\ pc' \in [Sups -> Places] /\ HolderInv' /\ Supervised
      /\ \A t \in Sups : pc'[t] # "off" => pc[t] # "off"
  BY <1>1 DEF CoreInv, TypeOK, HolderInv, Places, Supervised
<1>3. TypeOK'
  BY <1>1, <1>2 DEF CoreInv, TypeOK
<1>4. MemoryInv'
  BY <1>1, <1>2 DEF CoreInv, MemoryInv, Latched, Restorable, Linked
<1>5. DocumentInv'
  BY <1>1 DEF CoreInv, DocumentInv, Restorable, Linked
<1>6. TimeInv'
  BY <1>1 DEF CoreInv, TypeOK, TimeInv, Sorted, Spaced
<1> QED BY <1>2, <1>3, <1>4, <1>5, <1>6 DEF CoreInv

LEMMA ReleaseBrokenKeeps ==
    ASSUME CoreInv, NEW s \in Sups, ReleaseBroken(s) PROVE CoreInv'
<1>1. /\ UNCHANGED <<cron, mono, back, config, release, memory, started, gateway, restarts>>
      /\ pc[s] = "starting" /\ Leave(s)
      /\ \/ ~ClockMovedBack /\ document' = ObserveExit(78, 0)
         \/ UNCHANGED document
  BY DEF ReleaseBroken, history
<1>2. gateway' \in Sups \cup {NoOne, "orphan"}
  BY <1>1 DEF CoreInv, TypeOK
<1>3. CASE UNCHANGED document
  BY <1>1, <1>2, <1>3, LeaveKeeps
<1>4. CASE ~ClockMovedBack /\ document' = ObserveExit(78, 0)
  <2>1. /\ pc' \in [Sups -> Places] /\ \A t \in Sups : pc'[t] = "off"
        /\ holder' = NoOne /\ HolderInv' /\ ~Supervised'
    BY <1>1, LeaveEnds DEF CoreInv
  <2>2. Restorable(memory)
    BY <1>1 DEF CoreInv, MemoryInv, Supervised
  <2>3. document' \in State /\ document'.reason = "configuration_error"
    BY <1>4, ObserveExitShape DEF CoreInv
  <2>4. Restorable(document')
    BY <1>4, <2>2, WrittenIsRestorable DEF CoreInv
  <2>5. TypeOK'
    BY <1>1, <2>1, <2>3 DEF CoreInv, TypeOK
  <2>6. MemoryInv'
    BY <2>1 DEF MemoryInv
  <2>7. DocumentInv'
    BY <1>1, <2>3, <2>4, Constants DEF DocumentInv, Restorable
  <2>8. TimeInv'
    BY <1>1, <2>1 DEF CoreInv, TimeInv, Sorted, Spaced
  <2> QED BY <2>1, <2>5, <2>6, <2>7, <2>8 DEF CoreInv
<1> QED BY <1>1, <1>3, <1>4

LEMMA CrashKeeps ==
    ASSUME CoreInv, NEW s \in Sups, GatewayEnds(s, 1),
           ObserveExit(1, mono - started).reason = "none"
    PROVE  CoreInv'
<1> DEFINE next == ObserveExit(1, mono - started)
           cs == memory.crashes
<1>1. /\ UNCHANGED <<cron, mono, back, config, release, holder>>
      /\ pc[s] \in {"serving", "refused"} /\ ~ClockMovedBack
      /\ gateway' \in Sups \cup {NoOne, "orphan"}
      /\ document' = next /\ memory' = next
      /\ started' = mono + Delay(Len(next.crashes))
      /\ pc' = [pc EXCEPT ![s] = "sleeping"]
      /\ restarts' = Append(restarts, mono)
  BY DEF GatewayEnds, CoreInv, TypeOK
<1>2. TypeOK /\ HolderInv /\ TimeInv
  BY DEF CoreInv
<1>3. /\ Restorable(memory) /\ Linked(cs) /\ cs \in Seq(Int)
      /\ started <= mono /\ \A i \in 1..Len(restarts) : restarts[i] <= started
  <2>1. Supervised
    BY <1>1 DEF Supervised
  <2>2. Restorable(memory) /\ Linked(cs)
    BY <2>1 DEF CoreInv, MemoryInv
  <2>3. cs \in Seq(Int)
    BY <1>2, StateShape DEF TypeOK
  <2> QED BY <1>1, <1>2, <2>2, <2>3 DEF TimeInv
<1>4. /\ mono \in Nat /\ started \in Nat /\ back \in Nat /\ mono - started \in Int
      /\ restarts \in Seq(Nat)
  BY <1>2, Clocks DEF TypeOK
<1>5. /\ next \in State /\ next.crashes = Recent(cs, mono - started)
      /\ Len(next.crashes) <= MaxRestarts
  <2>1. /\ next \in State /\ next.crashes = Recent(cs, mono - started)
        /\ next.reason = IF Len(next.crashes) > MaxRestarts
                         THEN "crash_loop" ELSE memory.reason
    BY <1>2, <1>4, ObserveExitShape
  <2>2. next.crashes \in Seq(Int)
    BY <2>1, StateShape
  <2>3. next.reason = "none"
    OBVIOUS
  <2> HIDE DEF next
  <2>4. ~(Len(next.crashes) > MaxRestarts)
    BY <2>1, <2>3
  <2>5. Len(next.crashes) \in Nat /\ MaxRestarts \in Nat
    BY <2>2, Constants
  <2> QED BY <2>1, <2>4, <2>5
<1>6. Restorable(next)
  BY <1>1, <1>2, <1>3, <1>4, WrittenIsRestorable
<1>7. next.reason = "none"
  OBVIOUS
<1> HIDE DEF next, cs
<1>8. next.crashes \in Seq(Int) /\ Len(next.crashes) >= 1 /\ Len(next.crashes) \in Nat
  BY <1>2, <1>3, <1>4, <1>5, RecentShape
<1>9. LinkedAt(cs, restarts, back, mono)
  BY <1>3 DEF Linked, LinkedAt
<1>10. ASSUME mono - started >= Stable, NEW i \in 1..Len(restarts)
       PROVE  restarts[i] + (mono - started) <= mono
  <2>1. restarts[i] \in Nat /\ restarts[i] <= started
    BY <1>3, <1>4
  <2> QED BY <1>4, <2>1
<1>11. LinkedAt(next.crashes, restarts', back, mono)
  BY <1>1, <1>2, <1>3, <1>4, <1>5, <1>9, <1>10, LinkedOneMore
<1>12. /\ Sorted(restarts') /\ \A i \in 1..Len(restarts') : restarts'[i] <= mono
       /\ \A i \in 1..Len(restarts') : i + MaxRestarts <= Len(restarts') =>
             restarts'[i] + Window <= restarts'[i + MaxRestarts]
  BY <1>1, <1>2, <1>5, <1>8, <1>11, SpacedOneMore
<1>13. /\ pc' \in [Sups -> Places] /\ HolderInv'
       /\ \A t \in Sups : ~(pc'[t] \in {"serving", "refused"})
  BY <1>1, <1>2 DEF TypeOK, HolderInv, Places
<1>14. TypeOK'
  <2>1. restarts' \in Seq(Nat)
    BY <1>1, <1>4
  <2>2. Delay(Len(next.crashes)) \in Nat
    BY <1>8, DelayIsATime
  <2>3. started' \in Nat
    BY <1>1, <1>4, <2>2
  <2> QED BY <1>1, <1>2, <1>5, <1>13, <2>1, <2>3 DEF TypeOK
<1>15. Linked(memory.crashes)' /\ Linked(document.crashes)'
  BY <1>1, <1>11 DEF Linked, LinkedAt
<1>16. MemoryInv'
  <2>1. (~Latched(document, memory.config))'
    BY <1>1, <1>7 DEF Latched
  <2>2. Restorable(memory)'
    BY <1>1, <1>6 DEF Restorable
  <2> QED BY <1>1, <1>7, <1>15, <2>1, <2>2 DEF MemoryInv
<1>17. DocumentInv'
  <2>1. Restorable(document)'
    BY <1>1, <1>6 DEF Restorable
  <2>2. document' # Missing
    BY <1>1, <1>5, Constants
  <2> QED BY <1>15, <2>1, <2>2 DEF DocumentInv
<1>18. TimeInv'
  BY <1>1, <1>12, <1>13 DEF TimeInv, Sorted, Spaced
<1> QED BY <1>13, <1>14, <1>16, <1>17, <1>18 DEF CoreInv

LEMMA EndKeeps ==
    ASSUME CoreInv, NEW s \in Sups, NEW code \in {0, 1, 78}, GatewayEnds(s, code),
           ~(code = 1 /\ ObserveExit(code, mono - started).reason = "none")
    PROVE  CoreInv'
<1> DEFINE next == ObserveExit(code, mono - started)
<1>1. /\ UNCHANGED <<cron, mono, back, config, release, memory, started>>
      /\ pc[s] \in {"serving", "refused"} /\ ~ClockMovedBack
      /\ gateway' \in Sups \cup {NoOne, "orphan"}
      /\ document' = next /\ Leave(s)
      /\ restarts' = IF code = 0 THEN << >> ELSE restarts
  BY DEF GatewayEnds, CoreInv, TypeOK, Anew, history
<1>2. TypeOK /\ HolderInv /\ TimeInv /\ mono - started \in Int /\ restarts \in Seq(Nat)
  BY DEF CoreInv, TypeOK
<1>3. /\ pc' \in [Sups -> Places] /\ \A t \in Sups : pc'[t] = "off"
      /\ holder' = NoOne /\ HolderInv' /\ ~Supervised'
  BY <1>1, <1>2, LeaveEnds
<1>4. Restorable(memory)
  BY <1>1 DEF CoreInv, MemoryInv, Supervised
<1>5. /\ next \in State
      /\ code = 78 => next.reason = "configuration_error"
  BY <1>2, ObserveExitShape
<1>6. Restorable(next)
  BY <1>1, <1>2, <1>4, WrittenIsRestorable
<1>7. code = 0 \/ next.reason # "none"
  BY <1>5
<1> HIDE DEF next
<1>8. TypeOK'
  <2>1. restarts' \in Seq(Nat)
    BY <1>1, <1>2
  <2> QED BY <1>1, <1>2, <1>3, <1>5, <2>1 DEF TypeOK
<1>9. MemoryInv'
  BY <1>3 DEF MemoryInv
<1>10. DocumentInv'
  <2>1. Restorable(document)'
    BY <1>1, <1>6 DEF Restorable
  <2>2. document' # Missing
    BY <1>1, <1>5, Constants
  <2>3. (document.reason = "none" => Linked(document.crashes))'
    <3>1. CASE code = 0
      <4>1. restarts' = << >>
        BY <1>1, <3>1
      <4> QED BY <4>1 DEF Linked
    <3>2. CASE code # 0
      BY <1>1, <1>7, <3>2
    <3> QED BY <3>1, <3>2
  <2> QED BY <2>1, <2>2, <2>3 DEF DocumentInv
<1>11. TimeInv'
  <2>1. CASE restarts' = << >>
    BY <1>3, <2>1 DEF TimeInv, Sorted, Spaced
  <2>2. CASE restarts' = restarts
    BY <1>1, <1>2, <1>3, <2>2 DEF TimeInv, Sorted, Spaced
  <2> QED BY <1>1, <2>1, <2>2
<1> QED BY <1>3, <1>8, <1>9, <1>10, <1>11 DEF CoreInv

LEMMA WakeUpKeeps ==
    ASSUME CoreInv, NEW s \in Sups, WakeUp(s) PROVE CoreInv'
<1>1. /\ UNCHANGED <<cron, mono, back, config, release, document, holder, memory,
                     started, gateway, restarts>>
      /\ pc[s] = "sleeping" /\ pc' = [pc EXCEPT ![s] = "starting"]
  BY DEF WakeUp, history
<1>2. /\ pc' \in [Sups -> Places] /\ HolderInv' /\ Supervised
      /\ \A t \in Sups : pc'[t] \in {"serving", "refused"} => pc[t] = pc'[t]
  BY <1>1 DEF CoreInv, TypeOK, HolderInv, Places, Supervised
<1>3. TypeOK'
  BY <1>1, <1>2 DEF CoreInv, TypeOK
<1>4. MemoryInv'
  BY <1>1, <1>2 DEF CoreInv, MemoryInv, Latched, Restorable, Linked
<1>5. DocumentInv'
  BY <1>1 DEF CoreInv, DocumentInv, Restorable, Linked
<1>6. TimeInv'
  BY <1>1, <1>2 DEF CoreInv, TypeOK, TimeInv, Sorted, Spaced
<1> QED BY <1>2, <1>3, <1>4, <1>5, <1>6 DEF CoreInv

\* Nothing the invariant speaks of changes but the clocks and the configuration.
LEMMA TimePasses ==
    ASSUME CoreInv,
           UNCHANGED <<cron, release, document, holder, pc, memory, started, restarts>>,
           gateway' \in Sups \cup {NoOne, "orphan"}, config' \in 1..Configs,
           mono' \in Nat, back' \in 0..MaxBack, mono <= mono', back <= back'
    PROVE  CoreInv'
<1>1. TypeOK'
  BY DEF CoreInv, TypeOK
<1>2. HolderInv'
  BY DEF CoreInv, HolderInv
<1>3. /\ restarts \in Seq(Nat) /\ back \in Nat /\ back' \in Nat /\ mono \in Nat
      /\ started \in Nat
  BY Constants DEF CoreInv, TypeOK
<1>4. ASSUME NEW cs \in Seq(Int), Linked(cs) PROVE Linked(cs)'
  <2>1. LinkedAt(cs, restarts, back, mono)
    BY <1>4 DEF Linked, LinkedAt
  <2>2. LinkedAt(cs, restarts, back', mono')
    BY <1>3, <1>4, <2>1, LinkedLater
  <2> QED BY <2>2 DEF Linked, LinkedAt
<1>5. MemoryInv'
  <2> SUFFICES ASSUME Supervised' PROVE (/\ memory.reason = "none"
                  /\ ~Latched(document, memory.config)
                  /\ Linked(memory.crashes) /\ Restorable(memory))'
    BY DEF MemoryInv
  <2>1. /\ memory.reason = "none" /\ ~Latched(document, memory.config)
        /\ Linked(memory.crashes) /\ Restorable(memory)
    BY DEF CoreInv, MemoryInv, Supervised
  <2>2. memory.crashes \in Seq(Int)
    BY StateShape DEF CoreInv, TypeOK
  <2>3. Linked(memory.crashes)'
    BY <1>4, <2>1, <2>2
  <2> QED BY <2>1, <2>3 DEF Latched, Restorable
<1>6. DocumentInv'
  <2>1. ASSUME document \in State, document.reason = "none"
        PROVE  Linked(document.crashes)'
    <3>1. document.crashes \in Seq(Int) /\ Linked(document.crashes)
      BY <2>1, StateShape DEF CoreInv, DocumentInv
    <3> QED BY <1>4, <3>1
  <2> QED BY <2>1 DEF CoreInv, DocumentInv, Restorable
<1>7. TimeInv'
  <2>1. \A i \in 1..Len(restarts) : restarts[i] <= mono'
    BY <1>3 DEF CoreInv, TimeInv
  <2>2. \A s \in Sups : pc[s] \in {"serving", "refused"} =>
           started <= mono' /\ \A i \in 1..Len(restarts) : restarts[i] <= started
    BY <1>3 DEF CoreInv, TimeInv
  <2> QED BY <2>1, <2>2 DEF CoreInv, TimeInv, Sorted, Spaced
<1> QED BY <1>1, <1>2, <1>5, <1>6, <1>7 DEF CoreInv

LEMMA ResetKeeps ==
    ASSUME CoreInv, OperatorReset PROVE CoreInv'
<1>1. /\ UNCHANGED <<cron, mono, back, config, release, holder, pc, memory, started, gateway>>
      /\ holder = NoOne /\ document' = Fresh /\ restarts' = << >>
  BY DEF OperatorReset, Unlocked, Anew
<1>2. \A t \in Sups : pc'[t] = "off"
  BY <1>1, Constants DEF CoreInv, HolderInv
<1>3. Fresh \in State /\ Fresh.crashes = << >>
  <2>1. << >> \in Seq(Int) /\ -MaxBack \in Int
    BY Constants
  <2> QED BY <2>1 DEF CoreInv, TypeOK, State, Fresh, Reasons
<1>4. TypeOK'
  BY <1>1, <1>3 DEF CoreInv, TypeOK
<1>5. HolderInv'
  BY <1>1 DEF CoreInv, HolderInv
<1>6. MemoryInv'
  BY <1>2 DEF MemoryInv, Supervised
<1>7. DocumentInv'
  BY <1>1, <1>3, Constants DEF DocumentInv, Restorable, Sorted, Linked
<1>8. TimeInv'
  BY <1>1, <1>2 DEF TimeInv, Sorted, Spaced
<1> QED BY <1>4, <1>5, <1>6, <1>7, <1>8 DEF CoreInv

LEMMA ForwardKeeps ==
    ASSUME CoreInv, SetClockForward PROVE CoreInv'
<1>1. /\ UNCHANGED <<cron, mono, config, release, document, holder, pc, memory, started,
                     gateway>>
      /\ restarts' = << >> /\ back' = back - 1 /\ back > 0
  BY DEF SetClockForward
<1>2. back' \in 0..MaxBack /\ restarts' \in Seq(Nat)
  BY <1>1, Constants DEF CoreInv, TypeOK
<1>3. TypeOK'
  BY <1>1, <1>2 DEF CoreInv, TypeOK
<1>4. HolderInv' /\ TimeInv'
  BY <1>1 DEF CoreInv, HolderInv, TimeInv, Sorted, Spaced
<1>5. Linked(memory.crashes)' /\ Linked(document.crashes)'
  BY <1>1 DEF Linked
<1>6. MemoryInv'
  BY <1>1, <1>5 DEF CoreInv, MemoryInv, Supervised, Latched, Restorable
<1>7. DocumentInv'
  BY <1>1, <1>5 DEF CoreInv, DocumentInv, Restorable
<1> QED BY <1>3, <1>4, <1>6, <1>7 DEF CoreInv

-----------------------------------------------------------------------------
(* Starts and restarts *)

\* How the starts ss and the restarts rs lie at time t.
Alternate(ss, rs, t) ==
    /\ Sorted(ss)
    /\ \A i \in 1..Len(ss) : ss[i] <= t
    /\ \A i \in 1..Len(ss) :
          i <= Len(rs) => /\ ss[i] <= rs[i]
                          /\ i + 1 <= Len(ss) => rs[i] <= ss[i + 1]

\* What they count to, in a place of the supervisors.
Counted(ns, nr, running, startable, idle) ==
    /\ nr <= ns /\ ns <= nr + 1
    /\ running => ns = nr + 1
    /\ startable \/ idle => ns = nr

Idle == ~Supervised /\ (document \in State => document.reason = "none")

LEMMA StartsParts ==
    StartsInv <=> /\ starts \in Seq(Nat) /\ lapsed \in BOOLEAN
                  /\ lapsed => starts = << >>
                  /\ ~lapsed => Counted(Len(starts), Len(restarts), Running, Startable, Idle)
                  /\ Alternate(starts, restarts, mono)
BY DEF StartsInv, Counted, Alternate, Idle

LEMMA LapseKeeps == ASSUME Lapse PROVE StartsInv'
<1>1. starts' = << >> /\ lapsed' = TRUE
  BY DEF Lapse
<1> QED BY <1>1 DEF StartsInv, Sorted

LEMMA AnewKeeps == ASSUME Anew, ~Running' PROVE StartsInv'
<1>1. starts' = << >> /\ restarts' = << >> /\ lapsed' = FALSE
  BY DEF Anew
<1>2. Len(starts') = 0 /\ Len(restarts') = 0 /\ starts' \in Seq(Nat)
  BY <1>1
<1>3. Counted(0, 0, Running', Startable', Idle')
  BY DEF Counted
<1>4. Alternate(starts', restarts', mono')
  BY <1>1, <1>2 DEF Alternate, Sorted
<1>5. (/\ starts \in Seq(Nat) /\ lapsed \in BOOLEAN /\ (lapsed => starts = << >>)
       /\ ~lapsed => Counted(Len(starts), Len(restarts), Running, Startable, Idle)
       /\ Alternate(starts, restarts, mono))'
  BY <1>1, <1>2, <1>3, <1>4 DEF Counted, Alternate, Sorted
<1> QED BY <1>5, StartsParts, PTL

\* The history stays, and the supervisors get to a place that counts the same.
LEMMA HistoryKeeps ==
    ASSUME StartsInv, UNCHANGED history, mono \in Nat, mono' \in Nat, mono <= mono',
           Running' => Running,
           Startable' \/ Idle' => Startable \/ Idle
    PROVE  StartsInv'
<1>1. UNCHANGED <<restarts, starts, lapsed>>
  BY DEF history
<1>2. /\ starts \in Seq(Nat) /\ lapsed \in BOOLEAN /\ (lapsed => starts = << >>)
      /\ ~lapsed => Counted(Len(starts), Len(restarts), Running, Startable, Idle)
      /\ Alternate(starts, restarts, mono)
  BY StartsParts
<1>3. ~lapsed => Counted(Len(starts), Len(restarts), Running', Startable', Idle')
  BY <1>2 DEF Counted
<1>4. Alternate(starts, restarts, mono')
  <2>1. \A i \in 1..Len(starts) : starts[i] \in Nat
    BY <1>2
  <2> QED BY <1>2, <2>1 DEF Alternate
<1>5. (/\ starts \in Seq(Nat) /\ lapsed \in BOOLEAN /\ (lapsed => starts = << >>)
       /\ ~lapsed => Counted(Len(starts), Len(restarts), Running, Startable, Idle)
       /\ Alternate(starts, restarts, mono))'
  BY <1>1, <1>2, <1>3, <1>4 DEF Counted, Alternate, Sorted
<1> QED BY <1>5, StartsParts, PTL

-----------------------------------------------------------------------------
(* The invariant and the theorems *)

LEMMA CoreInit == Init => CoreInv
<1> SUFFICES ASSUME Init PROVE CoreInv
  OBVIOUS
<1>1. Fresh \in State
  <2>1. << >> \in Seq(Int) /\ -MaxBack \in Int /\ config \in 1..Configs
    BY Constants DEF Init
  <2> QED BY <2>1 DEF State, Fresh, Reasons
<1>2. \A s \in Sups : pc[s] = "off"
  BY DEF Init
<1>3. TypeOK
  BY <1>1, Constants DEF Init, TypeOK, Places
<1>4. HolderInv /\ MemoryInv
  BY <1>2 DEF HolderInv, MemoryInv, Supervised
<1>5. DocumentInv
  BY Constants DEF Init, DocumentInv
<1>6. TimeInv
  BY <1>2 DEF Init, TimeInv, Sorted, Spaced
<1> QED BY <1>3, <1>4, <1>5, <1>6 DEF CoreInv

LEMMA CoreNext == CoreInv /\ [Next]_vars => CoreInv'
<1> SUFFICES ASSUME CoreInv, [Next]_vars PROVE CoreInv'
  OBVIOUS
<1>1. /\ mono \in Nat /\ mono + 1 \in Nat /\ back \in 0..MaxBack /\ config \in 1..Configs
      /\ gateway \in Sups \cup {NoOne, "orphan"} /\ MaxBack \in Nat
      /\ mono <= mono + 1 /\ mono <= mono /\ back <= back /\ back <= back + 1
  BY Constants DEF CoreInv, TypeOK
<1>2. CASE UNCHANGED vars
  BY <1>1, <1>2, TimePasses DEF vars
<1>3. ASSUME NEW s \in Sups, Launch(s) PROVE CoreInv'
  BY <1>3, LaunchKeeps
<1>4. ASSUME NEW s \in Sups, LaunchEnds(s) PROVE CoreInv'
  BY <1>1, <1>4, TimePasses DEF LaunchEnds, vars
<1>5. ASSUME NEW s \in Sups, StartGateway(s) PROVE CoreInv'
  BY <1>5, StartGatewayKeeps
<1>6. ASSUME NEW s \in Sups, ReleaseBroken(s) PROVE CoreInv'
  BY <1>6, ReleaseBrokenKeeps
<1>7. ASSUME NEW s \in Sups, NEW code \in {0, 1, 78}, GatewayEnds(s, code)
      PROVE  CoreInv'
  BY <1>7, CrashKeeps, EndKeeps
<1>8. ASSUME NEW s \in Sups, GatewayEndsUnseen(s) PROVE CoreInv'
  BY <1>1, <1>8, LeaveKeeps DEF GatewayEndsUnseen
<1>9. ASSUME NEW s \in Sups, WakeUp(s) PROVE CoreInv'
  BY <1>9, WakeUpKeeps
<1>10. ASSUME NEW s \in Sups, Kill(s) PROVE CoreInv'
  BY <1>1, <1>10, LeaveKeeps DEF Kill
<1>11. CASE OrphanEnds
  BY <1>1, <1>11, TimePasses DEF OrphanEnds
<1>12. CASE ChangeConfig
  BY <1>1, <1>12, TimePasses DEF ChangeConfig, history
<1>13. CASE OperatorReset
  BY <1>13, ResetKeeps
<1>14. CASE Tick
  BY <1>1, <1>14, TimePasses DEF Tick, history
<1>15. CASE SetClockBack
  <2>1. back' \in 0..MaxBack
    BY <1>1, <1>15 DEF SetClockBack
  <2> QED BY <1>1, <1>15, <2>1, TimePasses DEF SetClockBack, history
<1>16. CASE SetClockForward
  BY <1>1, <1>16, ForwardKeeps DEF SetClockForward
<1> QED BY <1>2, <1>3, <1>4, <1>5, <1>6, <1>7, <1>8, <1>9, <1>10, <1>11, <1>12,
           <1>13, <1>14, <1>15, <1>16 DEF Next

\* Where the one supervisor is that runs.
LEMMA OnePlace ==
    ASSUME CoreInv, NEW s \in Sups, pc[s] # "off"
    PROVE  /\ \A t \in Sups : t # s => pc[t] = "off"
           /\ Supervised /\ ~Idle
           /\ pc[s] \in {"serving", "refused"} => Running /\ ~Startable
           /\ pc[s] \in {"starting", "sleeping"} => Startable /\ ~Running
<1>1. \A t \in Sups : t # s => pc[t] = "off"
  BY DEF CoreInv, HolderInv
<1>2. Supervised
  BY DEF Supervised
<1> QED BY <1>1, <1>2 DEF Running, Startable, Idle

LEMMA NoPlace ==
    ASSUME \A t \in Sups : pc[t] = "off"
    PROVE  ~Supervised /\ ~Running /\ ~Startable
BY DEF Supervised, Running, Startable

LEMMA StartsInit == Init => StartsInv
<1> SUFFICES ASSUME Init PROVE StartsInv
  OBVIOUS
<1>1. starts = << >> /\ restarts = << >> /\ lapsed = FALSE /\ ~Running
  BY NoPlace DEF Init
<1>2. Len(starts) = 0 /\ Len(restarts) = 0 /\ starts \in Seq(Nat)
  BY <1>1
<1>3. Counted(Len(starts), Len(restarts), Running, Startable, Idle)
  BY <1>1, <1>2 DEF Counted
<1>4. Alternate(starts, restarts, mono)
  BY <1>1, <1>2 DEF Alternate, Sorted
<1> QED BY <1>1, <1>2, <1>3, <1>4, StartsParts

LEMMA LaunchCounts ==
    ASSUME CoreInv, StartsInv, NEW s \in Sups, Launch(s) PROVE StartsInv'
<1>1. /\ UNCHANGED mono /\ mono \in Nat /\ mono <= mono
      /\ \A t \in Sups : pc[t] = "off"
      /\ pc'[s] = "starting" /\ \A t \in Sups : pc'[t] \in {"off", "starting"}
  BY Constants DEF Launch, Unlocked, CoreInv, TypeOK, HolderInv
<1>2. ~Running' /\ ~Supervised
  BY <1>1 DEF Running, Supervised
<1>3. CASE document # Missing /\ Load(document) = Fresh
  <2>1. Anew
    BY <1>3 DEF Launch
  <2> QED BY <1>2, <2>1, AnewKeeps
<1>4. CASE ~(document # Missing /\ Load(document) = Fresh)
  <2>1. UNCHANGED history
    BY <1>4 DEF Launch
  <2>2. document \in State => document.reason = "none"
    <3>1. ~Latched(document, config)
      BY DEF Launch, SafeStopped
    <3>2. document \in State => ~(cron /\ document.config # config)
      BY <1>4, Constants DEF Load
    <3> QED BY <3>1, <3>2 DEF Latched
  <2>3. Idle
    BY <1>2, <2>2 DEF Idle
  <2> QED BY <1>1, <1>2, <2>1, <2>3, HistoryKeeps
<1> QED BY <1>3, <1>4

LEMMA StartCounts ==
    ASSUME CoreInv, StartsInv, NEW s \in Sups, StartGateway(s) PROVE StartsInv'
<1>1. /\ UNCHANGED <<mono, restarts, lapsed>> /\ mono \in Nat /\ pc[s] = "starting"
      /\ pc' = [pc EXCEPT ![s] = pc'[s]] /\ pc'[s] \in {"serving", "refused"}
      /\ starts' = IF lapsed THEN starts ELSE Append(starts, mono)
      /\ restarts \in Seq(Nat) /\ pc \in [Sups -> Places]
      /\ \A i \in 1..Len(restarts) : restarts[i] <= mono
  BY DEF StartGateway, CoreInv, TypeOK, TimeInv
<1>2. /\ starts \in Seq(Nat) /\ lapsed \in BOOLEAN /\ (lapsed => starts = << >>)
      /\ ~lapsed => Counted(Len(starts), Len(restarts), Running, Startable, Idle)
      /\ Alternate(starts, restarts, mono)
  BY StartsParts
<1>3. CASE lapsed
  <2>1. Lapse
    BY <1>1, <1>2, <1>3 DEF Lapse
  <2> QED BY <2>1, LapseKeeps
<1>4. CASE ~lapsed
  <2>1. Startable /\ \A t \in Sups : t # s => pc[t] = "off"
    BY <1>1, OnePlace
  <2>2. CoreInv' /\ pc'[s] # "off"
    BY <1>1, StartGatewayKeeps
  <2>3. Running' /\ ~Startable' /\ ~Idle'
    <3>1. \A t \in Sups : t # s => pc'[t] = "off"
      BY <1>1, <2>1
    <3> QED BY <1>1, <3>1 DEF Running, Startable, Idle, Supervised
  <2> DEFINE ss == Append(starts, mono)
  <2>4. /\ starts' = ss /\ ss \in Seq(Nat) /\ Len(ss) = Len(starts) + 1
        /\ ss[Len(ss)] = mono /\ \A i \in 1..Len(starts) : ss[i] = starts[i]
    BY <1>1, <1>2, <1>4
  <2>5. Len(starts) = Len(restarts) /\ Len(starts) \in Nat
    BY <1>2, <1>4, <2>1 DEF Counted
  <2>6. Counted(Len(ss), Len(restarts), Running', Startable', Idle')
    BY <2>3, <2>4, <2>5 DEF Counted
  <2>7. Alternate(ss, restarts, mono)
    <3>1. \A i \in 1..Len(starts) : starts[i] \in Nat /\ starts[i] <= mono
      BY <1>2 DEF Alternate
    <3>2. \A i \in 1..Len(ss) : ss[i] <= mono
      BY <1>1, <2>4, <2>5, <3>1
    <3>3. Sorted(ss)
      <4> SUFFICES ASSUME NEW i \in 1..Len(ss), NEW j \in 1..Len(ss), i <= j
                   PROVE  ss[i] <= ss[j]
        BY <2>4 DEF Sorted
      <4>1. CASE j = Len(ss)
        BY <2>4, <3>2, <4>1
      <4>2. CASE j # Len(ss)
        <5>1. i \in 1..Len(starts) /\ j \in 1..Len(starts)
          BY <2>4, <2>5, <4>2
        <5>2. starts[i] <= starts[j]
          BY <1>2, <5>1 DEF Alternate, Sorted
        <5> QED BY <2>4, <5>1, <5>2
      <4> QED BY <4>1, <4>2
    <3>4. ASSUME NEW i \in 1..Len(ss), i <= Len(restarts)
          PROVE  /\ ss[i] <= restarts[i]
                 /\ i + 1 <= Len(ss) => restarts[i] <= ss[i + 1]
      <4>1. i \in 1..Len(starts) /\ i \in 1..Len(restarts) /\ restarts[i] <= mono
        BY <1>1, <2>5, <3>4
      <4>2. ss[i] <= restarts[i]
        BY <1>2, <2>4, <3>4, <4>1 DEF Alternate
      <4>3. CASE i = Len(starts)
        BY <2>4, <4>1, <4>2, <4>3
      <4>4. CASE i # Len(starts)
        <5>1. i + 1 \in 1..Len(starts) /\ i + 1 <= Len(starts)
          BY <2>5, <4>1, <4>4
        <5>2. restarts[i] <= starts[i + 1]
          BY <1>2, <3>4, <4>1, <5>1 DEF Alternate
        <5> QED BY <2>4, <4>2, <5>1, <5>2
      <4> QED BY <4>3, <4>4
    <3> HIDE DEF ss
    <3> QED BY <3>2, <3>3, <3>4 DEF Alternate
  <2> HIDE DEF ss
  <2>8. (/\ starts \in Seq(Nat) /\ lapsed \in BOOLEAN /\ (lapsed => starts = << >>)
         /\ ~lapsed => Counted(Len(starts), Len(restarts), Running, Startable, Idle)
         /\ Alternate(starts, restarts, mono))'
    BY <1>1, <1>2, <1>4, <2>4, <2>6, <2>7 DEF Counted, Alternate, Sorted
  <2> QED BY <2>8, StartsParts, PTL
<1> QED BY <1>3, <1>4

LEMMA CrashCounts ==
    ASSUME CoreInv, StartsInv, NEW s \in Sups, GatewayEnds(s, 1),
           ObserveExit(1, mono - started).reason = "none"
    PROVE  StartsInv'
<1>1. /\ UNCHANGED <<mono, starts, lapsed>> /\ mono \in Nat
      /\ pc[s] \in {"serving", "refused"} /\ pc' = [pc EXCEPT ![s] = "sleeping"]
      /\ restarts' = Append(restarts, mono) /\ restarts \in Seq(Nat)
      /\ pc \in [Sups -> Places]
  BY DEF GatewayEnds, CoreInv, TypeOK
<1>2. /\ starts \in Seq(Nat) /\ lapsed \in BOOLEAN /\ (lapsed => starts = << >>)
      /\ ~lapsed => Counted(Len(starts), Len(restarts), Running, Startable, Idle)
      /\ Alternate(starts, restarts, mono)
  BY StartsParts
<1>3. CASE lapsed
  <2>1. Lapse
    BY <1>1, <1>2, <1>3 DEF Lapse
  <2> QED BY <2>1, LapseKeeps
<1>4. CASE ~lapsed
  <2>1. pc[s] # "off"
    BY <1>1
  <2>2. Running /\ \A t \in Sups : t # s => pc[t] = "off"
    BY <1>1, <2>1, OnePlace
  <2>3. ~Running'
    BY <1>1, <2>2 DEF Running
  <2>4. /\ Len(restarts') = Len(restarts) + 1 /\ restarts'[Len(restarts')] = mono
        /\ \A i \in 1..Len(restarts) : restarts'[i] = restarts[i]
        /\ Len(restarts) \in Nat
    BY <1>1
  <2>5. Len(starts) = Len(restarts) + 1
    BY <1>2, <1>4, <2>2 DEF Counted
  <2>6. Counted(Len(starts), Len(restarts'), Running', Startable', Idle')
    BY <2>3, <2>4, <2>5 DEF Counted
  <2>7. Alternate(starts, restarts', mono)
    <3>1. ASSUME NEW i \in 1..Len(starts), i <= Len(restarts')
          PROVE  /\ starts[i] <= restarts'[i]
                 /\ i + 1 <= Len(starts) => restarts'[i] <= starts[i + 1]
      <4>1. CASE i = Len(starts)
        BY <1>2, <2>4, <2>5, <4>1 DEF Alternate
      <4>2. CASE i # Len(starts)
        <5>1. i \in 1..Len(restarts) /\ i <= Len(restarts)
          BY <2>4, <2>5, <4>2
        <5> QED BY <1>2, <2>4, <5>1 DEF Alternate
      <4> QED BY <4>1, <4>2
    <3> QED BY <1>2, <3>1 DEF Alternate
  <2>8. (/\ starts \in Seq(Nat) /\ lapsed \in BOOLEAN /\ (lapsed => starts = << >>)
         /\ ~lapsed => Counted(Len(starts), Len(restarts), Running, Startable, Idle)
         /\ Alternate(starts, restarts, mono))'
    BY <1>1, <1>2, <1>4, <2>6, <2>7 DEF Counted, Alternate, Sorted
  <2> QED BY <2>8, StartsParts, PTL
<1> QED BY <1>3, <1>4

LEMMA EndCounts ==
    ASSUME CoreInv, StartsInv, NEW s \in Sups, NEW code \in {0, 1, 78},
           GatewayEnds(s, code),
           ~(code = 1 /\ ObserveExit(code, mono - started).reason = "none")
    PROVE  StartsInv'
<1> DEFINE next == ObserveExit(code, mono - started)
<1>1. /\ UNCHANGED mono /\ mono \in Nat /\ mono <= mono /\ Leave(s)
      /\ pc[s] \in {"serving", "refused"} /\ document' = next
      /\ IF code = 0 THEN Anew ELSE UNCHANGED history
  BY DEF GatewayEnds, CoreInv, TypeOK
<1>2. TypeOK /\ HolderInv /\ mono - started \in Int
  BY DEF CoreInv, TypeOK
<1>3. /\ \A t \in Sups : pc'[t] = "off"
      /\ ~Supervised'
  BY <1>1, <1>2, LeaveEnds
<1>4. ~Running' /\ ~Startable'
  BY <1>3 DEF Running, Startable
<1>5. /\ next \in State
      /\ code = 78 => next.reason = "configuration_error"
  BY <1>2, ObserveExitShape
<1>6. code = 0 \/ next.reason # "none"
  BY <1>5
<1> HIDE DEF next
<1>7. CASE code = 0
  BY <1>1, <1>4, <1>7, AnewKeeps
<1>8. CASE code # 0
  <2>1. ~Idle'
    BY <1>1, <1>5, <1>6, <1>8 DEF Idle
  <2> QED BY <1>1, <1>4, <1>8, <2>1, HistoryKeeps
<1> QED BY <1>7, <1>8

\* A supervisor that has not started its gateway ends.
LEMMA LeaveCounts ==
    ASSUME CoreInv, StartsInv, NEW s \in Sups, pc[s] \in {"starting", "sleeping"},
           Leave(s), UNCHANGED <<mono, restarts, starts, lapsed>>
    PROVE  StartsInv'
<1>1. mono \in Nat /\ mono <= mono /\ TypeOK /\ HolderInv /\ pc[s] # "off"
  BY DEF CoreInv, TypeOK
<1>2. \A t \in Sups : pc'[t] = "off"
  BY <1>1, LeaveEnds
<1>3. ~Running' /\ Startable
  BY <1>1, <1>2, OnePlace DEF Running
<1> QED BY <1>1, <1>3, HistoryKeeps DEF history

LEMMA WakeUpCounts ==
    ASSUME CoreInv, StartsInv, NEW s \in Sups, WakeUp(s) PROVE StartsInv'
<1>1. /\ UNCHANGED <<mono, history>> /\ mono \in Nat /\ mono <= mono
      /\ pc[s] = "sleeping" /\ pc[s] # "off" /\ pc' = [pc EXCEPT ![s] = "starting"]
      /\ pc \in [Sups -> Places]
  BY DEF WakeUp, CoreInv, TypeOK
<1>2. Startable /\ \A t \in Sups : t # s => pc[t] = "off"
  BY <1>1, OnePlace
<1>3. ~Running'
  BY <1>1, <1>2 DEF Running
<1> QED BY <1>1, <1>2, <1>3, HistoryKeeps

\* Nothing happens to the supervisors and their document.
LEMMA OthersCount ==
    ASSUME StartsInv, UNCHANGED <<pc, document, history>>, mono \in Nat, mono' \in Nat,
           mono <= mono'
    PROVE  StartsInv'
<1>1. Running' = Running /\ Startable' = Startable /\ Idle' = Idle
  BY DEF Running, Startable, Idle, Supervised
<1> QED BY <1>1, HistoryKeeps

LEMMA StartsNext == CoreInv /\ StartsInv /\ [Next]_vars => StartsInv'
<1> SUFFICES ASSUME CoreInv, StartsInv, [Next]_vars PROVE StartsInv'
  OBVIOUS
<1>1. mono \in Nat /\ mono + 1 \in Nat /\ mono <= mono + 1 /\ mono <= mono
  BY DEF CoreInv, TypeOK
<1>2. CASE UNCHANGED vars
  BY <1>1, <1>2, OthersCount DEF vars, history
<1>3. ASSUME NEW s \in Sups, Launch(s) PROVE StartsInv'
  BY <1>3, LaunchCounts
<1>4. ASSUME NEW s \in Sups, LaunchEnds(s) PROVE StartsInv'
  BY <1>1, <1>4, OthersCount DEF LaunchEnds, vars, history
<1>5. ASSUME NEW s \in Sups, StartGateway(s) PROVE StartsInv'
  BY <1>5, StartCounts
<1>6. ASSUME NEW s \in Sups, ReleaseBroken(s) PROVE StartsInv'
  BY <1>6, LeaveCounts DEF ReleaseBroken, history
<1>7. ASSUME NEW s \in Sups, NEW code \in {0, 1, 78}, GatewayEnds(s, code)
      PROVE  StartsInv'
  BY <1>7, CrashCounts, EndCounts
<1>8. ASSUME NEW s \in Sups, GatewayEndsUnseen(s) PROVE StartsInv'
  BY <1>8, LapseKeeps DEF GatewayEndsUnseen
<1>9. ASSUME NEW s \in Sups, WakeUp(s) PROVE StartsInv'
  BY <1>9, WakeUpCounts
<1>10. ASSUME NEW s \in Sups, Kill(s) PROVE StartsInv'
  <2>1. CASE pc[s] \in {"serving", "refused"}
    BY <1>10, <2>1, LapseKeeps DEF Kill
  <2>2. CASE ~(pc[s] \in {"serving", "refused"})
    <3>1. pc[s] \in {"starting", "sleeping"}
      BY <1>10, <2>2 DEF Kill, CoreInv, TypeOK, Places
    <3> QED BY <1>10, <2>2, <3>1, LeaveCounts DEF Kill
  <2> QED BY <2>1, <2>2
<1>11. CASE OrphanEnds
  BY <1>11, LapseKeeps DEF OrphanEnds
<1>12. CASE ChangeConfig
  BY <1>1, <1>12, OthersCount DEF ChangeConfig
<1>13. CASE OperatorReset
  <2>1. \A t \in Sups : pc'[t] = "off"
    BY <1>13, Constants DEF OperatorReset, Unlocked, CoreInv, HolderInv
  <2>2. ~Running'
    BY <2>1 DEF Running
  <2> QED BY <1>13, <2>2, AnewKeeps DEF OperatorReset
<1>14. CASE Tick
  BY <1>1, <1>14, OthersCount DEF Tick
<1>15. CASE SetClockBack
  BY <1>1, <1>15, OthersCount DEF SetClockBack
<1>16. CASE SetClockForward
  BY <1>16, LapseKeeps DEF SetClockForward
<1> QED BY <1>2, <1>3, <1>4, <1>5, <1>6, <1>7, <1>8, <1>9, <1>10, <1>11, <1>12,
           <1>13, <1>14, <1>15, <1>16 DEF Next

\* max_restarts + 1 starts later at least a window has passed: the restarts
\* lie between the starts.
LEMMA StartsSpaced ==
    ASSUME SupervisorInv, NEW i \in 1..Len(starts), i + (MaxRestarts + 1) <= Len(starts)
    PROVE  starts[i] + Window <= starts[i + (MaxRestarts + 1)]
<1> DEFINE k == i + MaxRestarts
<1>1. /\ starts \in Seq(Nat) /\ Alternate(starts, restarts, mono)
      /\ ~lapsed => Counted(Len(starts), Len(restarts), Running, Startable, Idle)
      /\ lapsed => starts = << >>
  BY StartsParts DEF SupervisorInv
<1>2. restarts \in Seq(Nat) /\ Spaced /\ MaxRestarts \in Nat /\ Window \in Nat
  BY Constants DEF SupervisorInv, CoreInv, TypeOK, TimeInv
<1>3. Len(starts) \in Nat /\ Len(restarts) \in Nat /\ Len(starts) <= Len(restarts) + 1
  BY <1>1, <1>2 DEF Counted
<1>4. /\ k \in 1..Len(starts) /\ k + 1 <= Len(starts) /\ k <= Len(restarts)
      /\ k \in 1..Len(restarts) /\ k + 1 \in 1..Len(starts)
      /\ k + 1 = i + (MaxRestarts + 1)
      /\ i \in 1..Len(restarts) /\ i <= Len(restarts)
  BY <1>2, <1>3
<1>5. restarts[i] + Window <= restarts[k]
  BY <1>2, <1>4 DEF Spaced
<1>6. starts[i] <= restarts[i] /\ restarts[k] <= starts[k + 1]
  <2> HIDE DEF k
  <2> QED BY <1>1, <1>4 DEF Alternate
<1>7. starts[i] \in Nat /\ restarts[i] \in Nat /\ restarts[k] \in Nat /\ starts[k + 1] \in Nat
  <2>1. /\ i \in 1..Len(starts) /\ k + 1 \in 1..Len(starts)
        /\ i \in 1..Len(restarts) /\ k \in 1..Len(restarts)
    BY <1>4
  <2> HIDE DEF k
  <2>2. \A j \in 1..Len(starts) : starts[j] \in Nat
    BY <1>1
  <2>3. \A j \in 1..Len(restarts) : restarts[j] \in Nat
    BY <1>2
  <2> QED BY <2>1, <2>2, <2>3
<1> DEFINE a == starts[i]  b == restarts[i]  c == restarts[k]  d == starts[k + 1]
<1>8. a \in Nat /\ b \in Nat /\ c \in Nat /\ d \in Nat /\ Window \in Nat
      /\ a <= b /\ b + Window <= c /\ c <= d
  BY <1>2, <1>5, <1>6, <1>7
<1>9. d = starts[i + (MaxRestarts + 1)]
  BY <1>4
<1> HIDE DEF k, a, b, c, d
<1>10. a + Window <= d
  BY <1>8
<1> QED BY <1>9, <1>10 DEF a

\* The inductive invariant of the supervisors holds, however they are killed,
\* restarted and race for the lock, and however the wall clock is set back.
THEOREM SupervisorHolds == Spec => []SupervisorInv
<1>1. Init => SupervisorInv
  BY CoreInit, StartsInit DEF SupervisorInv
<1>2. SupervisorInv /\ [Next]_vars => SupervisorInv'
  BY CoreNext, StartsNext DEF SupervisorInv
<1> QED BY <1>1, <1>2, PTL DEF Spec

\* A crash loop that is counted ends: at most max_restarts restarts after counted
\* crashes in one window of real time, whatever ends uncounted in between; at
\* most max_restarts + 1 starts, however they came about, while no end goes
\* uncounted; and a document that the next supervisor can restore.
THEOREM CrashLoopsEnd == Spec => []CrashLoopEnds
<1>1. SupervisorInv => CrashLoopEnds
  <2> SUFFICES ASSUME SupervisorInv PROVE CrashLoopEnds
    OBVIOUS
  <2>1. /\ restarts \in Seq(Nat) /\ starts \in Seq(Nat)
        /\ Sorted(restarts) /\ Sorted(starts) /\ Spaced
        /\ MaxRestarts \in Nat /\ MaxRestarts + 1 \in Nat
    BY Constants DEF SupervisorInv, CoreInv, TypeOK, TimeInv, StartsInv
  <2>2. RestartsBounded
    BY <2>1, SpacedIsBounded DEF RestartsBounded, Spaced
  <2>3. StartsBounded
    BY <2>1, StartsSpaced, SpacedIsBounded DEF StartsBounded
  <2>4. DocumentRestorable
    BY DEF SupervisorInv, CoreInv, DocumentInv, DocumentRestorable
  <2> QED BY <2>2, <2>3, <2>4 DEF CrashLoopEnds
<1> QED BY <1>1, SupervisorHolds, PTL

\* No supervisor starts a gateway that the document it works from has stopped
\* for good.
THEOREM LatchIsObeyed == Spec => LatchForbidsStart
<1>1. SupervisorInv /\ [Next]_vars => [StartIsAllowed]_vars
  <2> SUFFICES ASSUME SupervisorInv PROVE StartIsAllowed
    OBVIOUS
  <2> QED BY DEF StartIsAllowed, SupervisorInv, CoreInv, MemoryInv, Supervised
<1> QED BY <1>1, SupervisorHolds, PTL DEF Spec, LatchForbidsStart

=============================================================================
