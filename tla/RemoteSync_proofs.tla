--------------------------- MODULE RemoteSync_proofs ---------------------------
(***************************************************************************)
(* Proofs about HistoryConflict and RemoteSync: that RemoteInv is an       *)
(* invariant of RemoteSpec, and what the runs check follows from it.       *)
(***************************************************************************)
EXTENDS RemoteSync, TLAPS, SequenceTheorems

-----------------------------------------------------------------------------
(* Sequences *)

\* A body is a sequence of events.
LEMMA BodyIsSeq ==
    ASSUME NEW b \in Body
    PROVE  b \in Seq({0, 1}) /\ Len(b) \in 0..MaxLen
<1>1. PICK n \in 0..MaxLen : b \in [1..n -> {0, 1}]
    BY DEF Body
<1>2. n \in Nat
    BY <1>1, ConflictAssumption DEF ConflictAssumption
<1>3. b \in Seq({0, 1})
    BY <1>1, <1>2
<1>4. Len(b) = n
    BY <1>1, <1>2, <1>3
<1> QED BY <1>1, <1>3, <1>4

\* And every short one is a body.
LEMMA SeqIsBody ==
    ASSUME NEW b \in Seq({0, 1}), Len(b) <= MaxLen
    PROVE  b \in Body
<1>1. MaxLen \in Nat
    BY ConflictAssumption DEF ConflictAssumption
<1>2. Len(b) \in 0..MaxLen
    BY <1>1
<1>3. b \in [1..Len(b) -> {0, 1}]
    OBVIOUS
<1> QED BY <1>2, <1>3 DEF Body

LEMMA BodiesAreBodies == Bodies \subseteq Body
BY SeqIsBody, ConflictAssumption DEF ConflictAssumption

\* A beginning, event by event.
LEMMA PrefixMeans ==
    ASSUME NEW s \in Body, NEW u \in Body
    PROVE  IsPrefix(s, u) <=> /\ Len(s) <= Len(u)
                              /\ \A i \in 1..Len(s) : s[i] = u[i]
<1>1. s \in Seq({0, 1}) /\ u \in Seq({0, 1}) /\ Len(s) \in Nat /\ Len(u) \in Nat
    BY BodyIsSeq
<1> DEFINE v == SubSeq(u, 1, Len(s))
           w == SubSeq(s, 1, Len(s))
<1>2. ASSUME Len(s) <= Len(u)
      PROVE  w = v <=> \A i \in 1..Len(s) : s[i] = u[i]
  <2>1. \A i \in 1..Len(s) : u[i] \in {0, 1} /\ s[i] \in {0, 1}
    BY <1>1, <1>2
  <2>2. /\ v \in Seq({0, 1}) /\ Len(v) = IF 1 <= Len(s) THEN Len(s) - 1 + 1 ELSE 0
        /\ \A i \in 1..(Len(s) - 1 + 1) : v[i] = u[1 + i - 1]
    BY <1>1, <2>1, SubSeqProperties
  <2>3. /\ w \in Seq({0, 1}) /\ Len(w) = IF 1 <= Len(s) THEN Len(s) - 1 + 1 ELSE 0
        /\ \A i \in 1..(Len(s) - 1 + 1) : w[i] = s[1 + i - 1]
    BY <1>1, <2>1, SubSeqProperties
  <2> HIDE DEF v, w
  <2>4. Len(v) = Len(s) /\ Len(w) = Len(s)
    BY <1>1, <2>2, <2>3
  <2>5. \A i \in 1..Len(s) : v[i] = u[i] /\ w[i] = s[i]
    BY <1>1, <2>2, <2>3
  <2>6. w = v <=> \A i \in 1..Len(s) : w[i] = v[i]
    BY <1>1, <2>2, <2>3, <2>4, SeqEqual
  <2> QED BY <2>5, <2>6
<1> QED BY <1>1, <1>2 DEF IsPrefix

LEMMA PrefixSelf ==
    ASSUME NEW s \in Body
    PROVE  IsPrefix(s, s)
BY PrefixMeans, BodyIsSeq

LEMMA PrefixTransitive ==
    ASSUME NEW s \in Body, NEW u \in Body, NEW v \in Body, IsPrefix(s, u), IsPrefix(u, v)
    PROVE  IsPrefix(s, v)
<1>1. Len(s) \in Nat /\ Len(u) \in Nat /\ Len(v) \in Nat
    BY BodyIsSeq
<1>2. Len(s) <= Len(u) /\ \A i \in 1..Len(s) : s[i] = u[i]
    BY PrefixMeans
<1>3. Len(u) <= Len(v) /\ \A i \in 1..Len(u) : u[i] = v[i]
    BY PrefixMeans
<1>4. Len(s) <= Len(v) /\ \A i \in 1..Len(s) : s[i] = v[i]
    BY <1>1, <1>2, <1>3
<1> QED BY <1>4, PrefixMeans

\* An event more.
LEMMA AppendGrows ==
    ASSUME NEW s \in Body, NEW e \in {0, 1}, Len(s) < MaxLen
    PROVE  Append(s, e) \in Body /\ IsPrefix(s, Append(s, e))
<1>1. s \in Seq({0, 1}) /\ Len(s) \in Nat /\ MaxLen \in Nat
    BY BodyIsSeq, ConflictAssumption DEF ConflictAssumption
<1>2. /\ Append(s, e) \in Seq({0, 1}) /\ Len(Append(s, e)) = Len(s) + 1
      /\ \A i \in 1..Len(s) : Append(s, e)[i] = s[i]
    BY <1>1, AppendProperties
<1> DEFINE a == Append(s, e)
<1> HIDE DEF a
<1>3. a \in Seq({0, 1}) /\ Len(a) = Len(s) + 1 /\ \A i \in 1..Len(s) : a[i] = s[i]
    BY <1>2 DEF a
<1>4. Len(a) <= MaxLen
    BY <1>1, <1>3
<1>5. a \in Body
    BY <1>3, <1>4, SeqIsBody
<1>6. Len(s) <= Len(a) /\ \A i \in 1..Len(s) : s[i] = a[i]
    BY <1>1, <1>3
<1>7. IsPrefix(s, a)
    BY <1>5, <1>6, PrefixMeans
<1> QED BY <1>5, <1>7 DEF a

\* A body whose end is lost.
LEMMA BeginningIsBody ==
    ASSUME NEW s \in Body, NEW n \in 0..MaxLen, n < Len(s)
    PROVE  SubSeq(s, 1, n) \in Body
<1>1. s \in Seq({0, 1}) /\ Len(s) \in Nat /\ MaxLen \in Nat /\ n \in Int /\ n >= 0
    BY BodyIsSeq, ConflictAssumption DEF ConflictAssumption
<1>2. \A i \in 1..n : s[i] \in {0, 1}
    BY <1>1
<1>3. SubSeq(s, 1, n) \in Seq({0, 1}) /\ Len(SubSeq(s, 1, n)) = IF 1 <= n THEN n - 1 + 1 ELSE 0
    BY <1>1, <1>2, SubSeqProperties
<1> DEFINE v == SubSeq(s, 1, n)
<1> HIDE DEF v
<1>4. v \in Seq({0, 1}) /\ Len(v) <= MaxLen
    BY <1>1, <1>3 DEF v
<1>5. v \in Body
    BY <1>4, SeqIsBody
<1> QED BY <1>5 DEF v

\* The last of a sequence is taken off.
LEMMA FrontOfSeq ==
    ASSUME NEW S, NEW s \in Seq(S), s # <<>>
    PROVE  /\ Front(s) \in Seq(S) /\ Len(s) \in Nat /\ Len(s) > 0
           /\ Last(s) = s[Len(s)] /\ Last(s) \in S
           /\ Len(Front(s)) = Len(s) - 1 /\ DOMAIN s = 1..Len(s)
           /\ DOMAIN Front(s) = 1..(Len(s) - 1)
           /\ \A i \in 1..(Len(s) - 1) : Front(s)[i] = s[i]
<1>1. Len(s) \in Nat /\ Len(s) > 0 /\ DOMAIN s = 1..Len(s)
    OBVIOUS
<1>2. \A i \in 1..(Len(s) - 1) : s[i] \in S
    BY <1>1
<1> DEFINE m == Len(s) - 1
<1>3. m \in Int /\ 1 \in Int
    BY <1>1
<1>4. /\ SubSeq(s, 1, m) \in Seq(S)
      /\ Len(SubSeq(s, 1, m)) = IF 1 <= m THEN m - 1 + 1 ELSE 0
      /\ \A i \in 1..(m - 1 + 1) : SubSeq(s, 1, m)[i] = s[1 + i - 1]
    BY <1>2, <1>3, SubSeqProperties
<1>5. Front(s) = SubSeq(s, 1, m)
    BY DEF Front
<1> HIDE DEF m
<1>6. Front(s) \in Seq(S) /\ Len(Front(s)) = m /\ \A i \in 1..m : Front(s)[i] = s[i]
  <2>1. m >= 0
    BY <1>1, <1>3 DEF m
  <2> QED BY <1>3, <1>4, <1>5, <2>1
<1>7. DOMAIN Front(s) = 1..m
    BY <1>6
<1>8. Last(s) = s[Len(s)] /\ Last(s) \in S
    BY <1>1 DEF Last
<1> QED BY <1>1, <1>6, <1>7, <1>8 DEF m

LEMMA AppendToSeq ==
    ASSUME NEW S, NEW s \in Seq(S), NEW e \in S
    PROVE  /\ Append(s, e) \in Seq(S) /\ Len(s) \in Nat
           /\ DOMAIN s = 1..Len(s) /\ DOMAIN Append(s, e) = 1..(Len(s) + 1)
           /\ \A i \in 1..Len(s) : Append(s, e)[i] = s[i]
           /\ Append(s, e)[Len(s) + 1] = e /\ Append(s, e) # <<>>
<1>1. /\ Append(s, e) \in Seq(S) /\ Append(s, e) # <<>>
      /\ Len(Append(s, e)) = Len(s) + 1
      /\ \A i \in 1..Len(s) : Append(s, e)[i] = s[i]
      /\ Append(s, e)[Len(s) + 1] = e
    BY AppendProperties
<1> QED BY <1>1

-----------------------------------------------------------------------------
(* The chats *)

LEMMA HomeParts ==
    ASSUME NEW h \in Homes
    PROVE  /\ h.files \in [Places -> Body \cup {Missing}]
           /\ h.rows \in [Threads -> Row \cup {Missing}]
           /\ h = [files |-> h.files, rows |-> h.rows]
BY DEF Homes, Files, Rows

LEMMA RowParts ==
    ASSUME NEW r \in Row
    PROVE  r.slot \in Slots /\ r.archived \in BOOLEAN
BY DEF Row

LEMMA PlaceParts ==
    ASSUME NEW t \in Threads, NEW s \in Slots
    PROVE  <<t, s>> \in Places /\ <<t, s>>[1] = t /\ <<t, s>>[2] = s
BY DEF Places

LEMMA PlaceIsPair ==
    ASSUME NEW p \in Places
    PROVE  p[1] \in Threads /\ p[2] \in Slots /\ p = <<p[1], p[2]>>
BY DEF Places

\* A body is not Missing.
LEMMA FilesHold ==
    ASSUME NEW f \in Files, NEW p \in Places
    PROVE  f[p] \in Body <=> f[p] # Missing
BY MissingAssumption DEF Files, MissingAssumption

\* Codex only lets a chat grow, where it is or in a free place of the archive.
Evolves ==
    /\ home' \in Homes
    /\ \A p \in Places :
          p[2] \in Archived /\ home.files[p] # Missing =>
             home'.files[p] # Missing /\ IsPrefix(home.files[p], home'.files[p])
    /\ \A p \in Places :
          p[2] \in Active /\ home'.files[p] # Missing =>
             home.files[p] # Missing /\ IsPrefix(home.files[p], home'.files[p])
    /\ \A t \in Threads : \A r \in Copies(home.files, t) :
          \E q \in Copies(home'.files, t) :
             /\ IsPrefix(home.files[<<t, r>>], home'.files[<<t, q>>])
             /\ q = r \/ (q \in Archived /\ home.files[<<t, q>>] = Missing)

\* The two ways Codex changes the home.
LEMMA AppendEvolves ==
    ASSUME TypeOK, NEW t \in Threads, home.rows[t] # Missing,
           home.files[<<t, home.rows[t].slot>>] # Missing, Append1(t)
    PROVE  Evolves
<1> DEFINE p == <<t, home.rows[t].slot>>
<1>1. home \in Homes /\ home.rows[t] \in Row
    BY HomeParts DEF TypeOK
<1>2. p \in Places /\ home.files[p] \in Body /\ home.files \in Files
    BY <1>1, RowParts, PlaceParts, HomeParts, FilesHold DEF Homes
<1>3. PICK e \in {0, 1} : home' = [home EXCEPT !.files[p] = Append(@, e)]
    BY DEF Append1
<1>4. Len(home.files[p]) < MaxLen
    BY DEF Append1
<1> DEFINE a == Append(home.files[p], e)
<1>5. a \in Body /\ IsPrefix(home.files[p], a)
    BY <1>2, <1>4, AppendGrows
<1>6. home' = [files |-> [home.files EXCEPT ![p] = a], rows |-> home.rows]
  <2>1. home' = [home EXCEPT !.files = [home.files EXCEPT ![p] = a]]
    BY <1>3
  <2> HIDE DEF p, a
  <2>2. home = [files |-> home.files, rows |-> home.rows]
    BY <1>1, HomeParts
  <2> DEFINE f == [home.files EXCEPT ![p] = a]
  <2>3. home' = [home EXCEPT !.files = f]
    BY <2>1
  <2> HIDE DEF f
  <2>4. home' = [files |-> f, rows |-> home.rows]
    BY <2>2, <2>3
  <2> QED BY <2>4 DEF f
<1> HIDE DEF p, a
<1>7. home'.files = [home.files EXCEPT ![p] = a] /\ home'.rows = home.rows
    BY <1>6
<1>8. home' \in Homes
    BY <1>1, <1>2, <1>5, <1>6 DEF Homes, Files
<1>9. a # Missing
    BY <1>5, MissingAssumption DEF MissingAssumption
<1>10. \A q \in Places : home.files[q] # Missing =>
          home'.files[q] # Missing /\ IsPrefix(home.files[q], home'.files[q])
    BY <1>2, <1>5, <1>7, <1>9, PrefixSelf, FilesHold DEF Files
<1>11. \A q \in Places : home'.files[q] # Missing => home.files[q] # Missing
    BY <1>2, <1>7, MissingAssumption DEF Files, MissingAssumption
<1>12. \A u \in Threads : \A r \in Copies(home.files, u) :
          /\ r \in Copies(home'.files, u)
          /\ IsPrefix(home.files[<<u, r>>], home'.files[<<u, r>>])
    BY <1>10, PlaceParts DEF Copies
<1> QED BY <1>8, <1>10, <1>11, <1>12 DEF Evolves

LEMMA ArchiveEvolves ==
    ASSUME TypeOK, NEW t \in Threads, home.rows[t] # Missing,
           home.files[<<t, home.rows[t].slot>>] # Missing, Archive(t)
    PROVE  Evolves
<1> DEFINE from == home.rows[t].slot
<1>1. PICK to \in Archived :
          /\ from \in Active /\ home.files[<<t, to>>] = Missing
          /\ home' = [files |-> [home.files EXCEPT ![<<t, from>>] = Missing,
                                   ![<<t, to>>] = home.files[<<t, from>>]],
                      rows |-> [home.rows EXCEPT ![t] =
                                  [slot |-> to, archived |-> TRUE]]]
    BY DEF Archive
<1> DEFINE p == <<t, from>>
           q == <<t, to>>
<1>2. home \in Homes /\ home.files \in Files /\ home.rows \in Rows
    BY HomeParts DEF TypeOK, Homes
<1>3. p \in Places /\ q \in Places /\ p # q /\ q[2] \in Archived /\ p[2] \notin Archived
      /\ q[2] \notin Active
    BY <1>1, PlaceParts, ConflictAssumption DEF Slots, ConflictAssumption
<1>4. home.files[p] \in Body /\ home.files[p] # Missing /\ home.files[q] = Missing
    BY <1>1, <1>2, <1>3, FilesHold
<1>5. /\ home'.files = [home.files EXCEPT ![p] = Missing, ![q] = home.files[p]]
      /\ home'.rows = [home.rows EXCEPT ![t] = [slot |-> to, archived |-> TRUE]]
      /\ home' = [files |-> home'.files, rows |-> home'.rows]
    BY <1>1
<1>6. [slot |-> to, archived |-> TRUE] \in Row
    BY DEF Row, Slots
<1> HIDE DEF p, q
<1>7. home'.files \in Files
    BY <1>2, <1>3, <1>4, <1>5 DEF Files
<1>8. home'.rows \in Rows
    BY <1>2, <1>5, <1>6 DEF Rows
<1>9. home' \in Homes
    BY <1>5, <1>7, <1>8 DEF Homes
<1>10. home'.files[p] = Missing /\ home'.files[q] = home.files[p]
    BY <1>2, <1>3, <1>5 DEF Files
<1>11. \A r \in Places : r # p /\ r # q => home'.files[r] = home.files[r]
    BY <1>2, <1>5 DEF Files
<1>12. \A r \in Places : r # p /\ home.files[r] # Missing =>
          home'.files[r] = home.files[r] /\ IsPrefix(home.files[r], home'.files[r])
    BY <1>2, <1>4, <1>11, PrefixSelf, FilesHold
<1>13. \A r \in Places : r # q /\ home'.files[r] # Missing =>
          home.files[r] # Missing /\ IsPrefix(home.files[r], home'.files[r])
    BY <1>10, <1>11, <1>12
<1>14. ASSUME NEW u \in Threads, NEW r \in Copies(home.files, u)
       PROVE  \E z \in Copies(home'.files, u) :
             /\ IsPrefix(home.files[<<u, r>>], home'.files[<<u, z>>])
             /\ z = r \/ (z \in Archived /\ home.files[<<u, z>>] = Missing)
  <2>1. r \in Slots /\ <<u, r>> \in Places /\ home.files[<<u, r>>] # Missing
    BY <1>14, PlaceParts DEF Copies
  <2>2. CASE <<u, r>> # p
    <3>1. r \in Copies(home'.files, u)
        BY <1>12, <2>1, <2>2 DEF Copies
    <3> QED BY <1>12, <2>1, <2>2, <3>1
  <2>3. CASE <<u, r>> = p
    <3>1. u = t /\ to \in Slots
        BY <2>3 DEF p, Slots
    <3>2. home'.files[<<u, to>>] = home.files[<<u, r>>]
        BY <1>10, <2>3, <3>1 DEF q
    <3>3. IsPrefix(home.files[<<u, r>>], home'.files[<<u, to>>])
        BY <1>4, <2>3, <3>2, PrefixSelf
    <3>4. to \in Copies(home'.files, u)
        BY <2>1, <3>1, <3>2 DEF Copies
    <3> QED BY <1>4, <3>1, <3>3, <3>4 DEF q
  <2> QED BY <2>2, <2>3
<1> QED BY <1>3, <1>9, <1>12, <1>13, <1>14 DEF Evolves

LEMMA CodexEvolves ==
    ASSUME TypeOK, CodexWrites
    PROVE  Evolves
BY AppendEvolves, ArchiveEvolves DEF CodexWrites

-----------------------------------------------------------------------------
(* The resolution, one action at a time *)

LEMMA JobParts ==
    ASSUME job \in Jobs
    PROVE  /\ job.copied \in Files /\ job.todo \subseteq Places
           /\ job.before \in Homes \cup {Missing}
           /\ job.moved \in BOOLEAN /\ job.committed \in BOOLEAN /\ job.bad \in BOOLEAN
           /\ job.at \in Places \cup {Missing}
BY DEF Jobs

\* The choice of a resolution is made once.
SameChoice ==
    /\ job'.keep = job.keep /\ job'.begin = job.begin /\ job'.shown = job.shown
    /\ job'.copied = job.copied

LEMMA OthersStay ==
    ASSUME SameChoice
    PROVE  Others' = Others /\ Repointed' = Repointed
BY DEF SameChoice, Others, Repointed

LEMMA OthersArePlaces == Others \subseteq Places
BY DEF Others

\* What is at home, or in quarantine, stays there.
LEMMA SurviveStays ==
    ASSUME SurviveInv, home' = home, quarantine \subseteq quarantine', original' = original,
           pc' # "unlink", UNCHANGED torn
    PROVE  SurviveInv'
BY DEF SurviveInv, AtHome, Aside

LEMMA EvolvesGrown ==
    ASSUME TypeOK, pc # "idle", Evolves, Grown(home), UNCHANGED job
    PROVE  Grown(home)'
<1>1. home \in Homes /\ home' \in Homes /\ job.begin \in Homes
    BY DEF TypeOK, Evolves
<1>2. SUFFICES ASSUME NEW p \in Places, job.begin.files[p] # Missing
               PROVE  /\ home'.files[p] # Missing =>
                            IsPrefix(job.begin.files[p], home'.files[p])
                      /\ p[2] \in Archived => home'.files[p] # Missing
    BY DEF Grown
<1>3. job.begin.files[p] \in Body /\ (home.files[p] # Missing => home.files[p] \in Body)
      /\ (home'.files[p] # Missing => home'.files[p] \in Body)
    BY <1>1, <1>2, HomeParts
<1>4. /\ home.files[p] # Missing => IsPrefix(job.begin.files[p], home.files[p])
      /\ p[2] \in Archived => home.files[p] # Missing
    BY <1>2 DEF Grown
<1>5. CASE p[2] \in Archived
    BY <1>3, <1>4, <1>5, PrefixTransitive DEF Evolves
<1>6. CASE p[2] \in Active
  <2>1. p[2] \notin Archived
    BY <1>6, ConflictAssumption DEF ConflictAssumption
  <2> QED BY <1>3, <1>4, <1>6, <2>1, PrefixTransitive DEF Evolves
<1> QED BY <1>5, <1>6, PlaceIsPair DEF Slots

LEMMA EvolvesSurvive ==
    ASSUME TypeOK, SurviveInv, Evolves, UNCHANGED <<pc, job, quarantine, original, torn>>
    PROVE  SurviveInv'
<1>1. home \in Homes /\ home' \in Homes /\ original \in Files
    BY DEF TypeOK, Evolves
<1>2. (pc = "unlink" /\ job.at[2] \in Archived => home.files[job.at] # Missing)'
    BY DEF SurviveInv, Evolves, TypeOK
<1>3. ASSUME NEW t \in Threads, NEW s \in Slots, original[<<t, s>>] # Missing,
             AtHome(t, original[<<t, s>>])
      PROVE  AtHome(t, original[<<t, s>>])'
  <2> DEFINE o == original[<<t, s>>]
  <2>1. o \in Body
    BY <1>1, <1>3, PlaceParts, FilesHold
  <2> HIDE DEF o
  <2>2. PICK r \in Copies(home.files, t) :
           IsPrefix(o, home.files[<<t, r>>]) /\ ~ (pc = "unlink" /\ job.at = <<t, r>>)
    BY <1>3 DEF AtHome, o
  <2>3. PICK q \in Copies(home'.files, t) :
             /\ IsPrefix(home.files[<<t, r>>], home'.files[<<t, q>>])
             /\ q = r \/ (q \in Archived /\ home.files[<<t, q>>] = Missing)
    BY DEF Evolves
  <2>4. home.files[<<t, r>>] \in Body /\ home'.files[<<t, q>>] \in Body
    BY <1>1, PlaceParts, HomeParts DEF Copies
  <2>5. IsPrefix(o, home'.files[<<t, q>>])
    BY <2>1, <2>2, <2>3, <2>4, PrefixTransitive
  <2>6. ~ (pc' = "unlink" /\ job'.at = <<t, q>>)
    BY <2>2, <2>3, PlaceParts DEF SurviveInv, Slots
  <2> QED BY <2>3, <2>5, <2>6 DEF AtHome, o
<1>4. \A t \in Threads : \A s \in Slots :
         Aside(t, original[<<t, s>>]) => Aside(t, original[<<t, s>>])'
    BY DEF Aside
<1> QED BY <1>2, <1>3, <1>4 DEF SurviveInv

\* A copy that begins with a body of the beginning goes on to do so.
LEMMA EvolvesKeeps ==
    ASSUME TypeOK, Evolves, NEW t \in Threads, NEW b \in Body,
           \E r \in Copies(home.files, t) : IsPrefix(b, home.files[<<t, r>>])
    PROVE  \E r \in Copies(home'.files, t) : IsPrefix(b, home'.files[<<t, r>>])
<1>1. home \in Homes /\ home' \in Homes
    BY DEF TypeOK, Evolves
<1>2. PICK r \in Copies(home.files, t) : IsPrefix(b, home.files[<<t, r>>])
    OBVIOUS
<1>3. PICK q \in Copies(home'.files, t) :
             IsPrefix(home.files[<<t, r>>], home'.files[<<t, q>>])
    BY DEF Evolves
<1>4. home.files[<<t, r>>] \in Body /\ home'.files[<<t, q>>] \in Body
    BY <1>1, PlaceParts, HomeParts DEF Copies
<1> QED BY <1>2, <1>3, <1>4, PrefixTransitive

LEMMA CodexWritesKeeps ==
    ASSUME ConflictInv, CodexWrites, UNCHANGED torn
    PROVE  ConflictInv'
<1>1. Evolves /\ UNCHANGED <<codex, report, cold, quarantine, pc, job, said, jobs, starts,
                             original, raced>>
    BY CodexEvolves DEF ConflictInv, CodexWrites
<1>2. TypeOK'
    BY <1>1 DEF ConflictInv, TypeOK, Evolves
<1>3. SurviveInv'
    BY <1>1, EvolvesSurvive DEF ConflictInv
<1>4. ChoiceInv'
  <2>1. CASE pc = "idle"
    BY <1>1, <2>1 DEF ChoiceInv
  <2>2. CASE pc # "idle"
    <3>1. Others' = Others /\ Succeeded' = Succeeded
        BY <1>1 DEF Others, Succeeded
    <3>2. pc \in Reading => Grown(home)'
        BY <1>1, <2>2, EvolvesGrown DEF ConflictInv, ChoiceInv
    <3>3. job.before # Missing => Grown(job.before)'
        BY <1>1, <2>2 DEF ConflictInv, ChoiceInv, Grown
    <3>4. ASSUME pc \in {"complete", "log"} \/ Succeeded, NEW t \in DOMAIN job.keep,
                 job.begin.files[<<t, job.keep[t]>>] # Missing
          PROVE  \E r \in Copies(home'.files, t) :
                    IsPrefix(job.begin.files[<<t, job.keep[t]>>], home'.files[<<t, r>>])
      <4>1. t \in Threads /\ job.begin.files[<<t, job.keep[t]>>] \in Body
        BY <2>2, <3>4, PlaceParts, HomeParts DEF ConflictInv, TypeOK
      <4>2. \E r \in Copies(home.files, t) :
                IsPrefix(job.begin.files[<<t, job.keep[t]>>], home.files[<<t, r>>])
        BY <2>2, <3>4 DEF ConflictInv, ChoiceInv
      <4> QED BY <1>1, <4>1, <4>2, EvolvesKeeps DEF ConflictInv
    <3> QED BY <1>1, <2>2, <3>1, <3>2, <3>3, <3>4 DEF ConflictInv, ChoiceInv
  <2> QED BY <2>1, <2>2
<1>5. QuietInv'
    BY <1>1 DEF ConflictInv, QuietInv, CodexWrites
<1>6. FlagInv'
    BY <1>1 DEF ConflictInv, FlagInv
<1> QED BY <1>2, <1>3, <1>4, <1>5, <1>6 DEF ConflictInv

LEMMA StartCodexKeeps ==
    ASSUME ConflictInv, StartCodex, UNCHANGED torn
    PROVE  ConflictInv'
<1>1. /\ codex' = TRUE /\ starts' = starts + 1 /\ raced' = (pc # "idle") /\ starts < MaxStarts
      /\ UNCHANGED <<home, report, cold, quarantine, pc, job, said, jobs, original>>
    BY DEF StartCodex
<1>2. starts' \in 0..MaxStarts
  <2>1. starts \in Nat /\ starts \in 0..MaxStarts /\ MaxStarts \in Nat
    BY ConflictAssumption DEF ConflictInv, TypeOK, ConflictAssumption
  <2> QED BY <1>1, <2>1
<1>3. TypeOK'
    BY <1>1, <1>2 DEF ConflictInv, TypeOK
<1>4. SurviveInv'
    BY <1>1 DEF ConflictInv, SurviveInv, AtHome, Aside
<1>5. ChoiceInv'
    BY <1>1 DEF ConflictInv, ChoiceInv, Others, Succeeded, Grown
<1>6. QuietInv'
    BY <1>1 DEF ConflictInv, QuietInv
<1>7. FlagInv'
    BY <1>1 DEF ConflictInv, FlagInv
<1> QED BY <1>3, <1>4, <1>5, <1>6, <1>7 DEF ConflictInv

LEMMA ReportKeeps ==
    ASSUME ConflictInv, Report, UNCHANGED torn
    PROVE  ConflictInv'
<1>1. /\ pc = "idle" /\ report' = home
      /\ UNCHANGED <<home, codex, cold, quarantine, pc, job, said, jobs, starts,
                     original, raced>>
    BY DEF Report
<1>2. TypeOK'
    BY <1>1 DEF ConflictInv, TypeOK
<1>3. SurviveInv'
    BY <1>1, SurviveStays DEF ConflictInv
<1> QED BY <1>1, <1>2, <1>3 DEF ConflictInv, ChoiceInv, QuietInv, FlagInv, Reading, Placed

LEMMA ResolveKeeps ==
    ASSUME ConflictInv, Resolve, UNCHANGED torn
    PROVE  ConflictInv'
<1>1. /\ pc = "idle" /\ pc' = "backup" /\ codex' = FALSE /\ jobs < MaxJobs
      /\ jobs' = jobs + 1 /\ said' = "none" /\ raced' = FALSE
      /\ UNCHANGED <<home, report, cold, quarantine, starts, original>>
    BY DEF Resolve
<1>2. PICK given \in {report, Missing} :
        \E sel \in [IF given = Missing THEN {} ELSE Manual(given) -> Slots] :
          /\ \A t \in DOMAIN sel : given.files[<<t, sel[t]>>] # Missing
          /\ Accepts(given, sel)
          /\ job' = [NoJob EXCEPT
                       !.keep = [t \in Divergent(home.files) |->
                                   IF t \in DOMAIN sel THEN sel[t]
                                   ELSE CHOOSE s \in Recommended(home, t) : TRUE],
                       !.begin = home,
                       !.shown = IF given = Missing THEN home ELSE given]
    BY DEF Resolve
<1>3. PICK sel \in [IF given = Missing THEN {} ELSE Manual(given) -> Slots] :
          /\ Accepts(given, sel)
          /\ job' = [NoJob EXCEPT
                       !.keep = [t \in Divergent(home.files) |->
                                   IF t \in DOMAIN sel THEN sel[t]
                                   ELSE CHOOSE s \in Recommended(home, t) : TRUE],
                       !.begin = home,
                       !.shown = IF given = Missing THEN home ELSE given]
    BY <1>2
<1> DEFINE keep == [t \in Divergent(home.files) |->
                      IF t \in DOMAIN sel THEN sel[t]
                      ELSE CHOOSE s \in Recommended(home, t) : TRUE]
           shown == IF given = Missing THEN home ELSE given
<1>4. Divergent(home.files) \subseteq Threads
    BY DEF Divergent
<1>5. DOMAIN sel = Manual(home)
    BY <1>3 DEF Accepts
<1>6. \A t \in Divergent(home.files) : keep[t] \in Slots
  <2>1. SUFFICES ASSUME NEW t \in Divergent(home.files), t \notin DOMAIN sel
                 PROVE  (CHOOSE s \in Recommended(home, t) : TRUE) \in Slots
    BY <1>3
  <2>2. Recommended(home, t) # {}
    BY <1>5, <2>1 DEF Manual
  <2> QED BY <2>2 DEF Recommended, Copies
<1>7. shown \in Homes /\ home \in Homes
    BY DEF ConflictInv, TypeOK
<1>8. \A t \in Divergent(home.files) : \A s \in Slots :
         shown.files[<<t, s>>] = home.files[<<t, s>>]
  <2>1. SUFFICES ASSUME given # Missing, NEW t \in Divergent(home.files), NEW s \in Slots
                 PROVE  given.files[<<t, s>>] = home.files[<<t, s>>]
    OBVIOUS
  <2>2. Revision(given) = Revision(home)
    BY <1>3, <2>1 DEF Accepts
  <2>3. Divergent(given.files) = Divergent(home.files)
    BY <2>2 DEF Revision
  <2>4. Revision(given)[t] = Revision(home)[t]
    BY <2>2
  <2>5. <<[r \in Slots |-> given.files[<<t, r>>]], given.rows[t]>>
          = <<[r \in Slots |-> home.files[<<t, r>>]], home.rows[t]>>
    BY <2>1, <2>3, <2>4 DEF Revision
  <2>6. [r \in Slots |-> given.files[<<t, r>>]] = [r \in Slots |-> home.files[<<t, r>>]]
    BY <2>5
  <2>7. [r \in Slots |-> given.files[<<t, r>>]][s] = [r \in Slots |-> home.files[<<t, r>>]][s]
    BY <2>6
  <2> QED BY <2>7
<1>9. /\ job'.keep = keep /\ job'.begin = home /\ job'.shown = shown
      /\ job'.before = Missing /\ job'.copied = [p \in Places |-> Missing]
      /\ job'.todo = {} /\ job'.at = Missing
      /\ job'.moved = FALSE /\ job'.committed = FALSE /\ job'.bad = FALSE
    BY <1>3 DEF NoJob
<1>10. job' = [keep |-> keep, begin |-> home, shown |-> shown, before |-> Missing,
               copied |-> [p \in Places |-> Missing], todo |-> {}, at |-> Missing,
               moved |-> FALSE, committed |-> FALSE, bad |-> FALSE]
    BY <1>3 DEF NoJob
<1>11. DOMAIN keep = Divergent(home.files) /\ keep \in [Divergent(home.files) -> Slots]
    BY <1>6
<1> HIDE DEF keep, shown
<1>12. [p \in Places |-> Missing] \in Files
    BY DEF Files
<1>13. keep \in UNION {[D -> Slots] : D \in SUBSET Threads}
    BY <1>4, <1>11
<1>14. job' \in Jobs
    BY <1>7, <1>10, <1>12, <1>13 DEF Jobs
<1>15. jobs' \in 0..MaxJobs
  <2>1. jobs \in 0..MaxJobs /\ MaxJobs \in Nat
    BY ConflictAssumption DEF ConflictInv, TypeOK, ConflictAssumption
  <2> QED BY <1>1, <2>1
<1>16. TypeOK'
    BY <1>1, <1>4, <1>6, <1>7, <1>9, <1>11, <1>14, <1>15 DEF ConflictInv, TypeOK, PCs
<1>17. SurviveInv'
    BY <1>1, SurviveStays DEF ConflictInv
<1>18. Grown(home)'
  <2>1. \A p \in Places : home.files[p] # Missing => IsPrefix(home.files[p], home.files[p])
    BY <1>7, HomeParts, PrefixSelf
  <2> QED BY <1>1, <1>9, <2>1 DEF Grown
<1>19. ChoiceInv'
  <2>1. \A p \in Others' : job'.copied[p] = Missing
    BY <1>9 DEF Others
  <2> QED BY <1>1, <1>8, <1>9, <1>11, <1>18, <2>1 DEF ChoiceInv, Reading, Placed, Succeeded
<1>20. QuietInv'
  <2>1. \A p \in Others' : job'.copied[p] = Missing
    BY <1>9 DEF Others
  <2> QED BY <1>1, <1>9, <2>1 DEF QuietInv, Reading, Placed, Succeeded
<1>21. FlagInv'
    BY <1>9 DEF FlagInv
<1> QED BY <1>16, <1>17, <1>19, <1>20, <1>21 DEF ConflictInv

LEMMA ColdBackupKeeps ==
    ASSUME ConflictInv, ColdBackup, UNCHANGED torn
    PROVE  ConflictInv'
<1>1. /\ pc = "backup" /\ pc' = "preflight" /\ cold' = home /\ codex' = FALSE
      /\ UNCHANGED <<home, report, jobs, starts, original, raced, quarantine, said, job>>
    BY DEF ColdBackup, GoTo
<1>2. TypeOK'
    BY <1>1 DEF ConflictInv, TypeOK, PCs
<1>3. SurviveInv'
    BY <1>1, SurviveStays DEF ConflictInv
<1>4. Others' = Others
    BY <1>1 DEF Others
<1>5. ChoiceInv'
    BY <1>1, <1>4 DEF ConflictInv, ChoiceInv, Grown, Reading, Placed, Succeeded
<1>6. QuietInv'
    BY <1>1, <1>4 DEF ConflictInv, QuietInv, Reading, Placed, Succeeded
<1>7. FlagInv'
    BY <1>1 DEF ConflictInv, FlagInv, Reading, Placed
<1> QED BY <1>2, <1>3, <1>5, <1>6, <1>7 DEF ConflictInv

LEMMA PreflightKeeps ==
    ASSUME ConflictInv, Preflight, UNCHANGED torn
    PROVE  ConflictInv'
<1>1. /\ pc = "preflight" /\ pc' = "prepare" /\ job' = [job EXCEPT !.before = home, !.todo = Others]
      /\ UNCHANGED <<home, codex, report, jobs, starts, original, raced, cold, quarantine, said>>
    BY DEF Preflight, GoTo, Stay, Quiet
<1>2. job' \in Jobs
    BY <1>1, OthersArePlaces DEF ConflictInv, TypeOK, Jobs
<1>3. /\ SameChoice /\ job'.before = home /\ job'.todo = Others /\ job'.bad = job.bad
      /\ job'.committed = job.committed /\ home \in Homes
    BY <1>1 DEF ConflictInv, TypeOK, Jobs, SameChoice
<1>4. Others' = Others
    BY <1>3, OthersStay
<1>5. TypeOK'
    BY <1>1, <1>2, <1>3 DEF ConflictInv, TypeOK, PCs, SameChoice
<1>6. SurviveInv'
    BY <1>1, SurviveStays DEF ConflictInv
<1>7. ChoiceInv'
    BY <1>1, <1>3, <1>4 DEF ConflictInv, ChoiceInv, Grown, Reading, Placed, Succeeded, SameChoice
<1>8. QuietInv'
    BY <1>1, <1>3, <1>4 DEF ConflictInv, QuietInv, Reading, Placed, Succeeded, SameChoice
<1>9. FlagInv'
    BY <1>1, <1>3 DEF ConflictInv, FlagInv, Reading, Placed
<1> QED BY <1>5, <1>6, <1>7, <1>8, <1>9 DEF ConflictInv

LEMMA PrepareCopyKeeps ==
    ASSUME ConflictInv, PrepareCopy, UNCHANGED torn
    PROVE  ConflictInv'
<1>1. PICK p \in job.todo :
          /\ home.files[p] # Missing
          /\ quarantine' = quarantine \cup {<<p, home.files[p]>>}
          /\ job' = [job EXCEPT !.copied[p] = home.files[p], !.todo = @ \ {p}]
    BY DEF PrepareCopy, GoTo
<1>2. /\ pc = "prepare" /\ pc' = "prepare"
      /\ UNCHANGED <<home, codex, report, jobs, starts, original, raced, cold, said>>
    BY DEF PrepareCopy, GoTo, Stay
<1>3. p \in Others /\ p \in Places /\ home.files[p] \in Body /\ job.copied \in Files
      /\ home \in Homes
    BY <1>1, <1>2, HomeParts, JobParts DEF ConflictInv, TypeOK, ChoiceInv, Others
<1>4. job' \in Jobs
    BY <1>1, <1>3 DEF ConflictInv, TypeOK, Jobs, Files
<1>5. /\ job'.keep = job.keep /\ job'.begin = job.begin /\ job'.shown = job.shown
      /\ job'.before = job.before /\ job'.bad = job.bad /\ job'.committed = job.committed
      /\ job'.todo = job.todo \ {p} /\ job'.copied = [job.copied EXCEPT ![p] = home.files[p]]
    BY <1>1 DEF ConflictInv, TypeOK, Jobs
<1>6. Others' = Others
    BY <1>5 DEF Others
<1>7. /\ job'.copied[p] = home.files[p]
      /\ \A q \in Places : q # p => job'.copied[q] = job.copied[q]
    BY <1>3, <1>5 DEF Files
<1>8. TypeOK'
    BY <1>1, <1>2, <1>3, <1>4, <1>5 DEF ConflictInv, TypeOK, PCs
<1>9. SurviveInv'
    BY <1>1, <1>2, SurviveStays DEF ConflictInv
<1>10. IsPrefix(job.begin.files[p], home.files[p])
    BY <1>1, <1>2, <1>3 DEF ConflictInv, ChoiceInv, Grown, Others, Reading
<1>11. ChoiceInv'
  <2>1. (job.before # Missing => Grown(job.before))' /\ Grown(home)'
    BY <1>2, <1>5 DEF ConflictInv, ChoiceInv, Grown, Reading
  <2>2. \A q \in Others : job'.copied[q] # Missing =>
             /\ IsPrefix(job.begin.files[q], job'.copied[q])
             /\ <<q, job'.copied[q]>> \in quarantine'
    BY <1>1, <1>2, <1>7, <1>10, OthersArePlaces DEF ConflictInv, ChoiceInv
  <2>3. \A q \in Others \ job'.todo : job'.copied[q] # Missing
    BY <1>1, <1>2, <1>5, <1>7, OthersArePlaces DEF ConflictInv, ChoiceInv
  <2> QED BY <1>2, <1>5, <1>6, <2>1, <2>2, <2>3 DEF ConflictInv, ChoiceInv, Placed, Succeeded
<1>12. QuietInv'
  <2>1. ~ raced => \A q \in Others : job'.copied[q] \in {Missing, job.begin.files[q]}
    BY <1>2, <1>7, OthersArePlaces DEF ConflictInv, QuietInv, Reading
  <2> QED BY <1>2, <1>5, <1>6, <2>1 DEF ConflictInv, QuietInv, Placed, Succeeded
<1>13. FlagInv'
    BY <1>2, <1>5 DEF ConflictInv, FlagInv
<1> QED BY <1>8, <1>9, <1>11, <1>12, <1>13 DEF ConflictInv

LEMMA PreparedKeeps ==
    ASSUME ConflictInv, Prepared, UNCHANGED torn
    PROVE  ConflictInv'
<1>1. /\ pc = "prepare" /\ pc' = "apply" /\ job.todo = {} /\ job' = [job EXCEPT !.todo = Others]
      /\ UNCHANGED <<home, codex, report, jobs, starts, original, raced, cold, quarantine, said>>
    BY DEF Prepared, GoTo, Stay, Quiet
<1>2. job' \in Jobs
    BY <1>1, OthersArePlaces DEF ConflictInv, TypeOK, Jobs
<1>3. /\ SameChoice /\ job'.before = job.before /\ job'.todo = Others /\ job'.bad = job.bad
      /\ job'.committed = job.committed
    BY <1>1 DEF ConflictInv, TypeOK, Jobs, SameChoice
<1>4. Others' = Others
    BY <1>3, OthersStay
<1>5. TypeOK'
    BY <1>1, <1>2, <1>3 DEF ConflictInv, TypeOK, PCs, SameChoice
<1>6. SurviveInv'
    BY <1>1, SurviveStays DEF ConflictInv
<1>7. ChoiceInv'
    BY <1>1, <1>3, <1>4 DEF ConflictInv, ChoiceInv, Grown, Reading, Placed, Succeeded, SameChoice
<1>8. QuietInv'
    BY <1>1, <1>3, <1>4 DEF ConflictInv, QuietInv, Reading, Placed, Succeeded, SameChoice
<1>9. FlagInv'
    BY <1>1, <1>3 DEF ConflictInv, FlagInv, Reading, Placed
<1> QED BY <1>5, <1>6, <1>7, <1>8, <1>9 DEF ConflictInv

LEMMA ApplyCheckKeeps ==
    ASSUME ConflictInv, ApplyCheck, UNCHANGED torn
    PROVE  ConflictInv'
<1>1. PICK p \in job.todo :
          home.files[p] = job.copied[p] /\ job' = [job EXCEPT !.at = p, !.moved = TRUE]
    BY DEF ApplyCheck, GoTo
<1>2. /\ pc = "apply" /\ pc' = "unlink"
      /\ UNCHANGED <<home, codex, report, jobs, starts, original, raced, cold, quarantine, said>>
    BY DEF ApplyCheck, GoTo, Stay, Quiet
<1>3. p \in Others /\ p \in Places /\ home \in Homes /\ original \in Files
    BY <1>1, <1>2, OthersArePlaces DEF ConflictInv, ChoiceInv, Placed, TypeOK
<1>4. job' \in Jobs
    BY <1>1, <1>3 DEF ConflictInv, TypeOK, Jobs
<1>5. /\ SameChoice /\ job'.before = job.before /\ job'.todo = job.todo /\ job'.bad = job.bad
      /\ job'.committed = job.committed /\ job'.at = p
    BY <1>1 DEF ConflictInv, TypeOK, Jobs, SameChoice
<1>6. Others' = Others
    BY <1>5, OthersStay
<1>7. TypeOK'
    BY <1>2, <1>3, <1>4, <1>5 DEF ConflictInv, TypeOK, PCs, SameChoice
<1>8. home.files[p] # Missing /\ <<p, home.files[p]>> \in quarantine
    BY <1>1, <1>2, <1>3 DEF ConflictInv, ChoiceInv, Placed
<1>9. SurviveInv'
  <2>1. ASSUME ~ torn, NEW t \in Threads, NEW s \in Slots, original[<<t, s>>] # Missing
        PROVE  AtHome(t, original[<<t, s>>])' \/ Aside(t, original[<<t, s>>])'
    <3>1. CASE Aside(t, original[<<t, s>>])
        BY <1>2, <3>1 DEF Aside
    <3>2. CASE AtHome(t, original[<<t, s>>])
      <4>1. PICK r \in Copies(home.files, t) : IsPrefix(original[<<t, s>>], home.files[<<t, r>>])
        BY <3>2 DEF AtHome
      <4>2. CASE p = <<t, r>>
        <5>1. <<p, home.files[p]>>[1][1] = t /\ IsPrefix(original[<<t, s>>], <<p, home.files[p]>>[2])
            BY <4>1, <4>2
        <5> QED BY <1>2, <1>8, <5>1 DEF Aside
      <4>3. CASE p # <<t, r>>
        BY <1>2, <1>5, <4>1, <4>3 DEF AtHome
      <4> QED BY <4>2, <4>3
    <3> QED BY <2>1, <3>1, <3>2 DEF ConflictInv, SurviveInv
  <2> QED BY <1>2, <1>5, <1>8, <2>1 DEF SurviveInv
<1>10. ChoiceInv'
    BY <1>2, <1>3, <1>5, <1>6 DEF ConflictInv, ChoiceInv, Grown, Reading, Placed, Succeeded, SameChoice
<1>11. QuietInv'
    BY <1>2, <1>5, <1>6 DEF ConflictInv, QuietInv, Reading, Placed, Succeeded, SameChoice
<1>12. FlagInv'
    BY <1>2, <1>5 DEF ConflictInv, FlagInv, Reading, Placed
<1> QED BY <1>7, <1>9, <1>10, <1>11, <1>12 DEF ConflictInv

\* One file or one row changes and the rest of the home stays.
LEMMA FileChanges ==
    ASSUME NEW h \in Homes, NEW p \in Places, NEW b \in Body \cup {Missing}
    PROVE  /\ [h EXCEPT !.files[p] = b] \in Homes
           /\ [h EXCEPT !.files[p] = b].rows = h.rows
           /\ [h EXCEPT !.files[p] = b].files[p] = b
           /\ \A q \in Places : q # p => [h EXCEPT !.files[p] = b].files[q] = h.files[q]
<1> DEFINE f == [h.files EXCEPT ![p] = b]
<1>1. f \in Files /\ f[p] = b /\ \A q \in Places : q # p => f[q] = h.files[q]
    BY HomeParts DEF Files
<1>2. [h EXCEPT !.files[p] = b] = [h EXCEPT !.files = f]
    OBVIOUS
<1> HIDE DEF f
<1>3. [h EXCEPT !.files = f] = [files |-> f, rows |-> h.rows]
    BY HomeParts
<1>4. [files |-> f, rows |-> h.rows] \in Homes
    BY <1>1 DEF Homes
<1> QED BY <1>1, <1>2, <1>3, <1>4

LEMMA RowsChange ==
    ASSUME NEW h \in Homes, NEW r \in Rows
    PROVE  /\ [h EXCEPT !.rows = r] \in Homes
           /\ [h EXCEPT !.rows = r].files = h.files
           /\ [h EXCEPT !.rows = r].rows = r
BY DEF Homes

LEMMA UnlinkKeeps ==
    ASSUME ConflictInv, Unlink, UNCHANGED torn
    PROVE  ConflictInv'
<1> DEFINE p == job.at
<1>1. /\ pc = "unlink" /\ home.files[p] # Missing /\ pc' = "apply"
      /\ home' = [home EXCEPT !.files[p] = Missing]
      /\ job' = [job EXCEPT !.todo = @ \ {job.at}]
      /\ UNCHANGED <<codex, report, jobs, starts, original, raced, cold, quarantine, said>>
    BY DEF Unlink, GoTo, Stay, Quiet
<1>2. p \in Places /\ home \in Homes /\ original \in Files
    BY <1>1 DEF ConflictInv, TypeOK
<1>3. job' \in Jobs
    BY <1>1 DEF ConflictInv, TypeOK, Jobs
<1>4. /\ SameChoice /\ job'.before = job.before /\ job'.todo = job.todo \ {p} /\ job'.bad = job.bad
      /\ job'.committed = job.committed /\ job'.at = p
    BY <1>1 DEF ConflictInv, TypeOK, Jobs, SameChoice
<1>5. Others' = Others
    BY <1>4, OthersStay
<1> HIDE DEF p
<1>6. /\ home' \in Homes /\ home'.rows = home.rows /\ home'.files[p] = Missing
      /\ \A q \in Places : q # p => home'.files[q] = home.files[q]
    BY <1>1, <1>2, FileChanges
<1>7. TypeOK'
    BY <1>1, <1>3, <1>4, <1>6 DEF ConflictInv, TypeOK, PCs, SameChoice
<1>8. SurviveInv'
  <2>1. ASSUME ~ torn, NEW t \in Threads, NEW s \in Slots, original[<<t, s>>] # Missing
        PROVE  AtHome(t, original[<<t, s>>])' \/ Aside(t, original[<<t, s>>])'
    <3>1. CASE Aside(t, original[<<t, s>>])
        BY <1>1, <3>1 DEF Aside
    <3>2. CASE AtHome(t, original[<<t, s>>])
      <4>1. PICK r \in Copies(home.files, t) :
               IsPrefix(original[<<t, s>>], home.files[<<t, r>>]) /\ p # <<t, r>>
        BY <1>1, <3>2 DEF AtHome, p
      <4>2. home'.files[<<t, r>>] = home.files[<<t, r>>] /\ r \in Slots
        BY <1>6, <4>1, PlaceParts DEF Copies
      <4>3. r \in Copies(home'.files, t)
        BY <4>1, <4>2 DEF Copies
      <4> QED BY <1>1, <4>1, <4>2, <4>3 DEF AtHome
    <3> QED BY <2>1, <3>1, <3>2 DEF ConflictInv, SurviveInv
  <2> QED BY <1>1, <2>1 DEF SurviveInv
<1>9. ChoiceInv'
    BY <1>1, <1>4, <1>5 DEF ConflictInv, ChoiceInv, Grown, Reading, Placed, Succeeded, SameChoice
<1>10. QuietInv'
  <2>1. SUFFICES ASSUME ~ raced PROVE QuietInv'
    BY <1>1 DEF QuietInv
  <2>2. p \in Others
    BY <1>1 DEF ConflictInv, ChoiceInv, p
  <2>3. job.copied[p] # Missing
    BY <1>1, <2>2 DEF ConflictInv, ChoiceInv, Placed
  <2>4. ~ job.bad
    BY <1>1 DEF ConflictInv, FlagInv, Placed
  <2>5. \A q \in Places :
           \/ home'.files[q] = job.begin.files[q]
           \/ home'.files[q] = Missing /\ q \in Others /\ job.copied[q] # Missing
    BY <1>1, <1>6, <2>1, <2>2, <2>3, <2>4 DEF ConflictInv, QuietInv, Placed
  <2> QED BY <1>1, <1>4, <1>5, <1>6, <2>1, <2>5
          DEF ConflictInv, QuietInv, Reading, Placed, Succeeded, SameChoice
<1>11. FlagInv'
    BY <1>1, <1>4 DEF ConflictInv, FlagInv, Reading, Placed
<1> QED BY <1>7, <1>8, <1>9, <1>10, <1>11 DEF ConflictInv

LEMMA AppliedKeeps ==
    ASSUME ConflictInv, Applied, UNCHANGED torn
    PROVE  ConflictInv'
<1>1. /\ pc = "apply" /\ pc' \in {"verify", "database"}
      /\ UNCHANGED <<home, codex, report, jobs, starts, original, raced, cold, quarantine, said, job>>
    BY DEF Applied, GoTo, Stay, Quiet
<1>2. Others' = Others
    BY <1>1 DEF Others
<1>3. TypeOK'
    BY <1>1 DEF ConflictInv, TypeOK, PCs
<1>4. SurviveInv'
    BY <1>1, SurviveStays DEF ConflictInv
<1>5. ChoiceInv'
    BY <1>1, <1>2 DEF ConflictInv, ChoiceInv, Grown, Reading, Placed, Succeeded
<1>6. QuietInv'
    BY <1>1, <1>2 DEF ConflictInv, QuietInv, Reading, Placed, Succeeded
<1>7. FlagInv'
    BY <1>1 DEF ConflictInv, FlagInv, Reading, Placed
<1> QED BY <1>3, <1>4, <1>5, <1>6, <1>7 DEF ConflictInv

LEMMA AfterIsRows ==
    ASSUME TypeOK, pc # "idle", NEW r \in Rows
    PROVE  After(r) \in Rows
<1>1. \A t \in Repointed : [slot |-> job.keep[t], archived |-> job.keep[t] \in Archived] \in Row
    BY DEF TypeOK, Repointed, Row
<1> QED BY <1>1 DEF After, Rows

\* The rows change; what was found at home is found there still.
LEMMA SurviveRows ==
    ASSUME SurviveInv, UNCHANGED torn, home'.files = home.files, quarantine' = quarantine,
           original' = original, pc' # "unlink"
    PROVE  SurviveInv'
BY DEF SurviveInv, AtHome, Aside

LEMMA DatabaseKeeps ==
    ASSUME ConflictInv, Database, UNCHANGED torn
    PROVE  ConflictInv'
<1>1. /\ pc = "database" /\ pc' = "verify" /\ home' = [home EXCEPT !.rows = After(home.rows)]
      /\ job' = [job EXCEPT !.committed = TRUE]
      /\ UNCHANGED <<codex, report, jobs, starts, original, raced, cold, quarantine, said>>
    BY DEF Database, GoTo, Stay, Quiet
<1>2. home \in Homes /\ After(home.rows) \in Rows
    BY <1>1, AfterIsRows DEF ConflictInv, TypeOK, Homes
<1>3. home' \in Homes /\ home'.files = home.files
    BY <1>1, <1>2, RowsChange
<1>4. job' \in Jobs
    BY <1>1 DEF ConflictInv, TypeOK, Jobs
<1>5. /\ SameChoice /\ job'.before = job.before /\ job'.todo = job.todo /\ job'.bad = job.bad
      /\ job'.committed = TRUE
    BY <1>1 DEF ConflictInv, TypeOK, Jobs, SameChoice
<1>6. Others' = Others
    BY <1>5, OthersStay
<1>7. TypeOK'
    BY <1>1, <1>3, <1>4, <1>5 DEF ConflictInv, TypeOK, PCs, SameChoice
<1>8. SurviveInv'
    BY <1>1, <1>3, SurviveRows DEF ConflictInv
<1>9. ChoiceInv'
    BY <1>1, <1>5, <1>6 DEF ConflictInv, ChoiceInv, Grown, Reading, Placed, Succeeded, SameChoice
<1>10. QuietInv'
    BY <1>1, <1>3, <1>5, <1>6 DEF ConflictInv, QuietInv, Reading, Placed, Succeeded, SameChoice
<1>11. FlagInv'
    BY <1>1, <1>5 DEF ConflictInv, FlagInv, Reading, Placed
<1> QED BY <1>7, <1>8, <1>9, <1>10, <1>11 DEF ConflictInv

LEMMA VerifyKeeps ==
    ASSUME ConflictInv, Verify, UNCHANGED torn
    PROVE  ConflictInv'
<1>1. /\ pc = "verify" /\ pc' = "complete" /\ Sound
      /\ UNCHANGED <<home, codex, report, jobs, starts, original, raced, cold, quarantine, said, job>>
    BY DEF Verify, GoTo, Stay, Quiet
<1>2. Others' = Others /\ Sound' = Sound
    BY <1>1 DEF Others, Sound, After, Repointed
<1>3. TypeOK'
    BY <1>1 DEF ConflictInv, TypeOK, PCs
<1>4. SurviveInv'
    BY <1>1, SurviveStays DEF ConflictInv
<1>5. job.before \in Homes /\ job.before # Missing
    BY <1>1, MissingAssumption DEF ConflictInv, TypeOK, MissingAssumption
<1>6. ASSUME NEW t \in DOMAIN job.keep, job.begin.files[<<t, job.keep[t]>>] # Missing
      PROVE  \E r \in Copies(home.files, t) :
                IsPrefix(job.begin.files[<<t, job.keep[t]>>], home.files[<<t, r>>])
  <2> DEFINE p == <<t, job.keep[t]>>
  <2>1. t \in Threads /\ job.keep[t] \in Slots /\ p \in Places /\ p \notin Others
    BY <1>1, PlaceParts DEF ConflictInv, TypeOK, Others
  <2>2. home.files[p] # Missing /\ home.files[p] = job.before.files[p]
    BY <1>1, <1>6, <2>1 DEF Sound
  <2>3. IsPrefix(job.begin.files[p], job.before.files[p])
    BY <1>1, <1>5, <1>6, <2>1, <2>2 DEF ConflictInv, ChoiceInv, Grown
  <2> QED BY <2>1, <2>2, <2>3 DEF Copies
<1>7. ChoiceInv'
    BY <1>1, <1>2, <1>6 DEF ConflictInv, ChoiceInv, Grown, Reading, Placed, Succeeded
<1>8. QuietInv'
    BY <1>1, <1>2, <1>5 DEF ConflictInv, QuietInv, Reading, Placed, Succeeded
<1>9. FlagInv'
    BY <1>1 DEF ConflictInv, FlagInv, Reading, Placed
<1> QED BY <1>3, <1>4, <1>7, <1>8, <1>9 DEF ConflictInv

LEMMA CompleteKeeps ==
    ASSUME ConflictInv, Complete, UNCHANGED torn
    PROVE  ConflictInv'
<1>1. /\ pc = "complete" /\ pc' = "log"
      /\ UNCHANGED <<home, codex, report, jobs, starts, original, raced, cold, quarantine, said, job>>
    BY DEF Complete, GoTo, Stay, Quiet
<1>2. Others' = Others /\ Sound' = Sound
    BY <1>1 DEF Others, Sound, After, Repointed
<1>3. TypeOK'
    BY <1>1 DEF ConflictInv, TypeOK, PCs
<1>4. SurviveInv'
    BY <1>1, SurviveStays DEF ConflictInv
<1>5. ChoiceInv'
    BY <1>1, <1>2 DEF ConflictInv, ChoiceInv, Grown, Reading, Placed, Succeeded
<1>6. QuietInv'
    BY <1>1, <1>2 DEF ConflictInv, QuietInv, Reading, Placed, Succeeded
<1>7. FlagInv'
    BY <1>1 DEF ConflictInv, FlagInv, Reading, Placed
<1> QED BY <1>3, <1>4, <1>5, <1>6, <1>7 DEF ConflictInv

LEMMA LogKeeps ==
    ASSUME ConflictInv, Log, UNCHANGED torn
    PROVE  ConflictInv'
<1>1. /\ pc = "log" /\ pc' = "ended" /\ said' \in {"resolved", "unrecorded"}
      /\ UNCHANGED <<home, codex, report, jobs, starts, original, raced, cold, quarantine, job>>
    BY DEF Log, Ends, Stay
<1>2. Others' = Others /\ Sound' = Sound
    BY <1>1 DEF Others, Sound, After, Repointed
<1>3. TypeOK'
    BY <1>1 DEF ConflictInv, TypeOK, PCs
<1>4. SurviveInv'
    BY <1>1, SurviveStays DEF ConflictInv
<1>5. ChoiceInv'
    BY <1>1, <1>2 DEF ConflictInv, ChoiceInv, Grown, Reading, Placed, Succeeded
<1>6. QuietInv'
    BY <1>1, <1>2 DEF ConflictInv, QuietInv, Reading, Placed, Succeeded
<1>7. FlagInv'
    BY <1>1 DEF ConflictInv, FlagInv, Reading, Placed
<1> QED BY <1>3, <1>4, <1>5, <1>6, <1>7 DEF ConflictInv

\* An operation that ends without success and leaves the home as it is.
LEMMA EndKeeps ==
    ASSUME ConflictInv, UNCHANGED torn, pc \notin {"idle", "ended"}, pc' = "ended",
           said' \in {"untouched", "restored", "incomplete", "crashed"},
           UNCHANGED <<home, codex, report, jobs, starts, original, raced, cold, quarantine, job>>,
           ~ raced /\ said' \in {"untouched", "restored"} => home = job.begin
    PROVE  ConflictInv'
<1>1. Others' = Others
    BY DEF Others
<1>2. TypeOK'
    BY DEF ConflictInv, TypeOK, PCs
<1>3. SurviveInv'
    BY SurviveStays DEF ConflictInv
<1>4. ChoiceInv'
    BY <1>1 DEF ConflictInv, ChoiceInv, Grown, Reading, Placed, Succeeded
<1>5. ~ raced => home = job.begin \/ cold = job.begin
    BY DEF ConflictInv, QuietInv, Reading
<1>6. QuietInv'
    BY <1>1, <1>5 DEF ConflictInv, QuietInv, Reading, Placed, Succeeded
<1>7. FlagInv'
    BY DEF FlagInv, Reading, Placed
<1> QED BY <1>2, <1>3, <1>4, <1>6, <1>7 DEF ConflictInv

LEMMA RaiseKeeps ==
    ASSUME ConflictInv, Raise, UNCHANGED torn
    PROVE  ConflictInv'
<1>1. CASE pc \in {"backup", "preflight"} /\ Ends("untouched")
  <2>1. /\ pc' = "ended" /\ said' = "untouched"
        /\ UNCHANGED <<home, codex, report, jobs, starts, original, raced, cold, quarantine, job>>
    BY <1>1 DEF Raise, Ends, Stay
  <2>2. ~ raced => home = job.begin
    BY <1>1 DEF ConflictInv, QuietInv, Reading
  <2> QED BY <1>1, <2>1, <2>2, EndKeeps
<1>2. CASE /\ pc \in {"prepare", "apply", "unlink", "database", "verify", "complete"}
           /\ GoTo("restore", [job EXCEPT !.todo = {p \in Others : job.copied[p] # Missing}])
           /\ Quiet
  <2> DEFINE todo == {p \in Others : job.copied[p] # Missing}
  <2>1. /\ pc' = "restore" /\ job' = [job EXCEPT !.todo = todo]
        /\ UNCHANGED <<home, codex, report, jobs, starts, original, raced, cold, quarantine, said>>
    BY <1>2 DEF Raise, GoTo, Stay, Quiet
  <2>2. job' \in Jobs
    BY <2>1, OthersArePlaces DEF ConflictInv, TypeOK, Jobs
  <2>3. /\ SameChoice /\ job'.before = job.before /\ job'.todo = todo /\ job'.bad = job.bad
        /\ job'.committed = job.committed
    BY <2>1 DEF ConflictInv, TypeOK, Jobs, SameChoice
  <2>4. Others' = Others
    BY <2>3, OthersStay
  <2>5. TypeOK'
    BY <1>2, <2>1, <2>2, <2>3 DEF ConflictInv, TypeOK, PCs, SameChoice
  <2>6. SurviveInv'
    BY <2>1, SurviveStays DEF ConflictInv
  <2>7. ChoiceInv'
    BY <1>2, <2>1, <2>3, <2>4 DEF ConflictInv, ChoiceInv, Grown, Reading, Placed, Succeeded, SameChoice
  <2>8. ~ raced => \A p \in Places :
             \/ home.files[p] = job.begin.files[p]
             \/ home.files[p] = Missing /\ p \in todo
    BY <1>2 DEF ConflictInv, QuietInv, FlagInv, Reading, Placed
  <2>9. QuietInv'
    BY <1>2, <2>1, <2>3, <2>4, <2>8 DEF ConflictInv, QuietInv, Reading, Placed, Succeeded, SameChoice
  <2>10. FlagInv'
    BY <2>1 DEF FlagInv, Reading, Placed
  <2> QED BY <2>5, <2>6, <2>7, <2>9, <2>10 DEF ConflictInv
<1> QED BY <1>1, <1>2 DEF Raise

\* A file is put into a free place, or none is.
LEMMA SurviveMore ==
    ASSUME TypeOK, SurviveInv, home' \in Homes, quarantine' = quarantine, original' = original,
           pc' # "unlink", UNCHANGED torn,
           \A p \in Places : home.files[p] # Missing => home'.files[p] = home.files[p]
    PROVE  SurviveInv'
<1>1. ASSUME NEW t \in Threads, NEW s \in Slots, original[<<t, s>>] # Missing,
             AtHome(t, original[<<t, s>>])
      PROVE  AtHome(t, original[<<t, s>>])'
  <2>1. PICK r \in Copies(home.files, t) : IsPrefix(original[<<t, s>>], home.files[<<t, r>>])
    BY <1>1 DEF AtHome
  <2>2. r \in Slots /\ home'.files[<<t, r>>] = home.files[<<t, r>>]
    BY PlaceParts DEF Copies
  <2>3. r \in Copies(home'.files, t)
    BY <2>2 DEF Copies
  <2> QED BY <2>1, <2>2, <2>3 DEF AtHome
<1> QED BY <1>1 DEF SurviveInv, Aside

LEMMA RestoreFileKeeps ==
    ASSUME ConflictInv, RestoreFile, UNCHANGED torn
    PROVE  ConflictInv'
<1>1. PICK p \in job.todo :
          \/ /\ home.files[p] # Missing
             /\ Stay(home) /\ GoTo("restore", [job EXCEPT !.todo = @ \ {p}])
          \/ /\ home.files[p] = Missing
             /\ Stay([home EXCEPT !.files[p] = job.copied[p]])
             /\ GoTo("restore", [job EXCEPT !.todo = @ \ {p}])
          \/ /\ home.files[p] = Missing
             /\ \E b \in {Missing, <<>>} : Stay([home EXCEPT !.files[p] = b])
             /\ GoTo("restore", [job EXCEPT !.todo = @ \ {p}, !.bad = TRUE])
    BY DEF RestoreFile
<1>2. /\ pc = "restore" /\ pc' = "restore"
      /\ UNCHANGED <<codex, report, jobs, starts, original, raced, cold, quarantine, said>>
    BY <1>1 DEF RestoreFile, GoTo, Stay, Quiet
<1>3. p \in Places /\ home \in Homes /\ job.copied[p] \in Body \cup {Missing}
    BY <1>1, JobParts DEF ConflictInv, TypeOK, Files
<1>4. <<>> \in Body
  <2>1. <<>> \in Seq({0, 1}) /\ Len(<<>>) = 0 /\ MaxLen \in Nat
    BY ConflictAssumption DEF ConflictAssumption
  <2>2. Len(<<>>) <= MaxLen
    BY <2>1
  <2> QED BY <2>1, <2>2, SeqIsBody
<1>5. /\ job' \in Jobs /\ SameChoice /\ job'.before = job.before /\ job'.todo = job.todo \ {p}
      /\ job'.committed = job.committed
      /\ job'.bad = job.bad \/ job'.bad
    BY <1>1 DEF ConflictInv, TypeOK, Jobs, SameChoice, GoTo
<1>6. /\ home' \in Homes /\ home'.rows = home.rows
      /\ \A q \in Places : q # p => home'.files[q] = home.files[q]
      /\ home.files[p] # Missing => home'.files[p] = home.files[p]
      /\ home.files[p] = Missing /\ ~ job'.bad => home'.files[p] = job.copied[p]
  <2>1. CASE home.files[p] # Missing /\ Stay(home)
    BY <1>3, <2>1 DEF Stay
  <2>2. CASE home.files[p] = Missing /\ Stay([home EXCEPT !.files[p] = job.copied[p]])
    BY <1>3, <2>2, FileChanges DEF Stay
  <2>3. CASE /\ home.files[p] = Missing
             /\ \E b \in {Missing, <<>>} : Stay([home EXCEPT !.files[p] = b])
             /\ GoTo("restore", [job EXCEPT !.todo = @ \ {p}, !.bad = TRUE])
    <3>1. job'.bad
        BY <2>3 DEF ConflictInv, TypeOK, Jobs, GoTo
    <3>2. PICK b \in {Missing, <<>>} : home' = [home EXCEPT !.files[p] = b]
        BY <2>3 DEF Stay
    <3>3. b \in Body \cup {Missing}
        BY <1>4
    <3> QED BY <1>3, <2>3, <3>1, <3>2, <3>3, FileChanges
  <2> QED BY <1>1, <2>1, <2>2, <2>3
<1>7. Others' = Others
    BY <1>5, OthersStay
<1>8. TypeOK'
    BY <1>2, <1>5, <1>6 DEF ConflictInv, TypeOK, PCs, SameChoice
<1>9. SurviveInv'
    BY <1>2, <1>6, SurviveMore DEF ConflictInv
<1>10. ChoiceInv'
    BY <1>2, <1>5, <1>7 DEF ConflictInv, ChoiceInv, Grown, Reading, Placed, Succeeded, SameChoice
<1>11. ASSUME ~ raced, ~ job'.bad, ~ job.bad
       PROVE  \A q \in Places :
                 \/ home'.files[q] = job.begin.files[q]
                 \/ /\ home'.files[q] = Missing /\ q \in Others /\ job.copied[q] # Missing
                    /\ q \in job'.todo
  <2>1. \A q \in Places :
                 \/ home.files[q] = job.begin.files[q]
                 \/ /\ home.files[q] = Missing /\ q \in Others /\ job.copied[q] # Missing
                    /\ q \in job.todo
    BY <1>2, <1>11 DEF ConflictInv, QuietInv
  <2>2. \A q \in Others : job.copied[q] \in {Missing, job.begin.files[q]}
    BY <1>2, <1>11 DEF ConflictInv, QuietInv
  <2>3. p \in Others /\ job.copied[p] # Missing
    BY <1>2 DEF ConflictInv, ChoiceInv
  <2> QED BY <1>3, <1>5, <1>6, <1>11, <2>1, <2>2, <2>3
<1>12. QuietInv'
    BY <1>2, <1>5, <1>6, <1>7, <1>11 DEF ConflictInv, QuietInv, Reading, Placed, Succeeded, SameChoice
<1>13. FlagInv'
    BY <1>2 DEF FlagInv, Reading, Placed
<1> QED BY <1>8, <1>9, <1>10, <1>12, <1>13 DEF ConflictInv

LEMMA FilesRestoredKeeps ==
    ASSUME ConflictInv, FilesRestored, UNCHANGED torn
    PROVE  ConflictInv'
<1>1. /\ pc = "restore" /\ pc' = "r_db" /\ job.todo = {}
      /\ UNCHANGED <<home, codex, report, jobs, starts, original, raced, cold, quarantine, said, job>>
    BY DEF FilesRestored, GoTo, Stay, Quiet
<1>2. Others' = Others
    BY <1>1 DEF Others
<1>3. TypeOK'
    BY <1>1 DEF ConflictInv, TypeOK, PCs
<1>4. SurviveInv'
    BY <1>1, SurviveStays DEF ConflictInv
<1>5. ChoiceInv'
    BY <1>1, <1>2 DEF ConflictInv, ChoiceInv, Grown, Reading, Placed, Succeeded
<1>6. ~ raced /\ ~ job.bad => home.files = job.begin.files
  <2>1. SUFFICES ASSUME ~ raced, ~ job.bad PROVE home.files = job.begin.files
    OBVIOUS
  <2>2. \A q \in Places : home.files[q] = job.begin.files[q]
    BY <1>1, <2>1 DEF ConflictInv, QuietInv
  <2>3. home.files \in Files /\ job.begin.files \in Files
    BY <1>1 DEF ConflictInv, TypeOK, Homes
  <2> QED BY <2>2, <2>3 DEF Files
<1>7. QuietInv'
    BY <1>1, <1>2, <1>6 DEF ConflictInv, QuietInv, Reading, Placed, Succeeded
<1>8. FlagInv'
    BY <1>1 DEF FlagInv, Reading, Placed
<1> QED BY <1>3, <1>4, <1>5, <1>7, <1>8 DEF ConflictInv

LEMMA RestoreDatabaseKeeps ==
    ASSUME ConflictInv, RestoreDatabase, UNCHANGED torn
    PROVE  ConflictInv'
<1>1. pc = "r_db" /\ home \in Homes /\ job.begin \in Homes /\ job.bad \in BOOLEAN
    BY JobParts DEF ConflictInv, TypeOK, RestoreDatabase
<1>2. \A bad \in BOOLEAN : Word(bad) \in {"incomplete", "restored", "untouched"}
                           /\ (Word(bad) # "incomplete" => ~ bad)
    BY DEF Word
<1>3. ASSUME NEW bad \in BOOLEAN, Stay(home), Ends(Word(bad)),
             ~ raced /\ ~ bad => home = job.begin
      PROVE  ConflictInv'
  <2>1. /\ pc' = "ended" /\ said' = Word(bad)
        /\ UNCHANGED <<home, codex, report, jobs, starts, original, raced, cold, quarantine, job>>
    BY <1>3 DEF Ends, Stay
  <2> QED BY <1>1, <1>2, <1>3, <2>1, EndKeeps
<1>4. CASE ~ job.committed /\ Stay(home) /\ Ends(Word(job.bad))
  <2>1. ~ raced /\ ~ job.bad => home = job.begin
    BY <1>1, <1>4, HomeParts DEF ConflictInv, QuietInv
  <2> QED BY <1>1, <1>3, <1>4, <2>1
<1>5. CASE job.committed /\ Stay(home) /\ Ends(Word(TRUE))
    BY <1>3, <1>5
<1>6. CASE /\ job.committed /\ Undone.rows = job.before.rows
           /\ Stay(Undone) /\ Ends(Word(job.bad))
  <2> DEFINE rows == [t \in Threads |-> IF t \in Repointed THEN job.begin.rows[t] ELSE home.rows[t]]
  <2>1. rows \in Rows
    BY <1>1, HomeParts DEF Rows
  <2>2. Undone = [home EXCEPT !.rows = rows]
    BY DEF Undone
  <2> HIDE DEF rows
  <2>3. /\ home' = Undone /\ pc' = "ended" /\ said' = Word(job.bad)
        /\ UNCHANGED <<codex, report, jobs, starts, original, raced, cold, quarantine, job>>
    BY <1>6 DEF Stay, Ends
  <2>4. home' \in Homes /\ home'.files = home.files /\ home'.rows = job.before.rows
    BY <1>1, <1>6, <2>1, <2>2, <2>3, RowsChange
  <2>5. Others' = Others
    BY <2>3 DEF Others
  <2>6. said' \in {"incomplete", "restored", "untouched"}
    BY <1>1, <1>2, <2>3
  <2>7. TypeOK'
    BY <2>3, <2>4, <2>6, <1>1 DEF ConflictInv, TypeOK, PCs
  <2>8. SurviveInv'
    BY <2>3, <2>4, SurviveRows DEF ConflictInv
  <2>9. ChoiceInv'
    BY <1>1, <2>3, <2>5, <2>6 DEF ConflictInv, ChoiceInv, Grown, Reading, Placed, Succeeded
  <2>10. ~ raced /\ said' \in {"untouched", "restored"} => home' = job.begin
    <3>1. SUFFICES ASSUME ~ raced, ~ job.bad PROVE home' = job.begin
        BY <1>1, <1>2, <2>3
    <3>2. home'.files = job.begin.files
        BY <1>1, <2>4, <3>1 DEF ConflictInv, QuietInv
    <3>3. job.before = job.begin
        BY <1>1, <3>1, MissingAssumption DEF ConflictInv, QuietInv, TypeOK, MissingAssumption
    <3> QED BY <1>1, <2>4, <3>2, <3>3, HomeParts
  <2>11. QuietInv'
    BY <1>1, <2>3, <2>5, <2>6, <2>10 DEF ConflictInv, QuietInv, Reading, Placed, Succeeded
  <2>12. FlagInv'
    BY <2>3 DEF FlagInv, Reading, Placed
  <2> QED BY <2>7, <2>8, <2>9, <2>11, <2>12 DEF ConflictInv
<1> QED BY <1>4, <1>5, <1>6 DEF RestoreDatabase

LEMMA CrashKeeps ==
    ASSUME ConflictInv, Crash, UNCHANGED torn
    PROVE  ConflictInv'
<1>1. /\ pc \notin {"idle", "ended"} /\ pc' = "ended" /\ said' = "crashed"
      /\ UNCHANGED <<home, codex, report, jobs, starts, original, raced, cold, quarantine, job>>
    BY DEF Crash, Ends, Stay
<1> QED BY <1>1, EndKeeps

LEMMA NoJobIsJob == NoJob \in Jobs
<1>1. [p \in Places |-> Missing] \in Files
    BY DEF Files
<1> QED BY <1>1 DEF NoJob, Jobs

LEMMA AckKeeps ==
    ASSUME ConflictInv, Ack, UNCHANGED torn
    PROVE  ConflictInv'
<1>1. /\ pc' = "idle" /\ job' = NoJob /\ raced' = FALSE
      /\ UNCHANGED <<home, codex, report, cold, quarantine, said, jobs, starts, original>>
    BY DEF Ack, GoTo
<1>2. TypeOK'
    BY <1>1, NoJobIsJob DEF ConflictInv, TypeOK, PCs
<1>3. SurviveInv'
    BY <1>1, SurviveStays DEF ConflictInv
<1> QED BY <1>1, <1>2, <1>3 DEF ConflictInv, ChoiceInv, QuietInv, FlagInv, Reading, Placed

\* Every step of the resolution, of Codex and of the user keeps the invariant.
LEMMA NextKeeps ==
    ASSUME ConflictInv, Next
    PROVE  ConflictInv'
BY StartCodexKeeps, CodexWritesKeeps, ReportKeeps, ResolveKeeps, ColdBackupKeeps, PreflightKeeps,
   PrepareCopyKeeps, PreparedKeeps, ApplyCheckKeeps, UnlinkKeeps, AppliedKeeps, DatabaseKeeps,
   VerifyKeeps, CompleteKeeps, LogKeeps, RaiseKeeps, RestoreFileKeeps, FilesRestoredKeeps,
   RestoreDatabaseKeeps, CrashKeeps, AckKeeps
   DEF Next, Step

LEMMA StutterKeeps ==
    ASSUME ConflictInv, UNCHANGED vars
    PROVE  ConflictInv'
<1>1. UNCHANGED <<home, codex, report, cold, quarantine, pc, job, said, jobs, starts, original, raced,
                  torn>>
    BY DEF vars
<1>2. TypeOK'
    BY <1>1 DEF ConflictInv, TypeOK
<1>3. SurviveInv'
    BY <1>1 DEF ConflictInv, SurviveInv, AtHome, Aside
<1>4. Others' = Others /\ Sound' = Sound /\ Succeeded' = Succeeded
    BY <1>1 DEF Others, Sound, After, Repointed, Succeeded
<1>5. ChoiceInv'
    BY <1>1, <1>4 DEF ConflictInv, ChoiceInv, Grown
<1>6. QuietInv'
    BY <1>1, <1>4 DEF ConflictInv, QuietInv
<1>7. FlagInv' /\ torn' \in BOOLEAN
    BY <1>1 DEF ConflictInv, FlagInv
<1> QED BY <1>2, <1>3, <1>5, <1>6, <1>7 DEF ConflictInv

LEMMA UntouchedIsSound ==
    ASSUME NEW f \in [Places -> Bodies \cup {Missing}], NEW r \in Rows, Untouched(f, r)
    PROVE  ConflictInv
<1>1. f \in Files
    BY BodiesAreBodies DEF Files
<1>2. TypeOK
  <2>1. jobs \in 0..MaxJobs /\ starts \in 0..MaxStarts
    BY ConflictAssumption DEF Untouched, ConflictAssumption
  <2>2. home \in Homes
    BY <1>1 DEF Untouched, Homes
  <2> QED BY <1>1, <2>1, <2>2, NoJobIsJob DEF Untouched, TypeOK, PCs
<1>3. SurviveInv
  <2>1. ASSUME NEW t \in Threads, NEW s \in Slots, original[<<t, s>>] # Missing
        PROVE  AtHome(t, original[<<t, s>>])
    <3>1. home.files = original /\ original \in Files /\ pc = "idle"
        BY <1>1 DEF Untouched
    <3>2. IsPrefix(original[<<t, s>>], original[<<t, s>>])
        BY <2>1, <3>1, PlaceParts, FilesHold, PrefixSelf
    <3> QED BY <2>1, <3>1, <3>2 DEF AtHome, Copies
  <2> QED BY <2>1 DEF SurviveInv, Untouched
<1> QED BY <1>2, <1>3 DEF ConflictInv, ChoiceInv, QuietInv, FlagInv, Untouched, Reading, Placed

-----------------------------------------------------------------------------
(* The machine and the scripts *)

LEMMA HostParts ==
    ASSUME NEW h \in Hosts
    PROVE  /\ h.cred \in 0..MaxLogin /\ h.config \in BOOLEAN
           /\ h.lines \in [Places -> BOOLEAN] /\ h.rows \in [Threads -> BOOLEAN]
           /\ h = [cred |-> h.cred, config |-> h.config, lines |-> h.lines, rows |-> h.rows]
BY DEF Hosts

LEMMA SyncParts ==
    ASSUME RemoteTypeOK
    PROVE  /\ sync.pc \in {"idle", "ssh", "wait", "verify", "ok", "failed"}
           /\ sync.n \in 0..MaxTries /\ sync.authority \in 0..MaxLogin
           /\ sync = [pc |-> sync.pc, n |-> sync.n, authority |-> sync.authority]
           /\ sync.n \in Nat /\ MaxTries \in Nat \ {0} /\ MaxLogin \in Nat \ {0, 1}
<1>1. MaxTries \in Nat \ {0} /\ MaxLogin \in Nat \ {0, 1}
    BY RemoteAssumption DEF RemoteAssumption
<1>2. sync \in [pc : {"idle", "ssh", "wait", "verify", "ok", "failed"},
                n : 0..MaxTries, authority : 0..MaxLogin]
    BY DEF RemoteTypeOK
<1>3. /\ sync.pc \in {"idle", "ssh", "wait", "verify", "ok", "failed"}
      /\ sync.n \in 0..MaxTries /\ sync.authority \in 0..MaxLogin
      /\ sync = [pc |-> sync.pc, n |-> sync.n, authority |-> sync.authority]
    BY <1>2
<1>4. sync.n \in Nat
    BY <1>1, <1>3
<1> QED BY <1>1, <1>3, <1>4

LEMMA ScriptParts ==
    ASSUME NEW x \in Scripts
    PROVE  /\ x.before \in States \cup {Missing} /\ x.losers \subseteq Places
           /\ x.todo \subseteq Threads /\ x.moves \in Seq(Moves)
           /\ x.patched \in Seq(Places \X BOOLEAN) /\ x.committed \in BOOLEAN
BY DEF Scripts

LEMMA NoScriptFields ==
    /\ NoScript \in Scripts /\ NoScript.plan = <<>> /\ NoScript.moves = <<>>
    /\ NoScript.patched = <<>> /\ NoScript.before = Missing
    /\ NoScript.committed = FALSE
<1>1. <<>> \in Seq(Moves) /\ <<>> \in Seq(Places \X BOOLEAN)
    OBVIOUS
<1>2. NoScript = [pc |-> "none", plan |-> <<>>, before |-> Missing, losers |-> {},
                  todo |-> {}, moves |-> <<>>, patched |-> <<>>, committed |-> FALSE]
    BY DEF NoScript
<1>3. NoScript \in Scripts
    BY <1>1, <1>2 DEF Scripts
<1> QED BY <1>2, <1>3

LEMMA NoScriptIsScript ==
    ASSUME NEW place \in {"none", "apply", "config", "plan", "done", "failed"}
    PROVE  /\ [NoScript EXCEPT !.pc = place] \in Scripts
           /\ Formed([NoScript EXCEPT !.pc = place])
           /\ [NoScript EXCEPT !.pc = place].pc = place
           /\ [NoScript EXCEPT !.pc = place].before = Missing
<1> DEFINE x == [NoScript EXCEPT !.pc = place]
<1>1. /\ x \in Scripts /\ x.pc = place /\ x.plan = <<>> /\ x.moves = <<>>
      /\ x.before = Missing
    BY NoScriptFields DEF Scripts
<1> HIDE DEF x
<1>2. x = [NoScript EXCEPT !.pc = x.pc]
    BY <1>1 DEF x
<1>3. DOMAIN <<>> = {}
    OBVIOUS
<1>4. Formed(x)
    BY <1>1, <1>2, <1>3 DEF Formed
<1> QED BY <1>1, <1>4 DEF x

\* A record of a script that ended.
LEMMA EndedIsScript ==
    ASSUME NEW b \in States \cup {Missing}
    PROVE  /\ Ended(b) \in Scripts /\ Formed(Ended(b))
           /\ Ended(b).pc = "failed" /\ Ended(b).before = b
<1> DEFINE x == Ended(b)
<1>1. /\ x \in Scripts /\ x.pc = "failed" /\ x.plan = <<>> /\ x.moves = <<>>
      /\ x.before = b
    BY NoScriptFields DEF Scripts, Ended
<1> HIDE DEF x
<1>2. DOMAIN <<>> = {}
    OBVIOUS
<1>3. Formed(x)
    BY <1>1, <1>2 DEF Formed
<1> QED BY <1>1, <1>3 DEF x

\* The local side of a step on the machine.
LEMMA MachineKeepsLocal ==
    ASSUME ConflictInv, pc = "idle", UNCHANGED localVars,
           home' \in Homes, quarantine' \subseteq Places \X Body, codex' \in BOOLEAN,
           raced' \in BOOLEAN, starts' \in 0..MaxStarts, torn' \in BOOLEAN, SurviveInv'
    PROVE  ConflictInv'
<1>1. UNCHANGED <<report, cold, pc, job, said, jobs, original>>
    BY DEF localVars
<1>2. TypeOK'
    BY <1>1 DEF ConflictInv, TypeOK
<1> QED BY <1>1, <1>2 DEF ConflictInv, ChoiceInv, QuietInv, FlagInv, Reading, Placed

\* A step of a script that runs: the other scripts and the guardian stay.
Runs(x) == x.pc \notin {"none", "done", "failed"}

LEMMA StepFrame ==
    ASSUME RemoteInv, remote, UNCHANGED <<remote, pc>>, NEW i \in Tries, Runs(script[i]),
           NEW new \in Scripts, new.pc # "none", Formed(new), Goes(i, new), host' \in Hosts
    PROVE  /\ RemoteTypeOK' /\ ScriptInv' /\ SyncInv'
           /\ script'[i] = new /\ \A j \in Tries : j # i => script'[j] = script[j]
<1>1. script' = [script EXCEPT ![i] = new] /\ UNCHANGED <<sync, overlap, unseen>>
    BY DEF Goes
<1>2. script \in [Tries -> Scripts]
    BY DEF RemoteInv, RemoteTypeOK
<1>3. script'[i] = new /\ \A j \in Tries : j # i => script'[j] = script[j]
    BY <1>1, <1>2
<1>4. RemoteTypeOK'
    BY <1>1, <1>2 DEF RemoteInv, RemoteTypeOK
<1>5. ScriptInv'
    BY <1>3 DEF RemoteInv, ScriptInv
<1>6. SyncInv'
  <2>1. sync.n \in Nat /\ i \in Nat /\ sync.n \in 0..MaxTries /\ MaxTries \in Nat
    BY SyncParts DEF RemoteInv, Tries
  <2>2. ~ (i > sync.n)
    BY DEF RemoteInv, SyncInv, Runs
  <2>3. sync.pc \in {"verify", "ok"} => sync.n > 0 /\ sync.n \in Tries /\ i # sync.n
    BY <2>1 DEF RemoteInv, SyncInv, Runs, Tries
  <2>4. sync.pc \in {"verify", "ok"} => script'[sync.n].pc = "done"
    BY <1>3, <2>3 DEF RemoteInv, SyncInv
  <2>5. \A j \in Tries : j > sync.n => script'[j].pc = "none"
    BY <1>3, <2>2 DEF RemoteInv, SyncInv
  <2>6. ~ overlap => ~ (i < sync.n)
    BY DEF RemoteInv, SyncInv, Runs, Running
  <2>7. ~ overlap => \A j \in Tries : j < sync.n => j \notin Running' /\ script'[j].before = Missing
    BY <1>3, <2>6 DEF RemoteInv, SyncInv, Running
  <2> QED BY <1>1, <2>4, <2>5, <2>7 DEF RemoteInv, SyncInv
<1> QED BY <1>3, <1>4, <1>5, <1>6

\* When it is alone it is the last one that was sent.
LEMMA AloneIsLast ==
    ASSUME RemoteInv, Alone, NEW i \in Tries, Runs(script[i])
    PROVE  i = sync.n /\ sync.pc \notin {"idle", "verify", "ok"}
<1>1. sync.n \in Nat /\ i \in Nat /\ i > 0
    BY SyncParts DEF RemoteInv, Tries
<1>2. ~ (i > sync.n) /\ ~ (i < sync.n)
    BY DEF RemoteInv, SyncInv, Runs, Running, Alone
<1>3. i = sync.n
    BY <1>1, <1>2
<1> QED BY <1>1, <1>3 DEF RemoteInv, SyncInv, Runs

HomeAndHostInv ==
    torn = FALSE /\ KeptInv /\ \A p \in Places : home.files[p] = Missing => ~ host.lines[p]

\* What is left to show of a step of a script.
LEMMA StepAlone ==
    ASSUME RemoteInv, remote, UNCHANGED remote, NEW i \in Tries, Runs(script[i]),
           NEW new, Goes(i, new), UNCHANGED raced, codex' \in {codex, FALSE},
           script'[i] = new,
           Alone => /\ HomeAndHostInv'
                    /\ PlanInv(script[i])' /\ Undoable(script[i])' /\ Written(script[i])'
                    /\ script'[i].pc = "failed" /\ script'[i].before # Missing =>
                          Here' = script'[i].before
    PROVE  AloneInv'
<1>1. UNCHANGED <<sync, overlap, unseen>>
    BY DEF Goes
<1>2. SUFFICES ASSUME Alone PROVE AloneInv'
    BY <1>1 DEF AloneInv, Alone
<1>3. i = sync.n /\ sync.pc # "ok"
    BY <1>2, AloneIsLast
<1>4. ~ codex'
    BY <1>2 DEF RemoteInv, AloneInv
<1> QED BY <1>1, <1>2, <1>3, <1>4 DEF AloneInv, HomeAndHostInv

-----------------------------------------------------------------------------
(* The guardian and the users of the machine *)

\* What a script has done is the same as long as nobody touches the machine.
LEMMA ScriptStays ==
    ASSUME NEW i \in Tries, UNCHANGED <<home, host, quarantine>>, script'[i] = script[i],
           sync'.authority = sync.authority
    PROVE  /\ PlanInv(script[i]) => PlanInv(script[i])'
           /\ Undoable(script[i]) => Undoable(script[i])'
           /\ Written(script[i]) => Written(script[i])'
           /\ AsReported(script[i]) => AsReported(script[i])'
           /\ Here' = Here
<1>1. PlanInv(script[i]) => PlanInv(script[i])'
    BY DEF PlanInv, From, To
<1>2. OrderInv(script[i]) => OrderInv(script[i])'
    BY DEF OrderInv
<1>3. MovesInv(home.files, host.lines, quarantine, script[i])
         => MovesInv(home.files, host.lines, quarantine, script[i])'
    OBVIOUS
<1>4. PatchInv(home.files, script[i]) => PatchInv(home.files, script[i])'
    OBVIOUS
<1>5. RowsInv(script[i]) => RowsInv(script[i])'
    BY DEF RowsInv
<1>6. Undoable(script[i]) => Undoable(script[i])'
    BY <1>2, <1>3, <1>4, <1>5 DEF Undoable
<1>7. Written(script[i]) => Written(script[i])'
    BY DEF Written
<1>8. AsReported(script[i]) => AsReported(script[i])'
    BY DEF AsReported, Reconciled
<1>9. Here' = Here
    BY DEF Here
<1> QED BY <1>1, <1>6, <1>7, <1>8, <1>9

\* A step of the guardian that only changes its own place.
LEMMA GuardianStays ==
    ASSUME RemoteInv, remote, UNCHANGED <<remote, vars, host, script, overlap>>,
           sync' = [sync EXCEPT !.pc = sync'.pc],
           sync'.pc \in {"idle", "ssh", "wait", "verify", "ok", "failed"}, sync.pc # "idle",
           sync'.pc # "idle", sync'.pc = "ssh" => sync.n < MaxTries,
           sync'.pc \in {"wait", "verify", "ok"} => sync.n > 0,
           sync'.pc \in {"verify", "ok"} => script[sync.n].pc = "done",
           sync'.pc = "ok" /\ Alone => AsReported(script[sync.n]),
           UNCHANGED unseen
    PROVE  RemoteInv'
<1>1. UNCHANGED <<home, codex, report, cold, quarantine, pc, job, said, jobs, starts, original, raced,
                  torn>>
    BY DEF vars
<1>2. /\ sync'.n = sync.n /\ sync'.authority = sync.authority
      /\ sync' \in [pc : {"idle", "ssh", "wait", "verify", "ok", "failed"},
                    n : 0..MaxTries, authority : 0..MaxLogin]
    BY SyncParts DEF RemoteInv
<1>3. ConflictInv'
    BY StutterKeeps DEF RemoteInv
<1>4. RemoteTypeOK'
    BY <1>2 DEF RemoteInv, RemoteTypeOK
<1>5. ScriptInv'
    BY DEF RemoteInv, ScriptInv, Formed
<1>6. SyncInv'
    BY <1>1, <1>2 DEF RemoteInv, SyncInv, Running
<1>7. LoginInv'
    BY <1>2 DEF RemoteInv, LoginInv
<1>8. AloneInv'
  <2>1. SUFFICES ASSUME Alone PROVE AloneInv'
    BY <1>1 DEF AloneInv, Alone
  <2>2. sync.n \in Nat /\ sync.n \in 0..MaxTries /\ MaxTries \in Nat
    BY SyncParts DEF RemoteInv
  <2>3. \A i \in Tries : i = sync.n =>
             /\ PlanInv(script[i])' /\ Undoable(script[i])' /\ Written(script[i])'
             /\ script'[i].pc = "failed" /\ script'[i].before # Missing =>
                   Here' = script'[i].before
    BY <1>1, <1>2, <2>1, ScriptStays DEF RemoteInv, AloneInv
  <2>4. KeptInv'
    BY <1>1, <2>1 DEF RemoteInv, AloneInv, KeptInv
  <2>5. sync'.pc = "ok" => AsReported(script[sync.n])'
    <3>1. SUFFICES ASSUME sync'.pc = "ok" PROVE AsReported(script[sync.n])'
        OBVIOUS
    <3>2. sync.n \in Tries
        BY <2>2, <3>1 DEF Tries
    <3>3. AsReported(script[sync.n])
        BY <2>1, <3>1
    <3> QED BY <1>1, <1>2, <3>3 DEF AsReported, Reconciled
  <2>6. ~ codex' /\ ~ torn' /\ \A p \in Places : home'.files[p] = Missing => ~ host'.lines[p]
    BY <1>1, <2>1 DEF RemoteInv, AloneInv
  <2> QED BY <1>2, <2>3, <2>4, <2>5, <2>6 DEF AloneInv
<1> QED BY <1>3, <1>4, <1>5, <1>6, <1>7, <1>8 DEF RemoteInv

LEMMA ReceiveKeeps ==
    ASSUME RemoteInv, remote, UNCHANGED remote, Receive
    PROVE  RemoteInv'
<1>1. /\ sync.pc = "wait" /\ UNCHANGED <<script, unseen, vars, host, overlap>>
    BY DEF Receive, TryAgain, Sending
<1>2. \/ script[sync.n].pc = "done" /\ sync' = [sync EXCEPT !.pc = "verify"]
      \/ sync.n < MaxTries /\ sync' = [sync EXCEPT !.pc = "ssh"]
      \/ sync' = [sync EXCEPT !.pc = "failed"]
    BY DEF Receive, TryAgain, Sending
<1>3. sync.n > 0
    BY <1>1 DEF RemoteInv, SyncInv
<1>4. /\ sync' = [sync EXCEPT !.pc = sync'.pc]
      /\ \/ script[sync.n].pc = "done" /\ sync'.pc = "verify"
         \/ sync.n < MaxTries /\ sync'.pc = "ssh"
         \/ sync'.pc = "failed"
    BY <1>2, SyncParts DEF RemoteInv
<1> QED BY <1>1, <1>3, <1>4, GuardianStays

LEMMA VerifyRemoteKeeps ==
    ASSUME RemoteInv, remote, UNCHANGED remote, VerifyRemote
    PROVE  RemoteInv'
<1>1. /\ sync.pc = "verify" /\ UNCHANGED <<script, unseen, vars, host, overlap>>
    BY DEF VerifyRemote, Sending
<1>2. \/ AsReported(script[sync.n]) /\ sync' = [sync EXCEPT !.pc = "ok"]
      \/ sync' = [sync EXCEPT !.pc = "failed"]
    BY DEF VerifyRemote, Sending
<1>3. sync.n > 0 /\ script[sync.n].pc = "done"
    BY <1>1 DEF RemoteInv, SyncInv
<1>4. /\ sync' = [sync EXCEPT !.pc = sync'.pc]
      /\ (AsReported(script[sync.n]) /\ sync'.pc = "ok") \/ sync'.pc = "failed"
    BY <1>2, SyncParts DEF RemoteInv
<1> QED BY <1>1, <1>3, <1>4, GuardianStays

LEMMA BeginsKeeps ==
    ASSUME RemoteInv, remote, UNCHANGED remote, NEW fetched \in {0, host.cred}, Begins(fetched)
    PROVE  RemoteInv'
<1>1. /\ sync.pc = "idle" /\ sync' = [sync EXCEPT !.pc = "ssh", !.authority = Authority(fetched)]
      /\ unseen' = (fetched # host.cred) /\ UNCHANGED <<vars, host, overlap, script>>
    BY DEF Begins, Sending
<1>2. UNCHANGED <<home, codex, report, cold, quarantine, pc, job, said, jobs, starts, original, raced,
                  torn>>
    BY <1>1 DEF vars
<1>3. host.cred \in 0..MaxLogin /\ host.cred > 0 /\ MaxLogin \in Nat \ {0, 1} /\ sync.n = 0
      /\ MaxTries \in Nat \ {0}
    BY <1>1, SyncParts, HostParts DEF RemoteInv, RemoteTypeOK, LoginInv, SyncInv
<1>4. Authority(fetched) \in 0..MaxLogin /\ Authority(fetched) > 0
    BY <1>3 DEF Authority
<1>5. fetched = host.cred => Authority(fetched) = host.cred
    BY <1>3 DEF Authority
<1>6. sync'.pc = "ssh" /\ sync'.n = 0 /\ sync'.authority = Authority(fetched)
    BY <1>1, <1>3, SyncParts DEF RemoteInv
<1>7. sync' \in [pc : {"idle", "ssh", "wait", "verify", "ok", "failed"},
                 n : 0..MaxTries, authority : 0..MaxLogin]
    BY <1>1, <1>4, SyncParts DEF RemoteInv
<1>8. ConflictInv'
    BY <1>1, StutterKeeps DEF RemoteInv
<1>9. RemoteTypeOK'
    BY <1>1, <1>7 DEF RemoteInv, RemoteTypeOK
<1>10. ScriptInv'
    BY <1>1 DEF RemoteInv, ScriptInv, Formed
<1>11. SyncInv'
  <2>1. sync'.n < MaxTries
    BY <1>3, <1>6
  <2> QED BY <1>1, <1>2, <1>3, <1>6, <2>1 DEF RemoteInv, SyncInv, Running
<1>12. LoginInv'
    BY <1>1, <1>3, <1>4, <1>5, <1>6 DEF LoginInv
<1>13. AloneInv'
  <2>1. SUFFICES ASSUME Alone PROVE AloneInv'
    BY <1>1, <1>2 DEF AloneInv, Alone
  <2>2. KeptInv'
    BY <1>2, <2>1 DEF RemoteInv, AloneInv, KeptInv
  <2>3. 0 \notin Tries
    BY DEF Tries
  <2> QED BY <1>1, <1>2, <1>6, <2>1, <2>2, <2>3 DEF RemoteInv, AloneInv
<1> QED BY <1>8, <1>9, <1>10, <1>11, <1>12, <1>13 DEF RemoteInv

LEMMA SendKeeps ==
    ASSUME RemoteInv, remote, UNCHANGED remote, Send
    PROVE  RemoteInv'
<1>1. /\ sync.pc = "ssh" /\ sync' = [sync EXCEPT !.pc = "wait", !.n = @ + 1]
      /\ overlap' = (overlap \/ Running # {}) /\ UNCHANGED <<vars, host, unseen>>
    BY DEF Send
<1>2. script' = [i \in Tries |->
                     IF i = sync.n + 1 THEN [NoScript EXCEPT !.pc = "apply"]
                     ELSE IF i \in Running THEN script[i]
                     ELSE [NoScript EXCEPT !.pc = script[i].pc]]
    BY DEF Send
<1>3. UNCHANGED <<home, codex, report, cold, quarantine, pc, job, said, jobs, starts, original, raced,
                  torn>>
    BY <1>1 DEF vars
<1>4. sync.n \in Nat /\ sync.n \in 0..MaxTries /\ sync.n < MaxTries /\ MaxTries \in Nat \ {0}
    BY <1>1, SyncParts DEF RemoteInv, SyncInv
<1>5. sync'.pc = "wait" /\ sync'.n = sync.n + 1 /\ sync'.authority = sync.authority
    BY <1>1, SyncParts DEF RemoteInv
<1>6. sync.n + 1 \in 0..MaxTries /\ sync.n + 1 \in Tries /\ sync.n + 1 > 0
    BY <1>4 DEF Tries
<1>7. sync' \in [pc : {"idle", "ssh", "wait", "verify", "ok", "failed"},
                 n : 0..MaxTries, authority : 0..MaxLogin]
    BY <1>1, <1>6, SyncParts DEF RemoteInv
<1>8. \A i \in Tries : script[i] \in Scripts /\ Formed(script[i])
    BY DEF RemoteInv, RemoteTypeOK, ScriptInv
<1>9. /\ script'[sync.n + 1] = [NoScript EXCEPT !.pc = "apply"]
      /\ \A i \in Tries : i # sync.n + 1 /\ i \in Running => script'[i] = script[i]
      /\ \A i \in Tries : i # sync.n + 1 /\ i \notin Running =>
            script'[i] = [NoScript EXCEPT !.pc = script[i].pc]
    BY <1>2, <1>6
<1>10. \A i \in Tries : i \notin Running => script[i].pc \in {"none", "done", "failed"}
    BY DEF Running
<1>11. \A i \in Tries : i # sync.n + 1 /\ i \notin Running =>
          /\ script'[i] \in Scripts /\ Formed(script'[i]) /\ script'[i].pc = script[i].pc
          /\ script'[i].before = Missing
  <2>1. SUFFICES ASSUME NEW i \in Tries, i # sync.n + 1, i \notin Running
                 PROVE  /\ script'[i] \in Scripts /\ Formed(script'[i])
                        /\ script'[i].pc = script[i].pc /\ script'[i].before = Missing
    OBVIOUS
  <2>2. script'[i] = [NoScript EXCEPT !.pc = script[i].pc]
    BY <1>9, <2>1
  <2>3. script[i].pc \in {"none", "apply", "config", "plan", "done", "failed"}
    BY <1>10, <2>1
  <2> QED BY <2>2, <2>3, NoScriptIsScript
<1>12. /\ script'[sync.n + 1] \in Scripts /\ Formed(script'[sync.n + 1])
       /\ script'[sync.n + 1].pc = "apply" /\ script'[sync.n + 1].before = Missing
    BY <1>9, NoScriptIsScript
<1>13. ConflictInv'
    BY <1>1, StutterKeeps DEF RemoteInv
<1>14. \A i \in Tries : script'[i] \in Scripts /\ Formed(script'[i])
    BY <1>8, <1>9, <1>11, <1>12
<1>15. RemoteTypeOK'
  <2>1. script' \in [Tries -> Scripts]
    BY <1>2, <1>14
  <2>2. overlap' \in BOOLEAN
    BY <1>1
  <2> QED BY <1>1, <1>7, <2>1, <2>2 DEF RemoteInv, RemoteTypeOK
<1>16. ScriptInv'
    BY <1>14 DEF ScriptInv
<1>17. SyncInv'
  <2>1. \A i \in Tries : i > sync.n + 1 => script'[i].pc = "none"
    <3>1. SUFFICES ASSUME NEW i \in Tries, i > sync.n + 1 PROVE script'[i].pc = "none"
        OBVIOUS
    <3>2. i > sync.n /\ i # sync.n + 1
        BY <1>4, <3>1 DEF Tries
    <3>3. script[i].pc = "none"
        BY <3>2 DEF RemoteInv, SyncInv
    <3>4. i \notin Running
        BY <3>3 DEF Running
    <3> QED BY <1>11, <3>2, <3>3, <3>4
  <2>2. ASSUME ~ overlap', NEW i \in Tries, i < sync.n + 1
        PROVE  i \notin Running' /\ script'[i].before = Missing
    <3>1. i # sync.n + 1 /\ i \notin Running
      <4>1. Running = {}
        BY <1>1, <2>2, Zenon
      <4>2. i # sync.n + 1
        BY <1>4, <2>2 DEF Tries
      <4> QED BY <4>1, <4>2
    <3>2. script'[i].before = Missing /\ script'[i].pc \in {"none", "done", "failed"}
        BY <1>10, <1>11, <3>1
    <3> QED BY <3>2 DEF Running
  <2> QED BY <1>3, <1>5, <1>6, <2>1, <2>2 DEF RemoteInv, SyncInv
<1>18. LoginInv'
    BY <1>1, <1>5 DEF RemoteInv, LoginInv
<1>19. AloneInv'
  <2>1. SUFFICES ASSUME Alone' PROVE AloneInv'
    BY DEF AloneInv
  <2>2. Alone
    BY <1>1, <1>3, <2>1 DEF Alone
  <2>3. KeptInv'
    BY <1>3, <2>2 DEF RemoteInv, AloneInv, KeptInv
  <2>4. ~ codex' /\ ~ torn' /\ \A p \in Places : home'.files[p] = Missing => ~ host'.lines[p]
    BY <1>1, <1>3, <2>2 DEF RemoteInv, AloneInv
  <2>5. \A i \in Tries : i = sync'.n =>
             PlanInv(script[i])' /\ Undoable(script[i])' /\ Written(script[i])'
    BY <1>5, <1>12 DEF PlanInv, Undoable, Written
  <2> QED BY <1>5, <1>12, <2>3, <2>4, <2>5 DEF AloneInv
<1> QED BY <1>13, <1>15, <1>16, <1>17, <1>18, <1>19 DEF RemoteInv

LEMMA ServerStartsKeeps ==
    ASSUME RemoteInv, remote, UNCHANGED remote, ServerStarts
    PROVE  RemoteInv'
<1>1. /\ codex' = TRUE /\ starts' = starts + 1 /\ starts < MaxStarts /\ raced' = TRUE
      /\ UNCHANGED <<home, quarantine, torn, report, cold, pc, job, said, jobs, original, localVars>>
      /\ UNCHANGED <<host, sync, script, overlap, unseen>>
    BY DEF ServerStarts, localVars, remoteVars
<1>2. starts' \in 0..MaxStarts
  <2>1. starts \in 0..MaxStarts /\ MaxStarts \in Nat
    BY ConflictAssumption DEF RemoteInv, ConflictInv, TypeOK, ConflictAssumption
  <2> QED BY <1>1, <2>1
<1>3. pc = "idle" /\ home \in Homes /\ quarantine \subseteq Places \X Body /\ torn \in BOOLEAN
    BY DEF RemoteInv, SyncInv, ConflictInv, TypeOK
<1>4. SurviveInv'
    BY <1>1, <1>3, SurviveStays DEF RemoteInv, ConflictInv
<1>5. ConflictInv'
    BY <1>1, <1>2, <1>3, <1>4, MachineKeepsLocal DEF RemoteInv
<1>6. RemoteTypeOK' /\ ScriptInv'
    BY <1>1 DEF RemoteInv, RemoteTypeOK, ScriptInv, Formed
<1>7. SyncInv' /\ LoginInv'
    BY <1>1 DEF RemoteInv, SyncInv, LoginInv, Running
<1>8. AloneInv'
    BY <1>1 DEF AloneInv, Alone
<1> QED BY <1>5, <1>6, <1>7, <1>8 DEF RemoteInv

LEMMA ServerWritesKeeps ==
    ASSUME RemoteInv, remote, UNCHANGED remote, ServerWrites
    PROVE  RemoteInv'
<1>1. /\ codex /\ UNCHANGED <<host, sync, script, overlap, unseen, pc, raced, torn>>
    BY DEF ServerWrites, CodexWrites, remoteVars
<1>2. ConflictInv'
    BY <1>1, CodexWritesKeeps DEF RemoteInv, ServerWrites
<1>3. RemoteTypeOK' /\ ScriptInv'
    BY <1>1 DEF RemoteInv, RemoteTypeOK, ScriptInv, Formed
<1>4. SyncInv' /\ LoginInv'
    BY <1>1 DEF RemoteInv, SyncInv, LoginInv, Running
<1>5. AloneInv'
    BY <1>1 DEF RemoteInv, AloneInv, Alone
<1> QED BY <1>2, <1>3, <1>4, <1>5 DEF RemoteInv

LEMMA ServerRefreshesKeeps ==
    ASSUME RemoteInv, remote, UNCHANGED remote, ServerRefreshes
    PROVE  RemoteInv'
<1>1. /\ codex /\ host.cred < MaxLogin /\ host' = [host EXCEPT !.cred = @ + 1]
      /\ unseen' = (unseen \/ sync.pc # "idle") /\ UNCHANGED <<vars, sync, script, overlap>>
    BY DEF ServerRefreshes
<1>2. UNCHANGED <<pc, raced>>
    BY <1>1 DEF vars
<1>3. host.cred \in 0..MaxLogin /\ host.cred > 0 /\ MaxLogin \in Nat
    BY SyncParts, HostParts DEF RemoteInv, RemoteTypeOK, LoginInv
<1>4. host.cred + 1 \in 0..MaxLogin /\ host.cred + 1 > 0
    BY <1>1, <1>3
<1>5. host' \in Hosts /\ host'.cred = host.cred + 1
    BY <1>1, <1>4 DEF RemoteInv, RemoteTypeOK, Hosts
<1>6. ConflictInv'
    BY <1>1, StutterKeeps DEF RemoteInv
<1>7. RemoteTypeOK' /\ ScriptInv'
    BY <1>1, <1>5 DEF RemoteInv, RemoteTypeOK, ScriptInv, Formed
<1>8. SyncInv'
    BY <1>1, <1>2 DEF RemoteInv, SyncInv, Running
<1>9. LoginInv'
  <2>1. sync.pc # "idle" => unseen'
    BY <1>1
  <2> QED BY <1>1, <1>4, <1>5, <2>1 DEF RemoteInv, LoginInv
<1>10. AloneInv'
    BY <1>1, <1>2 DEF RemoteInv, AloneInv, Alone
<1> QED BY <1>6, <1>7, <1>8, <1>9, <1>10 DEF RemoteInv

\* Nothing changes.
LEMMA AllStays ==
    ASSUME RemoteInv, UNCHANGED <<vars, remote, remoteVars>>
    PROVE  RemoteInv'
<1>1. UNCHANGED <<home, codex, report, cold, quarantine, pc, job, said, jobs, starts, original, raced,
                  torn, host, sync, script, overlap, unseen>>
    BY DEF vars, remoteVars
<1>2. ConflictInv'
    BY StutterKeeps DEF RemoteInv
<1>3. RemoteTypeOK' /\ ScriptInv'
    BY <1>1 DEF RemoteInv, RemoteTypeOK, ScriptInv, Formed
<1>4. SyncInv' /\ LoginInv'
    BY <1>1 DEF RemoteInv, SyncInv, LoginInv, Running
<1>5. AloneInv'
  <2>1. SUFFICES ASSUME Alone PROVE AloneInv'
    BY <1>1 DEF AloneInv, Alone
  <2>2. \A i \in Tries : i = sync.n =>
             /\ PlanInv(script[i])' /\ Undoable(script[i])' /\ Written(script[i])'
             /\ script'[i].pc = "failed" /\ script'[i].before # Missing =>
                   Here' = script'[i].before
    BY <1>1, <2>1, ScriptStays DEF RemoteInv, AloneInv
  <2>3. KeptInv'
    BY <1>1, <2>1 DEF RemoteInv, AloneInv, KeptInv
  <2>4. sync'.pc = "ok" => AsReported(script[sync.n])'
    BY <1>1, <2>1 DEF RemoteInv, AloneInv, AsReported, Reconciled
  <2>5. ~ codex' /\ ~ torn' /\ \A p \in Places : home'.files[p] = Missing => ~ host'.lines[p]
    BY <1>1, <2>1 DEF RemoteInv, AloneInv
  <2> QED BY <1>1, <2>2, <2>3, <2>4, <2>5 DEF AloneInv
<1> QED BY <1>2, <1>3, <1>4, <1>5 DEF RemoteInv

-----------------------------------------------------------------------------
(* A script, one step at a time *)

\* What every step has to show, and what one that leaves the machine alone has.
LEMMA StepKeeps ==
    ASSUME RemoteInv, remote, UNCHANGED <<remote, pc, raced>>, NEW i \in Tries, Runs(script[i]),
           NEW new \in Scripts, new.pc # "none", Formed(new), Goes(i, new), host' \in Hosts,
           codex' \in {codex, FALSE}, ConflictInv', host'.cred \in {host.cred, sync.authority},
           Alone => /\ HomeAndHostInv'
                    /\ PlanInv(script[i])' /\ Undoable(script[i])' /\ Written(script[i])'
                    /\ script'[i].pc = "failed" /\ script'[i].before # Missing =>
                          Here' = script'[i].before
    PROVE  RemoteInv'
<1>1. RemoteTypeOK' /\ ScriptInv' /\ SyncInv' /\ script'[i] = new
    BY StepFrame
<1>2. AloneInv'
    BY <1>1, StepAlone
<1>3. UNCHANGED <<sync, unseen>>
    BY DEF Goes
<1>4. LoginInv'
    BY <1>3 DEF RemoteInv, LoginInv
<1> QED BY <1>1, <1>2, <1>4 DEF RemoteInv

LEMMA QuietStep ==
    ASSUME RemoteInv, remote, UNCHANGED <<remote, vars, host>>, NEW i \in Tries, Runs(script[i]),
           NEW new \in Scripts, new.pc # "none", Formed(new), Goes(i, new),
           Alone => /\ PlanInv(script[i])' /\ Undoable(script[i])' /\ Written(script[i])'
                    /\ script'[i].pc = "failed" /\ script'[i].before # Missing =>
                          Here' = script'[i].before
    PROVE  RemoteInv'
<1>1. UNCHANGED <<home, pc, raced, codex, original, torn>>
    BY DEF vars
<1>2. ConflictInv'
    BY StutterKeeps DEF RemoteInv
<1>3. host' \in Hosts /\ host'.cred = host.cred
    BY DEF RemoteInv, RemoteTypeOK
<1>4. Alone => HomeAndHostInv'
    BY <1>1 DEF RemoteInv, AloneInv, HomeAndHostInv, KeptInv
<1> QED BY <1>1, <1>2, <1>3, <1>4, StepKeeps

\* A script that ends without an undo, or after one.
LEMMA EndStep ==
    ASSUME RemoteInv, remote, UNCHANGED <<remote, vars, host>>, NEW i \in Tries, Runs(script[i]),
           NEW b \in States \cup {Missing}, Goes(i, Ended(b)),
           Alone /\ b # Missing => Here = b
    PROVE  RemoteInv'
<1>1. Ended(b) \in Scripts /\ Formed(Ended(b)) /\ Ended(b).pc = "failed" /\ Ended(b).before = b
    BY EndedIsScript
<1>2. script'[i] = Ended(b)
    BY DEF Goes, RemoteInv, RemoteTypeOK
<1>3. script'[i].pc = "failed" /\ script'[i].before = b
    BY <1>1, <1>2
<1>4. PlanInv(script[i])' /\ Undoable(script[i])' /\ Written(script[i])'
    BY <1>3 DEF PlanInv, Undoable, Written
<1>5. Here' = Here
    BY DEF Here, vars
<1> QED BY <1>1, <1>3, <1>4, <1>5, QuietStep

LEMMA RefusesKeeps ==
    ASSUME RemoteInv, remote, UNCHANGED remote, NEW i \in Tries, Refuses(i)
    PROVE  RemoteInv'
BY EndStep DEF Refuses, Runs

LEMMA ScriptDiesKeeps ==
    ASSUME RemoteInv, remote, UNCHANGED remote, NEW i \in Tries, ScriptDies(i)
    PROVE  RemoteInv'
BY EndStep DEF ScriptDies, Runs, Running

\* The app server is stopped; the home stays.
LEMMA StopKeeps ==
    ASSUME RemoteInv, remote, StopAppServer
    PROVE  /\ ConflictInv' /\ UNCHANGED <<home, quarantine, pc, raced, original, torn>> /\ codex' = FALSE
<1>1. /\ codex' = FALSE
      /\ UNCHANGED <<home, quarantine, torn, starts, raced, report, cold, pc, job, said, jobs, original, localVars>>
    BY DEF StopAppServer, localVars
<1>2. /\ pc = "idle" /\ home \in Homes /\ quarantine \subseteq Places \X Body
      /\ raced \in BOOLEAN /\ starts \in 0..MaxStarts /\ torn \in BOOLEAN
    BY DEF RemoteInv, SyncInv, ConflictInv, TypeOK
<1>3. SurviveInv'
    BY <1>1, <1>2, SurviveStays DEF RemoteInv, ConflictInv
<1>4. ConflictInv'
    BY <1>1, <1>2, <1>3, MachineKeepsLocal DEF RemoteInv
<1> QED BY <1>1, <1>4

LEMMA WriteCredentialKeeps ==
    ASSUME RemoteInv, remote, UNCHANGED remote, NEW i \in Tries, WriteCredential(i)
    PROVE  RemoteInv'
<1> DEFINE new == [script[i] EXCEPT !.pc = "config"]
<1>1. /\ script[i].pc = "apply" /\ StopAppServer /\ Goes(i, new)
      /\ host' = [host EXCEPT !.cred = sync.authority]
    BY DEF WriteCredential
<1>2. script[i] = [NoScript EXCEPT !.pc = "apply"]
    BY <1>1 DEF RemoteInv, ScriptInv, Formed
<1>3. new = [NoScript EXCEPT !.pc = "config"]
    BY <1>2, NoScriptFields DEF Scripts
<1>4. new \in Scripts /\ Formed(new) /\ new.pc = "config"
    BY <1>3, NoScriptIsScript
<1> HIDE DEF new
<1>5. script'[i] = new
    BY <1>1 DEF Goes, RemoteInv, RemoteTypeOK
<1>6. host \in Hosts /\ sync.authority \in 0..MaxLogin
    BY SyncParts DEF RemoteInv, RemoteTypeOK
<1>7. host' \in Hosts /\ host'.cred = sync.authority /\ host'.lines = host.lines
    BY <1>1, <1>6 DEF Hosts
<1>8. ConflictInv' /\ UNCHANGED <<home, quarantine, pc, raced, original, torn>> /\ codex' = FALSE
    BY <1>1, StopKeeps
<1>9. Alone => HomeAndHostInv'
    BY <1>7, <1>8 DEF RemoteInv, AloneInv, HomeAndHostInv, KeptInv
<1>10. UNCHANGED sync
    BY <1>1 DEF Goes
<1>11. PlanInv(script[i])' /\ Undoable(script[i])' /\ Written(script[i])'
    BY <1>4, <1>5, <1>7, <1>10 DEF PlanInv, Undoable, Written
<1> QED BY <1>1, <1>4, <1>5, <1>7, <1>8, <1>9, <1>11, StepKeeps DEF Runs

LEMMA WriteConfigKeeps ==
    ASSUME RemoteInv, remote, UNCHANGED remote, NEW i \in Tries, WriteConfig(i)
    PROVE  RemoteInv'
<1> DEFINE new == [script[i] EXCEPT !.pc = "plan"]
<1>1. /\ script[i].pc = "config" /\ StopAppServer /\ Goes(i, new)
      /\ host' = [host EXCEPT !.config = TRUE]
    BY DEF WriteConfig, Configured
<1>2. script[i] = [NoScript EXCEPT !.pc = "config"]
    BY <1>1 DEF RemoteInv, ScriptInv, Formed
<1>3. new = [NoScript EXCEPT !.pc = "plan"]
    BY <1>2, NoScriptFields DEF Scripts
<1>4. new \in Scripts /\ Formed(new) /\ new.pc = "plan"
    BY <1>3, NoScriptIsScript
<1> HIDE DEF new
<1>5. script'[i] = new
    BY <1>1 DEF Goes, RemoteInv, RemoteTypeOK
<1>6. host \in Hosts
    BY DEF RemoteInv, RemoteTypeOK
<1>7. host' \in Hosts /\ host'.cred = host.cred /\ host'.lines = host.lines /\ host'.config
    BY <1>1, <1>6 DEF Hosts
<1>8. ConflictInv' /\ UNCHANGED <<home, quarantine, pc, raced, original, torn>> /\ codex' = FALSE
    BY <1>1, StopKeeps
<1>9. Alone => HomeAndHostInv'
    BY <1>7, <1>8 DEF RemoteInv, AloneInv, HomeAndHostInv, KeptInv
<1>10. UNCHANGED sync
    BY <1>1 DEF Goes
<1>11. Alone => host.cred = sync.authority
    BY <1>1, AloneIsLast DEF RemoteInv, AloneInv, Written, Runs
<1>12. Alone => PlanInv(script[i])' /\ Undoable(script[i])' /\ Written(script[i])'
    BY <1>4, <1>5, <1>7, <1>10, <1>11 DEF PlanInv, Undoable, Written
<1> QED BY <1>1, <1>4, <1>5, <1>7, <1>8, <1>9, <1>12, StepKeeps DEF Runs

LEMMA MoveParts ==
    ASSUME NEW m \in Seq(Moves), NEW k \in DOMAIN m
    PROVE  /\ m[k] \in Moves /\ m[k].from \in Places /\ m[k].to \in Places \cup {Missing}
           /\ m[k].body \in Body /\ m[k].line \in BOOLEAN
<1>1. m[k] \in Moves
    OBVIOUS
<1> QED BY <1>1 DEF Moves

\* The old first line of every place is still known.
Knows(l, x, l2, y) == \A p \in Places : \A v : WasLine(l, x, p, v) => WasLine(l2, y, p, v)

Relined(f, l, x, l2, y) ==
    /\ Knows(l, x, l2, y) /\ \A p \in Places : f[p] = Missing => l2[p] = l[p]
    /\ y.moves = x.moves /\ y.before = x.before /\ x.moves \in Seq(Moves)

\* The moves stay; the old first lines are known, and those of missing files stay.
LEMMA MovesStay ==
    ASSUME NEW x, NEW y, NEW f, NEW l, NEW l2, NEW q, OrderInv(x), MovesInv(f, l, q, x),
           Relined(f, l, x, l2, y)
    PROVE  OrderInv(y) /\ MovesInv(f, l2, q, y)
<1>0. /\ Knows(l, x, l2, y) /\ \A p \in Places : f[p] = Missing => l2[p] = l[p]
      /\ y.moves = x.moves /\ y.before = x.before /\ x.moves \in Seq(Moves)
    BY DEF Relined
<1>1. OrderInv(y)
    BY <1>0 DEF OrderInv
<1>2. From(y) = From(x) /\ To(y) = To(x)
    BY <1>0 DEF From, To
<1>3. \A p \in Places \ (From(y) \cup To(y)) :
         f[p] = y.before.home.files[p] /\ WasLine(l2, y, p, y.before.host.lines[p])
    BY <1>0, <1>2 DEF MovesInv, Knows
<1>6. \A k \in DOMAIN x.moves : x.moves[k].from \in Places /\ x.moves[k].to \in Places \cup {Missing}
    BY <1>0, MoveParts
<1>4. ASSUME NEW k \in DOMAIN y.moves
      PROVE  LET mv == y.moves[k]
             IN /\ y.before.home.files[mv.from] = mv.body
                /\ y.before.host.lines[mv.from] = mv.line
                /\ mv.from \notin To(y) => f[mv.from] = Missing /\ ~ l2[mv.from]
                /\ mv.to = Missing => <<mv.from, mv.body>> \in q
                /\ mv.to # Missing => f[mv.to] = mv.body /\ WasLine(l2, y, mv.to, mv.line)
                /\ mv.to # Missing /\ mv.to \notin From(y) => y.before.home.files[mv.to] = Missing
    BY <1>0, <1>2, <1>6 DEF MovesInv, Knows
<1>5. \A p \in Places : y.before.home.files[p] = Missing => ~ y.before.host.lines[p]
    BY <1>0 DEF MovesInv
<1> QED BY <1>1, <1>3, <1>4, <1>5 DEF MovesInv

\* Neither the files nor what the script notes of them changes.
LEMMA SameMoves ==
    ASSUME NEW x, NEW y, y.moves = x.moves, y.before = x.before, y.patched = x.patched,
           x.moves \in Seq(Moves), NEW f, NEW l, NEW q, OrderInv(x), MovesInv(f, l, q, x)
    PROVE  OrderInv(y) /\ MovesInv(f, l, q, y)
<1>1. Knows(l, x, l, y)
    BY DEF WasLine, Knows
<1>2. Relined(f, l, x, l, y)
    BY <1>1 DEF Relined
<1> QED BY <1>2, MovesStay

LEMMA HereIsState ==
    ASSUME RemoteInv
    PROVE  Here \in States /\ Here # Missing /\ Here.home = home /\ Here.host = host
BY StateAssumption DEF RemoteInv, RemoteTypeOK, ConflictInv, TypeOK, Here, States, StateAssumption

\* A script that has just begun has nothing to undo.
LEMMA FreshUndo ==
    ASSUME RemoteInv, Alone, NEW i \in Tries, UNCHANGED <<home, host, quarantine>>,
           script'[i].moves = <<>>, script'[i].patched = <<>>, script'[i].before = Here,
           script'[i].committed = FALSE
    PROVE  Undoable(script[i])'
<1>1. Here.home = home /\ Here.host = host
    BY HereIsState
<1>2. DOMAIN <<>> = {}
    OBVIOUS
<1>3. OrderInv(script[i])' /\ PatchInv(home.files, script[i])'
    BY <1>2 DEF OrderInv, PatchInv
<1>4. From(script[i])' = {} /\ To(script[i])' = {}
    BY <1>2 DEF From, To
<1>5. \A p \in Places : home.files[p] = Missing => ~ host.lines[p]
    BY DEF RemoteInv, AloneInv
<1>6. \A p : WasLine(host.lines, script[i], p, script[i].before.host.lines[p])'
    BY <1>1, <1>2 DEF WasLine
<1>7. MovesInv(home.files, host.lines, quarantine, script[i])'
    BY <1>1, <1>2, <1>4, <1>5, <1>6 DEF MovesInv
<1>8. RowsInv(script[i])'
    BY <1>1 DEF RowsInv
<1> QED BY <1>3, <1>7, <1>8 DEF Undoable

LEMMA CanonicalIsBest ==
    ASSUME NEW t \in Threads, NEW s \in Canonical(t)
    PROVE  /\ s \in Slots /\ home.files[<<t, s>>] # Missing
           /\ \A r \in Copies(home.files, t) : IsPrefix(home.files[<<t, r>>], home.files[<<t, s>>])
<1>1. s \in Supersets(t)
    BY DEF Canonical
<1> QED BY <1>1 DEF Supersets, Copies

LEMMA DestinationIsRight ==
    ASSUME NEW t \in Threads, NEW s, NEW d \in Destinations(t, s)
    PROVE  d \in Root(home.rows[t].archived)
BY DEF Destinations

LEMMA PlanMovesKeeps ==
    ASSUME RemoteInv, remote, UNCHANGED remote, NEW i \in Tries, PlanMoves(i)
    PROVE  RemoteInv'
<1> DEFINE known == {t \in Threads : home.rows[t] # Missing}
<1>1. script[i].pc = "plan" /\ UNCHANGED <<vars, host>>
    BY DEF PlanMoves
<1>2. PICK plan \in [known -> Slots \X Slots] :
             /\ \A t \in known : /\ plan[t][1] \in Canonical(t)
                                 /\ plan[t][2] \in Destinations(t, plan[t][1])
             /\ Goes(i, [script[i] EXCEPT
                            !.pc = "move", !.plan = plan, !.todo = known, !.before = Here,
                            !.losers = {p \in Places : /\ p[1] \in known
                                                       /\ home.files[p] # Missing
                                                       /\ p[2] # plan[p[1]][1]}])
    BY DEF PlanMoves
<1> DEFINE losers == {p \in Places : p[1] \in known /\ home.files[p] # Missing /\ p[2] # plan[p[1]][1]}
           new == [script[i] EXCEPT !.pc = "move", !.plan = plan, !.todo = known, !.before = Here,
                                    !.losers = losers]
<1>3. script[i] = [NoScript EXCEPT !.pc = "plan"] /\ script[i] \in Scripts
    BY <1>1 DEF RemoteInv, ScriptInv, Formed, RemoteTypeOK
<1>4. /\ script[i].moves = <<>> /\ script[i].patched = <<>> /\ script[i].committed = FALSE
    BY <1>3, NoScriptFields DEF Scripts
<1>5. Here \in States /\ Here # Missing /\ Here.home = home /\ Here.host = host
    BY HereIsState
<1>6. plan \in UNION {[D -> Slots \X Slots] : D \in SUBSET Threads} /\ DOMAIN plan = known
    BY <1>2
<1>7. losers \subseteq Places /\ known \subseteq Threads
    OBVIOUS
<1>8. Goes(i, new)
    BY <1>2
<1> HIDE DEF losers, known
<1>9. new \in Scripts
    BY <1>3, <1>5, <1>6, <1>7 DEF Scripts
<1>10. /\ new.pc = "move" /\ new.plan = plan /\ new.todo = known /\ new.before = Here
       /\ new.losers = losers /\ new.moves = <<>> /\ new.patched = <<>> /\ new.committed = FALSE
    BY <1>3, <1>4 DEF Scripts
<1> HIDE DEF new
<1>11. \A t \in known : plan[t] \in Slots \X Slots /\ home.rows[t] # Missing
    BY <1>2 DEF known
<1>12. Formed(new)
  <2>1. DOMAIN <<>> = {}
    OBVIOUS
  <2> QED BY <1>5, <1>6, <1>7, <1>10, <1>11, <2>1 DEF Formed
<1>13. script'[i] = new
    BY <1>8 DEF Goes, RemoteInv, RemoteTypeOK
<1>14. UNCHANGED <<home, quarantine, sync>>
    BY <1>1, <1>8 DEF vars, Goes
<1>15. \A t \in known : plan[t][2] \in Root(home.rows[t].archived)
    BY <1>2, <1>7, DestinationIsRight
<1>16. ASSUME NEW p \in losers
       PROVE  LET best == <<p[1], plan[p[1]][1]>>
              IN /\ p[1] \in known /\ p # best
                 /\ home.files[p] # Missing /\ home.files[best] # Missing
                 /\ IsPrefix(home.files[p], home.files[best])
  <2>1. p \in Places /\ p[1] \in known /\ home.files[p] # Missing /\ p[2] # plan[p[1]][1]
    BY DEF losers
  <2>2. p = <<p[1], p[2]>> /\ p[1] \in Threads /\ p[2] \in Slots
    BY <2>1, PlaceIsPair
  <2>3. plan[p[1]][1] \in Canonical(p[1])
    BY <1>2, <2>1
  <2>4. p[2] \in Copies(home.files, p[1])
    BY <2>1, <2>2 DEF Copies
  <2> QED BY <2>1, <2>2, <2>3, <2>4, CanonicalIsBest
<1>17. PlanInv(script[i])'
  <2>1. DOMAIN <<>> = {}
    OBVIOUS
  <2>2. From(script[i])' = {} /\ To(script[i])' = {}
    BY <1>10, <1>13, <2>1 DEF From, To
  <2> QED BY <1>5, <1>6, <1>10, <1>13, <1>14, <1>15, <1>16, <2>1, <2>2 DEF PlanInv
<1>18. Alone => Undoable(script[i])'
    BY <1>1, <1>10, <1>13, <1>14, FreshUndo
<1>19. Alone => Written(script[i])'
  <2>1. Alone => host.cred = sync.authority /\ host.config
    BY <1>1, AloneIsLast DEF RemoteInv, AloneInv, Written, Runs
  <2> QED BY <1>1, <1>14, <2>1 DEF Written
<1> QED BY <1>1, <1>8, <1>9, <1>10, <1>12, <1>13, <1>17, <1>18, <1>19, QuietStep DEF Runs

LEMMA CheckMovesKeeps ==
    ASSUME RemoteInv, remote, UNCHANGED remote, NEW i \in Tries, CheckMoves(i)
    PROVE  RemoteInv'
<1> DEFINE new == [script[i] EXCEPT !.pc = "done"]
<1>1. script[i].pc = "check" /\ Goes(i, new) /\ UNCHANGED <<vars, host>>
    BY DEF CheckMoves
<1>2. script[i] \in Scripts /\ Formed(script[i])
    BY DEF RemoteInv, RemoteTypeOK, ScriptInv
<1>3. /\ new \in Scripts /\ new.pc = "done" /\ new.plan = script[i].plan
      /\ new.before = script[i].before /\ new.moves = script[i].moves
    BY <1>2 DEF Scripts
<1> HIDE DEF new
<1>4. Formed(new)
    BY <1>2, <1>3 DEF Formed
<1>5. script'[i] = new
    BY <1>1 DEF Goes, RemoteInv, RemoteTypeOK
<1>6. UNCHANGED <<home, sync>>
    BY <1>1 DEF vars, Goes
<1>7. Undoable(script[i])'
    BY <1>3, <1>5 DEF Undoable
<1>8. Alone => i = sync.n
    BY <1>1, AloneIsLast DEF Runs
<1>9. Alone => PlanInv(script[i])' /\ Written(script[i])'
    BY <1>1, <1>3, <1>5, <1>6, <1>8 DEF RemoteInv, AloneInv, PlanInv, Written
<1> QED BY <1>1, <1>3, <1>4, <1>5, <1>7, <1>9, QuietStep DEF Runs

LEMMA ScriptRaisesKeeps ==
    ASSUME RemoteInv, remote, UNCHANGED remote, NEW i \in Tries, ScriptRaises(i)
    PROVE  RemoteInv'
<1> DEFINE new == [script[i] EXCEPT !.pc = "u_rows",
                                    !.before = IF script[i].pc = "plan" THEN Here ELSE @]
<1>1. script[i].pc \in {"plan", "move", "check"} /\ Goes(i, new) /\ UNCHANGED <<vars, host>>
    BY DEF ScriptRaises
<1>2. script[i] \in Scripts /\ Formed(script[i])
    BY DEF RemoteInv, RemoteTypeOK, ScriptInv
<1>3. Here \in States /\ Here # Missing
    BY HereIsState
<1>4. /\ new \in Scripts /\ new.pc = "u_rows" /\ new.plan = script[i].plan
      /\ new.moves = script[i].moves /\ new.patched = script[i].patched
      /\ new.committed = script[i].committed
      /\ new.before = IF script[i].pc = "plan" THEN Here ELSE script[i].before
    BY <1>2, <1>3 DEF Scripts
<1> HIDE DEF new
<1>5. script[i].pc = "plan" => /\ script[i].plan = <<>> /\ script[i].moves = <<>>
                               /\ script[i].patched = <<>> /\ script[i].committed = FALSE
  <2>1. SUFFICES ASSUME script[i].pc = "plan"
                 PROVE  /\ script[i].plan = <<>> /\ script[i].moves = <<>>
                        /\ script[i].patched = <<>> /\ script[i].committed = FALSE
    OBVIOUS
  <2>2. script[i] = [NoScript EXCEPT !.pc = "plan"]
    BY <1>2, <2>1 DEF Formed
  <2> QED BY <2>2, NoScriptFields DEF Scripts
<1>6. Formed(new)
  <2>1. DOMAIN <<>> = {}
    OBVIOUS
  <2> QED BY <1>1, <1>2, <1>3, <1>4, <1>5, <2>1 DEF Formed
<1>7. script'[i] = new
    BY <1>1 DEF Goes, RemoteInv, RemoteTypeOK
<1>8. UNCHANGED <<home, quarantine, sync>>
    BY <1>1 DEF vars, Goes
<1>9. PlanInv(script[i])' /\ Written(script[i])'
    BY <1>4, <1>7 DEF PlanInv, Written
<1>10. ASSUME Alone PROVE Undoable(script[i])'
  <2>1. CASE script[i].pc = "plan"
    BY <1>1, <1>4, <1>5, <1>7, <1>8, <1>10, <2>1, FreshUndo
  <2>2. CASE script[i].pc \in {"move", "check"}
    <3>1. i = sync.n
        BY <1>1, <1>10, AloneIsLast DEF Runs
    <3>2. script[i].before # Missing
        BY <1>2, <2>2 DEF Formed
    <3>3. /\ OrderInv(script[i]) /\ MovesInv(home.files, host.lines, quarantine, script[i])
          /\ PatchInv(home.files, script[i]) /\ RowsInv(script[i])
        BY <1>10, <2>2, <3>1, <3>2 DEF RemoteInv, AloneInv, Undoable
    <3>4. script'[i].before = script[i].before
        BY <1>4, <1>7, <2>2
    <3>5. OrderInv(script[i])' /\ MovesInv(home.files, host.lines, quarantine, script[i])'
        BY <1>1, <1>4, <1>7, <1>8, <3>3, <3>4, SameMoves, ScriptParts
    <3>6. PatchInv(home.files, script[i])'
        BY <1>4, <1>7, <1>8, <3>3 DEF PatchInv
    <3>7. script[i].pc = "move" => ~ script[i].committed
        BY <1>2 DEF Formed
    <3>8. RowsInv(script[i])'
        BY <1>1, <1>4, <1>7, <1>8, <2>2, <3>3, <3>4, <3>7 DEF RowsInv
    <3> QED BY <3>5, <3>6, <3>8 DEF Undoable
  <2> QED BY <1>1, <2>1, <2>2
<1> QED BY <1>1, <1>4, <1>6, <1>7, <1>9, <1>10, QuietStep DEF Runs

\* The undo has put everything back.
LEMMA FilesUndoneKeeps ==
    ASSUME RemoteInv, remote, UNCHANGED remote, NEW i \in Tries, FilesUndone(i)
    PROVE  RemoteInv'
<1> DEFINE x == script[i]
<1>1. /\ x.pc = "u_files" /\ x.patched = <<>> /\ x.moves = <<>>
      /\ Goes(i, Ended(x.before)) /\ UNCHANGED <<vars, host>>
    BY DEF FilesUndone
<1>2. x.before \in States \cup {Missing}
    BY ScriptParts DEF RemoteInv, RemoteTypeOK
<1>3. ASSUME Alone, x.before # Missing PROVE Here = x.before
  <2>1. i = sync.n
    BY <1>1, <1>3, AloneIsLast DEF Runs
  <2>2. MovesInv(home.files, host.lines, quarantine, x) /\ RowsInv(x)
    BY <1>1, <1>3, <2>1 DEF RemoteInv, AloneInv, Undoable
  <2>3. DOMAIN <<>> = {}
    OBVIOUS
  <2>4. From(x) = {} /\ To(x) = {}
    BY <1>1, <2>3 DEF From, To
  <2>5. \A p \in Places : /\ home.files[p] = x.before.home.files[p]
                          /\ WasLine(host.lines, x, p, x.before.host.lines[p])
    BY <2>2, <2>4 DEF MovesInv
  <2>6. \A p \in Places : host.lines[p] = x.before.host.lines[p]
    BY <1>1, <2>3, <2>5 DEF WasLine
  <2>7. /\ home \in Homes /\ host \in Hosts /\ x.before.home \in Homes /\ x.before.host \in Hosts
        /\ x.before = [home |-> x.before.home, host |-> x.before.host]
    BY <1>2, <1>3 DEF RemoteInv, RemoteTypeOK, ConflictInv, TypeOK, States
  <2>8. home.files = x.before.home.files
    BY <2>5, <2>7, HomeParts
  <2>9. host.lines = x.before.host.lines
    BY <2>6, <2>7, HostParts
  <2>10. /\ home.rows = x.before.home.rows /\ host.rows = x.before.host.rows
         /\ host.cred = x.before.host.cred /\ host.config = x.before.host.config
    BY <1>1, <2>2 DEF RowsInv
  <2>11. home = x.before.home
    BY <2>7, <2>8, <2>10, HomeParts
  <2>12. host = x.before.host
    BY <2>7, <2>9, <2>10, HostParts
  <2> QED BY <2>7, <2>11, <2>12 DEF Here
<1> QED BY <1>1, <1>2, <1>3, EndStep DEF Runs

\* The home changes on the machine.
LEMMA ChangeKeepsLocal ==
    ASSUME RemoteInv, remote, NEW h \in Homes, Changes(h), torn' \in BOOLEAN,
           quarantine' \subseteq Places \X Body, SurviveInv'
    PROVE  ConflictInv' /\ UNCHANGED <<pc, raced, original, codex>> /\ home' = h
<1>1. home' = h /\ UNCHANGED <<codex, starts, raced, report, cold, pc, job, said, jobs, original, localVars>>
    BY DEF Changes, localVars
<1>2. pc = "idle" /\ codex \in BOOLEAN /\ raced \in BOOLEAN /\ starts \in 0..MaxStarts
    BY DEF RemoteInv, SyncInv, ConflictInv, TypeOK
<1>3. ConflictInv'
    BY <1>1, <1>2, MachineKeepsLocal DEF RemoteInv
<1> QED BY <1>1, <1>3

\* A file that two programs replaced at the same moment: nothing is said of it.
LEMMA TearKeepsLocal ==
    ASSUME RemoteInv, remote, NEW h \in Homes, Changes(h), torn' = TRUE,
           quarantine' \subseteq Places \X Body
    PROVE  ConflictInv' /\ UNCHANGED <<pc, raced, original, codex>> /\ home' = h
<1>1. pc = "idle" /\ pc' = pc
    BY DEF RemoteInv, SyncInv, Changes, localVars
<1>2. SurviveInv'
    BY <1>1 DEF SurviveInv
<1>3. torn' \in BOOLEAN
    OBVIOUS
<1> QED BY <1>2, <1>3, ChangeKeepsLocal

\* Two programs work on the machine: the script is not alone.
LEMMA NotAlone ==
    ASSUME RemoteInv, remote, NEW i \in Tries, Runs(script[i]), Beside(i)
    PROVE  ~ Alone
<1>1. SUFFICES ASSUME Alone PROVE FALSE
    OBVIOUS
<1>2. PICK j \in Running \ {i} : TRUE
    BY <1>1 DEF Beside, RemoteInv, AloneInv
<1>3. j \in Tries /\ Runs(script[j]) /\ j # i
    BY <1>2 DEF Running, Runs
<1> QED BY <1>1, <1>3, AloneIsLast

\* Only rows change on the machine.
LEMMA RowsOnly ==
    ASSUME RemoteInv, remote, NEW r \in Rows, Changes([home EXCEPT !.rows = r]),
           UNCHANGED <<quarantine, torn>>
    PROVE  /\ ConflictInv' /\ UNCHANGED <<pc, raced, original, codex>>
           /\ home'.files = home.files /\ home'.rows = r
<1>1. /\ home \in Homes /\ pc = "idle" /\ quarantine \subseteq Places \X Body
      /\ torn' \in BOOLEAN
    BY DEF RemoteInv, ConflictInv, TypeOK, SyncInv
<1> DEFINE h == [home EXCEPT !.rows = r]
<1>2. h \in Homes /\ h.files = home.files /\ h.rows = r
    BY <1>1, RowsChange
<1> HIDE DEF h
<1>3. Changes(h)
    BY DEF h
<1>4. home' = h /\ UNCHANGED <<pc, original>>
    BY <1>3 DEF Changes, localVars
<1>5. SurviveInv'
    BY <1>1, <1>2, <1>4, SurviveRows DEF RemoteInv, ConflictInv
<1>6. ConflictInv' /\ UNCHANGED <<pc, raced, original, codex>>
    BY <1>1, <1>2, <1>3, <1>5, ChangeKeepsLocal
<1> QED BY <1>2, <1>4, <1>6

LEMMA CommitRowsKeeps ==
    ASSUME RemoteInv, remote, UNCHANGED remote, NEW i \in Tries, CommitRows(i)
    PROVE  RemoteInv'
<1> DEFINE x == script[i]
           new == [x EXCEPT !.pc = "check", !.committed = TRUE]
           named == {t \in DOMAIN x.plan : home.rows[t] # Missing}
           rows == [t \in Threads |-> IF t \in named THEN [home.rows[t] EXCEPT !.slot = x.plan[t][2]]
                                      ELSE home.rows[t]]
           hrows == [t \in Threads |-> t \in named \/ host.rows[t]]
<1>1. /\ x.pc = "move" /\ Changes([home EXCEPT !.rows = rows])
      /\ host' = [host EXCEPT !.rows = hrows] /\ UNCHANGED <<quarantine, torn>> /\ Goes(i, new)
    BY DEF CommitRows
<1>2. x \in Scripts /\ Formed(x) /\ home \in Homes /\ host \in Hosts
    BY DEF RemoteInv, RemoteTypeOK, ScriptInv, ConflictInv, TypeOK
<1>3. /\ new \in Scripts /\ new.pc = "check" /\ new.committed = TRUE /\ new.plan = x.plan
      /\ new.before = x.before /\ new.moves = x.moves /\ new.patched = x.patched
    BY <1>2 DEF Scripts
<1> HIDE DEF new
<1>4. Formed(new)
    BY <1>1, <1>2, <1>3 DEF Formed
<1>5. /\ DOMAIN x.plan \subseteq Threads /\ \A t \in DOMAIN x.plan : x.plan[t][2] \in Slots
      /\ x.before # Missing /\ \A t \in DOMAIN x.plan : x.before.home.rows[t] # Missing
    BY <1>1, <1>2 DEF Formed
<1>6. rows \in Rows
  <2>1. \A t \in Threads : home.rows[t] \in Row \cup {Missing}
    BY <1>2, HomeParts
  <2>2. \A t \in named : [home.rows[t] EXCEPT !.slot = x.plan[t][2]] \in Row
    BY <1>5, <2>1 DEF Row
  <2> QED BY <2>1, <2>2 DEF Rows
<1>7. /\ \A t \in Threads : rows[t] = IF t \in named THEN [home.rows[t] EXCEPT !.slot = x.plan[t][2]]
                                      ELSE home.rows[t]
    OBVIOUS
<1>8. hrows \in [Threads -> BOOLEAN] /\ \A t \in Threads : t \notin named => hrows[t] = host.rows[t]
  <2>1. \A t \in Threads : host.rows[t] \in BOOLEAN
    BY <1>2, HostParts
  <2> QED BY <2>1
<1> HIDE DEF rows, hrows
<1>9. /\ ConflictInv' /\ UNCHANGED <<pc, raced, original, codex>>
      /\ home'.files = home.files /\ home'.rows = rows
    BY <1>1, <1>6, RowsOnly
<1>10. /\ host' \in Hosts /\ host'.rows = hrows /\ host'.lines = host.lines
       /\ host'.cred = host.cred /\ host'.config = host.config
    BY <1>1, <1>2, <1>8 DEF Hosts
<1>11. script'[i] = new /\ UNCHANGED sync
    BY <1>1 DEF Goes, RemoteInv, RemoteTypeOK
<1>12. Alone => HomeAndHostInv'
    BY <1>1, <1>9, <1>10 DEF RemoteInv, AloneInv, HomeAndHostInv, KeptInv
<1>13. ASSUME Alone
       PROVE  PlanInv(script[i])' /\ Undoable(script[i])' /\ Written(script[i])'
  <2>1. i = sync.n
    BY <1>1, <1>13, AloneIsLast DEF Runs
  <2>2. PlanInv(x) /\ Undoable(x) /\ Written(x)
    BY <1>13, <2>1 DEF RemoteInv, AloneInv
  <2>3. /\ OrderInv(x) /\ MovesInv(home.files, host.lines, quarantine, x)
        /\ PatchInv(home.files, x) /\ RowsInv(x)
    BY <1>1, <1>5, <2>2 DEF Undoable
  <2>4. PlanInv(script[i])' /\ Written(script[i])'
    BY <1>1, <1>3, <1>10, <1>11, <2>2 DEF PlanInv, Written
  <2>5. OrderInv(new) /\ MovesInv(home.files, host.lines, quarantine, new)
    BY <1>3, <2>3, SameMoves, ScriptParts
  <2>6. PatchInv(home.files, new)
    BY <1>3, <2>3 DEF PatchInv
  <2>7. /\ host.cred = x.before.host.cred /\ host.config = x.before.host.config
        /\ home.rows = x.before.home.rows /\ host.rows = x.before.host.rows
    BY <1>1, <2>3 DEF RowsInv
  <2>8. named = DOMAIN x.plan
    BY <1>5, <2>7
  <2>9. RowsInv(script[i])'
    BY <1>3, <1>5, <1>7, <1>8, <1>9, <1>10, <1>11, <2>7, <2>8 DEF RowsInv
  <2> QED BY <1>1, <1>9, <1>10, <1>11, <2>4, <2>5, <2>6, <2>9 DEF Undoable
<1> QED BY <1>1, <1>3, <1>4, <1>9, <1>10, <1>11, <1>12, <1>13, StepKeeps DEF Runs

LEMMA UndoRowsKeeps ==
    ASSUME RemoteInv, remote, UNCHANGED remote, NEW i \in Tries, UndoRows(i)
    PROVE  RemoteInv'
<1> DEFINE x == script[i]
           named == {t \in DOMAIN x.plan : home.rows[t] # Missing}
           rows == [t \in Threads |-> IF t \in named
                                      THEN [home.rows[t] EXCEPT !.slot = x.before.home.rows[t].slot]
                                      ELSE home.rows[t]]
           hrows == [t \in Threads |-> IF t \in named THEN x.before.host.rows[t] ELSE host.rows[t]]
<1>1. x.pc = "u_rows" /\ x \in Scripts /\ Formed(x) /\ home \in Homes /\ host \in Hosts
    BY DEF UndoRows, RemoteInv, RemoteTypeOK, ScriptInv, ConflictInv, TypeOK
<1>2. /\ DOMAIN x.plan \subseteq Threads
      /\ x.before # Missing /\ \A t \in DOMAIN x.plan : x.before.home.rows[t] # Missing
    BY <1>1 DEF Formed
<1>3. x.before \in States /\ x.before.home \in Homes /\ x.before.host \in Hosts
    BY <1>1, <1>2, ScriptParts DEF States
<1>4. ASSUME Alone
      PROVE  /\ OrderInv(x) /\ MovesInv(home.files, host.lines, quarantine, x)
             /\ PatchInv(home.files, x) /\ RowsInv(x)
  <2>1. i = sync.n
    BY <1>1, <1>4, AloneIsLast DEF Runs
  <2> QED BY <1>1, <1>2, <1>4, <2>1 DEF RemoteInv, AloneInv, Undoable
<1>5. CASE /\ x.committed /\ Changes([home EXCEPT !.rows = rows])
           /\ host' = [host EXCEPT !.rows = hrows] /\ UNCHANGED <<quarantine, torn>>
           /\ Goes(i, [x EXCEPT !.pc = "u_files"])
  <2> DEFINE new == [x EXCEPT !.pc = "u_files"]
  <2>1. /\ new \in Scripts /\ new.pc = "u_files" /\ new.plan = x.plan
        /\ new.before = x.before /\ new.moves = x.moves /\ new.patched = x.patched
    BY <1>1 DEF Scripts
  <2> HIDE DEF new
  <2>2. Formed(new)
    BY <1>1, <2>1 DEF Formed
  <2>3. \A t \in Threads : home.rows[t] \in Row \cup {Missing} /\ x.before.home.rows[t] \in Row \cup {Missing}
    BY <1>1, <1>3, HomeParts
  <2>4. rows \in Rows
    <3>1. \A t \in named : [home.rows[t] EXCEPT !.slot = x.before.home.rows[t].slot] \in Row
        BY <1>2, <2>3 DEF Row
    <3> QED BY <2>3, <3>1 DEF Rows
  <2>5. hrows \in [Threads -> BOOLEAN]
    BY <1>1, <1>3, HostParts
  <2>6. \A t \in Threads : rows[t] = IF t \in named
                                     THEN [home.rows[t] EXCEPT !.slot = x.before.home.rows[t].slot]
                                     ELSE home.rows[t]
    OBVIOUS
  <2>7. \A t \in Threads : hrows[t] = IF t \in named THEN x.before.host.rows[t] ELSE host.rows[t]
    OBVIOUS
  <2> HIDE DEF rows, hrows
  <2>8. /\ ConflictInv' /\ UNCHANGED <<pc, raced, original, codex>>
        /\ home'.files = home.files /\ home'.rows = rows
    BY <1>5, <2>4, RowsOnly
  <2>9. /\ host' \in Hosts /\ host'.rows = hrows /\ host'.lines = host.lines
        /\ host'.cred = host.cred /\ host'.config = host.config
    BY <1>1, <1>5, <2>5 DEF Hosts
  <2>10. script'[i] = new /\ UNCHANGED sync
    BY <1>5 DEF Goes, RemoteInv, RemoteTypeOK, new
  <2>11. Alone => HomeAndHostInv'
    BY <1>5, <2>8, <2>9 DEF RemoteInv, AloneInv, HomeAndHostInv, KeptInv
  <2>12. PlanInv(script[i])' /\ Written(script[i])'
    BY <2>1, <2>10 DEF PlanInv, Written
  <2>13. ASSUME Alone PROVE Undoable(script[i])'
    <3>1. OrderInv(new) /\ MovesInv(home.files, host.lines, quarantine, new)
        BY <1>4, <2>1, <2>13, SameMoves, ScriptParts
    <3>2. PatchInv(home.files, new)
        BY <1>4, <2>1, <2>13 DEF PatchInv
    <3>3. /\ host.cred = x.before.host.cred /\ host.config = x.before.host.config
          /\ \A t \in Threads :
               IF t \in DOMAIN x.plan
               THEN home.rows[t] = [x.before.home.rows[t] EXCEPT !.slot = x.plan[t][2]]
               ELSE /\ home.rows[t] = x.before.home.rows[t]
                    /\ host.rows[t] = x.before.host.rows[t]
        BY <1>1, <1>4, <1>5, <2>13 DEF RowsInv
    <3>4. \A t \in DOMAIN x.plan : x.before.home.rows[t] \in Row /\ x.plan[t][2] \in Slots
        BY <1>1, <1>2, <2>3 DEF Formed
    <3>5. \A t \in DOMAIN x.plan : home.rows[t] \in Row
        BY <1>2, <3>3, <3>4 DEF Row
    <3>6. named = DOMAIN x.plan
        BY <3>5, MissingAssumption DEF MissingAssumption
    <3>7. \A t \in DOMAIN x.plan :
             [home.rows[t] EXCEPT !.slot = x.before.home.rows[t].slot] = x.before.home.rows[t]
        BY <1>2, <3>3, <3>4 DEF Row
    <3>8. \A t \in Threads : rows[t] = x.before.home.rows[t] /\ hrows[t] = x.before.host.rows[t]
        BY <2>6, <2>7, <3>3, <3>6, <3>7
    <3>9. rows = x.before.home.rows
        BY <1>3, <2>4, <3>8, HomeParts DEF Rows
    <3>10. hrows = x.before.host.rows
        BY <1>3, <2>5, <3>8, HostParts
    <3>11. RowsInv(script[i])'
        BY <2>1, <2>8, <2>9, <2>10, <3>3, <3>9, <3>10 DEF RowsInv
    <3> QED BY <1>5, <2>8, <2>9, <2>10, <3>1, <3>2, <3>11 DEF Undoable
  <2>14. Goes(i, new)
    BY <1>5 DEF new
  <2> QED BY <1>1, <2>1, <2>2, <2>8, <2>9, <2>10, <2>11, <2>12, <2>13, <2>14, StepKeeps DEF Runs
<1>6. CASE /\ UNCHANGED <<vars, host>>
           /\ Goes(i, [x EXCEPT !.pc = "u_files", !.before = IF x.committed THEN Missing ELSE x.before])
  <2> DEFINE new == [x EXCEPT !.pc = "u_files", !.before = IF x.committed THEN Missing ELSE x.before]
  <2>1. /\ new \in Scripts /\ new.pc = "u_files" /\ new.plan = x.plan
        /\ new.moves = x.moves /\ new.patched = x.patched
        /\ new.before = IF x.committed THEN Missing ELSE x.before
    BY <1>1 DEF Scripts
  <2> HIDE DEF new
  <2>2. Formed(new)
    BY <1>1, <2>1 DEF Formed
  <2>3. Goes(i, new)
    BY <1>6 DEF new
  <2>4. script'[i] = new /\ UNCHANGED <<home, quarantine>>
    BY <1>6, <2>3 DEF Goes, RemoteInv, RemoteTypeOK, vars
  <2>5. PlanInv(script[i])' /\ Written(script[i])'
    BY <2>1, <2>4 DEF PlanInv, Written
  <2>6. ASSUME Alone PROVE Undoable(script[i])'
    <3>1. CASE x.committed
        BY <2>1, <2>4, <3>1 DEF Undoable
    <3>2. CASE ~ x.committed
      <4>1. OrderInv(new) /\ MovesInv(home.files, host.lines, quarantine, new)
        BY <1>4, <2>1, <2>6, <3>2, SameMoves, ScriptParts
      <4>2. PatchInv(home.files, new)
        BY <1>4, <2>1, <2>6 DEF PatchInv
      <4>3. RowsInv(new)
        BY <1>4, <2>1, <2>6, <3>2 DEF RowsInv
      <4>4. RowsInv(script[i])'
        BY <1>6, <2>4, <4>3 DEF RowsInv
      <4> QED BY <1>6, <2>4, <4>1, <4>2, <4>4 DEF Undoable
    <3> QED BY <3>1, <3>2
  <2> QED BY <1>1, <1>6, <2>1, <2>2, <2>3, <2>4, <2>5, <2>6, QuietStep DEF Runs
<1> QED BY <1>1, <1>5, <1>6 DEF UndoRows

-----------------------------------------------------------------------------
(* The first lines *)

LEMMA LinesChange ==
    ASSUME NEW h \in Hosts, NEW p \in Places, NEW v \in BOOLEAN
    PROVE  /\ [h EXCEPT !.lines[p] = v] \in Hosts
           /\ [h EXCEPT !.lines[p] = v].cred = h.cred
           /\ [h EXCEPT !.lines[p] = v].config = h.config
           /\ [h EXCEPT !.lines[p] = v].rows = h.rows
           /\ [h EXCEPT !.lines[p] = v].lines[p] = v
           /\ \A q \in Places : q # p => [h EXCEPT !.lines[p] = v].lines[q] = h.lines[q]
<1> DEFINE l == [h.lines EXCEPT ![p] = v]
<1>1. l \in [Places -> BOOLEAN] /\ l[p] = v /\ \A q \in Places : q # p => l[q] = h.lines[q]
    BY HostParts
<1>2. [h EXCEPT !.lines[p] = v] = [h EXCEPT !.lines = l]
    OBVIOUS
<1> HIDE DEF l
<1>3. [h EXCEPT !.lines = l] = [cred |-> h.cred, config |-> h.config, lines |-> l, rows |-> h.rows]
    BY HostParts
<1>4. [cred |-> h.cred, config |-> h.config, lines |-> l, rows |-> h.rows] \in Hosts
    BY <1>1 DEF Hosts
<1> QED BY <1>1, <1>2, <1>3, <1>4

\* A first line that was not patched is, and the script knows what it was.
Patches(l, x, l2, y, p) ==
    /\ x.patched \in Seq(Places \X BOOLEAN) /\ p \in Places /\ l[p] \in BOOLEAN
    /\ \A k \in DOMAIN x.patched : x.patched[k][1] # p
    /\ y.patched = Append(x.patched, <<p, l[p]>>)
    /\ \A r \in Places : r # p => l2[r] = l[r]

LEMMA LinePatched ==
    ASSUME NEW x, NEW y, NEW p, NEW l, NEW l2, Patches(l, x, l2, y, p)
    PROVE  /\ Knows(l, x, l2, y)
           /\ (\A j, k \in DOMAIN x.patched : x.patched[j][1] = x.patched[k][1] => j = k)
                 => \A j, k \in DOMAIN y.patched : y.patched[j][1] = y.patched[k][1] => j = k
           /\ \A k \in DOMAIN y.patched :
                 y.patched[k][1] = p \/ \E j \in DOMAIN x.patched : y.patched[k] = x.patched[j]
           /\ y.patched # <<>> /\ y.patched \in Seq(Places \X BOOLEAN)
<1> DEFINE s == x.patched
           T == Places \X BOOLEAN
           e == <<p, l[p]>>
           n == Len(s)
<1>0. /\ x.patched \in Seq(Places \X BOOLEAN) /\ p \in Places /\ l[p] \in BOOLEAN
      /\ \A k \in DOMAIN x.patched : x.patched[k][1] # p
      /\ y.patched = Append(x.patched, <<p, l[p]>>)
      /\ \A r \in Places : r # p => l2[r] = l[r]
    BY DEF Patches
<1>1. s \in Seq(T) /\ e \in T /\ y.patched = Append(s, e)
    BY <1>0
<1> HIDE DEF s, T, e
<1>a. /\ Append(s, e) \in Seq(T) /\ Len(s) \in Nat
      /\ DOMAIN s = 1..Len(s) /\ DOMAIN Append(s, e) = 1..(Len(s) + 1)
      /\ \A k \in 1..Len(s) : Append(s, e)[k] = s[k]
      /\ Append(s, e)[Len(s) + 1] = e /\ Append(s, e) # <<>>
    BY <1>1, AppendToSeq
<1>2. /\ y.patched \in Seq(Places \X BOOLEAN) /\ n \in Nat
      /\ DOMAIN x.patched = 1..n /\ DOMAIN y.patched = 1..(n + 1)
      /\ \A k \in 1..n : y.patched[k] = x.patched[k]
      /\ y.patched[n + 1] = <<p, l[p]>> /\ y.patched # <<>>
    BY <1>1, <1>a DEF s, T, e
<1> HIDE DEF n
<1>3. \A k \in DOMAIN y.patched : k \in DOMAIN x.patched \/ k = n + 1
    BY <1>2
<1>4. DOMAIN x.patched \subseteq DOMAIN y.patched /\ n + 1 \in DOMAIN y.patched
    BY <1>2
<1>5. ASSUME NEW r \in Places, NEW v, WasLine(l, x, r, v) PROVE WasLine(l2, y, r, v)
  <2>1. CASE r = p
    <3>1. l[p] = v
        BY <1>0, <1>5, <2>1 DEF WasLine
    <3> QED BY <1>2, <1>4, <2>1, <3>1 DEF WasLine
  <2>2. CASE r # p
    <3>1. (\E k \in DOMAIN y.patched : y.patched[k][1] = r) <=> (\E k \in DOMAIN x.patched : x.patched[k][1] = r)
        BY <1>2, <1>3, <1>4, <2>2
    <3>2. (\E k \in DOMAIN x.patched : x.patched[k] = <<r, v>>) => (\E k \in DOMAIN y.patched : y.patched[k] = <<r, v>>)
        BY <1>2, <1>4
    <3> QED BY <1>0, <1>5, <2>2, <3>1, <3>2 DEF WasLine
  <2> QED BY <2>1, <2>2
<1>6. ASSUME \A j, k \in DOMAIN x.patched : x.patched[j][1] = x.patched[k][1] => j = k,
             NEW j \in DOMAIN y.patched, NEW k \in DOMAIN y.patched, y.patched[j][1] = y.patched[k][1]
      PROVE  j = k
    BY <1>0, <1>2, <1>3, <1>6
<1>7. \A k \in DOMAIN y.patched :
         y.patched[k][1] = p \/ \E j \in DOMAIN x.patched : y.patched[k] = x.patched[j]
    BY <1>2, <1>3
<1>8. Knows(l, x, l2, y)
    BY <1>5 DEF Knows
<1> QED BY <1>2, <1>6, <1>7, <1>8

LEMMA PatchedFront ==
    ASSUME NEW s \in Seq(Places \X BOOLEAN), s # <<>>
    PROVE  /\ Front(s) \in Seq(Places \X BOOLEAN) /\ Len(s) \in Nat /\ Len(s) > 0
           /\ Last(s) = s[Len(s)] /\ Last(s) \in Places \X BOOLEAN
           /\ DOMAIN s = 1..Len(s) /\ DOMAIN Front(s) = 1..(Len(s) - 1)
           /\ \A k \in 1..(Len(s) - 1) : Front(s)[k] = s[k]
BY FrontOfSeq

\* The last one that was patched gets its old line back.
Unpatches(l, x, l2, y) ==
    /\ x.patched \in Seq(Places \X BOOLEAN) /\ x.patched # <<>> /\ y.patched = Front(x.patched)
    /\ \A j, k \in DOMAIN x.patched : x.patched[j][1] = x.patched[k][1] => j = k
    /\ l2[Last(x.patched)[1]] = Last(x.patched)[2]
    /\ \A r \in Places : r # Last(x.patched)[1] => l2[r] = l[r]

LEMMA LineUndone ==
    ASSUME NEW x, NEW y, NEW l, NEW l2, Unpatches(l, x, l2, y)
    PROVE  /\ Knows(l, x, l2, y)
           /\ \A j, k \in DOMAIN y.patched : y.patched[j][1] = y.patched[k][1] => j = k
           /\ \A k \in DOMAIN y.patched : \E j \in DOMAIN x.patched : y.patched[k] = x.patched[j]
           /\ y.patched \in Seq(Places \X BOOLEAN)
<1> DEFINE s == x.patched
           n == Len(s)
           e == Last(s)
<1>0. /\ x.patched \in Seq(Places \X BOOLEAN) /\ x.patched # <<>> /\ y.patched = Front(x.patched)
      /\ \A j, k \in DOMAIN x.patched : x.patched[j][1] = x.patched[k][1] => j = k
      /\ l2[Last(x.patched)[1]] = Last(x.patched)[2]
      /\ \A r \in Places : r # Last(x.patched)[1] => l2[r] = l[r]
    BY DEF Unpatches
<1>a. s \in Seq(Places \X BOOLEAN) /\ s # <<>> /\ y.patched = Front(s)
    BY <1>0
<1> HIDE DEF s
<1>b. /\ Front(s) \in Seq(Places \X BOOLEAN) /\ Len(s) \in Nat /\ Len(s) > 0
      /\ Last(s) = s[Len(s)] /\ Last(s) \in Places \X BOOLEAN
      /\ DOMAIN s = 1..Len(s) /\ DOMAIN Front(s) = 1..(Len(s) - 1)
      /\ \A k \in 1..(Len(s) - 1) : Front(s)[k] = s[k]
    BY <1>a, PatchedFront
<1>1. /\ y.patched \in Seq(Places \X BOOLEAN) /\ n \in Nat /\ n > 0 /\ e = x.patched[n]
      /\ e \in Places \X BOOLEAN
      /\ DOMAIN x.patched = 1..n /\ DOMAIN y.patched = 1..(n - 1)
      /\ \A k \in 1..(n - 1) : y.patched[k] = x.patched[k]
    BY <1>a, <1>b DEF s
<1>2. e = <<e[1], e[2]>>
    BY <1>1
<1> HIDE DEF n, e
<1>3. \A k \in DOMAIN x.patched : k \in DOMAIN y.patched \/ k = n
    BY <1>1
<1>4. DOMAIN y.patched \subseteq DOMAIN x.patched /\ DOMAIN y.patched \subseteq 1..(n - 1) /\ n \in DOMAIN x.patched /\ n \notin DOMAIN y.patched
    BY <1>1
<1>5. \A k \in DOMAIN y.patched : x.patched[k] = y.patched[k] /\ y.patched[k][1] # e[1]
    BY <1>0, <1>1, <1>4
<1>6. ASSUME NEW r \in Places, NEW v, WasLine(l, x, r, v) PROVE WasLine(l2, y, r, v)
  <2>1. CASE r = e[1]
    <3>1. \E k \in DOMAIN x.patched : x.patched[k] = <<r, v>>
        BY <1>1, <1>4, <1>6, <2>1 DEF WasLine
    <3>2. PICK k \in DOMAIN x.patched : x.patched[k] = <<r, v>>
        BY <3>1
    <3>3. x.patched[k][1] = x.patched[n][1]
        BY <1>1, <2>1, <3>2
    <3>6. k = n
        BY <1>0, <1>4, <3>2, <3>3
    <3>4. v = e[2]
        BY <1>1, <3>2, <3>6
    <3>5. l2[r] = v
        BY <1>0, <2>1, <3>4 DEF e, s
    <3> QED BY <1>5, <2>1, <3>5 DEF WasLine
  <2>2. CASE r # e[1]
    <3>4. \A k \in DOMAIN x.patched : x.patched[k][1] = r => k \in DOMAIN y.patched
        BY <1>1, <1>3, <2>2
    <3>1. (\E k \in DOMAIN y.patched : y.patched[k][1] = r) <=> (\E k \in DOMAIN x.patched : x.patched[k][1] = r)
        BY <1>4, <1>5, <3>4
    <3>2. (\E k \in DOMAIN x.patched : x.patched[k] = <<r, v>>) => (\E k \in DOMAIN y.patched : y.patched[k] = <<r, v>>)
      <4>1. SUFFICES ASSUME NEW k \in DOMAIN x.patched, x.patched[k] = <<r, v>>
                     PROVE  \E j \in DOMAIN y.patched : y.patched[j] = <<r, v>>
        OBVIOUS
      <4>2. k # n
        BY <1>1, <2>2, <4>1
      <4> QED BY <1>3, <1>5, <4>1, <4>2
    <3>3. l2[r] = l[r]
        BY <1>0, <1>6, <2>2 DEF e, s
    <3> QED BY <1>6, <3>1, <3>2, <3>3 DEF WasLine
  <2> QED BY <2>1, <2>2
<1>7. \A j, k \in DOMAIN y.patched : y.patched[j][1] = y.patched[k][1] => j = k
    BY <1>0, <1>4, <1>5
<1>8. \A k \in DOMAIN y.patched : \E j \in DOMAIN x.patched : y.patched[k] = x.patched[j]
    BY <1>4, <1>5
<1>9. Knows(l, x, l2, y)
    BY <1>6 DEF Knows
<1> QED BY <1>1, <1>7, <1>8, <1>9

\* A step that only changes first lines, of files that are there.
LEMMA LinesOnly ==
    ASSUME RemoteInv, remote, UNCHANGED <<remote, vars>>, NEW i \in Tries, Runs(script[i]),
           NEW new \in Scripts, Formed(new), new.pc = script[i].pc, Goes(i, new),
           new.plan = script[i].plan, new.before = script[i].before, new.losers = script[i].losers,
           new.todo = script[i].todo, new.moves = script[i].moves,
           new.committed = script[i].committed,
           host' \in Hosts, host'.cred = host.cred, host'.config = host.config, host'.rows = host.rows,
           \A p \in Places : home.files[p] = Missing => host'.lines[p] = host.lines[p],
           Alone /\ script[i].before # Missing =>
              Knows(host.lines, script[i], host'.lines, new) /\ PatchInv(home.files, new)
    PROVE  RemoteInv'
<1> DEFINE x == script[i]
<1>1. UNCHANGED <<home, quarantine, pc, raced, codex, original, torn>>
    BY DEF vars
<1>2. ConflictInv'
    BY StutterKeeps DEF RemoteInv
<1>3. script'[i] = new /\ UNCHANGED sync
    BY DEF Goes, RemoteInv, RemoteTypeOK
<1>4. Alone => HomeAndHostInv'
    BY <1>1 DEF RemoteInv, AloneInv, HomeAndHostInv, KeptInv
<1>5. ASSUME Alone
      PROVE  PlanInv(script[i])' /\ Undoable(script[i])' /\ Written(script[i])'
  <2>1. i = sync.n
    BY <1>5, AloneIsLast
  <2>2. PlanInv(x) /\ Undoable(x) /\ Written(x)
    BY <1>5, <2>1 DEF RemoteInv, AloneInv
  <2>3. From(new) = From(x) /\ To(new) = To(x)
    BY DEF From, To
  <2>4. PlanInv(new)
    BY <2>2, <2>3 DEF PlanInv
  <2>5. PlanInv(script[i])'
    BY <1>1, <1>3, <2>4 DEF PlanInv
  <2>6. Written(script[i])'
    BY <1>3, <2>2 DEF Written
  <2>7. ASSUME x.before # Missing, x.pc \in {"move", "check", "u_rows", "u_files"}
        PROVE  /\ OrderInv(new) /\ MovesInv(home.files, host'.lines, quarantine, new)
               /\ RowsInv(script[i])'
    <3>1. /\ OrderInv(x) /\ MovesInv(home.files, host.lines, quarantine, x) /\ RowsInv(x)
        BY <2>2, <2>7 DEF Undoable
    <3>2. x.moves \in Seq(Moves)
        BY ScriptParts DEF RemoteInv, RemoteTypeOK
    <3>3. OrderInv(new) /\ MovesInv(home.files, host'.lines, quarantine, new)
      <4>1. Relined(home.files, host.lines, x, host'.lines, new)
        BY <1>5, <2>7, <3>2 DEF Relined
      <4> QED BY <3>1, <4>1, MovesStay
    <3>4. RowsInv(script[i])'
        BY <1>1, <1>3, <3>1 DEF RowsInv
    <3> QED BY <3>3, <3>4
  <2>8. Undoable(script[i])'
    BY <1>1, <1>3, <1>5, <2>7 DEF Undoable
  <2> QED BY <2>5, <2>6, <2>8
<1>6. new.pc \notin {"none", "failed"}
    BY DEF Runs
<1> QED BY <1>1, <1>2, <1>3, <1>4, <1>5, <1>6, StepKeeps

\* A line that is written while somebody else writes the file: its end may be lost.
LEMMA TearKeeps ==
    ASSUME RemoteInv, remote, UNCHANGED remote, NEW i \in Tries, Runs(script[i]),
           NEW p \in Places, Rewrites(i, p), ~ UNCHANGED vars,
           NEW new \in Scripts, Formed(new), new.pc = script[i].pc, Goes(i, new),
           new.plan = script[i].plan, new.before = script[i].before,
           new.committed = script[i].committed,
           host' \in Hosts, host'.cred = host.cred, host'.config = host.config, host'.rows = host.rows
    PROVE  RemoteInv'
<1>1. PICK n \in 0..MaxLen : /\ n < Len(home.files[p])
                             /\ Changes([home EXCEPT !.files[p] = SubSeq(home.files[p], 1, n)])
    BY DEF Rewrites
<1>2. Beside(i) /\ torn' = TRUE /\ home.files[p] # Missing /\ UNCHANGED quarantine
    BY DEF Rewrites
<1>3. home \in Homes /\ quarantine \subseteq Places \X Body /\ home.files[p] \in Body
    BY <1>2, HomeParts DEF RemoteInv, ConflictInv, TypeOK
<1> DEFINE b == SubSeq(home.files[p], 1, n)
<1>4. b \in Body
    BY <1>1, <1>3, BeginningIsBody
<1> HIDE DEF b
<1> DEFINE h == [home EXCEPT !.files[p] = b]
<1>5. h \in Homes /\ h.rows = home.rows
    BY <1>3, <1>4, FileChanges
<1>6. Changes(h)
    BY <1>1 DEF b
<1> HIDE DEF h
<1>7. ConflictInv' /\ UNCHANGED <<pc, raced, original, codex>> /\ home' = h
    BY <1>2, <1>3, <1>5, <1>6, TearKeepsLocal
<1>8. ~ Alone
    BY <1>2, NotAlone
<1>9. new.pc # "none" /\ codex' \in {codex, FALSE} /\ host'.cred \in {host.cred, sync.authority}
    BY <1>7 DEF Runs
<1> QED BY <1>7, <1>8, <1>9, StepKeeps

LEMMA PatchKeeps ==
    ASSUME RemoteInv, remote, UNCHANGED remote, NEW i \in Tries, Patch(i)
    PROVE  RemoteInv'
<1> DEFINE x == script[i]
<1>1. x.pc = "move" /\ x.todo = {}
    BY DEF Patch
<1>2. PICK t \in Unpatched(i) :
          /\ home.files[<<t, x.plan[t][2]>>] # Missing
          /\ Rewrites(i, <<t, x.plan[t][2]>>)
          /\ host' = [host EXCEPT !.lines[<<t, x.plan[t][2]>>] = TRUE]
          /\ Goes(i, [x EXCEPT !.patched = Append(@, <<<<t, x.plan[t][2]>>, host.lines[<<t, x.plan[t][2]>>]>>)])
    BY DEF Patch
<1> DEFINE p == <<t, x.plan[t][2]>>
           e == <<p, host.lines[p]>>
           new == [x EXCEPT !.patched = Append(x.patched, e)]
<1>3. x \in Scripts /\ Formed(x) /\ home \in Homes /\ host \in Hosts
    BY DEF RemoteInv, RemoteTypeOK, ScriptInv, ConflictInv, TypeOK
<1>4. /\ t \in DOMAIN x.plan /\ t \in Threads /\ x.plan[t][2] \in Slots
      /\ \A k \in DOMAIN x.patched : x.patched[k][1][1] # t
    BY <1>2, <1>3 DEF Unpatched, Formed
<1>5. p \in Places /\ p[1] = t
    BY <1>4, PlaceParts
<1>6. host.lines[p] \in BOOLEAN /\ x.patched \in Seq(Places \X BOOLEAN)
    BY <1>3, <1>5, HostParts, ScriptParts
<1>7. /\ home.files[p] # Missing /\ host' = [host EXCEPT !.lines[p] = TRUE] /\ Goes(i, new)
      /\ Rewrites(i, p)
    BY <1>2
<1>8. \A k \in DOMAIN x.patched : x.patched[k][1] # p
    BY <1>4, <1>5
<1> HIDE DEF p
<1>9. Append(x.patched, e) \in Seq(Places \X BOOLEAN)
    BY <1>5, <1>6
<1> HIDE DEF e
<1>10. /\ new \in Scripts /\ new.pc = x.pc /\ new.plan = x.plan /\ new.before = x.before
       /\ new.losers = x.losers /\ new.todo = x.todo /\ new.moves = x.moves
       /\ new.committed = x.committed /\ new.patched = Append(x.patched, e)
    BY <1>3, <1>9 DEF Scripts
<1> HIDE DEF new
<1>11. Formed(new)
    BY <1>1, <1>3, <1>10 DEF Formed
<1>12. /\ host' \in Hosts /\ host'.cred = host.cred /\ host'.config = host.config /\ host'.rows = host.rows
       /\ \A q \in Places : q # p => host'.lines[q] = host.lines[q]
  <2> DEFINE v == TRUE
  <2>1. v \in BOOLEAN /\ host' = [host EXCEPT !.lines[p] = v]
    BY <1>7
  <2> HIDE DEF v
  <2> QED BY <1>3, <1>5, <2>1, LinesChange
<1>13. new.patched = Append(x.patched, <<p, host.lines[p]>>)
    BY <1>10 DEF e
<1>17. Patches(host.lines, x, host'.lines, new, p)
    BY <1>5, <1>6, <1>8, <1>12, <1>13 DEF Patches
<1>14. /\ Knows(host.lines, x, host'.lines, new)
       /\ (\A j, k \in DOMAIN x.patched : x.patched[j][1] = x.patched[k][1] => j = k)
             => \A j, k \in DOMAIN new.patched : new.patched[j][1] = new.patched[k][1] => j = k
       /\ \A k \in DOMAIN new.patched :
             new.patched[k][1] = p \/ \E j \in DOMAIN x.patched : new.patched[k] = x.patched[j]
    BY <1>17, LinePatched
<1>15. ASSUME Alone, x.before # Missing PROVE PatchInv(home.files, new)
  <2>1. i = sync.n
    BY <1>1, <1>15, AloneIsLast DEF Runs
  <2>2. PatchInv(home.files, x)
    BY <1>1, <1>15, <2>1 DEF RemoteInv, AloneInv, Undoable
  <2> QED BY <1>1, <1>7, <1>10, <1>14, <2>2 DEF PatchInv
<1>16. \A q \in Places : home.files[q] = Missing => host'.lines[q] = host.lines[q]
    BY <1>7, <1>12
<1>18. CASE UNCHANGED vars
    BY <1>1, <1>7, <1>10, <1>11, <1>12, <1>14, <1>15, <1>16, <1>18, LinesOnly DEF Runs
<1>19. CASE ~ UNCHANGED vars
    BY <1>1, <1>5, <1>7, <1>10, <1>11, <1>12, <1>19, TearKeeps DEF Runs
<1> QED BY <1>18, <1>19

LEMMA UndoLineKeeps ==
    ASSUME RemoteInv, remote, UNCHANGED remote, NEW i \in Tries, UndoLine(i)
    PROVE  RemoteInv'
<1> DEFINE x == script[i]
           e == Last(x.patched)
           new == [x EXCEPT !.patched = Front(x.patched)]
<1>1. x.pc = "u_files" /\ x.patched # <<>>
    BY DEF UndoLine
<1>2. \/ /\ Rewrites(i, e[1])
         /\ host' = IF home.files[e[1]] = Missing THEN host ELSE [host EXCEPT !.lines[e[1]] = e[2]]
         /\ Goes(i, new)
      \/ UNCHANGED <<vars, host>> /\ Goes(i, Ended(Missing))
    BY DEF UndoLine
<1>3. CASE UNCHANGED <<vars, host>> /\ Goes(i, Ended(Missing))
    BY <1>1, <1>3, EndStep DEF Runs
<1>4. CASE /\ Rewrites(i, e[1])
           /\ host' = IF home.files[e[1]] = Missing THEN host ELSE [host EXCEPT !.lines[e[1]] = e[2]]
           /\ Goes(i, new)
  <2>1. x \in Scripts /\ Formed(x) /\ home \in Homes /\ host \in Hosts
    BY DEF RemoteInv, RemoteTypeOK, ScriptInv, ConflictInv, TypeOK
  <2>2. x.patched \in Seq(Places \X BOOLEAN)
    BY <2>1, ScriptParts
  <2>3. /\ Front(x.patched) \in Seq(Places \X BOOLEAN) /\ e \in Places \X BOOLEAN
        /\ Len(x.patched) \in DOMAIN x.patched /\ e = x.patched[Len(x.patched)]
    BY <1>1, <2>2, PatchedFront
  <2>4. e[1] \in Places /\ e[2] \in BOOLEAN
    BY <2>3
  <2>5. /\ new \in Scripts /\ new.pc = x.pc /\ new.plan = x.plan /\ new.before = x.before
        /\ new.losers = x.losers /\ new.todo = x.todo /\ new.moves = x.moves
        /\ new.committed = x.committed /\ new.patched = Front(x.patched)
    BY <2>1, <2>3 DEF Scripts
  <2> HIDE DEF new
  <2>6. Formed(new)
    BY <1>1, <2>1, <2>5 DEF Formed
  <2>7. /\ host' \in Hosts /\ host'.cred = host.cred /\ host'.config = host.config /\ host'.rows = host.rows
        /\ \A q \in Places : q # e[1] => host'.lines[q] = host.lines[q]
        /\ IF home.files[e[1]] = Missing THEN host' = host ELSE host'.lines[e[1]] = e[2]
    <3> HIDE DEF e
    <3>1. CASE home.files[e[1]] = Missing
        BY <1>4, <2>1, <3>1
    <3>2. CASE home.files[e[1]] # Missing
        BY <1>4, <2>1, <2>4, <3>2, LinesChange
    <3> QED BY <3>1, <3>2
  <2>8. \A q \in Places : home.files[q] = Missing => host'.lines[q] = host.lines[q]
    BY <2>7
  <2>9. ASSUME Alone, x.before # Missing
        PROVE  Knows(host.lines, x, host'.lines, new) /\ PatchInv(home.files, new)
    <3>1. i = sync.n
        BY <1>1, <2>9, AloneIsLast DEF Runs
    <3>2. PatchInv(home.files, x)
        BY <1>1, <2>9, <3>1 DEF RemoteInv, AloneInv, Undoable
    <3>3. home.files[e[1]] # Missing
        BY <2>3, <3>2 DEF PatchInv
    <3>4. \A j, k \in DOMAIN x.patched : x.patched[j][1] = x.patched[k][1] => j = k
        BY <3>2 DEF PatchInv
    <3>5. host'.lines[e[1]] = e[2] /\ \A q \in Places : q # e[1] => host'.lines[q] = host.lines[q]
        BY <2>7, <3>3
    <3>8. Unpatches(host.lines, x, host'.lines, new)
        BY <1>1, <2>2, <2>5, <3>4, <3>5 DEF Unpatches
    <3>6. /\ Knows(host.lines, x, host'.lines, new)
          /\ \A j, k \in DOMAIN new.patched : new.patched[j][1] = new.patched[k][1] => j = k
          /\ \A k \in DOMAIN new.patched : \E j \in DOMAIN x.patched : new.patched[k] = x.patched[j]
        BY <3>8, LineUndone
    <3>7. PatchInv(home.files, new)
        BY <1>1, <2>5, <3>2, <3>6 DEF PatchInv
    <3> QED BY <3>6, <3>7
  <2>10. Goes(i, new) /\ Rewrites(i, e[1])
    BY <1>4 DEF new
  <2>11. CASE UNCHANGED vars
    BY <1>1, <2>5, <2>6, <2>7, <2>8, <2>9, <2>10, <2>11, LinesOnly DEF Runs
  <2>12. CASE ~ UNCHANGED vars
    BY <1>1, <2>4, <2>5, <2>6, <2>7, <2>10, <2>12, TearKeeps DEF Runs
  <2> QED BY <2>11, <2>12
<1> QED BY <1>2, <1>3, <1>4

-----------------------------------------------------------------------------
(* The moves *)

LEMMA MovesFront ==
    ASSUME NEW s \in Seq(Moves), s # <<>>
    PROVE  /\ Front(s) \in Seq(Moves) /\ Len(s) \in Nat /\ Len(s) > 0
           /\ Last(s) = s[Len(s)] /\ Last(s) \in Moves
           /\ DOMAIN s = 1..Len(s) /\ DOMAIN Front(s) = 1..(Len(s) - 1)
           /\ \A k \in 1..(Len(s) - 1) : Front(s)[k] = s[k]
BY FrontOfSeq

LEMMA MovesAppend ==
    ASSUME NEW s \in Seq(Moves), NEW mv \in Moves
    PROVE  /\ Append(s, mv) \in Seq(Moves) /\ Len(s) \in Nat
           /\ DOMAIN s = 1..Len(s) /\ DOMAIN Append(s, mv) = 1..(Len(s) + 1)
           /\ \A k \in 1..Len(s) : Append(s, mv)[k] = s[k]
           /\ Append(s, mv)[Len(s) + 1] = mv
BY AppendToSeq

\* A script without patches knows the first lines as they are.
LEMMA LinesAsTheyAre ==
    ASSUME NEW x, x.patched = <<>>, NEW l, NEW p, NEW v
    PROVE  WasLine(l, x, p, v) <=> l[p] = v
<1>1. DOMAIN <<>> = {}
    OBVIOUS
<1> QED BY <1>1 DEF WasLine

\* A file is moved: its place is left for one that is free, or for quarantine.
Added(f, l, q, x, f2, l2, q2, y, mv) ==
    /\ x.moves \in Seq(Moves) /\ mv \in Moves /\ y.moves = Append(x.moves, mv)
    /\ x.patched = <<>> /\ y.patched = <<>> /\ y.before = x.before
    /\ mv.from \notin From(x) /\ mv.from \notin To(x) /\ mv.to \notin To(x) /\ mv.to # mv.from
    /\ f[mv.from] = mv.body /\ l[mv.from] = mv.line /\ (mv.to # Missing => f[mv.to] = Missing)
    /\ f2[mv.from] = Missing /\ ~ l2[mv.from]
    /\ mv.to # Missing => f2[mv.to] = mv.body /\ l2[mv.to] = mv.line
    /\ \A p \in Places : p # mv.from /\ p # mv.to => f2[p] = f[p] /\ l2[p] = l[p]
    /\ q \subseteq q2 /\ (mv.to = Missing => <<mv.from, mv.body>> \in q2)

LEMMA MoveAdded ==
    ASSUME NEW x, NEW y, NEW f, NEW l, NEW q, NEW f2, NEW l2, NEW q2, NEW mv,
           OrderInv(x), MovesInv(f, l, q, x), Added(f, l, q, x, f2, l2, q2, y, mv)
    PROVE  /\ OrderInv(y) /\ MovesInv(f2, l2, q2, y)
           /\ From(y) = From(x) \cup {mv.from} /\ To(y) = To(x) \cup ({mv.to} \ {Missing})
           /\ \A k \in DOMAIN y.moves : y.moves[k] = mv \/ \E j \in DOMAIN x.moves : y.moves[k] = x.moves[j]
<1> DEFINE n == Len(x.moves)
           D == DOMAIN x.moves
<1>1. x.moves \in Seq(Moves) /\ mv \in Moves /\ y.moves = Append(x.moves, mv)
    BY DEF Added
<1>2. /\ n \in Nat /\ D = 1..n /\ DOMAIN y.moves = 1..(n + 1)
      /\ \A k \in 1..n : y.moves[k] = x.moves[k]
      /\ y.moves[n + 1] = mv
    BY <1>1, MovesAppend
<1> HIDE DEF n, D
<1>3. /\ DOMAIN y.moves = D \cup {n + 1} /\ n + 1 \notin D
      /\ \A k \in D : y.moves[k] = x.moves[k] /\ k < n + 1 /\ ~ (n + 1 < k)
    BY <1>2
<1>4. D = DOMAIN x.moves
    BY DEF D
<1>5. From(y) = From(x) \cup {mv.from}
    BY <1>2, <1>3, <1>4 DEF From
<1>6. To(y) = To(x) \cup ({mv.to} \ {Missing})
    BY <1>2, <1>3, <1>4 DEF To
<1>7. \A k \in D : x.moves[k].from \in From(x) /\ (x.moves[k].to # Missing => x.moves[k].to \in To(x))
    BY <1>4 DEF From, To
<1>8. \A k \in D : x.moves[k].from \in Places /\ x.moves[k].to \in Places \cup {Missing}
    BY <1>1, <1>4, MoveParts
<1>9. /\ mv.from \notin From(x) /\ mv.from \notin To(x) /\ mv.to \notin To(x) /\ mv.to # mv.from
      /\ f[mv.from] = mv.body /\ l[mv.from] = mv.line /\ (mv.to # Missing => f[mv.to] = Missing)
      /\ f2[mv.from] = Missing /\ ~ l2[mv.from]
      /\ mv.to # Missing => f2[mv.to] = mv.body /\ l2[mv.to] = mv.line
      /\ \A p \in Places : p # mv.from /\ p # mv.to => f2[p] = f[p] /\ l2[p] = l[p]
      /\ q \subseteq q2 /\ (mv.to = Missing => <<mv.from, mv.body>> \in q2)
      /\ x.patched = <<>> /\ y.patched = <<>> /\ y.before = x.before
    BY DEF Added
<1>10. mv.from \in Places /\ mv.to \in Places \cup {Missing}
    BY <1>1 DEF Moves
<1>11. OrderInv(y)
  <2>1. SUFFICES ASSUME NEW j \in DOMAIN y.moves, NEW k \in DOMAIN y.moves
                 PROVE  /\ y.moves[j].from = y.moves[k].from => j = k
                        /\ y.moves[j].to = y.moves[k].to /\ y.moves[j].to # Missing => j = k
                        /\ y.moves[k].to = y.moves[j].from => j < k
    BY DEF OrderInv
  <2>2. CASE j \in D /\ k \in D
    BY <1>3, <1>4, <2>2 DEF OrderInv
  <2>3. CASE j = n + 1 /\ k \in D
    <3>1. y.moves[j] = mv /\ y.moves[k] = x.moves[k]
        BY <1>2, <1>3, <2>3
    <3>2. x.moves[k].to # Missing => x.moves[k].to \in To(x)
        BY <1>7, <2>3
    <3>3. mv.from # Missing
        BY <1>10, StateAssumption DEF StateAssumption
    <3> QED BY <1>7, <1>9, <2>3, <3>1, <3>2, <3>3
  <2>4. CASE j \in D /\ k = n + 1
    <3>1. y.moves[k] = mv /\ y.moves[j] = x.moves[j] /\ j < k
        BY <1>2, <1>3, <2>4
    <3> QED BY <1>7, <1>9, <2>4, <3>1
  <2>5. CASE j = n + 1 /\ k = n + 1
    BY <1>2, <1>9, <2>5
  <2> QED BY <1>3, <2>2, <2>3, <2>4, <2>5
<1>12. \A p, v : (WasLine(l, x, p, v) <=> l[p] = v) /\ (WasLine(l2, y, p, v) <=> l2[p] = v)
    BY <1>9, LinesAsTheyAre
<1>13. \A p \in Places \ (From(x) \cup To(x)) :
          f[p] = x.before.home.files[p] /\ l[p] = x.before.host.lines[p]
    BY <1>12 DEF MovesInv
<1>14. \A p \in Places \ (From(y) \cup To(y)) :
          f2[p] = y.before.home.files[p] /\ WasLine(l2, y, p, y.before.host.lines[p])
    BY <1>5, <1>6, <1>9, <1>10, <1>12, <1>13, StateAssumption DEF StateAssumption
<1>15. ASSUME NEW k \in DOMAIN y.moves
       PROVE  /\ y.before.home.files[y.moves[k].from] = y.moves[k].body
              /\ y.before.host.lines[y.moves[k].from] = y.moves[k].line
              /\ y.moves[k].from \notin To(y) => f2[y.moves[k].from] = Missing /\ ~ l2[y.moves[k].from]
              /\ y.moves[k].to = Missing => <<y.moves[k].from, y.moves[k].body>> \in q2
              /\ y.moves[k].to # Missing =>
                    /\ f2[y.moves[k].to] = y.moves[k].body
                    /\ WasLine(l2, y, y.moves[k].to, y.moves[k].line)
              /\ y.moves[k].to # Missing /\ y.moves[k].to \notin From(y)
                    => y.before.home.files[y.moves[k].to] = Missing
  <2>1. CASE k = n + 1
    <3>1. y.moves[k] = mv
        BY <1>2, <2>1
    <3>2. y.before.home.files[mv.from] = mv.body /\ y.before.host.lines[mv.from] = mv.line
        BY <1>9, <1>10, <1>13
    <3>3. mv.to # Missing /\ mv.to \notin From(y) => y.before.home.files[mv.to] = Missing
        BY <1>5, <1>9, <1>10, <1>13
    <3> QED BY <1>9, <1>12, <3>1, <3>2, <3>3
  <2>2. CASE k \in D
    <3> DEFINE m == x.moves[k]
    <3>1. y.moves[k] = m
        BY <1>3, <2>2
    <3>2. /\ x.before.home.files[m.from] = m.body
          /\ x.before.host.lines[m.from] = m.line
          /\ m.from \notin To(x) => f[m.from] = Missing /\ ~ l[m.from]
          /\ m.to = Missing => <<m.from, m.body>> \in q
          /\ m.to # Missing => f[m.to] = m.body /\ WasLine(l, x, m.to, m.line)
          /\ m.to # Missing /\ m.to \notin From(x) => x.before.home.files[m.to] = Missing
        BY <1>4, <2>2 DEF MovesInv
    <3>3. /\ m.from \in From(x) /\ (m.to # Missing => m.to \in To(x))
          /\ m.from \in Places /\ m.to \in Places \cup {Missing}
        BY <1>7, <1>8, <2>2
    <3> HIDE DEF m
    <3>4. m.from # mv.from /\ (m.to # Missing => m.to # mv.from /\ m.to # mv.to)
        BY <1>9, <3>3
    <3>5. m.from \notin To(y) => m.from \notin To(x) /\ m.from # mv.to
        BY <1>6, <1>10, <3>3, StateAssumption DEF StateAssumption
    <3>6. m.from \notin To(y) => f2[m.from] = Missing /\ ~ l2[m.from]
        BY <1>9, <3>2, <3>3, <3>4, <3>5
    <3>7. m.to # Missing => f2[m.to] = m.body /\ WasLine(l2, y, m.to, m.line)
        BY <1>9, <1>12, <3>2, <3>3, <3>4
    <3> QED BY <1>5, <1>9, <3>1, <3>2, <3>6, <3>7
  <2> QED BY <1>3, <2>1, <2>2
<1>16. \A p \in Places : y.before.home.files[p] = Missing => ~ y.before.host.lines[p]
    BY <1>9 DEF MovesInv
<1>17. MovesInv(f2, l2, q2, y)
    BY <1>14, <1>15, <1>16 DEF MovesInv
<1>18. \A k \in DOMAIN y.moves : y.moves[k] = mv \/ \E j \in DOMAIN x.moves : y.moves[k] = x.moves[j]
    BY <1>2, <1>3, <1>4
<1> QED BY <1>5, <1>6, <1>11, <1>17, <1>18

\* The last move is undone.
Undone1(f, l, q, x, f2, l2, q2, y, mv) ==
    /\ x.moves \in Seq(Moves) /\ x.moves # <<>> /\ y.moves = Front(x.moves) /\ mv = Last(x.moves)
    /\ x.patched = <<>> /\ y.patched = <<>> /\ y.before = x.before
    /\ x.before.host.lines \in [Places -> BOOLEAN]
    /\ f2[mv.from] = mv.body /\ l2[mv.from] = mv.line
    /\ mv.to # Missing => f2[mv.to] = Missing /\ l2[mv.to] = FALSE
    /\ \A p \in Places : p # mv.from /\ p # mv.to => f2[p] = f[p] /\ l2[p] = l[p]
    /\ \A c \in q : c # <<mv.from, mv.body>> => c \in q2

LEMMA MoveUndone ==
    ASSUME NEW x, NEW y, NEW f, NEW l, NEW q, NEW f2, NEW l2, NEW q2, NEW mv,
           OrderInv(x), MovesInv(f, l, q, x), Undone1(f, l, q, x, f2, l2, q2, y, mv)
    PROVE  OrderInv(y) /\ MovesInv(f2, l2, q2, y)
<1> DEFINE n == Len(x.moves)
           D == DOMAIN y.moves
<1>1. x.moves \in Seq(Moves) /\ x.moves # <<>> /\ y.moves = Front(x.moves) /\ mv = Last(x.moves)
    BY DEF Undone1
<1>2. /\ n \in Nat /\ n > 0 /\ DOMAIN x.moves = 1..n /\ D = 1..(n - 1)
      /\ \A k \in 1..(n - 1) : y.moves[k] = x.moves[k]
      /\ mv = x.moves[n] /\ mv \in Moves
    BY <1>1, MovesFront
<1> HIDE DEF n, D
<1>3. /\ DOMAIN x.moves = D \cup {n} /\ n \notin D
      /\ \A k \in D : y.moves[k] = x.moves[k] /\ k < n /\ ~ (n < k) /\ k # n
    BY <1>2
<1>4. D = DOMAIN y.moves
    BY DEF D
<1>5. From(x) = From(y) \cup {mv.from}
    BY <1>2, <1>3, <1>4 DEF From
<1>6. To(x) = To(y) \cup ({mv.to} \ {Missing})
    BY <1>2, <1>3, <1>4 DEF To
<1>8. \A k \in D : x.moves[k].from \in Places /\ x.moves[k].to \in Places \cup {Missing}
    BY <1>1, <1>3, MoveParts
<1>9. /\ x.patched = <<>> /\ y.patched = <<>> /\ y.before = x.before
      /\ x.before.host.lines \in [Places -> BOOLEAN]
      /\ f2[mv.from] = mv.body /\ l2[mv.from] = mv.line
      /\ mv.to # Missing => f2[mv.to] = Missing /\ l2[mv.to] = FALSE
      /\ \A p \in Places : p # mv.from /\ p # mv.to => f2[p] = f[p] /\ l2[p] = l[p]
      /\ \A c \in q : c # <<mv.from, mv.body>> => c \in q2
    BY DEF Undone1
<1>10. mv.from \in Places /\ mv.to \in Places \cup {Missing} /\ mv.from # Missing
    BY <1>2, StateAssumption DEF Moves, StateAssumption
<1>7. /\ \A k \in D : /\ x.moves[k].from # mv.from /\ x.moves[k].to # mv.from
                      /\ x.moves[k].to # Missing => x.moves[k].to # mv.to
      /\ mv.to # mv.from
  <2>1. n \in DOMAIN x.moves /\ D \subseteq DOMAIN x.moves /\ x.moves[n] = mv
    BY <1>2, <1>3
  <2>2. ~ (n < n)
    BY <1>2
  <2>3. mv.to # mv.from
    BY <2>1, <2>2 DEF OrderInv
  <2>4. ASSUME NEW k \in D
        PROVE  /\ x.moves[k].from # mv.from /\ x.moves[k].to # mv.from
               /\ x.moves[k].to # Missing => x.moves[k].to # mv.to
    BY <1>3, <2>1, <2>4 DEF OrderInv
  <2> QED BY <2>3, <2>4
<1>11. OrderInv(y)
  <2>1. D \subseteq DOMAIN x.moves /\ \A k \in D : y.moves[k] = x.moves[k]
    BY <1>3
  <2> QED BY <1>4, <2>1 DEF OrderInv
<1>12. \A p, v : (WasLine(l, x, p, v) <=> l[p] = v) /\ (WasLine(l2, y, p, v) <=> l2[p] = v)
    BY <1>9, LinesAsTheyAre
<1>13. mv.from \notin From(y) /\ mv.from \notin To(y) /\ mv.from \notin To(x) /\ mv.to \notin To(y)
  <2>1. mv.from \notin From(y) /\ mv.from \notin To(y) /\ mv.to \notin To(y)
    BY <1>3, <1>4, <1>7, <1>10 DEF From, To
  <2> QED BY <1>6, <1>7, <2>1
<1>14. /\ \A p \in Places \ (From(x) \cup To(x)) :
             f[p] = x.before.home.files[p] /\ l[p] = x.before.host.lines[p]
       /\ \A p \in Places : x.before.home.files[p] = Missing => ~ x.before.host.lines[p]
    BY <1>12 DEF MovesInv
<1>15. /\ x.before.home.files[mv.from] = mv.body
       /\ x.before.host.lines[mv.from] = mv.line
       /\ mv.to # Missing /\ mv.to \notin From(x) => x.before.home.files[mv.to] = Missing
    BY <1>2, <1>3 DEF MovesInv
<1>16. ASSUME NEW p \in Places \ (From(y) \cup To(y))
       PROVE  f2[p] = y.before.home.files[p] /\ l2[p] = y.before.host.lines[p]
  <2>1. CASE p = mv.from
    BY <1>9, <1>15, <2>1
  <2>2. CASE p = mv.to
    <3>1. mv.to # Missing /\ mv.to \notin From(x) /\ mv.to \in Places
        BY <1>5, <1>7, <1>10, <2>2, StateAssumption DEF StateAssumption
    <3>2. f2[p] = Missing /\ l2[p] = FALSE
        BY <1>9, <2>2, <3>1
    <3>3. x.before.home.files[p] = Missing /\ ~ x.before.host.lines[p]
        BY <1>14, <1>15, <2>2, <3>1
    <3>4. x.before.host.lines[p] \in BOOLEAN
        BY <1>9
    <3>5. x.before.host.lines[p] = FALSE
        BY <3>3, <3>4
    <3> QED BY <1>9, <3>2, <3>3, <3>5
  <2>3. CASE p # mv.from /\ p # mv.to
    <3>1. p \in Places \ (From(x) \cup To(x))
        BY <1>5, <1>6, <2>3
    <3> QED BY <1>9, <1>14, <2>3, <3>1
  <2> QED BY <2>1, <2>2, <2>3
<1>17. ASSUME NEW k \in DOMAIN y.moves
       PROVE  /\ y.before.home.files[y.moves[k].from] = y.moves[k].body
              /\ y.before.host.lines[y.moves[k].from] = y.moves[k].line
              /\ y.moves[k].from \notin To(y) => f2[y.moves[k].from] = Missing /\ ~ l2[y.moves[k].from]
              /\ y.moves[k].to = Missing => <<y.moves[k].from, y.moves[k].body>> \in q2
              /\ y.moves[k].to # Missing =>
                    /\ f2[y.moves[k].to] = y.moves[k].body
                    /\ WasLine(l2, y, y.moves[k].to, y.moves[k].line)
              /\ y.moves[k].to # Missing /\ y.moves[k].to \notin From(y)
                    => y.before.home.files[y.moves[k].to] = Missing
  <2> DEFINE m == x.moves[k]
  <2>0. k \in D /\ k \in DOMAIN x.moves
    BY <1>3, <1>4
  <2>1. y.moves[k] = m
    BY <1>3, <2>0
  <2>2. /\ x.before.home.files[m.from] = m.body
        /\ x.before.host.lines[m.from] = m.line
        /\ m.from \notin To(x) => f[m.from] = Missing /\ ~ l[m.from]
        /\ m.to = Missing => <<m.from, m.body>> \in q
        /\ m.to # Missing => f[m.to] = m.body /\ WasLine(l, x, m.to, m.line)
        /\ m.to # Missing /\ m.to \notin From(x) => x.before.home.files[m.to] = Missing
    BY <2>0 DEF MovesInv
  <2>3. /\ m.from # mv.from /\ m.to # mv.from /\ (m.to # Missing => m.to # mv.to)
        /\ m.from \in Places /\ m.to \in Places \cup {Missing}
    BY <1>7, <1>8, <2>0
  <2> HIDE DEF m
  <2>4. m.from \notin To(y) => f2[m.from] = Missing /\ ~ l2[m.from]
    <3>1. CASE m.from = mv.to
      <4>1. mv.to # Missing
        BY <2>3, <3>1, StateAssumption DEF StateAssumption
      <4>2. f2[mv.to] = Missing /\ l2[mv.to] = FALSE
        BY <1>9, <4>1
      <4> QED BY <3>1, <4>2
    <3>2. CASE m.from # mv.to
        BY <1>6, <1>9, <2>2, <2>3, <3>2
    <3> QED BY <3>1, <3>2
  <2>5. m.to # Missing => f2[m.to] = m.body /\ WasLine(l2, y, m.to, m.line)
    BY <1>9, <1>12, <2>2, <2>3
  <2>6. m.to = Missing => <<m.from, m.body>> \in q2
    BY <1>9, <2>2, <2>3
  <2>7. m.to # Missing /\ m.to \notin From(y) => x.before.home.files[m.to] = Missing
    BY <1>5, <2>2, <2>3
  <2> QED BY <1>9, <2>1, <2>2, <2>4, <2>5, <2>6, <2>7
<1>18. MovesInv(f2, l2, q2, y)
    BY <1>9, <1>12, <1>14, <1>16, <1>17 DEF MovesInv
<1> QED BY <1>11, <1>18

\* Two places change at once.
FilesWith(h, a, v, b, w) == [h EXCEPT !.files[a] = v, !.files[b] = w]
LinesWith(h, a, v, b, w) == [h EXCEPT !.lines[a] = v, !.lines[b] = w]

\* What a place of a chat may hold, for two places of a home.
TwoFit(h, a, v, b, w) ==
    /\ h \in Homes
    /\ a \in Places /\ v \in Body \cup {Missing}
    /\ b \in Places /\ w \in Body \cup {Missing}

\* Two files, or two first lines, change; the places may be one.
LEMMA AnyTwoFiles ==
    ASSUME NEW h, NEW a, NEW b, NEW v, NEW w, TwoFit(h, a, v, b, w)
    PROVE  FilesWith(h, a, v, b, w) \in Homes /\ FilesWith(h, a, v, b, w).rows = h.rows
<1> DEFINE g == [h EXCEPT !.files[a] = v]
<1>0. /\ h \in Homes
      /\ a \in Places /\ v \in Body \cup {Missing}
      /\ b \in Places /\ w \in Body \cup {Missing}
    BY DEF TwoFit
<1>1. g \in Homes /\ g.rows = h.rows
    BY <1>0, FileChanges
<1>2. FilesWith(h, a, v, b, w) = [g EXCEPT !.files[b] = w]
    BY DEF FilesWith
<1> HIDE DEF g
<1>3. [g EXCEPT !.files[b] = w] \in Homes /\ [g EXCEPT !.files[b] = w].rows = g.rows
    BY <1>0, <1>1, FileChanges
<1> QED BY <1>1, <1>2, <1>3

LEMMA AnyTwoLines ==
    ASSUME NEW o \in Hosts, NEW a \in Places, NEW b \in Places,
           NEW l \in BOOLEAN, NEW m \in BOOLEAN
    PROVE  /\ LinesWith(o, a, l, b, m) \in Hosts /\ LinesWith(o, a, l, b, m).cred = o.cred
           /\ LinesWith(o, a, l, b, m).config = o.config /\ LinesWith(o, a, l, b, m).rows = o.rows
<1> DEFINE k == [o EXCEPT !.lines[a] = l]
<1>1. k \in Hosts /\ k.cred = o.cred /\ k.config = o.config /\ k.rows = o.rows
    BY LinesChange
<1>2. LinesWith(o, a, l, b, m) = [k EXCEPT !.lines[b] = m]
    BY DEF LinesWith
<1> HIDE DEF k
<1>3. /\ [k EXCEPT !.lines[b] = m] \in Hosts /\ [k EXCEPT !.lines[b] = m].cred = k.cred
      /\ [k EXCEPT !.lines[b] = m].config = k.config /\ [k EXCEPT !.lines[b] = m].rows = k.rows
    BY <1>1, LinesChange
<1> QED BY <1>1, <1>2, <1>3

LEMMA TwoFiles ==
    ASSUME NEW h \in Homes, NEW a \in Places, NEW b \in Places, a # b,
           NEW v \in Body \cup {Missing}, NEW w \in Body \cup {Missing}
    PROVE  /\ FilesWith(h, a, v, b, w) \in Homes /\ FilesWith(h, a, v, b, w).rows = h.rows
           /\ FilesWith(h, a, v, b, w).files[a] = v /\ FilesWith(h, a, v, b, w).files[b] = w
           /\ \A q \in Places : q # a /\ q # b => FilesWith(h, a, v, b, w).files[q] = h.files[q]
<1> DEFINE g == [h EXCEPT !.files[a] = v]
<1>1. /\ g \in Homes /\ g.rows = h.rows /\ g.files[a] = v
      /\ \A q \in Places : q # a => g.files[q] = h.files[q]
    BY FileChanges
<1>2. FilesWith(h, a, v, b, w) = [g EXCEPT !.files[b] = w]
    BY DEF FilesWith
<1> HIDE DEF g
<1>3. /\ [g EXCEPT !.files[b] = w] \in Homes /\ [g EXCEPT !.files[b] = w].rows = g.rows
      /\ [g EXCEPT !.files[b] = w].files[b] = w
      /\ \A q \in Places : q # b => [g EXCEPT !.files[b] = w].files[q] = g.files[q]
    BY <1>1, FileChanges
<1> QED BY <1>1, <1>2, <1>3

LEMMA TwoLines ==
    ASSUME NEW h \in Hosts, NEW a \in Places, NEW b \in Places, a # b,
           NEW v \in BOOLEAN, NEW w \in BOOLEAN
    PROVE  /\ LinesWith(h, a, v, b, w) \in Hosts /\ LinesWith(h, a, v, b, w).cred = h.cred
           /\ LinesWith(h, a, v, b, w).config = h.config /\ LinesWith(h, a, v, b, w).rows = h.rows
           /\ LinesWith(h, a, v, b, w).lines[a] = v /\ LinesWith(h, a, v, b, w).lines[b] = w
           /\ \A q \in Places : q # a /\ q # b => LinesWith(h, a, v, b, w).lines[q] = h.lines[q]
<1> DEFINE g == [h EXCEPT !.lines[a] = v]
<1>1. /\ g \in Hosts /\ g.cred = h.cred /\ g.config = h.config /\ g.rows = h.rows /\ g.lines[a] = v
      /\ \A q \in Places : q # a => g.lines[q] = h.lines[q]
    BY LinesChange
<1>2. LinesWith(h, a, v, b, w) = [g EXCEPT !.lines[b] = w]
    BY DEF LinesWith
<1> HIDE DEF g
<1>3. /\ [g EXCEPT !.lines[b] = w] \in Hosts /\ [g EXCEPT !.lines[b] = w].cred = g.cred
      /\ [g EXCEPT !.lines[b] = w].config = g.config /\ [g EXCEPT !.lines[b] = w].rows = g.rows
      /\ [g EXCEPT !.lines[b] = w].lines[b] = w
      /\ \A q \in Places : q # b => [g EXCEPT !.lines[b] = w].lines[q] = g.lines[q]
    BY <1>1, LinesChange
<1> QED BY <1>1, <1>2, <1>3

\* Every copy of a chat is still one of its copies.
Carried ==
    \A t \in Threads : \A r \in Copies(home.files, t) :
       \E s \in Copies(home'.files, t) : home'.files[<<t, s>>] = home.files[<<t, r>>]

\* What is in quarantine stays there or comes home.
LEMMA CarriedSurvives ==
    ASSUME SurviveInv, pc = "idle", pc' = pc, UNCHANGED <<original, torn>>, Carried,
           \A c \in quarantine : c \in quarantine' \/
              \E s \in Copies(home'.files, c[1][1]) : home'.files[<<c[1][1], s>>] = c[2]
    PROVE  SurviveInv' /\ (KeptInv => KeptInv')
<1>1. ASSUME NEW t \in Threads, NEW b, NEW r \in Copies(home.files, t), IsPrefix(b, home.files[<<t, r>>])
      PROVE  \E s \in Copies(home'.files, t) : IsPrefix(b, home'.files[<<t, s>>])
    BY <1>1 DEF Carried
<1>2. KeptInv => KeptInv'
    BY <1>1 DEF KeptInv
<1>3. ASSUME ~ torn, NEW t \in Threads, NEW s \in Slots, original[<<t, s>>] # Missing
      PROVE  AtHome(t, original[<<t, s>>])' \/ Aside(t, original[<<t, s>>])'
  <2> DEFINE b == original[<<t, s>>]
  <2>1. AtHome(t, b) \/ Aside(t, b)
    BY <1>3 DEF SurviveInv
  <2>2. ASSUME NEW r \in Copies(home'.files, t), IsPrefix(b, home'.files[<<t, r>>])
        PROVE  AtHome(t, original[<<t, s>>])'
    BY <2>2 DEF AtHome
  <2>3. CASE AtHome(t, b)
    BY <1>1, <2>2, <2>3 DEF AtHome
  <2>4. CASE Aside(t, b)
    <3>1. PICK c \in quarantine : c[1][1] = t /\ IsPrefix(b, c[2])
        BY <2>4 DEF Aside
    <3>2. CASE c \in quarantine'
        BY <3>1, <3>2 DEF Aside
    <3>3. CASE \E r \in Copies(home'.files, t) : home'.files[<<t, r>>] = c[2]
        BY <2>2, <3>1, <3>3
    <3> QED BY <3>1, <3>2, <3>3
  <2> QED BY <2>1, <2>3, <2>4
<1> QED BY <1>2, <1>3 DEF SurviveInv

\* A file goes to a free place of its chat.
LEMMA ThreadMoveCarries ==
    ASSUME NEW a \in Places, NEW b \in Places, a[1] = b[1], home.files[a] # Missing, home.files[b] = Missing,
           home'.files[b] = home.files[a],
           \A p \in Places : p # a /\ p # b => home'.files[p] = home.files[p]
    PROVE  Carried
<1>1. SUFFICES ASSUME NEW t \in Threads, NEW r \in Copies(home.files, t)
               PROVE  \E s \in Copies(home'.files, t) : home'.files[<<t, s>>] = home.files[<<t, r>>]
    BY DEF Carried
<1>2. r \in Slots /\ <<t, r>> \in Places /\ home.files[<<t, r>>] # Missing
    BY PlaceParts DEF Copies
<1>3. CASE <<t, r>> = a
  <2>1. b = <<t, b[2]>> /\ b[2] \in Slots
    BY <1>3, PlaceIsPair
  <2> QED BY <1>2, <1>3, <2>1 DEF Copies
<1>4. CASE <<t, r>> # a
    BY <1>2, <1>4 DEF Copies
<1> QED BY <1>3, <1>4

\* A file comes back to a free place.
LEMMA NewFileCarries ==
    ASSUME \A p \in Places : home.files[p] # Missing => home'.files[p] = home.files[p]
    PROVE  Carried
<1>1. SUFFICES ASSUME NEW t \in Threads, NEW r \in Copies(home.files, t)
               PROVE  \E s \in Copies(home'.files, t) : home'.files[<<t, s>>] = home.files[<<t, r>>]
    BY DEF Carried
<1>2. r \in Slots /\ <<t, r>> \in Places /\ home.files[<<t, r>>] # Missing
    BY PlaceParts DEF Copies
<1> QED BY <1>2 DEF Copies

\* What is left to show of a step that moves files.
LEMMA MoveStep ==
    ASSUME RemoteInv, remote, UNCHANGED <<remote, pc, raced, codex, original>>, NEW i \in Tries, Runs(script[i]),
           NEW new \in Scripts, Formed(new), new.pc = script[i].pc, Goes(i, new),
           new.plan = script[i].plan, new.before = script[i].before,
           new.committed = script[i].committed, ConflictInv',
           host' \in Hosts, host'.cred = host.cred, host'.config = host.config, host'.rows = host.rows,
           home'.rows = home.rows,
           Alone => /\ UNCHANGED torn
                    /\ KeptInv' /\ \A p \in Places : home'.files[p] = Missing => ~ host'.lines[p]
                    /\ PlanInv(script[i])'
                    /\ script[i].before # Missing =>
                          /\ OrderInv(new) /\ MovesInv(home'.files, host'.lines, quarantine', new)
                          /\ PatchInv(home'.files, new)
    PROVE  RemoteInv'
<1> DEFINE x == script[i]
<1>1. script'[i] = new /\ UNCHANGED sync
    BY DEF Goes, RemoteInv, RemoteTypeOK
<1>2. new.pc \notin {"none", "failed"}
    BY DEF Runs
<1>3. Alone => HomeAndHostInv'
    BY DEF HomeAndHostInv, RemoteInv, AloneInv
<1>4. ASSUME Alone PROVE Undoable(script[i])' /\ Written(script[i])'
  <2>1. i = sync.n
    BY <1>4, AloneIsLast
  <2>2. Undoable(x) /\ Written(x)
    BY <1>4, <2>1 DEF RemoteInv, AloneInv
  <2>3. Written(script[i])'
    BY <1>1, <2>2 DEF Written
  <2>4. RowsInv(x) => RowsInv(script[i])'
    BY <1>1 DEF RowsInv
  <2>5. Undoable(script[i])'
    BY <1>1, <1>4, <2>2, <2>4 DEF Undoable
  <2> QED BY <2>3, <2>5
<1> QED BY <1>1, <1>2, <1>3, <1>4, StepKeeps

LEMMA UndoMoveKeeps ==
    ASSUME RemoteInv, remote, UNCHANGED remote, NEW i \in Tries, UndoMove(i)
    PROVE  RemoteInv'
<1> DEFINE x == script[i]
           mv == Last(x.moves)
           new == [x EXCEPT !.moves = Front(x.moves)]
<1>1. x.pc = "u_files" /\ x.patched = <<>> /\ x.moves # <<>>
    BY DEF UndoMove
<1>2. \/ /\ \/ StillThere(mv) /\ SeenFree(i, mv.from) /\ PutBack(mv)
            \/ ~ (StillThere(mv) /\ home.files[mv.from] = Missing) /\ UNCHANGED <<vars, host>>
         /\ Goes(i, new)
      \/ UNCHANGED <<vars, host>> /\ Goes(i, Ended(Missing))
    BY DEF UndoMove
<1>3. CASE UNCHANGED <<vars, host>> /\ Goes(i, Ended(Missing))
    BY <1>1, <1>3, EndStep DEF Runs
<1>4. CASE /\ \/ StillThere(mv) /\ SeenFree(i, mv.from) /\ PutBack(mv)
              \/ ~ (StillThere(mv) /\ home.files[mv.from] = Missing) /\ UNCHANGED <<vars, host>>
           /\ Goes(i, new)
  <2>1. /\ x \in Scripts /\ Formed(x) /\ home \in Homes /\ host \in Hosts /\ pc = "idle"
        /\ quarantine \subseteq Places \X Body /\ SurviveInv /\ torn \in BOOLEAN
    BY DEF RemoteInv, RemoteTypeOK, ScriptInv, ConflictInv, TypeOK, SyncInv
  <2>2. x.moves \in Seq(Moves) /\ x.before \in States \cup {Missing}
    BY <2>1, ScriptParts
  <2>3. /\ Front(x.moves) \in Seq(Moves) /\ mv \in Moves /\ mv = x.moves[Len(x.moves)]
        /\ Len(x.moves) \in DOMAIN x.moves
    BY <1>1, <2>2, MovesFront
  <2>4. DOMAIN Front(x.moves) \subseteq DOMAIN x.moves /\ \A k \in DOMAIN Front(x.moves) : Front(x.moves)[k] = x.moves[k]
    <3>1. /\ DOMAIN x.moves = 1..Len(x.moves) /\ DOMAIN Front(x.moves) = 1..(Len(x.moves) - 1)
          /\ Len(x.moves) \in Nat
          /\ \A k \in 1..(Len(x.moves) - 1) : Front(x.moves)[k] = x.moves[k]
        BY <1>1, <2>2, MovesFront
    <3>2. 1..(Len(x.moves) - 1) \subseteq 1..Len(x.moves)
        BY <3>1
    <3> QED BY <3>1, <3>2
  <2>5. /\ new \in Scripts /\ new.pc = x.pc /\ new.plan = x.plan /\ new.before = x.before
        /\ new.patched = x.patched /\ new.committed = x.committed /\ new.moves = Front(x.moves)
    BY <2>1, <2>3 DEF Scripts
  <2> HIDE DEF new
  <2>6. Formed(new)
    BY <1>1, <2>1, <2>4, <2>5 DEF Formed
  <2>7. /\ mv.from \in Places /\ mv.to \in Places \cup {Missing} /\ mv.body \in Body
        /\ mv.line \in BOOLEAN /\ (mv.to # Missing => mv.to[1] = mv.from[1])
    BY <2>1, <2>3 DEF Moves, Formed
  <2>8. PatchInv(home'.files, new)
    <3>1. DOMAIN <<>> = {}
        OBVIOUS
    <3> QED BY <1>1, <2>5, <3>1 DEF PatchInv
  <2>9. PlanInv(script[i])'
    <3>1. script'[i] = new
        BY <1>4 DEF Goes, RemoteInv, RemoteTypeOK
    <3> QED BY <1>1, <2>5, <3>1 DEF PlanInv
  <2>10. ASSUME Alone, x.before # Missing
         PROVE  /\ OrderInv(x) /\ MovesInv(home.files, host.lines, quarantine, x)
                /\ x.before.host.lines \in [Places -> BOOLEAN]
                /\ StillThere(mv) /\ home.files[mv.from] = Missing
    <3>1. i = sync.n
        BY <1>1, <2>10, AloneIsLast DEF Runs
    <3>2. OrderInv(x) /\ MovesInv(home.files, host.lines, quarantine, x)
        BY <1>1, <2>10, <3>1 DEF RemoteInv, AloneInv, Undoable
    <3>3. x.before.host \in Hosts
        BY <2>2, <2>10 DEF States
    <3>4. x.before.host.lines \in [Places -> BOOLEAN]
        BY <3>3, HostParts
    <3>5. mv.from \notin To(x)
      <4>1. \A k \in DOMAIN x.moves : ~ (Len(x.moves) < k)
        BY <1>1, <2>2, MovesFront
      <4> QED BY <2>3, <3>2, <4>1 DEF OrderInv, To
    <3>6. StillThere(mv) /\ home.files[mv.from] = Missing
      <4> DEFINE n == Len(x.moves)
      <4>1. n \in DOMAIN x.moves /\ mv = x.moves[n]
        BY <2>3
      <4> HIDE DEF n, mv
      <4>2. /\ mv.from \notin To(x) => home.files[mv.from] = Missing
            /\ mv.to = Missing => <<mv.from, mv.body>> \in quarantine
            /\ mv.to # Missing => home.files[mv.to] = mv.body
        BY <3>2, <4>1 DEF MovesInv
      <4> QED BY <2>7, <3>5, <4>2, MissingAssumption DEF StillThere, MissingAssumption
    <3> QED BY <3>2, <3>4, <3>6
  <2>20. Goes(i, new)
    BY <1>4 DEF new
  <2>21. /\ \/ StillThere(mv) /\ SeenFree(i, mv.from) /\ PutBack(mv)
            \/ ~ (StillThere(mv) /\ home.files[mv.from] = Missing) /\ UNCHANGED <<vars, host>>
    BY <1>4
  <2>11. Alone => KeptInv /\ \A p \in Places : home.files[p] = Missing => ~ host.lines[p]
    BY DEF RemoteInv, AloneInv
  <2> HIDE DEF mv
  <2>12. CASE ~ (StillThere(mv) /\ home.files[mv.from] = Missing) /\ UNCHANGED <<vars, host>>
    <3>1. UNCHANGED <<vars, host>>
        BY <2>12
    <3>2. UNCHANGED <<pc, raced, codex, original, home, torn>> /\ ConflictInv'
        BY <3>1, StutterKeeps DEF vars, RemoteInv
    <3>3. Alone => KeptInv' /\ \A p \in Places : home'.files[p] = Missing => ~ host'.lines[p]
        BY <2>11, <3>1, <3>2 DEF KeptInv
    <3> QED BY <1>1, <2>20, <2>1, <2>5, <2>6, <2>9, <2>10, <2>12, <3>1, <3>2, <3>3, MoveStep DEF Runs
  <2>13. CASE /\ StillThere(mv) /\ home.files[mv.from] = Missing /\ mv.to = Missing
              /\ UNCHANGED torn /\ PutBack(mv)
    <3> DEFINE h == [home EXCEPT !.files[mv.from] = mv.body]
    <3>1. /\ Changes(h) /\ host' = [host EXCEPT !.lines[mv.from] = mv.line]
          /\ quarantine' = quarantine \ {<<mv.from, mv.body>>}
        BY <2>13 DEF PutBack
    <3>2. /\ h \in Homes /\ h.rows = home.rows /\ h.files[mv.from] = mv.body
          /\ \A q \in Places : q # mv.from => h.files[q] = home.files[q]
        BY <2>1, <2>7, FileChanges
    <3> HIDE DEF h
    <3>3. /\ host' \in Hosts /\ host'.cred = host.cred /\ host'.config = host.config
          /\ host'.rows = host.rows /\ host'.lines[mv.from] = mv.line
          /\ \A q \in Places : q # mv.from => host'.lines[q] = host.lines[q]
        BY <2>1, <2>7, <3>1, LinesChange
    <3>4. home' = h /\ UNCHANGED <<pc, original>> /\ torn' \in BOOLEAN /\ quarantine' \subseteq Places \X Body
        BY <2>1, <2>13, <3>1 DEF Changes, localVars
    <3>5. Carried
        BY <2>13, <3>2, <3>4, NewFileCarries
    <3>6. ASSUME NEW c \in quarantine, c \notin quarantine'
          PROVE  \E s \in Copies(home'.files, c[1][1]) : home'.files[<<c[1][1], s>>] = c[2]
      <4>1. c[1] = mv.from /\ c[2] = mv.body
        BY <3>1, <3>6
      <4>2. mv.from[2] \in Slots /\ mv.from = <<mv.from[1], mv.from[2]>>
        BY <2>7, PlaceIsPair
      <4>3. home'.files[mv.from] = mv.body /\ mv.body # Missing
        BY <2>7, <3>2, <3>4, MissingAssumption DEF MissingAssumption
      <4> QED BY <4>1, <4>2, <4>3 DEF Copies
    <3>7. SurviveInv' /\ (KeptInv => KeptInv')
        BY <2>1, <2>13, <3>4, <3>5, <3>6, CarriedSurvives
    <3>8. ConflictInv' /\ UNCHANGED <<pc, raced, original, codex>>
        BY <3>1, <3>2, <3>4, <3>7, ChangeKeepsLocal
    <3>9. mv.body # Missing
        BY <2>7, MissingAssumption DEF MissingAssumption
    <3>10. Alone => KeptInv' /\ \A p \in Places : home'.files[p] = Missing => ~ host'.lines[p]
        BY <2>7, <2>11, <3>2, <3>3, <3>4, <3>7, <3>9
    <3>11. ASSUME Alone, x.before # Missing
           PROVE  OrderInv(new) /\ MovesInv(home'.files, host'.lines, quarantine', new)
      <4>1. Undone1(home.files, host.lines, quarantine, x, home'.files, host'.lines, quarantine', new, mv)
        BY <1>1, <2>2, <2>5, <2>10, <2>13, <3>1, <3>2, <3>3, <3>4, <3>11 DEF Undone1, mv
      <4> QED BY <2>10, <3>11, <4>1, MoveUndone
    <3> QED BY <1>1, <2>20, <2>13, <2>5, <2>6, <2>8, <2>9, <3>2, <3>3, <3>4, <3>8, <3>10, <3>11, MoveStep DEF Runs
  <2>14. CASE /\ StillThere(mv) /\ home.files[mv.from] = Missing /\ mv.to # Missing
              /\ UNCHANGED torn /\ PutBack(mv)
    <3> DEFINE h == FilesWith(home, mv.from, home.files[mv.to], mv.to, Missing)
    <3>1. /\ Changes(h) /\ UNCHANGED quarantine
          /\ host' = LinesWith(host, mv.from, host.lines[mv.to], mv.to, FALSE)
        BY <2>14 DEF PutBack, FilesWith, LinesWith
    <3>0. /\ home.files[mv.to] # Missing /\ mv.to \in Places /\ mv.from # mv.to
          /\ home.files[mv.to] \in Body \cup {Missing} /\ Missing \in Body \cup {Missing}
        BY <2>1, <2>7, <2>14, HomeParts DEF StillThere
    <3>2. /\ h \in Homes /\ h.rows = home.rows /\ h.files[mv.from] = home.files[mv.to]
          /\ h.files[mv.to] = Missing
          /\ \A q \in Places : q # mv.from /\ q # mv.to => h.files[q] = home.files[q]
        BY <2>1, <2>7, <3>0, TwoFiles
    <3> HIDE DEF h
    <3>3. /\ host' \in Hosts /\ host'.cred = host.cred /\ host'.config = host.config
          /\ host'.rows = host.rows /\ host'.lines[mv.from] = host.lines[mv.to]
          /\ host'.lines[mv.to] = FALSE
          /\ \A q \in Places : q # mv.from /\ q # mv.to => host'.lines[q] = host.lines[q]
      <4> DEFINE u == host.lines[mv.to]
                 v == FALSE
      <4>1. v \in BOOLEAN /\ u \in BOOLEAN /\ host' = LinesWith(host, mv.from, u, mv.to, v)
        BY <2>1, <3>0, <3>1, HostParts
      <4> DEFINE g == LinesWith(host, mv.from, u, mv.to, v)
      <4>0. host \in Hosts /\ mv.from \in Places /\ mv.to \in Places /\ mv.from # mv.to
        BY <2>1, <2>7, <3>0
      <4> HIDE DEF u, v
      <4>a. g \in Hosts
        BY <4>0, <4>1, TwoLines
      <4>2. /\ g \in Hosts /\ g.cred = host.cred /\ g.config = host.config
            /\ g.rows = host.rows /\ g.lines[mv.from] = u /\ g.lines[mv.to] = v
            /\ \A q \in Places : q # mv.from /\ q # mv.to => g.lines[q] = host.lines[q]
        BY <4>0, <4>1, TwoLines
      <4> HIDE DEF g
      <4>3. host' = g
        BY <4>1 DEF g
      <4> QED BY <4>2, <4>3 DEF u, v
    <3>4. home' = h /\ UNCHANGED <<pc, original>> /\ torn' \in BOOLEAN /\ quarantine' \subseteq Places \X Body
        BY <2>1, <2>14, <3>1 DEF Changes, localVars
    <3>5. Carried
      <4>1. /\ mv.to \in Places /\ mv.from \in Places /\ mv.to[1] = mv.from[1]
            /\ home.files[mv.to] # Missing /\ home.files[mv.from] = Missing
            /\ home'.files[mv.from] = home.files[mv.to]
            /\ \A p \in Places : p # mv.to /\ p # mv.from => home'.files[p] = home.files[p]
        BY <2>7, <2>14, <3>0, <3>2, <3>4
      <4> QED BY <4>1, ThreadMoveCarries
    <3>7. SurviveInv' /\ (KeptInv => KeptInv')
        BY <2>1, <2>14, <3>1, <3>4, <3>5, CarriedSurvives
    <3>8. ConflictInv' /\ UNCHANGED <<pc, raced, original, codex>>
        BY <3>1, <3>2, <3>4, <3>7, ChangeKeepsLocal
    <3>10. Alone => KeptInv' /\ \A p \in Places : home'.files[p] = Missing => ~ host'.lines[p]
        BY <2>7, <2>11, <3>0, <3>2, <3>3, <3>4, <3>7
    <3>11. ASSUME Alone, x.before # Missing
           PROVE  OrderInv(new) /\ MovesInv(home'.files, host'.lines, quarantine', new)
      <4>1. home.files[mv.to] = mv.body /\ WasLine(host.lines, x, mv.to, mv.line)
        BY <2>3, <2>10, <2>14, <3>11 DEF MovesInv, mv
      <4>2. host.lines[mv.to] = mv.line
        BY <1>1, <4>1, LinesAsTheyAre
      <4>3. Undone1(home.files, host.lines, quarantine, x, home'.files, host'.lines, quarantine', new, mv)
        BY <1>1, <2>2, <2>5, <2>10, <2>14, <3>1, <3>2, <3>3, <3>4, <3>11, <4>1, <4>2 DEF Undone1, mv
      <4> QED BY <2>10, <3>11, <4>3, MoveUndone
    <3> QED BY <1>1, <2>20, <2>14, <2>5, <2>6, <2>8, <2>9, <3>2, <3>3, <3>4, <3>8, <3>10, <3>11, MoveStep DEF Runs
  <2>15. CASE StillThere(mv) /\ home.files[mv.from] # Missing /\ SeenFree(i, mv.from) /\ PutBack(mv)
    <3>1. Beside(i) /\ torn' = TRUE
        BY <2>15 DEF SeenFree
    <3>2. ~ Alone
        BY <1>1, <3>1, NotAlone DEF Runs
    <3>3. ASSUME NEW h \in Homes, Changes(h), h.rows = home.rows, quarantine' \subseteq Places \X Body,
                 host' \in Hosts, host'.cred = host.cred, host'.config = host.config,
                 host'.rows = host.rows
          PROVE  RemoteInv'
      <4>1. ConflictInv' /\ UNCHANGED <<pc, raced, original, codex>> /\ home' = h
        BY <3>1, <3>3, TearKeepsLocal
      <4> QED BY <1>1, <2>5, <2>6, <2>20, <3>2, <3>3, <4>1, MoveStep DEF Runs
    <3>4. CASE mv.to = Missing
      <4> DEFINE h == [home EXCEPT !.files[mv.from] = mv.body]
      <4>1. /\ Changes(h) /\ host' = [host EXCEPT !.lines[mv.from] = mv.line]
            /\ quarantine' \subseteq Places \X Body
        BY <2>1, <2>15, <3>4 DEF PutBack
      <4>2. h \in Homes /\ h.rows = home.rows
        BY <2>1, <2>7, FileChanges
      <4> HIDE DEF h
      <4>3. /\ host' \in Hosts /\ host'.cred = host.cred /\ host'.config = host.config
            /\ host'.rows = host.rows
        BY <2>1, <2>7, <4>1, LinesChange
      <4> QED BY <3>3, <4>1, <4>2, <4>3
    <3>5. CASE mv.to # Missing
      <4> DEFINE u == home.files[mv.to]
                 m == Missing
                 k == host.lines[mv.to]
                 f == FALSE
                 h == FilesWith(home, mv.from, u, mv.to, m)
                 o == LinesWith(host, mv.from, k, mv.to, f)
      <4>1. Changes(h) /\ UNCHANGED quarantine /\ host' = o
        BY <2>15, <3>5 DEF PutBack, FilesWith, LinesWith
      <4>2. /\ u \in Body \cup {Missing} /\ m \in Body \cup {Missing} /\ k \in BOOLEAN
            /\ f \in BOOLEAN /\ mv.from \in Places /\ mv.to \in Places
        BY <2>1, <2>7, <3>5, HomeParts, HostParts
      <4> HIDE DEF u, m, k, f
      <4>5. home \in Homes /\ host \in Hosts
        BY <2>1
      <4>7. TwoFit(home, mv.from, u, mv.to, m)
        BY <4>2, <4>5 DEF TwoFit
      <4>3. h \in Homes /\ h.rows = home.rows
        BY <4>7, AnyTwoFiles
      <4>6. o \in Hosts /\ o.cred = host.cred /\ o.config = host.config /\ o.rows = host.rows
        BY <4>2, <4>5, AnyTwoLines
      <4> HIDE DEF h, o
      <4> QED BY <2>1, <3>3, <4>1, <4>3, <4>6
    <3> QED BY <3>4, <3>5
  <2>16. SeenFree(i, mv.from) /\ home.files[mv.from] = Missing => UNCHANGED torn
    BY <2>1 DEF SeenFree
  <2> QED BY <2>12, <2>13, <2>14, <2>15, <2>16, <2>21
<1> QED BY <1>2, <1>3, <1>4

\* A script that moves files in its first phase is alone with a plan it can keep.
LEMMA MovePhase ==
    ASSUME RemoteInv, Alone, NEW i \in Tries, script[i].pc = "move"
    PROVE  /\ PlanInv(script[i]) /\ OrderInv(script[i]) /\ script[i].before # Missing
           /\ MovesInv(home.files, host.lines, quarantine, script[i])
           /\ PatchInv(home.files, script[i])
           /\ KeptInv /\ \A p \in Places : home.files[p] = Missing => ~ host.lines[p]
<1>1. i = sync.n
    BY AloneIsLast DEF Runs
<1>2. script[i].before # Missing
    BY DEF RemoteInv, ScriptInv, Formed
<1> QED BY <1>1, <1>2 DEF RemoteInv, AloneInv, Undoable

\* The record of a move more.
LEMMA AddFormed ==
    ASSUME NEW x \in Scripts, Formed(x), x.pc = "move", NEW y, y.pc = "move", y.plan = x.plan,
           y.before = x.before, y.committed = x.committed, y.todo \subseteq x.todo,
           NEW mv \in Moves, mv.to # Missing => mv.to[1] = mv.from[1], y.moves = Append(x.moves, mv)
    PROVE  Formed(y)
<1>1. x.moves \in Seq(Moves)
    BY ScriptParts
<1>2. /\ DOMAIN x.moves = 1..Len(x.moves) /\ DOMAIN y.moves = 1..(Len(x.moves) + 1) /\ Len(x.moves) \in Nat
      /\ \A k \in 1..Len(x.moves) : y.moves[k] = x.moves[k]
      /\ y.moves[Len(x.moves) + 1] = mv
    BY <1>1, MovesAppend
<1>3. \A k \in DOMAIN y.moves : k \in DOMAIN x.moves \/ k = Len(x.moves) + 1
    BY <1>2
<1>4. \A k \in DOMAIN y.moves : y.moves[k].to # Missing => y.moves[k].to[1] = y.moves[k].from[1]
    BY <1>2, <1>3 DEF Formed
<1> QED BY <1>4 DEF Formed

LEMMA MoveLoserKeeps ==
    ASSUME RemoteInv, remote, UNCHANGED remote, NEW i \in Tries, MoveLoser(i)
    PROVE  RemoteInv'
<1> DEFINE x == script[i]
<1>1. x.pc = "move"
    BY DEF MoveLoser
<1>2. PICK p \in x.losers :
          /\ home.files[p] # Missing
          /\ Changes([home EXCEPT !.files[p] = Missing])
          /\ host' = [host EXCEPT !.lines[p] = FALSE]
          /\ quarantine' = quarantine \cup {<<p, home.files[p]>>} /\ UNCHANGED torn
          /\ Goes(i, [x EXCEPT !.losers = @ \ {p},
                               !.moves = Append(@, [from |-> p, to |-> Missing, body |-> home.files[p],
                                                    line |-> host.lines[p]])])
    BY DEF MoveLoser
<1> DEFINE mv == [from |-> p, to |-> Missing, body |-> home.files[p], line |-> host.lines[p]]
           new == [x EXCEPT !.losers = x.losers \ {p}, !.moves = Append(x.moves, mv)]
           h == [home EXCEPT !.files[p] = Missing]
<1>3. /\ x \in Scripts /\ Formed(x) /\ home \in Homes /\ host \in Hosts /\ pc = "idle"
      /\ quarantine \subseteq Places \X Body /\ SurviveInv /\ original \in Files /\ torn \in BOOLEAN
    BY DEF RemoteInv, RemoteTypeOK, ScriptInv, ConflictInv, TypeOK, SyncInv
<1>4. p \in Places /\ x.moves \in Seq(Moves) /\ x.losers \ {p} \subseteq Places
    BY <1>3, ScriptParts
<1>5. home.files[p] \in Body /\ host.lines[p] \in BOOLEAN
    BY <1>2, <1>3, <1>4, HomeParts, HostParts
<1>6. /\ mv \in Moves /\ mv.from = p /\ mv.to = Missing /\ mv.body = home.files[p] /\ mv.line = host.lines[p]
    BY <1>4, <1>5 DEF Moves
<1>7. Goes(i, new) /\ Changes(h)
    BY <1>2
<1>8. h \in Homes /\ h.rows = home.rows /\ h.files[p] = Missing /\ \A q \in Places : q # p => h.files[q] = home.files[q]
  <2> DEFINE v == Missing
             g == [home EXCEPT !.files[p] = v]
  <2>1. v \in Body \cup {Missing} /\ h = g
    OBVIOUS
  <2>3. home \in Homes /\ p \in Places
    BY <1>3, <1>4
  <2> HIDE DEF v, h
  <2>2. g \in Homes /\ g.rows = home.rows /\ g.files[p] = v /\ \A q \in Places : q # p => g.files[q] = home.files[q]
    BY <2>1, <2>3, FileChanges
  <2> HIDE DEF g
  <2> QED BY <2>1, <2>2 DEF v
<1> HIDE DEF mv, h
<1>9. Append(x.moves, mv) \in Seq(Moves)
    BY <1>4, <1>6, MovesAppend
<1>10. /\ new \in Scripts /\ new.pc = x.pc /\ new.plan = x.plan /\ new.before = x.before
       /\ new.patched = x.patched /\ new.committed = x.committed /\ new.todo = x.todo
       /\ new.losers = x.losers \ {p} /\ new.moves = Append(x.moves, mv)
    BY <1>3, <1>4, <1>9 DEF Scripts
<1> HIDE DEF new
<1>11. Formed(new)
    BY <1>1, <1>3, <1>6, <1>10, AddFormed
<1>12. /\ host' \in Hosts /\ host'.cred = host.cred /\ host'.config = host.config
       /\ host'.rows = host.rows /\ host'.lines[p] = FALSE
       /\ \A q \in Places : q # p => host'.lines[q] = host.lines[q]
  <2> DEFINE v == FALSE
             g == [host EXCEPT !.lines[p] = v]
  <2>1. v \in BOOLEAN /\ host' = g
    BY <1>2
  <2> HIDE DEF v
  <2>2. /\ g \in Hosts /\ g.cred = host.cred /\ g.config = host.config
        /\ g.rows = host.rows /\ g.lines[p] = v
        /\ \A q \in Places : q # p => g.lines[q] = host.lines[q]
    BY <1>3, <1>4, <2>1, LinesChange
  <2> HIDE DEF g
  <2> QED BY <2>1, <2>2 DEF v
<1>13. home' = h /\ UNCHANGED <<pc, original>> /\ quarantine' = quarantine \cup {<<p, home.files[p]>>}
    BY <1>2, <1>7 DEF Changes, localVars
<1>14. quarantine' \subseteq Places \X Body /\ UNCHANGED torn /\ torn' \in BOOLEAN
    BY <1>2, <1>3, <1>4, <1>5, <1>13
<1>15. SurviveInv'
  <2>1. ASSUME ~ torn, NEW t \in Threads, NEW s \in Slots, original[<<t, s>>] # Missing
        PROVE  AtHome(t, original[<<t, s>>])' \/ Aside(t, original[<<t, s>>])'
    <3> DEFINE b == original[<<t, s>>]
    <3>1. CASE Aside(t, b)
        BY <1>13, <3>1 DEF Aside
    <3>2. CASE AtHome(t, b)
      <4>1. PICK r \in Copies(home.files, t) : IsPrefix(b, home.files[<<t, r>>])
        BY <3>2 DEF AtHome
      <4>2. r \in Slots /\ <<t, r>> \in Places /\ home.files[<<t, r>>] # Missing /\ <<t, r>>[1] = t
        BY PlaceParts DEF Copies
      <4>3. CASE <<t, r>> = p
        <5> DEFINE c == <<p, home.files[p]>>
        <5>1. c \in quarantine' /\ c[1] = p /\ c[2] = home.files[p]
            BY <1>13
        <5>2. p[1] = t /\ IsPrefix(b, home.files[p])
            BY <4>1, <4>2, <4>3
        <5> QED BY <1>13, <5>1, <5>2 DEF Aside
      <4>4. CASE <<t, r>> # p
        <5>1. home'.files[<<t, r>>] = home.files[<<t, r>>]
            BY <1>8, <1>13, <4>2, <4>4
        <5> QED BY <1>3, <1>13, <4>1, <4>2, <5>1 DEF AtHome, Copies
      <4> QED BY <4>3, <4>4
    <3> QED BY <1>3, <2>1, <3>1, <3>2 DEF SurviveInv
  <2> QED BY <1>3, <1>13, <1>14, <2>1 DEF SurviveInv
<1>16. ConflictInv' /\ UNCHANGED <<pc, raced, original, codex>>
    BY <1>7, <1>8, <1>14, <1>15, ChangeKeepsLocal
<1>17. ASSUME Alone
       PROVE  /\ KeptInv' /\ \A q \in Places : home'.files[q] = Missing => ~ host'.lines[q]
              /\ PlanInv(script[i])'
              /\ OrderInv(new) /\ MovesInv(home'.files, host'.lines, quarantine', new)
              /\ PatchInv(home'.files, new)
  <2> DEFINE best(r) == <<r[1], x.plan[r[1]][1]>>
  <2>1. /\ PlanInv(x) /\ OrderInv(x) /\ MovesInv(home.files, host.lines, quarantine, x)
        /\ PatchInv(home.files, x) /\ KeptInv
        /\ \A q \in Places : home.files[q] = Missing => ~ host.lines[q]
    BY <1>1, <1>17, MovePhase
  <2>2. /\ \A r \in x.losers :
             /\ r[1] \in x.todo /\ r # best(r)
             /\ home.files[r] # Missing /\ home.files[best(r)] # Missing
             /\ IsPrefix(home.files[r], home.files[best(r)])
             /\ r \notin From(x) /\ r \notin To(x)
        /\ \A t \in x.todo : <<t, x.plan[t][1]>> \notin From(x) \cup To(x)
        /\ \A k \in DOMAIN x.moves : x.moves[k].from[1] \in x.todo => x.moves[k].to = Missing
    BY <1>1, <2>1 DEF PlanInv
  <2>3. \A t \in x.todo : t \in Threads /\ x.plan[t][1] \in Slots /\ <<t, x.plan[t][1]>> \in Places
    BY <1>1, <1>3, PlaceParts DEF Formed
  <2>4. ASSUME NEW r \in x.losers PROVE best(r) # p /\ best(r) \in Places
    <3>1. best(r) \in Places
        BY <2>2, <2>3
    <3>2. ASSUME best(r) = p PROVE FALSE
      <4>1. p[1] = r[1]
        BY <3>2
      <4>2. best(p) = p
        BY <3>2, <4>1
      <4> QED BY <2>2, <4>2
    <3> QED BY <3>1, <3>2
  <2> HIDE DEF best
  <2>5. KeptInv'
    <3>1. SUFFICES ASSUME NEW t \in Threads, NEW s \in Slots, original[<<t, s>>] # Missing
                   PROVE  \E r \in Copies(home'.files, t) : IsPrefix(original[<<t, s>>], home'.files[<<t, r>>])
        BY <1>13 DEF KeptInv
    <3> DEFINE b == original[<<t, s>>]
    <3>2. PICK r \in Copies(home.files, t) : IsPrefix(b, home.files[<<t, r>>])
        BY <2>1, <3>1 DEF KeptInv
    <3>3. r \in Slots /\ <<t, r>> \in Places /\ home.files[<<t, r>>] # Missing /\ <<t, r>>[1] = t
        BY <3>2, PlaceParts DEF Copies
    <3>4. CASE <<t, r>> # p
      <4>1. home'.files[<<t, r>>] = home.files[<<t, r>>]
        BY <1>8, <1>13, <3>3, <3>4
      <4> QED BY <3>2, <3>3, <4>1 DEF Copies
    <3>5. CASE <<t, r>> = p
      <4>1. /\ best(p) \in Places /\ best(p) # p /\ home.files[best(p)] # Missing
            /\ IsPrefix(home.files[p], home.files[best(p)])
        BY <2>2, <2>4
      <4>2. best(p) = <<t, best(p)[2]>> /\ best(p)[2] \in Slots
        BY <3>3, <3>5, <4>1, PlaceIsPair DEF best
      <4>3. b \in Body /\ home.files[best(p)] \in Body
        <5>1. <<t, s>> \in Places
            BY PlaceParts
        <5>2. home.files \in Files
            BY <1>3 DEF Homes
        <5> QED BY <1>3, <3>1, <4>1, <5>1, <5>2, FilesHold
      <4>4. IsPrefix(b, home.files[best(p)])
        BY <1>5, <3>2, <3>5, <4>1, <4>3, PrefixTransitive
      <4>5. home'.files[best(p)] = home.files[best(p)]
        BY <1>8, <1>13, <4>1
      <4> DEFINE z == best(p)[2]
      <4>6. z \in Slots /\ home'.files[<<t, z>>] # Missing /\ IsPrefix(b, home'.files[<<t, z>>])
        BY <4>1, <4>2, <4>4, <4>5
      <4> HIDE DEF z
      <4> QED BY <4>6 DEF Copies
    <3> QED BY <3>4, <3>5
  <2>6. \A q \in Places : home'.files[q] = Missing => ~ host'.lines[q]
    BY <1>8, <1>12, <1>13, <2>1
  <2>7. x.patched = <<>>
    BY <1>1, <2>1, <2>2 DEF PatchInv
  <2>8. Added(home.files, host.lines, quarantine, x, home'.files, host'.lines, quarantine', new, mv)
    <3>1. p \notin From(x) /\ p \notin To(x)
        BY <2>2
    <3>2. Missing \notin To(x) /\ Missing # p
        BY <1>4, StateAssumption DEF To, StateAssumption
    <3> QED BY <1>4, <1>6, <1>8, <1>10, <1>12, <1>13, <2>7, <3>1, <3>2 DEF Added
  <2>9. /\ OrderInv(new) /\ MovesInv(home'.files, host'.lines, quarantine', new)
        /\ From(new) = From(x) \cup {mv.from} /\ To(new) = To(x) \cup ({mv.to} \ {Missing})
        /\ \A k \in DOMAIN new.moves : new.moves[k] = mv \/ \E j \in DOMAIN x.moves : new.moves[k] = x.moves[j]
    BY <2>1, <2>8, MoveAdded
  <2>10. PatchInv(home'.files, new)
    <3>1. DOMAIN <<>> = {}
        OBVIOUS
    <3> QED BY <1>10, <2>7, <3>1 DEF PatchInv
  <2>11. script'[i] = new
    BY <1>7 DEF Goes, RemoteInv, RemoteTypeOK
  <2>12. From(new) = From(x) \cup {p} /\ To(new) = To(x)
    BY <1>6, <2>9
  <2>13. \A r \in new.losers :
            /\ r[1] \in new.todo /\ r # best(r)
            /\ home'.files[r] # Missing /\ home'.files[best(r)] # Missing
            /\ IsPrefix(home'.files[r], home'.files[best(r)])
            /\ r \notin From(new) \cup To(new)
    <3>1. SUFFICES ASSUME NEW r \in new.losers
                   PROVE  /\ r[1] \in new.todo /\ r # best(r)
                          /\ home'.files[r] # Missing /\ home'.files[best(r)] # Missing
                          /\ IsPrefix(home'.files[r], home'.files[best(r)])
                          /\ r \notin From(new) \cup To(new)
        OBVIOUS
    <3>2. r \in x.losers /\ r # p /\ r \in Places
        BY <1>4, <1>10
    <3>3. home'.files[r] = home.files[r] /\ home'.files[best(r)] = home.files[best(r)]
        BY <1>8, <1>13, <2>4, <3>2
    <3> QED BY <1>10, <2>2, <2>12, <3>2, <3>3
  <2>14. \A t \in new.todo : <<t, new.plan[t][1]>> \notin From(new) \cup To(new)
    <3>1. SUFFICES ASSUME NEW t \in x.todo
                   PROVE  <<t, x.plan[t][1]>> \notin From(new) \cup To(new)
        BY <1>10
    <3>2. <<t, x.plan[t][1]>> # p
      <4>1. ASSUME <<t, x.plan[t][1]>> = p PROVE FALSE
        <5>1. p[1] = t
            BY <4>1
        <5> QED BY <2>2, <4>1, <5>1 DEF best
      <4> QED BY <4>1
    <3> QED BY <2>2, <2>12, <3>2
  <2>15. \A k \in DOMAIN new.moves : new.moves[k].from[1] \in new.todo => new.moves[k].to = Missing
    BY <1>6, <1>10, <2>2, <2>9
  <2>16. \A t \in DOMAIN new.plan : new.plan[t][2] \in Root(new.before.home.rows[t].archived)
    BY <1>1, <1>10, <2>1 DEF PlanInv
  <2>17. \A r \in new.losers : best(r) = <<r[1], new.plan[r[1]][1]>>
    BY <1>10 DEF best
  <2>18. PlanInv(script[i])'
    BY <1>1, <1>10, <2>11, <2>13, <2>14, <2>15, <2>16, <2>17 DEF PlanInv
  <2> QED BY <2>5, <2>6, <2>9, <2>10, <2>18
<1> QED BY <1>1, <1>7, <1>8, <1>10, <1>11, <1>12, <1>13, <1>14, <1>16, <1>17, MoveStep DEF Runs

LEMMA MoveCanonicalKeeps ==
    ASSUME RemoteInv, remote, UNCHANGED remote, NEW i \in Tries, MoveCanonical(i)
    PROVE  RemoteInv'
<1> DEFINE x == script[i]
           from(t) == <<t, x.plan[t][1]>>
           to(t) == <<t, x.plan[t][2]>>
           moved(t) == [from |-> from(t), to |-> to(t), body |-> home.files[from(t)], line |-> host.lines[from(t)]]
<1>1. x.pc = "move"
    BY DEF MoveCanonical
<1>2. PICK t \in x.todo :
          /\ \A p \in x.losers : p[1] # t
          /\ \/ /\ from(t) = to(t) /\ UNCHANGED <<vars, host>>
                /\ Goes(i, [x EXCEPT !.todo = @ \ {t}])
             \/ /\ from(t) # to(t) /\ home.files[from(t)] # Missing /\ SeenFree(i, to(t))
                /\ Changes(FilesWith(home, from(t), Missing, to(t), home.files[from(t)]))
                /\ host' = LinesWith(host, from(t), FALSE, to(t), host.lines[from(t)])
                /\ UNCHANGED quarantine
                /\ Goes(i, [x EXCEPT !.todo = @ \ {t}, !.moves = Append(@, moved(t))])
    BY DEF MoveCanonical, FilesWith, LinesWith
<1>3. /\ x \in Scripts /\ Formed(x) /\ home \in Homes /\ host \in Hosts /\ pc = "idle"
      /\ quarantine \subseteq Places \X Body /\ SurviveInv /\ torn \in BOOLEAN
    BY DEF RemoteInv, RemoteTypeOK, ScriptInv, ConflictInv, TypeOK, SyncInv
<1>4. /\ x.todo \subseteq Threads /\ x.todo \subseteq DOMAIN x.plan /\ x.moves \in Seq(Moves)
      /\ x.losers \subseteq Places
    BY <1>1, <1>3, ScriptParts DEF Formed
<1>5. \A u \in x.todo : x.plan[u][1] \in Slots /\ x.plan[u][2] \in Slots
    BY <1>3, <1>4 DEF Formed
<1> DEFINE a == from(t)
           b == to(t)
<1>6. a \in Places /\ b \in Places /\ a[1] = t /\ b[1] = t
    BY <1>4, <1>5, PlaceParts
<1>7. ASSUME Alone
      PROVE  /\ PlanInv(x) /\ OrderInv(x) /\ MovesInv(home.files, host.lines, quarantine, x)
             /\ PatchInv(home.files, x) /\ KeptInv /\ x.patched = <<>>
             /\ \A q \in Places : home.files[q] = Missing => ~ host.lines[q]
  <2>1. /\ PlanInv(x) /\ OrderInv(x) /\ MovesInv(home.files, host.lines, quarantine, x)
        /\ PatchInv(home.files, x) /\ KeptInv
        /\ \A q \in Places : home.files[q] = Missing => ~ host.lines[q]
    BY <1>1, <1>7, MovePhase
  <2>2. x.patched = <<>>
    BY <1>1, <2>1 DEF PatchInv
  <2> QED BY <2>1, <2>2
<1> HIDE DEF a, b
<1>8. CASE /\ UNCHANGED <<vars, host>>
           /\ Goes(i, [x EXCEPT !.todo = @ \ {t}])
  <2> DEFINE new == [x EXCEPT !.todo = x.todo \ {t}]
  <2>1. /\ new \in Scripts /\ new.pc = x.pc /\ new.plan = x.plan /\ new.before = x.before
        /\ new.patched = x.patched /\ new.committed = x.committed /\ new.todo = x.todo \ {t}
        /\ new.losers = x.losers /\ new.moves = x.moves
    BY <1>3, <1>4 DEF Scripts
  <2>2. Goes(i, new)
    BY <1>8
  <2> HIDE DEF new
  <2>3. Formed(new)
    BY <1>1, <1>3, <2>1 DEF Formed
  <2>4. UNCHANGED <<home, quarantine, pc, raced, codex, original, torn>> /\ ConflictInv'
    BY <1>8, StutterKeeps DEF vars, RemoteInv
  <2>5. script'[i] = new
    BY <2>2 DEF Goes, RemoteInv, RemoteTypeOK
  <2>6. ASSUME Alone
        PROVE  /\ KeptInv' /\ \A q \in Places : home'.files[q] = Missing => ~ host'.lines[q]
               /\ PlanInv(script[i])'
               /\ OrderInv(new) /\ MovesInv(home'.files, host'.lines, quarantine', new)
               /\ PatchInv(home'.files, new)
    <3>1. KeptInv' /\ \A q \in Places : home'.files[q] = Missing => ~ host'.lines[q]
        BY <1>7, <1>8, <2>4, <2>6 DEF KeptInv
    <3>2. OrderInv(new) /\ MovesInv(home.files, host.lines, quarantine, new)
        BY <1>4, <1>7, <2>1, <2>6, SameMoves
    <3>3. PatchInv(home'.files, new)
      <4>1. DOMAIN <<>> = {}
        OBVIOUS
      <4> QED BY <1>7, <2>1, <2>6, <4>1 DEF PatchInv
    <3>4. From(new) = From(x) /\ To(new) = To(x)
        BY <2>1 DEF From, To
    <3>5. PlanInv(new)
        BY <1>1, <1>2, <1>7, <2>1, <2>6, <3>4 DEF PlanInv
    <3>6. PlanInv(script[i])'
        BY <2>4, <2>5, <3>5 DEF PlanInv
    <3> QED BY <1>8, <2>4, <3>1, <3>2, <3>3, <3>6
  <2>7. host' \in Hosts /\ host'.cred = host.cred /\ host'.config = host.config /\ host'.rows = host.rows
        /\ home'.rows = home.rows
    BY <1>3, <1>8, <2>4
  <2> QED BY <1>1, <2>1, <2>2, <2>3, <2>4, <2>6, <2>7, MoveStep DEF Runs
<1>9. CASE /\ a # b /\ home.files[b] = Missing /\ home.files[a] # Missing /\ UNCHANGED torn
           /\ Changes(FilesWith(home, a, Missing, b, home.files[a]))
           /\ host' = LinesWith(host, a, FALSE, b, host.lines[a])
           /\ UNCHANGED quarantine
           /\ Goes(i, [x EXCEPT !.todo = @ \ {t}, !.moves = Append(@, moved(t))])
  <2> DEFINE mv == moved(t)
             new == [x EXCEPT !.todo = x.todo \ {t}, !.moves = Append(x.moves, mv)]
             h == FilesWith(home, a, Missing, b, home.files[a])
  <2>1. home.files[a] \in Body /\ host.lines[a] \in BOOLEAN
    BY <1>3, <1>6, <1>9, HomeParts, HostParts
  <2>2. mv \in Moves /\ mv.from = a /\ mv.to = b /\ mv.body = home.files[a] /\ mv.line = host.lines[a]
    BY <1>6, <2>1 DEF Moves, a, b
  <2>3. Goes(i, new) /\ Changes(h)
    BY <1>9
  <2> HIDE DEF mv
  <2>4. Append(x.moves, mv) \in Seq(Moves)
    BY <1>4, <2>2, MovesAppend
  <2>5. /\ new \in Scripts /\ new.pc = x.pc /\ new.plan = x.plan /\ new.before = x.before
        /\ new.patched = x.patched /\ new.committed = x.committed /\ new.todo = x.todo \ {t}
        /\ new.losers = x.losers /\ new.moves = Append(x.moves, mv)
    BY <1>3, <1>4, <2>4 DEF Scripts
  <2> HIDE DEF new
  <2>6. Formed(new)
    <3>1. new.todo \subseteq x.todo /\ mv.to[1] = mv.from[1]
        BY <1>6, <2>2, <2>5
    <3> QED BY <1>1, <1>3, <2>2, <2>5, <3>1, AddFormed
  <2>7. /\ h \in Homes /\ h.rows = home.rows /\ h.files[a] = Missing /\ h.files[b] = home.files[a]
        /\ \A q \in Places : q # a /\ q # b => h.files[q] = home.files[q]
    <3> DEFINE v == Missing
               w == home.files[a]
               g == FilesWith(home, a, v, b, w)
    <3>1. /\ v \in Body \cup {Missing} /\ w \in Body \cup {Missing} /\ h = g /\ a # b
          /\ home \in Homes /\ a \in Places /\ b \in Places
        BY <1>3, <1>6, <1>9, <2>1
    <3> HIDE DEF v, w, h
    <3>2. /\ g \in Homes /\ g.rows = home.rows /\ g.files[a] = v /\ g.files[b] = w
          /\ \A q \in Places : q # a /\ q # b => g.files[q] = home.files[q]
        BY <3>1, TwoFiles
    <3> HIDE DEF g
    <3> QED BY <3>1, <3>2 DEF v, w
  <2> HIDE DEF h
  <2>8. /\ host' \in Hosts /\ host'.cred = host.cred /\ host'.config = host.config
        /\ host'.rows = host.rows /\ host'.lines[a] = FALSE /\ host'.lines[b] = host.lines[a]
        /\ \A q \in Places : q # a /\ q # b => host'.lines[q] = host.lines[q]
    <3> DEFINE v == FALSE
               w == host.lines[a]
               g == LinesWith(host, a, v, b, w)
    <3>1. v \in BOOLEAN /\ w \in BOOLEAN /\ host' = g /\ a # b
        BY <1>9, <2>1
    <3>3. host \in Hosts /\ a \in Places /\ b \in Places
        BY <1>3, <1>6
    <3> HIDE DEF v, w
    <3>2. /\ g \in Hosts /\ g.cred = host.cred /\ g.config = host.config
          /\ g.rows = host.rows /\ g.lines[a] = v /\ g.lines[b] = w
          /\ \A q \in Places : q # a /\ q # b => g.lines[q] = host.lines[q]
        BY <3>1, <3>3, TwoLines
    <3> HIDE DEF g
    <3> QED BY <3>1, <3>2 DEF v, w
  <2>9. /\ home' = h /\ UNCHANGED <<pc, original, torn>> /\ torn' \in BOOLEAN
        /\ quarantine' \subseteq Places \X Body
    BY <1>3, <1>9, <2>3 DEF Changes, localVars
  <2>10. Carried
    <3>1. /\ a[1] = b[1] /\ home.files[a] # Missing /\ home.files[b] = Missing
          /\ home'.files[b] = home.files[a]
          /\ \A p \in Places : p # a /\ p # b => home'.files[p] = home.files[p]
        BY <1>6, <1>9, <2>7, <2>9
    <3> QED BY <1>6, <3>1, ThreadMoveCarries
  <2>11. SurviveInv' /\ (KeptInv => KeptInv')
    BY <1>3, <1>9, <2>9, <2>10, CarriedSurvives
  <2>12. ConflictInv' /\ UNCHANGED <<pc, raced, original, codex>>
    BY <2>3, <2>7, <2>9, <2>11, ChangeKeepsLocal
  <2>13. script'[i] = new
    BY <2>3 DEF Goes, RemoteInv, RemoteTypeOK
  <2>14. ASSUME Alone
         PROVE  /\ KeptInv' /\ \A q \in Places : home'.files[q] = Missing => ~ host'.lines[q]
                /\ PlanInv(script[i])'
                /\ OrderInv(new) /\ MovesInv(home'.files, host'.lines, quarantine', new)
                /\ PatchInv(home'.files, new)
    <3>1. /\ PlanInv(x) /\ OrderInv(x) /\ MovesInv(home.files, host.lines, quarantine, x)
          /\ KeptInv /\ x.patched = <<>>
          /\ \A q \in Places : home.files[q] = Missing => ~ host.lines[q]
        BY <1>7, <2>14
    <3>2. KeptInv' /\ \A q \in Places : home'.files[q] = Missing => ~ host'.lines[q]
      <4>1. KeptInv'
        BY <2>11, <3>1
      <4>2. \A q \in Places : home'.files[q] = Missing => ~ host'.lines[q]
        BY <1>9, <2>7, <2>8, <2>9, <3>1
      <4> QED BY <4>1, <4>2
    <3>3. PatchInv(home'.files, new)
      <4>1. DOMAIN <<>> = {}
        OBVIOUS
      <4> QED BY <2>5, <3>1, <4>1 DEF PatchInv
    <3>4. /\ \A r \in x.losers :
               LET best == <<r[1], x.plan[r[1]][1]>>
               IN /\ r[1] \in x.todo /\ r # best
                  /\ home.files[r] # Missing /\ home.files[best] # Missing
                  /\ IsPrefix(home.files[r], home.files[best])
                  /\ r \notin From(x) \cup To(x)
          /\ \A u \in x.todo : from(u) \notin From(x) \cup To(x)
          /\ \A k \in DOMAIN x.moves : x.moves[k].from[1] \in x.todo => x.moves[k].to = Missing
        BY <1>1, <3>1 DEF PlanInv
    <3>5. b \notin To(x)
      <4>1. \A k \in DOMAIN x.moves : x.moves[k].to # Missing => home.files[x.moves[k].to] # Missing
        <5>1. SUFFICES ASSUME NEW k \in DOMAIN x.moves, x.moves[k].to # Missing
                       PROVE  home.files[x.moves[k].to] # Missing
            OBVIOUS
        <5>2. home.files[x.moves[k].to] = x.moves[k].body
            BY <3>1, <5>1 DEF MovesInv
        <5>3. x.moves[k].body \in Body
            BY <1>4, MoveParts
        <5> QED BY <5>2, <5>3, MissingAssumption DEF MissingAssumption
      <4> QED BY <1>9, <4>1 DEF To
    <3>6. a \notin From(x) /\ a \notin To(x)
        BY <3>4 DEF a
    <3>7. Added(home.files, host.lines, quarantine, x, home'.files, host'.lines, quarantine', new, mv)
      <4>1. b # Missing
        BY <1>6, StateAssumption DEF StateAssumption
      <4> QED BY <1>4, <1>9, <2>2, <2>5, <2>7, <2>8, <2>9, <3>1, <3>5, <3>6, <4>1 DEF Added
    <3>8. /\ OrderInv(new) /\ MovesInv(home'.files, host'.lines, quarantine', new)
          /\ From(new) = From(x) \cup {mv.from} /\ To(new) = To(x) \cup ({mv.to} \ {Missing})
          /\ \A k \in DOMAIN new.moves : new.moves[k] = mv \/ \E j \in DOMAIN x.moves : new.moves[k] = x.moves[j]
        BY <3>1, <3>7, MoveAdded
    <3>9. From(new) \cup To(new) \subseteq From(x) \cup To(x) \cup {a, b}
        BY <2>2, <3>8
    <3>10. ASSUME NEW r \in new.losers
           PROVE  LET best == <<r[1], new.plan[r[1]][1]>>
                  IN /\ r[1] \in new.todo /\ r # best
                     /\ home'.files[r] # Missing /\ home'.files[best] # Missing
                     /\ IsPrefix(home'.files[r], home'.files[best])
                     /\ r \notin From(new) \cup To(new)
      <4> DEFINE best == <<r[1], x.plan[r[1]][1]>>
      <4>1. r \in x.losers /\ r \in Places /\ r[1] # t
        BY <1>2, <1>4, <2>5
      <4>2. r[1] \in x.todo /\ best \in Places /\ best[1] = r[1]
        BY <1>4, <1>5, <3>4, <4>1, PlaceParts
      <4>3. home'.files[r] = home.files[r] /\ home'.files[best] = home.files[best] /\ r # a /\ r # b
        BY <1>6, <2>7, <2>9, <4>1, <4>2
      <4> QED BY <2>5, <3>4, <3>9, <4>1, <4>2, <4>3
    <3>11. \A u \in new.todo : <<u, new.plan[u][1]>> \notin From(new) \cup To(new)
      <4>1. SUFFICES ASSUME NEW u \in x.todo, u # t
                     PROVE  <<u, x.plan[u][1]>> \notin From(new) \cup To(new)
        BY <2>5
      <4>2. <<u, x.plan[u][1]>> # a /\ <<u, x.plan[u][1]>> # b
        BY <1>6, <4>1
      <4> QED BY <3>4, <3>9, <4>1, <4>2
    <3>12. \A k \in DOMAIN new.moves : new.moves[k].from[1] \in new.todo => new.moves[k].to = Missing
        BY <1>6, <2>2, <2>5, <3>4, <3>8
    <3>13. \A u \in DOMAIN new.plan : new.plan[u][2] \in Root(new.before.home.rows[u].archived)
        BY <1>1, <2>5, <3>1 DEF PlanInv
    <3>14. PlanInv(script[i])'
        BY <1>1, <2>5, <2>13, <3>10, <3>11, <3>12, <3>13 DEF PlanInv
    <3> QED BY <3>2, <3>3, <3>8, <3>14
  <2> QED BY <1>1, <2>3, <2>5, <2>6, <2>7, <2>8, <2>9, <2>12, <2>14, MoveStep DEF Runs
<1>10. CASE /\ home.files[b] # Missing /\ home.files[a] # Missing /\ SeenFree(i, b)
            /\ Changes(FilesWith(home, a, Missing, b, home.files[a]))
            /\ host' = LinesWith(host, a, FALSE, b, host.lines[a])
            /\ UNCHANGED quarantine
            /\ Goes(i, [x EXCEPT !.todo = @ \ {t}, !.moves = Append(@, moved(t))])
  <2> DEFINE mv == moved(t)
             new == [x EXCEPT !.todo = x.todo \ {t}, !.moves = Append(x.moves, mv)]
  <2>1. Beside(i) /\ torn' = TRUE
    BY <1>10 DEF SeenFree
  <2>2. ~ Alone
    BY <1>1, <2>1, NotAlone DEF Runs
  <2>3. home.files[a] \in Body /\ host.lines[a] \in BOOLEAN
    BY <1>3, <1>6, <1>10, HomeParts, HostParts
  <2>4. mv \in Moves /\ mv.from = a /\ mv.to = b
    BY <1>6, <2>3 DEF Moves, a, b
  <2>5. Goes(i, new)
    BY <1>10
  <2> HIDE DEF mv
  <2>6. Append(x.moves, mv) \in Seq(Moves)
    BY <1>4, <2>4, MovesAppend
  <2>7. /\ new \in Scripts /\ new.pc = x.pc /\ new.plan = x.plan /\ new.before = x.before
        /\ new.committed = x.committed /\ new.todo = x.todo \ {t} /\ new.moves = Append(x.moves, mv)
    BY <1>3, <1>4, <2>6 DEF Scripts
  <2> HIDE DEF new
  <2>8. Formed(new)
    <3>1. new.todo \subseteq x.todo /\ mv.to[1] = mv.from[1]
        BY <1>6, <2>4, <2>7
    <3> QED BY <1>1, <1>3, <2>4, <2>7, <3>1, AddFormed
  <2> DEFINE m == Missing
             u == home.files[a]
             f == FALSE
             k == host.lines[a]
             h == FilesWith(home, a, m, b, u)
             o == LinesWith(host, a, f, b, k)
  <2>9. /\ Changes(h) /\ host' = o /\ m \in Body \cup {Missing} /\ u \in Body \cup {Missing}
        /\ f \in BOOLEAN /\ k \in BOOLEAN
    BY <1>10, <2>3
  <2> HIDE DEF m, u, f, k
  <2>12. home \in Homes /\ host \in Hosts /\ a \in Places /\ b \in Places
    BY <1>3, <1>6
  <2>14. TwoFit(home, a, m, b, u)
    BY <2>9, <2>12 DEF TwoFit
  <2>10. h \in Homes /\ h.rows = home.rows
    BY <2>14, AnyTwoFiles
  <2>13. o \in Hosts /\ o.cred = host.cred /\ o.config = host.config /\ o.rows = host.rows
    BY <2>9, <2>12, AnyTwoLines
  <2> HIDE DEF h, o
  <2>11. ConflictInv' /\ UNCHANGED <<pc, raced, original, codex>> /\ home' = h
    BY <1>3, <1>10, <2>1, <2>9, <2>10, TearKeepsLocal
  <2> QED BY <1>1, <2>2, <2>5, <2>7, <2>8, <2>9, <2>10, <2>11, <2>13, MoveStep DEF Runs
<1>11. SeenFree(i, b) /\ home.files[b] = Missing => UNCHANGED torn
    BY <1>3 DEF SeenFree
<1> QED BY <1>2, <1>8, <1>9, <1>10, <1>11 DEF a, b

-----------------------------------------------------------------------------
(* All of it *)

LEMMA StepIsKept ==
    ASSUME RemoteInv, remote, UNCHANGED remote, NEW i \in Tries, ScriptStep(i)
    PROVE  RemoteInv'
BY RefusesKeeps, WriteCredentialKeeps, WriteConfigKeeps, PlanMovesKeeps, MoveLoserKeeps,
   MoveCanonicalKeeps, PatchKeeps, CommitRowsKeeps, CheckMovesKeeps, ScriptRaisesKeeps,
   UndoRowsKeeps, UndoLineKeeps, UndoMoveKeeps, FilesUndoneKeeps
   DEF ScriptStep

\* At home the scripts have no part in it.
LEMMA LocalKeeps ==
    ASSUME RemoteInv, ~ remote, UNCHANGED <<remote, remoteVars>>, Next
    PROVE  RemoteInv'
<1>1. UNCHANGED <<host, sync, script, overlap, unseen>>
    BY DEF remoteVars
<1>2. ConflictInv'
    BY NextKeeps DEF RemoteInv
<1>3. RemoteTypeOK' /\ ScriptInv'
    BY <1>1 DEF RemoteInv, RemoteTypeOK, ScriptInv, Formed
<1>4. SyncInv' /\ LoginInv'
    BY <1>1 DEF RemoteInv, SyncInv, LoginInv, Running
<1>5. AloneInv'
    BY DEF AloneInv, Alone
<1> QED BY <1>2, <1>3, <1>4, <1>5 DEF RemoteInv

LEMMA RemoteNextKeeps ==
    ASSUME RemoteInv, RemoteNext
    PROVE  RemoteInv'
<1>1. UNCHANGED remote
    BY DEF RemoteNext
<1>2. CASE ~ remote /\ Next /\ UNCHANGED remoteVars
    BY <1>1, <1>2, LocalKeeps
<1>3. CASE remote /\ (ServerStarts \/ ServerWrites \/ ServerRefreshes)
    BY <1>1, <1>3, ServerStartsKeeps, ServerWritesKeeps, ServerRefreshesKeeps
<1>4. CASE remote /\ (SyncOfficial \/ SyncApi \/ NoHosts)
    BY <1>1, <1>4, BeginsKeeps, AllStays DEF SyncOfficial, SyncApi, NoHosts
<1>5. CASE remote /\ (Send \/ Receive \/ VerifyRemote)
    BY <1>1, <1>5, SendKeeps, ReceiveKeeps, VerifyRemoteKeeps
<1>6. CASE remote /\ \E i \in Tries : ScriptStep(i) \/ ScriptDies(i)
    BY <1>1, <1>6, StepIsKept, ScriptDiesKeeps
<1> QED BY <1>2, <1>3, <1>4, <1>5, <1>6 DEF RemoteNext

LEMMA RemoteInitHolds ==
    ASSUME RemoteInit
    PROVE  RemoteInv
<1>1. PICK f \in [Places -> Bodies \cup {Missing}], r \in Rows : Untouched(f, r)
    BY DEF RemoteInit, Init
<1>2. ConflictInv
    BY <1>1, UntouchedIsSound
<1>3. /\ host = [cred |-> 2, config |-> FALSE, lines |-> [p \in Places |-> FALSE],
                 rows |-> [t \in Threads |-> FALSE]]
      /\ sync = [pc |-> "idle", n |-> 0, authority |-> 1]
      /\ script = [i \in Tries |-> NoScript] /\ overlap = FALSE /\ unseen = FALSE /\ remote \in BOOLEAN
    BY DEF RemoteInit
<1>4. 2 \in 0..MaxLogin /\ 1 \in 0..MaxLogin /\ 0 \in 0..MaxTries /\ \A i \in Tries : i > 0
    BY RemoteAssumption DEF RemoteAssumption, Tries
<1>5. host \in Hosts /\ \A p \in Places : ~ host.lines[p]
    BY <1>3, <1>4 DEF Hosts
<1>6. \A i \in Tries : script[i] = NoScript
    BY <1>3
<1>7. NoScript.pc = "none" /\ NoScript = [NoScript EXCEPT !.pc = "none"]
    BY NoScriptFields DEF Scripts, NoScript
<1>8. NoScript \in Scripts /\ Formed(NoScript)
    BY <1>7, NoScriptFields, NoScriptIsScript
<1>9. RemoteTypeOK
    BY <1>3, <1>4, <1>5, <1>8 DEF RemoteTypeOK
<1>10. ScriptInv
    BY <1>6, <1>8 DEF ScriptInv
<1>11. pc = "idle" /\ codex = FALSE /\ torn = FALSE /\ original = f /\ home.files = f
    BY <1>1 DEF Untouched
<1>12. SyncInv
  <2>1. sync.pc = "idle" /\ sync.n = 0
    BY <1>3
  <2>2. \A i \in Tries : script[i].pc = "none"
    BY <1>6, <1>7
  <2>3. \A i \in Tries : ~ (i < 0)
    BY RemoteAssumption DEF RemoteAssumption, Tries
  <2> QED BY <1>11, <2>1, <2>2, <2>3 DEF SyncInv
<1>13. LoginInv
    BY <1>3 DEF LoginInv
<1>14. KeptInv
  <2>1. SUFFICES ASSUME NEW t \in Threads, NEW s \in Slots, original[<<t, s>>] # Missing
                 PROVE  s \in Copies(home.files, t) /\ IsPrefix(original[<<t, s>>], home.files[<<t, s>>])
    BY DEF KeptInv
  <2>2. f \in Files
    BY BodiesAreBodies DEF Files
  <2>3. f[<<t, s>>] \in Body
    BY <1>11, <2>1, <2>2, PlaceParts, FilesHold
  <2> QED BY <1>11, <2>1, <2>3, PrefixSelf DEF Copies
<1>15. AloneInv
  <2>1. \A i \in Tries : i # sync.n
    BY <1>3, <1>4
  <2> QED BY <1>3, <1>5, <1>11, <1>14, <2>1 DEF AloneInv
<1> QED BY <1>2, <1>9, <1>10, <1>12, <1>13, <1>15 DEF RemoteInv

\* The inductive invariant of the local resolution and the remote scripts holds.
THEOREM RemoteHolds == RemoteSpec => []RemoteInv
<1>1. RemoteInit => RemoteInv
    BY RemoteInitHolds
<1>2. RemoteInv /\ [RemoteNext]_allVars => RemoteInv'
  <2>1. ASSUME RemoteInv, UNCHANGED allVars PROVE RemoteInv'
    BY <2>1, AllStays DEF allVars
  <2> QED BY <2>1, RemoteNextKeeps
<1> QED BY <1>1, <1>2, PTL DEF RemoteSpec

\* Whatever fails, dies or runs at once, no chat that was there at the beginning
\* is lost, at home or on a remote machine, as long as no two programs on the
\* machine replace one file at the same moment.
THEOREM NothingIsLost == RemoteSpec => []NothingLost
<1>1. RemoteInv => NothingLost
    BY DEF RemoteInv, ConflictInv, SurviveInv, NothingLost, AtHome, Aside
<1> QED BY <1>1, RemoteHolds, PTL

\* A reported resolution of the conflicts is exact and did what the user chose.
THEOREM ResolutionHolds == RemoteSpec => []ResolutionIsExact
<1>1. ASSUME RemoteInv, Succeeded, ~ raced PROVE ResolvedIsExact
  <2>1. job.before = job.begin /\ Sound
    BY <1>1 DEF RemoteInv, ConflictInv, QuietInv, Succeeded
  <2>2. DOMAIN job.keep \subseteq Threads
    BY <1>1 DEF RemoteInv, ConflictInv, TypeOK, Succeeded
  <2>3. \A p \in Places : home.files[p] = IF p \in Others THEN Missing ELSE job.begin.files[p]
    BY <2>1 DEF Sound
  <2>4. \A t \in DOMAIN job.keep : home.rows[t] = Missing \/ Names(home.rows[t], job.keep[t])
    <3>1. SUFFICES ASSUME NEW t \in DOMAIN job.keep, home.rows[t] # Missing
                   PROVE  Names(home.rows[t], job.keep[t])
        OBVIOUS
    <3>2. home.rows[t] = After(job.begin.rows)[t] /\ t \in Threads
        BY <2>1, <2>2 DEF Sound
    <3>3. CASE t \in Repointed
        BY <3>2, <3>3 DEF After, Names
    <3>4. CASE t \notin Repointed
        BY <3>1, <3>2, <3>4 DEF After, Repointed
    <3> QED BY <3>3, <3>4
  <2> QED BY <2>1, <2>3, <2>4 DEF ResolvedIsExact, Sound
<1>2. ASSUME RemoteInv PROVE ChoiceIsInformed
  <2>1. SUFFICES ASSUME Succeeded, NEW t \in DOMAIN job.keep, NEW s \in Slots,
                        job.shown.files[<<t, s>>] # Missing
                 PROVE  LET b == job.shown.files[<<t, s>>]
                        IN \/ /\ s = job.keep[t]
                              /\ \E r \in Copies(home.files, t) : IsPrefix(b, home.files[<<t, r>>])
                           \/ /\ s # job.keep[t]
                              /\ \E c \in quarantine : c[1] = <<t, s>> /\ IsPrefix(b, c[2])
    BY DEF ChoiceIsInformed
  <2> DEFINE b == job.shown.files[<<t, s>>]
             p == <<t, s>>
  <2>2. ChoiceInv /\ pc # "idle" /\ DOMAIN job.keep \subseteq Threads
    BY <1>2, <2>1 DEF RemoteInv, ConflictInv, TypeOK, Succeeded
  <2>3. b = job.begin.files[p]
    BY <2>1, <2>2 DEF ChoiceInv
  <2>4. CASE s = job.keep[t]
    BY <2>1, <2>2, <2>3, <2>4 DEF ChoiceInv
  <2>5. CASE s # job.keep[t]
    <3>1. p \in Others
        BY <2>1, <2>2, <2>3, <2>5, PlaceParts DEF Others
    <3>2. job.copied[p] # Missing
        BY <2>1, <2>2, <3>1 DEF ChoiceInv
    <3>3. IsPrefix(job.begin.files[p], job.copied[p]) /\ <<p, job.copied[p]>> \in quarantine
        BY <2>2, <3>1, <3>2 DEF ChoiceInv
    <3> DEFINE c == <<p, job.copied[p]>>
    <3>4. c \in quarantine /\ c[1] = p /\ IsPrefix(b, c[2])
        BY <2>3, <3>3
    <3> QED BY <2>5, <3>4
  <2> QED BY <2>4, <2>5
<1>3. RemoteInv => ResolutionIsExact
    BY <1>1, <1>2 DEF ResolutionIsExact, ResolvedIsExact
<1> QED BY <1>3, RemoteHolds, PTL

\* What a failed resolution says of the home is true, and a dead one can be
\* undone with the cold backup.
THEOREM UndoHolds == RemoteSpec => []FailureCanBeUndone
<1>1. RemoteInv => FailureIsTruthful
    BY DEF RemoteInv, ConflictInv, QuietInv, FailureIsTruthful
<1>2. RemoteInv => InterruptionCanBeUndone
    BY DEF RemoteInv, ConflictInv, QuietInv, InterruptionCanBeUndone, Reading
<1>3. RemoteInv => FailureCanBeUndone
    BY <1>1, <1>2 DEF FailureCanBeUndone
<1> QED BY <1>3, RemoteHolds, PTL

\* A synchronisation that reported success is whole, one that finished its undo
\* has left no trace in the chats.
THEOREM SyncHolds == RemoteSpec => []SyncIsAtomic
<1>1. ASSUME RemoteInv, Alone, sync.pc = "ok" PROVE SyncIsWhole
  <2> DEFINE x == script[sync.n]
  <2>1. sync.n \in Tries /\ x.pc = "done"
    <3>1. sync.n \in 0..MaxTries /\ sync.n \in Nat /\ MaxTries \in Nat /\ sync.n > 0
        BY <1>1, SyncParts DEF RemoteInv, SyncInv
    <3> QED BY <1>1, <3>1 DEF RemoteInv, SyncInv, Tries
  <2>2. AsReported(x) /\ PlanInv(x) /\ Written(x) /\ KeptInv
    BY <1>1, <2>1 DEF RemoteInv, AloneInv
  <2>3. host.cred = sync.authority /\ host.config
    BY <2>1, <2>2 DEF Written
  <2>4. ASSUME NEW t \in Threads, home.rows[t] # Missing
        PROVE  LET s == home.rows[t].slot
               IN /\ Copies(home.files, t) = {s} /\ s \in Root(home.rows[t].archived)
                  /\ host.lines[<<t, s>>] /\ host.rows[t]
                  /\ \A r \in Slots : original[<<t, r>>] # Missing =>
                        IsPrefix(original[<<t, r>>], home.files[<<t, s>>])
    <3> DEFINE s == home.rows[t].slot
    <3>1. t \in DOMAIN x.plan
        BY <2>2, <2>4 DEF AsReported
    <3>2. /\ s = x.plan[t][2] /\ host.rows[t]
          /\ home.rows[t].archived = x.before.home.rows[t].archived
        BY <2>2, <3>1 DEF AsReported
    <3>3. Copies(home.files, t) = {s} /\ host.lines[<<t, s>>]
        BY <2>2, <3>1, <3>2 DEF AsReported, Reconciled
    <3>4. s \in Root(home.rows[t].archived)
        BY <2>1, <2>2, <3>1, <3>2 DEF PlanInv
    <3>5. \A r \in Slots : original[<<t, r>>] # Missing =>
             \E q \in Copies(home.files, t) : IsPrefix(original[<<t, r>>], home.files[<<t, q>>])
        BY <2>2 DEF KeptInv
    <3> HIDE DEF s
    <3>6. \A r \in Slots : original[<<t, r>>] # Missing => IsPrefix(original[<<t, r>>], home.files[<<t, s>>])
        BY <3>3, <3>5
    <3> QED BY <3>2, <3>3, <3>4, <3>6 DEF s
  <2> QED BY <2>3, <2>4 DEF SyncIsWhole
<1>2. ASSUME RemoteInv, Alone, NEW i \in Tries, script[i].pc = "failed", script[i].before # Missing
      PROVE  Here = script[i].before
  <2>1. sync.n \in Nat /\ i \in Nat
    BY <1>2, SyncParts DEF RemoteInv, Tries
  <2>2. ~ (i > sync.n) /\ ~ (i < sync.n)
    BY <1>2 DEF RemoteInv, SyncInv, Alone
  <2>3. i = sync.n
    BY <2>1, <2>2
  <2> QED BY <1>2, <2>3 DEF RemoteInv, AloneInv
<1>3. RemoteInv => SyncIsAtomic
    BY <1>1, <1>2 DEF SyncIsAtomic, SyncIsWhole, FailureIsUndone, Alone
<1> QED BY <1>3, RemoteHolds, PTL

\* Only the writing of the credential can make the login on the machine older.
LEMMA OnlyCredential ==
    ASSUME RemoteInv, RemoteNext, host'.cred < host.cred
    PROVE  \E i \in Tries : WriteCredential(i)
<1>1. host \in Hosts /\ host.cred \in Nat
  <2>1. host \in Hosts
    BY DEF RemoteInv, RemoteTypeOK
  <2>2. host.cred \in 0..MaxLogin
    BY <2>1, HostParts
  <2> QED BY <2>1, <2>2
<1>2. host'.cred # host.cred /\ host'.cred # host.cred + 1
    BY <1>1
<1>3. ASSUME NEW i \in Tries, ScriptStep(i) \/ ScriptDies(i), ~ WriteCredential(i) PROVE host'.cred = host.cred
  <2>1. CASE Refuses(i) \/ PlanMoves(i) \/ CheckMoves(i) \/ ScriptRaises(i) \/ FilesUndone(i) \/ ScriptDies(i)
    BY <2>1 DEF Refuses, PlanMoves, CheckMoves, ScriptRaises, FilesUndone, ScriptDies
  <2>2. CASE WriteConfig(i) \/ MoveLoser(i) \/ Patch(i) \/ CommitRows(i)
    BY <1>1, <2>2 DEF WriteConfig, Configured, MoveLoser, Patch, CommitRows, Hosts
  <2>3. CASE MoveCanonical(i)
    BY <1>1, <2>3 DEF MoveCanonical, Hosts
  <2>4. CASE UndoRows(i) \/ UndoLine(i)
    BY <1>1, <2>4 DEF UndoRows, UndoLine, Hosts
  <2>5. CASE UndoMove(i)
    BY <1>1, <2>5 DEF UndoMove, PutBack, Hosts
  <2> QED BY <1>3, <2>1, <2>2, <2>3, <2>4, <2>5 DEF ScriptStep
<1>4. CASE ~ remote /\ UNCHANGED remoteVars
    BY <1>2, <1>4 DEF remoteVars
<1>5. CASE ServerStarts \/ ServerWrites \/ NoHosts
    BY <1>2, <1>5 DEF ServerStarts, ServerWrites, NoHosts, remoteVars
<1>6. CASE ServerRefreshes
  <2>1. host'.cred = host.cred + 1
    BY <1>1, <1>6 DEF ServerRefreshes, Hosts
  <2> QED BY <1>2, <2>1
<1>7. CASE SyncOfficial \/ SyncApi \/ Send \/ Receive \/ VerifyRemote
    BY <1>2, <1>7 DEF SyncOfficial, SyncApi, Begins, Sending, Send, Receive, TryAgain, VerifyRemote
<1>8. CASE \E i \in Tries : ScriptStep(i) \/ ScriptDies(i)
    BY <1>2, <1>3, <1>8
<1> QED BY <1>4, <1>5, <1>6, <1>7, <1>8 DEF RemoteNext

\* A login the guardian knew of is never replaced by an older one.
THEOREM LoginIsKept == RemoteSpec => LoginKept
<1>1. ASSUME RemoteInv, [RemoteNext]_allVars, host'.cred < host.cred PROVE unseen
  <2>1. host.cred \in Nat
    <3>1. host \in Hosts
        BY <1>1 DEF RemoteInv, RemoteTypeOK
    <3>2. host.cred \in 0..MaxLogin
        BY <3>1, HostParts
    <3> QED BY <3>2
  <2>2. RemoteNext
    BY <1>1, <2>1 DEF allVars, remoteVars
  <2>3. PICK i \in Tries : WriteCredential(i)
    BY <1>1, <2>2, OnlyCredential
  <2>4. host'.cred = sync.authority /\ script[i].pc = "apply"
    BY <1>1, <2>3 DEF WriteCredential, RemoteInv, RemoteTypeOK, Hosts
  <2>5. i > 0
    BY DEF Tries
  <2>6. sync.pc # "idle"
    BY <1>1, <2>4, <2>5 DEF RemoteInv, SyncInv
  <2>7. ~ unseen => host.cred = sync.authority
    BY <1>1, <2>6 DEF RemoteInv, LoginInv
  <2> QED BY <1>1, <2>1, <2>4, <2>7
<1>2. RemoteInv /\ [RemoteNext]_allVars => [host'.cred < host.cred => unseen]_allVars
    BY <1>1
<1> QED BY <1>2, RemoteHolds, PTL DEF RemoteSpec, LoginKept

================================================================================
