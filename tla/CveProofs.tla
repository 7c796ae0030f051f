------------------------------ MODULE CveProofs ------------------------------
(***************************************************************************)
(* The safety properties of OsvSync and CveEtl for any libraries,          *)
(* advisories, states of OSV and failures.                                 *)
(***************************************************************************)
EXTENDS OsvSync, CveEtl, FiniteSetTheorems, WellFoundedInduction, TLAPS

\* A key of this run is a CVE of the answer for one library.
LEMMA KeyParts ==
  ASSUME NEW k
  PROVE  k \in Keys <=>
           \E lib \in Answered : \E cve \in Cves(answer[lib]) : k = <<lib, cve>>
  BY DEF Keys

\* After an upsert the key's row is the merge of the run's answer, and every other
\* row is as it was.
LEMMA UpsertEffect ==
  ASSUME DOMAIN table = Libs, NEW lib \in Libs, NEW cve, Upsert(lib, cve)
  PROVE  /\ DOMAIN table' = Libs
         /\ \A l \in Libs : DOMAIN table'[l] = DOMAIN table[l] \cup (IF l = lib THEN {cve} ELSE {})
         /\ table'[lib][cve] = Merged(answer[lib], cve)
         /\ \A l \in Libs : \A c \in DOMAIN table[l] :
              l # lib \/ c # cve => table'[l][c] = table[l][c]
  BY DEF Upsert, WithRow

\* The keys, and what is merged of them, depend on the run's answers alone.
LEMMA AnswersDecide ==
  ASSUME answer' = answer
  PROVE  /\ Keys' = Keys /\ Answered' = Answered
         /\ \A lib, cve : Merged(answer[lib], cve)' = Merged(answer[lib], cve)
  BY DEF Keys, Answered

\* Before the first answer there is no key.
LEMMA NothingAnswered ==
  ASSUME answer = NoAnswers
  PROVE  Keys = {} /\ Answered = {}
<1>1. Answered = {}
  BY DEF Answered, NoAnswers
<1> QED BY <1>1 DEF Keys

-----------------------------------------------------------------------------
(* Types *)

\* Every step of the sync keeps its types.
LEMMA SyncTypes ==
  ASSUME SyncTypeOK, SyncNext
  PROVE  SyncTypeOK'
<1> USE RecordsAssumption, FaultsAssumption DEF SyncTypeOK
<1>1. ASSUME Fault PROVE faults' \in 0..MaxFaults
  BY <1>1 DEF Fault
<1>2. CASE TimerFires
  BY <1>2 DEF TimerFires, NoAnswers
<1>3. CASE QueryAnswered
  BY <1>3 DEF QueryAnswered
<1>4. CASE QueryFails
  BY <1>1, <1>4, AnswersDecide DEF QueryFails
<1>5. CASE StartWriting
  BY <1>5, AnswersDecide DEF StartWriting
<1>6. CASE RowWritten
  <2>1. PICK k \in left : Upsert(k[1], k[2]) /\ left' = left \ {k}
    BY <1>6 DEF RowWritten
  <2>2. DOMAIN table' = Libs
    BY <2>1 DEF Upsert
  <2> QED BY <1>6, <2>1, <2>2, AnswersDecide DEF RowWritten
<1>7. CASE RowFails
  BY <1>1, <1>7, AnswersDecide DEF RowFails
<1>8. CASE SyncEnds
  BY <1>8, AnswersDecide DEF SyncEnds
<1>9. CASE SyncStops
  BY <1>1, <1>9 DEF SyncStops, NoAnswers
<1> QED BY <1>2, <1>3, <1>4, <1>5, <1>6, <1>7, <1>8, <1>9 DEF SyncNext, SyncStep

\* The sync's state has its types for any OSV and any faults.
THEOREM SyncTypeCorrect == OsvSpec => []SyncTypeOK
<1>1. SyncInit => SyncTypeOK
  BY RecordsAssumption, FaultsAssumption DEF SyncInit, SyncTypeOK, NoAnswers
<1>2. SyncTypeOK /\ [OsvNext]_<<syncVars, upstream, changes>> => SyncTypeOK'
  <2>1. SyncTypeOK /\ UNCHANGED syncVars => SyncTypeOK'
    BY AnswersDecide DEF SyncTypeOK, syncVars
  <2> QED BY <2>1, SyncTypes DEF OsvNext
<1> QED BY <1>1, <1>2, PTL DEF OsvSpec

-----------------------------------------------------------------------------
(* What a run has stored *)

\* A key is a pair whose library was answered, and its CVE has a row there.
LEMMA LeftParts ==
  ASSUME SyncTypeOK, NEW k \in left
  PROVE  /\ k = <<k[1], k[2]>> /\ k[1] \in Libs /\ k[1] \in Answered
         /\ k[2] \in Cves(answer[k[1]])
<1>1. PICK lib \in Answered : \E cve \in Cves(answer[lib]) : k = <<lib, cve>>
  BY KeyParts DEF SyncTypeOK
<1> QED BY <1>1 DEF Answered

\* Every step of the sync keeps MergeInv: the writes are of the answers that the keys
\* are of, and a key leaves "left" with its row, or with its failure counted.
LEMMA MergeStep ==
  ASSUME SyncTypeOK, MergeInv, SyncNext
  PROVE  MergeInv'
<1> USE DEF SyncTypeOK
<1> DEFINE Stored(k) == /\ k[2] \in DOMAIN table[k[1]]
                        /\ table[k[1]][k[2]] = Merged(answer[k[1]], k[2])
<1>1. CASE TimerFires
  <2>1. answer' = NoAnswers /\ sync' = "querying" /\ given' = given
    BY <1>1 DEF TimerFires
  <2>2. Answered' = {}
    BY <2>1 DEF Answered, NoAnswers
  <2> QED BY <2>1, <2>2 DEF MergeInv
<1>2. CASE QueryAnswered
  <2> DEFINE lib == Libraries[next]
  <2>1. /\ sync' = "querying"
        /\ answer' = [answer EXCEPT ![lib] = RowsOf(upstream[lib], lib)]
        /\ given' = [given EXCEPT ![lib] = @ \cup {RowsOf(upstream[lib], lib)}]
    BY <1>2 DEF QueryAnswered
  <2>2. ASSUME NEW l \in Answered' PROVE answer'[l] \in given'[l]
    BY <2>1, <2>2 DEF MergeInv, Answered
  <2> QED BY <2>1, <2>2 DEF MergeInv
<1>3. CASE QueryFails
  BY <1>3, AnswersDecide DEF QueryFails, MergeInv
<1>4. CASE StartWriting
  BY <1>4, AnswersDecide DEF StartWriting, MergeInv
<1>5. CASE RowWritten
  <2>1. PICK k \in left : Upsert(k[1], k[2]) /\ left' = left \ {k}
    BY <1>5 DEF RowWritten
  <2>2. UNCHANGED <<answer, given, unwritten, sync>> /\ sync = "writing"
    BY <1>5 DEF RowWritten
  <2>3. k = <<k[1], k[2]>> /\ k[1] \in Libs
    BY LeftParts
  <2>4. ASSUME NEW q \in Keys \ (left' \cup unwritten) PROVE Stored(q)'
    <3>1. q[1] \in Libs /\ q = <<q[1], q[2]>>
      BY KeyParts DEF Answered
    <3>2. CASE q = k
      BY <2>1, <2>2, <2>3, <3>2, UpsertEffect
    <3>3. CASE q # k
      <4>1. Stored(q)
        BY <2>1, <2>2, <3>3 DEF MergeInv
      <4>2. q[1] # k[1] \/ q[2] # k[2]
        BY <2>3, <3>1, <3>3
      <4> QED BY <2>1, <2>2, <2>3, <3>1, <4>1, <4>2, UpsertEffect
    <3> QED BY <3>2, <3>3
  <2> QED BY <2>2, <2>4, AnswersDecide DEF MergeInv
<1>6. CASE RowFails
  <2>1. PICK k \in left : left' = left \ {k} /\ unwritten' = unwritten \cup {k}
    BY <1>6 DEF RowFails
  <2>2. UNCHANGED <<answer, given, table, sync>> /\ sync = "writing"
    BY <1>6 DEF RowFails
  <2>3. left' \cup unwritten' = left \cup unwritten
    BY <2>1
  <2> QED BY <2>2, <2>3, AnswersDecide DEF MergeInv
<1>7. CASE SyncEnds
  BY <1>7, AnswersDecide DEF SyncEnds, MergeInv
<1>8. CASE SyncStops
  <2>1. Keys' = {} /\ Answered' = {}
    BY <1>8 DEF SyncStops, Keys, Answered, NoAnswers
  <2> QED BY <2>1 DEF MergeInv
<1> QED BY <1>1, <1>2, <1>3, <1>4, <1>5, <1>6, <1>7, <1>8 DEF SyncNext, SyncStep

\* A key that a run has done with has its row.
LEMMA MergeInvHolds == OsvSpec => []MergeInv
<1>1. SyncInit => MergeInv
  <2> SUFFICES ASSUME SyncInit PROVE MergeInv
    OBVIOUS
  <2>1. Keys = {} /\ Answered = {}
    BY NothingAnswered DEF SyncInit
  <2> QED BY <2>1 DEF MergeInv
<1>2. SyncTypeOK /\ MergeInv /\ [OsvNext]_<<syncVars, upstream, changes>> => MergeInv'
  <2>1. MergeInv /\ UNCHANGED syncVars => MergeInv'
    BY AnswersDecide DEF MergeInv, syncVars
  <2> QED BY <2>1, MergeStep DEF OsvNext
<1> QED BY <1>1, <1>2, SyncTypeCorrect, PTL DEF OsvSpec

\* A failed query or write costs its own library or row only: a run that ends by
\* itself has stored every row of every answer it got whose own write did not fail.
THEOREM FailuresStayIsolated == OsvSpec => []FailuresAreIsolated
<1>1. SyncTypeOK /\ MergeInv => FailuresAreIsolated
  BY DEF SyncTypeOK, MergeInv, FailuresAreIsolated
<1> QED BY <1>1, SyncTypeCorrect, MergeInvHolds, PTL

-----------------------------------------------------------------------------
(* What a scan reads *)

\* Whatever is written meanwhile, each row a scan reads is the merge of one answer
\* that OSV gave for that library.
THEOREM ReadRowsAreAnswered == OsvSpec => []RowsAreAnswered
<1>1. SyncInit => RowsAreAnswered
  BY DEF SyncInit, RowsAreAnswered
<1>2. SyncTypeOK /\ MergeInv /\ RowsAreAnswered /\ [OsvNext]_<<syncVars, upstream, changes>>
        => RowsAreAnswered'
  <2> SUFFICES ASSUME SyncTypeOK, MergeInv, RowsAreAnswered, [OsvNext]_<<syncVars, upstream, changes>>
               PROVE  RowsAreAnswered'
    OBVIOUS
  <2> DEFINE FromOne(c, row, own) == c \in Cves(own) /\ row = Merged(own, c)
  <2>1. \A l \in Libs : given[l] \subseteq given'[l]
    <3>1. given' = given \/ QueryAnswered
      BY DEF OsvNext, SyncNext, SyncStep, TimerFires, StartWriting, RowWritten, SyncEnds,
             QueryFails, RowFails, SyncStops, syncVars
    <3> QED BY <3>1 DEF QueryAnswered, SyncTypeOK
  <2>2. CASE table' = table
    BY <2>1, <2>2 DEF RowsAreAnswered
  <2>3. CASE RowWritten
    <3>1. PICK k \in left : Upsert(k[1], k[2])
      BY <2>3 DEF RowWritten
    <3> DEFINE lib == k[1]
               cve == k[2]
    <3>2. /\ lib \in Libs /\ cve \in Cves(answer[lib])
          /\ answer[lib] \in given[lib]
      BY LeftParts DEF MergeInv
    <3>3. /\ \A l \in Libs : DOMAIN table'[l] = DOMAIN table[l] \cup (IF l = lib THEN {cve} ELSE {})
          /\ table'[lib][cve] = Merged(answer[lib], cve)
          /\ \A l \in Libs : \A c \in DOMAIN table[l] :
               l # lib \/ c # cve => table'[l][c] = table[l][c]
      BY <3>1, <3>2, UpsertEffect DEF SyncTypeOK
    <3> HIDE DEF lib, cve
    <3>4. ASSUME NEW l \in Libs, NEW c \in DOMAIN table'[l]
          PROVE  \E own \in given'[l] : FromOne(c, table'[l][c], own)
      <4>1. CASE l = lib /\ c = cve
        BY <2>1, <3>2, <3>3, <4>1
      <4>2. CASE l # lib \/ c # cve
        <5>1. c \in DOMAIN table[l] /\ table'[l][c] = table[l][c]
          BY <3>3, <3>4, <4>2
        <5> QED BY <2>1, <5>1 DEF RowsAreAnswered
      <4> QED BY <4>1, <4>2
    <3> QED BY <3>4 DEF RowsAreAnswered
  <2> QED BY <2>2, <2>3 DEF OsvNext, SyncNext, SyncStep, TimerFires, QueryAnswered, StartWriting,
             SyncEnds, QueryFails, RowFails, SyncStops, syncVars
<1> QED BY <1>1, <1>2, SyncTypeCorrect, MergeInvHolds, PTL DEF OsvSpec

\* A row that scans can read stays readable, whatever fails.
THEOREM RowsStay == OsvSpec => RowsStayReadable
<1>1. SyncTypeOK /\ [OsvNext]_<<syncVars, upstream, changes>> =>
        [\A lib \in Libs : DOMAIN table[lib] \subseteq DOMAIN table'[lib]]_<<syncVars, upstream, changes>>
  <2> SUFFICES ASSUME SyncTypeOK, OsvNext, NEW l \in Libs
               PROVE  DOMAIN table[l] \subseteq DOMAIN table'[l]
    OBVIOUS
  <2>1. CASE table' = table
    BY <2>1
  <2>2. CASE RowWritten
    <3>1. PICK k \in left : Upsert(k[1], k[2])
      BY <2>2 DEF RowWritten
    <3> QED BY <3>1, LeftParts, UpsertEffect DEF SyncTypeOK
  <2> QED BY <2>1, <2>2 DEF OsvNext, SyncNext, SyncStep, TimerFires, QueryAnswered, StartWriting,
             SyncEnds, QueryFails, RowFails, SyncStops, syncVars
<1> QED BY <1>1, SyncTypeCorrect, PTL DEF OsvSpec, RowsStayReadable
-----------------------------------------------------------------------------
(* Extremes of finite sets *)

\* A finite set has a member of the least value: a smallest part of it without one
\* would have one after all.
LEMMA HasLeast ==
  ASSUME NEW S, IsFiniteSet(S), S # {}, NEW v \in [S -> Int]
  PROVE  \E x \in S : \A y \in S : v[x] <= v[y]
<1> DEFINE Least(U) == \E x \in U : \A y \in U : v[x] <= v[y]
           bad == {U \in SUBSET S : U # {} /\ ~Least(U)}
<1>1. SUFFICES ASSUME bad # {} PROVE FALSE
  OBVIOUS
<1>2. IsWellFoundedOn(StrictSubsetOrdering(S), FiniteSubsetsOf(S))
  BY FS_StrictSubsetOrderingWellFounded
<1>3. bad \subseteq FiniteSubsetsOf(S)
  BY FS_Subset DEF FiniteSubsetsOf
<1> HIDE DEF bad
<1>4. PICK U \in bad : \A W \in bad : ~(<<W, U>> \in StrictSubsetOrdering(S))
  BY <1>1, <1>2, <1>3, WFMin
<1> USE DEF bad
<1>5. PICK x \in U : TRUE
  OBVIOUS
<1>6. U \ {x} \notin bad
  BY <1>4, <1>5 DEF StrictSubsetOrdering
<1>7. CASE U \ {x} = {}
  BY <1>5, <1>7
<1>8. CASE U \ {x} # {}
  <2>1. PICK y \in U \ {x} : \A z \in U \ {x} : v[y] <= v[z]
    BY <1>6, <1>8
  <2>2. v[x] \in Int /\ \A z \in U : v[z] \in Int
    BY <1>5
  <2>3. CASE v[x] <= v[y]
    <3>1. \A z \in U : v[x] <= v[z]
      BY <2>1, <2>2, <2>3
    <3> QED BY <1>5, <3>1
  <2>4. CASE ~(v[x] <= v[y])
    <3>1. \A z \in U : v[y] <= v[z]
      BY <2>1, <2>2, <2>4
    <3> QED BY <2>1, <3>1
  <2> QED BY <2>3, <2>4
<1> QED BY <1>7, <1>8

\* And one of the greatest.
LEMMA HasGreatest ==
  ASSUME NEW S, IsFiniteSet(S), S # {}, NEW v \in [S -> Int]
  PROVE  \E x \in S : \A y \in S : v[y] <= v[x]
<1> DEFINE w == [x \in S |-> 0 - v[x]]
<1>1. w \in [S -> Int]
  OBVIOUS
<1>2. PICK x \in S : \A y \in S : w[x] <= w[y]
  <2> HIDE DEF w
  <2> QED BY <1>1, HasLeast
<1> QED BY <1>2

\* What Min and Max choose is in the set, and bounds it.
LEMMA MinAndMax ==
  ASSUME NEW S \in SUBSET Nat, IsFiniteSet(S), S # {}
  PROVE  /\ Min(S) \in S /\ \A y \in S : Min(S) <= y
         /\ Max(S) \in S /\ \A y \in S : y <= Max(S)
<1> DEFINE v == [x \in S |-> x]
<1>1. v \in [S -> Int]
  OBVIOUS
<1>2. \E x \in S : \A y \in S : x <= y
  <2>1. \E x \in S : \A y \in S : v[x] <= v[y]
    <3> HIDE DEF v
    <3> QED BY <1>1, HasLeast
  <2> QED BY <2>1
<1>3. \E x \in S : \A y \in S : x >= y
  <2>1. \E x \in S : \A y \in S : v[y] <= v[x]
    <3> HIDE DEF v
    <3> QED BY <1>1, HasGreatest
  <2> QED BY <2>1
<1> QED BY <1>2, <1>3 DEF Min, Max

\* The places of a sequence with some property.
LEMMA Places ==
  ASSUME NEW D, NEW s \in Seq(D), NEW P \in SUBSET DOMAIN s
  PROVE  /\ P \in SUBSET Nat /\ IsFiniteSet(P)
         /\ P # {} => /\ Min(P) \in P /\ Max(P) \in P
                      /\ s[Min(P)] \in D /\ s[Max(P)] \in D
                      /\ \A i \in P : Min(P) <= i /\ i <= Max(P)
<1>1. DOMAIN s = 1..Len(s) /\ Len(s) \in Nat
  OBVIOUS
<1>2. P \in SUBSET Nat /\ P \in SUBSET (1..Len(s))
  BY <1>1
<1>3. IsFiniteSet(1..Len(s))
  BY <1>1, FS_Interval
<1>4. IsFiniteSet(P)
  BY <1>2, <1>3, FS_Subset
<1> QED BY <1>1, <1>2, <1>4, MinAndMax

-----------------------------------------------------------------------------
(* Rows and their merges *)

TypedRow(r) ==
  /\ DOMAIN r = {"cve", "lo", "hi", "cvss", "cwe"} /\ r = [f \in DOMAIN r |-> r[f]]
  /\ r.lo \in {None} \cup Versions /\ r.hi \in {None} \cup Versions /\ r.cvss \in Nat

\* A bound is the version of an event, the start, or none.
LEMMA BoundsAreVersions ==
  ASSUME NEW events \in Seq(Event)
  PROVE  Bounds(events).lo \in Versions /\ Bounds(events).hi \in {None} \cup Versions
<1> DEFINE At(kind) == {i \in DOMAIN events : events[i].kind = kind}
<1>1. ASSUME NEW kind, At(kind) # {} PROVE events[Max(At(kind))].at \in Versions
  <2>1. At(kind) \in SUBSET DOMAIN events
    OBVIOUS
  <2>2. events[Max(At(kind))] \in Event
    <3> HIDE DEF At
    <3> QED BY <1>1, <2>1, Places
  <2> HIDE DEF At
  <2> QED BY <2>2 DEF Event
<1>2. At("introduced") # {} => events[Max(At("introduced"))].at \in Versions
  BY <1>1
<1>3. At("fixed") # {} => events[Max(At("fixed"))].at \in Versions
  BY <1>1
<1> QED BY <1>2, <1>3, RecordsAssumption DEF Bounds

\* The first of some rows is one of them.
LEMMA FirstIsOne ==
  ASSUME NEW S, IsFiniteSet(S), S # {}, \A r \in S : r.at \in Nat
  PROVE  \E r \in S : First(S) = r.row
<1> DEFINE v == [r \in S |-> r.at]
<1>1. \E r \in S : \A q \in S : v[r] <= v[q]
  <2>1. v \in [S -> Int]
    OBVIOUS
  <2> HIDE DEF v
  <2> QED BY <2>1, HasLeast
<1>2. \E r \in S : \A q \in S : r.at <= q.at
  BY <1>1
<1> QED BY <1>2 DEF First

\* A bound has a key, and what two bounds in order say of their versions.
LEMMA Keyed ==
  ASSUME NEW v \in {None} \cup Versions, NEW w \in {None} \cup Versions
  PROVE  /\ Parsed(v) \in Nat
         /\ KeyedInOrder(v, w) => v \notin Unparsable /\ w \notin Unparsable
         /\ KeyedInOrder(v, w) /\ v # None /\ Parsed(v) <= Parsed(w) => v = 0 \/ (w # None /\ v <= w)
<1>1. Parsed(v) \in Nat
  BY RecordsAssumption DEF Parsed
<1>2. KeyedInOrder(v, w) => v \notin Unparsable /\ w \notin Unparsable
  BY DEF KeyedInOrder
<1> QED BY <1>1, <1>2 DEF KeyedInOrder

\* What Lowest and Highest choose is a bound of one of the rows, and by its key the
\* lowest or the highest of all of them.
LEMMA LowestAndHighest ==
  ASSUME NEW same, IsFiniteSet(same), same # {}, \A r \in same : r.at \in Nat /\ TypedRow(r.row)
  PROVE  /\ \E r \in same : Lowest(same) = r.row.lo
         /\ \A q \in same : Parsed(Lowest(same)) <= Parsed(q.row.lo)
         /\ \E r \in same : Highest(same) = r.row.hi
         /\ \A q \in same : Parsed(q.row.hi) <= Parsed(Highest(same))
<1> DEFINE lows == {r \in same : \A q \in same : Parsed(r.row.lo) <= Parsed(q.row.lo)}
           highs == {r \in same : \A q \in same : Parsed(q.row.hi) <= Parsed(r.row.hi)}
           lo == [r \in same |-> Parsed(r.row.lo)]
           hi == [r \in same |-> Parsed(r.row.hi)]
<1>1. lo \in [same -> Int] /\ hi \in [same -> Int]
  <2>1. ASSUME NEW r \in same PROVE Parsed(r.row.lo) \in Int /\ Parsed(r.row.hi) \in Int
    <3>1. r.row.lo \in {None} \cup Versions /\ r.row.hi \in {None} \cup Versions
      BY DEF TypedRow
    <3> QED BY <3>1, Keyed
  <2> QED BY <2>1
<1>2. /\ \E r \in same : \A q \in same : lo[r] <= lo[q]
      /\ \E r \in same : \A q \in same : hi[q] <= hi[r]
  <2> HIDE DEF lo, hi
  <2> QED BY <1>1, HasLeast, HasGreatest
<1>3. /\ lows # {} /\ lows \subseteq same /\ IsFiniteSet(lows)
      /\ highs # {} /\ highs \subseteq same /\ IsFiniteSet(highs)
  <2>1. lows # {} /\ lows \subseteq same /\ highs # {} /\ highs \subseteq same
    BY <1>2
  <2> QED BY <2>1, FS_Subset
<1>4. PICK low \in lows : First(lows) = low.row
  <2> HIDE DEF lows
  <2> QED BY <1>3, FirstIsOne
<1>5. PICK high \in highs : First(highs) = high.row
  <2> HIDE DEF highs
  <2> QED BY <1>3, FirstIsOne
<1> QED BY <1>4, <1>5 DEF Lowest, Highest

\* An advisory becomes a row with bounds that are versions, or none.
LEMMA RowIsTyped ==
  ASSUME NEW v \in Advisory, NEW lib
  PROVE  /\ TypedRow(Row(v, lib))
         /\ Row(v, lib).lo = AffectedRange(v, lib).lo /\ Row(v, lib).hi = AffectedRange(v, lib).hi
<1>1. Cvss(v) \in Nat
  <2> DEFINE parsed == {i \in DOMAIN v.vectors : v.vectors[i] # None}
  <2>1. v.vectors \in Seq({None} \cup Nat) /\ v.label \in Nat /\ v.malicious \in BOOLEAN
        /\ parsed \in SUBSET DOMAIN v.vectors
    BY DEF Advisory
  <2>2. parsed # {} => Min(parsed) \in parsed /\ v.vectors[Min(parsed)] \in {None} \cup Nat
    <3> HIDE DEF parsed
    <3> QED BY <2>1, Places
  <2>3. parsed # {} => v.vectors[Min(parsed)] \in Nat
    BY <2>2
  <2> QED BY <2>1, <2>3 DEF Cvss
<1>2. /\ AffectedRange(v, lib).lo \in {None} \cup Versions
      /\ AffectedRange(v, lib).hi \in {None} \cup Versions
  <2> DEFINE entries == {i \in DOMAIN v.affected :
                            /\ v.affected[i].package = lib
                            /\ v.affected[i].semver # <<>> \/ v.affected[i].versions # <<>>}
             a == v.affected[Min(entries)]
  <2>1. v.affected \in Seq(Affected) /\ entries \in SUBSET DOMAIN v.affected
    BY DEF Advisory
  <2>2. ASSUME entries # {}
        PROVE  /\ a \in Affected
               /\ a.semver # <<>> \/ a.versions # <<>>
    <3>1. Min(entries) \in entries /\ v.affected[Min(entries)] \in Affected
      <4> HIDE DEF entries
      <4> QED BY <2>1, <2>2, Places
    <3> QED BY <3>1
  <2>3. CASE entries = {}
    BY <2>3 DEF AffectedRange
  <2>4. CASE entries # {} /\ a.semver # <<>>
    <3>1. AffectedRange(v, lib) = Bounds(Head(a.semver))
      BY <2>4 DEF AffectedRange
    <3>2. Head(a.semver) \in Seq(Event)
      <4> HIDE DEF a
      <4> QED BY <2>2, <2>4 DEF Affected
    <3> HIDE DEF a
    <3> QED BY <3>1, <3>2, BoundsAreVersions
  <2>5. CASE entries # {} /\ a.semver = <<>>
    <3>1. /\ AffectedRange(v, lib).lo = Head(a.versions)
          /\ AffectedRange(v, lib).hi = a.versions[Len(a.versions)]
      BY <2>5 DEF AffectedRange
    <3>2. a.versions \in Seq(Versions) /\ a.versions # <<>>
      <4> HIDE DEF a
      <4> QED BY <2>2, <2>5 DEF Affected
    <3>3. Head(a.versions) \in Versions /\ a.versions[Len(a.versions)] \in Versions
      <4> HIDE DEF a
      <4> QED BY <3>2
    <3> HIDE DEF a
    <3> QED BY <3>1, <3>3
  <2> QED BY <2>3, <2>4, <2>5
<1> HIDE DEF AffectedRange
<1> QED BY <1>1, <1>2 DEF Row, TypedRow

\* What a merged row keeps of a row, unless the sort key misorders their bounds.
Covers(merged, row) ==
  /\ merged.cvss >= row.cvss
  /\ KeyedInOrder(merged.lo, row.lo) /\ (merged.hi = None \/ KeyedInOrder(row.hi, merged.hi)) =>
       \A version \in Versions : InRange(version, row) => InRange(version, merged)

\* A merge of rows covers each of them.
LEMMA MergeCovers ==
  ASSUME NEW same, IsFiniteSet(same), NEW p \in same,
         \A r \in same : r.at \in Nat /\ TypedRow(r.row)
  PROVE  Covers(MergeRanges(same), p.row)
<1> USE RecordsAssumption
<1> DEFINE first == First(same)
           weak == {r \in same : r.row.cwe # None}
           scores == Values(same, "cvss")
           cwe == IF weak = {} THEN None ELSE First(weak).cwe
           low == Lowest(same)
           top == IF None \in Values(same, "hi") THEN None ELSE Highest(same)
           merged == MergeRanges(same)
<1>1. TypedRow(first)
  BY FirstIsOne
<1>2. scores # {} /\ scores \subseteq Nat /\ p.row.cvss \in scores /\ IsFiniteSet(scores)
  <2> DEFINE g == [r \in same |-> r.row.cvss]
  <2>1. g \in Surjection(same, scores) /\ p.row.cvss \in scores /\ scores \subseteq Nat
    BY DEF Surjection, Values, TypedRow
  <2> HIDE DEF g, scores
  <2> QED BY <2>1, FS_Surjection
<1>3. Max(scores) \in Nat /\ p.row.cvss <= Max(scores)
  <2> HIDE DEF scores
  <2> QED BY <1>2, MinAndMax
<1>4. /\ low \in {None} \cup Versions /\ Parsed(low) <= Parsed(p.row.lo)
      /\ Highest(same) \in {None} \cup Versions /\ Parsed(p.row.hi) <= Parsed(Highest(same))
  BY LowestAndHighest DEF TypedRow
<1>5. p.row.hi \in Values(same, "hi") /\ p.row.lo \in {None} \cup Versions /\ p.row.hi \in {None} \cup Versions
  BY DEF Values, TypedRow
<1> HIDE DEF scores, first, cwe, low
<1>6. merged = [[first EXCEPT !.cvss = Max(scores), !.cwe = cwe] EXCEPT !.lo = low, !.hi = top]
  BY DEF MergeRanges, MergeScores, first, cwe, scores, low
<1>7. merged.cvss = Max(scores) /\ merged.lo = low /\ merged.hi = top
  <2> HIDE DEF top, merged
  <2> QED BY <1>1, <1>6 DEF TypedRow
<1>8. ASSUME KeyedInOrder(low, p.row.lo), top = None \/ KeyedInOrder(p.row.hi, top),
             NEW version \in Versions, InRange(version, p.row)
      PROVE  InRange(version, merged)
  <2>1. version \in Nat /\ version \notin Unparsable
    BY <1>8 DEF InRange
  <2>2. low = None \/ (low \notin Unparsable /\ version >= low)
    <3>1. SUFFICES ASSUME low # None PROVE low \notin Unparsable /\ version >= low
      OBVIOUS
    <3>2. low \notin Unparsable /\ (low = 0 \/ (p.row.lo # None /\ low <= p.row.lo))
      BY <1>4, <1>5, <1>8, <3>1, Keyed
    <3>3. p.row.lo = None \/ version >= p.row.lo
      BY <1>8 DEF InRange
    <3>4. low \in Nat /\ (p.row.lo = None \/ p.row.lo \in Nat)
      BY <1>4, <1>5, <3>1
    <3> QED BY <2>1, <3>2, <3>3, <3>4
  <2>3. CASE top = None
    BY <1>7, <2>1, <2>2, <2>3 DEF InRange
  <2>4. CASE top # None
    <3>1. top = Highest(same) /\ p.row.hi # None /\ KeyedInOrder(p.row.hi, top)
      BY <1>5, <1>8, <2>4
    <3>2. p.row.hi \notin Unparsable /\ version < p.row.hi /\ p.row.hi \in Nat
      BY <1>5, <1>8, <3>1 DEF InRange
    <3>3. top \notin Unparsable /\ top \in Nat /\ p.row.hi <= top
      <4>1. top \in Versions /\ top \in Nat
        BY <1>4, <2>4, <3>1
      <4>2. top \notin Unparsable /\ (p.row.hi = 0 \/ p.row.hi <= top)
        BY <1>4, <1>5, <3>1, Keyed
      <4> QED BY <3>2, <4>1, <4>2
    <3> QED BY <1>7, <2>1, <2>2, <3>2, <3>3 DEF InRange
  <2> QED BY <2>3, <2>4
<1>9. merged.cvss >= p.row.cvss
  BY <1>2, <1>3, <1>7
<1> HIDE DEF merged, top
<1> QED BY <1>7, <1>8, <1>9 DEF Covers, merged

\* So the row made of any sound advisory is covered by the merge under its CVE.
LEMMA AnswerIsCovered ==
  ASSUME NEW vulns \in Seq(Advisory), NEW lib, NEW n \in DOMAIN vulns, ~vulns[n].malformed
  PROVE  LET r == Row(vulns[n], lib)
             own == RowsOf(vulns, lib)
         IN  r.cve \in Cves(own) /\ Covers(MergeRanges(Same(own, r.cve)), r)
<1> DEFINE r == Row(vulns[n], lib)
           own == RowsOf(vulns, lib)
           sound == {m \in DOMAIN vulns : ~vulns[m].malformed}
           same == Same(own, r.cve)
           p == [at |-> n, row |-> r]
<1>1. DOMAIN vulns = 1..Len(vulns) /\ Len(vulns) \in Nat /\ \A m \in DOMAIN vulns : vulns[m] \in Advisory
  OBVIOUS
<1>2. IsFiniteSet(sound) /\ sound \subseteq DOMAIN vulns /\ n \in sound
  <2>1. IsFiniteSet(1..Len(vulns))
    BY <1>1, FS_Interval
  <2> QED BY <1>1, <2>1, FS_Subset
<1>3. own = {[at |-> m, row |-> Row(vulns[m], lib)] : m \in sound}
  BY DEF RowsOf
<1> HIDE DEF sound, r
<1>4. IsFiniteSet(own)
  <2> DEFINE g == [m \in sound |-> [at |-> m, row |-> Row(vulns[m], lib)]]
  <2>1. g \in Surjection(sound, own)
    BY <1>3 DEF Surjection
  <2> HIDE DEF g
  <2> QED BY <1>2, <2>1, FS_Surjection
<1>5. \A q \in own : q.at \in Nat /\ TypedRow(q.row)
  BY <1>1, <1>2, <1>3, RowIsTyped
<1>6. p \in own /\ p.row = r
  BY <1>2, <1>3 DEF r
<1> HIDE DEF p, own
<1>7. r.cve \in Cves(own) /\ p \in same /\ same \subseteq own
  BY <1>6 DEF Cves, Same
<1>8. IsFiniteSet(same)
  BY <1>4, <1>7, FS_Subset
<1> HIDE DEF same
<1>9. Covers(MergeRanges(same), p.row)
  BY <1>5, <1>7, <1>8, MergeCovers
<1> QED BY <1>6, <1>7, <1>9 DEF r, own, same

-----------------------------------------------------------------------------
(* The ETL *)

\* Collecting an answer that is on disk: the library is done, or the program ends.
LEMMA CollectStep ==
  ASSUME EtlTypeOK, NEW file \in Seq(Advisory), turn <= Len(Libraries), Collect(file)
  PROVE  \/ etl' = "idle" /\ turn' = turn /\ rows' = rows
         \/ /\ etl' = "fetching" /\ turn' = turn + 1 /\ Sound(file)
            /\ rows' = [rows EXCEPT ![Libraries[turn]] = RowsOf(file, Libraries[turn])]
<1>1. Whole(file)
  <2>1. <<None>> \notin Seq(Advisory)
    BY RecordsAssumption
  <2> QED BY <2>1, FilesAssumption DEF Whole, NoFile
<1> QED BY <1>1 DEF Collect, Sound

\* Every step of the ETL keeps its types and CsvInv.
LEMMA EtlStep ==
  ASSUME EtlTypeOK, CsvInv, EtlNext, UNCHANGED <<upstream, changes>>
  PROVE  EtlTypeOK' /\ CsvInv'
<1> USE RecordsAssumption
<1> DEFINE here == Libraries[turn]
           Done(lib) == Sound(cached[lib]) /\ rows[lib] = RowsOf(cached[lib], lib)
           InCsv(lib) == LET own == RowsOf(cached[lib], lib)
                         IN  /\ Sound(cached[lib])
                             /\ csv[lib] = [cve \in Cves(own) |-> MergeRanges(Same(own, cve))]
<1>1. /\ Len(Libraries) \in Nat /\ \A n \in 1..Len(Libraries) : Libraries[n] \in Libs
      /\ \A lib \in Libs : \E n \in 1..Len(Libraries) : lib = Libraries[n]
  BY DEF Libs
<1>2. /\ etl # "idle" => \A n \in 1..turn - 1 : Done(Libraries[n])
      /\ Whole(csv) => \A lib \in Libs : InCsv(lib)
  BY DEF CsvInv
<1>3. /\ turn \in 1..Len(Libraries) + 1
       /\ \A n \in 1..turn - 1 : Libraries[n] \in Libs
  <2>1. turn \in 1..Len(Libraries) + 1
    BY DEF EtlTypeOK
  <2> QED BY <1>1, <2>1
<1>4. ~Sound(Torn) /\ ~Sound(NoFile) /\ ~Whole(Torn) /\ ~Whole(NoFile)
  BY DEF Sound, Whole
<1>5. CASE EtlStarts
  <2>1. etl' = "fetching" /\ turn' = 1 /\ DOMAIN rows' = Libs /\ UNCHANGED <<reply, cached, csv>>
    BY <1>5 DEF EtlStarts
  <2>2. EtlTypeOK'
    BY <1>1, <2>1 DEF EtlTypeOK
  <2> QED BY <2>1, <2>2 DEF CsvInv
<1>6. CASE EtlStops \/ QueryRaises
  <2>1. etl' = "idle" /\ UNCHANGED <<turn, reply, cached, rows, csv>>
    BY <1>6 DEF EtlStops, QueryRaises
  <2>2. EtlTypeOK'
    BY <2>1 DEF EtlTypeOK
  <2> QED BY <2>1, <2>2 DEF CsvInv
<1>7. CASE ReadsCache
  <2>1. /\ etl = "fetching" /\ turn <= Len(Libraries) /\ here \in Libs
        /\ UNCHANGED <<reply, cached, csv>>
    BY <1>1, <1>7 DEF ReadsCache, Fetching, EtlTypeOK
  <2>2. CASE cached[here] = Torn
    <3>1. etl' = "idle" /\ UNCHANGED <<turn, rows>>
      BY <1>7, <2>2 DEF ReadsCache
    <3>2. EtlTypeOK'
      BY <2>1, <3>1 DEF EtlTypeOK
    <3> QED BY <2>1, <3>1, <3>2 DEF CsvInv
  <2>3. CASE cached[here] # Torn
    <3>1. cached[here] \in Seq(Advisory) /\ Collect(cached[here])
      BY <1>7, <2>1, <2>3 DEF ReadsCache, EtlTypeOK
    <3>2. CASE etl' = "idle" /\ turn' = turn /\ rows' = rows
      <4>1. EtlTypeOK'
        BY <2>1, <3>2 DEF EtlTypeOK
      <4> QED BY <2>1, <3>2, <4>1 DEF CsvInv
    <3>3. CASE /\ etl' = "fetching" /\ turn' = turn + 1 /\ Sound(cached[here])
               /\ rows' = [rows EXCEPT ![here] = RowsOf(cached[here], here)]
      <4>1. EtlTypeOK'
        BY <1>1, <2>1, <3>3 DEF EtlTypeOK
      <4>2. ASSUME NEW n \in 1..turn' - 1
            PROVE  Sound(cached'[Libraries[n]]) /\ rows'[Libraries[n]] = RowsOf(cached'[Libraries[n]], Libraries[n])
        <5>1. n \in 1..turn - 1 \/ n = turn
          BY <1>3, <3>3
        <5>2. Libraries[n] \in Libs
          BY <1>3, <2>1, <5>1
        <5>3. CASE Libraries[n] = here
          BY <2>1, <3>3, <5>3 DEF EtlTypeOK
        <5>4. CASE Libraries[n] # here
          <6>1. Done(Libraries[n])
            BY <1>2, <2>1, <5>1, <5>4
          <6> QED BY <2>1, <3>3, <5>4, <5>2, <6>1 DEF EtlTypeOK
        <5> QED BY <5>3, <5>4
      <4> QED BY <2>1, <3>3, <4>1, <4>2 DEF CsvInv
    <3> QED BY <2>1, <3>1, <3>2, <3>3, CollectStep
  <2> QED BY <2>2, <2>3
<1>8. CASE Queries
  <2>1. /\ etl = "fetching" /\ etl' = "caching" /\ turn <= Len(Libraries) /\ here \in Libs
        /\ cached[here] = NoFile
        /\ cached' = [cached EXCEPT ![here] = Torn] /\ reply' = upstream[here]
        /\ UNCHANGED <<turn, rows, csv>>
    BY <1>1, <1>8 DEF Queries, Fetching, EtlTypeOK
  <2>2. EtlTypeOK'
    BY <2>1 DEF EtlTypeOK
  <2>3. ~Whole(csv)
    BY <1>2, <1>4, <2>1
  <2>4. ASSUME NEW n \in 1..turn - 1
        PROVE  cached'[Libraries[n]] = cached[Libraries[n]]
    <3>1. Libraries[n] \in Libs /\ Sound(cached[Libraries[n]])
      BY <1>2, <1>3, <2>1
    <3>2. Libraries[n] # here
      BY <1>4, <2>1, <3>1
    <3> QED BY <2>1, <3>1, <3>2 DEF EtlTypeOK
  <2>5. cached'[here] = Torn
    BY <2>1 DEF EtlTypeOK
  <2> QED BY <1>2, <2>1, <2>2, <2>3, <2>4, <2>5 DEF CsvInv
<1>9. CASE Caches
  <2>1. /\ etl = "caching" /\ turn <= Len(Libraries) /\ here \in Libs /\ cached[here] = Torn
        /\ cached' = [cached EXCEPT ![here] = reply] /\ Collect(reply) /\ UNCHANGED <<reply, csv>>
    BY <1>1, <1>9 DEF Caches, CsvInv, EtlTypeOK
  <2>2. reply \in Seq(Advisory) /\ cached'[here] = reply
    BY <2>1 DEF EtlTypeOK
  <2>3. ~Whole(csv)
    BY <1>2, <1>4, <2>1
  <2>4. ASSUME NEW n \in 1..turn - 1
        PROVE  cached'[Libraries[n]] = cached[Libraries[n]] /\ Libraries[n] \in Libs /\ Libraries[n] # here
    <3>1. Libraries[n] \in Libs /\ Sound(cached[Libraries[n]])
      BY <1>2, <1>3, <2>1
    <3>2. Libraries[n] # here
      BY <1>4, <2>1, <3>1
    <3> QED BY <2>1, <3>1, <3>2 DEF EtlTypeOK
  <2>5. CASE etl' = "idle" /\ turn' = turn /\ rows' = rows
    <3>1. EtlTypeOK'
      BY <2>1, <2>2, <2>5 DEF EtlTypeOK
    <3> QED BY <2>1, <2>3, <2>5, <3>1 DEF CsvInv
  <2>6. CASE /\ etl' = "fetching" /\ turn' = turn + 1 /\ Sound(reply)
             /\ rows' = [rows EXCEPT ![here] = RowsOf(reply, here)]
    <3>1. EtlTypeOK'
      BY <1>1, <2>1, <2>2, <2>6 DEF EtlTypeOK
    <3>2. ASSUME NEW n \in 1..turn' - 1
          PROVE  Sound(cached'[Libraries[n]]) /\ rows'[Libraries[n]] = RowsOf(cached'[Libraries[n]], Libraries[n])
      <4>1. n \in 1..turn - 1 \/ n = turn
        BY <2>6 DEF EtlTypeOK
      <4>2. CASE n = turn
        BY <2>1, <2>2, <2>6, <4>2 DEF EtlTypeOK
      <4>3. CASE n \in 1..turn - 1
        BY <1>2, <2>1, <2>4, <2>6, <4>3 DEF EtlTypeOK
      <4> QED BY <4>1, <4>2, <4>3
    <3> QED BY <2>1, <2>3, <2>6, <3>1, <3>2 DEF CsvInv
  <2> QED BY <2>1, <2>2, <2>5, <2>6, CollectStep
<1>10. CASE OpensCsv
  <2>1. /\ etl = "fetching" /\ etl' = "writing" /\ turn > Len(Libraries) /\ csv' = Torn
        /\ UNCHANGED <<turn, reply, cached, rows>>
    BY <1>10 DEF OpensCsv
  <2>2. EtlTypeOK'
    BY <2>1 DEF EtlTypeOK
  <2> QED BY <1>2, <1>4, <2>1, <2>2 DEF CsvInv
<1>11. CASE WritesCsv
  <2>1. /\ etl = "writing" /\ etl' = "idle" /\ UNCHANGED <<turn, reply, cached, rows>>
        /\ csv' = [lib \in Libs |-> [cve \in Cves(rows[lib]) |-> MergeRanges(Same(rows[lib], cve))]]
    BY <1>11 DEF WritesCsv
  <2>2. EtlTypeOK'
    BY <2>1 DEF EtlTypeOK
  <2>3. ASSUME NEW lib \in Libs PROVE Done(lib)
    <3>1. PICK n \in 1..Len(Libraries) : lib = Libraries[n]
      BY <1>1
    <3>2. n \in 1..turn - 1
      BY <2>1, <3>1 DEF CsvInv, EtlTypeOK
    <3> QED BY <1>2, <2>1, <3>1, <3>2
  <2>4. ASSUME NEW lib \in Libs PROVE InCsv(lib)'
    BY <2>1, <2>3
  <2> QED BY <2>1, <2>2, <2>4 DEF CsvInv
<1> QED BY <1>5, <1>6, <1>7, <1>8, <1>9, <1>10, <1>11 DEF EtlNext

\* The CSV holds what was made of the answers on disk, however often the program was
\* stopped and started before.
LEMMA CsvInvHolds == EtlSpec => [](EtlTypeOK /\ CsvInv)
<1> USE RecordsAssumption
<1>1. UpstreamInit /\ EtlInit => EtlTypeOK /\ CsvInv
  <2> SUFFICES ASSUME UpstreamInit, EtlInit PROVE EtlTypeOK /\ CsvInv
    OBVIOUS
  <2>1. EtlTypeOK
    BY DEF UpstreamInit, EtlInit, EtlTypeOK
  <2>2. ~Whole(csv)
    BY DEF EtlInit, Whole
  <2> QED BY <2>1, <2>2 DEF EtlInit, CsvInv
<1>2. EtlTypeOK /\ CsvInv /\ [EtlOsvNext]_<<etlVars, upstream, changes>> => (EtlTypeOK /\ CsvInv)'
  <2>1. ASSUME EtlTypeOK, CsvInv, UNCHANGED etlVars, upstream' \in Worlds PROVE (EtlTypeOK /\ CsvInv)'
    BY <2>1 DEF etlVars, EtlTypeOK, CsvInv
  <2>2. EtlTypeOK /\ (UpstreamChanges \/ UNCHANGED upstream) => upstream' \in Worlds
    BY DEF UpstreamChanges, EtlTypeOK
  <2> QED BY <2>1, <2>2, EtlStep DEF EtlOsvNext
<1> QED BY <1>1, <1>2, PTL DEF EtlSpec

\* A CSV written to its end covers every library, has no lower a score than any advisory
\* of the answers on disk, and flags what any of them flags, unless the sort key misorders
\* the bounds; whatever OSV, the cache and the runs before did.
THEOREM CsvCoversAnswers == EtlSpec => []CsvIsConservative
<1>1. EtlTypeOK /\ CsvInv => CsvIsConservative
  <2> SUFFICES ASSUME EtlTypeOK, CsvInv, Whole(csv), NEW lib \in Libs
               PROVE  /\ Whole(cached[lib])
                      /\ \A n \in DOMAIN cached[lib] :
                           LET r == Row(cached[lib][n], lib)
                           IN  r.cve \in DOMAIN csv[lib] /\ Covers(csv[lib][r.cve], r)
    BY DEF CsvIsConservative, Covers
  <2> DEFINE own == RowsOf(cached[lib], lib)
  <2>1. Sound(cached[lib]) /\ csv[lib] = [cve \in Cves(own) |-> MergeRanges(Same(own, cve))]
    BY DEF CsvInv
  <2>2. cached[lib] \in Seq(Advisory)
    BY <2>1 DEF EtlTypeOK, Sound, Whole
  <2>3. ASSUME NEW n \in DOMAIN cached[lib]
        PROVE  LET r == Row(cached[lib][n], lib)
               IN  r.cve \in DOMAIN csv[lib] /\ Covers(csv[lib][r.cve], r)
    BY <2>1, <2>2, AnswerIsCovered DEF Sound
  <2> QED BY <2>1, <2>3 DEF Sound
<1> QED BY <1>1, CsvInvHolds, PTL

-----------------------------------------------------------------------------
(* Extraction *)

\* A range whose events come in the order of versions, each introduction followed by
\* one end, which may be the introduced version if that is the last affected one.
InTurn(events) ==
  /\ events # <<>> /\ events[1].kind = "introduced"
  /\ \A i, j \in DOMAIN events : i < j =>
       events[i].at < events[j].at \/ (events[j].kind = "last_affected" /\ events[i].at = events[j].at)
  /\ \A i \in 1..Len(events) - 1 : events[i].kind = "introduced" <=> events[i + 1].kind # "introduced"

\* An advisory with one entry for the library, and such ranges.
Regular(v, lib) ==
  LET own == {i \in DOMAIN v.affected : v.affected[i].package = lib}
  IN  /\ \A i, j \in own : i = j
      /\ \A i \in own : v.affected[i].semver # <<>> => InTurn(Head(v.affected[i].semver))

RegularWorlds ==
  \A w \in Worlds : \A lib \in Libs : \A n \in DOMAIN w[lib] : Regular(w[lib][n], lib)

\* From the last introduction to the last fix every version is vulnerable, unless another
\* end was overlooked; and no other version from that introduction on is, if the last fix
\* is the last event.
LEMMA LastIntervalIsVulnerable ==
  ASSUME NEW events \in Seq(Event), InTurn(events), NEW version \in Versions
  PROVE  LET b == Bounds(events)
         IN  /\ version >= b.lo /\ (b.hi = None \/ version < b.hi) =>
                  Vulnerable(version, events) \/ Overlooked(version, events)
             /\ Vulnerable(version, events) /\ version >= b.lo /\ FixedAtLast(events) =>
                  b.hi = None \/ version < b.hi
<1> DEFINE ins == {i \in DOMAIN events : events[i].kind = "introduced"}
           fixes == {i \in DOMAIN events : events[i].kind = "fixed"}
           b == Bounds(events)
           At(kind) == {e.at : e \in {events[i] : i \in {j \in DOMAIN events : events[j].kind = kind}}}
<1>1. /\ DOMAIN events = 1..Len(events) /\ Len(events) \in Nat /\ Len(events) # 0
      /\ \A i \in DOMAIN events : events[i].at \in Nat
      /\ version \in Nat /\ 1 \in ins
  <2>1. DOMAIN events = 1..Len(events) /\ Len(events) \in Nat /\ Len(events) # 0
    BY DEF InTurn
  <2>2. ASSUME NEW i \in DOMAIN events PROVE events[i].at \in Nat
    <3>1. events[i] \in Event
      OBVIOUS
    <3> QED BY <3>1, RecordsAssumption DEF Event
  <2>3. version \in Nat
    BY RecordsAssumption
  <2> QED BY <2>1, <2>2, <2>3 DEF InTurn
<1>2. /\ Max(ins) \in ins /\ \A i \in ins : i <= Max(ins)
      /\ fixes # {} => Max(fixes) \in fixes /\ \A i \in fixes : i <= Max(fixes)
  <2>1. ins \in SUBSET DOMAIN events /\ ins # {} /\ fixes \in SUBSET DOMAIN events
    BY <1>1
  <2> HIDE DEF ins, fixes
  <2> QED BY <2>1, Places
<1>3. b.lo = events[Max(ins)].at /\ b.hi = IF fixes = {} THEN None ELSE events[Max(fixes)].at
  BY <1>1 DEF Bounds
<1>4. \A kind, n : n \in At(kind) <=> \E j \in DOMAIN events : events[j].kind = kind /\ events[j].at = n
  OBVIOUS
<1>5. Vulnerable(version, events) <=>
        /\ \E start \in At("introduced") :
             /\ start <= version
             /\ At("fixed") \cap start + 1..version = {}
             /\ At("last_affected") \cap start..version - 1 = {}
        /\ At("limit") = {} \/ \E end \in At("limit") : version < end
  BY DEF Vulnerable
<1> HIDE DEF At
<1>6. ASSUME version >= b.lo, b.hi = None \/ version < b.hi, ~Overlooked(version, events)
      PROVE  Vulnerable(version, events)
  <2> DEFINE i == Max(ins)
             start == events[i].at
  <2>1. /\ i \in DOMAIN events /\ events[i].kind = "introduced" /\ start <= version
        /\ start \in Nat /\ b.lo = start /\ start \in At("introduced")
    BY <1>1, <1>2, <1>3, <1>4, <1>6
  <2>2. ASSUME NEW j \in DOMAIN events, events[j].kind = "fixed", events[j].at \in start + 1..version
        PROVE  FALSE
    <3>1. /\ fixes # {} /\ Max(fixes) \in DOMAIN events /\ j <= Max(fixes)
          /\ events[Max(fixes)].at \in Nat /\ events[Max(fixes)].kind = "fixed"
      BY <1>1, <1>2, <2>2
    <3>2. b.hi = events[Max(fixes)].at /\ b.hi # None
      BY <1>3, <3>1, RecordsAssumption
    <3>3. version < events[Max(fixes)].at /\ j # Max(fixes)
      BY <1>1, <1>6, <2>2, <3>1, <3>2
    <3>4. i < j
      <4>1. ~(j < i) /\ j # i
        BY <1>1, <2>1, <2>2 DEF InTurn
      <4> QED BY <1>1, <2>1, <4>1
    <3>5. j + 1 \in DOMAIN events /\ j \in 1..Len(events) - 1
      BY <1>1, <3>1, <3>3
    <3>6. events[j + 1].kind = "introduced"
      BY <2>2, <3>5 DEF InTurn
    <3>7. j + 1 <= i
      BY <1>2, <3>5, <3>6
    <3> QED BY <1>1, <2>1, <3>4, <3>7
  <2> HIDE DEF start
  <2>3. At("fixed") \cap start + 1..version = {}
    BY <1>4, <2>2
  <2>4. At("last_affected") \cap start..version - 1 = {}
    BY <1>4, <1>6, <2>1 DEF Overlooked
  <2>5. At("limit") = {} \/ \E end \in At("limit") : version < end
    <3>1. SUFFICES ASSUME NEW end \in At("limit") PROVE version < end
      OBVIOUS
    <3>2. PICK j \in DOMAIN events : events[j].kind = "limit" /\ events[j].at = end
      BY <1>4
    <3>3. ~(end <= version) /\ end \in Nat
      BY <1>1, <1>6, <3>2 DEF Overlooked
    <3> QED BY <1>1, <3>3
  <2> QED BY <1>5, <2>1, <2>3, <2>4, <2>5
<1>7. ASSUME Vulnerable(version, events), version >= b.lo, FixedAtLast(events), b.hi # None
      PROVE  version < b.hi
  <2> DEFINE n == Len(events)
  <2>1. fixes # {} /\ n \in DOMAIN events /\ events[n].kind = "fixed"
    BY <1>1, <1>3, <1>7 DEF FixedAtLast
  <2>2. Max(fixes) = n /\ b.hi = events[n].at
    <3>1. Max(fixes) \in DOMAIN events /\ n <= Max(fixes)
      BY <1>2, <2>1
    <3>2. Max(fixes) = n
      BY <1>1, <3>1
    <3> QED BY <1>3, <2>1, <3>2
  <2>3. PICK start \in At("introduced") : start <= version /\ At("fixed") \cap start + 1..version = {}
    BY <1>5, <1>7
  <2>4. PICK i \in DOMAIN events : events[i].kind = "introduced" /\ events[i].at = start
    BY <1>4
  <2>5. i < n
    BY <1>1, <2>1, <2>4
  <2>6. start < events[n].at /\ start \in Nat /\ events[n].at \in Nat
    BY <1>1, <2>1, <2>4, <2>5 DEF InTurn
  <2>7. ~(events[n].at \in start + 1..version)
    BY <1>4, <2>1, <2>3
  <2> QED BY <1>1, <2>2, <2>6, <2>7
<1> QED BY <1>6, <1>7

\* Where OSV's ranges are in order, the scout flags a version that is not vulnerable only
\* beyond an end of another kind than a fix, and every vulnerable version of the last
\* interval if that ends in a fix or not at all. (Out of order neither need be: the code
\* keeps the last event of each kind.)
THEOREM OrderedRangesAreSound == RegularWorlds /\ OsvSpec => []ExtractionIsSound
<1> DEFINE Inv == RegularWorlds /\ upstream \in Worlds
<1>1. Inv => ExtractionIsSound
  <2> SUFFICES ASSUME Inv, NEW lib \in Libs, NEW n \in DOMAIN upstream[lib],
                      NEW i \in DOMAIN upstream[lib][n].affected,
                      upstream[lib][n].affected[i].package = lib,
                      upstream[lib][n].affected[i].semver # <<>>, NEW version \in Versions
               PROVE  LET v == upstream[lib][n]
                          events == Head(v.affected[i].semver)
                          row == Row(v, lib)
                      IN  /\ InRange(version, row) => Vulnerable(version, events) \/ Overlooked(version, events)
                          /\ /\ Vulnerable(version, events) /\ version >= row.lo /\ FixedAtLast(events)
                             /\ {version, row.lo, row.hi} \cap Unparsable = {}
                             => InRange(version, row)
    BY DEF ExtractionIsSound
  <2> DEFINE v == upstream[lib][n]
             events == Head(v.affected[i].semver)
             entries == {k \in DOMAIN v.affected :
                           /\ v.affected[k].package = lib
                           /\ v.affected[k].semver # <<>> \/ v.affected[k].versions # <<>>}
  <2>1. v \in Advisory /\ Regular(v, lib)
    <3>1. upstream[lib] \in Seq(Advisory)
      BY RecordsAssumption
    <3>2. v \in Advisory
      BY <3>1
    <3> QED BY <3>2 DEF RegularWorlds
  <2> HIDE DEF v
  <2>2. v.affected \in Seq(Affected) /\ v.affected[i] \in Affected /\ events \in Seq(Event) /\ InTurn(events)
    <3>1. v.affected \in Seq(Affected) /\ i \in DOMAIN v.affected
      BY <2>1 DEF Advisory, v
    <3>2. v.affected[i] \in Affected
      BY <3>1
    <3>3. v.affected[i].semver \in Seq(Seq(Event)) /\ v.affected[i].semver # <<>>
      BY <3>2 DEF Affected, v
    <3>4. InTurn(events)
      BY <2>1, <3>1, <3>3 DEF Regular, v
    <3> QED BY <3>1, <3>2, <3>3, <3>4
  <2>3. entries = {i}
    BY <2>1 DEF Regular, v
  <2>4. Min(entries) = i
    <3>1. entries \in SUBSET DOMAIN v.affected /\ entries # {}
      BY <2>3 DEF v
    <3>2. Min(entries) \in entries
      <4> HIDE DEF entries
      <4> QED BY <2>2, <3>1, Places
    <3> QED BY <2>3, <3>2
  <2>5. AffectedRange(v, lib) = Bounds(events)
    BY <2>3, <2>4 DEF AffectedRange, v
  <2> HIDE DEF events
  <2>6. /\ Row(v, lib).lo = Bounds(events).lo /\ Row(v, lib).hi = Bounds(events).hi
        /\ Bounds(events).lo # None
    <3>1. Bounds(events).lo \in Versions
      BY <2>2, BoundsAreVersions
    <3> QED BY <2>1, <2>5, <3>1, RowIsTyped, RecordsAssumption
  <2>7. /\ InRange(version, Row(v, lib)) =>
             version >= Bounds(events).lo /\ (Bounds(events).hi = None \/ version < Bounds(events).hi)
        /\ /\ {version, Row(v, lib).lo, Row(v, lib).hi} \cap Unparsable = {}
           /\ version >= Bounds(events).lo /\ (Bounds(events).hi = None \/ version < Bounds(events).hi)
           => InRange(version, Row(v, lib))
    BY <2>6 DEF InRange
  <2>8. /\ InRange(version, Row(v, lib)) => Vulnerable(version, events) \/ Overlooked(version, events)
        /\ /\ Vulnerable(version, events) /\ version >= Row(v, lib).lo /\ FixedAtLast(events)
           /\ {version, Row(v, lib).lo, Row(v, lib).hi} \cap Unparsable = {}
           => InRange(version, Row(v, lib))
    BY <2>2, <2>6, <2>7, LastIntervalIsVulnerable
  <2> QED BY <2>8 DEF events, v
<1>2. RegularWorlds /\ UpstreamInit => Inv
  BY DEF UpstreamInit
<1>3. Inv /\ [OsvNext]_<<syncVars, upstream, changes>> => Inv'
  BY DEF OsvNext, UpstreamChanges, RegularWorlds
<1> HIDE DEF Inv
<1> QED BY <1>1, <1>2, <1>3, PTL DEF OsvSpec

=============================================================================
