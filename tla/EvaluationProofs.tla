-------------------------- MODULE EvaluationProofs --------------------------
(***************************************************************************)
(* The programs that evaluate the scanner: EvalBatch for any sample,       *)
(* CandidatePool for any strata, Benchmark for any cases, Calibration for  *)
(* any sites and signals.                                                  *)
(***************************************************************************)
EXTENDS EvalBatch, CandidatePool, Benchmark, Calibration, FiniteSetTheorems, TLAPS

(* Counting *)

\* A part of a finite set and the rest of it make it up in number.
LEMMA PartsAddUp ==
  ASSUME NEW S, IsFiniteSet(S), NEW T \in SUBSET S
  PROVE  /\ Cardinality(S) = Cardinality(T) + Cardinality(S \ T)
         /\ Cardinality(S) \in Nat /\ Cardinality(T) \in Nat /\ Cardinality(S \ T) \in Nat
         /\ IsFiniteSet(T) /\ IsFiniteSet(S \ T)
<1>1. IsFiniteSet(T) /\ IsFiniteSet(S \ T)
  BY FS_Subset, FS_Difference
<1>2. Cardinality(S) \in Nat /\ Cardinality(T) \in Nat /\ Cardinality(S \ T) \in Nat
  BY <1>1, FS_CardinalityType
<1>3. S \cap T = T /\ Cardinality(S \ T) = Cardinality(S) - Cardinality(S \cap T)
  BY FS_Difference
<1> QED BY <1>1, <1>2, <1>3

-----------------------------------------------------------------------------
(* Benchmark *)

\* Whoever enters the overrides of the benchmark finds them set, and leaves them set.
LEMMA OverrideInvHolds == BenchSpec => [](BenchTypeOK /\ OverrideInv)
<1> USE BenchAssumption DEF BenchTypeOK, OverrideInv, Overridden, AsItWas
<1>1. BenchInit => BenchTypeOK /\ OverrideInv
  BY DEF BenchInit, Found
<1>2. BenchTypeOK /\ OverrideInv /\ [BenchNext]_benchVars => (BenchTypeOK /\ OverrideInv)'
  <2> SUFFICES ASSUME BenchTypeOK, OverrideInv, [BenchNext]_benchVars
               PROVE  BenchTypeOK' /\ OverrideInv'
    OBVIOUS
  <2> DEFINE seen == [flag |-> flag, imported |-> imported]
  <2>1. seen \in Found
    BY DEF Found
  <2>2. \A e \in Cases \cup {"benchmark"} : previous[e] \in Found
    OBVIOUS
  <2>3. CASE Starts
    BY <2>1, <2>3 DEF Starts, Enters
  <2>4. CASE Ends
    BY <2>2, <2>4 DEF Ends, Leaves, Found
  <2>5. ASSUME NEW c \in Cases, CaseStarts(c) PROVE BenchTypeOK' /\ OverrideInv'
    <3>1. previous' = [previous EXCEPT ![c] = seen] /\ flag' = "1" /\ imported' = IF offline THEN c ELSE imported
      BY <2>5 DEF CaseStarts, Enters
    <3>2. cases' = [cases EXCEPT ![c] = "scanning"] /\ UNCHANGED <<offline, benchmark>>
          /\ benchmark \in {"running", "raising"}
      BY <2>5 DEF CaseStarts
    <3>3. BenchTypeOK'
      BY <2>1, <3>1, <3>2
    <3>4. seen.flag = "1" /\ (offline => seen.imported # Real)
      BY <3>2
    <3> HIDE DEF seen
    <3>5. OverrideInv'
      BY <3>1, <3>2, <3>4
    <3> QED BY <3>3, <3>5
  <2>6. ASSUME NEW c \in Cases, CaseEnds(c) \/ CaseRaises(c) \/ Collected(c)
        PROVE  BenchTypeOK' /\ OverrideInv'
    <3>1. cases[c] = "scanning" /\ previous[c].flag = "1" /\ (offline => previous[c].imported # Real)
      BY <2>6 DEF CaseEnds, CaseRaises, Collected
    <3>2. flag' = previous[c].flag /\ imported' = IF offline THEN previous[c].imported ELSE imported
      BY <2>6 DEF CaseEnds, CaseRaises, Collected, Leaves
    <3>3. flag' = "1" /\ imported' \in {Real, "benchmark"} \cup Cases
      BY <2>2, <3>1, <3>2 DEF Found
    <3>4. /\ cases' \in [Cases -> {"new", "scanning", "done", "raised", "collected"}] /\ UNCHANGED <<offline, previous>>
          /\ \A d \in Cases : d # c => cases'[d] = cases[d]
      BY <2>6 DEF CaseEnds, CaseRaises, Collected
    <3>5. \/ benchmark \in {"running", "raising"} /\ benchmark' \in {benchmark, "raising"} /\ cases'[c] # "collected"
          \/ benchmark = "raised" /\ benchmark' = benchmark /\ cases'[c] = "collected"
      BY <2>6 DEF CaseEnds, CaseRaises, Collected
    <3> QED BY <3>1, <3>2, <3>3, <3>4, <3>5
  <2>7. CASE UNCHANGED benchVars
    BY <2>7 DEF benchVars
  <2> QED BY <2>3, <2>4, <2>5, <2>6, <2>7 DEF BenchNext
<1> QED BY <1>1, <1>2, PTL DEF BenchSpec

\* In whatever order cases end or raise, none loses the overrides while it scans; a
\* benchmark that ended has left the process as it was, and one that raised has done so
\* until one of its suspended cases is collected, which overrides it for good.
THEOREM OverridesLast == BenchSpec => []OverridesOutlastCases
<1>1. BenchTypeOK /\ OverrideInv => OverridesOutlastCases
  BY DEF OverrideInv, OverridesOutlastCases
<1> QED BY <1>1, OverrideInvHolds, PTL

-----------------------------------------------------------------------------
(* Calibration *)

\* A scan that raised has no findings that count.
LEMMA RowInvHolds == CalibrationSpec => [](CalibrationTypeOK /\ RowInv)
<1> USE CalibrationAssumption
<1>1. CalibrationInit => CalibrationTypeOK /\ RowInv
  BY DEF CalibrationInit, CalibrationTypeOK, RowInv, MozillaRow
<1>2. CalibrationTypeOK /\ RowInv /\ [CalibrationNext]_calibrationVars => (CalibrationTypeOK /\ RowInv)'
  <2> SUFFICES ASSUME CalibrationTypeOK, RowInv, [CalibrationNext]_calibrationVars
               PROVE  CalibrationTypeOK' /\ RowInv'
    OBVIOUS
  <2>1. ASSUME NEW d \in Sample, Scans(d) PROVE CalibrationTypeOK' /\ RowInv'
    <3>1. PICK status \in {"ok", "error"}, reliable \in BOOLEAN, found \in SUBSET Signals :
            /\ status = "error" => ~reliable /\ found = {}
            /\ scans' = [scans EXCEPT ![d] = [status |-> status, signals |-> found, incomplete |-> ~reliable]]
      BY <2>1 DEF Scans
    <3> DEFINE row == [status |-> status, signals |-> found, incomplete |-> ~reliable]
    <3>2. row \in Scan /\ (row.status = "error" => row.incomplete)
      BY <3>1 DEF Scan
    <3>3. verdicts' = verdicts
      BY <2>1 DEF Scans
    <3> HIDE DEF row
    <3>4. scans' = [scans EXCEPT ![d] = row]
      BY <3>1 DEF row
    <3> QED BY <3>2, <3>3, <3>4 DEF CalibrationTypeOK, RowInv
  <2>2. ASSUME NEW d \in Sample, FetchesVerdict(d) PROVE CalibrationTypeOK' /\ RowInv'
    <3> DEFINE n == verdicts[d].tries + 1
    <3>1. verdicts[d] \in MozillaRow /\ verdicts[d].tries \in 0..MaxTries /\ verdicts[d].tries < MaxTries
      BY <2>2 DEF FetchesVerdict, CalibrationTypeOK, RowInv, MozillaRow
    <3>2. n \in 0..MaxTries
      BY <3>1
    <3>3. \E row \in MozillaRow :
            /\ verdicts' = [verdicts EXCEPT ![d] = row]
            /\ row.status = "asking" => row.tries < MaxTries
      <4>1. CASE \E of \in [Signals -> {"pass", "fail", "none"}] :
                   verdicts' = [verdicts EXCEPT ![d] = [tries |-> @.tries + 1, status |-> "ok", of |-> of]]
        <5>1. PICK of \in [Signals -> {"pass", "fail", "none"}] :
                verdicts' = [verdicts EXCEPT ![d] = [tries |-> n, status |-> "ok", of |-> of]]
          BY <4>1
        <5> DEFINE row == [tries |-> n, status |-> "ok", of |-> of]
        <5>2. row \in MozillaRow /\ row.status # "asking"
          BY <3>2 DEF MozillaRow
        <5> QED BY <5>1, <5>2
      <4>2. CASE verdicts' = [verdicts EXCEPT ![d] =
                   [@ EXCEPT !.tries = verdicts[d].tries + 1,
                             !.status = IF verdicts[d].tries + 1 < MaxTries THEN "asking" ELSE "error"]]
        <5> DEFINE st == IF n < MaxTries THEN "asking" ELSE "error"
                   q == [verdicts[d] EXCEPT !.tries = n]
                   row == [q EXCEPT !.status = st]
        <5>1. verdicts' = [verdicts EXCEPT ![d] = row]
          BY <4>2
        <5>2. st \in {"asking", "error"} /\ (st = "asking" => n < MaxTries)
          OBVIOUS
        <5> HIDE DEF st, n
        <5>3. q \in MozillaRow /\ q.tries = n
          BY <3>1, <3>2 DEF MozillaRow
        <5> HIDE DEF q
        <5>4. row \in MozillaRow /\ row.status = st /\ row.tries = n
          BY <5>2, <5>3 DEF MozillaRow
        <5> QED BY <5>1, <5>2, <5>4
      <4> QED BY <2>2, <4>1, <4>2 DEF FetchesVerdict
    <3>4. scans' = scans
      BY <2>2 DEF FetchesVerdict
    <3> HIDE DEF n
    <3>5. PICK row \in MozillaRow :
            /\ verdicts' = [verdicts EXCEPT ![d] = row]
            /\ row.status = "asking" => row.tries < MaxTries
      BY <3>3
    <3>6. CalibrationTypeOK'
      BY <3>4, <3>5 DEF CalibrationTypeOK
    <3>7. \A e \in Sample : verdicts'[e] = IF e = d THEN row ELSE verdicts[e]
      BY <3>5 DEF CalibrationTypeOK
    <3>8. RowInv'
      BY <3>4, <3>5, <3>7 DEF RowInv
    <3> QED BY <3>6, <3>8
  <2>3. CASE UNCHANGED calibrationVars
    BY <2>3 DEF calibrationVars, CalibrationTypeOK, RowInv
  <2> QED BY <2>1, <2>2, <2>3 DEF CalibrationNext
<1> QED BY <1>1, <1>2, PTL DEF CalibrationSpec

\* The totals are those of the sites that were examined and have verdicts.
THEOREM ExaminedSitesCount == CalibrationSpec => []OnlyExaminedSitesCount
<1> USE CalibrationAssumption
<1>1. ASSUME CalibrationTypeOK, RowInv, Computable
      PROVE  LET CountOf(p) == Cardinality({c \in Sample \X Signals :
                          /\ scans[c[1]].status = "ok" /\ ~scans[c[1]].incomplete
                          /\ verdicts[c[1]].status = "ok" /\ verdicts[c[1]].of[c[2]] = p})
             IN  /\ Totals.compared = CountOf("pass") + CountOf("fail")
                 /\ Totals.compared + Totals.notComparable <= Totals.included * Cardinality(Signals)
                 /\ Totals.agree <= Totals.compared
  <2> DEFINE Of(p) == {c \in Sample \X Signals :
                          /\ scans[c[1]].status = "ok" /\ ~scans[c[1]].incomplete
                          /\ verdicts[c[1]].status = "ok" /\ verdicts[c[1]].of[c[2]] = p}
             all == Compared \X Signals
             Included == {d \in Sample : ~scans[d].incomplete}
             agreed == {c \in Comparable : verdicts[c[1]].of[c[2]] = Verdict(c[1], c[2])}
  <2>1. \A d \in Sample : scans[d] \in Scan /\ (scans[d].status = "error" => scans[d].incomplete)
    BY <1>1 DEF CalibrationTypeOK, RowInv, Computable
  <2>2. \A d \in Compared : d \in Sample /\ scans[d].status = "ok" /\ verdicts[d].of \in [Signals -> {"pass", "fail", "none"}]
    BY <1>1, <2>1 DEF Compared, Scan, CalibrationTypeOK, MozillaRow
  <2>3. Comparable = Of("pass") \cup Of("fail") /\ Of("pass") \subseteq Comparable
        /\ Comparable \ Of("pass") = Of("fail")
    <3>1. \A d \in Sample : d \in Compared <=>
            scans[d].status = "ok" /\ ~scans[d].incomplete /\ verdicts[d].status = "ok"
      BY <2>1, <2>2 DEF Compared
    <3>2. ASSUME NEW c \in Comparable PROVE c \in Of("pass") \cup Of("fail")
      <4>1. c \in Sample \X Signals /\ c[1] \in Compared /\ c[2] \in Signals /\ verdicts[c[1]].of[c[2]] # "none"
        BY <2>2, <3>2 DEF Comparable
      <4>2. verdicts[c[1]].of[c[2]] \in {"pass", "fail"}
        BY <2>2, <4>1
      <4> QED BY <3>1, <4>1, <4>2
    <3>3. ASSUME NEW p \in {"pass", "fail"}, NEW c \in Of(p) PROVE c \in Comparable
      BY <3>1, <3>3 DEF Comparable
    <3> QED BY <3>2, <3>3
  <2>4. Compared \subseteq Sample /\ Included \subseteq Sample /\ Compared \subseteq Included /\ Comparable \subseteq all
    BY DEF Compared, Comparable
  <2>5. IsFiniteSet(Compared) /\ IsFiniteSet(Included)
    BY <2>4, FS_Subset
  <2>6. IsFiniteSet(all) /\ IsFiniteSet(Comparable)
    BY <2>4, <2>5, FS_Product, FS_Subset
  <2>7. Totals.compared = Cardinality(Of("pass")) + Cardinality(Of("fail"))
    <3> HIDE DEF Of
    <3> QED BY <2>3, <2>6, PartsAddUp DEF Totals
  <2>8. Totals.agree <= Totals.compared
    BY <2>6, FS_Subset DEF Totals
  <2>9. Totals.compared + Totals.notComparable <= Totals.included * Cardinality(Signals)
    <3>1. Cardinality(Comparable) \in Nat /\ Cardinality(all) \in Nat
      BY <2>6, FS_CardinalityType
    <3>2. all \subseteq Included \X Signals
      BY <2>4
    <3>3. /\ IsFiniteSet(Included \X Signals)
          /\ Cardinality(Included \X Signals) = Cardinality(Included) * Cardinality(Signals)
      BY <2>5, FS_Product
    <3>4. Cardinality(all) <= Cardinality(Included \X Signals)
      BY <3>2, <3>3, FS_Subset
    <3> HIDE DEF Included
    <3>5. Totals.compared + Totals.notComparable = Cardinality(all)
      BY <3>1 DEF Totals
    <3>6. Totals.included = Cardinality(Included)
      BY DEF Totals, Included
    <3> QED BY <3>3, <3>4, <3>5, <3>6
  <2> QED BY <2>7, <2>8, <2>9
<1>2. CalibrationTypeOK /\ RowInv => OnlyExaminedSitesCount
  BY <1>1 DEF OnlyExaminedSitesCount
<1> QED BY <1>2, RowInvHolds, PTL

-----------------------------------------------------------------------------
(* EvalBatch *)

\* A slot is taken by one site, given back by one, or kept through a retry.
LEMMA SlotStep ==
  ASSUME BatchTypeOK, SlotInv, NEW i \in Sites,
         Acquires(i) \/ ScanReturns(i) \/ ScanFails(i) \/ Retries(i)
  PROVE  BatchTypeOK' /\ SlotInv'
<1> USE EvalAssumption
<1>1. /\ batch' = batch /\ runner' = runner /\ saved' = saved /\ Sites' = Sites
      /\ runner = "scanning"
  BY DEF Acquires, ScanReturns, ScanFails, Retries, Folder, Sites
<1>2. tasks[i] \in Task /\ tasks \in [Sites -> Task] /\ slots \in Nat /\ batch \in Batch
  BY DEF BatchTypeOK
<1>3. IsFiniteSet(Active) /\ Cardinality(Active) \in Nat
  <2>1. IsFiniteSet(Sites)
    BY <1>2, FS_Interval DEF Sites, Batch
  <2> QED BY <2>1, FS_Subset, FS_CardinalityType DEF Active
<1>4. SUFFICES \E t \in Task :
        /\ tasks' = [tasks EXCEPT ![i] = t] /\ slots' \in Nat
        /\ t.pc = "sleeping" => t.attempt < MaxAttempts
        /\ slots' + Cardinality(Active') = slots + Cardinality(Active)
  <2>1. PICK t \in Task :
          /\ tasks' = [tasks EXCEPT ![i] = t] /\ slots' \in Nat
          /\ t.pc = "sleeping" => t.attempt < MaxAttempts
          /\ slots' + Cardinality(Active') = slots + Cardinality(Active)
    BY <1>4
  <2>2. BatchTypeOK'
    BY <1>1, <1>2, <2>1 DEF BatchTypeOK
  <2>3. \A j \in Sites : tasks'[j] = IF j = i THEN t ELSE tasks[j]
    BY <1>2, <2>1
  <2>4. SlotInv'
    BY <1>1, <2>1, <2>3 DEF SlotInv
  <2> QED BY <2>2, <2>4
<1>5. ASSUME NEW t \in Task, tasks' = [tasks EXCEPT ![i] = t]
      PROVE  Active' = IF t.pc \in {"scanning", "sleeping"} THEN Active \cup {i} ELSE Active \ {i}
  <2>1. \A j \in Sites : tasks'[j] = IF j = i THEN t ELSE tasks[j]
    BY <1>2, <1>5
  <2> QED BY <1>1, <2>1 DEF Active
<1>6. i \in Active <=> tasks[i].pc \in {"scanning", "sleeping"}
  BY DEF Active
<1>7. i \in Active => Active \cup {i} = Active
  OBVIOUS
<1>8. i \notin Active => Cardinality(Active \cup {i}) = Cardinality(Active) + 1
  BY <1>3, FS_AddElement
<1>9. i \in Active => Cardinality(Active \ {i}) = Cardinality(Active) - 1
  BY <1>3, FS_RemoveElement
<1>10. CASE Acquires(i)
  <2> DEFINE t == [tasks[i] EXCEPT !.pc = "scanning", !.attempt = 1]
  <2>1. 1 \in 0..MaxAttempts
    OBVIOUS
  <2>2. t \in Task /\ t.pc = "scanning"
    BY <1>2, <2>1 DEF Task
  <2>3. tasks' = [tasks EXCEPT ![i] = t] /\ slots > 0 /\ slots' = slots - 1 /\ tasks[i].pc = "queued"
    BY <1>10 DEF Acquires
  <2> HIDE DEF t
  <2>4. Cardinality(Active') = Cardinality(Active) + 1
    BY <1>5, <1>6, <1>8, <2>2, <2>3
  <2>5. slots' \in Nat /\ slots' + Cardinality(Active') = slots + Cardinality(Active)
    BY <1>2, <1>3, <2>3, <2>4
  <2> QED BY <2>2, <2>3, <2>5
<1>11. CASE ScanReturns(i)
  <2>1. PICK r \in Reports :
          tasks' = [tasks EXCEPT ![i] = [@ EXCEPT !.pc = "success",
                      !.result = [report |-> r, url |-> IF r.error THEN None ELSE batch.sites[i].url]]]
    BY <1>11 DEF ScanReturns
  <2> DEFINE res == [report |-> r, url |-> IF r.error THEN None ELSE batch.sites[i].url]
             t == [tasks[i] EXCEPT !.pc = "success", !.result = res]
  <2>2. batch.sites[i].url \in STRING
    <3>1. batch.sites \in Seq(Site) /\ i \in DOMAIN batch.sites
      BY <1>2 DEF Batch, Sites
    <3>2. batch.sites[i] \in Site
      BY <3>1
    <3> QED BY <3>2 DEF Site
  <2>3. res \in Result
    BY <2>2 DEF Result
  <2>4. tasks' = [tasks EXCEPT ![i] = t]
    BY <2>1
  <2>5. slots' = slots + 1 /\ tasks[i].pc = "scanning"
    BY <1>11 DEF ScanReturns
  <2> HIDE DEF res
  <2>6. t \in Task /\ t.pc = "success"
    BY <1>2, <2>3 DEF Task
  <2> HIDE DEF t
  <2>7. Cardinality(Active') = Cardinality(Active) - 1
    BY <1>5, <1>6, <1>9, <2>4, <2>5, <2>6
  <2>8. slots' \in Nat /\ slots' + Cardinality(Active') = slots + Cardinality(Active)
    BY <1>2, <1>3, <2>5, <2>7
  <2> QED BY <2>4, <2>6, <2>8
<1>12. CASE ScanFails(i)
  <2>0. tasks[i].pc = "scanning" /\ i \in Active
    BY <1>6, <1>12 DEF ScanFails
  <2>1. CASE /\ tasks[i].attempt < MaxAttempts /\ slots' = slots
             /\ tasks' = [tasks EXCEPT ![i].pc = "sleeping"]
    <3> DEFINE t == [tasks[i] EXCEPT !.pc = "sleeping"]
    <3>1. t \in Task /\ t.pc = "sleeping" /\ t.attempt < MaxAttempts
      BY <1>2, <2>1 DEF Task
    <3>2. tasks' = [tasks EXCEPT ![i] = t]
      BY <2>1
    <3> HIDE DEF t
    <3>3. Active' = Active
      BY <1>5, <1>7, <2>0, <3>1, <3>2
    <3> QED BY <1>2, <2>1, <3>1, <3>2, <3>3
  <2>2. CASE slots' = slots + 1 /\ tasks' = [tasks EXCEPT ![i].pc = "failed"]
    <3> DEFINE t == [tasks[i] EXCEPT !.pc = "failed"]
    <3>1. t \in Task /\ t.pc = "failed"
      BY <1>2 DEF Task
    <3>2. tasks' = [tasks EXCEPT ![i] = t]
      BY <2>2
    <3> HIDE DEF t
    <3>3. Cardinality(Active') = Cardinality(Active) - 1
      BY <1>5, <1>9, <2>0, <3>1, <3>2
    <3>4. slots' \in Nat /\ slots' + Cardinality(Active') = slots + Cardinality(Active)
      BY <1>2, <1>3, <2>2, <3>3
    <3> QED BY <3>1, <3>2, <3>4
  <2> QED BY <1>12, <2>1, <2>2 DEF ScanFails
<1>13. CASE Retries(i)
  <2> DEFINE n == tasks[i].attempt + 1
             q == [tasks[i] EXCEPT !.pc = "scanning"]
             t == [q EXCEPT !.attempt = n]
  <2>1. tasks[i].pc = "sleeping" /\ i \in Active /\ slots' = slots
    BY <1>6, <1>13 DEF Retries
  <2>2. tasks[i].attempt \in 0..MaxAttempts /\ tasks[i].attempt < MaxAttempts
    BY <1>2, <2>1 DEF Task, SlotInv
  <2>3. n \in 0..MaxAttempts
    BY <2>2
  <2>4. tasks' = [tasks EXCEPT ![i] = t]
    BY <1>13 DEF Retries
  <2> HIDE DEF n
  <2>5. q \in Task /\ q.pc = "scanning"
    BY <1>2 DEF Task
  <2> HIDE DEF q
  <2>6. t \in Task /\ t.pc = "scanning"
    BY <2>3, <2>5 DEF Task
  <2> HIDE DEF t
  <2>7. Active' = Active
    BY <1>5, <1>7, <2>1, <2>4, <2>6
  <2> QED BY <1>2, <2>1, <2>4, <2>6, <2>7
<1> QED BY <1>10, <1>11, <1>12, <1>13

\* A batch that starts, for the first time or again: every site is queued and all
\* slots are free.
Fresh == /\ batch \in Batch /\ tasks = [i \in Sites |-> Queued] /\ slots = batch.concurrency
         /\ runner = "scanning" /\ saved = 0

\* It has its types, and no slot is taken.
LEMMA QueuedBatch == Fresh => BatchTypeOK /\ SlotInv
<1> SUFFICES ASSUME Fresh PROVE BatchTypeOK /\ SlotInv
  OBVIOUS
<1> USE DEF Fresh
<1>1. Queued \in Task /\ Queued.pc = "queued"
  BY EvalAssumption DEF Queued, Task
<1>2. tasks \in [Sites -> Task] /\ \A i \in Sites : tasks[i].pc = "queued"
  BY <1>1
<1>3. Active = {}
  BY <1>2 DEF Active
<1>4. slots \in Nat /\ 0 \in 0..Len(batch.sites)
  BY DEF Batch
<1> QED BY <1>2, <1>3, <1>4, FS_EmptySet DEF BatchTypeOK, SlotInv

\* Free slots and active sites make up the concurrency of the batch.
LEMMA SlotInvHolds == BatchSpec => [](BatchTypeOK /\ SlotInv)
<1> USE EvalAssumption
<1>0. Fresh' => BatchTypeOK' /\ SlotInv'
  BY QueuedBatch, PTL
<1>1. BatchInit => BatchTypeOK /\ SlotInv
  BY QueuedBatch DEF BatchInit, Fresh
<1>2. BatchTypeOK /\ SlotInv /\ [BatchNext]_batchVars => (BatchTypeOK /\ SlotInv)'
  <2> SUFFICES ASSUME BatchTypeOK, SlotInv, [BatchNext]_batchVars PROVE BatchTypeOK' /\ SlotInv'
    OBVIOUS
  <2>0. Len(batch.sites) \in Nat
    BY DEF BatchTypeOK, Batch
  <2>1. ASSUME UNCHANGED <<batch, tasks, slots>>, runner' \in {"saving", "listing", "ended", "dead"},
               saved' \in 0..Len(batch.sites), runner' = "saving" => saved' < Len(batch.sites)
        PROVE  BatchTypeOK' /\ SlotInv'
    BY <2>1 DEF BatchTypeOK, SlotInv, Active, Sites
  <2>2. CASE Gathers
    <3>1. UNCHANGED <<batch, tasks, slots>> /\ saved' = 0
      BY <2>2 DEF Gathers, SlotInv
    <3>2. batch.sites \in Seq(Site)
      BY DEF BatchTypeOK, Batch
    <3>3. batch.sites # <<>> => 0 < Len(batch.sites)
      <4> HIDE DEF Site
      <4> QED BY <3>2
    <3>4. runner' = IF batch.sites = <<>> THEN "listing" ELSE "saving"
      BY <2>2 DEF Gathers
    <3> QED BY <2>0, <2>1, <3>1, <3>3, <3>4
  <2>3. CASE Saves
    BY <2>0, <2>1, <2>3 DEF Saves, BatchTypeOK
  <2>4. CASE Lists
    BY <2>1, <2>4 DEF Lists, BatchTypeOK
  <2>5. CASE Dies
    BY <2>1, <2>5 DEF Dies, BatchTypeOK
  <2>6. CASE StartsAgain
    <3>1. batch \in Batch /\ batch.starts - 1 \in Nat /\ batch' = [batch EXCEPT !.starts = batch.starts - 1]
      BY <2>6 DEF StartsAgain, BatchTypeOK, Batch
    <3>2. batch' \in Batch /\ batch'.concurrency = batch.concurrency /\ batch'.sites = batch.sites
      BY <3>1 DEF Batch
    <3>3. Fresh'
      BY <2>6, <3>2 DEF StartsAgain, Fresh, Sites
    <3> QED BY <1>0, <3>3
  <2>7. ASSUME NEW i \in Sites, Acquires(i) \/ ScanReturns(i) \/ ScanFails(i) \/ Retries(i)
        PROVE  BatchTypeOK' /\ SlotInv'
    BY <2>7, SlotStep
  <2>8. CASE UNCHANGED batchVars
    BY <2>8 DEF batchVars, BatchTypeOK, SlotInv, Active, Sites
  <2> QED BY <2>2, <2>3, <2>4, <2>5, <2>6, <2>7, <2>8 DEF BatchNext, BatchStep
<1> QED BY <1>1, <1>2, PTL DEF BatchSpec

\* Never more scans at once than asked for, and no slot is lost.
THEOREM SlotsAreKept == BatchSpec => []ConcurrencyIsBounded
<1>1. BatchTypeOK /\ SlotInv => ConcurrencyIsBounded
  <2> SUFFICES ASSUME BatchTypeOK, SlotInv PROVE ConcurrencyIsBounded
    OBVIOUS
  <2>1. IsFiniteSet(Sites)
    BY FS_Interval DEF Sites, BatchTypeOK, Batch
  <2>2. Cardinality(Active) \in Nat
    BY <2>1, FS_Subset, FS_CardinalityType DEF Active
  <2>3. slots \in Nat /\ batch.concurrency \in Nat /\ slots + Cardinality(Active) = batch.concurrency
    BY DEF BatchTypeOK, SlotInv, Batch
  <2>4. (\A i \in Sites : tasks[i].pc \in {"success", "failed"}) => Active = {}
    BY DEF Active
  <2>5. Active = {} => Cardinality(Active) = 0
    BY FS_EmptySet
  <2> QED BY <2>2, <2>3, <2>4, <2>5 DEF ConcurrencyIsBounded
<1> QED BY <1>1, SlotInvHolds, PTL

\* The sites of a sample are numbered.
LEMMA SitesAreNumbered ==
  ASSUME BatchTypeOK
  PROVE  /\ Len(batch.sites) \in Nat /\ Sites = 1..Len(batch.sites)
         /\ IsFiniteSet(Sites) /\ Cardinality(Sites) = Len(batch.sites)
         /\ \A i \in Sites : batch.sites[i] \in Site
<1>1. batch.sites \in Seq(Site)
  BY DEF BatchTypeOK, Batch
<1> HIDE DEF Site
<1>2. Len(batch.sites) \in Nat /\ Sites = 1..Len(batch.sites) /\ \A i \in Sites : batch.sites[i] \in Site
  BY <1>1 DEF Sites
<1> QED BY <1>2, FS_Interval

\* Of two sites one is listed before the other, and whatever is before the first is
\* before the second.
LEMMA ListedInOrder ==
  ASSUME BatchTypeOK, NEW i \in Sites, NEW j \in Sites, i # j
  PROVE  /\ ListedBefore(i, j) <=> ~ListedBefore(j, i)
         /\ \A k \in Sites : ListedBefore(k, i) /\ ListedBefore(i, j) => ListedBefore(k, j) /\ k # j
<1>1. i \in Nat /\ j \in Nat /\ \A k \in Sites : k \in Nat
  BY SitesAreNumbered
<1>2. \A k \in Sites : batch.sites[k].rank \in Nat \cup {None}
  BY SitesAreNumbered DEF Site
<1>3. None \notin Nat
  BY EvalAssumption
<1> DEFINE rank(k) == batch.sites[k].rank
<1>4. \A k \in Sites : rank(k) \in Nat \cup {None}
  BY <1>2
<1>5. \A a, b \in Sites : ListedBefore(a, b) <=>
        IF rank(a) = rank(b) THEN a < b ELSE rank(a) # None /\ (rank(b) = None \/ rank(a) < rank(b))
  BY DEF ListedBefore
<1> HIDE DEF rank
<1>6. ListedBefore(i, j) <=> ~ListedBefore(j, i)
  BY <1>1, <1>3, <1>4, <1>5
<1>7. ASSUME NEW k \in Sites, ListedBefore(k, i), ListedBefore(i, j)
      PROVE  ListedBefore(k, j) /\ k # j
  BY <1>1, <1>3, <1>4, <1>5, <1>7
<1> QED BY <1>6, <1>7

\* Every site has a line of its own, and every line a site.
LEMMA LinesAreOnce ==
  ASSUME BatchTypeOK
  PROVE  /\ \A i \in Sites : LineOf(i) \in Sites
         /\ \A i, j \in Sites : LineOf(i) = LineOf(j) => i = j
         /\ \A n \in Sites : \E i \in Sites : LineOf(i) = n
<1> DEFINE Upto(i) == {j \in Sites : j = i \/ ListedBefore(j, i)}
           n == Len(batch.sites)
           line == [i \in Sites |-> LineOf(i)]
<1>1. n \in Nat /\ Sites = 1..n /\ IsFiniteSet(Sites) /\ Cardinality(Sites) = n
  BY SitesAreNumbered
<1>2. ASSUME NEW i \in Sites
      PROVE  /\ Upto(i) \subseteq Sites /\ IsFiniteSet(Upto(i)) /\ LineOf(i) = Cardinality(Upto(i))
             /\ LineOf(i) \in 1..n
  <2>1. Upto(i) \subseteq Sites /\ i \in Upto(i)
    OBVIOUS
  <2>2. LineOf(i) = Cardinality(Upto(i))
    BY DEF LineOf
  <2> HIDE DEF Upto
  <2>3. IsFiniteSet(Upto(i)) /\ Cardinality(Upto(i)) <= n
    BY <1>1, <2>1, FS_Subset
  <2>4. Cardinality(Upto(i)) \in Nat /\ Cardinality(Upto(i)) # 0
    BY <2>1, <2>3, FS_CardinalityType, FS_EmptySet
  <2>5. Cardinality(Upto(i)) \in 1..n
    BY <1>1, <2>3, <2>4
  <2> QED BY <2>1, <2>2, <2>3, <2>5
<1>3. ASSUME NEW i \in Sites, NEW j \in Sites, ListedBefore(i, j), i # j PROVE LineOf(i) # LineOf(j)
  <2>1. Upto(i) \subseteq Upto(j) /\ j \in Upto(j) /\ j \notin Upto(i)
    BY <1>3, ListedInOrder
  <2> HIDE DEF Upto
  <2> QED BY <1>2, <2>1, FS_Subset
<1>4. ASSUME NEW i \in Sites, NEW j \in Sites, LineOf(i) = LineOf(j) PROVE i = j
  BY <1>3, <1>4, ListedInOrder
<1>5. line \in Injection(Sites, Sites)
  BY <1>1, <1>2, <1>4 DEF Injection, IsInjective
<1>6. line \in Surjection(Sites, Sites)
  BY <1>1, <1>5, FS_Injection
<1>7. \A m \in Sites : \E i \in Sites : line[i] = m
  BY <1>6 DEF Surjection
<1> QED BY <1>1, <1>2, <1>4, <1>7

\* The manifest has the row of each site at its line.
LEMMA ListingRows ==
  ASSUME BatchTypeOK
  PROVE  /\ Listing \in Seq(Listed) /\ DOMAIN Listing = Sites /\ Len(Listing) = Len(batch.sites)
         /\ \A i \in Sites : LineOf(i) \in Sites /\ Listing[LineOf(i)] = Rows[i]
         /\ \A n \in Sites : \E i \in Sites : n = LineOf(i)
<1>1. \A i \in Sites : LineOf(i) \in Sites
  BY LinesAreOnce
<1>2. ASSUME NEW i \in Sites PROVE Listing[LineOf(i)] = Rows[i]
  <2>1. (CHOOSE j \in Sites : LineOf(j) = LineOf(i)) = i
    BY LinesAreOnce
  <2> QED BY <1>1, <2>1 DEF Listing
<1>3. \A n \in Sites : \E i \in Sites : n = LineOf(i)
  BY LinesAreOnce
<1>4. \A i \in Sites : Rows[i] \in Listed
  <2> SUFFICES ASSUME NEW i \in Sites PROVE Rows[i] \in Listed
    OBVIOUS
  <2>1. batch.sites[i].rank \in Nat \cup {None} /\ batch.sites[i].url \in STRING /\ batch.sites[i].safe \in STRING
    BY SitesAreNumbered DEF Site
  <2> DEFINE ok == tasks[i].pc = "success"
             file == IF ok THEN FileName(batch.sites[i]) ELSE None
  <2>2. ok \in BOOLEAN /\ file \in {None} \cup (Nat \cup {None}) \X STRING
    BY <2>1 DEF FileName
  <2>3. Rows[i] = [rank |-> batch.sites[i].rank, url |-> batch.sites[i].url, ok |-> ok, file |-> file]
    BY DEF Rows
  <2> HIDE DEF ok, file
  <2> QED BY <2>1, <2>2, <2>3 DEF Listed
<1>5. Listing \in [Sites -> Listed]
  <2> SUFFICES ASSUME NEW n \in Sites PROVE Listing[n] \in Listed
    BY DEF Listing
  <2> QED BY <1>2, <1>3, <1>4
<1>6. Listing \in Seq(Listed) /\ Len(Listing) = Len(batch.sites)
  <2> HIDE DEF Listing, Listed
  <2>1. Listing \in [1..Len(batch.sites) -> Listed] /\ Len(batch.sites) \in Nat
    BY <1>5, SitesAreNumbered
  <2> QED BY <2>1
<1> QED BY <1>1, <1>2, <1>3, <1>6 DEF Listing

\* A manifest that is cut off anywhere, even before the name of a file, lists sites of
\* the sample once.
LEMMA PartsListSites ==
  ASSUME BatchTypeOK, FolderInv, NEW n \in 0..Len(batch.sites)
  PROVE  /\ ListsSites(Listing) /\ ListsSites(SubSeq(Listing, 1, n))
         /\ n > 0 => ListsSites([SubSeq(Listing, 1, n) EXCEPT ![n].file = None])
<1> DEFINE part == SubSeq(Listing, 1, n)
           cut == [part EXCEPT ![n].file = None]
<1>1. /\ Listing \in Seq(Listed) /\ DOMAIN Listing = Sites /\ Sites = 1..Len(batch.sites)
      /\ Len(Listing) = Len(batch.sites) /\ Len(batch.sites) \in Nat
  BY ListingRows, SitesAreNumbered
<1>2. ASSUME NEW k \in Sites
      PROVE  \E i \in Sites : /\ k = LineOf(i) /\ Listing[k].url = batch.sites[i].url
                              /\ Listing[k].file \in {None, FileName(batch.sites[i])}
  <2>1. PICK i \in Sites : k = LineOf(i)
    BY ListingRows
  <2>2. Listing[k] = Rows[i]
    BY <2>1, ListingRows
  <2>3. Rows[i].url = batch.sites[i].url /\ Rows[i].file \in {None, FileName(batch.sites[i])}
    BY DEF Rows
  <2> QED BY <2>1, <2>2, <2>3
<1>3. ASSUME NEW k \in Sites, NEW l \in Sites, Listing[k].url = Listing[l].url PROVE k = l
  <2>1. PICK i \in Sites : k = LineOf(i) /\ Listing[k].url = batch.sites[i].url
    BY <1>2
  <2>2. PICK j \in Sites : l = LineOf(j) /\ Listing[l].url = batch.sites[j].url
    BY <1>2
  <2>3. i = j
    BY <1>3, <2>1, <2>2 DEF FolderInv
  <2> QED BY <2>1, <2>2, <2>3
<1>4. DOMAIN part = 1..n /\ (\A k \in 1..n : k \in Sites /\ part[k] = Listing[k]) /\ part \in Seq(Listed)
  <2> HIDE DEF Listed
  <2> QED BY <1>1
<1>5. ListsSites(Listing)
  BY <1>1, <1>2, <1>3 DEF ListsSites
<1>6. ListsSites(part)
  <2> HIDE DEF part
  <2> QED BY <1>2, <1>3, <1>4 DEF ListsSites
<1>7. ASSUME n > 0 PROVE ListsSites(cut)
  <2>1. n \in 1..n
    BY <1>1, <1>7
  <2>2. \A k \in 1..n : part[k] \in Listed
    BY <1>4
  <2>3. DOMAIN cut = 1..n /\ \A k \in 1..n : cut[k].url = part[k].url /\ cut[k].file \in {None, part[k].file}
    <3>1. DOMAIN cut = 1..n
      BY <1>4
    <3>2. ASSUME NEW k \in 1..n PROVE cut[k].url = part[k].url /\ cut[k].file \in {None, part[k].file}
      <4>1. cut[k] = IF k = n THEN [part[n] EXCEPT !.file = None] ELSE part[k]
        BY <1>4
      <4> HIDE DEF cut, part
      <4> QED BY <2>1, <2>2, <4>1 DEF Listed
    <3> QED BY <3>1, <3>2
  <2> HIDE DEF cut, part
  <2>4. ASSUME NEW k \in DOMAIN cut
        PROVE  \E i \in Sites : cut[k].url = batch.sites[i].url /\ cut[k].file \in {None, FileName(batch.sites[i])}
    <3>1. k \in Sites /\ cut[k].url = Listing[k].url /\ cut[k].file \in {None, Listing[k].file}
      BY <1>4, <2>3
    <3> QED BY <1>2, <3>1
  <2>5. ASSUME NEW k \in DOMAIN cut, NEW l \in DOMAIN cut, cut[k].url = cut[l].url PROVE k = l
    BY <1>3, <1>4, <2>3, <2>5
  <2> QED BY <2>4, <2>5 DEF ListsSites
<1> QED BY <1>5, <1>6, <1>7

\* What a scan returns is a result of its site.
LEMMA ScansKeepFolder ==
  ASSUME BatchTypeOK, SlotInv, FolderInv, NEW i \in Sites,
         Acquires(i) \/ ScanReturns(i) \/ ScanFails(i) \/ Retries(i)
  PROVE  FolderInv'
<1>1. UNCHANGED <<batch, runner, saved, files, manifest>> /\ runner = "scanning" /\ tasks \in [Sites -> Task]
  BY DEF Acquires, ScanReturns, ScanFails, Retries, Folder, BatchTypeOK
<1>2. \A j \in Sites : tasks'[j].pc = "success" => tasks'[j].result \in ResultsOf(j)
  <2>1. \A j \in Sites \ {i} : tasks'[j] = tasks[j]
    BY <1>1 DEF Acquires, ScanReturns, ScanFails, Retries
  <2>2. tasks'[i].pc = "success" => tasks'[i].result \in ResultsOf(i)
    <3>1. CASE ScanReturns(i)
      <4>1. PICK r \in Reports :
              tasks' = [tasks EXCEPT ![i] = [tasks[i] EXCEPT !.pc = "success",
                          !.result = [report |-> r, url |-> IF r.error THEN None ELSE batch.sites[i].url]]]
        BY <1>1, <3>1 DEF ScanReturns
      <4> DEFINE res == [report |-> r, url |-> IF r.error THEN None ELSE batch.sites[i].url]
      <4>2. batch.sites[i].url \in STRING
        BY SitesAreNumbered DEF Site
      <4>3. res \in ResultsOf(i)
        BY <4>2 DEF ResultsOf, Result
      <4> HIDE DEF res
      <4>4. tasks'[i] = [tasks[i] EXCEPT !.pc = "success", !.result = res] /\ tasks[i] \in Task
        BY <1>1, <4>1 DEF res
      <4> QED BY <4>3, <4>4 DEF Task
    <3>2. CASE Acquires(i) \/ ScanFails(i) \/ Retries(i)
      <4>1. \E pc \in {"scanning", "sleeping", "failed"} : tasks'[i].pc = pc
        BY <1>1, <3>2 DEF Acquires, ScanFails, Retries, Task
      <4> QED BY <4>1
    <3> QED BY <3>1, <3>2
  <2> QED BY <2>1, <2>2 DEF FolderInv
<1> QED BY <1>1, <1>2 DEF FolderInv, Sites, ResultsOf, ListsSites

\* A file is written at the name of its own site only.
LEMMA SaveKeepsFolder ==
  ASSUME BatchTypeOK, SlotInv, FolderInv, runner = "saving", NEW content,
         LET i == saved + 1 IN
           /\ tasks[i].pc = "success" /\ content \in {Torn, tasks[i].result}
           /\ files' = WithFile(FileName(batch.sites[i]), content)
  PROVE  LET i == saved + 1 IN
         /\ i \in Sites
         /\ \A f \in DOMAIN files' : \E j \in Sites :
              f = FileName(batch.sites[j]) /\ (files'[f] = Torn \/ files'[f] \in ResultsOf(j))
         /\ FileName(batch.sites[i]) \in DOMAIN files' /\ files'[FileName(batch.sites[i])] = content
         /\ \A j \in Sites \ {i} : FileName(batch.sites[j]) \in DOMAIN files =>
              /\ FileName(batch.sites[j]) \in DOMAIN files'
              /\ files'[FileName(batch.sites[j])] = files[FileName(batch.sites[j])]
<1> DEFINE i == saved + 1
           name == FileName(batch.sites[i])
<1>1. i \in Sites
  BY SitesAreNumbered DEF SlotInv, BatchTypeOK
<1>2. content = Torn \/ content \in ResultsOf(i)
  BY <1>1 DEF FolderInv
<1>3. /\ DOMAIN files' = DOMAIN files \cup {name} /\ files'[name] = content
      /\ \A f \in DOMAIN files : f # name => files'[f] = files[f]
  BY DEF WithFile
<1>4. \A j \in Sites \ {i} : FileName(batch.sites[j]) # name
  BY <1>1 DEF FolderInv
<1>5. \A f \in DOMAIN files' : \E j \in Sites :
        f = FileName(batch.sites[j]) /\ (files'[f] = Torn \/ files'[f] \in ResultsOf(j))
  <2> SUFFICES ASSUME NEW f \in DOMAIN files'
               PROVE  \E j \in Sites : f = FileName(batch.sites[j]) /\ (files'[f] = Torn \/ files'[f] \in ResultsOf(j))
    OBVIOUS
  <2>1. CASE f = name
    BY <1>1, <1>2, <1>3, <2>1
  <2>2. CASE f # name
    BY <1>3, <2>2 DEF FolderInv
  <2> QED BY <2>1, <2>2
<1> HIDE DEF i, name
<1>6. QED BY <1>1, <1>3, <1>4, <1>5 DEF i, name

\* In whatever folder a batch starts, and wherever it dies, the folder keeps its order.
LEMMA FolderInvHolds == BatchSpec => []FolderInv
<1> USE EvalAssumption
<1>1. BatchInit => FolderInv
  <2> SUFFICES ASSUME BatchInit PROVE FolderInv
    OBVIOUS
  <2>1. batch \in Batches /\ Sites = DOMAIN batch.sites
    BY DEF BatchInit, Sites
  <2>2. \A i \in Sites : tasks[i].pc = "queued"
    BY DEF BatchInit, Queued
  <2>3. \A i, j \in Sites : i # j =>
          batch.sites[i].url # batch.sites[j].url /\ FileName(batch.sites[i]) # FileName(batch.sites[j])
    BY <2>1 DEF FileName
  <2>4. DOMAIN files = {} /\ manifest = None /\ runner = "scanning"
    BY DEF BatchInit
  <2> QED BY <2>2, <2>3, <2>4 DEF FolderInv
<1>2. BatchTypeOK /\ SlotInv /\ FolderInv /\ [BatchNext]_batchVars => FolderInv'
  <2> SUFFICES ASSUME BatchTypeOK, SlotInv, FolderInv, [BatchNext]_batchVars PROVE FolderInv'
    OBVIOUS
  <2>0. Sites = 1..Len(batch.sites) /\ Len(batch.sites) \in Nat
    BY SitesAreNumbered
  <2>1. ASSUME batch'.sites = batch.sites
        PROVE  /\ Sites' = Sites /\ \A i : ResultsOf(i)' = ResultsOf(i)
               /\ manifest' = manifest => ListsSites(manifest)' = ListsSites(manifest)
    BY <2>1 DEF Sites, ResultsOf, ListsSites
  <2>2. CASE Gathers
    <3>1. /\ UNCHANGED <<batch, tasks, saved, files, manifest>> /\ saved = 0
          /\ \A i \in Sites : tasks[i].pc \in {"success", "failed"}
          /\ runner' = "listing" => Len(batch.sites) = 0
          /\ runner' \in {"saving", "listing"}
      BY <2>2 DEF Gathers, SlotInv
    <3>2. \A i \in Sites : ~(i <= saved)
      BY <2>0, <3>1
    <3> QED BY <2>1, <3>1, <3>2 DEF FolderInv
  <2>3. CASE Saves
    <3> DEFINE i == saved + 1
    <3>1. /\ UNCHANGED <<batch, tasks, manifest>> /\ runner = "saving" /\ saved' = i
          /\ runner' \in {"saving", "listing"} /\ (runner' = "listing" => i = Len(batch.sites))
      BY <2>3 DEF Saves
    <3>2. i \in Sites /\ saved \in Nat
      BY <2>0, <2>3 DEF BatchTypeOK, Saves
    <3>3. \A j \in Sites : j <= i => j = i \/ j <= saved
      BY <2>0, <3>2
    <3>4. CASE tasks[i].pc = "success"
      <4>1. files' = WithFile(FileName(batch.sites[i]), tasks[i].result)
        BY <2>3, <3>4 DEF Saves
      <4>2. /\ \A f \in DOMAIN files' : \E j \in Sites :
                 f = FileName(batch.sites[j]) /\ (files'[f] = Torn \/ files'[f] \in ResultsOf(j))
            /\ FileName(batch.sites[i]) \in DOMAIN files' /\ files'[FileName(batch.sites[i])] = tasks[i].result
            /\ \A j \in Sites \ {i} : FileName(batch.sites[j]) \in DOMAIN files =>
                 /\ FileName(batch.sites[j]) \in DOMAIN files'
                 /\ files'[FileName(batch.sites[j])] = files[FileName(batch.sites[j])]
        BY <3>1, <3>4, <4>1, SaveKeepsFolder
      <4> HIDE DEF i
      <4>3. \A j \in Sites : tasks[j].pc = "success" /\ j <= i =>
              FileName(batch.sites[j]) \in DOMAIN files' /\ files'[FileName(batch.sites[j])] = tasks[j].result
        BY <3>1, <3>3, <4>2 DEF FolderInv
      <4>4. i = Len(batch.sites) \/ runner' = "saving"
        BY <3>1
      <4> QED BY <2>1, <3>1, <4>2, <4>3, <4>4 DEF FolderInv
    <3>5. CASE tasks[i].pc # "success"
      <4>1. files' = files
        BY <2>3, <3>5 DEF Saves
      <4> HIDE DEF i
      <4>2. \A j \in Sites : tasks[j].pc = "success" /\ j <= i => j <= saved
        BY <3>3, <3>5
      <4> QED BY <2>1, <3>1, <4>1, <4>2 DEF FolderInv
    <3> QED BY <3>4, <3>5
  <2>4. CASE Lists
    <3>1. /\ UNCHANGED <<batch, tasks, saved, files>> /\ runner = "listing" /\ manifest' = Listing
          /\ runner' = "ended"
      BY <2>4 DEF Lists
    <3>2. Listing' = Listing
      BY <3>1 DEF Listing, Rows, Sites, LineOf, ListedBefore
    <3>3. ListsSites(Listing)
      <4>1. 0 \in 0..Len(batch.sites)
        BY <2>0
      <4> QED BY <4>1, PartsListSites
    <3>4. ListsSites(manifest)'
      BY <2>1, <3>1, <3>3 DEF ListsSites
    <3> QED BY <2>1, <3>1, <3>2, <3>4 DEF FolderInv
  <2>5. CASE Dies
    <3>1. UNCHANGED <<batch, tasks, saved>> /\ runner' = "dead"
      BY <2>5 DEF Dies
    <3>2. CASE UNCHANGED <<files, manifest>>
      BY <2>1, <3>1, <3>2 DEF FolderInv
    <3>3. CASE /\ runner = "saving" /\ tasks[saved + 1].pc = "success" /\ manifest' = manifest
               /\ files' = WithFile(FileName(batch.sites[saved + 1]), Torn)
      <4>1. \A f \in DOMAIN files' : \E j \in Sites :
              f = FileName(batch.sites[j]) /\ (files'[f] = Torn \/ files'[f] \in ResultsOf(j))
        BY <3>3, SaveKeepsFolder
      <4> QED BY <2>1, <3>1, <3>3, <4>1 DEF FolderInv
    <3>4. CASE /\ files' = files
               /\ \E n \in 0..Len(batch.sites) :
                    \/ manifest' = SubSeq(Listing, 1, n)
                    \/ n > 0 /\ manifest' = [SubSeq(Listing, 1, n) EXCEPT ![n].file = None]
      <4>1. ASSUME NEW m, manifest' = m, ListsSites(m) PROVE ListsSites(manifest)'
        BY <2>1, <3>1, <4>1 DEF ListsSites
      <4>2. ListsSites(manifest)'
        BY <3>4, <4>1, PartsListSites
      <4> QED BY <2>1, <3>1, <3>4, <4>2 DEF FolderInv
    <3> QED BY <2>5, <3>2, <3>3, <3>4 DEF Dies
  <2>6. CASE StartsAgain
    <3>1. /\ batch' = [batch EXCEPT !.starts = batch.starts - 1] /\ runner' = "scanning"
          /\ tasks' = [i \in Sites |-> Queued] /\ UNCHANGED <<files, manifest>>
      BY <2>6 DEF StartsAgain
    <3>2. batch'.sites = batch.sites
      BY <3>1 DEF BatchTypeOK, Batch
    <3>3. \A i \in Sites : tasks'[i].pc = "queued"
      BY <3>1 DEF Queued
    <3> QED BY <2>1, <3>1, <3>2, <3>3 DEF FolderInv
  <2>7. ASSUME NEW i \in Sites, Acquires(i) \/ ScanReturns(i) \/ ScanFails(i) \/ Retries(i) PROVE FolderInv'
    BY <2>7, ScansKeepFolder
  <2>8. CASE UNCHANGED batchVars
    <3>1. Listing' = Listing
      BY <2>8 DEF batchVars, Listing, Rows, Sites, LineOf, ListedBefore
    <3> QED BY <2>1, <2>8, <3>1 DEF batchVars, FolderInv
  <2> QED BY <2>2, <2>3, <2>4, <2>5, <2>6, <2>7, <2>8 DEF BatchNext, BatchStep
<1> QED BY <1>1, <1>2, SlotInvHolds, PTL DEF BatchSpec

\* A site's own file is the one place where the result with its url is found.
LEMMA ResultIsOwn ==
  ASSUME BatchTypeOK, FolderInv, NEW i \in Sites, FileName(batch.sites[i]) \in DOMAIN files,
         files[FileName(batch.sites[i])] # Torn, files[FileName(batch.sites[i])].url # None
  PROVE  /\ files[FileName(batch.sites[i])] \in ResultsOf(i)
         /\ files[FileName(batch.sites[i])].url = batch.sites[i].url
         /\ ResultOf(batch.sites[i].url) = files[FileName(batch.sites[i])]
         /\ ResultOf(batch.sites[i].url) # None
<1> DEFINE name == FileName(batch.sites[i])
           url == batch.sites[i].url
           own == {n \in DOMAIN files : files[n] # Torn /\ files[n].url = url}
<1>1. \A j \in Sites : batch.sites[j].url \in STRING
  BY SitesAreNumbered DEF Site
<1>2. \A n \in DOMAIN files : files[n] # Torn => \E j \in Sites : n = FileName(batch.sites[j]) /\ files[n] \in ResultsOf(j)
  BY DEF FolderInv
<1>3. files[name] \in ResultsOf(i)
  <2>1. PICK j \in Sites : name = FileName(batch.sites[j]) /\ files[name] \in ResultsOf(j)
    BY <1>2
  <2>2. j = i
    BY <2>1 DEF FolderInv
  <2> QED BY <2>1, <2>2
<1>4. files[name].url = url
  BY <1>3 DEF ResultsOf
<1>5. own = {name}
  <2>1. name \in own
    BY <1>4
  <2>2. ASSUME NEW n \in own PROVE n = name
    <3>1. PICK j \in Sites : n = FileName(batch.sites[j]) /\ files[n] \in ResultsOf(j)
      BY <1>2
    <3>2. files[n].url = url /\ url # None
      BY <1>4
    <3>3. batch.sites[j].url = url
      BY <3>1, <3>2 DEF ResultsOf
    <3> QED BY <3>1, <3>3 DEF FolderInv
  <2> HIDE DEF own
  <2> QED BY <2>1, <2>2
<1>6. ResultOf(url) = files[name]
  <2>1. (CHOOSE n \in own : TRUE) = name /\ own # {}
    BY <1>5
  <2> QED BY <2>1 DEF ResultOf
<1>7. files[name] # None
  BY <1>3, EvalAssumption DEF ResultsOf
<1> QED BY <1>3, <1>4, <1>6, <1>7

\* Once a batch ended, the line of a site has the report of its last scan, or is blank.
LEMMA EndedSheet ==
  ASSUME BatchTypeOK, FolderInv, runner = "ended"
  PROVE  /\ Aggregates /\ DOMAIN Sheet = Sites /\ Len(Sheet) = Len(batch.sites)
         /\ \A i \in Sites :
              /\ tasks[i].pc \in {"success", "failed"}
              /\ tasks[i].pc = "failed" =>
                   Sheet[LineOf(i)] = [url |-> batch.sites[i].url, rank |-> batch.sites[i].rank,
                                       reliable |-> None, grade |-> None, waf |-> None]
              /\ tasks[i].pc = "success" =>
                   /\ tasks[i].result.report \in Reports
                   /\ Sheet[LineOf(i)] = Row(batch.sites[i].url, batch.sites[i].rank, tasks[i].result.report)
                   /\ ~tasks[i].result.report.error => ResultOf(batch.sites[i].url) = tasks[i].result /\ tasks[i].result # None
<1>1. /\ manifest = Listing /\ DOMAIN manifest = Sites /\ manifest \in Seq(Listed) /\ Len(manifest) = Len(batch.sites)
      /\ \A i \in Sites : LineOf(i) \in Sites /\ manifest[LineOf(i)] = Rows[i]
      /\ \A n \in Sites : \E i \in Sites : n = LineOf(i)
  BY ListingRows DEF FolderInv
<1>2. Sites = 1..Len(batch.sites) /\ Len(batch.sites) \in Nat /\ saved = Len(batch.sites)
  BY SitesAreNumbered DEF FolderInv
<1>3. \A i \in Sites :
        /\ tasks[i].pc \in {"success", "failed"}
        /\ tasks[i].pc = "success" =>
             /\ tasks[i].result \in ResultsOf(i)
             /\ FileName(batch.sites[i]) \in DOMAIN files /\ files[FileName(batch.sites[i])] = tasks[i].result
  BY <1>2 DEF FolderInv
<1>4. \A i \in Sites : FileName(batch.sites[i]) # None
  <2> SUFFICES ASSUME NEW i \in Sites PROVE FileName(batch.sites[i]) # None
    OBVIOUS
  <2>1. batch.sites[i].rank \in Nat \cup {None} /\ batch.sites[i].safe \in STRING
    BY SitesAreNumbered DEF Site
  <2> QED BY <2>1, EvalAssumption DEF FileName
<1>5. \A f \in DOMAIN files : f # None
  BY <1>4 DEF FolderInv
<1>6. Aggregates
  <2>1. manifest # None
    BY <1>1, EvalAssumption
  <2>2. ASSUME NEW m \in Range(manifest), m.file \in DOMAIN files PROVE files[m.file] # Torn
    <3>0. PICK n \in DOMAIN manifest : m = manifest[n]
      BY <2>2 DEF Range
    <3>1. PICK i \in Sites : m = Rows[i]
      BY <1>1, <3>0
    <3>2. m.file = FileName(batch.sites[i]) /\ tasks[i].pc = "success"
      BY <1>5, <2>2, <3>1 DEF Rows
    <3>3. files[m.file] \in Result
      BY <1>3, <3>2 DEF ResultsOf
    <3> QED BY <3>3, EvalAssumption
  <2> QED BY <2>1, <2>2 DEF Aggregates
<1>7. DOMAIN Sheet = Sites /\ Len(Sheet) = Len(batch.sites)
  <2>1. Sheet = [n \in 1..Len(batch.sites) |-> AggregateRow(manifest[n])]
    BY <1>1, <1>2 DEF Sheet
  <2>2. DOMAIN Sheet = 1..Len(batch.sites)
    BY <2>1
  <2> QED BY <1>2, <2>2
<1>8. ASSUME NEW i \in Sites, tasks[i].pc = "failed"
      PROVE  Sheet[LineOf(i)] = [url |-> batch.sites[i].url, rank |-> batch.sites[i].rank,
                                 reliable |-> None, grade |-> None, waf |-> None]
  <2>1. Rows[i] = [rank |-> batch.sites[i].rank, url |-> batch.sites[i].url, ok |-> FALSE, file |-> None]
    BY <1>8 DEF Rows
  <2>2. Sheet[LineOf(i)] = AggregateRow(Rows[i])
    BY <1>1 DEF Sheet
  <2> QED BY <2>1, <2>2 DEF AggregateRow, Blank, Row
<1>9. ASSUME NEW i \in Sites, tasks[i].pc = "success"
      PROVE  /\ tasks[i].result.report \in Reports
             /\ Sheet[LineOf(i)] = Row(batch.sites[i].url, batch.sites[i].rank, tasks[i].result.report)
             /\ ~tasks[i].result.report.error => ResultOf(batch.sites[i].url) = tasks[i].result /\ tasks[i].result # None
  <2> DEFINE name == FileName(batch.sites[i])
             url == batch.sites[i].url
             rank == batch.sites[i].rank
             res == tasks[i].result
  <2>1. res \in Result /\ res.url = (IF res.report.error THEN None ELSE url)
    BY <1>3, <1>9 DEF ResultsOf
  <2>2. name \in DOMAIN files /\ files[name] = res /\ res # Torn /\ res # None
    BY <1>3, <1>9, <2>1, EvalAssumption
  <2>3. Rows[i] = [rank |-> rank, url |-> url, ok |-> TRUE, file |-> name]
    BY <1>9 DEF Rows
  <2>4. Sheet[LineOf(i)] = AggregateRow(Rows[i])
    BY <1>1 DEF Sheet
  <2>5. Sheet[LineOf(i)] = Row(IF res.url = None THEN url ELSE res.url, rank, res.report)
    BY <2>2, <2>3, <2>4 DEF AggregateRow
  <2>6. (IF res.url = None THEN url ELSE res.url) = url
    BY <2>1
  <2>7. ~res.report.error => res.url # None
    <3>1. url \in STRING
      BY SitesAreNumbered DEF Site
    <3> QED BY <2>1, <3>1, EvalAssumption
  <2>8. ~res.report.error => ResultOf(url) = res
    BY <2>2, <2>7, ResultIsOwn
  <2>9. res.report \in Reports
    BY <2>1 DEF Result
  <2> QED BY <2>2, <2>5, <2>6, <2>8, <2>9
<1> QED BY <1>3, <1>6, <1>7, <1>8, <1>9

\* An ended batch has each site where its last scan put it.
LEMMA EndedIsAccounted == BatchTypeOK /\ FolderInv => EverySiteIsAccounted
<1> SUFFICES ASSUME BatchTypeOK, FolderInv, runner = "ended"
             PROVE  /\ Aggregates /\ Len(Sheet) = Len(batch.sites)
                    /\ \A i \in Sites : \E row \in Range(Sheet) :
                         /\ row.url = batch.sites[i].url /\ row.rank = batch.sites[i].rank
                         /\ Bucket(row) =
                              IF tasks[i].pc = "failed" \/ tasks[i].result.report.error THEN "scan_failed_entirely"
                              ELSE IF tasks[i].result.report.reliable THEN "reliable"
                              ELSE Category(tasks[i].result.report)
  BY DEF EverySiteIsAccounted
<1>1. Aggregates /\ Len(Sheet) = Len(batch.sites)
  BY EndedSheet
<1>2. None # TRUE /\ None # FALSE
  BY EvalAssumption
<1>3. ASSUME NEW i \in Sites
      PROVE  /\ Sheet[LineOf(i)] \in Range(Sheet)
             /\ Sheet[LineOf(i)].url = batch.sites[i].url /\ Sheet[LineOf(i)].rank = batch.sites[i].rank
             /\ Bucket(Sheet[LineOf(i)]) =
                  IF tasks[i].pc = "failed" \/ tasks[i].result.report.error THEN "scan_failed_entirely"
                  ELSE IF tasks[i].result.report.reliable THEN "reliable"
                  ELSE Category(tasks[i].result.report)
  <2> DEFINE row == Sheet[LineOf(i)]
             report == tasks[i].result.report
  <2>1. row \in Range(Sheet)
    BY EndedSheet, LinesAreOnce DEF Range
  <2>2. CASE tasks[i].pc = "failed"
    <3>1. row = [url |-> batch.sites[i].url, rank |-> batch.sites[i].rank,
                 reliable |-> None, grade |-> None, waf |-> None]
      BY <2>2, EndedSheet
    <3> HIDE DEF row
    <3>2. Bucket(row) = "scan_failed_entirely"
      BY <1>2, <3>1 DEF Bucket
    <3> QED BY <2>1, <2>2, <3>1, <3>2 DEF row
  <2>3. CASE tasks[i].pc = "success"
    <3>1. /\ report \in Reports
          /\ row = [url |-> batch.sites[i].url, rank |-> batch.sites[i].rank,
                    reliable |-> report.reliable, grade |-> report.grade, waf |-> report.waf]
          /\ ~report.error => ResultOf(batch.sites[i].url) = tasks[i].result /\ tasks[i].result # None
      BY <2>3, EndedSheet DEF Row
    <3>2. /\ report.error \in BOOLEAN
          /\ report.error => report.reliable = None
          /\ ~report.error => report.reliable \in BOOLEAN
      BY <3>1, EvalAssumption
    <3> HIDE DEF row
    <3>3. CASE report.error
      <4>1. Bucket(row) = "scan_failed_entirely"
        BY <1>2, <3>1, <3>2, <3>3 DEF Bucket
      <4> QED BY <2>1, <2>3, <3>1, <3>3, <4>1 DEF row
    <3>4. CASE ~report.error /\ report.reliable = TRUE
      <4>1. Bucket(row) = "reliable"
        BY <3>1, <3>4 DEF Bucket
      <4> QED BY <2>1, <2>3, <3>1, <3>4, <4>1 DEF row
    <3>5. CASE ~report.error /\ report.reliable = FALSE
      <4>1. Bucket(row) = Category(report)
        BY <3>1, <3>5 DEF Bucket
      <4> QED BY <2>1, <2>3, <3>1, <3>5, <4>1 DEF row
    <3> QED BY <3>2, <3>3, <3>4, <3>5
  <2> QED BY <2>2, <2>3, EndedSheet
<1> QED BY <1>1, <1>3

\* What is left of a batch that died misplaces no row.
LEMMA PartialIsHonest == BatchTypeOK /\ FolderInv => PartialSheetIsHonest
<1> SUFFICES ASSUME BatchTypeOK, FolderInv, Aggregates
             PROVE  /\ \A i, j \in DOMAIN Sheet : Sheet[i].url = Sheet[j].url => i = j
                    /\ \A i \in DOMAIN Sheet : Sheet[i].reliable # None =>
                         manifest[i].ok /\ Sheet[i].url = manifest[i].url /\ ResultOf(Sheet[i].url) # None
  BY DEF PartialSheetIsHonest
<1>1. manifest # None /\ ListsSites(manifest) /\ DOMAIN Sheet = DOMAIN manifest
  BY DEF Aggregates, FolderInv, Sheet
<1>2. ASSUME NEW n \in DOMAIN Sheet
      PROVE  /\ Sheet[n].url = manifest[n].url
             /\ Sheet[n].reliable # None => manifest[n].ok /\ ResultOf(Sheet[n].url) # None
  <2> DEFINE m == manifest[n]
  <2>1. Sheet[n] = AggregateRow(m)
    BY <1>1 DEF Sheet
  <2>2. PICK i \in Sites : m.url = batch.sites[i].url /\ m.file \in {None, FileName(batch.sites[i])}
    BY <1>1, <1>2 DEF ListsSites
  <2>3. CASE ~(m.ok /\ m.file \in DOMAIN files)
    <3>1. Sheet[n] = [url |-> m.url, rank |-> m.rank, reliable |-> None, grade |-> None, waf |-> None]
      BY <2>1, <2>3 DEF AggregateRow, Blank, Row
    <3> QED BY <3>1
  <2>4. CASE m.ok /\ m.file \in DOMAIN files
    <3>1. files[m.file] # Torn
      BY <1>1, <1>2, <2>4 DEF Aggregates, Range
    <3>2. PICK j \in Sites : m.file = FileName(batch.sites[j]) /\ files[m.file] \in ResultsOf(j)
      BY <2>4, <3>1 DEF FolderInv
    <3>3. \A k \in Sites : FileName(batch.sites[k]) # None
      <4> SUFFICES ASSUME NEW k \in Sites PROVE FileName(batch.sites[k]) # None
        OBVIOUS
      <4>1. batch.sites[k].rank \in Nat \cup {None} /\ batch.sites[k].safe \in STRING
        BY SitesAreNumbered DEF Site
      <4> QED BY <4>1, EvalAssumption DEF FileName
    <3>4. j = i
      BY <2>2, <3>2, <3>3 DEF FolderInv
    <3> DEFINE res == files[m.file]
    <3>5. res.url = (IF res.report.error THEN None ELSE m.url) /\ res.report \in Reports
      BY <2>2, <3>2, <3>4 DEF ResultsOf, Result
    <3>6. /\ Sheet[n].url = IF res.url = None THEN m.url ELSE res.url
          /\ Sheet[n].reliable = res.report.reliable
      BY <2>1, <2>4 DEF AggregateRow, Row
    <3>7. Sheet[n].url = m.url
      BY <3>5, <3>6
    <3>8. ASSUME Sheet[n].reliable # None PROVE ResultOf(Sheet[n].url) # None
      <4>1. res.url = m.url
        BY <3>5, <3>6, <3>8, EvalAssumption
      <4>2. m.url # None
        <5>1. batch.sites[i].url \in STRING
          BY SitesAreNumbered DEF Site
        <5> QED BY <2>2, <5>1, EvalAssumption
      <4> QED BY <2>2, <2>4, <3>1, <3>2, <3>4, <3>7, <4>1, <4>2, ResultIsOwn
    <3> QED BY <2>4, <3>7, <3>8
  <2> QED BY <2>3, <2>4
<1>3. \A n, k \in DOMAIN Sheet : Sheet[n].url = Sheet[k].url => n = k
  BY <1>1, <1>2 DEF ListsSites
<1> QED BY <1>2, <1>3

\* Sites and their lines are as many.
LEMMA LinesCount ==
  ASSUME BatchTypeOK, NEW A \in SUBSET Sites, NEW B \in SUBSET Sites,
         \A i \in Sites : i \in A <=> LineOf(i) \in B
  PROVE  Cardinality(B) = Cardinality(A)
<1> DEFINE f == [i \in A |-> LineOf(i)]
<1>1. f \in Injection(A, B)
  BY LinesAreOnce DEF Injection, IsInjective
<1>2. f \in Surjection(A, B)
  <2>1. \A n \in B : \E i \in A : f[i] = n
    BY LinesAreOnce
  <2>2. f \in [A -> B]
    OBVIOUS
  <2> QED BY <2>1, <2>2 DEF Surjection
<1>3. IsFiniteSet(A)
  BY SitesAreNumbered, FS_Subset
<1> QED BY <1>1, <1>2, <1>3, FS_Bijection DEF ExistsBijection, Bijection

\* The statistics of an ended batch count the sites of its own last scans.
LEMMA EndedStatistics == BatchTypeOK /\ FolderInv => StatisticsAreOfThisBatch
<1> DEFINE scanned == {i \in Sites : tasks[i].pc = "success"}
           LastReport(i) == tasks[i].result.report
           reliable == {i \in scanned : LastReport(i).reliable = TRUE}
           Nameless(i) == LastReport(i).reliable = FALSE /\ LastReport(i).waf = None
<1> SUFFICES ASSUME BatchTypeOK, FolderInv, runner = "ended"
             PROVE  /\ \A g \in DOMAIN GradeDistribution :
                         GradeDistribution[g] = Cardinality({i \in reliable : LastReport(i).grade = g})
                    /\ \A t \in DOMAIN TitleSiteCounts :
                         TitleSiteCounts[t] = Cardinality({i \in reliable : t \in LastReport(i).titles})
                    /\ \A v \in DOMAIN VendorCounts :
                         VendorCounts[v] = Cardinality({i \in scanned : LastReport(i).waf = v})
                    /\ BlockedUnattributed = Cardinality({i \in scanned :
                         Nameless(i) /\ Category(LastReport(i)) = "waf_or_anti_bot_block"})
  BY DEF StatisticsAreOfThisBatch
<1>1. DOMAIN Sheet = Sites /\ \A i \in Sites : LineOf(i) \in Sites
  BY EndedSheet, LinesAreOnce
<1>2. None # TRUE /\ None # FALSE
  BY EvalAssumption
<1>3. ASSUME NEW i \in Sites, i \notin scanned
      PROVE  /\ Sheet[LineOf(i)].reliable = None /\ Sheet[LineOf(i)].waf = None
             /\ Bucket(Sheet[LineOf(i)]) = "scan_failed_entirely"
  <2> DEFINE row == Sheet[LineOf(i)]
  <2>1. row.reliable = None /\ row.waf = None
    <3>1. tasks[i].pc = "failed"
      BY <1>3, EndedSheet
    <3>2. row = [url |-> batch.sites[i].url, rank |-> batch.sites[i].rank,
                 reliable |-> None, grade |-> None, waf |-> None]
      BY <3>1, EndedSheet
    <3> QED BY <3>2
  <2> HIDE DEF row
  <2>2. Bucket(row) = "scan_failed_entirely"
    BY <1>2, <2>1 DEF Bucket
  <2> QED BY <2>1, <2>2 DEF row
<1>4. ASSUME NEW i \in scanned
      PROVE  /\ Sheet[LineOf(i)].url = batch.sites[i].url
             /\ Sheet[LineOf(i)].reliable = LastReport(i).reliable
             /\ Sheet[LineOf(i)].grade = LastReport(i).grade
             /\ Sheet[LineOf(i)].waf = LastReport(i).waf
             /\ LastReport(i).reliable \in BOOLEAN =>
                  ResultOf(batch.sites[i].url) = tasks[i].result /\ tasks[i].result # None
             /\ LastReport(i).reliable = TRUE => Bucket(Sheet[LineOf(i)]) = "reliable"
             /\ LastReport(i).reliable = FALSE => Bucket(Sheet[LineOf(i)]) = Category(LastReport(i))
             /\ LastReport(i).reliable \notin BOOLEAN => Bucket(Sheet[LineOf(i)]) = "scan_failed_entirely"
  <2> DEFINE row == Sheet[LineOf(i)]
             report == LastReport(i)
  <2>1. /\ report \in Reports
        /\ row = Row(batch.sites[i].url, batch.sites[i].rank, report)
        /\ ~report.error => ResultOf(batch.sites[i].url) = tasks[i].result /\ tasks[i].result # None
    BY EndedSheet
  <2>2. /\ row.url = batch.sites[i].url /\ row.reliable = report.reliable
        /\ row.grade = report.grade /\ row.waf = report.waf
    BY <2>1 DEF Row
  <2>3. report.reliable \in BOOLEAN => ~report.error
    BY <2>1, EvalAssumption
  <2> HIDE DEF row
  <2>4. report.reliable = TRUE => Bucket(row) = "reliable"
    BY <2>2 DEF Bucket
  <2>5. report.reliable = FALSE => Bucket(row) = Category(report)
    <3>1. report.reliable = FALSE => ResultOf(row.url) = tasks[i].result /\ ResultOf(row.url) # None
      BY <2>1, <2>2, <2>3
    <3> QED BY <2>2, <3>1 DEF Bucket
  <2>6. report.reliable \notin BOOLEAN => Bucket(row) = "scan_failed_entirely"
    BY <2>2 DEF Bucket
  <2> QED BY <2>1, <2>2, <2>3, <2>4, <2>5, <2>6 DEF row
<1>5. \A i \in Sites : LineOf(i) \in ReliableRows <=> i \in reliable
  BY <1>1, <1>2, <1>3, <1>4 DEF ReliableRows
<1> HIDE DEF LastReport
<1>6. ASSUME NEW g \in DOMAIN GradeDistribution
      PROVE  GradeDistribution[g] = Cardinality({i \in reliable : LastReport(i).grade = g})
  <2> DEFINE A == {i \in reliable : LastReport(i).grade = g}
             B == {n \in ReliableRows : Sheet[n].grade = g}
  <2>1. A \subseteq Sites /\ B \subseteq Sites
    BY <1>1 DEF ReliableRows
  <2>2. \A i \in Sites : i \in A <=> LineOf(i) \in B
    BY <1>4, <1>5
  <2>3. GradeDistribution[g] = Cardinality(B)
    BY DEF GradeDistribution
  <2> HIDE DEF A, B
  <2>4. Cardinality(B) = Cardinality(A)
    BY <2>1, <2>2, LinesCount
  <2> QED BY <2>3, <2>4 DEF A
<1>7. ASSUME NEW t \in DOMAIN TitleSiteCounts
      PROVE  TitleSiteCounts[t] = Cardinality({i \in reliable : t \in LastReport(i).titles})
  <2> DEFINE A == {i \in reliable : t \in LastReport(i).titles}
             B == {n \in ReliableRows : LET own == ResultOf(Sheet[n].url) IN own # None /\ t \in own.report.titles}
  <2>1. A \subseteq Sites /\ B \subseteq Sites
    BY <1>1 DEF ReliableRows
  <2>2. \A i \in reliable : ResultOf(Sheet[LineOf(i)].url) # None
                            /\ ResultOf(Sheet[LineOf(i)].url).report = LastReport(i)
    <3> SUFFICES ASSUME NEW i \in reliable
                 PROVE  /\ ResultOf(Sheet[LineOf(i)].url) # None
                        /\ ResultOf(Sheet[LineOf(i)].url).report = LastReport(i)
      OBVIOUS
    <3>1. i \in scanned /\ LastReport(i).reliable \in BOOLEAN
      OBVIOUS
    <3>2. ResultOf(Sheet[LineOf(i)].url) = tasks[i].result /\ tasks[i].result # None
      BY <1>4, <3>1
    <3> QED BY <3>2 DEF LastReport
  <2>3. \A i \in Sites : i \in A <=> LineOf(i) \in B
    BY <1>5, <2>2
  <2>4. TitleSiteCounts[t] = Cardinality(B)
    BY DEF TitleSiteCounts
  <2> HIDE DEF A, B
  <2>5. Cardinality(B) = Cardinality(A)
    BY <2>1, <2>3, LinesCount
  <2> QED BY <2>4, <2>5 DEF A
<1>8. ASSUME NEW v \in DOMAIN VendorCounts
      PROVE  VendorCounts[v] = Cardinality({i \in scanned : LastReport(i).waf = v})
  <2> DEFINE A == {i \in scanned : LastReport(i).waf = v}
             B == {n \in DOMAIN Sheet : Sheet[n].waf = v}
  <2>1. A \subseteq Sites /\ B \subseteq Sites
    BY <1>1
  <2>2. v # None /\ VendorCounts[v] = Cardinality(B)
    BY DEF VendorCounts
  <2>3. \A i \in Sites : i \in A <=> LineOf(i) \in B
    BY <1>1, <1>3, <1>4, <2>2
  <2> HIDE DEF A, B
  <2>4. Cardinality(B) = Cardinality(A)
    BY <2>1, <2>3, LinesCount
  <2> QED BY <2>2, <2>4 DEF A
<1>9. BlockedUnattributed = Cardinality({i \in scanned :
        Nameless(i) /\ Category(LastReport(i)) = "waf_or_anti_bot_block"})
  <2> DEFINE A == {i \in scanned : Nameless(i) /\ Category(LastReport(i)) = "waf_or_anti_bot_block"}
             B == {n \in DOMAIN Sheet : Sheet[n].waf = None /\ Bucket(Sheet[n]) = "waf_or_anti_bot_block"}
  <2>1. A \subseteq Sites /\ B \subseteq Sites
    BY <1>1
  <2>2. ASSUME NEW i \in Sites PROVE i \in A <=> LineOf(i) \in B
    <3>1. CASE i \notin scanned
      BY <1>3, <3>1
    <3>2. CASE i \in scanned
      <4>1. CASE LastReport(i).reliable = FALSE
        BY <1>1, <1>4, <3>2, <4>1
      <4>2. CASE LastReport(i).reliable # FALSE
        <5>1. i \notin A
          BY <4>2
        <5>2. Bucket(Sheet[LineOf(i)]) \in {"reliable", "scan_failed_entirely"}
          BY <1>4, <3>2, <4>2
        <5> QED BY <5>1, <5>2
      <4> QED BY <4>1, <4>2
    <3> QED BY <3>1, <3>2
  <2> HIDE DEF A, B
  <2>3. Cardinality(B) = Cardinality(A)
    BY <2>1, <2>2, LinesCount
  <2>4. BlockedUnattributed = Cardinality(B)
    BY DEF BlockedUnattributed, B
  <2> QED BY <2>3, <2>4 DEF A
<1> QED BY <1>6, <1>7, <1>8, <1>9

\* The sheet and the statistics say of a batch what its scans said, whether it ended,
\* died or was started again in the same folder.
THEOREM SheetsAreHonest == BatchSpec => []SheetIsHonest
<1>1. BatchTypeOK /\ FolderInv => SheetIsHonest
  BY EndedIsAccounted, PartialIsHonest, EndedStatistics DEF SheetIsHonest
<1> QED BY <1>1, SlotInvHolds, FolderInvHolds, PTL

-----------------------------------------------------------------------------
(* CandidatePool *)

\* The rows of a stratum.
OfStratum(rows, s) == {r \in rows : r.stratum = s}

\* There are finitely many candidates.
LEMMA CandidatesAreFinite ==
  ASSUME world \in PoolWorlds
  PROVE  /\ IsFiniteSet(Candidates)
         /\ \A r \in Candidates : r.stratum \in Strata /\ r.domain \in world.candidates[r.stratum]
<1> USE PoolAssumption
<1> DEFINE Part(s) == [stratum : {s}, domain : world.candidates[s]]
<1>1. ASSUME NEW s \in Strata PROVE IsFiniteSet(Part(s))
  <2> DEFINE f == [d \in world.candidates[s] |-> [stratum |-> s, domain |-> d]]
  <2>1. f \in Surjection(world.candidates[s], Part(s))
    BY DEF Surjection
  <2>2. IsFiniteSet(world.candidates[s])
    OBVIOUS
  <2> HIDE DEF f, Part
  <2> QED BY <2>1, <2>2, FS_Surjection
<1>2. IsFiniteSet({Part(s) : s \in Strata})
  <2> DEFINE f == [s \in Strata |-> Part(s)]
  <2>1. f \in Surjection(Strata, {Part(s) : s \in Strata})
    <3> HIDE DEF Part
    <3> QED BY DEF Surjection
  <2> HIDE DEF f, Part
  <2> QED BY <2>1, FS_Surjection
<1>3. Candidates = UNION {Part(s) : s \in Strata}
  BY DEF Candidates
<1>4. IsFiniteSet(Candidates)
  <2> HIDE DEF Part
  <2> QED BY <1>1, <1>2, <1>3, FS_UNION
<1>5. \A r \in Candidates : r.stratum \in Strata /\ r.domain \in world.candidates[r.stratum]
  BY <1>3
<1> QED BY <1>4, <1>5

\* So many rows are drawn for a stratum as domains are chosen for it.
LEMMA DrawCounts ==
  ASSUME world \in PoolWorlds, NEW s \in Strata, NEW chosen \in SUBSET world.candidates[s],
         NEW rows \in SUBSET Candidates, NEW t \in Strata
  PROVE  LET all == rows \cup [stratum : {s}, domain : chosen]
         IN  /\ all \subseteq Candidates
             /\ t # s => Count(all, t) = Count(rows, t)
             /\ t = s /\ Count(rows, s) = 0 => Count(all, t) = Cardinality(chosen)
<1> DEFINE new == [stratum : {s}, domain : chosen]
           all == rows \cup new
<1>1. \A r \in new : r.stratum = s /\ r.domain \in chosen
  OBVIOUS
<1>2. new \subseteq Candidates
  BY DEF Candidates
<1>3. t # s => OfStratum(all, t) = OfStratum(rows, t)
  BY <1>1 DEF OfStratum
<1>4. ASSUME t = s, Count(rows, s) = 0 PROVE Count(all, t) = Cardinality(chosen)
  <2>1. IsFiniteSet(OfStratum(rows, s))
    BY CandidatesAreFinite, FS_Subset DEF OfStratum
  <2>2. OfStratum(rows, s) = {}
    BY <1>4, <2>1, FS_EmptySet DEF Count, OfStratum
  <2>3. OfStratum(all, s) = new
    BY <1>1, <2>2 DEF OfStratum
  <2> DEFINE f == [d \in chosen |-> [stratum |-> s, domain |-> d]]
  <2>4. f \in Bijection(chosen, new)
    BY DEF Bijection, Injection, Surjection, IsInjective
  <2>5. IsFiniteSet(chosen)
    BY PoolAssumption, FS_Subset
  <2>6. Cardinality(new) = Cardinality(chosen)
    <3> HIDE DEF f, new
    <3> QED BY <2>4, <2>5, FS_Bijection DEF ExistsBijection
  <2> QED BY <1>4, <2>3, <2>6 DEF Count, OfStratum
<1> QED BY <1>2, <1>3, <1>4 DEF Count, OfStratum

\* The state of the pool has its types, and a pass replaces stratum by stratum.
LEMMA DrawInvHolds == PoolSpec => [](PoolTypeOK /\ DrawInv)
<1> USE PoolAssumption
<1>1. PoolInit => PoolTypeOK /\ DrawInv
  BY DEF PoolInit, PoolTypeOK, DrawInv
<1>2. PoolTypeOK /\ DrawInv /\ [PoolNext]_poolVars => (PoolTypeOK /\ DrawInv)'
  <2> SUFFICES ASSUME PoolTypeOK, DrawInv, [PoolNext]_poolVars PROVE PoolTypeOK' /\ DrawInv'
    OBVIOUS
  <2>1. CASE Builds
    <3>1. pool = NoPool /\ UNCHANGED <<world, passes, pending, drawn>>
      BY <2>1 DEF Builds
    <3>2. pool' \subseteq Candidates
      BY <2>1 DEF Builds, Deduped
    <3>3. pending = {} /\ drawn = {}
      BY <3>1 DEF DrawInv
    <3>4. Candidates' = Candidates
      BY <3>1 DEF Candidates
    <3> QED BY <3>1, <3>2, <3>3, <3>4 DEF PoolTypeOK, DrawInv
  <2>2. CASE PassStarts
    <3>1. /\ pool # NoPool /\ pending = {} /\ drawn = {} /\ pending' = {r.stratum : r \in Excluded}
          /\ UNCHANGED <<world, pool, passes, drawn>>
      BY <2>2 DEF PassStarts, DrawInv
    <3>2. pending' \subseteq Strata
      BY <3>1, CandidatesAreFinite DEF PoolTypeOK, Excluded
    <3>3. Candidates' = Candidates /\ Excluded' = Excluded
      BY <3>1 DEF Candidates, Excluded
    <3>4. \A s \in Strata : Count(drawn, s) = 0
      BY <3>1, FS_EmptySet DEF Count
    <3>5. ASSUME NEW s \in Strata, s \notin pending' PROVE Needed(s) = 0
      <4>1. {r \in Excluded : r.stratum = s} = {}
        BY <3>1, <3>5
      <4> QED BY <4>1, FS_EmptySet DEF Needed, Count
    <3>6. PoolTypeOK'
      BY <3>1, <3>2, <3>3 DEF PoolTypeOK
    <3>7. \A s \in Strata : Needed(s)' = Needed(s) /\ Count(drawn, s)' = Count(drawn, s)
      BY <3>1, <3>3 DEF Needed, Count
    <3>8. DrawInv'
      BY <3>1, <3>4, <3>5, <3>7 DEF DrawInv
    <3> QED BY <3>6, <3>8
  <2>3. ASSUME NEW s \in Strata, Draws(s) PROVE PoolTypeOK' /\ DrawInv'
    <3>1. s \in pending /\ pending' = pending \ {s} /\ world' = world /\ pool # NoPool
      BY <2>3 DEF Draws, DrawInv
    <3>2. PICK chosen \in kSubset(Needed(s), Eligible(s)) :
            LET all == drawn \cup [stratum : {s}, domain : chosen]
                new == (pool \ Excluded) \cup all
            IN  IF pending # {s}
                  THEN drawn' = all /\ UNCHANGED <<pool, passes>>
                  ELSE /\ drawn' = {} /\ passes' = passes + 1
                       /\ pool' = IF /\ Cardinality(new) = Cardinality(pool)
                                     /\ Cardinality(Domains(new)) = Cardinality(new)
                                    THEN new ELSE pool
      BY <2>3 DEF Draws
    <3> DEFINE all == drawn \cup [stratum : {s}, domain : chosen]
    <3>3. /\ chosen \subseteq world.candidates[s] /\ Cardinality(chosen) = Needed(s)
          /\ \A d \in chosen : d \notin Domains(pool) \cup world.blocked \cup world.calibration
      BY DEF kSubset, Eligible, NeverUse
    <3>4. all \subseteq Candidates /\ Candidates' = Candidates
      BY <3>1, <3>3, DrawCounts DEF PoolTypeOK, Candidates
    <3>5. CASE pending = {s}
      <4>1. pending' = {} /\ drawn' = {} /\ passes' = passes + 1 /\ (pool' = pool \/ pool' \subseteq pool \cup all)
        BY <3>1, <3>2, <3>5
      <4> HIDE DEF all
      <4>2. PoolTypeOK'
        BY <3>1, <3>4, <4>1 DEF PoolTypeOK
      <4> QED BY <4>1, <4>2 DEF DrawInv
    <3>6. CASE pending # {s}
      <4>1. drawn' = all /\ UNCHANGED <<pool, passes>>
        BY <3>2, <3>6
      <4>2. PoolTypeOK'
        BY <3>1, <3>4, <4>1 DEF PoolTypeOK
      <4>3. Excluded' = Excluded /\ Domains(pool)' = Domains(pool)
        BY <3>1, <4>1 DEF Excluded, Domains
      <4>4. ASSUME NEW t \in Strata PROVE Count(drawn', t) = IF t \in pending' THEN 0 ELSE Needed(t)
        <5>1. Count(drawn, t) = IF t \in pending THEN 0 ELSE Needed(t)
          BY <3>1 DEF DrawInv
        <5>2. /\ t # s => Count(all, t) = Count(drawn, t)
              /\ t = s /\ Count(drawn, s) = 0 => Count(all, t) = Cardinality(chosen)
          BY <3>3, DrawCounts DEF PoolTypeOK
        <5> QED BY <3>1, <3>3, <4>1, <5>1, <5>2
      <4>5. \A t : Needed(t)' = Needed(t)
        BY <4>3 DEF Needed, Count
      <4>6. \A r \in all : r.domain \notin Domains(pool) \cup world.blocked \cup world.calibration
        BY <3>3 DEF DrawInv
      <4>7. DrawInv'
        BY <3>1, <3>6, <4>1, <4>3, <4>4, <4>5, <4>6 DEF DrawInv, Count
      <4> QED BY <4>2, <4>7
    <3> QED BY <3>5, <3>6
  <2>4. ASSUME NEW s \in Strata, DrawFails(s) PROVE PoolTypeOK' /\ DrawInv'
    BY <2>4 DEF DrawFails, PoolTypeOK, DrawInv, Candidates
  <2>5. CASE UNCHANGED poolVars
    BY <2>5 DEF poolVars, PoolTypeOK, DrawInv, Candidates, Needed, Excluded, Count, Domains
  <2> QED BY <2>1, <2>2, <2>3, <2>4, <2>5 DEF PoolNext
<1> QED BY <1>1, <1>2, PTL DEF PoolSpec

\* The rows that a pass keeps and those it has drawn are as many, in every stratum, as
\* there were.
LEMMA PassKeepsCounts ==
  ASSUME PoolTypeOK, pool # NoPool, NEW all \in SUBSET Candidates, NEW t \in Strata,
         Count(all, t) = Needed(t), \A r \in all : r.domain \notin Domains(pool)
  PROVE  Count((pool \ Excluded) \cup all, t) = Count(pool, t)
<1> DEFINE kept == OfStratum(pool \ Excluded, t)
           out == OfStratum(Excluded, t)
           fresh == OfStratum(all, t)
<1>1. pool \subseteq Candidates /\ IsFiniteSet(Candidates)
  BY CandidatesAreFinite DEF PoolTypeOK
<1>2. IsFiniteSet(OfStratum(pool, t)) /\ IsFiniteSet(kept) /\ IsFiniteSet(fresh)
  BY <1>1, FS_Subset DEF OfStratum
<1>3. Cardinality(OfStratum(pool, t)) = Cardinality(out) + Cardinality(kept)
      /\ Cardinality(out) \in Nat /\ Cardinality(kept) \in Nat
  <2>1. out \subseteq OfStratum(pool, t) /\ OfStratum(pool, t) \ out = kept
    BY DEF OfStratum, Excluded
  <2> HIDE DEF out, kept
  <2> QED BY <1>2, <2>1, PartsAddUp
<1>4. kept \cap fresh = {}
  BY DEF OfStratum, Domains
<1>5. Cardinality(kept \cup fresh) = Cardinality(kept) + Cardinality(fresh) - Cardinality({})
  <2> HIDE DEF kept, fresh
  <2> QED BY <1>2, <1>4, FS_Union
<1>6. Cardinality({}) = 0
  BY FS_EmptySet
<1>7. Cardinality(fresh) = Cardinality(out)
  BY DEF Count, Needed, OfStratum
<1>8. OfStratum((pool \ Excluded) \cup all, t) = kept \cup fresh
  BY DEF OfStratum
<1>9. Cardinality(OfStratum((pool \ Excluded) \cup all, t)) = Cardinality(OfStratum(pool, t))
  <2> HIDE DEF kept, fresh, out
  <2>1. Cardinality(kept \cup fresh) = Cardinality(OfStratum(pool, t))
    BY <1>3, <1>5, <1>6, <1>7
  <2> QED BY <1>8, <2>1
<1> QED BY <1>9 DEF Count, OfStratum

\* A pass that rewrites the pool keeps every stratum's size and every row it need not
\* exclude, has no domain twice, and leaves nothing for a second pass.
THEOREM PassesAreClean == PoolSpec => PassIsClean
<1> USE PoolAssumption
<1> DEFINE Clean == pool # NoPool /\ pool' # pool =>
             /\ \A s \in Strata : Count(pool', s) = Count(pool, s)
             /\ pool \ Excluded \subseteq pool'
             /\ Cardinality(Domains(pool')) = Cardinality(pool')
             /\ \A r \in Excluded' : Normalized[r.domain] # r.domain
<1>1. PoolTypeOK /\ DrawInv /\ [PoolNext]_poolVars => [Clean]_poolVars
  <2> SUFFICES ASSUME PoolTypeOK, DrawInv, [PoolNext]_poolVars, pool # NoPool, pool' # pool
               PROVE  /\ \A s \in Strata : Count(pool', s) = Count(pool, s)
                      /\ pool \ Excluded \subseteq pool'
                      /\ Cardinality(Domains(pool')) = Cardinality(pool')
                      /\ \A r \in Excluded' : Normalized[r.domain] # r.domain
    OBVIOUS
  <2>1. PICK s \in Strata : Draws(s)
    BY DEF PoolNext, Builds, PassStarts, DrawFails, poolVars
  <2>2. PICK chosen \in kSubset(Needed(s), Eligible(s)) :
          LET all == drawn \cup [stratum : {s}, domain : chosen]
              new == (pool \ Excluded) \cup all
          IN  IF pending # {s}
                THEN drawn' = all /\ UNCHANGED <<pool, passes>>
                ELSE /\ drawn' = {} /\ passes' = passes + 1
                     /\ pool' = IF /\ Cardinality(new) = Cardinality(pool)
                                   /\ Cardinality(Domains(new)) = Cardinality(new)
                                  THEN new ELSE pool
    BY <2>1 DEF Draws
  <2> DEFINE all == drawn \cup [stratum : {s}, domain : chosen]
             new == (pool \ Excluded) \cup all
  <2>3. pending = {s} /\ pool' = new /\ Cardinality(Domains(new)) = Cardinality(new)
    BY <2>2
  <2>4. world' = world
    BY <2>1 DEF Draws
  <2>5. /\ chosen \subseteq world.candidates[s] /\ Cardinality(chosen) = Needed(s)
        /\ \A d \in chosen : d \notin Domains(pool) \cup world.blocked \cup world.calibration
    BY DEF kSubset, Eligible, NeverUse
  <2>6. all \subseteq Candidates
    BY <2>5, DrawCounts DEF PoolTypeOK
  <2>7. \A r \in all : r.domain \notin Domains(pool) \cup world.blocked \cup world.calibration
    BY <2>5 DEF DrawInv
  <2>8. ASSUME NEW t \in Strata PROVE Count(all, t) = Needed(t)
    <3>1. Count(drawn, t) = IF t \in pending THEN 0 ELSE Needed(t)
      BY <2>3 DEF DrawInv
    <3>2. /\ t # s => Count(all, t) = Count(drawn, t)
          /\ t = s /\ Count(drawn, s) = 0 => Count(all, t) = Cardinality(chosen)
      BY <2>5, DrawCounts DEF PoolTypeOK
    <3> QED BY <2>3, <2>5, <3>1, <3>2
  <2> HIDE DEF all
  <2>9. \A t \in Strata : Count(pool', t) = Count(pool, t)
    BY <2>3, <2>6, <2>7, <2>8, PassKeepsCounts
  <2>10. ASSUME NEW r \in Excluded' PROVE Normalized[r.domain] # r.domain
    <3>1. r \in new /\ (Normalized[r.domain] \in world.blocked \/ r.domain \in world.calibration)
      BY <2>3, <2>4, <2>10 DEF Excluded
    <3>2. r \in all
      BY <3>1 DEF Excluded
    <3> QED BY <2>7, <3>1, <3>2
  <2> QED BY <2>3, <2>9, <2>10
<1> QED BY <1>1, DrawInvHolds, PTL DEF PoolSpec, PassIsClean
=============================================================================
