----------------------------- MODULE EvalBatch -----------------------------
(***************************************************************************)
(* A batch of the evaluation harness (src/worker/evaluation):              *)
(* run_evaluation.py scans the sampled sites a few at a time and leaves a  *)
(* folder; aggregate_results.py makes a sheet of the folder, and           *)
(* analyze_evaluation.py a breakdown of the sheet. A batch may die, and    *)
(* may be started again with the same --batch-id.                          *)
(***************************************************************************)
EXTENDS Integers, Sequences, FiniteSets, SequencesExt

CONSTANTS
  Batches,      \* [sites |-> the sample, starts |-> how often it is started, concurrency]; of a site
                \* its rank or None, its url and its domain as _safe_filename leaves it; the
                \* url has its scheme, as sample_sites.py writes it, and run_scout reports it so
  Reports,      \* what run_scout returns: a report, the one of a blocked target, {"error"}
  MaxAttempts,
  None, Torn

Site == [rank : Nat \cup {None}, url : STRING, safe : STRING]
Batch == [sites : Seq(Site), starts : Nat, concurrency : Nat \ {0}]

\* What is in a result file, and a row of the manifest.
Result == [report : Reports, url : {None} \cup STRING]
Listed == [rank : Nat \cup {None}, url : STRING, ok : BOOLEAN, file : {None} \cup (Nat \cup {None}) \X STRING]

ASSUME EvalAssumption ==
  /\ MaxAttempts \in Nat \ {0}
  /\ Batches \subseteq Batch
  /\ \A b \in Batches : \A i, j \in DOMAIN b.sites : i # j =>
       /\ b.sites[i].url # b.sites[j].url
       /\ <<b.sites[i].rank, b.sites[i].safe>> # <<b.sites[j].rank, b.sites[j].safe>>
  /\ \A r \in Reports :
       /\ r.error \in BOOLEAN
       /\ IF r.error THEN r.reliable = None /\ r.grade = None /\ r.waf = None ELSE r.reliable \in BOOLEAN
  /\ None \notin BOOLEAN \cup Nat \cup STRING
  /\ None \notin Result /\ Torn \notin Result
  /\ None \notin (Nat \cup {None}) \X STRING
  /\ None \notin Seq(Listed)

VARIABLES batch,     \* the sample and how often it may still be started
          tasks,     \* of each site, where its _scan_one is
          slots,     \* free slots of the semaphore
          runner,    \* run_batch: "scanning", "saving", "listing", "ended", "dead"
          saved,     \* how many outcomes the loop over them has handled
          files,     \* the result files of the folder
          manifest   \* manifest.csv, or None
batchVars == <<batch, tasks, slots, runner, saved, files, manifest>>

Sites == DOMAIN batch.sites
Queued == [pc |-> "queued", attempt |-> 0, result |-> None]

FileName(site) == <<site.rank, site.safe>>

BatchInit ==
  /\ batch \in Batches
  /\ tasks = [i \in Sites |-> Queued]
  /\ slots = batch.concurrency /\ runner = "scanning" /\ saved = 0
  /\ files = <<>> /\ manifest = None

-----------------------------------------------------------------------------
(* _scan_one *)

Folder == <<batch, runner, saved, files, manifest>>

Acquires(i) ==
  /\ runner = "scanning" /\ tasks[i].pc = "queued" /\ slots > 0
  /\ slots' = slots - 1
  /\ tasks' = [tasks EXCEPT ![i] = [@ EXCEPT !.pc = "scanning", !.attempt = 1]]
  /\ UNCHANGED Folder

\* Whatever run_scout returns counts as success.
ScanReturns(i) ==
  /\ runner = "scanning" /\ tasks[i].pc = "scanning"
  /\ \E r \in Reports :
       tasks' = [tasks EXCEPT ![i] = [@ EXCEPT !.pc = "success",
                   !.result = [report |-> r, url |-> IF r.error THEN None ELSE batch.sites[i].url]]]
  /\ slots' = slots + 1
  /\ UNCHANGED Folder

\* As ScanFails, letting the slot go before the retry.
ScanFailsReleasing(i) ==
  /\ runner = "scanning" /\ tasks[i].pc = "scanning"
  /\ tasks' = [tasks EXCEPT ![i].pc = IF tasks[i].attempt < MaxAttempts THEN "sleeping" ELSE "failed"]
  /\ slots' = slots + 1
  /\ UNCHANGED Folder

\* It raises or the outer timeout cancels it; the slot is kept through the delay.
ScanFails(i) ==
  /\ runner = "scanning" /\ tasks[i].pc = "scanning"
  /\ \/ /\ tasks[i].attempt < MaxAttempts
        /\ tasks' = [tasks EXCEPT ![i].pc = "sleeping"]
        /\ UNCHANGED slots
     \/ /\ tasks[i].attempt = MaxAttempts
        /\ tasks' = [tasks EXCEPT ![i].pc = "failed"]
        /\ slots' = slots + 1
  /\ UNCHANGED Folder

\* As Retries, without counting the attempt.
RetriesUncounted(i) ==
  /\ runner = "scanning" /\ tasks[i].pc = "sleeping"
  /\ tasks' = [tasks EXCEPT ![i].pc = "scanning"]
  /\ UNCHANGED <<Folder, slots>>

Retries(i) ==
  /\ runner = "scanning" /\ tasks[i].pc = "sleeping"
  /\ tasks' = [tasks EXCEPT ![i] = [tasks[i] EXCEPT !.pc = "scanning", !.attempt = tasks[i].attempt + 1]]
  /\ UNCHANGED <<Folder, slots>>

-----------------------------------------------------------------------------
(* run_batch *)

\* The sample of a dry run may be empty.
Gathers ==
  /\ runner = "scanning" /\ \A i \in Sites : tasks[i].pc \in {"success", "failed"}
  /\ runner' = IF batch.sites = <<>> THEN "listing" ELSE "saving"
  /\ UNCHANGED <<batch, tasks, slots, saved, files, manifest>>

WithFile(name, content) == [n \in DOMAIN files \cup {name} |-> IF n = name THEN content ELSE files[n]]

\* The loop writes the results in the order of the sample.
Saves ==
  /\ runner = "saving" /\ saved < Len(batch.sites)
  /\ saved' = saved + 1
  /\ files' = IF tasks[saved + 1].pc = "success"
                THEN WithFile(FileName(batch.sites[saved + 1]), tasks[saved + 1].result) ELSE files
  /\ runner' = IF saved' = Len(batch.sites) THEN "listing" ELSE "saving"
  /\ UNCHANGED <<batch, tasks, slots, manifest>>

Rows ==
  [i \in Sites |->
     LET ok == tasks[i].pc = "success"
     IN  [rank |-> batch.sites[i].rank, url |-> batch.sites[i].url, ok |-> ok,
          file |-> IF ok THEN FileName(batch.sites[i]) ELSE None]]

\* The manifest is sorted by rank, the unranked sites last; sites of one rank keep
\* the order of the sample.
ListedBefore(i, j) ==
  LET r == batch.sites[i].rank
      q == batch.sites[j].rank
  IN  IF r = q THEN i < j ELSE r # None /\ (q = None \/ r < q)

LineOf(i) == Cardinality({j \in Sites : j = i \/ ListedBefore(j, i)})

Listing == [n \in Sites |-> Rows[CHOOSE i \in Sites : LineOf(i) = n]]

Lists ==
  /\ runner = "listing"
  /\ manifest' = Listing
  /\ runner' = "ended"
  /\ UNCHANGED <<batch, tasks, slots, saved, files>>

\* The process ends early: a file it was writing is torn, and of the manifest there
\* is a part, whose last row may be cut off before the name of its file.
Dies ==
  /\ runner \in {"scanning", "saving", "listing"}
  /\ runner' = "dead"
  /\ \/ UNCHANGED <<files, manifest>>
     \/ /\ runner = "saving" /\ tasks[saved + 1].pc = "success"
        /\ files' = WithFile(FileName(batch.sites[saved + 1]), Torn)
        /\ UNCHANGED manifest
     \/ /\ runner = "listing" /\ UNCHANGED files
        /\ \E n \in 0..Len(batch.sites) :
             \/ manifest' = SubSeq(Listing, 1, n)
             \/ n > 0 /\ manifest' = [SubSeq(Listing, 1, n) EXCEPT ![n].file = None]
  /\ UNCHANGED <<batch, tasks, slots, saved>>

StartsAgain ==
  /\ runner \in {"ended", "dead"} /\ batch.starts > 1
  /\ batch' = [batch EXCEPT !.starts = @ - 1]
  /\ tasks' = [i \in Sites |-> Queued]
  /\ slots' = batch.concurrency /\ runner' = "scanning" /\ saved' = 0
  /\ UNCHANGED <<files, manifest>>

BatchStep ==
  \/ Gathers \/ Saves \/ Lists
  \/ \E i \in Sites : Acquires(i) \/ ScanReturns(i) \/ ScanFails(i) \/ Retries(i)

BatchNext == BatchStep \/ Dies \/ StartsAgain

BatchSpec == BatchInit /\ [][BatchNext]_batchVars

-----------------------------------------------------------------------------
(* aggregate_results.py *)

\* The columns the analysis reads of a report.
Row(url, rank, report) ==
  [url |-> url, rank |-> rank, reliable |-> report.reliable, grade |-> report.grade, waf |-> report.waf]

Blank(m) == Row(m.url, m.rank, [reliable |-> None, grade |-> None, waf |-> None])

\* As AggregateRow, going by the files there are.
AggregateRowByFile(m) ==
  LET name == FileName(CHOOSE site \in Range(batch.sites) : site.url = m.url)
  IN  IF name \in DOMAIN files /\ files[name] # Torn
        THEN Row(m.url, m.rank, files[name].report)
        ELSE Blank(m)

\* A success without its file is a blank row, as a failure is.
AggregateRow(m) ==
  IF m.ok /\ m.file \in DOMAIN files
    THEN Row(IF files[m.file].url = None THEN m.url ELSE files[m.file].url, m.rank, files[m.file].report)
    ELSE Blank(m)

\* No manifest, or a torn result: no sheet.
Aggregates == manifest # None /\ \A m \in Range(manifest) : m.file \in DOMAIN files => files[m.file] # Torn

Sheet == [i \in DOMAIN manifest |-> AggregateRow(manifest[i])]

-----------------------------------------------------------------------------
(* analyze_evaluation.py *)

\* The readable results by their own urls, whichever file they are in.
ResultOf(url) ==
  LET own == {n \in DOMAIN files : files[n] # Torn /\ files[n].url = url}
  IN  IF own = {} THEN None ELSE files[CHOOSE n \in own : TRUE]

Category(r) ==
  CASE ~r.representative /\ r.tlsDown -> "no_web_server"
    [] ~r.representative /\ ~r.tlsDown -> "waf_or_anti_bot_block"
    [] r.representative /\ r.partial -> "partial_completion_representative_page"
    [] OTHER -> "other_unclassified"

\* Where a row of the sheet is counted.
Bucket(row) ==
  CASE row.reliable = TRUE -> "reliable"
    [] row.reliable = FALSE ->
         IF ResultOf(row.url) = None THEN "other_unclassified" ELSE Category(ResultOf(row.url).report)
    [] OTHER -> "scan_failed_entirely"

ReliableRows == {i \in DOMAIN Sheet : Sheet[i].reliable = TRUE}

GradeDistribution ==
  [g \in {report.grade : report \in Reports} \ {None} |->
     Cardinality({i \in ReliableRows : Sheet[i].grade = g})]

\* On how many sites, not how often.
TitleSiteCounts ==
  [t \in UNION {report.titles : report \in Reports} |->
     Cardinality({i \in ReliableRows :
       LET own == ResultOf(Sheet[i].url) IN own # None /\ t \in own.report.titles})]

VendorCounts ==
  [v \in {report.waf : report \in Reports} \ {None} |->
     Cardinality({i \in DOMAIN Sheet : Sheet[i].waf = v})]

BlockedUnattributed ==
  Cardinality({i \in DOMAIN Sheet :
    Sheet[i].waf = None /\ Bucket(Sheet[i]) = "waf_or_anti_bot_block"})

-----------------------------------------------------------------------------
\* The sites that hold a slot.
Active == {i \in Sites : tasks[i].pc \in {"scanning", "sleeping"}}

\* Never more scans at once than the concurrency asked for, a retry and its delay
\* included, and the slots are all back once every site is done
\* (run_evaluation.py:131-164).
ConcurrencyIsBounded ==
  /\ Cardinality(Active) <= batch.concurrency
  /\ (\A i \in Sites : tasks[i].pc \in {"success", "failed"}) => slots = batch.concurrency

\* After a batch that ended, whatever an earlier start left in the folder, the sheet
\* can be made, has one row for every site, and counts it where the result of
\* its own last scan belongs; a site that failed this time is blank even where an
\* earlier start had a result (run_evaluation.py:191-219, aggregate_results.py:132-153).
EverySiteIsAccounted ==
  runner = "ended" =>
    /\ Aggregates /\ Len(Sheet) = Len(batch.sites)
    /\ \A i \in Sites : \E row \in Range(Sheet) :
         /\ row.url = batch.sites[i].url /\ row.rank = batch.sites[i].rank
         /\ Bucket(row) =
              IF tasks[i].pc = "failed" \/ tasks[i].result.report.error THEN "scan_failed_entirely"
              ELSE IF tasks[i].result.report.reliable THEN "reliable"
              ELSE Category(tasks[i].result.report)

\* The sheet of a batch that died has no row of a site twice, none with another
\* site's result, and no graded row that no scan returned: a part of the manifest
\* never reads as a different batch (run_evaluation.py:215-219, aggregate_results.py:137-150).
PartialSheetIsHonest ==
  runner = "dead" /\ Aggregates =>
    /\ \A i, j \in DOMAIN Sheet : Sheet[i].url = Sheet[j].url => i = j
    /\ \A i \in DOMAIN Sheet : Sheet[i].reliable # None =>
         manifest[i].ok /\ Sheet[i].url = manifest[i].url /\ ResultOf(Sheet[i].url) # None

\* The statistics of a batch that ended are those of its own last scans, though part
\* of them is read from the sheet and part from whatever files the folder has: every
\* grade, title, vendor and nameless block counts the sites whose last scan had it
\* (analyze_evaluation.py:210-300).
StatisticsAreOfThisBatch ==
  runner = "ended" =>
    LET scanned == {i \in Sites : tasks[i].pc = "success"}
        LastReport(i) == tasks[i].result.report
        reliable == {i \in scanned : LastReport(i).reliable = TRUE}
        Nameless(i) == LastReport(i).reliable = FALSE /\ LastReport(i).waf = None
    IN  /\ \A g \in DOMAIN GradeDistribution :
             GradeDistribution[g] = Cardinality({i \in reliable : LastReport(i).grade = g})
        /\ \A t \in DOMAIN TitleSiteCounts :
             TitleSiteCounts[t] = Cardinality({i \in reliable : t \in LastReport(i).titles})
        /\ \A v \in DOMAIN VendorCounts :
             VendorCounts[v] = Cardinality({i \in scanned : LastReport(i).waf = v})
        /\ BlockedUnattributed = Cardinality({i \in scanned :
             Nameless(i) /\ Category(LastReport(i)) = "waf_or_anti_bot_block"})

\* The sheet says of a batch what its scans said, whether the batch ended, died or
\* was started again in the same folder, and so do the statistics: the three above.
SheetIsHonest == EverySiteIsAccounted /\ PartialSheetIsHonest /\ StatisticsAreOfThisBatch

\* A started batch ends or dies: no site is retried for ever and no scan waits for a
\* slot that is never given back (run_evaluation.py:131-164, fair because every
\* attempt ends at the outer timeout).
BatchEnds == [](runner = "scanning" => <>(runner \in {"ended", "dead"}))

-----------------------------------------------------------------------------
Task == [pc : {"queued", "scanning", "sleeping", "success", "failed"}, attempt : 0..MaxAttempts,
         result : {None} \cup Result]

\* The types of what a batch keeps in memory.
BatchTypeOK ==
  /\ batch \in Batch
  /\ tasks \in [Sites -> Task]
  /\ slots \in Nat
  /\ runner \in {"scanning", "saving", "listing", "ended", "dead"}
  /\ saved \in 0..Len(batch.sites)

\* Why ConcurrencyIsBounded: a slot is free or held by one active site, and a site that
\* waits for its retry has one left.
SlotInv ==
  /\ slots + Cardinality(Active) = batch.concurrency
  /\ \A i \in Sites : tasks[i].pc = "sleeping" => tasks[i].attempt < MaxAttempts
  /\ runner = "scanning" => saved = 0
  /\ runner = "saving" => saved < Len(batch.sites)

\* A result as the scan of site i leaves it.
ResultsOf(i) == {r \in Result : r.url = IF r.report.error THEN None ELSE batch.sites[i].url}

\* m lists sites of the sample, none of them twice: a manifest or a part of one.
ListsSites(m) ==
  /\ \A n \in DOMAIN m : \E i \in Sites :
       m[n].url = batch.sites[i].url /\ m[n].file \in {None, FileName(batch.sites[i])}
  /\ \A n, k \in DOMAIN m : m[n].url = m[k].url => n = k

\* Why SheetIsHonest: whatever starts and deaths there were, each file of the folder is
\* one site's, torn or with a result of that site; the files of this start's successes
\* hold this start's results once the loop has passed them.
FolderInv ==
  /\ \A i, j \in Sites : i # j =>
       batch.sites[i].url # batch.sites[j].url /\ FileName(batch.sites[i]) # FileName(batch.sites[j])
  /\ \A f \in DOMAIN files : \E i \in Sites :
       f = FileName(batch.sites[i]) /\ (files[f] = Torn \/ files[f] \in ResultsOf(i))
  /\ \A i \in Sites : tasks[i].pc = "success" => tasks[i].result \in ResultsOf(i)
  /\ manifest # None => ListsSites(manifest)
  /\ runner \in {"saving", "listing", "ended"} =>
       \A i \in Sites :
         /\ tasks[i].pc \in {"success", "failed"}
         /\ tasks[i].pc = "success" /\ i <= saved =>
              /\ FileName(batch.sites[i]) \in DOMAIN files
              /\ files[FileName(batch.sites[i])] = tasks[i].result
  /\ runner \in {"listing", "ended"} => saved = Len(batch.sites)
  /\ runner = "ended" => manifest = Listing
=============================================================================
