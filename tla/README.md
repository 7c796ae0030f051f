# Bravo6: a TLA+ model of the scan pipeline

Bravo6 is a passive website security scanner on Azure Functions. A caller posts
a URL, the API Gateway queues a job, a Worker instance scans the site with ten
"scouts" and stores the result, and the Report Function answers the caller's
polls. Nothing but a queue and a container connects the three: the pipeline's
correctness is that of retries, redeliveries and crashes around them.

Paths below are relative to the repository root (`src/...` is its `src/`).

## 1. Inventory

| Component | State | Operations | Talks to |
|---|---|---|---|
| API Gateway (`src/api/function_app.py`, `servicebus_queue.py`) | none between requests; in a request: the job id, the attempt | `submit_scan` -> `handle_scan_request`: blocklist, optional SSRF check, `enqueue_scan_job` with 3 attempts; answers 202, 400, 403, 500, 503 | sends to the queue |
| Service Bus queue (`terraform/modules/service_bus`) | messages: absent, queued, locked, completed, dead-lettered; delivery count | peek-lock delivery, completion, abandon, lock expiry, dead-letter after 3 deliveries | triggers the Worker |
| Worker handler (`src/worker/function_app.py`) | the deliveries an instance is running | `process_scan`: run a scan, re-raise on failure | `run_scout` |
| Orchestrator (`main_scanner.run_scout`) | `ScannerContext`, results per scout | pre-flight fetch with retries, plugin discovery, `gather` of scouts under `wait_for`, collation, score | the target, persistence |
| JavaScript cache (`ScannerContext.fetch_js`) | `js_cache`, `_js_fetch_events`, metrics | one fetch per file behind an `asyncio.Event` | the scouts of one scan |
| Persistence (`persist_scan_result`, `write_result_locally`) | the attempt | `create_item` with 3 attempts and backoff, then a local JSON file | Cosmos, the instance's disk |
| Report Function (`src/report/function_app.py`) | none | `GET /report/status`, `GET /report/result` | reads Cosmos |
| Findings (`normalize_finding`, `deduplicate_findings`, `compute_bravo6_score`; `evaluation/tier_fix_counterfactual.py`) | what the scouts returned, the report | normalise, merge, score; score again without the tier fix | Orchestrator |
| SSRF checks, blocklist (`SSRFSafeResolver`, `SSRFSafeConnector`, `api/blocklist.py`) | a list; the session's open connections | match a host suffix, classify every address on the way to a connection | Gateway, Worker, DNS |
| OSV CVE sync (`osv_cve_sync.py`, a timer) | rows of the CVE table | query OSV per library, extract, merge, upsert row by row | the frontend library scout reads the table |
| CVE ETL (`cve-pipeline/cve_etl.py`, by hand) | one cached reply per library, the CSV | query or read the cache, extract, merge to the widest range | the scout's bundled CSV |
| TLS scout (04) | handshakes tried, one probe per version | handshake with retries, `openssl` processes under a semaphore, verdict | target |
| Hallucinated dependency scout (10) | packages to look up, one result each | find a manifest, ask the registry under a semaphore | target, registries |
| Scouts 01-03, 05-09 | per-scan dictionaries | passive checks of one kind each | target, DNS |
| Evaluation harness (`run_evaluation.py`, `aggregate_results.py`) | folder of results, manifest | batch of scans under a semaphore with an outer timeout and retries; the sheet | `run_scout` |
| Evaluation statistics (`analyze_evaluation.py`, `build_candidate_pool.py`, `apply_pool_exclusions.py`, `sample_sites.py`) | the candidate pool | strata, exclusions and replacements; breakdown of unreliable grades | result files |
| Benchmark runner (`validation-benchmark/runner.py`) | an environment flag, patched lookups | concurrent cases under overrides that are set and restored | `run_scout` |
| Cross-tool calibration (`validation-benchmark/cross-tool-calibration/`) | rows per site | scan, fetch Mozilla's verdicts, count agreement | `run_scout`, Mozilla |
| Deferred HTML report (`future-work/report-html`) | none | merge by title, order, count, advise | a report |
| Deferred authentication and quota (`future-work/auth`) | records of jobs | token, count in a rolling window, write the record, owner check | Cosmos |
| Infrastructure (`terraform/`) | - | declarative | - |

What each must get right:

- **Gateway**: a 202 means the message is queued; a refused target leaves no
  trace. Hard: a send whose answer is lost is sent again, and a 503 may hide a
  queued message.
- **Queue and Worker handler**: every message is completed after a handler ran to
  its end, or dead-lettered after all its tries. Hard: a lock lost under a
  running handler, a crash between storing and completing, two copies of a job.
- **Persistence**: a finished scan has a home; one document per job, never
  replaced. Hard: an acknowledged write whose answer is lost, the retry that
  collides with it, two handlers racing, a file truncated before it is rewritten.
- **Report**: what was readable stays readable and the same.
- **JavaScript cache**: nobody waits for ever, a file is fetched once while all is
  well. Hard: failing fetches, cancelled scouts, Events that replace each other.
- **Orchestrator**: one scout's failure costs only its own findings; coverage is
  what ran. Hard: timeouts against cancellation, retries of the pre-flight.
- **Findings**: every place keeps its best confirmed finding, more findings do not
  raise the score, a reliable A was earned. Hard: caps, pools and keys that interact.
- **SSRF checks**: no connection to an address that is not public. Hard: DNS that
  changes between check and use, redirects, literal addresses, reused connections.
- **OSV sync, ETL**: each row is one answer's, versions that are affected are flagged.
  Hard: partial failure, readers in mid-update, interval events, merges.
- **TLS scout, dependency scout**: what did not answer is not evidence. Hard: probes
  that fail beside probes that end.
- **Evaluation**: a sheet says what the scans of this batch said. Hard: results
  written last, a process that dies, a folder used twice, semaphores under retries.
- **Pool, calibration, benchmark**: no domain drawn twice or excluded later; only
  examined sites count; overrides outlive the cases. Hard: strata that share ranks,
  failures on either side, concurrent set and restore.
- **HTML report, quota**: the worst finding of a title is shown; a recorded job is
  counted. Hard: merging across places; count, then write.

## 2. Modules

| Module | Models |
|---|---|
| `Platform` | constants, identities (job, message, delivery), the kinds of fault |
| `ServiceBus` | the queue (external): `Enqueue`, `Lock`, `Complete`, `Release`, `HoldsLock` |
| `ResultStore` | Cosmos `create_item` and the local JSON files of each instance |
| `Gateway` | the submission handler and the send with its retries |
| `Worker` | `process_scan`, the ends of `run_scout`, `persist_scan_result`; crashes, recycled instances, lost locks |
| `Report` | the two routes as functions of the store |
| `ScanLifecycle` | abstract: what a caller can observe of a job |
| `Pipeline` | the composition, fairness, all properties, the refinement mapping |
| `MCPipeline` | symmetry of the instances for TLC |
| `PipelineProofs` | theorems about `Pipeline` |
| `JsCache`, `JsCacheProofs` | `ScannerContext.fetch_js`, and theorems about it |
| `Orchestrator`, `OrchestratorProofs` | `run_scout` from the pre-flight fetch to the returned result, and theorems about it |
| `CveRecords` | OSV's answers (external), and what an advisory becomes: id, scores, affected range, row, both merges, the scout's range check |
| `OsvSync` | the timer's run: queries, upserts in any order, failures, an early end; the reader |
| `CveEtl` | cached replies, collection, the CSV |
| `MCCve` | one of the two programs against a changing OSV |
| `MCParts` | those two, the cache or one scan: one of the four per behaviour |
| `CveProofs` | theorems about `OsvSync` and `CveEtl` |
| `Findings` | the verdict about the main page, normalisation, deduplication, score, the report of one scan; the re-scoring |
| `HtmlReport` | what the page makes of a report (extends `Findings`) |
| `FindingsProofs` | theorems about the report and its page |
| `TargetSafety` | Gateway's check, blocklist, resolver, connector, redirects, reused connections |
| `RegistryLookup` | scout 10: manifests, deduplication and cap, three-state lookups |
| `TlsProbes` | scout 04: first handshake, version probes, verdict |
| `ScoutProbes`, `ScoutProbesProofs` | the two scouts side by side, and theorems about them |
| `EvalBatch` | a batch, its folder, deaths and starts again, the sheet, its breakdown and statistics |
| `CandidatePool` | building the pool, and passes of exclusion and replacement |
| `Calibration` | scans, Mozilla's verdicts, the agreement |
| `Benchmark` | the overrides and the cases under them |
| `EvaluationProofs` | theorems about the four modules above it |
| `JobQuota` | submissions from token to record, the reader's owner check |
| `AdmissionProofs` | theorems about `TargetSafety` and `JobQuota` |
| `MCQuota` | four submissions for `JobQuota` |
| `MCEvaluation` | instances of the modules from `Findings` on, one program per behaviour |

**State.** `gw[j]` is where the request of job `j` is: not sent, sending with
attempt `attempt`, or the answer given. `msg[<<j, a>>]` is the message the a-th
send of `j` put into the queue: the Gateway sets no message id and the queue has
no duplicate detection, so each send that arrives is a message of its own.
`inv[<<m, n>>]` is the run of `process_scan` for the n-th delivery of `m`: its
place in the code (`pc`), its instance, the write attempt and the outcome
(`persist_scan_result`'s return value, or how `run_scout` ended without it).
`cosmos[j]` and `disk[i][j]` hold the delivery whose result is stored, `None`, or
(on disk) `Torn`: opened with `"w"` and not yet written.

**Steps.** A step is what happens between two points where another actor can
interfere: one send, one Cosmos round trip, the opening and the writing of the
file. A coroutine is atomic between awaits, and `persist_scan_result` never
awaits (`create_item` and `time.sleep` are synchronous): `LoopFree` keeps every
other coroutine of the instance from moving while one persists. Settlement also
needs the loop: `run_scout` closes its session, which awaits.

**Faults** are enumerated in `Platform!FaultKinds` and a configuration names the
ones it admits: lost or failed sends, lost locks, crashes, recycled instances
(with their disk), failing Cosmos, lost answers of Cosmos, failing disk, and the
three ways `run_scout` ends without a result.

**The cache.** In `JsCache` a call is `new`, `waiting` for the Event of call `on`,
`fetching`, `done` or `cancelled`; an Event is named by the call that made it. A
fetch's `finally` sets its own Event and removes whatever is registered for the
file. Each call starts once and its file is chosen when it starts.

**The scan.** `Orchestrator` opens the Worker's one step "scan" for a single scan:
`pc` is the await `run_scout` stands at, `scout[s]` what the `wait_for` around scout
`s` is doing (`running`, `timing_out` by its own timer, `cancelling` with the whole
scan) or what it gave. Discovery, the start of all scouts, and collation to the end
of `persist_scan_result` contain no await and are one step each. The caller may
cancel at every await, as `evaluation/run_evaluation.py` does through its outer
`wait_for`; asyncio (Python 3.11) lets a coroutine that ends while it is being
cancelled keep its value, and a cancelled `gather` raises whatever its children gave.
What a scout finds is abstract: only the kind of value it gives matters to
collation. That the grade is reliable exactly if as many scouts ran as were loaded is
written as equality of the two sets, one being part of the other.

**Findings.** A finding is a record of the fields the code compares; titles and
places are values with their cut, folded or stripped forms given as functions
(`Cut`, `Place`, `Folded`), so two of them may become one. Scouts return any sequence of
findings, or fail; collation is in the order of the scouts whichever ended first.
`deduplicate_findings` is written as what its loop leaves: of each key the finding that is better
than all before it and not beaten by any after it (`Winners`), in the order in which the
keys were met; penalties are counted per severity. A definition by folding would be run by
TLC as well, but nothing could be proved of it (section 4). The main page is its status and
the marks that name a vendor or a challenge, or no page at all.

**CVE data.** An advisory has its aliases, its packages with their ranges (sequences of
events of the four kinds OSV has: introduced, fixed, last_affected, limit) and its scores.
Versions are numbers in their order; some do not parse (`Unparsable`, which the scout's
range check answers with False), and `SortKey` is what the ETL's `_parse_version_tuple` keeps
of one, so versions may tie there or change places. The rows that
extraction makes are a set of rows with their places in the answer, since all that merging
asks of their order is which came first. `table[lib]` maps CVE ids to rows; `given[lib]`
remembers every answer OSV gave, to say what a row
may be. The sync writes its rows one at a time and may fail or end at any of them;
the advisories change between any two steps.

**Addresses.** Each fetch of the session resolves its host and connects in two steps;
DNS answers anew each time and the connector's cache may be used or not. A
redirect leads to any name or literal address. The connection that `aiohttp` keeps open
is a step of its own. `OnlyPublicIsContacted` is about the shared session; the sockets of
the TLS and DNS scouts do not pass through it.

**The harness.** A site's task waits for a slot, scans, sleeps before its retry with the
slot held, and ends; results are written file by file after the last scan, then the
manifest. The process may die at any step and a start with the same id finds what is left.
The sorted manifest is given by the line of each site (`LineOf`: how many sites are listed
before it), and the capped packages of scout 10 by how many others precede each.

**The benchmark.** A scan loads every scout file into a module of its own
(`main_scanner.py:447-462`), so what `runner.py` replaces in the module it imports,
`imported`, is not what a scan calls; the environment flag is one for the process. Both are
modelled, since both are set and restored by every case.

**The quota.** A submission is let in by a count of records (`LetIn`), then written; nothing is
reserved between. How many run at once is up to the host and bounded by nothing here. `turn`
and `beside` are history: the order in which submissions were let in, and who of the same user
was under way then.

## 3. Runs

Safety runs explore every interleaving at their bounds; runs with deadlock
checking off are those of a system that stops when all jobs are settled.

| Run | Bounds | Shows |
|---|---|---|
| `redelivery` | 1 job, 1 send, 3 deliveries, 2 instances, 2 write attempts, every fault | A 202 was queued; a completed message was handled by the holder of its lock; a dead letter was tried 3 times; `"cosmos"` means the handler's own document; a result once read never changes |
| `resend` | 1 job, 2 sends, 2 deliveries each, 2 instances; sends, locks, answers and processes lost | With a Cosmos that takes writes, completed means readable; the pipeline implements `ScanLifecycle` |
| `two_jobs` | 2 jobs and a blocklisted one on one instance, 2 deliveries; Cosmos, locks, processes and scans fail | A finished scan is in Cosmos or whole on disk, or a delivery of its own job tore the file; a refused target leaves no trace |
| `live` | 1 job, 2 sends, 2 deliveries, 1 instance; sends, locks, answers and processes lost, scans that raise | Every accepted job is settled, and readable unless a process died with it or its scan raised on every delivery of a message |
| `parts` | one of four programs, see below | The cache, one scan, the sync and the ETL |
| `evaluation` | one of nine programs, see below | Deduplication, grades, HTML; addresses contacted; lookups and probes that fail; quota; concurrency, sheet and end of a batch; pool; agreement; overrides |
| `blocked`, `torn`, `coverage`, `osv_merge`, `tls_broken`, `quota` | smallest that show it | section 5 |

In `parts` a variable `program`, chosen at the start, says which program runs, and the
others stand still, so the state space is the sum of the four:

| Program | Bounds | Properties |
|---|---|---|
| JavaScript cache | 4 calls, 2 files, failing fetches, cancelled scouts | `WaitersAreServed`, `RegisteredEventIsPending`, `HealthyFetchIsShared`; `EveryCallEnds` |
| one scan | 3 scouts, 2 retries, every failure and cancellation | `PreflightIsExact`, `AnswerIsFinal`, `ReportCoversLoaded`, `CancelledStoresNothing`, `EveryScanEnds` |
| the timer's sync | 2 libraries; versions 0..4, one of them a prerelease whose key is its release's and one that does not parse; 4 answers of OSV with all four kinds of event; 1 change, 2 failures | `ExtractionIsSound`, `RowsAreAnswered`, `FailuresAreIsolated`, `RowsStayReadable`, `Heals` |
| the ETL | the same | `CsvIsConservative` |

`CacheTypeOK` and `ScanTypeOK` are checked too. `EveryCallEnds` is checked of one of the four calls, which
differ in nothing but their names.

`evaluation` is made the same way of nine programs:

| Program | Bounds | Properties |
|---|---|---|
| a scan's report and its page | 2 scouts of at most 2 findings out of 7: titles that are cut to one, a title in two classes, a place in two spellings, duplicates that differ in confidence, severity or advice, tiers in both forms, unknown names; a page served as such, one refused, a challenge with status 200, none | `DeduplicationIsSound`, `GradesAreEarned`, `HtmlKeepsTheWorst` |
| addresses | 2 names, one below a blocked domain; a public and a private address; DNS that answers none, one or both; 2 requests with one redirect each | `OnlyPublicIsContacted` |
| registry lookups | 2 manifests; 6 names with a scoped one and two spellings, 4 of them checkable under a cap of 3; 2 lookups at once | `TimedOutProbesSayNothing` |
| TLS probes | 4 versions, all sets of them offered, 2 retries, 2 probes at once; probes that time out or break | `TimedOutProbesSayNothing` |
| quota | 2 submissions of one user, one of another, one bad token, all at once; limit 1, window 1, 2 tries, clock to 2 | `QuotaIsKept` |
| batch | 3 sites (one without a rank) with 2 slots, or 2 sites with 1 slot started twice, or an empty sample; 2 attempts; 5 kinds of report: reliable, no web server, nameless block, partial, error | `ConcurrencyIsBounded`, `SheetIsHonest`, `EveryBatchEnds` |
| pool | 3 strata (two that share ranks, one of listed candidates), 6 domains, 2 passes | `PassIsClean` |
| calibration | 2 sites, 2 signals, 2 tries | `OnlyExaminedSitesCount` |
| benchmark | 3 cases, offline or not, cases that raise | `OverridesOutlastCases` |

*Why these bounds are enough.* Two instances and three deliveries give every
relation between handlers of one message: concurrent (lock lost), successive (crash
or exception) and dead-lettered on the last. Two sends are the first number at which
a job has two messages; a third is one more redelivery of the same kind. Two write
attempts distinguish the first, the repeated and the last. Two jobs are needed for
the event loop only: jobs share no other state. Three calls for one file are needed
for a fetch that ends while another fetch of that file is registered; the fourth
adds a waiter on each. Three scouts are one that ended, one that is timing out and
one being cancelled, at once; 2 is the code's own number of retries. Scouts do not
influence each other except through the cache. In `parts`, two libraries are one
that fails and one that does not, and the change of OSV comes before, during or after a
run. Two findings per scout, and two scouts, are a duplicate within a scout and the
same title in another; four findings pass the hardening cap. Two requests are the
first that share a connection. Submissions with equal headers start in the order of
their numbers (`InOrder`), which only renames them. Two slots and three sites make
one wait; the second start is the first that finds an old folder; three cases have
one that ends while another starts and a third scans. The theorems of section 4 have
no bounds.

*Symmetry* permutes instances in runs without liveness.

*Fairness* (`Pipeline!Fairness`): the sender keeps sending, since `enqueue_scan_job`
is a bounded loop; a handler that can move does, since the host schedules its event
loop and every wait in it has a timeout; the queue offers a message that is queued,
and gives up the lock of a holder that died. No fairness on requests or faults, nor
on the loss of a live holder's lock. `JsCache!CacheFairness`: a woken coroutine is
resumed, and a GET (`timeout=10`) succeeds or fails; that the scout's `wait_for`
fires is not assumed. `Orchestrator!ScanFairness`: requests have a total timeout, a
scout's timer fires if it does not end by itself, and a cancelled scout ends (no
scout catches `CancelledError`); the caller need not cancel. `MCParts`: as these two, and the timer
fires and its run goes on to its end (`SyncStep`); failures are bounded by
`MaxFaults`, which is "when OSV works again". `MCEvaluation`: a batch that is not
killed goes on (`BatchStep`), since every attempt ends at the outer timeout.

## 4. Proofs

The theorems hold for all values of the constants that satisfy the modules' named
assumptions, which TLC evaluates for the values of the runs: numbers of attempts,
deliveries, slots and tries are positive, limits and clocks natural numbers; what is
counted (strata, a stratum's candidates, the sample and signals of the calibration) is
finite; samples, manifests and advisories have the shapes of the files they are read from;
two sites of a sample differ in url and in file name; and the markers for "no value" are
not values. Jobs, instances, calls, files, scouts, libraries, hosts, cases and users are
arbitrary sets.

*Pipeline* (`PipelineProofs`).

- `TypeCorrect`: the type invariant, from one lemma per component.
- `RefusedLeaveNoTrace` needs `TraceInv`: a refused job has no message, a message has
  a request that was not refused, a run has a message, and a document or file has a
  run. Only the whole chain is inductive.
- `DeadLettersWereTried` and `CompletedWereHandled` need `DeliveryInv`: the deliveries
  counted are exactly the runs started, so the delivery that holds the lock is the
  last; only then does "its holder completed it" follow from the step.
- `ResultsAreStable` and `CosmosOutcomeIsOwn` follow from `DocumentsStay`:
  `create_item` fills only an empty place, so no step changes a document.
- `HealthyCompletedIsReported` needs `StoredInv`: with a Cosmos that takes every write, a
  run reaches the local file, or its end, only past a document of its job. A lost answer,
  a retry that meets a conflict and a second handler all satisfy it for different reasons.
- `OneWriterPerInstance`: of the runs of one instance at most one at a time is inside
  `persist_scan_result` (`LoopInv`), since `LoopFree` guards every step that enters it. It
  says nothing of runs that write one after the other; the run `torn` has two that do.
- `FinishedScansAreKept` needs `FileInv`: only a failing disk refuses a result, only a
  replaced instance takes a file along, and a torn file has a run of its job and instance
  that opened it and is still writing, stopped, or failed. The theorem assumes no more than
  that no instance is replaced.
- `PipelineImplementsLifecycle`: the initial state maps to the initial state, and each
  step is a step of the life cycle or a stutter. The step that needs thought is a
  document stored for a job whose caller got a 503: `TraceInv` gives the request.

*One scan* (`JsCacheProofs`, `OrchestratorProofs`, `AdmissionProofs`, `ScoutProbesProofs`).

- `NoLostWakeup` and `RegisteredIsPending` hold together (`EventInv`): a call may wait
  only because the registered Event is of a fetch in progress, and an Event is set only
  when its call ends (`SetHasEnded`).
- `HealthyIsShared` adds `Shared`: while nothing failed, a file is unrequested, being
  fetched by the call everyone else waits for, or cached.
- `PreflightCounts`, `ReportIsWhole`, `AnswersAreFinal` and `CancelledIsSilent` share
  `ScanInv`, whose `PhaseInv` keeps the phases apart: an open fetch has no page, a
  result exists only after collation, and a cancelled scan is past its fetch or over.
- `PublicOnly` needs `AddressInv`, that answers are checked before they are cached as well
  as before they are used, and `StageInv`, that only the pre-flight runs before the scouts
  and nothing before the blocklist.
- `OnlyAnswersCount`: for scout 10 `RegistryInv`, which ties what is looked up to the
  capped packages of the manifest that was taken; that the cap leaves exactly
  `MaxPackages` is `FirstOfMany`, a bijection between packages and how many precede them.
  For scout 04 `ProbeInv`: probing follows a modern handshake, and a probe that ended with
  an answer has the server's. A process that ended without one is not told from a refusal,
  so the theorem is about those that timed out, and says what a wrong verdict rests on.

*CVE data* (`CveProofs`).

- `ReadRowsAreAnswered`, `FailuresStayIsolated`: `MergeInv`, a run merges one answer
  and every key that is not left or unwritten has the row of that answer. `RowsStay` is
  an action property of the upsert; `SyncTypeCorrect` the types.
- `CsvCoversAnswers`: `CsvInv` (the libraries done have whole, well-formed replies on disk,
  whose rows are those collected) and `MergeCovers`: the row of a merge has the bounds of the
  rows whose keys are least and greatest, or is open as soon as one row is; that it reaches
  as far as each row does follows where the key keeps the order of the two bounds compared.
- `OrderedRangesAreSound` has a hypothesis, `RegularWorlds`: an advisory has one entry
  for the library, whose events are in order and give each introduction one end, the last
  perhaps none, as OSV's schema asks. Extraction keeps the last introduction and the last fix of the first entry, and reads
  neither `last_affected` nor `limit`: what it flags beyond those is left to the property's
  `Overlooked`. The lemmas need that a finite
  set of versions has a least and a greatest member. `HasLeast` proves it without an
  induction theorem: the sets without one would have a member minimal by inclusion.

*The report* (`FindingsProofs`). Its state barely moves: `ReportInv` says that a report was made of
results which are all in and no longer change, and the rest is about what it was made of.

- `ArrangedOnce`: a finite set is arranged with every member once and in its order, by the
  theorem that an injection of a finite set into its like is onto. Collation, the kept
  findings, the page's rows and the top risks are all sets arranged in an order.
- `ReportsAreSound`: a comparison by two ranks is a weak order (`RankedIsWeak`), so every key has
  exactly one winner and none of its findings beats it (`OneWinner`). That a
  finding with a key of its own never helps is a count: without it the other winners stay
  winners (`WinnersStayWinners`), so of no severity and pool are there more
  (`FewerWithoutIt`), and penalties are sums of those counts.
- `GradesFollow`: the hardening pool costs 10 at most (`DeductionsAreCapped`), so it leaves 90; a
  critical finding in the other pool costs 30. What the tier fix moved takes its penalties
  from one pool to the other (`FixMovesPenalties`), so undoing it lowers the score by no more.
- `PageKeepsTheWorst`: `OneWinner` again, with titles for keys; `RowsAreKept`, the actionable rows
  and the hidden ones are together the kept findings, each once; the first three of the
  arranged rows are no milder than the others (`RisksAreWorst`); the tabs are
  differences of sets (`AdviceStandsOnce`); and the row kept of a title is one of its worst
  findings, so where they all advise something its advice has a tab (`WorstAdviceStands`).

*Programs around the scanner* (`AdmissionProofs`, `EvaluationProofs`).

- `QuotaKept`: `RecordInv` (who has a record, and when it was made) and `TurnInv`: of the
  submissions let in before one, those recorded then were counted by its check and fewer
  than the limit, and the others were under way beside it. In a window the one let in last
  (`LastLetIn`) thus counted all but those beside it. `QuotaTypeCorrect` gives the types.
- `SlotsAreKept`: `SlotInv`, free slots and active sites add up to the concurrency.
- `SheetsAreHonest`: `FolderInv`. Whatever was started and killed in the folder before,
  a file is torn or one site's result, the files of this start's successes are rewritten
  as the loop passes them, and a manifest or a part of one lists no site twice. That the
  statistics count each site once is a bijection of sites and lines (`LinesAreOnce`).
- `PassesAreClean`: `DrawInv`, a pass under way has drawn what it needs of every stratum that is not
  pending, outside pool and exclusions.
- `OverridesLast`: `OverrideInv`, whatever a case will restore was overridden by the benchmark;
  this also is why a case collected after a benchmark that raised turns the overrides on again.
- `ExaminedSitesCount`: `RowInv`, a scan that raised counts as incomplete.

The invariants that carry these proofs are in the modules they are about, and TLC finds
them true of the instances of section 3.

Every safety property and every action property of the passing runs is thus a theorem.
*Only model-checked* is liveness, which is out of the prover's reach: `AcceptedIsSettled`,
`AcceptedIsReported`, `EveryCallEnds`, `EveryScanEnds`, `Heals` and `EveryBatchEnds`. Nor is there an
induction over data: what a fold or a recursive definition computes for every input cannot be
proved here, so the modules describe results by sets, orders and counts instead.

## 5. Where the code and its words differ

- `blocked`: `run_scout` returns the `blocked_ssrf` result without storing it
  (`src/worker/main_scanner.py:851-877`). The Report Function's mapping of that
  status to Failed (`src/report/function_app.py:94-95`) never sees a document, and
  the caller's polls get 404 "scan not found" for ever.
- `torn`: a second delivery truncates the complete local result of the first
  (`main_scanner.py:741`) and dies before rewriting it; the docstring at 762 says a
  result must never be lost because Cosmos was unavailable.
- `coverage`: a scout file whose import raises is dropped by `discover_plugins`
  (`main_scanner.py:460`), and the coverage of the scan is measured against the files
  that loaded; `compute_bravo6_score`'s docstring (595-596) promises that a scan which
  examined little gets no confident grade.
- `osv_merge`: the timer's `dedupe_rows` (`src/worker/osv_cve_sync.py:204-220`) merges
  scores and keeps the first row's range, where the ETL's takes the widest
  (`src/cve-pipeline/cve_etl.py:269-284`); its docstring says the merge is the same. A
  version that only the second source's range covers is not flagged from the table.
- `tls_broken`: `_run_openssl` answers `timed_out=False` when a process cannot be started
  or its connection fails (`test_04_ssl_tls.py:197-198`), and nothing writes
  `OPENSSL_MISSING`, so such a probe counts as completed and refused, against the docstring
  of `_probe_protocol` (335-339). Since the certificate comes from a modern handshake, the
  critical "No Modern TLS Versions Supported" can only come from such probes
  (`TlsVerdictsAreProbed`).
- `quota`: `quota.py:16-17` promises at most `MAX_SCANS_PER_WINDOW` submissions per user and
  window, and `check_quota` (57-62) counts records and reserves nothing: submissions that
  overlap are all let in. `OnlyOverlapsExceed` says by how much.

Met while modelling, without a run of their own:

*Pipeline and scan.* After a failed fetch all the calls that waited for it request
the file at once (`main_scanner.py:297-310`). A scan cancelled while its session
closes is stored although its caller gets no result. A lost answer of `create_item`
leaves the result both in Cosmos and in a local file; the test at
`main_scanner.py:1611` expects no file after a blip.

*Findings.* The key folds the place's case and cuts title and place, so distinct resources
can merge; a duplicate of better confidence replaces one of higher severity, which can raise
the score. That is why `FreshFindingNeverHelps` speaks of findings without a twin.

*Targets.* A redirect to a blocked domain is followed: only the submitted host is compared.

*CVE data.* Rows that OSV withdraws stay in the table. An advisory of which a
package has no SEMVER range gives an empty one, which flags every version. A range that
ends in a `last_affected` or a `limit` event is taken for open at the top
(`osv_cve_sync.py:146-151`, `cve_etl.py:224-229`), so later versions are flagged, where
`cve_etl.py:73-74` explains an empty `fixed_in` as "still open at the top". A range with
several intervals keeps the last introduction and the last fix: the earlier intervals are
not flagged, and if the last is not fixed nothing is. The ETL's merge compares bounds by
`_parse_version_tuple`, to which a prerelease is its release and an unparsable version the
lowest; of bounds that tie it keeps the first, so its range is not always "the widest"
(`cve_etl.py:252-253`), and `CsvIsConservative` excepts those. semver, which OSV sorts by, and
`packaging.version`, which the scout compares by, order some prereleases differently; the
model has one order. The ETL's merge can keep an upgrade recommendation that lies inside the widened range; its
cached replies are never refreshed, and one that was torn ends every later run. The
docstring of `_parse_version_tuple` names "3.0.0-rc.1" as unparsable; it parses.

*Evaluation.* A scan that answers `{"error": ...}` is a "success" of the manifest
with a blank row; a site blocked by the SSRF check counts as
"waf_or_anti_bot_block". With a `--batch-id` used again, results that the new
manifest does not name stay in the folder and are read by the scripts that list it;
a start that dies while rewriting leaves a torn file under the old manifest, and
`aggregate_results.py` raises. `_load_sample`'s docstring (90-91) says a site is
scanned only if the CSV has it too; one it does not have is scanned without a rank.
A pass of `apply_pool_exclusions.py` compares replacements with the pool, the
blocklist and the calibration sample as they are spelled, so one spelled with "www."
can be drawn although its bare form must not be (`PassIsClean` excepts it); and as
the ai-generated stratum takes every row of its source, its only replacements are
the rows that deduplication dropped.

*Calibration, benchmark.* `run_calibration.summarize` counts incomplete scans, against its
comment (88-92); `sites_included_in_comparison` also counts sites without Mozilla's verdict.
After a case that raises, the benchmark leaves and restores the process; a case still
suspended leaves its own overrides when it is collected, and what it restores is the
benchmark's, so the flag is set again for good, against "then removed again immediately
afterward" (`runner.py:54-57`, 63-67). The offline mock is set in the module that `runner.py`
imports, while a scan loads scout 10 anew (`main_scanner.py:447-462`): no scan calls the mock,
against `runner.py:74-79` and `validation-benchmark/README.md:16`.

*Deferred parts.* "Top 3 risks (critical/high from actionable)"
(`report_generator.py:713`) takes any severity but info (729); rows merge by title alone,
across places and modules, and confidences compare as text. If the row that is kept has no
advice, that of the rows merged into it is given nowhere (134-148): `WorstAdviceIsGiven` is
about titles whose worst findings all advise something. A `create_item`
that committed and answered an error ends as `ScanJobWriteError` although the record
exists (`scan_job.py:78-79` says there is none).

## 6. Not modelled

Parsing of HTML, headers, certificates, manifests and DNS records (scouts 01, 03,
05-09 wholly: what they find is an input of `Findings`, how they fail one of
`Orchestrator`); library detection in scout 02; ciphers, certificates and missing
binaries in scout 04; address classification (an input: safe, unsafe, raises); the
local-file fallback's reader (there is none); Cosmos replicas of different age
(reads are of the latest write; the account's consistency is "session"); back-off
times (order only); the files of the pool and of the Tranco list being torn; means,
percentiles and one-off impact scripts; the benchmark's target server; markup of the
HTML report; verification of token signatures; Terraform beyond the settings that
are constants here. The deferred job record and the Worker's result would use one id
in one container; no code joins them, so neither does the model.

## 7. Plan

The secrets scout's retries and the remaining probes of scout 04, over abstract answers; the
scouts' shared pre-flight page as an input of theirs.
