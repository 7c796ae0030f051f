---------------------------- MODULE Orchestrator ----------------------------
(***************************************************************************)
(* run_scout (src/worker/main_scanner.py): one scan, from the pre-flight   *)
(* fetch to the returned result. The scouts run concurrently, each under   *)
(* wait_for; the caller may cancel the scan wherever it awaits, as the     *)
(* evaluation harness does when its outer timeout fires. A step runs from  *)
(* one await to the next.                                                  *)
(***************************************************************************)
EXTENDS Naturals

CONSTANTS
  Scouts,      \* the test_*.py files that are installed
  MaxRetries   \* PREFLIGHT_MAX_RETRIES

ASSUME RetriesAssumption == MaxRetries \in Nat

VARIABLES
  pc,        \* where run_scout is
  attempt,   \* retries of the pre-flight fetch so far
  gets,      \* pre-flight requests made
  page,      \* what the pre-flight fetch found
  loaded,    \* plugins: the scouts discover_plugins could import
  scout,     \* [Scouts -> what the wait_for around the scout is doing or gave]
  stopping,  \* the caller has cancelled the scan
  report     \* final_result as persist_scan_result was given it, or NoReport

scanVars == <<pc, attempt, gets, page, loaded, scout, stopping, report>>

\* What a scout can give: a dict with findings, one with a fatal_error, a value
\* that is no dict, an exception, a timeout.
Value == {"findings", "fatal_error", "odd", "raised", "timeout"}
Pending == {"running", "timing_out", "cancelling"}
Ended == Value \cup {"cancelled"}

Awaiting == {"fetch", "backoff", "scouts", "closing"}

NoReport == [complete |-> {}, incomplete |-> {}, reliable |-> FALSE]

ScanInit ==
  /\ pc = "fetch" /\ attempt = 0 /\ gets = 1 /\ page = "none"
  /\ loaded = {}
  /\ scout = [s \in Scouts |-> "absent"]
  /\ stopping = FALSE
  /\ report = NoReport

-----------------------------------------------------------------------------
(* The pre-flight fetch *)

\* The fetch is over: discover_plugins keeps the files that can be imported and
\* their coroutines are gathered, without an await in between. With no file left
\* there is nothing to gather, and the error dict is returned.
Discover ==
  \E p \in SUBSET Scouts :
    /\ loaded' = p
    /\ pc' = IF p = {} THEN "closing" ELSE "scouts"
    /\ scout' = [s \in Scouts |-> IF s \in p THEN "running" ELSE "absent"]

\* As RetryOrGiveUp, with "<=".
RetryOnceMore ==
  IF attempt <= MaxRetries
  THEN attempt' = attempt + 1 /\ pc' = "backoff" /\ UNCHANGED <<page, loaded, scout>>
  ELSE page' = "unreachable" /\ Discover /\ UNCHANGED attempt

\* The except branch of a timeout or a connection error.
RetryOrGiveUp ==
  IF attempt < MaxRetries
  THEN attempt' = attempt + 1 /\ pc' = "backoff" /\ UNCHANGED <<page, loaded, scout>>
  ELSE page' = "unreachable" /\ Discover /\ UNCHANGED attempt

\* As Responds, with a challenge page treated as transient.
RespondsOrRetries ==
  /\ pc = "fetch"
  /\ \/ page' = "representative" /\ Discover /\ UNCHANGED attempt
     \/ /\ page' = "challenge"
        /\ IF attempt < MaxRetries
           THEN attempt' = attempt + 1 /\ pc' = "backoff" /\ UNCHANGED <<loaded, scout>>
           ELSE Discover /\ UNCHANGED attempt
  /\ UNCHANGED <<gets, stopping, report>>

\* Any response that can be read to its end ends the fetch: a WAF's page or an
\* error status is a result.
Responds ==
  /\ pc = "fetch"
  /\ page' \in {"representative", "challenge"}
  /\ Discover
  /\ UNCHANGED <<attempt, gets, stopping, report>>

TransientError ==
  /\ pc = "fetch"
  /\ RetryOrGiveUp
  /\ UNCHANGED <<gets, stopping, report>>

OtherError ==
  /\ pc = "fetch"
  /\ page' = "error"
  /\ Discover
  /\ UNCHANGED <<attempt, gets, stopping, report>>

\* The resolver refused the address of the target, or of a redirect.
Refused ==
  /\ pc = "fetch"
  /\ page' = "blocked" /\ pc' = "closing"
  /\ UNCHANGED <<attempt, gets, loaded, scout, stopping, report>>

BackoffEnds ==
  /\ pc = "backoff"
  /\ pc' = "fetch" /\ gets' = gets + 1
  /\ UNCHANGED <<attempt, page, loaded, scout, stopping, report>>

-----------------------------------------------------------------------------
(* The scouts *)

\* The scout's coroutine ends by itself, at the last moment even while its
\* wait_for is cancelling it: wait_for then gives its value all the same.
ScoutEnds(s) ==
  /\ scout[s] \in Pending
  /\ \E v \in Value \ {"timeout"} : scout' = [scout EXCEPT ![s] = v]
  /\ UNCHANGED <<pc, attempt, gets, page, loaded, stopping, report>>

\* As ScoutExpires, with no limit.
ScoutUnlimited(s) ==
  /\ scout[s] = "timing_out"
  /\ UNCHANGED scanVars

\* The scout's time is over: wait_for cancels it and waits for it to end.
ScoutExpires(s) ==
  /\ scout[s] = "running"
  /\ scout' = [scout EXCEPT ![s] = "timing_out"]
  /\ UNCHANGED <<pc, attempt, gets, page, loaded, stopping, report>>

\* The cancelled scout is gone: a TimeoutError, which _timed returns as a value,
\* or the CancelledError of the whole scan, which it does not catch.
ScoutCancelled(s) ==
  /\ scout[s] \in {"timing_out", "cancelling"}
  /\ scout' = [scout EXCEPT ![s] = IF @ = "timing_out" THEN "timeout" ELSE "cancelled"]
  /\ UNCHANGED <<pc, attempt, gets, page, loaded, stopping, report>>

Complete == {s \in loaded : scout[s] = "findings"}

\* gather returned, and everything to the end of persist_scan_result follows
\* without an await: only a scout that gave findings counts as run, and the
\* grade is reliable if as many ran as were loaded.
Report ==
  /\ pc' = "closing"
  /\ report' = [complete |-> Complete, incomplete |-> loaded \ Complete,
                reliable |-> page = "representative" /\ Complete = loaded]
  /\ UNCHANGED <<attempt, gets, page, loaded, scout, stopping>>

\* As Collate, with a _timed that returns a CancelledError like any exception,
\* and a gather that takes it for a result.
CollateCancelled ==
  /\ pc = "scouts"
  /\ \A s \in loaded : scout[s] \in Ended
  /\ Report

\* As Collate, without waiting for scouts that are being cancelled.
CollateEarly ==
  /\ pc = "scouts" /\ ~stopping
  /\ \A s \in loaded : scout[s] # "running"
  /\ Report

Collate ==
  /\ pc = "scouts" /\ ~stopping
  /\ \A s \in loaded : scout[s] \in Ended
  /\ Report

\* The session is closed and run_scout returns what it has: the result, the
\* blocked_ssrf dict or the error dict.
Close ==
  /\ pc = "closing"
  /\ pc' = "returned"
  /\ UNCHANGED <<attempt, gets, page, loaded, scout, stopping, report>>

-----------------------------------------------------------------------------
(* Cancellation by the caller *)

\* Where the scan fetches, waits or closes, it ends at once (even with its result
\* stored); gather passes the cancellation on to every scout that has not ended.
CallerCancels ==
  /\ pc \in Awaiting /\ ~stopping
  /\ stopping' = TRUE
  /\ pc' = IF pc = "scouts" THEN pc ELSE "cancelled"
  /\ scout' = [s \in Scouts |-> IF scout[s] \in Pending THEN "cancelling" ELSE scout[s]]
  /\ UNCHANGED <<attempt, gets, page, loaded, report>>

\* A cancelled gather raises as soon as one scout was cancelled, or when all
\* have ended, even if each of them gave a value.
GatherRaises ==
  /\ pc = "scouts" /\ stopping
  /\ \/ \E s \in loaded : scout[s] = "cancelled"
     \/ \A s \in loaded : scout[s] \in Ended
  /\ pc' = "cancelled"
  /\ UNCHANGED <<attempt, gets, page, loaded, scout, stopping, report>>

-----------------------------------------------------------------------------
Preflight == Responds \/ TransientError \/ OtherError \/ Refused \/ BackoffEnds

ScanNext == \/ Preflight \/ Collate \/ Close \/ CallerCancels \/ GatherRaises
        \/ \E s \in Scouts : ScoutEnds(s) \/ ScoutExpires(s) \/ ScoutCancelled(s)

ScanSpec == ScanInit /\ [][ScanNext]_scanVars

\* Requests have a total timeout and back-offs end; the timer of a scout that does
\* not end fires, and a scout that is being cancelled ends. Nobody has to cancel.
ScanFairness ==
  /\ WF_scanVars(Preflight) /\ WF_scanVars(Collate) /\ WF_scanVars(Close) /\ WF_scanVars(GatherRaises)
  /\ \A s \in Scouts : WF_scanVars(ScoutExpires(s)) /\ WF_scanVars(ScoutCancelled(s))

ScanFairSpec == ScanSpec /\ ScanFairness

-----------------------------------------------------------------------------
\* The types of a scan's control state.
ScanTypeOK ==
  /\ pc \in Awaiting \cup {"returned", "cancelled"}
  /\ attempt \in 0..MaxRetries
  /\ gets \in Nat
  /\ page \in {"none", "representative", "challenge", "unreachable", "error", "blocked"}
  /\ loaded \subseteq Scouts
  /\ scout \in [Scouts -> {"absent"} \cup Pending \cup Ended]
  /\ stopping \in BOOLEAN
  /\ report \in [complete : SUBSET Scouts, incomplete : SUBSET Scouts, reliable : BOOLEAN]

\* A target is given up as unreachable only after every retry, and while the
\* page is open each retry has cost one request: never one more than the limit.
PreflightIsExact ==
  /\ pc = "backoff" => gets = attempt
  /\ pc # "backoff" /\ pc # "cancelled" => gets = attempt + 1
  /\ page = "unreachable" => gets = MaxRetries + 1

\* Only a timeout or a connection error is retried: a response, be it a WAF's
\* block page, and a refused address are final, as the docstring of
\* fetch_main_page_and_analyze says.
AnswerIsFinal == [][page # "none" => page' = page /\ gets' = gets]_scanVars

\* A scout is still using the session only before the result is persisted, and
\* the result has an entry for each scout that was loaded: timed out, raised or
\* odd ones are incomplete and the others keep their findings.
ReportCoversLoaded ==
  report # NoReport =>
    /\ \A s \in Scouts : scout[s] \notin Pending
    /\ \A s \in loaded : IF scout[s] = "findings" THEN s \in report.complete
                                                ELSE s \in report.incomplete
    /\ report.complete \cup report.incomplete = loaded

\* From its cancellation on a scan stores nothing and returns nothing: a scout's
\* own timeout is a value for the result, the caller's is not.
CancelledStoresNothing == [][stopping => report' = report /\ pc' # "returned"]_scanVars

\* Every scan comes to an end, whatever fails or is cancelled.
ScanEnds == <>(pc \in {"returned", "cancelled"})

\* compute_bravo6_score's docstring: "a confident-looking grade can no longer be
\* produced from a scan that examined little of the target". Here: a reliable
\* grade stands for all the scouts there are.
ReliableGradeIsCovered == report.reliable => report.complete = Scouts
=============================================================================
