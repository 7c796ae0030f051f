------------------------- MODULE OrchestratorProofs -------------------------
(***************************************************************************)
(* The safety properties of Orchestrator for any scouts and any number of  *)
(* retries.                                                                *)
(***************************************************************************)
EXTENDS Orchestrator, TLAPS

\* The phases of a scan: an open fetch has no page and no scouts, only loaded
\* scouts run, nothing is stored before they are collated, and a cancelled scan
\* is one whose scouts are being cancelled, or over.
PhaseInv ==
  /\ pc \in {"fetch", "backoff"} => page = "none"
  /\ \A s \in Scouts : s \notin loaded => scout[s] = "absent"
  /\ pc \in {"fetch", "backoff", "scouts"} => report = NoReport
  /\ stopping => pc \in {"scouts", "cancelled"}

ScanInv == ScanTypeOK /\ PhaseInv /\ PreflightIsExact /\ ReportCoversLoaded

\* A step that ends the fetch moves to the scouts, or past them if there are none.
LEMMA DiscoverEffect ==
  ASSUME ScanTypeOK, Discover
  PROVE  /\ loaded' \subseteq Scouts
         /\ scout' \in [Scouts -> {"absent", "running"}]
         /\ pc' \in {"scouts", "closing"}
         /\ \A s \in Scouts : s \notin loaded' => scout'[s] = "absent"
BY DEF ScanTypeOK, Discover

LEMMA FetchStep ==
  ASSUME ScanInv, Preflight
  PROVE  ScanInv'
<1> USE RetriesAssumption DEF ScanInv, Pending, Ended, Value, Awaiting
<1>1. pc \in {"fetch", "backoff"} /\ report = NoReport /\ page = "none" /\ stopping = FALSE
  BY DEF Preflight, Responds, TransientError, OtherError, Refused, BackoffEnds, PhaseInv, ScanTypeOK
<1>2. ASSUME pc = "fetch", Discover, page' \in {"representative", "challenge", "error"},
             UNCHANGED <<attempt, gets, stopping, report>>
      PROVE  ScanInv'
  BY <1>1, <1>2, DiscoverEffect DEF ScanTypeOK, PhaseInv, PreflightIsExact, ReportCoversLoaded
<1>3. CASE Responds
  BY <1>2, <1>3 DEF Responds
<1>4. CASE OtherError
  BY <1>2, <1>4 DEF OtherError
<1>5. CASE TransientError
  <2>1. pc = "fetch" /\ UNCHANGED <<gets, stopping, report>> /\ RetryOrGiveUp
    BY <1>5 DEF TransientError
  <2>2. CASE attempt < MaxRetries
    <3>1. attempt' = attempt + 1 /\ pc' = "backoff" /\ UNCHANGED <<page, loaded, scout>>
      BY <2>1, <2>2 DEF RetryOrGiveUp
    <3> QED  BY <1>1, <2>1, <2>2, <3>1 DEF ScanTypeOK, PhaseInv, PreflightIsExact, ReportCoversLoaded
  <2>3. CASE ~(attempt < MaxRetries)
    <3>1. page' = "unreachable" /\ Discover /\ UNCHANGED attempt
      BY <2>1, <2>3 DEF RetryOrGiveUp
    <3>2. attempt = MaxRetries
      BY <2>3 DEF ScanTypeOK
    <3> QED  BY <1>1, <2>1, <3>1, <3>2, DiscoverEffect
             DEF ScanTypeOK, PhaseInv, PreflightIsExact, ReportCoversLoaded
  <2> QED  BY <2>2, <2>3
<1>6. CASE Refused
  BY <1>1, <1>6 DEF Refused, ScanTypeOK, PhaseInv, PreflightIsExact, ReportCoversLoaded
<1>7. CASE BackoffEnds
  BY <1>1, <1>7 DEF BackoffEnds, ScanTypeOK, PhaseInv, PreflightIsExact, ReportCoversLoaded
<1> QED  BY <1>3, <1>4, <1>5, <1>6, <1>7 DEF Preflight

\* A scout that moves was pending, so no result is stored yet.
LEMMA ScoutStep ==
  ASSUME ScanInv, NEW s \in Scouts, ScoutEnds(s) \/ ScoutExpires(s) \/ ScoutCancelled(s)
  PROVE  ScanInv'
<1> USE DEF ScanInv, Pending, Ended, Value, Awaiting
<1>1. scout[s] \in Pending /\ UNCHANGED <<pc, attempt, gets, page, loaded, stopping, report>>
  BY DEF ScoutEnds, ScoutExpires, ScoutCancelled
<1>2. PICK v \in Pending \cup Ended : scout' = [scout EXCEPT ![s] = v]
  BY DEF ScoutEnds, ScoutExpires, ScoutCancelled
<1>3. report = NoReport /\ s \in loaded
  BY <1>1 DEF ReportCoversLoaded, PhaseInv
<1> QED  BY <1>1, <1>2, <1>3 DEF ScanTypeOK, PhaseInv, PreflightIsExact, ReportCoversLoaded

LEMMA CollateStep ==
  ASSUME ScanInv, Collate
  PROVE  ScanInv'
<1> USE DEF ScanInv, Pending, Ended, Value, Awaiting
<1>1. /\ pc = "scouts" /\ pc' = "closing" /\ stopping = FALSE
      /\ \A s \in loaded : scout[s] \in Ended
      /\ UNCHANGED <<attempt, gets, page, loaded, scout, stopping>>
  BY DEF Collate, Report, ScanTypeOK
<1>2. /\ report'.complete = Complete /\ report'.incomplete = loaded \ Complete
      /\ report' \in [complete : SUBSET Scouts, incomplete : SUBSET Scouts, reliable : BOOLEAN]
  <2>1. Complete \subseteq Scouts /\ loaded \subseteq Scouts
    BY DEF Complete, ScanTypeOK
  <2>2. (page = "representative" /\ Complete = loaded) \in BOOLEAN
    OBVIOUS
  <2> QED  BY <2>1, <2>2 DEF Collate, Report
<1>3. ScanTypeOK' /\ PhaseInv' /\ PreflightIsExact'
  BY <1>1, <1>2 DEF ScanTypeOK, PhaseInv, PreflightIsExact
<1>4. ReportCoversLoaded'
  BY <1>1, <1>2 DEF ReportCoversLoaded, Complete, PhaseInv, ScanTypeOK
<1> QED  BY <1>3, <1>4

LEMMA CancelStep ==
  ASSUME ScanInv, CallerCancels \/ GatherRaises \/ Close
  PROVE  ScanInv'
<1> USE DEF ScanInv, Pending, Ended, Value, Awaiting
<1>1. CASE CallerCancels
  <2>1. scout' \in [Scouts -> {"absent"} \cup Pending \cup Ended]
    BY <1>1 DEF CallerCancels, ScanTypeOK
  <2>2. \A s \in Scouts : scout[s] \notin Pending => scout'[s] = scout[s]
    BY <1>1 DEF CallerCancels
  <2>3. ScanTypeOK' /\ PhaseInv' /\ PreflightIsExact'
    BY <1>1, <2>1, <2>2 DEF CallerCancels, ScanTypeOK, PhaseInv, PreflightIsExact
  <2>4. ReportCoversLoaded'
    BY <1>1, <2>2 DEF CallerCancels, ReportCoversLoaded, ScanTypeOK
  <2> QED  BY <2>3, <2>4
<1>2. CASE GatherRaises
  BY <1>2 DEF GatherRaises, ScanTypeOK, PhaseInv, PreflightIsExact, ReportCoversLoaded
<1>3. CASE Close
  BY <1>3 DEF Close, ScanTypeOK, PhaseInv, PreflightIsExact, ReportCoversLoaded
<1> QED  BY <1>1, <1>2, <1>3

\* The phases of a scan are kept apart by every step.
THEOREM ScanInvHolds == ScanSpec => []ScanInv
<1>1. ScanInit => ScanInv
  <2> SUFFICES ASSUME ScanInit PROVE ScanInv
    OBVIOUS
  <2>1. ScanTypeOK
    <3>1. attempt \in 0..MaxRetries /\ gets \in Nat
      BY RetriesAssumption DEF ScanInit
    <3>5. stopping \in BOOLEAN
      BY Zenon DEF ScanInit
    <3>2. report \in [complete : SUBSET Scouts, incomplete : SUBSET Scouts, reliable : BOOLEAN]
      BY DEF ScanInit, NoReport
    <3>3. scout \in [Scouts -> {"absent"} \cup Pending \cup Ended]
      BY DEF ScanInit
    <3>4. pc \in Awaiting /\ loaded \subseteq Scouts /\ page = "none"
      BY DEF ScanInit, Awaiting
    <3> QED  BY <3>1, <3>2, <3>3, <3>4, <3>5 DEF ScanTypeOK
  <2>2. PhaseInv /\ PreflightIsExact /\ ReportCoversLoaded
    BY DEF ScanInit, PhaseInv, PreflightIsExact, ReportCoversLoaded
  <2> QED  BY <2>1, <2>2 DEF ScanInv
<1>2. ScanInv /\ [ScanNext]_scanVars => ScanInv'
  <2> SUFFICES ASSUME ScanInv, [ScanNext]_scanVars PROVE ScanInv'
    OBVIOUS
  <2>1. CASE UNCHANGED scanVars
    BY <2>1 DEF scanVars, ScanInv, ScanTypeOK, PhaseInv, PreflightIsExact, ReportCoversLoaded
  <2> QED  BY <2>1, FetchStep, ScoutStep, CollateStep, CancelStep DEF ScanNext
<1> QED  BY <1>1, <1>2, PTL DEF ScanSpec

\* The control state of a scan has its types, for any scouts and retries.
THEOREM ScanTypes == ScanSpec => []ScanTypeOK
BY ScanInvHolds, PTL DEF ScanInv

\* The pre-flight fetch makes exactly one request per retry counted.
THEOREM PreflightCounts == ScanSpec => []PreflightIsExact
BY ScanInvHolds, PTL DEF ScanInv

\* A stored result has an entry for every loaded scout, and none still runs.
THEOREM ReportIsWhole == ScanSpec => []ReportCoversLoaded
BY ScanInvHolds, PTL DEF ScanInv

\* Nothing is requested again once the pre-flight fetch has an answer.
THEOREM AnswersAreFinal == ScanSpec => AnswerIsFinal
<1>1. ScanInv /\ [ScanNext]_scanVars => [page # "none" => page' = page /\ gets' = gets]_scanVars
  BY DEF ScanInv, PhaseInv, ScanNext, Preflight, Responds, TransientError, OtherError, Refused,
         BackoffEnds, Collate, Report, Close, CallerCancels, GatherRaises, ScoutEnds,
         ScoutExpires, ScoutCancelled, scanVars
<1> QED  BY <1>1, ScanInvHolds, PTL DEF ScanSpec, AnswerIsFinal

\* A cancelled scan stores and returns nothing from its cancellation on.
THEOREM CancelledIsSilent == ScanSpec => CancelledStoresNothing
<1>1. ScanInv /\ [ScanNext]_scanVars => [stopping => report' = report /\ pc' # "returned"]_scanVars
  BY DEF ScanInv, PhaseInv, ScanNext, Preflight, Responds, TransientError, OtherError, Refused,
         BackoffEnds, Collate, Report, Close, CallerCancels, GatherRaises, ScoutEnds,
         ScoutExpires, ScoutCancelled, scanVars
<1> QED  BY <1>1, ScanInvHolds, PTL DEF ScanSpec, CancelledStoresNothing
=============================================================================
