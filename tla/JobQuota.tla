------------------------------ MODULE JobQuota ------------------------------
(***************************************************************************)
(* The deferred front door (future-work/auth): who a request comes from,   *)
(* how many scans that user has had in the rolling window, the job's       *)
(* record in Cosmos, and who may read it.  The handler that called these   *)
(* functions is gone; what is left fixes the order of the calls, as each   *)
(* needs what the one before returns.                                      *)
(***************************************************************************)
EXTENDS Integers, FiniteSets

CONSTANTS
  Requests,     \* submissions
  Header,       \* [request -> its Authorization header]
  QuotaLimit,   \* MAX_SCANS_PER_WINDOW
  Window,       \* WINDOW_SECONDS
  WriteTries,   \* COSMOS_WRITE_MAX_ATTEMPTS
  MaxClock,
  AuthError

ASSUME JobQuotaAssumption ==
  /\ QuotaLimit \in Nat \ {0} /\ Window \in Nat /\ WriteTries \in Nat \ {0}
  /\ MaxClock \in Nat

\* Of a submission: where it is, when its quota was checked, when it was submitted, its
\* failed attempts. Its turn among those let in, and who of the same user was under way
\* beside it when it was let in, are history: no guard reads them, nor turns.
VARIABLES clock,
          submission,
          documents,   \* the requests that have a record in Cosmos
          turns        \* how many have been let in
quotaVars == <<clock, submission, documents, turns>>

-----------------------------------------------------------------------------
(* Who asks *)

\* extract_bearer_token and validate_jwt: whatever goes wrong is an AuthError.
Subject(header) ==
  IF header.bearer /\ header.valid /\ header.sub # "" THEN header.sub ELSE AuthError

\* The Report Function has a copy of its own.
ReportSubject(header) ==
  IF header.bearer /\ header.valid /\ header.sub # "" THEN header.sub ELSE AuthError

Owner(r) == Subject(Header[r])

-----------------------------------------------------------------------------
(* Quota *)

\* The user's recorded jobs that were submitted in the window that ends now.
CountRecentScans(user) ==
  Cardinality({r \in documents : Owner(r) = user /\ submission[r].at >= clock - Window})

Allowed(user) == CountRecentScans(user) < QuotaLimit

-----------------------------------------------------------------------------
(* A submission *)

New == [pc |-> "new", checked |-> 0, at |-> 0, tries |-> 0, turn |-> 0, beside |-> {}]

\* Let in, and not recorded yet.
UnderWay(user) ==
  {s \in Requests \ documents : submission[s].pc \in {"allowed", "writing"} /\ Owner(s) = user}

QuotaInit ==
  /\ clock = 0 /\ turns = 0
  /\ submission = [r \in Requests |-> New]
  /\ documents = {}

\* Without a valid token nothing else is done.
Authenticates(r) ==
  /\ submission[r].pc = "new"
  /\ submission' = [submission EXCEPT ![r].pc = IF Owner(r) = AuthError THEN "unauthorized" ELSE "known"]
  /\ UNCHANGED <<clock, documents, turns>>

\* check_quota counts; nothing is reserved.
LetIn(r) ==
  /\ submission[r].pc = "known" /\ Allowed(Owner(r))
  /\ submission' = [submission EXCEPT ![r] =
                       [@ EXCEPT !.pc = "allowed", !.checked = clock, !.turn = turns, !.beside = UnderWay(Owner(r))]]
  /\ turns' = turns + 1
  /\ UNCHANGED <<clock, documents>>

Refused(r) ==
  /\ submission[r].pc = "known" /\ ~Allowed(Owner(r))
  /\ submission' = [submission EXCEPT ![r] = [@ EXCEPT !.pc = "refused", !.checked = clock]]
  /\ UNCHANGED <<clock, documents, turns>>

ChecksQuota(r) == LetIn(r) \/ Refused(r)

NewScanJob(r) ==
  /\ submission[r].pc = "allowed"
  /\ submission' = [submission EXCEPT ![r].pc = "writing", ![r].at = clock]
  /\ UNCHANGED <<clock, documents, turns>>

\* create_item answers; a record that is there already is a conflict.
WriteSucceeds(r) ==
  /\ submission[r].pc = "writing" /\ r \notin documents
  /\ submission' = [submission EXCEPT ![r].pc = "recorded", ![r].tries = 0]
  /\ documents' = documents \cup {r}
  /\ UNCHANGED <<clock, turns>>

\* As WriteFails, with the local copy as good as the record.
WriteFailsToCopy(r) ==
  /\ submission[r].pc = "writing"
  /\ submission' = [submission EXCEPT ![r] =
                       IF @.tries + 1 < WriteTries THEN [@ EXCEPT !.tries = submission[r].tries + 1]
                       ELSE [@ EXCEPT !.pc = "recorded", !.tries = 0]]
  /\ documents' \in {documents, documents \cup {r}}
  /\ UNCHANGED <<clock, turns>>

\* It answers with an error, of the record that is there already or of a write that
\* may have happened all the same; after the last attempt ScanJobWriteError is
\* raised, whether or not a local copy could be saved.
WriteFails(r) ==
  /\ submission[r].pc = "writing"
  /\ submission' = [submission EXCEPT ![r] =
                       IF @.tries + 1 < WriteTries THEN [@ EXCEPT !.tries = submission[r].tries + 1]
                       ELSE [@ EXCEPT !.pc = "failed", !.tries = 0]]
  /\ documents' \in {documents, documents \cup {r}}
  /\ UNCHANGED <<clock, turns>>

\* It does not answer: what is no CosmosHttpResponseError is not retried.
WriteEscapes(r) ==
  /\ submission[r].pc = "writing"
  /\ submission' = [submission EXCEPT ![r].pc = "failed", ![r].tries = 0]
  /\ documents' \in {documents, documents \cup {r}}
  /\ UNCHANGED <<clock, turns>>

TimePasses ==
  /\ clock < MaxClock
  /\ clock' = clock + 1
  /\ UNCHANGED <<submission, documents, turns>>

QuotaNext ==
  \/ TimePasses
  \/ \E r \in Requests :
       \/ Authenticates(r) \/ ChecksQuota(r) \/ NewScanJob(r)
       \/ WriteSucceeds(r) \/ WriteFails(r) \/ WriteEscapes(r)

QuotaSpec == QuotaInit /\ [][QuotaNext]_quotaVars

-----------------------------------------------------------------------------
\* What the Report Function answers to a reader of job r: load_owned_scan.
LoadOwnedScan(header, r) ==
  IF ReportSubject(header) = AuthError THEN 401
  ELSE IF r \notin documents THEN 404
  ELSE IF Owner(r) # ReportSubject(header) THEN 403
  ELSE 200

-----------------------------------------------------------------------------
\* The recorded scans of a user in the window that ends with scan r.
WindowOf(r) ==
  {s \in documents : Owner(s) = Owner(r) /\ submission[s].at \in submission[r].at - Window .. submission[r].at}

\* "Rule: at most MAX_SCANS_PER_WINDOW scan submissions per user within a rolling
\* WINDOW_SECONDS window" (quota.py:16-17).
AtMostQuotaPerWindow == \A r \in documents : Cardinality(WindowOf(r)) <= QuotaLimit

\* What becomes of that rule: nothing is reserved between the count and the record, so a
\* window may hold more scans than the limit; but whatever is over it was under way
\* beside one scan of the window when that one was let in.
OnlyOverlapsExceed ==
  \A r \in documents : \E q \in WindowOf(r) :
    Cardinality(WindowOf(r)) <= QuotaLimit + Cardinality(WindowOf(r) \cap submission[q].beside)

\* Nobody is refused for somebody else's scans, or for those that left the window.
RefusedHadTheirScans ==
  \A r \in Requests : submission[r].pc = "refused" =>
    QuotaLimit <= Cardinality({s \in documents : /\ Owner(s) = Owner(r)
                                                 /\ submission[s].at >= submission[r].checked - Window
                                                 /\ submission[s].at <= submission[r].checked})

\* A job that was recorded for its caller is counted, and its status is given to
\* its owner and to nobody else; one without a token leaves no record.
RecordedIsTheOwners ==
  \A r \in Requests :
    /\ submission[r].pc = "recorded" =>
         \A s \in Requests : LoadOwnedScan(Header[s], r) = 200 <=> Owner(s) = Owner(r)
    /\ r \in documents => Owner(r) # AuthError

\* What write_scan_job and check_quota promise each other: a recorded job never
\* escapes a later count, a refusal was earned, and the limit is exceeded only by
\* submissions that overlapped (quota.py:48-62, scan_job.py:83-157).
QuotaIsKept == OnlyOverlapsExceed /\ RefusedHadTheirScans /\ RecordedIsTheOwners

-----------------------------------------------------------------------------
Submission ==
  [pc : {"new", "unauthorized", "known", "allowed", "refused", "writing", "recorded", "failed"},
   checked : Nat, at : Nat, tries : 0..(WriteTries - 1), turn : Nat, beside : SUBSET Requests]

\* Its types; the records are finitely many.
QuotaTypeOK ==
  /\ clock \in 0..MaxClock /\ turns \in Nat
  /\ submission \in [Requests -> Submission]
  /\ documents \subseteq Requests /\ IsFiniteSet(documents)

\* Those that were let in, whatever became of them.
Passed == {r \in Requests : submission[r].pc \in {"allowed", "writing", "recorded", "failed"}}

\* A record is that of a known caller's submission, which was made in the past and
\* has reached create_item; one that was answered is there.
RecordInv ==
  /\ \A r \in documents :
       submission[r].pc \in {"writing", "recorded", "failed"} /\ submission[r].at <= clock
  /\ \A r \in Requests :
       /\ submission[r].pc = "writing" => submission[r].at <= clock
       /\ submission[r].pc = "refused" => submission[r].checked <= clock
       /\ submission[r].pc = "recorded" => r \in documents
       /\ submission[r].pc = "known" \/ r \in Passed => Owner(r) # AuthError

\* The records that the check of q counted and that are in its window.
CountedBy(q) ==
  {s \in documents : /\ Owner(s) = Owner(q) /\ submission[s].at >= submission[q].checked - Window
                     /\ submission[s].turn < submission[q].turn /\ s \notin submission[q].beside}

\* Why OnlyOverlapsExceed: every one let in has a turn of its own, and of those before it
\* one that is, or may come to be, recorded was either counted, and they were fewer than
\* the limit, or under way.
TurnInv ==
  /\ \A q \in Passed :
       /\ submission[q].turn < turns /\ submission[q].checked <= clock
       /\ submission[q].pc # "allowed" => submission[q].checked <= submission[q].at
       /\ Cardinality(CountedBy(q)) < QuotaLimit
  /\ \A q, s \in Passed :
       /\ submission[q].turn = submission[s].turn => q = s
       /\ submission[s].turn < submission[q].turn /\ Owner(s) = Owner(q) =>
            submission[s].pc = "failed" \/ s \in documents \cup submission[q].beside
=============================================================================
