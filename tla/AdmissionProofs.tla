-------------------------- MODULE AdmissionProofs ---------------------------
(***************************************************************************)
(* What is let in, for any values of the constants.                        *)
(*                                                                         *)
(* Part 1, TargetSafety: whatever DNS and redirects answer, a session      *)
(* connects to checked addresses only.                                     *)
(* Part 2, JobQuota: what lets submissions exceed the quota, and who is    *)
(* refused or answered.                                                    *)
(***************************************************************************)
EXTENDS TargetSafety, JobQuota, FiniteSetTheorems, WellFoundedInduction, TLAPS

FetchActs(f) == \/ Sends(f) \/ Fails(f) \/ Answers(f)
                \/ ResolvesName(f) \/ ResolvesLiteral(f) \/ Connects(f) \/ Reuses(f)

\* Only request f becomes something else, namely r.
Becomes(f, r) == fetch' = [fetch EXCEPT ![f] = r]

\* The host an idle request has is a host, if there is one.
LEMMA IdleIsTyped ==
  ASSUME Hosts # {}
  PROVE  Idle \in Fetch
<1>1. (CHOOSE h \in Hosts : TRUE) \in Hosts
  OBVIOUS
<1> QED BY <1>1, TargetAssumption DEF Idle, Fetch

\* What a step of a request makes of it; whatever is chosen or cached was checked.
LEMMA FetchStep ==
  ASSUME TargetTypeOK, AddressInv, NEW f \in Fetches, FetchActs(f)
  PROVE  \E r \in Fetch :
           /\ Becomes(f, r) /\ (\A a \in r.answers : IsIpSafe(a)) /\ target' = target
           /\ cached' \in [HostNames -> SUBSET Addresses]
           /\ \A n \in HostNames : \A a \in cached'[n] : IsIpSafe(a)
           /\ connections' = connections
              \/ (\E a \in Addresses : IsIpSafe(a) /\ connections' = connections \cup {<<r.host, a>>})
           /\ stage' = stage \/ (r = Idle /\ stage' = "scanning")
              \/ (r = Idle /\ stage = "preflight" /\ stage' = "blocked")
<1> USE TargetAssumption DEF TargetTypeOK, AddressInv, Becomes
<1>1. Idle \in Fetch /\ Idle.answers = {}
  BY IdleIsTyped DEF Idle
<1>2. HostNames \subseteq Hosts /\ Addresses \subseteq Hosts
  BY DEF Hosts
<1>3. fetch[f] \in Fetch
  OBVIOUS
<1> HIDE DEF Idle
<1>4. CASE Sends(f)
  <2>1. PICK h \in Hosts : fetch' = [fetch EXCEPT ![f] = [@ EXCEPT !.pc = "resolving", !.host = h]]
    BY <1>4 DEF Sends
  <2> DEFINE r == [fetch[f] EXCEPT !.pc = "resolving", !.host = h]
  <2>2. r \in Fetch /\ r.answers = fetch[f].answers
    BY <1>3 DEF Fetch
  <2> QED BY <1>4, <2>1, <2>2 DEF Sends
<1>5. CASE Fails(f)
  BY <1>1, <1>5 DEF Fails, Finishes
<1>6. CASE Answers(f)
  <2>1. CASE Finishes(f) /\ stage' = "scanning"
    BY <1>1, <1>6, <2>1 DEF Answers, Finishes
  <2>2. ASSUME fetch[f].hops < MaxRedirects, UNCHANGED stage, NEW h \in Hosts,
          fetch' = [fetch EXCEPT ![f] = [@ EXCEPT !.pc = "resolving", !.host = h, !.hops = fetch[f].hops + 1]]
        PROVE  \E r \in Fetch : Becomes(f, r) /\ (\A a \in r.answers : IsIpSafe(a)) /\ stage' = stage
    <3> DEFINE n == fetch[f].hops + 1
               q == [fetch[f] EXCEPT !.pc = "resolving", !.host = h]
               r == [q EXCEPT !.hops = n]
    <3>1. fetch[f].hops \in 0..MaxRedirects
      BY <1>3 DEF Fetch
    <3>2. n \in 0..MaxRedirects
      BY <2>2, <3>1
    <3>3. q \in Fetch /\ q.answers = fetch[f].answers
      BY <1>3 DEF Fetch
    <3>4. Becomes(f, r)
      BY <2>2
    <3> HIDE DEF n, q
    <3>5. r \in Fetch /\ r.answers = q.answers
      BY <3>2, <3>3 DEF Fetch
    <3> QED BY <2>2, <3>3, <3>4, <3>5
  <2> QED BY <1>6, <2>1, <2>2 DEF Answers
<1>7. ASSUME Blocked(f)
      PROVE  /\ Becomes(f, Idle) /\ UNCHANGED <<target, cached, connections>>
             /\ stage' = stage \/ (stage = "preflight" /\ stage' = "blocked")
  BY <1>7 DEF Blocked, Finishes
<1>8. ASSUME NEW answers \in SUBSET Addresses, Resolved(f, answers),
             \A a \in answers : IsIpSafe(a)
      PROVE  \E r \in Fetch : /\ Becomes(f, r) /\ (\A a \in r.answers : IsIpSafe(a))
                              /\ UNCHANGED <<target, stage, connections>>
  <2> DEFINE r == [fetch[f] EXCEPT !.pc = "connecting", !.answers = answers]
  <2>1. r \in Fetch /\ r.answers = answers
    BY <1>3 DEF Fetch
  <2> QED BY <1>8, <2>1 DEF Resolved
<1>9. CASE ResolvesName(f)
  <2> DEFINE h == fetch[f].host
  <2>0. h \in HostNames
    BY <1>9 DEF ResolvesName
  <2>1. CASE Blocked(f)
    BY <1>1, <1>7, <2>1
  <2>2. CASE Resolved(f, cached[h]) /\ UNCHANGED cached
    BY <1>8, <2>0, <2>2
  <2>3. ASSUME NEW answers \in DnsAnswers, \A a \in answers : IsIpSafe(a), Resolved(f, answers),
               cached' = [cached EXCEPT ![h] = answers]
        PROVE  /\ \E r \in Fetch : /\ Becomes(f, r) /\ (\A a \in r.answers : IsIpSafe(a))
                                   /\ UNCHANGED <<target, stage, connections>>
               /\ cached' \in [HostNames -> SUBSET Addresses]
               /\ \A n \in HostNames : \A a \in cached'[n] : IsIpSafe(a)
    BY <1>8, <2>3
  <2> QED BY <1>9, <2>1, <2>2, <2>3 DEF ResolvesName
<1>10. CASE ResolvesLiteral(f)
  <2> DEFINE h == fetch[f].host
  <2>1. CASE Blocked(f)
    BY <1>1, <1>7, <2>1
  <2>2. CASE Resolved(f, {h}) /\ UNCHANGED cached /\ IsIpSafe(h) /\ h \in Addresses
    <3>1. {h} \in SUBSET Addresses /\ \A a \in {h} : IsIpSafe(a)
      BY <2>2
    <3> QED BY <1>8, <2>2, <3>1
  <2> QED BY <1>10, <2>1, <2>2 DEF ResolvesLiteral
<1>11. CASE Connects(f)
  <2> DEFINE r == [fetch[f] EXCEPT !.pc = "sent", !.answers = {}]
  <2>1. r \in Fetch /\ r.answers = {} /\ r.host = fetch[f].host
    BY <1>3 DEF Fetch
  <2>2. fetch[f].answers \subseteq Addresses
    BY <1>3 DEF Fetch
  <2> QED BY <1>11, <2>1, <2>2 DEF Connects
<1>12. CASE Reuses(f)
  <2> DEFINE r == [fetch[f] EXCEPT !.pc = "sent"]
  <2>1. r \in Fetch /\ r.answers = fetch[f].answers
    BY <1>3 DEF Fetch
  <2> QED BY <1>12, <2>1 DEF Reuses
<1> QED BY <1>4, <1>5, <1>6, <1>9, <1>10, <1>11, <1>12 DEF FetchActs

\* The state of a session has its types, and only checked addresses are in it.
LEMMA AddressesAreChecked == TargetSpec => [](TargetTypeOK /\ AddressInv)
<1>1. TargetInit => TargetTypeOK /\ AddressInv
  <2> SUFFICES ASSUME TargetInit PROVE TargetTypeOK /\ AddressInv
    OBVIOUS
  <2>1. Idle \in Fetch
    BY IdleIsTyped DEF TargetInit
  <2>2. Idle.answers = {}
    BY DEF Idle
  <2> QED BY <2>1, <2>2 DEF TargetInit, TargetTypeOK, AddressInv
<1>2. TargetTypeOK /\ AddressInv /\ [TargetNext]_targetVars => (TargetTypeOK /\ AddressInv)'
  <2> SUFFICES ASSUME TargetTypeOK, AddressInv, [TargetNext]_targetVars
               PROVE  TargetTypeOK' /\ AddressInv'
    OBVIOUS
  <2>1. CASE Submits
    BY <2>1 DEF Submits, TargetTypeOK, AddressInv
  <2>2. ASSUME NEW f \in Fetches, FetchActs(f) PROVE TargetTypeOK' /\ AddressInv'
    <3>1. PICK r \in Fetch :
            /\ Becomes(f, r) /\ (\A a \in r.answers : IsIpSafe(a)) /\ target' = target
            /\ cached' \in [HostNames -> SUBSET Addresses]
            /\ \A n \in HostNames : \A a \in cached'[n] : IsIpSafe(a)
            /\ connections' = connections
               \/ (\E a \in Addresses : IsIpSafe(a) /\ connections' = connections \cup {<<r.host, a>>})
            /\ stage' = stage \/ (r = Idle /\ stage' = "scanning")
               \/ (r = Idle /\ stage = "preflight" /\ stage' = "blocked")
      BY <2>2, FetchStep
    <3>2. /\ fetch' \in [Fetches -> Fetch]
          /\ \A g \in Fetches : \A a \in fetch'[g].answers : IsIpSafe(a)
      BY <3>1 DEF Becomes, TargetTypeOK, AddressInv
    <3>3. r.host \in Hosts
      BY DEF Fetch
    <3>4. connections' \subseteq Hosts \X Addresses /\ \A c \in connections' : IsIpSafe(c[2])
      BY <3>1, <3>3 DEF TargetTypeOK, AddressInv
    <3> QED BY <3>1, <3>2, <3>4 DEF TargetTypeOK, AddressInv
  <2>3. CASE UNCHANGED targetVars
    BY <2>3 DEF targetVars, TargetTypeOK, AddressInv
  <2> QED BY <2>1, <2>2, <2>3 DEF TargetNext, FetchActs
<1> QED BY <1>1, <1>2, PTL DEF TargetSpec

\* Only the pre-flight request runs before the scouts, and none before the blocklist
\* was passed or after the pre-flight request was blocked.
LEMMA StagesInOrder == TargetSpec => []StageInv
<1>1. TargetInit => StageInv
  BY DEF TargetInit, StageInv
<1>2. TargetTypeOK /\ AddressInv /\ StageInv /\ [TargetNext]_targetVars => StageInv'
  <2> SUFFICES ASSUME TargetTypeOK, AddressInv, StageInv, [TargetNext]_targetVars PROVE StageInv'
    OBVIOUS
  <2>1. CASE Submits
    BY <2>1 DEF Submits, StageInv, IsBlocklisted
  <2>2. ASSUME NEW f \in Fetches, FetchActs(f) PROVE StageInv'
    <3>1. PICK r \in Fetch :
            /\ Becomes(f, r) /\ target' = target
            /\ stage' = stage \/ (r = Idle /\ stage' = "scanning")
               \/ (r = Idle /\ stage = "preflight" /\ stage' = "blocked")
      BY <2>2, FetchStep
    <3>2. stage \in {"preflight", "scanning"} /\ (stage = "preflight" => f = 1)
      <4>1. fetch[f] # Idle \/ Sends(f)
        <5>1. Idle.pc = "idle"
          BY DEF Idle
        <5> QED BY <2>2, <5>1 DEF FetchActs, Fails, Answers, ResolvesName, ResolvesLiteral, Connects, Reuses
      <4> QED BY <4>1 DEF StageInv, TargetTypeOK, Sends
    <3>3. \A g \in Fetches : fetch'[g] = IF g = f THEN r ELSE fetch[g]
      BY <3>1 DEF Becomes, TargetTypeOK
    <3>4. ~IsBlocklisted(target) /\ (IsBlocklisted(target))' = IsBlocklisted(target)
      BY <3>1, <3>2 DEF StageInv, IsBlocklisted
    <3> QED BY <3>1, <3>2, <3>3, <3>4 DEF StageInv
  <2>3. CASE UNCHANGED targetVars
    BY <2>3 DEF targetVars, StageInv, IsBlocklisted
  <2> QED BY <2>1, <2>2, <2>3 DEF TargetNext, FetchActs
<1> QED BY <1>1, <1>2, AddressesAreChecked, PTL DEF TargetSpec

\* Whatever DNS and redirects say, a session connects to public addresses only, and
\* to none for a target that was refused; a blocked pre-flight leaves nothing running.
THEOREM PublicOnly == TargetSpec => []OnlyPublicIsContacted
<1>1. AddressInv /\ StageInv => OnlyPublicIsContacted
  BY DEF AddressInv, StageInv, OnlyPublicIsContacted, IsIpSafe
<1> QED BY <1>1, AddressesAreChecked, StagesInOrder, PTL

-----------------------------------------------------------------------------
(* JobQuota *)

QuotaActs(r) == \/ Authenticates(r) \/ ChecksQuota(r) \/ NewScanJob(r)
                \/ WriteSucceeds(r) \/ WriteFails(r) \/ WriteEscapes(r)

\* Submission r goes on as s.
Authenticated(r, s) ==
  /\ submission[r].pc = "new"
  /\ s.pc = "unauthorized" \/ (s.pc = "known" /\ Owner(r) # AuthError)
  /\ UNCHANGED <<documents, turns>>
Admitted(r, s) ==
  /\ submission[r].pc = "known" /\ s.pc = "allowed" /\ Allowed(Owner(r))
  /\ s.checked = clock /\ s.turn = turns /\ s.beside = UnderWay(Owner(r))
  /\ turns' = turns + 1
  /\ UNCHANGED documents
Rejected(r, s) ==
  /\ submission[r].pc = "known" /\ s.pc = "refused" /\ ~Allowed(Owner(r)) /\ s.checked = clock
  /\ UNCHANGED <<documents, turns>>
SameCheck(r, s) ==
  s.checked = submission[r].checked /\ s.turn = submission[r].turn /\ s.beside = submission[r].beside
Submitted(r, s) ==
  /\ submission[r].pc = "allowed" /\ s.pc = "writing" /\ s.at = clock
  /\ SameCheck(r, s)
  /\ UNCHANGED <<documents, turns>>
Written(r, s) ==
  /\ submission[r].pc = "writing" /\ s.pc \in {"writing", "failed", "recorded"}
  /\ s.at = submission[r].at /\ SameCheck(r, s)
  /\ documents' \in {documents, documents \cup {r}}
  /\ s.pc = "recorded" => r \in documents'
  /\ turns' = turns

Goes(r, s) ==
  Authenticated(r, s) \/ Admitted(r, s) \/ Rejected(r, s) \/ Submitted(r, s) \/ Written(r, s)

\* Every step of a submission is one of these five.
LEMMA SubmissionStep ==
  ASSUME QuotaTypeOK, NEW r \in Requests, QuotaActs(r)
  PROVE  \E s \in Submission :
           submission' = [submission EXCEPT ![r] = s] /\ clock' = clock /\ Goes(r, s)
<1> USE JobQuotaAssumption DEF Goes
<1>1. submission[r] \in Submission /\ submission \in [Requests -> Submission] /\ clock \in Nat
      /\ turns \in Nat
  BY DEF QuotaTypeOK
<1>2. CASE Authenticates(r)
  <2> DEFINE s == [submission[r] EXCEPT !.pc = IF Owner(r) = AuthError THEN "unauthorized" ELSE "known"]
  <2>1. s \in Submission
    BY <1>1 DEF Submission
  <2>2. submission' = [submission EXCEPT ![r] = s] /\ clock' = clock
    BY <1>1, <1>2 DEF Authenticates
  <2>3. Authenticated(r, s)
    BY <1>1, <1>2 DEF Authenticates, Authenticated, Submission
  <2> QED BY <2>1, <2>2, <2>3
<1>3. CASE LetIn(r)
  <2> DEFINE others == UnderWay(Owner(r))
             s == [submission[r] EXCEPT !.pc = "allowed", !.checked = clock, !.turn = turns, !.beside = others]
  <2>1. others \in SUBSET Requests
    BY DEF UnderWay
  <2>2. submission' = [submission EXCEPT ![r] = s] /\ clock' = clock
    BY <1>1, <1>3 DEF LetIn
  <2>3. /\ submission[r].pc = "known" /\ Allowed(Owner(r))
        /\ turns' = turns + 1 /\ UNCHANGED documents /\ others = UnderWay(Owner(r))
    BY <1>3 DEF LetIn
  <2> HIDE DEF others
  <2>4. s \in Submission
    BY <1>1, <2>1 DEF Submission
  <2>5. Admitted(r, s)
    BY <1>1, <2>3 DEF Admitted, Submission
  <2> QED BY <2>2, <2>4, <2>5
<1>9. CASE Refused(r)
  <2> DEFINE s == [submission[r] EXCEPT !.pc = "refused", !.checked = clock]
  <2>1. s \in Submission
    BY <1>1 DEF Submission
  <2>2. submission' = [submission EXCEPT ![r] = s] /\ clock' = clock
    BY <1>1, <1>9 DEF Refused
  <2>3. Rejected(r, s)
    BY <1>1, <1>9 DEF Refused, Rejected, Submission
  <2> QED BY <2>1, <2>2, <2>3
<1>4. CASE NewScanJob(r)
  <2> DEFINE s == [submission[r] EXCEPT !.pc = "writing", !.at = clock]
  <2>1. s \in Submission
    BY <1>1 DEF Submission
  <2>2. submission' = [submission EXCEPT ![r] = s] /\ clock' = clock
    BY <1>1, <1>4 DEF NewScanJob
  <2>3. Submitted(r, s)
    BY <1>1, <1>4 DEF NewScanJob, Submitted, SameCheck, Submission
  <2> QED BY <2>1, <2>2, <2>3
<1>5. 0 \in 0..(WriteTries - 1)
  OBVIOUS
<1>6. CASE WriteSucceeds(r)
  <2> DEFINE s == [submission[r] EXCEPT !.pc = "recorded", !.tries = 0]
  <2>1. s \in Submission
    BY <1>1, <1>5 DEF Submission
  <2>2. submission' = [submission EXCEPT ![r] = s] /\ clock' = clock
    BY <1>1, <1>6 DEF WriteSucceeds
  <2>3. Written(r, s)
    BY <1>1, <1>6 DEF WriteSucceeds, Written, SameCheck, Submission
  <2> QED BY <2>1, <2>2, <2>3
<1>7. CASE WriteFails(r)
  <2>1. CASE submission[r].tries + 1 < WriteTries
    <3> DEFINE n == submission[r].tries + 1
               s == [submission[r] EXCEPT !.tries = n]
    <3>1. n \in 0..(WriteTries - 1)
      BY <1>1, <2>1 DEF Submission
    <3>2. submission' = [submission EXCEPT ![r] = s] /\ clock' = clock
      BY <1>1, <1>7, <2>1 DEF WriteFails
    <3>3. submission[r].pc = "writing" /\ documents' \in {documents, documents \cup {r}} /\ turns' = turns
      BY <1>7 DEF WriteFails
    <3> HIDE DEF n
    <3>4. s \in Submission
      BY <1>1, <3>1 DEF Submission
    <3>5. Written(r, s)
      BY <1>1, <3>3 DEF Written, SameCheck, Submission
    <3> QED BY <3>2, <3>4, <3>5
  <2>2. CASE ~(submission[r].tries + 1 < WriteTries)
    <3> DEFINE s == [submission[r] EXCEPT !.pc = "failed", !.tries = 0]
    <3>1. s \in Submission
      BY <1>1, <1>5 DEF Submission
    <3>2. submission' = [submission EXCEPT ![r] = s] /\ clock' = clock
      BY <1>1, <1>7, <2>2 DEF WriteFails
    <3>3. Written(r, s)
      BY <1>1, <1>7 DEF WriteFails, Written, SameCheck, Submission
    <3> QED BY <3>1, <3>2, <3>3
  <2> QED BY <2>1, <2>2
<1>8. CASE WriteEscapes(r)
  <2> DEFINE s == [submission[r] EXCEPT !.pc = "failed", !.tries = 0]
  <2>1. s \in Submission
    BY <1>1, <1>5 DEF Submission
  <2>2. submission' = [submission EXCEPT ![r] = s] /\ clock' = clock
    BY <1>1, <1>8 DEF WriteEscapes
  <2>3. Written(r, s)
    BY <1>1, <1>8 DEF WriteEscapes, Written, SameCheck, Submission
  <2> QED BY <2>1, <2>2, <2>3
<1> QED BY <1>2, <1>3, <1>4, <1>6, <1>7, <1>8, <1>9 DEF QuotaActs, ChecksQuota

\* The others stay as they are, and the records stay.
LEMMA OthersStay ==
  ASSUME QuotaTypeOK, NEW r \in Requests, NEW s \in Submission,
         submission' = [submission EXCEPT ![r] = s], Goes(r, s)
  PROVE  /\ \A q \in Requests : submission'[q] = IF q = r THEN s ELSE submission[q]
         /\ documents \subseteq documents' /\ documents' \subseteq Requests /\ IsFiniteSet(documents')
<1>1. \A q \in Requests : submission'[q] = IF q = r THEN s ELSE submission[q]
  BY DEF QuotaTypeOK
<1>2. IsFiniteSet(documents \cup {r})
  BY FS_AddElement DEF QuotaTypeOK
<1> QED BY <1>1, <1>2 DEF QuotaTypeOK, Goes, Authenticated, Admitted, Rejected, Submitted, Written

\* The state has its types, and the records are finitely many.
THEOREM QuotaTypeCorrect == QuotaSpec => []QuotaTypeOK
<1> USE JobQuotaAssumption
<1>1. QuotaInit => QuotaTypeOK
  <2> SUFFICES ASSUME QuotaInit PROVE QuotaTypeOK
    OBVIOUS
  <2>1. New \in Submission
    BY DEF New, Submission
  <2> QED BY <2>1, FS_EmptySet DEF QuotaInit, QuotaTypeOK
<1>2. QuotaTypeOK /\ [QuotaNext]_quotaVars => QuotaTypeOK'
  <2> SUFFICES ASSUME QuotaTypeOK, [QuotaNext]_quotaVars PROVE QuotaTypeOK'
    OBVIOUS
  <2>1. CASE TimePasses
    BY <2>1 DEF TimePasses, QuotaTypeOK
  <2>2. ASSUME NEW r \in Requests, QuotaActs(r) PROVE QuotaTypeOK'
    <3>1. PICK s \in Submission :
            submission' = [submission EXCEPT ![r] = s] /\ clock' = clock /\ Goes(r, s)
      BY <2>2, SubmissionStep
    <3>2. submission' \in [Requests -> Submission]
      BY <3>1 DEF QuotaTypeOK
    <3>3. documents' \subseteq Requests /\ IsFiniteSet(documents')
      BY <3>1, OthersStay
    <3>4. turns' \in Nat
      BY <3>1 DEF QuotaTypeOK, Goes, Authenticated, Admitted, Rejected, Submitted, Written
    <3> QED BY <3>1, <3>2, <3>3, <3>4 DEF QuotaTypeOK
  <2>3. CASE UNCHANGED quotaVars
    BY <2>3 DEF quotaVars, QuotaTypeOK
  <2> QED BY <2>1, <2>2, <2>3 DEF QuotaNext, QuotaActs
<1> QED BY <1>1, <1>2, PTL DEF QuotaSpec

\* Only submissions of known callers that reached create_item have a record.
LEMMA RecordInvHolds == QuotaSpec => []RecordInv
<1>1. QuotaInit => RecordInv
  BY DEF QuotaInit, New, RecordInv, Passed
<1>2. QuotaTypeOK /\ RecordInv /\ [QuotaNext]_quotaVars => RecordInv'
  <2> SUFFICES ASSUME QuotaTypeOK, RecordInv, [QuotaNext]_quotaVars PROVE RecordInv'
    OBVIOUS
  <2>1. CASE TimePasses
    <3>1. clock \in Nat /\ clock' = clock + 1 /\ UNCHANGED <<submission, documents>>
      BY <2>1, JobQuotaAssumption DEF TimePasses, QuotaTypeOK
    <3>2. \A q \in Requests : submission[q].at \in Nat /\ submission[q].checked \in Nat
      BY DEF QuotaTypeOK, Submission
    <3>3. documents \subseteq Requests
      BY DEF QuotaTypeOK
    <3> QED BY <3>1, <3>2, <3>3 DEF RecordInv, Passed, Owner
  <2>2. ASSUME NEW r \in Requests, QuotaActs(r) PROVE RecordInv'
    <3>1. PICK s \in Submission :
            submission' = [submission EXCEPT ![r] = s] /\ clock' = clock /\ Goes(r, s)
      BY <2>2, SubmissionStep
    <3>2. \A q \in Requests : submission'[q] = IF q = r THEN s ELSE submission[q]
      BY <3>1, OthersStay
    <3>3. clock \in Nat /\ documents \subseteq Requests
      BY JobQuotaAssumption DEF QuotaTypeOK
    <3>4. \A q \in documents' :
            submission'[q].pc \in {"writing", "recorded", "failed"} /\ submission'[q].at <= clock
      BY <3>1, <3>2, <3>3 DEF RecordInv, Goes, Authenticated, Admitted, Rejected, Submitted, Written
    <3>5. \A q \in Requests :
            /\ submission'[q].pc = "writing" => submission'[q].at <= clock
            /\ submission'[q].pc = "refused" => submission'[q].checked <= clock
            /\ submission'[q].pc = "recorded" => q \in documents'
      BY <3>1, <3>2, <3>3 DEF RecordInv, Goes, Authenticated, Admitted, Rejected, Submitted, Written
    <3>6. \A q \in Requests : submission'[q].pc = "known" \/ q \in Passed' => Owner(q) # AuthError
      BY <3>1, <3>2, <3>3 DEF RecordInv, Goes, Authenticated, Admitted, Rejected, Submitted, Written, Passed
    <3> QED BY <3>1, <3>4, <3>5, <3>6 DEF RecordInv, Owner
  <2>3. CASE UNCHANGED quotaVars
    BY <2>3 DEF quotaVars, RecordInv, Passed, Owner
  <2> QED BY <2>1, <2>2, <2>3 DEF QuotaNext, QuotaActs
<1> QED BY <1>1, <1>2, QuotaTypeCorrect, PTL DEF QuotaSpec

\* What a step of submission r, which becomes s, makes of those let in before it.
LEMMA TurnStep ==
  ASSUME QuotaTypeOK, RecordInv, TurnInv, NEW r \in Requests, NEW s \in Submission,
         submission' = [submission EXCEPT ![r] = s], clock' = clock, Goes(r, s)
  PROVE  /\ Passed' = IF Admitted(r, s) THEN Passed \cup {r} ELSE Passed
         /\ Admitted(r, s) => r \notin Passed
         /\ turns \in Nat /\ turns' = IF Admitted(r, s) THEN turns + 1 ELSE turns
         /\ \A q \in Passed :
              /\ submission'[q].turn = submission[q].turn /\ submission'[q].beside = submission[q].beside
              /\ submission'[q].checked = submission[q].checked
              /\ submission[q].pc = "failed" => submission'[q].pc = "failed"
              /\ submission'[q].pc # "allowed" => submission'[q].checked <= submission'[q].at
              /\ CountedBy(q)' \subseteq CountedBy(q)
<1> USE JobQuotaAssumption
<1>1. /\ \A q \in Requests : submission'[q] = IF q = r THEN s ELSE submission[q]
      /\ documents \subseteq documents' /\ documents' \subseteq Requests
  BY OthersStay
<1>2. /\ clock \in Nat /\ turns \in Nat /\ documents \subseteq Passed /\ Passed \subseteq Requests
      /\ \A q \in Requests : submission[q].at \in Nat /\ submission[q].checked \in Nat
  BY DEF QuotaTypeOK, Submission, RecordInv, Passed
<1>3. /\ Passed' = IF Admitted(r, s) THEN Passed \cup {r} ELSE Passed
      /\ Admitted(r, s) => r \notin Passed
      /\ r \in Passed => Submitted(r, s) \/ Written(r, s)
      /\ turns' = IF Admitted(r, s) THEN turns + 1 ELSE turns
  BY <1>1, <1>2 DEF Goes, Authenticated, Admitted, Rejected, Submitted, Written, Passed
<1>4. ASSUME NEW q \in Passed
      PROVE  /\ submission'[q].turn = submission[q].turn /\ submission'[q].beside = submission[q].beside
             /\ submission'[q].checked = submission[q].checked
             /\ submission[q].pc = "failed" => submission'[q].pc = "failed"
             /\ submission'[q].pc # "allowed" => submission'[q].checked <= submission'[q].at
  <2>1. CASE q # r
    BY <1>1, <1>2, <1>4, <2>1 DEF TurnInv
  <2>2. CASE q = r /\ Submitted(r, s)
    BY <1>1, <1>2, <1>4, <2>2 DEF Submitted, SameCheck, TurnInv
  <2>3. CASE q = r /\ Written(r, s)
    BY <1>1, <1>2, <1>4, <2>3 DEF Written, SameCheck, TurnInv
  <2> QED BY <1>3, <1>4, <2>1, <2>2, <2>3
<1>5. ASSUME NEW q \in Passed, NEW p \in CountedBy(q)'
      PROVE  p \in CountedBy(q)
  <2>1. /\ p \in documents' /\ Owner(p) = Owner(q) /\ submission'[p].at >= submission'[q].checked - Window
        /\ submission'[p].turn < submission'[q].turn /\ p \notin submission'[q].beside
    BY <1>5 DEF CountedBy, Owner
  <2>2. p \in Passed /\ submission'[p].at = submission[p].at
    <3>1. CASE p \in documents
      <4>1. p # r \/ Written(r, s)
        BY <1>3, <1>2, <3>1 DEF RecordInv, Submitted
      <4> QED BY <1>1, <1>2, <3>1, <4>1 DEF Written
    <3>2. CASE p \notin documents
      <4>1. p = r /\ Written(r, s)
        BY <2>1, <3>2 DEF Goes, Authenticated, Admitted, Rejected, Submitted, Written
      <4> QED BY <1>1, <4>1 DEF Written, Passed
    <3> QED BY <3>1, <3>2
  <2>3. /\ submission[p].at >= submission[q].checked - Window
        /\ submission[p].turn < submission[q].turn /\ p \notin submission[q].beside
    BY <1>4, <1>5, <2>1, <2>2
  <2>4. p \in documents
    <3>1. submission[p].pc = "failed" \/ p \in documents
      BY <1>5, <2>1, <2>2, <2>3 DEF TurnInv
    <3>2. p \in documents \/ (p = r /\ Written(r, s))
      BY <2>1 DEF Goes, Authenticated, Admitted, Rejected, Submitted, Written
    <3> QED BY <3>1, <3>2 DEF Written
  <2> QED BY <2>1, <2>3, <2>4 DEF CountedBy
<1> QED BY <1>2, <1>3, <1>4, <1>5

\* Whoever is let in finds fewer than the limit of those let in before it recorded, and the
\* others that may still be recorded under way.
LEMMA TurnInvHolds == QuotaSpec => []TurnInv
<1> USE JobQuotaAssumption
<1>1. QuotaInit => TurnInv
  BY DEF QuotaInit, New, TurnInv, Passed
<1>2. ASSUME NEW S, NEW T, IsFiniteSet(T), S \subseteq T, Cardinality(T) < QuotaLimit
      PROVE  Cardinality(S) < QuotaLimit
  <2>1. IsFiniteSet(S) /\ Cardinality(S) <= Cardinality(T)
    BY <1>2, FS_Subset
  <2>2. Cardinality(S) \in Nat /\ Cardinality(T) \in Nat
    BY <1>2, <2>1, FS_CardinalityType
  <2> QED BY <1>2, <2>1, <2>2
<1>3. ASSUME QuotaTypeOK, NEW q PROVE IsFiniteSet(CountedBy(q))
  BY <1>3, FS_Subset DEF CountedBy, QuotaTypeOK
<1>4. QuotaTypeOK /\ RecordInv /\ TurnInv /\ [QuotaNext]_quotaVars => TurnInv'
  <2> SUFFICES ASSUME QuotaTypeOK, RecordInv, TurnInv, [QuotaNext]_quotaVars PROVE TurnInv'
    OBVIOUS
  <2>0. /\ clock \in Nat /\ \A q \in Requests : submission[q].checked \in Nat /\ submission[q].turn \in Nat
        /\ Passed \subseteq Requests
    BY DEF QuotaTypeOK, Submission, Passed
  <2>1. CASE TimePasses \/ UNCHANGED quotaVars
    <3>1. (clock' = clock \/ clock' = clock + 1) /\ UNCHANGED <<submission, documents, turns>>
      BY <2>1 DEF TimePasses, quotaVars
    <3>2. Passed' = Passed /\ \A q : CountedBy(q)' = CountedBy(q)
      BY <3>1 DEF Passed, CountedBy, Owner
    <3>3. \A q \in Passed : submission[q].checked <= clock'
      BY <2>0, <3>1 DEF TurnInv
    <3> QED BY <3>1, <3>2, <3>3 DEF TurnInv, Owner
  <2>2. ASSUME NEW r \in Requests, QuotaActs(r) PROVE TurnInv'
    <3>1. PICK s \in Submission :
            submission' = [submission EXCEPT ![r] = s] /\ clock' = clock /\ Goes(r, s)
      BY <2>2, SubmissionStep
    <3>2. /\ \A q \in Requests : submission'[q] = IF q = r THEN s ELSE submission[q]
          /\ documents \subseteq documents' /\ IsFiniteSet(documents')
      BY <3>1, OthersStay
    <3>3. /\ Passed' = IF Admitted(r, s) THEN Passed \cup {r} ELSE Passed
          /\ Admitted(r, s) => r \notin Passed
          /\ turns \in Nat /\ turns' = IF Admitted(r, s) THEN turns + 1 ELSE turns
          /\ \A q \in Passed :
               /\ submission'[q].turn = submission[q].turn /\ submission'[q].beside = submission[q].beside
               /\ submission'[q].checked = submission[q].checked
               /\ submission[q].pc = "failed" => submission'[q].pc = "failed"
               /\ submission'[q].pc # "allowed" => submission'[q].checked <= submission'[q].at
               /\ CountedBy(q)' \subseteq CountedBy(q)
      BY <3>1, TurnStep
    <3>4. ASSUME NEW q \in Passed
          PROVE  /\ submission'[q].turn < turns' /\ submission'[q].checked <= clock'
                 /\ submission'[q].pc # "allowed" => submission'[q].checked <= submission'[q].at
                 /\ Cardinality(CountedBy(q)') < QuotaLimit
      <4>1. Cardinality(CountedBy(q)') < QuotaLimit
        BY <1>2, <1>3, <3>3, <3>4 DEF TurnInv
      <4> QED BY <2>0, <3>1, <3>3, <3>4, <4>1 DEF TurnInv
    <3>5. ASSUME NEW q \in Passed, NEW p \in Passed
          PROVE  /\ submission'[q].turn = submission'[p].turn => q = p
                 /\ submission'[p].turn < submission'[q].turn /\ Owner(p) = Owner(q) =>
                      submission'[p].pc = "failed" \/ p \in documents' \cup submission'[q].beside
      BY <3>2, <3>3, <3>5 DEF TurnInv
    <3>6. CASE ~Admitted(r, s)
      BY <3>3, <3>4, <3>5, <3>6 DEF TurnInv, Owner
    <3>7. CASE Admitted(r, s)
      <4>1. /\ submission[r].pc = "known" /\ Allowed(Owner(r)) /\ documents' = documents
            /\ submission'[r].pc = "allowed" /\ submission'[r].checked = clock
            /\ submission'[r].turn = turns /\ submission'[r].beside = UnderWay(Owner(r))
        BY <3>2, <3>7 DEF Admitted
      <4>2. Cardinality(CountedBy(r)') < QuotaLimit
        <5> DEFINE recent == {p \in documents : Owner(p) = Owner(r) /\ submission[p].at >= clock - Window}
        <5>1. r \notin documents
          BY <4>1 DEF RecordInv
        <5>2. documents \subseteq Requests
          BY DEF QuotaTypeOK
        <5>3. CountedBy(r)' \subseteq recent
          BY <3>2, <4>1, <5>1, <5>2 DEF CountedBy, Owner
        <5>4. IsFiniteSet(recent)
          BY FS_Subset DEF QuotaTypeOK
        <5>5. Cardinality(recent) < QuotaLimit
          BY <4>1 DEF Allowed, CountRecentScans
        <5> HIDE DEF recent
        <5> QED BY <1>2, <5>3, <5>4, <5>5
      <4>3. ASSUME NEW p \in Passed
            PROVE  /\ submission'[p].turn < submission'[r].turn
                   /\ Owner(p) = Owner(r) =>
                        submission'[p].pc = "failed" \/ p \in documents' \cup submission'[r].beside
        <5>1. p # r /\ submission'[p] = submission[p] /\ p \in Requests
          BY <2>0, <3>2, <3>3, <3>7
        <5>2. submission[p].turn < turns
          BY DEF TurnInv
        <5>3. ASSUME Owner(p) = Owner(r)
              PROVE  submission[p].pc = "failed" \/ p \in documents \cup UnderWay(Owner(r))
          BY <5>1, <5>3 DEF Passed, UnderWay, RecordInv
        <5> QED BY <4>1, <5>1, <5>2, <5>3
      <4>4. \A q \in Passed' : q \in Passed \/ q = r
        BY <3>3
      <4>5. ASSUME NEW q \in Passed'
            PROVE  /\ submission'[q].turn < turns' /\ submission'[q].checked <= clock'
                   /\ submission'[q].pc # "allowed" => submission'[q].checked <= submission'[q].at
                   /\ Cardinality(CountedBy(q)') < QuotaLimit
        <5>1. CASE q \in Passed
          BY <3>4, <5>1
        <5>2. CASE q = r
          BY <2>0, <3>1, <3>3, <3>7, <4>1, <4>2, <5>2
        <5> QED BY <4>4, <5>1, <5>2
      <4>6. ASSUME NEW q \in Passed', NEW p \in Passed'
            PROVE  /\ submission'[q].turn = submission'[p].turn => q = p
                   /\ submission'[p].turn < submission'[q].turn /\ Owner(p) = Owner(q) =>
                        submission'[p].pc = "failed" \/ p \in documents' \cup submission'[q].beside
        <5>0. \A u \in Passed' : submission'[u].turn \in Nat
          BY <2>0, <3>3, <4>1, <4>4
        <5>1. CASE q \in Passed /\ p \in Passed
          BY <3>5, <5>1
        <5>2. CASE q = r /\ p \in Passed
          BY <4>3, <5>0, <5>2
        <5>3. CASE q \in Passed /\ p = r
          BY <4>3, <5>0, <5>3
        <5>4. CASE q = r /\ p = r
          BY <5>0, <5>4
        <5> QED BY <4>4, <5>1, <5>2, <5>3, <5>4
      <4> QED BY <4>5, <4>6 DEF TurnInv, Owner
    <3> QED BY <3>6, <3>7
  <2> QED BY <2>1, <2>2 DEF QuotaNext, QuotaActs
<1> QED BY <1>1, <1>4, QuotaTypeCorrect, RecordInvHolds, PTL DEF QuotaSpec

\* Of some submissions that were let in, one was let in last.
LEMMA LastLetIn ==
  ASSUME QuotaTypeOK, NEW S \in SUBSET Requests, S # {}, \A s \in S : submission[s].turn < turns
  PROVE  \E q \in S : \A s \in S : submission[s].turn <= submission[q].turn
<1> DEFINE Left(s) == turns - submission[s].turn
           lefts == {Left(s) : s \in S}
<1>1. turns \in Nat /\ \A s \in S : submission[s].turn \in Nat /\ Left(s) \in Nat
  BY DEF QuotaTypeOK, Submission
<1>2. lefts \subseteq Nat /\ lefts # {}
  BY <1>1
<1>3. PICK n \in lefts : \A m \in lefts : ~(<<m, n>> \in OpToRel(<, Nat))
  <2> HIDE DEF lefts
  <2> QED BY <1>2, NatLessThanWellFounded, WFMin
<1>4. PICK q \in S : n = Left(q)
  OBVIOUS
<1>5. ASSUME NEW s \in S PROVE submission[s].turn <= submission[q].turn
  <2>1. ~(Left(s) < Left(q))
    BY <1>1, <1>3, <1>4 DEF OpToRel
  <2> QED BY <1>1, <2>1
<1> QED BY <1>5

\* So whatever exceeds the limit was under way beside the last one let in.
LEMMA ExcessOverlapped == QuotaTypeOK /\ RecordInv /\ TurnInv => OnlyOverlapsExceed
<1> USE JobQuotaAssumption
<1> SUFFICES ASSUME QuotaTypeOK, RecordInv, TurnInv, NEW r \in documents
             PROVE  \E q \in WindowOf(r) :
                      Cardinality(WindowOf(r)) <= QuotaLimit + Cardinality(WindowOf(r) \cap submission[q].beside)
  BY DEF OnlyOverlapsExceed
<1> DEFINE S == WindowOf(r)
<1>1. /\ S \subseteq documents /\ documents \subseteq Passed /\ Passed \subseteq Requests /\ IsFiniteSet(S)
      /\ \A q \in Requests : /\ submission[q].at \in Nat /\ submission[q].checked \in Nat
                              /\ submission[q].turn \in Nat
  <2>1. S \subseteq documents
    BY DEF WindowOf
  <2>2. IsFiniteSet(S)
    BY <2>1, FS_Subset DEF QuotaTypeOK
  <2> QED BY <2>1, <2>2 DEF QuotaTypeOK, Submission, RecordInv, Passed
<1>2. r \in S
  BY <1>1 DEF WindowOf
<1>3. PICK q \in S : \A s \in S : submission[s].turn <= submission[q].turn
  <2>1. \A s \in S : submission[s].turn < turns
    BY <1>1 DEF TurnInv
  <2> HIDE DEF S
  <2> QED BY <1>1, <1>2, <2>1, LastLetIn
<1> DEFINE overlap == S \cap submission[q].beside
           counted == CountedBy(q)
<1>4. S \subseteq {q} \cup (counted \cup overlap)
  <2> SUFFICES ASSUME NEW s \in S, s # q, s \notin submission[q].beside PROVE s \in counted
    OBVIOUS
  <2>1. submission[s].turn < submission[q].turn
    BY <1>1, <1>3 DEF TurnInv
  <2>2. Owner(s) = Owner(q) /\ submission[s].at >= submission[r].at - Window /\ submission[q].at <= submission[r].at
    BY <1>1 DEF WindowOf
  <2>3. submission[q].checked <= submission[q].at
    BY <1>1 DEF RecordInv, TurnInv
  <2>4. submission[s].at >= submission[q].checked - Window
    BY <1>1, <2>2, <2>3
  <2> QED BY <1>1, <2>1, <2>2, <2>4 DEF CountedBy
<1>5. /\ IsFiniteSet(counted) /\ Cardinality(counted) \in Nat /\ Cardinality(counted) < QuotaLimit
      /\ IsFiniteSet(overlap) /\ Cardinality(overlap) \in Nat
  <2>1. IsFiniteSet(counted)
    BY FS_Subset DEF CountedBy, QuotaTypeOK
  <2>2. IsFiniteSet(overlap)
    <3> HIDE DEF S
    <3> QED BY <1>1, FS_Subset
  <2>3. Cardinality(counted) < QuotaLimit
    BY <1>1 DEF TurnInv
  <2> QED BY <2>1, <2>2, <2>3, FS_CardinalityType
<1> HIDE DEF S, overlap, counted
<1>6. /\ IsFiniteSet(counted \cup overlap) /\ Cardinality(counted \cup overlap) \in Nat
      /\ Cardinality(counted \cup overlap) <= Cardinality(counted) + Cardinality(overlap)
  <2>1. IsFiniteSet(counted \cap overlap) /\ Cardinality(counted \cap overlap) \in Nat
    BY <1>5, FS_Subset, FS_CardinalityType
  <2>2. /\ IsFiniteSet(counted \cup overlap)
        /\ Cardinality(counted \cup overlap) =
             Cardinality(counted) + Cardinality(overlap) - Cardinality(counted \cap overlap)
    BY <1>5, FS_Union
  <2>3. Cardinality(counted \cup overlap) \in Nat
    BY <2>2, FS_CardinalityType
  <2> DEFINE a == Cardinality(counted)
             b == Cardinality(overlap)
             c == Cardinality(counted \cap overlap)
  <2>4. a \in Nat /\ b \in Nat /\ c \in Nat /\ Cardinality(counted \cup overlap) = a + b - c
    BY <1>5, <2>1, <2>2
  <2> HIDE DEF a, b, c
  <2>5. Cardinality(counted \cup overlap) <= a + b
    BY <2>4
  <2> QED BY <2>2, <2>3, <2>5 DEF a, b
<1>7. /\ IsFiniteSet((counted \cup overlap) \cup {q}) /\ Cardinality((counted \cup overlap) \cup {q}) \in Nat
      /\ Cardinality((counted \cup overlap) \cup {q}) <= Cardinality(counted \cup overlap) + 1
  <2>1. /\ IsFiniteSet((counted \cup overlap) \cup {q})
        /\ Cardinality((counted \cup overlap) \cup {q}) =
             IF q \in counted \cup overlap THEN Cardinality(counted \cup overlap)
                                          ELSE Cardinality(counted \cup overlap) + 1
    BY <1>6, FS_AddElement
  <2>2. Cardinality((counted \cup overlap) \cup {q}) \in Nat
    BY <2>1, FS_CardinalityType
  <2>3. CASE q \in counted \cup overlap
    BY <1>6, <2>1, <2>2, <2>3
  <2>4. CASE q \notin counted \cup overlap
    BY <1>6, <2>1, <2>2, <2>4
  <2> QED BY <2>3, <2>4
<1>8. Cardinality(S) \in Nat /\ Cardinality(S) <= Cardinality((counted \cup overlap) \cup {q})
  <2>1. S \subseteq (counted \cup overlap) \cup {q}
    BY <1>4
  <2> QED BY <1>1, <1>7, <2>1, FS_Subset, FS_CardinalityType
<1>9. Cardinality(S) <= QuotaLimit + Cardinality(overlap)
  <2>1. Cardinality(S) <= Cardinality(counted) + Cardinality(overlap) + 1
    BY <1>5, <1>6, <1>7, <1>8
  <2> QED BY <1>5, <1>8, <2>1
<1> QED BY <1>9 DEF S, overlap

\* Nobody is refused for somebody else's scans: those that were counted stay recorded,
\* as long ago as they were.
LEMMA RefusalsWereEarned == QuotaSpec => []RefusedHadTheirScans
<1> USE JobQuotaAssumption
<1> DEFINE Counted(q) == {p \in documents : /\ Owner(p) = Owner(q)
                                            /\ submission[p].at >= submission[q].checked - Window
                                            /\ submission[p].at <= submission[q].checked}
<1>1. QuotaInit => RefusedHadTheirScans
  BY DEF QuotaInit, New, RefusedHadTheirScans
<1>2. ASSUME IsFiniteSet(documents'), NEW S, NEW q, S \subseteq Counted(q)', QuotaLimit <= Cardinality(S)
      PROVE  QuotaLimit <= Cardinality(Counted(q)')
  <2>1. IsFiniteSet(Counted(q)')
    BY <1>2, FS_Subset
  <2>2. IsFiniteSet(S) /\ Cardinality(S) <= Cardinality(Counted(q)')
    BY <1>2, <2>1, FS_Subset
  <2>3. Cardinality(S) \in Nat /\ Cardinality(Counted(q)') \in Nat
    BY <2>1, <2>2, FS_CardinalityType
  <2> QED BY <1>2, <2>2, <2>3
<1>3. QuotaTypeOK /\ RecordInv /\ RefusedHadTheirScans /\ [QuotaNext]_quotaVars => RefusedHadTheirScans'
  <2> SUFFICES ASSUME QuotaTypeOK, RecordInv, RefusedHadTheirScans, [QuotaNext]_quotaVars,
                      NEW q \in Requests, submission'[q].pc = "refused"
               PROVE  QuotaLimit <= Cardinality(Counted(q)')
    BY DEF RefusedHadTheirScans, Owner
  <2>1. CASE TimePasses \/ UNCHANGED quotaVars
    <3>1. UNCHANGED <<submission, documents>>
      BY <2>1 DEF TimePasses, quotaVars
    <3>2. Counted(q)' = Counted(q) /\ submission[q].pc = "refused"
      BY <3>1 DEF Owner
    <3> QED BY <3>2 DEF RefusedHadTheirScans
  <2>2. ASSUME NEW r \in Requests, QuotaActs(r)
        PROVE  QuotaLimit <= Cardinality(Counted(q)')
    <3>1. PICK s \in Submission :
            submission' = [submission EXCEPT ![r] = s] /\ clock' = clock /\ Goes(r, s)
      BY <2>2, SubmissionStep
    <3>2. /\ \A p \in Requests : submission'[p] = IF p = r THEN s ELSE submission[p]
          /\ IsFiniteSet(documents')
      BY <3>1, OthersStay
    <3>3. documents \subseteq Requests /\ clock \in Nat /\ \A p \in Requests : submission[p].at \in Nat
      BY DEF QuotaTypeOK, Submission
    <3>4. documents \subseteq documents' /\ \A p \in documents : submission'[p].at = submission[p].at
      BY <3>1, <3>2, <3>3 DEF RecordInv, Goes, Authenticated, Admitted, Rejected, Submitted, Written
    <3>5. CASE submission[q].pc = "refused"
      <4>1. q # r
        BY <3>1, <3>5 DEF Goes, Authenticated, Admitted, Rejected, Submitted, Written
      <4>2. submission'[q] = submission[q]
        BY <3>2, <4>1
      <4>3. Counted(q) \subseteq Counted(q)'
        BY <3>3, <3>4, <4>2 DEF Owner
      <4>4. QuotaLimit <= Cardinality(Counted(q))
        BY <3>5 DEF RefusedHadTheirScans
      <4> HIDE DEF Counted
      <4> QED BY <1>2, <3>2, <4>3, <4>4
    <3>6. CASE submission[q].pc # "refused"
      <4>1. q = r /\ s.pc = "refused"
        BY <3>2, <3>6
      <4>2. s.checked = clock /\ ~Allowed(Owner(q)) /\ documents' = documents
        BY <3>1, <4>1 DEF Goes, Authenticated, Admitted, Rejected, Submitted, Written
      <4> DEFINE recent == {p \in documents : Owner(p) = Owner(q) /\ submission[p].at >= clock - Window}
      <4>3. IsFiniteSet(recent) /\ Cardinality(recent) \in Nat
        BY FS_Subset, FS_CardinalityType DEF QuotaTypeOK
      <4>4. QuotaLimit <= Cardinality(recent)
        BY <4>2, <4>3 DEF Allowed, CountRecentScans
      <4>5. submission'[q].checked = clock
        BY <3>2, <4>1, <4>2
      <4>6. recent \subseteq Counted(q)'
        BY <3>3, <3>4, <4>2, <4>5 DEF RecordInv, Owner
      <4> HIDE DEF Counted, recent
      <4> QED BY <1>2, <3>2, <4>4, <4>6
    <3> QED BY <3>5, <3>6
  <2> QED BY <2>1, <2>2 DEF QuotaNext, QuotaActs
<1> QED BY <1>1, <1>3, QuotaTypeCorrect, RecordInvHolds, PTL DEF QuotaSpec

\* The quota of every user is kept but for submissions that overlapped, every refusal
\* was earned, and a job's status is given to its owner and to nobody else.
THEOREM QuotaKept == QuotaSpec => []QuotaIsKept
<1>1. QuotaTypeOK /\ RecordInv => RecordedIsTheOwners
  <2> SUFFICES ASSUME QuotaTypeOK, RecordInv, NEW r \in Requests
               PROVE  /\ submission[r].pc = "recorded" =>
                           \A s \in Requests : LoadOwnedScan(Header[s], r) = 200 <=> Owner(s) = Owner(r)
                      /\ r \in documents => Owner(r) # AuthError
    BY DEF RecordedIsTheOwners
  <2>1. \A s : ReportSubject(Header[s]) = Owner(s)
    BY DEF ReportSubject, Owner, Subject
  <2>2. r \in documents => Owner(r) # AuthError
    BY DEF RecordInv, Passed
  <2>3. ASSUME submission[r].pc = "recorded", NEW s \in Requests
        PROVE  LoadOwnedScan(Header[s], r) = 200 <=> Owner(s) = Owner(r)
    <3>1. r \in documents
      BY <2>3 DEF RecordInv
    <3> QED BY <2>1, <2>2, <3>1 DEF LoadOwnedScan
  <2> QED BY <2>2, <2>3
<1> QED BY <1>1, QuotaTypeCorrect, RecordInvHolds, TurnInvHolds, ExcessOverlapped,
           RefusalsWereEarned, PTL DEF QuotaIsKept
=============================================================================
