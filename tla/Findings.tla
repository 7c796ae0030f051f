------------------------------ MODULE Findings ------------------------------
(***************************************************************************)
(* From what the scouts return to the graded report of one scan            *)
(* (src/worker/main_scanner.py): normalisation, deduplication, score, and  *)
(* the re-scoring of stored reports by evaluation/tier_fix_counterfactual. *)
(***************************************************************************)
EXTENDS Integers, Sequences, FiniteSetsExt, SequencesExt

CONSTANTS
  Scouts,       \* the discovered modules, in the order of their files
  RawFindings,  \* findings as scouts return them
  MaxFindings,  \* per scout
  Cut,          \* [title -> its first 200 characters]
  Place,        \* [location -> its first 500 characters, stripped, in lower case]
  AffectedTitles, \* the titles the tier fix moved to the hardening pool
  Pages,        \* main pages: the status, the marks in its headers and in its text
  NoPage,       \* the pre-flight fetch failed
  NoReport, Pending, Incomplete

ScoutNames == Range(Scouts)

ASSUME FindingsAssumption ==
  /\ Scouts \in Seq(ScoutNames)
  /\ MaxFindings \in Nat
  /\ NoPage \notin Pages
  /\ {Pending, Incomplete} \cap BoundedSeq(RawFindings, MaxFindings) = {} /\ Pending # Incomplete
  /\ \A raw \in RawFindings : raw.title \in DOMAIN Cut /\ raw.location \in DOMAIN Place

VARIABLES results,         \* what each scout has returned
          page,            \* ctx.main_page_cache
          report           \* final_result
findingVars == <<results, page, report>>

\* The members of a finite set in a given order, and numbers in their own.
Arranged(S, before) ==
  [n \in 1..Cardinality(S) |->
     CHOOSE x \in S : Cardinality({y \in S : y = x \/ <<y, x>> \in before}) = n]

Ascending(S) == Arranged(S, {p \in S \X S : p[1] < p[2]})

-----------------------------------------------------------------------------
(* The main page: detect_waf_and_representativeness *)

\* Vendors in the order they are looked for, each with marks any of which names it.
HeaderVendors ==
  <<[name |-> "Cloudflare", marks |-> {{"cf-ray"}, {"server: cloudflare"}}],
    [name |-> "Sucuri", marks |-> {{"x-sucuri-id"}}],
    [name |-> "AWS CloudFront", marks |-> {{"x-amz-cf-id"}}],
    [name |-> "Akamai", marks |-> {{"x-akamai-transformed"}, {"server: akamai"}}],
    [name |-> "Imperva/Incapsula", marks |-> {{"x-iinfo"}, {"x-cdn"}}]>>
ChallengeVendors ==
  <<[name |-> "Cloudflare", marks |-> {{"cf-chl"}, {"cf-mitigated"}, {"just a moment..."}}],
    [name |-> "Akamai", marks |-> {{"akamai", "access denied"}}],
    [name |-> "Imperva/Incapsula", marks |-> {{"incapsula incident id"}}]>>

VendorOf(vendors, seen) ==
  LET named == {i \in DOMAIN vendors : \E marks \in vendors[i].marks : marks \subseteq seen}
  IN  IF named = {} THEN "" ELSE vendors[Min(named)].name

Waf ==
  IF page = NoPage THEN ""
  ELSE IF VendorOf(ChallengeVendors, page.body) # "" THEN VendorOf(ChallengeVendors, page.body)
  ELSE VendorOf(HeaderVendors, page.headers)

\* ctx.page_is_representative
Representative ==
  page # NoPage /\ page.status < 400 /\ VendorOf(ChallengeVendors, page.body) = ""

-----------------------------------------------------------------------------
(* One finding *)

ConfRank ==
  [c \in {"verified-live", "verified-static", "plausible-unconfirmed", "informational"} |->
     CASE c = "verified-live" -> 4 [] c = "verified-static" -> 3
       [] c = "plausible-unconfirmed" -> 2 [] OTHER -> 1]
SevRank == [critical |-> 4, high |-> 3, medium |-> 2, low |-> 1, info |-> 0]
BasePenalty == [critical |-> 30, high |-> 15, medium |-> 5, low |-> 2, info |-> 0]

\* A tier's name counts as it is, a number by its band, anything else as the lowest.
ConfidenceTier(c) ==
  IF c.name \in DOMAIN ConfRank THEN c.name
  ELSE IF c.name # "" \/ c.number < 30 THEN "informational"
  ELSE IF c.number < 70 THEN "plausible-unconfirmed"
  ELSE IF c.number < 90 THEN "verified-static"
  ELSE "verified-live"

Normal(raw, module) ==
  [module |-> module, title |-> Cut[raw.title], class |-> raw.class, location |-> raw.location,
   severity |-> IF raw.severity \in DOMAIN SevRank THEN raw.severity ELSE "info",
   confidence |-> ConfidenceTier(raw.confidence),
   tier |-> IF raw.tier # "" THEN raw.tier ELSE raw.nestedTier,
   remediation |-> IF raw.remediation = "" THEN "consult" ELSE raw.remediation]

-----------------------------------------------------------------------------
(* Deduplication; the class of a finding is its cwe with its owasp *)

Key(f) == <<f.module, f.title, f.class, Place[f.location]>>

\* As Better, with the severity first.
MoreSevere(f, g) ==
  \/ SevRank[f.severity] > SevRank[g.severity]
  \/ f.severity = g.severity /\ ConfRank[f.confidence] > ConfRank[g.confidence]

Better(f, g) ==
  \/ ConfRank[f.confidence] > ConfRank[g.confidence]
  \/ f.confidence = g.confidence /\ SevRank[f.severity] > SevRank[g.severity]

SameKey(findings, key, i) == {j \in DOMAIN findings : key[findings[j]] = key[findings[i]]}

\* Better than those before it that have its key, and not beaten by those after it.
Winners(findings, key, better) ==
  {i \in DOMAIN findings :
     \A j \in SameKey(findings, key, i) \ {i} :
       IF j < i THEN <<findings[i], findings[j]>> \in better ELSE <<findings[j], findings[i]>> \notin better}

\* Of each key the first of its best findings, at the position of the key's first.
BestPerKey(findings, key, better) ==
  LET winners == Winners(findings, key, better)
      First(i) == Min(SameKey(findings, key, i))
      order == Arranged(winners, {p \in winners \X winners : First(p[1]) < First(p[2])})
  IN  [n \in DOMAIN order |-> findings[order[n]]]

Deduplicated(findings) ==
  BestPerKey(findings, [f \in Range(findings) |-> Key(f)],
             {p \in Range(findings) \X Range(findings) : Better(p[1], p[2])})

-----------------------------------------------------------------------------
(* Score *)

\* The sum of their penalties, severity by severity.
Penalties(findings, places) ==
  LET Of(severity) == BasePenalty[severity] * Cardinality({i \in places : findings[i].severity = severity})
  IN  Of("critical") + Of("high") + Of("medium") + Of("low") + Of("info")

Deduction(findings, pool) ==
  Penalties(findings, {i \in DOMAIN findings : (findings[i].tier = "hardening") = (pool = "hardening")})

\* As Deductions, without the cap on the hardening pool.
DeductionsUncapped(findings) == Deduction(findings, "baseline") + Deduction(findings, "hardening")
Deductions(findings) == Deduction(findings, "baseline") + Min({Deduction(findings, "hardening"), 10})

Grade(score) ==
  IF score >= 85 THEN "A" ELSE IF score >= 75 THEN "B" ELSE IF score >= 65 THEN "C" ELSE IF score >= 55 THEN "D" ELSE "F"

\* compute_bravo6_score
ScoreInfo(findings, testsRun, discovered, representativePage) ==
  LET score == Max({0, 100 - Deductions(findings)})
  IN  [score |-> score, raw |-> 100 - Deductions(findings), grade |-> Grade(score),
       reliable |-> representativePage /\ testsRun >= discovered]

\* The findings as they were before the tier fix.
BuggyFindings(findings) ==
  [i \in DOMAIN findings |->
     IF findings[i].title \in AffectedTitles /\ findings[i].tier = "hardening"
       THEN [findings[i] EXCEPT !.tier = ""] ELSE findings[i]]

\* A stored report scored again with the fix and without it.
ScoreShift(r) ==
  ScoreInfo(r.findings, r.testsRun, Len(Scouts), r.representative).score
    - ScoreInfo(BuggyFindings(r.findings), r.testsRun, Len(Scouts), r.representative).score

-----------------------------------------------------------------------------
(* The scan *)

FindingsInit ==
  /\ results = [m \in ScoutNames |-> Pending]
  /\ page \in Pages \cup {NoPage}
  /\ report = NoReport

ScoutReturns(m) ==
  /\ results[m] = Pending
  /\ \E found \in BoundedSeq(RawFindings, MaxFindings) : results' = [results EXCEPT ![m] = found]
  /\ UNCHANGED <<page, report>>

\* It raises, times out, returns a fatal_error or something that is no dictionary.
ScoutFails(m) ==
  /\ results[m] = Pending
  /\ results' = [results EXCEPT ![m] = Incomplete]
  /\ UNCHANGED <<page, report>>

Completed == {j \in DOMAIN Scouts : results[Scouts[j]] # Incomplete}

\* gather returns in the order of the scouts, whichever ended first.
Collated ==
  LET found == UNION {{j} \X DOMAIN results[Scouts[j]] : j \in Completed}
      order == Arranged(found, {p \in found \X found : IF p[1][1] = p[2][1] THEN p[1][2] < p[2][2] ELSE p[1][1] < p[2][1]})
  IN  [n \in DOMAIN order |->
         LET m == Scouts[order[n][1]] IN Normal(results[m][order[n][2]], m)]

Report(testsRun) ==
  [findings |-> Deduplicated(Collated), testsRun |-> testsRun, representative |-> Representative, waf |-> Waf,
   total |-> Len(Deduplicated(Collated)),
   scoreInfo |-> ScoreInfo(Deduplicated(Collated), testsRun, Len(Scouts), Representative)]

Collates ==
  /\ report = NoReport /\ \A m \in ScoutNames : results[m] # Pending
  /\ report' = Report(Cardinality(Completed))
  /\ UNCHANGED <<results, page>>

FindingsNext == Collates \/ \E m \in ScoutNames : ScoutReturns(m) \/ ScoutFails(m)

FindingsSpec == FindingsInit /\ [][FindingsNext]_findingVars

-----------------------------------------------------------------------------
\* Of the findings of one scout with one title, class and place, the report has exactly
\* one: of those with the best confidence the first of the highest severity, as
\* it was, so neither a place nor its worst confirmed finding is lost
\* (main_scanner.py:552-572).
OneBestPerKey ==
  report # NoReport =>
    \A i \in DOMAIN Collated :
      LET f == Collated[i]
          Twin(g) == /\ g.module = f.module /\ g.title = f.title /\ g.class = f.class
                     /\ Place[g.location] = Place[f.location]
          kept == {j \in DOMAIN report.findings : Twin(report.findings[j])}
      IN  /\ Cardinality(kept) = 1
          /\ LET best == report.findings[CHOOSE j \in kept : TRUE]
             IN  /\ Contains(Collated, best)
                 /\ ConfRank[best.confidence] >= ConfRank[f.confidence]
                 /\ best.confidence = f.confidence => SevRank[best.severity] >= SevRank[f.severity]

\* A finding that is the only one of its scout, title, class and place never raises the
\* score: without it the report would score as high or higher, whatever else
\* was found (the key of main_scanner.py:556-557 and the pools of :613-635).
FreshFindingNeverHelps ==
  report # NoReport =>
    \A i \in DOMAIN Collated :
      LET f == Collated[i]
          alone == \A j \in DOMAIN Collated \ {i} :
                     <<Collated[j].module, Collated[j].title, Collated[j].class, Place[Collated[j].location]>>
                       # <<f.module, f.title, f.class, Place[f.location]>>
      IN  alone => Deductions(Deduplicated(RemoveAt(Collated, i))) <= Deductions(report.findings)

\* Deduplication neither loses nor invents anything that counts: the two above.
DeduplicationIsSound == OneBestPerKey /\ FreshFindingNeverHelps

\* A report with nothing but hardening findings is graded A, and the
\* re-scoring attributes to the tier fix no loss and no more than the penalties
\* of the findings it moved (main_scanner.py:632-633, tier_fix_counterfactual.py:79-127).
HardeningIsMild ==
  report # NoReport =>
    LET moved == {i \in DOMAIN report.findings : report.findings[i].title \in AffectedTitles}
    IN  /\ (\A i \in DOMAIN report.findings : report.findings[i].tier = "hardening")
             => report.scoreInfo.grade = "A"
        /\ ScoreShift(report) \in 0..Penalties(report.findings, moved)

\* A reliable A means that every scout examined a page that was served, and not by
\* a firewall in the site's place, and that no critical finding was kept in the
\* baseline pool (main_scanner.py:325-362, 640-656, 930-971).
ReliableAIsEarned ==
  report # NoReport /\ report.scoreInfo.reliable /\ report.scoreInfo.grade = "A" =>
    /\ page # NoPage /\ page.status < 400
    /\ \A v \in Range(ChallengeVendors) : \A marks \in v.marks : ~ marks \subseteq page.body
    /\ \A m \in ScoutNames : results[m] # Incomplete
    /\ \A i \in DOMAIN report.findings :
         report.findings[i].severity = "critical" => report.findings[i].tier = "hardening"

\* The grade follows from what was examined and found: the two properties above.
GradesAreEarned == HardeningIsMild /\ ReliableAIsEarned

-----------------------------------------------------------------------------
\* What a scan in progress holds (main_scanner.py:860-930).
FindingsTypeOK ==
  /\ results \in [ScoutNames -> BoundedSeq(RawFindings, MaxFindings) \cup {Pending, Incomplete}]
  /\ page \in Pages \cup {NoPage}

\* A report is that of results which all are in, and stay as they are.
ReportInv ==
  report # NoReport =>
    (\A m \in ScoutNames : results[m] # Pending) /\ report = Report(Cardinality(Completed))
=============================================================================
