---------------------------- MODULE Calibration ----------------------------
(***************************************************************************)
(* The comparison with Mozilla Observatory                                 *)
(* (validation-benchmark/cross-tool-calibration): run_calibration.py scans *)
(* the sample, fetch_mozilla_verdicts.py asks Mozilla, and                 *)
(* compute_verdict_agreement.py compares signal by signal.                 *)
(***************************************************************************)
EXTENDS Integers, FiniteSets, FiniteSetsExt

CONSTANTS
  Sample,      \* the domains
  Signals,     \* the canonical signals
  MaxTries,    \* 4, of fetch
  NoRow

ASSUME CalibrationAssumption ==
  IsFiniteSet(Sample) /\ IsFiniteSet(Signals) /\ MaxTries \in Nat \ {0}

VARIABLES scans,      \* what scan_site returned for a domain, or NoRow
          verdicts    \* [tries, status, of] of fetch for a domain
calibrationVars == <<scans, verdicts>>

CalibrationInit ==
  /\ scans = [d \in Sample |-> NoRow]
  /\ verdicts = [d \in Sample |-> [tries |-> 0, status |-> "asking", of |-> [s \in Signals |-> "none"]]]

\* scan_site never raises. A scan that raised has no findings and is incomplete; one
\* that examined only part of the site may have some.
Scans(d) ==
  /\ scans[d] = NoRow
  /\ \E status \in {"ok", "error"}, reliable \in BOOLEAN, found \in SUBSET Signals :
       /\ status = "error" => ~reliable /\ found = {}
       /\ scans' = [scans EXCEPT ![d] = [status |-> status, signals |-> found, incomplete |-> ~reliable]]
  /\ UNCHANGED verdicts

\* fetch_mozilla_verdicts.py waits and tries again, rate limited or not. A verdict is
\* "none" where Mozilla has no such test or scores it neutral.
FetchesVerdict(d) ==
  /\ verdicts[d].status = "asking"
  /\ \/ \E of \in [Signals -> {"pass", "fail", "none"}] :
          verdicts' = [verdicts EXCEPT ![d] = [tries |-> @.tries + 1, status |-> "ok", of |-> of]]
     \/ verdicts' = [verdicts EXCEPT ![d] =
          [@ EXCEPT !.tries = verdicts[d].tries + 1,
                    !.status = IF verdicts[d].tries + 1 < MaxTries THEN "asking" ELSE "error"]]
  /\ UNCHANGED scans

CalibrationNext == \E d \in Sample : Scans(d) \/ FetchesVerdict(d)

CalibrationSpec == CalibrationInit /\ [][CalibrationNext]_calibrationVars

-----------------------------------------------------------------------------
(* compute_verdict_agreement.main *)

Computable == \A d \in Sample : scans[d] # NoRow /\ verdicts[d].status # "asking"

\* As Compared, without the exclusion of incomplete scans.
ComparedAll == {d \in Sample : verdicts[d].status = "ok"}
Compared == {d \in Sample : ~scans[d].incomplete /\ verdicts[d].status = "ok"}

Verdict(d, s) == IF s \in scans[d].signals THEN "fail" ELSE "pass"

Comparable == {c \in Compared \X Signals : verdicts[c[1]].of[c[2]] # "none"}

Totals ==
  [compared |-> Cardinality(Comparable),
   agree |-> Cardinality({c \in Comparable : verdicts[c[1]].of[c[2]] = Verdict(c[1], c[2])}),
   notComparable |-> Cardinality(Compared \X Signals) - Cardinality(Comparable),
   included |-> Cardinality({d \in Sample : ~scans[d].incomplete})]

-----------------------------------------------------------------------------
\* Only examined sites count: the totals are those of the sites whose scan completed
\* and for which Mozilla has verdicts, whatever the others reported, and they never
\* exceed the checks the summary calls possible
\* (compute_verdict_agreement.py:103-146, 166-176).
OnlyExaminedSitesCount ==
  Computable =>
    LET Count(p) == Cardinality({c \in Sample \X Signals :
                      /\ scans[c[1]].status = "ok" /\ ~scans[c[1]].incomplete
                      /\ verdicts[c[1]].status = "ok" /\ verdicts[c[1]].of[c[2]] = p})
    IN  /\ Totals.compared = Count("pass") + Count("fail")
        /\ Totals.compared + Totals.notComparable <= Totals.included * Cardinality(Signals)
        /\ Totals.agree <= Totals.compared

-----------------------------------------------------------------------------
Scan == [status : {"ok", "error"}, signals : SUBSET Signals, incomplete : BOOLEAN]
MozillaRow == [tries : 0..MaxTries, status : {"asking", "ok", "error"},
               of : [Signals -> {"pass", "fail", "none"}]]

CalibrationTypeOK ==
  /\ scans \in [Sample -> {NoRow} \cup Scan]
  /\ verdicts \in [Sample -> MozillaRow]

\* A scan that raised counts as incomplete, and nobody is asked more often than MaxTries.
RowInv ==
  /\ \A d \in Sample : scans[d] # NoRow /\ scans[d].status = "error" => scans[d].incomplete
  /\ \A d \in Sample : verdicts[d].status = "asking" => verdicts[d].tries < MaxTries
=============================================================================
