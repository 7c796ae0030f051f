----------------------------- MODULE Benchmark -----------------------------
(***************************************************************************)
(* The process-wide overrides of the validation benchmark                  *)
(* (validation-benchmark/runner.py): every case enters them and leaves     *)
(* them around its scan, and all cases are scanned at once.  A scan loads  *)
(* modules of its own (main_scanner.py:447-462) and so calls the real      *)
(* lookup whatever `imported` is; the flag is read by every scan.          *)
(***************************************************************************)
EXTENDS Naturals, FiniteSets

CONSTANTS
  Cases,
  Unset,   \* the environment variable is not there
  Real     \* test_10_hallucinated_deps._lookup_package

ASSUME BenchAssumption ==
  /\ "benchmark" \notin Cases /\ Real \notin Cases \cup {"benchmark"}
  /\ Unset # "1"

VARIABLES offline,   \* _offline_mock_requested
          flag,      \* BRAVO6_VALIDATION_ALLOW_PRIVATE_TARGETS
          imported,  \* _lookup_package of the module that runner.py imports: Real, or who replaced it
          benchmark, \* "before", "running", "raising", "ended", "raised"
          cases,     \* of each case: "new", "scanning", "done", "raised", "collected"
          previous   \* what a case, or "benchmark", found when it entered the overrides
benchVars == <<offline, flag, imported, benchmark, cases, previous>>

BenchInit ==
  /\ offline \in BOOLEAN
  /\ flag = Unset /\ imported = Real
  /\ benchmark = "before" /\ cases = [c \in Cases |-> "new"]
  /\ previous = [e \in Cases \cup {"benchmark"} |-> [flag |-> Unset, imported |-> Real]]

\* validation_private_targets_override and, offline, validation_registry_mock_override
Enters(e) ==
  /\ previous' = [previous EXCEPT ![e] = [flag |-> flag, imported |-> imported]]
  /\ flag' = "1"
  /\ imported' = IF offline THEN e ELSE imported

Leaves(e) ==
  /\ flag' = previous[e].flag
  /\ imported' = IF offline THEN previous[e].imported ELSE imported

\* As Starts, leaving the overrides to the cases.
StartsBare ==
  /\ benchmark = "before" /\ benchmark' = "running"
  /\ UNCHANGED <<offline, flag, imported, cases, previous>>

Starts ==
  /\ benchmark = "before" /\ benchmark' = "running"
  /\ Enters("benchmark")
  /\ UNCHANGED <<offline, cases>>

CaseStarts(c) ==
  /\ benchmark \in {"running", "raising"} /\ cases[c] = "new"
  /\ Enters(c)
  /\ cases' = [cases EXCEPT ![c] = "scanning"]
  /\ UNCHANGED <<offline, benchmark>>

CaseEnds(c) ==
  /\ benchmark \in {"running", "raising"} /\ cases[c] = "scanning"
  /\ Leaves(c)
  /\ cases' = [cases EXCEPT ![c] = "done"]
  /\ UNCHANGED <<offline, benchmark, previous>>

\* gather passes the first exception on; the other cases run until the loop stops.
CaseRaises(c) ==
  /\ benchmark \in {"running", "raising"} /\ cases[c] = "scanning"
  /\ Leaves(c)
  /\ cases' = [cases EXCEPT ![c] = "raised"]
  /\ benchmark' = "raising"
  /\ UNCHANGED <<offline, previous>>

Ends ==
  /\ \/ benchmark = "running" /\ (\A c \in Cases : cases[c] = "done") /\ benchmark' = "ended"
     \/ benchmark = "raising" /\ benchmark' = "raised"
  /\ Leaves("benchmark")
  /\ UNCHANGED <<offline, cases, previous>>

\* A case the closed loop left suspended is collected later, and leaves its overrides then.
Collected(c) ==
  /\ benchmark = "raised" /\ cases[c] = "scanning"
  /\ Leaves(c)
  /\ cases' = [cases EXCEPT ![c] = "collected"]
  /\ UNCHANGED <<offline, benchmark, previous>>

BenchNext == Starts \/ Ends \/ \E c \in Cases : CaseStarts(c) \/ CaseEnds(c) \/ CaseRaises(c) \/ Collected(c)

BenchSpec == BenchInit /\ [][BenchNext]_benchVars

-----------------------------------------------------------------------------
\* The process has, or no longer has, what the benchmark set in it.
Overridden == flag = "1" /\ (offline => imported # Real)
AsItWas == flag = Unset /\ imported = Real

\* Cases leave the overrides in any order, yet no case loses them while it scans, and
\* once every case has ended the process is as it was before.  A benchmark that
\* raised leaves it so too, until a case it left suspended is collected: that one
\* turns the overrides on again, for good (runner.py:51-97, 130-140, 192-202).
OverridesOutlastCases ==
  /\ benchmark \in {"running", "raising"} => \A c \in Cases : cases[c] = "scanning" => Overridden
  /\ benchmark = "ended" => AsItWas
  /\ benchmark = "raised" => IF \E c \in Cases : cases[c] = "collected" THEN Overridden ELSE AsItWas

-----------------------------------------------------------------------------
Found == [flag : {Unset, "1"}, imported : {Real, "benchmark"} \cup Cases]

BenchTypeOK ==
  /\ offline \in BOOLEAN /\ flag \in {Unset, "1"} /\ imported \in {Real, "benchmark"} \cup Cases
  /\ benchmark \in {"before", "running", "raising", "ended", "raised"}
  /\ cases \in [Cases -> {"new", "scanning", "done", "raised", "collected"}]
  /\ previous \in [Cases \cup {"benchmark"} -> Found]

\* Why OverridesOutlastCases: the benchmark itself found the process as it was, and
\* whatever a case found, and will restore, was overridden by the benchmark.
OverrideInv ==
  /\ ~offline => imported = Real
  /\ previous["benchmark"] = [flag |-> Unset, imported |-> Real]
  /\ benchmark = "before" => AsItWas /\ \A c \in Cases : cases[c] = "new"
  /\ benchmark \in {"running", "raising"} => Overridden
  /\ benchmark # "raised" => \A c \in Cases : cases[c] # "collected"
  /\ \A c \in Cases : cases[c] # "new" => previous[c].flag = "1" /\ (offline => previous[c].imported # Real)
  /\ benchmark = "ended" => AsItWas /\ \A c \in Cases : cases[c] = "done"
  /\ benchmark = "raised" => IF \E c \in Cases : cases[c] = "collected" THEN Overridden ELSE AsItWas
=============================================================================
