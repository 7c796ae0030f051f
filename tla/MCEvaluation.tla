---------------------------- MODULE MCEvaluation ----------------------------
(* The programs around the scanner, one of them per behaviour: they share  *)
(* no state while they run.                                                *)
EXTENDS HtmlReport, TargetSafety, ScoutProbes, MCQuota, EvalBatch, CandidatePool, Calibration, Benchmark, TLC

VARIABLE program
mcVars == <<program, findingVars, batchVars, poolVars, calibrationVars, benchVars, quotaVars, targetVars, registryVars, tlsVars>>

\* Two scouts; two titles cut to the same; a place in two spellings; a title in two
\* classes; duplicates of different confidence and severity; both forms of a tier;
\* unknown names.
Band(n) == [name |-> "", number |-> n]
Named(c) == [name |-> c, number |-> 0]
Raw(title, class, location, severity, confidence, tier, nested, remediation) ==
  [title |-> title, class |-> class, location |-> location, severity |-> severity,
   confidence |-> confidence, tier |-> tier, nestedTier |-> nested, remediation |-> remediation]
MCRawFindings ==
  {Raw("CSP missing a", "CWE-693", "/a", "critical", Band(30), "", "", ""),
   Raw("CSP missing b", "CWE-693", "/A ", "low", Band(90), "baseline", "hardening", "set a policy"),
   Raw("CSP missing a", "CWE-693", "/b", "medium", Named("verified-live"), "", "", "set a policy"),
   Raw("CSP missing a", "CWE-693", "/a", "high", Named("plausible-unconfirmed"), "", "", "none"),
   Raw("OCSP", "", "/a", "low", Band(70), "", "hardening", ""),
   Raw("OCSP", "CWE-299", "/a", "high", Band(20), "hardening", "", "set a policy"),
   Raw("ocsp", "", "/b", "severe", Named("sure"), "hardening", "", "")}
MCCut ==
  [t \in {"CSP missing a", "CSP missing b", "OCSP", "ocsp"} |->
     IF t \in {"OCSP", "ocsp"} THEN t ELSE "CSP missing"]
MCFolded == [t \in {"CSP missing", "OCSP", "ocsp"} |-> IF t = "CSP missing" THEN "csp missing" ELSE "ocsp"]
MCPlace == [p \in {"/a", "/A ", "/b"} |-> IF p = "/b" THEN p ELSE "/a"]
MCScouts == <<"cookies", "headers">>
MCPages ==
  {[status |-> 200, headers |-> {"x-cdn"}, body |-> {"access denied"}],
   [status |-> 403, headers |-> {"server: akamai"}, body |-> {"access denied"}],
   [status |-> 200, headers |-> {"cf-ray"}, body |-> {"akamai", "access denied"}]}

Sampled(rank, url, safe) == [rank |-> rank, url |-> url, safe |-> safe]
MCBatches ==
  {[sites |-> <<Sampled(2, "a", "a"), Sampled(None, "b", "b"), Sampled(1, "c", "c")>>, starts |-> 1, concurrency |-> 2],
   [sites |-> <<Sampled(None, "a", "a"), Sampled(None, "b", "b")>>, starts |-> 2, concurrency |-> 1],
   [sites |-> <<>>, starts |-> 2, concurrency |-> 1]}
MCReport(error, reliable, representative_, tlsDown, grade, waf, titles) ==
  [error |-> error, reliable |-> reliable, representative |-> representative_, tlsDown |-> tlsDown,
   partial |-> FALSE, grade |-> grade, waf |-> waf, titles |-> titles]
MCReports ==
  {MCReport(FALSE, TRUE, TRUE, FALSE, "A", "Akamai", {"CSP", "OCSP"}),
   MCReport(FALSE, FALSE, FALSE, TRUE, "C", None, {"CSP"}),
   MCReport(FALSE, FALSE, FALSE, FALSE, "A", None, {}),
   [MCReport(FALSE, FALSE, TRUE, FALSE, "B", "Akamai", {"OCSP"}) EXCEPT !.partial = TRUE],
   MCReport(TRUE, None, None, None, None, None, {})}

MCDomains == {"a", "b", "c", "d", "www.a", "e"}
MCNormalized == [d \in MCDomains |-> IF d = "www.a" THEN "a" ELSE d]
MCWanted == <<2, 1, 9>>
MCPoolWorlds ==
  [candidates : {<<{"a", "b", "c", "d"}, {"c", "d", "e"}, {"www.a", "e"}>>,
                 <<{"a", "b", "c"}, {"c", "d", "e"}, {"d"}>>},
   blocked : {{"a"}, {"b", "d"}}, calibration : {{}, {"c"}}]

\* A host that may be scanned, one under a blocked domain; a public and a private address.
MCHostNames == {"site.com", "www.nhs.uk"}
MCLabels == [n \in MCHostNames |-> IF n = "site.com" THEN <<"site", "com">> ELSE <<"www", "nhs", "uk">>]
MCBlocked == {<<"nhs", "uk">>, <<"gov">>}
MCDnsAnswers == {{}, {"public"}, {"public", "private"}}

\* An npm manifest over the cap, with a scoped name and two spellings; a PyPI one.
MCNorm == [d \in {"b", "B", "@own/p", "a", "c", "e"} |->
             CASE d = "@own/p" -> 0 [] d = "a" -> 1 [] d \in {"b", "B"} -> 2 [] d = "c" -> 3 [] OTHER -> 4]
MCManifestWorlds ==
  [manifests : {<<Unusable, [ecosystem |-> "pypi", declared |-> <<"B", "b", "a">>],
                  [ecosystem |-> "npm", declared |-> <<"e", "B", "@own/p", "b", "a", "c">>]>>,
                <<[ecosystem |-> "npm", declared |-> <<"@own/p">>]>>},
   published : SUBSET {1, 2, 3}]

MCInit ==
  /\ program \in {"quota", "target", "registry", "tls", "scan", "batch", "pool", "calibration", "benchmark"}
  /\ FindingsInit /\ BatchInit /\ PoolInit /\ CalibrationInit /\ BenchInit /\ QuotaInit /\ TargetInit /\ RegistryInit /\ TlsInit
  /\ program = "scan" \/ page = NoPage
  /\ program = "batch" \/ batch.starts = 1
  /\ program = "pool" \/ world = CHOOSE w \in MCPoolWorlds : TRUE
  /\ program = "benchmark" \/ offline
  /\ program = "target" \/ target = "site.com"
  /\ program = "registry" \/ registryWorld = CHOOSE w \in MCManifestWorlds : TRUE
  /\ program = "tls" \/ offered = {}

Others(p) ==
  /\ program = p /\ UNCHANGED program
  /\ (p # "scan" => UNCHANGED findingVars)
  /\ (p # "batch" => UNCHANGED batchVars)
  /\ (p # "pool" => UNCHANGED poolVars)
  /\ (p # "calibration" => UNCHANGED calibrationVars)
  /\ (p # "benchmark" => UNCHANGED benchVars)
  /\ (p # "quota" => UNCHANGED quotaVars)
  /\ (p # "target" => UNCHANGED targetVars)
  /\ (p # "registry" => UNCHANGED registryVars)
  /\ (p # "tls" => UNCHANGED tlsVars)

MCNext ==
  \/ Others("scan") /\ FindingsNext
  \/ Others("batch") /\ BatchNext
  \/ Others("pool") /\ PoolNext
  \/ Others("calibration") /\ CalibrationNext
  \/ Others("benchmark") /\ BenchNext
  \/ Others("quota") /\ QuotaNext /\ InOrder'
  \/ Others("target") /\ TargetNext
  \/ Others("registry") /\ RegistryNext
  \/ Others("tls") /\ TlsNext

\* A batch that is not killed goes on: every attempt ends at the outer timeout.
MCSpec == MCInit /\ [][MCNext]_mcVars /\ WF_mcVars(Others("batch") /\ BatchStep)

\* The liveness property of EvalBatch.
EveryBatchEnds == program = "batch" => BatchEnds
=============================================================================
