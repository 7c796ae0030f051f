----------------------------- MODULE HtmlReport -----------------------------
(***************************************************************************)
(* What the deferred HTML page (future-work/report-html) makes of a report *)
(* of the scanner: which findings have a row, the counts, the top risks    *)
(* and the recommendations.  Findings of the scanner have no status and    *)
(* its scouts no passing_checks, so no finding is a passing check.         *)
(***************************************************************************)
EXTENDS Findings

CONSTANT Folded   \* [title -> stripped, in lower case]

Rendered == {"critical", "high", "medium", "low"}

\* Confidences are compared as text.
TextRank ==
  [c \in DOMAIN ConfRank |->
     CASE c = "verified-static" -> 4 [] c = "verified-live" -> 3
       [] c = "plausible-unconfirmed" -> 2 [] OTHER -> 1]

TitleKey(f) == Folded[f.title]

\* As WorseOfTitle, with the confidence first.
SurerOfTitle(f, g) ==
  \/ TextRank[f.confidence] > TextRank[g.confidence]
  \/ f.confidence = g.confidence /\ SevRank[f.severity] > SevRank[g.severity]

WorseOfTitle(f, g) ==
  \/ SevRank[f.severity] > SevRank[g.severity]
  \/ f.severity = g.severity /\ TextRank[f.confidence] > TextRank[g.confidence]

\* _deduplicate: modules and places are not told apart.
OnePerTitle(findings) ==
  BestPerKey(findings, [f \in Range(findings) |-> TitleKey(f)],
             {p \in Range(findings) \X Range(findings) : WorseOfTitle(p[1], p[2])})

\* Some of them, in the same order.
Picked(findings, places) == LET at == Ascending(places) IN [n \in DOMAIN at |-> findings[at[n]]]

Actionable(r) ==
  LET unique == OnePerTitle(r.findings)
  IN  Picked(unique, {i \in DOMAIN unique : unique[i].severity # "info"})
HiddenInfo(r) ==
  LET unique == OnePerTitle(r.findings)
  IN  Picked(unique, {i \in DOMAIN unique : unique[i].severity = "info"})
TableRows(r) == Actionable(r) \o HiddenInfo(r)

SummaryCounts(r) ==
  [severity \in Rendered |->
     Cardinality({i \in DOMAIN Actionable(r) : Actionable(r)[i].severity = severity})]

\* The first three of the actionable ones, the worst first and otherwise in order.
TopRisks(r) ==
  LET rows == Actionable(r)
      Rank(i) == SevRank[rows[i].severity]
      worst == Arranged(DOMAIN rows, {p \in (DOMAIN rows) \X (DOMAIN rows) :
                                        IF Rank(p[1]) = Rank(p[2]) THEN p[1] < p[2] ELSE Rank(p[1]) > Rank(p[2])})
  IN  [n \in 1..Min({3, Len(worst)}) |-> rows[worst[n]]]

Priority == [critical |-> "P0", high |-> "P1", medium |-> "P2", low |-> "P3"]

\* The tabs of the recommendations; a remediation stays in the most urgent one.
Recommendations(r) ==
  LET Advice(priorities) ==
        {f.remediation : f \in {g \in Range(Actionable(r)) :
                                  g.remediation # "none" /\ Priority[g.severity] \in priorities}}
      immediate == Advice({"P0"})
      short == Advice({"P1"}) \ immediate
  IN  [immediate |-> immediate, short |-> short, long |-> Advice({"P2", "P3"}) \ (immediate \cup short)]

-----------------------------------------------------------------------------
\* Every title has one row, and the row shows the worst finding of that title.
TitlesKeepTheirWorst(r) ==
  \A i \in DOMAIN r.findings :
    LET rows == {j \in DOMAIN TableRows(r) : TitleKey(TableRows(r)[j]) = TitleKey(r.findings[i])}
    IN  /\ Cardinality(rows) = 1
        /\ \A j \in rows : SevRank[TableRows(r)[j].severity] >= SevRank[r.findings[i].severity]

\* The counts add up, and no row that is left out is worse than a top risk, of
\* whatever severity the top risks are.
CountsAndRisksAgree(r) ==
  /\ Len(Actionable(r)) = LET count == SummaryCounts(r) IN count.critical + count.high + count.medium + count.low
  /\ \A f \in Range(Actionable(r)) \ Range(TopRisks(r)) :
       \A g \in Range(TopRisks(r)) : SevRank[g.severity] >= SevRank[f.severity]

\* A remediation is in one tab: that of the worst row that asks for it.
AdviceIsInOneTab(r) ==
  LET Tab(f) == CASE f.severity = "critical" -> "immediate" [] f.severity = "high" -> "short" [] OTHER -> "long"
      tabs == Recommendations(r)
  IN  \A f \in Range(Actionable(r)) : f.remediation # "none" =>
        LET asking == {g \in Range(Actionable(r)) : g.remediation = f.remediation}
            worst == CHOOSE g \in asking : \A h \in asking : SevRank[g.severity] >= SevRank[h.severity]
        IN  {t \in DOMAIN tabs : f.remediation \in tabs[t]} = {Tab(worst)}

\* Where each of the worst findings of a title advises something, the page gives the
\* advice of one of them at least as urgently as it is severe.  What a milder finding
\* of the title advises, or another of the worst, the page may well drop.
WorstAdviceIsGiven(r) ==
  LET Worst(i) == \A j \in DOMAIN r.findings :
        TitleKey(r.findings[j]) = TitleKey(r.findings[i]) =>
          SevRank[r.findings[i].severity] >= SevRank[r.findings[j].severity]
      Peers(i) == {j \in DOMAIN r.findings : Worst(j) /\ TitleKey(r.findings[j]) = TitleKey(r.findings[i])}
      tabs == Recommendations(r)
      InTime(f) == CASE f.severity = "critical" -> tabs.immediate
                     [] f.severity = "high" -> tabs.immediate \cup tabs.short
                     [] OTHER -> tabs.immediate \cup tabs.short \cup tabs.long
  IN  \A i \in DOMAIN r.findings :
        r.findings[i].severity # "info" /\ Worst(i) /\ (\A j \in Peers(i) : r.findings[j].remediation # "none") =>
          \E j \in Peers(i) : r.findings[j].remediation \in InTime(r.findings[i])

\* The page merges the findings of all modules and places that share a title, and
\* yet never shows a title milder than it was found, miscounts its rows, or keeps
\* back the advice that all the worst findings of a title have
\* (report_generator.py:134-148, 663-774).
HtmlKeepsTheWorst ==
  report # NoReport =>
    /\ TitlesKeepTheirWorst(report) /\ CountsAndRisksAgree(report)
    /\ AdviceIsInOneTab(report) /\ WorstAdviceIsGiven(report)
=============================================================================
