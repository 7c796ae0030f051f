------------------------------- MODULE MCCve -------------------------------
(* The two programs that read OSV, one of them per behaviour: they share  *)
(* nothing but OSV's answers.                                              *)
EXTENDS OsvSync, CveEtl, TLC

VARIABLE program
mcVars == <<program, upstream, changes, syncVars, etlVars>>

Until(lo, kind, hi) == <<[kind |-> "introduced", at |-> lo], [kind |-> kind, at |-> hi]>>
Sem(lo, hi) == IF hi = None THEN <<[kind |-> "introduced", at |-> lo]>> ELSE Until(lo, "fixed", hi)
Affects(lib, events) == [package |-> lib, semver |-> <<events>>, versions |-> <<>>]
Entry(id, aliases, affected, vectors, cwe) ==
  [id |-> id, aliases |-> aliases, affected |-> affected, vectors |-> vectors, cwe |-> cwe,
   label |-> 54, malicious |-> FALSE, malformed |-> FALSE]

\* An advisory without a CVE id, and with it; the same CVE from another source, for
\* both libraries; two intervals in one range; a malicious version; a malformed entry;
\* fixes in a prerelease and in a version that does not parse; other ends of a range.
Early == Entry("G1", <<>>, <<Affects("jquery", Sem(1, 2))>>, <<50>>, None)
Named == [Early EXCEPT !.aliases = <<"C1">>]
Wide  == Entry("G2", <<"G1", "C1">>, <<Affects("jquery", Sem(0, None)), Affects("bootstrap", Sem(2, 3))>>,
                  <<None, 70>>, "CWE-79")
Twice == Entry("G3", <<"C2">>, <<Affects("jquery", Sem(0, 1) \o Sem(2, 3))>>, <<>>, "CWE-79")
Bad   == [Entry("M1", <<>>, <<[package |-> "jquery", semver |-> <<>>, versions |-> <<2>>]>>, <<>>, None)
            EXCEPT !.malicious = TRUE]
Junk  == [Early EXCEPT !.malformed = TRUE]

Rc    == Entry("G4", <<"C2">>, <<Affects("jquery", Sem(1, 2))>>, <<>>, None)
Odd   == Entry("G5", <<"C1">>, <<Affects("jquery", Sem(1, 4))>>, <<>>, None)
Shut  == Entry("G6", <<>>, <<Affects("bootstrap", Until(1, "last_affected", 2))>>, <<>>, None)
Most  == Entry("G6", <<>>, <<Affects("bootstrap", Sem(0, 1) \o Until(2, "limit", 3))>>, <<>>, None)

MCLibraries == <<"jquery", "bootstrap">>
MCVersions == 0..4
\* 2 is a prerelease of 3; 4 has a key, but does not parse.
MCUnparsable == {4}
MCSortKey == [v \in MCVersions |-> IF v = 2 THEN 3 ELSE v]
MCCveIds == {"C1", "C2"}
MCWorlds ==
  {[jquery |-> <<Early, Odd>>, bootstrap |-> <<Wide>>],
   [jquery |-> <<Named, Wide>>, bootstrap |-> <<Wide>>],
   [jquery |-> <<Rc, Twice, Bad>>, bootstrap |-> <<Shut, Most>>],
   [jquery |-> <<Junk, Wide, Named>>, bootstrap |-> <<>>]}

MCInit == program \in {"timer", "etl"} /\ UpstreamInit /\ SyncInit /\ EtlInit

MCNext ==
  /\ UNCHANGED program
  /\ \/ program = "timer" /\ OsvNext /\ UNCHANGED etlVars
     \/ program = "etl" /\ EtlOsvNext /\ UNCHANGED syncVars

\* The timer fires, and a run of it goes on to its end.
MCSpec ==
  /\ MCInit /\ [][MCNext]_mcVars
  /\ WF_mcVars(program = "timer" /\ SyncStep /\ UNCHANGED <<program, upstream, changes, etlVars>>)

Heals == <>[](program = "timer" => TableIsCurrent)
=============================================================================
