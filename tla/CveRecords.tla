----------------------------- MODULE CveRecords -----------------------------
(***************************************************************************)
(* What the OSV sync of the Worker (src/worker/osv_cve_sync.py) and the    *)
(* CVE ETL (src/cve-pipeline/cve_etl.py) make of OSV's advisories, and     *)
(* what the frontend library scout makes of the rows. Both programs have   *)
(* the same extraction and each its own merge of rows with one key.        *)
(* Versions are numbers in their order, which semver and                   *)
(* packaging.version share, 0 being "0"; scores are tenths.                *)
(***************************************************************************)
EXTENDS Integers, Sequences, FiniteSets, FiniteSetsExt

CONSTANTS
  Libraries,    \* the keys of LIBRARY_SIGNATURES, in order
  Versions,     \* the versions that occur
  Unparsable,   \* those that packaging.version rejects
  SortKey,      \* [version -> the place of its _parse_version_tuple among those tuples]
  CveIds,       \* the ids that start with "CVE-"
  Worlds,       \* the states of OSV that occur: [library -> sequence of advisories]
  MaxChanges,   \* how often OSV changes
  None          \* the empty string: no bound, no CWE

Libs == {Libraries[i] : i \in DOMAIN Libraries}

Event == [kind : {"introduced", "fixed", "last_affected", "limit"}, at : Versions]
Affected == [package : STRING, semver : Seq(Seq(Event)), versions : Seq(Versions)]
Advisory == [id : STRING, aliases : Seq(STRING), affected : Seq(Affected), vectors : Seq({None} \cup Nat),
             cwe : {None} \cup STRING, label : Nat, malicious : BOOLEAN, malformed : BOOLEAN]

ASSUME RecordsAssumption ==
  /\ Libraries \in Seq(Libs)
  /\ Versions \subseteq Nat /\ 0 \in Versions /\ None \notin Nat /\ None \notin Advisory
  /\ Unparsable \subseteq Versions /\ SortKey \in [Versions -> Nat]
  /\ MaxChanges \in Nat
  /\ Worlds \subseteq [Libs -> Seq(Advisory)]

VARIABLES upstream, changes   \* what OSV knows now

UpstreamInit == upstream \in Worlds /\ changes = 0

UpstreamChanges ==
  /\ changes < MaxChanges
  /\ upstream' \in Worlds \ {upstream}
  /\ changes' = changes + 1

-----------------------------------------------------------------------------
(* From an advisory to a row *)

CveId(v) ==
  LET cves == {i \in DOMAIN v.aliases : v.aliases[i] \in CveIds}
  IN  IF cves = {} THEN v.id ELSE v.aliases[Min(cves)]

\* A malicious package has a fixed score; otherwise the first CVSS_V3 vector that
\* parses, the qualitative label, 0.
Cvss(v) ==
  LET parsed == {i \in DOMAIN v.vectors : v.vectors[i] # None}
  IN  CASE v.malicious -> 98
        [] ~v.malicious /\ parsed # {} -> v.vectors[Min(parsed)]
        [] OTHER -> v.label

Cwe(v) == IF v.malicious THEN "CWE-506" ELSE v.cwe

\* As Bounds, from the first "introduced" event.
BoundsFromFirst(events) ==
  LET At(kind) == {i \in DOMAIN events : events[i].kind = kind}
  IN  [lo |-> IF At("introduced") = {} THEN 0 ELSE events[Min(At("introduced"))].at,
       hi |-> IF At("fixed") = {} THEN None ELSE events[Max(At("fixed"))].at]

\* The last event of either of these two kinds; of the others nothing is read.
Bounds(events) ==
  LET At(kind) == {i \in DOMAIN events : events[i].kind = kind}
  IN  [lo |-> IF At("introduced") = {} THEN 0 ELSE events[Max(At("introduced"))].at,
       hi |-> IF At("fixed") = {} THEN None ELSE events[Max(At("fixed"))].at]

\* The first SEMVER range or list of versions given for the library; the last
\* listed version serves as the excluded end.
AffectedRange(v, lib) ==
  LET entries == {i \in DOMAIN v.affected :
                    /\ v.affected[i].package = lib
                    /\ v.affected[i].semver # <<>> \/ v.affected[i].versions # <<>>}
      a == v.affected[Min(entries)]
  IN  CASE entries = {} -> [lo |-> None, hi |-> None]
        [] entries # {} /\ a.semver # <<>> -> Bounds(Head(a.semver))
        [] OTHER -> [lo |-> Head(a.versions), hi |-> a.versions[Len(a.versions)]]

Row(v, lib) ==
  LET r == AffectedRange(v, lib)
  IN  [cve |-> CveId(v), lo |-> r.lo, hi |-> r.hi, cvss |-> Cvss(v), cwe |-> Cwe(v)]

\* Of each advisory its row and its place; build_rows_for_package leaves a malformed one out.
RowsOf(vulns, lib) ==
  {[at |-> n, row |-> Row(vulns[n], lib)] : n \in {m \in DOMAIN vulns : ~vulns[m].malformed}}

-----------------------------------------------------------------------------
(* Merging the rows of one library and CVE, in the order OSV gave them *)

Same(rows, cve) == {r \in rows : r.row.cve = cve}
Cves(rows) == {r.row.cve : r \in rows}
Values(rows, f) == {r.row[f] : r \in rows}
First(rows) == (CHOOSE r \in rows : \A q \in rows : r.at <= q.at).row

\* The higher score and the first CWE there is; everything else is the first row's.
MergeScores(same) ==
  LET weak == {r \in same : r.row.cwe # None}
  IN  [First(same) EXCEPT !.cvss = Max(Values(same, "cvss")),
                          !.cwe = IF weak = {} THEN None ELSE First(weak).cwe]

\* _parse_version_tuple: an empty bound counts as the lowest; a prerelease counts as
\* its release, what is not numeric as the lowest.
Parsed(v) == IF v = None THEN 0 ELSE SortKey[v]

\* The bound that counts as the lowest or the highest; the first of those that tie.
Lowest(rows) == First({r \in rows : \A q \in rows : Parsed(r.row.lo) <= Parsed(q.row.lo)}).lo
Highest(rows) == First({r \in rows : \A q \in rows : Parsed(q.row.hi) <= Parsed(r.row.hi)}).hi

\* As MergeRanges, with an unfixed row's ceiling counting as the lowest.
MergeRangesByTuple(same) ==
  [MergeScores(same) EXCEPT !.lo = Lowest(same), !.hi = Highest(same)]

\* The ETL's merge also widens the range; a row without a fix has no ceiling.
MergeRanges(same) ==
  [MergeScores(same) EXCEPT !.lo = Lowest(same),
                            !.hi = IF None \in Values(same, "hi") THEN None ELSE Highest(same)]

-----------------------------------------------------------------------------
(* The reader *)

\* _version_in_cve_range: whatever does not parse is a bound that nothing meets.
InRange(version, row) ==
  /\ version \notin Unparsable
  /\ row.lo = None \/ (row.lo \notin Unparsable /\ version >= row.lo)
  /\ row.hi = None \/ (row.hi \notin Unparsable /\ version < row.hi)

\* OSV's own reading of a range: from an introduction on, before the next fix, up to
\* the next last affected version, and before a limit if any is given.
Vulnerable(version, events) ==
  LET At(kind) == {e.at : e \in {events[i] : i \in {j \in DOMAIN events : events[j].kind = kind}}}
  IN  /\ \E start \in At("introduced") :
           /\ start <= version
           /\ At("fixed") \cap start + 1..version = {}
           /\ At("last_affected") \cap start..version - 1 = {}
      /\ At("limit") = {} \/ \E end \in At("limit") : version < end

\* Beyond an end that the extraction does not read.
Overlooked(version, events) ==
  \E i \in DOMAIN events :
    \/ events[i].kind = "last_affected" /\ events[i].at \in Bounds(events).lo..version - 1
    \/ events[i].kind = "limit" /\ events[i].at <= version

\* Every fix that the extraction reads ends the last interval.
FixedAtLast(events) ==
  (\E i \in DOMAIN events : events[i].kind = "fixed") => events[Len(events)].kind = "fixed"

\* What the scout makes of an advisory's range, of which the extraction keeps one start
\* and one fix (osv_cve_sync.py:146-151, cve_etl.py:224-229): it flags a version that
\* is not vulnerable only beyond a last affected version or a limit; and it flags the
\* vulnerable versions of the last interval, if a fix or nothing ends that and its
\* bounds are versions.
ExtractionIsSound ==
  \A lib \in Libs : \A n \in DOMAIN upstream[lib] :
    LET v == upstream[lib][n] IN
    \A i \in DOMAIN v.affected :
      ~v.malformed /\ v.affected[i].package = lib /\ v.affected[i].semver # <<>> =>
        LET events == Head(v.affected[i].semver)
            row == Row(v, lib)
        IN  \A version \in Versions :
              /\ InRange(version, row) => Vulnerable(version, events) \/ Overlooked(version, events)
              /\ /\ Vulnerable(version, events) /\ version >= row.lo /\ FixedAtLast(events)
                 /\ {version, row.lo, row.hi} \cap Unparsable = {}
                 => InRange(version, row)
=============================================================================
