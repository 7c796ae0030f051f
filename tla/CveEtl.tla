------------------------------- MODULE CveEtl -------------------------------
(***************************************************************************)
(* The CVE ETL (src/cve-pipeline/cve_etl.py), run by hand: every library   *)
(* is queried, or read from a cache on disk, and the merged rows are       *)
(* written to a CSV file. Any error ends the program; it may also be       *)
(* stopped anywhere.                                                       *)
(***************************************************************************)
EXTENDS CveRecords

CONSTANT Torn   \* a file opened with "w" and not written to its end

ASSUME FilesAssumption == Torn \notin Seq(Advisory) /\ None \notin Seq(Advisory)

VARIABLES
  etl,      \* "idle", "fetching", "caching" or "writing"
  turn,     \* the library at hand, as an index of Libraries
  reply,    \* what OSV answered, until it is cached
  cached,   \* CACHE_DIR: [library -> the answer, Torn or <<None>> (no file)]
  rows,     \* [library -> its rows], of the libraries done so far
  csv       \* OUTPUT_CSV: [library -> [cve -> row]], Torn or None

etlVars == <<etl, turn, reply, cached, rows, csv>>

NoFile == <<None>>

EtlInit ==
  /\ etl = "idle" /\ turn = 1 /\ reply = <<>> /\ csv = None
  /\ cached = [lib \in Libs |-> NoFile]
  /\ rows = [lib \in Libs |-> {}]

\* The program, started anew, or at its end for whatever reason.
EtlStarts ==
  /\ etl = "idle"
  /\ etl' = "fetching" /\ turn' = 1 /\ rows' = [lib \in Libs |-> {}]
  /\ UNCHANGED <<reply, cached, csv>>

EtlStops ==
  /\ etl # "idle"
  /\ etl' = "idle"
  /\ UNCHANGED <<turn, reply, cached, rows, csv>>

\* A malformed advisory raises, and main() has no handler.
Collect(vulns) ==
  IF \E i \in DOMAIN vulns : vulns[i].malformed
  THEN etl' = "idle" /\ UNCHANGED <<turn, rows>>
  ELSE /\ rows' = [rows EXCEPT ![Libraries[turn]] = RowsOf(vulns, Libraries[turn])]
       /\ turn' = turn + 1 /\ etl' = "fetching"

Fetching == etl = "fetching" /\ turn <= Len(Libraries)

\* A cache file that exists is used, whatever its age; a torn one is no JSON.
ReadsCache ==
  /\ Fetching
  /\ LET file == cached[Libraries[turn]]
     IN  /\ file # NoFile
         /\ IF file = Torn THEN etl' = "idle" /\ UNCHANGED <<turn, rows>> ELSE Collect(file)
  /\ UNCHANGED <<reply, cached, csv>>

Queries ==
  /\ Fetching /\ cached[Libraries[turn]] = NoFile
  /\ reply' = upstream[Libraries[turn]]
  /\ cached' = [cached EXCEPT ![Libraries[turn]] = Torn]
  /\ etl' = "caching"
  /\ UNCHANGED <<turn, rows, csv>>

\* raise_for_status, a timeout or a reply that is no JSON aborts the batch.
QueryRaises ==
  /\ Fetching /\ cached[Libraries[turn]] = NoFile
  /\ etl' = "idle"
  /\ UNCHANGED <<turn, reply, cached, rows, csv>>

Caches ==
  /\ etl = "caching"
  /\ cached' = [cached EXCEPT ![Libraries[turn]] = reply]
  /\ Collect(reply)
  /\ UNCHANGED <<reply, csv>>

OpensCsv ==
  /\ etl = "fetching" /\ turn > Len(Libraries)
  /\ etl' = "writing" /\ csv' = Torn
  /\ UNCHANGED <<turn, reply, cached, rows>>

\* dedupe_rows, and the rows written to the end.
WritesCsv ==
  /\ etl = "writing"
  /\ csv' = [lib \in Libs |-> [cve \in Cves(rows[lib]) |-> MergeRanges(Same(rows[lib], cve))]]
  /\ etl' = "idle"
  /\ UNCHANGED <<turn, reply, cached, rows>>

EtlNext == \/ EtlStarts \/ EtlStops \/ ReadsCache \/ Queries \/ QueryRaises
           \/ Caches \/ OpensCsv \/ WritesCsv

\* The program and OSV, which changes at any moment.
EtlOsvNext == \/ EtlNext /\ UNCHANGED <<upstream, changes>>
              \/ UpstreamChanges /\ UNCHANGED etlVars

EtlSpec == UpstreamInit /\ EtlInit /\ [][EtlOsvNext]_<<etlVars, upstream, changes>>

-----------------------------------------------------------------------------
Whole(file) == file \notin {NoFile, Torn, None}

\* The sort key has two bounds in the order of the versions they are.
KeyedInOrder(v, w) ==
  /\ {v, w} \cap Unparsable = {}
  /\ v # None /\ Parsed(v) <= Parsed(w) => v = 0 \/ (w # None /\ v <= w)

\* What is left of dedupe_rows's "the widest (most conservative) affected-version
\* range, the higher of the two CVSS scores" (cve_etl.py:252-253) for the file as a
\* whole, the sort key being lossy: a CSV written to its end covers every library, has
\* no lower a score than any advisory of the answers on disk, and flags each version
\* that any of them flags, unless the key has a bound of that advisory and the one
\* that was kept in the wrong order, or takes them for equal.
CsvIsConservative ==
  Whole(csv) => \A lib \in Libs :
    /\ Whole(cached[lib])
    /\ \A n \in DOMAIN cached[lib] :
         LET r == Row(cached[lib][n], lib)
             kept == csv[lib][r.cve]
         IN  /\ r.cve \in DOMAIN csv[lib] /\ kept.cvss >= r.cvss
             /\ KeyedInOrder(kept.lo, r.lo) /\ (kept.hi = None \/ KeyedInOrder(r.hi, kept.hi)) =>
                  \A version \in Versions : InRange(version, r) => InRange(version, kept)

-----------------------------------------------------------------------------
EtlTypeOK ==
  /\ upstream \in Worlds
  /\ etl \in {"idle", "fetching", "caching", "writing"}
  /\ turn \in 1..Len(Libraries) + 1
  /\ reply \in Seq(Advisory)
  /\ cached \in [Libs -> Seq(Advisory) \cup {NoFile, Torn}]
  /\ DOMAIN rows = Libs

\* Why CsvIsConservative: the libraries done so far are those whose answer on disk is
\* whole and sound, and the rows are of that answer; it is never replaced; and a CSV
\* holds what was made of the answers that are still on disk.
Sound(file) == Whole(file) /\ \A n \in DOMAIN file : ~file[n].malformed

CsvInv ==
  /\ etl # "idle" => \A n \in 1..turn - 1 :
       LET lib == Libraries[n]
       IN  Sound(cached[lib]) /\ rows[lib] = RowsOf(cached[lib], lib)
  /\ etl = "caching" => turn <= Len(Libraries) /\ cached[Libraries[turn]] = Torn
  /\ etl = "writing" => turn > Len(Libraries)
  /\ Whole(csv) => \A lib \in Libs :
       LET own == RowsOf(cached[lib], lib)
       IN  Sound(cached[lib]) /\ csv[lib] = [cve \in Cves(own) |-> MergeRanges(Same(own, cve))]
=============================================================================
