------------------------------ MODULE OsvSync ------------------------------
(***************************************************************************)
(* sync_osv_cve_cache, the timer of the Worker (src/worker/                *)
(* function_app.py), and run_sync (osv_cve_sync.py): every library is      *)
(* queried in turn, the rows are merged, and each is upserted into the     *)
(* table that the frontend library scout of any scan may be reading. The   *)
(* timer's lock (external) lets one run happen at a time.                  *)
(***************************************************************************)
EXTENDS CveRecords

CONSTANT MaxFaults   \* how often OSV, the table or the process fails

ASSUME FaultsAssumption == MaxFaults \in Nat

VARIABLES
  sync,     \* "idle", "querying" or "writing"
  next,     \* the library to query, as an index of Libraries
  answer,   \* the rows this run, or the last one, made of the answer for each library
  left,     \* keys still to write
  unwritten,\* keys whose write failed
  table,    \* the CVE table: [library -> [cve -> row]]
  given,    \* the rows of every answer OSV ever gave
  faults

syncVars == <<sync, next, answer, left, unwritten, table, given, faults>>

Skipped == {None}
NoAnswers == [lib \in Libs |-> Skipped]

SyncInit ==
  /\ sync = "idle" /\ next = 1 /\ left = {} /\ unwritten = {} /\ faults = 0
  /\ answer = NoAnswers
  /\ table = [lib \in Libs |-> <<>>]
  /\ given = [lib \in Libs |-> {}]

Fault == faults < MaxFaults /\ faults' = faults + 1

Answered == {lib \in Libs : answer[lib] # Skipped}

-----------------------------------------------------------------------------
(* The merge *)

\* The row of a key after dedupe_rows.
Merged(own, cve) == MergeScores(Same(own, cve))

Keys == UNION {{lib} \X Cves(answer[lib]) : lib \in Answered}

-----------------------------------------------------------------------------
TimerFires ==
  /\ sync = "idle"
  /\ sync' = "querying" /\ next' = 1
  /\ answer' = NoAnswers /\ unwritten' = {}
  /\ UNCHANGED <<left, table, given, faults>>

QueryAnswered ==
  /\ sync = "querying" /\ next <= Len(Libraries)
  /\ LET lib == Libraries[next]
     IN  /\ answer' = [answer EXCEPT ![lib] = RowsOf(upstream[lib], lib)]
         /\ given' = [given EXCEPT ![lib] = @ \cup {RowsOf(upstream[lib], lib)}]
  /\ next' = next + 1
  /\ UNCHANGED <<sync, left, unwritten, table, faults>>

\* As QueryFails, with the rest of the libraries given up as well.
QueryFailureEndsRun ==
  /\ sync = "querying" /\ next <= Len(Libraries)
  /\ Fault
  /\ sync' = "idle"
  /\ UNCHANGED <<next, answer, left, unwritten, table, given>>

\* Timeout, error status or malformed JSON: this library is skipped.
QueryFails ==
  /\ sync = "querying" /\ next <= Len(Libraries)
  /\ Fault
  /\ next' = next + 1
  /\ UNCHANGED <<sync, answer, left, unwritten, table, given>>

\* As StartWriting, emptying the table for the new rows.
StartWritingAfresh ==
  /\ sync = "querying" /\ next > Len(Libraries)
  /\ sync' = "writing" /\ left' = Keys
  /\ table' = [lib \in Libs |-> <<>>]
  /\ UNCHANGED <<next, answer, unwritten, given, faults>>

StartWriting ==
  /\ sync = "querying" /\ next > Len(Libraries)
  /\ sync' = "writing" /\ left' = Keys
  /\ UNCHANGED <<next, answer, unwritten, table, given, faults>>

WithRow(rows, cve, row) == [c \in DOMAIN rows \cup {cve} |-> IF c = cve THEN row ELSE rows[c]]

\* As Upsert, leaving a row that exists alone.
Insert(lib, cve) ==
  table' = [table EXCEPT ![lib] =
              IF cve \in DOMAIN @ THEN @ ELSE WithRow(@, cve, Merged(answer[lib], cve))]

\* As Upsert, with rows that are told apart by their CVE alone.
UpsertByCve(lib, cve) ==
  \E other \in Answered :
    /\ cve \in Cves(answer[other])
    /\ table' = [table EXCEPT ![lib] = WithRow(@, cve, Merged(answer[other], cve))]

\* The row's key is its library and CVE; rows under other keys stay, also those of
\* advisories that OSV has withdrawn or renamed.
Upsert(lib, cve) ==
  table' = [table EXCEPT ![lib] = WithRow(@, cve, Merged(answer[lib], cve))]

RowWritten ==
  /\ sync = "writing"
  /\ \E k \in left : Upsert(k[1], k[2]) /\ left' = left \ {k}
  /\ UNCHANGED <<sync, next, answer, unwritten, given, faults>>

RowFails ==
  /\ sync = "writing"
  /\ Fault
  /\ \E k \in left : left' = left \ {k} /\ unwritten' = unwritten \cup {k}
  /\ UNCHANGED <<sync, next, answer, table, given>>

SyncEnds ==
  /\ sync = "writing" /\ left = {}
  /\ sync' = "idle"
  /\ UNCHANGED <<next, answer, left, unwritten, table, given, faults>>

\* The process ends, or an exception reaches the timer function, which logs it.
SyncStops ==
  /\ sync # "idle"
  /\ Fault
  /\ sync' = "idle" /\ answer' = NoAnswers /\ left' = {}
  /\ UNCHANGED <<next, unwritten, table, given>>

SyncStep == TimerFires \/ QueryAnswered \/ StartWriting \/ RowWritten \/ SyncEnds

SyncNext == SyncStep \/ QueryFails \/ RowFails \/ SyncStops

\* The sync and OSV, which changes at any moment.
OsvNext == \/ SyncNext /\ UNCHANGED <<upstream, changes>>
           \/ UpstreamChanges /\ UNCHANGED syncVars

OsvSpec == UpstreamInit /\ SyncInit /\ [][OsvNext]_<<syncVars, upstream, changes>>

-----------------------------------------------------------------------------
\* The types of the sync's state; only a run that writes has keys left to write,
\* and they are keys of its answers.
SyncTypeOK ==
  /\ sync \in {"idle", "querying", "writing"}
  /\ next \in 1..Len(Libraries) + 1
  /\ faults \in 0..MaxFaults
  /\ DOMAIN answer = Libs /\ DOMAIN table = Libs /\ DOMAIN given = Libs
  /\ left \subseteq Keys /\ (sync # "writing" => left = {})

\* What a scan reads, at any moment of a run: every row is the merge of one answer
\* that OSV gave for that library, never a mixture of answers or of libraries.
RowsAreAnswered ==
  \A lib \in Libs : \A cve \in DOMAIN table[lib] :
    \E own \in given[lib] : cve \in Cves(own) /\ table[lib][cve] = Merged(own, cve)

\* A run that ends by itself has stored what OSV answered for each library,
\* whatever failed for other libraries or other rows.
FailuresAreIsolated ==
  sync = "idle" => \A k \in Keys \ unwritten :
    /\ k[2] \in DOMAIN table[k[1]]
    /\ table[k[1]][k[2]] = Merged(answer[k[1]], k[2])

\* Why the two above hold: what a run merges is an answer of its own, and a key that
\* is neither left nor unwritten has its row.
MergeInv ==
  /\ \A lib \in Answered : answer[lib] \in given[lib]
  /\ sync \in {"idle", "writing"} => \A k \in Keys \ (left \cup unwritten) :
       /\ k[2] \in DOMAIN table[k[1]]
       /\ table[k[1]][k[2]] = Merged(answer[k[1]], k[2])

\* A row that scans can read stays readable, during and after every run: "a failed
\* sync leaves the cache at its previous (still valid, just staler) state"
\* (src/worker/function_app.py:134).
RowsStayReadable ==
  [][\A lib \in Libs : DOMAIN table[lib] \subseteq DOMAIN table'[lib]]_<<syncVars, upstream, changes>>

\* The table holds every row of OSV's present answers.
TableIsCurrent ==
  \A lib \in Libs :
    LET own == RowsOf(upstream[lib], lib)
    IN  \A cve \in Cves(own) : cve \in DOMAIN table[lib] /\ table[lib][cve] = Merged(own, cve)

\* "A cache miss self-heals on the next scheduled run" (osv_cve_sync.py:45): when
\* OSV and the table work again and OSV stops changing, the table comes to hold
\* every row of OSV's present answers, and keeps it.
TableSelfHeals == <>[]TableIsCurrent

\* dedupe_rows's docstring (osv_cve_sync.py:205): "Same (library, cve) merge as
\* cve_etl.py's dedupe_rows()". So the scout, reading the table, flags the versions
\* that it would flag reading the ETL's CSV of the same answer.
TableFlagsWhatCsvFlags ==
  \A lib \in Answered : \A cve \in DOMAIN table[lib] :
    LET same == Same(answer[lib], cve)
    IN  same # {} /\ table[lib][cve] = MergeScores(same) =>
          \A v \in Versions : InRange(v, table[lib][cve]) <=> InRange(v, MergeRanges(same))
=============================================================================
