--------------------------- MODULE CandidatePool ---------------------------
(***************************************************************************)
(* The candidate pool of the large evaluation run (src/worker/evaluation): *)
(* build_candidate_pool.py draws it in strata, apply_pool_exclusions.py    *)
(* replaces in it what must not be scanned, as often as it is run. A       *)
(* seeded draw is a choice of any subset of its size.                      *)
(***************************************************************************)
EXTENDS Integers, FiniteSets, FiniteSetsExt

CONSTANTS
  Strata,       \* STRATUM_PRIORITY, as numbers from the highest priority to the lowest
  Bands,        \* the strata that are rank bands, which share the rank at their border
  Wanted,       \* [stratum -> how many to draw at most]
  Normalized,   \* [domain -> in lower case, without "www."]
  PoolWorlds,   \* [candidates |-> [stratum -> domains], blocked |-> domains, calibration |-> domains]
  MaxPasses,
  NoPool

ASSUME PoolAssumption ==
  /\ Strata \subseteq Nat /\ IsFiniteSet(Strata) /\ Bands \subseteq Strata /\ MaxPasses \in Nat
  /\ \A w \in PoolWorlds : \A s \in Strata :
       w.candidates[s] \subseteq DOMAIN Normalized /\ IsFiniteSet(w.candidates[s])

VARIABLES world,    \* the candidates, the blocklist with the confirmed domains, the calibration sample
          pool,     \* candidate_pool_n800.csv: a set of rows, or NoPool
          passes,   \* passes that have ended
          pending,  \* strata whose replacements the running pass has yet to draw
          drawn     \* its replacements so far
poolVars == <<world, pool, passes, pending, drawn>>

Count(rows, s) == Cardinality({r \in rows : r.stratum = s})
Domains(rows) == {r.domain : r \in rows}

PoolInit ==
  /\ world \in PoolWorlds
  /\ pool = NoPool
  /\ passes = 0 /\ pending = {} /\ drawn = {}

-----------------------------------------------------------------------------
(* build_candidate_pool.py *)

\* Of the rows with one normalised domain, one of the highest stratum.
Deduped(rows) ==
  {keep \in SUBSET rows :
     /\ \A r \in rows : \E k \in keep :
          Normalized[k.domain] = Normalized[r.domain] /\ k.stratum <= r.stratum
     /\ \A k, l \in keep : k # l => Normalized[k.domain] # Normalized[l.domain]}

Candidates == UNION {[stratum : {s}, domain : world.candidates[s]] : s \in Strata}
Quota(s) == Min({Wanted[s], Cardinality(world.candidates[s])})

\* A band with too few domains raises, and there is no pool.
Builds ==
  /\ pool = NoPool
  /\ \A s \in Bands : Quota(s) = Wanted[s]
  /\ \E rows \in SUBSET Candidates :
       /\ \A s \in Strata : Count(rows, s) = Quota(s)
       /\ pool' \in Deduped(rows)
  /\ UNCHANGED <<world, passes, pending, drawn>>

-----------------------------------------------------------------------------
(* apply_pool_exclusions.py *)

\* The calibration sample is compared as it is spelled.
Excluded == {r \in pool : Normalized[r.domain] \in world.blocked \/ r.domain \in world.calibration}

\* As NeverUse, only with what the pass itself removes and draws.
NeverUseAgain == Domains(pool) \cup Domains(drawn)
NeverUse == Domains(pool) \cup Domains(drawn) \cup world.blocked \cup world.calibration

PassStarts ==
  /\ pool # NoPool /\ passes < MaxPasses /\ pending = {} /\ Excluded # {}
  /\ pending' = {r.stratum : r \in Excluded}
  /\ UNCHANGED <<world, pool, passes, drawn>>

Needed(s) == Count(Excluded, s)
Eligible(s) == world.candidates[s] \ NeverUse

\* The last stratum's draw is followed by the two checks and the new files.
Draws(s) ==
  /\ s \in pending /\ Cardinality(Eligible(s)) >= Needed(s)
  /\ \E chosen \in kSubset(Needed(s), Eligible(s)) :
       LET all == drawn \cup [stratum : {s}, domain : chosen]
           new == (pool \ Excluded) \cup all
       IN  IF pending # {s}
             THEN drawn' = all /\ UNCHANGED <<pool, passes>>
             ELSE /\ drawn' = {} /\ passes' = passes + 1
                  /\ pool' = IF /\ Cardinality(new) = Cardinality(pool)
                                /\ Cardinality(Domains(new)) = Cardinality(new)
                               THEN new ELSE pool
  /\ pending' = pending \ {s}
  /\ UNCHANGED world

\* Too few replacements: the pass raises and writes nothing.
DrawFails(s) ==
  /\ s \in pending /\ Cardinality(Eligible(s)) < Needed(s)
  /\ pending' = {} /\ drawn' = {} /\ passes' = passes + 1
  /\ UNCHANGED <<world, pool>>

PoolNext == Builds \/ PassStarts \/ \E s \in Strata : Draws(s) \/ DrawFails(s)

PoolSpec == PoolInit /\ [][PoolNext]_poolVars

-----------------------------------------------------------------------------
\* A pass that rewrites the pool keeps the size of every stratum and every row it
\* had no reason to exclude, and leaves nothing that a second pass would replace: no
\* replacement is blocked, in the calibration sample, in the pool already, or drawn
\* for two strata whose bands share a rank (apply_pool_exclusions.py:189-232).
\* A domain that a source spells with "www." is left out: see the README.
PassIsClean ==
  [][pool # NoPool /\ pool' # pool =>
       /\ \A s \in Strata : Count(pool', s) = Count(pool, s)
       /\ pool \ Excluded \subseteq pool'
       /\ Cardinality(Domains(pool')) = Cardinality(pool')
       /\ \A r \in Excluded' : Normalized[r.domain] # r.domain]_poolVars

-----------------------------------------------------------------------------
PoolTypeOK ==
  /\ world \in PoolWorlds
  /\ pool = NoPool \/ pool \subseteq Candidates
  /\ passes \in Nat
  /\ pending \subseteq Strata
  /\ drawn \subseteq Candidates

\* Why PassIsClean: while a pass draws, it has replaced what it needs of every stratum
\* that is not pending, by domains that are not in the pool and not excluded.
DrawInv ==
  /\ pending = {} => drawn = {}
  /\ pending # {} => pool # NoPool /\ \A s \in Strata : Count(drawn, s) = IF s \in pending THEN 0 ELSE Needed(s)
  /\ \A r \in drawn : r.domain \notin Domains(pool) \cup world.blocked \cup world.calibration
=============================================================================
