--------------------------- MODULE RegistryLookup ---------------------------
(***************************************************************************)
(* The hallucinated dependency scout (test_10_hallucinated_deps.py): the   *)
(* first usable manifest the site exposes, and what the public registry    *)
(* says of the packages it declares, a few at a time, until the scout is   *)
(* done or its time is up.                                                 *)
(***************************************************************************)
EXTENDS Integers, Sequences, FiniteSets

CONSTANTS
  ManifestWorlds,      \* [manifests |-> what the site serves at each of MANIFEST_SPECS, in order: the
                       \* names it declares and its ecosystem, or Unusable; published |-> set of norms]
  Norm,                \* [declared name -> its normalised name, as a number in their order]
  Scoped,              \* declared names that start with "@"
  MaxPackages, RegistryConcurrency,
  Unusable

Manifests == [ecosystem : {"npm", "pypi"}, declared : Seq(DOMAIN Norm)]

ASSUME RegistryAssumption ==
  /\ MaxPackages \in Nat /\ RegistryConcurrency \in Nat \ {0}
  /\ \A w \in ManifestWorlds : w.manifests \in Seq({Unusable} \cup Manifests) /\ w.manifests # <<>>
  /\ Unusable \notin Manifests
  /\ Scoped \subseteq DOMAIN Norm /\ \A d \in DOMAIN Norm : Norm[d] \in Nat

VARIABLES registryWorld,
          probed,      \* manifest paths asked for so far
          registryPc,  \* "probing", "looking", "done", "expired"
          lookups       \* [declared name to check -> "queued", "asking" or its RegistryResult]
registryVars == <<registryWorld, probed, registryPc, lookups>>

Manifest == registryWorld.manifests[probed]
Results == {"PRESENT", "ABSENT", "INCONCLUSIVE"}

RegistryInit ==
  /\ registryWorld \in ManifestWorlds
  /\ probed = 0 /\ registryPc = "probing" /\ lookups = <<>>

-----------------------------------------------------------------------------
\* _dedup: of each normalised name the first spelling.
Dedup(declared) ==
  LET First(i) == \A k \in 1..(i - 1) : Norm[declared[k]] # Norm[declared[i]]
  IN  {declared[i] : i \in {k \in DOMAIN declared : First(k)}}

\* A scoped npm name may be private: its 404 says nothing.
Skipped(manifest, d) == manifest.ecosystem = "npm" /\ d \in Scoped

Packages(manifest) == {d \in Dedup(manifest.declared) : ~Skipped(manifest, d)}

\* The first in the order of the normalised names, up to the cap.
Checkable(manifest) ==
  {d \in Packages(manifest) :
     Cardinality({c \in Packages(manifest) : Norm[c] < Norm[d]}) < MaxPackages}

-----------------------------------------------------------------------------
\* A manifest is passed over if its request fails in any way.
Probes ==
  LET served == registryWorld.manifests[probed + 1] IN
  /\ registryPc = "probing"
  /\ probed' = probed + 1
  /\ \/ /\ registryPc' = IF probed' = Len(registryWorld.manifests) THEN "done" ELSE "probing"
        /\ UNCHANGED lookups
     \/ /\ served # Unusable
        /\ registryPc' = IF Checkable(served) = {} THEN "done" ELSE "looking"
        /\ lookups' = [d \in Checkable(served) |-> "queued"]
  /\ UNCHANGED registryWorld

\* The semaphore around _lookup_package.
Asks(d) ==
  /\ registryPc = "looking" /\ lookups[d] = "queued"
  /\ Cardinality({e \in DOMAIN lookups : lookups[e] = "asking"}) < RegistryConcurrency
  /\ lookups' = [lookups EXCEPT ![d] = "asking"]
  /\ UNCHANGED <<registryWorld, probed, registryPc>>

Concludes(d, result) ==
  /\ registryPc = "looking" /\ lookups[d] = "asking"
  /\ lookups' = [lookups EXCEPT ![d] = result]
  /\ registryPc' = IF \A e \in DOMAIN lookups : lookups'[e] \in Results THEN "done" ELSE "looking"
  /\ UNCHANGED <<registryWorld, probed>>

RegistryAnswers(d) ==
  Concludes(d, IF Norm[d] \in registryWorld.published THEN "PRESENT" ELSE "ABSENT")

\* A timeout, an error, any other status, a body that is not metadata.
LookupFails(d) == Concludes(d, "INCONCLUSIVE")

\* The orchestrator's wait_for: nothing of the scout is kept.
ScoutTimeUp ==
  /\ registryPc \in {"probing", "looking"}
  /\ registryPc' = "expired" /\ lookups' = <<>>
  /\ UNCHANGED <<registryWorld, probed>>

RegistryNext ==
  \/ Probes \/ ScoutTimeUp
  \/ \E d \in DOMAIN lookups : Asks(d) \/ RegistryAnswers(d) \/ LookupFails(d)

RegistrySpec == RegistryInit /\ [][RegistryNext]_registryVars

-----------------------------------------------------------------------------
Concluded(result) == {d \in DOMAIN lookups : lookups[d] = result}

\* What the scout returns: a critical finding for each name, one for all the
\* unknown ones, and the counts in its details.
Hallucinated == IF registryPc = "done" THEN Concluded("ABSENT") ELSE {}
ScoutDetails ==
  [declared |-> Cardinality(Dedup(Manifest.declared)),
   skipped |-> Cardinality({d \in Dedup(Manifest.declared) : Skipped(Manifest, d)}),
   overCap |-> Cardinality(Packages(Manifest)) - Cardinality(DOMAIN lookups),
   counts |-> [r \in Results |-> Cardinality(Concluded(r))]]

\* A critical finding is about a package that the registry does not have, whatever
\* lookups fail beside it; two spellings of a package are one finding; and every
\* package of a manifest is in exactly one of the counts (test_10_hallucinated_deps.py:342-385, 585-640).
OnlyTheMissingAreReported ==
  /\ \A d \in Hallucinated : Norm[d] \notin registryWorld.published /\ ~Skipped(Manifest, d)
  /\ \A c, d \in DOMAIN lookups : Norm[c] = Norm[d] => c = d
  /\ registryPc = "done" /\ lookups # <<>> =>
       LET details == ScoutDetails
       IN  /\ details.declared = details.skipped + details.overCap
                + details.counts["PRESENT"] + details.counts["ABSENT"] + details.counts["INCONCLUSIVE"]
           /\ details.overCap > 0 => Cardinality(DOMAIN lookups) = MaxPackages

-----------------------------------------------------------------------------
RegistryTypeOK ==
  /\ registryWorld \in ManifestWorlds
  /\ probed \in 0..Len(registryWorld.manifests)
  /\ registryPc \in {"probing", "looking", "done", "expired"}
  /\ lookups \in [DOMAIN lookups -> {"queued", "asking"} \cup Results]

\* What is looked up are the packages of the manifest that was taken; a package is
\* absent only by the registry's own answer; all are concluded when the scout is done.
RegistryInv ==
  /\ registryPc = "probing" => probed < Len(registryWorld.manifests) /\ lookups = <<>>
  /\ lookups = <<>> \/ (probed > 0 /\ Manifest # Unusable /\ DOMAIN lookups = Checkable(Manifest))
  /\ \A d \in DOMAIN lookups : lookups[d] = "ABSENT" => Norm[d] \notin registryWorld.published
  /\ registryPc = "done" => \A d \in DOMAIN lookups : lookups[d] \in Results
=============================================================================
