-------------------------- MODULE ScoutProbesProofs --------------------------
(***************************************************************************)
(* ScoutProbes for any manifests, registries, servers, caps and failures.  *)
(***************************************************************************)
EXTENDS ScoutProbes, FiniteSetTheorems, TLAPS

(* The cap *)

\* Of a finite set whose members have distinct numbers, those with fewer than M smaller
\* ones beside them are M, unless they are all.
LEMMA FirstOfMany ==
  ASSUME NEW S, IsFiniteSet(S), NEW v, \A d \in S : v[d] \in Nat,
         \A c, d \in S : v[c] = v[d] => c = d, NEW M \in Nat
  PROVE  LET First == {d \in S : Cardinality({c \in S : v[c] < v[d]}) < M}
         IN  First = S \/ Cardinality(First) = M
<1> DEFINE Below(d) == {c \in S : v[c] < v[d]}
           n == Cardinality(S)
           First == {d \in S : Cardinality(Below(d)) < M}
           rank == [d \in S |-> Cardinality(Below(d))]
<1>1. n \in Nat
  BY FS_CardinalityType
<1>2. ASSUME NEW d \in S
      PROVE  IsFiniteSet(Below(d)) /\ Cardinality(Below(d)) \in 0..(n - 1)
  <2>1. Below(d) \subseteq S \ {d}
    OBVIOUS
  <2>2. IsFiniteSet(S \ {d}) /\ Cardinality(S \ {d}) = n - 1
    BY FS_RemoveElement
  <2>3. IsFiniteSet(Below(d)) /\ Cardinality(Below(d)) <= n - 1
    BY <2>1, <2>2, FS_Subset
  <2>4. Cardinality(Below(d)) \in Nat
    BY <2>3, FS_CardinalityType
  <2> QED BY <1>1, <2>3, <2>4
<1>3. ASSUME NEW c \in S, NEW d \in S, v[c] < v[d]
      PROVE  Cardinality(Below(c)) # Cardinality(Below(d))
  <2>1. Below(c) \subseteq Below(d) /\ c \in Below(d) /\ c \notin Below(c)
    BY <1>3
  <2> HIDE DEF Below
  <2> QED BY <1>2, <2>1, FS_Subset
<1>4. rank \in Injection(S, 0..(n - 1))
  <2>1. rank \in [S -> 0..(n - 1)]
    BY <1>2
  <2>2. ASSUME NEW c \in S, NEW d \in S, rank[c] = rank[d] PROVE c = d
    <3>1. v[c] = v[d] \/ v[c] < v[d] \/ v[d] < v[c]
      OBVIOUS
    <3> QED BY <1>3, <2>2, <3>1
  <2> QED BY <2>1, <2>2 DEF Injection, IsInjective
<1>5. IsFiniteSet(0..(n - 1)) /\ Cardinality(0..(n - 1)) = n
  BY <1>1, FS_Interval
<1>6. rank \in Surjection(S, 0..(n - 1))
  BY <1>4, <1>5, FS_Injection
<1>7. ASSUME First # S PROVE Cardinality(First) = M
  <2>1. M <= n - 1
    <3>1. PICK d \in S : ~(Cardinality(Below(d)) < M)
      BY <1>7
    <3> HIDE DEF Below
    <3> QED BY <1>1, <1>2, <3>1
  <2>2. IsFiniteSet(0..(M - 1)) /\ Cardinality(0..(M - 1)) = M
    BY FS_Interval
  <2> DEFINE g == [d \in First |-> Cardinality(Below(d))]
  <2>3. First \subseteq S /\ \A d \in First : g[d] = rank[d] /\ g[d] \in 0..(M - 1)
    <3> SUFFICES ASSUME NEW d \in First PROVE d \in S /\ g[d] = rank[d] /\ g[d] \in 0..(M - 1)
      OBVIOUS
    <3>1. d \in S /\ Cardinality(Below(d)) < M
      OBVIOUS
    <3>2. g[d] = Cardinality(Below(d)) /\ rank[d] = Cardinality(Below(d))
      BY <3>1
    <3> HIDE DEF Below, g, rank, First
    <3>3. Cardinality(Below(d)) \in 0..(n - 1)
      BY <1>2, <3>1
    <3> QED BY <1>1, <3>1, <3>2, <3>3
  <2>4. g \in Injection(First, 0..(M - 1))
    BY <1>4, <2>3 DEF Injection, IsInjective
  <2>5. g \in Surjection(First, 0..(M - 1))
    <3>1. ASSUME NEW k \in 0..(M - 1) PROVE \E d \in First : g[d] = k
      <4>1. k \in 0..(n - 1)
        BY <1>1, <2>1
      <4>2. PICK d \in S : rank[d] = k
        BY <1>6, <4>1 DEF Surjection
      <4>3. d \in First
        BY <4>2
      <4> QED BY <2>3, <4>2, <4>3
    <3>2. g \in [First -> 0..(M - 1)]
      BY <2>3
    <3> QED BY <3>1, <3>2 DEF Surjection
  <2> HIDE DEF g, First
  <2>6. Cardinality(0..(M - 1)) = Cardinality(First)
    BY <2>2, <2>4, <2>5, FS_Injection
  <2> QED BY <2>2, <2>6
<1> QED BY <1>7

-----------------------------------------------------------------------------
(* The hallucinated dependency scout *)

\* The packages of a manifest are finitely many and each has a name of its own.
LEMMA PackagesAreDistinct ==
  ASSUME NEW manifest \in Manifests
  PROVE  LET declared == Dedup(manifest.declared)
         IN  /\ IsFiniteSet(declared) /\ declared \subseteq DOMAIN Norm
             /\ \A c, d \in declared : Norm[c] = Norm[d] => c = d
             /\ Packages(manifest) = declared \ {d \in declared : Skipped(manifest, d)}
             /\ Checkable(manifest) \subseteq Packages(manifest)
<1> DEFINE names == manifest.declared
           declared == Dedup(names)
<1>1. names \in Seq(DOMAIN Norm) /\ DOMAIN names = 1..Len(names) /\ Len(names) \in Nat
  BY DEF Manifests
<1>2. declared \subseteq {names[i] : i \in 1..Len(names)} /\ declared \subseteq DOMAIN Norm
  BY <1>1 DEF Dedup
<1>3. IsFiniteSet(1..Len(names))
  BY <1>1, FS_Interval
<1>4. IsFiniteSet({names[i] : i \in 1..Len(names)})
  <2> DEFINE f == [i \in 1..Len(names) |-> names[i]]
  <2>1. f \in Surjection(1..Len(names), {names[i] : i \in 1..Len(names)})
    BY DEF Surjection
  <2> QED BY <1>3, <2>1, FS_Surjection
<1>5. IsFiniteSet(declared)
  BY <1>2, <1>4, FS_Subset
<1>6. ASSUME NEW c \in declared, NEW d \in declared, Norm[c] = Norm[d] PROVE c = d
  <2>1. PICK i \in 1..Len(names) : names[i] = c /\ \A k \in 1..(i - 1) : Norm[names[k]] # Norm[c]
    BY <1>1 DEF Dedup
  <2>2. PICK j \in 1..Len(names) : names[j] = d /\ \A k \in 1..(j - 1) : Norm[names[k]] # Norm[d]
    BY <1>1 DEF Dedup
  <2>3. i = j
    <3>1. ~(i < j) /\ ~(j < i)
      BY <1>1, <1>6, <2>1, <2>2
    <3> QED BY <1>1, <3>1
  <2> QED BY <2>1, <2>2, <2>3
<1>7. Packages(manifest) = declared \ {d \in declared : Skipped(manifest, d)}
  BY DEF Packages
<1>8. Checkable(manifest) \subseteq Packages(manifest)
  BY DEF Checkable
<1> QED BY <1>2, <1>5, <1>6, <1>7, <1>8

\* The manifests of a site are a sequence with at least one place.
LEMMA SiteManifests ==
  ASSUME RegistryTypeOK
  PROVE  /\ Len(registryWorld.manifests) \in Nat \ {0}
         /\ \A i \in 1..Len(registryWorld.manifests) :
              registryWorld.manifests[i] # Unusable => registryWorld.manifests[i] \in Manifests
<1>1. registryWorld.manifests \in Seq({Unusable} \cup Manifests) /\ registryWorld.manifests # <<>>
  BY RegistryAssumption DEF RegistryTypeOK
<1> HIDE DEF Manifests
<1> QED BY <1>1

\* Probing ends with no manifest or with all checkable packages of one.
LEMMA ProbesStep ==
  ASSUME RegistryTypeOK, RegistryInv, Probes
  PROVE  RegistryTypeOK' /\ RegistryInv'
<1> USE DEF RegistryTypeOK, RegistryInv
<1> DEFINE L == Len(registryWorld.manifests)
           served == registryWorld.manifests[probed + 1]
<1>1. /\ L \in Nat \ {0} /\ probed \in Nat /\ probed < L /\ probed' = probed + 1
      /\ registryWorld' = registryWorld /\ lookups = <<>>
  BY SiteManifests DEF Probes
<1>2. probed' \in 0..L /\ probed' > 0 /\ (probed' # L => probed' < L)
  BY <1>1
<1>3. CASE UNCHANGED lookups /\ registryPc' = IF probed' = L THEN "done" ELSE "probing"
  <2>1. lookups' = <<>> /\ registryPc' \in {"done", "probing"} /\ (registryPc' = "probing" => probed' < L)
    BY <1>1, <1>2, <1>3
  <2>2. DOMAIN <<>> = {} /\ <<>> \in [{} -> {"queued", "asking"} \cup Results]
    OBVIOUS
  <2> QED BY <1>1, <1>2, <2>1, <2>2
<1>4. CASE /\ served # Unusable
           /\ registryPc' = IF Checkable(served) = {} THEN "done" ELSE "looking"
           /\ lookups' = [d \in Checkable(served) |-> "queued"]
  <2>1. DOMAIN lookups' = Checkable(served) /\ \A d \in Checkable(served) : lookups'[d] = "queued"
    BY <1>4
  <2>2. Manifest' = served
    BY <1>1 DEF Manifest
  <2>3. Checkable(Manifest)' = Checkable(served)
    BY <2>2 DEF Checkable, Packages, Dedup, Skipped
  <2>4. lookups' \in [DOMAIN lookups' -> {"queued", "asking"} \cup Results]
    BY <1>4, <2>1
  <2>5. RegistryTypeOK'
    BY <1>1, <1>2, <1>4, <2>4
  <2>6. RegistryInv'
    BY <1>1, <1>2, <1>4, <2>1, <2>2, <2>3
  <2> QED BY <2>5, <2>6
<1> QED BY <1>3, <1>4 DEF Probes

\* One lookup goes on; what it concludes is the registry's answer, or nothing.
LEMMA LookupStep ==
  ASSUME RegistryTypeOK, RegistryInv, NEW d \in DOMAIN lookups, NEW result,
         result \in {"asking"} \cup Results,
         result = "ABSENT" => Norm[d] \notin registryWorld.published,
         lookups' = [lookups EXCEPT ![d] = result], UNCHANGED <<registryWorld, probed>>,
         registryPc = "looking",
         registryPc' = IF \A e \in DOMAIN lookups : lookups'[e] \in Results THEN "done" ELSE "looking"
  PROVE  RegistryTypeOK' /\ RegistryInv'
<1> USE DEF RegistryTypeOK, RegistryInv
<1>1. /\ DOMAIN lookups' = DOMAIN lookups
      /\ \A e \in DOMAIN lookups : lookups'[e] = IF e = d THEN result ELSE lookups[e]
  OBVIOUS
<1>2. lookups # <<>>
  OBVIOUS
<1>3. Manifest' = Manifest /\ Checkable(Manifest)' = Checkable(Manifest)
  BY DEF Manifest, Checkable, Packages, Dedup, Skipped
<1>4. RegistryTypeOK'
  <2>1. lookups' \in [DOMAIN lookups' -> {"queued", "asking"} \cup Results]
    BY <1>1
  <2> QED BY <2>1
<1>5. RegistryInv'
  BY <1>1, <1>2, <1>3
<1> QED BY <1>4, <1>5

\* The scout's state has its types and keeps the invariant.
LEMMA RegistryInvHolds == RegistrySpec => [](RegistryTypeOK /\ RegistryInv)
<1> USE RegistryAssumption
<1>1. RegistryInit => RegistryTypeOK /\ RegistryInv
  <2> SUFFICES ASSUME RegistryInit PROVE RegistryTypeOK /\ RegistryInv
    OBVIOUS
  <2>1. DOMAIN <<>> = {} /\ <<>> \in [{} -> {"queued", "asking"} \cup Results]
    OBVIOUS
  <2>2. registryWorld.manifests \in Seq({Unusable} \cup Manifests) /\ registryWorld.manifests # <<>>
    BY DEF RegistryInit
  <2>3. Len(registryWorld.manifests) \in Nat \ {0}
    <3> HIDE DEF Manifests
    <3> QED BY <2>2
  <2> QED BY <2>1, <2>3 DEF RegistryInit, RegistryTypeOK, RegistryInv
<1>2. RegistryTypeOK /\ RegistryInv /\ [RegistryNext]_registryVars => (RegistryTypeOK /\ RegistryInv)'
  <2> SUFFICES ASSUME RegistryTypeOK, RegistryInv, [RegistryNext]_registryVars
               PROVE  RegistryTypeOK' /\ RegistryInv'
    OBVIOUS
  <2>1. CASE Probes
    BY <2>1, ProbesStep
  <2>2. CASE ScoutTimeUp
    <3>1. DOMAIN <<>> = {} /\ <<>> \in [{} -> {"queued", "asking"} \cup Results]
      OBVIOUS
    <3> QED BY <2>2, <3>1 DEF ScoutTimeUp, RegistryTypeOK, RegistryInv
  <2>3. ASSUME NEW d \in DOMAIN lookups, Asks(d) PROVE RegistryTypeOK' /\ RegistryInv'
    <3>1. lookups'[d] = "asking" /\ "asking" \notin Results
      BY <2>3 DEF Asks, Results
    <3>2. registryPc' = IF \A e \in DOMAIN lookups : lookups'[e] \in Results THEN "done" ELSE "looking"
      BY <2>3, <3>1 DEF Asks
    <3> QED BY <2>3, <3>2, LookupStep DEF Asks
  <2>4. ASSUME NEW d \in DOMAIN lookups, RegistryAnswers(d) PROVE RegistryTypeOK' /\ RegistryInv'
    <3> DEFINE result == IF Norm[d] \in registryWorld.published THEN "PRESENT" ELSE "ABSENT"
    <3>1. result \in Results /\ (result = "ABSENT" => Norm[d] \notin registryWorld.published)
      BY DEF Results
    <3>2. Concludes(d, result)
      BY <2>4 DEF RegistryAnswers
    <3> HIDE DEF result
    <3> QED BY <3>1, <3>2, LookupStep DEF Concludes
  <2>5. ASSUME NEW d \in DOMAIN lookups, LookupFails(d) PROVE RegistryTypeOK' /\ RegistryInv'
    BY <2>5, LookupStep DEF LookupFails, Concludes, Results
  <2>6. CASE UNCHANGED registryVars
    BY <2>6 DEF registryVars, RegistryTypeOK, RegistryInv, Manifest, Checkable, Packages, Dedup, Skipped
  <2> QED BY <2>1, <2>2, <2>3, <2>4, <2>5, <2>6 DEF RegistryNext
<1> QED BY <1>1, <1>2, PTL DEF RegistrySpec

\* Two disjoint parts of a finite set make it up in number too.
LEMMA PartsAddUp ==
  ASSUME NEW S, IsFiniteSet(S), NEW T \in SUBSET S
  PROVE  /\ Cardinality(S) = Cardinality(T) + Cardinality(S \ T)
         /\ Cardinality(S) \in Nat /\ Cardinality(T) \in Nat /\ Cardinality(S \ T) \in Nat
         /\ IsFiniteSet(T) /\ IsFiniteSet(S \ T)
<1>1. IsFiniteSet(T) /\ IsFiniteSet(S \ T)
  BY FS_Subset, FS_Difference
<1>2. Cardinality(S) \in Nat /\ Cardinality(T) \in Nat /\ Cardinality(S \ T) \in Nat
  BY <1>1, FS_CardinalityType
<1>3. S \cap T = T /\ Cardinality(S \ T) = Cardinality(S) - Cardinality(S \cap T)
  BY FS_Difference
<1> QED BY <1>1, <1>2, <1>3

\* Every lookup of a scout that is done is in one of the three counts.
LEMMA ResultsAddUp ==
  ASSUME IsFiniteSet(DOMAIN lookups), \A d \in DOMAIN lookups : lookups[d] \in Results
  PROVE  Cardinality(DOMAIN lookups) = Cardinality(Concluded("PRESENT"))
           + Cardinality(Concluded("ABSENT")) + Cardinality(Concluded("INCONCLUSIVE"))
<1> DEFINE S == DOMAIN lookups
           rest == S \ Concluded("PRESENT")
<1>1. Concluded("PRESENT") \subseteq S /\ Concluded("ABSENT") \subseteq rest
  BY DEF Concluded
<1>2. rest \ Concluded("ABSENT") = Concluded("INCONCLUSIVE")
  BY DEF Concluded, Results
<1>3. /\ Cardinality(S) = Cardinality(Concluded("PRESENT")) + Cardinality(rest)
      /\ IsFiniteSet(rest) /\ Cardinality(Concluded("PRESENT")) \in Nat
  BY <1>1, PartsAddUp
<1> HIDE DEF rest
<1>4. /\ Cardinality(rest) = Cardinality(Concluded("ABSENT")) + Cardinality(Concluded("INCONCLUSIVE"))
      /\ Cardinality(Concluded("ABSENT")) \in Nat /\ Cardinality(Concluded("INCONCLUSIVE")) \in Nat
  BY <1>1, <1>2, <1>3, PartsAddUp
<1> QED BY <1>3, <1>4

\* The invariant is as much as the scout's report needs.
LEMMA ReportIsRight == RegistryTypeOK /\ RegistryInv => OnlyTheMissingAreReported
<1> SUFFICES ASSUME RegistryTypeOK, RegistryInv PROVE OnlyTheMissingAreReported
  OBVIOUS
<1>1. CASE lookups = <<>>
  <2>1. DOMAIN lookups = {}
    BY <1>1
  <2> QED BY <1>1, <2>1 DEF OnlyTheMissingAreReported, Hallucinated, Concluded
<1>2. CASE lookups # <<>>
  <2> DEFINE declared == Dedup(Manifest.declared)
             skipped == {d \in declared : Skipped(Manifest, d)}
             packages == Packages(Manifest)
  <2>1. probed > 0 /\ Manifest # Unusable /\ DOMAIN lookups = Checkable(Manifest)
    BY <1>2 DEF RegistryInv
  <2>2. Manifest \in Manifests
    <3>1. probed \in 1..Len(registryWorld.manifests)
      BY <2>1, SiteManifests DEF RegistryTypeOK
    <3> QED BY <2>1, <3>1, SiteManifests DEF Manifest
  <2>3. /\ IsFiniteSet(declared) /\ declared \subseteq DOMAIN Norm
        /\ \A c, d \in declared : Norm[c] = Norm[d] => c = d
        /\ packages = declared \ skipped /\ Checkable(Manifest) \subseteq packages
    BY <2>2, PackagesAreDistinct
  <2>4. /\ Cardinality(declared) = Cardinality(skipped) + Cardinality(packages)
        /\ IsFiniteSet(packages) /\ Cardinality(packages) \in Nat /\ Cardinality(skipped) \in Nat
    <3>1. skipped \subseteq declared
      OBVIOUS
    <3> HIDE DEF declared, skipped, packages
    <3> QED BY <2>3, <3>1, PartsAddUp
  <2>5. IsFiniteSet(DOMAIN lookups) /\ Cardinality(DOMAIN lookups) \in Nat
    BY <2>1, <2>3, <2>4, FS_Subset, FS_CardinalityType
  <2>6. packages = DOMAIN lookups \/ Cardinality(DOMAIN lookups) = MaxPackages
    <3>1. MaxPackages \in Nat /\ \A d \in packages : Norm[d] \in Nat
      BY <2>3, RegistryAssumption
    <3>2. \A c, d \in packages : Norm[c] = Norm[d] => c = d
      BY <2>3
    <3>3. LET First == {d \in packages : Cardinality({c \in packages : Norm[c] < Norm[d]}) < MaxPackages}
          IN  First = packages \/ Cardinality(First) = MaxPackages
      <4> HIDE DEF packages
      <4> QED BY <2>4, <3>1, <3>2, FirstOfMany
    <3> QED BY <2>1, <3>3 DEF Checkable
  <2>7. ASSUME NEW d \in Hallucinated
        PROVE  Norm[d] \notin registryWorld.published /\ ~Skipped(Manifest, d)
    <3>1. d \in DOMAIN lookups /\ lookups[d] = "ABSENT"
      BY <2>7 DEF Hallucinated, Concluded
    <3> QED BY <2>1, <2>3, <3>1 DEF RegistryInv
  <2>8. \A c, d \in DOMAIN lookups : Norm[c] = Norm[d] => c = d
    BY <2>1, <2>3
  <2>9. ASSUME registryPc = "done"
        PROVE  /\ ScoutDetails.declared = ScoutDetails.skipped + ScoutDetails.overCap
                    + ScoutDetails.counts["PRESENT"] + ScoutDetails.counts["ABSENT"]
                    + ScoutDetails.counts["INCONCLUSIVE"]
               /\ ScoutDetails.overCap > 0 => Cardinality(DOMAIN lookups) = MaxPackages
    <3>1. /\ ScoutDetails.declared = Cardinality(declared) /\ ScoutDetails.skipped = Cardinality(skipped)
          /\ ScoutDetails.overCap = Cardinality(packages) - Cardinality(DOMAIN lookups)
          /\ ScoutDetails.counts["PRESENT"] = Cardinality(Concluded("PRESENT"))
          /\ ScoutDetails.counts["ABSENT"] = Cardinality(Concluded("ABSENT"))
          /\ ScoutDetails.counts["INCONCLUSIVE"] = Cardinality(Concluded("INCONCLUSIVE"))
      BY DEF ScoutDetails, Results
    <3>2. Cardinality(DOMAIN lookups) = Cardinality(Concluded("PRESENT"))
            + Cardinality(Concluded("ABSENT")) + Cardinality(Concluded("INCONCLUSIVE"))
      BY <2>5, <2>9, ResultsAddUp DEF RegistryInv
    <3>3. \A r : Concluded(r) \subseteq DOMAIN lookups
      BY DEF Concluded
    <3>4. \A r : Cardinality(Concluded(r)) \in Nat
      BY <2>5, <3>3, FS_Subset, FS_CardinalityType
    <3>5. packages = DOMAIN lookups => Cardinality(packages) - Cardinality(DOMAIN lookups) = 0
      BY <2>5
    <3> HIDE DEF declared, skipped, packages
    <3> QED BY <2>4, <2>5, <2>6, <3>1, <3>2, <3>4, <3>5
  <2> QED BY <2>7, <2>8, <2>9 DEF OnlyTheMissingAreReported
<1> QED BY <1>1, <1>2

-----------------------------------------------------------------------------
(* The TLS scout *)

\* A probe that ended with an answer answered as the server does.
LEMMA ProbeInvHolds == TlsSpec => [](TlsTypeOK /\ ProbeInv)
<1> USE TlsAssumption DEF TlsTypeOK, ProbeInv, Ended
<1>1. TlsInit => TlsTypeOK /\ ProbeInv
  BY DEF TlsInit
<1>2. TlsTypeOK /\ ProbeInv /\ [TlsNext]_tlsVars => (TlsTypeOK /\ ProbeInv)'
  <2> SUFFICES ASSUME TlsTypeOK, ProbeInv, [TlsNext]_tlsVars PROVE TlsTypeOK' /\ ProbeInv'
    OBVIOUS
  <2>1. CASE HandshakeSucceeds \/ BackoffOver \/ HandshakeRejected \/ TlsTimeUp
    BY <2>1 DEF HandshakeSucceeds, BackoffOver, HandshakeRejected, TlsTimeUp, Modern
  <2>2. CASE HandshakeBreaks
    BY <2>2 DEF HandshakeBreaks, Modern
  <2>3. ASSUME NEW v \in Versions, ProbeStarts(v) PROVE TlsTypeOK' /\ ProbeInv'
    BY <2>3 DEF ProbeStarts, Modern
  <2>4. ASSUME NEW v \in Versions, ProbeEnds(v) PROVE TlsTypeOK' /\ ProbeInv'
    <3>1. PICK outcome \in {IF v \in offered THEN "supported" ELSE "refused", "timed_out", "broken"} :
            probe' = [probe EXCEPT ![v] = outcome]
      BY <2>4 DEF ProbeEnds
    <3>2. tlsPc = "probing" /\ tlsPc' \in {"probing", "done"} /\ UNCHANGED <<offered, handshakes>>
      BY <2>4 DEF ProbeEnds
    <3>3. outcome \in Ended /\ (outcome = "supported" => v \in offered) /\ (outcome = "refused" => v \notin offered)
      BY <3>1
    <3> QED BY <3>1, <3>2, <3>3
  <2>5. CASE UNCHANGED tlsVars
    BY <2>5 DEF tlsVars, Modern
  <2> QED BY <2>1, <2>2, <2>3, <2>4, <2>5 DEF TlsNext
<1> QED BY <1>1, <1>2, PTL DEF TlsSpec

\* A version that a verdict denies was refused, or its process gave no answer.
LEMMA VerdictIsRight == TlsTypeOK /\ ProbeInv => TlsVerdictsAreProbed
<1> SUFFICES ASSUME TlsTypeOK, ProbeInv PROVE TlsVerdictsAreProbed
  OBVIOUS
<1>1. ASSUME NEW v \in offered, v \in ProbeCompleted, v \notin Supported
      PROVE  probe[v] = "broken"
  BY <1>1 DEF ProbeCompleted, Supported, ProbeInv
<1>2. ASSUME TlsVerdict = "no modern TLS"
      PROVE  Modern \cap offered # {} /\ \A v \in Modern \cap offered : probe[v] = "broken"
  <2>1. tlsPc = "done" /\ Modern \cap Supported = {} /\ ModernProbed
    BY <1>2 DEF TlsVerdict
  <2>2. Modern \cap offered # {}
    BY <2>1 DEF ProbeInv
  <2>3. \A v \in Modern \cap offered : v \in ProbeCompleted /\ v \notin Supported
    BY <2>1 DEF ModernProbed
  <2> QED BY <1>1, <2>2, <2>3
<1>3. ASSUME TlsVerdict = "only TLS 1.3", NEW v \in offered \cap {"TLSv1.0", "TLSv1.1", "TLSv1.2"}
      PROVE  probe[v] = "broken"
  <2>1. Supported = {"TLSv1.3"} /\ {"TLSv1.2", "TLSv1.1", "TLSv1.0"} \cap Versions \subseteq ProbeCompleted
    BY <1>3 DEF TlsVerdict
  <2>2. v \in Versions
    BY <1>3 DEF TlsTypeOK
  <2>3. v \in ProbeCompleted /\ v \notin Supported
    BY <1>3, <2>1, <2>2
  <2> QED BY <1>1, <2>3
<1> QED BY <1>2, <1>3 DEF TlsVerdictsAreProbed

\* Of what the two scouts ask in parallel, timeouts and lost answers never turn into
\* findings; a TLS version is wrongly denied only where its process ended without answer.
THEOREM OnlyAnswersCount == ProbesSpec => []TimedOutProbesSayNothing
BY RegistryInvHolds, ReportIsRight, ProbeInvHolds, VerdictIsRight, PTL DEF ProbesSpec, TimedOutProbesSayNothing
=============================================================================
