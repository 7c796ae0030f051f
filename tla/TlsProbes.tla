----------------------------- MODULE TlsProbes -----------------------------
(***************************************************************************)
(* The TLS scout (test_04_ssl_tls.py) as far as protocol versions go: the  *)
(* handshake that must succeed first, with its retries, then one openssl   *)
(* process per version, a few at a time, and what is made of those that    *)
(* ended, timed out or never talked to the server.                         *)
(***************************************************************************)
EXTENDS Integers, FiniteSets

CONSTANTS
  Versions,          \* the versions probed, of "SSLv2" ... "TLSv1.3"
  HandshakeRetries,  \* TLS_HANDSHAKE_MAX_RETRIES
  ProbeConcurrency

ASSUME TlsAssumption ==
  /\ {"TLSv1.2", "TLSv1.3"} \subseteq Versions
  /\ HandshakeRetries \in Nat /\ ProbeConcurrency \in Nat \ {0}

Modern == {"TLSv1.2", "TLSv1.3"}

VARIABLES offered,     \* the versions the server negotiates
          tlsPc,       \* "connecting", "backoff", "probing", "done", "fatal", "expired"
          handshakes,  \* handshakes repeated
          probe        \* [version -> "queued", "running", or how it ended]
tlsVars == <<offered, tlsPc, handshakes, probe>>

TlsInit ==
  /\ offered \in SUBSET Versions
  /\ tlsPc = "connecting" /\ handshakes = 0
  /\ probe = [v \in Versions |-> "queued"]

-----------------------------------------------------------------------------
\* Python's default context negotiates TLS 1.2 at least.
HandshakeSucceeds ==
  /\ tlsPc = "connecting" /\ offered \cap Modern # {}
  /\ tlsPc' = "probing"
  /\ UNCHANGED <<offered, handshakes, probe>>

\* TimeoutError, ConnectionError.
HandshakeBreaks ==
  /\ tlsPc = "connecting"
  /\ IF handshakes < HandshakeRetries
       THEN tlsPc' = "backoff" /\ handshakes' = handshakes + 1
       ELSE tlsPc' = "fatal" /\ UNCHANGED handshakes
  /\ UNCHANGED <<offered, probe>>

BackoffOver ==
  /\ tlsPc = "backoff" /\ tlsPc' = "connecting"
  /\ UNCHANGED <<offered, handshakes, probe>>

\* Any other error is final, that of a server without TLS 1.2 among them.
HandshakeRejected ==
  /\ tlsPc = "connecting" /\ tlsPc' = "fatal"
  /\ UNCHANGED <<offered, handshakes, probe>>

ProbeStarts(v) ==
  /\ tlsPc = "probing" /\ probe[v] = "queued"
  /\ Cardinality({w \in Versions : probe[w] = "running"}) < ProbeConcurrency
  /\ probe' = [probe EXCEPT ![v] = "running"]
  /\ UNCHANGED <<offered, tlsPc, handshakes>>

Ended == {"supported", "refused", "timed_out", "broken"}

\* A process answers as the server does, is killed after its timeout, or ends
\* without an answer: it could not be started, or its connection failed.
ProbeEnds(v) ==
  /\ tlsPc = "probing" /\ probe[v] = "running"
  /\ \E outcome \in {IF v \in offered THEN "supported" ELSE "refused", "timed_out", "broken"} :
       probe' = [probe EXCEPT ![v] = outcome]
  /\ tlsPc' = IF \A w \in Versions : probe'[w] \in Ended THEN "done" ELSE "probing"
  /\ UNCHANGED <<offered, handshakes>>

\* The orchestrator's wait_for.
TlsTimeUp ==
  /\ tlsPc \in {"connecting", "backoff", "probing"} /\ tlsPc' = "expired"
  /\ UNCHANGED <<offered, handshakes, probe>>

TlsNext ==
  \/ HandshakeSucceeds \/ HandshakeBreaks \/ BackoffOver \/ HandshakeRejected \/ TlsTimeUp
  \/ \E v \in Versions : ProbeStarts(v) \/ ProbeEnds(v)

TlsSpec == TlsInit /\ [][TlsNext]_tlsVars

-----------------------------------------------------------------------------
Supported == {v \in Versions : probe[v] = "supported"}
\* A broken process is not told from a refusal.
ProbeCompleted == {v \in Versions : probe[v] \in {"supported", "refused", "broken"}}

\* As ModernProbed, with one of the two probes enough.
ModernProbedOnce == Modern \cap ProbeCompleted # {}
ModernProbed == Modern \subseteq ProbeCompleted

TlsVerdict ==
  IF tlsPc # "done" THEN "none"
  ELSE IF Supported = {"TLSv1.3"}
            /\ {"TLSv1.2", "TLSv1.1", "TLSv1.0"} \cap Versions \subseteq ProbeCompleted
         THEN "only TLS 1.3"
  ELSE IF Modern \cap Supported = {}
         THEN IF ModernProbed THEN "no modern TLS" ELSE "inconclusive"
  ELSE "none"

\* What a verdict can be wrong about. Probes that time out under load never turn into
\* one: a version that the server offers and a verdict denies is one whose process ended
\* without an answer, and "no modern TLS", which a scout with a certificate from a modern
\* handshake reports wrongly, always rests on such a process
\* (test_04_ssl_tls.py:334-346, 901-940).
TlsVerdictsAreProbed ==
  /\ TlsVerdict = "no modern TLS" =>
       Modern \cap offered # {} /\ \A v \in Modern \cap offered : probe[v] = "broken"
  /\ TlsVerdict = "only TLS 1.3" =>
       \A v \in offered \cap {"TLSv1.0", "TLSv1.1", "TLSv1.2"} : probe[v] = "broken"

\* The docstring of _probe_protocol (test_04_ssl_tls.py:335-339): "Callers must not treat
\* a probe that didn't complete as proof the protocol is unsupported." So a modern version
\* reported missing is one that the server refused.
OnlyRefusalsProve == TlsVerdict = "no modern TLS" => \A v \in Modern : probe[v] = "refused"

-----------------------------------------------------------------------------
TlsTypeOK ==
  /\ offered \subseteq Versions
  /\ tlsPc \in {"connecting", "backoff", "probing", "done", "fatal", "expired"}
  /\ handshakes \in 0..HandshakeRetries
  /\ probe \in [Versions -> {"queued", "running"} \cup Ended]

\* Probing begins after a modern handshake, and a probe answers as the server does.
ProbeInv ==
  /\ tlsPc \in {"probing", "done"} => offered \cap Modern # {}
  /\ \A v \in Versions : /\ probe[v] = "supported" => v \in offered
                         /\ probe[v] = "refused" => v \notin offered
=============================================================================
