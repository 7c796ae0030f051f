---------------------------- MODULE ScoutProbes ----------------------------
(***************************************************************************)
(* The two scouts that ask many things in parallel and make findings of    *)
(* the answers, side by side in one scan: they share no state.             *)
(***************************************************************************)
EXTENDS RegistryLookup, TlsProbes

ProbesSpec == RegistrySpec /\ TlsSpec

\* What the many questions of a scout that fail can make it say: of the registry nothing
\* that it did not answer, and of TLS nothing unless a process ended without an answer
\* (test_10_hallucinated_deps.py:358-385, test_04_ssl_tls.py:334-346).
TimedOutProbesSayNothing == OnlyTheMissingAreReported /\ TlsVerdictsAreProbed
=============================================================================
