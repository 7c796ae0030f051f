------------------------------ MODULE MCParts ------------------------------
(* The parts of the worker that meet its other parts only at their ends,   *)
(* one of them per behaviour: the JavaScript cache of a scan, the control  *)
(* of a scan, and the two programs that read OSV.                          *)
EXTENDS MCCve, JsCache, Orchestrator

partVars == <<program, upstream, changes, syncVars, etlVars, cacheVars, scanVars>>

PartsInit ==
  /\ program \in {"cache", "scan", "timer", "etl"}
  /\ UpstreamInit /\ SyncInit /\ EtlInit /\ CacheInit /\ ScanInit
  /\ program \in {"timer", "etl"} \/ upstream = CHOOSE w \in MCWorlds : TRUE

Others(p) ==
  /\ program = p /\ UNCHANGED program
  /\ (p # "cache" => UNCHANGED cacheVars)
  /\ (p # "scan" => UNCHANGED scanVars)
  /\ (p # "timer" => UNCHANGED syncVars)
  /\ (p # "etl" => UNCHANGED etlVars)
  /\ (p \notin {"timer", "etl"} => UNCHANGED <<upstream, changes>>)

PartsNext ==
  \/ Others("cache") /\ CacheNext
  \/ Others("scan") /\ ScanNext
  \/ Others("timer") /\ OsvNext
  \/ Others("etl") /\ EtlOsvNext

\* Each part with the fairness of its own module.
PartsSpec ==
  /\ PartsInit /\ [][PartsNext]_partVars
  /\ WF_partVars(Others("timer") /\ SyncStep /\ UNCHANGED <<upstream, changes>>)
  /\ \A c \in Calls :
       /\ WF_partVars(Others("cache") /\ Wake(c))
       /\ WF_partVars(Others("cache") /\ (FetchSucceeds(c) \/ FetchFails(c)))
  /\ WF_partVars(Others("scan") /\ Preflight) /\ WF_partVars(Others("scan") /\ Collate)
  /\ WF_partVars(Others("scan") /\ Close) /\ WF_partVars(Others("scan") /\ GatherRaises)
  /\ \A s \in Scouts :
       /\ WF_partVars(Others("scan") /\ ScoutExpires(s))
       /\ WF_partVars(Others("scan") /\ ScoutCancelled(s))

\* A call of fetch_js that has to wait or fetch comes back to its scout: of alike
\* calls, any one.
EveryCallEnds == CallEnds(CHOOSE c \in Calls : TRUE)

\* Every scan comes to an end, whatever fails or is cancelled.
EveryScanEnds == program = "scan" => ScanEnds
=============================================================================
