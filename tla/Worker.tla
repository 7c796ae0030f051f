------------------------------- MODULE Worker -------------------------------
(***************************************************************************)
(* The Worker (src/worker): process_scan runs run_scout for one delivery   *)
(* of a message, and persist_scan_result stores what it found. Several     *)
(* deliveries run as coroutines of one instance's event loop. A scan       *)
(* awaits; persist_scan_result does not (create_item and time.sleep are    *)
(* synchronous), so while it runs nothing else of that instance does.      *)
(***************************************************************************)
EXTENDS ServiceBus, ResultStore

CONSTANTS
  CosmosAttempts,     \* COSMOS_WRITE_MAX_ATTEMPTS
  CosmosConfigured    \* COSMOS_AVAILABLE and COSMOS_URL is set

ASSUME CosmosAssumption ==
  /\ CosmosAttempts \in Nat \ {0}
  /\ CosmosConfigured \in BOOLEAN

VARIABLE inv    \* [Delivery -> [pc, on, attempt, outcome]]

Outcome == {"cosmos", "local", "none", "blocked_ssrf", "no_plugins", "raised"}
Persisting == {"cosmos_write", "local_open", "local_dump"}
Live == Persisting \cup {"scan", "settle"}
Pc == Live \cup {"idle", "done", "dead"}

WorkerTypeOK ==
  inv \in [Delivery -> [pc : Pc, on : Instances \cup {None},
                        attempt : 1..CosmosAttempts, outcome : Outcome \cup {"open"}]]

WorkerInit ==
  inv = [d \in Delivery |-> [pc |-> "idle", on |-> None, attempt |-> 1, outcome |-> "open"]]

\* The event loop of d's instance is not inside another persist_scan_result.
LoopFree(d) ==
  \A e \in Delivery : e # d /\ inv[e].on = inv[d].on => inv[e].pc \notin Persisting

Goto(d, pc) == inv' = [inv EXCEPT ![d].pc = pc]

\* run_scout (or persist_scan_result in it) is over: back to the host.
Finish(d, outcome) == inv' = [inv EXCEPT ![d] = [@ EXCEPT !.pc = "settle", !.outcome = outcome]]

-----------------------------------------------------------------------------
\* As Receive, with a receiver that settles the message before the handler runs.
ReceiveAndDelete(d, i) ==
  /\ inv[d].pc = "idle"
  /\ msg[MessageOf(d)].state = "available"
  /\ msg' = [msg EXCEPT ![MessageOf(d)] = [state |-> "completed", deliveries |-> NumberOf(d)]]
  /\ inv' = [inv EXCEPT ![d] = [@ EXCEPT !.pc = "scan", !.on = i]]
  /\ UNCHANGED <<cosmos, disk>>

\* The Functions host of instance i takes the next delivery of a message.
Receive(d, i) ==
  /\ inv[d].pc = "idle"
  /\ NumberOf(d) = msg[MessageOf(d)].deliveries + 1
  /\ Lock(MessageOf(d))
  /\ inv' = [inv EXCEPT ![d] = [@ EXCEPT !.pc = "scan", !.on = i]]
  /\ UNCHANGED <<cosmos, disk>>

\* The scan produced final_result; persist_scan_result starts in the same step.
ScanCompletes(d) ==
  /\ inv[d].pc = "scan" /\ LoopFree(d)
  /\ Goto(d, IF CosmosConfigured THEN "cosmos_write" ELSE "local_open")
  /\ UNCHANGED <<msg, cosmos, disk>>

\* The ways run_scout ends without persisting anything: the target resolved to
\* an unsafe address and the blocked_ssrf dict is returned; no scout could be
\* loaded; an exception (a url that is no string, a scout registry error).
ScanEndsEarly(d) ==
  /\ inv[d].pc = "scan" /\ LoopFree(d)
  /\ \/ "unsafe"     \in Faults /\ Finish(d, "blocked_ssrf")
     \/ "no_plugins" \in Faults /\ Finish(d, "no_plugins")
     \/ "raise"      \in Faults /\ Finish(d, "raised")
  /\ UNCHANGED <<msg, cosmos, disk>>

-----------------------------------------------------------------------------
\* Three ways AfterFailedWrite could go wrong: one attempt too many, an attempt
\* that is not counted, and no local fallback (the wiring the function's
\* docstring says it replaced).
OneAttemptMore(d) ==
  IF inv[d].attempt <= CosmosAttempts
  THEN inv' = [inv EXCEPT ![d].attempt = @ + 1]
  ELSE Goto(d, "local_open")

RetryUncounted(d) ==
  IF inv[d].attempt < CosmosAttempts THEN UNCHANGED inv ELSE Goto(d, "local_open")

NoFallback(d) ==
  IF inv[d].attempt < CosmosAttempts
  THEN inv' = [inv EXCEPT ![d].attempt = @ + 1]
  ELSE Finish(d, "none")

\* persist_scan_result, after an attempt that raised.
AfterFailedWrite(d) ==
  IF inv[d].attempt < CosmosAttempts
  THEN inv' = [inv EXCEPT ![d].attempt = @ + 1]
  ELSE Goto(d, "local_open")

WriteAcknowledged(d) ==
  /\ inv[d].pc = "cosmos_write"
  /\ CreateItem(d)
  /\ Finish(d, "cosmos")
  /\ UNCHANGED <<msg, disk>>

\* Cosmos stored the document, and the client saw an exception.
WriteAnswerLost(d) ==
  /\ inv[d].pc = "cosmos_write"
  /\ "ack" \in Faults
  /\ CreateItem(d)
  /\ AfterFailedWrite(d)
  /\ UNCHANGED <<msg, disk>>

\* Nothing stored: the id is taken (409), or Cosmos or the client failed.
WriteFails(d) ==
  /\ inv[d].pc = "cosmos_write"
  /\ cosmos[JobOf(d)] # None \/ "cosmos" \in Faults
  /\ AfterFailedWrite(d)
  /\ UNCHANGED <<msg, cosmos, disk>>

\* write_result_locally: mkdir and open.
LocalOpens(d) ==
  /\ inv[d].pc = "local_open"
  /\ OpenResultFile(inv[d].on, d)
  /\ Goto(d, "local_dump")
  /\ UNCHANGED <<msg, cosmos>>

LocalDumps(d) ==
  /\ inv[d].pc = "local_dump"
  /\ DumpResult(inv[d].on, d)
  /\ Finish(d, "local")
  /\ UNCHANGED <<msg, cosmos>>

\* mkdir, open or json.dump raised: logged, and the result is in no store.
LocalFails(d) ==
  /\ inv[d].pc \in {"local_open", "local_dump"}
  /\ "disk" \in Faults
  /\ Finish(d, "none")
  /\ UNCHANGED <<msg, cosmos, disk>>

-----------------------------------------------------------------------------
\* As Settle, with the exception logged and not raised again.
SettleSwallowed(d) ==
  /\ inv[d].pc = "settle" /\ LoopFree(d)
  /\ Goto(d, "done")
  /\ IF ~HoldsLock(d) THEN UNCHANGED msg ELSE Complete(MessageOf(d))
  /\ UNCHANGED <<cosmos, disk>>

\* As Settle, with a message whose scan raised dead-lettered by the handler.
SettlePoisoned(d) ==
  /\ inv[d].pc = "settle" /\ LoopFree(d)
  /\ Goto(d, "done")
  /\ IF ~HoldsLock(d) THEN UNCHANGED msg
     ELSE IF inv[d].outcome = "raised"
     THEN msg' = [msg EXCEPT ![MessageOf(d)].state = "dead"]
     ELSE Complete(MessageOf(d))
  /\ UNCHANGED <<cosmos, disk>>

\* run_scout closes its session (which awaits) and process_scan returns or
\* raises: the host completes the message, or releases it for another delivery.
\* A lock that was lost makes both a no-op.
Settle(d) ==
  /\ inv[d].pc = "settle" /\ LoopFree(d)
  /\ Goto(d, "done")
  /\ IF ~HoldsLock(d) THEN UNCHANGED msg
     ELSE IF inv[d].outcome = "raised" THEN Release(MessageOf(d))
     ELSE Complete(MessageOf(d))
  /\ UNCHANGED <<cosmos, disk>>

\* The lock of a message runs out: its holder is dead, or could not renew it.
LockExpires(d) ==
  /\ HoldsLock(d)
  /\ inv[d].pc = "dead" \/ "lock" \in Faults
  /\ Release(MessageOf(d))
  /\ UNCHANGED <<inv, cosmos, disk>>

\* Everything instance i was running is gone; its disk only if it is replaced.
Stop(i) ==
  inv' = [d \in Delivery |->
            IF inv[d].on = i /\ inv[d].pc \in Live THEN [inv[d] EXCEPT !.pc = "dead"] ELSE inv[d]]

Crash(i) ==
  /\ "crash" \in Faults
  /\ Stop(i)
  /\ UNCHANGED <<msg, cosmos, disk>>

Recycle(i) ==
  /\ "recycle" \in Faults
  /\ Stop(i)
  /\ EraseDisk(i)
  /\ UNCHANGED <<msg, cosmos>>

-----------------------------------------------------------------------------
Persist(d) == \/ WriteAcknowledged(d) \/ WriteAnswerLost(d) \/ WriteFails(d)
              \/ LocalOpens(d) \/ LocalDumps(d) \/ LocalFails(d)

Handle(d) == ScanCompletes(d) \/ ScanEndsEarly(d) \/ Persist(d) \/ Settle(d)

WorkerNext ==
  \/ \E d \in Delivery : Handle(d) \/ LockExpires(d) \/ \E i \in Instances : Receive(d, i)
  \/ \E i \in Instances : Crash(i) \/ Recycle(i)
=============================================================================
