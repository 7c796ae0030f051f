------------------------------ MODULE Pipeline ------------------------------
(***************************************************************************)
(* The scan pipeline: Gateway, queue, Worker instances, result stores and  *)
(* Report, composed. The Gateway and the Worker share only the queue, the  *)
(* Worker and the Report Function only the Cosmos container.               *)
(***************************************************************************)
EXTENDS Gateway, Worker, Report

vars == <<gw, msg, inv, cosmos, disk>>

Init == GatewayInit /\ BusInit /\ StoreInit /\ WorkerInit

Next == \/ GatewayNext /\ UNCHANGED <<inv, cosmos, disk>>
        \/ WorkerNext  /\ UNCHANGED gw

Spec == Init /\ [][Next]_vars

\* The host keeps a started handler running, a sender keeps sending, and the
\* queue keeps offering a message and gives up the lock of a dead holder. A
\* request need not come, no live holder has to lose its lock, and no fault has
\* to happen.
Fairness ==
  /\ \A j \in Jobs : WF_vars(Send(j) /\ UNCHANGED <<inv, cosmos, disk>>)
  /\ \A d \in Delivery :
       /\ WF_vars(Handle(d) /\ UNCHANGED gw)
       /\ WF_vars(inv[d].pc = "dead" /\ LockExpires(d) /\ UNCHANGED gw)
       /\ WF_vars((\E i \in Instances : Receive(d, i)) /\ UNCHANGED gw)

FairSpec == Spec /\ Fairness

-----------------------------------------------------------------------------
(* Type invariant *)

TypeOK == GatewayTypeOK /\ BusTypeOK /\ StoreTypeOK /\ WorkerTypeOK

-----------------------------------------------------------------------------
(* Safety *)

NoTraceOf(j) ==
  /\ \A a \in Attempt : msg[<<j, a>>].state = "absent"
  /\ cosmos[j] = None
  /\ \A i \in Instances : disk[i][j] = None

\* A blocklisted target, and a request answered 400 or 403, leaves no trace in
\* the queue or in either store: handle_scan_request runs the blocklist "before
\* anything else: a blocked target must never leave a trace downstream".
RefusedLeavesNoTrace ==
  \A j \in Jobs : j \in Blocklisted \/ gw[j].pc \in {"new", "400", "403"} => NoTraceOf(j)

\* When persist_scan_result says "cosmos", the stored document is the result of
\* that very scan, whatever other deliveries of the same job (duplicates from
\* the Gateway's resends, redeliveries, a holder whose lock was lost) wrote.
CosmosOutcomeIsOwnDocument ==
  \A d \in Delivery : inv[d].outcome = "cosmos" => cosmos[JobOf(d)] = d

\* Only the delivery that holds the lock completes its message, and only once
\* its handler returned: a completed message was handled by its last delivery,
\* to an outcome that is not an exception.
CompletedWasHandled ==
  \A m \in Message : msg[m].state = "completed" =>
    LET d == <<m, msg[m].deliveries>>
    IN  inv[d].pc = "done" /\ inv[d].outcome \notin {"raised", "open"}

\* No message is dead-lettered before process_scan has been started for it
\* max_delivery_count times.
DeadLetteredWasTried ==
  \A m \in Message : msg[m].state = "dead" =>
    \A n \in 1..MaxDelivery : inv[<<m, n>>].pc # "idle"

\* Two ways a delivery may have left a local file half-written, or be about to.
MayHaveTorn(e) ==
  \/ inv[e].pc \in {"local_dump", "dead"} /\ inv[e].outcome = "open"
  \/ inv[e].outcome = "none"

\* The invariant persist_scan_result's docstring names, "a scan result must never
\* be lost because Cosmos DB was unavailable", under what it can mean on a disk that
\* lasts as long as its instance: a job that has a finished scan has its result in
\* Cosmos, or whole in a local file of the instance. It is lost only to the disk, or
\* its file is torn, and then by a delivery of the job that opened it and is writing
\* still, or was stopped, or failed.
FinishedScanIsKept ==
  "recycle" \notin Faults =>
    \A d \in Delivery : inv[d].outcome \in {"cosmos", "local", "none"} =>
      \/ cosmos[JobOf(d)] # None
      \/ disk[inv[d].on][JobOf(d)] \in Delivery
      \/ inv[d].outcome = "none" /\ "disk" \in Faults
      \/ /\ disk[inv[d].on][JobOf(d)] = Torn
         /\ \E e \in Delivery : MayHaveTorn(e) /\ inv[e].on = inv[d].on /\ JobOf(e) = JobOf(d)

\* With Cosmos taking every write (answers may get lost) and scans that finish,
\* a completed message means a readable result, through resends, lost locks,
\* crashed processes and recycled instances: nobody completes a message before
\* a document of its job is stored.
HealthyCosmosCompletedIsReported ==
  CosmosConfigured /\ Faults \cap {"cosmos", "unsafe", "no_plugins", "raise"} = {} =>
    \A m \in Message : msg[m].state = "completed" => ResultRoute(m[1]).code = "200"

\* Why the above hold: the inductive invariants behind them. A run of a handler
\* comes from a message, a message from a request that was not refused, a
\* document or a file from a run.
TraceInv ==
  /\ \A j \in Jobs : gw[j].pc \in {"sending", "202", "503", "none"} => j \notin Blocklisted
  /\ \A m \in Message : msg[m].state # "absent" =>
       gw[m[1]].pc \in {"sending", "202", "500", "503", "none"} /\ m[1] \notin Blocklisted
  /\ \A d \in Delivery : inv[d].pc # "idle" => msg[MessageOf(d)].state # "absent"
  /\ \A j \in Jobs : cosmos[j] # None => \E m \in Message : m[1] = j /\ msg[m].state # "absent"
  /\ \A i \in Instances, j \in Jobs :
       disk[i][j] # None => \E m \in Message : m[1] = j /\ msg[m].state # "absent"

\* The deliveries counted for a message are the runs started for it, a message
\* is dead only when all were used, and a run that is over has an outcome.
DeliveryInv ==
  /\ \A d \in Delivery : NumberOf(d) <= msg[MessageOf(d)].deliveries <=> inv[d].pc # "idle"
  /\ \A m \in Message : msg[m].state \in {"locked", "completed"} => msg[m].deliveries > 0
  /\ \A m \in Message : msg[m].state = "dead" => msg[m].deliveries = MaxDelivery
  /\ \A d \in Delivery : inv[d].pc \in {"settle", "done"} => inv[d].outcome # "open"

\* With a Cosmos that takes every write and scans that finish, a run falls back to
\* a local file, or is over, only when a document of its job is stored.
StoredInv ==
  CosmosConfigured /\ Faults \cap {"cosmos", "unsafe", "no_plugins", "raise"} = {} =>
    \A d \in Delivery :
      inv[d].pc \in {"local_open", "local_dump"} \/ inv[d].outcome # "open" => cosmos[JobOf(d)] # None

\* A started run has an instance, and an outcome only when persist_scan_result is over.
RunInv ==
  \A d \in Delivery :
    /\ inv[d].pc # "idle" => inv[d].on \in Instances
    /\ inv[d].pc \in {"idle", "scan"} \cup Persisting => inv[d].outcome = "open"

\* Two runs of one instance are never both inside persist_scan_result: a file that
\* is being rewritten has one writer.
LoopInv ==
  \A d, e \in Delivery :
    inv[d].pc \in Persisting /\ inv[e].pc \in Persisting /\ inv[d].on = inv[e].on => d = e

\* A run gets its result stored where no disk fails, its file is there where no
\* instance is replaced, and it is torn only if a run of that job opened it.
FileInv ==
  /\ "disk" \notin Faults => \A d \in Delivery : inv[d].outcome # "none"
  /\ "recycle" \notin Faults =>
       \A d \in Delivery : inv[d].outcome = "local" => disk[inv[d].on][JobOf(d)] # None
  /\ \A i \in Instances, j \in Jobs :
       disk[i][j] = Torn => \E e \in Delivery : MayHaveTorn(e) /\ inv[e].on = i /\ JobOf(e) = j

-----------------------------------------------------------------------------
(* Action properties and refinement *)

\* A poller that got a result from GET /report/result gets the same body from
\* then on, however often the job is scanned again: create_item never replaces.
ResultReadsAreStable ==
  [][\A j \in Jobs : ResultRoute(j).code = "200" => ResultRoute(j)' = ResultRoute(j)]_vars

Request ==
  [j \in Jobs |-> CASE gw[j].pc = "new"                     -> "new"
                    [] gw[j].pc \in {"400", "403"}          -> "refused"
                    [] gw[j].pc = "sending"                 -> "pending"
                    [] gw[j].pc = "202"                     -> "accepted"
                    [] gw[j].pc \in {"500", "503", "none"}  -> "failed"]

Lifecycle == INSTANCE ScanLifecycle WITH
  Results <- Delivery, request <- Request, report <- cosmos

\* The pipeline implements the life cycle of a job.
ImplementsLifecycle == Lifecycle!Spec

-----------------------------------------------------------------------------
(* Liveness *)

SettledMessage(m) == msg[m].state \in {"absent", "completed", "dead"}

\* Every accepted job is disposed of: each copy of its message is completed or
\* dead-lettered, through lost locks, crashes and retries.
AcceptedIsSettled ==
  \A j \in Jobs : gw[j].pc = "202" ~> \A a \in Attempt : SettledMessage(<<j, a>>)

\* An accepted job, with a Cosmos that takes every write, can be read in the end
\* unless a process dies with it, or its scan raises each time that one of its
\* messages is delivered: even when the Gateway's sends, create_item's answers and
\* every lock are lost, because a delivery whose message was taken away, or
\* dead-lettered, still stores its result.
AcceptedIsReported ==
  \A j \in Jobs : gw[j].pc = "202" ~>
    \/ ResultRoute(j).code = "200"
    \/ \E d \in Delivery : JobOf(d) = j /\ inv[d].pc = "dead"
    \/ \E a \in Attempt : \A n \in 1..MaxDelivery : inv[<<<<j, a>>, n>>].outcome = "raised"

-----------------------------------------------------------------------------
(* What the repository says and the code does not do *)

\* report/function_app.py: the explicit status is "written by ... blocked_ssrf
\* early exit", from which _derive_status answers Failed.
BlockedIsReportedFailed ==
  \A d \in Delivery :
    inv[d].pc = "done" /\ inv[d].outcome = "blocked_ssrf" => StatusRoute(JobOf(d)).status = "Failed"

\* persist_scan_result's docstring: "a scan result must never be lost because
\* Cosmos DB was unavailable". A result kept in a local file stays readable, on
\* an instance that is not recycled and a disk that takes every write.
LocalResultIsNotTorn ==
  \A d \in Delivery : inv[d].outcome = "local" =>
    \/ disk[inv[d].on][JobOf(d)] \in Delivery
    \/ \E e \in Delivery : inv[e].pc = "local_dump" /\ inv[e].on = inv[d].on
=============================================================================
