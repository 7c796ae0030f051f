--------------------------- MODULE PipelineProofs ---------------------------
(***************************************************************************)
(* Theorems about Pipeline, for every set of jobs and instances, every     *)
(* number of attempts and deliveries and every set of faults.              *)
(***************************************************************************)
EXTENDS Pipeline, TLAPS

\* The parts of a delivery are what their names say.
LEMMA DeliveryParts ==
  ASSUME NEW d \in Delivery
  PROVE  /\ JobOf(d) \in Jobs
         /\ MessageOf(d) \in Message
         /\ NumberOf(d) \in 1..MaxDelivery
  BY DEF Delivery, Message, JobOf, MessageOf, NumberOf

\* Every Gateway step keeps the types of the Gateway and of the queue.
LEMMA GatewayTypes ==
  ASSUME TypeOK, NEW j \in Jobs, Malformed(j) \/ Submit(j) \/ Send(j)
  PROVE  GatewayTypeOK' /\ BusTypeOK'
<1> USE AttemptsAssumption, DeliveryAssumption
<1> USE DEF TypeOK, GatewayTypeOK, BusTypeOK, Answer, Reply
<1>1. gw[j].attempt \in Attempt /\ <<j, gw[j].attempt>> \in Message
  BY DEF Message
<1>2. CASE Malformed(j)
  BY <1>2 DEF Malformed
<1>3. CASE Submit(j)
  BY <1>3 DEF Submit
<1>4. ASSUME AfterServiceBusError(j) PROVE GatewayTypeOK'
  BY <1>1, <1>4 DEF AfterServiceBusError, Attempt
<1>5. ASSUME Enqueue(<<j, gw[j].attempt>>) PROVE BusTypeOK'
  BY <1>1, <1>5 DEF Enqueue, MessageState
<1>6. CASE Send(j)
  <2>1. CASE SendAcknowledged(j)
    BY <2>1, <1>5 DEF SendAcknowledged
  <2>2. CASE SendAnswerLost(j)
    BY <2>2, <1>4, <1>5 DEF SendAnswerLost
  <2>3. CASE SendFails(j)
    BY <2>3, <1>4 DEF SendFails
  <2>4. CASE SendAborted(j)
    BY <2>4, <1>5 DEF SendAborted
  <2> QED BY <1>6, <2>1, <2>2, <2>3, <2>4 DEF Send
<1> QED BY <1>2, <1>3, <1>6

\* The four ways a message changes keep its type.
LEMMA BusTypes ==
  ASSUME BusTypeOK, NEW m \in Message,
         Lock(m) \/ Complete(m) \/ Release(m)
  PROVE  BusTypeOK'
<1> USE DeliveryAssumption DEF BusTypeOK, MessageState
<1>1. CASE Lock(m)
  BY <1>1 DEF Lock
<1>2. CASE Complete(m)
  BY <1>2 DEF Complete
<1>3. CASE Release(m)
  BY <1>3 DEF Release
<1> QED BY <1>1, <1>2, <1>3

\* Every Worker step keeps the types of the queue, the stores and the handlers.
LEMMA WorkerTypes ==
  ASSUME TypeOK, WorkerNext
  PROVE  BusTypeOK' /\ StoreTypeOK' /\ WorkerTypeOK'
<1> USE CosmosAssumption DEF TypeOK, StoreTypeOK, WorkerTypeOK, Pc, Live, Persisting, Outcome
<1>1. ASSUME NEW d \in Delivery, Handle(d)
      PROVE  BusTypeOK' /\ StoreTypeOK' /\ WorkerTypeOK'
  <2>1. JobOf(d) \in Jobs /\ MessageOf(d) \in Message
    BY DeliveryParts
  <2>2. ASSUME NEW pc \in Pc, Goto(d, pc) PROVE WorkerTypeOK'
    BY <2>2 DEF Goto
  <2>3. ASSUME NEW o \in Outcome, Finish(d, o) PROVE WorkerTypeOK'
    BY <2>3 DEF Finish
  <2>4. ASSUME AfterFailedWrite(d) PROVE WorkerTypeOK'
    BY <2>2, <2>4 DEF AfterFailedWrite
  <2>5. CASE ScanCompletes(d)
    BY <2>2, <2>5 DEF ScanCompletes, BusTypeOK
  <2>6. CASE ScanEndsEarly(d)
    BY <2>3, <2>6 DEF ScanEndsEarly, BusTypeOK
  <2>7. CASE WriteAcknowledged(d)
    BY <2>1, <2>3, <2>7 DEF WriteAcknowledged, CreateItem, BusTypeOK
  <2>8. CASE WriteAnswerLost(d)
    BY <2>1, <2>4, <2>8 DEF WriteAnswerLost, CreateItem, BusTypeOK
  <2>9. CASE WriteFails(d)
    BY <2>4, <2>9 DEF WriteFails, BusTypeOK
  <2>10. CASE LocalOpens(d)
    BY <2>1, <2>2, <2>10 DEF LocalOpens, OpenResultFile, BusTypeOK
  <2>11. CASE LocalDumps(d)
    BY <2>1, <2>3, <2>11 DEF LocalDumps, DumpResult, BusTypeOK
  <2>12. CASE LocalFails(d)
    BY <2>3, <2>12 DEF LocalFails, BusTypeOK
  <2>13. CASE Settle(d)
    <3>1. BusTypeOK'
      BY <2>1, <2>13, BusTypes DEF Settle, BusTypeOK
    <3> QED BY <2>2, <2>13, <3>1 DEF Settle
  <2> QED BY <1>1, <2>5, <2>6, <2>7, <2>8, <2>9, <2>10, <2>11, <2>12, <2>13
          DEF Handle, Persist
<1>2. ASSUME NEW d \in Delivery, LockExpires(d)
      PROVE  BusTypeOK' /\ StoreTypeOK' /\ WorkerTypeOK'
  BY <1>2, BusTypes, DeliveryParts DEF LockExpires
<1>3. ASSUME NEW d \in Delivery, NEW i \in Instances, Receive(d, i)
      PROVE  BusTypeOK' /\ StoreTypeOK' /\ WorkerTypeOK'
  <2>1. BusTypeOK'
    BY <1>3, BusTypes, DeliveryParts DEF Receive
  <2> QED BY <1>3, <2>1 DEF Receive
<1>4. ASSUME NEW i \in Instances, Stop(i) PROVE WorkerTypeOK'
  BY <1>4 DEF Stop
<1>5. ASSUME NEW i \in Instances, Crash(i)
      PROVE  BusTypeOK' /\ StoreTypeOK' /\ WorkerTypeOK'
  BY <1>4, <1>5 DEF Crash, BusTypeOK
<1>6. ASSUME NEW i \in Instances, Recycle(i)
      PROVE  BusTypeOK' /\ StoreTypeOK' /\ WorkerTypeOK'
  BY <1>4, <1>6 DEF Recycle, EraseDisk, BusTypeOK
<1> QED BY <1>1, <1>2, <1>3, <1>5, <1>6 DEF WorkerNext

\* Type correctness of the whole pipeline.
THEOREM TypeCorrect == Spec => []TypeOK
<1>1. Init => TypeOK
  BY AttemptsAssumption, DeliveryAssumption, CosmosAssumption
     DEF Init, GatewayInit, BusInit, StoreInit, WorkerInit, TypeOK, GatewayTypeOK, BusTypeOK,
         StoreTypeOK, WorkerTypeOK, MessageState, Pc, Live, Persisting, Outcome, Attempt
<1>2. TypeOK /\ [Next]_vars => TypeOK'
  <2> SUFFICES ASSUME TypeOK, [Next]_vars PROVE TypeOK'
    OBVIOUS
  <2>1. CASE GatewayNext /\ UNCHANGED <<inv, cosmos, disk>>
    BY <2>1, GatewayTypes DEF GatewayNext, TypeOK, StoreTypeOK, WorkerTypeOK
  <2>2. CASE WorkerNext /\ UNCHANGED gw
    BY <2>2, WorkerTypes DEF TypeOK, GatewayTypeOK
  <2>3. CASE UNCHANGED vars
    BY <2>3 DEF vars, TypeOK, GatewayTypeOK, BusTypeOK, StoreTypeOK, WorkerTypeOK
  <2> QED BY <2>1, <2>2, <2>3 DEF Next
<1> QED BY <1>1, <1>2, PTL DEF Spec

-----------------------------------------------------------------------------
(* What a step may do, whichever step it is. *)

\* A step of the Gateway for job j: the answer it gives and the message it sends.
LEMMA GatewayEffect ==
  ASSUME TypeOK, NEW j \in Jobs, Malformed(j) \/ Submit(j) \/ Send(j)
  PROVE  /\ \A k \in Jobs : k # j => gw'[k] = gw[k]
         /\ gw[j].pc \in {"new", "sending"}
         /\ gw[j].pc = "new" => gw'[j].pc \in {"sending", "400", "403", "500"} /\ msg' = msg
         /\ gw'[j].pc = "sending" => j \notin Blocklisted \/ gw[j].pc = "sending"
         /\ gw[j].pc = "sending" => gw'[j].pc \in {"sending", "202", "500", "503", "none"}
         /\ msg' = msg \/ Enqueue(<<j, gw[j].attempt>>)
<1> USE DEF TypeOK, GatewayTypeOK, Reply
<1>1. CASE Malformed(j)
  BY <1>1 DEF Malformed
<1>2. CASE Submit(j)
  BY <1>2 DEF Submit
<1>3. CASE Send(j)
  <2>1. ASSUME AfterServiceBusError(j), gw[j].pc = "sending"
        PROVE  /\ \A k \in Jobs : k # j => gw'[k] = gw[k]
               /\ gw'[j].pc \in {"sending", "503"}
    BY <2>1 DEF AfterServiceBusError
  <2>2. CASE SendAcknowledged(j)
    BY <2>2 DEF SendAcknowledged
  <2>3. CASE SendAnswerLost(j)
    BY <2>1, <2>3 DEF SendAnswerLost
  <2>4. CASE SendFails(j)
    BY <2>1, <2>4 DEF SendFails
  <2>5. CASE SendAborted(j)
    BY <2>5 DEF SendAborted
  <2> QED BY <1>3, <2>2, <2>3, <2>4, <2>5 DEF Send
<1> QED BY <1>1, <1>2, <1>3

\* A step of the handler of delivery d: only d's run advances, only its job's
\* entries of the stores change, a document is only inserted, and the message
\* changes only when the handler is over.
LEMMA HandlerEffect ==
  ASSUME TypeOK, NEW d \in Delivery, Handle(d)
  PROVE  /\ \A e \in Delivery : e # d => inv'[e] = inv[e]
         /\ inv[d].pc \in Live /\ inv'[d].pc \in Live \cup {"done"}
         /\ inv'[d].pc = "done" => inv[d].pc = "settle" /\ inv'[d].outcome = inv[d].outcome
         /\ inv'[d].pc = "settle" => inv'[d].outcome \in Outcome
         /\ inv'[d].outcome = "cosmos" => inv[d].outcome = "cosmos" \/ cosmos'[JobOf(d)] = d
         /\ cosmos' = cosmos \/ CreateItem(d)
         /\ \A i \in Instances, j \in Jobs : disk'[i][j] # disk[i][j] => j = JobOf(d)
         /\ \/ msg' = msg
            \/ /\ inv'[d].pc = "done" /\ HoldsLock(d)
               /\ \/ Complete(MessageOf(d)) /\ inv[d].outcome # "raised"
                  \/ Release(MessageOf(d))
<1> USE DEF TypeOK, WorkerTypeOK, StoreTypeOK, Goto, Finish, Live, Persisting, Outcome
<1>0. JobOf(d) \in Jobs
  BY DeliveryParts
<1>1. CASE ScanCompletes(d)
  BY <1>1 DEF ScanCompletes
<1>2. CASE ScanEndsEarly(d)
  <2>1. PICK o \in Outcome \ {"cosmos"} : Finish(d, o)
    BY <1>2 DEF ScanEndsEarly
  <2> QED BY <1>2, <2>1 DEF ScanEndsEarly
<1>3. ASSUME AfterFailedWrite(d), inv[d].pc = "cosmos_write"
      PROVE  /\ \A e \in Delivery : e # d => inv'[e] = inv[e]
             /\ inv'[d].pc \in {"cosmos_write", "local_open"}
             /\ inv'[d].outcome = inv[d].outcome
  BY <1>3 DEF AfterFailedWrite
<1>4. CASE WriteAcknowledged(d)
  BY <1>0, <1>4 DEF WriteAcknowledged, CreateItem
<1>5. CASE WriteAnswerLost(d)
  BY <1>3, <1>5 DEF WriteAnswerLost
<1>6. CASE WriteFails(d)
  BY <1>3, <1>6 DEF WriteFails
<1>7. CASE LocalOpens(d)
  BY <1>7 DEF LocalOpens, OpenResultFile
<1>8. CASE LocalDumps(d)
  BY <1>8 DEF LocalDumps, DumpResult
<1>9. CASE LocalFails(d)
  BY <1>9 DEF LocalFails
<1>10. CASE Settle(d)
  BY <1>10 DEF Settle
<1> QED BY <1>1, <1>2, <1>4, <1>5, <1>6, <1>7, <1>8, <1>9, <1>10 DEF Handle, Persist

\* An instance that stops only ends the runs it had.
LEMMA StopEffect ==
  ASSUME NEW i \in Instances, Crash(i) \/ Recycle(i), TypeOK
  PROVE  /\ \A d \in Delivery :
              \/ inv'[d] = inv[d]
              \/ /\ inv[d].pc \in Live /\ inv'[d].pc = "dead"
                 /\ inv'[d].outcome = inv[d].outcome
         /\ UNCHANGED <<msg, cosmos>>
         /\ \A k \in Instances, j \in Jobs : disk'[k][j] # disk[k][j] => disk'[k][j] = None
<1> USE DEF TypeOK, WorkerTypeOK, StoreTypeOK, Stop
<1>1. CASE Crash(i)
  BY <1>1 DEF Crash
<1>2. CASE Recycle(i)
  BY <1>2 DEF Recycle, EraseDisk
<1> QED BY <1>1, <1>2

-----------------------------------------------------------------------------
(* A published document stays. *)

\* create_item inserts and nothing else writes: no step changes a stored document.
LEMMA DocumentsStay ==
  ASSUME TypeOK, [Next]_vars, NEW j \in Jobs, cosmos[j] # None
  PROVE  cosmos'[j] = cosmos[j]
<1>1. CASE GatewayNext /\ UNCHANGED <<inv, cosmos, disk>>
  BY <1>1
<1>2. CASE WorkerNext /\ UNCHANGED gw
  <2>1. ASSUME NEW d \in Delivery, Handle(d) PROVE cosmos'[j] = cosmos[j]
    BY <2>1, HandlerEffect DEF CreateItem, TypeOK, StoreTypeOK
  <2>2. ASSUME NEW d \in Delivery, LockExpires(d) PROVE cosmos' = cosmos
    BY <2>2 DEF LockExpires
  <2>3. ASSUME NEW d \in Delivery, NEW i \in Instances, Receive(d, i) PROVE cosmos' = cosmos
    BY <2>3 DEF Receive
  <2>4. ASSUME NEW i \in Instances, Crash(i) \/ Recycle(i) PROVE cosmos' = cosmos
    BY <2>4 DEF Crash, Recycle
  <2> QED BY <1>2, <2>1, <2>2, <2>3, <2>4 DEF WorkerNext
<1>3. CASE UNCHANGED vars
  BY <1>3 DEF vars
<1> QED BY <1>1, <1>2, <1>3 DEF Next

\* What GET /report/result answers depends on the stored document alone.
LEMMA ResultRouteReads ==
  ASSUME NEW j \in Jobs, cosmos'[j] = cosmos[j]
  PROVE  ResultRoute(j)' = ResultRoute(j)
  BY DEF ResultRoute, StoredDocument, DeriveStatus

\* A result that was read once reads the same from then on.
THEOREM ResultsAreStable == Spec => ResultReadsAreStable
<1>1. TypeOK /\ [Next]_vars =>
        [\A j \in Jobs : ResultRoute(j).code = "200" => ResultRoute(j)' = ResultRoute(j)]_vars
  <2> SUFFICES ASSUME TypeOK, [Next]_vars, NEW j \in Jobs, ResultRoute(j).code = "200"
               PROVE  ResultRoute(j)' = ResultRoute(j)
    OBVIOUS
  <2>1. cosmos[j] # None
    BY DEF ResultRoute
  <2> QED BY <2>1, DocumentsStay, ResultRouteReads
<1> QED BY <1>1, TypeCorrect, PTL DEF Spec, ResultReadsAreStable

-----------------------------------------------------------------------------
(* "cosmos" means: my document. *)

\* A handler that reports "cosmos" has its own result stored, in every state.
THEOREM CosmosOutcomeIsOwn == Spec => []CosmosOutcomeIsOwnDocument
<1>1. Init => CosmosOutcomeIsOwnDocument
  BY DEF Init, WorkerInit, CosmosOutcomeIsOwnDocument
<1>2. TypeOK /\ CosmosOutcomeIsOwnDocument /\ [Next]_vars => CosmosOutcomeIsOwnDocument'
  <2> SUFFICES ASSUME TypeOK, CosmosOutcomeIsOwnDocument, [Next]_vars,
                      NEW e \in Delivery, inv'[e].outcome = "cosmos"
               PROVE  cosmos'[JobOf(e)] = e
    BY DEF CosmosOutcomeIsOwnDocument
  <2>1. JobOf(e) \in Jobs /\ e # None
    BY DeliveryParts, NoneAssumption
  <2>2. ASSUME inv[e].outcome = "cosmos" PROVE cosmos'[JobOf(e)] = e
    BY <2>1, <2>2, DocumentsStay DEF CosmosOutcomeIsOwnDocument
  <2>3. CASE GatewayNext /\ UNCHANGED <<inv, cosmos, disk>>
    BY <2>2, <2>3
  <2>4. CASE WorkerNext /\ UNCHANGED gw
    <3>1. ASSUME NEW d \in Delivery, Handle(d) PROVE cosmos'[JobOf(e)] = e
      BY <2>2, <3>1, HandlerEffect
    <3>2. ASSUME NEW d \in Delivery, LockExpires(d) PROVE inv'[e] = inv[e]
      BY <3>2 DEF LockExpires
    <3>3. ASSUME NEW d \in Delivery, NEW i \in Instances, Receive(d, i)
          PROVE  inv'[e].outcome = inv[e].outcome
      BY <3>3 DEF Receive, TypeOK, WorkerTypeOK
    <3>4. ASSUME NEW i \in Instances, Crash(i) \/ Recycle(i)
          PROVE  inv'[e].outcome = inv[e].outcome
      BY <3>4, StopEffect
    <3> QED BY <2>2, <2>4, <3>1, <3>2, <3>3, <3>4 DEF WorkerNext
  <2>5. CASE UNCHANGED vars
    BY <2>2, <2>5 DEF vars
  <2> QED BY <2>3, <2>4, <2>5 DEF Next
<1> QED BY <1>1, <1>2, TypeCorrect, PTL DEF Spec

-----------------------------------------------------------------------------
(* Every message and every document can be traced back to its request. *)

\* A step of the Gateway keeps TraceInv: it sends only for the job it serves,
\* which is past the blocklist.
LEMMA GatewayKeepsTrace ==
  ASSUME TypeOK, TraceInv, GatewayNext, UNCHANGED <<inv, cosmos, disk>>
  PROVE  TraceInv'
<1> USE DEF TypeOK, GatewayTypeOK, BusTypeOK
<1>1. PICK j \in Jobs : Malformed(j) \/ Submit(j) \/ Send(j)
  BY DEF GatewayNext
<1> DEFINE mine == <<j, gw[j].attempt>>
<1>2. mine \in Message /\ mine[1] = j
  BY DEF Message
<1>3. msg' = msg \/ Enqueue(mine)
  BY <1>1, GatewayEffect
<1> HIDE DEF mine
<1>4. \A m \in Message : msg'[m].state = "absent" => msg[m].state = "absent"
  BY <1>2, <1>3 DEF Enqueue
<1>5. \A m \in Message : msg'[m].state # "absent" => msg[m].state # "absent" \/ m = mine
  BY <1>2, <1>3 DEF Enqueue
<1>6. \A k \in Jobs : gw'[k].pc \in {"sending", "202", "503", "none"} => k \notin Blocklisted
  BY <1>1, GatewayEffect DEF TraceInv
<1>7. ASSUME NEW m \in Message, msg'[m].state # "absent"
      PROVE  gw'[m[1]].pc \in {"sending", "202", "500", "503", "none"} /\ m[1] \notin Blocklisted
  <2>1. m[1] \in Jobs
    BY DEF Message
  <2>2. CASE m[1] # j
    <3>1. gw'[m[1]] = gw[m[1]]
      BY <1>1, <2>1, <2>2, GatewayEffect
    <3>2. msg[m].state # "absent"
      BY <1>2, <1>5, <1>7, <2>2
    <3> QED BY <3>1, <3>2 DEF TraceInv
  <2>3. CASE m[1] = j /\ gw[j].pc = "new"
    BY <1>1, <1>7, <2>3, GatewayEffect DEF TraceInv
  <2>4. CASE m[1] = j /\ gw[j].pc = "sending"
    BY <1>1, <2>4, GatewayEffect DEF TraceInv
  <2> QED BY <1>1, <2>2, <2>3, <2>4, GatewayEffect
<1>8. /\ \A d \in Delivery : inv'[d].pc # "idle" => msg'[MessageOf(d)].state # "absent"
      /\ \A k \in Jobs : cosmos'[k] # None => \E m \in Message : m[1] = k /\ msg'[m].state # "absent"
      /\ \A i \in Instances, k \in Jobs :
           disk'[i][k] # None => \E m \in Message : m[1] = k /\ msg'[m].state # "absent"
  BY <1>4, DeliveryParts DEF TraceInv
<1> QED BY <1>6, <1>7, <1>8 DEF TraceInv

\* A step of the Worker keeps TraceInv: it adds no message, and it touches the
\* stores only for the job whose message it holds.
LEMMA WorkerKeepsTrace ==
  ASSUME TypeOK, TraceInv, WorkerNext, gw' = gw
  PROVE  TraceInv'
<1> USE DEF TypeOK, BusTypeOK, StoreTypeOK, WorkerTypeOK
<1> DEFINE Traced(j) == \E m \in Message : m[1] = j /\ msg[m].state # "absent"
<1>0. ASSUME \A m \in Message : msg'[m].state = "absent" <=> msg[m].state = "absent",
             \A d \in Delivery : inv'[d].pc # "idle" => msg[MessageOf(d)].state # "absent",
             \A j \in Jobs : cosmos'[j] # None => Traced(j),
             \A i \in Instances, j \in Jobs : disk'[i][j] # None => Traced(j)
      PROVE  TraceInv'
  <2>1. \A j \in Jobs : Traced(j) => \E m \in Message : m[1] = j /\ msg'[m].state # "absent"
    BY <1>0
  <2>2. \A d \in Delivery : inv'[d].pc # "idle" => msg'[MessageOf(d)].state # "absent"
    BY <1>0, DeliveryParts
  <2>3. \A m \in Message : msg'[m].state # "absent" =>
          gw'[m[1]].pc \in {"sending", "202", "500", "503", "none"} /\ m[1] \notin Blocklisted
    BY <1>0 DEF TraceInv
  <2>4. \A j \in Jobs : gw'[j].pc \in {"sending", "202", "503", "none"} => j \notin Blocklisted
    BY DEF TraceInv
  <2> HIDE DEF Traced
  <2> QED BY <1>0, <2>1, <2>2, <2>3, <2>4 DEF TraceInv
<1>1. ASSUME NEW n \in Message, Lock(n) \/ Complete(n) \/ Release(n)
      PROVE  \A m \in Message : msg'[m].state = "absent" <=> msg[m].state = "absent"
  <2>1. CASE Lock(n)
    BY <2>1 DEF Lock
  <2>2. CASE Complete(n)
    BY <2>2 DEF Complete
  <2>3. CASE Release(n)
    BY <2>3 DEF Release
  <2> QED BY <1>1, <2>1, <2>2, <2>3
<1>2. ASSUME NEW d \in Delivery, Handle(d)
      PROVE  /\ \A m \in Message : msg'[m].state = "absent" <=> msg[m].state = "absent"
             /\ \A e \in Delivery : inv'[e].pc # "idle" => msg[MessageOf(e)].state # "absent"
             /\ \A j \in Jobs : cosmos'[j] # None => Traced(j)
             /\ \A i \in Instances, j \in Jobs : disk'[i][j] # None => Traced(j)
  <2>1. msg[MessageOf(d)].state # "absent"
    BY <1>2, HandlerEffect DEF TraceInv, Live, Persisting
  <2>2. MessageOf(d) \in Message /\ MessageOf(d)[1] = JobOf(d)
    BY DeliveryParts DEF MessageOf, JobOf
  <2>3. Traced(JobOf(d))
    BY <2>1, <2>2
  <2>4. \A m \in Message : msg'[m].state = "absent" <=> msg[m].state = "absent"
    BY <1>1, <1>2, <2>2, HandlerEffect
  <2>5. \A e \in Delivery : inv'[e].pc # "idle" => msg[MessageOf(e)].state # "absent"
    BY <1>2, <2>1, HandlerEffect DEF TraceInv
  <2>6. \A j \in Jobs : cosmos'[j] # None => Traced(j)
    <3>1. cosmos' = cosmos \/ CreateItem(d)
      BY <1>2, HandlerEffect
    <3> QED BY <2>3, <3>1 DEF CreateItem, TraceInv
  <2>7. \A i \in Instances, j \in Jobs : disk'[i][j] # None => Traced(j)
    <3>1. \A i \in Instances, j \in Jobs : disk'[i][j] # disk[i][j] => j = JobOf(d)
      BY <1>2, HandlerEffect
    <3> QED BY <2>3, <3>1 DEF TraceInv
  <2> QED BY <2>4, <2>5, <2>6, <2>7
<1>3. ASSUME NEW d \in Delivery, LockExpires(d)
      PROVE  /\ \A m \in Message : msg'[m].state = "absent" <=> msg[m].state = "absent"
             /\ UNCHANGED <<inv, cosmos, disk>>
  BY <1>1, <1>3, DeliveryParts DEF LockExpires
<1>4. ASSUME NEW d \in Delivery, NEW i \in Instances, Receive(d, i)
      PROVE  /\ \A m \in Message : msg'[m].state = "absent" <=> msg[m].state = "absent"
             /\ \A e \in Delivery : inv'[e].pc # "idle" => msg[MessageOf(e)].state # "absent"
             /\ UNCHANGED <<cosmos, disk>>
  <2>1. msg[MessageOf(d)].state = "available"
    BY <1>4 DEF Receive, Lock
  <2> QED BY <1>1, <1>4, <2>1, DeliveryParts DEF Receive, TraceInv
<1>5. ASSUME NEW i \in Instances, Crash(i) \/ Recycle(i)
      PROVE  /\ UNCHANGED <<msg, cosmos>>
             /\ \A e \in Delivery : inv'[e].pc # "idle" => inv[e].pc # "idle"
             /\ \A k \in Instances, j \in Jobs : disk'[k][j] # None => disk[k][j] # None
  BY <1>5, StopEffect DEF Live, Persisting
<1> QED BY <1>0, <1>2, <1>3, <1>4, <1>5 DEF WorkerNext, TraceInv

\* The trace invariant itself.
LEMMA TraceHolds == Spec => []TraceInv
<1>1. Init => TraceInv
  BY DeliveryParts DEF Init, GatewayInit, BusInit, StoreInit, WorkerInit, TraceInv
<1>2. TypeOK /\ TraceInv /\ [Next]_vars => TraceInv'
  <2> SUFFICES ASSUME TypeOK, TraceInv, [Next]_vars PROVE TraceInv'
    OBVIOUS
  <2>1. CASE UNCHANGED vars
    BY <2>1 DEF vars, TraceInv
  <2> QED BY <2>1, GatewayKeepsTrace, WorkerKeepsTrace DEF Next
<1> QED BY <1>1, <1>2, TypeCorrect, PTL DEF Spec

\* A blocklisted target, and any request that was refused, leaves no trace.
THEOREM RefusedLeaveNoTrace == Spec => []RefusedLeavesNoTrace
<1>1. TypeOK /\ TraceInv => RefusedLeavesNoTrace
  <2> SUFFICES ASSUME TypeOK, TraceInv, NEW j \in Jobs,
                      j \in Blocklisted \/ gw[j].pc \in {"new", "400", "403"}
               PROVE  NoTraceOf(j)
    BY DEF RefusedLeavesNoTrace
  <2>1. \A m \in Message : m[1] = j => msg[m].state = "absent"
    BY DEF TraceInv
  <2>2. \A a \in Attempt : msg[<<j, a>>].state = "absent"
    BY <2>1 DEF Message
  <2>3. cosmos[j] = None /\ \A i \in Instances : disk[i][j] = None
    BY <2>1 DEF TraceInv
  <2> QED BY <2>2, <2>3 DEF NoTraceOf
<1> QED BY <1>1, TypeCorrect, TraceHolds, PTL

-----------------------------------------------------------------------------
(* The pipeline implements the life cycle of a job. *)

\* A step of the Gateway takes or resolves one request, or only sends again.
LEMMA GatewayImplements ==
  ASSUME TypeOK, GatewayNext, UNCHANGED <<inv, cosmos, disk>>
  PROVE  Lifecycle!Next \/ UNCHANGED <<Request, cosmos>>
<1> USE DEF TypeOK, GatewayTypeOK, Answer
<1>1. PICK j \in Jobs : Malformed(j) \/ Submit(j) \/ Send(j)
  BY DEF GatewayNext
<1> DEFINE Image(pc) == CASE pc = "new"                    -> "new"
                          [] pc \in {"400", "403"}         -> "refused"
                          [] pc = "sending"                -> "pending"
                          [] pc = "202"                    -> "accepted"
                          [] pc \in {"500", "503", "none"} -> "failed"
<1>2. Request = [k \in Jobs |-> Image(gw[k].pc)] /\ Request' = [k \in Jobs |-> Image(gw'[k].pc)]
  BY DEF Request
<1>3. Request' = [Request EXCEPT ![j] = Image(gw'[j].pc)]
  <2>1. \A k \in Jobs : k # j => gw'[k] = gw[k]
    BY <1>1, GatewayEffect
  <2> HIDE DEF Image
  <2> QED BY <1>2, <2>1
<1>4. CASE gw[j].pc = "new"
  <2>1. gw'[j].pc \in {"sending", "400", "403", "500"}
    BY <1>1, <1>4, GatewayEffect
  <2>2. Request[j] = "new" /\ Image(gw'[j].pc) \in {"pending", "refused", "failed"}
    BY <1>2, <1>4, <2>1
  <2>3. Lifecycle!Take(j)
    BY <1>3, <2>2 DEF Lifecycle!Take
  <2> QED BY <2>3 DEF Lifecycle!Next
<1>5. CASE gw[j].pc = "sending"
  <2>1. gw'[j].pc \in {"sending", "202", "500", "503", "none"}
    BY <1>1, <1>5, GatewayEffect
  <2>2. CASE gw'[j].pc = "sending"
    <3>1. Request' = Request
      BY <1>2, <1>3, <1>5, <2>2
    <3> QED BY <3>1
  <2>3. CASE gw'[j].pc # "sending"
    <3>1. Request[j] = "pending" /\ Image(gw'[j].pc) \in {"accepted", "failed"}
      BY <1>2, <1>5, <2>1, <2>3
    <3>2. Lifecycle!Resolve(j)
      BY <1>3, <3>1 DEF Lifecycle!Resolve
    <3> QED BY <3>2 DEF Lifecycle!Next
  <2> QED BY <2>2, <2>3
<1> QED BY <1>1, <1>4, <1>5, GatewayEffect

\* A step of the Worker publishes one report of a request that was not refused,
\* or none.
LEMMA WorkerImplements ==
  ASSUME TypeOK, TraceInv, WorkerNext, gw' = gw
  PROVE  Lifecycle!Next \/ UNCHANGED <<Request, cosmos>>
<1> USE DEF TypeOK, StoreTypeOK
<1>1. Request' = Request
  BY DEF Request
<1>2. ASSUME NEW d \in Delivery, Handle(d), cosmos' # cosmos PROVE Lifecycle!Next
  <2>1. CreateItem(d) /\ JobOf(d) \in Jobs /\ MessageOf(d) \in Message
    BY <1>2, HandlerEffect, DeliveryParts
  <2>2. gw[JobOf(d)].pc \in {"sending", "202", "500", "503", "none"}
    <3>1. msg[MessageOf(d)].state # "absent"
      BY <1>2, HandlerEffect DEF TraceInv, Live, Persisting
    <3> QED BY <2>1, <3>1 DEF TraceInv, JobOf, MessageOf
  <2>3. Request[JobOf(d)] \in {"pending", "accepted", "failed"}
    BY <2>1, <2>2 DEF Request
  <2>4. Lifecycle!Publish(JobOf(d))
    BY <1>1, <2>1, <2>3 DEF Lifecycle!Publish, CreateItem
  <2> QED BY <2>1, <2>4 DEF Lifecycle!Next
<1>3. ASSUME NEW d \in Delivery, LockExpires(d) PROVE cosmos' = cosmos
  BY <1>3 DEF LockExpires
<1>4. ASSUME NEW d \in Delivery, NEW i \in Instances, Receive(d, i) PROVE cosmos' = cosmos
  BY <1>4 DEF Receive
<1>5. ASSUME NEW i \in Instances, Crash(i) \/ Recycle(i) PROVE cosmos' = cosmos
  BY <1>5 DEF Crash, Recycle
<1> QED BY <1>1, <1>2, <1>3, <1>4, <1>5 DEF WorkerNext

\* The refinement: the whole pipeline, retries and faults included, is a
\* ScanLifecycle under the mapping Request, cosmos.
THEOREM PipelineImplementsLifecycle == Spec => ImplementsLifecycle
<1>1. Init => Lifecycle!Init
  BY DEF Init, GatewayInit, StoreInit, Lifecycle!Init, Request
<1>2. TypeOK /\ TraceInv /\ [Next]_vars => [Lifecycle!Next]_<<Request, cosmos>>
  <2> SUFFICES ASSUME TypeOK, TraceInv, [Next]_vars
               PROVE  Lifecycle!Next \/ UNCHANGED <<Request, cosmos>>
    OBVIOUS
  <2>1. CASE UNCHANGED vars
    BY <2>1 DEF vars, Request
  <2> QED BY <2>1, GatewayImplements, WorkerImplements DEF Next
<1> QED BY <1>1, <1>2, TypeCorrect, TraceHolds, PTL DEF Spec, ImplementsLifecycle, Lifecycle!Spec

-----------------------------------------------------------------------------
(* Completed and dead-lettered messages. *)

\* What one Worker step does to one message m: nothing, a delivery of it is
\* started, its last delivery's handler settles it, or its lock runs out.
LEMMA MessageEffect ==
  ASSUME TypeOK, WorkerNext, NEW m \in Message
  PROVE  \/ msg'[m] = msg[m]
         \/ \E d \in Delivery, i \in Instances : MessageOf(d) = m /\ Receive(d, i)
         \/ \E d \in Delivery :
              /\ MessageOf(d) = m /\ HoldsLock(d)
              /\ \/ /\ Handle(d) /\ inv'[d].pc = "done" /\ inv[d].outcome # "raised"
                    /\ Complete(m)
                 \/ Release(m) /\ (Handle(d) \/ LockExpires(d))
<1> USE DEF TypeOK, BusTypeOK
<1>1. ASSUME NEW d \in Delivery, Handle(d), msg'[m] # msg[m]
      PROVE  /\ MessageOf(d) = m /\ HoldsLock(d)
             /\ \/ /\ inv'[d].pc = "done" /\ inv[d].outcome # "raised"
                   /\ Complete(m)
                \/ Release(m)
  <2>1. /\ inv'[d].pc = "done" /\ HoldsLock(d)
        /\ \/ Complete(MessageOf(d)) /\ inv[d].outcome # "raised"
           \/ Release(MessageOf(d))
    BY <1>1, HandlerEffect
  <2>2. MessageOf(d) = m
    BY <1>1, <2>1, DeliveryParts DEF Complete, Release
  <2> QED BY <2>1, <2>2
<1>2. ASSUME NEW d \in Delivery, LockExpires(d), msg'[m] # msg[m]
      PROVE  MessageOf(d) = m /\ HoldsLock(d) /\ Release(m)
  BY <1>2, DeliveryParts DEF LockExpires, Release
<1>3. ASSUME NEW d \in Delivery, NEW i \in Instances, Receive(d, i), msg'[m] # msg[m]
      PROVE  MessageOf(d) = m
  BY <1>3, DeliveryParts DEF Receive, Lock
<1>4. ASSUME NEW i \in Instances, Crash(i) \/ Recycle(i) PROVE msg' = msg
  BY <1>4 DEF Crash, Recycle
<1> QED BY <1>1, <1>2, <1>3, <1>4 DEF WorkerNext

\* What one step does to the run of delivery d: nothing, it is started, it moves
\* on or settles, or it dies.
LEMMA RunEffect ==
  ASSUME TypeOK, WorkerNext, NEW d \in Delivery
  PROVE  \/ inv'[d] = inv[d]
         \/ \E i \in Instances : Receive(d, i)
         \/ /\ Handle(d) /\ inv[d].pc \in Live /\ inv'[d].pc \in Live \cup {"done"}
            /\ inv'[d].pc = "done" => inv[d].pc = "settle" /\ inv'[d].outcome = inv[d].outcome
            /\ inv'[d].pc = "settle" => inv'[d].outcome \in Outcome
         \/ inv[d].pc \in Live /\ inv'[d].pc = "dead"
<1>1. ASSUME NEW e \in Delivery, Handle(e), e # d PROVE inv'[d] = inv[d]
  BY <1>1, HandlerEffect
<1>2. ASSUME NEW e \in Delivery, LockExpires(e) PROVE inv'[d] = inv[d]
  BY <1>2 DEF LockExpires
<1>3. ASSUME NEW e \in Delivery, NEW i \in Instances, Receive(e, i), e # d PROVE inv'[d] = inv[d]
  BY <1>3 DEF Receive, TypeOK, WorkerTypeOK
<1>4. ASSUME NEW i \in Instances, Crash(i) \/ Recycle(i)
      PROVE  inv'[d] = inv[d] \/ (inv[d].pc \in Live /\ inv'[d].pc = "dead")
  BY <1>4, StopEffect
<1> QED BY <1>1, <1>2, <1>3, <1>4, HandlerEffect DEF WorkerNext

\* The Gateway leaves every count of deliveries alone.
LEMMA GatewayKeepsDeliveries ==
  ASSUME TypeOK, GatewayNext, NEW m \in Message
  PROVE  \/ msg'[m] = msg[m]
         \/ msg'[m].state = "available" /\ msg'[m].deliveries = msg[m].deliveries
<1>1. PICK j \in Jobs : Malformed(j) \/ Submit(j) \/ Send(j)
  BY DEF GatewayNext
<1>2. msg' = msg \/ Enqueue(<<j, gw[j].attempt>>)
  BY <1>1, GatewayEffect
<1>3. <<j, gw[j].attempt>> \in Message
  BY DEF Message, TypeOK, GatewayTypeOK
<1> QED BY <1>2, <1>3 DEF Enqueue, TypeOK, BusTypeOK

\* The deliveries counted for a message are the runs started for it.
LEMMA DeliveryInvHolds == Spec => []DeliveryInv
<1>1. Init => DeliveryInv
  BY DeliveryParts DEF Init, BusInit, WorkerInit, DeliveryInv
<1>2. TypeOK /\ DeliveryInv /\ [Next]_vars => DeliveryInv'
  <2> SUFFICES ASSUME TypeOK, DeliveryInv, [Next]_vars PROVE DeliveryInv'
    OBVIOUS
  <2> USE DeliveryAssumption DEF TypeOK, BusTypeOK, MessageState
  <2>1. CASE GatewayNext /\ UNCHANGED <<inv, cosmos, disk>>
    BY <2>1, GatewayKeepsDeliveries, DeliveryParts DEF DeliveryInv
  <2>2. CASE WorkerNext /\ UNCHANGED gw
    <3>1. ASSUME NEW d \in Delivery
          PROVE  NumberOf(d) <= msg'[MessageOf(d)].deliveries <=> inv'[d].pc # "idle"
      <4> DEFINE m == MessageOf(d)
      <4>1. m \in Message /\ NumberOf(d) \in 1..MaxDelivery
        BY DeliveryParts
      <4>2. CASE \E i \in Instances : Receive(d, i)
        BY <4>1, <4>2 DEF Receive, Lock, WorkerTypeOK
      <4>3. CASE ~ \E i \in Instances : Receive(d, i)
        <5>1. inv'[d].pc # "idle" <=> inv[d].pc # "idle"
          BY <2>2, <4>3, RunEffect DEF Live, Persisting
        <5>2. ASSUME NEW e \in Delivery, NEW i \in Instances, MessageOf(e) = m, Receive(e, i)
              PROVE  NumberOf(d) <= msg'[m].deliveries <=> NumberOf(d) <= msg[m].deliveries
          <6>1. e # d
            BY <4>3, <5>2
          <6>2. NumberOf(e) # NumberOf(d)
            BY <5>2, <6>1 DEF MessageOf, NumberOf, Delivery
          <6>3. NumberOf(e) = msg[m].deliveries + 1 /\ msg'[m].deliveries = msg[m].deliveries + 1
            BY <4>1, <5>2 DEF Receive, Lock
          <6> QED BY <4>1, <6>2, <6>3
        <5>3. ASSUME Complete(m) \/ Release(m)
              PROVE  msg'[m].deliveries = msg[m].deliveries
          BY <4>1, <5>3 DEF Complete, Release
        <5>4. NumberOf(d) <= msg'[m].deliveries <=> NumberOf(d) <= msg[m].deliveries
          BY <2>2, <4>1, <5>2, <5>3, MessageEffect
        <5> QED BY <5>1, <5>4 DEF DeliveryInv
      <4> QED BY <4>2, <4>3
    <3>2. ASSUME NEW m \in Message
          PROVE  /\ msg'[m].state \in {"locked", "completed"} => msg'[m].deliveries > 0
                 /\ msg'[m].state = "dead" => msg'[m].deliveries = MaxDelivery
      <4>1. CASE msg'[m] = msg[m]
        BY <4>1 DEF DeliveryInv
      <4>2. ASSUME NEW d \in Delivery, NEW i \in Instances, MessageOf(d) = m, Receive(d, i)
            PROVE  msg'[m].state = "locked" /\ msg'[m].deliveries > 0
        BY <4>2 DEF Receive, Lock
      <4>3. ASSUME Complete(m)
            PROVE  msg'[m].state = "completed" /\ msg'[m].deliveries > 0
        BY <4>3 DEF Complete, DeliveryInv
      <4>4. ASSUME Release(m)
            PROVE  /\ msg'[m].state \in {"available", "dead"}
                   /\ msg'[m].state = "dead" => msg'[m].deliveries = MaxDelivery
        BY <4>4 DEF Release
      <4> QED BY <2>2, <4>1, <4>2, <4>3, <4>4, MessageEffect
    <3>3. ASSUME NEW d \in Delivery, inv'[d].pc \in {"settle", "done"}
          PROVE  inv'[d].outcome # "open"
      <4>1. ASSUME NEW i \in Instances PROVE ~Receive(d, i)
        BY <3>3 DEF Receive, WorkerTypeOK
      <4> QED BY <2>2, <3>3, <4>1, RunEffect DEF DeliveryInv, Live, Persisting, Outcome
    <3> QED BY <3>1, <3>2, <3>3 DEF DeliveryInv
  <2>3. CASE UNCHANGED vars
    BY <2>3 DEF vars, DeliveryInv
  <2> QED BY <2>1, <2>2, <2>3 DEF Next
<1> QED BY <1>1, <1>2, TypeCorrect, PTL DEF Spec

\* No message is dead-lettered before it was handed out max_delivery_count times.
THEOREM DeadLettersWereTried == Spec => []DeadLetteredWasTried
<1>1. TypeOK /\ DeliveryInv => DeadLetteredWasTried
  <2> SUFFICES ASSUME TypeOK, DeliveryInv, NEW m \in Message, msg[m].state = "dead",
                      NEW n \in 1..MaxDelivery
               PROVE  inv[<<m, n>>].pc # "idle"
    BY DEF DeadLetteredWasTried
  <2>1. <<m, n>> \in Delivery /\ MessageOf(<<m, n>>) = m /\ NumberOf(<<m, n>>) = n
    BY DEF Delivery, MessageOf, NumberOf
  <2>2. n <= msg[m].deliveries
    BY DeliveryAssumption DEF DeliveryInv
  <2> QED BY <2>1, <2>2 DEF DeliveryInv
<1> QED BY <1>1, TypeCorrect, DeliveryInvHolds, PTL

\* A message is completed only by the delivery that holds it, when it is over.
THEOREM CompletedWereHandled == Spec => []CompletedWasHandled
<1> DEFINE Last(m) == <<m, msg[m].deliveries>>
           Handled(d) == inv[d].pc = "done" /\ inv[d].outcome \notin {"raised", "open"}
<1>1. Init => CompletedWasHandled
  BY DEF Init, BusInit, CompletedWasHandled
<1>2. TypeOK /\ DeliveryInv /\ CompletedWasHandled /\ [Next]_vars => CompletedWasHandled'
  <2> SUFFICES ASSUME TypeOK, DeliveryInv, CompletedWasHandled, [Next]_vars,
                      NEW m \in Message, msg'[m].state = "completed"
               PROVE  Handled(Last(m))'
    BY DEF CompletedWasHandled
  <2> USE DEF TypeOK, BusTypeOK
  <2>1. CASE GatewayNext /\ UNCHANGED <<inv, cosmos, disk>>
    BY <2>1, GatewayKeepsDeliveries DEF CompletedWasHandled
  <2>2. CASE WorkerNext /\ UNCHANGED gw
    <3>1. CASE msg'[m] = msg[m]
      <4>1. Handled(Last(m)) /\ Last(m) \in Delivery
        BY <3>1 DEF CompletedWasHandled, DeliveryInv, Delivery
      <4>2. inv'[Last(m)] = inv[Last(m)]
        BY <2>2, <4>1, RunEffect DEF Live, Persisting, Receive
      <4> QED BY <3>1, <4>1, <4>2
    <3>2. ASSUME NEW d \in Delivery, MessageOf(d) = m, HoldsLock(d), Handle(d),
                 inv'[d].pc = "done", inv[d].outcome # "raised", Complete(m)
          PROVE  Handled(Last(m))'
      <4>1. d = <<m, msg'[m].deliveries>>
        BY <3>2 DEF HoldsLock, Complete, Delivery, MessageOf, NumberOf
      <4>2. inv[d].outcome # "open" /\ inv'[d].outcome = inv[d].outcome
        BY <3>2, HandlerEffect DEF DeliveryInv
      <4> QED BY <3>2, <4>1, <4>2
    <3>3. ASSUME Release(m) PROVE FALSE
      BY <3>3 DEF Release
    <3>4. ASSUME NEW d \in Delivery, NEW i \in Instances, MessageOf(d) = m, Receive(d, i) PROVE FALSE
      BY <3>4 DEF Receive, Lock
    <3> QED BY <2>2, <3>1, <3>2, <3>3, <3>4, MessageEffect
  <2>3. CASE UNCHANGED vars
    BY <2>3 DEF vars, CompletedWasHandled
  <2> QED BY <2>1, <2>2, <2>3 DEF Next
<1> QED BY <1>1, <1>2, TypeCorrect, DeliveryInvHolds, PTL DEF Spec

-----------------------------------------------------------------------------
(* What a run has, and who may write. *)

\* A handler stays on its instance; it enters persist_scan_result only from a
\* scan, with the event loop free, and has no outcome before it leaves.
LEMMA HandlerMoves ==
  ASSUME TypeOK, NEW d \in Delivery, Handle(d)
  PROVE  /\ inv'[d].on = inv[d].on
         /\ inv'[d].pc \in Persisting \cup {"settle", "done"}
         /\ inv'[d].pc \in Persisting =>
              /\ inv[d].pc \in Persisting \/ (inv[d].pc = "scan" /\ LoopFree(d))
              /\ inv'[d].outcome = inv[d].outcome
<1> USE DEF TypeOK, WorkerTypeOK, Goto, Finish, Persisting
<1>1. CASE ScanCompletes(d)
  BY <1>1 DEF ScanCompletes
<1>2. CASE ScanEndsEarly(d)
  <2>1. PICK o \in Outcome : Finish(d, o)
    BY <1>2 DEF ScanEndsEarly, Outcome
  <2> QED BY <2>1
<1>3. ASSUME AfterFailedWrite(d), inv[d].pc = "cosmos_write"
      PROVE  /\ inv'[d].on = inv[d].on /\ inv'[d].outcome = inv[d].outcome
             /\ inv'[d].pc \in {"cosmos_write", "local_open"}
  BY <1>3 DEF AfterFailedWrite
<1>4. CASE WriteAcknowledged(d)
  BY <1>4 DEF WriteAcknowledged
<1>5. CASE WriteAnswerLost(d)
  BY <1>3, <1>5 DEF WriteAnswerLost
<1>6. CASE WriteFails(d)
  BY <1>3, <1>6 DEF WriteFails
<1>7. CASE LocalOpens(d)
  BY <1>7 DEF LocalOpens
<1>8. CASE LocalDumps(d)
  BY <1>8 DEF LocalDumps
<1>9. CASE LocalFails(d)
  BY <1>9 DEF LocalFails
<1>10. CASE Settle(d)
  BY <1>10 DEF Settle
<1> QED BY <1>1, <1>2, <1>4, <1>5, <1>6, <1>7, <1>8, <1>9, <1>10 DEF Handle, Persist

\* What any step of the pipeline does to a run, as far as RunInv and LoopInv go.
LEMMA RunMoves ==
  ASSUME TypeOK, [Next]_vars, NEW d \in Delivery
  PROVE  \/ inv'[d] = inv[d]
         \/ /\ inv'[d].pc = "scan" /\ inv'[d].on \in Instances
            /\ inv[d].pc = "idle" /\ inv'[d].outcome = inv[d].outcome
         \/ /\ Handle(d) /\ inv[d].pc \in Live /\ inv'[d].on = inv[d].on
            /\ inv'[d].pc \in Persisting \cup {"settle", "done"}
            /\ inv'[d].pc \in Persisting => inv'[d].outcome = inv[d].outcome
         \/ inv[d].pc \in Live /\ inv'[d].pc = "dead" /\ inv'[d].on = inv[d].on
<1>1. CASE GatewayNext /\ UNCHANGED <<inv, cosmos, disk>>
  BY <1>1
<1>2. CASE WorkerNext /\ UNCHANGED gw
  <2>1. ASSUME NEW i \in Instances, Receive(d, i)
        PROVE  /\ inv'[d].pc = "scan" /\ inv'[d].on \in Instances
               /\ inv[d].pc = "idle" /\ inv'[d].outcome = inv[d].outcome
    BY <2>1 DEF Receive, TypeOK, WorkerTypeOK
  <2>2. ASSUME NEW i \in Instances, Crash(i) \/ Recycle(i), inv'[d] # inv[d]
        PROVE  inv[d].pc \in Live /\ inv'[d].pc = "dead" /\ inv'[d].on = inv[d].on
    BY <2>2 DEF Crash, Recycle, Stop, TypeOK, WorkerTypeOK
  <2>3. ASSUME NEW e \in Delivery, Handle(e), e # d PROVE inv'[d] = inv[d]
    BY <2>3, HandlerEffect
  <2>4. ASSUME NEW e \in Delivery, LockExpires(e) PROVE inv'[d] = inv[d]
    BY <2>4 DEF LockExpires
  <2>5. ASSUME NEW e \in Delivery, NEW i \in Instances, Receive(e, i), e # d
        PROVE  inv'[d] = inv[d]
    BY <2>5 DEF Receive, TypeOK, WorkerTypeOK
  <2>6. ASSUME Handle(d)
        PROVE  /\ inv[d].pc \in Live /\ inv'[d].on = inv[d].on
               /\ inv'[d].pc \in Persisting \cup {"settle", "done"}
               /\ inv'[d].pc \in Persisting => inv'[d].outcome = inv[d].outcome
    BY <2>6, HandlerEffect, HandlerMoves
  <2> QED BY <1>2, <2>1, <2>2, <2>3, <2>4, <2>5, <2>6 DEF WorkerNext
<1>3. CASE UNCHANGED vars
  BY <1>3 DEF vars
<1> QED BY <1>1, <1>2, <1>3 DEF Next

\* A started run has an instance, and no outcome before it is over.
LEMMA RunInvHolds == Spec => []RunInv
<1>1. Init => RunInv
  BY DEF Init, WorkerInit, RunInv
<1>2. TypeOK /\ RunInv /\ [Next]_vars => RunInv'
  <2> SUFFICES ASSUME TypeOK, RunInv, [Next]_vars, NEW d \in Delivery
               PROVE  /\ inv'[d].pc # "idle" => inv'[d].on \in Instances
                      /\ inv'[d].pc \in {"idle", "scan"} \cup Persisting => inv'[d].outcome = "open"
    BY DEF RunInv
  <2>1. inv[d].pc \in Persisting \cup {"idle"} \/ inv[d].pc = "scan" => inv[d].outcome = "open"
    BY DEF RunInv
  <2>2. inv[d].pc \in Live => inv[d].on \in Instances
    BY DEF RunInv, Live, Persisting
  <2>3. CASE inv'[d] = inv[d]
    BY <2>3 DEF RunInv
  <2>4. CASE /\ Handle(d) /\ inv[d].pc \in Live /\ inv'[d].on = inv[d].on
             /\ inv'[d].pc \in Persisting \cup {"settle", "done"}
             /\ inv'[d].pc \in Persisting => inv'[d].outcome = inv[d].outcome
    BY <2>1, <2>2, <2>4, HandlerMoves DEF Persisting
  <2> QED BY <2>1, <2>2, <2>3, <2>4, RunMoves DEF Persisting
<1> QED BY <1>1, <1>2, TypeCorrect, PTL DEF Spec

\* persist_scan_result does not await: two deliveries of one instance are never
\* inside it at the same time, be they of one job or of two. They may well be one
\* after the other.
THEOREM OneWriterPerInstance == Spec => []LoopInv
<1>1. Init => LoopInv
  BY DEF Init, WorkerInit, LoopInv, Persisting
<1>2. TypeOK /\ LoopInv /\ [Next]_vars => LoopInv'
  <2> SUFFICES ASSUME TypeOK, LoopInv, [Next]_vars, NEW d \in Delivery, NEW e \in Delivery,
                      inv'[d].pc \in Persisting, inv'[e].pc \in Persisting,
                      inv'[d].on = inv'[e].on, d # e
               PROVE  FALSE
    BY DEF LoopInv
  <2>1. ASSUME NEW c \in Delivery, inv'[c].pc \in Persisting
        PROVE  /\ inv'[c].on = inv[c].on
               /\ inv'[c] = inv[c] \/ Handle(c)
    BY <2>1, RunMoves DEF Persisting
  <2>2. ASSUME NEW c \in Delivery, NEW o \in Delivery, c # o, Handle(c),
               inv'[c].pc \in Persisting, inv'[o].pc \in Persisting, inv'[o].on = inv'[c].on
        PROVE  FALSE
    <3>1. inv'[o] = inv[o] /\ inv[c].on = inv[o].on
      BY <2>1, <2>2, HandlerEffect
    <3>2. inv[c].pc \notin Persisting
      BY <2>2, <3>1 DEF LoopInv
    <3> QED BY <2>2, <3>1, <3>2, HandlerMoves DEF LoopFree
  <2> QED BY <2>1, <2>2 DEF LoopInv
<1> QED BY <1>1, <1>2, TypeCorrect, PTL DEF Spec

-----------------------------------------------------------------------------
(* A completed message of a healthy system has a readable result. *)

\* What StoredInv says of one run, for a system in which it says something.
LEMMA HandlerStores ==
  ASSUME TypeOK, StoredInv, NEW d \in Delivery, Handle(d), CosmosConfigured,
         Faults \cap {"cosmos", "unsafe", "no_plugins", "raise"} = {},
         inv'[d].pc \in {"local_open", "local_dump"} \/ inv'[d].outcome # "open"
  PROVE  cosmos'[JobOf(d)] # None
<1> DEFINE Stored == cosmos[JobOf(d)] # None
<1> USE DEF TypeOK, WorkerTypeOK, StoreTypeOK, Goto, Finish
<1>0. JobOf(d) \in Jobs /\ d # None
  BY DeliveryParts, NoneAssumption
<1>1. ASSUME inv[d].pc \in {"local_open", "local_dump"} \/ inv[d].outcome # "open"
      PROVE  cosmos'[JobOf(d)] # None
  <2>1. Stored
    BY <1>1 DEF StoredInv
  <2> QED BY <1>0, <2>1, HandlerEffect DEF CreateItem
<1>2. CASE ScanCompletes(d)
  BY <1>1, <1>2 DEF ScanCompletes
<1>3. CASE ScanEndsEarly(d)
  BY <1>3 DEF ScanEndsEarly
<1>4. CASE WriteAcknowledged(d) \/ WriteAnswerLost(d)
  BY <1>0, <1>4 DEF WriteAcknowledged, WriteAnswerLost, CreateItem
<1>5. CASE WriteFails(d)
  BY <1>5 DEF WriteFails
<1>6. CASE LocalOpens(d) \/ LocalDumps(d) \/ LocalFails(d)
  BY <1>1, <1>6 DEF LocalOpens, LocalDumps, LocalFails
<1>7. CASE Settle(d)
  BY <1>1, <1>7 DEF Settle
<1> QED BY <1>2, <1>3, <1>4, <1>5, <1>6, <1>7 DEF Handle, Persist

\* Under a Cosmos that takes every write, a local fallback or an outcome means a
\* stored document.
LEMMA StoredInvHolds == Spec => []StoredInv
<1>1. Init => StoredInv
  BY DEF Init, WorkerInit, StoredInv
<1>2. TypeOK /\ StoredInv /\ [Next]_vars => StoredInv'
  <2> SUFFICES ASSUME TypeOK, StoredInv, [Next]_vars, CosmosConfigured,
                      Faults \cap {"cosmos", "unsafe", "no_plugins", "raise"} = {},
                      NEW d \in Delivery,
                      inv'[d].pc \in {"local_open", "local_dump"} \/ inv'[d].outcome # "open"
               PROVE  cosmos'[JobOf(d)] # None
    BY DEF StoredInv
  <2>1. JobOf(d) \in Jobs
    BY DeliveryParts
  <2>2. CASE Handle(d)
    BY <2>2, HandlerStores
  <2>3. CASE inv'[d].outcome = inv[d].outcome /\ inv'[d].pc \in {inv[d].pc, "scan", "dead"}
    BY <2>1, <2>3, DocumentsStay DEF StoredInv
  <2>4. inv[d].pc \in Live /\ inv'[d].pc = "dead" => inv'[d].outcome = inv[d].outcome \/ Handle(d)
    <3>1. ASSUME NEW i \in Instances, Crash(i) \/ Recycle(i) PROVE inv'[d].outcome = inv[d].outcome
      BY <3>1, StopEffect
    <3>2. ASSUME NEW e \in Delivery, Handle(e), e # d PROVE inv'[d] = inv[d]
      BY <3>2, HandlerEffect
    <3>3. ASSUME NEW e \in Delivery, LockExpires(e) PROVE inv'[d] = inv[d]
      BY <3>3 DEF LockExpires
    <3>4. ASSUME NEW e \in Delivery, NEW i \in Instances, Receive(e, i)
          PROVE  inv'[d].outcome = inv[d].outcome
      BY <3>4 DEF Receive, TypeOK, WorkerTypeOK
    <3> QED BY <3>1, <3>2, <3>3, <3>4 DEF Next, WorkerNext, vars
  <2> QED BY <2>2, <2>3, <2>4, RunMoves
<1> QED BY <1>1, <1>2, TypeCorrect, PTL DEF Spec

\* While Cosmos takes every write, whoever completed a message, through resends,
\* lost locks, lost answers and crashes, GET /report/result has the result.
THEOREM HealthyCompletedIsReported == Spec => []HealthyCosmosCompletedIsReported
<1>1. TypeOK /\ DeliveryInv /\ CompletedWasHandled /\ StoredInv => HealthyCosmosCompletedIsReported
  <2> SUFFICES ASSUME TypeOK, DeliveryInv, CompletedWasHandled, StoredInv, CosmosConfigured,
                      Faults \cap {"cosmos", "unsafe", "no_plugins", "raise"} = {},
                      NEW m \in Message, msg[m].state = "completed"
               PROVE  ResultRoute(m[1]).code = "200"
    BY DEF HealthyCosmosCompletedIsReported
  <2> DEFINE d == <<m, msg[m].deliveries>>
  <2>1. d \in Delivery /\ JobOf(d) = m[1]
    BY DEF TypeOK, BusTypeOK, DeliveryInv, Delivery, JobOf
  <2>2. inv[d].outcome # "open"
    BY DEF CompletedWasHandled
  <2>3. cosmos[m[1]] # None
    BY <2>1, <2>2 DEF StoredInv
  <2> QED BY <2>3 DEF ResultRoute, DeriveStatus, StoredDocument, FailedStatusValues
<1> QED BY <1>1, TypeCorrect, DeliveryInvHolds, CompletedWereHandled, StoredInvHolds, PTL

-----------------------------------------------------------------------------
(* A finished scan is kept. *)

\* What a handler's step does to the files, and to what FileInv says of its own run.
LEMMA HandlerFiles ==
  ASSUME TypeOK, RunInv, NEW d \in Delivery, Handle(d)
  PROVE  /\ inv[d].on \in Instances /\ inv'[d].on = inv[d].on
         /\ inv'[d].outcome = "none" => inv[d].outcome = "none" \/ "disk" \in Faults
         /\ inv'[d].outcome = "local" =>
              inv[d].outcome = "local" \/ disk'[inv[d].on][JobOf(d)] = d
         /\ MayHaveTorn(d) => MayHaveTorn(d)' \/ disk'[inv[d].on][JobOf(d)] = d
         /\ \A k \in Instances, l \in Jobs :
              \/ disk'[k][l] = disk[k][l]
              \/ disk'[k][l] = d
              \/ /\ disk'[k][l] = Torn
                 /\ MayHaveTorn(d)' /\ k = inv[d].on /\ l = JobOf(d)
<1> USE DEF TypeOK, WorkerTypeOK, StoreTypeOK, MayHaveTorn
<1> DEFINE i == inv[d].on
           j == JobOf(d)
<1>1. j \in Jobs /\ i \in Instances /\ inv'[d].on = i
  <2>1. inv[d].pc \in Live
    BY HandlerEffect
  <2> QED BY <2>1, DeliveryParts, HandlerMoves DEF RunInv, Live, Persisting
<1>2. inv[d].pc \in {"scan", "cosmos_write", "local_open", "local_dump"} => inv[d].outcome = "open"
  BY DEF RunInv, Persisting
<1>3. CASE LocalOpens(d)
  <2>1. /\ inv'[d].pc = "local_dump" /\ inv'[d].outcome = "open"
        /\ disk' = [disk EXCEPT ![i][j] = Torn]
    BY <1>2, <1>3 DEF LocalOpens, OpenResultFile, Goto
  <2>2. \A k \in Instances, l \in Jobs : disk'[k][l] = IF k = i /\ l = j THEN Torn ELSE disk[k][l]
    BY <1>1, <2>1
  <2> QED BY <1>1, <2>1, <2>2
<1>4. CASE LocalDumps(d)
  <2>1. /\ inv'[d].pc = "settle" /\ inv'[d].outcome = "local"
        /\ disk' = [disk EXCEPT ![i][j] = d]
    BY <1>4 DEF LocalDumps, DumpResult, Finish
  <2>2. \A k \in Instances, l \in Jobs : disk'[k][l] = IF k = i /\ l = j THEN d ELSE disk[k][l]
    BY <1>1, <2>1
  <2> QED BY <1>1, <2>1, <2>2
<1>5. CASE LocalFails(d)
  BY <1>1, <1>5 DEF LocalFails, Finish
<1>6. CASE ScanCompletes(d)
  BY <1>1, <1>2, <1>6 DEF ScanCompletes, Goto
<1>7. CASE ScanEndsEarly(d)
  <2>1. PICK o \in {"blocked_ssrf", "no_plugins", "raised"} : Finish(d, o)
    BY <1>7 DEF ScanEndsEarly
  <2> QED BY <1>1, <1>2, <1>7, <2>1 DEF ScanEndsEarly, Finish
<1>8. CASE WriteAcknowledged(d)
  BY <1>1, <1>2, <1>8 DEF WriteAcknowledged, Finish
<1>9. CASE WriteAnswerLost(d) \/ WriteFails(d)
  <2>1. inv'[d].outcome = inv[d].outcome /\ inv[d].pc = "cosmos_write" /\ disk' = disk
    BY <1>9 DEF WriteAnswerLost, WriteFails, AfterFailedWrite, Goto
  <2> QED BY <1>1, <1>2, <2>1
<1>10. CASE Settle(d)
  BY <1>1, <1>10 DEF Settle, Goto
<1> QED BY <1>3, <1>4, <1>5, <1>6, <1>7, <1>8, <1>9, <1>10 DEF Handle, Persist

\* A step that is no handler's leaves the outcomes, and takes a file away only with
\* the instance; a run that may have torn a file still may have.
LEMMA OthersKeepFiles ==
  ASSUME TypeOK, RunInv, [Next]_vars, \A d \in Delivery : ~Handle(d)
  PROVE  /\ \A e \in Delivery :
              /\ inv'[e].outcome = inv[e].outcome
              /\ inv[e].pc # "idle" => inv'[e].on = inv[e].on
              /\ MayHaveTorn(e) => inv[e].pc # "idle" /\ MayHaveTorn(e)'
         /\ \A k \in Instances, l \in Jobs :
              disk'[k][l] = disk[k][l] \/ (disk'[k][l] = None /\ "recycle" \in Faults)
<1>1. ASSUME NEW e \in Delivery
      PROVE  /\ inv'[e].outcome = inv[e].outcome
             /\ inv[e].pc # "idle" => inv'[e].on = inv[e].on
             /\ MayHaveTorn(e) => inv[e].pc # "idle" /\ MayHaveTorn(e)'
  <2>1. MayHaveTorn(e) => inv[e].pc # "idle"
    BY DEF MayHaveTorn, RunInv
  <2>2. CASE inv'[e] = inv[e]
    BY <2>1, <2>2 DEF MayHaveTorn
  <2>3. CASE inv[e].pc = "idle" /\ inv'[e].outcome = inv[e].outcome
    BY <2>1, <2>3
  <2>4. CASE inv[e].pc \in Live /\ inv'[e].pc = "dead" /\ inv'[e].on = inv[e].on
    <3>1. inv'[e].outcome = inv[e].outcome
      <4>1. ASSUME NEW i \in Instances, Crash(i) \/ Recycle(i) PROVE inv'[e].outcome = inv[e].outcome
        BY <4>1, StopEffect
      <4>2. ASSUME NEW c \in Delivery, NEW i \in Instances, Receive(c, i)
            PROVE  inv'[e].outcome = inv[e].outcome
        BY <4>2 DEF Receive, TypeOK, WorkerTypeOK
      <4> QED BY <4>1, <4>2 DEF Next, WorkerNext, LockExpires, vars
    <3> QED BY <2>4, <3>1 DEF MayHaveTorn, Live, Persisting
  <2> QED BY <2>2, <2>3, <2>4, RunMoves
<1>2. ASSUME NEW k \in Instances, NEW l \in Jobs
      PROVE  disk'[k][l] = disk[k][l] \/ (disk'[k][l] = None /\ "recycle" \in Faults)
  <2>1. ASSUME NEW i \in Instances, Recycle(i)
        PROVE  disk'[k][l] = disk[k][l] \/ (disk'[k][l] = None /\ "recycle" \in Faults)
    BY <2>1, StopEffect DEF Recycle
  <2>2. disk' = disk \/ \E i \in Instances : Recycle(i)
    BY DEF Next, WorkerNext, LockExpires, Receive, Crash, vars
  <2> QED BY <2>1, <2>2
<1> QED BY <1>1, <1>2

\* Only a failing disk refuses a result, only a replaced instance takes its file
\* along, and only a delivery that opened a file leaves it torn.
LEMMA FileInvHolds == Spec => []FileInv
<1>1. Init => FileInv
  BY TornAssumption DEF Init, WorkerInit, StoreInit, FileInv
<1>2. TypeOK /\ RunInv /\ FileInv /\ [Next]_vars => FileInv'
  <2> SUFFICES ASSUME TypeOK, RunInv, FileInv, [Next]_vars PROVE FileInv'
    OBVIOUS
  <2>1. \A e \in Delivery : /\ e # None /\ e # Torn /\ JobOf(e) \in Jobs
                            /\ inv[e].outcome \in {"local", "none"} =>
                                 inv[e].pc # "idle" /\ inv[e].on \in Instances
    BY NoneAssumption, TornAssumption, DeliveryParts DEF RunInv
  <2>2. Torn # None
    BY NoneAssumption, TornAssumption
  <2>3. ASSUME NEW d \in Delivery, Handle(d) PROVE FileInv'
    <3> DEFINE i == inv[d].on
               j == JobOf(d)
    <3>1. \A e \in Delivery : e # d => inv'[e] = inv[e]
      BY <2>3, HandlerEffect
    <3>2. ASSUME "disk" \notin Faults, NEW e \in Delivery PROVE inv'[e].outcome # "none"
      BY <2>3, <3>1, <3>2, HandlerFiles DEF FileInv
    <3>3. ASSUME "recycle" \notin Faults, NEW e \in Delivery, inv'[e].outcome = "local"
          PROVE  disk'[inv'[e].on][JobOf(e)] # None
      <4>1. CASE disk'[inv'[e].on][JobOf(e)] = d
        BY <2>1, <4>1
      <4>2. CASE inv[e].outcome = "local"
        <5>1. inv'[e].on = inv[e].on
          BY <2>3, <3>1, HandlerFiles
        <5>2. disk[inv[e].on][JobOf(e)] # None /\ inv[e].on \in Instances /\ JobOf(e) \in Jobs
          BY <2>1, <3>3, <4>2 DEF FileInv
        <5> QED BY <2>1, <2>2, <2>3, <5>1, <5>2, HandlerFiles
      <4> QED BY <2>3, <3>1, <3>3, <4>1, <4>2, HandlerFiles
    <3>4. ASSUME NEW k \in Instances, NEW l \in Jobs, disk'[k][l] = Torn
          PROVE  \E e \in Delivery : MayHaveTorn(e)' /\ inv'[e].on = k /\ JobOf(e) = l
      <4>1. CASE MayHaveTorn(d)' /\ k = i /\ l = j
        BY <2>3, <4>1, HandlerFiles
      <4>2. CASE disk[k][l] = Torn /\ ~(MayHaveTorn(d)' /\ k = i /\ l = j)
        <5>1. PICK e \in Delivery : MayHaveTorn(e) /\ inv[e].on = k /\ JobOf(e) = l
          BY <4>2 DEF FileInv
        <5>2. CASE e = d
          BY <2>1, <2>3, <3>4, <4>2, <5>1, <5>2, HandlerFiles
        <5>3. CASE e # d
          BY <3>1, <5>1, <5>3 DEF MayHaveTorn
        <5> QED BY <5>2, <5>3
      <4> QED BY <2>1, <2>3, <3>4, <4>1, <4>2, HandlerFiles
    <3> QED BY <3>2, <3>3, <3>4 DEF FileInv
  <2>4. CASE \A d \in Delivery : ~Handle(d)
    <3>1. ASSUME NEW k \in Instances, NEW l \in Jobs, disk'[k][l] = Torn
          PROVE  \E e \in Delivery : MayHaveTorn(e)' /\ inv'[e].on = k /\ JobOf(e) = l
      <4>1. disk[k][l] = Torn
        BY <2>2, <2>4, <3>1, OthersKeepFiles
      <4>2. PICK e \in Delivery : MayHaveTorn(e) /\ inv[e].on = k /\ JobOf(e) = l
        BY <4>1 DEF FileInv
      <4> QED BY <2>4, <4>2, OthersKeepFiles
    <3>2. ASSUME "recycle" \notin Faults, NEW e \in Delivery, inv'[e].outcome = "local"
          PROVE  disk'[inv'[e].on][JobOf(e)] # None
      <4>1. inv[e].outcome = "local"
        BY <2>4, <3>2, OthersKeepFiles
      <4>2. inv'[e].on = inv[e].on /\ inv[e].on \in Instances /\ JobOf(e) \in Jobs
        BY <2>1, <2>4, <4>1, OthersKeepFiles
      <4> QED BY <2>4, <3>2, <4>1, <4>2, OthersKeepFiles DEF FileInv
    <3>3. ASSUME "disk" \notin Faults, NEW e \in Delivery PROVE inv'[e].outcome # "none"
      BY <2>4, <3>3, OthersKeepFiles DEF FileInv
    <3> QED BY <3>1, <3>2, <3>3 DEF FileInv
  <2> QED BY <2>3, <2>4
<1> QED BY <1>1, <1>2, TypeCorrect, RunInvHolds, PTL DEF Spec

\* A result must never be lost because Cosmos was unavailable: while no instance is
\* replaced, a job with a finished scan has its result in Cosmos, or whole in a local
\* file; otherwise the disk failed, or a delivery of the job opened the file and has
\* not written it, whatever Cosmos, the locks and the processes do.
THEOREM FinishedScansAreKept == Spec => []FinishedScanIsKept
<1>1. TypeOK /\ RunInv /\ FileInv /\ CosmosOutcomeIsOwnDocument => FinishedScanIsKept
  <2> SUFFICES ASSUME TypeOK, RunInv, FileInv, CosmosOutcomeIsOwnDocument,
                      "recycle" \notin Faults,
                      NEW d \in Delivery, inv[d].outcome \in {"cosmos", "local", "none"}
               PROVE  \/ cosmos[JobOf(d)] # None
                      \/ disk[inv[d].on][JobOf(d)] \in Delivery
                      \/ inv[d].outcome = "none" /\ "disk" \in Faults
                      \/ /\ disk[inv[d].on][JobOf(d)] = Torn
                         /\ \E e \in Delivery : /\ MayHaveTorn(e)
                                                /\ inv[e].on = inv[d].on /\ JobOf(e) = JobOf(d)
    BY DEF FinishedScanIsKept
  <2>1. CASE inv[d].outcome = "cosmos"
    BY <2>1, NoneAssumption DEF CosmosOutcomeIsOwnDocument
  <2>2. CASE inv[d].outcome = "local"
    <3>1. inv[d].on \in Instances /\ JobOf(d) \in Jobs
      BY <2>2, DeliveryParts DEF RunInv
    <3>2. disk[inv[d].on][JobOf(d)] \in Delivery \cup {Torn}
      BY <2>2, <3>1 DEF FileInv, TypeOK, StoreTypeOK
    <3> QED BY <3>1, <3>2 DEF FileInv
  <2>3. CASE inv[d].outcome = "none"
    BY <2>3 DEF FileInv
  <2> QED BY <2>1, <2>2, <2>3
<1> QED BY <1>1, TypeCorrect, RunInvHolds, FileInvHolds, CosmosOutcomeIsOwn, PTL
=============================================================================
