------------------------------ MODULE Platform ------------------------------
(***************************************************************************)
(* The identities every component of the scan pipeline shares: jobs,       *)
(* messages, deliveries and worker instances, and the faults a run of the  *)
(* model admits.                                                           *)
(***************************************************************************)
EXTENDS Integers

CONSTANTS
  Jobs,             \* job_id values, one per POST /api/scan (uuid4 in the Gateway)
  Instances,        \* Worker instances: one Python process, one event loop, one disk
  EnqueueAttempts,  \* ENQUEUE_MAX_ATTEMPTS
  MaxDelivery,      \* max_delivery_count of the queue
  Faults,           \* which environment events may happen
  None,             \* "no document", "no instance"
  Torn              \* a result file opened with "w" and not completely written

\* What the environment may do. "send": a send fails or loses its answer;
\* "lock": a lock is lost while its holder runs; "crash": a Worker process
\* dies; "recycle": an instance is replaced and its disk with it; "cosmos": a
\* create_item fails; "ack": a create_item succeeds and its answer is lost;
\* "disk": a local write fails; "unsafe", "no_plugins", "raise": the three
\* ways run_scout ends without a scan result.
FaultKinds == {"send", "lock", "crash", "recycle", "cosmos", "ack", "disk",
               "unsafe", "no_plugins", "raise"}

ASSUME AttemptsAssumption == EnqueueAttempts \in Nat \ {0}
ASSUME DeliveryAssumption == MaxDelivery \in Nat \ {0}
ASSUME FaultsAssumption   == Faults \subseteq FaultKinds

Attempt == 1..EnqueueAttempts

\* One message per send: the Gateway sets no message_id and the queue has no
\* duplicate detection, so each send that reaches the queue is a new message.
Message  == Jobs \X Attempt

\* One run of process_scan: the n-th delivery of a message.
Delivery == Message \X (1..MaxDelivery)

JobOf(d)     == d[1][1]
MessageOf(d) == d[1]
NumberOf(d)  == d[2]

ASSUME NoneAssumption == None \notin Delivery /\ None \notin Instances
ASSUME TornAssumption == Torn \notin Delivery /\ Torn # None
=============================================================================
