----------------------------- MODULE ServiceBus -----------------------------
(***************************************************************************)
(* The Service Bus queue "bravo6-queue" as the Gateway and the Worker use  *)
(* it: peek-lock, at-least-once delivery, no order between messages, and   *)
(* dead-lettering once max_delivery_count deliveries have been used up.    *)
(***************************************************************************)
EXTENDS Platform

VARIABLE msg    \* [Message -> [state, deliveries]]

MessageState == {"absent", "available", "locked", "completed", "dead"}

BusTypeOK == msg \in [Message -> [state : MessageState, deliveries : 0..MaxDelivery]]

BusInit == msg = [m \in Message |-> [state |-> "absent", deliveries |-> 0]]

\* The queue stores the message; the sender may or may not learn of it.
Enqueue(m) ==
  /\ msg[m].state = "absent"
  /\ msg' = [msg EXCEPT ![m].state = "available"]

\* A receiver takes the message under a lock: one more delivery is counted.
Lock(m) ==
  /\ msg[m].state = "available"
  /\ msg[m].deliveries < MaxDelivery
  /\ msg' = [msg EXCEPT ![m] = [state |-> "locked", deliveries |-> @.deliveries + 1]]

\* The handler returned: the message leaves the queue.
Complete(m) ==
  /\ msg[m].state = "locked"
  /\ msg' = [msg EXCEPT ![m].state = "completed"]

\* The handler raised, or its lock ran out: the message is delivered again,
\* or dead-lettered if that was its last delivery.
Release(m) ==
  /\ msg[m].state = "locked"
  /\ msg' = [msg EXCEPT ![m].state =
               IF msg[m].deliveries < MaxDelivery THEN "available" ELSE "dead"]

\* Delivery d still owns the lock it was given.
HoldsLock(d) ==
  /\ msg[MessageOf(d)].state = "locked"
  /\ msg[MessageOf(d)].deliveries = NumberOf(d)
=============================================================================
