---------------------------- MODULE ScanLifecycle ----------------------------
(***************************************************************************)
(* What the pipeline promises the caller of one job, with no queue, no     *)
(* worker and no retries: a request is answered once; a refused request    *)
(* never gets a report; any other may get one, at most once, and a report  *)
(* once published neither changes nor disappears. A request whose enqueue  *)
(* failed may get one too: its message can have reached the queue.         *)
(***************************************************************************)
CONSTANTS Jobs, Results, None

VARIABLES request, report

Init ==
  /\ request = [j \in Jobs |-> "new"]
  /\ report  = [j \in Jobs |-> None]

Take(j) ==
  /\ request[j] = "new"
  /\ \E r \in {"pending", "refused", "failed"} : request' = [request EXCEPT ![j] = r]
  /\ UNCHANGED report

Resolve(j) ==
  /\ request[j] = "pending"
  /\ \E r \in {"accepted", "failed"} : request' = [request EXCEPT ![j] = r]
  /\ UNCHANGED report

Publish(j) ==
  /\ request[j] \in {"pending", "accepted", "failed"}
  /\ report[j] = None
  /\ \E r \in Results : report' = [report EXCEPT ![j] = r]
  /\ UNCHANGED request

Next == \E j \in Jobs : Take(j) \/ Resolve(j) \/ Publish(j)

Spec == Init /\ [][Next]_<<request, report>>
=============================================================================
