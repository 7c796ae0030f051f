------------------------------- MODULE Gateway -------------------------------
(***************************************************************************)
(* The API Gateway (src/api): POST /api/scan. A request is refused, or it  *)
(* is given a job_id and its message is sent, with ENQUEUE_MAX_ATTEMPTS    *)
(* attempts of the same send.                                              *)
(***************************************************************************)
EXTENDS ServiceBus

CONSTANT Blocklisted    \* the jobs whose hostname is_blocklisted matches

ASSUME BlocklistedAssumption == Blocklisted \subseteq Jobs

VARIABLE gw    \* [Jobs -> [pc, attempt]]; pc is "new", "sending", or the answer given

Answer == {"202", "400", "403", "500", "503", "none"}

GatewayTypeOK == gw \in [Jobs -> [pc : {"new", "sending"} \cup Answer, attempt : Attempt]]

GatewayInit == gw = [j \in Jobs |-> [pc |-> "new", attempt |-> 1]]

Reply(j, a) == gw' = [gw EXCEPT ![j].pc = a]

\* The body is not JSON or has no url (400), or its url is a value the hostname
\* code raises on (500): handled before any other step looks at the target.
Malformed(j) ==
  /\ gw[j].pc = "new"
  /\ \E a \in {"400", "500"} : Reply(j, a)
  /\ UNCHANGED msg

\* As Submit, without the blocklist.
SubmitUnlisted(j) ==
  /\ gw[j].pc = "new"
  /\ \E ssrf_check \in {"safe", "unsafe", "raises", "inactive"} :
       Reply(j, IF ssrf_check = "unsafe" THEN "403" ELSE "sending")
  /\ UNCHANGED msg

\* handle_scan_request, steps 1 and 2, and the choice of the job_id. The
\* optional address check is a best-effort one: only the verdict "unsafe"
\* refuses; an exception, or a check that could not be imported, does not.
Submit(j) ==
  /\ gw[j].pc = "new"
  /\ \E ssrf_check \in {"safe", "unsafe", "raises", "inactive"} :
       Reply(j, IF j \in Blocklisted \/ ssrf_check = "unsafe" THEN "403" ELSE "sending")
  /\ UNCHANGED msg

\* As AfterServiceBusError, with the last error logged and not raised.
SwallowLastError(j) ==
  IF gw[j].attempt < EnqueueAttempts
  THEN gw' = [gw EXCEPT ![j].attempt = @ + 1]
  ELSE Reply(j, "202")

\* enqueue_scan_job after a ServiceBusError: the next attempt, or EnqueueError,
\* which the handler turns into a 503.
AfterServiceBusError(j) ==
  IF gw[j].attempt < EnqueueAttempts
  THEN gw' = [gw EXCEPT ![j].attempt = @ + 1]
  ELSE Reply(j, "503")

\* send_messages returned and the sender closed.
SendAcknowledged(j) ==
  /\ gw[j].pc = "sending"
  /\ Enqueue(<<j, gw[j].attempt>>)
  /\ Reply(j, "202")

\* The queue stored the message but send_messages raised a ServiceBusError.
SendAnswerLost(j) ==
  /\ gw[j].pc = "sending"
  /\ "send" \in Faults
  /\ Enqueue(<<j, gw[j].attempt>>)
  /\ AfterServiceBusError(j)

SendFails(j) ==
  /\ gw[j].pc = "sending"
  /\ "send" \in Faults
  /\ AfterServiceBusError(j)
  /\ UNCHANGED msg

\* Anything but a ServiceBusError (a credential, opening or closing the sender)
\* leaves the handler as a 500, and a Gateway crash leaves no answer at all;
\* both may come before or after the message reached the queue.
SendAborted(j) ==
  /\ gw[j].pc = "sending"
  /\ "send" \in Faults
  /\ \E a \in {"500", "none"} : Reply(j, a)
  /\ \/ Enqueue(<<j, gw[j].attempt>>)
     \/ UNCHANGED msg

Send(j) == SendAcknowledged(j) \/ SendAnswerLost(j) \/ SendFails(j) \/ SendAborted(j)

GatewayNext == \E j \in Jobs : Malformed(j) \/ Submit(j) \/ Send(j)
=============================================================================
