------------------------------- MODULE Report -------------------------------
(***************************************************************************)
(* The Report Function (src/report): two read-only routes over the Cosmos  *)
(* container. A document is abstracted to what _derive_status looks at.    *)
(***************************************************************************)
EXTENDS ResultStore

FailedStatusValues == {"blocked_ssrf", "failed", "error"}

\* _derive_status: an explicit status first, then the shape of the document.
DeriveStatus(doc) ==
  CASE doc.status \in FailedStatusValues -> "Failed"
    [] doc.status = "running"            -> "Running"
    [] doc.status = "queued"             -> "Pending"
    [] doc.status = "absent"             -> IF doc.result THEN "Complete" ELSE "Pending"

\* What the only writer, persist_scan_result, stores: run_scout's final_result,
\* which has result fields and no status field.
StoredDocument(d) == [status |-> "absent", result |-> TRUE, by |-> d]

StatusRoute(j) ==
  IF cosmos[j] = None
  THEN [code |-> "404", status |-> "scan not found"]
  ELSE [code |-> "200", status |-> DeriveStatus(StoredDocument(cosmos[j]))]

ResultRoute(j) ==
  IF cosmos[j] = None
  THEN [code |-> "404", body |-> None]
  ELSE IF DeriveStatus(StoredDocument(cosmos[j])) # "Complete"
       THEN [code |-> "409", body |-> None]
       ELSE [code |-> "200", body |-> cosmos[j]]
=============================================================================
