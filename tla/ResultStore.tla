----------------------------- MODULE ResultStore -----------------------------
(***************************************************************************)
(* The two places a scan result can end up in: the Cosmos container "scans" *)
(* (id = scanId, partition key /scanId) and, per Worker instance, the      *)
(* results directory on its ephemeral disk (one file per scanId). A        *)
(* document is named by the delivery whose scan produced it.               *)
(***************************************************************************)
EXTENDS Platform

VARIABLES
  cosmos,   \* [Jobs -> Delivery \cup {None}]
  disk      \* [Instances -> [Jobs -> Delivery \cup {None, Torn}]]

StoreTypeOK ==
  /\ cosmos \in [Jobs -> Delivery \cup {None}]
  /\ disk \in [Instances -> [Jobs -> Delivery \cup {None, Torn}]]

StoreInit ==
  /\ cosmos = [j \in Jobs |-> None]
  /\ disk = [i \in Instances |-> [j \in Jobs |-> None]]

\* As CreateItem, replacing what is stored under the id.
UpsertItem(d) == cosmos' = [cosmos EXCEPT ![JobOf(d)] = d]

\* create_item: inserts, and raises on an id that is already there.
CreateItem(d) ==
  /\ cosmos[JobOf(d)] = None
  /\ cosmos' = [cosmos EXCEPT ![JobOf(d)] = d]

\* open(result_path, "w"): the file exists, and whatever it held is gone.
OpenResultFile(i, d) == disk' = [disk EXCEPT ![i][JobOf(d)] = Torn]

\* json.dump to the open file, to the end.
DumpResult(i, d) == disk' = [disk EXCEPT ![i][JobOf(d)] = d]

\* A recycled instance starts with an empty disk.
EraseDisk(i) == disk' = [disk EXCEPT ![i] = [j \in Jobs |-> None]]
=============================================================================
