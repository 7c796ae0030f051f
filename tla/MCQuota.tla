------------------------------ MODULE MCQuota ------------------------------
(* Submissions for TLC. *)
EXTENDS JobQuota

\* Two submissions of one user, one of another, one with a token that is no good.
Bearer(valid, sub) == [bearer |-> TRUE, valid |-> valid, sub |-> sub]
MCHeader ==
  [r \in 1..4 |-> CASE r <= 2 -> Bearer(TRUE, "u") [] r = 3 -> Bearer(TRUE, "v") [] OTHER -> Bearer(FALSE, "u")]

\* Submissions with the same header differ by their names only: they come in order.
InOrder ==
  \A r, s \in Requests :
    r < s /\ Header[r] = Header[s] /\ submission[r].pc = "new" => submission[s].pc = "new"
=============================================================================
