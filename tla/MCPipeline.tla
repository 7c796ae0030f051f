----------------------------- MODULE MCPipeline -----------------------------
(* Symmetry for the safety runs of Pipeline. *)
EXTENDS Pipeline, TLC

InstanceSymmetry == Permutations(Instances)
=============================================================================
