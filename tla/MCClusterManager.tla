-------------------------- MODULE MCClusterManager --------------------------
(* ClusterManager on small instances. *)
EXTENDS ClusterManager, TLC

Symmetry == Permutations(Nodes) \cup Permutations(Jobs) \cup Permutations(Calls)
=============================================================================
