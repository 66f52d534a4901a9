--------------------------- MODULE MCResourcePool ---------------------------
(* ResourcePool on small instances. *)
EXTENDS ResourcePool, TLC

\* The workflow inputs of resource_pool/starter.py:40-48.
StarterInputs ==
  {[iteration_to_fail_after |-> None,    should_continue_as_new |-> FALSE],
   [iteration_to_fail_after |-> None,    should_continue_as_new |-> TRUE],
   [iteration_to_fail_after |-> "first", should_continue_as_new |-> FALSE]}

UserSymmetry == Permutations(Users)
=============================================================================
