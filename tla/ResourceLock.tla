---------------------------- MODULE ResourceLock ----------------------------
(***************************************************************************)
(* What the resource_pool sample promises to the workflows that use it: a  *)
(* "true lock" (resource_pool/README.md:34) on every resource of the pool. *)
(* A workflow runs on at most one resource at a time and a resource serves *)
(* at most one workflow at a time, which is what                           *)
(* tests/resource_pool/workflow_test.py asserts of the log of a run.       *)
(* ResourcePool.tla implements this specification.                         *)
(***************************************************************************)
CONSTANTS Resources,    \* names of resources
          Users,        \* workflow ids of the resource users
          None          \* "no resource"

VARIABLE uses           \* the resource each user may run activities on

Init == uses = [u \in Users |-> None]

\* A user that runs on nothing starts to run on a resource nobody runs on.
Acquire(u, r) ==
  /\ uses[u] = None
  /\ \A v \in Users : uses[v] # r
  /\ uses' = [uses EXCEPT ![u] = r]

\* A user gives its resource back, or is closed without doing so.
Release(u) ==
  /\ uses[u] # None
  /\ uses' = [uses EXCEPT ![u] = None]

Next == \E u \in Users : Release(u) \/ \E r \in Resources : Acquire(u, r)

Spec == Init /\ [][Next]_uses
=============================================================================
