---------------------------- MODULE AtomicCluster ----------------------------
(***************************************************************************)
(* What the cluster manager promises: "These updates must run atomically"  *)
(* (message_passing/safe_message_handlers/workflow.py:66).  Assigning      *)
(* nodes to a job, deleting a job and marking nodes bad each happen in one *)
(* step on the allocation of that very moment.  So does starting the       *)
(* cluster, which every run of the workflow does: it forgets what works on *)
(* the nodes.  ClusterManager.tla implements this specification.           *)
(***************************************************************************)
EXTENDS Integers

CONSTANTS Nodes, Jobs, None, Bad

VARIABLES alloc,      \* node -> job, None or Bad; empty until the cluster starts
          jobs        \* jobs that have been given nodes

vars == <<alloc, jobs>>

Init == alloc = [n \in {} |-> None] /\ jobs = {}

Start ==
  /\ alloc' = [n \in Nodes |-> None]
  /\ UNCHANGED jobs

\* The nodes S go to j, which never had nodes; every one of them was free.
Assign(j, S) ==
  /\ j \notin jobs
  /\ \A n \in S : n \in DOMAIN alloc /\ alloc[n] = None
  /\ alloc' = [n \in DOMAIN alloc |-> IF n \in S THEN j ELSE alloc[n]]
  /\ jobs' = jobs \cup {j}

\* Every node that works for j becomes free.
Delete(j) ==
  /\ alloc' = [n \in DOMAIN alloc |-> IF alloc[n] = j THEN None ELSE alloc[n]]
  /\ UNCHANGED jobs

\* Some nodes that work for a job are taken out of service.
MarkBad(S) ==
  /\ \A n \in S : n \in DOMAIN alloc /\ alloc[n] \in Jobs
  /\ alloc' = [n \in DOMAIN alloc |-> IF n \in S THEN Bad ELSE alloc[n]]
  /\ UNCHANGED jobs

Next == \/ Start
        \/ \E j \in Jobs : Delete(j) \/ \E S \in SUBSET Nodes : Assign(j, S)
        \/ \E S \in SUBSET Nodes : MarkBad(S)

Spec == Init /\ [][Next]_vars
=============================================================================
