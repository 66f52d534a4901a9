--------------------------- MODULE ClusterManager ---------------------------
(***************************************************************************)
(* message_passing/safe_message_handlers: ClusterManagerWorkflow, the      *)
(* updates and the signal its clients send, and the cluster its activities *)
(* work on.                                                                *)
(*                                                                         *)
(* Handlers and the health check hold nodes_lock across an activity.       *)
(* asyncio.Lock is FIFO: lockQueue is its queue and the head holds it.     *)
(* Messages are handled in the order of the history, each once             *)
(* cluster_started lets its handler pass.                                  *)
(*                                                                         *)
(* The activities change the cluster itself, while the handler waits; its  *)
(* books change when it goes on.                                           *)
(*                                                                         *)
(* External: an attempt at an activity that died, or whose answer is lost, *)
(* is made again, without limit; one that was given up does not act later. *)
(*                                                                         *)
(* Which unassigned nodes come first in the dict is not told apart.        *)
(***************************************************************************)
EXTENDS Integers, Sequences, FiniteSets

CONSTANTS
  Nodes,          \* what start_cluster returns
  Jobs,           \* job names; not "", which get_assigned_nodes takes for none
  Sizes,          \* values of total_num_nodes that clients ask for
  Calls,          \* identities of update calls
  None, Bad,      \* an unassigned node; "BAD!"
  HealthCheck,    \* perform_health_checks, as a user of the lock
  Shutdown,       \* the shutdown_cluster signal
  MaxRuns         \* bound: runs of the workflow (continue-as-new)

ASSUME ConstantsAssumption ==
  /\ Sizes \subseteq Nat /\ MaxRuns \in Nat
  /\ IsFiniteSet(Nodes)
  /\ None \notin Jobs /\ Bad \notin Jobs /\ None # Bad
  /\ HealthCheck \notin Calls /\ Shutdown \notin Calls

Request == [op : {"assign", "delete"}, job : Jobs, size : Sizes]

VARIABLES
  \* --- the state carried over continue-as-new
  nodes,             \* dict: node -> job, None or "BAD!"
  jobs_assigned,
  cluster_started,
  cluster_shutdown,
  \* --- this run
  runPc,             \* where run is suspended
  inbox,             \* messages whose handlers have not passed cluster_started
  lockQueue,         \* nodes_lock
  picked,            \* local of each user of the lock: the nodes its activity is given
  runs,
  \* --- the update calls, as their clients see them
  request, status, result,
  \* --- the cluster, as the activities leave it
  actual

runVars == <<nodes, jobs_assigned, cluster_started, cluster_shutdown>>
callVars == <<request, status, result>>
vars == <<nodes, jobs_assigned, cluster_started, cluster_shutdown, runPc, inbox,
          lockQueue, picked, runs, request, status, result, actual>>

-----------------------------------------------------------------------------
unassigned_nodes == {n \in DOMAIN nodes : nodes[n] = None}
assigned_nodes   == {n \in DOMAIN nodes : nodes[n] \notin {None, Bad}}
nodes_of(j)      == {n \in DOMAIN nodes : nodes[n] = j}

Open == runPc \notin {"closed", "failed"}

all_handlers_finished == inbox = <<>> /\ lockQueue = <<>>

\* Variants: whoever waits for the lock goes ahead; the lock is not given back.
HoldsOrWaits(c) == \E i \in DOMAIN lockQueue : lockQueue[i] = c
KeepsLock == UNCHANGED lockQueue

Holds(c) == lockQueue # <<>> /\ Head(lockQueue) = c
Release  == lockQueue' = Tail(lockQueue)

Init ==
  /\ nodes = [n \in {} |-> None]
  /\ jobs_assigned = {}
  /\ cluster_started = FALSE /\ cluster_shutdown = FALSE
  /\ runPc = "starting"
  /\ inbox = <<>> /\ lockQueue = <<>>
  /\ picked = [x \in Calls \cup {HealthCheck} |-> {}]
  /\ runs = 1
  /\ request = [c \in Calls |-> None]
  /\ status = [c \in Calls |-> "unsent"]
  /\ result = [c \in Calls |-> {}]
  /\ actual = [n \in Nodes |-> None]

-----------------------------------------------------------------------------
(* Clients. *)

SendCall(c) ==
  /\ Open /\ status[c] = "unsent"
  /\ \E r \in Request : request' = [request EXCEPT ![c] = r]
  /\ status' = [status EXCEPT ![c] = "sent"]
  /\ inbox' = Append(inbox, c)
  /\ UNCHANGED <<runVars, runPc, lockQueue, picked, runs, result, actual>>

SendShutdown ==
  /\ Open /\ ~cluster_shutdown
  /\ \A i \in DOMAIN inbox : inbox[i] # Shutdown
  /\ inbox' = Append(inbox, Shutdown)
  /\ UNCHANGED <<runVars, runPc, lockQueue, picked, runs, callVars, actual>>

-----------------------------------------------------------------------------
(* Handlers. *)

\* From wait_condition(cluster_started) to nodes_lock: the only test of
\* cluster_shutdown is made here.
HandleCall ==
  /\ Open /\ cluster_started
  /\ inbox # <<>> /\ Head(inbox) \in Calls
  /\ inbox' = Tail(inbox)
  /\ \/ /\ cluster_shutdown
        /\ status' = [status EXCEPT ![Head(inbox)] = "failed"]
        /\ UNCHANGED lockQueue
     \/ /\ ~cluster_shutdown
        /\ status' = [status EXCEPT ![Head(inbox)] = "queued"]
        /\ lockQueue' = Append(lockQueue, Head(inbox))
  /\ UNCHANGED <<runVars, runPc, picked, runs, request, result, actual>>

HandleShutdown ==
  /\ Open /\ cluster_started
  /\ inbox # <<>> /\ Head(inbox) = Shutdown
  /\ inbox' = Tail(inbox)
  /\ cluster_shutdown' = TRUE
  /\ UNCHANGED <<nodes, jobs_assigned, cluster_started, runPc, lockQueue, picked,
                 runs, callVars, actual>>

\* The lock is ours: idempotency guard, enough nodes, then the activity.
EnterAssign(c) ==
  /\ Open /\ Holds(c) /\ status[c] = "queued" /\ request[c].op = "assign"
  /\ \/ /\ request[c].job \in jobs_assigned
        /\ status' = [status EXCEPT ![c] = "done"]
        /\ result' = [result EXCEPT ![c] = nodes_of(request[c].job)]
        /\ Release /\ UNCHANGED picked
     \/ /\ request[c].job \notin jobs_assigned
        /\ Cardinality(unassigned_nodes) < request[c].size
        /\ status' = [status EXCEPT ![c] = "failed"]
        /\ Release
        /\ UNCHANGED <<picked, result>>
     \/ /\ request[c].job \notin jobs_assigned
        /\ \E S \in SUBSET unassigned_nodes :
             Cardinality(S) = request[c].size /\ picked' = [picked EXCEPT ![c] = S]
        /\ status' = [status EXCEPT ![c] = "working"]
        /\ UNCHANGED <<lockQueue, result>>
  /\ UNCHANGED <<runVars, runPc, inbox, runs, request, actual>>

\* The books follow when the activity has been answered.
FinishAssign(c) ==
  /\ Open /\ Holds(c) /\ status[c] = "performed" /\ request[c].op = "assign"
  /\ LET j == request[c].job
         marked == [n \in DOMAIN nodes \cup picked[c] |->
                      IF n \in picked[c] THEN j ELSE nodes[n]]
     IN  /\ nodes' = marked
         /\ jobs_assigned' = jobs_assigned \cup {j}
         /\ result' = [result EXCEPT ![c] = {n \in DOMAIN marked : marked[n] = j}]
  /\ status' = [status EXCEPT ![c] = "done"]
  /\ Release
  /\ UNCHANGED <<cluster_started, cluster_shutdown, runPc, inbox, picked,
                 runs, request, actual>>

EnterDelete(c) ==
  /\ Open /\ Holds(c) /\ status[c] = "queued" /\ request[c].op = "delete"
  /\ picked' = [picked EXCEPT ![c] = nodes_of(request[c].job)]
  /\ status' = [status EXCEPT ![c] = "working"]
  /\ UNCHANGED <<runVars, runPc, inbox, lockQueue, runs, request, result, actual>>

FinishDelete(c) ==
  /\ Open /\ Holds(c) /\ status[c] = "performed" /\ request[c].op = "delete"
  /\ nodes' = [n \in DOMAIN nodes \cup picked[c] |->
                 IF n \in picked[c] THEN None ELSE nodes[n]]
  /\ status' = [status EXCEPT ![c] = "done"]
  /\ Release
  /\ UNCHANGED <<jobs_assigned, cluster_started, cluster_shutdown, runPc, inbox,
                 picked, runs, request, result, actual>>

-----------------------------------------------------------------------------
(* The activities assign_nodes_to_job and unassign_nodes_for_job. *)

\* What the activity of a call makes of its nodes.
Target(c) == IF request[c].op = "assign" THEN request[c].job ELSE None

\* An attempt reaches all its nodes and is answered; or it reaches only some, or
\* its answer is lost, and there will be another.
Attempt(c) ==
  /\ status[c] = "working"
  /\ \E reached \in SUBSET picked[c] :
       /\ actual' = [n \in Nodes |-> IF n \in reached THEN Target(c) ELSE actual[n]]
       /\ \/ reached = picked[c] /\ status' = [status EXCEPT ![c] = "performed"]
          \/ UNCHANGED status
  /\ UNCHANGED <<runVars, runPc, inbox, lockQueue, picked, runs, request, result>>

-----------------------------------------------------------------------------
(* run. *)

\* start_cluster returns; run goes straight on to ask for the lock.
StartCluster ==
  /\ runPc = "starting"
  /\ nodes' = [n \in Nodes |-> None]
  /\ cluster_started' = TRUE
  /\ runPc' = "checking"
  /\ lockQueue' = Append(lockQueue, HealthCheck)
  /\ UNCHANGED <<jobs_assigned, cluster_shutdown, inbox, picked, runs, callVars, actual>>

\* schedule_to_close_timeout of 10 seconds: the workflow fails.
StartClusterFails ==
  /\ runPc = "starting"
  /\ runPc' = "failed"
  /\ UNCHANGED <<runVars, inbox, lockQueue, picked, runs, callVars, actual>>

EnterHealthCheck ==
  /\ Holds(HealthCheck) /\ runPc = "checking"
  /\ picked' = [picked EXCEPT ![HealthCheck] = assigned_nodes]
  /\ runPc' = "probing"
  /\ UNCHANGED <<runVars, inbox, lockQueue, runs, callVars, actual>>

\* find_bad_nodes returns some of the nodes it was given; if it fails, the
\* exception is swallowed, as if it had found none.
FinishHealthCheck ==
  /\ runPc = "probing"
  /\ \E found \in SUBSET picked[HealthCheck] :
       nodes' = [n \in DOMAIN nodes \cup found |-> IF n \in found THEN Bad ELSE nodes[n]]
  /\ runPc' = "sleeping"
  /\ Release
  /\ UNCHANGED <<jobs_assigned, cluster_started, cluster_shutdown, inbox, picked,
                 runs, callVars, actual>>

\* The wait between two health checks ends: by the timer, ...
NextHealthCheck ==
  /\ runPc = "sleeping" /\ ~cluster_shutdown
  /\ runPc' = "checking"
  /\ lockQueue' = Append(lockQueue, HealthCheck)
  /\ UNCHANGED <<runVars, inbox, picked, runs, callVars, actual>>

\* ... by shutdown, or because continue-as-new is suggested.
LeaveLoop ==
  /\ runPc = "sleeping"
  /\ \/ cluster_shutdown /\ runPc' = "ending"
     \/ ~cluster_shutdown /\ runs < MaxRuns /\ runPc' = "renewing"
  /\ UNCHANGED <<runVars, inbox, lockQueue, picked, runs, callVars, actual>>

ContinueAsNew ==
  /\ runPc = "renewing" /\ all_handlers_finished
  /\ runPc' = "starting"
  /\ runs' = runs + 1
  /\ UNCHANGED <<runVars, inbox, lockQueue, picked, callVars, actual>>

Complete ==
  /\ runPc = "ending" /\ all_handlers_finished
  /\ runPc' = "closed"
  /\ UNCHANGED <<runVars, inbox, lockQueue, picked, runs, callVars, actual>>

-----------------------------------------------------------------------------
HandlerStep(c) == \/ EnterAssign(c) \/ FinishAssign(c) \/ EnterDelete(c) \/ FinishDelete(c)
                  \/ Attempt(c)

RunStep == \/ StartCluster \/ StartClusterFails \/ EnterHealthCheck \/ FinishHealthCheck
           \/ NextHealthCheck \/ LeaveLoop \/ ContinueAsNew \/ Complete

Next == \/ \E c \in Calls : SendCall(c) \/ HandlerStep(c)
        \/ SendShutdown \/ HandleCall \/ HandleShutdown
        \/ RunStep

Spec == Init /\ [][Next]_vars

\* The worker goes on, and activities and timers come back.
Fairness ==
  /\ WF_vars(HandleCall) /\ WF_vars(HandleShutdown)
  /\ \A c \in Calls : WF_vars(HandlerStep(c))
  /\ WF_vars(StartCluster \/ StartClusterFails)
  /\ WF_vars(EnterHealthCheck) /\ WF_vars(FinishHealthCheck)
  /\ WF_vars(NextHealthCheck \/ LeaveLoop)
  /\ WF_vars(ContinueAsNew) /\ WF_vars(Complete)

FairSpec == Spec /\ Fairness

-----------------------------------------------------------------------------
(* Properties *)

Types ==
  /\ DOMAIN nodes \in {{}, Nodes}
  /\ nodes \in [DOMAIN nodes -> Jobs \cup {None, Bad}]
  /\ jobs_assigned \subseteq Jobs
  /\ cluster_started \in BOOLEAN /\ cluster_shutdown \in BOOLEAN
  /\ runPc \in {"starting", "checking", "probing", "sleeping", "ending", "renewing",
                "closed", "failed"}
  /\ inbox \in Seq(Calls \cup {Shutdown})
  /\ lockQueue \in Seq(Calls \cup {HealthCheck})
  /\ picked \in [Calls \cup {HealthCheck} -> SUBSET Nodes]
  /\ runs \in Nat
  /\ request \in [Calls -> Request \cup {None}]
  /\ status \in [Calls -> {"unsent", "sent", "queued", "working", "performed", "done",
                         "failed"}]
  /\ result \in [Calls -> SUBSET Nodes]
  /\ actual \in [Nodes -> Jobs \cup {None}]

\* Every variable has its type, and the lock queue holds each of its users
\* once.
TypeOK ==
  /\ Types
  /\ \A i, k \in DOMAIN lockQueue : lockQueue[i] = lockQueue[k] => i = k

\* Every run starts the cluster again, with the books carried over
\* (AssignedNodesStay): what must hold of both is stated of the first run.
FirstRun == runs = 1

\* Between a handler's choice of nodes and its note of it in the books.
UnderWay(c) == status[c] \in {"working", "performed"}

\* In the cluster itself, not only in the workflow's books, the nodes that a job
\* is being given are free or already its own: no node ever works for two jobs.
NoDoubleAssignment ==
  \A c \in Calls : FirstRun /\ Open /\ UnderWay(c) /\ request[c].op = "assign" =>
    \A n \in picked[c] : actual[n] \in {None, request[c].job}

\* What the workflow believes about an assigned or unassigned node is so, but
\* for nodes that the activity under way has reached: for those the books are
\* one step behind, and what it has made of them is what they will say.
BooksMatchCluster ==
  FirstRun /\ cluster_started =>
    \A n \in Nodes : nodes[n] # Bad =>
      \/ nodes[n] = actual[n]
      \/ \E c \in Calls : UnderWay(c) /\ n \in picked[c] /\ actual[n] = Target(c)

\* A call that was granted nodes can rely on them: until somebody deletes the
\* job, each of them works for it or has been found bad
\* (tests/message_passing/safe_message_handlers/workflow_test.py:170, and
\* README.md:7 for continue-as-new: "it passes its state to the next workflow").
AssignedNodesStay ==
  \A c \in Calls : Open /\ status[c] = "done" /\ request[c].op = "assign" =>
    \/ \A n \in result[c] : nodes[n] \in {request[c].job, Bad}
    \/ \E d \in Calls : /\ UnderWay(d) \/ status[d] = "done"
                        /\ request[d].op = "delete" /\ request[d].job = request[c].job

\* As long as the workflow has not continued as new, they can.
NodesStayInFirstRun == FirstRun => AssignedNodesStay

\* An assignment is all or nothing: the first success for a job has exactly
\* the number of nodes asked for (workflow_test.py:66).
FirstAssignmentIsExact ==
  [][\A c \in Calls :
       status[c] = "performed" /\ status'[c] = "done" /\ request[c].op = "assign"
       => Cardinality(result'[c]) = request[c].size]_vars

\* The updates and the health check run atomically on the nodes, although each
\* of them is suspended in an activity between reading and writing, perhaps
\* while the next run starts the cluster.
Atomic == INSTANCE AtomicCluster WITH alloc <- nodes, jobs <- jobs_assigned
ImplementsAtomic == Atomic!Spec

\* Every update a client has sent is answered, unless starting the cluster
\* fails: nothing is left waiting for the lock or lost by completing or
\* continuing as new.
EveryCallIsAnswered ==
  \A c \in Calls : status[c] \in {"sent", "queued", "working", "performed"} ~>
                     status[c] \in {"done", "failed"} \/ runPc = "failed"
=============================================================================
