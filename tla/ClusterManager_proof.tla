------------------------ MODULE ClusterManager_proof ------------------------
(***************************************************************************)
(* Proofs about ClusterManager, for every set of nodes, jobs, calls and    *)
(* sizes and every number of runs: the users of nodes_lock exclude each    *)
(* other over their activities, the books of the first run are right, an   *)
(* assignment is exact, and the whole implements AtomicCluster.            *)
(***************************************************************************)
EXTENDS ClusterManager, Data_proof

-----------------------------------------------------------------------------
(* The inductive invariant *)

\* Whoever is in the lock's queue is about to use it or uses it, once; whoever
\* is in the middle of an activity has it.
LockUsers ==
  /\ Once(lockQueue)
  /\ \A c \in Calls : In(c, lockQueue) <=> status[c] = "queued" \/ UnderWay(c)
  /\ In(HealthCheck, lockQueue) <=> runPc \in {"checking", "probing"}
  /\ \A c \in Calls : UnderWay(c) => Holds(c)
  /\ runPc = "probing" => Holds(HealthCheck)

\* The inbox holds each call that was sent and is not handled, once.
Mailbox ==
  /\ \A i \in DOMAIN inbox : inbox[i] \in Calls => status[inbox[i]] = "sent"
  /\ \A i, k \in DOMAIN inbox : inbox[i] = inbox[k] /\ inbox[i] \in Calls => i = k
  /\ \A c \in Calls : status[c] # "unsent" => request[c] \in Request

\* Before the cluster was started for the first time nothing has happened; the
\* first run starts it only once.
BeforeStart ==
  /\ runs >= 1
  /\ FirstRun /\ runPc = "starting" => ~cluster_started
  /\ cluster_started => DOMAIN nodes = Nodes
  /\ ~cluster_started =>
       /\ DOMAIN nodes = {} /\ lockQueue = <<>> /\ runPc \in {"starting", "failed"}
       /\ \A c \in Calls : status[c] \in {"unsent", "sent"}
       /\ \A n \in Nodes : actual[n] = None

\* A node works only for a job that was given nodes.
JobsAreKnown == \A n \in DOMAIN nodes : nodes[n] \in Jobs => nodes[n] \in jobs_assigned

\* What an assignment has read before its activity is so after it: the nodes
\* it picked are free, as many as it was asked for, and the job has none yet.
PickedIsFree ==
  \A c \in Calls : UnderWay(c) /\ request[c].op = "assign" =>
    /\ request[c].job \notin jobs_assigned
    /\ picked[c] \subseteq unassigned_nodes
    /\ Cardinality(picked[c]) = request[c].size

\* A deletion has picked every node of its job; a run that starts the cluster
\* in the meantime has freed them.
PickedIsOfJob ==
  \A c \in Calls : UnderWay(c) /\ request[c].op = "delete" =>
    /\ nodes_of(request[c].job) \subseteq picked[c]
    /\ picked[c] \subseteq DOMAIN nodes
    /\ \A n \in picked[c] : nodes[n] \in {request[c].job, None}

\* The nodes whose health is being looked at still work for a job.
ProbedAreAssigned == runPc = "probing" => picked[HealthCheck] \subseteq assigned_nodes

\* When the activity has been answered, the cluster is what it was to make of it:
\* nobody else has touched these nodes while the handler was about to go on.
PerformedIsSo ==
  \A c \in Calls : status[c] = "performed" => \A n \in picked[c] : actual[n] = Target(c)

NodesInv == /\ JobsAreKnown /\ PickedIsFree /\ PickedIsOfJob /\ ProbedAreAssigned
            /\ PerformedIsSo /\ BooksMatchCluster /\ NodesStayInFirstRun

IInv == LockUsers /\ Mailbox /\ BeforeStart /\ NodesInv

-----------------------------------------------------------------------------
(* Types *)

LEMMA InitTypes == Init => Types
<1> SUFFICES ASSUME Init PROVE Types
  OBVIOUS
<1>1. DOMAIN nodes = {} /\ nodes \in [DOMAIN nodes -> Jobs \cup {None, Bad}]
  BY DEF Init
<1>2. request \in [Calls -> Request \cup {None}] /\ actual \in [Nodes -> Jobs \cup {None}]
  BY DEF Init
<1>3. /\ jobs_assigned \subseteq Jobs
      /\ runPc = "starting" /\ runs \in Nat
      /\ inbox \in Seq(Calls \cup {Shutdown})
      /\ lockQueue \in Seq(Calls \cup {HealthCheck})
  BY DEF Init
<1>4. /\ picked \in [Calls \cup {HealthCheck} -> SUBSET Nodes]
      /\ status \in [Calls -> {"unsent", "sent", "queued", "working", "performed", "done",
                               "failed"}]
      /\ result \in [Calls -> SUBSET Nodes]
  BY DEF Init
<1>5. cluster_started \in BOOLEAN /\ cluster_shutdown \in BOOLEAN
  BY DEF Init
<1> QED
  BY <1>1, <1>2, <1>3, <1>4, <1>5 DEF Types

\* What releasing the lock needs, and the end of a handler.
LEMMA ReleaseType ==
  ASSUME Types, lockQueue # <<>>, Release
  PROVE  lockQueue' \in Seq(Calls \cup {HealthCheck})
BY DEF Types, Release

LEMMA HandlerTypes ==
  ASSUME Types, NEW c \in Calls, HandlerStep(c), request[c] \in Request,
         lockQueue # <<>> => DOMAIN nodes = Nodes
  PROVE  Types'
<1> USE DEF Types, Request, Holds, runVars
<1>1. CASE EnterAssign(c)
  <2>1. nodes_of(request[c].job) \in SUBSET Nodes /\ unassigned_nodes \in SUBSET Nodes
    BY DEF nodes_of, unassigned_nodes
  <2>2. CASE /\ status' = [status EXCEPT ![c] = "done"]
             /\ result' = [result EXCEPT ![c] = nodes_of(request[c].job)]
             /\ Release /\ UNCHANGED picked
    BY <1>1, <2>1, <2>2, ReleaseType DEF EnterAssign
  <2>3. CASE /\ status' = [status EXCEPT ![c] = "failed"]
             /\ Release
             /\ UNCHANGED <<picked, result>>
    BY <1>1, <2>3, ReleaseType DEF EnterAssign
  <2>4. CASE /\ \E S \in SUBSET unassigned_nodes : picked' = [picked EXCEPT ![c] = S]
             /\ status' = [status EXCEPT ![c] = "working"]
             /\ UNCHANGED <<lockQueue, result>>
    <3>1. PICK S \in SUBSET Nodes : picked' = [picked EXCEPT ![c] = S]
      BY <2>1, <2>4
    <3>2. picked' \in [Calls \cup {HealthCheck} -> SUBSET Nodes]
      BY <3>1
    <3> QED
      BY <1>1, <2>4, <3>2 DEF EnterAssign
  <2> QED
    BY <1>1, <2>2, <2>3, <2>4 DEF EnterAssign
<1>2. CASE FinishAssign(c)
  <2> DEFINE j == request[c].job
             marked == [n \in DOMAIN nodes \cup picked[c] |->
                          IF n \in picked[c] THEN j ELSE nodes[n]]
  <2>0. j \in Jobs /\ picked[c] \in SUBSET Nodes
    OBVIOUS
  <2>1. /\ nodes' = marked /\ jobs_assigned' = jobs_assigned \cup {j}
        /\ result' = [result EXCEPT ![c] = {n \in DOMAIN marked : marked[n] = j}]
        /\ status' = [status EXCEPT ![c] = "done"]
        /\ UNCHANGED <<cluster_started, cluster_shutdown, runPc, inbox, picked, runs, request,
                       actual>>
    BY <1>2 DEF FinishAssign
  <2>2. DOMAIN nodes' = DOMAIN nodes \cup picked[c]
    BY <2>1
  <2>3. DOMAIN nodes' = Nodes /\ DOMAIN marked = Nodes
    BY <1>2, <2>0, <2>1, <2>2 DEF FinishAssign
  <2>4. nodes' \in [DOMAIN nodes' -> Jobs \cup {None, Bad}]
    BY <2>0, <2>1, <2>2
  <2>5. lockQueue' \in Seq(Calls \cup {HealthCheck})
    BY <1>2, ReleaseType DEF FinishAssign
  <2> HIDE DEF marked
  <2>6. result' \in [Calls -> SUBSET Nodes]
    <3>1. {n \in DOMAIN marked : marked[n] = j} \in SUBSET Nodes
      BY <2>3
    <3> QED
      BY <2>1, <3>1
  <2> HIDE DEF j
  <2> QED
    BY <2>0, <2>1, <2>3, <2>4, <2>5, <2>6
<1>3. CASE EnterDelete(c)
  <2>1. nodes_of(request[c].job) \in SUBSET Nodes
    BY DEF nodes_of
  <2> QED
    BY <1>3, <2>1 DEF EnterDelete
<1>4. CASE FinishDelete(c)
  <2>1. lockQueue' \in Seq(Calls \cup {HealthCheck})
    BY <1>4, ReleaseType DEF FinishDelete
  <2>2. picked[c] \in SUBSET Nodes
    OBVIOUS
  <2>3. DOMAIN nodes' = Nodes /\ nodes' \in [DOMAIN nodes' -> Jobs \cup {None, Bad}]
    <3>1. /\ DOMAIN nodes = Nodes
          /\ nodes' = [n \in DOMAIN nodes \cup picked[c] |->
                         IF n \in picked[c] THEN None ELSE nodes[n]]
      BY <1>4 DEF FinishDelete
    <3> QED
      BY <2>2, <3>1
  <2> QED
    BY <1>4, <2>1, <2>2, <2>3 DEF FinishDelete
<1>5. CASE Attempt(c)
  <2>1. Target(c) \in Jobs \cup {None}
    BY DEF Target
  <2>2. actual' \in [Nodes -> Jobs \cup {None}]
    BY <1>5, <2>1 DEF Attempt
  <2> QED
    BY <1>5, <2>2 DEF Attempt
<1> QED
  BY <1>1, <1>2, <1>3, <1>4, <1>5 DEF HandlerStep

LEMMA RunTypes ==
  ASSUME Types, RunStep,
         runPc = "probing" => lockQueue # <<>> /\ DOMAIN nodes = Nodes
  PROVE  Types'
<1> USE DEF Types, runVars, callVars
<1>1. CASE StartCluster
  BY <1>1 DEF StartCluster
<1>2. CASE StartClusterFails
  BY <1>2 DEF StartClusterFails
<1>3. CASE EnterHealthCheck
  <2>1. assigned_nodes \in SUBSET Nodes
    BY DEF assigned_nodes
  <2> QED
    BY <1>3, <2>1 DEF EnterHealthCheck
<1>4. CASE FinishHealthCheck
  <2>1. lockQueue' \in Seq(Calls \cup {HealthCheck})
    BY <1>4, ReleaseType DEF FinishHealthCheck
  <2>2. PICK found \in SUBSET picked[HealthCheck] :
          nodes' = [n \in DOMAIN nodes \cup found |-> IF n \in found THEN Bad ELSE nodes[n]]
    BY <1>4 DEF FinishHealthCheck
  <2>3. found \in SUBSET Nodes
    OBVIOUS
  <2>4. DOMAIN nodes' = Nodes /\ nodes' \in [DOMAIN nodes' -> Jobs \cup {None, Bad}]
    BY <1>4, <2>2, <2>3 DEF FinishHealthCheck
  <2> QED
    BY <1>4, <2>1, <2>3, <2>4 DEF FinishHealthCheck
<1>5. CASE NextHealthCheck
  BY <1>5 DEF NextHealthCheck
<1>6. CASE LeaveLoop
  BY <1>6 DEF LeaveLoop
<1>7. CASE ContinueAsNew
  BY <1>7 DEF ContinueAsNew
<1>8. CASE Complete
  BY <1>8 DEF Complete
<1> QED
  BY <1>1, <1>2, <1>3, <1>4, <1>5, <1>6, <1>7, <1>8 DEF RunStep

LEMMA StepTypes ==
  ASSUME Types, LockUsers, Mailbox, BeforeStart, [Next]_vars
  PROVE  Types'
<1>0. lockQueue # <<>> => DOMAIN nodes = Nodes
  BY DEF BeforeStart
<1>1. ASSUME NEW c \in Calls, SendCall(c) PROVE Types'
  BY <1>1 DEF Types, SendCall, runVars
<1>2. ASSUME NEW c \in Calls, HandlerStep(c) PROVE Types'
  <2>1. request[c] \in Request
    BY <1>2 DEF Mailbox, HandlerStep, EnterAssign, FinishAssign, EnterDelete, FinishDelete,
       Attempt
  <2> QED
    BY <1>0, <1>2, <2>1, HandlerTypes
<1>3. CASE SendShutdown
  BY <1>3 DEF Types, SendShutdown, runVars, callVars
<1>4. CASE HandleCall
  <2>1. Head(inbox) \in Calls /\ Tail(inbox) \in Seq(Calls \cup {Shutdown})
    BY <1>4 DEF Types, HandleCall
  <2>2. CASE status' = [status EXCEPT ![Head(inbox)] = "failed"] /\ UNCHANGED lockQueue
    BY <1>4, <2>1, <2>2 DEF Types, HandleCall, runVars
  <2>3. CASE /\ status' = [status EXCEPT ![Head(inbox)] = "queued"]
             /\ lockQueue' = Append(lockQueue, Head(inbox))
    BY <1>4, <2>1, <2>3 DEF Types, HandleCall, runVars
  <2> QED
    BY <1>4, <2>2, <2>3 DEF HandleCall
<1>5. CASE HandleShutdown
  BY <1>5 DEF Types, HandleShutdown, callVars
<1>6. CASE RunStep
  BY <1>0, <1>6, RunTypes DEF LockUsers, Holds
<1>7. CASE UNCHANGED vars
  BY <1>7 DEF Types, vars
<1> QED
  BY <1>1, <1>2, <1>3, <1>4, <1>5, <1>6, <1>7 DEF Next

-----------------------------------------------------------------------------
(* The lock *)

\* The lock excludes: while somebody has it, nobody else is in an activity.
LEMMA Exclusion ==
  ASSUME LockUsers, NEW c \in Calls \cup {HealthCheck}, Holds(c)
  PROVE  /\ \A d \in Calls : UnderWay(d) => d = c
         /\ runPc = "probing" => c = HealthCheck
BY DEF LockUsers, Holds

\* Somebody asks for the lock.
LEMMA Enqueue ==
  ASSUME Types, LockUsers, NEW x \in Calls \cup {HealthCheck}, ~In(x, lockQueue),
         lockQueue' = Append(lockQueue, x)
  PROVE  /\ Once(lockQueue')
         /\ \A y : In(y, lockQueue') <=> In(y, lockQueue) \/ y = x
         /\ \A y : Holds(y) => Holds(y)'
BY Appended DEF Types, LockUsers, Holds

\* Its holder gives it back.
LEMMA Dequeue ==
  ASSUME Types, LockUsers, NEW x \in Calls \cup {HealthCheck}, Holds(x), Release
  PROVE  /\ Once(lockQueue')
         /\ \A y : In(y, lockQueue') <=> In(y, lockQueue) /\ y # x
BY Removed DEF Types, LockUsers, Holds, Release

LEMMA HandlerLockUsers ==
  ASSUME Types, LockUsers, NEW c \in Calls, HandlerStep(c)
  PROVE  LockUsers'
<1>1. Holds(c) /\ runPc' = runPc /\ c # HealthCheck
  BY ConstantsAssumption
  DEF HandlerStep, EnterAssign, FinishAssign, EnterDelete, FinishDelete, Attempt, runVars,
      LockUsers, UnderWay
<1>2. \A d \in Calls : UnderWay(d) => d = c
  BY <1>1, Exclusion
<1>3. runPc # "probing"
  BY <1>1, Exclusion
<1>4. In(c, lockQueue)
  BY <1>1, Removed DEF Types, LockUsers, Holds
<1>5. CASE Release /\ \E s \in {"done", "failed"} : status' = [status EXCEPT ![c] = s]
  <2>1. PICK s \in {"done", "failed"} : status' = [status EXCEPT ![c] = s]
    BY <1>5
  <2>2. status'[c] = s /\ \A d \in Calls : d # c => status'[d] = status[d]
    BY <2>1 DEF Types
  <2>3. /\ Once(lockQueue')
        /\ \A y : In(y, lockQueue') <=> In(y, lockQueue) /\ y # c
    BY <1>1, <1>5, Dequeue
  <2>4. \A d \in Calls : In(d, lockQueue') <=> status'[d] = "queued" \/ UnderWay(d)'
    BY <2>2, <2>3 DEF LockUsers, UnderWay
  <2>5. \A d \in Calls : ~UnderWay(d)'
    BY <1>2, <2>2 DEF UnderWay
  <2> QED
    BY <1>1, <1>3, <2>3, <2>4, <2>5 DEF LockUsers
<1>6. CASE /\ UNCHANGED lockQueue
           /\ \E s \in {"working", "performed"} : status' = [status EXCEPT ![c] = s]
  <2>1. UnderWay(c)' /\ \A d \in Calls : d # c => status'[d] = status[d]
    BY <1>6 DEF Types, UnderWay
  <2>2. \A d \in Calls : In(d, lockQueue') <=> status'[d] = "queued" \/ UnderWay(d)'
    BY <1>4, <1>6, <2>1 DEF LockUsers, UnderWay
  <2>3. \A d \in Calls : UnderWay(d)' => Holds(d)'
    BY <1>1, <1>2, <1>6, <2>1 DEF Holds, UnderWay
  <2> QED
    BY <1>1, <1>3, <1>6, <2>2, <2>3 DEF LockUsers
<1>7. CASE UNCHANGED <<lockQueue, status>>
  BY <1>1, <1>7 DEF LockUsers, Holds, UnderWay
<1> QED
  BY <1>5, <1>6, <1>7
  DEF HandlerStep, EnterAssign, FinishAssign, EnterDelete, FinishDelete, Attempt

LEMMA RunLockUsers ==
  ASSUME Types, LockUsers, RunStep
  PROVE  LockUsers'
<1>0. status' = status /\ HealthCheck \notin Calls
  BY ConstantsAssumption DEF RunStep, StartCluster, StartClusterFails, EnterHealthCheck,
     FinishHealthCheck, NextHealthCheck, LeaveLoop, ContinueAsNew, Complete, callVars
<1>1. CASE StartCluster \/ NextHealthCheck
  <2>1. /\ ~In(HealthCheck, lockQueue) /\ lockQueue' = Append(lockQueue, HealthCheck)
        /\ runPc' = "checking"
    BY <1>1 DEF StartCluster, NextHealthCheck, LockUsers
  <2> QED
    BY <1>0, <2>1, Enqueue DEF LockUsers, UnderWay
<1>2. CASE EnterHealthCheck
  BY <1>0, <1>2 DEF EnterHealthCheck, LockUsers, Holds, UnderWay
<1>3. CASE FinishHealthCheck
  <2>1. Holds(HealthCheck) /\ Release /\ runPc' = "sleeping"
    BY <1>3 DEF FinishHealthCheck, LockUsers
  <2>2. \A d \in Calls : ~UnderWay(d)
    BY <1>0, <2>1, Exclusion
  <2> QED
    BY <1>0, <2>1, <2>2, Dequeue DEF LockUsers, UnderWay
<1>4. CASE StartClusterFails \/ LeaveLoop \/ ContinueAsNew \/ Complete
  <2>1. /\ lockQueue' = lockQueue
        /\ runPc \notin {"checking", "probing"} /\ runPc' \notin {"checking", "probing"}
    BY <1>4 DEF StartClusterFails, LeaveLoop, ContinueAsNew, Complete
  <2> QED
    BY <1>0, <2>1 DEF LockUsers, Holds, UnderWay
<1> QED
  BY <1>1, <1>2, <1>3, <1>4 DEF RunStep

LEMMA StepLockUsers ==
  ASSUME Types, LockUsers, Mailbox, [Next]_vars
  PROVE  LockUsers'
<1>1. ASSUME NEW c \in Calls, SendCall(c) PROVE LockUsers'
  <2>1. /\ status[c] = "unsent" /\ status'[c] = "sent"
        /\ \A d \in Calls : d # c => status'[d] = status[d]
        /\ lockQueue' = lockQueue /\ runPc' = runPc
    BY <1>1 DEF SendCall, Types
  <2> QED
    BY <2>1 DEF LockUsers, Holds, UnderWay
<1>2. ASSUME NEW c \in Calls, HandlerStep(c) PROVE LockUsers'
  BY <1>2, HandlerLockUsers
<1>3. CASE HandleCall
  <2> DEFINE c == Head(inbox)
  <2>0. c \in Calls /\ status[c] = "sent" /\ ~In(c, lockQueue) /\ runPc' = runPc
    <3>1. inbox # <<>> /\ runPc' = runPc
      BY <1>3 DEF HandleCall
    <3>2. 1 \in DOMAIN inbox /\ inbox[1] = c
      BY <3>1 DEF Types
    <3>3. c \in Calls /\ status[c] = "sent"
      BY <1>3, <3>2 DEF HandleCall, Mailbox, Types
    <3> QED
      BY <3>1, <3>3, ConstantsAssumption DEF LockUsers, UnderWay
  <2>1. CASE status' = [status EXCEPT ![c] = "failed"] /\ UNCHANGED lockQueue
    <3>1. status'[c] = "failed" /\ \A d \in Calls : d # c => status'[d] = status[d]
      BY <2>0, <2>1 DEF Types
    <3> HIDE DEF c
    <3> QED
      BY <2>0, <2>1, <3>1 DEF LockUsers, Holds, UnderWay
  <2>2. CASE status' = [status EXCEPT ![c] = "queued"] /\ lockQueue' = Append(lockQueue, c)
    <3>1. status'[c] = "queued" /\ \A d \in Calls : d # c => status'[d] = status[d]
      BY <2>0, <2>2 DEF Types
    <3> HIDE DEF c
    <3>2. c # HealthCheck
      BY <2>0, ConstantsAssumption
    <3> QED
      BY <2>0, <2>2, <3>1, <3>2, Enqueue DEF LockUsers, UnderWay
  <2> QED
    BY <1>3, <2>1, <2>2 DEF HandleCall
<1>4. CASE RunStep
  BY <1>4, RunLockUsers
<1>5. CASE SendShutdown \/ HandleShutdown \/ UNCHANGED vars
  <2>1. lockQueue' = lockQueue /\ runPc' = runPc /\ status' = status
    BY <1>5 DEF SendShutdown, HandleShutdown, vars, callVars
  <2> QED
    BY <2>1 DEF LockUsers, Holds, UnderWay
<1> QED
  BY <1>1, <1>2, <1>3, <1>4, <1>5 DEF Next

-----------------------------------------------------------------------------
(* Messages, and the start of the cluster *)

LEMMA StepMailbox ==
  ASSUME Types, LockUsers, Mailbox, [Next]_vars
  PROVE  Mailbox'
<1>1. ASSUME NEW c \in Calls, SendCall(c) PROVE Mailbox'
  <2>1. /\ status[c] = "unsent" /\ status'[c] = "sent"
        /\ \A d \in Calls : d # c => status'[d] = status[d] /\ request'[d] = request[d]
        /\ request'[c] \in Request
        /\ inbox \in Seq(Calls \cup {Shutdown}) /\ inbox' = Append(inbox, c)
    BY <1>1 DEF SendCall, Types
  <2>2. /\ DOMAIN inbox' = DOMAIN inbox \cup {Len(inbox) + 1}
        /\ Len(inbox) + 1 \notin DOMAIN inbox
        /\ \A i \in DOMAIN inbox : inbox'[i] = inbox[i] /\ inbox[i] # c
        /\ inbox'[Len(inbox) + 1] = c
    BY <2>1 DEF Mailbox
  <2>3. \A i \in DOMAIN inbox' : inbox'[i] \in Calls => status'[inbox'[i]] = "sent"
    BY <2>1, <2>2 DEF Mailbox
  <2>4. \A i, k \in DOMAIN inbox' : inbox'[i] = inbox'[k] /\ inbox'[i] \in Calls => i = k
    BY <2>1, <2>2 DEF Mailbox
  <2> QED
    BY <2>1, <2>3, <2>4 DEF Mailbox
<1>2. ASSUME NEW c \in Calls, HandlerStep(c) PROVE Mailbox'
  <2>1. /\ status[c] = "queued" \/ UnderWay(c)
        /\ inbox' = inbox /\ request' = request
        /\ \/ status' = status
           \/ \E s \in {"done", "failed", "working", "performed"} :
                status' = [status EXCEPT ![c] = s]
    BY <1>2
    DEF HandlerStep, EnterAssign, FinishAssign, EnterDelete, FinishDelete, Attempt, UnderWay
  <2>2. \A d \in Calls : d # c => status'[d] = status[d]
    BY <2>1 DEF Types
  <2>3. status'[c] # "unsent" /\ status[c] \notin {"unsent", "sent"}
    BY <2>1 DEF Types, UnderWay
  <2> QED
    BY <2>1, <2>2, <2>3 DEF Mailbox
<1>3. CASE SendShutdown
  <2>1. /\ inbox \in Seq(Calls \cup {Shutdown}) /\ inbox' = Append(inbox, Shutdown)
        /\ status' = status /\ request' = request /\ Shutdown \notin Calls
    BY <1>3, ConstantsAssumption DEF SendShutdown, callVars, Types
  <2>2. /\ DOMAIN inbox' = DOMAIN inbox \cup {Len(inbox) + 1}
        /\ \A i \in DOMAIN inbox : inbox'[i] = inbox[i]
        /\ inbox'[Len(inbox) + 1] = Shutdown
    BY <2>1
  <2> QED
    BY <2>1, <2>2 DEF Mailbox
<1>4. CASE HandleCall \/ HandleShutdown
  <2>1. /\ inbox \in Seq(Calls \cup {Shutdown}) /\ inbox # <<>> /\ inbox' = Tail(inbox)
        /\ request' = request
        /\ status' = status \/ /\ Head(inbox) \in Calls
                               /\ \E s \in {"failed", "queued"} :
                                    status' = [status EXCEPT ![Head(inbox)] = s]
    BY <1>4 DEF HandleCall, HandleShutdown, callVars, Types
  <2>2. /\ 1 \in DOMAIN inbox /\ Head(inbox) = inbox[1]
        /\ \A i \in DOMAIN inbox' :
             i \in Int /\ i # 0 /\ i + 1 \in DOMAIN inbox /\ inbox'[i] = inbox[i + 1]
    BY <2>1
  <2>3. \A d \in Calls : d # inbox[1] => status'[d] = status[d]
    BY <2>1, <2>2 DEF Types
  <2>4. \A i \in DOMAIN inbox' : inbox'[i] \in Calls => inbox'[i] # inbox[1]
    BY <2>2 DEF Mailbox
  <2>5. \A i \in DOMAIN inbox' : inbox'[i] \in Calls => status'[inbox'[i]] = "sent"
    BY <2>2, <2>3, <2>4 DEF Mailbox
  <2>6. \A i, k \in DOMAIN inbox' : inbox'[i] = inbox'[k] /\ inbox'[i] \in Calls => i = k
    BY <2>2 DEF Mailbox
  <2>7. \A c \in Calls : status[c] = "sent" => request[c] \in Request
    BY DEF Mailbox
  <2>8. inbox[1] \in Calls => status[inbox[1]] = "sent"
    BY <2>2 DEF Mailbox
  <2> QED
    BY <2>1, <2>3, <2>5, <2>6, <2>7, <2>8 DEF Mailbox
<1>5. CASE RunStep \/ UNCHANGED vars
  <2>1. inbox' = inbox /\ status' = status /\ request' = request
    BY <1>5 DEF RunStep, StartCluster, StartClusterFails, EnterHealthCheck,
       FinishHealthCheck, NextHealthCheck, LeaveLoop, ContinueAsNew, Complete, callVars, vars
  <2> QED
    BY <2>1 DEF Mailbox
<1> QED
  BY <1>1, <1>2, <1>3, <1>4, <1>5 DEF Next

LEMMA StepBeforeStart ==
  ASSUME Types, Types', LockUsers, BeforeStart, PickedIsFree, PickedIsOfJob,
         ProbedAreAssigned, [Next]_vars
  PROVE  BeforeStart'
<1>1. ASSUME NEW c \in Calls, HandlerStep(c) PROVE BeforeStart'
  <2>1. cluster_started /\ DOMAIN nodes = Nodes
    BY <1>1 DEF BeforeStart, HandlerStep, EnterAssign, FinishAssign, EnterDelete,
         FinishDelete, Attempt, Holds
  <2>2. runs' = runs /\ runPc' = runPc /\ cluster_started' = cluster_started
    BY <1>1 DEF HandlerStep, EnterAssign, FinishAssign, EnterDelete, FinishDelete, Attempt,
         runVars
  <2>3. DOMAIN nodes' = Nodes
    <3>1. picked[c] \subseteq Nodes
      BY DEF Types
    <3> QED
      BY <1>1, <2>1, <3>1 DEF HandlerStep, EnterAssign, FinishAssign, EnterDelete,
         FinishDelete, Attempt, runVars
  <2> QED
    BY <2>1, <2>2, <2>3 DEF BeforeStart, FirstRun
<1>2. ASSUME NEW c \in Calls, SendCall(c) PROVE BeforeStart'
  BY <1>2 DEF SendCall, BeforeStart, FirstRun, runVars, Types
<1>3. CASE SendShutdown \/ HandleShutdown \/ UNCHANGED vars
  BY <1>3 DEF SendShutdown, HandleShutdown, vars, BeforeStart, FirstRun, runVars, callVars
<1>4. CASE HandleCall
  BY <1>4 DEF HandleCall, BeforeStart, FirstRun, runVars
<1>5. CASE StartCluster
  BY <1>5 DEF StartCluster, BeforeStart, FirstRun
<1>6. CASE FinishHealthCheck
  <2>1. cluster_started /\ DOMAIN nodes = Nodes /\ picked[HealthCheck] \subseteq Nodes
    BY <1>6 DEF FinishHealthCheck, BeforeStart, Types
  <2>2. DOMAIN nodes' = Nodes
    BY <1>6, <2>1 DEF FinishHealthCheck
  <2> QED
    BY <1>6, <2>1, <2>2 DEF FinishHealthCheck, BeforeStart, FirstRun
<1>7. CASE ContinueAsNew
  <2>1. runs' = runs + 1 /\ runs \in Nat /\ runPc = "renewing" /\ cluster_started
    BY <1>7 DEF ContinueAsNew, BeforeStart, Types
  <2> QED
    BY <1>7, <2>1 DEF ContinueAsNew, BeforeStart, FirstRun, runVars
<1>8. CASE StartClusterFails \/ EnterHealthCheck \/ NextHealthCheck \/ LeaveLoop \/ Complete
  BY <1>8 DEF StartClusterFails, EnterHealthCheck, NextHealthCheck, LeaveLoop, Complete,
     BeforeStart, FirstRun, runVars, callVars
<1> QED
  BY <1>1, <1>2, <1>3, <1>4, <1>5, <1>6, <1>7, <1>8 DEF Next, RunStep

-----------------------------------------------------------------------------
(* The nodes *)

\* Steps that neither touch the nodes nor begin or end a handler's work.
Quiet ==
  /\ UNCHANGED <<nodes, jobs_assigned, cluster_started, actual, picked, result>>
  /\ \A c \in Calls : \/ status'[c] = status[c] /\ request'[c] = request[c]
                      \/ /\ status[c] \notin {"working", "performed", "done"}
                         /\ status'[c] \notin {"working", "performed", "done"}
  /\ runs' = runs \/ ~FirstRun'
  /\ runPc' = "probing" => runPc = "probing"
  /\ Open' => Open

LEMMA QuietNodesInv ==
  ASSUME NodesInv, Quiet
  PROVE  NodesInv'
<1>1. JobsAreKnown' /\ ProbedAreAssigned'
  BY DEF NodesInv, Quiet, JobsAreKnown, ProbedAreAssigned, assigned_nodes
<1>2. PickedIsFree' /\ PickedIsOfJob'
  BY DEF NodesInv, Quiet, PickedIsFree, PickedIsOfJob, unassigned_nodes, nodes_of, UnderWay
<1>3. PerformedIsSo' /\ BooksMatchCluster'
  BY DEF NodesInv, Quiet, PerformedIsSo, BooksMatchCluster, FirstRun, UnderWay, Target
<1>4. NodesStayInFirstRun'
  <2> SUFFICES ASSUME FirstRun', Open', NEW c \in Calls,
                      status'[c] = "done", request'[c].op = "assign"
               PROVE  \/ \A n \in result'[c] : nodes'[n] \in {request'[c].job, Bad}
                      \/ \E d \in Calls : /\ UnderWay(d)' \/ status'[d] = "done"
                                          /\ request'[d].op = "delete"
                                          /\ request'[d].job = request'[c].job
    BY DEF NodesStayInFirstRun, AssignedNodesStay
  <2>1. /\ FirstRun /\ Open /\ status[c] = "done" /\ request'[c] = request[c]
        /\ nodes' = nodes /\ result' = result
    BY DEF Quiet, FirstRun
  <2>2. \A d \in Calls : UnderWay(d) \/ status[d] = "done" =>
          status'[d] = status[d] /\ request'[d] = request[d]
    BY DEF Quiet, UnderWay
  <2>3. \/ \A n \in result[c] : nodes[n] \in {request[c].job, Bad}
        \/ \E d \in Calls : /\ (UnderWay(d) \/ status[d] = "done") /\ request[d].op = "delete"
                            /\ request[d].job = request[c].job
    BY <2>1 DEF NodesInv, NodesStayInFirstRun, AssignedNodesStay
  <2> QED
    BY <2>1, <2>2, <2>3 DEF UnderWay
<1> QED
  BY <1>1, <1>2, <1>3, <1>4 DEF NodesInv

LEMMA EnterAssignNodesInv ==
  ASSUME Types, LockUsers, BeforeStart, NodesInv, NEW c \in Calls, EnterAssign(c)
  PROVE  NodesInv'
<1>0. /\ UNCHANGED <<nodes, jobs_assigned, cluster_started, runPc, runs, request, actual>>
      /\ status[c] = "queued" /\ request[c].op = "assign"
  BY DEF EnterAssign, runVars
<1>b. \A d \in Calls : ~UnderWay(d)
  BY <1>0, Exclusion DEF EnterAssign, UnderWay
<1>1. CASE /\ status' = [status EXCEPT ![c] = "done"]
           /\ result' = [result EXCEPT ![c] = nodes_of(request[c].job)]
           /\ picked' = picked
  <2>1. /\ status'[c] = "done" /\ result'[c] = nodes_of(request[c].job)
        /\ \A d \in Calls : d # c => status'[d] = status[d] /\ result'[d] = result[d]
    BY <1>1 DEF Types
  <2>2. JobsAreKnown' /\ ProbedAreAssigned'
    BY <1>0, <1>1 DEF NodesInv, JobsAreKnown, ProbedAreAssigned, assigned_nodes
  <2>3. \A d \in Calls : ~UnderWay(d)'
    BY <1>b, <2>1 DEF UnderWay
  <2>4. PickedIsFree' /\ PickedIsOfJob' /\ PerformedIsSo'
    BY <2>3 DEF PickedIsFree, PickedIsOfJob, PerformedIsSo, UnderWay
  <2>5. BooksMatchCluster'
    BY <1>0, <1>b DEF NodesInv, BooksMatchCluster, FirstRun
  <2>6. NodesStayInFirstRun'
    BY <1>0, <1>1, <1>b, <2>1 DEF NodesInv, NodesStayInFirstRun, AssignedNodesStay, FirstRun,
       Open, nodes_of
  <2> QED
    BY <2>2, <2>4, <2>5, <2>6 DEF NodesInv
<1>2. CASE status' = [status EXCEPT ![c] = "failed"] /\ UNCHANGED <<picked, result>>
  <2>1. status'[c] = "failed" /\ \A d \in Calls : d # c => status'[d] = status[d]
    BY <1>2 DEF Types
  <2> QED
    BY <1>0, <1>2, <2>1, QuietNodesInv DEF Quiet, Open
<1>3. CASE /\ request[c].job \notin jobs_assigned
           /\ \E S \in SUBSET unassigned_nodes :
                Cardinality(S) = request[c].size /\ picked' = [picked EXCEPT ![c] = S]
           /\ status' = [status EXCEPT ![c] = "working"]
           /\ result' = result
  <2>1. PICK S \in SUBSET unassigned_nodes :
          Cardinality(S) = request[c].size /\ picked' = [picked EXCEPT ![c] = S]
    BY <1>3
  <2>2. /\ status'[c] = "working" /\ picked'[c] = S
        /\ \A d \in Calls : d # c => status'[d] = status[d] /\ picked'[d] = picked[d]
        /\ picked'[HealthCheck] = picked[HealthCheck]
    BY <1>3, <2>1, ConstantsAssumption DEF Types
  <2>3. JobsAreKnown' /\ ProbedAreAssigned'
    BY <1>0, <2>2 DEF NodesInv, JobsAreKnown, ProbedAreAssigned, assigned_nodes
  <2>4. \A d \in Calls : UnderWay(d)' => d = c
    BY <1>b, <2>2 DEF UnderWay
  <2>5. PickedIsFree'
    BY <1>0, <1>3, <2>1, <2>2, <2>4 DEF PickedIsFree, unassigned_nodes
  <2>6. PickedIsOfJob' /\ PerformedIsSo'
    BY <1>0, <2>2, <2>4 DEF PickedIsOfJob, PerformedIsSo, UnderWay
  <2>7. BooksMatchCluster'
    BY <1>0, <1>b DEF NodesInv, BooksMatchCluster, FirstRun
  <2>8. NodesStayInFirstRun'
    BY <1>0, <1>3, <1>b, <2>2 DEF NodesInv, NodesStayInFirstRun, AssignedNodesStay, FirstRun,
       Open
  <2> QED
    BY <2>3, <2>5, <2>6, <2>7, <2>8 DEF NodesInv
<1> QED
  BY <1>1, <1>2, <1>3 DEF EnterAssign

LEMMA FinishAssignNodesInv ==
  ASSUME Types, LockUsers, Mailbox, BeforeStart, NodesInv,
         NEW c \in Calls, FinishAssign(c)
  PROVE  NodesInv'
<1> DEFINE j == request[c].job
<1>1. /\ j \in Jobs /\ j \notin jobs_assigned /\ DOMAIN nodes = Nodes
      /\ picked[c] \subseteq Nodes /\ \A n \in picked[c] : nodes[n] = None
      /\ request[c].op = "assign"
  <2>1. request[c] \in Request /\ UnderWay(c) /\ request[c].op = "assign"
    BY DEF FinishAssign, Mailbox, UnderWay
  <2>2. DOMAIN nodes = Nodes
    BY DEF FinishAssign, Holds, BeforeStart
  <2>3. j \notin jobs_assigned /\ picked[c] \subseteq unassigned_nodes
    BY <2>1 DEF NodesInv, PickedIsFree
  <2> QED
    BY <2>1, <2>2, <2>3 DEF Request, unassigned_nodes
<1>2. /\ nodes' = [n \in Nodes |-> IF n \in picked[c] THEN j ELSE nodes[n]]
      /\ jobs_assigned' = jobs_assigned \cup {j}
      /\ UNCHANGED <<cluster_started, runPc, runs, request, picked, actual>>
  <2>1. DOMAIN nodes \cup picked[c] = Nodes
    BY <1>1
  <2> QED
    BY <2>1 DEF FinishAssign
<1>3. /\ status'[c] = "done" /\ \A d \in Calls : d # c => status'[d] = status[d]
      /\ result'[c] = {n \in Nodes : nodes'[n] = j}
      /\ \A d \in Calls : d # c => result'[d] = result[d]
  <2>1. DOMAIN nodes \cup picked[c] = Nodes
    BY <1>1
  <2> QED
    BY <1>2, <2>1 DEF FinishAssign, Types
<1>4. /\ \A d \in Calls : UnderWay(d) => d = c
      /\ \A d \in Calls : ~UnderWay(d)'
      /\ runPc # "probing"
  BY <1>3, Exclusion, ConstantsAssumption DEF FinishAssign, UnderWay
<1>9. \A n \in picked[c] : actual[n] = j
  BY <1>1 DEF FinishAssign, NodesInv, PerformedIsSo, Target
<1> HIDE DEF j
<1>5. JobsAreKnown'
  BY <1>1, <1>2 DEF NodesInv, JobsAreKnown
<1>6. PickedIsFree' /\ PickedIsOfJob' /\ ProbedAreAssigned' /\ PerformedIsSo'
  BY <1>2, <1>4 DEF PickedIsFree, PickedIsOfJob, ProbedAreAssigned, PerformedIsSo, UnderWay
<1>7. BooksMatchCluster'
  <2>1. \A n \in picked[c] : nodes'[n] = actual[n]
    BY <1>1, <1>2, <1>9
  <2>2. \A n \in Nodes \ picked[c] : nodes'[n] = nodes[n]
    BY <1>2
  <2> QED
    BY <1>2, <1>4, <2>1, <2>2 DEF NodesInv, BooksMatchCluster, FirstRun
<1>8. NodesStayInFirstRun'
  <2> SUFFICES ASSUME FirstRun', Open', NEW e \in Calls,
                      status'[e] = "done", request'[e].op = "assign"
               PROVE  \/ \A n \in result'[e] : nodes'[n] \in {request'[e].job, Bad}
                      \/ \E d \in Calls : /\ UnderWay(d)' \/ status'[d] = "done"
                                          /\ request'[d].op = "delete"
                                          /\ request'[d].job = request'[e].job
    BY DEF NodesStayInFirstRun, AssignedNodesStay
  <2>1. CASE e = c
    BY <1>2, <1>3, <2>1 DEF j
  <2>2. CASE e # c
    <3>1. \/ \A n \in result[e] : nodes[n] \in {request[e].job, Bad}
          \/ \E d \in Calls : /\ (UnderWay(d) \/ status[d] = "done") /\ request[d].op = "delete"
                              /\ request[d].job = request[e].job
      BY <1>2, <1>3, <2>2
      DEF NodesInv, NodesStayInFirstRun, AssignedNodesStay, FirstRun, Open
    <3>2. request[e].job \in Jobs /\ result[e] \subseteq Nodes
      BY <1>2, <1>3, <2>2 DEF Mailbox, Request, Types
    <3>3. CASE \A n \in result[e] : nodes[n] \in {request[e].job, Bad}
      <4>1. \A n \in result[e] : n \notin picked[c]
        BY <1>1, <3>2, <3>3, ConstantsAssumption
      <4> QED
        BY <1>2, <1>3, <2>2, <3>2, <3>3, <4>1
    <3>4. ASSUME NEW d \in Calls, UnderWay(d) \/ status[d] = "done",
                 request[d].op = "delete", request[d].job = request[e].job
          PROVE  UnderWay(d)' \/ status'[d] = "done"
      BY <1>1, <1>3, <3>4 DEF UnderWay
    <3> QED
      BY <1>2, <3>1, <3>3, <3>4
  <2> QED
    BY <2>1, <2>2
<1> QED
  BY <1>5, <1>6, <1>7, <1>8 DEF NodesInv

LEMMA EnterDeleteNodesInv ==
  ASSUME Types, LockUsers, NodesInv, NEW c \in Calls, EnterDelete(c)
  PROVE  NodesInv'
<1>1. /\ UNCHANGED <<nodes, jobs_assigned, cluster_started, runPc, runs, request, result, actual>>
      /\ status[c] = "queued" /\ request[c].op = "delete"
      /\ status'[c] = "working" /\ picked'[c] = nodes_of(request[c].job)
      /\ \A d \in Calls : d # c => status'[d] = status[d] /\ picked'[d] = picked[d]
      /\ picked'[HealthCheck] = picked[HealthCheck]
  <2>1. nodes_of(request[c].job) \in SUBSET Nodes
    BY DEF nodes_of, Types
  <2> QED
    BY <2>1, ConstantsAssumption DEF EnterDelete, runVars, Types
<1>2. JobsAreKnown' /\ ProbedAreAssigned'
  BY <1>1 DEF NodesInv, JobsAreKnown, ProbedAreAssigned, assigned_nodes
<1>3. (\A d \in Calls : ~UnderWay(d)) /\ \A d \in Calls : UnderWay(d)' => d = c
  BY <1>1, Exclusion DEF EnterDelete, UnderWay
<1>4. PickedIsFree' /\ PerformedIsSo'
  BY <1>1, <1>3 DEF PickedIsFree, PerformedIsSo, UnderWay
<1>5. PickedIsOfJob'
  BY <1>1, <1>3 DEF PickedIsOfJob, nodes_of
<1>6. BooksMatchCluster'
  BY <1>1, <1>3 DEF NodesInv, BooksMatchCluster, FirstRun
<1>7. NodesStayInFirstRun'
  BY <1>1, <1>3 DEF NodesInv, NodesStayInFirstRun, AssignedNodesStay, FirstRun, Open
<1> QED
  BY <1>2, <1>4, <1>5, <1>6, <1>7 DEF NodesInv

LEMMA FinishDeleteNodesInv ==
  ASSUME Types, LockUsers, Mailbox, BeforeStart, NodesInv,
         NEW c \in Calls, FinishDelete(c)
  PROVE  NodesInv'
<1> DEFINE j == request[c].job
<1>1. /\ j \in Jobs /\ DOMAIN nodes = Nodes /\ picked[c] \subseteq Nodes
      /\ \A n \in picked[c] : nodes[n] \in {j, None}
      /\ request[c].op = "delete"
  <2>1. request[c] \in Request /\ UnderWay(c) /\ request[c].op = "delete"
    BY DEF FinishDelete, Mailbox, UnderWay
  <2>2. DOMAIN nodes = Nodes
    BY DEF FinishDelete, Holds, BeforeStart
  <2> QED
    BY <2>1, <2>2 DEF NodesInv, PickedIsOfJob, Request
<1>2. /\ nodes' = [n \in Nodes |-> IF n \in picked[c] THEN None ELSE nodes[n]]
      /\ UNCHANGED <<jobs_assigned, cluster_started, runPc, runs, request, picked, result,
                     actual>>
  <2>1. DOMAIN nodes \cup picked[c] = Nodes
    BY <1>1
  <2> QED
    BY <2>1 DEF FinishDelete
<1>3. status'[c] = "done" /\ \A d \in Calls : d # c => status'[d] = status[d]
  BY DEF FinishDelete, Types
<1>4. /\ \A d \in Calls : UnderWay(d) => d = c
      /\ \A d \in Calls : ~UnderWay(d)'
      /\ runPc # "probing"
  BY <1>3, Exclusion, ConstantsAssumption DEF FinishDelete, UnderWay
<1>9. \A n \in picked[c] : actual[n] = None
  BY <1>1 DEF FinishDelete, NodesInv, PerformedIsSo, Target
<1> HIDE DEF j
<1>5. JobsAreKnown'
  BY <1>1, <1>2, ConstantsAssumption DEF NodesInv, JobsAreKnown
<1>6. PickedIsFree' /\ PickedIsOfJob' /\ ProbedAreAssigned' /\ PerformedIsSo'
  BY <1>2, <1>4 DEF PickedIsFree, PickedIsOfJob, ProbedAreAssigned, PerformedIsSo, UnderWay
<1>7. BooksMatchCluster'
  <2>1. \A n \in picked[c] : nodes'[n] = actual[n]
    BY <1>1, <1>2, <1>9
  <2>2. \A n \in Nodes \ picked[c] : nodes'[n] = nodes[n]
    BY <1>2
  <2> QED
    BY <1>2, <1>4, <2>1, <2>2 DEF NodesInv, BooksMatchCluster, FirstRun
<1>8. NodesStayInFirstRun'
  <2> SUFFICES ASSUME FirstRun', Open', NEW e \in Calls,
                      status'[e] = "done", request'[e].op = "assign"
               PROVE  \/ \A n \in result'[e] : nodes'[n] \in {request'[e].job, Bad}
                      \/ \E d \in Calls : /\ UnderWay(d)' \/ status'[d] = "done"
                                          /\ request'[d].op = "delete"
                                          /\ request'[d].job = request'[e].job
    BY DEF NodesStayInFirstRun, AssignedNodesStay
  <2>1. /\ e # c /\ status[e] = "done" /\ FirstRun /\ Open
        /\ request[e].job \in Jobs /\ result[e] \subseteq Nodes
    BY <1>1, <1>2, <1>3 DEF Mailbox, Request, Types, FirstRun, Open
  <2>2. \/ \A n \in result[e] : nodes[n] \in {request[e].job, Bad}
        \/ \E d \in Calls : /\ (UnderWay(d) \/ status[d] = "done") /\ request[d].op = "delete"
                            /\ request[d].job = request[e].job
    BY <1>2, <2>1 DEF NodesInv, NodesStayInFirstRun, AssignedNodesStay
  <2>3. CASE request[e].job = j
    BY <1>1, <1>2, <1>3, <2>3 DEF j
  <2>4. CASE request[e].job # j /\ \A n \in result[e] : nodes[n] \in {request[e].job, Bad}
    <3>1. \A n \in result[e] : n \notin picked[c]
      BY <1>1, <2>1, <2>4, ConstantsAssumption
    <3> QED
      BY <1>2, <2>1, <2>4, <3>1
  <2>5. ASSUME NEW d \in Calls, UnderWay(d) \/ status[d] = "done",
               request[d].op = "delete", request[d].job = request[e].job
        PROVE  UnderWay(d)' \/ status'[d] = "done"
    BY <1>3, <2>5 DEF UnderWay
  <2> QED
    BY <1>2, <2>2, <2>3, <2>4, <2>5
<1> QED
  BY <1>5, <1>6, <1>7, <1>8 DEF NodesInv

LEMMA AttemptNodesInv ==
  ASSUME Types, LockUsers, NodesInv, NEW c \in Calls, Attempt(c)
  PROVE  NodesInv'
<1>1. PICK reached \in SUBSET picked[c] :
        /\ actual' = [n \in Nodes |-> IF n \in reached THEN Target(c) ELSE actual[n]]
        /\ \/ reached = picked[c] /\ status' = [status EXCEPT ![c] = "performed"]
           \/ UNCHANGED status
  BY DEF Attempt
<1>2. /\ UNCHANGED <<nodes, jobs_assigned, cluster_started, runPc, runs, request, result,
                     picked>>
      /\ status[c] = "working"
      /\ picked[c] \subseteq Nodes
  BY DEF Attempt, runVars, Types
<1>3. /\ \A d \in Calls : UnderWay(d) => d = c
      /\ \A d \in Calls : UnderWay(d)' <=> UnderWay(d)
      /\ \A d \in Calls : (status[d] = "done") <=> (status'[d] = "done")
  BY <1>1, <1>2, Exclusion DEF LockUsers, UnderWay, Types
<1>4. JobsAreKnown' /\ ProbedAreAssigned'
  BY <1>2 DEF NodesInv, JobsAreKnown, ProbedAreAssigned, assigned_nodes
<1>5. PickedIsFree' /\ PickedIsOfJob'
  BY <1>2, <1>3 DEF NodesInv, PickedIsFree, PickedIsOfJob, unassigned_nodes, nodes_of
<1>6. \A d \in Calls : Target(d)' = Target(d)
  BY <1>2 DEF Target
<1>7. PerformedIsSo'
  <2>1. \A d \in Calls : status'[d] = "performed" => d = c /\ reached = picked[c]
    BY <1>1, <1>2, <1>3 DEF UnderWay, Types
  <2> QED
    BY <1>1, <1>2, <1>6, <2>1 DEF PerformedIsSo
<1>8. BooksMatchCluster'
  <2> SUFFICES ASSUME FirstRun, cluster_started, NEW n \in Nodes, nodes[n] # Bad
               PROVE  \/ nodes[n] = actual'[n]
                      \/ \E d \in Calls : UnderWay(d) /\ n \in picked[d] /\ actual'[n] = Target(d)
    BY <1>2, <1>3, <1>6 DEF BooksMatchCluster, FirstRun
  <2>1. CASE n \in reached
    BY <1>1, <1>2, <2>1 DEF UnderWay
  <2>2. CASE n \notin reached
    BY <1>1, <2>2 DEF NodesInv, BooksMatchCluster
  <2> QED
    BY <2>1, <2>2
<1>9. NodesStayInFirstRun'
  BY <1>2, <1>3 DEF NodesInv, NodesStayInFirstRun, AssignedNodesStay, FirstRun, Open
<1> QED
  BY <1>4, <1>5, <1>7, <1>8, <1>9 DEF NodesInv

LEMMA StartClusterNodesInv ==
  ASSUME Types, Mailbox, BeforeStart, NodesInv, StartCluster
  PROVE  NodesInv'
<1>1. /\ nodes' = [n \in Nodes |-> None] /\ runPc = "starting" /\ runPc' = "checking"
      /\ UNCHANGED <<jobs_assigned, picked, runs, request, status, result, actual>>
  BY DEF StartCluster, callVars
<1>2. JobsAreKnown' /\ ProbedAreAssigned'
  BY <1>1, ConstantsAssumption DEF JobsAreKnown, ProbedAreAssigned
<1>3. \A c \in Calls : picked[c] \subseteq Nodes
  BY DEF Types
<1>4. PickedIsFree' /\ PerformedIsSo'
  BY <1>1, <1>3 DEF NodesInv, PickedIsFree, PerformedIsSo, Target, unassigned_nodes, UnderWay
<1>5. PickedIsOfJob'
  <2> SUFFICES ASSUME NEW c \in Calls, UnderWay(c), request[c].op = "delete"
               PROVE  /\ nodes_of(request[c].job)' \subseteq picked'[c]
                      /\ picked'[c] \subseteq DOMAIN nodes'
                      /\ \A n \in picked'[c] : nodes'[n] \in {request'[c].job, None}
    BY <1>1 DEF PickedIsOfJob, UnderWay
  <2>1. request[c].job # None
    BY ConstantsAssumption DEF Mailbox, Request, UnderWay
  <2> QED
    BY <1>1, <1>3, <2>1 DEF nodes_of
<1>6. FirstRun => \A n \in Nodes : actual[n] = None
  BY <1>1 DEF BeforeStart, FirstRun
<1>7. BooksMatchCluster'
  BY <1>1, <1>6 DEF BooksMatchCluster, FirstRun
<1>8. FirstRun => \A c \in Calls : status[c] # "done"
  BY <1>1 DEF BeforeStart, FirstRun
<1>9. NodesStayInFirstRun'
  BY <1>1, <1>8 DEF NodesStayInFirstRun, AssignedNodesStay, FirstRun
<1> QED
  BY <1>2, <1>4, <1>5, <1>7, <1>9 DEF NodesInv

LEMMA EnterHealthCheckNodesInv ==
  ASSUME Types, NodesInv, EnterHealthCheck
  PROVE  NodesInv'
<1>1. /\ UNCHANGED <<nodes, jobs_assigned, cluster_started, runs, request, status, result, actual>>
      /\ picked'[HealthCheck] = assigned_nodes
      /\ \A c \in Calls : picked'[c] = picked[c]
      /\ Open
  BY ConstantsAssumption DEF EnterHealthCheck, runVars, callVars, Types, Open
<1>2. JobsAreKnown' /\ ProbedAreAssigned'
  BY <1>1 DEF NodesInv, JobsAreKnown, ProbedAreAssigned, assigned_nodes
<1>3. PickedIsFree' /\ PickedIsOfJob'
  BY <1>1 DEF NodesInv, PickedIsFree, PickedIsOfJob, unassigned_nodes, nodes_of, UnderWay
<1>4. PerformedIsSo' /\ BooksMatchCluster'
  BY <1>1 DEF NodesInv, PerformedIsSo, BooksMatchCluster, FirstRun, UnderWay, Target
<1>5. NodesStayInFirstRun'
  BY <1>1 DEF NodesInv, NodesStayInFirstRun, AssignedNodesStay, FirstRun, UnderWay
<1> QED
  BY <1>2, <1>3, <1>4, <1>5 DEF NodesInv

LEMMA FinishHealthCheckNodesInv ==
  ASSUME Types, LockUsers, BeforeStart, NodesInv, FinishHealthCheck
  PROVE  NodesInv'
<1>1. DOMAIN nodes = Nodes /\ picked[HealthCheck] \subseteq assigned_nodes
  BY DEF FinishHealthCheck, BeforeStart, NodesInv, ProbedAreAssigned
<1>2. PICK found \in SUBSET assigned_nodes :
        nodes' = [n \in Nodes |-> IF n \in found THEN Bad ELSE nodes[n]]
  <2>1. PICK found \in SUBSET picked[HealthCheck] :
          nodes' = [n \in DOMAIN nodes \cup found |-> IF n \in found THEN Bad ELSE nodes[n]]
    BY DEF FinishHealthCheck
  <2>2. DOMAIN nodes \cup found = Nodes /\ found \in SUBSET assigned_nodes
    BY <1>1, <2>1 DEF assigned_nodes
  <2> QED
    BY <2>1, <2>2
<1>3. /\ UNCHANGED <<jobs_assigned, cluster_started, runs, request, status, result, actual, picked>>
      /\ runPc' = "sleeping" /\ Open
  BY DEF FinishHealthCheck, callVars, Open
<1>4. \A d \in Calls : ~UnderWay(d)
  BY Exclusion, ConstantsAssumption DEF FinishHealthCheck, LockUsers
<1>5. JobsAreKnown'
  BY <1>1, <1>2, <1>3, ConstantsAssumption DEF NodesInv, JobsAreKnown
<1>6. PickedIsFree' /\ PickedIsOfJob' /\ ProbedAreAssigned' /\ PerformedIsSo'
  BY <1>3, <1>4 DEF PickedIsFree, PickedIsOfJob, ProbedAreAssigned, PerformedIsSo, UnderWay
<1>7. BooksMatchCluster'
  BY <1>2, <1>3, <1>4 DEF NodesInv, BooksMatchCluster, FirstRun
<1>8. NodesStayInFirstRun'
  <2>1. \A c \in Calls : result[c] \subseteq Nodes
    BY DEF Types
  <2>2. \A n \in Nodes : nodes'[n] = nodes[n] \/ nodes'[n] = Bad
    BY <1>2
  <2> QED
    BY <1>3, <2>1, <2>2 DEF NodesInv, NodesStayInFirstRun, AssignedNodesStay, FirstRun,
       UnderWay
<1> QED
  BY <1>5, <1>6, <1>7, <1>8 DEF NodesInv

LEMMA StepNodesInv ==
  ASSUME Types, LockUsers, Mailbox, BeforeStart, NodesInv, [Next]_vars
  PROVE  NodesInv'
<1>1. ASSUME NEW c \in Calls, SendCall(c) PROVE NodesInv'
  <2>1. /\ status[c] = "unsent" /\ status'[c] = "sent"
        /\ \A d \in Calls : d # c => status'[d] = status[d] /\ request'[d] = request[d]
    BY <1>1 DEF SendCall, Types
  <2> QED
    BY <1>1, <2>1, QuietNodesInv DEF SendCall, Quiet, runVars, Open
<1>2. ASSUME NEW c \in Calls, HandlerStep(c) PROVE NodesInv'
  BY <1>2, EnterAssignNodesInv, FinishAssignNodesInv, EnterDeleteNodesInv,
     FinishDeleteNodesInv, AttemptNodesInv DEF HandlerStep
<1>3. CASE HandleCall
  <2>1. /\ Head(inbox) \in Calls /\ status[Head(inbox)] = "sent"
        /\ \E s \in {"failed", "queued"} : status' = [status EXCEPT ![Head(inbox)] = s]
    BY <1>3 DEF HandleCall, Mailbox, Types
  <2>2. /\ status'[Head(inbox)] \in {"failed", "queued"}
        /\ \A d \in Calls : d # Head(inbox) => status'[d] = status[d]
    BY <2>1 DEF Types
  <2> QED
    BY <1>3, <2>1, <2>2, QuietNodesInv DEF HandleCall, Quiet, runVars, Open
<1>4. CASE SendShutdown \/ HandleShutdown \/ UNCHANGED vars
  BY <1>4, QuietNodesInv DEF SendShutdown, HandleShutdown, vars, Quiet, runVars, callVars, Open
<1>5. CASE StartClusterFails \/ NextHealthCheck \/ LeaveLoop \/ Complete
  BY <1>5, QuietNodesInv DEF StartClusterFails, NextHealthCheck, LeaveLoop, Complete,
     Quiet, runVars, callVars, Open
<1>6. CASE ContinueAsNew
  <2>1. ~FirstRun'
    BY <1>6 DEF ContinueAsNew, FirstRun, BeforeStart, Types
  <2> QED
    BY <1>6, <2>1, QuietNodesInv DEF ContinueAsNew, Quiet, runVars, callVars, Open
<1>7. CASE StartCluster \/ EnterHealthCheck \/ FinishHealthCheck
  BY <1>7, StartClusterNodesInv, EnterHealthCheckNodesInv, FinishHealthCheckNodesInv
<1> QED
  BY <1>1, <1>2, <1>3, <1>4, <1>5, <1>6, <1>7 DEF Next, RunStep

-----------------------------------------------------------------------------
(* The invariant *)

LEMMA InitIInv == Init => IInv
<1> SUFFICES ASSUME Init PROVE IInv
  OBVIOUS
<1>1. DOMAIN nodes = {} /\ DOMAIN lockQueue = {} /\ DOMAIN inbox = {}
  BY DEF Init
<1> QED
  BY <1>1, ConstantsAssumption
  DEF Init, IInv, LockUsers, Mailbox, BeforeStart, NodesInv, JobsAreKnown, PickedIsFree,
      PickedIsOfJob, ProbedAreAssigned, PerformedIsSo, BooksMatchCluster,
      NodesStayInFirstRun, AssignedNodesStay, FirstRun, UnderWay, In, Once

LEMMA Invariance == Spec => [](Types /\ IInv)
<1>1. Init => Types /\ IInv
  BY InitTypes, InitIInv
<1>2. Types /\ IInv /\ [Next]_vars => Types' /\ IInv'
  BY StepTypes, StepLockUsers, StepMailbox, StepBeforeStart, StepNodesInv DEF IInv, NodesInv
<1> QED
  BY <1>1, <1>2, PTL DEF Spec

-----------------------------------------------------------------------------
(* What it says of the sample *)

\* Every variable has its type, and nobody is in the queue of nodes_lock twice.
THEOREM TypeCorrect == Spec => []TypeOK
<1>1. Types /\ IInv => TypeOK
  BY DEF IInv, LockUsers, Once, TypeOK
<1> QED
  BY <1>1, Invariance, PTL

\* In the first run the books agree with the cluster, but for the nodes that the
\* one activity under way has reached: of those the cluster is ahead, by what the
\* handler waiting for it will write.
THEOREM BooksAreRight == Spec => []BooksMatchCluster
<1>1. IInv => BooksMatchCluster
  BY DEF IInv, NodesInv
<1> QED
  BY <1>1, Invariance, PTL

\* The nodes an assignment has picked are free in the cluster until its own
\* activity gets to them, and its job's from then on, however many updates and health checks interleave.
THEOREM NoNodeWorksTwice == Spec => []NoDoubleAssignment
<1>1. Types /\ IInv => NoDoubleAssignment
  <2> SUFFICES ASSUME Types, IInv, NEW c \in Calls, FirstRun,
                      UnderWay(c), request[c].op = "assign", NEW n \in picked[c]
               PROVE  actual[n] \in {None, request[c].job}
    BY DEF NoDoubleAssignment
  <2>1. n \in DOMAIN nodes /\ nodes[n] = None
    BY DEF IInv, NodesInv, PickedIsFree, unassigned_nodes
  <2>2. cluster_started /\ DOMAIN nodes = Nodes
    BY DEF IInv, BeforeStart, UnderWay
  <2>3. \A d \in Calls : UnderWay(d) => d = c
    BY Exclusion DEF IInv, LockUsers
  <2>4. Target(c) = request[c].job
    BY DEF Target
  <2> QED
    BY <2>1, <2>2, <2>3, <2>4, ConstantsAssumption DEF IInv, NodesInv, BooksMatchCluster
<1> QED
  BY <1>1, Invariance, PTL

\* As long as the workflow is in its first run, the nodes a call was granted
\* stay with its job, but for those found bad, until somebody deletes the job.
THEOREM NodesStay == Spec => []NodesStayInFirstRun
<1>1. IInv => NodesStayInFirstRun
  BY DEF IInv, NodesInv
<1> QED
  BY <1>1, Invariance, PTL

LEMMA DoneIsExact ==
  ASSUME Types, IInv, [Next]_vars, NEW c \in Calls,
         status[c] = "performed", status'[c] = "done", request[c].op = "assign"
  PROVE  Cardinality(result'[c]) = request[c].size
<1>1. FinishAssign(c)
  <2>1. ASSUME NEW d \in Calls, d # c, SendCall(d) \/ HandlerStep(d) PROVE status'[c] = status[c]
    BY <2>1 DEF SendCall, HandlerStep, EnterAssign, FinishAssign, EnterDelete, FinishDelete,
         Attempt, Types
  <2>2. ASSUME HandleCall PROVE status'[c] # "done"
    BY <2>2 DEF HandleCall, Types
  <2>3. CASE RunStep \/ SendShutdown \/ HandleShutdown \/ UNCHANGED vars
    BY <2>3 DEF RunStep, StartCluster, StartClusterFails, EnterHealthCheck, FinishHealthCheck,
         NextHealthCheck, LeaveLoop, ContinueAsNew, Complete, SendShutdown, HandleShutdown,
         vars, callVars
  <2> QED
    BY <2>1, <2>2, <2>3
    DEF Next, SendCall, HandlerStep, EnterAssign, EnterDelete, FinishDelete, Attempt
<1> DEFINE j == request[c].job
<1>2. /\ j \in Jobs /\ j \notin jobs_assigned /\ DOMAIN nodes = Nodes
      /\ picked[c] \subseteq Nodes /\ Cardinality(picked[c]) = request[c].size
  BY <1>1 DEF FinishAssign, Holds, IInv, Mailbox, Request, BeforeStart, NodesInv, PickedIsFree,
     unassigned_nodes, UnderWay
<1>3. \A n \in Nodes : nodes[n] # j
  BY <1>2 DEF IInv, NodesInv, JobsAreKnown
<1>4. DOMAIN nodes \cup picked[c] = Nodes
  BY <1>2
<1>5. result'[c] = {n \in Nodes : (IF n \in picked[c] THEN j ELSE nodes[n]) = j}
  BY <1>1, <1>4 DEF FinishAssign, Types
<1>6. result'[c] = picked[c]
  BY <1>2, <1>3, <1>5
<1> QED
  BY <1>2, <1>6

\* The first success for a job has exactly the number of nodes asked for.
THEOREM AssignmentIsExact == Spec => FirstAssignmentIsExact
<1> DEFINE Exact == \A c \in Calls :
       status[c] = "performed" /\ status'[c] = "done" /\ request[c].op = "assign"
       => Cardinality(result'[c]) = request[c].size
<1>1. Types /\ IInv /\ [Next]_vars => [Exact]_vars
  BY DoneIsExact
<1> HIDE DEF Exact
<1>2. Spec => [][Exact]_vars
  BY <1>1, Invariance, PTL DEF Spec
<1> QED
  BY <1>2 DEF Exact, FirstAssignmentIsExact

-----------------------------------------------------------------------------
(* The cluster manager is atomic. *)

LEMMA AtomicInit == Init => Atomic!Init
BY DEF Init, Atomic!Init

LEMMA FinishAssignIsAtomic ==
  ASSUME Types, IInv, NEW c \in Calls, FinishAssign(c)
  PROVE  Atomic!Next
<1> DEFINE j == request[c].job
<1>1. /\ j \in Jobs /\ j \notin jobs_assigned /\ DOMAIN nodes = Nodes
      /\ picked[c] \in SUBSET Nodes /\ \A n \in picked[c] : n \in DOMAIN nodes /\ nodes[n] = None
  BY DEF FinishAssign, Holds, IInv, Mailbox, Request, BeforeStart, NodesInv, PickedIsFree,
     unassigned_nodes, UnderWay
<1>2. DOMAIN nodes \cup picked[c] = DOMAIN nodes
  BY <1>1
<1>3. Atomic!Assign(j, picked[c])
  BY <1>1, <1>2 DEF FinishAssign, Atomic!Assign
<1> QED
  BY <1>1, <1>3 DEF Atomic!Next

LEMMA FinishDeleteIsAtomic ==
  ASSUME Types, IInv, NEW c \in Calls, FinishDelete(c)
  PROVE  Atomic!Next
<1> DEFINE j == request[c].job
<1>1. /\ j \in Jobs /\ j # None
      /\ nodes_of(j) \subseteq picked[c] /\ picked[c] \subseteq DOMAIN nodes
      /\ \A n \in picked[c] : nodes[n] \in {j, None}
  BY ConstantsAssumption
  DEF FinishDelete, IInv, Mailbox, Request, NodesInv, PickedIsOfJob, UnderWay
<1>2. nodes' = [n \in DOMAIN nodes |-> IF n \in picked[c] THEN None ELSE nodes[n]]
  <2>1. DOMAIN nodes \cup picked[c] = DOMAIN nodes
    BY <1>1
  <2> QED
    BY <2>1 DEF FinishDelete
<1> HIDE DEF j
<1>3. \A n \in DOMAIN nodes : (IF n \in picked[c] THEN None ELSE nodes[n])
                                = (IF nodes[n] = j THEN None ELSE nodes[n])
  BY <1>1 DEF nodes_of
<1>4. nodes' = [n \in DOMAIN nodes |-> IF nodes[n] = j THEN None ELSE nodes[n]]
  BY <1>2, <1>3
<1>5. Atomic!Delete(j)
  BY <1>4 DEF FinishDelete, Atomic!Delete
<1> QED
  BY <1>1, <1>5 DEF Atomic!Next

LEMMA FinishHealthCheckIsAtomic ==
  ASSUME Types, IInv, FinishHealthCheck
  PROVE  Atomic!Next
<1>1. picked[HealthCheck] \subseteq assigned_nodes
  BY DEF FinishHealthCheck, IInv, NodesInv, ProbedAreAssigned
<1>2. PICK found \in SUBSET picked[HealthCheck] :
        nodes' = [n \in DOMAIN nodes \cup found |-> IF n \in found THEN Bad ELSE nodes[n]]
  BY DEF FinishHealthCheck
<1>3. /\ DOMAIN nodes \cup found = DOMAIN nodes /\ found \in SUBSET Nodes
      /\ \A n \in found : n \in DOMAIN nodes /\ nodes[n] \in Jobs
  BY <1>1, <1>2 DEF assigned_nodes, Types
<1>4. Atomic!MarkBad(found)
  BY <1>2, <1>3 DEF FinishHealthCheck, Atomic!MarkBad
<1> QED
  BY <1>3, <1>4 DEF Atomic!Next

LEMMA AtomicStep ==
  ASSUME Types, IInv, [Next]_vars
  PROVE  [Atomic!Next]_<<nodes, jobs_assigned>>
<1>1. CASE StartCluster
  BY <1>1 DEF StartCluster, Atomic!Next, Atomic!Start
<1>2. ASSUME NEW c \in Calls, HandlerStep(c) PROVE [Atomic!Next]_<<nodes, jobs_assigned>>
  BY <1>2, FinishAssignIsAtomic, FinishDeleteIsAtomic
  DEF HandlerStep, EnterAssign, EnterDelete, Attempt, runVars
<1>3. CASE FinishHealthCheck
  BY <1>3, FinishHealthCheckIsAtomic
<1>4. ASSUME NEW c \in Calls, SendCall(c) PROVE [Atomic!Next]_<<nodes, jobs_assigned>>
  BY <1>4 DEF SendCall, runVars
<1>5. CASE \/ SendShutdown \/ HandleCall \/ HandleShutdown \/ UNCHANGED vars
           \/ StartClusterFails \/ EnterHealthCheck \/ NextHealthCheck \/ LeaveLoop
           \/ ContinueAsNew \/ Complete
  BY <1>5 DEF SendShutdown, HandleCall, HandleShutdown, vars, StartClusterFails,
     EnterHealthCheck, NextHealthCheck, LeaveLoop, ContinueAsNew, Complete, runVars
<1> QED
  BY <1>1, <1>2, <1>3, <1>4, <1>5 DEF Next, RunStep

\* Every behaviour of the workflow is one in which assigning, deleting and
\* marking bad each happen at once: nothing that interleaves with the activity
\* of an update can tell.
THEOREM ManagerIsAtomic == Spec => ImplementsAtomic
<1>1. Init => Atomic!Init
  BY AtomicInit
<1>2. Types /\ IInv /\ [Next]_vars => [Atomic!Next]_<<nodes, jobs_assigned>>
  BY AtomicStep
<1>3. Spec => Atomic!Init /\ [][Atomic!Next]_<<nodes, jobs_assigned>>
  BY <1>1, <1>2, Invariance, PTL DEF Spec
<1> QED
  BY <1>3, PTL DEF ImplementsAtomic, Atomic!Spec, Atomic!vars
=============================================================================
