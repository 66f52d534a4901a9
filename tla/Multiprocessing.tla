--------------------------- MODULE Multiprocessing ---------------------------
(***************************************************************************)
(* worker_multiprocessing: main runs workers for workflows and workers for *)
(* activities in the processes of one pool, and watches them.              *)
(*                                                                         *)
(* External: a process that dies breaks the pool, which terminates all the *)
(* others; a worker that raises only ends its own future.  A workflow task *)
(* goes to the worker that has the workflow in its cache, and when that is *)
(* gone to another, which runs the code from the beginning; an activity    *)
(* whose process is gone is tried again.                                   *)
(***************************************************************************)
EXTENDS Integers, FiniteSets

CONSTANTS WorkflowWorkers, ActivityWorkers, Workflows, None

VARIABLES
  process,               \* of each worker: "up", "stopping", "exited"
  main,                  \* "watching", "interrupted", "ended"
  broken,                \* the pool
  pc, pid, told, result  \* for each workflow: where it is, its variable pid,
                         \* wf-starting-pid in its activity's input, its result

vars == <<process, main, broken, pc, pid, told, result>>

Workers == WorkflowWorkers \cup ActivityWorkers
Up(ps) == {p \in ps : process[p] = "up"}

Init ==
  /\ process = [p \in Workers |-> "up"] /\ main = "watching" /\ broken = FALSE
  /\ pc = [w \in Workflows |-> "start"] /\ pid = [w \in Workflows |-> None]
  /\ told = [w \in Workflows |-> None] /\ result = [w \in Workflows |-> None]

-----------------------------------------------------------------------------
(* ParallelizedWorkflow. *)

\* The first task, on any worker.
BeginRun(w) ==
  /\ pc[w] = "start"
  /\ \E p \in Up(WorkflowWorkers) : pid' = [pid EXCEPT ![w] = p] /\ told' = [told EXCEPT ![w] = p]
  /\ pc' = [pc EXCEPT ![w] = "activity"]
  /\ UNCHANGED <<process, main, broken, result>>

echo_pid_activity(w) ==
  /\ pc[w] = "activity" /\ Up(ActivityWorkers) # {} /\ pc' = [pc EXCEPT ![w] = "answered"]
  /\ UNCHANGED <<process, main, broken, pid, told, result>>

\* In the cache, or run from the beginning: then os.getpid() is called anew,
\* and the activity's answer is taken from the history.
EndRun(w) ==
  /\ pc[w] = "answered"
  /\ \E p \in Up(WorkflowWorkers) :
       /\ p = pid[w] \/ process[pid[w]] # "up"
       /\ pid' = [pid EXCEPT ![w] = p]
       /\ result' = [result EXCEPT ![w] = [starting |-> told[w], ending |-> p]]
  /\ pc' = [pc EXCEPT ![w] = "done"]
  /\ UNCHANGED <<process, main, broken, told>>

-----------------------------------------------------------------------------
(* The processes, and main. *)

\* worker.run() raises: the future has the exception, which main prints.
WorkerFails(p) ==
  /\ process[p] = "up" /\ process' = [process EXCEPT ![p] = "exited"]
  /\ UNCHANGED <<main, broken, pc, pid, told, result>>

ProcessDies(p) ==
  /\ process[p] # "exited" /\ broken' = TRUE
  /\ process' = [q \in Workers |-> "exited"]
  /\ UNCHANGED <<main, pc, pid, told, result>>

\* ctrl+c reaches main and every worker.
Interrupt ==
  /\ main = "watching" /\ main' = "interrupted"
  /\ process' = [p \in Workers |-> IF process[p] = "up" THEN "stopping" ELSE process[p]]
  /\ UNCHANGED <<broken, pc, pid, told, result>>

\* The shielded worker.run() is ended by worker.shutdown().
EndWorker(p) ==
  /\ process[p] = "stopping" /\ process' = [process EXCEPT ![p] = "exited"]
  /\ UNCHANGED <<main, broken, pc, pid, told, result>>

\* Variant: main ends with the first of its futures.
FirstOver == \E p \in Workers : process[p] = "exited"
AllOver == \A p \in Workers : process[p] = "exited"

\* as_completed has yielded every future, or the pool's exit waits for them.
EndMain ==
  /\ main # "ended" /\ AllOver /\ main' = "ended"
  /\ UNCHANGED <<process, broken, pc, pid, told, result>>

WorkflowStep(w) == BeginRun(w) \/ echo_pid_activity(w) \/ EndRun(w)
Progress == \/ \E w \in Workflows : WorkflowStep(w)
            \/ \E p \in Workers : EndWorker(p)
            \/ EndMain

Next == Progress \/ Interrupt \/ \E p \in Workers : WorkerFails(p) \/ ProcessDies(p)

Fairness == WF_vars(Progress)
Spec == Init /\ [][Next]_vars /\ Fairness

-----------------------------------------------------------------------------
TypeOK ==
  /\ process \in [Workers -> {"up", "stopping", "exited"}]
  /\ main \in {"watching", "interrupted", "ended"} /\ broken \in BOOLEAN
  /\ pc \in [Workflows -> {"start", "activity", "answered", "done"}]
  /\ pid \in [Workflows -> WorkflowWorkers \cup {None}]

\* main ends last: no worker is left polling behind it, and a broken pool has
\* none.  A workflow ends in the process it began in unless that is gone, so
\* what it read there (its pid) may not be what it reads at the end.
MainEndsLast ==
  /\ main = "ended" \/ broken => \A p \in Workers : process[p] = "exited"
  /\ \A w \in Workflows : pc[w] = "done" =>
       \/ result[w].starting = result[w].ending
       \/ process[result[w].starting] # "up"

\* With a worker of either kind up for good, every workflow ends.
WorkflowsEnd ==
  <>(\/ \A w \in Workflows : pc[w] = "done"
     \/ Up(WorkflowWorkers) = {} \/ Up(ActivityWorkers) = {})
=============================================================================
