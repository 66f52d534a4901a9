------------------------------ MODULE Executors ------------------------------
(***************************************************************************)
(* gevent_async and trio_async: one event loop that polls, awaits and      *)
(* resumes, and a pool of threads for workflow tasks and synchronous       *)
(* activities.  A workflow calls an asynchronous activity, which runs on   *)
(* the loop, and then a synchronous one; in trio_async that one has the    *)
(* loop run a function of its own while its thread waits.                  *)
(*                                                                         *)
(* External: the worker takes no more tasks than its slots; a call that is *)
(* given up (a workflow task that takes too long) or fails is made again.  *)
(* Cancelling the future does not stop the call (GeventExecutor.submit).   *)
(***************************************************************************)
EXTENDS Integers, Sequences, FiniteSets

CONSTANTS
  Workflows,
  max_concurrent_workflow_tasks, max_concurrent_activities,
  MaxFaults              \* bound: calls given up or failed

\* Variant: a pool with room for the activities only.
max_workersForActivities == max_concurrent_activities
max_workers == max_concurrent_workflow_tasks + max_concurrent_activities

\* What a run asks the worker for: a task before and after each activity.
run == <<"task", "async", "task", "sync", "task">>

VARIABLES
  lib,                   \* "gevent" or "trio"
  loop,                  \* of the event loop: "up", "stopping", "down"
  step, call,            \* for each workflow: the part of run, what its call is at
  queue,                 \* submitted wrappers no thread has taken
  orphans,               \* threads that run a call whose future is cancelled
  faults

vars == <<lib, loop, step, call, queue, orphans, faults>>

Init ==
  /\ lib \in {"gevent", "trio"} /\ loop = "up"
  /\ step = [w \in Workflows |-> 1] /\ call = [w \in Workflows |-> "idle"]
  /\ queue = <<>> /\ orphans = 0 /\ faults = 0

Becomes(w, s) == call' = [call EXCEPT ![w] = s]
Kind(w) == run[step[w]]
Calling == {w \in Workflows : call[w] # "idle"}
Tasks == {w \in Calling : Kind(w) = "task"}
Threads == Cardinality({w \in Workflows : call[w] \in {"running", "asking"}}) + orphans

Poll(w) ==
  /\ loop = "up" /\ step[w] <= Len(run) /\ call[w] = "idle"
  /\ IF Kind(w) = "task" THEN Cardinality(Tasks) < max_concurrent_workflow_tasks
     ELSE Cardinality(Calling \ Tasks) < max_concurrent_activities
  /\ IF Kind(w) = "async" THEN Becomes(w, "resolved") /\ UNCHANGED queue
     ELSE Becomes(w, "submitted") /\ queue' = Append(queue, [of |-> w, live |-> TRUE])
  /\ UNCHANGED <<lib, loop, step, orphans, faults>>

\* A thread takes the wrapper, whether or not its future is still awaited.
TakeWrapper ==
  /\ queue # <<>> /\ Threads < max_workers /\ queue' = Tail(queue)
  /\ IF Head(queue).live THEN Becomes(Head(queue).of, "running") /\ UNCHANGED orphans
     ELSE orphans' = orphans + 1 /\ UNCHANGED call
  /\ UNCHANGED <<lib, loop, step, faults>>

\* set_result; trio.from_thread.run first asks the loop and waits for it.
wrapper(w) ==
  /\ call[w] = "running"
  /\ Becomes(w, IF lib = "trio" /\ Kind(w) = "sync" THEN "asking" ELSE "resolved")
  /\ UNCHANGED <<lib, loop, step, queue, orphans, faults>>

RunFromThread(w) ==
  /\ call[w] = "asking" /\ loop # "down" /\ Becomes(w, "resolved")
  /\ UNCHANGED <<lib, loop, step, queue, orphans, faults>>

\* set_exception.
Raise(w) ==
  /\ call[w] = "running" /\ faults < MaxFaults /\ faults' = faults + 1
  /\ Becomes(w, "raised") /\ UNCHANGED <<lib, loop, step, queue, orphans>>

\* The future can be cancelled, as it is never set running.
Cancel(w) ==
  /\ lib = "gevent" /\ faults < MaxFaults /\ faults' = faults + 1 /\ Becomes(w, "idle")
  /\ \/ /\ call[w] = "submitted"
        /\ queue' = [i \in DOMAIN queue |->
                       IF queue[i].of = w THEN [queue[i] EXCEPT !.live = FALSE] ELSE queue[i]]
        /\ UNCHANGED orphans
     \/ call[w] = "running" /\ orphans' = orphans + 1 /\ UNCHANGED queue
  /\ UNCHANGED <<lib, loop, step>>

\* InvalidStateError is swallowed, the thread is free again.
EndOrphan ==
  /\ orphans > 0 /\ orphans' = orphans - 1
  /\ UNCHANGED <<lib, loop, step, call, queue, faults>>

Resume(w) ==
  /\ loop # "down" /\ call[w] \in {"resolved", "raised"} /\ Becomes(w, "idle")
  /\ step' = IF call[w] = "resolved" THEN [step EXCEPT ![w] = @ + 1] ELSE step
  /\ UNCHANGED <<lib, loop, queue, orphans, faults>>

\* ctrl+c sets the event, or cancels the future, that main awaits.
Interrupt ==
  /\ loop = "up" /\ loop' = "stopping"
  /\ UNCHANGED <<lib, step, call, queue, orphans, faults>>

\* The worker waits for its calls, then the executor for its threads.
ShutDown ==
  /\ loop = "stopping" /\ Calling = {} /\ queue = <<>> /\ orphans = 0 /\ loop' = "down"
  /\ UNCHANGED <<lib, step, call, queue, orphans, faults>>

CallStep(w) == Poll(w) \/ wrapper(w) \/ RunFromThread(w) \/ Resume(w)
Progress == TakeWrapper \/ EndOrphan \/ ShutDown \/ \E w \in Workflows : CallStep(w)

Next == Progress \/ Interrupt \/ \E w \in Workflows : Raise(w) \/ Cancel(w)

Fairness == WF_vars(Progress)
Spec == Init /\ [][Next]_vars /\ Fairness

-----------------------------------------------------------------------------
TypeOK ==
  /\ lib \in {"gevent", "trio"} /\ loop \in {"up", "stopping", "down"}
  /\ step \in [Workflows -> 1..(Len(run) + 1)]
  /\ call \in [Workflows -> {"idle", "submitted", "running", "asking", "resolved", "raised"}]
  /\ \A i \in DOMAIN queue : queue[i].of \in Workflows /\ queue[i].live \in BOOLEAN
  /\ orphans \in 0..MaxFaults /\ faults \in 0..MaxFaults

\* There is "enough room to support the max concurrent activities/workflows":
\* an awaited call finds no free thread only while calls that were given up have
\* threads.
RoomForEveryCall ==
  Threads = max_workers /\ (\E i \in DOMAIN queue : queue[i].live) => orphans > 0

\* Every workflow ends, unless the worker is interrupted; then main ends, when
\* no thread and no call is left.
LoopGoesOn ==
  <>((\A w \in Workflows : step[w] > Len(run)) \/ loop = "down")
=============================================================================
