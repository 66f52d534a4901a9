----------------------- MODULE HandlersAndCompensation -----------------------
(***************************************************************************)
(* message_passing/waiting_for_handlers_and_compensation: run waits for    *)
(* its update handlers whichever way it exits, and tells them of the exit  *)
(* by the future workflow_exit, against which every handler races the task *)
(* of its own logic.                                                       *)
(*                                                                         *)
(* The future is raced with FIRST_EXCEPTION: a handler goes on when its    *)
(* task and the future are both done, or as soon as the future holds an    *)
(* exception.  An exception that is neither CancelledError nor a           *)
(* FailureError fails the workflow task, which is retried for ever: the    *)
(* run is stuck.                                                           *)
(***************************************************************************)
EXTENDS FiniteSets

CONSTANTS
  Updates,         \* identities of update calls
  ExitTypes,       \* the exit types tried
  Cancellers       \* the exit types in which somebody cancels the workflow

VARIABLES
  exit_type,       \* the workflow's input
  pc,              \* where run is suspended
  outcome,         \* how the execution ended
  cancel,          \* the cancellation request
  workflow_exit,
  handler,         \* the handler of an update, as its caller sees it in the end
  task,            \* its update_task
  effect,          \* has activity_executed_by_update_handler been performed?
  undone,          \* has the update been compensated?
  workflow_compensation_done, update_compensation_done

handlerVars == <<handler, task, undone>>
flags == <<workflow_compensation_done, update_compensation_done>>
vars == <<exit_type, pc, outcome, cancel, workflow_exit, handler, task, effect, undone,
          workflow_compensation_done, update_compensation_done>>

Open == pc # "closed"
Live == Open /\ pc # "stuck"        \* workflow tasks succeed
Active(u) == handler[u] \in {"racing", "compensating"}
all_handlers_finished == \A u \in Updates : ~Active(u)
update_started == \E u \in Updates : task[u] # "none"

Init ==
  /\ exit_type \in ExitTypes
  /\ pc = "starting" /\ outcome = "none" /\ cancel = "none"
  /\ workflow_exit = "pending"
  /\ handler = [u \in Updates |-> "unsent"]
  /\ task = [u \in Updates |-> "none"]
  /\ effect = [u \in Updates |-> FALSE] /\ undone = [u \in Updates |-> FALSE]
  /\ workflow_compensation_done = FALSE /\ update_compensation_done = FALSE

-----------------------------------------------------------------------------
(* Clients and the activity worker *)

SendUpdate(u) ==
  /\ Open /\ handler[u] = "unsent"
  /\ handler' = [handler EXCEPT ![u] = "sent"]
  /\ UNCHANGED <<exit_type, pc, outcome, cancel, workflow_exit, task, effect, undone, flags>>

RequestCancel ==
  /\ Open /\ cancel = "none" /\ exit_type \in Cancellers
  /\ cancel' = "requested"
  /\ UNCHANGED <<exit_type, pc, outcome, workflow_exit, handlerVars, effect, flags>>

\* The activity of an update runs, whatever has become of its workflow.
PerformActivity(u) ==
  /\ task[u] = "running" /\ ~effect[u]
  /\ effect' = [effect EXCEPT ![u] = TRUE]
  /\ UNCHANGED <<exit_type, pc, outcome, cancel, workflow_exit, handlerVars, flags>>

-----------------------------------------------------------------------------
(* my_update *)

HandleUpdate(u) ==
  /\ Live /\ handler[u] = "sent"
  /\ handler' = [handler EXCEPT ![u] = "racing"]
  /\ task' = [task EXCEPT ![u] = "running"]
  /\ UNCHANGED <<exit_type, pc, outcome, cancel, workflow_exit, effect, undone, flags>>

FinishTask(u) ==
  /\ Live /\ task[u] = "running" /\ effect[u]
  /\ task' = [task EXCEPT ![u] = "done"]
  /\ UNCHANGED <<exit_type, pc, outcome, cancel, workflow_exit, handler, effect, undone, flags>>

\* Variant: whoever comes first wins the race.
ReturnUpdateFirstCompleted(u) ==
  /\ Live /\ handler[u] = "racing"
  /\ task[u] = "done" \/ workflow_exit # "pending"
  /\ handler' = [handler EXCEPT ![u] = "returned"]
  /\ UNCHANGED <<exit_type, pc, outcome, cancel, workflow_exit, task, effect, undone, flags>>

\* The update has finished, and the run has come to its exit.
ReturnUpdate(u) ==
  /\ Live /\ handler[u] = "racing"
  /\ task[u] = "done" /\ workflow_exit # "pending"
  /\ handler' = [handler EXCEPT ![u] = "returned"]
  /\ UNCHANGED <<exit_type, pc, outcome, cancel, workflow_exit, task, effect, undone, flags>>

\* The run exits by an exception before the update has finished.  The task is
\* left to itself.
AbortUpdate(u) ==
  /\ Live /\ handler[u] = "racing"
  /\ task[u] = "running" /\ workflow_exit = "exception"
  /\ handler' = [handler EXCEPT ![u] = "compensating"]
  /\ UNCHANGED <<exit_type, pc, outcome, cancel, workflow_exit, task, effect, undone, flags>>

\* my_update_compensation, then the failure is raised.
CompensateUpdate(u) ==
  /\ Live /\ handler[u] = "compensating"
  /\ handler' = [handler EXCEPT ![u] = "failed"]
  /\ undone' = [undone EXCEPT ![u] = TRUE]
  /\ update_compensation_done' = TRUE
  /\ UNCHANGED <<exit_type, pc, outcome, cancel, workflow_exit, task, effect,
                 workflow_compensation_done>>

-----------------------------------------------------------------------------
(* run *)

\* The application logic, up to what the exit type says.
ExitSuccess ==
  /\ pc = "starting" /\ update_started /\ exit_type = "SUCCESS"
  /\ workflow_exit' = "result" /\ pc' = "leaving"
  /\ UNCHANGED <<exit_type, outcome, cancel, handlerVars, effect, flags>>

ExitFailure ==
  /\ pc = "starting" /\ update_started /\ exit_type = "FAILURE"
  /\ workflow_exit' = "exception" /\ pc' = "failing"
  /\ UNCHANGED <<exit_type, outcome, cancel, handlerVars, effect, flags>>

BlockForever ==
  /\ pc = "starting" /\ update_started /\ exit_type = "CANCELLATION"
  /\ pc' = "blocked"
  /\ UNCHANGED <<exit_type, outcome, cancel, workflow_exit, handlerVars, effect, flags>>

\* CancelledError is raised where run is suspended: inside the try, ...
CancelLogic ==
  /\ cancel = "requested" /\ pc \in {"starting", "blocked"}
  /\ cancel' = "raised"
  /\ workflow_exit' = "exception" /\ pc' = "failing"
  /\ UNCHANGED <<exit_type, outcome, handlerVars, effect, flags>>

\* ... also when the future is already set: set_exception raises
\* InvalidStateError.
CancelLeaving ==
  /\ cancel = "requested" /\ pc = "leaving"
  /\ cancel' = "raised" /\ pc' = "stuck"
  /\ UNCHANGED <<exit_type, outcome, workflow_exit, handlerVars, effect, flags>>

\* ... inside the except clause, which it leaves at once.
CancelExit ==
  /\ cancel = "requested" /\ pc \in {"failing", "undoing"}
  /\ cancel' = "raised"
  /\ pc' = "closed" /\ outcome' = "cancelled"
  /\ UNCHANGED <<exit_type, workflow_exit, handlerVars, effect, flags>>

Return ==
  /\ pc = "leaving" /\ all_handlers_finished
  /\ pc' = "closed" /\ outcome' = "completed"
  /\ UNCHANGED <<exit_type, cancel, workflow_exit, handlerVars, effect, flags>>

StartCompensation ==
  /\ pc = "failing" /\ all_handlers_finished
  /\ pc' = "undoing"
  /\ UNCHANGED <<exit_type, outcome, cancel, workflow_exit, handlerVars, effect, flags>>

\* workflow_compensation, then the exception is raised again.
Compensated ==
  /\ pc = "undoing"
  /\ pc' = "closed"
  /\ outcome' = IF cancel = "raised" THEN "cancelled" ELSE "failed"
  /\ update_compensation_done' = TRUE
  /\ workflow_compensation_done' = TRUE
  /\ UNCHANGED <<exit_type, cancel, workflow_exit, handlerVars, effect>>

-----------------------------------------------------------------------------
UpdateStep(u) == \/ HandleUpdate(u) \/ FinishTask(u) \/ ReturnUpdate(u)
                 \/ AbortUpdate(u) \/ CompensateUpdate(u)

RunStep == \/ ExitSuccess \/ ExitFailure \/ BlockForever
           \/ CancelLogic \/ CancelLeaving \/ CancelExit
           \/ Return \/ StartCompensation \/ Compensated

Next == \/ RequestCancel \/ RunStep
        \/ \E u \in Updates : SendUpdate(u) \/ PerformActivity(u) \/ UpdateStep(u)

Spec == Init /\ [][Next]_vars

\* Activities are performed and what a worker has to do is done; a workflow that
\* blocks until it is cancelled is cancelled by the starter.
Fairness ==
  /\ WF_vars(RunStep)
  /\ \A u \in Updates : WF_vars(PerformActivity(u)) /\ WF_vars(UpdateStep(u))
  /\ WF_vars(RequestCancel /\ exit_type = "CANCELLATION")

FairSpec == Spec /\ Fairness

-----------------------------------------------------------------------------
(* Properties *)

\* Every variable has its type; the handlers know whether the run is on its way
\* out.
TypeOK ==
  /\ exit_type \in ExitTypes
  /\ pc \in {"starting", "blocked", "leaving", "failing", "undoing", "closed", "stuck"}
  /\ outcome \in {"none", "completed", "failed", "cancelled"}
  /\ cancel \in {"none", "requested", "raised"}
  /\ workflow_exit \in {"pending", "result", "exception"}
  /\ handler \in [Updates -> {"unsent", "sent", "racing", "compensating", "returned", "failed"}]
  /\ task \in [Updates -> {"none", "running", "done"}]
  /\ effect \in [Updates -> BOOLEAN] /\ undone \in [Updates -> BOOLEAN]
  /\ workflow_compensation_done \in BOOLEAN /\ update_compensation_done \in BOOLEAN
  /\ (pc = "closed") <=> (outcome # "none")
  /\ (workflow_exit = "pending") <=> (pc \in {"starting", "blocked"})

\* An update that returns its result has been performed and is not
\* compensated; one that fails has been compensated, and the run has failed or
\* been cancelled.
ResultOrCompensation ==
  \A u \in Updates :
    /\ handler[u] = "returned" => effect[u] /\ ~undone[u]
    /\ handler[u] = "failed" => undone[u] /\ workflow_exit = "exception"

\* A successful return leaves no handler behind, and aborts none.
SuccessWaitsForHandlers ==
  outcome = "completed" =>
    \A u \in Updates : handler[u] \in {"unsent", "sent", "returned"}

\* Every update that has reached its handler is answered, unless the run closes
\* without waiting for it or a late cancellation has made it stuck.
UpdateEnds ==
  \A u \in Updates :
    Active(u) ~> (handler[u] \in {"returned", "failed"} \/ pc \in {"closed", "stuck"})

\* "The update caller gets the update result, or WorkflowUpdateFailedError"
\* (workflows.py:90), the failure also when the workflow closes.
CallerIsAnswered ==
  \A u \in Updates : handler[u] = "racing" ~>
    (handler[u] \in {"returned", "failed"} \/ pc = "closed")
=============================================================================
