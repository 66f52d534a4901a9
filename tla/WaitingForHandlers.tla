------------------------- MODULE WaitingForHandlers -------------------------
(***************************************************************************)
(* message_passing/waiting_for_handlers: run waits for its update handlers *)
(* before it returns, fails or is cancelled.                               *)
(***************************************************************************)
EXTENDS FiniteSets

CONSTANTS
  Updates,         \* identities of update calls
  ExitTypes        \* the exit types tried

VARIABLES
  exit_type,       \* the workflow's input
  pc,              \* where run is suspended
  outcome,         \* how the execution ended; "interrupted": while it waited to fail
  cancel,          \* the cancellation request
  update_started,
  handler          \* the handlers, as their callers see them

vars == <<exit_type, pc, outcome, cancel, update_started, handler>>

Open == pc # "closed"
\* Variant: handlers are not waited for.
NoHandlerAwaited == TRUE

all_handlers_finished == \A u \in Updates : handler[u] # "running"

Init ==
  /\ exit_type \in ExitTypes
  /\ pc = "starting" /\ outcome = "none" /\ cancel = "none"
  /\ update_started = FALSE
  /\ handler = [u \in Updates |-> "unsent"]

-----------------------------------------------------------------------------
SendUpdate(u) ==
  /\ Open /\ handler[u] = "unsent"
  /\ handler' = [handler EXCEPT ![u] = "sent"]
  /\ UNCHANGED <<exit_type, pc, outcome, cancel, update_started>>

RequestCancel ==
  /\ Open /\ cancel = "none"
  /\ cancel' = "requested"
  /\ UNCHANGED <<exit_type, pc, outcome, update_started, handler>>

\* my_update, up to its activity, and its return.
HandleUpdate(u) ==
  /\ Open /\ handler[u] = "sent"
  /\ update_started' = TRUE
  /\ handler' = [handler EXCEPT ![u] = "running"]
  /\ UNCHANGED <<exit_type, pc, outcome, cancel>>

FinishUpdate(u) ==
  /\ Open /\ handler[u] = "running"
  /\ handler' = [handler EXCEPT ![u] = "returned"]
  /\ UNCHANGED <<exit_type, pc, outcome, cancel, update_started>>

-----------------------------------------------------------------------------
\* The application logic: succeed, fail, or block until cancelled.
Proceed ==
  /\ pc = "starting" /\ update_started
  /\ pc' = CASE exit_type = "SUCCESS" -> "leaving"
             [] exit_type = "FAILURE" -> "failing"
             [] exit_type = "CANCELLATION" -> "blocked"
  /\ UNCHANGED <<exit_type, outcome, cancel, update_started, handler>>

\* CancelledError inside the try, ...
Cancel ==
  /\ cancel = "requested" /\ pc \in {"starting", "blocked", "leaving"}
  /\ cancel' = "raised" /\ pc' = "failing"
  /\ UNCHANGED <<exit_type, outcome, update_started, handler>>

\* ... and inside the except clause.
Interrupt ==
  /\ cancel = "requested" /\ pc = "failing"
  /\ cancel' = "raised"
  /\ pc' = "closed" /\ outcome' = "interrupted"
  /\ UNCHANGED <<exit_type, update_started, handler>>

Exit ==
  /\ pc \in {"leaving", "failing"} /\ all_handlers_finished
  /\ pc' = "closed"
  /\ outcome' = CASE pc = "leaving" -> "completed"
                  [] pc = "failing" /\ cancel = "raised" -> "cancelled"
                  [] OTHER -> "failed"
  /\ UNCHANGED <<exit_type, cancel, update_started, handler>>

-----------------------------------------------------------------------------
RunStep == Proceed \/ Cancel \/ Interrupt \/ Exit
UpdateStep(u) == HandleUpdate(u) \/ FinishUpdate(u)

Next == RunStep \/ RequestCancel \/ \E u \in Updates : SendUpdate(u) \/ UpdateStep(u)

Spec == Init /\ [][Next]_vars

\* What a worker has to do is done; a workflow that blocks until it is
\* cancelled is cancelled by the starter.
Fairness == /\ WF_vars(RunStep) /\ \A u \in Updates : WF_vars(UpdateStep(u))
            /\ WF_vars(RequestCancel /\ exit_type = "CANCELLATION")

-----------------------------------------------------------------------------
(* Properties *)

\* Every variable has its type; a failed or completed run did what its exit
\* type says.
TypeOK ==
  /\ exit_type \in ExitTypes
  /\ pc \in {"starting", "blocked", "leaving", "failing", "closed"}
  /\ outcome \in {"none", "completed", "failed", "cancelled", "interrupted"}
  /\ cancel \in {"none", "requested", "raised"}
  /\ update_started \in BOOLEAN
  /\ handler \in [Updates -> {"unsent", "sent", "running", "returned"}]
  /\ outcome = "completed" => exit_type = "SUCCESS"
  /\ outcome = "failed" => exit_type = "FAILURE"

\* Unless it is cancelled while it waits to fail, the execution closes, however
\* it does, only when every handler that has started has returned its result.
ExitWaitsForHandlers ==
  outcome \in {"completed", "failed", "cancelled"} =>
    \A u \in Updates : handler[u] # "running"

\* Once an update has come, the execution closes, in whatever way it exits.
RunCloses == update_started ~> ~Open
=============================================================================
