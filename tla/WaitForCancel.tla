--------------------------- MODULE WaitForCancel ---------------------------
(***************************************************************************)
(* custom_decorator: an activity that ends only when it is cancelled, the  *)
(* heartbeats a task beside it sends, and the workflow that cancels it on  *)
(* a signal.                                                               *)
(*                                                                         *)
(* External: an activity that runs hears of its cancellation in the answer *)
(* to a heartbeat, one that has not begun is cancelled at once, and one    *)
(* whose heartbeats stay away is given up (and not retried).               *)
(***************************************************************************)
VARIABLES
  pc,            \* the workflow; "stuck": its task fails whenever it is tried
  signal,        \* the cancel_activity signal
  cancel,        \* the cancellation of the activity
  fn,            \* the decorated function, inside the wrapper
  heartbeat,     \* heartbeat_task is running
  outcome        \* what the server has of the activity

vars == <<pc, signal, cancel, fn, heartbeat, outcome>>

Open == pc \in {"starting", "waiting", "stuck"}
auto_heartbeater == TRUE

Init ==
  /\ pc = "starting" /\ signal = "unsent" /\ cancel = "none"
  /\ fn = "unstarted" /\ heartbeat = FALSE /\ outcome = "none"

-----------------------------------------------------------------------------
(* The starter and the workflow. *)

SendSignal ==
  /\ Open /\ signal = "unsent" /\ signal' = "sent"
  /\ UNCHANGED <<pc, cancel, fn, heartbeat, outcome>>

\* self.activity does not exist before run has started it: the handler raises
\* AttributeError, and so does every retry of the task.
CancelActivity ==
  /\ signal = "sent" /\ pc \in {"starting", "waiting"}
  /\ signal' = "handled"
  /\ \/ pc = "starting" /\ pc' = "stuck" /\ UNCHANGED cancel
     \/ pc = "waiting" /\ cancel' = "requested" /\ UNCHANGED pc
  /\ UNCHANGED <<fn, heartbeat, outcome>>

\* Signals of the same task come first.
Run ==
  /\ pc = "starting" /\ signal # "sent"
  /\ pc' = "waiting"
  /\ UNCHANGED <<signal, cancel, fn, heartbeat, outcome>>

Return ==
  /\ pc = "waiting" /\ outcome # "none"
  /\ pc' = IF outcome = "completed" THEN "returned" ELSE "failed"
  /\ UNCHANGED <<signal, cancel, fn, heartbeat, outcome>>

-----------------------------------------------------------------------------
(* The activity. *)

StartActivity ==
  /\ pc = "waiting" /\ fn = "unstarted" /\ outcome = "none"
  /\ fn' = "waiting" /\ heartbeat' = auto_heartbeater
  /\ UNCHANGED <<pc, signal, cancel, outcome>>

\* Twice within the timeout, so the server need not wait for it.
Heartbeat ==
  /\ heartbeat /\ cancel = "requested" /\ cancel' = "delivered"
  /\ UNCHANGED <<pc, signal, fn, heartbeat, outcome>>

\* The function catches CancelledError and returns; the wrapper's finally block
\* ends the heartbeats.
FinishActivity ==
  /\ fn = "waiting" /\ cancel = "delivered" /\ outcome = "none"
  /\ fn' = "returned" /\ heartbeat' = FALSE /\ outcome' = "completed"
  /\ UNCHANGED <<pc, signal, cancel>>

Crash ==
  /\ fn = "waiting"
  /\ fn' = "crashed" /\ heartbeat' = FALSE
  /\ UNCHANGED <<pc, signal, cancel, outcome>>

CancelUnstarted ==
  /\ cancel = "requested" /\ fn = "unstarted" /\ outcome = "none"
  /\ outcome' = "cancelled"
  /\ UNCHANGED <<pc, signal, cancel, fn, heartbeat>>

HeartbeatTimeout ==
  /\ outcome = "none" /\ fn \in {"waiting", "crashed"} /\ ~heartbeat
  /\ outcome' = "timed out"
  /\ UNCHANGED <<pc, signal, cancel, fn, heartbeat>>

-----------------------------------------------------------------------------
Step == CancelActivity \/ Run \/ Return \/ StartActivity \/ Heartbeat \/ FinishActivity
          \/ CancelUnstarted \/ HeartbeatTimeout
Next == SendSignal \/ Step \/ Crash

\* Worker and server do their parts; workers need not crash.
Fairness == WF_vars(Step)

Spec == Init /\ [][Next]_vars /\ Fairness

-----------------------------------------------------------------------------
(* Properties *)

\* Every variable has its type, and only a running function heartbeats.
TypeOK ==
  /\ pc \in {"starting", "waiting", "returned", "failed", "stuck"}
  /\ signal \in {"unsent", "sent", "handled"}
  /\ cancel \in {"none", "requested", "delivered"}
  /\ fn \in {"unstarted", "waiting", "returned", "crashed"}
  /\ heartbeat \in BOOLEAN
  /\ outcome \in {"none", "completed", "timed out", "cancelled"}
  /\ heartbeat => fn = "waiting"

\* The activity lives as long as its worker: the workflow fails only if that
\* crashed, or if it cancelled what had not begun (starter.py: "If we did not
\* have the automatic heartbeater decorator, the signal would have failed").
LivesUntilCancelled == pc = "failed" => fn \in {"crashed", "unstarted"}

\* A signal that finds the activity started ends the workflow.
CancelEndsIt == cancel = "requested" ~> pc \in {"returned", "failed"}
=============================================================================
