-------------------------- MODULE HelloCancellation --------------------------
(***************************************************************************)
(* hello_cancellation: a workflow waits for an activity that never ends,   *)
(* and cleans up when it is cancelled.                                     *)
(*                                                                         *)
(* External: a cancelled execute_activity raises at once and asks the      *)
(* activity to stop (TRY_CANCEL, the default); the activity hears of it in *)
(* the answer to a heartbeat.  A cancellation that is handled before run   *)
(* was entered ends the workflow without entering it.  Attempts may be     *)
(* lost, and are tried again.                                              *)
(***************************************************************************)
EXTENDS Integers

CONSTANT MaxLost         \* bound: attempts lost

VARIABLES
  pc,                    \* "start", "activity", "cleanup", "cancelled"
  cancel,                \* handle.cancel(): "no", "requested", "delivered"
  never, cleanup,        \* the two activities
  asked,                 \* never_complete_activity is asked to stop
  lost

vars == <<pc, cancel, never, cleanup, asked, lost>>

Init == /\ pc = "start" /\ cancel = "no" /\ never = "none" /\ cleanup = "none"
        /\ asked = FALSE /\ lost = 0

RequestCancel == /\ cancel = "no" /\ pc # "cancelled" /\ cancel' = "requested"
                 /\ UNCHANGED <<pc, never, cleanup, asked, lost>>

EnterRun ==
  /\ pc = "start" /\ pc' = "activity" /\ never' = "scheduled"
  /\ UNCHANGED <<cancel, cleanup, asked, lost>>

CancelBeforeRun ==
  /\ pc = "start" /\ cancel = "requested" /\ pc' = "cancelled" /\ cancel' = "delivered"
  /\ UNCHANGED <<never, cleanup, asked, lost>>

\* The await raises; finally schedules the clean-up in the same task.  An
\* attempt that has not begun will not.
LeaveTry ==
  /\ pc = "activity" /\ cancel = "requested" /\ cancel' = "delivered"
  /\ pc' = "cleanup" /\ cleanup' = "scheduled" /\ asked' = TRUE
  /\ never' = IF never \in {"scheduled", "lost"} THEN "stopped" ELSE never
  /\ UNCHANGED lost

EndRun ==
  /\ pc = "cleanup" /\ cleanup = "done" /\ pc' = "cancelled"
  /\ UNCHANGED <<cancel, never, cleanup, asked, lost>>

StartNever == /\ never = "scheduled" /\ never' = "running"
              /\ UNCHANGED <<pc, cancel, cleanup, asked, lost>>

\* while True: heartbeat, which raises once the activity was asked to stop.
HeartbeatRaises ==
  /\ never = "running" /\ asked /\ never' = "stopped"
  /\ UNCHANGED <<pc, cancel, cleanup, asked, lost>>

RunCleanup ==
  /\ \/ cleanup = "scheduled" /\ cleanup' = "running"
     \/ cleanup = "running" /\ cleanup' = "done"
     \/ cleanup = "lost" /\ cleanup' = "scheduled"
  /\ UNCHANGED <<pc, cancel, never, asked, lost>>

Lose ==
  /\ lost < MaxLost /\ lost' = lost + 1
  /\ \/ never = "running" /\ never' = (IF asked THEN "stopped" ELSE "lost")
        /\ UNCHANGED cleanup
     \/ cleanup = "running" /\ cleanup' = "lost" /\ UNCHANGED never
  /\ UNCHANGED <<pc, cancel, asked>>

\* The heartbeat time-out.
RetryNever ==
  /\ never = "lost" /\ ~asked /\ never' = "scheduled"
  /\ UNCHANGED <<pc, cancel, cleanup, asked, lost>>

RunStep == EnterRun \/ CancelBeforeRun \/ LeaveTry \/ EndRun
NeverStep == StartNever \/ HeartbeatRaises \/ RetryNever

Next == RequestCancel \/ RunStep \/ NeverStep \/ RunCleanup \/ Lose

Fairness == WF_vars(RunStep) /\ WF_vars(NeverStep) /\ WF_vars(RunCleanup)
Spec == Init /\ [][Next]_vars /\ Fairness

-----------------------------------------------------------------------------
TypeOK ==
  /\ pc \in {"start", "activity", "cleanup", "cancelled"}
  /\ cancel \in {"no", "requested", "delivered"}
  /\ never \in {"none", "scheduled", "running", "lost", "stopped"}
  /\ cleanup \in {"none", "scheduled", "running", "lost", "done"}
  /\ asked \in BOOLEAN /\ lost \in 0..MaxLost

\* A workflow that began its work closes only after it cleaned up, and does
\* not clean up while it may still begin new work.
CleansUp ==
  /\ pc = "cancelled" /\ never # "none" => cleanup = "done"
  /\ cleanup # "none" => never \in {"running", "stopped"} /\ asked

\* "do a cleanup activity when it is complete (on error or cancel)",
\* hello_cancellation.py:38-39.  Not so: LeaveTry does not wait for it.
CleanupWhenComplete == cleanup # "none" => never = "stopped"

\* A cancelled workflow closes, and its activity stops.
CancelEndsBoth ==
  cancel = "requested" ~> pc = "cancelled" /\ never \in {"none", "stopped"}
=============================================================================
