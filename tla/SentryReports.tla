---------------------------- MODULE SentryReports ----------------------------
(***************************************************************************)
(* sentry: an interceptor reports what activities and workflows raise.     *)
(*                                                                         *)
(* External: an activity has one attempt, which fails by time-out when its *)
(* worker dies; a workflow task whose completion is lost is done again, on *)
(* code that has replayed what came before it; a query of a closed         *)
(* workflow replays all of it.  A worker that shuts down raises            *)
(* _ShutdownRequested inside, and cancels its activity.                    *)
(***************************************************************************)
EXTENDS Integers

CONSTANTS MaxFaults, MaxQueries    \* bounds

VARIABLES
  option,                \* "working" or "broken"
  pc, activity,          \* of the workflow, and its activity
  replaying,             \* workflow.unsafe.is_replaying()
  reports,               \* events that reach Sentry, by what raised
  retried,               \* workflow tasks done again
  faults, queries

vars == <<option, pc, activity, replaying, reports, retried, faults, queries>>

Nothing == [activity |-> 0, workflow |-> 0, shutdown |-> 0]

Init == /\ option \in {"working", "broken"} /\ pc = "start" /\ activity = "none"
        /\ replaying = FALSE /\ reports = Nothing
        /\ retried = 0 /\ faults = 0 /\ queries = 0

before_send(event) == event # "shutdown"
capture_exception(event) ==
  reports' = IF before_send(event) THEN [reports EXCEPT ![event] = @ + 1] ELSE reports

\* Variant: reported whether or not it is a replay.
OnReplaysToo == TRUE
OutsideReplays == ~replaying

run == /\ pc = "start" /\ pc' = "activity" /\ activity' = "running"
       /\ UNCHANGED <<option, replaying, reports, retried, faults, queries>>

\* The exception is reported, then raised again for the server.
execute_activity ==
  /\ activity = "running"
  /\ IF option = "broken" THEN activity' = "raised" /\ capture_exception("activity")
     ELSE activity' = "done" /\ UNCHANGED reports
  /\ UNCHANGED <<option, pc, replaying, retried, faults, queries>>

ActivityFails ==
  /\ activity \in {"raised", "lost"} /\ activity' = "failed"
  /\ UNCHANGED <<option, pc, replaying, reports, retried, faults, queries>>

\* The await of run returns or raises; the completion is on its way.
execute_workflow ==
  /\ pc = "activity" /\ activity \in {"done", "failed"} /\ pc' = "closing"
  /\ IF activity = "failed" /\ OutsideReplays THEN capture_exception("workflow")
     ELSE UNCHANGED reports
  /\ UNCHANGED <<option, activity, replaying, retried, faults, queries>>

LoseTask ==
  /\ pc = "closing" /\ ~replaying /\ faults < MaxFaults /\ faults' = faults + 1
  /\ pc' = "activity" /\ retried' = retried + 1
  /\ UNCHANGED <<option, activity, replaying, reports, queries>>

Complete ==
  /\ pc = "closing" /\ pc' = "closed" /\ replaying' = FALSE
  /\ UNCHANGED <<option, activity, reports, retried, faults, queries>>

Query ==
  /\ pc = "closed" /\ queries < MaxQueries /\ queries' = queries + 1
  /\ pc' = "activity" /\ replaying' = TRUE
  /\ UNCHANGED <<option, activity, reports, retried, faults>>

\* CancelledError is no Exception: only the worker's own event is captured.
StopWorker ==
  /\ activity \in {"running", "raised"} /\ faults < MaxFaults /\ faults' = faults + 1
  /\ activity' = "lost" /\ capture_exception("shutdown")
  /\ UNCHANGED <<option, pc, replaying, retried, queries>>

WorkerStep == run \/ execute_activity \/ ActivityFails \/ execute_workflow \/ Complete

Next == WorkerStep \/ LoseTask \/ Query \/ StopWorker

Fairness == WF_vars(WorkerStep)
Spec == Init /\ [][Next]_vars /\ Fairness

-----------------------------------------------------------------------------
TypeOK ==
  /\ option \in {"working", "broken"} /\ pc \in {"start", "activity", "closing", "closed"}
  /\ activity \in {"none", "running", "raised", "lost", "done", "failed"}
  /\ replaying \in BOOLEAN /\ DOMAIN reports = DOMAIN Nothing
  /\ retried \in 0..MaxFaults /\ faults \in 0..MaxFaults /\ queries \in 0..MaxQueries

\* A failed workflow is reported once for each time its last task was done,
\* one that succeeds never; replays report nothing, a raise of the activity is
\* reported once, and the shutdown of a worker is not.
EachFailureIsReported ==
  /\ pc \in {"closing", "closed"} =>
       reports.workflow = IF activity = "failed" THEN retried + 1 ELSE 0
  /\ reports.activity \in 0..1 /\ (activity = "raised" => reports.activity = 1)
  /\ option = "working" => reports.activity = 0
  /\ reports.shutdown = 0

WorkflowCloses == <>(pc = "closed")
=============================================================================
