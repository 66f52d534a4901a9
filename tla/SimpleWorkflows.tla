--------------------------- MODULE SimpleWorkflows ---------------------------
(***************************************************************************)
(* The samples whose workflow calls one activity after the other, or five  *)
(* at once, and returns what they answer: most of hello, and the basic     *)
(* samples of other directories.  A sample is the record of what it calls  *)
(* and how it lets the server retry it; one set of actions runs them all.  *)
(*                                                                         *)
(* External: an attempt whose worker dies, or is slower than its time-out, *)
(* is lost and tried again; an answer it still gives is refused.  Children *)
(* and timers are not lost.  A local activity is part of the workflow's    *)
(* task, which begins again with attempt 1.                                *)
(***************************************************************************)
EXTENDS Integers, Sequences

CONSTANTS MaxLost, MaxRuns    \* bounds: attempts lost, runs of the cron

\* One call that is tried until it succeeds.
Plain == [steps |-> <<{1}>>, kind |-> "activity", fails |-> 0, limit |-> 0,
          deadline |-> FALSE]

hello_activity == Plain
hello_activity_async == Plain
hello_activity_method == Plain
hello_activity_heartbeat == Plain
hello_activity_multiprocess == Plain
hello_mtls == Plain
\* The fruits ordered are the four it knows.
hello_activity_choice == [Plain EXCEPT !.steps = <<{1}, {2}, {3}, {4}>>]
hello_parallel_activity == [Plain EXCEPT !.steps = <<{1, 2, 3, 4, 5}>>]
\* The first three attempts raise.
hello_activity_retry == [Plain EXCEPT !.fails = 3]
\* Every attempt raises, and there are two.
hello_exception == [Plain EXCEPT !.fails = 9, !.limit = 2]
\* The function leaves its completion to a task of its own.
hello_async_activity_completion == [Plain EXCEPT !.kind = "task"]
hello_local_activity == [Plain EXCEPT !.kind = "local"]
hello_child_workflow == [Plain EXCEPT !.kind = "child"]
hello_continue_as_new == [Plain EXCEPT !.kind = "timer"]
hello_cron == Plain
eager_wf_start == [Plain EXCEPT !.kind = "local", !.deadline = TRUE]
bedrock_basic == [Plain EXCEPT !.deadline = TRUE]
langsmith_basic == Plain
activity_worker == Plain
\* No workflow: the client waits for the activity itself.
hello_standalone_activity == Plain

Samples ==
  [activity |-> hello_activity, async |-> hello_activity_async,
   method |-> hello_activity_method, heartbeat |-> hello_activity_heartbeat,
   multiprocess |-> hello_activity_multiprocess, choice |-> hello_activity_choice,
   parallel |-> hello_parallel_activity, retry |-> hello_activity_retry,
   exception |-> hello_exception, async_completion |-> hello_async_activity_completion,
   local |-> hello_local_activity, child |-> hello_child_workflow,
   continue_as_new |-> hello_continue_as_new, cron |-> hello_cron,
   eager |-> eager_wf_start, bedrock |-> bedrock_basic, langsmith |-> langsmith_basic,
   activity_worker |-> activity_worker, mtls |-> hello_mtls,
   standalone |-> hello_standalone_activity]

VARIABLES
  name, run,             \* the sample, and the run of its chain
  stage,                 \* how many of its steps were scheduled
  at, attempt,           \* where each call is, and its attempt
  lost,                  \* attempts lost so far
  outcome

vars == <<name, run, stage, at, attempt, lost, outcome>>

Sample == Samples[name]
Slots == 1..5
Fresh == [a \in Slots |-> "none"]
First == [a \in Slots |-> 1]

Init == /\ name \in DOMAIN Samples /\ run = 0 /\ stage = 0
        /\ at = Fresh /\ attempt = First /\ lost = 0 /\ outcome = "open"

Awaited == IF stage = 0 THEN {} ELSE Sample.steps[stage]
Answered == \A a \in Awaited : at[a] = "done"

\* Every await of the workflow is on all calls of the step.
Advance ==
  /\ outcome = "open" /\ Answered /\ stage < Len(Sample.steps)
  /\ name # "continue_as_new" \/ run < 10
  /\ stage' = stage + 1
  /\ at' = [a \in Slots |-> IF a \in Sample.steps[stage + 1] THEN "scheduled" ELSE at[a]]
  /\ UNCHANGED <<name, run, attempt, lost, outcome>>

NextRun == /\ run' = run + 1 /\ stage' = 0 /\ at' = Fresh /\ attempt' = First

\* Only the tenth iteration returns; a cron begins again, however it ended.
Return ==
  /\ outcome = "open" /\ Answered
  /\ \/ /\ name = "continue_as_new" /\ run < 10 /\ stage = 1
        /\ NextRun /\ UNCHANGED outcome
     \/ /\ name = "cron" /\ run < MaxRuns /\ stage = 1
        /\ NextRun /\ UNCHANGED outcome
     \/ /\ IF name = "continue_as_new" THEN run = 10
           ELSE stage = Len(Sample.steps) /\ name # "cron"
        /\ outcome' = "returned" /\ UNCHANGED <<run, stage, at, attempt>>
  /\ UNCHANGED <<name, lost>>

Fail ==
  /\ outcome = "open" /\ \E a \in Slots : at[a] = "failed"
  /\ outcome' = "failed"
  /\ UNCHANGED <<name, run, stage, at, attempt, lost>>

-----------------------------------------------------------------------------
(* The calls. *)

Becomes(a, s) == at' = [at EXCEPT ![a] = s]

TryAgain(a, n) ==
  IF Sample.limit = 0 \/ attempt[a] < Sample.limit
    THEN Becomes(a, "scheduled") /\ attempt' = [attempt EXCEPT ![a] = n]
    ELSE Becomes(a, "failed") /\ UNCHANGED attempt

Attempt(a) ==
  /\ at[a] = "scheduled" /\ Becomes(a, "running") /\ UNCHANGED attempt

\* raise_complete_async: the function is left, the activity goes on.
Detach(a) ==
  /\ Sample.kind = "task" /\ at[a] = "running" /\ Becomes(a, "completing")
  /\ UNCHANGED attempt

Answer(a) ==
  /\ at[a] = IF Sample.kind = "task" THEN "completing" ELSE "running"
  /\ IF attempt[a] > Sample.fails
       THEN Becomes(a, "done") /\ UNCHANGED attempt
       ELSE TryAgain(a, attempt[a] + 1)

NoticeLoss(a) ==
  /\ at[a] = "lost"
  /\ TryAgain(a, IF Sample.kind = "local" THEN 1 ELSE attempt[a] + 1)

CallStep(a) == /\ outcome = "open"
               /\ Attempt(a) \/ Detach(a) \/ Answer(a) \/ NoticeLoss(a)
               /\ UNCHANGED <<name, run, stage, lost, outcome>>

Lose(a) ==
  /\ outcome = "open" /\ lost < MaxLost /\ Sample.kind \in {"activity", "task", "local"}
  /\ at[a] \in {"running", "completing"} /\ Becomes(a, "lost") /\ lost' = lost + 1
  /\ UNCHANGED <<name, run, stage, attempt, outcome>>

\* schedule_to_close_timeout bounds all attempts together.
PassDeadline(a) ==
  /\ outcome = "open" /\ Sample.deadline /\ at[a] \in {"scheduled", "running", "lost"}
  /\ Becomes(a, "failed")
  /\ UNCHANGED <<name, run, stage, attempt, lost, outcome>>

Progress == Advance \/ Return \/ Fail \/ \E a \in Slots : CallStep(a)

Next == Progress \/ \E a \in Slots : Lose(a) \/ PassDeadline(a)

Fairness == WF_vars(Progress)
Spec == Init /\ [][Next]_vars /\ Fairness

-----------------------------------------------------------------------------
TypeOK ==
  /\ name \in DOMAIN Samples /\ run \in 0..(10 + MaxRuns) /\ lost \in 0..MaxLost
  /\ stage \in 0..Len(Sample.steps)
  /\ at \in [Slots -> {"none", "scheduled", "running", "completing", "lost", "done",
                       "failed"}]
  /\ attempt \in [Slots -> 1..(5 + MaxLost)]
  /\ outcome \in {"open", "returned", "failed"}

\* A workflow returns when each of its steps was answered by an attempt that
\* does not raise, after all steps before it; it fails only when the attempts
\* it allows are used up, or the deadline it sets has passed.
ReturnsWhatWasAnswered ==
  /\ \A s \in 1..stage : \A a \in Sample.steps[s] :
       /\ s < stage \/ outcome = "returned" => at[a] = "done"
       /\ at[a] = "done" => attempt[a] > Sample.fails
  /\ outcome = "returned" /\ name # "continue_as_new" => stage = Len(Sample.steps)
  /\ outcome = "failed" =>
       Sample.deadline \/ \E a \in Slots : Sample.limit > 0 /\ attempt[a] = Sample.limit

\* Whatever is lost and retried, the workflow ends; the cron goes on.
WorkflowEnds ==
  /\ <>(outcome # "open" \/ name = "cron")
  /\ \A r \in 0..(MaxRuns - 1) : (name = "cron" /\ run = r) ~> run > r
=============================================================================
