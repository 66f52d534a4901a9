---------------------------- MODULE NexusCancel ----------------------------
(***************************************************************************)
(* nexus_cancel: the caller starts one operation per language, takes the   *)
(* first answer, cancels the others with WAIT_REQUESTED and waits for      *)
(* them; each operation is a workflow of the handler, which cleans up when *)
(* it is cancelled.                                                        *)
(*                                                                         *)
(* External: the server keeps a cancellation request until the operation's *)
(* workflow has started, and drops what a closed caller has not sent.      *)
(***************************************************************************)
CONSTANTS Language, None

VARIABLES
  pc,            \* where the caller's run is suspended
  result,        \* the language whose answer was taken
  pending,       \* the tasks it cancelled and waits for
  task,          \* its tasks: the operations as it sees them
  request,       \* cancellation requests
  handler        \* the workflows behind the operations

vars == <<pc, result, pending, task, request, handler>>

Open == pc \in {"racing", "cancelling"}
\* Variant: the cancelled tasks are not awaited.
NoneAwaited == TRUE
AllAwaited == \A l \in pending : task[l] # "pending"

Init ==
  /\ pc = "racing" /\ result = None /\ pending = {}
  /\ task = [l \in Language |-> "pending"]
  /\ request = [l \in Language |-> "none"]
  /\ handler = [l \in Language |-> "unstarted"]

-----------------------------------------------------------------------------
(* The handler's side. *)

StartHandler(l) ==
  /\ Open /\ task[l] = "pending" /\ handler[l] = "unstarted"
  /\ handler' = [handler EXCEPT ![l] = "working"]
  /\ UNCHANGED <<pc, result, pending, task, request>>

\* The greeting is returned, or the cleanup after a cancellation is over.
FinishHandler(l) ==
  /\ \/ handler[l] = "working" /\ handler' = [handler EXCEPT ![l] = "completed"]
     \/ handler[l] = "cleaning" /\ handler' = [handler EXCEPT ![l] = "cancelled"]
  /\ UNCHANGED <<pc, result, pending, task, request>>

\* The request reaches the handler's workflow, which may have closed.
ReceiveRequest(l) ==
  /\ Open /\ request[l] = "sent" /\ handler[l] # "unstarted"
  /\ request' = [request EXCEPT ![l] = "received"]
  /\ handler' = [handler EXCEPT ![l] = IF @ = "working" THEN "cleaning" ELSE @]
  /\ UNCHANGED <<pc, result, pending, task>>

-----------------------------------------------------------------------------
(* The caller's side. *)

\* What becomes of an operation reaches the caller: its answer, the
\* acknowledged request, or schedule_to_close_timeout.
Resolve(l) ==
  /\ Open /\ task[l] = "pending"
  /\ \/ handler[l] = "completed" /\ task' = [task EXCEPT ![l] = "answered"]
     \/ request[l] = "received" /\ task' = [task EXCEPT ![l] = "cancelled"]
     \/ task' = [task EXCEPT ![l] = "timed out"]
  /\ UNCHANGED <<pc, result, pending, request, handler>>

\* workflow.wait returns with all tasks that are done by then; one of them is
\* popped, and if it failed so does run.
TakeFirst ==
  /\ pc = "racing"
  /\ \E l \in Language :
       \/ /\ task[l] = "answered"
          /\ pc' = "cancelling" /\ result' = l
          /\ pending' = {k \in Language : task[k] = "pending"}
          /\ request' = [k \in Language |-> IF k \in pending' THEN "sent" ELSE "none"]
       \/ /\ task[l] = "timed out"
          /\ pc' = "failed"
          /\ UNCHANGED <<result, pending, request>>
  /\ UNCHANGED <<task, handler>>

\* The loop over pending swallows how each task ended.
Return ==
  /\ pc = "cancelling" /\ AllAwaited
  /\ pc' = "returned"
  /\ UNCHANGED <<result, pending, task, request, handler>>

-----------------------------------------------------------------------------
Next == TakeFirst \/ Return
          \/ \E l \in Language :
               StartHandler(l) \/ FinishHandler(l) \/ ReceiveRequest(l) \/ Resolve(l)

\* Operations end, at the latest by their timeout, and the caller goes on.
Fairness == /\ WF_vars(TakeFirst \/ Return)
            /\ \A l \in Language : WF_vars(Resolve(l)) /\ WF_vars(FinishHandler(l))

Spec == Init /\ [][Next]_vars /\ Fairness

-----------------------------------------------------------------------------
(* Properties *)

\* Every variable has its type.
TypeOK ==
  /\ pc \in {"racing", "cancelling", "returned", "failed"}
  /\ result \in Language \cup {None} /\ pending \subseteq Language
  /\ task \in [Language -> {"pending", "answered", "cancelled", "timed out"}]
  /\ request \in [Language -> {"none", "sent", "received"}]
  /\ handler \in [Language -> {"unstarted", "working", "cleaning", "completed",
                               "cancelled"}]

\* A caller that returns has made sure that every handler heard of it: none
\* goes on with work nobody waits for, but those whose operation timed out
\* (README.md: it "guaranteed that all handlers received the cancellation
\* request").
HandlersHearOfIt ==
  pc = "returned" =>
    \A l \in Language : handler[l] = "working" => task[l] = "timed out"

\* The caller returns or fails.
CallerEnds == <>~Open
=============================================================================
