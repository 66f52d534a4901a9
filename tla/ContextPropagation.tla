-------------------------- MODULE ContextPropagation --------------------------
(***************************************************************************)
(* context_propagation: an interceptor sends the user of the caller's      *)
(* context along in a header, and sets it in the context of what the call  *)
(* starts: the workflow, a handler, and from the workflow its activity.    *)
(*                                                                         *)
(* External: run, every handler and every attempt of an activity is a task *)
(* with a context of its own, a copy of the worker's, which has no user;   *)
(* an activity whose worker dies is tried again with the same input.       *)
(***************************************************************************)
EXTENDS Integers, Sequences

CONSTANTS Users, None, MaxCalls, MaxLost    \* the last two are bounds

VARIABLES
  user,                  \* user_id in the client's context
  starter,               \* the user who started the workflow
  calls,                 \* calls to the workflow: kind, header, who made it
  handled,               \* how many of them were
  pc, context,           \* of run: the await it is in, and its user_id
  complete,
  header, activity,      \* the activity's header, and what it is at
  logged,                \* what was logged: by which part, for which user
  lost

vars == <<user, starter, calls, handled, pc, context, complete, header, activity, logged,
          lost>>

\* No header without a user.
set_header_from_context(u) == u

\* A call without the header leaves the context as it is.
context_from_header(h, before) == IF h # None THEN h ELSE before

Ambient == None          \* user_id in the worker's own context

\* Variant: handlers set the user in the context of run.
SharedContext(c) == context' = context_from_header(c.header, context)
OwnContext(c) == UNCHANGED context

Init ==
  /\ user = None /\ starter = None /\ calls = <<>> /\ handled = 0
  /\ pc = "none" /\ context = Ambient /\ complete = FALSE
  /\ header = None /\ activity = "none" /\ logged = {} /\ lost = 0

-----------------------------------------------------------------------------
(* The client, and the interceptor of its calls. *)

SetUser ==
  /\ \E u \in Users \cup {None} : u # user /\ user' = u
  /\ UNCHANGED <<starter, calls, handled, pc, context, complete, header, activity, logged,
                 lost>>

start_workflow ==
  /\ pc = "none" /\ pc' = "start" /\ starter' = user
  /\ header' = set_header_from_context(user)
  /\ UNCHANGED <<user, calls, handled, context, complete, activity, logged, lost>>

\* A signal, a query or an update; only the first has an effect on the sample.
ClientCall ==
  /\ pc # "none" /\ Len(calls) < MaxCalls
  /\ \E k \in {"signal_complete", "query"} :
       /\ k = "query" \/ pc # "closed"
       /\ calls' = Append(calls, [kind |-> k, by |-> user,
                                  header |-> set_header_from_context(user)])
  /\ UNCHANGED <<user, starter, handled, pc, context, complete, header, activity, logged,
                 lost>>

-----------------------------------------------------------------------------
(* The worker's interceptors. *)

execute_workflow ==
  /\ pc = "start" /\ pc' = "waiting"
  /\ context' = context_from_header(header, Ambient)
  /\ logged' = logged \cup {[part |-> "run", call |-> 0, user |-> context']}
  /\ UNCHANGED <<user, starter, calls, handled, complete, header, activity, lost>>

HandleCall ==
  /\ pc # "none" /\ handled < Len(calls) /\ handled' = handled + 1
  /\ LET c == calls[handled + 1] IN
       /\ c.kind = "query" => pc # "start"
       /\ complete' = (complete \/ c.kind = "signal_complete")
       /\ logged' = logged \cup {[part |-> "handler", call |-> handled + 1,
                                  user |-> context_from_header(c.header, Ambient)]}
       /\ OwnContext(c)
  /\ UNCHANGED <<user, starter, calls, pc, header, activity, lost>>

start_activity ==
  /\ pc = "waiting" /\ complete /\ pc' = "activity" /\ activity' = "scheduled"
  /\ header' = set_header_from_context(context)
  /\ UNCHANGED <<user, starter, calls, handled, context, complete, logged, lost>>

execute_activity ==
  /\ activity = "scheduled" /\ activity' = "running"
  /\ logged' = logged \cup {[part |-> "activity", call |-> 0,
                             user |-> context_from_header(header, Ambient)]}
  /\ UNCHANGED <<user, starter, calls, handled, pc, context, complete, header, lost>>

EndActivity ==
  /\ activity = "running" /\ activity' = "done"
  /\ UNCHANGED <<user, starter, calls, handled, pc, context, complete, header, logged, lost>>

LoseActivity ==
  /\ activity = "running" /\ lost < MaxLost /\ activity' = "scheduled" /\ lost' = lost + 1
  /\ UNCHANGED <<user, starter, calls, handled, pc, context, complete, header, logged>>

\* The with block resets the user when run is left.
Return ==
  /\ pc = "activity" /\ activity = "done" /\ handled = Len(calls)
  /\ pc' = "closed" /\ context' = Ambient
  /\ UNCHANGED <<user, starter, calls, handled, complete, header, activity, logged, lost>>

WorkerStep == \/ execute_workflow \/ HandleCall \/ start_activity \/ execute_activity
              \/ EndActivity \/ Return

Next == SetUser \/ start_workflow \/ ClientCall \/ LoseActivity \/ WorkerStep

Fairness == WF_vars(WorkerStep)
Spec == Init /\ [][Next]_vars /\ Fairness

-----------------------------------------------------------------------------
TypeOK ==
  /\ {user, starter, context, header} \subseteq Users \cup {None}
  /\ \A i \in DOMAIN calls : {calls[i].by, calls[i].header} \subseteq Users \cup {None}
  /\ handled \in 0..Len(calls) /\ complete \in BOOLEAN /\ lost \in 0..MaxLost
  /\ pc \in {"none", "start", "waiting", "activity", "closed"}
  /\ activity \in {"none", "scheduled", "running", "done"}
  /\ \A l \in logged : l.part \in {"run", "handler", "activity"} /\ l.call \in 0..MaxCalls

\* Run and every attempt of its activity work for the user who started the
\* workflow, each handler for the user who called it, whoever the client's
\* context names by then and whoever sent the signal that let run go on.
WorksForItsCaller ==
  \A l \in logged :
    l.user = IF l.part = "handler" THEN calls[l.call].by ELSE starter

\* A workflow that was told to complete does.
CompletedRunCloses == complete /\ pc # "none" ~> pc = "closed"
=============================================================================
