----------------------------- MODULE Workers_proof -----------------------------
(***************************************************************************)
(* Proofs about the samples that work on the worker itself: the            *)
(* interceptors (ContextPropagation, SentryReports), the executors for a   *)
(* foreign event loop (Executors) and the pool of worker processes         *)
(* (Multiprocessing), for every number of users, calls, faults, slots and  *)
(* workers; and about the samples that must not leave anything behind when *)
(* they end (NexusCancel, FileProcessing, WaitForCancel,                   *)
(* HelloCancellation, KnowledgeBase).                                      *)
(***************************************************************************)
EXTENDS Samples, Data_proof

-----------------------------------------------------------------------------
(* ContextPropagation *)

Call == [kind : {"signal_complete", "query"}, by : Users \cup {Nobody},
         header : Users \cup {Nobody}]

ContextTypes == O!TypeOK /\ o_calls \in Seq(Call) /\ Len(o_calls) <= MaxCalls

\* Every header holds the user for whom it was sent, and run works for the user
\* who started it from its first task to its return: handlers leave its context
\* alone.
HeadersAreTrue ==
  /\ \A i \in DOMAIN o_calls : o_calls[i].header = o_calls[i].by
  /\ o_pc = "none" => o_logged = {} /\ o_activity = "none"
  /\ o_pc # "none" => o_header = o_starter
  /\ o_pc \in {"waiting", "activity"} => o_context = o_starter

\* What was logged names its call.
LogsNameCalls == \A l \in o_logged : l.part = "handler" => l.call \in DOMAIN o_calls

ContextInv == ContextTypes /\ HeadersAreTrue /\ LogsNameCalls /\ O!WorksForItsCaller

\* Without a user of its own the worker takes on the header's.
LEMMA FromHeader == \A h : O!context_from_header(h, O!Ambient) = h
BY DEF O!context_from_header, O!Ambient

\* Each step keeps the invariant.
LEMMA ContextStep == ContextConstants /\ ContextInv /\ [O!Next]_(O!vars) => ContextInv'
<1> SUFFICES ASSUME ContextConstants, ContextInv, [O!Next]_(O!vars)
             PROVE  ContextInv'
  OBVIOUS
<1> USE DEF ContextConstants, ContextInv, ContextTypes, O!TypeOK, HeadersAreTrue,
            LogsNameCalls, O!WorksForItsCaller, O!set_header_from_context
<1>1. CASE UNCHANGED O!vars
  BY <1>1 DEF O!vars
<1>2. CASE O!SetUser
  BY <1>2 DEF O!SetUser
<1>3. CASE O!start_workflow
  BY <1>3 DEF O!start_workflow
<1>4. CASE O!ClientCall
  <2>1. PICK c : /\ c \in Call /\ c.header = c.by /\ o_calls' = Append(o_calls, c)
                 /\ Len(o_calls) < MaxCalls /\ o_pc # "none"
    BY <1>4 DEF O!ClientCall, Call
  <2>2. /\ o_calls' \in Seq(Call) /\ Len(o_calls') = Len(o_calls) + 1 /\ Len(o_calls) \in Nat
        /\ \A i \in DOMAIN o_calls : i \in DOMAIN o_calls' /\ o_calls'[i] = o_calls[i]
        /\ \A i \in DOMAIN o_calls' : i \in DOMAIN o_calls \/ o_calls'[i] = c
    BY <2>1, AppendedElements
  <2>3. UNCHANGED <<o_user, o_starter, o_handled, o_pc, o_context, o_complete, o_header, o_activity, o_logged,
                    o_lost>>
    BY <1>4 DEF O!ClientCall
  <2>4. c.by \in Users \cup {Nobody} /\ c.header \in Users \cup {Nobody}
    BY <2>1 DEF Call
  <2>5. ContextTypes'
    BY <2>1, <2>2, <2>3, <2>4
  <2>6. HeadersAreTrue'
    BY <2>1, <2>2, <2>3
  <2>7. LogsNameCalls' /\ O!WorksForItsCaller'
    BY <2>2, <2>3
  <2> QED
    BY <2>5, <2>6, <2>7
<1>5. CASE O!LoseActivity
  BY <1>5 DEF O!LoseActivity
<1>6. CASE O!execute_workflow
  BY <1>6, FromHeader DEF O!execute_workflow
<1>7. CASE O!HandleCall
  BY <1>7, FromHeader DEF O!HandleCall, O!OwnContext
<1>8. CASE O!start_activity
  BY <1>8 DEF O!start_activity
<1>9. CASE O!execute_activity
  BY <1>9, FromHeader DEF O!execute_activity
<1>10. CASE O!EndActivity
  BY <1>10 DEF O!EndActivity
<1>11. CASE O!Return
  BY <1>11 DEF O!Return, O!Ambient
<1> QED
  BY <1>1, <1>2, <1>3, <1>4, <1>5, <1>6, <1>7, <1>8, <1>9, <1>10, <1>11
  DEF O!Next, O!WorkerStep

\* Run and every attempt of its activity work for the user who started the
\* workflow, each handler for the user who called it, however the calls of
\* different users interleave (context_propagation/interceptor.py:21-44,85-190).
THEOREM EachCallHasItsContext == O!Spec => [](O!TypeOK /\ WorksForItsCaller)
<1>0. ContextConstants
  BY WorkersAssumption
<1> USE <1>0
<1>1. O!Init => ContextInv
  <2> SUFFICES ASSUME O!Init PROVE ContextInv
    OBVIOUS
  <2>1. o_calls \in Seq(Call) /\ Len(o_calls) = 0 /\ DOMAIN o_calls = {} /\ o_logged = {}
    BY DEF O!Init
  <2>2. ContextTypes
    <3>1. o_handled \in 0..Len(o_calls) /\ o_lost \in 0..MaxLostAttempts /\ Len(o_calls) <= MaxCalls
      BY <2>1 DEF O!Init, ContextConstants
    <3>2. /\ {o_user, o_starter, o_context, o_header} \subseteq Users \cup {Nobody}
          /\ o_complete \in BOOLEAN /\ o_pc = "none" /\ o_activity = "none"
      BY DEF O!Init, O!Ambient
    <3> QED
      BY <2>1, <3>1, <3>2 DEF ContextTypes, O!TypeOK
  <2>3. HeadersAreTrue /\ LogsNameCalls /\ O!WorksForItsCaller
    BY <2>1 DEF O!Init, HeadersAreTrue, LogsNameCalls, O!WorksForItsCaller
  <2> QED
    BY <2>2, <2>3 DEF ContextInv
<1>2. ContextInv => O!TypeOK /\ WorksForItsCaller
  BY DEF ContextInv, ContextTypes, WorksForItsCaller
<1> QED
  BY <1>1, <1>2, ContextStep, PTL DEF O!Spec

-----------------------------------------------------------------------------
(* SentryReports *)

SentryTypes == R!TypeOK /\ r_reports \in [{"activity", "workflow", "shutdown"} -> Nat]

\* Nothing is reported of what is still at work; of the last task of a failed
\* workflow there is a report for each time it was done, one less while it is to
\* be done again, and none more while it is replayed.
ReportsSoFar ==
  /\ r_pc = "start" => r_activity = "none" /\ r_reports["activity"] = 0
  /\ r_activity = "running" => r_reports["activity"] = 0
  /\ r_option = "working" => r_activity # "raised"
  /\ r_pc = "start" \/ r_activity \notin {"done", "failed"} =>
       r_reports["workflow"] = 0 /\ r_retried = 0
  /\ r_pc # "activity" => r_pc = "start" \/ r_activity \in {"done", "failed"}
  /\ r_activity = "done" => r_reports["workflow"] = 0
  /\ r_activity = "failed" =>
       r_reports["workflow"] = IF r_pc = "activity" /\ ~r_replaying THEN r_retried ELSE r_retried + 1
  /\ r_replaying => r_activity \in {"done", "failed"} /\ r_pc # "start"
  /\ r_retried <= r_faults

SentryInv == SentryTypes /\ ReportsSoFar /\ R!EachFailureIsReported

\* Each step keeps the invariant.
LEMMA SentryStep == SentryConstants /\ SentryInv /\ [R!Next]_(R!vars) => SentryInv'
<1> SUFFICES ASSUME SentryConstants, SentryInv, [R!Next]_(R!vars)
             PROVE  SentryInv'
  OBVIOUS
<1> USE DEF SentryConstants, SentryInv, SentryTypes, R!TypeOK, ReportsSoFar,
            R!EachFailureIsReported
<1>1. CASE UNCHANGED R!vars
  BY <1>1 DEF R!vars
<1>2. CASE R!run
  BY <1>2 DEF R!run
<1>3. CASE R!execute_activity
  BY <1>3 DEF R!execute_activity, R!capture_exception, R!before_send
<1>4. CASE R!ActivityFails
  BY <1>4 DEF R!ActivityFails
<1>5. CASE R!execute_workflow
  BY <1>5 DEF R!execute_workflow, R!capture_exception, R!before_send, R!OutsideReplays
<1>6. CASE R!Complete
  BY <1>6 DEF R!Complete
<1>7. CASE R!LoseTask
  BY <1>7 DEF R!LoseTask
<1>8. CASE R!Query
  BY <1>8 DEF R!Query
<1>9. CASE R!StopWorker
  BY <1>9 DEF R!StopWorker, R!capture_exception, R!before_send
<1> QED
  BY <1>1, <1>2, <1>3, <1>4, <1>5, <1>6, <1>7, <1>8, <1>9 DEF R!Next, R!WorkerStep

\* A failed workflow is reported once for each time its last task was done, one
\* that succeeds never; replays, however many, report nothing, an activity that
\* raises is reported once, and the shutdown of a worker is not
\* (sentry/interceptor.py:23-72, worker.py:22-27).
THEOREM FailuresAreReported == R!Spec => [](R!TypeOK /\ EachFailureIsReported)
<1>0. SentryConstants
  BY WorkersAssumption
<1> USE <1>0
<1>1. R!Init => SentryInv
  <2> SUFFICES ASSUME R!Init PROVE SentryInv
    OBVIOUS
  <2>1. /\ r_reports \in [{"activity", "workflow", "shutdown"} -> Nat]
        /\ DOMAIN r_reports = DOMAIN R!Nothing
        /\ r_reports["activity"] = 0 /\ r_reports["workflow"] = 0 /\ r_reports["shutdown"] = 0
    BY DEF R!Init, R!Nothing
  <2>2. r_retried \in 0..MaxFaults /\ r_faults \in 0..MaxFaults /\ r_queries \in 0..MaxQueries
    BY DEF R!Init, SentryConstants
  <2>3. SentryTypes
    BY <2>1, <2>2 DEF R!Init, SentryTypes, R!TypeOK
  <2>4. ReportsSoFar /\ R!EachFailureIsReported
    BY <2>1 DEF R!Init, ReportsSoFar, R!EachFailureIsReported
  <2> QED
    BY <2>3, <2>4 DEF SentryInv
<1>2. SentryInv => R!TypeOK /\ EachFailureIsReported
  BY DEF SentryInv, SentryTypes, EachFailureIsReported
<1> QED
  BY <1>1, <1>2, SentryStep, PTL DEF R!Spec

-----------------------------------------------------------------------------
(* Executors *)

Entry == [of : Workflows, live : BOOLEAN]

ExecutorTypes ==
  /\ u_lib \in {"gevent", "trio"} /\ u_loop \in {"up", "stopping", "down"}
  /\ u_step \in [Workflows -> 1..(Len(U!run) + 1)]
  /\ u_call \in [Workflows -> {"idle", "submitted", "running", "asking", "resolved", "raised"}]
  /\ u_queue \in Seq(Entry) /\ u_orphans \in Nat /\ u_faults \in 0..MaxFaults

\* The worker has no more calls than slots.
CallsFit ==
  /\ Cardinality(U!Tasks) <= max_concurrent_workflow_tasks
  /\ Cardinality(U!Calling \ U!Tasks) <= max_concurrent_activities

\* An awaited wrapper is queued once, and no thread has its call.
AwaitedOnce ==
  /\ \A i \in DOMAIN u_queue : u_queue[i].live => u_call[u_queue[i].of] = "submitted"
  /\ \A i, k \in DOMAIN u_queue :
       u_queue[i].live /\ u_queue[k].live /\ u_queue[i].of = u_queue[k].of => i = k

ExecutorInv == ExecutorTypes /\ CallsFit /\ AwaitedOnce

\* The instance's operators on sets and sequences are those of this module.
LEMMA SameCount == \A X : U!Cardinality(X) = Cardinality(X)
BY DEF U!Cardinality, Cardinality

\* A call that goes on or ends needs no slot more.
LEMMA NoMoreCalls ==
  ASSUME ExecutorConstants, CallsFit, U!Tasks' \subseteq U!Tasks,
         (U!Calling \ U!Tasks)' \subseteq U!Calling \ U!Tasks
  PROVE  CallsFit'
<1>1. IsFiniteSet(U!Tasks) /\ IsFiniteSet(U!Calling \ U!Tasks)
  <2>1. U!Tasks \subseteq Workflows /\ U!Calling \ U!Tasks \subseteq Workflows
    BY DEF U!Tasks, U!Calling
  <2> QED
    BY <2>1, FS_Subset DEF ExecutorConstants
<1>2. /\ Cardinality(U!Tasks') <= Cardinality(U!Tasks) /\ Cardinality(U!Tasks) \in Nat
      /\ Cardinality(U!Tasks') \in Nat
  BY <1>1, FS_Subset, FS_CardinalityType
<1>3. /\ Cardinality((U!Calling \ U!Tasks)') <= Cardinality(U!Calling \ U!Tasks)
      /\ Cardinality(U!Calling \ U!Tasks) \in Nat
      /\ Cardinality((U!Calling \ U!Tasks)') \in Nat
  BY <1>1, FS_Subset, FS_CardinalityType
<1>4. Cardinality(U!Tasks') <= max_concurrent_workflow_tasks
  BY <1>2 DEF CallsFit, ExecutorConstants
<1>5. Cardinality((U!Calling \ U!Tasks)') <= max_concurrent_activities
  BY <1>3 DEF CallsFit, ExecutorConstants
<1> QED
  BY <1>4, <1>5 DEF CallsFit

\* So it is for a step that leaves every part of a run as it is.
LEMMA CallsGoOn ==
  ASSUME ExecutorConstants, ExecutorTypes, CallsFit, UNCHANGED u_step,
         \A w \in Workflows : u_call'[w] # "idle" => u_call[w] # "idle"
  PROVE  CallsFit'
<1>1. U!Tasks' \subseteq U!Tasks /\ (U!Calling \ U!Tasks)' \subseteq U!Calling \ U!Tasks
  BY DEF U!Tasks, U!Calling, U!Kind
<1> QED
  BY <1>1, NoMoreCalls

\* A call is taken up only for a free slot, and its wrapper is the only one of
\* its workflow that is awaited.
LEMMA TakenUp ==
  ASSUME ExecutorConstants, ExecutorInv, NEW w \in Workflows, U!Poll(w)
  PROVE  ExecutorInv'
<1> USE DEF ExecutorConstants, ExecutorInv
<1>1. /\ u_call[w] = "idle" /\ u_call' \in [Workflows -> {"idle", "submitted", "running", "asking",
                                                     "resolved", "raised"}]
      /\ \A v \in Workflows : v # w => u_call'[v] = u_call[v]
      /\ u_call'[w] # "idle" /\ UNCHANGED <<u_lib, u_loop, u_step, u_orphans, u_faults>>
  BY DEF U!Poll, U!Becomes, ExecutorTypes
<1>2. ExecutorTypes' /\ AwaitedOnce'
  <2>1. CASE UNCHANGED u_queue
    <3>1. \A i \in DOMAIN u_queue : u_queue[i] \in Entry
      BY DEF ExecutorTypes
    <3> QED
      BY <1>1, <2>1, <3>1 DEF ExecutorTypes, AwaitedOnce, Entry
  <2>2. CASE u_queue' = Append(u_queue, [of |-> w, live |-> TRUE]) /\ u_call'[w] = "submitted"
    <3> DEFINE e == [of |-> w, live |-> TRUE]
    <3>1. e \in Entry /\ e.of = w
      BY DEF Entry
    <3>2. u_queue' \in Seq(Entry)
      BY <2>2, <3>1 DEF ExecutorTypes
    <3>3. \A i \in DOMAIN u_queue : u_queue[i] \in Entry
      BY DEF ExecutorTypes
    <3>4. /\ \A i \in DOMAIN u_queue : i \in DOMAIN u_queue' /\ u_queue'[i] = u_queue[i]
          /\ u_queue'[Len(u_queue) + 1] = e
          /\ \A i \in DOMAIN u_queue' : i \in DOMAIN u_queue \/ i = Len(u_queue) + 1
      BY <2>2, <3>1, AppendedElements DEF ExecutorTypes
    <3>5. \A i \in DOMAIN u_queue : u_queue[i].live => u_queue[i].of # w
      BY <1>1 DEF AwaitedOnce
    <3> HIDE DEF e
    <3>6. AwaitedOnce'
      BY <1>1, <2>2, <3>1, <3>3, <3>4, <3>5 DEF AwaitedOnce, Entry
    <3> QED
      BY <1>1, <3>2, <3>6 DEF ExecutorTypes
  <2> QED
    BY <2>1, <2>2, <1>1 DEF U!Poll, U!Becomes, ExecutorTypes
<1>3. CallsFit'
  <2>1. /\ IsFiniteSet(U!Tasks) /\ IsFiniteSet(U!Calling \ U!Tasks)
        /\ U!Calling' = U!Calling \cup {w} /\ w \notin U!Calling
    <3>1. U!Tasks \subseteq Workflows /\ U!Calling \ U!Tasks \subseteq Workflows
      BY DEF U!Tasks, U!Calling
    <3> QED
      BY <1>1, <3>1, FS_Subset DEF U!Calling
  <2>2. /\ Cardinality(U!Tasks) \in Nat /\ Cardinality(U!Calling \ U!Tasks) \in Nat
        /\ Cardinality(U!Tasks \cup {w}) = Cardinality(U!Tasks) + 1
        /\ Cardinality((U!Calling \ U!Tasks) \cup {w}) = Cardinality(U!Calling \ U!Tasks) + 1
    BY <2>1, FS_AddElement, FS_CardinalityType DEF U!Tasks
  <2>3. CASE U!Kind(w) = "task"
    <3>1. U!Tasks' = U!Tasks \cup {w} /\ (U!Calling \ U!Tasks)' = U!Calling \ U!Tasks
      BY <1>1, <2>1, <2>3 DEF U!Tasks, U!Kind
    <3>2. Cardinality(U!Tasks) < max_concurrent_workflow_tasks
      BY <2>3, SameCount DEF U!Poll
    <3> QED
      BY <2>2, <3>1, <3>2 DEF CallsFit
  <2>4. CASE U!Kind(w) # "task"
    <3>1. U!Tasks' = U!Tasks /\ (U!Calling \ U!Tasks)' = (U!Calling \ U!Tasks) \cup {w}
      BY <1>1, <2>1, <2>4 DEF U!Tasks, U!Kind
    <3>2. Cardinality(U!Calling \ U!Tasks) < max_concurrent_activities
      BY <2>4, SameCount DEF U!Poll
    <3> QED
      BY <2>2, <3>1, <3>2 DEF CallsFit
  <2> QED
    BY <2>3, <2>4
<1> QED
  BY <1>2, <1>3

\* The thread that takes a wrapper takes the only awaited one of its workflow.
LEMMA TakeStep ==
  ASSUME ExecutorConstants, ExecutorInv, U!TakeWrapper
  PROVE  ExecutorInv'
<1> USE DEF ExecutorConstants, ExecutorInv
<1>1. /\ u_queue # <<>> /\ u_queue' = Tail(u_queue) /\ Head(u_queue) \in Entry
      /\ UNCHANGED <<u_lib, u_loop, u_step, u_faults>>
  BY DEF U!TakeWrapper, ExecutorTypes
<1>2. u_queue' \in Seq(Entry)
  BY <1>1 DEF ExecutorTypes
<1>3. /\ 1 \in DOMAIN u_queue /\ u_queue[1] = Head(u_queue)
      /\ \A i \in DOMAIN u_queue' : i + 1 \in DOMAIN u_queue /\ u_queue'[i] = u_queue[i + 1]
  BY <1>1, TailElements DEF ExecutorTypes
<1>4. \A i \in DOMAIN u_queue' : i \in Nat /\ i + 1 # 1
  BY <1>2
<1>5. \A i \in DOMAIN u_queue' : u_queue'[i] \in Entry
  BY <1>2
<1>6. CASE Head(u_queue).live
  <2> DEFINE w == Head(u_queue).of
  <2>1. /\ u_call[w] = "submitted" /\ UNCHANGED u_orphans /\ w \in Workflows
        /\ u_call' = [u_call EXCEPT ![w] = "running"]
    BY <1>1, <1>3, <1>6 DEF AwaitedOnce, U!TakeWrapper, U!Becomes, Entry
  <2>2. \A i \in DOMAIN u_queue' : u_queue'[i].live => u_queue'[i].of # w
    BY <1>3, <1>4, <1>6 DEF AwaitedOnce
  <2>3. ExecutorTypes'
    BY <1>1, <1>2, <2>1 DEF ExecutorTypes
  <2>4. AwaitedOnce'
    <3>1. ASSUME NEW i \in DOMAIN u_queue', u_queue'[i].live
          PROVE  u_call'[u_queue'[i].of] = "submitted"
      <4>1. u_queue'[i].of \in Workflows /\ u_queue'[i].of # w
        BY <1>5, <2>2, <3>1 DEF Entry
      <4>2. u_call[u_queue'[i].of] = "submitted"
        BY <1>3, <3>1 DEF AwaitedOnce
      <4> QED
        BY <2>1, <4>1, <4>2 DEF ExecutorTypes
    <3>2. ASSUME NEW i \in DOMAIN u_queue', NEW k \in DOMAIN u_queue', u_queue'[i].live,
                 u_queue'[k].live, u_queue'[i].of = u_queue'[k].of
          PROVE  i = k
      <4>1. i + 1 = k + 1
        BY <1>3, <3>2 DEF AwaitedOnce
      <4> QED
        BY <1>2, <4>1
    <3> QED
      BY <3>1, <3>2 DEF AwaitedOnce
  <2>5. CallsFit'
    BY <1>1, <2>1, CallsGoOn DEF ExecutorTypes
  <2> QED
    BY <2>3, <2>4, <2>5
<1>7. CASE ~Head(u_queue).live
  <2>1. u_orphans' = u_orphans + 1 /\ UNCHANGED u_call
    BY <1>7 DEF U!TakeWrapper
  <2>2. ExecutorTypes'
    BY <1>1, <1>2, <2>1 DEF ExecutorTypes
  <2>3. AwaitedOnce'
    BY <1>3, <1>4, <1>5, <2>1 DEF AwaitedOnce
  <2>4. CallsFit'
    BY <1>1, <2>1, CallsGoOn
  <2> QED
    BY <2>2, <2>3, <2>4
<1> QED
  BY <1>6, <1>7

\* A wrapper whose future is cancelled stays in the queue.
LEMMA CancelStep ==
  ASSUME ExecutorConstants, ExecutorInv, NEW w \in Workflows, U!Cancel(w)
  PROVE  ExecutorInv'
<1> USE DEF ExecutorConstants, ExecutorInv
<1>1. /\ u_call[w] \in {"submitted", "running"} /\ u_call' = [u_call EXCEPT ![w] = "idle"]
      /\ u_faults' \in 0..MaxFaults /\ UNCHANGED <<u_lib, u_loop, u_step>>
  BY DEF U!Cancel, U!Becomes, ExecutorTypes
<1>2. CallsFit'
  BY <1>1, CallsGoOn DEF ExecutorTypes
<1>3. \A i \in DOMAIN u_queue : u_queue[i] \in Entry
  BY DEF ExecutorTypes
<1>4. CASE /\ UNCHANGED u_orphans
           /\ u_queue' = [i \in DOMAIN u_queue |->
                 IF u_queue[i].of = w THEN [u_queue[i] EXCEPT !.live = FALSE] ELSE u_queue[i]]
  <2>1. DOMAIN u_queue' = DOMAIN u_queue
    BY <1>4
  <2>2. \A i \in DOMAIN u_queue :
          /\ u_queue'[i] \in Entry /\ u_queue'[i].of = u_queue[i].of
          /\ u_queue'[i].live => u_queue[i].live /\ u_queue[i].of # w
    BY <1>3, <1>4 DEF Entry
  <2>3. u_queue' \in Seq(Entry)
    <3>1. DOMAIN u_queue = 1..Len(u_queue) /\ Len(u_queue) \in Nat
      BY DEF ExecutorTypes
    <3>2. u_queue' \in [1..Len(u_queue) -> Entry]
      BY <1>4, <2>2, <3>1
    <3> QED
      BY <3>1, <3>2
  <2>4. AwaitedOnce'
    BY <1>1, <1>3, <2>1, <2>2 DEF AwaitedOnce, ExecutorTypes, Entry
  <2> QED
    BY <1>1, <1>2, <1>4, <2>3, <2>4 DEF ExecutorTypes
<1>5. CASE u_call[w] = "running" /\ u_orphans' = u_orphans + 1 /\ UNCHANGED u_queue
  <2>1. AwaitedOnce'
    BY <1>1, <1>3, <1>5 DEF AwaitedOnce, ExecutorTypes, Entry
  <2> QED
    BY <1>1, <1>2, <1>5, <2>1 DEF ExecutorTypes
<1> QED
  BY <1>4, <1>5 DEF U!Cancel

\* A step of a call that no wrapper waits for.
LEMMA CallStepInv ==
  ASSUME ExecutorConstants, ExecutorInv, NEW w \in Workflows,
         u_call[w] \notin {"idle", "submitted"}, NEW s \in {"asking", "resolved", "raised"},
         U!Becomes(w, s), u_faults' \in 0..MaxFaults,
         UNCHANGED <<u_lib, u_loop, u_step, u_queue, u_orphans>>
  PROVE  ExecutorInv'
<1> USE DEF ExecutorConstants, ExecutorInv
<1>1. u_call' = [u_call EXCEPT ![w] = s]
  BY DEF U!Becomes
<1>2. \A i \in DOMAIN u_queue : u_queue[i] \in Entry
  BY DEF ExecutorTypes
<1>3. ExecutorTypes'
  BY <1>1 DEF ExecutorTypes
<1>4. AwaitedOnce'
  BY <1>1, <1>2 DEF AwaitedOnce, ExecutorTypes, Entry
<1>5. CallsFit'
  BY <1>1, CallsGoOn DEF ExecutorTypes
<1> QED
  BY <1>3, <1>4, <1>5

\* The run goes on to its next part when nothing is called.
LEMMA ResumeStep ==
  ASSUME ExecutorConstants, ExecutorInv, NEW w \in Workflows, U!Resume(w),
         u_step[w] <= Len(U!run)
  PROVE  ExecutorInv'
<1> USE DEF ExecutorConstants, ExecutorInv
<1>1. /\ u_call[w] \in {"resolved", "raised"} /\ u_call' = [u_call EXCEPT ![w] = "idle"]
      /\ \A v \in Workflows : v # w => u_step'[v] = u_step[v]
      /\ u_step' \in [Workflows -> 1..(Len(U!run) + 1)]
      /\ UNCHANGED <<u_lib, u_loop, u_queue, u_orphans, u_faults>>
  <2>1. Len(U!run) = 5
    BY DEF U!run
  <2> QED
    BY <2>1 DEF U!Resume, U!Becomes, ExecutorTypes
<1>2. \A i \in DOMAIN u_queue : u_queue[i] \in Entry
  BY DEF ExecutorTypes
<1>3. ExecutorTypes'
  BY <1>1 DEF ExecutorTypes
<1>4. AwaitedOnce'
  BY <1>1, <1>2 DEF AwaitedOnce, ExecutorTypes, Entry
<1>5. U!Tasks' \subseteq U!Tasks /\ (U!Calling \ U!Tasks)' \subseteq U!Calling \ U!Tasks
  BY <1>1 DEF U!Tasks, U!Calling, U!Kind, ExecutorTypes
<1> QED
  BY <1>3, <1>4, <1>5, NoMoreCalls

\* What is called is a part of the run.
CallsAreOfRun == \A w \in Workflows : u_call[w] # "idle" => u_step[w] <= Len(U!run)

\* Each step keeps the invariant.
LEMMA ExecutorStep ==
  ASSUME ExecutorConstants, ExecutorInv, CallsAreOfRun, [U!Next]_(U!vars)
  PROVE  ExecutorInv' /\ CallsAreOfRun'
<1> USE DEF ExecutorConstants, ExecutorInv
<1>0. Len(U!run) = 5
  BY DEF U!run
<1>1. CASE UNCHANGED U!vars
  <2>1. UNCHANGED <<u_lib, u_loop, u_step, u_call, u_queue, u_orphans, u_faults>>
    BY <1>1 DEF U!vars
  <2>2. CallsFit'
    BY <2>1, CallsGoOn
  <2>3. ExecutorTypes' /\ AwaitedOnce' /\ CallsAreOfRun'
    BY <2>1 DEF ExecutorTypes, AwaitedOnce, CallsAreOfRun
  <2> QED
    BY <2>2, <2>3
<1>2. ASSUME NEW w \in Workflows, U!Poll(w) PROVE ExecutorInv' /\ CallsAreOfRun'
  BY <1>2, TakenUp DEF U!Poll, U!Becomes, CallsAreOfRun, ExecutorTypes
<1>3. CASE U!TakeWrapper
  <2>1. ExecutorInv'
    BY <1>3, TakeStep
  <2>2. UNCHANGED u_step
    BY <1>3 DEF U!TakeWrapper
  <2>3. \A w \in Workflows : u_call'[w] # "idle" => u_call[w] # "idle"
    <3>1. 1 \in DOMAIN u_queue /\ u_queue[1] = Head(u_queue) /\ Head(u_queue) \in Entry
      BY <1>3, TailElements DEF U!TakeWrapper, ExecutorTypes
    <3>2. Head(u_queue).live => u_call[Head(u_queue).of] = "submitted"
      BY <3>1 DEF AwaitedOnce
    <3> QED
      BY <1>3, <3>1, <3>2 DEF U!TakeWrapper, U!Becomes, ExecutorTypes, Entry
  <2> QED
    BY <2>1, <2>2, <2>3 DEF CallsAreOfRun
<1>4. ASSUME NEW w \in Workflows, U!wrapper(w) PROVE ExecutorInv' /\ CallsAreOfRun'
  <2>1. PICK s \in {"asking", "resolved"} : U!Becomes(w, s)
    BY <1>4 DEF U!wrapper
  <2>2. /\ u_call[w] = "running" /\ u_faults' \in 0..MaxFaults
        /\ UNCHANGED <<u_lib, u_loop, u_step, u_queue, u_orphans>>
    BY <1>4 DEF U!wrapper, ExecutorTypes
  <2>3. ExecutorInv'
    BY <2>1, <2>2, CallStepInv
  <2> QED
    BY <2>1, <2>2, <2>3 DEF U!Becomes, CallsAreOfRun, ExecutorTypes
<1>5. ASSUME NEW w \in Workflows, U!RunFromThread(w) PROVE ExecutorInv' /\ CallsAreOfRun'
  <2>1. /\ U!Becomes(w, "resolved") /\ u_call[w] = "asking" /\ u_faults' \in 0..MaxFaults
        /\ UNCHANGED <<u_lib, u_loop, u_step, u_queue, u_orphans>>
    BY <1>5 DEF U!RunFromThread, ExecutorTypes
  <2>2. ExecutorInv'
    BY <2>1, CallStepInv
  <2> QED
    BY <2>1, <2>2 DEF U!Becomes, CallsAreOfRun, ExecutorTypes
<1>6. ASSUME NEW w \in Workflows, U!Raise(w) PROVE ExecutorInv' /\ CallsAreOfRun'
  <2>1. /\ U!Becomes(w, "raised") /\ u_call[w] = "running" /\ u_faults' \in 0..MaxFaults
        /\ UNCHANGED <<u_lib, u_loop, u_step, u_queue, u_orphans>>
    BY <1>6 DEF U!Raise, ExecutorTypes
  <2>2. ExecutorInv'
    BY <2>1, CallStepInv
  <2> QED
    BY <2>1, <2>2 DEF U!Becomes, CallsAreOfRun, ExecutorTypes
<1>7. ASSUME NEW w \in Workflows, U!Cancel(w) PROVE ExecutorInv' /\ CallsAreOfRun'
  BY <1>7, CancelStep DEF U!Cancel, U!Becomes, CallsAreOfRun, ExecutorTypes
<1>8. ASSUME NEW w \in Workflows, U!Resume(w) PROVE ExecutorInv' /\ CallsAreOfRun'
  <2>1. u_step[w] <= Len(U!run) /\ u_call' = [u_call EXCEPT ![w] = "idle"]
        /\ \A v \in Workflows : v # w => u_step'[v] = u_step[v]
    BY <1>8 DEF U!Resume, U!Becomes, CallsAreOfRun, ExecutorTypes
  <2> QED
    BY <1>8, <2>1, ResumeStep DEF CallsAreOfRun, ExecutorTypes
<1>9. CASE U!EndOrphan \/ U!Interrupt \/ U!ShutDown
  <2>1. /\ UNCHANGED <<u_lib, u_step, u_call, u_queue, u_faults>> /\ u_orphans' \in Nat
        /\ u_loop' \in {"up", "stopping", "down"}
    BY <1>9 DEF U!EndOrphan, U!Interrupt, U!ShutDown, ExecutorTypes
  <2>2. CallsFit'
    BY <2>1, CallsGoOn
  <2>3. ExecutorTypes' /\ AwaitedOnce' /\ CallsAreOfRun'
    BY <2>1 DEF ExecutorTypes, AwaitedOnce, CallsAreOfRun
  <2> QED
    BY <2>2, <2>3
<1> QED
  BY <1>1, <1>2, <1>3, <1>4, <1>5, <1>6, <1>7, <1>8, <1>9
  DEF U!Next, U!Progress, U!CallStep

\* With all threads taken and none by a call that was given up, every call that
\* has a slot has a thread: none is left to be awaited.
LEMMA SlotsHaveThreads ==
  ASSUME ExecutorConstants, ExecutorInv
  PROVE  U!RoomForEveryCall
<1> USE DEF ExecutorConstants, ExecutorInv
<1> DEFINE busy == {w \in Workflows : u_call[w] \in {"running", "asking"}}
<1> SUFFICES ASSUME U!Threads = U!max_workers, NEW i \in DOMAIN u_queue, u_queue[i].live,
                    u_orphans = 0
             PROVE  FALSE
  BY DEF U!RoomForEveryCall, ExecutorTypes
<1> DEFINE w == u_queue[i].of
<1>1. w \in Workflows /\ u_call[w] = "submitted"
  <2>1. u_queue[i] \in Entry
    BY DEF ExecutorTypes
  <2> QED
    BY <2>1 DEF AwaitedOnce, Entry
<1>2. busy \cup {w} \subseteq U!Calling /\ w \notin busy
  BY <1>1 DEF U!Calling
<1>3. /\ IsFiniteSet(busy) /\ IsFiniteSet(U!Calling) /\ IsFiniteSet(U!Tasks)
      /\ U!Tasks \subseteq U!Calling
  <2>1. busy \subseteq Workflows /\ U!Calling \subseteq Workflows /\ U!Tasks \subseteq U!Calling
    BY DEF U!Calling, U!Tasks
  <2> QED
    BY <2>1, FS_Subset
<1>4. /\ Cardinality(U!Calling \ U!Tasks) = Cardinality(U!Calling) - Cardinality(U!Tasks)
      /\ Cardinality(U!Calling) \in Nat /\ Cardinality(U!Tasks) \in Nat
  <2>1. U!Calling \cap U!Tasks = U!Tasks
    BY <1>3
  <2> QED
    BY <2>1, <1>3, FS_Difference, FS_CardinalityType
<1>5. Cardinality(busy \cup {w}) = Cardinality(busy) + 1 /\ Cardinality(busy) \in Nat
  BY <1>2, <1>3, FS_AddElement, FS_CardinalityType
<1>6. Cardinality(busy \cup {w}) <= Cardinality(U!Calling)
  BY <1>2, <1>3, FS_Subset
<1>7. U!Threads = Cardinality(busy)
  BY <1>5, SameCount DEF U!Threads
<1> HIDE DEF busy, w
<1> QED
  BY <1>4, <1>5, <1>6, <1>7 DEF CallsFit, U!max_workers

\* The wrappers in the queue whose calls were given up.
GivenUp == {i \in DOMAIN u_queue : ~u_queue[i].live}

\* A thread, or a wrapper, of a call that was given up stands for a fault.
OrphansAreFaults == u_orphans + Cardinality(GivenUp) <= u_faults

\* They are finitely many.
LEMMA GivenUpAreFinite ==
  ASSUME ExecutorTypes
  PROVE  IsFiniteSet(GivenUp) /\ Cardinality(GivenUp) \in Nat
<1>1. Len(u_queue) \in Nat /\ GivenUp \subseteq 1..Len(u_queue)
  BY DEF GivenUp, ExecutorTypes
<1>2. IsFiniteSet(1..Len(u_queue))
  BY <1>1, FS_Interval
<1>3. IsFiniteSet(GivenUp)
  BY <1>1, <1>2, FS_Subset
<1> QED
  BY <1>3, FS_CardinalityType

\* With no thread more, what is left of the wrappers that were given up and no
\* fault less, it stays so.
LEMMA NoMoreOrphans ==
  ASSUME ExecutorTypes, ExecutorTypes', OrphansAreFaults, GivenUp' \subseteq GivenUp,
         u_orphans' <= u_orphans, u_faults' >= u_faults
  PROVE  OrphansAreFaults'
<1>1. IsFiniteSet(GivenUp)
  BY GivenUpAreFinite
<1>2. /\ Cardinality(GivenUp') <= Cardinality(GivenUp)
      /\ Cardinality(GivenUp) \in Nat /\ Cardinality(GivenUp') \in Nat
  BY <1>1, FS_Subset, FS_CardinalityType
<1> QED
  BY <1>2 DEF OrphansAreFaults, ExecutorTypes

\* The wrappers behind the first one move up.
LEMMA GivenUpMoveUp ==
  ASSUME ExecutorTypes, u_queue # <<>>, u_queue' = Tail(u_queue)
  PROVE  /\ IsFiniteSet(GivenUp) /\ Cardinality(GivenUp') \in Nat
         /\ Cardinality(GivenUp') <= Cardinality(GivenUp \ {1})
<1> DEFINE up == [i \in GivenUp \ {1} |-> i - 1]
<1>1. IsFiniteSet(GivenUp) /\ Len(u_queue) \in Nat
  BY GivenUpAreFinite DEF ExecutorTypes
<1>2. \A i : i \in DOMAIN u_queue' <=> i \in Nat \ {0} /\ i + 1 \in DOMAIN u_queue
  BY DEF ExecutorTypes
<1>3. \A i \in DOMAIN u_queue' : u_queue'[i] = u_queue[i + 1]
  BY TailElements DEF ExecutorTypes
<1>4. \A i \in GivenUp \ {1} : i \in Nat \ {0, 1} /\ i - 1 \in GivenUp'
  <2>1. \A i \in GivenUp \ {1} : i \in Nat \ {0, 1} /\ (i - 1) + 1 = i /\ i \in DOMAIN u_queue
    BY <1>1 DEF GivenUp, ExecutorTypes
  <2>2. \A i \in GivenUp \ {1} : i - 1 \in DOMAIN u_queue'
    BY <1>2, <2>1
  <2> QED
    BY <1>3, <2>1, <2>2 DEF GivenUp
<1>5. \A k \in GivenUp' : k + 1 \in GivenUp \ {1} /\ up[k + 1] = k
  <2>1. \A k \in GivenUp' : k \in Nat \ {0} /\ k + 1 \in DOMAIN u_queue /\ ~u_queue[k + 1].live
    BY <1>2, <1>3 DEF GivenUp
  <2>2. \A k \in GivenUp' : k + 1 \in GivenUp \ {1} /\ (k + 1) - 1 = k
    BY <2>1 DEF GivenUp
  <2> QED
    BY <2>2
<1>6. up \in Surjection(GivenUp \ {1}, GivenUp')
  BY <1>4, <1>5 DEF Surjection
<1>7. IsFiniteSet(GivenUp \ {1})
  BY <1>1, FS_Subset
<1> HIDE DEF up
<1> QED
  BY <1>1, <1>6, <1>7, FS_Surjection, FS_CardinalityType

\* A call is given up for a fault; its wrapper, or its thread, is the one more.
LEMMA OrphanStep ==
  ASSUME ExecutorConstants, ExecutorInv, ExecutorTypes', OrphansAreFaults, [U!Next]_(U!vars)
  PROVE  OrphansAreFaults'
<1> USE DEF ExecutorInv
<1>0. /\ u_orphans \in Nat /\ u_faults \in Nat /\ u_orphans' \in Nat /\ u_faults' \in Nat
      /\ \A i \in DOMAIN u_queue : u_queue[i] \in Entry
  BY DEF ExecutorTypes, ExecutorConstants
<1>1. ASSUME UNCHANGED u_queue, u_orphans' <= u_orphans, u_faults' >= u_faults
      PROVE  OrphansAreFaults'
  BY <1>1, NoMoreOrphans DEF GivenUp
<1>2. CASE UNCHANGED U!vars
  BY <1>0, <1>1, <1>2 DEF U!vars
<1>3. ASSUME NEW w \in Workflows, U!Poll(w) PROVE OrphansAreFaults'
  <2>1. UNCHANGED <<u_orphans, u_faults>>
    BY <1>3 DEF U!Poll
  <2>2. CASE UNCHANGED u_queue
    BY <1>0, <1>1, <2>1, <2>2
  <2>3. CASE u_queue' = Append(u_queue, [of |-> w, live |-> TRUE])
    <3> DEFINE e == [of |-> w, live |-> TRUE]
    <3>1. e \in Entry /\ e.live
      BY DEF Entry
    <3> HIDE DEF e
    <3>2. /\ \A i \in DOMAIN u_queue : i \in DOMAIN u_queue' /\ u_queue'[i] = u_queue[i]
          /\ u_queue'[Len(u_queue) + 1] = e
          /\ \A i \in DOMAIN u_queue' : i \in DOMAIN u_queue \/ i = Len(u_queue) + 1
      BY <2>3, <3>1, AppendedElements DEF ExecutorTypes, e
    <3>3. GivenUp' \subseteq GivenUp
      BY <3>1, <3>2 DEF GivenUp
    <3> QED
      BY <1>0, <2>1, <3>3, NoMoreOrphans
  <2> QED
    BY <1>3, <2>2, <2>3 DEF U!Poll
<1>4. CASE U!TakeWrapper
  <2>1. u_queue # <<>> /\ u_queue' = Tail(u_queue) /\ UNCHANGED u_faults
    BY <1>4 DEF U!TakeWrapper
  <2>2. 1 \in DOMAIN u_queue /\ u_queue[1] = Head(u_queue)
    BY <2>1, TailElements DEF ExecutorTypes
  <2>3. /\ IsFiniteSet(GivenUp) /\ Cardinality(GivenUp') \in Nat
        /\ Cardinality(GivenUp') <= Cardinality(GivenUp \ {1})
    BY <2>1, GivenUpMoveUp
  <2>4. /\ Cardinality(GivenUp) \in Nat /\ Cardinality(GivenUp \ {1}) \in Nat
        /\ Cardinality(GivenUp \ {1}) <= Cardinality(GivenUp)
        /\ 1 \in GivenUp => Cardinality(GivenUp \ {1}) = Cardinality(GivenUp) - 1
    BY <2>3, FS_RemoveElement, FS_Subset, FS_CardinalityType
  <2>5. CASE Head(u_queue).live
    <3>1. UNCHANGED u_orphans
      BY <1>4, <2>5 DEF U!TakeWrapper
    <3> QED
      BY <1>0, <2>1, <2>3, <2>4, <3>1 DEF OrphansAreFaults
  <2>6. CASE ~Head(u_queue).live
    <3>1. u_orphans' = u_orphans + 1 /\ 1 \in GivenUp
      BY <1>4, <2>2, <2>6 DEF U!TakeWrapper, GivenUp
    <3> QED
      BY <1>0, <2>1, <2>3, <2>4, <3>1 DEF OrphansAreFaults
  <2> QED
    BY <2>5, <2>6
<1>5. ASSUME NEW w \in Workflows, U!Cancel(w) PROVE OrphansAreFaults'
  <2>1. u_faults' = u_faults + 1
    BY <1>5 DEF U!Cancel
  <2>2. IsFiniteSet(GivenUp) /\ Cardinality(GivenUp) \in Nat
    BY GivenUpAreFinite
  <2>3. CASE u_orphans' = u_orphans + 1 /\ UNCHANGED u_queue
    BY <1>0, <2>1, <2>2, <2>3 DEF OrphansAreFaults, GivenUp
  <2>4. CASE /\ UNCHANGED u_orphans
             /\ u_queue' = [i \in DOMAIN u_queue |->
                   IF u_queue[i].of = w THEN [u_queue[i] EXCEPT !.live = FALSE] ELSE u_queue[i]]
    <3>1. /\ DOMAIN u_queue' = DOMAIN u_queue
          /\ \A i \in DOMAIN u_queue : u_queue[i].of # w => u_queue'[i] = u_queue[i]
      BY <2>4
    <3>2. \A i \in GivenUp' : i \in GivenUp \/ (i \in DOMAIN u_queue /\ u_queue[i].live /\ u_queue[i].of = w)
      BY <3>1 DEF GivenUp
    <3>3. PICK k : \A i \in DOMAIN u_queue : u_queue[i].live /\ u_queue[i].of = w => i = k
      BY DEF AwaitedOnce
    <3>4. GivenUp' \subseteq (GivenUp \cup {k})
      BY <3>2, <3>3
    <3>5. /\ IsFiniteSet(GivenUp \cup {k}) /\ Cardinality(GivenUp \cup {k}) \in Nat
          /\ Cardinality(GivenUp \cup {k}) <= Cardinality(GivenUp) + 1
      <4>1. IsFiniteSet(GivenUp \cup {k})
        BY <2>2, FS_AddElement
      <4>2. Cardinality(GivenUp \cup {k}) \in {Cardinality(GivenUp), Cardinality(GivenUp) + 1}
        BY <2>2, FS_AddElement
      <4> QED
        BY <2>2, <4>1, <4>2, FS_CardinalityType
    <3>6. Cardinality(GivenUp') \in Nat /\ Cardinality(GivenUp') <= Cardinality(GivenUp \cup {k})
      BY <3>4, <3>5, FS_Subset, FS_CardinalityType
    <3> QED
      BY <1>0, <2>1, <2>2, <2>4, <3>5, <3>6 DEF OrphansAreFaults
  <2> QED
    BY <1>5, <2>3, <2>4 DEF U!Cancel
<1>6. CASE \E w \in Workflows : U!wrapper(w) \/ U!RunFromThread(w) \/ U!Resume(w)
  BY <1>0, <1>1, <1>6 DEF U!wrapper, U!RunFromThread, U!Resume
<1>7. CASE \E w \in Workflows : U!Raise(w)
  BY <1>0, <1>1, <1>7 DEF U!Raise
<1>8. CASE U!EndOrphan \/ U!Interrupt \/ U!ShutDown
  BY <1>0, <1>1, <1>8 DEF U!EndOrphan, U!Interrupt, U!ShutDown
<1> QED
  BY <1>2, <1>3, <1>4, <1>5, <1>6, <1>7, <1>8 DEF U!Next, U!Progress, U!CallStep

\* As many threads as there are slots for workflow tasks and for activities are
\* "enough room": an awaited call is without one only because of calls that were
\* given up (gevent_async/worker.py:49-52, executor.py:10-38,
\* trio_async/worker.py:25-33).
THEOREM ThreadsSuffice == U!Spec => [](U!TypeOK /\ RoomForEveryCall)
<1>0. ExecutorConstants
  BY WorkersAssumption
<1> USE <1>0
<1>1. U!Init => ExecutorInv /\ CallsAreOfRun /\ OrphansAreFaults
  <2> SUFFICES ASSUME U!Init PROVE ExecutorInv /\ CallsAreOfRun /\ OrphansAreFaults
    OBVIOUS
  <2>1. Len(U!run) = 5 /\ u_queue = <<>> /\ u_queue \in Seq(Entry) /\ DOMAIN u_queue = {}
    BY DEF U!Init, U!run
  <2>2. ExecutorTypes /\ CallsAreOfRun
    BY <2>1 DEF U!Init, ExecutorTypes, ExecutorConstants, CallsAreOfRun
  <2>3. U!Calling = {} /\ U!Tasks = {}
    BY DEF U!Init, U!Calling, U!Tasks
  <2>4. CallsFit
    <3>1. Cardinality({}) = 0 /\ U!Calling \ U!Tasks = {}
      BY <2>3, FS_EmptySet
    <3> QED
      BY <2>3, <3>1 DEF CallsFit, ExecutorConstants
  <2>5. AwaitedOnce
    BY <2>1 DEF AwaitedOnce
  <2>6. OrphansAreFaults
    <3>1. GivenUp = {} /\ Cardinality({}) = 0
      BY <2>1, FS_EmptySet DEF GivenUp
    <3> QED
      BY <3>1 DEF U!Init, OrphansAreFaults
  <2> QED
    BY <2>2, <2>4, <2>5, <2>6 DEF ExecutorInv
<1>2. ExecutorInv /\ CallsAreOfRun /\ [U!Next]_(U!vars) => ExecutorInv' /\ CallsAreOfRun'
  BY ExecutorStep
<1>3. ExecutorInv /\ ExecutorInv' /\ OrphansAreFaults /\ [U!Next]_(U!vars) => OrphansAreFaults'
  BY OrphanStep DEF ExecutorInv
<1>4. ExecutorInv => RoomForEveryCall
  BY SlotsHaveThreads DEF RoomForEveryCall
<1>5. ExecutorInv /\ OrphansAreFaults => U!TypeOK
  <2> SUFFICES ASSUME ExecutorInv, OrphansAreFaults PROVE U!TypeOK
    OBVIOUS
  <2>2. Cardinality(GivenUp) \in Nat
    BY GivenUpAreFinite DEF ExecutorInv
  <2>3. u_orphans \in 0..MaxFaults
    BY <2>2 DEF OrphansAreFaults, ExecutorInv, ExecutorTypes, ExecutorConstants
  <2>4. \A i \in DOMAIN u_queue : u_queue[i] \in Entry
    BY DEF ExecutorInv, ExecutorTypes
  <2> QED
    BY <2>3, <2>4 DEF U!TypeOK, ExecutorInv, ExecutorTypes, Entry
<1> QED
  BY <1>1, <1>2, <1>3, <1>4, <1>5, PTL DEF U!Spec

-----------------------------------------------------------------------------
(* Multiprocessing *)

\* An activity is told the process in which its workflow began, and that is the
\* one that has it until it ends.
BegunIsKept ==
  /\ y_told \in [Workflows -> WorkflowWorkers \cup {Nobody}]
  /\ y_result \in [Workflows -> [starting : WorkflowWorkers, ending : WorkflowWorkers] \cup {Nobody}]
  /\ \A w \in Workflows : y_pc[w] \in {"activity", "answered"} =>
       y_pid[w] = y_told[w] /\ y_told[w] \in WorkflowWorkers
  /\ \A w \in Workflows : y_pc[w] = "done" =>
       y_result[w] \in [starting : WorkflowWorkers, ending : WorkflowWorkers]

ProcessInv == Y!TypeOK /\ BegunIsKept /\ Y!MainEndsLast

\* No worker comes up again.
LEMMA NoneComesUp ==
  ASSUME Y!TypeOK, Y!MainEndsLast,
         y_process' \in [Y!Workers -> {"up", "stopping", "exited"}],
         \A p \in Y!Workers :
           /\ y_process[p] = "exited" => y_process'[p] = "exited"
           /\ y_process[p] # "up" => y_process'[p] # "up",
         UNCHANGED <<y_pc, y_result>>,
         y_main' = "ended" \/ y_broken' =>
           y_main = "ended" \/ y_broken \/ \A p \in Y!Workers : y_process'[p] = "exited",
         BegunIsKept
  PROVE  Y!MainEndsLast'
<1>1. WorkflowWorkers \subseteq Y!Workers
  BY DEF Y!Workers
<1>2. \A w \in Workflows : y_pc[w] = "done" => y_result[w].starting \in WorkflowWorkers
  BY DEF BegunIsKept
<1> QED
  BY <1>1, <1>2 DEF Y!TypeOK, Y!MainEndsLast

\* Each step keeps the invariant.
LEMMA ProcessStep == ProcessConstants /\ ProcessInv /\ [Y!Next]_(Y!vars) => ProcessInv'
<1> SUFFICES ASSUME ProcessConstants, ProcessInv, [Y!Next]_(Y!vars)
             PROVE  ProcessInv'
  OBVIOUS
<1> USE DEF ProcessConstants, ProcessInv, Y!TypeOK, BegunIsKept
<1>1. CASE UNCHANGED Y!vars
  BY <1>1 DEF Y!vars, Y!MainEndsLast
<1>2. ASSUME NEW w \in Workflows, Y!BeginRun(w) PROVE ProcessInv'
  BY <1>2 DEF Y!BeginRun, Y!Up, Y!MainEndsLast
<1>3. ASSUME NEW w \in Workflows, Y!echo_pid_activity(w) PROVE ProcessInv'
  BY <1>3 DEF Y!echo_pid_activity, Y!Up, Y!MainEndsLast
<1>4. ASSUME NEW w \in Workflows, Y!EndRun(w) PROVE ProcessInv'
  BY <1>4 DEF Y!EndRun, Y!Up, Y!MainEndsLast
<1>5. ASSUME NEW p \in Y!Workers, Y!EndWorker(p) PROVE ProcessInv'
  BY <1>5, NoneComesUp DEF Y!EndWorker
<1>6. CASE Y!EndMain
  BY <1>6, NoneComesUp DEF Y!EndMain, Y!AllOver
<1>7. CASE Y!Interrupt
  BY <1>7, NoneComesUp DEF Y!Interrupt
<1>8. ASSUME NEW p \in Y!Workers, Y!WorkerFails(p) PROVE ProcessInv'
  BY <1>8, NoneComesUp DEF Y!WorkerFails
<1>9. ASSUME NEW p \in Y!Workers, Y!ProcessDies(p) PROVE ProcessInv'
  BY <1>9, NoneComesUp DEF Y!ProcessDies
<1> QED
  BY <1>1, <1>2, <1>3, <1>4, <1>5, <1>6, <1>7, <1>8, <1>9
  DEF Y!Next, Y!Progress, Y!WorkflowStep

\* However its workers end -- by an error, by ctrl+c, by death -- main ends last,
\* and a workflow ends in the process it began in unless that is gone
\* (worker_multiprocessing/worker.py:38-146, workflows.py:8-22).
THEOREM MainIsLast == Y!Spec => [](Y!TypeOK /\ MainEndsLast)
<1>0. ProcessConstants
  BY WorkersAssumption
<1> USE <1>0
<1>1. Y!Init => ProcessInv
  BY DEF Y!Init, ProcessInv, Y!TypeOK, BegunIsKept, Y!MainEndsLast
<1>2. ProcessInv => Y!TypeOK /\ MainEndsLast
  BY DEF ProcessInv, MainEndsLast
<1> QED
  BY <1>1, <1>2, ProcessStep, PTL DEF Y!Spec

-----------------------------------------------------------------------------
(* NexusCancel *)

\* What the caller knows of an operation is so: an answered one has completed,
\* the workflow of an acknowledged request is not at work.  Requests come after
\* the first answer, and whatever is not done by then is awaited.
RequestsAreHeard ==
  /\ \A l \in Language :
       /\ nc_task[l] = "answered" => nc_handler[l] = "completed"
       /\ nc_task[l] = "cancelled" => nc_request[l] = "received"
       /\ nc_request[l] = "received" => nc_handler[l] \notin {"unstarted", "working"}
       /\ nc_pc = "racing" => nc_request[l] = "none"
       /\ nc_pc = "cancelling" /\ nc_task[l] = "pending" => l \in nc_pending
       /\ nc_pc = "returned" => nc_task[l] # "pending"

CancelInv == NC!TypeOK /\ RequestsAreHeard

\* Each step keeps the invariant.
LEMMA NexusCancelStep == CancelInv /\ [NC!Next]_(NC!vars) => CancelInv'
<1> SUFFICES ASSUME CancelInv, [NC!Next]_(NC!vars)
             PROVE  CancelInv'
  OBVIOUS
<1> USE DEF CancelInv, NC!TypeOK, RequestsAreHeard
<1>1. CASE UNCHANGED NC!vars
  BY <1>1 DEF NC!vars
<1>2. CASE NC!TakeFirst
  BY <1>2 DEF NC!TakeFirst
<1>3. CASE NC!Return
  BY <1>3 DEF NC!Return, NC!AllAwaited
<1>4. ASSUME NEW l \in Language, NC!StartHandler(l) PROVE CancelInv'
  BY <1>4 DEF NC!StartHandler
<1>5. ASSUME NEW l \in Language, NC!FinishHandler(l) PROVE CancelInv'
  <2>1. CASE nc_handler[l] = "working" /\ nc_handler' = [nc_handler EXCEPT ![l] = "completed"]
    BY <1>5, <2>1 DEF NC!FinishHandler
  <2>2. CASE nc_handler[l] = "cleaning" /\ nc_handler' = [nc_handler EXCEPT ![l] = "cancelled"]
    BY <1>5, <2>2 DEF NC!FinishHandler
  <2> QED
    BY <1>5, <2>1, <2>2 DEF NC!FinishHandler
<1>6. ASSUME NEW l \in Language, NC!ReceiveRequest(l) PROVE CancelInv'
  BY <1>6 DEF NC!ReceiveRequest
<1>7. ASSUME NEW l \in Language, NC!Resolve(l) PROVE CancelInv'
  <2>1. CASE nc_handler[l] = "completed" /\ nc_task' = [nc_task EXCEPT ![l] = "answered"]
    BY <1>7, <2>1 DEF NC!Resolve
  <2>2. CASE nc_request[l] = "received" /\ nc_task' = [nc_task EXCEPT ![l] = "cancelled"]
    BY <1>7, <2>2 DEF NC!Resolve
  <2>3. CASE nc_task' = [nc_task EXCEPT ![l] = "timed out"]
    BY <1>7, <2>3 DEF NC!Resolve
  <2> QED
    BY <1>7, <2>1, <2>2, <2>3 DEF NC!Resolve
<1> QED
  BY <1>1, <1>2, <1>3, <1>4, <1>5, <1>6, <1>7 DEF NC!Next

\* For every set of languages, a caller that returns leaves no handler at work
\* that its cancellation request has not reached, but those that timed out.
THEOREM HandlersHearOfCancellation == NC!Spec => [](NC!TypeOK /\ NC!HandlersHearOfIt)
<1>1. NC!Init => CancelInv
  BY DEF NC!Init, CancelInv, NC!TypeOK, RequestsAreHeard
<1>2. CancelInv => NC!TypeOK /\ NC!HandlersHearOfIt
  BY DEF CancelInv, NC!TypeOK, RequestsAreHeard, NC!HandlersHearOfIt
<1> QED
  BY <1>1, <1>2, NexusCancelStep, PTL DEF NC!Spec

-----------------------------------------------------------------------------
(* FileProcessing *)

\* A clean-up times out only once the work is over.
NoEarlyCleanUp ==
  \A w \in Workflows : "clean up" \in fp_slow[w] => fp_pc[w] \in {"clean up", "closed"}

FileInv == FP!TypeOK /\ NoEarlyCleanUp /\ FP!FileLivesWithItsRun

\* Each step keeps the invariant.
LEMMA FileStep == FileInv /\ [FP!Next]_(FP!vars) => FileInv'
<1> SUFFICES ASSUME FileInv, [FP!Next]_(FP!vars)
             PROVE  FileInv'
  OBVIOUS
<1> USE DEF FileInv, FP!TypeOK, NoEarlyCleanUp, FP!FileLivesWithItsRun, FP!Goto, FP!Retried
<1>1. CASE UNCHANGED FP!vars
  BY <1>1 DEF FP!vars
<1>2. ASSUME NEW w \in Workflows, FP!Select(w) PROVE FileInv'
  BY <1>2 DEF FP!Select
<1>3. ASSUME NEW w \in Workflows, FP!Download(w) PROVE FileInv'
  BY <1>3 DEF FP!Download
<1>4. ASSUME NEW w \in Workflows, FP!Work(w) PROVE FileInv'
  BY <1>4 DEF FP!Work
<1>5. ASSUME NEW w \in Workflows, FP!WorkFails(w) PROVE FileInv'
  BY <1>5 DEF FP!WorkFails, FP!AfterWork
<1>6. ASSUME NEW w \in Workflows, FP!CleanUp(w) PROVE FileInv'
  BY <1>6 DEF FP!CleanUp
<1>7. ASSUME NEW w \in Workflows, FP!TimeOut(w) PROVE FileInv'
  BY <1>7 DEF FP!TimeOut
<1>8. ASSUME NEW w \in Workflows, FP!FinishLate(w) PROVE FileInv'
  <2>1. CASE /\ "download" \in fp_late[w]
             /\ fp_late' = [fp_late EXCEPT ![w] = @ \ {"download"}]
             /\ fp_files' = fp_files \cup {w}
    BY <1>8, <2>1 DEF FP!FinishLate
  <2>2. CASE /\ "clean up" \in fp_late[w]
             /\ fp_late' = [fp_late EXCEPT ![w] = @ \ {"clean up"}]
             /\ fp_files' = fp_files \ {w}
    BY <1>8, <2>2 DEF FP!FinishLate
  <2> QED
    BY <1>8, <2>1, <2>2 DEF FP!FinishLate
<1> QED
  BY <1>1, <1>2, <1>3, <1>4, <1>5, <1>6, <1>7, <1>8 DEF FP!Next, FP!RunStep

\* For any number of workflows on the one directory, each finds its file while
\* it works on it and leaves none behind that was not downloaded too late.
THEOREM FilesLiveWithTheirRuns == FP!Spec => [](FP!TypeOK /\ FP!FileLivesWithItsRun)
<1>1. FP!Init => FileInv
  BY DEF FP!Init, FileInv, FP!TypeOK, NoEarlyCleanUp, FP!FileLivesWithItsRun
<1>2. FileInv => FP!TypeOK /\ FP!FileLivesWithItsRun
  BY DEF FileInv
<1> QED
  BY <1>1, <1>2, FileStep, PTL DEF FP!Spec

-----------------------------------------------------------------------------
(* WaitForCancel *)

\* Heartbeats go on as long as the function: so a time-out means a crash, and
\* only what has not begun is cancelled at once.
EndsForAReason ==
  /\ wc_fn = "waiting" => wc_heartbeat
  /\ wc_outcome = "timed out" => wc_fn = "crashed"
  /\ wc_outcome = "cancelled" => wc_fn = "unstarted"
  /\ wc_pc = "failed" => wc_outcome \in {"timed out", "cancelled"}

ActivityInv == WC!TypeOK /\ EndsForAReason

\* The workflow fails only when the activity's worker crashed or the activity
\* had not begun.
THEOREM ActivityLivesUntilCancelled == WC!Spec => [](WC!TypeOK /\ WC!LivesUntilCancelled)
<1>1. WC!Init => ActivityInv
  BY DEF WC!Init, ActivityInv, WC!TypeOK, EndsForAReason
<1>2. ActivityInv /\ [WC!Next]_(WC!vars) => ActivityInv'
  <2> SUFFICES ASSUME ActivityInv, [WC!Next]_(WC!vars)
               PROVE  ActivityInv'
    OBVIOUS
  <2> USE DEF ActivityInv, WC!TypeOK, EndsForAReason
  <2>0. CASE UNCHANGED WC!vars
    BY <2>0 DEF WC!vars
  <2>1. CASE WC!SendSignal
    BY <2>1 DEF WC!SendSignal
  <2>8. CASE WC!Run
    BY <2>8 DEF WC!Run
  <2>6. CASE WC!CancelActivity
    <3>1. /\ UNCHANGED <<wc_fn, wc_heartbeat, wc_outcome>>
          /\ wc_signal' = "handled" /\ wc_pc' \in {"stuck", "waiting"}
          /\ wc_cancel' \in {wc_cancel, "requested"}
      BY <2>6 DEF WC!CancelActivity
    <3> QED
      BY <3>1
  <2>2. CASE WC!Return
    BY <2>2 DEF WC!Return
  <2>3. CASE WC!StartActivity
    BY <2>3 DEF WC!StartActivity, WC!auto_heartbeater
  <2>4. CASE WC!Heartbeat \/ WC!FinishActivity \/ WC!Crash
    BY <2>4 DEF WC!Heartbeat, WC!FinishActivity, WC!Crash
  <2>5. CASE WC!CancelUnstarted
    BY <2>5 DEF WC!CancelUnstarted
  <2>7. CASE WC!HeartbeatTimeout
    <3>1. wc_fn = "crashed"
      BY <2>7 DEF WC!HeartbeatTimeout
    <3> QED
      BY <2>7, <3>1 DEF WC!HeartbeatTimeout
  <2> QED
    BY <2>0, <2>1, <2>2, <2>3, <2>4, <2>5, <2>6, <2>7, <2>8 DEF WC!Next, WC!Step
<1>3. ActivityInv => WC!TypeOK /\ WC!LivesUntilCancelled
  BY DEF ActivityInv, EndsForAReason, WC!LivesUntilCancelled
<1> QED
  BY <1>1, <1>2, <1>3, PTL DEF WC!Spec

-----------------------------------------------------------------------------
(* HelloCancellation *)

\* The activity begins when run is entered, and the clean-up after the try.
CleanupInTurn ==
  /\ hc_pc = "start" => hc_never = "none"
  /\ hc_pc \in {"activity", "cleanup"} => hc_never # "none"
  /\ hc_pc \in {"start", "activity"} => hc_cleanup = "none"

CleanupInv == HC!TypeOK /\ CleanupInTurn /\ HC!CleansUp

\* However often attempts are lost, the workflow does not close before it has
\* cleaned up, nor clean up while its activity may begin anew.
THEOREM CleanupIsDone == HC!Spec => [](HC!TypeOK /\ HC!CleansUp)
<1> USE LeftoversAssumption DEF CleanupInv, HC!TypeOK, CleanupInTurn, HC!CleansUp
<1>1. HC!Init => CleanupInv
  <2>1. HC!Init => hc_lost \in 0..MaxLostTries
    BY DEF HC!Init
  <2> QED
    BY <2>1, Zenon DEF HC!Init
<1>2. CleanupInv /\ [HC!Next]_(HC!vars) => CleanupInv'
  <2> SUFFICES ASSUME CleanupInv, [HC!Next]_(HC!vars)
               PROVE  CleanupInv'
    OBVIOUS
  <2>0. CASE UNCHANGED HC!vars
    BY <2>0 DEF HC!vars
  <2>1. CASE HC!RequestCancel
    BY <2>1 DEF HC!RequestCancel
  <2>2. CASE HC!RunStep
    BY <2>2 DEF HC!RunStep, HC!EnterRun, HC!CancelBeforeRun, HC!LeaveTry, HC!EndRun
  <2>3. CASE HC!NeverStep
    BY <2>3 DEF HC!NeverStep, HC!StartNever, HC!HeartbeatRaises, HC!RetryNever
  <2>4. CASE HC!RunCleanup
    BY <2>4 DEF HC!RunCleanup
  <2>5. CASE HC!Lose
    BY <2>5 DEF HC!Lose
  <2> QED
    BY <2>0, <2>1, <2>2, <2>3, <2>4, <2>5 DEF HC!Next
<1>3. CleanupInv => HC!TypeOK /\ HC!CleansUp
  OBVIOUS
<1> QED
  BY <1>1, <1>2, <1>3, PTL DEF HC!Spec

-----------------------------------------------------------------------------
(* KnowledgeBase *)

DocumentNames == {Documents[n] : n \in DOMAIN Documents}

Troubles == [write : SUBSET DocumentNames, upload : SUBSET DocumentNames,
             unlink : SUBSET DocumentNames]

\* The files are those of the first documents, in their order, each at most once.
FilesInOrder ==
  /\ kb_pc \in {"write", "upload", "store", "update", "finally", "ended"}
  /\ kb_temp_files \in Seq(DocumentNames) /\ Len(kb_temp_files) <= Len(Documents)
  /\ \A k \in DOMAIN kb_temp_files : kb_temp_files[k] = Documents[k]
  /\ kb_i \in Nat \ {0}
  /\ kb_pc = "write" => kb_i = Len(kb_temp_files) + 1
  /\ kb_pc \in {"upload", "finally"} => kb_i <= Len(kb_temp_files) + 1
  /\ kb_pc \in {"store", "update", "ended"} => kb_i = 1
  /\ kb_pc \in {"upload", "store", "update"} => Len(kb_temp_files) = Len(Documents)
  /\ kb_trouble \in Troubles

Listed(x, m) == \E k \in DOMAIN kb_temp_files : k >= m /\ kb_temp_files[k] = x

\* On the disk are the files listed, the one whose writing failed, and, while
\* they are removed, those that could not be and those whose turn will come.
DiskIsKnown ==
  /\ kb_disk \subseteq DocumentNames
  /\ kb_pc \in {"write", "upload", "store", "update"} =>
       /\ kb_trouble.write = {} /\ kb_trouble.unlink = {}
       /\ \A x : x \in kb_disk <=> Listed(x, 1)
  /\ kb_pc = "finally" =>
       /\ \A x : x \in kb_disk <=>
            x \in kb_trouble.write \cup kb_trouble.unlink \/ Listed(x, kb_i)
       /\ \A x : Listed(x, kb_i) => x \notin kb_trouble.write \cup kb_trouble.unlink
  /\ kb_pc = "ended" => kb_disk = kb_trouble.unlink \cup kb_trouble.write

Uploaded(x) == \E k \in DOMAIN kb_file_ids : kb_file_ids[k] = x

\* Of the files whose turn has been, one is uploaded or in trouble; a store is
\* made of all that are uploaded once each has had its turn.
UploadIsKnown ==
  /\ kb_file_ids \in Seq(DocumentNames)
  /\ kb_pc = "write" => kb_file_ids = <<>> /\ kb_trouble.upload = {}
  /\ kb_pc = "upload" =>
       \A k \in DOMAIN kb_temp_files :
         IF k < kb_i THEN Uploaded(kb_temp_files[k]) <=> kb_temp_files[k] \notin kb_trouble.upload
         ELSE ~Uploaded(kb_temp_files[k]) /\ kb_temp_files[k] \notin kb_trouble.upload
  /\ kb_pc \in {"store", "update"} \/ kb_stores # <<>> =>
       /\ kb_file_ids # <<>>
       /\ \A x \in DocumentNames : Uploaded(x) <=> x \notin kb_trouble.upload
  /\ kb_pc \in {"write", "upload", "store"} => kb_stores = <<>>
  /\ kb_stores \in {<<>>, <<kb_file_ids>>}
  /\ kb_pc = "update" => kb_stores = <<kb_file_ids>>
  /\ kb_workflow_file # NoStore => kb_workflow_file = 1 /\ kb_stores = <<kb_file_ids>>

KnowledgeInv == FilesInOrder /\ DiskIsKnown /\ UploadIsKnown

\* The names of the documents differ, and so do those of the files.
LEMMA FilesDiffer ==
  KnowledgeConstants /\ FilesInOrder =>
    /\ Documents \in Seq(DocumentNames)
    /\ \A k, l \in DOMAIN kb_temp_files : kb_temp_files[k] = kb_temp_files[l] => k = l
<1> SUFFICES ASSUME KnowledgeConstants, FilesInOrder
             PROVE  /\ Documents \in Seq(DocumentNames)
                    /\ \A k, l \in DOMAIN kb_temp_files :
                         kb_temp_files[k] = kb_temp_files[l] => k = l
  OBVIOUS
<1>1. Documents \in Seq(DocumentNames)
  BY DEF KnowledgeConstants, DocumentNames
<1>2. DOMAIN kb_temp_files \subseteq DOMAIN Documents
  BY <1>1 DEF FilesInOrder
<1> QED
  BY <1>1, <1>2 DEF KnowledgeConstants, FilesInOrder

\* Writing a file keeps the invariant.
LEMMA WriteStep == KnowledgeConstants /\ KnowledgeInv /\ KB!temporary_files => KnowledgeInv'
<1> SUFFICES ASSUME KnowledgeConstants, KnowledgeInv, KB!temporary_files
             PROVE  KnowledgeInv'
  OBVIOUS
<1>1. /\ kb_pc = "write" /\ UNCHANGED <<kb_file_ids, kb_stores, kb_workflow_file>>
      /\ FilesInOrder /\ DiskIsKnown /\ UploadIsKnown /\ Documents \in Seq(DocumentNames)
      /\ kb_i = Len(kb_temp_files) + 1
  BY FilesDiffer DEF KB!temporary_files, KnowledgeInv, FilesInOrder
<1>2. CASE kb_i > Len(Documents)
  <2>1. /\ kb_pc' = "upload" /\ kb_i' = 1 /\ UNCHANGED <<kb_disk, kb_temp_files, kb_trouble>>
    BY <1>2 DEF KB!temporary_files, KB!GoTo
  <2>2. FilesInOrder'
    BY <1>1, <1>2, <2>1 DEF FilesInOrder
  <2>3. DiskIsKnown'
    BY <1>1, <2>1 DEF DiskIsKnown, Listed
  <2>4. UploadIsKnown'
    BY <1>1, <2>1 DEF UploadIsKnown, Uploaded, FilesInOrder
  <2> QED
    BY <2>2, <2>3, <2>4 DEF KnowledgeInv
<1>3. CASE ~(kb_i > Len(Documents))
  <2> DEFINE x == Documents[kb_i]
  <2>1. /\ x \in DocumentNames /\ kb_disk' = kb_disk \cup {x} /\ kb_i \in DOMAIN Documents
    BY <1>1, <1>3 DEF KB!temporary_files, FilesInOrder
  <2>2. CASE kb_temp_files' = Append(kb_temp_files, x) /\ kb_i' = kb_i + 1 /\ UNCHANGED <<kb_pc, kb_trouble>>
    <3>1. /\ kb_temp_files' \in Seq(DocumentNames) /\ Len(kb_temp_files') = kb_i
          /\ DOMAIN kb_temp_files' = 1..kb_i /\ DOMAIN kb_temp_files = 1..(kb_i - 1)
          /\ \A k \in DOMAIN kb_temp_files : kb_temp_files'[k] = kb_temp_files[k]
          /\ kb_temp_files'[kb_i] = x
      BY <1>1, <2>1, <2>2 DEF FilesInOrder
    <3>2. FilesInOrder'
      BY <1>1, <1>3, <2>2, <3>1 DEF FilesInOrder
    <3>3. \A y : Listed(y, 1)' <=> Listed(y, 1) \/ y = x
      BY <1>1, <3>1 DEF Listed, FilesInOrder
    <3>4. DiskIsKnown'
      BY <1>1, <2>1, <2>2, <3>3 DEF DiskIsKnown
    <3>5. UploadIsKnown'
      BY <1>1, <2>2 DEF UploadIsKnown, Uploaded
    <3> QED
      BY <3>2, <3>4, <3>5 DEF KnowledgeInv
  <2>3. CASE KB!GoTo("finally") /\ KB!Troubled("write", x) /\ UNCHANGED kb_temp_files
    <3>1. /\ kb_pc' = "finally" /\ kb_i' = 1
          /\ kb_trouble' = [kb_trouble EXCEPT !["write"] = @ \cup {x}]
      BY <2>3 DEF KB!GoTo, KB!Troubled
    <3>2. /\ kb_trouble' \in Troubles /\ kb_trouble'.write = {x} /\ kb_trouble'.unlink = {}
          /\ kb_trouble'.upload = {}
      BY <1>1, <2>1, <3>1 DEF FilesInOrder, DiskIsKnown, UploadIsKnown, Troubles
    <3>3. FilesInOrder'
      BY <1>1, <2>3, <3>1, <3>2 DEF FilesInOrder
    <3>4. ~Listed(x, 1)
      BY <1>1, <2>1 DEF Listed, FilesInOrder, KnowledgeConstants
    <3>5. DiskIsKnown'
      BY <1>1, <2>1, <2>3, <3>1, <3>2, <3>4 DEF DiskIsKnown, Listed
    <3>6. UploadIsKnown'
      BY <1>1, <3>1, <3>2 DEF UploadIsKnown, Uploaded
    <3> QED
      BY <3>3, <3>5, <3>6 DEF KnowledgeInv
  <2> QED
    BY <1>3, <2>2, <2>3 DEF KB!temporary_files
<1> QED
  BY <1>2, <1>3

\* Uploading a file keeps the invariant.
LEMMA UploadStep == KnowledgeConstants /\ KnowledgeInv /\ KB!upload_files_to_openai => KnowledgeInv'
<1> SUFFICES ASSUME KnowledgeConstants, KnowledgeInv, KB!upload_files_to_openai
             PROVE  KnowledgeInv'
  OBVIOUS
<1>1. /\ kb_pc = "upload" /\ UNCHANGED <<kb_disk, kb_temp_files, kb_stores, kb_workflow_file>>
      /\ FilesInOrder /\ DiskIsKnown /\ UploadIsKnown /\ Documents \in Seq(DocumentNames)
      /\ \A k, l \in DOMAIN kb_temp_files : kb_temp_files[k] = kb_temp_files[l] => k = l
      /\ kb_stores = <<>>
  BY FilesDiffer DEF KB!upload_files_to_openai, KnowledgeInv, UploadIsKnown
<1>2. CASE kb_i > Len(kb_temp_files)
  <2>1. /\ kb_pc' = (IF kb_file_ids = <<>> THEN "finally" ELSE "store") /\ kb_i' = 1
        /\ UNCHANGED <<kb_file_ids, kb_trouble>>
    BY <1>2 DEF KB!upload_files_to_openai, KB!GoTo
  <2>2. FilesInOrder'
    BY <1>1, <2>1 DEF FilesInOrder
  <2>3. DiskIsKnown'
    BY <1>1, <2>1 DEF DiskIsKnown, Listed
  <2>4. \A x \in DocumentNames : \E k \in DOMAIN kb_temp_files : kb_temp_files[k] = x /\ k < kb_i
    <3>1. DOMAIN kb_temp_files = DOMAIN Documents /\ \A k \in DOMAIN kb_temp_files : k < kb_i
      BY <1>1, <1>2 DEF FilesInOrder
    <3> QED
      BY <1>1, <3>1 DEF DocumentNames, FilesInOrder
  <2>5. UploadIsKnown'
    BY <1>1, <2>1, <2>4 DEF UploadIsKnown, Uploaded
  <2> QED
    BY <2>2, <2>3, <2>5 DEF KnowledgeInv
<1>3. CASE ~(kb_i > Len(kb_temp_files))
  <2> DEFINE x == kb_temp_files[kb_i]
  <2>1. /\ kb_i' = kb_i + 1 /\ UNCHANGED kb_pc /\ kb_i \in DOMAIN kb_temp_files
        /\ x \in DocumentNames /\ ~Uploaded(x) /\ x \notin kb_trouble.upload
    BY <1>1, <1>3 DEF KB!upload_files_to_openai, FilesInOrder, UploadIsKnown
  <2>2. CASE kb_file_ids' = Append(kb_file_ids, x) /\ UNCHANGED kb_trouble
    <3>1. /\ kb_file_ids' \in Seq(DocumentNames)
          /\ \A y : Uploaded(y)' <=> Uploaded(y) \/ y = x
      BY <1>1, <2>1, <2>2 DEF UploadIsKnown, Uploaded
    <3>2. FilesInOrder'
      BY <1>1, <1>3, <2>1, <2>2 DEF FilesInOrder
    <3>3. DiskIsKnown'
      BY <1>1, <2>1, <2>2 DEF DiskIsKnown, Listed
    <3>4. UploadIsKnown'
      <4>1. \A k \in DOMAIN kb_temp_files : kb_temp_files[k] = x <=> k = kb_i
        BY <1>1, <2>1
      <4> QED
        BY <1>1, <2>1, <2>2, <3>1, <4>1 DEF UploadIsKnown, FilesInOrder
    <3> QED
      BY <3>2, <3>3, <3>4 DEF KnowledgeInv
  <2>3. CASE KB!Troubled("upload", x) /\ UNCHANGED kb_file_ids
    <3>1. /\ kb_trouble' \in Troubles /\ kb_trouble'.upload = kb_trouble.upload \cup {x}
          /\ kb_trouble'.write = kb_trouble.write /\ kb_trouble'.unlink = kb_trouble.unlink
      <4>1. kb_trouble' = [kb_trouble EXCEPT !["upload"] = @ \cup {x}] /\ kb_trouble \in Troubles
        BY <1>1, <2>3 DEF KB!Troubled, FilesInOrder
      <4> QED
        BY <2>1, <4>1 DEF Troubles
    <3>2. FilesInOrder'
      BY <1>1, <1>3, <2>1, <2>3, <3>1 DEF FilesInOrder
    <3>3. DiskIsKnown'
      BY <1>1, <2>1, <2>3, <3>1 DEF DiskIsKnown, Listed
    <3>4. UploadIsKnown'
      <4>1. \A k \in DOMAIN kb_temp_files : kb_temp_files[k] = x <=> k = kb_i
        BY <1>1, <2>1
      <4> QED
        BY <1>1, <2>1, <2>3, <3>1, <4>1 DEF UploadIsKnown, FilesInOrder, Uploaded
    <3> QED
      BY <3>2, <3>3, <3>4 DEF KnowledgeInv
  <2> QED
    BY <1>3, <2>2, <2>3 DEF KB!upload_files_to_openai
<1> QED
  BY <1>2, <1>3

\* Removing a file keeps the invariant.
LEMMA UnlinkStep == KnowledgeConstants /\ KnowledgeInv /\ KB!Unlink => KnowledgeInv'
<1> SUFFICES ASSUME KnowledgeConstants, KnowledgeInv, KB!Unlink
             PROVE  KnowledgeInv'
  OBVIOUS
<1>1. /\ kb_pc = "finally" /\ UNCHANGED <<kb_temp_files, kb_file_ids, kb_stores, kb_workflow_file>>
      /\ FilesInOrder /\ DiskIsKnown /\ UploadIsKnown
      /\ \A k, l \in DOMAIN kb_temp_files : kb_temp_files[k] = kb_temp_files[l] => k = l
  BY FilesDiffer DEF KB!Unlink, KnowledgeInv
<1>2. CASE kb_i > Len(kb_temp_files)
  <2>1. kb_pc' = "ended" /\ kb_i' = 1 /\ UNCHANGED <<kb_disk, kb_trouble>>
    BY <1>2 DEF KB!Unlink, KB!GoTo
  <2>2. \A x : ~Listed(x, kb_i)
    BY <1>1, <1>2 DEF Listed, FilesInOrder
  <2>3. FilesInOrder'
    BY <1>1, <2>1 DEF FilesInOrder
  <2>4. DiskIsKnown'
    BY <1>1, <2>1, <2>2 DEF DiskIsKnown
  <2>5. UploadIsKnown'
    BY <1>1, <2>1 DEF UploadIsKnown, Uploaded
  <2> QED
    BY <2>3, <2>4, <2>5 DEF KnowledgeInv
<1>3. CASE ~(kb_i > Len(kb_temp_files))
  <2> DEFINE x == kb_temp_files[kb_i]
  <2>1. /\ kb_i' = kb_i + 1 /\ UNCHANGED kb_pc /\ kb_i \in DOMAIN kb_temp_files
        /\ x \in DocumentNames /\ Listed(x, kb_i)
    BY <1>1, <1>3 DEF KB!Unlink, FilesInOrder, Listed
  <2>2. \A y : Listed(y, kb_i)' <=> Listed(y, kb_i) /\ y # x
    BY <1>1, <2>1 DEF Listed, FilesInOrder
  <2>3. CASE kb_disk' = kb_disk \ {x} /\ UNCHANGED kb_trouble
    <3>1. FilesInOrder'
      BY <1>1, <1>3, <2>1, <2>3 DEF FilesInOrder
    <3>2. DiskIsKnown'
      BY <1>1, <2>1, <2>2, <2>3 DEF DiskIsKnown
    <3>3. UploadIsKnown'
      BY <1>1, <2>1, <2>3 DEF UploadIsKnown, Uploaded
    <3> QED
      BY <3>1, <3>2, <3>3 DEF KnowledgeInv
  <2>4. CASE KB!Troubled("unlink", x) /\ UNCHANGED kb_disk
    <3>1. /\ kb_trouble' \in Troubles /\ kb_trouble'.unlink = kb_trouble.unlink \cup {x}
          /\ kb_trouble'.write = kb_trouble.write /\ kb_trouble'.upload = kb_trouble.upload
      <4>1. kb_trouble' = [kb_trouble EXCEPT !["unlink"] = @ \cup {x}] /\ kb_trouble \in Troubles
        BY <1>1, <2>4 DEF KB!Troubled, FilesInOrder
      <4> QED
        BY <2>1, <4>1 DEF Troubles
    <3>2. FilesInOrder'
      BY <1>1, <1>3, <2>1, <2>4, <3>1 DEF FilesInOrder
    <3>3. DiskIsKnown'
      BY <1>1, <2>1, <2>2, <2>4, <3>1 DEF DiskIsKnown
    <3>4. UploadIsKnown'
      BY <1>1, <2>1, <2>4, <3>1 DEF UploadIsKnown, Uploaded
    <3> QED
      BY <3>2, <3>3, <3>4 DEF KnowledgeInv
  <2> QED
    BY <1>3, <2>3, <2>4 DEF KB!Unlink
<1> QED
  BY <1>2, <1>3

\* However the script ends and whatever fails on the way, for every set of
\* documents, it leaves on the disk only what it could not remove or write, and
\* names only a store that has every document it could upload.
THEOREM FilesAreRemoved == KB!Spec => [](KB!TypeOK /\ KB!FilesAreCleanedUp)
<1>0. KnowledgeConstants
  BY LeftoversAssumption
<1>1. KB!Init => KnowledgeInv
  <2> SUFFICES ASSUME KB!Init PROVE KnowledgeInv
    OBVIOUS
  <2>1. /\ <<>> \in Seq(DocumentNames) /\ Len(<<>>) = 0 /\ Len(Documents) \in Nat
        /\ kb_trouble \in Troubles
    BY <1>0 DEF KnowledgeConstants, Troubles, KB!Init
  <2>2. FilesInOrder
    BY <2>1 DEF KB!Init, FilesInOrder
  <2>3. DiskIsKnown
    BY DEF KB!Init, DiskIsKnown, Listed
  <2>4. UploadIsKnown
    BY <2>1 DEF KB!Init, UploadIsKnown
  <2> QED
    BY <2>2, <2>3, <2>4 DEF KnowledgeInv
<1>2. KnowledgeInv /\ [KB!Next]_(KB!vars) => KnowledgeInv'
  <2> SUFFICES ASSUME KnowledgeInv, [KB!Next]_(KB!vars) PROVE KnowledgeInv'
    OBVIOUS
  <2>0. CASE UNCHANGED KB!vars
    BY <2>0 DEF KB!vars, KnowledgeInv, FilesInOrder, DiskIsKnown, UploadIsKnown, Listed, Uploaded
  <2>1. CASE KB!temporary_files \/ KB!upload_files_to_openai \/ KB!Unlink
    BY <1>0, <2>1, WriteStep, UploadStep, UnlinkStep
  <2>2. CASE KB!create_vector_store_with_assistant
    <3>1. /\ kb_pc = "store" /\ kb_pc' \in {"update", "finally"} /\ kb_i' = 1
          /\ UNCHANGED <<kb_disk, kb_temp_files, kb_file_ids, kb_workflow_file, kb_trouble>>
          /\ \/ kb_stores' = Append(kb_stores, kb_file_ids)
             \/ kb_pc' = "finally" /\ UNCHANGED kb_stores
      BY <2>2 DEF KB!create_vector_store_with_assistant, KB!GoTo
    <3>2. FilesInOrder'
      BY <3>1 DEF KnowledgeInv, FilesInOrder
    <3>3. DiskIsKnown'
      BY <3>1 DEF KnowledgeInv, DiskIsKnown, Listed
    <3>4. kb_stores = <<>> /\ Append(<<>>, kb_file_ids) = <<kb_file_ids>>
      BY <3>1 DEF KnowledgeInv, UploadIsKnown
    <3>5. UploadIsKnown'
      BY <3>1, <3>4 DEF KnowledgeInv, UploadIsKnown, Uploaded
    <3> QED
      BY <3>2, <3>3, <3>5 DEF KnowledgeInv
  <2>3. CASE KB!update_workflow_files
    <3>1. /\ kb_pc = "update" /\ kb_pc' = "finally" /\ kb_i' = 1
          /\ kb_workflow_file' \in {kb_workflow_file, Len(kb_stores)}
          /\ UNCHANGED <<kb_disk, kb_temp_files, kb_file_ids, kb_stores, kb_trouble>>
      BY <2>3 DEF KB!update_workflow_files, KB!GoTo
    <3>2. FilesInOrder'
      BY <3>1 DEF KnowledgeInv, FilesInOrder
    <3>3. DiskIsKnown'
      BY <3>1 DEF KnowledgeInv, DiskIsKnown, Listed
    <3>4. kb_stores = <<kb_file_ids>> /\ Len(kb_stores) = 1
      BY <3>1 DEF KnowledgeInv, UploadIsKnown
    <3>5. UploadIsKnown'
      BY <3>1, <3>4 DEF KnowledgeInv, UploadIsKnown, Uploaded
    <3> QED
      BY <3>2, <3>3, <3>5 DEF KnowledgeInv
  <2> QED
    BY <2>0, <2>1, <2>2, <2>3 DEF KB!Next
<1>3. KnowledgeInv => KB!TypeOK /\ KB!FilesAreCleanedUp
  <2> SUFFICES ASSUME KnowledgeInv PROVE KB!TypeOK /\ KB!FilesAreCleanedUp
    OBVIOUS
  <2>1. KB!Names = DocumentNames /\ Len(Documents) \in Nat
    BY <1>0 DEF KB!Names, KB!Range, DocumentNames, KnowledgeConstants
  <2>2. \A q \in Seq(DocumentNames) : KB!Range(q) \subseteq DocumentNames
    BY DEF KB!Range
  <2>3. KB!TypeOK
    <3>1. kb_i \in 1..(Len(Documents) + 1)
      BY <2>1 DEF KnowledgeInv, FilesInOrder
    <3>2. kb_workflow_file \in {NoStore} \cup DOMAIN kb_stores
      BY DEF KnowledgeInv, UploadIsKnown
    <3> QED
      BY <2>1, <2>2, <3>1, <3>2 DEF KnowledgeInv, FilesInOrder, DiskIsKnown, UploadIsKnown, KB!TypeOK
  <2>4. kb_workflow_file # NoStore =>
          /\ KB!Range(kb_stores[kb_workflow_file]) = KB!Names \ kb_trouble.upload
          /\ kb_stores[kb_workflow_file] # <<>>
    <3> SUFFICES ASSUME kb_workflow_file # NoStore
                 PROVE  /\ KB!Range(kb_stores[kb_workflow_file]) = KB!Names \ kb_trouble.upload
                        /\ kb_stores[kb_workflow_file] # <<>>
      OBVIOUS
    <3>1. kb_stores[kb_workflow_file] = kb_file_ids /\ kb_file_ids # <<>> /\ kb_file_ids \in Seq(DocumentNames)
      BY DEF KnowledgeInv, UploadIsKnown
    <3>2. \A x \in DocumentNames : x \in KB!Range(kb_file_ids) <=> x \notin kb_trouble.upload
      <4>1. kb_stores = <<kb_file_ids>> /\ <<kb_file_ids>> # <<>>
        BY DEF KnowledgeInv, UploadIsKnown
      <4>2. \A x : Uploaded(x) <=> x \in KB!Range(kb_file_ids)
        BY DEF Uploaded, KB!Range
      <4> QED
        BY <4>1, <4>2 DEF KnowledgeInv, UploadIsKnown
    <3> QED
      BY <2>1, <2>2, <3>1, <3>2
  <2>5. (kb_pc = "ended" => kb_disk = kb_trouble.unlink \cup kb_trouble.write) /\ Len(kb_stores) <= 1
    <3>1. Len(<<>>) <= 1 /\ Len(<<kb_file_ids>>) <= 1
      OBVIOUS
    <3> QED
      BY <3>1 DEF KnowledgeInv, DiskIsKnown, UploadIsKnown
  <2> QED
    BY <2>3, <2>4, <2>5 DEF KB!FilesAreCleanedUp
<1> QED
  BY <1>1, <1>2, <1>3, PTL DEF KB!Spec

\* Together: no handler works on, no activity ends too early or goes on without
\* the clean-up, no file stays behind.
THEOREM NothingIsAbandoned ==
  NC!Spec /\ FP!Spec /\ WC!Spec /\ HC!Spec /\ KB!Spec => []WorkIsNotAbandoned
<1>1. NC!Spec => []NC!HandlersHearOfIt
  BY HandlersHearOfCancellation, PTL
<1>2. FP!Spec => []FP!FileLivesWithItsRun
  BY FilesLiveWithTheirRuns, PTL
<1>3. WC!Spec => []WC!LivesUntilCancelled
  BY ActivityLivesUntilCancelled, PTL
<1>4. HC!Spec => []HC!CleansUp
  BY CleanupIsDone, PTL
<1>5. KB!Spec => []KB!FilesAreCleanedUp
  BY FilesAreRemoved, PTL
<1> QED
  BY <1>1, <1>2, <1>3, <1>4, <1>5, PTL DEF WorkIsNotAbandoned
=============================================================================
