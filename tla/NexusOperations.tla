--------------------------- MODULE NexusOperations ---------------------------
(***************************************************************************)
(* nexus_sync_operations, hello_nexus and nexus_multiple_args: workflows   *)
(* that call operations of a service they know nothing else of.  Behind    *)
(* nexus_sync_operations is one GreetingWorkflow (module Greeting), that   *)
(* answers with queries and an update; my_sync_operation answers itself;   *)
(* the other operations start a workflow under an id made of their input.  *)
(*                                                                         *)
(* External: the server asks again when an answer is lost or late, which   *)
(* runs the handler again; a workflow is started once for each operation,  *)
(* and refused while another operation's has its id: whether that fails    *)
(* the operation or lets the server ask again is left open.  A result      *)
(* reaches the operation that started its workflow.                        *)
(***************************************************************************)
EXTENDS Integers, Sequences

CONSTANTS Callers, None, MaxLost    \* bound: answers lost

VARIABLES
  service, input,        \* the sample, and what each caller passes on
  pc,                    \* how many operations each has begun
  op,                    \* the current one: "idle", "requested", "started", "failed"
  attempt,               \* of set_language
  log,                   \* the answers it has
  runs,                  \* workflows behind operations, in order of their start
  previous,              \* what each update of the greeting workflow returns
  lost,
  greetings, language, approved, closed, asked, status, lockQueue  \* of Greeting

callerVars == <<pc, op, attempt, log>>
greetingVars == <<greetings, language, approved, closed, asked, status, lockQueue>>
vars == <<service, input, callerVars, runs, previous, lost, greetingVars>>

Updates == Callers \X (1..(MaxLost + 1))
GreetingWorkflow ==
  INSTANCE Greeting WITH Languages <- {"ENGLISH", "CHINESE", "ARABIC"},
    English <- "ENGLISH", Known <- {"ENGLISH", "CHINESE"},
    Served <- {"ENGLISH", "CHINESE", "ARABIC"}, Calls <- Updates

\* What the caller workflows call, one after the other.
Operations ==
  [nexus_sync_operations |-> <<"get_languages", "set_language", "get_language">>,
   hello_nexus |-> <<"my_sync_operation", "my_workflow_run_operation">>,
   nexus_multiple_args |-> <<"hello">>]

Inputs == [nexus_sync_operations |-> {"ARABIC"}, hello_nexus |-> {"world", "other"},
           nexus_multiple_args |-> {"en", "es", "xx"}]

\* Variant: the id has the name only, which all callers share.
idOfTheName(c) == service
id(c) == <<service, input[c]>>

\* create starts the greeting workflow, unless it runs already.
Init ==
  /\ service \in DOMAIN Operations /\ input \in [Callers -> Inputs[service]]
  /\ pc = [c \in Callers |-> 0] /\ op = [c \in Callers |-> "idle"]
  /\ attempt = [c \in Callers |-> 1] /\ log = [c \in Callers |-> <<>>]
  /\ runs = <<>> /\ previous = [u \in Updates |-> None] /\ lost = 0
  /\ GreetingWorkflow!Init

Operation(c) == Operations[service][pc[c]]
Ended(c) == op[c] = "failed" \/ Len(log[c]) = Len(Operations[service])

-----------------------------------------------------------------------------
(* The caller and the server between them. *)

Execute(c) ==
  /\ op[c] = "idle" /\ ~Ended(c)
  /\ pc' = [pc EXCEPT ![c] = @ + 1] /\ op' = [op EXCEPT ![c] = "requested"]
  /\ UNCHANGED <<service, input, attempt, log, runs, previous, lost, greetingVars>>

Answer(c, a) == /\ log' = [log EXCEPT ![c] = Append(@, a)] /\ op' = [op EXCEPT ![c] = "idle"]
                /\ UNCHANGED <<pc, attempt>>

\* A query of the greeting workflow, or an answer made up at once.  When it is
\* lost it is made again: nothing shows.
Serve(c) ==
  /\ op[c] = "requested"
  /\ Operation(c) \in {"get_languages", "get_language", "my_sync_operation"}
  /\ Answer(c, CASE Operation(c) = "get_languages" -> greetings
                 [] Operation(c) = "get_language" -> language
                 [] OTHER -> input[c])
  /\ UNCHANGED <<service, input, runs, previous, lost, greetingVars>>

-----------------------------------------------------------------------------
(* set_language: an update with an id of its own for every attempt. *)

Returns(u) == previous' = [previous EXCEPT ![u] = language]

set_language(c) ==
  /\ op[c] = "requested" /\ Operation(c) = "set_language"
  /\ op' = [op EXCEPT ![c] = "started"]
  /\ LET u == <<c, attempt[c]>> IN
       \/ GreetingWorkflow!SetKnown(u, input[c]) /\ Returns(u)
       \/ GreetingWorkflow!Enqueue(u, input[c]) /\ UNCHANGED previous
  /\ UNCHANGED <<service, input, pc, attempt, log, runs, lost>>

GreetingStep(u) ==
  /\ \/ GreetingWorkflow!Fetch(u) /\ UNCHANGED previous
     \/ GreetingWorkflow!Fetched(u) /\ Returns(u)
  /\ UNCHANGED <<service, input, callerVars, runs, lost>>

UpdateReturns(c) ==
  /\ op[c] = "started" /\ Operation(c) = "set_language"
  /\ previous[<<c, attempt[c]>>] # None
  /\ Answer(c, previous[<<c, attempt[c]>>])
  /\ UNCHANGED <<service, input, runs, previous, lost, greetingVars>>

\* The answer is lost, or not there in ten seconds; the update goes on.
AskAgain(c) ==
  /\ op[c] = "started" /\ Operation(c) = "set_language" /\ lost < MaxLost
  /\ lost' = lost + 1 /\ attempt' = [attempt EXCEPT ![c] = @ + 1]
  /\ op' = [op EXCEPT ![c] = "requested"]
  /\ UNCHANGED <<service, input, pc, log, runs, previous, greetingVars>>

-----------------------------------------------------------------------------
(* Operations that start a workflow. *)

Mine(c) == {i \in DOMAIN runs : runs[i].by = c}

Taken(c) == \E i \in DOMAIN runs : runs[i].id = id(c) /\ runs[i].open

\* ctx.start_workflow; the start may be asked for again after it was done.
start_workflow(c) ==
  /\ op[c] = "requested" /\ Operation(c) \in {"my_workflow_run_operation", "hello"}
  /\ IF Mine(c) # {} THEN op' = [op EXCEPT ![c] = "started"] /\ UNCHANGED runs
     ELSE /\ ~Taken(c) /\ op' = [op EXCEPT ![c] = "started"]
          /\ runs' = Append(runs, [id |-> id(c), by |-> c, of |-> input[c], open |-> TRUE])
  /\ UNCHANGED <<service, input, pc, attempt, log, previous, lost, greetingVars>>

Refuse(c) ==
  /\ op[c] = "requested" /\ Operation(c) \in {"my_workflow_run_operation", "hello"}
  /\ Mine(c) = {} /\ Taken(c) /\ op' = [op EXCEPT ![c] = "failed"]
  /\ UNCHANGED <<service, input, pc, attempt, log, runs, previous, lost, greetingVars>>

LoseStart(c) ==
  /\ op[c] = "started" /\ Mine(c) # {} /\ lost < MaxLost
  /\ lost' = lost + 1 /\ op' = [op EXCEPT ![c] = "requested"]
  /\ UNCHANGED <<service, input, pc, attempt, log, runs, previous, greetingVars>>

\* run; ValueError only fails its task, which is tried for ever.
RunWorkflow(i) ==
  /\ runs[i].open /\ runs[i].of # "xx"
  /\ runs' = [runs EXCEPT ![i].open = FALSE]
  /\ Answer(runs[i].by, runs[i].of)
  /\ UNCHANGED <<service, input, previous, lost, greetingVars>>

-----------------------------------------------------------------------------
CallerStep(c) == \/ Execute(c) \/ Serve(c) \/ set_language(c) \/ UpdateReturns(c)
                 \/ start_workflow(c)
                 \/ \E u \in {c} \X (1..(MaxLost + 1)) : GreetingStep(u)
                 \/ \E i \in Mine(c) : RunWorkflow(i)

Next == \E c \in Callers : CallerStep(c) \/ AskAgain(c) \/ Refuse(c) \/ LoseStart(c)

Fairness == \A c \in Callers : WF_vars(CallerStep(c))
Spec == Init /\ [][Next]_vars /\ Fairness

-----------------------------------------------------------------------------
TypeOK ==
  /\ service \in DOMAIN Operations /\ input \in [Callers -> Inputs[service]]
  /\ op \in [Callers -> {"idle", "requested", "started", "failed"}]
  /\ attempt \in [Callers -> 1..(MaxLost + 1)] /\ lost \in 0..MaxLost
  /\ \A c \in Callers : Len(log[c]) \in {pc[c] - 1, pc[c]}
  /\ GreetingWorkflow!TypeOK

\* nexus_sync_operations: the assertion of the caller workflow holds, however
\* many callers set the language and however often one of them is asked again;
\* no two are told that they changed it, and without lost answers the first
\* one is.
LanguageIsSet ==
  service = "nexus_sync_operations" =>
    /\ \A c \in Callers : Len(log[c]) = 3 => log[c][3] = "ARABIC"
    /\ \A u, v \in Updates :
         previous[u] = "ENGLISH" /\ previous[v] = "ENGLISH" => u = v
    /\ lost = 0 /\ language = "ARABIC" => \E c \in Callers : previous[<<c, 1>>] = "ENGLISH"

\* hello_nexus, nexus_multiple_args: an operation is one workflow, however
\* often its start is asked for, its answer is made of its own input, and it
\* is only refused while another caller has the same request on its way.
OperationIsOneRun ==
  \A c \in Callers :
    /\ \A i, j \in Mine(c) : i = j
    /\ \A i \in DOMAIN log[c] :
         service # "nexus_sync_operations" => log[c][i] = input[c]
    /\ op[c] = "failed" => \E d \in Callers \ {c} : input[d] = input[c]

\* Every caller ends, except when its workflow does not know the language.
CallersEnd == \A c \in Callers : <>(Ended(c) \/ input[c] = "xx")
=============================================================================
