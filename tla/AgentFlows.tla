----------------------------- MODULE AgentFlows -----------------------------
(***************************************************************************)
(* openai_agents: workflows that run agents one after the other, several   *)
(* at a time, behind a guardrail, until a judge is content, or on a server *)
(* that keeps state between them.                                          *)
(*                                                                         *)
(* External: Runner.run executes the calls to the model as activities and  *)
(* returns the agent's output or raises; a guardrail runs beside the agent *)
(* it guards; a stateful server lives on a worker of its own, and a call   *)
(* to one that is lost raises.                                             *)
(***************************************************************************)
EXTENDS Integers, Sequences, FiniteSets

CONSTANTS
  Items,                 \* the searches a planner may ask for
  MaxRounds              \* bound: outlines a judge rejects

\* The agents that each flow runs, in this order.
ResearchManager == <<"plan", "search", "write">>
FinancialResearchManager == <<"plan", "search", "write", "verify">>
ParallelizationWorkflow == <<"translate", "pick">>
DeterministicWorkflow == <<"outline", "check", "story">>
LLMAsAJudgeWorkflow == <<"outline", "evaluate">>
InputGuardrailsWorkflow == <<"guarded">>
OutputGuardrailsWorkflow == <<"reply">>
PromptServerWorkflow == <<"list_prompts", "get_prompt", "review">>
MemoryResearchScratchpadWorkflow == <<"store", "query", "synthesize", "update">>
AgentsAsToolsWorkflow == <<"orchestrate", "synthesize">>
MessageFilterWorkflow == <<"greet", "number", "population", "handoff">>
PreviousResponseIdWorkflow == <<"question", "follow_up">>
NonStrictOutputWorkflow == <<"strict", "non_strict">>
LocalImageWorkflow == <<"read_image", "agent">>
ReasoningContentWorkflow == <<"reason">>
FileSystemWorkflow == <<"list", "book", "song">>
SseWorkflow == <<"add", "weather", "secret">>
StreamableHttpWorkflow == <<"add", "weather", "secret">>

\* The agent hands off and uses its tools within the one run.
OneRun == <<"agent">>
RoutingWorkflow == OneRun
ForcingToolUseWorkflow == OneRun
HelloWorldAgent == OneRun
ToolsWorkflow == OneRun
LifecycleWorkflow == OneRun
AgentLifecycleWorkflow == OneRun
DynamicSystemPromptWorkflow == OneRun
RemoteImageWorkflow == OneRun
CodeInterpreterWorkflow == OneRun
FileSearchWorkflow == OneRun
ImageGeneratorWorkflow == OneRun
WebSearchWorkflow == OneRun
SimpleMCPWorkflow == OneRun
ApprovalMCPWorkflow == OneRun
GptOssWorkflow == OneRun
LitellmAutoWorkflow == OneRun

Flows ==
  [research |-> ResearchManager, financial |-> FinancialResearchManager,
   parallelization |-> ParallelizationWorkflow, deterministic |-> DeterministicWorkflow,
   judge |-> LLMAsAJudgeWorkflow, input_guardrails |-> InputGuardrailsWorkflow,
   output_guardrails |-> OutputGuardrailsWorkflow, prompts |-> PromptServerWorkflow,
   memory |-> MemoryResearchScratchpadWorkflow, as_tools |-> AgentsAsToolsWorkflow,
   filter |-> MessageFilterWorkflow, previous |-> PreviousResponseIdWorkflow,
   non_strict |-> NonStrictOutputWorkflow, local_image |-> LocalImageWorkflow,
   reasoning |-> ReasoningContentWorkflow, file_system |-> FileSystemWorkflow,
   sse |-> SseWorkflow, http |-> StreamableHttpWorkflow, routing |-> RoutingWorkflow,
   forcing |-> ForcingToolUseWorkflow, hello |-> HelloWorldAgent, tools |-> ToolsWorkflow,
   lifecycle |-> LifecycleWorkflow, agent_lifecycle |-> AgentLifecycleWorkflow,
   dynamic |-> DynamicSystemPromptWorkflow, remote_image |-> RemoteImageWorkflow,
   interpreter |-> CodeInterpreterWorkflow, file_search |-> FileSearchWorkflow,
   image |-> ImageGeneratorWorkflow, web_search |-> WebSearchWorkflow,
   simple_mcp |-> SimpleMCPWorkflow, approval |-> ApprovalMCPWorkflow,
   gpt_oss |-> GptOssWorkflow, litellm |-> LitellmAutoWorkflow]

VARIABLES
  flow, step,            \* which flow, and how far it is
  planned,               \* search_plan.searches
  running,               \* the runs of agents in progress
  results,               \* those of this step that have answered, in this order
  search_results,        \* what the report is written from
  failed,                \* the runs that raised
  rounds,                \* outlines the judge has rejected
  server,                \* the stateful server
  outcome

vars == <<flow, step, planned, running, results, search_results, failed, rounds, server,
          outcome>>

Agents(s, plan) ==
  CASE s = "search" -> plan
    [] s = "translate" -> {"first", "second", "third"}
    [] s = "guarded" -> {"agent", "guardrail"}
    [] OTHER -> {s}

Now == Flows[flow][step]

Init ==
  /\ flow \in DOMAIN Flows /\ step = 1
  /\ planned = {} /\ results = <<>> /\ search_results = <<>>
  /\ running = Agents(Now, {}) /\ failed = {} /\ rounds = 0
  /\ server = IF flow = "memory" THEN "serving" ELSE "none"
  /\ outcome = "open"

\* The end of the flow, and of the "async with" around it.
Close(how) ==
  /\ outcome' = how
  /\ server' = IF server = "none" THEN "none" ELSE "closed"

-----------------------------------------------------------------------------
(* What becomes of a run. *)

Answer(c) ==
  /\ outcome = "open" /\ c \in running /\ ~(flow = "memory" /\ server = "lost")
  /\ running' = running \ {c} /\ results' = Append(results, c)
  /\ UNCHANGED <<flow, step, planned, search_results, failed, rounds, server, outcome>>

\* Both _search and the look-up of the prompt go on without what raised, and
\* both attempts at the output's type.
Tolerant == Now \in {"search", "get_prompt", "strict", "non_strict"}

\* An activity of the workflow's own is retried until it answers.
Retried == {"read_image", "reason"}

Raise(c) ==
  /\ outcome = "open" /\ c \in running \ Retried
  /\ running' = running \ {c} /\ failed' = failed \cup {c}
  /\ IF Tolerant THEN UNCHANGED <<outcome, server>> ELSE Close("failed")
  /\ UNCHANGED <<flow, step, planned, results, search_results, rounds>>

\* The guardrail need not wait for the agent, nor may the agent's answer pass it.
Trip ==
  /\ outcome = "open" /\ "guardrail" \in running
  /\ running' = running \ {"guardrail"} /\ Close("refused")
  /\ UNCHANGED <<flow, step, planned, results, search_results, failed, rounds>>

ServerIsLost ==
  /\ server = "serving" /\ server' = "lost"
  /\ UNCHANGED <<flow, step, planned, running, results, search_results, failed, rounds,
                 outcome>>

-----------------------------------------------------------------------------
(* The flow resumes. *)

\* Variant: the flow goes on with the first answer.
FirstOver == results # <<>> \/ running = {}
AllOver == running = {}

Resumes == outcome = "open" /\ AllOver

Enter(n, plan) ==
  /\ step' = n /\ results' = <<>>
  /\ planned' = plan /\ running' = Agents(Flows[flow][n], plan)
  /\ UNCHANGED <<flow, failed, server, outcome>>

\* The planner's answer says what to search for.
StepOn ==
  /\ Resumes /\ step < Len(Flows[flow])
  /\ \E plan \in IF Now = "plan" THEN SUBSET Items ELSE {planned} : Enter(step + 1, plan)
  /\ search_results' = IF Now = "search" THEN results ELSE search_results
  /\ UNCHANGED rounds

\* The outline has not passed, and is written again with the feedback.
Again ==
  /\ Resumes /\ Now = "evaluate" /\ rounds < MaxRounds
  /\ rounds' = rounds + 1 /\ Enter(1, planned)
  /\ UNCHANGED search_results

\* The last agent's output is the flow's, unless it holds a telephone number; an
\* outline that is not good enough, or no science fiction, is the end as well.
Return ==
  /\ Resumes
  /\ \/ step = Len(Flows[flow]) /\ Close("returned")
     \/ Now \in {"check", "reply"} /\ Close("refused")
  /\ UNCHANGED <<flow, step, planned, running, results, search_results, failed, rounds>>

-----------------------------------------------------------------------------
RunEnds == Trip \/ \E c \in running : Answer(c) \/ Raise(c)
Resume == StepOn \/ Again \/ Return
Next == RunEnds \/ ServerIsLost \/ Resume

\* Runs of agents end, and the flow is resumed; its server need not get lost.
Fairness == WF_vars(RunEnds) /\ WF_vars(Resume)

Spec == Init /\ [][Next]_vars /\ Fairness

-----------------------------------------------------------------------------
(* Properties *)

\* Every variable has its type.
TypeOK ==
  /\ flow \in DOMAIN Flows /\ step \in 1 .. Len(Flows[flow])
  /\ planned \subseteq Items /\ running \subseteq Agents(Now, planned)
  /\ results \in Seq(Agents(Now, planned)) /\ search_results \in Seq(Items)
  /\ rounds \in 0 .. MaxRounds
  /\ server \in {"none", "serving", "lost", "closed"}
  /\ outcome \in {"open", "returned", "refused", "failed"}

\* A flow that has gone on rests on all that went before: a report on every
\* search that answered and on none twice, what is picked on three
\* translations, a reply on a guardrail that did not trip; no run of an agent
\* goes on after the flow returned, no server after it ended in any way, and
\* what is returned rests on no run that raised, but for those it may lack.
RestsOnAll ==
  /\ planned # {} /\ (Now \in {"write", "verify"})
       => /\ {search_results[i] : i \in DOMAIN search_results} = planned \ failed
          /\ Len(search_results) = Cardinality(planned \ failed)
  /\ Now = "pick" => failed \cap Agents("translate", {}) = {}
  /\ outcome = "returned" =>
       running = {} /\ failed \subseteq Items \cup {"get_prompt", "strict", "non_strict"}
  /\ outcome # "open" => server \in {"none", "closed"}

\* Every flow ends, unless a judge is never content.
FlowEnds == flow # "judge" => <>(outcome # "open")
=============================================================================
