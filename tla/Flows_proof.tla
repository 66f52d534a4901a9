----------------------------- MODULE Flows_proof -----------------------------
(***************************************************************************)
(* Proofs about the samples that go on with what was answered: the flows   *)
(* of agents (AgentFlows), the workflows that call activities in steps     *)
(* (SimpleWorkflows) and the hourly export (CloudExport), for every number *)
(* of items, rounds, lost attempts, runs, files and hours; about those     *)
(* whose course is set from outside (Polling, Dsl, Versions and, through   *)
(* its own proofs, ClusterManager), for every tree and every number of     *)
(* signals; and, with the other modules of proofs about samples, that      *)
(* every variable of every sample has its type.                            *)
(***************************************************************************)
EXTENDS MessagePassing_proof, Conversations_proof, Workers_proof

-----------------------------------------------------------------------------
(* AgentFlows *)

\* A report follows on the search, that on the plan, which begins the flow.
InOrder(q) ==
  /\ Len(q) \in Nat \ {0} /\ q[1] \notin {"search", "write", "verify", "pick"}
  /\ \A k \in 1..(Len(q) - 1) :
       /\ q[k + 1] = "search" => q[k] = "plan"
       /\ q[k + 1] = "write" => q[k] = "search"
       /\ q[k + 1] = "verify" => q[k] = "write"
       /\ q[k + 1] = "pick" => q[k] = "translate"
       /\ q[k + 1] \notin {"plan", "translate"}
  /\ \A k \in 1..Len(q) : q[k] = "evaluate" => q[1] = "outline"

\* The flows are in that order.
LEMMA FlowsAreInOrder == \A f \in DOMAIN AF!Flows : InOrder(AF!Flows[f])
<1>1. \A a : a \notin {"search", "write", "verify", "pick", "evaluate"} => InOrder(<<a>>)
  BY DEF InOrder
<1>2. \A a, b : /\ a \notin {"search", "write", "verify", "pick", "evaluate"}
                /\ b \notin {"search", "write", "verify", "pick", "plan", "translate", "evaluate"}
                => InOrder(<<a, b>>)
  BY DEF InOrder
<1>3. \A a, b, c : /\ a \notin {"search", "write", "verify", "pick", "evaluate"}
                   /\ b \notin {"search", "write", "verify", "pick", "plan", "translate", "evaluate"}
                   /\ c \notin {"search", "write", "verify", "pick", "plan", "translate", "evaluate"}
                   => InOrder(<<a, b, c>>)
  BY DEF InOrder
<1>4. \A a, b, c, d : /\ a \notin {"search", "write", "verify", "pick", "evaluate"}
                      /\ b \notin {"search", "write", "verify", "pick", "plan", "translate", "evaluate"}
                      /\ c \notin {"search", "write", "verify", "pick", "plan", "translate", "evaluate"}
                      /\ d \notin {"search", "write", "verify", "pick", "plan", "translate", "evaluate"}
                      => InOrder(<<a, b, c, d>>)
  BY DEF InOrder
<1>5. InOrder(AF!OneRun)
  BY <1>1 DEF AF!OneRun
<1>6. InOrder(AF!ResearchManager)
  BY DEF AF!ResearchManager, InOrder
<1>7. InOrder(AF!FinancialResearchManager)
  BY DEF AF!FinancialResearchManager, InOrder
<1>8. InOrder(AF!ParallelizationWorkflow)
  BY DEF AF!ParallelizationWorkflow, InOrder
<1>13. InOrder(AF!LLMAsAJudgeWorkflow)
  BY DEF AF!LLMAsAJudgeWorkflow, InOrder
<1>9. InOrder(AF!DeterministicWorkflow)
      /\ InOrder(AF!InputGuardrailsWorkflow) /\ InOrder(AF!OutputGuardrailsWorkflow)
  BY <1>1, <1>2, <1>3 DEF AF!DeterministicWorkflow,
       AF!InputGuardrailsWorkflow, AF!OutputGuardrailsWorkflow
<1>10. InOrder(AF!PromptServerWorkflow) /\ InOrder(AF!MemoryResearchScratchpadWorkflow)
       /\ InOrder(AF!AgentsAsToolsWorkflow) /\ InOrder(AF!MessageFilterWorkflow)
  BY <1>2, <1>3, <1>4 DEF AF!PromptServerWorkflow, AF!MemoryResearchScratchpadWorkflow,
       AF!AgentsAsToolsWorkflow, AF!MessageFilterWorkflow
<1>11. InOrder(AF!PreviousResponseIdWorkflow) /\ InOrder(AF!NonStrictOutputWorkflow)
       /\ InOrder(AF!LocalImageWorkflow) /\ InOrder(AF!ReasoningContentWorkflow)
  BY <1>1, <1>2 DEF AF!PreviousResponseIdWorkflow, AF!NonStrictOutputWorkflow,
       AF!LocalImageWorkflow, AF!ReasoningContentWorkflow
<1>12. InOrder(AF!FileSystemWorkflow) /\ InOrder(AF!SseWorkflow) /\ InOrder(AF!StreamableHttpWorkflow)
  BY <1>3 DEF AF!FileSystemWorkflow, AF!SseWorkflow, AF!StreamableHttpWorkflow
<1> QED
  BY <1>5, <1>6, <1>7, <1>8, <1>9, <1>10, <1>11, <1>12, <1>13
  DEF AF!Flows, AF!RoutingWorkflow, AF!ForcingToolUseWorkflow, AF!HelloWorldAgent,
      AF!ToolsWorkflow, AF!LifecycleWorkflow, AF!AgentLifecycleWorkflow,
      AF!DynamicSystemPromptWorkflow, AF!RemoteImageWorkflow, AF!CodeInterpreterWorkflow,
      AF!FileSearchWorkflow, AF!ImageGeneratorWorkflow, AF!WebSearchWorkflow,
      AF!SimpleMCPWorkflow, AF!ApprovalMCPWorkflow, AF!GptOssWorkflow, AF!LitellmAutoWorkflow

Elements(q) == {q[i] : i \in DOMAIN q}

Tolerated == Items \cup {"get_prompt", "strict", "non_strict"}

\* Of the searches, each is in progress, has answered once or raised; the report
\* is written from those that answered.  Other flows do not go on from a raise.
FlowOrder ==
  /\ af_outcome \in {"open", "returned"} => af_failed \subseteq Tolerated
  /\ AF!Now \in {"plan", "translate"} /\ af_outcome = "open" => af_failed = {}
  /\ AF!Now = "pick" => af_failed \subseteq {"pick"}
  /\ AF!Now = "search" =>
       /\ af_planned = Elements(af_results) \cup af_running \cup af_failed
       /\ af_running \cap (Elements(af_results) \cup af_failed) = {}
       /\ Elements(af_results) \cap af_failed = {}
       /\ Len(af_results) = Cardinality(Elements(af_results))
  /\ AF!Now \in {"write", "verify"} =>
       /\ Elements(af_search_results) = af_planned \ af_failed
       /\ Len(af_search_results) = Cardinality(af_planned \ af_failed)
  /\ af_outcome = "returned" => af_running = {}
  /\ af_outcome # "open" => af_server \in {"none", "closed"}

FlowInv == AF!TypeOK /\ FlowOrder

\* One more element at the end of a finite sequence.
LEMMA OneMoreElement ==
  ASSUME NEW X, NEW q \in Seq(X), NEW c \in X, NEW r, r = Append(q, c), IsFiniteSet(X)
  PROVE  /\ Elements(r) = Elements(q) \cup {c}
         /\ c \notin Elements(q) /\ Len(q) = Cardinality(Elements(q))
              => Len(r) = Cardinality(Elements(r))
<1>1. Elements(q) \subseteq X /\ Append(q, c) \in Seq(X) /\ Len(Append(q, c)) = Len(q) + 1
  BY DEF Elements
<1>2. Elements(Append(q, c)) = Elements(q) \cup {c}
  BY AppendedElements DEF Elements
<1>3. IsFiniteSet(Elements(q))
  BY <1>1, FS_Subset
<1>4. c \notin Elements(q) => Cardinality(Elements(q) \cup {c}) = Cardinality(Elements(q)) + 1
  BY <1>3, FS_AddElement
<1> QED
  BY <1>1, <1>2, <1>4

\* What an agent's answer, its failure or the guardrail's does to the flow.
LEMMA FlowAnswers ==
  ASSUME FlowConstants, FlowInv, NEW c \in af_running, AF!Answer(c)
  PROVE  FlowInv'
<1>1. /\ af_outcome = "open" /\ af_running' = af_running \ {c} /\ af_results' = Append(af_results, c)
      /\ UNCHANGED <<af_flow, af_step, af_planned, af_search_results, af_failed, af_rounds,
                     af_server, af_outcome>>
      /\ UNCHANGED AF!Now /\ AF!TypeOK /\ FlowOrder
  BY DEF AF!Answer, FlowInv, AF!Now
<1>2. c \in AF!Agents(AF!Now, af_planned) /\ af_planned \subseteq Items
  BY <1>1 DEF AF!TypeOK
<1>3. AF!TypeOK'
  BY <1>1, <1>2 DEF AF!TypeOK
<1>4. CASE AF!Now = "search"
  <2>1. /\ AF!Agents(AF!Now, af_planned) = af_planned /\ IsFiniteSet(Items)
        /\ af_results \in Seq(Items) /\ c \in Items /\ c \notin Elements(af_results)
    BY <1>1, <1>2, <1>4 DEF AF!Agents, AF!TypeOK, FlowOrder, FlowConstants
  <2>2. /\ Elements(af_results') = Elements(af_results) \cup {c}
        /\ Len(af_results') = Cardinality(Elements(af_results'))
    <3>1. /\ IsFiniteSet(Items) /\ af_results \in Seq(Items) /\ c \in Items
          /\ af_results' = Append(af_results, c) /\ c \notin Elements(af_results)
          /\ Len(af_results) = Cardinality(Elements(af_results))
      BY <1>1, <1>4, <2>1 DEF FlowOrder
    <3> QED
      BY <3>1, OneMoreElement
  <2> QED
    BY <1>1, <1>3, <1>4, <2>1, <2>2 DEF FlowInv, FlowOrder
<1>5. CASE AF!Now # "search"
  BY <1>1, <1>3, <1>5 DEF FlowInv, FlowOrder
<1> QED
  BY <1>4, <1>5

LEMMA RaiseStep ==
  ASSUME FlowConstants, FlowInv, NEW c \in af_running, AF!Raise(c)
  PROVE  FlowInv'
<1>1. /\ af_outcome = "open" /\ af_running' = af_running \ {c} /\ af_failed' = af_failed \cup {c}
      /\ UNCHANGED <<af_flow, af_step, af_planned, af_results, af_search_results, af_rounds>>
      /\ UNCHANGED AF!Now /\ AF!TypeOK /\ FlowOrder /\ c \in AF!Agents(AF!Now, af_planned)
      /\ af_planned \subseteq Items
  BY DEF AF!Raise, FlowInv, AF!Now, AF!TypeOK
<1>2. CASE AF!Tolerant
  <2>1. UNCHANGED <<af_outcome, af_server>> /\ AF!Now \in {"search", "get_prompt", "strict", "non_strict"}
    BY <1>2 DEF AF!Raise, AF!Tolerant
  <2>2. c \in Tolerated
    BY <1>1, <2>1 DEF AF!Agents, Tolerated
  <2>3. AF!TypeOK'
    BY <1>1, <2>1 DEF AF!TypeOK
  <2> QED
    BY <1>1, <2>1, <2>2, <2>3 DEF FlowInv, FlowOrder
<1>3. CASE ~AF!Tolerant
  <2>1. /\ af_outcome' = "failed" /\ af_server' \in {"none", "closed"}
        /\ AF!Now \notin {"search", "get_prompt", "strict", "non_strict"}
    BY <1>3 DEF AF!Raise, AF!Tolerant, AF!Close
  <2>2. AF!TypeOK'
    BY <1>1, <2>1 DEF AF!TypeOK
  <2>3. AF!Now \in {"pick", "write", "verify"} => c = AF!Now
    BY <1>1 DEF AF!Agents
  <2>4. AF!Now \in {"write", "verify"} => af_planned \ af_failed' = af_planned \ af_failed
    BY <1>1, <2>3 DEF FlowConstants
  <2> QED
    BY <1>1, <2>1, <2>2, <2>3, <2>4 DEF FlowInv, FlowOrder
<1> QED
  BY <1>2, <1>3

LEMMA TripStep == FlowConstants /\ FlowInv /\ AF!Trip => FlowInv'
<1> SUFFICES ASSUME FlowConstants, FlowInv, AF!Trip PROVE FlowInv'
  OBVIOUS
<1>1. /\ af_outcome = "open" /\ "guardrail" \in af_running /\ af_running' = af_running \ {"guardrail"}
      /\ af_outcome' = "refused" /\ af_server' \in {"none", "closed"}
      /\ UNCHANGED <<af_flow, af_step, af_planned, af_results, af_search_results, af_failed, af_rounds>>
      /\ UNCHANGED AF!Now /\ AF!TypeOK /\ FlowOrder
  BY DEF AF!Trip, AF!Close, FlowInv, AF!Now
<1>2. AF!TypeOK'
  BY <1>1 DEF AF!TypeOK
<1>3. AF!Now # "search"
  BY <1>1 DEF AF!TypeOK, AF!Agents, FlowConstants
<1> QED
  BY <1>1, <1>2, <1>3 DEF FlowInv, FlowOrder

\* How a flow goes from one step to the next.
LEMMA NowInOrder ==
  ASSUME NEW f \in DOMAIN AF!Flows, NEW k \in 1..Len(AF!Flows[f]),
         k < Len(AF!Flows[f])
  PROVE  LET now == AF!Flows[f][k]
             next == AF!Flows[f][k + 1]
         IN  /\ k + 1 \in 1..Len(AF!Flows[f])
             /\ next = "search" => now = "plan"
             /\ next = "write" => now = "search"
             /\ next = "verify" => now = "write"
             /\ next = "pick" => now = "translate"
             /\ next \notin {"plan", "translate"}
<1>1. InOrder(AF!Flows[f])
  BY FlowsAreInOrder
<1>2. k \in 1..(Len(AF!Flows[f]) - 1) /\ k + 1 \in 1..Len(AF!Flows[f])
  BY <1>1 DEF InOrder
<1> QED
  BY <1>1, <1>2 DEF InOrder

\* The next step begins where this one ended.
LEMMA OnStep == FlowConstants /\ FlowInv /\ AF!StepOn => FlowInv'
<1> SUFFICES ASSUME FlowConstants, FlowInv, AF!StepOn PROVE FlowInv'
  OBVIOUS
<1>1. /\ af_outcome = "open" /\ af_running = {} /\ af_step < Len(AF!Flows[af_flow])
      /\ AF!TypeOK /\ FlowOrder /\ UNCHANGED <<af_flow, af_failed, af_server, af_outcome, af_rounds>>
      /\ af_step' = af_step + 1 /\ af_results' = <<>>
      /\ af_search_results' = IF AF!Now = "search" THEN af_results ELSE af_search_results
      /\ af_flow \in DOMAIN AF!Flows /\ af_step \in 1..Len(AF!Flows[af_flow])
  BY DEF FlowInv, AF!StepOn, AF!Resumes, AF!AllOver, AF!Enter, AF!TypeOK
<1>2. PICK plan \in IF AF!Now = "plan" THEN SUBSET Items ELSE {af_planned} :
         /\ af_planned' = plan /\ af_running' = AF!Agents(AF!Flows[af_flow][af_step + 1], plan)
  BY DEF AF!StepOn, AF!Enter
<1>3. /\ af_step' \in 1..Len(AF!Flows[af_flow'])
      /\ AF!Now' = "search" => AF!Now = "plan"
      /\ AF!Now' = "write" => AF!Now = "search"
      /\ AF!Now' = "verify" => AF!Now = "write"
      /\ AF!Now' = "pick" => AF!Now = "translate"
      /\ AF!Now' \notin {"plan", "translate"}
      /\ af_running' = AF!Agents(AF!Now', af_planned')
  BY <1>1, <1>2, NowInOrder DEF AF!Now
<1>4. AF!Now = "search" => af_results \in Seq(Items)
  BY <1>1 DEF AF!TypeOK, AF!Agents
<1>5. AF!TypeOK'
  BY <1>1, <1>2, <1>3, <1>4 DEF AF!TypeOK
<1>6. AF!Now' \in {"write", "verify"} => af_planned' = af_planned
  BY <1>2, <1>3
<1>7. Elements(<<>>) = {} /\ Len(<<>>) = 0 /\ Cardinality({}) = 0
  BY FS_EmptySet DEF Elements
<1>8. AF!Now' = "search" => af_running' = af_planned' /\ af_failed' = {}
  BY <1>1, <1>3 DEF AF!Agents, FlowOrder
<1>9. AF!Now = "search" => /\ Elements(af_results) = af_planned \ af_failed
                           /\ Len(af_results) = Cardinality(af_planned \ af_failed)
  BY <1>1 DEF FlowOrder
<1>10. AF!Now' \in {"write", "verify"} =>
         /\ Elements(af_search_results') = af_planned' \ af_failed'
         /\ Len(af_search_results') = Cardinality(af_planned' \ af_failed')
  BY <1>1, <1>3, <1>6, <1>9 DEF FlowOrder
<1>11. AF!Now' = "search" =>
         /\ af_planned' = Elements(af_results') \cup af_running' \cup af_failed'
         /\ af_running' \cap (Elements(af_results') \cup af_failed') = {}
         /\ Elements(af_results') \cap af_failed' = {}
         /\ Len(af_results') = Cardinality(Elements(af_results'))
  BY <1>1, <1>7, <1>8
<1>12. /\ af_outcome' \in {"open", "returned"} => af_failed' \subseteq Tolerated
       /\ AF!Now' \in {"plan", "translate"} /\ af_outcome' = "open" => af_failed' = {}
       /\ AF!Now' = "pick" => af_failed' \subseteq {"pick"}
       /\ af_outcome' = "open"
  BY <1>1, <1>3 DEF FlowOrder
<1> QED
  BY <1>5, <1>10, <1>11, <1>12 DEF FlowInv, FlowOrder

\* The outline is written again, or the flow ends.
LEMMA OverStep == FlowConstants /\ FlowInv /\ (AF!Again \/ AF!Return) => FlowInv'
<1> SUFFICES ASSUME FlowConstants, FlowInv, AF!Again \/ AF!Return PROVE FlowInv'
  OBVIOUS
<1>1. CASE AF!Again
  <2>1. /\ af_outcome = "open" /\ AF!Now = "evaluate" /\ af_rounds < MaxRounds
        /\ AF!TypeOK /\ FlowOrder /\ UNCHANGED <<af_flow, af_failed, af_server, af_outcome>>
        /\ af_step' = 1 /\ af_results' = <<>> /\ af_rounds' = af_rounds + 1
        /\ UNCHANGED <<af_planned, af_search_results>>
        /\ af_running' = AF!Agents(AF!Now', af_planned')
        /\ af_flow \in DOMAIN AF!Flows
    BY <1>1 DEF FlowInv, AF!Again, AF!Resumes, AF!AllOver, AF!Enter, AF!TypeOK, AF!Now
  <2>2. InOrder(AF!Flows[af_flow])
    BY <2>1, FlowsAreInOrder
  <2>3. AF!Now' = "outline" /\ af_step' \in 1..Len(AF!Flows[af_flow])
    BY <2>1, <2>2 DEF AF!Now, AF!TypeOK, InOrder
  <2>4. AF!TypeOK'
    BY <2>1, <2>3 DEF AF!TypeOK, FlowConstants
  <2> QED
    BY <2>1, <2>3, <2>4 DEF FlowInv, FlowOrder
<1>2. CASE AF!Return
  <2>1. /\ af_outcome = "open" /\ af_running = {} /\ af_outcome' \in {"returned", "refused"}
        /\ af_server' \in {"none", "closed"} /\ AF!TypeOK /\ FlowOrder /\ UNCHANGED AF!Now
        /\ UNCHANGED <<af_flow, af_step, af_planned, af_running, af_results,
                       af_search_results, af_failed, af_rounds>>
    BY <1>2 DEF FlowInv, AF!Return, AF!Resumes, AF!AllOver, AF!Close, AF!Now
  <2>2. AF!TypeOK'
    BY <2>1 DEF AF!TypeOK
  <2> QED
    BY <2>1, <2>2 DEF FlowInv, FlowOrder
<1> QED
  BY <1>1, <1>2

\* For any number of searches, and in every flow of agents: what goes on rests
\* on all that went before, and nothing goes on after the flow has ended.
THEOREM FlowsRestOnAll == AF!Spec => [](AF!TypeOK /\ AF!RestsOnAll)
<1>0. FlowConstants
  BY FlowsAssumption
<1>1. AF!Init => FlowInv
  <2> SUFFICES ASSUME AF!Init PROVE FlowInv
    OBVIOUS
  <2>1. /\ InOrder(AF!Flows[af_flow]) /\ af_step = 1 /\ AF!Now = AF!Flows[af_flow][1]
        /\ af_flow \in DOMAIN AF!Flows
    BY FlowsAreInOrder DEF AF!Init, AF!Now
  <2>2. AF!Now \notin {"search", "write", "verify", "pick"} /\ af_step \in 1..Len(AF!Flows[af_flow])
    BY <2>1 DEF InOrder
  <2>3. AF!TypeOK
    BY <1>0, <2>1, <2>2 DEF AF!Init, AF!TypeOK, FlowConstants
  <2> QED
    BY <2>2, <2>3 DEF AF!Init, FlowInv, FlowOrder
<1>2. FlowInv /\ [AF!Next]_(AF!vars) => FlowInv'
  <2> SUFFICES ASSUME FlowInv, [AF!Next]_(AF!vars) PROVE FlowInv'
    OBVIOUS
  <2>1. CASE UNCHANGED AF!vars
    BY <2>1 DEF AF!vars, FlowInv, AF!TypeOK, FlowOrder, AF!Now
  <2>2. CASE AF!ServerIsLost
    <3>1. /\ af_server = "serving" /\ af_server' = "lost"
          /\ UNCHANGED <<af_flow, af_step, af_planned, af_running, af_results, af_search_results,
                         af_failed, af_rounds, af_outcome>>
          /\ UNCHANGED AF!Now
      BY <2>2 DEF AF!ServerIsLost, AF!Now
    <3> QED
      BY <3>1 DEF FlowInv, AF!TypeOK, FlowOrder
  <2>3. CASE AF!RunEnds
    BY <1>0, <2>3, TripStep, FlowAnswers, RaiseStep DEF AF!RunEnds
  <2>4. CASE AF!Resume
    BY <1>0, <2>4, OnStep, OverStep DEF AF!Resume
  <2> QED
    BY <2>1, <2>2, <2>3, <2>4 DEF AF!Next
<1>3. FlowInv => AF!TypeOK /\ AF!RestsOnAll
  <2> SUFFICES ASSUME FlowInv PROVE AF!RestsOnAll
    BY DEF FlowInv
  <2>1. {af_search_results[i] : i \in DOMAIN af_search_results} = Elements(af_search_results)
    BY DEF Elements
  <2>2. AF!Cardinality(af_planned \ af_failed) = Cardinality(af_planned \ af_failed)
    BY DEF AF!Cardinality, Cardinality
  <2>3. AF!Now \in {"write", "verify"}
          => /\ {af_search_results[i] : i \in DOMAIN af_search_results} = af_planned \ af_failed
             /\ Len(af_search_results) = AF!Cardinality(af_planned \ af_failed)
    BY <2>1, <2>2 DEF FlowInv, FlowOrder
  <2>4. AF!Now = "pick" => af_failed \cap AF!Agents("translate", {}) = {}
    BY DEF FlowInv, FlowOrder, AF!Agents
  <2>5. /\ af_outcome = "returned" => af_running = {} /\ af_failed \subseteq Tolerated
        /\ af_outcome # "open" => af_server \in {"none", "closed"}
    BY DEF FlowInv, FlowOrder
  <2> QED
    BY <2>3, <2>4, <2>5 DEF AF!RestsOnAll, Tolerated
<1> QED
  BY <1>1, <1>2, <1>3, PTL DEF AF!Spec

-----------------------------------------------------------------------------
(* SimpleWorkflows *)

\* A sample waits for each of its calls in one step.
CallsInSteps(r) ==
  /\ r.fails \in Nat /\ r.limit \in Nat /\ Len(r.steps) \in Nat
  /\ \A s \in 1..Len(r.steps) : r.steps[s] \in SUBSET SW!Slots
  /\ \A s \in 1..Len(r.steps), t \in 1..Len(r.steps) :
       s # t => r.steps[s] \cap r.steps[t] = {}

\* It can be tried often enough to succeed, or a few times.
TriedAFewTimes(r) == r.limit \in 1..5 \/ (r.limit = 0 /\ r.fails <= 4)

GoodSample(r) == CallsInSteps(r) /\ TriedAFewTimes(r)

LEMMA OneCall ==
  ASSUME NEW r, r.steps = <<{1}>>, r.fails \in Nat, r.limit \in Nat, TriedAFewTimes(r)
  PROVE  GoodSample(r)
<1>1. Len(<<{1}>>) = 1 /\ <<{1}>>[1] = {1}
  OBVIOUS
<1> QED
  BY <1>1 DEF GoodSample, CallsInSteps, SW!Slots

LEMMA SamplesAreGood == \A n \in DOMAIN SW!Samples : GoodSample(SW!Samples[n])
<1>1. /\ SW!Plain.steps = <<{1}>> /\ SW!Plain.fails = 0 /\ SW!Plain.limit = 0
  BY DEF SW!Plain
<1>2. GoodSample(SW!Plain)
  BY <1>1, OneCall DEF TriedAFewTimes
<1>3. GoodSample(SW!hello_activity_retry)
  <2>1. /\ SW!hello_activity_retry.steps = <<{1}>> /\ SW!hello_activity_retry.fails = 3
        /\ SW!hello_activity_retry.limit = 0
    BY DEF SW!hello_activity_retry, SW!Plain
  <2> QED
    BY <2>1, OneCall DEF TriedAFewTimes
<1>4. GoodSample(SW!hello_exception)
  <2>1. /\ SW!hello_exception.steps = <<{1}>> /\ SW!hello_exception.fails = 9
        /\ SW!hello_exception.limit = 2
    BY DEF SW!hello_exception, SW!Plain
  <2> QED
    BY <2>1, OneCall DEF TriedAFewTimes
<1>5. \A r \in {SW!hello_async_activity_completion, SW!hello_local_activity,
               SW!hello_child_workflow, SW!hello_continue_as_new, SW!eager_wf_start,
               SW!bedrock_basic} : GoodSample(r)
  <2> SUFFICES ASSUME NEW r \in {SW!hello_async_activity_completion, SW!hello_local_activity,
                                 SW!hello_child_workflow, SW!hello_continue_as_new,
                                 SW!eager_wf_start, SW!bedrock_basic}
               PROVE  GoodSample(r)
    OBVIOUS
  <2>1. r.steps = <<{1}>> /\ r.fails = 0 /\ r.limit = 0
    BY DEF SW!Plain, SW!hello_async_activity_completion, SW!hello_local_activity,
           SW!hello_child_workflow, SW!hello_continue_as_new, SW!eager_wf_start, SW!bedrock_basic
  <2> QED
    BY <2>1, OneCall DEF TriedAFewTimes
<1>6. GoodSample(SW!hello_activity_choice)
  <2> DEFINE r == SW!hello_activity_choice
  <2>1. r.steps = <<{1}, {2}, {3}, {4}>> /\ r.fails = 0 /\ r.limit = 0
    BY DEF SW!hello_activity_choice, SW!Plain
  <2>2. /\ Len(<<{1}, {2}, {3}, {4}>>) = 4
        /\ \A s \in 1..4 : <<{1}, {2}, {3}, {4}>>[s] = {s}
    OBVIOUS
  <2> QED
    BY <2>1, <2>2 DEF GoodSample, CallsInSteps, TriedAFewTimes, SW!Slots
<1>7. GoodSample(SW!hello_parallel_activity)
  <2> DEFINE r == SW!hello_parallel_activity
  <2>1. r.steps = <<{1, 2, 3, 4, 5}>> /\ r.fails = 0 /\ r.limit = 0
    BY DEF SW!hello_parallel_activity, SW!Plain
  <2>2. Len(<<{1, 2, 3, 4, 5}>>) = 1 /\ <<{1, 2, 3, 4, 5}>>[1] = {1, 2, 3, 4, 5}
    OBVIOUS
  <2> QED
    BY <2>1, <2>2 DEF GoodSample, CallsInSteps, TriedAFewTimes, SW!Slots
<1>8. \A n \in DOMAIN SW!Samples : SW!Samples[n] \in
        {SW!Plain, SW!hello_activity_retry, SW!hello_exception, SW!hello_activity_choice,
         SW!hello_parallel_activity, SW!hello_async_activity_completion, SW!hello_local_activity,
         SW!hello_child_workflow, SW!hello_continue_as_new, SW!eager_wf_start, SW!bedrock_basic}
  BY DEF SW!Samples, SW!hello_activity, SW!hello_activity_async, SW!hello_activity_method,
         SW!hello_activity_heartbeat, SW!hello_activity_multiprocess, SW!hello_mtls, SW!hello_cron,
         SW!langsmith_basic, SW!activity_worker, SW!hello_standalone_activity
<1> QED
  BY <1>2, <1>3, <1>4, <1>5, <1>6, <1>7, <1>8

\* Where the calls are, and how often they were tried: one attempt more than the
\* sample makes them fail and than were lost, at most.
CallInv ==
  /\ sw_name \in DOMAIN SW!Samples /\ sw_run \in 0..(10 + MaxCronRuns)
  /\ sw_lost \in 0..MaxLostCalls /\ sw_outcome \in {"open", "returned", "failed"}
  /\ sw_at \in [SW!Slots -> {"none", "scheduled", "running", "completing", "lost", "done", "failed"}]
  /\ sw_attempt \in [SW!Slots -> Nat \ {0}]
  /\ \A a \in SW!Slots :
       /\ sw_attempt[a] + (IF sw_at[a] = "lost" THEN 1 ELSE 0) <= 1 + SW!Sample.fails + sw_lost
       /\ SW!Sample.limit > 0 => sw_attempt[a] <= SW!Sample.limit
       /\ sw_at[a] = "done" => sw_attempt[a] > SW!Sample.fails
       /\ sw_at[a] = "failed" =>
            SW!Sample.deadline \/ (SW!Sample.limit > 0 /\ sw_attempt[a] = SW!Sample.limit)

\* A step is begun when all before it are done.
StepInv ==
  /\ sw_stage \in 0..Len(SW!Sample.steps)
  /\ \A s \in 1..sw_stage : \A a \in SW!Sample.steps[s] :
       s < sw_stage \/ sw_outcome = "returned" => sw_at[a] = "done"

\* How the workflow ended.
EndInv ==
  /\ sw_outcome = "returned" /\ sw_name # "continue_as_new" => sw_stage = Len(SW!Sample.steps)
  /\ sw_outcome = "failed" =>
       SW!Sample.deadline \/ \E a \in SW!Slots : SW!Sample.limit > 0 /\ sw_attempt[a] = SW!Sample.limit

CallsInv == CallInv /\ StepInv /\ EndInv

\* A step of one call that was not done: it is somewhere else, and its attempt is
\* the same or a next one.
LEMMA OneCallMoves ==
  ASSUME CallsInv, NEW a \in SW!Slots, sw_at[a] # "done", sw_outcome = "open",
         NEW w \in {"scheduled", "running", "completing", "lost", "done", "failed"},
         NEW n \in Nat \ {0},
         sw_at' = [sw_at EXCEPT ![a] = w], sw_attempt' = [sw_attempt EXCEPT ![a] = n],
         UNCHANGED <<sw_name, sw_run, sw_stage, sw_outcome>>,
         sw_lost' \in 0..MaxLostCalls, sw_lost' >= sw_lost,
         n + (IF w = "lost" THEN 1 ELSE 0) <= 1 + SW!Sample.fails + sw_lost',
         SW!Sample.limit > 0 => n <= SW!Sample.limit,
         w = "done" => n > SW!Sample.fails,
         w = "failed" => SW!Sample.deadline \/ (SW!Sample.limit > 0 /\ n = SW!Sample.limit)
  PROVE  CallsInv'
<1> DEFINE r == SW!Sample
<1>1. SW!Sample' = r /\ SW!Slots' = SW!Slots /\ GoodSample(r)
  BY SamplesAreGood DEF SW!Sample, SW!Slots, CallsInv, CallInv
<1>2. \A b \in SW!Slots :
        /\ sw_at'[b] = IF b = a THEN w ELSE sw_at[b]
        /\ sw_attempt'[b] = IF b = a THEN n ELSE sw_attempt[b]
  BY DEF CallsInv, CallInv
<1> HIDE DEF r
<1>3. r.fails \in Nat /\ r.limit \in Nat /\ sw_lost \in Nat /\ sw_lost' \in Nat
  BY <1>1 DEF GoodSample, CallsInSteps, CallsInv, CallInv
<1>4. CallInv'
  <2>1. /\ sw_at' \in [SW!Slots -> {"none", "scheduled", "running", "completing", "lost", "done", "failed"}]
        /\ sw_attempt' \in [SW!Slots -> Nat \ {0}]
    BY DEF CallsInv, CallInv
  <2>2. \A b \in SW!Slots :
          /\ sw_attempt'[b] + (IF sw_at'[b] = "lost" THEN 1 ELSE 0) <= 1 + r.fails + sw_lost'
          /\ r.limit > 0 => sw_attempt'[b] <= r.limit
          /\ sw_at'[b] = "done" => sw_attempt'[b] > r.fails
          /\ sw_at'[b] = "failed" => r.deadline \/ (r.limit > 0 /\ sw_attempt'[b] = r.limit)
    <3> SUFFICES ASSUME NEW b \in SW!Slots
                 PROVE  /\ sw_attempt'[b] + (IF sw_at'[b] = "lost" THEN 1 ELSE 0) <= 1 + r.fails + sw_lost'
                        /\ r.limit > 0 => sw_attempt'[b] <= r.limit
                        /\ sw_at'[b] = "done" => sw_attempt'[b] > r.fails
                        /\ sw_at'[b] = "failed" => r.deadline \/ (r.limit > 0 /\ sw_attempt'[b] = r.limit)
      OBVIOUS
    <3>1. CASE b = a
      BY <1>2, <3>1 DEF r
    <3>2. CASE b # a
      <4>1. sw_at'[b] = sw_at[b] /\ sw_attempt'[b] = sw_attempt[b] /\ sw_attempt[b] \in Nat
        BY <1>2, <3>2 DEF CallsInv, CallInv
      <4>2. /\ sw_attempt[b] + (IF sw_at[b] = "lost" THEN 1 ELSE 0) <= 1 + r.fails + sw_lost
            /\ r.limit > 0 => sw_attempt[b] <= r.limit
            /\ sw_at[b] = "done" => sw_attempt[b] > r.fails
            /\ sw_at[b] = "failed" => r.deadline \/ (r.limit > 0 /\ sw_attempt[b] = r.limit)
        BY DEF CallsInv, CallInv, r
      <4>3. sw_attempt[b] + (IF sw_at[b] = "lost" THEN 1 ELSE 0) <= 1 + r.fails + sw_lost'
        BY <1>3, <4>1, <4>2
      <4> QED
        BY <4>1, <4>2, <4>3
    <3> QED
      BY <3>1, <3>2
  <2>3. /\ sw_name' \in DOMAIN SW!Samples' /\ sw_run' \in 0..(10 + MaxCronRuns)
        /\ sw_outcome' \in {"open", "returned", "failed"}
    BY DEF CallsInv, CallInv, SW!Samples
  <2> QED
    BY <1>1, <2>1, <2>2, <2>3 DEF CallInv, r
<1>5. StepInv'
  <2>1. \A s \in 1..sw_stage : \A b \in r.steps[s] : s < sw_stage => b \in SW!Slots /\ sw_at[b] = "done"
    BY <1>1 DEF CallsInv, StepInv, r, GoodSample, CallsInSteps
  <2> QED
    BY <1>1, <1>2, <2>1 DEF CallsInv, StepInv, r
<1>6. EndInv'
  BY DEF CallsInv, EndInv
<1> QED
  BY <1>4, <1>5, <1>6 DEF CallsInv

\* An attempt that failed or was lost is followed by one with the number n.
LEMMA TryAgainStep ==
  ASSUME CallsInv, NEW a \in SW!Slots, sw_at[a] \in {"running", "completing", "lost"},
         sw_outcome = "open", NEW n \in Nat \ {0}, n <= sw_attempt[a] + 1,
         n <= 1 + SW!Sample.fails + sw_lost,
         SW!TryAgain(a, n), UNCHANGED <<sw_name, sw_run, sw_stage, sw_lost, sw_outcome>>
  PROVE  CallsInv'
<1>1. /\ sw_attempt \in [SW!Slots -> Nat \ {0}] /\ sw_lost \in 0..MaxLostCalls /\ sw_lost \in Nat
      /\ SW!Sample.fails \in Nat /\ SW!Sample.limit \in Nat
      /\ sw_attempt[a] <= 1 + SW!Sample.fails + sw_lost
      /\ SW!Sample.limit > 0 => sw_attempt[a] <= SW!Sample.limit
  BY SamplesAreGood DEF CallsInv, CallInv, GoodSample, CallsInSteps, SW!Sample
<1>2. CASE SW!Sample.limit = 0 \/ sw_attempt[a] < SW!Sample.limit
  <2>1. /\ sw_at' = [sw_at EXCEPT ![a] = "scheduled"] /\ sw_attempt' = [sw_attempt EXCEPT ![a] = n]
    BY <1>2 DEF SW!TryAgain, SW!Becomes
  <2>2. SW!Sample.limit > 0 => n <= SW!Sample.limit
    BY <1>1, <1>2
  <2>3. /\ sw_at[a] # "done" /\ n + (IF "scheduled" = "lost" THEN 1 ELSE 0) <= 1 + SW!Sample.fails + sw_lost'
        /\ sw_lost' \in 0..MaxLostCalls /\ sw_lost' >= sw_lost
    BY <1>1
  <2> QED
    BY <2>1, <2>2, <2>3, OneCallMoves
<1>3. CASE ~(SW!Sample.limit = 0 \/ sw_attempt[a] < SW!Sample.limit)
  <2>1. sw_at' = [sw_at EXCEPT ![a] = "failed"] /\ sw_attempt' = sw_attempt
    BY <1>3 DEF SW!TryAgain, SW!Becomes
  <2>2. sw_attempt' = [sw_attempt EXCEPT ![a] = sw_attempt[a]]
    BY <1>1, <2>1
  <2>3. SW!Sample.limit > 0 /\ sw_attempt[a] = SW!Sample.limit /\ sw_attempt[a] \in Nat \ {0}
    BY <1>1, <1>3
  <2>4. /\ sw_at[a] # "done"
        /\ sw_attempt[a] + (IF "failed" = "lost" THEN 1 ELSE 0) <= 1 + SW!Sample.fails + sw_lost'
        /\ sw_lost' \in 0..MaxLostCalls /\ sw_lost' >= sw_lost
        /\ SW!Sample.limit > 0 => sw_attempt[a] <= SW!Sample.limit
    BY <1>1, <2>3
  <2> QED
    BY <2>1, <2>2, <2>3, <2>4, OneCallMoves
<1> QED
  BY <1>2, <1>3

\* A call moves on with the attempt it has.
LEMMA SameAttempt ==
  ASSUME CallsInv, NEW a \in SW!Slots, sw_at[a] # "done", sw_at[a] # "lost", sw_outcome = "open",
         NEW w \in {"scheduled", "running", "completing", "lost", "done", "failed"},
         sw_at' = [sw_at EXCEPT ![a] = w], sw_attempt' = sw_attempt,
         UNCHANGED <<sw_name, sw_run, sw_stage, sw_outcome>>,
         sw_lost' \in 0..MaxLostCalls,
         sw_lost' = IF w = "lost" THEN sw_lost + 1 ELSE sw_lost,
         w = "done" => sw_attempt[a] > SW!Sample.fails,
         w = "failed" => SW!Sample.deadline
  PROVE  CallsInv'
<1>1. /\ sw_attempt \in [SW!Slots -> Nat \ {0}] /\ sw_lost \in 0..MaxLostCalls /\ sw_lost \in Nat
      /\ SW!Sample.fails \in Nat /\ SW!Sample.limit \in Nat
      /\ sw_attempt[a] <= 1 + SW!Sample.fails + sw_lost
      /\ SW!Sample.limit > 0 => sw_attempt[a] <= SW!Sample.limit
  BY SamplesAreGood DEF CallsInv, CallInv, GoodSample, CallsInSteps, SW!Sample
<1>2. sw_attempt' = [sw_attempt EXCEPT ![a] = sw_attempt[a]] /\ sw_attempt[a] \in Nat \ {0}
  BY <1>1
<1>3. sw_attempt[a] + (IF w = "lost" THEN 1 ELSE 0) <= 1 + SW!Sample.fails + sw_lost'
  BY <1>1, <1>2
<1>4. sw_lost' >= sw_lost
  BY <1>1
<1> QED
  BY <1>1, <1>2, <1>3, <1>4, OneCallMoves

LEMMA CallStepKeeps ==
  ASSUME CallsInv, NEW a \in SW!Slots, SW!CallStep(a)
  PROVE  CallsInv'
<1>1. /\ sw_outcome = "open" /\ UNCHANGED <<sw_name, sw_run, sw_stage, sw_lost, sw_outcome>>
      /\ sw_attempt[a] \in Nat \ {0} /\ sw_lost \in 0..MaxLostCalls /\ sw_lost \in Nat
      /\ SW!Sample.fails \in Nat
      /\ sw_attempt[a] + (IF sw_at[a] = "lost" THEN 1 ELSE 0) <= 1 + SW!Sample.fails + sw_lost
  BY SamplesAreGood DEF SW!CallStep, CallsInv, CallInv, GoodSample, CallsInSteps, SW!Sample
<1>2. CASE SW!Attempt(a)
  <2>1. sw_at[a] = "scheduled" /\ sw_at' = [sw_at EXCEPT ![a] = "running"] /\ sw_attempt' = sw_attempt
    BY <1>2 DEF SW!Attempt, SW!Becomes
  <2> QED
    BY <1>1, <2>1, SameAttempt
<1>3. CASE SW!Detach(a)
  <2>1. sw_at[a] = "running" /\ sw_at' = [sw_at EXCEPT ![a] = "completing"] /\ sw_attempt' = sw_attempt
    BY <1>3 DEF SW!Detach, SW!Becomes
  <2> QED
    BY <1>1, <2>1, SameAttempt
<1>4. CASE SW!Answer(a)
  <2>1. sw_at[a] \in {"running", "completing"}
    BY <1>4 DEF SW!Answer
  <2>2. CASE sw_attempt[a] > SW!Sample.fails
    <3>1. sw_at' = [sw_at EXCEPT ![a] = "done"] /\ sw_attempt' = sw_attempt
      BY <1>4, <2>2 DEF SW!Answer, SW!Becomes
    <3> QED
      BY <1>1, <2>1, <2>2, <3>1, SameAttempt
  <2>3. CASE ~(sw_attempt[a] > SW!Sample.fails)
    <3>1. SW!TryAgain(a, sw_attempt[a] + 1)
      BY <1>4, <2>3 DEF SW!Answer
    <3>2. /\ sw_attempt[a] + 1 \in Nat \ {0} /\ sw_attempt[a] + 1 <= sw_attempt[a] + 1
          /\ sw_attempt[a] + 1 <= 1 + SW!Sample.fails + sw_lost
      BY <1>1, <2>3
    <3> QED
      BY <1>1, <2>1, <3>1, <3>2, TryAgainStep
  <2> QED
    BY <2>2, <2>3
<1>5. CASE SW!NoticeLoss(a)
  <2>1. sw_at[a] = "lost"
    BY <1>5 DEF SW!NoticeLoss
  <2>2. PICK n \in {1, sw_attempt[a] + 1} : SW!TryAgain(a, n)
    BY <1>5 DEF SW!NoticeLoss
  <2>3. n \in Nat \ {0} /\ n <= sw_attempt[a] + 1 /\ n <= 1 + SW!Sample.fails + sw_lost
    BY <1>1, <2>1
  <2> QED
    BY <1>1, <2>1, <2>2, <2>3, TryAgainStep
<1> QED
  BY <1>2, <1>3, <1>4, <1>5 DEF SW!CallStep

LEMMA LossOrDeadline ==
  ASSUME CallConstants, CallsInv, NEW a \in SW!Slots, SW!Lose(a) \/ SW!PassDeadline(a)
  PROVE  CallsInv'
<1>1. MaxLostCalls \in Nat /\ sw_lost \in 0..MaxLostCalls
  BY DEF CallConstants, CallsInv, CallInv
<1>2. CASE SW!Lose(a)
  <2>1. /\ sw_outcome = "open" /\ sw_lost < MaxLostCalls /\ sw_at[a] \in {"running", "completing"}
        /\ sw_at' = [sw_at EXCEPT ![a] = "lost"] /\ sw_lost' = sw_lost + 1 /\ sw_attempt' = sw_attempt
        /\ UNCHANGED <<sw_name, sw_run, sw_stage, sw_outcome>>
    BY <1>2 DEF SW!Lose, SW!Becomes
  <2>2. sw_lost' \in 0..MaxLostCalls
    BY <1>1, <2>1
  <2> QED
    BY <2>1, <2>2, SameAttempt
<1>3. CASE SW!PassDeadline(a)
  <2>1. /\ sw_outcome = "open" /\ SW!Sample.deadline /\ sw_at[a] \in {"scheduled", "running", "lost"}
        /\ sw_at' = [sw_at EXCEPT ![a] = "failed"] /\ sw_attempt' = sw_attempt
        /\ UNCHANGED <<sw_name, sw_run, sw_stage, sw_lost, sw_outcome>>
    BY <1>3 DEF SW!PassDeadline, SW!Becomes
  <2>2. /\ sw_attempt \in [SW!Slots -> Nat \ {0}] /\ SW!Sample.fails \in Nat /\ sw_lost \in Nat
        /\ SW!Sample.limit > 0 => sw_attempt[a] <= SW!Sample.limit
        /\ sw_attempt[a] + (IF sw_at[a] = "lost" THEN 1 ELSE 0) <= 1 + SW!Sample.fails + sw_lost
    BY <1>1, SamplesAreGood DEF CallsInv, CallInv, GoodSample, CallsInSteps, SW!Sample
  <2>3. sw_attempt' = [sw_attempt EXCEPT ![a] = sw_attempt[a]] /\ sw_attempt[a] \in Nat \ {0}
    BY <2>1, <2>2
  <2>4. /\ sw_attempt[a] + (IF "failed" = "lost" THEN 1 ELSE 0) <= 1 + SW!Sample.fails + sw_lost'
        /\ sw_lost' \in 0..MaxLostCalls /\ sw_lost' >= sw_lost /\ sw_at[a] # "done"
    BY <1>1, <2>1, <2>2, <2>3
  <2>5. SW!Sample.deadline \/ (SW!Sample.limit > 0 /\ sw_attempt[a] = SW!Sample.limit)
    BY <2>1
  <2> QED
    BY <2>1, <2>2, <2>3, <2>4, <2>5, OneCallMoves
<1> QED
  BY <1>2, <1>3

\* A step is scheduled when the one before is answered; its calls are not among
\* the answered ones.
LEMMA AdvanceStep ==
  ASSUME CallsInv, SW!Advance
  PROVE  CallsInv'
<1> DEFINE r == SW!Sample
<1>1. /\ sw_outcome = "open" /\ SW!Answered /\ sw_stage < Len(r.steps) /\ sw_stage' = sw_stage + 1
      /\ sw_at' = [a \in SW!Slots |-> IF a \in r.steps[sw_stage + 1] THEN "scheduled" ELSE sw_at[a]]
      /\ UNCHANGED <<sw_name, sw_run, sw_attempt, sw_lost, sw_outcome>>
      /\ CallInv /\ StepInv
  BY DEF SW!Advance, CallsInv
<1>2. r' = r /\ SW!Slots' = SW!Slots /\ SW!Samples' = SW!Samples /\ CallsInSteps(r)
  <2>1. r' = r /\ SW!Slots' = SW!Slots /\ SW!Samples' = SW!Samples
    BY <1>1 DEF SW!Sample, SW!Slots, SW!Samples
  <2>2. CallsInSteps(r)
    BY <1>1, SamplesAreGood DEF SW!Sample, CallInv, GoodSample
  <2> QED
    BY <2>1, <2>2
<1>3. sw_stage \in Nat /\ sw_stage + 1 \in 1..Len(r.steps) /\ Len(r.steps) \in Nat
  BY <1>1, <1>2 DEF StepInv, CallsInSteps
<1>4. \A a \in SW!Slots : sw_at'[a] = IF a \in r.steps[sw_stage + 1] THEN "scheduled" ELSE sw_at[a]
  BY <1>1
<1>5. CallInv'
  <2>1. sw_at' \in [SW!Slots -> {"none", "scheduled", "running", "completing", "lost", "done", "failed"}]
    BY <1>1 DEF CallInv
  <2>2. \A a \in SW!Slots : sw_attempt[a] + 0 <= 1 + r.fails + sw_lost
    <3> SUFFICES ASSUME NEW a \in SW!Slots PROVE sw_attempt[a] + 0 <= 1 + r.fails + sw_lost
      OBVIOUS
    <3>1. /\ sw_attempt[a] \in Nat /\ r.fails \in Nat /\ sw_lost \in Nat
          /\ sw_attempt[a] + (IF sw_at[a] = "lost" THEN 1 ELSE 0) <= 1 + r.fails + sw_lost
      BY <1>1, <1>2 DEF CallInv, CallsInSteps
    <3> QED
      BY <3>1
  <2> QED
    BY <1>1, <1>2, <1>4, <2>1, <2>2 DEF CallInv
<1>6. StepInv'
  <2>1. \A s \in 1..sw_stage : \A a \in r.steps[s] : sw_at[a] = "done" /\ a \in SW!Slots
    BY <1>1, <1>2, <1>3 DEF StepInv, CallsInSteps, SW!Answered, SW!Awaited
  <2>2. \A s \in 1..sw_stage : \A a \in r.steps[s] : sw_at'[a] = "done"
    BY <1>2, <1>3, <1>4, <2>1 DEF CallsInSteps
  <2> QED
    BY <1>1, <1>2, <1>3, <2>2 DEF StepInv
<1>7. EndInv'
  BY <1>1 DEF EndInv
<1> QED
  BY <1>5, <1>6, <1>7 DEF CallsInv

\* A run is followed by another, or is the last.
LEMMA ReturnStep ==
  ASSUME CallConstants, CallsInv, SW!Return
  PROVE  CallsInv'
<1> DEFINE r == SW!Sample
<1>1. sw_outcome = "open" /\ SW!Answered /\ UNCHANGED <<sw_name, sw_lost>> /\ CallInv /\ StepInv
  BY DEF SW!Return, CallsInv
<1>2. /\ r' = r /\ SW!Slots' = SW!Slots /\ SW!Samples' = SW!Samples /\ GoodSample(r)
      /\ r.fails \in Nat /\ r.limit \in Nat /\ sw_lost \in Nat /\ Len(r.steps) \in Nat
  <2>1. GoodSample(r)
    BY <1>1, SamplesAreGood DEF SW!Sample, CallInv
  <2>2. r' = r /\ SW!Slots' = SW!Slots /\ SW!Samples' = SW!Samples
    BY <1>1 DEF SW!Sample, SW!Slots, SW!Samples
  <2>3. MaxLostCalls \in Nat /\ sw_lost \in Nat
    BY <1>1 DEF CallConstants, CallInv
  <2> QED
    BY <2>1, <2>2, <2>3 DEF GoodSample, CallsInSteps
<1>3. \/ /\ sw_run' = sw_run + 1 /\ sw_run' \in 0..(10 + MaxCronRuns) /\ SW!NextRun
         /\ sw_outcome' = sw_outcome
      \/ /\ sw_name = "continue_as_new" \/ sw_stage = Len(r.steps)
         /\ sw_outcome' = "returned" /\ UNCHANGED <<sw_run, sw_stage, sw_at, sw_attempt>>
  BY <1>1 DEF SW!Return, SW!NextRun, CallInv, CallConstants
<1>4. CASE sw_run' \in 0..(10 + MaxCronRuns) /\ SW!NextRun /\ sw_outcome' = sw_outcome
  <2>1. /\ sw_stage' = 0 /\ sw_at' = [a \in SW!Slots |-> "none"] /\ sw_attempt' = [a \in SW!Slots |-> 1]
    BY <1>4 DEF SW!NextRun, SW!Fresh, SW!First
  <2>2. \A a \in SW!Slots : sw_at'[a] = "none" /\ sw_attempt'[a] = 1
    BY <2>1
  <2>3. CallInv'
    BY <1>1, <1>2, <1>4, <2>1, <2>2 DEF CallInv
  <2>4. StepInv'
    BY <1>2, <2>1 DEF StepInv
  <2>5. EndInv'
    BY <1>1, <1>4 DEF EndInv
  <2> QED
    BY <2>3, <2>4, <2>5 DEF CallsInv
<1>5. CASE /\ sw_name = "continue_as_new" \/ sw_stage = Len(r.steps)
           /\ sw_outcome' = "returned" /\ UNCHANGED <<sw_run, sw_stage, sw_at, sw_attempt>>
  <2>1. CallInv'
    BY <1>1, <1>2, <1>5 DEF CallInv
  <2>2. \A s \in 1..sw_stage : \A a \in r.steps[s] : sw_at[a] = "done"
    BY <1>1, <1>2 DEF StepInv, SW!Answered, SW!Awaited
  <2>3. StepInv'
    BY <1>1, <1>2, <1>5, <2>2 DEF StepInv
  <2>4. EndInv'
    BY <1>1, <1>2, <1>5 DEF EndInv
  <2> QED
    BY <2>1, <2>3, <2>4 DEF CallsInv
<1> QED
  BY <1>3, <1>4, <1>5

LEMMA FailStep ==
  ASSUME CallsInv, SW!Fail
  PROVE  CallsInv'
<1>1. /\ sw_outcome = "open" /\ sw_outcome' = "failed"
      /\ UNCHANGED <<sw_name, sw_run, sw_stage, sw_at, sw_attempt, sw_lost>>
      /\ CallInv /\ StepInv /\ \E a \in SW!Slots : sw_at[a] = "failed"
  BY DEF SW!Fail, CallsInv
<1>2. SW!Sample' = SW!Sample /\ SW!Slots' = SW!Slots /\ SW!Samples' = SW!Samples
  BY <1>1 DEF SW!Sample, SW!Slots, SW!Samples
<1>3. CallInv' /\ StepInv'
  BY <1>1, <1>2 DEF CallInv, StepInv
<1>4. EndInv'
  BY <1>1, <1>2 DEF EndInv, CallInv
<1> QED
  BY <1>3, <1>4 DEF CallsInv

\* Whatever is lost: what a sample returns was answered step by step, by attempts
\* that do not raise, and it fails only when its attempts or its time are used up.
THEOREM CallsAreAnswered == SW!Spec => [](SW!TypeOK /\ SW!ReturnsWhatWasAnswered)
<1>0. CallConstants
  BY FlowsAssumption
<1>1. SW!Init => CallsInv
  <2> SUFFICES ASSUME SW!Init PROVE CallsInv
    OBVIOUS
  <2>1. /\ sw_name \in DOMAIN SW!Samples /\ sw_run = 0 /\ sw_stage = 0 /\ sw_lost = 0
        /\ sw_outcome = "open" /\ sw_at = [a \in SW!Slots |-> "none"]
        /\ sw_attempt = [a \in SW!Slots |-> 1]
    BY DEF SW!Init, SW!Fresh, SW!First
  <2>2. /\ SW!Sample.fails \in Nat /\ SW!Sample.limit \in Nat /\ Len(SW!Sample.steps) \in Nat
    BY <2>1, SamplesAreGood DEF SW!Sample, GoodSample, CallsInSteps
  <2>3. CallInv
    BY <1>0, <2>1, <2>2 DEF CallInv, CallConstants
  <2>4. StepInv /\ EndInv
    BY <2>1, <2>2 DEF StepInv, EndInv
  <2> QED
    BY <2>3, <2>4 DEF CallsInv
<1>2. CallsInv /\ [SW!Next]_(SW!vars) => CallsInv'
  <2> SUFFICES ASSUME CallsInv, [SW!Next]_(SW!vars) PROVE CallsInv'
    OBVIOUS
  <2>1. CASE UNCHANGED SW!vars
    <3>1. SW!Sample' = SW!Sample /\ SW!Slots' = SW!Slots /\ SW!Samples' = SW!Samples
      BY <2>1 DEF SW!vars, SW!Sample, SW!Slots, SW!Samples
    <3> QED
      BY <2>1, <3>1 DEF SW!vars, CallsInv, CallInv, StepInv, EndInv
  <2> QED
    BY <1>0, <2>1, CallStepKeeps, LossOrDeadline, AdvanceStep, ReturnStep, FailStep
    DEF SW!Next, SW!Progress
<1>3. CallsInv => SW!TypeOK /\ SW!ReturnsWhatWasAnswered
  <2> SUFFICES ASSUME CallsInv PROVE SW!TypeOK /\ SW!ReturnsWhatWasAnswered
    OBVIOUS
  <2>1. GoodSample(SW!Sample)
    BY SamplesAreGood DEF CallsInv, CallInv, SW!Sample
  <2>2. \A a \in SW!Slots : sw_attempt[a] \in 1..(5 + MaxLostCalls)
    <3> SUFFICES ASSUME NEW a \in SW!Slots PROVE sw_attempt[a] \in 1..(5 + MaxLostCalls)
      OBVIOUS
    <3>1. /\ sw_attempt[a] \in Nat \ {0} /\ SW!Sample.fails \in Nat /\ SW!Sample.limit \in Nat
          /\ sw_lost \in 0..MaxLostCalls /\ MaxLostCalls \in Nat
          /\ sw_attempt[a] + (IF sw_at[a] = "lost" THEN 1 ELSE 0) <= 1 + SW!Sample.fails + sw_lost
          /\ SW!Sample.limit > 0 => sw_attempt[a] <= SW!Sample.limit
          /\ SW!Sample.limit \in 1..5 \/ (SW!Sample.limit = 0 /\ SW!Sample.fails <= 4)
      BY <1>0, <2>1 DEF CallsInv, CallInv, GoodSample, CallsInSteps, TriedAFewTimes, CallConstants
    <3> QED
      BY <3>1
  <2>3. sw_attempt \in [SW!Slots -> 1..(5 + MaxLostCalls)]
    BY <2>2 DEF CallsInv, CallInv
  <2>4. SW!TypeOK
    BY <2>3 DEF CallsInv, CallInv, StepInv, SW!TypeOK
  <2>5. \A s \in 1..sw_stage : \A a \in SW!Sample.steps[s] :
          /\ s < sw_stage \/ sw_outcome = "returned" => sw_at[a] = "done"
          /\ sw_at[a] = "done" => sw_attempt[a] > SW!Sample.fails
    <3>1. \A s \in 1..sw_stage : \A a \in SW!Sample.steps[s] : a \in SW!Slots
      BY <2>1 DEF GoodSample, CallsInSteps, CallsInv, StepInv
    <3> QED
      BY <3>1 DEF CallsInv, CallInv, StepInv
  <2> QED
    BY <2>4, <2>5 DEF SW!ReturnsWhatWasAnswered, CallsInv, EndInv
<1> QED
  BY <1>1, <1>2, <1>3, PTL DEF SW!Spec

-----------------------------------------------------------------------------
(* CloudExport *)

RunPcs == {"none", "start", "get_object_keys", "data_trans_and_land"}

\* An hour is read when its files are complete, by as many runs as the schedule
\* has started.
ReadInTime ==
  /\ ce_exported \in [CE!Hours -> 0..MaxFiles] /\ ce_unreadable \subseteq CE!Hours \X {1}
  /\ ce_clock \in 0..MaxHour /\ ce_fired \in (num_delay_hour - 1)..ce_clock
  /\ ce_hour \in CE!Hours /\ ce_hour + num_delay_hour <= ce_clock
  /\ ce_pc \in RunPcs /\ ce_attempt \in 1..maximum_attempts /\ ce_lost \in 0..MaxLostPuts
  /\ ce_key \in 0..CE!Listed(ce_hour)
  /\ ce_pc # "data_trans_and_land" <=> ce_key = 0
  /\ ce_readers \in [CE!Hours -> Nat]
  /\ \A h \in CE!Hours :
       ce_readers[h] + (IF ce_pc = "start" THEN 1 ELSE 0) <= ce_fired - num_delay_hour + 1

\* The run has landed the files before the one it is at, and of the others not yet
\* its share.
LandedInTurn ==
  /\ ce_landed \in [CE!Files -> Nat]
  /\ \A k \in 1..MaxFiles :
       /\ k < ce_key => ce_landed[<<ce_hour, k>>] > 0
       /\ ce_pc \in {"get_object_keys", "data_trans_and_land"} /\ k >= ce_key
            => ce_landed[<<ce_hour, k>>] < ce_readers[ce_hour] + ce_lost
  /\ \A e \in ce_ended : e.hour \in CE!Hours

ExportInv == ReadInTime /\ LandedInTurn /\ CE!EveryFileLands

\* The first page lists some of the files of an hour, and one at least if there is
\* one.
LEMMA ListedAre ==
  ASSUME ExportConstants, ReadInTime
  PROVE  \A h \in CE!Hours :
           /\ h \in 0..MaxHour /\ ce_exported[h] \in 0..MaxFiles /\ CE!Listed(h) \in 0..MaxFiles
           /\ CE!Listed(h) > 0 <=> ce_exported[h] > 0
BY DEF ExportConstants, ReadInTime, CE!Hours, CE!Listed

\* The pairs of an hour and a file.
LEMMA FilesAre ==
  /\ \A f \in CE!Files : f[1] \in CE!Hours /\ f[2] \in 1..MaxFiles /\ f = <<f[1], f[2]>>
  /\ \A h \in CE!Hours : \A k \in 1..MaxFiles : <<h, k>> \in CE!Files
BY DEF CE!Files

\* The clock, the schedule and the start of a run.
LEMMA ClockStep ==
  ASSUME ExportConstants, ExportInv, CE!Tick \/ CE!create_schedule
  PROVE  ExportInv'
<1>1. CASE CE!Tick
  <2>1. /\ ce_clock < MaxHour /\ ce_clock' = ce_clock + 1
        /\ UNCHANGED <<ce_exported, ce_unreadable, ce_fired, ce_pc, ce_hour, ce_readers, ce_key, ce_attempt,
                       ce_landed, ce_ended, ce_lost>>
        /\ ReadInTime /\ LandedInTurn /\ CE!EveryFileLands
    BY <1>1 DEF CE!Tick, ExportInv
  <2>2. ReadInTime'
    <3>1. CE!Listed(ce_hour)' = CE!Listed(ce_hour) /\ num_delay_hour \in Nat
      BY <2>1 DEF CE!Listed, ExportConstants
    <3>2. /\ ce_clock' \in 0..MaxHour /\ ce_fired' \in (num_delay_hour - 1)..ce_clock'
          /\ ce_hour' + num_delay_hour <= ce_clock'
      BY <2>1, <3>1, ListedAre DEF ReadInTime, ExportConstants
    <3> QED
      BY <2>1, <3>1, <3>2 DEF ReadInTime
  <2>3. LandedInTurn'
    <3>1. CE!Files' = CE!Files
      BY DEF CE!Files
    <3> QED
      BY <2>1, <3>1 DEF LandedInTurn
  <2>4. \A f \in CE!Files : f[1] + num_delay_hour <= ce_clock => f[1] + num_delay_hour <= ce_clock'
    <3>1. num_delay_hour \in Int /\ ce_clock \in Int /\ \A f \in CE!Files : f[1] \in Int
      BY <2>1, FilesAre, ListedAre DEF ReadInTime, ExportConstants
    <3> QED
      BY <2>1, <3>1
  <2>5. CE!EveryFileLands'
    BY <2>1, <2>4 DEF CE!EveryFileLands, CE!Files, CE!Listed
  <2> QED
    BY <2>2, <2>3, <2>5 DEF ExportInv
<1>2. CASE CE!create_schedule
  <2>1. /\ ce_fired < ce_clock /\ ce_fired' = ce_clock
        /\ ce_pc' = IF ce_pc = "none" THEN "start" ELSE ce_pc
        /\ UNCHANGED <<ce_exported, ce_unreadable, ce_clock, ce_hour, ce_readers, ce_key, ce_attempt, ce_landed,
                       ce_ended, ce_lost>>
        /\ ReadInTime /\ LandedInTurn /\ CE!EveryFileLands
    BY <1>2 DEF CE!create_schedule, ExportInv
  <2>2. ReadInTime'
    BY <2>1 DEF ReadInTime, ExportConstants, RunPcs, CE!Listed
  <2>3. LandedInTurn'
    BY <2>1 DEF LandedInTurn, CE!Files
  <2>4. CE!EveryFileLands'
    BY <2>1 DEF CE!EveryFileLands, CE!Files, CE!Listed
  <2> QED
    BY <2>2, <2>3, <2>4 DEF ExportInv
<1> QED
  BY <1>1, <1>2

LEMMA ReadStep ==
  ASSUME ExportConstants, ExportInv, CE!run
  PROVE  ExportInv'
<1>1. /\ ce_pc = "start" /\ ce_pc' = "get_object_keys" /\ ce_hour' = ce_clock - num_delay_hour
      /\ ce_readers' = [ce_readers EXCEPT ![ce_hour'] = @ + 1] /\ ce_attempt' = 1
      /\ UNCHANGED <<ce_exported, ce_unreadable, ce_clock, ce_fired, ce_key, ce_landed, ce_ended, ce_lost>>
      /\ ReadInTime /\ LandedInTurn /\ CE!EveryFileLands
  BY DEF CE!run, ExportInv
<1>2. ce_hour' \in CE!Hours /\ ce_hour' + num_delay_hour <= ce_clock /\ ce_hour' \in 0..MaxHour
  BY <1>1 DEF ReadInTime, ExportConstants, CE!Hours
<1>3. /\ ce_readers' \in [CE!Hours -> Nat]
      /\ \A h \in CE!Hours :
           ce_readers'[h] = IF h = ce_hour' THEN ce_readers[h] + 1 ELSE ce_readers[h]
  BY <1>1, <1>2 DEF ReadInTime
<1>4. ReadInTime'
  <2>1. CE!Listed(ce_hour)' \in Nat /\ ce_key' = 0
    BY <1>1, <1>2, ListedAre DEF ReadInTime, ExportConstants, CE!Listed
  <2>2. \A h \in CE!Hours :
          ce_readers'[h] + (IF ce_pc' = "start" THEN 1 ELSE 0) <= ce_fired' - num_delay_hour + 1
    BY <1>1, <1>3 DEF ReadInTime, ExportConstants
  <2> QED
    BY <1>1, <1>2, <1>3, <2>1, <2>2 DEF ReadInTime, ExportConstants, RunPcs
<1>5. \A f \in CE!Files : ce_landed[f] \in Nat /\ ce_readers[f[1]] \in Nat /\ f[1] \in CE!Hours
  BY <1>1, FilesAre DEF ReadInTime, LandedInTurn
<1>6. CE!EveryFileLands'
  BY <1>1, <1>3, <1>5 DEF CE!EveryFileLands, ReadInTime, CE!Files, CE!Listed
<1>7. LandedInTurn'
  <2>1. \A k \in 1..MaxFiles : ce_landed[<<ce_hour', k>>] <= ce_readers[ce_hour'] + ce_lost
    BY <1>1, <1>2, FilesAre DEF CE!EveryFileLands
  <2>2. \A k \in 1..MaxFiles : ce_landed[<<ce_hour', k>>] \in Nat /\ ce_readers[ce_hour'] \in Nat
    BY <1>1, <1>2, FilesAre DEF LandedInTurn, ReadInTime
  <2> QED
    BY <1>1, <1>2, <1>3, <2>1, <2>2 DEF LandedInTurn, ReadInTime, CE!Files
<1> QED
  BY <1>4, <1>6, <1>7 DEF ExportInv

\* An attempt that fails is made again, or is the end of the run: on a file, on an
\* hour that has none, or because it was lost.
LEMMA FailedStep ==
  ASSUME ExportConstants, ExportInv,
         \/ CE!ConversionFails \/ CE!AttemptFails
         \/ CE!get_object_keys /\ ce_exported[ce_hour] = 0
  PROVE  ExportInv'
<1>1. /\ UNCHANGED <<ce_exported, ce_unreadable, ce_clock, ce_fired, ce_hour, ce_readers, ce_landed>>
      /\ ce_pc \in {"get_object_keys", "data_trans_and_land"}
      /\ \/ <<ce_hour, ce_key>> \in ce_unreadable /\ ce_pc = "data_trans_and_land" /\ ce_lost' = ce_lost
         \/ ce_exported[ce_hour] = 0 /\ ce_lost' = ce_lost
         \/ ce_lost < MaxLostPuts /\ ce_lost' = ce_lost + 1
      /\ CE!Fails /\ ReadInTime /\ LandedInTurn /\ CE!EveryFileLands
  <2>1. /\ ce_exported[ce_hour] \in Nat
        /\ ReadInTime /\ LandedInTurn /\ CE!EveryFileLands
    BY ListedAre DEF ExportInv, ReadInTime
  <2> QED
    BY <2>1 DEF CE!ConversionFails, CE!AttemptFails, CE!get_object_keys
<1>2. \/ /\ ce_attempt = maximum_attempts /\ ce_pc' = "none" /\ ce_key' = 0 /\ ce_attempt' = 1
         /\ ce_ended' = ce_ended \cup {[hour |-> ce_hour, how |-> "failed"]}
      \/ /\ ce_attempt # maximum_attempts /\ ce_attempt' = ce_attempt + 1
         /\ UNCHANGED <<ce_pc, ce_key, ce_ended>>
  BY <1>1 DEF CE!Fails, CE!EndRun
<1>3. ReadInTime'
  <2>1. CE!Listed(ce_hour)' = CE!Listed(ce_hour) /\ CE!Listed(ce_hour) \in Nat
    BY <1>1, ListedAre DEF CE!Listed, ReadInTime, ExportConstants
  <2> QED
    BY <1>1, <1>2, <2>1 DEF ReadInTime, ExportConstants, RunPcs
<1>4. \A f \in CE!Files : ce_landed[f] \in Nat /\ ce_readers[f[1]] \in Nat
  BY <1>1, FilesAre DEF ReadInTime, LandedInTurn
<1>5. LandedInTurn'
  <2>1. ce_ended' \subseteq ce_ended \cup {[hour |-> ce_hour, how |-> "failed"]}
    BY <1>2
  <2>2. /\ ce_landed' \in [CE!Files' -> Nat] /\ \A e \in ce_ended' : e.hour \in CE!Hours
    BY <1>1, <2>1 DEF LandedInTurn, ReadInTime, CE!Files
  <2>3. \A k \in 1..MaxFiles : ce_landed[<<ce_hour, k>>] \in Nat /\ ce_readers[ce_hour] \in Nat
    BY <1>1, FilesAre DEF LandedInTurn, ReadInTime
  <2> QED
    BY <1>1, <1>2, <2>2, <2>3 DEF LandedInTurn, ReadInTime
<1>6. CE!EveryFileLands'
  <2>1. \A e \in ce_ended' : e.how = "returned" => e \in ce_ended
    BY <1>2
  <2>2. \A e \in ce_ended' : e.how = "failed" =>
          \/ ce_lost > 0 \/ ce_lost' > 0 \/ ce_exported[e.hour] = 0
          \/ \E k \in 1..CE!Listed(e.hour) : <<e.hour, k>> \in ce_unreadable
    <3> SUFFICES ASSUME NEW e \in ce_ended', e.how = "failed", ~(ce_lost' > 0), ce_exported[e.hour] # 0,
                        ~(ce_lost > 0)
                 PROVE  \E k \in 1..CE!Listed(e.hour) : <<e.hour, k>> \in ce_unreadable
      OBVIOUS
    <3>1. CASE e \in ce_ended
      BY <1>1, <3>1 DEF CE!EveryFileLands
    <3>2. CASE e \notin ce_ended
      <4>1. e.hour = ce_hour
        BY <1>2, <3>2
      <4>2. ce_lost \in Nat
        BY <1>1 DEF ReadInTime, ExportConstants
      <4>3. <<ce_hour, ce_key>> \in ce_unreadable /\ ce_pc = "data_trans_and_land"
        BY <1>1, <4>1, <4>2
      <4>4. ce_key \in 1..CE!Listed(ce_hour)
        BY <1>1, <4>3, ListedAre DEF ReadInTime
      <4> QED
        BY <4>1, <4>3, <4>4
    <3> QED
      BY <3>1, <3>2
  <2>3. \A f \in CE!Files' :
          /\ ce_landed'[f] > 0 => f[1] + num_delay_hour <= ce_clock' /\ f \notin ce_unreadable'
          /\ ce_landed'[f] <= ce_readers'[f[1]] + ce_lost'
    BY <1>1, <1>4 DEF CE!EveryFileLands, CE!Files, ReadInTime
  <2>4. ce_lost \in Nat /\ ce_lost' >= ce_lost /\ ce_lost' \in Nat
    BY <1>1 DEF ReadInTime, ExportConstants
  <2>5. \A e \in ce_ended' : e.how = "failed" =>
          \/ ce_lost' > 0 \/ ce_exported[e.hour] = 0
          \/ \E k \in 1..CE!Listed(e.hour) : <<e.hour, k>> \in ce_unreadable
    BY <2>2, <2>4
  <2>6. \A f \in CE!Files' : ce_landed'[f] > 0 => f[2] <= CE!Listed(f[1])
    BY <1>1 DEF CE!EveryFileLands, CE!Files
  <2> QED
    BY <1>1, <2>1, <2>3, <2>5, <2>6 DEF CE!EveryFileLands, CE!Listed
<1> QED
  BY <1>3, <1>5, <1>6 DEF ExportInv

\* The next file, or the end of the loop, keeps what is not about the file just
\* landed.
LEMMA NextKeyStep ==
  ASSUME ExportConstants, ReadInTime, CE!NextKey,
         ce_pc \in {"get_object_keys", "data_trans_and_land"},
         UNCHANGED <<ce_exported, ce_unreadable, ce_clock, ce_fired, ce_hour, ce_readers, ce_lost>>
  PROVE  /\ ReadInTime'
         /\ \/ /\ ce_key = CE!Listed(ce_hour) /\ ce_pc' = "none" /\ ce_key' = 0
               /\ ce_ended' = ce_ended \cup {[hour |-> ce_hour, how |-> "returned"]}
            \/ /\ ce_key < CE!Listed(ce_hour) /\ ce_pc' = "data_trans_and_land" /\ ce_key' = ce_key + 1
               /\ ce_ended' = ce_ended
<1>0. /\ CE!Listed(ce_hour)' = CE!Listed(ce_hour) /\ CE!Listed(ce_hour) \in 0..MaxFiles
      /\ ce_key \in 0..CE!Listed(ce_hour)
  BY ListedAre DEF CE!Listed, ReadInTime, ExportConstants
<1>1. CASE ce_key = CE!Listed(ce_hour)
  <2>1. /\ ce_pc' = "none" /\ ce_key' = 0 /\ ce_attempt' = 1
        /\ ce_ended' = ce_ended \cup {[hour |-> ce_hour, how |-> "returned"]}
    BY <1>1 DEF CE!NextKey, CE!EndRun
  <2>2. ReadInTime'
    BY <1>0, <2>1 DEF ReadInTime, ExportConstants, RunPcs
  <2> QED
    BY <1>1, <2>1, <2>2
<1>2. CASE ce_key # CE!Listed(ce_hour)
  <2>1. /\ ce_pc' = "data_trans_and_land" /\ ce_key' = ce_key + 1 /\ ce_attempt' = 1
        /\ ce_ended' = ce_ended
    BY <1>2 DEF CE!NextKey
  <2>2. ce_key < CE!Listed(ce_hour) /\ ce_key + 1 \in 1..CE!Listed(ce_hour)
    BY <1>0, <1>2, <2>1
  <2>3. ReadInTime'
    BY <1>0, <2>1, <2>2 DEF ReadInTime, ExportConstants, RunPcs
  <2> QED
    BY <2>1, <2>2, <2>3
<1> QED
  BY <1>1, <1>2

\* The listing, of an hour that has files.
LEMMA KeysStep ==
  ASSUME ExportConstants, ExportInv, CE!get_object_keys, ce_exported[ce_hour] > 0
  PROVE  ExportInv'
<1>1. /\ ce_pc = "get_object_keys" /\ ReadInTime /\ LandedInTurn /\ CE!EveryFileLands
      /\ ce_exported[ce_hour] \in Nat
      /\ UNCHANGED <<ce_exported, ce_unreadable, ce_clock, ce_fired, ce_hour, ce_readers, ce_landed, ce_lost>>
  BY ListedAre DEF CE!get_object_keys, ExportInv, ReadInTime
<1>2. CE!NextKey
  BY <1>1 DEF CE!get_object_keys
<1>3. /\ ce_key = 0 /\ ce_hour \in CE!Hours /\ CE!Listed(ce_hour) \in Nat \ {0}
  BY <1>1, ListedAre DEF ReadInTime, ExportConstants
<1>4. /\ ReadInTime'
      /\ ce_pc' = "data_trans_and_land" /\ ce_key' = 1 /\ ce_ended' = ce_ended
  BY <1>1, <1>2, <1>3, NextKeyStep
<1>5. \A f \in CE!Files : ce_landed[f] \in Nat
  BY <1>1 DEF LandedInTurn
<1>6. LandedInTurn'
  BY <1>1, <1>3, <1>4 DEF LandedInTurn, CE!Files, ExportConstants
<1>7. CE!EveryFileLands'
  BY <1>1, <1>4 DEF CE!EveryFileLands, CE!Files, CE!Listed
<1> QED
  BY <1>4, <1>6, <1>7 DEF ExportInv

\* A file is put, and the answer may be lost.
LEMMA SaveStep ==
  ASSUME ExportConstants, ExportInv, CE!save_to_sink
  PROVE  ExportInv'
<1> DEFINE at == <<ce_hour, ce_key>>
<1>1. /\ ce_pc = "data_trans_and_land" /\ ReadInTime /\ LandedInTurn /\ CE!EveryFileLands
      /\ at \notin ce_unreadable /\ ce_landed' = [ce_landed EXCEPT ![at] = @ + 1]
      /\ UNCHANGED <<ce_exported, ce_unreadable, ce_clock, ce_fired, ce_hour, ce_readers>>
      /\ \/ CE!NextKey /\ ce_lost' = ce_lost
         \/ ce_lost < MaxLostPuts /\ ce_lost' = ce_lost + 1 /\ CE!Fails
  BY DEF CE!save_to_sink, ExportInv
<1>2. /\ ce_hour \in CE!Hours /\ ce_key \in 1..MaxFiles /\ ce_key \in 1..CE!Listed(ce_hour) /\ ce_lost \in Nat /\ at \in CE!Files
      /\ ce_readers[ce_hour] \in Nat /\ ce_hour + num_delay_hour <= ce_clock
  <2>1. /\ ce_hour \in CE!Hours /\ ce_hour + num_delay_hour <= ce_clock
        /\ ce_key \in 0..CE!Listed(ce_hour) /\ ce_key # 0 /\ ce_lost \in 0..MaxLostPuts
        /\ ce_readers \in [CE!Hours -> Nat]
    BY <1>1 DEF ReadInTime
  <2>2. CE!Listed(ce_hour) \in 0..MaxFiles
    BY <1>1, <2>1, ListedAre
  <2>3. /\ ce_key \in 1..MaxFiles /\ ce_key \in 1..CE!Listed(ce_hour) /\ ce_lost \in Nat
        /\ ce_readers[ce_hour] \in Nat
    BY <2>1, <2>2 DEF ExportConstants
  <2> QED
    BY <2>1, <2>3, FilesAre
<1>3. /\ ce_landed' \in [CE!Files -> Nat]
      /\ \A f \in CE!Files :
           /\ ce_landed[f] \in Nat /\ ce_readers[f[1]] \in Nat
           /\ ce_landed'[f] = IF f = at THEN ce_landed[f] + 1 ELSE ce_landed[f]
  <2>1. ce_landed \in [CE!Files -> Nat] /\ ce_landed[at] \in Nat /\ ce_landed[at] + 1 \in Nat
    BY <1>1, <1>2 DEF LandedInTurn
  <2>2. ce_landed' \in [CE!Files -> Nat]
    BY <1>1, <2>1
  <2>3. \A f \in CE!Files : ce_landed'[f] = IF f = at THEN ce_landed[f] + 1 ELSE ce_landed[f]
    BY <1>1, <2>1
  <2>4. \A f \in CE!Files : ce_landed[f] \in Nat /\ ce_readers[f[1]] \in Nat
    BY <1>1, <2>1, FilesAre DEF ReadInTime
  <2> QED
    BY <2>2, <2>3, <2>4
<1>4. \A k \in 1..MaxFiles :
        /\ <<ce_hour, k>> \in CE!Files /\ ce_landed[<<ce_hour, k>>] \in Nat
        /\ ce_landed'[<<ce_hour, k>>] =
             IF k = ce_key THEN ce_landed[<<ce_hour, k>>] + 1 ELSE ce_landed[<<ce_hour, k>>]
  BY <1>2, <1>3, FilesAre
<1>5. ce_landed[at] < ce_readers[ce_hour] + ce_lost /\ ce_landed'[at] = ce_landed[at] + 1
  BY <1>1, <1>2, <1>4 DEF LandedInTurn
<1>6. \A f \in CE!Files' :
        /\ ce_landed'[f] > 0 => f[1] + num_delay_hour <= ce_clock' /\ f \notin ce_unreadable'
        /\ ce_landed'[f] <= ce_readers'[f[1]] + ce_lost'
  <2> SUFFICES ASSUME NEW f \in CE!Files
               PROVE  /\ ce_landed'[f] > 0 => f[1] + num_delay_hour <= ce_clock /\ f \notin ce_unreadable
                      /\ ce_landed'[f] <= ce_readers[f[1]] + ce_lost'
    BY <1>1 DEF CE!Files
  <2>1. CASE f = at
    <3>1. f[1] = ce_hour
      BY <2>1
    <3>2. ce_landed[at] \in Nat
      BY <1>2, <1>3
    <3>3. ce_lost' >= ce_lost /\ ce_lost' \in Int
      BY <1>1, <1>2
    <3> QED
      BY <1>1, <1>2, <1>5, <2>1, <3>1, <3>2, <3>3
  <2>2. CASE f # at
    <3>1. ce_lost' >= ce_lost /\ ce_lost' \in Int
      BY <1>1, <1>2
    <3>2. ce_landed'[f] = ce_landed[f] /\ ce_landed[f] \in Nat /\ ce_readers[f[1]] \in Nat
      BY <1>3, <2>2
    <3>3. /\ ce_landed[f] > 0 => f[1] + num_delay_hour <= ce_clock /\ f \notin ce_unreadable
          /\ ce_landed[f] <= ce_readers[f[1]] + ce_lost
      BY <1>1 DEF CE!EveryFileLands
    <3> QED
      BY <1>2, <3>1, <3>2, <3>3
  <2> QED
    BY <2>1, <2>2
<1>7. \A e \in ce_ended : e.how = "returned" =>
        CE!Listed(e.hour) > 0 /\ \A k \in 1..CE!Listed(e.hour) : ce_landed'[<<e.hour, k>>] > 0
  <2> SUFFICES ASSUME NEW e \in ce_ended, e.how = "returned", NEW k \in 1..CE!Listed(e.hour)
               PROVE  ce_landed'[<<e.hour, k>>] > 0
    BY <1>1 DEF CE!EveryFileLands
  <2>1. e.hour \in CE!Hours /\ CE!Listed(e.hour) \in 0..MaxFiles
    BY <1>1, ListedAre DEF LandedInTurn
  <2>2. <<e.hour, k>> \in CE!Files /\ ce_landed[<<e.hour, k>>] > 0
    BY <1>1, <2>1, FilesAre DEF CE!EveryFileLands, ExportConstants
  <2> QED
    BY <1>3, <2>2
<1>8. \A f \in CE!Files : ce_landed'[f] > 0 => f[2] <= CE!Listed(f[1])
  BY <1>1, <1>2, <1>3 DEF CE!EveryFileLands
<1>9. CE!Files' = CE!Files
  BY DEF CE!Files
<1>10. CASE CE!NextKey /\ ce_lost' = ce_lost
  <2>1. /\ ReadInTime'
        /\ \/ /\ ce_key = CE!Listed(ce_hour) /\ ce_pc' = "none" /\ ce_key' = 0
              /\ ce_ended' = ce_ended \cup {[hour |-> ce_hour, how |-> "returned"]}
           \/ /\ ce_key < CE!Listed(ce_hour) /\ ce_pc' = "data_trans_and_land" /\ ce_key' = ce_key + 1
              /\ ce_ended' = ce_ended
    BY <1>1, <1>10, NextKeyStep
  <2>2. \A k \in 1..MaxFiles : k <= ce_key => ce_landed'[<<ce_hour, k>>] > 0
    BY <1>1, <1>2, <1>4 DEF LandedInTurn
  <2>3. \A e \in ce_ended' : e.how = "returned" =>
          CE!Listed(e.hour) > 0 /\ \A k \in 1..CE!Listed(e.hour) : ce_landed'[<<e.hour, k>>] > 0
    <3>1. CE!Listed(ce_hour) \in 0..MaxFiles
      BY <1>1, <1>2, ListedAre
    <3>2. \A k \in 1..CE!Listed(ce_hour) : k \in 1..MaxFiles
      BY <3>1 DEF ExportConstants
    <3>3. CASE ce_ended' = ce_ended
      BY <1>7, <3>3
    <3>4. CASE /\ ce_key = CE!Listed(ce_hour)
               /\ ce_ended' = ce_ended \cup {[hour |-> ce_hour, how |-> "returned"]}
      <4>1. CE!Listed(ce_hour) > 0 /\ \A k \in 1..CE!Listed(ce_hour) : ce_landed'[<<ce_hour, k>>] > 0
        BY <1>2, <2>2, <3>1, <3>2, <3>4
      <4>2. \A e \in ce_ended' : e \in ce_ended \/ e.hour = ce_hour
        BY <3>4
      <4> QED
        BY <1>7, <4>1, <4>2
    <3> QED
      BY <2>1, <3>3, <3>4
  <2>4. \A e \in ce_ended' : e.how = "failed" =>
          \/ ce_lost' > 0 \/ ce_exported[e.hour] = 0
          \/ \E k \in 1..CE!Listed(e.hour) : <<e.hour, k>> \in ce_unreadable'
    BY <1>1, <1>10, <2>1 DEF CE!EveryFileLands
  <2>5. CE!EveryFileLands'
    BY <1>1, <1>6, <1>8, <1>9, <2>3, <2>4 DEF CE!EveryFileLands, CE!Listed
  <2>6. \A k \in 1..MaxFiles : k > ce_key =>
          ce_landed'[<<ce_hour, k>>] < ce_readers[ce_hour] + ce_lost
    BY <1>1, <1>2, <1>4 DEF LandedInTurn
  <2>7. CE!Files' = CE!Files /\ \A e \in ce_ended' : e.hour \in CE!Hours
    BY <1>1, <1>2, <2>1 DEF CE!Files, LandedInTurn
  <2>8. LandedInTurn'
    BY <1>1, <1>2, <1>3, <1>10, <2>1, <2>2, <2>6, <2>7 DEF LandedInTurn
  <2> QED
    BY <2>1, <2>5, <2>8 DEF ExportInv
<1>11. CASE ce_lost < MaxLostPuts /\ ce_lost' = ce_lost + 1 /\ CE!Fails
  <2>1. \/ /\ ce_attempt = maximum_attempts /\ ce_pc' = "none" /\ ce_key' = 0 /\ ce_attempt' = 1
           /\ ce_ended' = ce_ended \cup {[hour |-> ce_hour, how |-> "failed"]}
        \/ /\ ce_attempt # maximum_attempts /\ ce_attempt' = ce_attempt + 1
           /\ UNCHANGED <<ce_pc, ce_key, ce_ended>>
    BY <1>11 DEF CE!Fails, CE!EndRun
  <2>2. ReadInTime'
    <3>1. CE!Listed(ce_hour)' = CE!Listed(ce_hour) /\ CE!Listed(ce_hour) \in Nat
      BY <1>1, ListedAre DEF CE!Listed, ReadInTime, ExportConstants
    <3> QED
      BY <1>1, <1>11, <2>1, <3>1 DEF ReadInTime, ExportConstants, RunPcs
  <2>3. \A e \in ce_ended' : e.how = "returned" => e \in ce_ended
    BY <2>1
  <2>4. ce_lost' > 0
    BY <1>2, <1>11
  <2>5. CE!EveryFileLands'
    BY <1>1, <1>6, <1>7, <1>8, <1>9, <2>3, <2>4 DEF CE!EveryFileLands, CE!Listed
  <2>6. CE!Files' = CE!Files /\ \A e \in ce_ended' : e.hour \in CE!Hours
    BY <1>1, <1>2, <2>1 DEF CE!Files, LandedInTurn
  <2>7. \A k \in 1..MaxFiles :
          /\ k < ce_key => ce_landed'[<<ce_hour, k>>] > 0
          /\ k >= ce_key => ce_landed'[<<ce_hour, k>>] < ce_readers[ce_hour] + ce_lost'
    BY <1>1, <1>2, <1>4, <1>11 DEF LandedInTurn
  <2>8. LandedInTurn'
    BY <1>1, <1>2, <1>3, <2>1, <2>6, <2>7 DEF LandedInTurn
  <2> QED
    BY <2>2, <2>5, <2>8 DEF ExportInv
<1> QED
  BY <1>1, <1>10, <1>11

\* However many files the hours have and a page lists, however late a run reads its
\* hour and whatever is lost: a run that returned has landed each file of the first
\* page of its hour, one at least, no file lands more often than it was read or its
\* put was lost, and a run fails only on an hour without files, a file that cannot
\* be converted, or lost attempts.
THEOREM FilesLand == CE!Spec => [](CE!TypeOK /\ CE!EveryFileLands)
<1>0. ExportConstants
  BY FlowsAssumption
<1>1. CE!Init => ExportInv
  <2> SUFFICES ASSUME CE!Init PROVE ExportInv
    OBVIOUS
  <2>1. ReadInTime
    <3>1. /\ ce_hour = 0 /\ ce_key = 0 /\ ce_exported \in [CE!Hours -> 0..MaxFiles]
          /\ 0 \in CE!Hours /\ CE!Listed(0) \in Nat /\ ce_unreadable \subseteq CE!Hours \X {1}
      BY <1>0 DEF CE!Init, CE!Hours, CE!Listed, ExportConstants
    <3> QED
      BY <1>0, <3>1 DEF CE!Init, ReadInTime, ExportConstants, RunPcs
  <2>2. \A f \in CE!Files : ce_landed[f] = 0 /\ ce_readers[f[1]] = 0
    BY FilesAre DEF CE!Init
  <2>3. LandedInTurn
    BY DEF CE!Init, LandedInTurn
  <2>4. CE!EveryFileLands
    <3>1. ce_ended = {} /\ ce_lost = 0
      BY DEF CE!Init
    <3>2. \A f \in CE!Files :
            /\ ce_landed[f] > 0 => /\ f[1] + num_delay_hour <= ce_clock /\ f \notin ce_unreadable
                                   /\ f[2] <= CE!Listed(f[1])
            /\ ce_landed[f] <= ce_readers[f[1]] + ce_lost
      BY <2>2, <3>1
    <3> QED
      BY <3>1, <3>2 DEF CE!EveryFileLands
  <2> QED
    BY <2>1, <2>3, <2>4 DEF ExportInv
<1>2. ExportInv /\ [CE!Next]_(CE!vars) => ExportInv'
  <2> SUFFICES ASSUME ExportInv, [CE!Next]_(CE!vars) PROVE ExportInv'
    OBVIOUS
  <2>1. CASE UNCHANGED CE!vars
    BY <2>1 DEF CE!vars, ExportInv, ReadInTime, LandedInTurn, CE!EveryFileLands, CE!Files, CE!Listed
  <2>2. ce_exported[ce_hour] \in Nat
    BY <1>0, ListedAre DEF ExportInv, ReadInTime
  <2>3. ce_exported[ce_hour] = 0 \/ ce_exported[ce_hour] > 0
    BY <2>2
  <2> QED
    BY <1>0, <2>1, <2>3, ClockStep, ReadStep, FailedStep, KeysStep, SaveStep DEF CE!Next, CE!RunStep
<1>3. ExportInv => CE!TypeOK /\ CE!EveryFileLands
  <2> SUFFICES ASSUME ExportInv PROVE CE!TypeOK /\ CE!EveryFileLands
    OBVIOUS
  <2>1. \A f \in CE!Files : ce_landed[f] \in 0..(MaxLostPuts + MaxHour + 1)
    <3> SUFFICES ASSUME NEW f \in CE!Files PROVE ce_landed[f] \in 0..(MaxLostPuts + MaxHour + 1)
      OBVIOUS
    <3>1. /\ f[1] \in CE!Hours /\ ce_landed[f] \in Nat /\ ce_readers[f[1]] \in Nat
          /\ ce_landed[f] <= ce_readers[f[1]] + ce_lost
      BY <1>0, FilesAre DEF ExportInv, LandedInTurn, CE!EveryFileLands, ReadInTime
    <3>2. ce_readers[f[1]] <= ce_fired - num_delay_hour + 1 /\ ce_lost \in 0..MaxLostPuts
      <4>1. ce_readers[f[1]] + (IF ce_pc = "start" THEN 1 ELSE 0) <= ce_fired - num_delay_hour + 1
        BY <3>1 DEF ExportInv, ReadInTime
      <4>2. ce_fired \in Int /\ num_delay_hour \in Int /\ ce_lost \in 0..MaxLostPuts
        BY <1>0 DEF ExportInv, ReadInTime, ExportConstants
      <4> QED
        BY <3>1, <4>1, <4>2
    <3> QED
      BY <1>0, <3>1, <3>2 DEF ExportInv, ReadInTime, ExportConstants
  <2>2. ce_landed \in [CE!Files -> 0..(MaxLostPuts + MaxHour + 1)]
    BY <2>1 DEF ExportInv, LandedInTurn
  <2> QED
    BY <1>0, <2>2 DEF ExportInv, ReadInTime, CE!TypeOK, ExportConstants, RunPcs
<1> QED
  BY <1>1, <1>2, <1>3, PTL DEF CE!Spec

-----------------------------------------------------------------------------
(* All of them *)

\* What goes on, and what is returned, rests on every answer that was waited for,
\* in the flows of agents, the workflows of steps and the export.
THEOREM WhatGoesOnRestsOnAll == AF!Spec /\ SW!Spec /\ CE!Spec => []RestsOnAll
<1>1. AF!Spec => []AF!RestsOnAll
  BY FlowsRestOnAll, PTL
<1>2. SW!Spec => []SW!ReturnsWhatWasAnswered
  BY CallsAreAnswered, PTL
<1>3. CE!Spec => []CE!EveryFileLands
  BY FilesLand, PTL
<1>4. AF!RestsOnAll /\ SW!ReturnsWhatWasAnswered /\ CE!EveryFileLands => RestsOnAll
  BY DEF RestsOnAll
<1> QED
  BY <1>1, <1>2, <1>3, <1>4, PTL

-----------------------------------------------------------------------------
(* Polling *)

\* The counters are in their bounds.
PollNumbers ==
  p_attempts \in 0..PO!Forever /\ p_i \in 0..PO!Tries /\ p_faults \in 0..MaxFaults

\* The child is polled for ever: its service is down.
PollStates ==
  /\ p_kind \in {"frequent", "infrequent", "periodic"}
  /\ p_stale \in BOOLEAN /\ p_pc \in {"polling", "answered"}
  /\ p_kind = "periodic" => p_pc = "polling"

\* Every poll, answered, cut off or counted out, keeps them.
LEMMA PollStep ==
  ASSUME PollNumbers, PollStates, [PO!Next]_(PO!vars)
  PROVE  PollNumbers' /\ PollStates'
<1>0. MaxFaults \in Nat
  BY WorkersAssumption DEF SentryConstants
<1> USE DEF PO!Forever, PO!Tries, PO!ERROR_ATTEMPTS
<1>1. CASE PO!Poll
  <2>1. PollNumbers'
    BY <1>1 DEF PO!Poll, PO!Count, PollNumbers
  <2> QED
    BY <1>1, <2>1 DEF PO!Poll, PollStates
<1>2. CASE PO!CutOff
  <2>1. PollNumbers'
    BY <1>0, <1>2 DEF PO!CutOff, PollNumbers
  <2> QED
    BY <1>2, <2>1 DEF PO!CutOff, PollStates
<1>3. CASE PO!StalePoll
  <2>1. PollNumbers'
    BY <1>3 DEF PO!StalePoll, PO!Count, PollNumbers
  <2> QED
    BY <1>3, <2>1 DEF PO!StalePoll, PollStates
<1>4. CASE PO!Crash
  <2>1. PollNumbers'
    BY <1>0, <1>4 DEF PO!Crash, PollNumbers
  <2> QED
    BY <1>4, <2>1 DEF PO!Crash, PollStates
<1>5. CASE PO!TryActivity
  <2>1. PollNumbers'
    BY <1>5 DEF PO!TryActivity, PollNumbers
  <2> QED
    BY <1>5, <2>1 DEF PO!TryActivity, PollStates
<1>6. CASE PO!ContinueAsNew
  <2>1. PollNumbers'
    BY <1>6 DEF PO!ContinueAsNew, PollNumbers
  <2> QED
    BY <1>6, <2>1 DEF PO!ContinueAsNew, PollStates
<1>7. CASE UNCHANGED PO!vars
  BY <1>7 DEF PO!vars, PollNumbers, PollStates
<1> QED
  BY <1>1, <1>2, <1>3, <1>4, <1>5, <1>6, <1>7 DEF PO!Next

\* The counter, the loop and the crashes stay in their bounds, and a child whose
\* service is down is never answered.
THEOREM PollIsTyped == PO!Spec => []PO!TypeOK
<1>1. PO!Init => PollNumbers /\ PollStates
  <2> SUFFICES ASSUME PO!Init PROVE PollNumbers /\ PollStates
    OBVIOUS
  <2>1. PollNumbers
    BY WorkersAssumption DEF SentryConstants, PO!Init, PollNumbers, PO!Forever, PO!Tries, PO!ERROR_ATTEMPTS
  <2>2. PollStates
    BY DEF PO!Init, PollStates
  <2> QED
    BY <2>1, <2>2
<1>2. PollNumbers /\ PollStates => PO!TypeOK
  BY DEF PollNumbers, PollStates, PO!TypeOK
<1> QED
  BY <1>1, <1>2, PollStep, PTL DEF PO!Spec

-----------------------------------------------------------------------------
(* Dsl *)

\* Nothing is both scheduled and answered.
TreeInv == DT!TypeOK /\ DT!BranchesDoNotDisturb /\ d_scheduled \cap d_answered = {}

\* A call reads only variables that are set: what is Before it has answered.
LEMMA TreeCall ==
  ASSUME NEW a \in d_root.activities, TreeInv, DT!Call(a)
  PROVE  TreeInv'
<1> DEFINE call == [activity |-> a, arguments |-> DT!Arguments(a, d_variables)]
<1>0. /\ d_scheduled' = d_scheduled \cup {call}
      /\ UNCHANGED <<d_root, d_variables, d_answered, d_returned>>
      /\ \A s \in d_scheduled \cup d_answered : s.activity # a
  BY DEF DT!Call
<1>1. call.activity = a /\ call.arguments = DT!Arguments(a, d_variables)
  OBVIOUS
<1>2. \A n \in DOMAIN a.arguments : a.arguments[n] \in DOMAIN d_variables
  <2> SUFFICES ASSUME NEW n \in DOMAIN a.arguments PROVE a.arguments[n] \in DOMAIN d_variables
    OBVIOUS
  <2>1. DT!ReadsWhatIsSet(d_root)
    BY CoursesAssumption DEF TreeConstants, TreeInv, DT!TypeOK
  <2>2. CASE a.arguments[n] \in d_root.variables
    BY <2>2 DEF TreeInv, DT!BranchesDoNotDisturb
  <2>3. CASE a.arguments[n] # "" /\ \E b \in d_root.activities :
               DT!Before(d_root, b, a) /\ b.result = a.arguments[n]
    BY <2>3 DEF TreeInv, DT!BranchesDoNotDisturb, DT!Call
  <2> QED
    BY <2>1, <2>2, <2>3 DEF DT!ReadsWhatIsSet
<1>3. DT!Done' = DT!Done
  BY <1>0 DEF DT!Done
<1>4. \A s : DT!Arguments(s, d_variables)' = DT!Arguments(s, d_variables)
  BY <1>0 DEF DT!Arguments, DT!get
<1> HIDE DEF call
<1>5. DT!TypeOK'
  BY <1>0, <1>1 DEF TreeInv, DT!TypeOK, call
<1>6. \A s \in (d_scheduled \cup d_answered)' :
        /\ s.arguments = DT!Arguments(s.activity, d_variables)
        /\ \A n \in DOMAIN s.activity.arguments : s.activity.arguments[n] \in DOMAIN d_variables
  BY <1>0, <1>1, <1>2 DEF TreeInv, DT!BranchesDoNotDisturb
<1>7. DT!BranchesDoNotDisturb'
  BY <1>0, <1>3, <1>4, <1>6 DEF TreeInv, DT!BranchesDoNotDisturb
<1>8. (d_scheduled \cap d_answered = {})'
  BY <1>0, <1>1 DEF TreeInv
<1> QED
  BY <1>5, <1>7, <1>8 DEF TreeInv

\* An answer sets a variable that nothing has set or read so far.
LEMMA TreeAnswer ==
  ASSUME NEW s \in d_scheduled, TreeInv, DT!Answer(s)
  PROVE  TreeInv'
<1> DEFINE a == s.activity
<1>0. /\ d_scheduled' = d_scheduled \ {s} /\ d_answered' = d_answered \cup {s}
      /\ UNCHANGED <<d_root, d_returned>>
      /\ d_variables' = DT!Store(d_variables, a, DT!Result(a, s.arguments))
  BY DEF DT!Answer
<1>1. a \in d_root.activities /\ a \notin DT!Done
  BY DEF TreeInv, DT!TypeOK, DT!Done
<1>2. DT!Done' = DT!Done \cup {a}
  BY <1>0 DEF DT!Done
<1>3. DT!Done \subseteq d_root.activities
  BY DEF TreeInv, DT!TypeOK, DT!Done
<1>4. a.result # "" => a.result \notin DOMAIN d_variables
  BY <1>1, <1>3, CoursesAssumption
     DEF TreeConstants, DT!WritesOnce, TreeInv, DT!TypeOK, DT!BranchesDoNotDisturb
<1>5. DOMAIN d_variables' = DOMAIN d_variables \cup ({a.result} \ {""})
  BY <1>0 DEF DT!Store
<1>6. \A v \in DOMAIN d_variables : d_variables'[v] = d_variables[v]
  BY <1>0, <1>4 DEF DT!Store
<1>7. a.result # "" => d_variables'[a.result] = DT!Result(a, s.arguments)
  BY <1>0 DEF DT!Store
<1>8. \A t \in d_scheduled \cup d_answered :
        /\ t.arguments = DT!Arguments(t.activity, d_variables)'
        /\ \A n \in DOMAIN t.activity.arguments : t.activity.arguments[n] \in DOMAIN d_variables'
  <2> SUFFICES ASSUME NEW t \in d_scheduled \cup d_answered
               PROVE  /\ t.arguments = DT!Arguments(t.activity, d_variables)'
                      /\ \A n \in DOMAIN t.activity.arguments :
                           t.activity.arguments[n] \in DOMAIN d_variables'
    OBVIOUS
  <2>1. /\ t.arguments = DT!Arguments(t.activity, d_variables)
        /\ \A n \in DOMAIN t.activity.arguments : t.activity.arguments[n] \in DOMAIN d_variables
    BY DEF TreeInv, DT!BranchesDoNotDisturb
  <2> QED
    BY <2>1, <1>5, <1>6 DEF DT!Arguments, DT!get
<1>9. (d_scheduled \cup d_answered)' = d_scheduled \cup d_answered
  BY <1>0
<1>10. DT!TypeOK' /\ (d_scheduled \cap d_answered = {})'
  BY <1>0, <1>9 DEF TreeInv, DT!TypeOK
<1>11. \A t \in d_answered' :
         t.activity.result # "" =>
           d_variables'[t.activity.result] = DT!Result(t.activity, t.arguments)
  <2> SUFFICES ASSUME NEW t \in d_answered', t.activity.result # ""
               PROVE  d_variables'[t.activity.result] = DT!Result(t.activity, t.arguments)
    OBVIOUS
  <2>1. CASE t = s
    BY <1>7, <2>1
  <2>2. CASE t \in d_answered
    <3>1. t.activity \in DT!Done
      BY <2>2 DEF DT!Done
    <3>2. t.activity.result \in DOMAIN d_variables
      BY <3>1 DEF TreeInv, DT!BranchesDoNotDisturb
    <3> QED
      BY <1>6, <2>2, <3>2 DEF TreeInv, DT!BranchesDoNotDisturb
  <2> QED
    BY <1>0, <2>1, <2>2
<1>12. DT!BranchesDoNotDisturb'
  <2>1. (\A v \in d_root.variables : d_variables[v] = <<v>>)'
    BY <1>0, <1>6 DEF TreeInv, DT!BranchesDoNotDisturb
  <2>2. (DOMAIN d_variables = d_root.variables \cup ({b.result : b \in DT!Done} \ {""}))'
    BY <1>0, <1>2, <1>5 DEF TreeInv, DT!BranchesDoNotDisturb
  <2>3. (d_returned => DT!Done = d_root.activities)'
    BY <1>0, <1>1, <1>2 DEF TreeInv, DT!BranchesDoNotDisturb
  <2> QED
    BY <1>8, <1>9, <1>11, <2>1, <2>2, <2>3 DEF DT!BranchesDoNotDisturb
<1> QED
  BY <1>10, <1>12 DEF TreeInv

\* Nothing else touches the variables.
LEMMA TreeStays ==
  ASSUME TreeInv, UNCHANGED <<d_root, d_variables, d_scheduled, d_answered>>,
         d_returned' \in BOOLEAN, d_returned' => DT!Done = d_root.activities
  PROVE  TreeInv'
<1>1. DT!Done' = DT!Done
  BY DEF DT!Done
<1>2. \A s : DT!Arguments(s, d_variables)' = DT!Arguments(s, d_variables)
  BY DEF DT!Arguments, DT!get
<1>3. DT!TypeOK' /\ (d_scheduled \cap d_answered = {})'
  BY DEF TreeInv, DT!TypeOK
<1>4. DT!BranchesDoNotDisturb'
  BY <1>1, <1>2 DEF TreeInv, DT!BranchesDoNotDisturb
<1> QED
  BY <1>3, <1>4 DEF TreeInv

\* The variables of a tree that sets each of its variables once, and reads what it
\* has set or was given, are the same for every order of the answers, and the
\* workflow returns all of them (dsl/workflow.py:63-85).
THEOREM TreesAreDetermined == DT!Spec => [](DT!TypeOK /\ DT!BranchesDoNotDisturb)
<1>1. DT!Init => TreeInv
  BY DEF DT!Init, TreeInv, DT!TypeOK, DT!BranchesDoNotDisturb, DT!Done
<1>2. TreeInv /\ [DT!Next]_(DT!vars) => TreeInv'
  <2> SUFFICES ASSUME TreeInv, [DT!Next]_(DT!vars) PROVE TreeInv'
    OBVIOUS
  <2>1. CASE \E a \in d_root.activities : DT!Call(a)
    BY <2>1, TreeCall
  <2>2. CASE \E s \in d_scheduled : DT!Answer(s)
    BY <2>2, TreeAnswer
  <2>3. CASE DT!Return
    <3>1. DT!Done = d_root.activities
      BY <2>3 DEF DT!Return, TreeInv, DT!TypeOK, DT!Done
    <3> QED
      BY <2>3, <3>1, TreeStays DEF DT!Return
  <2>4. CASE UNCHANGED DT!vars
    BY <2>4, TreeStays DEF DT!vars, TreeInv, DT!TypeOK, DT!BranchesDoNotDisturb
  <2> QED
    BY <2>1, <2>2, <2>3, <2>4 DEF DT!Next, DT!Progress
<1>3. TreeInv => DT!TypeOK /\ DT!BranchesDoNotDisturb
  BY DEF TreeInv
<1> QED
  BY <1>1, <1>2, <1>3, PTL DEF DT!Spec

-----------------------------------------------------------------------------
(* Versions *)

\* The histories that the versions leave behind: which, and by whom.
PatchingHistory ==
  \/ v_history = <<>>
  \/ v_history = <<"pre_patch_activity">> /\ v_started = 1
  \/ v_history = <<"patch", "post_patch_activity">> /\ v_started <= 2 /\ v_current >= 2
  \/ /\ v_history = <<"deprecate", "post_patch_activity">>
     /\ v_started \in {2, 3} /\ v_current >= 3
  \/ v_history = <<"post_patch_activity">> /\ v_started >= 3 /\ v_current = 4
HelloHistory ==
  \/ v_history = <<>>
  \/ v_history = <<"compose_greeting">> /\ v_started = 1
  \/ /\ \/ v_history = <<"patch", "compose_greeting">>
        \/ v_history = <<"patch", "compose_greeting", "sleep">>
     /\ v_started <= 2 /\ v_current >= 2
  \/ /\ \/ v_history = <<"deprecate", "compose_greeting">>
        \/ v_history = <<"deprecate", "compose_greeting", "sleep">>
     /\ v_started = 3
AutoHistory ==
  \/ v_history \in Seq({"some_activity"}) /\ Len(v_history) <= v_signals
  \/ /\ Len(v_history) \in 2..(v_signals + 1) /\ v_history[1] = "patch" /\ v_current >= 2
     /\ \A n \in 2..Len(v_history) : v_history[n] = "some_incompatible_activity"
PinnedHistory ==
  \/ v_history = <<>>
  \/ v_history = <<"some_activity">> /\ (v_started = 3 \/ v_conclude)
  \/ v_history = <<"some_activity", "some_incompatible_activity">> /\ v_started = 3 /\ v_conclude

\* A run begun on one version, and what it can have left in the history since.
VersionsInv ==
  /\ VE!TypeOK
  /\ v_sample \in {"patching", "hello"} /\ v_pc = "open" => v_current <= v_started + 1
  /\ v_sample = "patching" => PatchingHistory
  /\ v_sample = "hello" => HelloHistory
  /\ v_sample = "auto" => AutoHistory
  /\ v_sample = "pinned" => PinnedHistory

\* What sequences of up to three elements hold.
LEMMA ShortSequences ==
  /\ Len(<<>>) = 0
  /\ \A a : Len(<<a>>) = 1 /\ <<a>>[1] = a /\ <<a>> # <<>>
  /\ \A a, b : /\ Len(<<a, b>>) = 2 /\ <<a, b>>[1] = a /\ <<a, b>>[2] = b
               /\ <<a, b>> # <<>> /\ Tail(<<a, b>>) = <<b>>
  /\ \A a, b, c : /\ Len(<<a, b, c>>) = 3 /\ <<a, b, c>>[1] = a /\ <<a, b, c>>[2] = b
                  /\ <<a, b, c>>[3] = c /\ <<a, b, c>> # <<>> /\ Tail(<<a, b, c>>) = <<b, c>>
OBVIOUS

\* Sequences with the same elements are the same.
LEMMA SameElements ==
  ASSUME NEW S_, NEW s \in Seq(S_), NEW t \in Seq(S_),
         Len(s) = Len(t), \A n \in 1..Len(s) : s[n] = t[n]
  PROVE  s = t
OBVIOUS

\* One more at the end of a short sequence.
LEMMA ShortAppends ==
  /\ \A a, b : Append(<<a>>, b) = <<a, b>>
  /\ \A a, b, c : Append(<<a, b>>, c) = <<a, b, c>>
  /\ \A a, b : <<a>> \o <<b>> = <<a, b>>
  /\ \A a : <<a>> \o <<>> = <<a>>
<1>1. ASSUME NEW a, NEW b PROVE Append(<<a>>, b) = <<a, b>> /\ <<a>> \o <<b>> = <<a, b>>
  <2>1. <<a>> \in Seq({a, b}) /\ <<b>> \in Seq({a, b}) /\ <<a, b>> \in Seq({a, b})
    OBVIOUS
  <2>2. Append(<<a>>, b) \in Seq({a, b}) /\ <<a>> \o <<b>> \in Seq({a, b})
    BY <2>1
  <2>3. Len(Append(<<a>>, b)) = 2 /\ Len(<<a>> \o <<b>>) = 2 /\ Len(<<a, b>>) = 2
    BY <2>1
  <2>4. /\ Append(<<a>>, b)[1] = a /\ Append(<<a>>, b)[2] = b
        /\ (<<a>> \o <<b>>)[1] = a /\ (<<a>> \o <<b>>)[2] = b
        /\ <<a, b>>[1] = a /\ <<a, b>>[2] = b
    BY <2>1
  <2>5. \A n \in 1..2 : n = 1 \/ n = 2
    OBVIOUS
  <2> QED
    BY <2>1, <2>2, <2>3, <2>4, <2>5, SameElements
<1>2. ASSUME NEW a, NEW b, NEW c PROVE Append(<<a, b>>, c) = <<a, b, c>>
  <2>1. <<a, b>> \in Seq({a, b, c}) /\ <<a, b, c>> \in Seq({a, b, c})
    OBVIOUS
  <2>2. Append(<<a, b>>, c) \in Seq({a, b, c})
    BY <2>1
  <2>3. Len(Append(<<a, b>>, c)) = 3 /\ Len(<<a, b, c>>) = 3
    BY <2>1
  <2>4. /\ Append(<<a, b>>, c)[1] = a /\ Append(<<a, b>>, c)[2] = b /\ Append(<<a, b>>, c)[3] = c
        /\ <<a, b, c>>[1] = a /\ <<a, b, c>>[2] = b /\ <<a, b, c>>[3] = c
    BY <2>1
  <2>5. \A n \in 1..3 : n = 1 \/ n = 2 \/ n = 3
    OBVIOUS
  <2> QED
    BY <2>1, <2>2, <2>3, <2>4, <2>5, SameElements
<1>4. \A a : <<a>> \o <<>> = <<a>>
  OBVIOUS
<1> QED
  BY <1>1, <1>2, <1>4

\* The markers of a short history.
LEMMA MarkersOf ==
  /\ \A m : ~VE!HasMarker(<<>>, m)
  /\ \A m, a : VE!HasMarker(<<a>>, m) <=> a = m
  /\ \A m, a, b : VE!HasMarker(<<a, b>>, m) <=> m \in {a, b}
  /\ \A m, a, b, c : VE!HasMarker(<<a, b, c>>, m) <=> m \in {a, b, c}
BY DEF VE!HasMarker

\* What counts of a short history.
LEMMA Sees ==
  /\ VE!Visible(<<>>) = <<>>
  /\ \A a : a \notin {"deprecate", "patch"} => VE!Visible(<<a>>) = <<a>>
  /\ \A b : VE!Visible(<<"deprecate", b>>) = <<b>>
  /\ \A b, c : VE!Visible(<<"deprecate", b, c>>) = <<b, c>>
  /\ \A b : VE!Visible(<<"patch", b>>) = IF VE!Deprecates THEN <<b>> ELSE <<"patch", b>>
  /\ \A b, c : VE!Visible(<<"patch", b, c>>) = IF VE!Deprecates THEN <<b, c>> ELSE <<"patch", b, c>>
<1>1. \A s : s = <<>> => VE!Visible(s) = s
  BY DEF VE!Visible
<1>2. \A s : s # <<>> /\ s[1] \notin {"deprecate", "patch"} => VE!Visible(s) = s
  BY DEF VE!Visible
<1>3. \A s : s # <<>> /\ s[1] = "deprecate" => VE!Visible(s) = Tail(s)
  BY DEF VE!Visible
<1>4. \A s : s # <<>> /\ s[1] = "patch" => VE!Visible(s) = IF VE!Deprecates THEN Tail(s) ELSE s
  BY DEF VE!Visible
<1>5. \A b : VE!Visible(<<"deprecate", b>>) = <<b>>
  BY <1>3, ShortSequences
<1>6. \A b, c : VE!Visible(<<"deprecate", b, c>>) = <<b, c>>
  <2> SUFFICES ASSUME NEW b, NEW c PROVE VE!Visible(<<"deprecate", b, c>>) = <<b, c>>
    OBVIOUS
  <2>1. <<"deprecate", b, c>> # <<>> /\ <<"deprecate", b, c>>[1] = "deprecate" /\ Tail(<<"deprecate", b, c>>) = <<b, c>>
    BY ShortSequences
  <2> QED
    BY <1>3, <2>1
<1>7. \A b : VE!Visible(<<"patch", b>>) = IF VE!Deprecates THEN <<b>> ELSE <<"patch", b>>
  BY <1>4, ShortSequences
<1>8. \A b, c : VE!Visible(<<"patch", b, c>>) = IF VE!Deprecates THEN <<b, c>> ELSE <<"patch", b, c>>
  <2> SUFFICES ASSUME NEW b, NEW c PROVE VE!Visible(<<"patch", b, c>>) = IF VE!Deprecates THEN <<b, c>> ELSE <<"patch", b, c>>
    OBVIOUS
  <2>1. <<"patch", b, c>> # <<>> /\ <<"patch", b, c>>[1] = "patch" /\ Tail(<<"patch", b, c>>) = <<b, c>>
    BY ShortSequences
  <2> QED
    BY <1>4, <2>1
<1>9. \A a : a \notin {"deprecate", "patch"} => VE!Visible(<<a>>) = <<a>>
  BY <1>2, ShortSequences
<1> QED
  BY <1>1, <1>5, <1>6, <1>7, <1>8, <1>9

\* Whether one sequence begins another.
Begins(s, t) == Len(s) <= Len(t) /\ \A n \in 1..Len(s) : s[n] = t[n]

\* Short sequences that begin each other.
LEMMA ShortBegins ==
  /\ \A t : Len(t) \in Nat => Begins(<<>>, t)
  /\ \A a : Begins(<<a>>, <<a>>)
  /\ \A a, b : Begins(<<a, b>>, <<a, b>>)
  /\ \A a, b, c : Begins(<<a, b, c>>, <<a, b, c>>) /\ Begins(<<a, b>>, <<a, b, c>>)
  /\ \A a, b : Begins(<<a>>, <<a, b>>)
BY DEF Begins

\* What a step of the code does, by what it sees.
LEMMA TaskAsks ==
  ASSUME VE!WorkflowTask
  PROVE  /\ Len(VE!Visible(v_history)) < Len(VE!Visible(VE!Asked))
         /\ v_history # <<>> =>
              v_history' = Append(v_history, VE!Visible(VE!Asked)[Len(VE!Visible(v_history)) + 1])
         /\ v_history = <<>> /\ VE!Asked[1] \in {"patch", "deprecate"} =>
              v_history' = <<VE!Asked[1], VE!Asked[2]>>
         /\ v_history = <<>> /\ VE!Asked[1] \notin {"patch", "deprecate"} =>
              v_history' = <<VE!Asked[1]>>
BY DEF VE!WorkflowTask, VE!AsksForMore

\* A stage of patching replays the histories of its own stage and of the one before,
\* and leaves behind one of those its stage can.
LEMMA PatchingAsks ==
  ASSUME VersionsInv, v_sample = "patching", v_current <= v_started + 1
  PROVE  /\ Begins(VE!Visible(v_history), VE!Visible(VE!Asked))
         /\ VE!WorkflowTask => PatchingHistory'
<1> DEFINE pre == "pre_patch_activity"
           post == "post_patch_activity"
           asks == VE!HasMarker(v_history, "patch")
<1>0. v_started \in 1..4 /\ v_current \in v_started..4
  BY DEF VersionsInv, VE!TypeOK, VE!LastVersion
<1>1. /\ v_current = 1 => VE!Asked = <<pre>>
      /\ v_current = 2 /\ (v_history = <<>> \/ asks) => VE!Asked = <<"patch", post>>
      /\ v_current = 2 /\ ~(v_history = <<>> \/ asks) => VE!Asked = <<pre>>
      /\ v_current = 3 => VE!Asked = <<"deprecate", post>>
      /\ v_current = 4 => VE!Asked = <<post>>
  BY <1>0 DEF VE!Asked, VE!Code, VE!Serving, VE!Initial, VE!Patched, VE!PatchDeprecated, VE!PatchComplete
<1>2. VE!Deprecates <=> v_current = 3
  BY <1>0, <1>1, MarkersOf DEF VE!Deprecates
<1>3. VE!WorkflowTask => UNCHANGED <<v_sample, v_started, v_current>>
  BY DEF VE!WorkflowTask
<1>4. CASE v_history = <<>>
  <2>1. VE!Visible(v_history) = <<>>
    BY <1>4 DEF VE!Visible
  <2>2. /\ v_current = 1 => VE!Visible(VE!Asked) = <<pre>>
        /\ v_current = 2 => VE!Visible(VE!Asked) = <<"patch", post>>
        /\ v_current \in {3, 4} => VE!Visible(VE!Asked) = <<post>>
    BY <1>1, <1>2, <1>4, Sees
  <2>3. Begins(VE!Visible(v_history), VE!Visible(VE!Asked))
    BY <1>0, <2>1, <2>2, ShortSequences, ShortBegins
  <2>4. ASSUME VE!WorkflowTask PROVE PatchingHistory'
    <3>1. /\ v_current = 1 => v_history' = <<pre>>
          /\ v_current = 2 => v_history' = <<"patch", post>>
          /\ v_current = 3 => v_history' = <<"deprecate", post>>
          /\ v_current = 4 => v_history' = <<post>>
      BY <1>1, <1>4, <2>4, TaskAsks, ShortSequences
    <3> QED
      BY <1>0, <1>3, <2>4, <3>1 DEF PatchingHistory
  <2> QED
    BY <2>3, <2>4
<1>5. CASE v_history # <<>>
  <2>1. VE!Visible(v_history) = VE!Visible(VE!Asked)
    <3>1. CASE v_history = <<pre>> /\ v_started = 1
      <4>1. VE!Asked = <<pre>>
        BY <1>0, <1>1, <1>5, <3>1, MarkersOf
      <4> QED
        BY <3>1, <4>1
    <3>2. CASE v_history = <<"patch", post>> /\ v_started <= 2 /\ v_current >= 2
      <4>1. v_current = 2 => VE!Asked = <<"patch", post>>
        BY <1>1, <3>2, MarkersOf
      <4>2. v_current = 3 => VE!Visible(VE!Asked) = <<post>> /\ VE!Visible(v_history) = <<post>>
        BY <1>1, <1>2, <3>2, Sees
      <4> QED
        BY <1>0, <3>2, <4>1, <4>2
    <3>3. CASE v_history = <<"deprecate", post>> /\ v_started \in {2, 3} /\ v_current >= 3
      <4>1. VE!Visible(VE!Asked) = <<post>> /\ VE!Visible(v_history) = <<post>>
        BY <1>0, <1>1, <1>2, <3>3, Sees
      <4> QED
        BY <4>1
    <3>4. CASE v_history = <<post>> /\ v_started >= 3 /\ v_current = 4
      BY <1>1, <3>4
    <3> QED
      BY <1>5, <3>1, <3>2, <3>3, <3>4 DEF VersionsInv, PatchingHistory
  <2>2. Len(VE!Visible(VE!Asked)) \in Nat
    BY <1>0, <1>1, Sees, ShortSequences
  <2> QED
    BY <2>1, <2>2, TaskAsks DEF Begins
<1> QED
  BY <1>4, <1>5

\* So does hello_patch, as far as its name is known.
LEMMA HelloAsks ==
  ASSUME VersionsInv, v_sample = "hello", v_current <= v_started + 1,
         VE!Name(v_current) = VE!Name(v_started)
  PROVE  /\ Begins(VE!Visible(v_history), VE!Visible(VE!Asked))
         /\ VE!WorkflowTask => HelloHistory'
<1> DEFINE cg == "compose_greeting"
           asks == VE!HasMarker(v_history, "patch")
<1>0. v_started \in 1..3 /\ v_current \in v_started..3 /\ (v_current = 3 => v_started = 3)
  BY DEF VersionsInv, VE!TypeOK, VE!LastVersion, VE!Name
<1>1. /\ v_current = 1 => VE!Asked = <<cg>>
      /\ v_current = 2 /\ (v_history = <<>> \/ asks) => VE!Asked = <<"patch", cg, "sleep">>
      /\ v_current = 2 /\ ~(v_history = <<>> \/ asks) => VE!Asked = <<cg>>
      /\ v_current = 3 => VE!Asked = <<"deprecate", cg, "sleep">>
  BY <1>0 DEF VE!Asked, VE!Code, VE!Serving, VE!MyWorkflow, VE!MyWorkflowPatched, VE!MyWorkflowPatchDeprecated
<1>2. VE!Deprecates <=> v_current = 3
  BY <1>0, <1>1, MarkersOf DEF VE!Deprecates
<1>3. VE!WorkflowTask => UNCHANGED <<v_sample, v_started, v_current>>
  BY DEF VE!WorkflowTask
<1>4. CASE v_history = <<>>
  <2>1. VE!Visible(v_history) = <<>>
    BY <1>4, Sees
  <2>2. /\ v_current = 1 => VE!Visible(VE!Asked) = <<cg>>
        /\ v_current = 2 => VE!Visible(VE!Asked) = <<"patch", cg, "sleep">>
        /\ v_current = 3 => VE!Visible(VE!Asked) = <<cg, "sleep">>
    <3>1. v_current = 1 => VE!Visible(VE!Asked) = <<cg>>
      BY <1>1, Sees
    <3>2. v_current = 2 => VE!Visible(VE!Asked) = <<"patch", cg, "sleep">>
      BY <1>1, <1>2, <1>4, Sees
    <3>3. v_current = 3 => VE!Visible(VE!Asked) = <<cg, "sleep">>
      BY <1>1, Sees
    <3> QED
      BY <3>1, <3>2, <3>3
  <2>3. Begins(VE!Visible(v_history), VE!Visible(VE!Asked))
    BY <1>0, <2>1, <2>2, ShortSequences, ShortBegins
  <2>4. ASSUME VE!WorkflowTask PROVE HelloHistory'
    <3>1. /\ v_current = 1 => v_history' = <<cg>>
          /\ v_current = 2 => v_history' = <<"patch", cg>>
          /\ v_current = 3 => v_history' = <<"deprecate", cg>>
      BY <1>1, <1>4, <2>4, TaskAsks, ShortSequences
    <3> QED
      BY <1>0, <1>3, <2>4, <3>1 DEF HelloHistory
  <2> QED
    BY <2>3, <2>4
<1>5. CASE v_history = <<cg>> /\ v_started = 1
  <2>1. VE!Asked = <<cg>>
    BY <1>0, <1>1, <1>5, MarkersOf, ShortSequences
  <2>2. VE!Visible(VE!Asked) = <<cg>> /\ VE!Visible(v_history) = <<cg>>
    BY <1>5, <2>1, Sees
  <2>3. ~VE!WorkflowTask
    BY <2>2, TaskAsks, ShortSequences
  <2> QED
    BY <2>2, <2>3, ShortBegins
<1>6. CASE v_current = 2 /\ v_history \in {<<"patch", cg>>, <<"patch", cg, "sleep">>}
  <2>1. VE!Asked = <<"patch", cg, "sleep">> /\ VE!Visible(VE!Asked) = <<"patch", cg, "sleep">>
    BY <1>1, <1>2, <1>6, MarkersOf, Sees
  <2>2. VE!Visible(v_history) = v_history
    BY <1>2, <1>6, Sees
  <2>3. Begins(VE!Visible(v_history), VE!Visible(VE!Asked))
    BY <1>6, <2>1, <2>2, ShortBegins
  <2>4. ASSUME VE!WorkflowTask PROVE HelloHistory'
    <3>1. v_history = <<"patch", cg>>
      BY <1>6, <2>1, <2>2, <2>4, TaskAsks, ShortSequences
    <3>2. v_history' = Append(v_history, VE!Visible(VE!Asked)[Len(VE!Visible(v_history)) + 1])
      BY <2>4, <3>1, TaskAsks, ShortSequences
    <3>3. Len(VE!Visible(v_history)) + 1 = 3 /\ VE!Visible(VE!Asked)[3] = "sleep"
      BY <2>1, <2>2, <3>1, ShortSequences
    <3>4. v_history' = <<"patch", cg, "sleep">>
      BY <3>1, <3>2, <3>3, ShortAppends
    <3> QED
      BY <1>0, <1>3, <1>6, <2>4, <3>4 DEF HelloHistory
  <2> QED
    BY <2>3, <2>4
<1>7. CASE v_started = 3 /\ v_history \in {<<"deprecate", cg>>, <<"deprecate", cg, "sleep">>}
  <2>0. v_current = 3
    BY <1>0, <1>7
  <2>1. VE!Asked = <<"deprecate", cg, "sleep">> /\ VE!Visible(VE!Asked) = <<cg, "sleep">>
    BY <2>0, <1>1, <1>2, <1>7, Sees
  <2>2. /\ v_history = <<"deprecate", cg>> => VE!Visible(v_history) = <<cg>>
        /\ v_history = <<"deprecate", cg, "sleep">> => VE!Visible(v_history) = <<cg, "sleep">>
    BY Sees
  <2>3. Begins(VE!Visible(v_history), VE!Visible(VE!Asked))
    BY <1>7, <2>1, <2>2, ShortBegins
  <2>4. ASSUME VE!WorkflowTask PROVE HelloHistory'
    <3>1. v_history = <<"deprecate", cg>>
      BY <1>7, <2>1, <2>2, <2>4, TaskAsks, ShortSequences
    <3>2. v_history' = Append(v_history, VE!Visible(VE!Asked)[Len(VE!Visible(v_history)) + 1])
      BY <2>4, <3>1, TaskAsks, ShortSequences
    <3>3. Len(VE!Visible(v_history)) + 1 = 2 /\ VE!Visible(VE!Asked)[2] = "sleep"
      <4>1. VE!Visible(v_history) = <<cg>> /\ Len(<<cg>>) = 1 /\ <<cg, "sleep">>[2] = "sleep"
        BY <2>2, <3>1
      <4> QED
        BY <2>1, <4>1
    <3>4. v_history' = <<"deprecate", cg, "sleep">>
      BY <3>1, <3>2, <3>3, ShortAppends
    <3> QED
      BY <1>0, <1>3, <1>7, <2>4, <3>4 DEF HelloHistory
  <2> QED
    BY <2>3, <2>4
<1> QED
  BY <1>0, <1>4, <1>5, <1>6, <1>7 DEF VersionsInv, HelloHistory

\* A pinned run is only ever asked for by the version that began it.
LEMMA PinnedAsks ==
  ASSUME VersionsInv, v_sample = "pinned"
  PROVE  /\ Begins(VE!Visible(v_history), VE!Visible(VE!Asked))
         /\ VE!WorkflowTask => PinnedHistory'
<1> DEFINE some == "some_activity"
           inc == "some_incompatible_activity"
<1>0. v_started \in 1..3 /\ v_conclude \in BOOLEAN
  BY DEF VersionsInv, VE!TypeOK, VE!LastVersion
<1>1. VE!Asked = VE!Code(v_history = <<>> \/ VE!HasMarker(v_history, "patch"))["pinned"][v_started]
  BY DEF VE!Asked, VE!Serving
<1>2. /\ v_started \in {1, 2} => VE!Asked = VE!PinnedWorkflowV1(v_conclude)
      /\ v_started = 3 => VE!Asked = VE!PinnedWorkflowV2(v_conclude)
  BY <1>1 DEF VE!Code
<1>3. /\ v_started \in {1, 2} /\ v_conclude => VE!Asked = <<some>>
      /\ v_started \in {1, 2} /\ ~v_conclude => VE!Asked = <<>>
      /\ v_started = 3 /\ v_conclude => VE!Asked = <<some, inc>>
      /\ v_started = 3 /\ ~v_conclude => VE!Asked = <<some>>
  <2>1. CASE v_conclude
    BY <1>2, <2>1, ShortAppends DEF VE!PinnedWorkflowV1, VE!PinnedWorkflowV2
  <2>2. CASE ~v_conclude
    BY <1>2, <2>2, ShortAppends DEF VE!PinnedWorkflowV1, VE!PinnedWorkflowV2
  <2> QED
    BY <2>1, <2>2
<1>4. \/ v_history = <<>>
      \/ v_history = <<some>> /\ (v_started = 3 \/ v_conclude)
      \/ v_history = <<some, inc>> /\ v_started = 3 /\ v_conclude
  BY DEF VersionsInv, PinnedHistory
<1> HIDE DEF some, inc
<1>5. CASE ~v_conclude /\ v_started # 3
  <2>1. VE!Asked = <<>> /\ v_history = <<>>
    BY <1>0, <1>3, <1>4, <1>5
  <2>2. VE!Visible(VE!Asked) = <<>> /\ VE!Visible(v_history) = <<>>
    BY <2>1, Sees
  <2> QED
    BY <2>2, TaskAsks, ShortBegins, ShortSequences
<1>6. CASE VE!Asked = <<some>> /\ (v_started = 3 \/ v_conclude) /\ v_history \in {<<>>, <<some>>}
  <2>1. VE!Visible(VE!Asked) = VE!Asked /\ VE!Visible(v_history) = v_history
    BY <1>6, Sees DEF some
  <2>2. Begins(v_history, VE!Asked)
    BY <1>6, ShortBegins, ShortSequences
  <2>3. ASSUME VE!WorkflowTask PROVE PinnedHistory'
    <3>1. v_history = <<>>
      BY <1>6, <2>1, <2>3, TaskAsks, ShortSequences
    <3>2. v_history' = <<some>>
      BY <1>6, <2>3, <3>1, TaskAsks, ShortSequences DEF some
    <3> QED
      BY <1>6, <2>3, <3>2 DEF PinnedHistory, some, VE!WorkflowTask
  <2> QED
    BY <2>1, <2>2, <2>3
<1>7. CASE VE!Asked = <<some, inc>> /\ v_started = 3 /\ v_conclude
  <2>1. VE!Visible(VE!Asked) = VE!Asked /\ VE!Visible(v_history) = v_history
    BY <1>4, <1>7, ShortSequences DEF some, VE!Visible
  <2>2. Begins(v_history, VE!Asked)
    BY <1>4, <1>7, ShortBegins, ShortSequences
  <2>3. ASSUME VE!WorkflowTask PROVE PinnedHistory'
    <3>1. CASE v_history = <<>>
      <4>1. v_history' = <<some>>
        BY <1>7, <2>3, <3>1, TaskAsks, ShortSequences DEF some
      <4> QED
        BY <1>7, <2>3, <4>1 DEF PinnedHistory, some, VE!WorkflowTask
    <3>2. CASE v_history = <<some>>
      <4>1. Len(VE!Visible(v_history)) + 1 = 2 /\ VE!Visible(VE!Asked)[2] = inc
        BY <1>7, <2>1, <3>2, ShortSequences
      <4>2. v_history' = Append(v_history, VE!Visible(VE!Asked)[Len(VE!Visible(v_history)) + 1])
        BY <2>3, <3>2, TaskAsks, ShortSequences
      <4>3. v_history' = <<some, inc>>
        BY <3>2, <4>1, <4>2, ShortAppends
      <4> QED
        BY <1>7, <2>3, <4>3 DEF PinnedHistory, some, inc, VE!WorkflowTask
    <3>3. v_history # <<some, inc>>
      BY <1>7, <2>1, <2>3, TaskAsks, ShortSequences
    <3> QED
      BY <1>4, <3>1, <3>2, <3>3
  <2> QED
    BY <2>1, <2>2, <2>3
<1>8. CASE v_conclude
  BY <1>0, <1>3, <1>4, <1>6, <1>7, <1>8
<1>9. CASE ~v_conclude /\ v_started = 3
  BY <1>0, <1>3, <1>4, <1>6, <1>9
<1> QED
  BY <1>5, <1>8, <1>9

\* What the auto-upgrading workflow asks for after n signals, with and without
\* the patch.
Plain(s, n) == s \in Seq({"some_activity"}) /\ Len(s) = n
Upgraded(s, n) ==
  /\ s \in Seq(VE!Commands) /\ Len(s) = n + 1 /\ s[1] = "patch"
  /\ \A k \in 2..Len(s) : s[k] = "some_incompatible_activity"

\* What the auto-upgrading workflow asks for depends on whether its history has the
\* marker: patched returns what it returned first.
LEMMA AutoAsked ==
  ASSUME VersionsInv, v_sample = "auto"
  PROVE  /\ v_current = 1 \/ v_signals = 0 => Plain(VE!Asked, v_signals)
         /\ v_current >= 2 /\ v_signals # 0 =>
              IF v_history = <<>> \/ VE!HasMarker(v_history, "patch")
              THEN Upgraded(VE!Asked, v_signals) ELSE Plain(VE!Asked, v_signals)
<1> DEFINE answer == v_history = <<>> \/ VE!HasMarker(v_history, "patch")
           V1b == VE!AutoUpgradingWorkflowV1b(v_signals, answer)
<1>0. v_current \in 1..3 /\ v_signals \in Nat
  BY CoursesAssumption DEF VersionsInv, VE!TypeOK, VE!LastVersion
<1>1. VE!Asked = VE!Code(answer)["auto"][v_current]
  BY DEF VE!Asked, VE!Serving
<1>2. /\ v_current = 1 => VE!Asked = VE!AutoUpgradingWorkflowV1(v_signals)
      /\ v_current \in {2, 3} => VE!Asked = V1b
  BY <1>1 DEF VE!Code
<1>3. \A c : VE!Times(v_signals, c) \in Seq({c}) /\ Len(VE!Times(v_signals, c)) = v_signals
             /\ \A k \in 1..v_signals : VE!Times(v_signals, c)[k] = c
  BY <1>0 DEF VE!Times
<1>4. Plain(VE!AutoUpgradingWorkflowV1(v_signals), v_signals)
  BY <1>3 DEF VE!AutoUpgradingWorkflowV1, Plain
<1>5. v_signals = 0 => Plain(V1b, v_signals)
  <2>1. <<>> \in Seq({"some_activity"}) /\ Len(<<>>) = 0
    OBVIOUS
  <2> QED
    BY <2>1 DEF VE!AutoUpgradingWorkflowV1b, Plain
<1>6. v_signals # 0 /\ ~answer => Plain(V1b, v_signals)
  BY <1>3 DEF VE!AutoUpgradingWorkflowV1b, Plain
<1>7. ASSUME v_signals # 0, answer PROVE Upgraded(V1b, v_signals)
  <2> DEFINE inc == VE!Times(v_signals, "some_incompatible_activity")
  <2>1. V1b = <<"patch">> \o inc
    BY <1>7 DEF VE!AutoUpgradingWorkflowV1b
  <2>2. <<"patch">> \in Seq(VE!Commands) /\ Len(<<"patch">>) = 1 /\ <<"patch">>[1] = "patch"
    BY DEF VE!Commands
  <2>3. inc \in Seq(VE!Commands) /\ Len(inc) = v_signals
    BY <1>0, <1>3 DEF VE!Times, VE!Commands
  <2> HIDE DEF inc
  <2>4. /\ <<"patch">> \o inc \in Seq(VE!Commands) /\ Len(<<"patch">> \o inc) = v_signals + 1
        /\ (<<"patch">> \o inc)[1] = "patch"
        /\ \A k \in 2..(v_signals + 1) : (<<"patch">> \o inc)[k] = inc[k - 1]
    BY <1>0, <2>2, <2>3
  <2>5. \A k \in 2..(v_signals + 1) : k - 1 \in 1..v_signals
    BY <1>0
  <2>6. \A k \in 1..v_signals : inc[k] = "some_incompatible_activity"
    BY <1>3 DEF inc
  <2> HIDE DEF V1b
  <2>7. \A k \in 2..Len(V1b) : V1b[k] = "some_incompatible_activity"
    BY <2>1, <2>4, <2>5, <2>6
  <2> QED
    BY <2>1, <2>4, <2>7 DEF Upgraded
<1> QED
  BY <1>0, <1>2, <1>4, <1>5, <1>6, <1>7

\* So it goes on as it began, on whatever version.
LEMMA AutoAsks ==
  ASSUME VersionsInv, v_sample = "auto"
  PROVE  /\ Begins(VE!Visible(v_history), VE!Visible(VE!Asked))
         /\ VE!WorkflowTask => AutoHistory' /\ v_history' \in Seq(VE!Commands)
<1> DEFINE some == "some_activity"
           inc == "some_incompatible_activity"
<1>0. v_current \in 1..3 /\ v_signals \in Nat /\ v_history \in Seq(VE!Commands)
  BY CoursesAssumption DEF VersionsInv, VE!TypeOK, VE!LastVersion
<1>1. \/ Plain(VE!Asked, v_signals)
      \/ Upgraded(VE!Asked, v_signals) /\ v_current >= 2 /\ v_signals # 0
  BY <1>0, AutoAsked
<1>2. ~VE!HasMarker(VE!Asked, "deprecate")
  BY <1>0, <1>1 DEF VE!HasMarker, Plain, Upgraded
<1>3. VE!Visible(VE!Asked) = VE!Asked
  BY <1>0, <1>1, <1>2 DEF VE!Visible, VE!Deprecates, VE!HasMarker
<1>4. v_history = <<>> \/ v_history[1] \in {some, "patch"}
  BY <1>0 DEF VersionsInv, AutoHistory
<1>5. VE!Visible(v_history) = v_history
  BY <1>2, <1>4 DEF VE!Visible, VE!Deprecates
<1>6. VE!WorkflowTask => UNCHANGED <<v_current, v_signals>>
  BY DEF VE!WorkflowTask
<1>7. CASE v_history = <<>>
  <2>1. Begins(v_history, VE!Asked)
    BY <1>0, <1>1, <1>7, ShortBegins DEF Plain, Upgraded
  <2>2. ASSUME VE!WorkflowTask PROVE AutoHistory' /\ v_history' \in Seq(VE!Commands)
    <3>0. Len(VE!Asked) > 0
      BY <1>0, <1>1, <1>3, <1>5, <1>7, <2>2, TaskAsks, ShortSequences DEF Plain, Upgraded
    <3>1. CASE Plain(VE!Asked, v_signals)
      <4>1. VE!Asked[1] = some
        BY <3>0, <3>1 DEF Plain
      <4>2. v_history' = <<some>>
        BY <1>7, <2>2, <4>1, TaskAsks
      <4>3. <<some>> \in Seq({some}) /\ Len(<<some>>) = 1 /\ <<some>> \in Seq(VE!Commands)
        BY DEF VE!Commands
      <4> QED
        BY <1>0, <1>6, <2>2, <3>0, <3>1, <4>2, <4>3 DEF AutoHistory, Plain
    <3>2. CASE Upgraded(VE!Asked, v_signals) /\ v_current >= 2 /\ v_signals # 0
      <4>1. VE!Asked[1] = "patch" /\ VE!Asked[2] = inc
        BY <1>0, <3>2 DEF Upgraded
      <4>2. v_history' = <<"patch", inc>>
        BY <1>7, <2>2, <4>1, TaskAsks
      <4>3. /\ Len(<<"patch", inc>>) = 2 /\ <<"patch", inc>> \in Seq(VE!Commands)
            /\ <<"patch", inc>>[1] = "patch" /\ \A n \in 2..2 : <<"patch", inc>>[n] = inc
        BY DEF VE!Commands
      <4> QED
        BY <1>0, <1>6, <2>2, <3>2, <4>2, <4>3 DEF AutoHistory
    <3> QED
      BY <1>1, <3>1, <3>2
  <2> QED
    BY <1>3, <1>5, <2>1, <2>2
<1>8. CASE v_history # <<>> /\ v_history \in Seq({some}) /\ Len(v_history) <= v_signals
  <2>0. ~VE!HasMarker(v_history, "patch")
    BY <1>8 DEF VE!HasMarker
  <2>1. Plain(VE!Asked, v_signals)
    BY <1>0, <1>8, <2>0, AutoAsked
  <2>2. Begins(v_history, VE!Asked)
    BY <1>0, <1>8, <2>1 DEF Begins, Plain
  <2>3. ASSUME VE!WorkflowTask PROVE AutoHistory' /\ v_history' \in Seq(VE!Commands)
    <3>1. Len(v_history) + 1 \in 1..v_signals
      BY <1>0, <1>3, <1>5, <1>8, <2>1, <2>3, TaskAsks DEF Plain
    <3>2. v_history' = Append(v_history, some)
      BY <1>3, <1>5, <1>8, <2>1, <2>3, <3>1, TaskAsks DEF Plain
    <3>3. Append(v_history, some) \in Seq({some}) /\ Len(Append(v_history, some)) = Len(v_history) + 1
      BY <1>8
    <3>4. Append(v_history, some) \in Seq(VE!Commands)
      BY <1>0 DEF VE!Commands
    <3> QED
      BY <1>0, <1>6, <2>3, <3>1, <3>2, <3>3, <3>4 DEF AutoHistory
  <2> QED
    BY <1>3, <1>5, <2>2, <2>3
<1>9. CASE /\ Len(v_history) \in 2..(v_signals + 1) /\ v_history[1] = "patch" /\ v_current >= 2
           /\ \A n \in 2..Len(v_history) : v_history[n] = inc
  <2>0. VE!HasMarker(v_history, "patch") /\ v_signals # 0 /\ v_history # <<>>
    BY <1>0, <1>9 DEF VE!HasMarker
  <2>1. Upgraded(VE!Asked, v_signals)
    BY <1>0, <1>9, <2>0, AutoAsked
  <2>2. Begins(v_history, VE!Asked)
    BY <1>0, <1>9, <2>1 DEF Begins, Upgraded
  <2>3. ASSUME VE!WorkflowTask PROVE AutoHistory' /\ v_history' \in Seq(VE!Commands)
    <3>1. Len(v_history) + 1 \in 3..(v_signals + 1)
      BY <1>0, <1>3, <1>5, <1>9, <2>1, <2>3, TaskAsks DEF Upgraded
    <3>2. v_history' = Append(v_history, inc)
      BY <1>3, <1>5, <1>9, <2>0, <2>1, <2>3, <3>1, TaskAsks DEF Upgraded
    <3>3. /\ Append(v_history, inc) \in Seq(VE!Commands)
          /\ Len(Append(v_history, inc)) = Len(v_history) + 1
          /\ \A n \in 1..Len(v_history) : Append(v_history, inc)[n] = v_history[n]
          /\ Append(v_history, inc)[Len(v_history) + 1] = inc
      BY <1>0 DEF VE!Commands
    <3> QED
      BY <1>0, <1>6, <1>9, <2>3, <3>1, <3>2, <3>3 DEF AutoHistory
  <2> QED
    BY <1>3, <1>5, <2>2, <2>3
<1> QED
  BY <1>7, <1>8, <1>9 DEF VersionsInv, AutoHistory

\* The histories of the other workflows are made of commands.
LEMMA LiteralHistories ==
  /\ PatchingHistory => v_history \in Seq(VE!Commands)
  /\ HelloHistory => v_history \in Seq(VE!Commands)
  /\ PinnedHistory => v_history \in Seq(VE!Commands)
<1>1. /\ <<>> \in Seq(VE!Commands) /\ \A a \in VE!Commands : <<a>> \in Seq(VE!Commands)
      /\ \A a, b \in VE!Commands : <<a, b>> \in Seq(VE!Commands)
      /\ \A a, b, c \in VE!Commands : <<a, b, c>> \in Seq(VE!Commands)
  OBVIOUS
<1>2. \A a \in {"pre_patch_activity", "post_patch_activity", "compose_greeting", "sleep",
                 "some_activity", "some_incompatible_activity", "patch", "deprecate"} : a \in VE!Commands
  BY DEF VE!Commands
<1> QED
  BY <1>1, <1>2 DEF PatchingHistory, HelloHistory, PinnedHistory

\* Whoever is asked to replays.
LEMMA Serves ==
  ASSUME VersionsInv
  PROVE  VE!EveryVersionReplays
<1>0. v_sample \in {"patching", "hello", "auto", "pinned"}
  BY DEF VersionsInv, VE!TypeOK, VE!LastVersion
<1>1. VE!Name(VE!Serving) = VE!Name(v_started) /\ Begins(VE!Visible(v_history), VE!Visible(VE!Asked))
        => VE!Replays
  BY DEF VE!Replays, Begins
<1>2. v_sample # "hello" => VE!Name(VE!Serving) = VE!Name(v_started)
  BY DEF VE!Name
<1>3. v_sample \in {"auto", "pinned"} => VE!Replays
  BY <1>1, <1>2, AutoAsks, PinnedAsks
<1>4. v_sample = "patching" /\ v_current <= v_started + 1 => VE!Replays
  BY <1>1, <1>2, PatchingAsks
<1>5. v_sample = "hello" /\ v_current <= v_started + 1 /\ VE!Name(v_current) = VE!Name(v_started)
        => VE!Replays
  BY <1>1, HelloAsks DEF VE!Serving
<1> QED
  BY <1>3, <1>4, <1>5 DEF VE!EveryVersionReplays

\* Signals, deployments, workflow tasks and the end keep the invariant.
LEMMA VersionsStep ==
  ASSUME VersionsInv, [VE!Next]_(VE!vars)
  PROVE  VersionsInv'
<1>0. /\ v_sample \in {"patching", "hello", "auto", "pinned"} /\ v_signals \in 0..MaxActivitySignals
      /\ v_started \in Nat /\ v_current \in Nat /\ MaxActivitySignals \in Nat
      /\ v_history \in Seq(VE!Commands)
  BY CoursesAssumption DEF VersionsInv, VE!TypeOK, VE!LastVersion
<1>1. CASE VE!SendSignal
  <2>1. /\ UNCHANGED <<v_sample, v_started, v_current, v_history, v_pc>>
        /\ v_sample \in {"auto", "pinned"}
        /\ v_signals' \in 0..MaxActivitySignals /\ v_signals' >= v_signals
        /\ v_conclude' \in {v_conclude, TRUE}
    <3>1. UNCHANGED <<v_sample, v_started, v_current, v_history, v_pc>> /\ v_sample \in {"auto", "pinned"}
      BY <1>1 DEF VE!SendSignal
    <3>2. v_signals' \in 0..MaxActivitySignals /\ v_signals' >= v_signals
      BY <1>0, <1>1 DEF VE!SendSignal
    <3>3. v_conclude' = v_conclude \/ v_conclude' = TRUE
      BY <1>1, Zenon DEF VE!SendSignal
    <3> QED
      BY <3>1, <3>2, <3>3
  <2>2. VE!TypeOK'
    BY <2>1 DEF VersionsInv, VE!TypeOK
  <2>3. AutoHistory => AutoHistory'
    BY <1>0, <2>1 DEF AutoHistory
  <2>4. PinnedHistory => PinnedHistory'
    BY <2>1 DEF PinnedHistory
  <2> QED
    BY <2>1, <2>2, <2>3, <2>4 DEF VersionsInv
<1>2. CASE VE!Deploy
  <2>1. /\ UNCHANGED <<v_sample, v_started, v_history, v_signals, v_conclude, v_pc>>
        /\ v_current' = v_current + 1 /\ v_current < VE!LastVersion[v_sample]
        /\ v_sample \in {"patching", "hello"} /\ v_pc = "open" => v_current = v_started
    BY <1>2 DEF VE!Deploy
  <2>2. VE!TypeOK'
    BY <1>0, <2>1 DEF VersionsInv, VE!TypeOK, VE!LastVersion
  <2>3. v_sample = "patching" => PatchingHistory'
    BY <1>0, <2>1 DEF VersionsInv, PatchingHistory, VE!LastVersion
  <2>4. v_sample = "hello" => HelloHistory'
    BY <1>0, <2>1 DEF VersionsInv, HelloHistory
  <2>5. v_sample = "auto" => AutoHistory'
    BY <1>0, <2>1 DEF VersionsInv, AutoHistory
  <2>6. v_sample = "pinned" => PinnedHistory'
    BY <1>0, <2>1 DEF VersionsInv, PinnedHistory
  <2>7. v_sample \in {"patching", "hello"} /\ v_pc = "open" => v_current' <= v_started' + 1
    BY <1>0, <2>1
  <2> QED
    BY <2>1, <2>2, <2>3, <2>4, <2>5, <2>6, <2>7 DEF VersionsInv
<1>3. CASE VE!WorkflowTask
  <2>1. UNCHANGED <<v_sample, v_started, v_current, v_signals, v_conclude, v_pc>> /\ v_pc = "open"
    BY <1>3 DEF VE!WorkflowTask
  <2>2. v_sample = "patching" => PatchingHistory'
    BY <1>3, <2>1, PatchingAsks DEF VersionsInv
  <2>3. v_sample = "hello" => VE!Name(v_current) = VE!Name(v_started)
    BY <1>3 DEF VE!WorkflowTask, VE!Replays, VE!Serving
  <2>4. v_sample = "hello" => HelloHistory'
    BY <1>3, <2>1, <2>3, HelloAsks DEF VersionsInv
  <2>5. v_sample = "auto" => AutoHistory' /\ v_history' \in Seq(VE!Commands)
    BY <1>3, AutoAsks
  <2>6. v_sample = "pinned" => PinnedHistory'
    BY <1>3, PinnedAsks
  <2>7. (PatchingHistory \/ HelloHistory \/ PinnedHistory => v_history \in Seq(VE!Commands))'
    BY LiteralHistories, PTL
  <2>8. VE!TypeOK'
    BY <1>0, <2>1, <2>2, <2>4, <2>5, <2>6, <2>7 DEF VersionsInv, VE!TypeOK
  <2> QED
    BY <2>1, <2>2, <2>4, <2>5, <2>6, <2>8 DEF VersionsInv
<1>4. CASE VE!Complete
  <2>1. UNCHANGED <<v_sample, v_started, v_current, v_history, v_signals, v_conclude>> /\ v_pc' = "completed"
    BY <1>4 DEF VE!Complete
  <2> QED
    BY <2>1 DEF VersionsInv, VE!TypeOK, PatchingHistory, HelloHistory, AutoHistory, PinnedHistory
<1>5. CASE UNCHANGED VE!vars
  BY <1>5 DEF VE!vars, VersionsInv, VE!TypeOK, PatchingHistory, HelloHistory, AutoHistory, PinnedHistory
<1> QED
  BY <1>1, <1>2, <1>3, <1>4, <1>5 DEF VE!Next

\* Whatever a run has done when its code is replaced, the version that is asked to
\* go on with it asks for the same again: with the patch if the run began with it,
\* without if not, for every number of signals. Only the misspelt name of
\* hello_patch is not served (worker_versioning/workflows.py:30-124,
\* patching/workflow_*.py, hello/hello_patch.py).
THEOREM HistoriesReplay == VE!Spec => [](VE!TypeOK /\ VE!EveryVersionReplays)
<1>1. VE!Init => VersionsInv
  <2> SUFFICES ASSUME VE!Init PROVE VersionsInv
    OBVIOUS
  <2>1. /\ v_sample \in {"patching", "hello", "auto", "pinned"} /\ v_started = v_current
        /\ v_history = <<>> /\ v_signals = 0 /\ v_conclude \in BOOLEAN /\ v_pc = "open"
    BY DEF VE!Init, VE!LastVersion
  <2>2. v_current \in 1..VE!LastVersion[v_sample] /\ v_current \in Nat
    BY <2>1 DEF VE!Init, VE!LastVersion
  <2>3. <<>> \in Seq(VE!Commands) /\ <<>> \in Seq({"some_activity"}) /\ Len(<<>>) = 0
    OBVIOUS
  <2>4. v_signals \in 0..MaxActivitySignals /\ v_current \in v_started..VE!LastVersion[v_sample]
    BY <2>1, <2>2, CoursesAssumption DEF VE!LastVersion
  <2>5. VE!TypeOK
    BY <2>1, <2>2, <2>3, <2>4 DEF VE!TypeOK, VE!LastVersion
  <2> QED
    BY <2>1, <2>2, <2>3, <2>5 DEF VersionsInv, PatchingHistory, HelloHistory, AutoHistory, PinnedHistory
<1>2. VersionsInv => VE!TypeOK /\ VE!EveryVersionReplays
  BY Serves DEF VersionsInv
<1> QED
  BY <1>1, <1>2, VersionsStep, PTL DEF VE!Spec

\* Every version that may be asked to replays the history, and every order of the
\* answers fills a tree's variables alike (worker_versioning, patching, hello_patch
\* and dsl together).
THEOREM CoursesAgree == VE!Spec /\ DT!Spec => []VersionsAndOrdersAgree
<1>1. VE!TypeOK /\ VE!EveryVersionReplays /\ DT!TypeOK /\ DT!BranchesDoNotDisturb
        => VersionsAndOrdersAgree
  BY DEF VersionsAndOrdersAgree
<1>2. VE!Spec => [](VE!TypeOK /\ VE!EveryVersionReplays)
  BY HistoriesReplay
<1>3. DT!Spec => [](DT!TypeOK /\ DT!BranchesDoNotDisturb)
  BY TreesAreDetermined
<1> QED
  BY <1>1, <1>2, <1>3, PTL

-----------------------------------------------------------------------------
(* ClusterManager *)

\* The theorems about the cluster manager, for the one among the samples.
CP == INSTANCE ClusterManager_proof WITH
  Calls <- UpdateCalls, nodes <- m_nodes, jobs_assigned <- m_jobs_assigned,
  cluster_started <- m_cluster_started, cluster_shutdown <- m_cluster_shutdown,
  runPc <- m_runPc, inbox <- m_inbox, lockQueue <- m_lockQueue, picked <- m_picked,
  runs <- m_runs, request <- m_request, status <- m_status, result <- m_result,
  actual <- m_actual

\* What those theorems assume is assumed of the samples.
LEMMA ClusterIsAssumed == CP!ConstantsAssumption
<1>1. IsFiniteSet(Nodes) => CP!IsFiniteSet(Nodes)
  BY DEF CP!IsFiniteSet, IsFiniteSet
<1>2. MaxRuns \in Nat
  BY ConversationsAssumption
<1> QED
  BY <1>1, <1>2, CoursesAssumption DEF ClusterConstants, CP!ConstantsAssumption

\* It is the one that the theorems are about, action by action.
LEMMA SameCalls ==
  ASSUME NEW c \in UpdateCalls
  PROVE  /\ CM!SendCall(c) => CP!SendCall(c)
         /\ CM!HandlerStep(c) => CP!HandlerStep(c)
<1> USE DEF CM!Open, CP!Open, CM!runVars, CP!runVars, CM!Request, CP!Request,
            CM!Holds, CP!Holds, CM!Release, CP!Release, CM!nodes_of, CP!nodes_of,
            CM!unassigned_nodes, CP!unassigned_nodes
<1>0. \A X : CM!Cardinality(X) = CP!Cardinality(X)
  BY DEF CM!Cardinality, CP!Cardinality
<1>1. CM!SendCall(c) => CP!SendCall(c)
  BY DEF CM!SendCall, CP!SendCall
<1>2. CM!EnterAssign(c) => CP!EnterAssign(c)
  BY <1>0 DEF CM!EnterAssign, CP!EnterAssign
<1>3. CM!FinishAssign(c) => CP!FinishAssign(c)
  BY DEF CM!FinishAssign, CP!FinishAssign
<1>4. CM!EnterDelete(c) => CP!EnterDelete(c)
  BY DEF CM!EnterDelete, CP!EnterDelete
<1>5. CM!FinishDelete(c) => CP!FinishDelete(c)
  BY DEF CM!FinishDelete, CP!FinishDelete
<1>6. CM!Attempt(c) => CP!Attempt(c)
  BY DEF CM!Attempt, CP!Attempt, CM!Target, CP!Target
<1> QED
  BY <1>1, <1>2, <1>3, <1>4, <1>5, <1>6 DEF CM!HandlerStep, CP!HandlerStep

\* So it is with the messages, ...
LEMMA SameMessages ==
  /\ CM!SendShutdown => CP!SendShutdown
  /\ CM!HandleCall => CP!HandleCall
  /\ CM!HandleShutdown => CP!HandleShutdown
<1> USE DEF CM!Open, CP!Open, CM!runVars, CP!runVars, CM!callVars, CP!callVars
<1>1. CM!SendShutdown => CP!SendShutdown
  BY DEF CM!SendShutdown, CP!SendShutdown
<1>2. CM!HandleCall => CP!HandleCall
  BY DEF CM!HandleCall, CP!HandleCall
<1>3. CM!HandleShutdown => CP!HandleShutdown
  BY DEF CM!HandleShutdown, CP!HandleShutdown
<1> QED
  BY <1>1, <1>2, <1>3

\* ... and with the steps of run.
LEMMA SameRunSteps == CM!RunStep => CP!RunStep
<1> USE DEF CM!runVars, CP!runVars, CM!callVars, CP!callVars, CM!Holds, CP!Holds,
            CM!Release, CP!Release, CM!all_handlers_finished, CP!all_handlers_finished,
            CM!assigned_nodes, CP!assigned_nodes
<1>1. CM!StartCluster => CP!StartCluster
  BY DEF CM!StartCluster, CP!StartCluster
<1>2. CM!StartClusterFails => CP!StartClusterFails
  BY DEF CM!StartClusterFails, CP!StartClusterFails
<1>3. CM!EnterHealthCheck => CP!EnterHealthCheck
  BY DEF CM!EnterHealthCheck, CP!EnterHealthCheck
<1>4. CM!FinishHealthCheck => CP!FinishHealthCheck
  BY DEF CM!FinishHealthCheck, CP!FinishHealthCheck
<1>5. CM!NextHealthCheck => CP!NextHealthCheck
  BY DEF CM!NextHealthCheck, CP!NextHealthCheck
<1>6. CM!LeaveLoop => CP!LeaveLoop
  BY DEF CM!LeaveLoop, CP!LeaveLoop
<1>7. CM!ContinueAsNew => CP!ContinueAsNew
  BY DEF CM!ContinueAsNew, CP!ContinueAsNew
<1>8. CM!Complete => CP!Complete
  BY DEF CM!Complete, CP!Complete
<1> QED
  BY <1>1, <1>2, <1>3, <1>4, <1>5, <1>6, <1>7, <1>8 DEF CM!RunStep, CP!RunStep

\* The cluster manager among the samples keeps its types and its books, as in the
\* runs of its own: while updates, health checks and continue-as-new interleave,
\* nobody waits for nodes_lock twice and what the books of the first run say of a
\* node is so, or about to be (message_passing/safe_message_handlers/workflow.py).
THEOREM ClusterIsTyped == CM!Spec => [](CM!TypeOK /\ CM!BooksMatchCluster)
<1>1. CM!Init => CP!Init
  BY DEF CM!Init, CP!Init
<1>2. [CM!Next]_(CM!vars) => [CP!Next]_(CP!vars)
  BY SameCalls, SameMessages, SameRunSteps DEF CM!Next, CP!Next, CM!vars, CP!vars
<1>3. CP!TypeOK => CM!TypeOK
  BY DEF CM!TypeOK, CP!TypeOK, CM!Types, CP!Types, CM!Request, CP!Request
<1>4. CP!BooksMatchCluster => CM!BooksMatchCluster
  BY DEF CM!BooksMatchCluster, CP!BooksMatchCluster, CM!FirstRun, CP!FirstRun,
     CM!UnderWay, CP!UnderWay, CM!Target, CP!Target
<1>5. CP!Spec => []CP!TypeOK
  BY ClusterIsAssumed, CP!TypeCorrect
<1>6. CP!Spec => []CP!BooksMatchCluster
  BY ClusterIsAssumed, CP!BooksAreRight
<1> QED
  BY <1>1, <1>2, <1>3, <1>4, <1>5, <1>6, PTL DEF CM!Spec, CP!Spec

-----------------------------------------------------------------------------
(* Every sample *)

\* Whatever the sample, and for every number of its clients, messages, runs and
\* faults, each of its variables stays in its type: counters in their bounds,
\* queues and histories made of what can be in them.
THEOREM EverySampleIsTyped ==
  /\ G!Spec /\ W!Spec /\ C!Spec /\ K!Spec /\ I!Spec /\ E!Spec /\ Q!Spec
  /\ B!Spec /\ S!Spec /\ T!Spec /\ Z!Spec /\ J!Spec /\ O!Spec /\ R!Spec
  /\ U!Spec /\ Y!Spec /\ NC!Spec /\ FP!Spec /\ WC!Spec /\ HC!Spec /\ KB!Spec
  /\ AF!Spec /\ SW!Spec /\ CE!Spec /\ VE!Spec /\ PO!Spec /\ DT!Spec /\ CM!Spec
  => []TypeOK
<1>1. G!Spec => []G!TypeOK
  BY GreetingFetches, PTL
<1>2. W!Spec => []W!TypeOK
  BY ExitWaits, PTL
<1>3. C!Spec => []C!TypeOK
  BY ResultXorCompensation, PTL
<1>4. K!Spec => []K!TypeOK
  BY OrdersAreRight, PTL
<1>5. I!Spec => []I!TypeOK
  BY OperationsAreOne, PTL
<1>6. E!Spec => []E!TypeOK
  BY EveryPromptIsKept, PTL
<1>7. Q!Spec => []Q!TypeOK
  BY PromptsAreAnsweredInTurn, PTL
<1>8. B!Spec => []B!TypeOK
  BY NoAnswerIsStale, PTL
<1>9. S!Spec => []S!TypeOK
  BY ServiceIsCoherent, PTL
<1>10. T!Spec => []T!TypeOK
  BY SleepIsUpToDate, PTL
<1>11. Z!Spec => []Z!TypeOK
  BY MailsAreMonthly, PTL
<1>12. J!Spec => []J!TypeOK
  BY MessagesReachTheResult, PTL
<1>13. O!Spec => []O!TypeOK
  BY EachCallHasItsContext, PTL
<1>14. R!Spec => []R!TypeOK
  BY FailuresAreReported, PTL
<1>15. U!Spec => []U!TypeOK
  BY ThreadsSuffice, PTL
<1>16. Y!Spec => []Y!TypeOK
  BY MainIsLast, PTL
<1>17. NC!Spec => []NC!TypeOK
  BY HandlersHearOfCancellation, PTL
<1>18. FP!Spec => []FP!TypeOK
  BY FilesLiveWithTheirRuns, PTL
<1>19. WC!Spec => []WC!TypeOK
  BY ActivityLivesUntilCancelled, PTL
<1>20. HC!Spec => []HC!TypeOK
  BY CleanupIsDone, PTL
<1>21. KB!Spec => []KB!TypeOK
  BY FilesAreRemoved, PTL
<1>22. AF!Spec => []AF!TypeOK
  BY FlowsRestOnAll, PTL
<1>23. SW!Spec => []SW!TypeOK
  BY CallsAreAnswered, PTL
<1>24. CE!Spec => []CE!TypeOK
  BY FilesLand, PTL
<1>25. VE!Spec => []VE!TypeOK
  BY HistoriesReplay, PTL
<1>26. PO!Spec => []PO!TypeOK
  BY PollIsTyped, PTL
<1>27. DT!Spec => []DT!TypeOK
  BY TreesAreDetermined, PTL
<1>28. CM!Spec => []CM!TypeOK
  BY ClusterIsTyped, PTL
<1> QED
  BY <1>1, <1>2, <1>3, <1>4, <1>5, <1>6, <1>7, <1>8, <1>9, <1>10,
     <1>11, <1>12, <1>13, <1>14, <1>15, <1>16, <1>17, <1>18, <1>19, <1>20,
     <1>21, <1>22, <1>23, <1>24, <1>25, <1>26, <1>27, <1>28, PTL DEF TypeOK
=============================================================================
