------------------------------ MODULE MCSamples ------------------------------
(***************************************************************************)
(* The samples of one workflow, each on an instance of its own: they do    *)
(* not call each other, so a behaviour is a behaviour of one of them, the  *)
(* one in sample, and the others stay in their initial state.              *)
(***************************************************************************)
EXTENDS Samples, TLC

CONSTANTS r1, r2, r3

Prices == r1 :> 0 @@ r2 :> 2 @@ r3 :> 3

DocumentNames == <<"d1", "d2">>

VARIABLE sample

\* The trees that come with the sample, said without DT, whose Trees they are.
Yaml == INSTANCE Dsl WITH
  Trees <- {}, root <- d_root, variables <- d_variables, scheduled <- d_scheduled,
  answered <- d_answered, returned <- d_returned

YamlTrees == {Yaml!workflow1, Yaml!workflow2}

entityVars == <<e_pc, e_inbox, e_prompt_queue, e_chat_ended, e_carried, e_summary,
                e_turns, e_earlier, e_dropped, e_sent>>
signalVars == <<q_pc, q_inbox, q_prompt_queue, q_chat_timeout, q_turns, q_dropped,
                q_sent>>
chatbotVars == <<b_pc, b_pending_message, b_last_response, b_message, b_notes,
                 b_done, b_status, b_answer, b_round>>
serviceVars == <<s_runs, s_printed_history, s_input_items, s_chat_length, s_status,
                 s_runner_input, s_current_agent, s_agent, s_context>>
flowVars == <<af_flow, af_step, af_planned, af_running, af_results,
              af_search_results, af_failed, af_rounds, af_server, af_outcome>>
versionVars == <<v_sample, v_started, v_current, v_history, v_signals, v_conclude,
                 v_pc>>
timerVars == <<t_clock, t_inbox, t_wake_up_time, t_wake_up_time_updated, t_pc,
               t_timer, t_sent>>
nexusVars == <<nc_pc, nc_result, nc_pending, nc_task, nc_request, nc_handler>>
fileVars == <<fp_pc, fp_files, fp_late, fp_slow, fp_checksum>>
pollVars == <<p_kind, p_attempts, p_stale, p_i, p_pc, p_faults>>
activityVars == <<wc_pc, wc_signal, wc_cancel, wc_fn, wc_heartbeat, wc_outcome>>
waitingVars == <<w_exit_type, w_pc, w_outcome, w_cancel, w_update_started,
                 w_handler>>
compensationVars == <<c_exit_type, c_pc, c_outcome, c_cancel, c_workflow_exit,
                      c_handler, c_task, c_effect, c_undone,
                      c_workflow_compensation_done, c_update_compensation_done>>
greetingVars == <<g_greetings, g_language, g_approved, g_closed, g_asked, g_status,
                  g_lockQueue>>
cartVars == <<k_cart, k_open, k_items, k_order_submitted, k_status, k_cartOf,
              k_subtotal, k_orders>>
clusterVars == <<m_nodes, m_jobs_assigned, m_cluster_started, m_cluster_shutdown,
                 m_runPc, m_inbox, m_lockQueue, m_picked, m_runs, m_request,
                 m_status, m_result, m_actual>>
simpleVars == <<sw_name, sw_run, sw_stage, sw_at, sw_attempt, sw_lost, sw_outcome>>
messagesVars == <<j_name, j_clock, j_pc, j_timer, j_inbox, j_pending_greetings,
                  j_greetings, j_submitted, j_flag, j_value, j_main, j_asked,
                  j_seen>>
cancelVars == <<hc_pc, hc_cancel, hc_never, hc_cleanup, hc_asked, hc_lost>>
contextVars == <<o_user, o_starter, o_calls, o_handled, o_pc, o_context,
                 o_complete, o_header, o_activity, o_logged, o_lost>>
reportVars == <<r_option, r_pc, r_activity, r_replaying, r_reports, r_retried,
                r_faults, r_queries>>
executorVars == <<u_lib, u_loop, u_step, u_call, u_queue, u_orphans, u_faults>>
processVars == <<y_process, y_main, y_broken, y_pc, y_pid, y_told, y_result>>
operationVars == <<i_service, i_input, i_pc, i_op, i_attempt, i_log, i_runs,
                   i_previous, i_lost, i_greetings, i_language, i_approved,
                   i_closed, i_asked, i_status, i_lockQueue>>
dslVars == <<d_root, d_variables, d_scheduled, d_answered, d_returned>>
daysVars == <<z_is_complete, z_pc, z_timer, z_clock, z_rounds, z_mails, z_left,
              z_lost>>
exportVars == <<ce_exported, ce_unreadable, ce_clock, ce_fired, ce_pc, ce_hour, ce_readers,
                ce_key, ce_attempt, ce_landed, ce_ended, ce_lost>>
knowledgeVars == <<kb_pc, kb_i, kb_disk, kb_temp_files, kb_file_ids, kb_stores,
                   kb_workflow_file, kb_trouble>>
vars == <<sample, entityVars, signalVars, chatbotVars, serviceVars, flowVars,
          versionVars, timerVars, nexusVars, fileVars, pollVars, activityVars,
          waitingVars, compensationVars, greetingVars, cartVars, clusterVars,
          simpleVars, messagesVars, cancelVars, contextVars, reportVars,
          executorVars, processVars, operationVars, dslVars, daysVars, exportVars,
          knowledgeVars>>

Init == /\ sample \in {"entity", "signals", "chatbot", "service", "flow",
                        "versions", "timer", "nexus", "file", "poll", "activity",
                        "waiting", "compensation", "greeting", "cart", "cluster",
                        "simple", "messages", "cancellation", "context", "sentry",
                        "executors", "processes", "operations", "dsl", "days",
                        "export", "knowledge"}
        \* One initial state is enough for the samples that do not run.
        /\ sample = "flow" \/ af_flow = "judge"
        /\ sample = "versions" \/ (v_sample = "pinned" /\ v_current = 1)
        /\ sample = "timer" \/ t_wake_up_time = 0
        /\ sample = "poll" \/ p_kind = "periodic"
        /\ sample = "waiting" \/ w_exit_type = "SUCCESS"
        /\ sample = "compensation" \/ c_exit_type = "SUCCESS"
        /\ sample = "simple" \/ sw_name = "activity"
        /\ sample = "messages" \/ j_name = "signal"
        /\ sample = "sentry" \/ r_option = "working"
        /\ sample = "executors" \/ u_lib = "gevent"
        /\ sample = "operations" \/ (i_service = "hello_nexus" /\ i_input = [c \in Callers |-> "world"])
        /\ sample = "dsl" \/ d_root = Yaml!workflow1
        /\ sample = "export" \/ (ce_unreadable = {} /\ ce_exported = [h \in CE!Hours |-> 0])
        /\ E!Init /\ Q!Init /\ B!Init /\ S!Init /\ AF!Init /\ VE!Init /\ T!Init
        /\ NC!Init /\ FP!Init /\ PO!Init /\ WC!Init /\ W!Init /\ C!Init /\ G!Init
        /\ K!Init /\ CM!Init /\ SW!Init /\ J!Init /\ HC!Init /\ O!Init /\ R!Init
        /\ U!Init /\ Y!Init /\ I!Init /\ DT!Init /\ Z!Init /\ CE!Init /\ KB!Init

\* The samples other than x stay as they are.
Only(x) ==
  /\ sample = x /\ UNCHANGED sample
  /\ IF x = "entity" THEN TRUE ELSE UNCHANGED entityVars
  /\ IF x = "signals" THEN TRUE ELSE UNCHANGED signalVars
  /\ IF x = "chatbot" THEN TRUE ELSE UNCHANGED chatbotVars
  /\ IF x = "service" THEN TRUE ELSE UNCHANGED serviceVars
  /\ IF x = "flow" THEN TRUE ELSE UNCHANGED flowVars
  /\ IF x = "versions" THEN TRUE ELSE UNCHANGED versionVars
  /\ IF x = "timer" THEN TRUE ELSE UNCHANGED timerVars
  /\ IF x = "nexus" THEN TRUE ELSE UNCHANGED nexusVars
  /\ IF x = "file" THEN TRUE ELSE UNCHANGED fileVars
  /\ IF x = "poll" THEN TRUE ELSE UNCHANGED pollVars
  /\ IF x = "activity" THEN TRUE ELSE UNCHANGED activityVars
  /\ IF x = "waiting" THEN TRUE ELSE UNCHANGED waitingVars
  /\ IF x = "compensation" THEN TRUE ELSE UNCHANGED compensationVars
  /\ IF x = "greeting" THEN TRUE ELSE UNCHANGED greetingVars
  /\ IF x = "cart" THEN TRUE ELSE UNCHANGED cartVars
  /\ IF x = "cluster" THEN TRUE ELSE UNCHANGED clusterVars
  /\ IF x = "simple" THEN TRUE ELSE UNCHANGED simpleVars
  /\ IF x = "messages" THEN TRUE ELSE UNCHANGED messagesVars
  /\ IF x = "cancellation" THEN TRUE ELSE UNCHANGED cancelVars
  /\ IF x = "context" THEN TRUE ELSE UNCHANGED contextVars
  /\ IF x = "sentry" THEN TRUE ELSE UNCHANGED reportVars
  /\ IF x = "executors" THEN TRUE ELSE UNCHANGED executorVars
  /\ IF x = "processes" THEN TRUE ELSE UNCHANGED processVars
  /\ IF x = "operations" THEN TRUE ELSE UNCHANGED operationVars
  /\ IF x = "dsl" THEN TRUE ELSE UNCHANGED dslVars
  /\ IF x = "days" THEN TRUE ELSE UNCHANGED daysVars
  /\ IF x = "export" THEN TRUE ELSE UNCHANGED exportVars
  /\ IF x = "knowledge" THEN TRUE ELSE UNCHANGED knowledgeVars

Entity == sample = "entity" /\ E!Next /\ Only("entity")
Signals == sample = "signals" /\ Q!Next /\ Only("signals")
Chat == sample = "chatbot" /\ B!Next /\ Only("chatbot")
Service == sample = "service" /\ S!Next /\ Only("service")
Flow == sample = "flow" /\ AF!Next /\ Only("flow")
Versions == sample = "versions" /\ VE!Next /\ Only("versions")
Timer == sample = "timer" /\ T!Next /\ Only("timer")
Nexus == sample = "nexus" /\ NC!Next /\ Only("nexus")
File == sample = "file" /\ FP!Next /\ Only("file")
Poll == sample = "poll" /\ PO!Next /\ Only("poll")
Activity == sample = "activity" /\ WC!Next /\ Only("activity")
Waiting == sample = "waiting" /\ W!Next /\ Only("waiting")
Compensation == sample = "compensation" /\ C!Next /\ Only("compensation")
Greet == sample = "greeting" /\ G!Next /\ Only("greeting")
Shop == sample = "cart" /\ K!Next /\ Only("cart")
Manage == sample = "cluster" /\ CM!Next /\ Only("cluster")
Simple == sample = "simple" /\ SW!Next /\ Only("simple")
Talk == sample = "messages" /\ J!Next /\ Only("messages")
Cancel == sample = "cancellation" /\ HC!Next /\ Only("cancellation")
Context == sample = "context" /\ O!Next /\ Only("context")
Report == sample = "sentry" /\ R!Next /\ Only("sentry")
Execute == sample = "executors" /\ U!Next /\ Only("executors")
Process == sample = "processes" /\ Y!Next /\ Only("processes")
Operate == sample = "operations" /\ I!Next /\ Only("operations")
Interpret == sample = "dsl" /\ DT!Next /\ Only("dsl")
Days == sample = "days" /\ Z!Next /\ Only("days")
Export == sample = "export" /\ CE!Next /\ Only("export")
Know == sample = "knowledge" /\ KB!Next /\ Only("knowledge")

Next == Entity \/ Signals \/ Chat \/ Service \/ Flow \/ Versions \/ Timer \/ Nexus \/ File \/ Poll \/
        Activity \/ Waiting \/ Compensation \/ Greet \/ Shop \/ Manage \/ Simple \/ Talk \/ Cancel \/
        Context \/ Report \/ Execute \/ Process \/ Operate \/ Interpret \/ Days \/ Export \/ Know

\* The fairness of each sample, asked for only in its own behaviours.
Fairness ==
  /\ WF_entityVars(sample = "entity" /\ E!Handler)
  /\ WF_entityVars(sample = "entity" /\ E!RunStep)
  /\ WF_signalVars(sample = "signals" /\ Q!UserPrompt)
  /\ WF_signalVars(sample = "signals" /\ Q!RunStep)
  /\ WF_chatbotVars(sample = "chatbot" /\ (B!Open /\ B!ResumeHandlers))
  /\ WF_chatbotVars(sample = "chatbot" /\ B!RunStep)
  /\ \A m \in Inquiries : WF_serviceVars(sample = "service" /\ S!Handler(m))
  /\ WF_flowVars(sample = "flow" /\ AF!RunEnds)
  /\ WF_flowVars(sample = "flow" /\ AF!Resume)
  /\ WF_versionVars(sample = "versions" /\ (VE!WorkflowTask \/ VE!Complete))
  /\ WF_timerVars(sample = "timer" /\ T!Tick)
  /\ WF_timerVars(sample = "timer" /\ T!UpdateWakeUpTime)
  /\ WF_timerVars(sample = "timer" /\ T!Sleep)
  /\ WF_nexusVars(sample = "nexus" /\ (NC!TakeFirst \/ NC!Return))
  /\ \A l \in Language : WF_nexusVars(sample = "nexus" /\ NC!Resolve(l))
  /\ \A l \in Language : WF_nexusVars(sample = "nexus" /\ NC!FinishHandler(l))
  /\ \A w \in Workflows : WF_fileVars(sample = "file" /\ FP!RunStep(w))
  /\ WF_pollVars(sample = "poll" /\ PO!Poll)
  /\ WF_pollVars(sample = "poll" /\ PO!StalePoll)
  /\ WF_pollVars(sample = "poll" /\ (PO!TryActivity \/ PO!ContinueAsNew))
  /\ WF_activityVars(sample = "activity" /\ WC!Step)
  /\ WF_waitingVars(sample = "waiting" /\ W!RunStep)
  /\ \A u \in UpdateCalls : WF_waitingVars(sample = "waiting" /\ W!UpdateStep(u))
  /\ WF_waitingVars(sample = "waiting" /\ (W!RequestCancel /\ w_exit_type = "CANCELLATION"))
  /\ WF_compensationVars(sample = "compensation" /\ C!RunStep)
  /\ \A u \in UpdateCalls : WF_compensationVars(sample = "compensation" /\ C!PerformActivity(u))
  /\ \A u \in UpdateCalls : WF_compensationVars(sample = "compensation" /\ C!UpdateStep(u))
  /\ WF_compensationVars(sample = "compensation" /\ (C!RequestCancel /\ c_exit_type = "CANCELLATION"))
  /\ WF_greetingVars(sample = "greeting" /\ G!Return)
  /\ \A c \in Calls : WF_greetingVars(sample = "greeting" /\ G!CallStep(c))
  /\ WF_cartVars(sample = "cart" /\ K!Finalize)
  /\ \A r \in Requests : WF_cartVars(sample = "cart" /\ (K!Priced(r) \/ K!Unavailable(r)))
  /\ WF_clusterVars(sample = "cluster" /\ CM!HandleCall)
  /\ WF_clusterVars(sample = "cluster" /\ CM!HandleShutdown)
  /\ \A c \in UpdateCalls : WF_clusterVars(sample = "cluster" /\ CM!HandlerStep(c))
  /\ WF_clusterVars(sample = "cluster" /\ (CM!StartCluster \/ CM!StartClusterFails))
  /\ WF_clusterVars(sample = "cluster" /\ CM!EnterHealthCheck)
  /\ WF_clusterVars(sample = "cluster" /\ CM!FinishHealthCheck)
  /\ WF_clusterVars(sample = "cluster" /\ (CM!NextHealthCheck \/ CM!LeaveLoop))
  /\ WF_clusterVars(sample = "cluster" /\ CM!ContinueAsNew)
  /\ WF_clusterVars(sample = "cluster" /\ CM!Complete)
  /\ WF_simpleVars(sample = "simple" /\ SW!Progress)
  /\ WF_messagesVars(sample = "messages" /\ J!HandleSignal)
  /\ WF_messagesVars(sample = "messages" /\ J!RunStep)
  /\ WF_messagesVars(sample = "messages" /\ J!SendSignal)
  /\ WF_messagesVars(sample = "messages" /\ J!MainStep)
  /\ WF_messagesVars(sample = "messages" /\ J!Tick)
  /\ WF_cancelVars(sample = "cancellation" /\ HC!RunStep)
  /\ WF_cancelVars(sample = "cancellation" /\ HC!NeverStep)
  /\ WF_cancelVars(sample = "cancellation" /\ HC!RunCleanup)
  /\ WF_contextVars(sample = "context" /\ O!WorkerStep)
  /\ WF_reportVars(sample = "sentry" /\ R!WorkerStep)
  /\ WF_executorVars(sample = "executors" /\ U!Progress)
  /\ WF_processVars(sample = "processes" /\ Y!Progress)
  /\ \A c \in Callers : WF_operationVars(sample = "operations" /\ I!CallerStep(c))
  /\ WF_dslVars(sample = "dsl" /\ DT!Progress)
  /\ WF_daysVars(sample = "days" /\ (Z!Loop \/ Z!Wait \/ Z!WaitEnds))
  /\ WF_daysVars(sample = "days" /\ Z!send_email)
  /\ WF_daysVars(sample = "days" /\ Z!Tick)
  /\ WF_exportVars(sample = "export" /\ CE!Tick)
  /\ WF_exportVars(sample = "export" /\ CE!create_schedule)
  /\ WF_exportVars(sample = "export" /\ CE!RunStep)
  /\ WF_knowledgeVars(sample = "knowledge" /\ KB!Next)

Spec == Init /\ [][Next]_vars /\ Fairness

-----------------------------------------------------------------------------
(* The safety properties are in Samples, where each is explained.          *)

\* In each sample what its users wait for comes: prompts and messages are
\* answered, dropped or refused, the chat that is to close closes, the timer
\* wakes up, callers, flows and runs end, the poll goes on, updates end, the
\* cart returns its order, calls to the cluster manager are answered.
SamplesGoOn ==
  /\ sample = "entity" => E!ChatGoesOn
  /\ sample = "signals" => Q!ChatCloses
  /\ sample = "chatbot" => B!UpdateReturns
  /\ sample = "service" => S!MessageIsAnswered
  /\ sample = "flow" => AF!FlowEnds
  /\ sample = "versions" => VE!RunConcludes
  /\ sample = "timer" => T!WakesUp
  /\ sample = "nexus" => NC!CallerEnds
  /\ sample = "file" => FP!RunCloses
  /\ sample = "poll" => PO!PollGoesOn
  /\ sample = "activity" => WC!CancelEndsIt
  /\ sample = "waiting" => W!RunCloses
  /\ sample = "compensation" => C!UpdateEnds
  /\ sample = "greeting" => G!CallEnds
  /\ sample = "cart" => K!OrderIsReturned
  /\ sample = "cluster" => CM!EveryCallIsAnswered
  /\ sample = "simple" => SW!WorkflowEnds
  /\ sample = "messages" => J!MainEnds
  /\ sample = "cancellation" => HC!CancelEndsBoth
  /\ sample = "context" => O!CompletedRunCloses
  /\ sample = "sentry" => R!WorkflowCloses
  /\ sample = "executors" => U!LoopGoesOn
  /\ sample = "processes" => Y!WorkflowsEnd
  /\ sample = "operations" => I!CallersEnd
  /\ sample = "dsl" => DT!TreeIsWorkedOff
  /\ sample = "days" => Z!CompleteEndsIt
  /\ sample = "export" => CE!RunEnds
  /\ sample = "knowledge" => KB!ScriptEnds
=============================================================================
