------------------------------- MODULE Samples -------------------------------
(***************************************************************************)
(* The samples about one workflow or one worker, side by side, and what is *)
(* claimed of them together.  They do not interact: each has variables of  *)
(* its own, named after its instance.  MCSamples runs them.                *)
(***************************************************************************)
EXTENDS Integers, FiniteSets, Sequences

-----------------------------------------------------------------------------
(***************************************************************************)
(* The samples in which callers wait for the answers of one workflow's     *)
(* handlers: four of message_passing, and the operations of the nexus      *)
(* samples, of which one is a workflow of message_passing.                 *)
(***************************************************************************)
CONSTANTS
  Languages, English, Known, Served, Calls,    \* of Greeting
  UpdateCalls, ExitTypes, Cancellers,          \* of the two that wait for handlers
  Requests, Price, MaxCarts,                   \* of ShoppingCart
  Callers, NoAnswer, MaxLostAnswers            \* of NexusOperations

VARIABLES
  g_greetings, g_language, g_approved, g_closed, g_asked, g_status, g_lockQueue,
  w_exit_type, w_pc, w_outcome, w_cancel, w_update_started, w_handler,
  c_exit_type, c_pc, c_outcome, c_cancel, c_workflow_exit, c_handler, c_task,
  c_effect, c_undone, c_workflow_compensation_done, c_update_compensation_done,
  k_cart, k_open, k_items, k_order_submitted, k_status, k_cartOf, k_subtotal,
  k_orders,
  i_service, i_input, i_pc, i_op, i_attempt, i_log, i_runs, i_previous, i_lost,
  i_greetings, i_language, i_approved, i_closed, i_asked, i_status, i_lockQueue

G == INSTANCE Greeting WITH
  greetings <- g_greetings, language <- g_language, approved <- g_approved,
  closed <- g_closed, asked <- g_asked, status <- g_status,
  lockQueue <- g_lockQueue

W == INSTANCE WaitingForHandlers WITH
  Updates <- UpdateCalls, exit_type <- w_exit_type, pc <- w_pc,
  outcome <- w_outcome, cancel <- w_cancel, update_started <- w_update_started,
  handler <- w_handler

C == INSTANCE HandlersAndCompensation WITH
  Updates <- UpdateCalls, exit_type <- c_exit_type, pc <- c_pc,
  outcome <- c_outcome, cancel <- c_cancel, workflow_exit <- c_workflow_exit,
  handler <- c_handler, task <- c_task, effect <- c_effect, undone <- c_undone,
  workflow_compensation_done <- c_workflow_compensation_done,
  update_compensation_done <- c_update_compensation_done

K == INSTANCE ShoppingCart WITH
  cart <- k_cart, open <- k_open, items <- k_items,
  order_submitted <- k_order_submitted, status <- k_status, cartOf <- k_cartOf,
  subtotal <- k_subtotal, orders <- k_orders

I == INSTANCE NexusOperations WITH
  None <- NoAnswer, MaxLost <- MaxLostAnswers, service <- i_service,
  input <- i_input, pc <- i_pc, op <- i_op, attempt <- i_attempt, log <- i_log,
  runs <- i_runs, previous <- i_previous, lost <- i_lost, greetings <- i_greetings,
  language <- i_language, approved <- i_approved, closed <- i_closed,
  asked <- i_asked, status <- i_status, lockQueue <- i_lockQueue

\* The greeting workflow starts in a language it can greet in.
GreetingConstants == English \in Known /\ Known \subseteq Languages

\* The exit types are those the code knows.
KnownExits == ExitTypes \subseteq {"SUCCESS", "FAILURE", "CANCELLATION"}

\* Prices are natural numbers; 0 is the price of what is not to be had.
CartConstants == Price \in [Requests -> Nat] /\ MaxCarts \in Nat

\* No answer is none of the languages.
OperationConstants == MaxLostAnswers \in Nat /\ NoAnswer \notin {"ENGLISH", "ARABIC"}

ASSUME MessagePassingAssumption ==
  GreetingConstants /\ KnownExits /\ CartConstants /\ OperationConstants

\* At most one call of the greeting workflow is at the remote service
\* (introduction/workflows.py:96-100).
OneFetchAtATime == G!OneFetchAtATime

\* No exit that waits for its handlers leaves one at work (WaitingForHandlers),
\* and none that returns a result does (HandlersAndCompensation).
HandlersAreAwaited == W!ExitWaitsForHandlers /\ C!SuccessWaitsForHandlers

\* Each update has its result or its compensation.
ResultOrCompensation == C!ResultOrCompensation

\* The order of a cart is what its customers were told is in it.
OrderIsWhatWasAdded == K!OrderIsWhatWasAdded

\* An operation is one run of its workflow, and a language is set when
\* set_language has answered.
OperationsAreRight == I!OperationIsOneRun /\ I!LanguageIsSet

-----------------------------------------------------------------------------
(***************************************************************************)
(* The workflows that are talked to while they wait: the chats with        *)
(* Bedrock, the chatbot, the airline's customer service, the timers that   *)
(* signals change or end, and hello's signals and queries.                 *)
(***************************************************************************)
CONSTANTS
  continue_as_new_per_turns, MaxPrompts, End,  \* of BedrockEntity
  MaxUserPrompts,                              \* of SignalQueryBedrock
  Messages, Notes, None,                       \* of Chatbot
  Inquiries, MaxRuns,                          \* of CustomerService
  MaxTime, MaxSignals,                         \* of UpdatableTimer
  Month, MaxDays, MaxLostMails,                \* of SleepForDays
  MaxSeconds, Others                           \* of HelloMessages

VARIABLES
  e_pc, e_inbox, e_prompt_queue, e_chat_ended, e_carried, e_summary, e_turns,
  e_earlier, e_dropped, e_sent,
  q_pc, q_inbox, q_prompt_queue, q_chat_timeout, q_turns, q_dropped, q_sent,
  b_pc, b_pending_message, b_last_response, b_message, b_notes, b_done, b_status,
  b_answer, b_round,
  s_runs, s_printed_history, s_input_items, s_chat_length, s_status,
  s_runner_input, s_current_agent, s_agent, s_context,
  t_clock, t_inbox, t_wake_up_time, t_wake_up_time_updated, t_pc, t_timer, t_sent,
  z_is_complete, z_pc, z_timer, z_clock, z_rounds, z_mails, z_left, z_lost,
  j_name, j_clock, j_pc, j_timer, j_inbox, j_pending_greetings, j_greetings,
  j_submitted, j_flag, j_value, j_main, j_asked, j_seen

E == INSTANCE BedrockEntity WITH
  pc <- e_pc, inbox <- e_inbox, prompt_queue <- e_prompt_queue,
  chat_ended <- e_chat_ended, carried <- e_carried, summary <- e_summary,
  turns <- e_turns, earlier <- e_earlier, dropped <- e_dropped, sent <- e_sent

Q == INSTANCE SignalQueryBedrock WITH
  MaxPrompts <- MaxUserPrompts, pc <- q_pc, inbox <- q_inbox,
  prompt_queue <- q_prompt_queue, chat_timeout <- q_chat_timeout, turns <- q_turns,
  dropped <- q_dropped, sent <- q_sent

B == INSTANCE Chatbot WITH
  pc <- b_pc, pending_message <- b_pending_message,
  last_response <- b_last_response, message <- b_message, notes <- b_notes,
  done <- b_done, status <- b_status, answer <- b_answer, round <- b_round

S == INSTANCE CustomerService WITH
  Messages <- Inquiries, runs <- s_runs, printed_history <- s_printed_history,
  input_items <- s_input_items, chat_length <- s_chat_length, status <- s_status,
  runner_input <- s_runner_input, current_agent <- s_current_agent,
  agent <- s_agent, context <- s_context

T == INSTANCE UpdatableTimer WITH
  clock <- t_clock, inbox <- t_inbox, wake_up_time <- t_wake_up_time,
  wake_up_time_updated <- t_wake_up_time_updated, pc <- t_pc, timer <- t_timer,
  sent <- t_sent

Z == INSTANCE SleepForDays WITH
  MaxTime <- MaxDays, MaxLost <- MaxLostMails, is_complete <- z_is_complete,
  pc <- z_pc, timer <- z_timer, clock <- z_clock, rounds <- z_rounds,
  mails <- z_mails, left <- z_left, lost <- z_lost

J == INSTANCE HelloMessages WITH
  MaxTime <- MaxSeconds, name <- j_name, clock <- j_clock, pc <- j_pc,
  timer <- j_timer, inbox <- j_inbox, pending_greetings <- j_pending_greetings,
  greetings <- j_greetings, submitted <- j_submitted, flag <- j_flag,
  value <- j_value, main <- j_main, asked <- j_asked, seen <- j_seen

\* end_chat is no prompt.
EntityConstants == MaxPrompts \in Nat \ {0} /\ End \notin Int

\* exit is no greeting.
MessagesConstants == MaxSeconds \in Nat /\ "exit" \notin Others

DaysConstants == Month \in Nat /\ MaxDays \in Nat /\ MaxLostMails \in Nat

ASSUME ConversationsAssumption ==
  /\ EntityConstants /\ MaxUserPrompts \in Nat \ {0} /\ None \notin Messages
  /\ MaxRuns \in Nat \ {0} /\ MaxTime \in Nat /\ DaysConstants /\ MessagesConstants

\* No prompt of the chats is lost or answered twice, and hello_signal greets whoever
\* submitted a name before the exit.  Only the chat with a timeout, and hello_signal,
\* also keep the order; in the entity prompts may overtake those carried over.
PromptsAreKept == E!NoPromptIsLost /\ Q!PromptsKeepTheirTurn /\ J!GreetsWhoSubmitted

\* No answer is out of date: of the chatbot, of the customer service and its
\* tools, of hello_query.
AnswersFit == B!NoStaleAnswer /\ S!ChatIsCoherent /\ S!FlightIsKnown /\ J!QueriesAreCurrent

\* A timer wakes up when it was last told to; a mail a month until the signal.
SleepFollowsUpdates == T!SleepFollowsUpdates /\ Z!OneMailAMonth

-----------------------------------------------------------------------------
(***************************************************************************)
(* The samples about the worker itself: the interceptors, the executors    *)
(* for a foreign event loop, and the pool of worker processes.             *)
(***************************************************************************)
CONSTANTS
  Users, Nobody, MaxCalls, MaxLostAttempts,    \* of ContextPropagation
  MaxFaults, MaxQueries,                       \* of SentryReports; faults also of Executors
  max_concurrent_workflow_tasks,               \* of Executors
  max_concurrent_activities, Workflows,        \* of Executors; workflows of all
  WorkflowWorkers, ActivityWorkers             \* of Multiprocessing

VARIABLES
  o_user, o_starter, o_calls, o_handled, o_pc, o_context, o_complete, o_header,
  o_activity, o_logged, o_lost,
  r_option, r_pc, r_activity, r_replaying, r_reports, r_retried, r_faults,
  r_queries,
  u_lib, u_loop, u_step, u_call, u_queue, u_orphans, u_faults,
  y_process, y_main, y_broken, y_pc, y_pid, y_told, y_result

O == INSTANCE ContextPropagation WITH
  None <- Nobody, MaxLost <- MaxLostAttempts, user <- o_user, starter <- o_starter,
  calls <- o_calls, handled <- o_handled, pc <- o_pc, context <- o_context,
  complete <- o_complete, header <- o_header, activity <- o_activity,
  logged <- o_logged, lost <- o_lost

R == INSTANCE SentryReports WITH
  option <- r_option, pc <- r_pc, activity <- r_activity, replaying <- r_replaying,
  reports <- r_reports, retried <- r_retried, faults <- r_faults,
  queries <- r_queries

U == INSTANCE Executors WITH
  lib <- u_lib, loop <- u_loop, step <- u_step, call <- u_call, queue <- u_queue,
  orphans <- u_orphans, faults <- u_faults

Y == INSTANCE Multiprocessing WITH
  None <- Nobody, process <- y_process, main <- y_main, broken <- y_broken,
  pc <- y_pc, pid <- y_pid, told <- y_told, result <- y_result

\* The bounds are numbers.
ContextConstants == MaxCalls \in Nat /\ MaxLostAttempts \in Nat
SentryConstants == MaxFaults \in Nat /\ MaxQueries \in Nat

\* There are so many workflows, and the slots and the bound are numbers.
ExecutorConstants ==
  /\ IsFiniteSet(Workflows) /\ MaxFaults \in Nat
  /\ max_concurrent_workflow_tasks \in Nat /\ max_concurrent_activities \in Nat

\* No worker is None.
ProcessConstants == Nobody \notin WorkflowWorkers

ASSUME WorkersAssumption ==
  ContextConstants /\ SentryConstants /\ ExecutorConstants /\ ProcessConstants

\* run, its activity and its handlers each work for the user who called them.
WorksForItsCaller == O!WorksForItsCaller

\* A failure is reported once, replays report nothing.
EachFailureIsReported == R!EachFailureIsReported

\* As many threads as slots are enough for the calls that are not given up.
RoomForEveryCall == U!RoomForEveryCall

\* Main ends after its workers.
MainEndsLast == Y!MainEndsLast

-----------------------------------------------------------------------------
(***************************************************************************)
(* The samples that must not leave anything at work, or on a disk, when    *)
(* they end: the operations, activities and files they began.              *)
(***************************************************************************)
CONSTANTS
  Language,                                    \* of NexusCancel, with None
  MaxLostTries,                                \* of HelloCancellation
  Documents, NoStore                           \* of KnowledgeBase

VARIABLES
  nc_pc, nc_result, nc_pending, nc_task, nc_request, nc_handler,
  fp_pc, fp_files, fp_late, fp_slow, fp_checksum,
  wc_pc, wc_signal, wc_cancel, wc_fn, wc_heartbeat, wc_outcome,
  hc_pc, hc_cancel, hc_never, hc_cleanup, hc_asked, hc_lost,
  kb_pc, kb_i, kb_disk, kb_temp_files, kb_file_ids, kb_stores, kb_workflow_file,
  kb_trouble

NC == INSTANCE NexusCancel WITH
  pc <- nc_pc, result <- nc_result, pending <- nc_pending, task <- nc_task,
  request <- nc_request, handler <- nc_handler

FP == INSTANCE FileProcessing WITH
  pc <- fp_pc, files <- fp_files, late <- fp_late, slow <- fp_slow,
  checksum <- fp_checksum

WC == INSTANCE WaitForCancel WITH
  pc <- wc_pc, signal <- wc_signal, cancel <- wc_cancel, fn <- wc_fn,
  heartbeat <- wc_heartbeat, outcome <- wc_outcome

HC == INSTANCE HelloCancellation WITH
  MaxLost <- MaxLostTries, pc <- hc_pc, cancel <- hc_cancel, never <- hc_never,
  cleanup <- hc_cleanup, asked <- hc_asked, lost <- hc_lost

KB == INSTANCE KnowledgeBase WITH
  pc <- kb_pc, i <- kb_i, disk <- kb_disk, temp_files <- kb_temp_files,
  file_ids <- kb_file_ids, stores <- kb_stores, workflow_file <- kb_workflow_file,
  trouble <- kb_trouble

\* The documents are the items of a dictionary, in its order: each has a name of
\* its own.  A store has a number.
KnowledgeConstants ==
  /\ NoStore \notin Nat \ {0} /\ Documents \in Seq({Documents[n] : n \in DOMAIN Documents})
  /\ \A m, n \in DOMAIN Documents : Documents[m] = Documents[n] => m = n

ASSUME LeftoversAssumption ==
  None \notin Language /\ MaxLostTries \in Nat /\ KnowledgeConstants

\* What was begun for a run does not outlive it: no handler works on for a caller
\* that returned, no file stays behind, no activity ends before it is cancelled
\* or goes on without the clean-up.
WorkIsNotAbandoned ==
  /\ NC!HandlersHearOfIt /\ FP!FileLivesWithItsRun /\ WC!LivesUntilCancelled
  /\ HC!CleansUp /\ KB!FilesAreCleanedUp

-----------------------------------------------------------------------------
(***************************************************************************)
(* The samples that call one activity or agent after the other, or several *)
(* at once, and go on with what they answer.                               *)
(***************************************************************************)
CONSTANTS
  Items, MaxRounds,                            \* of AgentFlows
  MaxLostCalls, MaxCronRuns,                   \* of SimpleWorkflows
  PageSize, num_delay_hour, maximum_attempts,  \* of CloudExport
  MaxFiles, MaxHour, MaxLostPuts               \* of CloudExport

VARIABLES
  af_flow, af_step, af_planned, af_running, af_results, af_search_results,
  af_failed, af_rounds, af_server, af_outcome,
  sw_name, sw_run, sw_stage, sw_at, sw_attempt, sw_lost, sw_outcome,
  ce_exported, ce_unreadable, ce_clock, ce_fired, ce_pc, ce_hour, ce_readers, ce_key,
  ce_attempt, ce_landed, ce_ended, ce_lost

AF == INSTANCE AgentFlows WITH
  flow <- af_flow, step <- af_step, planned <- af_planned, running <- af_running,
  results <- af_results, search_results <- af_search_results, failed <- af_failed,
  rounds <- af_rounds, server <- af_server, outcome <- af_outcome

SW == INSTANCE SimpleWorkflows WITH
  MaxLost <- MaxLostCalls, MaxRuns <- MaxCronRuns, name <- sw_name, run <- sw_run,
  stage <- sw_stage, at <- sw_at, attempt <- sw_attempt, lost <- sw_lost,
  outcome <- sw_outcome

CE == INSTANCE CloudExport WITH
  MaxLost <- MaxLostPuts, exported <- ce_exported, unreadable <- ce_unreadable,
  clock <- ce_clock,
  fired <- ce_fired, pc <- ce_pc, hour <- ce_hour, readers <- ce_readers,
  key <- ce_key, attempt <- ce_attempt, landed <- ce_landed, ended <- ce_ended,
  lost <- ce_lost

\* There are so many searches, and their names are not those of agents.
FlowConstants ==
  /\ IsFiniteSet(Items) /\ Items \cap {"write", "verify", "guardrail"} = {} /\ MaxRounds \in Nat

CallConstants == MaxLostCalls \in Nat /\ MaxCronRuns \in Nat

\* The first hour that is read can be reached, a page has a key, and each attempt
\* is made.
ExportConstants ==
  /\ MaxFiles \in Nat /\ PageSize \in Nat \ {0} /\ MaxHour \in Nat /\ num_delay_hour \in 0..MaxHour
  /\ maximum_attempts \in Nat \ {0} /\ MaxLostPuts \in Nat

ASSUME FlowsAssumption == FlowConstants /\ CallConstants /\ ExportConstants

\* What goes on, and what is returned, rests on every answer that was waited for.
RestsOnAll == AF!RestsOnAll /\ SW!ReturnsWhatWasAnswered /\ CE!EveryFileLands

-----------------------------------------------------------------------------
(***************************************************************************)
(* The samples whose course is set from outside: by new versions of their  *)
(* code, by a tree, by a service that is down, by those who want jobs      *)
(* assigned (the cluster manager, which has runs and theorems of its own). *)
(***************************************************************************)
CONSTANTS
  MaxActivitySignals,                          \* of Versions
  Trees,                                       \* of Dsl
  Nodes, Jobs, Sizes,                          \* of ClusterManager
  Bad, HealthCheck, Shutdown                   \* of ClusterManager, with None

VARIABLES
  v_sample, v_started, v_current, v_history, v_signals, v_conclude, v_pc,
  p_kind, p_attempts, p_stale, p_i, p_pc, p_faults,
  d_root, d_variables, d_scheduled, d_answered, d_returned,
  m_nodes, m_jobs_assigned, m_cluster_started, m_cluster_shutdown, m_runPc,
  m_inbox, m_lockQueue, m_picked, m_runs, m_request, m_status, m_result, m_actual

VE == INSTANCE Versions WITH
  MaxSignals <- MaxActivitySignals, sample <- v_sample, started <- v_started,
  current <- v_current, history <- v_history, signals <- v_signals,
  conclude <- v_conclude, pc <- v_pc

PO == INSTANCE Polling WITH
  kind <- p_kind, attempts <- p_attempts, stale <- p_stale, i <- p_i, pc <- p_pc,
  faults <- p_faults

DT == INSTANCE Dsl WITH
  root <- d_root, variables <- d_variables, scheduled <- d_scheduled,
  answered <- d_answered, returned <- d_returned

CM == INSTANCE ClusterManager WITH
  Calls <- UpdateCalls, nodes <- m_nodes, jobs_assigned <- m_jobs_assigned,
  cluster_started <- m_cluster_started, cluster_shutdown <- m_cluster_shutdown,
  runPc <- m_runPc, inbox <- m_inbox, lockQueue <- m_lockQueue, picked <- m_picked,
  runs <- m_runs, request <- m_request, status <- m_status, result <- m_result,
  actual <- m_actual

\* A tree sets each variable once, and reads what it has set or was given.
TreeConstants == \A t \in Trees : DT!WritesOnce(t) /\ DT!ReadsWhatIsSet(t)

\* As in ClusterManager.
ClusterConstants ==
  /\ Sizes \subseteq Nat /\ IsFiniteSet(Nodes)
  /\ None \notin Jobs /\ Bad \notin Jobs /\ None # Bad
  /\ HealthCheck \notin UpdateCalls /\ Shutdown \notin UpdateCalls

ASSUME CoursesAssumption == MaxActivitySignals \in Nat /\ TreeConstants /\ ClusterConstants

\* Every version that may be asked to replays the history, and every order of
\* answers fills a tree's variables as the activities one at a time do.
VersionsAndOrdersAgree == VE!EveryVersionReplays /\ DT!BranchesDoNotDisturb

-----------------------------------------------------------------------------
\* Every variable of every sample has its type.
TypeOK ==
  /\ G!TypeOK /\ W!TypeOK /\ C!TypeOK /\ K!TypeOK /\ I!TypeOK
  /\ E!TypeOK /\ Q!TypeOK /\ B!TypeOK /\ S!TypeOK /\ T!TypeOK /\ Z!TypeOK /\ J!TypeOK
  /\ O!TypeOK /\ R!TypeOK /\ U!TypeOK /\ Y!TypeOK
  /\ NC!TypeOK /\ FP!TypeOK /\ WC!TypeOK /\ HC!TypeOK /\ KB!TypeOK
  /\ AF!TypeOK /\ SW!TypeOK /\ CE!TypeOK
  /\ VE!TypeOK /\ PO!TypeOK /\ DT!TypeOK /\ CM!TypeOK
=============================================================================
