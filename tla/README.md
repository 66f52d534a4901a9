# Verification of the Temporal Python samples

TLA+ models, TLC checks and TLAPS proofs for the samples of this repository: programs that
show how to write workflows, handlers and activities with the Temporal Python SDK. Each
sample is a small concurrent, durable program of its own. What this project checks is the
samples' own logic; the SDK and the server are modelled only by what the samples rely on
(see *The machine under the samples*).

Paths are relative to the root of the repository. A module's comments and the `map` of
`PROJECT.json` say which lines a definition stands for.

## 1. Inventory

### The samples that hold state and coordinate

**resource_pool** -- a pool workflow hands out named resources to user workflows.
*State*: the pool's `resources` (name -> holder or None), `waiters`, `release_key_to_resource`
(`pool_client/resource_pool_workflow.py:26-43`); in each user a client with
`acquired_resources` (`pool_client/resource_pool_client.py:32`). *Operations*: the signals
`add_resources`, `acquire_resource`, `release_resource`; the pool's loop, which assigns the
next resource and continues as new; the client's `async with acquire_resource`; the user's
two iterations, `detach` and continue-as-new; the operator's signals. *Interaction*: signals
in both directions, by workflow id. *Hard*: the pool awaits its own signal before it records
the holder; users time out, are cancelled, terminated, restarted under the same id; both
sides continue as new. *Correct if*: a resource has one user at a time; the key map is the
inverse of the holders; a resource in use is never free in the books; no waiter is forgotten;
nothing leaks.

**message_passing/safe_message_handlers** -- a cluster manager whose updates assign and
delete nodes. *State*: `ClusterManagerState` (nodes, jobs assigned, started, shut down), the
`nodes_lock`, `sleep_interval_seconds`. *Operations*: `shutdown_cluster`,
`assign_nodes_to_job`, `delete_job`, the health check, the run loop. *Interaction*: handlers
and the loop share the state and suspend in activities while they hold the lock. *Hard*:
interleaving at every await, retried activities, repeated updates, shutdown and
continue-as-new with handlers in flight. *Correct if*: every handler acts as one step, the
books agree with the cluster, repeating an update takes no more nodes, every update is
answered.

**batch_sliding_window** -- a batch is cut into partitions; each is processed by a window
workflow that keeps a bounded number of child workflows at work. *State*: the window's
offset, page, `current_records`, `progress`, `children_started_by_this_run`; the batch's
partitions. *Operations*: get the page, wait for room, start a child, `report_completion`,
continue as new, return. *Interaction*: abandoned children signal the window's workflow id.
*Hard*: reports that come before the start is confirmed, between two runs, or twice;
children of earlier runs; uneven partitions. *Correct if*: each record is processed once,
never more than the window at a time, no report is lost, the batch returns their number.

**message_passing/waiting_for_handlers** and **..._and_compensation** -- how a run waits for
its update handlers before it succeeds, fails or is cancelled, and how handlers decide
between result and compensation. *State*: `workflow_exit`, the compensation flags, the
handlers in flight. *Hard*: the exit, the update's task and the cancellation race, also with
each other's clean-up. *Correct if*: an exit does not abandon handlers; each update has one
of result and compensation; callers are answered.

**message_passing/introduction** -- a greeting workflow with queries, an approve signal, an
update, and an update that calls an activity under a lock. *Correct if*: remote calls come
one at a time, and a language is never set without its greeting.

**message_passing/update_with_start** -- a shopping cart that update-with-start creates.
*Hard*: items are priced concurrently, checkout may come meanwhile, a cart may close and be
created again. *Correct if*: an order is exactly what was added to its cart.

**bedrock**, **langsmith_tracing/chatbot**, **openai_agents/customer_service** --
conversations: prompts come as signals or updates while the model is asked, the history is
summarised and carried over continue-as-new, the chat ends by a signal or a timeout.
*Correct if*: no prompt is lost, reordered or answered twice, no caller gets another's
answer, the printed history is coherent, a chat that is told to end ends.

**updatable_timer** -- a sleep whose end a signal changes. **nexus_cancel** -- operations
that race, the losers are cancelled and waited for. **worker_specific_task_queues** --
download, work and clean-up on one host. **polling** -- three ways to wait for a service.
**custom_decorator** -- heartbeats beside an activity, cancelled by a signal.

**openai_agents** (research, agent patterns, MCP) -- flows of agents: one after the other,
several at a time with or without tolerance for failures, beside a guardrail, until a judge
is content, on a server that keeps state between them. *State*: the runs in progress, what
has answered, the server. *Hard*: answers come in any order, some runs raise, the server is
lost between two steps. *Correct if*: what comes next rests on everything that went before,
and nothing is left running behind a result.

**worker_versioning**, **patching**, **hello_patch** -- a workflow whose code changes while it
runs. *State*: the history of commands and the version deployed. *Hard*: whether a patched
branch is taken depends on what the history holds. *Correct if*: every history replays on
every version that may be asked to.

**hello** -- one feature of the SDK each. About twenty call one activity, child or timer after
the other (or five at once) and return the answers; four take signals, updates or queries
while they sleep or wait; one is cancelled and cleans up. *Hard*: attempts are lost, time out
and are repeated; signals come between two greetings, several at once, or before `run`; a
cancellation meets `run` anywhere. *Correct if*: a result rests on an answer that was given,
to every call that was made, and a failure on attempts that are used up; who submits a name
before the exit is greeted, once and in turn; a query shows the greeting of its time.

**nexus_sync_operations**, **nexus_multiple_args**, **hello_nexus** -- operations that query or
update the greeting workflow, or start a workflow whose id is made of the input. *State*: the
server's record of each start, the workflow behind the service. *Hard*: an operation whose
answer is lost is asked again, and its update has no id; two callers with one input ask for
one workflow id. *Correct if*: the language is set when set_language has answered; one
operation is one run of its workflow.

**dsl** -- an interpreter of trees of activities, sequences and parallel branches over one
dictionary of variables. *Correct if*: branches do not disturb each other: whatever the
interleaving, each activity is called once, in its turn, with the values the tree says.

**sleep_for_days** -- an e-mail a month until a signal. **cloud_export_to_parquet** -- every
hour the files of the hour before are converted, one by one. *Correct if*: at most one mail
a month and none after the end; an hour that was read without failure has every file its first page
lists, and a run fails only on an hour without files, a file it cannot convert, or lost attempts.

**context_propagation**, **sentry** -- interceptors. The first carries the caller's context in
headers to handlers, `run` and activities; the second captures failures, of activities and,
outside replay, of workflows. *Hard*: handlers of other callers run while `run` is suspended;
workflow code runs again on replay. *Correct if*: each call works for its own caller; each
failure is reported once, in the absence of a lost task.

**gevent_async**, **trio_async** -- executors for workers on a foreign event loop.
**worker_multiprocessing** -- a main process and its pools of worker processes. *Hard*: calls
given up while their threads go on; processes that end by an error, by ctrl+c or by death.
*Correct if*: every call the worker's slots admit finds a thread; main ends last, and never
waits for what is gone.

**openai_agents/tools/setup_knowledge_base.py** -- a script that writes, uploads, stores and
cleans up. *Correct if*: nothing is left on the disk, whatever fails.

### The rest

| part | what it is | status |
|---|---|---|
| schedules | each script makes one call to the schedule service of the server, which keeps all the state | not modelled |
| hello_change_log_level | a filter on log records | not modelled |
| encryption, custom_converter, pydantic_converter* | pure conversions between values and payloads, by calls to libraries | not modelled |
| replay | the SDK's own replayer; the histories that versions must replay are those of Versions | not modelled |
| custom_metric, prometheus, open_telemetry, env_config | settings, metrics, traces | not modelled |
| tests | what the samples promise | read, not modelled |

## 2. Modules

| module | models | kind |
|---|---|---|
| ResourceLock | what the pool promises: one user per resource | abstract specification |
| ResourcePool | pool, client, users and operator of resource_pool | component |
| MCResourcePool | the starter's inputs, symmetry | for TLC |
| AtomicCluster | what the cluster manager promises: each operation is one step | abstract specification |
| ClusterManager | the workflow, its clients and the cluster | component |
| MCClusterManager | symmetry | for TLC |
| SlidingWindow | the windows and the record processors | component |
| ProcessBatch | the batch; EXTENDS SlidingWindow and composes its windows | composition |
| BoundedBatch | what the batch promises | abstract specification |
| WaitingForHandlers, HandlersAndCompensation, Greeting, ShoppingCart | the four other samples of message_passing | components |
| BedrockEntity, SignalQueryBedrock, Chatbot, CustomerService | the conversations | components |
| UpdatableTimer, NexusCancel, FileProcessing, Polling, WaitForCancel | the samples named above | components |
| AgentFlows | the flows of agents; a flow is the sequence of its steps, and one set of actions runs them all | component |
| Versions | one execution under the versions of its code; a version is the commands it asks for | component |
| SimpleWorkflows | the samples that call and return; a sample is the record of what it calls and how it may be retried, and one set of actions runs them all | component |
| HelloMessages, HelloCancellation | the samples of hello that take messages or are cancelled, with the client that drives them | components |
| NexusOperations | callers, operations and the workflows behind them; INSTANCEs Greeting, whose updates the operations send | composition |
| Dsl | the interpreter; a tree is its activities, each at the path that leads to it, and one action calls, one answers an activity whose turn it is | component |
| SleepForDays, CloudExport, KnowledgeBase | the samples named above | components |
| ContextPropagation, SentryReports | the interceptors, around the workflow of their sample | components |
| Executors, Multiprocessing | the threads of one worker; the processes of many | components |
| Samples | INSTANCEs the 28 components that do not call each other, with one ASSUME about the constants of each group and the properties that are stated of several at once | instances, for MCSamples and the proofs |
| MCSamples | gives Samples numbers, the trees of the dsl and an action for each sample, and runs the 28 one at a time | for TLC |
| Data_proof | lemmas about queues and about sums over sets and sequences | proofs |
| ResourcePool_proof, ClusterManager_proof | theorems about the component | proofs |
| ProcessBatch_proof | theorems about SlidingWindow, and about ProcessBatch, which runs it | proofs |
| MessagePassing_proof, Conversations_proof, Workers_proof | theorems about the instances of Samples | proofs |
| Flows_proof | theorems about the other instances; EXTENDS the three above and instantiates ClusterManager_proof, so that all 28 meet in it | proofs |

The samples do not call each other, so MCSamples composes nothing: a
behaviour is a behaviour of the one sample named by the variable `sample`, while the others
stay in their initial state. One run of TLC then checks all of them, each with its own
fairness. The batch needs no module of its own for TLC: its cfg gives ProcessBatch numbers.

### How a model corresponds to the code

A workflow is single threaded and gives up control only at an `await`, so **one action is the
code between two awaits**: the `pc` of a run or the `status` of a handler names the await it
is suspended in, and the guard of the next action is the condition it awaits. Signal and
update handlers without an await are one action. An activity is an await that may take any
time; what it does to the world is done in the step in which its result comes back, unless a
property tells the two apart. It does in FileProcessing and in ClusterManager, where an attempt
of an activity changes the cluster (`actual`) for some or all of the nodes it was given, may be
made again after that, and the handler goes on and writes its books only once an attempt has
reached all of them (assumed: attempts are made without limit, and one that was given up acts
no more). A list or dict of the workflow is a variable with the same name. Names, texts, prompts and payloads are numbers or model values; logging,
queries (they only read) and wording are left out.

Operators called *Variant: ...* are versions of the code with a plausible mistake. They are
not part of a specification; `PROJECT.json` lists for each property the variant that breaks it.

### The machine under the samples

What the models take from the SDK and the server, from the way the samples use them:

* Workflow state is durable. A crash of a worker only delays a workflow; an activity attempt
  that dies is retried.
* Messages are entries of the receiver's history and are handled in that order. In one
  workflow task signals and updates are applied before timers, activity results and other
  resolutions; in the first task of a run they are applied even before `run` is entered.
* Conditions that hold at the same moment are resolved together, before any of the coroutines
  that wait for them goes on (this matters in Chatbot).
* A run that would close or continue as new while messages wait to be handled is retried with
  them. Signals by workflow id follow the chain of continue-as-new and reach whichever
  execution has the id at that moment.
* A worker that has a workflow not in its cache replays its history; the code must ask for
  the same commands. `workflow.patched` answers for the whole run what the history says.
* A run of an agent is a chain of activities: it answers or raises.
* `asyncio.Lock` is first come, first served.
* A cancellation is raised once, in the await of `run`. Exceptions that are no failures of
  the SDK make the workflow task fail, and it is retried for ever.
* A workflow id that is in use is refused to a second operation; whether that fails the
  operation or the server asks again is left open.
* Activities run at least once; an attempt that is out of time goes on beside its retry, and
  hears of its cancellation only in the answer to a heartbeat.

## 3. Runs and their bounds

**pool_safety** (2 users, 2 resources of which one is added later, 2 executions per id, 2
runs of the pool, 1 operator step, all failures on). Two users contend for one resource and
for a second one; a second execution under the same id meets the leftovers of the first; the
pool rebuilds its keys once. The theorems remove the bounds for all of these properties.
*TypeOK, MutualExclusion, KeysMatchHolders, ClaimsAreOnTheBooks, WaiterIsQueued,
HolderKeepsResource, ImplementsLock.*

**pool_live** (3 users, 1 execution each, `PromptAck`). NoLeak and WaiterIsServed hold once
the two divergences below are excluded: the pool hears of a delivery before the grantee is
done, and ids are not reused.

**pool_leak_race**, **pool_leak_restart** (violations of NoLeak): see *Divergences*.

**cluster_safety** (3 nodes, 2 jobs, 3 update calls of size 1 or 2, 2 runs). Three calls are
what it takes for two handlers to contend while a third repeats or deletes; sizes 1 and 2 of
3 nodes make both success and failure possible. *TypeOK, NoDoubleAssignment,
BooksMatchCluster, NodesStayInFirstRun, FirstAssignmentIsExact, ImplementsAtomic.* Because a
later run starts the cluster anew with the old books (see *Divergences*), the invariants
about books and cluster are stated of the first run; ImplementsAtomic holds over all of them.
While a handler awaits its activity the cluster runs ahead of the books: BooksMatchCluster
allows that for the nodes this handler picked and the activity has reached, and for no others.
Without the lock (the variant *HoldsOrWaits*) two activities meet on a node, and the books of
one handler say what the activity of the other has undone: all but TypeOK then fail.

**cluster_lost_state** (violation of AssignedNodesStay).

**batch** (5 records, 2 partitions, a window of 3, pages of 2, one child may die, reports
repeated into an inbox of 2). Five records over two partitions and a window of three over two
divide unevenly; the larger partition needs two pages, the second one short. *BatchTypeOK,
WindowHolds, NoReportIsLost, EachRecordCounts, ReturnsWhenAllDone, NeverStartedTwice,
ImplementsBounded, BatchReturns.*

**compensation_stuck** (violation of CallerIsAnswered).

**samples** runs the 28 components that do not call each other, each on its own instance:

* message_passing: 2 updates and every way to exit for the two that wait for handlers; 3 calls
  over known, served and unserved languages; 3 items, of which one is unknown to the price
  service, and 2 carts; for the cluster manager 2 nodes, 2 calls and 2 runs;
* conversations: 6 prompts in the entity chat, so that the continue-as-new limit is passed
  with prompts still queued; 4 in the chat with the timeout; 3 messages for the chatbot, 2 for
  the customer service, of overlapping clients;
* times 0 to 3 and 2 updates of the timer; 3 operations that race; 2 file workflows; 2 faults
  of the poll; up to 3 searches, each of which may raise, and 2 rejections by the judge;
  3 signals before and after each change of version;
* hello: 1 attempt lost (2 beside a cancellation) on top of those the sample makes fail, the
  ten runs of continue-as-new, 2 of the cron; 3 names to greet and a fourth by another client;
* nexus: 2 callers with one input or two, one answer lost, so that an update runs beside its
  repetition;
* interceptors: 2 users whose calls meet in one workflow; a task lost and a query after the
  end, which replay it; executors: 2 workflows on one slot of each kind and 2 faults: a
  call given up is what fills the pool; 2 processes for workflows and 1 for activities;
* three months of mails; two documents; two hours that can be read, of none to three files
  where a page lists two, one file perhaps unreadable, so that hours without files, full pages
  and files that are left out all occur, and 2 attempts of 2 that may be lost.

| property | says |
|---|---|
| PromptsAreKept | no prompt of the chats is lost, and in the one with a timeout they keep their turn; every name submitted before the exit is greeted |
| AnswersFit | no answer of the chatbot is out of date; the history of the customer service is coherent, and a flight is known where its tool needs it; a query shows the greeting of its time |
| RestsOnAll | what goes on, or is returned, rests on everything it awaits: in the flows of agents, in the workflows of one or more calls, over the files an hour's page lists |
| VersionsAndOrdersAgree | every history replays on every version that may be asked to; the variables of a tree of the dsl are the same for every order in which its branches are answered |
| SleepFollowsUpdates | the timer wakes at the time of the last update; a mail a month |
| WorkIsNotAbandoned | losers of the race hear of it; the file goes with its run; the activity lives until it is cancelled; a cancelled run cleans up, the script too |
| HandlersAreAwaited | no exit leaves a handler at work (both samples that wait) |
| ResultOrCompensation, OneFetchAtATime, OrderIsWhatWasAdded | the compensating handlers, the greeting lock, the cart |
| WorksForItsCaller, EachFailureIsReported, RoomForEveryCall, MainEndsLast, OperationsAreRight | the interceptors, the executors, the processes, the operations: one is one run of its workflow, and a language is set when set_language answers |
| SamplesGoOn | the liveness of all 28: everyone is answered and everything ends that should |

Exceptions are part of the statements where the code has them, and are named there: a judge
may reject for ever, so nothing is promised of that flow; a slow attempt of a clean-up may
keep its workflow from closing, and a slow download leaves a file; a lost workflow task
repeats a report; a call given up takes a thread with it; the language said to be the
previous one may be one's own when an answer was lost.

**chat_not_ended**, **chatbot_overwrite** (violations of EndedChatCloses and
AnswersItsOwnMessage). **hello_cancellation** (violation of CleanupWhenComplete).

Deadlock is not checked: every sample ends, and the bounds end the rest.

### Fairness

Weak fairness, of single actions or of the disjunction of alternatives: the worker runs the
code that can go on, the server delivers what was sent, activities that are retried come back,
timers fire, time passes. No fairness for what users and operators may choose to do (send,
cancel, terminate), for failures, crashes and faults. The exceptions stand in the code: the
starter of the two samples that wait for handlers cancels the workflow it started in order to
be cancelled, and main of the hello samples sends its signals, updates and queries one after
the other. No strong fairness is assumed anywhere: locks and queues are first come, first
served.

## 4. Divergences between code and documentation

Each is a run that TLC must find violated; the finding quotes both sides.

1. *pool_leak_race* -- a release that is handled before the pool's own signal call returns is
   ignored, then the holder is recorded: the resource is locked for ever although none of the
   causes the README lists happened.
2. *pool_leak_restart* -- a user that is cancelled or times out while it waits leaves its
   request behind; the next execution with its id is granted twice and releases once.
3. *cluster_lost_state* -- continue-as-new passes the state on, but the next run overwrites
   the nodes it was given.
4. *compensation_stuck* -- a cancellation while a successful run waits for its handlers sets
   an exception on a future that has a result: the workflow task fails for ever.
5. *chat_not_ended* -- end_chat is forgotten by a run about to continue as new.
6. *chatbot_overwrite* -- two updates that wait for one field both pass; one message is lost
   and its caller gets the other's response.
7. *hello_cancellation* -- the clean-up that is to come when the activity is complete is
   scheduled in the task that cancels it, while the activity works until its next heartbeat.

Differences met while modelling that have no run of their own: an update of the cluster
manager queued behind the lock starts after the shutdown (`workflow.py:105`, README.md:5); a
repeated assignment of another size changes nothing, against the comment at `workflow.py:48`;
updates that arrive during a workflow's compensation are neither awaited nor compensated
(`waiting_for_handlers_and_compensation/workflows.py:71`); a known language overtakes the
queue its comment promises (`introduction/workflows.py:96-100`); prompts that arrive between
two runs overtake those carried over (`bedrock/entity/workflows.py:41`); of an hour with more
files than one page of list_objects_v2 the rest is never converted, though the run returns
(`cloud_export_to_parquet/data_trans_activities.py:32-36`); overlapping messages
of the customer service drop each other's input items (`customer_service_workflow.py:117`);
a deletion that exceeded its timeout makes its retries fail for ever, and a late download
leaves a file behind (`worker_specific_task_queues/tasks.py:78,96`), while the constant seed
makes the "unique" queue the same for all workers (`worker.py:22`, README.md); the test
service of polling answers attempt five only, so an answer that goes to an attempt already
given up is the last (`polling/test_service.py:22`); a cancel signal before `run` makes
custom_decorator's workflow fail its tasks for ever (`worker.py:47`); the third version of
hello_patch is registered under the misspelt name "patch-worklow" (`hello_patch.py:70`), so
it cannot replay the runs of the second, which `hello_patch.py:68-69` says it replaces; and
of AutoUpgradingWorkflowV1b (`workflows.py:96-97`) "this branch will never be taken" is not
so: a run that did an activity under V1 takes it from then on, and could not replay without
it (the variant *Unpatched* of Versions fails just there).

## 5. Proofs

Every safety property of section 3 is also a theorem: it holds for all values of the
constants, of which the named ASSUMEs say no more than that bounds are numbers, that markers
(`None`, `Nobody`, a name of an agent) are not data, that sets that are counted are finite,
and that a tree of the dsl sets a variable once and reads what was given or set before, as
both of the sample do. TLC evaluates these ASSUMEs in the runs. The theorems by module, with
the property they state:

| theorem | says |
|---|---|
| *ResourcePool_proof* | |
| TypeCorrect, Exclusion, KeysAndHolders | `Spec => []TypeOK`, `[]MutualExclusion`, `[]KeysMatchHolders` |
| BooksAreTrue | `Spec => [](ClaimsAreOnTheBooks /\ ReleaseIsFinal)` |
| NoWaiterIsForgotten | `Spec => []WaiterIsQueued` |
| NothingLeaks | `Spec => []NoLeak`, under `LeakConditions` |
| HolderKeeps, PoolImplementsLock | HolderKeepsResource, an action property; the refinement of ResourceLock |
| *ClusterManager_proof* | |
| TypeCorrect, BooksAreRight, NoNodeWorksTwice, NodesStay | `Spec => []TypeOK`, `[]BooksMatchCluster`, `[]NoDoubleAssignment`, `[]NodesStayInFirstRun` |
| AssignmentIsExact, ManagerIsAtomic | FirstAssignmentIsExact, an action property; the refinement of AtomicCluster |
| *ProcessBatch_proof* | |
| TypeCorrect, WindowBounds, ReportsAreKept, RecordsAreCountedOnce, WindowReturnsAll | the invariants of SlidingWindow, for any windows |
| StartedOnce | NeverStartedTwice, an action property |
| BatchRunsWindows, BatchKeepsWindows, BatchTypeCorrect | a behaviour of the batch is one of its windows, so that the above hold of it |
| BatchIsBounded | the refinement of BoundedBatch |
| *MessagePassing_proof* | |
| GreetingFetches, ExitWaits, ResultXorCompensation, SuccessWaits, NoHandlerIsLeft, OrdersAreRight, OperationsAreOne | OneFetchAtATime, HandlersAreAwaited, ResultOrCompensation, OrderIsWhatWasAdded, OperationsAreRight |
| *Conversations_proof* | |
| EveryPromptIsKept, PromptsAreAnsweredInTurn, NothingIsForgotten | PromptsAreKept |
| NoAnswerIsStale, ServiceIsCoherent, AnswersFitTheirQuestions | AnswersFit |
| MessagesReachTheResult | the two samples of hello in them |
| SleepIsUpToDate, MailsAreMonthly, TimersFollowTheirSignals | SleepFollowsUpdates |
| *Workers_proof* | |
| EachCallHasItsContext, FailuresAreReported, ThreadsSuffice, MainIsLast | WorksForItsCaller, EachFailureIsReported, RoomForEveryCall, MainEndsLast |
| HandlersHearOfCancellation, FilesLiveWithTheirRuns, ActivityLivesUntilCancelled, CleanupIsDone, FilesAreRemoved, NothingIsAbandoned | WorkIsNotAbandoned |
| *Flows_proof* | |
| FlowsRestOnAll, CallsAreAnswered, FilesLand, WhatGoesOnRestsOnAll | RestsOnAll |
| HistoriesReplay, TreesAreDetermined, CoursesAgree | VersionsAndOrdersAgree |
| PollIsTyped, ClusterIsTyped, EverySampleIsTyped | TypeOK of the samples, all 28 |

A property of several samples is proved of each and put together in one theorem, such as
`AF!Spec /\ SW!Spec /\ CE!Spec => []RestsOnAll`. The theorem about a sample proves its TypeOK
as well; EverySampleIsTyped puts these together. A theorem about a sample is about its
instance in Samples, with constants of which only the ASSUMEs of that module are known. No
two instances share a variable, so that all their specifications can hold of one behaviour.
The instance of ClusterManager is proved about by instantiating the proofs of that module:
its assumption follows from the one of Samples, and its constants and variables are
substituted.

### The inductive invariants

None of the properties is inductive as it stands. Each proof has an invariant of named
parts, one lemma for each action, and under it one step for each part the action can
disturb. Those of the pool, the manager, the windows, the given up calls and the versions
were checked by TLC before they were proved.

*ResourcePool*. MutualExclusion says nothing of grants on their way. `IInv` adds:
*KeysAreOld*, every key anywhere was handed out before `nextKey`, so a new one is new;
*GrantingIsFree*, while assign_resource is suspended its resource has no holder; *Books*,
every live grant -- held, or about to be taken -- is recorded, or is the one being recorded;
*ReleaseIsFinal*, the grant of a release on its way is spent. Two users on one resource would
be two claims on it, both on the books, with one holder. For WaiterIsQueued a request is
followed from the mail into the queue and to the grant (*InMail*, *InQueue*,
*BeingGranted*); the four meet because each step takes a request out of one place into the
next. NoLeak is false of the code in general (*Divergences* 1 and 2). `LeakConditions` --
the pool hears of a delivery before the grantee is done, every workflow id is used once, no
user is terminated -- are what is left when these two causes and the one the sample's README
names are taken away; the run pool_live has such constants. Then `LeakInv` holds: a user's
one request is in one place (*AsksOnce*), and a holder has its grant or a release of it is
on its way (*GrantsReturn*).

*ClusterManager*. Who works is the head of the queue of `nodes_lock`, nobody is in it twice,
and whoever has ended has left it (*LockUsers*); what waits in the mailbox has not begun
(*Mailbox*); before the cluster is started nothing has happened (*BeforeStart*).
From these and the parts about nodes (*PickedIsFree*, *PickedIsOfJob*, *ProbedAreAssigned*):
what a handler picked before its await is still so in the books after it, and in the cluster
when its activity gets to it. *PerformedIsSo*: once the activity has answered, every picked
node is as it was told to be, and stays so until the handler writes that down, which is why
writing the books makes them right, though the cluster changed some steps earlier. In the refinement an
operation takes effect where the handler writes the state.

*SlidingWindow*. The records started are those below a frontier that moves with the page
(*StartedUpToFrontier*); reports are of finished children, and a finished one that is still
waited for has its report in the inbox (*ReportsAreOfDone*); progress and current_records
together count what was started (*WindowBooks*). Repeated reports change nothing because a
record that was counted is no longer in current_records. *ProcessBatch*: the partitions of
an even division, the remainder handed out one by one, cut `0..RecordCount - 1` up; that the
sizes sum up to the number of records, and the windows' results to their number, is proved
by `DividePrefix` and the lemmas about sums.

*Samples*. In each, the auxiliary parts tell where a thing is between two awaits: *LockHeld*,
the fetching call is the head of the lock's queue (Greeting, and the updates of
NexusOperations); *ExitIsKnown*, how `run` came to where it is; *TaskBeforeResult*, a handler
returns only what its task did; *InCartOfNow*, an item being priced is of the open cart;
*Kept*, the places a prompt can be in; *HandedOver*, an update waits for the response to what
the field holds; *LatestIsHandled*, the inbox holds the times the timer has not been told;
*HeadersAreTrue*, a header names who sent it; *AwaitedOnce* and *CallsFit*, which threads a
call occupies (the bound on threads is then a cardinality argument over slots and given up
calls); *OrphansAreFaults*, the threads and wrappers of calls given up are no more than the
faults, which is an argument over finite sets: the step that takes up a new call for a wrapper
maps the given up calls onto themselves, one place up; *ScriptGoesOn*, main has a signal left
as long as it is sending; *FilesInOrder*, *DiskIsKnown*, *UploadIsKnown*, what the script has
listed at each file of its loop; *FlowOrder*, what a flow has planned before its present step;
*CallInv* and *StepInv*, an attempt's number is at most one more than the failures of the
sample and the attempts lost, and steps before the present one are done; *ReadInTime* and
*LandedInTurn*, an hour is read by at most as many runs as the schedule fired since, and each
file the run has not got to has landed less often than the hour was read, the run being
within the page it listed; *TreeInv*, an
activity has its arguments from an answer that nothing overwrites; that what it reads is set
when it is called follows from *Before*.

*Versions*. That a history replays says nothing of the next version. `VersionsInv` therefore
lists, for each sample, the histories an execution can have that began under one version and
is now under another (*PatchingHistory*, *HelloHistory*, *AutoHistory*, *PinnedHistory*): a
history with the activity of before the patch has no marker, one with the marker has it first
and the activities of the patch behind it, at most one for each signal. Each workflow task of
each version leads from one of these histories to one of these, and each of them replays.

### What proving changed

* AgentFlows needs searches that are not named like agents, KnowledgeBase documents with
  different names, ProcessBatch a None that is not a number. The code keeps these apart by
  type or, for documents, by a temporary name; they are now among the ASSUMEs.
* In SentryReports a conjunction with an implication was not bracketed as it was meant.
* Dsl had a recursive interpreter. It is now the set of activities with their places, and
  *Before*, the order that the recursion of `execute_statement` comes down to; this is also
  shorter, and not about two trees only. The proof shows what a tree must be careful about
  (*WritesOnce*, *ReadsWhatIsSet*); the code checks neither. Of the first tree, a variable
  that only the second has (arg3) was removed.
* Versions compares histories position by position, without library operators that the
  prover cannot use.
* HelloMessages bounded the signals main has sent by the clock, which holds only for a clock
  that goes to four; it is now bounded by the script. The name of another client must not be
  the word that ends the workflow.
* A tree could be given to the dsl only in a module for TLC; all 28 samples are instances of
  Samples now.
* The TypeOK of CustomerService did not say that a message at work is among the input items
  of its run, without which nothing can be said of the history it is written to.

### Only model-checked

* Liveness: WaiterIsServed, BatchReturns and SamplesGoOn, and whatever depends on fairness or
  ENABLED; out of the prover's reach.
* The seven divergences, which are violations and need only the counterexample.

## 6. Plan

Done: (1) ResourcePool, (2) ClusterManager, (3) SlidingWindow and ProcessBatch,
(4) message_passing, (5) conversations, (6) single-workflow samples, flows of agents and
versions, (7) Nexus, dsl, sleep_for_days, hello, (8) interceptors, executors, processes, the
export and the knowledge base, (9) the proofs of section 5. What is left of the code is
listed under *The rest*.

What could come next:

* Liveness. SamplesGoOn, WaiterIsServed and BatchReturns need fairness and ENABLED; they stay
  with TLC on small instances. A ranking could be stated and its step proved without them.
* The dsl from the text of a tree: that *Before* is the order of the recursive interpreter for
  trees of any shape is an induction over data.
* The parts listed under *The rest* keep no state of their own, or only pass it on; they would
  come in only if the samples grow.
