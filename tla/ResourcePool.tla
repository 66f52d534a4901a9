---------------------------- MODULE ResourcePool ----------------------------
(***************************************************************************)
(* The resource_pool sample: one ResourcePoolWorkflow, the                 *)
(* ResourcePoolClient embedded in every ResourceUserWorkflow, and the      *)
(* user workflows themselves.                                              *)
(*                                                                         *)
(* A workflow is single threaded and gives up control only at an await, so *)
(* one action is the code between two awaits.  A signal is an entry        *)
(* appended to the receiver's history: the sender's await ends when the    *)
(* server has appended it.  Handlers run in the order of the history, and  *)
(* a workflow sees the signals of a workflow task before the resolutions   *)
(* (timers, activities, external signals) of the same task.  Workflow      *)
(* state is durable, so a worker crash is only a delay.                    *)
(*                                                                         *)
(* Which free resource get_free_resource returns depends on the order of a *)
(* dict (sorted again whenever the pool continues as new); no property     *)
(* depends on it and the model takes any.                                  *)
(***************************************************************************)
EXTENDS Integers, Sequences

CONSTANTS
  Resources,         \* every resource name that may ever be in the pool
  InitialResources,  \* keys of ResourcePoolWorkflowInput.resources at the start
  Users,             \* workflow ids of the ResourceUserWorkflows
  Inputs,            \* the ResourceUserWorkflowInputs a starter may use
  None,              \* Python's None
  MaxStarts,         \* bound: executions started per workflow id
  MaxPoolRuns,       \* bound: runs of the pool workflow (continue-as-new)
  MaxOperatorSteps,  \* bound: signals sent by the operator
  WaitMayTimeOut,    \* max_wait_time may pass, or the user be cancelled
  UserMayTerminate,  \* the operator may terminate a user workflow
  GrantMayFail,      \* signalling a user may fail with an unexpected error
  PromptAck          \* the pool learns that a grant was delivered before
                     \* the grantee has given the resource back

Iterations == {"first", "second"}

\* ResourceUserWorkflowInput.
Input == [iteration_to_fail_after : Iterations \cup {None},
          should_continue_as_new  : BOOLEAN]

\* InternalAcquireRequest once granted; AcquireResponse / AcquiredResource.
Holder == [user : Users, key : Nat]
Grant  == [resource : Resources, key : Nat]

\* The arguments and the fresh key of a suspended assign_resource.
Granting == [resource : Resources, user : Users, key : Nat]

Signal == [type : {"acquire"}, user : Users]
            \cup [type : {"release"}, key : Nat]
            \cup [type : {"add"}, resources : SUBSET Resources]

ASSUME ConstantsAssumption ==
  /\ InitialResources \subseteq Resources
  /\ Inputs \subseteq Input
  /\ {MaxStarts, MaxPoolRuns, MaxOperatorSteps} \subseteq Nat
  /\ {WaitMayTimeOut, UserMayTerminate, GrantMayFail, PromptAck} \subseteq BOOLEAN

ASSUME NoneAssumption ==
  None \notin Resources \cup Holder \cup Grant \cup Granting \cup Input \cup Iterations

VARIABLES
  \* --- the pool workflow
  resources,      \* dict: resource -> holder or None
  waiters,        \* list of the requesters not yet taken up
  keyMap,         \* release_key_to_resource
  poolPc,         \* where the pool's run coroutine is suspended
  granting,       \* locals of assign_resource while it awaits the signal
  nextKey,        \* the next fresh uuid4
  inbox,          \* signals in the pool's history not yet handled
  poolRuns,       \* runs of the pool so far
  \* --- the user workflows
  userPc,         \* where each user is
  input,          \* its ResourceUserWorkflowInput
  held,           \* the AcquiredResource of its `async with`, or None
  acquired,       \* acquired_resources of its ResourcePoolClient
  starts,         \* executions started so far
  operatorSteps   \* signals sent by the operator so far

poolVars == <<resources, waiters, keyMap, poolPc, granting, nextKey, poolRuns>>
userVars == <<userPc, input, held, acquired, starts>>
vars == <<resources, waiters, keyMap, poolPc, granting, nextKey, inbox, poolRuns,
          userPc, input, held, acquired, starts, operatorSteps>>

-----------------------------------------------------------------------------
(* Helpers *)

Running(u) == userPc[u] # "closed"

\* The user is between acquiring and releasing: its activities run here.
InUse(u) == userPc[u] \in Iterations \cup {"releasing"}

\* Variant: a resource that is held may be given away.
AnyResource == DOMAIN resources

FreeResources == {r \in DOMAIN resources : resources[r] = None}

\* Variant: the last waiter is overlooked.
CanAssignOffByOne == Len(waiters) > 1 /\ FreeResources # {}

can_assign_resource == Len(waiters) > 0 /\ FreeResources # {}

\* Variant: the next run starts from an empty map.
NoKeyMap(res) == [k \in {} |-> None]

\* __init__ rebuilds the map from the holders it is given.
RebuiltKeyMap(res) ==
  LET heldNames == {r \in DOMAIN res : res[r] # None}
  IN  [k \in {res[r].key : r \in heldNames} |->
         CHOOSE r \in heldNames : res[r].key = k]

PoolAlive == poolPc # "failed"

Init ==
  /\ resources = [r \in InitialResources |-> None]
  /\ waiters = <<>>
  /\ keyMap = RebuiltKeyMap(resources)
  /\ poolPc = "waiting"
  /\ granting = None
  /\ nextKey = 0
  /\ inbox = <<>>
  /\ poolRuns = 1
  /\ userPc = [u \in Users |-> "closed"]
  /\ input = [u \in Users |-> None]
  /\ held = [u \in Users |-> None]
  /\ acquired = [u \in Users |-> <<>>]
  /\ starts = [u \in Users |-> 0]
  /\ operatorSteps = 0

-----------------------------------------------------------------------------
(* Signal handlers of the pool: none of them awaits, so each is one step.  *)

AddResources(names) ==
  /\ resources' = [r \in DOMAIN resources \cup names |->
                     IF r \in DOMAIN resources THEN resources[r] ELSE None]
  /\ UNCHANGED <<waiters, keyMap>>

\* Variant: a new waiter replaces the others.
AcquireResourceAlone(u) == waiters' = <<u>> /\ UNCHANGED <<resources, keyMap>>

AcquireResource(u) ==
  /\ waiters' = Append(waiters, u)
  /\ UNCHANGED <<resources, keyMap>>

\* An unknown key is ignored; the holder's key is forgotten with the holder.
ReleaseResource(key) ==
  IF key \in DOMAIN keyMap /\ resources[keyMap[key]] # None
  THEN /\ resources' = [resources EXCEPT ![keyMap[key]] = None]
       /\ keyMap' = [k \in DOMAIN keyMap \ {key} |-> keyMap[k]]
       /\ UNCHANGED waiters
  ELSE UNCHANGED <<resources, keyMap, waiters>>

HandleSignal ==
  /\ PoolAlive
  /\ inbox # <<>>
  /\ inbox' = Tail(inbox)
  /\ \/ Head(inbox).type = "add" /\ AddResources(Head(inbox).resources)
     \/ Head(inbox).type = "acquire" /\ AcquireResource(Head(inbox).user)
     \/ Head(inbox).type = "release" /\ ReleaseResource(Head(inbox).key)
  /\ UNCHANGED <<poolPc, granting, nextKey, poolRuns, userVars, operatorSteps>>

-----------------------------------------------------------------------------
(* The run loop of the pool.                                               *)

\* assign_next_resource up to the await in assign_resource: the waiter is
\* popped, but the holder is recorded only after the await.
AssignNextResource ==
  /\ poolPc = "waiting"
  /\ can_assign_resource
  /\ \E r \in FreeResources :
       granting' = [resource |-> r, user |-> Head(waiters), key |-> nextKey]
  /\ waiters' = Tail(waiters)
  /\ nextKey' = nextKey + 1
  /\ poolPc' = "signalling"
  /\ UNCHANGED <<resources, keyMap, inbox, poolRuns, userVars, operatorSteps>>

\* The server appends the grant to the history of the execution that now has
\* the requester's workflow id, whichever execution sent the request;
\* _handle_acquire_response puts it in that execution's list.
DeliverGrant ==
  /\ poolPc = "signalling"
  /\ Running(granting.user)
  /\ acquired' = [acquired EXCEPT ![granting.user] =
                    Append(@, [resource |-> granting.resource, key |-> granting.key])]
  /\ poolPc' = "signalled"
  /\ UNCHANGED <<resources, waiters, keyMap, granting, nextKey, inbox, poolRuns,
                 userPc, input, held, starts, operatorSteps>>

\* The await returns: only now is the holder recorded.
RecordHolder ==
  /\ poolPc = "signalled"
  /\ resources' = [resources EXCEPT ![granting.resource] =
                     [user |-> granting.user, key |-> granting.key]]
  /\ keyMap' = [k \in DOMAIN keyMap \cup {granting.key} |->
                  IF k = granting.key THEN granting.resource ELSE keyMap[k]]
  /\ poolPc' = "waiting"
  /\ granting' = None
  /\ UNCHANGED <<waiters, nextKey, inbox, poolRuns, userVars, operatorSteps>>

\* ExternalWorkflowExecutionNotFound: the request is dropped.
GrantNotFound ==
  /\ poolPc = "signalling"
  /\ ~Running(granting.user)
  /\ poolPc' = "waiting"
  /\ granting' = None
  /\ UNCHANGED <<resources, waiters, keyMap, nextKey, inbox, poolRuns, userVars,
                 operatorSteps>>

\* Any other ApplicationError is raised again and fails the pool workflow.
GrantFails ==
  /\ GrantMayFail
  /\ poolPc = "signalling"
  /\ poolPc' = "failed"
  /\ granting' = None
  /\ UNCHANGED <<resources, waiters, keyMap, nextKey, inbox, poolRuns, userVars,
                 operatorSteps>>

\* The server refuses to close a run that has unhandled signals, and the
\* handlers never await, so all_handlers_finished() holds at every await.
ContinueAsNew ==
  /\ poolPc = "waiting"
  /\ ~can_assign_resource
  /\ inbox = <<>>
  /\ poolRuns < MaxPoolRuns
  /\ poolRuns' = poolRuns + 1
  /\ keyMap' = RebuiltKeyMap(resources)
  /\ UNCHANGED <<resources, waiters, poolPc, granting, nextKey, inbox, userVars,
                 operatorSteps>>

-----------------------------------------------------------------------------
(* The user workflow and the client inside it.                             *)

\* start_workflow, then acquire_resource up to the wait_condition.
StartUser(u) ==
  /\ PoolAlive
  /\ userPc[u] = "closed"
  /\ starts[u] < MaxStarts
  /\ starts' = [starts EXCEPT ![u] = @ + 1]
  /\ \E i \in Inputs : input' = [input EXCEPT ![u] = i]
  /\ acquired' = [acquired EXCEPT ![u] = <<>>]
  /\ userPc' = [userPc EXCEPT ![u] = "waiting"]
  /\ inbox' = Append(inbox, [type |-> "acquire", user |-> u])
  /\ UNCHANGED <<poolVars, held, operatorSteps>>

\* wait_condition is over: pop the first acquired resource and enter the body.
TakeGrant(u) ==
  /\ userPc[u] = "waiting"
  /\ acquired[u] # <<>>
  /\ held' = [held EXCEPT ![u] = Head(acquired[u])]
  /\ acquired' = [acquired EXCEPT ![u] = Tail(@)]
  /\ userPc' = [userPc EXCEPT ![u] = "first"]
  /\ UNCHANGED <<poolVars, inbox, input, starts, operatorSteps>>

\* Variant: a timeout does not raise, and the body runs without a resource.
GiveUpEnters(u) ==
  /\ WaitMayTimeOut
  /\ userPc[u] = "waiting"
  /\ acquired[u] = <<>>
  /\ userPc' = [userPc EXCEPT ![u] = "first"]
  /\ UNCHANGED <<poolVars, inbox, input, held, acquired, starts, operatorSteps>>

\* max_wait_time passes, or the workflow is cancelled, before the `try`: the
\* workflow closes and its request stays with the pool.  A grant in the same
\* workflow task is applied first, so it wins.
GiveUp(u) ==
  /\ WaitMayTimeOut
  /\ userPc[u] = "waiting"
  /\ acquired[u] = <<>>
  /\ userPc' = [userPc EXCEPT ![u] = "closed"]
  /\ UNCHANGED <<poolVars, inbox, input, held, acquired, starts, operatorSteps>>

\* Variant: detach() does not prevent the release in the finally block.
FinishActivityNoDetach(u) ==
  /\ userPc[u] \in Iterations
  /\ userPc' = [userPc EXCEPT ![u] = IF @ = "first" THEN "second" ELSE "first"]
  /\ inbox' = IF userPc[u] = "second"
              THEN Append(inbox, [type |-> "release", key |-> held[u].key])
              ELSE inbox
  /\ UNCHANGED <<poolVars, input, held, acquired, starts, operatorSteps>>

\* use_resource of the current iteration returns (it is retried until it does).
FinishActivity(u) ==
  /\ userPc[u] \in Iterations
  /\ LET fails == input[u].iteration_to_fail_after = userPc[u]
         again == userPc[u] = "second" /\ input[u].should_continue_as_new
     IN  \/ /\ fails
            /\ userPc' = [userPc EXCEPT ![u] = "releasing"]
            /\ UNCHANGED <<input, acquired>>
         \/ /\ ~fails /\ userPc[u] = "first"
            /\ userPc' = [userPc EXCEPT ![u] = "second"]
            /\ UNCHANGED <<input, acquired>>
         \/ \* detach and continue as new; the next run reattaches
            /\ ~fails /\ again
            /\ userPc' = [userPc EXCEPT ![u] = "first"]
            /\ input' = [input EXCEPT ![u].should_continue_as_new = FALSE]
            /\ acquired' = [acquired EXCEPT ![u] = <<>>]
         \/ /\ ~fails /\ userPc[u] = "second" /\ ~again
            /\ userPc' = [userPc EXCEPT ![u] = "releasing"]
            /\ UNCHANGED <<input, acquired>>
  /\ UNCHANGED <<poolVars, inbox, held, starts, operatorSteps>>

\* Cancellation inside the `async with` runs the finally block.
CancelUse(u) ==
  /\ WaitMayTimeOut
  /\ userPc[u] \in Iterations
  /\ userPc' = [userPc EXCEPT ![u] = "releasing"]
  /\ UNCHANGED <<poolVars, inbox, input, held, acquired, starts, operatorSteps>>

\* The finally block: the release signal reaches the pool (or finds it
\* closed) and the workflow closes.
Release(u) ==
  /\ userPc[u] = "releasing"
  /\ PromptAck /\ poolPc = "signalled" => granting.key # held[u].key
  /\ inbox' = IF PoolAlive
              THEN Append(inbox, [type |-> "release", key |-> held[u].key])
              ELSE inbox
  /\ userPc' = [userPc EXCEPT ![u] = "closed"]
  /\ held' = [held EXCEPT ![u] = None]
  /\ UNCHANGED <<poolVars, input, acquired, starts, operatorSteps>>

-----------------------------------------------------------------------------
(* The operator.                                                           *)

TerminateUser(u) ==
  /\ UserMayTerminate
  /\ Running(u)
  /\ userPc' = [userPc EXCEPT ![u] = "closed"]
  /\ held' = [held EXCEPT ![u] = None]
  /\ UNCHANGED <<poolVars, inbox, input, acquired, starts, operatorSteps>>

OperatorAdds(names) ==
  /\ PoolAlive
  /\ operatorSteps < MaxOperatorSteps
  /\ operatorSteps' = operatorSteps + 1
  /\ inbox' = Append(inbox, [type |-> "add", resources |-> names])
  /\ UNCHANGED <<poolVars, userVars>>

\* README: release, with the key the query shows, what a closed user leaked.
OperatorReleases(r) ==
  /\ PoolAlive
  /\ operatorSteps < MaxOperatorSteps
  /\ r \in DOMAIN resources
  /\ resources[r] # None
  /\ ~Running(resources[r].user)
  /\ operatorSteps' = operatorSteps + 1
  /\ inbox' = Append(inbox, [type |-> "release", key |-> resources[r].key])
  /\ UNCHANGED <<poolVars, userVars>>

-----------------------------------------------------------------------------
PoolStep == HandleSignal \/ AssignNextResource \/ DeliverGrant \/ RecordHolder
              \/ GrantNotFound \/ GrantFails \/ ContinueAsNew

UserStep(u) == \/ StartUser(u) \/ TakeGrant(u) \/ GiveUp(u) \/ FinishActivity(u)
               \/ CancelUse(u) \/ Release(u) \/ TerminateUser(u)

OperatorStep == \/ \E names \in SUBSET Resources : OperatorAdds(names)
                \/ \E r \in Resources : OperatorReleases(r)

Next == PoolStep \/ (\E u \in Users : UserStep(u)) \/ OperatorStep

Spec == Init /\ [][Next]_vars

\* Workers poll for tasks and the server retries deliveries, so everything
\* but the starter, the failures and the operator eventually happens.
Fairness ==
  /\ WF_vars(HandleSignal)
  /\ WF_vars(AssignNextResource)
  /\ WF_vars(DeliverGrant \/ GrantNotFound)
  /\ WF_vars(RecordHolder)
  /\ \A u \in Users : /\ WF_vars(TakeGrant(u))
                      /\ WF_vars(FinishActivity(u))
                      /\ WF_vars(Release(u))

FairSpec == Spec /\ Fairness

-----------------------------------------------------------------------------
(* Properties *)

\* Every variable has its type; assign_resource has locals exactly while it
\* is suspended, and a workflow inside its `async with` has a resource (the
\* "Can't happen" of resource_pool_client.py:74-76).
TypeOK ==
  /\ DOMAIN resources \subseteq Resources
  /\ resources \in [DOMAIN resources -> Holder \cup {None}]
  /\ waiters \in Seq(Users)
  /\ DOMAIN keyMap \subseteq Nat
  /\ keyMap \in [DOMAIN keyMap -> DOMAIN resources]
  /\ poolPc \in {"waiting", "signalling", "signalled", "failed"}
  /\ granting \in Granting \cup {None}
  /\ granting # None => granting.resource \in DOMAIN resources
  /\ (poolPc \in {"signalling", "signalled"}) <=> (granting # None)
  /\ nextKey \in Nat
  /\ inbox \in Seq(Signal)
  /\ poolRuns \in Nat
  /\ userPc \in [Users -> {"closed", "waiting", "releasing"} \cup Iterations]
  /\ input \in [Users -> Input \cup {None}]
  /\ held \in [Users -> Grant \cup {None}]
  /\ acquired \in [Users -> Seq(Grant)]
  /\ starts \in [Users -> Nat]
  /\ operatorSteps \in Nat
  /\ \A u \in Users : /\ InUse(u) <=> held[u] # None
                      /\ Running(u) => input[u] # None

\* No two workflows run their activities on the same resource, whatever is
\* delayed, cancelled, terminated or continued as new in between
\* (tests/resource_pool/workflow_test.py:62).
MutualExclusion ==
  \A u, v \in Users :
    u # v /\ InUse(u) /\ InUse(v) => held[u].resource # held[v].resource

\* release_key_to_resource is the inverse of the holders at every moment, also
\* just after the pool has rebuilt it: each holder can be released by its own
\* key, and by no other.
KeysMatchHolders ==
  /\ \A k \in DOMAIN keyMap :
       resources[keyMap[k]] # None /\ resources[keyMap[k]].key = k
  /\ \A r \in DOMAIN resources :
       resources[r] # None =>
         resources[r].key \in DOMAIN keyMap /\ keyMap[resources[r].key] = r

\* A grant that u may still run on: the one of its `async with`, or one that
\* wait_condition is about to take.
Claims(u, r, k) ==
  \/ InUse(u) /\ held[u].resource = r /\ held[u].key = k
  \/ userPc[u] = "waiting" /\ \E i \in DOMAIN acquired[u] :
       acquired[u][i].resource = r /\ acquired[u][i].key = k

OnTheBooks(u, r, k) ==
  \/ r \in DOMAIN resources /\ resources[r] = [user |-> u, key |-> k]
  \/ poolPc = "signalled" /\ granting = [resource |-> r, user |-> u, key |-> k]

\* A resource somebody may run on is never free in the pool's books: the pool
\* holds it for that very grant, or is suspended before recording that grant.
ClaimsAreOnTheBooks ==
  \A u \in Users, r \in Resources, k \in 0 .. nextKey :
    Claims(u, r, k) => OnTheBooks(u, r, k)

\* Nobody runs on grant k, nor will.
Spent(k) == /\ \A u \in Users, r \in Resources : ~Claims(u, r, k)
            /\ poolPc = "signalling" => granting.key # k

\* A release signal on its way to the pool is final: its grant is spent, so
\* the pool may free the resource however late the signal arrives.
ReleaseIsFinal ==
  \A i \in DOMAIN inbox : inbox[i].type = "release" => Spent(inbox[i].key)

\* A workflow that waits for a resource is not forgotten: its request is on
\* its way to the pool, in the queue, being granted, or granted.
WaiterIsQueued ==
  \A u \in Users : userPc[u] = "waiting" /\ PoolAlive =>
    \/ \E i \in DOMAIN inbox : inbox[i].type = "acquire" /\ inbox[i].user = u
    \/ \E i \in DOMAIN waiters : waiters[i] = u
    \/ poolPc = "signalling" /\ granting.user = u
    \/ acquired[u] # <<>>

\* Once nothing is running or under way, every resource of the pool is free
\* again (the query at the end of workflow_test.py:72-79, and README.md:34-40:
\* a resource stays locked only if a user times out, is terminated, or the
\* workers stop for good).
Quiet == /\ poolPc = "waiting" /\ inbox = <<>> /\ ~can_assign_resource
         /\ \A u \in Users : ~Running(u)
NoLeak == Quiet => \A r \in DOMAIN resources : resources[r] = None

\* The pool takes a resource from its holder only when the holder has left its
\* `async with`, also when holder or pool continue as new meanwhile.
HolderKeepsResource ==
  [][\A r \in DOMAIN resources :
       resources[r] # None /\ resources'[r] # resources[r] =>
         ~(InUse(resources[r].user) /\ held[resources[r].user].key = resources[r].key)
    ]_vars

\* A workflow that waits for a resource gets one, if it does not give up.
WaiterIsServed ==
  \A u \in Users : userPc[u] = "waiting" ~> userPc[u] # "waiting"

\* The pool implements the lock: a user uses a resource from the moment it
\* leaves wait_condition until its release signal is sent.
Lock == INSTANCE ResourceLock WITH
          uses <- [u \in Users |-> IF InUse(u) THEN held[u].resource ELSE None]
ImplementsLock == Lock!Spec
=============================================================================
