-------------------------- MODULE MessagePassing_proof --------------------------
(***************************************************************************)
(* Proofs about the samples of message_passing that wait for one another's *)
(* handlers (Greeting, WaitingForHandlers, HandlersAndCompensation,        *)
(* ShoppingCart) and about the nexus operations (NexusOperations), for     *)
(* every set of calls, updates, requests and callers.                      *)
(***************************************************************************)
EXTENDS Samples, Data_proof

-----------------------------------------------------------------------------
(* Greeting *)

\* The queue q of a lock holds, once, whoever of D waits for it or has it; who
\* fetches is at its head.
LockHeld(D, q, st) ==
  /\ q \in Seq(D) /\ Once(q)
  /\ \A c \in D : In(c, q) <=> st[c] \in {"queued", "fetching"}
  /\ \A c \in D : st[c] = "fetching" => Head(q) = c

\* Nobody waits, ...
LEMMA LockIsFree ==
  ASSUME NEW D, NEW q, NEW st, q = <<>>, \A c \in D : st[c] = "unsent"
  PROVE  LockHeld(D, q, st)
BY DEF LockHeld, In, Once

\* ... someone joins the queue, ...
LEMMA LockAskedFor ==
  ASSUME NEW D, NEW q, NEW st, LockHeld(D, q, st), NEW c \in D, st[c] = "unsent",
         NEW X, st \in [D -> X], NEW q2, q2 = Append(q, c),
         NEW st2, st2 = [st EXCEPT ![c] = "queued"]
  PROVE  LockHeld(D, q2, st2)
<1>1. ~In(c, q) /\ q \in Seq(D) /\ Once(q)
  BY DEF LockHeld
<1>2. /\ q2 \in Seq(D) /\ Once(q2)
      /\ \A d : In(d, q2) <=> In(d, q) \/ d = c
      /\ q # <<>> => Head(q2) = Head(q)
  BY <1>1, Appended
<1>3. st2[c] = "queued" /\ \A d \in D : d # c => st2[d] = st[d]
  OBVIOUS
<1>4. \A d \in D : st2[d] = "fetching" => Head(q2) = d
  BY <1>2, <1>3 DEF In, LockHeld
<1> QED
  BY <1>2, <1>3, <1>4 DEF LockHeld

\* ... its head gets the lock, or someone is done who never asked for it, ...
LEMMA LockIsKept ==
  ASSUME NEW D, NEW q, NEW st, LockHeld(D, q, st), NEW c \in D, NEW X, st \in [D -> X],
         NEW st2, \/ st[c] = "queued" /\ Head(q) = c /\ st2 = [st EXCEPT ![c] = "fetching"]
                  \/ st[c] = "unsent" /\ st2 = [st EXCEPT ![c] = "done"]
  PROVE  LockHeld(D, q, st2)
<1>1. CASE st[c] = "queued" /\ Head(q) = c /\ st2 = [st EXCEPT ![c] = "fetching"]
  BY <1>1 DEF LockHeld
<1>2. CASE st[c] = "unsent" /\ st2 = [st EXCEPT ![c] = "done"]
  BY <1>2 DEF LockHeld
<1> QED
  BY <1>1, <1>2

\* ... and gives it back.
LEMMA LockGivenBack ==
  ASSUME NEW D, NEW q, NEW st, LockHeld(D, q, st), NEW c \in D, st[c] = "fetching",
         NEW X, st \in [D -> X], NEW q2, q2 = Tail(q),
         NEW x \in {"done", "failed"}, NEW st2, st2 = [st EXCEPT ![c] = x]
  PROVE  LockHeld(D, q2, st2)
<1>1. q \in Seq(D) /\ Once(q) /\ q # <<>> /\ Head(q) = c
  BY DEF LockHeld, In
<1>2. q2 \in Seq(D) /\ Once(q2) /\ \A d : In(d, q2) <=> In(d, q) /\ d # c
  BY <1>1, Removed
<1>3. st2[c] \in {"done", "failed"} /\ \A d \in D : d # c => st2[d] = st[d]
  OBVIOUS
<1>4. \A d \in D : st2[d] # "fetching"
  BY <1>1, <1>3 DEF LockHeld
<1> QED
  BY <1>2, <1>3, <1>4 DEF LockHeld

GreetingInv == G!TypeOK /\ LockHeld(Calls, g_lockQueue, g_status)

\* Types are kept, and so is the order of the queue.
LEMMA GreetingStep == GreetingConstants /\ GreetingInv /\ [G!Next]_(G!vars) => GreetingInv'
<1> SUFFICES ASSUME GreetingConstants, GreetingInv, [G!Next]_(G!vars)
             PROVE  GreetingInv'
  OBVIOUS
<1> DEFINE States == {"unsent", "queued", "fetching", "done", "failed"}
<1>0. /\ G!TypeOK /\ g_status \in [Calls -> States] /\ LockHeld(Calls, g_lockQueue, g_status)
      /\ g_lockQueue \in Seq(Calls)
  BY DEF GreetingInv, G!TypeOK
<1> SUFFICES /\ LockHeld(Calls, g_lockQueue', g_status')
             /\ g_lockQueue' \in Seq(Calls) => G!TypeOK'
  BY DEF GreetingInv, LockHeld
<1>1. CASE UNCHANGED G!vars
  BY <1>0, <1>1 DEF G!vars, G!TypeOK
<1>2. CASE G!Approve \/ G!Return
  BY <1>0, <1>2 DEF G!Approve, G!Return, G!TypeOK
<1>3. ASSUME NEW c \in Calls, NEW l \in Languages, G!SetKnown(c, l)
      PROVE  LockHeld(Calls, g_lockQueue', g_status') /\ (g_lockQueue' \in Seq(Calls) => G!TypeOK')
  <2>1. LockHeld(Calls, g_lockQueue, g_status')
    BY <1>0, <1>3, LockIsKept DEF G!SetKnown
  <2> QED
    BY <1>0, <1>3, <2>1 DEF G!SetKnown, G!TypeOK
<1>4. ASSUME NEW c \in Calls, NEW l \in Languages, G!Enqueue(c, l)
      PROVE  LockHeld(Calls, g_lockQueue', g_status') /\ (g_lockQueue' \in Seq(Calls) => G!TypeOK')
  <2>1. LockHeld(Calls, g_lockQueue', g_status')
    BY <1>0, <1>4, LockAskedFor DEF G!Enqueue
  <2> QED
    BY <1>0, <1>4, <2>1 DEF G!Enqueue, G!TypeOK
<1>5. ASSUME NEW c \in Calls, G!Fetch(c)
      PROVE  LockHeld(Calls, g_lockQueue', g_status') /\ (g_lockQueue' \in Seq(Calls) => G!TypeOK')
  <2>1. LockHeld(Calls, g_lockQueue, g_status')
    BY <1>0, <1>5, LockIsKept DEF G!Fetch, G!Holds
  <2> QED
    BY <1>0, <1>5, <2>1 DEF G!Fetch, G!TypeOK
<1>6. ASSUME NEW c \in Calls, G!FetchedNothing(c) \/ G!Fetched(c)
      PROVE  LockHeld(Calls, g_lockQueue', g_status') /\ (g_lockQueue' \in Seq(Calls) => G!TypeOK')
  <2>1. LockHeld(Calls, g_lockQueue', g_status')
    BY <1>0, <1>6, LockGivenBack DEF G!FetchedNothing, G!Fetched
  <2>2. g_lockQueue' \in Seq(Calls) => G!TypeOK'
    BY <1>0, <1>6 DEF G!FetchedNothing, G!Fetched, G!TypeOK
  <2> QED
    BY <2>1, <2>2
<1> QED
  BY <1>1, <1>2, <1>3, <1>4, <1>5, <1>6 DEF G!Next, G!CallStep

\* At most one call of the greeting workflow is at the remote service
\* (workflows.py:97-99), and the workflow can greet in the language it is set to.
THEOREM GreetingFetches == G!Spec => [](G!TypeOK /\ OneFetchAtATime)
<1>0. GreetingConstants
  BY MessagePassingAssumption
<1> USE <1>0
<1>1. G!Init => GreetingInv
  <2> SUFFICES ASSUME G!Init PROVE GreetingInv
    OBVIOUS
  <2>1. G!TypeOK
    <3>1. <<>> \in Seq(Calls) /\ English \in Languages /\ English \in Known /\ Known \subseteq Languages
      BY DEF GreetingConstants
    <3>2. /\ g_asked \in [Calls -> Languages]
          /\ g_status \in [Calls -> {"unsent", "queued", "fetching", "done", "failed"}]
      BY <3>1 DEF G!Init
    <3> QED
      BY <3>1, <3>2 DEF G!Init, G!TypeOK
  <2>2. LockHeld(Calls, g_lockQueue, g_status)
    BY LockIsFree DEF G!Init
  <2> QED
    BY <2>1, <2>2 DEF GreetingInv
<1>2. GreetingInv => G!TypeOK /\ OneFetchAtATime
  BY DEF OneFetchAtATime, GreetingInv, LockHeld, G!OneFetchAtATime
<1> QED
  BY <1>1, <1>2, GreetingStep, PTL DEF G!Spec

-----------------------------------------------------------------------------
(* WaitingForHandlers *)

\* How run came to where it is, and that only a run that has closed has an
\* outcome: without this a handler could start behind the exit.
ExitIsKnown ==
  /\ w_pc = "leaving" => w_exit_type = "SUCCESS"
  /\ w_pc = "failing" /\ w_cancel # "raised" => w_exit_type = "FAILURE"
  /\ w_outcome # "none" => w_pc = "closed"

WaitingInv == W!TypeOK /\ ExitIsKnown /\ W!ExitWaitsForHandlers

\* Each step keeps the invariant.
LEMMA WaitingStep == KnownExits /\ WaitingInv /\ [W!Next]_(W!vars) => WaitingInv'
<1> SUFFICES ASSUME KnownExits, WaitingInv, [W!Next]_(W!vars)
             PROVE  WaitingInv'
  OBVIOUS
<1> USE DEF KnownExits, WaitingInv, W!TypeOK, ExitIsKnown, W!ExitWaitsForHandlers, W!Open
<1>1. CASE UNCHANGED W!vars
  BY <1>1 DEF W!vars
<1>2. CASE W!Proceed
  BY <1>2 DEF W!Proceed
<1>3. CASE W!Cancel
  BY <1>3 DEF W!Cancel
<1>4. CASE W!Interrupt
  BY <1>4 DEF W!Interrupt
<1>5. CASE W!Exit
  BY <1>5 DEF W!Exit, W!all_handlers_finished
<1>6. CASE W!RequestCancel
  BY <1>6 DEF W!RequestCancel
<1>7. ASSUME NEW u \in UpdateCalls, W!SendUpdate(u) PROVE WaitingInv'
  BY <1>7 DEF W!SendUpdate
<1>8. ASSUME NEW u \in UpdateCalls, W!HandleUpdate(u) PROVE WaitingInv'
  BY <1>8 DEF W!HandleUpdate
<1>9. ASSUME NEW u \in UpdateCalls, W!FinishUpdate(u) PROVE WaitingInv'
  BY <1>9 DEF W!FinishUpdate
<1> QED
  BY <1>1, <1>2, <1>3, <1>4, <1>5, <1>6, <1>7, <1>8, <1>9
  DEF W!Next, W!RunStep, W!UpdateStep

\* Whether the run succeeds, fails or is cancelled, it closes only when every
\* handler that has started has returned; the one exception is a cancellation
\* that interrupts the wait itself (waiting_for_handlers/workflows.py:47-61).
THEOREM ExitWaits == W!Spec => [](W!TypeOK /\ W!ExitWaitsForHandlers)
<1>0. KnownExits
  BY MessagePassingAssumption
<1> USE <1>0
<1>1. W!Init => WaitingInv
  BY DEF W!Init, WaitingInv, W!TypeOK, ExitIsKnown, W!ExitWaitsForHandlers
<1>2. WaitingInv => W!TypeOK /\ W!ExitWaitsForHandlers
  BY DEF WaitingInv
<1> QED
  BY <1>1, <1>2, WaitingStep, PTL DEF W!Spec

-----------------------------------------------------------------------------
(* HandlersAndCompensation *)

\* A task is done when its activity was performed, a handler returns when its
\* task is done; only one that failed is compensated, and it begins to fail when
\* the run exits by an exception.
TaskBeforeResult ==
  \A u \in UpdateCalls :
    /\ c_task[u] = "done" => c_effect[u]
    /\ c_handler[u] = "returned" => c_task[u] = "done"
    /\ c_undone[u] <=> c_handler[u] = "failed"
    /\ c_handler[u] \in {"compensating", "failed"} => c_workflow_exit = "exception"

\* A run that leaves to succeed has told its handlers so, for good.
LeavesWithResult ==
  c_pc = "leaving" \/ c_outcome = "completed" => c_workflow_exit = "result"

CompensationInv ==
  C!TypeOK /\ TaskBeforeResult /\ LeavesWithResult /\ C!SuccessWaitsForHandlers

\* Each step keeps the invariant.
LEMMA CompensationStep == CompensationInv /\ [C!Next]_(C!vars) => CompensationInv'
<1> SUFFICES ASSUME CompensationInv, [C!Next]_(C!vars)
             PROVE  CompensationInv'
  OBVIOUS
<1> USE DEF CompensationInv, C!TypeOK, TaskBeforeResult, LeavesWithResult,
            C!SuccessWaitsForHandlers, C!Open, C!Live, C!handlerVars, C!flags
<1>1. CASE UNCHANGED C!vars
  BY <1>1 DEF C!vars
<1>2. CASE C!RequestCancel
  BY <1>2 DEF C!RequestCancel
<1>3. CASE C!ExitSuccess
  BY <1>3 DEF C!ExitSuccess
<1>4. CASE C!ExitFailure
  BY <1>4 DEF C!ExitFailure
<1>5. CASE C!BlockForever
  BY <1>5 DEF C!BlockForever
<1>6. CASE C!CancelLogic
  BY <1>6 DEF C!CancelLogic
<1>7. CASE C!CancelLeaving
  BY <1>7 DEF C!CancelLeaving
<1>8. CASE C!CancelExit
  BY <1>8 DEF C!CancelExit
<1>9. CASE C!Return
  BY <1>9 DEF C!Return, C!all_handlers_finished, C!Active
<1>10. CASE C!StartCompensation
  BY <1>10 DEF C!StartCompensation
<1>11. CASE C!Compensated
  BY <1>11 DEF C!Compensated
<1>12. ASSUME NEW u \in UpdateCalls, C!SendUpdate(u) PROVE CompensationInv'
  BY <1>12 DEF C!SendUpdate
<1>13. ASSUME NEW u \in UpdateCalls, C!PerformActivity(u) PROVE CompensationInv'
  BY <1>13 DEF C!PerformActivity
<1>14. ASSUME NEW u \in UpdateCalls, C!HandleUpdate(u) PROVE CompensationInv'
  BY <1>14 DEF C!HandleUpdate
<1>15. ASSUME NEW u \in UpdateCalls, C!FinishTask(u) PROVE CompensationInv'
  BY <1>15 DEF C!FinishTask
<1>16. ASSUME NEW u \in UpdateCalls, C!ReturnUpdate(u) PROVE CompensationInv'
  BY <1>16 DEF C!ReturnUpdate
<1>17. ASSUME NEW u \in UpdateCalls, C!AbortUpdate(u) PROVE CompensationInv'
  BY <1>17 DEF C!AbortUpdate
<1>18. ASSUME NEW u \in UpdateCalls, C!CompensateUpdate(u) PROVE CompensationInv'
  BY <1>18 DEF C!CompensateUpdate
<1> QED
  BY <1>1, <1>2, <1>3, <1>4, <1>5, <1>6, <1>7, <1>8, <1>9, <1>10, <1>11, <1>12,
     <1>13, <1>14, <1>15, <1>16, <1>17, <1>18
  DEF C!Next, C!RunStep, C!UpdateStep

\* The invariant holds of every behaviour.
LEMMA CompensationInvariance == C!Spec => []CompensationInv
<1>1. C!Init => CompensationInv
  BY DEF C!Init, CompensationInv, C!TypeOK, TaskBeforeResult, LeavesWithResult,
         C!SuccessWaitsForHandlers
<1> QED
  BY <1>1, CompensationStep, PTL DEF C!Spec

\* Of an update and its compensation the caller is told the one that happened:
\* a result means performed and not compensated, a failure compensated, in a run
\* that fails or is cancelled (workflows.py:83-127).
THEOREM ResultXorCompensation == C!Spec => [](C!TypeOK /\ ResultOrCompensation)
<1>1. CompensationInv => C!TypeOK /\ ResultOrCompensation
  BY DEF ResultOrCompensation, CompensationInv, TaskBeforeResult, C!ResultOrCompensation, C!TypeOK
<1> QED
  BY <1>1, CompensationInvariance, PTL

\* A run that returns its result leaves no handler at work behind it and has
\* aborted none (workflows.py:61-64).
THEOREM SuccessWaits == C!Spec => []C!SuccessWaitsForHandlers
<1>1. CompensationInv => C!SuccessWaitsForHandlers
  BY DEF CompensationInv
<1> QED
  BY <1>1, CompensationInvariance, PTL

\* No exit that waits leaves a handler at work: in the sample without
\* compensation none at all but an interrupted failure, in the other none that
\* returns a result.
THEOREM NoHandlerIsLeft == W!Spec /\ C!Spec => []HandlersAreAwaited
BY ExitWaits, SuccessWaits, PTL DEF HandlersAreAwaited

-----------------------------------------------------------------------------
(* ShoppingCart *)

\* What a cart or an order holds is what customers of cart k were told is in it,
\* each item once; total is the last and largest subtotal they were told.
Matches(s, total, k) ==
  /\ Once(s)
  /\ \A r \in Requests : In(r, s) <=> k_status[r] = "added" /\ k_cartOf[r] = k
  /\ \A r \in Requests : In(r, s) => k_subtotal[r] <= total
  /\ s # <<>> => \E r \in Requests : In(r, s) /\ k_subtotal[r] = total

CartTypes ==
  /\ K!TypeOK
  /\ k_orders \in Seq([items : Seq(Requests), total : Nat])

\* Whose price is being asked for belongs to the open cart; nobody belongs to a
\* cart that is to come.
InCartOfNow ==
  /\ \A r \in Requests : k_status[r] = "pricing" => k_open /\ k_cartOf[r] = k_cart
  /\ \A r \in Requests : k_cartOf[r] <= k_cart

CartInv ==
  /\ CartTypes /\ InCartOfNow
  /\ Matches(k_items, K!Total[k_items], k_cart)
  /\ \A k \in DOMAIN k_orders : Matches(k_orders[k].items, k_orders[k].total, k)

\* The sum of the cart is the one of Data_proof.
LEMMA CartTotal ==
  ASSUME CartConstants
  PROVE  /\ \A s \in Seq(Requests) : K!Total[s] \in Nat
         /\ \A s \in Seq(Requests), r \in Requests :
              K!Total[Append(s, r)] = K!Total[s] + Price[r]
<1>1. \E t : IsTotal(Price, Requests, t)
  BY TotalExists DEF CartConstants
<1>2. IsTotal(Price, Requests, K!Total)
  BY <1>1 DEF IsTotal, K!Total
<1> QED
  BY <1>2, TotalType, TotalAppend DEF CartConstants

\* A cart is as it was while nobody is told of more or less.
LEMMA MatchesStays ==
  ASSUME NEW s, NEW total, NEW k, Matches(s, total, k),
         \A r \in Requests :
           /\ k_status'[r] = "added" /\ k_cartOf'[r] = k <=> k_status[r] = "added" /\ k_cartOf[r] = k
           /\ k_status[r] = "added" => k_subtotal'[r] = k_subtotal[r]
  PROVE  Matches(s, total, k)'
BY DEF Matches

\* Steps in which nobody is told a subtotal and no cart comes or goes.
LEMMA NobodyAdded ==
  ASSUME CartInv, UNCHANGED <<k_cart, k_items, k_subtotal, k_orders>>,
         \A r \in Requests :
           /\ k_status'[r] = "added" <=> k_status[r] = "added"
           /\ k_status[r] = "added" => k_cartOf'[r] = k_cartOf[r]
  PROVE  /\ Matches(k_items, K!Total[k_items], k_cart)'
         /\ (\A k \in DOMAIN k_orders : Matches(k_orders[k].items, k_orders[k].total, k))'
<1>1. ASSUME NEW s, NEW total, NEW k, Matches(s, total, k)
      PROVE  Matches(s, total, k)'
  BY <1>1, MatchesStays
<1>2. Matches(k_items, K!Total[k_items], k_cart)'
  <2>1. PICK s, total, k : s = k_items /\ total = K!Total[k_items] /\ k = k_cart
    OBVIOUS
  <2>2. Matches(s, total, k)'
    BY <2>1, <1>1 DEF CartInv
  <2> QED
    BY <2>1, <2>2 DEF Matches
<1>3. ASSUME NEW k \in DOMAIN k_orders PROVE Matches(k_orders[k].items, k_orders[k].total, k)'
  <2>1. PICK s, total : s = k_orders[k].items /\ total = k_orders[k].total
    OBVIOUS
  <2>2. Matches(s, total, k)'
    BY <2>1, <1>1 DEF CartInv
  <2> QED
    BY <2>1, <2>2 DEF Matches
<1> QED
  BY <1>2, <1>3

\* The first request for a cart: the new one is empty, and nobody belongs to it.
LEMMA CartStarts ==
  ASSUME CartConstants, CartInv, NEW r \in Requests, K!StartCart(r)
  PROVE  CartInv'
<1> USE DEF CartInv, CartTypes, K!TypeOK, InCartOfNow, K!StartCart, CartConstants
<1>1. CartTypes' /\ InCartOfNow'
  <2>1. k_cart \in Nat /\ k_cart' = k_cart + 1 /\ k_cart' \in 0 .. MaxCarts /\ k_cart \in 0 .. MaxCarts
    OBVIOUS
  <2>2. \A q \in Requests : q # r => k_cartOf'[q] = k_cartOf[q] /\ k_status'[q] = k_status[q]
    OBVIOUS
  <2>3. k_cartOf'[r] = k_cart' /\ k_status'[r] = "pricing"
    OBVIOUS
  <2>4. \A q \in Requests : k_cartOf[q] \in 0 .. MaxCarts /\ k_cartOf[q] <= k_cart
    OBVIOUS
  <2>5. k_cartOf' \in [Requests -> 0 .. MaxCarts] /\ InCartOfNow'
    BY <2>1, <2>2, <2>3, <2>4
  <2>6. Len(k_orders') = k_cart' - 1 /\ k_open' /\ k_items' \in Seq(Requests)
    BY <2>1
  <2> QED
    BY <2>1, <2>5, <2>6
<1>2. \A q \in Requests : ~(k_status'[q] = "added" /\ k_cartOf'[q] = k_cart')
  OBVIOUS
<1>3. \A q \in Requests :
        /\ k_status'[q] = "added" <=> k_status[q] = "added"
        /\ k_status[q] = "added" => k_cartOf'[q] = k_cartOf[q]
  OBVIOUS
<1>4. Matches(k_items, K!Total[k_items], k_cart)'
  <2>1. k_items' = <<>> /\ DOMAIN k_items' = {}
    OBVIOUS
  <2> QED
    BY <1>2, <2>1 DEF Matches, In, Once
<1>5. (\A k \in DOMAIN k_orders : Matches(k_orders[k].items, k_orders[k].total, k))'
  <2> SUFFICES ASSUME NEW k \in DOMAIN k_orders
               PROVE  Matches(k_orders[k].items, k_orders[k].total, k)'
    OBVIOUS
  <2>1. PICK s, total : s = k_orders[k].items /\ total = k_orders[k].total
    OBVIOUS
  <2>2. Matches(s, total, k) /\ k_subtotal' = k_subtotal /\ k_orders' = k_orders
    BY <2>1
  <2>3. Matches(s, total, k)'
    BY <1>3, <2>2, MatchesStays
  <2> QED
    BY <2>1, <2>2, <2>3 DEF Matches
<1> QED
  BY <1>1, <1>4, <1>5

\* An item comes to the end of the open cart, and its customer is told the sum.
LEMMA ItemIsAdded ==
  ASSUME CartConstants, CartInv, NEW r \in Requests, K!Priced(r)
  PROVE  CartInv'
<1> USE DEF CartInv, CartTypes, K!TypeOK, InCartOfNow, K!Priced, CartConstants
<1>1. /\ k_items \in Seq(Requests) /\ k_items' = Append(k_items, r) /\ k_items' \in Seq(Requests)
      /\ k_cartOf[r] = k_cart /\ k_cart \in Nat /\ k_open
      /\ k_cart' = k_cart /\ k_cartOf' = k_cartOf /\ k_orders' = k_orders
  OBVIOUS
<1>2. /\ K!Total[k_items] \in Nat /\ Price[r] \in Nat
      /\ K!Total[k_items'] = K!Total[k_items] + Price[r]
  BY <1>1, CartTotal
<1>3. /\ k_status'[r] = "added" /\ k_subtotal'[r] = K!Total[k_items']
      /\ \A q \in Requests : q # r => k_status'[q] = k_status[q] /\ k_subtotal'[q] = k_subtotal[q]
  OBVIOUS
<1>4. CartTypes' /\ InCartOfNow'
  BY <1>1, <1>2
<1>5. ~In(r, k_items) /\ k_status[r] = "pricing"
  BY DEF Matches
<1>6. Matches(k_items, K!Total[k_items], k_cart)'
  <2>1. /\ Once(k_items') /\ k_items' # <<>>
        /\ \A q \in Requests : In(q, k_items') <=> In(q, k_items) \/ q = r
    BY <1>1, <1>5, Appended DEF Matches
  <2>2. \A q \in Requests : In(q, k_items') <=> k_status'[q] = "added" /\ k_cartOf'[q] = k_cart'
    <3>1. \A q \in Requests : In(q, k_items) <=> k_status[q] = "added" /\ k_cartOf[q] = k_cart
      BY DEF Matches
    <3> HIDE DEF CartInv, CartTypes, K!TypeOK, InCartOfNow, K!Priced
    <3> QED
      BY <1>1, <1>3, <2>1, <3>1
  <2>3. \A q \in Requests : In(q, k_items') => k_subtotal'[q] <= K!Total[k_items']
    <3>1. \A q \in Requests : In(q, k_items) => k_subtotal[q] <= K!Total[k_items]
      BY DEF Matches
    <3>2. \A q \in Requests : k_subtotal[q] \in Nat
      OBVIOUS
    <3> QED
      BY <1>2, <1>3, <2>1, <3>1, <3>2
  <2> QED
    BY <1>3, <2>1, <2>2, <2>3 DEF Matches
<1>7. (\A k \in DOMAIN k_orders : Matches(k_orders[k].items, k_orders[k].total, k))'
  <2> SUFFICES ASSUME NEW k \in DOMAIN k_orders
               PROVE  Matches(k_orders[k].items, k_orders[k].total, k)'
    BY <1>1
  <2>1. PICK s, total : s = k_orders[k].items /\ total = k_orders[k].total
    OBVIOUS
  <2>2. Matches(s, total, k) /\ k # k_cart
    BY <2>1, <1>1
  <2>3. Matches(s, total, k)'
    BY <1>1, <1>3, <1>5, <2>2, MatchesStays
  <2> QED
    BY <1>1, <2>1, <2>3 DEF Matches
<1> QED
  BY <1>4, <1>6, <1>7

\* The order is the cart.
LEMMA CartIsOrdered ==
  ASSUME CartConstants, CartInv, K!Finalize
  PROVE  CartInv'
<1> USE DEF CartInv, CartTypes, K!TypeOK, InCartOfNow, K!Finalize, K!all_handlers_finished
<1> DEFINE o == [items |-> k_items, total |-> K!Total[k_items]]
<1>1. /\ o \in [items : Seq(Requests), total : Nat] /\ Len(k_orders) = k_cart - 1 /\ k_cart \in Nat
      /\ k_orders' = Append(k_orders, o)
  BY CartTotal
<1>2. CartTypes' /\ InCartOfNow'
  <2>1. k_orders' \in Seq([items : Seq(Requests), total : Nat]) /\ Len(k_orders') = k_cart /\ ~k_open'
    BY <1>1
  <2>2. InCartOfNow'
    OBVIOUS
  <2> QED
    BY <2>1, <2>2
<1>3. Matches(k_items, K!Total[k_items], k_cart)'
  BY DEF Matches
<1>4. ASSUME NEW k \in DOMAIN k_orders' PROVE Matches(k_orders[k].items, k_orders[k].total, k)'
  <2>1. PICK s, total : s = k_orders'[k].items /\ total = k_orders'[k].total
    OBVIOUS
  <2>2. Matches(s, total, k)
    <3>1. CASE k \in DOMAIN k_orders
      <4>1. k_orders'[k] = k_orders[k]
        BY <1>1, <3>1
      <4> QED
        BY <2>1, <3>1, <4>1
    <3>2. CASE k \notin DOMAIN k_orders
      <4>1. k = k_cart /\ k_orders'[k] = o
        BY <1>1, <3>2
      <4>2. s = k_items /\ total = K!Total[k_items]
        BY <2>1, <4>1
      <4> QED
        BY <4>1, <4>2
    <3> QED
      BY <3>1, <3>2
  <2>3. Matches(s, total, k)'
    BY <2>2, MatchesStays
  <2> QED
    BY <2>1, <2>3 DEF Matches
<1> QED
  BY <1>2, <1>3, <1>4

\* Each step keeps the invariant.
LEMMA CartStep == CartConstants /\ CartInv /\ [K!Next]_(K!vars) => CartInv'
<1> SUFFICES ASSUME CartConstants, CartInv, [K!Next]_(K!vars)
             PROVE  CartInv'
  OBVIOUS
<1> USE DEF CartTypes, K!TypeOK, InCartOfNow
<1>1. CASE UNCHANGED K!vars
  BY <1>1, NobodyAdded DEF K!vars, CartInv
<1>2. CASE K!Checkout
  BY <1>2, NobodyAdded DEF K!Checkout, CartInv
<1>3. ASSUME NEW r \in Requests, K!AddToCart(r) PROVE CartInv'
  <2> USE DEF K!AddToCart, CartInv
  <2>1. CASE k_status' = [k_status EXCEPT ![r] = "rejected"] /\ UNCHANGED k_cartOf
    BY <1>3, <2>1, NobodyAdded
  <2>2. CASE /\ k_status' = [k_status EXCEPT ![r] = "pricing"]
             /\ k_cartOf' = [k_cartOf EXCEPT ![r] = k_cart]
    <3>1. \A q \in Requests : k_cartOf'[q] = IF q = r THEN k_cart ELSE k_cartOf[q]
      BY <2>2
    <3>2. \A q \in Requests : k_status'[q] = IF q = r THEN "pricing" ELSE k_status[q]
      BY <2>2
    <3>3. k_status[r] = "unsent" /\ UNCHANGED <<k_cart, k_open, k_items, k_order_submitted, k_subtotal, k_orders>>
      BY <1>3
    <3>4. CartTypes'
      BY <2>2, <3>3
    <3>5. k_open' /\ k_cart' = k_cart /\ k_cart <= k_cart
      BY <1>3
    <3>6. \A q \in Requests : k_cartOf'[q] <= k_cart'
      BY <3>1, <3>5
    <3>7. \A q \in Requests : k_status'[q] = "pricing" => k_cartOf'[q] = k_cart'
      BY <3>1, <3>2, <3>5
    <3> QED
      BY <3>1, <3>2, <3>3, <3>4, <3>5, <3>6, <3>7, NobodyAdded
  <2> QED
    BY <1>3, <2>1, <2>2
<1>4. ASSUME NEW r \in Requests, K!Unavailable(r) PROVE CartInv'
  BY <1>4, NobodyAdded DEF K!Unavailable, CartInv
<1> QED
  BY <1>1, <1>2, <1>3, <1>4, CartStarts, ItemIsAdded, CartIsOrdered
  DEF K!Next, K!RequestStep

\* Whatever the interleaving of pricing and checkout, and however often a session
\* comes back, an order holds what its customers were told is in it, each item
\* once, at the last and largest subtotal they were told
\* (lazy_initialization/workflows.py:28-60).
THEOREM OrdersAreRight == K!Spec => [](K!TypeOK /\ OrderIsWhatWasAdded)
<1>0. CartConstants
  BY MessagePassingAssumption
<1> USE <1>0
<1>1. K!Init => CartInv
  <2> SUFFICES ASSUME K!Init PROVE CartInv
    OBVIOUS
  <2>1. <<>> \in Seq(Requests) /\ k_orders \in Seq([items : Seq(Requests), total : Nat])
    BY DEF K!Init
  <2>2. CartTypes /\ InCartOfNow
    <3>1. 0 \in 0 .. MaxCarts /\ 0 \in Nat /\ Len(k_orders) = 0
      BY DEF K!Init, CartConstants
    <3>2. /\ k_status \in [Requests -> {"unsent", "rejected", "pricing", "added", "unavailable"}]
          /\ k_cartOf \in [Requests -> 0 .. MaxCarts] /\ k_subtotal \in [Requests -> Nat]
          /\ \A r \in Requests : k_status[r] = "unsent" /\ k_cartOf[r] = 0
      BY <3>1 DEF K!Init
    <3>3. InCartOfNow
      BY <3>2 DEF K!Init, InCartOfNow
    <3>4. k_cart = 0 /\ k_open = FALSE /\ k_order_submitted = FALSE /\ k_items = <<>>
      BY DEF K!Init
    <3> QED
      BY <2>1, <3>1, <3>2, <3>3, <3>4 DEF CartTypes, K!TypeOK
  <2>3. Matches(k_items, K!Total[k_items], k_cart) /\ DOMAIN k_orders = {}
    BY DEF K!Init, Matches, In, Once
  <2> QED
    BY <2>2, <2>3 DEF CartInv
<1>2. CartInv => K!TypeOK /\ OrderIsWhatWasAdded
  <2> SUFFICES ASSUME CartInv PROVE K!OrderIsWhatWasAdded
    BY DEF CartInv, CartTypes, OrderIsWhatWasAdded
  <2> SUFFICES ASSUME NEW k \in DOMAIN k_orders
               PROVE  LET o == k_orders[k]
                          added == {r \in Requests : k_status[r] = "added" /\ k_cartOf[r] = k}
                      IN  /\ {o.items[i] : i \in DOMAIN o.items} = added
                          /\ \A i, j \in DOMAIN o.items : o.items[i] = o.items[j] => i = j
                          /\ \A r \in added : k_subtotal[r] <= o.total
                          /\ added # {} => \E r \in added : k_subtotal[r] = o.total
    BY DEF K!OrderIsWhatWasAdded
  <2> DEFINE o == k_orders[k]
             added == {r \in Requests : k_status[r] = "added" /\ k_cartOf[r] = k}
  <2>1. Matches(o.items, o.total, k)
    BY DEF CartInv
  <2>2. o.items \in Seq(Requests)
    <3>1. k_orders \in Seq([items : Seq(Requests), total : Nat])
      BY DEF CartInv, CartTypes
    <3>2. k_orders[k] \in [items : Seq(Requests), total : Nat]
      <4>1. ASSUME NEW X, NEW q \in Seq(X), NEW i \in DOMAIN q PROVE q[i] \in X
        OBVIOUS
      <4> QED
        BY <3>1, <4>1
    <3>3. \A q \in [items : Seq(Requests), total : Nat] : q.items \in Seq(Requests)
      OBVIOUS
    <3> QED
      BY <3>2, <3>3
  <2>3. \A i \in DOMAIN o.items : o.items[i] \in Requests
    BY <2>2
  <2>4. \A r : r \in added <=> r \in Requests /\ In(r, o.items)
    BY <2>1 DEF Matches
  <2>5. {o.items[i] : i \in DOMAIN o.items} = added
    BY <2>3, <2>4 DEF In
  <2>6. added # {} => o.items # <<>>
    BY <2>5
  <2> QED
    BY <2>1, <2>4, <2>5, <2>6 DEF Matches, Once
<1> QED
  BY <1>1, <1>2, CartStep, PTL DEF K!Spec

-----------------------------------------------------------------------------
(* NexusOperations *)

Langs   == {"ENGLISH", "CHINESE", "ARABIC"}
Passed  == {"ARABIC", "world", "other", "en", "es", "xx"}
Answers == (SUBSET Langs) \cup Langs \cup Passed
Starts  == {"my_workflow_run_operation", "hello"}
Samples == {"nexus_sync_operations", "hello_nexus", "nexus_multiple_args"}

Run == [id : Samples \X Passed, by : Callers, of : Passed, open : BOOLEAN]

NexusTypes ==
  /\ I!TypeOK /\ i_service \in Samples /\ i_input \in [Callers -> Passed]
  /\ i_pc \in [Callers -> Nat] /\ i_log \in [Callers -> Seq(Answers)]
  /\ i_runs \in Seq(Run) /\ i_previous \in [I!Updates -> Langs \cup {NoAnswer}]

\* A caller has an answer for each operation it has begun, but for the one on
\* its way.
AnswersSoFar ==
  \A c \in Callers :
    /\ i_pc[c] <= Len(I!Operations[i_service])
    /\ Len(i_log[c]) = IF i_op[c] = "idle" THEN i_pc[c] ELSE i_pc[c] - 1
    /\ \A n \in DOMAIN i_log[c] :
         i_service # "nexus_sync_operations" => i_log[c][n] = i_input[c]

\* A run belongs to one operation, which waits for it as long as it is open.
RunsAreOfOperations ==
  /\ i_service = "nexus_sync_operations" => i_runs = <<>>
  /\ \A m, n \in DOMAIN i_runs : i_runs[m].by = i_runs[n].by => m = n
  /\ \A n \in DOMAIN i_runs :
       /\ i_runs[n].id = I!id(i_runs[n].by) /\ i_runs[n].of = i_input[i_runs[n].by]
       /\ i_runs[n].open => /\ i_op[i_runs[n].by] \in {"requested", "started"}
                            /\ I!Operation(i_runs[n].by) \in Starts
  /\ \A c \in Callers : i_op[c] = "failed" => \E d \in Callers \ {c} : i_input[d] = i_input[c]

\* Who waits for the lock, or has it, is in its queue.
NexusLock == LockHeld(I!Updates, i_lockQueue, i_status)

\* The language is set from when the first update returns; what an update
\* returns is its own.
LanguageSoFar ==
  i_service = "nexus_sync_operations" =>
    /\ i_language \in {"ENGLISH", "ARABIC"} /\ \A c \in Callers : i_input[c] = "ARABIC"
    /\ \A u \in I!Updates : i_status[u] # "unsent" =>
         i_asked[u] = "ARABIC" /\ u[2] <= i_attempt[u[1]]
    /\ \A u \in I!Updates : i_previous[u] # NoAnswer =>
         i_status[u] = "done" /\ i_language = "ARABIC"
    /\ \A u, v \in I!Updates :
         i_previous[u] = "ENGLISH" /\ i_previous[v] = "ENGLISH" => u = v
    /\ i_language = "ARABIC" => \E u \in I!Updates : i_previous[u] = "ENGLISH"
    /\ \A c \in Callers : /\ i_attempt[c] <= i_lost + 1
                          /\ Len(i_log[c]) >= 2 => i_language = "ARABIC"
                          /\ Len(i_log[c]) = 3 => i_log[c][3] = "ARABIC"

NexusInv == NexusTypes /\ AnswersSoFar /\ RunsAreOfOperations /\ NexusLock /\ LanguageSoFar

\* What is called where.
LEMMA WhichOperation ==
  ASSUME NEW s \in Samples, NEW k \in 1 .. Len(I!Operations[s])
  PROVE  /\ Len(I!Operations[s]) \in 1 .. 3
         /\ I!Operations[s][k] = "get_languages" => s = "nexus_sync_operations" /\ k = 1
         /\ I!Operations[s][k] = "set_language" => s = "nexus_sync_operations" /\ k = 2
         /\ I!Operations[s][k] = "get_language" => s = "nexus_sync_operations" /\ k = 3
         /\ I!Operations[s][k] = "my_sync_operation" => s = "hello_nexus"
         /\ I!Operations[s][k] \in Starts =>
              s # "nexus_sync_operations" /\ k = Len(I!Operations[s])
<1>1. CASE s = "nexus_sync_operations"
  <2>1. I!Operations[s] = <<"get_languages", "set_language", "get_language">>
    BY <1>1 DEF I!Operations
  <2>2. Len(I!Operations[s]) = 3 /\ k \in {1, 2, 3}
    BY <2>1
  <2> QED
    BY <1>1, <2>1, <2>2 DEF Starts
<1>2. CASE s = "hello_nexus"
  <2>1. I!Operations[s] = <<"my_sync_operation", "my_workflow_run_operation">>
    BY <1>2 DEF I!Operations
  <2>2. Len(I!Operations[s]) = 2 /\ k \in {1, 2}
    BY <2>1
  <2> QED
    BY <1>2, <2>1, <2>2 DEF Starts
<1>3. CASE s = "nexus_multiple_args"
  <2>1. I!Operations[s] = <<"hello">>
    BY <1>3 DEF I!Operations
  <2>2. Len(I!Operations[s]) = 1 /\ k = 1
    BY <2>1
  <2> QED
    BY <1>3, <2>1, <2>2 DEF Starts
<1> QED
  BY <1>1, <1>2, <1>3 DEF Samples

\* Where a caller is while an operation is on its way.
LEMMA OnItsWay ==
  ASSUME NexusTypes, AnswersSoFar, NEW c \in Callers, i_op[c] # "idle"
  PROVE  /\ i_pc[c] \in 1 .. Len(I!Operations[i_service]) /\ Len(i_log[c]) = i_pc[c] - 1
         /\ i_log[c] \in Seq(Answers)
         /\ I!Operation(c) = I!Operations[i_service][i_pc[c]]
<1>1. i_log[c] \in Seq(Answers) /\ i_pc[c] \in Nat
  BY DEF NexusTypes
<1>2. Len(i_log[c]) \in Nat
  BY <1>1
<1> QED
  BY <1>1, <1>2 DEF AnswersSoFar, I!Operation

\* An answer is one more; that of the last operation to ask for the language
\* has to be it.
LEMMA Answered ==
  ASSUME NexusTypes, AnswersSoFar, NEW c \in Callers, NEW a \in Answers,
         i_op[c] \in {"requested", "started"}, I!Answer(c, a), UNCHANGED <<i_service, i_input>>,
         i_service # "nexus_sync_operations" => a = i_input[c]
  PROVE  /\ AnswersSoFar' /\ i_pc' = i_pc /\ i_attempt' = i_attempt
         /\ i_log' \in [Callers -> Seq(Answers)]
         /\ i_op' \in [Callers -> {"idle", "requested", "started", "failed"}]
         /\ i_op'[c] = "idle" /\ \A d \in Callers : d # c => i_op'[d] = i_op[d]
         /\ Len(i_log'[c]) = i_pc[c] /\ i_pc[c] \in Nat \ {0} /\ i_log'[c][i_pc[c]] = a
         /\ \A d \in Callers : d # c => i_log'[d] = i_log[d]
<1>1. /\ i_log' = [i_log EXCEPT ![c] = Append(@, a)] /\ i_op' = [i_op EXCEPT ![c] = "idle"]
      /\ i_pc' = i_pc /\ i_attempt' = i_attempt /\ i_service' = i_service /\ i_input' = i_input
  BY DEF I!Answer
<1>2. /\ i_log[c] \in Seq(Answers) /\ Len(i_log[c]) = i_pc[c] - 1 /\ i_pc[c] \in Nat \ {0}
  BY OnItsWay DEF NexusTypes
<1>3. /\ Append(i_log[c], a) \in Seq(Answers) /\ Len(Append(i_log[c], a)) = i_pc[c]
      /\ Append(i_log[c], a)[i_pc[c]] = a
      /\ \A n \in DOMAIN Append(i_log[c], a) :
           Append(i_log[c], a)[n] = a
           \/ (n \in DOMAIN i_log[c] /\ Append(i_log[c], a)[n] = i_log[c][n])
  BY <1>2
<1>4. /\ i_log \in [Callers -> Seq(Answers)]
      /\ i_op \in [Callers -> {"idle", "requested", "started", "failed"}]
  BY DEF NexusTypes, I!TypeOK
<1>5. /\ i_log' \in [Callers -> Seq(Answers)] /\ i_log'[c] = Append(i_log[c], a)
      /\ \A d \in Callers : d # c => i_log'[d] = i_log[d]
  BY <1>1, <1>3, <1>4
<1>6. /\ i_op' \in [Callers -> {"idle", "requested", "started", "failed"}] /\ i_op'[c] = "idle"
      /\ \A d \in Callers : d # c => i_op'[d] = i_op[d]
  BY <1>1, <1>4
<1>7. AnswersSoFar'
  <2> SUFFICES ASSUME NEW d \in Callers
               PROVE  /\ i_pc[d] <= Len(I!Operations[i_service])
                      /\ Len(i_log'[d]) = IF i_op'[d] = "idle" THEN i_pc[d] ELSE i_pc[d] - 1
                      /\ \A n \in DOMAIN i_log'[d] :
                           i_service # "nexus_sync_operations" => i_log'[d][n] = i_input[d]
    BY <1>1 DEF AnswersSoFar, I!Operations
  <2>1. CASE d = c
    BY <2>1, <1>3, <1>5, <1>6 DEF AnswersSoFar
  <2>2. CASE d # c
    BY <2>2, <1>5, <1>6 DEF AnswersSoFar
  <2> QED
    BY <2>1, <2>2
<1> QED
  BY <1>1, <1>2, <1>3, <1>5, <1>6, <1>7

\* What a step leaves alone that only brings an operation further.
LEMMA OperationGoesOn ==
  ASSUME NexusInv, NEW c \in Callers, NEW x \in {"requested", "started"},
         i_op[c] \in {"requested", "started"},
         i_op' = [i_op EXCEPT ![c] = x],
         UNCHANGED <<i_service, i_input, i_pc, i_log>>
  PROVE  /\ AnswersSoFar'
         /\ UNCHANGED i_runs => RunsAreOfOperations'
         /\ i_op' \in [Callers -> {"idle", "requested", "started", "failed"}]
<1>1. /\ i_op \in [Callers -> {"idle", "requested", "started", "failed"}] /\ i_runs \in Seq(Run)
  BY DEF NexusInv, NexusTypes, I!TypeOK
<1>2. /\ i_op' \in [Callers -> {"idle", "requested", "started", "failed"}] /\ i_op'[c] = x
      /\ \A d \in Callers : d # c => i_op'[d] = i_op[d]
  BY <1>1
<1>3. AnswersSoFar'
  BY <1>2 DEF NexusInv, AnswersSoFar, I!Operations
<1>4. ASSUME UNCHANGED i_runs PROVE RunsAreOfOperations'
  <2>1. \A n \in DOMAIN i_runs : i_runs[n] \in Run
    BY <1>1
  <2>2. \A n \in DOMAIN i_runs : i_runs[n].by \in Callers
    BY <2>1 DEF Run
  <2>3. \A d \in Callers : I!Operation(d)' = I!Operation(d) /\ I!id(d)' = I!id(d)
    BY DEF I!Operation, I!id, I!Operations
  <2>4. /\ \A d \in Callers : i_op[d] \in {"requested", "started"} => i_op'[d] \in {"requested", "started"}
        /\ \A d \in Callers : i_op'[d] = "failed" => i_op[d] = "failed"
    BY <1>2
  <2> QED
    BY <1>4, <2>2, <2>3, <2>4 DEF NexusInv, RunsAreOfOperations
<1> QED
  BY <1>2, <1>3, <1>4

\* The calls of the greeting workflow: its language is set by the first that
\* returns, which is told the language before.
LEMMA UpdateStep ==
  ASSUME OperationConstants, NexusInv, NEW u \in I!Updates,
         \/ I!GreetingWorkflow!SetKnown(u, i_input[u[1]]) /\ I!Returns(u)
         \/ I!GreetingWorkflow!Fetched(u) /\ I!Returns(u)
         \/ I!GreetingWorkflow!Enqueue(u, i_input[u[1]]) /\ UNCHANGED i_previous
         \/ I!GreetingWorkflow!Fetch(u) /\ UNCHANGED i_previous,
         i_service = "nexus_sync_operations" /\ i_status[u] = "unsent" => u[2] <= i_attempt[u[1]],
         i_status[u] = "unsent" => i_input[u[1]] \in Langs,
         UNCHANGED <<i_service, i_input, i_attempt, i_log, i_lost>>
  PROVE  /\ NexusLock' /\ LanguageSoFar' /\ I!GreetingWorkflow!TypeOK'
         /\ i_previous' \in [I!Updates -> Langs \cup {NoAnswer}]
<1> DEFINE States == {"unsent", "queued", "fetching", "done", "failed"}
<1>1. /\ i_status \in [I!Updates -> States] /\ i_asked \in [I!Updates -> Langs]
      /\ i_language \in Langs /\ i_language \in i_greetings /\ i_greetings \subseteq Langs
      /\ i_approved \in BOOLEAN /\ i_closed \in BOOLEAN
      /\ i_lockQueue \in Seq(I!Updates) /\ LockHeld(I!Updates, i_lockQueue, i_status)
      /\ i_previous \in [I!Updates -> Langs \cup {NoAnswer}]
  BY DEF NexusInv, NexusTypes, NexusLock, I!TypeOK, I!GreetingWorkflow!TypeOK, Langs
<1>2. u[1] \in Callers /\ \A v \in I!Updates : v[1] \in Callers
  BY DEF I!Updates
\* What a step does to the calls and the language.
<1>3. /\ LockHeld(I!Updates, i_lockQueue', i_status')
      /\ i_status' \in [I!Updates -> States] /\ i_asked' \in [I!Updates -> Langs]
      /\ i_status'[u] # "unsent" /\ i_status[u] # "done"
      /\ i_asked'[u] = IF i_status[u] = "unsent" THEN i_input[u[1]] ELSE i_asked[u]
      /\ \A v \in I!Updates : v # u => i_status'[v] = i_status[v] /\ i_asked'[v] = i_asked[v]
      /\ i_approved' = i_approved /\ i_closed' = i_closed
      /\ i_greetings' \subseteq Langs /\ i_language' \in i_greetings'
      /\ \/ i_status'[u] = "done" /\ i_language' = i_asked'[u] /\ i_previous' = [i_previous EXCEPT ![u] = i_language]
         \/ i_language' = i_language /\ i_previous' = i_previous
  <2>1. CASE I!GreetingWorkflow!SetKnown(u, i_input[u[1]]) /\ I!Returns(u)
    <3>1. LockHeld(I!Updates, i_lockQueue, i_status')
      BY <1>1, <2>1, LockIsKept DEF I!GreetingWorkflow!SetKnown
    <3> QED
      BY <1>1, <2>1, <3>1 DEF I!GreetingWorkflow!SetKnown, I!Returns
  <2>2. CASE I!GreetingWorkflow!Fetched(u) /\ I!Returns(u)
    <3>1. LockHeld(I!Updates, i_lockQueue', i_status')
      BY <1>1, <2>2, LockGivenBack DEF I!GreetingWorkflow!Fetched
    <3> QED
      BY <1>1, <2>2, <3>1 DEF I!GreetingWorkflow!Fetched, I!Returns
  <2>3. CASE I!GreetingWorkflow!Enqueue(u, i_input[u[1]]) /\ UNCHANGED i_previous
    <3>1. LockHeld(I!Updates, i_lockQueue', i_status')
      BY <1>1, <2>3, LockAskedFor DEF I!GreetingWorkflow!Enqueue
    <3> QED
      BY <1>1, <2>3, <3>1 DEF I!GreetingWorkflow!Enqueue
  <2>4. CASE I!GreetingWorkflow!Fetch(u) /\ UNCHANGED i_previous
    <3>1. LockHeld(I!Updates, i_lockQueue, i_status')
      BY <1>1, <2>4, LockIsKept DEF I!GreetingWorkflow!Fetch, I!GreetingWorkflow!Holds
    <3> QED
      BY <1>1, <2>4, <3>1 DEF I!GreetingWorkflow!Fetch
  <2> QED
    BY <2>1, <2>2, <2>3, <2>4
<1>4. i_previous' \in [I!Updates -> Langs \cup {NoAnswer}]
  BY <1>1, <1>3
<1>5. I!GreetingWorkflow!TypeOK'
  BY <1>1, <1>3 DEF I!GreetingWorkflow!TypeOK, LockHeld, Langs
<1>6. NexusLock'
  BY <1>3 DEF NexusLock, I!Updates
<1>7. LanguageSoFar'
  <2> SUFFICES ASSUME i_service = "nexus_sync_operations" PROVE LanguageSoFar'
    BY DEF LanguageSoFar
  <2>1. /\ i_language \in {"ENGLISH", "ARABIC"} /\ \A c \in Callers : i_input[c] = "ARABIC"
        /\ \A v \in I!Updates : i_status[v] # "unsent" =>
             i_asked[v] = "ARABIC" /\ v[2] <= i_attempt[v[1]]
        /\ \A v \in I!Updates : i_previous[v] # NoAnswer =>
             i_status[v] = "done" /\ i_language = "ARABIC"
        /\ \A v, w \in I!Updates :
             i_previous[v] = "ENGLISH" /\ i_previous[w] = "ENGLISH" => v = w
        /\ i_language = "ARABIC" => \E v \in I!Updates : i_previous[v] = "ENGLISH"
        /\ \A c \in Callers : /\ i_attempt[c] <= i_lost + 1
                              /\ Len(i_log[c]) >= 2 => i_language = "ARABIC"
                              /\ Len(i_log[c]) = 3 => i_log[c][3] = "ARABIC"
    BY DEF NexusInv, LanguageSoFar
  <2>2. i_asked'[u] = "ARABIC" /\ u[2] <= i_attempt[u[1]]
    BY <1>2, <1>3, <2>1
  <2>3. \A v \in I!Updates : i_status'[v] # "unsent" =>
          i_asked'[v] = "ARABIC" /\ v[2] <= i_attempt[v[1]]
    BY <1>3, <2>1, <2>2
  <2>4. NoAnswer # "ENGLISH" /\ NoAnswer # "ARABIC"
    BY DEF OperationConstants
  <2>5. /\ i_language' \in {"ENGLISH", "ARABIC"}
        /\ i_language = "ARABIC" => i_language' = "ARABIC"
        /\ \A v \in I!Updates : i_previous'[v] # NoAnswer =>
             i_status'[v] = "done" /\ i_language' = "ARABIC"
        /\ \A v, w \in I!Updates :
             i_previous'[v] = "ENGLISH" /\ i_previous'[w] = "ENGLISH" => v = w
        /\ i_language' = "ARABIC" => \E v \in I!Updates : i_previous'[v] = "ENGLISH"
    <3>1. CASE i_status'[u] = "done" /\ i_language' = i_asked'[u] /\ i_previous' = [i_previous EXCEPT ![u] = i_language]
      <4>1. /\ i_language' = "ARABIC" /\ i_previous'[u] = i_language
            /\ \A v \in I!Updates : v # u => i_previous'[v] = i_previous[v]
        BY <1>1, <2>2, <3>1
      <4>2. CASE i_language = "ENGLISH"
        <5>1. \A v \in I!Updates : i_previous[v] = NoAnswer
          BY <2>1, <4>2
        <5> QED
          BY <1>3, <2>4, <3>1, <4>1, <4>2, <5>1
      <4>3. CASE i_language = "ARABIC"
        <5>1. PICK v \in I!Updates : i_previous[v] = "ENGLISH"
          BY <2>1, <4>3
        <5>2. v # u
          BY <1>3, <2>1, <2>4, <5>1
        <5> QED
          BY <1>3, <2>1, <2>4, <3>1, <4>1, <4>3, <5>1, <5>2
      <4> QED
        BY <2>1, <4>2, <4>3
    <3>2. CASE i_language' = i_language /\ i_previous' = i_previous
      BY <1>3, <2>1, <3>2
    <3> QED
      BY <1>3, <3>1, <3>2
  <2>6. \A c \in Callers : /\ i_attempt[c] <= i_lost + 1
                           /\ Len(i_log[c]) >= 2 => i_language' = "ARABIC"
                           /\ Len(i_log[c]) = 3 => i_log[c][3] = "ARABIC"
    BY <2>1, <2>5
  <2>7. /\ i_service' = i_service /\ i_input' = i_input /\ i_attempt' = i_attempt
        /\ i_log' = i_log /\ i_lost' = i_lost
    OBVIOUS
  <2> QED
    BY <2>1, <2>3, <2>5, <2>6, <2>7 DEF LanguageSoFar
<1> QED
  BY <1>4, <1>5, <1>6, <1>7

\* The types of the whole from those of its parts.
LEMMA TypesStay ==
  ASSUME NexusTypes, AnswersSoFar', UNCHANGED <<i_service, i_input>>,
         i_pc' \in [Callers -> Nat], i_log' \in [Callers -> Seq(Answers)],
         i_op' \in [Callers -> {"idle", "requested", "started", "failed"}],
         i_attempt' \in [Callers -> 1 .. (MaxLostAnswers + 1)], i_lost' \in 0 .. MaxLostAnswers,
         i_runs' \in Seq(Run), i_previous' \in [I!Updates -> Langs \cup {NoAnswer}],
         I!GreetingWorkflow!TypeOK'
  PROVE  NexusTypes'
<1>1. \A c \in Callers : Len(i_log'[c]) \in {i_pc'[c] - 1, i_pc'[c]}
  BY DEF AnswersSoFar
<1>2. I!Operations' = I!Operations /\ I!Inputs' = I!Inputs /\ I!Updates' = I!Updates
  BY DEF I!Operations, I!Inputs, I!Updates
<1>3. I!TypeOK'
  BY <1>1, <1>2 DEF NexusTypes, I!TypeOK
<1> QED
  BY <1>2, <1>3 DEF NexusTypes

\* Steps that leave the greeting workflow alone.
LEMMA GreetingStays ==
  ASSUME NexusInv, UNCHANGED <<i_service, i_input, i_previous, I!greetingVars>>
  PROVE  /\ I!GreetingWorkflow!TypeOK' /\ NexusLock'
         /\ i_previous' \in [I!Updates -> Langs \cup {NoAnswer}]
         /\ UNCHANGED <<i_attempt, i_log, i_lost>> => LanguageSoFar'
<1>1. /\ i_greetings' = i_greetings /\ i_language' = i_language /\ i_approved' = i_approved
      /\ i_closed' = i_closed /\ i_asked' = i_asked /\ i_status' = i_status
      /\ i_lockQueue' = i_lockQueue /\ I!Updates' = I!Updates
  BY DEF I!greetingVars, I!Updates
<1>2. I!GreetingWorkflow!TypeOK' /\ NexusLock'
  BY <1>1 DEF NexusInv, NexusTypes, I!TypeOK, I!GreetingWorkflow!TypeOK, NexusLock
<1>3. UNCHANGED <<i_attempt, i_log, i_lost>> => LanguageSoFar'
  BY <1>1 DEF NexusInv, LanguageSoFar
<1> QED
  BY <1>2, <1>3 DEF NexusInv, NexusTypes

\* An operation begins.
LEMMA ExecuteStep ==
  ASSUME NexusInv, NEW c \in Callers, I!Execute(c)
  PROVE  NexusInv'
<1>1. /\ i_op[c] = "idle" /\ Len(i_log[c]) # Len(I!Operations[i_service])
      /\ i_pc' = [i_pc EXCEPT ![c] = @ + 1] /\ i_op' = [i_op EXCEPT ![c] = "requested"]
      /\ UNCHANGED <<i_service, i_input, i_attempt, i_log, i_runs, i_previous, i_lost, I!greetingVars>>
  BY DEF I!Execute, I!Ended
<1>2. /\ i_pc \in [Callers -> Nat] /\ i_runs \in Seq(Run)
      /\ i_op \in [Callers -> {"idle", "requested", "started", "failed"}]
  BY DEF NexusInv, NexusTypes, I!TypeOK
<1>3. /\ i_pc' \in [Callers -> Nat] /\ i_pc'[c] = i_pc[c] + 1 /\ i_op'[c] = "requested"
      /\ i_op' \in [Callers -> {"idle", "requested", "started", "failed"}]
      /\ \A d \in Callers : d # c => i_pc'[d] = i_pc[d] /\ i_op'[d] = i_op[d]
  BY <1>1, <1>2
<1>4. AnswersSoFar'
  <2>1. Len(i_log[c]) = i_pc[c] /\ i_pc[c] <= Len(I!Operations[i_service])
    BY <1>1 DEF NexusInv, AnswersSoFar
  <2>2. I!Operations' = I!Operations /\ Len(I!Operations[i_service]) \in Nat /\ i_pc[c] \in Nat
    BY <1>2 DEF I!Operations, NexusInv, NexusTypes, Samples
  <2>3. i_pc[c] + 1 <= Len(I!Operations[i_service]) /\ Len(i_log[c]) = (i_pc[c] + 1) - 1
    BY <1>1, <2>1, <2>2
  <2> QED
    BY <1>1, <1>3, <2>2, <2>3 DEF NexusInv, AnswersSoFar
<1>5. RunsAreOfOperations'
  <2>1. \A n \in DOMAIN i_runs : i_runs[n] \in Run
    BY <1>2
  <2>2. \A n \in DOMAIN i_runs : i_runs[n].by \in Callers
    BY <2>1 DEF Run
  <2>3. /\ \A d \in Callers : I!id(d)' = I!id(d)
        /\ \A d \in Callers : d # c => I!Operation(d)' = I!Operation(d)
    BY <1>1, <1>3 DEF I!Operation, I!id, I!Operations
  <2> QED
    BY <1>1, <1>3, <2>2, <2>3 DEF NexusInv, RunsAreOfOperations
<1>6. NexusTypes'
  BY <1>1, <1>2, <1>3, <1>4, GreetingStays, TypesStay DEF NexusInv, NexusTypes, I!TypeOK
<1> QED
  BY <1>1, <1>4, <1>5, <1>6, GreetingStays DEF NexusInv

\* An answer that does not come from a run: no run of the caller is open.
LEMMA AnswerStep ==
  ASSUME NexusInv, NEW c \in Callers, NEW a \in Answers, I!Answer(c, a),
         i_op[c] \in {"requested", "started"}, I!Operation(c) \notin Starts,
         i_service # "nexus_sync_operations" => a = i_input[c],
         i_service = "nexus_sync_operations" /\ i_pc[c] >= 2 => i_language = "ARABIC",
         i_service = "nexus_sync_operations" /\ i_pc[c] = 3 => a = "ARABIC",
         UNCHANGED <<i_service, i_input, i_runs, i_previous, i_lost, I!greetingVars>>
  PROVE  NexusInv'
<1>1. /\ AnswersSoFar' /\ i_pc' = i_pc /\ i_attempt' = i_attempt
      /\ i_log' \in [Callers -> Seq(Answers)]
      /\ i_op' \in [Callers -> {"idle", "requested", "started", "failed"}]
      /\ i_op'[c] = "idle" /\ \A d \in Callers : d # c => i_op'[d] = i_op[d]
      /\ Len(i_log'[c]) = i_pc[c] /\ i_pc[c] \in Nat \ {0} /\ i_log'[c][i_pc[c]] = a
      /\ \A d \in Callers : d # c => i_log'[d] = i_log[d]
  BY Answered DEF NexusInv
<1>2. RunsAreOfOperations'
  <2>1. i_runs \in Seq(Run)
    BY DEF NexusInv, NexusTypes
  <2>2. \A n \in DOMAIN i_runs : i_runs[n] \in Run
    BY <2>1
  <2>3. \A n \in DOMAIN i_runs : i_runs[n].by \in Callers
    BY <2>2 DEF Run
  <2>4. \A d \in Callers : I!Operation(d)' = I!Operation(d) /\ I!id(d)' = I!id(d)
    BY <1>1 DEF I!Operation, I!id, I!Operations
  <2>5. ASSUME NEW n \in DOMAIN i_runs, i_runs[n].open
        PROVE  i_op'[i_runs[n].by] \in {"requested", "started"} /\ I!Operation(i_runs[n].by)' \in Starts
    <3>1. i_runs[n].by # c /\ i_op[i_runs[n].by] \in {"requested", "started"}
      BY <2>5 DEF NexusInv, RunsAreOfOperations
    <3> QED
      BY <1>1, <2>3, <2>4, <2>5, <3>1 DEF NexusInv, RunsAreOfOperations
  <2>6. \A d \in Callers : i_op'[d] = "failed" => i_op[d] = "failed"
    BY <1>1
  <2> QED
    BY <2>3, <2>4, <2>5, <2>6 DEF NexusInv, RunsAreOfOperations
<1>3. NexusTypes'
  BY <1>1, GreetingStays, TypesStay DEF NexusInv, NexusTypes, I!TypeOK
<1>4. LanguageSoFar'
  <2>1. i_language' = i_language /\ i_asked' = i_asked /\ i_status' = i_status
    BY DEF I!greetingVars
  <2>2. ASSUME i_service = "nexus_sync_operations", NEW d \in Callers
        PROVE  /\ Len(i_log'[d]) >= 2 => i_language = "ARABIC"
               /\ Len(i_log'[d]) = 3 => i_log'[d][3] = "ARABIC"
    <3>1. CASE d = c
      <4>1. Len(i_log'[d]) = i_pc[c] /\ i_log'[d][i_pc[c]] = a
        BY <1>1, <3>1
      <4> QED
        BY <2>2, <4>1
    <3>2. CASE d # c
      <4>1. i_log'[d] = i_log[d]
        BY <1>1, <3>2
      <4> QED
        BY <2>2, <4>1 DEF NexusInv, LanguageSoFar
    <3> QED
      BY <3>1, <3>2
  <2>3. ASSUME i_service = "nexus_sync_operations"
        PROVE  \A d \in Callers : /\ i_attempt'[d] <= i_lost' + 1
                                  /\ Len(i_log'[d]) >= 2 => i_language' = "ARABIC"
                                  /\ Len(i_log'[d]) = 3 => i_log'[d][3] = "ARABIC"
    BY <1>1, <2>1, <2>2, <2>3 DEF NexusInv, LanguageSoFar
  <2> QED
    BY <1>1, <2>1, <2>3 DEF NexusInv, LanguageSoFar, I!Updates
<1> QED
  BY <1>1, <1>2, <1>3, <1>4, GreetingStays DEF NexusInv

\* What an answer can be.
LEMMA AnswersAre == Langs \subseteq Answers /\ Passed \subseteq Answers /\ SUBSET Langs \subseteq Answers
BY DEF Answers

\* The server and the greeting workflow's query answer.
LEMMA ServeStep ==
  ASSUME NexusInv, NEW c \in Callers, I!Serve(c)
  PROVE  NexusInv'
<1>1. PICK a : /\ a = CASE I!Operation(c) = "get_languages" -> i_greetings
                        [] I!Operation(c) = "get_language" -> i_language
                        [] OTHER -> i_input[c]
               /\ I!Answer(c, a)
  BY DEF I!Serve
<1>2. /\ i_op[c] = "requested"
      /\ I!Operation(c) \in {"get_languages", "get_language", "my_sync_operation"}
      /\ UNCHANGED <<i_service, i_input, i_runs, i_previous, i_lost, I!greetingVars>>
  BY DEF I!Serve
<1>3. /\ i_greetings \in SUBSET Langs /\ i_language \in Langs /\ i_input[c] \in Passed
      /\ i_service \in Samples
  BY DEF NexusInv, NexusTypes, I!TypeOK, I!GreetingWorkflow!TypeOK, Langs
<1>4. /\ i_pc[c] \in 1 .. Len(I!Operations[i_service]) /\ Len(i_log[c]) = i_pc[c] - 1
      /\ I!Operation(c) = I!Operations[i_service][i_pc[c]]
  BY <1>2, OnItsWay DEF NexusInv
<1>5. /\ I!Operation(c) = "get_languages" => i_service = "nexus_sync_operations" /\ i_pc[c] = 1
      /\ I!Operation(c) = "get_language" => i_service = "nexus_sync_operations" /\ i_pc[c] = 3
      /\ I!Operation(c) = "my_sync_operation" => i_service = "hello_nexus"
  BY <1>3, <1>4, WhichOperation
<1>6. a \in Answers
  <2>1. a = i_greetings \/ a = i_language \/ a = i_input[c]
    BY <1>1
  <2>2. i_greetings \in Answers /\ i_language \in Answers /\ i_input[c] \in Answers
    BY <1>3, AnswersAre
  <2> QED
    BY <2>1, <2>2
<1>7. /\ I!Operation(c) \notin Starts
      /\ i_service # "nexus_sync_operations" => a = i_input[c]
  BY <1>1, <1>2, <1>5 DEF Starts
<1>8. /\ i_service = "nexus_sync_operations" /\ i_pc[c] >= 2 => i_language = "ARABIC"
      /\ i_service = "nexus_sync_operations" /\ i_pc[c] = 3 => a = "ARABIC"
  <2> SUFFICES ASSUME i_service = "nexus_sync_operations", i_pc[c] >= 2
               PROVE  i_language = "ARABIC" /\ a = "ARABIC"
    BY <1>4
  <2>1. I!Operation(c) = "get_language" /\ i_pc[c] = 3
    BY <1>2, <1>5
  <2>2. Len(i_log[c]) >= 2
    BY <1>4, <2>1
  <2>3. i_language = "ARABIC"
    BY <2>2 DEF NexusInv, LanguageSoFar
  <2> QED
    BY <1>1, <2>1, <2>3
<1> QED
  BY <1>1, <1>2, <1>6, <1>7, <1>8, AnswerStep

\* set_language has answered.
LEMMA UpdateReturnsStep ==
  ASSUME OperationConstants, NexusInv, NEW c \in Callers, I!UpdateReturns(c)
  PROVE  NexusInv'
<1> DEFINE a == i_previous[<<c, i_attempt[c]>>]
<1>1. /\ i_op[c] = "started" /\ I!Operation(c) = "set_language" /\ a # NoAnswer /\ I!Answer(c, a)
      /\ UNCHANGED <<i_service, i_input, i_runs, i_previous, i_lost, I!greetingVars>>
  BY DEF I!UpdateReturns
<1>2. <<c, i_attempt[c]>> \in I!Updates /\ i_previous \in [I!Updates -> Langs \cup {NoAnswer}]
      /\ i_service \in Samples
  BY DEF NexusInv, NexusTypes, I!TypeOK, I!Updates
<1>3. a \in Answers
  <2>1. a \in Langs
    BY <1>1, <1>2
  <2> HIDE DEF a
  <2> QED
    BY <2>1, AnswersAre
<1> HIDE DEF a
<1>4. /\ i_pc[c] \in 1 .. Len(I!Operations[i_service])
      /\ I!Operation(c) = I!Operations[i_service][i_pc[c]]
  BY <1>1, OnItsWay DEF NexusInv
<1>5. i_service = "nexus_sync_operations" /\ i_pc[c] = 2 /\ I!Operation(c) \notin Starts
  BY <1>1, <1>2, <1>4, WhichOperation DEF Starts
<1>6. i_language = "ARABIC"
  BY <1>1, <1>2, <1>5 DEF NexusInv, LanguageSoFar, a
<1> QED
  BY <1>1, <1>3, <1>5, <1>6, AnswerStep

\* set_language is asked for.
LEMMA SetLanguageStep ==
  ASSUME OperationConstants, NexusInv, NEW c \in Callers, I!set_language(c)
  PROVE  NexusInv'
<1>1. /\ i_op[c] = "requested" /\ I!Operation(c) = "set_language"
      /\ i_op' = [i_op EXCEPT ![c] = "started"]
      /\ UNCHANGED <<i_service, i_input, i_pc, i_attempt, i_log, i_runs, i_lost>>
  BY DEF I!set_language
<1>2. PICK u : u = <<c, i_attempt[c]>>
  OBVIOUS
<1>3. /\ u \in I!Updates /\ u[1] = c /\ u[2] = i_attempt[c] /\ i_attempt[c] \in Int
      /\ i_service \in Samples
  BY <1>2 DEF NexusInv, NexusTypes, I!TypeOK, I!Updates
<1>4. \/ I!GreetingWorkflow!SetKnown(u, i_input[c]) /\ I!Returns(u)
      \/ I!GreetingWorkflow!Enqueue(u, i_input[c]) /\ UNCHANGED i_previous
  BY <1>2 DEF I!set_language
<1>5. /\ i_pc[c] \in 1 .. Len(I!Operations[i_service])
      /\ I!Operation(c) = I!Operations[i_service][i_pc[c]]
  BY <1>1, OnItsWay DEF NexusInv
<1>6. i_service = "nexus_sync_operations"
  BY <1>1, <1>3, <1>5, WhichOperation
<1>7. i_input[c] \in Langs
  BY <1>6 DEF NexusInv, LanguageSoFar, Langs
<1>8. /\ NexusLock' /\ LanguageSoFar' /\ I!GreetingWorkflow!TypeOK'
      /\ i_previous' \in [I!Updates -> Langs \cup {NoAnswer}]
  BY <1>1, <1>3, <1>4, <1>7, UpdateStep
<1>9. /\ AnswersSoFar' /\ RunsAreOfOperations'
      /\ i_op' \in [Callers -> {"idle", "requested", "started", "failed"}]
  BY <1>1, OperationGoesOn
<1>10. NexusTypes'
  BY <1>1, <1>8, <1>9, TypesStay DEF NexusInv, NexusTypes, I!TypeOK
<1> QED
  BY <1>8, <1>9, <1>10 DEF NexusInv

\* The greeting workflow goes on by itself.
LEMMA WorkflowStep ==
  ASSUME OperationConstants, NexusInv, NEW u \in I!Updates, I!GreetingStep(u)
  PROVE  NexusInv'
<1>1. /\ \/ I!GreetingWorkflow!Fetch(u) /\ UNCHANGED i_previous
         \/ I!GreetingWorkflow!Fetched(u) /\ I!Returns(u)
      /\ UNCHANGED <<i_service, i_input, i_pc, i_op, i_attempt, i_log, i_runs, i_lost>>
  BY DEF I!GreetingStep, I!callerVars
<1>2. i_status[u] # "unsent"
  BY <1>1 DEF I!GreetingWorkflow!Fetch, I!GreetingWorkflow!Fetched
<1>3. /\ NexusLock' /\ LanguageSoFar' /\ I!GreetingWorkflow!TypeOK'
      /\ i_previous' \in [I!Updates -> Langs \cup {NoAnswer}]
  BY <1>1, <1>2, UpdateStep
<1>4. AnswersSoFar' /\ RunsAreOfOperations'
  BY <1>1 DEF NexusInv, AnswersSoFar, RunsAreOfOperations, I!Operations, I!Operation, I!id
<1>5. NexusTypes'
  BY <1>1, <1>3, <1>4, TypesStay DEF NexusInv, NexusTypes, I!TypeOK
<1> QED
  BY <1>3, <1>4, <1>5 DEF NexusInv

\* An answer is lost: it is asked for again.
LEMMA LossStep ==
  ASSUME OperationConstants, NexusInv, NEW c \in Callers, I!AskAgain(c) \/ I!LoseStart(c)
  PROVE  NexusInv'
<1>1. /\ i_op[c] = "started" /\ i_lost < MaxLostAnswers /\ i_lost' = i_lost + 1
      /\ i_op' = [i_op EXCEPT ![c] = "requested"]
      /\ UNCHANGED <<i_service, i_input, i_pc, i_log, i_runs, i_previous, I!greetingVars>>
  BY DEF I!AskAgain, I!LoseStart
<1>2. /\ i_lost \in 0 .. MaxLostAnswers /\ i_attempt \in [Callers -> 1 .. (MaxLostAnswers + 1)]
      /\ MaxLostAnswers \in Nat /\ i_service \in Samples
  BY DEF NexusInv, NexusTypes, I!TypeOK, OperationConstants
<1>3. /\ AnswersSoFar' /\ RunsAreOfOperations'
      /\ i_op' \in [Callers -> {"idle", "requested", "started", "failed"}]
  BY <1>1, OperationGoesOn
<1>4. /\ I!GreetingWorkflow!TypeOK' /\ NexusLock'
      /\ i_previous' \in [I!Updates -> Langs \cup {NoAnswer}]
  BY <1>1, GreetingStays
<1>5. i_lost' \in 0 .. MaxLostAnswers
  BY <1>1, <1>2
<1>6. /\ i_attempt' \in [Callers -> 1 .. (MaxLostAnswers + 1)]
      /\ \A d \in Callers : i_attempt'[d] \in Int /\ i_attempt[d] <= i_attempt'[d]
      /\ i_service = "nexus_sync_operations" => \A d \in Callers : i_attempt'[d] <= i_lost' + 1
  <2>1. CASE I!AskAgain(c)
    <3>1. I!Operation(c) = "set_language" /\ i_attempt' = [i_attempt EXCEPT ![c] = @ + 1]
      BY <2>1 DEF I!AskAgain
    <3>2. i_service = "nexus_sync_operations"
      BY <1>1, <1>2, <3>1, OnItsWay, WhichOperation DEF NexusInv
    <3>3. \A d \in Callers : i_attempt[d] <= i_lost + 1 /\ i_attempt[d] \in 1 .. (MaxLostAnswers + 1)
      BY <1>2, <3>2 DEF NexusInv, LanguageSoFar
    <3>4. /\ i_attempt[c] + 1 <= i_lost' + 1
          /\ i_attempt[c] + 1 \in 1 .. (MaxLostAnswers + 1)
      BY <1>1, <1>2, <3>3
    <3>5. \A d \in Callers : i_attempt[d] <= i_lost' + 1
      BY <1>1, <1>2, <3>3
    <3> QED
      BY <1>2, <3>1, <3>4, <3>5
  <2>2. CASE I!LoseStart(c)
    <3>1. i_attempt' = i_attempt
      BY <2>2 DEF I!LoseStart
    <3>2. \A d \in Callers : i_attempt[d] \in Int
      BY <1>2
    <3>3. i_service = "nexus_sync_operations" => \A d \in Callers : i_attempt[d] <= i_lost + 1
      BY DEF NexusInv, LanguageSoFar
    <3> QED
      BY <1>1, <1>2, <3>1, <3>2, <3>3
  <2> QED
    BY <2>1, <2>2
<1>7. LanguageSoFar'
  <2>1. /\ i_language' = i_language /\ i_asked' = i_asked /\ i_status' = i_status
        /\ I!Updates' = I!Updates
    BY <1>1 DEF I!greetingVars, I!Updates
  <2>2. \A u \in I!Updates : u[1] \in Callers /\ u[2] \in Int
    BY DEF I!Updates
  <2>3. \A d \in Callers : i_attempt[d] \in Int
    BY <1>2
  <2>4. \A u \in I!Updates : u[2] <= i_attempt[u[1]] => u[2] <= i_attempt'[u[1]]
    BY <1>6, <2>2, <2>3
  <2> QED
    BY <1>1, <1>6, <2>1, <2>4 DEF NexusInv, LanguageSoFar
<1>8. NexusTypes'
  BY <1>1, <1>3, <1>4, <1>5, <1>6, TypesStay DEF NexusInv, NexusTypes
<1> QED
  BY <1>3, <1>4, <1>7, <1>8 DEF NexusInv

\* A run is started, unless the operation has one already.
LEMMA StartStep ==
  ASSUME NexusInv, NEW c \in Callers, I!start_workflow(c)
  PROVE  NexusInv'
<1>1. /\ i_op[c] = "requested" /\ I!Operation(c) \in Starts
      /\ i_op' = [i_op EXCEPT ![c] = "started"]
      /\ UNCHANGED <<i_service, i_input, i_pc, i_attempt, i_log, i_previous, i_lost, I!greetingVars>>
      /\ \/ UNCHANGED i_runs
         \/ /\ I!Mine(c) = {}
            /\ i_runs' = Append(i_runs, [id |-> I!id(c), by |-> c, of |-> i_input[c], open |-> TRUE])
  BY DEF I!start_workflow, Starts
<1>2. /\ AnswersSoFar'
      /\ UNCHANGED i_runs => RunsAreOfOperations'
      /\ i_op' \in [Callers -> {"idle", "requested", "started", "failed"}]
  BY <1>1, OperationGoesOn
<1>3. /\ I!GreetingWorkflow!TypeOK' /\ NexusLock' /\ LanguageSoFar'
      /\ i_previous' \in [I!Updates -> Langs \cup {NoAnswer}]
  BY <1>1, GreetingStays
<1>4. i_runs' \in Seq(Run) /\ RunsAreOfOperations'
  <2>1. CASE UNCHANGED i_runs
    BY <1>2, <2>1 DEF NexusInv, NexusTypes
  <2> SUFFICES ASSUME I!Mine(c) = {},
                      i_runs' = Append(i_runs, [id |-> I!id(c), by |-> c, of |-> i_input[c], open |-> TRUE])
               PROVE  i_runs' \in Seq(Run) /\ RunsAreOfOperations'
    BY <1>1, <2>1
  <2>2. PICK r : r = [id |-> I!id(c), by |-> c, of |-> i_input[c], open |-> TRUE]
    OBVIOUS
  <2>3. i_runs \in Seq(Run) /\ \A n \in DOMAIN i_runs : i_runs[n] \in Run
    <3>1. i_runs \in Seq(Run)
      BY DEF NexusInv, NexusTypes
    <3> QED
      BY <3>1
  <2>4. /\ r \in Run /\ r.by = c /\ r.id = I!id(c) /\ r.of = i_input[c]
        /\ \A n \in DOMAIN i_runs : i_runs[n].by \in Callers /\ i_runs[n].by # c
    <3>1. i_service \in Samples /\ i_input[c] \in Passed
      BY DEF NexusInv, NexusTypes
    <3>2. I!id(c) \in Samples \X Passed
      BY <3>1 DEF I!id
    <3>3. r \in Run
      BY <2>2, <3>1, <3>2 DEF Run
    <3>4. \A n \in DOMAIN i_runs : i_runs[n].by \in Callers /\ i_runs[n].by # c
      BY <2>3 DEF I!Mine, Run
    <3> QED
      BY <2>2, <3>3, <3>4
  <2>5. i_runs' = Append(i_runs, r)
    BY <2>2
  <2> HIDE DEF Run
  <2>6. /\ i_runs' \in Seq(Run)
        /\ \A n \in DOMAIN i_runs' : n \in DOMAIN i_runs \/ n = Len(i_runs) + 1
        /\ \A n \in DOMAIN i_runs : i_runs'[n] = i_runs[n]
        /\ i_runs'[Len(i_runs) + 1] = r
    BY <2>3, <2>4, <2>5, AppendedElements
  <2>7. i_service # "nexus_sync_operations"
    <3>1. i_service \in Samples
      BY DEF NexusInv, NexusTypes
    <3> QED
      BY <1>1, <3>1, OnItsWay, WhichOperation DEF NexusInv
  <2>8. \A d \in Callers : I!Operation(d)' = I!Operation(d) /\ I!id(d)' = I!id(d)
    BY <1>1 DEF I!Operation, I!id, I!Operations
  <2>9. i_op'[c] = "started" /\ \A d \in Callers : d # c => i_op'[d] = i_op[d]
    BY <1>1 DEF NexusInv, NexusTypes, I!TypeOK
  <2>10. \A m, n \in DOMAIN i_runs' : i_runs'[m].by = i_runs'[n].by => m = n
    BY <2>4, <2>6 DEF NexusInv, RunsAreOfOperations
  <2>11. ASSUME NEW n \in DOMAIN i_runs'
         PROVE  /\ i_runs'[n].id = I!id(i_runs[n].by)' /\ i_runs'[n].of = i_input[i_runs'[n].by]
                /\ i_runs'[n].open => /\ i_op'[i_runs'[n].by] \in {"requested", "started"}
                                      /\ I!Operation(i_runs[n].by)' \in Starts
    <3>1. CASE n = Len(i_runs) + 1
      BY <1>1, <2>4, <2>6, <2>8, <2>9, <3>1
    <3>2. CASE n \in DOMAIN i_runs
      BY <2>4, <2>6, <2>8, <2>9, <3>2 DEF NexusInv, RunsAreOfOperations
    <3> QED
      BY <2>6, <3>1, <3>2
  <2>12. \A d \in Callers : i_op'[d] = "failed" => i_op[d] = "failed"
    BY <2>9
  <2> QED
    BY <1>1, <2>6, <2>7, <2>10, <2>11, <2>12 DEF NexusInv, RunsAreOfOperations
<1>5. NexusTypes'
  BY <1>1, <1>2, <1>3, <1>4, TypesStay DEF NexusInv, NexusTypes, I!TypeOK
<1> QED
  BY <1>2, <1>3, <1>4, <1>5 DEF NexusInv

\* The id is taken by another caller's run, that was told the same.
LEMMA RefuseStep ==
  ASSUME NexusInv, NEW c \in Callers, I!Refuse(c)
  PROVE  NexusInv'
<1>1. /\ i_op[c] = "requested" /\ I!Mine(c) = {} /\ I!Taken(c)
      /\ i_op' = [i_op EXCEPT ![c] = "failed"]
      /\ UNCHANGED <<i_service, i_input, i_pc, i_attempt, i_log, i_runs, i_previous, i_lost,
                     I!greetingVars>>
  BY DEF I!Refuse
<1>2. /\ i_op' \in [Callers -> {"idle", "requested", "started", "failed"}] /\ i_op'[c] = "failed"
      /\ \A d \in Callers : d # c => i_op'[d] = i_op[d]
  BY <1>1 DEF NexusInv, NexusTypes, I!TypeOK
<1>3. AnswersSoFar'
  BY <1>1, <1>2 DEF NexusInv, AnswersSoFar, I!Operations
<1>4. /\ I!GreetingWorkflow!TypeOK' /\ NexusLock' /\ LanguageSoFar'
      /\ i_previous' \in [I!Updates -> Langs \cup {NoAnswer}]
  BY <1>1, GreetingStays
<1>5. RunsAreOfOperations'
  <2>1. \A n \in DOMAIN i_runs : i_runs[n].by \in Callers /\ i_runs[n].by # c
    <3>1. i_runs \in Seq(Run)
      BY DEF NexusInv, NexusTypes
    <3>2. \A n \in DOMAIN i_runs : i_runs[n] \in Run
      BY <3>1
    <3> QED
      BY <1>1, <3>2 DEF I!Mine, Run
  <2>2. PICK n \in DOMAIN i_runs : i_runs[n].id = I!id(c)
    BY <1>1 DEF I!Taken
  <2>3. i_input[i_runs[n].by] = i_input[c]
    BY <2>2 DEF NexusInv, RunsAreOfOperations, I!id
  <2>4. \E d \in Callers \ {c} : i_input[d] = i_input[c]
    BY <2>1, <2>3
  <2>5. \A d \in Callers : I!Operation(d)' = I!Operation(d) /\ I!id(d)' = I!id(d)
    BY <1>1 DEF I!Operation, I!id, I!Operations
  <2> QED
    BY <1>1, <1>2, <2>1, <2>4, <2>5 DEF NexusInv, RunsAreOfOperations
<1>6. NexusTypes'
  BY <1>1, <1>2, <1>3, <1>4, TypesStay DEF NexusInv, NexusTypes, I!TypeOK
<1> QED
  BY <1>3, <1>4, <1>5, <1>6 DEF NexusInv

\* A run ends, and its result is the answer of its operation.
LEMMA RunStep ==
  ASSUME NexusInv, NEW n \in DOMAIN i_runs, I!RunWorkflow(n)
  PROVE  NexusInv'
<1>1. i_runs \in Seq(Run) /\ \A m \in DOMAIN i_runs : i_runs[m] \in Run
  <2>1. i_runs \in Seq(Run)
    BY DEF NexusInv, NexusTypes
  <2> QED
    BY <2>1
<1>2. PICK c, a : c = i_runs[n].by /\ a = i_runs[n].of
  OBVIOUS
<1>3. /\ i_runs[n].open /\ i_runs' = [i_runs EXCEPT ![n].open = FALSE] /\ I!Answer(c, a)
      /\ UNCHANGED <<i_service, i_input, i_previous, i_lost, I!greetingVars>>
  BY <1>2 DEF I!RunWorkflow
<1>4. c \in Callers /\ a = i_input[c] /\ i_op[c] \in {"requested", "started"} /\ a \in Answers
  <2>1. c \in Callers
    BY <1>1, <1>2 DEF Run
  <2>2. a = i_input[c] /\ i_op[c] \in {"requested", "started"}
    BY <1>2, <1>3 DEF NexusInv, RunsAreOfOperations
  <2>3. i_input[c] \in Passed
    BY <2>1 DEF NexusInv, NexusTypes
  <2> QED
    BY <2>1, <2>2, <2>3, AnswersAre
<1>5. /\ AnswersSoFar' /\ i_pc' = i_pc /\ i_attempt' = i_attempt
      /\ i_log' \in [Callers -> Seq(Answers)]
      /\ i_op' \in [Callers -> {"idle", "requested", "started", "failed"}]
      /\ i_op'[c] = "idle" /\ \A d \in Callers : d # c => i_op'[d] = i_op[d]
  BY <1>3, <1>4, Answered DEF NexusInv
<1>6. i_service # "nexus_sync_operations"
  BY <1>1 DEF NexusInv, RunsAreOfOperations
<1>7. /\ i_runs' \in Seq(Run) /\ DOMAIN i_runs' = DOMAIN i_runs
      /\ \A m \in DOMAIN i_runs :
           /\ i_runs'[m].by = i_runs[m].by /\ i_runs'[m].id = i_runs[m].id
           /\ i_runs'[m].of = i_runs[m].of
           /\ i_runs'[m].open => m # n /\ i_runs[m].open
  <2>1. /\ \A m \in DOMAIN i_runs : m # n => i_runs'[m] = i_runs[m]
        /\ i_runs'[n] = [i_runs[n] EXCEPT !.open = FALSE]
        /\ DOMAIN i_runs' = DOMAIN i_runs /\ Len(i_runs') = Len(i_runs)
    BY <1>1, <1>3
  <2>2. \A r \in Run : LET x == [r EXCEPT !.open = FALSE]
                       IN  x \in Run /\ x.by = r.by /\ x.id = r.id /\ x.of = r.of /\ ~x.open
    BY DEF Run
  <2>3. i_runs'[n] \in Run /\ i_runs'[n].by = i_runs[n].by /\ i_runs'[n].id = i_runs[n].id
        /\ i_runs'[n].of = i_runs[n].of /\ ~i_runs'[n].open
    BY <1>1, <2>1, <2>2
  <2> HIDE DEF Run
  <2>4. i_runs' \in Seq(Run)
    BY <1>1, <1>3, <2>1, <2>3
  <2> QED
    BY <2>1, <2>3, <2>4
<1>8. RunsAreOfOperations'
  <2>1. \A d \in Callers : I!Operation(d)' = I!Operation(d) /\ I!id(d)' = I!id(d)
    BY <1>3, <1>5 DEF I!Operation, I!id, I!Operations
  <2>2. \A m \in DOMAIN i_runs : i_runs[m].by \in Callers /\ (m # n => i_runs[m].by # c)
    BY <1>1, <1>2 DEF Run, NexusInv, RunsAreOfOperations
  <2>3. ASSUME NEW m \in DOMAIN i_runs', i_runs'[m].open
        PROVE  /\ i_op'[i_runs'[m].by] \in {"requested", "started"}
               /\ I!Operation(i_runs[m].by)' \in Starts
    BY <1>5, <1>7, <2>1, <2>2, <2>3 DEF NexusInv, RunsAreOfOperations
  <2>4. \A d \in Callers : i_op'[d] = "failed" => i_op[d] = "failed"
    BY <1>4, <1>5
  <2> QED
    BY <1>3, <1>6, <1>7, <2>1, <2>2, <2>3, <2>4 DEF NexusInv, RunsAreOfOperations
<1>9. /\ I!GreetingWorkflow!TypeOK' /\ NexusLock'
      /\ i_previous' \in [I!Updates -> Langs \cup {NoAnswer}]
  BY <1>3, GreetingStays
<1>10. LanguageSoFar'
  BY <1>3, <1>6 DEF LanguageSoFar
<1>11. NexusTypes'
  BY <1>3, <1>5, <1>7, <1>9, TypesStay DEF NexusInv, NexusTypes, I!TypeOK
<1> QED
  BY <1>5, <1>8, <1>9, <1>10, <1>11 DEF NexusInv

\* Each step keeps the invariant.
LEMMA NexusStep == OperationConstants /\ NexusInv /\ [I!Next]_(I!vars) => NexusInv'
<1> SUFFICES ASSUME OperationConstants, NexusInv, [I!Next]_(I!vars)
             PROVE  NexusInv'
  OBVIOUS
<1>1. CASE UNCHANGED I!vars
  <2>1. UNCHANGED <<i_service, i_input, i_pc, i_op, i_attempt, i_log, i_runs, i_previous, i_lost,
                    I!greetingVars>>
    BY <1>1 DEF I!vars, I!callerVars
  <2>2. AnswersSoFar' /\ RunsAreOfOperations'
    BY <2>1 DEF NexusInv, AnswersSoFar, RunsAreOfOperations, I!Operations, I!Operation, I!id
  <2>3. NexusTypes'
    BY <2>1, <2>2, GreetingStays, TypesStay DEF NexusInv, NexusTypes, I!TypeOK
  <2> QED
    BY <2>1, <2>2, <2>3, GreetingStays DEF NexusInv
<1>2. ASSUME NEW c \in Callers, I!CallerStep(c) PROVE NexusInv'
  <2>1. ASSUME NEW u \in {c} \X (1 .. (MaxLostAnswers + 1)), I!GreetingStep(u) PROVE NexusInv'
    <3>1. u \in I!Updates
      BY DEF I!Updates
    <3> QED
      BY <2>1, <3>1, WorkflowStep
  <2>2. ASSUME NEW n \in I!Mine(c), I!RunWorkflow(n) PROVE NexusInv'
    <3>1. n \in DOMAIN i_runs
      BY DEF I!Mine
    <3> QED
      BY <2>2, <3>1, RunStep
  <2> QED
    BY <1>2, <2>1, <2>2, ExecuteStep, ServeStep, SetLanguageStep, UpdateReturnsStep, StartStep
    DEF I!CallerStep
<1>3. ASSUME NEW c \in Callers, I!AskAgain(c) \/ I!Refuse(c) \/ I!LoseStart(c) PROVE NexusInv'
  BY <1>3, LossStep, RefuseStep
<1> QED
  BY <1>1, <1>2, <1>3 DEF I!Next

\* An operation is one run of its workflow, and its answer is made of its own
\* input, however often it is asked for; after set_language the language is
\* set, and only one caller was told that it was another before
\* (hello_nexus/handler/service_handler.py, nexus_sync_operations/handler/
\* service_handler.py, message_passing/introduction/workflows.py:61-96).
THEOREM OperationsAreOne == I!Spec => [](I!TypeOK /\ OperationsAreRight)
<1>0. OperationConstants
  BY MessagePassingAssumption
<1> USE <1>0
<1>1. I!Init => NexusInv
  <2> SUFFICES ASSUME I!Init PROVE NexusInv
    OBVIOUS
  <2>1. /\ i_service \in Samples /\ i_input \in [Callers -> I!Inputs[i_service]]
        /\ i_pc = [c \in Callers |-> 0] /\ i_op = [c \in Callers |-> "idle"]
        /\ i_attempt = [c \in Callers |-> 1] /\ i_log = [c \in Callers |-> <<>>]
        /\ i_runs = <<>> /\ i_previous = [u \in I!Updates |-> NoAnswer] /\ i_lost = 0
        /\ i_greetings = {"ENGLISH", "CHINESE"} /\ i_language = "ENGLISH"
        /\ i_approved = FALSE /\ i_closed = FALSE
        /\ i_asked = [c \in I!Updates |-> "ENGLISH"] /\ i_status = [c \in I!Updates |-> "unsent"]
        /\ i_lockQueue = <<>>
    BY DEF I!Init, I!GreetingWorkflow!Init, I!Operations, Samples
  <2>2. /\ i_input \in [Callers -> Passed] /\ i_service \in DOMAIN I!Operations
        /\ i_service = "nexus_sync_operations" => \A c \in Callers : i_input[c] = "ARABIC"
    BY <2>1 DEF I!Inputs, Passed, Samples, I!Operations
  <2>3. I!GreetingWorkflow!TypeOK
    <3>1. /\ i_asked \in [I!Updates -> {"ENGLISH", "CHINESE", "ARABIC"}]
          /\ i_status \in [I!Updates -> {"unsent", "queued", "fetching", "done", "failed"}]
          /\ <<>> \in Seq(I!Updates)
      BY <2>1
    <3> QED
      BY <2>1, <3>1 DEF I!GreetingWorkflow!TypeOK
  <2>4. /\ MaxLostAnswers \in Nat /\ 1 \in 1 .. (MaxLostAnswers + 1)
        /\ <<>> \in Seq(Answers) /\ <<>> \in Seq(Run) /\ Len(<<>>) = 0
        /\ \A s \in Samples : Len(I!Operations[s]) \in Nat
    BY DEF OperationConstants, I!Operations, Samples
  <2>5. AnswersSoFar
    <3>1. \A c \in Callers : i_pc[c] = 0 /\ i_op[c] = "idle" /\ i_log[c] = <<>>
      BY <2>1
    <3>2. Len(I!Operations[i_service]) \in Nat
      BY <2>1, <2>4
    <3> QED
      BY <2>4, <3>1, <3>2 DEF AnswersSoFar
  <2>6. NexusTypes
    BY <2>1, <2>2, <2>3, <2>4 DEF NexusTypes, I!TypeOK
  <2>7. NexusLock
    BY <2>1, LockIsFree DEF NexusLock
  <2>8. LanguageSoFar
    BY <2>1, <2>2, <2>4 DEF LanguageSoFar, OperationConstants
  <2>9. RunsAreOfOperations
    BY <2>1 DEF RunsAreOfOperations
  <2> QED
    BY <2>5, <2>6, <2>7, <2>8, <2>9 DEF NexusInv
<1>2. NexusInv => I!TypeOK /\ OperationsAreRight
  <2> SUFFICES ASSUME NexusInv PROVE I!OperationIsOneRun /\ I!LanguageIsSet
    BY DEF NexusInv, NexusTypes, OperationsAreRight
  <2>1. I!OperationIsOneRun
    BY DEF NexusInv, AnswersSoFar, RunsAreOfOperations, I!OperationIsOneRun, I!Mine
  <2>2. I!LanguageIsSet
    <3> SUFFICES ASSUME i_service = "nexus_sync_operations" PROVE I!LanguageIsSet
      BY DEF I!LanguageIsSet
    <3>1. ASSUME i_lost = 0, i_language = "ARABIC"
          PROVE  \E c \in Callers : i_previous[<<c, 1>>] = "ENGLISH"
      <4>1. PICK u \in I!Updates : i_previous[u] = "ENGLISH"
        BY <3>1 DEF NexusInv, LanguageSoFar
      <4>2. u[1] \in Callers /\ u[2] \in 1 .. (MaxLostAnswers + 1) /\ u = <<u[1], u[2]>>
        BY DEF I!Updates
      <4>3. u[2] <= i_attempt[u[1]] /\ i_attempt[u[1]] <= i_lost + 1
        BY <4>1, <4>2 DEF NexusInv, LanguageSoFar, OperationConstants
      <4>4. i_attempt[u[1]] \in Int
        BY <4>2 DEF NexusInv, NexusTypes, I!TypeOK
      <4>5. u[2] = 1
        BY <3>1, <4>2, <4>3, <4>4
      <4> QED
        BY <4>1, <4>2, <4>5
    <3> QED
      BY <3>1 DEF NexusInv, LanguageSoFar, I!LanguageIsSet
  <2> QED
    BY <2>1, <2>2
<1> QED
  BY <1>1, <1>2, NexusStep, PTL DEF I!Spec
=============================================================================
