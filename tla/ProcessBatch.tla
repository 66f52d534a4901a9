---------------------------- MODULE ProcessBatch ----------------------------
(***************************************************************************)
(* batch_sliding_window: ProcessBatchWorkflow, which cuts the records into *)
(* contiguous partitions, starts a sliding window on each and adds up what *)
(* they return.  The windows are those of SlidingWindow.tla.               *)
(***************************************************************************)
EXTENDS SlidingWindow, Functions

CONSTANTS
  RecordCount,       \* what get_record_count returns
  Partitions, SlidingWindowSize,    \* of ProcessBatchWorkflowInput
  None

VARIABLES
  batch,             \* where ProcessBatchWorkflow is suspended
  result

batchVars == <<batch, result>>

Parts == 0 .. (Partitions - 1)

\* Variant: the remainder is not handed out.
DivideRoundsDown(number, n) == [i \in 0 .. (n - 1) |-> number \div n]

\* As evenly as possible: the first ones take one more each.
DivideIntoPartitions(number, n) ==
  [i \in 0 .. (n - 1) |-> number \div n + (IF i < number % n THEN 1 ELSE 0)]

PartitionSize == DivideIntoPartitions(RecordCount, Partitions)
WindowSizes   == DivideIntoPartitions(SlidingWindowSize, Partitions)

\* The offset accumulates over the partitions before.
PartitionFrom ==
  [p \in Parts |-> FoldFunctionOnSet(+, 0, PartitionSize, 0 .. (p - 1))]
PartitionTo ==
  [p \in Parts |-> Lesser(PartitionFrom[p] + PartitionSize[p], RecordCount)]

\* The windows of SlidingWindow are the ones the batch starts.
ASSUME BatchAssumption ==
  /\ RecordCount \in Nat /\ Partitions \in Nat \ {0} /\ SlidingWindowSize \in Nat
  /\ Windows = Parts /\ Size = WindowSizes
  /\ From = PartitionFrom /\ To = PartitionTo
  /\ None \notin Nat

BatchInit == Init /\ batch = "counting" /\ result = None

-----------------------------------------------------------------------------
\* get_record_count has returned.
Counted ==
  /\ batch = "counting"
  /\ IF SlidingWindowSize < Partitions
     THEN batch' = "failed" /\ UNCHANGED vars
     ELSE batch' = "gathering" /\ Launch
  /\ UNCHANGED result

\* gather returns when every window has; the workflow returns the sum.
Gather ==
  /\ batch = "gathering"
  /\ \A p \in Parts : pc[p] = "closed"
  /\ result' = FoldFunction(+, 0, progress)
  /\ batch' = "done"
  /\ UNCHANGED vars

BatchNext == Counted \/ Gather \/ \E p \in Parts : Step(p) /\ UNCHANGED batchVars

\* Workers go on and children finish, so every suspended step is resumed; a
\* child need not die or repeat itself.
BatchFairness ==
  /\ WF_<<vars, batchVars>>(Counted) /\ WF_<<vars, batchVars>>(Gather)
  /\ \A p \in Parts :
       /\ WF_<<vars, batchVars>>(RunStep(p) /\ UNCHANGED batchVars)
       /\ WF_<<vars, batchVars>>(HandleReport(p) /\ UNCHANGED batchVars)
       /\ \A r \in 0 .. (RecordCount - 1) :
            WF_<<vars, batchVars>>(Report(p, r) /\ UNCHANGED batchVars)

BatchSpec == BatchInit /\ [][BatchNext]_<<vars, batchVars>> /\ BatchFairness

-----------------------------------------------------------------------------
(* Properties *)

\* Every variable has its type, and a batch that is done has its result.
BatchTypeOK == /\ TypeOK
               /\ batch \in {"counting", "gathering", "done", "failed"}
               /\ result \in Nat \cup {None}
               /\ (batch = "done") <=> (result # None)

\* The windows together keep the promise of the batch: each record once, in
\* only one window, never more than SlidingWindowSize at a time, and the number
\* of all of them returned.
Bounded == INSTANCE BoundedBatch WITH
  Records <- 0 .. (RecordCount - 1),
  Limit <- SlidingWindowSize,
  NoResult <- None,
  waiting <- (0 .. (RecordCount - 1)) \ UNION {Started(p) : p \in Parts},
  working <- UNION {running[p] : p \in Parts},
  processed <- UNION {done[p] : p \in Parts},
  answer <- result
ImplementsBounded == Bounded!Spec

\* The batch returns, or refuses its input, unless a child dies without
\* reporting: no report reaches a window at a moment when it is overlooked.
BatchReturns == <>(batch \in {"done", "failed"} \/ \E p \in Parts : lost[p] # {})
=============================================================================
