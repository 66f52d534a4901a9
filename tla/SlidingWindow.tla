---------------------------- MODULE SlidingWindow ----------------------------
(***************************************************************************)
(* batch_sliding_window: SlidingWindowWorkflow and the                     *)
(* RecordProcessorWorkflows it starts, for several windows side by side.   *)
(*                                                                         *)
(* A window starts one child per record of its range, at most Size[w] at a *)
(* time, and continues as new after each page.  Its children outlive the   *)
(* run that started them (ABANDON) and report to the workflow id, so a     *)
(* report may reach the window in any run.                                 *)
(*                                                                         *)
(* The handler of the reports is registered by run: what arrives earlier   *)
(* is buffered, and is handled only after run has put the carried          *)
(* current_records and progress in place.  Those two are one variable each *)
(* here, whether a run holds them or the input of the next one.            *)
(***************************************************************************)
EXTENDS Integers, Sequences, FiniteSets

CONSTANTS
  Windows,          \* the windows, one per partition
  From, To, Size,   \* their offset (inclusive), maximum_offset (exclusive), window size
  PageSize,         \* children started by one run
  MaxLost,          \* bound: children that die without reporting
  MaxInbox          \* bound: a report is repeated only into an inbox shorter than this

ASSUME WindowAssumption ==
  /\ From \in [Windows -> Nat] /\ To \in [Windows -> Nat] /\ Size \in [Windows -> Nat]
  /\ PageSize \in Nat \ {0} /\ MaxLost \in Nat /\ MaxInbox \in Nat

VARIABLES
  pc,               \* where the window's run is suspended
  offset,           \* input.offset of this run
  next, limit,      \* the records of the page still to be started
  started,          \* len(children_started_by_this_run)
  current_records, progress,
  inbox,            \* report_completion signals not handled yet
  running, done, lost   \* the children: at work, reported, dead

windowVars == <<pc, offset, next, limit, started, current_records, progress>>
childVars == <<running, done, lost>>
vars == <<pc, offset, next, limit, started, current_records, progress, inbox,
          running, done, lost>>

\* Variants: the page is not cut off; the window is compared with <=; the
\* child whose start was awaited last is not counted.
Former(a, b) == a
HasRoomForOneMore(w) == Cardinality(current_records[w]) <= Size[w]
NextOffsetTooLow(w) == offset[w] + started[w]

Lesser(a, b) == IF a < b THEN a ELSE b
HasRoom(w)   == Cardinality(current_records[w]) < Size[w]
\* The offset of the next run, with the child just started.
NextOffset(w) == offset[w] + started[w] + 1
Started(w)   == running[w] \cup done[w] \cup lost[w]

Init ==
  /\ pc = [w \in Windows |-> "absent"]
  /\ offset = From
  /\ next = From /\ limit = From
  /\ started = [w \in Windows |-> 0]
  /\ current_records = [w \in Windows |-> {}] /\ progress = [w \in Windows |-> 0]
  /\ inbox = [w \in Windows |-> <<>>]
  /\ running = [w \in Windows |-> {}] /\ done = running /\ lost = running

-----------------------------------------------------------------------------
(* The window *)

\* run, up to the first await.
Begin(w) ==
  /\ pc[w] = "new"
  /\ pc' = [pc EXCEPT ![w] = IF offset[w] < To[w] THEN "loading" ELSE "draining"]
  /\ UNCHANGED <<offset, next, limit, started, current_records, progress, inbox, childVars>>

\* get_records returns the page.
Load(w) ==
  /\ pc[w] = "loading"
  /\ next' = [next EXCEPT ![w] = offset[w]]
  /\ limit' = [limit EXCEPT ![w] = Lesser(offset[w] + PageSize, To[w])]
  /\ pc' = [pc EXCEPT ![w] = "waiting"]
  /\ UNCHANGED <<offset, started, current_records, progress, inbox, childVars>>

\* There is room in the window: the next record is entered and its child is
\* started.
StartChild(w) ==
  /\ pc[w] = "waiting" /\ HasRoom(w)
  /\ current_records' = [current_records EXCEPT ![w] = @ \cup {next[w]}]
  /\ running' = [running EXCEPT ![w] = @ \cup {next[w]}]
  /\ pc' = [pc EXCEPT ![w] = "starting"]
  /\ UNCHANGED <<offset, next, limit, started, progress, inbox, done, lost>>

\* The start is confirmed, perhaps after the child has reported.  Then the next
\* record of the page, or continue-as-new at the records not started yet, or
\* the end of the last run.
ChildStarted(w) ==
  /\ pc[w] = "starting"
  /\ next' = [next EXCEPT ![w] = @ + 1]
  /\ \/ /\ next[w] + 1 < limit[w]
        /\ started' = [started EXCEPT ![w] = @ + 1]
        /\ pc' = [pc EXCEPT ![w] = "waiting"]
        /\ UNCHANGED offset
     \/ /\ next[w] + 1 >= limit[w] /\ NextOffset(w) < To[w]
        /\ offset' = [offset EXCEPT ![w] = NextOffset(w)]
        /\ started' = [started EXCEPT ![w] = 0]
        /\ pc' = [pc EXCEPT ![w] = "new"]
     \/ /\ next[w] + 1 >= limit[w] /\ NextOffset(w) >= To[w]
        /\ started' = [started EXCEPT ![w] = @ + 1]
        /\ pc' = [pc EXCEPT ![w] = "draining"]
        /\ UNCHANGED offset
  /\ UNCHANGED <<limit, current_records, progress, inbox, childVars>>

\* Variant: the handler is there before run has restored current_records.
HandleReportEarly(w) ==
  /\ pc[w] \in {"new", "loading", "waiting", "starting", "draining"} /\ inbox[w] # <<>>
  /\ IF pc[w] # "new" /\ Head(inbox[w]) \in current_records[w]
     THEN /\ current_records' = [current_records EXCEPT ![w] = @ \ {Head(inbox[w])}]
          /\ progress' = [progress EXCEPT ![w] = @ + 1]
     ELSE UNCHANGED <<current_records, progress>>
  /\ inbox' = [inbox EXCEPT ![w] = Tail(@)]
  /\ UNCHANGED <<pc, offset, next, limit, started, childVars>>

HandleReport(w) ==
  /\ pc[w] \in {"loading", "waiting", "starting", "draining"} /\ inbox[w] # <<>>
  /\ \/ /\ Head(inbox[w]) \in current_records[w]
        /\ current_records' = [current_records EXCEPT ![w] = @ \ {Head(inbox[w])}]
        /\ progress' = [progress EXCEPT ![w] = @ + 1]
     \/ /\ Head(inbox[w]) \notin current_records[w]
        /\ UNCHANGED <<current_records, progress>>
  /\ inbox' = [inbox EXCEPT ![w] = Tail(@)]
  /\ UNCHANGED <<pc, offset, next, limit, started, childVars>>

\* Variant: the last run does not wait for its children.
CompleteEarly(w) ==
  /\ pc[w] = "draining"
  /\ pc' = [pc EXCEPT ![w] = "closed"]
  /\ UNCHANGED <<offset, next, limit, started, current_records, progress, inbox, childVars>>

\* The last child has reported: run returns progress.
Complete(w) ==
  /\ pc[w] = "draining" /\ current_records[w] = {}
  /\ pc' = [pc EXCEPT ![w] = "closed"]
  /\ UNCHANGED <<offset, next, limit, started, current_records, progress, inbox, childVars>>

-----------------------------------------------------------------------------
(* The children *)

\* The record is processed and its parent told.
Report(w, r) ==
  /\ r \in running[w]
  /\ running' = [running EXCEPT ![w] = @ \ {r}]
  /\ done' = [done EXCEPT ![w] = @ \cup {r}]
  /\ inbox' = [inbox EXCEPT ![w] = Append(@, r)]
  /\ UNCHANGED <<windowVars, lost>>

\* The end of a child is run again (a reset): the report is sent twice.
ReportAgain(w, r) ==
  /\ r \in done[w] /\ pc[w] # "closed" /\ Len(inbox[w]) < MaxInbox
  /\ inbox' = [inbox EXCEPT ![w] = Append(@, r)]
  /\ UNCHANGED <<windowVars, childVars>>

\* The child is terminated, or fails, before it reports.
Die(w, r) ==
  /\ r \in running[w] /\ Cardinality(lost[w]) < MaxLost
  /\ running' = [running EXCEPT ![w] = @ \ {r}]
  /\ lost' = [lost EXCEPT ![w] = @ \cup {r}]
  /\ UNCHANGED <<windowVars, inbox, done>>

-----------------------------------------------------------------------------
RunStep(w) == Begin(w) \/ Load(w) \/ StartChild(w) \/ ChildStarted(w) \/ Complete(w)

ChildStep(w) == \/ \E r \in running[w] : Report(w, r) \/ Die(w, r)
                \/ \E r \in done[w] : ReportAgain(w, r)

Step(w) == RunStep(w) \/ HandleReport(w) \/ ChildStep(w)

\* The batch starts the windows as its children.
Launch == /\ \A w \in Windows : pc[w] = "absent"
          /\ pc' = [w \in Windows |-> "new"]
          /\ UNCHANGED <<offset, next, limit, started, current_records, progress, inbox,
                         childVars>>

Next == Launch \/ \E w \in Windows : Step(w)

Spec == Init /\ [][Next]_vars

-----------------------------------------------------------------------------
(* Properties *)

Types ==
  /\ pc \in [Windows -> {"absent", "new", "loading", "waiting", "starting",
                         "draining", "closed"}]
  /\ offset \in [Windows -> Nat] /\ next \in [Windows -> Nat] /\ limit \in [Windows -> Nat]
  /\ started \in [Windows -> Nat] /\ progress \in [Windows -> Nat]
  /\ current_records \in [Windows -> SUBSET Nat]
  /\ inbox \in [Windows -> Seq(Nat)]
  /\ running \in [Windows -> SUBSET Nat]
  /\ done \in [Windows -> SUBSET Nat] /\ lost \in [Windows -> SUBSET Nat]

\* Every variable has its type, and a window stays in its range.
TypeOK ==
  /\ Types
  /\ \A w \in Windows : Started(w) \subseteq From[w] .. (To[w] - 1)

\* Over all runs of a window, never more of its children are at work than its
\* window size.
WindowHolds == \A w \in Windows : Cardinality(running[w]) <= Size[w]

\* No report is ever lost: a record the window waits for is being processed, or
\* its report is on the way, or its child died.
NoReportIsLost ==
  \A w \in Windows : \A r \in current_records[w] :
    r \in running[w] \cup lost[w] \/ \E i \in DOMAIN inbox[w] : inbox[w][i] = r

\* Whatever is repeated or arrives early or late, every record started is
\* counted in progress or still waited for, once.
EachRecordCounts ==
  \A w \in Windows :
    /\ current_records[w] \subseteq Started(w)
    /\ Cardinality(Started(w)) = progress[w] + Cardinality(current_records[w])

\* A window returns only when every record of its range has been processed,
\* and returns their number.
ReturnsWhenAllDone ==
  \A w \in Windows : pc[w] = "closed" =>
    done[w] = From[w] .. (To[w] - 1) /\ progress[w] = Cardinality(done[w])

\* No child is started twice for one record, in whatever run.
NeverStartedTwice ==
  [][\A w \in Windows : \A r \in current_records'[w] \ current_records[w] :
       r \notin Started(w)]_vars
=============================================================================
