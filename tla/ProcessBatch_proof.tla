------------------------- MODULE ProcessBatch_proof -------------------------
(***************************************************************************)
(* Proofs about SlidingWindow, for every number of windows, their ranges   *)
(* and sizes, and every page size: what the window bounds, that no report  *)
(* is lost or counted twice, and that a window returns when all is done.   *)
(* Then about ProcessBatch, for every number of records and partitions and *)
(* every window size: the partitions cut the records up without gap or     *)
(* overlap, what holds of windows holds of those of the batch, and         *)
(* together they implement BoundedBatch.                                   *)
(***************************************************************************)
EXTENDS ProcessBatch, Data_proof

-----------------------------------------------------------------------------
(* The inductive invariant *)

\* The first record of the window that has no child yet.
Frontier(w) == CASE pc[w] = "waiting"  -> next[w]
                 [] pc[w] = "starting" -> next[w] + 1
                 [] OTHER              -> offset[w]

\* The records started are those of the range below the frontier, in whatever
\* run they were started; a draining or closed window has started them all.
StartedUpToFrontier(w) ==
  IF pc[w] \in {"draining", "closed"}
  THEN Started(w) = From[w] .. (To[w] - 1)
  ELSE /\ Started(w) = From[w] .. (Frontier(w) - 1)
       /\ From[w] <= offset[w] /\ (offset[w] < To[w] \/ offset[w] = From[w])

\* The page of the run: it is being worked off from offset to limit.
PageInRange(w) ==
  /\ pc[w] \in {"absent", "new", "loading"} => started[w] = 0
  /\ pc[w] = "loading" => offset[w] < To[w]
  /\ pc[w] \in {"waiting", "starting"} =>
       next[w] = offset[w] + started[w] /\ next[w] < limit[w] /\ limit[w] <= To[w]

\* A child is at work, has reported or is dead.
ChildrenDisjoint(w) ==
  running[w] \cap done[w] = {} /\ running[w] \cap lost[w] = {} /\ done[w] \cap lost[w] = {}

\* Only a child that is finished has reported; the window waits for every
\* other one, and for every report that is still on the way.
ReportsAreOfDone(w) ==
  /\ \A i \in DOMAIN inbox[w] : inbox[w][i] \in done[w]
  /\ running[w] \cup lost[w] \subseteq current_records[w]
  /\ \A r \in current_records[w] \cap done[w] : \E i \in DOMAIN inbox[w] : inbox[w][i] = r

\* The books of the window: what it has counted and what it waits for.
WindowBooks(w) ==
  /\ current_records[w] \subseteq Started(w)
  /\ Cardinality(current_records[w]) <= Size[w]
  /\ Cardinality(Started(w)) = progress[w] + Cardinality(current_records[w])
  /\ pc[w] = "closed" => current_records[w] = {}

WindowInv(w) == /\ StartedUpToFrontier(w) /\ PageInRange(w)
                /\ ChildrenDisjoint(w) /\ ReportsAreOfDone(w) /\ WindowBooks(w)

IInv == \A w \in Windows : WindowInv(w)

\* The invariant of a window is about that window's part of the state alone.
SameWindow(w) ==
  /\ pc'[w] = pc[w] /\ offset'[w] = offset[w] /\ next'[w] = next[w] /\ limit'[w] = limit[w]
  /\ started'[w] = started[w] /\ progress'[w] = progress[w]
  /\ current_records'[w] = current_records[w] /\ inbox'[w] = inbox[w]
  /\ running'[w] = running[w] /\ done'[w] = done[w] /\ lost'[w] = lost[w]

LEMMA SameWindowInv ==
  ASSUME NEW w \in Windows, SameWindow(w), WindowInv(w)
  PROVE  WindowInv(w)'
BY DEF SameWindow, WindowInv, StartedUpToFrontier, PageInRange, ChildrenDisjoint,
       ReportsAreOfDone, WindowBooks, Frontier, Started

-----------------------------------------------------------------------------
(* Types *)

LEMMA InitTypes == Init => Types
BY WindowAssumption DEF Init, Types

LEMMA StepTypes == Types /\ [Next]_vars => Types'
<1> SUFFICES ASSUME Types, [Next]_vars PROVE Types'
  OBVIOUS
<1> USE DEF Types
<1>1. ASSUME NEW w \in Windows, Step(w) PROVE Types'
  <2>1. CASE Begin(w)
    BY <2>1 DEF Begin, childVars
  <2>2. CASE Load(w)
    <3>1. Lesser(offset[w] + PageSize, To[w]) \in Nat
      BY WindowAssumption DEF Lesser
    <3> QED
      BY <2>2, <3>1 DEF Load, childVars
  <2>3. CASE StartChild(w)
    BY <2>3 DEF StartChild
  <2>4. CASE ChildStarted(w)
    <3>1. NextOffset(w) \in Nat /\ started[w] + 1 \in Nat
      BY DEF NextOffset
    <3>2. offset' = offset \/ offset' = [offset EXCEPT ![w] = NextOffset(w)]
      BY <2>4 DEF ChildStarted
    <3>3. \/ started' = [started EXCEPT ![w] = started[w] + 1]
          \/ started' = [started EXCEPT ![w] = 0]
      BY <2>4 DEF ChildStarted
    <3>4. \/ pc' = [pc EXCEPT ![w] = "waiting"]
          \/ pc' = [pc EXCEPT ![w] = "new"]
          \/ pc' = [pc EXCEPT ![w] = "draining"]
      BY <2>4 DEF ChildStarted
    <3>5. offset' \in [Windows -> Nat]
      BY <3>1, <3>2
    <3>6. started' \in [Windows -> Nat]
      <4>1. CASE started' = [started EXCEPT ![w] = 0]
        BY <4>1
      <4> QED
        BY <3>1, <3>3, <4>1
    <3>7. pc' \in [Windows -> {"absent", "new", "loading", "waiting", "starting",
                               "draining", "closed"}]
      BY <3>4
    <3>8. /\ next' = [next EXCEPT ![w] = next[w] + 1]
          /\ UNCHANGED <<limit, current_records, progress, inbox, running, done, lost>>
      BY <2>4 DEF ChildStarted, childVars
    <3> QED
      BY <3>5, <3>6, <3>7, <3>8
  <2>5. CASE Complete(w)
    BY <2>5 DEF Complete, childVars
  <2>6. CASE HandleReport(w)
    <3>1. Tail(inbox[w]) \in Seq(Nat)
      BY <2>6 DEF HandleReport
    <3>2. inbox' \in [Windows -> Seq(Nat)]
      BY <2>6, <3>1 DEF HandleReport
    <3>3. \/ UNCHANGED <<current_records, progress>>
          \/ /\ current_records' =
                  [current_records EXCEPT ![w] = current_records[w] \ {Head(inbox[w])}]
             /\ progress' = [progress EXCEPT ![w] = progress[w] + 1]
      BY <2>6 DEF HandleReport
    <3>4. current_records' \in [Windows -> SUBSET Nat]
      <4>1. CASE current_records' = current_records
        BY <4>1
      <4>2. CASE current_records' =
                   [current_records EXCEPT ![w] = current_records[w] \ {Head(inbox[w])}]
        BY <4>2
      <4> QED
        BY <3>3, <4>1, <4>2
    <3>5. progress' \in [Windows -> Nat]
      BY <3>3
    <3>6. UNCHANGED <<pc, offset, next, limit, started, running, done, lost>>
      BY <2>6 DEF HandleReport, childVars
    <3> QED
      BY <3>2, <3>4, <3>5, <3>6
  <2>7. ASSUME NEW r \in running[w], Report(w, r) PROVE Types'
    <3>1. UNCHANGED <<pc, offset, next, limit, started, current_records, progress, lost>>
      BY <2>7 DEF Report, windowVars
    <3>2. /\ running' = [running EXCEPT ![w] = @ \ {r}] /\ done' = [done EXCEPT ![w] = @ \cup {r}]
          /\ inbox' = [inbox EXCEPT ![w] = Append(@, r)]
      BY <2>7 DEF Report
    <3>3. r \in Nat
      BY <2>7
    <3>4. running' \in [Windows -> SUBSET Nat] /\ done' \in [Windows -> SUBSET Nat]
      BY <3>2, <3>3
    <3>5. inbox' \in [Windows -> Seq(Nat)]
      BY <3>2, <3>3
    <3> QED
      BY <3>1, <3>4, <3>5
  <2>8. ASSUME NEW r \in running[w], Die(w, r) PROVE Types'
    BY <2>8 DEF Die, windowVars
  <2>9. ASSUME NEW r \in done[w], ReportAgain(w, r) PROVE Types'
    BY <2>9 DEF ReportAgain, windowVars, childVars
  <2> QED
    BY <1>1, <2>1, <2>2, <2>3, <2>4, <2>5, <2>6, <2>7, <2>8, <2>9 DEF Step, RunStep, ChildStep
<1>2. CASE Launch
  BY <1>2 DEF Launch, childVars
<1>3. CASE UNCHANGED vars
  BY <1>3 DEF vars
<1> QED
  BY <1>1, <1>2, <1>3 DEF Next

-----------------------------------------------------------------------------
(* The invariant holds at the start *)

LEMMA InitIInv == Init => IInv
<1> SUFFICES ASSUME Init, NEW w \in Windows PROVE WindowInv(w)
  BY DEF IInv
<1>1. From[w] .. (From[w] - 1) = {} /\ Started(w) = {}
  BY WindowAssumption DEF Init, Started
<1>2. Cardinality({}) = 0
  BY FS_EmptySet
<1> QED
  BY <1>1, <1>2, WindowAssumption DEF Init, WindowInv, StartedUpToFrontier, PageInRange,
     ChildrenDisjoint, ReportsAreOfDone, WindowBooks, Frontier, Started

-----------------------------------------------------------------------------
(* Each step of a window keeps its invariant *)

\* The records of a window are those of an interval, and can be counted.
LEMMA WindowFinite ==
  ASSUME Types, NEW w \in Windows, WindowInv(w)
  PROVE  /\ IsFiniteSet(Started(w)) /\ Cardinality(Started(w)) \in Nat
         /\ IsFiniteSet(current_records[w]) /\ Cardinality(current_records[w]) \in Nat
<1>1. PICK n \in Int : Started(w) = From[w] .. n
  BY WindowAssumption DEF WindowInv, StartedUpToFrontier, Frontier, Types
<1>2. IsFiniteSet(Started(w))
  BY <1>1, FS_Interval, WindowAssumption
<1>3. IsFiniteSet(current_records[w])
  BY <1>2, FS_Subset DEF WindowInv, WindowBooks
<1> QED
  BY <1>2, <1>3, FS_CardinalityType

LEMMA WindowTypes ==
  ASSUME Types, NEW w \in Windows
  PROVE  /\ From[w] \in Nat /\ To[w] \in Nat /\ Size[w] \in Nat
         /\ offset[w] \in Nat /\ next[w] \in Nat /\ limit[w] \in Nat
         /\ started[w] \in Nat /\ progress[w] \in Nat
BY WindowAssumption DEF Types

LEMMA BeginInv ==
  ASSUME Types, NEW w \in Windows, WindowInv(w), Begin(w)
  PROVE  WindowInv(w)'
<1>1. /\ pc[w] = "new" /\ offset'[w] = offset[w] /\ Started(w)' = Started(w)
      /\ pc'[w] = IF offset[w] < To[w] THEN "loading" ELSE "draining"
  BY DEF Begin, Types, childVars, Started
<1>2. StartedUpToFrontier(w)'
  <2>1. /\ Started(w) = From[w] .. (offset[w] - 1)
        /\ From[w] <= offset[w] /\ (offset[w] < To[w] \/ offset[w] = From[w])
    BY <1>1 DEF WindowInv, StartedUpToFrontier, Frontier
  <2>2. CASE offset[w] < To[w]
    BY <1>1, <2>1, <2>2 DEF StartedUpToFrontier, Frontier
  <2>3. CASE ~(offset[w] < To[w])
    <3>1. From[w] .. (offset[w] - 1) = {} /\ From[w] .. (To[w] - 1) = {}
      BY <2>1, <2>3, WindowTypes
    <3> QED
      BY <1>1, <2>1, <2>3, <3>1 DEF StartedUpToFrontier
  <2> QED
    BY <2>2, <2>3
<1>3. PageInRange(w)'
  BY <1>1 DEF Begin, WindowInv, PageInRange
<1>4. ChildrenDisjoint(w)' /\ ReportsAreOfDone(w)' /\ WindowBooks(w)'
  BY <1>1 DEF Begin, childVars, WindowInv, ChildrenDisjoint, ReportsAreOfDone, WindowBooks
<1> QED
  BY <1>2, <1>3, <1>4 DEF WindowInv

LEMMA LoadInv ==
  ASSUME Types, NEW w \in Windows, WindowInv(w), Load(w)
  PROVE  WindowInv(w)'
<1>1. /\ pc[w] = "loading" /\ pc'[w] = "waiting" /\ Started(w)' = Started(w)
      /\ offset'[w] = offset[w] /\ next'[w] = offset[w] /\ started'[w] = started[w]
      /\ limit'[w] = Lesser(offset[w] + PageSize, To[w])
  BY DEF Load, Types, childVars, Started
<1>2. StartedUpToFrontier(w)'
  BY <1>1 DEF WindowInv, StartedUpToFrontier, Frontier
<1>3. PageInRange(w)'
  BY <1>1, WindowTypes, WindowAssumption DEF WindowInv, PageInRange, Lesser
<1>4. ChildrenDisjoint(w)' /\ ReportsAreOfDone(w)' /\ WindowBooks(w)'
  BY <1>1 DEF Load, childVars, WindowInv, ChildrenDisjoint, ReportsAreOfDone, WindowBooks
<1> QED
  BY <1>2, <1>3, <1>4 DEF WindowInv

LEMMA StartChildInv ==
  ASSUME Types, NEW w \in Windows, WindowInv(w), StartChild(w)
  PROVE  WindowInv(w)'
<1> DEFINE x == next[w]
<1>1. /\ x \in Nat /\ x = Frontier(w) /\ From[w] <= x
      /\ Started(w) = From[w] .. (x - 1) /\ x \notin Started(w)
  <2>1. /\ pc[w] = "waiting" /\ x = offset[w] + started[w] /\ x = Frontier(w)
        /\ Started(w) = From[w] .. (Frontier(w) - 1) /\ From[w] <= offset[w]
    BY DEF StartChild, WindowInv, StartedUpToFrontier, PageInRange, Frontier
  <2> QED
    BY <2>1, WindowTypes
<1>2. /\ current_records'[w] = current_records[w] \cup {x}
      /\ running'[w] = running[w] \cup {x} /\ done'[w] = done[w] /\ lost'[w] = lost[w]
      /\ next'[w] = x /\ pc'[w] = "starting" /\ offset'[w] = offset[w]
      /\ inbox'[w] = inbox[w]
      /\ limit'[w] = limit[w] /\ started'[w] = started[w] /\ progress'[w] = progress[w]
  BY DEF StartChild, Types
<1>3. Started(w)' = Started(w) \cup {x}
  BY <1>2 DEF Started
<1>4. x \notin current_records[w] /\ x \notin running[w] /\ x \notin done[w] /\ x \notin lost[w]
  BY <1>1 DEF WindowInv, WindowBooks, Started
<1>5. StartedUpToFrontier(w)'
  BY <1>1, <1>2, <1>3, WindowAssumption
  DEF StartedUpToFrontier, Frontier, StartChild, WindowInv, Types
<1>6. PageInRange(w)'
  BY <1>2 DEF PageInRange, StartChild, WindowInv
<1>7. ChildrenDisjoint(w)'
  BY <1>2, <1>4 DEF ChildrenDisjoint, WindowInv
<1>8. ReportsAreOfDone(w)'
  BY <1>2, <1>4 DEF ReportsAreOfDone, WindowInv
<1>9. /\ Cardinality(Started(w)') = Cardinality(Started(w)) + 1
      /\ Cardinality(current_records'[w]) = Cardinality(current_records[w]) + 1
  <2>1. Cardinality(Started(w) \cup {x}) = Cardinality(Started(w)) + 1
    BY <1>1, WindowFinite, FS_AddElement
  <2>2. Cardinality(current_records[w] \cup {x}) = Cardinality(current_records[w]) + 1
    BY <1>4, WindowFinite, FS_AddElement
  <2> QED
    BY <1>2, <1>3, <2>1, <2>2
<1>10. WindowBooks(w)'
  <2>1. Cardinality(current_records'[w]) <= Size[w]
    BY <1>9, WindowFinite, WindowTypes DEF StartChild, HasRoom
  <2>2. Cardinality(Started(w)') = progress'[w] + Cardinality(current_records'[w])
    <3>1. Cardinality(Started(w)) = progress[w] + Cardinality(current_records[w])
      BY DEF WindowInv, WindowBooks
    <3> QED
      BY <1>2, <1>9, <3>1, WindowFinite, WindowTypes
  <2> QED
    BY <1>2, <1>3, <2>1, <2>2 DEF WindowInv, WindowBooks
<1> QED
  BY <1>5, <1>6, <1>7, <1>8, <1>10 DEF WindowInv

LEMMA ChildStartedInv ==
  ASSUME Types, NEW w \in Windows, WindowInv(w), ChildStarted(w)
  PROVE  WindowInv(w)'
<1>1. /\ next[w] = offset[w] + started[w] /\ next[w] < limit[w] /\ limit[w] <= To[w]
      /\ Started(w) = From[w] .. next[w]
      /\ From[w] <= offset[w] /\ offset[w] < To[w]
  <2>1. /\ pc[w] = "starting" /\ Started(w) = From[w] .. (Frontier(w) - 1)
        /\ From[w] <= offset[w] /\ Frontier(w) = next[w] + 1
        /\ next[w] = offset[w] + started[w] /\ next[w] < limit[w] /\ limit[w] <= To[w]
    BY DEF ChildStarted, WindowInv, StartedUpToFrontier, PageInRange, Frontier
  <2> QED
    BY <2>1, WindowTypes
<1>2. /\ next'[w] = next[w] + 1 /\ limit'[w] = limit[w] /\ Started(w)' = Started(w)
      /\ current_records'[w] = current_records[w] /\ progress'[w] = progress[w]
      /\ inbox'[w] = inbox[w]
      /\ running'[w] = running[w] /\ done'[w] = done[w] /\ lost'[w] = lost[w]
  BY DEF ChildStarted, Types, childVars, Started
<1>3. /\ pc[w] # "closed" /\ pc'[w] # "closed"
      /\ \/ /\ next[w] + 1 < limit[w] /\ pc'[w] = "waiting"
            /\ started'[w] = started[w] + 1 /\ offset'[w] = offset[w]
         \/ /\ next[w] + 1 >= limit[w] /\ NextOffset(w) < To[w] /\ pc'[w] = "new"
            /\ started'[w] = 0 /\ offset'[w] = NextOffset(w)
         \/ /\ next[w] + 1 >= limit[w] /\ NextOffset(w) >= To[w] /\ pc'[w] = "draining"
            /\ offset'[w] = offset[w]
  BY DEF ChildStarted, Types
<1>4. NextOffset(w) = next[w] + 1
  BY <1>1, WindowTypes DEF NextOffset
<1>5. StartedUpToFrontier(w)' /\ PageInRange(w)'
  <2>1. CASE pc'[w] = "waiting"
    <3>1. /\ next[w] + 1 < limit[w] /\ started'[w] = started[w] + 1
          /\ offset'[w] = offset[w]
      BY <1>3, <2>1
    <3>2. /\ next'[w] = offset'[w] + started'[w] /\ next'[w] < limit'[w]
          /\ limit'[w] <= To[w] /\ From[w] <= offset'[w] /\ offset'[w] < To[w]
          /\ next'[w] - 1 = next[w]
      <4>1. next'[w] = next[w] + 1 /\ limit'[w] = limit[w]
        BY <1>2
      <4>2. /\ next[w] = offset[w] + started[w] /\ limit[w] <= To[w]
            /\ From[w] <= offset[w] /\ offset[w] < To[w]
        BY <1>1
      <4> QED
        BY <3>1, <4>1, <4>2, WindowTypes
    <3> QED
      BY <1>1, <1>2, <2>1, <3>2 DEF StartedUpToFrontier, PageInRange, Frontier
  <2>2. CASE pc'[w] = "new"
    BY <1>1, <1>2, <1>3, <1>4, <2>2, WindowTypes
    DEF StartedUpToFrontier, PageInRange, Frontier
  <2>3. CASE pc'[w] = "draining"
    <3>1. next[w] + 1 >= limit[w] /\ NextOffset(w) >= To[w]
      BY <1>3, <2>3
    <3>2. next[w] = To[w] - 1
      BY <1>1, <1>4, <3>1, WindowTypes
    <3> QED
      BY <1>1, <1>2, <2>3, <3>2 DEF StartedUpToFrontier, PageInRange
  <2> QED
    BY <1>3, <2>1, <2>2, <2>3
<1>6. ChildrenDisjoint(w)' /\ ReportsAreOfDone(w)' /\ WindowBooks(w)'
  BY <1>2, <1>3 DEF WindowInv, ChildrenDisjoint, ReportsAreOfDone, WindowBooks
<1> QED
  BY <1>5, <1>6 DEF WindowInv

\* What a report does to the window: the first of the inbox is counted if the
\* window waits for it, and dropped if not.
LEMMA HandleReportInv ==
  ASSUME Types, NEW w \in Windows, WindowInv(w), HandleReport(w)
  PROVE  WindowInv(w)'
<1> DEFINE r == Head(inbox[w])
           queue == inbox[w]
<1>1. /\ pc'[w] = pc[w] /\ offset'[w] = offset[w] /\ next'[w] = next[w]
      /\ limit'[w] = limit[w] /\ started'[w] = started[w]
      /\ running'[w] = running[w] /\ done'[w] = done[w] /\ lost'[w] = lost[w]
      /\ Started(w)' = Started(w) /\ pc[w] # "closed"
  BY DEF HandleReport, childVars, Started
<1>2. /\ queue \in Seq(Nat) /\ queue # <<>> /\ inbox'[w] = Tail(queue)
      /\ r = queue[1] /\ 1 \in DOMAIN queue
      /\ \A i \in DOMAIN Tail(queue) : i + 1 \in DOMAIN queue /\ Tail(queue)[i] = queue[i + 1]
      /\ \A i \in DOMAIN queue : i = 1 \/ (i - 1 \in DOMAIN Tail(queue)
                                             /\ Tail(queue)[i - 1] = queue[i])
  <2>1. queue \in Seq(Nat) /\ queue # <<>> /\ inbox'[w] = Tail(queue)
    BY DEF HandleReport, Types
  <2> HIDE DEF queue
  <2>2. queue[1] = Head(queue)
    BY <2>1
  <2> QED
    BY <2>1, <2>2, TailElements DEF queue
<1>3. \/ /\ r \in current_records[w] /\ current_records'[w] = current_records[w] \ {r}
         /\ progress'[w] = progress[w] + 1
      \/ /\ r \notin current_records[w] /\ current_records'[w] = current_records[w]
         /\ progress'[w] = progress[w]
  BY DEF HandleReport, Types
<1>4. r \in done[w] /\ r \notin running[w] /\ r \notin lost[w]
  BY <1>2 DEF WindowInv, ReportsAreOfDone, ChildrenDisjoint
<1>a. /\ \A i \in DOMAIN queue : queue[i] \in done[w]
      /\ \A q \in current_records[w] \cap done[w] : \E i \in DOMAIN queue : queue[i] = q
  BY DEF WindowInv, ReportsAreOfDone
<1> HIDE DEF r, queue
<1>5. StartedUpToFrontier(w)' /\ PageInRange(w)' /\ ChildrenDisjoint(w)'
  BY <1>1 DEF WindowInv, StartedUpToFrontier, PageInRange, ChildrenDisjoint, Frontier
<1>6. ReportsAreOfDone(w)'
  <2>1. \A i \in DOMAIN inbox'[w] : inbox'[w][i] \in done'[w]
    BY <1>1, <1>2, <1>a
  <2>2. running'[w] \cup lost'[w] \subseteq current_records'[w]
    BY <1>1, <1>3, <1>4 DEF WindowInv, ReportsAreOfDone
  <2>3. ASSUME NEW q \in current_records'[w] \cap done'[w]
        PROVE  \E i \in DOMAIN inbox'[w] : inbox'[w][i] = q
    <3>1. q \in current_records[w] \cap done[w] /\ q # r
      BY <1>1, <1>3, <2>3
    <3>2. PICK i \in DOMAIN queue : queue[i] = q
      BY <3>1, <1>a
    <3> QED
      BY <1>2, <3>1, <3>2
  <2> QED
    BY <2>1, <2>2, <2>3 DEF ReportsAreOfDone
<1>7. WindowBooks(w)'
  <2>1. CASE r \in current_records[w]
    <3>1. Cardinality(current_records'[w]) = Cardinality(current_records[w]) - 1
      BY <1>3, <2>1, WindowFinite, FS_RemoveElement
    <3>2. /\ Cardinality(current_records[w]) <= Size[w]
          /\ Cardinality(Started(w)) = progress[w] + Cardinality(current_records[w])
          /\ current_records[w] \subseteq Started(w)
      BY DEF WindowInv, WindowBooks
    <3> QED
      BY <1>1, <1>3, <2>1, <3>1, <3>2, WindowFinite, WindowTypes DEF WindowBooks
  <2>2. CASE r \notin current_records[w]
    BY <1>1, <1>3, <2>2 DEF WindowInv, WindowBooks
  <2> QED
    BY <2>1, <2>2
<1> QED
  BY <1>5, <1>6, <1>7 DEF WindowInv

LEMMA CompleteInv ==
  ASSUME Types, NEW w \in Windows, WindowInv(w), Complete(w)
  PROVE  WindowInv(w)'
<1>1. /\ pc[w] = "draining" /\ pc'[w] = "closed" /\ Started(w)' = Started(w)
      /\ current_records[w] = {}
  BY DEF Complete, Types, childVars, Started
<1> QED
  BY <1>1 DEF Complete, childVars, WindowInv, StartedUpToFrontier, PageInRange,
          ChildrenDisjoint, ReportsAreOfDone, WindowBooks

\* What the steps of a child leave alone.
SameRun(w) ==
  /\ pc'[w] = pc[w] /\ offset'[w] = offset[w] /\ next'[w] = next[w] /\ limit'[w] = limit[w]
  /\ started'[w] = started[w] /\ progress'[w] = progress[w]
  /\ current_records'[w] = current_records[w] /\ Started(w)' = Started(w)

LEMMA SameRunInv ==
  ASSUME NEW w \in Windows, WindowInv(w), SameRun(w)
  PROVE  StartedUpToFrontier(w)' /\ PageInRange(w)' /\ WindowBooks(w)'
BY DEF SameRun, WindowInv, StartedUpToFrontier, PageInRange, WindowBooks, Frontier

LEMMA ReportInv ==
  ASSUME Types, NEW w \in Windows, WindowInv(w), NEW r \in running[w], Report(w, r)
  PROVE  WindowInv(w)'
<1>1. /\ running'[w] = running[w] \ {r} /\ done'[w] = done[w] \cup {r} /\ lost'[w] = lost[w]
      /\ inbox'[w] = Append(inbox[w], r) /\ current_records'[w] = current_records[w]
  BY DEF Report, Types, windowVars
<1>2. Started(w)' = Started(w)
  BY <1>1 DEF Started
<1>3. SameRun(w)
  BY <1>2 DEF Report, windowVars, SameRun
<1>4. ChildrenDisjoint(w)'
  BY <1>1 DEF WindowInv, ChildrenDisjoint
<1>5. /\ inbox[w] \in Seq(Nat)
      /\ \A i \in DOMAIN inbox'[w] : i \in DOMAIN inbox[w] \/ i = Len(inbox[w]) + 1
      /\ \A i \in DOMAIN inbox[w] : i \in DOMAIN inbox'[w] /\ inbox'[w][i] = inbox[w][i]
      /\ Len(inbox[w]) + 1 \in DOMAIN inbox'[w] /\ inbox'[w][Len(inbox[w]) + 1] = r
  BY <1>1 DEF Types
<1>6. ReportsAreOfDone(w)'
  BY <1>1, <1>5 DEF WindowInv, ReportsAreOfDone
<1> QED
  BY <1>3, <1>4, <1>6, SameRunInv DEF WindowInv

LEMMA ReportAgainInv ==
  ASSUME Types, NEW w \in Windows, WindowInv(w), NEW r \in done[w], ReportAgain(w, r)
  PROVE  WindowInv(w)'
<1>1. /\ running'[w] = running[w] /\ done'[w] = done[w] /\ lost'[w] = lost[w]
      /\ inbox'[w] = Append(inbox[w], r) /\ current_records'[w] = current_records[w]
  BY DEF ReportAgain, Types, windowVars, childVars
<1>2. SameRun(w)
  BY <1>1 DEF ReportAgain, windowVars, SameRun, Started
<1>3. ChildrenDisjoint(w)'
  BY <1>1 DEF WindowInv, ChildrenDisjoint
<1>4. /\ inbox[w] \in Seq(Nat)
      /\ \A i \in DOMAIN inbox'[w] : i \in DOMAIN inbox[w] \/ i = Len(inbox[w]) + 1
      /\ \A i \in DOMAIN inbox[w] : i \in DOMAIN inbox'[w] /\ inbox'[w][i] = inbox[w][i]
      /\ Len(inbox[w]) + 1 \in DOMAIN inbox'[w] /\ inbox'[w][Len(inbox[w]) + 1] = r
  BY <1>1 DEF Types
<1>5. ReportsAreOfDone(w)'
  BY <1>1, <1>4 DEF WindowInv, ReportsAreOfDone
<1> QED
  BY <1>2, <1>3, <1>5, SameRunInv DEF WindowInv

LEMMA DieInv ==
  ASSUME Types, NEW w \in Windows, WindowInv(w), NEW r \in running[w], Die(w, r)
  PROVE  WindowInv(w)'
<1>1. /\ running'[w] = running[w] \ {r} /\ lost'[w] = lost[w] \cup {r} /\ done'[w] = done[w]
      /\ inbox'[w] = inbox[w] /\ current_records'[w] = current_records[w]
  BY DEF Die, Types, windowVars
<1>2. Started(w)' = Started(w)
  BY <1>1 DEF Started
<1>3. SameRun(w)
  BY <1>2 DEF Die, windowVars, SameRun
<1>4. ChildrenDisjoint(w)' /\ ReportsAreOfDone(w)'
  BY <1>1 DEF WindowInv, ChildrenDisjoint, ReportsAreOfDone
<1> QED
  BY <1>3, <1>4, SameRunInv DEF WindowInv

-----------------------------------------------------------------------------
(* The invariant *)

\* Whatever happens to a window and its children, the others do not notice.
LEMMA OtherWindows ==
  ASSUME Types, NEW w \in Windows, Step(w), NEW v \in Windows, v # w
  PROVE  SameWindow(v)
<1> USE DEF Types, SameWindow, childVars, windowVars
<1>1. CASE Begin(w)
  BY <1>1 DEF Begin
<1>2. CASE Load(w)
  BY <1>2 DEF Load
<1>3. CASE StartChild(w)
  BY <1>3 DEF StartChild
<1>4. CASE ChildStarted(w)
  BY <1>4 DEF ChildStarted
<1>5. CASE Complete(w)
  BY <1>5 DEF Complete
<1>6. CASE HandleReport(w)
  BY <1>6 DEF HandleReport
<1>7. ASSUME NEW r \in running[w], Report(w, r) PROVE SameWindow(v)
  BY <1>7 DEF Report
<1>8. ASSUME NEW r \in running[w], Die(w, r) PROVE SameWindow(v)
  BY <1>8 DEF Die
<1>9. ASSUME NEW r \in done[w], ReportAgain(w, r) PROVE SameWindow(v)
  BY <1>9 DEF ReportAgain
<1> QED
  BY <1>1, <1>2, <1>3, <1>4, <1>5, <1>6, <1>7, <1>8, <1>9 DEF Step, RunStep, ChildStep

LEMMA StepIInv == Types /\ IInv /\ [Next]_vars => IInv'
<1> SUFFICES ASSUME Types, IInv, [Next]_vars, NEW v \in Windows PROVE WindowInv(v)'
  BY DEF IInv
<1>1. WindowInv(v)
  BY DEF IInv
<1>2. CASE Step(v)
  BY <1>1, <1>2, BeginInv, LoadInv, StartChildInv, ChildStartedInv, CompleteInv,
     HandleReportInv, ReportInv, ReportAgainInv, DieInv DEF Step, RunStep, ChildStep
<1>3. ASSUME NEW w \in Windows, w # v, Step(w) PROVE WindowInv(v)'
  BY <1>1, <1>3, OtherWindows, SameWindowInv
<1>4. CASE Launch
  BY <1>1, <1>4 DEF Launch, childVars, WindowInv, StartedUpToFrontier, PageInRange,
     ChildrenDisjoint, ReportsAreOfDone, WindowBooks, Frontier, Started
<1>5. CASE UNCHANGED vars
  BY <1>1, <1>5, SameWindowInv DEF vars, SameWindow
<1> QED
  BY <1>2, <1>3, <1>4, <1>5 DEF Next

LEMMA Invariance == Spec => [](Types /\ IInv)
<1>1. Init => Types /\ IInv
  BY InitTypes, InitIInv
<1>2. Types /\ IInv /\ [Next]_vars => Types' /\ IInv'
  BY StepTypes, StepIInv
<1> QED
  BY <1>1, <1>2, PTL DEF Spec

-----------------------------------------------------------------------------
(* What it says of the sample *)

\* Every variable has its type, and no record outside a window's range is ever
\* given to a child.
THEOREM TypeCorrect == Spec => []TypeOK
<1>1. Types /\ IInv => TypeOK
  <2> SUFFICES ASSUME Types, IInv, NEW w \in Windows
               PROVE  Started(w) \subseteq From[w] .. (To[w] - 1)
    BY DEF TypeOK
  <2>1. StartedUpToFrontier(w) /\ PageInRange(w)
    BY DEF IInv, WindowInv
  <2>2. CASE pc[w] \in {"draining", "closed"}
    BY <2>1, <2>2 DEF StartedUpToFrontier
  <2>3. CASE pc[w] \in {"waiting", "starting"}
    <3>1. /\ Started(w) = From[w] .. (Frontier(w) - 1)
          /\ Frontier(w) = next[w] \/ Frontier(w) = next[w] + 1
          /\ next[w] < limit[w] /\ limit[w] <= To[w]
      BY <2>1, <2>3 DEF StartedUpToFrontier, PageInRange, Frontier
    <3> QED
      BY <3>1, WindowTypes
  <2>4. CASE pc[w] \notin {"draining", "closed", "waiting", "starting"}
    <3>1. /\ Started(w) = From[w] .. (offset[w] - 1)
          /\ offset[w] < To[w] \/ offset[w] = From[w]
      BY <2>1, <2>4 DEF StartedUpToFrontier, Frontier
    <3> QED
      BY <3>1, WindowTypes
  <2> QED
    BY <2>2, <2>3, <2>4
<1> QED
  BY <1>1, Invariance, PTL

\* Never more children at work than the window is wide, counted over all runs
\* of the window: those a former run has started are in current_records still.
THEOREM WindowBounds == Spec => []WindowHolds
<1>1. Types /\ IInv => WindowHolds
  <2> SUFFICES ASSUME Types, IInv, NEW w \in Windows
               PROVE  Cardinality(running[w]) <= Size[w]
    BY DEF WindowHolds
  <2>1. WindowInv(w)
    BY DEF IInv
  <2>2. running[w] \subseteq current_records[w]
    BY <2>1 DEF WindowInv, ReportsAreOfDone
  <2>3. /\ Cardinality(running[w]) <= Cardinality(current_records[w])
        /\ Cardinality(running[w]) \in Nat
    BY <2>1, <2>2, WindowFinite, FS_Subset, FS_CardinalityType
  <2> QED
    BY <2>1, <2>3, WindowFinite, WindowTypes DEF WindowInv, WindowBooks
<1> QED
  BY <1>1, Invariance, PTL

\* A record the window waits for is at work, lost with its child, or its report
\* is in the inbox: continuing as new drops none, handling one drops no other.
THEOREM ReportsAreKept == Spec => []NoReportIsLost
<1>1. Types /\ IInv => NoReportIsLost
  BY DEF IInv, WindowInv, WindowBooks, ReportsAreOfDone, Started, NoReportIsLost
<1> QED
  BY <1>1, Invariance, PTL

\* progress and current_records together are the records started, each once,
\* although reports are repeated and reach the window in any run.
THEOREM RecordsAreCountedOnce == Spec => []EachRecordCounts
<1>1. Types /\ IInv => EachRecordCounts
  BY DEF IInv, WindowInv, WindowBooks, EachRecordCounts
<1> QED
  BY <1>1, Invariance, PTL

\* When a window returns, every record of its range has reported, none died,
\* and what it returns is their number.
THEOREM WindowReturnsAll == Spec => []ReturnsWhenAllDone
<1>1. Types /\ IInv => ReturnsWhenAllDone
  <2> SUFFICES ASSUME Types, IInv, NEW w \in Windows, pc[w] = "closed"
               PROVE  done[w] = From[w] .. (To[w] - 1) /\ progress[w] = Cardinality(done[w])
    BY DEF ReturnsWhenAllDone
  <2>1. WindowInv(w)
    BY DEF IInv
  <2>2. current_records[w] = {} /\ running[w] = {} /\ lost[w] = {}
    BY <2>1 DEF WindowInv, WindowBooks, ReportsAreOfDone
  <2>3. Started(w) = done[w] /\ Started(w) = From[w] .. (To[w] - 1)
    BY <2>1, <2>2 DEF WindowInv, StartedUpToFrontier, Started
  <2>4. Cardinality(current_records[w]) = 0
    BY <2>2, FS_EmptySet
  <2> QED
    BY <2>1, <2>3, <2>4, WindowTypes DEF WindowInv, WindowBooks
<1> QED
  BY <1>1, Invariance, PTL

\* A record enters current_records only when it never had a child.
LEMMA EntersOnce ==
  ASSUME Types, IInv, [Next]_vars, NEW w \in Windows,
         NEW r \in current_records'[w] \ current_records[w]
  PROVE  r \notin Started(w)
<1>1. PICK v \in Windows : StartChild(v) /\ current_records' =
        [current_records EXCEPT ![v] = current_records[v] \cup {next[v]}]
  <2>1. current_records'[w] # current_records[w]
    OBVIOUS
  <2>2. ASSUME NEW v \in Windows, Step(v), ~StartChild(v)
        PROVE  current_records'[w] \subseteq current_records[w]
    <3>1. CASE HandleReport(v)
      <4>1. \/ current_records' = current_records
            \/ current_records' =
                 [current_records EXCEPT ![v] = current_records[v] \ {Head(inbox[v])}]
        BY <3>1 DEF HandleReport
      <4>2. CASE current_records' =
                   [current_records EXCEPT ![v] = current_records[v] \ {Head(inbox[v])}]
        BY <4>2 DEF Types
      <4> QED
        BY <4>1, <4>2
    <3>2. CASE ~HandleReport(v)
      BY <2>2, <3>2 DEF Step, RunStep, ChildStep, Begin, Load, ChildStarted, Complete,
           Report, Die, ReportAgain, windowVars
    <3> QED
      BY <3>1, <3>2
  <2> QED
    BY <2>1, <2>2 DEF Next, Launch, vars, StartChild
<1>2. v = w /\ r = next[w]
  BY <1>1 DEF Types
<1>3. /\ pc[w] = "waiting" /\ Started(w) = From[w] .. (next[w] - 1)
  BY <1>1, <1>2 DEF StartChild, IInv, WindowInv, StartedUpToFrontier, Frontier
<1> QED
  BY <1>2, <1>3, WindowTypes

\* In no run of the window is a second child started for a record, whichever
\* page the record is in and however the window continued as new.
THEOREM StartedOnce == Spec => NeverStartedTwice
<1> DEFINE Fresh == \A w \in Windows : \A r \in current_records'[w] \ current_records[w] :
                      r \notin Started(w)
<1>1. Types /\ IInv /\ [Next]_vars => [Fresh]_vars
  BY EntersOnce
<1> HIDE DEF Fresh
<1>2. Spec => [][Fresh]_vars
  BY <1>1, Invariance, PTL DEF Spec
<1> QED
  BY <1>2 DEF Fresh, NeverStartedTwice

-----------------------------------------------------------------------------
(* The partitions *)

\* The records before partition k, or all of them if there is no such partition.
Offset(k) == Sum(PartitionSize, 0 .. (k - 1))

Records == 0 .. (RecordCount - 1)

\* The parts of an even division are natural numbers.
LEMMA DivideType ==
  ASSUME NEW a \in Nat, NEW n \in Nat \ {0}
  PROVE  DivideIntoPartitions(a, n) \in [0 .. (n - 1) -> Nat]
<1>1. a \div n \in Nat
  BY Division
<1> QED
  BY <1>1 DEF DivideIntoPartitions

\* The first k parts of an even division: the remainder is handed out one by one.
LEMMA DividePrefix ==
  ASSUME NEW a \in Nat, NEW n \in Nat \ {0}
  PROVE  \A k \in 0 .. n :
           Sum(DivideIntoPartitions(a, n), 0 .. (k - 1)) = k * (a \div n) + Lesser(k, a % n)
<1> DEFINE q == a \div n
           r == a % n
           d == DivideIntoPartitions(a, n)
           N == {k \in Nat : k <= n => Sum(d, 0 .. (k - 1)) = k * q + Lesser(k, r)}
<1>1. q \in Nat /\ r \in Nat
  BY Division
<1>2. d \in [0 .. (n - 1) -> Nat] /\ \A i \in 0 .. (n - 1) : d[i] = q + (IF i < r THEN 1 ELSE 0)
  BY <1>1, DivideType DEF DivideIntoPartitions
<1> HIDE DEF q, r, d
<1>3. 0 \in N
  <2>1. 0 .. (0 - 1) = {}
    OBVIOUS
  <2>2. Sum(d, {}) = 0
    BY <1>2, SumEmpty
  <2>3. 0 * q + Lesser(0, r) = 0
    BY <1>1 DEF Lesser
  <2> QED
    BY <2>1, <2>2, <2>3
<1>4. ASSUME NEW k \in Nat, k \in N PROVE k + 1 \in N
  <2> SUFFICES ASSUME k + 1 <= n PROVE Sum(d, 0 .. k) = (k + 1) * q + Lesser(k + 1, r)
    OBVIOUS
  <2>1. Sum(d, 0 .. (k - 1)) = k * q + Lesser(k, r)
    BY <1>4
  <2>2. 0 .. k \in SUBSET (0 .. (n - 1)) /\ k \in 0 .. (n - 1)
    OBVIOUS
  <2>3. Sum(d, 0 .. k) = d[k] + Sum(d, 0 .. (k - 1))
    BY <1>2, <2>2, SumInterval
  <2>4. d[k] = q + (IF k < r THEN 1 ELSE 0)
    BY <1>2, <2>2
  <2>5. (k + 1) * q = k * q + q /\ k * q \in Nat
    BY <1>1, MoreTimes
  <2>6. Lesser(k + 1, r) = Lesser(k, r) + (IF k < r THEN 1 ELSE 0) /\ Lesser(k, r) \in Nat
    BY <1>1 DEF Lesser
  <2> QED
    BY <2>1, <2>3, <2>4, <2>5, <2>6, <1>1
<1> HIDE DEF N
<1>5. Nat \subseteq N
  BY <1>3, <1>4, InductionOnNat
<1> QED
  BY <1>5 DEF N, q, r, d

\* All the parts add up to the number divided.
LEMMA DivideTotal ==
  ASSUME NEW a \in Nat, NEW n \in Nat \ {0}
  PROVE  Sum(DivideIntoPartitions(a, n), 0 .. (n - 1)) = a
<1>1. Sum(DivideIntoPartitions(a, n), 0 .. (n - 1)) = n * (a \div n) + Lesser(n, a % n)
  <2>1. n \in 0 .. n
    OBVIOUS
  <2> QED
    BY <2>1, DividePrefix
<1>2. Lesser(n, a % n) = a % n
  BY Division DEF Lesser
<1>3. a = n * (a \div n) + (a % n)
  BY Division
<1> QED
  BY <1>1, <1>2, <1>3

LEMMA SizeTypes ==
  /\ PartitionSize \in [Parts -> Nat] /\ WindowSizes \in [Parts -> Nat]
  /\ Partitions \in Nat \ {0} /\ RecordCount \in Nat /\ Windows = Parts
BY BatchAssumption, DivideType DEF PartitionSize, WindowSizes, Parts

\* The offset accumulates, and the last partition ends at the last record.
LEMMA OffsetSteps ==
  /\ Offset(0) = 0 /\ Offset(Partitions) = RecordCount
  /\ \A k \in 0 .. Partitions : Offset(k) \in Nat
  /\ \A p \in Parts : Offset(p + 1) = Offset(p) + PartitionSize[p]
<1>1. Offset(0) = 0
  <2>1. 0 .. (0 - 1) = {}
    OBVIOUS
  <2> QED
    BY <2>1, SumEmpty, SizeTypes DEF Offset
<1>2. Offset(Partitions) = RecordCount
  BY DivideTotal, SizeTypes DEF Offset, PartitionSize
<1>3. ASSUME NEW k \in 0 .. Partitions PROVE Offset(k) \in Nat
  <2>1. 0 .. (k - 1) \in SUBSET Parts /\ k \in Nat
    BY SizeTypes DEF Parts
  <2>2. IsFiniteSet(0 .. (k - 1))
    BY <2>1, FS_Interval
  <2> QED
    BY <2>1, <2>2, SumType, SizeTypes DEF Offset
<1>4. ASSUME NEW p \in Parts PROVE Offset(p + 1) = Offset(p) + PartitionSize[p]
  <2>1. 0 .. p \in SUBSET Parts /\ p \in Nat /\ p \in 0 .. Partitions
    BY SizeTypes DEF Parts
  <2>2. Sum(PartitionSize, 0 .. p) = PartitionSize[p] + Sum(PartitionSize, 0 .. (p - 1))
    BY <2>1, SumInterval, SizeTypes
  <2>3. (p + 1) - 1 = p /\ Offset(p) \in Nat /\ PartitionSize[p] \in Nat
    BY <2>1, <1>3, SizeTypes
  <2> QED
    BY <2>2, <2>3 DEF Offset
<1> QED
  BY <1>1, <1>2, <1>3, <1>4

\* A later partition starts later.
LEMMA OffsetMonotone ==
  ASSUME NEW i \in 0 .. Partitions, NEW j \in 0 .. Partitions, i <= j
  PROVE  Offset(i) <= Offset(j)
<1> DEFINE N == {k \in Nat : i + k <= Partitions => Offset(i) <= Offset(i + k)}
<1>1. 0 \in N
  <2>1. i + 0 = i /\ Offset(i) \in Nat
    BY OffsetSteps
  <2> QED
    BY <2>1
<1>2. ASSUME NEW k \in Nat, k \in N PROVE k + 1 \in N
  <2> SUFFICES ASSUME i + (k + 1) <= Partitions PROVE Offset(i) <= Offset(i + (k + 1))
    OBVIOUS
  <2>1. /\ i + k \in Parts /\ i + k \in 0 .. Partitions /\ i + (k + 1) = (i + k) + 1
        /\ i + k <= Partitions
    BY SizeTypes DEF Parts
  <2>2. Offset(i + (k + 1)) = Offset(i + k) + PartitionSize[i + k]
    BY <2>1, OffsetSteps
  <2>3. Offset(i) <= Offset(i + k)
    BY <2>1, <1>2
  <2>4. Offset(i) \in Nat /\ Offset(i + k) \in Nat /\ PartitionSize[i + k] \in Nat
    BY <2>1, OffsetSteps, SizeTypes
  <2> QED
    BY <2>2, <2>3, <2>4
<1> HIDE DEF N
<1>3. Nat \subseteq N
  BY <1>1, <1>2, InductionOnNat
<1>4. j - i \in Nat /\ i + (j - i) = j /\ j <= Partitions
  OBVIOUS
<1> QED
  BY <1>3, <1>4 DEF N

\* A partition goes from its offset to the next one's.
LEMMA PartitionRange ==
  ASSUME NEW p \in Parts
  PROVE  /\ From[p] = Offset(p) /\ To[p] = Offset(p + 1)
         /\ From[p] \in Nat /\ To[p] \in Nat /\ From[p] <= To[p] /\ To[p] <= RecordCount
<1>1. p \in 0 .. Partitions /\ p + 1 \in 0 .. Partitions /\ Partitions \in 0 .. Partitions
  BY SizeTypes DEF Parts
<1>2. From[p] = Offset(p)
  BY BatchAssumption DEF PartitionFrom, Offset, Sum
<1>3. Offset(p + 1) = Offset(p) + PartitionSize[p] /\ Offset(p) <= Offset(p + 1)
  BY <1>1, OffsetSteps, OffsetMonotone
<1>4. Offset(p + 1) <= RecordCount /\ Offset(p) \in Nat /\ Offset(p + 1) \in Nat
  BY <1>1, OffsetSteps, OffsetMonotone
<1>5. To[p] = Lesser(Offset(p) + PartitionSize[p], RecordCount)
  BY <1>2, BatchAssumption DEF PartitionTo
<1>6. To[p] = Offset(p + 1)
  BY <1>3, <1>4, <1>5, SizeTypes DEF Lesser
<1> QED
  BY <1>2, <1>3, <1>4, <1>6

\* The records of a partition.
RecordsOf(p) == From[p] .. (To[p] - 1)

\* No record is in two partitions.
LEMMA RangesDisjoint ==
  ASSUME NEW p \in Parts, NEW q \in Parts, p # q
  PROVE  RecordsOf(p) \cap RecordsOf(q) = {}
<1>1. ASSUME NEW i \in Parts, NEW j \in Parts, i < j PROVE To[i] <= From[j]
  <2>1. i + 1 \in 0 .. Partitions /\ j \in 0 .. Partitions /\ i + 1 <= j
    BY <1>1, SizeTypes DEF Parts
  <2> QED
    BY <2>1, OffsetMonotone, PartitionRange
<1>2. From[p] \in Nat /\ To[p] \in Nat /\ From[q] \in Nat /\ To[q] \in Nat
  BY PartitionRange
<1>3. To[p] <= From[q] \/ To[q] <= From[p]
  BY <1>1, SizeTypes DEF Parts
<1> QED
  BY <1>2, <1>3 DEF RecordsOf

\* Every record is in one.
LEMMA RangesCover == UNION {RecordsOf(p) : p \in Parts} = Records
<1>1. ASSUME NEW p \in Parts PROVE RecordsOf(p) \subseteq Records
  BY PartitionRange, SizeTypes DEF RecordsOf, Records
<1>2. ASSUME NEW x \in Records PROVE \E p \in Parts : x \in RecordsOf(p)
  <2> DEFINE N == {k \in Nat : k <= Partitions /\ x < Offset(k) => \E p \in Parts : x \in RecordsOf(p)}
  <2>0. x \in Nat /\ x < RecordCount
    BY SizeTypes DEF Records
  <2>1. 0 \in N
    BY <2>0, OffsetSteps
  <2>2. ASSUME NEW k \in Nat, k \in N PROVE k + 1 \in N
    <3> SUFFICES ASSUME k + 1 <= Partitions, x < Offset(k + 1)
                 PROVE  \E p \in Parts : x \in RecordsOf(p)
      OBVIOUS
    <3>1. k \in Parts /\ k <= Partitions
      BY SizeTypes DEF Parts
    <3>2. CASE x < Offset(k)
      BY <2>2, <3>1, <3>2
    <3>3. CASE ~(x < Offset(k))
      <4>1. x \in RecordsOf(k)
        BY <2>0, <3>1, <3>3, PartitionRange DEF RecordsOf
      <4> QED
        BY <3>1, <4>1
    <3> QED
      BY <3>2, <3>3
  <2> HIDE DEF N
  <2>3. Nat \subseteq N
    BY <2>1, <2>2, InductionOnNat
  <2>4. Partitions \in N
    BY <2>3, SizeTypes
  <2> QED
    BY <2>0, <2>4, OffsetSteps, SizeTypes DEF N
<1> QED
  BY <1>1, <1>2

-----------------------------------------------------------------------------
(* The windows of the batch *)

\* A step of the batch is a step of the windows, or leaves them alone.
LEMMA StepOfWindows == [BatchNext]_<<vars, batchVars>> => [Next]_vars
<1> SUFFICES ASSUME [BatchNext]_<<vars, batchVars>> PROVE [Next]_vars
  OBVIOUS
<1>1. CASE Counted
  BY <1>1 DEF Counted, Next
<1>2. CASE Gather
  BY <1>2 DEF Gather
<1>3. CASE \E p \in Parts : Step(p) /\ UNCHANGED batchVars
  BY <1>3, SizeTypes DEF Next
<1>4. CASE UNCHANGED <<vars, batchVars>>
  BY <1>4
<1> QED
  BY <1>1, <1>2, <1>3, <1>4 DEF BatchNext

\* Sets that keep to a bound each keep together to the sum of the bounds.
LEMMA UnionBound ==
  ASSUME NEW F, NEW b \in [Parts -> Nat],
         \A p \in Parts : IsFiniteSet(F[p]) /\ Cardinality(F[p]) <= b[p]
  PROVE  /\ IsFiniteSet(UNION {F[p] : p \in Parts})
         /\ Cardinality(UNION {F[p] : p \in Parts}) <= Sum(b, Parts)
<1> DEFINE U(k) == UNION {F[p] : p \in 0 .. (k - 1)}
           N == {k \in Nat : k <= Partitions =>
                   IsFiniteSet(U(k)) /\ Cardinality(U(k)) <= Sum(b, 0 .. (k - 1))}
<1>1. 0 \in N
  <2>1. 0 .. (0 - 1) = {}
    OBVIOUS
  <2>2. U(0) = {}
    BY <2>1
  <2>3. Sum(b, 0 .. (0 - 1)) = 0
    BY <2>1, SumEmpty
  <2> QED
    BY <2>2, <2>3, FS_EmptySet
<1>2. ASSUME NEW k \in Nat, k \in N PROVE k + 1 \in N
  <2> SUFFICES ASSUME k + 1 <= Partitions
               PROVE  IsFiniteSet(U(k + 1)) /\ Cardinality(U(k + 1)) <= Sum(b, 0 .. k)
    OBVIOUS
  <2>1. k \in Parts /\ 0 .. k \in SUBSET Parts /\ 0 .. (k - 1) \in SUBSET Parts
    BY SizeTypes DEF Parts
  <2>2. U(k + 1) = U(k) \cup F[k]
    <3>1. 0 .. ((k + 1) - 1) = (0 .. (k - 1)) \cup {k}
      OBVIOUS
    <3> QED
      BY <3>1
  <2>3. Sum(b, 0 .. k) = b[k] + Sum(b, 0 .. (k - 1))
    BY <2>1, SumInterval
  <2>4. IsFiniteSet(U(k)) /\ Cardinality(U(k)) <= Sum(b, 0 .. (k - 1))
    <3>1. k <= Partitions
      BY SizeTypes
    <3> QED
      BY <1>2, <3>1
  <2>5. IsFiniteSet(F[k]) /\ Cardinality(F[k]) <= b[k]
    BY <2>1
  <2> DEFINE V == U(k)
  <2> HIDE DEF V
  <2>6. /\ IsFiniteSet(V \cup F[k])
        /\ Cardinality(V \cup F[k]) = Cardinality(V) + Cardinality(F[k]) - Cardinality(V \cap F[k])
    BY <2>4, <2>5, FS_Union DEF V
  <2>7. Cardinality(V) \in Nat /\ Cardinality(F[k]) \in Nat /\ Cardinality(V \cap F[k]) \in Nat
    BY <2>4, <2>5, FS_Intersection, FS_CardinalityType DEF V
  <2>8. b[k] \in Nat /\ Sum(b, 0 .. (k - 1)) \in Nat
    <3>1. IsFiniteSet(0 .. (k - 1))
      BY FS_Interval
    <3> QED
      BY <2>1, <3>1, SumType
  <2>9. /\ IsFiniteSet(U(k + 1))
        /\ Cardinality(U(k + 1)) = Cardinality(V) + Cardinality(F[k]) - Cardinality(V \cap F[k])
    BY <2>2, <2>6 DEF V
  <2>10. Cardinality(V) <= Sum(b, 0 .. (k - 1))
    BY <2>4 DEF V
  <2> HIDE DEF U
  <2> QED
    BY <2>3, <2>5, <2>7, <2>8, <2>9, <2>10
<1> HIDE DEF N
<1>3. Nat \subseteq N
  BY <1>1, <1>2, InductionOnNat
<1>4. Partitions \in N /\ Partitions <= Partitions
  BY <1>3, SizeTypes
<1> QED
  BY <1>4 DEF N, Parts

\* Every behaviour of the batch is one of its windows.
THEOREM BatchRunsWindows == BatchSpec => Spec
<1>1. BatchInit => Init
  BY DEF BatchInit
<1> QED
  BY <1>1, StepOfWindows, PTL DEF BatchSpec, Spec

\* What holds of every window holds of those of the batch.
THEOREM BatchKeepsWindows ==
  BatchSpec => /\ [](WindowHolds /\ NoReportIsLost /\ EachRecordCounts /\ ReturnsWhenAllDone)
               /\ NeverStartedTwice
BY BatchRunsWindows, WindowBounds, ReportsAreKept, RecordsAreCountedOnce, WindowReturnsAll,
   StartedOnce, PTL

\* The total that gather adds up is a sum over the partitions.
LEMMA GatheredSum ==
  ASSUME Types
  PROVE  progress \in [Parts -> Nat] /\ FoldFunction(+, 0, progress) = Sum(progress, Parts)
<1>1. progress \in [Parts -> Nat]
  BY SizeTypes DEF Types
<1>2. DOMAIN progress = Parts
  BY <1>1
<1> QED
  BY <1>1, <1>2 DEF FoldFunction, Sum

\* The batch has its result, a number, when it is done and not before.
THEOREM BatchTypeCorrect == BatchSpec => []BatchTypeOK
<1> DEFINE BatchTypes == /\ batch \in {"counting", "gathering", "done", "failed"}
                         /\ result \in Nat \cup {None}
                         /\ (batch = "done") <=> (result # None)
<1>1. BatchInit => BatchTypes
  BY DEF BatchInit
<1>2. Types /\ BatchTypes /\ [BatchNext]_<<vars, batchVars>> => BatchTypes'
  <2> SUFFICES ASSUME Types, BatchTypes, [BatchNext]_<<vars, batchVars>> PROVE BatchTypes'
    OBVIOUS
  <2>1. CASE Counted
    BY <2>1 DEF Counted
  <2>2. CASE Gather
    <3>1. IsFiniteSet(Parts)
      BY SizeTypes, FS_Interval DEF Parts
    <3>2. result' \in Nat
      BY <2>2, <3>1, GatheredSum, SumType DEF Gather
    <3>3. result' # None /\ batch' = "done"
      BY <2>2, <3>2, BatchAssumption DEF Gather
    <3> QED
      BY <3>2, <3>3
  <2>3. CASE UNCHANGED batchVars
    BY <2>3 DEF batchVars
  <2> QED
    BY <2>1, <2>2, <2>3 DEF BatchNext
<1>3. TypeOK /\ BatchTypes => BatchTypeOK
  BY DEF BatchTypeOK
<1> HIDE DEF BatchTypes
<1>4. BatchSpec => [](TypeOK /\ Types)
  BY BatchRunsWindows, TypeCorrect, Invariance, PTL
<1> QED
  BY <1>1, <1>2, <1>3, <1>4, PTL DEF BatchSpec

-----------------------------------------------------------------------------
(* The windows implement BoundedBatch *)

Waiting   == Records \ UNION {Started(p) : p \in Parts}
Working   == UNION {running[p] : p \in Parts}
Processed == UNION {done[p] : p \in Parts}

\* A window starts only records of its partition, and the partitions share out
\* the window of the batch.
StartsInPartition == \A p \in Parts : Started(p) \subseteq RecordsOf(p)
WorkingFits == IsFiniteSet(Working) /\ Cardinality(Working) <= SlidingWindowSize

WindowsInv == Types /\ IInv /\ BatchTypeOK /\ WindowHolds /\ ReturnsWhenAllDone

BatchInv == WindowsInv /\ StartsInPartition /\ WorkingFits

\* Working never exceeds the window of the batch.
LEMMA WorkingBound == WindowsInv => WorkingFits
<1> SUFFICES ASSUME WindowsInv PROVE WorkingFits
  OBVIOUS
<1>1. ASSUME NEW p \in Parts
      PROVE  IsFiniteSet(running[p]) /\ Cardinality(running[p]) <= WindowSizes[p]
  <2>1. IsFiniteSet(current_records[p]) /\ WindowInv(p)
    BY WindowFinite, SizeTypes DEF WindowsInv, IInv
  <2>2. running[p] \subseteq current_records[p]
    BY <2>1 DEF WindowInv, ReportsAreOfDone
  <2>3. IsFiniteSet(running[p])
    BY <2>1, <2>2, FS_Subset
  <2>4. Cardinality(running[p]) <= Size[p] /\ Size = WindowSizes
    BY BatchAssumption DEF WindowsInv, WindowHolds
  <2> QED
    BY <2>3, <2>4
<1>2. IsFiniteSet(Working) /\ Cardinality(Working) <= Sum(WindowSizes, Parts)
  BY <1>1, UnionBound, SizeTypes DEF Working
<1>3. Sum(WindowSizes, Parts) = SlidingWindowSize
  BY DivideTotal, BatchAssumption DEF WindowSizes, Parts
<1> QED
  BY <1>2, <1>3 DEF WorkingFits

\* A window starts only records of its partition.
LEMMA StartedInPartition == WindowsInv => StartsInPartition
BY SizeTypes DEF WindowsInv, BatchTypeOK, TypeOK, StartsInPartition, RecordsOf

\* All of this holds in every reachable state.
LEMMA BatchInvariance == BatchSpec => []BatchInv
<1>1. BatchSpec => []WindowsInv
  BY BatchRunsWindows, Invariance, BatchTypeCorrect, WindowBounds, WindowReturnsAll, PTL
     DEF WindowsInv
<1> QED
  BY <1>1, WorkingBound, StartedInPartition, PTL DEF BatchInv

\* What a step of one window does to the records of all.
LEMMA OthersKeep ==
  ASSUME BatchInv, NEW p \in Parts, Step(p), NEW q \in Parts, q # p
  PROVE  /\ running'[q] = running[q] /\ done'[q] = done[q] /\ lost'[q] = lost[q]
         /\ Started(q)' = Started(q)
BY OtherWindows, SizeTypes DEF BatchInv, WindowsInv, SameWindow, Started

\* BoundedBatch counts as this module does.
LEMMA SameCardinality == \A S : Bounded!Cardinality(S) = Cardinality(S)
BY DEF Cardinality, Bounded!Cardinality

\* The start of a child takes a record that nobody has taken, within the limit.
LEMMA StartTakes ==
  ASSUME BatchInv, BatchInv', NEW p \in Parts, StartChild(p), UNCHANGED batchVars
  PROVE  \E r \in Records : Bounded!Take(r)
<1>0. PICK x : x = next[p]
  OBVIOUS
<1>1. /\ running'[p] = running[p] \cup {x} /\ done' = done /\ lost' = lost
      /\ x \notin Started(p) /\ Started(p)' = Started(p) \cup {x}
  <2>1. running'[p] = running[p] \cup {x} /\ done' = done /\ lost' = lost /\ pc[p] = "waiting"
    BY <1>0, SizeTypes DEF StartChild, BatchInv, WindowsInv, Types
  <2>2. WindowInv(p)
    BY SizeTypes DEF BatchInv, WindowsInv, IInv
  <2>3. Started(p) = From[p] .. (x - 1)
    BY <1>0, <2>1, <2>2 DEF WindowInv, StartedUpToFrontier, Frontier
  <2>4. x \in Nat /\ From[p] \in Nat
    BY <1>0, PartitionRange, SizeTypes DEF BatchInv, WindowsInv, Types
  <2>5. x \notin Started(p)
    BY <2>3, <2>4
  <2> QED
    BY <2>1, <2>5 DEF Started
<1>2. \A q \in Parts : q # p =>
        running'[q] = running[q] /\ done'[q] = done[q] /\ Started(q)' = Started(q)
  BY OthersKeep DEF Step, RunStep
<1>3. x \in RecordsOf(p) /\ x \in Records
  <2>1. x \in Started(p)' /\ StartsInPartition'
    BY <1>1 DEF BatchInv
  <2> QED
    BY <2>1, RangesCover DEF StartsInPartition, RecordsOf
<1>4. \A q \in Parts : x \notin Started(q)
  BY <1>1, <1>3, RangesDisjoint DEF BatchInv, StartsInPartition
<1>5. Working' = Working \cup {x} /\ Processed' = Processed /\ Waiting' = Waiting \ {x}
  <2>1. UNION {running'[q] : q \in Parts} = (UNION {running[q] : q \in Parts}) \cup {x}
    BY <1>1, <1>2
  <2>2. UNION {Started(q)' : q \in Parts} = (UNION {Started(q) : q \in Parts}) \cup {x}
    BY <1>1, <1>2
  <2> QED
    BY <1>1, <2>1, <2>2 DEF Working, Processed, Waiting
<1>6. x \in Waiting /\ x \notin Working
  BY <1>3, <1>4 DEF Waiting, Working, Started
<1>7. Cardinality(Working) < SlidingWindowSize
  <2>1. IsFiniteSet(Working) /\ Cardinality(Working') <= SlidingWindowSize
    BY DEF BatchInv, WorkingFits
  <2>2. Cardinality(Working') = Cardinality(Working) + 1 /\ Cardinality(Working) \in Nat
    BY <1>5, <1>6, <2>1, FS_AddElement, FS_CardinalityType
  <2> QED
    BY <2>1, <2>2, BatchAssumption
<1>8. result' = result
  BY DEF batchVars
<1>9. Bounded!Take(x) <=>
        /\ x \in Waiting /\ Bounded!Cardinality(Working) < SlidingWindowSize
        /\ Waiting' = Waiting \ {x} /\ Working' = Working \cup {x}
        /\ UNCHANGED <<Processed, result>>
  BY DEF Bounded!Take, Working, Processed, Waiting, Records
<1>10. Bounded!Take(x)
  BY <1>5, <1>6, <1>7, <1>8, <1>9, SameCardinality
<1> QED
  BY <1>3, <1>10

\* A child that ends is at work for its own window alone.
LEMMA EndOfChild ==
  ASSUME BatchInv, NEW p \in Parts, NEW r \in running[p],
         running'[p] = running[p] \ {r}, Started(p)' = Started(p), Step(p)
  PROVE  /\ r \in Records /\ r \in Working
         /\ Working' = Working \ {r} /\ Waiting' = Waiting
<1>1. \A q \in Parts : q # p => running'[q] = running[q] /\ Started(q)' = Started(q)
  BY OthersKeep
<1>2. r \in RecordsOf(p) /\ r \in Records
  BY RangesCover DEF BatchInv, StartsInPartition, Started
<1>3. \A q \in Parts : q # p => r \notin running[q]
  BY <1>2, RangesDisjoint DEF BatchInv, StartsInPartition, Started
<1>4. UNION {running'[q] : q \in Parts} = (UNION {running[q] : q \in Parts}) \ {r}
  BY <1>1, <1>3
<1>5. UNION {Started(q)' : q \in Parts} = UNION {Started(q) : q \in Parts}
  BY <1>1
<1> QED
  BY <1>2, <1>4, <1>5 DEF Working, Waiting

\* A report ends the processing of a record.
LEMMA ReportProcesses ==
  ASSUME BatchInv, NEW p \in Parts, NEW r \in running[p], Report(p, r), UNCHANGED batchVars
  PROVE  r \in Records /\ Bounded!Process(r)
<1>1. /\ running'[p] = running[p] \ {r} /\ done'[p] = done[p] \cup {r} /\ lost' = lost
      /\ Started(p)' = Started(p)
  <2>1. running'[p] = running[p] \ {r} /\ done'[p] = done[p] \cup {r} /\ lost' = lost
    BY SizeTypes DEF Report, BatchInv, WindowsInv, Types
  <2> QED
    BY <2>1 DEF Started
<1>2. Step(p)
  BY DEF Step, ChildStep
<1>3. \A q \in Parts : q # p => done'[q] = done[q]
  BY <1>2, OthersKeep
<1>4. r \in Records /\ r \in Working /\ Working' = Working \ {r} /\ Waiting' = Waiting
  BY <1>1, <1>2, EndOfChild
<1>5. Processed' = Processed \cup {r}
  <2>1. UNION {done'[q] : q \in Parts} = (UNION {done[q] : q \in Parts}) \cup {r}
    BY <1>1, <1>3
  <2> QED
    BY <2>1 DEF Processed
<1>6. result' = result
  BY DEF batchVars
<1>7. Bounded!Process(r) <=>
        /\ r \in Working /\ Working' = Working \ {r} /\ Processed' = Processed \cup {r}
        /\ UNCHANGED <<Waiting, result>>
  BY DEF Bounded!Process, Working, Processed, Waiting, Records
<1> QED
  BY <1>4, <1>5, <1>6, <1>7

\* A child that dies loses its record.
LEMMA DeathLoses ==
  ASSUME BatchInv, NEW p \in Parts, NEW r \in running[p], Die(p, r), UNCHANGED batchVars
  PROVE  r \in Records /\ Bounded!Lose(r)
<1>1. /\ running'[p] = running[p] \ {r} /\ lost'[p] = lost[p] \cup {r} /\ done' = done
      /\ Started(p)' = Started(p)
  <2>1. running'[p] = running[p] \ {r} /\ lost'[p] = lost[p] \cup {r} /\ done' = done
    BY SizeTypes DEF Die, BatchInv, WindowsInv, Types
  <2> QED
    BY <2>1 DEF Started
<1>2. Step(p)
  BY DEF Step, ChildStep
<1>3. r \in Records /\ r \in Working /\ Working' = Working \ {r} /\ Waiting' = Waiting
  BY <1>1, <1>2, EndOfChild
<1>4. Processed' = Processed /\ result' = result
  BY <1>1 DEF Processed, batchVars
<1>5. Bounded!Lose(r) <=>
        r \in Working /\ Working' = Working \ {r} /\ UNCHANGED <<Waiting, Processed, result>>
  BY DEF Bounded!Lose, Working, Processed, Waiting, Records
<1> QED
  BY <1>3, <1>4, <1>5

\* The batch answers when every record has been processed, with their number.
LEMMA GatherAnswers ==
  ASSUME BatchInv, Gather
  PROVE  Bounded!Answer
<1>1. ASSUME NEW p \in Parts
      PROVE  done[p] = RecordsOf(p) /\ progress[p] = PartitionSize[p]
  <2>1. done[p] = From[p] .. (To[p] - 1) /\ progress[p] = Cardinality(done[p])
    BY SizeTypes DEF Gather, BatchInv, WindowsInv, ReturnsWhenAllDone
  <2>2. /\ From[p] \in Nat /\ To[p] \in Nat /\ From[p] <= To[p] /\ PartitionSize[p] \in Nat
        /\ To[p] = From[p] + PartitionSize[p]
    BY PartitionRange, OffsetSteps, SizeTypes
  <2>3. Cardinality(From[p] .. (To[p] - 1)) =
          IF From[p] > To[p] - 1 THEN 0 ELSE (To[p] - 1) - From[p] + 1
    <3>1. From[p] \in Int /\ To[p] - 1 \in Int
      BY <2>2
    <3> QED
      BY <3>1, FS_Interval
  <2>4. Cardinality(From[p] .. (To[p] - 1)) = PartitionSize[p]
    BY <2>2, <2>3
  <2> QED
    BY <2>1, <2>4 DEF RecordsOf
<1>2. Processed = Records
  <2>1. {done[p] : p \in Parts} = {RecordsOf(p) : p \in Parts}
    BY <1>1
  <2> QED
    BY <2>1, RangesCover DEF Processed
<1>3. result' = RecordCount
  <2>1. progress \in [Parts -> Nat] /\ result' = Sum(progress, Parts)
    BY GatheredSum DEF Gather, BatchInv, WindowsInv
  <2>2. progress = PartitionSize
    BY <2>1, <1>1, SizeTypes
  <2>3. Sum(PartitionSize, Parts) = RecordCount
    BY OffsetSteps DEF Offset, Parts
  <2> QED
    BY <2>1, <2>2, <2>3
<1>4. Cardinality(Records) = RecordCount
  <2>1. Cardinality(0 .. (RecordCount - 1)) =
          IF 0 > RecordCount - 1 THEN 0 ELSE (RecordCount - 1) - 0 + 1
    BY SizeTypes, FS_Interval
  <2> QED
    BY <2>1, SizeTypes DEF Records
<1>5. result = None
  BY DEF Gather, BatchInv, WindowsInv, BatchTypeOK
<1>6. Working' = Working /\ Processed' = Processed /\ Waiting' = Waiting
  BY DEF Gather, vars, Working, Processed, Waiting, Started
<1>7. Bounded!Answer <=>
        /\ result = None /\ Processed = Records /\ result' = Bounded!Cardinality(Processed)
        /\ UNCHANGED <<Waiting, Working, Processed>>
  BY DEF Bounded!Answer, Working, Processed, Waiting, Records
<1> QED
  BY <1>2, <1>3, <1>4, <1>5, <1>6, <1>7, SameCardinality

\* What leaves the children and the batch alone is not seen.
LEMMA Unseen ==
  ASSUME UNCHANGED childVars, result' = result
  PROVE  UNCHANGED Bounded!vars
<1>1. Working' = Working /\ Processed' = Processed /\ Waiting' = Waiting
  BY DEF childVars, Working, Processed, Waiting, Started
<1>2. UNCHANGED Bounded!vars <=> UNCHANGED <<Waiting, Working, Processed, result>>
  BY DEF Bounded!vars, Working, Processed, Waiting, Records
<1> QED
  BY <1>1, <1>2

LEMMA BatchStepIsBounded ==
  BatchInv /\ BatchInv' /\ [BatchNext]_<<vars, batchVars>> => [Bounded!Next]_Bounded!vars
<1> SUFFICES ASSUME BatchInv, BatchInv', [BatchNext]_<<vars, batchVars>>
             PROVE  [Bounded!Next]_Bounded!vars
  OBVIOUS
<1>5. \A r : r \in Records => r \in 0 .. (RecordCount - 1)
  BY DEF Records
<1>1. CASE Counted
  BY <1>1, Unseen DEF Counted, Launch, vars, childVars
<1>2. CASE Gather
  BY <1>2, GatherAnswers DEF Bounded!Next
<1>3. ASSUME NEW p \in Parts, Step(p), UNCHANGED batchVars
      PROVE  [Bounded!Next]_Bounded!vars
  <2>1. CASE StartChild(p)
    <3>1. \E r \in Records : Bounded!Take(r)
      BY <1>3, <2>1, StartTakes
    <3>2. \E r \in 0 .. (RecordCount - 1) : Bounded!Take(r)
      BY <3>1, <1>5
    <3> QED
      BY <3>2 DEF Bounded!Next
  <2>2. CASE Begin(p) \/ Load(p) \/ ChildStarted(p) \/ Complete(p) \/ HandleReport(p)
    <3>1. UNCHANGED childVars
      BY <2>2 DEF Begin, Load, ChildStarted, Complete, HandleReport
    <3> QED
      BY <1>3, <3>1, Unseen DEF batchVars
  <2>3. ASSUME NEW r \in running[p], Report(p, r) PROVE Bounded!Next
    BY <1>3, <2>3, <1>5, ReportProcesses DEF Bounded!Next
  <2>4. ASSUME NEW r \in running[p], Die(p, r) PROVE Bounded!Next
    BY <1>3, <2>4, <1>5, DeathLoses DEF Bounded!Next
  <2>5. ASSUME NEW r \in done[p], ReportAgain(p, r) PROVE UNCHANGED Bounded!vars
    BY <1>3, <2>5, Unseen DEF ReportAgain, batchVars
  <2> QED
    BY <1>3, <2>1, <2>2, <2>3, <2>4, <2>5 DEF Step, RunStep, ChildStep
<1>4. CASE UNCHANGED <<vars, batchVars>>
  BY <1>4, Unseen DEF vars, childVars, batchVars
<1> QED
  BY <1>1, <1>2, <1>3, <1>4 DEF BatchNext

\* Whatever the number of records and partitions, the windows together process
\* each record once, no more than SlidingWindowSize at a time, and the batch
\* returns the number of all of them.
THEOREM BatchIsBounded == BatchSpec => ImplementsBounded
<1>1. BatchInit => Bounded!Init
  <2> SUFFICES ASSUME BatchInit PROVE Bounded!Init
    OBVIOUS
  <2>1. \A p \in Parts : running[p] = {} /\ done[p] = {} /\ Started(p) = {}
    BY SizeTypes DEF BatchInit, Init, Started
  <2>2. Working = {} /\ Processed = {} /\ Waiting = Records
    BY <2>1 DEF Working, Processed, Waiting
  <2>3. Bounded!Init <=> Waiting = Records /\ Working = {} /\ Processed = {} /\ result = None
    BY DEF Bounded!Init, Working, Processed, Waiting, Records
  <2> QED
    BY <2>2, <2>3 DEF BatchInit
<1> QED
  BY <1>1, BatchStepIsBounded, BatchInvariance, PTL
     DEF BatchSpec, ImplementsBounded, Bounded!Spec
=============================================================================
