---------------------------- MODULE BoundedBatch ----------------------------
(***************************************************************************)
(* What the batch promises its caller: every record is processed once, no  *)
(* more than Limit of them at a time, and the number of records is         *)
(* returned when all have been processed.                                  *)
(***************************************************************************)
EXTENDS Integers, FiniteSets

CONSTANTS Records, Limit, NoResult

VARIABLES waiting, working, processed, answer

vars == <<waiting, working, processed, answer>>

Init == waiting = Records /\ working = {} /\ processed = {} /\ answer = NoResult

Take(r) ==
  /\ r \in waiting /\ Cardinality(working) < Limit
  /\ waiting' = waiting \ {r} /\ working' = working \cup {r}
  /\ UNCHANGED <<processed, answer>>

Process(r) ==
  /\ r \in working
  /\ working' = working \ {r} /\ processed' = processed \cup {r}
  /\ UNCHANGED <<waiting, answer>>

\* A record whose processing dies is not processed at all.
Lose(r) ==
  /\ r \in working
  /\ working' = working \ {r}
  /\ UNCHANGED <<waiting, processed, answer>>

Answer ==
  /\ answer = NoResult /\ processed = Records
  /\ answer' = Cardinality(processed)
  /\ UNCHANGED <<waiting, working, processed>>

Next == Answer \/ \E r \in Records : Take(r) \/ Process(r) \/ Lose(r)

Spec == Init /\ [][Next]_vars
=============================================================================
