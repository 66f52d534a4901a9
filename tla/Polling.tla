------------------------------ MODULE Polling ------------------------------
(***************************************************************************)
(* polling: three ways to wait for a service that is down.                 *)
(*   "frequent"    one activity that polls in a loop and heartbeats        *)
(*   "infrequent"  an activity that fails until a retry of it succeeds     *)
(*   "periodic"    a child workflow that tries ten times, continues as new *)
(* The test service counts the attempts of a workflow in the memory of the *)
(* worker's process and answers the fifth, and no other.                   *)
(***************************************************************************)
EXTENDS Integers

CONSTANT MaxFaults   \* bound: crashes of the worker and attempts cut off

ERROR_ATTEMPTS == 5
Tries == 10          \* of one run of the child
Forever == ERROR_ATTEMPTS + 1   \* stands for all the counts beyond the fifth

VARIABLES
  kind,              \* which of the three
  attempts,          \* the Counter of the test service
  stale,             \* an attempt the server has given up polls on
  i,                 \* the child's loop
  pc, faults

vars == <<kind, attempts, stale, i, pc, faults>>

Init ==
  /\ kind \in {"frequent", "infrequent", "periodic"}
  /\ attempts = 0 /\ stale = FALSE /\ i = 0
  /\ pc = "polling" /\ faults = 0

-----------------------------------------------------------------------------
Count == attempts' = IF attempts < ERROR_ATTEMPTS THEN attempts + 1 ELSE Forever

\* get_service_result in the attempt the server waits for; if it raises, the
\* loop or the retry policy goes on.
Poll ==
  /\ kind # "periodic" /\ pc = "polling"
  /\ Count
  /\ pc' = IF attempts' = ERROR_ATTEMPTS THEN "answered" ELSE pc
  /\ UNCHANGED <<kind, stale, i, faults>>

\* The attempt is out of time (no heartbeat, or start_to_close_timeout) but
\* still runs; the server starts the next one.
CutOff ==
  /\ kind # "periodic" /\ pc = "polling" /\ ~stale /\ faults < MaxFaults
  /\ stale' = TRUE /\ faults' = faults + 1
  /\ UNCHANGED <<kind, attempts, i, pc>>

\* Its answer is refused; a loop goes on until it is told it is cancelled.
StalePoll ==
  /\ stale
  /\ Count
  /\ stale' \in (IF kind = "frequent" /\ attempts' # ERROR_ATTEMPTS
                 THEN BOOLEAN ELSE {FALSE})
  /\ UNCHANGED <<kind, i, pc, faults>>

\* The worker restarts, and the counter with it.
Crash ==
  /\ kind # "periodic" /\ pc = "polling" /\ faults < MaxFaults
  /\ attempts' = 0 /\ stale' = FALSE /\ faults' = faults + 1
  /\ UNCHANGED <<kind, i, pc>>

\* The child's activity raises every time and is not retried.
TryActivity ==
  /\ kind = "periodic" /\ i < Tries
  /\ i' = i + 1
  /\ UNCHANGED <<kind, attempts, stale, pc, faults>>

ContinueAsNew ==
  /\ kind = "periodic" /\ i = Tries
  /\ i' = 0
  /\ UNCHANGED <<kind, attempts, stale, pc, faults>>

-----------------------------------------------------------------------------
Next == Poll \/ CutOff \/ StalePoll \/ Crash \/ TryActivity \/ ContinueAsNew

Fairness == WF_vars(Poll) /\ WF_vars(StalePoll) /\ WF_vars(TryActivity \/ ContinueAsNew)

Spec == Init /\ [][Next]_vars /\ Fairness

-----------------------------------------------------------------------------
(* Properties *)

\* Every variable has its type; the history of a child's run is bounded.
TypeOK ==
  /\ kind \in {"frequent", "infrequent", "periodic"}
  /\ attempts \in 0 .. Forever /\ i \in 0 .. Tries
  /\ stale \in BOOLEAN /\ pc \in {"polling", "answered"}
  /\ faults \in 0 .. MaxFaults
  /\ kind = "periodic" => pc = "polling"

\* The poll is answered, also by a service that forgets, unless the one answer
\* it gives went to an attempt the server had given up; the periodic poll, whose
\* service is down for good, never stops beginning again.
PollGoesOn ==
  /\ kind = "periodic" => []<>(i = 0)
  /\ kind # "periodic" => <>(pc = "answered" \/ attempts = Forever)
=============================================================================
