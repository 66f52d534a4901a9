--------------------------- MODULE UpdatableTimer ---------------------------
(***************************************************************************)
(* updatable_timer: a workflow that sleeps until a time that a signal may  *)
(* change while it sleeps.                                                 *)
(*                                                                         *)
(* workflow.now() is the time at which the workflow task started.  The     *)
(* server fires a timer at its time or later, and a task brings the        *)
(* signals that came before it ahead of the timer.                         *)
(***************************************************************************)
EXTENDS Integers, Sequences

CONSTANTS
  MaxTime,               \* bound: the times used
  MaxSignals             \* bound: updates sent

Times == 0 .. MaxTime

VARIABLES
  clock,                 \* the server's clock
  inbox,                 \* signals whose handlers have not run
  wake_up_time, wake_up_time_updated,
  pc,                    \* where sleep is suspended
  timer,                 \* when the timer of wait_condition is due
  sent                   \* the wake-up times asked for, the start's first

vars == <<clock, inbox, wake_up_time, wake_up_time_updated, pc, timer, sent>>

Init ==
  /\ clock = 0 /\ inbox = <<>>
  /\ wake_up_time \in Times /\ wake_up_time_updated = FALSE
  /\ pc = "starting" /\ timer = 0
  /\ sent = <<wake_up_time>>

-----------------------------------------------------------------------------
Tick == /\ clock < MaxTime /\ clock' = clock + 1
        /\ UNCHANGED <<inbox, wake_up_time, wake_up_time_updated, pc, timer, sent>>

SendUpdate(t) ==
  /\ pc # "done" /\ Len(sent) <= MaxSignals
  /\ inbox' = Append(inbox, t) /\ sent' = Append(sent, t)
  /\ UNCHANGED <<clock, wake_up_time, wake_up_time_updated, pc, timer>>

\* Variant: the sleeper is not told.
UpdateSilently ==
  /\ pc # "done" /\ inbox # <<>>
  /\ inbox' = Tail(inbox) /\ wake_up_time' = Head(inbox)
  /\ UNCHANGED <<clock, wake_up_time_updated, pc, timer, sent>>

\* The signal handler; the first ones may run before run is entered.
UpdateWakeUpTime ==
  /\ pc # "done" /\ inbox # <<>>
  /\ inbox' = Tail(inbox)
  /\ wake_up_time' = Head(inbox) /\ wake_up_time_updated' = TRUE
  /\ UNCHANGED <<clock, pc, timer, sent>>

\* Once through the loop.  A run that has signals to handle cannot complete.
Loop ==
  LET sleep_interval == wake_up_time - clock
  IN  \/ /\ sleep_interval <= 0 /\ inbox = <<>>
         /\ pc' = "done"
         /\ UNCHANGED <<wake_up_time_updated, timer>>
      \/ /\ sleep_interval > 0
         /\ pc' = "sleeping" /\ wake_up_time_updated' = FALSE
         /\ timer' = clock + sleep_interval

Sleep ==
  /\ \/ pc = "starting"
     \/ pc = "sleeping" /\ wake_up_time_updated
     \/ pc = "sleeping" /\ inbox = <<>> /\ timer <= clock
  /\ Loop
  /\ UNCHANGED <<clock, inbox, wake_up_time, sent>>

-----------------------------------------------------------------------------
Next == Tick \/ UpdateWakeUpTime \/ Sleep \/ \E t \in Times : SendUpdate(t)

\* Time passes, and the worker does what it is given.
Fairness == WF_vars(Tick) /\ WF_vars(UpdateWakeUpTime) /\ WF_vars(Sleep)
Spec == Init /\ [][Next]_vars /\ Fairness

-----------------------------------------------------------------------------
(* Properties *)

\* Every variable has its type.
TypeOK ==
  /\ clock \in Times /\ wake_up_time \in Times /\ timer \in Times
  /\ inbox \in Seq(Times) /\ sent \in Seq(Times)
  /\ wake_up_time_updated \in BOOLEAN
  /\ pc \in {"starting", "sleeping", "done"}

\* The sleep follows the updates: whenever it is not about to look again, its
\* timer is due at the latest time asked for and handled, and it ends neither
\* before the latest time nor with an update unread.
SleepFollowsUpdates ==
  LET latest == sent[Len(sent) - Len(inbox)]
  IN  /\ pc = "sleeping" /\ ~wake_up_time_updated => timer = latest
      /\ pc = "done" => inbox = <<>> /\ clock >= latest

\* The workflow wakes up, however often it is postponed.
WakesUp == <>(pc = "done")
=============================================================================
