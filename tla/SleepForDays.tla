----------------------------- MODULE SleepForDays -----------------------------
(***************************************************************************)
(* sleep_for_days: a workflow that sends an e-mail every thirty days until *)
(* the signal complete.                                                    *)
(*                                                                         *)
(* External: an attempt of send_email may be lost after it sent, and is    *)
(* made again.  The tasks that workflow.wait leaves pending stay so: of    *)
(* each round its wait_condition, which the signal ends in every round at  *)
(* once.                                                                   *)
(***************************************************************************)
EXTENDS Integers, Sequences

CONSTANTS Month, MaxTime, MaxLost   \* thirty days; bounds: days, e-mails lost

VARIABLES
  is_complete,
  pc, timer,             \* the await of run, and when its sleep ends
  clock,
  rounds,                \* when each round's e-mail was asked for
  mails,                 \* e-mails sent
  left,                  \* wait_condition tasks of earlier rounds
  lost

vars == <<is_complete, pc, timer, clock, rounds, mails, left, lost>>

Init == /\ is_complete = FALSE /\ pc = "loop" /\ timer = 0 /\ clock = 0
        /\ rounds = <<>> /\ mails = 0 /\ left = 0 /\ lost = 0

complete == /\ pc # "done" /\ ~is_complete /\ is_complete' = TRUE
            /\ UNCHANGED <<pc, timer, clock, rounds, mails, left, lost>>

\* while not self.is_complete
Loop ==
  /\ pc = "loop"
  /\ IF is_complete THEN pc' = "done" /\ UNCHANGED rounds
     ELSE pc' = "send_email" /\ rounds' = Append(rounds, clock)
  /\ UNCHANGED <<is_complete, timer, clock, mails, left, lost>>

send_email ==
  /\ pc = "send_email" /\ mails' = mails + 1
  /\ \/ pc' = "sent" /\ UNCHANGED lost
     \/ lost < MaxLost /\ lost' = lost + 1 /\ UNCHANGED pc
  /\ UNCHANGED <<is_complete, timer, clock, rounds, left>>

\* wait takes up its two tasks; the first completed ends it.
Wait ==
  /\ pc = "sent" /\ pc' = "wait" /\ timer' = clock + Month
  /\ UNCHANGED <<is_complete, clock, rounds, mails, left, lost>>

WaitEnds ==
  /\ pc = "wait" /\ (is_complete \/ clock = timer) /\ pc' = "loop"
  /\ left' = IF is_complete THEN 0 ELSE left + 1
  /\ UNCHANGED <<is_complete, timer, clock, rounds, mails, lost>>

\* The worker may be down for days, except when a timer is due.
Tick == /\ clock < MaxTime /\ pc # "done" /\ ~(pc = "wait" /\ clock = timer)
        /\ clock' = clock + 1
        /\ UNCHANGED <<is_complete, pc, timer, rounds, mails, left, lost>>

RunStep == Loop \/ send_email \/ Wait \/ WaitEnds
Next == complete \/ RunStep \/ Tick

Fairness == WF_vars(Loop \/ Wait \/ WaitEnds) /\ WF_vars(send_email) /\ WF_vars(Tick)
Spec == Init /\ [][Next]_vars /\ Fairness

-----------------------------------------------------------------------------
TypeOK ==
  /\ is_complete \in BOOLEAN /\ pc \in {"loop", "send_email", "sent", "wait", "done"}
  /\ timer \in 0..(MaxTime + Month) /\ clock \in 0..MaxTime /\ lost \in 0..MaxLost
  /\ \A i \in DOMAIN rounds : rounds[i] \in 0..MaxTime

\* Thirty days lie between the e-mails of two rounds, one is sent more than
\* asked for only when an attempt was lost, every round but the last has left
\* a task behind, and the workflow ends on the signal only.
OneMailAMonth ==
  /\ \A i \in 1..(Len(rounds) - 1) : rounds[i + 1] >= rounds[i] + Month
  /\ mails \in (Len(rounds) - 1 + lost)..(Len(rounds) + lost)
  /\ is_complete \/ left = (IF pc = "loop" THEN Len(rounds) ELSE Len(rounds) - 1)
  /\ pc = "done" => is_complete

\* The signal ends it, whatever it waits for.
CompleteEndsIt == is_complete ~> pc = "done"
=============================================================================
