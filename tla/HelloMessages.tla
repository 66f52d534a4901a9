---------------------------- MODULE HelloMessages ----------------------------
(***************************************************************************)
(* The samples of hello in which main talks to its workflow while it runs: *)
(* hello_signal, hello_update, hello_query and hello_search_attributes.    *)
(*                                                                         *)
(* External: a timer fires on time and is handled in a later workflow task *)
(* (the worker may be slow); a query waits for the tasks that are due, a   *)
(* description does not; a run that would return while signals wait is     *)
(* retried with them.                                                      *)
(***************************************************************************)
EXTENDS Integers, Sequences

CONSTANTS MaxTime,       \* bound: seconds
          Others         \* greetings that other clients submit

VARIABLES
  name,                  \* which of the samples
  clock, pc, timer,      \* the time, the await run is in, when its sleep ends
  inbox, pending_greetings, greetings, submitted,
  flag,                  \* exit of hello_signal, is_complete of hello_update
  value,                 \* greeting, or the search attribute
  main, asked, seen      \* what main waits for, since when, and what it was told

vars == <<name, clock, pc, timer, inbox, pending_greetings, greetings, submitted, flag,
          value, main, asked, seen>>

runVars == <<pc, timer, pending_greetings, greetings, submitted, flag, value>>
mainVars == <<main, asked, seen>>

Init ==
  /\ name \in {"signal", "update", "query", "attributes"}
  /\ clock = 0 /\ pc = "start" /\ timer = 0 /\ inbox = <<>>
  /\ pending_greetings = <<>> /\ greetings = <<>> /\ submitted = <<>> /\ flag = FALSE
  /\ value = IF name = "attributes" THEN "old" ELSE "none"
  /\ main = "first" /\ asked = 0 /\ seen = <<>>

Sleeps == name \in {"query", "attributes"}

-----------------------------------------------------------------------------
(* The workflows. *)

HandleSignal ==
  /\ pc # "returned" /\ inbox # <<>> /\ inbox' = Tail(inbox)
  /\ IF Head(inbox) = "exit"
       THEN flag' = TRUE /\ UNCHANGED <<pending_greetings, submitted>>
       ELSE /\ pending_greetings' = Append(pending_greetings, Head(inbox))
            /\ submitted' = Append(submitted, Head(inbox)) /\ UNCHANGED flag
  /\ UNCHANGED <<name, clock, pc, timer, greetings, value, mainVars>>

\* The drain and the test of _exit, without an await between them.
Drain ==
  /\ name = "signal" /\ pc \in {"start", "waiting"}
  /\ pc = "start" \/ pending_greetings # <<>> \/ flag
  /\ IF pending_greetings = <<>> /\ ~flag
       THEN pc' = "waiting" /\ UNCHANGED <<greetings, pending_greetings>>
       ELSE /\ greetings' = greetings \o pending_greetings /\ pending_greetings' = <<>>
            /\ pc' = IF flag THEN "returned" ELSE "waiting"
  /\ pc' = "returned" => inbox = <<>>
  /\ UNCHANGED <<name, clock, timer, inbox, submitted, flag, value, mainVars>>

AwaitComplete ==
  /\ name = "update" /\ pc = "start" /\ flag /\ pc' = "returned"
  /\ UNCHANGED <<name, clock, timer, inbox, pending_greetings, greetings, submitted, flag,
                 value, mainVars>>

BeginSleep ==
  /\ Sleeps /\ pc = "start" /\ pc' = "sleeping" /\ timer' = clock + 2
  /\ value' = IF name = "query" THEN "hello" ELSE value
  /\ UNCHANGED <<name, clock, inbox, pending_greetings, greetings, submitted, flag, mainVars>>

TimerFires ==
  /\ pc = "sleeping" /\ clock = timer /\ pc' = "due"
  /\ UNCHANGED <<name, clock, timer, inbox, pending_greetings, greetings, submitted, flag,
                 value, mainVars>>

EndSleep ==
  /\ pc = "due" /\ pc' = "returned"
  /\ value' = IF name = "query" THEN "goodbye" ELSE "new"
  /\ UNCHANGED <<name, clock, timer, inbox, pending_greetings, greetings, submitted, flag,
                 mainVars>>

-----------------------------------------------------------------------------
(* main. *)

Script == <<"user1", "user2", "user3", "exit">>

SendSignal ==
  /\ name = "signal" /\ pc # "returned" /\ main = "first"
  /\ inbox' = Append(inbox, Script[asked + 1]) /\ asked' = asked + 1
  /\ main' = IF asked' = 4 THEN "result" ELSE main
  /\ UNCHANGED <<name, clock, runVars, seen>>

\* A signal of another client.
OtherSignal ==
  /\ name = "signal" /\ pc # "returned"
  /\ \E g \in Others : /\ ~ \E i \in DOMAIN submitted : submitted[i] = g
                       /\ ~ \E i \in DOMAIN inbox : inbox[i] = g
                       /\ inbox' = Append(inbox, g)
  /\ UNCHANGED <<name, clock, runVars, mainVars>>

Update ==
  /\ name = "update" /\ main = "first" /\ flag' = TRUE
  /\ main' = "result" /\ seen' = Append(seen, "updated")
  /\ UNCHANGED <<name, clock, pc, timer, inbox, pending_greetings, greetings, submitted,
                 value, asked>>

\* The query needs the run to have begun and no task to be due.
Ask ==
  /\ Sleeps /\ (name = "query" => pc \notin {"start", "due"})
  /\ \/ main = "first" /\ main' = "second"
     \/ main = "second" /\ clock >= asked + 3 /\ main' = "done"
  /\ asked' = clock /\ seen' = Append(seen, value)
  /\ UNCHANGED <<name, clock, inbox, runVars>>

GetResult ==
  /\ main = "result" /\ pc = "returned" /\ main' = "done"
  /\ seen' = Append(seen, greetings)
  /\ UNCHANGED <<name, clock, inbox, runVars, asked>>

Tick ==
  /\ Sleeps /\ clock < MaxTime /\ ~(pc = "sleeping" /\ clock = timer)
  /\ clock' = clock + 1 /\ UNCHANGED <<name, inbox, runVars, mainVars>>

RunStep == Drain \/ AwaitComplete \/ BeginSleep \/ TimerFires \/ EndSleep
MainStep == Update \/ Ask \/ GetResult

Next == HandleSignal \/ RunStep \/ SendSignal \/ OtherSignal \/ MainStep \/ Tick

Fairness ==
  /\ WF_vars(HandleSignal) /\ WF_vars(RunStep) /\ WF_vars(SendSignal) /\ WF_vars(MainStep)
  /\ WF_vars(Tick)
Spec == Init /\ [][Next]_vars /\ Fairness

-----------------------------------------------------------------------------
Greetings == {"user1", "user2", "user3"} \cup Others

TypeOK ==
  /\ name \in {"signal", "update", "query", "attributes"} /\ clock \in 0..MaxTime
  /\ pc \in {"start", "waiting", "sleeping", "due", "returned"} /\ timer \in 0..(MaxTime + 2)
  /\ inbox \in Seq(Greetings \cup {"exit"})
  /\ pending_greetings \in Seq(Greetings) /\ greetings \in Seq(Greetings)
  /\ submitted \in Seq(Greetings) /\ flag \in BOOLEAN
  /\ value \in {"none", "old", "new", "hello", "goodbye"}
  /\ main \in {"first", "second", "result", "done"}
  \* So many signals were sent, or at that time it last asked.
  /\ asked \in 0..IF name = "signal" THEN Len(Script) ELSE MaxTime

\* hello_signal: what was submitted is greeted or pending, in the order it was
\* submitted, and all of it is in the result; main's three are among them
\* whenever exit came after them.
GreetsWhoSubmitted ==
  name = "signal" =>
    /\ submitted = greetings \o pending_greetings
    /\ pc = "returned" => /\ pending_greetings = <<>>
                          /\ \A u \in {"user1", "user2", "user3"} :
                               \E i \in DOMAIN greetings : greetings[i] = u

\* hello_query: no query sees the workflow before its greeting, and the second
\* one, three seconds after the first, is past the sleep of two.
QueriesAreCurrent ==
  name = "query" => /\ \A i \in DOMAIN seen : seen[i] \in {"hello", "goodbye"}
                    /\ main = "done" => seen[2] = "goodbye"

\* main comes to its end, the clock permitting.
MainEnds == <>(main = "done" \/ clock = MaxTime)
=============================================================================
