------------------------------ MODULE Greeting ------------------------------
(***************************************************************************)
(* message_passing/introduction: GreetingWorkflow, whose language is set   *)
(* by two updates: set_language, which only takes a language it has a      *)
(* greeting for, and set_language_using_activity, which fetches a missing  *)
(* greeting from a remote service, one call at a time.                     *)
(***************************************************************************)
EXTENDS Sequences

CONSTANTS
  Languages, English,
  Known,           \* the languages greeted from the start; English is one
  Served,          \* the languages the remote service has
  Calls            \* identities of update calls

VARIABLES
  greetings,       \* the languages with a greeting
  language, approved,
  closed,
  asked,           \* the language a call asks for
  status,          \* how far it has come
  lockQueue        \* lock: asyncio.Lock is FIFO, its head holds it

vars == <<greetings, language, approved, closed, asked, status, lockQueue>>

\* Variant: the service is called without the lock.
HoldsAnyway(c) == TRUE

Holds(c) == Head(lockQueue) = c
all_handlers_finished == \A c \in Calls : status[c] \notin {"queued", "fetching"}

Init ==
  /\ greetings = Known /\ language = English
  /\ approved = FALSE /\ closed = FALSE
  /\ asked = [c \in Calls |-> English]
  /\ status = [c \in Calls |-> "unsent"]
  /\ lockQueue = <<>>

-----------------------------------------------------------------------------
\* A call that asks for a language with a greeting does not suspend, whichever
\* of the two updates it is: the language is set at once, past the calls that
\* wait for the lock.
SetKnown(c, l) ==
  /\ ~closed /\ status[c] = "unsent" /\ l \in greetings
  /\ asked' = [asked EXCEPT ![c] = l]
  /\ status' = [status EXCEPT ![c] = "done"]
  /\ language' = l
  /\ UNCHANGED <<greetings, approved, closed, lockQueue>>

\* The validator of set_language refuses any other; set_language_using_activity
\* asks for the lock.
Enqueue(c, l) ==
  /\ ~closed /\ status[c] = "unsent" /\ l \notin greetings
  /\ asked' = [asked EXCEPT ![c] = l]
  /\ status' = [status EXCEPT ![c] = "queued"]
  /\ lockQueue' = Append(lockQueue, c)
  /\ UNCHANGED <<greetings, language, approved, closed>>

\* The lock is ours: call_greeting_service.
Fetch(c) ==
  /\ status[c] = "queued" /\ Holds(c)
  /\ status' = [status EXCEPT ![c] = "fetching"]
  /\ UNCHANGED <<greetings, language, approved, closed, asked, lockQueue>>

\* The service does not know the language: the update fails.
FetchedNothing(c) ==
  /\ status[c] = "fetching" /\ asked[c] \notin Served
  /\ status' = [status EXCEPT ![c] = "failed"]
  /\ lockQueue' = Tail(lockQueue)
  /\ UNCHANGED <<greetings, language, approved, closed, asked>>

Fetched(c) ==
  /\ status[c] = "fetching" /\ asked[c] \in Served
  /\ greetings' = greetings \cup {asked[c]}
  /\ language' = asked[c]
  /\ status' = [status EXCEPT ![c] = "done"]
  /\ lockQueue' = Tail(lockQueue)
  /\ UNCHANGED <<approved, closed, asked>>

Approve ==
  /\ ~closed /\ ~approved
  /\ approved' = TRUE
  /\ UNCHANGED <<greetings, language, closed, asked, status, lockQueue>>

\* run returns greetings[language].
Return ==
  /\ ~closed /\ approved /\ all_handlers_finished
  /\ closed' = TRUE
  /\ UNCHANGED <<greetings, language, approved, asked, status, lockQueue>>

-----------------------------------------------------------------------------
CallStep(c) == ~closed /\ (Fetch(c) \/ FetchedNothing(c) \/ Fetched(c))

Next == \/ Approve \/ Return
        \/ \E c \in Calls : CallStep(c) \/ \E l \in Languages : SetKnown(c, l) \/ Enqueue(c, l)

Fairness == WF_vars(Return) /\ \A c \in Calls : WF_vars(CallStep(c))
Spec == Init /\ [][Next]_vars /\ Fairness

-----------------------------------------------------------------------------
(* Properties *)

\* Every variable has its type; the workflow can always greet in its language.
TypeOK ==
  /\ greetings \subseteq Languages /\ language \in greetings
  /\ approved \in BOOLEAN /\ closed \in BOOLEAN
  /\ asked \in [Calls -> Languages]
  /\ status \in [Calls -> {"unsent", "queued", "fetching", "done", "failed"}]
  /\ lockQueue \in Seq(Calls)

\* "each execution can schedule the activity only when the previously scheduled
\* activity has completed" (workflows.py:97-99).
OneFetchAtATime ==
  \A c, d \in Calls : status[c] = "fetching" /\ status[d] = "fetching" => c = d

\* Every caller that waited for the service is answered.
CallEnds == \A c \in Calls : status[c] = "queued" ~> status[c] \in {"done", "failed"}
=============================================================================
