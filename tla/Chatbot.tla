------------------------------- MODULE Chatbot -------------------------------
(***************************************************************************)
(* langsmith_tracing/chatbot: ChatbotWorkflow.  The update                 *)
(* message_from_user hands its message to the main loop in the one field   *)
(* _pending_message and waits until the loop has cleared it.               *)
(*                                                                         *)
(* wait_condition always suspends, and the worker resolves every condition *)
(* that is true before it resumes any of the coroutines that waited.       *)
(***************************************************************************)
EXTENDS Integers, Sequences

CONSTANTS
  Messages,        \* update calls, each with a message of its own
  Notes,           \* names of notes
  None

VARIABLES
  pc,              \* where run is suspended
  pending_message, last_response,
  message,         \* local of the main loop
  notes, done,
  status,          \* how far an update has come
  answer,          \* what it returned: the message its response answers
  round            \* history variable: what pending_message was when it was handed over

vars == <<pc, pending_message, last_response, message, notes, done, status, answer, round>>

Open == pc \notin {"closed", "failed"}
Queued == {m \in Messages : status[m] = "queued"}
Handed == {m \in Messages : status[m] = "handed"}

Init ==
  /\ pc = "waiting" /\ pending_message = None /\ last_response = None /\ message = None
  /\ notes = {} /\ done = FALSE
  /\ status = [m \in Messages |-> "unsent"]
  /\ answer = [m \in Messages |-> None] /\ round = [m \in Messages |-> None]

-----------------------------------------------------------------------------
\* An update arrives: its first wait_condition.
MessageFromUser(m) ==
  /\ Open /\ status[m] = "unsent"
  /\ status' = [status EXCEPT ![m] = "queued"]
  /\ UNCHANGED <<pc, pending_message, last_response, message, notes, done, answer, round>>

Exit ==
  /\ Open /\ ~done
  /\ done' = TRUE
  /\ UNCHANGED <<pc, pending_message, last_response, message, notes, status, answer, round>>

\* pending_message is None: every wait_condition of every handler is over.
\* Those that were handed over return, and those that waited set
\* pending_message one after the other; the last of them remains.  Those that
\* can return may do so even in the workflow task in which run returns.
ResumeHandlers ==
  /\ pc # "failed" /\ pending_message = None /\ Queued \cup Handed # {}
  /\ answer' = [m \in Messages |-> IF m \in Handed THEN last_response ELSE answer[m]]
  /\ status' = [m \in Messages |-> CASE m \in Handed -> "answered"
                                     [] m \in Queued -> "handed"
                                     [] OTHER -> status[m]]
  /\ pending_message' \in IF Queued = {} THEN {None} ELSE Queued
  /\ round' = [m \in Messages |-> IF m \in Queued THEN pending_message' ELSE round[m]]
  /\ UNCHANGED <<pc, last_response, message, notes, done>>

-----------------------------------------------------------------------------
(* run *)

LeaveLoop ==
  /\ pc = "waiting" /\ done
  /\ pc' = "closed"
  /\ UNCHANGED <<pending_message, last_response, message, notes, done, status, answer, round>>

\* Variant: the field is cleared as soon as the message is taken.
TakeMessageAndClear ==
  /\ pc = "waiting" /\ ~done /\ pending_message # None
  /\ message' = pending_message /\ pending_message' = None
  /\ pc' = "querying"
  /\ UNCHANGED <<last_response, notes, done, status, answer, round>>

TakeMessage ==
  /\ pc = "waiting" /\ ~done /\ pending_message # None
  /\ message' = pending_message
  /\ pc' = "querying"
  /\ UNCHANGED <<pending_message, last_response, notes, done, status, answer, round>>

\* call_openai asks for a tool, and is called again with its result.
CallTool ==
  /\ pc = "querying"
  /\ \E n \in Notes : notes' = notes \cup {n}
  /\ UNCHANGED <<pc, pending_message, last_response, message, done, status, answer, round>>

\* call_openai answers.
Respond ==
  /\ pc = "querying"
  /\ last_response' = message
  /\ pending_message' = None
  /\ pc' = IF done THEN "closed" ELSE "waiting"
  /\ UNCHANGED <<message, notes, done, status, answer, round>>

\* call_openai has failed three times: the workflow fails.
QueryFails ==
  /\ pc = "querying"
  /\ pc' = "failed"
  /\ UNCHANGED <<pending_message, last_response, message, notes, done, status, answer, round>>

-----------------------------------------------------------------------------
RunStep == LeaveLoop \/ TakeMessage \/ Respond

Next == \/ \E m \in Messages : MessageFromUser(m)
        \/ Exit \/ ResumeHandlers \/ RunStep \/ CallTool \/ QueryFails

Spec == Init /\ [][Next]_vars
Fairness == WF_vars(Open /\ ResumeHandlers) /\ WF_vars(RunStep)

-----------------------------------------------------------------------------
(* Properties *)

\* Every variable has its type; while a message is being answered the field
\* holds it.
TypeOK ==
  /\ pc \in {"waiting", "querying", "closed", "failed"}
  /\ {pending_message, last_response, message} \subseteq Messages \cup {None}
  /\ notes \subseteq Notes /\ done \in BOOLEAN
  /\ status \in [Messages -> {"unsent", "queued", "handed", "answered"}]
  /\ answer \in [Messages -> Messages \cup {None}]
  /\ round \in [Messages -> Messages \cup {None}]
  /\ pc = "querying" => message = pending_message /\ message # None

\* Nobody is given the response to an earlier message: an update returns the
\* response to the message that the field held when it handed its own over.
NoStaleAnswer ==
  \A m \in Messages : status[m] = "answered" => answer[m] = round[m] /\ answer[m] # None

\* Every update returns, unless the session ends.
UpdateReturns == \A m \in Messages : status[m] = "queued" ~> (status[m] = "answered" \/ ~Open)

\* "Hand the message to the main loop and wait for its response"
\* (workflows.py:68), having waited "until any previous message has finished
\* processing" (workflows.py:73).
AnswersItsOwnMessage == \A m \in Messages : status[m] = "answered" => answer[m] = m
=============================================================================
