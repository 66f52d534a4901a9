---------------------------- MODULE BedrockEntity ----------------------------
(***************************************************************************)
(* bedrock/entity: EntityBedrockWorkflow, a chat that never ends by        *)
(* itself.  Prompts are signals, answered one at a time by an activity;    *)
(* after some turns the workflow summarises the chat and continues as new. *)
(*                                                                         *)
(* Prompts are numbered in the order they are sent.  In the first workflow *)
(* task of a run, signals are handled before run is entered: those that    *)
(* arrive between two runs overtake the prompts carried over.              *)
(***************************************************************************)
EXTENDS Integers, Sequences

CONSTANTS
  continue_as_new_per_turns,   \* 6 in the code: it counts lines, not turns
  MaxPrompts,                  \* bound: prompts sent
  End                          \* the end_chat signal

VARIABLES
  pc,                  \* where run is suspended
  inbox,               \* signals not handled yet
  prompt_queue, chat_ended,
  carried, summary,    \* BedrockParams: the queue, and whether there is a summary
  turns,               \* the prompts taken up by this run, the last perhaps unanswered
  earlier,             \* those of earlier runs
  dropped, sent        \* prompts dropped; number of prompts sent

paramVars == <<carried, summary>>
vars == <<pc, inbox, prompt_queue, chat_ended, carried, summary, turns, earlier, dropped, sent>>

Open == pc \notin {"closed", "failed"}
\* len(conversation_history): a prompt and a response for each turn.
HistoryLength == 2 * Len(turns) + (IF summary THEN 1 ELSE 0)
Taken == earlier \o turns

\* The first prompt starts the workflow.
Init ==
  /\ pc = "new" /\ inbox = <<1>> /\ sent = 1
  /\ prompt_queue = <<>> /\ chat_ended = FALSE
  /\ carried = <<>> /\ summary = FALSE
  /\ turns = <<>> /\ earlier = <<>> /\ dropped = <<>>

-----------------------------------------------------------------------------
(* Clients *)

SendPrompt ==
  /\ Open /\ sent < MaxPrompts
  /\ sent' = sent + 1
  /\ inbox' = Append(inbox, sent')
  /\ UNCHANGED <<pc, prompt_queue, chat_ended, paramVars, turns, earlier, dropped>>

SendEnd ==
  /\ Open /\ ~chat_ended /\ \A i \in DOMAIN inbox : inbox[i] # End
  /\ inbox' = Append(inbox, End)
  /\ UNCHANGED <<pc, prompt_queue, chat_ended, paramVars, turns, earlier, dropped, sent>>

(* Signal handlers *)

UserPrompt ==
  /\ Open /\ inbox # <<>> /\ Head(inbox) # End
  /\ inbox' = Tail(inbox)
  /\ \/ ~chat_ended /\ prompt_queue' = Append(prompt_queue, Head(inbox)) /\ UNCHANGED dropped
     \/ chat_ended /\ dropped' = Append(dropped, Head(inbox)) /\ UNCHANGED prompt_queue
  /\ UNCHANGED <<pc, chat_ended, paramVars, turns, earlier, sent>>

EndChat ==
  /\ Open /\ inbox # <<>> /\ Head(inbox) = End
  /\ inbox' = Tail(inbox)
  /\ chat_ended' = TRUE
  /\ UNCHANGED <<pc, prompt_queue, paramVars, turns, earlier, dropped, sent>>

-----------------------------------------------------------------------------
(* run *)

Begin ==
  /\ pc = "new"
  /\ prompt_queue' = prompt_queue \o carried /\ carried' = <<>>
  /\ pc' = "waiting"
  /\ UNCHANGED <<inbox, chat_ended, summary, turns, earlier, dropped, sent>>

TakePrompt ==
  /\ pc = "waiting" /\ prompt_queue # <<>>
  /\ turns' = Append(turns, Head(prompt_queue))
  /\ prompt_queue' = Tail(prompt_queue)
  /\ pc' = "prompting"
  /\ UNCHANGED <<inbox, chat_ended, paramVars, earlier, dropped, sent>>

Answered ==
  /\ pc = "prompting"
  /\ pc' = IF HistoryLength >= continue_as_new_per_turns THEN "summarizing" ELSE "waiting"
  /\ UNCHANGED <<inbox, prompt_queue, chat_ended, paramVars, turns, earlier, dropped, sent>>

\* Variant: the queue is not handed on.
ContinueAsNewWithoutQueue ==
  /\ pc = "summarizing" /\ inbox = <<>>
  /\ prompt_queue' = <<>> /\ summary' = TRUE /\ chat_ended' = FALSE
  /\ earlier' = Taken /\ turns' = <<>>
  /\ pc' = "new"
  /\ UNCHANGED <<inbox, carried, dropped, sent>>

\* The parameters hold the summary and the queue; chat_ended is not among them.
ContinueAsNew ==
  /\ pc = "summarizing" /\ inbox = <<>>
  /\ carried' = prompt_queue /\ summary' = TRUE
  /\ prompt_queue' = <<>> /\ chat_ended' = FALSE
  /\ earlier' = Taken /\ turns' = <<>>
  /\ pc' = "new"
  /\ UNCHANGED <<inbox, dropped, sent>>

\* Nothing is left to answer: the chat is summarised, if there is any.
LeaveChat ==
  /\ pc = "waiting" /\ prompt_queue = <<>> /\ chat_ended
  /\ pc' = IF HistoryLength > 1 THEN "closing" ELSE "returning"
  /\ UNCHANGED <<inbox, prompt_queue, chat_ended, paramVars, turns, earlier, dropped, sent>>

Return ==
  /\ pc \in {"closing", "returning"} /\ inbox = <<>>
  /\ pc' = "closed"
  /\ UNCHANGED <<inbox, prompt_queue, chat_ended, paramVars, turns, earlier, dropped, sent>>

\* prompt_bedrock is out of its 20 seconds.
BedrockFails ==
  /\ pc \in {"prompting", "summarizing", "closing"}
  /\ pc' = "failed"
  /\ UNCHANGED <<inbox, prompt_queue, chat_ended, paramVars, turns, earlier, dropped, sent>>

-----------------------------------------------------------------------------
Handler == UserPrompt \/ EndChat
RunStep == Begin \/ TakePrompt \/ Answered \/ ContinueAsNew \/ LeaveChat \/ Return

Next == SendPrompt \/ SendEnd \/ Handler \/ RunStep \/ BedrockFails

Spec == Init /\ [][Next]_vars
Fairness == WF_vars(Handler) /\ WF_vars(RunStep)
FairSpec == Spec /\ WF_vars(Handler) /\ WF_vars(RunStep)

-----------------------------------------------------------------------------
(* Properties *)

\* Every variable has its type; a run that waits has taken over what was
\* carried.
TypeOK ==
  /\ pc \in {"new", "waiting", "prompting", "summarizing", "closing", "returning",
             "closed", "failed"}
  /\ inbox \in Seq(1 .. MaxPrompts \cup {End})
  /\ prompt_queue \in Seq(1 .. MaxPrompts) /\ carried \in Seq(1 .. MaxPrompts)
  /\ turns \in Seq(1 .. MaxPrompts) /\ earlier \in Seq(1 .. MaxPrompts)
  /\ dropped \in Seq(1 .. MaxPrompts)
  /\ chat_ended \in BOOLEAN /\ summary \in BOOLEAN
  /\ sent \in 1 .. MaxPrompts
  /\ pc # "new" => carried = <<>>

\* Over all the runs of a chat, no prompt is lost and none is taken up twice:
\* each is under way, queued, taken up or, after end_chat, dropped; a chat
\* that is closed leaves none behind.
NoPromptIsLost ==
  LET all == Taken \o dropped \o prompt_queue \o carried \o inbox
      ends == IF \E i \in DOMAIN inbox : inbox[i] = End THEN 1 ELSE 0
  IN  /\ Len(all) = sent + ends
      /\ \A p \in 1 .. sent : \E i \in DOMAIN all : all[i] = p
      /\ pc = "closed" => Len(Taken \o dropped) = sent

\* Every prompt is taken up, unless it is dropped or the chat fails; a chat
\* that is ended closes, unless it continues as new at that moment.
ChatGoesOn ==
  /\ \A p \in 1 .. MaxPrompts :
       sent >= p ~> \/ \E i \in DOMAIN Taken : Taken[i] = p
                    \/ \E i \in DOMAIN dropped : dropped[i] = p
                    \/ pc = "failed"
  /\ chat_ended ~> (~Open \/ ~chat_ended)

\* "To end the chat session, run `uv run bedrock/entity/end_chat.py`"
\* (README.md:19).
EndedChatCloses == chat_ended ~> ~Open
=============================================================================
