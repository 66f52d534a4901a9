------------------------- MODULE SignalQueryBedrock -------------------------
(***************************************************************************)
(* bedrock/signals_and_queries: SignalQueryBedrockWorkflow, a chat that    *)
(* closes when no prompt has come for some minutes.  Prompts are numbered  *)
(* in the order they are sent.                                             *)
(***************************************************************************)
EXTENDS Integers, Sequences

CONSTANT MaxPrompts    \* bound: prompts sent

VARIABLES
  pc, inbox, prompt_queue, chat_timeout,
  turns,               \* the prompts in conversation_history
  dropped, sent

vars == <<pc, inbox, prompt_queue, chat_timeout, turns, dropped, sent>>

Open == pc \notin {"closed", "failed"}

Init ==
  /\ pc = "waiting" /\ inbox = <<1>> /\ sent = 1
  /\ prompt_queue = <<>> /\ chat_timeout = FALSE
  /\ turns = <<>> /\ dropped = <<>>

-----------------------------------------------------------------------------
SendPrompt ==
  /\ Open /\ sent < MaxPrompts
  /\ sent' = sent + 1
  /\ inbox' = Append(inbox, sent')
  /\ UNCHANGED <<pc, prompt_queue, chat_timeout, turns, dropped>>

UserPrompt ==
  /\ Open /\ inbox # <<>>
  /\ inbox' = Tail(inbox)
  /\ \/ ~chat_timeout /\ prompt_queue' = Append(prompt_queue, Head(inbox)) /\ UNCHANGED dropped
     \/ chat_timeout /\ dropped' = Append(dropped, Head(inbox)) /\ UNCHANGED prompt_queue
  /\ UNCHANGED <<pc, chat_timeout, turns, sent>>

\* The wait is over, or the last prompt has been answered and there is another.
TakePrompt ==
  /\ pc \in {"waiting", "prompting"} /\ prompt_queue # <<>>
  /\ turns' = Append(turns, Head(prompt_queue))
  /\ prompt_queue' = Tail(prompt_queue)
  /\ pc' = "prompting"
  /\ UNCHANGED <<inbox, chat_timeout, dropped, sent>>

\* The last prompt has been answered and there is no other.
AwaitPrompt ==
  /\ pc = "prompting" /\ prompt_queue = <<>>
  /\ pc' = "waiting"
  /\ UNCHANGED <<inbox, prompt_queue, chat_timeout, turns, dropped, sent>>

TimeOut ==
  /\ pc = "waiting" /\ prompt_queue = <<>>
  /\ chat_timeout' = TRUE /\ pc' = "closing"
  /\ UNCHANGED <<inbox, prompt_queue, turns, dropped, sent>>

\* The summary is there.
Return ==
  /\ pc = "closing" /\ inbox = <<>>
  /\ pc' = "closed"
  /\ UNCHANGED <<inbox, prompt_queue, chat_timeout, turns, dropped, sent>>

BedrockFails ==
  /\ pc \in {"prompting", "closing"}
  /\ pc' = "failed"
  /\ UNCHANGED <<inbox, prompt_queue, chat_timeout, turns, dropped, sent>>

-----------------------------------------------------------------------------
RunStep == TakePrompt \/ AwaitPrompt \/ TimeOut \/ Return
Next == SendPrompt \/ UserPrompt \/ RunStep \/ BedrockFails

\* An inactivity timeout comes only when nobody writes, but then it comes.
Fairness == WF_vars(UserPrompt) /\ WF_vars(RunStep)
Spec == Init /\ [][Next]_vars /\ Fairness

-----------------------------------------------------------------------------
(* Properties *)

\* Every variable has its type, and only a chat on its way out has timed out.
TypeOK ==
  /\ pc \in {"waiting", "prompting", "closing", "closed", "failed"}
  /\ inbox \in Seq(1 .. MaxPrompts) /\ prompt_queue \in Seq(1 .. MaxPrompts)
  /\ turns \in Seq(1 .. MaxPrompts) /\ dropped \in Seq(1 .. MaxPrompts)
  /\ chat_timeout \in BOOLEAN /\ sent \in 1 .. MaxPrompts
  /\ chat_timeout => pc \in {"closing", "closed", "failed"}

\* Prompts are taken up in the order they were sent, and dropped only once all
\* that came before the timeout have been answered; a chat that has closed
\* leaves none behind.
PromptsKeepTheirTurn ==
  /\ turns \o prompt_queue \o dropped \o inbox = [i \in 1 .. sent |-> i]
  /\ pc = "closed" => prompt_queue = <<>>

\* Without further prompts the chat closes.
ChatCloses == <>~Open
=============================================================================
