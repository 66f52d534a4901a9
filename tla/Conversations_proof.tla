------------------------- MODULE Conversations_proof -------------------------
(***************************************************************************)
(* Proofs about the workflows that are talked to: the chats with Bedrock   *)
(* (BedrockEntity, SignalQueryBedrock), the chatbot (Chatbot), the airline *)
(* (CustomerService), the timers that signals change or end                *)
(* (UpdatableTimer, SleepForDays), hello's signals and queries             *)
(* (HelloMessages).  They hold for every number of prompts, messages, runs *)
(* and days.                                                               *)
(***************************************************************************)
EXTENDS Samples, Data_proof, SequenceTheorems

-----------------------------------------------------------------------------
(* BedrockEntity *)

\* Where a prompt can be.
Kept(p) == \/ In(p, e_earlier) \/ In(p, e_turns) \/ In(p, e_dropped)
           \/ In(p, e_prompt_queue) \/ In(p, e_carried) \/ In(p, e_inbox)

Ends == IF In(End, e_inbox) THEN 1 ELSE 0

\* A chat on its way out has been ended and has answered what it had queued.
LeftBehind ==
  e_pc \in {"closing", "returning", "closed"} => e_chat_ended /\ e_prompt_queue = <<>>

EntityInv ==
  /\ E!TypeOK /\ LeftBehind
  /\ \A p \in 1..e_sent : Kept(p)
  /\ Len(e_earlier) + Len(e_turns) + Len(e_dropped) + Len(e_prompt_queue) + Len(e_carried) + Len(e_inbox)
       = e_sent + Ends
  /\ \A i, k \in DOMAIN e_inbox : e_inbox[i] = End /\ e_inbox[k] = End => i = k
  /\ e_pc = "closed" => e_inbox = <<>>

\* Without its head the inbox holds end_chat unless that was the head.
LEMMA EndTaken ==
  ASSUME EntityConstants, EntityInv, e_inbox # <<>>
  PROVE  /\ Head(e_inbox) = End => ~In(End, Tail(e_inbox))
         /\ Head(e_inbox) # End => (In(End, Tail(e_inbox)) <=> In(End, e_inbox))
         /\ \A i, k \in DOMAIN Tail(e_inbox) :
              Tail(e_inbox)[i] = End /\ Tail(e_inbox)[k] = End => i = k
<1>1. e_inbox \in Seq(1..MaxPrompts \cup {End})
  BY DEF EntityInv, E!TypeOK
<1>2. /\ 1 \in DOMAIN e_inbox /\ e_inbox[1] = Head(e_inbox)
      /\ \A i \in DOMAIN Tail(e_inbox) :
           i \in Int /\ i # 0 /\ i + 1 \in DOMAIN e_inbox /\ Tail(e_inbox)[i] = e_inbox[i + 1]
  BY <1>1
<1>3. \A x : In(x, e_inbox) <=> x = Head(e_inbox) \/ In(x, Tail(e_inbox))
  BY <1>1, Beheaded
<1> QED
  BY <1>2, <1>3 DEF In, EntityInv

\* The clients and the signal handlers.
LEMMA EntitySignals ==
  ASSUME EntityConstants, EntityInv,
         E!SendPrompt \/ E!SendEnd \/ E!UserPrompt \/ E!EndChat
  PROVE  EntityInv'
<1> DEFINE M == 1..MaxPrompts \cup {End}
<1>1. /\ e_inbox \in Seq(M) /\ e_prompt_queue \in Seq(1..MaxPrompts) /\ e_dropped \in Seq(1..MaxPrompts)
      /\ Len(e_inbox) \in Nat /\ Len(e_prompt_queue) \in Nat /\ Len(e_dropped) \in Nat
      /\ e_carried \in Seq(1..MaxPrompts) /\ Len(e_carried) \in Nat
      /\ e_earlier \in Seq(1..MaxPrompts) /\ Len(e_earlier) \in Nat
      /\ e_turns \in Seq(1..MaxPrompts) /\ Len(e_turns) \in Nat
      /\ e_sent \in 1..MaxPrompts /\ End \notin 1..MaxPrompts
  BY DEF EntityConstants, EntityInv, E!TypeOK
<1> USE DEF EntityInv, LeftBehind
<1>2. CASE E!SendPrompt
  <2>1. /\ e_sent' = e_sent + 1 /\ e_inbox' = Append(e_inbox, e_sent') /\ e_sent' \in 1..MaxPrompts
        /\ UNCHANGED <<e_pc, e_prompt_queue, e_chat_ended, e_carried, e_summary, e_turns, e_earlier, e_dropped>>
        /\ e_pc # "closed"
    <3>1. /\ e_sent' = e_sent + 1 /\ e_inbox' = Append(e_inbox, e_sent') /\ e_sent < MaxPrompts
          /\ UNCHANGED <<e_pc, e_prompt_queue, e_chat_ended, e_carried, e_summary, e_turns, e_earlier, e_dropped>>
          /\ e_pc # "closed"
      BY <1>2 DEF E!SendPrompt, E!Open, E!paramVars
    <3> QED
      BY <1>1, <3>1 DEF EntityConstants
  <2>2. /\ e_inbox' \in Seq(M) /\ Len(e_inbox') = Len(e_inbox) + 1
        /\ \A x : In(x, e_inbox') <=> In(x, e_inbox) \/ x = e_sent'
    <3>1. e_sent' \in M
      BY <2>1
    <3>2. \A q \in Seq(M) : \A x \in M :
            /\ Append(q, x) \in Seq(M) /\ Len(Append(q, x)) = Len(q) + 1
            /\ \A y : In(y, Append(q, x)) <=> In(y, q) \/ y = x
      BY Appended
    <3> HIDE DEF M
    <3> QED
      BY <1>1, <2>1, <3>1, <3>2
  <2>3. \A i, k \in DOMAIN e_inbox' : e_inbox'[i] = End /\ e_inbox'[k] = End => i = k
    <3>1. /\ \A i \in DOMAIN e_inbox : i \in DOMAIN e_inbox' /\ e_inbox'[i] = e_inbox[i]
          /\ e_inbox'[Len(e_inbox) + 1] = e_sent'
          /\ \A i \in DOMAIN e_inbox' : i \in DOMAIN e_inbox \/ i = Len(e_inbox) + 1
      <4>1. e_inbox \in Seq(M) /\ e_sent' \in M /\ e_inbox' = Append(e_inbox, e_sent')
        BY <1>1, <2>1
      <4> HIDE DEF EntityInv, LeftBehind, M
      <4> QED
        BY <4>1, AppendedElements
    <3>2. e_sent' # End
      BY <1>1, <2>1
    <3> QED
      BY <3>1, <3>2
  <2>4. Ends' = Ends
    BY <1>1, <2>1, <2>2 DEF Ends
  <2>5. \A p \in 1..e_sent' : p \in 1..e_sent \/ p = e_sent'
    BY <1>1, <2>1
  <2>6. \A p \in 1..e_sent' : Kept(p)'
    BY <2>1, <2>2, <2>5 DEF Kept
  <2>7. E!TypeOK'
    BY <2>1, <2>2 DEF E!TypeOK
  <2>8. Len(e_earlier') + Len(e_turns') + Len(e_dropped') + Len(e_prompt_queue') + Len(e_carried')
          + Len(e_inbox') = e_sent' + Ends'
    <3>1. /\ Len(e_earlier) + Len(e_turns) + Len(e_dropped) + Len(e_prompt_queue) + Len(e_carried)
               + Len(e_inbox) = e_sent + Ends
          /\ Len(e_inbox) \in Nat /\ Len(e_prompt_queue) \in Nat /\ Len(e_dropped) \in Nat
          /\ Len(e_carried) \in Nat /\ Len(e_earlier) \in Nat /\ Len(e_turns) \in Nat /\ e_sent \in Nat
      BY <1>1
    <3>2. /\ Len(e_earlier') = Len(e_earlier) /\ Len(e_turns') = Len(e_turns)
          /\ Len(e_dropped') = Len(e_dropped) /\ Len(e_prompt_queue') = Len(e_prompt_queue)
          /\ Len(e_carried') = Len(e_carried) /\ Len(e_inbox') = Len(e_inbox) + 1
          /\ e_sent' = e_sent + 1
      BY <2>1, <2>2
    <3>3. Ends \in {0, 1}
      BY DEF Ends
    <3> HIDE DEF EntityInv, LeftBehind, M
    <3> QED
      BY <2>4, <3>1, <3>2, <3>3
  <2> QED
    BY <2>1, <2>3, <2>6, <2>7, <2>8
<1>3. CASE E!SendEnd
  <2>1. /\ e_inbox' = Append(e_inbox, End) /\ ~In(End, e_inbox) /\ e_pc # "closed" /\ End \in M
        /\ UNCHANGED <<e_pc, e_prompt_queue, e_chat_ended, e_carried, e_summary, e_turns, e_earlier, e_dropped,
                       e_sent>>
    BY <1>3 DEF E!SendEnd, E!Open, E!paramVars, In
  <2>2. /\ e_inbox' \in Seq(M) /\ Len(e_inbox') = Len(e_inbox) + 1
        /\ \A x : In(x, e_inbox') <=> In(x, e_inbox) \/ x = End
    BY <1>1, <2>1, Appended
  <2>3. \A i, k \in DOMAIN e_inbox' : e_inbox'[i] = End /\ e_inbox'[k] = End => i = k
    <3>1. /\ \A i \in DOMAIN e_inbox : i \in DOMAIN e_inbox' /\ e_inbox'[i] = e_inbox[i]
          /\ \A i \in DOMAIN e_inbox' : i \in DOMAIN e_inbox \/ i = Len(e_inbox) + 1
      <4>1. e_inbox \in Seq(M) /\ End \in M /\ e_inbox' = Append(e_inbox, End)
        BY <1>1, <2>1
      <4> HIDE DEF EntityInv, LeftBehind, M
      <4> QED
        BY <4>1, AppendedElements
    <3> QED
      BY <2>1, <3>1 DEF In
  <2>4. Ends' = 1 /\ Ends = 0
    BY <2>1, <2>2 DEF Ends
  <2>5. \A p \in 1..e_sent' : Kept(p)'
    BY <2>1, <2>2 DEF Kept
  <2>6. E!TypeOK'
    BY <2>1, <2>2 DEF E!TypeOK
  <2>7. Len(e_earlier') + Len(e_turns') + Len(e_dropped') + Len(e_prompt_queue') + Len(e_carried')
          + Len(e_inbox') = e_sent' + Ends'
    <3>1. /\ Len(e_earlier) + Len(e_turns) + Len(e_dropped) + Len(e_prompt_queue) + Len(e_carried)
               + Len(e_inbox) = e_sent + Ends
          /\ Len(e_inbox) \in Nat /\ Len(e_prompt_queue) \in Nat /\ Len(e_dropped) \in Nat
          /\ Len(e_carried) \in Nat /\ Len(e_earlier) \in Nat /\ Len(e_turns) \in Nat /\ e_sent \in Nat
      BY <1>1
    <3>2. /\ Len(e_earlier') = Len(e_earlier) /\ Len(e_turns') = Len(e_turns)
          /\ Len(e_dropped') = Len(e_dropped) /\ Len(e_prompt_queue') = Len(e_prompt_queue)
          /\ Len(e_carried') = Len(e_carried) /\ Len(e_inbox') = Len(e_inbox) + 1
          /\ e_sent' = e_sent
      BY <2>1, <2>2
    <3>3. Ends \in {0, 1}
      BY DEF Ends
    <3> HIDE DEF EntityInv, LeftBehind, M
    <3> QED
      BY <2>4, <3>1, <3>2, <3>3
  <2> QED
    BY <2>1, <2>3, <2>5, <2>6, <2>7
<1>4. CASE E!UserPrompt
  <2>1. /\ e_inbox # <<>> /\ Head(e_inbox) # End /\ e_inbox' = Tail(e_inbox) /\ e_pc # "closed"
        /\ UNCHANGED <<e_pc, e_chat_ended, e_carried, e_summary, e_turns, e_earlier, e_sent>>
    BY <1>4 DEF E!UserPrompt, E!Open, E!paramVars
  <2>2. /\ Head(e_inbox) \in M /\ e_inbox' \in Seq(M) /\ Len(e_inbox) = Len(e_inbox') + 1
        /\ Len(e_inbox') \in Nat
        /\ \A x : In(x, e_inbox) <=> x = Head(e_inbox) \/ In(x, e_inbox')
    BY <1>1, <2>1, Beheaded
  <2>3. Head(e_inbox) \in 1..MaxPrompts
    BY <2>1, <2>2
  <2>4. Ends' = Ends /\ \A i, k \in DOMAIN e_inbox' : e_inbox'[i] = End /\ e_inbox'[k] = End => i = k
    BY <2>1, EndTaken DEF Ends
  <2>5. CASE ~e_chat_ended /\ e_prompt_queue' = Append(e_prompt_queue, Head(e_inbox)) /\ UNCHANGED e_dropped
    <3>1. /\ e_prompt_queue' \in Seq(1..MaxPrompts) /\ Len(e_prompt_queue') = Len(e_prompt_queue) + 1
          /\ \A x : In(x, e_prompt_queue') <=> In(x, e_prompt_queue) \/ x = Head(e_inbox)
      <4> DEFINE P == 1..MaxPrompts
      <4>1. e_prompt_queue \in Seq(P) /\ Head(e_inbox) \in P /\ e_prompt_queue' = Append(e_prompt_queue, Head(e_inbox))
        BY <1>1, <2>3, <2>5
      <4> HIDE DEF P
      <4>2. /\ e_prompt_queue' \in Seq(P) /\ Len(e_prompt_queue') = Len(e_prompt_queue) + 1
            /\ \A x : In(x, e_prompt_queue') <=> In(x, e_prompt_queue) \/ x = Head(e_inbox)
        BY <4>1, Appended
      <4> QED
        BY <4>2 DEF P
    <3>2. \A p \in 1..e_sent' : Kept(p)'
      BY <2>1, <2>2, <2>5, <3>1 DEF Kept
    <3>3. E!TypeOK'
      BY <2>1, <2>2, <2>5, <3>1 DEF E!TypeOK
    <3>4. Len(e_earlier') + Len(e_turns') + Len(e_dropped') + Len(e_prompt_queue') + Len(e_carried')
            + Len(e_inbox') = e_sent' + Ends'
      BY <1>1, <2>1, <2>2, <2>4, <2>5, <3>1 DEF Ends
    <3> QED
      BY <2>1, <2>4, <2>5, <3>2, <3>3, <3>4
  <2>6. CASE e_chat_ended /\ e_dropped' = Append(e_dropped, Head(e_inbox)) /\ UNCHANGED e_prompt_queue
    <3>1. /\ e_dropped' \in Seq(1..MaxPrompts) /\ Len(e_dropped') = Len(e_dropped) + 1
          /\ \A x : In(x, e_dropped') <=> In(x, e_dropped) \/ x = Head(e_inbox)
      <4> DEFINE P == 1..MaxPrompts
      <4>1. e_dropped \in Seq(P) /\ Head(e_inbox) \in P /\ e_dropped' = Append(e_dropped, Head(e_inbox))
        BY <1>1, <2>3, <2>6
      <4> HIDE DEF P
      <4>2. /\ e_dropped' \in Seq(P) /\ Len(e_dropped') = Len(e_dropped) + 1
            /\ \A x : In(x, e_dropped') <=> In(x, e_dropped) \/ x = Head(e_inbox)
        BY <4>1, Appended
      <4> QED
        BY <4>2 DEF P
    <3>2. \A p \in 1..e_sent' : Kept(p)'
      BY <2>1, <2>2, <2>6, <3>1 DEF Kept
    <3>3. E!TypeOK'
      BY <2>1, <2>2, <2>6, <3>1 DEF E!TypeOK
    <3>4. Len(e_earlier') + Len(e_turns') + Len(e_dropped') + Len(e_prompt_queue') + Len(e_carried')
            + Len(e_inbox') = e_sent' + Ends'
      BY <1>1, <2>1, <2>2, <2>4, <2>6, <3>1 DEF Ends
    <3> QED
      BY <2>1, <2>4, <2>6, <3>2, <3>3, <3>4
  <2> QED
    BY <1>4, <2>5, <2>6 DEF E!UserPrompt
<1>5. CASE E!EndChat
  <2>1. /\ e_inbox # <<>> /\ Head(e_inbox) = End /\ e_inbox' = Tail(e_inbox) /\ e_pc # "closed"
        /\ e_chat_ended' = TRUE
        /\ UNCHANGED <<e_pc, e_prompt_queue, e_carried, e_summary, e_turns, e_earlier, e_dropped, e_sent>>
    BY <1>5 DEF E!EndChat, E!Open, E!paramVars
  <2>2. /\ e_inbox' \in Seq(M) /\ Len(e_inbox) = Len(e_inbox') + 1 /\ Len(e_inbox') \in Nat
        /\ \A x : In(x, e_inbox) <=> x = End \/ In(x, e_inbox')
    BY <1>1, <2>1, Beheaded
  <2>3. /\ Ends' = 0 /\ Ends = 1
        /\ \A i, k \in DOMAIN e_inbox' : e_inbox'[i] = End /\ e_inbox'[k] = End => i = k
    BY <2>1, <2>2, EndTaken DEF Ends
  <2>4. \A p \in 1..e_sent' : Kept(p)'
    <3>1. \A p \in 1..e_sent : p # End
      BY DEF EntityConstants
    <3> QED
      BY <2>1, <2>2, <3>1 DEF Kept
  <2>5. E!TypeOK'
    BY <2>1, <2>2 DEF E!TypeOK
  <2>6. Len(e_earlier') + Len(e_turns') + Len(e_dropped') + Len(e_prompt_queue') + Len(e_carried')
          + Len(e_inbox') = e_sent' + Ends'
    BY <1>1, <2>1, <2>2, <2>3
  <2> QED
    BY <2>1, <2>3, <2>4, <2>5, <2>6
<1> QED
  BY <1>2, <1>3, <1>4, <1>5

\* The run: it passes prompts on, and to the next run.
LEMMA EntityRun ==
  ASSUME EntityConstants, EntityInv, E!RunStep \/ E!BedrockFails
  PROVE  EntityInv'
<1> DEFINE P == 1..MaxPrompts
<1>1. /\ e_prompt_queue \in Seq(P) /\ e_carried \in Seq(P) /\ e_earlier \in Seq(P) /\ e_turns \in Seq(P)
      /\ Len(e_prompt_queue) \in Nat /\ Len(e_carried) \in Nat /\ Len(e_earlier) \in Nat
      /\ Len(e_turns) \in Nat /\ Len(e_dropped) \in Nat /\ Len(e_inbox) \in Nat
      /\ e_sent \in P /\ Ends \in Nat /\ <<>> \in Seq(P) /\ Len(<<>>) = 0
      /\ \A x : ~In(x, <<>>)
  BY DEF EntityInv, E!TypeOK, Ends, In
<1> HIDE DEF P
<1> USE DEF EntityInv, LeftBehind
<1>2. CASE E!Begin
  <2>1. /\ e_prompt_queue' = e_prompt_queue \o e_carried /\ e_carried' = <<>> /\ e_pc' = "waiting"
        /\ UNCHANGED <<e_inbox, e_chat_ended, e_summary, e_turns, e_earlier, e_dropped, e_sent>>
    BY <1>2 DEF E!Begin
  <2>2. /\ e_prompt_queue' \in Seq(P) /\ Len(e_prompt_queue') = Len(e_prompt_queue) + Len(e_carried)
        /\ \A x : In(x, e_prompt_queue') <=> In(x, e_prompt_queue) \/ In(x, e_carried)
    BY <1>1, <2>1, Joined
  <2>3. E!TypeOK'
    BY <1>1, <2>1, <2>2 DEF E!TypeOK, P
  <2>4. \A p \in 1..e_sent' : Kept(p)'
    BY <1>1, <2>1, <2>2 DEF Kept
  <2>5. Ends' = Ends /\ Len(e_carried') = 0
    BY <1>1, <2>1 DEF Ends
  <2>6. Len(e_earlier') + Len(e_turns') + Len(e_dropped') + Len(e_prompt_queue') + Len(e_carried')
          + Len(e_inbox') = e_sent' + Ends'
    BY <1>1, <2>1, <2>2, <2>5
  <2> QED
    BY <2>1, <2>3, <2>4, <2>6
<1>3. CASE E!TakePrompt
  <2>1. /\ e_prompt_queue # <<>> /\ e_turns' = Append(e_turns, Head(e_prompt_queue))
        /\ e_prompt_queue' = Tail(e_prompt_queue) /\ e_pc = "waiting" /\ e_pc' = "prompting"
        /\ UNCHANGED <<e_inbox, e_chat_ended, e_carried, e_summary, e_earlier, e_dropped, e_sent>>
    BY <1>3 DEF E!TakePrompt, E!paramVars
  <2>2. /\ Head(e_prompt_queue) \in P /\ e_prompt_queue' \in Seq(P)
        /\ Len(e_prompt_queue) = Len(e_prompt_queue') + 1
        /\ \A x : In(x, e_prompt_queue) <=> x = Head(e_prompt_queue) \/ In(x, e_prompt_queue')
    BY <1>1, <2>1, Beheaded
  <2>3. /\ e_turns' \in Seq(P) /\ Len(e_turns') = Len(e_turns) + 1
        /\ \A x : In(x, e_turns') <=> In(x, e_turns) \/ x = Head(e_prompt_queue)
    BY <1>1, <2>1, <2>2, Appended
  <2>4. Len(e_prompt_queue') \in Nat
    BY <2>2
  <2>5. E!TypeOK'
    BY <1>1, <2>1, <2>2, <2>3 DEF E!TypeOK, P
  <2>6. \A p \in 1..e_sent' : Kept(p)'
    BY <2>1, <2>2, <2>3 DEF Kept
  <2>7. Ends' = Ends
    BY <2>1 DEF Ends
  <2>8. Len(e_earlier') + Len(e_turns') + Len(e_dropped') + Len(e_prompt_queue') + Len(e_carried')
          + Len(e_inbox') = e_sent' + Ends'
    BY <1>1, <2>1, <2>2, <2>3, <2>4, <2>7
  <2> QED
    BY <2>1, <2>5, <2>6, <2>8
<1>4. CASE E!ContinueAsNew
  <2>1. /\ e_pc = "summarizing" /\ e_carried' = e_prompt_queue /\ e_prompt_queue' = <<>>
        /\ e_earlier' = e_earlier \o e_turns /\ e_turns' = <<>> /\ e_pc' = "new"
        /\ e_summary' = TRUE /\ e_chat_ended' = FALSE
        /\ UNCHANGED <<e_inbox, e_dropped, e_sent>>
    BY <1>4 DEF E!ContinueAsNew, E!Taken
  <2>2. e_carried = <<>>
    BY <2>1 DEF E!TypeOK
  <2>3. /\ e_earlier' \in Seq(P) /\ Len(e_earlier') = Len(e_earlier) + Len(e_turns)
        /\ \A x : In(x, e_earlier') <=> In(x, e_earlier) \/ In(x, e_turns)
    BY <1>1, <2>1, Joined
  <2>4. E!TypeOK'
    BY <1>1, <2>1, <2>3 DEF E!TypeOK, P
  <2>5. \A p \in 1..e_sent' : Kept(p)'
    BY <1>1, <2>1, <2>2, <2>3 DEF Kept
  <2>6. /\ Ends' = Ends /\ Len(e_carried') = Len(e_prompt_queue) /\ Len(e_carried) = 0
        /\ Len(e_prompt_queue') = 0 /\ Len(e_turns') = 0
    BY <1>1, <2>1, <2>2 DEF Ends
  <2>7. Len(e_earlier') + Len(e_turns') + Len(e_dropped') + Len(e_prompt_queue') + Len(e_carried')
          + Len(e_inbox') = e_sent' + Ends'
    BY <1>1, <2>1, <2>3, <2>6
  <2> QED
    BY <2>1, <2>4, <2>5, <2>7
<1>5. CASE E!Answered \/ E!LeaveChat \/ E!Return \/ E!BedrockFails
  <2>1. /\ UNCHANGED <<e_inbox, e_prompt_queue, e_chat_ended, e_carried, e_summary, e_turns, e_earlier, e_dropped,
                       e_sent>>
        /\ e_pc # "new" /\ e_pc' # "new"
        /\ e_pc' \in {"waiting", "summarizing", "closing", "returning", "closed", "failed"}
        /\ e_pc' \in {"closing", "returning", "closed"} => e_chat_ended /\ e_prompt_queue = <<>>
        /\ e_pc' = "closed" => e_inbox = <<>>
    BY <1>5 DEF E!Answered, E!LeaveChat, E!Return, E!BedrockFails, E!paramVars
  <2>2. Ends' = Ends /\ \A p : Kept(p)' <=> Kept(p)
    BY <2>1 DEF Ends, Kept
  <2>3. E!TypeOK'
    BY <2>1 DEF E!TypeOK
  <2> QED
    BY <2>1, <2>2, <2>3
<1> QED
  BY <1>2, <1>3, <1>4, <1>5 DEF E!RunStep

\* No prompt of a chat is lost or answered twice, over all its runs and whatever
\* overtakes what; a chat that is closed leaves none behind
\* (bedrock/entity/workflows.py:40-153).
THEOREM EveryPromptIsKept == E!Spec => [](E!TypeOK /\ E!NoPromptIsLost)
<1>0. EntityConstants
  BY ConversationsAssumption
<1> USE <1>0
<1>1. E!Init => EntityInv
  <2> SUFFICES ASSUME E!Init PROVE EntityInv
    OBVIOUS
  <2>1. /\ e_inbox = <<1>> /\ e_sent = 1 /\ e_pc = "new" /\ e_prompt_queue = <<>> /\ e_carried = <<>>
        /\ e_turns = <<>> /\ e_earlier = <<>> /\ e_dropped = <<>> /\ e_chat_ended = FALSE
        /\ e_summary = FALSE
    BY DEF E!Init
  <2>2. 1 \in 1..MaxPrompts /\ 1 # End /\ <<>> \in Seq(1..MaxPrompts)
    BY DEF EntityConstants
  <2>3. /\ e_inbox \in Seq(1..MaxPrompts \cup {End}) /\ DOMAIN e_inbox = {1} /\ e_inbox[1] = 1
        /\ Len(e_inbox) = 1 /\ Len(<<>>) = 0
    BY <2>1, <2>2
  <2>4. Ends = 0
    BY <2>2, <2>3 DEF Ends, In
  <2>5. \A p \in 1..e_sent : Kept(p)
    BY <2>1, <2>3 DEF Kept, In
  <2>6. E!TypeOK
    BY <2>1, <2>2, <2>3 DEF E!TypeOK
  <2> QED
    BY <2>1, <2>2, <2>3, <2>4, <2>5, <2>6 DEF EntityInv, LeftBehind
<1>2. EntityInv /\ [E!Next]_(E!vars) => EntityInv'
  <2>1. CASE UNCHANGED E!vars
    BY <2>1 DEF E!vars, E!paramVars, EntityInv, E!TypeOK, LeftBehind, Kept, Ends
  <2> QED
    BY <2>1, EntitySignals, EntityRun DEF E!Next, E!Handler
<1>3. EntityInv => E!TypeOK /\ E!NoPromptIsLost
  <2> SUFFICES ASSUME EntityInv PROVE E!NoPromptIsLost
    BY DEF EntityInv
  <2> DEFINE M == 1..MaxPrompts \cup {End}
             taken == E!Taken
             all == taken \o e_dropped \o e_prompt_queue \o e_carried \o e_inbox
  <2>1. /\ e_earlier \in Seq(M) /\ e_turns \in Seq(M) /\ e_dropped \in Seq(M)
        /\ e_prompt_queue \in Seq(M) /\ e_carried \in Seq(M) /\ e_inbox \in Seq(M)
    <3>1. \A q \in Seq(1..MaxPrompts) : q \in Seq(M)
      BY SeqMonotonic
    <3> HIDE DEF M
    <3>2. e_inbox \in Seq(M)
      BY DEF EntityInv, E!TypeOK, M
    <3> QED
      BY <3>1, <3>2 DEF EntityInv, E!TypeOK
  <2> HIDE DEF M
  <2>2. /\ taken \in Seq(M) /\ Len(taken) = Len(e_earlier) + Len(e_turns)
        /\ \A x : In(x, taken) <=> In(x, e_earlier) \/ In(x, e_turns)
    BY <2>1, Joined DEF E!Taken
  <2> HIDE DEF taken
  <2>3. /\ taken \o e_dropped \in Seq(M) /\ Len(taken \o e_dropped) = Len(taken) + Len(e_dropped)
        /\ \A x : In(x, taken \o e_dropped) <=> In(x, taken) \/ In(x, e_dropped)
    BY <2>1, <2>2, Joined
  <2> DEFINE two == taken \o e_dropped
             three == two \o e_prompt_queue
             four == three \o e_carried
  <2> HIDE DEF two
  <2>4. /\ three \in Seq(M) /\ Len(three) = Len(two) + Len(e_prompt_queue)
        /\ \A x : In(x, three) <=> In(x, two) \/ In(x, e_prompt_queue)
    BY <2>1, <2>3, Joined DEF two
  <2> HIDE DEF three
  <2>5. /\ four \in Seq(M) /\ Len(four) = Len(three) + Len(e_carried)
        /\ \A x : In(x, four) <=> In(x, three) \/ In(x, e_carried)
    BY <2>1, <2>4, Joined
  <2> HIDE DEF four
  <2>6. /\ Len(four \o e_inbox) = Len(four) + Len(e_inbox)
        /\ \A x : In(x, four \o e_inbox) <=> In(x, four) \/ In(x, e_inbox)
    BY <2>1, <2>5, Joined
  <2>7. all = four \o e_inbox
    BY DEF four, three, two
  <2>8. /\ Len(e_earlier) \in Nat /\ Len(e_turns) \in Nat /\ Len(e_dropped) \in Nat
        /\ Len(e_prompt_queue) \in Nat /\ Len(e_carried) \in Nat /\ Len(e_inbox) \in Nat
    BY <2>1
  <2>9. Len(all) = e_sent + Ends
    BY <2>2, <2>3, <2>4, <2>5, <2>6, <2>7, <2>8 DEF EntityInv, two
  <2>10. \A p \in 1..e_sent : In(p, all)
    BY <2>2, <2>3, <2>4, <2>5, <2>6, <2>7 DEF EntityInv, Kept, two
  <2>11. e_pc = "closed" => Len(taken \o e_dropped) = e_sent
    <3>1. SUFFICES ASSUME e_pc = "closed" PROVE Len(taken \o e_dropped) = e_sent
      OBVIOUS
    <3>2. e_inbox = <<>> /\ e_prompt_queue = <<>> /\ e_carried = <<>>
      BY <3>1 DEF EntityInv, LeftBehind, E!TypeOK
    <3>3. Ends = 0 /\ Len(<<>>) = 0
      BY <3>2 DEF Ends, In
    <3>4. e_sent \in Nat
      BY DEF EntityInv, E!TypeOK
    <3> QED
      BY <3>2, <3>3, <3>4, <2>2, <2>3, <2>8 DEF EntityInv
  <2>12. Len(all) = e_sent + (IF \E i \in DOMAIN e_inbox : e_inbox[i] = End THEN 1 ELSE 0)
    BY <2>9 DEF Ends, In
  <2>13. \A p \in 1..e_sent : \E i \in DOMAIN all : all[i] = p
    BY <2>10 DEF In
  <2> HIDE <2>9, <2>10
  <2> QED
    BY <2>11, <2>12, <2>13, Zenon DEF E!NoPromptIsLost, taken
<1> QED
  BY <1>1, <1>2, <1>3, PTL DEF E!Spec

-----------------------------------------------------------------------------
(* SignalQueryBedrock *)

\* Prompts are dropped after the timeout only, and none is queued then.
DroppedLate ==
  /\ ~q_chat_timeout => q_dropped = <<>>
  /\ q_chat_timeout => q_prompt_queue = <<>>
  /\ q_pc \in {"closing", "closed"} => q_chat_timeout

SignalsInv == Q!TypeOK /\ DroppedLate /\ Q!PromptsKeepTheirTurn

\* Each step keeps the invariant.
LEMMA SignalsStep == MaxUserPrompts \in Nat \ {0} /\ SignalsInv /\ [Q!Next]_(Q!vars) => SignalsInv'
<1> SUFFICES ASSUME MaxUserPrompts \in Nat \ {0}, SignalsInv, [Q!Next]_(Q!vars)
             PROVE  SignalsInv'
  OBVIOUS
<1> DEFINE P == 1..MaxUserPrompts
<1>1. /\ q_turns \in Seq(P) /\ q_prompt_queue \in Seq(P) /\ q_dropped \in Seq(P)
      /\ q_inbox \in Seq(P) /\ q_sent \in P /\ <<>> \in Seq(P)
      /\ q_turns \o q_prompt_queue \o q_dropped \o q_inbox = [i \in 1..q_sent |-> i]
  BY DEF SignalsInv, Q!TypeOK, Q!PromptsKeepTheirTurn
<1> HIDE DEF P
<1>2. CASE UNCHANGED Q!vars
  BY <1>2 DEF Q!vars, SignalsInv, Q!TypeOK, DroppedLate, Q!PromptsKeepTheirTurn
<1>3. CASE Q!SendPrompt
  <2>1. /\ q_sent < MaxUserPrompts /\ q_sent' = q_sent + 1 /\ q_inbox' = Append(q_inbox, q_sent')
        /\ q_pc # "closed"
        /\ UNCHANGED <<q_pc, q_prompt_queue, q_chat_timeout, q_turns, q_dropped>>
    BY <1>3 DEF Q!SendPrompt, Q!Open
  <2>2. q_sent' \in P /\ q_sent \in Nat
    BY <1>1, <2>1 DEF P
  <2>3. q_inbox' \in Seq(P)
    BY <1>1, <2>1, <2>2, Appended
  <2>4. q_turns \o q_prompt_queue \o q_dropped \in Seq(P)
    BY <1>1, Joined
  <2>5. q_turns \o q_prompt_queue \o q_dropped \o q_inbox'
          = Append([i \in 1..q_sent |-> i], q_sent')
    <3> DEFINE three == q_turns \o q_prompt_queue \o q_dropped
    <3>1. three \in Seq(P) /\ three \o q_inbox = [i \in 1..q_sent |-> i]
      BY <1>1, <2>4
    <3> HIDE DEF three
    <3>2. \A s, t \in Seq(P) : \A x \in P : s \o Append(t, x) = Append(s \o t, x)
      BY JoinedAppend
    <3>3. q_inbox' = Append(q_inbox, q_sent')
      BY <2>1
    <3>4. three \o Append(q_inbox, q_sent') = Append(three \o q_inbox, q_sent')
      BY <1>1, <2>2, <3>1, <3>2, Zenon
    <3> QED
      BY <3>1, <3>3, <3>4 DEF three
  <2>6. Append([i \in 1..q_sent |-> i], q_sent + 1) = [i \in 1..(q_sent + 1) |-> i]
    BY <2>2
  <2>7. Q!TypeOK'
    BY <2>1, <2>2, <2>3 DEF SignalsInv, Q!TypeOK, P
  <2>8. DroppedLate' /\ Q!PromptsKeepTheirTurn'
    BY <2>1, <2>5, <2>6 DEF SignalsInv, DroppedLate, Q!PromptsKeepTheirTurn
  <2> QED
    BY <2>7, <2>8 DEF SignalsInv
<1>4. CASE Q!UserPrompt
  <2>1. /\ q_inbox # <<>> /\ q_inbox' = Tail(q_inbox) /\ q_pc # "closed"
        /\ UNCHANGED <<q_pc, q_chat_timeout, q_turns, q_sent>>
    BY <1>4 DEF Q!UserPrompt, Q!Open
  <2>2. Head(q_inbox) \in P /\ q_inbox' \in Seq(P)
    BY <1>1, <2>1, Beheaded
  <2> DEFINE first == q_turns \o q_prompt_queue
  <2>3. first \in Seq(P)
    BY <1>1, Joined
  <2>4. first \o q_dropped \in Seq(P)
    BY <1>1, <2>3, Joined
  <2>5. Append(first \o q_dropped, Head(q_inbox)) \o q_inbox' = [i \in 1..q_sent |-> i]
    BY <1>1, <2>1, <2>4, PassedOn
  <2>6. CASE /\ ~q_chat_timeout /\ q_prompt_queue' = Append(q_prompt_queue, Head(q_inbox))
             /\ UNCHANGED q_dropped
    <3>1. q_prompt_queue' \in Seq(P)
      BY <1>1, <2>2, <2>6, Appended
    <3>2. q_turns \o q_prompt_queue' = Append(first, Head(q_inbox))
      BY <1>1, <2>2, <2>6, JoinedAppend
    <3>3. q_dropped = <<>>
      BY <2>6 DEF SignalsInv, DroppedLate
    <3>4. Append(first, Head(q_inbox)) \in Seq(P)
      BY <2>2, <2>3, Appended
    <3>5. first \o <<>> = first /\ Append(first, Head(q_inbox)) \o <<>> = Append(first, Head(q_inbox))
      BY <2>3, <3>4, ConcatEmptySeq
    <3>6. q_turns' \o q_prompt_queue' \o q_dropped' \o q_inbox' = [i \in 1..q_sent' |-> i]
      BY <2>1, <2>5, <2>6, <3>2, <3>3, <3>5
    <3>7. Q!TypeOK'
      BY <2>1, <2>2, <2>6, <3>1 DEF SignalsInv, Q!TypeOK, P
    <3>8. DroppedLate' /\ Q!PromptsKeepTheirTurn'
      BY <2>1, <2>6, <3>6 DEF SignalsInv, DroppedLate, Q!PromptsKeepTheirTurn
    <3> QED
      BY <3>7, <3>8 DEF SignalsInv
  <2>7. CASE /\ q_chat_timeout /\ q_dropped' = Append(q_dropped, Head(q_inbox))
             /\ UNCHANGED q_prompt_queue
    <3>1. q_dropped' \in Seq(P)
      BY <1>1, <2>2, <2>7, Appended
    <3>2. first \o q_dropped' = Append(first \o q_dropped, Head(q_inbox))
      BY <1>1, <2>2, <2>3, <2>7, JoinedAppend
    <3>3. q_turns' \o q_prompt_queue' \o q_dropped' \o q_inbox' = [i \in 1..q_sent' |-> i]
      BY <2>1, <2>5, <2>7, <3>2
    <3>4. Q!TypeOK'
      BY <2>1, <2>2, <2>7, <3>1 DEF SignalsInv, Q!TypeOK, P
    <3>5. DroppedLate' /\ Q!PromptsKeepTheirTurn'
      BY <2>1, <2>7, <3>3 DEF SignalsInv, DroppedLate, Q!PromptsKeepTheirTurn
    <3> QED
      BY <3>4, <3>5 DEF SignalsInv
  <2> QED
    BY <1>4, <2>6, <2>7 DEF Q!UserPrompt
<1>5. CASE Q!TakePrompt
  <2>1. /\ q_prompt_queue # <<>> /\ q_turns' = Append(q_turns, Head(q_prompt_queue))
        /\ q_prompt_queue' = Tail(q_prompt_queue)
        /\ q_pc \in {"waiting", "prompting"} /\ q_pc' = "prompting"
        /\ UNCHANGED <<q_inbox, q_chat_timeout, q_dropped, q_sent>>
    BY <1>5 DEF Q!TakePrompt
  <2>2. /\ Head(q_prompt_queue) \in P /\ q_prompt_queue' \in Seq(P)
        /\ q_turns' \o q_prompt_queue' = q_turns \o q_prompt_queue
    BY <1>1, <2>1, Beheaded, PassedOn
  <2>3. q_turns' \in Seq(P)
    BY <1>1, <2>1, <2>2, Appended
  <2>4. Q!TypeOK'
    BY <2>1, <2>2, <2>3 DEF SignalsInv, Q!TypeOK, P
  <2>5. DroppedLate' /\ Q!PromptsKeepTheirTurn'
    BY <2>1, <2>2 DEF SignalsInv, Q!TypeOK, DroppedLate, Q!PromptsKeepTheirTurn
  <2> QED
    BY <2>4, <2>5 DEF SignalsInv
<1>6. CASE Q!AwaitPrompt
  BY <1>6 DEF Q!AwaitPrompt, SignalsInv, Q!TypeOK, DroppedLate, Q!PromptsKeepTheirTurn
<1>7. CASE Q!TimeOut
  BY <1>7 DEF Q!TimeOut, SignalsInv, Q!TypeOK, DroppedLate, Q!PromptsKeepTheirTurn
<1>8. CASE Q!Return
  BY <1>8 DEF Q!Return, SignalsInv, Q!TypeOK, DroppedLate, Q!PromptsKeepTheirTurn
<1>9. CASE Q!BedrockFails
  BY <1>9 DEF Q!BedrockFails, SignalsInv, Q!TypeOK, DroppedLate, Q!PromptsKeepTheirTurn
<1> QED
  BY <1>2, <1>3, <1>4, <1>5, <1>6, <1>7, <1>8, <1>9 DEF Q!Next, Q!RunStep

\* Prompts are taken up in the order in which they were sent, dropped only after
\* the timeout, and answered before the chat closes
\* (bedrock/signals_and_queries/workflows.py:22-80).
THEOREM PromptsAreAnsweredInTurn == Q!Spec => [](Q!TypeOK /\ Q!PromptsKeepTheirTurn)
<1>0. MaxUserPrompts \in Nat \ {0}
  BY ConversationsAssumption
<1> USE <1>0
<1>1. Q!Init => SignalsInv
  <2> SUFFICES ASSUME Q!Init PROVE SignalsInv
    OBVIOUS
  <2>1. 1 \in 1..MaxUserPrompts /\ <<>> \in Seq(1..MaxUserPrompts)
    OBVIOUS
  <2>2. /\ q_inbox = <<1>> /\ q_sent = 1 /\ q_pc = "waiting" /\ q_prompt_queue = <<>>
        /\ q_turns = <<>> /\ q_dropped = <<>> /\ q_chat_timeout = FALSE
    BY DEF Q!Init
  <2>3. q_inbox \in Seq(1..MaxUserPrompts)
    BY <2>1, <2>2
  <2>4. <<>> \o <<>> \o <<>> \o <<1>> = [i \in 1..1 |-> i]
    OBVIOUS
  <2> QED
    BY <2>1, <2>2, <2>3, <2>4 DEF SignalsInv, Q!TypeOK, DroppedLate, Q!PromptsKeepTheirTurn
<1>2. SignalsInv => Q!TypeOK /\ Q!PromptsKeepTheirTurn
  BY DEF SignalsInv
<1> QED
  BY <1>1, <1>2, SignalsStep, PTL DEF Q!Spec

-----------------------------------------------------------------------------
(* Chatbot *)

\* An update that has handed its message over waits for the response to what the
\* field holds, or finds it in last_response once the field is clear.
HandedOver ==
  \A m \in Messages : b_status[m] = "handed" =>
    /\ b_round[m] \in Messages
    /\ b_pending_message = None => b_last_response = b_round[m]
    /\ b_pending_message # None => b_pending_message = b_round[m]

ChatbotInv == B!TypeOK /\ HandedOver /\ B!NoStaleAnswer

\* Each step keeps the invariant.
LEMMA ChatbotStep == None \notin Messages /\ ChatbotInv /\ [B!Next]_(B!vars) => ChatbotInv'
<1> SUFFICES ASSUME None \notin Messages, ChatbotInv, [B!Next]_(B!vars)
             PROVE  ChatbotInv'
  OBVIOUS
<1> USE DEF ChatbotInv, B!TypeOK, HandedOver, B!NoStaleAnswer
<1>1. CASE UNCHANGED B!vars
  BY <1>1 DEF B!vars
<1>2. ASSUME NEW m \in Messages, B!MessageFromUser(m) PROVE ChatbotInv'
  BY <1>2 DEF B!MessageFromUser
<1>3. CASE B!Exit
  BY <1>3 DEF B!Exit
<1>4. CASE B!ResumeHandlers
  <2>1. /\ b_pc # "failed" /\ b_pending_message = None
        /\ b_pending_message' \in Messages \cup {None}
        /\ B!Queued # {} => b_pending_message' \in Messages
        /\ UNCHANGED <<b_pc, b_last_response, b_message, b_notes, b_done>>
    BY <1>4 DEF B!ResumeHandlers, B!Queued
  <2>2. b_pc # "querying"
    BY <2>1
  <2>3. \A m \in Messages :
          /\ b_answer'[m] = IF b_status[m] = "handed" THEN b_last_response ELSE b_answer[m]
          /\ b_status'[m] = CASE b_status[m] = "handed" -> "answered"
                               [] b_status[m] = "queued" -> "handed"
                               [] OTHER -> b_status[m]
          /\ b_round'[m] = IF b_status[m] = "queued" THEN b_pending_message' ELSE b_round[m]
    BY <1>4 DEF B!ResumeHandlers, B!Queued, B!Handed
  <2>4. \A m \in Messages : b_status[m] = "queued" => B!Queued # {}
    BY DEF B!Queued
  <2>5. /\ b_status' \in [Messages -> {"unsent", "queued", "handed", "answered"}]
        /\ b_answer' \in [Messages -> Messages \cup {None}]
        /\ b_round' \in [Messages -> Messages \cup {None}]
    BY <1>4, <2>1 DEF B!ResumeHandlers, B!Queued, B!Handed
  <2>6. B!TypeOK'
    BY <2>1, <2>2, <2>5
  <2>7. HandedOver'
    BY <2>1, <2>3, <2>4, <2>5
  <2>8. B!NoStaleAnswer'
    BY <2>1, <2>3, <2>5
  <2> QED
    BY <2>6, <2>7, <2>8
<1>5. CASE B!LeaveLoop
  BY <1>5 DEF B!LeaveLoop
<1>6. CASE B!TakeMessage
  BY <1>6 DEF B!TakeMessage
<1>7. CASE B!CallTool
  BY <1>7 DEF B!CallTool
<1>8. CASE B!Respond
  BY <1>8 DEF B!Respond
<1>9. CASE B!QueryFails
  BY <1>9 DEF B!QueryFails
<1> QED
  BY <1>1, <1>2, <1>3, <1>4, <1>5, <1>6, <1>7, <1>8, <1>9 DEF B!Next, B!RunStep

\* An update returns the response to the message that the field held when it
\* handed its own over, never an earlier one
\* (langsmith_tracing/chatbot/workflows.py:58-115).
THEOREM NoAnswerIsStale == B!Spec => [](B!TypeOK /\ B!NoStaleAnswer)
<1>0. None \notin Messages
  BY ConversationsAssumption
<1> USE <1>0
<1>1. B!Init => ChatbotInv
  BY DEF B!Init, ChatbotInv, B!TypeOK, HandedOver, B!NoStaleAnswer
<1>2. ChatbotInv => B!TypeOK /\ B!NoStaleAnswer
  BY DEF ChatbotInv
<1> QED
  BY <1>1, <1>2, ChatbotStep, PTL DEF B!Spec

-----------------------------------------------------------------------------
(* CustomerService *)

ServiceInv == S!TypeOK /\ S!ChatIsCoherent /\ S!FlightIsKnown

\* A step that leaves the history alone, and starts no message, keeps the types.
LEMMA TypesKept ==
  ASSUME S!TypeOK,
         \A n \in Inquiries : s_status'[n] = "running" => s_status[n] = "running",
         s_status' \in [Inquiries -> {"unsent", "sent", "rejected", "running", "done", "failed"}],
         s_chat_length' \in [Inquiries -> Nat],
         s_agent' \in [Inquiries -> DOMAIN S!handoffs],
         s_context' \subseteq {"flight_number", "confirmation_number", "seat_number"},
         UNCHANGED <<s_runs, s_printed_history, s_input_items, s_runner_input, s_current_agent>>
  PROVE  S!TypeOK'
BY DEF S!TypeOK, S!handoffs, S!Line

\* A step that leaves the history and the sender's view alone leaves coherent
\* what is.
LEMMA StaysCoherent ==
  ASSUME S!TypeOK, S!ChatIsCoherent, UNCHANGED s_chat_length, NEW m \in Inquiries,
         s_printed_history' \in Seq(S!Line),
         \A i \in DOMAIN s_printed_history :
           i \in DOMAIN s_printed_history' /\ s_printed_history'[i] = s_printed_history[i],
         s_status[m] \in {"running", "done", "failed"}
  PROVE  /\ s_chat_length'[m] + 1 \in DOMAIN s_printed_history'
         /\ s_printed_history'[s_chat_length'[m] + 1] = [by |-> "user", of |-> m]
         /\ s_status[m] = "done" => \E i \in DOMAIN s_printed_history' :
              i > s_chat_length'[m] + 1 /\ s_printed_history'[i] = [by |-> "agent", of |-> m]
BY DEF S!ChatIsCoherent

\* Only a message whose sender has seen the whole history is taken up, directly
\* after it.
LEMMA TakesItsPlace ==
  ASSUME ServiceInv, NEW m \in Inquiries, S!ProcessUserMessage(m)
  PROVE  ServiceInv'
<1> DEFINE line == [by |-> "user", of |-> m]
<1>1. /\ s_status[m] = "sent" /\ s_chat_length[m] = Len(s_printed_history)
      /\ s_printed_history' = Append(s_printed_history, line)
      /\ s_input_items' = Append(s_input_items, m)
      /\ s_runner_input' = [s_runner_input EXCEPT ![m] = s_input_items']
      /\ s_status' = [s_status EXCEPT ![m] = "running"]
      /\ s_agent' = [s_agent EXCEPT ![m] = s_current_agent]
      /\ UNCHANGED <<s_runs, s_chat_length, s_current_agent, s_context>>
  BY DEF S!ProcessUserMessage, S!Fresh
<1>2. s_printed_history \in Seq(S!Line) /\ line \in S!Line
  BY DEF ServiceInv, S!TypeOK, S!Line
<1> HIDE DEF line
<1>3. /\ s_printed_history' \in Seq(S!Line)
      /\ \A i \in DOMAIN s_printed_history :
           i \in DOMAIN s_printed_history' /\ s_printed_history'[i] = s_printed_history[i]
      /\ Len(s_printed_history) + 1 \in DOMAIN s_printed_history'
      /\ s_printed_history'[Len(s_printed_history) + 1] = line
  <2>1. \A L : \A q \in Seq(L) : \A x \in L :
          /\ Append(q, x) \in Seq(L)
          /\ \A i \in DOMAIN q : i \in DOMAIN Append(q, x) /\ Append(q, x)[i] = q[i]
          /\ Len(q) + 1 \in DOMAIN Append(q, x) /\ Append(q, x)[Len(q) + 1] = x
    BY AppendedElements, Appended
  <2> DEFINE a == Append(s_printed_history, line)
  <2>2. /\ a \in Seq(S!Line)
        /\ \A i \in DOMAIN s_printed_history : i \in DOMAIN a /\ a[i] = s_printed_history[i]
        /\ Len(s_printed_history) + 1 \in DOMAIN a /\ a[Len(s_printed_history) + 1] = line
    BY <1>2, <2>1
  <2>3. s_printed_history' = a
    BY <1>1
  <2> HIDE DEF a
  <2> QED
    BY <2>2, <2>3
<1>4. /\ s_input_items' \in Seq(Inquiries) /\ Len(s_input_items) + 1 \in DOMAIN s_input_items'
      /\ s_input_items'[Len(s_input_items) + 1] = m
  BY <1>1 DEF ServiceInv, S!TypeOK
<1>5. /\ \A n \in Inquiries : n # m =>
           s_status'[n] = s_status[n] /\ s_agent'[n] = s_agent[n] /\ s_runner_input'[n] = s_runner_input[n]
      /\ s_status'[m] = "running" /\ s_agent'[m] = s_current_agent /\ s_runner_input'[m] = s_input_items'
      /\ s_status' \in [Inquiries -> {"unsent", "sent", "rejected", "running", "done", "failed"}]
      /\ s_runner_input' \in [Inquiries -> Seq(Inquiries)]
  BY <1>1, <1>4 DEF ServiceInv, S!TypeOK
<1>6. S!TypeOK'
  <2>1. s_current_agent' \in DOMAIN S!handoffs /\ s_agent' \in [Inquiries -> DOMAIN S!handoffs]
    BY <1>1 DEF ServiceInv, S!TypeOK
  <2>2. \A n \in Inquiries : s_status'[n] = "running" =>
          \E i \in DOMAIN s_runner_input'[n] : s_runner_input'[n][i] = n
    <3>1. \E i \in DOMAIN s_runner_input'[m] : s_runner_input'[m][i] = m
      BY <1>4, <1>5
    <3>2. \A n \in Inquiries : n # m /\ s_status[n] = "running" =>
            \E i \in DOMAIN s_runner_input[n] : s_runner_input[n][i] = n
      BY DEF ServiceInv, S!TypeOK
    <3> QED
      BY <1>5, <3>1, <3>2
  <2> QED
    BY <1>1, <1>3, <1>4, <1>5, <2>1, <2>2 DEF ServiceInv, S!TypeOK
<1>7. S!ChatIsCoherent'
  <2> SUFFICES ASSUME NEW n \in Inquiries, s_status'[n] \in {"running", "done", "failed"}
               PROVE  /\ s_chat_length'[n] + 1 \in DOMAIN s_printed_history'
                      /\ s_printed_history'[s_chat_length'[n] + 1] = [by |-> "user", of |-> n]
                      /\ s_status'[n] = "done" => \E i \in DOMAIN s_printed_history' :
                           /\ i > s_chat_length'[n] + 1
                           /\ s_printed_history'[i] = [by |-> "agent", of |-> n]
    BY DEF S!ChatIsCoherent
  <2>1. CASE n = m
    BY <1>1, <1>3, <1>5, <2>1 DEF line
  <2>2. CASE n # m
    BY <1>1, <1>3, <1>5, <2>2, StaysCoherent DEF ServiceInv
  <2> QED
    BY <2>1, <2>2
<1>8. S!FlightIsKnown'
  BY <1>1, <1>5 DEF ServiceInv, S!FlightIsKnown
<1> QED
  BY <1>6, <1>7, <1>8 DEF ServiceInv

\* What the agents answer is printed after the message.
LEMMA PrintsItsAnswer ==
  ASSUME ServiceInv, NEW m \in Inquiries, S!Processed(m)
  PROVE  ServiceInv'
<1> DEFINE line == [by |-> "agent", of |-> m]
<1>1. /\ s_status[m] = "running" /\ s_printed_history' = Append(s_printed_history, line)
      /\ s_input_items' = s_runner_input[m] /\ s_status' = [s_status EXCEPT ![m] = "done"]
      /\ s_current_agent' = s_agent[m] /\ s_agent' = [s_agent EXCEPT ![m] = "Triage"]
      /\ UNCHANGED <<s_runs, s_chat_length, s_runner_input, s_context>>
  BY DEF S!Processed
<1>2. s_printed_history \in Seq(S!Line) /\ line \in S!Line
  BY DEF ServiceInv, S!TypeOK, S!Line
<1> HIDE DEF line
<1>3. /\ s_printed_history' \in Seq(S!Line)
      /\ \A i \in DOMAIN s_printed_history :
           i \in DOMAIN s_printed_history' /\ s_printed_history'[i] = s_printed_history[i]
      /\ Len(s_printed_history) + 1 \in DOMAIN s_printed_history'
      /\ s_printed_history'[Len(s_printed_history) + 1] = line
  <2>1. \A L : \A q \in Seq(L) : \A x \in L :
          /\ Append(q, x) \in Seq(L)
          /\ \A i \in DOMAIN q : i \in DOMAIN Append(q, x) /\ Append(q, x)[i] = q[i]
          /\ Len(q) + 1 \in DOMAIN Append(q, x) /\ Append(q, x)[Len(q) + 1] = x
    BY AppendedElements, Appended
  <2> DEFINE a == Append(s_printed_history, line)
  <2>2. /\ a \in Seq(S!Line)
        /\ \A i \in DOMAIN s_printed_history : i \in DOMAIN a /\ a[i] = s_printed_history[i]
        /\ Len(s_printed_history) + 1 \in DOMAIN a /\ a[Len(s_printed_history) + 1] = line
    BY <1>2, <2>1
  <2>3. s_printed_history' = a
    BY <1>1
  <2> HIDE DEF a
  <2> QED
    BY <2>2, <2>3
<1>4. /\ \A n \in Inquiries : n # m => s_status'[n] = s_status[n] /\ s_agent'[n] = s_agent[n]
      /\ s_status'[m] = "done" /\ s_agent'[m] = "Triage"
      /\ s_status' \in [Inquiries -> {"unsent", "sent", "rejected", "running", "done", "failed"}]
  BY <1>1 DEF ServiceInv, S!TypeOK
<1>5. S!TypeOK'
  <2>1. s_current_agent' \in DOMAIN S!handoffs /\ s_agent' \in [Inquiries -> DOMAIN S!handoffs]
    BY <1>1 DEF ServiceInv, S!TypeOK, S!handoffs
  <2>2. s_input_items' \in Seq(Inquiries)
    BY <1>1 DEF ServiceInv, S!TypeOK
  <2> QED
    BY <1>1, <1>3, <1>4, <2>1, <2>2 DEF ServiceInv, S!TypeOK
<1>6. S!ChatIsCoherent'
  <2> SUFFICES ASSUME NEW n \in Inquiries, s_status'[n] \in {"running", "done", "failed"}
               PROVE  /\ s_chat_length'[n] + 1 \in DOMAIN s_printed_history'
                      /\ s_printed_history'[s_chat_length'[n] + 1] = [by |-> "user", of |-> n]
                      /\ s_status'[n] = "done" => \E i \in DOMAIN s_printed_history' :
                           /\ i > s_chat_length'[n] + 1
                           /\ s_printed_history'[i] = [by |-> "agent", of |-> n]
    BY DEF S!ChatIsCoherent
  <2>1. CASE n = m
    <3>1. s_chat_length[m] + 1 \in DOMAIN s_printed_history /\ s_chat_length[m] \in Nat
      BY <1>1 DEF ServiceInv, S!TypeOK, S!ChatIsCoherent
    <3>2. Len(s_printed_history) + 1 > s_chat_length[m] + 1
      BY <1>2, <3>1
    <3>3. \E i \in DOMAIN s_printed_history' :
            i > s_chat_length'[m] + 1 /\ s_printed_history'[i] = [by |-> "agent", of |-> m]
      BY <1>1, <1>3, <3>2 DEF line
    <3>4. /\ s_chat_length'[m] + 1 \in DOMAIN s_printed_history'
          /\ s_printed_history'[s_chat_length'[m] + 1] = [by |-> "user", of |-> m]
      BY <1>1, <1>3, StaysCoherent DEF ServiceInv
    <3> QED
      BY <2>1, <3>3, <3>4
  <2>2. CASE n # m
    BY <1>1, <1>3, <1>4, <2>2, StaysCoherent DEF ServiceInv
  <2> QED
    BY <2>1, <2>2
<1>7. S!FlightIsKnown'
  BY <1>1, <1>4 DEF ServiceInv, S!FlightIsKnown
<1> QED
  BY <1>5, <1>6, <1>7 DEF ServiceInv

\* Each step keeps the invariant.
LEMMA ServiceStep == MaxRuns \in Nat /\ ServiceInv /\ [S!Next]_(S!vars) => ServiceInv'
<1> SUFFICES ASSUME MaxRuns \in Nat, ServiceInv, [S!Next]_(S!vars)
             PROVE  ServiceInv'
  OBVIOUS
<1> USE DEF ServiceInv
<1>1. CASE UNCHANGED S!vars \/ S!ContinueAsNew
  <2>1. /\ UNCHANGED <<s_printed_history, s_input_items, s_chat_length, s_status, s_runner_input,
                       s_current_agent, s_agent, s_context>>
        /\ s_runs' \in 1..MaxRuns
    BY <1>1 DEF S!vars, S!agentVars, S!ContinueAsNew, S!TypeOK
  <2>2. S!TypeOK'
    BY <2>1 DEF S!TypeOK
  <2>3. S!ChatIsCoherent' /\ S!FlightIsKnown'
    BY <2>1 DEF S!ChatIsCoherent, S!FlightIsKnown
  <2> QED
    BY <2>2, <2>3
<1>3. ASSUME NEW m \in Inquiries, S!Send(m) PROVE ServiceInv'
  <2> USE <1>3 DEF S!Send, S!agentVars
  <2>1. S!TypeOK'
    <3>1. /\ \A n \in Inquiries : s_status'[n] = "running" => s_status[n] = "running"
          /\ s_status' \in [Inquiries -> {"unsent", "sent", "rejected", "running", "done", "failed"}]
          /\ s_chat_length' \in [Inquiries -> Nat]
      BY DEF S!TypeOK
    <3>2. s_agent' \in [Inquiries -> DOMAIN S!handoffs]
      BY DEF S!TypeOK, S!handoffs
    <3>3. s_context' \subseteq {"flight_number", "confirmation_number", "seat_number"}
      BY DEF S!TypeOK
    <3>4. UNCHANGED <<s_runs, s_printed_history, s_input_items, s_runner_input, s_current_agent>>
      OBVIOUS
    <3> QED
      BY <3>1, <3>2, <3>3, <3>4, TypesKept DEF ServiceInv
  <2>2. S!ChatIsCoherent'
    BY DEF S!TypeOK, S!ChatIsCoherent
  <2>3. S!FlightIsKnown'
    BY DEF S!TypeOK, S!FlightIsKnown, S!handoffs
  <2> QED
    BY <2>1, <2>2, <2>3
<1>4. ASSUME NEW m \in Inquiries, S!Reject(m) PROVE ServiceInv'
  <2> USE <1>4 DEF S!Reject, S!agentVars
  <2>1. S!TypeOK'
    <3>1. /\ \A n \in Inquiries : s_status'[n] = "running" => s_status[n] = "running"
          /\ s_status' \in [Inquiries -> {"unsent", "sent", "rejected", "running", "done", "failed"}]
          /\ s_chat_length' \in [Inquiries -> Nat]
      BY DEF S!TypeOK
    <3>2. s_agent' \in [Inquiries -> DOMAIN S!handoffs]
      BY DEF S!TypeOK, S!handoffs
    <3>3. s_context' \subseteq {"flight_number", "confirmation_number", "seat_number"}
      BY DEF S!TypeOK
    <3>4. UNCHANGED <<s_runs, s_printed_history, s_input_items, s_runner_input, s_current_agent>>
      OBVIOUS
    <3> QED
      BY <3>1, <3>2, <3>3, <3>4, TypesKept DEF ServiceInv
  <2>2. S!ChatIsCoherent'
    BY DEF S!TypeOK, S!ChatIsCoherent
  <2>3. S!FlightIsKnown'
    BY DEF S!TypeOK, S!FlightIsKnown, S!handoffs
  <2> QED
    BY <2>1, <2>2, <2>3
<1>5. ASSUME NEW m \in Inquiries, S!RunnerFails(m) PROVE ServiceInv'
  <2> USE <1>5 DEF S!RunnerFails, S!agentVars
  <2>1. S!TypeOK'
    <3>1. /\ \A n \in Inquiries : s_status'[n] = "running" => s_status[n] = "running"
          /\ s_status' \in [Inquiries -> {"unsent", "sent", "rejected", "running", "done", "failed"}]
          /\ s_chat_length' \in [Inquiries -> Nat]
      BY DEF S!TypeOK
    <3>2. s_agent' \in [Inquiries -> DOMAIN S!handoffs]
      BY DEF S!TypeOK, S!handoffs
    <3>3. s_context' \subseteq {"flight_number", "confirmation_number", "seat_number"}
      BY DEF S!TypeOK
    <3>4. UNCHANGED <<s_runs, s_printed_history, s_input_items, s_runner_input, s_current_agent>>
      OBVIOUS
    <3> QED
      BY <3>1, <3>2, <3>3, <3>4, TypesKept DEF ServiceInv
  <2>2. S!ChatIsCoherent'
    BY DEF S!TypeOK, S!ChatIsCoherent
  <2>3. S!FlightIsKnown'
    BY DEF S!TypeOK, S!FlightIsKnown, S!handoffs
  <2> QED
    BY <2>1, <2>2, <2>3
<1>6. ASSUME NEW m \in Inquiries, S!Handoff(m) PROVE ServiceInv'
  <2> USE <1>6 DEF S!Handoff, S!agentVars
  <2>1. S!TypeOK'
    <3>1. /\ \A n \in Inquiries : s_status'[n] = "running" => s_status[n] = "running"
          /\ s_status' \in [Inquiries -> {"unsent", "sent", "rejected", "running", "done", "failed"}]
          /\ s_chat_length' \in [Inquiries -> Nat]
      BY DEF S!TypeOK
    <3>2. s_agent' \in [Inquiries -> DOMAIN S!handoffs]
      BY DEF S!TypeOK, S!handoffs
    <3>3. s_context' \subseteq {"flight_number", "confirmation_number", "seat_number"}
      BY DEF S!TypeOK
    <3>4. UNCHANGED <<s_runs, s_printed_history, s_input_items, s_runner_input, s_current_agent>>
      OBVIOUS
    <3> QED
      BY <3>1, <3>2, <3>3, <3>4, TypesKept DEF ServiceInv
  <2>2. S!ChatIsCoherent'
    BY DEF S!TypeOK, S!ChatIsCoherent
  <2>3. S!FlightIsKnown'
    BY DEF S!TypeOK, S!FlightIsKnown, S!handoffs
  <2> QED
    BY <2>1, <2>2, <2>3
<1>7. ASSUME NEW m \in Inquiries, S!update_seat(m) PROVE ServiceInv'
  <2> USE <1>7 DEF S!update_seat, S!agentVars
  <2>1. S!TypeOK'
    <3>1. /\ \A n \in Inquiries : s_status'[n] = "running" => s_status[n] = "running"
          /\ s_status' \in [Inquiries -> {"unsent", "sent", "rejected", "running", "done", "failed"}]
          /\ s_chat_length' \in [Inquiries -> Nat]
      BY DEF S!TypeOK
    <3>2. s_agent' \in [Inquiries -> DOMAIN S!handoffs]
      BY DEF S!TypeOK, S!handoffs
    <3>3. s_context' \subseteq {"flight_number", "confirmation_number", "seat_number"}
      BY DEF S!TypeOK
    <3>4. UNCHANGED <<s_runs, s_printed_history, s_input_items, s_runner_input, s_current_agent>>
      OBVIOUS
    <3> QED
      BY <3>1, <3>2, <3>3, <3>4, TypesKept DEF ServiceInv
  <2>2. S!ChatIsCoherent'
    BY DEF S!TypeOK, S!ChatIsCoherent
  <2>3. S!FlightIsKnown'
    BY DEF S!TypeOK, S!FlightIsKnown, S!handoffs
  <2> QED
    BY <2>1, <2>2, <2>3
<1> QED
  BY <1>1, <1>3, <1>4, <1>5, <1>6, <1>7, TakesItsPlace, PrintsItsAnswer
  DEF S!Next, S!Handler, S!Runner

\* A message stands in the history directly after what its sender had seen, its
\* answer after it, and who is with the seat booking agent has a flight number,
\* whatever others send meanwhile and however often the workflow continues as
\* new (customer_service/customer_service_workflow.py, customer_service.py).
THEOREM ServiceIsCoherent ==
  S!Spec => [](S!TypeOK /\ S!ChatIsCoherent /\ S!FlightIsKnown)
<1>0. MaxRuns \in Nat \ {0}
  BY ConversationsAssumption
<1> USE <1>0
<1>1. S!Init => ServiceInv
  <2> SUFFICES ASSUME S!Init PROVE ServiceInv
    OBVIOUS
  <2>1. <<>> \in Seq(S!Line) /\ <<>> \in Seq(Inquiries) /\ 1 \in 1..MaxRuns
    OBVIOUS
  <2> QED
    BY <2>1 DEF S!Init, ServiceInv, S!TypeOK, S!ChatIsCoherent, S!FlightIsKnown, S!handoffs
<1>2. ServiceInv /\ [S!Next]_(S!vars) => ServiceInv'
  BY ServiceStep
<1> QED
  BY <1>1, <1>2, PTL DEF S!Spec, ServiceInv

-----------------------------------------------------------------------------
(* UpdatableTimer *)

\* The inbox holds the last times asked for, wake_up_time the one before them.
LatestIsHandled ==
  /\ Len(t_inbox) < Len(t_sent)
  /\ \A i \in DOMAIN t_inbox : t_inbox[i] = t_sent[Len(t_sent) - Len(t_inbox) + i]
  /\ t_wake_up_time = t_sent[Len(t_sent) - Len(t_inbox)]

TimerInv == T!TypeOK /\ LatestIsHandled /\ T!SleepFollowsUpdates

\* Each step keeps the invariant.
LEMMA TimerStep == MaxTime \in Nat /\ TimerInv /\ [T!Next]_(T!vars) => TimerInv'
<1> SUFFICES ASSUME MaxTime \in Nat, TimerInv, [T!Next]_(T!vars)
             PROVE  TimerInv'
  OBVIOUS
<1>1. CASE UNCHANGED T!vars
  BY <1>1 DEF T!vars, TimerInv, T!TypeOK, LatestIsHandled, T!SleepFollowsUpdates
<1>2. CASE T!Tick
  <2>1. /\ UNCHANGED <<t_inbox, t_wake_up_time, t_wake_up_time_updated, t_pc, t_timer, t_sent>>
        /\ t_clock' = t_clock + 1 /\ t_clock' \in T!Times
    BY <1>2 DEF T!Tick, TimerInv, T!TypeOK, T!Times
  <2>2. T!TypeOK' /\ LatestIsHandled'
    BY <2>1 DEF TimerInv, T!TypeOK, LatestIsHandled
  <2>3. t_wake_up_time \in Int /\ t_clock \in Int
    BY DEF TimerInv, T!TypeOK, T!Times
  <2>4. T!SleepFollowsUpdates'
    BY <2>1, <2>3 DEF TimerInv, LatestIsHandled, T!SleepFollowsUpdates
  <2> QED
    BY <2>2, <2>4 DEF TimerInv
<1>3. ASSUME NEW t \in T!Times, T!SendUpdate(t) PROVE TimerInv'
  <2>1. /\ t_pc # "done" /\ t_inbox' = Append(t_inbox, t) /\ t_sent' = Append(t_sent, t)
        /\ UNCHANGED <<t_clock, t_wake_up_time, t_wake_up_time_updated, t_pc, t_timer>>
    BY <1>3 DEF T!SendUpdate
  <2>2. t_inbox \in Seq(T!Times) /\ t_sent \in Seq(T!Times)
    BY DEF TimerInv, T!TypeOK
  <2>3. /\ t_inbox' \in Seq(T!Times) /\ Len(t_inbox') = Len(t_inbox) + 1
        /\ t_sent' \in Seq(T!Times) /\ Len(t_sent') = Len(t_sent) + 1
        /\ Len(t_inbox) \in Nat /\ Len(t_sent) \in Nat
    BY <2>1, <2>2
  <2>4. /\ \A i \in 1..Len(t_sent) : t_sent'[i] = t_sent[i]
        /\ t_sent'[Len(t_sent) + 1] = t
        /\ \A i \in 1..Len(t_inbox) : t_inbox'[i] = t_inbox[i]
        /\ t_inbox'[Len(t_inbox) + 1] = t
        /\ DOMAIN t_inbox' = 1..(Len(t_inbox) + 1) /\ DOMAIN t_inbox = 1..Len(t_inbox)
    BY <2>1, <2>2
  <2>5. LatestIsHandled'
    <3>1. Len(t_inbox') < Len(t_sent') /\ Len(t_sent') - Len(t_inbox') = Len(t_sent) - Len(t_inbox)
      BY <2>3 DEF TimerInv, LatestIsHandled
    <3>2. Len(t_sent) - Len(t_inbox) \in 1..Len(t_sent)
      BY <2>3 DEF TimerInv, LatestIsHandled
    <3>3. t_wake_up_time' = t_sent'[Len(t_sent') - Len(t_inbox')]
      BY <2>1, <2>4, <3>1, <3>2 DEF TimerInv, LatestIsHandled
    <3>4. ASSUME NEW i \in DOMAIN t_inbox'
          PROVE  t_inbox'[i] = t_sent'[Len(t_sent') - Len(t_inbox') + i]
      <4>1. CASE i \in 1..Len(t_inbox)
        <5>1. Len(t_sent) - Len(t_inbox) + i \in 1..Len(t_sent)
          BY <2>3, <3>2, <4>1
        <5> QED
          BY <2>4, <3>1, <4>1, <5>1 DEF TimerInv, LatestIsHandled
      <4>2. CASE i = Len(t_inbox) + 1
        <5>1. Len(t_sent) - Len(t_inbox) + i = Len(t_sent) + 1
          BY <2>3, <4>2
        <5> QED
          BY <2>4, <3>1, <4>2, <5>1
      <4> QED
        BY <2>3, <2>4, <4>1, <4>2
    <3> QED
      BY <3>1, <3>3, <3>4 DEF LatestIsHandled
  <2>6. T!TypeOK'
    BY <2>1, <2>3 DEF TimerInv, T!TypeOK
  <2>7. T!SleepFollowsUpdates'
    BY <2>1, <2>5 DEF TimerInv, LatestIsHandled, T!SleepFollowsUpdates
  <2> QED
    BY <2>5, <2>6, <2>7 DEF TimerInv
<1>4. CASE T!UpdateWakeUpTime
  <2>1. /\ t_pc # "done" /\ t_inbox # <<>> /\ t_inbox' = Tail(t_inbox)
        /\ t_wake_up_time' = Head(t_inbox) /\ t_wake_up_time_updated' = TRUE
        /\ UNCHANGED <<t_clock, t_pc, t_timer, t_sent>>
    BY <1>4 DEF T!UpdateWakeUpTime
  <2>2. t_inbox \in Seq(T!Times) /\ t_sent \in Seq(T!Times)
    BY DEF TimerInv, T!TypeOK
  <2>3. /\ Head(t_inbox) \in T!Times /\ t_inbox' \in Seq(T!Times)
        /\ Len(t_inbox) = Len(t_inbox') + 1 /\ Len(t_inbox') \in Nat
    BY <2>1, <2>2, Beheaded
  <2>4. /\ 1 \in DOMAIN t_inbox /\ t_inbox[1] = Head(t_inbox)
        /\ \A i \in DOMAIN t_inbox' :
             i \in Nat /\ i + 1 \in DOMAIN t_inbox /\ t_inbox'[i] = t_inbox[i + 1]
    BY <2>1, <2>2
  <2>5. Len(t_sent) \in Nat /\ UNCHANGED t_sent
    BY <2>1, <2>2
  <2>6. LatestIsHandled'
    <3>1. Len(t_sent) - Len(t_inbox) + 1 = Len(t_sent) - Len(t_inbox')
      BY <2>3, <2>5
    <3>2. t_wake_up_time' = t_sent[Len(t_sent) - Len(t_inbox')]
      BY <2>1, <2>4, <3>1 DEF TimerInv, LatestIsHandled
    <3>3. ASSUME NEW i \in DOMAIN t_inbox'
          PROVE  t_inbox'[i] = t_sent[Len(t_sent) - Len(t_inbox') + i]
      <4>1. Len(t_sent) - Len(t_inbox) + (i + 1) = Len(t_sent) - Len(t_inbox') + i
        BY <2>3, <2>4, <2>5
      <4> QED
        BY <2>4, <4>1 DEF TimerInv, LatestIsHandled
    <3>4. Len(t_inbox') < Len(t_sent)
      BY <2>3, <2>5 DEF TimerInv, LatestIsHandled
    <3> QED
      BY <2>5, <3>2, <3>3, <3>4 DEF LatestIsHandled
  <2>7. T!TypeOK'
    BY <2>1, <2>3 DEF TimerInv, T!TypeOK
  <2>8. T!SleepFollowsUpdates'
    BY <2>1 DEF T!SleepFollowsUpdates
  <2> QED
    BY <2>6, <2>7, <2>8 DEF TimerInv
<1>5. CASE T!Sleep
  <2>1. /\ UNCHANGED <<t_clock, t_inbox, t_wake_up_time, t_sent>>
        /\ \/ /\ t_wake_up_time - t_clock <= 0 /\ t_inbox = <<>> /\ t_pc' = "done"
              /\ UNCHANGED <<t_wake_up_time_updated, t_timer>>
           \/ /\ t_pc' = "sleeping" /\ t_wake_up_time_updated' = FALSE
              /\ t_timer' = t_clock + (t_wake_up_time - t_clock)
    BY <1>5 DEF T!Sleep, T!Loop
  <2>2. t_wake_up_time \in Int /\ t_clock \in Int
    BY DEF TimerInv, T!TypeOK, T!Times
  <2>3. t_clock + (t_wake_up_time - t_clock) = t_wake_up_time
    BY <2>2
  <2>4. t_wake_up_time - t_clock <= 0 => t_clock >= t_wake_up_time
    BY <2>2
  <2>5. T!TypeOK' /\ LatestIsHandled'
    BY <2>1, <2>3 DEF TimerInv, T!TypeOK, LatestIsHandled
  <2>6. T!SleepFollowsUpdates'
    BY <2>1, <2>3, <2>4 DEF TimerInv, LatestIsHandled, T!SleepFollowsUpdates
  <2> QED
    BY <2>5, <2>6 DEF TimerInv
<1> QED
  BY <1>1, <1>2, <1>3, <1>4, <1>5 DEF T!Next

\* The sleep follows the updates, whenever and however many come: a timer that
\* is not about to be set again is due at the latest time asked for, and the
\* workflow wakes neither before it nor with an update unread
\* (updatable_timer/updatable_timer_lib.py:12-36).
THEOREM SleepIsUpToDate == T!Spec => [](T!TypeOK /\ T!SleepFollowsUpdates)
<1>0. MaxTime \in Nat
  BY ConversationsAssumption
<1> USE <1>0
<1>1. T!Init => TimerInv
  <2> SUFFICES ASSUME T!Init PROVE TimerInv
    OBVIOUS
  <2>1. /\ t_sent = <<t_wake_up_time>> /\ t_inbox = <<>> /\ t_wake_up_time \in T!Times
        /\ t_pc = "starting" /\ t_timer = 0 /\ t_clock = 0 /\ t_wake_up_time_updated = FALSE
    BY DEF T!Init
  <2>2. /\ t_sent \in Seq(T!Times) /\ Len(t_sent) = 1 /\ t_sent[1] = t_wake_up_time
        /\ <<>> \in Seq(T!Times) /\ Len(<<>>) = 0 /\ 0 \in T!Times
    BY <2>1 DEF T!Times
  <2>3. Len(t_sent) - Len(t_inbox) = 1 /\ Len(t_inbox) < Len(t_sent) /\ DOMAIN t_inbox = {}
    BY <2>1, <2>2
  <2>4. T!TypeOK
    BY <2>1, <2>2 DEF T!TypeOK
  <2>5. LatestIsHandled /\ T!SleepFollowsUpdates
    BY <2>1, <2>2, <2>3 DEF LatestIsHandled, T!SleepFollowsUpdates
  <2> QED
    BY <2>4, <2>5 DEF TimerInv
<1>2. TimerInv => T!TypeOK /\ T!SleepFollowsUpdates
  BY DEF TimerInv
<1> QED
  BY <1>1, <1>2, TimerStep, PTL DEF T!Spec

-----------------------------------------------------------------------------
(* SleepForDays *)

DaysTypes ==
  Z!TypeOK /\ z_rounds \in Seq(0..MaxDays) /\ z_mails \in Nat /\ z_left \in Nat

\* The last round's e-mail was asked for a month before the next is, ...
Last == z_rounds[Len(z_rounds)]
MonthPasses ==
  /\ z_pc \in {"send_email", "sent", "wait"} => Len(z_rounds) > 0 /\ Last <= z_clock
  /\ z_pc = "wait" => z_timer >= Last + Month
  /\ z_pc = "loop" /\ ~z_is_complete /\ Len(z_rounds) > 0 => z_clock >= Last + Month
  /\ \A i \in 1..(Len(z_rounds) - 1) : z_rounds[i + 1] >= z_rounds[i] + Month

\* ... and sent once, and each time an attempt is lost.
MailsAndTasks ==
  /\ z_mails = Len(z_rounds) + z_lost - (IF z_pc = "send_email" THEN 1 ELSE 0)
  /\ z_is_complete \/ z_left = Len(z_rounds) - (IF z_pc = "loop" THEN 0 ELSE 1)
  /\ z_pc = "done" => z_is_complete

DaysInv == DaysTypes /\ MonthPasses /\ MailsAndTasks

\* Each step keeps the invariant.
LEMMA DaysStep == DaysConstants /\ DaysInv /\ [Z!Next]_(Z!vars) => DaysInv'
<1> SUFFICES ASSUME DaysConstants, DaysInv, [Z!Next]_(Z!vars)
             PROVE  DaysInv'
  OBVIOUS
<1> USE DEF DaysConstants
<1>1. /\ Len(z_rounds) \in Nat /\ Month \in Nat /\ z_clock \in Nat /\ z_timer \in Nat /\ z_lost \in Nat
      /\ z_mails \in Nat /\ z_left \in Nat /\ z_clock <= MaxDays
      /\ \A i \in 1..Len(z_rounds) : z_rounds[i] \in Nat
  BY DEF DaysInv, DaysTypes, Z!TypeOK
<1>2. Len(z_rounds) > 0 => Last \in Nat
  BY <1>1 DEF Last
<1>3. MonthPasses /\ MailsAndTasks /\ DaysTypes
  BY DEF DaysInv
<1>4. CASE UNCHANGED Z!vars
  <2>1. UNCHANGED <<z_is_complete, z_pc, z_timer, z_clock, z_rounds, z_mails, z_left, z_lost>>
    BY <1>4 DEF Z!vars
  <2>2. DaysTypes'
    BY <1>3, <2>1 DEF DaysTypes, Z!TypeOK
  <2>3. MonthPasses' /\ MailsAndTasks'
    BY <1>3, <2>1 DEF MonthPasses, MailsAndTasks, Last
  <2> QED
    BY <2>2, <2>3 DEF DaysInv
<1>5. CASE Z!complete
  <2>1. /\ z_pc # "done" /\ z_is_complete' = TRUE
        /\ UNCHANGED <<z_pc, z_timer, z_clock, z_rounds, z_mails, z_left, z_lost>>
    BY <1>5 DEF Z!complete
  <2>2. DaysTypes'
    BY <1>3, <2>1 DEF DaysTypes, Z!TypeOK
  <2>3. MonthPasses' /\ MailsAndTasks'
    BY <1>3, <2>1 DEF MonthPasses, MailsAndTasks, Last
  <2> QED
    BY <2>2, <2>3 DEF DaysInv
<1>6. CASE Z!Loop /\ z_is_complete
  <2>1. /\ z_pc = "loop" /\ z_pc' = "done"
        /\ UNCHANGED <<z_is_complete, z_timer, z_clock, z_rounds, z_mails, z_left, z_lost>>
    BY <1>6 DEF Z!Loop
  <2>2. DaysTypes'
    BY <1>3, <2>1 DEF DaysTypes, Z!TypeOK
  <2>3. MonthPasses' /\ MailsAndTasks'
    BY <1>3, <1>6, <2>1 DEF MonthPasses, MailsAndTasks, Last
  <2> QED
    BY <2>2, <2>3 DEF DaysInv
<1>7. CASE Z!Loop /\ ~z_is_complete
  <2>1. /\ z_pc = "loop" /\ z_pc' = "send_email" /\ z_rounds' = Append(z_rounds, z_clock)
        /\ UNCHANGED <<z_is_complete, z_timer, z_clock, z_mails, z_left, z_lost>>
    BY <1>7 DEF Z!Loop
  <2>2. z_rounds \in Seq(0..MaxDays) /\ z_clock \in 0..MaxDays
    BY <1>3 DEF DaysTypes, Z!TypeOK
  <2>3. z_rounds' \in Seq(0..MaxDays) /\ Len(z_rounds') = Len(z_rounds) + 1
    BY <2>1, <2>2
  <2>4. /\ z_rounds'[Len(z_rounds) + 1] = z_clock
        /\ \A i \in 1..Len(z_rounds) : z_rounds'[i] = z_rounds[i]
    BY <2>1, <2>2
  <2>5. \A i \in DOMAIN z_rounds' : z_rounds'[i] \in 0..MaxDays
    BY <2>3
  <2>6. DaysTypes'
    BY <1>3, <2>1, <2>3, <2>5 DEF DaysTypes, Z!TypeOK
  <2>7. ASSUME NEW i \in 1..Len(z_rounds) PROVE z_rounds'[i + 1] >= z_rounds'[i] + Month
    <3>1. CASE i = Len(z_rounds)
      <4>1. z_clock >= Last + Month
        BY <1>1, <1>3, <1>7, <2>1, <3>1 DEF MonthPasses
      <4> QED
        BY <2>4, <3>1, <4>1 DEF Last
    <3>2. CASE i # Len(z_rounds)
      <4>1. i \in 1..(Len(z_rounds) - 1) /\ i + 1 \in 1..Len(z_rounds)
        BY <1>1, <3>2
      <4> QED
        BY <1>3, <2>4, <4>1 DEF MonthPasses
    <3> QED
      BY <3>1, <3>2
  <2>8. Len(z_rounds') - 1 = Len(z_rounds) /\ Len(z_rounds') > 0
    BY <1>1, <2>3
  <2>9. Last' = z_clock' /\ z_clock' \in Nat
    BY <1>1, <2>1, <2>3, <2>4 DEF Last
  <2>10. MonthPasses'
    BY <2>1, <2>7, <2>8, <2>9 DEF MonthPasses
  <2>11. MailsAndTasks'
    BY <1>1, <1>3, <1>7, <2>1, <2>3 DEF MailsAndTasks
  <2> QED
    BY <2>6, <2>10, <2>11 DEF DaysInv
<1>8. CASE Z!send_email
  <2>1. /\ z_pc = "send_email" /\ z_mails' = z_mails + 1
        /\ \/ z_pc' = "sent" /\ z_lost' = z_lost
           \/ z_pc' = z_pc /\ z_lost < MaxLostMails /\ z_lost' = z_lost + 1
        /\ UNCHANGED <<z_is_complete, z_timer, z_clock, z_rounds, z_left>>
    BY <1>8 DEF Z!send_email
  <2>2. z_lost' \in 0..MaxLostMails
    BY <1>3, <2>1 DEF DaysTypes, Z!TypeOK
  <2>3. DaysTypes'
    BY <1>3, <2>1, <2>2 DEF DaysTypes, Z!TypeOK
  <2>4. MonthPasses'
    BY <1>3, <2>1 DEF MonthPasses, Last
  <2>5. MailsAndTasks'
    BY <1>1, <1>3, <2>1 DEF MailsAndTasks
  <2> QED
    BY <2>3, <2>4, <2>5 DEF DaysInv
<1>9. CASE Z!Wait
  <2>1. /\ z_pc = "sent" /\ z_pc' = "wait" /\ z_timer' = z_clock + Month
        /\ UNCHANGED <<z_is_complete, z_clock, z_rounds, z_mails, z_left, z_lost>>
    BY <1>9 DEF Z!Wait
  <2>2. z_timer' \in 0..(MaxDays + Month)
    BY <1>1, <2>1
  <2>3. DaysTypes'
    BY <1>3, <2>1, <2>2 DEF DaysTypes, Z!TypeOK
  <2>4. Last' = Last /\ Len(z_rounds) > 0 /\ Last <= z_clock
    BY <1>3, <2>1 DEF MonthPasses, Last
  <2>5. z_timer' >= Last' + Month
    BY <1>1, <1>2, <2>1, <2>4
  <2>6. MonthPasses'
    BY <1>3, <2>1, <2>4, <2>5 DEF MonthPasses
  <2>7. MailsAndTasks'
    BY <1>1, <1>3, <2>1 DEF MailsAndTasks
  <2> QED
    BY <2>3, <2>6, <2>7 DEF DaysInv
<1>10. CASE Z!WaitEnds
  <2>1. /\ z_pc = "wait" /\ (z_is_complete \/ z_clock = z_timer) /\ z_pc' = "loop"
        /\ z_left' = IF z_is_complete THEN 0 ELSE z_left + 1
        /\ UNCHANGED <<z_is_complete, z_timer, z_clock, z_rounds, z_mails, z_lost>>
    BY <1>10 DEF Z!WaitEnds
  <2>2. DaysTypes'
    BY <1>1, <1>3, <2>1 DEF DaysTypes, Z!TypeOK
  <2>3. Last' = Last /\ Len(z_rounds) > 0 /\ z_timer >= Last + Month
    BY <1>3, <2>1 DEF MonthPasses, Last
  <2>4. MonthPasses'
    BY <1>3, <2>1, <2>3 DEF MonthPasses
  <2>5. MailsAndTasks'
    BY <1>1, <1>3, <2>1 DEF MailsAndTasks
  <2> QED
    BY <2>2, <2>4, <2>5 DEF DaysInv
<1>11. CASE Z!Tick
  <2>1. /\ z_clock < MaxDays /\ z_clock' = z_clock + 1 /\ z_pc # "done"
        /\ UNCHANGED <<z_is_complete, z_pc, z_timer, z_rounds, z_mails, z_left, z_lost>>
    BY <1>11 DEF Z!Tick
  <2>2. z_clock' \in 0..MaxDays /\ z_clock' >= z_clock
    BY <1>1, <2>1
  <2>3. DaysTypes'
    BY <1>3, <2>1, <2>2 DEF DaysTypes, Z!TypeOK
  <2>4. Last' = Last
    BY <2>1 DEF Last
  <2>5. /\ z_pc \in {"send_email", "sent", "wait"} => Len(z_rounds) > 0 /\ Last <= z_clock'
        /\ z_pc = "loop" /\ ~z_is_complete /\ Len(z_rounds) > 0 => z_clock' >= Last + Month
    BY <1>1, <1>2, <1>3, <2>2 DEF MonthPasses
  <2>6. MonthPasses'
    BY <1>3, <2>1, <2>4, <2>5 DEF MonthPasses
  <2>7. MailsAndTasks'
    BY <1>3, <2>1 DEF MailsAndTasks
  <2> QED
    BY <2>3, <2>6, <2>7 DEF DaysInv
<1> QED
  BY <1>4, <1>5, <1>6, <1>7, <1>8, <1>9, <1>10, <1>11 DEF Z!Next, Z!RunStep

\* E-mails are sent once a month, until the signal ends the workflow and only
\* then; every round but the last leaves a task behind
\* (sleep_for_days/workflows.py:13-37).
THEOREM MailsAreMonthly == Z!Spec => [](Z!TypeOK /\ Z!OneMailAMonth)
<1>0. DaysConstants
  BY ConversationsAssumption
<1> USE <1>0
<1>1. Z!Init => DaysInv
  <2> SUFFICES ASSUME Z!Init PROVE DaysInv
    OBVIOUS
  <2>1. /\ z_rounds = <<>> /\ z_rounds \in Seq(0..MaxDays) /\ Len(z_rounds) = 0
        /\ DOMAIN z_rounds = {} /\ 0 \in 0..MaxDays /\ 0 \in 0..MaxLostMails /\ 0 \in 0..(MaxDays + Month)
    BY DEF Z!Init, DaysConstants
  <2>2. /\ z_is_complete = FALSE /\ z_pc = "loop" /\ z_timer = 0 /\ z_clock = 0 /\ z_mails = 0
        /\ z_left = 0 /\ z_lost = 0
    BY DEF Z!Init
  <2>3. DaysTypes
    BY <2>1, <2>2 DEF DaysTypes, Z!TypeOK
  <2>4. MonthPasses /\ MailsAndTasks
    BY <2>1, <2>2 DEF MonthPasses, MailsAndTasks
  <2> QED
    BY <2>3, <2>4 DEF DaysInv
<1>2. DaysInv => Z!TypeOK /\ Z!OneMailAMonth
  <2> SUFFICES ASSUME DaysInv PROVE Z!OneMailAMonth
    BY DEF DaysInv, DaysTypes
  <2>1. Len(z_rounds) \in Nat /\ z_lost \in Nat
    BY DEF DaysInv, DaysTypes, Z!TypeOK
  <2>2. \A i \in 1..(Len(z_rounds) - 1) : z_rounds[i + 1] >= z_rounds[i] + Month
    BY DEF DaysInv, MonthPasses
  <2>3. z_mails \in (Len(z_rounds) - 1 + z_lost)..(Len(z_rounds) + z_lost)
    BY <2>1 DEF DaysInv, MailsAndTasks
  <2>4. z_is_complete \/ z_left = (IF z_pc = "loop" THEN Len(z_rounds) ELSE Len(z_rounds) - 1)
    BY <2>1 DEF DaysInv, MailsAndTasks
  <2>5. z_pc = "done" => z_is_complete
    BY DEF DaysInv, MailsAndTasks
  <2> QED
    BY <2>2, <2>3, <2>4, <2>5 DEF Z!OneMailAMonth
<1> QED
  BY <1>1, <1>2, DaysStep, PTL DEF Z!Spec

-----------------------------------------------------------------------------
(* HelloMessages *)

Submitters == {"user1", "user2", "user3"}
Before(u, i) == \E k \in 1..(i - 1) : j_inbox[k] = u

GreetTypes ==
  /\ j_pc \in {"start", "waiting", "returned"} /\ j_flag \in BOOLEAN
  /\ j_inbox \in Seq(J!Greetings \cup {"exit"}) /\ j_pending_greetings \in Seq(J!Greetings)
  /\ j_greetings \in Seq(J!Greetings) /\ j_submitted \in Seq(J!Greetings)
  /\ j_asked \in 0..4 /\ (j_main = "first" => j_asked \in 0..3)

\* main's greetings are never lost and never overtaken by its exit.
UsersAreHeard ==
  /\ \A k \in 1..3 : k <= j_asked => In(J!Script[k], j_submitted) \/ In(J!Script[k], j_inbox)
  /\ \A i \in DOMAIN j_inbox :
       j_inbox[i] = "exit" => \A u \in Submitters : In(u, j_submitted) \/ Before(u, i)
  /\ j_flag => \A u \in Submitters : In(u, j_submitted)

GreetInv ==
  /\ GreetTypes /\ UsersAreHeard
  /\ j_submitted = j_greetings \o j_pending_greetings
  /\ j_pc = "returned" => j_pending_greetings = <<>> /\ j_flag

\* What a signal at the end of the inbox leaves as it was, and what it adds.
LEMMA GreetAppend ==
  ASSUME GreetTypes, UsersAreHeard, NEW x \in J!Greetings \cup {"exit"},
         x = "exit" => j_asked >= 3, j_inbox' = Append(j_inbox, x), j_submitted' = j_submitted,
         j_flag' = j_flag
  PROVE  /\ j_inbox' \in Seq(J!Greetings \cup {"exit"}) /\ In(x, j_inbox')
         /\ \A y : In(y, j_inbox) => In(y, j_inbox')
         /\ \A i \in DOMAIN j_inbox' :
              j_inbox'[i] = "exit" => \A u \in Submitters : In(u, j_submitted') \/ Before(u, i)'
<1> DEFINE M == J!Greetings \cup {"exit"}
<1>1. j_inbox \in Seq(M)
  BY DEF GreetTypes
<1> HIDE DEF M
<1>0. x \in M
  BY DEF M
<1>2. /\ j_inbox' \in Seq(M) /\ DOMAIN j_inbox' = 1..(Len(j_inbox) + 1) /\ Len(j_inbox) \in Nat
      /\ DOMAIN j_inbox = 1..Len(j_inbox) /\ j_inbox'[Len(j_inbox) + 1] = x
      /\ \A k \in 1..Len(j_inbox) : j_inbox'[k] = j_inbox[k]
  BY <1>0, <1>1
<1>3. \A y : In(y, j_inbox') <=> In(y, j_inbox) \/ y = x
  BY <1>0, <1>1, Appended
<1>4. ASSUME NEW i \in DOMAIN j_inbox', j_inbox'[i] = "exit", NEW u \in Submitters
      PROVE  In(u, j_submitted') \/ Before(u, i)'
  <2>1. CASE i = Len(j_inbox) + 1
    <3>1. x = "exit" /\ j_asked \in 3..4
      BY <1>2, <1>4, <2>1 DEF GreetTypes
    <3>2. PICK n \in 1..3 : u = J!Script[n]
      <4>1. J!Script[1] = "user1" /\ J!Script[2] = "user2" /\ J!Script[3] = "user3"
        BY DEF J!Script
      <4> QED
        BY <4>1 DEF Submitters
    <3>3. In(u, j_submitted) \/ In(u, j_inbox)
      BY <3>1, <3>2 DEF UsersAreHeard
    <3>4. ASSUME In(u, j_inbox) PROVE \E k \in 1..(i - 1) : j_inbox'[k] = u
      BY <1>2, <2>1, <3>4 DEF In
    <3> QED
      BY <3>3, <3>4 DEF Before, In
  <2>2. CASE i \in 1..Len(j_inbox)
    <3>1. j_inbox[i] = "exit" /\ i \in DOMAIN j_inbox
      BY <1>2, <1>4, <2>2
    <3>2. In(u, j_submitted) \/ \E k \in 1..(i - 1) : j_inbox[k] = u
      BY <3>1 DEF UsersAreHeard, Before
    <3>3. \A k \in 1..(i - 1) : j_inbox'[k] = j_inbox[k]
      BY <1>2, <2>2
    <3> QED
      BY <3>2, <3>3 DEF Before, In
  <2> QED
    BY <1>2, <2>1, <2>2
<1> QED
  BY <1>2, <1>3, <1>4 DEF M

LEMMA GreetStep ==
  MessagesConstants /\ j_name = "signal" /\ GreetInv /\ [J!Next]_(J!vars)
    => j_name' = "signal" /\ GreetInv'
<1> SUFFICES ASSUME MessagesConstants, j_name = "signal", GreetInv, [J!Next]_(J!vars)
             PROVE  j_name' = "signal" /\ GreetInv'
  OBVIOUS
<1> DEFINE M == J!Greetings \cup {"exit"}
           Names == J!Greetings
<1>0. /\ j_inbox \in Seq(M) /\ j_pending_greetings \in Seq(Names) /\ j_greetings \in Seq(Names)
      /\ j_submitted \in Seq(Names) /\ "exit" \in M /\ Names \subseteq M /\ M = Names \cup {"exit"}
      /\ "exit" \notin Names
  BY DEF GreetInv, GreetTypes, MessagesConstants, J!Greetings
<1> HIDE DEF M, Names
<1>1. CASE UNCHANGED J!vars
  BY <1>1 DEF GreetInv, GreetTypes, UsersAreHeard, Before, In, J!vars
<1>2. CASE J!HandleSignal
  <2>1. /\ j_inbox # <<>> /\ j_inbox' = Tail(j_inbox) /\ j_pc # "returned"
        /\ UNCHANGED <<j_name, j_pc, j_greetings, j_main, j_asked>>
    BY <1>2 DEF J!HandleSignal, J!mainVars
  <2>2. /\ Head(j_inbox) \in M /\ j_inbox' \in Seq(M)
        /\ \A x : In(x, j_inbox) <=> x = Head(j_inbox) \/ In(x, j_inbox')
    BY <1>0, <2>1, Beheaded
  <2>3. /\ 1 \in DOMAIN j_inbox /\ j_inbox[1] = Head(j_inbox)
        /\ \A i \in DOMAIN j_inbox' :
             i \in Nat \ {0} /\ i + 1 \in DOMAIN j_inbox /\ j_inbox'[i] = j_inbox[i + 1]
    BY <1>0, <2>1
  \* Who was before a later signal is so still, or was the one handled.
  <2>4. ASSUME NEW i \in DOMAIN j_inbox', NEW u, Before(u, i + 1)
        PROVE  u = Head(j_inbox) \/ Before(u, i)'
    <3>1. PICK k \in 1..i : j_inbox[k] = u
      BY <2>3, <2>4 DEF Before
    <3>2. CASE k = 1
      BY <2>3, <3>1, <3>2
    <3>3. CASE k # 1
      <4>1. k - 1 \in 1..(i - 1) /\ k - 1 \in DOMAIN j_inbox'
        BY <2>3, <2>2, <3>1, <3>3
      <4>2. j_inbox'[k - 1] = u
        BY <2>3, <3>1, <4>1
      <4> QED
        BY <4>1, <4>2 DEF Before
    <3> QED
      BY <3>2, <3>3
  <2>5. CASE Head(j_inbox) = "exit"
    <3>1. j_flag' = TRUE /\ UNCHANGED <<j_pending_greetings, j_submitted>>
      BY <1>2, <2>5 DEF J!HandleSignal
    <3>2. \A u \in Submitters : u # "exit"
      BY DEF Submitters
    <3>3. \A u \in Submitters : In(u, j_submitted)
      <4>1. \A u \in Submitters : ~Before(u, 1)
        BY DEF Before
      <4> QED
        BY <2>3, <2>5, <4>1 DEF GreetInv, UsersAreHeard
    <3>4. \A k \in 1..3 : k <= j_asked' => In(J!Script[k], j_submitted')
      <4>1. J!Script[1] \in Submitters /\ J!Script[2] \in Submitters /\ J!Script[3] \in Submitters
        BY DEF J!Script, Submitters
      <4>2. \A k \in 1..3 : J!Script[k] \in Submitters
        BY <4>1
      <4> QED
        BY <3>1, <3>3, <4>2 DEF In
    <3>5. UsersAreHeard'
      BY <3>1, <3>3, <3>4 DEF UsersAreHeard, In
    <3>6. GreetTypes'
      BY <2>1, <2>2, <3>1 DEF GreetInv, GreetTypes, M
    <3> QED
      BY <2>1, <3>1, <3>5, <3>6 DEF GreetInv
  <2>6. CASE Head(j_inbox) # "exit"
    <3>1. /\ j_pending_greetings' = Append(j_pending_greetings, Head(j_inbox))
          /\ j_submitted' = Append(j_submitted, Head(j_inbox)) /\ j_flag' = j_flag
      BY <1>2, <2>6 DEF J!HandleSignal
    <3>2. Head(j_inbox) \in Names
      BY <1>0, <2>2, <2>6
    <3>3. /\ j_pending_greetings' \in Seq(Names) /\ j_submitted' \in Seq(Names)
          /\ \A x : In(x, j_submitted)' <=> In(x, j_submitted) \/ x = Head(j_inbox)
      <4>1. \A x : In(x, Append(j_submitted, Head(j_inbox)))
                     <=> In(x, j_submitted) \/ x = Head(j_inbox)
        BY <1>0, <3>2, Appended
      <4>2. j_pending_greetings' \in Seq(Names) /\ j_submitted' \in Seq(Names)
        BY <1>0, <3>1, <3>2
      <4>3. \A x : In(x, j_submitted') <=> In(x, j_submitted) \/ x = Head(j_inbox)
        BY <3>1, <4>1
      <4> QED
        BY <4>2, <4>3 DEF In
    <3>4. j_submitted' = j_greetings' \o j_pending_greetings'
      <4>1. j_greetings \o Append(j_pending_greetings, Head(j_inbox))
              = Append(j_greetings \o j_pending_greetings, Head(j_inbox))
        BY <1>0, <3>2, JoinedAppend
      <4>2. j_greetings' = j_greetings /\ j_submitted = j_greetings \o j_pending_greetings
        BY <2>1 DEF GreetInv
      <4> QED
        BY <3>1, <4>1, <4>2
    <3>5. \A k \in 1..3 : k <= j_asked' =>
            In(J!Script[k], j_submitted)' \/ In(J!Script[k], j_inbox')
      BY <2>1, <2>2, <3>3 DEF GreetInv, UsersAreHeard, J!Script
    <3>6. ASSUME NEW i \in DOMAIN j_inbox', j_inbox'[i] = "exit", NEW u \in Submitters
          PROVE  In(u, j_submitted)' \/ Before(u, i)'
      <4>1. i + 1 \in DOMAIN j_inbox /\ j_inbox[i + 1] = "exit"
        BY <2>3, <3>6
      <4>2. In(u, j_submitted) \/ Before(u, i + 1)
        BY <3>6, <4>1 DEF GreetInv, UsersAreHeard
      <4> QED
        BY <2>4, <3>3, <4>2
    <3>7. j_flag' => \A u \in Submitters : In(u, j_submitted)'
      BY <3>1, <3>3 DEF GreetInv, UsersAreHeard
    <3>8. UsersAreHeard'
      BY <3>5, <3>6, <3>7 DEF UsersAreHeard, In, J!Script
    <3>9. GreetTypes'
      BY <2>1, <2>2, <3>1, <3>3 DEF GreetInv, GreetTypes, M, Names
    <3> QED
      BY <2>1, <3>1, <3>4, <3>8, <3>9 DEF GreetInv
  <2> QED
    BY <2>5, <2>6
<1>3. CASE J!Drain
  <2>1. /\ j_pc' \in {"waiting", "returned"} /\ (j_pc' = "returned" => j_flag)
        /\ UNCHANGED <<j_name, j_inbox, j_submitted, j_flag, j_main, j_asked>>
        /\ \/ UNCHANGED <<j_greetings, j_pending_greetings>> /\ j_pc' = "waiting"
           \/ j_greetings' = j_greetings \o j_pending_greetings /\ j_pending_greetings' = <<>>
    BY <1>3 DEF J!Drain, J!mainVars
  <2>2. j_greetings \o j_pending_greetings \in Seq(Names) /\ <<>> \in Seq(Names)
    BY <1>0
  <2>3. j_submitted' = j_greetings' \o j_pending_greetings'
    <3>1. j_submitted = j_greetings \o j_pending_greetings
      BY DEF GreetInv
    <3>2. j_submitted \o <<>> = j_submitted
      BY <1>0
    <3> QED
      BY <2>1, <3>1, <3>2
  <2>4. j_greetings' \in Seq(Names) /\ j_pending_greetings' \in Seq(Names)
    BY <1>0, <2>1, <2>2
  <2>5. GreetTypes'
    BY <2>1, <2>4 DEF GreetInv, GreetTypes, Names
  <2>6. UsersAreHeard'
    BY <2>1 DEF GreetInv, UsersAreHeard, Before, In, J!Script
  <2> QED
    BY <2>1, <2>3, <2>5, <2>6 DEF GreetInv
<1>4. CASE J!SendSignal
  <2>1. /\ j_main = "first" /\ j_inbox' = Append(j_inbox, J!Script[j_asked + 1])
        /\ j_asked' = j_asked + 1 /\ j_main' = IF j_asked' = 4 THEN "result" ELSE j_main
        /\ UNCHANGED <<j_name, j_pc, j_pending_greetings, j_greetings, j_submitted, j_flag>>
    BY <1>4 DEF J!SendSignal, J!runVars
  <2>2. j_asked \in 0..3
    BY <2>1 DEF GreetInv, GreetTypes
  <2>3. /\ J!Script[1] = "user1" /\ J!Script[2] = "user2" /\ J!Script[3] = "user3"
        /\ J!Script[4] = "exit"
    BY DEF J!Script
  <2>4. j_asked + 1 \in {1, 2, 3, 4}
    BY <2>2
  <2>5. /\ J!Script[j_asked + 1] \in J!Greetings \cup {"exit"}
        /\ J!Script[j_asked + 1] = "exit" => j_asked >= 3
    BY <2>2, <2>3, <2>4 DEF J!Greetings
  <2>6. PICK x \in J!Greetings \cup {"exit"} :
             x = J!Script[j_asked + 1] /\ (x = "exit" => j_asked >= 3)
    BY <2>5
  <2>7. /\ j_inbox' \in Seq(J!Greetings \cup {"exit"}) /\ In(x, j_inbox')
        /\ \A y : In(y, j_inbox) => In(y, j_inbox')
        /\ \A i \in DOMAIN j_inbox' :
             j_inbox'[i] = "exit" => \A u \in Submitters : In(u, j_submitted') \/ Before(u, i)'
    BY <2>1, <2>6, GreetAppend DEF GreetInv
  <2>8. ASSUME NEW k \in 1..3, k <= j_asked'
        PROVE  In(J!Script[k], j_submitted') \/ In(J!Script[k], j_inbox')
    <3>1. k <= j_asked \/ k = j_asked + 1
      BY <2>1, <2>2, <2>8
    <3>2. CASE k <= j_asked
      BY <2>1, <2>7, <3>2 DEF GreetInv, UsersAreHeard, In
    <3> QED
      BY <2>6, <2>7, <3>1, <3>2
  <2>9. UsersAreHeard'
    <3>1. j_flag' => \A u \in Submitters : In(u, j_submitted')
      BY <2>1 DEF GreetInv, UsersAreHeard, In
    <3> QED
      BY <2>7, <2>8, <3>1 DEF UsersAreHeard, J!Script
  <2>10. j_asked' \in 0..4 /\ (j_main' = "first" => j_asked' \in 0..3)
    BY <2>1, <2>2
  <2>11. GreetTypes'
    BY <2>1, <2>7, <2>10 DEF GreetInv, GreetTypes
  <2> QED
    BY <2>1, <2>9, <2>11 DEF GreetInv
<1>5. CASE J!OtherSignal
  <2>1. UNCHANGED <<j_name, j_pc, j_pending_greetings, j_greetings, j_submitted, j_flag, j_main, j_asked>>
    BY <1>5 DEF J!OtherSignal, J!runVars, J!mainVars
  <2>2. PICK x \in J!Greetings \cup {"exit"} :
             j_inbox' = Append(j_inbox, x) /\ (x = "exit" => j_asked >= 3)
    BY <1>5 DEF J!OtherSignal, J!Greetings, MessagesConstants
  <2>3. /\ j_inbox' \in Seq(J!Greetings \cup {"exit"}) /\ In(x, j_inbox')
        /\ \A y : In(y, j_inbox) => In(y, j_inbox')
        /\ \A i \in DOMAIN j_inbox' :
             j_inbox'[i] = "exit" => \A u \in Submitters : In(u, j_submitted') \/ Before(u, i)'
    BY <2>1, <2>2, GreetAppend DEF GreetInv
  <2>4. \A k \in 1..3 : k <= j_asked' =>
          In(J!Script[k], j_submitted') \/ In(J!Script[k], j_inbox')
    BY <2>1, <2>3 DEF GreetInv, UsersAreHeard, In
  <2>5. j_flag' => \A u \in Submitters : In(u, j_submitted')
    BY <2>1 DEF GreetInv, UsersAreHeard, In
  <2>6. UsersAreHeard'
    BY <2>3, <2>4, <2>5 DEF UsersAreHeard, J!Script
  <2>7. GreetTypes'
    BY <2>1, <2>3 DEF GreetInv, GreetTypes
  <2> QED
    BY <2>1, <2>6, <2>7 DEF GreetInv
<1>6. CASE J!GetResult
  <2>1. /\ j_main' = "done"
        /\ UNCHANGED <<j_name, j_inbox, j_pc, j_pending_greetings, j_greetings, j_submitted, j_flag, j_asked>>
    BY <1>6 DEF J!GetResult, J!runVars
  <2>2. GreetTypes'
    BY <2>1 DEF GreetInv, GreetTypes
  <2>3. UsersAreHeard'
    BY <2>1 DEF GreetInv, UsersAreHeard, Before, In, J!Script
  <2> QED
    BY <2>1, <2>2, <2>3 DEF GreetInv
<1>7. J!Next => J!HandleSignal \/ J!Drain \/ J!SendSignal \/ J!OtherSignal \/ J!GetResult
  BY DEF J!Next, J!RunStep, J!MainStep, J!AwaitComplete, J!BeginSleep, J!TimerFires, J!EndSleep,
         J!Update, J!Ask, J!Tick, J!Sleeps, GreetInv, GreetTypes
<1> QED
  BY <1>1, <1>2, <1>3, <1>4, <1>5, <1>6, <1>7

\* What the second query relies on: the sleep of two seconds began before the
\* first query, so that three seconds later it is over.
QueryTypes ==
  /\ j_pc \in {"start", "sleeping", "due", "returned"} /\ j_inbox = <<>>
  /\ j_main \in {"first", "second", "done"} /\ j_clock \in Nat /\ j_timer \in Nat /\ j_asked \in Nat

TheTwoAnswers ==
  /\ j_main = "first" => j_seen = <<>>
  /\ j_main = "second" => /\ j_seen \in Seq({"hello", "goodbye"}) /\ Len(j_seen) = 1
                        /\ j_pc # "start"
  /\ j_main = "done" => /\ j_seen \in Seq({"hello", "goodbye"}) /\ Len(j_seen) = 2
                      /\ j_seen[2] = "goodbye"

SleepIsTwo ==
  /\ j_pc = "sleeping" => j_value = "hello" /\ j_clock <= j_timer /\ j_timer <= j_clock + 2
  /\ j_pc = "returned" => j_value = "goodbye"
  /\ j_main = "second" /\ j_pc = "sleeping" => j_timer <= j_asked + 2

QueryInv == QueryTypes /\ TheTwoAnswers /\ SleepIsTwo

LEMMA QueryStep ==
  j_name = "query" /\ QueryInv /\ [J!Next]_(J!vars) => j_name' = "query" /\ QueryInv'
<1> SUFFICES ASSUME j_name = "query", QueryInv, [J!Next]_(J!vars)
             PROVE  j_name' = "query" /\ QueryInv'
  OBVIOUS
<1>1. CASE UNCHANGED J!vars
  BY <1>1 DEF QueryInv, QueryTypes, TheTwoAnswers, SleepIsTwo, J!vars
<1>2. CASE J!BeginSleep
  <2>1. /\ j_pc = "start" /\ j_pc' = "sleeping" /\ j_timer' = j_clock + 2 /\ j_value' = "hello"
        /\ UNCHANGED <<j_name, j_clock, j_inbox, j_main, j_asked, j_seen>>
    BY <1>2 DEF J!BeginSleep, J!mainVars
  <2>2. j_clock \in Nat /\ j_clock <= j_clock + 2 /\ j_clock + 2 \in Nat
    BY DEF QueryInv, QueryTypes
  <2>3. j_main # "second"
    BY <2>1 DEF QueryInv, TheTwoAnswers
  <2> QED
    BY <2>1, <2>2, <2>3 DEF QueryInv, QueryTypes, TheTwoAnswers, SleepIsTwo
<1>3. CASE J!TimerFires
  <2>1. /\ j_pc = "sleeping" /\ j_pc' = "due"
        /\ UNCHANGED <<j_name, j_clock, j_timer, j_inbox, j_value, j_main, j_asked, j_seen>>
    BY <1>3 DEF J!TimerFires, J!mainVars
  <2> QED
    BY <2>1 DEF QueryInv, QueryTypes, TheTwoAnswers, SleepIsTwo
<1>4. CASE J!EndSleep
  <2>1. /\ j_pc = "due" /\ j_pc' = "returned" /\ j_value' = "goodbye"
        /\ UNCHANGED <<j_name, j_clock, j_timer, j_inbox, j_main, j_asked, j_seen>>
    BY <1>4 DEF J!EndSleep, J!mainVars
  <2> QED
    BY <2>1 DEF QueryInv, QueryTypes, TheTwoAnswers, SleepIsTwo
<1>5. CASE J!Ask
  <2>1. /\ j_pc \in {"sleeping", "returned"} /\ j_asked' = j_clock /\ j_seen' = Append(j_seen, j_value)
        /\ UNCHANGED <<j_name, j_clock, j_timer, j_pc, j_inbox, j_value>>
    BY <1>5 DEF J!Ask, J!runVars, QueryInv, QueryTypes
  <2>2. j_clock \in Nat /\ j_timer \in Nat /\ j_asked \in Nat
    BY DEF QueryInv, QueryTypes
  <2>3. j_value \in {"hello", "goodbye"}
    BY <2>1 DEF QueryInv, SleepIsTwo
  <2>4. CASE j_main = "first" /\ j_main' = "second"
    <3>1. j_seen' = <<j_value>>
      BY <2>1, <2>4 DEF QueryInv, TheTwoAnswers
    <3>2. j_seen' \in Seq({"hello", "goodbye"}) /\ Len(j_seen') = 1
      BY <2>3, <3>1
    <3>3. TheTwoAnswers'
      BY <2>1, <2>4, <3>2 DEF TheTwoAnswers
    <3>4. SleepIsTwo'
      BY <2>1, <2>2 DEF QueryInv, SleepIsTwo
    <3> QED
      BY <2>1, <2>4, <3>3, <3>4 DEF QueryInv, QueryTypes
  <2>5. CASE j_main = "second" /\ j_clock >= j_asked + 3 /\ j_main' = "done"
    <3>1. j_pc # "sleeping"
      BY <2>2, <2>5 DEF QueryInv, SleepIsTwo
    <3>2. j_value = "goodbye"
      BY <2>1, <3>1 DEF QueryInv, SleepIsTwo
    <3>3. j_seen \in Seq({"hello", "goodbye"}) /\ Len(j_seen) = 1
      BY <2>5 DEF QueryInv, TheTwoAnswers
    <3>4. j_seen' \in Seq({"hello", "goodbye"}) /\ Len(j_seen') = 2 /\ j_seen'[2] = j_value
      <4>1. \A P : \A s \in Seq(P) : \A x \in P :
              Append(s, x) \in Seq(P) /\ Len(Append(s, x)) = Len(s) + 1
              /\ Append(s, x)[Len(s) + 1] = x
        BY Appended
      <4>2. Append(j_seen, j_value) \in Seq({"hello", "goodbye"})
            /\ Len(Append(j_seen, j_value)) = Len(j_seen) + 1
            /\ Append(j_seen, j_value)[Len(j_seen) + 1] = j_value
        BY <2>3, <3>3, <4>1
      <4> QED
        BY <2>1, <3>3, <4>2
    <3>5. TheTwoAnswers'
      BY <2>5, <3>2, <3>4 DEF TheTwoAnswers
    <3>6. SleepIsTwo'
      BY <2>1, <2>5, <3>1 DEF QueryInv, SleepIsTwo
    <3> QED
      BY <2>1, <2>5, <3>5, <3>6 DEF QueryInv, QueryTypes
  <2> QED
    BY <1>5, <2>4, <2>5 DEF J!Ask
<1>6. CASE J!Tick
  <2>1. /\ j_clock' = j_clock + 1 /\ ~(j_pc = "sleeping" /\ j_clock = j_timer)
        /\ UNCHANGED <<j_name, j_timer, j_pc, j_inbox, j_value, j_main, j_asked, j_seen>>
    BY <1>6 DEF J!Tick, J!runVars, J!mainVars
  <2>2. j_clock \in Nat /\ j_timer \in Nat
    BY DEF QueryInv, QueryTypes
  <2>3. SleepIsTwo'
    BY <2>1, <2>2 DEF QueryInv, SleepIsTwo
  <2>4. TheTwoAnswers'
    BY <2>1 DEF QueryInv, TheTwoAnswers
  <2> QED
    BY <2>1, <2>2, <2>3, <2>4 DEF QueryInv, QueryTypes
<1>7. J!Next => J!BeginSleep \/ J!TimerFires \/ J!EndSleep \/ J!Ask \/ J!Tick
  BY DEF J!Next, J!RunStep, J!MainStep, J!HandleSignal, J!Drain, J!AwaitComplete, J!SendSignal,
         J!OtherSignal, J!Update, J!GetResult, QueryInv, QueryTypes
<1> QED
  BY <1>1, <1>2, <1>3, <1>4, <1>5, <1>6, <1>7

\* main has a signal to send as long as it is sending.
ScriptGoesOn == j_name = "signal" /\ j_main = "first" => j_asked < 4

\* Each step keeps the types of all four samples.
LEMMA MessagesAreTyped ==
  MessagesConstants /\ J!TypeOK /\ ScriptGoesOn /\ [J!Next]_(J!vars) => J!TypeOK' /\ ScriptGoesOn'
<1> SUFFICES ASSUME MessagesConstants, J!TypeOK, ScriptGoesOn, [J!Next]_(J!vars)
             PROVE  J!TypeOK' /\ ScriptGoesOn'
  OBVIOUS
<1>0. /\ MaxSeconds \in Nat /\ Len(J!Script) = 4
      /\ \A g \in J!Greetings : g \in J!Greetings \cup {"exit"}
      /\ j_clock \in 0..MaxSeconds /\ j_timer \in 0..(MaxSeconds + 2)
  BY DEF J!Script, J!TypeOK, MessagesConstants
<1>1. CASE UNCHANGED J!vars
  BY <1>1 DEF J!vars, J!TypeOK, ScriptGoesOn
<1>2. CASE J!HandleSignal
  <2>1. /\ j_inbox # <<>> /\ j_inbox' = Tail(j_inbox) /\ Head(j_inbox) \in J!Greetings \cup {"exit"}
        /\ UNCHANGED <<j_name, j_clock, j_pc, j_timer, j_greetings, j_value, j_main, j_asked, j_seen>>
    BY <1>2 DEF J!HandleSignal, J!mainVars, J!TypeOK
  <2>2. Tail(j_inbox) \in Seq(J!Greetings \cup {"exit"})
    BY <2>1 DEF J!TypeOK
  <2>3. CASE j_flag' = TRUE /\ UNCHANGED <<j_pending_greetings, j_submitted>>
    BY <2>1, <2>2, <2>3 DEF J!TypeOK, ScriptGoesOn
  <2>4. CASE /\ Head(j_inbox) # "exit" /\ UNCHANGED j_flag
             /\ j_pending_greetings' = Append(j_pending_greetings, Head(j_inbox))
             /\ j_submitted' = Append(j_submitted, Head(j_inbox))
    <3>1. Head(j_inbox) \in J!Greetings
      BY <2>1, <2>4
    <3>2. j_pending_greetings' \in Seq(J!Greetings) /\ j_submitted' \in Seq(J!Greetings)
      BY <2>4, <3>1 DEF J!TypeOK
    <3> QED
      BY <2>1, <2>2, <2>4, <3>2 DEF J!TypeOK, ScriptGoesOn
  <2> QED
    BY <1>2, <2>3, <2>4 DEF J!HandleSignal
<1>3. CASE J!Drain
  <2>1. UNCHANGED <<j_name, j_clock, j_timer, j_inbox, j_submitted, j_flag, j_value, j_main, j_asked, j_seen>>
    BY <1>3 DEF J!Drain, J!mainVars
  <2>2. j_pc' \in {"waiting", "returned"}
    BY <1>3 DEF J!Drain
  <2>3. \/ UNCHANGED <<j_greetings, j_pending_greetings>>
        \/ j_greetings' = j_greetings \o j_pending_greetings /\ j_pending_greetings' = <<>>
    BY <1>3 DEF J!Drain
  <2>4. j_greetings' \in Seq(J!Greetings) /\ j_pending_greetings' \in Seq(J!Greetings)
    <3>1. j_greetings \in Seq(J!Greetings) /\ j_pending_greetings \in Seq(J!Greetings)
      BY DEF J!TypeOK
    <3>2. <<>> \in Seq(J!Greetings) /\ j_greetings \o j_pending_greetings \in Seq(J!Greetings)
      BY <3>1
    <3> QED
      BY <2>3, <3>1, <3>2
  <2> QED
    BY <2>1, <2>2, <2>4 DEF J!TypeOK, ScriptGoesOn
<1>4. CASE J!AwaitComplete \/ J!TimerFires
  BY <1>4 DEF J!AwaitComplete, J!TimerFires, J!mainVars, J!TypeOK, ScriptGoesOn
<1>5. CASE J!BeginSleep
  <2>1. /\ j_pc' = "sleeping" /\ j_timer' = j_clock + 2 /\ j_value' \in {"hello", j_value}
        /\ UNCHANGED <<j_name, j_clock, j_inbox, j_pending_greetings, j_greetings, j_submitted,
                      j_flag, j_main, j_asked, j_seen>>
    BY <1>5 DEF J!BeginSleep, J!mainVars
  <2>2. j_timer' \in 0..(MaxSeconds + 2)
    BY <1>0, <2>1
  <2> QED
    BY <2>1, <2>2 DEF J!TypeOK, ScriptGoesOn
<1>6. CASE J!EndSleep
  BY <1>6 DEF J!EndSleep, J!mainVars, J!TypeOK, ScriptGoesOn
<1>7. CASE J!SendSignal
  <2>1. /\ j_name = "signal" /\ j_main = "first" /\ j_asked \in 0..3 /\ j_asked' = j_asked + 1
        /\ j_inbox' = Append(j_inbox, J!Script[j_asked + 1])
        /\ j_main' = IF j_asked' = 4 THEN "result" ELSE j_main
        /\ UNCHANGED <<j_name, j_clock, j_pc, j_timer, j_pending_greetings, j_greetings, j_submitted,
                      j_flag, j_value, j_seen>>
    BY <1>0, <1>7 DEF J!SendSignal, J!runVars, J!TypeOK, ScriptGoesOn
  <2>2. J!Script[j_asked + 1] \in J!Greetings \cup {"exit"}
    <3>1. j_asked + 1 \in {1, 2, 3, 4}
      BY <2>1
    <3>2. \A n \in {1, 2, 3, 4} : J!Script[n] \in J!Greetings \cup {"exit"}
      BY DEF J!Script, J!Greetings
    <3> QED
      BY <3>1, <3>2
  <2>3. j_inbox' \in Seq(J!Greetings \cup {"exit"})
    BY <2>1, <2>2 DEF J!TypeOK
  <2>4. j_asked' \in 0..4 /\ j_main' \in {"first", "result"} /\ (j_main' = "first" => j_asked' < 4)
    BY <2>1
  <2> QED
    BY <1>0, <2>1, <2>3, <2>4 DEF J!TypeOK, ScriptGoesOn
<1>8. CASE J!OtherSignal
  <2>1. PICK g \in Others : j_inbox' = Append(j_inbox, g)
    BY <1>8 DEF J!OtherSignal
  <2>2. UNCHANGED <<j_name, j_clock, j_pc, j_timer, j_pending_greetings, j_greetings, j_submitted,
                    j_flag, j_value, j_main, j_asked, j_seen>>
    BY <1>8 DEF J!OtherSignal, J!runVars, J!mainVars
  <2>3. j_inbox' \in Seq(J!Greetings \cup {"exit"})
    BY <2>1 DEF J!Greetings, J!TypeOK
  <2> QED
    BY <2>2, <2>3 DEF J!TypeOK, ScriptGoesOn
<1>9. CASE J!Update
  BY <1>9 DEF J!Update, J!TypeOK, ScriptGoesOn
<1>10. CASE J!Ask
  <2>1. /\ j_name # "signal" /\ j_asked' = j_clock /\ j_main' \in {"second", "done"}
        /\ UNCHANGED <<j_name, j_clock, j_inbox, j_pc, j_timer, j_pending_greetings, j_greetings,
                      j_submitted, j_flag, j_value>>
    BY <1>10 DEF J!Ask, J!Sleeps, J!runVars
  <2> QED
    BY <1>0, <2>1 DEF J!TypeOK, ScriptGoesOn
<1>11. CASE J!GetResult
  BY <1>11 DEF J!GetResult, J!runVars, J!TypeOK, ScriptGoesOn
<1>12. CASE J!Tick
  <2>1. j_clock' \in 0..MaxSeconds
    BY <1>0, <1>12 DEF J!Tick
  <2> QED
    BY <1>12, <2>1 DEF J!Tick, J!runVars, J!mainVars, J!TypeOK, ScriptGoesOn
<1> QED
  BY <1>1, <1>2, <1>3, <1>4, <1>5, <1>6, <1>7, <1>8, <1>9, <1>10, <1>11, <1>12
  DEF J!Next, J!RunStep, J!MainStep

\* No signal is lost on the way to hello_signal's result, not even the one that
\* came with the exit, and they keep their order (hello_signal.py:17-39);
\* hello_query's second answer is the greeting after the sleep
\* (hello_query.py:16-27, 55-64).
THEOREM MessagesReachTheResult ==
  J!Spec => []J!TypeOK /\ []J!GreetsWhoSubmitted /\ []J!QueriesAreCurrent
<1>0. MessagesConstants
  BY ConversationsAssumption
<1> USE <1>0
<1> DEFINE Inv == /\ j_name = "signal" => GreetInv
                  /\ j_name = "query" => QueryInv
                  /\ J!TypeOK /\ ScriptGoesOn
<1>1. J!Init => Inv
  <2> SUFFICES ASSUME J!Init PROVE Inv
    OBVIOUS
  <2>1. /\ j_pc = "start" /\ j_inbox = <<>> /\ j_pending_greetings = <<>> /\ j_greetings = <<>>
        /\ j_submitted = <<>> /\ j_flag = FALSE /\ j_main = "first" /\ j_asked = 0 /\ j_clock = 0
        /\ j_timer = 0 /\ j_seen = <<>>
    BY DEF J!Init
  <2>2. /\ <<>> \in Seq(J!Greetings) /\ <<>> \in Seq(J!Greetings \cup {"exit"})
        /\ <<>> \o <<>> = <<>> /\ 0 \in 0..4 /\ 0 \in 0..3 /\ 0 \in Nat
    OBVIOUS
  <2>3. \A k \in 1..3 : ~(k <= 0)
    OBVIOUS
  <2>4. GreetTypes
    BY <2>1, <2>2 DEF GreetTypes
  <2>5. UsersAreHeard
    BY <2>1, <2>3 DEF UsersAreHeard
  <2>6. GreetInv
    BY <2>1, <2>2, <2>4, <2>5 DEF GreetInv
  <2>7. QueryInv
    BY <2>1, <2>2 DEF QueryInv, QueryTypes, TheTwoAnswers, SleepIsTwo
  <2>8. /\ j_name \in {"signal", "update", "query", "attributes"} /\ j_value \in {"none", "old"}
        /\ Len(J!Script) = 4 /\ MaxSeconds \in Nat
    BY DEF J!Init, J!Script, MessagesConstants
  <2>9. J!TypeOK /\ ScriptGoesOn
    <3>1. /\ j_clock \in 0..MaxSeconds /\ j_timer \in 0..(MaxSeconds + 2)
          /\ j_asked \in 0..IF j_name = "signal" THEN Len(J!Script) ELSE MaxSeconds
      BY <2>1, <2>8
    <3>2. j_flag \in BOOLEAN
      BY <2>1
    <3>3. ScriptGoesOn
      BY <2>1 DEF ScriptGoesOn
    <3> QED
      BY <2>1, <2>2, <2>8, <3>1, <3>2, <3>3 DEF J!TypeOK
  <2> QED
    BY <2>6, <2>7, <2>9
<1>2. Inv /\ [J!Next]_(J!vars) => Inv'
  <2>1. [J!Next]_(J!vars) => j_name' = j_name
    BY DEF J!Next, J!RunStep, J!MainStep, J!HandleSignal, J!Drain, J!AwaitComplete,
           J!SendSignal, J!OtherSignal, J!Update, J!GetResult, J!BeginSleep, J!TimerFires,
           J!EndSleep, J!Ask, J!Tick, J!vars
  <2> QED
    BY <2>1, GreetStep, QueryStep, MessagesAreTyped
<1>3. Inv => J!GreetsWhoSubmitted /\ J!QueriesAreCurrent
  <2> SUFFICES ASSUME Inv PROVE J!GreetsWhoSubmitted /\ J!QueriesAreCurrent
    OBVIOUS
  <2>1. J!GreetsWhoSubmitted
    <3> SUFFICES ASSUME j_name = "signal" PROVE J!GreetsWhoSubmitted
      BY DEF J!GreetsWhoSubmitted
    <3>1. j_submitted = j_greetings \o j_pending_greetings /\ j_greetings \in Seq(J!Greetings)
      BY DEF GreetInv, GreetTypes
    <3>2. j_greetings \o <<>> = j_greetings
      BY <3>1
    <3>3. ASSUME j_pc = "returned" PROVE \A u \in Submitters : In(u, j_greetings)
      <4>1. j_flag /\ j_pending_greetings = <<>> /\ UsersAreHeard
        BY <3>3 DEF GreetInv
      <4>2. j_submitted = j_greetings
        BY <3>1, <3>2, <4>1
      <4>3. \A u \in Submitters : In(u, j_submitted)
        BY <4>1 DEF UsersAreHeard
      <4> QED
        BY <4>2, <4>3
    <3> QED
      BY <3>1, <3>3 DEF J!GreetsWhoSubmitted, GreetInv, Submitters, In
  <2>2. J!QueriesAreCurrent
    BY DEF J!QueriesAreCurrent, QueryInv, QueryTypes, TheTwoAnswers
  <2> QED
    BY <2>1, <2>2
<1>4. Inv => J!TypeOK
  OBVIOUS
<1> HIDE DEF Inv
<1> QED
  BY <1>1, <1>2, <1>3, <1>4, PTL DEF J!Spec

-----------------------------------------------------------------------------
(* The properties of the runs that speak of several of these samples. *)

\* Prompts and greetings: none is lost, in the entity (where those that arrive
\* between two runs may overtake others), in the chat with a timeout, where each
\* keeps its turn, and in hello_signal.
THEOREM NothingIsForgotten == E!Spec /\ Q!Spec /\ J!Spec => []PromptsAreKept
<1>1. E!Spec => []E!NoPromptIsLost
  BY EveryPromptIsKept, PTL
<1>2. Q!Spec => []Q!PromptsKeepTheirTurn
  BY PromptsAreAnsweredInTurn, PTL
<1>3. J!Spec => []J!GreetsWhoSubmitted
  BY MessagesReachTheResult, PTL
<1> QED
  BY <1>1, <1>2, <1>3, PTL DEF PromptsAreKept

\* Timers that signals change or end: each wakes when it was last told to.
THEOREM TimersFollowTheirSignals == T!Spec /\ Z!Spec => []SleepFollowsUpdates
BY SleepIsUpToDate, MailsAreMonthly, PTL DEF SleepFollowsUpdates

\* Answers: none is out of date, of the chatbot, of the customer service and its
\* tools, of hello_query.
THEOREM AnswersFitTheirQuestions == B!Spec /\ S!Spec /\ J!Spec => []AnswersFit
<1>1. B!Spec => []B!NoStaleAnswer
  BY NoAnswerIsStale, PTL
<1>2. S!Spec => [](S!ChatIsCoherent /\ S!FlightIsKnown)
  BY ServiceIsCoherent, PTL
<1>3. J!Spec => []J!QueriesAreCurrent
  BY MessagesReachTheResult, PTL
<1> QED
  BY <1>1, <1>2, <1>3, PTL DEF AnswersFit
=============================================================================
