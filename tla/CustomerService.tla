--------------------------- MODULE CustomerService ---------------------------
(***************************************************************************)
(* openai_agents/customer_service: CustomerServiceWorkflow.  A client      *)
(* queries the printed history and sends its next message with the length  *)
(* it has seen; the validator refuses it when the history has grown since. *)
(* An update has the agents run: they call the model, hand the customer    *)
(* over to each other, and use tools on the context that all updates of    *)
(* the workflow share.  Messages that are empty or too long are refused    *)
(* and change nothing; none of Messages is.                                *)
(***************************************************************************)
EXTENDS Integers, Sequences

CONSTANTS
  Messages,          \* update calls, one message each
  MaxRuns            \* bound: runs of the workflow (continue-as-new)

VARIABLES
  runs,
  printed_history,   \* lines: the user's, and those of the agents' run for it
  input_items,       \* the conversation as the agents are given it
  chat_length,       \* what a client had seen when it sent its message
  status,            \* how far a message has come
  runner_input,      \* what Runner.run was given for it
  current_agent,     \* who will be given the next message
  agent,             \* who has the customer, in the agents' run for a message
  context            \* which fields of the AirlineAgentContext are set

vars == <<runs, printed_history, input_items, chat_length, status, runner_input,
          current_agent, agent, context>>
agentVars == <<current_agent, agent, context>>

Line == [by : {"user", "agent"}, of : Messages]
all_handlers_finished == \A m \in Messages : status[m] # "running"

Init ==
  /\ runs = 1
  /\ printed_history = <<>> /\ input_items = <<>>
  /\ chat_length = [m \in Messages |-> 0]
  /\ status = [m \in Messages |-> "unsent"]
  /\ runner_input = [m \in Messages |-> <<>>]
  /\ current_agent = "Triage" /\ agent = [m \in Messages |-> "Triage"] /\ context = {}

-----------------------------------------------------------------------------
\* A client has loaded the history and sends a message.
Send(m) ==
  /\ status[m] = "unsent"
  /\ chat_length' = [chat_length EXCEPT ![m] = Len(printed_history)]
  /\ status' = [status EXCEPT ![m] = "sent"]
  /\ UNCHANGED <<runs, printed_history, input_items, runner_input, agentVars>>

Fresh(m) == chat_length[m] = Len(printed_history)

\* The validator and, up to Runner.run, the handler.
Reject(m) ==
  /\ status[m] = "sent" /\ ~Fresh(m)
  /\ status' = [status EXCEPT ![m] = "rejected"]
  /\ UNCHANGED <<runs, printed_history, input_items, chat_length, runner_input, agentVars>>

ProcessUserMessage(m) ==
  /\ status[m] = "sent" /\ Fresh(m)
  /\ printed_history' = Append(printed_history, [by |-> "user", of |-> m])
  /\ input_items' = Append(input_items, m)
  /\ runner_input' = [runner_input EXCEPT ![m] = input_items']
  /\ status' = [status EXCEPT ![m] = "running"]
  /\ agent' = [agent EXCEPT ![m] = current_agent]
  /\ UNCHANGED <<runs, chat_length, current_agent, context>>

handoffs == [a \in {"Triage", "FAQ", "Seat Booking"} |->
               IF a = "Triage" THEN {"FAQ", "Seat Booking"} ELSE {"Triage"}]

\* on_seat_booking_handoff.
Handoff(m) ==
  /\ status[m] = "running"
  /\ \E a \in handoffs[agent[m]] :
       /\ agent' = [agent EXCEPT ![m] = a]
       /\ context' = IF a = "Seat Booking" THEN context \cup {"flight_number"} ELSE context
  /\ UNCHANGED <<runs, printed_history, input_items, chat_length, status, runner_input,
                 current_agent>>

\* The fields are set before the assertion; that it raises only tells the model.
update_seat(m) ==
  /\ status[m] = "running" /\ agent[m] = "Seat Booking"
  /\ context' = context \cup {"confirmation_number", "seat_number"}
  /\ UNCHANGED <<runs, printed_history, input_items, chat_length, status, runner_input,
                 current_agent, agent>>

\* Runner.run returns: its lines are printed, and its own view of the
\* conversation replaces input_items.  (What agent[m] is no longer matters.)
Processed(m) ==
  /\ status[m] = "running"
  /\ printed_history' = Append(printed_history, [by |-> "agent", of |-> m])
  /\ input_items' = runner_input[m]
  /\ status' = [status EXCEPT ![m] = "done"]
  /\ current_agent' = agent[m] /\ agent' = [agent EXCEPT ![m] = "Triage"]
  /\ UNCHANGED <<runs, chat_length, runner_input, context>>

\* The model's activity fails: so does the update.
RunnerFails(m) ==
  /\ status[m] = "running"
  /\ status' = [status EXCEPT ![m] = "failed"]
  /\ agent' = [agent EXCEPT ![m] = "Triage"]
  /\ UNCHANGED <<runs, printed_history, input_items, chat_length, runner_input,
                 current_agent, context>>

\* The state is handed on whole.  An update not handled yet goes to the next
\* run.
ContinueAsNew ==
  /\ runs < MaxRuns /\ all_handlers_finished
  /\ runs' = runs + 1
  /\ UNCHANGED <<printed_history, input_items, chat_length, status, runner_input, agentVars>>

-----------------------------------------------------------------------------
Handler(m) == Reject(m) \/ ProcessUserMessage(m) \/ Processed(m) \/ RunnerFails(m)
Runner(m) == Handoff(m) \/ update_seat(m)
Next == ContinueAsNew \/ \E m \in Messages : Send(m) \/ Handler(m) \/ Runner(m)

Fairness == \A m \in Messages : WF_vars(Handler(m))
Spec == Init /\ [][Next]_vars /\ Fairness

-----------------------------------------------------------------------------
(* Properties *)

\* Every variable has its type, and the agents always see the message they are
\* to answer.
TypeOK ==
  /\ runs \in 1 .. MaxRuns
  /\ printed_history \in Seq(Line)
  /\ input_items \in Seq(Messages)
  /\ chat_length \in [Messages -> Nat]
  /\ status \in [Messages -> {"unsent", "sent", "rejected", "running", "done", "failed"}]
  /\ runner_input \in [Messages -> Seq(Messages)]
  /\ current_agent \in DOMAIN handoffs /\ agent \in [Messages -> DOMAIN handoffs]
  /\ context \subseteq {"flight_number", "confirmation_number", "seat_number"}
  /\ \A m \in Messages : status[m] = "running" => \E i \in DOMAIN runner_input[m] :
                                                     runner_input[m][i] = m

\* A message that is not refused stands in the history directly after what its
\* sender had seen, whatever others send meanwhile and in later runs, and what
\* the agents answered stands after it.
ChatIsCoherent ==
  \A m \in Messages :
    LET place == chat_length[m] + 1 IN
    status[m] \in {"running", "done", "failed"} =>
      /\ place \in DOMAIN printed_history
      /\ printed_history[place] = [by |-> "user", of |-> m]
      /\ status[m] = "done" => \E i \in DOMAIN printed_history :
           i > place /\ printed_history[i] = [by |-> "agent", of |-> m]

\* Whoever is handed to the seat booking agent, in this update, an earlier one
\* or another that runs meanwhile, has a flight number: the assertion of
\* update_seat never fails, in later runs of the workflow either.
FlightIsKnown ==
  /\ current_agent = "Seat Booking" \/ "seat_number" \in context
       => "flight_number" \in context
  /\ \A m \in Messages : status[m] = "running" /\ agent[m] = "Seat Booking"
       => "flight_number" \in context

\* Every message is answered or refused.
MessageIsAnswered ==
  \A m \in Messages : status[m] = "sent" ~> status[m] \in {"rejected", "done", "failed"}
=============================================================================
