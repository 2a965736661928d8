---------------------------- MODULE Conversation ----------------------------
(***************************************************************************)
(* The history of one conversation: the agents that extend it message by   *)
(* message, shorten it and save it, in both modes (EcomAgent, the          *)
(* MultiAgentOrchestrator with its sub-agents) and both lives (the web's   *)
(* agent of one request, the command line's agent of many turns).          *)
(*                                                                         *)
(* A message is its role and, for an assistant's message with tool_calls,  *)
(* how many it calls; its text is left out.  An exception ends a web agent *)
(* with its request; the command line's loop catches it and goes on with   *)
(* the history as the exception left it.  A tool never raises              *)
(* (_execute_logged answers every exception with a result).  Saving is     *)
(* atomic here, as with the SQL repository, or with one writer at a time   *)
(* on the JSON file.  What plans do is PlanRun's; here a plan gives a text *)
(* or an exception.  Runs of the queue save through RunQueue.              *)
(***************************************************************************)
EXTENDS Integers, Sequences, FiniteSets

CONSTANTS Agents,       \* processes that open the conversation
          MaxSteps,     \* max_react_steps
          MaxCalls,     \* bound: tool calls of one answer of the model
          Threshold,    \* history_threshold
          Keep,         \* history_keep_recent
          MaxMessages   \* bound: messages an agent starts a turn with

VARIABLES session,      \* the stored conversation
          ag            \* the agents' own state

vars == <<session, ag>>

-----------------------------------------------------------------------------
Message(role) == [role |-> role, calls |-> 0]

Calling(k) == [role |-> "assistant", calls |-> k]

NoSession == [messages |-> <<>>, summary |-> FALSE]

NoAgent == [pc |-> "none", life |-> "web", mode |-> "single", raw |-> <<>>,
            new |-> <<>>, summary |-> FALSE, plan |-> "none", steps |-> 0, left |-> 0]

Init ==
    /\ session = NoSession
    /\ ag = [a \in Agents |-> NoAgent]

(***************************************************************************)
(* What save() stores of an agent that holds the messages raw.             *)
(***************************************************************************)
Saved(a, raw) == [messages |-> raw, summary |-> ag[a].summary]

(***************************************************************************)
(* Where a turn that answered, or raised, leaves its agent: the web's is   *)
(* gone, the command line's waits for the next input with its history; a   *)
(* sub-agent's new messages are a local list and are lost.                 *)
(***************************************************************************)
Left(a, raw) ==
    IF ag[a].life = "cli" THEN [ag[a] EXCEPT !.pc = "idle", !.raw = raw, !.new = <<>>,
                                    !.steps = 0, !.left = 0]
                 ELSE NoAgent

(***************************************************************************)
(* The messages a step of the ReAct loop extends: the agent's own history, *)
(* or the sub-agent's list of new messages.                                *)
(***************************************************************************)
Extended(a, m) ==
    IF ag[a].mode = "multi" THEN [ag[a] EXCEPT !.new = Append(@, m)]
                   ELSE [ag[a] EXCEPT !.raw = Append(@, m)]

\* _build_messages: what is sent to the model after the system prompts
Sent(a) == ag[a].raw \o ag[a].new

\* the text that ends a strategy: the sub-agent's list joins the history
Answered(a) ==
    [ag[a] EXCEPT !.raw = Append(Sent(a), Message("assistant")), !.new = <<>>,
                  !.pc = "finalize", !.steps = 0]

-----------------------------------------------------------------------------
(***************************************************************************)
(* A new agent: _restore_session, and the latest plan as its store has it.  *)
(***************************************************************************)
Open(a) ==
    /\ ag[a].pc = "none"
    /\ \E p \in {"none", "awaiting", "running"}, l \in {"web", "cli"},
          m \in {"single", "multi"} :
         ag' = [ag EXCEPT ![a] = [NoAgent EXCEPT !.pc = "idle", !.raw = session.messages,
                                                 !.life = l, !.mode = m,
                                                 !.summary = session.summary,
                                                 !.plan = p]]
    /\ UNCHANGED session

(***************************************************************************)
(* An input the guardrails refuse: the turn ends and nothing is recorded.  *)
(***************************************************************************)
Block(a) ==
    /\ ag[a].pc = "idle"
    /\ ag' = [ag EXCEPT ![a] = Left(a, ag[a].raw)]
    /\ UNCHANGED session

(***************************************************************************)
(* _handle_action_input answered a confirmation or a rejection itself; a   *)
(* rejection also cancels the pending plan, and saves before the messages. *)
(***************************************************************************)
Settle(a) ==
    LET raw == ag[a].raw \o <<Message("user"), Message("assistant")>> IN
    /\ ag[a].pc = "idle"
    /\ Len(ag[a].raw) <= MaxMessages
    /\ session' = Saved(a, raw)
    /\ \E p \in {ag[a].plan, "none"} :
         ag' = [ag EXCEPT ![a] = IF ag[a].life = "cli" THEN [Left(a, raw) EXCEPT !.plan = p]
                                              ELSE NoAgent]

(***************************************************************************)
(* chat records the question, then looks at the plan the session has: a    *)
(* confirmation resumes a pending plan and is told off when the plan is    *)
(* already running; anything else cancels a pending one, which saves       *)
(* unless it has ended meanwhile, and goes to the strategy selected.       *)
(***************************************************************************)
Ask(a) ==
    LET asked == [ag[a] EXCEPT !.raw = Append(@, Message("user"))]
        Become(to) == ag' = [ag EXCEPT ![a] = to]
        Select == \E pc \in {"plan", "react"} : Become([asked EXCEPT !.pc = pc, !.plan = "none"])
    IN
    /\ ag[a].pc = "idle"
    /\ Len(ag[a].raw) <= MaxMessages
    /\ \/ /\ ag[a].plan = "awaiting"
          /\ Become([asked EXCEPT !.pc = "resume"])
          /\ UNCHANGED session
       \/ /\ ag[a].plan = "awaiting"
          /\ Select
          /\ session' \in {Saved(a, asked.raw), session}
       \/ /\ ag[a].plan = "running"
          /\ Become([asked EXCEPT !.raw = Append(@, Message("assistant")), !.pc = "finalize"])
          /\ UNCHANGED session
       \/ /\ ag[a].plan # "awaiting"
          /\ Select
          /\ UNCHANGED session

(***************************************************************************)
(* _resume_pending_plan and _finish_invalid_plan: the consumed             *)
(* confirmation is saved first; then the plan's text is appended, or a     *)
(* text that says why it cannot go on.                                     *)
(***************************************************************************)
Resume(a) ==
    /\ ag[a].pc = "resume"
    /\ session' = Saved(a, ag[a].raw)
    /\ ag' = [ag EXCEPT ![a] = [ag[a] EXCEPT !.plan = "running", !.pc = "resumed"]]

ResumeEnds(a) ==
    /\ ag[a].pc = "resumed"
    /\ \E p \in {"none", "awaiting"} :
         ag' = [ag EXCEPT ![a] = [Answered(a) EXCEPT !.plan = p]]
    /\ UNCHANGED session

(***************************************************************************)
(* _plan_execute_loop: the plan's text, or the ReAct loop instead.         *)
(***************************************************************************)
PlanExecute(a) ==
    /\ ag[a].pc = "plan"
    /\ \/ \E p \in {"none", "awaiting"} :
            ag' = [ag EXCEPT ![a] = [Answered(a) EXCEPT !.plan = p]]
       \/ ag' = [ag EXCEPT ![a].pc = "react"]
    /\ UNCHANGED session

(***************************************************************************)
(* _react_loop and SubAgent.handle.  The model answers with a text, or,    *)
(* while steps are left, with tool calls; the last call has no tools.      *)
(***************************************************************************)
React(a) ==
    /\ ag[a].pc = "react"
    /\ \/ ag' = [ag EXCEPT ![a] = Answered(a)]
       \/ /\ ag[a].steps < MaxSteps
          /\ \E k \in 1..MaxCalls :
               ag' = [ag EXCEPT ![a] = [Extended(a, Calling(k)) EXCEPT
                                          !.pc = "tools", !.left = k, !.steps = @ + 1]]
    /\ UNCHANGED session

\* one tool of the answer's, whose result is the next message
Tool(a) ==
    /\ ag[a].pc = "tools"
    /\ ag' = [ag EXCEPT ![a] = [Extended(a, Message("tool")) EXCEPT
                                  !.left = @ - 1,
                                  !.pc = IF ag[a].left = 1 THEN "react" ELSE "tools"]]
    /\ UNCHANGED session

(***************************************************************************)
(* _finalize_turn up to the structured answer; what it and the short-term  *)
(* memory extract from the last messages is left out.                      *)
(***************************************************************************)
Finalize(a) ==
    /\ ag[a].pc = "finalize"
    /\ ag' = [ag EXCEPT ![a] = [ag[a] EXCEPT !.pc = "save",
                                             !.raw = Append(@, Message("assistant"))]]
    /\ UNCHANGED session

(***************************************************************************)
(* _compress_history: the place to cut goes back while a tool's result     *)
(* would come first; what is before it is summarised.                      *)
(***************************************************************************)
\* (mutant of Split: the history is cut wherever the count falls)
SplitByCount(raw) == IF Len(raw) > Keep THEN Len(raw) - Keep ELSE 0

Split(raw) ==
    CHOOSE p \in 0..(Len(raw) - Keep) :
        /\ p = 0 \/ raw[p + 1].role # "tool"
        /\ \A q \in (p + 1)..(Len(raw) - Keep) : raw[q + 1].role = "tool"

Compressed(m) ==
    LET p == Split(m.raw) IN
    IF Len(m.raw) <= Threshold \/ Len(m.raw) <= Keep \/ p = 0 THEN m
    ELSE [m EXCEPT !.raw = SubSeq(@, p + 1, Len(@)), !.summary = TRUE]

\* the end of _finalize_turn: shorten the history, save it, answer
Save(a) ==
    LET m == Compressed(ag[a]) IN
    /\ ag[a].pc = "save"
    /\ session' = [messages |-> m.raw, summary |-> m.summary]
    /\ ag' = [ag EXCEPT ![a] = IF ag[a].life = "cli" THEN [m EXCEPT !.pc = "idle"] ELSE NoAgent]

(***************************************************************************)
(* A call of the model raises: when it plans, reasons, extracts the        *)
(* answer, or summarises a history that is long enough for it.             *)
(***************************************************************************)
\* (mutant of Raises: a tool of the answer's may raise)
RaisesInTools(a) ==
    ag[a].pc \in {"resumed", "react", "tools", "finalize"}

Raises(a) ==
    \/ ag[a].pc \in {"resumed", "react", "finalize"}
    \/ ag[a].pc = "save" /\ Len(ag[a].raw) > Threshold

Raise(a) ==
    /\ Raises(a)
    /\ ag' = [ag EXCEPT ![a] = Left(a, ag[a].raw)]
    /\ UNCHANGED session

\* the process, or the run it works for, is stopped between two steps
Stop(a) ==
    /\ ag[a].pc # "none"
    /\ ag' = [ag EXCEPT ![a] = NoAgent]
    /\ UNCHANGED session

(***************************************************************************)
(* quit: save, then close(); the long-term memory it writes is a file of   *)
(* the customer's and no part of the history.                              *)
(***************************************************************************)
Quit(a) ==
    /\ ag[a].life = "cli"
    /\ ag[a].pc = "idle"
    /\ session' = Saved(a, ag[a].raw)
    /\ ag' = [ag EXCEPT ![a] = NoAgent]

\* reset: the history, its summary and the stored conversation
Reset(a) ==
    /\ ag[a].life = "cli"
    /\ ag[a].pc = "idle"
    /\ ag' = [ag EXCEPT ![a] = [NoAgent EXCEPT !.pc = "idle", !.life = "cli",
                                            !.mode = ag[a].mode]]
    /\ session' = NoSession

Next ==
    \E a \in Agents :
        \/ Open(a) \/ Block(a) \/ Settle(a) \/ Ask(a) \/ Resume(a) \/ ResumeEnds(a)
        \/ PlanExecute(a) \/ React(a) \/ Tool(a) \/ Finalize(a) \/ Save(a)
        \/ Raise(a) \/ Stop(a) \/ Quit(a) \/ Reset(a)

Spec == Init /\ [][Next]_vars

-----------------------------------------------------------------------------
Messages == {Message(r) : r \in {"user", "assistant", "tool"}}
                \cup {Calling(k) : k \in 1..MaxCalls}

TypeOK ==
    /\ session \in [messages : Seq(Messages), summary : BOOLEAN]
    /\ \A a \in Agents :
         /\ ag[a].pc \in {"none", "idle", "resume", "resumed", "plan", "react", "tools",
                          "finalize", "save"}
         /\ ag[a].raw \in Seq(Messages) /\ ag[a].new \in Seq(Messages)
         /\ ag[a].steps \in 0..MaxSteps /\ ag[a].left \in 0..MaxCalls

(***************************************************************************)
(* A history the model's protocol accepts: the results of every message    *)
(* with tool calls follow it directly, one for each call, and no result    *)
(* stands anywhere else.                                                   *)
(***************************************************************************)
WellFormed(s) ==
    \A i \in DOMAIN s :
        /\ s[i].calls > 0 =>
             \A j \in (i + 1)..(i + s[i].calls) : j \in DOMAIN s /\ s[j].role = "tool"
        /\ s[i].role = "tool" => \E j \in 1..(i - 1) : s[j].calls >= i - j

(***************************************************************************)
(* Whatever turns succeeded, raised half-way or were stopped, and wherever *)
(* the history was shortened, what an agent sends to the model in its      *)
(* ReAct loop and what is stored for the next agent pair every tool call   *)
(* with its results (_compress_history, _react_loop, main.py's except).    *)
(***************************************************************************)
HistoryIsWellFormed ==
    /\ WellFormed(session.messages)
    /\ \A a \in Agents : ag[a].pc \in {"react", "idle", "finalize"} => WellFormed(Sent(a))

=============================================================================
