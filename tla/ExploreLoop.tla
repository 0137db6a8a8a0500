----------------------------- MODULE ExploreLoop -----------------------------
(***************************************************************************)
(* The explore node as the loop it is (app/graph.py, explore): ask the     *)
(* model, run the tools it asks for, hand the results back, until it asks  *)
(* for none or the budget of tool calls is spent; then, if it was still    *)
(* asking, one last call for a summary.  TurnGraph has it as one step.     *)
(*                                                                         *)
(* The conversation is kept as the messages appended to it: a reply that   *)
(* asks for tools and the message with its results carry the number of     *)
(* that reply.  A tool never throws: run_tool makes an error a result.     *)
(***************************************************************************)
EXTENDS Naturals, Sequences, FiniteSets

CONSTANTS
  Budgets,              \* config: the values of max_tool_calls
  MaxBatch              \* bound: tools one reply may ask for at once

ASSUME BudgetAssumption == Budgets \subseteq Nat /\ MaxBatch \in Nat \ {0}

VARIABLES
  maxToolCalls,         \* the budget of this run of the server
  phase,                \* where in the node we are
  calls,                \* tool calls made
  toRun,                \* tools of the last reply still to run
  asking,               \* result.tool_uses: did the last reply ask for any?
  messages,             \* what was appended to the conversation
  tokens,               \* the sum returned, at a token a reply
  findings,             \* the text handed to generate_sql
  replies               \* history: how often the model replied

vars == <<maxToolCalls, phase, calls, toRun, asking, messages, tokens,
          findings, replies>>

Message == [who : {"assistant", "results", "user"}, reply : Nat]

Text == {"unset", "findings", "no findings"}

TypeOK ==
  /\ maxToolCalls \in Budgets
  /\ phase \in {"loop", "tools", "close", "summary", "done", "failed"}
  /\ calls \in Nat
  /\ toRun \in 0..MaxBatch
  /\ asking \in BOOLEAN
  /\ messages \in Seq(Message)
  /\ tokens \in Nat
  /\ findings \in Text
  /\ replies \in Nat

Says(who, n) == [who |-> who, reply |-> n]

Init ==
  /\ maxToolCalls \in Budgets
  /\ phase = "loop"
  /\ calls = 0
  /\ toRun = 0
  /\ asking = FALSE
  /\ messages = <<Says("user", 0)>>
  /\ tokens = 0
  /\ findings = "unset"
  /\ replies = 0

-----------------------------------------------------------------------------
\* A bug: one request too many.
AskOnceMore(k) ==
  /\ phase = "loop"
  /\ calls <= maxToolCalls
  /\ replies' = replies + 1
  /\ tokens' = tokens + 1
  /\ asking' = TRUE
  /\ messages' = Append(messages, Says("assistant", replies'))
  /\ toRun' = k
  /\ phase' = "tools"
  /\ UNCHANGED <<maxToolCalls, calls, findings>>

(* The model replies and asks for k tools at once. *)
AskForTools(k) ==
  /\ phase = "loop"
  /\ calls < maxToolCalls
  /\ replies' = replies + 1
  /\ tokens' = tokens + 1
  /\ asking' = TRUE
  /\ messages' = Append(messages, Says("assistant", replies'))
  /\ toRun' = k
  /\ phase' = "tools"
  /\ UNCHANGED <<maxToolCalls, calls, findings>>

(* It asks for none: its text is the findings, unless it is empty. *)
Conclude(text) ==
  /\ phase = "loop"
  /\ calls < maxToolCalls
  /\ replies' = replies + 1
  /\ tokens' = tokens + 1
  /\ asking' = FALSE
  /\ findings' = text
  /\ phase' = "close"
  /\ UNCHANGED <<maxToolCalls, calls, toRun, messages>>

\* A bug: the batch ends one tool late.
RunToolTooMany ==
  /\ phase = "tools"
  /\ calls' = calls + 1
  /\ toRun' = toRun - 1
  /\ IF toRun = 0
     THEN /\ messages' = Append(messages, Says("results", replies))
          /\ phase' = "loop"
     ELSE UNCHANGED <<messages, phase>>
  /\ UNCHANGED <<maxToolCalls, asking, tokens, findings, replies>>

(* One tool runs; the last of a batch sends the results, all together. *)
RunTool ==
  /\ phase = "tools"
  /\ calls' = calls + 1
  /\ toRun' = toRun - 1
  /\ IF toRun = 1
     THEN /\ messages' = Append(messages, Says("results", replies))
          /\ phase' = "loop"
     ELSE UNCHANGED <<messages, phase>>
  /\ UNCHANGED <<maxToolCalls, asking, tokens, findings, replies>>

\* A bug: a budget spent exactly is not taken for spent.
BudgetOverrun ==
  /\ phase = "loop"
  /\ calls > maxToolCalls
  /\ phase' = "close"
  /\ UNCHANGED <<maxToolCalls, calls, toRun, asking, messages, tokens,
                 findings, replies>>

\* The budget is spent, or there was none.
BudgetSpent ==
  /\ phase = "loop"
  /\ calls >= maxToolCalls
  /\ phase' = "close"
  /\ UNCHANGED <<maxToolCalls, calls, toRun, asking, messages, tokens,
                 findings, replies>>

\* A bug: the last reply is echoed, and its results are not.
AskForSummaryAtOnce ==
  /\ phase = "close"
  /\ asking
  /\ messages' = messages \o <<Says("assistant", replies), Says("user", 0)>>
  /\ phase' = "summary"
  /\ UNCHANGED <<maxToolCalls, calls, toRun, asking, tokens, findings,
                 replies>>

(* The model was still asking: its last reply is echoed again, its tools are
   answered with an error, and it is told to sum up. *)
AskForSummary ==
  /\ phase = "close"
  /\ asking
  /\ messages' = messages \o <<Says("assistant", replies),
                               Says("results", replies), Says("user", 0)>>
  /\ phase' = "summary"
  /\ UNCHANGED <<maxToolCalls, calls, toRun, asking, tokens, findings,
                 replies>>

\* A bug: the summary's tokens are left out of the sum.
SummariseFree(text) ==
  /\ phase = "summary"
  /\ replies' = replies + 1
  /\ findings' = text
  /\ phase' = "done"
  /\ UNCHANGED <<maxToolCalls, calls, toRun, asking, messages, tokens>>

(* The summary is asked for without tools, so the reply is text. *)
Summarise(text) ==
  /\ phase = "summary"
  /\ replies' = replies + 1
  /\ tokens' = tokens + 1
  /\ findings' = text
  /\ phase' = "done"
  /\ UNCHANGED <<maxToolCalls, calls, toRun, asking, messages>>

(* The model had concluded, or never was asked. *)
Return ==
  /\ phase = "close"
  /\ ~asking
  /\ findings' = IF findings = "unset" THEN "no findings" ELSE findings
  /\ phase' = "done"
  /\ UNCHANGED <<maxToolCalls, calls, toRun, asking, messages, tokens,
                 replies>>

(* The model call throws, and the turn with it. *)
Throw ==
  /\ \/ phase = "loop" /\ calls < maxToolCalls
     \/ phase = "summary"
  /\ phase' = "failed"
  /\ UNCHANGED <<maxToolCalls, calls, toRun, asking, messages, tokens,
                 findings, replies>>

Replies == {"findings", "no findings"}

Step ==
  \/ \E k \in 1..MaxBatch : AskForTools(k)
  \/ \E text \in Replies : Conclude(text)
  \/ RunTool
  \/ BudgetSpent
  \/ AskForSummary
  \/ \E text \in Replies : Summarise(text)
  \/ Return

Finished == phase \in {"done", "failed"} /\ UNCHANGED vars

Next == Step \/ Throw \/ Finished

Spec == Init /\ [][Next]_vars

(* Model calls and tools have timeouts, and the node is awaited. *)
FairSpec == Spec /\ WF_vars(Step)

-----------------------------------------------------------------------------
(* Properties. *)

(* "What makes T1's cost a known quantity": whatever the model asks for, it
   is called at most once more than the budget, and the tools overrun the
   budget by less than one batch. *)
CostIsKnown ==
  /\ replies <= maxToolCalls + 1
  /\ calls < maxToolCalls + MaxBatch

(* The bound as the docstring has it.  A batch is not cut short at the
   budget, so it is false. *)
BoundedByMaxToolCalls == calls <= maxToolCalls

(* Whenever the model is called, every tool it ever asked for was answered in
   the message right after the request, as both wire formats demand. *)
RequestsAreAnswered ==
  phase \in {"loop", "summary"} =>
    \A i \in DOMAIN messages :
      messages[i].who = "assistant" =>
        /\ i < Len(messages)
        /\ messages[i + 1] = Says("results", messages[i].reply)

(* What TurnGraph takes for granted of the step it has instead: the node
   returns its findings and the cost of every reply, no reply uncounted, and
   "no findings" without a reply only where there is no budget. *)
ReturnsItsCost ==
  phase = "done" =>
    /\ tokens = replies
    /\ findings # "unset"
    /\ replies = 0 => maxToolCalls = 0 /\ findings = "no findings"

(* The loop ends, even with a model that never stops asking. *)
LoopEnds == <>(phase \in {"done", "failed"})

=============================================================================
