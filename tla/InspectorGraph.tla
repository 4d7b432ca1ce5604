--------------------------- MODULE InspectorGraph ---------------------------
(***************************************************************************)
(* One conversation thread of the inspector: the LangGraph state machine   *)
(*                                                                         *)
(*   START -> wiki_reader -> planner -> executor -> formatter -> planner   *)
(*                              \-> wiki_writer -> reflector -> END        *)
(*                                                                         *)
(* that src/src/graph.py assembles, run once for every question asked in   *)
(* the thread.  The checkpointer keeps the thread's state from one run to  *)
(* the next, and a run may stop between any two supersteps: the language   *)
(* model raises, the browser goes away, the process dies.                  *)
(*                                                                         *)
(* Data are abstracted to what the properties tell apart.  A tool call is  *)
(* its id (a counter: back ends hand out fresh ids); what happens to it is *)
(* one of the Outcomes below; an observation is the id of the call that    *)
(* produced it; a text is the run in which it was written.                 *)
(***************************************************************************)
EXTENDS Integers, Sequences, FiniteSets, SequencesExt

CONSTANTS
  MaxToolCalls,  \* MAX_TOOL_CALLS_PER_RUN, the tool-call budget of a run
  MaxBatch,      \* bound: tool calls the model asks for in one reply
  MaxRuns,       \* bound: questions asked in the thread
  Outcomes       \* the outcomes tool calls meet in this instance

(***************************************************************************)
(* What can become of one tool call.                                       *)
(***************************************************************************)

\* Settled by the executor node: the verb validator refuses the call or no
\* such tool is mounted; or the arguments fail the tool's schema, and the
\* tool's own wrapper is never entered.
ExecutorOutcome == {"refused", "malformed"}

\* Settled inside the guarded wrapper of a Kubernetes tool: the transport
\* guard blocks the request, the API fails, or data come back.  Log reads
\* are told apart because the formatter treats them differently.
K8sOutcome == {"blocked", "blocked_log", "failed", "failed_log", "data", "log"}

\* Settled inside the wrapper of an additional tool (Trino, Jira, web, ...):
\* an unexpected exception, returned as text without an audit record.
ExtraOutcome == {"failed_silently"}

Outcome == ExecutorOutcome \union K8sOutcome \union ExtraOutcome

ASSUME GraphAssumption ==
  /\ MaxToolCalls \in Nat \ {0}
  /\ MaxBatch \in Nat \ {0}
  /\ MaxRuns \in Nat
  /\ Outcomes \subseteq Outcome

\* What the wrappers and the executor write to the audit log, and how.
Audited(o)      == o \notin {"malformed", "failed_silently"}
AuditAllowed(o) == o \in {"failed", "failed_log", "data", "log"}

\* What the executor writes to tool_trace, and whether it keeps a result.
TraceAllowed(o) == o # "refused"
TraceError(o)   == o = "malformed"
ReturnsResult(o) == o \notin ExecutorOutcome

\* Which results the formatter turns into an observation.  The log branch
\* never looks at the result, so a log read that was blocked or that failed
\* is noted as a log read all the same.
Observed(o) == o \in {"data", "log", "blocked_log", "failed_log"}

VARIABLES
  node,          \* the superstep to run next, or how the last run stopped
  run,           \* questions asked so far: the current run
  steps,         \* supersteps taken by the current run
  planned,       \* tool-call ids handed out so far
  messages,      \* channel: the thread's message history
  batch,         \* executor's locals: outcomes of the calls executed so far
  raw_results,   \* channel: results the formatter has not seen
  observations,  \* channel: observations of the run
  tool_trace,    \* channel: one entry per tool call of the run
  usage,         \* channel: planner calls of the run (usage["llm_calls"])
  final_answer,  \* channel: never reset between runs
  reported,      \* the final answer shown to the user, per run
  audit,         \* logs/audit-*.jsonl
  wiki,          \* the batches of observation lines appended to wiki pages
  session_page,  \* the run that wiki/sessions/<date>-<thread>.md describes
  learned        \* runs that left a line in wiki/lessons/<agent>.md, a file in
                 \* .agents/proposals/ or both

vars == <<node, run, steps, planned, messages, batch, raw_results, observations,
          tool_trace, usage, final_answer, reported, audit, wiki, session_page,
          learned>>

\* The channels and files that only the last two nodes touch.
results == <<final_answer, reported, wiki, session_page, learned>>

ActiveNodes  == {"wiki_reader", "planner", "executor", "formatter",
                 "wiki_writer", "reflector"}
StoppedNodes == {"idle", "END", "aborted"}

(***************************************************************************)
(* Messages.  calls is empty except for an AI message that asks for tools; *)
(* answers is the call a tool message replies to; run is the run whose     *)
(* text the message carries, 0 for a text no run wrote.                    *)
(***************************************************************************)
Message == [role : {"human", "ai", "tool"}, run : Nat, calls : Seq(Nat),
            answers : Nat, content : {"empty", "text", "cancelled"} \union Outcome]

HumanMessage(r)   == [role |-> "human", run |-> r, calls |-> <<>>,
                      answers |-> 0, content |-> "text"]
AIMessage(r, ids, text) == [role |-> "ai", run |-> r, calls |-> ids,
                            answers |-> 0, content |-> text]
ToolMessage(r, id, text) == [role |-> "tool", run |-> r, calls |-> <<>>,
                             answers |-> id, content |-> text]

LastMessage == messages[Len(messages)]

\* A run may take this many supersteps before LangGraph raises
\* GraphRecursionError.
LimitWithoutMargin == 3 * MaxToolCalls

RecursionLimit == 3 * MaxToolCalls + 12

CanStep == steps < RecursionLimit

\* planner.sanitize_history: what is sent to the model in place of the
\* stored history, every unanswered call followed by a cancellation.
Unsanitized(msgs) == msgs

Answered(msgs) == {msgs[i].answers : i \in {j \in DOMAIN msgs : msgs[j].role = "tool"}}

Cancels(m, answered) ==
  FlattenSeq([k \in DOMAIN m.calls |->
                IF m.calls[k] \in answered THEN <<>>
                ELSE <<ToolMessage(m.run, m.calls[k], "cancelled")>>])

SanitizeHistory(msgs) ==
  FlattenSeq([i \in DOMAIN msgs |-> <<msgs[i]>> \o Cancels(msgs[i], Answered(msgs))])

\* graph.route_after_planner.
RouteOffByOne(reply, trace) ==
  IF reply.calls = <<>> \/ Len(trace) > MaxToolCalls THEN "wiki_writer" ELSE "executor"

RouteAfterPlanner(reply, trace) ==
  IF reply.calls = <<>> \/ Len(trace) >= MaxToolCalls THEN "wiki_writer" ELSE "executor"

\* reflector.run_signals.
SignalsPastBudget(trace) ==
  {s \in {"budget_exhausted", "calls_rejected", "tool_errors"} :
     \/ s = "budget_exhausted" /\ Len(trace) > MaxToolCalls + 1
     \/ s = "calls_rejected" /\ \E i \in DOMAIN trace : ~trace[i].allowed
     \/ s = "tool_errors" /\ \E i \in DOMAIN trace : trace[i].error}

RunSignals(trace) ==
  {s \in {"budget_exhausted", "calls_rejected", "tool_errors"} :
     \/ s = "budget_exhausted" /\ Len(trace) >= MaxToolCalls
     \/ s = "calls_rejected" /\ \E i \in DOMAIN trace : ~trace[i].allowed
     \/ s = "tool_errors" /\ \E i \in DOMAIN trace : trace[i].error}

\* wiki_writer: the text of the last AI message that asks for no tool,
\* wherever in the thread it is; the summary of the run only if there is no
\* such message or its text is empty.
Plain(msgs) == {i \in DOMAIN msgs : msgs[i].role = "ai" /\ msgs[i].calls = <<>>}

FirstPlainAnswer(msgs, r) ==
  LET own == Plain(msgs)
      first == CHOOSE i \in own : \A j \in own : i <= j
  IN IF own # {} /\ msgs[first].content # "empty"
     THEN [run |-> msgs[first].run, kind |-> "text"]
     ELSE [run |-> r, kind |-> "summary"]

AnswerMayBeEmpty(msgs, r) ==
  LET own == Plain(msgs)
      last == CHOOSE i \in own : \A j \in own : j <= i
  IN IF own # {}
     THEN [run |-> msgs[last].run, kind |-> msgs[last].content]
     ELSE [run |-> r, kind |-> "summary"]

FinalAnswer(msgs, r) ==
  LET own == Plain(msgs)
      last == CHOOSE i \in own : \A j \in own : j <= i
  IN IF own # {} /\ msgs[last].content # "empty"
     THEN [run |-> msgs[last].run, kind |-> "text"]
     ELSE [run |-> r, kind |-> "summary"]

NoAnswer == [run |-> 0, kind |-> "none"]
Answer   == [run : Nat, kind : {"none", "text", "summary"}]

Init ==
  /\ node = "idle"
  /\ run = 0 /\ steps = 0 /\ planned = 0 /\ usage = 0
  /\ messages = <<>> /\ batch = <<>> /\ tool_trace = <<>>
  /\ raw_results = {} /\ observations = {}
  /\ final_answer = NoAnswer
  /\ reported = [r \in 1..MaxRuns |-> NoAnswer]
  /\ audit = {}
  /\ wiki = <<>> /\ session_page = 0
  /\ learned = {}

(***************************************************************************)
(* The callers: web chat and CLI start a run, /compact rewrites the        *)
(* history.  Both hold the process-wide invoke_lock, so neither happens    *)
(* while a run is active.                                                  *)
(***************************************************************************)

\* graph.stream(payload): the question is appended to the history and the
\* run begins at START, whatever the previous run had left pending.
Ask ==
  /\ node \in StoppedNodes
  /\ run < MaxRuns
  /\ run' = run + 1
  /\ messages' = Append(messages, HumanMessage(run'))
  /\ steps' = 0
  /\ node' = "wiki_reader"
  /\ UNCHANGED <<planned, batch, raw_results, observations, tool_trace, usage, audit>>
  /\ UNCHANGED results

\* compact_session: the whole history is replaced by a question and the
\* model's summary of the conversation.
Compact ==
  /\ node \in StoppedNodes
  /\ Len(messages) >= 4
  /\ messages' = <<HumanMessage(0), AIMessage(0, <<>>, "text")>>
  /\ UNCHANGED <<node, run, steps, planned, batch, raw_results, observations,
                 tool_trace, usage, audit>>
  /\ UNCHANGED results

(***************************************************************************)
(* The nodes, one superstep each.                                          *)
(***************************************************************************)

\* wiki_reader: resets the per-run channels.  raw_results and final_answer
\* are not among them.
ReaderKeepsObservations ==
  /\ node = "wiki_reader" /\ CanStep
  /\ tool_trace' = <<>> /\ usage' = 0
  /\ steps' = steps + 1
  /\ node' = "planner"
  /\ UNCHANGED <<run, planned, messages, batch, raw_results, observations, audit>>
  /\ UNCHANGED results

WikiReader ==
  /\ node = "wiki_reader" /\ CanStep
  /\ observations' = {} /\ tool_trace' = <<>> /\ usage' = 0
  /\ steps' = steps + 1
  /\ node' = "planner"
  /\ UNCHANGED <<run, planned, messages, batch, raw_results, audit>>
  /\ UNCHANGED results

\* planner and the conditional edge after it.  The model either asks for
\* some tools or answers, perhaps with an empty text.
Planner ==
  /\ node = "planner" /\ CanStep
  /\ \E k \in 0..MaxBatch, text \in {"empty", "text"} :
       LET reply == AIMessage(run, [i \in 1..k |-> planned + i], text)
       IN /\ k > 0 => text = "empty"
          /\ messages' = Append(messages, reply)
          /\ planned' = planned + k
          /\ node' = RouteAfterPlanner(reply, tool_trace)
  /\ usage' = usage + 1
  /\ steps' = steps + 1
  /\ UNCHANGED <<run, batch, raw_results, observations, tool_trace, audit>>
  /\ UNCHANGED results

\* executor, one iteration of its loop: the call is validated, executed and
\* audited.
ExecuteCall ==
  /\ node = "executor" /\ CanStep
  /\ Len(batch) < Len(LastMessage.calls)
  /\ \E o \in Outcomes :
       /\ batch' = Append(batch, o)
       /\ audit' = IF Audited(o)
                   THEN audit \union {[id |-> LastMessage.calls[Len(batch) + 1],
                                       allowed |-> AuditAllowed(o)]}
                   ELSE audit
  /\ UNCHANGED <<node, run, steps, planned, messages, raw_results, observations,
                 tool_trace, usage>>
  /\ UNCHANGED results

\* executor, its return: the tool messages, raw results and trace of the
\* whole batch reach the channels together.
TraceOf(ids) ==
  [i \in 1..Len(batch) |-> [id |-> ids[i], allowed |-> TraceAllowed(batch[i]),
                            error |-> TraceError(batch[i])]]

ExecutorReturns ==
  /\ node = "executor" /\ CanStep
  /\ Len(batch) = Len(LastMessage.calls)
  /\ LET ids == LastMessage.calls
     IN /\ messages' = messages \o [i \in 1..Len(batch) |->
                                      ToolMessage(run, ids[i], batch[i])]
        /\ raw_results' = {[id |-> ids[i], outcome |-> batch[i]] :
                             i \in {j \in 1..Len(batch) : ReturnsResult(batch[j])}}
        /\ tool_trace' = tool_trace \o TraceOf(ids)
  /\ batch' = <<>>
  /\ steps' = steps + 1
  /\ node' = "formatter"
  /\ UNCHANGED <<run, planned, observations, usage, audit>>
  /\ UNCHANGED results

\* formatter: the observations of the new results join those of the run.
FormatterForgets ==
  /\ node = "formatter" /\ CanStep
  /\ observations' = {r.id : r \in {x \in raw_results : Observed(x.outcome)}}
  /\ raw_results' = {}
  /\ steps' = steps + 1
  /\ node' = "planner"
  /\ UNCHANGED <<run, planned, messages, batch, tool_trace, usage, audit>>
  /\ UNCHANGED results

Formatter ==
  /\ node = "formatter" /\ CanStep
  /\ observations' = observations
       \union {r.id : r \in {x \in raw_results : Observed(x.outcome)}}
  /\ raw_results' = {}
  /\ steps' = steps + 1
  /\ node' = "planner"
  /\ UNCHANGED <<run, planned, messages, batch, tool_trace, usage, audit>>
  /\ UNCHANGED results

\* wiki_writer: the observations are appended to the wiki, the session page
\* of the day is rewritten, and the final answer goes out.
WikiWriter ==
  /\ node = "wiki_writer" /\ CanStep
  /\ wiki' = Append(wiki, observations)
  /\ session_page' = run
  /\ final_answer' = FinalAnswer(messages, run)
  /\ reported' = [reported EXCEPT ![run] = final_answer']
  /\ steps' = steps + 1
  /\ node' = "reflector"
  /\ UNCHANGED <<run, planned, messages, batch, raw_results, observations,
                 tool_trace, usage, audit, learned>>

\* reflector: without a signal nothing happens; with one the model may fail
\* or give a lesson, a proposal or both.
Reflector ==
  /\ node = "reflector" /\ CanStep
  /\ \/ UNCHANGED learned
     \/ /\ RunSignals(tool_trace) # {}
        /\ learned' = learned \union {run}
  /\ steps' = steps + 1
  /\ node' = "END"
  /\ UNCHANGED <<run, planned, messages, batch, raw_results, observations,
                 tool_trace, usage, audit, final_answer, reported, wiki, session_page>>

\* The run stops between two supersteps, or inside one: the executor's
\* locals are gone though its calls are audited, the wiki writer may have
\* written the observations of a prefix of the calls or all it has to write,
\* the reflector may have written the lesson.
Abort ==
  /\ node \in ActiveNodes
  /\ node' = "aborted"
  /\ batch' = <<>>
  /\ \/ UNCHANGED <<wiki, session_page, learned>>
     \/ /\ node = "wiki_writer"
        /\ \E last \in observations :
             wiki' = Append(wiki, {id \in observations : id <= last})
        /\ session_page' \in {session_page, run}
        /\ UNCHANGED learned
     \/ /\ node = "reflector" /\ RunSignals(tool_trace) # {}
        /\ learned' = learned \union {run}
        /\ UNCHANGED <<wiki, session_page>>
  /\ UNCHANGED <<run, steps, planned, messages, raw_results, observations, tool_trace,
                 usage, audit, final_answer, reported>>

Step == WikiReader \/ Planner \/ ExecuteCall \/ ExecutorReturns \/ Formatter
          \/ WikiWriter \/ Reflector

Next == Ask \/ Compact \/ Step \/ Abort

Spec == Init /\ [][Next]_vars

\* One thread drives graph.stream() until the generator is exhausted: a run
\* that is not aborted keeps taking supersteps.  Nobody has to ask, compact
\* or abort.
FairSpec == Spec /\ WF_vars(Step)

-----------------------------------------------------------------------------
(***************************************************************************)
(* Properties                                                              *)
(***************************************************************************)

TraceEntry == [id : Nat, allowed : BOOLEAN, error : BOOLEAN]

\* Every variable stays in its domain.
TypeOK ==
  /\ node \in ActiveNodes \union StoppedNodes
  /\ run \in 0..MaxRuns
  /\ node \in ActiveNodes => run \in 1..MaxRuns
  /\ steps \in Nat /\ planned \in Nat /\ usage \in Nat
  /\ messages \in Seq(Message)
  /\ batch \in Seq(Outcomes)
  /\ raw_results \in SUBSET [id : Nat, outcome : Outcomes]
  /\ observations \in SUBSET Nat
  /\ tool_trace \in Seq(TraceEntry)
  /\ final_answer \in Answer
  /\ reported \in [1..MaxRuns -> Answer]
  /\ audit \in SUBSET [id : Nat, allowed : BOOLEAN]
  /\ wiki \in Seq(SUBSET Nat)
  /\ session_page \in 0..MaxRuns
  /\ learned \in SUBSET (1..MaxRuns)

\* The recursion limit that recommended_recursion_limit derives from the
\* budget never cuts a run short: while a node is still to run, LangGraph
\* has supersteps left (graph.py:39-41).
NoRecursionError == node \in ActiveNodes => CanStep

\* No tool runs once the budget is spent, and a run exceeds the budget by
\* less than one reply's batch, which the executor carries out whole.
BudgetRespected ==
  /\ node = "executor" => Len(tool_trace) < MaxToolCalls
  /\ Len(tool_trace) < MaxToolCalls + MaxBatch

\* A history the chat back ends accept: the messages right after a reply
\* that asks for tools answer exactly its calls, and no other tool message
\* exists.
ValidHistory(h) ==
  /\ \A i \in DOMAIN h : h[i].calls # <<>> =>
       LET n == Len(h[i].calls)
       IN /\ i + n <= Len(h)
          /\ {h[i + k].answers : k \in 1..n} = ToSet(h[i].calls)
  /\ \A j \in DOMAIN h : h[j].role = "tool" =>
       \E i \in 1..(j - 1) : /\ Contains(h[i].calls, h[j].answers)
                             /\ j - i <= Len(h[i].calls)

\* Whatever earlier runs of the thread left behind (calls planned past the
\* budget, a run that died after planning, a compaction), the request the
\* planner sends is a valid history (planner.py:10-14).
RequestHistoryValid == node = "planner" => ValidHistory(SanitizeHistory(messages))

\* No observation is appended to the wiki twice, whichever runs of the
\* thread completed, stopped half-way or followed (graph.py:54-56).
RecordedOnce ==
  \A i, j \in DOMAIN wiki : i # j => wiki[i] \intersect wiki[j] = {}

\* The tool messages of the current run.
RunResults == {m \in ToSet(messages) : m.role = "tool" /\ m.run = run}

\* The calls whose results the current run can observe.
Obtained == {m.answers : m \in {x \in RunResults : Observed(x.content)}}

\* The ids on the wiki.
RecordedIds == UNION {wiki[i] : i \in DOMAIN wiki}

\* A run that reaches its end, be it by spending the budget, has every
\* observable result it obtained on the wiki (graph.py:27-28, 148).
NothingObservedIsLost ==
  node \in {"reflector", "END"} => Obtained \subseteq RecordedIds

\* A run whose last reply asks for no tool reports that reply, or its own
\* summary when the reply is empty, never the text of another run.
OwnReplyReported ==
  (node = "reflector" /\ LastMessage.calls = <<>>) =>
    reported[run] = [run  |-> run,
                     kind |-> IF LastMessage.content = "empty" THEN "summary" ELSE "text"]

\* A run that ends with tools still asked for, because the budget was
\* spent, always reaches the reflector with a signal to learn from.
BudgetStopIsASignal ==
  (node = "reflector" /\ LastMessage.calls # <<>>) => RunSignals(tool_trace) # {}

\* Every run that starts is carried to its end or is aborted: no reply of
\* the model can keep the loop going.
RunFinishes == node \in ActiveNodes ~> node \in {"END", "aborted"}

(***************************************************************************)
(* Claims of the repository that the code does not keep.                   *)
(***************************************************************************)

\* "No final answer because the budget was reached: close with a
\* deterministic summary" (wiki_writer.py:234-235): the answer a run reports
\* is its own text or its own summary.
AnswerIsOfThisRun ==
  \A r \in 1..MaxRuns : reported[r] # NoAnswer => reported[r].run = r

(***************************************************************************)
(* The inductive invariant behind the safety properties.                   *)
(***************************************************************************)

\* Where the history stands when a node runs.
HistoryInv ==
  /\ node \in ActiveNodes => messages # <<>>
  /\ node # "executor" => batch = <<>>
  /\ node = "executor" => /\ Len(LastMessage.calls) \in 1..MaxBatch
                          /\ Len(batch) <= Len(LastMessage.calls)

\* Supersteps, planner calls and tool calls advance together.
BudgetInv ==
  /\ Len(tool_trace) < MaxToolCalls + MaxBatch
  /\ node = "wiki_reader" => steps = 0
  /\ node = "planner"     => /\ steps = 3 * usage + 1
                             /\ usage <= MaxToolCalls
                             /\ usage <= Len(tool_trace)
  /\ node = "executor"    => /\ steps = 3 * usage - 1
                             /\ usage <= Len(tool_trace) + 1
                             /\ Len(tool_trace) < MaxToolCalls
  /\ node = "formatter"   => /\ steps = 3 * usage
                             /\ usage <= MaxToolCalls
                             /\ usage <= Len(tool_trace)
  /\ node = "wiki_writer" => /\ steps = 3 * usage - 1
                             /\ usage <= MaxToolCalls + 1
  /\ node = "reflector"   => /\ steps = 3 * usage
                             /\ usage <= MaxToolCalls + 1

\* How a run comes to its end: by a reply of its own that asks for no tool,
\* or with the budget spent.
ClosingInv ==
  /\ node \in {"wiki_writer", "reflector"} =>
       /\ LastMessage.role = "ai"
       /\ LastMessage.run = run
       /\ LastMessage.content \in {"empty", "text"}
       /\ LastMessage.calls # <<>> => Len(tool_trace) >= MaxToolCalls
  /\ node = "reflector" => reported[run] = FinalAnswer(messages, run)

\* No id on the wiki is one the current run can still observe.
RecordInv ==
  /\ \A i \in DOMAIN wiki : wiki[i] \subseteq 1..planned
  /\ node \in {"planner", "executor", "formatter", "wiki_writer"} =>
       /\ observations \intersect RecordedIds = {}
       /\ observations \subseteq 1..planned
  /\ node = "executor" => ToSet(LastMessage.calls) \subseteq (1..planned) \ RecordedIds
  /\ node = "formatter" => {r.id : r \in raw_results} \subseteq (1..planned) \ RecordedIds

\* Where the results of the current run are.
ObtainedInv ==
  /\ \A i \in DOMAIN messages : messages[i].run <= run
  /\ node = "wiki_reader" => Obtained = {}
  /\ node \in {"planner", "executor", "wiki_writer"} => Obtained \subseteq observations
  /\ node = "formatter" =>
       Obtained \subseteq observations
                          \union {r.id : r \in {x \in raw_results : Observed(x.outcome)}}
  /\ node \in {"reflector", "END"} => Obtained \subseteq RecordedIds

\* The stored history becomes a valid one whenever it is sanitized.  While a
\* batch runs the same holds without the reply that asked for it, whose
\* calls are its own and have no answer yet.
RequestInv ==
  /\ \A i \in DOMAIN messages : ToSet(messages[i].calls) \subseteq 1..planned
  /\ Answered(messages) \subseteq 1..planned
  /\ ValidHistory(SanitizeHistory(messages))
  /\ node = "executor" =>
       /\ LastMessage.role = "ai"
       /\ ToSet(LastMessage.calls) \intersect Answered(messages) = {}
       /\ \A i \in 1..(Len(messages) - 1) :
            ToSet(messages[i].calls) \intersect ToSet(LastMessage.calls) = {}
       /\ ValidHistory(SanitizeHistory(Front(messages)))

IndInv == TypeOK /\ HistoryInv /\ BudgetInv /\ ClosingInv /\ RecordInv /\ RecordedOnce
            /\ ObtainedInv /\ RequestInv

=============================================================================
