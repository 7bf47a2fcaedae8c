------------------------------ MODULE ToolLoop ------------------------------
(***************************************************************************)
(* direct_tool_loop: the agent asks the model, runs the tools it calls,    *)
(* shows it the results and asks again, until it answers, repeats itself,  *)
(* runs out of iterations or is cancelled by another thread.  Messages     *)
(* are seen only as tool exchanges: an assistant message with its calls    *)
(* and how many of them have a tool message behind it.  A tool result is   *)
(* an observation, what the repetition counters compare: the tool, its     *)
(* arguments and its text, and whether it is a failure.                    *)
(***************************************************************************)
EXTENDS Naturals, Sequences, FiniteSets

CONSTANTS
    MaxIterations,    \* max_iterations, at least one
    MaxToolsPerCycle, \* max_tools_per_cycle, at least two
    MaxCalls,         \* calls the model may make in one message
    Keys              \* distinct tool results

RepeatLimit == 3

ASSUME LimitsAssumption ==
    /\ MaxIterations \in Nat \ {0}
    /\ MaxToolsPerCycle \in Nat /\ MaxToolsPerCycle >= 2
    /\ MaxCalls \in Nat \ {0}

Observations == [failed : BOOLEAN, key : Keys]
Exchanges    == { e \in [calls : 1..MaxCalls, answered : 0..MaxCalls] : e.answered <= e.calls }

VARIABLES
    pc,        \* "top", "model", "dispatch", "tools", "summary", "returned", "raised"
    iteration,
    exchange,  \* the tool exchanges of this turn in messages
    counts,    \* failure_counts and success_counts
    ran,       \* how often each result was produced, counted or not (history)
    made,      \* the collector holds an artifact
    cancelled, \* cancel_event, set by the request's handler
    status,    \* terminal_status
    outcome    \* of the AgentResponse

vars == <<pc, iteration, exchange, counts, ran, made, cancelled, status, outcome>>

Init ==
    /\ pc = "top"
    /\ iteration = 0
    /\ exchange = <<>>
    /\ counts = [o \in Observations |-> 0]
    /\ ran = [o \in Observations |-> 0]
    /\ made = FALSE
    /\ cancelled = FALSE
    /\ status = "success"
    /\ outcome = "none"

Return(how) == pc' = "returned" /\ outcome' = how

\* _cancelled_agent_response
ReturnCancelled ==
    /\ Return("cancelled")
    /\ UNCHANGED <<iteration, exchange, counts, ran, made, cancelled, status>>

Complete(e) == e.answered = e.calls

\* _drop_invalid_tool_call_sequences keeps the complete exchanges, in order:
\* those of the only increasing numbering of their indexes.
Whole ==
    LET complete   == { i \in DOMAIN exchange : Complete(exchange[i]) }
        numberings == { f \in [1..Cardinality(complete) -> complete] :
                            \A i, j \in DOMAIN f : i < j => f[i] < f[j] }
    IN { [i \in DOMAIN f |-> exchange[f[i]]] : f \in numberings }

\* trim_context_messages: the exchanges of the turn are kept, whole groups
\* only, or all of them are given up for the bare question.
Trimmed == {exchange, <<>>} \union Whole

\* A new iteration: the check, then the prompt goes to the model.
AskModel ==
    /\ pc = "top" /\ iteration < MaxIterations /\ ~cancelled
    /\ exchange' \in Trimmed
    /\ iteration' = iteration + 1
    /\ pc' = "model"
    /\ UNCHANGED <<counts, ran, made, cancelled, status, outcome>>

CancelledAtTop ==
    /\ pc = "top" /\ iteration < MaxIterations /\ cancelled
    /\ ReturnCancelled

\* for/else: the iterations are used up.
Exhausted ==
    /\ pc = "top" /\ iteration = MaxIterations
    /\ status' = "failed"
    /\ pc' = "summary"
    /\ UNCHANGED <<iteration, exchange, counts, ran, made, cancelled, outcome>>

\* The model cannot be reached; another exception leaves the loop.
ModelUnreachable ==
    /\ pc = "model"
    /\ Return(IF made THEN "partial" ELSE "unavailable")
    /\ UNCHANGED <<iteration, exchange, counts, ran, made, cancelled, status>>

ModelRaises ==
    /\ pc = "model"
    /\ pc' = "raised"
    /\ UNCHANGED <<iteration, exchange, counts, ran, made, cancelled, status, outcome>>

CancelledAfterModel ==
    /\ pc = "model" /\ cancelled
    /\ ReturnCancelled

ModelAnswers ==
    /\ pc = "model" /\ ~cancelled
    /\ Return(status)
    /\ UNCHANGED <<iteration, exchange, counts, ran, made, cancelled, status>>

\* The model calls tools, in tool_calls or as text.
ModelCalls(n) ==
    /\ pc = "model" /\ ~cancelled
    /\ exchange' = Append(exchange, [calls |-> n, answered |-> 0])
    /\ pc' = "dispatch"
    /\ UNCHANGED <<iteration, counts, ran, made, cancelled, status, outcome>>

Dispatch ==
    /\ pc = "dispatch" /\ ~cancelled
    /\ pc' = "tools"
    /\ UNCHANGED <<iteration, exchange, counts, ran, made, cancelled, status, outcome>>

CancelledAtDispatch ==
    /\ pc = "dispatch" /\ cancelled
    /\ ReturnCancelled

-----------------------------------------------------------------------------
(* A batch of tools: executable_calls run, the calls above the limit are   *)
(* answered with a notice.                                                 *)

Last(s)  == s[Len(s)]
Batch    == IF Last(exchange).calls < MaxToolsPerCycle THEN Last(exchange).calls
            ELSE MaxToolsPerCycle

\* How often o has been seen once the first k results are counted.
Tally(results, k, o) ==
    counts[o] + Cardinality({ i \in DOMAIN results : i <= k /\ results[i] = o })

\* How often the batch produced o, read or not.
Produced(results, o) == Cardinality({ i \in DOMAIN results : results[i] = o })

RepeatsLater(results, k) == Tally(results, k, results[k]) > RepeatLimit
Repeats(results, k) == Tally(results, k, results[k]) >= RepeatLimit

\* The results are read in order up to the first repetition that is one too
\* many: the rest of the batch gets no tool message.
ReadUpTo(results) ==
    { k \in 1..Len(results) :
        /\ k = Len(results) \/ Repeats(results, k)
        /\ \A i \in 1..(k - 1) : ~Repeats(results, i) }

DropSkipped(n) == 0
Skipped(n)     == n - Batch

FinishTools(results) ==
    /\ pc = "tools"
    /\ made' \in {made, TRUE}
    /\ \E k \in ReadUpTo(results) :
         /\ counts' = [o \in Observations |-> Tally(results, k, o)]
         /\ ran' = [o \in Observations |-> ran[o] + Produced(results, o)]
         /\ exchange' = [exchange EXCEPT ![Len(exchange)].answered =
                                k + Skipped(Last(exchange).calls)]
         /\ IF Repeats(results, k)
            THEN /\ pc' = "summary"
                 /\ status' = IF results[k].failed THEN "partial" ELSE "failed"
            ELSE pc' = "top" /\ UNCHANGED status
    /\ UNCHANGED <<iteration, cancelled, outcome>>

\* A result that is not success but comes with artifacts is partial.
PlainOutcome == status
FinalOutcome == IF status \in {"unavailable", "failed"} /\ made THEN "partial" ELSE status

\* The summary request; whether it fails or not, the loop returns.
Summarize ==
    /\ pc = "summary"
    /\ Return(FinalOutcome)
    /\ UNCHANGED <<iteration, exchange, counts, ran, made, cancelled, status>>

\* cancel_event.set(): the client left or the deadline passed.
Cancel ==
    /\ ~cancelled
    /\ cancelled' = TRUE
    /\ UNCHANGED <<pc, iteration, exchange, counts, ran, made, status, outcome>>

Loop ==
    \/ AskModel \/ CancelledAtTop \/ Exhausted
    \/ ModelUnreachable \/ ModelRaises \/ CancelledAfterModel \/ ModelAnswers
    \/ \E n \in 1..MaxCalls : ModelCalls(n)
    \/ Dispatch \/ CancelledAtDispatch
    \/ pc = "tools" /\ \E results \in [1..Batch -> Observations] : FinishTools(results)
    \/ Summarize

Next == Loop \/ Cancel

Spec == Init /\ [][Next]_vars

-----------------------------------------------------------------------------
(* Properties                                                              *)

Statuses == {"success", "partial", "unavailable", "failed"}

TypeOK ==
    /\ pc \in {"top", "model", "dispatch", "tools", "summary", "returned", "raised"}
    /\ iteration \in 0..MaxIterations
    /\ exchange \in Seq(Exchanges)
    /\ counts \in [Observations -> Nat]
    /\ ran \in [Observations -> Nat]
    /\ made \in BOOLEAN
    /\ cancelled \in BOOLEAN
    /\ status \in Statuses
    /\ outcome \in Statuses \union {"none", "cancelled"}

WellFormed == \A i \in DOMAIN exchange : Complete(exchange[i])

\* Whatever was skipped, trimmed or failed, a prompt of the loop holds a tool
\* message for every tool call it shows; providers refuse anything else.
PromptsWellFormed == pc \in {"top", "model"} => WellFormed

\* The model is never asked again once some result has come back the same
\* three times, even when one batch brings it several times at once.  The calls
\* of a batch have all run before their results are counted (lines 1226 to
\* 1259), so a result may be produced more often than that, but no more often
\* than one batch above the two that are tolerated.
NoFourthRepeat ==
    /\ pc \in {"top", "model", "dispatch", "tools"} =>
           \A o \in Observations : counts[o] < RepeatLimit
    /\ \A o \in Observations : ran[o] <= RepeatLimit - 1 + MaxToolsPerCycle

\* The outcome says what the user gets: artifacts are never delivered as a
\* failed or unavailable answer, "cancelled" only after a cancel, and
\* "success" only for an answer the model gave of its own accord.
OutcomeIsHonest ==
    pc = "returned" =>
        /\ outcome \in {"failed", "unavailable"} => ~made
        /\ outcome = "cancelled" => cancelled
        /\ outcome = "success" => \A o \in Observations : counts[o] < RepeatLimit
        /\ outcome = "partial" /\ ~made =>
               \E o \in Observations : o.failed /\ counts[o] >= RepeatLimit

=============================================================================
