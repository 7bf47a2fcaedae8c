---------------------------- MODULE QueryStream -----------------------------
(***************************************************************************)
(* One streamed query: QueryExecutionService.stream_events with its four   *)
(* actors.  The worker thread runs the agent and posts callbacks to the    *)
(* event loop; run_agent waits for it under a deadline, saves the turn and *)
(* ends the event queue; emit_live_reasoning polls the phase collector;    *)
(* the response generator drains the queue to the client, who may leave.   *)
(* A step of an asyncio task is the code between two suspension points; a  *)
(* step of the worker thread is what it does between two shared accesses.  *)
(***************************************************************************)
EXTENDS Naturals, Sequences, FiniteSets, Functions

CONSTANTS
    MaxCallbacks,  \* callback events (token, tool_start, ...) of the worker
    MaxPhases,     \* phase events of the worker
    Artifacts,     \* artifacts its tools may produce
    Faults         \* the faults that may happen

(***************************************************************************)
(* "store": a write of the session store or of auth_db raises.             *)
(* "build": building the response after the writes raises.                 *)
(* "race": the graph snapshot is taken while a worker mutates the graph.   *)
(* "sink": storing the artifacts of a tool that just ended raises.         *)
(***************************************************************************)
FaultKinds == {"store", "build", "race", "sink"}

ASSUME BoundsAssumption ==
    /\ MaxCallbacks \in Nat
    /\ MaxPhases \in Nat
ASSUME FaultsAssumption == Faults \subseteq FaultKinds

VARIABLES
    \* the worker thread and the collectors it fills
    worker,     \* "idle", "running", "sinking" (inside the artifact sink), "returned"
    result,     \* what it returned: "none", "answer", "skill_error", "exception"
    calls,      \* callback events posted so far
    phases,     \* length of phase_collector.events
    graphDirty, \* _graph_version is ahead of the last snapshot sent
    made,       \* tool_collector.artifacts, the newest last
    sunk,       \* tool_collector.persisted_artifact_ids
    \* the event loop
    ready,      \* callbacks posted with call_soon_threadsafe, in order
    queue,      \* the asyncio.Queue of events
    agent,      \* run_agent: "absent","created","waiting","woken","ended","raised"
    ended,      \* the agent_finished event
    emitter,    \* emit_live_reasoning: "absent","polling","ended","raised","cancelled"
    emitted,    \* phase events it has queued
    gen,        \* where the response generator is suspended
    deferred,   \* deferred_final
    sent,       \* events the client was sent
    lease,      \* the query lease of the session is held
    left,       \* client_cancelled
    cancel,     \* cancel_event, read by the worker
    \* the session
    effects,    \* the structured memory of the run was written
    hist,       \* messages this request appended to chat_history
    stored,     \* artifacts of this request in the session
    noted       \* skills, usage and reply summary were written for the turn

workerVars  == <<worker, result, calls, phases, made, sunk>>
loopVars    == <<ready, queue>>
genVars     == <<gen, deferred, sent, lease, left>>
sessionVars == <<effects, hist, stored, noted>>
vars == <<worker, result, calls, phases, graphDirty, made, sunk, ready, queue,
          agent, ended, emitter, emitted, gen, deferred, sent, lease, left,
          cancel, effects, hist, stored, noted>>

Closed == {"completed", "failed", "left", "abandoned"}
Finals == {"final", "final_unsaved"}
Made   == { made[i] : i \in DOMAIN made }

-----------------------------------------------------------------------------
(* prepare_stream has taken the lease; the response has not been iterated. *)
Init ==
    /\ worker = "idle" /\ result = "none" /\ calls = 0 /\ phases = 0
    /\ graphDirty = FALSE /\ made = <<>> /\ sunk = {}
    /\ ready = <<>> /\ queue = <<>>
    /\ agent = "absent" /\ ended = FALSE
    /\ emitter = "absent" /\ emitted = 0
    /\ gen = "created" /\ deferred = <<>> /\ sent = <<>>
    /\ lease = TRUE /\ left = FALSE /\ cancel = FALSE
    /\ effects = FALSE /\ hist = <<>> /\ stored = {} /\ noted = FALSE

-----------------------------------------------------------------------------
(* The worker thread                                                       *)

\* ToolCollector._push_event and the token callbacks: post to the loop.
Post(item) == ready' = Append(ready, item)

\* A token, tool_start or context_usage event; a tool start also bumps the
\* version of the execution graph.
WorkerCallback ==
    /\ worker = "running"
    /\ calls < MaxCallbacks
    /\ calls' = calls + 1
    /\ graphDirty' \in {graphDirty, TRUE}
    /\ Post("callback")
    /\ UNCHANGED <<worker, result, phases, made, sunk, queue, agent, ended, emitter,
                   emitted, genVars, cancel, sessionVars>>

\* emit_phase_event: a phase is appended and the graph version bumped.
WorkerPhase ==
    /\ worker = "running"
    /\ phases < MaxPhases
    /\ phases' = phases + 1
    /\ graphDirty' = TRUE
    /\ UNCHANGED <<worker, result, calls, made, sunk, loopVars, agent, ended, emitter,
                   emitted, genVars, cancel, sessionVars>>

\* on_tool_end: the artifact is collected, then handed to the artifact sink.
ToolEnds(a) ==
    /\ worker = "running"
    /\ calls < MaxCallbacks
    /\ a \notin Made
    /\ made' = Append(made, a)
    /\ worker' = "sinking"
    /\ UNCHANGED <<result, calls, phases, graphDirty, sunk, loopVars, agent, ended,
                   emitter, emitted, genVars, cancel, sessionVars>>

\* _persist_artifacts_since swallows a failure of the sink; either way the
\* tool_end event follows.
SinkReturns ==
    /\ worker = "sinking"
    /\ \/ /\ stored' = stored \union {made[Len(made)]}
          /\ sunk' = sunk \union {made[Len(made)]}
       \/ /\ "sink" \in Faults
          /\ UNCHANGED <<stored, sunk>>
    /\ worker' = "running"
    /\ calls' = calls + 1
    /\ Post("callback")
    /\ UNCHANGED <<result, phases, graphDirty, made, queue, agent, ended, emitter,
                   emitted, genVars, cancel, effects, hist, noted>>

\* AgentRunner.run returns or raises; the future's result is posted last.
WorkerReturns(r) ==
    /\ worker = "running"
    /\ worker' = "returned"
    /\ result' = r
    /\ Post("result")
    /\ UNCHANGED <<calls, phases, graphDirty, made, sunk, queue, agent, ended, emitter,
                   emitted, genVars, cancel, sessionVars>>

Worker ==
    \/ WorkerCallback
    \/ WorkerPhase
    \/ \E a \in Artifacts : ToolEnds(a)
    \/ SinkReturns
    \/ \E r \in {"answer", "skill_error", "exception"} : WorkerReturns(r)

-----------------------------------------------------------------------------
(* The event loop runs the callbacks the worker posted, in order.          *)
RunCallback ==
    /\ ready # <<>>
    /\ ready' = Tail(ready)
    /\ IF Head(ready) = "callback"
         THEN queue' = Append(queue, "callback") /\ agent' = agent
         ELSE /\ agent' = IF agent = "waiting" THEN "woken" ELSE agent
              /\ queue' = queue
    /\ UNCHANGED <<workerVars, graphDirty, ended, emitter, emitted, genVars, cancel,
                   sessionVars>>

-----------------------------------------------------------------------------
(* run_agent                                                               *)

\* The writes that save a turn, in order: skills and user message, answer
\* message, artifacts, usage and reply summary.  A fault stops after k of them.
AllWrites   == 4
WriteCounts == IF "store" \in Faults THEN 0..AllWrites ELSE {AllWrites}
MessagesAnswerFirst(k, answer) == SubSeq(<<answer, "user">>, 1, IF k < 2 THEN k ELSE 2)
Messages(k, answer) == SubSeq(<<"user", answer>>, 1, IF k < 2 THEN k ELSE 2)

\* _persist_uncollected_artifacts: what the sink has not confirmed.
NoArtifacts == {}
Uncollected == Made \ sunk

\* cancel_event.set().
TellNobody == UNCHANGED cancel
TellWorker == cancel' = TRUE

\* client_cancelled.is_set().
NeverGone  == FALSE
ClientGone == left

\* The finally clause: agent_finished is set and the queue ends with "done".
EndQueueOnSuccess(events, how) ==
    /\ queue' = queue \o events \o (IF events = <<>> THEN <<>> ELSE <<"done">>)
    /\ ended' = TRUE
    /\ agent' = how
EndQueue(events, how) ==
    /\ queue' = queue \o events \o <<"done">>
    /\ ended' = TRUE
    /\ agent' = how

\* _persist_fallback_response, then the final event; a write that raises
\* leaves run_agent with its exception and the stream without a final event.
FallbackTurn(before) ==
    \E k \in WriteCounts :
        /\ hist' = before \o Messages(k, "fallback")
        /\ noted' = (k = AllWrites)
        /\ IF k = AllWrites THEN EndQueue(<<"final">>, "ended") ELSE EndQueue(<<>>, "raised")

AgentStarts ==
    /\ agent = "created"
    /\ agent' = "waiting"
    /\ worker' = "running"
    /\ UNCHANGED <<result, calls, phases, graphDirty, made, sunk, loopVars, ended, emitter,
                   emitted, genVars, cancel, sessionVars>>

\* The worker answered: its memory effects, then the turn.  Failing writes are
\* flagged in the final event; an exception before them (the settings read of
\* the anomaly check) or after them (building the response) saves a fallback.
AgentAnswers ==
    /\ agent = "woken" /\ result = "answer" /\ ~ClientGone
    /\ effects' \in (IF "store" \in Faults THEN BOOLEAN ELSE {TRUE})
    /\ \E k \in WriteCounts :
         LET saved == hist \o Messages(k, "answer")
         IN  /\ stored' = IF k >= 3 THEN stored \union Uncollected ELSE stored
             /\ \/ /\ hist' = saved
                   /\ noted' = (k = AllWrites)
                   /\ EndQueue(<<IF k = AllWrites THEN "final" ELSE "final_unsaved">>, "ended")
                \/ /\ "build" \in Faults \/ k = 0
                   /\ FallbackTurn(saved)
    /\ UNCHANGED <<workerVars, graphDirty, ready, emitter, emitted, genVars, cancel>>

\* SkillSelectionError is reported, nothing is saved.
AgentRejects ==
    /\ agent = "woken" /\ result = "skill_error" /\ ~ClientGone
    /\ EndQueue(<<"error">>, "ended")
    /\ UNCHANGED <<workerVars, graphDirty, ready, emitter, emitted, genVars, cancel,
                   sessionVars>>

AgentFails ==
    /\ agent = "woken" /\ result = "exception" /\ ~ClientGone
    /\ FallbackTurn(hist)
    /\ UNCHANGED <<workerVars, graphDirty, ready, emitter, emitted, genVars, cancel,
                   effects, stored>>

\* client_cancelled is set: whatever the worker returned is dropped.
AgentDropped ==
    /\ agent = "woken" /\ ClientGone
    /\ EndQueue(<<>>, "ended")
    /\ UNCHANGED <<workerVars, graphDirty, ready, emitter, emitted, genVars, cancel,
                   sessionVars>>

\* fail_after: the worker thread is abandoned and told to stop.
AgentDeadline ==
    /\ agent \in {"waiting", "woken"}
    /\ TellWorker
    /\ IF ClientGone
         THEN EndQueue(<<>>, "ended") /\ UNCHANGED <<hist, noted>>
         ELSE FallbackTurn(hist)
    /\ UNCHANGED <<workerVars, graphDirty, ready, emitter, emitted, genVars, effects, stored>>

AgentResumes == AgentAnswers \/ AgentRejects \/ AgentFails \/ AgentDropped

-----------------------------------------------------------------------------
(* emit_live_reasoning: one pass between two sleeps                        *)

NewPhases == [i \in 1..(phases - emitted) |-> "phase"]

EmitPass ==
    /\ emitter = "polling"
    /\ emitted < phases \/ graphDirty \/ ended
    /\ queue' = queue \o NewPhases \o (IF graphDirty THEN <<"graph">> ELSE <<>>)
    /\ emitted' = phases
    /\ graphDirty' = FALSE
    /\ emitter' = IF ended THEN "ended" ELSE "polling"
    /\ UNCHANGED <<workerVars, ready, agent, ended, genVars, cancel, sessionVars>>

\* graph_tracker.snapshot() iterates the nodes on the loop thread while a
\* tool start inserts one on the worker thread: RuntimeError in the task.
EmitRaises ==
    /\ "race" \in Faults
    /\ emitter = "polling"
    /\ graphDirty /\ worker = "running"
    /\ queue' = queue \o NewPhases
    /\ emitted' = phases
    /\ graphDirty' = FALSE
    /\ emitter' = "raised"
    /\ UNCHANGED <<workerVars, ready, agent, ended, genVars, cancel, sessionVars>>

-----------------------------------------------------------------------------
(* The response generator and its client                                   *)

taskVars == <<workerVars, graphDirty, ready, agent, ended, emitted, cancel, sessionVars>>

\* The generator is iterated once and suspends at its first yield.
Iterate ==
    /\ gen = "created"
    /\ gen' = "atStart"
    /\ sent' = <<"start">>
    /\ UNCHANGED <<taskVars, queue, emitter, deferred, lease, left>>

CreateTasks ==
    /\ gen = "atStart"
    /\ gen' = "getting"
    /\ agent' = "created"
    /\ emitter' = "polling"
    /\ UNCHANGED <<workerVars, graphDirty, loopVars, ended, emitted, deferred, sent, lease,
                   left, cancel, sessionVars>>

\* The generator puts final events aside.
DefersNothing(event) == FALSE
Defers(event) == event \in Finals

\* queue.get: a final event is put aside, "done" ends the loop, the rest is sent.
Take ==
    /\ gen = "getting"
    /\ queue # <<>>
    /\ queue' = Tail(queue)
    /\ CASE Head(queue) = "done" ->
              gen' = "joining" /\ UNCHANGED <<deferred, sent>>
         [] Defers(Head(queue)) ->
              deferred' = Append(deferred, Head(queue)) /\ UNCHANGED <<gen, sent>>
         [] OTHER ->
              gen' = "atYield" /\ sent' = Append(sent, Head(queue)) /\ UNCHANGED deferred
    /\ UNCHANGED <<taskVars, emitter, lease, left>>

\* The generator ends or raises: stream_events releases the lease.
Close(how) == gen' = how /\ lease' = FALSE

\* await reasoning_task, which re-raises what the task raised.
JoinWithoutWaiting ==
    /\ gen = "joining"
    /\ gen' = "draining"
    /\ UNCHANGED <<taskVars, queue, emitter, deferred, sent, lease, left>>
Join ==
    /\ gen = "joining"
    /\ \/ emitter = "ended" /\ gen' = "draining" /\ UNCHANGED lease
       \/ emitter = "raised" /\ Close("failed")
    /\ UNCHANGED <<taskVars, queue, emitter, deferred, sent, left>>

\* What was queued after "done" is still sent, a second "done" skipped.
Drain ==
    /\ gen = "draining"
    /\ IF queue = <<>>
         THEN gen' = "flushing" /\ UNCHANGED <<queue, deferred, sent>>
         ELSE /\ queue' = Tail(queue)
              /\ CASE Head(queue) = "done" ->
                        UNCHANGED <<gen, deferred, sent>>
                   [] Defers(Head(queue)) ->
                        deferred' = Append(deferred, Head(queue)) /\ UNCHANGED <<gen, sent>>
                   [] OTHER ->
                        /\ gen' = "drainYield"
                        /\ sent' = Append(sent, Head(queue))
                        /\ UNCHANGED deferred
    /\ UNCHANGED <<taskVars, emitter, lease, left>>

\* The final event, then await agent_task, which re-raises what it raised.
Flush ==
    /\ gen = "flushing"
    /\ IF deferred # <<>>
         THEN /\ gen' = "finalYield"
              /\ sent' = Append(sent, Head(deferred))
              /\ deferred' = Tail(deferred)
              /\ UNCHANGED lease
         ELSE /\ Close(IF agent = "raised" THEN "failed" ELSE "completed")
              /\ UNCHANGED <<sent, deferred>>
    /\ UNCHANGED <<taskVars, queue, emitter, left>>

\* The transport took the event the generator yielded.
Resume ==
    /\ \/ gen = "atYield"    /\ gen' = "getting"
       \/ gen = "drainYield" /\ gen' = "draining"
       \/ gen = "finalYield" /\ gen' = "flushing"
    /\ UNCHANGED <<taskVars, queue, emitter, deferred, sent, lease, left>>

\* The except clause: tell everyone, save the interrupted turn unless the
\* request has already written to the history or has produced nothing.
SaveInterruptedAlways ==
    \E k \in WriteCounts :
        /\ hist' = hist \o Messages(k, "interrupted")
        /\ stored' = stored
        /\ noted' = (k = AllWrites)
SaveInterrupted ==
    \/ /\ hist # <<>> \/ made = <<>>
       /\ UNCHANGED <<hist, stored, noted>>
    \/ /\ hist = <<>>
       /\ calls > 0 \/ made # <<>>
       /\ \E k \in WriteCounts :
            /\ hist' = Messages(k, "interrupted")
            /\ stored' = IF k >= 3 THEN stored \union Uncollected ELSE stored
            /\ noted' = (k = AllWrites)

HangUp ==
    /\ left' = TRUE
    /\ TellWorker
    /\ SaveInterrupted
    /\ emitter' = IF emitter = "polling" THEN "cancelled" ELSE emitter
    /\ UNCHANGED <<workerVars, graphDirty, loopVars, agent, ended, emitted, deferred, sent,
                   effects>>

\* The client disconnects while the generator awaits: CancelledError is
\* raised inside it, and the lease is released after its except clause.
LeaveAwaiting ==
    /\ gen \in {"getting", "joining"}
    /\ Close("left")
    /\ HangUp

\* The client disconnects while an event is being sent: the suspended
\* generators are finalized from the outside in.  stream_events releases the
\* lease first; the inner generator is closed by a later callback of the loop.
LeaveAtYield ==
    /\ gen \in {"atYield", "drainYield", "finalYield"}
    /\ Close("orphaned")
    /\ UNCHANGED <<taskVars, queue, emitter, deferred, sent, left>>

CloseOrphan ==
    /\ gen = "orphaned"
    /\ gen' = "left"
    /\ UNCHANGED lease
    /\ HangUp

\* The first yield is outside the try block: no task exists, nothing is saved.
LeaveAtStart ==
    /\ gen = "atStart"
    /\ Close("abandoned")
    /\ UNCHANGED <<taskVars, queue, emitter, deferred, sent, left>>

\* The client is gone before the first event is asked for: the generator
\* never runs, its finally clause neither, and no code releases the lease.
NeverIterated ==
    /\ gen = "created"
    /\ gen' = "abandoned"
    /\ UNCHANGED <<taskVars, queue, emitter, deferred, sent, lease, left>>

\* The advisory lock falls when the forgotten connection is finalized.
ConnectionFinalized ==
    /\ gen = "abandoned" /\ lease
    /\ lease' = FALSE
    /\ UNCHANGED <<taskVars, queue, emitter, gen, deferred, sent, left>>

Leave == LeaveAwaiting \/ LeaveAtYield \/ LeaveAtStart \/ NeverIterated

Generator == Iterate \/ CreateTasks \/ Take \/ Join \/ Drain \/ Flush \/ Resume

Next ==
    \/ Worker \/ RunCallback
    \/ AgentStarts \/ AgentResumes \/ AgentDeadline
    \/ EmitPass \/ EmitRaises
    \/ Generator \/ Leave \/ CloseOrphan \/ ConnectionFinalized

(***************************************************************************)
(* Every task of the event loop that can run does, the deadline fires on a *)
(* run_agent that keeps waiting, the transport takes or refuses what is    *)
(* sent, and a connection nobody refers to is finalized.  Nothing is       *)
(* assumed of the worker thread (it may hang in an LLM or tool call) nor   *)
(* of the client.                                                          *)
(***************************************************************************)
Fairness ==
    /\ WF_vars(RunCallback)
    /\ WF_vars(AgentStarts)
    /\ WF_vars(AgentResumes \/ AgentDeadline)
    /\ WF_vars(EmitPass \/ EmitRaises)
    /\ WF_vars(Generator \/ CloseOrphan)
    /\ WF_vars(ConnectionFinalized)

Spec     == Init /\ [][Next]_vars
FairSpec == Spec /\ Fairness

-----------------------------------------------------------------------------
(* Properties                                                              *)

Count(x, s) == Cardinality({ i \in DOMAIN s : s[i] = x })

FlagsOK ==
    /\ graphDirty \in BOOLEAN /\ ended \in BOOLEAN /\ lease \in BOOLEAN
    /\ left \in BOOLEAN /\ cancel \in BOOLEAN
    /\ effects \in BOOLEAN /\ noted \in BOOLEAN

StatesOK ==
    /\ worker \in {"idle", "running", "sinking", "returned"}
    /\ result \in {"none", "answer", "skill_error", "exception"}
    /\ calls \in Nat /\ phases \in Nat /\ emitted \in Nat
    /\ agent \in {"absent", "created", "waiting", "woken", "ended", "raised"}
    /\ emitter \in {"absent", "polling", "ended", "raised", "cancelled"}
    /\ gen \in Closed \union {"created", "atStart", "getting", "atYield", "joining", "draining",
                              "drainYield", "flushing", "finalYield", "orphaned"}

Events == {"callback", "phase", "graph", "error"} \union Finals
Saved  == {"user", "answer", "fallback", "interrupted"}

DataOK ==
    /\ made \in Seq(Artifacts)
    /\ sunk \subseteq Artifacts /\ stored \subseteq Artifacts
    /\ ready \in Seq({"callback", "result"})
    /\ queue \in Seq(Events \union {"done"})
    /\ deferred \in Seq(Finals)
    /\ sent \in Seq(Events \union {"start"})
    /\ hist \in Seq(Saved)

TypeOK == FlagsOK /\ StatesOK /\ DataOK

\* A final event is the last thing the client is sent, although phases, tokens
\* and "done" come to the queue from three producers: the generator defers it
\* until run_agent and emit_live_reasoning are both over (lines 671-687).
FinalIsLast == \A i \in DOMAIN sent : sent[i] \in Finals => i = Len(sent)

\* A stream that ran to its end sent exactly one terminal event, an answer or
\* an error: no path through run_agent ends the queue without one or with two.
OneTerminalEvent ==
    gen = "completed" =>
        Cardinality({ i \in DOMAIN sent : sent[i] \in Finals \union {"error"} }) = 1

\* Both: a stream ends with the one final event or error it has sent, and what
\* follows an error is no final event.
OneEnding == FinalIsLast /\ OneTerminalEvent

\* Unless the deadline cut it, a stream that ran to its end delivered every
\* callback event and every phase event the worker produced, however the
\* poller, the loop and the queue interleaved.
NothingLost ==
    gen = "completed" /\ ~cancel =>
        Count("callback", sent) = calls /\ Count("phase", sent) = phases /\ ~graphDirty

\* The request writes at most one turn to the history, the question before
\* its answer: an answer, a fallback after the deadline and an interrupted
\* turn after a disconnect exclude each other.  A failing write may leave
\* the question alone.
OneTurn == hist \in { SubSeq(<<"user", a>>, 1, k) :
                        a \in {"answer", "fallback", "interrupted"}, k \in 0..2 }

\* A final event not marked persistence_failed says the turn is in the
\* session: question and answer last in the history, the closing notes and,
\* for an answer, every artifact of the run, those whose sink failed included.
FinalIsSaved ==
    "final" \in Range(sent) =>
        /\ Len(hist) > 1 /\ hist[Len(hist) - 1] = "user" /\ noted
        /\ hist[Len(hist)] = "answer" => Made \subseteq stored

\* Once the stream is over, a worker still running has been told to stop.
WorkerToldToStop == gen \in Closed => worker \in {"idle", "returned"} \/ cancel

\* After client_cancelled is set the request writes no message, memory or
\* note any more, whatever its worker returns later.
SilentAfterLeaving == [][left => UNCHANGED <<effects, hist, noted>>]_vars

\* With a worker that may hang for ever and a client that may leave at any
\* moment, the response ends and the lease is given back.
StreamCloses == <>(gen \in Closed /\ ~lease)

\* QueryStream keeps the contract of a streamed query.
Contract == INSTANCE StreamContract WITH
    link  <- IF left THEN "left" ELSE IF gen \in Closed THEN "ended" ELSE "open",
    reply <- IF "final" \in Range(sent) THEN "final"
             ELSE IF "final_unsaved" \in Range(sent) THEN "unsaved"
             ELSE IF "error" \in Range(sent) THEN "error" ELSE "none",
    turn  <- hist

ImplementsContract == Contract!Spec
=============================================================================
