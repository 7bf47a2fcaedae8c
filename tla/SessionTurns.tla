---------------------------- MODULE SessionTurns ----------------------------
(***************************************************************************)
(* Several requests on one session: POST /query, /evaluate and             *)
(* /query/stream under the query lease, each with the worker thread that   *)
(* runs its agent, and the route that deletes messages, which takes no     *)
(* lease.  Handlers are coroutines of one event loop: between two awaits   *)
(* no other coroutine runs, but worker threads and the threadpool that     *)
(* serves the delete route do.  A call of the session store is one step    *)
(* (SessionStore!ImplementsAtomicSession); the events of a stream are      *)
(* those of QueryStream, seen here only where they touch the session.      *)
(***************************************************************************)
EXTENDS SessionData, FiniteSets

CONSTANTS
    Requests,
    NoRequest,
    Kinds,       \* the endpoints called, a subset of Endpoints
    Keep,        \* _KEEP_RECENT_HISTORY_MESSAGES
    MaxCuts,     \* calls of the delete route
    Departures   \* where a streaming client may leave, a subset of Suspensions

Endpoints   == {"query", "evaluate", "stream"}
Suspensions == {"awaiting", "yielding"}

ASSUME RequestsAssumption ==
    /\ NoRequest \notin Requests
    /\ Kinds \subseteq Endpoints /\ Departures \subseteq Suspensions
    /\ Keep \in Nat /\ MaxCuts \in Nat

VARIABLES
    session,  \* the session state
    lease,    \* the request that holds the query lease
    loop,     \* the request whose handler the event loop is running
    kind,     \* the endpoint of each request
    pc,       \* where the handler of each request is
    link,     \* of a stream: "up", "orphaned" (outer generator closed), "gone"
    seen,     \* what each request read: history length and memory
    work,     \* its worker thread: "none", "running", "returned"
    made,     \* its tools have produced an artifact
    result,   \* what the worker returned
    effect,   \* the session memory that came with it, if any
    text,     \* the reply it saves: "answer", "fallback", "interrupted"
    cuts

vars == <<session, lease, loop, kind, pc, link, seen, work, made, result, effect,
          text, cuts>>
workerVars  == <<work, made, result, effect>>
requestVars == <<kind, seen, workerVars, cuts>>

Init ==
    /\ session = EmptySession
    /\ lease = NoRequest
    /\ loop = NoRequest
    /\ kind \in [Requests -> Kinds]
    /\ pc = [r \in Requests |-> "new"]
    /\ link = [r \in Requests |-> "up"]
    /\ seen = [r \in Requests |-> [len |-> 0, memory |-> EmptySession.memory]]
    /\ work = [r \in Requests |-> "none"]
    /\ made = [r \in Requests |-> FALSE]
    /\ result = [r \in Requests |-> "none"]
    /\ effect = [r \in Requests |-> {}]
    /\ text = [r \in Requests |-> "none"]
    /\ cuts = 0

Goto(r, label) == pc' = [pc EXCEPT ![r] = label]

\* SessionQueryLease.release is idempotent.
Release(r) == lease' = IF lease = r THEN NoRequest ELSE lease

\* The handler goes on without awaiting; it awaits; it is over.
Await(r, label)    == Goto(r, label) /\ loop' = NoRequest /\ UNCHANGED lease
End(r)             == Goto(r, "over") /\ loop' = NoRequest /\ Release(r)
Continue(r, label) == Goto(r, label) /\ loop' = r /\ UNCHANGED lease

Running(r, label) == pc[r] = label /\ loop \in {r, NoRequest}

-----------------------------------------------------------------------------
(* Preparation: acquire_query_lease, then _prepare_agent_runtime           *)

AcquireAnyway(r) ==
    /\ pc[r] = "new" /\ loop = NoRequest
    /\ lease' = r
    /\ Goto(r, "load") /\ loop' = r
    /\ UNCHANGED <<session, link, text, requestVars>>
Acquire(r) ==
    /\ pc[r] = "new" /\ loop = NoRequest
    /\ \/ /\ lease = NoRequest
          /\ lease' = r
          /\ Goto(r, "load") /\ loop' = r
       \/ /\ lease # NoRequest   \* SessionBusyError, 409
          /\ Goto(r, "over") /\ UNCHANGED <<lease, loop>>
    /\ UNCHANGED <<session, link, text, requestVars>>

\* load_session: the history the agent will be given.
LoadHistory(r) ==
    /\ Running(r, "load")
    /\ seen' = [seen EXCEPT ![r].len = Len(session.hist)]
    /\ Continue(r, "recall")
    /\ UNCHANGED <<session, kind, link, text, workerVars, cuts>>

\* Anything in the preparation may raise.
PrepareFailsHolding(r) ==
    /\ Running(r, "load") \/ Running(r, "recall")
    /\ Await(r, "over")
    /\ UNCHANGED <<session, link, text, requestVars>>
PrepareFails(r) ==
    /\ Running(r, "load") \/ Running(r, "recall")
    /\ End(r)
    /\ UNCHANGED <<session, link, text, requestVars>>

\* get_structured_memory.  A query starts its worker at once, a stream when
\* the response is iterated.
Recall(r) ==
    /\ Running(r, "recall")
    /\ seen' = [seen EXCEPT ![r].memory = session.memory]
    /\ IF kind[r] = "stream"
       THEN Await(r, "prepared") /\ UNCHANGED work
       ELSE Await(r, "open") /\ work' = [work EXCEPT ![r] = "running"]
    /\ UNCHANGED <<session, kind, link, text, made, result, effect, cuts>>

BeginStream(r) ==
    /\ pc[r] = "prepared" /\ loop = NoRequest
    /\ Await(r, "open")
    /\ work' = [work EXCEPT ![r] = "running"]
    /\ UNCHANGED <<session, kind, link, text, seen, made, result, effect, cuts>>

-----------------------------------------------------------------------------
(* The worker thread, which may outlive its request                        *)

\* A tool ends with an artifact; the sink of /evaluate drops it.
Produce(r) ==
    /\ work[r] = "running" /\ ~made[r]
    /\ made' = [made EXCEPT ![r] = TRUE]
    /\ session' = IF kind[r] = "evaluate"
                  THEN session
                  ELSE PutArtifact(session, [id |-> r, blob |-> Inline, look |-> FALSE])
    /\ UNCHANGED <<lease, loop, kind, pc, link, seen, work, result, effect, text, cuts>>

\* compact_context_if_needed: all but the last Keep messages may have been
\* summarised, never fewer than before.
Compactions(r) ==
    LET compacted == seen[r].memory.compacted
    IN  {compacted} \union (IF seen[r].len > Keep + compacted THEN {seen[r].len - Keep} ELSE {})

\* The memory AgentRunner.run returns: of a finished run it counts the turn
\* and indexes the artifacts; after a failure of the graph it does neither.
Memories(r) ==
    { [turns |-> seen[r].memory.turns + 1, compacted |-> k,
       index |-> seen[r].memory.index \union (IF made[r] THEN {r} ELSE {})] : k \in Compactions(r) }
    \union { [seen[r].memory EXCEPT !.compacted = k] : k \in Compactions(r) }

\* A cached answer and one whose context could not be prepared carry no
\* memory; a rejected skill selection is found before any tool runs.
Return(r) ==
    /\ work[r] = "running"
    /\ work' = [work EXCEPT ![r] = "returned"]
    /\ \/ /\ result' = [result EXCEPT ![r] = "answer"]
          /\ \/ \E m \in Memories(r) : effect' = [effect EXCEPT ![r] = {m}]
             \/ ~made[r] /\ UNCHANGED effect
       \/ /\ result' = [result EXCEPT ![r] = "exception"]
          /\ UNCHANGED effect
       \/ /\ ~made[r]
          /\ result' = [result EXCEPT ![r] = "rejected"]
          /\ UNCHANGED effect
    /\ UNCHANGED <<session, lease, loop, kind, pc, link, seen, made, text, cuts>>

-----------------------------------------------------------------------------
(* The handler: run_agent of a stream, _execute_locked of the others       *)

Waiting(r) == pc[r] = "open" /\ loop = NoRequest

StartSaving(r, label, reply) ==
    /\ Continue(r, label)
    /\ text' = [text EXCEPT ![r] = reply]
    /\ UNCHANGED <<session, link, requestVars>>

\* Nothing is saved; a stream still sends its error event.
Dismiss(r) ==
    /\ IF kind[r] = "stream" THEN Await(r, "flush") ELSE End(r)
    /\ UNCHANGED <<session, link, text, requestVars>>

Answered(r) ==
    /\ Waiting(r) /\ result[r] = "answer"
    /\ StartSaving(r, "memory", "answer")

Failed(r) ==
    /\ Waiting(r) /\ result[r] = "exception"
    /\ IF kind[r] = "evaluate" THEN Dismiss(r) ELSE StartSaving(r, "question", "fallback")

Rejected(r) ==
    /\ Waiting(r) /\ result[r] = "rejected"
    /\ Dismiss(r)

\* fail_after: the worker is abandoned, not stopped.
DeadlineReleases(r) ==
    /\ Waiting(r)
    /\ Goto(r, "question") /\ loop' = NoRequest /\ Release(r)
    /\ text' = [text EXCEPT ![r] = "fallback"]
    /\ UNCHANGED <<session, link, requestVars>>
Deadline(r) ==
    /\ Waiting(r)
    /\ IF kind[r] = "evaluate" THEN Dismiss(r) ELSE StartSaving(r, "question", "fallback")

\* _persist_runtime_effects, which every answer goes through.
SaveMemory(r) ==
    /\ Running(r, "memory")
    /\ session' = IF effect[r] = {} THEN session
                  ELSE SetMemory(session, CHOOSE m \in effect[r] : TRUE)
    /\ IF kind[r] = "evaluate" THEN End(r) ELSE Continue(r, "question")
    /\ UNCHANGED <<link, text, requestVars>>

Message(r, role, arts) == [id |-> <<r, role>>, role |-> role, arts |-> arts]

SaveQuestion(r) ==
    /\ Running(r, "question")
    /\ session' = AppendMessage(session, Message(r, "user", {}))
    /\ Continue(r, "reply")
    /\ UNCHANGED <<link, text, requestVars>>

\* A fallback shows nothing, other replies what the tools have made.
SaveReply(r) ==
    /\ Running(r, "reply")
    /\ session' = AppendMessage(session,
                    Message(r, "ai", IF made[r] /\ text[r] # "fallback" THEN {r} ELSE {}))
    /\ IF kind[r] = "stream" /\ text[r] # "interrupted" THEN Await(r, "flush") ELSE End(r)
    /\ UNCHANGED <<link, text, requestVars>>

\* The generator has sent the final event.
Finish(r) ==
    /\ pc[r] = "flush" /\ link[r] = "up" /\ loop = NoRequest
    /\ End(r)
    /\ UNCHANGED <<session, link, text, requestVars>>

-----------------------------------------------------------------------------
(* The client of a stream                                                  *)

Streaming(r) == kind[r] = "stream" /\ pc[r] \in {"open", "flush"} /\ loop = NoRequest

\* The history has grown since the request read it.
NeverSaved(r)   == FALSE
GrownOrNot(r)   == Len(session.hist) >= seen[r].len
AlreadySaved(r) == Len(session.hist) > seen[r].len

\* persist_interrupted_once: the turn is saved unless the history has grown
\* or nothing was produced.
Interrupt(r) ==
    /\ \/ /\ AlreadySaved(r) \/ ~made[r]
          /\ End(r) /\ UNCHANGED text
       \/ /\ ~AlreadySaved(r)
          /\ Continue(r, "question")
          /\ text' = [text EXCEPT ![r] = "interrupted"]
    /\ UNCHANGED <<session, requestVars>>

LeaveAwaiting(r) ==
    /\ "awaiting" \in Departures
    /\ Streaming(r) /\ link[r] = "up"
    /\ link' = [link EXCEPT ![r] = "gone"]
    /\ Interrupt(r)

\* The outer generator is finalized first and releases the lease.
LeaveAtYield(r) ==
    /\ "yielding" \in Departures
    /\ Streaming(r) /\ link[r] = "up"
    /\ link' = [link EXCEPT ![r] = "orphaned"]
    /\ Release(r)
    /\ UNCHANGED <<session, loop, pc, text, requestVars>>

CloseOrphan(r) ==
    /\ Streaming(r) /\ link[r] = "orphaned"
    /\ Interrupt(r)
    /\ UNCHANGED link

LeaveAtStart(r) ==
    /\ Departures # {}
    /\ pc[r] = "prepared" /\ loop = NoRequest
    /\ End(r)
    /\ UNCHANGED <<session, link, text, requestVars>>

-----------------------------------------------------------------------------
(* DELETE /sessions/{id}/messages/last                                     *)
DeleteMessages(i) ==
    /\ cuts < MaxCuts
    /\ cuts' = cuts + 1
    /\ session' = CutFrom(session, i)
    /\ UNCHANGED <<lease, loop, kind, pc, link, seen, workerVars, text>>

Handler(r) ==
    \/ Acquire(r) \/ LoadHistory(r) \/ Recall(r) \/ PrepareFails(r) \/ BeginStream(r)
    \/ Answered(r) \/ Failed(r) \/ Rejected(r) \/ Deadline(r)
    \/ SaveMemory(r) \/ SaveQuestion(r) \/ SaveReply(r) \/ Finish(r) \/ CloseOrphan(r)

Client(r) == LeaveAwaiting(r) \/ LeaveAtYield(r) \/ LeaveAtStart(r)

Next ==
    \/ \E r \in Requests : Handler(r) \/ Produce(r) \/ Return(r) \/ Client(r)
    \/ \E i \in DOMAIN session.hist : DeleteMessages(i)

\* The event loop runs what can run and the deadline fires; nothing is
\* assumed of worker threads, clients and the delete route.
Spec     == Init /\ [][Next]_vars
FairSpec == Spec /\ \A r \in Requests : WF_vars(Handler(r))

-----------------------------------------------------------------------------
(* Properties                                                              *)

Memory == [turns : Nat, compacted : Nat, index : SUBSET Requests]
Replies == {"none", "answer", "fallback", "interrupted"}

\* Types; and a handler in the middle of a synchronous stretch has the loop.
TypeOK ==
    /\ session.hist \in Seq([id : Requests \X {"user", "ai"}, role : {"user", "ai"},
                             arts : SUBSET Requests])
    /\ session.arts \subseteq [id : Requests, blob : {Inline}, look : {FALSE}]
    /\ session.memory \in Memory
    /\ lease \in Requests \union {NoRequest}
    /\ loop \in Requests \union {NoRequest}
    /\ kind \in [Requests -> Kinds]
    /\ pc \in [Requests -> {"new", "load", "recall", "prepared", "open", "memory",
                            "question", "reply", "flush", "over"}]
    /\ link \in [Requests -> {"up", "orphaned", "gone"}]
    /\ seen \in [Requests -> [len : Nat, memory : Memory]]
    /\ work \in [Requests -> {"none", "running", "returned"}]
    /\ made \in [Requests -> BOOLEAN]
    /\ result \in [Requests -> {"none", "answer", "exception", "rejected"}]
    /\ \A r \in Requests : effect[r] \subseteq Memory /\ Cardinality(effect[r]) <= 1
    /\ text \in [Requests -> Replies]
    /\ cuts \in 0..MaxCuts
    /\ \A r \in Requests :
         pc[r] \in {"load", "recall", "memory", "question", "reply"} <=> loop = r

HasTurn(r, history) == \E i \in DOMAIN history : history[i].id = <<r, "ai">>

\* Requests whose run counted a turn and wrote its memory.
Counted ==
    { r \in Requests : /\ text[r] = "answer" /\ pc[r] # "memory"
                       /\ \E m \in effect[r] : m.turns > seen[r].memory.turns }

\* No stream has been closed at a yield, which gives its lease away early, and
\* no messages have been deleted, which takes no lease.
Leased == cuts = 0 /\ \A r \in Requests : link[r] # "orphaned"

\* No session memory is lost: each request reads the memory when it starts and
\* overwrites all of it minutes later, yet every counted turn is in it.
NoLostMemory == Leased => session.memory.turns = Cardinality(Counted)

\* A reply is appended to the very history its agent was given: no message of
\* another request comes in between, the abandoned workers notwithstanding.
AnswersFollowTheirHistory ==
    [][Leased =>
          \A r \in Requests : pc[r] = "question" /\ pc'[r] = "reply"
                                 => Len(session.hist) = seen[r].len]_vars

\* tests/test_query_execution_service.py:474, "interrupted turn persists
\* partial tool history": when a request that saves and whose tools produced
\* something ends, its turn is in the history, though its client may have left.
WorkIsRecorded ==
    [][Leased =>
          \A r \in Requests :
              (/\ kind[r] # "evaluate" /\ made[r]
               /\ pc[r] # "over" /\ pc'[r] = "over") => HasTurn(r, session'.hist)]_vars

\* As long as nobody deletes messages a reply stands right behind its own
\* question, even when the interrupted turn of an orphaned stream is saved
\* while another request has the lease.
TurnsTogether ==
    cuts = 0 =>
        \A i \in DOMAIN session.hist :
            LET message == session.hist[i]
            IN  message.role = "ai" =>
                    i > 1 /\ session.hist[i - 1].id = <<message.id[1], "user">>

\* persist_interrupted_once, repeated persistence: a request saves its turn at
\* most once, though run_agent and the closed generator may both try to.  (The
\* grown history they go by says nothing any more once messages are deleted.)
OneTurnEach ==
    cuts = 0 =>
        \A i, j \in DOMAIN session.hist :
            session.hist[i].id = session.hist[j].id => i = j

\* Both: what a request leaves in the history is its turn, whole and once.
TurnsWhole == TurnsTogether /\ OneTurnEach

\* Every request ends and in the end nobody holds the lease, though workers
\* may hang and clients leave.
LeaseReturned == <>[](lease = NoRequest /\ \A r \in Requests : pc[r] = "over")

=============================================================================
