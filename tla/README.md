# A formal model of the LLM data analyst

TLA+ specifications of the parts of `dimkablin/llm-data-analyst` that carry its
state through concurrency and failure: the stream that turns a question into a
saved turn, the requests a session serialises, the session store, the agent's
tool loop and its tool batches, the Python sandbox, the data sources of a
session, the semantic catalog, the plan/fact tables, the chat in the browser
and the administrators' accounts. TLC checks each on small instances; TLAPS
proves the safety properties of nine of them for every instance, among them
that the session store implements its atomic specification and the stream its
contract.

Read in this order: `StreamContract` (what one streamed query promises),
`QueryStream` (how it is done), `SessionData`, `AtomicSession`, `SessionStore`,
`SessionTurns`, `ToolLoop`, `ToolBatch`, `Sandbox`, `ChatClient`,
`SessionSources`, `SemanticCatalog`, `PlanfactTables`, `Administration`, and the
`*Proofs`. `PROJECT.json` links every definition to the lines it models.

## 1. The system

| Component | State | Operations | Interacts with |
|---|---|---|---|
| Query execution service, `api/services/query_execution.py` | per request: event queue, deadline, `client_cancelled`, `cancel_event`, `agent_finished`, deferred final event | `execute`, `prepare_stream`, `stream_events`, persistence of turns, fallbacks and interrupted turns | runner (worker thread), collectors, session store, `auth_db`, HTTP routes |
| Session store, `sessions/*.py` | session state (history, artifacts, memory, settings), per-process locks, query lease | load, save, append, set, cut, delete, acquire lease | PostgreSQL, blob store, sandbox manager |
| Blob store, `auth/blob_store.py` | encrypted blobs of sessions | `put_many`, `delete_ids_for_session` | PostgreSQL |
| Tool loop, `agent/tool_loop.py` | messages, repetition counters, iteration, status | `direct_tool_loop` | LLM client, tools, `cancel_event` |
| Collectors, `agent/callbacks.py`, `agent/graph_tracker.py` | events, phases, artifacts, execution graph | LangChain callbacks on the worker thread and the threads of a batch | event loop (`call_soon_threadsafe`), artifact sink |
| Runner, `agent/runner.py` | query cache, memory effects of a run | `run` | tool loop, compaction, memory |
| Context window and compaction | counts of summarised messages | trim, compact, build history | runner, tool loop |
| Sandbox and manager, `tools/sandbox.py`, `sandbox_manager.py`; tools, `tools/impl` | variables, execution count, lock of each sandbox; source and age by session; result cache of a tool | `get_or_create_for_source`, `execute`, `put`, `clear`, `remove`, `cleanup_expired` | worker processes, session store, routes |
| CSV runtime and session sources, `data_access/session_source_service.py`, `csv_runtime_state_service.py`, `tabular_upload_service.py` | manifest, notebook cells, blobs, tables, Parquet files | upload, connect, remove, clear, ensure, sweep | notebook, DuckDB, blob store |
| Semantic catalog, `data_access/semantic_catalog_*.py`, `semantic_generation_service.py` | generated document, overlay, published catalog, jobs, vector index | claim, build, generate, edit, publish, clear, interrupt | background tasks, LLM, vector store |
| Plan/fact source, `data_access/planfact_source_service.py` | configuration and derived tables | `confirm` and its steps | DuckDB, manifest |
| Authentication and administration, `auth/auth_db.py`, `api/routes/admin.py` | users, roles, tokens, settings | CRUD, role changes | PostgreSQL |
| Chat, `frontend/src/app/hooks/useChatAgent.ts`, `Workspace` | messages per session, running stream, abort controller | send, stop, recover, retry, open, refresh | HTTP routes |
| User memory, notebook kernels, database access, integrations, skills, observability, report export | their own | CRUD, I/O, formatting | see section 8 |

What is hard here: a request runs in four places at once (worker thread,
`run_agent`, `emit_live_reasoning`, response generator) and its client may
leave at any of its suspension points; a deadline abandons a thread that cannot
be stopped, which goes on with the sandbox and the store; every write may fail
after others succeeded; state is read when a request or a task starts and used
minutes later; two Uvicorn workers share a database but not a lock; blobs,
files and indexes are written apart from the state naming them; a background
task learns that it was cancelled only when it touches its row.

What makes each component correct:

- *Stream*: one terminal event and last, nothing lost, at most one turn saved
  and the final event truthful about it, silence after the client has gone, a
  worker never left running unaware, an end and a released lease.
- *Requests of a session*: no lost memory, answers that follow the history they
  were given, turns in one piece, interrupted work recorded, the lease returned.
- *Store*: calls atomic to their callers, no record without its blob, no blob
  without a record, shown artifacts kept.
- *Tool loop and batches*: complete tool exchanges in every prompt, repetition
  limits, heed of a cancel, an honest outcome, termination; an artifact
  collected and stored once although the calls of a batch run side by side.
- *Sandbox*: no variable of another source; what was reported is there.
- *Sources*: what is listed is there with all it needs and comes back.
- *Catalog*: one operation at a time, versions that tell what is in, an index
  without ghosts.
- *Plan/fact*: sums and row numbers of the files kept through every join.
- *Chat*: the stop button reaches the stream, answers stand where they belong.

## 2. Modules

| Module | Models | State and actions |
|---|---|---|
| `StreamContract` | the promise of one streamed query | `link`, `reply`, `turn`; `SaveTurn`, `Reply`, `End`, `Leave` |
| `QueryStream` | `_stream_events_locked` and what it drives | worker (`WorkerCallback`, `WorkerPhase`, `ToolEnds`, `SinkReturns`, `WorkerReturns`), loop callbacks (`RunCallback`), `run_agent` (`AgentStarts`, `AgentAnswers`, `AgentRejects`, `AgentFails`, `AgentDropped`, `AgentDeadline`), poller (`EmitPass`, `EmitRaises`), generator (`Iterate` .. `Resume`), client (`LeaveAwaiting`, `LeaveAtYield`, `CloseOrphan`, `LeaveAtStart`, `NeverIterated`) |
| `SessionData` | the session state and the pure part of each store method | operators on a session record |
| `AtomicSession` | what callers of the store may assume | `TakeEffect`, `Fail` |
| `SessionStore` | `PostgresSessionStore` under concurrent calls | `Upload`, `OpenRow`, `FetchMessages`, `FetchArtifacts`, `FetchMemory`, `Save`, `SaveFails`, `Free`, `FreeFails`, `Undo`, `Drop`, `Crash` |
| `SessionTurns` | requests of one session under the lease | `Acquire` .. `BeginStream`, worker `Produce`, `Return`, handler `Answered` .. `SaveReply`, `Finish`, client `LeaveAwaiting` .., `DeleteMessages` |
| `ToolLoop` | `direct_tool_loop` | `AskModel`, `ModelAnswers`, `ModelCalls`, `Dispatch`, `FinishTools`, `Exhausted`, `Summarize`, cancellations |
| `ToolBatch` | the calls of a batch on the threads of a pool, `ToolCollector`, the tool nodes of `ExecutionGraphTracker`, the safety net of `_wrap_tool_call` and the saved activities | one action per callback, which holds the collector's lock |
| `Sandbox` | `SandboxManager`, `SessionSandbox` and how tools use them | run: `Load`, `Reuse`, `Create`, `AwaitReplacing`, `Replace`, `Bind`, `Call`, `Fetch`, `Materialize`, `Hit`, `Miss`, `Refuse`, `Copy`, `Execute`, `Return`, `Fail`, `Publish`, `Succeed`, `Answer`, `Deadline`; removal: `ChangeSource`, `DeleteMessages`, `Pop`, `Sweep`, `Clear` |
| `ChatClient` | `useChatAgent` and the Workspace page | a browser task per action: sending, events, stopping, recovery, retry, opening and refreshing sessions |
| `SessionSources` | uploads, links, removals, the temporary runtime and its rebuild | a step of an addition, removal or query between two writes |
| `SemanticCatalog` | operations, tasks, edits, clearing, the index | claims, the steps of `build` and `generate`, publication, polls that interrupt, edits and connection changes |
| `PlanfactTables` | `confirm`: unrolling, summing, matching, joining | pure operators, one action per stage |
| `Administration` | `set_user_admin`, `delete_user`, `create_user` at READ COMMITTED | a statement per action |
| `QueryStreamProofs`, `SessionTurnsProofs`, `SessionStoreProofs`, `ToolLoopProofs` (also of `ToolBatch`), `SemanticCatalogProofs`, `SandboxProofs`, `SessionSourcesProofs` (also of `PlanfactTables`), `ChatClientProofs` | theorems | |
| `MC*` | instances for TLC | |

What holds the modules together: `SessionStore` implements `AtomicSession` in
one process, and `SessionTurns` uses a store call as one step on the same
`SessionData` operators. `QueryStream` implements `StreamContract`;
`SessionTurns` keeps of a stream only the steps that touch the session or the
lease, and `ChatClient` only what reaches the browser. `ToolLoop` looks inside
the worker of `QueryStream`, `ToolBatch` inside one dispatch of `ToolLoop`, and
`Sandbox` inside the calls, together with the routes that take it away.

Steps are as fine as the code allows to interleave. A step of an asyncio task
is the code between two suspension points, a step of the browser one task with
its microtasks; the worker thread's steps are its accesses to shared state; a
store call in `SessionStore`, and a request in `Administration`, is split at
every SQL statement. Some steps deserve a word:

- `LeaveAtYield` and `CloseOrphan`: a client that disconnects while the
  transport sends an event leaves both generators suspended at a yield. They
  are closed from the outside in, so `stream_events` releases the lease before
  the inner generator runs its `except` clause.
- `NeverIterated`: the body of a response that is never asked for never runs,
  nor does its `finally`; the advisory lock falls when the connection holding
  it is finalized (`ConnectionFinalized`).
- `SinkReturns`: a failing artifact sink is swallowed; `Uncollected` is what
  `_persist_uncollected_artifacts` stores later.
- `AgentAnswers`: the writes of a turn are one synchronous stretch of the loop
  thread that a fault may cut after any write; the exception is flagged in the
  final event, except that an exception outside the inner `try` saves a
  fallback turn.
- `Fetch*` in `SessionStore`: READ COMMITTED gives each statement of a load its
  own snapshot.
- `Deadline` in `Sandbox`: the request gives up the lease; its thread stays and
  goes through the remaining actions beside the next request.
- `AwaitReplacing` and `Pop` in `Sandbox`: `clear` waits for a sandbox's lock,
  hence for its worker process, inside the manager's lock.
- `Copy` in `Sandbox`: `execute` copies the variables before it takes the lock.

Several definitions stand before the one that models the code and differ from
it by one plausible mistake (`MessagesAnswerFirst`, `DefersNothing`,
`EmptiedBox`, `ExecutedInPlace`, `RepeatsLater`, ...). No specification uses
them. They name the mistakes the properties detect: with the mistaken operator
in the place of the right one, TLC finds the property violated
(`PROJECT.json`, "mutants").

## 3. Runs

Sizes are numbers of distinct states.

| Run | Question | Size |
|---|---|---|
| `stream` | With hangs, deadlines, disconnects, failing writes, sinks and snapshots, does a stream keep its contract, end with one truthful terminal event and give the lease back? | 1.09 M |
| `store` | In one process, through failing saves and deletions, crashes and a deleted session, are calls atomic, do records and blobs agree, do shown artifacts stay? | 1.48 M |
| `turns` | Do two requests of any kind, with clients leaving and messages being deleted, keep memory, history and turns, and does the lease come back? | 1.35 M |
| `loop` | Prompts, repetitions, outcome, termination of the tool loop | 42 k |
| `tools` | Three calls of every kind, in one or two batches: artifacts once, honest progress, all saved | 1.28 M |
| `chat` | Two sessions, two queries, three page loads: stop, answers, end of streaming | 281 k |
| `sources` | Two uploads and a database link, three changes, a crash, a lost disk, an expiry: listings, rebuilds, return of lost tables | 238 k |
| `catalog` | Two operations, an edit, a clearing, a crash: versions, index, ends | 504 k |
| `planfact` | Every combination of small plan and fact files, mappings and modes: sums, lineage, matches | 829 k |
| `sandbox` | A run and the abandoned thread of the one before, a removal, a change of source: sources apart, reports kept, progress | 568 k |

Two runs end in a violation and show a disagreement between the code and what
the repository says of it:

| Run | What it shows |
|---|---|
| `planfact_shared` | Two fact articles matched with one plan article are not summed again (after a CFO mapping they are), so the join repeats the plan row and the query of `skills/planfact_variance_analysis/SKILL.md:48` counts the plan twice (`PlanCountedOnce`). |
| `administration` | Two administrators who demote or delete each other at once both count two and both write: nobody is left (`AdministratorRemains`, against the refusals at `auth_db.py:875` and `:891`). With one request at a time the property holds for another reason, since nobody may demote or delete himself: the count can matter only in the race it does not handle. |

### Conditions

Some properties are stated under a condition because the code does not promise
more; each limit was seen as a counterexample first.

- *stream*: `OneTurn` leaves out the fault `"build"` (building the response
  raises after the turn was saved: a fallback turn follows).
- *turns*: the properties hold while `Leased`: nobody deletes messages and no
  stream is orphaned. The delete route takes no lease: a cut between the two
  appends of a turn leaves an answer alone, and a cut below the length a stream
  read at its start makes an interrupted stream save its turn again. A client
  that leaves while an event is sent returns the lease first; if another request
  saves its turn before the orphaned generator is closed, the interrupted work
  is dropped and memory may be lost.
- *store*: the blobs' property leaves out the crash after an upload (nothing
  collects that blob) and failing deletions, which `add_artifacts` takes for a
  failing save and answers by deleting the new, referenced blobs.
- *loop*: the prompt of the summary request is left out: a repetition inside a
  batch leaves calls in it unanswered.
- *tools*: a call whose callback is missed beside others loses its artifact, so
  `unheard` calls are alone; calls of one name without ids may swap their ends;
  a node whose callback collected the artifacts stays running.
- *chat*: `Patient = TRUE`: the user touches nothing between the awaits of a
  retry or a recovery. Otherwise a retry calls the `sendQuery` of an old render,
  two streams may run and the first to end drops the other's controller. A retry
  deletes the previous exchange when its query was not saved, and asks again in
  the session on the screen. A session read before a stream's end takes the shown answer off
  the screen until the next load.
- *sources*: `Overlap = FALSE`: changes of one session's sources follow one
  another, and file names differ. Two at once lose or restore entries of the manifest (it
  is read and written whole); while the runtime is expired, table names count as
  free and a second upload of a file name overwrites the Parquet file.
- *catalog*: `Apart = TRUE`: edits and clearings do not overlap a generation. An
  edit and a generation each add one to the version they loaded; a cleared
  catalog is published again by the generation it cancelled. Deletions in the
  vector store do not fail; `ready` stands for `degraded` too.
- *planfact*: whole money, one article column, no extra key columns. Normal
  forms are given and stable (`normalize_article_key` is not for labels with two
  leading numbers). Fact rows without an article code and a match join on the
  empty key. A CFO spelled differently in the two files and not mapped is
  reported as matched and not joined: `CfosMeet` says of the mapped ones that
  they are joined, and of the others only that the rows of their normal form,
  together, have plan and facts. The rows of a plan file have amounts for the
  same months, its columns.
- *sandbox*: the properties are about the session's sandbox. One that was taken
  away during a run stays in the run's hands, emptied and counted from zero: a
  cached success may then stand for variables that are gone, against
  `message_builder.py:385`. Otherwise the cache never hits, because every
  successful call has counted an execution. An abandoned thread may set again a variable the next run
  has set.

Known deviations of the code that no run states, for want of a sentence of the
repository they contradict or because they need two processes: a graph
snapshot that raises ends the stream with neither `final` nor `error`; memory
written back after a deletion counts deleted messages as summarised; two
Uvicorn workers (`Dockerfile.backend:57`) overwrite each other's appends, since
the store's lock is per process; `if not request.sandbox` asks for the number of
executions, so that a sandbox filled by SQL alone is not shown to the model.

Deadlock is not checked where requests, calls, files or events are finite and
each behaviour comes to its end and stops there; what must be reached is
stated as liveness instead. `administration` checks it.

## 4. Bounds

- `MaxCallbacks`, `MaxPhases`, `Artifacts`: two callbacks, a phase and an
  artifact are enough for an event to be in the collector, the loop, the queue
  and the client at the same time; more only lengthen the queue. The proofs
  drop these bounds.
- `Threads` of the store: an overwritten update takes two callers; a cut needs a
  third that wrote; an orphan blob needs an upload, a replacement and a cut, and
  a shared artifact two messages, an artifact and a cut, hence four. One process:
  see the conditions. Equal threads are symmetric.
- `Requests`: two for every race of a pair. Three (3.47 M states without
  liveness) show nothing more. `Keep`: the code keeps four messages from
  compaction; the model's histories are short, hence 1. `MaxCuts`: one deletion.
- `MaxIterations = 3`, `MaxToolsPerCycle = 2`, `MaxCalls = 3`, two results:
  the repetition limit is three, so that it is reached in one batch after
  another, inside a batch and never, with calls skipped.
- `NCalls = 3`: a call beside another and one behind or before both; the shapes
  are every output of a call with and without an id, those that behave alike
  given once.
- `chat`: two sessions so that a stream may belong to the one off the screen,
  two queries for a retry or a second question, three loads for two sessions
  and a refresh.
- `sources`: two uploads and a link; three changes are an addition of each, or an
  addition and a removal beside another source; one crash.
- `catalog`: two operations for one to supersede the other; one metric, edited
  once, cleared once, one crash. The proofs drop these bounds.
- `planfact`: two plan rows and two or three fact rows: two spellings of one
  CFO and another one, labels that match exactly, by code, by hand, by
  dictionary, by likeness above and below the threshold and not at all, an
  unreadable date, a month without plan, a negative amount.
- `sandbox`: the abandoned run, with one call, and its successor with two, so
  that the second call of the one may hit its cache; one name, two sources, one
  removal (two removals, safety only: 1.6 M states). The proofs drop these
  bounds.
- `administration`: two administrators, a third user, two requests.

## 5. Fairness

`QueryStream`: the event loop runs every task that can run, the deadline
(`anyio.fail_after`) fires on a task that goes on waiting, the transport takes or
refuses what is sent, a connection nobody refers to is finalized. Nothing is
assumed of the worker thread, which may hang for ever, nor of the client.
`SessionTurns`: the handlers run, the deadline fires. `ToolLoop` and `ToolBatch`:
the model call has a client timeout and a tool returns; one that hangs is left
to the deadline. `Sandbox`: the threads run; a worker process may never return,
but the wait for it has a timeout, after which it is terminated or killed
(`Fail`). `ChatClient`: requests are accepted or refused and streams settle;
nothing is assumed of the user. `SessionSources`: a change that was begun is
carried on, a query goes on; `csv_expires_at`, which only loading the data
moves, runs out in the end (strong fairness of `Lapse`), and `ListedComesBack`
holds for somebody who keeps asking. `SemanticCatalog`: a task that does not
hang takes its steps, and somebody looks at the status now and then, which is
what interrupts dead operations. Fairness is stated over disjunctions where
only one of several outcomes must happen (`AgentResumes \/ AgentDeadline`).

## 6. Proofs

Each proof shows that `Init` implies an inductive invariant, that each action
preserves it (one step per action) and that it implies the property; the
temporal step is the last. The strengthenings were model-checked before they
were proved.

`QueryStreamProofs`, for every `MaxCallbacks`, `MaxPhases`, `Artifacts` and
`Faults` that satisfy `BoundsAssumption` and `FaultsAssumption`:

| Theorem | Says | Inductive invariant |
|---|---|---|
| `TypeCorrect` | `[]TypeOK` | `TypeInv`: the types, and that a worker inside the sink has collected an artifact, without which `SinkReturns` would store the last element of an empty sequence |
| `LeavingSilences` | `SilentAfterLeaving` | `LeftMeansGone`: once `client_cancelled` is set the generator is over, so only `run_agent` could still write, and each of its branches looks at the flag first |
| `AtMostOneTurn` | `[]OneTurn` unless `"build"` may fail | `TurnInv`: besides the property, that the history of the request is empty until `run_agent` has ended or the client has left |
| `WorkersAreTold` | `[]WorkerToldToStop` | `WorkerInv`: if nobody was told, `"result"` is posted last by a worker that returned, `run_agent` is woken only by it and ends only after it, `"done"` is queued only by `run_agent`, and the generator closes normally only behind `"done"` |
| `StreamsEndOnce`, `StreamsLoseNothing` | `[]OneEnding`, `[]NothingLost` | `StreamInv`: terminal events on the queue, deferred or sent are one once `run_agent` is over and none before (`EndingInv`); what was posted and not sent is counted in `ready` and `queue`, and a stream that is closing has emptied both (`CountsInv`, `ClosingInv`) |
| `FinalsAreSaved` | `[]FinalIsSaved` | `ReportInv`: besides, a final event on its way, not only a sent one, stands for the whole turn in the session, and artifacts whose sink failed are those the end of the request still saves (`SavedInv`) |
| `StreamsKeepTheContract` | `ImplementsContract`, the refinement, unless `"build"` may fail | `ReportInv` and `OneTurn`: each step writes a turn, sends a reply, ends or leaves as `StreamContract` allows, or is a stutter |

`OneTurn` is false with the fault `"build"`, so the two theorems that need it
assume it away, and `stream` leaves it out. The others hold with it. How many
events of a kind a sequence holds is the cardinality of their positions, so that
the counting lemmas need no recursion.

`SessionTurnsProofs`, for any requests of any kinds (finitely many where turns
are counted):

| Theorem | Says | Inductive invariant |
|---|---|---|
| `TurnsTypes` | `[]TypeOK` | `TInv`: types, and `LoopHeld`: the request in the middle of a synchronous stretch has the event loop |
| `TurnsStayWhole` | `[]TurnsWhole` | `HInv`: while nobody deletes, each message stands behind what its request has read, so a second attempt at saving sees a grown history; a question without its reply is the last message, since its request has the loop |
| `MemoryIsKept`, `AnswersFollow`, `WorkIsKept` | `NoLostMemory`, `AnswersFollowTheirHistory`, `WorkIsRecorded` | `WInv` (what a worker returns is what it was given, with its turn or not) and `LInv`: while the lease serialises, the one request in flight holds it, the history has grown by exactly what it has saved, and the memory it read is the one it will overwrite |

`SessionStoreProofs`, for any threads, artifacts, calls and faults; but for the
types in one process (`OneProcess`):

| Theorem | Says | Inductive invariant |
|---|---|---|
| `StoreTypes` | `[]TypeOK` | `Types`: besides, which calls can be where, and that no copy has two records of one artifact |
| `CallsAreAtomic` | `ImplementsAtomicSession`, the refinement | `LockInv`: a thread inside the lock has loaded the row as it is, as far as it has come, so `Save` applies its call to the row itself; every other step maps to a failure or a stutter |
| `BlobsMatch` | `[]BlobsMatchRecords` | `BlobInv`: a record with a blob was saved by the call that uploaded it, so blobs that lose their record never get one again; what a call will delete has no record; a blob without a record is in somebody's trash or its call is under way |
| `ShownStay` | `ShownArtifactsStay` | `LockInv` |

`ToolLoopProofs`, for all limits and keys: `LoopTypes`, `PromptsAreWellFormed`,
`RepetitionStops`, `OutcomesAreHonest` and `CancelStopsTools` (no tool is
started once the run is cancelled, which no run states, since it shows on the
guards). The same module proves about `ToolBatch`, whose names are apart from
those of `ToolLoop`, for any number of calls, any tools, outcomes and order of
callbacks (`BatchAssumption`):

| Theorem | Says | Inductive invariant |
|---|---|---|
| `BatchTypes` | `[]BatchTypeOK` | `BatchInv`, all of the following |
| `ArtifactsAreOnce` | `[]ArtifactsOnce` | `Exclusive` (a call that is alone has no other inside) and `InTurn`, by which the guard of `MayEnter` keeps batches apart; `Gathered`: an artifact comes after its call was counted in, hence its call sees the count moved, and while an alone call is inside, the count is as it left it; `Stored`: what is stored was marked before |
| `ProgressStaysHonest` | `[]ProgressIsHonest` | `Graph`: whom the tracker takes for running has that name and has started, so a return finishes one node at most; `Told`: a call that has begun has one activity, and the last one is open and its own while it is alone. That an end without an id always finds an activity to close is a pigeonhole argument: the other calls of its name cannot have closed them all |

`SemanticCatalogProofs`, for any number of operations, metrics, edits, clearings
and crashes:

| Theorem | Says | Inductive invariant |
|---|---|---|
| `CatalogTypes`, `OperationsAreUnique`, `OperationsEndOnce` | types; one running operation; an ended operation keeps its end | `TInv`: types, at most one running job, drafts exist where a task is about to use them, a claim and an edit hold what they have loaded |
| `VersionsStayHonest` | a published version stands for one overlay, if edits keep `Apart` | `SInv`: besides, that what a task or an edit holds (the overlay it read, the draft it made) fits the version it will publish, and that no edit is overtaken by a generation; without it a late publication could put an old draft under the version of a new overlay |
| `HitsStayReal` | `[]HitsAreReal`, if edits keep `Apart` | `HInv`: there is a history of overlays by version that accounts for every point of the index: it was in the overlay of its version, or an operation that is still to publish or take it out wrote it, or one that has ended and whose version is never published. The history is no variable; the invariant says that one exists, and each step shows how to extend it |

`SandboxProofs`, for any number of runs, sources, names, calls and removals:

| Theorem | Says | Inductive invariant |
|---|---|---|
| `SandboxTypes` | `[]TypeOK` | `HInv`: types, and `Held`: who has a sandbox, and that a thread that waits in `clear` is inside the manager's lock and the session has a sandbox, without which `Clear` would empty sandbox 0 |
| `SourcesStayApart` | `[]SourcesDoNotMix` | `KInv`: besides, `Kept`: runs that share a sandbox have one source, that of its identity if it is the session's; its values, and the copies, were set by started runs of that source. A sandbox given up stays with its runs, which is why a fresh one is made |
| `ReportsAreThere` | `[]ReportedIsThere` | `Puts`: besides, cached results are keyed below the execution count, so the cache never hits in the session's sandbox, and the items published so far are there |

`SessionSourcesProofs`, for any sources, file names, queries, losses and crashes,
while changes do not overlap (`~Overlap`):

| Theorem | Says | Inductive invariant |
|---|---|---|
| `SourcesHold` | `[]ListingsHold` | `SourcesInv`: where a source may be listed, have a cell and a blob, by how far its change has come, and that the change has the manifest at hand as it is, without which writing it back would undo another one |
| `SourcesTypes` | `[]TypeOK` | `RuntimeInv`, below |
| `RebuildsCoverListings` | `RebuildIsComplete` | `RuntimeInv`: besides, `Numbered` (the table numbers in use are no more than the uploads that have begun, so a new upload always finds a free one) and `Kept`: the rows of an upload that has its table alone are in it from its registration until its change is over, and what a query has loaded for a rebuild covers each listed upload, or the table stands in the directory already and `Rebuild` takes it over. What was added between reading the manifest and creating the tables is in the second half |

The preparation of the last one corrected the property. A query that writes the
meta file back may drop the name of a table; a later upload of the same file name
is then given the table of an earlier one, and a rebuild has rows for one of them
only. That takes three uploads, which TLC does find; `RebuildIsComplete` speaks
of uploads that have their table alone (`Alone`).

The same module proves about `PlanfactTables`, for any files, mappings by hand
and likeness of names (`TablesAssumption`: what `confirm` is given after parsing):

| Theorem | Says | Inductive invariant |
|---|---|---|
| `MatchesMeetThePlan` | `[]MatchesAreJoined` | `TablesInv`: after unrolling, the plan has every month for each article of a CFO (`PlanIsFull`), and a row of facts has a month with facts; it is as it was read, or its article is one of the plan's for its CFO exactly when it says that it was matched (`IsTold`). What `groupby` does to keys is in `GroupsOfRows`: each row is in one group, under its key, and a group has the other columns of its first row |
| `TablesTypes` | `[]TablesTypeOK` | `ColumnsInv`: responsibility centres, months and outcomes of matching have their values through grouping, mapping and matching; with `BooksInv`, by which amounts are sums |
| `SumsAreConserved` | `[]SumsConserved` | `BooksInv`: both tables of facts account for all facts with a date (`Accounts`: their rows have different row numbers, and the amount of a row is the sum of the file rows with its numbers), through grouping (`AccountsGroup`), mapping and matching, which change other columns (`AccountsImage`); a row by CFO is of the CFO and the month of each of its facts. What the outer join adds up on either side is in `MergedFacts` and `MergedPlan`: the facts always, the plan if facts have one row for a key at most |
| `LineageIsExact` | `[]LineageExact` | `BooksInv`; the plan side by `PlanRowsAccount`: the rows of a month account for its column of the file (`MergedLineage`) |
| `CfosMeetThePlan` | `[]CfosMeet` | `BooksInv`: besides, `cfo_matching` was made from the facts as they stand. `SpellingIsThere`: a mapped CFO that the plan has in some spelling gets one of the plan's; `PlanOfCfo`: the joined rows of a normal form have the plan of its rows |

The sums in them are folds over finite sets, which the community modules define by
recursive functions. That such a function exists (`FoldExists`), that the sum does
not depend on the order in which a fold takes the elements (`SumSteps`) and that a
sum of sums over sets apart is the sum over their union (`SumOfSums`) are proved by
induction on the size of the set, the induction itself from the least element of a
set of numbers (`NatSteps`), because the library's own induction theorem takes an
operator as a parameter. `ReportAgrees` was stated for CFOs with one spelling;
the proof does not need that, and it is stated without it now.

`ChatClientProofs`, for any number of sessions, queries and page loads:

| Theorem | Says | Inductive invariant |
|---|---|---|
| `StreamsCanBeStopped` | `[]StopReachesTheStream` for a user who waits (`Patient`) | `StopInv`: calls are used in their order, one stream at most is open, with its controller and its session at hand; a retry or a recovery has one read under way, and nothing streams while a retry waits, so the call it makes in the end displaces no controller |
| `MessagesBelong` | `[]AnswersBelong` for such a user | `BelongInv`: besides, what is shown, kept by the server or on its way in a read is made of messages of calls of that session, with each answer behind its question, and the question of an open stream stands in its slot, so that its answer finds it |

Model-checked only: liveness (`StreamCloses`, `LeaseReturned`, `LoopEnds`,
`AllSaved`, `StreamingEnds`, `ListedComesBack`, `OperationsEnd`,
`RunsGetThrough`), which needs fairness and ENABLED and is out of the prover's
reach.

## 7. Assumptions

- `SessionTurns` models one process, hence one event loop. The lease is a
  PostgreSQL advisory lock and works across processes; the loop does not.
- Store calls are atomic in `SessionTurns`, which `store` justifies for one
  process only. They do not fail there; failing writes are the subject of
  `QueryStream` and `SessionStore`.
- Callbacks posted with `call_soon_threadsafe` run in order; the result of the
  worker is posted behind its callbacks.
- The `"race"` fault is an exception in `snapshot` while the worker runs and the
  graph is dirty; when it strikes is left open.
- `Sandbox`: the source of a session stands for its type, reference, mode and
  CSV session, which is what the manager compares; fresh data under the same
  identity keeps the variables. A put is atomic. An exception from a dictionary
  that changes while `execute` iterates over it is one way of `Refuse`. `None`
  is none of the values.
- Texts, payloads, token counts, reasoning and money formats are abstracted.

## 8. Not modelled

- *Computed elsewhere*: the query cache and the data frame cache of the session
  store, summaries and token estimates, user memory: best-effort copies or
  texts by a model, without a promise to the session.
- *Around the tool loop*: the semantic route and the linear graph of nodes; phase
  and agent nodes of the execution graph; unknown tools.
- *Sandbox*: preflight and language checks, the notebook of a sandbox, the schema
  registry, the binding of `df`; other sessions, which share the manager's lock
  only. `get_or_restore` and `rehydrate_artifacts_from_sandbox` are not called in
  production.
- *Sources*: previews and SQL over the tables. *Catalog*: queries, validation,
  scenario reviews, marking stale by age. *Plan/fact*: detection of columns, the
  protocol of the confirmation, storage of configuration and manifest,
  dashboards.
- *Chat*: the message about restored artifacts, drafts, blocks, rendering; the
  read of a recovery is one step. *Administration*: tokens, passwords, settings,
  connections, which are single-row CRUD.
- *Pure I/O, formatting or static data*: database access, integrations, skills,
  observability, benchmark, report export and plots, notebook kernels, the
  example data generators. They hold most of the source lines and little state
  that several actors share; a model of them would restate SQL and layout.

`PROJECT.json` lists each component with its status, and under "hazards" what
each property leaves open.

## 9. Plan

1. Extend the model
   - `ContextWindow`: `trim_context_messages` against a reference definition;
     `ToolLoop` then uses it in place of `Trimmed`.
   - `QueryCache`: `_cache_get`, `_cache_set`, `_trim_query_cache` from several
     worker threads, with the Redis copy and its expiry.
   - The confirmation protocol of plan/fact sources with its configuration and
     manifest; overlapping changes of the sources with their own properties.
2. Prove more. Every invariant and action property of the passing runs is proved;
   what is left does not belong to a run.
   - `Administration`: requests one after another leave an administrator.
   - What (1) adds.
